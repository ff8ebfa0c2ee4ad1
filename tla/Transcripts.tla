---------------------------- MODULE Transcripts ----------------------------
(***************************************************************************)
(* Concall transcripts: PDFs that the filings announce are fetched, stored *)
(* whole and annotated by a model.  A watcher does so for ever; runs from  *)
(* the command line retry, restructure, backfill and recover rows of the   *)
(* same table next to it.  A document is known by its place in the order   *)
(* of announcements, a text by what kind of document it came from.         *)
(***************************************************************************)
EXTENDS Integers, Sequences, SequencesExt, FiniteSets

CONSTANTS
  Docs,           \* announcements, numbered in their order
  Old,            \* announcements stored without the address of the PDF
  Content,        \* what the PDF of a document is: see Texts
  Links,          \* what the links of a letter lead to, the best first
  Unstorable,     \* documents whose text the database does not take
  Runs,           \* kinds of run from the command line
  MaxRuns, MaxTranscriptFaults    \* bounds

\* A transcript, a letter that only announces one, some other document with
\* enough text, a scan, a file no text comes out of.
Texts == {"call", "letter", "other", "scan", "garbled"}

ASSUME TranscriptsAssumption ==
  /\ Docs \subseteq Nat /\ IsFiniteSet(Docs)
  /\ Old \cup Unstorable \subseteq Docs
  /\ Content \in [Docs -> Texts] /\ Links \in [Docs -> Seq(Texts)]
  /\ Runs \subseteq {"retry", "backfill", "restructure", "recover"}
  /\ {MaxRuns, MaxTranscriptFaults} \subseteq Nat

VARIABLES
  announced,    \* rows of news_items
  transcripts,  \* rows of concall_transcripts
  jobs,         \* of the watcher and of a run: documents to come, the one in hand
  runs, transcriptFaults

transcriptVars == <<announced, transcripts, jobs, runs, transcriptFaults>>

Jobs   == {"watch"} \cup Runs
Absent == [parse |-> "absent", structure |-> "pending", text |-> "none"]
Idle   == [todo |-> <<>>, step |-> "idle", text |-> "none", links |-> <<>>]

TranscriptsInit ==
  /\ announced = {}
  /\ transcripts = [d \in Docs |-> Absent]
  /\ jobs = [j \in Jobs |-> Idle]
  /\ runs = 0 /\ transcriptFaults = 0

TranscriptFault ==
  /\ transcriptFaults < MaxTranscriptFaults
  /\ transcriptFaults' = transcriptFaults + 1

Announce(d) ==
  /\ d \notin announced /\ \A e \in Docs : e < d => e \in announced
  /\ announced' = announced \cup {d}
  /\ UNCHANGED <<transcripts, jobs, runs, transcriptFaults>>

-----------------------------------------------------------------------------
(* The queue of a job is read once, when it starts.                        *)

Queue(j) ==
  {d \in announced :
     LET row == transcripts[d]
     IN  \/ j = "watch" /\ d \notin Old /\ row.parse = "absent"
         \/ j = "retry" /\ d \notin Old /\ row.parse # "ok"
         \/ j = "backfill" /\ d \in Old /\ row.parse = "absent"
         \/ j = "restructure" /\ row.parse = "ok" /\ row.structure # "ok"
         \/ j = "recover" /\ row.parse = "not_transcript"}

\* Oldest first; restructure takes the newest first.
InOrder(j) == LET q == SetToSortSeq(Queue(j), <) IN IF j = "restructure" THEN Reverse(q) ELSE q

Start(j) ==
  /\ jobs[j] = Idle /\ Queue(j) # {}
  /\ IF j = "watch" THEN UNCHANGED runs
     ELSE /\ \A r \in Runs : jobs[r] = Idle
          /\ runs < MaxRuns /\ runs' = runs + 1
  /\ jobs' = [jobs EXCEPT ![j] = [Idle EXCEPT !.todo = InOrder(j), !.step = "fetch"]]
  /\ UNCHANGED <<announced, transcripts, transcriptFaults>>

InHand(j) == Head(jobs[j].todo)

\* The job goes on with its next document.
Advance(j) ==
  LET rest == Tail(jobs[j].todo)
  IN  jobs' = [jobs EXCEPT ![j] =
        IF rest = <<>> THEN Idle ELSE [Idle EXCEPT !.todo = rest, !.step = "fetch"]]

\* An exception nobody catches in the loop over documents ends the job.
Ends(j) == jobs' = [jobs EXCEPT ![j] = Idle]

Brings(j, text) == jobs' = [jobs EXCEPT ![j].text = text, ![j].step = "store"]

-----------------------------------------------------------------------------
(* Fetching.                                                               *)

\* The file of the announcement.  What could not be fetched is recorded by
\* the watcher and by retry, and skipped by restructure; a backfill asks the
\* exchange for the address first, and skips what it got no answer for.
Fetch(j) ==
  /\ jobs[j].step = "fetch" /\ j # "recover"
  /\ \/ Brings(j, Content[InHand(j)]) /\ UNCHANGED transcriptFaults
     \/ /\ TranscriptFault
        /\ IF j = "restructure" THEN Advance(j)
           ELSE Brings(j, "nothing") \/ (j = "backfill" /\ Advance(j))
  /\ UNCHANGED <<announced, transcripts, runs>>

\* An old announcement whose address the exchange does not know.
StoreStub ==
  /\ "backfill" \in Runs /\ jobs["backfill"].step = "fetch"
  /\ transcripts' = [transcripts EXCEPT ![InHand("backfill")] =
       IF @ = Absent THEN [@ EXCEPT !.parse = "url_not_found"] ELSE @]
  /\ Advance("backfill")
  /\ UNCHANGED <<announced, runs, transcriptFaults>>

\* A letter is read for its links, and the links are followed in turn until
\* one brings a document with enough text.
ReadLetter ==
  /\ "recover" \in Runs /\ jobs["recover"].step = "fetch"
  /\ IF Links[InHand("recover")] = <<>> THEN Advance("recover")
     ELSE jobs' = [jobs EXCEPT !["recover"].step = "follow",
                               !["recover"].links = Links[InHand("recover")]]
  /\ UNCHANGED <<announced, transcripts, runs, transcriptFaults>>

Follow ==
  /\ "recover" \in Runs /\ jobs["recover"].step = "follow"
  /\ LET links == jobs["recover"].links
         next  == [jobs EXCEPT !["recover"].links = Tail(links)]
     IN  IF links = <<>> THEN Advance("recover") /\ UNCHANGED transcriptFaults
         ELSE \/ /\ jobs' = IF Head(links) \in {"call", "other"}
                              THEN [next EXCEPT !["recover"].text = Head(links),
                                                !["recover"].step = "store"]
                              ELSE next
                 /\ UNCHANGED transcriptFaults
              \/ TranscriptFault /\ jobs' = next
  /\ UNCHANGED <<announced, transcripts, runs>>

-----------------------------------------------------------------------------
(* Storing.                                                                *)

ParseStatus(text) ==
  CASE text = "nothing" -> "fetch_failed"
    [] text = "garbled" -> "extract_failed"
    [] text = "scan"    -> "needs_ocr"
    [] OTHER            -> "ok"

\* What the job leaves in the row: a retry keeps the annotations there are, a
\* backfill an existing row, restructure the status, a recovery nothing.
Written(j, row) ==
  LET text   == IF jobs[j].text \in {"nothing", "garbled"} THEN "none" ELSE jobs[j].text
      status == ParseStatus(jobs[j].text)
  IN  CASE j \in {"watch", "retry"} -> [row EXCEPT !.parse = status, !.text = text]
        [] j = "backfill"    -> IF row = Absent THEN [row EXCEPT !.parse = status, !.text = text] ELSE row
        [] j = "restructure" -> IF text = "none" THEN row ELSE [row EXCEPT !.text = text]
        [] j = "recover"     -> [parse |-> "ok", structure |-> "pending", text |-> text]

\* A stored transcript is annotated; a backfill leaves that to restructure,
\* which annotates whatever text it gets.
AfterStore(j) ==
  IF \/ j # "backfill" /\ ParseStatus(jobs[j].text) = "ok"
     \/ j = "restructure" /\ ParseStatus(jobs[j].text) = "needs_ocr"
    THEN jobs' = [jobs EXCEPT ![j].step = "annotate"] ELSE Advance(j)

Refused(j) == InHand(j) \in Unstorable /\ jobs[j].text \notin {"nothing", "garbled"}

\* Mutant: what the database refuses ends the cycle, as it did once.
StoreFails_Raises(j) == Ends(j) /\ UNCHANGED <<transcripts, transcriptFaults>>

\* A text the database refuses leaves a row without text, so that the document
\* is no longer pending; that may fail in turn.  Only the watcher and retry
\* look at the error: it ends a run of the other kinds.
StoreFails(j) ==
  IF j \notin {"watch", "retry"} THEN Ends(j) /\ UNCHANGED <<transcripts, transcriptFaults>>
  ELSE /\ \/ /\ transcripts' = [transcripts EXCEPT ![InHand(j)].parse = "store_failed",
                                                   ![InHand(j)].text = "none"]
             /\ UNCHANGED transcriptFaults
          \/ TranscriptFault /\ UNCHANGED transcripts
       /\ Advance(j)

Store(j) ==
  /\ jobs[j].step = "store"
  /\ \/ /\ ~Refused(j)
        /\ transcripts' = [transcripts EXCEPT ![InHand(j)] = Written(j, @)]
        /\ AfterStore(j)
        /\ UNCHANGED transcriptFaults
     \/ Refused(j) /\ StoreFails(j)
  /\ UNCHANGED <<announced, runs>>

\* The text is fine and the database is not.
StoreInterrupted(j) ==
  /\ jobs[j].step = "store" /\ ~Refused(j)
  /\ TranscriptFault
  /\ IF j \in {"watch", "retry"}
       THEN /\ \/ transcripts' = [transcripts EXCEPT ![InHand(j)].parse = "store_failed",
                                                     ![InHand(j)].text = "none"]
               \/ UNCHANGED transcripts
            /\ Advance(j)
       ELSE Ends(j) /\ UNCHANGED transcripts
  /\ UNCHANGED <<announced, runs>>

-----------------------------------------------------------------------------
(* _structure_row: the model finds who speaks when in the text the job has *)
(* in hand.  Nobody: the document is no transcript.  No answer: the row    *)
(* stays available without annotations.                                    *)

GoesOn(j, status) ==
  IF j = "recover" /\ status = "not_transcript"
    THEN jobs' = [jobs EXCEPT ![j].step = "follow"] ELSE Advance(j)

Annotate(j) ==
  LET row == transcripts[InHand(j)]
      status == IF jobs[j].text = "call" THEN row.parse ELSE "not_transcript"
  IN  /\ jobs[j].step = "annotate"
      /\ \/ /\ transcripts' = [transcripts EXCEPT ![InHand(j)].structure = "ok",
                                                  ![InHand(j)].parse = status]
            /\ GoesOn(j, status)
            /\ UNCHANGED transcriptFaults
         \/ /\ TranscriptFault
            /\ transcripts' = [transcripts EXCEPT ![InHand(j)].structure = "failed"]
            /\ Advance(j)
      /\ UNCHANGED <<announced, runs>>

\* The annotation cannot be written, or the process dies at any step.
JobDies(j) ==
  /\ jobs[j] # Idle
  /\ TranscriptFault
  /\ Ends(j)
  /\ UNCHANGED <<announced, transcripts, runs>>

-----------------------------------------------------------------------------

JobStep(j) == Start(j) \/ Fetch(j) \/ Store(j) \/ Annotate(j)

TranscriptsNext ==
  \/ \E d \in Docs : Announce(d)
  \/ \E j \in Jobs : JobStep(j) \/ StoreInterrupted(j) \/ JobDies(j)
  \/ StoreStub \/ ReadLetter \/ Follow

TranscriptsSpec == TranscriptsInit /\ [][TranscriptsNext]_transcriptVars

\* The watcher polls for ever, and every request and statement has a time-out.
WatcherFairness == WF_transcriptVars(JobStep("watch"))

-----------------------------------------------------------------------------
(* Properties.                                                             *)

TranscriptsTypeOK ==
  /\ announced \subseteq Docs
  /\ \A d \in Docs :
       /\ transcripts[d].parse \in {"absent", "ok", "needs_ocr", "fetch_failed", "extract_failed",
                                    "store_failed", "not_transcript", "url_not_found"}
       /\ transcripts[d].structure \in {"pending", "ok", "failed"}
       /\ transcripts[d].text \in Texts \cup {"none"}
  /\ \A j \in Jobs :
       /\ jobs[j].step \in {"idle", "fetch", "follow", "store", "annotate"}
       /\ (jobs[j].step = "idle") <=> (jobs[j].todo = <<>>)
       /\ ToSet(jobs[j].todo) \subseteq announced

\* One document does not block the queue: whatever a document does to the
\* database, those behind it get their row (kb/sync/transcript_sync.py, "One
\* document must never block the queue").
QueueMoves ==
  \A d \in Docs \ Old : (d \in announced) ~> (transcripts[d].parse # "absent")

=============================================================================
