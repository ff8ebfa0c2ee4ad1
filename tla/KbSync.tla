------------------------------- MODULE KbSync -------------------------------
(***************************************************************************)
(* How quarterly results reach the knowledge base.  A calendar tells when  *)
(* a company announces; twice a day the monitor syncs the companies that   *)
(* are due, and once a week it sweeps the universe.  A sweep keeps one     *)
(* transaction open over a batch of companies, so that the failure of one  *)
(* throws away what the others of the batch had written.  Each company has *)
(* one filing here: the one the exchange has not published yet.            *)
(***************************************************************************)
EXTENDS Integers, Sequences, SequencesExt, FiniteSets

CONSTANTS
  Companies,
  Established,    \* companies with earlier results and a data quality of 0.5 or more
  Failing,        \* companies whose filing the processing cannot take: it raises, always
  NoCompany,
  RetryDays,      \* days an announced filing is waited for
  SweepBatch,     \* companies per commit
  MaxManualSyncs, MaxSyncFaults    \* bounds

ASSUME KbSyncAssumption ==
  /\ Established \subseteq Companies /\ Failing \subseteq Companies /\ NoCompany \notin Companies
  /\ {RetryDays, MaxManualSyncs, MaxSyncFaults} \subseteq Nat
  /\ SweepBatch \in Nat \ {0}

VARIABLES
  filed,        \* companies whose XBRL the exchange has published
  results,      \* ... with a row in financial_results
  parsedFlag,   \* ... with nse_filings.xbrl_parsed
  quality,      \* ... with data_quality_score >= 0.5
  resultEvents, \* result_events: status, and the days since the announcement
  due,          \* events _sync_due_events still has to look at, and what it knows
  sweep,        \* sync_financials: companies to come, the open transaction
  resumePoint,  \* last_symbol_processed of the last sweep that failed
  manualSyncs, syncFaults

kbVars == <<filed, results, parsedFlag, quality, resultEvents, due, sweep,
            resumePoint, manualSyncs, syncFaults>>

NoSweep == [running |-> FALSE, todo |-> <<>>, open |-> {}, done |-> 0, last |-> NoCompany]
NoEvent == [status |-> "none", age |-> -1]
NotDue  == [todo |-> <<>>, answer |-> "ask"]

KbSyncInit ==
  /\ filed = {} /\ results = {} /\ parsedFlag = {}
  /\ quality \in {q \in SUBSET Companies : Established \subseteq q}
  /\ resultEvents = [c \in Companies |-> NoEvent]
  /\ due = NotDue /\ sweep = NoSweep
  /\ resumePoint = NoCompany
  /\ manualSyncs = 0 /\ syncFaults = 0

SyncFault == syncFaults < MaxSyncFaults /\ syncFaults' = syncFaults + 1

PublishXbrl(c) ==
  /\ filed' = filed \cup {c}
  /\ UNCHANGED <<results, parsedFlag, quality, resultEvents, due, sweep, resumePoint,
                 manualSyncs, syncFaults>>

-----------------------------------------------------------------------------
(* What a transaction leaves behind.  The TTM figures and with them the    *)
(* score are computed from the rows of the same transaction.               *)

Commit(done) ==
  /\ results' = results \cup done
  /\ parsedFlag' = parsedFlag \cup done
  /\ \E better \in SUBSET done : quality' = quality \cup better

\* Mutant: the filing is marked in a session of its own.
FlagsLeft_Marked == parsedFlag \cup sweep.open

\* The flag goes the way of the row it speaks of.
FlagsLeft == parsedFlag

RollBackSweep == parsedFlag' = FlagsLeft /\ UNCHANGED <<results, quality>>

-----------------------------------------------------------------------------
(* sync_financials.                                                        *)

\* _resolve_symbols: unless the run is a full refresh, companies that lack
\* quality or results; in the order of their market caps, which move.
NeedsSync(full) ==
  {c \in Companies : full \/ c \notin quality \/ c \notin Established \cup results}

\* Filings that a run takes up: those not flagged.
Unread == filed \ parsedFlag

\* With resume, what comes after the last company of the last failed run.
Resumed(q, resume) ==
  IF resume /\ resumePoint \in ToSet(q)
    THEN LET i == CHOOSE j \in 1..Len(q) : q[j] = resumePoint IN SubSeq(q, i + 1, Len(q))
    ELSE q

StartSweep(full, resume) ==
  /\ ~sweep.running
  /\ \E q \in SetToSeqs(NeedsSync(full)) :
       sweep' = [NoSweep EXCEPT !.running = TRUE, !.todo = Resumed(q, resume)]
  /\ UNCHANGED <<filed, results, parsedFlag, quality, resultEvents, due, resumePoint, syncFaults>>

WeeklySweep == StartSweep(FALSE, FALSE) /\ UNCHANGED manualSyncs

\* kb.manage runs the same code from the command line.
ManualSweep ==
  /\ manualSyncs < MaxManualSyncs /\ manualSyncs' = manualSyncs + 1
  /\ \E full, resume \in BOOLEAN : StartSweep(full, resume)

\* One company: its filing is stored unless it is flagged already; nothing
\* happens when the index is empty or the XBRL cannot be had.  An exception, of
\* the moment or of a filing that never passes, rolls the transaction back, and
\* the loop goes on.
SweepCompany ==
  LET c == Head(sweep.todo)
      After(open) == [sweep EXCEPT !.todo = Tail(@), !.last = c, !.done = @ + 1, !.open = open]
      full == (sweep.done + 1) % SweepBatch = 0
      Goes(open) ==
        IF full THEN Commit(open) /\ sweep' = After({})
        ELSE sweep' = After(open) /\ UNCHANGED <<results, parsedFlag, quality>>
  IN  /\ sweep.running /\ sweep.todo # <<>>
      /\ \/ /\ c \notin Failing \cap Unread
            /\ Goes(sweep.open \cup ({c} \cap Unread))
            /\ UNCHANGED syncFaults
         \/ /\ c \in Failing \cap Unread
            /\ RollBackSweep /\ sweep' = After({})
            /\ UNCHANGED syncFaults
         \/ SyncFault /\ Goes(sweep.open)
         \/ SyncFault /\ RollBackSweep /\ sweep' = After({})
      /\ UNCHANGED <<filed, resultEvents, due, resumePoint, manualSyncs>>

EndSweep ==
  /\ sweep.running /\ sweep.todo = <<>>
  /\ Commit(sweep.open)
  /\ sweep' = NoSweep
  /\ UNCHANGED <<filed, resultEvents, due, resumePoint, manualSyncs, syncFaults>>

\* The run fails as a whole, a commit for instance: it notes how far it came,
\* in companies it looked at.
FailSweep ==
  /\ sweep.running
  /\ SyncFault
  /\ RollBackSweep
  /\ resumePoint' = sweep.last
  /\ sweep' = NoSweep
  /\ UNCHANGED <<filed, resultEvents, due, manualSyncs>>

\* The process dies: its transactions are rolled back.
MonitorDies ==
  /\ sweep.running \/ due # NotDue
  /\ SyncFault
  /\ RollBackSweep
  /\ sweep' = NoSweep /\ due' = NotDue
  /\ UNCHANGED <<filed, resultEvents, resumePoint, manualSyncs>>

-----------------------------------------------------------------------------
(* The event-driven sync: calendar, due events, one company at a time.     *)

\* _refresh_calendar: the announcements of the next days, those of today too.
ListEvent(c) ==
  /\ resultEvents[c] = NoEvent
  /\ \E age \in {-1, 0} :
       resultEvents' = [resultEvents EXCEPT ![c] = [status |-> "pending", age |-> age]]
  /\ UNCHANGED <<filed, results, parsedFlag, quality, due, sweep, resumePoint, manualSyncs,
                 syncFaults>>

\* Days pass, counted until one more than matters.
NextDay ==
  /\ \E c \in Companies : resultEvents[c] # NoEvent /\ resultEvents[c].age <= RetryDays
  /\ resultEvents' = [c \in Companies |->
       IF resultEvents[c] # NoEvent /\ resultEvents[c].age <= RetryDays
         THEN [resultEvents[c] EXCEPT !.age = @ + 1] ELSE resultEvents[c]]
  /\ UNCHANGED <<filed, results, parsedFlag, quality, due, sweep, resumePoint, manualSyncs,
                 syncFaults>>

CheckDue ==
  /\ due = NotDue
  /\ \E q \in SetToSeqs({c \in Companies : /\ resultEvents[c].status = "pending"
                                           /\ resultEvents[c].age >= 0}) :
       q # <<>> /\ due' = [todo |-> q, answer |-> "ask"]
  /\ UNCHANGED <<filed, results, parsedFlag, quality, resultEvents, sweep, resumePoint,
                 manualSyncs, syncFaults>>

\* sync_symbol, a transaction of its own: it waits for a row the sweep holds.
SyncDue ==
  LET c == Head(due.todo)
      Answers(a) == due' = [due EXCEPT !.answer = a]
  IN  /\ due.todo # <<>> /\ due.answer = "ask"
      /\ c \notin sweep.open
      /\ \/ /\ c \in Unread \ Failing
            /\ Commit({c}) /\ Answers("parsed") /\ UNCHANGED syncFaults
         \/ /\ c \in Unread \cap Failing
            /\ Answers("error") /\ UNCHANGED <<results, parsedFlag, quality, syncFaults>>
         \/ /\ c \notin Unread
            /\ Answers("nothing") /\ UNCHANGED <<results, parsedFlag, quality, syncFaults>>
         \/ /\ SyncFault
            /\ \E a \in {"nothing", "error"} : Answers(a)
            /\ UNCHANGED <<results, parsedFlag, quality>>
      /\ UNCHANGED <<filed, resultEvents, sweep, resumePoint, manualSyncs>>

\* The status of the event: a filing that is not there yet is waited for.
StatusAfter(c) ==
  CASE due.answer = "parsed" -> "synced"
    [] due.answer = "error" -> "failed"
    [] OTHER -> IF resultEvents[c].age <= RetryDays THEN "pending" ELSE "no_data"

MarkDue ==
  LET c == Head(due.todo)
  IN  /\ due.todo # <<>> /\ due.answer # "ask"
      /\ \/ resultEvents' = [resultEvents EXCEPT ![c].status = StatusAfter(c)]
            /\ UNCHANGED syncFaults
         \/ SyncFault /\ resultEvents' = [resultEvents EXCEPT ![c].status = "failed"]
      /\ due' = [todo |-> Tail(due.todo), answer |-> "ask"]
      /\ UNCHANGED <<filed, results, parsedFlag, quality, sweep, resumePoint, manualSyncs>>

-----------------------------------------------------------------------------

KbSyncNext ==
  \/ \E c \in Companies : PublishXbrl(c) \/ ListEvent(c)
  \/ WeeklySweep \/ ManualSweep \/ SweepCompany \/ EndSweep \/ FailSweep \/ MonitorDies
  \/ NextDay \/ CheckDue \/ SyncDue \/ MarkDue

KbSyncSpec == KbSyncInit /\ [][KbSyncNext]_kbVars

\* A sweep starts every Saturday, and its requests and statements time out.
SweepFairness == WF_kbVars(WeeklySweep) /\ WF_kbVars(SweepCompany \/ EndSweep)

-----------------------------------------------------------------------------
(* Properties.                                                             *)

KbSyncTypeOK ==
  /\ UNION {filed, results, parsedFlag, quality} \subseteq Companies
  /\ results \subseteq filed /\ parsedFlag \subseteq filed
  /\ \A c \in Companies :
       /\ resultEvents[c].status \in {"none", "pending", "synced", "failed", "no_data"}
       /\ resultEvents[c].age \in -1..(RetryDays + 1)
  /\ ToSet(due.todo) \cup ToSet(sweep.todo) \cup sweep.open \subseteq Companies
  /\ sweep.open \subseteq filed /\ Cardinality(sweep.open) < SweepBatch
  /\ due.answer \in {"ask", "parsed", "nothing", "error"}
  /\ resumePoint \in Companies \cup {NoCompany}

\* The next company of the sweep throws away what it has of c.
LosesBatch(c) ==
  /\ c \in sweep.open
  /\ sweep.todo # <<>> /\ Head(sweep.todo) \in Failing \cap Unread

\* A company without results gets those it has filed: what an error of the
\* moment or a dead process took out of a sweep the next one finds again.
\* Only one thing keeps it empty: week after week a company whose filing never
\* passes comes after it in its batch and rolls it back
\* (kb/sync/pipeline.py, sync_financials and the xbrl_parsed check).
NewCompanyFilled ==
  \A c \in Companies \ (Established \cup Failing) :
    <>(c \in filed) => <>(c \in results) \/ []<>LosesBatch(c)

=============================================================================
