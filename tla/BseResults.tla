----------------------------- MODULE BseResults -----------------------------
(***************************************************************************)
(* The quarterly results of a company that only BSE lists: the scan of     *)
(* every evening and the sweep of every week read the exchange's index of  *)
(* documents, fetch each one, and store its figures together with the      *)
(* earnings surprise and the tracking signal they give rise to.  All the   *)
(* documents here end on the same day, as a quarter, a half-year and a     *)
(* year may; what the parser makes of a document is given with it.         *)
(***************************************************************************)
EXTENDS Integers, Sequences, SequencesExt, FiniteSets

CONSTANTS
  Index,          \* documents in the order of the exchange's index, see below
  Buckets,        \* widths of the windows the index can be asked for, in days
  ScanDays, SweepBack,   \* since_days of the scan and of the sweep
  SweepDays,      \* days of a sweep
  Attempts,       \* _fetch_index_best: attempts per window
  RecencyDays,    \* SIGNAL_RECENCY_DAYS
  Deciles,        \* bound: deciles the reference may answer, 0 for none
  MaxDay, MaxResultFaults    \* bounds

NoEps == 0

ASSUME BseAssumption ==
  /\ \A i \in DOMAIN Index :
       /\ Index[i].day \in 0..MaxDay /\ Index[i].eps \in Nat
       /\ Index[i].span \in {"quarter", "half", "annual", "none"}
       /\ {Index[i].consolidated, Index[i].dated} \subseteq BOOLEAN
  /\ Index \in Seq(Range(Index)) /\ Buckets \in Seq(Nat \ {0}) \ {<<>>}
  /\ \A i, k \in DOMAIN Buckets : i < k => Buckets[i] < Buckets[k]
  /\ {ScanDays, SweepBack} \subseteq 2..Last(Buckets) /\ ScanDays <= SweepBack
  /\ Attempts \in Nat \ {0} /\ SweepDays \subseteq 0..MaxDay /\ Deciles \subseteq 0..10
  /\ {MaxDay, RecencyDays, MaxResultFaults} \subseteq Nat

VARIABLES
  day,
  ran,        \* the jobs that are through for the day
  job,        \* scan, sweep: where it is, the documents left, its transaction
  rows,       \* financial_results, standalone and consolidated
  surprise,   \* the row of earnings_surprises
  signal,     \* the row of signal_outcomes
  mingled,    \* history: a run stored what the other, past its gate, did not see
  unscored,   \* history: no surprise could be computed since the last one
  resultFaults

resultVars == <<day, ran, job, rows, surprise, signal, mingled, unscored, resultFaults>>

Jobs       == {"scan", "sweep"}
NoRow      == [doc |-> 0]
NoSurprise == [eps |-> NoEps, announced |-> -1, decile |-> 0, emitted |-> FALSE]
NoSignal   == [way |-> "", announced |-> -1, at |-> -1]
Idle       == [at |-> "idle", left |-> {}, bucket |-> 1, tries |-> 0,
               new |-> NoRow, found |-> NoSurprise, lost |-> FALSE]

ResultsInit ==
  /\ day = 0 /\ ran = {} /\ job = [j \in Jobs |-> Idle]
  /\ rows = [c \in BOOLEAN |-> NoRow]
  /\ surprise = NoSurprise /\ signal = NoSignal
  /\ mingled = FALSE /\ unscored = FALSE /\ resultFaults = 0

JobGoes(j, next) == job' = [job EXCEPT ![j] = next]
ResultFault == resultFaults < MaxResultFaults /\ resultFaults' = resultFaults + 1
Stored == <<rows, surprise, signal, mingled, unscored>>

-----------------------------------------------------------------------------
(* The runs.                                                               *)

\* A day ends when its runs are through.
DayEnds ==
  /\ day < MaxDay /\ \A j \in Jobs : job[j] = Idle
  /\ "scan" \in ran /\ (day \in SweepDays => "sweep" \in ran)
  /\ day' = day + 1 /\ ran' = {}
  /\ UNCHANGED <<job, resultFaults>> /\ UNCHANGED Stored

\* flagdurs_for_days: the narrowest window that covers so many days.
Bucket(days) == CHOOSE b \in DOMAIN Buckets :
  Buckets[b] >= days /\ \A a \in DOMAIN Buckets : Buckets[a] >= days => b <= a

StartRun(j) ==
  /\ job[j] = Idle /\ j \notin ran /\ (j = "sweep" => day \in SweepDays)
  /\ ran' = ran \cup {j}
  /\ JobGoes(j, [Idle EXCEPT !.at = "index",
                           !.bucket = Bucket(IF j = "scan" THEN ScanDays ELSE SweepBack)])
  /\ UNCHANGED <<day, resultFaults>> /\ UNCHANGED Stored

\* The documents the index has for a window.
Window(b) ==
  {i \in DOMAIN Index : Index[i].day <= day /\ day - Index[i].day < Buckets[b]}

\* The document in hand: the runs take them in the order of the index.
InHand(j) == Min(job[j].left)

\* The run goes on with these documents, or with the rest of them.
With(j, docs) ==
  JobGoes(j, IF docs = {} THEN Idle ELSE [Idle EXCEPT !.at = "fetch", !.left = docs])

Onward(j) == With(j, job[j].left \ {InHand(j)})

\* The exchange answers, or with next to nothing.  The scan takes so little for
\* a failure: it asks again, then for wider windows, and gives up after the
\* widest.  The sweep cannot tell, a single company may have filed nothing.
ReadIndex(j) ==
  /\ job[j].at = "index"
  /\ \/ With(j, Window(job[j].bucket)) /\ UNCHANGED resultFaults
     \/ ResultFault /\ j = "sweep" /\ With(j, {})
     \/ /\ ResultFault /\ j = "scan"
        /\ IF job[j].tries + 1 < Attempts THEN JobGoes(j, [job[j] EXCEPT !.tries = @ + 1])
           ELSE IF job[j].bucket < Len(Buckets)
           THEN JobGoes(j, [job[j] EXCEPT !.tries = 0, !.bucket = @ + 1])
           ELSE With(j, {})
  /\ UNCHANGED <<day, ran>> /\ UNCHANGED Stored

\* A document is fetched and parsed.  One that fails, has no file yet or no
\* period, or covers more than half a year, is left out.
FetchDocument(j) ==
  /\ job[j].at = "fetch"
  /\ LET d == InHand(j)
     IN  \/ /\ Index[d].span \in {"quarter", "half"}
            /\ JobGoes(j, [job[j] EXCEPT !.at = IF Index[d].span = "half" THEN "gate" ELSE "upsert"])
            /\ UNCHANGED resultFaults
         \/ /\ Index[d].span \in {"annual", "none"}
            /\ Onward(j) /\ UNCHANGED resultFaults
         \/ ResultFault /\ Onward(j)
  /\ UNCHANGED <<day, ran>> /\ UNCHANGED Stored

-----------------------------------------------------------------------------
(* One document's transaction: _validated_upsert.                          *)

\* Gate 3: a half-year document does not replace a quarter's.
HalfYearGate(j) ==
  /\ job[j].at = "gate"
  /\ LET old == rows[Index[InHand(j)].consolidated]
     IN  IF old # NoRow /\ old.span = "quarter"
         THEN Onward(j)
         ELSE JobGoes(j, [job[j] EXCEPT !.at = "upsert"])
  /\ UNCHANGED <<day, ran, resultFaults>> /\ UNCHANGED Stored

InTransaction(j) == job[j].at \in {"surprise", "commit"}

PastGate(j) == job[j].at = "upsert" \/ InTransaction(j)

\* _upsert_financial_result: the row waits for another transaction's on its key.
\* An error ends the run, for this company at least.
UpsertResult(j) ==
  /\ job[j].at = "upsert"
  /\ LET d == InHand(j)
         row == [doc |-> d, span |-> Index[d].span, eps |-> Index[d].eps,
                 announced |-> IF Index[d].dated THEN Index[d].day ELSE -1]
     IN  \/ /\ \A i \in Jobs \ {j} : InTransaction(i) =>
                 Index[job[i].new.doc].consolidated # Index[d].consolidated
            /\ JobGoes(j, [job[j] EXCEPT !.at = "surprise", !.new = row])
            /\ UNCHANGED resultFaults
         \/ ResultFault /\ JobGoes(j, Idle)
  /\ UNCHANGED <<day, ran>> /\ UNCHANGED Stored

\* What the transaction of j sees.
Seen(j) ==
  LET basis == Index[job[j].new.doc].consolidated
  IN  [rows EXCEPT ![basis] =
         IF @ = NoRow THEN job[j].new ELSE [job[j].new EXCEPT !.announced = rows[basis].announced]]

\* _load_history: the row with earnings, consolidated before standalone.
PreferredEps(table) ==
  LET given(c) == table[c] # NoRow /\ table[c].eps # NoEps
  IN  IF given(TRUE) THEN table[TRUE].eps ELSE IF given(FALSE) THEN table[FALSE].eps ELSE NoEps

\* Mutant: the surprise is computed before the result is stored.
EpsInHand_Before(j) == PreferredEps(rows)

EpsInHand(j) == PreferredEps(Seen(j))

\* compute_surprise: what is found, or nothing without earnings.  It catches
\* its failures; one of the database leaves nothing to commit all the same.
ComputeSurprise(j) ==
  /\ job[j].at = "surprise"
  /\ LET d   == InHand(j)
         eps == EpsInHand(j)
         was == IF Index[d].dated THEN Index[d].day ELSE -1
     IN  \/ /\ eps = NoEps /\ JobGoes(j, [job[j] EXCEPT !.at = "commit"])
            /\ UNCHANGED resultFaults
         \/ /\ eps # NoEps
            /\ \E decile \in Deciles, liquid \in BOOLEAN :
                 JobGoes(j, [job[j] EXCEPT !.at = "commit",
                   !.found = [eps |-> eps, announced |-> was, decile |-> decile,
                              emitted |-> liquid /\ decile \in {1, 10}
                                          /\ was # -1 /\ day - was <= RecencyDays]])
            /\ UNCHANGED resultFaults
         \/ ResultFault /\ \E aborted \in BOOLEAN : JobGoes(j, [job[j] EXCEPT !.at = "commit", !.lost = aborted])
  /\ UNCHANGED <<day, ran>> /\ UNCHANGED Stored

\* The row, the surprise and the signal become visible at once.
CommitResult(j) ==
  /\ job[j].at = "commit"
  /\ LET found == job[j].found
     IN  IF job[j].lost THEN UNCHANGED Stored
         ELSE /\ rows' = Seen(j)
              /\ mingled' = (mingled \/ \E i \in Jobs \ {j} : PastGate(i))
              /\ IF found = NoSurprise THEN unscored' = TRUE /\ UNCHANGED <<surprise, signal>>
                 ELSE /\ unscored' = FALSE
                      /\ surprise' = [found EXCEPT
                           !.announced = IF surprise.announced # -1 THEN surprise.announced ELSE @,
                           !.emitted = @ \/ surprise.emitted]
                      /\ signal' = IF found.emitted /\ signal = NoSignal
                                   THEN [way |-> IF found.decile = 10 THEN "long" ELSE "short",
                                         announced |-> found.announced, at |-> day]
                                   ELSE signal
  /\ Onward(j)
  /\ UNCHANGED <<day, ran, resultFaults>>

\* The monitor restarts: both runs are over.
MonitorCrash ==
  /\ \E j \in Jobs : job[j] # Idle
  /\ ResultFault /\ job' = [j \in Jobs |-> Idle]
  /\ UNCHANGED <<day, ran>> /\ UNCHANGED Stored

ResultsStep(j) ==
  \/ StartRun(j) \/ ReadIndex(j) \/ FetchDocument(j) \/ HalfYearGate(j)
  \/ UpsertResult(j) \/ ComputeSurprise(j) \/ CommitResult(j)

ResultsNext == DayEnds \/ MonitorCrash \/ \E j \in Jobs : ResultsStep(j)

ResultsSpec == ResultsInit /\ [][ResultsNext]_resultVars

-----------------------------------------------------------------------------
(* Properties.                                                             *)

ResultsTypeOK ==
  /\ day \in 0..MaxDay /\ ran \subseteq Jobs /\ {mingled, unscored} \subseteq BOOLEAN
  /\ \A j \in Jobs : job[j].at \in {"idle", "index", "fetch", "gate", "upsert", "surprise", "commit"}
  /\ \A c \in BOOLEAN : rows[c] # NoRow => rows[c].doc \in DOMAIN Index /\ Index[rows[c].doc].consolidated = c
  /\ surprise.eps \in Nat /\ signal.way \in {"", "long", "short"}

\* The days with a run that had a document before it.
Within(d, days) ==
  {t \in 0..MaxDay : t >= Index[d].day /\ t - Index[d].day < Buckets[Bucket(days)]}
Tries(d) == Within(d, ScanDays) \cup (Within(d, SweepBack) \cap SweepDays)

\* Once a document has left the windows, its figures or finer ones are stored:
\* to lose a result takes a failure on every day that had it before a run
\* (run_market_scan, "the weekly per-scrip sweep remains the completeness safety
\* net"), and a half-year document takes the place of a quarter's only when the
\* other run stored that one after the gate was passed.
ResultsKept ==
  \A d \in DOMAIN Index :
    /\ Index[d].span \in {"quarter", "half"}
    /\ day - Index[d].day >= Buckets[Bucket(SweepBack)] /\ \A j \in Jobs : job[j] = Idle
    => LET row == rows[Index[d].consolidated]
       IN  \/ row # NoRow /\ (row.span = "quarter" \/ Index[d].span = "half")
           \/ resultFaults >= Cardinality(Tries(d))
           \/ mingled /\ row # NoRow

\* The surprise follows the earnings that are stored, unless its computation
\* failed or one run stored under the other; a signal goes with a stored result and its
\* surprise, which is marked, and it is not older than the recency of its
\* announcement (pead_signals.py:16, "Backfills never emit signals").
SurpriseSound ==
  /\ PreferredEps(rows) # NoEps /\ ~unscored /\ ~mingled => surprise.eps = PreferredEps(rows)
  /\ signal # NoSignal <=> surprise.emitted
  /\ signal # NoSignal =>
       /\ signal.at - signal.announced <= RecencyDays
       /\ \E c \in BOOLEAN : rows[c] # NoRow
       /\ \E i \in DOMAIN Index : Index[i].day = signal.announced /\ signal.way # ""

=============================================================================
