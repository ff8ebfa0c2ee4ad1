------------------------------ MODULE Guidance ------------------------------
(***************************************************************************)
(* What a management promised: statements extracted from the transcripts   *)
(* of a company's calls, the ledger in which they are chained under one    *)
(* key per metric and period, and the outcomes scored against the results. *)
(* Extractions and runs of the ledger overlap.  One company; amounts are   *)
(* in lakh.                                                                *)
(***************************************************************************)
EXTENDS Integers, Sequences, SequencesExt, FiniteSets, FiniteSetsExt, TLC

CONSTANTS
  Calls,         \* of the company, numbered by their time
  Statements,    \* bound: what an extraction may find, as sets of statements
  MetricOf,      \* canonical_metric: key, better, formula of a label
  UnitOf,        \* canonical_unit: "cr", "lakh", "pct", "usd", "none", ...
  PeriodOf,      \* canonical_period: key, kind "Q", "FY", "H" or "other", end
  Figures,       \* revenue of each quarter, by its end and its basis
  MaxClock, MaxItems, MaxGuidanceFaults, MaxManualRuns, MaxBackfills  \* bounds

NoEnd   == -1
NoValue == -1
Quarters == DOMAIN Figures

ASSUME GuidanceAssumption ==
  /\ Calls \subseteq Nat \ {0} /\ IsFiniteSet(Calls) /\ Quarters \subseteq Nat
  /\ \A l \in DOMAIN MetricOf : MetricOf[l].better \in {"higher", "lower", "none"}
  /\ \A l \in DOMAIN MetricOf : MetricOf[l].formula \in {"none", "level", "growth", "sum"}
  /\ \A found \in Statements : \A s \in found :
       /\ s.label \in DOMAIN MetricOf /\ s.unit \in DOMAIN UnitOf /\ s.period \in DOMAIN PeriodOf
       /\ {s.low, s.high} \subseteq Nat \cup {NoValue}

VARIABLES
  clock,
  calls,         \* concall_transcripts: structured, and extracted
  stated,        \* transcript_guidance: call and statement, by id
  minted,        \* ids given out so far
  extraction,    \* of the watcher and of a backfill
  results,       \* financial_results: the bases there are of each quarter
  ledger,        \* guidance_ledger, by source_guidance_id
  outcomes,      \* guidance_outcomes, by the same
  scorer,        \* runs of the ledger sync: the nightly one, one by hand
  manualRuns, backfills, guidanceFaults

guidanceVars == <<clock, calls, stated, minted, extraction, results, ledger, outcomes, scorer,
                  manualRuns, backfills, guidanceFaults>>

Extractors == {"watch", "backfill"}
Scorers    == {"nightly", "hand"}
AtRest     == [step |-> "off"]

GuidanceInit ==
  /\ clock = 1 /\ calls = [structured |-> {}, extracted |-> {}]
  /\ stated = <<>> /\ minted = 0
  /\ extraction = [j \in Extractors |-> AtRest]
  /\ results = [q \in Quarters |-> {}]
  /\ ledger = <<>> /\ outcomes = <<>>
  /\ scorer = [r \in Scorers |-> AtRest]
  /\ manualRuns = 0 /\ backfills = 0 /\ guidanceFaults = 0

Mishap == guidanceFaults < MaxGuidanceFaults /\ guidanceFaults' = guidanceFaults + 1

TimeGoesOn ==
  /\ clock < MaxClock /\ clock' = clock + 1
  /\ UNCHANGED <<calls, stated, minted, extraction, results, ledger, outcomes, scorer, manualRuns,
                 backfills, guidanceFaults>>

\* A quarter that is over is reported, on one basis and then perhaps another.
ResultStored(q) ==
  /\ q < clock
  /\ \E basis \in DOMAIN Figures[q] \ results[q] : results' = [results EXCEPT ![q] = @ \cup {basis}]
  /\ UNCHANGED <<clock, calls, stated, minted, extraction, ledger, outcomes, scorer, manualRuns,
                 backfills, guidanceFaults>>

-----------------------------------------------------------------------------
(* Extraction.                                                             *)

\* _structure_row has committed, and its extraction begins; a run that is
\* killed there leaves the call to the backfill.
WatchBegins(c) ==
  /\ extraction["watch"] = AtRest /\ c \notin calls.structured /\ c <= clock
  /\ calls' = [calls EXCEPT !.structured = @ \cup {c}]
  /\ extraction' = [extraction EXCEPT !["watch"] = [step |-> "model", call |-> c, todo |-> {}]]
  /\ UNCHANGED <<clock, stated, minted, results, ledger, outcomes, scorer, manualRuns, backfills,
                 guidanceFaults>>

\* extract_guidance_backfill: the calls without guidance, the oldest first.
BackfillBegins ==
  /\ extraction["backfill"] = AtRest /\ backfills < MaxBackfills
  /\ LET todo == calls.structured \ calls.extracted
     IN  /\ todo # {}
         /\ extraction' = [extraction EXCEPT !["backfill"] =
              [step |-> "model", call |-> Min(todo), todo |-> todo \ {Min(todo)}]]
  /\ backfills' = backfills + 1
  /\ UNCHANGED <<clock, calls, stated, minted, results, ledger, outcomes, scorer, manualRuns,
                 guidanceFaults>>

\* The next call of the same job.
NextCall(job) ==
  IF job.todo = {} THEN AtRest
  ELSE [step |-> "model", call |-> Min(job.todo), todo |-> job.todo \ {Min(job.todo)}]

\* No answer that can be read, or an error of the database: it is logged.
ExtractionFails(j) ==
  /\ extraction[j] # AtRest /\ Mishap
  /\ extraction' = [extraction EXCEPT ![j] = NextCall(@)]
  /\ UNCHANGED <<clock, calls, stated, minted, results, ledger, outcomes, scorer, manualRuns,
                 backfills>>

\* extract_guidance, what the model states and anchors in the text; then
\* _guidance_row replaces the rows of the call: the DELETE sees what is
\* committed, ...
ExtractAndDelete(j) ==
  /\ extraction[j].step = "model"
  /\ \E found \in Statements :
       extraction' = [extraction EXCEPT ![j] =
         [step |-> "insert", call |-> @.call, todo |-> @.todo, found |-> found,
          seen |-> {id \in DOMAIN stated : stated[id].call = @.call}]]
  /\ UNCHANGED <<clock, calls, stated, minted, results, ledger, outcomes, scorer, manualRuns,
                 backfills, guidanceFaults>>

\* ... and the commit puts the new rows next to those it did not see.
InsertItems(j) ==
  LET job == extraction[j]
      new == SetToSeq(job.found)
  IN  /\ job.step = "insert" /\ minted + Len(new) <= MaxItems
      /\ stated' = [id \in (DOMAIN stated \ job.seen) \cup (minted + 1)..(minted + Len(new)) |->
                      IF id <= minted THEN stated[id]
                      ELSE [call |-> job.call, said |-> new[id - minted]]]
      /\ minted' = minted + Len(new)
      /\ calls' = [calls EXCEPT !.extracted = @ \cup {job.call}]
      /\ extraction' = [extraction EXCEPT ![j] = NextCall(job)]
      /\ UNCHANGED <<clock, results, ledger, outcomes, scorer, manualRuns, backfills,
                     guidanceFaults>>

-----------------------------------------------------------------------------
(* Normal forms.                                                           *)

\* FORMULA_UNIT: what the guided value must be measured in.
Wanted(formula) == IF formula = "growth" THEN {"pct"} ELSE {"cr", "lakh"}

\* normalize_row: a statement is scored only if its formula is known, its unit
\* fits, and its period was not over when it was made.
Scoreable(said, call) ==
  LET end == PeriodOf[said.period].end
  IN  /\ MetricOf[said.label].formula # "none"
      /\ UnitOf[said.unit] \in Wanted(MetricOf[said.label].formula)
      /\ end = NoEnd \/ end >= call

\* to_crore, both sides in lakh; other units stay as stated.
Amount(value, unit) == IF value = NoValue \/ unit # "cr" THEN value ELSE 100 * value

Normalized(item) ==
  LET said == item.said
      unit == UnitOf[said.unit]
  IN  [key |-> <<MetricOf[said.label].key, PeriodOf[said.period].key>>,
       unit |-> IF unit = "lakh" /\ Scoreable(said, item.call) THEN "cr" ELSE unit,
       low |-> Amount(said.low, unit), high |-> Amount(said.high, unit),
       call |-> item.call, label |-> said.label, period |-> said.period,
       scoreable |-> Scoreable(said, item.call)]

\* _mid, twice.
Middle(row) ==
  CASE row.low = NoValue /\ row.high = NoValue -> NoValue
    [] row.low = NoValue -> 2 * row.high
    [] row.high = NoValue -> 2 * row.low
    [] OTHER -> row.low + row.high

\* change_verdict against the statement before.
Change(row, prev) ==
  LET apart == IF Middle(row) > Middle(prev) THEN Middle(row) - Middle(prev)
               ELSE Middle(prev) - Middle(row)
  IN  CASE NoValue \in {Middle(row), Middle(prev)} \/ row.unit # prev.unit -> "changed"
        [] 50 * apart <= Middle(prev) -> "maintained"
        [] Middle(row) > Middle(prev) -> "raised"
        [] OTHER -> "lowered"

\* compute_lifecycle: of the statements of one key the last in (stated_at, id)
\* is active, the others are superseded; each is compared with the one before.
Lifecycle(rows) ==
  LET Before(x, y) == rows[x].call < rows[y].call \/ (rows[x].call = rows[y].call /\ x < y)
      Group(id)    == {x \in DOMAIN rows : rows[x].key = rows[id].key}
      Earlier(id)  == {x \in Group(id) : Before(x, id)}
      Previous(id) == CHOOSE x \in Earlier(id) : \A y \in Earlier(id) : x = y \/ Before(y, x)
  IN  [id \in DOMAIN rows |->
         [row |-> rows[id],
          status |-> IF \E x \in Group(id) : Before(id, x) THEN "superseded" ELSE "active",
          restatements |-> Cardinality(Group(id)) - 1,
          change |-> IF Earlier(id) = {} THEN "new" ELSE Change(rows[id], rows[Previous(id)])]]

-----------------------------------------------------------------------------
(* Outcomes.                                                               *)

Preferred(q) == IF "consolidated" \in results[q] THEN "consolidated" ELSE "standalone"
Reported(q)  == q \in Quarters /\ results[q] # {}

\* _fetch_actual: refused for half-years, without the row of the period, of the
\* year before (growth, each on the basis that is preferred for it) or of one
\* of the four quarters (sums, on the basis of the last).
Actual(row) ==
  LET end     == PeriodOf[row.period].end
      formula == MetricOf[row.label].formula
      fy      == PeriodOf[row.period].kind = "FY"
      level(q) == Figures[q][Preferred(q)]
      needed  == CASE formula = "growth" -> {end, end - 4}
                   [] formula = "sum" /\ fy -> (end - 3)..end
                   [] OTHER -> {end}
  IN  IF PeriodOf[row.period].kind \notin {"Q", "FY"} \/ ~(\A q \in needed : Reported(q))
         \/ (formula = "sum" /\ fy /\ \E q \in needed : Preferred(end) \notin results[q])
      THEN NoValue
      ELSE CASE formula = "growth" -> (100 * level(end)) \div level(end - 4) - 100
             [] formula = "sum" /\ fy -> MapThenSumSet(LAMBDA q : Figures[q][Preferred(end)], needed)
             [] OTHER -> level(end)

\* _verdict, met.
Verdict(row, delivered) ==
  LET low  == IF row.low = NoValue THEN row.high ELSE row.low
      high == IF row.high = NoValue THEN row.low ELSE row.high
  IN  [verdict |-> CASE delivered < low -> "below" [] delivered > high -> "above" [] OTHER -> "in",
       met |-> CASE MetricOf[row.label].better = "higher" -> delivered >= low
                 [] MetricOf[row.label].better = "lower" -> delivered <= high
                 [] OTHER -> delivered \in low..high]

\* run reads the guidance ...
Load(r) ==
  /\ scorer[r] = AtRest
  /\ IF r = "hand" THEN manualRuns < MaxManualRuns /\ manualRuns' = manualRuns + 1
     ELSE UNCHANGED manualRuns
  /\ \E rows \in {[id \in DOMAIN stated |-> Normalized(stated[id])]} :
       scorer' = [scorer EXCEPT ![r] = [step |-> "score", rows |-> Lifecycle(rows)]]
  /\ UNCHANGED <<clock, calls, stated, minted, extraction, results, ledger, outcomes, backfills,
                 guidanceFaults>>

\* ... then the actuals of what is active, scoreable and over ...
ScoreDue(r) ==
  /\ scorer[r].step = "score"
  /\ LET rows == scorer[r].rows
         due  == {id \in DOMAIN rows :
                    LET row == rows[id].row
                    IN  /\ rows[id].status = "active" /\ row.scoreable
                        /\ PeriodOf[row.period].end \in 0..(clock - 1)
                        /\ Actual(row) # NoValue /\ Middle(row) # NoValue}
     IN  scorer' = [scorer EXCEPT ![r] =
           [step |-> "write", rows |-> rows,
            scored |-> [id \in due |->
              [delivered |-> Actual(rows[id].row), at |-> clock] @@
                Verdict(rows[id].row, Actual(rows[id].row))]]]
  /\ UNCHANGED <<clock, calls, stated, minted, extraction, results, ledger, outcomes, manualRuns,
                 backfills, guidanceFaults>>

\* Mutant: a row that is there keeps its status.
Upserted_StatusKept(old, new) ==
  [id \in DOMAIN old \cup DOMAIN new |->
     IF id \notin DOMAIN new THEN old[id]
     ELSE IF id \notin DOMAIN old THEN new[id] ELSE [new[id] EXCEPT !.status = old[id].status]]

\* UPSERT_LEDGER: what is resolved stays so; what was stated stays as it was.
Upserted(old, new) ==
  [id \in DOMAIN old \cup DOMAIN new |->
     IF id \notin DOMAIN new THEN old[id]
     ELSE IF id \in DOMAIN old /\ old[id].status = "resolved"
     THEN [new[id] EXCEPT !.status = "resolved"] ELSE new[id]]

\* ... and writes everything in one transaction: the ledger, the outcomes that
\* are not there yet, the marks.
Write(r) ==
  /\ scorer[r].step = "write"
  /\ \E scored \in {scorer[r].scored}, rows \in {Upserted(ledger, scorer[r].rows)} :
       /\ ledger' = [id \in DOMAIN rows |->
                       IF id \in DOMAIN scored THEN [rows[id] EXCEPT !.status = "resolved"]
                       ELSE rows[id]]
       /\ outcomes' = outcomes @@ scored
  /\ scorer' = [scorer EXCEPT ![r] = AtRest]
  /\ UNCHANGED <<clock, calls, stated, minted, extraction, results, manualRuns, backfills,
                 guidanceFaults>>

\* The transaction is rolled back, or the process ends.
ScorerFails(r) ==
  /\ scorer[r] # AtRest /\ Mishap
  /\ scorer' = [scorer EXCEPT ![r] = AtRest]
  /\ UNCHANGED <<clock, calls, stated, minted, extraction, results, ledger, outcomes, manualRuns,
                 backfills>>

ExtractorStep(j) == ExtractAndDelete(j) \/ InsertItems(j)
ScorerStep(r)    == Load(r) \/ ScoreDue(r) \/ Write(r)

GuidanceNext ==
  \/ TimeGoesOn \/ BackfillBegins
  \/ \E q \in Quarters : ResultStored(q)
  \/ \E c \in Calls : WatchBegins(c)
  \/ \E j \in Extractors : ExtractorStep(j) \/ ExtractionFails(j)
  \/ \E r \in Scorers : ScorerStep(r) \/ ScorerFails(r)

\* The nightly run comes again and again; a run by hand may hang.
GuidanceFairness == WF_guidanceVars(ScorerStep("nightly"))

GuidanceSpec == GuidanceInit /\ [][GuidanceNext]_guidanceVars /\ GuidanceFairness

-----------------------------------------------------------------------------
(* Properties.                                                             *)

GuidanceTypeOK ==
  /\ minted \in 0..MaxItems /\ \A id \in DOMAIN stated : id \in 1..minted /\ stated[id].call \in Calls
  /\ clock \in 1..MaxClock /\ calls.extracted \subseteq calls.structured
  /\ \A id \in DOMAIN ledger : ledger[id].status \in {"active", "superseded", "resolved"}
  /\ \A r \in Scorers : scorer[r].step \in {"off", "score", "write"}

\* What the ledger should say of the statements there are.
Agrees ==
  LET true == Lifecycle([id \in DOMAIN stated |-> Normalized(stated[id])])
  IN  \A id \in DOMAIN true :
        /\ id \in DOMAIN ledger
        /\ ledger[id].change = true[id].change /\ ledger[id].restatements = true[id].restatements
        /\ ledger[id].status \in {true[id].status, "resolved"}
        /\ ledger[id].status = "resolved" <=> id \in DOMAIN outcomes

\* guidance_ledger_sync.py:6, "re-runs converge": the ledger comes to agree with
\* the statements, though extractions replace them, an older run writes after
\* a newer one, and runs fail; what is resolved has its outcome.
LedgerConverges == <>[]Agrees

=============================================================================
