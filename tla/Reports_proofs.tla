--------------------------- MODULE Reports_proofs ---------------------------
(***************************************************************************)
(* Proofs about what comes of a report: each strategy that a direct impact *)
(* concerns leaves one intent (IntentsAccountableHolds), a result of a     *)
(* quarter is lost to nothing but a failure on every day that had it, and  *)
(* surprise and signal follow what is stored (QuarterSoundHolds), and the  *)
(* state of a share that a route or an agent goes by can be traced to what *)
(* the exchange listed (StateTraceableHolds). The impacts of a report can  *)
(* be traced to what was scored and to the graph, and it tells whether its *)
(* scoring failed (ReportAccountableHolds). Each rests on an inductive     *)
(* invariant of its module; ReportsCompose takes the modules together, as  *)
(* the run does.                                                           *)
(***************************************************************************)
EXTENDS MC_Reports, SequenceLemmas

-----------------------------------------------------------------------------
(* Stages of a run.  What is stashed under the id of the item belongs to   *)
(* the run that is alone with it.                                          *)

RunFields  == {"stage", "alone", "symbols", "meta", "failed", "impacts", "scope"}
MetaFields == {"of", "scored", "floored", "failed"}
Early      == {"relevance", "extract", "route"}
Late       == {"pricedIn", "propagate", "signals", "finalize", "over"}

\* A record of run r.
RecordOf(meta, r) ==
  meta = [f \in MetaFields |-> meta[f]] /\ meta.of = r /\ meta.failed \in BOOLEAN

\* A run under way or over, with its record from the routing on.
Whole(one, r) ==
  /\ one = [f \in RunFields |-> one[f]]
  /\ one.stage \in Early \cup {"score"} \cup Late
  /\ one.alone \in BOOLEAN /\ one.failed \in BOOLEAN
  /\ one.meta # NoMeta => RecordOf(one.meta, r) /\ one.meta.failed = FALSE
  /\ one.stage \in Early => one.meta = NoMeta
  /\ one.stage \in Early \cup {"score"} => one.failed = FALSE
  /\ one.stage = "score" => one.meta # NoMeta

\* What is stashed, seen from a run alone with the item.
Stashed(one, meta) ==
  one.stage \in (Late \ {"over"}) \cup {"score"} /\ one.alone /\ one.meta # NoMeta =>
    /\ meta.of = one.meta.of /\ meta.failed = one.failed
    /\ one.stage = "score" => meta = one.meta

\* What a report tells of its scoring.
Tells(one, made, r) ==
  made # <<>> =>
    /\ one.stage = "over"
    /\ made[1].relevant /\ one.alone /\ one.meta # NoMeta =>
         made[1].meta.of = r /\ made[1].meta.failed = one.failed

StagesInv ==
  /\ run = [r \in Runs |-> run[r]] /\ returned = [r \in Runs |-> returned[r]]
  /\ \A r \in Runs : run[r] = Waiting \/ Whole(run[r], r)
  /\ \A r \in InFlight : run[r].alone => InFlight = {r}
  /\ registry = NoMeta \/ \E r \in Runs : RecordOf(registry, r)
  /\ \A r \in InFlight : Stashed(run[r], registry)
  /\ \A r \in Runs : Tells(run[r], returned[r], r)
  /\ stageFaults \in 0..MaxStageFaults

LEMMA StageConstants ==
  /\ Deliveries \in Nat /\ MaxStageFaults \in Nat
  /\ \A r \in Runs : r \in Int /\ r # 0
  /\ NoMeta.of = 0 /\ Waiting.stage = "waiting"
BY StagesAssumption DEF Runs, NoMeta, Waiting

\* A run that is not waiting is whole; one in flight is neither over.
LEMMA FlightIs ==
  ASSUME StagesInv
  PROVE  /\ \A r \in Runs : run[r].stage # "waiting" => Whole(run[r], r)
         /\ \A r : r \in InFlight <=>
              r \in Runs /\ Whole(run[r], r) /\ run[r].stage # "over"
<1>1. \A r \in Runs : Whole(run[r], r) => run[r].stage # "waiting"
  BY DEF Whole, Early, Late
<1> QED BY <1>1, StageConstants DEF StagesInv, InFlight

\* A record tells whose it is.
LEMMA RecordIs ==
  ASSUME NEW r \in Runs, NEW meta, RecordOf(meta, r)
  PROVE  meta # NoMeta
BY StageConstants DEF RecordOf

\* One step of a run that is under way.
LEMMA RunProceeds ==
  ASSUME StagesInv, NEW r \in InFlight, NEW next, Goes(r, next),
         Whole(next, r), next.alone = run[r].alone,
         Stashed(next, registry'), Tells(next, returned'[r], r),
         registry' = NoMeta \/ RecordOf(registry', r) \/ registry' = registry,
         returned' = [returned EXCEPT ![r] = returned'[r]],
         stageFaults' \in 0..MaxStageFaults
  PROVE  StagesInv'
<1>1. r \in Runs /\ run' = [q \in Runs |-> IF q = r THEN next ELSE run[q]]
  BY DEF InFlight, Goes, StagesInv
<1>2. run'[r] = next /\ \A q \in Runs : q # r => run'[q] = run[q]
  BY <1>1
<1>3. /\ returned' = [q \in Runs |-> returned'[q]]
      /\ \A q \in Runs : q # r => returned'[q] = returned[q]
  BY DEF StagesInv
<1>4. run' = [q \in Runs |-> run'[q]]
  BY <1>1, <1>2
<1>5. \A q \in Runs : run'[q] = Waiting \/ Whole(run'[q], q)
  BY <1>2 DEF StagesInv
<1>6. InFlight' \subseteq InFlight
  BY <1>1, <1>2 DEF InFlight
<1>7. ASSUME NEW q \in InFlight', run'[q].alone
      PROVE  InFlight' = {q}
  <2>1. q \in InFlight /\ q \in Runs
    BY <1>6 DEF InFlight
  <2>3. run[q].alone
    <3>1. CASE q = r
      BY <1>2, <1>7, <3>1
    <3>2. CASE q # r
      BY <1>2, <1>7, <2>1, <3>2
    <3> QED BY <3>1, <3>2
  <2>2. InFlight = {q}
    BY <2>1, <2>3 DEF StagesInv
  <2> QED BY <1>6, <1>7, <2>2
<1>8. ASSUME NEW q \in InFlight' PROVE Stashed(run'[q], registry')
  <2>1. CASE q = r
    BY <1>2, <2>1
  <2>2. CASE q # r
    <3>1. q \in InFlight /\ r \in InFlight /\ run'[q] = run[q]
      BY <1>2, <1>6, <2>2 DEF InFlight
    <3>2. ~ run[q].alone
      BY <2>2, <3>1 DEF StagesInv
    <3> QED BY <3>1, <3>2 DEF Stashed
  <2> QED BY <2>1, <2>2
<1>9. registry' = NoMeta \/ \E q \in Runs : RecordOf(registry', q)
  BY <1>1 DEF StagesInv
<1>10. \A q \in Runs : Tells(run'[q], returned'[q], q)
  BY <1>2, <1>3 DEF StagesInv
<1> QED BY <1>3, <1>4, <1>5, <1>7, <1>8, <1>9, <1>10 DEF StagesInv

\* The record of a run that keeps its record, and the registry with it.
LEMMA StashKept ==
  ASSUME StagesInv, NEW r \in InFlight, NEW next,
         next.stage \in Late, run[r].stage \in Late,
         next.alone = run[r].alone, next.meta = run[r].meta, next.failed = run[r].failed
  PROVE  Stashed(next, registry)
<1>1. Stashed(run[r], registry) /\ run[r].stage # "over"
  BY FlightIs DEF StagesInv
<1> QED BY <1>1 DEF Stashed, Late

\* A run that was not over has returned nothing.
LEMMA NothingReturned ==
  ASSUME StagesInv, NEW r \in InFlight
  PROVE  r \in Runs /\ Whole(run[r], r) /\ returned[r] = <<>> /\ run[r].stage # "over"
BY FlightIs DEF StagesInv, Tells

\* A step that only goes on within the late stages.
LEMMA GoesOnLate ==
  ASSUME StagesInv, NEW r \in Runs, run[r].stage \in Late \ {"over"},
         NEW next, Goes(r, next), next = [f \in RunFields |-> next[f]],
         next.stage \in Late, next.alone = run[r].alone,
         next.meta = run[r].meta, next.failed = run[r].failed,
         UNCHANGED <<registry, returned>>, stageFaults' \in 0..MaxStageFaults
  PROVE  StagesInv'
<1>1. r \in InFlight
  BY DEF InFlight, Late
<1>2. Whole(run[r], r) /\ returned[r] = <<>>
  BY <1>1, NothingReturned
<1>3. Whole(next, r)
  BY <1>2 DEF Whole, Early, Late
<1>4. Stashed(next, registry')
  BY <1>1, StashKept
<1>5. Tells(next, returned'[r], r)
  BY <1>2 DEF Tells
<1>6. returned' = [returned EXCEPT ![r] = returned'[r]]
  BY DEF StagesInv
<1> QED BY <1>1, <1>3, <1>4, <1>5, <1>6, RunProceeds

\* The same with the impacts the step leaves.
LEMMA LateStep ==
  ASSUME StagesInv, NEW r \in Runs, run[r].stage \in Late \ {"over"},
         NEW stage \in Late, NEW impacts,
         Goes(r, [run[r] EXCEPT !.stage = stage, !.impacts = impacts]),
         UNCHANGED <<registry, returned>>, stageFaults' \in 0..MaxStageFaults
  PROVE  StagesInv'
<1> DEFINE next == [run[r] EXCEPT !.stage = stage, !.impacts = impacts]
<1>1. run[r] = [f \in RunFields |-> run[r][f]]
  <2>1. r \in InFlight
    BY DEF InFlight, Late
  <2> QED BY <2>1, NothingReturned DEF Whole
<1>2. next = [f \in RunFields |-> IF f = "stage" THEN stage
                                  ELSE IF f = "impacts" THEN impacts ELSE run[r][f]]
  BY <1>1 DEF RunFields
<1>3. /\ next.alone = run[r].alone /\ next.stage = stage /\ next.meta = run[r].meta
      /\ next.failed = run[r].failed /\ next = [f \in RunFields |-> next[f]]
  BY <1>2 DEF RunFields
<1>4. Goes(r, next)
  OBVIOUS
<1> HIDE DEF next
<1> QED BY <1>3, <1>4, GoesOnLate

LEMMA DeliveredKept ==
  ASSUME StagesInv, NEW r \in Runs, Delivered(r)
  PROVE  StagesInv'
<1> DEFINE first == [stage |-> "relevance", alone |-> InFlight = {}, symbols |-> <<>>,
                     meta |-> NoMeta, failed |-> FALSE, impacts |-> <<>>,
                     scope |-> "company_specific"]
<1>1. /\ run' = [q \in Runs |-> IF q = r THEN first
                                ELSE IF q \in InFlight THEN [run[q] EXCEPT !.alone = FALSE]
                                ELSE run[q]]
      /\ run[r].stage = "waiting"
      /\ UNCHANGED <<registry, returned, stageFaults>>
  BY DEF Delivered, Upon
<1>2. Whole(first, r) /\ first.stage = "relevance" /\ first.alone = (InFlight = {})
  <2>1. first.stage = "relevance" /\ first.meta = NoMeta /\ first.failed = FALSE
    OBVIOUS
  <2>2. first = [f \in RunFields |-> first[f]]
    BY DEF RunFields
  <2>3. first.alone = (InFlight = {})
    OBVIOUS
  <2>4. first.alone \in BOOLEAN
    BY <2>3, Zenon
  <2> HIDE DEF first
  <2>5. Whole(first, r)
    BY <2>1, <2>2, <2>4 DEF Whole, Early, Late
  <2> QED BY <2>1, <2>3, <2>5, Zenon
<1>3. r \notin InFlight /\ run'[r] = first
  BY <1>1 DEF InFlight
<1>4. ASSUME NEW q \in InFlight
      PROVE  /\ q # r /\ Whole(run'[q], q) /\ ~ run'[q].alone
             /\ run'[q].stage = run[q].stage
  <2>1. Whole(run[q], q) /\ q \in Runs /\ q # r
    BY <1>3, FlightIs
  <2>2. run'[q] = [run[q] EXCEPT !.alone = FALSE]
    BY <1>1, <2>1
  <2>3. run'[q] = [f \in RunFields |-> IF f = "alone" THEN FALSE ELSE run[q][f]]
    BY <2>1, <2>2 DEF Whole, RunFields
  <2>4. Whole(run'[q], q) /\ ~ run'[q].alone /\ run'[q].stage = run[q].stage
    BY <2>1, <2>3 DEF Whole, RunFields
  <2> QED BY <2>1, <2>4
<1>5. \A q \in Runs : q # r /\ q \notin InFlight => run'[q] = run[q]
  BY <1>1
<1>6. \A q \in Runs : run'[q] = Waiting \/ Whole(run'[q], q)
  BY <1>2, <1>3, <1>4, <1>5 DEF StagesInv
<1>7. InFlight' = InFlight \cup {r}
  <2>1. \A q \in Runs : q \in InFlight' <=> q \in InFlight \/ q = r
    BY <1>2, <1>3, <1>4, <1>5 DEF InFlight
  <2> QED BY <2>1 DEF InFlight
<1>8. \A q \in InFlight' : run'[q].alone => InFlight' = {q}
  BY <1>2, <1>3, <1>4, <1>7
<1>9. \A q \in InFlight' : Stashed(run'[q], registry')
  BY <1>2, <1>3, <1>4, <1>7 DEF Stashed, Late
<1>10. ASSUME NEW q \in Runs PROVE Tells(run'[q], returned'[q], q)
  <2>1. returned'[q] = returned[q] /\ Tells(run[q], returned[q], q)
    BY <1>1 DEF StagesInv
  <2>2. CASE q = r \/ q \in InFlight
    BY <1>1, <2>1, <2>2, FlightIs DEF Tells
  <2>3. CASE q # r /\ q \notin InFlight
    BY <1>5, <2>1, <2>3
  <2> QED BY <2>2, <2>3
<1>11. run' = [q \in Runs |-> run'[q]]
  BY <1>1
<1> HIDE DEF first
<1> QED BY <1>1, <1>6, <1>8, <1>9, <1>10, <1>11 DEF StagesInv

LEMMA RelevanceKept ==
  ASSUME StagesInv, NEW r \in Runs, Relevance(r)
  PROVE  StagesInv'
<1>1. run[r].stage = "relevance" /\ UNCHANGED <<registry, stageFaults>>
  BY DEF Relevance, Upon
<1>2. r \in InFlight
  BY <1>1 DEF InFlight
<1>3. Whole(run[r], r) /\ returned[r] = <<>>
  BY <1>2, NothingReturned
<1>4. ASSUME NEW stage \in {"extract", "over"}
      PROVE  LET next == [run[r] EXCEPT !.stage = stage]
             IN  /\ Whole(next, r) /\ next.alone = run[r].alone /\ next.stage = stage
                 /\ next.meta = NoMeta
  <2>1. [run[r] EXCEPT !.stage = stage]
          = [f \in RunFields |-> IF f = "stage" THEN stage ELSE run[r][f]]
    BY <1>3 DEF Whole, RunFields
  <2> QED BY <1>1, <1>3, <2>1 DEF Whole, RunFields, Early, Late
<1>5. CASE Goes(r, [run[r] EXCEPT !.stage = "extract"]) /\ UNCHANGED returned
  <2> DEFINE next == [run[r] EXCEPT !.stage = "extract"]
  <2>1. /\ Whole(next, r) /\ next.alone = run[r].alone /\ next.stage = "extract"
        /\ next.meta = NoMeta
    BY <1>4
  <2>2. Stashed(next, registry') /\ Tells(next, returned'[r], r)
    BY <1>3, <1>5, <2>1 DEF Stashed, Tells, Late
  <2>3. returned' = [returned EXCEPT ![r] = returned'[r]]
    BY <1>5 DEF StagesInv
  <2> HIDE DEF next
  <2> QED BY <1>1, <1>2, <1>5, <2>1, <2>2, <2>3, RunProceeds DEF StagesInv, next
<1>6. CASE /\ Goes(r, [run[r] EXCEPT !.stage = "over"])
           /\ returned' = [returned EXCEPT ![r] = <<[relevant |-> FALSE]>>]
  <2> DEFINE next == [run[r] EXCEPT !.stage = "over"]
  <2>1. /\ Whole(next, r) /\ next.alone = run[r].alone /\ next.stage = "over"
        /\ next.meta = NoMeta
    BY <1>4
  <2>2. returned'[r] = <<[relevant |-> FALSE]>>
    BY <1>6 DEF StagesInv
  <2>3. Stashed(next, registry') /\ Tells(next, returned'[r], r)
    BY <2>1, <2>2 DEF Stashed, Tells, Late
  <2>4. returned' = [returned EXCEPT ![r] = returned'[r]]
    BY <1>6, <2>2
  <2> HIDE DEF next
  <2> QED BY <1>1, <1>2, <1>6, <2>1, <2>3, <2>4, RunProceeds DEF StagesInv, next
<1> QED BY <1>5, <1>6 DEF Relevance

LEMMA ExtractKept ==
  ASSUME StagesInv, NEW r \in Runs, Extract(r)
  PROVE  StagesInv'
<1>1. run[r].stage = "extract" /\ UNCHANGED <<registry, returned, stageFaults>>
  BY DEF Extract, Upon
<1>2. r \in InFlight
  BY <1>1 DEF InFlight
<1>3. Whole(run[r], r) /\ returned[r] = <<>>
  BY <1>2, NothingReturned
<1>4. PICK symbols : Goes(r, [run[r] EXCEPT !.stage = "route", !.symbols = symbols])
  BY DEF Extract
<1> DEFINE next == [run[r] EXCEPT !.stage = "route", !.symbols = symbols]
<1>5. next = [f \in RunFields |-> IF f = "stage" THEN "route"
                                  ELSE IF f = "symbols" THEN symbols ELSE run[r][f]]
  BY <1>3 DEF Whole, RunFields
<1>6. /\ Whole(next, r) /\ next.alone = run[r].alone /\ next.stage = "route"
      /\ next.meta = NoMeta
  BY <1>1, <1>3, <1>5 DEF Whole, RunFields, Early, Late
<1>7. Stashed(next, registry') /\ Tells(next, returned'[r], r)
  BY <1>1, <1>3, <1>6 DEF Stashed, Tells, Late
<1>8. returned' = [returned EXCEPT ![r] = returned'[r]]
  BY <1>1 DEF StagesInv
<1>9. Goes(r, next)
  BY <1>4
<1> HIDE DEF next
<1> QED BY <1>1, <1>2, <1>6, <1>7, <1>8, <1>9, RunProceeds DEF StagesInv

LEMMA RouteKept ==
  ASSUME StagesInv, NEW r \in Runs, Route(r)
  PROVE  StagesInv'
<1>1. run[r].stage = "route" /\ UNCHANGED <<returned, stageFaults>>
  BY DEF Route, Upon
<1>2. r \in InFlight
  BY <1>1 DEF InFlight
<1>3. Whole(run[r], r) /\ returned[r] = <<>>
  BY <1>2, NothingReturned
<1>4. returned' = [returned EXCEPT ![r] = returned'[r]]
  BY <1>1 DEF StagesInv
<1>5. CASE Goes(r, [run[r] EXCEPT !.stage = "pricedIn"]) /\ UNCHANGED registry
  <2> DEFINE next == [run[r] EXCEPT !.stage = "pricedIn"]
  <2>1. next = [f \in RunFields |-> IF f = "stage" THEN "pricedIn" ELSE run[r][f]]
    BY <1>3 DEF Whole, RunFields
  <2>2. /\ Whole(next, r) /\ next.alone = run[r].alone /\ next.stage = "pricedIn"
        /\ next.meta = NoMeta
    BY <1>1, <1>3, <2>1 DEF Whole, RunFields, Early, Late
  <2>3. Stashed(next, registry') /\ Tells(next, returned'[r], r)
    BY <1>1, <1>3, <2>2 DEF Stashed, Tells, Late
  <2>4. Goes(r, next)
    BY <1>5
  <2> HIDE DEF next
  <2> QED BY <1>1, <1>2, <1>4, <1>5, <2>2, <2>3, <2>4, RunProceeds DEF StagesInv
<1>6. ASSUME NEW scored,
             registry' = [of |-> r, scored |-> Range(scored), floored |-> {}, failed |-> FALSE],
             Goes(r, [run[r] EXCEPT !.stage = IF scored = <<>> THEN "pricedIn" ELSE "score",
                                    !.symbols = scored, !.meta = registry'])
      PROVE  StagesInv'
  <2> DEFINE next == [run[r] EXCEPT !.stage = IF scored = <<>> THEN "pricedIn" ELSE "score",
                                    !.symbols = scored, !.meta = registry']
  <2>1. next = [f \in RunFields |-> IF f = "stage"
                                      THEN (IF scored = <<>> THEN "pricedIn" ELSE "score")
                                    ELSE IF f = "symbols" THEN scored
                                    ELSE IF f = "meta" THEN registry' ELSE run[r][f]]
    BY <1>3 DEF Whole, RunFields
  <2>2. RecordOf(registry', r) /\ registry'.failed = FALSE
    BY <1>6 DEF RecordOf, MetaFields
  <2>3. registry' # NoMeta
    BY <2>2, RecordIs
  <2>4. /\ next.alone = run[r].alone /\ next.stage \in {"pricedIn", "score"}
        /\ next.meta = registry' /\ next.failed = FALSE
        /\ next = [f \in RunFields |-> next[f]]
    BY <1>1, <1>3, <2>1 DEF Whole, RunFields, Early
  <2>5. Whole(next, r)
    <3> HIDE DEF next
    <3> QED BY <1>3, <2>2, <2>3, <2>4 DEF Whole, Early, Late
  <2>6. Stashed(next, registry') /\ Tells(next, returned'[r], r)
    <3> HIDE DEF next
    <3> QED BY <1>1, <1>3, <2>2, <2>4 DEF Stashed, Tells
  <2>7. Goes(r, next)
    BY <1>6
  <2> HIDE DEF next
  <2> QED BY <1>1, <1>2, <1>4, <2>2, <2>4, <2>5, <2>6, <2>7, RunProceeds DEF StagesInv
<1> QED BY <1>5, <1>6 DEF Route

LEMMA ScoreKept ==
  ASSUME StagesInv, NEW r \in Runs, Score(r)
  PROVE  StagesInv'
<1>1. run[r].stage = "score" /\ UNCHANGED returned
  BY DEF Score, Upon
<1>2. r \in InFlight
  BY <1>1 DEF InFlight
<1>3. Whole(run[r], r) /\ returned[r] = <<>> /\ Stashed(run[r], registry)
  BY <1>2, NothingReturned DEF StagesInv
<1>4. returned' = [returned EXCEPT ![r] = returned'[r]]
  BY <1>1 DEF StagesInv
<1>5. /\ RecordOf(run[r].meta, r) /\ run[r].meta.failed = FALSE /\ run[r].failed = FALSE
      /\ run[r].alone => registry = run[r].meta
  BY <1>1, <1>3 DEF Whole, Stashed
<1>6. ASSUME NEW floored, NEW impacts, NEW scope, NEW meta,
             meta = [run[r].meta EXCEPT !.floored = floored],
             registry' = IF registry = run[r].meta THEN meta ELSE registry,
             UNCHANGED stageFaults,
             Goes(r, [run[r] EXCEPT !.stage = "pricedIn", !.meta = meta,
                                    !.impacts = impacts, !.scope = scope])
      PROVE  StagesInv'
  <2> DEFINE next == [run[r] EXCEPT !.stage = "pricedIn", !.meta = meta,
                                    !.impacts = impacts, !.scope = scope]
  <2>1. next = [f \in RunFields |-> IF f = "stage" THEN "pricedIn"
                                    ELSE IF f = "meta" THEN meta
                                    ELSE IF f = "impacts" THEN impacts
                                    ELSE IF f = "scope" THEN scope ELSE run[r][f]]
    BY <1>3 DEF Whole, RunFields
  <2>2. meta = [f \in MetaFields |-> IF f = "floored" THEN floored ELSE run[r].meta[f]]
    BY <1>5, <1>6 DEF RecordOf, MetaFields
  <2>3. RecordOf(meta, r) /\ meta.failed = FALSE
    BY <1>5, <2>2 DEF RecordOf, MetaFields
  <2>4. meta # NoMeta
    BY <2>3, RecordIs
  <2>5. /\ next.alone = run[r].alone /\ next.stage = "pricedIn"
        /\ next.meta = meta /\ next.failed = FALSE
        /\ next = [f \in RunFields |-> next[f]]
    BY <1>5, <2>1 DEF RunFields
  <2>6. Goes(r, next)
    BY <1>6
  <2> HIDE DEF next
  <2>7. Whole(next, r)
    BY <1>3, <2>3, <2>5 DEF Whole, Early, Late
  <2>8. Stashed(next, registry')
    BY <1>5, <1>6, <2>3, <2>5 DEF Stashed, RecordOf
  <2>9. Tells(next, returned'[r], r)
    BY <1>1, <1>3 DEF Tells
  <2> QED BY <1>2, <1>4, <1>6, <2>3, <2>5, <2>6, <2>7, <2>8, <2>9, RunProceeds DEF StagesInv
<1>7. CASE /\ stageFaults < MaxStageFaults /\ stageFaults' = stageFaults + 1
           /\ registry' = [run[r].meta EXCEPT !.failed = TRUE]
           /\ Goes(r, [run[r] EXCEPT !.stage = "pricedIn", !.failed = TRUE])
  <2> DEFINE next == [run[r] EXCEPT !.stage = "pricedIn", !.failed = TRUE]
  <2>1. next = [f \in RunFields |-> IF f = "stage" THEN "pricedIn"
                                    ELSE IF f = "failed" THEN TRUE ELSE run[r][f]]
    BY <1>3 DEF Whole, RunFields
  <2>2. registry' = [f \in MetaFields |-> IF f = "failed" THEN TRUE ELSE run[r].meta[f]]
    BY <1>5, <1>7 DEF RecordOf, MetaFields
  <2>3. RecordOf(registry', r) /\ registry'.failed = TRUE
    BY <1>5, <2>2 DEF RecordOf, MetaFields
  <2>4. /\ next.alone = run[r].alone /\ next.stage = "pricedIn"
        /\ next.meta = run[r].meta /\ next.failed = TRUE
        /\ next = [f \in RunFields |-> next[f]]
    BY <1>5, <2>1 DEF RunFields
  <2>5. Goes(r, next)
    BY <1>7
  <2>6. stageFaults' \in 0..MaxStageFaults
    BY <1>7, StageConstants DEF StagesInv
  <2> HIDE DEF next
  <2>7. Whole(next, r)
    BY <1>3, <1>5, <2>4 DEF Whole, Early, Late
  <2>8. Stashed(next, registry')
    BY <1>5, <2>3, <2>4 DEF Stashed, RecordOf
  <2>9. Tells(next, returned'[r], r)
    BY <1>1, <1>3 DEF Tells
  <2> QED BY <1>2, <1>4, <2>3, <2>4, <2>5, <2>6, <2>7, <2>8, <2>9, RunProceeds
<1> QED BY <1>6, <1>7 DEF Score

LEMMA PricedInKept ==
  ASSUME StagesInv, NEW r \in Runs, PricedIn(r)
  PROVE  StagesInv'
<1>1. run[r].stage = "pricedIn" /\ UNCHANGED <<registry, returned, stageFaults>>
  BY DEF PricedIn, Upon
<1>2. PICK impacts : Goes(r, [run[r] EXCEPT !.stage = "propagate", !.impacts = impacts])
  BY DEF PricedIn
<1> QED BY <1>1, <1>2, LateStep DEF StagesInv, Late

LEMMA PropagateKept ==
  ASSUME StagesInv, NEW r \in Runs, Propagate(r)
  PROVE  StagesInv'
<1>1. run[r].stage = "propagate" /\ UNCHANGED <<registry, returned>>
  BY DEF Propagate, Upon
<1>2. PICK impacts : Goes(r, [run[r] EXCEPT !.stage = "signals", !.impacts = impacts])
  BY DEF Propagate
<1>3. stageFaults' \in 0..MaxStageFaults
  BY StageConstants DEF Propagate, StagesInv
<1> QED BY <1>1, <1>2, <1>3, LateStep DEF Late

LEMMA SignalsKept ==
  ASSUME StagesInv, NEW r \in Runs, Signals(r)
  PROVE  StagesInv'
<1>1. /\ run[r].stage = "signals" /\ UNCHANGED <<registry, returned, stageFaults>>
      /\ Goes(r, [run[r] EXCEPT !.stage = "finalize"])
  BY DEF Signals, Upon
<1>2. run[r] = [f \in RunFields |-> run[r][f]]
  BY <1>1, FlightIs DEF Whole
<1>3. [run[r] EXCEPT !.stage = "finalize"]
        = [run[r] EXCEPT !.stage = "finalize", !.impacts = run[r].impacts]
  BY <1>2 DEF RunFields
<1> QED BY <1>1, <1>3, LateStep DEF StagesInv, Late

LEMMA FinalizeKept ==
  ASSUME StagesInv, NEW r \in Runs, Finalize(r)
  PROVE  StagesInv'
<1> DEFINE next == [run[r] EXCEPT !.stage = "over"]
           made == [relevant |-> TRUE, impacts |-> run[r].impacts,
                      scope |-> run[r].scope, meta |-> registry]
<1>1. /\ run[r].stage = "finalize" /\ returned' = [returned EXCEPT ![r] = <<made>>]
      /\ registry' = NoMeta /\ UNCHANGED stageFaults /\ Goes(r, next)
  BY DEF Finalize, Upon
<1>2. r \in InFlight
  BY <1>1 DEF InFlight
<1>3. Whole(run[r], r) /\ Stashed(run[r], registry)
  BY <1>2, NothingReturned DEF StagesInv
<1>4. next = [f \in RunFields |-> IF f = "stage" THEN "over" ELSE run[r][f]]
  BY <1>3 DEF Whole, RunFields
<1>5. /\ next.alone = run[r].alone /\ next.stage = "over" /\ next.meta = run[r].meta
      /\ next.failed = run[r].failed /\ next = [f \in RunFields |-> next[f]]
  BY <1>4 DEF RunFields
<1>6. returned'[r] = <<made>> /\ returned' = [returned EXCEPT ![r] = returned'[r]]
  BY <1>1 DEF StagesInv
<1>7. made.meta = registry /\ <<made>>[1] = made
  OBVIOUS
<1> HIDE DEF next, made
<1>8. Whole(next, r)
  BY <1>1, <1>3, <1>5 DEF Whole, Early, Late
<1>9. Stashed(next, registry')
  BY <1>5 DEF Stashed, Late
<1>10. Tells(next, returned'[r], r)
  <2>1. next.alone /\ next.meta # NoMeta =>
          registry.of = run[r].meta.of /\ registry.failed = next.failed
    BY <1>1, <1>3, <1>5 DEF Stashed, Late
  <2>2. next.meta # NoMeta => run[r].meta.of = r
    BY <1>3, <1>5 DEF Whole, RecordOf
  <2> QED BY <1>5, <1>6, <1>7, <2>1, <2>2 DEF Tells
<1> QED BY <1>1, <1>2, <1>5, <1>6, <1>8, <1>9, <1>10, RunProceeds DEF StagesInv

LEMMA CutOffKept ==
  ASSUME StagesInv, NEW r \in Runs, CutOff(r)
  PROVE  StagesInv'
<1> DEFINE next == [run[r] EXCEPT !.stage = "over"]
<1>1. /\ r \in InFlight /\ Goes(r, next) /\ UNCHANGED <<registry, returned>>
      /\ stageFaults' \in 0..MaxStageFaults
  BY StageConstants DEF CutOff, StagesInv
<1>2. Whole(run[r], r) /\ returned[r] = <<>>
  BY <1>1, NothingReturned
<1>3. next = [f \in RunFields |-> IF f = "stage" THEN "over" ELSE run[r][f]]
  BY <1>2 DEF Whole, RunFields
<1>4. /\ next.alone = run[r].alone /\ next.stage = "over" /\ next.meta = run[r].meta
      /\ next.failed = run[r].failed /\ next = [f \in RunFields |-> next[f]]
  BY <1>3 DEF RunFields
<1>5. returned' = [returned EXCEPT ![r] = returned'[r]]
  BY <1>1 DEF StagesInv
<1> HIDE DEF next
<1>6. Whole(next, r)
  BY <1>2, <1>4 DEF Whole, Early, Late
<1>7. Stashed(next, registry') /\ Tells(next, returned'[r], r)
  BY <1>1, <1>2, <1>4 DEF Stashed, Tells, Late
<1> QED BY <1>1, <1>4, <1>5, <1>6, <1>7, RunProceeds

LEMMA StagesInitOK == ASSUME StagesInit PROVE StagesInv
<1>1. run = [r \in Runs |-> Waiting] /\ returned = [r \in Runs |-> <<>>]
  BY DEF StagesInit
<1>2. InFlight = {}
  BY <1>1, StageConstants DEF InFlight
<1>3. /\ \A r \in Runs : run[r] = Waiting /\ Tells(run[r], returned[r], r)
      /\ run = [r \in Runs |-> run[r]] /\ returned = [r \in Runs |-> returned[r]]
  BY <1>1 DEF Tells
<1>4. stageFaults \in 0..MaxStageFaults /\ registry = NoMeta
  BY StageConstants DEF StagesInit
<1> QED BY <1>2, <1>3, <1>4 DEF StagesInv

\* The invariant of the stages: a run alone with its item finds its own record.
THEOREM StagesInvariant == StagesSpec => []StagesInv
<1>1. StagesInit => StagesInv
  BY StagesInitOK
<1>2. StagesInv /\ [StagesNext]_stageVars => StagesInv'
  <2> SUFFICES ASSUME StagesInv, [StagesNext]_stageVars PROVE StagesInv'
    OBVIOUS
  <2>1. CASE StagesNext
    BY <2>1, DeliveredKept, RelevanceKept, ExtractKept, RouteKept, ScoreKept, PricedInKept,
       PropagateKept, SignalsKept, FinalizeKept, CutOffKept DEF StagesNext
  <2>2. CASE UNCHANGED stageVars
    BY <2>2 DEF stageVars, StagesInv, InFlight
  <2> QED BY <2>1, <2>2
<1> QED BY <1>1, <1>2, PTL DEF StagesSpec

\* A report whose scoring failed says so, and no other does, for runs that were
\* alone with their item (pipeline.py:315, stage3_impact.py:157).
THEOREM ScoringToldHolds == StagesSpec => []ScoringTold
<1>1. StagesInv => ScoringTold
  BY DEF StagesInv, ScoringTold, Tells
<1> QED BY <1>1, StagesInvariant, PTL

\* Runs are in one of their stages, a record is that of a run.
THEOREM StagesTypeCorrect == StagesSpec => []StagesTypeOK
<1>1. ASSUME StagesInv PROVE StagesTypeOK
  <2>1. \A r \in Runs : run[r].stage \in {"waiting"} \cup Early \cup {"score"} \cup Late
    <3> TAKE r \in Runs
    <3>1. CASE run[r] = Waiting
      BY <3>1, StageConstants
    <3>2. CASE Whole(run[r], r)
      BY <3>2 DEF Whole
    <3> QED BY <3>1, <3>2, <1>1 DEF StagesInv
  <2>2. registry.of \in 0..Deliveries
    <3>1. CASE registry = NoMeta
      BY <3>1, StageConstants
    <3>2. CASE \E r \in Runs : RecordOf(registry, r)
      BY <3>2, StageConstants DEF RecordOf, Runs
    <3> QED BY <3>1, <3>2, <1>1 DEF StagesInv
  <2>3. stageFaults \in 0..MaxStageFaults
    BY <1>1 DEF StagesInv
  <2> QED BY <2>1, <2>2, <2>3 DEF StagesTypeOK, Early, Late
<1> QED BY <1>1, StagesInvariant, PTL

-----------------------------------------------------------------------------
(* Impacts.  Each stage keeps one for each company; what is passed on comes *)
(* from an impact that is in the report too.                               *)

ImpactFields == {"symbol", "sentiment", "magnitude", "hop", "via"}

\* An impact that can be passed on.
Sized(one) ==
  /\ one = [f \in ImpactFields |-> one[f]]
  /\ one.symbol \in Companies /\ one.magnitude \in Nat \ {0}

OneEach(impacts) == \A i, j \in DOMAIN impacts : impacts[i].symbol = impacts[j].symbol => i = j

\* What stage 3 leaves.
Direct(impacts, scored) ==
  /\ impacts \in Seq(ToSet(impacts)) /\ OneEach(impacts)
  /\ \A one \in ToSet(impacts) : Sized(one) /\ one.hop = 0 /\ one.symbol \in scored

\* What stage 4 leaves.
Traced(impacts, scored, scope) ==
  /\ OneEach(impacts)
  /\ \A i \in DOMAIN impacts :
       IF impacts[i].hop = 0 THEN impacts[i].symbol \in scored
       ELSE Sourced(impacts[i], impacts, scope)

\* The edges of a company.
LEMMA GraphIs ==
  ASSUME NEW s \in Companies
  PROVE  /\ Graph[s] \in Seq([target : Companies, channel : Channels, weight : Int])
         /\ DOMAIN Graph[s] = 1..Len(Graph[s]) /\ Len(Graph[s]) \in Nat
         /\ \A k \in DOMAIN Graph[s] : Graph[s][k].target \in Companies /\ Graph[s][k].weight \in Int
<1>1. Graph[s] \in Seq([target : Companies, channel : Channels, weight : Int])
  BY StagesAssumption
<1>2. DOMAIN Graph[s] = 1..Len(Graph[s]) /\ Len(Graph[s]) \in Nat
  BY <1>1
<1>3. ASSUME NEW k \in DOMAIN Graph[s]
      PROVE  Graph[s][k].target \in Companies /\ Graph[s][k].weight \in Int
  <2>1. Graph[s][k] \in [target : Companies, channel : Channels, weight : Int]
    BY <1>1, <1>2, ElementOfSeq
  <2> HIDE DEF Companies, Channels
  <2> QED BY <2>1
<1> QED BY <1>1, <1>2, <1>3

\* The strongest edges of a company are edges of it.
LEMMA StrongestAre ==
  ASSUME NEW s \in Companies, NEW hop \in 1..2, NEW failing
  PROVE  LET strong == Strongest(s, hop, failing)
         IN  /\ strong \in Seq(ToSet(Graph[s]))
             /\ \A e \in ToSet(strong) : \E k \in DOMAIN Graph[s] : e = Graph[s][k]
<1> DEFINE edges == Graph[s]
           K == DOMAIN edges
           weight == [i \in K |-> IF edges[i].weight = NoWeight THEN 0 ELSE edges[i].weight]
           ranked == Ranked(K, weight)
           most == IF Len(edges) < Neighbours[hop] THEN Len(edges) ELSE Neighbours[hop]
<1>1. /\ K = 1..Len(edges) /\ Len(edges) \in Nat /\ \A k \in K : edges[k].weight \in Int
  BY GraphIs
<1>2. IsFiniteSet(K) /\ Cardinality(K) = Len(edges) /\ K \in SUBSET Int
  BY <1>1, FS_Interval
<1>3. weight \in [K -> Int]
  BY <1>1
<1>4. ranked \in [1..Len(edges) -> K]
  <2> HIDE DEF weight, K
  <2> QED BY <1>2, <1>3, RankedIs
<1>5. most \in Nat /\ most <= Len(edges)
  <2>1. Neighbours[hop] \in Nat
    BY StagesAssumption
  <2> QED BY <1>1, <2>1
<1> HIDE DEF ranked, most
<1>6. \A n \in 1..most : ranked[n] \in K
  BY <1>1, <1>4, <1>5
<1>7. Strongest(s, hop, failing) = IF s \in failing THEN <<>> ELSE [n \in 1..most |-> edges[ranked[n]]]
  BY DEF Strongest, ranked, most
<1>8. [n \in 1..most |-> edges[ranked[n]]] \in Seq(ToSet(edges))
  BY <1>5, <1>6 DEF ToSet
<1>9. Strongest(s, hop, failing) \in Seq(ToSet(edges))
  <2>1. <<>> \in Seq(ToSet(edges))
    OBVIOUS
  <2>2. CASE s \in failing
    BY <1>7, <2>1, <2>2
  <2>3. CASE s \notin failing
    BY <1>7, <1>8, <2>3
  <2> QED BY <2>2, <2>3
<1> QED BY <1>9, SetOfSeq DEF ToSet

\* What may be passed on by a source, along the edges it has.
Passable(source, known, hop, scope) ==
  {Passed(source, Graph[source.symbol][k], hop) :
     k \in {k \in DOMAIN Graph[source.symbol] :
              Open(Graph[source.symbol][k], scope) /\ Graph[source.symbol][k].target \notin known}}

PassableBy(sources, known, hop, scope) ==
  UNION {Passable(source, known, hop, scope) : source \in ToSet(sources)}

LEMMA PassedOnIs ==
  ASSUME NEW source, Sized(source), NEW known, NEW hop \in 1..2, NEW scope, NEW failing
  PROVE  PassedOn(source, known, hop, scope, failing) \in Seq(Passable(source, known, hop, scope))
<1> DEFINE strong == Strongest(source.symbol, hop, failing)
           all == [k \in DOMAIN strong |-> Passed(source, strong[k], hop)]
           K == {k \in DOMAIN strong : Open(strong[k], scope) /\ strong[k].target \notin known}
           P == Passable(source, known, hop, scope)
<1>1. /\ strong \in Seq(ToSet(Graph[source.symbol]))
      /\ \A e \in ToSet(strong) : \E k \in DOMAIN Graph[source.symbol] : e = Graph[source.symbol][k]
  <2>1. source.symbol \in Companies
    BY DEF Sized
  <2> QED BY <2>1, StrongestAre
<1>2. DOMAIN strong = 1..Len(strong) /\ Len(strong) \in Nat
  BY <1>1
<1> HIDE DEF strong
<1>3. all \in Seq(ToSet(all)) /\ Len(all) = Len(strong)
  BY <1>2 DEF ToSet
<1>4. K \in SUBSET (1..Len(all))
  BY <1>2, <1>3
<1>5. ASSUME NEW k \in K PROVE all[k] \in P
  <2>1. strong[k] \in ToSet(strong) /\ all[k] = Passed(source, strong[k], hop)
    BY DEF ToSet
  <2>2. PICK m \in DOMAIN Graph[source.symbol] : strong[k] = Graph[source.symbol][m]
    BY <1>1, <2>1
  <2> QED BY <2>1, <2>2 DEF Passable
<1> HIDE DEF all, K, P
<1>6. Those(all, K) \in Seq({all[k] : k \in K})
  BY <1>3, <1>4, SetOfThose
<1>7. {all[k] : k \in K} \subseteq P
  BY <1>5
<1>8. PassedOn(source, known, hop, scope, failing) = Those(all, K)
  BY DEF PassedOn, all, K, strong
<1>9. Those(all, K) \in Seq(P)
  BY <1>6, <1>7
<1> QED BY <1>8, <1>9 DEF P

\* A hop reaches what its sources pass on.
LEMMA ReachedIs ==
  ASSUME NEW sources, sources \in Seq(ToSet(sources)), \A one \in ToSet(sources) : Sized(one),
         NEW known, NEW hop \in 1..2, NEW scope, NEW failing
  PROVE  Reached(sources, known, hop, scope, failing)
           \in Seq(PassableBy(sources, known, hop, scope))
<1> DEFINE P == PassableBy(sources, known, hop, scope)
           parts == [i \in DOMAIN sources |-> PassedOn(sources[i], known, hop, scope, failing)]
<1>1. DOMAIN sources = 1..Len(sources) /\ Len(sources) \in Nat
  OBVIOUS
<1>2. ASSUME NEW i \in DOMAIN sources PROVE parts[i] \in Seq(P)
  <2>1. sources[i] \in ToSet(sources)
    BY DEF ToSet
  <2>2. parts[i] \in Seq(Passable(sources[i], known, hop, scope))
    BY <2>1, PassedOnIs
  <2>3. Passable(sources[i], known, hop, scope) \subseteq P
    BY <2>1 DEF PassableBy
  <2> QED BY <2>2, <2>3
<1>3. parts = [i \in 1..Len(sources) |-> parts[i]]
  BY <1>1
<1> HIDE DEF parts, P
<1>4. parts \in Seq(Seq(P))
  BY <1>1, <1>2, <1>3
<1>5. FlattenSeq(parts) \in Seq(P)
  BY <1>4, FlattenType
<1> QED BY <1>5 DEF Reached, parts, P

\* The first of each company: one each, and none is left out.
LEMMA FirstEachIs ==
  ASSUME NEW S, NEW impacts \in Seq(S)
  PROVE  FirstEach(impacts) \in Seq(S) /\ OneEach(FirstEach(impacts))
<1> DEFINE K == {i \in DOMAIN impacts : \A j \in 1..(i - 1) : impacts[j].symbol # impacts[i].symbol}
           firsts == Those(impacts, K)
<1>1. K \in SUBSET (1..Len(impacts)) /\ Len(impacts) \in Nat
  OBVIOUS
<1>2. \A i, j \in K : i < j => impacts[i].symbol # impacts[j].symbol
  <2> SUFFICES ASSUME NEW i \in K, NEW j \in K, i < j PROVE impacts[i].symbol # impacts[j].symbol
    OBVIOUS
  <2>1. i \in 1..(j - 1)
    BY <1>1
  <2> QED BY <2>1
<1> HIDE DEF K
<1>3. /\ Cardinality(K) \in Nat /\ Sorted(K) \in [1..Cardinality(K) -> K]
      /\ \A a, b \in 1..Cardinality(K) : a < b => Sorted(K)[a] < Sorted(K)[b]
      /\ firsts \in Seq(S) /\ DOMAIN firsts = 1..Cardinality(K)
      /\ \A a \in 1..Cardinality(K) : firsts[a] = impacts[Sorted(K)[a]]
  <2>1. ThoseOf(S, impacts, K)
    BY <1>1, ThoseAre
  <2> QED BY <1>1, <2>1 DEF ThoseOf
<1> HIDE DEF firsts
<1>4. ASSUME NEW a \in DOMAIN firsts, NEW b \in DOMAIN firsts, a < b
      PROVE  firsts[a].symbol # firsts[b].symbol
  <2>1. Sorted(K)[a] \in K /\ Sorted(K)[b] \in K /\ Sorted(K)[a] < Sorted(K)[b]
    BY <1>3, <1>4
  <2>2. firsts[a] = impacts[Sorted(K)[a]] /\ firsts[b] = impacts[Sorted(K)[b]]
    BY <1>3
  <2> QED BY <1>2, <2>1, <2>2
<1>5. OneEach(firsts)
  <2> SUFFICES ASSUME NEW a \in DOMAIN firsts, NEW b \in DOMAIN firsts,
                      firsts[a].symbol = firsts[b].symbol
               PROVE  a = b
    BY DEF OneEach
  <2>1. a \in Int /\ b \in Int /\ ~(a < b) /\ ~(b < a)
    BY <1>3, <1>4
  <2> QED BY <2>1
<1>6. FirstEach(impacts) = firsts
  BY DEF FirstEach, firsts, K
<1> QED BY <1>3, <1>5, <1>6

\* The strongest first: the same impacts.
LEMMA ByMagnitudeIs ==
  ASSUME NEW S, NEW impacts \in Seq(S), \A one \in S : one.magnitude \in Int
  PROVE  /\ ByMagnitude(impacts) \in Seq(S)
         /\ DOMAIN ByMagnitude(impacts) = DOMAIN impacts
<1> DEFINE K == DOMAIN impacts
           weight == [i \in K |-> impacts[i].magnitude]
           ranked == Ranked(K, weight)
<1>1. K = 1..Len(impacts) /\ Len(impacts) \in Nat /\ \A i \in K : impacts[i] \in S
  OBVIOUS
<1>2. IsFiniteSet(K) /\ Cardinality(K) = Len(impacts) /\ K \in SUBSET Int
  BY <1>1, FS_Interval
<1>3. weight \in [K -> Int]
  BY <1>1
<1>4. ranked \in [1..Len(impacts) -> K]
  <2> HIDE DEF weight, K
  <2> QED BY <1>2, <1>3, RankedIs
<1>5. ByMagnitude(impacts) = [n \in K |-> impacts[ranked[n]]]
  BY DEF ByMagnitude
<1> HIDE DEF ranked
<1>6. \A n \in K : impacts[ranked[n]] \in S
  BY <1>1, <1>4
<1> QED BY <1>1, <1>5, <1>6

\* The best impact of each company is one of its impacts.
LEMMA BestEachIs ==
  ASSUME NEW S, NEW impacts \in Seq(S), \A one \in S : one.magnitude \in Int
  PROVE  BestEach(impacts) \in Seq(S) /\ OneEach(BestEach(impacts))
<1> DEFINE on(symbol) == Those(impacts, {i \in DOMAIN impacts : impacts[i].symbol = symbol})
           firsts == FirstEach(impacts)
           best == BestEach(impacts)
<1>1. firsts \in Seq(S) /\ OneEach(firsts)
  BY FirstEachIs
<1>2. best = [n \in DOMAIN firsts |-> ByMagnitude(on(firsts[n].symbol))[1]]
  BY DEF BestEach
<1>3. ASSUME NEW n \in DOMAIN firsts
      PROVE  best[n] \in S /\ best[n].symbol = firsts[n].symbol
  <2> DEFINE symbol == firsts[n].symbol
             K == {i \in DOMAIN impacts : impacts[i].symbol = symbol}
             T == {impacts[i] : i \in K}
             same == Those(impacts, K)
  <2>1. K \in SUBSET (1..Len(impacts))
    OBVIOUS
  <2>2. T \subseteq S /\ \A one \in T : one.symbol = symbol
    OBVIOUS
  <2>3. K # {}
    <3>1. PICK i \in DOMAIN impacts : firsts[n] = impacts[i]
      <4> DEFINE J == {i \in DOMAIN impacts : \A j \in 1..(i - 1) : impacts[j].symbol # impacts[i].symbol}
      <4>1. J \in SUBSET (1..Len(impacts)) /\ J \subseteq DOMAIN impacts
        OBVIOUS
      <4>2. firsts = Those(impacts, J)
        BY DEF FirstEach
      <4> HIDE DEF J
      <4>3. ToSet(Those(impacts, J)) = {impacts[i] : i \in J}
        BY <4>1, SetOfThose
      <4>4. firsts[n] \in ToSet(firsts)
        BY DEF ToSet
      <4> QED BY <4>1, <4>2, <4>3, <4>4
    <3> QED BY <3>1
  <2> HIDE DEF K, T, symbol
  <2>4. same \in Seq(T) /\ ToSet(same) = T
    BY <2>1, SetOfThose DEF T
  <2>5. T # {}
    BY <2>3 DEF T
  <2>6. 1 \in DOMAIN same
    <3> HIDE DEF same
    <3>1. DOMAIN same = 1..Len(same) /\ Len(same) \in Nat
      BY <2>4
    <3>2. Len(same) # 0
      BY <2>4, <2>5, <3>1 DEF ToSet
    <3> QED BY <3>1, <3>2
  <2> HIDE DEF same
  <2>7. \A one \in T : one.magnitude \in Int
    BY <2>2
  <2>8. ByMagnitude(same) \in Seq(T) /\ 1 \in DOMAIN ByMagnitude(same)
    BY <2>4, <2>6, <2>7, ByMagnitudeIs
  <2>9. ByMagnitude(same)[1] \in T
    BY <2>8
  <2>10. best[n] = ByMagnitude(same)[1]
    BY <1>2 DEF same, K, symbol
  <2> QED BY <2>2, <2>9, <2>10 DEF symbol
<1> HIDE DEF firsts, best
<1>4. best \in Seq(S) /\ DOMAIN best = DOMAIN firsts
  <2>1. DOMAIN firsts = 1..Len(firsts) /\ Len(firsts) \in Nat
    BY <1>1
  <2>2. best = [n \in 1..Len(firsts) |-> best[n]]
    BY <1>2, <2>1
  <2> QED BY <1>3, <2>1, <2>2
<1>5. OneEach(best)
  BY <1>1, <1>3, <1>4 DEF OneEach
<1> QED BY <1>4, <1>5 DEF best

\* Sequences that share no company.
LEMMA OneEachConcat ==
  ASSUME NEW S, NEW s \in Seq(S), NEW T, NEW t \in Seq(T), OneEach(s), OneEach(t),
         \A i \in DOMAIN s, j \in DOMAIN t : s[i].symbol # t[j].symbol
  PROVE  OneEach(s \o t)
<1>1. /\ Len(s) \in Nat /\ Len(t) \in Nat
      /\ DOMAIN s = 1..Len(s) /\ DOMAIN t = 1..Len(t) /\ DOMAIN (s \o t) = 1..(Len(s) + Len(t))
      /\ \A i \in 1..(Len(s) + Len(t)) :
           (s \o t)[i] = IF i <= Len(s) THEN s[i] ELSE t[i - Len(s)]
  OBVIOUS
<1> SUFFICES ASSUME NEW i \in 1..(Len(s) + Len(t)), NEW j \in 1..(Len(s) + Len(t)),
                    (s \o t)[i].symbol = (s \o t)[j].symbol
             PROVE  i = j
  BY <1>1 DEF OneEach
<1>2. \A k \in 1..(Len(s) + Len(t)) :
        IF k <= Len(s) THEN k \in DOMAIN s /\ (s \o t)[k] = s[k]
        ELSE k - Len(s) \in DOMAIN t /\ (s \o t)[k] = t[k - Len(s)]
  BY <1>1
<1>3. CASE i <= Len(s) /\ j <= Len(s)
  BY <1>2, <1>3 DEF OneEach
<1>4. CASE i <= Len(s) /\ ~(j <= Len(s))
  BY <1>2, <1>4
<1>5. CASE ~(i <= Len(s)) /\ j <= Len(s)
  BY <1>2, <1>5
<1>6. CASE ~(i <= Len(s)) /\ ~(j <= Len(s))
  <2>1. i - Len(s) = j - Len(s)
    BY <1>2, <1>6 DEF OneEach
  <2> QED BY <1>1, <2>1
<1> QED BY <1>3, <1>4, <1>5, <1>6

\* What stage 3 makes of an answer.
LEMMA ScoredIs ==
  ASSUME NEW answer \in Answers, NEW symbols \in Seq(Companies)
  PROVE  Direct(Scored(answer.items, symbols), Range(symbols))
<1> DEFINE items == answer.items
           K == Counted(items, symbols)
           impact(item) == [symbol |-> Canonical(item, symbols), sentiment |-> item.sentiment,
                            magnitude |-> Floor(item.magnitude), hop |-> 0,
                            via |-> Canonical(item, symbols)]
           all == [i \in DOMAIN items |-> impact(items[i])]
           result == Those(all, K)
<1>1. /\ items \in Seq(Range(items)) /\ \A i \in DOMAIN items : items[i].magnitude \in 1..5
  BY StagesAssumption
<1>2. DOMAIN items = 1..Len(items) /\ Len(items) \in Nat
  BY <1>1
<1>3. all \in Seq(ToSet(all)) /\ Len(all) = Len(items) /\ DOMAIN all = 1..Len(items)
  BY <1>2 DEF ToSet
<1>4. K \in SUBSET (1..Len(all))
  BY <1>2, <1>3 DEF Counted
<1>5. /\ \A i \in K : Canonical(items[i], symbols) \in Range(symbols)
      /\ \A i, j \in K : i < j => Canonical(items[i], symbols) # Canonical(items[j], symbols)
  <2>1. \A i, j \in K : i < j => i \in 1..(j - 1)
    BY <1>2, <1>3, <1>4
  <2> QED BY <2>1 DEF Counted
<1>6. \A i \in K : Floor(items[i].magnitude) \in Nat \ {0}
  BY <1>1, <1>2, <1>3, <1>4 DEF Floor
<1>7. Range(symbols) \subseteq Companies
  BY DEF Range
<1>8. \A i \in K : all[i] = impact(items[i])
  BY <1>2, <1>3, <1>4
<1> HIDE DEF K, all, result
<1>9. /\ Cardinality(K) \in Nat /\ Sorted(K) \in [1..Cardinality(K) -> K]
      /\ \A a, b \in 1..Cardinality(K) : a < b => Sorted(K)[a] < Sorted(K)[b]
      /\ DOMAIN result = 1..Cardinality(K) /\ Len(result) = Cardinality(K)
      /\ \A a \in 1..Cardinality(K) : result[a] = all[Sorted(K)[a]]
      /\ result \in Seq(ToSet(all))
  <2>1. ThoseOf(ToSet(all), all, K)
    BY <1>3, <1>4, ThoseAre
  <2> QED BY <1>3, <1>4, <2>1 DEF ThoseOf, result
<1>10. ASSUME NEW a \in DOMAIN result
       PROVE  /\ Sorted(K)[a] \in K
              /\ result[a] = impact(items[Sorted(K)[a]])
  BY <1>8, <1>9
<1>11. OneEach(result)
  <2> SUFFICES ASSUME NEW a \in DOMAIN result, NEW b \in DOMAIN result,
                      result[a].symbol = result[b].symbol
               PROVE  a = b
    BY DEF OneEach
  <2>1. Canonical(items[Sorted(K)[a]], symbols) = Canonical(items[Sorted(K)[b]], symbols)
    BY <1>10
  <2>2. Sorted(K)[a] \in K /\ Sorted(K)[b] \in K
    BY <1>10
  <2>3. ~(Sorted(K)[a] < Sorted(K)[b]) /\ ~(Sorted(K)[b] < Sorted(K)[a])
    BY <1>5, <2>1, <2>2
  <2>4. a \in Int /\ b \in Int /\ ~(a < b) /\ ~(b < a)
    BY <1>9, <2>3
  <2> QED BY <2>4
<1>12. ASSUME NEW one \in ToSet(result)
       PROVE  Sized(one) /\ one.hop = 0 /\ one.symbol \in Range(symbols)
  <2>1. PICK a \in DOMAIN result : one = result[a]
    BY DEF ToSet
  <2> DEFINE item == items[Sorted(K)[a]]
  <2>2. one = impact(item) /\ Sorted(K)[a] \in K
    BY <1>10, <2>1
  <2>3. Canonical(item, symbols) \in Range(symbols) /\ Floor(item.magnitude) \in Nat \ {0}
    BY <1>5, <1>6, <2>2
  <2> HIDE DEF item
  <2>4. one = [f \in ImpactFields |-> one[f]]
    BY <2>2 DEF ImpactFields
  <2>5. one.symbol = Canonical(item, symbols) /\ one.magnitude = Floor(item.magnitude) /\ one.hop = 0
    BY <2>2
  <2> QED BY <1>7, <2>3, <2>4, <2>5 DEF Sized
<1>13. result \in Seq(ToSet(result))
  BY <1>9 DEF ToSet
<1>14. Scored(answer.items, symbols) = result
  BY DEF Scored, result, all, K
<1> QED BY <1>11, <1>12, <1>13, <1>14 DEF Direct

\* The downgrade leaves impacts as many and of the same companies.
LEMMA DowngradedIs ==
  ASSUME NEW impacts, NEW scored, Direct(impacts, scored), NEW move
  PROVE  Direct([i \in DOMAIN impacts |-> Downgraded(impacts[i], move[i])], scored)
<1> DEFINE next == [i \in DOMAIN impacts |-> Downgraded(impacts[i], move[i])]
<1>1. DOMAIN impacts = 1..Len(impacts) /\ Len(impacts) \in Nat
  BY DEF Direct
<1>2. ASSUME NEW i \in DOMAIN impacts
      PROVE  /\ Sized(next[i]) /\ next[i].hop = 0
             /\ next[i].symbol = impacts[i].symbol /\ next[i].symbol \in scored
  <2> DEFINE one == impacts[i]
  <2>1. Sized(one) /\ one.hop = 0 /\ one.symbol \in scored
    BY DEF Direct, ToSet
  <2>2. PICK step \in {1, 2} : \/ next[i] = one
                               \/ next[i] = [one EXCEPT !.magnitude = IF @ > step THEN @ - step ELSE 1]
    BY DEF Downgraded
  <2> HIDE DEF one, next
  <2>3. CASE next[i] = one
    BY <2>1, <2>3 DEF one
  <2>4. CASE next[i] = [one EXCEPT !.magnitude = IF @ > step THEN @ - step ELSE 1]
    <3> DEFINE less == IF one.magnitude > step THEN one.magnitude - step ELSE 1
    <3>1. less \in Nat \ {0}
      BY <2>1 DEF Sized
    <3>2. next[i] = [f \in ImpactFields |-> IF f = "magnitude" THEN less ELSE one[f]]
      BY <2>1, <2>4 DEF Sized, ImpactFields
    <3> HIDE DEF less
    <3>3. next[i].magnitude = less /\ next[i].symbol = one.symbol /\ next[i].hop = one.hop
      BY <3>2 DEF ImpactFields
    <3>4. next[i] = [f \in ImpactFields |-> next[i][f]]
      BY <3>2
    <3> QED BY <2>1, <3>1, <3>3, <3>4 DEF Sized, one
  <2> QED BY <2>2, <2>3, <2>4
<1>3. DOMAIN next = DOMAIN impacts /\ next \in Seq(ToSet(next))
  BY <1>1 DEF ToSet
<1> HIDE DEF next
<1>4. OneEach(next)
  BY <1>2, <1>3 DEF OneEach, Direct
<1>5. \A one \in ToSet(next) : Sized(one) /\ one.hop = 0 /\ one.symbol \in scored
  BY <1>2, <1>3 DEF ToSet
<1> QED BY <1>3, <1>4, <1>5 DEF Direct, next

\* No more is passed on than there was, and at least 1.
LEMMA PassedLess ==
  ASSUME NEW m \in Nat \ {0}, NEW weight \in Int, NEW hop \in 1..2
  PROVE  LET passed == Rounded(m * Decay(weight, hop))
         IN  passed \in Int /\ passed <= m
<1> DEFINE d == Decay(weight, hop)
           n == m * d
<1>1. d \in 10..90
  BY DEF Decay
<1> HIDE DEF d
<1>2. n \in Int /\ n <= 90 * m
  BY <1>1
<1> HIDE DEF n
<1>3. Rounded(n) \in Int /\ Rounded(n) <= m
  BY <1>2 DEF Rounded
<1> QED BY <1>3 DEF n, d

\* An impact that is passed on, and where it comes from.
LEMMA PassableIs ==
  ASSUME NEW source, Sized(source), NEW known, NEW hop \in 1..2, NEW scope,
         NEW one \in Passable(source, known, hop, scope)
  PROVE  /\ Sized(one) /\ one.symbol \notin known /\ one.hop = hop
         /\ \A impacts : source \in ToSet(impacts) /\ source.hop = hop - 1 =>
              Sourced(one, impacts, scope)
<1>1. PICK k \in DOMAIN Graph[source.symbol] :
        /\ one = Passed(source, Graph[source.symbol][k], hop)
        /\ Open(Graph[source.symbol][k], scope) /\ Graph[source.symbol][k].target \notin known
  BY DEF Passable
<1> DEFINE edge == Graph[source.symbol][k]
           passed == Rounded(source.magnitude * Decay(edge.weight, hop))
           magnitude == IF passed < 1 THEN 1 ELSE passed
<1>2. source.symbol \in Companies /\ source.magnitude \in Nat \ {0}
  BY DEF Sized
<1>3. edge.target \in Companies /\ edge.weight \in Int
  BY <1>2, GraphIs
<1> HIDE DEF edge
<1>4. passed \in Int /\ passed <= source.magnitude
  BY <1>2, <1>3, PassedLess
<1> HIDE DEF passed
<1>5. magnitude \in Nat \ {0} /\ magnitude <= source.magnitude
  BY <1>2, <1>4
<1>6. one = [symbol |-> edge.target, sentiment |-> source.sentiment, hop |-> hop,
             via |-> source.symbol, magnitude |-> magnitude]
  BY <1>1 DEF Passed, edge, passed
<1> HIDE DEF magnitude
<1>7. /\ one.symbol = edge.target /\ one.hop = hop /\ one.via = source.symbol
      /\ one.magnitude = magnitude /\ one.sentiment = source.sentiment
      /\ one = [f \in ImpactFields |-> one[f]]
  BY <1>6 DEF ImpactFields
<1>8. Sized(one)
  BY <1>3, <1>5, <1>7 DEF Sized
<1>9. ASSUME NEW impacts, source \in ToSet(impacts), source.hop = hop - 1
      PROVE  Sourced(one, impacts, scope)
  <2>1. PICK i \in DOMAIN impacts : impacts[i] = source
    BY <1>9 DEF ToSet
  <2>2. source.magnitude >= one.magnitude
    BY <1>2, <1>5, <1>7
  <2>3. k \in DOMAIN Graph[one.via] /\ Graph[one.via][k] = edge
    BY <1>7 DEF edge
  <2>4. edge.target = one.symbol /\ Open(edge, scope)
    BY <1>1, <1>7 DEF edge
  <2> QED BY <1>7, <1>9, <2>1, <2>2, <2>3, <2>4 DEF Sourced
<1> QED BY <1>1, <1>7, <1>8, <1>9 DEF edge

\* The symbols of a sequence of impacts.
LEMMA SymbolsAre ==
  ASSUME NEW impacts
  PROVE  \A one \in ToSet(impacts) : one.symbol \in Symbols(impacts)
BY DEF ToSet, Symbols

\* What the propagation leaves can be traced: hop 1 to the direct impacts, hop 2
\* to hop 1.
LEMMA SpreadIs ==
  ASSUME NEW direct, NEW scored, Direct(direct, scored), NEW scope, NEW failing
  PROVE  Traced(Spread(direct, scope, failing), scored, scope)
<1> DEFINE from1 == Symbols(direct)
           reach1 == Reached(direct, from1, 1, scope, failing)
           hop1 == BestEach(reach1)
           from2 == Symbols(direct) \cup Symbols(hop1)
           top == ByMagnitude(hop1)
           most == IF Len(top) < TopHop1 THEN Len(top) ELSE TopHop1
           starts == SubSeq(top, 1, most)
           reach2 == Reached(starts, from2, 2, scope, failing)
           hop2 == FirstEach(reach2)
           P1 == PassableBy(direct, from1, 1, scope)
           P2 == PassableBy(starts, from2, 2, scope)
           all == direct \o hop1 \o hop2
<1>0. 1 \in 1..2 /\ 2 \in 1..2
  OBVIOUS
<1>1. /\ direct \in Seq(ToSet(direct)) /\ OneEach(direct)
      /\ \A one \in ToSet(direct) : Sized(one) /\ one.hop = 0 /\ one.symbol \in scored
  BY DEF Direct
<1>2. Spread(direct, scope, failing) = all
  BY DEF Spread
<1> HIDE DEF from1, reach1, hop1
<1>3. reach1 \in Seq(P1)
  <2>1. Reached(direct, from1, 1, scope, failing) \in Seq(P1)
    BY <1>0, <1>1, ReachedIs
  <2> QED BY <2>1 DEF reach1
<1>4. ASSUME NEW one \in P1
      PROVE  /\ Sized(one) /\ one.symbol \notin from1 /\ one.hop = 1
             /\ \A impacts : ToSet(direct) \subseteq ToSet(impacts) => Sourced(one, impacts, scope)
  <2>1. PICK source \in ToSet(direct) : one \in Passable(source, from1, 1, scope)
    BY DEF PassableBy
  <2>2. Sized(source) /\ source.hop = 1 - 1
    BY <1>1
  <2> QED BY <2>1, <2>2, PassableIs
<1> HIDE DEF P1
<1>5. \A one \in P1 : one.magnitude \in Int
  BY <1>4 DEF Sized
<1>6. hop1 \in Seq(P1) /\ OneEach(hop1)
  BY <1>3, <1>5, BestEachIs DEF hop1
<1>7. hop1 \in Seq(ToSet(hop1)) /\ ToSet(hop1) \subseteq P1
  BY <1>6 DEF ToSet
<1>8. top \in Seq(ToSet(hop1))
  BY <1>5, <1>7, ByMagnitudeIs
<1> HIDE DEF top
<1>9. starts \in Seq(ToSet(hop1)) /\ starts \in Seq(ToSet(starts)) /\ ToSet(starts) \subseteq ToSet(hop1)
  <2>1. Len(top) \in Nat /\ most \in Nat /\ most <= Len(top)
    BY <1>8, StagesAssumption
  <2> HIDE DEF most
  <2>2. /\ starts = [i \in 1..most |-> top[i]] /\ \A i \in 1..most : top[i] \in ToSet(hop1)
    BY <1>8, <2>1
  <2> HIDE DEF starts
  <2>3. starts \in Seq(ToSet(hop1))
    BY <2>1, <2>2
  <2>4. starts \in Seq(ToSet(starts))
    BY <2>3 DEF ToSet
  <2>5. ToSet(starts) \subseteq ToSet(hop1)
    BY <2>3, SetOfSeq
  <2> QED BY <2>3, <2>4, <2>5
<1> HIDE DEF starts, from2, reach2, hop2
<1>10. \A one \in ToSet(starts) : Sized(one)
  BY <1>4, <1>7, <1>9
<1>11. reach2 \in Seq(P2)
  <2>1. Reached(starts, from2, 2, scope, failing) \in Seq(P2)
    BY <1>0, <1>9, <1>10, ReachedIs
  <2> QED BY <2>1 DEF reach2
<1>12. ASSUME NEW one \in P2
       PROVE  /\ Sized(one) /\ one.symbol \notin from2 /\ one.hop = 2
              /\ \A impacts : ToSet(hop1) \subseteq ToSet(impacts) => Sourced(one, impacts, scope)
  <2>1. PICK source \in ToSet(starts) : one \in Passable(source, from2, 2, scope)
    BY DEF PassableBy
  <2>2. Sized(source) /\ source \in ToSet(hop1) /\ source.hop = 2 - 1
    BY <1>4, <1>7, <1>9, <1>10
  <2>3. \A impacts : ToSet(hop1) \subseteq ToSet(impacts) => source \in ToSet(impacts)
    BY <2>2
  <2>4. /\ Sized(one) /\ one.symbol \notin from2 /\ one.hop = 2
        /\ \A impacts : source \in ToSet(impacts) /\ source.hop = 2 - 1 => Sourced(one, impacts, scope)
    BY <1>0, <2>1, <2>2, PassableIs
  <2> QED BY <2>2, <2>3, <2>4
<1> HIDE DEF P2
<1>13. hop2 \in Seq(P2) /\ OneEach(hop2)
  BY <1>11, FirstEachIs DEF hop2
<1>14. hop2 \in Seq(ToSet(hop2)) /\ ToSet(hop2) \subseteq P2
  BY <1>13 DEF ToSet
<1> DEFINE U == ToSet(direct) \cup P1 \cup P2
<1>15. direct \in Seq(U) /\ hop1 \in Seq(U) /\ hop2 \in Seq(U) /\ direct \o hop1 \in Seq(U)
  <2>1. direct \in Seq(U)
    BY <1>1
  <2>2. hop1 \in Seq(U)
    BY <1>6
  <2>3. hop2 \in Seq(U)
    BY <1>13
  <2> QED BY <2>1, <2>2, <2>3, ConcatType
<1> HIDE DEF U
<1>16. ToSet(direct \o hop1) = ToSet(direct) \cup ToSet(hop1)
  BY <1>15, SetOfConcat
<1>17. ToSet(all) = ToSet(direct) \cup ToSet(hop1) \cup ToSet(hop2)
  <2> DEFINE d == direct \o hop1
  <2> HIDE DEF d
  <2>1. d \in Seq(U) /\ hop2 \in Seq(U)
    BY <1>15 DEF d
  <2>2. ToSet(d \o hop2) = ToSet(d) \cup ToSet(hop2)
    BY <2>1, SetOfConcat
  <2> QED BY <1>16, <2>2 DEF d
<1>18. OneEach(direct \o hop1)
  <2>1. ASSUME NEW i \in DOMAIN direct, NEW j \in DOMAIN hop1 PROVE direct[i].symbol # hop1[j].symbol
    <3>1. direct[i].symbol \in from1
      BY DEF from1, Symbols
    <3>2. hop1[j] \in P1
      BY <1>7 DEF ToSet
    <3> QED BY <1>4, <3>1, <3>2
  <2> QED BY <1>1, <1>6, <1>15, <2>1, OneEachConcat
<1>19. OneEach(all)
  <2>1. ASSUME NEW i \in DOMAIN (direct \o hop1), NEW j \in DOMAIN hop2
        PROVE  (direct \o hop1)[i].symbol # hop2[j].symbol
    <3>1. (direct \o hop1)[i] \in ToSet(direct) \cup ToSet(hop1)
      BY <1>16 DEF ToSet
    <3>2. (direct \o hop1)[i].symbol \in from2
      BY <3>1, SymbolsAre DEF from2
    <3>3. hop2[j] \in P2
      BY <1>14 DEF ToSet
    <3> QED BY <1>12, <3>2, <3>3
  <2> QED BY <1>13, <1>15, <1>18, <2>1, OneEachConcat
<1> HIDE DEF all
<1>20. ASSUME NEW i \in DOMAIN all
       PROVE  IF all[i].hop = 0 THEN all[i].symbol \in scored ELSE Sourced(all[i], all, scope)
  <2>1. all[i] \in ToSet(direct) \/ all[i] \in ToSet(hop1) \/ all[i] \in ToSet(hop2)
    <3>1. all[i] \in ToSet(all)
      BY DEF ToSet
    <3> QED BY <1>17, <3>1
  <2>2. CASE all[i] \in ToSet(direct)
    BY <1>1, <2>2
  <2>3. CASE all[i] \in ToSet(hop1)
    <3>1. all[i] \in P1 /\ ToSet(direct) \subseteq ToSet(all)
      BY <1>7, <1>17, <2>3
    <3> QED BY <1>4, <3>1
  <2>4. CASE all[i] \in ToSet(hop2)
    <3>1. all[i] \in P2 /\ ToSet(hop1) \subseteq ToSet(all)
      BY <1>14, <1>17, <2>4
    <3> QED BY <1>12, <3>1
  <2> QED BY <2>1, <2>2, <2>3, <2>4
<1> QED BY <1>2, <1>19, <1>20 DEF Traced

-----------------------------------------------------------------------------
(* The impacts of a run, stage by stage.                                   *)

Sound(one, made) ==
  /\ one.stage \in Early \cup {"score"} => one.impacts = <<>>
  /\ one.stage = "route" => one.symbols \in Seq(Companies)
  /\ one.stage = "score" => one.symbols \in Seq(Companies) /\ one.meta.scored = Range(one.symbols)
  /\ one.stage \in {"pricedIn", "propagate"} => Direct(one.impacts, one.meta.scored)
  /\ one.stage \in {"signals", "finalize"} => Traced(one.impacts, one.meta.scored, one.scope)
  /\ made # <<>> /\ made[1].relevant => Traced(made[1].impacts, one.meta.scored, made[1].scope)

ImpactsInv == \A r \in Runs : run[r].stage # "waiting" => Sound(run[r], returned[r])

LEMMA NoImpacts == ASSUME NEW scored PROVE Direct(<<>>, scored)
<1>1. ToSet(<<>>) = {} /\ <<>> \in Seq(ToSet(<<>>))
  BY SetOfNone
<1> QED BY <1>1 DEF Direct, OneEach

\* A step of one run.
LEMMA SoundStep ==
  ASSUME StagesInv, ImpactsInv, NEW r \in Runs, NEW next, Goes(r, next),
         returned' = [returned EXCEPT ![r] = returned'[r]], Sound(next, returned'[r])
  PROVE  ImpactsInv'
<1>1. /\ run'[r] = next
      /\ \A q \in Runs : q # r => run'[q] = run[q] /\ returned'[q] = returned[q]
  BY DEF Goes, StagesInv
<1> QED BY <1>1 DEF ImpactsInv

\* Where a run under way stands.
LEMMA UnderWay ==
  ASSUME StagesInv, ImpactsInv, NEW r \in Runs, run[r].stage \notin {"waiting", "over"}
  PROVE  /\ run[r] = [f \in RunFields |-> run[r][f]] /\ Whole(run[r], r)
         /\ returned[r] = <<>> /\ Sound(run[r], returned[r])
<1>1. r \in InFlight
  BY DEF InFlight
<1>2. Whole(run[r], r) /\ returned[r] = <<>>
  BY <1>1, NothingReturned
<1> QED BY <1>2 DEF Whole, ImpactsInv

LEMMA DeliveredSound ==
  ASSUME StagesInv, ImpactsInv, NEW r \in Runs, Delivered(r)
  PROVE  ImpactsInv'
<1>1. /\ run[r].stage = "waiting" /\ UNCHANGED returned
      /\ \A q \in Runs : q # r => run'[q] = run[q] \/ (q \in InFlight /\ run'[q] = [run[q] EXCEPT !.alone = FALSE])
      /\ run'[r].stage = "relevance" /\ run'[r].impacts = <<>>
  BY DEF Delivered, Upon
<1>2. returned[r] = <<>>
  <2>1. Tells(run[r], returned[r], r)
    BY DEF StagesInv
  <2> QED BY <1>1, <2>1 DEF Tells
<1>3. Sound(run'[r], returned'[r])
  BY <1>1, <1>2 DEF Sound, Early
<1>4. ASSUME NEW q \in Runs, q # r, run'[q].stage # "waiting"
      PROVE  Sound(run'[q], returned'[q])
  <2>1. CASE run'[q] = run[q]
    BY <1>1, <1>4, <2>1 DEF ImpactsInv
  <2>2. CASE q \in InFlight /\ run'[q] = [run[q] EXCEPT !.alone = FALSE]
    <3>1. Sound(run[q], returned[q]) /\ run[q] = [f \in RunFields |-> run[q][f]]
      BY <2>2, UnderWay DEF InFlight
    <3>2. run'[q] = [f \in RunFields |-> IF f = "alone" THEN FALSE ELSE run[q][f]]
      BY <2>2, <3>1
    <3>3. /\ run'[q].stage = run[q].stage /\ run'[q].impacts = run[q].impacts
          /\ run'[q].symbols = run[q].symbols /\ run'[q].meta = run[q].meta
          /\ run'[q].scope = run[q].scope
      BY <3>2 DEF RunFields
    <3> QED BY <1>1, <3>1, <3>3 DEF Sound
  <2> QED BY <1>1, <1>4, <2>1, <2>2
<1> QED BY <1>3, <1>4 DEF ImpactsInv

LEMMA RelevanceSound ==
  ASSUME StagesInv, ImpactsInv, NEW r \in Runs, Relevance(r)
  PROVE  ImpactsInv'
<1>1. run[r].stage = "relevance"
  BY DEF Relevance, Upon
<1>2. /\ run[r] = [f \in RunFields |-> run[r][f]] /\ returned[r] = <<>>
      /\ run[r].impacts = <<>>
  BY <1>1, UnderWay DEF Sound, Early
<1>3. PICK stage \in {"extract", "over"} :
        /\ Goes(r, [run[r] EXCEPT !.stage = stage])
        /\ \/ UNCHANGED returned
           \/ returned' = [returned EXCEPT ![r] = <<[relevant |-> FALSE]>>]
  BY DEF Relevance
<1> DEFINE next == [run[r] EXCEPT !.stage = stage]
<1>4. next = [f \in RunFields |-> IF f = "stage" THEN stage ELSE run[r][f]]
  BY <1>2
<1>5. next.stage = stage /\ next.impacts = <<>>
  BY <1>2, <1>4 DEF RunFields
<1>6. /\ returned' = [returned EXCEPT ![r] = returned'[r]]
      /\ returned'[r] = <<>> \/ ~returned'[r][1].relevant
  BY <1>2, <1>3 DEF StagesInv
<1> HIDE DEF next
<1>7. Sound(next, returned'[r])
  BY <1>5, <1>6 DEF Sound, Early
<1> QED BY <1>3, <1>6, <1>7, SoundStep DEF next

LEMMA ExtractSound ==
  ASSUME StagesInv, ImpactsInv, NEW r \in Runs, Extract(r)
  PROVE  ImpactsInv'
<1>1. run[r].stage = "extract" /\ UNCHANGED returned
  BY DEF Extract, Upon
<1>2. /\ run[r] = [f \in RunFields |-> run[r][f]] /\ returned[r] = <<>>
      /\ run[r].impacts = <<>>
  BY <1>1, UnderWay DEF Sound, Early
<1>3. PICK named \in Extractions :
        Goes(r, [run[r] EXCEPT !.stage = "route",
                  !.symbols = Mentioned \o Those(named, {i \in DOMAIN named : named[i] \notin Range(Mentioned)})])
  BY DEF Extract
<1> DEFINE K == {i \in DOMAIN named : named[i] \notin Range(Mentioned)}
           symbols == Mentioned \o Those(named, K)
           next == [run[r] EXCEPT !.stage = "route", !.symbols = symbols]
<1>4. named \in Seq(Companies) /\ Mentioned \in Seq(Companies)
  BY StagesAssumption
<1>5. K \in SUBSET (1..Len(named))
  BY <1>4
<1>6. symbols \in Seq(Companies)
  <2> HIDE DEF K
  <2>1. Those(named, K) \in Seq(Companies)
    <3>1. ThoseOf(Companies, named, K)
      BY <1>4, <1>5, ThoseAre
    <3> QED BY <3>1 DEF ThoseOf
  <2> QED BY <1>4, <2>1, ConcatType
<1> HIDE DEF K, symbols
<1>7. next = [f \in RunFields |-> IF f = "stage" THEN "route"
                                  ELSE IF f = "symbols" THEN symbols ELSE run[r][f]]
  BY <1>2 DEF RunFields
<1>8. next.stage = "route" /\ next.symbols = symbols /\ next.impacts = <<>>
  BY <1>2, <1>7 DEF RunFields
<1>9. Goes(r, next)
  BY <1>3 DEF symbols, K
<1> HIDE DEF next
<1>10. Sound(next, returned'[r])
  BY <1>1, <1>2, <1>6, <1>8 DEF Sound, Early
<1>11. returned' = [returned EXCEPT ![r] = returned'[r]]
  BY <1>1 DEF StagesInv
<1> QED BY <1>9, <1>10, <1>11, SoundStep

LEMMA RouteSound ==
  ASSUME StagesInv, ImpactsInv, NEW r \in Runs, Route(r)
  PROVE  ImpactsInv'
<1>1. run[r].stage = "route" /\ UNCHANGED returned
  BY DEF Route, Upon
<1>2. /\ run[r] = [f \in RunFields |-> run[r][f]] /\ returned[r] = <<>>
      /\ run[r].impacts = <<>> /\ run[r].symbols \in Seq(Companies)
  BY <1>1, UnderWay DEF Sound, Early
<1>3. returned' = [returned EXCEPT ![r] = returned'[r]]
  BY <1>1 DEF StagesInv
<1> DEFINE symbols == FirstOf(run[r].symbols)
<1>4. symbols \in Seq(Companies)
  <2> DEFINE S == Companies
             most == IF Len(run[r].symbols) < MaxCandidates THEN Len(run[r].symbols) ELSE MaxCandidates
  <2> HIDE DEF S
  <2>1. run[r].symbols \in Seq(S)
    BY <1>2 DEF S
  <2>2. most \in 0..Len(run[r].symbols)
    BY <2>1, StagesAssumption
  <2> HIDE DEF most
  <2>3. SubSeq(run[r].symbols, 1, most) \in Seq(S)
    BY <2>1, <2>2
  <2> QED BY <2>3 DEF FirstOf, most, S
<1> HIDE DEF symbols
<1>5. CASE Goes(r, [run[r] EXCEPT !.stage = "pricedIn"])
  <2> DEFINE next == [run[r] EXCEPT !.stage = "pricedIn"]
  <2>1. next = [f \in RunFields |-> IF f = "stage" THEN "pricedIn" ELSE run[r][f]]
    BY <1>2
  <2>2. next.stage = "pricedIn" /\ next.impacts = <<>>
    BY <1>2, <2>1 DEF RunFields
  <2> HIDE DEF next
  <2>3. Sound(next, returned'[r])
    BY <1>1, <1>2, <2>2, NoImpacts DEF Sound, Early
  <2> QED BY <1>3, <1>5, <2>3, SoundStep DEF next
<1>6. CASE \E known \in SUBSET Range(symbols) :
             LET scored == Those(symbols, {i \in DOMAIN symbols : ~Suppressed(symbols[i], known)})
                 meta == [of |-> r, scored |-> Range(scored), floored |-> {}, failed |-> FALSE]
             IN  Goes(r, [run[r] EXCEPT !.stage = IF scored = <<>> THEN "pricedIn" ELSE "score",
                                        !.symbols = scored, !.meta = meta])
  <2>1. PICK known \in SUBSET Range(symbols) :
             LET scored == Those(symbols, {i \in DOMAIN symbols : ~Suppressed(symbols[i], known)})
                 meta == [of |-> r, scored |-> Range(scored), floored |-> {}, failed |-> FALSE]
             IN  Goes(r, [run[r] EXCEPT !.stage = IF scored = <<>> THEN "pricedIn" ELSE "score",
                                        !.symbols = scored, !.meta = meta])
    BY <1>6
  <2> DEFINE K == {i \in DOMAIN symbols : ~Suppressed(symbols[i], known)}
             scored == Those(symbols, K)
             meta == [of |-> r, scored |-> Range(scored), floored |-> {}, failed |-> FALSE]
             stage == IF scored = <<>> THEN "pricedIn" ELSE "score"
             next == [run[r] EXCEPT !.stage = stage, !.symbols = scored, !.meta = meta]
  <2>2. K \in SUBSET (1..Len(symbols))
    BY <1>4
  <2>3. scored \in Seq(Companies)
    <3> HIDE DEF K
    <3>1. ThoseOf(Companies, symbols, K)
      BY <1>4, <2>2, ThoseAre
    <3> QED BY <3>1 DEF ThoseOf
  <2>4. meta.scored = Range(scored) /\ stage \in {"pricedIn", "score"}
    OBVIOUS
  <2>5. Goes(r, next)
    BY <2>1
  <2> HIDE DEF K, scored, meta, stage
  <2>6. next = [f \in RunFields |-> IF f = "stage" THEN stage
                                    ELSE IF f = "symbols" THEN scored
                                    ELSE IF f = "meta" THEN meta ELSE run[r][f]]
    BY <1>2 DEF RunFields
  <2>7. next.stage = stage /\ next.symbols = scored /\ next.meta = meta /\ next.impacts = <<>>
    BY <1>2, <2>6 DEF RunFields
  <2> HIDE DEF next
  <2>8. Sound(next, returned'[r])
    BY <1>1, <1>2, <2>3, <2>4, <2>7, NoImpacts DEF Sound, Early
  <2> QED BY <1>3, <2>5, <2>8, SoundStep
<1> QED BY <1>5, <1>6 DEF Route, symbols

LEMMA ScoreSound ==
  ASSUME StagesInv, ImpactsInv, NEW r \in Runs, Score(r)
  PROVE  ImpactsInv'
<1>1. run[r].stage = "score" /\ UNCHANGED returned
  BY DEF Score, Upon
<1>2. /\ run[r] = [f \in RunFields |-> run[r][f]] /\ returned[r] = <<>>
      /\ run[r].impacts = <<>> /\ run[r].symbols \in Seq(Companies)
      /\ run[r].meta.scored = Range(run[r].symbols)
      /\ RecordOf(run[r].meta, r)
  BY <1>1, UnderWay DEF Sound, Whole
<1>3. returned' = [returned EXCEPT ![r] = returned'[r]]
  BY <1>1 DEF StagesInv
<1>4. CASE \E answer \in Answers : \E scope :
             Goes(r, [run[r] EXCEPT
                        !.stage = "pricedIn",
                        !.meta = [run[r].meta EXCEPT !.floored = Floored(answer.items, run[r].symbols)],
                        !.impacts = Scored(answer.items, run[r].symbols), !.scope = scope])
  <2>0. PICK answer \in Answers : \E scope :
             Goes(r, [run[r] EXCEPT
                        !.stage = "pricedIn",
                        !.meta = [run[r].meta EXCEPT !.floored = Floored(answer.items, run[r].symbols)],
                        !.impacts = Scored(answer.items, run[r].symbols), !.scope = scope])
    BY <1>4
  <2>1. PICK scope :
             Goes(r, [run[r] EXCEPT
                        !.stage = "pricedIn",
                        !.meta = [run[r].meta EXCEPT !.floored = Floored(answer.items, run[r].symbols)],
                        !.impacts = Scored(answer.items, run[r].symbols), !.scope = scope])
    BY <2>0
  <2> DEFINE meta == [run[r].meta EXCEPT !.floored = Floored(answer.items, run[r].symbols)]
             impacts == Scored(answer.items, run[r].symbols)
             next == [run[r] EXCEPT !.stage = "pricedIn", !.meta = meta, !.impacts = impacts,
                                    !.scope = scope]
  <2>2. Direct(impacts, run[r].meta.scored)
    BY <1>2, ScoredIs
  <2>3. meta.scored = run[r].meta.scored
    <3>1. meta = [f \in MetaFields |-> IF f = "floored" THEN Floored(answer.items, run[r].symbols)
                                       ELSE run[r].meta[f]]
      BY <1>2 DEF RecordOf, MetaFields
    <3> QED BY <3>1 DEF MetaFields
  <2>4. Goes(r, next)
    BY <2>1
  <2> HIDE DEF meta, impacts
  <2>5. next = [f \in RunFields |-> IF f = "stage" THEN "pricedIn" ELSE IF f = "meta" THEN meta
                                    ELSE IF f = "impacts" THEN impacts
                                    ELSE IF f = "scope" THEN scope ELSE run[r][f]]
    BY <1>2 DEF RunFields
  <2>6. next.stage = "pricedIn" /\ next.meta = meta /\ next.impacts = impacts
    BY <2>5 DEF RunFields
  <2> HIDE DEF next
  <2>7. Sound(next, returned'[r])
    BY <1>1, <1>2, <2>2, <2>3, <2>6 DEF Sound, Early
  <2> QED BY <1>3, <2>4, <2>7, SoundStep
<1>5. CASE Goes(r, [run[r] EXCEPT !.stage = "pricedIn", !.failed = TRUE])
  <2> DEFINE next == [run[r] EXCEPT !.stage = "pricedIn", !.failed = TRUE]
  <2>1. next = [f \in RunFields |-> IF f = "stage" THEN "pricedIn"
                                    ELSE IF f = "failed" THEN TRUE ELSE run[r][f]]
    BY <1>2 DEF RunFields
  <2>2. next.stage = "pricedIn" /\ next.impacts = <<>>
    BY <1>2, <2>1 DEF RunFields
  <2> HIDE DEF next
  <2>3. Sound(next, returned'[r])
    BY <1>1, <1>2, <2>2, NoImpacts DEF Sound, Early
  <2> QED BY <1>3, <1>5, <2>3, SoundStep DEF next
<1> QED BY <1>4, <1>5 DEF Score

\* A late step that leaves these impacts.
LEMMA LateSound ==
  ASSUME StagesInv, ImpactsInv, NEW r \in Runs, run[r].stage \notin {"waiting", "over"},
         NEW stage, NEW impacts, UNCHANGED returned,
         Goes(r, [run[r] EXCEPT !.stage = stage, !.impacts = impacts]),
         \/ stage = "over"
         \/ stage \in {"pricedIn", "propagate"} /\ Direct(impacts, run[r].meta.scored)
         \/ stage \in {"signals", "finalize"} /\ Traced(impacts, run[r].meta.scored, run[r].scope)
  PROVE  ImpactsInv'
<1>1. run[r] = [f \in RunFields |-> run[r][f]] /\ returned[r] = <<>>
  BY UnderWay
<1> DEFINE next == [run[r] EXCEPT !.stage = stage, !.impacts = impacts]
<1>2. next = [f \in RunFields |-> IF f = "stage" THEN stage
                                  ELSE IF f = "impacts" THEN impacts ELSE run[r][f]]
  BY <1>1 DEF RunFields
<1>3. /\ next.stage = stage /\ next.impacts = impacts /\ next.meta = run[r].meta
      /\ next.scope = run[r].scope
  BY <1>2 DEF RunFields
<1>4. Goes(r, next)
  OBVIOUS
<1> HIDE DEF next
<1>5. Sound(next, returned'[r])
  BY <1>1, <1>3 DEF Sound, Early
<1>6. returned' = [returned EXCEPT ![r] = returned'[r]]
  BY DEF StagesInv
<1> QED BY <1>4, <1>5, <1>6, SoundStep

\* A step of a run that leaves its impacts as they are.
LEMMA StageOnly ==
  ASSUME NEW r \in Runs, run[r] = [f \in RunFields |-> run[r][f]], NEW stage
  PROVE  [run[r] EXCEPT !.stage = stage] = [run[r] EXCEPT !.stage = stage, !.impacts = run[r].impacts]
<1>1. [run[r] EXCEPT !.stage = stage] = [f \in RunFields |-> IF f = "stage" THEN stage ELSE run[r][f]]
  OBVIOUS
<1>2. [run[r] EXCEPT !.stage = stage, !.impacts = run[r].impacts]
        = [f \in RunFields |-> IF f = "stage" THEN stage ELSE run[r][f]]
  BY DEF RunFields
<1> QED BY <1>1, <1>2

LEMMA ReportsSound ==
  ASSUME StagesInv, ImpactsInv, NEW r \in Runs,
         PricedIn(r) \/ Propagate(r) \/ Signals(r) \/ CutOff(r)
  PROVE  ImpactsInv'
<1>1. CASE PricedIn(r)
  <2>1. run[r].stage = "pricedIn" /\ UNCHANGED returned
    BY <1>1 DEF PricedIn, Upon
  <2>2. run[r] = [f \in RunFields |-> run[r][f]] /\ Direct(run[r].impacts, run[r].meta.scored)
    BY <2>1, UnderWay DEF Sound
  <2>3. PICK move : Goes(r, [run[r] EXCEPT !.stage = "propagate",
                !.impacts = [i \in DOMAIN @ |-> Downgraded(@[i], move[i])]])
    BY <1>1 DEF PricedIn
  <2> DEFINE impacts == [i \in DOMAIN run[r].impacts |-> Downgraded(run[r].impacts[i], move[i])]
  <2>4. Direct(impacts, run[r].meta.scored)
    BY <2>2, DowngradedIs
  <2>5. Goes(r, [run[r] EXCEPT !.stage = "propagate", !.impacts = impacts])
    BY <2>3
  <2> HIDE DEF impacts
  <2> QED BY <2>1, <2>4, <2>5, LateSound
<1>2. CASE Propagate(r)
  <2>1. run[r].stage = "propagate" /\ UNCHANGED returned
    BY <1>2 DEF Propagate, Upon
  <2>2. Direct(run[r].impacts, run[r].meta.scored)
    BY <2>1, UnderWay DEF Sound
  <2>3. PICK failing : Goes(r, [run[r] EXCEPT !.stage = "signals",
                                 !.impacts = Spread(@, run[r].scope, failing)])
    BY <1>2 DEF Propagate
  <2> DEFINE impacts == Spread(run[r].impacts, run[r].scope, failing)
  <2>4. Traced(impacts, run[r].meta.scored, run[r].scope)
    BY <2>2, SpreadIs
  <2>5. Goes(r, [run[r] EXCEPT !.stage = "signals", !.impacts = impacts])
    BY <2>3
  <2> HIDE DEF impacts
  <2> QED BY <2>1, <2>4, <2>5, LateSound
<1>3. CASE Signals(r)
  <2>1. run[r].stage = "signals" /\ UNCHANGED returned
    BY <1>3 DEF Signals, Upon
  <2>2. /\ run[r] = [f \in RunFields |-> run[r][f]]
        /\ Traced(run[r].impacts, run[r].meta.scored, run[r].scope)
    BY <2>1, UnderWay DEF Sound
  <2>3. Goes(r, [run[r] EXCEPT !.stage = "finalize"])
    BY <1>3 DEF Signals
  <2>4. Goes(r, [run[r] EXCEPT !.stage = "finalize", !.impacts = run[r].impacts])
    BY <2>2, <2>3, StageOnly
  <2> QED BY <2>1, <2>2, <2>4, LateSound
<1>4. CASE CutOff(r)
  <2>1. run[r].stage \notin {"waiting", "over"} /\ UNCHANGED returned
    BY <1>4 DEF CutOff, InFlight
  <2>2. run[r] = [f \in RunFields |-> run[r][f]]
    BY <2>1, UnderWay
  <2>3. Goes(r, [run[r] EXCEPT !.stage = "over"])
    BY <1>4 DEF CutOff
  <2>4. Goes(r, [run[r] EXCEPT !.stage = "over", !.impacts = run[r].impacts])
    BY <2>2, <2>3, StageOnly
  <2> QED BY <2>1, <2>4, LateSound
<1> QED BY <1>1, <1>2, <1>3, <1>4

LEMMA FinalizeSound ==
  ASSUME StagesInv, ImpactsInv, NEW r \in Runs, Finalize(r)
  PROVE  ImpactsInv'
<1>1. run[r].stage = "finalize"
  BY DEF Finalize, Upon
<1>2. /\ run[r] = [f \in RunFields |-> run[r][f]]
      /\ Traced(run[r].impacts, run[r].meta.scored, run[r].scope)
  BY <1>1, UnderWay DEF Sound
<1> DEFINE next == [run[r] EXCEPT !.stage = "over"]
           made == [relevant |-> TRUE, impacts |-> run[r].impacts, scope |-> run[r].scope, meta |-> registry]
<1>3. returned' = [returned EXCEPT ![r] = <<made>>] /\ Goes(r, next)
  BY DEF Finalize
<1>4. made.impacts = run[r].impacts /\ made.scope = run[r].scope
  OBVIOUS
<1>5. next = [f \in RunFields |-> IF f = "stage" THEN "over" ELSE run[r][f]]
  BY <1>2
<1>6. next.stage = "over" /\ next.meta = run[r].meta
  BY <1>5 DEF RunFields
<1> HIDE DEF next, made
<1>7. returned'[r] = <<made>> /\ returned' = [returned EXCEPT ![r] = returned'[r]]
  BY <1>3 DEF StagesInv
<1>8. returned'[r][1] = made
  BY <1>7
<1>9. Sound(next, returned'[r])
  BY <1>2, <1>4, <1>6, <1>8 DEF Sound, Early
<1> QED BY <1>3, <1>7, <1>9, SoundStep

\* The impacts of every run are what its stage says.
THEOREM ImpactsInvariant == StagesSpec => []ImpactsInv
<1>1. StagesInit => ImpactsInv
  BY StageConstants DEF StagesInit, ImpactsInv
<1>2. ASSUME StagesInv, ImpactsInv, [StagesNext]_stageVars PROVE ImpactsInv'
  <2>1. CASE StagesNext
    <3>1. PICK r \in Runs :
            \/ Delivered(r) \/ Relevance(r) \/ Extract(r) \/ Route(r) \/ Score(r) \/ PricedIn(r)
            \/ Propagate(r) \/ Signals(r) \/ Finalize(r) \/ CutOff(r)
      BY <2>1 DEF StagesNext
    <3> QED BY <1>2, <3>1, DeliveredSound, RelevanceSound, ExtractSound, RouteSound, ScoreSound,
               ReportsSound, FinalizeSound
  <2>2. CASE UNCHANGED stageVars
    BY <1>2, <2>2 DEF stageVars, ImpactsInv
  <2> QED BY <1>2, <2>1, <2>2
<1> QED BY <1>1, <1>2, StagesInvariant, PTL DEF StagesSpec

\* Every report of a run can be accounted for: one impact for each company, the
\* direct ones of companies that stage 3 was to score, the others with the impact
\* and the edge they come from; and it tells whether its scoring failed
\* (stage3_impact.py:157, stage4_propagation.py:175, pipeline.py:315).
THEOREM ReportAccountableHolds == StagesSpec => []ReportAccountable
<1>1. StagesInv /\ ImpactsInv => ImpactsSourced
  <2> SUFFICES ASSUME StagesInv, ImpactsInv, NEW r \in Runs,
                      returned[r] # <<>>, returned[r][1].relevant
               PROVE  Traced(returned[r][1].impacts, run[r].meta.scored, returned[r][1].scope)
    BY DEF ImpactsSourced, Traced, OneEach
  <2>1. run[r].stage = "over"
    BY DEF StagesInv, Tells
  <2> QED BY <2>1 DEF ImpactsInv, Sound
<1> QED BY <1>1, StagesInvariant, ImpactsInvariant, ScoringToldHolds, PTL DEF ReportAccountable

-----------------------------------------------------------------------------
(* Strategies.                                                             *)

IntentFields == {"impact", "strategy", "reason", "future", "score", "against", "at", "blind",
                 "vetoed"}

\* A live pead_long beat a percentile of the last hour.
Beat(one, times) ==
  one.reason = "" /\ one.strategy = "pead_long" /\ ~one.blind =>
    \E t \in 1..one.at : /\ one.at - t < CacheTicks
                         /\ times[t] # NoScore /\ times[t] <= one.score

\* What is sound of an intent whatever the others are.
Lawful(one, recent, times) ==
  /\ one = [x \in IntentFields |-> one[x]]
  /\ one.at \in 1..Len(times) /\ one.blind \in BOOLEAN /\ one.vetoed \in BOOLEAN
  /\ one.reason = "" => recent /\ (one.vetoed => CommentaryMode = "shadow")
  /\ one.reason = "commentary_veto" => CommentaryMode = "enforce"
  /\ Beat(one, times)

Times == Seq(Scores \cup {NoScore})

CacheTrue(cache, times) ==
  /\ cache = [value |-> cache.value, at |-> cache.at]
  /\ cache.value \in Scores \cup {NoScore} /\ cache.at \in 0..Len(times)
  /\ cache.value # NoScore => cache.at \in 1..Len(times) /\ times[cache.at] = cache.value

PairOf(one) == <<one.impact, one.strategy>>
Speaks(r, pair) == Triggered(r.type, r.impacts[pair[1]], pair[2])

\* Each pair that is through left its intent, if it is triggered, and the others
\* none.
Accounts ==
  /\ pairs \subseteq ToEvaluate(report)
  /\ \A k \in DOMAIN intents : /\ PairOf(intents[k]) \in ToEvaluate(report) \ pairs
                               /\ Speaks(report, PairOf(intents[k]))
  /\ \A k, l \in DOMAIN intents : PairOf(intents[k]) = PairOf(intents[l]) => k = l
  /\ handled # "raised" => \A p \in ToEvaluate(report) \ pairs :
       Speaks(report, p) => \E k \in DOMAIN intents : PairOf(intents[k]) = p

RulesTyped ==
  /\ percentile \in Times /\ Len(percentile) >= 1 /\ CacheTrue(threshold, percentile)
  /\ intents \in Seq(Range(intents))
  /\ handled \in {"busy", "done", "raised"} /\ artifact \in BOOLEAN
  /\ handled # "busy" => pairs = {}
  /\ \A k \in DOMAIN intents : Lawful(intents[k], report.fresh, percentile)

RulesInv == RulesTyped /\ Accounts

-----------------------------------------------------------------------------
(* Steps that leave no intent.                                             *)

LEMMA RuleConstants ==
  /\ CacheTicks \in Nat \ {0} /\ Scores \subseteq Nat
  /\ CommentaryMode \in {"off", "shadow", "enforce"}
BY StrategiesAssumption

LEMMA NotBelow == ASSUME NEW a \in Nat, NEW b \in Nat, ~(a < b) PROVE b <= a
OBVIOUS

LEMMA PairShape ==
  ASSUME NEW r, NEW p \in ToEvaluate(r)
  PROVE  p = <<p[1], p[2]>>
BY DEF ToEvaluate

LEMMA Appended ==
  ASSUME NEW s, s \in Seq(Range(s)), NEW e
  PROVE  LET t == Append(s, e)
         IN  /\ t \in Seq(Range(t)) /\ DOMAIN s = 1..Len(s) /\ DOMAIN t = 1..(Len(s) + 1)
             /\ Len(s) \in Nat /\ t[Len(s) + 1] = e /\ \A i \in 1..Len(s) : t[i] = s[i]
<1> DEFINE t == Append(s, e)
           n == Len(s)
<1>1. s \in Seq(Range(s) \cup {e}) /\ n \in Nat /\ DOMAIN s = 1..n
  OBVIOUS
<1>2. /\ t \in Seq(Range(s) \cup {e}) /\ Len(t) = n + 1 /\ DOMAIN t = 1..(n + 1)
      /\ t[n + 1] = e /\ \A i \in 1..n : t[i] = s[i]
  BY <1>1
<1> HIDE DEF t, n
<1>3. t = [i \in 1..(n + 1) |-> t[i]]
  BY <1>1, <1>2
<1>4. \A i \in 1..(n + 1) : t[i] \in Range(t)
  BY <1>2 DEF Range
<1>5. t \in Seq(Range(t))
  BY <1>1, <1>3, <1>4
<1> QED BY <1>1, <1>2, <1>5 DEF t, n

\* The times go on.
LEMMA LawfulLater ==
  ASSUME NEW one, NEW recent, NEW times \in Times, NEW p \in Scores \cup {NoScore},
         Lawful(one, recent, times)
  PROVE  Lawful(one, recent, Append(times, p))
<1>1. /\ Len(times) \in Nat /\ Len(Append(times, p)) = Len(times) + 1
      /\ \A t \in 1..Len(times) : Append(times, p)[t] = times[t]
  BY DEF Times
<1>0. one.at \in 1..Len(times)
  BY DEF Lawful
<1>2. \A t \in 1..one.at : t \in 1..Len(times)
  BY <1>0, <1>1
<1>3. Beat(one, Append(times, p))
  BY <1>1, <1>2 DEF Lawful, Beat
<1>4. one.at \in 1..Len(Append(times, p))
  BY <1>0, <1>1
<1> QED BY <1>3, <1>4 DEF Lawful

LEMMA TimePassesKept ==
  ASSUME RulesInv, TimePasses
  PROVE  RulesInv'
<1>1. PICK p \in Scores \cup {NoScore} : percentile' = Append(percentile, p)
  BY DEF TimePasses
<1>2. UNCHANGED <<report, pairs, intents, handled, artifact, threshold>>
  BY DEF TimePasses
<1>3. percentile \in Times /\ Len(percentile) >= 1 /\ CacheTrue(threshold, percentile)
  BY DEF RulesInv, RulesTyped
<1>4. /\ percentile' \in Times /\ Len(percentile) \in Nat /\ Len(percentile') = Len(percentile) + 1
      /\ \A t \in 1..Len(percentile) : percentile'[t] = percentile[t]
  BY <1>1, <1>3 DEF Times
<1>5. CacheTrue(threshold, percentile')
  BY <1>3, <1>4 DEF CacheTrue
<1>6. \A k \in DOMAIN intents : Lawful(intents[k], report.fresh, percentile')
  BY <1>1, <1>3, LawfulLater DEF RulesInv, RulesTyped
<1>7. RulesTyped'
  BY <1>2, <1>3, <1>4, <1>5, <1>6 DEF RulesInv, RulesTyped
<1>8. Accounts'
  BY <1>2 DEF RulesInv, Accounts
<1> QED BY <1>7, <1>8 DEF RulesInv

LEMMA ReadReportKept ==
  ASSUME RulesInv, ReadReport
  PROVE  RulesInv'
<1>1. pairs' = ToEvaluate(report') /\ intents' = <<>> /\ handled' = "busy"
  BY DEF ReadReport
<1>2. UNCHANGED <<artifact, threshold, percentile>>
  BY DEF ReadReport
<1>3. DOMAIN intents' = {} /\ intents' \in Seq(Range(intents'))
  BY <1>1
<1>4. RulesTyped'
  BY <1>1, <1>2, <1>3 DEF RulesInv, RulesTyped
<1>5. Accounts'
  BY <1>1, <1>3 DEF Accounts
<1> QED BY <1>4, <1>5 DEF RulesInv

LEMMA RaisesKept ==
  ASSUME RulesInv, Raises
  PROVE  RulesInv'
<1>1. /\ pairs' = {} /\ intents' = <<>> /\ handled' = "raised"
      /\ UNCHANGED <<report, artifact, threshold, percentile>>
  BY DEF Raises
<1>2. DOMAIN intents' = {} /\ intents' \in Seq(Range(intents'))
  BY <1>1
<1>3. RulesTyped'
  BY <1>1, <1>2 DEF RulesInv, RulesTyped
<1>4. Accounts'
  BY <1>1, <1>2 DEF Accounts
<1> QED BY <1>3, <1>4 DEF RulesInv

-----------------------------------------------------------------------------
(* Steps that leave one.                                                   *)

\* A pair is through, with an intent of its own or, when nothing is triggered,
\* without.
LEMMA AccountsWith ==
  ASSUME RulesInv, handled = "busy", NEW pair \in pairs, pairs' = pairs \ {pair},
         UNCHANGED <<report, handled>>,
         \/ intents' = intents /\ ~Speaks(report, pair)
         \/ \E one : intents' = Append(intents, one) /\ PairOf(one) = pair /\ Speaks(report, pair)
  PROVE  Accounts'
<1>1. pair \in ToEvaluate(report) /\ intents \in Seq(Range(intents)) /\ Accounts
  BY DEF RulesInv, Accounts, RulesTyped
<1>3. CASE intents' = intents /\ ~Speaks(report, pair)
  BY <1>1, <1>3 DEF Accounts
<1>4. ASSUME NEW one, intents' = Append(intents, one), PairOf(one) = pair, Speaks(report, pair)
      PROVE  Accounts'
  <2> DEFINE n == Len(intents)
  <2>1. /\ DOMAIN intents = 1..n /\ DOMAIN intents' = 1..(n + 1) /\ n \in Nat
        /\ intents'[n + 1] = one /\ \A i \in 1..n : intents'[i] = intents[i]
    BY <1>1, <1>4, Appended
  <2> HIDE DEF n
  <2>2. \A k \in 1..(n + 1) : k \in 1..n \/ k = n + 1
    BY <2>1
  <2>3. pairs' \subseteq ToEvaluate(report')
    BY <1>1 DEF Accounts
  <2>4. ASSUME NEW k \in DOMAIN intents'
        PROVE  PairOf(intents'[k]) \in ToEvaluate(report) \ pairs' /\ Speaks(report, PairOf(intents'[k]))
    <3>1. CASE k \in 1..n
      BY <1>1, <2>1, <3>1 DEF Accounts
    <3>2. CASE k = n + 1
      BY <1>1, <1>4, <2>1, <3>2
    <3> QED BY <2>1, <2>2, <3>1, <3>2
  <2>5. ASSUME NEW k \in DOMAIN intents', NEW l \in DOMAIN intents',
               PairOf(intents'[k]) = PairOf(intents'[l])
        PROVE  k = l
    <3>1. \A i \in 1..n : PairOf(intents'[i]) # pair
      BY <1>1, <2>1 DEF Accounts
    <3>2. PairOf(intents'[n + 1]) = pair
      BY <1>4, <2>1
    <3>3. CASE k \in 1..n /\ l \in 1..n
      BY <1>1, <2>1, <2>5, <3>3 DEF Accounts
    <3> QED BY <2>1, <2>2, <2>5, <3>1, <3>2, <3>3
  <2>6. ASSUME NEW p \in ToEvaluate(report) \ pairs', Speaks(report, p)
        PROVE  \E k \in DOMAIN intents' : PairOf(intents'[k]) = p
    <3>1. CASE p = pair
      BY <1>4, <2>1, <3>1
    <3>2. CASE p # pair
      <4>1. PICK k \in DOMAIN intents : PairOf(intents[k]) = p
        BY <1>1, <2>6, <3>2 DEF Accounts
      <4> QED BY <2>1, <4>1
    <3> QED BY <3>1, <3>2
  <2>7. \A k \in DOMAIN intents' : /\ PairOf(intents'[k]) \in ToEvaluate(report') \ pairs'
                                   /\ Speaks(report', PairOf(intents'[k]))
    BY <2>4
  <2>8. \A p \in ToEvaluate(report') \ pairs' :
          Speaks(report', p) => \E k \in DOMAIN intents' : PairOf(intents'[k]) = p
    BY <2>6
  <2> QED BY <2>3, <2>5, <2>7, <2>8 DEF Accounts
<1> QED BY <1>3, <1>4

LEMMA TypedWith ==
  ASSUME RulesInv, handled = "busy", UNCHANGED <<report, handled, artifact, percentile>>,
         CacheTrue(threshold', percentile),
         \/ intents' = intents
         \/ \E one : intents' = Append(intents, one) /\ Lawful(one, report.fresh, percentile)
  PROVE  RulesTyped'
<1>1. RulesTyped /\ intents \in Seq(Range(intents))
  BY DEF RulesInv, RulesTyped
<1>2. CASE intents' = intents
  BY <1>1, <1>2 DEF RulesTyped
<1>3. ASSUME NEW one, intents' = Append(intents, one), Lawful(one, report.fresh, percentile)
      PROVE  RulesTyped'
  <2> DEFINE n == Len(intents)
  <2>1. /\ DOMAIN intents = 1..n /\ DOMAIN intents' = 1..(n + 1) /\ n \in Nat
        /\ intents'[n + 1] = one /\ \A i \in 1..n : intents'[i] = intents[i]
        /\ intents' \in Seq(Range(intents'))
    BY <1>1, <1>3, Appended
  <2> HIDE DEF n
  <2>2. \A k \in 1..(n + 1) : k \in 1..n \/ k = n + 1
    BY <2>1
  <2>3. \A k \in DOMAIN intents' : Lawful(intents'[k], report.fresh, percentile)
    BY <1>1, <1>3, <2>1, <2>2 DEF RulesTyped
  <2> QED BY <1>1, <2>1, <2>3 DEF RulesTyped
<1> QED BY <1>2, <1>3

LEMMA NowIs ==
  ASSUME RulesInv
  PROVE  /\ RuleTime = Len(percentile) /\ Len(percentile) \in Nat /\ RuleTime \in 1..Len(percentile)
         /\ Last(percentile) = percentile[RuleTime] /\ Last(percentile) \in Scores \cup {NoScore}
         /\ CacheTrue(threshold, percentile)
<1>1. percentile \in Times /\ Len(percentile) >= 1 /\ CacheTrue(threshold, percentile)
  BY DEF RulesInv, RulesTyped
<1>2. Len(percentile) \in Nat /\ percentile[Len(percentile)] \in Scores \cup {NoScore}
  BY <1>1 DEF Times
<1> QED BY <1>1, <1>2 DEF RuleTime, Last

LEMMA IntentLawful ==
  ASSUME RulesInv, NEW pair, NEW reason, reason # "commentary_veto",
         reason = "" => report.fresh /\ pair[2] # "pead_long"
  PROVE  Lawful(Intent(pair, reason), report.fresh, percentile) /\ PairOf(Intent(pair, reason)) = <<pair[1], pair[2]>>
<1> DEFINE one == Intent(pair, reason)
<1>1. /\ one = [x \in IntentFields |-> one[x]] /\ one.reason = reason /\ one.strategy = pair[2]
      /\ one.impact = pair[1] /\ one.at = RuleTime /\ one.blind = FALSE /\ one.vetoed = FALSE
  BY DEF Intent, IntentFields
<1> HIDE DEF one
<1>2. Lawful(one, report.fresh, percentile)
  BY <1>1, NowIs DEF Lawful, Beat
<1> QED BY <1>1, <1>2 DEF one, PairOf

\* The cache after a lookup is true, and so is what is compared with, unless the
\* query failed.
LEMMA LookedOK ==
  ASSUME RulesInv, NEW fails \in BOOLEAN
  PROVE  LET seen == Looked(fails)
         IN  /\ CacheTrue(seen.cache, percentile) /\ seen.use \in Scores \cup {NoScore}
             /\ seen.use # NoScore /\ (fails => CacheFresh) =>
                  \E t \in 1..RuleTime : RuleTime - t < CacheTicks /\ percentile[t] = seen.use
<1>1. CASE CacheFresh
  <2>1. Looked(fails) = [use |-> threshold.value, cache |-> threshold]
    BY <1>1 DEF Looked
  <2>2. threshold.value # NoScore /\ RuleTime - threshold.at < CacheTicks
    BY <1>1 DEF CacheFresh
  <2> QED BY <2>1, <2>2, NowIs DEF CacheTrue
<1>2. CASE ~CacheFresh /\ fails
  <2>1. Looked(fails) = [use |-> threshold.value, cache |-> threshold]
    BY <1>2 DEF Looked
  <2>2. CacheTrue(threshold, percentile) /\ threshold.value \in Scores \cup {NoScore}
    BY NowIs DEF CacheTrue
  <2>3. ~(fails => CacheFresh)
    BY <1>2
  <2> QED BY <2>1, <2>2, <2>3
<1>3. CASE ~CacheFresh /\ ~fails
  <2> DEFINE cache == IF Last(percentile) = NoScore THEN threshold
                      ELSE [value |-> Last(percentile), at |-> RuleTime]
  <2>1. Looked(fails) = [use |-> Last(percentile), cache |-> cache]
    BY <1>3 DEF Looked
  <2>2. CacheTrue(cache, percentile)
    BY NowIs DEF CacheTrue
  <2> HIDE DEF cache
  <2>3. RuleTime - RuleTime < CacheTicks
    BY NowIs, RuleConstants
  <2> QED BY <2>1, <2>2, <2>3, NowIs
<1> QED BY <1>1, <1>2, <1>3

LEMMA KeepKept ==
  ASSUME RulesInv, handled = "busy", NEW pair \in pairs, pairs' = pairs \ {pair}, Speaks(report, pair),
         UNCHANGED <<report, handled, artifact, percentile>>,
         NEW reason, reason # "commentary_veto",
         reason = "" => report.fresh /\ pair[2] # "pead_long",
         Keep(pair, reason)
  PROVE  RulesInv'
<1> DEFINE one == Intent(pair, reason)
<1>1. Lawful(one, report.fresh, percentile) /\ PairOf(one) = <<pair[1], pair[2]>>
  BY IntentLawful
<1>2. pair = <<pair[1], pair[2]>>
  BY PairShape DEF RulesInv, Accounts
<1>3. intents' = Append(intents, one) /\ threshold' = threshold
  BY DEF Keep
<1> HIDE DEF one
<1>4. CacheTrue(threshold', percentile)
  BY <1>3, NowIs
<1>5. RulesTyped'
  BY <1>1, <1>3, <1>4, TypedWith
<1>6. Accounts'
  BY <1>1, <1>2, <1>3, AccountsWith
<1> QED BY <1>5, <1>6 DEF RulesInv

LEMMA SurpriseKept ==
  ASSUME RulesInv, handled = "busy", NEW pair \in pairs, pairs' = pairs \ {pair}, Speaks(report, pair),
         UNCHANGED <<report, handled, artifact, percentile>>, report.fresh, Surprise(pair)
  PROVE  RulesInv'
<1>1. PICK score \in Scores \cup {NoScore}, fails \in BOOLEAN :
        LET seen == Looked(fails)
            reason == CASE score = NoScore -> "no_sue_row"
                        [] score # NoScore /\ seen.use = NoScore -> "sue_thr_missing"
                        [] score # NoScore /\ seen.use # NoScore /\ score < seen.use -> "sue_below_thr"
                        [] OTHER -> ""
        IN  /\ fails => ~CacheFresh /\ ruleFaults < MaxRuleFaults
            /\ ruleFaults' = IF fails THEN ruleFaults + 1 ELSE ruleFaults
            /\ threshold' = seen.cache
            /\ intents' = Append(intents, [Intent(pair, reason) EXCEPT
                            !.score = score, !.against = seen.use, !.blind = fails])
  BY DEF Surprise
<1> DEFINE seen == Looked(fails)
           reason == CASE score = NoScore -> "no_sue_row"
                       [] score # NoScore /\ seen.use = NoScore -> "sue_thr_missing"
                       [] score # NoScore /\ seen.use # NoScore /\ score < seen.use -> "sue_below_thr"
                       [] OTHER -> ""
           plain == Intent(pair, reason)
           one == [plain EXCEPT !.score = score, !.against = seen.use, !.blind = fails]
<1>2. threshold' = seen.cache /\ intents' = Append(intents, one)
  BY <1>1
<1>3. /\ reason # "commentary_veto"
      /\ reason = "" => score # NoScore /\ seen.use # NoScore /\ ~(score < seen.use)
  OBVIOUS
<1> HIDE DEF reason, seen
<1>4. /\ plain = [x \in IntentFields |-> plain[x]] /\ plain.reason = reason
      /\ plain.strategy = pair[2] /\ plain.impact = pair[1] /\ plain.at = RuleTime
      /\ plain.vetoed = FALSE
  BY DEF Intent, IntentFields
<1> HIDE DEF plain
<1>5. /\ one = [x \in IntentFields |-> one[x]] /\ one.reason = reason
      /\ one.strategy = pair[2] /\ one.impact = pair[1] /\ one.at = RuleTime
      /\ one.vetoed = FALSE /\ one.score = score /\ one.blind = fails
  BY <1>4 DEF IntentFields
<1> HIDE DEF one
<1>6. /\ CacheTrue(seen.cache, percentile) /\ seen.use \in Scores \cup {NoScore}
      /\ seen.use # NoScore /\ ~fails =>
           \E t \in 1..RuleTime : RuleTime - t < CacheTicks /\ percentile[t] = seen.use
  BY LookedOK DEF seen
<1>7. Beat(one, percentile)
  <2> SUFFICES ASSUME reason = "", ~fails
               PROVE  \E t \in 1..RuleTime : /\ RuleTime - t < CacheTicks
                                             /\ percentile[t] # NoScore /\ percentile[t] <= score
    BY <1>5 DEF Beat
  <2>1. seen.use \in Nat /\ score \in Nat /\ seen.use <= score
    <3>1. score # NoScore /\ seen.use # NoScore /\ ~(score < seen.use)
      BY <1>3
    <3>2. score \in Scores /\ seen.use \in Scores
      BY <1>1, <1>6, <3>1
    <3>3. score \in Nat /\ seen.use \in Nat
      BY <3>2, RuleConstants
    <3> QED BY <3>1, <3>3, NotBelow
  <2> QED BY <1>3, <1>6, <2>1
<1>8. Lawful(one, report.fresh, percentile)
  BY <1>3, <1>5, <1>7, NowIs DEF Lawful
<1>9. pair = <<pair[1], pair[2]>> /\ PairOf(one) = <<pair[1], pair[2]>>
  BY <1>5, PairShape DEF RulesInv, Accounts, PairOf
<1>10. RulesTyped'
  BY <1>2, <1>6, <1>8, TypedWith
<1>11. Accounts'
  BY <1>2, <1>9, AccountsWith
<1> QED BY <1>10, <1>11 DEF RulesInv

LEMMA JudgeKept ==
  ASSUME RulesInv, Judge
  PROVE  RulesInv'
<1>1. PICK pair \in pairs : pairs' = pairs \ {pair} /\ Verdict(pair)
  BY DEF Judge
<1>2. UNCHANGED <<report, handled, artifact, percentile>> /\ handled = "busy"
  BY <1>1 DEF Judge, RulesInv, RulesTyped
<1>3. CASE ~Speaks(report, pair) /\ UNCHANGED <<intents, threshold, ruleFaults>>
  <2>1. RulesTyped'
    BY <1>2, <1>3, NowIs, TypedWith
  <2>2. Accounts'
    BY <1>1, <1>2, <1>3, AccountsWith
  <2> QED BY <2>1, <2>2 DEF RulesInv
<1>4. ASSUME Speaks(report, pair), NEW reason, Keep(pair, reason), reason # "commentary_veto",
             reason = "" => report.fresh /\ pair[2] # "pead_long"
      PROVE  RulesInv'
  BY <1>1, <1>2, <1>4, KeepKept
<1>5. CASE Speaks(report, pair) /\ report.fresh /\ Surprise(pair)
  BY <1>1, <1>2, <1>5, SurpriseKept
<1>6. CASE Speaks(report, pair) /\ report.fresh /\ pair[2] # "pead_long" /\ Material(pair)
  BY <1>4, <1>6 DEF Material
<1>7. \/ ~Speaks(report, pair) /\ UNCHANGED <<intents, threshold, ruleFaults>>
      \/ Speaks(report, pair) /\ Keep(pair, "stale_event")
      \/ Speaks(report, pair) /\ Keep(pair, "duplicate_position")
      \/ Speaks(report, pair) /\ report.fresh /\ Surprise(pair)
      \/ Speaks(report, pair) /\ report.fresh /\ pair[2] # "pead_long" /\ Material(pair)
      \/ Speaks(report, pair) /\ report.fresh /\ pair[2] # "pead_long" /\ Keep(pair, "")
  BY <1>1 DEF Verdict, Speaks
<1> QED BY <1>3, <1>4, <1>5, <1>6, <1>7

LEMMA VetoedOK ==
  ASSUME NEW one, NEW recent, NEW times, NEW found, Lawful(one, recent, times),
         found # {} => CommentaryMode # "off"
  PROVE  Lawful(Vetoed(one, found), recent, times) /\ PairOf(Vetoed(one, found)) = PairOf(one)
<1> DEFINE hit == [one EXCEPT !.vetoed = TRUE,
                     !.reason = IF CommentaryMode = "enforce" THEN "commentary_veto" ELSE @]
<1>1. CASE Vetoed(one, found) = one
  BY <1>1
<1>2. CASE Vetoed(one, found) = hit /\ Directional(one) /\ found # {}
  <2>1. one = [x \in IntentFields |-> one[x]] /\ one.reason = ""
    BY <1>2 DEF Lawful, Directional
  <2>2. /\ hit = [x \in IntentFields |-> hit[x]]
        /\ hit.vetoed = TRUE /\ hit.at = one.at /\ hit.blind = one.blind /\ hit.score = one.score
        /\ hit.impact = one.impact /\ hit.strategy = one.strategy
        /\ hit.reason = IF CommentaryMode = "enforce" THEN "commentary_veto" ELSE ""
    BY <2>1 DEF IntentFields
  <2> HIDE DEF hit
  <2>3. CommentaryMode = "shadow" \/ CommentaryMode = "enforce"
    BY <1>2, RuleConstants
  <2>4. Beat(hit, times)
    BY <2>1, <2>2, <2>3 DEF Beat, Lawful
  <2>5. Lawful(hit, recent, times)
    BY <2>1, <2>2, <2>3, <2>4 DEF Lawful
  <2> QED BY <1>2, <2>2, <2>5 DEF PairOf
<1> QED BY <1>1, <1>2 DEF Vetoed

LEMMA ConcludeKept ==
  ASSUME RulesInv, Conclude
  PROVE  RulesInv'
<1>1. PICK found : /\ found # {} => CommentaryMode # "off"
                   /\ intents' = [i \in DOMAIN intents |-> Vetoed(intents[i], found)]
  BY DEF Conclude
<1>2. /\ handled' = "done" /\ handled = "busy" /\ pairs = {}
      /\ UNCHANGED <<report, pairs, artifact, threshold, percentile>>
  BY DEF Conclude
<1>3. DOMAIN intents' = DOMAIN intents
  BY <1>1
<1>4. \A k \in DOMAIN intents : /\ Lawful(intents'[k], report.fresh, percentile)
                                /\ PairOf(intents'[k]) = PairOf(intents[k])
  BY <1>1, VetoedOK DEF RulesInv, RulesTyped
<1>5. intents' \in Seq(Range(intents'))
  <2>1. Len(intents) \in Nat /\ DOMAIN intents = 1..Len(intents)
    BY DEF RulesInv, RulesTyped
  <2>2. \A k \in 1..Len(intents) : intents'[k] \in Range(intents')
    BY <1>3, <2>1 DEF Range
  <2>3. intents' = [k \in 1..Len(intents) |-> intents'[k]]
    BY <1>1, <2>1
  <2> QED BY <2>1, <2>2, <2>3
<1>6. RulesTyped'
  BY <1>2, <1>3, <1>4, <1>5 DEF RulesInv, RulesTyped
<1>7. Accounts'
  <2> QED BY <1>2, <1>3, <1>4 DEF RulesInv, Accounts
<1> QED BY <1>6, <1>7 DEF RulesInv

LEMMA StrategiesInitOK == ASSUME StrategiesInit PROVE RulesInv
<1> USE DEF StrategiesInit
<1>1. DOMAIN intents = {} /\ intents \in Seq(Range(intents))
  OBVIOUS
<1>2. percentile \in Times /\ Len(percentile) = 1
  BY DEF Times
<1>3. CacheTrue(threshold, percentile)
  BY <1>2 DEF CacheTrue
<1>4. RulesTyped
  BY <1>1, <1>2, <1>3 DEF RulesTyped
<1>5. ToEvaluate(report) = {}
  BY DEF ToEvaluate, NoReport
<1>6. Accounts
  BY <1>1, <1>5 DEF Accounts
<1> QED BY <1>4, <1>6 DEF RulesInv

\* What is through has left its intent and what is left has none, each intent by
\* itself is lawful, and the cached percentile was true at its time
\* (papertrade/rules.py, evaluate_report and _sue_threshold).
THEOREM StrategiesInvariant == StrategiesSpec => []RulesInv
<1>1. ASSUME RulesInv, [StrategiesNext]_strategyVars PROVE RulesInv'
  <2>1. CASE UNCHANGED strategyVars
    BY <1>1, <2>1 DEF strategyVars, RulesInv, RulesTyped, Accounts
  <2> QED BY <1>1, <2>1, TimePassesKept, ReadReportKept, RaisesKept, JudgeKept, ConcludeKept
      DEF StrategiesNext
<1> QED BY <1>1, StrategiesInitOK, PTL DEF StrategiesSpec

LEMMA AccountableFollows == ASSUME RulesInv PROVE IntentsAccountable
<1> SUFFICES ASSUME handled = "done" PROVE IntentsAccountable
  BY DEF IntentsAccountable
<1>1. pairs = {} /\ Accounts
  BY DEF RulesInv, RulesTyped
<1>2. ASSUME report.relevant, report.filing, NEW i \in DOMAIN report.impacts, NEW s \in Enabled
      PROVE  LET mine == {k \in DOMAIN intents : intents[k].impact = i /\ intents[k].strategy = s}
             IN  Cardinality(mine) =
                   IF report.impacts[i].hop = 0 /\ Triggered(report.type, report.impacts[i], s) THEN 1 ELSE 0
  <2> DEFINE mine == {k \in DOMAIN intents : intents[k].impact = i /\ intents[k].strategy = s}
  <2>1. mine = {k \in DOMAIN intents : PairOf(intents[k]) = <<i, s>>}
    BY DEF PairOf
  <2>2. <<i, s>> \in ToEvaluate(report) <=> report.impacts[i].hop = 0
    BY <1>2 DEF ToEvaluate
  <2>3. Speaks(report, <<i, s>>) <=> Triggered(report.type, report.impacts[i], s)
    BY DEF Speaks
  <2> HIDE DEF mine
  <2>4. CASE report.impacts[i].hop = 0 /\ Triggered(report.type, report.impacts[i], s)
    <3>1. PICK k \in DOMAIN intents : PairOf(intents[k]) = <<i, s>>
      BY <1>1, <2>2, <2>3, <2>4 DEF Accounts
    <3>2. mine = {k}
      BY <1>1, <2>1, <3>1 DEF Accounts
    <3>3. Cardinality(mine) = 1
      BY <3>2, FS_Singleton
    <3> QED BY <2>4, <3>3 DEF mine
  <2>5. CASE ~(report.impacts[i].hop = 0 /\ Triggered(report.type, report.impacts[i], s))
    <3>1. mine = {}
      BY <1>1, <2>1, <2>2, <2>3, <2>5 DEF Accounts
    <3>2. Cardinality(mine) = 0
      BY <3>1, FS_EmptySet
    <3> QED BY <2>5, <3>2 DEF mine
  <2> QED BY <2>4, <2>5
<1>3. \A k \in DOMAIN intents :
         LET one == intents[k]
         IN  /\ one.reason = "" => report.fresh /\ (one.vetoed => CommentaryMode = "shadow")
             /\ one.reason = "commentary_veto" => CommentaryMode = "enforce"
             /\ one.reason = "" /\ one.strategy = "pead_long" /\ ~one.blind =>
                  \E t \in 1..one.at :
                    /\ one.at - t < CacheTicks
                    /\ percentile[t] # NoScore /\ percentile[t] <= one.score
  BY DEF RulesInv, RulesTyped, Lawful, Beat
<1> QED BY <1>2, <1>3 DEF IntentsAccountable

\* Each strategy that a direct impact concerns leaves exactly one intent, and no
\* live one is stale, vetoed in enforce mode or measured against a percentile
\* older than the cache allows; for any reports, strategies, scores and life of
\* the cache (papertrade/rules.py:227, "EVERY gate outcome is an auditable row").
THEOREM IntentsAccountableHolds == StrategiesSpec => []IntentsAccountable
BY StrategiesInvariant, AccountableFollows, PTL

\* Every variable of the rules keeps its type (papertrade/rules.py).
THEOREM StrategiesTypeCorrect == StrategiesSpec => []StrategiesTypeOK
<1>1. ASSUME RulesInv PROVE StrategiesTypeOK
  <2>1. threshold.value \in Scores \cup {NoScore} /\ threshold.at \in 0..RuleTime
    BY <1>1, NowIs DEF CacheTrue
  <2>2. \A i \in DOMAIN intents : /\ intents[i].impact \in DOMAIN report.impacts
                                  /\ intents[i].strategy \in Enabled
    BY <1>1 DEF RulesInv, Accounts, PairOf, ToEvaluate
  <2> QED BY <1>1, <2>1, <2>2 DEF RulesInv, RulesTyped, Lawful, StrategiesTypeOK
<1> QED BY <1>1, StrategiesInvariant, PTL

-----------------------------------------------------------------------------
(* BseResults.                                                             *)

Places == {"idle", "index", "fetch", "gate", "upsert", "surprise", "commit"}
InDocument == {"gate", "upsert", "surprise", "commit"}

RowSet == {NoRow} \cup [doc : DOMAIN Index, span : {"quarter", "half"}, eps : Nat, announced : Int]
FoundSet == [eps : Nat, announced : Int, decile : 0..10, emitted : BOOLEAN]
SignalSet == [way : {"", "long", "short"}, announced : Int, at : Int]
JobSet == [at : Places, left : SUBSET (DOMAIN Index), bucket : DOMAIN Buckets, tries : Nat,
           new : RowSet, found : FoundSet, lost : BOOLEAN]

\* The documents that have figures of a quarter or a half-year.
Figures == {d \in DOMAIN Index : Index[d].span \in {"quarter", "half"}}

Hand(r) == Min(r.left)
Basis(r) == Index[Hand(r)].consolidated

\* What the transaction of a run would leave of the rows.
Left(r, table) ==
  [table EXCEPT ![Basis(r)] =
     IF @ = NoRow THEN r.new ELSE [r.new EXCEPT !.announced = table[Basis(r)].announced]]

\* What a run in this place is about.
JobSound(r, table, mixed, now) ==
  /\ r \in JobSet
  /\ r.at = "fetch" => r.left # {}
  /\ r.at \in InDocument => r.left # {} /\ Hand(r) \in Figures
  /\ r.at \in {"surprise", "commit"} =>
       r.new # NoRow /\ r.new.doc = Hand(r) /\ r.new.span = Index[Hand(r)].span
  /\ r.at # "commit" => r.found = NoSurprise /\ ~r.lost
  /\ ~mixed /\ r.at \in {"upsert", "surprise", "commit"} /\ Index[Hand(r)].span = "half" =>
       table[Basis(r)] = NoRow \/ table[Basis(r)].span = "half"
  /\ r.at = "commit" /\ ~r.lost /\ r.found # NoSurprise =>
       /\ r.found.eps # NoEps
       /\ ~mixed => r.found.eps = PreferredEps(Left(r, table))
       /\ r.found.emitted => /\ now - r.found.announced <= RecencyDays
                             /\ r.found.announced = Index[Hand(r)].day
                             /\ r.found.decile \in {1, 10}

\* The figures of a document, or finer ones, are stored.
Achieved(d, table, mixed) ==
  LET row == table[Index[d].consolidated]
  IN  row # NoRow /\ (mixed \/ row.span = "quarter" \/ Index[d].span = "half")

\* A run still has the document before it.
Pending(r, d, now) ==
  \/ r.at = "index" /\ Index[d].day <= now /\ now - Index[d].day < Buckets[r.bucket]
  \/ r.at \in {"fetch"} \cup InDocument /\ d \in r.left /\ (r.lost => d # Hand(r))

DaysBack(j) == IF j = "scan" THEN ScanDays ELSE SweepBack
Past(d, now) == {t \in Tries(d) : t < now}

Kept(d, through, jobs, table, mixed, now, faults) ==
  \/ Achieved(d, table, mixed)
  \/ /\ faults >= Cardinality(Past(d, now))
     /\ \A j \in through : now \in Within(d, DaysBack(j)) =>
          Pending(jobs[j], d, now) \/ faults >= Cardinality(Past(d, now)) + 1

KeptInv ==
  \A d \in Figures : Kept(d, ran, job, rows, mingled, day, resultFaults)

StoredInv ==
  /\ PreferredEps(rows) # NoEps /\ ~unscored /\ ~mingled => surprise.eps = PreferredEps(rows)
  /\ signal # NoSignal <=> surprise.emitted
  /\ signal # NoSignal =>
       /\ signal.at - signal.announced <= RecencyDays
       /\ \E c \in BOOLEAN : rows[c] # NoRow
       /\ \E i \in DOMAIN Index : Index[i].day = signal.announced
       /\ signal.way # ""

ResultsTyped ==
  /\ day \in 0..MaxDay /\ ran \subseteq Jobs /\ resultFaults \in Nat
  /\ mingled \in BOOLEAN /\ unscored \in BOOLEAN
  /\ job = [j \in Jobs |-> job[j]]
  /\ rows \in [BOOLEAN -> RowSet] /\ surprise \in FoundSet /\ signal \in SignalSet
  /\ \A c \in BOOLEAN : rows[c] # NoRow => Index[rows[c].doc].consolidated = c

JobsInv == \A j \in Jobs : JobSound(job[j], rows, mingled, day)

ResultsInv == ResultsTyped /\ JobsInv /\ StoredInv /\ KeptInv

-----------------------------------------------------------------------------
(* The constants.                                                          *)

LEMMA ResultConstants ==
  /\ \A d \in DOMAIN Index : /\ Index[d].day \in 0..MaxDay /\ Index[d].eps \in Nat
                             /\ Index[d].consolidated \in BOOLEAN /\ Index[d].dated \in BOOLEAN
  /\ Len(Index) \in Nat /\ DOMAIN Index = 1..Len(Index)
  /\ Len(Buckets) \in Nat /\ DOMAIN Buckets = 1..Len(Buckets) /\ Len(Buckets) # 0
  /\ \A b \in DOMAIN Buckets : Buckets[b] \in Nat
  /\ MaxDay \in Nat /\ RecencyDays \in Nat /\ Deciles \subseteq 0..10
  /\ SweepDays \subseteq 0..MaxDay
<1>1. Buckets # <<>> /\ Buckets \in Seq(Nat \ {0})
  BY BseAssumption
<1>2. Len(Buckets) \in Nat /\ DOMAIN Buckets = 1..Len(Buckets) /\ Len(Buckets) # 0
  BY <1>1
<1>3. \A b \in DOMAIN Buckets : Buckets[b] \in Nat
  BY <1>1
<1>4. Index \in Seq(Range(Index))
  BY BseAssumption
<1>5. Len(Index) \in Nat /\ DOMAIN Index = 1..Len(Index)
  BY <1>4
<1> QED BY <1>2, <1>3, <1>5, BseAssumption

LEMMA LeastOf ==
  ASSUME NEW S \in SUBSET Nat, S # {}
  PROVE  Min(S) \in S
<1>1. PICK n \in S : \A m \in S : n <= m
  BY LeastNumber
<1> QED BY <1>1 DEF Min

LEMMA HandIn ==
  ASSUME NEW S \in SUBSET (DOMAIN Index), S # {}
  PROVE  Min(S) \in S /\ Min(S) \in DOMAIN Index
<1>1. S \in SUBSET Nat
  BY ResultConstants
<1> QED BY <1>1, LeastOf

LEMMA BucketCovers ==
  ASSUME NEW days \in 2..Last(Buckets)
  PROVE  /\ Bucket(days) \in DOMAIN Buckets /\ Buckets[Bucket(days)] >= days
         /\ \A a \in DOMAIN Buckets : Buckets[a] >= days => Bucket(days) <= a
<1> DEFINE S == {b \in DOMAIN Buckets : Buckets[b] >= days}
<1>1. Len(Buckets) \in S
  BY ResultConstants DEF Last
<1>2. S \in SUBSET Nat /\ S # {}
  BY <1>1, ResultConstants
<1>3. PICK n \in S : \A m \in S : n <= m
  BY <1>2, LeastNumber
<1>4. n \in DOMAIN Buckets /\ Buckets[n] >= days
      /\ \A a \in DOMAIN Buckets : Buckets[a] >= days => n <= a
  BY <1>3
<1> QED BY <1>4 DEF Bucket

LEMMA BucketsOrdered ==
  /\ ScanDays \in 2..Last(Buckets) /\ SweepBack \in 2..Last(Buckets)
  /\ Buckets[Bucket(ScanDays)] <= Buckets[Bucket(SweepBack)]
<1>1. ScanDays \in 2..Last(Buckets) /\ SweepBack \in 2..Last(Buckets) /\ ScanDays <= SweepBack
  BY BseAssumption
<1>2. /\ Bucket(ScanDays) \in DOMAIN Buckets /\ Bucket(SweepBack) \in DOMAIN Buckets
      /\ Buckets[Bucket(SweepBack)] >= SweepBack
      /\ \A a \in DOMAIN Buckets : Buckets[a] >= ScanDays => Bucket(ScanDays) <= a
  BY <1>1, BucketCovers
<1>3. Buckets[Bucket(SweepBack)] >= ScanDays
  BY <1>1, <1>2, ResultConstants
<1>4. Bucket(ScanDays) <= Bucket(SweepBack)
  BY <1>2, <1>3
<1>5. \A i, k \in DOMAIN Buckets : i < k => Buckets[i] < Buckets[k]
  BY BseAssumption
<1>6. Bucket(ScanDays) = Bucket(SweepBack) \/ Bucket(ScanDays) < Bucket(SweepBack)
  BY <1>2, <1>4, ResultConstants
<1> QED BY <1>1, <1>2, <1>5, <1>6, ResultConstants

LEMMA TriesFinite ==
  ASSUME NEW d, NEW now \in Nat
  PROVE  IsFiniteSet(Past(d, now)) /\ IsFiniteSet(Tries(d))
         /\ Cardinality(Past(d, now)) \in Nat
<1>1. IsFiniteSet(0..MaxDay)
  BY ResultConstants, FS_Interval
<1>2. Tries(d) \subseteq 0..MaxDay /\ Past(d, now) \subseteq 0..MaxDay
  BY DEF Tries, Within, Past
<1> QED BY <1>1, <1>2, FS_Subset, FS_CardinalityType

LEMMA PastGrows ==
  ASSUME NEW d, NEW now \in Nat
  PROVE  Cardinality(Past(d, now + 1)) <=
           Cardinality(Past(d, now)) + (IF now \in Tries(d) THEN 1 ELSE 0)
<1>1. Tries(d) \subseteq Nat
  BY ResultConstants DEF Tries, Within
<1>2. now + 1 \in Nat /\ IsFiniteSet(Past(d, now))
  BY TriesFinite
<1>3. CASE now \in Tries(d)
  <2>1. Past(d, now + 1) = Past(d, now) \cup {now} /\ now \notin Past(d, now)
    BY <1>1, <1>3 DEF Past
  <2>2. Cardinality(Past(d, now) \cup {now}) = Cardinality(Past(d, now)) + 1
    BY <1>2, <2>1, FS_AddElement
  <2>3. Cardinality(Past(d, now + 1)) = Cardinality(Past(d, now)) + 1
    BY <2>1, <2>2
  <2>4. Cardinality(Past(d, now)) \in Nat
    BY TriesFinite
  <2> QED BY <1>3, <2>3, <2>4
<1>4. CASE now \notin Tries(d)
  <2>1. Past(d, now + 1) = Past(d, now)
    BY <1>1, <1>4 DEF Past
  <2>2. Cardinality(Past(d, now)) \in Nat
    BY TriesFinite
  <2>3. Cardinality(Past(d, now + 1)) = Cardinality(Past(d, now))
    BY <2>1
  <2> QED BY <1>4, <2>2, <2>3
<1> QED BY <1>3, <1>4

-----------------------------------------------------------------------------
(* Steps of one run.                                                       *)

LEMMA NothingIn ==
  /\ NoSurprise \in FoundSet /\ NoRow \in RowSet /\ NoSignal \in SignalSet
  /\ 1 \in DOMAIN Buckets
  /\ Idle \in JobSet /\ Idle.at = "idle" /\ Idle.left = {}
<1>1. NoSurprise \in FoundSet /\ NoRow \in RowSet /\ NoSignal \in SignalSet
  BY DEF NoSurprise, NoEps, FoundSet, RowSet, NoSignal, SignalSet
<1>2. 1 \in DOMAIN Buckets
  BY ResultConstants
<1> QED BY <1>1, <1>2 DEF Idle, JobSet, Places

LEMMA IdleSound ==
  ASSUME NEW table, NEW mixed, NEW now
  PROVE  JobSound(Idle, table, mixed, now)
BY NothingIn DEF JobSound, Idle, InDocument

\* The run goes on with what is left, if anything.
GoesOn(docs) == IF docs = {} THEN Idle ELSE [Idle EXCEPT !.at = "fetch", !.left = docs]

LEMMA GoesOnSound ==
  ASSUME NEW docs \in SUBSET (DOMAIN Index), NEW table, NEW mixed, NEW now
  PROVE  /\ JobSound(GoesOn(docs), table, mixed, now)
         /\ \A d \in docs : Pending(GoesOn(docs), d, now)
<1>1. CASE docs = {}
  BY <1>1, IdleSound DEF GoesOn
<1>2. CASE docs # {}
  <2> DEFINE r == [Idle EXCEPT !.at = "fetch", !.left = docs]
  <2>1. /\ r \in JobSet /\ r.at = "fetch" /\ r.left = docs /\ r.found = NoSurprise
        /\ r.lost = FALSE
    BY NothingIn DEF Idle, JobSet, Places
  <2> HIDE DEF r
  <2>2. JobSound(r, table, mixed, now)
    BY <1>2, <2>1 DEF JobSound, InDocument
  <2>3. \A d \in docs : Pending(r, d, now)
    BY <2>1 DEF Pending
  <2> QED BY <1>2, <2>2, <2>3 DEF r, GoesOn
<1> QED BY <1>1, <1>2

\* What stays true of the other run.
LEMMA OtherSound ==
  ASSUME NEW r, NEW table, NEW mixed \in BOOLEAN, NEW now, JobSound(r, table, mixed, now),
         NEW table2, NEW mixed2 \in BOOLEAN, mixed => mixed2,
         \/ table2 = table
         \/ mixed2
         \/ r.at \notin {"upsert", "surprise", "commit"}
  PROVE  JobSound(r, table2, mixed2, now)
<1>1. CASE table2 = table
  BY <1>1 DEF JobSound
<1>2. CASE mixed2
  BY <1>2 DEF JobSound
<1>3. CASE r.at \notin {"upsert", "surprise", "commit"}
  BY <1>3 DEF JobSound
<1> QED BY <1>1, <1>2, <1>3

LEMMA KeptMoves ==
  ASSUME ResultsTyped, KeptInv, NEW j \in Jobs, NEW r, job' = [job EXCEPT ![j] = r],
         UNCHANGED <<day, ran, resultFaults>>,
         \A d \in Figures : Achieved(d, rows, mingled) => Achieved(d, rows', mingled'),
         \A d \in Figures : Pending(job[j], d, day) => Pending(r, d, day) \/ Achieved(d, rows', mingled')
  PROVE  KeptInv'
<1> SUFFICES ASSUME NEW d \in Figures
             PROVE  Kept(d, ran', job', rows', mingled', day', resultFaults')
  BY DEF KeptInv
<1>1. Kept(d, ran, job, rows, mingled, day, resultFaults)
  BY DEF KeptInv
<1>2. CASE Achieved(d, rows', mingled')
  BY <1>2 DEF Kept
<1>3. CASE ~Achieved(d, rows', mingled')
  <2>1. ASSUME NEW i \in ran, day \in Within(d, DaysBack(i)), Pending(job[i], d, day)
        PROVE  Pending(job'[i], d, day)
    <3>1. i \in Jobs /\ (i # j => job'[i] = job[i]) /\ job'[j] = r
      BY DEF ResultsTyped
    <3> QED BY <2>1, <1>3, <3>1
  <2> QED BY <1>1, <1>3, <2>1 DEF Kept
<1> QED BY <1>2, <1>3

LEMMA KeptFaults ==
  ASSUME ResultsTyped, KeptInv, UNCHANGED <<day, ran, rows, mingled>>,
         resultFaults' = resultFaults + 1
  PROVE  KeptInv'
<1> SUFFICES ASSUME NEW d \in Figures
             PROVE  Kept(d, ran', job', rows', mingled', day', resultFaults')
  BY DEF KeptInv
<1>1. Kept(d, ran, job, rows, mingled, day, resultFaults)
  BY DEF KeptInv
<1>2. resultFaults \in Nat /\ day \in Nat
  BY ResultConstants DEF ResultsTyped
<1>3. Cardinality(Past(d, day)) \in Nat
  BY <1>2, TriesFinite
<1>4. resultFaults >= Cardinality(Past(d, day)) => resultFaults' >= Cardinality(Past(d, day)) + 1
  BY <1>2, <1>3
<1>5. resultFaults' >= Cardinality(Past(d, day)) + 1 => resultFaults' >= Cardinality(Past(d, day))
  BY <1>2, <1>3
<1> QED BY <1>1, <1>4, <1>5 DEF Kept

\* A step that stores nothing moves one run, by a fault or without.
RunMoves(j, r) ==
  /\ job' = [job EXCEPT ![j] = r] /\ UNCHANGED <<day, ran>> /\ UNCHANGED Stored
  /\ JobSound(r, rows, mingled, day)
  /\ \/ resultFaults' = resultFaults + 1
     \/ resultFaults' = resultFaults /\ \A d \in Figures :
          Pending(job[j], d, day) => Pending(r, d, day) \/ Achieved(d, rows, mingled)

LEMMA RunMovesKept ==
  ASSUME ResultsInv, NEW j \in Jobs, NEW r, RunMoves(j, r)
  PROVE  ResultsInv'
<1> USE DEF RunMoves, Stored
<1>1. ResultsTyped'
  BY DEF ResultsInv, ResultsTyped
<1>2. JobsInv'
  <2> SUFFICES ASSUME NEW i \in Jobs PROVE JobSound(job'[i], rows, mingled, day)
    BY DEF JobsInv
  <2>1. job'[i] = IF i = j THEN r ELSE job[i]
    BY DEF ResultsInv, ResultsTyped
  <2> QED BY <2>1 DEF ResultsInv, JobsInv
<1>3. StoredInv'
  BY DEF ResultsInv, StoredInv
<1>4. KeptInv'
  <2>1. CASE resultFaults' = resultFaults + 1
    BY <2>1, KeptFaults DEF ResultsInv
  <2>2. CASE /\ resultFaults' = resultFaults
             /\ \A d \in Figures :
                  Pending(job[j], d, day) => Pending(r, d, day) \/ Achieved(d, rows, mingled)
    <3>1. UNCHANGED <<day, ran, resultFaults, rows, mingled>> /\ job' = [job EXCEPT ![j] = r]
      BY <2>2
    <3>2. \A d \in Figures :
            Pending(job[j], d, day) => Pending(r, d, day) \/ Achieved(d, rows', mingled')
      BY <2>2, <3>1
    <3>3. ResultsTyped /\ KeptInv
      BY DEF ResultsInv
    <3> QED BY <3>1, <3>2, <3>3, KeptMoves
  <2> QED BY <2>1, <2>2
<1> QED BY <1>1, <1>2, <1>3, <1>4 DEF ResultsInv

LEMMA WithIs ==
  ASSUME NEW j, NEW docs, With(j, docs)
  PROVE  job' = [job EXCEPT ![j] = GoesOn(docs)]
BY DEF With, JobGoes, GoesOn

LEMMA RestSound ==
  ASSUME ResultsInv, NEW j \in Jobs, job[j].at \in {"fetch"} \cup InDocument
  PROVE  /\ job[j] \in JobSet /\ job[j].left \in SUBSET (DOMAIN Index) /\ job[j].left # {}
         /\ Hand(job[j]) \in job[j].left /\ Hand(job[j]) \in DOMAIN Index
         /\ InHand(j) = Hand(job[j])
         /\ JobSound(GoesOn(job[j].left \ {InHand(j)}), rows, mingled, day)
         /\ \A d \in Figures : Pending(job[j], d, day) /\ d # InHand(j) =>
              Pending(GoesOn(job[j].left \ {InHand(j)}), d, day)
<1>1. JobSound(job[j], rows, mingled, day)
  BY DEF ResultsInv, JobsInv
<1>2. job[j] \in JobSet /\ job[j].left # {}
  BY <1>1 DEF JobSound
<1>3. job[j].left \in SUBSET (DOMAIN Index)
  BY <1>2 DEF JobSet
<1>4. Hand(job[j]) \in job[j].left /\ Hand(job[j]) \in DOMAIN Index
  BY <1>2, <1>3, HandIn DEF Hand
<1>5. job[j].left \ {InHand(j)} \in SUBSET (DOMAIN Index)
  BY <1>3
<1>6. \A d \in Figures : Pending(job[j], d, day) => d \in job[j].left
  BY DEF Pending, InDocument
<1> QED BY <1>2, <1>3, <1>4, <1>5, <1>6, GoesOnSound DEF InHand, Hand

LEMMA ReadIndexKept ==
  ASSUME ResultsInv, NEW j \in Jobs, ReadIndex(j)
  PROVE  ResultsInv'
<1>1. JobSound(job[j], rows, mingled, day) /\ job[j] \in JobSet /\ job[j].at = "index"
  BY DEF ResultsInv, JobsInv, JobSound, ReadIndex
<1>2. UNCHANGED <<day, ran>> /\ UNCHANGED Stored
  BY DEF ReadIndex
<1>3. CASE With(j, Window(job[j].bucket)) /\ UNCHANGED resultFaults
  <2> DEFINE docs == Window(job[j].bucket)
  <2>1. docs \in SUBSET (DOMAIN Index)
    BY DEF Window
  <2>2. \A d \in Figures : Pending(job[j], d, day) => d \in docs
    BY <1>1 DEF Pending, InDocument, Window, Figures
  <2>3. JobSound(GoesOn(docs), rows, mingled, day) /\ job' = [job EXCEPT ![j] = GoesOn(docs)]
    BY <1>3, <2>1, GoesOnSound, WithIs
  <2>4. \A d \in Figures : Pending(job[j], d, day) => Pending(GoesOn(docs), d, day)
    BY <2>1, <2>2, GoesOnSound
  <2>5. RunMoves(j, GoesOn(docs))
    BY <1>2, <1>3, <2>3, <2>4 DEF RunMoves
  <2> QED BY <2>5, RunMovesKept
<1>4. ASSUME resultFaults' = resultFaults + 1, With(j, {}) PROVE ResultsInv'
  <2>1. JobSound(GoesOn({}), rows, mingled, day) /\ job' = [job EXCEPT ![j] = GoesOn({})]
    BY <1>4, GoesOnSound, WithIs
  <2>2. RunMoves(j, GoesOn({}))
    BY <1>2, <1>4, <2>1 DEF RunMoves
  <2> QED BY <2>2, RunMovesKept
<1>5. ASSUME resultFaults' = resultFaults + 1, NEW tries \in Nat, NEW bucket \in DOMAIN Buckets,
             job' = [job EXCEPT ![j] = [job[j] EXCEPT !.tries = tries, !.bucket = bucket]]
      PROVE  ResultsInv'
  <2> DEFINE r == [job[j] EXCEPT !.tries = tries, !.bucket = bucket]
  <2>1. /\ r \in JobSet /\ r.at = "index" /\ r.found = job[j].found /\ r.lost = job[j].lost
    BY <1>1 DEF JobSet
  <2> HIDE DEF r
  <2>2. JobSound(r, rows, mingled, day)
    BY <1>1, <2>1 DEF JobSound, InDocument
  <2>3. RunMoves(j, r)
    BY <1>2, <1>5, <2>2 DEF RunMoves, r
  <2> QED BY <2>3, RunMovesKept
<1>6. /\ job[j].tries \in Nat /\ job[j].bucket \in DOMAIN Buckets
      /\ job[j].tries + 1 \in Nat
      /\ job[j].bucket < Len(Buckets) => job[j].bucket + 1 \in DOMAIN Buckets
  <2>1. job[j].tries \in Nat /\ job[j].bucket \in DOMAIN Buckets
    BY <1>1 DEF JobSet
  <2> QED BY <2>1, ResultConstants
<1>7. ASSUME ResultFault, JobGoes(j, [job[j] EXCEPT !.tries = @ + 1]) PROVE ResultsInv'
  <2>1. job' = [job EXCEPT ![j] = [job[j] EXCEPT !.tries = job[j].tries + 1,
                                                 !.bucket = job[j].bucket]]
    BY <1>1, <1>7 DEF JobGoes, JobSet
  <2> QED BY <1>5, <1>6, <1>7, <2>1 DEF ResultFault
<1>8. ASSUME ResultFault, job[j].bucket < Len(Buckets),
             JobGoes(j, [job[j] EXCEPT !.tries = 0, !.bucket = @ + 1])
      PROVE  ResultsInv'
  <2>1. job' = [job EXCEPT ![j] = [job[j] EXCEPT !.tries = 0, !.bucket = job[j].bucket + 1]]
    BY <1>8 DEF JobGoes
  <2> QED BY <1>5, <1>6, <1>8, <2>1 DEF ResultFault
<1> QED BY <1>3, <1>4, <1>7, <1>8 DEF ReadIndex, ResultFault

LEMMA FetchDocumentKept ==
  ASSUME ResultsInv, NEW j \in Jobs, FetchDocument(j)
  PROVE  ResultsInv'
<1>1. JobSound(job[j], rows, mingled, day) /\ job[j] \in JobSet /\ job[j].at = "fetch"
  BY DEF ResultsInv, JobsInv, JobSound, FetchDocument
<1>2. UNCHANGED <<day, ran>> /\ UNCHANGED Stored
  BY DEF FetchDocument
<1>3. /\ job[j].left # {} /\ InHand(j) = Hand(job[j]) /\ Hand(job[j]) \in DOMAIN Index
      /\ JobSound(GoesOn(job[j].left \ {InHand(j)}), rows, mingled, day)
      /\ \A d \in Figures : Pending(job[j], d, day) /\ d # InHand(j) =>
              Pending(GoesOn(job[j].left \ {InHand(j)}), d, day)
  BY <1>1, RestSound
<1>4. CASE /\ Index[InHand(j)].span \in {"quarter", "half"}
           /\ JobGoes(j, [job[j] EXCEPT !.at = IF Index[InHand(j)].span = "half" THEN "gate" ELSE "upsert"])
           /\ UNCHANGED resultFaults
  <2> DEFINE r == [job[j] EXCEPT !.at = IF Index[InHand(j)].span = "half" THEN "gate" ELSE "upsert"]
  <2>1. /\ r \in JobSet /\ r.at \in {"gate", "upsert"} /\ r.left = job[j].left
        /\ r.found = job[j].found /\ r.lost = job[j].lost
        /\ r.at = "upsert" => Index[InHand(j)].span # "half"
    BY <1>1 DEF JobSet, Places
  <2> HIDE DEF r
  <2>2. Hand(r) = InHand(j) /\ Hand(r) = Hand(job[j])
    BY <1>3, <2>1 DEF Hand
  <2>3. Hand(r) \in Figures
    BY <1>3, <1>4, <2>2 DEF Figures
  <2>4. JobSound(r, rows, mingled, day)
    BY <1>1, <1>3, <2>1, <2>2, <2>3 DEF JobSound, InDocument
  <2>5. \A d \in Figures : Pending(job[j], d, day) => Pending(r, d, day)
    BY <1>1, <2>1, <2>2 DEF Pending, InDocument
  <2>6. RunMoves(j, r)
    BY <1>2, <1>4, <2>4, <2>5 DEF RunMoves, r, JobGoes
  <2> QED BY <2>6, RunMovesKept
<1>5. CASE /\ Index[InHand(j)].span \in {"annual", "none"} /\ Onward(j) /\ UNCHANGED resultFaults
  <2>1. InHand(j) \notin Figures
    BY <1>5 DEF Figures
  <2>2. job' = [job EXCEPT ![j] = GoesOn(job[j].left \ {InHand(j)})]
    BY <1>5, WithIs DEF Onward
  <2>3. RunMoves(j, GoesOn(job[j].left \ {InHand(j)}))
    BY <1>2, <1>3, <1>5, <2>1, <2>2 DEF RunMoves
  <2> QED BY <2>3, RunMovesKept
<1>6. CASE ResultFault /\ Onward(j)
  <2>1. job' = [job EXCEPT ![j] = GoesOn(job[j].left \ {InHand(j)})]
    BY <1>6, WithIs DEF Onward
  <2>2. RunMoves(j, GoesOn(job[j].left \ {InHand(j)}))
    BY <1>2, <1>3, <1>6, <2>1 DEF RunMoves, ResultFault
  <2> QED BY <2>2, RunMovesKept
<1> QED BY <1>4, <1>5, <1>6 DEF FetchDocument

LEMMA HalfYearGateKept ==
  ASSUME ResultsInv, NEW j \in Jobs, HalfYearGate(j)
  PROVE  ResultsInv'
<1>1. JobSound(job[j], rows, mingled, day) /\ job[j] \in JobSet /\ job[j].at = "gate"
  BY DEF ResultsInv, JobsInv, JobSound, HalfYearGate
<1>2. UNCHANGED <<day, ran, resultFaults>> /\ UNCHANGED Stored
  BY DEF HalfYearGate
<1>3. /\ job[j].left # {} /\ InHand(j) = Hand(job[j]) /\ Hand(job[j]) \in Figures
      /\ JobSound(GoesOn(job[j].left \ {InHand(j)}), rows, mingled, day)
      /\ \A d \in Figures : Pending(job[j], d, day) /\ d # InHand(j) =>
              Pending(GoesOn(job[j].left \ {InHand(j)}), d, day)
  BY <1>1, RestSound DEF InDocument, JobSound
<1> DEFINE old == rows[Index[InHand(j)].consolidated]
<1>4. CASE old # NoRow /\ old.span = "quarter"
  <2>1. Achieved(InHand(j), rows, mingled)
    BY <1>4 DEF Achieved
  <2>2. job' = [job EXCEPT ![j] = GoesOn(job[j].left \ {InHand(j)})]
    BY <1>4, WithIs DEF Onward, HalfYearGate
  <2>3. RunMoves(j, GoesOn(job[j].left \ {InHand(j)}))
    BY <1>2, <1>3, <2>1, <2>2 DEF RunMoves
  <2> QED BY <2>3, RunMovesKept
<1>5. CASE ~(old # NoRow /\ old.span = "quarter")
  <2> DEFINE r == [job[j] EXCEPT !.at = "upsert"]
  <2>1. /\ r \in JobSet /\ r.at = "upsert" /\ r.left = job[j].left
        /\ r.found = job[j].found /\ r.lost = job[j].lost
    BY <1>1 DEF JobSet, Places
  <2>0. job' = [job EXCEPT ![j] = r]
    BY <1>5 DEF HalfYearGate, JobGoes
  <2> HIDE DEF r
  <2>2. Hand(r) = InHand(j) /\ Hand(r) = Hand(job[j]) /\ Basis(r) = Index[InHand(j)].consolidated
    BY <1>3, <2>1 DEF Hand, Basis
  <2>3. old = NoRow \/ old.span = "half"
    <3>1. Index[InHand(j)].consolidated \in BOOLEAN /\ rows \in [BOOLEAN -> RowSet]
      BY <1>3, ResultConstants DEF ResultsInv, ResultsTyped, Figures
    <3>2. old \in RowSet
      BY <3>1
    <3> QED BY <1>5, <3>2 DEF RowSet
  <2>4. JobSound(r, rows, mingled, day)
    BY <1>1, <1>3, <2>1, <2>2, <2>3 DEF JobSound, InDocument
  <2>5. \A d \in Figures : Pending(job[j], d, day) => Pending(r, d, day)
    BY <1>1, <2>1, <2>2 DEF Pending, InDocument
  <2>6. RunMoves(j, r)
    BY <1>2, <2>0, <2>4, <2>5 DEF RunMoves
  <2> QED BY <2>6, RunMovesKept
<1> QED BY <1>4, <1>5

LEMMA UpsertResultKept ==
  ASSUME ResultsInv, NEW j \in Jobs, UpsertResult(j)
  PROVE  ResultsInv'
<1>1. JobSound(job[j], rows, mingled, day) /\ job[j] \in JobSet /\ job[j].at = "upsert"
  BY DEF ResultsInv, JobsInv, JobSound, UpsertResult
<1>2. UNCHANGED <<day, ran>> /\ UNCHANGED Stored
  BY DEF UpsertResult
<1>3. /\ job[j].left # {} /\ InHand(j) = Hand(job[j]) /\ Hand(job[j]) \in Figures
  BY <1>1, RestSound DEF InDocument, JobSound
<1> DEFINE d == InHand(j)
           row == [doc |-> d, span |-> Index[d].span, eps |-> Index[d].eps,
                   announced |-> IF Index[d].dated THEN Index[d].day ELSE -1]
<1>4. CASE JobGoes(j, [job[j] EXCEPT !.at = "surprise", !.new = row]) /\ UNCHANGED resultFaults
  <2> DEFINE r == [job[j] EXCEPT !.at = "surprise", !.new = row]
  <2>1. row \in RowSet /\ row # NoRow /\ row.doc = d /\ row.span = Index[d].span
    BY <1>3, ResultConstants DEF RowSet, Figures, NoRow
  <2>0. job' = [job EXCEPT ![j] = r]
    BY <1>4 DEF JobGoes
  <2> HIDE DEF row
  <2>2. /\ r \in JobSet /\ r.at = "surprise" /\ r.left = job[j].left
        /\ r.found = job[j].found /\ r.lost = job[j].lost /\ r.new = row
    BY <1>1, <2>1 DEF JobSet, Places
  <2> HIDE DEF r
  <2>3. Hand(r) = d /\ Hand(r) = Hand(job[j]) /\ Basis(r) = Basis(job[j])
    BY <1>3, <2>2 DEF Hand, Basis
  <2>4. JobSound(r, rows, mingled, day)
    BY <1>1, <1>3, <2>1, <2>2, <2>3 DEF JobSound, InDocument
  <2>5. \A e \in Figures : Pending(job[j], e, day) => Pending(r, e, day)
    BY <1>1, <2>2, <2>3 DEF Pending, InDocument
  <2>6. RunMoves(j, r)
    BY <1>2, <1>4, <2>0, <2>4, <2>5 DEF RunMoves
  <2> QED BY <2>6, RunMovesKept
<1>5. CASE ResultFault /\ JobGoes(j, Idle)
  <2>1. RunMoves(j, Idle)
    BY <1>2, <1>5, IdleSound DEF RunMoves, JobGoes, ResultFault
  <2> QED BY <2>1, RunMovesKept
<1> QED BY <1>4, <1>5 DEF UpsertResult

LEMMA LeftIs ==
  ASSUME NEW r, r.new \in RowSet \ {NoRow}, Basis(r) \in BOOLEAN, NEW table \in [BOOLEAN -> RowSet]
  PROVE  /\ Left(r, table) \in [BOOLEAN -> RowSet]
         /\ Left(r, table)[Basis(r)] # NoRow
         /\ Left(r, table)[Basis(r)].span = r.new.span
         /\ Left(r, table)[Basis(r)].doc = r.new.doc
         /\ \A c \in BOOLEAN : c # Basis(r) => Left(r, table)[c] = table[c]
<1> DEFINE old == table[Basis(r)]
           new == IF old = NoRow THEN r.new ELSE [r.new EXCEPT !.announced = old.announced]
<1>1. old \in RowSet
  OBVIOUS
<1>2. r.new \in [doc : DOMAIN Index, span : {"quarter", "half"}, eps : Nat, announced : Int]
  BY DEF RowSet
<1>3. new \in [doc : DOMAIN Index, span : {"quarter", "half"}, eps : Nat, announced : Int]
      /\ new.span = r.new.span /\ new.doc = r.new.doc
  <2>1. CASE old = NoRow
    BY <1>2, <2>1
  <2>2. CASE old # NoRow
    <3>1. old.announced \in Int
      BY <1>1, <2>2 DEF RowSet
    <3> QED BY <1>2, <2>2, <3>1
  <2> QED BY <2>1, <2>2
<1>4. Left(r, table) = [table EXCEPT ![Basis(r)] = new]
  BY DEF Left
<1>5. new \in RowSet /\ new # NoRow
  <2>1. new.doc \in DOMAIN Index
    BY <1>3
  <2>2. new.doc # 0
    BY <2>1, ResultConstants
  <2> QED BY <1>3, <2>2 DEF RowSet, NoRow
<1> HIDE DEF new
<1> QED BY <1>3, <1>4, <1>5

LEMMA EpsType ==
  ASSUME NEW table \in [BOOLEAN -> RowSet]
  PROVE  PreferredEps(table) \in Nat
<1>1. \A c \in BOOLEAN : table[c] # NoRow => table[c].eps \in Nat
  BY DEF RowSet
<1> QED BY <1>1 DEF PreferredEps, NoEps

LEMMA ComputeSurpriseKept ==
  ASSUME ResultsInv, NEW j \in Jobs, ComputeSurprise(j)
  PROVE  ResultsInv'
<1>1. JobSound(job[j], rows, mingled, day) /\ job[j] \in JobSet /\ job[j].at = "surprise"
  BY DEF ResultsInv, JobsInv, JobSound, ComputeSurprise
<1>2. UNCHANGED <<day, ran>> /\ UNCHANGED Stored
  BY DEF ComputeSurprise
<1>3. /\ job[j].left # {} /\ InHand(j) = Hand(job[j]) /\ Hand(job[j]) \in Figures
      /\ Hand(job[j]) \in DOMAIN Index /\ job[j].new.doc = Hand(job[j])
      /\ Index[job[j].new.doc].consolidated = Basis(job[j])
  BY <1>1, RestSound DEF InDocument, JobSound, Figures, Basis
<1> DEFINE d   == InHand(j)
           eps == EpsInHand(j)
           was == IF Index[d].dated THEN Index[d].day ELSE -1
           At(found, lost) == [job[j] EXCEPT !.at = "commit", !.found = found, !.lost = lost]
<1>4. eps = PreferredEps(Left(job[j], rows)) /\ eps \in Nat
  <2>1. Seen(j) = Left(job[j], rows)
    BY <1>3 DEF Seen, Left
  <2>2. job[j].new \in RowSet \ {NoRow} /\ rows \in [BOOLEAN -> RowSet]
    BY <1>1 DEF JobSound, JobSet, ResultsInv, ResultsTyped
  <2>3. Basis(job[j]) \in BOOLEAN
    BY <1>3, ResultConstants DEF Basis
  <2>4. Left(job[j], rows) \in [BOOLEAN -> RowSet]
    BY <2>2, <2>3, LeftIs
  <2> QED BY <2>1, <2>4, EpsType DEF EpsInHand
<1>5. ASSUME NEW found \in FoundSet, NEW lost \in BOOLEAN, ~lost \/ resultFaults' = resultFaults + 1,
             resultFaults' = resultFaults \/ resultFaults' = resultFaults + 1,
             job' = [job EXCEPT ![j] = At(found, lost)],
             ~lost /\ found # NoSurprise =>
               /\ found.eps = eps /\ eps # NoEps
               /\ found.emitted => /\ day - found.announced <= RecencyDays
                                   /\ found.announced = Index[d].day
                                   /\ found.decile \in {1, 10}
      PROVE  ResultsInv'
  <2> DEFINE r == At(found, lost)
  <2>1. /\ r \in JobSet /\ r.at = "commit" /\ r.left = job[j].left
        /\ r.found = found /\ r.lost = lost /\ r.new = job[j].new
    BY <1>1 DEF JobSet, Places
  <2>0. job' = [job EXCEPT ![j] = r]
    BY <1>5
  <2> HIDE DEF r, eps, At
  <2>2. Hand(r) = d /\ Hand(r) = Hand(job[j]) /\ Basis(r) = Basis(job[j])
    BY <1>3, <2>1 DEF Hand, Basis
  <2>3. r.found # NoSurprise /\ ~r.lost => r.found.eps = PreferredEps(Left(r, rows))
    <3>1. Left(r, rows) = Left(job[j], rows)
      BY <2>1, <2>2 DEF Left
    <3> QED BY <1>4, <1>5, <2>1, <3>1
  <2>4. r.found # NoSurprise /\ ~r.lost =>
               /\ r.found.eps # NoEps
               /\ r.found.emitted => /\ day - r.found.announced <= RecencyDays
                                     /\ r.found.announced = Index[Hand(r)].day
                                     /\ r.found.decile \in {1, 10}
    BY <1>5, <2>1, <2>2
  <2>5. /\ r.left # {} /\ Hand(r) \in Figures
        /\ r.new # NoRow /\ r.new.doc = Hand(r) /\ r.new.span = Index[Hand(r)].span
        /\ ~mingled /\ Index[Hand(r)].span = "half" =>
             rows[Basis(r)] = NoRow \/ rows[Basis(r)].span = "half"
    BY <1>1, <1>3, <2>1, <2>2 DEF JobSound
  <2>6. JobSound(r, rows, mingled, day)
    BY <2>1, <2>3, <2>4, <2>5 DEF JobSound
  <2>7. ~lost => \A e \in Figures : Pending(job[j], e, day) => Pending(r, e, day)
    BY <1>1, <2>1, <2>2 DEF Pending, InDocument
  <2>8. RunMoves(j, r)
    BY <1>2, <1>5, <2>0, <2>6, <2>7 DEF RunMoves
  <2> QED BY <2>8, RunMovesKept
<1>6. job[j].found = NoSurprise /\ job[j].lost = FALSE
  BY <1>1 DEF JobSound, JobSet
<1>7. CASE eps = NoEps /\ JobGoes(j, [job[j] EXCEPT !.at = "commit"]) /\ UNCHANGED resultFaults
  <2>1. job' = [job EXCEPT ![j] = At(NoSurprise, FALSE)]
    BY <1>1, <1>6, <1>7 DEF JobGoes, JobSet
  <2> HIDE DEF At, eps
  <2> QED BY <1>5, <1>7, <2>1, NothingIn
<1>8. ASSUME NEW decile \in Deciles, NEW liquid \in BOOLEAN, eps # NoEps, UNCHANGED resultFaults,
             JobGoes(j, [job[j] EXCEPT !.at = "commit",
                   !.found = [eps |-> eps, announced |-> was, decile |-> decile,
                              emitted |-> liquid /\ decile \in {1, 10}
                                          /\ was # -1 /\ day - was <= RecencyDays]])
      PROVE  ResultsInv'
  <2> DEFINE found == [eps |-> eps, announced |-> was, decile |-> decile,
                       emitted |-> liquid /\ decile \in {1, 10}
                                   /\ was # -1 /\ day - was <= RecencyDays]
  <2>1. job' = [job EXCEPT ![j] = At(found, FALSE)]
    BY <1>1, <1>6, <1>8 DEF JobGoes, JobSet
  <2> HIDE DEF eps
  <2>2. was \in Int /\ decile \in 0..10 /\ (was # -1 => was = Index[d].day)
    BY <1>3, ResultConstants
  <2>3. found \in FoundSet
    BY <1>4, <2>2 DEF FoundSet
  <2>4. /\ found.eps = eps
        /\ found.emitted => /\ day - found.announced <= RecencyDays
                            /\ found.announced = Index[d].day
                            /\ found.decile \in {1, 10}
    BY <2>2
  <2> HIDE DEF found, At
  <2> QED BY <1>5, <1>8, <2>1, <2>3, <2>4
<1>9. ASSUME NEW aborted \in BOOLEAN, ResultFault,
             JobGoes(j, [job[j] EXCEPT !.at = "commit", !.lost = aborted])
      PROVE  ResultsInv'
  <2>1. job' = [job EXCEPT ![j] = At(NoSurprise, aborted)]
    BY <1>1, <1>6, <1>9 DEF JobGoes, JobSet
  <2> HIDE DEF At, eps
  <2> QED BY <1>5, <1>9, <2>1, NothingIn DEF ResultFault
<1>10. \/ eps = NoEps /\ JobGoes(j, [job[j] EXCEPT !.at = "commit"]) /\ UNCHANGED resultFaults
       \/ /\ eps # NoEps
          /\ \E decile \in Deciles, liquid \in BOOLEAN :
                 JobGoes(j, [job[j] EXCEPT !.at = "commit",
                   !.found = [eps |-> eps, announced |-> was, decile |-> decile,
                              emitted |-> liquid /\ decile \in {1, 10}
                                          /\ was # -1 /\ day - was <= RecencyDays]])
          /\ UNCHANGED resultFaults
       \/ ResultFault /\ \E aborted \in BOOLEAN : JobGoes(j, [job[j] EXCEPT !.at = "commit", !.lost = aborted])
  BY DEF ComputeSurprise
<1> QED BY <1>7, <1>8, <1>9, <1>10

\* The commit of one run, and what it does to the other.
LEMMA CommitResultKept ==
  ASSUME ResultsInv, NEW j \in Jobs, CommitResult(j)
  PROVE  ResultsInv'
<1>1. JobSound(job[j], rows, mingled, day) /\ job[j] \in JobSet /\ job[j].at = "commit"
  BY DEF ResultsInv, JobsInv, JobSound, CommitResult
<1>2. UNCHANGED <<day, ran, resultFaults>>
  BY DEF CommitResult
<1>3. /\ job[j].left # {} /\ InHand(j) = Hand(job[j]) /\ Hand(job[j]) \in Figures
      /\ Hand(job[j]) \in DOMAIN Index /\ job[j].new.doc = Hand(job[j])
      /\ Index[job[j].new.doc].consolidated = Basis(job[j])
      /\ JobSound(GoesOn(job[j].left \ {InHand(j)}), rows, mingled, day)
      /\ \A d \in Figures : Pending(job[j], d, day) /\ d # InHand(j) =>
              Pending(GoesOn(job[j].left \ {InHand(j)}), d, day)
  BY <1>1, RestSound DEF InDocument, JobSound, Figures, Basis
<1> DEFINE r == GoesOn(job[j].left \ {InHand(j)})
           found == job[j].found
<1>4. job' = [job EXCEPT ![j] = r]
  BY WithIs DEF CommitResult, Onward
<1>5. CASE job[j].lost
  <2>1. UNCHANGED Stored
    BY <1>5 DEF CommitResult
  <2>2. \A d \in Figures : Pending(job[j], d, day) => Pending(r, d, day)
    BY <1>1, <1>3, <1>5 DEF Pending
  <2>3. RunMoves(j, r)
    BY <1>2, <1>3, <1>4, <2>1, <2>2 DEF RunMoves
  <2> QED BY <2>3, RunMovesKept
<1>6. CASE ~job[j].lost
  <2> HIDE DEF r
  <2>1. rows' = Left(job[j], rows)
    BY <1>3, <1>6 DEF CommitResult, Seen, Left
  <2>2. mingled' = (mingled \/ \E i \in Jobs \ {j} : PastGate(i))
    BY <1>6 DEF CommitResult
  <2>3. /\ job[j].new \in RowSet \ {NoRow} /\ rows \in [BOOLEAN -> RowSet]
        /\ Basis(job[j]) \in BOOLEAN /\ job[j].new.span = Index[Hand(job[j])].span
        /\ mingled \in BOOLEAN /\ mingled' \in BOOLEAN /\ (mingled => mingled')
    BY <1>1, <1>3, <2>2, ResultConstants DEF JobSound, JobSet, ResultsInv, ResultsTyped, Basis
  <2>4. /\ rows' \in [BOOLEAN -> RowSet] /\ rows'[Basis(job[j])] # NoRow
        /\ rows'[Basis(job[j])].span = Index[Hand(job[j])].span
        /\ rows'[Basis(job[j])].doc = Hand(job[j])
        /\ \A c \in BOOLEAN : c # Basis(job[j]) => rows'[c] = rows[c]
    BY <1>3, <2>1, <2>3, LeftIs
  <2>5. found \in FoundSet /\ surprise \in FoundSet /\ signal \in SignalSet /\ day \in Int
    BY <1>1, ResultConstants DEF JobSet, ResultsInv, ResultsTyped
  <2>6. ASSUME found # NoSurprise
        PROVE  /\ found.eps # NoEps /\ (~mingled => found.eps = PreferredEps(rows'))
               /\ found.emitted => /\ day - found.announced <= RecencyDays
                                   /\ found.announced = Index[Hand(job[j])].day
                                   /\ found.decile \in {1, 10}
    BY <1>1, <1>6, <2>1, <2>6 DEF JobSound
  <2>7. JobsInv'
    <3> SUFFICES ASSUME NEW i \in Jobs PROVE JobSound(job'[i], rows', mingled', day)
      BY <1>2 DEF JobsInv
    <3>1. CASE i = j
      <4>1. job'[i] = r
        BY <1>4, <3>1 DEF ResultsInv, ResultsTyped
      <4>2. JobSound(r, rows', mingled', day)
        <5>1. r.at \notin {"upsert", "surprise", "commit"}
          BY DEF r, GoesOn, Idle
        <5>2. JobSound(r, rows, mingled, day)
          BY <1>3 DEF r
        <5> QED BY <2>3, <5>1, <5>2, OtherSound
      <4> QED BY <4>1, <4>2
    <3>2. CASE i # j
      <4>1. job'[i] = job[i]
        BY <1>4, <3>2 DEF ResultsInv, ResultsTyped
      <4>2. mingled' \/ job[i].at \notin {"upsert", "surprise", "commit"}
        BY <2>2, <3>2 DEF PastGate, InTransaction
      <4>3. JobSound(job[i], rows, mingled, day)
        BY DEF ResultsInv, JobsInv
      <4> QED BY <2>3, <4>1, <4>2, <4>3, OtherSound
    <3> QED BY <3>1, <3>2
  <2>8. KeptInv'
    <3>1. ASSUME NEW d \in Figures, Achieved(d, rows, mingled)
          PROVE  Achieved(d, rows', mingled')
      <4>1. Index[d].consolidated \in BOOLEAN
        BY ResultConstants DEF Figures
      <4>2. CASE Index[d].consolidated # Basis(job[j])
        BY <2>3, <2>4, <3>1, <4>1, <4>2 DEF Achieved
      <4>3. CASE Index[d].consolidated = Basis(job[j])
        <5>1. Index[Hand(job[j])].span \in {"quarter", "half"}
          BY <1>3 DEF Figures
        <5>2. CASE mingled' \/ Index[Hand(job[j])].span = "quarter"
          BY <2>4, <4>3, <5>2 DEF Achieved
        <5>3. CASE ~mingled /\ Index[Hand(job[j])].span = "half"
          <6>1. rows[Basis(job[j])] = NoRow \/ rows[Basis(job[j])].span = "half"
            BY <1>1, <5>3 DEF JobSound
          <6>2. Index[d].span = "half"
            BY <3>1, <4>3, <5>3, <6>1 DEF Achieved
          <6> QED BY <2>4, <4>3, <6>2 DEF Achieved
        <5> QED BY <2>3, <5>1, <5>2, <5>3
      <4> QED BY <4>2, <4>3
    <3>2. ASSUME NEW d \in Figures, Pending(job[j], d, day)
          PROVE  Pending(r, d, day) \/ Achieved(d, rows', mingled')
      <4>1. CASE d # InHand(j)
        BY <1>3, <3>2, <4>1 DEF r
      <4>2. CASE d = InHand(j)
        <5>1. /\ Index[d].consolidated = Basis(job[j]) /\ Index[d].span = Index[Hand(job[j])].span
              /\ Index[d].span \in {"quarter", "half"}
          BY <1>3, <4>2 DEF Basis, Figures
        <5> QED BY <2>4, <5>1 DEF Achieved
      <4> QED BY <4>1, <4>2
    <3>3. ResultsTyped /\ KeptInv
      BY DEF ResultsInv
    <3> QED BY <1>2, <1>4, <3>1, <3>2, <3>3, KeptMoves
  <2>9. CASE found = NoSurprise
    <3>1. unscored' = TRUE /\ UNCHANGED <<surprise, signal>>
      BY <1>6, <2>9 DEF CommitResult
    <3>2. StoredInv'
      BY <2>3, <2>4, <3>1 DEF ResultsInv, StoredInv
    <3>3. ResultsTyped'
      <4>1. \A c \in BOOLEAN : rows'[c] # NoRow => Index[rows'[c].doc].consolidated = c
        BY <1>3, <2>4 DEF ResultsInv, ResultsTyped
      <4> QED BY <1>2, <1>4, <2>3, <2>4, <3>1, <4>1 DEF ResultsInv, ResultsTyped
    <3> QED BY <2>7, <2>8, <3>2, <3>3 DEF ResultsInv
  <2>10. CASE found # NoSurprise
    <3>1. /\ unscored' = FALSE
          /\ surprise' = [found EXCEPT
               !.announced = IF surprise.announced # -1 THEN surprise.announced ELSE @,
               !.emitted = @ \/ surprise.emitted]
          /\ signal' = IF found.emitted /\ signal = NoSignal
                       THEN [way |-> IF found.decile = 10 THEN "long" ELSE "short",
                             announced |-> found.announced, at |-> day]
                       ELSE signal
      BY <1>6, <2>10 DEF CommitResult
    <3>2. /\ surprise' \in FoundSet /\ surprise'.eps = found.eps
          /\ surprise'.emitted = (found.emitted \/ surprise.emitted)
      BY <2>5, <3>1 DEF FoundSet
    <3>3. signal' \in SignalSet
      BY <2>5, <3>1 DEF SignalSet, FoundSet
    <3>4. StoredInv'
      <4>1. ~mingled' => surprise'.eps = PreferredEps(rows')
        BY <2>3, <2>6, <2>10, <3>2
      <4>2. signal # NoSignal <=> surprise.emitted
        BY DEF ResultsInv, StoredInv
      <4>3. CASE found.emitted /\ signal = NoSignal
        <5>1. /\ signal'.way # "" /\ signal'.announced = found.announced /\ signal'.at = day
              /\ signal' # NoSignal
          BY <3>1, <4>3 DEF NoSignal
        <5>2. /\ day - found.announced <= RecencyDays
              /\ \E i \in DOMAIN Index : Index[i].day = found.announced
          BY <1>3, <2>6, <2>10, <4>3
        <5> QED BY <2>3, <2>4, <3>2, <4>1, <4>3, <5>1, <5>2 DEF StoredInv
      <4>4. CASE ~(found.emitted /\ signal = NoSignal)
        <5>1. signal' = signal
          BY <3>1, <4>4
        <5>2. signal # NoSignal => /\ signal.at - signal.announced <= RecencyDays /\ signal.way # ""
                                   /\ \E i \in DOMAIN Index : Index[i].day = signal.announced
          BY DEF ResultsInv, StoredInv
        <5>3. signal' # NoSignal <=> surprise'.emitted
          BY <3>2, <4>2, <4>4, <5>1
        <5> QED BY <2>3, <2>4, <4>1, <5>1, <5>2, <5>3 DEF StoredInv
      <4> QED BY <4>3, <4>4
    <3>5. ResultsTyped'
      <4>1. \A c \in BOOLEAN : rows'[c] # NoRow => Index[rows'[c].doc].consolidated = c
        BY <1>3, <2>4 DEF ResultsInv, ResultsTyped
      <4> QED BY <1>2, <1>4, <2>3, <2>4, <3>1, <3>2, <3>3, <4>1 DEF ResultsInv, ResultsTyped
    <3> QED BY <2>7, <2>8, <3>4, <3>5 DEF ResultsInv
  <2> QED BY <2>9, <2>10
<1> QED BY <1>5, <1>6

-----------------------------------------------------------------------------
(* The other steps, and the theorem.                                       *)

LEMMA StartRunKept ==
  ASSUME ResultsInv, NEW j \in Jobs, StartRun(j)
  PROVE  ResultsInv'
<1> DEFINE r == [Idle EXCEPT !.at = "index",
                             !.bucket = Bucket(IF j = "scan" THEN ScanDays ELSE SweepBack)]
<1>1. /\ job' = [job EXCEPT ![j] = r] /\ ran' = ran \cup {j} /\ job[j] = Idle
      /\ UNCHANGED <<day, resultFaults>> /\ UNCHANGED Stored
  BY DEF StartRun, JobGoes
<1>2. Bucket(DaysBack(j)) \in DOMAIN Buckets
  BY BucketsOrdered, BucketCovers DEF DaysBack
<1>3. /\ r \in JobSet /\ r.at = "index" /\ r.bucket = Bucket(DaysBack(j))
      /\ r.found = NoSurprise /\ r.lost = FALSE
  BY <1>2, NothingIn DEF Idle, JobSet, Places, DaysBack
<1> HIDE DEF r
<1>4. JobSound(r, rows, mingled, day)
  BY <1>3 DEF JobSound, InDocument
<1>5. \A d \in Figures : ~Pending(job[j], d, day)
  BY <1>1 DEF Pending, Idle, InDocument
<1>6. ResultsTyped'
  BY <1>1 DEF ResultsInv, ResultsTyped, Stored
<1>7. JobsInv'
  <2> SUFFICES ASSUME NEW i \in Jobs PROVE JobSound(job'[i], rows, mingled, day)
    BY <1>1 DEF JobsInv, Stored
  <2>1. job'[i] = IF i = j THEN r ELSE job[i]
    BY <1>1 DEF ResultsInv, ResultsTyped
  <2> QED BY <1>4, <2>1 DEF ResultsInv, JobsInv
<1>8. StoredInv'
  BY <1>1 DEF ResultsInv, StoredInv, Stored
<1>9. KeptInv'
  <2> SUFFICES ASSUME NEW d \in Figures
               PROVE  Kept(d, ran \cup {j}, job', rows, mingled, day, resultFaults)
    BY <1>1 DEF KeptInv, Stored
  <2>1. Kept(d, ran, job, rows, mingled, day, resultFaults)
    BY DEF ResultsInv, KeptInv
  <2>2. ASSUME day \in Within(d, DaysBack(j)) PROVE Pending(r, d, day)
    BY <1>3, <2>2 DEF Within, Pending
  <2>3. \A i \in ran \cup {j} : job'[i] = IF i = j THEN r ELSE job[i]
    BY <1>1 DEF ResultsInv, ResultsTyped
  <2> QED BY <1>5, <2>1, <2>2, <2>3 DEF Kept
<1> QED BY <1>6, <1>7, <1>8, <1>9 DEF ResultsInv

LEMMA MonitorCrashKept ==
  ASSUME ResultsInv, MonitorCrash
  PROVE  ResultsInv'
<1>1. /\ resultFaults' = resultFaults + 1 /\ job' = [j \in Jobs |-> Idle]
      /\ UNCHANGED <<day, ran>> /\ UNCHANGED Stored
  BY DEF MonitorCrash, ResultFault
<1>2. ResultsTyped'
  BY <1>1 DEF ResultsInv, ResultsTyped, Stored
<1>3. JobsInv'
  BY <1>1, IdleSound DEF JobsInv
<1>4. StoredInv'
  BY <1>1 DEF ResultsInv, StoredInv, Stored
<1>5. KeptInv'
  BY <1>1, KeptFaults DEF ResultsInv, Stored
<1> QED BY <1>2, <1>3, <1>4, <1>5 DEF ResultsInv

LEMMA DayEndsKept ==
  ASSUME ResultsInv, DayEnds
  PROVE  ResultsInv'
<1>1. /\ day < MaxDay /\ \A j \in Jobs : job[j] = Idle
      /\ "scan" \in ran /\ (day \in SweepDays => "sweep" \in ran)
      /\ day' = day + 1 /\ ran' = {} /\ UNCHANGED <<job, resultFaults>> /\ UNCHANGED Stored
  BY DEF DayEnds
<1>2. ResultsTyped'
  BY <1>1, ResultConstants DEF ResultsInv, ResultsTyped, Stored
<1>3. JobsInv'
  BY <1>1, IdleSound DEF JobsInv
<1>4. StoredInv'
  BY <1>1 DEF ResultsInv, StoredInv, Stored
<1>5. KeptInv'
  <2> SUFFICES ASSUME NEW d \in Figures
               PROVE  Kept(d, {}, job', rows, mingled, day + 1, resultFaults)
    BY <1>1 DEF KeptInv, Stored
  <2>1. Kept(d, ran, job, rows, mingled, day, resultFaults)
    BY DEF ResultsInv, KeptInv
  <2>2. /\ day \in Nat /\ day + 1 \in Nat /\ resultFaults \in Nat /\ ran \subseteq Jobs
    BY ResultConstants DEF ResultsInv, ResultsTyped
  <2>3. Cardinality(Past(d, day)) \in Nat /\ Cardinality(Past(d, day + 1)) \in Nat
    BY <2>2, TriesFinite
  <2>4. \A j \in Jobs : ~Pending(job[j], d, day)
    BY <1>1 DEF Pending, Idle, InDocument
  <2>5. CASE ~Achieved(d, rows, mingled) /\ day \in Tries(d)
    <3>1. PICK j \in ran : day \in Within(d, DaysBack(j))
      BY <1>1, <2>5 DEF Tries, DaysBack
    <3>2. resultFaults >= Cardinality(Past(d, day)) + 1
      BY <2>1, <2>2, <2>4, <2>5, <3>1 DEF Kept
    <3>3. Cardinality(Past(d, day + 1)) <= Cardinality(Past(d, day)) + 1
      BY <2>2, <2>5, PastGrows
    <3>4. resultFaults >= Cardinality(Past(d, day + 1))
      BY <2>2, <2>3, <3>2, <3>3
    <3> QED BY <3>4 DEF Kept
  <2>6. CASE ~Achieved(d, rows, mingled) /\ day \notin Tries(d)
    <3>1. resultFaults >= Cardinality(Past(d, day))
      BY <2>1, <2>6 DEF Kept
    <3>2. Cardinality(Past(d, day + 1)) <= Cardinality(Past(d, day)) + 0
      BY <2>2, <2>6, PastGrows
    <3>3. resultFaults >= Cardinality(Past(d, day + 1))
      BY <2>2, <2>3, <3>1, <3>2
    <3> QED BY <3>3 DEF Kept
  <2>7. CASE Achieved(d, rows, mingled)
    BY <2>7 DEF Kept
  <2> QED BY <2>5, <2>6, <2>7
<1> QED BY <1>2, <1>3, <1>4, <1>5 DEF ResultsInv

LEMMA ResultsInitOK == ASSUME ResultsInit PROVE ResultsInv
<1> USE DEF ResultsInit
<1>1. ResultsTyped
  <2>1. 0 \in 0..MaxDay /\ {} \subseteq Jobs /\ 0 \in Nat
    BY ResultConstants
  <2>2. /\ rows \in [BOOLEAN -> RowSet] /\ surprise \in FoundSet /\ signal \in SignalSet
        /\ \A c \in BOOLEAN : rows[c] = NoRow
    BY NothingIn
  <2>3. mingled \in BOOLEAN /\ unscored \in BOOLEAN
    OBVIOUS
  <2>4. job = [j \in Jobs |-> job[j]]
    OBVIOUS
  <2>5. day = 0 /\ ran = {} /\ resultFaults = 0
    OBVIOUS
  <2> HIDE DEF ResultsInit
  <2> QED BY <2>1, <2>2, <2>3, <2>4, <2>5 DEF ResultsTyped
<1>2. JobsInv
  BY IdleSound DEF JobsInv
<1>3. StoredInv
  BY DEF StoredInv, PreferredEps, NoSurprise
<1>4. KeptInv
  <2> SUFFICES ASSUME NEW d \in Figures
               PROVE  Kept(d, {}, job, rows, mingled, 0, 0)
    BY DEF KeptInv
  <2>1. Past(d, 0) = {}
    BY ResultConstants DEF Past, Tries, Within
  <2>2. Cardinality(Past(d, 0)) = 0
    BY <2>1, FS_EmptySet
  <2> QED BY <2>2 DEF Kept
<1> QED BY <1>1, <1>2, <1>3, <1>4 DEF ResultsInv

\* What the runs do keeps every document's figures in sight: stored, before a
\* run of the day, or lost to as many faults as there were days with a run
\* (kb/sync/bse_financial_results.py, run_market_scan and run;
\* research/pead_signals.py, compute_surprise).
THEOREM ResultsInvariant == ResultsSpec => []ResultsInv
<1>1. ASSUME ResultsInv, [ResultsNext]_resultVars PROVE ResultsInv'
  <2>1. CASE UNCHANGED resultVars
    BY <1>1, <2>1 DEF resultVars, ResultsInv, ResultsTyped, JobsInv, StoredInv, KeptInv
  <2>2. ASSUME NEW j \in Jobs, ResultsStep(j) PROVE ResultsInv'
    BY <1>1, <2>2, StartRunKept, ReadIndexKept, FetchDocumentKept, HalfYearGateKept,
       UpsertResultKept, ComputeSurpriseKept, CommitResultKept DEF ResultsStep
  <2>3. CASE DayEnds
    BY <1>1, <2>3, DayEndsKept
  <2>4. CASE MonitorCrash
    BY <1>1, <2>4, MonitorCrashKept
  <2> QED BY <1>1, <2>1, <2>2, <2>3, <2>4 DEF ResultsNext
<1> QED BY <1>1, ResultsInitOK, PTL DEF ResultsSpec

LEMMA QuarterSoundFollows == ASSUME ResultsInv PROVE QuarterSound
<1>1. SurpriseSound
  BY DEF ResultsInv, StoredInv, SurpriseSound
<1>2. ResultsKept
  <2> SUFFICES ASSUME NEW d \in DOMAIN Index, Index[d].span \in {"quarter", "half"},
                      day - Index[d].day >= Buckets[Bucket(SweepBack)]
               PROVE  \/ Achieved(d, rows, mingled)
                      \/ resultFaults >= Cardinality(Tries(d))
    BY DEF ResultsKept, Achieved
  <2>1. Kept(d, ran, job, rows, mingled, day, resultFaults)
    BY DEF ResultsInv, KeptInv, Figures
  <2>2. Past(d, day) = Tries(d)
    <3>1. day \in Int /\ Index[d].day \in Int /\ Tries(d) \subseteq Int
      BY ResultConstants DEF ResultsInv, ResultsTyped, Tries, Within
    <3>2. /\ Buckets[Bucket(SweepBack)] \in Int /\ Buckets[Bucket(ScanDays)] \in Int
          /\ Buckets[Bucket(ScanDays)] <= Buckets[Bucket(SweepBack)]
      BY BucketsOrdered, BucketCovers, ResultConstants
    <3>3. ASSUME NEW t \in Tries(d) PROVE t < day
      <4>1. \/ t - Index[d].day < Buckets[Bucket(ScanDays)]
            \/ t - Index[d].day < Buckets[Bucket(SweepBack)]
        BY DEF Tries, Within
      <4>2. t \in Int
        BY <3>1
      <4> QED BY <3>1, <3>2, <4>1, <4>2
    <3> QED BY <3>3 DEF Past
  <2> QED BY <2>1, <2>2 DEF Kept
<1> QED BY <1>1, <1>2 DEF QuarterSound

\* No result of a quarter is lost to fewer faults than there were days with a
\* run that had it, a half-year does not replace a quarter, and surprise and
\* signal follow what is stored; for any index, windows, days of the sweep and
\* recency (kb/sync/bse_financial_results.py; research/pead_signals.py).
THEOREM QuarterSoundHolds == ResultsSpec => []QuarterSound
BY ResultsInvariant, QuarterSoundFollows, PTL

\* Every variable of the results keeps its type (kb/models.py, FinancialResult
\* and EarningsSurprise).
THEOREM ResultsTypeCorrect == ResultsSpec => []ResultsTypeOK
<1>1. ASSUME ResultsInv PROVE ResultsTypeOK
  <2>1. \A j \in Jobs : job[j].at \in Places
    BY <1>1 DEF ResultsInv, JobsInv, JobSound, JobSet
  <2>2. surprise.eps \in Nat /\ signal.way \in {"", "long", "short"}
    BY <1>1 DEF ResultsInv, ResultsTyped, FoundSet, SignalSet
  <2>3. \A c \in BOOLEAN : rows[c] # NoRow => rows[c].doc \in DOMAIN Index
    BY <1>1 DEF ResultsInv, ResultsTyped, RowSet
  <2> QED BY <1>1, <2>1, <2>2, <2>3 DEF ResultsTypeOK, ResultsInv, ResultsTyped, Places
<1> QED BY <1>1, ResultsInvariant, PTL

-----------------------------------------------------------------------------
(* Classification.                                                         *)

LEMMA ClassConstants ==
  /\ ProfileTicks \in Nat \ {0} /\ DayTicks \in Nat \ {0} /\ MaxTicks \in Nat
  /\ Routers \cap AgentsAsking = {} /\ MaxStateFaults \in Nat
  /\ Readers = Routers \cup AgentsAsking
BY ClassificationAssumption DEF Readers

LEMMA GreatestIs ==
  ASSUME NEW S \in SUBSET Int, NEW m \in S, \A y \in S : y <= m
  PROVE  Max(S) = m
<1>1. \A y \in S : m >= y
  OBVIOUS
<1>2. \A x \in S : (\A y \in S : x >= y) => x = m
  OBVIOUS
<1> QED BY <1>1, <1>2 DEF Max

LEMMA GreatestIn ==
  ASSUME NEW n \in Nat, NEW S \in SUBSET (0..n), S # {}
  PROVE  Max(S) \in S /\ \A y \in S : y <= Max(S)
<1> DEFINE T == {n - i : i \in S}
<1>1. T \in SUBSET Nat /\ T # {}
  <2>1. ASSUME NEW y \in S PROVE n - y \in Nat
    <3>1. y \in 0..n
      OBVIOUS
    <3> QED BY <3>1
  <2> QED BY <2>1
<1>2. PICK k \in T : \A m \in T : k <= m
  BY <1>1, LeastNumber
<1>3. PICK j \in S : k = n - j
  BY <1>2
<1>4. \A y \in S : y <= j
  <2> SUFFICES ASSUME NEW y \in S PROVE y <= j
    OBVIOUS
  <2>1. n - y \in T
    OBVIOUS
  <2>2. n - j <= n - y
    BY <2>1, <1>2, <1>3
  <2> QED BY <2>2
<1>5. S \in SUBSET Int
  OBVIOUS
<1>6. Max(S) = j
  BY <1>4, <1>5, GreatestIs
<1> QED BY <1>4, <1>6

LEMMA NotLater ==
  ASSUME NEW n \in Nat \ {0}, NEW a \in Nat, NEW b \in Nat, a <= b
  PROVE  a \div n \in 0..(b \div n)
<1>1. /\ a \div n \in Nat /\ b \div n \in Nat
      /\ n * (a \div n) <= a /\ b < n * (b \div n) + n
  OBVIOUS
<1>2. ASSUME a \div n > b \div n PROVE FALSE
  <2> DEFINE p == a \div n
             q == b \div n
  <2>1. PICK d \in Nat : p = q + 1 + d
    <3>1. p - q - 1 \in Nat /\ p = q + 1 + (p - q - 1)
      BY <1>1, <1>2
    <3> QED BY <3>1
  <2> HIDE DEF p, q
  <2>2. p \in Nat /\ q \in Nat
    BY <1>1 DEF p, q
  <2>3. n * (q + 1 + d) = n * q + n + n * d /\ n * d \in Nat /\ n * q \in Nat
    BY <2>2
  <2>4. n * p <= a /\ b < n * q + n
    BY <1>1 DEF p, q
  <2>5. n * p = n * q + n + n * d
    BY <2>1, <2>3
  <2> QED BY <2>3, <2>4, <2>5
<1> QED BY <1>1, <1>2

-----------------------------------------------------------------------------
(* The table.                                                              *)

RunOK(fed) ==
  /\ fed.ok \in SUBSET Feeds /\ fed.day \in Days
  /\ \A s \in Stocks, f \in Feeds : f \notin fed.ok => fed.found[s][f] = NoEntry

RowOK(row, d) ==
  row # NoState => /\ row.day = d /\ DOMAIN row.stage = Feeds /\ row.payload \subseteq Feeds

Saw(runs, s, d) == {i \in DOMAIN runs : runs[i].day = d /\ s \in OnAList(runs[i])}
Heard(runs, s, d, f) == {i \in Saw(runs, s, d) : f \in runs[i].ok}

\* FeedsKept of one row.
RowKept(row, runs, s, d) ==
  IF Saw(runs, s, d) = {} THEN row = NoState
  ELSE /\ row # NoState
       /\ \A f \in Feeds : row.stage[f] =
            IF Heard(runs, s, d, f) = {} THEN <<>>
            ELSE runs[Max(Heard(runs, s, d, f))].found[s][f].stage

TableInv ==
  /\ market = [s \in Stocks |-> [d \in Days |-> market[s][d]]]
  /\ \A fed \in fetched : RunOK(fed)
  /\ written = [i \in 1..Len(written) |-> written[i]] /\ Len(written) \in Nat
  /\ \A i \in 1..Len(written) : RunOK(written[i])
  /\ ticks \in 0..MaxTicks
  /\ \A s \in Stocks, d \in Days : RowOK(market[s][d], d) /\ RowKept(market[s][d], written, s, d)

LEMMA SeqIsFunction ==
  ASSUME NEW S, NEW q \in Seq(S), NEW n \in Nat, Len(q) = n + 1
  PROVE  q = [i \in 1..(n + 1) |-> q[i]]
OBVIOUS

LEMMA TodayIsADay ==
  ASSUME ticks \in 0..MaxTicks
  PROVE  Today \in Days
<1>1. ticks \in Nat /\ ticks <= MaxTicks
  BY ClassConstants
<1> QED BY <1>1, NotLater, ClassConstants DEF Today, Days

LEMMA FetchedOK ==
  ASSUME TableInv, FetchFeeds
  PROVE  \A fed \in fetched' : RunOK(fed)
<1>1. PICK reading \in Readings, down \in Outages \ {Feeds} :
       fetched' = fetched \cup
         {[ok |-> Feeds \ down, day |-> Today,
           found |-> [s \in Stocks |-> [f \in Feeds |->
                        IF f \in down THEN NoEntry ELSE Parsed(reading, s)[f]]]]}
  BY DEF FetchFeeds
<1> DEFINE new == [ok |-> Feeds \ down, day |-> Today,
                   found |-> [s \in Stocks |-> [f \in Feeds |->
                        IF f \in down THEN NoEntry ELSE Parsed(reading, s)[f]]]]
<1>2. new.ok \in SUBSET Feeds /\ new.day = Today
  OBVIOUS
<1>3. \A s \in Stocks, f \in Feeds : f \notin new.ok => new.found[s][f] = NoEntry
  OBVIOUS
<1> HIDE DEF new
<1>4. RunOK(new)
  BY <1>2, <1>3, TodayIsADay DEF RunOK, TableInv
<1> QED BY <1>1, <1>4 DEF TableInv, new

\* One more run on a row that it has an entry for.
LEMMA RowMerged ==
  ASSUME NEW runs, NEW n \in Nat, runs = [i \in 1..n |-> runs[i]], NEW fed, RunOK(fed),
         NEW more, more = [i \in 1..(n + 1) |-> IF i = n + 1 THEN fed ELSE runs[i]],
         NEW s \in Stocks, s \in OnAList(fed), NEW row,
         RowOK(row, fed.day), RowKept(row, runs, s, fed.day)
  PROVE  LET new == MergedRow(row, Built(fed, s), fed.ok)
         IN  RowOK(new, fed.day) /\ RowKept(new, more, s, fed.day)
<1> DEFINE d == fed.day
           new == MergedRow(row, Built(fed, s), fed.ok)
           built == Built(fed, s)
<1>1. /\ DOMAIN runs = 1..n /\ DOMAIN more = 1..(n + 1) /\ more[n + 1] = fed
      /\ \A i \in 1..n : more[i] = runs[i] /\ i # n + 1
  OBVIOUS
<1>2. Saw(more, s, d) = Saw(runs, s, d) \cup {n + 1}
  BY <1>1 DEF Saw
<1>3. d \in Nat /\ fed.ok \subseteq Feeds /\ \A f \in Feeds : f \notin fed.ok => fed.found[s][f].stage = <<>>
  BY ClassConstants DEF RunOK, Days, NoEntry
<1>4. /\ built.day = d /\ DOMAIN built.stage = Feeds /\ built.payload \subseteq Feeds
      /\ \A f \in Feeds : built.stage[f] = fed.found[s][f].stage
  BY DEF Built
<1>5. new.day = d /\ DOMAIN new.stage = Feeds /\ new.payload \subseteq Feeds
  <2>1. CASE row = NoState
    BY <2>1, <1>4 DEF MergedRow
  <2>2. CASE row # NoState
    <3>1. row.payload \subseteq Feeds
      BY <2>2 DEF RowOK
    <3> QED BY <2>2, <3>1, <1>4 DEF MergedRow
  <2> QED BY <2>1, <2>2
<1>6. new # NoState
  <2>1. NoState.day = -1 /\ d # -1
    BY <1>3 DEF NoState
  <2> QED BY <2>1, <1>5
<1>7. ASSUME NEW f \in Feeds, f \in fed.ok
      PROVE  new.stage[f] = IF Heard(more, s, d, f) = {} THEN <<>>
                            ELSE more[Max(Heard(more, s, d, f))].found[s][f].stage
  <2>1. Heard(more, s, d, f) \subseteq 1..(n + 1) /\ n + 1 \in Heard(more, s, d, f)
    BY <1>1, <1>2, <1>7 DEF Heard, Saw
  <2>2. Max(Heard(more, s, d, f)) = n + 1
    <3>1. \A i \in 1..(n + 1) : i \in Int /\ i <= n + 1
      OBVIOUS
    <3>2. Heard(more, s, d, f) \in SUBSET Int /\ \A y \in Heard(more, s, d, f) : y <= n + 1
      BY <2>1, <3>1
    <3> HIDE DEF d
    <3> QED BY <2>1, <3>2, GreatestIs
  <2>3. new.stage[f] = fed.found[s][f].stage
    BY <1>4, <1>7 DEF MergedRow
  <2> QED BY <2>1, <2>2, <2>3, <1>1
<1>8. ASSUME NEW f \in Feeds, f \notin fed.ok
      PROVE  new.stage[f] = IF Heard(more, s, d, f) = {} THEN <<>>
                            ELSE more[Max(Heard(more, s, d, f))].found[s][f].stage
  <2>1. Heard(more, s, d, f) = Heard(runs, s, d, f)
    BY <1>1, <1>2, <1>8 DEF Heard, Saw
  <2>2. CASE row = NoState
    <3>1. Saw(runs, s, d) = {}
      BY <2>2 DEF RowKept
    <3>2. Heard(more, s, d, f) = {}
      BY <3>1, <2>1 DEF Heard
    <3>3. new.stage[f] = <<>>
      BY <2>2, <1>4, <1>3, <1>8 DEF MergedRow
    <3> QED BY <3>2, <3>3
  <2>3. CASE row # NoState
    <3>1. new.stage[f] = row.stage[f]
      BY <2>3, <1>8 DEF MergedRow
    <3>2. row.stage[f] = IF Heard(runs, s, d, f) = {} THEN <<>>
                         ELSE runs[Max(Heard(runs, s, d, f))].found[s][f].stage
      BY <2>3 DEF RowKept
    <3>3. CASE Heard(runs, s, d, f) = {}
      BY <3>1, <3>2, <3>3, <2>1
    <3>4. CASE Heard(runs, s, d, f) # {}
      <4>1. Heard(runs, s, d, f) \subseteq 1..n
        BY <1>1 DEF Heard, Saw
      <4>2. Max(Heard(runs, s, d, f)) \in 1..n
        <5>1. Heard(runs, s, d, f) \in SUBSET (0..n)
          BY <4>1
        <5> QED BY <5>1, <4>1, <3>4, GreatestIn
      <4> QED BY <4>2, <3>1, <3>2, <3>4, <2>1, <1>1
    <3> QED BY <3>3, <3>4
  <2> QED BY <2>2, <2>3
<1>9. Saw(more, s, d) # {}
  BY <1>2
<1> HIDE DEF new, d
<1>10. RowOK(new, d)
  BY <1>5 DEF RowOK
<1>11. RowKept(new, more, s, d)
  BY <1>6, <1>7, <1>8, <1>9 DEF RowKept
<1> QED BY <1>10, <1>11 DEF new, d

\* A row of another day, or of a company that is on no list.
LEMMA RowLeft ==
  ASSUME NEW runs, NEW n \in Nat, runs = [i \in 1..n |-> runs[i]], NEW fed,
         NEW more, more = [i \in 1..(n + 1) |-> IF i = n + 1 THEN fed ELSE runs[i]],
         NEW s \in Stocks, NEW d \in Days, NEW row, RowKept(row, runs, s, d),
         d # fed.day \/ s \notin OnAList(fed)
  PROVE  RowKept(row, more, s, d)
<1>1. /\ DOMAIN runs = 1..n /\ DOMAIN more = 1..(n + 1) /\ more[n + 1] = fed
      /\ \A i \in 1..n : more[i] = runs[i] /\ i # n + 1
  OBVIOUS
<1>2. Saw(more, s, d) = Saw(runs, s, d)
  BY <1>1 DEF Saw
<1>3. ASSUME NEW f \in Feeds
      PROVE  /\ Heard(more, s, d, f) = Heard(runs, s, d, f)
             /\ Heard(runs, s, d, f) # {} =>
                  more[Max(Heard(more, s, d, f))] = runs[Max(Heard(runs, s, d, f))]
  <2>1. Heard(more, s, d, f) = Heard(runs, s, d, f) /\ Heard(runs, s, d, f) \subseteq 1..n
    BY <1>1, <1>2 DEF Heard, Saw
  <2>2. ASSUME Heard(runs, s, d, f) # {} PROVE Max(Heard(runs, s, d, f)) \in 1..n
    <3>1. Heard(runs, s, d, f) \in SUBSET (0..n)
      BY <2>1
    <3> QED BY <3>1, <2>1, <2>2, GreatestIn
  <2> QED BY <2>1, <2>2, <1>1
<1> QED BY <1>2, <1>3 DEF RowKept

LEMMA TableKept ==
  ASSUME TableInv, NEW fed \in fetched,
         market' = [s \in Stocks |->
           IF s \notin OnAList(fed) THEN market[s]
           ELSE [market[s] EXCEPT ![fed.day] = MergedRow(@, Built(fed, s), fed.ok)]],
         written' = Append(written, fed), fetched' = fetched \ {fed}, ticks' = ticks
  PROVE  TableInv'
<1> DEFINE n == Len(written)
<1>1. /\ RunOK(fed) /\ fed.day \in Days /\ n \in Nat
      /\ written = [i \in 1..n |-> written[i]]
  BY DEF TableInv, RunOK
<1>2. /\ written' = [i \in 1..(n + 1) |-> IF i = n + 1 THEN fed ELSE written[i]]
      /\ Len(written') = n + 1
  <2>1. written \in Seq(Range(written))
    BY <1>1 DEF Range
  <2>2. /\ Len(written') = n + 1 /\ DOMAIN written' = 1..(n + 1) /\ written'[n + 1] = fed
        /\ \A i \in 1..n : written'[i] = written[i]
    BY <2>1
  <2>3. written' \in Seq(Range(written) \cup {fed})
    BY <2>1
  <2>4. written' = [i \in 1..(n + 1) |-> written'[i]]
    BY <2>2, <2>3, <1>1, SeqIsFunction
  <2>5. \A i \in 1..(n + 1) : written'[i] = IF i = n + 1 THEN fed ELSE written[i]
    BY <2>2, <1>1
  <2> HIDE DEF n
  <2> QED BY <2>2, <2>4, <2>5
<1>3. ASSUME NEW s \in Stocks, s \in OnAList(fed)
      PROVE  /\ market'[s] = [d \in Days |-> market'[s][d]]
             /\ market'[s][fed.day] = MergedRow(market[s][fed.day], Built(fed, s), fed.ok)
             /\ \A d \in Days : d # fed.day => market'[s][d] = market[s][d]
  <2>1. market[s] = [d \in Days |-> market[s][d]]
    BY DEF TableInv
  <2>2. market'[s] = [market[s] EXCEPT ![fed.day] = MergedRow(@, Built(fed, s), fed.ok)]
    BY <1>3
  <2> QED BY <2>1, <2>2, <1>1
<1>4. ASSUME NEW s \in Stocks, s \notin OnAList(fed)
      PROVE  market'[s] = market[s] /\ market'[s] = [d \in Days |-> market'[s][d]]
  BY <1>4 DEF TableInv
<1>5. market' = [s \in Stocks |-> [d \in Days |-> market'[s][d]]]
  BY <1>3, <1>4
<1>6. ASSUME NEW s \in Stocks, NEW d \in Days
      PROVE  RowOK(market'[s][d], d) /\ RowKept(market'[s][d], written', s, d)
  <2>1. RowOK(market[s][d], d) /\ RowKept(market[s][d], written, s, d)
    BY DEF TableInv
  <2>2. CASE s \in OnAList(fed) /\ d = fed.day
    <3>1. RowOK(market[s][fed.day], fed.day) /\ RowKept(market[s][fed.day], written, s, fed.day)
      BY <2>1, <2>2
    <3> HIDE DEF n
    <3>2. LET new == MergedRow(market[s][fed.day], Built(fed, s), fed.ok)
          IN  RowOK(new, fed.day) /\ RowKept(new, written', s, fed.day)
      BY <3>1, <2>2, <1>1, <1>2, RowMerged
    <3> QED BY <3>2, <2>2, <1>3
  <2>3. CASE s \notin OnAList(fed) \/ d # fed.day
    <3>1. market'[s][d] = market[s][d]
      BY <2>3, <1>3, <1>4
    <3>2. RowKept(market[s][d], written', s, d)
      BY <2>1, <2>3, <1>1, <1>2, RowLeft
    <3> QED BY <2>1, <3>1, <3>2
  <2> QED BY <2>2, <2>3
<1>7. /\ \A i \in 1..Len(written') : RunOK(written'[i])
      /\ written' = [i \in 1..Len(written') |-> written'[i]] /\ Len(written') \in Nat
  BY <1>1, <1>2 DEF TableInv
<1> QED BY <1>5, <1>6, <1>7 DEF TableInv

-----------------------------------------------------------------------------
(* The readers.                                                            *)

LookupFields == {"at", "asked", "of", "type", "state", "came", "verdict"}

\* What the tables held at time t, as h remembers it.
TypeHeld(h, t, s, type) == type \in h[t][s].types
StateHeld(h, t, s, state) == state \in h[t][s].states

\* Within the life of a profile before time n.
Lately(h, n, s, type, state) ==
  /\ \E t \in 0..n : t > n - ProfileTicks /\ TypeHeld(h, t, s, type)
  /\ \/ state = NoState
     \/ \E t \in 0..n : t > n - ProfileTicks /\ StateHeld(h, t, s, state)

\* What a reader may go by.
Grounds(c, h, n, s, type, state) ==
  IF c \in Routers THEN Lately(h, n, s, type, state)
  ELSE TypeHeld(h, n, s, type) /\ StateHeld(h, n, s, state)

Gives(c, type, state) ==
  IF c \in Routers THEN Routed(type, state, TRUE) ELSE Hints(type, state)

LookupOK(c, l, h, n) ==
  /\ l = [x \in LookupFields |-> l[x]]
  /\ l.at \in {"idle", "company", "store", "answered"}
  /\ l.at # "idle" => l.of \in Stocks
  /\ l.at = "company" => TypeHeld(h, n, l.of, l.type)
  /\ l.at = "store" => /\ c \in Routers /\ TypeHeld(h, n, l.of, l.type)
                       /\ l.state = NoState \/ StateHeld(h, n, l.of, l.state)
  /\ l.at = "answered" => Grounds(c, h, n, l.of, l.type, l.state)
  /\ (l.at = "idle" /\ l.came) =>
       /\ l.of \in Stocks
       /\ \E type, state : Grounds(c, h, n, l.of, type, state) /\ l.verdict = Gives(c, type, state)

ProfileOK(p, h, n, s) ==
  /\ p.until \in 0..(MaxTicks + ProfileTicks)
  /\ n < p.until =>
       \E t \in 0..n : /\ p.until = t + ProfileTicks /\ TypeHeld(h, t, s, p.type)
                       /\ p.state = NoState \/ StateHeld(h, t, s, p.state)

ReadersInv ==
  /\ ticks \in 0..MaxTicks
  /\ held = [t \in 0..MaxTicks |-> held[t]]
  /\ \A s \in Stocks : /\ TypeHeld(held, ticks, s, types[s])
                        /\ StateHeld(held, ticks, s, NewestState(market, s))
  /\ profiles = [s \in Stocks |-> profiles[s]]
  /\ \A s \in Stocks : ProfileOK(profiles[s], held, ticks, s)
  /\ lookup = [c \in Readers |-> lookup[c]]
  /\ \A c \in Readers : LookupOK(c, lookup[c], held, ticks)
  /\ stateFaults \in 0..MaxStateFaults

\* A later history of the same times.
Grew(h, h2, n) ==
  \A t \in 0..n, s \in Stocks : h[t][s].types \subseteq h2[t][s].types
                               /\ h[t][s].states \subseteq h2[t][s].states

LEMMA GroundsGrow ==
  ASSUME NEW h, NEW h2, NEW n \in Nat, Grew(h, h2, n), NEW c, NEW s \in Stocks,
         NEW type, NEW state, Grounds(c, h, n, s, type, state)
  PROVE  Grounds(c, h2, n, s, type, state)
<1>1. n \in 0..n
  OBVIOUS
<1>2. CASE c \in Routers
  BY <1>2 DEF Grounds, Lately, TypeHeld, StateHeld, Grew
<1>3. CASE c \notin Routers
  BY <1>1, <1>3 DEF Grounds, TypeHeld, StateHeld, Grew
<1> QED BY <1>2, <1>3

LEMMA LookupGrows ==
  ASSUME NEW h, NEW h2, NEW n \in Nat, Grew(h, h2, n), NEW c, NEW l, LookupOK(c, l, h, n)
  PROVE  LookupOK(c, l, h2, n)
<1>1. n \in 0..n
  OBVIOUS
<1>2. \A s \in Stocks : \A x : /\ TypeHeld(h, n, s, x) => TypeHeld(h2, n, s, x)
                               /\ StateHeld(h, n, s, x) => StateHeld(h2, n, s, x)
  BY <1>1 DEF TypeHeld, StateHeld, Grew
<1>3. \A s \in Stocks : \A type, state :
        Grounds(c, h, n, s, type, state) => Grounds(c, h2, n, s, type, state)
  BY GroundsGrow
<1> QED BY <1>2, <1>3 DEF LookupOK

LEMMA ProfileGrows ==
  ASSUME NEW h, NEW h2, NEW n \in Nat, Grew(h, h2, n), NEW s \in Stocks, NEW p,
         ProfileOK(p, h, n, s)
  PROVE  ProfileOK(p, h2, n, s)
BY DEF ProfileOK, TypeHeld, StateHeld, Grew

LEMMA HeldRecorded ==
  ASSUME ReadersInv, NEW table, NEW columns, Recorded(table, columns)
  PROVE  /\ Grew(held, held', ticks) /\ held' = [t \in 0..MaxTicks |-> held'[t]]
         /\ \A s \in Stocks : /\ TypeHeld(held', ticks, s, columns[s])
                               /\ StateHeld(held', ticks, s, NewestState(table, s))
<1> DEFINE row == [s \in Stocks |->
             [types  |-> held[ticks][s].types \cup {columns[s]},
              states |-> held[ticks][s].states \cup {NewestState(table, s)}]]
<1>1. held' = [held EXCEPT ![ticks] = row]
  BY DEF Recorded
<1>2. /\ held'[ticks] = row /\ \A t \in 0..MaxTicks : t # ticks => held'[t] = held[t]
      /\ held' = [t \in 0..MaxTicks |-> held'[t]]
  BY <1>1 DEF ReadersInv
<1>3. \A s \in Stocks : /\ row[s].types = held[ticks][s].types \cup {columns[s]}
                        /\ row[s].states = held[ticks][s].states \cup {NewestState(table, s)}
  OBVIOUS
<1> HIDE DEF row
<1>4. \A t \in 0..ticks : t \in 0..MaxTicks
  BY ClassConstants DEF ReadersInv
<1>5. Grew(held, held', ticks)
  <2> SUFFICES ASSUME NEW t \in 0..ticks, NEW s \in Stocks
               PROVE  /\ held[t][s].types \subseteq held'[t][s].types
                      /\ held[t][s].states \subseteq held'[t][s].states
    BY DEF Grew
  <2>1. CASE t = ticks
    BY <2>1, <1>2, <1>3
  <2>2. CASE t # ticks
    BY <2>2, <1>2, <1>4
  <2> QED BY <2>1, <2>2
<1> QED BY <1>2, <1>3, <1>5 DEF TypeHeld, StateHeld

LEMMA ReaderProceeds ==
  ASSUME ReadersInv, NEW c \in Readers, NEW l, LookupOK(c, l, held, ticks), Proceeds(c, l)
  PROVE  /\ lookup' = [r \in Readers |-> lookup'[r]]
         /\ \A r \in Readers : LookupOK(r, lookup'[r], held, ticks)
<1>1. lookup' = [lookup EXCEPT ![c] = l]
  BY DEF Proceeds
<1>2. lookup'[c] = l /\ \A r \in Readers : r # c => lookup'[r] = lookup[r]
  BY <1>1 DEF ReadersInv
<1>3. lookup' = [r \in Readers |-> lookup'[r]]
  BY <1>1 DEF ReadersInv
<1> QED BY <1>2, <1>3 DEF ReadersInv

LEMMA NoLookupOK ==
  ASSUME NEW c, NEW h, NEW n, NEW sought
  PROVE  LookupOK(c, [NoLookup EXCEPT !.asked = sought], h, n)
<1> DEFINE l == [NoLookup EXCEPT !.asked = sought]
<1>1. l = [x \in LookupFields |-> l[x]] /\ l.at = "idle" /\ l.came = FALSE
  BY DEF NoLookup, LookupFields
<1> HIDE DEF l
<1>2. LookupOK(c, l, h, n)
  BY <1>1 DEF LookupOK
<1> QED BY <1>2 DEF l

\* What is left alone by a step of one reader.
Rest == <<market, fetched, types, ticks, written, held>>

LEMMA FaultCounted ==
  ASSUME stateFaults \in 0..MaxStateFaults, StateFault
  PROVE  stateFaults' \in 0..MaxStateFaults
BY ClassConstants DEF StateFault

LEMMA ReaderKept ==
  ASSUME ReadersInv, NEW c \in Readers, NEW l, LookupOK(c, l, held, ticks), Proceeds(c, l),
         UNCHANGED Rest, UNCHANGED profiles, StateFault \/ UNCHANGED stateFaults
  PROVE  ReadersInv'
<1>1. stateFaults' \in 0..MaxStateFaults
  BY FaultCounted DEF ReadersInv
<1>2. /\ lookup' = [r \in Readers |-> lookup'[r]]
      /\ \A r \in Readers : LookupOK(r, lookup'[r], held, ticks)
  BY ReaderProceeds
<1>3. \A s : NewestState(market', s) = NewestState(market, s)
  BY DEF Rest
<1> QED BY <1>1, <1>2, <1>3 DEF Rest, ReadersInv

LEMMA LookKept ==
  ASSUME ReadersInv, NEW c \in Readers, Look(c)
  PROVE  ReadersInv'
<1>1. PICK s \in Stocks :
       \/ /\ c \in Routers /\ ticks < profiles[s].until
          /\ Proceeds(c, [lookup[c] EXCEPT !.at = "answered", !.of = s,
                            !.type = profiles[s].type, !.state = profiles[s].state])
          /\ UNCHANGED stateFaults
       \/ /\ IF c \in Routers /\ ticks < profiles[s].until THEN StateFault ELSE UNCHANGED stateFaults
          /\ Proceeds(c, [lookup[c] EXCEPT !.at = "company", !.of = s, !.type = types[s]])
  BY DEF Look
<1>2. UNCHANGED Rest /\ UNCHANGED profiles
  BY DEF Look, Rest
<1>3. lookup[c] = [x \in LookupFields |-> lookup[c][x]]
  BY DEF ReadersInv, LookupOK
<1>4. CASE /\ c \in Routers /\ ticks < profiles[s].until
           /\ Proceeds(c, [lookup[c] EXCEPT !.at = "answered", !.of = s,
                             !.type = profiles[s].type, !.state = profiles[s].state])
           /\ UNCHANGED stateFaults
  <2> DEFINE l == [lookup[c] EXCEPT !.at = "answered", !.of = s,
                     !.type = profiles[s].type, !.state = profiles[s].state]
  <2>1. /\ l = [x \in LookupFields |-> l[x]] /\ l.at = "answered" /\ l.of = s
        /\ l.type = profiles[s].type /\ l.state = profiles[s].state
    BY <1>3 DEF LookupFields
  <2> HIDE DEF l
  <2>2. PICK t \in 0..ticks :
          /\ profiles[s].until = t + ProfileTicks /\ TypeHeld(held, t, s, profiles[s].type)
          /\ profiles[s].state = NoState \/ StateHeld(held, t, s, profiles[s].state)
    BY <1>4 DEF ReadersInv, ProfileOK
  <2>3. t > ticks - ProfileTicks
    BY <2>2, <1>4, ClassConstants DEF ReadersInv
  <2>4. Grounds(c, held, ticks, s, l.type, l.state)
    BY <2>1, <2>2, <2>3, <1>4 DEF Grounds, Lately
  <2>5. LookupOK(c, l, held, ticks)
    BY <2>1, <2>4 DEF LookupOK
  <2> QED BY <2>5, <1>2, <1>4, ReaderKept DEF l
<1>5. CASE /\ IF c \in Routers /\ ticks < profiles[s].until THEN StateFault ELSE UNCHANGED stateFaults
           /\ Proceeds(c, [lookup[c] EXCEPT !.at = "company", !.of = s, !.type = types[s]])
  <2> DEFINE l == [lookup[c] EXCEPT !.at = "company", !.of = s, !.type = types[s]]
  <2>1. l = [x \in LookupFields |-> l[x]] /\ l.at = "company" /\ l.of = s /\ l.type = types[s]
    BY <1>3 DEF LookupFields
  <2> HIDE DEF l
  <2>2. LookupOK(c, l, held, ticks)
    BY <2>1 DEF LookupOK, ReadersInv
  <2> QED BY <2>2, <1>2, <1>5, ReaderKept DEF l
<1> QED BY <1>1, <1>4, <1>5

LEMMA ReadStateKept ==
  ASSUME ReadersInv, NEW c \in Readers, ReadState(c)
  PROVE  ReadersInv'
<1>1. lookup[c].at = "company" /\ UNCHANGED Rest /\ UNCHANGED profiles
  BY DEF ReadState, StandsAt, Rest
<1>2. /\ lookup[c] = [x \in LookupFields |-> lookup[c][x]] /\ lookup[c].of \in Stocks
      /\ TypeHeld(held, ticks, lookup[c].of, lookup[c].type)
  BY <1>1 DEF ReadersInv, LookupOK
<1>3. ASSUME NEW at \in {"store", "answered"}, NEW state,
             at = "store" => c \in Routers, at = "answered" => c \notin Routers,
             (state = NoState /\ c \in Routers) \/ state = NewestState(market, lookup[c].of)
      PROVE  LookupOK(c, [lookup[c] EXCEPT !.at = at, !.state = state], held, ticks)
  <2> DEFINE l == [lookup[c] EXCEPT !.at = at, !.state = state]
  <2>1. /\ l = [x \in LookupFields |-> l[x]] /\ l.at = at /\ l.of = lookup[c].of
        /\ l.type = lookup[c].type /\ l.state = state
    BY <1>2 DEF LookupFields
  <2> HIDE DEF l
  <2>2. (state = NoState /\ c \in Routers) \/ StateHeld(held, ticks, l.of, state)
    BY <1>2, <1>3, <2>1 DEF ReadersInv
  <2>3. LookupOK(c, l, held, ticks)
    BY <2>1, <2>2, <1>2, <1>3 DEF LookupOK, Grounds
  <2> QED BY <2>3 DEF l
<1>4. CASE /\ Proceeds(c, [lookup[c] EXCEPT !.at = IF c \in Routers THEN "store" ELSE "answered",
                                            !.state = NewestState(market, lookup[c].of)])
           /\ UNCHANGED stateFaults
  <2>1. (IF c \in Routers THEN "store" ELSE "answered") \in {"store", "answered"}
    OBVIOUS
  <2> QED BY <2>1, <1>1, <1>3, <1>4, ReaderKept
<1>5. CASE /\ c \in Routers /\ StateFault
           /\ Proceeds(c, [lookup[c] EXCEPT !.at = "store", !.state = NoState])
  BY <1>1, <1>3, <1>5, ReaderKept
<1> QED BY <1>4, <1>5 DEF ReadState

LEMMA StoreProfileKept ==
  ASSUME ReadersInv, NEW c \in Readers, StoreProfile(c)
  PROVE  ReadersInv'
<1>1. /\ lookup[c].at = "store" /\ UNCHANGED Rest
      /\ Proceeds(c, [lookup[c] EXCEPT !.at = "answered"])
  BY DEF StoreProfile, StandsAt, Rest
<1>2. /\ lookup[c] = [x \in LookupFields |-> lookup[c][x]] /\ lookup[c].of \in Stocks
      /\ TypeHeld(held, ticks, lookup[c].of, lookup[c].type) /\ c \in Routers
      /\ lookup[c].state = NoState \/ StateHeld(held, ticks, lookup[c].of, lookup[c].state)
  BY <1>1 DEF ReadersInv, LookupOK
<1>3. ticks \in Nat /\ ticks \in 0..ticks /\ ticks > ticks - ProfileTicks /\ ticks <= MaxTicks
  BY ClassConstants DEF ReadersInv
<1> DEFINE l == [lookup[c] EXCEPT !.at = "answered"]
<1>4. /\ l = [x \in LookupFields |-> l[x]] /\ l.at = "answered" /\ l.of = lookup[c].of
      /\ l.type = lookup[c].type /\ l.state = lookup[c].state
  BY <1>2 DEF LookupFields
<1> HIDE DEF l
<1>5. Grounds(c, held, ticks, l.of, l.type, l.state)
  BY <1>2, <1>3, <1>4 DEF Grounds, Lately
<1>6. LookupOK(c, l, held, ticks)
  BY <1>2, <1>4, <1>5 DEF LookupOK
<1>7. CASE StateFault /\ UNCHANGED profiles
  BY <1>1, <1>6, <1>7, ReaderKept DEF l
<1>8. CASE /\ profiles' = [profiles EXCEPT ![lookup[c].of] =
                         [until |-> ticks + ProfileTicks, type |-> lookup[c].type,
                          state |-> lookup[c].state]]
           /\ UNCHANGED stateFaults
  <2> DEFINE p == [until |-> ticks + ProfileTicks, type |-> lookup[c].type,
                   state |-> lookup[c].state]
  <2>1. /\ p.until = ticks + ProfileTicks /\ p.type = lookup[c].type
        /\ p.state = lookup[c].state
    OBVIOUS
  <2> HIDE DEF p
  <2>2. ticks + ProfileTicks \in 0..(MaxTicks + ProfileTicks)
    BY <1>3, ClassConstants
  <2>3. ProfileOK(p, held, ticks, lookup[c].of)
    BY <2>1, <2>2, <1>2, <1>3 DEF ProfileOK
  <2>4. /\ profiles' = [s \in Stocks |-> profiles'[s]]
        /\ \A s \in Stocks : ProfileOK(profiles'[s], held, ticks, s)
    <3>1. profiles' = [profiles EXCEPT ![lookup[c].of] = p]
      BY <1>8 DEF p
    <3>2. /\ profiles'[lookup[c].of] = p
          /\ \A s \in Stocks : s # lookup[c].of => profiles'[s] = profiles[s]
          /\ profiles' = [s \in Stocks |-> profiles'[s]]
      BY <3>1, <1>2 DEF ReadersInv
    <3> QED BY <3>2, <2>3 DEF ReadersInv
  <2>5. /\ lookup' = [r \in Readers |-> lookup'[r]]
        /\ \A r \in Readers : LookupOK(r, lookup'[r], held, ticks)
    BY <1>1, <1>6, ReaderProceeds DEF l
  <2>6. \A s : NewestState(market', s) = NewestState(market, s)
    BY <1>1 DEF Rest
  <2> QED BY <2>4, <2>5, <2>6, <1>1, <1>8 DEF ReadersInv, Rest
<1> QED BY <1>7, <1>8 DEF StoreProfile

LEMMA TakeVerdictKept ==
  ASSUME ReadersInv, NEW c \in Readers, TakeVerdict(c)
  PROVE  ReadersInv'
<1>1. lookup[c].at = "answered" /\ UNCHANGED Rest /\ UNCHANGED profiles /\ UNCHANGED stateFaults
  BY DEF TakeVerdict, StandsAt, Rest
<1>2. /\ lookup[c].of \in Stocks
      /\ Grounds(c, held, ticks, lookup[c].of, lookup[c].type, lookup[c].state)
  BY <1>1 DEF ReadersInv, LookupOK
<1>3. PICK came \in BOOLEAN :
       Proceeds(c, [NoLookup EXCEPT
         !.asked = lookup[c].asked + 1, !.of = lookup[c].of, !.came = came,
         !.verdict = IF c \in Routers THEN Routed(lookup[c].type, lookup[c].state, came)
                     ELSE IF came THEN Hints(lookup[c].type, lookup[c].state) ELSE {}])
  BY DEF TakeVerdict
<1> DEFINE verdict == IF c \in Routers THEN Routed(lookup[c].type, lookup[c].state, came)
                      ELSE IF came THEN Hints(lookup[c].type, lookup[c].state) ELSE {}
           l == [NoLookup EXCEPT !.asked = lookup[c].asked + 1, !.of = lookup[c].of,
                                 !.came = came, !.verdict = verdict]
<1>4. came => verdict = Gives(c, lookup[c].type, lookup[c].state)
  <2>1. CASE came = TRUE
    BY <2>1 DEF Gives
  <2> QED BY <2>1
<1> HIDE DEF verdict
<1>5. /\ l = [x \in LookupFields |-> l[x]] /\ l.at = "idle" /\ l.of = lookup[c].of
      /\ l.came = came /\ l.verdict = verdict
  BY DEF NoLookup, LookupFields
<1> HIDE DEF l
<1>6. CASE came
  <2>1. LookupOK(c, l, held, ticks)
    BY <1>2, <1>4, <1>5, <1>6 DEF LookupOK
  <2> QED BY <2>1, <1>1, <1>3, ReaderKept DEF l, verdict
<1>7. CASE ~came
  <2>1. LookupOK(c, l, held, ticks)
    BY <1>5, <1>7 DEF LookupOK
  <2> QED BY <2>1, <1>1, <1>3, ReaderKept DEF l, verdict
<1> QED BY <1>6, <1>7

LEMMA DropProfileKept ==
  ASSUME ReadersInv, DropProfile
  PROVE  ReadersInv'
<1>1. PICK s \in Stocks : profiles' = [profiles EXCEPT ![s] = NoProfile]
  BY DEF DropProfile
<1>2. /\ profiles'[s] = NoProfile /\ profiles' = [x \in Stocks |-> profiles'[x]]
      /\ \A x \in Stocks : x # s => profiles'[x] = profiles[x]
  BY <1>1 DEF ReadersInv
<1>3. ProfileOK(NoProfile, held, ticks, s)
  BY ClassConstants DEF ProfileOK, NoProfile, ReadersInv
<1>4. \A x : NewestState(market', x) = NewestState(market, x)
  BY DEF DropProfile
<1>5. \A x \in Stocks : ProfileOK(profiles'[x], held, ticks, x)
  BY <1>2, <1>3 DEF ReadersInv
<1> QED BY <1>2, <1>4, <1>5 DEF ReadersInv, DropProfile

LEMMA TickKept ==
  ASSUME ReadersInv, Tick
  PROVE  ReadersInv'
<1> DEFINE row == [s \in Stocks |-> [types |-> {types[s]}, states |-> {NewestState(market, s)}]]
<1>1. /\ ticks < MaxTicks /\ ticks' = ticks + 1 /\ ticks \in 0..MaxTicks /\ ticks' \in 0..MaxTicks
      /\ UNCHANGED <<market, types, stateFaults>>
  BY ClassConstants DEF Tick, ReadersInv
<1>2. held' = [held EXCEPT ![ticks'] = row]
  BY DEF Tick
<1>3. /\ held'[ticks'] = row /\ held' = [t \in 0..MaxTicks |-> held'[t]]
      /\ \A t \in 0..ticks : held'[t] = held[t]
  <2>1. \A t \in 0..ticks : t \in 0..MaxTicks /\ t # ticks'
    BY <1>1, ClassConstants
  <2> HIDE DEF row
  <2> QED BY <1>1, <1>2, <2>1 DEF ReadersInv
<1>4. \A s \in Stocks : types[s] \in row[s].types /\ NewestState(market, s) \in row[s].states
  OBVIOUS
<1> HIDE DEF row
<1>5. \A s \in Stocks : /\ TypeHeld(held', ticks', s, types'[s])
                        /\ StateHeld(held', ticks', s, NewestState(market', s))
  BY <1>1, <1>3, <1>4 DEF TypeHeld, StateHeld
<1>6. /\ profiles' = [s \in Stocks |-> profiles'[s]]
      /\ \A s \in Stocks : profiles'[s] = IF profiles[s].until <= ticks' THEN NoProfile ELSE profiles[s]
  BY DEF Tick
<1>7. ASSUME NEW s \in Stocks PROVE ProfileOK(profiles'[s], held', ticks', s)
  <2>1. CASE profiles[s].until <= ticks'
    <3>1. profiles'[s] = NoProfile
      BY <1>6, <2>1
    <3> QED BY <3>1, <1>1, ClassConstants DEF ProfileOK, NoProfile
  <2>2. CASE ~(profiles[s].until <= ticks')
    <3>1. profiles'[s] = profiles[s] /\ ProfileOK(profiles[s], held, ticks, s)
      BY <1>6, <2>2 DEF ReadersInv
    <3>2. ticks < profiles[s].until /\ \A t \in 0..ticks : t \in 0..ticks'
      BY <2>2, <3>1, <1>1, ClassConstants DEF ProfileOK
    <3>3. PICK t \in 0..ticks :
            /\ profiles[s].until = t + ProfileTicks /\ TypeHeld(held, t, s, profiles[s].type)
            /\ profiles[s].state = NoState \/ StateHeld(held, t, s, profiles[s].state)
      BY <3>1, <3>2 DEF ProfileOK
    <3>4. /\ TypeHeld(held', t, s, profiles[s].type) /\ t \in 0..ticks'
          /\ profiles[s].state = NoState \/ StateHeld(held', t, s, profiles[s].state)
      BY <3>2, <3>3, <1>3 DEF TypeHeld, StateHeld
    <3>5. profiles[s].until \in 0..(MaxTicks + ProfileTicks)
      BY <3>1 DEF ProfileOK
    <3> QED BY <3>1, <3>3, <3>4, <3>5 DEF ProfileOK
  <2> QED BY <2>1, <2>2
<1>8. /\ lookup' = [c \in Readers |-> lookup'[c]]
      /\ \A c \in Readers : LookupOK(c, lookup'[c], held', ticks')
  BY NoLookupOK DEF Tick
<1> QED BY <1>1, <1>3, <1>5, <1>6, <1>7, <1>8 DEF ReadersInv

\* The jobs: what is recorded is what the tables hold from now on.
LEMMA RecordedKept ==
  ASSUME ReadersInv, Recorded(market', types'), UNCHANGED <<profiles, lookup, ticks, stateFaults>>
  PROVE  ReadersInv'
<1>1. /\ Grew(held, held', ticks) /\ held' = [t \in 0..MaxTicks |-> held'[t]]
      /\ \A s \in Stocks : /\ TypeHeld(held', ticks, s, types'[s])
                            /\ StateHeld(held', ticks, s, NewestState(market', s))
  BY HeldRecorded
<1>2. ticks \in Nat
  BY ClassConstants DEF ReadersInv
<1>3. \A s \in Stocks : ProfileOK(profiles[s], held', ticks, s)
  BY <1>1, <1>2, ProfileGrows DEF ReadersInv
<1>4. \A c \in Readers : LookupOK(c, lookup[c], held', ticks)
  BY <1>1, <1>2, LookupGrows DEF ReadersInv
<1> QED BY <1>1, <1>3, <1>4 DEF ReadersInv

LEMMA NothingRead ==
  ASSUME ReadersInv, UNCHANGED <<market, types, profiles, lookup, ticks, held>>,
         StateFault \/ UNCHANGED stateFaults
  PROVE  ReadersInv'
<1>1. stateFaults' \in 0..MaxStateFaults
  BY FaultCounted DEF ReadersInv
<1>2. \A s : NewestState(market', s) = NewestState(market, s)
  OBVIOUS
<1> QED BY <1>1, <1>2 DEF ReadersInv

ClassInv == TableInv /\ ReadersInv

LEMMA ClassStepKept ==
  ASSUME ClassInv, ClassificationNext
  PROVE  ClassInv'
<1>0. TableInv /\ ReadersInv
  BY DEF ClassInv
<1>1. CASE FetchFeeds
  <2>1. \A fed \in fetched' : RunOK(fed)
    BY <1>0, <1>1, FetchedOK
  <2>2. TableInv'
    BY <1>0, <1>1, <2>1 DEF TableInv, FetchFeeds
  <2>3. ReadersInv'
    BY <1>0, <1>1, NothingRead DEF FetchFeeds
  <2> QED BY <2>2, <2>3 DEF ClassInv
<1>2. CASE UpsertRows
  <2>1. PICK fed \in fetched :
       /\ fetched' = fetched \ {fed}
       /\ \/ /\ market' = [s \in Stocks |->
                  IF s \notin OnAList(fed) THEN market[s]
                  ELSE [market[s] EXCEPT ![fed.day] = MergedRow(@, Built(fed, s), fed.ok)]]
             /\ written' = Append(written, fed)
             /\ Recorded(market', types)
             /\ UNCHANGED stateFaults
          \/ StateFault /\ UNCHANGED <<market, written, held>>
    BY <1>2 DEF UpsertRows
  <2>2. UNCHANGED <<types, typeRun, profiles, lookup, ticks>>
    BY <1>2 DEF UpsertRows
  <2>3. CASE /\ market' = [s \in Stocks |->
                  IF s \notin OnAList(fed) THEN market[s]
                  ELSE [market[s] EXCEPT ![fed.day] = MergedRow(@, Built(fed, s), fed.ok)]]
             /\ written' = Append(written, fed)
             /\ Recorded(market', types)
             /\ UNCHANGED stateFaults
    <3>1. TableInv'
      BY <1>0, <2>1, <2>2, <2>3, TableKept
    <3>2. Recorded(market', types')
      BY <2>2, <2>3
    <3>3. ReadersInv'
      BY <1>0, <2>2, <2>3, <3>2, RecordedKept
    <3> QED BY <3>1, <3>3 DEF ClassInv
  <2>4. CASE StateFault /\ UNCHANGED <<market, written, held>>
    <3>1. TableInv'
      BY <1>0, <2>1, <2>2, <2>4 DEF TableInv
    <3>2. ReadersInv'
      BY <1>0, <2>2, <2>4, NothingRead
    <3> QED BY <3>1, <3>2 DEF ClassInv
  <2> QED BY <2>1, <2>3, <2>4
<1>3. CASE ComputeTypes
  <2>1. TableInv'
    BY <1>0, <1>3 DEF TableInv, ComputeTypes
  <2>2. ReadersInv'
    BY <1>0, <1>3, NothingRead DEF ComputeTypes
  <2> QED BY <2>1, <2>2 DEF ClassInv
<1>4. CASE WriteTypes
  <2>1. TableInv'
    BY <1>0, <1>4 DEF TableInv, WriteTypes
  <2>2. UNCHANGED <<market, profiles, lookup, ticks>>
    BY <1>4 DEF WriteTypes
  <2>3. CASE Recorded(market, types') /\ UNCHANGED stateFaults
    <3>1. Recorded(market', types')
      BY <2>2, <2>3
    <3> QED BY <1>0, <2>1, <2>2, <2>3, <3>1, RecordedKept DEF ClassInv
  <2>4. CASE StateFault /\ UNCHANGED <<types, held>>
    BY <1>0, <2>1, <2>2, <2>4, NothingRead DEF ClassInv
  <2> QED BY <1>4, <2>3, <2>4 DEF WriteTypes
<1>5. ASSUME NEW c \in Readers, Look(c) \/ ReadState(c) \/ StoreProfile(c) \/ TakeVerdict(c)
      PROVE  ClassInv'
  <2>1. TableInv'
    <3>1. UNCHANGED <<market, fetched, ticks, written>>
      BY <1>5 DEF Look, ReadState, StoreProfile, TakeVerdict
    <3> QED BY <1>0, <3>1 DEF TableInv
  <2>2. ReadersInv'
    BY <1>0, <1>5, LookKept, ReadStateKept, StoreProfileKept, TakeVerdictKept
  <2> QED BY <2>1, <2>2 DEF ClassInv
<1>6. CASE DropProfile
  <2>1. TableInv'
    BY <1>0, <1>6 DEF TableInv, DropProfile
  <2> QED BY <1>0, <1>6, <2>1, DropProfileKept DEF ClassInv
<1>7. CASE Tick
  <2>1. ReadersInv'
    BY <1>0, <1>7, TickKept
  <2>2. TableInv'
    BY <1>0, <1>7, <2>1 DEF TableInv, ReadersInv, Tick
  <2> QED BY <2>1, <2>2 DEF ClassInv
<1> QED BY <1>1, <1>2, <1>3, <1>4, <1>5, <1>6, <1>7 DEF ClassificationNext

LEMMA ClassInitOK == ClassificationInit => ClassInv
<1> SUFFICES ASSUME ClassificationInit PROVE ClassInv
  OBVIOUS
<1>1. /\ market = [s \in Stocks |-> [d \in Days |-> NoState]] /\ fetched = {}
      /\ written = <<>> /\ ticks = 0 /\ types = [s \in Stocks |-> NoType]
      /\ profiles = [s \in Stocks |-> NoProfile] /\ stateFaults = 0
      /\ lookup = [c \in Readers |-> NoLookup]
      /\ held = [t \in 0..MaxTicks |-> [s \in Stocks |->
           [types |-> IF t = 0 THEN {NoType} ELSE {}, states |-> IF t = 0 THEN {NoState} ELSE {}]]]
  BY DEF ClassificationInit
<1>2. \A s, d : Saw(<<>>, s, d) = {}
  BY DEF Saw
<1>3. TableInv
  <2>1. ticks \in 0..MaxTicks
    BY <1>1, ClassConstants
  <2>2. /\ Len(written) = 0 /\ written = [i \in 1..Len(written) |-> written[i]]
    BY <1>1
  <2>3. \A s \in Stocks, d \in Days : market[s][d] = NoState
    BY <1>1
  <2>4. market = [s \in Stocks |-> [d \in Days |-> market[s][d]]]
    BY <1>1
  <2> QED BY <1>1, <1>2, <2>1, <2>2, <2>3, <2>4 DEF TableInv, RowOK, RowKept
<1>4. ASSUME NEW s \in Stocks PROVE NewestState(market, s) = NoState
  <2>1. \A d \in Days : market[s][d] = NoState
    BY <1>1
  <2> QED BY <2>1 DEF NewestState
<1>5. 0 \in 0..MaxTicks
  BY ClassConstants
<1>6. \A s \in Stocks : held[0][s].types = {NoType} /\ held[0][s].states = {NoState}
  BY <1>1, <1>5
<1>7. \A s \in Stocks : /\ TypeHeld(held, ticks, s, types[s])
                        /\ StateHeld(held, ticks, s, NewestState(market, s))
  BY <1>1, <1>4, <1>6 DEF TypeHeld, StateHeld
<1>8. \A s \in Stocks : ProfileOK(profiles[s], held, ticks, s)
  BY <1>1, ClassConstants DEF ProfileOK, NoProfile
<1>9. ASSUME NEW c PROVE LookupOK(c, NoLookup, held, ticks)
  <2>1. NoLookup = [x \in LookupFields |-> NoLookup[x]] /\ NoLookup.at = "idle" /\ NoLookup.came = FALSE
    BY DEF NoLookup, LookupFields
  <2> QED BY <2>1 DEF LookupOK
<1>10. held = [t \in 0..MaxTicks |-> held[t]]
  BY <1>1
<1>11. stateFaults \in 0..MaxStateFaults /\ ticks \in 0..MaxTicks
  BY <1>1, ClassConstants
<1>12. ReadersInv
  BY <1>1, <1>7, <1>8, <1>9, <1>10, <1>11 DEF ReadersInv
<1> QED BY <1>3, <1>12 DEF ClassInv

\* The table keeps what each feed last said and whoever was answered goes by
\* what the tables held (kb/sync/market_state_sync.py, upsert_rows; kb/api.py,
\* get_company; grounding/queries.py).
THEOREM ClassificationInvariant == ClassificationSpec => []ClassInv
<1>1. ClassInv /\ UNCHANGED classVars => ClassInv'
  <2> SUFFICES ASSUME ClassInv, UNCHANGED classVars PROVE ClassInv'
    OBVIOUS
  <2>1. TableInv'
    BY DEF ClassInv, TableInv, classVars
  <2>2. ReadersInv'
    BY NothingRead DEF ClassInv, classVars
  <2> QED BY <2>1, <2>2 DEF ClassInv
<1>2. ClassInv /\ [ClassificationNext]_classVars => ClassInv'
  BY <1>1, ClassStepKept
<1> QED BY <1>2, ClassInitOK, PTL DEF ClassificationSpec

LEMMA FeedsKeptFollows == ASSUME TableInv PROVE FeedsKept
BY DEF TableInv, RowKept, Saw, Heard, FeedsKept

\* The first tick that a reader may go back to.
LEMMA SinceIs ==
  ASSUME NEW n \in Nat
  PROVE  LET since == Max({0, n - ProfileTicks + 1})
         IN  since \in 0..n /\ \A t \in 0..n : t > n - ProfileTicks => t \in since..n
<1>1. CASE n - ProfileTicks + 1 > 0
  <2>1. Max({0, n - ProfileTicks + 1}) = n - ProfileTicks + 1
    BY <1>1, ClassConstants, GreatestIs
  <2> QED BY <2>1, <1>1, ClassConstants
<1>2. CASE ~(n - ProfileTicks + 1 > 0)
  <2>1. Max({0, n - ProfileTicks + 1}) = 0
    BY <1>2, ClassConstants, GreatestIs
  <2> QED BY <2>1, <1>2, ClassConstants
<1> QED BY <1>1, <1>2

LEMMA VerdictHeldFollows == ASSUME ReadersInv PROVE VerdictHeld
<1> SUFFICES ASSUME NEW c \in Readers, StandsAt(c, "idle"), lookup[c].came
             PROVE  LET since == IF c \in AgentsAsking THEN ticks ELSE Max({0, ticks - ProfileTicks + 1})
                        known == UNION {held[t][lookup[c].of].types : t \in since..ticks}
                        seen  == UNION {held[t][lookup[c].of].states : t \in since..ticks}
                    IN  IF c \in Routers
                        THEN \E type \in known, state \in seen \cup {NoState} :
                               lookup[c].verdict = Routed(type, state, TRUE)
                        ELSE \E type \in known, state \in seen : lookup[c].verdict = Hints(type, state)
  BY DEF VerdictHeld
<1> DEFINE s == lookup[c].of
<1>1. PICK type, state : Grounds(c, held, ticks, s, type, state) /\ lookup[c].verdict = Gives(c, type, state)
  BY DEF ReadersInv, LookupOK, StandsAt
<1>2. ticks \in Nat
  BY ClassConstants DEF ReadersInv
<1>3. CASE c \in Routers
  <2> DEFINE since == Max({0, ticks - ProfileTicks + 1})
  <2>1. c \notin AgentsAsking
    BY <1>3, ClassConstants
  <2>2. \A t \in 0..ticks : t > ticks - ProfileTicks => t \in since..ticks
    BY <1>2, SinceIs
  <2> HIDE DEF since
  <2>3. Lately(held, ticks, s, type, state)
    BY <1>1, <1>3 DEF Grounds
  <2> DEFINE known == UNION {held[t][s].types : t \in since..ticks}
             seen  == UNION {held[t][s].states : t \in since..ticks}
  <2>4. type \in known
    BY <2>2, <2>3 DEF Lately, TypeHeld
  <2>5. ASSUME state # NoState PROVE state \in seen
    BY <2>2, <2>3, <2>5 DEF Lately, StateHeld
  <2>6. lookup[c].verdict = Routed(type, state, TRUE)
    BY <1>1, <1>3 DEF Gives
  <2> HIDE DEF known, seen
  <2>7. state \in seen \cup {NoState}
    BY <2>5
  <2>8. \E ty \in known, st \in seen \cup {NoState} : lookup[c].verdict = Routed(ty, st, TRUE)
    BY <2>4, <2>6, <2>7
  <2>9. (IF c \in AgentsAsking THEN ticks ELSE Max({0, ticks - ProfileTicks + 1})) = since
    BY <2>1 DEF since
  <2> QED BY <1>3, <2>8, <2>9 DEF known, seen
<1>4. CASE c \notin Routers
  <2>1. c \in AgentsAsking /\ ticks \in ticks..ticks
    BY <1>2, <1>4, ClassConstants
  <2>2. type \in held[ticks][s].types /\ state \in held[ticks][s].states
    BY <1>1, <1>4 DEF Grounds, TypeHeld, StateHeld
  <2>3. lookup[c].verdict = Hints(type, state)
    BY <1>1, <1>4 DEF Gives
  <2> QED BY <1>4, <2>1, <2>2, <2>3
<1> QED BY <1>3, <1>4

\* The table keeps what each list last said and a verdict goes by what the
\* tables held within the life of a profile, for any shares, days, readers and
\* life (kb/sync/market_state_sync.py, upsert_rows; kb/api.py, get_company).
THEOREM StateTraceableHolds == ClassificationSpec => []StateTraceable
<1>1. ClassInv => StateTraceable
  BY FeedsKeptFollows, VerdictHeldFollows DEF ClassInv, StateTraceable
<1> QED BY <1>1, ClassificationInvariant, PTL

LEMMA ClassTypesFollow == ASSUME ClassInv PROVE ClassificationTypeOK
<1>1. \A s \in Stocks, d \in Days :
       market[s][d] # NoState => /\ market[s][d].day = d /\ DOMAIN market[s][d].stage = Feeds
                                 /\ market[s][d].payload \subseteq Feeds
  BY DEF ClassInv, TableInv, RowOK
<1>2. \A s \in Stocks : profiles[s].until \in 0..(MaxTicks + ProfileTicks)
  BY DEF ClassInv, ReadersInv, ProfileOK
<1>3. ASSUME NEW c \in Routers, StandsAt(c, "idle"), lookup[c].came
      PROVE  lookup[c].verdict \subseteq {"fund_scheme", "unknown_type_suspended", "gsm", "esm"}
  <2>1. c \in Readers
    BY ClassConstants
  <2>2. PICK type, state : lookup[c].verdict = Routed(type, state, TRUE)
    BY <1>3, <2>1 DEF ClassInv, ReadersInv, LookupOK, StandsAt, Gives
  <2> QED BY <2>2 DEF Routed, Suppression, StateFlags
<1>4. stateFaults \in 0..MaxStateFaults
  BY DEF ClassInv, ReadersInv
<1> QED BY <1>1, <1>2, <1>3, <1>4 DEF ClassificationTypeOK

\* Every variable of the classification keeps its type (kb/models.py,
\* MarketState, CompanyProfile).
THEOREM ClassificationTypeCorrect == ClassificationSpec => []ClassificationTypeOK
BY ClassTypesFollow, ClassificationInvariant, PTL

-----------------------------------------------------------------------------
(* The topics together.                                                    *)

\* The topics share no variable.
LEMMA EachMovesOrRests ==
  ASSUME [ReportsNext]_<<focus, reportVars>>
  PROVE  /\ [StagesNext]_stageVars /\ [StrategiesNext]_strategyVars /\ [ResultsNext]_resultVars
         /\ [OutcomesNext]_outcomeVars /\ [ClassificationNext]_classVars
<1>1. CASE StagesMove
  BY <1>1 DEF StagesMove
<1>2. CASE StrategiesMove
  BY <1>2 DEF StrategiesMove
<1>3. CASE ResultsMove
  BY <1>3 DEF ResultsMove
<1>4. CASE OutcomesMove
  BY <1>4 DEF OutcomesMove
<1>5. CASE ClassificationMoves
  BY <1>5 DEF ClassificationMoves
<1>6. CASE UNCHANGED <<focus, reportVars>>
  BY <1>6 DEF reportVars
<1> QED BY <1>1, <1>2, <1>3, <1>4, <1>5, <1>6 DEF ReportsNext

\* These parts do not disturb each other: what they do together is what each
\* does alone (analysis/stages, papertrade/rules.py,
\* kb/sync/bse_financial_results.py, research/score_signals.py and
\* kb/sync/market_state_sync.py; signals of the results are apart here from
\* those that are evaluated).
THEOREM ReportsCompose ==
  ReportsSpec => /\ StagesSpec /\ StrategiesSpec /\ ResultsSpec /\ ClassificationSpec
                 /\ OutcomesInit /\ [][OutcomesNext]_outcomeVars
<1>1. ReportsInit => /\ StagesInit /\ StrategiesInit /\ ResultsInit /\ OutcomesInit
                     /\ ClassificationInit
  BY DEF ReportsInit
<1>2. [ReportsNext]_<<focus, reportVars>> => [StagesNext]_stageVars
  BY EachMovesOrRests
<1>3. [ReportsNext]_<<focus, reportVars>> => [StrategiesNext]_strategyVars
  BY EachMovesOrRests
<1>4. [ReportsNext]_<<focus, reportVars>> => [ResultsNext]_resultVars
  BY EachMovesOrRests
<1>5. [ReportsNext]_<<focus, reportVars>> => [OutcomesNext]_outcomeVars
  BY EachMovesOrRests
<1>6. [ReportsNext]_<<focus, reportVars>> => [ClassificationNext]_classVars
  BY EachMovesOrRests
<1> QED BY <1>1, <1>2, <1>3, <1>4, <1>5, <1>6, PTL
    DEF ReportsSpec, StagesSpec, StrategiesSpec, ResultsSpec, ClassificationSpec

=============================================================================
