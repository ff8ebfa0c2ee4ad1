-------------------------- MODULE Pipeline_proofs --------------------------
(***************************************************************************)
(* Proofs about Pipeline for all its constants: types; what the reports of *)
(* the worker say in which order; what the relay stores; the slots and the *)
(* items of the worker; how many verdicts a delivery gives.                *)
(***************************************************************************)
EXTENDS Pipeline, FiniteSetTheorems, TLAPS

(***************************************************************************)
(* Types.                                                                  *)
(***************************************************************************)

\* A report is published by appending it, and only then does a topic change.
LEMMA SentTyped ==
  ASSUME topic \in Seq(Event), NEW e \in Event, Sent(e)
  PROVE  /\ topic' \in Seq(Event)
         /\ DOMAIN topic' = DOMAIN topic \cup {Len(topic) + 1}
         /\ Len(topic') = Len(topic) + 1
         /\ topic'[Len(topic) + 1] = e
         /\ \A k \in DOMAIN topic : topic'[k] = topic[k]
  BY DEF Sent

LEMMA FaultTyped ==
  ASSUME faults \in Nat, NEW kind, Fault(kind) \/ UNCHANGED faults
  PROVE  faults' \in Nat
  BY DEF Fault

\* The records a run goes through.
LEMMA RunSteps ==
  ASSUME NEW r \in Run
  PROVE  /\ \A at \in Working : [r EXCEPT !.at = at] \in Run
         /\ WithSummary(r) \in Run
         /\ Finalized(r) \in Run
         /\ [r EXCEPT !.error = TRUE] \in Run
         /\ \A s \in {"ready", "failed"} : [r EXCEPT !.summary = s] \in Run
         /\ EventOf(r) \in Event
         /\ Update(r) \in Event
<1>1. \A at \in Working : [r EXCEPT !.at = at] \in Run
  BY DEF Run
<1>2. WithSummary(r) \in Run
  BY DEF Run, WithSummary, Working
<1>3. Finalized(r) \in Run
  BY DEF Run, Finalized, Working
<1>4. [r EXCEPT !.error = TRUE] \in Run
  BY DEF Run
<1>5. \A s \in {"ready", "failed"} : [r EXCEPT !.summary = s] \in Run
  BY DEF Run
<1>6. EventOf(r) \in Event
  BY DEF Run, EventOf, Event, Kinds
<1>7. Update(r) \in Event
  BY DEF Run, Update, Event, Kinds
<1> QED BY <1>1, <1>2, <1>3, <1>4, <1>5, <1>6, <1>7

LEMMA NewRunTyped ==
  ASSUME minted \in Nat, NEW n \in News, NEW at \in {"sleep", "stage1"}
  PROVE  NewRun(n, at) \in Run /\ minted + 1 \in Nat
  BY DEF NewRun, Run, Working

LEMMA BatchEventTyped ==
  ASSUME minted \in Nat, NEW n \in News
  PROVE  BatchEvent(n) \in Event
  BY DEF BatchEvent, Event, Kinds

Hands == {Free} \cup [at : {"flush"}, news : News \cup {NoNews}]
               \cup [at : {"slot"}, news : News]

Batch == [at : {"idle", "triage", "publish", "ended"}, items : SUBSET News]

LEMMA RemainingTyped ==
  ASSUME WorkerTypeOK, NEW f \in Flushers, NEW S \in SUBSET News, Remaining(f, S)
  PROVE  /\ batch' \in [Flushers -> Batch]
         /\ hand' \in Hands
<1>1. /\ [at |-> "publish", items |-> S] \in Batch
      /\ [Resting EXCEPT !.at = "ended"] \in Batch
      /\ [Resting EXCEPT !.at = @] \in Batch
  BY DEF Resting, Batch
<1>2. batch' \in [Flushers -> Batch]
  BY <1>1 DEF Remaining, WorkerTypeOK, Batch
<1>3. hand \in Hands /\ Free \in Hands /\ Free.news = NoNews
  BY DEF WorkerTypeOK, Hands, Free
<1>4. ASSUME hand.news # NoNews PROVE [hand EXCEPT !.at = "slot"] \in Hands
  <2>1. hand # Free
    BY <1>3, <1>4
  <2>2. hand \in [at : {"flush", "slot"}, news : News \cup {NoNews}]
    BY <2>1 DEF WorkerTypeOK
  <2>3. [hand EXCEPT !.at = "slot"] \in [at : {"slot"}, news : News]
    BY <1>4, <2>2
  <2> QED BY <2>3 DEF Hands
<1>5. hand' \in {hand, Free} \/ (hand.news # NoNews /\ hand' = [hand EXCEPT !.at = "slot"])
  BY DEF Remaining
<1>6. hand' \in Hands
  BY <1>3, <1>4, <1>5
<1> QED BY <1>2, <1>6

LEMMA RestartTyped ==
  ASSUME WorkerTypeOK, NEW offset \in committed..pos, Restart(offset), faults' \in Nat
  PROVE  WorkerTypeOK'
<1>1. Memory \subseteq News
  <2> DEFINE A == {r.news : r \in runs}
             B == UNION {batch[f].items : f \in Flushers}
             C == {hand.news} \ {NoNews}
  <2>1. A \subseteq News
    BY DEF WorkerTypeOK, Run
  <2>2. B \subseteq News
    BY DEF WorkerTypeOK
  <2>3. C \subseteq News
    BY DEF WorkerTypeOK, Free
  <2>4. buffer \subseteq News
    BY DEF WorkerTypeOK
  <2>5. Memory = A \cup buffer \cup B \cup C
    BY DEF Memory
  <2> HIDE DEF A, B, C
  <2> QED BY <2>1, <2>2, <2>3, <2>4, <2>5
<1>2. offset \in 0..Len(inbox) /\ offset \in 0..offset
  BY DEF WorkerTypeOK
<1>3. batch' \in [Flushers -> Batch]
  BY DEF Restart, Resting, Batch
<1> QED
  BY <1>1, <1>2, <1>3, WorkerAssumption DEF Restart, WorkerTypeOK, Batch, market

LEMMA WorkerTyped == WorkerTypeOK /\ WorkerNext => WorkerTypeOK'
<1> SUFFICES ASSUME WorkerTypeOK, WorkerNext PROVE WorkerTypeOK'
  OBVIOUS
<1> USE DEF offsets, batches, tasks, market, stop, ends, Batch, Hands
<1>1. ASSUME NEW r \in runs, Classify(r) PROVE WorkerTypeOK'
  <2>1. r \in Run
    BY DEF WorkerTypeOK
  <2>2. runs' \subseteq Run
    BY <1>1, <2>1, RunSteps DEF Classify, Becomes, WorkerTypeOK, Working
  <2> QED BY <1>1, <2>2 DEF Classify, WorkerTypeOK
<1>2. ASSUME NEW r \in runs, PublishSkeleton(r) PROVE WorkerTypeOK'
  <2>1. r \in Run
    BY DEF WorkerTypeOK
  <2>2. runs' \subseteq Run
    BY <1>2, <2>1, RunSteps DEF PublishSkeleton, Becomes, WorkerTypeOK
  <2>3. topic' \in Seq(Event) /\ faults' \in Nat
    BY <1>2, <2>1, RunSteps, SentTyped, FaultTyped
       DEF PublishSkeleton, Published, PublishFails, Cut, WorkerTypeOK
  <2> QED BY <1>2, <2>2, <2>3 DEF PublishSkeleton, WorkerTypeOK
<1>3. ASSUME NEW r \in runs, Analyse(r) PROVE WorkerTypeOK'
  <2>1. r \in Run /\ [r EXCEPT !.error = TRUE] \in Run
    BY RunSteps DEF WorkerTypeOK
  <2>2. runs' \subseteq Run
    BY <1>3, <2>1, RunSteps DEF Analyse, Becomes, WorkerTypeOK
  <2>3. faults' \in Nat
    BY <1>3, FaultTyped DEF Analyse, WorkerTypeOK
  <2> QED BY <1>3, <2>2, <2>3 DEF Analyse, WorkerTypeOK
<1>4. ASSUME NEW r \in runs, Join(r) PROVE WorkerTypeOK'
  <2>1. r \in Run
    BY DEF WorkerTypeOK
  <2>2. runs' \subseteq Run
    BY <1>4, <2>1, RunSteps DEF Join, Becomes, WorkerTypeOK
  <2> QED BY <1>4, <2>2 DEF Join, WorkerTypeOK
<1>5. ASSUME NEW r \in runs, PublishFinal(r) PROVE WorkerTypeOK'
  <2>1. r \in Run /\ r.news \in News
    BY DEF WorkerTypeOK, Run
  <2>2. [r EXCEPT !.at = "sent"] \in Run
    BY <2>1, RunSteps DEF Working
  <2>3. runs' \subseteq Run /\ late' \subseteq Run
    BY <1>5, <2>1, <2>2 DEF PublishFinal, Becomes, Over, WorkerTypeOK
  <2>4. topic' \in Seq(Event) /\ faults' \in Nat
    BY <1>5, <2>1, RunSteps, SentTyped, FaultTyped
       DEF PublishFinal, Published, PublishFails, Cut, WorkerTypeOK
  <2>5. slots' \in Nat /\ logged' \subseteq News
    BY <1>5, <2>1 DEF PublishFinal, Over, WorkerTypeOK
  <2> QED BY <1>5, <2>3, <2>4, <2>5 DEF PublishFinal, WorkerTypeOK
<1>6. ASSUME NEW r \in runs, Finish(r) PROVE WorkerTypeOK'
  <2>1. r \in Run /\ r.news \in News
    BY DEF WorkerTypeOK, Run
  <2>2. NewRun(r.news, "sleep") \in Run
    BY <2>1, NewRunTyped DEF WorkerTypeOK
  <2>3. runs' \subseteq Run
    BY <1>6, <2>2 DEF Finish, Becomes, WorkerTypeOK
  <2> QED BY <1>6, <2>1, <2>3 DEF Finish, WorkerTypeOK
<1>7. ASSUME NEW r \in runs, Retry(r) PROVE WorkerTypeOK'
  <2>1. [r EXCEPT !.at = "stage1"] \in Run
    BY RunSteps DEF WorkerTypeOK, Working
  <2>2. runs' \subseteq Run
    BY <1>7, <2>1 DEF Retry, Becomes, WorkerTypeOK
  <2>3. slots' \in Nat
    BY <1>7 DEF Retry, WorkerTypeOK
  <2> QED BY <1>7, <2>2, <2>3 DEF Retry, WorkerTypeOK
<1>8. ASSUME NEW r \in runs, Timeout(r) PROVE WorkerTypeOK'
  <2>1. r \in Run /\ r.news \in News
    BY DEF WorkerTypeOK, Run
  <2>2. topic' \in Seq(Event) /\ faults' \in Nat
    BY <1>8, <2>1, RunSteps, SentTyped, FaultTyped DEF Timeout, Cut, WorkerTypeOK
  <2>3. runs' \subseteq Run /\ slots' \in Nat /\ logged' \subseteq News
    BY <1>8, <2>1 DEF Timeout, Over, WorkerTypeOK
  <2> QED BY <1>8, <2>2, <2>3 DEF Timeout, WorkerTypeOK
<1>9. ASSUME NEW r \in late, AttachSummary(r) PROVE WorkerTypeOK'
  <2>1. r \in Run
    BY DEF WorkerTypeOK
  <2>2. topic' \in Seq(Event) /\ faults' \in Nat
    BY <1>9, <2>1, RunSteps, SentTyped, FaultTyped
       DEF AttachSummary, Published, PublishFails, Cut, WorkerTypeOK
  <2> QED BY <1>9, <2>2 DEF AttachSummary, WorkerTypeOK
<1>10. ASSUME NEW r \in runs \cup late, SummaryEnds(r) PROVE WorkerTypeOK'
  <2>1. \A s \in {"ready", "failed"} : [r EXCEPT !.summary = s] \in Run
    BY RunSteps DEF WorkerTypeOK
  <2>2. runs' \subseteq Run /\ late' \subseteq Run
    BY <1>10, <2>1 DEF SummaryEnds, Becomes, WorkerTypeOK
  <2> QED BY <1>10, <2>2 DEF SummaryEnds, WorkerTypeOK
<1>11. ASSUME NEW f \in Flushers, Triage(f) PROVE WorkerTypeOK'
  <2>1. batch[f].items \subseteq News
    BY DEF WorkerTypeOK
  <2>2. PICK S \in SUBSET News : Remaining(f, S)
    BY <1>11, <2>1 DEF Triage
  <2>3. faults' \in Nat /\ logged' \subseteq News
    BY <1>11, <2>1, FaultTyped DEF Triage, WorkerTypeOK
  <2> QED BY <1>11, <2>2, <2>3, RemainingTyped DEF Triage, WorkerTypeOK
<1>12. ASSUME NEW f \in Flushers, NEW n \in News, PublishBatch(f, n) PROVE WorkerTypeOK'
  <2>1. batch[f].items \subseteq News /\ BatchEvent(n) \in Event
    BY BatchEventTyped DEF WorkerTypeOK
  <2>2. PICK S \in SUBSET News : Remaining(f, S)
    BY <1>12, <2>1 DEF PublishBatch
  <2>3. topic' \in Seq(Event) /\ faults' \in Nat
    BY <1>12, <2>1, SentTyped, FaultTyped
       DEF PublishBatch, Published, PublishFails, Cut, WorkerTypeOK
  <2>4. logged' \subseteq News /\ minted' \in Nat
    BY <1>12, <2>1 DEF PublishBatch, WorkerTypeOK
  <2> QED BY <1>12, <2>2, <2>3, <2>4, RemainingTyped DEF PublishBatch, WorkerTypeOK
<1>13. ASSUME NEW f \in Flushers, NEW S \in SUBSET News, StartFlush(f, S)
       PROVE  /\ batch' \in [Flushers -> Batch]
              /\ buffer' \subseteq News
  <2>1. [at |-> "triage", items |-> S] \in Batch
    BY DEF Batch
  <2> QED BY <1>13, <2>1 DEF StartFlush, WorkerTypeOK, Batch
<1>14. CASE TimerFlush
  <2>1. "timer" \in Flushers /\ buffer \in SUBSET News
    BY DEF Flushers, WorkerTypeOK
  <2> QED BY <1>13, <1>14, <2>1 DEF TimerFlush, WorkerTypeOK
<1>15. CASE Deliver
  <2>1. inbox[pos + 1] \in News /\ pos + 1 \in 0..Len(inbox) /\ committed \in 0..(pos + 1)
    BY <1>15 DEF Deliver, WorkerTypeOK
  <2> DEFINE n == inbox[pos + 1]
  <2> HIDE DEF n
  <2>2. n \in News
    BY <2>1 DEF n
  <2>3. "consumer" \in Flushers /\ buffer \in SUBSET News /\ buffer \cup {n} \in SUBSET News
    BY <2>2 DEF Flushers, WorkerTypeOK
  <2>4. /\ batch' \in [Flushers -> Batch]
        /\ buffer' \subseteq News
    BY <1>13, <1>15, <2>3 DEF Deliver, WorkerTypeOK, n
  <2>5. hand' \in Hands
    BY <1>15, <2>2 DEF Deliver, WorkerTypeOK, n
  <2>6. taken' \in [News -> Nat]
    BY <1>15 DEF Deliver, WorkerTypeOK
  <2> QED BY <1>15, <2>1, <2>4, <2>5, <2>6 DEF Deliver, WorkerTypeOK
<1>16. CASE StartRun
  <2>1. hand.news \in News
    BY <1>16 DEF StartRun, WorkerTypeOK, Free
  <2>2. NewRun(hand.news, "stage1") \in Run /\ slots' \in Nat
    BY <1>16, <2>1, NewRunTyped DEF StartRun, WorkerTypeOK
  <2> QED BY <1>16, <2>2 DEF StartRun, WorkerTypeOK
<1>17. CASE Terminate
  <2>1. waits' \subseteq Nat /\ faults' \in Nat
    BY <1>17, FaultTyped DEF Terminate, WorkerTypeOK, Run
  <2> QED BY <1>17, <2>1 DEF Terminate, WorkerTypeOK
<1>18. CASE DrainTasks
  <2>1. waits' \subseteq Nat
    BY <1>18 DEF DrainTasks, WorkerTypeOK, Run
  <2> QED BY <1>18, <2>1 DEF DrainTasks, WorkerTypeOK
<1>19. CASE DrainSummaries
  <2>1. "stop" \in Flushers /\ buffer \in SUBSET News
    BY DEF Flushers, WorkerTypeOK
  <2> QED BY <1>13, <1>19, <2>1 DEF DrainSummaries, WorkerTypeOK
<1>20. CASE StopEnds
  <2>1. pos \in committed..pos
    BY DEF WorkerTypeOK
  <2> QED BY <1>20, <2>1, RestartTyped DEF StopEnds, WorkerTypeOK
<1>21. CASE Kill
  BY <1>21, RestartTyped DEF Kill, RestartAbruptly, WorkerTypeOK
<1>22. CASE Crash
  BY <1>22, RestartTyped, FaultTyped DEF Crash, RestartAbruptly, WorkerTypeOK
<1>23. CASE Bell
  BY <1>23 DEF Bell, WorkerTypeOK
<1> QED
  BY <1>1, <1>2, <1>3, <1>4, <1>5, <1>6, <1>7, <1>8, <1>9, <1>10, <1>11, <1>12, <1>14,
     <1>15, <1>16, <1>17, <1>18, <1>19, <1>20, <1>21, <1>22, <1>23
     DEF WorkerNext, RunNext, FlushNext, ShutdownNext

\* What every step does to the topic.
Grows ==
  /\ DOMAIN topic \subseteq DOMAIN topic'
  /\ Len(topic) <= Len(topic')
  /\ \A k \in DOMAIN topic : topic'[k] = topic[k]

LEMMA TopicGrows == WorkerTypeOK /\ [Next]_vars => Grows
<1> SUFFICES ASSUME WorkerTypeOK, [Next]_vars PROVE Grows
  OBVIOUS
<1>1. ASSUME NEW e \in Event, Sent(e) PROVE Grows
  <2>1. Len(topic) \in Nat /\ topic \in Seq(Event)
    BY DEF WorkerTypeOK
  <2> QED BY <1>1, <2>1, SentTyped DEF Grows
<1>2. ASSUME UNCHANGED topic PROVE Grows
  BY <1>2 DEF Grows, WorkerTypeOK
<1>3. ASSUME NEW e \in Event, Published(e) \/ PublishFails(e) \/ Cut(e) PROVE Grows
  BY <1>1, <1>2, <1>3 DEF Published, PublishFails, Cut
<1>4. \A r \in Run : EventOf(r) \in Event /\ Update(r) \in Event
  BY RunSteps
<1>5. \A n \in News : BatchEvent(n) \in Event
  BY BatchEventTyped DEF WorkerTypeOK
<1>6. runs \subseteq Run /\ late \subseteq Run
  BY DEF WorkerTypeOK
<1>7. CASE WorkerNext
  <2>1. ASSUME NEW r \in runs, RunNext(r) \/ Timeout(r) PROVE Grows
    BY <1>2, <1>3, <1>4, <1>6, <2>1
       DEF RunNext, Classify, PublishSkeleton, Analyse, Join, PublishFinal, Finish, Retry,
           Timeout
  <2>2. ASSUME NEW r \in late, AttachSummary(r) PROVE Grows
    BY <1>2, <1>3, <1>4, <1>6, <2>2 DEF AttachSummary
  <2>3. ASSUME NEW f \in Flushers, FlushNext(f) PROVE Grows
    BY <1>2, <1>3, <1>5, <2>3 DEF FlushNext, Triage, PublishBatch
  <2>4. ASSUME NEW r \in runs \cup late, SummaryEnds(r) PROVE Grows
    BY <1>2, <2>4 DEF SummaryEnds
  <2>5. CASE ShutdownNext
    BY <1>2, <2>5 DEF ShutdownNext, DrainTasks, DrainSummaries, StopEnds, Kill,
                      RestartAbruptly, Restart
  <2>6. CASE TimerFlush \/ Deliver \/ StartRun \/ Terminate \/ Crash \/ Bell
    BY <1>2, <2>6 DEF TimerFlush, Deliver, StartRun, Terminate, Crash, Bell,
                      RestartAbruptly, Restart
  <2> QED BY <1>7, <2>1, <2>2, <2>3, <2>4, <2>5, <2>6 DEF WorkerNext
<1>8. CASE RelayNext
  BY <1>2, <1>8 DEF RelayNext, Take, CacheReport, Persist, RelayCrash
<1>9. CASE UNCHANGED vars
  BY <1>2, <1>9 DEF vars
<1> QED BY <1>7, <1>8, <1>9 DEF Next

LEMMA RelayTyped == PipelineTypeOK /\ [Next]_vars => RelayTypeOK'
<1> SUFFICES ASSUME PipelineTypeOK, [Next]_vars PROVE RelayTypeOK'
  OBVIOUS
<1> USE DEF PipelineTypeOK
<1>1. Grows
  BY TopicGrows
<1>2. Len(topic) \in Nat /\ Len(topic') \in Nat /\ topic \in Seq(Event)
      /\ DOMAIN topic = 1..Len(topic) /\ rpos \in Nat /\ rcommitted \in Nat
  <2>1. topic \in Seq(Event) /\ Len(topic) \in Nat
    BY DEF WorkerTypeOK
  <2>2. topic' \in Seq(Event)
    BY WorkerTyped DEF Next, RelayNext, Take, CacheReport, Persist, RelayCrash, vars,
       WorkerTypeOK
  <2> QED BY <2>1, <2>2 DEF RelayTypeOK
<1>3. CASE UNCHANGED relayVars
  BY <1>1, <1>2, <1>3 DEF relayVars, tables, RelayTypeOK, Grows
<1>4. CASE Take
  BY <1>2, <1>4 DEF Take, RelayTypeOK
<1>5. rat # "idle" => rpos \in DOMAIN topic /\ topic[rpos] \in Event
  BY <1>2 DEF RelayTypeOK
<1>6. CASE CacheReport
  <2>1. feed' \subseteq [news : News, summary : BOOLEAN]
    BY <1>5, <1>6 DEF CacheReport, AddToFeed, RelayTypeOK, Event
  <2>2. cache' \subseteq DOMAIN topic
    BY <1>5, <1>6 DEF CacheReport, RelayTypeOK
  <2> QED BY <1>6, <2>1, <2>2 DEF CacheReport, RelayTypeOK, tables
<1>7. CASE Persist
  <2>1. items' \subseteq [news : News, summary : BOOLEAN]
    BY <1>5, <1>7 DEF Persist, UpsertItem, RelayTypeOK, Event, tables
  <2>2. reports' \subseteq DOMAIN topic /\ audit' \subseteq DOMAIN topic
        /\ saved' \subseteq DOMAIN topic
    BY <1>5, <1>7 DEF Persist, UpsertReport, InsertAudit, RelayTypeOK, tables
  <2> QED BY <1>7, <2>1, <2>2 DEF Persist, RelayTypeOK
<1>8. CASE RelayCrash
  BY <1>2, <1>8 DEF RelayCrash, RelayTypeOK, tables
<1> QED
  BY <1>3, <1>4, <1>6, <1>7, <1>8 DEF Next, RelayNext, vars

LEMMA TypedInductive == PipelineTypeOK /\ [Next]_vars => PipelineTypeOK'
<1> SUFFICES ASSUME PipelineTypeOK, [Next]_vars PROVE PipelineTypeOK'
  OBVIOUS
<1>1. CASE WorkerNext
  BY <1>1, WorkerTyped, RelayTyped DEF PipelineTypeOK
<1>2. CASE RelayNext /\ UNCHANGED workerVars
  <2>1. faults' \in Nat /\ topic' = topic
    BY <1>2, FaultTyped DEF PipelineTypeOK, WorkerTypeOK, RelayNext, Take, CacheReport, Persist,
       RelayCrash
  <2>2. WorkerTypeOK'
    BY <1>2, <2>1 DEF PipelineTypeOK, WorkerTypeOK, workerVars, offsets, batches, tasks, market,
       stop, ends
  <2> QED BY <2>2, RelayTyped DEF PipelineTypeOK
<1>3. CASE UNCHANGED vars
  <2>1. WorkerTypeOK'
    BY <1>3 DEF PipelineTypeOK, WorkerTypeOK, vars, workerVars, offsets, batches, tasks, market,
       stop, ends
  <2> QED BY <2>1, RelayTyped DEF PipelineTypeOK
<1> QED BY <1>1, <1>2, <1>3 DEF Next

LEMMA InitTyped == Init => PipelineTypeOK
<1> SUFFICES ASSUME Init PROVE PipelineTypeOK
  OBVIOUS
<1>1. batch \in [Flushers -> Batch]
  BY DEF Init, WorkerInit, Resting, Batch
<1>2. topic \in Seq(Event) /\ Len(topic) = 0
  BY DEF Init, WorkerInit
<1>3. inbox \in Seq(News) /\ Len(inbox) \in Nat
  BY WorkerAssumption DEF Init, WorkerInit
<1>4. WorkerTypeOK
  BY <1>1, <1>2, <1>3, WorkerAssumption DEF Init, WorkerInit, WorkerTypeOK, Batch
<1>5. RelayTypeOK
  BY <1>2 DEF Init, RelayInit, RelayTypeOK
<1> QED BY <1>4, <1>5 DEF PipelineTypeOK

\* Worker and relay keep their types.
THEOREM TypeCorrect == Spec => []PipelineTypeOK
<1>1. Init => PipelineTypeOK
  BY InitTyped
<1>2. PipelineTypeOK /\ [Next]_vars => PipelineTypeOK'
  BY TypedInductive
<1> QED BY <1>1, <1>2, PTL DEF Spec

(***************************************************************************)
(* What the topic says of one report.  A run publishes under its own id,   *)
(* at most once per stage; a summary that is late belongs to a run that    *)
(* has published its report.                                               *)
(***************************************************************************)
Early  == {"sleep", "stage1", "skip", "skeleton"}
Middle == {"analyse", "join", "final"}

Events == {topic[k] : k \in DOMAIN topic}

\* A run has published nothing, or no more than its skeleton, until its report.
RunQuiet(r) ==
  /\ r.id <= minted
  /\ r.attach # "no" => r.at \in {"final", "sent"}
  /\ \A v \in Events : v.id = r.id =>
       /\ r.at \notin Early
       /\ r.at \in Middle => v.kind = "analysing"

\* A late summary was not published, and the report says what the run found.
LateQuiet(r) ==
  /\ r.id <= minted
  /\ \A v \in Events : v.id = r.id =>
       /\ v.kind # "update"
       /\ v.kind = "complete" => v.impacts = ~r.error

OwnIds ==
  /\ \A q, r \in runs : q.id = r.id => q = r
  /\ \A q, r \in late : q.id = r.id => q = r
  /\ \A r \in runs, q \in late : q.id = r.id => r.at = "sent"

\* Two events of a report come in the order of its stages, and all that show a
\* result show the same.
Agree(v, e) ==
  /\ Rank[v.kind] <= Rank[e.kind]
  /\ v.kind # "analysing" => v.impacts = e.impacts

Ordered ==
  \A j, k \in DOMAIN topic : j < k /\ topic[j].id = topic[k].id => Agree(topic[j], topic[k])

Trace ==
  /\ \A v \in Events : v.id <= minted
  /\ \A r \in runs : RunQuiet(r)
  /\ \A r \in late : LateQuiet(r)
  /\ OwnIds
  /\ Ordered

\* A new event may follow those of its report.
Fits(e) == \A v \in Events : v.id = e.id => Agree(v, e)

LEMMA EventsTyped == WorkerTypeOK => Events \subseteq Event
<1> SUFFICES ASSUME WorkerTypeOK, NEW k \in DOMAIN topic PROVE topic[k] \in Event
  BY DEF Events
<1>1. topic \in Seq(Event)
  BY DEF WorkerTypeOK
<1> QED BY <1>1

LEMMA TopicKept ==
  ASSUME UNCHANGED topic, Ordered PROVE Ordered' /\ Events' = Events
  BY DEF Ordered, Events

LEMMA TopicCut ==
  ASSUME topic \in Seq(Event), Ordered, NEW e \in Event, Cut(e), Fits(e)
  PROVE  Ordered' /\ Events' \subseteq Events \cup {e}
<1>1. CASE UNCHANGED topic
  BY <1>1, TopicKept
<1>2. CASE Sent(e)
  <2>1. /\ DOMAIN topic' = DOMAIN topic \cup {Len(topic) + 1}
        /\ topic'[Len(topic) + 1] = e
        /\ \A k \in DOMAIN topic : topic'[k] = topic[k]
    BY <1>2, SentTyped
  <2> DOMAIN topic = 1..Len(topic) /\ Len(topic) \in Nat
    OBVIOUS
  <2>2. Events' \subseteq Events \cup {e}
    BY <2>1 DEF Events
  <2>3. ASSUME NEW j \in DOMAIN topic', NEW k \in DOMAIN topic', j < k,
               topic'[j].id = topic'[k].id
        PROVE  Agree(topic'[j], topic'[k])
    <3>1. j \in DOMAIN topic /\ topic'[j] = topic[j] /\ topic[j] \in Events
      BY <2>1, <2>3 DEF Events
    <3>2. CASE k \in DOMAIN topic
      BY <2>1, <2>3, <3>1, <3>2 DEF Ordered
    <3>3. CASE k = Len(topic) + 1
      BY <2>1, <2>3, <3>1, <3>3 DEF Fits
    <3> QED BY <2>1, <3>2, <3>3
  <2>4. Ordered'
    BY <2>3 DEF Ordered, Agree
  <2> QED BY <2>2, <2>4
<1> QED BY <1>1, <1>2 DEF Cut


LEMMA TraceInit == Init => Trace
<1> SUFFICES ASSUME Init PROVE Trace
  OBVIOUS
<1>1. runs = {} /\ late = {} /\ DOMAIN topic = {}
  BY DEF Init, WorkerInit
<1>2. Events = {}
  BY <1>1 DEF Events
<1> QED BY <1>1, <1>2 DEF Trace, OwnIds, Ordered

\* A run goes on within its publications.
LEMMA RunMoves ==
  ASSUME Trace, WorkerTypeOK, NEW r \in runs, NEW q \in Run,
         Becomes(r, q), q.id = r.id, q.at # "sent",
         q.attach # "no" => q.at = "final",
         r.at \notin Early => q.at \in Middle,
         r.at # "sent",
         UNCHANGED <<topic, late, minted>>
  PROVE  Trace'
<1>1. Ordered' /\ Events' = Events
  BY TopicKept DEF Trace
<1>2. r \in Run /\ RunQuiet(r)
  BY DEF Trace, WorkerTypeOK
<1>3. r.at \in Early \/ r.at \in Middle
  BY <1>2 DEF Run, Working, Early, Middle
<1>4. RunQuiet(q)'
  BY <1>1, <1>2, <1>3 DEF RunQuiet, Early, Middle
<1>5. \A x \in runs' : RunQuiet(x)'
  BY <1>1, <1>4 DEF Trace, RunQuiet, Becomes
<1>6. \A x \in late' : LateQuiet(x)'
  BY <1>1 DEF Trace, LateQuiet
<1>7. OwnIds'
  BY DEF Trace, OwnIds, Becomes
<1> QED BY <1>1, <1>5, <1>6, <1>7 DEF Trace

\* A run publishes an event that its stage allows, and ends.
LEMMA RunEnds ==
  ASSUME Trace, WorkerTypeOK, NEW r \in runs,
         \/ UNCHANGED topic
         \/ r.at \in Sending /\ Cut(EventOf(r)),
         runs' = runs \ {r},
         UNCHANGED <<late, minted>>
  PROVE  Trace'
<1>1. r \in Run /\ RunQuiet(r) /\ r.id \in Nat
  BY DEF Trace, WorkerTypeOK, Run
<1>2. CASE UNCHANGED topic
  <2>1. Ordered' /\ Events' = Events
    BY <1>2, TopicKept DEF Trace
  <2> QED BY <2>1 DEF Trace, RunQuiet, LateQuiet, OwnIds
<1>3. CASE r.at \in Sending /\ Cut(EventOf(r))
  <2> DEFINE e == EventOf(r)
  <2>1. e \in Event /\ e.id = r.id
    BY <1>1, RunSteps DEF EventOf
  <2>2. Fits(e)
    <3> SUFFICES ASSUME NEW v \in Events, v.id = e.id PROVE Agree(v, e)
      BY DEF Fits
    <3>1. r.at = "final" /\ v.kind = "analysing"
      BY <1>1, <1>3, <2>1 DEF RunQuiet, Sending, Early, Middle
    <3> QED BY <3>1 DEF Agree, Rank, EventOf
  <2>3. Ordered' /\ Events' \subseteq Events \cup {e}
    BY <1>3, <2>1, <2>2, TopicCut DEF Trace, WorkerTypeOK
  <2>4. \A x \in runs' : x.id # e.id
    BY <2>1 DEF Trace, OwnIds
  <2>5. \A x \in late' : x.id # e.id
    BY <1>3, <2>1 DEF Trace, OwnIds, Sending
  <2> HIDE DEF e
  <2>6. \A v \in Events' : v.id <= minted'
    BY <1>1, <2>1, <2>3 DEF Trace, RunQuiet
  <2>7. \A x \in runs' : RunQuiet(x)'
    BY <2>3, <2>4 DEF Trace, RunQuiet
  <2>8. \A x \in late' : LateQuiet(x)'
    BY <2>3, <2>5 DEF Trace, LateQuiet
  <2>9. OwnIds'
    BY DEF Trace, OwnIds
  <2> QED BY <2>3, <2>6, <2>7, <2>8, <2>9 DEF Trace
<1> QED BY <1>2, <1>3

\* A skeleton goes out, or not, and the analysis begins.
LEMMA TraceSkeleton ==
  ASSUME Trace, WorkerTypeOK, NEW r \in runs, PublishSkeleton(r)
  PROVE  Trace'
<1> DEFINE e == EventOf(r)
           q == WithSummary(r)
<1>1. r \in Run /\ RunQuiet(r) /\ r.id \in Nat /\ r.at = "skeleton" /\ r.attach = "no"
  BY DEF Trace, WorkerTypeOK, Run, RunQuiet, PublishSkeleton
<1>2. e \in Event /\ e.id = r.id /\ e.kind = "analysing"
  BY <1>1, RunSteps DEF EventOf
<1>3. q.id = r.id /\ q.at = "analyse" /\ q.attach = "no"
  BY <1>1 DEF WithSummary, Run
<1>4. \A v \in Events : v.id # e.id
  BY <1>1, <1>2 DEF RunQuiet, Early
<1>5. Cut(e) /\ Becomes(r, q) /\ minted' = minted /\ late' = late
  BY DEF PublishSkeleton, Published, PublishFails, Cut
<1> HIDE DEF e, q
<1>6. Ordered' /\ Events' \subseteq Events \cup {e}
  BY <1>2, <1>4, <1>5, TopicCut DEF Trace, WorkerTypeOK, Fits
<1>7. \A v \in Events' : v.id <= minted'
  BY <1>1, <1>2, <1>5, <1>6 DEF Trace, RunQuiet
<1>8. RunQuiet(q)'
  BY <1>1, <1>2, <1>3, <1>4, <1>5, <1>6 DEF RunQuiet, Early, Middle
<1>9. \A x \in runs \ {r} : x.id # e.id
  BY <1>2 DEF Trace, OwnIds
<1>10. \A x \in runs' : RunQuiet(x)'
  BY <1>5, <1>6, <1>8, <1>9 DEF Trace, RunQuiet, Becomes
<1>11. \A x \in late' : x.id # e.id
  BY <1>1, <1>2, <1>5 DEF Trace, OwnIds
<1>12. \A x \in late' : LateQuiet(x)'
  BY <1>5, <1>6, <1>11 DEF Trace, LateQuiet
<1>13. OwnIds'
  BY <1>1, <1>2, <1>3, <1>5, <1>9, <1>11 DEF Trace, OwnIds, Becomes
<1> QED BY <1>6, <1>7, <1>10, <1>12, <1>13 DEF Trace

\* The report goes out; its summary may be attached later.
LEMMA TraceReport ==
  ASSUME Trace, WorkerTypeOK, NEW r \in runs, r.at \in {"skip", "final"},
         Published(EventOf(r)), Becomes(r, [r EXCEPT !.at = "sent"]),
         late' = IF r.attach = "later" THEN late \cup {[r EXCEPT !.at = "sent"]} ELSE late,
         minted' = minted
  PROVE  Trace'
<1> DEFINE e == EventOf(r)
           q == [r EXCEPT !.at = "sent"]
<1>1. r \in Run /\ RunQuiet(r) /\ r.id \in Nat
  BY DEF Trace, WorkerTypeOK, Run
<1>2. e \in Event /\ e.id = r.id /\ e.kind = "complete"
  BY <1>1, RunSteps DEF EventOf
<1>3. q.id = r.id /\ q.at = "sent" /\ q.error = r.error
  BY <1>1 DEF Run
<1>4. r.attach = "later" => r.at = "final" /\ e.impacts = ~r.error
  BY <1>1 DEF RunQuiet, EventOf
<1>5. \A v \in Events : v.id = e.id => v.kind = "analysing"
  BY <1>1, <1>2 DEF RunQuiet, Early, Middle
<1>6. Cut(e) /\ Becomes(r, q) /\ late' \subseteq late \cup {q}
      /\ (q \in late' => q \in late \/ r.attach = "later")
  BY DEF Published, Cut
<1> HIDE DEF e, q
<1>7. Fits(e)
  BY <1>2, <1>5 DEF Fits, Agree, Rank
<1>8. Ordered' /\ Events' \subseteq Events \cup {e}
  BY <1>2, <1>6, <1>7, TopicCut DEF Trace, WorkerTypeOK
<1>9. \A v \in Events' : v.id <= minted'
  BY <1>1, <1>2, <1>8 DEF Trace, RunQuiet
<1>10. \A x \in runs \ {r} : x.id # e.id
  BY <1>2 DEF Trace, OwnIds
<1>11. RunQuiet(q)'
  BY <1>1, <1>3 DEF RunQuiet, Early, Middle
<1>12. \A x \in runs' : RunQuiet(x)'
  BY <1>6, <1>8, <1>10, <1>11 DEF Trace, RunQuiet, Becomes
<1>13. \A x \in late : x.id # e.id
  BY <1>2 DEF Trace, OwnIds
<1>14. ASSUME r.attach = "later" PROVE LateQuiet(q)'
  BY <1>1, <1>2, <1>3, <1>4, <1>5, <1>8, <1>14 DEF LateQuiet, RunQuiet
<1>15. \A x \in late' : LateQuiet(x)'
  BY <1>3, <1>2, <1>6, <1>8, <1>13, <1>14 DEF Trace, LateQuiet
<1>16. OwnIds'
  BY <1>2, <1>3, <1>6, <1>10, <1>13 DEF Trace, OwnIds, Becomes
<1> QED BY <1>8, <1>9, <1>12, <1>15, <1>16 DEF Trace

\* A run gets a new id, and no event has it.
LEMMA TraceNewRun ==
  ASSUME Trace, WorkerTypeOK, NEW n \in News, NEW at \in {"sleep", "stage1"},
         runs' \subseteq runs \cup {NewRun(n, at)},
         minted' = minted + 1, UNCHANGED <<topic, late>>
  PROVE  Trace'
<1> DEFINE q == NewRun(n, at)
<1>1. Ordered' /\ Events' = Events
  BY TopicKept DEF Trace
<1>2. q.id = minted + 1 /\ q.attach = "no" /\ minted \in Nat
  BY DEF NewRun, WorkerTypeOK
<1>3. \A v \in Events : v.id \in Nat
  BY EventsTyped DEF Event
<1>4. \A x \in runs \cup late : x.id \in Nat /\ x.id <= minted
  BY DEF Trace, RunQuiet, LateQuiet, WorkerTypeOK, Run
<1> HIDE DEF q
<1>5. \A v \in Events' : v.id <= minted' /\ v.id # q.id
  BY <1>1, <1>2, <1>3 DEF Trace
<1>6. \A x \in runs \cup late : x.id <= minted' /\ x.id # q.id
  BY <1>2, <1>4
<1>7. \A x \in runs' : RunQuiet(x)'
  BY <1>1, <1>2, <1>5, <1>6 DEF Trace, RunQuiet, q
<1>8. \A x \in late' : LateQuiet(x)'
  BY <1>1, <1>6 DEF Trace, LateQuiet
<1>9. OwnIds'
  BY <1>6 DEF Trace, OwnIds, q
<1> QED BY <1>1, <1>5, <1>7, <1>8, <1>9 DEF Trace

\* A batch's report has an id of its own.
LEMMA TraceBatch ==
  ASSUME Trace, WorkerTypeOK, NEW n \in News, Cut(BatchEvent(n)),
         minted' = minted + 1, UNCHANGED <<runs, late>>
  PROVE  Trace'
<1> DEFINE e == BatchEvent(n)
<1>1. e \in Event /\ e.id = minted + 1 /\ minted \in Nat
  BY BatchEventTyped DEF BatchEvent, WorkerTypeOK
<1>2. \A v \in Events : v.id \in Nat /\ v.id <= minted
  BY EventsTyped DEF Event, Trace
<1>3. \A x \in runs \cup late : x.id \in Nat /\ x.id <= minted
  BY DEF Trace, RunQuiet, LateQuiet, WorkerTypeOK, Run
<1> HIDE DEF e
<1>4. \A v \in Events : v.id # e.id /\ v.id <= minted'
  BY <1>1, <1>2
<1>5. \A x \in runs \cup late : x.id # e.id /\ x.id <= minted'
  BY <1>1, <1>3
<1>6. Cut(e)
  BY DEF e
<1>7. Ordered' /\ Events' \subseteq Events \cup {e}
  BY <1>1, <1>4, <1>6, TopicCut DEF Trace, WorkerTypeOK, Fits
<1>8. \A v \in Events' : v.id <= minted'
  BY <1>1, <1>4, <1>7
<1>9. \A x \in runs' : RunQuiet(x)'
  BY <1>5, <1>7 DEF Trace, RunQuiet
<1>10. \A x \in late' : LateQuiet(x)'
  BY <1>5, <1>7 DEF Trace, LateQuiet
<1> QED BY <1>7, <1>8, <1>9, <1>10 DEF Trace, OwnIds

\* A late summary goes out, or not, and its task ends.
LEMMA TraceLate ==
  ASSUME Trace, WorkerTypeOK, NEW r \in late, late' = late \ {r},
         UNCHANGED topic \/ Cut(Update(r)), UNCHANGED <<runs, minted>>
  PROVE  Trace'
<1> DEFINE e == Update(r)
<1>1. r \in Run /\ LateQuiet(r) /\ r.id \in Nat
  BY DEF Trace, WorkerTypeOK, Run
<1>2. e \in Event /\ e.id = r.id /\ e.kind = "update" /\ e.impacts = ~r.error
  BY <1>1, RunSteps DEF Update
<1>3. \A x \in late' : x.id # e.id
  BY <1>2 DEF Trace, OwnIds
<1>4. \A x \in runs : x.id = e.id => x.at = "sent"
  BY <1>2 DEF Trace, OwnIds
<1>5. CASE UNCHANGED topic
  <2>1. Ordered' /\ Events' = Events
    BY <1>5, TopicKept DEF Trace
  <2> QED BY <2>1 DEF Trace, RunQuiet, LateQuiet, OwnIds
<1>6. CASE Cut(e)
  <2> HIDE DEF e
  <2>1. Fits(e)
    <3> SUFFICES ASSUME NEW v \in Events, v.id = e.id PROVE Agree(v, e)
      BY DEF Fits
    <3>1. v.kind \in {"analysing", "complete"} /\ (v.kind = "complete" => v.impacts = ~r.error)
      BY <1>1, <1>2, EventsTyped DEF LateQuiet, Event, Kinds
    <3> QED BY <1>2, <3>1 DEF Agree, Rank
  <2>2. Ordered' /\ Events' \subseteq Events \cup {e}
    BY <1>2, <1>6, <2>1, TopicCut DEF Trace, WorkerTypeOK
  <2>3. \A v \in Events' : v.id <= minted'
    BY <1>1, <1>2, <2>2 DEF Trace, LateQuiet
  <2>4. \A x \in runs' : RunQuiet(x)'
    BY <1>4, <2>2 DEF Trace, RunQuiet, Early, Middle
  <2>5. \A x \in late' : LateQuiet(x)'
    BY <1>3, <2>2 DEF Trace, LateQuiet
  <2>6. OwnIds'
    BY DEF Trace, OwnIds
  <2> QED BY <2>2, <2>3, <2>4, <2>5, <2>6 DEF Trace
<1> QED BY <1>5, <1>6

\* A step that leaves runs, ids and topic alone, or forgets all runs.
LEMMA TraceKept ==
  ASSUME Trace, UNCHANGED <<topic, minted>>,
         UNCHANGED <<runs, late>> \/ (runs' = {} /\ late' = {})
  PROVE  Trace'
<1>1. Ordered' /\ Events' = Events
  BY TopicKept DEF Trace
<1> QED BY <1>1 DEF Trace, RunQuiet, LateQuiet, OwnIds

LEMMA TraceStep == WorkerTypeOK /\ Trace /\ [Next]_vars => Trace'
<1> SUFFICES ASSUME WorkerTypeOK, Trace, [Next]_vars PROVE Trace'
  OBVIOUS
<1> USE DEF offsets, batches, tasks, market, stop, ends
<1>1. runs \subseteq Run /\ late \subseteq Run
  BY DEF WorkerTypeOK
<1>2. ASSUME NEW r \in runs, Classify(r) PROVE Trace'
  <2>1. r \in Run /\ RunQuiet(r) /\ r.at = "stage1" /\ r.attach = "no"
    BY <1>1, <1>2 DEF Trace, RunQuiet, Classify, Run
  <2>2. PICK q \in {[r EXCEPT !.at = "skip"], [r EXCEPT !.at = "skeleton"], WithSummary(r)} :
          Becomes(r, q)
    BY <1>2 DEF Classify
  <2>3. q \in Run
    BY <2>1, <2>2, RunSteps DEF Working
  <2>4. q.id = r.id /\ q.at # "sent" /\ q.attach = "no"
    BY <2>1, <2>2 DEF WithSummary, Run
  <2> QED BY <1>2, <2>1, <2>2, <2>3, <2>4, RunMoves DEF Classify, Early
<1>3. ASSUME NEW r \in runs, PublishSkeleton(r) PROVE Trace'
  BY <1>3, TraceSkeleton
<1>4. ASSUME NEW r \in Run, r.attach = "no"
      PROVE  LET q == Finalized(r)
             IN  q \in Run /\ q.id = r.id /\ q.at \in {"join", "final"}
                 /\ (q.attach # "no" => q.at = "final")
  <2>1. Finalized(r) \in Run
    BY RunSteps
  <2>2. Finalized(r) \in {[r EXCEPT !.at = "join"], [r EXCEPT !.at = "final"],
                         [r EXCEPT !.at = "final", !.attach = "later"],
                         [r EXCEPT !.at = "final", !.attach = "yes"]}
    BY DEF Finalized
  <2> QED BY <1>4, <2>1, <2>2 DEF Run
<1>5. ASSUME NEW r \in runs, Analyse(r) PROVE Trace'
  <2> DEFINE x == [r EXCEPT !.error = TRUE]
  <2>1. r \in Run /\ RunQuiet(r) /\ r.at = "analyse" /\ r.attach = "no"
    BY <1>1, <1>5 DEF Trace, RunQuiet, Analyse, Run
  <2>2. x \in Run /\ x.id = r.id /\ x.attach = "no"
    BY <2>1, RunSteps DEF Run
  <2>3. Becomes(r, Finalized(r)) \/ Becomes(r, Finalized(x))
    BY <1>5 DEF Analyse
  <2> HIDE DEF x
  <2>4. PICK q \in Run : Becomes(r, q) /\ q.id = r.id /\ q.at \in {"join", "final"}
                           /\ (q.attach # "no" => q.at = "final")
    BY <1>4, <2>1, <2>2, <2>3
  <2> QED BY <1>5, <2>1, <2>4, RunMoves DEF Analyse, Middle
<1>6. ASSUME NEW r \in runs, Join(r) PROVE Trace'
  <2>1. r \in Run /\ RunQuiet(r) /\ r.at = "join" /\ r.attach = "no"
    BY <1>1, <1>6 DEF Trace, RunQuiet, Join, Run
  <2> QED BY <1>4, <1>6, <2>1, RunMoves DEF Join, Middle
<1>7. ASSUME NEW r \in runs, PublishFinal(r) PROVE Trace'
  <2>1. CASE Published(EventOf(r)) /\ Becomes(r, [r EXCEPT !.at = "sent"])
             /\ late' = IF r.attach = "later" THEN late \cup {[r EXCEPT !.at = "sent"]}
                        ELSE late
    BY <1>7, <2>1, TraceReport DEF PublishFinal
  <2>2. CASE PublishFails(EventOf(r)) /\ Over(r) /\ UNCHANGED late
    BY <1>7, <2>2, RunEnds DEF PublishFinal, PublishFails, Over, Sending
  <2> QED BY <1>7, <2>1, <2>2 DEF PublishFinal
<1>8. ASSUME NEW r \in runs, Finish(r) PROVE Trace'
  <2>1. r.news \in News
    BY <1>1 DEF Run
  <2>2. CASE minted' = minted + 1 /\ Becomes(r, NewRun(r.news, "sleep"))
    BY <1>8, <2>1, <2>2, TraceNewRun DEF Finish, Becomes
  <2>3. CASE runs' = runs \ {r} /\ UNCHANGED minted
    BY <1>8, <2>3, RunEnds DEF Finish
  <2> QED BY <1>8, <2>2, <2>3 DEF Finish
<1>9. ASSUME NEW r \in runs, Retry(r) PROVE Trace'
  <2>1. r \in Run /\ RunQuiet(r) /\ r.at = "sleep" /\ r.attach = "no"
    BY <1>1, <1>9 DEF Trace, RunQuiet, Retry, Run
  <2>2. [r EXCEPT !.at = "stage1"] \in Run
    BY <2>1, RunSteps DEF Working
  <2> QED BY <1>9, <2>1, <2>2, RunMoves DEF Retry, Early, Run
<1>10. ASSUME NEW r \in runs, Timeout(r) PROVE Trace'
  BY <1>10, RunEnds DEF Timeout, Over
<1>11. ASSUME NEW r \in late, AttachSummary(r) PROVE Trace'
  BY <1>11, TraceLate DEF AttachSummary, Published, PublishFails, Cut
<1>12. ASSUME NEW r \in runs \cup late, SummaryEnds(r) PROVE Trace'
  <2>1. PICK outcome \in {"ready", "failed"} :
          LET q == [r EXCEPT !.summary = outcome]
          IN  \/ r \in runs /\ r.at # "sent" /\ Becomes(r, q) /\ UNCHANGED late
              \/ r \in late /\ late' = (late \ {r}) \cup {q} /\ UNCHANGED runs
    BY <1>12 DEF SummaryEnds
  <2> DEFINE q == [r EXCEPT !.summary = outcome]
  <2>2. r \in Run
    BY <1>1
  <2>3. q \in Run /\ q.id = r.id /\ q.at = r.at /\ q.attach = r.attach /\ q.error = r.error
    BY <2>2, RunSteps DEF Run
  <2>4. UNCHANGED <<topic, minted>>
    BY <1>12 DEF SummaryEnds
  <2> HIDE DEF q
  <2>5. CASE r \in runs /\ r.at # "sent" /\ Becomes(r, q) /\ UNCHANGED late
    <3>1. RunQuiet(r)
      BY <2>5 DEF Trace
    <3>2. r.at \in Early \cup Middle
      BY <2>2, <2>5 DEF Run, Working, Early, Middle
    <3> QED BY <2>3, <2>4, <2>5, <3>1, <3>2, RunMoves DEF RunQuiet
  <2>6. CASE r \in late /\ late' = (late \ {r}) \cup {q} /\ UNCHANGED runs
    <3>1. Ordered' /\ Events' = Events
      BY <2>4, TopicKept DEF Trace
    <3> QED BY <2>3, <2>4, <2>6, <3>1 DEF Trace, RunQuiet, LateQuiet, OwnIds
  <2> QED BY <2>1, <2>5, <2>6 DEF q
<1>13. ASSUME NEW f \in Flushers, FlushNext(f) PROVE Trace'
  <2>1. CASE Triage(f)
    BY <2>1, TraceKept DEF Triage
  <2>2. ASSUME NEW n \in News, PublishBatch(f, n) PROVE Trace'
    BY <2>2, TraceBatch DEF PublishBatch, Published, PublishFails, Cut
  <2> QED BY <1>13, <2>1, <2>2 DEF FlushNext
<1>14. CASE StartRun
  <2>1. hand.news \in News
    BY <1>14 DEF StartRun, WorkerTypeOK, Free
  <2> QED BY <1>14, <2>1, TraceNewRun DEF StartRun
<1>15. CASE TimerFlush \/ Deliver \/ Terminate \/ Bell
  BY <1>15, TraceKept DEF TimerFlush, Deliver, Terminate, Bell
<1>16. CASE ShutdownNext \/ Crash
  BY <1>16, TraceKept DEF ShutdownNext, DrainTasks, DrainSummaries, StopEnds, Kill, Crash,
                          RestartAbruptly, Restart
<1>17. CASE RelayNext /\ UNCHANGED workerVars
  BY <1>17, TraceKept DEF RelayNext, Take, CacheReport, Persist, RelayCrash, workerVars
<1>18. CASE UNCHANGED vars
  BY <1>18, TraceKept DEF vars, workerVars
<1> QED
  BY <1>2, <1>3, <1>5, <1>6, <1>7, <1>8, <1>9, <1>10, <1>11, <1>12, <1>13, <1>14, <1>15,
     <1>16, <1>17, <1>18 DEF Next, WorkerNext, RunNext

(***************************************************************************)
(* What the relay stores.                                                  *)
(***************************************************************************)

\* The event up to which the relay is through with the topic, this time.
Handled == IF rat = "idle" THEN rpos ELSE rpos - 1

\* The row of an event that was stored comes from it or, once the relay is
\* through with it again, from a later event of its report.
RowsFollow ==
  /\ rat # "idle" => rpos \notin saved
  /\ \A k \in saved : \E j \in reports : topic[j].id = topic[k].id /\ (k <= Handled => j >= k)

LEMMA RelayFacts ==
  PipelineTypeOK =>
            /\ rpos \in Nat /\ Len(topic) \in Nat /\ rcommitted \in Nat
            /\ DOMAIN topic = 1..Len(topic)
            /\ \A k \in saved \cup reports \cup audit : k \in DOMAIN topic
            /\ \A k \in DOMAIN topic : topic[k] \in Event
            /\ rat # "idle" => rpos \in DOMAIN topic
<1> SUFFICES ASSUME PipelineTypeOK
    PROVE  /\ rpos \in Nat /\ Len(topic) \in Nat /\ rcommitted \in Nat
           /\ DOMAIN topic = 1..Len(topic)
           /\ \A k \in saved \cup reports \cup audit : k \in DOMAIN topic
           /\ \A k \in DOMAIN topic : topic[k] \in Event
           /\ rat # "idle" => rpos \in DOMAIN topic
  OBVIOUS
<1>1. topic \in Seq(Event)
  BY DEF PipelineTypeOK, WorkerTypeOK
<1>2. Len(topic) \in Nat /\ DOMAIN topic = 1..Len(topic)
      /\ \A k \in DOMAIN topic : topic[k] \in Event
  BY <1>1
<1> QED BY <1>2 DEF PipelineTypeOK, RelayTypeOK

LEMMA RowsFollowStep == PipelineTypeOK /\ RowsFollow /\ [Next]_vars => RowsFollow'
<1> SUFFICES ASSUME PipelineTypeOK, RowsFollow, [Next]_vars PROVE RowsFollow'
  OBVIOUS
<1>1. Grows
  BY TopicGrows DEF PipelineTypeOK
<1>2. /\ rpos \in Nat /\ rcommitted \in Nat
      /\ saved \subseteq DOMAIN topic /\ reports \subseteq DOMAIN topic
      /\ DOMAIN topic \subseteq Nat
      /\ rat # "idle" => rpos \in DOMAIN topic
  BY RelayFacts
<1>3. CASE UNCHANGED relayVars
  BY <1>1, <1>2, <1>3 DEF relayVars, tables, RowsFollow, Handled, Grows
<1>4. CASE Take
  <2>1. Handled' = Handled /\ saved' \subseteq saved /\ reports' = reports /\ topic' = topic
        /\ rpos' \notin saved'
    BY <1>2, <1>4 DEF Take, Handled
  <2> QED BY <2>1 DEF RowsFollow
<1>5. CASE CacheReport
  BY <1>5 DEF CacheReport, tables, RowsFollow, Handled
<1>6. CASE Persist
  <2>1. /\ rat = "db" /\ rat' = "idle" /\ rpos' = rpos /\ topic' = topic
        /\ Handled = rpos - 1 /\ Handled' = rpos
    BY <1>6 DEF Persist, Handled
  <2>2. CASE UNCHANGED tables
    <3>1. \A k \in saved : k <= Handled' => k <= Handled
      BY <1>2, <2>1 DEF RowsFollow
    <3> QED BY <2>1, <2>2, <3>1 DEF tables, RowsFollow
  <2>3. CASE UpsertReport /\ saved' = saved \cup {rpos}
    <3>1. reports' = {k \in reports : topic[k].id # topic[rpos].id} \cup {rpos}
      BY <2>3 DEF UpsertReport
    <3> SUFFICES ASSUME NEW k \in saved'
        PROVE  \E j \in reports' : topic[j].id = topic[k].id /\ (k <= rpos => j >= k)
      BY <2>1 DEF RowsFollow
    <3>2. CASE topic[k].id = topic[rpos].id
      BY <1>2, <2>3, <3>1, <3>2
    <3>3. CASE topic[k].id # topic[rpos].id
      <4>1. k \in saved /\ k # rpos /\ (k <= rpos => k <= Handled)
        BY <1>2, <2>1, <2>3, <3>3
      <4>2. PICK j \in reports : topic[j].id = topic[k].id /\ (k <= Handled => j >= k)
        BY <4>1 DEF RowsFollow
      <4> QED BY <3>1, <3>3, <4>1, <4>2
    <3> QED BY <3>2, <3>3
  <2> QED BY <1>6, <2>2, <2>3 DEF Persist, tables
<1>7. CASE RelayCrash
  <2>1. /\ rpos' \in rcommitted..rpos /\ rat' = "idle" /\ topic' = topic
        /\ saved' = saved /\ reports' = reports
    BY <1>7 DEF RelayCrash, tables
  <2>2. \A k \in saved : k <= Handled' => k <= Handled
    BY <1>2, <2>1 DEF Handled, RowsFollow
  <2> QED BY <2>1, <2>2 DEF RowsFollow
<1> QED BY <1>3, <1>4, <1>5, <1>6, <1>7 DEF Next, RelayNext, vars

RowsTrace == PipelineTypeOK /\ Trace /\ RowsFollow

LEMMA RowsTraceCorrect == Spec => []RowsTrace
<1>1. Init => RowsTrace
  BY InitTyped, TraceInit DEF RowsTrace, RowsFollow, Init, RelayInit
<1>2. RowsTrace /\ [Next]_vars => RowsTrace'
  BY TypedInductive, TraceStep, RowsFollowStep DEF RowsTrace, PipelineTypeOK
<1> QED BY <1>1, <1>2, PTL DEF Spec

\* When the relay has caught up, no row of impact_reports is behind an event
\* of its report whose last delivery was stored.
THEOREM NewestReportHolds == Spec => []NewestReport
<1>1. RowsTrace => NewestReport
  <2> SUFFICES ASSUME RowsTrace, CaughtUp, NEW k \in saved
      PROVE  \E j \in reports : topic[j].id = topic[k].id
                                  /\ Rank[topic[j].kind] >= Rank[topic[k].kind]
    BY DEF NewestReport
  <2>1. k \in DOMAIN topic /\ DOMAIN topic = 1..Len(topic) /\ Len(topic) \in Nat
        /\ reports \subseteq DOMAIN topic /\ \A i \in DOMAIN topic : topic[i] \in Event
    BY RelayFacts DEF RowsTrace
  <2>2. k <= Handled
    BY <2>1 DEF Handled, CaughtUp
  <2>3. PICK j \in reports : topic[j].id = topic[k].id /\ j >= k
    BY <2>2 DEF RowsTrace, RowsFollow
  <2>4. Rank[topic[j].kind] >= Rank[topic[k].kind]
    <3>1. CASE j = k
      <4>1. Rank[topic[k].kind] \in Nat
        BY <2>1 DEF Rank, Event, Kinds
      <4> QED BY <3>1, <4>1
    <3>2. CASE k < j
      <4>1. Rank[topic[k].kind] <= Rank[topic[j].kind]
        BY <2>1, <2>3, <3>2 DEF RowsTrace, Trace, Ordered, Agree
      <4>2. Rank[topic[k].kind] \in Nat /\ Rank[topic[j].kind] \in Nat
        BY <2>1, <2>3 DEF Rank, Event, Kinds
      <4> QED BY <4>1, <4>2
    <3> QED BY <2>1, <2>3, <3>1, <3>2
  <2> QED BY <2>3, <2>4
<1> QED BY <1>1, RowsTraceCorrect, PTL

SummaryTyped == PipelineTypeOK /\ SummaryKept

\* A summary that was stored stays.
THEOREM SummaryKeptHolds == Spec => []SummaryKept
<1>1. Init => SummaryTyped
  BY InitTyped DEF SummaryTyped, SummaryKept, Init, RelayInit
<1>2. SummaryTyped /\ [Next]_vars => SummaryTyped'
  <2> SUFFICES ASSUME PipelineTypeOK, SummaryKept, [Next]_vars PROVE SummaryKept'
    BY TypedInductive DEF SummaryTyped
  <2>1. Grows
    BY TopicGrows DEF PipelineTypeOK
  <2>2. saved \subseteq DOMAIN topic /\ (rat # "idle" => rpos \in DOMAIN topic)
        /\ \A k \in DOMAIN topic : topic[k] \in Event
    BY RelayFacts
  <2>3. CASE UNCHANGED relayVars
    BY <2>1, <2>2, <2>3 DEF relayVars, tables, SummaryKept, Grows
  <2>4. CASE Take \/ CacheReport \/ RelayCrash
    BY <2>4 DEF Take, CacheReport, RelayCrash, tables, SummaryKept
  <2>5. CASE Persist
    <3>1. CASE UNCHANGED tables
      BY <2>5, <3>1 DEF Persist, tables, SummaryKept
    <3>2. CASE UpsertItem /\ saved' = saved \cup {rpos}
      <4> DEFINE old == {r \in items : r.news = topic[rpos].news}
      <4>1. items' = (items \ old) \cup
              {[news |-> topic[rpos].news,
                summary |-> topic[rpos].summary \/ \E r \in old : r.summary]}
        BY <3>2 DEF UpsertItem
      <4>2. ASSUME NEW k \in saved', topic[k].summary
            PROVE  [news |-> topic[k].news, summary |-> TRUE] \in items'
        <5>1. CASE k = rpos
          <6>1. (topic[rpos].summary \/ \E r \in old : r.summary) = TRUE
            BY <4>2, <5>1
          <6> QED BY <4>1, <5>1, <6>1
        <5>2. CASE k \in saved
          <6> DEFINE i == [news |-> topic[k].news, summary |-> TRUE]
          <6>1. i \in items /\ i.news = topic[k].news /\ i.summary
            BY <4>2, <5>2 DEF SummaryKept
          <6>2. CASE i \notin old
            BY <4>1, <6>1, <6>2
          <6>3. CASE i \in old
            <7>1. topic[k].news = topic[rpos].news
              BY <6>1, <6>3
            <7>2. (topic[rpos].summary \/ \E r \in old : r.summary) = TRUE
              BY <6>1, <6>3
            <7> QED BY <4>1, <7>1, <7>2
          <6> QED BY <6>2, <6>3
        <5> QED BY <3>2, <5>1, <5>2
      <4>3. topic' = topic
        BY <2>5 DEF Persist
      <4> QED BY <4>2, <4>3 DEF SummaryKept
    <3> QED BY <2>5, <3>1, <3>2 DEF Persist
  <2> QED BY <2>3, <2>4, <2>5 DEF Next, RelayNext, vars
<1>3. SummaryTyped => SummaryKept
  BY DEF SummaryTyped
<1> QED BY <1>1, <1>2, <1>3, PTL DEF Spec

AuditTrace == PipelineTypeOK /\ Trace /\ AuditTrue

\* Each report that shows a result has one audit row, with that result.
THEOREM AuditTrueHolds == Spec => []AuditTrue
<1>1. Init => AuditTrace
  BY InitTyped, TraceInit DEF AuditTrace, AuditTrue, Init, RelayInit
<1>2. AuditTrace /\ [Next]_vars => AuditTrace'
  <2> SUFFICES ASSUME PipelineTypeOK, Trace, AuditTrue, [Next]_vars PROVE AuditTrue'
    BY TypedInductive, TraceStep DEF AuditTrace, PipelineTypeOK
  <2>1. Grows
    BY TopicGrows DEF PipelineTypeOK
  <2>2. /\ reports \subseteq DOMAIN topic /\ audit \subseteq DOMAIN topic
        /\ rat # "idle" => rpos \in DOMAIN topic
        /\ DOMAIN topic = 1..Len(topic) /\ Len(topic) \in Nat
    BY RelayFacts
  <2>3. CASE UNCHANGED relayVars
    BY <2>1, <2>2, <2>3 DEF relayVars, tables, AuditTrue, Grows
  <2>4. CASE Take \/ CacheReport \/ RelayCrash
    BY <2>4 DEF Take, CacheReport, RelayCrash, tables, AuditTrue
  <2>5. CASE Persist
    <3> DEFINE e == topic[rpos]
    <3>1. topic' = topic /\ rpos \in DOMAIN topic
      BY <2>2, <2>5 DEF Persist
    <3>2. CASE UNCHANGED tables
      BY <3>1, <3>2 DEF tables, AuditTrue
    <3>3. CASE UpsertReport /\ InsertAudit
      <4>1. reports' = {k \in reports : topic[k].id # e.id} \cup {rpos}
        BY <3>3 DEF UpsertReport
      <4>2. audit \subseteq audit' /\ audit' \subseteq audit \cup {rpos}
            /\ (rpos \in audit' => rpos \in audit
                 \/ (e.kind # "analysing" /\ \A k \in audit : topic[k].id # e.id))
            /\ (e.kind # "analysing" => \E k \in audit' : topic[k].id = e.id)
        BY <3>3 DEF InsertAudit
      <4>3. \A k \in audit' : topic[k].kind # "analysing"
        BY <4>2 DEF AuditTrue
      <4>4. \A j, k \in audit' : topic[j].id = topic[k].id => j = k
        BY <4>2 DEF AuditTrue
      <4>5. ASSUME NEW k \in audit', topic[k].id = e.id, e.kind # "analysing"
            PROVE  topic[k].impacts = e.impacts
        <5>1. k \in 1..Len(topic) /\ rpos \in 1..Len(topic) /\ topic[k].kind # "analysing"
          BY <2>2, <3>1, <4>2, <4>3
        <5>2. CASE k < rpos
          BY <2>2, <4>5, <5>1, <5>2 DEF Trace, Ordered, Agree
        <5>3. CASE rpos < k
          BY <2>2, <4>5, <5>1, <5>3 DEF Trace, Ordered, Agree
        <5>4. CASE k = rpos
          BY <5>4
        <5> QED BY <5>1, <5>2, <5>3, <5>4
      <4>6. ASSUME NEW j \in reports', topic[j].kind # "analysing"
            PROVE  \E k \in audit' : topic[k].id = topic[j].id
                                       /\ topic[k].impacts = topic[j].impacts
        <5>1. CASE j = rpos
          BY <4>2, <4>5, <4>6, <5>1
        <5>2. CASE j \in reports
          BY <4>2, <4>6, <5>2 DEF AuditTrue
        <5> QED BY <4>1, <5>1, <5>2
      <4> HIDE DEF e
      <4> QED BY <3>1, <4>3, <4>4, <4>6 DEF AuditTrue
    <3> QED BY <2>5, <3>2, <3>3 DEF Persist
  <2> QED BY <2>3, <2>4, <2>5 DEF Next, RelayNext, vars
<1>3. AuditTrace => AuditTrue
  BY DEF AuditTrace
<1> QED BY <1>1, <1>2, <1>3, PTL DEF Spec

(***************************************************************************)
(* The slots of the worker.                                                *)
(***************************************************************************)
Held == {r \in runs : r.at \in Working}

Counted == IsFiniteSet(runs) /\ slots \in Nat /\ slots + Cardinality(Held) = Slots

LEMMA HeldFinite == Counted => IsFiniteSet(Held) /\ Cardinality(Held) \in Nat
<1> SUFFICES ASSUME Counted PROVE IsFiniteSet(Held) /\ Cardinality(Held) \in Nat
  OBVIOUS
<1>1. Held \subseteq runs /\ IsFiniteSet(runs)
  BY DEF Held, Counted
<1>2. IsFiniteSet(Held)
  BY <1>1, FS_Subset
<1> QED BY <1>2, FS_CardinalityType

\* A run keeps its slot.
LEMMA SlotKept ==
  ASSUME Counted, Trace, NEW r \in runs, NEW q, Becomes(r, q), q.id = r.id,
         r.at \in Working <=> q.at \in Working, UNCHANGED slots
  PROVE  Counted'
<1>1. q \notin runs \ {r}
  BY DEF Trace, OwnIds
<1>2. IsFiniteSet(runs')
  BY FS_AddElement, FS_RemoveElement DEF Counted, Becomes
<1>3. CASE r.at \notin Working
  BY <1>2, <1>3 DEF Counted, Becomes, Held
<1>4. CASE r.at \in Working
  <2>1. Held' = (Held \ {r}) \cup {q} /\ r \in Held /\ q \notin Held \ {r}
    BY <1>1, <1>4 DEF Held, Becomes
  <2>2. IsFiniteSet(Held \ {r}) /\ Cardinality(Held \ {r}) = Cardinality(Held) - 1
    BY <2>1, HeldFinite, FS_RemoveElement
  <2>3. Cardinality(Held') = Cardinality(Held \ {r}) + 1
    BY <2>1, <2>2, FS_AddElement
  <2> QED BY <1>2, <2>2, <2>3, HeldFinite DEF Counted
<1> QED BY <1>3, <1>4

\* A run gives its slot back.
LEMMA SlotFreed ==
  ASSUME Counted, NEW r \in runs, r.at \in Working, slots' = slots + 1,
         NEW q, q.at \notin Working,
         runs' = runs \ {r} \/ runs' = (runs \ {r}) \cup {q}
  PROVE  Counted'
<1>1. IsFiniteSet(runs')
  <2>1. IsFiniteSet(runs \ {r})
    BY FS_RemoveElement DEF Counted
  <2>2. IsFiniteSet((runs \ {r}) \cup {q})
    BY <2>1, FS_AddElement
  <2> QED BY <2>1, <2>2
<1>2. Held' = Held \ {r} /\ r \in Held
  BY DEF Held
<1>3. Cardinality(Held') = Cardinality(Held) - 1
  BY <1>2, HeldFinite, FS_RemoveElement
<1> QED BY <1>1, <1>3, HeldFinite DEF Counted

\* A run takes a slot, a new one or one that waited for it.
LEMMA SlotTaken ==
  ASSUME Counted, slots > 0, slots' = slots - 1, NEW S \in SUBSET runs, NEW q,
         \A r \in runs \ S : r.at \notin Working, q \notin runs, q.at \in Working,
         runs' = S \cup {q}
  PROVE  Counted'
<1>1. IsFiniteSet(S) /\ IsFiniteSet(runs')
  BY FS_Subset, FS_AddElement DEF Counted
<1>2. Held' = Held \cup {q} /\ q \notin Held
  BY DEF Held
<1>3. Cardinality(Held') = Cardinality(Held) + 1
  BY <1>2, HeldFinite, FS_AddElement
<1> QED BY <1>1, <1>3, HeldFinite DEF Counted

LEMMA SlotsStep == WorkerTypeOK /\ Trace /\ Counted /\ [Next]_vars => Counted'
<1> SUFFICES ASSUME WorkerTypeOK, Trace, Counted, [Next]_vars PROVE Counted'
  OBVIOUS
<1> USE DEF offsets, batches, tasks, market, stop, ends
<1>1. runs \subseteq Run /\ late \subseteq Run
  BY DEF WorkerTypeOK
<1>2. ASSUME UNCHANGED <<runs, slots>> PROVE Counted'
  BY <1>2 DEF Counted, Held
<1>3. \A r \in Run : /\ \A at \in Working : [r EXCEPT !.at = at].id = r.id
                                              /\ [r EXCEPT !.at = at].at = at
                     /\ WithSummary(r).id = r.id /\ WithSummary(r).at \in Working
  BY DEF Run, WithSummary, Working
<1>4. ASSUME NEW r \in Run PROVE Finalized(r).id = r.id /\ Finalized(r).at \in Working
  BY <1>4 DEF Run, Finalized, Working
<1>5. ASSUME NEW r \in runs, Classify(r) PROVE Counted'
  BY <1>1, <1>3, <1>5, SlotKept DEF Classify, Working
<1>6. ASSUME NEW r \in runs, PublishSkeleton(r) PROVE Counted'
  BY <1>1, <1>3, <1>6, SlotKept DEF PublishSkeleton, Working
<1>7. ASSUME NEW r \in runs, Analyse(r) PROVE Counted'
  <2> DEFINE x == [r EXCEPT !.error = TRUE]
  <2>1. r \in Run
    BY <1>1
  <2>2. x \in Run /\ x.id = r.id
    BY <2>1, RunSteps DEF Run
  <2>3. Becomes(r, Finalized(r)) \/ Becomes(r, Finalized(x))
    BY <1>7 DEF Analyse
  <2> HIDE DEF x
  <2> QED BY <1>4, <1>7, <2>1, <2>2, <2>3, SlotKept DEF Analyse, Working
<1>8. ASSUME NEW r \in runs, Join(r) PROVE Counted'
  BY <1>1, <1>4, <1>8, SlotKept DEF Join, Working
<1>9. [at |-> "sleep"].at \notin Working
  BY DEF Working
<1>10. ASSUME NEW r \in runs, r.at \in Working, Over(r) PROVE Counted'
  BY <1>9, <1>10, SlotFreed DEF Over
<1>11. ASSUME NEW r \in runs, PublishFinal(r) PROVE Counted'
  <2>1. r.at \in Working /\ "sent" \in Working
    BY <1>11 DEF PublishFinal, Working
  <2>2. CASE Over(r)
    BY <1>10, <2>1, <2>2
  <2>3. CASE Becomes(r, [r EXCEPT !.at = "sent"]) /\ UNCHANGED slots
    BY <1>1, <1>3, <2>1, <2>3, SlotKept
  <2> QED BY <1>11, <2>2, <2>3 DEF PublishFinal
<1>12. ASSUME NEW r \in runs, Finish(r) PROVE Counted'
  <2>1. r.at \in Working /\ NewRun(r.news, "sleep").at \notin Working
    BY <1>12 DEF Finish, Working, NewRun
  <2> QED BY <1>12, <2>1, SlotFreed DEF Finish, Becomes
<1>13. ASSUME NEW r \in runs, Retry(r) PROVE Counted'
  <2> DEFINE q == [r EXCEPT !.at = "stage1"]
  <2>1. q.id = r.id /\ q.at = "stage1" /\ r.at = "sleep"
    BY <1>1, <1>13 DEF Retry, Run
  <2>2. q \notin runs
    BY <2>1 DEF Trace, OwnIds
  <2>3. runs' = (runs \ {r}) \cup {q} /\ slots > 0 /\ slots' = slots - 1
    BY <1>13 DEF Retry, Becomes
  <2>4. "stage1" \in Working /\ "sleep" \notin Working
    BY DEF Working
  <2> HIDE DEF q
  <2> QED BY <2>1, <2>2, <2>3, <2>4, SlotTaken
<1>14. ASSUME NEW r \in runs, Timeout(r) PROVE Counted'
  BY <1>10, <1>14 DEF Timeout
<1>15. ASSUME NEW r \in late, AttachSummary(r) PROVE Counted'
  BY <1>2, <1>15 DEF AttachSummary
<1>16. ASSUME NEW r \in runs \cup late, SummaryEnds(r) PROVE Counted'
  <2>1. \A s \in {"ready", "failed"} : LET q == [r EXCEPT !.summary = s]
                                       IN  q.id = r.id /\ q.at = r.at
    BY <1>1 DEF Run
  <2> QED BY <1>2, <1>16, <2>1, SlotKept DEF SummaryEnds
<1>17. ASSUME NEW f \in Flushers, FlushNext(f) PROVE Counted'
  BY <1>2, <1>17 DEF FlushNext, Triage, PublishBatch
<1>18. CASE StartRun
  <2> DEFINE q == NewRun(hand.news, "stage1")
  <2>1. q.id = minted + 1 /\ q.at \in Working /\ minted \in Nat
    BY DEF NewRun, Working, WorkerTypeOK
  <2>2. \A r \in runs : r.id \in Nat /\ r.id <= minted
    BY <1>1 DEF Trace, RunQuiet, Run
  <2>3. q \notin runs
    BY <2>1, <2>2
  <2>4. runs' = runs \cup {q} /\ slots > 0 /\ slots' = slots - 1
    BY <1>18 DEF StartRun
  <2> HIDE DEF q
  <2> QED BY <2>1, <2>3, <2>4, SlotTaken
<1>19. CASE TimerFlush \/ Deliver \/ Terminate \/ Bell
  BY <1>2, <1>19 DEF TimerFlush, Deliver, Terminate, Bell
<1>20. CASE runs' = {} /\ slots' = Slots
  <2>1. Held' = {} /\ IsFiniteSet(runs') /\ Cardinality({}) = 0
    BY <1>20, FS_EmptySet DEF Held
  <2> QED BY <1>20, <2>1, WorkerAssumption DEF Counted
<1>21. CASE ShutdownNext \/ Crash
  BY <1>2, <1>20, <1>21 DEF ShutdownNext, DrainTasks, DrainSummaries, StopEnds, Kill, Crash,
                            RestartAbruptly, Restart
<1>22. CASE RelayNext /\ UNCHANGED workerVars
  BY <1>2, <1>22 DEF workerVars
<1>23. CASE UNCHANGED vars
  BY <1>2, <1>23 DEF vars, workerVars
<1> QED
  BY <1>5, <1>6, <1>7, <1>8, <1>11, <1>12, <1>13, <1>14, <1>15, <1>16, <1>17, <1>18, <1>19,
     <1>21, <1>22, <1>23 DEF Next, WorkerNext, RunNext

CountedTrace == PipelineTypeOK /\ Trace /\ Counted

\* Every slot is free or held by one run.
THEOREM SlotsConservedHolds == Spec => []SlotsConserved
<1>1. Init => CountedTrace
  <2> SUFFICES ASSUME Init PROVE Counted
    BY InitTyped, TraceInit DEF CountedTrace
  <2>1. runs = {} /\ slots = Slots /\ Held = {}
    BY DEF Init, WorkerInit, Held
  <2> QED BY <2>1, FS_EmptySet, WorkerAssumption DEF Counted
<1>2. CountedTrace /\ [Next]_vars => CountedTrace'
  BY TypedInductive, TraceStep, SlotsStep DEF CountedTrace, PipelineTypeOK
<1>3. CountedTrace => SlotsConserved
  BY DEF CountedTrace, Counted, Held, SlotsConserved
<1> QED BY <1>1, <1>2, <1>3, PTL DEF Spec

(***************************************************************************)
(* No item is dropped without a trace.                                     *)
(***************************************************************************)

\* What became of the items.
Kept == Reported \cup logged \cup lost \cup Memory

\* A report stands behind a run that says so; a caller of _flush_batch that
\* rests holds no items, the consumer works on a batch only while its hand
\* waits for it, and the shutdown only at its end.
Placed ==
  /\ \A r \in runs : r.at = "sent" => r.news \in Reported
  /\ \A f \in Flushers : batch[f].at \in {"idle", "ended"} => batch[f].items = {}
  /\ batch["consumer"].at # "idle" => hand.at = "flush"
  /\ svc # "flush" => batch["stop"].at = "idle"

LEMMA ReportedGrows == Grows => Reported \subseteq Reported'
  BY DEF Grows, Reported

LEMMA ReportedNew ==
  ASSUME topic \in Seq(Event), NEW e \in Event, e.kind = "complete", Sent(e)
  PROVE  e.news \in Reported'
<1>1. Len(topic) + 1 \in DOMAIN topic' /\ topic'[Len(topic) + 1] = e
  BY SentTyped
<1> QED BY <1>1 DEF Reported

\* The places where the process has items.
LEMMA MemoryParts ==
  /\ \A r \in runs : r.news \in Memory
  /\ buffer \subseteq Memory
  /\ \A f \in Flushers : batch[f].items \subseteq Memory
  /\ hand.news # NoNews => hand.news \in Memory
  /\ \A n \in Memory : \/ \E r \in runs : r.news = n
                       \/ n \in buffer
                       \/ \E f \in Flushers : n \in batch[f].items
                       \/ n = hand.news /\ n # NoNews
  BY DEF Memory

LEMMA MemoryPartsNext ==
  /\ \A r \in runs' : r.news \in Memory'
  /\ buffer' \subseteq Memory'
  /\ \A f \in Flushers : batch'[f].items \subseteq Memory'
  /\ hand'.news # NoNews => hand'.news \in Memory'
  BY DEF Memory

\* A step keeps what it leaves where it is, and what it puts somewhere else.
LEMMA KeptStep ==
  ASSUME Grows, logged \subseteq logged', lost \subseteq lost',
         \A r \in runs : r.news \in Kept',
         buffer \subseteq Kept',
         \A f \in Flushers : batch[f].items \subseteq Kept',
         hand.news # NoNews => hand.news \in Kept'
  PROVE  Kept \subseteq Kept'
<1>1. Reported \subseteq Kept'
  BY ReportedGrows DEF Kept
<1>2. logged \subseteq Kept' /\ lost \subseteq Kept'
  BY DEF Kept
<1>3. Memory \subseteq Kept'
  BY MemoryParts
<1> QED BY <1>1, <1>2, <1>3 DEF Kept

\* A run goes on with its item, or its item is accounted for.
LEMMA KeptRun ==
  ASSUME WorkerTypeOK, Grows, Placed, NEW r \in runs, NEW q,
         \/ runs' = (runs \ {r}) \cup {q} /\ q.news = r.news
         \/ runs' = runs \ {r} /\ r.news \in Reported' \cup logged',
         q.at = "sent" => r.news \in Reported',
         logged \subseteq logged', lost \subseteq lost',
         UNCHANGED <<hand, buffer, batch, svc>>
  PROVE  Kept \subseteq Kept' /\ Placed'
<1>1. \A x \in runs : x.news \in Kept'
  BY MemoryPartsNext DEF Kept
<1>2. Kept \subseteq Kept'
  BY <1>1, KeptStep, MemoryPartsNext DEF Kept
<1>3. Placed'
  BY ReportedGrows DEF Placed
<1> QED BY <1>2, <1>3

\* A batch goes on with the items that are left.
LEMMA KeptBatch ==
  ASSUME WorkerTypeOK, Grows, Placed, NEW f \in Flushers, NEW S \in SUBSET batch[f].items,
         batch[f].at \in {"triage", "publish"}, Remaining(f, S),
         batch[f].items \ S \subseteq Reported' \cup logged',
         logged \subseteq logged', lost \subseteq lost',
         UNCHANGED <<runs, buffer, svc>>
  PROVE  Kept \subseteq Kept' /\ Placed'
<1>1. /\ batch'[f].items = S
      /\ batch'[f].at \in {"publish", "idle", "ended"}
      /\ batch'[f].at = "publish" \/ S = {}
      /\ \A g \in Flushers \ {f} : batch'[g] = batch[g]
  BY DEF Remaining, WorkerTypeOK, Resting
<1>2. hand'.news = hand.news /\ (hand' = hand \/ (f = "consumer" /\ S = {}))
  BY DEF Remaining, WorkerTypeOK, Free
<1>3. batch[f].items \subseteq Kept'
  BY <1>1, MemoryPartsNext DEF Kept
<1>4. \A g \in Flushers : batch[g].items \subseteq Kept'
  BY <1>1, <1>3, MemoryPartsNext DEF Kept
<1>5. Kept \subseteq Kept'
  BY <1>2, <1>4, KeptStep, MemoryPartsNext DEF Kept
<1>6. f = "consumer" /\ S = {} => batch'[f].at = "idle"
  BY DEF Remaining, WorkerTypeOK, Resting
<1>7. f = "stop" => svc = "flush"
  BY DEF Placed
<1>8. Placed'
  <2>1. \A g \in Flushers : batch'[g].at \in {"idle", "ended"} => batch'[g].items = {}
    BY <1>1 DEF Placed
  <2>2. batch'["consumer"].at # "idle" => hand'.at = "flush"
    <3>1. CASE f = "consumer"
      BY <1>1, <1>2, <1>6, <3>1 DEF Placed
    <3>2. CASE f # "consumer"
      BY <1>1, <1>2, <3>2 DEF Placed, Flushers
    <3> QED BY <3>1, <3>2
  <2>3. svc' # "flush" => batch'["stop"].at = "idle"
    BY <1>1, <1>7 DEF Placed, Flushers
  <2> QED BY <2>1, <2>2, <2>3, ReportedGrows DEF Placed
<1> QED BY <1>5, <1>8

\* The buffer becomes a batch.
LEMMA KeptFlush ==
  ASSUME WorkerTypeOK, Grows, Placed, NEW f \in Flushers, NEW S, buffer \subseteq S,
         StartFlush(f, S), batch[f].at = "idle",
         hand.news # NoNews => hand'.news = hand.news,
         f = "consumer" => hand'.at = "flush",
         f # "consumer" => hand' = hand,
         f = "stop" => svc' = "flush",
         f # "stop" => svc' = svc,
         UNCHANGED <<runs, logged, lost>>
  PROVE  Kept \subseteq Kept' /\ Placed' /\ S \subseteq Kept'
<1>1. /\ batch'[f] = [at |-> "triage", items |-> S]
      /\ \A g \in Flushers \ {f} : batch'[g] = batch[g]
  BY DEF StartFlush, WorkerTypeOK
<1>2. S \subseteq Kept'
  BY <1>1, MemoryPartsNext DEF Kept
<1>3. \A g \in Flushers : batch[g].items \subseteq Kept'
  BY <1>1, MemoryPartsNext DEF Kept, Placed
<1>4. Kept \subseteq Kept'
  BY <1>2, <1>3, KeptStep, MemoryPartsNext DEF Kept
<1>5. Placed'
  <2>1. \A g \in Flushers : batch'[g].at \in {"idle", "ended"} => batch'[g].items = {}
    BY <1>1 DEF Placed
  <2>2. batch'["consumer"].at # "idle" => hand'.at = "flush"
    BY <1>1 DEF Placed, Flushers
  <2>3. svc' # "flush" => batch'["stop"].at = "idle"
    BY <1>1 DEF Placed, Flushers
  <2> QED BY <2>1, <2>2, <2>3, ReportedGrows DEF Placed
<1> QED BY <1>2, <1>4, <1>5

LEMMA KeptNext ==
  WorkerTypeOK /\ Placed /\ [Next]_vars
    => /\ Kept \subseteq Kept' /\ Placed'
       /\ Deliver => inbox[pos + 1] \in Kept'
<1> SUFFICES ASSUME WorkerTypeOK, Placed, [Next]_vars
    PROVE  /\ Kept \subseteq Kept' /\ Placed'
           /\ Deliver => inbox[pos + 1] \in Kept'
  OBVIOUS
<1> USE DEF offsets, batches, tasks, market, stop, ends
<1> DEFINE Goal == Kept \subseteq Kept' /\ Placed'
<1>1. runs \subseteq Run /\ late \subseteq Run /\ topic \in Seq(Event) /\ Grows
  BY TopicGrows DEF WorkerTypeOK
<1>2. ASSUME UNCHANGED <<runs, hand, buffer, batch, logged, lost>>,
             svc' # "flush" => svc # "flush"
      PROVE  Goal
  <2>1. Kept \subseteq Kept'
    BY <1>1, <1>2, KeptStep, MemoryPartsNext DEF Kept
  <2>2. Placed'
    BY <1>1, <1>2, ReportedGrows DEF Placed
  <2> QED BY <2>1, <2>2
<1>3. ASSUME NEW r \in runs, NEW q, Becomes(r, q), q.news = r.news,
             q.at = "sent" => r.news \in Reported',
             UNCHANGED <<hand, buffer, batch, svc, logged, lost>>
      PROVE  Goal
  BY <1>1, <1>3, KeptRun DEF Becomes
<1>4. \A r \in Run : /\ \A at \in Working : [r EXCEPT !.at = at].news = r.news
                                              /\ [r EXCEPT !.at = at].at = at
                     /\ WithSummary(r).news = r.news /\ WithSummary(r).at = "analyse"
  BY DEF Run, WithSummary
<1>5. ASSUME NEW r \in Run
      PROVE  Finalized(r).news = r.news /\ Finalized(r).at \in {"join", "final"}
  BY <1>5 DEF Run, Finalized
<1>6. ASSUME NEW r \in runs, Classify(r) PROVE Goal
  BY <1>1, <1>3, <1>4, <1>6 DEF Classify, Working
<1>7. ASSUME NEW r \in runs, PublishSkeleton(r) PROVE Goal
  BY <1>1, <1>3, <1>4, <1>7 DEF PublishSkeleton
<1>8. ASSUME NEW r \in runs, Analyse(r) PROVE Goal
  <2> DEFINE x == [r EXCEPT !.error = TRUE]
  <2>1. r \in Run /\ r.at = "analyse"
    BY <1>1, <1>8 DEF Analyse
  <2>2. x \in Run /\ x.news = r.news /\ x.at = r.at
    BY <2>1, RunSteps DEF Run
  <2>3. Becomes(r, Finalized(r)) \/ Becomes(r, Finalized(x))
    BY <1>8 DEF Analyse
  <2> HIDE DEF x
  <2> QED BY <1>3, <1>5, <1>8, <2>1, <2>2, <2>3 DEF Analyse
<1>9. ASSUME NEW r \in runs, Join(r) PROVE Goal
  BY <1>1, <1>3, <1>5, <1>9 DEF Join
<1>10. ASSUME NEW r \in runs, NEW q, q.at # "sent", runs' = runs \ {r},
              r.news \in Reported' \cup logged', logged \subseteq logged', lost' = lost,
              UNCHANGED <<hand, buffer, batch, svc>>
       PROVE  Goal
  BY <1>1, <1>10, KeptRun
<1>11. [at |-> "sleep"].at # "sent"
  OBVIOUS
<1>12. ASSUME NEW r \in runs, PublishFinal(r) PROVE Goal
  <2>1. r \in Run /\ EventOf(r) \in Event /\ EventOf(r).news = r.news
    BY <1>1, RunSteps DEF EventOf
  <2>2. EventOf(r).kind = "complete" /\ "sent" \in Working
    BY <1>12 DEF PublishFinal, EventOf, Working
  <2>3. CASE Published(EventOf(r)) /\ Becomes(r, [r EXCEPT !.at = "sent"]) /\ UNCHANGED logged
    <3>1. r.news \in Reported'
      BY <1>1, <2>1, <2>2, <2>3, ReportedNew DEF Published
    <3>2. UNCHANGED <<hand, buffer, batch, svc, lost>>
      BY <1>12 DEF PublishFinal
    <3> QED BY <1>3, <1>4, <2>1, <2>2, <2>3, <3>1, <3>2
  <2>4. CASE Over(r) /\ logged' = logged \cup {r.news}
    BY <1>10, <1>11, <1>12, <2>4 DEF PublishFinal, Over
  <2> QED BY <1>12, <2>3, <2>4 DEF PublishFinal
<1>13. ASSUME NEW r \in runs, Finish(r) PROVE Goal
  <2>1. r.news \in Reported'
    BY <1>1, <1>13, ReportedGrows DEF Finish, Placed
  <2>2. CASE Becomes(r, NewRun(r.news, "sleep"))
    <3>1. NewRun(r.news, "sleep").news = r.news /\ NewRun(r.news, "sleep").at # "sent"
      BY DEF NewRun
    <3> QED BY <1>3, <1>13, <2>2, <3>1 DEF Finish
  <2>3. CASE runs' = runs \ {r}
    BY <1>10, <1>11, <1>13, <2>1, <2>3 DEF Finish
  <2> QED BY <1>13, <2>2, <2>3 DEF Finish
<1>14. ASSUME NEW r \in runs, Retry(r) PROVE Goal
  BY <1>1, <1>3, <1>4, <1>14 DEF Retry, Working
<1>15. ASSUME NEW r \in runs, Timeout(r) PROVE Goal
  BY <1>10, <1>11, <1>15 DEF Timeout, Over
<1>16. ASSUME NEW r \in late, AttachSummary(r) PROVE Goal
  BY <1>2, <1>16 DEF AttachSummary
<1>17. ASSUME NEW r \in runs \cup late, SummaryEnds(r) PROVE Goal
  <2>1. \A s \in {"ready", "failed"} : LET q == [r EXCEPT !.summary = s]
                                       IN  q.news = r.news /\ q.at = r.at
    BY <1>1 DEF Run
  <2> QED BY <1>2, <1>3, <1>17, <2>1 DEF SummaryEnds
<1>18. ASSUME NEW f \in Flushers, Triage(f) PROVE Goal
  <2>1. PICK S \in SUBSET batch[f].items :
          Remaining(f, S) /\ logged \subseteq logged' /\ batch[f].items \ S \subseteq logged'
    <3>1. CASE Remaining(f, batch[f].items) /\ UNCHANGED logged
      BY <3>1
    <3>2. CASE Remaining(f, batch[f].items \cap Irrelevant)
               /\ logged' = logged \cup (batch[f].items \ Irrelevant)
      BY <3>2
    <3>3. CASE Remaining(f, {}) /\ logged' = logged \cup batch[f].items
      BY <3>3
    <3> QED BY <1>18, <3>1, <3>2, <3>3 DEF Triage
  <2> QED BY <1>1, <1>18, <2>1, KeptBatch DEF Triage
<1>19. ASSUME NEW f \in Flushers, NEW n \in News, PublishBatch(f, n) PROVE Goal
  <2>1. BatchEvent(n) \in Event /\ BatchEvent(n).kind = "complete" /\ BatchEvent(n).news = n
    BY BatchEventTyped DEF WorkerTypeOK, BatchEvent
  <2>2. CASE Published(BatchEvent(n)) /\ Remaining(f, batch[f].items \ {n}) /\ UNCHANGED logged
    <3>1. n \in Reported'
      BY <1>1, <2>1, <2>2, ReportedNew DEF Published
    <3>2. batch[f].items \ (batch[f].items \ {n}) \subseteq Reported'
      BY <3>1
    <3> QED BY <1>1, <1>19, <2>2, <3>2, KeptBatch DEF PublishBatch
  <2>3. CASE Remaining(f, {}) /\ logged' = logged \cup batch[f].items
    BY <1>1, <1>19, <2>3, KeptBatch DEF PublishBatch
  <2> QED BY <1>19, <2>2, <2>3 DEF PublishBatch
<1>20. ASSUME TimerFlush PROVE Goal
  <2>1. "timer" \in Flushers
    BY DEF Flushers
  <2> QED BY <1>1, <1>20, <2>1, KeptFlush DEF TimerFlush
<1>21. ASSUME Deliver PROVE Goal /\ inbox[pos + 1] \in Kept'
  <2> DEFINE n == inbox[pos + 1]
  <2>1. n \in News /\ n # NoNews
    BY <1>21, WorkerAssumption DEF Deliver, WorkerTypeOK
  <2>2. hand = Free /\ hand.news = NoNews /\ batch["consumer"].at = "idle"
    BY <1>21 DEF Deliver, Free, Placed, WorkerTypeOK, Flushers
  <2>3. UNCHANGED <<runs, logged, lost, svc>>
    BY <1>21 DEF Deliver
  <2> HIDE DEF n
  <2>4. ASSUME NEW S, buffer \subseteq S, StartFlush("consumer", S), hand'.at = "flush"
        PROVE  Goal /\ S \subseteq Kept'
    BY <1>1, <2>2, <2>3, <2>4, KeptFlush DEF Flushers
  <2>5. ASSUME hand' = [at |-> "flush", news |-> n] /\ StartFlush("consumer", buffer)
        PROVE  Goal /\ n \in Kept'
    BY <2>1, <2>4, <2>5, MemoryPartsNext DEF Kept
  <2>6. ASSUME hand' = [at |-> "slot", news |-> n] /\ UNCHANGED batches
        PROVE  Goal /\ n \in Kept'
    <3>1. Kept \subseteq Kept'
      BY <1>1, <2>2, <2>3, <2>6, KeptStep, MemoryPartsNext DEF Kept
    <3>2. Placed'
      BY <1>1, <2>2, <2>3, <2>6, ReportedGrows DEF Placed
    <3> QED BY <2>1, <2>6, <3>1, <3>2, MemoryPartsNext DEF Kept
  <2>7. ASSUME hand' = [at |-> "flush", news |-> NoNews],
               StartFlush("consumer", buffer \cup {n})
        PROVE  Goal /\ n \in Kept'
    BY <2>4, <2>7
  <2>8. ASSUME buffer' = buffer \cup {n} /\ UNCHANGED <<hand, batch>>
        PROVE  Goal /\ n \in Kept'
    <3>1. Kept \subseteq Kept'
      BY <1>1, <2>2, <2>3, <2>8, KeptStep, MemoryPartsNext DEF Kept
    <3>2. Placed'
      BY <1>1, <2>3, <2>8, ReportedGrows DEF Placed
    <3> QED BY <2>8, <3>1, <3>2, MemoryPartsNext DEF Kept
  <2>9. Goal /\ n \in Kept'
    BY <1>21, <2>5, <2>6, <2>7, <2>8 DEF Deliver, n
  <2> QED BY <2>9 DEF n
<1>22. ASSUME StartRun PROVE Goal
  <2> DEFINE q == NewRun(hand.news, "stage1")
  <2>1. q.news = hand.news /\ q.at # "sent"
    BY DEF NewRun
  <2>2. runs' = runs \cup {q} /\ hand' = Free /\ hand.at = "slot"
        /\ UNCHANGED <<buffer, batch, svc, logged, lost>>
    BY <1>22 DEF StartRun
  <2> HIDE DEF q
  <2>3. Kept \subseteq Kept'
    BY <1>1, <2>1, <2>2, KeptStep, MemoryPartsNext DEF Kept
  <2>4. Placed'
    BY <1>1, <2>1, <2>2, ReportedGrows DEF Placed
  <2> QED BY <2>3, <2>4
<1>23. ASSUME Terminate \/ DrainTasks \/ Bell PROVE Goal
  BY <1>2, <1>23 DEF Terminate, DrainTasks, Bell
<1>24. ASSUME DrainSummaries PROVE Goal
  <2>1. CASE buffer = {} /\ UNCHANGED batches
    BY <1>2, <1>24, <2>1 DEF DrainSummaries
  <2>2. CASE StartFlush("stop", buffer)
    <3>1. "stop" \in Flushers /\ batch["stop"].at = "idle"
      BY <1>24 DEF Flushers, DrainSummaries, Placed
    <3> QED BY <1>1, <1>24, <2>2, <3>1, KeptFlush DEF DrainSummaries
  <2> QED BY <1>24, <2>1, <2>2 DEF DrainSummaries
<1>25. ASSUME NEW offset, Restart(offset) PROVE Goal
  <2>1. lost' = lost \cup Memory /\ logged' = logged /\ topic' = topic
        /\ runs' = {} /\ batch' = [f \in Flushers |-> Resting] /\ svc' = "up"
    BY <1>25 DEF Restart
  <2>2. Kept \subseteq Kept'
    BY <1>1, <2>1, ReportedGrows DEF Kept
  <2>3. Placed'
    BY <2>1 DEF Placed, Resting, Flushers
  <2> QED BY <2>2, <2>3
<1>26. ASSUME StopEnds \/ Kill \/ Crash PROVE Goal
  BY <1>25, <1>26 DEF StopEnds, Kill, Crash, RestartAbruptly
<1>27. ASSUME RelayNext /\ UNCHANGED workerVars PROVE Goal
  BY <1>2, <1>27 DEF workerVars
<1>28. ASSUME UNCHANGED vars PROVE Goal
  BY <1>2, <1>28 DEF vars, workerVars
<1>29. ASSUME WorkerNext PROVE Goal
  BY <1>6, <1>7, <1>8, <1>9, <1>12, <1>13, <1>14, <1>15, <1>16, <1>17, <1>18, <1>19, <1>20,
     <1>21, <1>22, <1>23, <1>24, <1>26, <1>29
     DEF WorkerNext, RunNext, FlushNext, ShutdownNext
<1> QED BY <1>21, <1>27, <1>28, <1>29 DEF Next

\* Only a delivery takes an item; a restart goes back to an earlier one.
LEMMA PositionStep ==
  WorkerTypeOK /\ [Next]_vars
    => inbox' = inbox /\ (pos' \in 0..pos \/ (Deliver /\ pos' = pos + 1))
<1> SUFFICES ASSUME WorkerTypeOK, [Next]_vars
    PROVE  inbox' = inbox /\ (pos' \in 0..pos \/ (Deliver /\ pos' = pos + 1))
  OBVIOUS
<1> USE DEF offsets, batches, tasks, market, stop, ends
<1> DEFINE Same == inbox' = inbox /\ pos' = pos
<1>1. pos \in Nat /\ pos \in 0..pos /\ committed \in 0..pos
  BY DEF WorkerTypeOK
<1>2. ASSUME NEW offset \in committed..pos, Restart(offset)
      PROVE  inbox' = inbox /\ pos' \in 0..pos
  BY <1>1, <1>2 DEF Restart
<1>3. CASE Deliver
  BY <1>3 DEF Deliver
<1>4. CASE StopEnds \/ Kill \/ Crash
  <2>1. pos \in committed..pos
    BY <1>1
  <2> QED BY <1>2, <1>4, <2>1 DEF StopEnds, Kill, Crash, RestartAbruptly
<1>5. ASSUME NEW r \in runs, RunNext(r) \/ Timeout(r) PROVE Same
  BY <1>5 DEF RunNext, Classify, PublishSkeleton, Analyse, Join, PublishFinal, Finish, Retry,
              Timeout
<1>6. ASSUME NEW r \in runs \cup late, AttachSummary(r) \/ SummaryEnds(r) PROVE Same
  BY <1>6 DEF AttachSummary, SummaryEnds
<1>7. ASSUME NEW f \in Flushers, FlushNext(f) PROVE Same
  BY <1>7 DEF FlushNext, Triage, PublishBatch
<1>8. ASSUME TimerFlush \/ StartRun \/ Terminate \/ DrainTasks \/ DrainSummaries \/ Bell
      PROVE  Same
  BY <1>8 DEF TimerFlush, StartRun, Terminate, DrainTasks, DrainSummaries, Bell
<1>9. ASSUME UNCHANGED workerVars PROVE Same
  BY <1>9 DEF workerVars
<1> QED
  BY <1>1, <1>3, <1>4, <1>5, <1>6, <1>7, <1>8, <1>9
     DEF Next, WorkerNext, ShutdownNext, vars

AccountedPlaced == PipelineTypeOK /\ Placed /\ Accounted

\* Each item consumed has a report, an error in the log, is in memory, or was
\* when the process ended.
THEOREM AccountedHolds == Spec => []Accounted
<1>1. Init => AccountedPlaced
  <2> SUFFICES ASSUME Init PROVE Placed /\ Accounted
    BY InitTyped DEF AccountedPlaced
  <2>1. Placed
    BY DEF Init, WorkerInit, Placed, Resting, Flushers
  <2>2. Accounted
    BY DEF Init, WorkerInit, Accounted
  <2> QED BY <2>1, <2>2
<1>2. AccountedPlaced /\ [Next]_vars => AccountedPlaced'
  <2> SUFFICES ASSUME PipelineTypeOK, Placed, Accounted, [Next]_vars PROVE Placed' /\ Accounted'
    BY TypedInductive DEF AccountedPlaced
  <2>1. Kept \subseteq Kept' /\ Placed' /\ (Deliver => inbox[pos + 1] \in Kept')
    BY KeptNext DEF PipelineTypeOK
  <2>2. inbox' = inbox /\ (pos' \in 0..pos \/ (Deliver /\ pos' = pos + 1))
    BY PositionStep DEF PipelineTypeOK
  <2>3. pos \in Nat
    BY DEF PipelineTypeOK, WorkerTypeOK
  <2>4. ASSUME NEW k \in 1..pos' PROVE inbox'[k] \in Kept'
    <3>1. CASE k \in 1..pos
      BY <2>1, <2>2, <3>1 DEF Accounted, Kept
    <3>2. CASE k = pos + 1 /\ Deliver
      BY <2>1, <2>2, <3>2
    <3> QED BY <2>2, <2>3, <3>1, <3>2
  <2> QED BY <2>1, <2>4 DEF Accounted, Kept
<1>3. AccountedPlaced => Accounted
  BY DEF AccountedPlaced
<1> QED BY <1>1, <1>2, <1>3, PTL DEF Spec

(***************************************************************************)
(* One verdict for a delivery.  What a delivery turned into, or may still  *)
(* turn into, is a set of claims; every step keeps or exchanges claims.    *)
(***************************************************************************)

\* A run that may still give a verdict: it has not sent its report, or that
\* one failed and the run is repeated.
MayJudge(r) == r.at # "sent" \/ r.error

Judging(n) == {r \in runs : r.news = n /\ MayJudge(r)}

\* Where an item waits for its run or its batch.
Places(n) ==
  {f \in Flushers : n \in batch[f].items}
    \cup {p \in {"buffer"} : n \in buffer} \cup {p \in {"hand"} : hand.news = n}

\* What a delivery can have turned into: a verdict, or one that may still come.
Claimed(verdicts, judging, places) ==
  {<<"verdict", k>> : k \in verdicts} \cup {<<"run", r>> : r \in judging}
    \cup {<<"place", p>> : p \in places}

Claims(n) == Claimed(Verdicts(n), Judging(n), Places(n))

\* Each delivery is one claim at most.
ClaimsCounted ==
  \A n \in News : IsFiniteSet(Claims(n)) /\ Cardinality(Claims(n)) <= taken[n]

LEMMA ClaimIs ==
  ASSUME NEW V, NEW J, NEW P
  PROVE  /\ \A k : <<"verdict", k>> \in Claimed(V, J, P) <=> k \in V
         /\ \A r : <<"run", r>> \in Claimed(V, J, P) <=> r \in J
         /\ \A p : <<"place", p>> \in Claimed(V, J, P) <=> p \in P
         /\ \A c \in Claimed(V, J, P) : \/ \E k \in V : c = <<"verdict", k>>
                                        \/ \E r \in J : c = <<"run", r>>
                                        \/ \E p \in P : c = <<"place", p>>
<1>1. \A k, r : /\ <<"verdict", k>> # <<"run", r>> /\ <<"verdict", k>> # <<"place", r>>
                /\ <<"run", k>> # <<"place", r>>
  OBVIOUS
<1>2. \A k, l : /\ <<"verdict", k>> = <<"verdict", l>> => k = l
                /\ <<"run", k>> = <<"run", l>> => k = l
                /\ <<"place", k>> = <<"place", l>> => k = l
  OBVIOUS
<1> QED BY <1>1, <1>2 DEF Claimed

\* What leaves one claim and takes one instead does not count more.
LEMMA OneForAnother ==
  ASSUME NEW S, IsFiniteSet(S), NEW x \in S, NEW y, NEW T, T \subseteq (S \ {x}) \cup {y}
  PROVE  IsFiniteSet(T) /\ Cardinality(T) <= Cardinality(S)
<1> DEFINE rest == S \ {x}
<1>1. IsFiniteSet(rest) /\ Cardinality(rest) = Cardinality(S) - 1
  BY FS_RemoveElement
<1>2. Cardinality(S) \in Nat /\ Cardinality(rest) \in Nat
  BY <1>1, FS_CardinalityType
<1> HIDE DEF rest
<1>3. IsFiniteSet(rest \cup {y}) /\ Cardinality(rest \cup {y}) <= Cardinality(rest) + 1
  <2>1. /\ IsFiniteSet(rest \cup {y})
        /\ Cardinality(rest \cup {y}) = IF y \in rest THEN Cardinality(rest) ELSE Cardinality(rest) + 1
    BY <1>1, FS_AddElement
  <2> QED BY <1>2, <2>1
<1>4. T \in SUBSET (rest \cup {y})
  BY DEF rest
<1>5. IsFiniteSet(T) /\ Cardinality(T) <= Cardinality(rest \cup {y})
  BY <1>3, <1>4, FS_Subset
<1>6. Cardinality(T) \in Nat /\ Cardinality(rest \cup {y}) \in Nat
  BY <1>3, <1>5, FS_CardinalityType
<1> QED BY <1>1, <1>2, <1>3, <1>5, <1>6

\* A step neither adds claims on n nor keeps one that it exchanges.
Exchanged(S, T) ==
  \/ T \subseteq S
  \/ \E x \in S : \E y : T \subseteq (S \ {x}) \cup {y}

LEMMA ExchangeCounts ==
  ASSUME NEW S, IsFiniteSet(S), NEW T, Exchanged(S, T)
  PROVE  IsFiniteSet(T) /\ Cardinality(T) <= Cardinality(S)
<1>1. CASE T \subseteq S
  BY <1>1, FS_Subset
<1>2. ASSUME NEW x \in S, NEW y, T \subseteq (S \ {x}) \cup {y}
      PROVE  IsFiniteSet(T) /\ Cardinality(T) <= Cardinality(S)
  BY <1>2, OneForAnother
<1> QED BY <1>1, <1>2 DEF Exchanged

\* The exchanges there are.
LEMMA Exchanges ==
  ASSUME NEW V, NEW J, NEW P, NEW V1, NEW J1, NEW P1
  PROVE  /\ V1 \subseteq V /\ J1 \subseteq J /\ P1 \subseteq P
              => Exchanged(Claimed(V, J, P), Claimed(V1, J1, P1))
         /\ \A r \in J : \A q : V1 \subseteq V /\ J1 \subseteq (J \ {r}) \cup {q} /\ P1 \subseteq P
              => Exchanged(Claimed(V, J, P), Claimed(V1, J1, P1))
         /\ \A r \in J : \A k : V1 \subseteq V \cup {k} /\ J1 \subseteq J \ {r} /\ P1 \subseteq P
              => Exchanged(Claimed(V, J, P), Claimed(V1, J1, P1))
         /\ \A p \in P : \A k : V1 \subseteq V \cup {k} /\ J1 \subseteq J /\ P1 \subseteq P \ {p}
              => Exchanged(Claimed(V, J, P), Claimed(V1, J1, P1))
         /\ \A p \in P : \A q : V1 \subseteq V /\ J1 \subseteq J /\ P1 \subseteq (P \ {p}) \cup {q}
              => Exchanged(Claimed(V, J, P), Claimed(V1, J1, P1))
         /\ \A p \in P : \A q : V1 \subseteq V /\ J1 \subseteq J \cup {q} /\ P1 \subseteq P \ {p}
              => Exchanged(Claimed(V, J, P), Claimed(V1, J1, P1))
<1> DEFINE S == Claimed(V, J, P)
           T == Claimed(V1, J1, P1)
<1>1. /\ \A k : <<"verdict", k>> \in S <=> k \in V
      /\ \A r : <<"run", r>> \in S <=> r \in J
      /\ \A p : <<"place", p>> \in S <=> p \in P
  BY ClaimIs
<1>2. \A c \in T : \/ \E k \in V1 : c = <<"verdict", k>>
                   \/ \E r \in J1 : c = <<"run", r>>
                   \/ \E p \in P1 : c = <<"place", p>>
  BY ClaimIs
<1>3. \A k, r : /\ <<"verdict", k>> # <<"run", r>> /\ <<"verdict", k>> # <<"place", r>>
                /\ <<"run", k>> # <<"place", r>> /\ <<"run", k>> # <<"verdict", r>>
                /\ <<"place", k>> # <<"verdict", r>> /\ <<"place", k>> # <<"run", r>>
  OBVIOUS
<1>4. \A k, l : /\ <<"verdict", k>> = <<"verdict", l>> => k = l
                /\ <<"run", k>> = <<"run", l>> => k = l
                /\ <<"place", k>> = <<"place", l>> => k = l
  OBVIOUS
<1> HIDE DEF S, T
<1>5. ASSUME V1 \subseteq V /\ J1 \subseteq J /\ P1 \subseteq P PROVE Exchanged(S, T)
  <2>1. T \subseteq S
    BY <1>1, <1>2, <1>5
  <2> QED BY <2>1 DEF Exchanged
<1>6. ASSUME NEW x \in S, NEW y, T \subseteq (S \ {x}) \cup {y} PROVE Exchanged(S, T)
  BY <1>6 DEF Exchanged
<1>7. ASSUME NEW r \in J, NEW q, V1 \subseteq V /\ J1 \subseteq (J \ {r}) \cup {q} /\ P1 \subseteq P
      PROVE  Exchanged(S, T)
  <2>1. T \subseteq (S \ {<<"run", r>>}) \cup {<<"run", q>>}
    BY <1>1, <1>2, <1>3, <1>4, <1>7
  <2> QED BY <1>1, <1>6, <2>1
<1>8. ASSUME NEW r \in J, NEW k, V1 \subseteq V \cup {k} /\ J1 \subseteq J \ {r} /\ P1 \subseteq P
      PROVE  Exchanged(S, T)
  <2>1. T \subseteq (S \ {<<"run", r>>}) \cup {<<"verdict", k>>}
    BY <1>1, <1>2, <1>3, <1>4, <1>8
  <2> QED BY <1>1, <1>6, <2>1
<1>9. ASSUME NEW p \in P, NEW k, V1 \subseteq V \cup {k} /\ J1 \subseteq J /\ P1 \subseteq P \ {p}
      PROVE  Exchanged(S, T)
  <2>1. T \subseteq (S \ {<<"place", p>>}) \cup {<<"verdict", k>>}
    BY <1>1, <1>2, <1>3, <1>4, <1>9
  <2> QED BY <1>1, <1>6, <2>1
<1>10. ASSUME NEW p \in P, NEW q, V1 \subseteq V /\ J1 \subseteq J /\ P1 \subseteq (P \ {p}) \cup {q}
       PROVE  Exchanged(S, T)
  <2>1. T \subseteq (S \ {<<"place", p>>}) \cup {<<"place", q>>}
    BY <1>1, <1>2, <1>3, <1>4, <1>10
  <2> QED BY <1>1, <1>6, <2>1
<1>11. ASSUME NEW p \in P, NEW q, V1 \subseteq V /\ J1 \subseteq J \cup {q} /\ P1 \subseteq P \ {p}
       PROVE  Exchanged(S, T)
  <2>1. T \subseteq (S \ {<<"place", p>>}) \cup {<<"run", q>>}
    BY <1>1, <1>2, <1>3, <1>4, <1>11
  <2> QED BY <1>1, <1>6, <2>1
<1> QED BY <1>5, <1>7, <1>8, <1>9, <1>10, <1>11 DEF S, T

\* Only a report that names companies is a verdict, and of its own item.
LEMMA VerdictsMove ==
  ASSUME topic \in Seq(Event), NEW e \in Event, Cut(e), NEW n
  PROVE  /\ Verdicts(n)' \subseteq Verdicts(n) \cup {Len(topic) + 1}
         /\ e.news # n \/ e.kind # "complete" \/ ~e.impacts => Verdicts(n)' \subseteq Verdicts(n)
<1>1. CASE UNCHANGED topic
  BY <1>1 DEF Verdicts
<1>2. CASE Sent(e)
  <2>1. /\ DOMAIN topic' = DOMAIN topic \cup {Len(topic) + 1}
        /\ topic'[Len(topic) + 1] = e
        /\ \A k \in DOMAIN topic : topic'[k] = topic[k]
    BY <1>2 DEF Sent
  <2> QED BY <2>1 DEF Verdicts
<1> QED BY <1>1, <1>2 DEF Cut

LEMMA VerdictsRest == ASSUME UNCHANGED topic, NEW n PROVE Verdicts(n)' = Verdicts(n)
BY DEF Verdicts

LEMMA PublicationIsCut ==
  ASSUME NEW e, Published(e) \/ PublishFails(e)
  PROVE  Cut(e)
BY DEF Published, PublishFails, Cut

LEMMA PlaceIs ==
  ASSUME NEW n
  PROVE  /\ \A f \in Flushers : f \in Places(n) <=> n \in batch[f].items
         /\ "buffer" \in Places(n) <=> n \in buffer
         /\ "hand" \in Places(n) <=> hand.news = n
         /\ Places(n) \subseteq Flushers \cup {"buffer", "hand"}
BY DEF Places, Flushers

LEMMA PlaceIsNext ==
  ASSUME NEW n
  PROVE  /\ \A f \in Flushers : f \in Places(n)' <=> n \in batch'[f].items
         /\ "buffer" \in Places(n)' <=> n \in buffer'
         /\ "hand" \in Places(n)' <=> hand'.news = n
         /\ Places(n)' \subseteq Flushers \cup {"buffer", "hand"}
BY DEF Places, Flushers

LEMMA PlacesRest ==
  ASSUME UNCHANGED <<hand, buffer, batch>>, NEW n PROVE Places(n)' = Places(n)
BY DEF Places

\* A caller that goes on holds no item it did not hold.
LEMMA RemainingPlaces ==
  ASSUME WorkerTypeOK, NEW f \in Flushers, NEW S \in SUBSET batch[f].items, Remaining(f, S),
         UNCHANGED buffer, NEW n \in News
  PROVE  /\ Places(n)' \subseteq Places(n)
         /\ n \notin S => f \notin Places(n)'
<1>1. /\ \A g \in Flushers \ {f} : batch'[g] = batch[g]
      /\ batch'[f].items \subseteq S
  BY DEF Remaining, WorkerTypeOK, Resting
<1>2. hand'.news = hand.news \/ hand'.news = NoNews
  BY DEF Remaining, WorkerTypeOK, Free
<1>3. n # NoNews
  BY WorkerAssumption
<1>4. \A g \in Flushers : g \in Places(n)' => g \in Places(n)
  BY <1>1, PlaceIs, PlaceIsNext
<1>5. "buffer" \in Places(n)' => "buffer" \in Places(n)
  BY PlaceIs, PlaceIsNext
<1>6. "hand" \in Places(n)' => "hand" \in Places(n)
  BY <1>2, <1>3, PlaceIs, PlaceIsNext
<1>7. n \notin S => f \notin Places(n)'
  BY <1>1, PlaceIsNext
<1> QED BY <1>4, <1>5, <1>6, <1>7, PlaceIsNext

\* The flushed buffer moves as a whole.
LEMMA FlushPlaces ==
  ASSUME WorkerTypeOK, NEW f \in Flushers, StartFlush(f, buffer), NEW n
  PROVE  \/ Places(n)' \subseteq Places(n) \cup {"hand"}
         \/ "buffer" \in Places(n) /\ Places(n)' \subseteq (Places(n) \ {"buffer"}) \cup {f, "hand"}
<1>1. /\ \A g \in Flushers \ {f} : batch'[g] = batch[g]
      /\ batch'[f].items = buffer /\ buffer' = {}
  BY DEF StartFlush, WorkerTypeOK
<1>2. \A g \in Flushers \ {f} : g \in Places(n)' => g \in Places(n)
  BY <1>1, PlaceIs, PlaceIsNext
<1>3. "buffer" \notin Places(n)' /\ (f \in Places(n)' => n \in buffer)
  BY <1>1, PlaceIsNext
<1>4. CASE n \in buffer
  BY <1>2, <1>3, <1>4, PlaceIs, PlaceIsNext
<1>5. CASE n \notin buffer
  BY <1>2, <1>3, <1>5, PlaceIs, PlaceIsNext
<1> QED BY <1>4, <1>5

Traded(n) == Exchanged(Claims(n), Claims(n)')

LEMMA ClaimsNext == ASSUME NEW n PROVE Claims(n)' = Claimed(Verdicts(n)', Judging(n)', Places(n)')
BY DEF Claims, Claimed

\* The steps of TradedNext, by what they do.
LEMMA RunTraded ==
  ASSUME NEW r \in runs, NEW q, runs' \subseteq (runs \ {r}) \cup {q}, q.news = r.news,
         MayJudge(q) => MayJudge(r), UNCHANGED <<hand, buffer, batch>>,
         NEW n, Verdicts(n)' \subseteq Verdicts(n)
  PROVE  Traded(n)
<1>1. Places(n)' \subseteq Places(n)
  BY PlacesRest
<1>2. CASE r \in Judging(n)
  <2>1. Judging(n)' \subseteq (Judging(n) \ {r}) \cup {q}
    BY DEF Judging
  <2> QED BY <1>1, <1>2, <2>1, Exchanges, ClaimsNext DEF Traded, Claims
<1>3. CASE r \notin Judging(n)
  <2>1. Judging(n)' \subseteq Judging(n)
    BY <1>3 DEF Judging
  <2> QED BY <1>1, <2>1, Exchanges, ClaimsNext DEF Traded, Claims
<1> QED BY <1>2, <1>3

LEMMA JudgedTraded ==
  ASSUME NEW r \in runs, MayJudge(r), \A x \in runs' : x \in runs \ {r} \/ ~MayJudge(x),
         UNCHANGED <<hand, buffer, batch>>,
         NEW n, NEW k, Verdicts(n)' \subseteq Verdicts(n) \cup {k},
         r.news # n => Verdicts(n)' \subseteq Verdicts(n)
  PROVE  Traded(n)
<1>1. Places(n)' \subseteq Places(n)
  BY PlacesRest
<1>2. CASE r.news = n
  <2>1. r \in Judging(n) /\ Judging(n)' \subseteq Judging(n) \ {r}
    BY <1>2 DEF Judging
  <2> QED BY <1>1, <2>1, Exchanges, ClaimsNext DEF Traded, Claims
<1>3. CASE r.news # n
  <2>1. Judging(n)' \subseteq Judging(n)
    BY <1>3 DEF Judging
  <2> QED BY <1>1, <1>3, <2>1, Exchanges, ClaimsNext DEF Traded, Claims
<1> QED BY <1>2, <1>3

LEMMA LessTraded ==
  ASSUME NEW n, Verdicts(n)' \subseteq Verdicts(n), Judging(n)' \subseteq Judging(n),
         Places(n)' \subseteq Places(n)
  PROVE  Traded(n)
BY Exchanges, ClaimsNext DEF Traded, Claims

LEMMA BatchTraded ==
  ASSUME WorkerTypeOK, NEW f \in Flushers, NEW m \in News, PublishBatch(f, m), NEW n \in News
  PROVE  Traded(n)
<1> USE DEF offsets, tasks, stop, market
<1>1. PICK S \in SUBSET batch[f].items : Remaining(f, S) /\ m \notin S
  <2>1. CASE Remaining(f, batch[f].items \ {m})
    BY <2>1
  <2>2. CASE Remaining(f, {})
    BY <2>2
  <2> QED BY <2>1, <2>2 DEF PublishBatch
<1>2. UNCHANGED <<buffer, runs>> /\ m \in batch[f].items
  BY DEF PublishBatch
<1>3. /\ Places(n)' \subseteq Places(n)
      /\ n = m => f \notin Places(n)' /\ f \in Places(n)
  BY <1>1, <1>2, RemainingPlaces, PlaceIs
<1>4. Judging(n)' \subseteq Judging(n)
  BY <1>2 DEF Judging
<1>5. BatchEvent(m) \in Event /\ BatchEvent(m).news = m /\ Cut(BatchEvent(m)) /\ topic \in Seq(Event)
  BY BatchEventTyped, PublicationIsCut DEF WorkerTypeOK, BatchEvent, PublishBatch
<1>6. /\ Verdicts(n)' \subseteq Verdicts(n) \cup {Len(topic) + 1}
      /\ n # m => Verdicts(n)' \subseteq Verdicts(n)
  BY <1>5, VerdictsMove
<1>7. CASE n = m
  <2>1. f \in Places(n) /\ Places(n)' \subseteq Places(n) \ {f}
    BY <1>3, <1>7
  <2> QED BY <1>4, <1>6, <2>1, Exchanges, ClaimsNext DEF Traded, Claims
<1>8. CASE n # m
  BY <1>3, <1>4, <1>6, <1>8, LessTraded
<1> QED BY <1>7, <1>8

LEMMA FlushTraded ==
  ASSUME WorkerTypeOK, NEW f \in Flushers, StartFlush(f, buffer), UNCHANGED <<topic, runs, hand>>,
         NEW n
  PROVE  Traded(n)
<1>1. Verdicts(n)' \subseteq Verdicts(n) /\ Judging(n)' \subseteq Judging(n)
  BY DEF Verdicts, Judging
<1>2. "hand" \in Places(n)' => "hand" \in Places(n)
  BY PlaceIs, PlaceIsNext
<1>3. CASE Places(n)' \subseteq Places(n) \cup {"hand"}
  <2>1. Places(n)' \subseteq Places(n)
    BY <1>2, <1>3
  <2> QED BY <1>1, <2>1, LessTraded
<1>4. CASE "buffer" \in Places(n) /\ Places(n)' \subseteq (Places(n) \ {"buffer"}) \cup {f, "hand"}
  <2>1. Places(n)' \subseteq (Places(n) \ {"buffer"}) \cup {f}
    BY <1>2, <1>4
  <2> QED BY <1>1, <1>4, <2>1, Exchanges, ClaimsNext DEF Traded, Claims
<1> QED BY <1>3, <1>4, FlushPlaces

LEMMA StartTraded ==
  ASSUME StartRun, NEW n \in News PROVE Traded(n)
<1> USE DEF offsets, batches, market, stop, ends
<1> DEFINE q == NewRun(hand.news, "stage1")
<1>1. /\ runs' = runs \cup {q} /\ hand' = Free /\ UNCHANGED <<topic, buffer, batch>>
      /\ q.news = hand.news
  BY DEF StartRun, NewRun
<1> HIDE DEF q
<1>2. n # NoNews /\ Free.news = NoNews
  BY WorkerAssumption DEF Free
<1>3. Verdicts(n)' \subseteq Verdicts(n)
  BY <1>1, VerdictsRest
<1>4. Places(n)' \subseteq Places(n) \ {"hand"}
  <2>1. \A f \in Flushers : f \in Places(n)' => f \in Places(n) \ {"hand"}
    BY <1>1, PlaceIs, PlaceIsNext DEF Flushers
  <2>2. "buffer" \in Places(n)' => "buffer" \in Places(n)
    BY <1>1, PlaceIs, PlaceIsNext
  <2>3. "hand" \notin Places(n)'
    BY <1>1, <1>2, PlaceIsNext
  <2> QED BY <2>1, <2>2, <2>3, PlaceIsNext
<1>5. CASE hand.news = n
  <2>1. "hand" \in Places(n) /\ Judging(n)' \subseteq Judging(n) \cup {q}
    BY <1>1, <1>5, PlaceIs DEF Judging
  <2> QED BY <1>3, <1>4, <2>1, Exchanges, ClaimsNext DEF Traded, Claims
<1>6. CASE hand.news # n
  <2>1. Judging(n)' \subseteq Judging(n)
    BY <1>1, <1>6 DEF Judging
  <2> QED BY <1>3, <1>4, <2>1, LessTraded
<1> QED BY <1>5, <1>6

LEMMA RestartTraded ==
  ASSUME NEW offset, Restart(offset), NEW n \in News PROVE Traded(n)
<1>1. /\ runs' = {} /\ hand' = Free /\ buffer' = {} /\ UNCHANGED topic
      /\ \A f \in Flushers : batch'[f].items = {}
  BY DEF Restart, Resting
<1>2. n # NoNews /\ Free.news = NoNews
  BY WorkerAssumption DEF Free
<1>3. Places(n)' \subseteq {}
  BY <1>1, <1>2, PlaceIsNext
<1>4. Judging(n)' \subseteq {}
  BY <1>1 DEF Judging
<1> QED BY <1>1, <1>3, <1>4, VerdictsRest, LessTraded

\* One claim more, and apart from that an exchange.
ClaimAdded(n) == \E T, y : Exchanged(Claims(n), T) /\ Claims(n)' \subseteq T \cup {y}

\* Of the places P one was another before.
Shifted(n, P) ==
  P \subseteq Places(n) \/ \E p \in Places(n) : \E q : P \subseteq (Places(n) \ {p}) \cup {q}

LEMMA ShiftTraded ==
  ASSUME NEW n, Verdicts(n)' = Verdicts(n), Judging(n)' = Judging(n),
         NEW P, Shifted(n, P), Places(n)' \subseteq P
  PROVE  Traded(n)
<1>1. Exchanged(Claims(n), Claimed(Verdicts(n)', Judging(n)', Places(n)'))
  <2>1. CASE P \subseteq Places(n)
    <3>1. Places(n)' \subseteq Places(n)
      BY <2>1
    <3> QED BY <3>1, Exchanges DEF Claims
  <2>2. ASSUME NEW p \in Places(n), NEW q, P \subseteq (Places(n) \ {p}) \cup {q}
        PROVE  Exchanged(Claims(n), Claimed(Verdicts(n)', Judging(n)', Places(n)'))
    <3>1. Places(n)' \subseteq (Places(n) \ {p}) \cup {q}
      BY <2>2
    <3>2. Verdicts(n)' \subseteq Verdicts(n) /\ Judging(n)' \subseteq Judging(n)
      OBVIOUS
    <3> QED BY <3>1, <3>2, Exchanges DEF Claims
  <2> QED BY <2>1, <2>2 DEF Shifted
<1> QED BY <1>1, ClaimsNext DEF Traded

LEMMA ShiftAdds ==
  ASSUME NEW n, Verdicts(n)' = Verdicts(n), Judging(n)' = Judging(n),
         NEW P, Shifted(n, P), NEW y, Places(n)' \subseteq P \cup {y}
  PROVE  ClaimAdded(n)
<1> DEFINE T == Claimed(Verdicts(n), Judging(n), P)
<1>1. Exchanged(Claims(n), T)
  <2>1. CASE P \subseteq Places(n)
    BY <2>1, Exchanges DEF Claims
  <2>2. ASSUME NEW p \in Places(n), NEW q, P \subseteq (Places(n) \ {p}) \cup {q}
        PROVE  Exchanged(Claims(n), T)
    BY <2>2, Exchanges DEF Claims
  <2> QED BY <2>1, <2>2 DEF Shifted
<1>2. Claims(n)' \subseteq T \cup {<<"place", y>>}
  BY ClaimsNext DEF Claimed
<1> QED BY <1>1, <1>2 DEF ClaimAdded

Delivered(n, new) == Traded(n) \/ (n = new /\ ClaimAdded(n))

\* The places but one are exchanged; that one is new, for the item that came.
LEMMA DeliveryShifts ==
  ASSUME NEW n, NEW new, Verdicts(n)' = Verdicts(n), Judging(n)' = Judging(n),
         NEW P, Shifted(n, P), NEW y, Places(n)' \subseteq P \cup {y},
         n # new => Places(n)' \subseteq P
  PROVE  Delivered(n, new)
<1>1. CASE n = new
  BY <1>1, ShiftAdds DEF Delivered
<1>2. CASE n # new
  BY <1>2, ShiftTraded DEF Delivered
<1> QED BY <1>1, <1>2

LEMMA DeliveryAdds ==
  ASSUME NEW n, NEW new, Verdicts(n)' = Verdicts(n), Judging(n)' = Judging(n),
         NEW y, Places(n)' \subseteq Places(n) \cup {y}, n # new => Places(n)' \subseteq Places(n)
  PROVE  Delivered(n, new)
<1> DEFINE P == Places(n)
<1>1. Shifted(n, P)
  BY DEF Shifted
<1>2. Places(n)' \subseteq P \cup {y}
  OBVIOUS
<1>3. n # new => Places(n)' \subseteq P
  OBVIOUS
<1> HIDE DEF P
<1> QED BY <1>1, <1>2, <1>3, DeliveryShifts

\* A delivery adds one claim, wherever it puts the item and whatever it flushes.
LEMMA DeliveredClaims ==
  ASSUME WorkerTypeOK, Deliver, NEW n \in News, NEW new, new = inbox[pos + 1]
  PROVE  Delivered(n, new)
<1> USE DEF offsets, batches, tasks, market, stop, ends
<1>1. /\ hand = Free /\ UNCHANGED <<topic, runs>> /\ Free.news = NoNews /\ n # NoNews
      /\ "consumer" \in Flushers
  BY WorkerAssumption DEF Deliver, Free, Flushers
<1>2. Verdicts(n)' = Verdicts(n) /\ Judging(n)' = Judging(n)
  BY <1>1 DEF Verdicts, Judging
<1>3. "hand" \notin Places(n)
  BY <1>1, PlaceIs
<1>5. CASE hand' = [at |-> "flush", news |-> new] /\ StartFlush("consumer", buffer)
  <2>1. n # new => "hand" \notin Places(n)'
    BY <1>5, PlaceIsNext
  <2>2. CASE Places(n)' \subseteq Places(n) \cup {"hand"}
    <3>1. n # new => Places(n)' \subseteq Places(n)
      BY <2>1, <2>2
    <3> QED BY <1>2, DeliveryAdds, <2>2, <3>1
  <2>3. CASE "buffer" \in Places(n) /\ Places(n)' \subseteq (Places(n) \ {"buffer"}) \cup {"consumer", "hand"}
    <3> DEFINE P == (Places(n) \ {"buffer"}) \cup {"consumer"}
    <3>1. Places(n)' \subseteq P \cup {"hand"}
      BY <2>3
    <3>3. n # new => Places(n)' \subseteq P
      BY <2>1, <2>3
    <3>2. Shifted(n, P)
      BY <2>3 DEF Shifted
    <3> HIDE DEF P
    <3> QED BY <1>2, DeliveryShifts, <3>1, <3>2, <3>3
  <2> QED BY <1>1, <1>5, <2>2, <2>3, FlushPlaces
<1>6. CASE hand' = [at |-> "slot", news |-> new] /\ UNCHANGED batches
  <2>1. Places(n)' \subseteq Places(n) \cup {"hand"}
    <3>1. \A p \in Flushers \cup {"buffer"} : p \in Places(n)' => p \in Places(n)
      BY <1>6, PlaceIs, PlaceIsNext
    <3> QED BY <3>1, PlaceIsNext
  <2>2. n # new => "hand" \notin Places(n)'
    BY <1>6, PlaceIsNext
  <2>3. n # new => Places(n)' \subseteq Places(n)
    BY <2>1, <2>2
  <2> QED BY <1>2, DeliveryAdds, <2>1, <2>3
<1>7. CASE hand' = [at |-> "flush", news |-> NoNews] /\ StartFlush("consumer", buffer \cup {new})
  <2>1. /\ \A g \in Flushers \ {"consumer"} : batch'[g] = batch[g]
        /\ batch'["consumer"].items = buffer \cup {new} /\ buffer' = {}
    BY <1>1, <1>7 DEF StartFlush, WorkerTypeOK
  <2>2. "hand" \notin Places(n)' /\ "buffer" \notin Places(n)'
    BY <1>1, <1>7, <2>1, PlaceIsNext
  <2>3. \A g \in Flushers \ {"consumer"} : g \in Places(n)' => g \in Places(n)
    BY <2>1, PlaceIs, PlaceIsNext
  <2>4. "consumer" \in Places(n)' => n = new \/ n \in buffer
    BY <1>1, <2>1, PlaceIsNext
  <2>5. Places(n)' \subseteq Places(n) \cup {"consumer"}
    BY <2>2, <2>3, PlaceIsNext
  <2>6. CASE n = new
    BY <1>2, DeliveryAdds, <2>5, <2>6
  <2>7. CASE n # new /\ n \in buffer
    <3> DEFINE P == (Places(n) \ {"buffer"}) \cup {"consumer"}
    <3>1. "buffer" \in Places(n)
      BY <2>7, PlaceIs
    <3>2. Places(n)' \subseteq P
      BY <2>2, <2>5
    <3>3. Shifted(n, P)
      BY <3>1 DEF Shifted
    <3> HIDE DEF P
    <3>4. Places(n)' \subseteq P \cup {"consumer"}
      BY <3>2
    <3> QED BY <1>2, DeliveryShifts, <3>2, <3>3, <3>4
  <2>8. CASE n # new /\ n \notin buffer
    <3>1. Places(n)' \subseteq Places(n)
      BY <2>4, <2>5, <2>8
    <3> QED BY <1>2, DeliveryAdds, <2>5, <3>1
  <2> QED BY <2>6, <2>7, <2>8
<1>8. CASE buffer' = buffer \cup {new} /\ UNCHANGED <<hand, batch>>
  <2>1. Places(n)' \subseteq Places(n) \cup {"buffer"}
    <3>1. \A p \in Flushers \cup {"hand"} : p \in Places(n)' => p \in Places(n)
      BY <1>8, PlaceIs, PlaceIsNext
    <3> QED BY <3>1, PlaceIsNext
  <2>2. n # new => Places(n)' \subseteq Places(n)
    <3>1. n # new /\ "buffer" \in Places(n)' => "buffer" \in Places(n)
      BY <1>8, PlaceIs, PlaceIsNext
    <3> QED BY <2>1, <3>1
  <2> QED BY <1>2, DeliveryAdds, <2>1, <2>2
<1> QED BY <1>5, <1>6, <1>7, <1>8 DEF Deliver

\* Every other step trades, and delivers nothing.
LEMMA TradedNext ==
  ASSUME WorkerTypeOK, [Next]_vars, ~Deliver, NEW n \in News
  PROVE  Traded(n) /\ taken' = taken
<1> USE DEF offsets, batches, tasks, market, stop, ends
<1>1. runs \subseteq Run /\ late \subseteq Run /\ topic \in Seq(Event)
  BY DEF WorkerTypeOK
<1>2. ASSUME UNCHANGED <<runs, hand, buffer, batch>>, Verdicts(n)' \subseteq Verdicts(n)
      PROVE  Traded(n)
  <2>1. Judging(n)' \subseteq Judging(n)
    BY <1>2 DEF Judging
  <2>2. Places(n)' \subseteq Places(n)
    BY <1>2, PlacesRest
  <2> QED BY <1>2, <2>1, <2>2, LessTraded
<1>3. ASSUME NEW e \in Event, Cut(e), e.kind # "complete" PROVE Verdicts(n)' \subseteq Verdicts(n)
  BY <1>1, <1>3, VerdictsMove
<1>4. ASSUME UNCHANGED topic PROVE Verdicts(n)' \subseteq Verdicts(n)
  BY <1>4, VerdictsRest
<1>5. \A r \in Run : /\ \A at \in Working : [r EXCEPT !.at = at].news = r.news
                     /\ [r EXCEPT !.at = "sent"].error = r.error
                     /\ [r EXCEPT !.at = "sent"].at = "sent"
                     /\ WithSummary(r).news = r.news
  BY DEF Run, WithSummary
<1>6. \A r \in Run : Finalized(r).news = r.news
  BY DEF Run, Finalized
<1>7. ASSUME NEW r \in runs, NEW q, Becomes(r, q), q.news = r.news, r.at # "sent",
             UNCHANGED <<hand, buffer, batch>>, Verdicts(n)' \subseteq Verdicts(n)
      PROVE  Traded(n)
  <2>1. runs' \subseteq (runs \ {r}) \cup {q} /\ MayJudge(r)
    BY <1>7 DEF Becomes, MayJudge
  <2> QED BY <1>7, <2>1, RunTraded
<1>8. ASSUME NEW r \in runs, runs' = runs \ {r}, UNCHANGED <<hand, buffer, batch>>,
             Verdicts(n)' \subseteq Verdicts(n)
      PROVE  Traded(n)
  <2>1. Judging(n)' \subseteq Judging(n)
    BY <1>8 DEF Judging
  <2>2. Places(n)' \subseteq Places(n)
    BY <1>8, PlacesRest
  <2> QED BY <1>8, <2>1, <2>2, LessTraded
<1>9. ASSUME NEW r \in runs, Classify(r) PROVE Traded(n)
  <2>1. /\ r.at = "stage1" /\ UNCHANGED <<topic, hand, buffer, batch>>
        /\ \/ Becomes(r, [r EXCEPT !.at = "skip"]) \/ Becomes(r, [r EXCEPT !.at = "skeleton"])
           \/ Becomes(r, WithSummary(r))
    BY <1>9 DEF Classify
  <2>2. /\ [r EXCEPT !.at = "skip"].news = r.news /\ [r EXCEPT !.at = "skeleton"].news = r.news
        /\ WithSummary(r).news = r.news
    BY <1>1, <1>5 DEF Working
  <2> QED BY <1>4, <1>7, <2>1, <2>2
<1>10. ASSUME NEW r \in runs, PublishSkeleton(r) PROVE Traded(n)
  <2>1. /\ r.at = "skeleton" /\ UNCHANGED <<hand, buffer, batch>> /\ Becomes(r, WithSummary(r))
        /\ Cut(EventOf(r))
    BY <1>10, PublicationIsCut DEF PublishSkeleton
  <2>2. EventOf(r) \in Event /\ EventOf(r).kind # "complete"
    BY <1>1, <2>1, RunSteps DEF EventOf
  <2> QED BY <1>1, <1>3, <1>5, <1>7, <2>1, <2>2
<1>11. ASSUME NEW r \in runs, Analyse(r) PROVE Traded(n)
  <2> DEFINE x == [r EXCEPT !.error = TRUE]
  <2>1. r \in Run /\ r.at = "analyse" /\ UNCHANGED <<topic, hand, buffer, batch>>
    BY <1>1, <1>11 DEF Analyse
  <2>2. x \in Run /\ x.news = r.news
    BY <2>1, RunSteps DEF Run
  <2>3. Becomes(r, Finalized(r)) \/ Becomes(r, Finalized(x))
    BY <1>11 DEF Analyse
  <2> HIDE DEF x
  <2> QED BY <1>4, <1>6, <1>7, <2>1, <2>2, <2>3
<1>12. ASSUME NEW r \in runs, Join(r) PROVE Traded(n)
  <2>1. r.at = "join" /\ UNCHANGED <<topic, hand, buffer, batch>> /\ Becomes(r, Finalized(r))
    BY <1>12 DEF Join
  <2> QED BY <1>1, <1>4, <1>6, <1>7, <2>1
\* What a run sends at its end is a verdict at most if its scoring succeeded.
<1>13. ASSUME NEW r \in runs
       PROVE  /\ EventOf(r) \in Event /\ EventOf(r).news = r.news
              /\ EventOf(r).impacts => ~r.error /\ r.at = "final"
  BY <1>1, <1>13, RunSteps DEF EventOf
<1>14. ASSUME NEW r \in runs, PublishFinal(r) PROVE Traded(n)
  <2> DEFINE q == [r EXCEPT !.at = "sent"]
             k == Len(topic) + 1
  <2>1. /\ r.at \in {"skip", "final"} /\ UNCHANGED <<hand, buffer, batch>> /\ Cut(EventOf(r))
        /\ Becomes(r, q) \/ runs' = runs \ {r}
    BY <1>14, PublicationIsCut DEF PublishFinal, Over
  <2>2. /\ Verdicts(n)' \subseteq Verdicts(n) \cup {k}
        /\ r.news # n \/ ~EventOf(r).impacts => Verdicts(n)' \subseteq Verdicts(n)
    BY <1>1, <1>13, <2>1, VerdictsMove
  <2>3. r \in Run /\ q.news = r.news /\ q.error = r.error /\ q.at = "sent" /\ MayJudge(r)
    BY <1>1, <1>5, <2>1 DEF MayJudge, Working
  <2> HIDE DEF q, k
  <2>4. CASE EventOf(r).impacts
    <3>1. ~MayJudge(q)
      BY <1>13, <2>3, <2>4 DEF MayJudge
    <3>2. \A x \in runs' : x \in runs \ {r} \/ ~MayJudge(x)
      BY <2>1, <3>1 DEF Becomes
    <3> QED BY <2>1, <2>2, <2>3, <3>2, JudgedTraded
  <2>5. CASE ~EventOf(r).impacts
    <3>1. Verdicts(n)' \subseteq Verdicts(n)
      BY <2>2, <2>5
    <3>2. CASE Becomes(r, q)
      BY <1>7, <2>1, <2>3, <3>1, <3>2
    <3>3. CASE runs' = runs \ {r}
      BY <1>8, <2>1, <3>1, <3>3
    <3> QED BY <2>1, <3>2, <3>3
  <2> QED BY <2>4, <2>5
<1>15. ASSUME NEW r \in runs, Finish(r) PROVE Traded(n)
  <2>1. UNCHANGED <<topic, hand, buffer, batch>> /\ Verdicts(n)' \subseteq Verdicts(n)
    BY <1>4, <1>15 DEF Finish
  <2>2. CASE r.error /\ Becomes(r, NewRun(r.news, "sleep"))
    <3> DEFINE q == NewRun(r.news, "sleep")
    <3>1. q.news = r.news
      BY DEF NewRun
    <3>2. MayJudge(r) /\ runs' \subseteq (runs \ {r}) \cup {q}
      BY <2>2 DEF MayJudge, Becomes
    <3> HIDE DEF q
    <3> QED BY <2>1, <3>1, <3>2, RunTraded
  <2>3. CASE runs' = runs \ {r}
    BY <1>8, <2>1, <2>3
  <2> QED BY <1>15, <2>2, <2>3 DEF Finish
<1>16. ASSUME NEW r \in runs, Retry(r) PROVE Traded(n)
  <2>1. /\ r.at = "sleep" /\ Becomes(r, [r EXCEPT !.at = "stage1"])
        /\ UNCHANGED <<topic, hand, buffer, batch>>
    BY <1>16 DEF Retry
  <2>2. [r EXCEPT !.at = "stage1"].news = r.news
    BY <1>1, <1>5 DEF Working
  <2> QED BY <1>4, <1>7, <2>1, <2>2
<1>17. ASSUME NEW r \in runs, Timeout(r) PROVE Traded(n)
  <2>1. r.at \in Working /\ runs' = runs \ {r} /\ UNCHANGED <<hand, buffer, batch>>
    BY <1>17 DEF Timeout, Over
  <2>2. CASE r.at \in Sending /\ Cut(EventOf(r))
    <3> DEFINE k == Len(topic) + 1
    <3>1. /\ Verdicts(n)' \subseteq Verdicts(n) \cup {k}
          /\ r.news # n => Verdicts(n)' \subseteq Verdicts(n)
      BY <1>1, <1>13, <2>2, VerdictsMove
    <3>2. MayJudge(r)
      BY <2>2 DEF MayJudge, Sending
    <3>3. \A x \in runs' : x \in runs \ {r} \/ ~MayJudge(x)
      BY <2>1
    <3> HIDE DEF k
    <3> QED BY <2>1, <3>1, <3>2, <3>3, JudgedTraded
  <2>3. CASE UNCHANGED topic
    BY <1>4, <1>8, <2>1, <2>3
  <2> QED BY <1>17, <2>2, <2>3 DEF Timeout
<1>18. ASSUME NEW r \in late, AttachSummary(r) PROVE Traded(n)
  <2>1. UNCHANGED <<runs, hand, buffer, batch>> /\ (Cut(Update(r)) \/ UNCHANGED topic)
    BY <1>18, PublicationIsCut DEF AttachSummary
  <2>2. Update(r) \in Event /\ Update(r).kind # "complete"
    BY <1>1, RunSteps DEF Update
  <2> QED BY <1>2, <1>3, <1>4, <2>1, <2>2
<1>19. ASSUME NEW r \in runs \cup late, SummaryEnds(r) PROVE Traded(n)
  <2>1. UNCHANGED <<topic, hand, buffer, batch>>
    BY <1>19 DEF SummaryEnds
  <2>2. CASE UNCHANGED runs
    BY <1>2, <1>4, <2>1, <2>2
  <2>3. ASSUME NEW s \in {"ready", "failed"}, r \in runs, r.at # "sent",
               Becomes(r, [r EXCEPT !.summary = s])
        PROVE  Traded(n)
    <3>1. [r EXCEPT !.summary = s].news = r.news
      BY <1>1, <2>3 DEF Run
    <3> QED BY <1>4, <1>7, <2>1, <2>3, <3>1
  <2> QED BY <1>19, <2>2, <2>3 DEF SummaryEnds
<1>20. ASSUME NEW f \in Flushers, Triage(f) PROVE Traded(n)
  <2>1. PICK S \in SUBSET batch[f].items : Remaining(f, S)
    <3>1. CASE Remaining(f, batch[f].items)
      BY <3>1
    <3>2. CASE Remaining(f, batch[f].items \cap Irrelevant)
      BY <3>2
    <3>3. CASE Remaining(f, {})
      BY <3>3
    <3> QED BY <1>20, <3>1, <3>2, <3>3 DEF Triage
  <2>2. UNCHANGED <<topic, runs, buffer>>
    BY <1>20 DEF Triage
  <2>3. Places(n)' \subseteq Places(n)
    BY <2>1, <2>2, RemainingPlaces
  <2>4. Judging(n)' \subseteq Judging(n)
    BY <2>2 DEF Judging
  <2> QED BY <1>4, <2>2, <2>3, <2>4, LessTraded
<1>21. ASSUME NEW f \in Flushers, NEW m \in News, PublishBatch(f, m) PROVE Traded(n)
  BY <1>21, BatchTraded
<1>22. ASSUME TimerFlush PROVE Traded(n)
  <2>1. "timer" \in Flushers
    BY DEF Flushers
  <2> QED BY <1>22, <2>1, FlushTraded DEF TimerFlush
<1>23. ASSUME StartRun PROVE Traded(n)
  BY <1>23, StartTraded
<1>24. ASSUME Terminate \/ DrainTasks \/ Bell PROVE Traded(n)
  BY <1>2, <1>4, <1>24 DEF Terminate, DrainTasks, Bell
<1>25. ASSUME DrainSummaries PROVE Traded(n)
  <2>1. CASE UNCHANGED batches
    BY <1>2, <1>4, <1>25, <2>1 DEF DrainSummaries
  <2>2. CASE StartFlush("stop", buffer)
    <3>1. "stop" \in Flushers
      BY DEF Flushers
    <3> QED BY <1>25, <2>2, <3>1, FlushTraded DEF DrainSummaries
  <2> QED BY <1>25, <2>1, <2>2 DEF DrainSummaries
<1>26. ASSUME StopEnds \/ Kill \/ Crash PROVE Traded(n)
  BY <1>26, RestartTraded DEF StopEnds, Kill, Crash, RestartAbruptly
<1>27. ASSUME UNCHANGED workerVars, topic' = topic PROVE Traded(n)
  BY <1>2, <1>4, <1>27 DEF workerVars
<1>28. taken' = taken
  <2>1. ASSUME NEW r \in runs, RunNext(r) \/ Timeout(r) PROVE taken' = taken
    BY <2>1 DEF RunNext, Classify, PublishSkeleton, Analyse, Join, PublishFinal, Finish, Retry,
                Timeout
  <2>2. ASSUME NEW r \in runs \cup late, AttachSummary(r) \/ SummaryEnds(r) PROVE taken' = taken
    BY <2>2 DEF AttachSummary, SummaryEnds
  <2>3. ASSUME NEW f \in Flushers, FlushNext(f) PROVE taken' = taken
    BY <2>3 DEF FlushNext, Triage, PublishBatch
  <2>4. ASSUME TimerFlush \/ StartRun \/ Terminate \/ DrainTasks \/ DrainSummaries \/ Bell
        PROVE  taken' = taken
    BY <2>4 DEF TimerFlush, StartRun, Terminate, DrainTasks, DrainSummaries, Bell
  <2>5. ASSUME StopEnds \/ Kill \/ Crash PROVE taken' = taken
    BY <2>5 DEF StopEnds, Kill, Crash, RestartAbruptly, Restart
  <2>6. ASSUME UNCHANGED workerVars PROVE taken' = taken
    BY <2>6 DEF workerVars
  <2> QED BY <2>1, <2>2, <2>3, <2>4, <2>5, <2>6 DEF Next, WorkerNext, ShutdownNext, vars
<1>29. Traded(n)
  <2>1. CASE WorkerNext
    BY <1>9, <1>10, <1>11, <1>12, <1>14, <1>15, <1>16, <1>17, <1>18, <1>19, <1>20, <1>21,
       <1>22, <1>23, <1>24, <1>25, <1>26, <2>1 DEF WorkerNext, RunNext, FlushNext, ShutdownNext
  <2>2. CASE RelayNext /\ UNCHANGED workerVars
    <3>1. topic' = topic
      BY <2>2 DEF RelayNext, Take, CacheReport, Persist, RelayCrash
    <3> QED BY <1>27, <2>2, <3>1
  <2>3. CASE UNCHANGED vars
    BY <1>27, <2>3 DEF vars
  <2> QED BY <2>1, <2>2, <2>3 DEF Next
<1> QED BY <1>28, <1>29

LEMMA ClaimsStep ==
  WorkerTypeOK /\ ClaimsCounted /\ [Next]_vars => ClaimsCounted'
<1> SUFFICES ASSUME WorkerTypeOK, ClaimsCounted, [Next]_vars, NEW n \in News
             PROVE  IsFiniteSet(Claims(n)') /\ Cardinality(Claims(n)') <= taken'[n]
  BY DEF ClaimsCounted
<1>1. IsFiniteSet(Claims(n)) /\ Cardinality(Claims(n)) <= taken[n] /\ taken[n] \in Nat
  BY DEF ClaimsCounted, WorkerTypeOK
<1>2. ASSUME NEW T, Exchanged(Claims(n), T)
      PROVE  IsFiniteSet(T) /\ Cardinality(T) \in Nat /\ Cardinality(T) <= taken[n]
  <2> DEFINE S == Claims(n)
  <2>1. IsFiniteSet(S) /\ Exchanged(S, T)
    BY <1>1, <1>2
  <2> HIDE DEF S
  <2>2. IsFiniteSet(T) /\ Cardinality(T) <= Cardinality(S)
    BY <2>1, ExchangeCounts
  <2>3. Cardinality(S) \in Nat /\ Cardinality(T) \in Nat
    BY <2>1, <2>2, FS_CardinalityType
  <2> QED BY <1>1, <2>2, <2>3 DEF S
<1>3. CASE Traded(n)
  <2>1. IsFiniteSet(Claims(n)') /\ Cardinality(Claims(n)') \in Nat
        /\ Cardinality(Claims(n)') <= taken[n]
    BY <1>2, <1>3 DEF Traded
  <2>2. taken'[n] \in Nat /\ taken[n] <= taken'[n]
    <3>1. CASE Deliver
      <4>1. taken' = [taken EXCEPT ![inbox[pos + 1]] = @ + 1] /\ taken \in [News -> Nat]
        BY <3>1 DEF Deliver, WorkerTypeOK
      <4> QED BY <1>1, <4>1
    <3>2. CASE ~Deliver
      BY <1>1, <3>2, TradedNext
    <3> QED BY <3>1, <3>2
  <2> QED BY <1>1, <2>1, <2>2
<1>4. CASE Deliver /\ n = inbox[pos + 1] /\ ClaimAdded(n)
  <2>1. taken'[n] = taken[n] + 1
    BY <1>4 DEF Deliver, WorkerTypeOK
  <2>2. PICK T, y : Exchanged(Claims(n), T) /\ Claims(n)' \subseteq T \cup {y}
    BY <1>4 DEF ClaimAdded
  <2>3. IsFiniteSet(T) /\ Cardinality(T) \in Nat /\ Cardinality(T) <= taken[n]
    BY <1>2, <2>2
  <2>4. /\ IsFiniteSet(T \cup {y})
        /\ Cardinality(T \cup {y}) = IF y \in T THEN Cardinality(T) ELSE Cardinality(T) + 1
    BY <2>3, FS_AddElement
  <2> DEFINE S == Claims(n)'
  <2>5. S \in SUBSET (T \cup {y})
    BY <2>2
  <2> HIDE DEF S
  <2>6. IsFiniteSet(S) /\ Cardinality(S) <= Cardinality(T \cup {y})
    BY <2>4, <2>5, FS_Subset
  <2>7. Cardinality(S) \in Nat
    BY <2>6, FS_CardinalityType
  <2> QED BY <1>1, <2>1, <2>3, <2>4, <2>6, <2>7 DEF S
<1>5. CASE ~Deliver
  BY <1>3, <1>5, TradedNext
<1> QED BY <1>3, <1>4, <1>5, DeliveredClaims DEF Delivered

\* The verdicts are claims.
LEMMA VerdictsAreClaims ==
  ASSUME NEW n, IsFiniteSet(Claims(n))
  PROVE  /\ Cardinality(Verdicts(n)) <= Cardinality(Claims(n))
         /\ Cardinality(Verdicts(n)) \in Nat /\ Cardinality(Claims(n)) \in Nat
<1> DEFINE V == Verdicts(n)
           J == Judging(n)
           P == Places(n)
<1>1. Claims(n) = Claimed(V, J, P)
  BY DEF Claims
<1> HIDE DEF V, J, P
<1> DEFINE T == {<<"verdict", k>> : k \in V}
           f == [c \in T |-> c[2]]
<1>2. T \in SUBSET Claimed(V, J, P)
  BY DEF Claimed
<1>3. IsFiniteSet(T) /\ Cardinality(T) <= Cardinality(Claimed(V, J, P))
  BY <1>1, <1>2, FS_Subset
<1>4. f \in Surjection(T, V)
  <2>1. \A c \in T : f[c] \in V
    OBVIOUS
  <2>2. \A k \in V : \E c \in T : f[c] = k
    <3>1. \A k \in V : <<"verdict", k>> \in T /\ f[<<"verdict", k>>] = k
      OBVIOUS
    <3> QED BY <3>1
  <2>3. f \in [T -> V]
    BY <2>1
  <2> HIDE DEF f, T
  <2> QED BY <2>2, <2>3 DEF Surjection
<1> HIDE DEF f, T
<1>5. IsFiniteSet(V) /\ Cardinality(V) <= Cardinality(T)
  BY <1>3, <1>4, FS_Surjection
<1>6. Cardinality(V) \in Nat /\ Cardinality(T) \in Nat /\ Cardinality(Claims(n)) \in Nat
  BY <1>3, <1>5, FS_CardinalityType
<1> QED BY <1>1, <1>3, <1>5, <1>6 DEF V

ClaimsTyped == PipelineTypeOK /\ ClaimsCounted

\* One delivery of an item gives at most one report to trade on, whoever flushes
\* the buffer, however often scoring is repeated and whatever is redelivered
\* (analysis/main.py, handle_news, _flush_batch, _spawn_rt).
THEOREM OneVerdictPerDeliveryHolds == Spec => []OneVerdictPerDelivery
<1>1. Init => ClaimsTyped
  <2> SUFFICES ASSUME Init, NEW n \in News
               PROVE  IsFiniteSet(Claims(n)) /\ Cardinality(Claims(n)) <= taken[n]
    BY InitTyped DEF ClaimsTyped, ClaimsCounted
  <2>1. Verdicts(n) = {} /\ Judging(n) = {} /\ taken[n] = 0
    BY DEF Init, WorkerInit, Verdicts, Judging
  <2>2. Places(n) = {}
    BY WorkerAssumption DEF Init, WorkerInit, Places, Resting, Free
  <2>3. Claims(n) = {}
    BY <2>1, <2>2 DEF Claims, Claimed
  <2> QED BY <2>1, <2>3, FS_EmptySet
<1>2. ClaimsTyped /\ [Next]_vars => ClaimsTyped'
  BY TypedInductive, ClaimsStep DEF ClaimsTyped, PipelineTypeOK
<1>3. ClaimsTyped => OneVerdictPerDelivery
  <2> SUFFICES ASSUME ClaimsTyped, NEW n \in News PROVE Cardinality(Verdicts(n)) <= taken[n]
    BY DEF OneVerdictPerDelivery
  <2>1. IsFiniteSet(Claims(n)) /\ Cardinality(Claims(n)) <= taken[n] /\ taken[n] \in Nat
    BY DEF ClaimsTyped, ClaimsCounted, PipelineTypeOK, WorkerTypeOK
  <2>2. /\ Cardinality(Verdicts(n)) <= Cardinality(Claims(n))
        /\ Cardinality(Verdicts(n)) \in Nat /\ Cardinality(Claims(n)) \in Nat
    BY <2>1, VerdictsAreClaims
  <2> QED BY <2>1, <2>2
<1> QED BY <1>1, <1>2, <1>3, PTL DEF Spec

=============================================================================
