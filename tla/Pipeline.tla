------------------------------ MODULE Pipeline ------------------------------
(***************************************************************************)
(* The analysis worker and the relay, two processes joined by the topic    *)
(* analysed.impact.in.                                                     *)
(***************************************************************************)
EXTENDS AnalysisWorker, Relay

vars == <<topic, faults, workerVars, relayVars>>

Init == WorkerInit /\ RelayInit

Next ==
  \/ WorkerNext /\ UNCHANGED relayVars
  \/ RelayNext /\ UNCHANGED workerVars

Spec == Init /\ [][Next]_vars

(***************************************************************************)
(* Fairness: the event loop of the worker does not rest while one of its   *)
(* tasks can go on.  What they await has a time-out, the timer wakes up, a *)
(* summary ends, a shutdown proceeds.                                      *)
(***************************************************************************)
WorkerProgress ==
  \/ \E r \in runs : RunNext(r)
  \/ \E r \in runs \cup late : SummaryEnds(r)
  \/ \E f \in Flushers : FlushNext(f)
  \/ TimerFlush /\ svc = "up"
  \/ StartRun
  \/ ShutdownNext

FairSpec == Spec /\ WF_vars(WorkerProgress /\ UNCHANGED relayVars)

\* Worker and relay keep their types, of runs, batches, topic and rows
\* (WorkerTypeOK and RelayTypeOK).
PipelineTypeOK == WorkerTypeOK /\ RelayTypeOK

=============================================================================
