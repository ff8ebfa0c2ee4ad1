--------------------------- MODULE AnalysedTopic ---------------------------
(***************************************************************************)
(* The topic analysed.impact.in between the analysis worker and the relay. *)
(* Events of one news item share a partition, so that one sequence stands  *)
(* for what every reader sees of an item.                                  *)
(***************************************************************************)
EXTENDS Integers, Sequences, FiniteSets

CONSTANTS
  News,        \* news items
  FaultKinds,  \* failures that may happen in this instance
  MaxFaults    \* bound: failures

AllFaults == {"publish", "llm", "timeout", "crash", "stop", "redis", "db", "relay"}

ASSUME TopicAssumption ==
  /\ MaxFaults \in Nat
  /\ FaultKinds \subseteq AllFaults

VARIABLES
  topic,   \* the events published, oldest first
  faults   \* failures so far

\* A report id is published at most three times: the skeleton of market hours
\* ("analysing"), the scored report, and the summary that came late ("update").
Kinds == {"analysing", "complete", "update"}

Rank == [analysing |-> 0, complete |-> 1, update |-> 2]

\* impacts: the event may name companies; summary: its news item has one.
Event == [id : Nat, news : News, kind : Kinds, impacts : BOOLEAN, summary : BOOLEAN]

Fault(kind) ==
  /\ kind \in FaultKinds
  /\ faults < MaxFaults
  /\ faults' = faults + 1

Sent(e) == topic' = Append(topic, e)

\* send_and_wait returns.
Published(e) == Sent(e) /\ UNCHANGED faults

\* send_and_wait is cancelled or raises: the broker may have the event or not.
Cut(e) == Sent(e) \/ UNCHANGED topic

PublishFails(e) == Fault("publish") /\ Cut(e)

=============================================================================
