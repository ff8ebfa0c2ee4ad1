------------------------------ MODULE LlmCalls ------------------------------
(***************************************************************************)
(* Calls of language models.  Claude on Bedrock is paced: a process keeps  *)
(* for a model the times of the calls of the last minute, and a caller     *)
(* sleeps until the oldest of them has left the minute, unless that would  *)
(* take it beyond its longest wait; then it calls unpaced.  Gemini is      *)
(* asked again when it garbles a tool call, a web search when it is        *)
(* throttled; what times out is never asked again.  Callers are threads    *)
(* and tasks, and may wake late.  One model; models do not share a window. *)
(***************************************************************************)
EXTENDS Integers, Sequences, FiniteSets

CONSTANTS
  LlmCallers,
  RpmLimit,        \* BEDROCK_RPM_LIMIT
  Minute,          \* of the sliding window
  MaxWait,         \* BEDROCK_PACING_MAX_WAIT_S
  GarbledTries,    \* GEMINI_TOOL_MAX_ATTEMPTS
  SearchTries,     \* GROUNDING_MAX_RETRIES
  MaxClock, MaxRequests    \* bounds

ASSUME LlmAssumption ==
  /\ {RpmLimit, Minute, GarbledTries, SearchTries} \subseteq Nat \ {0}
  /\ {MaxWait, MaxClock, MaxRequests} \subseteq Nat
  /\ MaxWait >= Minute

VARIABLES
  clock,
  window,       \* _pacer_windows of the model: times, oldest first
  request,      \* of a caller: what it asks for and how far it is
  paced,        \* history: times of the paced calls
  overtaken,    \* history: slots others took since the request of a caller
  unpaced,      \* history: `overtaken' of those that gave up waiting
  requests

llmVars == <<clock, window, request, paced, overtaken, unpaced, requests>>

Kinds   == {"claude", "gemini", "search"}
NoAsk   == [kind |-> "none", step |-> "idle", since |-> 0, until |-> 0, tries |-> 0]

LlmInit ==
  /\ clock = 0 /\ window = <<>> /\ paced = <<>>
  /\ request = [c \in LlmCallers |-> NoAsk]
  /\ overtaken = [c \in LlmCallers |-> 0]
  /\ unpaced = {} /\ requests = 0

\* complete and acomplete by the provider of the model, grounded_search.
AskModel(c, kind) ==
  /\ request[c] = NoAsk
  /\ requests < MaxRequests /\ requests' = requests + 1
  /\ request' = [request EXCEPT ![c] =
       [kind |-> kind, step |-> IF kind = "claude" THEN "pace" ELSE "call",
        since |-> clock, until |-> clock, tries |-> 0]]
  /\ overtaken' = [overtaken EXCEPT ![c] = 0]
  /\ UNCHANGED <<clock, window, paced, unpaced>>

\* Mutant: a call leaves the window a little early.
LastMinute_Early ==
  LET old == {i \in DOMAIN window : clock - window[i] >= Minute - 1}
  IN  SubSeq(window, Cardinality(old) + 1, Len(window))

\* popleft as long as the oldest call has left the minute.
LastMinute ==
  LET old == {i \in DOMAIN window : clock - window[i] >= Minute}
  IN  SubSeq(window, Cardinality(old) + 1, Len(window))

\* When the oldest call leaves a full window.
SlotFrees == Head(LastMinute) + Minute

\* _pacer_reserve under its lock, and what _bedrock_pace makes of the answer.
Reserve(c) ==
  /\ request[c].step = "pace" /\ request[c].until <= clock
  /\ IF Len(LastMinute) < RpmLimit
       THEN /\ window' = Append(LastMinute, clock)
            /\ paced' = Append(paced, clock)
            /\ overtaken' = [d \in LlmCallers |->
                 IF d # c /\ request[d].step = "pace" THEN overtaken[d] + 1 ELSE overtaken[d]]
            /\ request' = [request EXCEPT ![c].step = "call"]
            /\ UNCHANGED unpaced
       ELSE /\ window' = LastMinute
            /\ UNCHANGED <<paced, overtaken>>
            /\ IF SlotFrees > request[c].since + MaxWait
                 THEN /\ request' = [request EXCEPT ![c].step = "call"]
                      /\ unpaced' = unpaced \cup {overtaken[c]}
                 ELSE /\ request' = [request EXCEPT ![c].until = SlotFrees]
                      /\ UNCHANGED unpaced
  /\ UNCHANGED <<clock, requests>>

\* How often the wrapper itself asks at most.
Tries(kind) == CASE kind = "claude" -> 1
                 [] kind = "gemini" -> GarbledTries
                 [] kind = "search" -> SearchTries

\* An answer, an error or a time-out ends the request.
CallEnds(c) ==
  /\ request[c].step = "call"
  /\ request' = [request EXCEPT ![c] = NoAsk]
  /\ UNCHANGED <<clock, window, paced, overtaken, unpaced, requests>>

\* A garbled tool call is asked for again at once, a throttled search after
\* a pause, until the tries are used up.
CallAgain(c) ==
  /\ request[c].step = "call"
  /\ request[c].tries + 1 < Tries(request[c].kind)
  /\ request' = [request EXCEPT ![c].tries = @ + 1]
  /\ UNCHANGED <<clock, window, paced, overtaken, unpaced, requests>>

LlmClock ==
  /\ clock < MaxClock
  /\ clock' = clock + 1
  /\ UNCHANGED <<window, request, paced, overtaken, unpaced, requests>>

LlmNext ==
  \/ \E c \in LlmCallers : Reserve(c) \/ CallEnds(c) \/ CallAgain(c)
                           \/ \E kind \in Kinds : AskModel(c, kind)
  \/ LlmClock

LlmSpec == LlmInit /\ [][LlmNext]_llmVars

-----------------------------------------------------------------------------
(* Properties.                                                             *)

LlmTypeOK ==
  /\ clock \in 0..MaxClock /\ requests \in 0..MaxRequests
  /\ window \in Seq(0..clock) /\ paced \in Seq(0..clock)
  /\ Len(window) <= RpmLimit
  /\ \A c \in LlmCallers :
       /\ request[c].kind \in Kinds \cup {"none"}
       /\ request[c].step \in {"idle", "pace", "call"}
       /\ request[c].tries \in 0..GarbledTries + SearchTries
       /\ overtaken[c] \in 0..MaxRequests

\* Whatever callers do together, no minute has more paced calls than the limit;
\* and pacing gives up on a caller only after a whole minute's worth of others
\* went past it: as long as fewer than that wait, each call is paced
\* (llm/wrapper.py, _pacer_reserve and _bedrock_pace_async, "makes calls QUEUE
\* instead of FAIL").
PacedWithinLimit ==
  /\ \A t \in 0..clock :
       Cardinality({i \in DOMAIN paced : paced[i] \in t..t + Minute - 1}) <= RpmLimit
  /\ \A n \in unpaced : n >= RpmLimit

=============================================================================
