--------------------------- MODULE Ingestion_proofs ---------------------------
(***************************************************************************)
(* Theorems about ingestion, for any adapters, listings, page sizes, queue *)
(* size, workers and failures:                                             *)
(*   TypeCorrect         the variables keep their types;                   *)
(*   FilingTracedHolds   a filing that will not be fetched again has left  *)
(*                       a trace.                                          *)
(*   KeyEndsCopiesHolds  once a key of an item is recorded, only copies in *)
(*                       hand are published.                               *)
(***************************************************************************)
EXTENDS Ingestion, FiniteSetTheorems, FunctionTheorems, TLAPS

(***************************************************************************)
(* Types.  TypeOK becomes inductive with the fact that a handler in the    *)
(* middle of its work holds an item.                                       *)
(***************************************************************************)
Handling == {"look", "raw", "route", "keys", "mark"}

HandlersHold == \A s \in Sources : pc[s] \in Handling => item[s] \in Items

Typed == TypeOK /\ HandlersHold

\* A page holds rows of the listing.
LEMMA PageType ==
  ASSUME TypeOK, NEW s \in Sources, NEW p \in Nat \ {0}
  PROVE  Page(s, p) \subseteq Items
<1>1. PageSize[s] \in Nat \ {0} /\ listing[s] \in Seq(Items)
  BY SizeAssumption DEF TypeOK
<1>2. PageEnd(s, p) <= Len(listing[s])
  BY <1>1 DEF PageEnd
<1>3. PageEnd(s, p) \in Int /\ (p - 1) * PageSize[s] \in Nat
  <2> DEFINE k == PageSize[s]
  <2>1. \A a, b \in Nat : a * b \in Nat
    OBVIOUS
  <2>2. p - 1 \in Nat /\ p \in Nat /\ k \in Nat
    BY <1>1
  <2>3. (p - 1) * k \in Nat /\ p * k \in Nat
    BY <2>1, <2>2
  <2> QED BY <1>1, <2>3 DEF PageEnd
<1>4. \A n \in ((p - 1) * PageSize[s] + 1)..PageEnd(s, p) : n \in 1..Len(listing[s])
  BY <1>1, <1>2, <1>3
<1> QED
  BY <1>1, <1>4 DEF Page

\* seen_add keeps the marks sets of items, and counts at most one failure.
LEMMA SeenAddType ==
  ASSUME TypeOK, NEW s \in Sources, NEW ids \in SUBSET Items, SeenAdd(s, ids)
  PROVE  /\ seen' \in [Sources -> SUBSET Items]
         /\ stored' \in [Sources -> SUBSET Items]
         /\ faults' \in Nat
<1>1. seen' \in [Sources -> SUBSET Items]
  BY DEF TypeOK, SeenAdd
<1>2. CASE stored' = [stored EXCEPT ![s] = @ \cup ids] /\ UNCHANGED faults
  BY <1>1, <1>2 DEF TypeOK
<1>3. CASE Fault("redis") /\ UNCHANGED stored
  BY <1>1, <1>3 DEF TypeOK, Fault
<1> QED BY <1>2, <1>3 DEF SeenAdd

\* So do the topics.
LEMMA UndeliveredType ==
  ASSUME TypeOK, NEW i \in Items, Undelivered(i)
  PROVE  dlq' \subseteq Items /\ lost' \subseteq Items /\ faults' \in Nat
BY DEF TypeOK, Undelivered, Fault

LEMMA PublishEnrichedType ==
  ASSUME TypeOK, NEW i \in Items, PublishEnriched(i)
  PROVE  /\ enriched' \in [Items -> Nat]
         /\ dlq' \subseteq Items /\ lost' \subseteq Items /\ faults' \in Nat
<1>1. CASE enriched' = [enriched EXCEPT ![i] = @ + 1] /\ UNCHANGED <<dlq, lost, faults>>
  BY <1>1 DEF TypeOK
<1>2. CASE Undelivered(i) /\ UNCHANGED enriched
  BY <1>2, UndeliveredType DEF TypeOK
<1> QED BY <1>1, <1>2 DEF PublishEnriched

\* Receiving a page.
LEMMA ReceiveTyped ==
  ASSUME Typed, NEW s \in Sources, NEW p \in Nat \ {0}, Receive(s, p)
  PROVE  Typed'
<1> DEFINE new == Page(s, p) \ seen[s]
<1>1. new \subseteq Items
  BY PageType DEF Typed
<1>2. /\ pc' = [pc EXCEPT ![s] = "page"]
      /\ cycle' = [cycle EXCEPT ![s] = [page |-> p, fresh |-> new # {},
                     last |-> p * PageSize[s] >= Len(listing[s])]]
      /\ todo' = [todo EXCEPT ![s] = new \ Unwanted]
      /\ SeenAdd(s, new \cap Unwanted)
      /\ UNCHANGED <<feeds, keys, topics, item, pool, life>>
  BY DEF Receive
<1>3. /\ seen' \in [Sources -> SUBSET Items]
      /\ stored' \in [Sources -> SUBSET Items]
      /\ faults' \in Nat
  BY <1>1, <1>2, SeenAddType DEF Typed
<1>4. [page |-> p, fresh |-> new # {}, last |-> p * PageSize[s] >= Len(listing[s])]
        \in [page : Nat, fresh : BOOLEAN, last : BOOLEAN]
  OBVIOUS
<1>5. cycle' \in [Sources -> [page : Nat, fresh : BOOLEAN, last : BOOLEAN]]
  BY <1>2, <1>4 DEF Typed, TypeOK
<1>6. todo' \in [Sources -> SUBSET Items]
  BY <1>1, <1>2 DEF Typed, TypeOK
<1>7. TypeOK'
  BY <1>2, <1>3, <1>5, <1>6 DEF Typed, TypeOK, Stages, feeds, topics, pool, life
<1>8. HandlersHold'
  BY <1>2 DEF Typed, TypeOK, HandlersHold, Handling
<1> QED BY <1>7, <1>8 DEF Typed

\* A cycle that ends, one or all of them.
LEMMA RestTyped ==
  ASSUME Typed, NEW s \in Sources, Rest(s)
  PROVE  /\ pc' \in [Sources -> Stages]
         /\ cycle' \in [Sources -> [page : Nat, fresh : BOOLEAN, last : BOOLEAN]]
         /\ todo' \in [Sources -> SUBSET Items]
         /\ item' \in [Sources -> Items \cup {None}]
         /\ HandlersHold'
<1>1. NoCycle \in [page : Nat, fresh : BOOLEAN, last : BOOLEAN]
  BY DEF NoCycle
<1>2. cycle' \in [Sources -> [page : Nat, fresh : BOOLEAN, last : BOOLEAN]]
  BY <1>1 DEF Rest, Typed, TypeOK
<1>3. HandlersHold'
  BY DEF Rest, Typed, TypeOK, HandlersHold, Handling
<1> QED BY <1>2, <1>3 DEF Rest, Typed, TypeOK, Stages

LEMMA AllRestTyped ==
  ASSUME AllRest
  PROVE  /\ pc' \in [Sources -> Stages]
         /\ cycle' \in [Sources -> [page : Nat, fresh : BOOLEAN, last : BOOLEAN]]
         /\ todo' \in [Sources -> SUBSET Items]
         /\ item' \in [Sources -> Items \cup {None}]
         /\ HandlersHold'
<1>1. NoCycle \in [page : Nat, fresh : BOOLEAN, last : BOOLEAN]
  BY DEF NoCycle
<1>2. cycle' \in [Sources -> [page : Nat, fresh : BOOLEAN, last : BOOLEAN]]
  BY <1>1 DEF AllRest
<1> QED BY <1>2 DEF AllRest, Stages, HandlersHold, Handling

\* A new process.
LEMMA RestartTyped ==
  ASSUME Typed, NEW loaded \in [Sources -> SUBSET Items], Restart(loaded),
         faults' \in Nat
  PROVE  Typed'
<1>1. queue' \in Seq(Items \cup {Stop})
  BY DEF Restart
<1>2. worker' \in [Workers -> Items \cup {Idle, Done}]
  BY DEF Restart
<1>3. svc' \in {"up", "stopping"} /\ stops' \in Nat /\ seen' = loaded /\ AllRest
  BY DEF Restart
<1>4. UNCHANGED <<feeds, stored, keys, topics>>
  BY DEF Restart
<1>5. TypeOK'
  BY <1>1, <1>2, <1>3, <1>4, AllRestTyped DEF Typed, TypeOK, feeds, topics
<1>6. HandlersHold'
  BY <1>3, AllRestTyped
<1> QED BY <1>5, <1>6 DEF Typed

\* Every step keeps the types.
LEMMA TypedInductive == Typed /\ [Next]_vars => Typed'
<1> SUFFICES ASSUME Typed, [Next]_vars PROVE Typed'
  OBVIOUS
<1> USE DEF feeds, marks, topics, loops, pool, life
<1>1. ASSUME NEW i \in Items, File(i) PROVE Typed'
  <2>1. SourceOf[i] \in Sources
    BY ItemAssumption
  <2>2. <<i>> \o listing[SourceOf[i]] \in Seq(Items)
    BY <2>1 DEF Typed, TypeOK
  <2>3. listing' \in [Sources -> Seq(Items)]
    BY <1>1, <2>1, <2>2 DEF File, Typed, TypeOK
  <2>4. upcoming' \subseteq Items
    BY <1>1 DEF File, Typed, TypeOK
  <2> QED BY <1>1, <2>3, <2>4 DEF File, Typed, TypeOK, HandlersHold
<1>2. ASSUME NEW s \in Sources, Poll(s) PROVE Typed'
  BY <1>2, ReceiveTyped DEF Poll
<1>3. ASSUME NEW s \in Sources, NextPage(s) PROVE Typed'
  <2>1. cycle[s].page + 1 \in Nat \ {0}
    BY DEF Typed, TypeOK
  <2> QED BY <1>3, <2>1, ReceiveTyped DEF NextPage
<1>4. ASSUME NEW s \in Sources, PageFails(s) PROVE Typed'
  <2>1. Rest(s) /\ faults' \in Nat
    BY <1>4 DEF PageFails, Fault, Typed, TypeOK
  <2>2. TypeOK'
    BY <1>4, <2>1, RestTyped DEF PageFails, Typed, TypeOK
  <2> QED BY <2>1, <2>2, RestTyped DEF Typed
<1>5. ASSUME NEW s \in Sources, PageDone(s) PROVE Typed'
  <2>1. CASE Rest(s)
    <3>1. TypeOK'
      BY <1>5, <2>1, RestTyped DEF PageDone, Typed, TypeOK
    <3> QED BY <2>1, <3>1, RestTyped DEF Typed
  <2>2. CASE pc' = [pc EXCEPT ![s] = "between"] /\ UNCHANGED <<cycle, todo, item>>
    BY <1>5, <2>2 DEF PageDone, Typed, TypeOK, Stages, HandlersHold, Handling
  <2> QED BY <1>5, <2>1, <2>2 DEF PageDone
<1>6. ASSUME NEW s \in Sources, NEW i \in Items, Take(s, i) PROVE Typed'
  <2>1. (IF s \in MarkFirst THEN {i} ELSE {}) \in SUBSET Items
    OBVIOUS
  <2>2. /\ seen' \in [Sources -> SUBSET Items]
        /\ stored' \in [Sources -> SUBSET Items]
        /\ faults' \in Nat
    BY <1>6, <2>1, SeenAddType DEF Take, Typed
  <2>3. TypeOK'
    BY <1>6, <2>2 DEF Take, Typed, TypeOK, Stages
  <2>4. HandlersHold'
    BY <1>6 DEF Take, Typed, TypeOK, HandlersHold, Handling
  <2> QED BY <2>3, <2>4 DEF Typed
<1>7. ASSUME NEW s \in Sources, Look(s) PROVE Typed'
  <2>1. faults' \in Nat
    BY <1>7 DEF Look, Fault, Typed, TypeOK
  <2>2. pc' \in [Sources -> Stages]
    BY <1>7 DEF Look, Typed, TypeOK, Stages
  <2>3. HandlersHold'
    BY <1>7 DEF Look, Typed, TypeOK, HandlersHold, Handling
  <2> QED BY <1>7, <2>1, <2>2, <2>3 DEF Look, Typed, TypeOK
<1>8. ASSUME NEW s \in Sources, PublishRaw(s) PROVE Typed'
  <2>1. item[s] \in Items
    BY <1>8 DEF PublishRaw, Typed, HandlersHold, Handling
  <2>2. raw' \subseteq Items /\ dlq' \subseteq Items /\ lost' \subseteq Items
          /\ faults' \in Nat
    <3>1. CASE raw' = raw \cup {item[s]} /\ UNCHANGED <<dlq, lost, faults>>
      BY <2>1, <3>1 DEF Typed, TypeOK
    <3>2. CASE Undelivered(item[s]) /\ UNCHANGED raw
      BY <2>1, <3>2, UndeliveredType DEF Typed, TypeOK
    <3> QED BY <1>8, <3>1, <3>2 DEF PublishRaw
  <2>3. TypeOK'
    BY <1>8, <2>2 DEF PublishRaw, Typed, TypeOK, Stages
  <2>4. HandlersHold'
    BY <1>8, <2>1 DEF PublishRaw, Typed, TypeOK, HandlersHold, Handling
  <2> QED BY <2>3, <2>4 DEF Typed
<1>9. ASSUME NEW s \in Sources, Enqueue(s) PROVE Typed'
  <2>1. item[s] \in Items
    BY <1>9 DEF Enqueue, Typed, HandlersHold, Handling
  <2>2. queue' \in Seq(Items \cup {Stop})
    BY <1>9, <2>1 DEF Enqueue, Typed, TypeOK
  <2>3. TypeOK'
    BY <1>9, <2>2 DEF Enqueue, Typed, TypeOK, Stages
  <2>4. HandlersHold'
    BY <1>9, <2>1 DEF Enqueue, Typed, TypeOK, HandlersHold, Handling
  <2> QED BY <2>3, <2>4 DEF Typed
<1>10. ASSUME NEW s \in Sources, PublishNow(s) PROVE Typed'
  <2>1. item[s] \in Items
    BY <1>10 DEF PublishNow, Typed, HandlersHold, Handling
  <2>2. TypeOK'
    BY <1>10, <2>1, PublishEnrichedType DEF PublishNow, Typed, TypeOK, Stages
  <2>3. HandlersHold'
    BY <1>10, <2>1 DEF PublishNow, Typed, TypeOK, HandlersHold, Handling
  <2> QED BY <2>2, <2>3 DEF Typed
<1>11. ASSUME NEW s \in Sources, MarkKeys(s) PROVE Typed'
  <2>1. item[s] \in Items
    BY <1>11 DEF MarkKeys, Typed, HandlersHold, Handling
  <2>2. keys' \subseteq UNION {KeysOf[i] : i \in Items} /\ faults' \in Nat
    <3>1. item[s] \in Items /\ KeysOf[item[s]] \subseteq UNION {KeysOf[i] : i \in Items}
      BY <2>1
    <3>2. keys' \subseteq keys \cup KeysOf[item[s]] /\ faults' \in Nat
      BY <1>11 DEF MarkKeys, Fault, Typed, TypeOK
    <3> QED BY <3>1, <3>2 DEF Typed, TypeOK
  <2>3. TypeOK'
    BY <1>11, <2>2 DEF MarkKeys, Typed, TypeOK, Stages
  <2>4. HandlersHold'
    BY <1>11, <2>1 DEF MarkKeys, Typed, TypeOK, HandlersHold, Handling
  <2> QED BY <2>3, <2>4 DEF Typed
<1>12. ASSUME NEW s \in Sources, MarkSeen(s) PROVE Typed'
  <2>1. {item[s]} \in SUBSET Items
    BY <1>12 DEF MarkSeen, Typed, HandlersHold, Handling
  <2>2. /\ seen' \in [Sources -> SUBSET Items]
        /\ stored' \in [Sources -> SUBSET Items]
        /\ faults' \in Nat
    BY <1>12, <2>1, SeenAddType DEF MarkSeen, Typed
  <2>3. TypeOK'
    BY <1>12, <2>2 DEF MarkSeen, Typed, TypeOK, Stages
  <2>4. HandlersHold'
    BY <1>12 DEF MarkSeen, Typed, TypeOK, HandlersHold, Handling
  <2> QED BY <2>3, <2>4 DEF Typed
<1>13. ASSUME NEW s \in Sources, Abort(s) PROVE Typed'
  <2>1. Rest(s) /\ faults' \in Nat
    BY <1>13 DEF Abort, Fault, Typed, TypeOK
  <2>2. TypeOK'
    BY <1>13, <2>1, RestTyped DEF Abort, Typed, TypeOK
  <2> QED BY <2>1, <2>2, RestTyped DEF Typed
<1>14. ASSUME NEW w \in Workers, Fetch(w) PROVE Typed'
  <2>1. queue \in Seq(Items \cup {Stop}) /\ queue # <<>>
    BY <1>14 DEF Fetch, Typed, TypeOK
  <2>2. Head(queue) \in Items \cup {Stop} /\ Tail(queue) \in Seq(Items \cup {Stop})
    BY <2>1
  <2>3. worker' \in [Workers -> Items \cup {Idle, Done}]
    BY <1>14, <2>2 DEF Fetch, Typed, TypeOK
  <2> QED BY <1>14, <2>2, <2>3 DEF Fetch, Typed, TypeOK, HandlersHold
<1>15. ASSUME NEW w \in Workers, Fetched(w) PROVE Typed'
  <2>1. worker' \in [Workers -> Items \cup {Idle, Done}]
    BY <1>15 DEF Fetched, Freed, Typed, TypeOK
  <2> QED BY <1>15, <2>1, PublishEnrichedType DEF Fetched, Typed, TypeOK, HandlersHold
<1>16. ASSUME NEW w \in Workers, FetchFails(w) PROVE Typed'
  <2>1. worker' \in [Workers -> Items \cup {Idle, Done}] /\ faults' \in Nat
    BY <1>16 DEF FetchFails, Freed, Fault, Typed, TypeOK
  <2> QED BY <1>16, <2>1 DEF FetchFails, Typed, TypeOK, HandlersHold
<1>17. CASE Terminate
  <2>1. Cardinality(Workers) \in Nat
    BY SizeAssumption, FS_CardinalityType
  <2>2. faults' \in Nat /\ AllRest
    BY <1>17 DEF Terminate, Fault, Typed, TypeOK
  <2>3. TypeOK'
    BY <1>17, <2>1, <2>2, AllRestTyped DEF Terminate, Typed, TypeOK
  <2> QED BY <2>2, <2>3, AllRestTyped DEF Typed
<1>18. CASE PutSentinel
  <2>1. queue' \in Seq(Items \cup {Stop}) /\ stops' \in Nat
    BY <1>18 DEF PutSentinel, Typed, TypeOK
  <2> QED BY <1>18, <2>1 DEF PutSentinel, Typed, TypeOK, HandlersHold
<1>19. CASE Stopped \/ Kill
  <2>1. Restart(stored) /\ faults' \in Nat /\ stored \in [Sources -> SUBSET Items]
    BY <1>19 DEF Stopped, Kill, Typed, TypeOK
  <2> QED BY <2>1, RestartTyped
<1>20. CASE Crash
  <2>1. Restart(stored) /\ faults' \in Nat /\ stored \in [Sources -> SUBSET Items]
    BY <1>20 DEF Crash, Fault, Typed, TypeOK
  <2> QED BY <2>1, RestartTyped
<1>21. CASE CrashForgetful
  <2>1. Restart([s \in Sources |-> {}]) /\ faults' \in Nat
    BY <1>21 DEF CrashForgetful, Fault, Typed, TypeOK
  <2>2. [s \in Sources |-> {}] \in [Sources -> SUBSET Items]
    OBVIOUS
  <2> QED BY <2>1, <2>2, RestartTyped
<1>22. CASE UNCHANGED vars
  BY <1>22 DEF vars, Typed, TypeOK, HandlersHold
<1> QED
  BY <1>1, <1>2, <1>3, <1>4, <1>5, <1>6, <1>7, <1>8, <1>9, <1>10, <1>11, <1>12,
     <1>13, <1>14, <1>15, <1>16, <1>17, <1>18, <1>19, <1>20, <1>21, <1>22
     DEF Next, AdapterNext, WorkerNext

\* So does the initial state.
LEMMA InitTyped == Init => Typed
<1> SUFFICES ASSUME Init PROVE Typed
  OBVIOUS
<1>1. cycle \in [Sources -> [page : Nat, fresh : BOOLEAN, last : BOOLEAN]]
  BY DEF Init, NoCycle
<1>2. upcoming \subseteq Items
  BY ItemAssumption DEF Init
<1>3. listing \in [Sources -> Seq(Items)] /\ queue \in Seq(Items \cup {Stop})
  BY DEF Init
<1> QED
  BY <1>1, <1>2, <1>3 DEF Init, Typed, TypeOK, HandlersHold, Stages, Handling

\* The variables of ingestion keep their types (TypeOK), and a handler at work
\* always has an item: handle_item is never left with a row that is gone.
THEOREM TypeCorrect == Spec => [](TypeOK /\ HandlersHold)
<1>1. Typed => TypeOK /\ HandlersHold
  BY DEF Typed
<1> QED
  BY <1>1, InitTyped, TypedInductive, PTL DEF Spec

(***************************************************************************)
(* FilingTraced is not inductive: a duplicate is marked without being      *)
(* published, because a key of it is in Redis, and a mark may come back    *)
(* from Redis.  Traces adds that whatever is behind a key, whatever a      *)
(* handler is about to record and whatever Redis has stored left a trace.  *)
(***************************************************************************)
KeysTraced ==
  \A k \in keys : \E j \in Items : k \in KeysOf[j] /\ (j \in Articles \/ Recorded(j))

HandledTraced ==
  \A s \in Sources :
     /\ pc[s] = "keys" /\ item[s] \in Items \ Articles => Recorded(item[s])
     /\ pc[s] = "mark" /\ item[s] \in Filings => Traced(item[s])

StoredTraced == \A i \in Filings : i \in stored[SourceOf[i]] => Traced(i)

Traces == KeysTraced /\ HandledTraced /\ StoredTraced /\ FilingTraced

\* The trace of an item is one of its own, and no filing is an article.
LEMMA OwnTrace ==
  ASSUME NEW i \in Items
  PROVE  i \in SharesKey[i] /\ (Recorded(i) => Traced(i)) /\ (i \in Filings => i \notin Articles)
<1>1. KeysOf[i] # {}
  BY DEF KeysOf
<1>2. i \in SharesKey[i]
  BY <1>1 DEF SharesKey
<1> QED BY <1>2 DEF Traced, Filings

\* A filing one of whose keys is in Redis left a trace.
LEMMA KeyTraces ==
  ASSUME KeysTraced, NEW i \in Filings, KeysOf[i] \cap keys # {}
  PROVE  Traced(i)
<1>1. PICK k \in KeysOf[i] \cap keys : TRUE
  OBVIOUS
<1>2. PICK j \in Items : k \in KeysOf[j] /\ (j \in Articles \/ Recorded(j))
  BY <1>1 DEF KeysTraced
<1>3. i \in Items /\ j \in SharesKey[i]
  BY <1>1, <1>2 DEF SharesKey, Filings
<1> QED BY <1>2, <1>3 DEF Traced, Filings

\* A copy, an entry in the dead-letter topic or a line in the log never goes
\* away.
Accumulates ==
  /\ \A i \in Items : enriched[i] > 0 => enriched'[i] > 0
  /\ dlq \subseteq dlq'
  /\ lost \subseteq lost'

LEMMA TraceStays ==
  ASSUME Accumulates, NEW i \in Items
  PROVE  (Recorded(i) => Recorded(i)') /\ (Traced(i) => Traced(i)')
<1>1. \A j \in Items : Recorded(j) => Recorded(j)'
  BY DEF Accumulates, Recorded
<1>2. SharesKey[i] \subseteq Items
  BY DEF SharesKey
<1> QED BY <1>1, <1>2 DEF Traced

\* So the traces behind the keys stay while no key is added.
LEMMA KeysTracedStay ==
  ASSUME KeysTraced, Accumulates, UNCHANGED keys
  PROVE  KeysTraced'
BY TraceStays DEF KeysTraced

\* Publishing leaves a trace, also when it fails.
LEMMA UndeliveredTraces ==
  ASSUME NEW i \in Items, Undelivered(i), UNCHANGED enriched
  PROVE  Accumulates /\ i \in dlq' \cup lost'
BY DEF Undelivered, Accumulates

LEMMA PublishTraces ==
  ASSUME TypeOK, NEW i \in Items, PublishEnriched(i)
  PROVE  Accumulates /\ Recorded(i)'
<1>1. CASE enriched' = [enriched EXCEPT ![i] = @ + 1] /\ UNCHANGED <<dlq, lost, faults>>
  <2>1. \A j \in Items : enriched[j] \in Nat /\ enriched'[j] = IF j = i THEN enriched[j] + 1 ELSE enriched[j]
    BY <1>1 DEF TypeOK
  <2> QED BY <1>1, <2>1 DEF Accumulates, Recorded
<1>2. CASE Undelivered(i) /\ UNCHANGED enriched
  BY <1>2, UndeliveredTraces DEF Recorded
<1> QED BY <1>1, <1>2 DEF PublishEnriched

\* Nothing that leaves the topics alone removes a trace.
LEMMA TopicsStay == ASSUME UNCHANGED <<enriched, dlq, lost>> PROVE Accumulates
BY DEF Accumulates

\* Steps that record nothing, and in which no handler gets to recording.
LEMMA QuietStep ==
  ASSUME Traces, Accumulates, UNCHANGED marks,
         \A s \in Sources : pc'[s] \in {"keys", "mark"} =>
            pc'[s] = pc[s] /\ item'[s] = item[s]
  PROVE  Traces'
<1>1. KeysTraced'
  BY KeysTracedStay DEF Traces, marks
<1>2. HandledTraced'
  BY TraceStays DEF Traces, HandledTraced, Filings
<1>3. StoredTraced'
  BY TraceStays DEF Traces, StoredTraced, Filings, marks
<1>4. FilingTraced'
  BY TraceStays DEF Traces, FilingTraced, Filings, marks
<1> QED BY <1>1, <1>2, <1>3, <1>4 DEF Traces

\* seen_add of rows that are no filings or have left a trace.
LEMMA SeenAddTraces ==
  ASSUME TypeOK, Traces, Accumulates, NEW s \in Sources, NEW ids, SeenAdd(s, ids),
         \A i \in Filings : i \in ids /\ SourceOf[i] = s => Traced(i)
  PROVE  StoredTraced' /\ FilingTraced'
<1>1. \A i \in Filings : i \in Items /\ SourceOf[i] \in Sources
  BY ItemAssumption DEF Filings
<1>2. \A i \in Filings : i \in seen'[SourceOf[i]] =>
        i \in seen[SourceOf[i]] \/ (i \in ids /\ SourceOf[i] = s)
  BY <1>1 DEF SeenAdd, TypeOK
<1>3. \A i \in Filings : i \in stored'[SourceOf[i]] =>
        i \in stored[SourceOf[i]] \/ (i \in ids /\ SourceOf[i] = s)
  BY <1>1 DEF SeenAdd, TypeOK
<1>4. FilingTraced'
  BY <1>1, <1>2, TraceStays DEF Traces, FilingTraced, Filings
<1>5. StoredTraced'
  BY <1>1, <1>3, TraceStays DEF Traces, StoredTraced, Filings
<1> QED BY <1>4, <1>5

\* A page: only rows nobody wants are marked.
LEMMA ReceiveTraces ==
  ASSUME Typed, Traces, NEW s \in Sources, NEW p \in Nat \ {0}, Receive(s, p)
  PROVE  Traces'
<1>1. Accumulates
  BY TopicsStay DEF Receive, topics
<1>2. SeenAdd(s, (Page(s, p) \ seen[s]) \cap Unwanted)
  BY DEF Receive
<1>3. StoredTraced' /\ FilingTraced'
  <2> DEFINE ids == (Page(s, p) \ seen[s]) \cap Unwanted
  <2>1. \A i \in Filings : i \in ids /\ SourceOf[i] = s => Traced(i)
    BY DEF Filings
  <2>2. SeenAdd(s, ids)
    BY <1>2
  <2> HIDE DEF ids
  <2> QED BY <1>1, <2>1, <2>2, SeenAddTraces DEF Typed
<1>4. KeysTraced'
  BY <1>1, KeysTracedStay DEF Receive, Traces
<1>5. HandledTraced'
  BY <1>1, TraceStays DEF Receive, Traces, HandledTraced, Filings, Typed, TypeOK
<1> QED BY <1>3, <1>4, <1>5 DEF Traces

\* A restart remembers what Redis stored, or nothing.
LEMMA RestartTraces ==
  ASSUME Traces, NEW loaded, Restart(loaded),
         \A s \in Sources : loaded[s] \subseteq stored[s]
  PROVE  Traces'
<1>1. Accumulates
  BY TopicsStay DEF Restart, topics
<1>2. KeysTraced'
  BY <1>1, KeysTracedStay DEF Restart, Traces
<1>3. HandledTraced'
  BY DEF Restart, AllRest, HandledTraced
<1>4. StoredTraced'
  BY <1>1, TraceStays DEF Restart, Traces, StoredTraced, Filings
<1>5. \A i \in Filings : i \in seen'[SourceOf[i]] => i \in stored[SourceOf[i]]
  BY ItemAssumption DEF Restart, Filings
<1>6. FilingTraced'
  BY <1>1, <1>5, TraceStays DEF Traces, StoredTraced, FilingTraced, Filings
<1> QED BY <1>2, <1>3, <1>4, <1>6 DEF Traces

\* Every step keeps the traces.
LEMMA TracesInductive == Typed /\ Traces /\ [Next]_vars => Traces'
<1> SUFFICES ASSUME Typed, Traces, [Next]_vars PROVE Traces'
  OBVIOUS
<1> USE DEF feeds, topics, loops, pool, life
<1>0. TypeOK
  BY DEF Typed
<1>1. ASSUME NEW i \in Items, File(i) PROVE Traces'
  BY <1>1, TopicsStay, QuietStep DEF File
<1>2. ASSUME NEW s \in Sources, Poll(s) PROVE Traces'
  BY <1>2, ReceiveTraces DEF Poll
<1>3. ASSUME NEW s \in Sources, NextPage(s) PROVE Traces'
  <2>1. cycle[s].page + 1 \in Nat \ {0}
    BY <1>0 DEF TypeOK
  <2> QED BY <1>3, <2>1, ReceiveTraces DEF NextPage
<1>4. ASSUME NEW s \in Sources, PageFails(s) \/ PageDone(s) \/ Abort(s) PROVE Traces'
  <2>1. UNCHANGED marks /\ UNCHANGED topics
    BY <1>4 DEF PageFails, PageDone, Abort
  <2>2. \A t \in Sources : pc'[t] \in {"keys", "mark"} =>
          pc'[t] = pc[t] /\ item'[t] = item[t]
    BY <1>0, <1>4 DEF PageFails, PageDone, Abort, Rest, TypeOK
  <2> QED BY <2>1, <2>2, TopicsStay, QuietStep
<1>5. ASSUME NEW s \in Sources, NEW i \in Items, Take(s, i) PROVE Traces'
  <2> DEFINE ids == IF s \in MarkFirst THEN {i} ELSE {}
  <2>1. Accumulates
    BY <1>5, TopicsStay DEF Take
  <2>2. SeenAdd(s, ids)
    BY <1>5 DEF Take
  <2>3. \A j \in Filings : j \in ids /\ SourceOf[j] = s => Traced(j)
    BY DEF Filings
  <2>4. StoredTraced' /\ FilingTraced'
    <3> HIDE DEF ids
    <3> QED BY <1>0, <2>1, <2>2, <2>3, SeenAddTraces
  <2>5. KeysTraced'
    BY <1>5, <2>1, KeysTracedStay DEF Take, Traces
  <2>6. HandledTraced'
    BY <1>0, <1>5, <2>1, TraceStays DEF Take, Traces, HandledTraced, Filings, TypeOK
  <2> QED BY <2>4, <2>5, <2>6 DEF Traces
<1>6. ASSUME NEW s \in Sources, Look(s) PROVE Traces'
  <2>1. Accumulates
    BY <1>6, TopicsStay DEF Look
  <2>2. KeysTraced' /\ StoredTraced' /\ FilingTraced'
    BY <1>6, <2>1, TraceStays, KeysTracedStay DEF Look, marks, Traces, StoredTraced,
         FilingTraced, Filings
  <2>3. HandledTraced'
    <3>1. item' = item /\ \A t \in Sources : pc'[t] # "keys" \/ pc[t] = "keys"
      BY <1>0, <1>6 DEF Look, TypeOK
    <3>2. ASSUME NEW t \in Sources, pc'[t] = "mark", item[t] \in Filings
          PROVE  Traced(item[t])
      <4>1. CASE pc[t] = "mark"
        BY <3>2, <4>1 DEF Traces, HandledTraced
      <4>2. CASE pc[t] # "mark"
        <5>1. t = s /\ KeysOf[item[s]] \cap keys # {}
          BY <1>0, <1>6, <3>2, <4>2 DEF Look, IsDuplicate, TypeOK
        <5> QED BY <3>2, <5>1, KeyTraces DEF Traces
      <4> QED BY <4>1, <4>2
    <3> QED BY <2>1, <3>1, <3>2, TraceStays DEF Traces, HandledTraced, Filings
  <2> QED BY <2>2, <2>3 DEF Traces
<1>7. ASSUME NEW s \in Sources, PublishRaw(s) PROVE Traces'
  <2>1. item[s] \in Items
    BY <1>7 DEF PublishRaw, Typed, HandlersHold, Handling
  <2>2. Accumulates
    BY <1>7, <2>1, TopicsStay, UndeliveredTraces DEF PublishRaw
  <2>3. \A t \in Sources : pc'[t] \in {"keys", "mark"} =>
          pc'[t] = pc[t] /\ item'[t] = item[t]
    BY <1>0, <1>7 DEF PublishRaw, TypeOK
  <2> QED BY <1>7, <2>2, <2>3, QuietStep DEF PublishRaw
<1>8. ASSUME NEW s \in Sources, Enqueue(s) PROVE Traces'
  <2>1. Accumulates
    BY <1>8, TopicsStay DEF Enqueue
  <2>2. KeysTraced' /\ StoredTraced' /\ FilingTraced'
    BY <1>8, <2>1, TraceStays, KeysTracedStay DEF Enqueue, marks, Traces, StoredTraced,
         FilingTraced, Filings
  <2>3. HandledTraced'
    BY <1>0, <1>8, <2>1, TraceStays DEF Enqueue, Traces, HandledTraced, Filings, TypeOK
  <2> QED BY <2>2, <2>3 DEF Traces
<1>9. ASSUME NEW s \in Sources, PublishNow(s) PROVE Traces'
  <2>1. item[s] \in Items /\ PublishEnriched(item[s])
    BY <1>9 DEF PublishNow, Typed, HandlersHold, Handling
  <2>2. Accumulates /\ Recorded(item[s])'
    <3>1. \A i \in Items : PublishEnriched(i) => Accumulates
      BY <1>0, PublishTraces
    <3>2. item' = item
      BY <1>9 DEF PublishNow
    <3>3. ASSUME NEW i \in Items, item[s] = i PROVE Recorded(i)'
      BY <1>0, <2>1, <3>3, PublishTraces
    <3> QED BY <2>1, <3>1, <3>2, <3>3
  <2>3. KeysTraced' /\ StoredTraced' /\ FilingTraced'
    BY <1>9, <2>2, TraceStays, KeysTracedStay DEF PublishNow, marks, Traces, StoredTraced,
         FilingTraced, Filings
  <2>4. HandledTraced'
    BY <1>0, <1>9, <2>2, TraceStays DEF PublishNow, Traces, HandledTraced, Filings, TypeOK
  <2> QED BY <2>3, <2>4 DEF Traces
<1>10. ASSUME NEW s \in Sources, MarkKeys(s) PROVE Traces'
  <2>1. item[s] \in Items
    BY <1>10 DEF MarkKeys, Typed, HandlersHold, Handling
  <2>2. Accumulates
    BY <1>10, TopicsStay DEF MarkKeys
  <2>3. KeysTraced'
    <3> SUFFICES ASSUME NEW k \in keys'
                 PROVE  \E j \in Items : k \in KeysOf[j] /\ (j \in Articles \/ Recorded(j)')
      BY DEF KeysTraced
    <3>1. CASE k \in keys
      BY <2>2, <3>1, TraceStays DEF Traces, KeysTraced
    <3>2. CASE k \in KeysOf[item[s]]
      <4>1. item[s] \in Articles \/ Recorded(item[s])
        BY <1>10, <2>1 DEF MarkKeys, Traces, HandledTraced
      <4>2. \A i \in Items : Recorded(i) => Recorded(i)'
        BY <2>2, TraceStays
      <4>3. item' = item
        BY <1>10 DEF MarkKeys
      <4> QED BY <2>1, <3>2, <4>1, <4>2
    <3> QED BY <1>10, <3>1, <3>2 DEF MarkKeys
  <2>4. StoredTraced' /\ FilingTraced'
    BY <1>10, <2>2, TraceStays DEF MarkKeys, Traces, StoredTraced, FilingTraced, Filings
  <2>5. HandledTraced'
    <3>1. item[s] \in Items \ Articles => Traced(item[s])
      BY <1>10, <2>1, OwnTrace DEF MarkKeys, Traces, HandledTraced
    <3>2. item[s] \in Filings => Traced(item[s])
      BY <2>1, <3>1, OwnTrace
    <3>3. item' = item /\ \A t \in Sources : pc'[t] = IF t = s THEN "mark" ELSE pc[t]
      BY <1>0, <1>10 DEF MarkKeys, TypeOK
    <3> QED BY <2>2, <3>2, <3>3, TraceStays DEF Traces, HandledTraced, Filings
  <2> QED BY <2>3, <2>4, <2>5 DEF Traces
<1>11. ASSUME NEW s \in Sources, MarkSeen(s) PROVE Traces'
  <2>1. Accumulates
    BY <1>11, TopicsStay DEF MarkSeen
  <2>2. \A i \in Filings : i \in {item[s]} /\ SourceOf[i] = s => Traced(i)
    BY <1>11 DEF MarkSeen, Traces, HandledTraced, Filings
  <2>3. StoredTraced' /\ FilingTraced'
    BY <1>0, <1>11, <2>1, <2>2, SeenAddTraces DEF MarkSeen
  <2>4. KeysTraced'
    BY <1>11, <2>1, KeysTracedStay DEF MarkSeen, Traces
  <2>5. HandledTraced'
    BY <1>0, <1>11, <2>1, TraceStays DEF MarkSeen, Traces, HandledTraced, Filings, TypeOK
  <2> QED BY <2>3, <2>4, <2>5 DEF Traces
<1>12. ASSUME NEW w \in Workers, Fetch(w) \/ FetchFails(w) PROVE Traces'
  BY <1>12, TopicsStay, QuietStep DEF Fetch, FetchFails
<1>13. ASSUME NEW w \in Workers, Fetched(w) PROVE Traces'
  <2>1. Accumulates
    BY <1>0, <1>13, PublishTraces DEF Fetched
  <2> QED BY <1>13, <2>1, QuietStep DEF Fetched
<1>14. CASE Terminate
  <2>1. \A t \in Sources : pc'[t] = "idle"
    BY <1>14 DEF Terminate, AllRest
  <2> QED BY <1>14, <2>1, TopicsStay, QuietStep DEF Terminate
<1>15. CASE PutSentinel
  BY <1>15, TopicsStay, QuietStep DEF PutSentinel
<1>16. CASE Stopped \/ Kill \/ Crash
  BY <1>16, RestartTraces DEF Stopped, Kill, Crash
<1>17. CASE CrashForgetful
  <2>1. Restart([s \in Sources |-> {}])
    BY <1>17 DEF CrashForgetful
  <2>2. \A t \in Sources : [s \in Sources |-> {}][t] \subseteq stored[t]
    OBVIOUS
  <2> QED BY <2>1, <2>2, RestartTraces
<1>18. CASE UNCHANGED vars
  BY <1>18, TopicsStay, QuietStep DEF vars
<1> QED
  BY <1>1, <1>2, <1>3, <1>4, <1>5, <1>6, <1>7, <1>8, <1>9, <1>10, <1>11, <1>12,
     <1>13, <1>14, <1>15, <1>16, <1>17, <1>18 DEF Next, AdapterNext, WorkerNext

\* At the start nothing is marked.
LEMMA InitTraces == Init => Traces
<1> SUFFICES ASSUME Init PROVE Traces
  OBVIOUS
<1>1. \A i \in Filings : SourceOf[i] \in Sources
  BY ItemAssumption DEF Filings
<1> QED
  BY <1>1 DEF Init, Traces, KeysTraced, HandledTraced, StoredTraced, FilingTraced

\* base.run marks an item only after the callback returned: whatever crashes,
\* is cancelled, times out or fails, a filing that is marked seen is on the
\* enriched topic, on the dead-letter topic or in the log (FilingTraced).
THEOREM FilingTracedHolds == Spec => []FilingTraced
<1>1. Traces => FilingTraced
  BY DEF Traces
<1> QED
  BY <1>1, InitTyped, TypedInductive, InitTraces, TracesInductive, PTL DEF Spec

(***************************************************************************)
(* The copies of an item in hand, counted in three places.  A step that    *)
(* takes one away from a place may add one to the next.                    *)
(***************************************************************************)
HandlersOf(i) == {s \in Sources : pc[s] \in {"raw", "route"} /\ item[s] = i}
PlacesOf(q, i) == {n \in DOMAIN q : q[n] = i}
FetchersOf(i) == {w \in Workers : worker[w] = i}

\* The copies that are out or in hand do not become more.
NoMoreCopies(i) == enriched'[i] + InHand(i)' <= enriched[i] + InHand(i)

LEMMA PlacesFinite ==
  ASSUME NEW S, NEW q \in Seq(S), NEW i
  PROVE  IsFiniteSet(PlacesOf(q, i)) /\ Cardinality(PlacesOf(q, i)) \in Nat
<1>1. DOMAIN q = 1..Len(q) /\ Len(q) \in Nat
  OBVIOUS
<1>2. IsFiniteSet(1..Len(q))
  BY <1>1, FS_Interval
<1>3. PlacesOf(q, i) \in SUBSET (1..Len(q))
  BY <1>1 DEF PlacesOf
<1> QED BY <1>2, <1>3, FS_Subset, FS_CardinalityType

LEMMA CopiesAreCounted ==
  ASSUME TypeOK, NEW i \in Items
  PROVE  /\ IsFiniteSet(HandlersOf(i)) /\ Cardinality(HandlersOf(i)) \in Nat
         /\ IsFiniteSet(FetchersOf(i)) /\ Cardinality(FetchersOf(i)) \in Nat
         /\ Cardinality(PlacesOf(queue, i)) \in Nat
         /\ enriched[i] \in Nat
         /\ InHand(i) = Cardinality(HandlersOf(i)) + Cardinality(PlacesOf(queue, i))
                          + Cardinality(FetchersOf(i))
<1>1. HandlersOf(i) \in SUBSET Sources /\ FetchersOf(i) \in SUBSET Workers
  BY DEF HandlersOf, FetchersOf
<1>2. /\ IsFiniteSet(HandlersOf(i)) /\ Cardinality(HandlersOf(i)) \in Nat
      /\ IsFiniteSet(FetchersOf(i)) /\ Cardinality(FetchersOf(i)) \in Nat
  BY <1>1, SizeAssumption, FS_Subset, FS_CardinalityType
<1>3. queue \in Seq(Items \cup {Stop})
  BY DEF TypeOK
<1>4. Cardinality(PlacesOf(queue, i)) \in Nat
  BY <1>3, PlacesFinite
<1>5. InHand(i) = Cardinality(HandlersOf(i)) + Cardinality(PlacesOf(queue, i))
                    + Cardinality(FetchersOf(i))
  BY DEF InHand, HandlersOf, PlacesOf, FetchersOf
<1> QED BY <1>2, <1>4, <1>5 DEF TypeOK

\* The same in the next state.
LEMMA CopiesAreCountedNext ==
  ASSUME TypeOK', NEW i \in Items
  PROVE  /\ IsFiniteSet(HandlersOf(i)') /\ Cardinality(HandlersOf(i)') \in Nat
         /\ IsFiniteSet(FetchersOf(i)') /\ Cardinality(FetchersOf(i)') \in Nat
         /\ Cardinality(PlacesOf(queue', i)) \in Nat
         /\ enriched'[i] \in Nat
         /\ InHand(i)' = Cardinality(HandlersOf(i)') + Cardinality(PlacesOf(queue', i))
                           + Cardinality(FetchersOf(i)')
<1>1. HandlersOf(i)' \in SUBSET Sources /\ FetchersOf(i)' \in SUBSET Workers
  BY DEF HandlersOf, FetchersOf
<1>2. /\ IsFiniteSet(HandlersOf(i)') /\ Cardinality(HandlersOf(i)') \in Nat
      /\ IsFiniteSet(FetchersOf(i)') /\ Cardinality(FetchersOf(i)') \in Nat
  BY <1>1, SizeAssumption, FS_Subset, FS_CardinalityType
<1>3. queue' \in Seq(Items \cup {Stop})
  BY DEF TypeOK
<1>4. Cardinality(PlacesOf(queue', i)) \in Nat
  BY <1>3, PlacesFinite
<1>5. InHand(i)' = Cardinality(HandlersOf(i)') + Cardinality(PlacesOf(queue', i))
                     + Cardinality(FetchersOf(i)')
  BY DEF InHand, HandlersOf, PlacesOf, FetchersOf
<1> QED BY <1>2, <1>4, <1>5 DEF TypeOK

\* The last place of a queue.
LEMMA PlacesAppended ==
  ASSUME NEW S, NEW q \in Seq(S), NEW e \in S, NEW i
  PROVE  Cardinality(PlacesOf(Append(q, e), i))
           = Cardinality(PlacesOf(q, i)) + (IF e = i THEN 1 ELSE 0)
<1> DEFINE n == Len(q)
<1>1. /\ n \in Nat /\ DOMAIN q = 1..n /\ DOMAIN Append(q, e) = 1..(n + 1)
      /\ Append(q, e)[n + 1] = e /\ \A k \in 1..n : Append(q, e)[k] = q[k]
  OBVIOUS
<1>2. 1..(n + 1) = (1..n) \cup {n + 1} /\ n + 1 \notin 1..n
  BY <1>1
<1>3. PlacesOf(Append(q, e), i) = IF e = i THEN PlacesOf(q, i) \cup {n + 1} ELSE PlacesOf(q, i)
  BY <1>1, <1>2 DEF PlacesOf
<1>4. n + 1 \notin PlacesOf(q, i)
  BY <1>1, <1>2 DEF PlacesOf
<1>5. IsFiniteSet(PlacesOf(q, i)) /\ Cardinality(PlacesOf(q, i)) \in Nat
  BY PlacesFinite
<1>6. Cardinality(PlacesOf(q, i) \cup {n + 1}) = Cardinality(PlacesOf(q, i)) + 1
  BY <1>4, <1>5, FS_AddElement
<1> QED BY <1>3, <1>5, <1>6

\* The first one: those behind it move up.
LEMMA PlacesMoveUp ==
  ASSUME NEW S, NEW q \in Seq(S), q # <<>>, NEW i
  PROVE  Cardinality(PlacesOf(Tail(q), i)) + (IF Head(q) = i THEN 1 ELSE 0)
           = Cardinality(PlacesOf(q, i))
<1> DEFINE n == Len(q)
           behind == PlacesOf(q, i) \ {1}
           up == [k \in behind |-> k - 1]
<1>1. /\ n \in Nat /\ n >= 1 /\ DOMAIN q = 1..n /\ DOMAIN Tail(q) = 1..(n - 1)
      /\ Head(q) = q[1] /\ \A k \in 1..(n - 1) : Tail(q)[k] = q[k + 1]
  OBVIOUS
<1>2. ASSUME NEW k \in behind PROVE k \in Int /\ up[k] \in PlacesOf(Tail(q), i)
  <2>1. k \in 2..n /\ q[k] = i
    BY <1>1 DEF PlacesOf
  <2>2. k - 1 \in 1..(n - 1) /\ (k - 1) + 1 = k
    BY <1>1, <2>1
  <2>3. Tail(q)[k - 1] = i
    BY <1>1, <2>1, <2>2
  <2> QED BY <1>1, <2>1, <2>2, <2>3 DEF PlacesOf
<1>3. ASSUME NEW k \in PlacesOf(Tail(q), i) PROVE k + 1 \in behind /\ up[k + 1] = k
  <2>1. k \in 1..(n - 1) /\ Tail(q)[k] = i
    BY <1>1 DEF PlacesOf
  <2>2. k + 1 \in 2..n /\ q[k + 1] = i /\ (k + 1) - 1 = k
    BY <1>1, <2>1
  <2> QED BY <1>1, <2>2 DEF PlacesOf
<1>4. up \in Bijection(behind, PlacesOf(Tail(q), i))
  <2>1. up \in [behind -> PlacesOf(Tail(q), i)]
    BY <1>2
  <2>2. \A a, b \in behind : up[a] = up[b] => a = b
    BY <1>2
  <2>3. \A t \in PlacesOf(Tail(q), i) : \E k \in behind : up[k] = t
    BY <1>3
  <2> HIDE DEF up, behind
  <2> QED BY <2>1, <2>2, <2>3, Fun_IsBij
<1>5. ExistsBijection(behind, PlacesOf(Tail(q), i))
  BY <1>4 DEF ExistsBijection
<1>6. IsFiniteSet(PlacesOf(q, i)) /\ Cardinality(PlacesOf(q, i)) \in Nat
  BY PlacesFinite
<1>7. /\ IsFiniteSet(behind)
      /\ Cardinality(behind) = IF 1 \in PlacesOf(q, i) THEN Cardinality(PlacesOf(q, i)) - 1
                                                       ELSE Cardinality(PlacesOf(q, i))
  BY <1>6, FS_RemoveElement
<1>8. Cardinality(PlacesOf(Tail(q), i)) = Cardinality(behind)
  BY <1>5, <1>7, FS_Bijection
<1>9. 1 \in PlacesOf(q, i) <=> Head(q) = i
  BY <1>1 DEF PlacesOf
<1> HIDE DEF behind
<1> QED BY <1>6, <1>7, <1>8, <1>9

\* What is left of a finite set, all of it or without one element.
LEMMA FewerOrOneLess ==
  ASSUME NEW S, IsFiniteSet(S), NEW T \in SUBSET S
  PROVE  /\ Cardinality(T) \in Nat /\ Cardinality(S) \in Nat /\ Cardinality(T) <= Cardinality(S)
         /\ \A x \in S : x \notin T => Cardinality(T) + 1 <= Cardinality(S)
<1>1. Cardinality(T) <= Cardinality(S) /\ IsFiniteSet(T)
  BY FS_Subset
<1>2. Cardinality(T) \in Nat /\ Cardinality(S) \in Nat
  BY <1>1, FS_CardinalityType
<1>3. ASSUME NEW x \in S, x \notin T PROVE Cardinality(T) + 1 <= Cardinality(S)
  <2>1. IsFiniteSet(S \ {x}) /\ Cardinality(S \ {x}) = Cardinality(S) - 1
    BY FS_RemoveElement
  <2>2. T \in SUBSET (S \ {x})
    BY <1>3
  <2>3. Cardinality(T) <= Cardinality(S \ {x})
    BY <2>1, <2>2, FS_Subset
  <2> QED BY <1>2, <2>1, <2>3
<1> QED BY <1>1, <1>2, <1>3

\* A step that only takes items out of hands.
LEMMA HandsEmpty ==
  ASSUME TypeOK, TypeOK', NEW i \in Items,
         HandlersOf(i)' \subseteq HandlersOf(i), FetchersOf(i)' \subseteq FetchersOf(i),
         Cardinality(PlacesOf(queue', i)) <= Cardinality(PlacesOf(queue, i)),
         enriched'[i] = enriched[i]
  PROVE  NoMoreCopies(i)
<1>1. /\ IsFiniteSet(HandlersOf(i)) /\ IsFiniteSet(FetchersOf(i))
      /\ InHand(i) = Cardinality(HandlersOf(i)) + Cardinality(PlacesOf(queue, i))
                       + Cardinality(FetchersOf(i))
      /\ Cardinality(PlacesOf(queue, i)) \in Nat /\ enriched[i] \in Nat
  BY CopiesAreCounted
<1>2. /\ InHand(i)' = Cardinality(HandlersOf(i)') + Cardinality(PlacesOf(queue', i))
                        + Cardinality(FetchersOf(i)')
      /\ Cardinality(PlacesOf(queue', i)) \in Nat
  BY CopiesAreCountedNext
<1>3. /\ Cardinality(HandlersOf(i)') \in Nat /\ Cardinality(HandlersOf(i)) \in Nat
      /\ Cardinality(HandlersOf(i)') <= Cardinality(HandlersOf(i))
      /\ Cardinality(FetchersOf(i)') \in Nat /\ Cardinality(FetchersOf(i)) \in Nat
      /\ Cardinality(FetchersOf(i)') <= Cardinality(FetchersOf(i))
  BY <1>1, FewerOrOneLess
<1> QED BY <1>1, <1>2, <1>3 DEF NoMoreCopies

\* A handler gives up its copy: into the queue, or to the topic.
LEMMA Exchanged ==
  ASSUME TypeOK, TypeOK', NEW i \in Items, NEW s,
         HandlersOf(i)' \subseteq HandlersOf(i), FetchersOf(i)' = FetchersOf(i),
         item[s] = i => s \in HandlersOf(i) /\ s \notin HandlersOf(i)',
         \/ /\ enriched' = enriched
            /\ Cardinality(PlacesOf(queue', i))
                 = Cardinality(PlacesOf(queue, i)) + (IF item[s] = i THEN 1 ELSE 0)
         \/ /\ queue' = queue
            /\ enriched'[i] = enriched[i] + (IF item[s] = i THEN 1 ELSE 0)
  PROVE  NoMoreCopies(i)
<1>1. /\ Cardinality(HandlersOf(i)') \in Nat /\ Cardinality(HandlersOf(i)) \in Nat
      /\ Cardinality(HandlersOf(i)') + (IF item[s] = i THEN 1 ELSE 0)
           <= Cardinality(HandlersOf(i))
  BY CopiesAreCounted, FewerOrOneLess
<1>2. CASE enriched' = enriched
  BY <1>1, <1>2, CopiesAreCounted, CopiesAreCountedNext DEF NoMoreCopies
<1>3. CASE queue' = queue
  BY <1>1, <1>3, CopiesAreCounted, CopiesAreCountedNext DEF NoMoreCopies
<1> QED BY <1>2, <1>3

\* Publishing without a failure: one copy more.
LEMMA PublishedOnce ==
  ASSUME TypeOK, NEW j \in Items, PublishEnriched(j), faults' = faults, NEW i \in Items
  PROVE  enriched'[i] = enriched[i] + (IF i = j THEN 1 ELSE 0)
<1>1. ~ Undelivered(j)
  BY DEF Undelivered, Fault, TypeOK
<1>2. enriched' = [enriched EXCEPT ![j] = @ + 1] /\ enriched \in [Items -> Nat]
  BY <1>1 DEF PublishEnriched, TypeOK
<1> QED BY <1>2

\* One step: no other key is looked up, no copy is made but by a handler or a
\* worker that gives up its own.
LEMMA CopiesStep ==
  ASSUME Typed, Typed', [Next]_vars, NEW i \in Items,
         KeysOf[i] \cap keys # {}, faults' = faults
  PROVE  NoMoreCopies(i)
<1> USE DEF feeds, marks, topics, loops, pool, life
<1>0. /\ TypeOK /\ TypeOK' /\ HandlersHold
      /\ faults \in Nat /\ enriched \in [Items -> Nat]
      /\ queue \in Seq(Items \cup {Stop})
      /\ pc \in [Sources -> Stages] /\ item \in [Sources -> Items \cup {None}]
      /\ worker \in [Workers -> Items \cup {Idle, Done}]
  BY DEF Typed, TypeOK
<1>m. i # Stop /\ i # Idle /\ i # Done /\ i # None
  BY MarkerAssumption
<1>f. ASSUME NEW kind PROVE ~ Fault(kind)
  BY <1>0 DEF Fault
<1>q. ASSUME UNCHANGED <<enriched, queue, worker>>, HandlersOf(i)' \subseteq HandlersOf(i)
      PROVE  NoMoreCopies(i)
  <2>1. FetchersOf(i)' = FetchersOf(i)
    BY <1>q DEF FetchersOf
  <2>2. Cardinality(PlacesOf(queue', i)) <= Cardinality(PlacesOf(queue, i))
    BY <1>0, <1>q, CopiesAreCounted
  <2> QED BY <1>0, <1>q, <2>1, <2>2, HandsEmpty
<1>r. ASSUME NEW loaded, Restart(loaded) PROVE NoMoreCopies(i)
  <2>1. HandlersOf(i)' = {} /\ FetchersOf(i)' = {}
    BY <1>r, <1>m DEF Restart, AllRest, HandlersOf, FetchersOf
  <2>2. PlacesOf(queue', i) = {} /\ enriched' = enriched
    BY <1>r DEF Restart, PlacesOf
  <2>3. Cardinality(PlacesOf(queue', i)) <= Cardinality(PlacesOf(queue, i))
    BY <1>0, <2>2, FS_EmptySet, CopiesAreCounted
  <2> QED BY <1>0, <2>1, <2>2, <2>3, HandsEmpty
<1>1. ASSUME NEW j \in Items, File(j) PROVE NoMoreCopies(i)
  BY <1>1, <1>q DEF File, HandlersOf
<1>2. ASSUME NEW s \in Sources, NEW p, Receive(s, p) PROVE NoMoreCopies(i)
  <2>1. HandlersOf(i)' \subseteq HandlersOf(i)
    BY <1>0, <1>2 DEF Receive, HandlersOf
  <2> QED BY <1>2, <2>1, <1>q DEF Receive
<1>3. ASSUME NEW s \in Sources, PageFails(s) \/ Abort(s) PROVE NoMoreCopies(i)
  BY <1>3, <1>f DEF PageFails, Abort
<1>4. ASSUME NEW s \in Sources, PageDone(s) PROVE NoMoreCopies(i)
  <2>1. HandlersOf(i)' \subseteq HandlersOf(i)
    BY <1>0, <1>4 DEF PageDone, Rest, HandlersOf
  <2> QED BY <1>4, <2>1, <1>q DEF PageDone
<1>5. ASSUME NEW s \in Sources, NEW j \in Items, Take(s, j) PROVE NoMoreCopies(i)
  <2>1. HandlersOf(i)' \subseteq HandlersOf(i)
    BY <1>0, <1>5 DEF Take, HandlersOf
  <2> QED BY <1>5, <2>1, <1>q DEF Take
<1>6. ASSUME NEW s \in Sources, Look(s) PROVE NoMoreCopies(i)
  <2>1. pc' = [pc EXCEPT ![s] = IF IsDuplicate(s) THEN "mark" ELSE "raw"]
    BY <1>6, <1>f DEF Look
  <2>2. item' = item
    BY <1>6 DEF Look
  <2>3. pc'[s] = "raw" => item[s] # i
    BY <1>0, <2>1 DEF IsDuplicate
  <2>4. HandlersOf(i)' \subseteq HandlersOf(i)
    <3>1. ASSUME NEW t \in Sources, pc'[t] \in {"raw", "route"}, item'[t] = i
          PROVE  pc[t] \in {"raw", "route"} /\ item[t] = i
      <4>1. CASE t = s
        BY <1>0, <2>1, <2>2, <2>3, <3>1, <4>1
      <4>2. CASE t # s
        BY <1>0, <2>1, <2>2, <3>1, <4>2
      <4> QED BY <4>1, <4>2
    <3> QED BY <3>1 DEF HandlersOf
  <2> QED BY <1>6, <2>4, <1>q DEF Look
<1>7. ASSUME NEW s \in Sources, PublishRaw(s) PROVE NoMoreCopies(i)
  <2>1. HandlersOf(i)' \subseteq HandlersOf(i)
    BY <1>0, <1>7 DEF PublishRaw, HandlersOf
  <2> QED BY <1>7, <2>1, <1>q DEF PublishRaw
<1>h. ASSUME NEW s \in Sources, pc[s] = "route", item[s] = i,
             pc' = [pc EXCEPT ![s] = "keys"]
      PROVE  s \in HandlersOf(i) /\ s \notin HandlersOf(i)'
  BY <1>0, <1>h DEF HandlersOf
<1>8. ASSUME NEW s \in Sources, Enqueue(s) PROVE NoMoreCopies(i)
  <2>1. item[s] \in Items \cup {Stop} /\ queue' = Append(queue, item[s])
    BY <1>0, <1>8 DEF Enqueue, HandlersHold, Handling
  <2>2. Cardinality(PlacesOf(queue', i))
          = Cardinality(PlacesOf(queue, i)) + (IF item[s] = i THEN 1 ELSE 0)
    BY <1>0, <2>1, PlacesAppended
  <2>3. HandlersOf(i)' \subseteq HandlersOf(i)
    BY <1>0, <1>8 DEF Enqueue, HandlersOf
  <2>4. item[s] = i => s \in HandlersOf(i) /\ s \notin HandlersOf(i)'
    BY <1>8, <1>h DEF Enqueue
  <2>5. FetchersOf(i)' = FetchersOf(i) /\ enriched' = enriched
    BY <1>8 DEF Enqueue, FetchersOf
  <2> QED BY <1>0, <2>2, <2>3, <2>4, <2>5, Exchanged
<1>9. ASSUME NEW s \in Sources, PublishNow(s) PROVE NoMoreCopies(i)
  <2>1. item[s] \in Items
    BY <1>0, <1>9 DEF PublishNow, HandlersHold, Handling
  <2>2. enriched'[i] = enriched[i] + (IF item[s] = i THEN 1 ELSE 0)
    BY <1>0, <1>9, <2>1, PublishedOnce DEF PublishNow
  <2>3. HandlersOf(i)' \subseteq HandlersOf(i)
    BY <1>0, <1>9 DEF PublishNow, HandlersOf
  <2>4. item[s] = i => s \in HandlersOf(i) /\ s \notin HandlersOf(i)'
    BY <1>9, <1>h DEF PublishNow
  <2>5. FetchersOf(i)' = FetchersOf(i) /\ queue' = queue
    BY <1>9 DEF PublishNow, FetchersOf
  <2> QED BY <1>0, <2>2, <2>3, <2>4, <2>5, Exchanged
<1>10. ASSUME NEW s \in Sources, MarkKeys(s) PROVE NoMoreCopies(i)
  <2>1. HandlersOf(i)' \subseteq HandlersOf(i)
    BY <1>0, <1>10 DEF MarkKeys, HandlersOf
  <2> QED BY <1>10, <2>1, <1>q DEF MarkKeys
<1>11. ASSUME NEW s \in Sources, MarkSeen(s) PROVE NoMoreCopies(i)
  <2>1. HandlersOf(i)' \subseteq HandlersOf(i)
    BY <1>0, <1>11 DEF MarkSeen, HandlersOf
  <2> QED BY <1>11, <2>1, <1>q DEF MarkSeen
<1>12. ASSUME NEW w \in Workers, Fetch(w) PROVE NoMoreCopies(i)
  <2>1. /\ worker[w] = Idle /\ queue # <<>> /\ queue' = Tail(queue)
        /\ worker' = [worker EXCEPT ![w] = IF Head(queue) = Stop THEN Done ELSE Head(queue)]
        /\ enriched' = enriched /\ pc' = pc /\ item' = item
    BY <1>12 DEF Fetch
  <2>2. Cardinality(PlacesOf(queue', i)) + (IF Head(queue) = i THEN 1 ELSE 0)
          = Cardinality(PlacesOf(queue, i))
    BY <1>0, <2>1, PlacesMoveUp
  <2>3. FetchersOf(i)' = IF Head(queue) = i THEN FetchersOf(i) \cup {w} ELSE FetchersOf(i)
    <3>1. /\ worker'[w] = IF Head(queue) = Stop THEN Done ELSE Head(queue)
          /\ \A v \in Workers : v # w => worker'[v] = worker[v]
      BY <1>0, <2>1
    <3>2. worker'[w] = i <=> Head(queue) = i
      BY <3>1, <1>m
    <3>3. worker[w] # i
      BY <2>1, <1>m
    <3> QED BY <3>1, <3>2, <3>3 DEF FetchersOf
  <2>4. IsFiniteSet(FetchersOf(i)) /\ Cardinality(FetchersOf(i)) \in Nat
    BY <1>0, CopiesAreCounted
  <2>5. Cardinality(FetchersOf(i)') <= Cardinality(FetchersOf(i)) + (IF Head(queue) = i THEN 1 ELSE 0)
    <3>1. CASE Head(queue) = i
      <4>1. FetchersOf(i)' = FetchersOf(i) \cup {w}
        BY <2>3, <3>1
      <4>2. Cardinality(FetchersOf(i) \cup {w})
              = IF w \in FetchersOf(i) THEN Cardinality(FetchersOf(i))
                                       ELSE Cardinality(FetchersOf(i)) + 1
        BY <2>4, FS_AddElement
      <4> QED BY <2>4, <3>1, <4>1, <4>2
    <3>2. CASE Head(queue) # i
      BY <2>3, <2>4, <3>2
    <3> QED BY <3>1, <3>2
  <2>6. HandlersOf(i)' = HandlersOf(i)
    BY <2>1 DEF HandlersOf
  <2> QED BY <1>0, <2>1, <2>2, <2>5, <2>6, CopiesAreCounted, CopiesAreCountedNext DEF NoMoreCopies
<1>13. ASSUME NEW w \in Workers, Fetched(w) PROVE NoMoreCopies(i)
  <2>1. /\ worker[w] \in Items /\ PublishEnriched(worker[w])
        /\ worker' = [worker EXCEPT ![w] = IF svc = "up" THEN Idle ELSE Done]
        /\ queue' = queue /\ pc' = pc /\ item' = item
    BY <1>13 DEF Fetched, Freed
  <2>2. enriched'[i] = enriched[i] + (IF worker[w] = i THEN 1 ELSE 0)
    BY <1>0, <2>1, PublishedOnce
  <2>3. worker'[w] # i /\ \A v \in Workers : v # w => worker'[v] = worker[v]
    BY <1>0, <1>m, <2>1
  <2>4. /\ FetchersOf(i)' \subseteq FetchersOf(i)
        /\ worker[w] = i => w \in FetchersOf(i) /\ w \notin FetchersOf(i)'
    BY <2>3 DEF FetchersOf
  <2>5. HandlersOf(i)' = HandlersOf(i)
    BY <2>1 DEF HandlersOf
  <2>6. /\ Cardinality(FetchersOf(i)') \in Nat /\ Cardinality(FetchersOf(i)) \in Nat
        /\ Cardinality(FetchersOf(i)') + (IF worker[w] = i THEN 1 ELSE 0)
             <= Cardinality(FetchersOf(i))
    BY <1>0, <2>4, CopiesAreCounted, FewerOrOneLess
  <2>7. /\ InHand(i) = Cardinality(HandlersOf(i)) + Cardinality(PlacesOf(queue, i))
                         + Cardinality(FetchersOf(i))
        /\ Cardinality(HandlersOf(i)) \in Nat /\ Cardinality(PlacesOf(queue, i)) \in Nat
        /\ enriched[i] \in Nat
    BY <1>0, CopiesAreCounted
  <2>8. InHand(i)' = Cardinality(HandlersOf(i)) + Cardinality(PlacesOf(queue, i))
                       + Cardinality(FetchersOf(i)')
    BY <1>0, <2>1, <2>5, CopiesAreCountedNext
  <2> QED BY <2>2, <2>6, <2>7, <2>8 DEF NoMoreCopies
<1>14. ASSUME NEW w \in Workers, FetchFails(w) PROVE NoMoreCopies(i)
  BY <1>14, <1>f DEF FetchFails
<1>15. ASSUME Terminate \/ Crash \/ CrashForgetful PROVE NoMoreCopies(i)
  BY <1>15, <1>f DEF Terminate, Crash, CrashForgetful
<1>16. ASSUME PutSentinel PROVE NoMoreCopies(i)
  <2>1. Stop \in Items \cup {Stop} /\ queue' = Append(queue, Stop)
    BY <1>16 DEF PutSentinel
  <2>2. Cardinality(PlacesOf(queue', i)) = Cardinality(PlacesOf(queue, i)) + 0
    BY <1>0, <1>m, <2>1, PlacesAppended
  <2>3. Cardinality(PlacesOf(queue', i)) <= Cardinality(PlacesOf(queue, i))
    BY <1>0, <2>2, CopiesAreCounted
  <2>4. HandlersOf(i)' = HandlersOf(i) /\ FetchersOf(i)' = FetchersOf(i) /\ enriched' = enriched
    BY <1>16 DEF PutSentinel, HandlersOf, FetchersOf
  <2> QED BY <1>0, <2>3, <2>4, HandsEmpty
<1>17. ASSUME Stopped \/ Kill PROVE NoMoreCopies(i)
  BY <1>17, <1>r DEF Stopped, Kill
<1>18. CASE UNCHANGED vars
  BY <1>18, <1>q DEF vars, HandlersOf
<1>19. ASSUME NEW s \in Sources, Poll(s) \/ NextPage(s) PROVE NoMoreCopies(i)
  BY <1>19, <1>2 DEF Poll, NextPage
<1>20. ASSUME NEW s \in Sources, AdapterNext(s) PROVE NoMoreCopies(i)
  BY <1>20, <1>4, <1>5, <1>6, <1>7, <1>8, <1>9, <1>10, <1>11, <1>19 DEF AdapterNext
<1>21. ASSUME NEW w \in Workers, WorkerNext(w) PROVE NoMoreCopies(i)
  BY <1>21, <1>12, <1>13, <1>14 DEF WorkerNext
<1> QED
  BY <1>1, <1>3, <1>15, <1>16, <1>17, <1>18, <1>20, <1>21 DEF Next

\* KeyEndsCopies is an action property of the specification: once a key of an
\* item is in Redis, the copies of it that are out or in hand never become
\* more, but for a step in which something fails.  For any adapters, workers
\* and queue size.
THEOREM KeyEndsCopiesHolds == Spec => KeyEndsCopies
<1>1. Typed /\ Typed' /\ [Next]_vars
        => [\A i \in Items : KeysOf[i] \cap keys # {} /\ faults' = faults =>
              enriched'[i] + InHand(i)' <= enriched[i] + InHand(i)]_vars
  BY CopiesStep DEF NoMoreCopies
<1>2. Typed /\ [Next]_vars => Typed'
  BY TypedInductive
<1> QED
  BY <1>1, <1>2, InitTyped, PTL DEF Spec, KeyEndsCopies

=============================================================================
