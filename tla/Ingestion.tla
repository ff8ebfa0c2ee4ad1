------------------------------ MODULE Ingestion ------------------------------
(***************************************************************************)
(* The ingestion service: adapters that poll paged listings, handle_item   *)
(* (dedup, publish raw, publish enriched or queue for the body, mark), the *)
(* pool that fetches article bodies, the shutdown, and restarts.           *)
(*                                                                         *)
(* Adapters are coroutines of one process; a step is the code between two  *)
(* awaits.  Redis (seen-ids, dedup keys) and the Kafka topics survive a    *)
(* restart; the body queue does not.  The model covers one day: the 48 h   *)
(* time-to-live of the Redis keys and the age limit of items are longer.   *)
(***************************************************************************)
EXTENDS Integers, FiniteSets, Sequences, SequencesExt

CONSTANTS
  Sources,    \* adapters
  Items,      \* announcements and articles
  SourceOf,   \* SourceOf[i]: the adapter that lists item i
  Articles,   \* items whose page is fetched for its body
  Attached,   \* filings that carry an attachment
  CompanyOf,  \* CompanyOf[i]: the company an item is about
  TextOf,     \* TextOf[i]: the text of the attachment, or NoText
  GistOf,     \* GistOf[i]: equal for items with near-equal headline and opening
  NoText,     \* nothing was attached, or nothing could be extracted
  MarkFirst,  \* adapters that mark an item before they yield it (RSS feeds)
  Unwanted,   \* rows outside the universe or without a headline
  PageSize,   \* PageSize[s]: rows of one page
  MaxPages,   \* MaxPages[s]: pages an adapter reads in one cycle
  Workers,    \* body-fetch workers
  QueueSize,  \* capacity of the body queue
  Batches,    \* the sets of items that may be filed during the day
  FaultKinds, \* failures that may happen in this instance
  MaxFaults   \* bound: failures

AllFaults == {"page", "publish", "redis", "abort", "crash", "stop", "hydrate"}

ASSUME ItemAssumption ==
  /\ SourceOf \in [Items -> Sources]
  /\ Articles \subseteq Items
  /\ Attached \subseteq Items
  /\ Unwanted \subseteq Items
  /\ MarkFirst \subseteq Sources
  /\ Batches \subseteq SUBSET Items

ASSUME SizeAssumption ==
  /\ PageSize \in [Sources -> Nat \ {0}]
  /\ MaxPages \in [Sources -> Nat \ {0}]
  /\ QueueSize \in Nat \ {0}
  /\ IsFiniteSet(Sources) /\ IsFiniteSet(Workers)
  /\ MaxFaults \in Nat
  /\ FaultKinds \subseteq AllFaults

VARIABLES
  upcoming,  \* items not filed yet
  listing,   \* listing[s]: what the exchange or feed lists, newest first
  seen,      \* seen[s]: seen-ids of adapter s, in memory
  stored,    \* stored[s]: those that Redis has as well
  keys,      \* dedup keys in Redis
  raw,       \* items published to raw.news.in
  enriched,  \* enriched[i]: copies of i on raw.news.enriched.in
  dlq,       \* items on raw.news.dlq
  lost,      \* items for which even that failed: logged as critical
  pc,        \* pc[s]: where the loop of adapter s is suspended
  cycle,     \* cycle[s]: the page it is on, was any row new, is it the last
  todo,      \* todo[s]: rows of the page not yet handled
  item,      \* item[s]: the item handle_item works on
  queue,     \* the body queue; Stop is the sentinel
  worker,    \* worker[w]: the item a worker fetches
  svc,       \* the process: "up" or "stopping"
  stops,     \* sentinels stop() has yet to put
  faults     \* failures so far

feeds  == <<upcoming, listing>>
marks  == <<seen, stored, keys>>
topics == <<raw, enriched, dlq, lost>>
loops  == <<pc, cycle, todo, item>>
pool   == <<queue, worker>>
life   == <<svc, stops>>
vars   == <<feeds, marks, topics, loops, pool, life, faults>>

Stop == [sentinel |-> TRUE]
Idle == [waiting |-> TRUE]
Done == [ended |-> TRUE]
None == [item |-> FALSE]

\* No item is taken for a sentinel, or for the absence of an item.
ASSUME MarkerAssumption == Items \cap {Stop, Idle, Done, None} = {}

NoCycle == [page |-> 0, fresh |-> FALSE, last |-> FALSE]

Fault(kind) ==
  /\ kind \in FaultKinds
  /\ faults < MaxFaults
  /\ faults' = faults + 1

Init ==
  /\ upcoming \in Batches
  /\ listing = [s \in Sources |-> <<>>]
  /\ seen = [s \in Sources |-> {}]
  /\ stored = [s \in Sources |-> {}]
  /\ keys = {}
  /\ raw = {} /\ dlq = {} /\ lost = {}
  /\ enriched = [i \in Items |-> 0]
  /\ pc = [s \in Sources |-> "idle"]
  /\ cycle = [s \in Sources |-> NoCycle]
  /\ todo = [s \in Sources |-> {}]
  /\ item = [s \in Sources |-> None]
  /\ queue = <<>>
  /\ worker = [w \in Workers |-> Idle]
  /\ svc = "up"
  /\ stops = 0
  /\ faults = 0

\* A company files, a feed adds an article: the newest of its listing.
File(i) ==
  /\ i \in upcoming
  /\ upcoming' = upcoming \ {i}
  /\ listing' = [listing EXCEPT ![SourceOf[i]] = <<i>> \o @]
  /\ UNCHANGED <<marks, topics, loops, pool, life, faults>>

(***************************************************************************)
(* The keys by which dedup recognises an item: its URL, company and text   *)
(* of the attachment, and the near-duplicate hash.  A filing without an    *)
(* attachment has the URL of its company's page.                           *)
(***************************************************************************)
Url(i) == IF i \in Articles \cup Attached THEN <<"document", i>>
                                          ELSE <<"page", SourceOf[i], CompanyOf[i]>>

KeysOf == [i \in Items |->
  {<<"url", Url(i)>>, <<"gist", GistOf[i]>>}
    \cup (IF TextOf[i] = NoText THEN {} ELSE {<<"content", CompanyOf[i], TextOf[i]>>})]

(***************************************************************************)
(* fetch(): the pages of a listing, until one holds nothing new.           *)
(***************************************************************************)
PageEnd(s, p) == IF p * PageSize[s] < Len(listing[s]) THEN p * PageSize[s]
                                                      ELSE Len(listing[s])

Page(s, p) == {listing[s][n] : n \in ((p - 1) * PageSize[s] + 1)..PageEnd(s, p)}

\* A cycle that is over, or given up.
Rest(s) ==
  /\ pc' = [pc EXCEPT ![s] = "idle"]
  /\ cycle' = [cycle EXCEPT ![s] = NoCycle]
  /\ todo' = [todo EXCEPT ![s] = {}]
  /\ item' = [item EXCEPT ![s] = None]

\* seen_add for each of ids; an error of Redis is only logged.
SeenAdd(s, ids) ==
  /\ seen' = [seen EXCEPT ![s] = @ \cup ids]
  /\ \/ stored' = [stored EXCEPT ![s] = @ \cup ids] /\ UNCHANGED faults
     \/ ids # {} /\ Fault("redis") /\ UNCHANGED stored

\* Mutant: rows are marked before they are published.
Receive_MarksAll(s, p) ==
  LET new == Page(s, p) \ seen[s]
  IN  /\ pc' = [pc EXCEPT ![s] = "page"]
      /\ cycle' = [cycle EXCEPT ![s] = [page |-> p, fresh |-> new # {},
                     last |-> p * PageSize[s] >= Len(listing[s])]]
      /\ todo' = [todo EXCEPT ![s] = new \ Unwanted]
      /\ SeenAdd(s, new)
      /\ UNCHANGED <<feeds, keys, topics, item, pool, life>>

\* Page p arrives.  Rows nobody wants are marked at once; the others are
\* yielded one by one, in the order their attachments come in.
Receive(s, p) ==
  LET new == Page(s, p) \ seen[s]
  IN  /\ pc' = [pc EXCEPT ![s] = "page"]
      /\ cycle' = [cycle EXCEPT ![s] = [page |-> p, fresh |-> new # {},
                     last |-> p * PageSize[s] >= Len(listing[s])]]
      /\ todo' = [todo EXCEPT ![s] = new \ Unwanted]
      /\ SeenAdd(s, new \cap Unwanted)
      /\ UNCHANGED <<feeds, keys, topics, item, pool, life>>

Poll(s) ==
  /\ svc = "up"
  /\ pc[s] = "idle"
  /\ listing[s] # <<>>
  /\ Receive(s, 1)

NextPage(s) ==
  /\ pc[s] = "between"
  /\ Receive(s, cycle[s].page + 1)

\* The request for a further page fails: the scan of the day ends.
PageFails(s) ==
  /\ pc[s] = "between"
  /\ Fault("page")
  /\ Rest(s)
  /\ UNCHANGED <<feeds, marks, topics, pool, life>>

\* A page is handled: stop at a fully seen page, at the last, at the cap.
PageDone(s) ==
  /\ pc[s] = "page"
  /\ todo[s] = {}
  /\ IF ~cycle[s].fresh \/ cycle[s].last \/ cycle[s].page >= MaxPages[s]
     THEN Rest(s)
     ELSE pc' = [pc EXCEPT ![s] = "between"] /\ UNCHANGED <<cycle, todo, item>>
  /\ UNCHANGED <<feeds, marks, topics, pool, life, faults>>

(***************************************************************************)
(* handle_item, and the marks around it.                                   *)
(***************************************************************************)

\* The next row is yielded; feeds mark it before that.
Take(s, i) ==
  /\ pc[s] = "page"
  /\ i \in todo[s]
  /\ pc' = [pc EXCEPT ![s] = "look"]
  /\ item' = [item EXCEPT ![s] = i]
  /\ todo' = [todo EXCEPT ![s] = @ \ {i}]
  /\ SeenAdd(s, IF s \in MarkFirst THEN {i} ELSE {})
  /\ UNCHANGED <<feeds, keys, topics, cycle, pool, life>>

\* Mutant: dedup keys are not looked up.
IsDuplicate_Never(s) == FALSE

\* is_duplicate: one of the keys of the item is in Redis.
IsDuplicate(s) == KeysOf[item[s]] \cap keys # {}

\* handle_item passes over a duplicate; an error of Redis lets it through.
Look(s) ==
  /\ pc[s] = "look"
  /\ \/ /\ pc' = [pc EXCEPT ![s] = IF IsDuplicate(s) THEN "mark" ELSE "raw"]
        /\ UNCHANGED faults
     \/ /\ Fault("redis")
        /\ pc' = [pc EXCEPT ![s] = "raw"]
  /\ UNCHANGED <<feeds, marks, topics, cycle, todo, item, pool, life>>

\* The broker takes no message: the item goes to the dead-letter topic, or,
\* if that fails as well, to the log only.
Undelivered(i) ==
  /\ Fault("publish")
  /\ \/ dlq' = dlq \cup {i} /\ UNCHANGED lost
     \/ lost' = lost \cup {i} /\ UNCHANGED dlq

PublishRaw(s) ==
  /\ pc[s] = "raw"
  /\ pc' = [pc EXCEPT ![s] = "route"]
  /\ \/ raw' = raw \cup {item[s]} /\ UNCHANGED <<dlq, lost, faults>>
     \/ Undelivered(item[s]) /\ UNCHANGED raw
  /\ UNCHANGED <<feeds, marks, enriched, cycle, todo, item, pool, life>>

\* Mutant: a failed publication raises no entry in the dead-letter topic.
PublishEnriched_Silent(i) ==
  \/ enriched' = [enriched EXCEPT ![i] = @ + 1] /\ UNCHANGED <<dlq, lost, faults>>
  \/ Fault("publish") /\ UNCHANGED <<enriched, dlq, lost>>

\* publish_enriched; its result is ignored by every caller.
PublishEnriched(i) ==
  \/ enriched' = [enriched EXCEPT ![i] = @ + 1] /\ UNCHANGED <<dlq, lost, faults>>
  \/ Undelivered(i) /\ UNCHANGED enriched

\* Articles wait for their body while the queue has room; everything else is
\* published without one.
Enqueue(s) ==
  /\ pc[s] = "route"
  /\ item[s] \in Articles
  /\ Len(queue) < QueueSize
  /\ queue' = Append(queue, item[s])
  /\ pc' = [pc EXCEPT ![s] = "keys"]
  /\ UNCHANGED <<feeds, marks, topics, cycle, todo, item, worker, life, faults>>

PublishNow(s) ==
  /\ pc[s] = "route"
  /\ item[s] \notin Articles \/ Len(queue) >= QueueSize
  /\ PublishEnriched(item[s])
  /\ pc' = [pc EXCEPT ![s] = "keys"]
  /\ UNCHANGED <<feeds, marks, raw, cycle, todo, item, pool, life>>

\* dedup.mark_seen; after a Redis error, a warning, some keys are missing.
MarkKeys(s) ==
  /\ pc[s] = "keys"
  /\ \/ keys' = keys \cup KeysOf[item[s]] /\ UNCHANGED faults
     \/ /\ Fault("redis")
        /\ \E some \in SUBSET KeysOf[item[s]] : keys' = keys \cup some
  /\ pc' = [pc EXCEPT ![s] = "mark"]
  /\ UNCHANGED <<feeds, seen, stored, topics, cycle, todo, item, pool, life>>

\* seen_add in run(), after the callback has returned.
MarkSeen(s) ==
  /\ pc[s] = "mark"
  /\ SeenAdd(s, {item[s]})
  /\ pc' = [pc EXCEPT ![s] = "page"]
  /\ item' = [item EXCEPT ![s] = None]
  /\ UNCHANGED <<feeds, keys, topics, cycle, todo, pool, life>>

\* The callback times out, or the watchdog cancels a parked adapter and
\* spawns it again: whatever the step under way, the cycle ends.
Abort(s) ==
  /\ pc[s] # "idle"
  /\ Fault("abort")
  /\ Rest(s)
  /\ UNCHANGED <<feeds, marks, topics, pool, life>>

(***************************************************************************)
(* The body-fetch workers.                                                 *)
(***************************************************************************)
Fetch(w) ==
  /\ worker[w] = Idle
  /\ queue # <<>>
  /\ worker' = [worker EXCEPT ![w] = IF Head(queue) = Stop THEN Done ELSE Head(queue)]
  /\ queue' = Tail(queue)
  /\ UNCHANGED <<feeds, marks, topics, loops, life, faults>>

\* A worker looks at _running only between two items.
Freed(w) == worker' = [worker EXCEPT ![w] = IF svc = "up" THEN Idle ELSE Done]

\* With or without a body, the item is published.
Fetched(w) ==
  /\ worker[w] \in Items
  /\ PublishEnriched(worker[w])
  /\ Freed(w)
  /\ UNCHANGED <<feeds, marks, raw, loops, queue, life>>

\* The body cache raises: the error is logged and the item is gone.
FetchFails(w) ==
  /\ worker[w] \in Items
  /\ Fault("redis")
  /\ Freed(w)
  /\ UNCHANGED <<feeds, marks, topics, loops, queue, life>>

(***************************************************************************)
(* Shutdown, crash and restart.                                            *)
(***************************************************************************)

AllRest ==
  /\ pc' = [s \in Sources |-> "idle"]
  /\ cycle' = [s \in Sources |-> NoCycle]
  /\ todo' = [s \in Sources |-> {}]
  /\ item' = [s \in Sources |-> None]

\* SIGTERM: the adapters are cancelled, then stop() puts one sentinel per
\* worker into the queue.
Terminate ==
  /\ svc = "up"
  /\ Fault("stop")
  /\ svc' = "stopping"
  /\ stops' = Cardinality(Workers)
  /\ AllRest
  /\ UNCHANGED <<feeds, marks, topics, pool>>

PutSentinel ==
  /\ svc = "stopping"
  /\ stops > 0
  /\ Len(queue) < QueueSize
  /\ queue' = Append(queue, Stop)
  /\ stops' = stops - 1
  /\ UNCHANGED <<feeds, marks, topics, loops, worker, svc, faults>>

\* The next process: empty queue, fresh loops, and the seen-ids it loads.
Restart(loaded) ==
  /\ svc' = "up"
  /\ stops' = 0
  /\ queue' = <<>>
  /\ worker' = [w \in Workers |-> Idle]
  /\ AllRest
  /\ seen' = loaded
  /\ UNCHANGED <<feeds, stored, keys, topics>>

\* The workers are gathered, the process ends and its container restarts.
Stopped ==
  /\ svc = "stopping"
  /\ stops = 0
  /\ \A w \in Workers : worker[w] = Done
  /\ Restart(stored)
  /\ UNCHANGED faults

\* The container's grace period is over before stop() is.
Kill ==
  /\ svc = "stopping"
  /\ Restart(stored)
  /\ UNCHANGED faults

Crash == Fault("crash") /\ Restart(stored)

\* The same, and the next process cannot read Redis when it starts.
CrashForgetful == Fault("hydrate") /\ Restart([s \in Sources |-> {}])

AdapterNext(s) ==
  \/ Poll(s) \/ NextPage(s) \/ PageDone(s)
  \/ Look(s) \/ PublishRaw(s) \/ Enqueue(s) \/ PublishNow(s) \/ MarkKeys(s) \/ MarkSeen(s)
  \/ \E i \in Items : Take(s, i)

WorkerNext(w) == Fetch(w) \/ Fetched(w) \/ FetchFails(w)

Next ==
  \/ \E i \in Items : File(i)
  \/ \E s \in Sources : AdapterNext(s) \/ PageFails(s) \/ Abort(s)
  \/ \E w \in Workers : WorkerNext(w)
  \/ Terminate \/ PutSentinel \/ Stopped \/ Kill \/ Crash \/ CrashForgetful

Spec == Init /\ [][Next]_vars

(***************************************************************************)
(* Fairness: loops and workers are scheduled, every await of theirs has a  *)
(* timeout, and a stopping container is gone after its grace period.       *)
(***************************************************************************)
FairSpec ==
  /\ Spec
  /\ \A s \in Sources : WF_vars(AdapterNext(s))
  /\ \A w \in Workers : WF_vars(WorkerNext(w))
  /\ WF_vars(Kill)

(***************************************************************************)
(* Properties.                                                             *)
(***************************************************************************)
Stages == {"idle", "between", "page", "look", "raw", "route", "keys", "mark"}

TypeOK ==
  /\ upcoming \subseteq Items
  /\ listing \in [Sources -> Seq(Items)]
  /\ seen \in [Sources -> SUBSET Items]
  /\ stored \in [Sources -> SUBSET Items]
  /\ keys \subseteq UNION {KeysOf[i] : i \in Items}
  /\ raw \subseteq Items
  /\ enriched \in [Items -> Nat]
  /\ dlq \subseteq Items
  /\ lost \subseteq Items
  /\ pc \in [Sources -> Stages]
  /\ cycle \in [Sources -> [page : Nat, fresh : BOOLEAN, last : BOOLEAN]]
  /\ todo \in [Sources -> SUBSET Items]
  /\ item \in [Sources -> Items \cup {None}]
  /\ queue \in Seq(Items \cup {Stop})
  /\ worker \in [Workers -> Items \cup {Idle, Done}]
  /\ svc \in {"up", "stopping"}
  /\ stops \in Nat
  /\ faults \in Nat

\* Items dedup takes for the same.
SharesKey == [i \in Items |-> {j \in Items : KeysOf[j] \cap KeysOf[i] # {}}]

\* Filings: published by handle_item itself and marked after it; nothing that
\* shares a key with them waits for a body.
Filings == {i \in Items : /\ SourceOf[i] \notin MarkFirst
                          /\ i \notin Unwanted
                          /\ SharesKey[i] \cap Articles = {}}

Recorded(i)  == enriched[i] > 0 \/ i \in dlq \cup lost
Traced(i)    == \E j \in SharesKey[i] : Recorded(j)

\* base.run, "Seen is now recorded only after the callback - publish
\* included - has succeeded", as far as it goes: whatever crashes, is
\* cancelled or times out, a filing that will not be fetched again is, in one
\* of the copies dedup knows, on the enriched topic, on the dead-letter topic
\* or in the log.
FilingTraced ==
  \A i \in Filings : i \in seen[SourceOf[i]] => Traced(i)

\* The same document: filed by one company on several exchanges.
SameDocument(i) ==
  {j \in Items : j = i \/ (/\ CompanyOf[j] = CompanyOf[i]
                          /\ TextOf[j] = TextOf[i]
                          /\ TextOf[i] # NoText)}

\* dedup.py, "Anything fuzzier risks merging two genuinely different filings":
\* a filing that will not be fetched again was published, or a copy of the
\* same document was.
DistinctFilingsKept ==
  \A i \in Filings :
     i \in seen[SourceOf[i]] => \E j \in SameDocument(i) : Recorded(j)

\* Handlers past the look-up, queue entries and fetches of item i.
InHand(i) ==
    Cardinality({s \in Sources : pc[s] \in {"raw", "route"} /\ item[s] = i})
  + Cardinality({n \in DOMAIN queue : queue[n] = i})
  + Cardinality({w \in Workers : worker[w] = i})

\* handle_item, "duplicates are visible and harmless": where they end.  Once a
\* key of an item is in Redis, only the copies already in hand can still be
\* published, whichever adapter lists the document and after any restart; a
\* step in which Redis fails is the exception.
KeyEndsCopies ==
  [][\A i \in Items : KeysOf[i] \cap keys # {} /\ faults' = faults =>
        enriched'[i] + InHand(i)' <= enriched[i] + InHand(i)]_vars

\* A filing that stays on its adapter's first page is published, or leaves a
\* trace, whatever finitely many failures happen on the way.
FirstPageFilingsTraced ==
  \A i \in Filings :
     i \in ToSet(listing[SourceOf[i]])
       ~> Traced(i) \/ i \notin Page(SourceOf[i], 1)

=============================================================================
