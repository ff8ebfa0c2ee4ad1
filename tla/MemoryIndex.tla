----------------------------- MODULE MemoryIndex -----------------------------
(***************************************************************************)
(* The memory of events: reports about one story are consolidated into     *)
(* items, one per day of the story, by the monitor's refresh of the recent *)
(* window and by a rebuild at the command line; digests are written from   *)
(* the items.  Two ticks make a day.                                       *)
(***************************************************************************)
EXTENDS Integers, Sequences, SequencesExt, FiniteSets, FiniteSetsExt

CONSTANTS
  Magnitudes,     \* of the direct impacts of a report, 0 if there are none
  MinMagnitude,   \* INDEX_MIN_MAGNITUDE
  RefreshTicks,   \* REFRESH_DAYS, or --days of the command line
  RetentionTicks, \* RETENTION_DAYS
  Lags,           \* how long before its report a news item was published
  DigestScopes,         \* of the digests, in their order
  MaxReports, MaxAge, MaxRebuilds, MaxMemoryFaults      \* bounds

ASSUME MemoryAssumption ==
  /\ Magnitudes \subseteq 0..5 /\ MinMagnitude \in 1..5
  /\ RefreshTicks \in Nat \ {0} /\ RetentionTicks >= RefreshTicks
  /\ Lags \subseteq Nat

VARIABLES
  reports,      \* impact_reports, in the order of created_at
  age,          \* the time
  items,        \* memory_items without the embedding
  embedding,    \* of an item: the report whose text was embedded, or 0
  runner,       \* where each run of the index stands
  digest,       \* memory_digests: the aggregate each was written from
  writing,      \* the monitor's digest cycle: scopes left, hashes at its start
  rebuilds, memoryFaults

memoryVars == <<reports, age, items, embedding, runner, digest, writing, rebuilds, memoryFaults>>

Indexers == {"monitor", "cli"}
NoItem   == [sources |-> {}, from |-> 0, magnitude |-> 0, time |-> 0]
Resting  == [stage |-> "off"]
NoCycle  == [scopes |-> <<>>, known |-> {}]
EventDays == 0..MaxAge

MemoryInit ==
  /\ reports = <<>> /\ age = 0
  /\ items = [d \in EventDays |-> NoItem] /\ embedding = [d \in EventDays |-> 0]
  /\ runner = [x \in Indexers |-> Resting]
  /\ digest = [s \in Range(DigestScopes) |-> {}] /\ writing = NoCycle
  /\ rebuilds = 0 /\ memoryFaults = 0

-----------------------------------------------------------------------------
(* Consolidation.                                                          *)

\* The day that is part of event_key_for; headline and symbols agree.
Day(time) == time \div 2

\* EXTRACT_SQL and consolidate: the reports since then with a material impact,
\* in the order of their event time, merged by day; the first of the greatest
\* magnitude gives its words, the earliest its time.
Extracted(since) ==
  {i \in DOMAIN reports : reports[i].created >= since /\ reports[i].magnitude >= MinMagnitude}

Merged(sources) ==
  LET top   == {i \in sources : \A j \in sources : reports[j].magnitude <= reports[i].magnitude}
      first == Min({reports[i].time : i \in top})
  IN  [sources |-> sources,
       from |-> Min({i \in top : reports[i].time = first}),
       magnitude |-> reports[CHOOSE i \in top : TRUE].magnitude,
       time |-> Min({reports[i].time : i \in sources})]

Consolidated(since) ==
  LET found == Extracted(since)
  IN  [d \in {Day(reports[i].time) : i \in found} |->
         Merged({i \in found : Day(reports[i].time) = d})]

-----------------------------------------------------------------------------
(* The world.                                                              *)

\* A report is stored; it is dated by its news, or by itself if that is earlier.
Arrives ==
  /\ Len(reports) < MaxReports
  /\ \E m \in Magnitudes, lag \in Lags :
       /\ lag <= age
       /\ reports' = Append(reports, [created |-> age, time |-> age - lag, magnitude |-> m])
  /\ UNCHANGED <<age, items, embedding, runner, digest, writing, rebuilds, memoryFaults>>

Ages ==
  /\ age < MaxAge
  /\ age' = age + 1
  /\ UNCHANGED <<reports, items, embedding, runner, digest, writing, rebuilds, memoryFaults>>

-----------------------------------------------------------------------------
(* Runs of the index: refresh of the monitor, rebuild of the command line.  *)

At(x, stage) == runner[x].stage = stage
Steps(x, next) == runner' = [runner EXCEPT ![x] = next]

\* A failed call ends the run: the loop of the monitor logs it and waits for
\* the next cycle, the command line exits.
RunFails(x) ==
  /\ ~At(x, "off") /\ memoryFaults < MaxMemoryFaults
  /\ memoryFaults' = memoryFaults + 1
  /\ Steps(x, Resting)
  /\ UNCHANGED <<reports, age, items, embedding, digest, writing, rebuilds>>

\* _fetch_events: without events there is nothing to do but to prune.
Fetch(x) ==
  /\ At(x, "off")
  /\ IF x = "cli" THEN rebuilds < MaxRebuilds /\ rebuilds' = rebuilds + 1 ELSE UNCHANGED rebuilds
  /\ \E events \in {Consolidated(age - (IF x = "cli" THEN RetentionTicks ELSE RefreshTicks))} :
       Steps(x, IF events = <<>> THEN [stage |-> "prune"]
                ELSE [stage |-> "compare", events |-> events])
  /\ UNCHANGED <<reports, age, items, embedding, digest, writing, memoryFaults>>

\* An event whose row has the same words, magnitude and any embedding.
Unchanged(event, d) ==
  /\ items[d] # NoItem /\ embedding[d] # 0
  /\ items[d].magnitude = event.magnitude

\* _existing_signatures, not asked by a rebuild; then embed_texts.
Compare(x) ==
  /\ At(x, "compare")
  /\ LET events == runner[x].events
     IN  Steps(x, [stage |-> "upsert", events |-> events,
                   fresh |-> {d \in DOMAIN events : x = "cli" \/ ~Unchanged(events[d], d)}])
  /\ UNCHANGED <<reports, age, items, embedding, digest, writing, rebuilds, memoryFaults>>

\* Mutant: what has not changed is not written again.
UpsertItems_OnlyFresh(x) ==
  /\ At(x, "upsert")
  /\ LET events == runner[x].events
     IN  /\ items' = [d \in EventDays |-> IF d \in runner[x].fresh THEN events[d] ELSE items[d]]
         /\ embedding' = [d \in EventDays |-> IF d \in runner[x].fresh THEN events[d].from
                                              ELSE embedding[d]]
  /\ Steps(x, [stage |-> "prune"])
  /\ UNCHANGED <<reports, age, digest, writing, rebuilds, memoryFaults>>

\* _upsert: every event in one transaction; the embedding where one was made.
UpsertItems(x) ==
  /\ At(x, "upsert")
  /\ LET events == runner[x].events
     IN  /\ items' = [d \in EventDays |-> IF d \in DOMAIN events THEN events[d] ELSE items[d]]
         /\ embedding' = [d \in EventDays |-> IF d \in runner[x].fresh THEN events[d].from
                                              ELSE embedding[d]]
  /\ Steps(x, [stage |-> "prune"])
  /\ UNCHANGED <<reports, age, digest, writing, rebuilds, memoryFaults>>

\* prune: of both runs the last step.
Prune(x) ==
  /\ At(x, "prune")
  /\ LET gone == {d \in EventDays : items[d] # NoItem /\ items[d].time < age - RetentionTicks}
     IN  /\ items' = [d \in EventDays |-> IF d \in gone THEN NoItem ELSE items[d]]
         /\ embedding' = [d \in EventDays |-> IF d \in gone THEN 0 ELSE embedding[d]]
  /\ Steps(x, Resting)
  /\ UNCHANGED <<reports, age, digest, writing, rebuilds, memoryFaults>>

IndexStep(x) == Fetch(x) \/ Compare(x) \/ UpsertItems(x) \/ Prune(x)

-----------------------------------------------------------------------------
(* The digests.                                                            *)

\* What _aggregate_hash tells apart, within the window of the memory.
Aggregate == {<<d, items[d].from, items[d].magnitude>> : d \in {d \in EventDays : items[d] # NoItem}}

\* refresh_all reads the hashes once, at its start.
BeginDigests ==
  /\ writing = NoCycle
  /\ writing' = [scopes |-> DigestScopes, known |-> digest]
  /\ UNCHANGED <<reports, age, items, embedding, runner, digest, rebuilds, memoryFaults>>

NextScope == IF Len(writing.scopes) = 1 THEN NoCycle ELSE [writing EXCEPT !.scopes = Tail(@)]

\* One scope: nothing to tell, nothing new, an empty note, a note stored, or an
\* error, which leaves the other scopes to the next cycle.
WriteDigest ==
  /\ writing # NoCycle
  /\ LET scope == Head(writing.scopes)
         new   == Aggregate # {} /\ Aggregate # writing.known[scope]
     IN  \/ /\ digest' = IF new THEN [digest EXCEPT ![scope] = Aggregate] ELSE digest
            /\ writing' = NextScope
            /\ UNCHANGED memoryFaults
         \/ /\ memoryFaults < MaxMemoryFaults /\ new
            /\ memoryFaults' = memoryFaults + 1
            /\ writing' \in {NoCycle, NextScope}
            /\ UNCHANGED digest
  /\ UNCHANGED <<reports, age, items, embedding, runner, rebuilds>>

MemoryNext ==
  \/ Arrives \/ Ages \/ BeginDigests \/ WriteDigest
  \/ \E x \in Indexers : IndexStep(x) \/ RunFails(x)

\* The monitor's two loops go on for ever; a rebuild may hang.
MemoryFairness ==
  /\ WF_memoryVars(IndexStep("monitor"))
  /\ WF_memoryVars(BeginDigests \/ WriteDigest)

MemorySpec == MemoryInit /\ [][MemoryNext]_memoryVars /\ MemoryFairness

-----------------------------------------------------------------------------
(* Properties.                                                             *)

MemoryTypeOK ==
  /\ Len(reports) <= MaxReports /\ age \in 0..MaxAge
  /\ \A d \in EventDays :
       /\ items[d].sources \subseteq DOMAIN reports
       /\ items[d] # NoItem => items[d].from \in items[d].sources /\ Day(items[d].time) = d
       /\ embedding[d] \in 0..Len(reports)
  /\ \A x \in Indexers : runner[x].stage \in {"off", "compare", "upsert", "prune"}

Recent(i) == i \in Extracted(age - RefreshTicks)

Indexed(i) ==
  LET d == Day(reports[i].time)
  IN  /\ i \in items[d].sources
      /\ \A s \in Range(DigestScopes) : digest[s] = Aggregate

\* While it is recent, a report comes to be counted by its item and by digests
\* that are up to date, although runs fail in the middle and a rebuild overlaps
\* with the refreshes
\* (index.py:116, monitor.py:616, digest.py:125).
RecentIndexed ==
  \A i \in 1..MaxReports : Recent(i) ~> (~Recent(i) \/ Indexed(i))

=============================================================================
