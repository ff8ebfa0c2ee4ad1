--------------------------- MODULE AnalysisWorker ---------------------------
(***************************************************************************)
(* The analysis worker.  Its consumer hands filings, and in market hours   *)
(* everything, to per-item runs of the pipeline, a bounded number at once; *)
(* the other items gather in a buffer that is analysed as one batch.  A    *)
(* step is the code between two awaits.                                    *)
(*                                                                         *)
(* A run publishes a skeleton, the report, and the summary of a filing     *)
(* when that comes late, all under one report id.  A report whose scoring  *)
(* failed is analysed again some minutes later under a new id.             *)
(***************************************************************************)
EXTENDS AnalysedTopic

CONSTANTS
  Filings,     \* items of the exchanges: always a run of their own
  Irrelevant,  \* items that stage 1 sorts out
  Inboxes,     \* the possible contents of the enriched topic
  Slots,       \* RT_CONCURRENCY
  BatchMax,    \* BATCH_MAX_SIZE
  MaxBells,    \* bound: openings and closings of the market
  NoNews

\* A NewsItem has an id of its own, also when ingestion publishes a text again.
ASSUME WorkerAssumption ==
  /\ Filings \subseteq News
  /\ Irrelevant \subseteq News
  /\ Inboxes \subseteq Seq(News)
  /\ \A box \in Inboxes : \A j, k \in DOMAIN box : box[j] = box[k] => j = k
  /\ Slots \in Nat \ {0}
  /\ BatchMax \in Nat \ {0}
  /\ MaxBells \in Nat
  /\ NoNews \notin News

VARIABLES
  inbox,      \* raw.news.enriched.in
  pos,        \* items of inbox the consumer has taken
  committed,  \* the offset this process began at
  hand,       \* what handle_news waits for, with which item
  buffer,     \* _batch_buf
  batch,      \* batch[f]: the batch a caller of _flush_batch works on
  runs,       \* pipeline runs, and retries that wait for theirs
  late,       \* _summary_update_tasks: runs whose summary is still awaited
  slots,      \* free slots of the semaphore
  retried,    \* _stage3_retried
  minted,     \* report ids so far
  open,       \* is_market_hours()
  bells,      \* openings and closings so far
  svc,        \* "up", or how far the shutdown is
  waits,      \* ids of the tasks the shutdown waits for
  logged,     \* items given up with an error in the log
  lost,       \* history: items a stop or a crash found in memory
  taken       \* history: taken[n] is how often item n was consumed

offsets == <<inbox, pos, committed, taken>>
batches == <<buffer, batch>>
tasks   == <<runs, late, slots, retried>>
market  == <<open, bells>>
stop    == <<svc, waits>>
ends    == <<logged, lost>>

workerVars == <<offsets, hand, batches, tasks, minted, market, stop, ends>>

Flushers == {"consumer", "timer", "stop"}

Resting == [at |-> "idle", items |-> {}]
Free    == [at |-> "free", news |-> NoNews]

WorkerInit ==
  /\ topic = <<>>
  /\ faults = 0
  /\ inbox \in Inboxes
  /\ pos = 0 /\ committed = 0
  /\ taken = [n \in News |-> 0]
  /\ hand = Free
  /\ buffer = {}
  /\ batch = [f \in Flushers |-> Resting]
  /\ runs = {} /\ late = {} /\ retried = {}
  /\ slots = Slots
  /\ minted = 0
  /\ open \in BOOLEAN
  /\ bells = 0
  /\ svc = "up"
  /\ waits = {}
  /\ logged = {} /\ lost = {}

\* The market opens or closes.
Bell ==
  /\ bells < MaxBells
  /\ bells' = bells + 1
  /\ open' = ~open
  /\ UNCHANGED <<topic, faults, offsets, hand, batches, tasks, minted, stop, ends>>

(***************************************************************************)
(* The pipeline run of one item.                                           *)
(***************************************************************************)
NewRun(n, at) ==
  [id |-> minted + 1, news |-> n, at |-> at, error |-> FALSE,
   summary |-> "none", attach |-> "no"]

\* Stages in which a run holds a slot, and those in which it publishes.
Working == {"stage1", "skip", "skeleton", "analyse", "join", "final", "sent"}
Sending == {"skip", "skeleton", "final"}

Becomes(r, q) == runs' = (runs \ {r}) \cup {q}
Over(r)       == runs' = runs \ {r} /\ slots' = slots + 1

\* filing_summary_node starts the summary of a filing in a task of its own.
WithSummary(r) ==
  [r EXCEPT !.at = "analyse",
            !.summary = IF r.news \in Filings THEN "running" ELSE "none"]

\* What a run publishes at its stage.
EventOf(r) ==
  [id      |-> r.id,
   news    |-> r.news,
   kind    |-> IF r.at = "skeleton" THEN "analysing" ELSE "complete",
   impacts |-> r.at = "final" /\ ~r.error,
   summary |-> r.at = "final" /\ r.attach = "yes"]

\* Stage 1 returns; in market hours a skeleton goes out first.
Classify(r) ==
  /\ r.at = "stage1"
  /\ Becomes(r, IF r.news \in Irrelevant THEN [r EXCEPT !.at = "skip"]
                ELSE IF open THEN [r EXCEPT !.at = "skeleton"] ELSE WithSummary(r))
  /\ UNCHANGED <<topic, faults, offsets, hand, batches, late, slots, retried, minted,
                 market, stop, ends>>

\* A skeleton that cannot be published is only missed.
PublishSkeleton(r) ==
  /\ r.at = "skeleton"
  /\ Published(EventOf(r)) \/ PublishFails(EventOf(r))
  /\ Becomes(r, WithSummary(r))
  /\ UNCHANGED <<offsets, hand, batches, late, slots, retried, minted, market, stop, ends>>

\* finalize_node: join the summary, or publish first and attach it later.
Finalized(r) ==
  CASE r.summary = "running" /\ ~open -> [r EXCEPT !.at = "join"]
    [] r.summary = "running" /\ open  -> [r EXCEPT !.at = "final", !.attach = "later"]
    [] r.summary = "ready"            -> [r EXCEPT !.at = "final", !.attach = "yes"]
    [] OTHER                          -> [r EXCEPT !.at = "final"]

\* Stages 2 to 5.  A failure of the scoring leaves a report without impacts.
Analyse(r) ==
  /\ r.at = "analyse"
  /\ \/ Becomes(r, Finalized(r)) /\ UNCHANGED faults
     \/ Fault("llm") /\ Becomes(r, Finalized([r EXCEPT !.error = TRUE]))
  /\ UNCHANGED <<topic, offsets, hand, batches, late, slots, retried, minted, market,
                 stop, ends>>

\* The summary arrives, is rejected, or takes too long.
SummaryEnds(r) ==
  /\ r.summary = "running"
  /\ \E outcome \in {"ready", "failed"} :
        LET q == [r EXCEPT !.summary = outcome]
        IN  \/ r \in runs /\ r.at # "sent" /\ Becomes(r, q) /\ UNCHANGED late
            \/ r \in late /\ late' = (late \ {r}) \cup {q} /\ UNCHANGED runs
  /\ UNCHANGED <<topic, faults, offsets, hand, batches, slots, retried, minted, market,
                 stop, ends>>

Join(r) ==
  /\ r.at = "join"
  /\ r.summary # "running"
  /\ Becomes(r, Finalized(r))
  /\ UNCHANGED <<topic, faults, offsets, hand, batches, late, slots, retried, minted,
                 market, stop, ends>>

\* The report; a summary that is late gets its task after that.
PublishFinal(r) ==
  /\ r.at \in {"skip", "final"}
  /\ \/ /\ Published(EventOf(r))
        /\ Becomes(r, [r EXCEPT !.at = "sent"])
        /\ late' = IF r.attach = "later" THEN late \cup {[r EXCEPT !.at = "sent"]} ELSE late
        /\ UNCHANGED <<slots, logged>>
     \/ /\ PublishFails(EventOf(r))
        /\ Over(r)
        /\ logged' = logged \cup {r.news}
        /\ UNCHANGED late
  /\ UNCHANGED <<offsets, hand, batches, retried, minted, market, stop, lost>>

\* The run is over.  One that failed in stage 3 is repeated, once.
Finish(r) ==
  /\ r.at = "sent"
  /\ slots' = slots + 1
  /\ IF r.error /\ r.news \notin retried
     THEN /\ retried' = retried \cup {r.news}
          /\ Becomes(r, NewRun(r.news, "sleep"))
          /\ minted' = minted + 1
     ELSE runs' = runs \ {r} /\ UNCHANGED <<retried, minted>>
  /\ UNCHANGED <<topic, faults, offsets, hand, batches, late, market, stop, ends>>

\* Mutant: a retry starts without a slot.
Retry_NoSlot(r) ==
  /\ r.at = "sleep"
  /\ Becomes(r, [r EXCEPT !.at = "stage1"])
  /\ UNCHANGED <<topic, faults, offsets, hand, batches, late, slots, retried, minted, market,
                 stop, ends>>

\* The delay of a retry is over and it gets a slot.
Retry(r) ==
  /\ r.at = "sleep"
  /\ slots > 0
  /\ slots' = slots - 1
  /\ Becomes(r, [r EXCEPT !.at = "stage1"])
  /\ UNCHANGED <<topic, faults, offsets, hand, batches, late, retried, minted, market,
                 stop, ends>>

\* The time budget of an item is spent, or a stage raises: whatever the run
\* awaits is cancelled, a publication in its middle.
Timeout(r) ==
  /\ r.at \in Working
  /\ Fault("timeout")
  /\ IF r.at \in Sending THEN Cut(EventOf(r)) ELSE UNCHANGED topic
  /\ Over(r)
  /\ logged' = logged \cup {r.news}
  /\ UNCHANGED <<offsets, hand, batches, late, retried, minted, market, stop, lost>>

\* The update that attaches a late summary; without one nothing is sent.
Update(r) ==
  [id |-> r.id, news |-> r.news, kind |-> "update", impacts |-> ~r.error, summary |-> TRUE]

AttachSummary(r) ==
  /\ r.summary \in {"ready", "failed"}
  /\ IF r.summary = "ready" THEN Published(Update(r)) \/ PublishFails(Update(r))
                            ELSE UNCHANGED <<topic, faults>>
  /\ late' = late \ {r}
  /\ UNCHANGED <<offsets, hand, batches, runs, slots, retried, minted, market, stop, ends>>

(***************************************************************************)
(* The batch of the hours without market.                                  *)
(***************************************************************************)

\* Mutant: the buffer is not emptied before the batch is processed.
StartFlush_Keeps(f, items) ==
  /\ batch' = [batch EXCEPT ![f] = [at |-> "triage", items |-> items]]
  /\ buffer' = items

\* _flush_batch takes the buffer; the consumer keeps the item that waits.
StartFlush(f, items) ==
  /\ batch' = [batch EXCEPT ![f] = [at |-> "triage", items |-> items]]
  /\ buffer' = {}

\* Mutant: the consumer does not go on after a batch.
Remaining_Stuck(f, items) ==
  /\ batch' = [batch EXCEPT ![f] =
       IF items # {} THEN [at |-> "publish", items |-> items]
       ELSE [Resting EXCEPT !.at = IF f = "timer" /\ svc # "up" THEN "ended" ELSE @]]
  /\ UNCHANGED hand

\* The caller goes on with the reports that are left to publish, if any.
\* The timer ends when the shutdown has begun.
Remaining(f, items) ==
  /\ batch' = [batch EXCEPT ![f] =
       IF items # {} THEN [at |-> "publish", items |-> items]
       ELSE [Resting EXCEPT !.at = IF f = "timer" /\ svc # "up" THEN "ended" ELSE @]]
  /\ hand' = IF f # "consumer" \/ items # {} THEN hand
             ELSE IF hand.news = NoNews THEN Free ELSE [hand EXCEPT !.at = "slot"]

\* Mutant: the buffer is emptied when the batch is done.
Triage_ClearsBuffer(f) ==
  /\ batch[f].at = "triage"
  /\ buffer' = {}
  /\ Remaining(f, batch[f].items)
  /\ UNCHANGED <<topic, faults, logged, offsets, tasks, minted, market, stop, lost>>

\* process_batch.  Without the LLM only irrelevant items get a report; a batch
\* that takes too long is given up as a whole.
Triage(f) ==
  /\ batch[f].at = "triage"
  /\ \/ Remaining(f, batch[f].items) /\ UNCHANGED <<faults, logged>>
     \/ /\ Fault("llm")
        /\ Remaining(f, batch[f].items \cap Irrelevant)
        /\ logged' = logged \cup (batch[f].items \ Irrelevant)
     \/ /\ Fault("timeout")
        /\ Remaining(f, {})
        /\ logged' = logged \cup batch[f].items
  /\ UNCHANGED <<topic, offsets, buffer, tasks, minted, market, stop, lost>>

BatchEvent(n) ==
  [id |-> minted + 1, news |-> n, kind |-> "complete",
   impacts |-> n \notin Irrelevant, summary |-> FALSE]

\* One report after the other; an error gives up the rest.
PublishBatch(f, n) ==
  /\ batch[f].at = "publish"
  /\ n \in batch[f].items
  /\ minted' = minted + 1
  /\ \/ /\ Published(BatchEvent(n))
        /\ Remaining(f, batch[f].items \ {n})
        /\ UNCHANGED logged
     \/ /\ PublishFails(BatchEvent(n))
        /\ Remaining(f, {})
        /\ logged' = logged \cup batch[f].items
  /\ UNCHANGED <<offsets, buffer, tasks, market, stop, lost>>

\* The timer finds the window of the buffer over.  When the shutdown begins
\* it may be asleep, and wakes up for a last time.
TimerFlush ==
  /\ batch["timer"].at = "idle"
  /\ buffer # {}
  /\ StartFlush("timer", buffer)
  /\ UNCHANGED <<topic, faults, offsets, hand, tasks, minted, market, stop, ends>>

(***************************************************************************)
(* The consumer.                                                           *)
(***************************************************************************)

\* handle_news: a run of its own, after any batch that waits, or the buffer.
Deliver ==
  /\ hand = Free
  /\ pos < Len(inbox)
  /\ pos' = pos + 1
  /\ LET n == inbox[pos + 1]
     IN  /\ taken' = [taken EXCEPT ![n] = @ + 1]
         /\ IF open \/ n \in Filings
            THEN IF buffer # {}
                 THEN hand' = [at |-> "flush", news |-> n] /\ StartFlush("consumer", buffer)
                 ELSE hand' = [at |-> "slot", news |-> n] /\ UNCHANGED batches
            ELSE IF Cardinality(buffer \cup {n}) >= BatchMax
                 THEN /\ hand' = [at |-> "flush", news |-> NoNews]
                      /\ StartFlush("consumer", buffer \cup {n})
                 ELSE buffer' = buffer \cup {n} /\ UNCHANGED <<hand, batch>>
  /\ UNCHANGED <<topic, faults, inbox, committed, tasks, minted, market, stop, ends>>

\* A slot is free for the item in hand.
StartRun ==
  /\ hand.at = "slot"
  /\ slots > 0
  /\ slots' = slots - 1
  /\ runs' = runs \cup {NewRun(hand.news, "stage1")}
  /\ minted' = minted + 1
  /\ hand' = Free
  /\ UNCHANGED <<topic, faults, offsets, batches, late, retried, market, stop, ends>>

(***************************************************************************)
(* Shutdown, crash and restart.                                            *)
(***************************************************************************)

\* Items the process has taken and not dealt with.
Memory ==
  {r.news : r \in runs} \cup buffer \cup (UNION {batch[f].items : f \in Flushers})
    \cup ({hand.news} \ {NoNews})

\* SIGTERM: first the runs of this moment are waited for, each as long as its
\* own time budget.  A retry that sleeps is not waited for to its end.
Terminate ==
  /\ svc = "up"
  /\ Fault("stop")
  /\ svc' = "tasks"
  /\ waits' = {r.id : r \in {q \in runs : q.at \in Working}}
  /\ UNCHANGED <<topic, offsets, hand, batches, tasks, minted, market, ends>>

\* Then the late summaries are waited for.
DrainTasks ==
  /\ svc = "tasks"
  /\ \A r \in runs : r.id \notin waits
  /\ svc' = "summaries"
  /\ waits' = {r.id : r \in late}
  /\ UNCHANGED <<topic, faults, offsets, hand, batches, tasks, minted, market, ends>>

\* Then the buffer is flushed.
DrainSummaries ==
  /\ svc = "summaries"
  /\ \A r \in late : r.id \notin waits
  /\ svc' = "flush"
  /\ waits' = {}
  /\ IF buffer = {} THEN UNCHANGED batches ELSE StartFlush("stop", buffer)
  /\ UNCHANGED <<topic, faults, offsets, hand, tasks, minted, market, ends>>

\* The next process begins at an offset with an empty memory.
Restart(offset) ==
  /\ svc' = "up"
  /\ pos' = offset /\ committed' = offset
  /\ hand' = Free
  /\ buffer' = {}
  /\ batch' = [f \in Flushers |-> Resting]
  /\ runs' = {} /\ late' = {} /\ retried' = {}
  /\ slots' = Slots
  /\ waits' = {}
  /\ lost' = lost \cup Memory
  /\ UNCHANGED <<topic, inbox, taken, minted, market, logged>>

\* The consumer and the timer are cancelled; the consumer commits its offset.
StopEnds ==
  /\ svc = "flush"
  /\ batch["stop"] = Resting
  /\ Restart(pos)
  /\ UNCHANGED faults

\* Offsets are committed every second, whatever became of the items: the last
\* commit may be of any offset since the process began.
RestartAbruptly == \E offset \in committed..pos : Restart(offset)

\* The container's grace period is over before the shutdown is.
Kill ==
  /\ svc # "up"
  /\ RestartAbruptly
  /\ UNCHANGED faults

Crash == Fault("crash") /\ RestartAbruptly

RunNext(r) ==
  \/ Classify(r) \/ PublishSkeleton(r) \/ Analyse(r) \/ Join(r)
  \/ PublishFinal(r) \/ Finish(r) \/ Retry(r)

FlushNext(f) == Triage(f) \/ \E n \in News : PublishBatch(f, n)

ShutdownNext == DrainTasks \/ DrainSummaries \/ StopEnds \/ Kill

WorkerNext ==
  \/ \E r \in runs : RunNext(r) \/ Timeout(r)
  \/ \E r \in late : AttachSummary(r)
  \/ \E r \in runs \cup late : SummaryEnds(r)
  \/ \E f \in Flushers : FlushNext(f)
  \/ TimerFlush \/ Deliver \/ StartRun
  \/ Terminate \/ ShutdownNext \/ Crash \/ Bell

(***************************************************************************)
(* Properties of the worker.                                               *)
(***************************************************************************)
Run == [id : Nat, news : News, at : Working \cup {"sleep"}, error : BOOLEAN,
        summary : {"none", "running", "ready", "failed"}, attach : {"no", "yes", "later"}]

WorkerTypeOK ==
  /\ topic \in Seq(Event)
  /\ faults \in Nat
  /\ inbox \in Seq(News)
  /\ pos \in 0..Len(inbox) /\ committed \in 0..pos
  /\ taken \in [News -> Nat]
  /\ hand \in {Free} \cup [at : {"flush"}, news : News \cup {NoNews}]
                    \cup [at : {"slot"}, news : News]
  /\ buffer \subseteq News
  /\ batch \in [Flushers -> [at : {"idle", "triage", "publish", "ended"},
                             items : SUBSET News]]
  /\ runs \subseteq Run /\ late \subseteq Run
  /\ slots \in Nat
  /\ retried \subseteq News
  /\ minted \in Nat
  /\ open \in BOOLEAN /\ bells \in Nat
  /\ svc \in {"up", "tasks", "summaries", "flush"}
  /\ waits \subseteq Nat
  /\ logged \subseteq News /\ lost \subseteq News

\* _spawn_rt, "finally: release": every slot is free or held by one run,
\* through time-outs, failures and retries that take their slot themselves.
SlotsConserved == slots + Cardinality({r \in runs : r.at \in Working}) = Slots

\* Items that reached the topic with a report.
Reported == {topic[k].news : k \in {j \in DOMAIN topic : topic[j].kind = "complete"}}

\* Offsets are committed whatever became of the items, so nothing else would
\* notice a dropped one: each item consumed has a report, an error in the log,
\* is in memory, or was when the process ended.
Accounted ==
  \A k \in 1..pos : inbox[k] \in Reported \cup logged \cup lost \cup Memory

\* Reports with impacts, which paper trading acts on.
Verdicts(n) == {k \in DOMAIN topic : topic[k].news = n /\ topic[k].kind = "complete"
                                       /\ topic[k].impacts}

\* One delivery of an item gives at most one report to trade on, although
\* consumer, timer and shutdown flush one buffer and a failed scoring is
\* repeated under a new id.
OneVerdictPerDelivery == \A n \in News : Cardinality(Verdicts(n)) <= taken[n]

\* main, "a single stuck item can never block the consumer": an item that was
\* consumed leaves the memory of the process.
EveryItemLeaves == \A n \in News : (n \in Memory) ~> (n \notin Memory)

=============================================================================
