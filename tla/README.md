# Bharat Terminal: a verification project

This directory holds TLA+ models of Bharat Terminal, the TLC instances that
check them and the TLAPS proofs about them. Paths are relative to the
repository; `bt/` stands for `src/bharat_terminal/`.

* [1. The system](#1-the-system)
* [2. The paper-trading ledger](#2-the-paper-trading-ledger)
* [3. Ingestion](#3-ingestion)
* [4. Analysis worker and relay](#4-analysis-worker-and-relay)
* [5. Services](#5-services)
* [6. Markets](#6-markets)
* [7. Knowledge](#7-knowledge)
* [8. Reports](#8-reports)
* [9. Runs and bounds](#9-runs-and-bounds)
* [10. Fairness](#10-fairness)
* [11. Proofs](#11-proofs)
* [12. Where code and comments disagree](#12-where-code-and-comments-disagree)
* [13. Plan](#13-plan)
* [14. Not modelled](#14-not-modelled)

Everything is run from here: `tlc -workers 2 -config PaperLedger_crash.cfg
MC_PaperLedger`, `tlapm PaperLedger_proofs.tla`. `PROJECT.json` lists the
components, runs, mutants, hazards and theorems, and maps every definition to
the source lines it stands for.

## 1. The system

Services in separate processes, connected by Kafka topics, a PostgreSQL
database and Redis.

| Component | State | Hard behaviour | Modules |
|---|---|---|---|
| **Ingestion** `bt/ingestion` | seen-ids per adapter, dedup keys in Redis, bounded body queue | publish and mark are not atomic, a queue in memory, timeouts that cancel half-done work, respawns | `Ingestion` |
| **Analysis worker** `bt/analysis` | batch buffer, real-time semaphore, retry tasks | deadlines drop batches, several publications of one report id from several tasks | `AnalysedTopic`, `AnalysisWorker` |
| **API relay** `bt/api/kafka_relay.py` | audit tables, feed in Redis | order of partial and final, a record lost on a database error, redelivery | `Relay`, `Pipeline` |
| **Stages** `bt/analysis/stages` | registry of stage 3 by news id | overlapping runs of one item share the registry | `ImpactStages` |
| **Classification** `bt/kb/sync`, `bt/kb/api.py` | company types, surveillance state, cached profiles | jobs rewrite what a cached reader goes by | `Classification` |
| **Paper trading** `bt/papertrade` | table `paper_trades`, marks, gates | seven tasks and another process write one table, each with reads several awaits old | `PaperLedger`, `TradeLifecycle`, `PaperLoops`, `Strategies` |
| **Metering and request log** `bt/analysis/guardrails.py`, `bt/api/flushers.py`, `bt/api/request_log.py` | breach windows, last alerts, Redis lists, a bounded queue | cooldown taken before dispatch, crash between pop and insert, cancellation in the middle of an insert | `Metering` |
| **Admin and sign-in** `bt/api/auth.py`, `bt/api/routes/admin.py` | `app_users`, permission cache, ledger archives | READ COMMITTED transactions that overlap, a lookup that straddles a change | `Accounts`, `LedgerReset` |
| **Provisioning** `bt/onboarding` | landing queue, accounts, mails | a step fails after an earlier one took effect, two workers | `Provision` |
| **KB sync** `bt/kb/sync` | results, transcripts, guidance, due events | one error rolls back others' work, jobs overlap | `KbSync`, `Transcripts`, `Guidance`, `BseResults` |
| **KB daily tables** `bt/kb/sync/pipeline.py`, `prices_sync.py`, `participant_oi_sync.py`, `market_deals_sync.py` | closes, positions of participants, large deals | a failed download looks like a holiday, rows of one exchange hide a missing day of the other, several days in one transaction | `DailyTables` |
| **KB ownership** `bt/kb/sync/*shareholding*`, `investor_holdings_sync.py`, `*corporate_actions*`, `nse_ownership_sync.py` | patterns, holders, actions, stakes | revisions of a quarter, two exchanges with opposite orders, a backfill next to sweeps | `Holdings` |
| **KB memory** `bt/kb/memory` | items, digests | a rebuild next to refreshes | `MemoryIndex` |
| **Live prices** `bt/kb/live_price.py`, `bt/ingestion/adapters/angelone_mcx.py` | token maps, negative cache, subscriptions | stale maps, callbacks of a dead socket | `LivePrice`, `LtpFeed` |
| **LLM wrapper** `bt/llm` | window of paced calls, translated conversations | callers in threads and tasks share a window | `LlmCalls`, `Conversations` |
| **Research** `bt/research` | dossiers, exposures, outcomes of signals, chat log | an agent's result arrives after a newer one, talks share a budget | `Dossiers`, `Conversations`, `Outcomes` |
| **Commodity, sentiment** | tick windows, baselines, dedup keys | a restart forgets, the topic delivers again | `CommodityShocks`, `Sentiment` |
| **Read-only routes, MCP queries, frontend, offline studies** | none of their own | none | section 14 |

What makes each one correct: ingestion delivers every filing to the enriched
topic; the worker neither loses nor reorders what it acknowledged, and trades on
a delivery once; the relay keeps the newest report of each id; the ledger records
every signal once and trades it at a price that existed; records of calls, alerts
and requests are accounted for; approved users are invited; a reset of the ledger
archives what it deletes; knowledge catches up with what is filed; signals and
verdicts can be traced to what they rest on.

Two kinds of composition are used. Worker and relay interact through a topic and
are composed in `Pipeline`. The services of sections 5 to 8 share no variable:
`MC_Services`, `MC_Markets`, `MC_Knowledge` and `MC_Reports` start them all and a
variable `focus`, chosen initially, says which one moves. Their state spaces then
add up instead of multiplying, and one run checks them all. That nothing is lost
this way is a theorem of each group (`ServicesCompose`, ...): a behaviour of the
harness is, step by step, a behaviour of each service, so what is proved of a
service alone holds in the harness.

## 2. The paper-trading ledger

`PaperLedger.tla` models the table `paper_trades` and its writers.

* A row is keyed by its **intent** (the unique key `impact_id, symbol,
  strategy`). `ledger[i]` holds status, reason, value and the *times* a price
  or a decision belongs to; prices themselves matter only as the session they
  come from. `size` is the entry notional, `value` the notional at the last mark.
* **Time** is counted in phases of the exchange's day: pre-open, early (until
  09:45, where a queued fill takes the auction open), mid, late (from 15:15,
  where cash shorts are squared off), closed. `Day(t)` and `Phase(t)` recover
  date and time of day.
* **Tasks** are `consumer`, `scan`, `mtm`, `preopen`. A step is the code between
  two awaits. What a task carries over an await is in `pc`, `work` (rows still
  to visit), `op` (the write it has decided on), `quote`, `verdict`, `tracked`.
* **Manual exits** run in the API process: read, then an update guarded by the
  row's status.

| Action | Code |
|---|---|
| `Deliver`, `AutoCommit` | `papertrade/main.py` consume_loop, consumer options |
| `Evaluate`, `EvaluateFails`, `StartActing`, `Act`, `Insert`, `EngineError` | `rules.py` evaluate_report; `main.py` handle_report; `engine.py` open_position, queue_position, record_rejected |
| `ScanStart` (then `Act`, `Insert`) | `main.py` pead_scan_loop |
| `MtmStart`, `ExpireRow`, `MtmQuote`, `FillFetch`, `FillDecide`, `FillWrite`, `Mark`, `ExitFetch`, `ExitRow`, `MtmDone` | `main.py` mtm_loop; `engine.py` expire_stale_pending, fill_pending, mark_open_positions, run_exits |
| `ProbeStart`, `ProbeRow` | `main.py` preopen_confirm_loop |
| `ManualRead`, `ManualCancel`, `ManualClose` | `api/routes/papertrading.py` manual_exit |
| `CycleFails`, `Crash` | the `except` of each loop; process death and restart |
| `Tick`, `FirstPrint` | the wall clock and the exchange |

Gates that depend on data outside the ledger (lot sizes, gap guard,
materiality, staleness of the event) are choices among the rejection reasons
the code can give at that point; `Gates` limits them to those an instance
needs. `Strategies` (section 8) models the cascade itself. The order of the guard reads (dedup read, gates, gross read, write) is
kept, because the hazards are between them. Not in this module: `pead_hedge`
rows and signal marks (both in `PaperLoops`), equity snapshots, the arithmetic
of sizes, slippage and trailing stops (a stop may hit any row that can have
one).

`TradeLifecycle.tla` is the abstract specification: a trade is recorded once,
entered at most once, finished at most once, and neither entry nor end is
rewritten. `PaperLedger` implements it under the mapping `LifeOf`.

## 3. Ingestion

`Ingestion.tla` models the process `bt/ingestion`: one loop per adapter, the
dedup stage, the publisher, the pool of body-fetch workers, the shutdown, and
what the next process finds. The process loses its memory in a crash; Redis
(`stored`, `keys`) and the topics (`raw`, `enriched`, `dlq`) keep theirs. A
step is the code between two awaits.

| Action | Code |
|---|---|
| `File` | the exchange or feed adds a row at the top of its listing (external) |
| `Poll`, `NextPage`, `PageFails`, `PageDone` | `fetch` of `adapters/nse_filings.py`, `bse_filings.py`, the RSS adapters; the paging loop |
| `Take`, `MarkSeen` | `run` of `adapters/base.py`: yield, callback, `seen_add` |
| `Look`, `PublishRaw`, `Enqueue`, `PublishNow`, `MarkKeys` | `main.py` handle_item; `dedup.py` is_duplicate, mark_seen; `kafka_producer.py` |
| `Abort` | the callback's timeout, and the watchdog that cancels a parked adapter |
| `Fetch`, `Fetched`, `FetchFails` | the body-fetch worker loop |
| `Terminate`, `PutSentinel`, `Stopped`, `Kill` | SIGTERM, `stop`, the end of the container's grace period |
| `Crash`, `CrashForgetful` | process death; the next process loads seen-ids from Redis, or fails to |

What a reader should notice in it:

* `seen[s]` is the memory of an adapter, `stored[s]` the copy in Redis. A Redis
  error is only logged, so they differ until the next restart.
* An item is published *before* its dedup keys and its seen-id are recorded.
  A crash in between publishes it again; the property is that nothing else does.
* The RSS adapters mark an item before they yield it (`MarkFirst`), contrary to
  the rule of `base.py`; articles wait in a queue in memory. Nothing is promised
  for either, so `FilingTraced` speaks of filings only.
* The result of `publish` is ignored: an item that the broker refused is in
  the dead-letter topic (`dlq`), or if that fails too, only in the log (`lost`).
* A filing without attachment has the URL of its company's page, and URLs are
  dedup keys.

Abstractions: the model covers one day, so the 48 h lifetime of the keys and the
age limit lie outside; items are told apart by the keys dedup derives from them
(`KeysOf`: URL, company and text, gist), not by their text; the circuit
breaker, rate limiter and schedule of polls only delay `Poll`; the order of
the rows of one page is free, because their attachments are fetched together.
`Abort` may strike at every await, which includes the timeouts the code has.

## 4. Analysis worker and relay

Two processes joined by the topic `analysed.impact.in`. `AnalysedTopic.tla`
holds the topic and the failures, `AnalysisWorker.tla` and `Relay.tla` extend it
with one process each, and `Pipeline.tla` composes them: a step is one of either. What
a run does between relevance and report is in `ImpactStages` (section 8).

The worker (`bt/analysis`) takes items from the enriched topic. A filing, and in
market hours everything, becomes a **run** of its own under one of
`RT_CONCURRENCY` slots; the rest gathers in `buffer`, which consumer, timer and
shutdown turn into a **batch**. A run publishes up to three events under one
report id: a skeleton ("analysing"), the report ("complete"), and the report
with its summary if that came late ("update").

| Action | Code |
|---|---|
| `Deliver`, `StartRun` | `main.py` handle_news: buffer or flush, then the wait for a slot (`hand`) |
| `Classify`, `PublishSkeleton`, `Analyse`, `Join`, `PublishFinal` | `pipeline.py`: stage1_node, filing_summary_node, stage2 to stage5, finalize_node, skip_node |
| `Finish`, `Retry`, `Timeout` | `main.py` _process_rt, _retry_stage3_later, the time budget and the `except` branches |
| `SummaryEnds`, `AttachSummary` | `filing_summary.py` summarize_filing; `pipeline.py` _attach_summary_later |
| `TimerFlush`, `Triage`, `PublishBatch` | `main.py` _batch_timer, _flush_batch; `batch_processor.py` process_batch |
| `Terminate`, `DrainTasks`, `DrainSummaries`, `StopEnds`, `Kill`, `Crash` | the end of `main.py` main; process death |
| `Take`, `CacheReport`, `Persist`, `RelayCrash` | `api/kafka_relay.py` _relay_loop, _handle_report, _persist_to_db |
| `Bell` | `market_hours.py`: the market opens or closes |

What a reader should notice in it:

* `_flush_batch` swaps the buffer out before it awaits, so an item may be in
  `buffer` or in one of three batches; `Memory` is all of these.
* Offsets are committed every second whatever became of the items. A restart
  begins at any offset between the last start and the position, because the
  model does not follow which commits went through.
* Cancelling `send_and_wait` leaves the event in the topic or not (`Cut`).
* A retry sleeps without a slot and acquires one itself before it is a run.
* The relay's rows are named by the event they come from, an index into the
  topic. `saved` remembers the events whose last delivery was stored: an event
  that is delivered again after a crash is no longer `saved` until its second
  delivery is, for its row shows what the redelivery has done so far.

Abstractions: durations (the window of the buffer, the retry's delay, time
budgets) are nondeterministic; what a report says is reduced to `impacts` (it
may name companies) and `summary`; a batch item that is escalated to a full
pipeline without a callback still yields one report, as every batch item does;
`Timeout` stands for every exception a run can raise; `_stage3_retried` never
reaches its bound of 4096. The buffer is a set: news ids are taken to be unique
(`types.py` NewsItem), and one process life to deliver an item once (section 9). Broadcasts to
browsers are not kept anywhere.

## 5. Services

`MC_Services.tla` starts the modules of this section, and of `Metering` both parts.

**`Metering`**: how a worker's model calls and alerts become rows. A call is logged
and counted against an hourly budget; breaches that recur, and critical
conditions, raise an alert, at most one of a kind per cooldown. Both are pushed
on capped Redis lists, which the API drains in batches.

| Action | Code |
|---|---|
| `LogCall`, `AlertNow`, `Dispatch`, `WorkerRestarts` | `analysis/llm_logger.py` log, _push_redis; `guardrails.py` record_breach, _maybe_alert, alert_now, _emit, _dispatch |
| `Pop`, `Insert`, `Requeue`, `ApiRestarts` | `api/flushers.py` _drain_queue, stop_flushers |

Its second part is the request log (`api/request_log.py`): `Enqueue`, `TakeBatch`,
`StoreBatch`, `StopRecorder` (cancels wherever it is), `RecorderGone` (the final
batch).

**`Provision`**: workers that turn approved requests into accounts
(`onboarding/provision_worker.py`): `Approve` (external), `Pull`, `NextRow`,
`LookUp`, `CreateAccount`, `SendMail`, `MarkProvisioned`, `StepFails`,
`WorkerDies`. The loop and a run by hand may overlap. `StepFails` leaves it open
whether the step took effect.

**`Accounts`**: changes by admins and the permission cache.

| Action | Code |
|---|---|
| `PatchBegin`, `CountOthers`, `CommitPatch`, `InviteUser`, `SetUserFeature` | `api/routes/admin.py` patch_user, invite_user, set_user_feature |
| `Invalidate`, `ReadRow`, `ReadFeatures`, `WriteCache`, `Expire` | `api/auth.py` invalidate_authz, _load_authz_db, load_authz |

A statement sees what was committed when it began; a transaction holds the lock of
the row it changes and of no other.

**`LedgerReset`**: archive and clear (`admin.py` paper_reset) while papertrade
writes: `WriteRow`, `ResetBegin`, `Execute` (one statement), `CommitReset`,
`RollBack`. A row is a number and a version; a deletion locks what it takes.

**`Transcripts`**: concall PDFs (`kb/sync/transcript_sync.py`): `Announce`,
`Start`, `Fetch`, `Store`, `StoreInterrupted`, `Annotate`, `StoreStub`,
`ReadLetter`, `Follow`, `JobDies`, for a watcher and four kinds of run by hand.

**`KbSync`**: quarterly results (`kb/sync/pipeline.py`, `monitor.py`):
`PublishXbrl` and `ListEvent` (external), `WeeklySweep`, `ManualSweep`,
`SweepCompany`, `EndSweep`, `FailSweep`, `CheckDue`, `SyncDue`, `MarkDue`,
`NextDay`, `MonitorDies`. A sweep keeps one transaction open over a batch of
companies. Besides errors of the moment, which are faults, there are companies
whose filing never passes (`Failing`): as long as it is not flagged, each sweep
takes it up, fails, and rolls back whatever the transaction holds of others.

## 6. Markets

`MC_Markets.tla` starts these seven.

**`PaperLoops`**: two loops of `papertrade/main.py`. `hedge_loop`: `ReadPead`, `ReadHedge`,
`Quote`, `CheckGross` and `InsertHedge` (whole lots), `ReadRows` and `CloseRow`
(whole rows, newest first), `CycleDies`; `BookMoves` stands for every other
writer of the book. The open hedge rows are a function from ids to notionals.
`CheckGross` works out the order of all missing lots and refuses it whole when it
does not fit under the cap; the gross it reads is that of the book and of its hedge.

`marks_loop`, what the price did after a filing: `Capture` (t0),
`Acknowledge`, `TakeDue`, `Record`, `CrashOfMarks`, `RestartOfMarks`
(`_rebuild_mark_queue`), `Tick`.

**`LivePrice`**: token maps (`kb/live_price.py`): `Begin`, `LoadCached`,
`ResolveNext`, `Search`, `Download`, `DownloadEnds`, `Swap`, `GrowOld`,
`BenchEnds`; requests overlap with each other and with the download. A lookup ends
in a hit, a clean miss, which is benched, or an error. Errors are faults of the
network, and for a symbol whose rows match nothing exactly (`Lookalikes`) the answer
in every request. A request compares benches with the time at which it began, so
what was benched then it skips to its end (`skips`); benches end any number of times.

**`LtpFeed`**: the tick feed on demand of the browsers.

| Action | Code |
|---|---|
| `Ask`, `Leave`, `KeepAlive`, `DemandLapses` | `api/routes/websocket.py`; `api/ltp_relay.py` |
| `Login`, `PublishSession`, `RefreshScrip`, `OpenWebsocket`, `SocketGone`, `Relogin`, `BackOff` | `angelone_mcx.py` _run |
| `SocketOpens`, `ForgetSubscriptions`, `SocketDies` | `_on_open`, `_on_close`, in a thread of their own |
| `ReadDemand`, `AddStocks`, `DropStocks` | `_equity_subscription_loop` |

**`LlmCalls`**: the pacer (`llm/wrapper.py`): `Reserve`, `CallEnds`, `CallAgain`,
`AskModel`, `LlmClock`.

**`CommodityShocks`**: the detector (`commodity/detector.py`) behind a topic:
`Ticks`, `Evaluate`, `Emit`, `Commit`, `Rebalance`, `EngineRestarts`. Whether a
move is large is left open once there are prices enough to tell.

**`Sentiment`**: from a prediction market to signals: `Poll`
(`adapters/polymarket.py`), `Classify` (`sentiment/main.py`, `classifier.py`), `Bridge`
(`sentiment/snapshot_consumer.py`, `impact_bridge.py`, `analysis/signal_gates.py`),
`Send`, `WorkerStarts`.

**`DailyTables`**: what the monitor loads when a day is over, each in a loop of its
own that wakes at its hour.

| Action | Code |
|---|---|
| `StartDaily`, `StartByHand` | `kb/sync/monitor.py` price loops, `pipeline.py` sync_all and the command line |
| `CheckDay`, `FetchDay`, `InsertDay`, `CommitDays` | `pipeline.py` sync_prices and sync_bse_prices, `prices_sync.py`: the days newest first, a count of rows, the download, the insert, a commit every few days or at the end |
| `SyncOi`, `SyncDeals` | `participant_oi_sync.py`, `market_deals_sync.py` |
| `MonitorRestarts`, `DayOver` | `monitor.py` run_monitor; the clock |

A company counts by kind (kept under NSE, kept under BSE but listed on both, on BSE
only), and `closes[d][k]` is the exchange whose file gave the rows of that kind
their close of day `d`, since `ON CONFLICT DO NOTHING` lets the first one stay. A run
that failed for a day is remembered in `gaps`, which is what the properties except.
Abstractions: the jobs of an evening are over before midnight; the bulk and block
list of an exchange are one list, which fails as a whole; what is loaded by hand is
the file of NSE.

## 7. Knowledge

`MC_Knowledge.tla` starts these five.

**`Dossiers`**: an agent researches a company and saves its dossier in three
transactions (`research/dossier_agent.py`, `research/db.py`): `Reports`, `Night`
(`monitor.py` refresh_stale_dossiers), `CliRun`, `Research`, `SaveDossier`,
`DeleteRows`, `InsertRows`, `Fails`.

**`MemoryIndex`**: items of events and digests (`kb/memory`): `Arrives`, `Ages`,
`Fetch`, `Compare`, `UpsertItems`, `Prune`, `RunFails`, `BeginDigests`,
`WriteDigest`, for the monitor's refresh and a rebuild.

**`Guidance`**: statements of managements and the ledger that scores them:
`WatchBegins`, `BackfillBegins`, `ResultStored`, `ExtractAndDelete`, `InsertItems`,
`ExtractionFails` (`kb/sync/transcript_guidance.py`, `transcript_sync.py`),
`ScorerStep`, `ScorerFails` (`guidance_ledger_sync.py`: load, compare with the
results, write), `TimeGoesOn`.

**`Conversations`**: the research chat and the exposure agent with a model that
calls tools: `Ask`, `ResearchPair`, `Reply`, `Malformed`, `ModelError`, `RunTool`,
`LogAnswer`, `WriteBeta`, `WriteExposure` (`research/chat_engine.py`, `agent.py`,
`llm/wrapper.py`). A history is a sequence of messages with their parts; the
wrapper's translation for the other provider is an operator on it.

**`Holdings`**: who owns a company, as it submits it every quarter.

| Action | Code |
|---|---|
| `Submit`, `Declare` | the company files a pattern, announces an action (external) |
| `OpenListing`, `SkipCompany`, `AbortSweep`, `NextStage` | the sweeps of `monitor.py` and of the command line, their loops over companies and their errors |
| `ReadSubmission`, `UpsertPatterns` | `nse_shareholding_sync.py`, `bse_shareholding_sync.py`, `investor_holdings_sync.py` upsert_holdings |
| `UpsertActions` | `nse_corporate_actions_sync.py`, `bse_corporate_actions_sync.py` |
| `ReadOwners`, `WriteEdges` | `nse_ownership_sync.py` run |
| `StartBackfill`, `CopyHolders`, `BackfillStops` | `investor_holdings_sync.py` backfill |
| `MonitorStops` | a restart of the monitor |

A submission is its number in the order of filing. `visit` is what a sweep carries
while it reads one listing: how far it is and what it keeps for each quarter. A
listing grows while it is read, and revisions are submissions of one quarter. In
`MC_Knowledge` the companies of one exchange move at a time (two values of `focus`),
because sweeps of the two exchanges share the backfill only. Abstractions: the two
universes are disjoint; the feed of corporate actions is read and stored company by
company; the window of BSE's index and the sweep by hand of BSE are left out.

`Positions.tla` has the operators by which `Conversations` and `ImpactStages` say what
a list comprehension, `sorted` and `max` of the code return: the elements of a sequence at
a set of positions (`Those`), and positions by a weight, equal ones in their order
(`Ranked`). `SelectSeq` and `SortSeq` of the library are not used there: the first
is recursive, so that nothing can be proved of it, and the second says nothing of
equal elements, whereas the sorts of Python are stable.

## 8. Reports

`MC_Reports.tla` starts these five.

**`ImpactStages`**: what a run of the worker does between relevance and report:
`Delivered`, `Relevance`, `Extract`, `Route`, `Score`, `PricedIn`, `Propagate`,
`Signals`, `Finalize`, `CutOff` (`analysis/stages`, `pipeline.py`). The runs here
are of one item delivered more than once, because the registry of stage 3 is kept
by the item's id.

**`Strategies`**: the cascade of gates of `papertrade/rules.py`: `ReadReport`,
`Judge`, `Raises`, `Conclude`, `TimePasses`. `PaperLedger` leaves the verdict
open; here it is decided.

**`BseResults`**: the evening's scan and the weekly sweep of BSE documents
(`kb/sync/bse_financial_results.py`, `research/pead_signals.py`): `StartRun`,
`ReadIndex`, `FetchDocument`, `HalfYearGate`, `UpsertResult`, `ComputeSurprise`,
`CommitResult`, `MonitorCrash`, `DayEnds`.

**`Outcomes`**: `Tomorrow`, `SyncDay`, `FillGap`, `PeadSignal`, `Evaluation`
(ingest, read closes, write), `EvaluationFails`, `AskWhy`, `NoteWhy`
(`research/score_signals.py`, `monitor.py`).

**`Classification`**: by what a route or an agent decides.

| Action | Code |
|---|---|
| `FetchFeeds`, `UpsertRows` | `kb/sync/market_state_sync.py` fetch_feeds, upsert_rows |
| `ComputeTypes`, `WriteTypes` | `kb/sync/company_type_sync.py` |
| `Look`, `ReadState`, `StoreProfile`, `TakeVerdict`, `DropProfile` | `kb/api.py` get_company, `kb/sync/utils.py`, the router of stage 3, `grounding/queries.py` |

## 9. Runs and bounds

Each configuration allows a final state in which the bounds are used up, hence
`CHECK_DEADLOCK FALSE` throughout: the ledger's clock stops at `EndTime`, ingestion
rests when everything is listed and read, worker and relay when their topics are,
and each service when its days, requests and faults are spent.

| Run | Instance | Checks |
|---|---|---|
| `crash` | two reports, one symbol, one user, one fault, mid to late | `TypeOK`; `ConsumerConcentration`: the consumer holds at most one live position per symbol and strategy; `ImplementsLifecycle` |
| `tasks` | scan and mark-to-market, three surprise rows of two symbols, room for one entry, a holiday | `OvershootBounded`: the check-then-insert overshoots the cap by at most one entry per other entering task; `NoPhantomEntry`: an entry is priced in the session it happens in, after its symbol traded |
| `day` | one event with a short and an order win, probe, one session, fair | `AuditComplete`: when the consumer asks for the next message, all intents of the reports it has taken have rows; `CashShortsFlatten` |
| `ingest` | three adapters, one document on both exchanges, an unwanted row, two articles; one failure of any kind, fair | `FilingTraced`: a filing marked as seen is on a topic or in the log; `KeyEndsCopies`: once a key is recorded only copies in hand are published; `FirstPageFilingsTraced` |
| `pipeline` | an article and then a filing or an article that stage 1 sorts out; one slot, batches of two, one bell, one failure of any kind, fair | `SlotsConserved`; `Accounted`: a consumed item has a report, a line in the log, or was in memory; `OneVerdictPerDelivery`: one delivery is traded on once; `NewestReport`, `AuditTrue`: what the tables show; `EveryItemLeaves` |
| `services` | section 5, fair | `RecordsKept`: calls, alerts and requests are accounted for, and a breach that recurs is answered; `NobodyForgotten`; `StaleExplained`: a cached permission that differs from the tables has an invalidation to come or a named cause; `LastAdminRace`: the last admin goes only through two changes that counted each other; `ArchiveComplete`; `QueuesServed`: one document does not block the others; a company that has filed gets its results, unless a company that always fails comes after it in its batch week after week |
| `markets` | section 6, fair | `HedgeAfterCycle`; `HedgeSettles`: the hedge comes to rest within the tolerance, or too small while the cap refuses the lots that are missing; `MarkOnTime`; `AskersServed`: a listed symbol that requests can reach gets its token, a stock in demand its stream; `RatesKept`: paced calls per minute, shocks per cooldown; `SignalEarned`: a signal follows a large recent move, once per window; `DaysAccounted`: the tables of a day are filled, unless a failure says why not |
| `knowledge` | section 7, fair | `TalkSound`: the provider gets its own words back, an answer cites what was looked up; `BudgetOvershot`; `StaleRefreshed`, `RecentIndexed`, `LedgerConverges`; `HoldingsTraced`: patterns, holders, stakes and actions are those of the submission that counts |
| `reports` | section 8, fair | `ReportAccountable`: one impact per company, each with its source, a failed scoring says so; `IntentsAccountable`: each strategy that a direct impact concerns leaves one intent, live ones within their gates; `QuarterSound`: results and surprises of a quarter whatever scan and sweep do; `StateTraceable`; `OutcomesSettle` |
| `notices`, `duplicate`, `last_admin` | the smallest that show it | counterexamples, see section 12 |

Some properties are conjunctions of one property per module, so that a run with
several modules asks one question of each group: `RecordsKept` is `EntriesKept`,
`BreachAnswered` and `OneFate` (the three parts of `Metering`); `QueuesServed` is
`QueueMoves` and `NewCompanyFilled`; `RatesKept` is `PacedWithinLimit` and
`ShocksSpaced`; `AskersServed` is `ListedGetsToken` and `DemandServed`; `TalkSound` is
`HistoryAccepted` and `AnswerGrounded`; `QuarterSound` is `ResultsKept` and
`SurpriseSound`; `StateTraceable` is `FeedsKept` and `VerdictHeld`; `DaysAccounted` is
`ClosesTrue`, `PricesAccounted`, `OiAccounted` and `DealsAccounted`; `HoldingsTraced` is
`PatternsTraced`, `RevisionsKept`, `HoldersTraced` and `OthersTraced`. The type invariants
of ingestion, of worker and relay (`TypeCorrect`, section 11) and of the services
(`ServicesTypeOK`, ...) are stated and were checked; but for the ledger's they are not
properties of the runs, and theorems cover most of them. So were the inductive
invariants of the proofs, which TLC checked on these instances first.

Bounds of the ledger. Two signals of one key class are enough for every race
between two writers of one row or of one position; three rows let a scan hold two
rows of one symbol and one of another. Two or three days cover a night, a holiday
and the holding periods, which are scaled to one or two sessions. One fault covers
each single failure and each single restart at every point. `Drift` is zero in the
runs; the theorem is for any drift.

In `ingest` a BSE page has one row and a cycle two pages, so that there is a
page after the first, a last page and a cap; the queue holds one item, so that
the second article finds it full; one worker is enough for the queue to be both
full and drained while an adapter is at each of its steps. A day files one of
three batches: a document twice plus another filing, a filing plus an
unwanted row, or two articles. One failure covers each single failure at each
step; two of them would be a Redis error during a shutdown, whose parts are
both covered.

In `pipeline` one slot makes the consumer, a retry and a second item compete;
runs share nothing but slots, topic and `retried`, so that a second slot adds
interleavings of independent steps. Two items fill a batch or leave one in the
buffer when the filing arrives; the bell, once, separates the skeleton, the
join and the late summary. One failure covers each single failure, cancellation
and restart of either process at every step.

In the four groups each service has its own small instance. The values are the
least at which its races exist:

* two workers, two admins, two sessions, two chats, two runners, two routes of a
  report: every race here is between two;
* one or two failures, crashes or restarts each (`Max...Faults`), at every step;
  two where one failure is needed to reach the state in which the second matters
  (`Metering`, `Provision`, `PaperLoops`, `BseResults`);
* windows and lifetimes of one to three ticks, with a clock that goes one or two
  beyond the longest of them, so that everything expires once and can be renewed;
* caps of one or two (`ListCap`, `QueueMax`, `NightlyCap`, `RpmLimit`), with one
  more claimant than fits;
* histories (`MaxEvents`, `MaxTicks`, `MaxPolls`, `MaxSaves`) as long as it takes to
  fill a cap or a window twice; these bounds are guards of the actions, and no
  theorem depends on their values.

The two services added last have instances of their own kind. `DailyTables` has a
calendar of a Friday after a holiday, the weekend and the Monday, with thresholds of
the repository's size, because the arithmetic of the threshold is what decides
whether a day is looked at again. `Holdings` has one company of each exchange; the one of NSE revises its only
quarter with other holders, the one of BSE does so and goes on to the next
quarter. In `services` one company fails in every sweep and the other does not. In
`markets` the cap on the gross exposure admits the hedge of a small book and not that
of a large one, so that a cycle ends in either way; a request names four symbols (two
listed, one delisted, one with lookalikes) and has two lookups. `markets` has 628 359
distinct states, `reports` 563 234, `services` 521 012 and `knowledge` 111 048; each
run ends within four minutes.

Where an instance or an action is narrower than the code:

* `Ingestion` takes the item itself as its seen-id. The id of an NSE filing is made of
  category, symbol and second (`adapters/nse_filings.py:152`), so two filings of one
  company and category in the same second share it, and the later one is not taken.
* `AnalysisWorker` has inboxes without repetition: the id of an item is its adapter's
  uid, and one that is published again after a crash comes twice. What a process
  life does with a second copy is not checked (nor used by the proofs);
  redelivery after a restart of the worker is.
* `PaperLedger`: `Mark` writes the marks of a symbol's rows in one step, the code
  row by row (`papertrade/engine.py:554-563`); `hedge_loop` is not among the tasks
  that open positions. In the run `day` no fault happens, and it ends with the
  first session: intents lost to errors and exits after a night without service
  are left to the safety properties of `crash` and `tasks`.
* `PaperLoops`: a symbol without a quote (`papertrade/main.py:511`) is not told apart
  from a failed request for quotes, which gives up every follow-up that is due.
* `CommodityShocks`: `CommitLag` bounds how far the ticks taken run ahead of the
  commit, as they do for a consumer that keeps up. After an outage it may be more.
* `LivePrice`: errors of the network are bounded by `MaxPriceFaults`; one that hits
  every search keeps a symbol out, and nothing is claimed of it.
* `Dossiers`: `MaxDossierFaults` is one. Companies at the head of the queue whose
  research fails every night, as many as the cap, would hold up the others.
* `Strategies` runs with the commentary gate in its default, "shadow"; `Outcomes` with
  `IngestDays` 0, so that a nightly run takes up the signals of its own day only.

Symmetry is not used: most instances have named actors with different roles.

Each property is paired with a mutant, a plausible bug in one definition
(`..._NoCap`, `..._Unguarded`, ...), which TLC must find to break it.

## 10. Fairness

In `day`, `Scheduling` is weak fairness of the task bodies: the
event loop resumes a coroutine whose await has ended, and every await in these
bodies has a timeout (HTTP client, asyncpg, Redis). Starting the pre-open probe
and crashing are never fair. `QuotesRecover` is strong fairness of quote
answers per symbol: a symbol that is asked for infinitely often is answered
infinitely often. Without it an exit may wait for ever, and does: the code
leaves a row without a quote for the next cycle. It cannot be weaker, since a
missing quote disables nothing. `Tick` is fair until `EndTime`.

`Tick` waits for bodies that began in the current phase. Awaits are bounded by
seconds and a phase is at least 15 minutes, so a body may cross one boundary
but not two. Starts are not bound to the clock, so an exit due in the last phase
is guaranteed only because the cycle starts again within the phase.

In `ingest`, `FairSpec` is weak fairness of each adapter (its loop polls again
after a sleep, and each await has a timeout), of each worker, and of `Kill`: a
container that is told to stop is gone when its grace period ends, however long
`stop` takes. Failures, filings and terminations are never fair, and sentinels
need not be.

In `pipeline`, `FairSpec` is weak fairness of `WorkerProgress` as a whole: the
event loop of the worker does not rest while one of its tasks can go on, because
every await in them has a time-out or is an HTTP call with one. Nothing is said
about which task goes on. The relay, deliveries, the bell and failures are
not fair. That is enough because each item passes finitely many steps, and a
retry happens once.

In the groups only weak fairness is used, of the service that moves:

| Group | Fair | Why |
|---|---|---|
| services | each step of the transcript watcher; the start of the weekly sweep; a sweep's steps | endless loops with sleeps, requests and statements with time-outs |
| markets | the steps of `hedge_loop`; per caller, the steps of a request for tokens; keep-alive, the alignment of subscriptions, the end of each socket's `_on_open` | loops with sleeps; a request runs to its end; callbacks return |
| knowledge | the night; each research task; the monitor's refresh and digests; the nightly scorer | loops of `kb/sync/monitor.py`, agents with turn limits |
| reports | the next day, the price sync, the nightly evaluation, a run by hand that began | loops of `kb/sync/monitor.py` |

Failures, crashes, downloads of the scrip file, logins, manual runs that have not
begun, and whatever comes from outside are never fair. `DemandServed` speaks of a
socket that stays open. `ListedGetsToken` speaks of a symbol that requests reach again
and again (`GetsAsFarAs`): with more lookups than there are symbols ahead of it whose
lookup can give nothing. Nothing makes such requests come, and without them a symbol
may wait for ever (section 12). Nor does anything in the code keep a company that fails
from following another in its batch, since the order is that of market caps, so
`NewCompanyFilled` says that this is the only way to stay empty, not that it is rare.

## 11. Proofs

All theorems are for every value of the constants that the named assumptions of
the modules allow. `SequenceLemmas.tla` holds what several proofs need:
sequences as sets, suffixes, ascending sequences, sums over finite sets, what
`Ranked` and `Those` return (`RankedIs`, `ThoseAre`, `ThoseDiffer`), and that a flattened
sequence has the elements of its parts (`FlattenType`). No
library theorem is used that takes an operator, so induction is done by the
least counterexample: `LeastNumber` (a set of numbers that is not empty has a least
element), and from it that `Ranked` has a value at each position (`RankedIs`), that
`SumFunctionOnSet` is what its recursion says
(`PartsDefined`), can be taken apart (`SumWithout`), compared (`SumWithin`) and
bounded (`SumAtMost`).

### The ledger

`PaperLedger_proofs.tla` assumes well-formed intents, unique keys, surprise
rows that are `pead_long`, and one impact per report.

* `TypeCorrect`: `TypeOK` is inductive as it stands.
* `LedgerImplementsLifecycle`: initial states map to initial states; each
  ledger step changes one row by one abstract action, except `Mark`, which
  moves `value` only and stutters. It needs `RowShape`: a row that was never
  entered has no entry, and one not finished has no end.
* `ConcentrationHolds`: `ConsumerConcentration` is not inductive. The
  strengthening says that the intents in hand belong to one event (`OneEvent`,
  so that by the unique key no two of them are the same position), that an idle
  consumer holds nothing (`IdleClean`), that an entry decided by the consumer
  passed the rules (`EntersPassed`), that the scan handles surprise rows only
  (`ScanOnlySue`), and that a `pass` verdict still implies no other live
  position among the consumer's rows (`PassAlone`): nobody else creates those.
* `NoPhantomEntryHolds`: an entry price comes from a quote with today's `open`,
  taken by the body that decided the entry, in a body that began no more than
  one phase ago (`TaskFresh`, eight parts on decided writes, quotes, print
  times and the session).
* `OvershootBoundedHolds`: the invariant `GrossInv` is on a sum. What the open rows
  are worth at least, however they were marked, plus what the tasks on their way
  to an entry want, is at most the cap and one largest entry for every entering
  task but one. A task that passes the cap's read has seen more than what the
  rows are worth at least, and the others want at most an entry each; an entry
  moves its notional from the second summand to the first; a mark moves a value
  within `Drift`, which the first summand has allowed for. The theorem is for any
  notionals, drift and number of rows.
* `AuditCompleteHolds`: an intent of a report that was taken is recorded or still
  in the consumer's hands (`AuditInv`), and the table loses no row (`RowsStay`). The
  property excepts executions with a fault, because offsets are committed before
  the rows are there: a crash after an early commit does lose the report's
  intents.

### Ingestion

`Ingestion_proofs.tla`, for all adapters, listings, texts, key collisions, page
sizes, workers, queue sizes and any number of failures.

* `TypeCorrect`: `TypeOK` with `HandlersHold`, which says that an adapter inside
  `handle_item` has an item in hand. `TypeOK` alone is not inductive:
  publishing needs the item to be one.
* `FilingTracedHolds`: `FilingTraced` follows from what each store may hold.
  `KeysTraced`: a key in Redis belongs to an item that was published or logged,
  or that is an article (which may still be queued). `HandledTraced`: a
  handler past `PublishNow` holds a traced filing, and so does one that dedup
  sent straight to the mark. `StoredTraced`: so does each seen-id in Redis,
  which is what a restart loads. The step that matters is `Look`: a duplicate
  is marked seen because of somebody else's key, and the trace is then that
  item's.
* `KeyEndsCopiesHolds`: an action property, so what is proved is one step from any
  state with correct types. A copy of an item is in a handler past the look-up,
  in the queue or with a worker, and three finite sets count them. Appending adds
  one place of the queue (`PlacesAppended`); taking the head moves the others up,
  which a bijection shows (`PlacesMoveUp`). Every step that adds a copy to one of the
  three, or publishes it, takes it from another, except `Look`, which passes only
  an item none of whose keys is recorded. That the sentinels are not items
  (`MarkerAssumption`) is what keeps `PutSentinel` out of the count.

### Worker and relay

`Pipeline_proofs.tla`, for all inboxes, numbers of slots, batch sizes, bells and
failures.

* `TypeCorrect`: `WorkerTypeOK` and `RelayTypeOK` are inductive together. The
  relay's rows are places in the topic, which only grows (`TopicGrows`).
* `NewestReportHolds`: the worker's half is `Trace`. The ids in the topic are
  among those given out; a run has published nothing before its skeleton, and
  nothing but that before its report (`RunQuiet`); a late summary has not been
  published, and its report says what the run found (`LateQuiet`); no two runs
  share an id (`OwnIds`). So each new event fits behind those of its report
  (`Ordered`). The relay's half is `RowsFollow`: a stored event has a row of its
  report, from the same or a later event once the relay is through with
  it, also through redelivery.
* `AuditTrueHolds` rests on `Ordered` as well: the first complete event is the
  one audited and a later one overwrites the report, which is harmless because
  both show the same impacts. `SummaryKeptHolds` is inductive with types.
* `SlotsConservedHolds`: free slots and runs at work add up to `Slots`, by the
  library's facts about cardinality; `OwnIds` is what keeps two runs from
  becoming one element of `runs`.
* `AccountedHolds`: no step takes an item from report, log, memory and `lost`
  without putting it in another of them. It needs `Placed`: a flusher at rest
  holds no items (or the next swap would drop them), the consumer's batch
  is worked on only while its hand waits, and a run that says "sent" has a
  report.
* `OneVerdictPerDeliveryHolds`: the property compares a count of events with a
  counter. The invariant `ClaimsCounted` compares with it the set of **claims**
  of an item: its verdicts in the topic, the runs that may still give one, and the
  places where it waits (buffer, batches, the consumer's hand). A claim is tagged
  with its kind, so that the union counts each once. Every step keeps the claims or
  exchanges one for another (`OneForAnother`), and only a delivery adds one. Here
  lie the three hazards: a buffer that is swapped out moves as a whole, a retry
  may judge only if its first try did not, and a batch that is interrupted gives up
  what it has sent.

### Services

`Services_proofs.tla`.

* `RecordsKeptHolds` combines three. `EntriesKept`: the entries of each queue are
  counted by copies on the list, in the flusher's hands and in the table
  (`QueueSound`), and each step moves a batch from one to the next, duplicates it
  where a commit was taken for a failure, or loses it where a cap, a crash or an
  error says so. `BreachAnswered`: the last breach of a kind that recurred lies
  within the cooldown of an alert (`LatestAnswered`). `OneFate`: events wait in the
  order of their numbers and are either open or settled (`FateOpen`).
* `NobodyForgottenHolds`: what a worker has behind it at each step, and accounts
  and mails only come to be.
* `StaleExplainedHolds`: a lookup after its first statement knows the account
  as the table has it, and after the second the switch as well, unless a change
  overtook it (`LookupsExplained`); changes hold the rows they locked and read.
* `LastAdminRaceHolds`: an action property, from `OthersCounted` and the fact that
  only a commit demotes.
* `ResetTypeCorrect`, `ArchiveCompleteHolds`: what a deletion would take has been
  copied by the statement before it (`CopiedFirst`), what it took is saved and
  locked (`DeletedSaved`), by one transaction only (`LocksApart`).

### Markets

`Markets_proofs.tla`.

* `RatesKeptHolds`: the window of the pacer is the end of what was paced and what it
  forgot is a minute old (`WindowSound`); from a call to the one that comes `RpmLimit`
  later lies a minute (`Spaced`), which bounds the calls of any minute; a caller
  that gives up was overtaken by a whole minute's worth of others (`GivenUpLate`).
  For shocks, as many prices on the grid as make a volatility span more time than the
  cooldown, so a restart that forgets the cooldown cannot fire early
  (`SamplesAreOld`).
* `MarkOnTimeHolds`: what waits is due as its name says and not overdue, and what
  has a t0 is followed.
* `HedgeAfterCycleHolds`: what an undisturbed cycle has read is still so
  (`CycleKnows`), the order that passed the cap is for the lots that are missing
  (`OrderKnown`), lots are within half a lot of that (`LotsNear`), and closing a row takes its notional off the sum (`WithoutRow`).
* `SignalEarnedHolds`: each item, snapshot and signal on its way rests on a reading
  of the last hour that moved far enough; keys in Redis say when a pair was
  signalled. It assumes a base magnitude of 3 at most, as the price themes of
  `sentiment/taxonomy.py:80-119` have: from 4 on, a first reading without a move is
  signal enough, and the statement is false.
* `DaysAccountedHolds`: the property speaks of evenings whose jobs are over, so the
  invariant (`TablesInv`) has to speak of a run that is not: every day in its reach
  is still ahead of it, in its transaction, in the table, or among the failures
  (`Reaches`). A run takes its days newest first, which needs the newest of a finite
  set (`MaxDay`). That a day passed over by its count of rows is not a gap
  rests on two facts: a file brings its own companies before any that both exchanges
  list (`FilesWhole`), and what NSE prices too does not fill the threshold of
  BSE (`TablesAssumption`; with the fixed number the code once had, the mutant,
  it did). The proof is for any calendar of holidays, any windows,
  thresholds and intervals between commits. It found an error in the model: the
  monitor asks for the positions of the day before when it starts
  (`kb/sync/monitor.py:764`), so a restart at a weekend may load a Friday that no
  evening asks for; the model left that out, and the property said "no such day".

### Knowledge

`Knowledge_proofs.tla`.

* `ConversationTypeCorrect`; `BudgetOvershotHolds`: what is spent in a month, plus
  what the open talks may still spend, exceeds the budget by at most the turns of
  all talks (`Within`), because each passes the check while the others are open.
* `TalkSoundHolds`: what is sent to a provider is its own words with their signatures
  and, after them, one answer for each of its calls, under its name and in its
  order; and an answer cites only what a tool has returned, in the order of first
  mention. The invariant (`TalksHold`) relates the history kept by the code to what
  the model said. `Heard`: the messages of turn `n` are the blocks of the `n`-th reply
  (`Spoken`) and a result for each of its calls (`AnswersFirst`). `AtTools`: in the
  middle of a turn the results so far answer the first of its calls, and the calls
  left are the rest. `Refs`: the references issued are those of the results, each
  once, numbered over the turns. That a result finds the name of its call needs the
  calls of all turns to have different ids (`CallsDiffer`, `NamedAs`); that nothing
  of a reply is lost, that a block kept by the wrapper is one the provider wants
  back (`SpokenReplayed`).
* `HoldingsTracedHolds`: the invariant (`HoldingsInv`) says what a visit knows while
  it reads (`VisitSound`): for each quarter, of the part of the listing that it has
  seen, nothing readable is newer than what it keeps (BSE), or older (NSE), and whom
  the submission names has a row already or could not be written (`KeptSound`). When
  the listing is read, `UpsertPatterns` hands that to the table. Rows only
  change into rows of another submission of the quarter that names the holder, so
  that a backfill or a second sweep cannot take from a pattern what it rests on. The
  proof is for all companies, listings and sweeps that overlap.

### Reports

`Reports_proofs.tla`.

* `ScoringToldHolds`, `StagesTypeCorrect`: of runs of one item that overlap. A run
  that is marked as alone is the only one in flight, and what is stashed under the
  item is then its own record, failed or not (`StagesInv`, `Stashed`): as soon
  as a second delivery comes, neither is alone, and nothing is claimed of the
  record a report takes.
* `ReportAccountableHolds` adds the impacts. The invariant (`ImpactsInv`) says what
  each stage hands to the next: after stage 3, at most one impact for each company,
  each on a company that was to be scored (`Direct`); after stage 4, still one for
  each, the others with an impact of the hop before and an edge between the two
  (`Traced`). The lemmas are about the operators: an answer of the model yields one
  impact for each company even where it names one twice (`ScoredIs`), the priced-in
  downgrade leaves as many, of the same companies (`DowngradedIs`), the best of
  a company's candidates is one of them (`BestEachIs`), and a second hop starts from
  impacts of the first that stay in the report (`SpreadIs`).
* `IntentsAccountableHolds`: each pair of impact and strategy that is through
  has left its intent, or none if it is not concerned (`Accounts`), each intent
  is lawful by itself, and the cached percentile was true at its time.
* `QuarterSoundHolds`: a document's figures are stored, still before a run
  of the day, or lost to as many faults as there were days with a run
  (`KeptMoves`). The proof assumes `ScanDays <= SweepBack`, as
  `kb/sync/monitor.py:398` and `:442` have it. Proving it found a gap in an earlier
  statement: when scan and sweep overlap, one run may store a half-year
  after the other has stored the quarter and passed its gate. The model keeps that
  history (`mingled`), and the property excepts exactly these documents.
* `StateTraceableHolds`, `ClassificationTypeCorrect`: a row is the merge of the
  readings of its day (`RowMerged`), and what a reader holds was held by the tables
  at a recorded time no longer than a profile's life ago (`ReadersInv`).

### Composition

`ServicesCompose`, `MarketsCompose`, `KnowledgeCompose` and `ReportsCompose`:
a behaviour of a harness is one of each of its services (for `MarketsCompose`, of
the six that have a theorem). `RecordsKept` and `RatesKept` are stated of
the harness and use it; `QuarterSound` and the others are stated of their module.

### Only model-checked

* Liveness, which needs fairness: `CashShortsFlatten`, `FirstPageFilingsTraced`,
  `EveryItemLeaves`, `QueuesServed`, `HedgeSettles`, `AskersServed`,
  `StaleRefreshed`, `RecentIndexed`, `LedgerConverges`, `OutcomesSettle`.
* The counterexamples of section 12.

Every safety invariant of a run that passes is the statement of a theorem.

## 12. Where code and comments disagree

Three runs show a counterexample; `PROJECT.json` quotes the sentences.

1. `duplicate`: two surprise rows of one company in one scan become two live
   positions (`papertrade/main.py:176`).
2. `notices`: two notices of one company without attachment have one URL, hence
   one dedup key; the second is never published (`adapters/nse_filings.py:238`).
3. `last_admin`: two admins who demote each other at the same time leave nobody
   (`api/routes/admin.py:224`).

Further observations, made while modelling. No run is about them, but the models
contain the behaviour, and the properties are stated so as to allow it.

| Code | What a comment says | What the code does |
|---|---|---|
| `papertrade/engine.py:289` | `:54` total open notional "may never exceed" the cap | the sum is read, then the row inserted, with no lock (`OvershootBounded` states the true bound) |
| `papertrade/engine.py:57`, `main.py:130` | a hedge keeps the book covered | with the default cap no lot of the hedge fits under it; an order that is too large is refused whole, and fewer lots are not tried (`CapForbids` in `HedgeSettles`) |
| `papertrade/main.py:83` | `engine.py:110` a fill at a price from before the news would be "an impossible price" | a signal queued in the session for want of a quote, before 09:45, is filled at an auction price older than itself |
| `papertrade/engine.py:584` | `api/routes/papertrading.py:381` the pilot never fills at a stale price | exits have no counterpart of the entries' print check |
| `adapters/bse_filings.py:309` | "everything older is seen too" | after a cycle broken off between two pages it is not |
| `README.md:102` | every item is published exactly once | publish and mark are two steps, and a crash between them publishes again |
| `analysis/main.py:311` | "Flush any remaining items" | a batch already swapped out by timer or consumer is cancelled in its middle, its offsets committed |
| `analysis/pipeline.py:131` | tape delivery never breaks the analysis | if the report's own publication fails, the skeleton stays "analysing" |
| `analysis/stages/stage3_impact.py:626` | the model may not dismiss Para-A leaves below magnitude 3 | the priced-in downgrade comes later and may |
| `onboarding/provision_worker.py:222` | `:22` a crash re-sends "one onboarding email" | the second cycle finds the account and sends the other mail, for an address that may have had none |
| `api/routes/admin.py:341` | "copy every row" | a row written to a table between its copy and its deletion is deleted without a copy |
| `api/routes/research_chat.py:148` | `:8` an answer without an evidence trail does not ship | an error of the audit insert is logged and the answer sent, its cost not counted |
| `kb/live_price.py:266` | `:34` dual-listed symbols keep their NSE price | an error of the search at NSE and a hit at BSE yield the BSE token |
| `kb/live_price.py:276`, `:291` | `:281` "unexpected shape: don't bench it" | a symbol with rows but no exact match is an error in every request; three of them use up the lookups of each request, and symbols after them get no token while the file is out of reach (`Futile` in `ListedGetsToken`) |
| `kb/sync/pipeline.py:583` | `:586` "Rollback the failed transaction so session stays usable" | the transaction is that of the batch: a company that fails every week takes with it, every week, those before it since the last commit (`LosesBatch` in `NewCompanyFilled`) |
| `kb/sync/monitor.py:300` | the sweep "catches anything" missed | `pipeline.py:195` selects companies of low quality or without results only |
| `kb/sync/guidance_ledger_sync.py:6` | "re-runs converge" | rows of statements that an extraction has replaced stay |
| `kb/sync/guidance_ledger_sync.py:193`, `:238` | growth is scored against the base period | actual and base may be of different bases, consolidated and standalone |
| `commodity/main.py:17` | redelivery is harmless because "the detector dedupes via cooldown" | a restart forgets the cooldown; what protects is the time until there are prices enough |
| `kb/sync/market_state_sync.py:26` | absence from every list is "clean" | the first run of a day with a feed down writes rows whose stage is NULL, which reads as clean |
| `kb/sync/market_state_sync.py:189` | `:26` absence from every list is "clean" | a company on the ESM list whose stage cannot be parsed is kept with a stage of NULL; that row is its newest state, reads as clean, and hides the flagged one of a day before |
| `kb/sync/pipeline.py:849` | `monitor.py:256` "The backfill loop still catches any missed prior days" | the check counts the rows of all companies, so that a date which NSE missed and BSE loaded is never looked at again |
| `kb/sync/monitor.py:268` | the same | two days back from a Monday are Monday and Sunday: a Friday that failed is not looked at by the daily run |
| `kb/sync/monitor.py:272` | `:270` "a failed sync must NOT unblock signal scoring" | a download that fails yields no rows, the run succeeds, and the day is marked as priced |
| `kb/sync/participant_oi_sync.py:150` | `:2` "Daily" download of the previous trading day | it is the previous calendar day: no evening asks for a Friday, only a restart at a weekend loads it |
| `kb/sync/pipeline.py:888` | the log counts `days_loaded` | an error rolls back the days before it that are not committed, which stay in the count |
| `kb/sync/pipeline.py:881` | `:932` "no cross-exchange close mixing on the same symbol" | a company listed on both and kept under BSE has the close of whichever file came first that day |
| `kb/sync/nse_shareholding_sync.py:193` | `bse_shareholding_sync.py:97` "keep the latest revision" | the sweep of NSE keeps the oldest revision in its listing, since rows are stored newest first |
| `ingestion/article_fetcher.py:117` | articles are queued for their bodies | the queue is in memory, while the RSS adapters have marked them as seen |

Two more that no comment speaks of: in the sweep of NSE an exception for one company
ends the sweep, and with it the corporate actions and owners of that week
(`kb/sync/nse_shareholding_sync.py:227`); and the rows of holders that a revision
drops stay, while the backfill may write an older submission's over a newer one's
(`kb/sync/investor_holdings_sync.py:127`).

## 13. Plan

Done: the modules of sections 2 to 8, their runs, and theorems for every safety
property of a run that the provers reach.

Next:

1. Proofs: type invariants of the remaining services; action properties that
   follow from the invariants (a row of `impact_reports` never goes back from
   "complete", an archive only grows); an abstract life of a report (absent,
   analysing, complete, with summary) implemented by `Pipeline`.
2. Models: equity snapshots, the price arithmetic of stops and sizes, the
   circuit breaker and schedules of the adapters, the watchdog of the worker, the
   axis of events in the router, the order of providers in the LLM fallback.

## 14. Not modelled

* **Text**: prompts, the parsers of HTML, PDF and XBRL
  (`kb/sync/nse_financial_results.py` and others), the decoding of binary ticks.
  They turn one value into another; the models take their results as values,
  the malformed ones included.
* **Read-only SQL**: `kb/api.py` apart from the cached profile, most of
  `grounding/queries.py`, the MCP tools, the statistics of the admin pages.
* **Offline studies**: `research/replay_harness.py`, `materiality_lab.py`, the
  calibrations and back-tests. One process reads the database and prints or writes
  a file, with nothing concurrent and no state that others read.
* **Frontend**: React views of the API.
* **Broadcasts to browsers** other than the demand for ticks; **migrations** other
  than as the shape of a table.

A large part of the repository's lines is of these kinds, and the map, which names
only code that a definition stands for, covers about three tenths of all lines.
