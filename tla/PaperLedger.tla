----------------------------- MODULE PaperLedger -----------------------------
(***************************************************************************)
(* The paper-trading ledger (table paper_trades) and the asyncio tasks     *)
(* that write it: the Kafka consume loop, the PEAD scan, the five-second   *)
(* mark-to-market cycle, the pre-open probe, and the dashboard's manual    *)
(* exit, which runs in another process.                                    *)
(*                                                                         *)
(* A step is the code between two awaits.  A task reads rows, awaits, and  *)
(* acts on what it read: everything it remembers across an await is a      *)
(* variable here.  Every write carries the guard of its SQL statement.     *)
(*                                                                         *)
(* Time is counted in phases of the exchange's day (five per day), so a    *)
(* time stamp says which session, and which part of it, a price or a row   *)
(* belongs to.  Prices are kept only as the time they refer to.            *)
(***************************************************************************)
EXTENDS Integers, FiniteSets, Sequences, FiniteSetsExt, Functions

CONSTANTS
  Intents,       \* signal intents; an intent is the key of its ledger row
  Symbols,       \* stock symbols
  Reports,       \* Reports[k]: the intents of the k-th impact report
  SueRows,       \* intents the PEAD scan can build from earnings_surprises
  Users,         \* concurrent manual-exit requests
  Loops,         \* the background tasks that run
  Notional,      \* Notional[i]: |qty| * entry_price if i is filled
  GrossCap,      \* PAPER_GROSS_CAP
  Drift,         \* how far a mark may move a position's value
  PendingMaxAge, \* PAPER_PENDING_MAX_AGE_H, in phases
  HoldSessions,  \* HoldSessions[strategy]: holding period in sessions
  Holidays,      \* days without a session
  Gates,         \* gates that may refuse a signal in this instance
  StartTimes,    \* initial values of the clock
  EndTime,       \* bound: the clock stops here
  MaxFaults      \* bound: failed statements and process crashes

Strategies == {"headwind_short", "pead_long", "orderwin_long", "tailwind_long"}

\* PAPER_PREOPEN_VETO_STRATEGIES
VetoStrategies == {"orderwin_long"}

RuleGates  == {"stale_event", "rule_gated"}
EntryGates == {"unknown_symbol", "gap_guard", "no_lot_size", "zero_qty"}

ASSUME IntentAssumption ==
  /\ IsFiniteSet(Intents)
  /\ \A i \in Intents :
       /\ i.symbol \in Symbols
       /\ i.strategy \in Strategies
       /\ i.side \in {"LONG", "SHORT"}
       /\ i.instrument \in {"CASH", "FUT"}

\* UNIQUE (impact_id, symbol, strategy)
ASSUME KeyAssumption ==
  \A i, j \in Intents :
     i.impact = j.impact /\ i.symbol = j.symbol /\ i.strategy = j.strategy
        => i = j

ASSUME ReportAssumption ==
  /\ Reports \in Seq(SUBSET Intents)
  /\ \A k \in DOMAIN Reports : \A i, j \in Reports[k] : i.impact = j.impact
  /\ \A k \in DOMAIN Reports : Reports[k] # {}
  /\ SueRows \subseteq Intents
  /\ \A i \in SueRows : i.strategy = "pead_long"

ASSUME NumberAssumption ==
  /\ Notional \in [Intents -> Nat \ {0}]
  /\ GrossCap \in Nat
  /\ Drift \in Nat
  /\ PendingMaxAge \in Nat
  /\ HoldSessions \in [Strategies -> Nat]
  /\ Holidays \subseteq Nat
  /\ StartTimes \subseteq Nat \ {0}
  /\ EndTime \in Nat
  /\ MaxFaults \in Nat

ASSUME TaskAssumption ==
  /\ Loops \subseteq {"consumer", "scan", "mtm", "preopen"}
  /\ Loops # {} /\ Loops # {"preopen"}
  /\ Gates \subseteq RuleGates \cup EntryGates

VARIABLES
  ledger,     \* ledger[i]: the paper_trades row of intent i
  now,        \* the clock, in phases
  openAt,     \* openAt[s]: when today's `open` of s was set; 0: not yet
  position,   \* reports the consumer has taken from Kafka
  committed,  \* the auto-committed offset of the consumer group
  pc,         \* pc[l]: where task l is suspended
  since,      \* since[l]: when the current body of task l began
  work,       \* work[l]: the rows or intents task l still has to visit
  op,         \* op[l]: the write task l has decided on and not yet made
  quote,      \* quote[l]: the quotes task l fetched
  verdict,    \* verdict[i]: what the rules said of an intent being handled
  tracked,    \* the symbols the current mark-to-market cycle looks at
  lastProbe,  \* last_run_day of the pre-open probe
  manual,     \* manual[u]: a manual exit between its read and its write
  faults      \* failed statements and crashes so far

taskVars == <<pc, since, work, op, quote, verdict, tracked, lastProbe>>
vars == <<ledger, now, openAt, position, committed, taskVars, manual, faults>>

(***************************************************************************)
(* The exchange's day.                                                     *)
(***************************************************************************)
PhasesPerDay == 5
PreOpen == 0    \* 09:00-09:15, the auction and the probe
Early   == 1    \* 09:15-09:45, queued rows fill at the auction price
Mid     == 2    \* 09:45-15:15
Late    == 3    \* 15:15-15:30, cash shorts are squared off
Closed  == 4    \* until 09:00

Day(t)   == t \div PhasesPerDay
Phase(t) == t % PhasesPerDay

TradingDay(d) == d \notin Holidays

SessionLive(t) == TradingDay(Day(t)) /\ Phase(t) \in {Early, Mid, Late}

\* Sessions strictly after day d, up to and including day e.
TradingDaysBetween(d, e) == Cardinality({x \in (d + 1)..e : TradingDay(x)})

\* What a carried-over last price refers to: some earlier session.
PriorPrint(t) == IF Day(t) = 0 THEN 0 ELSE Day(t) * PhasesPerDay - 1

(***************************************************************************)
(* Rows.                                                                   *)
(***************************************************************************)
Statuses == {"NONE", "PENDING", "OPEN", "CLOSED", "REJECTED"}
Live     == {"PENDING", "OPEN"}
Finished == {"CLOSED", "REJECTED"}

Reasons == RuleGates \cup EntryGates \cup
  {"none", "gross_cap", "duplicate_position", "pending_expired",
   "preopen_veto", "manual_cancel", "exit_rule", "manual"}

NoRow == [status |-> "NONE", reason |-> "none", size |-> 0, value |-> 0,
          queuedAt |-> 0, entryAt |-> 0, priceAt |-> 0,
          exitAt |-> 0, exitPriceAt |-> 0]

RowType == [status : Statuses, reason : Reasons, size : Nat, value : Nat,
            queuedAt : Nat, entryAt : Nat, priceAt : Nat,
            exitAt : Nat, exitPriceAt : Nat]

RowsWith(S) == {i \in Intents : ledger[i].status \in S}

\* _GROSS_SQL: what the open positions are worth at their last mark.
Gross == SumFunctionOnSet([i \in Intents |-> ledger[i].value], RowsWith({"OPEN"}))

\* _LIVE_POS_SQL, and the NOT EXISTS of _PEAD_SCAN_SQL.
LivePosition(symbol, strategy) ==
  \E i \in RowsWith(Live) : i.symbol = symbol /\ i.strategy = strategy

\* _FILL_SQL and the entry columns of _OPEN_SQL.
Entered(row, i, pricedAt) ==
  [row EXCEPT !.status = "OPEN", !.size = Notional[i], !.value = Notional[i],
              !.entryAt = now, !.priceAt = pricedAt]

\* _CLOSE_SQL, and the same statement of the manual exit.
Exited(row, why, pricedAt) ==
  [row EXCEPT !.status = "CLOSED", !.reason = why,
              !.exitAt = now, !.exitPriceAt = pricedAt]

\* An UPDATE ... WHERE id = i AND status = s: nothing happens on a mismatch.
UpdateWhere(i, s, row) ==
  ledger' = IF ledger[i].status = s THEN [ledger EXCEPT ![i] = row] ELSE ledger

(***************************************************************************)
(* Quotes, as get_quotes returns them: a symbol outside `ltp` had no quote *)
(* at all; `open` is absent (0) until the symbol has printed today, in the *)
(* auction or in a trade, and refers to that moment.  The last price is    *)
(* then today's; before, it is carried over from an earlier session.       *)
(***************************************************************************)
NotPrinted == [s \in Symbols |-> 0]

NoQuote == [ltp |-> {}, open |-> NotPrinted, at |-> 0, live |-> FALSE]
QuoteType == [ltp : SUBSET Symbols, open : [Symbols -> Nat], at : Nat,
              live : BOOLEAN]

Fetch(syms, live) ==
  [ltp |-> syms, at |-> now, live |-> live,
   open |-> [s \in Symbols |-> IF s \in syms THEN openAt[s] ELSE 0]]

PrintedToday(q) == {s \in Symbols : q.open[s] > 0}

LtpTime(q, s) == IF s \in PrintedToday(q) THEN q.at ELSE PriorPrint(q.at)

\* select_fill_price: the price of a queued row, by the time of day.
FillTime(q, s) == IF Phase(q.at) = Early THEN q.open[s] ELSE LtpTime(q, s)

(***************************************************************************)
(* Decided writes.                                                         *)
(***************************************************************************)
NoOp == [status |-> "NONE"]
OpType == [status : {"PENDING", "OPEN", "REJECTED"}, row : Intents,
           reason : Reasons, priceAt : Nat]

Decided(st, i, why, pricedAt) ==
  [status |-> st, row |-> i, reason |-> why, priceAt |-> pricedAt]

\* The gates that can refuse intent i, in the order open_position and
\* fill_pending try them; which of them bites depends on data outside the
\* ledger.
GatesOf(i, atQueue, atFill) ==
  Gates \cap
    ((IF atFill THEN {} ELSE {"unknown_symbol"}) \cup
     (IF atQueue THEN {}
      ELSE (IF i.strategy = "pead_long" THEN {"gap_guard"} ELSE {}) \cup
           (IF i.instrument = "FUT" THEN {"no_lot_size"} ELSE {"zero_qty"})))

\* Mutant: the cap is never read.
EntryDecision_NoCap(l, i, atFill, pricedAt) ==
  op' = [op EXCEPT ![l] = Decided("OPEN", i, "none", pricedAt)]

\* Gate cascade, sizing and the gross-cap read of open_position and
\* fill_pending: the write task l goes on to make for row i.
EntryDecision(l, i, atFill, pricedAt) ==
  \/ \E why \in GatesOf(i, FALSE, atFill) :
        op' = [op EXCEPT ![l] = Decided("REJECTED", i, why, 0)]
  \/ op' = [op EXCEPT ![l] =
              IF Gross + Notional[i] > GrossCap
              THEN Decided("REJECTED", i, "gross_cap", 0)
              ELSE Decided("OPEN", i, "none", pricedAt)]

(***************************************************************************)
(* Initial state: an empty table; every task about to sleep or to poll.    *)
(***************************************************************************)
TaskNames == {"consumer", "scan", "mtm", "preopen"}

FreshTasks ==
  /\ pc = [l \in TaskNames |-> "idle"]
  /\ since = [l \in TaskNames |-> 0]
  /\ work = [l \in TaskNames |-> {}]
  /\ op = [l \in TaskNames |-> NoOp]
  /\ quote = [l \in TaskNames |-> NoQuote]
  /\ verdict = [i \in Intents |-> "none"]
  /\ tracked = [open |-> {}, pending |-> {}]
  /\ lastProbe = 0

NoExit == [pc |-> "idle"]

Init ==
  /\ ledger = [i \in Intents |-> NoRow]
  /\ now \in StartTimes
  /\ openAt = NotPrinted
  /\ position = 0
  /\ committed = 0
  /\ FreshTasks
  /\ manual = [u \in Users |-> NoExit]
  /\ faults = 0

(***************************************************************************)
(* Helpers on a task's own state.  A body that has nothing left to do goes *)
(* back to sleep, and forgets what it read.                                *)
(***************************************************************************)
Begin(l, stage, todo) ==
  /\ l \in Loops
  /\ pc[l] = "idle"
  /\ pc' = [pc EXCEPT ![l] = stage]
  /\ since' = [since EXCEPT ![l] = now]
  /\ work' = [work EXCEPT ![l] = todo]

Rest(l) ==
  /\ pc' = [pc EXCEPT ![l] = "idle"]
  /\ since' = [since EXCEPT ![l] = 0]
  /\ work' = [work EXCEPT ![l] = {}]
  /\ quote' = [quote EXCEPT ![l] = NoQuote]
  /\ op' = [op EXCEPT ![l] = NoOp]
  /\ verdict' = IF l = "consumer" THEN [i \in Intents |-> "none"] ELSE verdict
  /\ tracked' = IF l = "mtm" THEN [open |-> {}, pending |-> {}] ELSE tracked

Goto(l, stage, todo) ==
  /\ pc' = [pc EXCEPT ![l] = stage]
  /\ work' = [work EXCEPT ![l] = todo]

(***************************************************************************)
(* consume_loop / handle_report.                                           *)
(***************************************************************************)

\* The next message; aiokafka's auto-commit may commit it from now on.
Deliver ==
  /\ position < Len(Reports)
  /\ Begin("consumer", "evaluate", Reports[position + 1])
  /\ position' = position + 1
  /\ UNCHANGED <<ledger, now, openAt, committed, op, quote, verdict, tracked,
                 lastProbe, manual, faults>>

\* Mutant: one record too many is committed.
AutoCommit_Ahead ==
  /\ committed # position
  /\ committed' = position + 1
  /\ UNCHANGED <<ledger, now, openAt, position, taskVars, manual, faults>>

\* enable_auto_commit: the offset of what has been handed out.
AutoCommit ==
  /\ committed # position
  /\ committed' = position
  /\ UNCHANGED <<ledger, now, openAt, position, taskVars, manual, faults>>

\* Mutant: the rules do not look for a live position.
Evaluate_NoGuard(i) ==
  /\ pc["consumer"] = "evaluate"
  /\ i \in work["consumer"]
  /\ verdict' = [verdict EXCEPT ![i] = "pass"]
  /\ work' = [work EXCEPT !["consumer"] = @ \ {i}]
  /\ UNCHANGED <<ledger, now, openAt, position, committed, pc, since, op,
                 quote, tracked, lastProbe, manual, faults>>

\* One strategy's gate cascade for one impact: staleness, then the query
\* for a live position, then the strategy's own gates.
Evaluate(i) ==
  /\ pc["consumer"] = "evaluate"
  /\ i \in work["consumer"]
  /\ \E v \in (Gates \cap {"stale_event"}) \cup
              (IF LivePosition(i.symbol, i.strategy)
               THEN {"duplicate_position"}
               ELSE (Gates \cap {"rule_gated"}) \cup {"pass"}) :
        verdict' = [verdict EXCEPT ![i] = v]
  /\ work' = [work EXCEPT !["consumer"] = @ \ {i}]
  /\ UNCHANGED <<ledger, now, openAt, position, committed, pc, since, op,
                 quote, tracked, lastProbe, manual, faults>>

\* evaluate_report raises: the report is logged and given up.
EvaluateFails ==
  /\ pc["consumer"] = "evaluate"
  /\ faults < MaxFaults
  /\ faults' = faults + 1
  /\ Rest("consumer")
  /\ UNCHANGED <<ledger, now, openAt, position, committed, lastProbe, manual>>

Evaluated == {i \in Intents : verdict[i] # "none"}

\* All intents are known: sample the session and fetch the quotes.
StartActing ==
  /\ pc["consumer"] = "evaluate"
  /\ work["consumer"] = {}
  /\ Goto("consumer", "act", Evaluated)
  /\ \E quoted \in SUBSET {i.symbol : i \in Evaluated} :
        /\ ~SessionLive(now) => quoted = {}
        /\ quote' = [quote EXCEPT !["consumer"] = Fetch(quoted, SessionLive(now))]
  /\ UNCHANGED <<ledger, now, openAt, position, committed, since, op, verdict,
                 tracked, lastProbe, manual, faults>>

(***************************************************************************)
(* pead_scan_loop: the qualifying surprise rows with no live pead_long.    *)
(* Which rows lie in the 24-hour window is any subset of them.             *)
(***************************************************************************)
ScanStart ==
  \E arrived \in SUBSET SueRows :
    LET hits == {i \in arrived : ~LivePosition(i.symbol, "pead_long")}
    IN  /\ hits # {}
        /\ Begin("scan", "act", hits)
        /\ \E quoted \in SUBSET {i.symbol : i \in hits} :
              /\ ~SessionLive(now) => quoted = {}
              /\ quote' = [quote EXCEPT !["scan"] = Fetch(quoted, SessionLive(now))]
        /\ UNCHANGED <<ledger, now, openAt, position, committed, op, verdict,
                       tracked, lastProbe, manual, faults>>

(***************************************************************************)
(* Acting on an intent, in the consumer and in the scan: record a refused  *)
(* one, queue it, or run the entry gates of open_position.                 *)
(***************************************************************************)

\* Mutant: a live session is enough, the symbol need not have printed.
Act_NoPrintCheck(l, i) ==
  /\ pc[l] = "act"
  /\ op[l] = NoOp
  /\ i \in work[l]
  /\ IF l = "consumer" /\ verdict[i] # "pass"
     THEN op' = [op EXCEPT ![l] = Decided("REJECTED", i, verdict[i], 0)]
     ELSE IF quote[l].live /\ i.symbol \in quote[l].ltp
     THEN EntryDecision(l, i, FALSE, LtpTime(quote[l], i.symbol))
     ELSE op' = [op EXCEPT ![l] = Decided("PENDING", i, "none", 0)]
  /\ UNCHANGED <<ledger, now, openAt, position, committed, pc, since, work,
                 quote, verdict, tracked, lastProbe, manual, faults>>

Act(l, i) ==
  /\ pc[l] = "act"
  /\ op[l] = NoOp
  /\ i \in work[l]
  /\ CASE l = "consumer" /\ verdict[i] # "pass" ->
            op' = [op EXCEPT ![l] = Decided("REJECTED", i, verdict[i], 0)]
       [] (l = "scan" \/ verdict[i] = "pass")
            /\ ~(quote[l].live /\ i.symbol \in PrintedToday(quote[l])) ->
            \/ op' = [op EXCEPT ![l] = Decided("PENDING", i, "none", 0)]
            \/ \E why \in GatesOf(i, TRUE, FALSE) :
                 op' = [op EXCEPT ![l] = Decided("REJECTED", i, why, 0)]
       [] OTHER -> EntryDecision(l, i, FALSE, LtpTime(quote[l], i.symbol))
  /\ UNCHANGED <<ledger, now, openAt, position, committed, pc, since, work,
                 quote, verdict, tracked, lastProbe, manual, faults>>

\* The row an INSERT creates.
NewRow(w) ==
  CASE w.status = "PENDING"  -> [NoRow EXCEPT !.status = "PENDING", !.queuedAt = now]
    [] w.status = "OPEN"     -> Entered(NoRow, w.row, w.priceAt)
    [] w.status = "REJECTED" -> [NoRow EXCEPT !.status = "REJECTED",
                                              !.reason = w.reason]

\* What remains of a body's work once intent i is done with.
Finish(l, rest) ==
  IF rest = {}
  THEN Rest(l)
  ELSE /\ work' = [work EXCEPT ![l] = rest]
       /\ op' = [op EXCEPT ![l] = NoOp]
       /\ UNCHANGED <<pc, since, quote, verdict, tracked>>

\* Mutant: the loop over a report's intents returns after the first.
Insert_Returns(l) ==
  /\ l \in {"consumer", "scan"}
  /\ op[l] # NoOp
  /\ UpdateWhere(op[l].row, "NONE", NewRow(op[l]))
  /\ Finish(l, {})
  /\ UNCHANGED <<now, openAt, position, committed, lastProbe, manual, faults>>

\* INSERT ... ON CONFLICT (impact_id, symbol, strategy) DO NOTHING.
Insert(l) ==
  /\ l \in {"consumer", "scan"}
  /\ op[l] # NoOp
  /\ UpdateWhere(op[l].row, "NONE", NewRow(op[l]))
  /\ Finish(l, work[l] \ {op[l].row})
  /\ UNCHANGED <<now, openAt, position, committed, lastProbe, manual, faults>>

\* The statement raises: the consumer goes on with its next intent, the
\* scan gives up its cycle.
EngineError(l) ==
  /\ l \in {"consumer", "scan"}
  /\ op[l] # NoOp
  /\ faults < MaxFaults
  /\ faults' = faults + 1
  /\ Finish(l, IF l = "consumer" THEN work[l] \ {op[l].row} ELSE {})
  /\ UNCHANGED <<ledger, now, openAt, position, committed, lastProbe, manual>>

(***************************************************************************)
(* mtm_loop, while the session is live: expire, quote, fill, mark, exit.   *)
(***************************************************************************)

Expired ==
  {i \in RowsWith({"PENDING"}) : now - ledger[i].queuedAt >= PendingMaxAge}

TrackedNow ==
  [open    |-> {i.symbol : i \in RowsWith({"OPEN"})},
   pending |-> {i.symbol : i \in RowsWith({"PENDING"})}]

MtmStart ==
  /\ SessionLive(now)
  /\ Begin("mtm", "expire", Expired)
  /\ tracked' = TrackedNow
  /\ UNCHANGED <<ledger, now, openAt, position, committed, op, quote, verdict,
                 lastProbe, manual, faults>>

\* _PENDING_REJECT_SQL with 'pending_expired'.
ExpireRow(i) ==
  /\ pc["mtm"] = "expire"
  /\ i \in work["mtm"]
  /\ UpdateWhere(i, "PENDING", [ledger[i] EXCEPT !.status = "REJECTED",
                                                 !.reason = "pending_expired"])
  /\ work' = [work EXCEPT !["mtm"] = @ \ {i}]
  /\ UNCHANGED <<now, openAt, position, committed, pc, since, op, quote,
                 verdict, tracked, lastProbe, manual, faults>>

\* One batched quote call, and the fill prices picked from it.
MtmQuote ==
  /\ pc["mtm"] = "expire"
  /\ work["mtm"] = {}
  /\ IF tracked.open \cup tracked.pending = {}
     THEN Rest("mtm")
     ELSE /\ \E quoted \in SUBSET (tracked.open \cup tracked.pending) :
               LET q == Fetch(quoted, TRUE)
               IN  /\ quote' = [quote EXCEPT !["mtm"] = q]
                   /\ Goto("mtm", IF PrintedToday(q) \cap tracked.pending = {}
                                  THEN "mark" ELSE "fetch", {})
          /\ tracked' = [tracked EXCEPT !.open = {}]
          /\ UNCHANGED <<since, op, verdict>>
  /\ UNCHANGED <<ledger, now, openAt, position, committed, lastProbe, manual,
                 faults>>

\* fill_pending reads the PENDING rows again and keeps those with a price.
FillFetch ==
  /\ pc["mtm"] = "fetch"
  /\ Goto("mtm", "fill",
          {i \in RowsWith({"PENDING"}) :
              i.symbol \in PrintedToday(quote["mtm"]) \cap tracked.pending})
  /\ tracked' = [open |-> {}, pending |-> {}]
  /\ UNCHANGED <<ledger, now, openAt, position, committed, since, op, quote,
                 verdict, lastProbe, manual, faults>>

FillDecide(i) ==
  /\ pc["mtm"] = "fill"
  /\ op["mtm"] = NoOp
  /\ i \in work["mtm"]
  /\ EntryDecision("mtm", i, TRUE, FillTime(quote["mtm"], i.symbol))
  /\ UNCHANGED <<ledger, now, openAt, position, committed, pc, since, work,
                 quote, verdict, tracked, lastProbe, manual, faults>>

\* _FILL_SQL or _PENDING_REJECT_SQL.
FillWrite ==
  /\ op["mtm"] # NoOp
  /\ LET w == op["mtm"]
         i == w.row
     IN  /\ UpdateWhere(i, "PENDING",
               IF w.status = "OPEN"
               THEN Entered(ledger[i], i, w.priceAt)
               ELSE [ledger[i] EXCEPT !.status = "REJECTED", !.reason = w.reason])
         /\ work' = [work EXCEPT !["mtm"] = @ \ {i}]
  /\ op' = [op EXCEPT !["mtm"] = NoOp]
  /\ UNCHANGED <<now, openAt, position, committed, pc, since, quote, verdict,
                 tracked, lastProbe, manual, faults>>

\* _MARK_SQL on each OPEN row with a quote; the prices move together, by at
\* most Drift.
Mark ==
  /\ \/ pc["mtm"] = "mark"
     \/ pc["mtm"] = "fill" /\ work["mtm"] = {} /\ op["mtm"] = NoOp
  /\ Goto("mtm", "marked", {})
  /\ \E d \in -Drift..Drift :
        ledger' = [i \in Intents |->
          IF ledger[i].status = "OPEN" /\ i.symbol \in quote["mtm"].ltp
          THEN [ledger[i] EXCEPT !.value = IF ledger[i].size + d > 0
                                           THEN ledger[i].size + d ELSE 0]
          ELSE ledger[i]]
  /\ UNCHANGED <<now, openAt, position, committed, since, op, quote, verdict,
                 tracked, lastProbe, manual, faults>>

CashShort(i) == i.side = "SHORT" /\ i.instrument = "CASH"

\* Mutant: no square-off.
DueExit_HoldOnly(i) ==
  TradingDaysBetween(Day(ledger[i].entryAt), Day(now)) >= HoldSessions[i.strategy]

\* Exits that do not depend on the price: the intraday square-off of cash
\* shorts, and the end of the holding period.
DueExit(i) ==
  \/ CashShort(i) /\ (Phase(now) = Late \/ Day(now) > Day(ledger[i].entryAt))
  \/ TradingDaysBetween(Day(ledger[i].entryAt), Day(now))
       >= HoldSessions[i.strategy]

\* run_exits reads the OPEN rows; a stop may also hit any of them but a
\* pead_long.  A due row without a quote is left for the next cycle.
ExitFetch ==
  /\ pc["mtm"] = "marked"
  /\ LET quotedRows == {i \in RowsWith({"OPEN"}) : i.symbol \in quote["mtm"].ltp}
         due == {i \in quotedRows : DueExit(i)}
     IN  \E stopped \in SUBSET {i \in quotedRows : i.strategy # "pead_long"} :
            Goto("mtm", "exits", due \cup stopped)
  /\ UNCHANGED <<ledger, now, openAt, position, committed, since, op, quote,
                 verdict, tracked, lastProbe, manual, faults>>

\* close_position: _CLOSE_SQL.
ExitRow(i) ==
  /\ pc["mtm"] = "exits"
  /\ i \in work["mtm"]
  /\ UpdateWhere(i, "OPEN",
        Exited(ledger[i], "exit_rule", LtpTime(quote["mtm"], i.symbol)))
  /\ work' = [work EXCEPT !["mtm"] = @ \ {i}]
  /\ UNCHANGED <<now, openAt, position, committed, pc, since, op, quote,
                 verdict, tracked, lastProbe, manual, faults>>

MtmDone ==
  /\ pc["mtm"] = "exits"
  /\ work["mtm"] = {}
  /\ Rest("mtm")
  /\ UNCHANGED <<ledger, now, openAt, position, committed, lastProbe, manual,
                 faults>>

\* Any statement of a cycle may raise; the loop logs it and sleeps again.
CycleFails(l) ==
  /\ l \in {"mtm", "preopen"}
  /\ pc[l] # "idle"
  /\ faults < MaxFaults
  /\ faults' = faults + 1
  /\ Rest(l)
  /\ UNCHANGED <<ledger, now, openAt, position, committed, lastProbe, manual>>

(***************************************************************************)
(* preopen_confirm_loop: once a day, probe the book of every queued row.   *)
(***************************************************************************)
ProbeStart ==
  /\ Phase(now) = PreOpen
  /\ TradingDay(Day(now))
  /\ lastProbe # Day(now)
  /\ RowsWith({"PENDING"}) # {}
  /\ Begin("preopen", "probe", RowsWith({"PENDING"}))
  /\ lastProbe' = Day(now)
  /\ UNCHANGED <<ledger, now, openAt, position, committed, op, quote, verdict,
                 tracked, manual, faults>>

\* The book is on the signal's side or unknown (annotate), or against it,
\* which rejects the row when its strategy enforces the veto.
ProbeRow(i) ==
  /\ pc["preopen"] = "probe"
  /\ i \in work["preopen"]
  /\ \/ UNCHANGED ledger
     \/ /\ i.strategy \in VetoStrategies
        /\ UpdateWhere(i, "PENDING", [ledger[i] EXCEPT !.status = "REJECTED",
                                                       !.reason = "preopen_veto"])
  /\ Finish("preopen", work["preopen"] \ {i})
  /\ UNCHANGED <<now, openAt, position, committed, lastProbe, manual, faults>>

(***************************************************************************)
(* manual_exit in the API process: read the row, then a guarded write.     *)
(***************************************************************************)
ExitRequest == [pc : {"cancel", "close"}, row : Intents, priceAt : Nat,
                since : Nat]

ManualRead(u, i) ==
  /\ manual[u] = NoExit
  /\ \/ /\ ledger[i].status = "PENDING"
        /\ manual' = [manual EXCEPT ![u] =
             [pc |-> "cancel", row |-> i, priceAt |-> 0, since |-> now]]
     \/ /\ ledger[i].status = "OPEN"
        /\ SessionLive(now)
        /\ manual' = [manual EXCEPT ![u] =
             [pc |-> "close", row |-> i, since |-> now,
              priceAt |-> LtpTime(Fetch({i.symbol}, TRUE), i.symbol)]]
  /\ UNCHANGED <<ledger, now, openAt, position, committed, taskVars, faults>>

ManualCancel(u) ==
  /\ manual[u] # NoExit
  /\ manual[u].pc = "cancel"
  /\ LET i == manual[u].row
     IN  UpdateWhere(i, "PENDING", [ledger[i] EXCEPT !.status = "REJECTED",
                                                     !.reason = "manual_cancel"])
  /\ manual' = [manual EXCEPT ![u] = NoExit]
  /\ UNCHANGED <<now, openAt, position, committed, taskVars, faults>>

\* Mutant: the UPDATE has no WHERE status = 'OPEN'.
ManualClose_Unguarded(u) ==
  /\ manual[u] # NoExit
  /\ manual[u].pc = "close"
  /\ ledger' = [ledger EXCEPT ![manual[u].row] = Exited(@, "manual", manual[u].priceAt)]
  /\ manual' = [manual EXCEPT ![u] = NoExit]
  /\ UNCHANGED <<now, openAt, position, committed, taskVars, faults>>

ManualClose(u) ==
  /\ manual[u] # NoExit
  /\ manual[u].pc = "close"
  /\ LET i == manual[u].row
     IN  UpdateWhere(i, "OPEN", Exited(ledger[i], "manual", manual[u].priceAt))
  /\ manual' = [manual EXCEPT ![u] = NoExit]
  /\ UNCHANGED <<now, openAt, position, committed, taskVars, faults>>

(***************************************************************************)
(* The environment.  Every await has a timeout of seconds, a phase lasts   *)
(* at least a quarter of an hour: no body spans more than one boundary.    *)
(***************************************************************************)
Tick ==
  /\ now < EndTime
  /\ \A l \in Loops : pc[l] # "idle" => since[l] = now
  /\ \A u \in Users : manual[u] # NoExit => manual[u].since = now
  /\ now' = now + 1
  /\ openAt' = IF Phase(now') = PreOpen THEN NotPrinted ELSE openAt
  /\ UNCHANGED <<ledger, position, committed, taskVars, manual, faults>>

\* A symbol's auction or first trade of the day: from here on its quotes
\* have today's `open`.
FirstPrint(s) ==
  /\ openAt[s] = 0
  /\ TradingDay(Day(now))
  /\ Phase(now) # Closed
  /\ openAt' = [openAt EXCEPT ![s] = now]
  /\ UNCHANGED <<ledger, now, position, committed, taskVars, manual, faults>>

\* The paper-trading process dies and restarts: the tasks forget all, the
\* consumer resumes at the committed offset, the ledger is in the database.
Crash ==
  /\ faults < MaxFaults
  /\ faults' = faults + 1
  /\ position' = committed
  /\ pc' = [l \in TaskNames |-> "idle"]
  /\ since' = [l \in TaskNames |-> 0]
  /\ work' = [l \in TaskNames |-> {}]
  /\ op' = [l \in TaskNames |-> NoOp]
  /\ quote' = [l \in TaskNames |-> NoQuote]
  /\ verdict' = [i \in Intents |-> "none"]
  /\ tracked' = [open |-> {}, pending |-> {}]
  /\ lastProbe' = 0
  /\ UNCHANGED <<ledger, now, openAt, committed, manual>>

ConsumeNext ==
  \/ Deliver \/ AutoCommit \/ StartActing \/ EvaluateFails
  \/ \E i \in Intents : Evaluate(i)

EntryNext(l) == Insert(l) \/ EngineError(l) \/ \E i \in Intents : Act(l, i)

MtmStep ==
  \/ MtmQuote \/ FillFetch \/ FillWrite \/ Mark \/ ExitFetch \/ MtmDone
  \/ \E i \in Intents : ExpireRow(i) \/ FillDecide(i) \/ ExitRow(i)

ProbeNext == ProbeStart \/ \E i \in Intents : ProbeRow(i)

ManualNext(u) ==
  ManualCancel(u) \/ ManualClose(u) \/ \E i \in Intents : ManualRead(u, i)

Next ==
  \/ ConsumeNext
  \/ ScanStart
  \/ \E l \in {"consumer", "scan"} : EntryNext(l)
  \/ MtmStart \/ MtmStep
  \/ ProbeNext
  \/ \E l \in {"mtm", "preopen"} : CycleFails(l)
  \/ \E u \in Users : ManualNext(u)
  \/ Tick \/ Crash \/ \E s \in Symbols : FirstPrint(s)

Spec == Init /\ [][Next]_vars

(***************************************************************************)
(* Fairness: the event loop keeps scheduling every task that can go on, an *)
(* await ends, time passes.  A symbol's quotes do not fail for ever.       *)
(***************************************************************************)
Scheduling ==
  /\ WF_vars(MtmStart)
  /\ WF_vars(MtmStep)
  /\ WF_vars(StartActing)
  /\ WF_vars(\E i \in Intents : Evaluate(i))
  /\ \A l \in {"consumer", "scan"} : WF_vars(EntryNext(l))
  /\ WF_vars(\E i \in Intents : ProbeRow(i))
  /\ \A u \in Users : WF_vars(ManualCancel(u) \/ ManualClose(u))
  /\ WF_vars(Tick)

QuotesRecover ==
  \A s \in Symbols : SF_vars(MtmQuote /\ s \in quote'["mtm"].ltp)

FairSpec == Spec /\ Scheduling /\ QuotesRecover

(***************************************************************************)
(* Type invariant.                                                         *)
(***************************************************************************)
Stages == {"idle", "evaluate", "act", "expire", "fetch", "fill", "mark",
           "marked", "exits", "probe"}

Verdicts == {"none", "pass", "stale_event", "duplicate_position", "rule_gated"}

TypeOK ==
  /\ ledger \in [Intents -> RowType]
  /\ now \in Nat
  /\ openAt \in [Symbols -> Nat]
  /\ position \in 0..Len(Reports)
  /\ committed \in 0..Len(Reports)
  /\ pc \in [TaskNames -> Stages]
  /\ since \in [TaskNames -> Nat]
  /\ work \in [TaskNames -> SUBSET Intents]
  /\ op \in [TaskNames -> OpType \cup {NoOp}]
  /\ quote \in [TaskNames -> QuoteType]
  /\ verdict \in [Intents -> Verdicts]
  /\ tracked \in [open : SUBSET Symbols, pending : SUBSET Symbols]
  /\ lastProbe \in Nat
  /\ manual \in [Users -> ExitRequest \cup {NoExit}]
  /\ faults \in Nat

(***************************************************************************)
(* Safety.                                                                 *)
(***************************************************************************)

Entries == RowsWith({"OPEN", "CLOSED"})

SamePosition(i, j) == i.symbol = j.symbol /\ i.strategy = j.strategy

\* rules.py, "Concentration guard: one live position per (symbol, strategy)".
\* The guard is a read made long before the insert; the scan and the
\* consumer can both pass it.
OneLivePosition ==
  \A i, j \in RowsWith(Live) : SamePosition(i, j) => i = j

\* What the guard does give: the consumer, which handles one report at a
\* time, never holds two live positions of its own on one symbol and
\* strategy, whatever the other tasks, manual exits and crashes do.
ConsumerConcentration ==
  \A i, j \in RowsWith(Live) \ SueRows : SamePosition(i, j) => i = j

\* What the positions of S are worth at least, however they were marked.
LeastWorth(S) ==
  SumFunctionOnSet([i \in Intents |-> IF Notional[i] > Drift THEN Notional[i] - Drift ELSE 0], S)

\* The tasks that have read the gross exposure and are about to enter.
Entering == {l \in TaskNames : op[l] # NoOp /\ op[l].status = "OPEN"}

LargestEntry == IF Intents = {} THEN 0 ELSE Max({Notional[i] : i \in Intents})

\* How far the check-then-insert of concurrent tasks can overshoot the cap:
\* by one entry for every other task that enters positions.
OvershootBounded ==
  LeastWorth(RowsWith({"OPEN"}))
      + SumFunctionOnSet([l \in Entering |-> Notional[op[l].row]], Entering)
    <= GrossCap + (Cardinality(Loops \ {"preopen"}) - 1) * LargestEntry

\* The C1 phantom class: an entry is priced in the session it happens in, by
\* a symbol that has traded in it, and never before the 09:15 floor.
NoPhantomEntry ==
  \A i \in Entries :
     /\ Day(ledger[i].priceAt) = Day(ledger[i].entryAt)
     /\ TradingDay(Day(ledger[i].entryAt))
     /\ Phase(ledger[i].entryAt) # PreOpen

\* evaluate_report, "EVERY gate outcome is an auditable row": when the
\* consumer asks for the next message, all intents of the previous reports
\* have a row, unless something failed.
AuditComplete ==
  pc["consumer"] = "idle" /\ faults = 0 =>
    \A k \in 1..position : \A i \in Reports[k] : ledger[i].status # "NONE"

(***************************************************************************)
(* Liveness.                                                               *)
(***************************************************************************)

\* Cash shorts are intraday only: every one that opens is closed, by the
\* square-off if by nothing else.
CashShortsFlatten ==
  \A i \in Intents :
     CashShort(i) /\ ledger[i].status = "OPEN" ~> ledger[i].status = "CLOSED"

(***************************************************************************)
(* The abstract specification of one row's life.                           *)
(***************************************************************************)
EntryOf(row) == <<row.size, row.entryAt, row.priceAt>>
EndOf(row)   == <<row.reason, row.exitAt, row.exitPriceAt>>

LifeOf(row) == [status |-> row.status, entry |-> EntryOf(row), end |-> EndOf(row)]

Lifecycle == INSTANCE TradeLifecycle WITH
  Trades  <- Intents,
  NoEntry <- EntryOf(NoRow),
  NoEnd   <- EndOf(NoRow),
  trade   <- [i \in Intents |-> LifeOf(ledger[i])]

\* Every step of every task is one legal step of one row's life, or leaves
\* all rows' lives alone: exactly one writer wins.
ImplementsLifecycle == Lifecycle!Spec

=============================================================================
