-------------------------- MODULE PaperLedger_proofs --------------------------
(***************************************************************************)
(* Theorems about the paper-trading ledger, for every set of signals, any  *)
(* number of users, any cap, holidays and bounds:                          *)
(*   TypeCorrect                the variables keep their types;            *)
(*   LedgerImplementsLifecycle  the tasks together implement the abstract  *)
(*                              life of each row (TradeLifecycle);         *)
(*   ConcentrationHolds         the consumer never holds two live          *)
(*                              positions of one symbol and strategy;      *)
(*   NoPhantomEntryHolds        every entry is priced on its own trading   *)
(*                              day, after 09:15;                          *)
(*   OvershootBoundedHolds      the tasks exceed the gross cap by at most  *)
(*                              one entry for each but one of them;        *)
(*   AuditCompleteHolds         every intent of a handled report is        *)
(*                              recorded, unless something failed.         *)
(***************************************************************************)
EXTENDS PaperLedger, SequenceLemmas

(***************************************************************************)
(* Types of the helpers, then of every step.                               *)
(***************************************************************************)

\* Days and phases of a time.
LEMMA DayNat == ASSUME NEW t \in Nat PROVE Day(t) \in Nat /\ Phase(t) \in 0..4
BY DEF Day, Phase, PhasesPerDay

\* The time a carried-over price refers to.
LEMMA PriorPrintNat == ASSUME NEW t \in Nat PROVE PriorPrint(t) \in Nat
BY DayNat DEF PriorPrint, PhasesPerDay, Day

\* The row an entry makes.
LEMMA EnteredType ==
  ASSUME now \in Nat, NEW row \in RowType, NEW i \in Intents, NEW p \in Nat
  PROVE  Entered(row, i, p) \in RowType
BY NumberAssumption DEF Entered, RowType, Statuses

\* The row an exit makes.
LEMMA ExitedType ==
  ASSUME now \in Nat, NEW row \in RowType, NEW why \in Reasons, NEW p \in Nat
  PROVE  Exited(row, why, p) \in RowType
BY DEF Exited, RowType, Statuses

\* The absent row.
LEMMA NoRowType == NoRow \in RowType
BY DEF NoRow, RowType, Statuses, Reasons

\* The quotes a batched call returns.
LEMMA FetchType ==
  ASSUME TypeOK, NEW syms \in SUBSET Symbols, NEW live \in BOOLEAN
  PROVE  Fetch(syms, live) \in QuoteType
BY DEF Fetch, QuoteType, TypeOK

\* The session test is a truth value.
LEMMA SessionBool == SessionLive(now) \in BOOLEAN
BY DEF SessionLive

\* A task without quotes.
LEMMA NoQuoteType == NoQuote \in QuoteType
BY DEF NoQuote, QuoteType, NotPrinted

\* The prices picked from quotes.
LEMMA LtpTimeNat ==
  ASSUME NEW q \in QuoteType, NEW s \in Symbols
  PROVE  LtpTime(q, s) \in Nat /\ FillTime(q, s) \in Nat
BY PriorPrintNat DEF LtpTime, FillTime, QuoteType

\* A decision.
LEMMA DecidedType ==
  ASSUME NEW st \in {"PENDING", "OPEN", "REJECTED"}, NEW i \in Intents,
         NEW why \in Reasons, NEW p \in Nat
  PROVE  Decided(st, i, why, p) \in OpType
BY DEF Decided, OpType

\* The guarded UPDATE keeps the ledger's type.
LEMMA UpdateType ==
  ASSUME TypeOK, NEW i \in Intents, NEW s, NEW row \in RowType,
         UpdateWhere(i, s, row)
  PROVE  ledger' \in [Intents -> RowType]
BY DEF UpdateWhere, TypeOK

\* Every outcome of the entry gates is a decision.
LEMMA EntryDecisionType ==
  ASSUME TypeOK, NEW l \in TaskNames, NEW i \in Intents, NEW atFill,
         NEW p \in Nat, EntryDecision(l, i, atFill, p)
  PROVE  op' \in [TaskNames -> OpType \cup {NoOp}]
<1>1. CASE \E why \in GatesOf(i, FALSE, atFill) :
             op' = [op EXCEPT ![l] = Decided("REJECTED", i, why, 0)]
  <2>1. PICK why \in GatesOf(i, FALSE, atFill) :
             op' = [op EXCEPT ![l] = Decided("REJECTED", i, why, 0)]
    BY <1>1
  <2>2. why \in Reasons
    BY TaskAssumption DEF GatesOf, Reasons
  <2> QED BY <2>1, <2>2, DecidedType DEF TypeOK
<1>2. CASE op' = [op EXCEPT ![l] = IF Gross + Notional[i] > GrossCap
                                   THEN Decided("REJECTED", i, "gross_cap", 0)
                                   ELSE Decided("OPEN", i, "none", p)]
  <2>1. /\ Decided("REJECTED", i, "gross_cap", 0) \in OpType
        /\ Decided("OPEN", i, "none", p) \in OpType
    BY DecidedType DEF Reasons
  <2> QED BY <1>2, <2>1 DEF TypeOK
<1> QED BY <1>1, <1>2 DEF EntryDecision

\* A task that goes back to sleep has a state of the right type.
LEMMA RestType ==
  ASSUME TypeOK, NEW l \in TaskNames, Rest(l)
  PROVE  /\ pc' \in [TaskNames -> Stages]
         /\ since' \in [TaskNames -> Nat]
         /\ work' \in [TaskNames -> SUBSET Intents]
         /\ op' \in [TaskNames -> OpType \cup {NoOp}]
         /\ quote' \in [TaskNames -> QuoteType]
         /\ verdict' \in [Intents -> Verdicts]
         /\ tracked' \in [open : SUBSET Symbols, pending : SUBSET Symbols]
<1>1. pc' \in [TaskNames -> Stages] BY DEF Rest, TypeOK, Stages
<1>2. since' \in [TaskNames -> Nat] BY DEF Rest, TypeOK
<1>3. work' \in [TaskNames -> SUBSET Intents] BY DEF Rest, TypeOK
<1>4. op' \in [TaskNames -> OpType \cup {NoOp}] BY DEF Rest, TypeOK
<1>5. quote' \in [TaskNames -> QuoteType] BY NoQuoteType DEF Rest, TypeOK
<1>6. verdict' \in [Intents -> Verdicts] BY DEF Rest, TypeOK, Verdicts
<1>7. tracked' \in [open : SUBSET Symbols, pending : SUBSET Symbols]
  BY DEF Rest, TypeOK
<1> QED BY <1>1, <1>2, <1>3, <1>4, <1>5, <1>6, <1>7

\* A task that has done with an intent.
LEMMA FinishType ==
  ASSUME TypeOK, NEW l \in TaskNames, NEW rest \in SUBSET Intents, Finish(l, rest)
  PROVE  /\ pc' \in [TaskNames -> Stages]
         /\ since' \in [TaskNames -> Nat]
         /\ work' \in [TaskNames -> SUBSET Intents]
         /\ op' \in [TaskNames -> OpType \cup {NoOp}]
         /\ quote' \in [TaskNames -> QuoteType]
         /\ verdict' \in [Intents -> Verdicts]
         /\ tracked' \in [open : SUBSET Symbols, pending : SUBSET Symbols]
<1>1. CASE rest = {} BY <1>1, RestType DEF Finish
<1>2. CASE rest # {} BY <1>2 DEF Finish, TypeOK
<1> QED BY <1>1, <1>2

\* The row an insert makes.
LEMMA NewRowType ==
  ASSUME TypeOK, NEW w \in OpType
  PROVE  NewRow(w) \in RowType
<1>1. CASE w.status = "PENDING"
  BY <1>1, NoRowType DEF NewRow, RowType, Statuses, TypeOK, OpType
<1>2. CASE w.status = "OPEN"
  BY <1>2, NoRowType, EnteredType DEF NewRow, TypeOK, OpType
<1>3. CASE w.status = "REJECTED"
  BY <1>3, NoRowType DEF NewRow, RowType, Statuses, TypeOK, OpType
<1> QED BY <1>1, <1>2, <1>3 DEF OpType

\* The row a refusal makes.
LEMMA RejectedType ==
  ASSUME NEW row \in RowType, NEW why \in Reasons
  PROVE  [row EXCEPT !.status = "REJECTED", !.reason = why] \in RowType
BY DEF RowType, Statuses

\* The initial state is of the right type.
THEOREM TypeInit == Init => TypeOK
<1> SUFFICES ASSUME Init PROVE TypeOK OBVIOUS
<1>1. ledger \in [Intents -> RowType] BY NoRowType DEF Init
<1>2. now \in Nat /\ openAt \in [Symbols -> Nat] /\ faults \in Nat
  BY NumberAssumption DEF Init, NotPrinted
<1>3. position \in 0..Len(Reports) /\ committed \in 0..Len(Reports)
  BY ReportAssumption DEF Init
<1>4. /\ pc \in [TaskNames -> Stages]
      /\ since \in [TaskNames -> Nat]
      /\ work \in [TaskNames -> SUBSET Intents]
      /\ op \in [TaskNames -> OpType \cup {NoOp}]
      /\ lastProbe \in Nat
  BY DEF Init, FreshTasks, Stages
<1>5. /\ quote \in [TaskNames -> QuoteType]
      /\ verdict \in [Intents -> Verdicts]
      /\ tracked \in [open : SUBSET Symbols, pending : SUBSET Symbols]
  BY NoQuoteType DEF Init, FreshTasks, Verdicts
<1>6. manual \in [Users -> ExitRequest \cup {NoExit}]
  BY DEF Init
<1> QED BY <1>1, <1>2, <1>3, <1>4, <1>5, <1>6 DEF TypeOK

\* Every step of every task, request and fault keeps the types.
THEOREM TypeStep == TypeOK /\ [Next]_vars => TypeOK'
<1> SUFFICES ASSUME TypeOK, [Next]_vars PROVE TypeOK' OBVIOUS
<1>1. CASE Deliver
  <2>1. Reports[position + 1] \in SUBSET Intents
    BY <1>1, ReportAssumption DEF Deliver, TypeOK
  <2>2. position' \in 0..Len(Reports)
    BY <1>1, ReportAssumption DEF Deliver, TypeOK
  <2> QED BY <1>1, <2>1, <2>2 DEF Deliver, Begin, TypeOK, Stages, TaskNames
<1>2. CASE AutoCommit
  BY <1>2 DEF AutoCommit, TypeOK, taskVars
<1>3. CASE StartActing
  <2>1. PICK quoted \in SUBSET {i.symbol : i \in Evaluated} :
          quote' = [quote EXCEPT !["consumer"] = Fetch(quoted, SessionLive(now))]
    BY <1>3 DEF StartActing
  <2>2. quoted \in SUBSET Symbols
    BY IntentAssumption DEF Evaluated
  <2>3. Fetch(quoted, SessionLive(now)) \in QuoteType
    BY <2>2, FetchType, SessionBool
  <2>4. Evaluated \in SUBSET Intents BY DEF Evaluated
  <2> QED BY <1>3, <2>1, <2>3, <2>4 DEF StartActing, Goto, TypeOK, Stages
<1>4. CASE \E i \in Intents : Evaluate(i)
  <2>1. PICK i \in Intents : Evaluate(i) BY <1>4
  <2>2. verdict' \in [Intents -> Verdicts]
    BY <2>1 DEF Evaluate, TypeOK, Verdicts
  <2> QED BY <2>1, <2>2 DEF Evaluate, TypeOK
<1>5. CASE ScanStart
  <2>1. PICK arrived \in SUBSET SueRows :
          LET hits == {i \in arrived : ~LivePosition(i.symbol, "pead_long")}
          IN  /\ Begin("scan", "act", hits)
              /\ \E quoted \in SUBSET {i.symbol : i \in hits} :
                   quote' = [quote EXCEPT !["scan"] = Fetch(quoted, SessionLive(now))]
    BY <1>5 DEF ScanStart
  <2> DEFINE hits == {i \in arrived : ~LivePosition(i.symbol, "pead_long")}
  <2>2. hits \in SUBSET Intents BY ReportAssumption
  <2>3. PICK quoted \in SUBSET {i.symbol : i \in hits} :
          quote' = [quote EXCEPT !["scan"] = Fetch(quoted, SessionLive(now))]
    BY <2>1
  <2>4. quoted \in SUBSET Symbols BY <2>2, IntentAssumption
  <2>5. Fetch(quoted, SessionLive(now)) \in QuoteType
    BY <2>4, FetchType, SessionBool
  <2>6. Begin("scan", "act", hits) BY <2>1
  <2> HIDE DEF hits
  <2> QED BY <1>5, <2>2, <2>3, <2>5, <2>6
          DEF ScanStart, Begin, TypeOK, Stages, TaskNames
<1>6. ASSUME NEW l \in {"consumer", "scan"}, EntryNext(l) PROVE TypeOK'
  <2>0. l \in TaskNames BY DEF TaskNames
  <2>1. CASE Insert(l)
    <3>1. op[l] \in OpType BY <2>0, <2>1 DEF Insert, TypeOK
    <3>2. ledger' \in [Intents -> RowType]
      BY <2>1, <3>1, NewRowType, UpdateType DEF Insert, OpType
    <3>3. work[l] \ {op[l].row} \in SUBSET Intents BY <2>0 DEF TypeOK
    <3>4. Finish(l, work[l] \ {op[l].row}) BY <2>1 DEF Insert
    <3> QED BY <2>0, <2>1, <3>2, <3>3, <3>4, FinishType DEF Insert, TypeOK
  <2>2. CASE EngineError(l)
    <3> DEFINE rest == IF l = "consumer" THEN work[l] \ {op[l].row} ELSE {}
    <3>1. rest \in SUBSET Intents BY <2>0 DEF TypeOK
    <3>2. Finish(l, rest) BY <2>2 DEF EngineError
    <3> HIDE DEF rest
    <3> QED BY <2>0, <2>2, <3>1, <3>2, FinishType DEF EngineError, TypeOK
  <2>3. CASE \E i \in Intents : Act(l, i)
    <3>1. PICK i \in Intents : Act(l, i) BY <2>3
    <3>2. op' \in [TaskNames -> OpType \cup {NoOp}]
      <4>0. /\ quote[l] \in QuoteType
            /\ i.symbol \in Symbols
            /\ verdict[i] \in Reasons \cup {"pass"}
        BY <2>0, IntentAssumption DEF TypeOK, Verdicts, Reasons, RuleGates
      <4>1. CASE l = "consumer" /\ verdict[i] # "pass"
        <5>1. Decided("REJECTED", i, verdict[i], 0) \in OpType
          BY <4>0, <4>1, DecidedType
        <5> QED BY <3>1, <4>1, <5>1 DEF Act, TypeOK
      <4>2. CASE /\ l = "scan" \/ verdict[i] = "pass"
                 /\ ~(quote[l].live /\ i.symbol \in PrintedToday(quote[l]))
        <5>0. ~(l = "consumer" /\ verdict[i] # "pass") BY <4>2
        <5>1. \/ op' = [op EXCEPT ![l] = Decided("PENDING", i, "none", 0)]
              \/ \E why \in GatesOf(i, TRUE, FALSE) :
                   op' = [op EXCEPT ![l] = Decided("REJECTED", i, why, 0)]
          BY <3>1, <4>2, <5>0 DEF Act
        <5>2. Decided("PENDING", i, "none", 0) \in OpType
          BY DecidedType DEF Reasons
        <5>3. \A why \in GatesOf(i, TRUE, FALSE) :
                Decided("REJECTED", i, why, 0) \in OpType
          BY DecidedType, TaskAssumption DEF GatesOf, Reasons
        <5> QED BY <5>1, <5>2, <5>3 DEF TypeOK
      <4>3. CASE /\ l = "scan" \/ verdict[i] = "pass"
                 /\ quote[l].live /\ i.symbol \in PrintedToday(quote[l])
        <5>1. EntryDecision(l, i, FALSE, LtpTime(quote[l], i.symbol))
          BY <3>1, <4>3 DEF Act
        <5> QED BY <2>0, <4>0, <5>1, LtpTimeNat, EntryDecisionType
      <4> QED BY <4>1, <4>2, <4>3
    <3> QED BY <3>1, <3>2 DEF Act, TypeOK
  <2> QED BY <1>6, <2>1, <2>2, <2>3 DEF EntryNext
<1>7. CASE MtmStart
  <2>1. Expired \in SUBSET Intents BY DEF Expired, RowsWith
  <2>2. TrackedNow \in [open : SUBSET Symbols, pending : SUBSET Symbols]
    BY IntentAssumption DEF TrackedNow, RowsWith
  <2> QED BY <1>7, <2>1, <2>2 DEF MtmStart, Begin, TypeOK, Stages, TaskNames
<1>8. CASE MtmStep
  <2>0. "mtm" \in TaskNames /\ quote["mtm"] \in QuoteType BY DEF TaskNames, TypeOK
  <2>1. CASE MtmQuote
    <3>1. CASE tracked.open \cup tracked.pending = {}
      BY <2>0, <2>1, <3>1, RestType DEF MtmQuote, TypeOK
    <3>2. CASE tracked.open \cup tracked.pending # {}
      <4>1. PICK quoted \in SUBSET (tracked.open \cup tracked.pending) :
              LET q == Fetch(quoted, TRUE)
              IN  /\ quote' = [quote EXCEPT !["mtm"] = q]
                  /\ Goto("mtm", IF PrintedToday(q) \cap tracked.pending = {}
                                 THEN "mark" ELSE "fetch", {})
        BY <2>1, <3>2 DEF MtmQuote
      <4>2. Fetch(quoted, TRUE) \in QuoteType BY FetchType DEF TypeOK
      <4> QED BY <2>1, <3>2, <4>1, <4>2 DEF MtmQuote, Goto, TypeOK, Stages
    <3> QED BY <3>1, <3>2
  <2>2. CASE FillFetch
    BY <2>2 DEF FillFetch, Goto, TypeOK, Stages, RowsWith
  <2>3. CASE FillWrite
    <3>1. op["mtm"] \in OpType BY <2>0, <2>3 DEF FillWrite, TypeOK
    <3> DEFINE w == op["mtm"]
               row == IF w.status = "OPEN"
                      THEN Entered(ledger[w.row], w.row, w.priceAt)
                      ELSE [ledger[w.row] EXCEPT !.status = "REJECTED",
                                                 !.reason = w.reason]
    <3>2. row \in RowType
      BY <3>1, EnteredType, RejectedType DEF OpType, TypeOK
    <3>3. UpdateWhere(w.row, "PENDING", row) /\ w.row \in Intents
      BY <2>3, <3>1 DEF FillWrite, OpType
    <3>4. ledger' \in [Intents -> RowType]
      <4> HIDE DEF row, w
      <4> QED BY <3>2, <3>3, UpdateType
    <3> QED BY <2>3, <3>4 DEF FillWrite, TypeOK
  <2>4. CASE Mark
    <3>1. PICK d \in -Drift..Drift :
            ledger' = [i \in Intents |->
              IF ledger[i].status = "OPEN" /\ i.symbol \in quote["mtm"].ltp
              THEN [ledger[i] EXCEPT !.value = IF ledger[i].size + d > 0
                                               THEN ledger[i].size + d ELSE 0]
              ELSE ledger[i]]
      BY <2>4 DEF Mark
    <3>2. \A i \in Intents :
            [ledger[i] EXCEPT !.value = IF ledger[i].size + d > 0
                                        THEN ledger[i].size + d ELSE 0] \in RowType
      <4> SUFFICES ASSUME NEW i \in Intents
                   PROVE  [ledger[i] EXCEPT !.value =
                             IF ledger[i].size + d > 0
                             THEN ledger[i].size + d ELSE 0] \in RowType
        OBVIOUS
      <4>1. ledger[i] \in RowType BY DEF TypeOK
      <4>2. d \in Int BY NumberAssumption
      <4>3. (IF ledger[i].size + d > 0 THEN ledger[i].size + d ELSE 0) \in Nat
        BY <4>1, <4>2 DEF RowType
      <4> QED BY <4>1, <4>3 DEF RowType
    <3>3. ledger' \in [Intents -> RowType] BY <3>1, <3>2 DEF TypeOK
    <3> QED BY <2>4, <3>3 DEF Mark, Goto, TypeOK, Stages
  <2>5. CASE ExitFetch
    <3> DEFINE quotedRows ==
                 {i \in RowsWith({"OPEN"}) : i.symbol \in quote["mtm"].ltp}
               due == {i \in quotedRows : DueExit(i)}
    <3>1. PICK stopped \in SUBSET {i \in quotedRows : i.strategy # "pead_long"} :
            Goto("mtm", "exits", due \cup stopped)
      BY <2>5 DEF ExitFetch
    <3>2. due \cup stopped \in SUBSET Intents BY <3>1 DEF RowsWith
    <3>3. UNCHANGED <<ledger, now, openAt, position, committed, since, op, quote,
                      verdict, tracked, lastProbe, manual, faults>>
      BY <2>5 DEF ExitFetch
    <3> HIDE DEF due, quotedRows
    <3> QED BY <3>1, <3>2, <3>3 DEF Goto, TypeOK, Stages
  <2>6. CASE MtmDone
    BY <2>0, <2>6, RestType DEF MtmDone, TypeOK
  <2>7. ASSUME NEW i \in Intents, ExpireRow(i) PROVE TypeOK'
    <3>1. [ledger[i] EXCEPT !.status = "REJECTED", !.reason = "pending_expired"]
             \in RowType
      BY RejectedType DEF TypeOK, Reasons
    <3>2. ledger' \in [Intents -> RowType]
      BY <2>7, <3>1, UpdateType DEF ExpireRow
    <3> QED BY <2>7, <3>2 DEF ExpireRow, TypeOK
  <2>8. ASSUME NEW i \in Intents, FillDecide(i) PROVE TypeOK'
    <3>1. op' \in [TaskNames -> OpType \cup {NoOp}]
      BY <2>0, <2>8, EntryDecisionType, LtpTimeNat, IntentAssumption DEF FillDecide
    <3> QED BY <2>8, <3>1 DEF FillDecide, TypeOK
  <2>9. ASSUME NEW i \in Intents, ExitRow(i) PROVE TypeOK'
    <3>1. Exited(ledger[i], "exit_rule", LtpTime(quote["mtm"], i.symbol)) \in RowType
      BY <2>0, ExitedType, LtpTimeNat, IntentAssumption DEF TypeOK, Reasons
    <3>2. ledger' \in [Intents -> RowType]
      BY <2>9, <3>1, UpdateType DEF ExitRow
    <3> QED BY <2>9, <3>2 DEF ExitRow, TypeOK
  <2> QED BY <1>8, <2>1, <2>2, <2>3, <2>4, <2>5, <2>6, <2>7, <2>8, <2>9 DEF MtmStep
<1>9. CASE ProbeNext
  <2>1. CASE ProbeStart
    BY <2>1, NumberAssumption, DayNat
       DEF ProbeStart, Begin, TypeOK, Stages, TaskNames, RowsWith
  <2>2. ASSUME NEW i \in Intents, ProbeRow(i) PROVE TypeOK'
    <3>0. "preopen" \in TaskNames BY DEF TaskNames
    <3>1. [ledger[i] EXCEPT !.status = "REJECTED", !.reason = "preopen_veto"] \in RowType
      BY RejectedType DEF TypeOK, Reasons
    <3>2. ledger' \in [Intents -> RowType]
      BY <2>2, <3>1, UpdateType DEF ProbeRow, TypeOK
    <3>3. work["preopen"] \ {i} \in SUBSET Intents BY <3>0 DEF TypeOK
    <3>4. Finish("preopen", work["preopen"] \ {i}) BY <2>2 DEF ProbeRow
    <3> QED BY <2>2, <3>0, <3>2, <3>3, <3>4, FinishType DEF ProbeRow, TypeOK
  <2> QED BY <1>9, <2>1, <2>2 DEF ProbeNext
<1>10. CASE \E l \in {"mtm", "preopen"} : CycleFails(l)
  <2>1. PICK l \in {"mtm", "preopen"} : CycleFails(l) BY <1>10
  <2>2. l \in TaskNames BY DEF TaskNames
  <2> QED BY <2>1, <2>2, RestType DEF CycleFails, TypeOK
<1>11. ASSUME NEW u \in Users, ManualNext(u) PROVE TypeOK'
  <2>1. CASE ManualCancel(u)
    <3>1. manual[u] \in ExitRequest BY <2>1 DEF ManualCancel, TypeOK
    <3>2. manual[u].row \in Intents BY <3>1 DEF ExitRequest
    <3>3. [ledger[manual[u].row] EXCEPT !.status = "REJECTED",
                                        !.reason = "manual_cancel"] \in RowType
      BY <3>2, RejectedType DEF TypeOK, Reasons
    <3>4. ledger' \in [Intents -> RowType]
      BY <2>1, <3>2, <3>3, UpdateType DEF ManualCancel
    <3> QED BY <2>1, <3>4 DEF ManualCancel, TypeOK, taskVars
  <2>2. CASE ManualClose(u)
    <3>1. manual[u] \in ExitRequest BY <2>2 DEF ManualClose, TypeOK
    <3>2. manual[u].row \in Intents /\ manual[u].priceAt \in Nat
      BY <3>1 DEF ExitRequest
    <3>3. Exited(ledger[manual[u].row], "manual", manual[u].priceAt) \in RowType
      BY <3>2, ExitedType DEF TypeOK, Reasons
    <3>4. ledger' \in [Intents -> RowType]
      BY <2>2, <3>2, <3>3, UpdateType DEF ManualClose
    <3> QED BY <2>2, <3>4 DEF ManualClose, TypeOK, taskVars
  <2>3. ASSUME NEW i \in Intents, ManualRead(u, i) PROVE TypeOK'
    <3> DEFINE price == LtpTime(Fetch({i.symbol}, TRUE), i.symbol)
    <3>1. Fetch({i.symbol}, TRUE) \in QuoteType BY FetchType, IntentAssumption
    <3>2. price \in Nat BY <3>1, LtpTimeNat, IntentAssumption
    <3>3. \/ manual' = [manual EXCEPT ![u] =
               [pc |-> "cancel", row |-> i, priceAt |-> 0, since |-> now]]
          \/ manual' = [manual EXCEPT ![u] =
               [pc |-> "close", row |-> i, since |-> now, priceAt |-> price]]
      BY <2>3 DEF ManualRead
    <3> HIDE DEF price
    <3>4. manual' \in [Users -> ExitRequest \cup {NoExit}]
      BY <3>2, <3>3 DEF ExitRequest, TypeOK
    <3> QED BY <2>3, <3>4 DEF ManualRead, TypeOK, taskVars
  <2> QED BY <1>11, <2>1, <2>2, <2>3 DEF ManualNext
<1>12. CASE Tick
  BY <1>12 DEF Tick, TypeOK, taskVars, NotPrinted
<1>13. CASE \E s \in Symbols : FirstPrint(s)
  BY <1>13 DEF FirstPrint, TypeOK, taskVars
<1>14. CASE Crash
  <2>1. /\ quote' \in [TaskNames -> QuoteType]
        /\ verdict' \in [Intents -> Verdicts]
        /\ tracked' \in [open : SUBSET Symbols, pending : SUBSET Symbols]
    BY <1>14, NoQuoteType DEF Crash, Verdicts
  <2>2. /\ pc' \in [TaskNames -> Stages]
        /\ since' \in [TaskNames -> Nat]
        /\ work' \in [TaskNames -> SUBSET Intents]
        /\ op' \in [TaskNames -> OpType \cup {NoOp}]
        /\ lastProbe' \in Nat
    BY <1>14 DEF Crash, Stages
  <2> QED BY <1>14, <2>1, <2>2 DEF Crash, TypeOK
<1>15. CASE EvaluateFails
  BY <1>15, RestType DEF EvaluateFails, TypeOK, TaskNames
<1>16. CASE UNCHANGED vars
  BY <1>16 DEF vars, taskVars, TypeOK
<1> QED BY <1>1, <1>2, <1>3, <1>4, <1>5, <1>6, <1>7, <1>8, <1>9, <1>10, <1>11,
           <1>12, <1>13, <1>14, <1>15, <1>16 DEF Next, ConsumeNext

\* The variables of the ledger and of the tasks always have their types: a
\* decision is about a signal, the offsets are within the log.
THEOREM TypeCorrect == Spec => []TypeOK
BY TypeInit, TypeStep, PTL DEF Spec

(***************************************************************************)
(* The refinement: a row that has not been entered has no entry, a row     *)
(* that has not ended has no end.                                          *)
(***************************************************************************)
RowShape ==
  \A i \in Intents :
    /\ ledger[i].status \in {"NONE", "PENDING", "REJECTED"}
         => EntryOf(ledger[i]) = EntryOf(NoRow)
    /\ ledger[i].status \in {"NONE", "PENDING", "OPEN"}
         => EndOf(ledger[i]) = EndOf(NoRow)

\* A write that takes a row from `old` to `new` is one step of a row's life.
Legal(old, new) ==
  \/ /\ old.status = "NONE" /\ new.status = "PENDING"
     /\ EntryOf(new) = EntryOf(NoRow) /\ EndOf(new) = EndOf(NoRow)
  \/ /\ old.status \in {"NONE", "PENDING"} /\ new.status = "OPEN"
     /\ EndOf(new) = EndOf(NoRow)
  \/ /\ old.status \in {"NONE", "PENDING"} /\ new.status = "REJECTED"
     /\ EntryOf(new) = EntryOf(NoRow)
  \/ /\ old.status = "OPEN" /\ new.status = "CLOSED"
     /\ EntryOf(new) = EntryOf(old)

LifeStep == [Lifecycle!Next]_([i \in Intents |-> LifeOf(ledger[i])])

\* A legal write is a step of the abstract specification, and keeps RowShape.
LEMMA LegalUpdate ==
  ASSUME TypeOK, RowShape, NEW i \in Intents, NEW s, NEW row \in RowType,
         UpdateWhere(i, s, row), ledger[i].status = s => Legal(ledger[i], row)
  PROVE  RowShape' /\ LifeStep
<1>1. CASE ledger[i].status # s
  BY <1>1 DEF UpdateWhere, RowShape, LifeStep
<1>2. CASE ledger[i].status = s
  <2> DEFINE trade == [j \in Intents |-> LifeOf(ledger[j])]
  <2>1. ledger' = [ledger EXCEPT ![i] = row] /\ Legal(ledger[i], row)
    BY <1>2 DEF UpdateWhere
  <2>2. /\ ledger'[i] = row
        /\ \A j \in Intents : j # i => ledger'[j] = ledger[j]
    BY <2>1 DEF TypeOK
  <2>3. RowShape'
    BY <2>1, <2>2 DEF RowShape, Legal, EntryOf, EndOf, NoRow
  <2>4. trade' = [trade EXCEPT ![i] = LifeOf(row)]
    BY <2>2
  <2>5. trade[i] = LifeOf(ledger[i]) /\ trade'[i] = LifeOf(row)
    BY <2>2
  <2>6. Lifecycle!Queue(i) \/ Lifecycle!Enter(i) \/ Lifecycle!Refuse(i) \/ Lifecycle!Exit(i)
    <3>1. trade' = [trade EXCEPT ![i] = [status |-> row.status,
                      entry |-> EntryOf(row), end |-> EndOf(row)]]
      BY <2>4 DEF LifeOf
    <3>2. /\ trade[i].status = ledger[i].status
          /\ trade[i].entry = EntryOf(ledger[i])
          /\ trade'[i].entry = EntryOf(row)
          /\ trade'[i].end = EndOf(row)
      BY <2>5 DEF LifeOf
    <3> QED BY <2>1, <3>1, <3>2
            DEF Legal, Lifecycle!Queue, Lifecycle!Enter, Lifecycle!Refuse,
                Lifecycle!Exit, Lifecycle!Is, Lifecycle!Becomes
  <2> QED BY <2>3, <2>6 DEF LifeStep, Lifecycle!Next
<1> QED BY <1>1, <1>2

\* A step that writes no row.
LEMMA NoChange ==
  ASSUME RowShape, UNCHANGED ledger
  PROVE  RowShape' /\ LifeStep
BY DEF RowShape, LifeStep

\* Refusing a queued row is legal.
LEMMA RejectLegal ==
  ASSUME NEW i \in Intents, RowShape, NEW why \in Reasons, TypeOK,
         ledger[i].status = "PENDING"
  PROVE  Legal(ledger[i], [ledger[i] EXCEPT !.status = "REJECTED", !.reason = why])
BY DEF Legal, RowShape, EntryOf, TypeOK, RowType

\* Closing an open row is legal.
LEMMA ExitLegal ==
  ASSUME NEW i \in Intents, TypeOK, NEW why \in Reasons, NEW p \in Nat,
         ledger[i].status = "OPEN"
  PROVE  Legal(ledger[i], Exited(ledger[i], why, p))
BY DEF Legal, EntryOf, Exited, TypeOK, RowType

\* Filling a queued row is legal.
LEMMA EnterLegal ==
  ASSUME NEW i \in Intents, TypeOK, RowShape, NEW p \in Nat,
         ledger[i].status = "PENDING"
  PROVE  Legal(ledger[i], Entered(ledger[i], i, p))
BY DEF Legal, RowShape, EndOf, Entered, TypeOK, RowType

\* Inserting a row is legal.
LEMMA NewLegal ==
  ASSUME NEW i \in Intents, TypeOK, RowShape, NEW w \in OpType,
         ledger[i].status = "NONE"
  PROVE  Legal(ledger[i], NewRow(w))
BY DEF Legal, RowShape, EntryOf, EndOf, Entered, NewRow, NoRow, OpType

\* Every step of every task is one step of one row's life, or none.
THEOREM LifeStepOfNext ==
  TypeOK /\ RowShape /\ [Next]_vars => RowShape' /\ LifeStep
<1> SUFFICES ASSUME TypeOK, RowShape, [Next]_vars PROVE RowShape' /\ LifeStep OBVIOUS
<1>1. CASE UNCHANGED ledger BY <1>1, NoChange
<1>2. ASSUME NEW l \in {"consumer", "scan"}, Insert(l) PROVE RowShape' /\ LifeStep
  <2>1. op[l] \in OpType BY <1>2 DEF Insert, TypeOK, TaskNames
  <2>2. op[l].row \in Intents BY <2>1 DEF OpType
  <2>3. UpdateWhere(op[l].row, "NONE", NewRow(op[l])) BY <1>2 DEF Insert
  <2> QED BY <2>1, <2>2, <2>3, NewRowType, NewLegal, LegalUpdate
<1>3. CASE FillWrite
  <2> DEFINE w == op["mtm"]
  <2>1. w \in OpType BY <1>3 DEF FillWrite, TypeOK, TaskNames
  <2>2. w.row \in Intents /\ w.priceAt \in Nat /\ w.reason \in Reasons BY <2>1 DEF OpType
  <2>3. ledger[w.row] \in RowType BY <2>2 DEF TypeOK
  <2>4. CASE w.status = "OPEN"
    <3>1. UpdateWhere(w.row, "PENDING", Entered(ledger[w.row], w.row, w.priceAt))
      BY <1>3, <2>4 DEF FillWrite
    <3>2. Entered(ledger[w.row], w.row, w.priceAt) \in RowType
      BY <2>2, <2>3, EnteredType DEF TypeOK
    <3> HIDE DEF w
    <3> QED BY <2>2, <3>1, <3>2, EnterLegal, LegalUpdate
  <2>5. CASE w.status # "OPEN"
    <3>1. UpdateWhere(w.row, "PENDING", [ledger[w.row] EXCEPT !.status = "REJECTED",
                                                              !.reason = w.reason])
      BY <1>3, <2>5 DEF FillWrite
    <3>2. [ledger[w.row] EXCEPT !.status = "REJECTED", !.reason = w.reason] \in RowType
      BY <2>2, <2>3, RejectedType
    <3> HIDE DEF w
    <3> QED BY <2>2, <3>1, <3>2, RejectLegal, LegalUpdate
  <2> QED BY <2>4, <2>5
<1>4. CASE Mark
  <2>1. PICK d \in -Drift..Drift :
          ledger' = [i \in Intents |->
            IF ledger[i].status = "OPEN" /\ i.symbol \in quote["mtm"].ltp
            THEN [ledger[i] EXCEPT !.value = IF ledger[i].size + d > 0
                                             THEN ledger[i].size + d ELSE 0]
            ELSE ledger[i]]
    BY <1>4 DEF Mark
  <2>2. \A i \in Intents : LifeOf(ledger'[i]) = LifeOf(ledger[i])
                           /\ ledger'[i].status = ledger[i].status
                           /\ EntryOf(ledger'[i]) = EntryOf(ledger[i])
                           /\ EndOf(ledger'[i]) = EndOf(ledger[i])
    <3> SUFFICES ASSUME NEW i \in Intents
                 PROVE  /\ ledger'[i].status = ledger[i].status
                        /\ EntryOf(ledger'[i]) = EntryOf(ledger[i])
                        /\ EndOf(ledger'[i]) = EndOf(ledger[i])
      BY DEF LifeOf
    <3>1. ledger[i] \in RowType BY DEF TypeOK
    <3>2. \/ ledger'[i] = ledger[i]
          \/ ledger'[i] = [ledger[i] EXCEPT !.value = IF ledger[i].size + d > 0
                                                     THEN ledger[i].size + d ELSE 0]
      BY <2>1
    <3> QED BY <3>1, <3>2 DEF RowType, EntryOf, EndOf
  <2>3. RowShape' BY <2>2 DEF RowShape, NoRow
  <2> QED BY <2>2, <2>3 DEF LifeStep
<1>5. ASSUME NEW i \in Intents, ExpireRow(i) \/ ProbeRow(i)
      PROVE  RowShape' /\ LifeStep
  <2>1. CASE UNCHANGED ledger BY <2>1, NoChange
  <2>2. ASSUME NEW why \in {"pending_expired", "preopen_veto"},
               UpdateWhere(i, "PENDING", [ledger[i] EXCEPT !.status = "REJECTED",
                                                           !.reason = why])
        PROVE  RowShape' /\ LifeStep
    <3>1. why \in Reasons BY DEF Reasons
    <3>2. [ledger[i] EXCEPT !.status = "REJECTED", !.reason = why] \in RowType
      BY <3>1, RejectedType DEF TypeOK
    <3> QED BY <2>2, <3>1, <3>2, RejectLegal, LegalUpdate
  <2> QED BY <1>5, <2>1, <2>2 DEF ExpireRow, ProbeRow
<1>6. ASSUME NEW i \in Intents, ExitRow(i) PROVE RowShape' /\ LifeStep
  <2> DEFINE price == LtpTime(quote["mtm"], i.symbol)
  <2>1. price \in Nat BY LtpTimeNat, IntentAssumption DEF TypeOK, TaskNames
  <2>2. Exited(ledger[i], "exit_rule", price) \in RowType
    BY <2>1, ExitedType DEF TypeOK, Reasons
  <2>3. UpdateWhere(i, "OPEN", Exited(ledger[i], "exit_rule", price))
    BY <1>6 DEF ExitRow
  <2> HIDE DEF price
  <2> QED BY <2>1, <2>2, <2>3, ExitLegal, LegalUpdate DEF Reasons
<1>7. ASSUME NEW u \in Users, ManualCancel(u) PROVE RowShape' /\ LifeStep
  <2> DEFINE i == manual[u].row
  <2>1. i \in Intents BY <1>7 DEF ManualCancel, TypeOK, ExitRequest
  <2>2. "manual_cancel" \in Reasons BY DEF Reasons
  <2>3. [ledger[i] EXCEPT !.status = "REJECTED", !.reason = "manual_cancel"] \in RowType
    BY <2>1, <2>2, RejectedType DEF TypeOK
  <2>4. UpdateWhere(i, "PENDING", [ledger[i] EXCEPT !.status = "REJECTED",
                                                    !.reason = "manual_cancel"])
    BY <1>7 DEF ManualCancel
  <2> HIDE DEF i
  <2> QED BY <2>1, <2>2, <2>3, <2>4, RejectLegal, LegalUpdate
<1>8. ASSUME NEW u \in Users, ManualClose(u) PROVE RowShape' /\ LifeStep
  <2> DEFINE i == manual[u].row
             price == manual[u].priceAt
  <2>1. i \in Intents /\ price \in Nat
    BY <1>8 DEF ManualClose, TypeOK, ExitRequest
  <2>2. "manual" \in Reasons BY DEF Reasons
  <2>3. Exited(ledger[i], "manual", price) \in RowType
    BY <2>1, <2>2, ExitedType DEF TypeOK
  <2>4. UpdateWhere(i, "OPEN", Exited(ledger[i], "manual", price))
    BY <1>8 DEF ManualClose
  <2> HIDE DEF i, price
  <2> QED BY <2>1, <2>2, <2>3, <2>4, ExitLegal, LegalUpdate
<1> QED
  BY <1>1, <1>2, <1>3, <1>4, <1>5, <1>6, <1>7, <1>8
  DEF Next, ConsumeNext, EntryNext, MtmStep, ProbeNext, ManualNext, vars,
      Deliver, AutoCommit, Evaluate, StartActing, EvaluateFails, ScanStart, Act,
      EngineError,
      MtmStart, MtmQuote, FillFetch, FillDecide, ExitFetch, MtmDone, CycleFails,
      ProbeStart, ManualRead, Tick, FirstPrint, Crash

\* The consumer, the scan, the mark-to-market cycle, the probe and manual
\* exits together treat each row of paper_trades as TradeLifecycle says,
\* crashes and redelivery included: the guarded UPDATEs and the unique key
\* leave exactly one winner.
THEOREM LedgerImplementsLifecycle == Spec => ImplementsLifecycle
<1>1. Init => RowShape /\ Lifecycle!Init
  BY DEF Init, RowShape, Lifecycle!Init, LifeOf, NoRow
<1>2. TypeOK /\ RowShape /\ [Next]_vars => RowShape' /\ LifeStep
  BY LifeStepOfNext
<1> QED BY <1>1, <1>2, TypeCorrect, PTL
        DEF Spec, ImplementsLifecycle, Lifecycle!Spec, LifeStep

(***************************************************************************)
(* Concentration.  The consumer's guard is a read that is old by the time  *)
(* of its insert, and no lock is held.  It holds because only the consumer *)
(* makes live rows outside SueRows, because all intents in its hands are   *)
(* of one event, so no two of them share symbol and strategy, and because  *)
(* a passed intent stays the only live candidate for its position.         *)
(***************************************************************************)
Handled == work["consumer"] \cup Evaluated

OneEvent == \A i, j \in Handled : i.impact = j.impact

IdleClean == pc["consumer"] = "idle" => Handled = {} /\ op["consumer"] = NoOp

EntersPassed ==
  op["consumer"] # NoOp =>
    /\ pc["consumer"] = "act"
    /\ op["consumer"].status # "REJECTED" => verdict[op["consumer"].row] = "pass"

ScanOnlySue ==
  /\ work["scan"] \subseteq SueRows
  /\ op["scan"] # NoOp => op["scan"].row \in SueRows

PassAlone ==
  \A i \in Intents \ SueRows : verdict[i] = "pass" =>
    \A j \in RowsWith(Live) \ SueRows : SamePosition(i, j) => i = j

ConcentrationInv ==
  /\ OneEvent /\ IdleClean /\ EntersPassed /\ ScanOnlySue
  /\ PassAlone /\ ConsumerConcentration

\* Two intents in the consumer's hands are never for the same position.
LEMMA HandledApart ==
  ASSUME OneEvent, NEW i \in Handled, NEW j \in Handled, SamePosition(i, j),
         i \in Intents, j \in Intents
  PROVE  i = j
BY KeyAssumption DEF OneEvent, SamePosition

\* An update of a live row makes no row live.
LEMMA UpdateShrinks ==
  ASSUME TypeOK, NEW i \in Intents, NEW s \in Live, NEW row, UpdateWhere(i, s, row)
  PROVE  RowsWith(Live)' \subseteq RowsWith(Live)
BY DEF UpdateWhere, RowsWith, TypeOK

\* Only an insert makes a row live, and only the row it inserts.
LEMMA OnlyInsertAdds ==
  ASSUME TypeOK, [Next]_vars, ~Insert("consumer"), ~Insert("scan")
  PROVE  RowsWith(Live)' \subseteq RowsWith(Live)
<1>1. CASE UNCHANGED ledger BY <1>1 DEF RowsWith
<1>2. CASE FillWrite
  <2>1. op["mtm"].row \in Intents BY <1>2 DEF FillWrite, TypeOK, TaskNames, OpType
  <2>2. "PENDING" \in Live BY DEF Live
  <2> QED BY <1>2, <2>1, <2>2, UpdateShrinks DEF FillWrite
<1>3. CASE Mark
  <2>1. \A i \in Intents : ledger'[i].status = ledger[i].status
    <3>1. PICK d \in -Drift..Drift :
            ledger' = [i \in Intents |->
              IF ledger[i].status = "OPEN" /\ i.symbol \in quote["mtm"].ltp
              THEN [ledger[i] EXCEPT !.value = IF ledger[i].size + d > 0
                                               THEN ledger[i].size + d ELSE 0]
              ELSE ledger[i]]
      BY <1>3 DEF Mark
    <3> QED BY <3>1 DEF TypeOK, RowType
  <2> QED BY <2>1 DEF RowsWith
<1>4. ASSUME NEW i \in Intents, ExpireRow(i) \/ ProbeRow(i) \/ ExitRow(i)
      PROVE  RowsWith(Live)' \subseteq RowsWith(Live)
  <2>1. "PENDING" \in Live /\ "OPEN" \in Live BY DEF Live
  <2> QED BY <1>1, <1>4, <2>1, UpdateShrinks DEF ExpireRow, ProbeRow, ExitRow
<1>5. ASSUME NEW u \in Users, ManualCancel(u) \/ ManualClose(u)
      PROVE  RowsWith(Live)' \subseteq RowsWith(Live)
  <2>1. "PENDING" \in Live /\ "OPEN" \in Live BY DEF Live
  <2>2. manual[u].row \in Intents
    BY <1>5 DEF ManualCancel, ManualClose, TypeOK, ExitRequest
  <2> QED BY <1>5, <2>1, <2>2, UpdateShrinks DEF ManualCancel, ManualClose
<1> QED
  BY <1>1, <1>2, <1>3, <1>4, <1>5
  DEF Next, ConsumeNext, EntryNext, MtmStep, ProbeNext, ManualNext, vars,
      Deliver, AutoCommit, Evaluate, StartActing, EvaluateFails, ScanStart, Act,
      EngineError,
      MtmStart, MtmQuote, FillFetch, FillDecide, ExitFetch, MtmDone, CycleFails,
      ProbeStart, ManualRead, Tick, FirstPrint, Crash

\* If no row becomes live and no verdict becomes "pass", both facts about
\* live rows stay.
LEMMA StillAlone ==
  ASSUME PassAlone, ConsumerConcentration,
         RowsWith(Live)' \subseteq RowsWith(Live),
         \A i \in Intents : verdict'[i] = "pass" => verdict[i] = "pass"
  PROVE  PassAlone' /\ ConsumerConcentration'
BY DEF PassAlone, ConsumerConcentration

\* What the bodies of the other tasks leave alone.
LEMMA OtherTaskRests ==
  ASSUME TypeOK, NEW l \in TaskNames \ {"consumer", "scan"}, Rest(l)
  PROVE  /\ UNCHANGED verdict
         /\ \A k \in {"consumer", "scan"} :
              /\ pc'[k] = pc[k] /\ work'[k] = work[k] /\ op'[k] = op[k]
BY DEF Rest, TypeOK, TaskNames

\* A body of another task begins.
LEMMA OtherTaskBegins ==
  ASSUME TypeOK, NEW l \in TaskNames \ {"consumer", "scan"}, NEW stage, NEW todo,
         Begin(l, stage, todo)
  PROVE  \A k \in {"consumer", "scan"} : pc'[k] = pc[k] /\ work'[k] = work[k]
BY DEF Begin, TypeOK, TaskNames

\* Steps that do not touch what the consumer and the scan hold.
LEMMA Elsewhere ==
  ASSUME ConcentrationInv, UNCHANGED verdict,
         \A k \in {"consumer", "scan"} :
            pc'[k] = pc[k] /\ work'[k] = work[k] /\ op'[k] = op[k],
         RowsWith(Live)' \subseteq RowsWith(Live)
  PROVE  ConcentrationInv'
<1>1. PassAlone' /\ ConsumerConcentration' BY StillAlone DEF ConcentrationInv
<1>2. Handled' = Handled BY DEF Handled, Evaluated
<1>3. (OneEvent /\ IdleClean /\ EntersPassed /\ ScanOnlySue)'
  BY <1>2 DEF ConcentrationInv, OneEvent, IdleClean, EntersPassed, ScanOnlySue
<1> QED BY <1>1, <1>3 DEF ConcentrationInv

\* What Finish does to the consumer and the scan.
LEMMA FinishKeeps ==
  ASSUME TypeOK, ConcentrationInv, NEW l \in {"consumer", "scan"},
         NEW rest \in SUBSET work[l], Finish(l, rest)
  PROVE  /\ (OneEvent /\ IdleClean /\ EntersPassed /\ ScanOnlySue)'
         /\ \A i \in Intents : verdict'[i] = "pass" => verdict[i] = "pass"
<1>1. CASE l = "consumer"
  <2>1. CASE rest = {}
    <3>1. /\ verdict' = [i \in Intents |-> "none"]
          /\ work'["consumer"] = {} /\ op'["consumer"] = NoOp
          /\ work'["scan"] = work["scan"] /\ op'["scan"] = op["scan"]
      BY <1>1, <2>1 DEF Finish, Rest, TypeOK, TaskNames
    <3>2. Handled' = {} BY <3>1 DEF Handled, Evaluated
    <3> QED BY <3>1, <3>2
            DEF ConcentrationInv, OneEvent, IdleClean, EntersPassed, ScanOnlySue
  <2>2. CASE rest # {}
    <3>1. /\ verdict' = verdict /\ pc' = pc
          /\ work'["consumer"] = rest /\ op'["consumer"] = NoOp
          /\ work'["scan"] = work["scan"] /\ op'["scan"] = op["scan"]
      BY <1>1, <2>2 DEF Finish, TypeOK, TaskNames
    <3>2. Handled' \subseteq Handled BY <1>1, <3>1 DEF Handled, Evaluated
    <3>3. pc["consumer"] # "idle"
      BY <1>1, <2>2 DEF ConcentrationInv, IdleClean, Handled
    <3> QED BY <3>1, <3>2, <3>3
            DEF ConcentrationInv, OneEvent, IdleClean, EntersPassed, ScanOnlySue
  <2> QED BY <2>1, <2>2
<1>2. CASE l = "scan"
  <2>1. /\ verdict' = verdict /\ pc'["consumer"] = pc["consumer"]
        /\ work'["consumer"] = work["consumer"] /\ op'["consumer"] = op["consumer"]
        /\ work'["scan"] \subseteq work["scan"] /\ op'["scan"] = NoOp
    BY <1>2 DEF Finish, Rest, TypeOK, TaskNames
  <2>2. Handled' = Handled BY <2>1 DEF Handled, Evaluated
  <2> QED BY <2>1, <2>2
          DEF ConcentrationInv, OneEvent, IdleClean, EntersPassed, ScanOnlySue
<1> QED BY <1>1, <1>2

\* Deciding a write: the consumer enters or queues only what passed.
LEMMA ActDecides ==
  ASSUME TypeOK, NEW l \in {"consumer", "scan"}, NEW i \in Intents, Act(l, i)
  PROVE  /\ op'[l].row = i
         /\ \A k \in TaskNames \ {l} : op'[k] = op[k]
         /\ l = "consumer" /\ op'[l].status # "REJECTED" => verdict[i] = "pass"
<1>0. l \in TaskNames BY DEF TaskNames
<1>1. ASSUME NEW w, op' = [op EXCEPT ![l] = w]
      PROVE  op'[l] = w /\ \A k \in TaskNames \ {l} : op'[k] = op[k]
  BY <1>0, <1>1 DEF TypeOK
<1>2. CASE l = "consumer" /\ verdict[i] # "pass"
  <2>1. op' = [op EXCEPT ![l] = Decided("REJECTED", i, verdict[i], 0)]
    BY <1>2 DEF Act
  <2> QED BY <1>1, <2>1 DEF Decided
<1>3. CASE ~(l = "consumer" /\ verdict[i] # "pass")
  <2>1. \/ op' = [op EXCEPT ![l] = Decided("PENDING", i, "none", 0)]
        \/ \E why \in GatesOf(i, TRUE, FALSE) :
             op' = [op EXCEPT ![l] = Decided("REJECTED", i, why, 0)]
        \/ EntryDecision(l, i, FALSE, LtpTime(quote[l], i.symbol))
    BY <1>3 DEF Act
  <2>2. ASSUME NEW st, NEW why, NEW p,
               op' = [op EXCEPT ![l] = Decided(st, i, why, p)]
        PROVE  op'[l].row = i /\ \A k \in TaskNames \ {l} : op'[k] = op[k]
    BY <1>1, <2>2 DEF Decided
  <2>3. CASE EntryDecision(l, i, FALSE, LtpTime(quote[l], i.symbol))
    <3>1. \E st, why, p : op' = [op EXCEPT ![l] = Decided(st, i, why, p)]
      BY <2>3 DEF EntryDecision
    <3> QED BY <1>3, <2>2, <3>1
  <2> QED BY <1>3, <2>1, <2>2, <2>3
<1> QED BY <1>2, <1>3

\* Every step keeps the strengthened concentration invariant.
THEOREM ConcentrationStep ==
  TypeOK /\ ConcentrationInv /\ [Next]_vars => ConcentrationInv'
<1> SUFFICES ASSUME TypeOK, ConcentrationInv, [Next]_vars PROVE ConcentrationInv'
  OBVIOUS
<1>0. /\ "consumer" \in TaskNames /\ "scan" \in TaskNames
      /\ "mtm" \in TaskNames /\ "preopen" \in TaskNames
  BY DEF TaskNames
<1>1. CASE Deliver
  <2>1. /\ pc["consumer"] = "idle" /\ verdict' = verdict /\ op' = op
        /\ work' = [work EXCEPT !["consumer"] = Reports[position + 1]]
        /\ pc' = [pc EXCEPT !["consumer"] = "evaluate"]
        /\ UNCHANGED ledger
    BY <1>1 DEF Deliver, Begin
  <2>2. Evaluated = {} /\ op["consumer"] = NoOp
    BY <2>1 DEF ConcentrationInv, IdleClean, Handled
  <2>3. Handled' = Reports[position + 1]
    BY <1>0, <2>1, <2>2 DEF Handled, Evaluated, TypeOK
  <2>4. \A i, j \in Reports[position + 1] : i.impact = j.impact
    BY <1>1, ReportAssumption DEF Deliver, TypeOK
  <2>5. PassAlone' /\ ConsumerConcentration'
    BY <2>1, StillAlone DEF ConcentrationInv, RowsWith
  <2>6. pc'["consumer"] = "evaluate" /\ work'["scan"] = work["scan"]
    BY <1>0, <2>1 DEF TypeOK
  <2> QED BY <2>1, <2>2, <2>3, <2>4, <2>5, <2>6
          DEF ConcentrationInv, OneEvent, IdleClean, EntersPassed, ScanOnlySue
<1>2. ASSUME NEW i \in Intents, Evaluate(i) PROVE ConcentrationInv'
  <2>1. PICK v : /\ verdict' = [verdict EXCEPT ![i] = v]
                 /\ v # "none"
                 /\ v = "pass" => ~LivePosition(i.symbol, i.strategy)
    BY <1>2, TaskAssumption DEF Evaluate, RuleGates, EntryGates
  <2>2. /\ i \in work["consumer"] /\ pc["consumer"] = "evaluate"
        /\ work' = [work EXCEPT !["consumer"] = @ \ {i}]
        /\ UNCHANGED <<pc, op, ledger>>
    BY <1>2 DEF Evaluate
  <2>3. Handled' = Handled
    BY <1>0, <2>1, <2>2 DEF Handled, Evaluated, TypeOK
  <2>4. PassAlone' /\ ConsumerConcentration'
    <3>1. RowsWith(Live)' = RowsWith(Live) BY <2>2 DEF RowsWith
    <3>2. ASSUME NEW k \in Intents \ SueRows, verdict'[k] = "pass",
                 NEW j \in RowsWith(Live) \ SueRows, SamePosition(k, j)
          PROVE  k = j
      <4>1. CASE k = i
        <5>1. v = "pass" BY <2>1, <3>2, <4>1 DEF TypeOK
        <5> QED BY <2>1, <3>2, <4>1, <5>1 DEF LivePosition, SamePosition
      <4>2. CASE k # i
        <5>1. verdict[k] = "pass" BY <2>1, <3>2, <4>2 DEF TypeOK
        <5> QED BY <3>2, <5>1 DEF ConcentrationInv, PassAlone
      <4> QED BY <4>1, <4>2
    <3> QED BY <3>1, <3>2 DEF ConcentrationInv, PassAlone, ConsumerConcentration
  <2>5. EntersPassed'
    <3>1. op["consumer"] = NoOp
      BY <2>2 DEF ConcentrationInv, EntersPassed
    <3> QED BY <2>2, <3>1 DEF EntersPassed
  <2>6. work'["scan"] = work["scan"] BY <1>0, <2>2 DEF TypeOK
  <2> QED BY <2>2, <2>3, <2>4, <2>5, <2>6
          DEF ConcentrationInv, OneEvent, IdleClean, ScanOnlySue
<1>3. CASE StartActing
  <2>1. /\ pc["consumer"] = "evaluate" /\ UNCHANGED <<verdict, op, ledger>>
        /\ work' = [work EXCEPT !["consumer"] = Evaluated]
        /\ pc' = [pc EXCEPT !["consumer"] = "act"]
    BY <1>3 DEF StartActing, Goto
  <2>2. Handled' \subseteq Handled /\ pc'["consumer"] = "act"
        /\ work'["scan"] = work["scan"]
    BY <1>0, <2>1 DEF Handled, Evaluated, TypeOK
  <2>3. PassAlone' /\ ConsumerConcentration'
    BY <2>1, StillAlone DEF ConcentrationInv, RowsWith
  <2> QED BY <2>1, <2>2, <2>3
          DEF ConcentrationInv, OneEvent, IdleClean, EntersPassed, ScanOnlySue
<1>4. CASE ScanStart
  <2>1. PICK arrived \in SUBSET SueRows :
          Begin("scan", "act",
                {i \in arrived : ~LivePosition(i.symbol, "pead_long")})
    BY <1>4 DEF ScanStart
  <2>2. /\ work'["scan"] \subseteq SueRows
        /\ work'["consumer"] = work["consumer"]
        /\ pc'["consumer"] = pc["consumer"]
    BY <1>0, <2>1 DEF Begin, TypeOK
  <2>3. UNCHANGED <<verdict, op, ledger>> BY <1>4 DEF ScanStart
  <2>4. PassAlone' /\ ConsumerConcentration'
    BY <2>3, StillAlone DEF ConcentrationInv, RowsWith
  <2>5. Handled' = Handled BY <2>2, <2>3 DEF Handled, Evaluated
  <2> QED BY <2>2, <2>3, <2>4, <2>5
          DEF ConcentrationInv, OneEvent, IdleClean, EntersPassed, ScanOnlySue
<1>5. ASSUME NEW l \in {"consumer", "scan"}, NEW i \in Intents, Act(l, i)
      PROVE  ConcentrationInv'
  <2>1. /\ op'[l].row = i
        /\ \A k \in TaskNames \ {l} : op'[k] = op[k]
        /\ l = "consumer" /\ op'[l].status # "REJECTED" => verdict[i] = "pass"
    BY <1>5, ActDecides
  <2>2. /\ i \in work[l] /\ pc[l] = "act"
        /\ UNCHANGED <<pc, work, verdict, ledger>>
    BY <1>5 DEF Act
  <2>3. PassAlone' /\ ConsumerConcentration'
    BY <2>2, StillAlone DEF ConcentrationInv, RowsWith
  <2>4. Handled' = Handled BY <2>2 DEF Handled, Evaluated
  <2>5. EntersPassed' /\ ScanOnlySue' /\ IdleClean'
    BY <1>0, <2>1, <2>2, <2>4
       DEF ConcentrationInv, EntersPassed, ScanOnlySue, IdleClean
  <2> QED BY <2>3, <2>4, <2>5 DEF ConcentrationInv, OneEvent
<1>6. CASE Insert("consumer")
  <2> DEFINE r == op["consumer"].row
  <2>1. op["consumer"] \in OpType BY <1>0, <1>6 DEF Insert, TypeOK
  <2>2. /\ Finish("consumer", work["consumer"] \ {r})
        /\ UpdateWhere(r, "NONE", NewRow(op["consumer"]))
    BY <1>6 DEF Insert
  <2>3. /\ (OneEvent /\ IdleClean /\ EntersPassed /\ ScanOnlySue)'
        /\ \A i \in Intents : verdict'[i] = "pass" => verdict[i] = "pass"
    BY <2>2, FinishKeeps
  <2>4. CASE RowsWith(Live)' \subseteq RowsWith(Live)
    BY <2>3, <2>4, StillAlone DEF ConcentrationInv
  <2>5. CASE ~(RowsWith(Live)' \subseteq RowsWith(Live))
    <3>1. ledger[r].status = "NONE" /\ ledger' = [ledger EXCEPT ![r] = NewRow(op["consumer"])]
      BY <2>2, <2>5 DEF UpdateWhere, RowsWith
    <3>2. RowsWith(Live)' \subseteq RowsWith(Live) \cup {r}
      BY <3>1 DEF RowsWith, TypeOK
    <3>3. r \in Intents /\ r \notin RowsWith(Live)
      BY <2>1, <3>1 DEF OpType, RowsWith, Live
    <3>4. op["consumer"].status # "REJECTED"
      <4>1. SUFFICES ASSUME op["consumer"].status = "REJECTED"
                     PROVE  r \notin RowsWith(Live)'
        BY <2>5, <3>2
      <4>2. ledger'[r].status = "REJECTED"
        BY <3>1, <3>3, <4>1 DEF NewRow, NoRow, TypeOK
      <4> QED BY <4>2 DEF RowsWith, Live
    <3>5. verdict[r] = "pass"
      BY <1>6, <3>4 DEF ConcentrationInv, EntersPassed, Insert
    <3>6. r \in Handled BY <3>3, <3>5 DEF Handled, Evaluated
    <3>7. ConsumerConcentration'
      BY <3>2, <3>3, <3>5
         DEF ConcentrationInv, ConsumerConcentration, PassAlone, SamePosition
    <3>8. PassAlone'
      <4>1. SUFFICES ASSUME NEW i \in Intents \ SueRows, verdict'[i] = "pass",
                            NEW j \in RowsWith(Live)' \ SueRows, SamePosition(i, j)
                     PROVE  i = j
        BY DEF PassAlone
      <4>2. verdict[i] = "pass" BY <2>3, <4>1
      <4>3. CASE j = r
        <5>1. i \in Handled BY <4>2 DEF Handled, Evaluated
        <5> QED BY <3>3, <3>6, <4>1, <4>3, <5>1, HandledApart DEF ConcentrationInv
      <4>4. CASE j # r
        BY <3>2, <4>1, <4>2, <4>4 DEF ConcentrationInv, PassAlone
      <4> QED BY <4>3, <4>4
    <3> QED BY <2>3, <3>7, <3>8 DEF ConcentrationInv
  <2> QED BY <2>4, <2>5
     , <2>3 DEF ConcentrationInv
<1>7. CASE Insert("scan")
  <2> DEFINE r == op["scan"].row
  <2>1. r \in SueRows BY <1>7 DEF Insert, ConcentrationInv, ScanOnlySue
  <2>2. /\ Finish("scan", work["scan"] \ {r})
        /\ UpdateWhere(r, "NONE", NewRow(op["scan"]))
    BY <1>7 DEF Insert
  <2>3. /\ (OneEvent /\ IdleClean /\ EntersPassed /\ ScanOnlySue)'
        /\ \A i \in Intents : verdict'[i] = "pass" => verdict[i] = "pass"
    BY <2>2, FinishKeeps
  <2>4. RowsWith(Live)' \ SueRows \subseteq RowsWith(Live) \ SueRows
    BY <2>1, <2>2 DEF UpdateWhere, RowsWith, TypeOK
  <2>5. PassAlone' /\ ConsumerConcentration'
    BY <2>3, <2>4 DEF ConcentrationInv, PassAlone, ConsumerConcentration
  <2> QED BY <2>3, <2>5 DEF ConcentrationInv
<1>8. ASSUME NEW l \in {"consumer", "scan"}, EngineError(l) PROVE ConcentrationInv'
  <2> DEFINE rest == IF l = "consumer" THEN work[l] \ {op[l].row} ELSE {}
  <2>1. Finish(l, rest) /\ UNCHANGED ledger /\ rest \in SUBSET work[l]
    BY <1>8 DEF EngineError
  <2> HIDE DEF rest
  <2>2. /\ (OneEvent /\ IdleClean /\ EntersPassed /\ ScanOnlySue)'
        /\ \A i \in Intents : verdict'[i] = "pass" => verdict[i] = "pass"
    BY <2>1, FinishKeeps
  <2>3. PassAlone' /\ ConsumerConcentration'
    BY <2>1, <2>2, StillAlone DEF ConcentrationInv, RowsWith
  <2> QED BY <2>2, <2>3 DEF ConcentrationInv
<1>9. CASE Crash
  <2>1. /\ verdict' = [i \in Intents |-> "none"] /\ UNCHANGED ledger
        /\ \A l \in TaskNames : work'[l] = {} /\ op'[l] = NoOp
    BY <1>9 DEF Crash
  <2>2. Handled' = {} BY <1>0, <2>1 DEF Handled, Evaluated
  <2>3. PassAlone' /\ ConsumerConcentration'
    BY <2>1, StillAlone DEF ConcentrationInv, RowsWith
  <2> QED BY <1>0, <2>1, <2>2, <2>3
          DEF ConcentrationInv, OneEvent, IdleClean, EntersPassed, ScanOnlySue
<1>10. CASE \/ MtmStart \/ MtmStep \/ ProbeNext
            \/ \E l \in {"mtm", "preopen"} : CycleFails(l)
            \/ \E u \in Users : ManualNext(u)
            \/ Tick \/ AutoCommit \/ \E s \in Symbols : FirstPrint(s)
            \/ UNCHANGED vars
  <2>1. /\ UNCHANGED verdict
        /\ \A k \in {"consumer", "scan"} :
             pc'[k] = pc[k] /\ work'[k] = work[k] /\ op'[k] = op[k]
    <3>1. CASE Tick \/ AutoCommit \/ (\E s \in Symbols : FirstPrint(s))
               \/ UNCHANGED vars \/ \E u \in Users : ManualNext(u)
      BY <3>1 DEF Tick, AutoCommit, FirstPrint, vars, taskVars, ManualNext,
                  ManualRead, ManualCancel, ManualClose
    <3>2. ASSUME NEW l \in {"mtm", "preopen"}, Rest(l)
          PROVE  /\ UNCHANGED verdict
                 /\ \A k \in {"consumer", "scan"} :
                      pc'[k] = pc[k] /\ work'[k] = work[k] /\ op'[k] = op[k]
      BY <1>0, <3>2, OtherTaskRests
    <3>3. CASE \E l \in {"mtm", "preopen"} : CycleFails(l)
      BY <3>2, <3>3 DEF CycleFails
    <3>4. CASE ProbeNext
      <4>1. CASE ProbeStart
        BY <1>0, <4>1, OtherTaskBegins DEF ProbeStart
      <4>2. ASSUME NEW i \in Intents, Finish("preopen", work["preopen"] \ {i})
            PROVE  /\ UNCHANGED verdict
                   /\ \A k \in {"consumer", "scan"} :
                        pc'[k] = pc[k] /\ work'[k] = work[k] /\ op'[k] = op[k]
        BY <1>0, <3>2, <4>2 DEF Finish, TypeOK
      <4> QED BY <3>4, <4>1, <4>2 DEF ProbeNext, ProbeRow
    <3>5. CASE MtmStart
      BY <1>0, <3>5, OtherTaskBegins DEF MtmStart
    <3>6. CASE MtmStep
      <4>1. CASE MtmQuote
        <5>1. CASE Rest("mtm") BY <3>2, <5>1
        <5>2. ASSUME NEW stage, Goto("mtm", stage, {}), UNCHANGED <<op, verdict>>
              PROVE  /\ UNCHANGED verdict
                     /\ \A k \in {"consumer", "scan"} :
                          pc'[k] = pc[k] /\ work'[k] = work[k] /\ op'[k] = op[k]
          BY <1>0, <5>2 DEF Goto, TypeOK
        <5> QED BY <4>1, <5>1, <5>2 DEF MtmQuote
      <4>2. CASE MtmDone BY <3>2, <4>2 DEF MtmDone
      <4>3. CASE FillFetch \/ FillWrite \/ Mark \/ ExitFetch
        BY <1>0, <4>3 DEF FillFetch, FillWrite, Mark, ExitFetch, Goto, TypeOK
      <4>4. ASSUME NEW i \in Intents, FillDecide(i)
            PROVE  UNCHANGED <<verdict, pc, work>>
                   /\ \A k \in {"consumer", "scan"} : op'[k] = op[k]
        BY <1>0, <4>4 DEF FillDecide, EntryDecision, TypeOK
      <4>5. ASSUME NEW i \in Intents, ExpireRow(i) \/ ExitRow(i)
            PROVE  /\ UNCHANGED <<verdict, pc, op>>
                   /\ \A k \in {"consumer", "scan"} : work'[k] = work[k]
        BY <1>0, <4>5 DEF ExpireRow, ExitRow, TypeOK
      <4> QED BY <3>6, <4>1, <4>2, <4>3, <4>4, <4>5 DEF MtmStep
    <3> QED BY <1>10, <3>1, <3>3, <3>4, <3>5, <3>6
  <2>2. CASE Insert("consumer") BY <1>6, <2>2
  <2>3. CASE Insert("scan") BY <1>7, <2>3
  <2>4. CASE ~Insert("consumer") /\ ~Insert("scan")
    BY <2>1, <2>4, OnlyInsertAdds, Elsewhere
  <2> QED BY <2>2, <2>3, <2>4
<1>11. CASE EvaluateFails
  <2>1. Finish("consumer", {}) /\ UNCHANGED ledger
    BY <1>11 DEF EvaluateFails, Finish
  <2>2. /\ (OneEvent /\ IdleClean /\ EntersPassed /\ ScanOnlySue)'
        /\ \A i \in Intents : verdict'[i] = "pass" => verdict[i] = "pass"
    BY <2>1, FinishKeeps
  <2>3. PassAlone' /\ ConsumerConcentration'
    BY <2>1, <2>2, StillAlone DEF ConcentrationInv, RowsWith
  <2> QED BY <2>2, <2>3 DEF ConcentrationInv
<1> QED
  BY <1>1, <1>2, <1>3, <1>4, <1>5, <1>6, <1>7, <1>8, <1>9, <1>10, <1>11
  DEF Next, ConsumeNext, EntryNext

\* The strengthened invariant holds of an empty table.
LEMMA ConcentrationInit == Init => ConcentrationInv
<1> SUFFICES ASSUME Init PROVE ConcentrationInv OBVIOUS
<1>1. RowsWith(Live) = {} BY DEF Init, RowsWith, Live, NoRow
<1>2. Handled = {} /\ \A l \in TaskNames : work[l] = {} /\ op[l] = NoOp
  BY DEF Init, FreshTasks, Handled, Evaluated, TaskNames
<1> QED BY <1>1, <1>2
        DEF ConcentrationInv, OneEvent, IdleClean, EntersPassed, ScanOnlySue,
            PassAlone, ConsumerConcentration, TaskNames

\* rules.py, "Concentration guard": at most one live position of the
\* consumer's per symbol and strategy, in every execution.
THEOREM ConcentrationHolds == Spec => []ConsumerConcentration
<1>1. Init => ConcentrationInv BY ConcentrationInit
<1>2. TypeOK /\ ConcentrationInv /\ [Next]_vars => ConcentrationInv'
  BY ConcentrationStep
<1>3. ConcentrationInv => ConsumerConcentration BY DEF ConcentrationInv
<1> QED BY <1>1, <1>2, <1>3, TypeCorrect, PTL DEF Spec

(***************************************************************************)
(* No phantom entry.  A body spans at most one phase boundary; a price was *)
(* fetched while a session was live, or in a cycle that began in one; so   *)
(* the write made with it falls into the same day, after 09:15.            *)
(***************************************************************************)
Suspended ==
  \A l \in TaskNames : pc[l] # "idle" =>
     l \in Loops /\ since[l] <= now /\ now <= since[l] + 1

OpenToday == \A s \in Symbols : openAt[s] > 0 => Day(openAt[s]) = Day(now)

\* Whatever task l writes now, it writes on the trading day `day`.
InSession(l, day) ==
  /\ pc[l] # "idle"
  /\ day = Day(now)
  /\ TradingDay(Day(now))
  /\ Phase(now) # PreOpen
  /\ Phase(since[l]) # Closed

LiveQuotes == \A l \in TaskNames : quote[l].live => InSession(l, Day(quote[l].at))

QuotedOpens ==
  \A l \in TaskNames : \A s \in PrintedToday(quote[l]) :
     Day(quote[l].open[s]) = Day(quote[l].at)

CycleInSession == pc["mtm"] # "idle" => InSession("mtm", Day(since["mtm"]))

FillsPrinted ==
  pc["mtm"] \in {"fetch", "fill"} =>
    /\ quote["mtm"].live
    /\ pc["mtm"] = "fill" =>
         \A i \in work["mtm"] : i.symbol \in PrintedToday(quote["mtm"])

DecidedToday ==
  \A l \in TaskNames : op[l] # NoOp /\ op[l].status = "OPEN" =>
     quote[l].live /\ Day(op[l].priceAt) = Day(quote[l].at)

\* A task holds a decision only where it makes one.
Deciding == \A l \in TaskNames : op[l] # NoOp => pc[l] \in {"act", "fill"}

TaskFresh ==
  /\ Deciding /\ Suspended /\ OpenToday /\ LiveQuotes /\ QuotedOpens /\ CycleInSession
  /\ FillsPrinted /\ DecidedToday

PhantomInv == TaskFresh /\ NoPhantomEntry

\* Arithmetic of days and phases.
LEMMA NextPhase ==
  ASSUME NEW t \in Nat
  PROVE  /\ Phase(t) # Closed => Day(t + 1) = Day(t) /\ Phase(t + 1) # PreOpen
         /\ Phase(t) # PreOpen => Phase(t - 1) # Closed
         /\ Phase(t + 1) # PreOpen => Day(t + 1) = Day(t)
BY DEF Day, Phase, PhasesPerDay, Closed, PreOpen

\* Quotes fetched now are of today.
LEMMA FetchOpens ==
  ASSUME TypeOK, OpenToday, NEW syms \in SUBSET Symbols, NEW live \in BOOLEAN
  PROVE  /\ \A s \in PrintedToday(Fetch(syms, live)) :
              Day(Fetch(syms, live).open[s]) = Day(now)
         /\ Fetch(syms, live).at = now
         /\ Fetch(syms, live).live = live
BY DEF Fetch, PrintedToday, OpenToday, TypeOK

\* The price of an entry is of the day its quote was taken.
LEMMA PriceDay ==
  ASSUME NEW q \in QuoteType, NEW s \in PrintedToday(q),
         Day(q.open[s]) = Day(q.at)
  PROVE  Day(LtpTime(q, s)) = Day(q.at) /\ Day(FillTime(q, s)) = Day(q.at)
BY DEF LtpTime, FillTime

\* A body that finds the session live, at most one phase after it began.
LEMMA SessionStart ==
  ASSUME TypeOK, NEW t \in Nat, t <= now, now <= t + 1, SessionLive(now)
  PROVE  TradingDay(Day(now)) /\ Phase(now) # PreOpen /\ Phase(t) # Closed
<1>1. TradingDay(Day(now)) /\ Phase(now) # PreOpen
  BY DEF SessionLive, Early, Mid, Late, PreOpen
<1>2. t = now \/ t = now - 1 BY DEF TypeOK
<1>3. Phase(now) # Closed BY DEF SessionLive, Early, Mid, Late, Closed
<1> QED BY <1>1, <1>2, <1>3, NextPhase DEF TypeOK

\* The entries stay what they are when no row is entered.
LEMMA NoNewEntry ==
  ASSUME TypeOK, NoPhantomEntry,
         \A i \in Intents : ledger'[i].status \in {"OPEN", "CLOSED"} =>
            /\ ledger[i].status \in {"OPEN", "CLOSED"}
            /\ ledger'[i].entryAt = ledger[i].entryAt
            /\ ledger'[i].priceAt = ledger[i].priceAt
  PROVE  NoPhantomEntry'
BY DEF NoPhantomEntry, Entries, RowsWith

\* An entry made in session, at a price of the day, is no phantom.
LEMMA GoodEntry ==
  ASSUME TypeOK, NoPhantomEntry, NEW i \in Intents, NEW row, NEW s,
         UpdateWhere(i, s, row), row.entryAt = now,
         Day(row.priceAt) = Day(now), TradingDay(Day(now)), Phase(now) # PreOpen
  PROVE  NoPhantomEntry'
BY DEF NoPhantomEntry, Entries, RowsWith, UpdateWhere, TypeOK

\* A task goes back to sleep.
LEMMA RestFresh ==
  ASSUME TypeOK, TaskFresh, NEW l \in TaskNames, Rest(l), UNCHANGED <<now, openAt>>
  PROVE  TaskFresh'
<1>1. /\ pc'[l] = "idle" /\ quote'[l] = NoQuote /\ op'[l] = NoOp
      /\ \A k \in TaskNames \ {l} :
           /\ pc'[k] = pc[k] /\ since'[k] = since[k] /\ work'[k] = work[k]
           /\ op'[k] = op[k] /\ quote'[k] = quote[k]
  BY DEF Rest, TypeOK
<1>2. ~NoQuote.live /\ PrintedToday(NoQuote) = {}
  BY DEF NoQuote, PrintedToday, NotPrinted
<1>3. "mtm" \in TaskNames BY DEF TaskNames
<1>4. Suspended' /\ OpenToday' /\ Deciding'
  BY <1>1 DEF TaskFresh, Suspended, OpenToday, Deciding
<1>5. LiveQuotes' /\ CycleInSession'
  BY <1>1, <1>2, <1>3 DEF TaskFresh, LiveQuotes, CycleInSession, InSession
<1>6. QuotedOpens' /\ DecidedToday'
  BY <1>1, <1>2 DEF TaskFresh, QuotedOpens, DecidedToday
<1>7. FillsPrinted'
  BY <1>1, <1>3 DEF TaskFresh, FillsPrinted
<1> QED BY <1>4, <1>5, <1>6, <1>7 DEF TaskFresh

\* A task has done with an intent.
LEMMA FinishFresh ==
  ASSUME TypeOK, TaskFresh, NEW l \in TaskNames \ {"mtm"}, NEW rest,
         Finish(l, rest), UNCHANGED <<now, openAt>>
  PROVE  TaskFresh'
<1>1. CASE rest = {} BY <1>1, RestFresh DEF Finish
<1>2. CASE rest # {}
  <2>1. UNCHANGED <<pc, since, quote, now, openAt>> BY <1>2 DEF Finish
  <2>2. /\ work'["mtm"] = work["mtm"]
        /\ op'[l] = NoOp
        /\ \A k \in TaskNames \ {l} : op'[k] = op[k]
    BY <1>2 DEF Finish, TypeOK, TaskNames
  <2>3. DecidedToday' /\ Deciding'
    BY <2>1, <2>2 DEF TaskFresh, DecidedToday, Deciding
  <2>4. FillsPrinted' BY <2>1, <2>2 DEF TaskFresh, FillsPrinted
  <2> QED BY <2>1, <2>3, <2>4
          DEF TaskFresh, Suspended, OpenToday, LiveQuotes, QuotedOpens,
              CycleInSession, InSession
<1> QED BY <1>1, <1>2

\* A body begins; if it is the mark-to-market cycle, in a live session.
LEMMA BeginFresh ==
  ASSUME TypeOK, TaskFresh, NEW l \in TaskNames, NEW todo,
         NEW stage \in {"evaluate", "act", "expire", "probe"},
         Begin(l, stage, todo), l = "mtm" => SessionLive(now),
         UNCHANGED <<now, openAt, op, quote>>
  PROVE  TaskFresh'
<1>1. /\ pc[l] = "idle" /\ l \in Loops
      /\ pc'[l] = stage /\ since'[l] = now
      /\ \A k \in TaskNames \ {l} :
           pc'[k] = pc[k] /\ since'[k] = since[k] /\ work'[k] = work[k]
  BY DEF Begin, TypeOK
<1>2. "mtm" \in TaskNames /\ now \in Nat BY DEF TaskNames, TypeOK
<1>3. ~quote[l].live
  BY DEF TaskFresh, LiveQuotes, InSession, Begin
<1>4. Suspended' /\ Deciding' BY <1>1, <1>2 DEF TaskFresh, Suspended, Deciding
<1>5. LiveQuotes' BY <1>1, <1>3 DEF TaskFresh, LiveQuotes, InSession
<1>6. CycleInSession'
  <2>1. CASE l = "mtm"
    BY <1>1, <1>2, <2>1, SessionStart
       DEF CycleInSession, InSession
  <2>2. CASE l # "mtm"
    BY <1>1, <1>2, <2>2 DEF TaskFresh, CycleInSession, InSession
  <2> QED BY <2>1, <2>2
<1>7. FillsPrinted' BY <1>1, <1>2 DEF TaskFresh, FillsPrinted
<1> QED BY <1>4, <1>5, <1>6, <1>7
        DEF TaskFresh, OpenToday, QuotedOpens, DecidedToday

\* A suspended task fetches quotes, live only while a session is, and goes on.
LEMMA FetchFresh ==
  ASSUME TypeOK, TaskFresh, NEW l \in TaskNames, pc[l] \notin {"idle", "act", "fill"},
         NEW syms \in SUBSET Symbols, NEW live \in BOOLEAN,
         NEW stage \in {"act", "fetch", "mark"},
         pc' = [pc EXCEPT ![l] = stage],
         quote' = [quote EXCEPT ![l] = Fetch(syms, live)],
         live => InSession(l, Day(now)), l = "mtm" => live,
         l # "mtm" => work'["mtm"] = work["mtm"] /\ stage = "act",
         UNCHANGED <<now, openAt, op, since>>
  PROVE  TaskFresh'
<1>1. /\ quote'[l] = Fetch(syms, live) /\ pc'[l] = stage
      /\ \A k \in TaskNames \ {l} : quote'[k] = quote[k] /\ pc'[k] = pc[k]
  BY DEF TypeOK
<1>2. OpenToday BY DEF TaskFresh
<1>3. /\ quote'[l].at = now /\ quote'[l].live = live
      /\ \A s \in PrintedToday(quote'[l]) : Day(quote'[l].open[s]) = Day(now)
  BY <1>1, <1>2, FetchOpens
<1>4. "mtm" \in TaskNames BY DEF TaskNames
<1>5. Suspended' /\ OpenToday' /\ Deciding'
  BY <1>1 DEF TaskFresh, Suspended, OpenToday, Deciding
<1>6. LiveQuotes'
  BY <1>1, <1>3 DEF TaskFresh, LiveQuotes, InSession
<1>7. QuotedOpens' BY <1>1, <1>3 DEF TaskFresh, QuotedOpens
<1>8. CycleInSession' BY <1>1, <1>4 DEF TaskFresh, CycleInSession, InSession
<1>9. DecidedToday' BY <1>1 DEF TaskFresh, DecidedToday, Deciding
<1>10. FillsPrinted' BY <1>1, <1>3, <1>4 DEF TaskFresh, FillsPrinted
<1> QED BY <1>5, <1>6, <1>7, <1>8, <1>9, <1>10 DEF TaskFresh

\* The scan begins with its quotes.
LEMMA BeginFetchFresh ==
  ASSUME TypeOK, TaskFresh, NEW todo, Begin("scan", "act", todo),
         NEW syms \in SUBSET Symbols,
         quote' = [quote EXCEPT !["scan"] = Fetch(syms, SessionLive(now))],
         UNCHANGED <<now, openAt, op>>
  PROVE  TaskFresh'
<1>0. "scan" \in TaskNames /\ "mtm" \in TaskNames BY DEF TaskNames
<1>1. /\ pc["scan"] = "idle" /\ "scan" \in Loops
      /\ pc'["scan"] = "act" /\ since'["scan"] = now
      /\ quote'["scan"] = Fetch(syms, SessionLive(now))
      /\ \A k \in TaskNames \ {"scan"} :
           /\ pc'[k] = pc[k] /\ since'[k] = since[k] /\ work'[k] = work[k]
           /\ quote'[k] = quote[k]
  BY <1>0 DEF Begin, TypeOK
<1>2. OpenToday /\ op["scan"] = NoOp BY <1>0, <1>1 DEF TaskFresh, Deciding
<1>3. /\ quote'["scan"].at = now /\ quote'["scan"].live = SessionLive(now)
      /\ \A s \in PrintedToday(quote'["scan"]) :
           Day(quote'["scan"].open[s]) = Day(now)
  BY <1>1, <1>2, FetchOpens, SessionBool
<1>4. now \in Nat BY DEF TypeOK
<1>5. SessionLive(now) =>
        TradingDay(Day(now)) /\ Phase(now) # PreOpen /\ Phase(now) # Closed
  BY <1>4, SessionStart
<1>6. Suspended' /\ OpenToday' /\ Deciding'
  BY <1>1, <1>2, <1>4 DEF TaskFresh, Suspended, OpenToday, Deciding
<1>7. LiveQuotes' BY <1>1, <1>3, <1>5 DEF TaskFresh, LiveQuotes, InSession
<1>8. QuotedOpens' BY <1>1, <1>3 DEF TaskFresh, QuotedOpens
<1>9. CycleInSession' /\ FillsPrinted'
  BY <1>0, <1>1 DEF TaskFresh, CycleInSession, InSession, FillsPrinted
<1>10. DecidedToday' BY <1>1, <1>2 DEF TaskFresh, DecidedToday
<1> QED BY <1>6, <1>7, <1>8, <1>9, <1>10 DEF TaskFresh

\* A step that moves no time and only narrows what the tasks hold.
LEMMA NarrowFresh ==
  ASSUME TypeOK, TaskFresh,
         UNCHANGED <<now, openAt, quote, since>>,
         \A l \in TaskNames : op'[l] = op[l] \/ op'[l] = NoOp,
         pc' = pc \/ (/\ pc["mtm"] # "idle" /\ op["mtm"] = NoOp
                     /\ \E stage \in {"mark", "marked", "exits"} :
                          pc' = [pc EXCEPT !["mtm"] = stage]),
         pc' = pc => work'["mtm"] \subseteq work["mtm"]
  PROVE  TaskFresh'
<1>1. "mtm" \in TaskNames BY DEF TaskNames
<1>2. \A l \in TaskNames : pc[l] # "idle" <=> pc'[l] # "idle" BY DEF TypeOK
<1>3. pc'["mtm"] \in {"fetch", "fill"} => pc' = pc BY <1>1 DEF TypeOK
<1>4. Suspended' /\ OpenToday' BY <1>2 DEF TaskFresh, Suspended, OpenToday
<1>8. Deciding' BY <1>1 DEF TaskFresh, Deciding, TypeOK
<1>5. LiveQuotes' /\ CycleInSession'
  BY <1>1, <1>2 DEF TaskFresh, LiveQuotes, CycleInSession, InSession
<1>6. QuotedOpens' /\ DecidedToday' BY DEF TaskFresh, QuotedOpens, DecidedToday
<1>7. FillsPrinted' BY <1>3 DEF TaskFresh, FillsPrinted
<1> QED BY <1>4, <1>5, <1>6, <1>7, <1>8 DEF TaskFresh

\* Task l decides; it enters only at a price of the day of its live quotes.
LEMMA DecideFresh ==
  ASSUME TypeOK, TaskFresh, NEW l \in TaskNames,
         UNCHANGED <<now, openAt, quote, since, pc, work>>, pc[l] \in {"act", "fill"},
         \A k \in TaskNames \ {l} : op'[k] = op[k],
         op'[l].status = "OPEN" =>
            quote[l].live /\ Day(op'[l].priceAt) = Day(quote[l].at)
  PROVE  TaskFresh'
BY DEF TaskFresh, Suspended, OpenToday, LiveQuotes, QuotedOpens, CycleInSession,
       InSession, FillsPrinted, DecidedToday, Deciding

\* What the entry gates decide is priced at p.
LEMMA EntryDay ==
  ASSUME TypeOK, NEW l \in TaskNames, NEW i \in Intents, NEW atFill, NEW p \in Nat,
         EntryDecision(l, i, atFill, p)
  PROVE  /\ \A k \in TaskNames \ {l} : op'[k] = op[k]
         /\ op'[l].status = "OPEN" => op'[l].priceAt = p
<1>1. ASSUME NEW w, w.status = "OPEN" => w.priceAt = p, op' = [op EXCEPT ![l] = w]
      PROVE  /\ \A k \in TaskNames \ {l} : op'[k] = op[k]
             /\ op'[l].status = "OPEN" => op'[l].priceAt = p
  BY <1>1 DEF TypeOK
<1>2. /\ \A why : Decided("REJECTED", i, why, 0).status = "REJECTED"
      /\ Decided("OPEN", i, "none", p).priceAt = p
  BY DEF Decided
<1>3. ASSUME NEW why, op' = [op EXCEPT ![l] = Decided("REJECTED", i, why, 0)]
      PROVE  /\ \A k \in TaskNames \ {l} : op'[k] = op[k]
             /\ op'[l].status = "OPEN" => op'[l].priceAt = p
  <2> DEFINE w == Decided("REJECTED", i, why, 0)
  <2>1. w.status = "OPEN" => w.priceAt = p BY <1>2
  <2> HIDE DEF w
  <2> QED BY <1>1, <1>3, <2>1 DEF w
<1>4. CASE op' = [op EXCEPT ![l] = Decided("OPEN", i, "none", p)]
  <2> DEFINE w == Decided("OPEN", i, "none", p)
  <2>1. w.status = "OPEN" => w.priceAt = p BY <1>2
  <2> HIDE DEF w
  <2> QED BY <1>1, <1>4, <2>1 DEF w
<1> QED BY <1>3, <1>4 DEF EntryDecision

\* The entries a step makes: only an insert or a fill makes one.
LEMMA OldEntries ==
  ASSUME TypeOK, NoPhantomEntry, [Next]_vars,
         ~Insert("consumer"), ~Insert("scan"), ~FillWrite
  PROVE  NoPhantomEntry'
<1>1. CASE UNCHANGED ledger BY <1>1, NoNewEntry
<1>2. CASE Mark
  <2>1. PICK d \in -Drift..Drift :
          ledger' = [i \in Intents |->
            IF ledger[i].status = "OPEN" /\ i.symbol \in quote["mtm"].ltp
            THEN [ledger[i] EXCEPT !.value = IF ledger[i].size + d > 0
                                             THEN ledger[i].size + d ELSE 0]
            ELSE ledger[i]]
    BY <1>2 DEF Mark
  <2>2. \A i \in Intents : /\ ledger'[i].status = ledger[i].status
                           /\ ledger'[i].entryAt = ledger[i].entryAt
                           /\ ledger'[i].priceAt = ledger[i].priceAt
    BY <2>1 DEF TypeOK, RowType
  <2> QED BY <2>2, NoNewEntry
<1>3. ASSUME NEW i \in Intents, NEW why,
             UpdateWhere(i, "PENDING", [ledger[i] EXCEPT !.status = "REJECTED",
                                                         !.reason = why])
      PROVE  NoPhantomEntry'
  BY <1>3, NoNewEntry DEF UpdateWhere, TypeOK, RowType
<1>4. ASSUME NEW i \in Intents, NEW why, NEW p,
             UpdateWhere(i, "OPEN", Exited(ledger[i], why, p))
      PROVE  NoPhantomEntry'
  BY <1>4, NoNewEntry DEF UpdateWhere, Exited, TypeOK, RowType
<1>5. ASSUME NEW i \in Intents, ExpireRow(i) \/ ProbeRow(i) \/ ExitRow(i)
      PROVE  NoPhantomEntry'
  BY <1>1, <1>3, <1>4, <1>5 DEF ExpireRow, ProbeRow, ExitRow
<1>6. ASSUME NEW u \in Users, ManualCancel(u) \/ ManualClose(u)
      PROVE  NoPhantomEntry'
  <2>1. manual[u].row \in Intents
    BY <1>6 DEF ManualCancel, ManualClose, TypeOK, ExitRequest
  <2> QED BY <1>3, <1>4, <1>6, <2>1 DEF ManualCancel, ManualClose
<1> QED
  BY <1>1, <1>2, <1>5, <1>6
  DEF Next, ConsumeNext, EntryNext, MtmStep, ProbeNext, ManualNext, vars,
      Deliver, AutoCommit, Evaluate, StartActing, EvaluateFails, ScanStart, Act,
      EngineError,
      MtmStart, MtmQuote, FillFetch, FillDecide, ExitFetch, MtmDone, CycleFails,
      ProbeStart, ManualRead, Tick, FirstPrint, Crash

\* An entry decided today is made today, in session.
LEMMA NewEntries ==
  ASSUME TypeOK, PhantomInv, Insert("consumer") \/ Insert("scan") \/ FillWrite
  PROVE  NoPhantomEntry'
<1>1. ASSUME NEW l \in TaskNames, op[l] # NoOp, op[l].status = "OPEN"
      PROVE  /\ Day(op[l].priceAt) = Day(now) /\ TradingDay(Day(now))
             /\ Phase(now) # PreOpen
  BY <1>1 DEF PhantomInv, TaskFresh, DecidedToday, LiveQuotes, InSession
<1>2. ASSUME NEW l \in {"consumer", "scan"}, Insert(l) PROVE NoPhantomEntry'
  <2> DEFINE r == op[l].row
  <2>1. l \in TaskNames BY DEF TaskNames
  <2>2. op[l] \in OpType /\ op[l] # NoOp BY <1>2, <2>1 DEF Insert, TypeOK
  <2>3. UpdateWhere(r, "NONE", NewRow(op[l])) /\ r \in Intents
    BY <1>2, <2>2 DEF Insert, OpType
  <2>4. CASE op[l].status = "OPEN"
    <3>1. /\ NewRow(op[l]).entryAt = now
          /\ NewRow(op[l]).priceAt = op[l].priceAt
      BY <2>4 DEF NewRow, Entered, NoRow
    <3> QED BY <1>1, <2>1, <2>2, <2>3, <2>4, <3>1, GoodEntry DEF PhantomInv
  <2>5. CASE op[l].status # "OPEN"
    <3>1. NewRow(op[l]).status \notin {"OPEN", "CLOSED"}
      BY <2>2, <2>5 DEF NewRow, NoRow, OpType
    <3> QED BY <2>3, <3>1, NoNewEntry DEF UpdateWhere, TypeOK, PhantomInv
  <2> QED BY <2>4, <2>5
<1>3. CASE FillWrite
  <2> DEFINE w == op["mtm"]
  <2>0. "mtm" \in TaskNames BY DEF TaskNames
  <2>1. w \in OpType /\ w # NoOp BY <1>3, <2>0 DEF FillWrite, TypeOK
  <2>2. w.row \in Intents BY <2>1 DEF OpType
  <2>3. ledger[w.row] \in RowType BY <2>2 DEF TypeOK
  <2>4. CASE w.status = "OPEN"
    <3>1. UpdateWhere(w.row, "PENDING", Entered(ledger[w.row], w.row, w.priceAt))
      BY <1>3, <2>4 DEF FillWrite
    <3>2. /\ Entered(ledger[w.row], w.row, w.priceAt).entryAt = now
          /\ Entered(ledger[w.row], w.row, w.priceAt).priceAt = w.priceAt
      BY <2>3 DEF Entered, RowType
    <3> QED BY <1>1, <2>0, <2>1, <2>2, <2>4, <3>1, <3>2, GoodEntry DEF PhantomInv
  <2>5. CASE w.status # "OPEN"
    <3>1. UpdateWhere(w.row, "PENDING", [ledger[w.row] EXCEPT !.status = "REJECTED",
                                                              !.reason = w.reason])
      BY <1>3, <2>5 DEF FillWrite
    <3> QED BY <2>2, <3>1, NoNewEntry DEF UpdateWhere, TypeOK, RowType, PhantomInv
  <2> QED BY <2>4, <2>5
<1> QED BY <1>2, <1>3

\* Every step keeps the strengthened invariant.
THEOREM PhantomStep == TypeOK /\ PhantomInv /\ [Next]_vars => PhantomInv'
<1> SUFFICES ASSUME TypeOK, PhantomInv, [Next]_vars PROVE PhantomInv' OBVIOUS
<1>0. /\ "consumer" \in TaskNames /\ "scan" \in TaskNames
      /\ "mtm" \in TaskNames /\ "preopen" \in TaskNames
  BY DEF TaskNames
<1>a. TaskFresh BY DEF PhantomInv
<1>1. NoPhantomEntry' BY NewEntries, OldEntries DEF PhantomInv
<1>b. SUFFICES TaskFresh' BY <1>1 DEF PhantomInv
<1>2. CASE Deliver
  <2>1. /\ Begin("consumer", "evaluate", Reports[position + 1])
        /\ UNCHANGED <<now, openAt, op, quote>>
    BY <1>2 DEF Deliver
  <2> QED BY <1>0, <1>a, <2>1, BeginFresh
<1>3. CASE AutoCommit \/ (\E i \in Intents : Evaluate(i))
           \/ (\E u \in Users : ManualNext(u)) \/ UNCHANGED vars
  <2>1. UNCHANGED <<now, openAt, quote, since, op, pc>>
    BY <1>3 DEF AutoCommit, Evaluate, ManualNext, ManualRead, ManualCancel,
                ManualClose, vars, taskVars
  <2>2. work'["mtm"] = work["mtm"]
    BY <1>0, <1>3 DEF AutoCommit, Evaluate, ManualNext, ManualRead, ManualCancel,
                      ManualClose, vars, taskVars, TypeOK
  <2> QED BY <1>a, <2>1, <2>2, NarrowFresh
<1>4. CASE StartActing
  <2>1. PICK quoted \in SUBSET {i.symbol : i \in Evaluated} :
          quote' = [quote EXCEPT !["consumer"] = Fetch(quoted, SessionLive(now))]
    BY <1>4 DEF StartActing
  <2>2. quoted \in SUBSET Symbols BY IntentAssumption DEF Evaluated
  <2>3. /\ pc["consumer"] = "evaluate" /\ UNCHANGED <<now, openAt, op, since>>
        /\ pc' = [pc EXCEPT !["consumer"] = "act"]
        /\ work'["mtm"] = work["mtm"]
    BY <1>0, <1>4 DEF StartActing, Goto, TypeOK
  <2>4. SessionLive(now) => InSession("consumer", Day(now))
    BY <1>0, <1>a, <2>3, SessionStart DEF InSession, TaskFresh, Suspended, TypeOK
  <2> DEFINE live == SessionLive(now)
  <2>5. live \in BOOLEAN BY SessionBool
  <2>6. live => InSession("consumer", Day(now)) BY <2>4
  <2>7. quote' = [quote EXCEPT !["consumer"] = Fetch(quoted, live)] BY <2>1
  <2> HIDE DEF live
  <2> QED BY <1>0, <1>a, <2>2, <2>3, <2>5, <2>6, <2>7, FetchFresh
<1>5. CASE ScanStart
  <2>1. PICK arrived \in SUBSET SueRows :
          LET hits == {i \in arrived : ~LivePosition(i.symbol, "pead_long")}
          IN  /\ Begin("scan", "act", hits)
              /\ \E quoted \in SUBSET {i.symbol : i \in hits} :
                   quote' = [quote EXCEPT !["scan"] = Fetch(quoted, SessionLive(now))]
    BY <1>5 DEF ScanStart
  <2> DEFINE hits == {i \in arrived : ~LivePosition(i.symbol, "pead_long")}
  <2>2. hits \in SUBSET Intents BY ReportAssumption
  <2>3. PICK quoted \in SUBSET {i.symbol : i \in hits} :
          quote' = [quote EXCEPT !["scan"] = Fetch(quoted, SessionLive(now))]
    BY <2>1
  <2>4. quoted \in SUBSET Symbols BY <2>2, IntentAssumption
  <2>5. Begin("scan", "act", hits) BY <2>1
  <2>6. UNCHANGED <<now, openAt, op>> BY <1>5 DEF ScanStart
  <2> QED BY <1>0, <1>a, <2>3, <2>4, <2>5, <2>6, BeginFetchFresh
<1>6. ASSUME NEW l \in {"consumer", "scan"}, NEW i \in Intents, Act(l, i)
      PROVE  TaskFresh'
  <2>0. l \in TaskNames /\ quote[l] \in QuoteType /\ i.symbol \in Symbols
    BY <1>0, IntentAssumption DEF TypeOK
  <2>1. UNCHANGED <<now, openAt, quote, since, pc, work>> /\ pc[l] = "act"
    BY <1>6 DEF Act
  <2>2. \A k \in TaskNames \ {l} : op'[k] = op[k] BY <1>6, ActDecides
  <2>3. CASE quote[l].live /\ i.symbol \in PrintedToday(quote[l])
             /\ ~(l = "consumer" /\ verdict[i] # "pass")
    <3> DEFINE price == LtpTime(quote[l], i.symbol)
    <3>1. EntryDecision(l, i, FALSE, price) BY <1>6, <2>3 DEF Act
    <3>2. price \in Nat BY <2>0, LtpTimeNat
    <3>3. Day(price) = Day(quote[l].at)
      BY <2>0, <2>3, <1>a, PriceDay DEF TaskFresh, QuotedOpens
    <3> HIDE DEF price
    <3>4. op'[l].status = "OPEN" => op'[l].priceAt = price
      BY <2>0, <3>1, <3>2, EntryDay
    <3> QED BY <1>a, <2>0, <2>1, <2>2, <2>3, <3>3, <3>4, DecideFresh
  <2>4. CASE ~(quote[l].live /\ i.symbol \in PrintedToday(quote[l])
               /\ ~(l = "consumer" /\ verdict[i] # "pass"))
    <3>1. op'[l].status # "OPEN"
      <4>1. ASSUME NEW w, w.status # "OPEN", op' = [op EXCEPT ![l] = w]
            PROVE  op'[l].status # "OPEN"
        BY <2>0, <4>1 DEF TypeOK
      <4>2. /\ \A why : Decided("REJECTED", i, why, 0).status # "OPEN"
            /\ Decided("PENDING", i, "none", 0).status # "OPEN"
        BY DEF Decided
      <4>3. \/ op' = [op EXCEPT ![l] = Decided("REJECTED", i, verdict[i], 0)]
            \/ op' = [op EXCEPT ![l] = Decided("PENDING", i, "none", 0)]
            \/ \E why \in GatesOf(i, TRUE, FALSE) :
                 op' = [op EXCEPT ![l] = Decided("REJECTED", i, why, 0)]
        BY <1>6, <2>4 DEF Act
      <4>4. \E w : w.status # "OPEN" /\ op' = [op EXCEPT ![l] = w]
        BY <4>2, <4>3
      <4> QED BY <4>1, <4>4
    <3> QED BY <1>a, <2>0, <2>1, <2>2, <3>1, DecideFresh
  <2> QED BY <2>3, <2>4
<1>7. ASSUME NEW l \in {"consumer", "scan"}, Insert(l) \/ EngineError(l)
      PROVE  TaskFresh'
  <2>1. l \in TaskNames \ {"mtm"} BY <1>0
  <2>2. PICK rest : Finish(l, rest) BY <1>7 DEF Insert, EngineError
  <2>3. UNCHANGED <<now, openAt>> BY <1>7 DEF Insert, EngineError
  <2> QED BY <1>a, <2>1, <2>2, <2>3, FinishFresh
<1>8. CASE MtmStart
  <2>1. /\ Begin("mtm", "expire", Expired) /\ SessionLive(now)
        /\ UNCHANGED <<now, openAt, op, quote>>
    BY <1>8 DEF MtmStart
  <2> QED BY <1>0, <1>a, <2>1, BeginFresh
<1>9. CASE MtmQuote
  <2>1. CASE tracked.open \cup tracked.pending = {}
    <3>1. Rest("mtm") /\ UNCHANGED <<now, openAt>> BY <1>9, <2>1 DEF MtmQuote
    <3> QED BY <1>0, <1>a, <3>1, RestFresh
  <2>2. CASE tracked.open \cup tracked.pending # {}
    <3>1. PICK quoted \in SUBSET (tracked.open \cup tracked.pending) :
            LET q == Fetch(quoted, TRUE)
            IN  /\ quote' = [quote EXCEPT !["mtm"] = q]
                /\ Goto("mtm", IF PrintedToday(q) \cap tracked.pending = {}
                               THEN "mark" ELSE "fetch", {})
      BY <1>9, <2>2 DEF MtmQuote
    <3>2. quoted \in SUBSET Symbols BY DEF TypeOK
    <3>3. PICK stage \in {"fetch", "mark"} : pc' = [pc EXCEPT !["mtm"] = stage]
      BY <3>1 DEF Goto
    <3>4. /\ pc["mtm"] = "expire" /\ UNCHANGED <<now, openAt, op, since>>
          /\ quote' = [quote EXCEPT !["mtm"] = Fetch(quoted, TRUE)]
      BY <1>9, <2>2, <3>1 DEF MtmQuote
    <3>5. InSession("mtm", Day(now))
      BY <1>a, <3>4 DEF TaskFresh, CycleInSession, InSession
    <3> QED BY <1>0, <1>a, <3>2, <3>3, <3>4, <3>5, FetchFresh
  <2> QED BY <2>1, <2>2
<1>10. CASE FillFetch
  <2>1. /\ pc["mtm"] = "fetch" /\ UNCHANGED <<now, openAt, op, since, quote>>
        /\ pc' = [pc EXCEPT !["mtm"] = "fill"]
        /\ \A i \in work'["mtm"] : i.symbol \in PrintedToday(quote["mtm"])
    BY <1>0, <1>10 DEF FillFetch, Goto, TypeOK
  <2>2. /\ pc'["mtm"] = "fill"
        /\ \A l \in TaskNames \ {"mtm"} : pc'[l] = pc[l]
    BY <1>0, <2>1 DEF TypeOK
  <2>3. FillsPrinted' BY <1>a, <2>1, <2>2 DEF TaskFresh, FillsPrinted
  <2> QED BY <1>a, <2>1, <2>2, <2>3
          DEF TaskFresh, Deciding, Suspended, OpenToday, LiveQuotes, QuotedOpens,
              CycleInSession, InSession, DecidedToday
<1>11. ASSUME NEW i \in Intents, FillDecide(i) PROVE TaskFresh'
  <2> DEFINE price == FillTime(quote["mtm"], i.symbol)
  <2>0. quote["mtm"] \in QuoteType /\ i.symbol \in Symbols
    BY <1>0, IntentAssumption DEF TypeOK
  <2>1. /\ EntryDecision("mtm", i, TRUE, price) /\ pc["mtm"] = "fill"
        /\ i \in work["mtm"] /\ UNCHANGED <<now, openAt, quote, since, pc, work>>
    BY <1>11 DEF FillDecide
  <2>2. quote["mtm"].live /\ i.symbol \in PrintedToday(quote["mtm"])
    BY <1>a, <2>1 DEF TaskFresh, FillsPrinted
  <2>3. price \in Nat BY <2>0, LtpTimeNat
  <2>4. Day(price) = Day(quote["mtm"].at)
    BY <1>0, <1>a, <2>0, <2>2, PriceDay DEF TaskFresh, QuotedOpens
  <2> HIDE DEF price
  <2>5. /\ \A k \in TaskNames \ {"mtm"} : op'[k] = op[k]
        /\ op'["mtm"].status = "OPEN" => op'["mtm"].priceAt = price
    BY <1>0, <2>1, <2>3, EntryDay
  <2> QED BY <1>0, <1>a, <2>1, <2>2, <2>4, <2>5, DecideFresh
<1>12. CASE FillWrite \/ \E i \in Intents : ExpireRow(i) \/ ExitRow(i)
  <2>1. /\ UNCHANGED <<now, openAt, quote, since, pc>>
        /\ \A l \in TaskNames : op'[l] = op[l] \/ op'[l] = NoOp
        /\ work'["mtm"] \subseteq work["mtm"]
    <3>1. CASE FillWrite BY <1>0, <3>1 DEF FillWrite, TypeOK
    <3>2. ASSUME NEW i \in Intents, ExpireRow(i) \/ ExitRow(i)
          PROVE  /\ UNCHANGED <<now, openAt, quote, since, pc, op>>
                 /\ work'["mtm"] \subseteq work["mtm"]
      BY <1>0, <3>2 DEF ExpireRow, ExitRow, TypeOK
    <3> QED BY <1>12, <3>1, <3>2
  <2> QED BY <1>a, <2>1, NarrowFresh
<1>13. CASE Mark \/ ExitFetch
  <2>1. /\ UNCHANGED <<now, openAt, quote, since, op>>
        /\ pc["mtm"] \in {"mark", "fill", "marked"}
        /\ pc["mtm"] = "fill" => op["mtm"] = NoOp
        /\ \/ pc' = [pc EXCEPT !["mtm"] = "marked"] /\ pc["mtm"] # "marked"
           \/ pc' = [pc EXCEPT !["mtm"] = "exits"]
    BY <1>13 DEF Mark, ExitFetch, Goto
  <2>2. op["mtm"] = NoOp BY <1>0, <1>a, <2>1 DEF TaskFresh, Deciding
  <2>3. pc' # pc BY <1>0, <2>1 DEF TypeOK
  <2> QED BY <1>a, <2>1, <2>2, <2>3, NarrowFresh
<1>14. ASSUME NEW l \in {"mtm", "preopen"}, CycleFails(l) \/ (l = "mtm" /\ MtmDone)
       PROVE  TaskFresh'
  <2>1. Rest(l) /\ UNCHANGED <<now, openAt>> BY <1>14 DEF CycleFails, MtmDone
  <2> QED BY <1>0, <1>a, <2>1, RestFresh
<1>15. CASE ProbeStart
  <2>1. /\ Begin("preopen", "probe", RowsWith({"PENDING"}))
        /\ UNCHANGED <<now, openAt, op, quote>>
    BY <1>15 DEF ProbeStart
  <2> QED BY <1>0, <1>a, <2>1, BeginFresh
<1>16. ASSUME NEW i \in Intents, ProbeRow(i) PROVE TaskFresh'
  <2>1. /\ Finish("preopen", work["preopen"] \ {i})
        /\ UNCHANGED <<now, openAt>>
    BY <1>16 DEF ProbeRow
  <2> QED BY <1>0, <1>a, <2>1, FinishFresh
<1>17. CASE Tick
  <2>1. /\ now' = now + 1 /\ UNCHANGED <<pc, since, work, op, quote>>
        /\ \A l \in Loops : pc[l] # "idle" => since[l] = now
        /\ openAt' = IF Phase(now') = PreOpen THEN NotPrinted ELSE openAt
    BY <1>17 DEF Tick, taskVars
  <2>2. \A l \in TaskNames : pc[l] # "idle" => since[l] = now
    BY <1>a, <2>1 DEF TaskFresh, Suspended
  <2>3. \A l \in TaskNames : \A d : InSession(l, d) => InSession(l, d)'
    <3> SUFFICES ASSUME NEW l \in TaskNames, NEW d, InSession(l, d)
                 PROVE  InSession(l, d)'
      OBVIOUS
    <3>1. Phase(now) # Closed BY <2>2 DEF InSession
    <3>2. Day(now') = Day(now) /\ Phase(now') # PreOpen
      BY <2>1, <3>1, NextPhase DEF TypeOK
    <3> QED BY <2>1, <3>2 DEF InSession, TradingDay
  <2>4. OpenToday'
    <3>1. CASE Phase(now') = PreOpen BY <2>1, <3>1 DEF OpenToday, NotPrinted
    <3>2. CASE Phase(now') # PreOpen
      BY <1>a, <2>1, <3>2, NextPhase DEF OpenToday, TaskFresh, TypeOK
    <3> QED BY <3>1, <3>2
  <2>5. Suspended' BY <1>a, <2>1, <2>2 DEF Suspended, TaskFresh, TypeOK
  <2>6. LiveQuotes' /\ CycleInSession'
    BY <1>0, <1>a, <2>1, <2>3 DEF TaskFresh, LiveQuotes, CycleInSession
  <2>7. (QuotedOpens /\ FillsPrinted /\ DecidedToday /\ Deciding)'
    BY <1>a, <2>1 DEF TaskFresh, QuotedOpens, FillsPrinted, DecidedToday, Deciding
  <2> QED BY <2>4, <2>5, <2>6, <2>7 DEF TaskFresh
<1>18. ASSUME NEW s \in Symbols, FirstPrint(s) PROVE TaskFresh'
  <2>1. /\ UNCHANGED <<now, pc, since, work, op, quote>>
        /\ openAt' = [openAt EXCEPT ![s] = now]
    BY <1>18 DEF FirstPrint, taskVars
  <2>2. OpenToday' BY <1>a, <2>1 DEF TaskFresh, OpenToday, TypeOK
  <2> QED BY <1>a, <2>1, <2>2
          DEF TaskFresh, Deciding, Suspended, LiveQuotes, QuotedOpens,
              CycleInSession, InSession, FillsPrinted, DecidedToday
<1>19. CASE Crash
  <2>1. /\ UNCHANGED <<now, openAt>>
        /\ \A l \in TaskNames :
             pc'[l] = "idle" /\ op'[l] = NoOp /\ quote'[l] = NoQuote
    BY <1>19 DEF Crash
  <2>2. ~NoQuote.live /\ PrintedToday(NoQuote) = {}
    BY DEF NoQuote, PrintedToday, NotPrinted
  <2> QED BY <1>0, <1>a, <2>1, <2>2
          DEF TaskFresh, Deciding, Suspended, OpenToday, LiveQuotes, QuotedOpens,
              CycleInSession, FillsPrinted, DecidedToday
<1>20. CASE EvaluateFails
  <2>1. Rest("consumer") /\ UNCHANGED <<now, openAt>> BY <1>20 DEF EvaluateFails
  <2> QED BY <1>0, <1>a, <2>1, RestFresh
<1> QED
  BY <1>2, <1>3, <1>4, <1>5, <1>6, <1>7, <1>8, <1>9, <1>10, <1>11, <1>12, <1>13,
     <1>14, <1>15, <1>16, <1>17, <1>18, <1>19, <1>20
  DEF Next, ConsumeNext, EntryNext, MtmStep, ProbeNext

\* The strengthened invariant holds of an empty table.
LEMMA PhantomInit == Init => PhantomInv
<1> SUFFICES ASSUME Init PROVE PhantomInv OBVIOUS
<1>1. ~NoQuote.live /\ PrintedToday(NoQuote) = {}
  BY DEF NoQuote, PrintedToday, NotPrinted
<1>2. \A l \in TaskNames : pc[l] = "idle" /\ op[l] = NoOp /\ quote[l] = NoQuote
  BY DEF Init, FreshTasks
<1>3. TaskFresh
  BY <1>1, <1>2 DEF TaskFresh, Deciding, Suspended, OpenToday, LiveQuotes,
                    QuotedOpens, CycleInSession, FillsPrinted, DecidedToday,
                    Init, NotPrinted, TaskNames
<1>4. NoPhantomEntry BY DEF Init, NoPhantomEntry, Entries, RowsWith, NoRow
<1> QED BY <1>3, <1>4 DEF PhantomInv

\* No entry is priced outside the day it is made, on a holiday or before
\* 09:15, whatever happens between the quote and the write.
THEOREM NoPhantomEntryHolds == Spec => []NoPhantomEntry
<1>1. Init => PhantomInv BY PhantomInit
<1>2. TypeOK /\ PhantomInv /\ [Next]_vars => PhantomInv' BY PhantomStep
<1>3. PhantomInv => NoPhantomEntry BY DEF PhantomInv
<1> QED BY <1>1, <1>2, <1>3, TypeCorrect, PTL DEF Spec

(***************************************************************************)
(* The gross cap.  A task reads the gross exposure, awaits, and enters     *)
(* what it has decided on: at that moment every other task may have an     *)
(* entry on its way that the read did not see. The inductive invariant     *)
(* counts these with the open rows, each at the least that marks can have  *)
(* left of it: a decision is made when the open rows and the entry are     *)
(* within the cap, and the other tasks want at most one largest entry      *)
(* each; an entry only moves what was wanted into the table; a mark leaves *)
(* the least unchanged.                                                    *)
(***************************************************************************)
\* What is left at least of a position in intent i, however it is marked.
Least == [i \in Intents |-> IF Notional[i] > Drift THEN Notional[i] - Drift ELSE 0]

\* The rows of a table that are open.
OpenIn(table) == {i \in Intents : table[i].status = "OPEN"}

\* What each task is about to add.
Wanted(o) == [l \in TaskNames |-> IF o[l].status = "OPEN" THEN Notional[o[l].row] ELSE 0]

\* The tasks that enter positions.
Enterers == Loops \ {"preopen"}

\* The open rows and what is on its way, and how much of it there may be.
Exposure(table, o) ==
  SumFunctionOnSet(Least, OpenIn(table)) + SumFunctionOnSet(Wanted(o), Enterers)

Limit == GrossCap + (Cardinality(Enterers) - 1) * LargestEntry

\* An open row is marked near its entry notional.
Marked(table) ==
  \A i \in OpenIn(table) : table[i].size = Notional[i] /\ table[i].value >= Least[i]

\* The strengthened invariant.
GrossInv == op["preopen"] = NoOp /\ Marked(ledger) /\ Exposure(ledger, op) <= Limit


\* The tasks, and those that enter positions.
LEMMA TaskNameFacts ==
  /\ "consumer" \in TaskNames /\ "scan" \in TaskNames
  /\ "mtm" \in TaskNames /\ "preopen" \in TaskNames
  /\ Enterers \subseteq TaskNames /\ IsFiniteSet(TaskNames) /\ IsFiniteSet(Enterers)
  /\ Enterers # {} /\ Cardinality(Enterers) \in Nat /\ Cardinality(Enterers) >= 1
<1>1. Enterers \subseteq {"consumer", "scan", "mtm"} /\ Enterers # {}
  BY TaskAssumption DEF Enterers
<1>2. IsFiniteSet({}) /\ IsFiniteSet({} \cup {"consumer"})
      /\ IsFiniteSet(({} \cup {"consumer"}) \cup {"scan"})
  BY FS_EmptySet, FS_AddElement
<1>3. IsFiniteSet((({} \cup {"consumer"}) \cup {"scan"}) \cup {"mtm"})
  BY <1>2, FS_AddElement
<1>4. IsFiniteSet(((({} \cup {"consumer"}) \cup {"scan"}) \cup {"mtm"}) \cup {"preopen"})
  BY <1>3, FS_AddElement
<1>5. TaskNames = ((({} \cup {"consumer"}) \cup {"scan"}) \cup {"mtm"}) \cup {"preopen"}
  BY DEF TaskNames
<1>6. IsFiniteSet(TaskNames)
  BY <1>4, <1>5
<1>7. Enterers \subseteq TaskNames
  BY <1>1 DEF TaskNames
<1>8. IsFiniteSet(Enterers)
  BY <1>6, <1>7, FS_Subset
<1>9. Cardinality(Enterers) \in Nat /\ Cardinality(Enterers) # 0
  BY <1>8, <1>1, FS_CardinalityType, FS_EmptySet
<1> QED BY <1>1, <1>6, <1>7, <1>8, <1>9 DEF TaskNames

\* What a position is worth at least.
LEMMA LeastFacts ==
  /\ IsFiniteSet(Intents)
  /\ \A i \in Intents : /\ Notional[i] \in Nat /\ Least[i] \in Nat /\ Least[i] <= Notional[i]
BY IntentAssumption, NumberAssumption DEF Least

\* No entry is larger than the largest.
LEMMA LargestFacts ==
  /\ LargestEntry \in Nat
  /\ \A i \in Intents : Notional[i] <= LargestEntry
<1>1. CASE Intents = {}
  BY <1>1 DEF LargestEntry
<1>2. CASE Intents # {}
  <2> DEFINE S == {Notional[i] : i \in Intents}
  <2>1. IsFiniteSet(S)
    <3>1. S = {Notional[i] : i \in Intents} /\ IsFiniteSet(Intents)
      BY LeastFacts
    <3> DEFINE f == [i \in Intents |-> Notional[i]]
    <3>2. f \in Surjection(Intents, S)
      BY DEF Surjection
    <3> QED BY <3>1, <3>2, FS_Surjection
  <2>2. S \in SUBSET Nat /\ S # {}
    BY LeastFacts, <1>2
  <2>3. LargestEntry = Max(S)
    BY <1>2 DEF LargestEntry
  <2> HIDE DEF S
  <2>4. Max(S) \in S /\ \A y \in S : Max(S) >= y
    BY <2>1, <2>2, LargestNumber
  <2>5. \A i \in Intents : Notional[i] \in S
    BY DEF S
  <2>6. \A y \in S : y \in Nat
    BY <2>2
  <2> QED BY <2>3, <2>4, <2>5, <2>6
<1> QED BY <1>1, <1>2

\* What a task wants is the notional of an intent.
LEMMA WantedFacts ==
  ASSUME NEW o \in [TaskNames -> OpType \cup {NoOp}], NEW l \in TaskNames
  PROVE  /\ Wanted(o)[l] \in Nat /\ Wanted(o)[l] <= LargestEntry
         /\ o[l].status = "OPEN" => o[l] \in OpType /\ o[l].row \in Intents
<1>1. o[l].status = "OPEN" => o[l] \in OpType /\ o[l].row \in Intents
  BY DEF OpType, NoOp
<1> QED BY <1>1, LeastFacts, LargestFacts DEF Wanted

\* The limit of the invariant.
LEMMA LimitFacts == Limit \in Nat /\ Limit >= GrossCap /\ GrossCap \in Nat
<1>1. /\ Cardinality(Enterers) - 1 \in Nat /\ LargestEntry \in Nat /\ GrossCap \in Nat
  BY TaskNameFacts, LargestFacts, NumberAssumption
<1>2. (Cardinality(Enterers) - 1) * LargestEntry \in Nat
  BY <1>1
<1> QED BY <1>1, <1>2 DEF Limit

\* The sums of the exposure are numbers.
LEMMA ExposureNat ==
  ASSUME NEW table, NEW o \in [TaskNames -> OpType \cup {NoOp}]
  PROVE  /\ IsFiniteSet(OpenIn(table)) /\ OpenIn(table) \subseteq Intents
         /\ SumFunctionOnSet(Least, OpenIn(table)) \in Nat
         /\ SumFunctionOnSet(Wanted(o), Enterers) \in Nat
<1>1. IsFiniteSet(OpenIn(table)) /\ OpenIn(table) \subseteq Intents
  <2>1. OpenIn(table) \subseteq Intents
    BY DEF OpenIn
  <2> QED BY <2>1, LeastFacts, FS_Subset
<1>2. \A i \in OpenIn(table) : Least[i] \in Nat
  BY <1>1, LeastFacts
<1>3. \A l \in Enterers : Wanted(o)[l] \in Nat
  BY WantedFacts, TaskNameFacts
<1> QED BY <1>1, <1>2, <1>3, SumIsNat, TaskNameFacts

\* And so is the exposure.
LEMMA ExposureType ==
  ASSUME NEW table, NEW o \in [TaskNames -> OpType \cup {NoOp}]
  PROVE  Exposure(table, o) \in Nat
BY ExposureNat DEF Exposure


\* No row opens, and no task wants more.
LEMMA ExposureFalls ==
  ASSUME NEW t, NEW u, OpenIn(u) \subseteq OpenIn(t),
         NEW o \in [TaskNames -> OpType \cup {NoOp}],
         NEW q \in [TaskNames -> OpType \cup {NoOp}],
         \A l \in TaskNames : q[l].status # "OPEN" \/ q[l] = o[l]
  PROVE  Exposure(u, q) <= Exposure(t, o)
<1>1. SumFunctionOnSet(Least, OpenIn(u)) <= SumFunctionOnSet(Least, OpenIn(t))
  <2>1. \A i \in OpenIn(t) : Least[i] \in Nat /\ Least[i] <= Least[i]
    BY ExposureNat, LeastFacts
  <2> QED BY <2>1, ExposureNat, SumWithin
<1>2. SumFunctionOnSet(Wanted(q), Enterers) <= SumFunctionOnSet(Wanted(o), Enterers)
  <2>1. ASSUME NEW l \in Enterers
        PROVE  /\ Wanted(q)[l] \in Nat /\ Wanted(o)[l] \in Nat
               /\ Wanted(q)[l] <= Wanted(o)[l]
    <3>1. l \in TaskNames
      BY TaskNameFacts
    <3>2. Wanted(q)[l] \in Nat /\ Wanted(o)[l] \in Nat
      BY <3>1, WantedFacts
    <3>3. Wanted(q)[l] = 0 \/ Wanted(q)[l] = Wanted(o)[l]
      BY <3>1 DEF Wanted
    <3> QED BY <3>2, <3>3
  <2> QED BY <2>1, SumWithin, TaskNameFacts
<1> QED BY <1>1, <1>2, ExposureNat DEF Exposure

\* A task makes the entry it had decided on.
LEMMA ExposureEnters ==
  ASSUME NEW t, NEW u, NEW r \in Intents, OpenIn(u) \subseteq OpenIn(t) \cup {r},
         NEW o \in [TaskNames -> OpType \cup {NoOp}],
         NEW q \in [TaskNames -> OpType \cup {NoOp}],
         NEW l \in Enterers, o[l].status = "OPEN", o[l].row = r,
         q = [o EXCEPT ![l] = NoOp]
  PROVE  Exposure(u, q) <= Exposure(t, o)
<1> DEFINE Rows == OpenIn(t) \cup {r}
<1>0. l \in TaskNames /\ NoOp.status # "OPEN"
  BY TaskNameFacts DEF NoOp
<1>1. IsFiniteSet(Rows) /\ Rows \subseteq Intents /\ \A i \in Rows : Least[i] \in Nat
  <2>1. OpenIn(t) \subseteq Intents
    BY DEF OpenIn
  <2> QED BY <2>1, LeastFacts, FS_Subset
<1>2. SumFunctionOnSet(Least, OpenIn(u)) <= SumFunctionOnSet(Least, Rows)
  BY <1>1, SumWithin
<1>3. SumFunctionOnSet(Least, Rows) <= Least[r] + SumFunctionOnSet(Least, OpenIn(t))
  <2>1. SumFunctionOnSet(Least, Rows) = Least[r] + SumFunctionOnSet(Least, Rows \ {r})
    BY <1>1, SumWithout
  <2>2. SumFunctionOnSet(Least, Rows \ {r}) <= SumFunctionOnSet(Least, OpenIn(t))
    <3>1. Rows \ {r} \in SUBSET OpenIn(t) /\ \A i \in OpenIn(t) : Least[i] \in Nat
      BY <1>1
    <3>2. \A i \in Rows \ {r} : Least[i] \in Nat /\ Least[i] <= Least[i]
      BY <1>1
    <3> HIDE DEF Rows
    <3> QED BY <3>1, <3>2, ExposureNat, SumWithin
  <2>3. SumFunctionOnSet(Least, Rows \ {r}) \in Nat
    <3>1. IsFiniteSet(Rows \ {r}) /\ \A i \in Rows \ {r} : Least[i] \in Nat
      BY <1>1, FS_Subset
    <3> QED BY <3>1, SumIsNat
  <2> QED BY <2>1, <2>2, <2>3, ExposureNat, LeastFacts
<1>4. SumFunctionOnSet(Wanted(o), Enterers) = Notional[r] + SumFunctionOnSet(Wanted(q), Enterers)
  <2>1. \A k \in Enterers : Wanted(o)[k] \in Nat /\ Wanted(q)[k] \in Nat
    BY WantedFacts, TaskNameFacts
  <2> DEFINE f == Wanted(o)
             g == Wanted(q)
  <2>0. (\A k \in Enterers : f[k] \in Nat /\ g[k] \in Nat) /\ l \in Enterers
    BY <2>1
  <2>a. \A k \in Enterers \ {l} : f[k] = g[k]
    BY <2>1, TaskNameFacts DEF Wanted
  <2> HIDE DEF f, g
  <2>b. IsFiniteSet(Enterers)
    BY TaskNameFacts
  <2>2. SumFunctionOnSet(f, Enterers) = f[l] + SumFunctionOnSet(f, Enterers \ {l})
    BY <2>0, <2>b, SumWithout
  <2>3. SumFunctionOnSet(g, Enterers) = g[l] + SumFunctionOnSet(g, Enterers \ {l})
    BY <2>0, <2>b, SumWithout
  <2>4. SumFunctionOnSet(f, Enterers \ {l}) = SumFunctionOnSet(g, Enterers \ {l})
    <3> DEFINE R == Enterers \ {l}
    <3>1. \A k \in R : f[k] \in Nat /\ f[k] = g[k]
      BY <2>0, <2>a
    <3>2. IsFiniteSet(R)
      BY <2>b, FS_Subset
    <3> HIDE DEF R
    <3>3. SumFunctionOnSet(f, R) = SumFunctionOnSet(g, R)
      BY <3>1, <3>2, SumIsOf
    <3> QED BY <3>3 DEF R
  <2>5. f[l] = Notional[r] /\ g[l] = 0
    BY <1>0 DEF Wanted, f, g
  <2>6. SumFunctionOnSet(g, Enterers \ {l}) \in Nat
    <3>1. IsFiniteSet(Enterers \ {l}) /\ \A k \in Enterers \ {l} : g[k] \in Nat
      BY <2>0, <2>b, FS_Subset
    <3> QED BY <3>1, SumIsNat
  <2>7. Notional[r] \in Nat
    BY LeastFacts
  <2>8. SumFunctionOnSet(f, Enterers) = Notional[r] + SumFunctionOnSet(g, Enterers)
    BY <2>2, <2>3, <2>4, <2>5, <2>6, <2>7
  <2> QED BY <2>8 DEF f, g
<1>5. /\ Least[r] \in Nat /\ Notional[r] \in Nat /\ Least[r] <= Notional[r]
      /\ SumFunctionOnSet(Least, OpenIn(t)) \in Nat /\ SumFunctionOnSet(Least, OpenIn(u)) \in Nat
      /\ SumFunctionOnSet(Wanted(o), Enterers) \in Nat
      /\ SumFunctionOnSet(Wanted(q), Enterers) \in Nat
      /\ SumFunctionOnSet(Least, Rows) \in Nat
  BY LeastFacts, ExposureNat, SumIsNat, <1>1
<1> HIDE DEF Rows
<1> QED BY <1>2, <1>3, <1>4, <1>5 DEF Exposure

\* Arithmetic of the next lemma.
LEMMA MaxTimes ==
  ASSUME NEW j \in Nat, NEW k \in Nat, NEW m \in Nat, NEW s \in Nat, s <= j * m, j = k - 1
  PROVE  s <= (k - 1) * m
OBVIOUS

\* A task decides on an entry within the cap: the others exceed it by what they
\* want.
LEMMA ExposureDecided ==
  ASSUME NEW t \in [Intents -> RowType], Marked(t),
         NEW o \in [TaskNames -> OpType \cup {NoOp}],
         NEW l \in Enterers, NEW w \in OpType, w.status = "OPEN",
         SumFunctionOnSet([i \in Intents |-> t[i].value], OpenIn(t)) + Notional[w.row] <= GrossCap
  PROVE  Exposure(t, [o EXCEPT ![l] = w]) <= Limit
<1> DEFINE q == [o EXCEPT ![l] = w]
           f == [i \in Intents |-> t[i].value]
           g == Wanted(q)
           R == Enterers \ {l}
<1>1. l \in TaskNames /\ q \in [TaskNames -> OpType \cup {NoOp}] /\ w.row \in Intents /\ q[l] = w
  BY TaskNameFacts DEF OpType
<1>2. SumFunctionOnSet(Least, OpenIn(t)) <= SumFunctionOnSet(f, OpenIn(t))
  <2>1. ASSUME NEW i \in OpenIn(t)
        PROVE  f[i] \in Nat /\ Least[i] \in Nat /\ Least[i] <= f[i]
    <3>1. i \in Intents /\ t[i].value \in Nat
      BY DEF OpenIn, RowType
    <3>2. Least[i] \in Nat
      BY <3>1, LeastFacts
    <3>3. f[i] = t[i].value
      BY <3>1
    <3> QED BY <3>1, <3>2, <3>3 DEF Marked
  <2> HIDE DEF f
  <2> QED BY <2>1, ExposureNat, SumWithin
<1>3. SumFunctionOnSet(f, OpenIn(t)) \in Nat
  <2>1. \A i \in OpenIn(t) : f[i] \in Nat
    BY DEF OpenIn, RowType
  <2>2. IsFiniteSet(OpenIn(t))
    BY <1>1, ExposureNat
  <2> HIDE DEF f
  <2> QED BY <2>1, <2>2, SumIsNat
<1>4. \A k \in Enterers : g[k] \in Nat /\ g[k] <= LargestEntry
  <2> HIDE DEF q
  <2> QED BY <1>1, WantedFacts, TaskNameFacts
<1>5. g[l] = Notional[w.row]
  BY <1>1 DEF Wanted
<1>6. IsFiniteSet(R) /\ Cardinality(R) = Cardinality(Enterers) - 1 /\ Cardinality(R) \in Nat
  BY TaskNameFacts, FS_RemoveElement, FS_CardinalityType
<1>7. SumFunctionOnSet(g, Enterers) = g[l] + SumFunctionOnSet(g, R)
  <2>1. \A k \in Enterers : g[k] \in Nat
    BY <1>4
  <2> HIDE DEF g
  <2> QED BY <2>1, SumWithout, TaskNameFacts
<1>8. SumFunctionOnSet(g, R) <= (Cardinality(Enterers) - 1) * LargestEntry
      /\ SumFunctionOnSet(g, R) \in Nat
  <2>1. \A k \in R : g[k] \in Nat /\ g[k] <= LargestEntry
    BY <1>4
  <2> HIDE DEF g, R
  <2>2. SumFunctionOnSet(g, R) <= Cardinality(R) * LargestEntry
    BY <2>1, <1>6, SumAtMost, LargestFacts
  <2>3. SumFunctionOnSet(g, R) \in Nat
    BY <2>1, <1>6, SumIsNat
  <2> QED BY <2>2, <2>3, <1>6, MaxTimes, LargestFacts, TaskNameFacts
<1>9. /\ Notional[w.row] \in Nat /\ GrossCap \in Nat
      /\ SumFunctionOnSet(Least, OpenIn(t)) \in Nat
      /\ (Cardinality(Enterers) - 1) * LargestEntry \in Nat
  <2>1. Cardinality(Enterers) - 1 \in Nat /\ LargestEntry \in Nat
    BY TaskNameFacts, LargestFacts
  <2> QED BY <2>1, <1>1, LeastFacts, LimitFacts, ExposureNat
<1>10. Exposure(t, q) = SumFunctionOnSet(Least, OpenIn(t)) + SumFunctionOnSet(g, Enterers)
  BY DEF Exposure
<1> HIDE DEF q, f, g, R
<1>11. Exposure(t, q) <= Limit
  <2>1. SumFunctionOnSet(f, OpenIn(t)) + Notional[w.row] <= GrossCap
    BY DEF f
  <2> QED BY <1>2, <1>3, <1>5, <1>7, <1>8, <1>9, <1>10, <2>1 DEF Limit
<1> QED BY <1>11 DEF q


\* A step that opens no row and decides on no entry.
LEMMA GrossKept ==
  ASSUME TypeOK, TypeOK', GrossInv, op'["preopen"] = NoOp,
         Marked(ledger'), OpenIn(ledger') \subseteq OpenIn(ledger),
         \A l \in TaskNames : op'[l].status # "OPEN" \/ op'[l] = op[l]
  PROVE  GrossInv'
<1>1. op \in [TaskNames -> OpType \cup {NoOp}] /\ op' \in [TaskNames -> OpType \cup {NoOp}]
  BY DEF TypeOK
<1>2. Exposure(ledger', op') <= Exposure(ledger, op)
  BY <1>1, ExposureFalls
<1>3. Exposure(ledger, op) <= Limit
  BY DEF GrossInv
<1>4. Exposure(ledger', op') \in Nat
  BY <1>1, ExposureType
<1>5. Exposure(ledger, op) \in Nat
  BY <1>1, ExposureType
<1>6. Limit \in Nat
  BY LimitFacts
<1>7. Exposure(ledger', op') <= Limit
  BY <1>2, <1>3, <1>4, <1>5, <1>6
<1> QED BY <1>7 DEF GrossInv

\* The same, when the table rests.
LEMMA GrossRests ==
  ASSUME TypeOK, TypeOK', GrossInv, op'["preopen"] = NoOp, UNCHANGED ledger,
         \A l \in TaskNames : op'[l].status # "OPEN" \/ op'[l] = op[l]
  PROVE  GrossInv'
<1>1. Marked(ledger') /\ OpenIn(ledger') \subseteq OpenIn(ledger)
  BY DEF GrossInv
<1> QED BY <1>1, GrossKept

\* A row is written that is not open afterwards.
LEMMA RowLeaves ==
  ASSUME TypeOK, Marked(ledger), NEW i \in Intents, NEW s, NEW row,
         UpdateWhere(i, s, row), row.status # "OPEN"
  PROVE  Marked(ledger') /\ OpenIn(ledger') \subseteq OpenIn(ledger)
<1>1. CASE ledger' = ledger
  BY <1>1
<1>2. CASE ledger' = [ledger EXCEPT ![i] = row]
  <2>1. \A k \in OpenIn(ledger') : k \in OpenIn(ledger) /\ ledger'[k] = ledger[k]
    BY <1>2 DEF OpenIn, TypeOK
  <2> QED BY <2>1 DEF Marked
<1> QED BY <1>1, <1>2 DEF UpdateWhere

\* A row is entered.
LEMMA RowEnters ==
  ASSUME TypeOK, Marked(ledger), NEW i \in Intents, NEW s, NEW old \in RowType, NEW p,
         UpdateWhere(i, s, Entered(old, i, p))
  PROVE  Marked(ledger') /\ OpenIn(ledger') \subseteq OpenIn(ledger) \cup {i}
<1>1. CASE ledger' = ledger
  BY <1>1
<1>2. CASE ledger' = [ledger EXCEPT ![i] = Entered(old, i, p)]
  <2>1. OpenIn(ledger') \subseteq OpenIn(ledger) \cup {i}
    BY <1>2 DEF OpenIn, TypeOK
  <2>2. ASSUME NEW k \in OpenIn(ledger')
        PROVE  ledger'[k].size = Notional[k] /\ ledger'[k].value >= Least[k]
    <3>1. CASE k = i
      <4>1. ledger'[k].size = Notional[k] /\ ledger'[k].value = Notional[k]
        BY <1>2, <3>1 DEF Entered, RowType, TypeOK
      <4> QED BY <4>1, <3>1, LeastFacts
    <3>2. CASE k # i
      <4>1. k \in OpenIn(ledger) /\ ledger'[k] = ledger[k]
        BY <1>2, <3>2 DEF OpenIn, TypeOK
      <4> QED BY <4>1 DEF Marked
    <3> QED BY <3>1, <3>2
  <2> QED BY <2>1, <2>2 DEF Marked
<1> QED BY <1>1, <1>2 DEF UpdateWhere

\* A mark moves the open rows' values by at most the drift.
LEMMA RowsMarked ==
  ASSUME TypeOK, Marked(ledger), NEW d \in -Drift..Drift, NEW quoted,
         ledger' = [i \in Intents |->
           IF ledger[i].status = "OPEN" /\ i.symbol \in quoted
           THEN [ledger[i] EXCEPT !.value = IF ledger[i].size + d > 0
                                            THEN ledger[i].size + d ELSE 0]
           ELSE ledger[i]]
  PROVE  Marked(ledger') /\ OpenIn(ledger') \subseteq OpenIn(ledger)
<1>1. \A i \in Intents : ledger[i] \in RowType
  BY DEF TypeOK
<1>2. \A i \in Intents : ledger'[i].status = ledger[i].status /\ ledger'[i].size = ledger[i].size
  BY <1>1 DEF RowType
<1>3. OpenIn(ledger') \subseteq OpenIn(ledger)
  BY <1>2 DEF OpenIn
<1>4. ASSUME NEW i \in OpenIn(ledger')
      PROVE  ledger'[i].size = Notional[i] /\ ledger'[i].value >= Least[i]
  <2>1. i \in OpenIn(ledger) /\ i \in Intents /\ ledger[i].status = "OPEN"
    BY <1>3 DEF OpenIn
  <2>2. ledger[i].size = Notional[i] /\ ledger[i].value >= Least[i]
    BY <2>1 DEF Marked
  <2>3. CASE i.symbol \in quoted
    <3>1. ledger'[i].value = IF Notional[i] + d > 0 THEN Notional[i] + d ELSE 0
      BY <1>1, <2>1, <2>2, <2>3 DEF RowType
    <3>2. Notional[i] \in Nat /\ Drift \in Nat /\ d \in Int /\ d >= -Drift
      BY <2>1, LeastFacts, NumberAssumption
    <3>3. Least[i] = IF Notional[i] > Drift THEN Notional[i] - Drift ELSE 0
      BY <2>1 DEF Least
    <3>4. (IF Notional[i] + d > 0 THEN Notional[i] + d ELSE 0)
            >= (IF Notional[i] > Drift THEN Notional[i] - Drift ELSE 0)
      BY <3>2
    <3> QED BY <1>2, <2>1, <2>2, <3>1, <3>3, <3>4
  <2>4. CASE i.symbol \notin quoted
    <3>1. ledger'[i] = ledger[i]
      BY <2>1, <2>4
    <3> QED BY <3>1, <2>2
  <2> QED BY <2>3, <2>4
<1> QED BY <1>3, <1>4 DEF Marked

\* A task with a write to make runs, and is not the probe.
LEMMA EntererFacts ==
  ASSUME PhantomInv, op["preopen"] = NoOp, NEW l \in TaskNames, op[l] # NoOp
  PROVE  l \in Enterers
<1>1. pc[l] \in {"act", "fill"}
  BY DEF PhantomInv, TaskFresh, Deciding
<1>2. l \in Loops
  BY <1>1 DEF PhantomInv, TaskFresh, Suspended
<1> QED BY <1>2 DEF Enterers

\* The entry that a task had decided on is made.
LEMMA GrossEnters ==
  ASSUME TypeOK, TypeOK', PhantomInv, GrossInv, NEW l \in TaskNames, op'["preopen"] = NoOp,
         op[l] # NoOp, op[l].status = "OPEN", op' = [op EXCEPT ![l] = NoOp],
         Marked(ledger'), OpenIn(ledger') \subseteq OpenIn(ledger) \cup {op[l].row}
  PROVE  GrossInv'
<1>1. op \in [TaskNames -> OpType \cup {NoOp}] /\ op' \in [TaskNames -> OpType \cup {NoOp}]
  BY DEF TypeOK
<1>2. l \in Enterers /\ op[l].row \in Intents
  BY <1>1, WantedFacts, EntererFacts DEF GrossInv
<1>3. Exposure(ledger', op') <= Exposure(ledger, op)
  BY <1>1, <1>2, ExposureEnters
<1>4. Exposure(ledger', op') \in Nat
  BY <1>1, ExposureType
<1>5. Exposure(ledger, op) \in Nat
  BY <1>1, ExposureType
<1>6. Limit \in Nat
  BY LimitFacts
<1>7. Exposure(ledger, op) <= Limit
  BY DEF GrossInv
<1>8. Exposure(ledger', op') <= Limit
  BY <1>3, <1>4, <1>5, <1>6, <1>7
<1> QED BY <1>8 DEF GrossInv

\* A task decides on an entry, or against it.
LEMMA GrossDecided ==
  ASSUME TypeOK, TypeOK', PhantomInv, GrossInv, NEW l \in TaskNames, l # "preopen",
         NEW i \in Intents, NEW atFill, NEW p \in Nat, EntryDecision(l, i, atFill, p),
         pc[l] # "idle", UNCHANGED ledger
  PROVE  GrossInv'
<1>1. op \in [TaskNames -> OpType \cup {NoOp}] /\ op' \in [TaskNames -> OpType \cup {NoOp}]
  BY DEF TypeOK
<1>2. l \in Enterers
  BY DEF PhantomInv, TaskFresh, Suspended, Enterers
<1>0. ASSUME NEW w, op' = [op EXCEPT ![l] = w] PROVE op'["preopen"] = NoOp
  BY <1>0, <1>1 DEF GrossInv
<1>3. ASSUME NEW w, w.status # "OPEN", op' = [op EXCEPT ![l] = w] PROVE GrossInv'
  <2>1. op'["preopen"] = NoOp
    BY <1>0, <1>3
  <2>2. \A k \in TaskNames : op'[k].status # "OPEN" \/ op'[k] = op[k]
    BY <1>1, <1>3
  <2> QED BY <2>1, <2>2, GrossRests
<1>4. CASE /\ Gross + Notional[i] <= GrossCap
           /\ op' = [op EXCEPT ![l] = Decided("OPEN", i, "none", p)]
  <2> DEFINE w == Decided("OPEN", i, "none", p)
  <2>1. w \in OpType /\ w.status = "OPEN" /\ w.row = i
    BY DecidedType DEF Decided, Reasons
  <2>2. Gross = SumFunctionOnSet([k \in Intents |-> ledger[k].value], OpenIn(ledger))
    <3>1. RowsWith({"OPEN"}) = OpenIn(ledger)
      BY DEF RowsWith, OpenIn
    <3> QED BY <3>1 DEF Gross
  <2>3. ledger \in [Intents -> RowType] /\ Marked(ledger)
    BY DEF TypeOK, GrossInv
  <2> HIDE DEF w
  <2>4. Exposure(ledger, [op EXCEPT ![l] = w]) <= Limit
    BY <1>1, <1>2, <1>4, <2>1, <2>2, <2>3, ExposureDecided
  <2>5. op' = [op EXCEPT ![l] = w]
    BY <1>4 DEF w
  <2>6. op'["preopen"] = NoOp
    BY <1>0, <2>5
  <2> QED BY <2>4, <2>5, <2>6, <2>3 DEF GrossInv
<1>5. CASE \E why \in GatesOf(i, FALSE, atFill) :
             op' = [op EXCEPT ![l] = Decided("REJECTED", i, why, 0)]
  BY <1>3, <1>5 DEF Decided
<1>6. CASE op' = [op EXCEPT ![l] = IF Gross + Notional[i] > GrossCap
                                   THEN Decided("REJECTED", i, "gross_cap", 0)
                                   ELSE Decided("OPEN", i, "none", p)]
  <2>1. CASE Gross + Notional[i] > GrossCap
    BY <1>3, <1>6, <2>1 DEF Decided
  <2>2. CASE ~(Gross + Notional[i] > GrossCap)
    <3>1. Gross \in Nat
      <4>1. \A k \in OpenIn(ledger) : [x \in Intents |-> ledger[x].value][k] \in Nat
        BY DEF OpenIn, TypeOK, RowType
      <4>2. RowsWith({"OPEN"}) = OpenIn(ledger) /\ IsFiniteSet(OpenIn(ledger))
        BY <1>1, ExposureNat DEF RowsWith, OpenIn
      <4> QED BY <4>1, <4>2, SumIsNat DEF Gross
    <3>2. Notional[i] \in Nat /\ GrossCap \in Nat
      BY LeastFacts, LimitFacts
    <3>3. Gross + Notional[i] <= GrossCap
      BY <2>2, <3>1, <3>2
    <3> QED BY <3>3, <1>4, <1>6, <2>2
  <2> QED BY <2>1, <2>2
<1> QED BY <1>5, <1>6 DEF EntryDecision

\* A task writes nothing of the table and gives up what it had decided.
LEMMA GrossGivesUp ==
  ASSUME TypeOK, TypeOK', GrossInv, UNCHANGED ledger,
         \A l \in TaskNames : op'[l] = op[l] \/ op'[l] = NoOp
  PROVE  GrossInv'
<1>1. NoOp.status # "OPEN"
  BY DEF NoOp
<1>2. op'["preopen"] = NoOp
  BY TaskNameFacts DEF GrossInv
<1> QED BY <1>1, <1>2, GrossRests

\* The next state of a task that has done with an intent, or with all of them.
LEMMA FinishGivesUp ==
  ASSUME TypeOK, NEW l \in TaskNames, NEW rest, Finish(l, rest) \/ Rest(l)
  PROVE  op' = [op EXCEPT ![l] = NoOp]
BY DEF Finish, Rest

\* Every step keeps the strengthened invariant.
THEOREM GrossStep ==
  TypeOK /\ PhantomInv /\ GrossInv /\ [Next]_vars => GrossInv'
<1> SUFFICES ASSUME TypeOK, PhantomInv, GrossInv, [Next]_vars PROVE GrossInv'
  OBVIOUS
<1>0. TypeOK'
  BY TypeStep
<1>a. /\ "consumer" \in TaskNames /\ "scan" \in TaskNames
      /\ "mtm" \in TaskNames /\ "preopen" \in TaskNames
  BY TaskNameFacts
<1>b. op \in [TaskNames -> OpType \cup {NoOp}] /\ ledger \in [Intents -> RowType]
  BY DEF TypeOK
<1>c. Marked(ledger) /\ op["preopen"] = NoOp
  BY DEF GrossInv
\* The steps that write nothing and decide on nothing.
<1>1. CASE \/ Deliver \/ AutoCommit \/ StartActing \/ (\E i \in Intents : Evaluate(i))
           \/ ScanStart \/ MtmStart \/ FillFetch \/ ExitFetch \/ ProbeStart \/ Tick
           \/ (\E s \in Symbols : FirstPrint(s)) \/ UNCHANGED vars
           \/ (\E u \in Users, i \in Intents : ManualRead(u, i))
  <2>1. UNCHANGED <<ledger, op>>
    BY <1>1 DEF Deliver, AutoCommit, StartActing, Evaluate, ScanStart, MtmStart,
                FillFetch, ExitFetch, ProbeStart, Tick, FirstPrint, ManualRead, vars, taskVars
  <2> QED BY <1>0, <2>1, GrossGivesUp
<1>2. CASE \/ EvaluateFails \/ MtmDone \/ Crash
           \/ (\E l \in {"mtm", "preopen"} : CycleFails(l))
           \/ (\E l \in {"consumer", "scan"} : EngineError(l))
  <2>1. UNCHANGED ledger
    BY <1>2 DEF EvaluateFails, MtmDone, Crash, CycleFails, EngineError
  <2>2. CASE Crash
    BY <1>0, <2>1, <2>2, GrossGivesUp DEF Crash
  <2>3. ASSUME NEW l \in TaskNames, op' = [op EXCEPT ![l] = NoOp]
        PROVE  GrossInv'
    BY <1>0, <1>b, <2>1, <2>3, GrossGivesUp
  <2>4. \E l \in TaskNames : op' = [op EXCEPT ![l] = NoOp] \/ Crash
    BY <1>2, <1>a, FinishGivesUp DEF EvaluateFails, MtmDone, CycleFails, EngineError
  <2> QED BY <2>2, <2>3, <2>4
<1>3. ASSUME NEW l \in {"consumer", "scan"}, NEW i \in Intents, Act(l, i)
      PROVE  GrossInv'
  <2>1. l \in TaskNames /\ l # "preopen" /\ quote[l] \in QuoteType /\ i.symbol \in Symbols
    BY <1>a, IntentAssumption DEF TypeOK
  <2>2. pc[l] = "act" /\ UNCHANGED ledger
    BY <1>3 DEF Act
  <2>3. CASE EntryDecision(l, i, FALSE, LtpTime(quote[l], i.symbol))
    BY <1>0, <2>1, <2>2, <2>3, LtpTimeNat, GrossDecided
  <2>4. ASSUME NEW w, w.status # "OPEN", op' = [op EXCEPT ![l] = w]
        PROVE  GrossInv'
    <3>1. op'["preopen"] = NoOp
      BY <1>b, <1>c, <1>a, <2>1, <2>4
    <3>2. \A k \in TaskNames : op'[k].status # "OPEN" \/ op'[k] = op[k]
      BY <1>b, <2>4
    <3> QED BY <1>0, <2>2, <3>1, <3>2, GrossRests
  <2>5. \/ EntryDecision(l, i, FALSE, LtpTime(quote[l], i.symbol))
        \/ op' = [op EXCEPT ![l] = Decided("REJECTED", i, verdict[i], 0)]
        \/ op' = [op EXCEPT ![l] = Decided("PENDING", i, "none", 0)]
        \/ \E why \in GatesOf(i, TRUE, FALSE) :
             op' = [op EXCEPT ![l] = Decided("REJECTED", i, why, 0)]
    BY <1>3 DEF Act
  <2>6. /\ \A why : Decided("REJECTED", i, why, 0).status # "OPEN"
        /\ Decided("PENDING", i, "none", 0).status # "OPEN"
    BY DEF Decided
  <2> QED BY <2>3, <2>4, <2>5, <2>6
<1>4. ASSUME NEW l \in {"consumer", "scan"}, Insert(l) PROVE GrossInv'
  <2>1. l \in TaskNames /\ op[l] # NoOp /\ op[l] \in OpType /\ op[l].row \in Intents
    BY <1>4, <1>a, <1>b DEF Insert, OpType
  <2>2. op' = [op EXCEPT ![l] = NoOp] /\ UpdateWhere(op[l].row, "NONE", NewRow(op[l]))
    BY <1>4, <2>1, FinishGivesUp DEF Insert
  <2>3. op'["preopen"] = NoOp
    BY <1>a, <1>b, <1>c, <2>2
  <2>4. CASE op[l].status = "OPEN"
    <3>1. NewRow(op[l]) = Entered(NoRow, op[l].row, op[l].priceAt)
      BY <2>4 DEF NewRow
    <3>2. Marked(ledger') /\ OpenIn(ledger') \subseteq OpenIn(ledger) \cup {op[l].row}
      BY <1>c, <2>1, <2>2, <3>1, NoRowType, RowEnters
    <3> QED BY <1>0, <2>1, <2>2, <2>3, <2>4, <3>2, GrossEnters
  <2>5. CASE op[l].status # "OPEN"
    <3>1. NewRow(op[l]).status # "OPEN"
      BY <2>1, <2>5 DEF NewRow, NoRow, OpType
    <3>2. Marked(ledger') /\ OpenIn(ledger') \subseteq OpenIn(ledger)
      BY <1>c, <2>1, <2>2, <3>1, RowLeaves
    <3>3. \A k \in TaskNames : op'[k].status # "OPEN" \/ op'[k] = op[k]
      BY <1>b, <2>2 DEF NoOp
    <3> QED BY <1>0, <2>3, <3>2, <3>3, GrossKept
  <2> QED BY <2>4, <2>5
<1>5. CASE FillWrite
  <2>1. op["mtm"] # NoOp /\ op["mtm"] \in OpType /\ op["mtm"].row \in Intents
    BY <1>5, <1>a, <1>b DEF FillWrite, OpType
  <2>2. op' = [op EXCEPT !["mtm"] = NoOp]
    BY <1>5 DEF FillWrite
  <2>3. op'["preopen"] = NoOp
    BY <1>a, <1>b, <1>c, <2>2
  <2> DEFINE i == op["mtm"].row
  <2>4. CASE op["mtm"].status = "OPEN"
    <3>1. UpdateWhere(i, "PENDING", Entered(ledger[i], i, op["mtm"].priceAt))
      BY <1>5, <2>4 DEF FillWrite
    <3>2. Marked(ledger') /\ OpenIn(ledger') \subseteq OpenIn(ledger) \cup {i}
      BY <1>b, <1>c, <2>1, <3>1, RowEnters
    <3> QED BY <1>0, <1>a, <2>1, <2>2, <2>3, <2>4, <3>2, GrossEnters
  <2>5. CASE op["mtm"].status # "OPEN"
    <3> DEFINE row == [ledger[i] EXCEPT !.status = "REJECTED", !.reason = op["mtm"].reason]
    <3>1. UpdateWhere(i, "PENDING", row)
      BY <1>5, <2>5 DEF FillWrite
    <3>2. row.status # "OPEN"
      BY <1>b, <2>1 DEF RowType
    <3> HIDE DEF row
    <3>3. Marked(ledger') /\ OpenIn(ledger') \subseteq OpenIn(ledger)
      BY <1>c, <2>1, <3>1, <3>2, RowLeaves
    <3>4. \A k \in TaskNames : op'[k].status # "OPEN" \/ op'[k] = op[k]
      BY <1>b, <2>2 DEF NoOp
    <3> QED BY <1>0, <2>3, <3>3, <3>4, GrossKept
  <2> QED BY <2>4, <2>5
<1>6. ASSUME NEW i \in Intents, FillDecide(i) PROVE GrossInv'
  <2>1. quote["mtm"] \in QuoteType /\ i.symbol \in Symbols
    BY <1>a, IntentAssumption DEF TypeOK
  <2>2. /\ EntryDecision("mtm", i, TRUE, FillTime(quote["mtm"], i.symbol))
        /\ pc["mtm"] # "idle" /\ UNCHANGED ledger
    BY <1>6 DEF FillDecide
  <2> QED BY <1>0, <1>a, <2>1, <2>2, LtpTimeNat, GrossDecided
<1>7. ASSUME NEW i \in Intents, NEW s, NEW row, row.status # "OPEN",
             UpdateWhere(i, s, row) \/ UNCHANGED ledger,
             \A l \in TaskNames : op'[l] = op[l] \/ op'[l] = NoOp
      PROVE  GrossInv'
  <2>1. Marked(ledger') /\ OpenIn(ledger') \subseteq OpenIn(ledger)
    BY <1>7, <1>c, RowLeaves
  <2>2. NoOp.status # "OPEN"
    BY DEF NoOp
  <2> QED BY <1>0, <1>7, <1>a, <1>c, <2>1, <2>2, GrossKept
<1>8. ASSUME NEW i \in Intents, ExpireRow(i) \/ ExitRow(i) PROVE GrossInv'
  <2>1. op' = op /\ ledger[i] \in RowType
    BY <1>8, <1>b DEF ExpireRow, ExitRow
  <2>2. CASE ExpireRow(i)
    <3> DEFINE row == [ledger[i] EXCEPT !.status = "REJECTED", !.reason = "pending_expired"]
    <3>1. row.status # "OPEN" /\ UpdateWhere(i, "PENDING", row)
      BY <2>1, <2>2 DEF RowType, ExpireRow
    <3> HIDE DEF row
    <3> QED BY <1>7, <2>1, <3>1
  <2>3. CASE ExitRow(i)
    <3> DEFINE row == Exited(ledger[i], "exit_rule", LtpTime(quote["mtm"], i.symbol))
    <3>1. row.status # "OPEN" /\ UpdateWhere(i, "OPEN", row)
      BY <2>1, <2>3 DEF RowType, ExitRow, Exited
    <3> HIDE DEF row
    <3> QED BY <1>7, <2>1, <3>1
  <2> QED BY <1>8, <2>2, <2>3
<1>9. CASE Mark
  <2>1. PICK d \in -Drift..Drift :
          ledger' = [i \in Intents |->
            IF ledger[i].status = "OPEN" /\ i.symbol \in quote["mtm"].ltp
            THEN [ledger[i] EXCEPT !.value = IF ledger[i].size + d > 0
                                             THEN ledger[i].size + d ELSE 0]
            ELSE ledger[i]]
    BY <1>9 DEF Mark
  <2>2. Marked(ledger') /\ OpenIn(ledger') \subseteq OpenIn(ledger)
    BY <1>c, <2>1, RowsMarked
  <2>3. op' = op
    BY <1>9 DEF Mark
  <2> QED BY <1>0, <1>c, <2>2, <2>3, GrossKept
<1>10. CASE MtmQuote
  <2>1. UNCHANGED ledger
    BY <1>10 DEF MtmQuote
  <2>2. op' = op \/ op' = [op EXCEPT !["mtm"] = NoOp]
    BY <1>10 DEF MtmQuote, Rest
  <2> QED BY <1>0, <1>b, <2>1, <2>2, GrossGivesUp
<1>11. ASSUME NEW i \in Intents, ProbeRow(i) PROVE GrossInv'
  <2>1. \A l \in TaskNames : op'[l] = op[l] \/ op'[l] = NoOp
    <3>1. op' = [op EXCEPT !["preopen"] = NoOp]
      BY <1>11, <1>a, FinishGivesUp DEF ProbeRow
    <3> QED BY <3>1, <1>b
  <2> DEFINE row == [ledger[i] EXCEPT !.status = "REJECTED", !.reason = "preopen_veto"]
  <2>2. row.status # "OPEN" /\ (UpdateWhere(i, "PENDING", row) \/ UNCHANGED ledger)
    BY <1>11, <1>b DEF RowType, ProbeRow
  <2> HIDE DEF row
  <2> QED BY <1>7, <2>1, <2>2
<1>12. ASSUME NEW u \in Users, ManualCancel(u) \/ ManualClose(u) PROVE GrossInv'
  <2>1. manual[u] \in ExitRequest
    BY <1>12 DEF ManualCancel, ManualClose, TypeOK
  <2> DEFINE i == manual[u].row
  <2>2. i \in Intents /\ ledger[i] \in RowType
    BY <2>1, <1>b DEF ExitRequest
  <2>3. op' = op
    BY <1>12 DEF ManualCancel, ManualClose, taskVars
  <2>4. CASE ManualCancel(u)
    <3> DEFINE row == [ledger[i] EXCEPT !.status = "REJECTED", !.reason = "manual_cancel"]
    <3>1. row.status # "OPEN" /\ UpdateWhere(i, "PENDING", row)
      BY <2>2, <2>4 DEF RowType, ManualCancel
    <3> HIDE DEF row
    <3> QED BY <1>7, <2>2, <2>3, <3>1
  <2>5. CASE ManualClose(u)
    <3> DEFINE row == Exited(ledger[i], "manual", manual[u].priceAt)
    <3>1. row.status # "OPEN" /\ UpdateWhere(i, "OPEN", row)
      BY <2>2, <2>5 DEF RowType, ManualClose, Exited
    <3> HIDE DEF row
    <3> QED BY <1>7, <2>2, <2>3, <3>1
  <2> QED BY <1>12, <2>4, <2>5
<1> QED
  BY <1>1, <1>2, <1>3, <1>4, <1>5, <1>6, <1>8, <1>9, <1>10, <1>11, <1>12
  DEF Next, ConsumeNext, EntryNext, MtmStep, ProbeNext, ManualNext

\* The cap: what the marks leave of the open positions, with the entries that
\* are on their way.
LEMMA GrossImplies == TypeOK /\ PhantomInv /\ GrossInv => OvershootBounded
<1> SUFFICES ASSUME TypeOK, PhantomInv, GrossInv PROVE OvershootBounded
  OBVIOUS
<1>1. op \in [TaskNames -> OpType \cup {NoOp}]
  BY DEF TypeOK
<1>2. \A l \in Entering : l \in TaskNames /\ l \in Enterers /\ op[l].status = "OPEN"
  BY EntererFacts DEF Entering, GrossInv
<1>3. LeastWorth(RowsWith({"OPEN"})) = SumFunctionOnSet(Least, OpenIn(ledger))
  <2>1. RowsWith({"OPEN"}) = OpenIn(ledger)
    BY DEF RowsWith, OpenIn
  <2> QED BY <2>1 DEF LeastWorth, Least
<1> DEFINE e == [l \in Entering |-> Notional[op[l].row]]
           w == Wanted(op)
<1>4. \A l \in Enterers : w[l] \in Nat
  BY <1>1, WantedFacts, TaskNameFacts
<1>5. \A l \in Entering : e[l] = w[l]
  BY <1>2 DEF Wanted
<1> HIDE DEF e, w
<1>6. \A l \in Entering : e[l] \in Nat /\ e[l] <= w[l]
  BY <1>2, <1>4, <1>5
<1>7. Entering \subseteq Enterers /\ IsFiniteSet(Enterers)
  BY <1>2, TaskNameFacts
<1>8. SumFunctionOnSet(e, Entering) <= SumFunctionOnSet(w, Enterers)
  BY <1>4, <1>6, <1>7, SumWithin
<1>9. SumFunctionOnSet(e, Entering) \in Nat
  BY <1>6, <1>7, FS_Subset, SumIsNat
<1>10. SumFunctionOnSet(Least, OpenIn(ledger)) \in Nat /\ SumFunctionOnSet(w, Enterers) \in Nat
  BY <1>1, ExposureNat DEF w
<1>11. SumFunctionOnSet(Least, OpenIn(ledger)) + SumFunctionOnSet(w, Enterers) <= Limit
  BY DEF GrossInv, Exposure, w
<1>12. Limit \in Nat
  BY LimitFacts
<1>13. SumFunctionOnSet(Least, OpenIn(ledger)) + SumFunctionOnSet(e, Entering) <= Limit
  BY <1>8, <1>9, <1>10, <1>11, <1>12
<1> QED BY <1>3, <1>13 DEF OvershootBounded, Limit, Enterers, e

\* The strengthened invariant holds of an empty table.
LEMMA GrossInit == Init => GrossInv
<1> SUFFICES ASSUME Init PROVE GrossInv
  OBVIOUS
<1>1. OpenIn(ledger) = {}
  BY DEF Init, OpenIn, NoRow
<1>2. op \in [TaskNames -> OpType \cup {NoOp}] /\ \A l \in TaskNames : op[l] = NoOp
  BY DEF Init, FreshTasks
<1>3. \A l \in Enterers : Wanted(op)[l] \in Nat /\ Wanted(op)[l] <= 0
  BY <1>2, TaskNameFacts DEF Wanted, NoOp
<1>4. SumFunctionOnSet(Wanted(op), Enterers) <= Cardinality(Enterers) * 0
  <2> DEFINE w == Wanted(op)
  <2>1. \A l \in Enterers : w[l] \in Nat /\ w[l] <= 0
    BY <1>3
  <2> HIDE DEF w
  <2>2. SumFunctionOnSet(w, Enterers) <= Cardinality(Enterers) * 0
    BY <2>1, SumAtMost, TaskNameFacts
  <2> QED BY <2>2 DEF w
<1>5. SumFunctionOnSet(Least, OpenIn(ledger)) = 0
  BY <1>1, SumOfNone
<1>6. SumFunctionOnSet(Wanted(op), Enterers) \in Nat /\ Cardinality(Enterers) \in Nat
  BY <1>2, ExposureNat, TaskNameFacts
<1>7. Exposure(ledger, op) <= Limit
  BY <1>4, <1>5, <1>6, LimitFacts DEF Exposure
<1>8. Marked(ledger)
  BY <1>1 DEF Marked
<1> QED BY <1>2, <1>7, <1>8, TaskNameFacts DEF GrossInv

\* What the open positions are worth at least, and the entries that tasks have
\* decided on, exceed the cap by at most one entry for every other task.
THEOREM OvershootBoundedHolds == Spec => []OvershootBounded
<1>1. Spec => [](TypeOK /\ PhantomInv)
  <2>1. Init => PhantomInv
    BY PhantomInit
  <2>2. TypeOK /\ PhantomInv /\ [Next]_vars => PhantomInv'
    BY PhantomStep
  <2> QED BY <2>1, <2>2, TypeCorrect, PTL DEF Spec
<1>2. Init => GrossInv
  BY GrossInit
<1>3. TypeOK /\ PhantomInv /\ GrossInv /\ [Next]_vars => GrossInv'
  BY GrossStep
<1>4. TypeOK /\ PhantomInv /\ GrossInv => OvershootBounded
  BY GrossImplies
<1> QED BY <1>1, <1>2, <1>3, <1>4, PTL DEF Spec

(***************************************************************************)
(* The audit trail.  An intent of the report in hand is still to be        *)
(* evaluated, or evaluated and still to be recorded, or in the table; no   *)
(* step takes a row out of the table.  A failure loses an intent, and so   *)
(* does a crash after an early commit: the invariant speaks of runs        *)
(* without one.                                                            *)
(***************************************************************************)
\* The intents of report k are in the table.
Told(k) == \A i \in Reports[k] : ledger[i].status # "NONE"

\* The strengthened invariant.
AuditInv ==
  faults = 0 =>
    /\ pc["consumer"] \in {"idle", "evaluate", "act"}
    /\ pc["consumer"] = "idle" => \A k \in 1..position : Told(k)
    /\ pc["consumer"] # "idle" =>
         position >= 1 /\ \A k \in 1..(position - 1) : Told(k)
    /\ pc["consumer"] = "evaluate" => Reports[position] \subseteq Handled
    /\ pc["consumer"] = "act" =>
         \A i \in Reports[position] : ledger[i].status # "NONE" \/ i \in work["consumer"]

\* No step takes a row out of the table.
LEMMA RowsStay ==
  ASSUME TypeOK, LifeStep
  PROVE  \A i \in Intents : ledger[i].status # "NONE" => ledger'[i].status # "NONE"
<1> DEFINE trade == [j \in Intents |-> LifeOf(ledger[j])]
<1>1. CASE UNCHANGED trade
  <2>1. \A i \in Intents : trade'[i].status = trade[i].status
    BY <1>1
  <2> QED BY <2>1 DEF LifeOf
<1>2. CASE Lifecycle!Next
  <2>1. PICK t \in Intents :
          Lifecycle!Queue(t) \/ Lifecycle!Enter(t) \/ Lifecycle!Refuse(t) \/ Lifecycle!Exit(t)
    BY <1>2 DEF Lifecycle!Next
  <2>2. PICK row : row.status # "NONE" /\ trade' = [trade EXCEPT ![t] = row]
    <3>1. \E st, entry, end :
            st # "NONE" /\ trade' = [trade EXCEPT ![t] = [status |-> st, entry |-> entry, end |-> end]]
      BY <2>1 DEF Lifecycle!Queue, Lifecycle!Enter, Lifecycle!Refuse, Lifecycle!Exit, Lifecycle!Becomes
    <3> QED BY <3>1
  <2>3. \A i \in Intents : trade'[i] = IF i = t THEN row ELSE trade[i]
    BY <2>2
  <2>4. \A i \in Intents : trade'[i].status = trade[i].status \/ trade'[i].status # "NONE"
    BY <2>2, <2>3
  <2> QED BY <2>4 DEF LifeOf
<1> QED BY <1>1, <1>2 DEF LifeStep

\* The consumer's reports stay told while it does something else.
LEMMA AuditElsewhere ==
  ASSUME TypeOK, AuditInv, LifeStep, faults' = faults,
         UNCHANGED <<position, verdict>>,
         pc'["consumer"] = pc["consumer"], work'["consumer"] = work["consumer"]
  PROVE  AuditInv'
<1> SUFFICES ASSUME faults = 0 PROVE AuditInv'
  BY DEF AuditInv
<1>1. \A k \in 1..position : Told(k) => Told(k)'
  <2>1. \A k \in 1..position : Reports[k] \subseteq Intents
    BY ReportAssumption DEF TypeOK
  <2> QED BY <2>1, RowsStay DEF Told
<1>2. position \in Nat
  BY ReportAssumption DEF TypeOK
<1>3. \A k \in 1..(position - 1) : Told(k) => Told(k)'
  BY <1>1, <1>2
<1>4. Handled' = Handled
  BY DEF Handled, Evaluated
<1>5. pc["consumer"] = "act" => Reports[position] \subseteq Intents
  <2>1. pc["consumer"] = "act" => position \in 1..Len(Reports)
    BY <1>2, ReportAssumption DEF AuditInv, TypeOK
  <2> QED BY <2>1, ReportAssumption
<1>6. pc["consumer"] = "act" =>
        \A i \in Reports[position] : ledger'[i].status # "NONE" \/ i \in work["consumer"]
  BY <1>5, RowsStay DEF AuditInv
<1> QED BY <1>1, <1>3, <1>4, <1>6 DEF AuditInv

\* An insert leaves its row in the table.
LEMMA InsertRecords ==
  ASSUME TypeOK, NEW l \in {"consumer", "scan"}, Insert(l)
  PROVE  ledger'[op[l].row].status # "NONE"
<1>1. op[l] \in OpType /\ op[l].row \in Intents
  BY DEF Insert, TypeOK, TaskNames, OpType
<1>2. NewRow(op[l]).status # "NONE"
  BY <1>1, NoRowType DEF NewRow, OpType, Entered, NoRow
<1> QED BY <1>1, <1>2 DEF Insert, UpdateWhere, TypeOK

\* The consumer is done with an intent whose row is in the table.
LEMMA AuditFinish ==
  ASSUME TypeOK, ConcentrationInv, AuditInv, LifeStep, NEW i \in Intents,
         op["consumer"] # NoOp, Finish("consumer", work["consumer"] \ {i}),
         ledger'[i].status # "NONE", UNCHANGED <<position, faults>>
  PROVE  AuditInv'
<1> SUFFICES ASSUME faults = 0 PROVE AuditInv'
  BY DEF AuditInv
<1>0. "consumer" \in TaskNames
  BY DEF TaskNames
<1>1. pc["consumer"] = "act"
  BY DEF ConcentrationInv, EntersPassed
<1>2. position \in Nat /\ position >= 1 /\ position \in 1..Len(Reports)
  BY <1>1, ReportAssumption DEF AuditInv, TypeOK
<1>3. \A k \in 1..position : Reports[k] \subseteq Intents
  BY <1>2, ReportAssumption
<1>4. \A k \in 1..(position - 1) : Told(k)'
  <2>1. \A k \in 1..(position - 1) : Told(k) /\ Reports[k] \subseteq Intents
    BY <1>1, <1>2, <1>3 DEF AuditInv
  <2> QED BY <2>1, RowsStay DEF Told
<1>5. \A j \in Reports[position] : ledger'[j].status # "NONE" \/ j \in work["consumer"] \ {i}
  BY <1>1, <1>2, <1>3, RowsStay DEF AuditInv
<1>6. CASE work["consumer"] \ {i} = {}
  <2>1. pc'["consumer"] = "idle"
    BY <1>0, <1>6 DEF Finish, Rest, TypeOK
  <2>2. \A k \in 1..position : Told(k)'
    <3>1. \A k \in 1..position : k \in 1..(position - 1) \/ k = position
      BY <1>2
    <3>2. Told(position)'
      BY <1>5, <1>6 DEF Told
    <3> QED BY <1>4, <3>1, <3>2
  <2> QED BY <2>1, <2>2 DEF AuditInv
<1>7. CASE work["consumer"] \ {i} # {}
  <2>1. pc' = pc /\ work'["consumer"] = work["consumer"] \ {i}
    BY <1>0, <1>7 DEF Finish, TypeOK
  <2> QED BY <1>1, <1>2, <1>4, <1>5, <2>1 DEF AuditInv
<1> QED BY <1>6, <1>7

\* Every step keeps the strengthened invariant.
THEOREM AuditStep ==
  TypeOK /\ RowShape /\ ConcentrationInv /\ AuditInv /\ [Next]_vars => AuditInv'
<1> SUFFICES ASSUME TypeOK, RowShape, ConcentrationInv, AuditInv, [Next]_vars
             PROVE  AuditInv'
  OBVIOUS
<1>0. /\ "consumer" \in TaskNames /\ "scan" \in TaskNames
      /\ "mtm" \in TaskNames /\ "preopen" \in TaskNames
  BY DEF TaskNames
<1>1. LifeStep
  BY LifeStepOfNext
<1>a. /\ position \in Nat /\ position <= Len(Reports) /\ Len(Reports) \in Nat
      /\ pc \in [TaskNames -> Stages] /\ work \in [TaskNames -> SUBSET Intents]
  BY ReportAssumption DEF TypeOK
<1>2. CASE \/ EvaluateFails \/ Crash \/ (\E l \in {"mtm", "preopen"} : CycleFails(l))
           \/ (\E l \in {"consumer", "scan"} : EngineError(l))
  <2>1. faults' = faults + 1 /\ faults \in Nat
    BY <1>2 DEF EvaluateFails, Crash, CycleFails, EngineError, TypeOK
  <2> QED BY <2>1 DEF AuditInv
<1>3. CASE Deliver
  <2>1. /\ pc["consumer"] = "idle" /\ pc'["consumer"] = "evaluate"
        /\ work'["consumer"] = Reports[position + 1]
        /\ position' = position + 1 /\ UNCHANGED <<ledger, faults>>
    BY <1>0, <1>a, <1>3 DEF Deliver, Begin
  <2>2. position' - 1 = position /\ position' >= 1
    BY <1>a, <2>1
  <2>3. faults = 0 => \A k \in 1..position : Told(k)'
    BY <2>1 DEF AuditInv, Told
  <2> QED BY <2>1, <2>2, <2>3 DEF AuditInv, Handled
<1>4. ASSUME NEW i \in Intents, Evaluate(i) PROVE AuditInv'
  <2>1. /\ pc["consumer"] = "evaluate" /\ i \in work["consumer"]
        /\ work'["consumer"] = work["consumer"] \ {i}
        /\ UNCHANGED <<pc, ledger, position, faults>>
    BY <1>0, <1>a, <1>4 DEF Evaluate
  <2>2. PICK v : v # "none" /\ verdict' = [verdict EXCEPT ![i] = v]
    BY <1>4 DEF Evaluate
  <2>3. Handled \subseteq Handled'
    BY <2>1, <2>2 DEF Handled, Evaluated, TypeOK
  <2>4. faults = 0 => \A k \in 1..(position - 1) : Told(k)'
    BY <2>1 DEF AuditInv, Told
  <2> QED BY <2>1, <2>3, <2>4 DEF AuditInv
<1>5. CASE StartActing
  <2>1. /\ pc["consumer"] = "evaluate" /\ pc'["consumer"] = "act"
        /\ work["consumer"] = {} /\ work'["consumer"] = Evaluated
        /\ UNCHANGED <<ledger, position, faults>>
    BY <1>0, <1>a, <1>5 DEF StartActing, Goto
  <2>2. faults = 0 => \A k \in 1..(position - 1) : Told(k)'
    BY <2>1 DEF AuditInv, Told
  <2> QED BY <2>1, <2>2 DEF AuditInv, Handled
<1>6. CASE Insert("consumer")
  <2>1. op["consumer"] # NoOp /\ op["consumer"].row \in Intents
    BY <1>6, <1>0 DEF Insert, TypeOK, OpType
  <2>2. /\ Finish("consumer", work["consumer"] \ {op["consumer"].row})
        /\ UNCHANGED <<position, faults>>
    BY <1>6 DEF Insert
  <2>3. ledger'[op["consumer"].row].status # "NONE"
    BY <1>6, InsertRecords
  <2> QED BY <1>1, <2>1, <2>2, <2>3, AuditFinish
<1>7. CASE Insert("scan")
  <2>1. /\ pc'["consumer"] = pc["consumer"] /\ work'["consumer"] = work["consumer"]
        /\ verdict' = verdict /\ UNCHANGED <<position, faults>>
    BY <1>0, <1>a, <1>7 DEF Insert, Finish, Rest
  <2> QED BY <1>1, <2>1, AuditElsewhere
<1>8. ASSUME NEW l \in {"mtm", "preopen"}, NEW rest, Rest(l) \/ Finish(l, rest)
      PROVE  /\ pc'["consumer"] = pc["consumer"] /\ work'["consumer"] = work["consumer"]
             /\ verdict' = verdict
  BY <1>0, <1>a, <1>8 DEF Rest, Finish
<1>9. CASE \/ MtmQuote \/ MtmDone \/ \E i \in Intents : ProbeRow(i)
  <2>1. UNCHANGED <<position, faults>>
    BY <1>9 DEF MtmQuote, MtmDone, ProbeRow
  <2>2. CASE Rest("mtm") \/ \E rest : Finish("preopen", rest)
    BY <1>1, <2>1, <2>2, <1>8, AuditElsewhere
  <2>3. CASE ~(Rest("mtm") \/ \E rest : Finish("preopen", rest))
    <3>1. verdict' = verdict /\ \E stage : Goto("mtm", stage, {})
      BY <1>9, <2>3 DEF MtmQuote, MtmDone, ProbeRow
    <3>2. pc'["consumer"] = pc["consumer"] /\ work'["consumer"] = work["consumer"]
      BY <1>0, <1>a, <3>1 DEF Goto
    <3> QED BY <1>1, <2>1, <3>1, <3>2, AuditElsewhere
  <2> QED BY <2>2, <2>3
<1>10. CASE \/ AutoCommit \/ ScanStart \/ MtmStart \/ FillFetch \/ FillWrite \/ Mark \/ ExitFetch
            \/ ProbeStart \/ Tick \/ UNCHANGED vars
            \/ (\E l \in {"consumer", "scan"}, i \in Intents : Act(l, i))
            \/ (\E i \in Intents : ExpireRow(i) \/ FillDecide(i) \/ ExitRow(i))
            \/ (\E u \in Users : ManualNext(u)) \/ (\E s \in Symbols : FirstPrint(s))
  <2>1. UNCHANGED <<position, verdict, faults>>
    BY <1>10 DEF AutoCommit, ScanStart, MtmStart, FillFetch, FillWrite, Mark, ExitFetch,
                 ProbeStart, Tick, Act, ExpireRow, FillDecide, ExitRow, ManualNext, ManualRead,
                 ManualCancel, ManualClose, FirstPrint, vars, taskVars
  <2>2. pc'["consumer"] = pc["consumer"]
    BY <1>0, <1>a, <1>10 DEF AutoCommit, ScanStart, MtmStart, FillFetch, FillWrite, Mark, ExitFetch,
                 ProbeStart, Tick, Act, ExpireRow, FillDecide, ExitRow, ManualNext, ManualRead,
                 ManualCancel, ManualClose, FirstPrint, vars, taskVars, Begin, Goto
  <2>3. work'["consumer"] = work["consumer"]
    BY <1>0, <1>a, <1>10 DEF AutoCommit, ScanStart, MtmStart, FillFetch, FillWrite, Mark, ExitFetch,
                 ProbeStart, Tick, Act, ExpireRow, FillDecide, ExitRow, ManualNext, ManualRead,
                 ManualCancel, ManualClose, FirstPrint, vars, taskVars, Begin, Goto
  <2> QED BY <1>1, <2>1, <2>2, <2>3, AuditElsewhere
<1> QED
  BY <1>2, <1>3, <1>4, <1>5, <1>6, <1>7, <1>9, <1>10
  DEF Next, ConsumeNext, EntryNext, MtmStep, ProbeNext

\* When the consumer asks for the next message, every intent of the reports it
\* has taken is in the table, unless a statement failed or the process died.
THEOREM AuditCompleteHolds == Spec => []AuditComplete
<1>1. Spec => [](TypeOK /\ RowShape /\ ConcentrationInv)
  <2>1. Init => RowShape
    BY DEF Init, RowShape, NoRow
  <2>2. TypeOK /\ RowShape /\ [Next]_vars => RowShape'
    BY LifeStepOfNext
  <2>3. Init => ConcentrationInv
    BY ConcentrationInit
  <2>4. TypeOK /\ ConcentrationInv /\ [Next]_vars => ConcentrationInv'
    BY ConcentrationStep
  <2> QED BY <2>1, <2>2, <2>3, <2>4, TypeCorrect, PTL DEF Spec
<1>2. Init => AuditInv
  <2> SUFFICES ASSUME Init PROVE AuditInv OBVIOUS
  <2>1. pc["consumer"] = "idle" /\ position = 0
    BY DEF Init, FreshTasks, TaskNames
  <2> QED BY <2>1 DEF AuditInv
<1>3. TypeOK /\ RowShape /\ ConcentrationInv /\ AuditInv /\ [Next]_vars => AuditInv'
  BY AuditStep
<1>4. AuditInv => AuditComplete
  BY DEF AuditInv, AuditComplete, Told
<1> QED BY <1>1, <1>2, <1>3, <1>4, PTL DEF Spec

=============================================================================
