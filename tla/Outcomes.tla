------------------------------ MODULE Outcomes ------------------------------
(***************************************************************************)
(* What became of the trade signals: the nightly job of kb-monitor, or a   *)
(* hand on the command line, copies the signals of the reports into        *)
(* signal_outcomes and fills in the returns of the sessions that have      *)
(* passed since; a post-mortem asks a model why a wrong one was wrong.     *)
(***************************************************************************)
EXTENDS Integers, Sequences, FiniteSets

CONSTANTS
  Trades,      \* signals
  Source,      \* of each signal: "report", "pead"
  Born,        \* of each signal: its day
  Close,       \* of each signal: the closes of its symbol from day 0, 0 for none
  Long,        \* signals that expect a rise, the others expect a fall
  Horizons,    \* sessions after which a signal is judged, ascending
  IngestDays,  \* the nightly job looks for signals so far back
  LastDay, MaxByHand, MaxOutcomeFaults    \* bounds

ASSUME OutcomesAssumption ==
  /\ \A s \in Trades :
       /\ Source[s] \in {"report", "pead"} /\ Born[s] \in 0..LastDay
       /\ Len(Close[s]) = LastDay + 1 /\ \A d \in DOMAIN Close[s] : Close[s][d] \in Nat
  /\ Long \subseteq Trades /\ IngestDays \in Nat
  /\ \A h \in DOMAIN Horizons : Horizons[h] \in Nat \ {0}

VARIABLES
  today,
  synced,     \* the days whose closes are stored
  missed,     \* the days whose sync failed
  night,      \* of today's run: "open" or "over"
  outcome,    \* signal_outcomes
  evaluator,  \* the runs: the rows left and what was read for the first
  asked,      \* the row a post-mortem has asked about
  gapFilled,  \* history: closes of an earlier day came after a later one's
  byHand, outcomeFaults

outcomeVars == <<today, synced, missed, night, outcome, evaluator, asked, gapFilled, byHand,
                 outcomeFaults>>

Evaluators == {"nightly", "cli"}
NoTrade    == "none"
NoOutcome  == [status |-> "absent", entry |-> 0, returns |-> {}, cause |-> FALSE]
Fresh      == [NoOutcome EXCEPT !.status = "pending"]
Asleep     == [left |-> {}, row |-> NoTrade, seen |-> NoOutcome]

OutcomesInit ==
  /\ today = 0 /\ synced = {0} /\ missed = {} /\ night = "open"
  /\ outcome = [s \in Trades |-> NoOutcome]
  /\ evaluator = [e \in Evaluators |-> Asleep]
  /\ asked = NoTrade /\ gapFilled = FALSE /\ byHand = 0 /\ outcomeFaults = 0

OutcomeFault == outcomeFaults < MaxOutcomeFaults /\ outcomeFaults' = outcomeFaults + 1

-----------------------------------------------------------------------------
(* The days and their closes.                                              *)

Tomorrow ==
  /\ evaluator["nightly"] = Asleep /\ (night = "over" \/ today \in missed)
  /\ today' = IF today < LastDay THEN today + 1 ELSE today
  /\ night' = "open"
  /\ UNCHANGED <<synced, missed, outcome, evaluator, asked, gapFilled, byHand, outcomeFaults>>

\* daily_price_sync of the day; the closes of a day it missed may come later.
SyncDay ==
  /\ today \notin synced \cup missed
  /\ \/ synced' = synced \cup {today} /\ UNCHANGED <<missed, outcomeFaults>>
     \/ today < LastDay /\ OutcomeFault /\ missed' = missed \cup {today} /\ UNCHANGED synced
  /\ UNCHANGED <<today, night, outcome, evaluator, asked, gapFilled, byHand>>

FillGap ==
  /\ \E d \in missed \ {today} : d \notin synced /\ synced' = synced \cup {d}
  /\ gapFilled' = TRUE
  /\ UNCHANGED <<today, missed, night, outcome, evaluator, asked, byHand, outcomeFaults>>

\* The worker emits a PEAD signal as its row (pead_signals.py).
PeadSignal(s) ==
  /\ Source[s] = "pead" /\ Born[s] = today /\ outcome[s] = NoOutcome
  /\ outcome' = [outcome EXCEPT ![s] = Fresh]
  /\ UNCHANGED <<today, synced, missed, night, evaluator, asked, gapFilled, byHand, outcomeFaults>>

-----------------------------------------------------------------------------
(* ingest and evaluate.                                                    *)

\* Mutant: the rows that are judged in part are left alone.
Due_PendingOnly(table) == {s \in Trades : table[s].status = "pending"}

\* What evaluate reads once, at its start.
Due(table) == {s \in Trades : table[s].status \in {"pending", "partial"}}

\* The nightly run waits until the day's closes are confirmed; one by hand does
\* not.  Signals of reports become rows, which an old row survives.
BeginEvaluation(e) ==
  /\ evaluator[e] = Asleep
  /\ e = "nightly" => today \in synced /\ night = "open"
  /\ e = "cli" => byHand < MaxByHand
  /\ night' = IF e = "nightly" THEN "over" ELSE night
  /\ byHand' = IF e = "cli" THEN byHand + 1 ELSE byHand
  /\ LET since == IF e = "nightly" THEN today - IngestDays ELSE 0
         found == {s \in Trades : Source[s] = "report" /\ outcome[s] = NoOutcome
                                  /\ Born[s] \in since..today}
         table == [s \in Trades |-> IF s \in found THEN Fresh ELSE outcome[s]]
     IN  /\ outcome' = table
         /\ evaluator' = [evaluator EXCEPT ![e] = [Asleep EXCEPT !.left = Due(table)]]
  /\ UNCHANGED <<today, synced, missed, asked, gapFilled, outcomeFaults>>

\* The days that have a close of the symbol, and the one so many after the first.
Sessions(s, stored) == {d \in stored : Close[s][d + 1] # 0}
Nth(days, n) == CHOOSE d \in days : Cardinality({x \in days : x < d}) = n

\* The return of a session against the entry: its sign, or 0 when nothing moved.
Move(s, entry, d) ==
  LET rise == Close[s][d + 1] - Close[s][entry + 1]
  IN  IF rise > 0 THEN 1 ELSE IF rise < 0 THEN -1 ELSE 0

\* get_forward_returns: from the first close on or after the signal's day, so
\* many sessions ahead; what has not come yet is left open.
Forward(s, stored) ==
  LET days == {d \in Sessions(s, stored) : d >= Born[s]}
      gone == {h \in DOMAIN Horizons : Horizons[h] < Cardinality(days)}
  IN  IF Sessions(s, stored) = {} THEN [Fresh EXCEPT !.status = "no_price_data"]
      ELSE IF days = {} THEN Fresh
      ELSE [Fresh EXCEPT
              !.status  = IF gone = DOMAIN Horizons THEN "complete" ELSE "partial",
              !.entry   = Nth(days, 0),
              !.returns = {<<h, Move(s, Nth(days, 0), Nth(days, Horizons[h]))>> : h \in gone}]

\* One row: its closes are read ...
ReadCloses(e) ==
  /\ evaluator[e].left # {} /\ evaluator[e].row = NoTrade
  /\ \E s \in evaluator[e].left :
       /\ \A x \in evaluator[e].left : Born[s] <= Born[x]
       /\ evaluator' = [evaluator EXCEPT ![e].row = s, ![e].left = @ \ {s},
                                         ![e].seen = Forward(s, synced)]
  /\ UNCHANGED <<today, synced, missed, night, outcome, asked, gapFilled, byHand, outcomeFaults>>

\* ... and what they say is written, whatever the row says by now.
WriteOutcome(e) ==
  /\ evaluator[e].row # NoTrade
  /\ LET s == evaluator[e].row
         seen == evaluator[e].seen
     IN  outcome' = [outcome EXCEPT ![s] =
           CASE seen.status = "pending" -> @
             [] seen.status = "no_price_data" -> [@ EXCEPT !.status = "no_price_data"]
             [] OTHER -> [seen EXCEPT !.cause = outcome[s].cause]]
  /\ evaluator' = [evaluator EXCEPT ![e].row = NoTrade, ![e].seen = NoOutcome]
  /\ UNCHANGED <<today, synced, missed, night, asked, gapFilled, byHand, outcomeFaults>>

\* An error ends the run; so does a crash of its process.
EvaluationFails(e) ==
  /\ evaluator[e] # Asleep /\ OutcomeFault
  /\ evaluator' = [evaluator EXCEPT ![e] = Asleep]
  /\ UNCHANGED <<today, synced, missed, night, outcome, asked, gapFilled, byHand>>

-----------------------------------------------------------------------------
(* postmortem.                                                             *)

\* _correct at the first horizon: nothing said about a move that was none.
Wrong(s, row) ==
  /\ row.status = "complete"
  /\ \E sign \in {1, -1} : <<1, sign>> \in row.returns /\ (sign > 0) # (s \in Long)

AskWhy ==
  /\ asked = NoTrade
  /\ \E s \in Trades :
       /\ Wrong(s, outcome[s]) /\ ~outcome[s].cause /\ Source[s] # "pead"
       /\ asked' = s
  /\ UNCHANGED <<today, synced, missed, night, outcome, evaluator, gapFilled, byHand, outcomeFaults>>

\* The answer names a cause of the list, or nothing is written.
NoteWhy ==
  /\ asked # NoTrade /\ asked' = NoTrade
  /\ \/ outcome' = [outcome EXCEPT ![asked].cause = TRUE] /\ UNCHANGED outcomeFaults
     \/ OutcomeFault /\ UNCHANGED outcome
  /\ UNCHANGED <<today, synced, missed, night, evaluator, gapFilled, byHand>>

Evaluation(e) == BeginEvaluation(e) \/ ReadCloses(e) \/ WriteOutcome(e)

OutcomesNext ==
  \/ Tomorrow \/ SyncDay \/ FillGap \/ AskWhy \/ NoteWhy
  \/ \E s \in Trades : PeadSignal(s)
  \/ \E e \in Evaluators : Evaluation(e) \/ EvaluationFails(e)

\* Days pass, and every night the monitor syncs and evaluates; a run by hand
\* that began goes on.
OutcomesFairness ==
  /\ WF_outcomeVars(Tomorrow) /\ WF_outcomeVars(SyncDay)
  /\ WF_outcomeVars(Evaluation("nightly"))
  /\ WF_outcomeVars(ReadCloses("cli") \/ WriteOutcome("cli"))

OutcomesSpec == OutcomesInit /\ [][OutcomesNext]_outcomeVars /\ OutcomesFairness

-----------------------------------------------------------------------------
(* Properties.                                                             *)

OutcomesTypeOK ==
  /\ today \in 0..LastDay /\ synced \subseteq 0..today
  /\ \A s \in Trades : outcome[s].status \in
       {"absent", "pending", "partial", "complete", "no_price_data"}
  /\ asked \in Trades \cup {NoTrade} /\ gapFilled \in BOOLEAN

Judged(s) ==
  LET row == outcome[s]
      true == Forward(s, synced)
  IN  \/ /\ row.status = "complete"
         /\ gapFilled \/ (row.returns = true.returns /\ row.entry = true.entry)
      \/ row.status = "absent" /\ (Source[s] = "pead" \/ outcomeFaults > 0)
      \/ row.status = "no_price_data" /\ \A d \in 0..Born[s] - 1 : Close[s][d + 1] = 0

\* Every signal whose day has come is judged in the end, for good and by the
\* closes that followed it, although nights fail, runs overlap and a slow one writes what it read
\* before (monitor.py:481, "the next successful run recovers any skipped
\* signals with no data loss"): only a symbol without a price when it was looked
\* at stays without verdict, and only after a failure is a signal never listed.
OutcomesSettle ==
  \A s \in Trades :
    (\A d \in Born[s]..LastDay : Close[s][d + 1] # 0)
      => (today >= Born[s] ~> []Judged(s))

=============================================================================
