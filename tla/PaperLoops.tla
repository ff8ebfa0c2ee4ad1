----------------------------- MODULE PaperLoops -----------------------------
(***************************************************************************)
(* Two loops of the papertrade service that stand beside its ledger.       *)
(* hedge_loop: a short in an index future follows the notional of the open *)
(* pead_long book. A cycle reads both notionals, asks for a quote and then *)
(* opens whole lots or closes whole rows, while entries, exits and users   *)
(* move the book at each of its awaits. Notionals are in units of one      *)
(* entry; off-session cycles do nothing and are left out.                  *)
(*                                                                         *)
(* marks_loop: what the price did after a filing, a mark at the decision   *)
(* (t0) and follow-ups at fixed offsets. t0 is a row of                    *)
(* paper_signal_marks, the follow-ups wait in memory; a restart arms from  *)
(* the rows what is not yet due. A report that was handled but not         *)
(* committed is handled again. One tick is the period of marks_loop.       *)
(***************************************************************************)
EXTENDS Integers, FiniteSets, FiniteSetsExt, Functions

CONSTANTS
  LotValue,      \* PAPER_HEDGE_LOT_VALUE
  Band,          \* PAPER_HEDGE_BAND
  GrossCap,      \* PAPER_GROSS_CAP
  MaxShare,      \* what rounding to whole shares may take off an order
  MaxPead, MaxBookMoves, MaxHedgeFaults    \* bounds

ASSUME HedgeAssumption ==
  /\ LotValue \in Nat /\ LotValue > 2 * MaxShare
  /\ {Band, GrossCap, MaxShare, MaxPead, MaxBookMoves, MaxHedgeFaults} \subseteq Nat

VARIABLES
  pead,         \* notional of the OPEN pead_long rows
  hedgeRows,    \* notionals of the open pead_hedge rows, by id
  cycle,        \* where hedge_loop is
  seen,         \* what this cycle has read: pead, hedge, rows still to look at;
                \* and the order it has worked out
  outcome,      \* how the last cycle ended
  moved,        \* history: the book moved since this cycle began
  bookMoves, hedgeFaults

hedgeVars == <<pead, hedgeRows, cycle, seen, outcome, moved, bookMoves, hedgeFaults>>

\* Mutant: the band alone.
Tolerance_BandOnly == Band

\* The band, but never less than half a lot.
Tolerance == IF Band > LotValue \div 2 THEN Band ELSE LotValue \div 2
Total(rows) == SumFunctionOnSet(rows, DOMAIN rows)
NoRows    == [i \in {} |-> 0]
Unseen    == [pead |-> 0, hedge |-> 0, order |-> 0, excess |-> 0, rows |-> NoRows]

\* The row is closed; one that was closed before stays so.
Without(rows, i) == [k \in DOMAIN rows \ {i} |-> rows[k]]
NextId           == IF hedgeRows = NoRows THEN 1 ELSE Max(DOMAIN hedgeRows) + 1

HedgeInit ==
  /\ pead = 0 /\ hedgeRows = NoRows
  /\ cycle = "asleep" /\ seen = Unseen
  /\ outcome = "none" /\ moved = FALSE
  /\ bookMoves = 0 /\ hedgeFaults = 0

HedgeFault == hedgeFaults < MaxHedgeFaults /\ hedgeFaults' = hedgeFaults + 1

\* The cycle ends; what it has read is forgotten.
EndsAs(o) == cycle' = "asleep" /\ seen' = Unseen /\ outcome' = o

Outside == UNCHANGED <<moved, bookMoves, pead>>

-----------------------------------------------------------------------------
(* The cycle.                                                              *)

ReadPead ==
  /\ cycle = "asleep"
  /\ cycle' = "hedge"
  /\ seen' = [seen EXCEPT !.pead = pead]
  /\ outcome' = "none" /\ moved' = FALSE
  /\ UNCHANGED <<pead, hedgeRows, bookMoves, hedgeFaults>>

\* Within the tolerance nothing happens, unless the book is empty.
ReadHedge ==
  /\ cycle = "hedge"
  /\ LET h     == Total(hedgeRows)
         delta == seen.pead - h
     IN  IF delta \in -Tolerance..Tolerance /\ ~(seen.pead = 0 /\ h > 0)
           THEN EndsAs("within")
           ELSE /\ cycle' = "quote"
                /\ seen' = [seen EXCEPT !.hedge = h]
                /\ UNCHANGED outcome
  /\ Outside /\ UNCHANGED <<hedgeRows, hedgeFaults>>

\* Without a quote the cycle is over; an error anywhere ends it as well.
Quote ==
  /\ cycle = "quote"
  /\ cycle' = IF seen.pead - seen.hedge > Tolerance THEN "gross" ELSE "rows"
  /\ Outside /\ UNCHANGED <<seen, outcome, hedgeRows, hedgeFaults>>

CycleDies ==
  /\ cycle # "asleep"
  /\ HedgeFault
  /\ EndsAs("failed")
  /\ Outside /\ UNCHANGED hedgeRows

\* Mutant: a lot for every lot begun.
Lots_Ceiling == (seen.pead - seen.hedge + LotValue - 1) \div LotValue

\* Nearest whole number of lots, one at least.
LotsFor(missing) ==
  LET n == (2 * missing + LotValue) \div (2 * LotValue) IN IF n < 1 THEN 1 ELSE n
Lots == LotsFor(seen.pead - seen.hedge)

\* open_position: whole shares for the lots, the exposure is read, and the cap
\* lets the order pass or refuses it; fewer lots are not tried.
CheckGross ==
  /\ cycle = "gross"
  /\ \E share \in 0..MaxShare :
       LET order == Lots * LotValue - share
       IN  IF pead + Total(hedgeRows) + order > GrossCap
             THEN EndsAs("refused")
             ELSE /\ cycle' = "insert" /\ seen' = [seen EXCEPT !.order = order]
                  /\ UNCHANGED outcome
  /\ Outside /\ UNCHANGED <<hedgeRows, hedgeFaults>>

InsertHedge ==
  /\ cycle = "insert"
  /\ hedgeRows' = [i \in DOMAIN hedgeRows \cup {NextId} |->
                     IF i = NextId THEN seen.order ELSE hedgeRows[i]]
  /\ EndsAs("extended")
  /\ Outside /\ UNCHANGED hedgeFaults

\* Over-hedged or without a book: the open rows, to be closed newest first.
ReadRows ==
  /\ cycle = "rows"
  /\ cycle' = "close"
  /\ seen' = [seen EXCEPT !.excess = seen.hedge - seen.pead, !.rows = hedgeRows]
  /\ Outside /\ UNCHANGED <<outcome, hedgeRows, hedgeFaults>>

Enough == IF seen.pead > 0 THEN seen.excess <= Tolerance
                           ELSE seen.excess <= 0

\* One whole row; it may have been closed by hand since it was read, and
\* then the statement changes nothing but the cycle counts it.
CloseRow ==
  /\ cycle = "close"
  /\ IF seen.rows = NoRows \/ Enough
       THEN EndsAs("shrunk") /\ UNCHANGED hedgeRows
       ELSE LET newest == Max(DOMAIN seen.rows)
            IN  /\ hedgeRows' = Without(hedgeRows, newest)
                /\ seen' = [seen EXCEPT !.rows = Without(@, newest),
                                        !.excess = @ - seen.rows[newest]]
                /\ UNCHANGED <<cycle, outcome>>
  /\ Outside /\ UNCHANGED hedgeFaults

-----------------------------------------------------------------------------
(* Everybody else: entries and exits of pead_long, and a manual exit of a  *)
(* hedge row.                                                              *)

BookMoves ==
  /\ bookMoves < MaxBookMoves
  /\ bookMoves' = bookMoves + 1
  /\ moved' = TRUE
  /\ \/ pead' \in 0..MaxPead \ {pead} /\ UNCHANGED hedgeRows
     \/ \E i \in DOMAIN hedgeRows : hedgeRows' = Without(hedgeRows, i) /\ UNCHANGED pead
  /\ UNCHANGED <<cycle, seen, outcome, hedgeFaults>>

HedgeStep == ReadPead \/ ReadHedge \/ Quote \/ CheckGross \/ InsertHedge \/ ReadRows \/ CloseRow
HedgeNext == HedgeStep \/ CycleDies \/ BookMoves

HedgeSpec == HedgeInit /\ [][HedgeNext]_hedgeVars

\* hedge_loop sleeps HEDGE_INTERVAL_S and goes on.
HedgeFairness == WF_hedgeVars(HedgeStep)

-----------------------------------------------------------------------------
(* Properties.                                                             *)

\* Notionals of rows by their ids.
RowsByIds(rows) ==
  /\ DOMAIN rows \subseteq Nat /\ IsFiniteSet(DOMAIN rows)
  /\ rows \in [DOMAIN rows -> Nat \ {0}]

HedgeTypeOK ==
  /\ pead \in 0..MaxPead /\ RowsByIds(hedgeRows)
  /\ cycle \in {"asleep", "hedge", "quote", "gross", "insert", "rows", "close"}
  /\ seen.pead \in 0..MaxPead /\ seen.hedge \in Nat /\ seen.order \in Nat /\ seen.excess \in Int
  /\ seen = [pead |-> seen.pead, hedge |-> seen.hedge, order |-> seen.order,
             excess |-> seen.excess, rows |-> seen.rows]
  /\ RowsByIds(seen.rows)
  /\ outcome \in {"none", "within", "extended", "shrunk", "refused", "failed"}
  /\ moved \in BOOLEAN

\* A cycle that was not disturbed leaves the book no more over-hedged than
\* half a lot, an empty book without a hedge, and after an extension no more
\* than half a lot (and a share) under-hedged (papertrade/main.py, hedge_loop).
HedgeAfterCycle ==
  (outcome \in {"within", "extended", "shrunk"} /\ ~moved) =>
    /\ Total(hedgeRows) <= pead + Tolerance
    /\ pead = 0 => Total(hedgeRows) = 0
    /\ outcome = "extended" => pead - Total(hedgeRows) <= Tolerance + MaxShare

\* The lots that are missing do not fit under the cap on the gross exposure.
CapForbids ==
  LET missing == pead - Total(hedgeRows)
  IN  /\ missing > Tolerance
      /\ pead + Total(hedgeRows) + LotsFor(missing) * LotValue > GrossCap

\* When the book rests the hedge comes to rest: within the tolerance, or too
\* small while the cap refuses the lots that are missing, never too large, and
\* gone with the book.  Closing whole rows and opening whole lots do not chase
\* each other for ever, and nothing but the cap leaves a book without its hedge
\* (papertrade/main.py, hedge_loop; papertrade/engine.py, open_position).
HedgeSettles ==
  <>[](/\ pead - Total(hedgeRows) \in -Tolerance..Tolerance \/ CapForbids
       /\ pead = 0 => Total(hedgeRows) = 0)

-----------------------------------------------------------------------------
(* The marks.                                                              *)

CONSTANTS
  Signals,      \* (report, symbol) pairs
  Offsets,      \* MARK_OFFSETS
  Never,        \* no row: a negative number
  MaxTick, MaxMarkFaults, MaxMarkCrashes    \* bounds

ASSUME MarksAssumption ==
  /\ Offsets \subseteq Nat \ {0}
  /\ Never \in Int /\ Never < 0
  /\ {MaxTick, MaxMarkFaults, MaxMarkCrashes} \subseteq Nat

VARIABLES
  tick,
  live,         \* _session_live
  t0,           \* when the t0 row of a signal was written
  marks,        \* when a follow-up was recorded
  queue,        \* _mark_queue: when due, the signal, the mark
  firing,       \* due entries that left the queue and wait for a quote
  unacked,      \* signals whose report is handled and not committed
  redelivered,  \* signals whose report comes again after a restart
  running,
  again,        \* history: signals handled more than once
  missed,       \* history: follow-ups given up
  markFaults, markCrashes

marksVars == <<tick, live, t0, marks, queue, firing, unacked, redelivered, running, again,
               missed, markFaults, markCrashes>>

Entry == [due : Nat, signal : Signals, mark : Offsets]

MarksInit ==
  /\ tick = 0 /\ live = TRUE
  /\ t0 = [s \in Signals |-> Never]
  /\ marks = [m \in Signals \X Offsets |-> Never]
  /\ queue = {} /\ firing = {} /\ unacked = {} /\ redelivered = {}
  /\ running = TRUE
  /\ again = {} /\ missed = {}
  /\ markFaults = 0 /\ markCrashes = 0

MarkFault == markFaults < MaxMarkFaults /\ markFaults' = markFaults + 1

GaveUp(es) == missed' = missed \cup {<<e.signal, e.mark>> : e \in es}

\* _capture_t0_marks: a row already there is left alone, but the follow-ups
\* are queued once more, and from now.  Without a quote nothing is marked.
Capture(s) ==
  /\ running /\ live
  /\ t0[s] = Never \/ s \in redelivered
  /\ t0' = [t0 EXCEPT ![s] = IF @ = Never THEN tick ELSE @]
  /\ again' = IF t0[s] = Never THEN again ELSE again \cup {s}
  /\ queue' = queue \cup {[due |-> tick + o, signal |-> s, mark |-> o] : o \in Offsets}
  /\ unacked' = unacked \cup {s}
  /\ redelivered' = redelivered \ {s}
  /\ UNCHANGED <<tick, live, marks, firing, running, missed, markFaults, markCrashes>>

\* The consumer's position is committed now and then.
Acknowledge ==
  /\ running /\ unacked # {}
  /\ unacked' = {}
  /\ UNCHANGED <<tick, live, t0, marks, queue, firing, redelivered, running, again,
                 missed, markFaults, markCrashes>>

\* marks_loop: what is due leaves the queue; after the close it is given up.
TakeDue ==
  LET due == {e \in queue : e.due <= tick}
  IN  /\ running /\ firing = {} /\ due # {}
      /\ queue' = queue \ due
      /\ IF live THEN firing' = due /\ UNCHANGED missed
                 ELSE GaveUp(due) /\ UNCHANGED firing
      /\ UNCHANGED <<tick, live, t0, marks, unacked, redelivered, running, again,
                     markFaults, markCrashes>>

\* A follow-up that has a row keeps it; an error gives up all that wait.
Record ==
  /\ running /\ firing # {}
  /\ \/ \E e \in firing :
          /\ marks' = [marks EXCEPT ![<<e.signal, e.mark>>] = IF @ = Never THEN tick ELSE @]
          /\ firing' = firing \ {e}
          /\ UNCHANGED <<missed, markFaults>>
     \/ /\ MarkFault
        /\ GaveUp(firing)
        /\ firing' = {}
        /\ UNCHANGED marks
  /\ UNCHANGED <<tick, live, t0, queue, unacked, redelivered, running, again, markCrashes>>

CrashOfMarks ==
  /\ running
  /\ markCrashes < MaxMarkCrashes
  /\ markCrashes' = markCrashes + 1
  /\ running' = FALSE
  /\ GaveUp(firing)
  /\ queue' = {} /\ firing' = {}
  /\ redelivered' = redelivered \cup unacked /\ unacked' = {}
  /\ UNCHANGED <<tick, live, t0, marks, again, markFaults>>

Missing == {[due |-> t0[m[1]] + m[2], signal |-> m[1], mark |-> m[2]] :
              m \in {m \in Signals \X Offsets : t0[m[1]] # Never /\ marks[m] = Never}}

\* Mutant: what is overdue fires at once.
Rearmed_Overdue == Missing

Rearmed == {e \in Missing : e.due > tick}

\* _rebuild_mark_queue; a query that fails arms nothing.
RestartOfMarks ==
  /\ ~running /\ running' = TRUE
  /\ \/ queue' = Rearmed /\ GaveUp(Missing \ Rearmed) /\ UNCHANGED markFaults
     \/ MarkFault /\ queue' = {} /\ GaveUp(Missing)
  /\ UNCHANGED <<tick, live, t0, marks, firing, unacked, redelivered, again, markCrashes>>

\* marks_loop runs in every tick the service is up.
Tick ==
  /\ tick < MaxTick
  /\ running => firing = {} /\ \A e \in queue : e.due > tick
  /\ tick' = tick + 1
  /\ live' \in {live, FALSE}
  /\ UNCHANGED <<t0, marks, queue, firing, unacked, redelivered, running, again,
                 missed, markFaults, markCrashes>>

MarksNext ==
  \/ \E s \in Signals : Capture(s)
  \/ Acknowledge \/ TakeDue \/ Record
  \/ CrashOfMarks \/ RestartOfMarks \/ Tick

MarksSpec == MarksInit /\ [][MarksNext]_marksVars

-----------------------------------------------------------------------------
(* Properties.                                                             *)

MarksTypeOK ==
  /\ tick \in 0..MaxTick /\ live \in BOOLEAN /\ running \in BOOLEAN
  /\ t0 \in [Signals -> {Never} \cup 0..MaxTick]
  /\ marks \in [Signals \X Offsets -> {Never} \cup 0..MaxTick]
  /\ queue \subseteq Entry /\ firing \subseteq Entry
  /\ UNION {unacked, redelivered, again} \subseteq Signals
  /\ missed \subseteq Signals \X Offsets

\* A follow-up that was recorded is as old as its name says, across crashes
\* and closes: what a restart finds overdue stays missing.  And none is missing
\* without a reason.  Only a report that is handled twice may still be marked
\* late, counted from its second time (papertrade/main.py, _rebuild_mark_queue
\* and marks_loop).
MarkOnTime ==
  \A s \in Signals, o \in Offsets : s \notin again =>
    /\ marks[<<s, o>>] \in {Never, t0[s] + o}
    /\ (running /\ t0[s] # Never) =>
         \/ marks[<<s, o>>] # Never \/ <<s, o>> \in missed
         \/ \E e \in queue \cup firing : e.signal = s /\ e.mark = o

=============================================================================
