--------------------------- MODULE CommodityShocks ---------------------------
(***************************************************************************)
(* The commodity engine: a detector that keeps the ticks of the last hour  *)
(* or so in memory and fires on a sudden move, at most once per cooldown.  *)
(* Ticks come from a topic; after a restart, or when the group rebalances, *)
(* the ticks since the last commit come again.  Prices are data: whether a *)
(* move is large and unusual is left open where there are prices enough to *)
(* tell.  One commodity; commodities share nothing.                        *)
(***************************************************************************)
EXTENDS Integers, Sequences, SequencesExt, FiniteSets

CONSTANTS
  Window,        \* detection window
  Baseline,      \* what the volatility is measured over, before the window
  MinHistory,    \* min_history_points
  ShockCooldown,
  MinSamples,    \* prices on the grid that make a volatility
  CommitLag,     \* time of ticks between two commits, of a consumer that keeps up
  MaxStep,       \* bound: largest pause between ticks
  MaxTicks, MaxDisruptions, MaxEngineFaults    \* bounds

\* The cooldown is over before there are samples enough once more.
ASSUME ShockAssumption ==
  /\ {Window, MinHistory, MinSamples, MaxStep} \subseteq Nat \ {0}
  /\ {Baseline, ShockCooldown, CommitLag, MaxTicks, MaxDisruptions, MaxEngineFaults} \subseteq Nat
  /\ Baseline >= (MinSamples - 1) * Window
  /\ ShockCooldown + CommitLag <= MinSamples * Window

VARIABLES
  ticks,        \* raw.commodity.in: times of the ticks
  position, committed,
  history,      \* st.history: times of the ticks kept
  lastShock,    \* st.last_shock_at, a long time ago at first
  emitting,     \* a shock on its way: the publications that are left
  fired,        \* history: times of the shocks that were fired
  audited, reported,    \* analysed.commodity_shock.in, analysed.impact.in
  disruptions, engineFaults

shockVars == <<ticks, position, committed, history, lastShock, emitting, fired, audited,
               reported, disruptions, engineFaults>>

LongBefore == -ShockCooldown
Targets    == {"audit", "report"}
Silent     == [at |-> 0, left |-> {}]

ShockInit ==
  /\ ticks = <<>> /\ position = 0 /\ committed = 0
  /\ history = <<>> /\ lastShock = LongBefore
  /\ emitting = Silent
  /\ fired = <<>> /\ audited = {} /\ reported = {}
  /\ disruptions = 0 /\ engineFaults = 0

LatestTick == IF ticks = <<>> THEN 0 ELSE Last(ticks)

Ticks ==
  /\ Len(ticks) < MaxTicks
  /\ \E pause \in 1..MaxStep : ticks' = Append(ticks, LatestTick + pause)
  /\ UNCHANGED <<position, committed, history, lastShock, emitting, fired, audited, reported,
                 disruptions, engineFaults>>

\* _price_at_offset: the scan from the oldest tick ends at the first that is
\* too young, and there is a price if it got past one.
HasPrice(kept, at) == kept # <<>> /\ Head(kept) <= at

\* _evict_old.
Evicted(kept, now) ==
  LET young == {i \in DOMAIN kept : kept[i] >= now - Window - Baseline - 1}
  IN  IF young = {} THEN <<>>
      ELSE SubSeq(kept, CHOOSE i \in young : \A j \in young : i <= j, Len(kept))

\* Mutant: any volatility will do.
EnoughSamples_Any(kept, now) == TRUE

\* _rolling_return_vol: prices on the grid of windows before the window.
EnoughSamples(kept, now) ==
  LET grid == {now - Window - Baseline + n * Window : n \in 0..(Baseline \div Window)}
  IN  Cardinality({t \in grid : HasPrice(kept, t)}) >= MinSamples

\* CommodityShockDetector.evaluate; a shock is published before the next tick.
Evaluate ==
  /\ position < Len(ticks) /\ emitting = Silent
  /\ ticks[position + 1] - ticks[committed + 1] <= CommitLag
  /\ position' = position + 1
  /\ LET now  == ticks[position + 1]
         kept == Evicted(Append(history, now), now)
         able == /\ Len(kept) >= MinHistory
                 /\ now - lastShock >= ShockCooldown
                 /\ HasPrice(kept, now - Window)
                 /\ EnoughSamples(kept, now)
     IN  /\ history' = kept
         /\ \/ UNCHANGED <<lastShock, emitting, fired>>
            \/ /\ able
               /\ lastShock' = now
               /\ fired' = Append(fired, now)
               /\ emitting' = [at |-> now, left |-> Targets]
  /\ UNCHANGED <<ticks, committed, audited, reported, disruptions, engineFaults>>

\* publish_shock and publish_impact side by side: one may fail, and the other
\* is sent all the same.
Emit(target) ==
  /\ target \in emitting.left
  /\ \/ /\ audited' = IF target = "audit" THEN audited \cup {emitting.at} ELSE audited
        /\ reported' = IF target = "report" THEN reported \cup {emitting.at} ELSE reported
        /\ UNCHANGED engineFaults
     \/ /\ engineFaults < MaxEngineFaults
        /\ engineFaults' = engineFaults + 1
        /\ UNCHANGED <<audited, reported>>
  /\ emitting' = IF emitting.left = {target} THEN Silent
                 ELSE [emitting EXCEPT !.left = @ \ {target}]
  /\ UNCHANGED <<ticks, position, committed, history, lastShock, fired, disruptions>>

\* Every second.
Commit ==
  /\ committed < position
  /\ committed' = position
  /\ UNCHANGED <<ticks, position, history, lastShock, emitting, fired, audited, reported,
                 disruptions, engineFaults>>

\* The ticks since the commit come again, to the same detector.
Rebalance ==
  /\ disruptions < MaxDisruptions
  /\ disruptions' = disruptions + 1
  /\ emitting = Silent
  /\ position' = committed
  /\ UNCHANGED <<ticks, committed, history, lastShock, emitting, fired, audited, reported,
                 engineFaults>>

\* The detector forgets everything, and a shock on its way is cut off.
EngineRestarts ==
  /\ disruptions < MaxDisruptions
  /\ disruptions' = disruptions + 1
  /\ position' = committed
  /\ history' = <<>> /\ lastShock' = LongBefore
  /\ emitting' = Silent
  /\ UNCHANGED <<ticks, committed, fired, audited, reported, engineFaults>>

ShockNext ==
  \/ Ticks \/ Evaluate \/ Commit \/ Rebalance \/ EngineRestarts
  \/ \E target \in Targets : Emit(target)

ShockSpec == ShockInit /\ [][ShockNext]_shockVars

-----------------------------------------------------------------------------
(* Properties.                                                             *)

ShockTypeOK ==
  /\ ticks \in Seq(Nat) /\ Len(ticks) <= MaxTicks
  /\ committed \in 0..position /\ position \in 0..Len(ticks)
  /\ ToSet(history) \subseteq ToSet(ticks)
  /\ lastShock \in ToSet(fired) \cup {LongBefore}
  /\ emitting.left \subseteq Targets
  /\ audited \cup reported \subseteq ToSet(fired)

\* No two shocks are fired within one cooldown, and none twice for one tick,
\* although a restart forgets the cooldown and ticks come again: by the time
\* there are prices enough for a volatility, the old cooldown is over
\* (commodity/main.py, "Idempotent under at-least-once redelivery").
ShocksSpaced ==
  \A i, j \in DOMAIN fired : i < j => fired[j] - fired[i] >= ShockCooldown

=============================================================================
