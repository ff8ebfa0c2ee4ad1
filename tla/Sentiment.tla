------------------------------ MODULE Sentiment ------------------------------
(***************************************************************************)
(* From a prediction market to trade signals: the adapter polls the        *)
(* market's probability and publishes moves, the worker classifies them    *)
(* into snapshots, the bridge turns a snapshot of a price theme into       *)
(* company impacts and signals.  One market of one theme; the news path    *)
(* shares the deduplication keys.  Probabilities are in percent, moves of  *)
(* the commodity and of shares in per mille.                               *)
(***************************************************************************)
EXTENDS Integers, Sequences, SequencesExt, FiniteSets

CONSTANTS
  Companies,     \* with a calibrated beta to the commodity
  Beta,          \* share move per commodity move
  Confidence,    \* of the beta: "low", "medium", "high"
  BullishOnYes,  \* direction_on_yes: bullish_in, or else bearish_in
  BaseMagnitude, NoiseFloor,     \* of a price theme
  MinDelta,      \* min_probability_delta
  HourTtl, DayTtl,               \* BASELINE_TTL_SECONDS, LAST_TTL_SECONDS
  DedupTtl,      \* SIGNAL_DEDUP_TTL_SEC
  Probabilities, \* bound: what the market may say
  MaxPause, MaxPolls, MaxFailures, MaxStarts     \* bounds

ASSUME SentimentAssumption ==
  /\ Beta \in [Companies -> Int] /\ \A c \in Companies : Beta[c] # 0
  /\ Confidence \in [Companies -> {"low", "medium", "high"}]
  /\ BullishOnYes \in BOOLEAN
  /\ IsFiniteSet(Companies)
  /\ BaseMagnitude \in 1..3 /\ NoiseFloor \in Nat \ {0} /\ MinDelta \in 1..NoiseFloor
  /\ {HourTtl, DayTtl, DedupTtl} \subseteq Nat \ {0} /\ HourTtl <= DayTtl /\ HourTtl <= DedupTtl
  /\ Probabilities \subseteq 0..100
  /\ {MaxPause, MaxPolls, MaxFailures, MaxStarts} \subseteq Nat

VARIABLES
  polls,        \* history: what the adapter saw, and when
  last, base,   \* poly:prob:last, poly:prob:1h: an observation of the past
  items,        \* raw.sentiment.in
  classified,   \* the worker's position
  snaps,        \* analysed.sentiment.in
  bridged,      \* the same, of the bridge
  sending,      \* signals of the report the bridge is about to send
  marked,       \* signal:emitted: until when each pair is a duplicate
  blind,        \* _get_redis failed: the process does without
  emitted,      \* history: signals in analysed.impact.in, of the bridge
  failures, starts

sentimentVars == <<polls, last, base, items, classified, snaps, bridged, sending,
                   marked, blind, emitted, failures, starts>>

Unknown == -1
Seen    == [value : Probabilities \cup {Unknown}, at : Nat]
NoReading   == [value |-> Unknown, at |-> 0]
Idle    == [snap |-> 0, signals |-> {}]
Now     == IF polls = <<>> THEN 0 ELSE Last(polls).at

\* The news path may have signalled the same before.
SentimentInit ==
  /\ polls = <<>> /\ last = NoReading /\ base = NoReading
  /\ items = <<>> /\ classified = 0
  /\ snaps = <<>> /\ bridged = 0 /\ sending = Idle
  /\ marked \in [Companies \X {"long", "short"} -> {0, DedupTtl}]
  /\ blind = FALSE /\ emitted = <<>>
  /\ failures = 0 /\ starts = 0

-----------------------------------------------------------------------------
(* The adapter.                                                            *)

Size(n) == IF n < 0 THEN -n ELSE n

\* A key that is missing or has expired.
Read(key, ttl, now) ==
  IF key.value = Unknown \/ now - key.at >= ttl THEN Unknown ELSE key.value

\* Mutant: the baseline never expires.
HourBase_Kept(now) == Read(base, 2 * DayTtl, now)

HourBase(now) == Read(base, HourTtl, now)

\* _process_market with _track_delta: both keys are read, the observation is
\* written, the baseline only where there is none; then the noise filter; then
\* the item is published.  A Redis error at any of these calls makes it a first
\* observation; an item that cannot be published is dropped, and the keys have
\* moved on all the same.
Poll ==
  /\ Len(polls) < MaxPolls
  /\ \E value \in Probabilities, pause \in 1..MaxPause, written \in 0..2, sent \in BOOLEAN :
       LET now   == Now + pause
           known == Read(last, DayTtl, now)
           prev  == IF written = 2 THEN known ELSE Unknown
           old   == HourBase(now)
           worth == prev = Unknown \/ Size(value - prev) >= MinDelta
           faulty == written < 2 \/ ~sent
       IN  /\ sent \/ worth
           /\ faulty => failures < MaxFailures
           /\ failures' = IF faulty THEN failures + 1 ELSE failures
           /\ polls' = Append(polls, [value |-> value, at |-> now])
           /\ last' = IF written = 0 THEN last ELSE [value |-> value, at |-> now]
           /\ base' = IF written = 2 /\ old = Unknown THEN [value |-> value, at |-> now] ELSE base
           /\ items' = IF worth /\ sent
                       THEN Append(items, [prev |-> prev,
                                           delta |-> IF written = 2 /\ old # Unknown
                                                     THEN value - old ELSE 0,
                                           of |-> Len(polls')])
                       ELSE items
  /\ UNCHANGED <<classified, snaps, bridged, sending, marked, blind, emitted, starts>>

-----------------------------------------------------------------------------
(* The worker.                                                             *)

Between(n, low, high) == IF n < low THEN low ELSE IF n > high THEN high ELSE n

\* scale_magnitude.
Magnitude(move) ==
  Between(BaseMagnitude + (CASE move >= 10 -> 2 [] move >= 5 -> 1 [] move >= 2 -> 0 [] OTHER -> -1), 1, 5)

\* resolve_direction: no move counts as a move to YES.
Bullish(delta) == IF delta >= 0 THEN BullishOnYes ELSE ~BullishOnYes

\* Mutant: the gate of the adapter is gate enough.
Moved_AnyItem(item) == TRUE

\* The noise gate of classify.
Moved(item) == item.prev = Unknown \/ Size(item.delta) >= NoiseFloor

\* handle of the worker: an error of classify or of the producer drops the item.
Classify ==
  /\ classified < Len(items)
  /\ classified' = classified + 1
  /\ LET item == items[classified + 1]
         snap == [bullish |-> Bullish(item.delta), magnitude |-> Magnitude(Size(item.delta)),
                  of |-> item.of]
     IN  \/ snaps' = (IF Moved(item) THEN Append(snaps, snap) ELSE snaps) /\ UNCHANGED failures
         \/ /\ Moved(item) /\ failures < MaxFailures
            /\ failures' = failures + 1
            /\ UNCHANGED snaps
  /\ UNCHANGED <<polls, last, base, items, bridged, sending, marked, blind, emitted, starts>>

-----------------------------------------------------------------------------
(* The bridge.                                                             *)

Levels == <<"low", "medium", "high">>
Level(name) == CHOOSE i \in 1..3 : Levels[i] = name

\* _MAGNITUDE_TO_PCT.
ImpliedMove(magnitude) == <<5, 10, 20, 30, 50>>[magnitude]

\* _conviction_for, with the z proxy 3 + magnitude / 2.
Conviction(magnitude, confidence) ==
  LET twice == 6 + magnitude
      move  == ImpliedMove(magnitude)
      level == IF twice >= 9 /\ move >= 25 THEN 3 ELSE IF twice >= 7 /\ move >= 15 THEN 2 ELSE 1
  IN  Levels[IF level < Level(confidence) THEN level ELSE Level(confidence)]

\* _impact_magnitude.
ImpactMagnitude(beta, move) ==
  LET implied == Size(beta * move)
  IN  CASE implied >= 25 -> 5 [] implied >= 15 -> 4 [] implied >= 8 -> 3 [] implied >= 4 -> 2
        [] OTHER -> 1

\* _commodity_direction: YES is a higher price.
Up(snap) == snap.bullish = BullishOnYes

\* _direction_for.
Way(beta, up) == IF up = (beta > 0) THEN "long" ELSE "short"

\* The signals of build_impact_report_from_sentiment.
SignalsOf(snap, exposed) ==
  {[symbol |-> c, way |-> Way(Beta[c], Up(snap)), of |-> snap.of, at |-> Now, checked |-> TRUE] :
     c \in {c \in exposed :
              /\ ImpactMagnitude(Beta[c], ImpliedMove(snap.magnitude)) >= 3
              /\ Conviction(snap.magnitude, Confidence[c]) # "low"
              /\ Confidence[c] # "low"}}

Duplicate(c, way) == Now < marked[<<c, way>>]

\* run of the bridge up to the send: the exposures of the database or of the
\* five-minute cache, no report without any; filter_signals drops a symbol that
\* does not resolve and a pair marked within the window, and marks the others.
\* Without Redis every signal passes and nothing is marked: after one error, or
\* for as long as the process lives when the first call of all found none.
Bridge ==
  /\ bridged < Len(snaps) /\ sending = Idle
  /\ bridged' = bridged + 1
  /\ \E exposed \in {{}, Companies}, unresolved \in SUBSET Companies, redis \in BOOLEAN :
       LET signals == SignalsOf(snaps[bridged + 1], exposed)
           able    == {s \in signals : s.symbol \notin unresolved}
           fresh   == {s \in able : ~Duplicate(s.symbol, s.way)}
           faulty  == unresolved # {} \/ ~(redis \/ blind)
       IN  /\ unresolved \subseteq {s.symbol : s \in signals}
           /\ redis \/ able # {}
           /\ blind /\ able # {} => ~redis
           /\ blind' \in (IF redis \/ blind THEN {blind} ELSE BOOLEAN)
           /\ faulty => failures < MaxFailures
           /\ failures' = IF faulty THEN failures + 1 ELSE failures
           /\ sending' = IF exposed = {} THEN Idle
                         ELSE [snap |-> bridged + 1,
                               signals |-> IF redis THEN fresh
                                           ELSE {[s EXCEPT !.checked = FALSE] : s \in able}]
           /\ marked' = IF redis
                        THEN [p \in DOMAIN marked |->
                                IF \E s \in fresh : <<s.symbol, s.way>> = p
                                THEN Now + DedupTtl ELSE marked[p]]
                        ELSE marked
  /\ UNCHANGED <<polls, last, base, items, classified, snaps, emitted, starts>>

\* send_and_wait; the acknowledgement may be lost, the record being there.
Send ==
  /\ sending # Idle
  /\ emitted' = emitted \o SetToSeq(sending.signals)
  /\ sending' = Idle
  /\ UNCHANGED <<polls, last, base, items, classified, snaps, bridged, marked, blind, failures,
                 starts>>

-----------------------------------------------------------------------------
(* The consumers' lives.                                                   *)

\* The worker process ends, by a crash or because the send of the bridge failed
\* (main waits for the first task that ends).  Positions are committed on a
\* timer, the record in hand included: classifier and bridge start again there
\* or at any record before.
WorkerStarts ==
  /\ starts < MaxStarts
  /\ starts' = starts + 1
  /\ classified' \in 0..classified /\ bridged' \in 0..bridged
  /\ sending' = Idle /\ blind' = FALSE
  /\ UNCHANGED <<polls, last, base, items, snaps, marked, emitted, failures>>

SentimentNext ==
  Poll \/ Classify \/ Bridge \/ Send \/ WorkerStarts

SentimentSpec == SentimentInit /\ [][SentimentNext]_sentimentVars

-----------------------------------------------------------------------------
(* Properties.                                                             *)

SentimentTypeOK ==
  /\ polls \in Seq(Seen) /\ Len(polls) <= MaxPolls
  /\ {last, base} \subseteq Seen
  /\ classified \in 0..Len(items) /\ bridged \in 0..Len(snaps) /\ sending.snap \in 0..bridged
  /\ \A i \in DOMAIN snaps : snaps[i].magnitude \in 1..5

\* The move a signal says it follows: the market did move that far within the
\* hour before, in the direction that makes this trade.
Earned(s) ==
  \E i \in 1..(s.of - 1) :
    LET move == polls[s.of].value - polls[i].value
    IN  /\ polls[s.of].at - polls[i].at < HourTtl
        /\ Size(move) >= NoiseFloor
        /\ s.way = IF (move > 0) = (Beta[s.symbol] > 0) THEN "long" ELSE "short"

\* Every signal the bridge emits was earned, and within the window no pair is
\* signalled twice, although items and snapshots come again after a restart,
\* writes fail and a market seen for the first time makes a report as well;
\* signals that Redis could not check are excepted (signal_gates.py:141,
\* impact_bridge.py:96).
SignalEarned ==
  /\ \A i \in DOMAIN emitted : Earned(emitted[i])
  /\ \A i, j \in DOMAIN emitted :
       /\ i # j
       /\ emitted[i].symbol = emitted[j].symbol /\ emitted[i].way = emitted[j].way
       /\ emitted[i].checked /\ emitted[j].checked
       => Size(emitted[i].at - emitted[j].at) >= DedupTtl

=============================================================================
