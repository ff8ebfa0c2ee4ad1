--------------------------- MODULE Services_proofs ---------------------------
(***************************************************************************)
(* Proofs about the services around the terminal: no call, alert or        *)
(* request record is lost or stored twice without a reason and a breach    *)
(* that recurs is answered (RecordsKeptHolds), no request for an account   *)
(* is forgotten (NobodyForgottenHolds), a stale authorisation is explained *)
(* by a change that is on its way (StaleExplainedHolds), only a race       *)
(* removes the last admin (LastAdminRaceHolds), and what a reset deletes   *)
(* is in the archive (ArchiveCompleteHolds). Each rests on an inductive    *)
(* invariant of its service; ServicesCompose takes the services together,  *)
(* as the runs do.                                                         *)
(***************************************************************************)
EXTENDS MC_Services, SequenceLemmas

-----------------------------------------------------------------------------
(* Metering.                                                               *)

\* The part of the state that a worker's monitor lives by.
MonitorTyped ==
  /\ now \in Nat /\ now <= MaxTime
  /\ logged \in Nat /\ raised \in Nat /\ logged <= MaxCalls /\ raised <= MaxAlerts
  /\ sending \subseteq 1..raised /\ dead \subseteq Queues
  /\ spent \in Seq(Nat) /\ UpTo(spent, now)
  /\ breaches \in [AlertKinds -> Seq(Nat)]
  /\ lastAlert \in [AlertKinds -> Int]
  /\ \A k \in AlertKinds : UpTo(breaches[k], now) /\ LongAgo <= lastAlert[k] /\ lastAlert[k] <= now

\* The latest breach of a kind that recurred was within the cooldown of an alert.
LatestAnswered(k) ==
  LET b == breaches[k]
  IN  /\ Ascending(b)
      /\ Len(b) >= BreachCount => b[Len(b)] - lastAlert[k] < Cooldown

MonitorInv == MonitorTyped /\ \A k \in AlertKinds : LatestAnswered(k)

-----------------------------------------------------------------------------

LEMMA SinceProperties ==
  ASSUME NEW s \in Seq(Nat), NEW t \in Int
  PROVE  /\ Since(s, t) \in Seq(Nat)
         /\ Len(Since(s, t)) <= Len(s)
         /\ Len(Since(s, t)) > 0 => /\ Since(s, t)[Len(Since(s, t))] = s[Len(s)]
                                    /\ \E i \in 1..Len(s) : s[i] >= t
         /\ Len(s) > 0 /\ s[Len(s)] >= t => Len(Since(s, t)) > 0
         /\ Ascending(s) => Ascending(Since(s, t))
         /\ \A u \in Int : UpTo(s, u) => UpTo(Since(s, t), u)
<1> DEFINE old == {i \in DOMAIN s : s[i] < t}
<1>1. Len(s) \in Nat /\ DOMAIN s = 1..Len(s) /\ \A i \in 1..Len(s) : s[i] \in Nat
  OBVIOUS
<1>2. IsFiniteSet(1..Len(s)) /\ Cardinality(1..Len(s)) = Len(s)
  BY <1>1, FS_Interval
<1>3. old \subseteq 1..Len(s) /\ \A i \in 1..Len(s) : i \in old <=> s[i] < t
  BY <1>1
<1> HIDE DEF old
<1>4. Cardinality(old) \in 0..Len(s) /\ (Cardinality(old) = Len(s) => old = 1..Len(s))
  <2>1. /\ Cardinality(old) <= Len(s) /\ Cardinality(old) \in Nat
        /\ Cardinality(old) = Len(s) => old = 1..Len(s)
    BY <1>2, <1>3, FS_Subset, FS_CardinalityType
  <2> QED BY <2>1, <1>1
<1>5. PICK n \in 0..Len(s) : n = Cardinality(old)
  BY <1>4
<1>0. Len(s) \in Int /\ n \in Int /\ n <= Len(s)
  BY <1>1, <1>5
<1>6. n = Len(s) => old = 1..Len(s)
  BY <1>4, <1>5
<1>7. Since(s, t) = SubSeq(s, n + 1, Len(s))
  BY <1>5 DEF Since, old
<1>8. /\ Since(s, t) \in Seq(Nat) /\ Len(Since(s, t)) = Len(s) - n
      /\ n < Len(s) => Since(s, t)[Len(Since(s, t))] = s[Len(s)]
      /\ Ascending(s) => Ascending(Since(s, t))
      /\ \A u \in Int : UpTo(s, u) => UpTo(Since(s, t), u)
  BY <1>7, SuffixProperties
<1>9. ASSUME n < Len(s) PROVE \E i \in 1..Len(s) : s[i] >= t
  <2>1. n # Len(s)
    BY <1>0, <1>9, NotBelowItself
  <2>2. old # 1..Len(s)
    BY <2>1, <1>2, <1>5
  <2>3. PICK i \in 1..Len(s) : i \notin old
    BY <2>2, <1>3
  <2>4. ~(s[i] < t) /\ s[i] \in Nat
    BY <2>3, <1>1, <1>3
  <2> QED BY <2>4
<1>10. ASSUME Len(s) > 0, s[Len(s)] >= t PROVE n < Len(s)
  <2>1. Len(s) \in 1..Len(s)
    BY <1>1, <1>10
  <2>2. s[Len(s)] \in Nat
    BY <2>1, <1>1
  <2>3. Len(s) \notin old
    BY <2>1, <2>2, <1>3, <1>10
  <2>4. n # Len(s)
    BY <2>1, <2>3, <1>6
  <2> QED BY <2>4, <1>0
<1>11. Len(s) - n <= Len(s) /\ (Len(s) - n > 0 <=> n < Len(s))
  BY <1>1
<1> QED BY <1>8, <1>9, <1>10, <1>11

\* What is left of the alerts when something may have raised one.
AlertsSound ==
  /\ raised' \in {raised, raised + 1} /\ raised' <= MaxAlerts
  /\ (1..raised') \ sending' = (1..raised) \ sending
  /\ sending' \subseteq 1..raised'
  /\ lastAlert' \in [AlertKinds -> Int]
  /\ \A k \in AlertKinds : lastAlert'[k] >= lastAlert[k] /\ lastAlert'[k] <= now

\* No alert is raised.
LEMMA QuietAlerts ==
  ASSUME MonitorInv, UNCHANGED <<lastAlert, raised, sending>>
  PROVE  AlertsSound
BY DEF MonitorInv, MonitorTyped, AlertsSound

LEMMA EmitEffect ==
  ASSUME MonitorInv, NEW k \in AlertKinds, Emit(k)
  PROVE  AlertsSound /\ now - lastAlert'[k] < Cooldown
<1> USE MeterBounds
<1>1. /\ now \in Nat /\ raised \in Nat /\ sending \subseteq 1..raised
      /\ lastAlert \in [AlertKinds -> Int] /\ \A l \in AlertKinds : lastAlert[l] <= now
      /\ raised <= MaxAlerts
  BY DEF MonitorInv, MonitorTyped
<1>2. CASE now - lastAlert[k] < Cooldown
  <2>1. UNCHANGED <<lastAlert, raised, sending>>
    BY <1>2 DEF Emit
  <2> QED BY <1>2, <2>1, QuietAlerts
<1>3. CASE ~(now - lastAlert[k] < Cooldown)
  <2>1. /\ raised < MaxAlerts /\ lastAlert' = [lastAlert EXCEPT ![k] = now]
        /\ raised' = raised + 1 /\ sending' = sending \cup {raised + 1}
    BY <1>3 DEF Emit
  <2>2. (1..raised') \ sending' = (1..raised) \ sending /\ sending' \subseteq 1..raised'
    BY <1>1, <2>1
  <2>3. lastAlert' \in [AlertKinds -> Int]
    BY <1>1, <2>1
  <2>4. /\ \A l \in AlertKinds : lastAlert'[l] >= lastAlert[l] /\ lastAlert'[l] <= now
        /\ now - lastAlert'[k] < Cooldown
    BY <1>1, <2>1
  <2> QED BY <1>1, <2>1, <2>2, <2>3, <2>4 DEF AlertsSound
<1> QED BY <1>2, <1>3

LEMMA LaterAnswer ==
  ASSUME NEW b \in Int, NEW a \in Int, NEW later \in Int, NEW c \in Int, b - a < c, later >= a
  PROVE  b - later < c
OBVIOUS

LEMMA StillAnswered ==
  ASSUME MonitorInv, AlertsSound, NEW k \in AlertKinds, breaches'[k] = breaches[k]
  PROVE  LatestAnswered(k)'
<1>1. LatestAnswered(k) /\ breaches[k] \in Seq(Nat) /\ lastAlert[k] \in Int
  BY DEF MonitorInv, MonitorTyped
<1>2. lastAlert'[k] \in Int /\ lastAlert'[k] >= lastAlert[k]
  BY DEF AlertsSound
<1>3. ASSUME Len(breaches[k]) >= BreachCount
      PROVE  breaches[k][Len(breaches[k])] - lastAlert'[k] < Cooldown
  <2>1. Len(breaches[k]) \in 1..Len(breaches[k])
    BY <1>1, <1>3, MeterBounds
  <2>2. breaches[k][Len(breaches[k])] \in Nat
    BY <1>1, <2>1
  <2>3. breaches[k][Len(breaches[k])] - lastAlert[k] < Cooldown /\ Cooldown \in Nat
    BY <1>1, <1>3, MeterBounds DEF LatestAnswered
  <2> QED BY <1>1, <1>2, <2>2, <2>3, LaterAnswer
<1> QED BY <1>1, <1>3 DEF LatestAnswered

LEMMA BreachEffect ==
  ASSUME MonitorInv, NEW k \in AlertKinds, Breach(k)
  PROVE  /\ AlertsSound
         /\ breaches' \in [AlertKinds -> Seq(Nat)]
         /\ \A l \in AlertKinds : UpTo(breaches'[l], now) /\ LatestAnswered(l)'
<1> DEFINE longer == Append(breaches[k], now)
           recent == Since(longer, now - BreachWindow)
<1>1. /\ now \in Nat /\ breaches \in [AlertKinds -> Seq(Nat)]
      /\ \A l \in AlertKinds : UpTo(breaches[l], now) /\ LatestAnswered(l)
  BY DEF MonitorInv, MonitorTyped
<1>2. /\ longer \in Seq(Nat) /\ Ascending(longer) /\ UpTo(longer, now) /\ Len(longer) > 0
      /\ longer[Len(longer)] = now
  <2>1. Ascending(breaches[k]) /\ breaches[k] \in Seq(Nat) /\ Len(breaches[k]) \in Nat
    BY <1>1 DEF LatestAnswered
  <2> QED BY <1>1, <2>1, AppendAscending
<1>3. now - BreachWindow \in Int /\ now >= now - BreachWindow
  BY <1>1, MeterBounds
<1> HIDE DEF longer
<1>4. /\ recent \in Seq(Nat) /\ Ascending(recent) /\ Len(recent) > 0
      /\ recent[Len(recent)] = now /\ UpTo(recent, now)
  BY <1>1, <1>2, <1>3, SinceProperties
<1>5. /\ breaches' = [breaches EXCEPT ![k] = recent]
      /\ IF Len(recent) >= BreachCount THEN Emit(k) ELSE UNCHANGED <<lastAlert, raised, sending>>
  BY DEF Breach, longer
<1> HIDE DEF recent
<1>6. /\ breaches' \in [AlertKinds -> Seq(Nat)] /\ breaches'[k] = recent
      /\ \A l \in AlertKinds \ {k} : breaches'[l] = breaches[l]
      /\ \A l \in AlertKinds : UpTo(breaches'[l], now)
  BY <1>1, <1>4, <1>5
<1>7. AlertsSound
  BY <1>5, EmitEffect, QuietAlerts
<1>8. \A l \in AlertKinds \ {k} : LatestAnswered(l)'
  BY <1>6, <1>7, StillAnswered
<1>9. LatestAnswered(k)'
  BY <1>4, <1>5, <1>6, EmitEffect DEF LatestAnswered
<1> QED BY <1>6, <1>7, <1>8, <1>9

LEMMA WithinBoth ==
  ASSUME NEW now_ \in Int, NEW last \in Int, NEW one \in Int, NEW alert \in Int, NEW c \in Int,
         NEW w \in Int, one >= now_ - w, one <= last, last - alert < c
  PROVE  now_ - alert < c + w
OBVIOUS

\* An answer is found in time: the window of the breaches later.
LEMMA AnsweredInTime == ASSUME MonitorInv PROVE BreachAnswered
<1> SUFFICES ASSUME NEW k \in AlertKinds,
                    Len(Since(breaches[k], now - BreachWindow)) >= BreachCount
             PROVE  now - lastAlert[k] < Cooldown + BreachWindow
  BY DEF BreachAnswered
<1> DEFINE b == breaches[k]
           recent == Since(b, now - BreachWindow)
<1>1. /\ now \in Nat /\ b \in Seq(Nat) /\ lastAlert[k] \in Int
      /\ now - BreachWindow \in Int /\ UpTo(b, now) /\ LatestAnswered(k)
      /\ BreachCount \in Nat \ {0} /\ Cooldown \in Nat /\ BreachWindow \in Nat
  BY MeterBounds DEF MonitorInv, MonitorTyped
<1>2. Len(recent) >= BreachCount
  OBVIOUS
<1>3. /\ recent \in Seq(Nat) /\ Len(recent) <= Len(b)
      /\ Len(recent) > 0 => \E i \in 1..Len(b) : b[i] >= now - BreachWindow
  BY <1>1, SinceProperties
<1> HIDE DEF recent
<1>4. Len(recent) > 0 /\ Len(b) >= BreachCount /\ Len(b) \in Nat
  BY <1>1, <1>2, <1>3
<1>5. PICK i \in 1..Len(b) : b[i] >= now - BreachWindow
  BY <1>3, <1>4
<1>6. Len(b) \in 1..Len(b) /\ (i < Len(b) \/ i = Len(b))
  BY <1>4
<1>7. b[Len(b)] \in Nat /\ b[i] \in Nat
  BY <1>1, <1>6
<1>8. b[i] <= b[Len(b)]
  <2>1. CASE i = Len(b)
    BY <2>1, <1>7
  <2>2. CASE i < Len(b)
    BY <2>2, <1>1, <1>6 DEF LatestAnswered, Ascending
  <2> QED BY <2>1, <2>2, <1>6
<1>9. b[Len(b)] - lastAlert[k] < Cooldown
  BY <1>1, <1>4 DEF LatestAnswered
<1>10. now \in Int /\ BreachWindow \in Int /\ Cooldown \in Int /\ lastAlert[k] \in Int
  BY <1>1
<1> DEFINE one == b[i]
           newest == b[Len(b)]
           alert == lastAlert[k]
<1>11. one \in Int /\ newest \in Int
  BY <1>7
<1>12. one >= now - BreachWindow /\ one <= newest /\ newest - alert < Cooldown /\ alert \in Int
  BY <1>5, <1>8, <1>9, <1>10
<1> HIDE DEF b, one, newest, alert
<1>13. now - alert < Cooldown + BreachWindow
  BY <1>10, <1>11, <1>12, WithinBoth
<1> QED BY <1>13 DEF alert

-----------------------------------------------------------------------------
(* The queues.                                                             *)

CountedBags == UNION {[D -> Nat \ {0}] : D \in SUBSET Nat}
Hands  == [queue : Queues, entries : Seq(Nat), step : {"insert", "requeue"}]

QueuesTyped ==
  /\ list \in [Queues -> Seq(Nat)] /\ gone \in [Queues -> SUBSET Nat]
  /\ rows \in [Queues -> CountedBags] /\ ackLost \in Nat /\ turn \in Queues
  /\ hand = Nothing \/ hand \in Hands

\* The copies of an entry that its table may hold, and one less while it waits.
Most(q) == IF q = "calls" THEN 1 ELSE 1 + ackLost
RowsSound(q) ==
  \A e \in BagToSet(rows[q]) :
    /\ rows[q][e] <= Most(q)
    /\ q = "alerts" /\ e \in ToSet(list[q]) \cup Held(q) => rows[q][e] < Most(q)

\* Nobody waits twice, and an entry that was made is somewhere.
QueueSound(q) ==
  /\ IsInjective(list[q])
  /\ hand.queue = q => IsInjective(hand.entries)
  /\ Held(q) \cap ToSet(list[q]) = {}
  /\ ToSet(list[q]) \cup Held(q) \cup BagToSet(rows[q]) \cup gone[q] = Made(q)
  /\ RowsSound(q)

QueueInv == QueuesTyped /\ \A q \in Queues : QueueSound(q)

LEMMA HandFacts ==
  ASSUME QueuesTyped
  PROVE  /\ hand # Nothing => hand \in Hands /\ hand.queue \in Queues /\ hand.entries \in Seq(Nat)
         /\ hand = Nothing => hand.queue = "none"
         /\ hand.queue # "none" <=> hand # Nothing
         /\ \A q \in Queues : q # "none"
         /\ \A q \in Queues : hand = Nothing => Held(q) = {}
         /\ \A q \in Queues : hand.queue # q => Held(q) = {}
<1>1. Nothing.queue = "none"
  BY DEF Nothing
<1>2. \A q \in Queues : q # "none"
  BY DEF Queues
<1>3. hand # Nothing => hand \in Hands /\ hand.queue \in Queues /\ hand.entries \in Seq(Nat)
  BY DEF QueuesTyped, Hands
<1> QED BY <1>1, <1>2, <1>3 DEF Held

LEMMA OneMoreEach ==
  ASSUME NEW a \in Nat, NEW b \in Nat, b >= a
  PROVE  1 + a \in Nat /\ 1 + b \in Nat /\ 1 + b >= 1 + a
OBVIOUS

\* A queue that a step leaves alone.
LEMMA QueueStill ==
  ASSUME QueueInv, NEW q \in Queues, list'[q] = list[q], gone'[q] = gone[q], rows'[q] = rows[q],
         Made(q)' = Made(q), Held(q)' = Held(q),
         hand'.queue = q => IsInjective(hand'.entries),
         ackLost' \in Nat, ackLost' >= ackLost
  PROVE  QueueSound(q)'
<1>1. QueueSound(q) /\ rows[q] \in CountedBags /\ ackLost \in Nat
  BY DEF QueueInv, QueuesTyped
<1>2. \A e \in BagToSet(rows[q]) : rows[q][e] \in Nat
  BY <1>1 DEF CountedBags, BagToSet
<1>3. Most(q) \in Nat /\ Most(q)' \in Nat /\ Most(q)' >= Most(q)
  <2>1. CASE q = "calls"
    BY <2>1 DEF Most
  <2>2. CASE q # "calls"
    <3>1. Most(q) = 1 + ackLost /\ Most(q)' = 1 + ackLost'
      BY <2>2 DEF Most
    <3>2. ackLost \in Nat /\ ackLost' \in Nat /\ ackLost' >= ackLost
      BY <1>1
    <3> QED BY <3>1, <3>2, OneMoreEach
  <2> QED BY <2>1, <2>2
<1>4. RowsSound(q)'
  <2> SUFFICES ASSUME NEW e \in BagToSet(rows[q])
               PROVE  /\ rows[q][e] <= Most(q)'
                      /\ q = "alerts" /\ e \in ToSet(list[q]) \cup Held(q) => rows[q][e] < Most(q)'
    BY DEF RowsSound
  <2>1. /\ rows[q][e] <= Most(q)
        /\ q = "alerts" /\ e \in ToSet(list[q]) \cup Held(q) => rows[q][e] < Most(q)
    BY <1>1 DEF QueueSound, RowsSound
  <2> QED BY <2>1, <1>2, <1>3
<1> QED BY <1>1, <1>4 DEF QueueSound

\* All the queues are left alone.
LEMMA QueuesStill ==
  ASSUME QueueInv, UNCHANGED <<list, flusher, gone>>, \A q \in Queues : Made(q)' = Made(q)
  PROVE  QueueInv'
<1>1. QueuesTyped'
  BY DEF QueueInv, QueuesTyped, flusher, Nothing, Hands, Queues
<1>2. ASSUME NEW q \in Queues PROVE QueueSound(q)'
  <2>1. Held(q)' = Held(q)
    BY DEF Held, flusher
  <2>2. hand.queue = q => IsInjective(hand.entries)
    BY DEF QueueInv, QueueSound
  <2>3. ackLost' = ackLost /\ ackLost \in Nat /\ hand' = hand /\ rows' = rows
    BY DEF QueueInv, QueuesTyped, flusher
  <2>4. ackLost' >= ackLost
    BY <2>3
  <2> QED BY <2>1, <2>2, <2>3, <2>4, QueueStill
<1> QED BY <1>1, <1>2 DEF QueueInv

\* A new entry is pushed, trimmed away, or given up.
LEMMA PushEffect ==
  ASSUME QueueInv, NEW q \in Queues, NEW e \in Nat, e \notin Made(q), Push(q, e), UNCHANGED flusher,
         Made(q)' = Made(q) \cup {e}, \A p \in Queues \ {q} : Made(p)' = Made(p)
  PROVE  QueueInv' /\ (dead \subseteq Queues => dead' \subseteq Queues)
<1>1. QueuesTyped /\ QueueSound(q) /\ list[q] \in Seq(Nat)
  BY DEF QueueInv, QueuesTyped
<1>2. rows' = rows /\ ackLost' = ackLost /\ hand' = hand /\ turn' = turn
  BY DEF flusher
<1>3. \A p \in Queues : Held(p)' = Held(p)
  BY <1>2 DEF Held
<1>4. dead \subseteq Queues => dead' \subseteq Queues
  BY DEF Push
<1>5. ASSUME NEW s \in Seq(Nat), NEW g \in SUBSET Nat, list' = [list EXCEPT ![q] = s],
             gone' = [gone EXCEPT ![q] = @ \cup g], IsInjective(s),
             ToSet(s) \subseteq ToSet(list[q]) \cup {e},
             ToSet(s) \cup g = ToSet(list[q]) \cup {e}
      PROVE  QueueInv'
  <2>1. list' \in [Queues -> Seq(Nat)] /\ gone' \in [Queues -> SUBSET Nat]
    BY <1>1, <1>5 DEF QueuesTyped
  <2>2. list'[q] = s /\ gone'[q] = gone[q] \cup g
    BY <1>1, <1>5 DEF QueuesTyped
  <2>3. \A p \in Queues \ {q} : list'[p] = list[p] /\ gone'[p] = gone[p]
    BY <1>1, <1>5 DEF QueuesTyped
  <2>4. QueuesTyped'
    BY <1>1, <1>2, <2>1 DEF QueuesTyped, Nothing, Hands, Queues
  <2>5. \A p \in Queues \ {q} : QueueSound(p)'
    <3> SUFFICES ASSUME NEW p \in Queues \ {q} PROVE QueueSound(p)'
      OBVIOUS
    <3>1. hand.queue = p => IsInjective(hand.entries)
      BY DEF QueueInv, QueueSound
    <3>2. ackLost' \in Nat /\ ackLost' >= ackLost
      BY <1>1, <1>2 DEF QueuesTyped
    <3> QED BY <1>2, <1>3, <2>3, <3>1, <3>2, QueueStill
  <2>6. e \notin ToSet(list[q]) /\ e \notin Held(q) /\ e \notin BagToSet(rows[q])
    BY <1>1 DEF QueueSound
  <2>7. QueueSound(q)'
    <3>1. ToSet(s) \cup Held(q) \cup BagToSet(rows[q]) \cup gone[q] \cup g = Made(q) \cup {e}
      BY <1>1, <1>5 DEF QueueSound
    <3>2. RowsSound(q)'
      BY <1>1, <1>2, <1>3, <1>5, <2>2, <2>6 DEF QueueSound, RowsSound, Most
    <3>3. /\ IsInjective(list'[q]) /\ (hand'.queue = q => IsInjective(hand'.entries))
          /\ Held(q)' \cap ToSet(list'[q]) = {}
      BY <1>1, <1>2, <1>3, <1>5, <2>2, <2>6 DEF QueueSound
    <3>4. ToSet(list'[q]) \cup Held(q)' \cup BagToSet(rows'[q]) \cup gone'[q] = Made(q)'
      BY <1>2, <1>3, <2>2, <3>1
    <3> QED BY <3>2, <3>3, <3>4 DEF QueueSound
  <2> QED BY <2>4, <2>5, <2>7 DEF QueueInv
<1>6. CASE gone' = [gone EXCEPT ![q] = @ \cup {e}] /\ list' = list
  <2>1. list' = [list EXCEPT ![q] = list[q]]
    BY <1>1, <1>6 DEF QueuesTyped
  <2>2. IsInjective(list[q])
    BY <1>1 DEF QueueSound
  <2>3. {e} \in SUBSET Nat /\ list[q] \in Seq(Nat) /\ ToSet(list[q]) \subseteq ToSet(list[q]) \cup {e}
    BY <1>1
  <2>4. QueueInv'
    BY <1>5, <1>6, <2>1, <2>2, <2>3
  <2> QED BY <1>4, <2>4
<1>7. CASE /\ list' = [list EXCEPT ![q] = LET longer == <<e>> \o list[q]
                                          IN  SubSeq(longer, 1, IF Len(longer) > ListCap
                                                                 THEN ListCap ELSE Len(longer))]
           /\ gone' = [gone EXCEPT ![q] = @ \cup (ToSet(<<e>> \o list[q]) \ ToSet(list'[q]))]
  <2> DEFINE longer == <<e>> \o list[q]
  <2>1. /\ <<e>> \in Seq(Nat) /\ IsInjective(<<e>>) /\ ToSet(<<e>>) = {e}
    <3>1. <<e>> \in Seq(Nat) /\ DOMAIN <<e>> = {1} /\ <<e>>[1] = e
      OBVIOUS
    <3> QED BY <3>1 DEF IsInjective, ToSet
  <2>2. ToSet(longer) = {e} \cup ToSet(list[q]) /\ longer \in Seq(Nat)
    <3>1. longer \in Seq(Nat)
      BY <1>1, <2>1
    <3>2. ToSet(longer) = ToSet(<<e>>) \cup ToSet(list[q])
      BY <1>1, <2>1, SetOfConcat
    <3> QED BY <2>1, <3>1, <3>2
  <2>3. IsInjective(longer)
    <3>1. ToSet(<<e>>) \cap ToSet(list[q]) = {}
      BY <1>1, <2>1 DEF QueueSound
    <3> QED BY <1>1, <2>1, <3>1, InjectiveConcat DEF QueueSound
  <2> HIDE DEF longer
  <2> DEFINE n == IF Len(longer) > ListCap THEN ListCap ELSE Len(longer)
             s == SubSeq(longer, 1, n)
  <2>4. n \in 0..Len(longer)
    BY <2>2, MeterBounds
  <2>5. s \in Seq(Nat) /\ ToSet(s) \subseteq ToSet(longer) /\ IsInjective(s)
    <3> HIDE DEF n
    <3> QED BY <2>2, <2>3, <2>4, FirstOfMany
  <2>6. list' = [list EXCEPT ![q] = s]
    BY <1>7 DEF longer
  <2> HIDE DEF s
  <2>7. list'[q] = s
    BY <1>1, <2>6 DEF QueuesTyped
  <2>8. gone' = [gone EXCEPT ![q] = @ \cup (ToSet(longer) \ ToSet(s))]
    BY <1>7, <2>7 DEF longer
  <2>9. ToSet(longer) \ ToSet(s) \in SUBSET Nat
    BY <2>2, <2>5, SetOfSeq
  <2> QED BY <1>4, <1>5, <2>2, <2>5, <2>6, <2>8, <2>9
<1> QED BY <1>6, <1>7 DEF Push

\* A batch goes from the end of a list into the hand, or is lost on the way.
LEMMA PopEffect == ASSUME QueueInv, Pop PROVE QueueInv'
<1>1. QueuesTyped /\ hand = Nothing
  BY DEF QueueInv, Pop
<1>2. PICK t \in Queues : t = turn
  BY <1>1 DEF QueuesTyped
<1> DEFINE all   == list[t]
           n     == IF Len(all) < FlushBatch THEN Len(all) ELSE FlushBatch
           taken == SubSeq(Reverse(all), 1, n)
           left  == SubSeq(all, 1, Len(all) - n)
<1>3. QueueSound(t) /\ all \in Seq(Nat)
  BY <1>1 DEF QueueInv, QueuesTyped
<1>4. n \in 0..Len(all)
  BY <1>3, MeterBounds
<1>5. /\ list' = [list EXCEPT ![t] = left]
      /\ \/ /\ hand' = IF n = 0 THEN Nothing
                       ELSE [queue |-> t, entries |-> taken, step |-> "insert"]
            /\ turn' = Other(t) /\ gone' = gone
         \/ /\ n > 0 /\ turn' = "alerts" /\ hand' = Nothing
            /\ gone' = [gone EXCEPT ![t] = @ \cup ToSet(taken)]
      /\ rows' = rows /\ ackLost' = ackLost
  BY <1>1, <1>2 DEF Pop
<1>6. \A q \in Queues : Made(q)' = Made(q)
  BY DEF Pop, Made, worker
<1> HIDE DEF n
<1>7. /\ taken \in Seq(Nat) /\ left \in Seq(Nat) /\ Len(taken) = n
      /\ ToSet(all) = ToSet(left) \cup ToSet(taken)
      /\ IsInjective(taken) /\ IsInjective(left) /\ ToSet(left) \cap ToSet(taken) = {}
  <2>1. IsInjective(all)
    BY <1>3 DEF QueueSound
  <2> HIDE DEF all
  <2> QED BY <1>3, <1>4, <2>1, TakenFromEnd
<1>8. n = 0 => ToSet(taken) = {}
  BY <1>7, SetOfNone, EmptySeq
<1> HIDE DEF taken, left
<1>9. list' \in [Queues -> Seq(Nat)] /\ gone' \in [Queues -> SUBSET Nat]
  <2>1. ToSet(taken) \in SUBSET Nat
    BY <1>7, SetOfSeq
  <2> QED BY <1>1, <1>5, <1>7, <2>1 DEF QueuesTyped
<1>10. QueuesTyped'
  <2>1. turn' \in Queues
    BY <1>5 DEF Other, Queues
  <2>2. hand' = Nothing \/ hand' \in Hands
    BY <1>5, <1>7 DEF Hands
  <2> QED BY <1>1, <1>5, <1>9, <2>1, <2>2 DEF QueuesTyped, Nothing, Hands, Queues
<1>11. Nothing.queue \notin Queues
  BY DEF Nothing, Queues
<1>12. /\ list'[t] = left
       /\ \A q \in Queues \ {t} : list'[q] = list[q] /\ gone'[q] = gone[q]
       /\ Held(t) = {}
       /\ \A q \in Queues \ {t} : Held(q)' = Held(q) /\ hand'.queue # q
  BY <1>1, <1>5, <1>11 DEF QueuesTyped, Held
<1>13. /\ Held(t)' \cup gone'[t] = ToSet(taken) \cup gone[t]
       /\ Held(t)' \subseteq ToSet(taken)
       /\ hand'.queue = t => IsInjective(hand'.entries)
  <2>1. CASE gone' = gone /\ hand' = Nothing /\ n = 0
    BY <1>8, <1>11, <2>1 DEF Held
  <2>2. CASE gone' = gone /\ hand' = [queue |-> t, entries |-> taken, step |-> "insert"]
    <3>1. hand'.queue = t /\ hand'.entries = taken
      BY <2>2
    <3> QED BY <1>7, <2>2, <3>1 DEF Held
  <2>3. CASE hand' = Nothing /\ gone' = [gone EXCEPT ![t] = @ \cup ToSet(taken)]
    <3>1. gone'[t] = gone[t] \cup ToSet(taken)
      BY <1>1, <2>3 DEF QueuesTyped
    <3> QED BY <1>11, <2>3, <3>1 DEF Held
  <2> QED BY <1>5, <2>1, <2>2, <2>3
<1>14. \A q \in Queues \ {t} : QueueSound(q)'
  <2> SUFFICES ASSUME NEW q \in Queues \ {t} PROVE QueueSound(q)'
    OBVIOUS
  <2>1. hand'.queue = q => IsInjective(hand'.entries)
    BY <1>12
  <2>2. ackLost' \in Nat /\ ackLost' >= ackLost
    BY <1>1, <1>5 DEF QueuesTyped
  <2>3. list'[q] = list[q] /\ gone'[q] = gone[q] /\ rows'[q] = rows[q] /\ Held(q)' = Held(q)
    BY <1>5, <1>12
  <2> QED BY <1>6, <2>1, <2>2, <2>3, QueueStill
<1>15. QueueSound(t)'
  <2>1. RowsSound(t)'
    <3>1. RowsSound(t) /\ rows'[t] = rows[t] /\ Most(t)' = Most(t)
      BY <1>3, <1>5 DEF QueueSound, Most
    <3>2. ToSet(list'[t]) \cup Held(t)' \subseteq ToSet(list[t]) \cup Held(t)
      BY <1>7, <1>12, <1>13
    <3> QED BY <3>1, <3>2 DEF RowsSound
  <2>2. IsInjective(list'[t]) /\ Held(t)' \cap ToSet(list'[t]) = {}
    BY <1>7, <1>12, <1>13
  <2>3. ToSet(list'[t]) \cup Held(t)' \cup BagToSet(rows'[t]) \cup gone'[t] = Made(t)'
    <3>1. ToSet(all) \cup BagToSet(rows[t]) \cup gone[t] = Made(t)
      BY <1>3, <1>12 DEF QueueSound
    <3> QED BY <1>5, <1>6, <1>7, <1>12, <1>13, <3>1
  <2> QED BY <1>13, <2>1, <2>2, <2>3 DEF QueueSound
<1> QED BY <1>10, <1>14, <1>15 DEF QueueInv

LEMMA OneMoreFits == ASSUME NEW a \in Nat, NEW m \in Nat, a < m PROVE a + 1 <= m
OBVIOUS

LEMMA CopiesCounted == ASSUME NEW B \in CountedBags, NEW e \in BagToSet(B) PROVE B[e] \in Nat \ {0}
BY DEF CountedBags, BagToSet

\* What a batch adds to its table.
LEMMA StoredEffect ==
  ASSUME QueueInv, hand # Nothing, NEW t \in Queues, t = hand.queue
  PROVE  /\ Stored \in CountedBags
         /\ BagToSet(Stored) = BagToSet(rows[t]) \cup Held(t)
         /\ \A e \in BagToSet(Stored) :
              \/ e \in BagToSet(rows[t]) /\ Stored[e] = rows[t][e] /\ (t = "alerts" => e \notin Held(t))
              \/ e \in Held(t) /\ Stored[e] <= Most(t)
<1> DEFINE old == rows[t]
           new == ToSet(hand.entries)
<1>1. /\ old \in CountedBags /\ RowsSound(t) /\ Held(t) = new /\ new \in SUBSET Nat
      /\ ackLost \in Nat
  <2>1. hand.entries \in Seq(Nat) /\ QueueSound(t)
    BY HandFacts DEF QueueInv
  <2>2. new \in SUBSET Nat
    BY <2>1, SetOfSeq
  <2> QED BY <2>1, <2>2 DEF QueueInv, QueuesTyped, QueueSound, Held
<1>2. DOMAIN old \in SUBSET Nat /\ \A e \in DOMAIN old : old[e] \in Nat \ {0}
  BY <1>1 DEF CountedBags
<1>3. \A e \in DOMAIN old : /\ old[e] <= Most(t)
                            /\ t = "alerts" /\ e \in new => old[e] < Most(t)
  BY <1>1 DEF RowsSound, BagToSet
<1> HIDE DEF old, new
<1>4. CASE t = "calls"
  <2> DEFINE fresh == new \ DOMAIN old
  <2>1. Stored = old (+) SetToBag(fresh)
    BY <1>4 DEF Stored, BagToSet, old, new
  <2>2. fresh \in SUBSET Nat /\ fresh \cap DOMAIN old = {} /\ fresh \cup DOMAIN old = new \cup DOMAIN old
    BY <1>1
  <2> HIDE DEF fresh
  <2>3. Stored = [e \in DOMAIN old \cup fresh |-> IF e \in fresh THEN 1 ELSE old[e]]
    BY <1>2, <2>1, <2>2 DEF SetToBag, (+)
  <2>4. Most(t) = 1
    BY <1>4 DEF Most
  <2>5. Stored \in [DOMAIN old \cup fresh -> Nat \ {0}] /\ DOMAIN old \cup fresh \in SUBSET Nat
    <3>1. \A e \in DOMAIN old \cup fresh : Stored[e] \in Nat \ {0}
      BY <1>2, <2>3
    <3> QED BY <1>2, <2>2, <2>3, <3>1
  <2>6. Stored \in CountedBags
    BY <2>5 DEF CountedBags
  <2> QED BY <1>1, <1>3, <2>2, <2>3, <2>4, <2>6 DEF BagToSet, old
<1>5. CASE t = "alerts"
  <2>1. Stored = old (+) SetToBag(new)
    BY <1>5 DEF Stored, old, new
  <2>2. Stored = [e \in DOMAIN old \cup new |-> (IF e \in DOMAIN old THEN old[e] ELSE 0)
                                              + (IF e \in new THEN 1 ELSE 0)]
    BY <2>1 DEF SetToBag, (+)
  <2>3. \A e \in DOMAIN old \cup new : Stored[e] \in Nat \ {0}
    BY <1>2, <2>2
  <2>4. Stored \in [DOMAIN old \cup new -> Nat \ {0}] /\ DOMAIN old \cup new \in SUBSET Nat
    BY <1>1, <1>2, <2>2, <2>3
  <2>5. Stored \in CountedBags
    BY <2>4 DEF CountedBags
  <2>6. Most(t) = 1 + ackLost /\ Most(t) \in Nat /\ Most(t) >= 1
    BY <1>1, <1>5 DEF Most
  <2>7. ASSUME NEW e \in DOMAIN old \cup new
        PROVE  \/ e \in DOMAIN old /\ Stored[e] = old[e] /\ e \notin new
               \/ e \in new /\ Stored[e] <= Most(t)
    <3>1. CASE e \notin new
      BY <1>2, <2>2, <3>1
    <3>2. CASE e \in new /\ e \notin DOMAIN old
      BY <2>2, <2>6, <3>2
    <3>3. CASE e \in new /\ e \in DOMAIN old
      <4>1. Stored[e] = old[e] + 1 /\ old[e] < Most(t) /\ old[e] \in Nat
        BY <1>2, <1>3, <1>5, <2>2, <3>3
      <4>2. Stored[e] <= Most(t)
        BY <2>6, <4>1, OneMoreFits
      <4> QED BY <3>3, <4>2
    <3> QED BY <3>1, <3>2, <3>3
  <2> QED BY <1>1, <2>2, <2>5, <2>7 DEF BagToSet, old
<1> QED BY <1>4, <1>5 DEF Queues

\* The queues that the flusher has not got in hand.
LEMMA OthersStill ==
  ASSUME QueueInv, NEW t \in Queues, hand = Nothing \/ hand.queue = t,
         hand' = Nothing \/ hand'.queue = t,
         \A q \in Queues \ {t} : list'[q] = list[q] /\ gone'[q] = gone[q] /\ rows'[q] = rows[q],
         \A q \in Queues : Made(q)' = Made(q), ackLost' \in Nat, ackLost' >= ackLost
  PROVE  \A q \in Queues \ {t} : QueueSound(q)'
<1> SUFFICES ASSUME NEW q \in Queues \ {t} PROVE QueueSound(q)'
  OBVIOUS
<1>1. Nothing.queue # q
  BY DEF Nothing, Queues
<1>2. Held(q) = {} /\ Held(q)' = {} /\ hand'.queue # q
  BY <1>1 DEF Held
<1>3. list'[q] = list[q] /\ gone'[q] = gone[q] /\ rows'[q] = rows[q] /\ Made(q)' = Made(q)
  OBVIOUS
<1> QED BY <1>2, <1>3, QueueStill

\* The batch is in its table: the flusher drops it, or believes it is not.
LEMMA StoredStep ==
  ASSUME QueueInv, hand # Nothing, rows' = [rows EXCEPT ![hand.queue] = Stored],
         \/ hand' = Nothing /\ ackLost' = ackLost
         \/ hand' = [hand EXCEPT !.step = "requeue"] /\ ackLost' = ackLost + 1,
         turn' \in Queues, UNCHANGED <<list, gone>>, \A q \in Queues : Made(q)' = Made(q)
  PROVE  QueueInv'
<1>1. QueuesTyped /\ hand \in Hands /\ hand.queue \in Queues
  BY HandFacts DEF QueueInv
<1>2. PICK t \in Queues : t = hand.queue
  BY <1>1
<1>3. /\ Stored \in CountedBags
      /\ BagToSet(Stored) = BagToSet(rows[t]) \cup Held(t)
      /\ \A e \in BagToSet(Stored) :
           \/ e \in BagToSet(rows[t]) /\ Stored[e] = rows[t][e] /\ (t = "alerts" => e \notin Held(t))
           \/ e \in Held(t) /\ Stored[e] <= Most(t)
  BY <1>2, StoredEffect
<1>4. rows' \in [Queues -> CountedBags] /\ rows'[t] = Stored /\ \A q \in Queues \ {t} : rows'[q] = rows[q]
  BY <1>1, <1>2, <1>3 DEF QueuesTyped
<1>5. \A e \in BagToSet(Stored) : Stored[e] \in Nat
  BY <1>3, CopiesCounted
<1>6. /\ QueueSound(t) /\ Held(t) = ToSet(hand.entries) /\ ackLost \in Nat
      /\ \A e \in BagToSet(rows[t]) : rows[t][e] \in Nat
  <2>1. rows[t] \in CountedBags
    BY <1>1 DEF QueuesTyped
  <2> QED BY <1>1, <1>2, <2>1, CopiesCounted DEF QueueInv, QueuesTyped, Held
<1>7. CASE hand' = Nothing /\ ackLost' = ackLost
  <2>1. QueuesTyped'
    BY <1>1, <1>4, <1>7 DEF QueuesTyped, Nothing, Hands, Queues
  <2>2. \A q \in Queues \ {t} : QueueSound(q)'
    BY <1>2, <1>4, <1>6, <1>7, OthersStill
  <2>3. Held(t)' = {} /\ hand'.queue # t /\ Most(t)' = Most(t)
    BY <1>7 DEF Held, Nothing, Queues, Most
  <2>4. RowsSound(t)'
    <3> SUFFICES ASSUME NEW e \in BagToSet(Stored)
                 PROVE  /\ Stored[e] <= Most(t)
                        /\ t = "alerts" /\ e \in ToSet(list[t]) => Stored[e] < Most(t)
      BY <1>4, <2>3 DEF RowsSound
    <3>1. CASE e \in BagToSet(rows[t]) /\ Stored[e] = rows[t][e]
      BY <1>6, <3>1 DEF QueueSound, RowsSound
    <3>2. CASE e \in Held(t) /\ Stored[e] <= Most(t)
      BY <1>6, <3>2 DEF QueueSound
    <3> QED BY <1>3, <3>1, <3>2
  <2>5. QueueSound(t)'
    BY <1>3, <1>4, <1>6, <2>3, <2>4 DEF QueueSound
  <2> QED BY <2>1, <2>2, <2>5 DEF QueueInv
<1>8. CASE hand' = [hand EXCEPT !.step = "requeue"] /\ ackLost' = ackLost + 1
  <2>1. hand' \in Hands /\ hand'.queue = t /\ hand'.entries = hand.entries
    BY <1>1, <1>2, <1>8 DEF Hands
  <2>2. QueuesTyped'
    BY <1>1, <1>4, <1>6, <1>8, <2>1 DEF QueuesTyped, Nothing, Hands, Queues
  <2>3. \A q \in Queues \ {t} : QueueSound(q)'
    BY <1>2, <1>4, <1>6, <1>8, <2>1, OthersStill
  <2>4. Held(t)' = Held(t) /\ (hand'.queue = t => IsInjective(hand'.entries))
    BY <1>2, <1>6, <2>1 DEF Held, QueueSound
  <2>5. Most(t) \in Nat /\ Most(t)' \in Nat /\ Most(t) <= Most(t)'
        /\ (t = "alerts" => Most(t) < Most(t)')
    BY <1>6, <1>8 DEF Most
  <2>6. RowsSound(t)'
    <3> SUFFICES ASSUME NEW e \in BagToSet(Stored)
                 PROVE  /\ Stored[e] <= Most(t)'
                        /\ t = "alerts" => Stored[e] < Most(t)'
      BY <1>4 DEF RowsSound
    <3>1. Stored[e] <= Most(t) /\ Stored[e] \in Nat
      BY <1>3, <1>5, <1>6 DEF QueueSound, RowsSound
    <3> QED BY <2>5, <3>1
  <2>7. QueueSound(t)'
    BY <1>3, <1>4, <1>6, <2>4, <2>6 DEF QueueSound
  <2> QED BY <2>2, <2>3, <2>7 DEF QueueInv
<1> QED BY <1>7, <1>8

\* The batch goes back to its list, or is lost.
LEMMA DroppedStep ==
  ASSUME QueueInv, hand # Nothing, hand' = Nothing,
         \/ list' = [list EXCEPT ![hand.queue] = @ \o hand.entries] /\ gone' = gone
         \/ list' = list /\ gone' = [gone EXCEPT ![hand.queue] = @ \cup ToSet(hand.entries)],
         turn' \in Queues, UNCHANGED <<rows, ackLost>>, \A q \in Queues : Made(q)' = Made(q)
  PROVE  QueueInv'
<1>1. QueuesTyped /\ hand \in Hands /\ hand.queue \in Queues /\ hand.entries \in Seq(Nat)
  BY HandFacts DEF QueueInv
<1>2. PICK t \in Queues : t = hand.queue
  BY <1>1
<1>3. QueueSound(t) /\ Held(t) = ToSet(hand.entries) /\ ackLost \in Nat /\ list[t] \in Seq(Nat)
  BY <1>1, <1>2 DEF QueueInv, QueuesTyped, Held
<1>4. /\ list' \in [Queues -> Seq(Nat)] /\ gone' \in [Queues -> SUBSET Nat]
      /\ \A q \in Queues \ {t} : list'[q] = list[q] /\ gone'[q] = gone[q]
      /\ IsInjective(list'[t])
      /\ ToSet(list'[t]) \cup gone'[t] = ToSet(list[t]) \cup Held(t) \cup gone[t]
      /\ ToSet(list'[t]) \subseteq ToSet(list[t]) \cup Held(t)
  <2>1. ToSet(hand.entries) \in SUBSET Nat
    BY <1>1, SetOfSeq
  <2>2. CASE list' = [list EXCEPT ![hand.queue] = @ \o hand.entries] /\ gone' = gone
    <3>1. list' \in [Queues -> Seq(Nat)] /\ list'[t] = list[t] \o hand.entries
          /\ \A q \in Queues \ {t} : list'[q] = list[q]
      <4>1. PICK s \in Seq(Nat) : s = list[t] \o hand.entries
        BY <1>1, <1>3, ConcatType
      <4>2. list' = [list EXCEPT ![t] = s]
        BY <1>2, <2>2, <4>1
      <4> QED BY <1>1, <4>1, <4>2 DEF QueuesTyped
    <3>2. ToSet(list[t] \o hand.entries) = ToSet(list[t]) \cup ToSet(hand.entries)
      BY <1>1, <1>3, SetOfConcat
    <3>3. IsInjective(list[t] \o hand.entries)
      <4>1. /\ IsInjective(list[t]) /\ IsInjective(hand.entries)
            /\ ToSet(list[t]) \cap ToSet(hand.entries) = {}
        BY <1>2, <1>3 DEF QueueSound
      <4> QED BY <1>1, <1>3, <4>1, InjectiveConcat
    <3> QED BY <1>1, <1>3, <2>2, <3>1, <3>2, <3>3 DEF QueuesTyped
  <2>3. CASE list' = list /\ gone' = [gone EXCEPT ![hand.queue] = @ \cup ToSet(hand.entries)]
    <3>1. gone' \in [Queues -> SUBSET Nat] /\ gone'[t] = gone[t] \cup ToSet(hand.entries)
          /\ \A q \in Queues \ {t} : gone'[q] = gone[q]
      BY <1>1, <1>2, <2>1, <2>3 DEF QueuesTyped
    <3> QED BY <1>1, <1>3, <2>3, <3>1 DEF QueuesTyped, QueueSound
  <2> QED BY <2>2, <2>3
<1>5. QueuesTyped'
  BY <1>1, <1>4 DEF QueuesTyped, Nothing, Hands, Queues
<1>6. \A q \in Queues \ {t} : QueueSound(q)'
  <2>1. ackLost' \in Nat /\ ackLost' >= ackLost
    BY <1>3
  <2> QED BY <1>2, <1>4, <2>1, OthersStill
<1>7. Held(t)' = {} /\ hand'.queue # t /\ Most(t)' = Most(t)
  BY DEF Held, Nothing, Queues, Most
<1>8. RowsSound(t)'
  BY <1>3, <1>4, <1>7 DEF RowsSound, QueueSound
<1>9. QueueSound(t)'
  BY <1>3, <1>4, <1>7, <1>8 DEF QueueSound
<1> QED BY <1>5, <1>6, <1>9 DEF QueueInv

-----------------------------------------------------------------------------
(* Every step keeps both.                                                  *)

MeterInv == MonitorInv /\ QueueInv

\* What is logged or raised is what the queues have got to account for.
LEMMA MadeBy ==
  ASSUME MonitorTyped, UNCHANGED logged, (1..raised') \ sending' = (1..raised) \ sending
  PROVE  \A q \in Queues : Made(q)' = Made(q)
BY DEF Made

LEMMA MonitorStill ==
  ASSUME MonitorInv, now' \in Nat, now' <= MaxTime, now' >= now,
         UNCHANGED <<logged, raised, sending, spent, breaches, lastAlert>>, dead' \subseteq Queues
  PROVE  MonitorInv'
<1>1. now \in Nat /\ spent \in Seq(Nat) /\ breaches \in [AlertKinds -> Seq(Nat)]
      /\ lastAlert \in [AlertKinds -> Int]
  BY DEF MonitorInv, MonitorTyped
<1>2. ASSUME NEW s \in Seq(Nat), UpTo(s, now) PROVE UpTo(s, now')
  BY <1>1, <1>2 DEF UpTo
<1>3. UpTo(spent, now') /\ \A k \in AlertKinds : UpTo(breaches[k], now')
  BY <1>1, <1>2 DEF MonitorInv, MonitorTyped
<1>4. \A k \in AlertKinds : LongAgo <= lastAlert[k] /\ lastAlert[k] <= now'
  BY <1>1 DEF MonitorInv, MonitorTyped
<1>5. MonitorTyped'
  BY <1>1, <1>3, <1>4 DEF MonitorInv, MonitorTyped, LongAgo
<1>6. \A k \in AlertKinds : LatestAnswered(k)'
  BY DEF MonitorInv, LatestAnswered
<1> QED BY <1>5, <1>6 DEF MonitorInv

LEMMA AlertsKeepTypes ==
  ASSUME MonitorInv, AlertsSound, now' = now
  PROVE  /\ raised' \in Nat /\ raised' <= MaxAlerts /\ sending' \subseteq 1..raised'
         /\ lastAlert' \in [AlertKinds -> Int]
         /\ \A k \in AlertKinds : LongAgo <= lastAlert'[k] /\ lastAlert'[k] <= now'
<1>1. /\ raised \in Nat /\ lastAlert \in [AlertKinds -> Int] /\ now \in Nat /\ LongAgo \in Int
      /\ \A k \in AlertKinds : LongAgo <= lastAlert[k]
  BY MeterBounds DEF MonitorInv, MonitorTyped, LongAgo
<1> QED BY <1>1 DEF AlertsSound

LEMMA OneMoreNumber == ASSUME NEW n \in Nat PROVE 1..(n + 1) = (1..n) \cup {n + 1}
OBVIOUS

LEMMA LogCallStep == ASSUME MeterInv, LogCall PROVE MeterInv'
<1> USE MeterBounds
<1>1. /\ MonitorInv /\ QueueInv /\ MonitorTyped /\ now \in Nat /\ logged \in Nat
      /\ spent \in Seq(Nat) /\ UpTo(spent, now) /\ dead \subseteq Queues
      /\ breaches \in [AlertKinds -> Seq(Nat)]
  BY DEF MeterInv, MonitorInv, MonitorTyped
<1>2. spent' \in Seq(Nat) /\ UpTo(spent', now)
  <2>1. Append(spent, now) \in Seq(Nat) /\ UpTo(Append(spent, now), now)
    BY <1>1, AppendAscending
  <2>2. now - Hour \in Int /\ now \in Int
    BY <1>1
  <2>3. spent' = Since(Append(spent, now), now - Hour)
    BY DEF LogCall
  <2> QED BY <2>1, <2>2, <2>3, SinceProperties
<1>3. /\ AlertsSound /\ breaches' \in [AlertKinds -> Seq(Nat)]
      /\ \A k \in AlertKinds : UpTo(breaches'[k], now) /\ LatestAnswered(k)'
  <2>1. CASE Breach(BudgetKind)
    <3>1. BudgetKind \in AlertKinds
      BY DEF AlertKinds
    <3> QED BY <1>1, <2>1, <3>1, BreachEffect
  <2>2. CASE UNCHANGED <<breaches, lastAlert, raised, sending>>
    <3>1. AlertsSound
      BY <1>1, <2>2, QuietAlerts
    <3>2. \A k \in AlertKinds : LatestAnswered(k)'
      BY <2>2 DEF MeterInv, MonitorInv, LatestAnswered
    <3> QED BY <1>1, <2>2, <3>1, <3>2 DEF MonitorTyped
  <2> QED BY <2>1, <2>2 DEF LogCall
<1>4. /\ logged' = logged + 1 /\ logged + 1 <= MaxCalls /\ logged + 1 \in Nat
      /\ now' = now /\ Push("calls", logged + 1) /\ UNCHANGED flusher
  BY <1>1 DEF LogCall
<1>5. QueueInv' /\ dead' \subseteq Queues
  <2>1. "calls" \in Queues /\ logged + 1 \notin Made("calls")
    BY <1>1 DEF Queues, Made
  <2>2. Made("calls")' = Made("calls") \cup {logged + 1}
    <3>1. 1..(logged + 1) = (1..logged) \cup {logged + 1}
      BY <1>1, OneMoreNumber
    <3> QED BY <1>4, <3>1 DEF Made
  <2>3. \A q \in Queues \ {"calls"} : Made(q)' = Made(q)
    BY <1>3 DEF Made, AlertsSound
  <2> QED BY <1>1, <1>4, <2>1, <2>2, <2>3, PushEffect
<1>6. MonitorTyped'
  <2>1. /\ raised' \in Nat /\ raised' <= MaxAlerts /\ sending' \subseteq 1..raised'
        /\ lastAlert' \in [AlertKinds -> Int]
        /\ \A k \in AlertKinds : LongAgo <= lastAlert'[k] /\ lastAlert'[k] <= now'
    BY <1>1, <1>3, <1>4, AlertsKeepTypes
  <2> QED BY <1>1, <1>2, <1>3, <1>4, <1>5, <2>1 DEF MonitorTyped, LongAgo
<1> QED BY <1>3, <1>5, <1>6 DEF MeterInv, MonitorInv

LEMMA AlertNowStep == ASSUME MeterInv, NEW k \in Critical, AlertNow(k) PROVE MeterInv'
<1>1. /\ MonitorInv /\ QueueInv /\ MonitorTyped /\ k \in AlertKinds
  BY DEF MeterInv, MonitorInv, AlertKinds
<1>2. AlertsSound
  BY <1>1, EmitEffect DEF AlertNow
<1>3. UNCHANGED <<now, logged, spent, breaches, dead, list, flusher, gone>>
  BY DEF AlertNow
<1>4. QueueInv'
  <2>1. \A q \in Queues : Made(q)' = Made(q)
    BY <1>1, <1>2, <1>3, MadeBy DEF AlertsSound
  <2> QED BY <1>1, <1>3, <2>1, QueuesStill
<1>5. \A l \in AlertKinds : LatestAnswered(l)'
  BY <1>1, <1>2, <1>3, StillAnswered
<1>6. MonitorTyped'
  <2>1. /\ raised' \in Nat /\ raised' <= MaxAlerts /\ sending' \subseteq 1..raised'
        /\ lastAlert' \in [AlertKinds -> Int]
        /\ \A l \in AlertKinds : LongAgo <= lastAlert'[l] /\ lastAlert'[l] <= now'
    BY <1>1, <1>2, <1>3, AlertsKeepTypes
  <2> QED BY <1>1, <1>3, <2>1 DEF MonitorTyped, LongAgo
<1> QED BY <1>4, <1>5, <1>6 DEF MeterInv, MonitorInv

LEMMA DispatchStep == ASSUME MeterInv, NEW a \in sending, Dispatch(a) PROVE MeterInv'
<1>1. /\ MonitorInv /\ QueueInv /\ sending \subseteq 1..raised /\ raised \in Nat
      /\ raised <= MaxAlerts /\ dead \subseteq Queues /\ MonitorTyped
  BY DEF MeterInv, MonitorInv, MonitorTyped
<1>2. /\ sending' = sending \ {a} /\ Push("alerts", a)
      /\ UNCHANGED <<now, logged, spent, breaches, lastAlert, raised, flusher>>
  BY DEF Dispatch
<1>3. QueueInv' /\ dead' \subseteq Queues
  <2>1. "alerts" \in Queues /\ a \in Nat /\ a \notin Made("alerts")
    BY <1>1 DEF Queues, Made
  <2>2. Made("alerts")' = Made("alerts") \cup {a}
    BY <1>1, <1>2 DEF Made
  <2>3. \A q \in Queues \ {"alerts"} : Made(q)' = Made(q)
    BY <1>2 DEF Made, Queues
  <2> QED BY <1>1, <1>2, <2>1, <2>2, <2>3, PushEffect
<1>4. MonitorTyped'
  BY <1>1, <1>2, <1>3 DEF MonitorTyped, LongAgo
<1>5. \A k \in AlertKinds : LatestAnswered(k)'
  BY <1>2 DEF MeterInv, MonitorInv, LatestAnswered
<1> QED BY <1>3, <1>4, <1>5 DEF MeterInv, MonitorInv

LEMMA WorkerRestartsStep == ASSUME MeterInv, WorkerRestarts PROVE MeterInv'
<1> USE MeterBounds
<1>1. /\ MonitorTyped /\ QueueInv /\ QueuesTyped /\ sending \subseteq 1..raised /\ raised \in Nat
      /\ now \in Nat /\ ackLost \in Nat
  BY DEF MeterInv, MonitorInv, MonitorTyped, QueueInv, QueuesTyped
<1>2. /\ spent' = <<>> /\ breaches' = [k \in AlertKinds |-> <<>>]
      /\ lastAlert' = [k \in AlertKinds |-> LongAgo]
      /\ gone' = [gone EXCEPT !["alerts"] = @ \cup sending] /\ sending' = {} /\ dead' = {}
      /\ UNCHANGED <<now, logged, raised, list, flusher>>
  BY DEF WorkerRestarts
<1>3. MonitorTyped'
  <2>1. <<>> \in Seq(Nat) /\ UpTo(<<>>, now) /\ LongAgo \in Int /\ LongAgo <= now
    BY <1>1 DEF UpTo, LongAgo
  <2> QED BY <1>1, <1>2, <2>1 DEF MonitorTyped, LongAgo
<1>4. \A k \in AlertKinds : LatestAnswered(k)'
  BY <1>2 DEF LatestAnswered, Ascending
<1>5. QueuesTyped'
  <2>1. sending \in SUBSET Nat
    BY <1>1
  <2>2. gone' \in [Queues -> SUBSET Nat]
    BY <1>1, <1>2, <2>1 DEF QueuesTyped
  <2> QED BY <1>1, <1>2, <2>2 DEF QueuesTyped, Nothing, Hands, Queues, flusher
<1>6. ASSUME NEW q \in Queues PROVE QueueSound(q)'
  <2>1. /\ Held(q)' = Held(q) /\ (hand'.queue = q => IsInjective(hand'.entries))
        /\ list'[q] = list[q] /\ rows'[q] = rows[q] /\ ackLost' = ackLost /\ QueueSound(q)
    BY <1>1, <1>2 DEF Held, flusher, QueueInv, QueueSound
  <2>2. CASE q = "calls"
    <3>1. gone'[q] = gone[q] /\ Made(q)' = Made(q)
      BY <1>1, <1>2, <2>2 DEF Made, QueuesTyped
    <3>2. ackLost' \in Nat /\ ackLost' >= ackLost
      BY <1>1, <2>1
    <3> QED BY <1>1, <2>1, <3>1, <3>2, QueueStill
  <2>3. CASE q = "alerts"
    <3>1. gone'[q] = gone[q] \cup sending
      BY <1>1, <1>2, <2>3 DEF QueuesTyped
    <3>2. Made(q)' = Made(q) \cup sending
      BY <1>1, <1>2, <2>3 DEF Made
    <3>3. ToSet(list[q]) \cup Held(q) \cup BagToSet(rows[q]) \cup gone'[q] = Made(q)'
      BY <2>1, <3>1, <3>2 DEF QueueSound
    <3>4. RowsSound(q)'
      BY <2>1 DEF QueueSound, RowsSound, Most
    <3> QED BY <2>1, <3>3, <3>4 DEF QueueSound
  <2> QED BY <2>2, <2>3 DEF Queues
<1> QED BY <1>1, <1>3, <1>4, <1>5, <1>6 DEF MeterInv, MonitorInv, QueueInv

LEMMA FlusherStep ==
  ASSUME MeterInv, Pop \/ Insert \/ Requeue \/ ApiRestarts
  PROVE  MeterInv'
<1>1. MonitorInv /\ QueueInv /\ QueuesTyped /\ MonitorTyped /\ now \in Nat /\ turn \in Queues
  BY DEF MeterInv, MonitorInv, MonitorTyped, QueueInv, QueuesTyped
<1>2. UNCHANGED <<now, worker>>
  BY DEF Pop, Insert, Requeue, ApiRestarts
<1>3. MonitorInv'
  <2>1. dead' \subseteq Queues /\ now' \in Nat /\ now' <= MaxTime /\ now' >= now
    BY <1>1, <1>2 DEF worker, MonitorTyped
  <2> QED BY <1>1, <1>2, <2>1, MonitorStill DEF worker
<1>4. \A q \in Queues : Made(q)' = Made(q)
  BY <1>2 DEF Made, worker
<1>5. \A q \in {hand.queue} : q # "none" <=> hand # Nothing
  BY <1>1, HandFacts
<1>6. CASE Pop
  BY <1>1, <1>3, <1>6, PopEffect DEF MeterInv
<1>7. CASE Insert
  <2>1. hand # Nothing /\ turn' \in Queues /\ UNCHANGED <<list, gone, turn>>
    BY <1>1, <1>5, <1>7 DEF Insert
  <2>2. CASE /\ rows' = [rows EXCEPT ![hand.queue] = Stored]
             /\ \/ hand' = Nothing /\ ackLost' = ackLost
                \/ hand' = [hand EXCEPT !.step = "requeue"] /\ ackLost' = ackLost + 1
    BY <1>1, <1>3, <1>4, <2>1, <2>2, StoredStep DEF MeterInv
  <2>3. CASE UNCHANGED <<rows, ackLost>> /\ hand' = [hand EXCEPT !.step = "requeue"]
    <3>1. hand \in Hands
      BY <1>1, <2>1, HandFacts
    <3>2. hand' \in Hands /\ hand'.queue = hand.queue /\ hand'.entries = hand.entries
      BY <2>3, <3>1 DEF Hands
    <3>3. QueuesTyped'
      BY <1>1, <2>1, <2>3, <3>2 DEF QueuesTyped, Nothing, Hands, Queues
    <3>4. ASSUME NEW q \in Queues PROVE QueueSound(q)'
      <4>1. Held(q)' = Held(q) /\ (hand'.queue = q => IsInjective(hand'.entries))
        BY <1>1, <3>2 DEF Held, QueueInv, QueueSound
      <4>2. ackLost' \in Nat /\ ackLost' >= ackLost
        BY <1>1, <2>3 DEF QueuesTyped
      <4>3. /\ list'[q] = list[q] /\ gone'[q] = gone[q] /\ rows'[q] = rows[q]
            /\ Made(q)' = Made(q)
        BY <1>4, <2>1, <2>3
      <4> QED BY <1>1, <4>1, <4>2, <4>3, QueueStill
    <3> QED BY <1>3, <3>3, <3>4 DEF MeterInv, QueueInv
  <2> QED BY <1>7, <2>2, <2>3 DEF Insert
<1>8. CASE Requeue
  <2>1. /\ hand # Nothing /\ hand' = Nothing /\ turn' \in Queues /\ UNCHANGED <<rows, ackLost>>
        /\ \/ list' = [list EXCEPT ![hand.queue] = @ \o hand.entries] /\ gone' = gone
           \/ list' = list /\ gone' = [gone EXCEPT ![hand.queue] = @ \cup ToSet(hand.entries)]
    BY <1>1, <1>5, <1>8 DEF Requeue
  <2> QED BY <1>1, <1>3, <1>4, <2>1, DroppedStep DEF MeterInv
<1>9. CASE ApiRestarts
  <2>1. hand' = Nothing /\ turn' \in Queues /\ UNCHANGED <<list, ackLost>>
    BY <1>9 DEF ApiRestarts, Queues
  <2>2. CASE hand = Nothing /\ UNCHANGED <<rows, gone>>
    <3>1. QueuesTyped'
      BY <1>1, <2>1, <2>2 DEF QueuesTyped, Nothing, Hands, Queues
    <3>2. ASSUME NEW q \in Queues PROVE QueueSound(q)'
      <4>1. Held(q)' = Held(q) /\ (hand'.queue = q => IsInjective(hand'.entries))
        BY <1>1, <2>1, <2>2 DEF Held, QueueInv, QueueSound
      <4>2. ackLost' \in Nat /\ ackLost' >= ackLost
        BY <1>1, <2>1 DEF QueuesTyped
      <4>3. /\ list'[q] = list[q] /\ gone'[q] = gone[q] /\ rows'[q] = rows[q]
            /\ Made(q)' = Made(q)
        BY <1>4, <2>1, <2>2
      <4> QED BY <1>1, <4>1, <4>2, <4>3, QueueStill
    <3> QED BY <1>3, <3>1, <3>2 DEF MeterInv, QueueInv
  <2>3. CASE /\ hand # Nothing /\ UNCHANGED rows
             /\ gone' = [gone EXCEPT ![hand.queue] = @ \cup ToSet(hand.entries)]
    BY <1>1, <1>3, <1>4, <2>1, <2>3, DroppedStep DEF MeterInv
  <2>4. CASE hand # Nothing /\ rows' = [rows EXCEPT ![hand.queue] = Stored] /\ UNCHANGED gone
    BY <1>1, <1>3, <1>4, <2>1, <2>4, StoredStep DEF MeterInv
  <2> QED BY <1>9, <2>2, <2>3, <2>4 DEF ApiRestarts
<1> QED BY <1>6, <1>7, <1>8, <1>9

\* Between buffer, flusher and table each entry has its place, and breaches and
\* cooldowns are of the past (api/flushers.py; analysis/guardrails.py).
THEOREM MeterInvariant == MeterSpec => []MeterInv
<1>1. ASSUME MeterInit PROVE MeterInv
  <2> USE MeterBounds DEF MeterInit
  <2>1. <<>> \in Seq(Nat) /\ UpTo(<<>>, 0) /\ LongAgo \in Int /\ LongAgo <= 0 /\ IsInjective(<<>>)
    BY DEF UpTo, LongAgo, IsInjective
  <2>2. MonitorTyped
    BY <1>1, <2>1 DEF MonitorTyped
  <2>3. \A k \in AlertKinds : LatestAnswered(k)
    BY <1>1 DEF LatestAnswered, Ascending
  <2>4. EmptyBag \in CountedBags /\ BagToSet(EmptyBag) = {}
    <3>1. EmptyBag \in [{} -> Nat \ {0}] /\ {} \in SUBSET Nat /\ DOMAIN EmptyBag = {}
      BY DEF EmptyBag, SetToBag
    <3> QED BY <3>1 DEF CountedBags, BagToSet
  <2>5. QueuesTyped
    BY <1>1, <2>1, <2>4 DEF QueuesTyped, Queues
  <2>6. ASSUME NEW q \in Queues PROVE QueueSound(q)
    <3>1. /\ list[q] = <<>> /\ rows[q] = EmptyBag /\ gone[q] = {} /\ hand.queue # q
          /\ Held(q) = {} /\ Made(q) = {}
      BY <1>1 DEF Held, Nothing, Made, Queues
    <3> QED BY <2>1, <2>4, <3>1, SetOfNone DEF QueueSound, RowsSound
  <2> QED BY <2>2, <2>3, <2>5, <2>6 DEF MeterInv, MonitorInv, QueueInv
<1>2. ASSUME MeterInv, [MeterNext]_meterVars PROVE MeterInv'
  <2>1. CASE LogCall
    BY <1>2, <2>1, LogCallStep
  <2>2. CASE \E k \in Critical : AlertNow(k)
    BY <1>2, <2>2, AlertNowStep
  <2>3. CASE \E a \in sending : Dispatch(a)
    BY <1>2, <2>3, DispatchStep
  <2>4. CASE WorkerRestarts
    BY <1>2, <2>4, WorkerRestartsStep
  <2>5. CASE Pop \/ Insert \/ Requeue \/ ApiRestarts
    BY <1>2, <2>5, FlusherStep
  <2>6. CASE Clock \/ UNCHANGED meterVars
    <3>1. UNCHANGED <<worker, list, flusher, gone>>
      BY <2>6 DEF Clock, meterVars
    <3>2. now' \in Nat /\ now' <= MaxTime /\ now' >= now
      BY <1>2, <2>6, MeterBounds DEF Clock, meterVars, MeterInv, MonitorInv, MonitorTyped
    <3>3. MonitorInv'
      BY <1>2, <3>1, <3>2, MonitorStill DEF worker, MeterInv, MonitorInv, MonitorTyped
    <3>4. \A q \in Queues : Made(q)' = Made(q)
      BY <3>1 DEF Made, worker
    <3>5. QueueInv'
      BY <1>2, <3>1, <3>4, QueuesStill DEF MeterInv
    <3> QED BY <3>3, <3>5 DEF MeterInv
  <2> QED BY <1>2, <2>1, <2>2, <2>3, <2>4, <2>5, <2>6 DEF MeterNext
<1> QED BY <1>1, <1>2, PTL DEF MeterSpec

\* Nothing that was made is lost without a trace, and nothing is stored twice
\* but alerts whose commit was taken for a failure, for any cap, batch and number
\* of crashes (api/flushers.py, the two flushers and their push-back).
THEOREM EntriesKeptHolds == MeterSpec => []EntriesKept
<1>1. ASSUME MeterInv PROVE EntriesKept
  <2>1. "calls" \in Queues /\ "alerts" \in Queues
    BY DEF Queues
  <2>2. \A q \in Queues : QueueSound(q) /\ rows[q] \in CountedBags
    BY <1>1 DEF MeterInv, QueueInv, QueuesTyped
  <2>3. \A q \in Queues : \A e \in Made(q) :
          e \in ToSet(list[q]) \cup Held(q) \cup BagToSet(rows[q]) \cup gone[q]
    BY <2>2 DEF QueueSound
  <2>4. \A c \in BagToSet(rows["calls"]) : rows["calls"][c] = 1
    <3> SUFFICES ASSUME NEW c \in BagToSet(rows["calls"]) PROVE rows["calls"][c] = 1
      OBVIOUS
    <3>1. rows["calls"][c] <= 1
      BY <2>1, <2>2 DEF QueueSound, RowsSound, Most
    <3>2. rows["calls"][c] \in Nat \ {0}
      BY <2>1, <2>2, CopiesCounted
    <3> QED BY <3>1, <3>2
  <2>5. \A a \in BagToSet(rows["alerts"]) : rows["alerts"][a] <= 1 + ackLost
    BY <2>1, <2>2 DEF QueueSound, RowsSound, Most
  <2> QED BY <2>3, <2>4, <2>5 DEF EntriesKept
<1> QED BY <1>1, MeterInvariant, PTL

\* A breach that recurs within the window was answered by an alert of its kind,
\* for any window, cooldown and count (analysis/guardrails.py, record_breach and
\* _emit).
THEOREM BreachAnsweredHolds == MeterSpec => []BreachAnswered
<1>1. ASSUME MeterInv PROVE BreachAnswered
  BY <1>1, AnsweredInTime DEF MeterInv
<1> QED BY <1>1, MeterInvariant, PTL

-----------------------------------------------------------------------------
(* Metering: the activity recorder.                                        *)

\* Events wait in the order of their numbers.
QueueInOrder == \A i, j \in 1..Len(activity) : i < j => activity[i] < activity[j]

\* What waits or is being written has not been given up, nor stored.
FateOpen ==
  /\ (ToSet(activity) \cup ToSet(flushing)) \cap (dropped \cup forgone) = {}
  /\ ToSet(flushing) \cap stored = {}

ActivityInv == ActivityTypeOK /\ QueueInOrder /\ FateOpen /\ OneFate

Numbers == 1..recorded

LEMMA ActivityInitInv == ActivityInit => ActivityInv
<1> SUFFICES ASSUME ActivityInit PROVE ActivityInv
  OBVIOUS
<1> USE ActivityBounds, SetOfNone DEF ActivityInit
<1>1. ActivityTypeOK
  BY DEF ActivityTypeOK
<1>2. QueueInOrder /\ FateOpen
  BY DEF QueueInOrder, FateOpen
<1>3. OneFate
  BY DEF OneFate
<1> QED BY <1>1, <1>2, <1>3 DEF ActivityInv

LEMMA EnqueueInv == ASSUME ActivityInv, Enqueue PROVE ActivityInv'
<1> USE ActivityBounds
<1>0. ActivityTypeOK /\ QueueInOrder /\ FateOpen /\ OneFate
  BY DEF ActivityInv
<1>1. /\ recorded \in Nat /\ recorded' = recorded + 1 /\ recorded' <= MaxEvents
      /\ 1..recorded' = 1..recorded \cup {recorded'}
      /\ UNCHANGED <<recorder, flushing, stored, forgone, finals, activityFaults>>
  BY <1>0 DEF Enqueue, ActivityTypeOK
<1>2. activity \in Seq(1..recorded') /\ flushing \in Seq(1..recorded')
  <2>1. 1..recorded \subseteq 1..recorded'
    BY <1>1
  <2>2. activity \in Seq(1..recorded) /\ flushing \in Seq(1..recorded)
    BY <1>0 DEF ActivityTypeOK
  <2> QED BY <1>1, <2>1, <2>2, SeqMonotonic
<1>3. ToSet(activity) \cup ToSet(flushing) \cup stored \cup dropped \cup forgone \subseteq 1..recorded
  BY <1>0 DEF OneFate
<1>4. CASE Len(activity) < QueueMax /\ activity' = Append(activity, recorded') /\ UNCHANGED dropped
  <2>1. /\ activity' \in Seq(1..recorded') /\ Len(activity') = Len(activity) + 1
        /\ Len(activity) \in Nat
        /\ activity'[Len(activity) + 1] = recorded'
        /\ \A i \in 1..Len(activity) : activity'[i] = activity[i] /\ activity[i] \in 1..recorded
    <3>1. recorded' \in 1..recorded'
      BY <1>1
    <3>2. activity \in Seq(1..recorded')
      BY <1>2
    <3>3. /\ activity' \in Seq(1..recorded') /\ Len(activity') = Len(activity) + 1
          /\ Len(activity) \in Nat /\ activity'[Len(activity) + 1] = recorded'
          /\ \A i \in 1..Len(activity) : activity'[i] = activity[i]
      BY <3>1, <3>2, <1>4
    <3>4. \A i \in 1..Len(activity) : activity[i] \in 1..recorded
      BY <1>0 DEF ActivityTypeOK
    <3> QED BY <3>3, <3>4
  <2>2. ToSet(activity') = ToSet(activity) \cup {recorded'}
    BY <1>1, <1>2, <1>4, SetOfAppend
  <2>3. ActivityTypeOK'
    BY <1>0, <1>1, <1>2, <1>4, <2>1 DEF ActivityTypeOK
  <2>4. QueueInOrder'
    <3> SUFFICES ASSUME NEW i \in 1..(Len(activity) + 1), NEW j \in 1..(Len(activity) + 1), i < j
                 PROVE  activity'[i] < activity'[j]
      BY <2>1 DEF QueueInOrder
    <3>1. i \in 1..Len(activity)
      BY <2>1
    <3>2. CASE j = Len(activity) + 1
      BY <3>1, <3>2, <2>1, <1>1
    <3>3. CASE j \in 1..Len(activity)
      BY <3>1, <3>3, <2>1, <1>0 DEF QueueInOrder
    <3> QED BY <3>2, <3>3, <2>1
  <2>5. FateOpen'
    BY <1>0, <1>1, <1>3, <1>4, <2>2 DEF FateOpen
  <2>6. OneFate'
    <3>1. 1..recorded' = UNION {ToSet(activity'), ToSet(flushing), stored, dropped, forgone}
      BY <1>0, <1>1, <2>2 DEF OneFate
    <3>2. \A e \in ToSet(flushing) \cup stored : \A w \in ToSet(activity') : e < w
      BY <1>0, <1>1, <1>3, <2>2 DEF OneFate
    <3> QED BY <1>0, <1>1, <1>4, <3>1, <3>2 DEF OneFate
  <2> QED BY <2>3, <2>4, <2>5, <2>6 DEF ActivityInv
<1>5. CASE dropped' = dropped \cup {recorded'} /\ UNCHANGED activity
  <2>1. ActivityTypeOK'
    BY <1>0, <1>1, <1>2, <1>5 DEF ActivityTypeOK
  <2>2. QueueInOrder'
    BY <1>0, <1>5 DEF QueueInOrder
  <2>3. FateOpen'
    BY <1>0, <1>1, <1>3, <1>5 DEF FateOpen
  <2>4. OneFate'
    BY <1>0, <1>1, <1>3, <1>5 DEF OneFate
  <2> QED BY <2>1, <2>2, <2>3, <2>4 DEF ActivityInv
<1> QED BY <1>4, <1>5 DEF Enqueue

LEMMA TakeBatchInv == ASSUME ActivityInv, TakeBatch PROVE ActivityInv'
<1> USE ActivityBounds
<1>0. ActivityTypeOK /\ QueueInOrder /\ FateOpen /\ OneFate
  BY DEF ActivityInv
<1> DEFINE n == IF Len(activity) < ActivityBatch THEN Len(activity) ELSE ActivityBatch
<1>1. /\ activity \in Seq(Numbers) /\ Len(activity) \in Nat
      /\ n \in 0..Len(activity) /\ n <= ActivityBatch
  BY <1>0 DEF ActivityTypeOK, Numbers
<1>2. /\ flushing' = SubSeq(activity, 1, n) /\ activity' = SubSeq(activity, n + 1, Len(activity))
      /\ UNCHANGED <<recorder, recorded, stored, dropped, forgone, activityFaults>>
      /\ flushing = <<>> /\ finals' \in {finals, 1}
  BY DEF TakeBatch
<1> HIDE DEF n
<1>3. /\ flushing' \in Seq(Numbers) /\ Len(flushing') = n
      /\ \A i \in 1..n : flushing'[i] = activity[i]
  BY <1>1, <1>2
<1>4. /\ activity' \in Seq(Numbers) /\ Len(activity') = Len(activity) - n
      /\ \A i \in 1..(Len(activity) - n) : activity'[i] = activity[n + i]
  BY <1>1, <1>2
<1>5. ToSet(activity) = ToSet(flushing') \cup ToSet(activity')
  BY <1>1, <1>2, SetOfParts
<1>6. ActivityTypeOK'
  BY <1>0, <1>1, <1>2, <1>3, <1>4 DEF ActivityTypeOK, Numbers
<1>7. QueueInOrder'
  <2> SUFFICES ASSUME NEW i \in 1..Len(activity'), NEW j \in 1..Len(activity'), i < j
               PROVE  activity'[i] < activity'[j]
    BY DEF QueueInOrder
  <2>1. /\ n + i \in 1..Len(activity) /\ n + j \in 1..Len(activity) /\ n + i < n + j
        /\ activity'[i] = activity[n + i] /\ activity'[j] = activity[n + j]
    BY <1>1, <1>4
  <2> QED BY <2>1, <1>0 DEF QueueInOrder
<1>8. FateOpen'
  <2>1. ToSet(flushing') \cap stored = {}
    <3> SUFFICES ASSUME NEW e \in ToSet(flushing'), e \in stored PROVE FALSE
      OBVIOUS
    <3>1. e \in ToSet(activity) /\ e \in Nat
      BY <1>0, <1>5 DEF OneFate, ActivityTypeOK
    <3> QED BY <3>1, <1>0 DEF OneFate
  <2> QED BY <2>1, <1>0, <1>2, <1>5 DEF FateOpen
<1>9. OneFate'
  <2>1. \A e \in ToSet(flushing'), w \in ToSet(activity') : e < w
    <3> SUFFICES ASSUME NEW i \in 1..n, NEW j \in 1..(Len(activity) - n)
                 PROVE  flushing'[i] < activity'[j]
      BY <1>1, <1>3, <1>4 DEF ToSet
    <3>1. i \in 1..Len(activity) /\ n + j \in 1..Len(activity) /\ i < n + j
      BY <1>1
    <3> QED BY <3>1, <1>0, <1>3, <1>4 DEF QueueInOrder
  <2>2. \A e \in stored, w \in ToSet(activity') : e < w
    BY <1>0, <1>5 DEF OneFate
  <2> QED BY <2>1, <2>2, <1>0, <1>2, <1>5, SetOfNone DEF OneFate
<1> QED BY <1>6, <1>7, <1>8, <1>9 DEF ActivityInv

\* A batch ends: it is stored or given up, and none is in the recorder's hands.
LEMMA BatchEnds ==
  ASSUME ActivityInv, Interrupted \/ (stored' = stored \cup ToSet(flushing) /\ UNCHANGED forgone),
         flushing' = <<>>, UNCHANGED <<recorded, activity, dropped, finals>>,
         recorder' \in {recorder, "stopping"}, activityFaults' \in 0..MaxActivityFaults
  PROVE  ActivityInv'
<1> USE ActivityBounds, SetOfNone
<1>0. ActivityTypeOK /\ QueueInOrder /\ FateOpen /\ OneFate
  BY DEF ActivityInv
<1>1. ToSet(flushing) \subseteq 1..recorded
  BY <1>0 DEF OneFate
<1>2. \/ forgone' = forgone \cup ToSet(flushing) /\ stored' = stored
      \/ stored' = stored \cup ToSet(flushing) /\ forgone' = forgone
  BY DEF Interrupted
<1>3. ActivityTypeOK'
  BY <1>0, <1>1, <1>2 DEF ActivityTypeOK
<1>4. \A w \in ToSet(activity) : w \notin ToSet(flushing)
  <2> SUFFICES ASSUME NEW w \in ToSet(activity), w \in ToSet(flushing) PROVE FALSE
    OBVIOUS
  <2>1. w \in 1..recorded /\ recorded \in Nat
    BY <1>0 DEF OneFate, ActivityTypeOK
  <2> QED BY <2>1, <1>0 DEF OneFate
<1>5. FateOpen'
  BY <1>0, <1>2, <1>4 DEF FateOpen
<1>6. QueueInOrder'
  BY <1>0 DEF QueueInOrder
<1>7. OneFate'
  <2>1. 1..recorded' = UNION {ToSet(activity'), ToSet(flushing'), stored', dropped', forgone'}
    BY <1>0, <1>2 DEF OneFate
  <2>2. stored' \cap (dropped' \cup forgone') = {}
    BY <1>0, <1>2 DEF OneFate, FateOpen
  <2>3. \A e \in ToSet(flushing') \cup stored' : \A w \in ToSet(activity') : e < w
    BY <1>0, <1>2 DEF OneFate
  <2> QED BY <2>1, <2>2, <2>3 DEF OneFate
<1> QED BY <1>3, <1>5, <1>6, <1>7 DEF ActivityInv

LEMMA RecorderGoneInv == ASSUME ActivityInv, RecorderGone PROVE ActivityInv'
<1> USE ActivityBounds, SetOfNone DEF RecorderGone
<1>0. ActivityTypeOK /\ QueueInOrder /\ FateOpen /\ OneFate
  BY DEF ActivityInv
<1>1. ToSet(activity) \subseteq 1..recorded
  BY <1>0 DEF OneFate
<1>2. ActivityTypeOK'
  BY <1>0, <1>1 DEF ActivityTypeOK
<1>3. QueueInOrder'
  BY DEF QueueInOrder
<1>4. FateOpen'
  BY <1>0 DEF FateOpen
<1>5. OneFate'
  <2>1. ToSet(activity) \cap stored = {}
    <3> SUFFICES ASSUME NEW w \in ToSet(activity), w \in stored PROVE FALSE
      OBVIOUS
    <3>1. w \in 1..recorded /\ recorded \in Nat
      BY <1>0, <1>1 DEF ActivityTypeOK
    <3> QED BY <3>1, <1>0 DEF OneFate
  <2>2. stored' \cap (dropped' \cup forgone') = {}
    BY <1>0, <2>1 DEF OneFate
  <2>3. 1..recorded' = UNION {ToSet(activity'), ToSet(flushing'), stored', dropped', forgone'}
    BY <1>0 DEF OneFate
  <2> QED BY <2>2, <2>3 DEF OneFate
<1> QED BY <1>2, <1>3, <1>4, <1>5 DEF ActivityInv

\* The queue of the request log keeps its order, and what the writer holds goes
\* before what waits (api/request_log.py, ActivityRecorder).
THEOREM ActivityInvariant == ActivitySpec => []ActivityInv
<1>1. ASSUME ActivityInv, StoreBatch PROVE ActivityInv'
  <2>1. activityFaults' \in 0..MaxActivityFaults
    BY <1>1, ActivityBounds DEF StoreBatch, ActivityInv, ActivityTypeOK
  <2> QED BY <1>1, <2>1, BatchEnds DEF StoreBatch
<1>2. ASSUME ActivityInv, StopRecorder PROVE ActivityInv'
  <2>1. activityFaults' \in 0..MaxActivityFaults
    BY <1>2 DEF StopRecorder, ActivityInv, ActivityTypeOK
  <2> QED BY <1>2, <2>1, BatchEnds DEF StopRecorder
<1>3. ActivityInv /\ UNCHANGED activityVars => ActivityInv'
  BY DEF activityVars, ActivityInv, ActivityTypeOK, QueueInOrder, FateOpen, OneFate
<1>4. ActivityInv /\ [ActivityNext]_activityVars => ActivityInv'
  BY <1>1, <1>2, <1>3, EnqueueInv, TakeBatchInv, RecorderGoneInv DEF ActivityNext
<1> QED BY <1>4, ActivityInitInv, PTL DEF ActivitySpec

\* Every event has one fate, and what the database took is older than what
\* waits, for any queue, batch and number of faults (api/request_log.py,
\* ActivityRecorder).
THEOREM OneFateHolds == ActivitySpec => [](ActivityTypeOK /\ OneFate)
<1>1. ActivityInv => ActivityTypeOK /\ OneFate
  BY DEF ActivityInv
<1> QED BY <1>1, ActivityInvariant, PTL

-----------------------------------------------------------------------------
(* Provision.                                                              *)

MailKinds == {"onboarding", "exists"}

Row == [row : Requests \cup {NoRequest}, mail : MailKinds \cup {"none"},
        step : {"rest", "look", "insert", "mail", "mark"}]

\* What a worker has done for the row in its hands when it is at a step.
HandSound(w) ==
  /\ current[w].step \in {"mail", "mark"} => Address[current[w].row] \in accounts
  /\ current[w].step = "mail" => current[w].mail \in MailKinds
  /\ current[w].step = "mark" => \E kind \in MailKinds : <<current[w].row, kind>> \in mailed

ProvisionInv ==
  /\ ProvisionTypeOK
  /\ current \in [Workers -> Row]
  /\ \A w \in Workers : HandSound(w)
  /\ NobodyForgotten

\* Accounts and mails only come to be.
LEMMA NothingTakenBack == ASSUME ProvisionNext PROVE accounts \subseteq accounts' /\ mailed \subseteq mailed'
BY DEF ProvisionNext, WorkerStep, Approve, Pull, NextRow, LookUp, CreateAccount, SendMail,
       MarkProvisioned, StepFails, WorkerDies

LEMMA ProvisionInitInv == ProvisionInit => ProvisionInv
<1> SUFFICES ASSUME ProvisionInit PROVE ProvisionInv
  OBVIOUS
<1> USE DEF ProvisionInit
<1>1. ProvisionTypeOK
  BY DEF ProvisionTypeOK
<1>2. current \in [Workers -> Row] /\ \A w \in Workers : HandSound(w)
  BY DEF Row, AtRest, HandSound
<1>3. NobodyForgotten
  BY DEF NobodyForgotten
<1> QED BY <1>1, <1>2, <1>3 DEF ProvisionInv

\* A pull yields requests.
LEMMA PulledSeq == ASSUME NEW S \in SUBSET Requests, NEW q \in SetToSeqs(S) PROVE q \in Seq(Requests)
<1>1. Cardinality(S) \in Nat
  BY ProvisionAssumption, FS_Subset, FS_CardinalityType
<1>2. q \in [1..Cardinality(S) -> S]
  BY DEF SetToSeqs
<1>3. q \in Seq(S)
  BY <1>1, <1>2
<1> QED BY <1>3

\* It is enough to look at the worker that moves: what the others did stays done.
LEMMA OneHandMoves ==
  ASSUME ProvisionInv, ProvisionNext, NEW w \in Workers, NEW new \in Row,
         current' = [current EXCEPT ![w] = new],
         new = AtRest \/ new.row \in Requests,
         /\ new.step \in {"mail", "mark"} => Address[new.row] \in accounts'
         /\ new.step = "mail" => new.mail \in MailKinds
         /\ new.step = "mark" => \E kind \in MailKinds : <<new.row, kind>> \in mailed'
  PROVE  /\ current' \in [Workers -> Row]
         /\ \A v \in Workers : HandSound(v)'
         /\ \A v \in Workers : current'[v] = AtRest \/ current'[v].row \in Requests
<1>1. current'[w] = new /\ \A v \in Workers \ {w} : current'[v] = current[v]
  BY DEF ProvisionInv
<1>2. \A v \in Workers \ {w} : HandSound(v)'
  BY <1>1, NothingTakenBack DEF ProvisionInv, HandSound
<1>3. HandSound(w)'
  BY <1>1 DEF HandSound
<1> QED BY <1>1, <1>2, <1>3 DEF ProvisionInv, ProvisionTypeOK

LEMMA ProvisionStepInv ==
  ASSUME ProvisionInv, ProvisionNext
  PROVE  ProvisionInv'
<1> USE ProvisionAssumption
<1>1. CASE \E r \in Requests : Approve(r)
  <2>1. UNCHANGED <<accounts, mailed, pulled, current>>
    BY <1>1 DEF Approve
  <2>2. ProvisionTypeOK'
    BY <1>1, <2>1 DEF Approve, ProvisionInv, ProvisionTypeOK
  <2>3. NobodyForgotten'
    BY <1>1, <2>1 DEF Approve, ProvisionInv, ProvisionTypeOK, NobodyForgotten
  <2> QED BY <2>1, <2>2, <2>3 DEF ProvisionInv, HandSound
<1>2. ASSUME NEW w \in Workers, WorkerStep(w) \/ StepFails(w) \/ WorkerDies(w)
      PROVE  ProvisionInv'
  <2> DEFINE c == current[w]
  <2>1. c \in Row /\ (c = AtRest \/ c.row \in Requests) /\ HandSound(w)
    BY DEF ProvisionInv, ProvisionTypeOK
  <2>2. c.step # "rest" => c.row \in Requests
    BY <2>1 DEF AtRest
  <2>3. AtRest \in Row /\ AtRest.step = "rest"
    BY DEF AtRest, Row
  <2>4. ProvisionTypeOK /\ NobodyForgotten
    BY DEF ProvisionInv
  <2> USE <1>2
  <2>5. CASE Pull(w)
    <3>1. pulled' \in [Workers -> Seq(Requests)]
      <4>1. PICK q \in SetToSeqs({r \in Requests : landing[r] = "approved"}) :
              pulled' = [pulled EXCEPT ![w] = q]
        BY <2>5 DEF Pull
      <4>2. q \in Seq(Requests)
        BY PulledSeq, <4>1
      <4> QED BY <4>1, <4>2, <2>4 DEF ProvisionTypeOK
    <3>2. UNCHANGED <<landing, accounts, mailed, current>>
      BY <2>5 DEF Pull
    <3>3. ProvisionTypeOK'
      BY <3>1, <3>2, <2>4 DEF ProvisionTypeOK
    <3> QED BY <3>2, <3>3 DEF ProvisionInv, HandSound, NobodyForgotten
  <2>6. CASE NextRow(w)
    <3> DEFINE new == [row |-> Head(pulled[w]), step |-> "look", mail |-> "none"]
    <3>1. pulled[w] \in Seq(Requests) /\ pulled[w] # <<>>
      BY <2>4, <2>6 DEF NextRow, ProvisionTypeOK
    <3>2. Head(pulled[w]) \in Requests /\ Tail(pulled[w]) \in Seq(Requests)
      BY <3>1
    <3>3. new \in Row /\ new.row \in Requests
      BY <3>2 DEF Row
    <3>4. UNCHANGED <<landing, accounts, mailed>> /\ current' = [current EXCEPT ![w] = new]
      BY <2>6 DEF NextRow
    <3>5. /\ current' \in [Workers -> Row]
          /\ \A v \in Workers : HandSound(v)'
          /\ \A v \in Workers : current'[v] = AtRest \/ current'[v].row \in Requests
      BY <3>3, <3>4, OneHandMoves
    <3>6. ProvisionTypeOK'
      BY <2>4, <2>6, <3>2, <3>4, <3>5 DEF NextRow, ProvisionTypeOK
    <3> QED BY <3>4, <3>5, <3>6, <2>4 DEF ProvisionInv, NobodyForgotten
  <2>7. CASE LookUp(w)
    <3>1. PICK new \in {[c EXCEPT !.step = "mail", !.mail = "exists"],
                        [c EXCEPT !.step = "insert", !.mail = "onboarding"]} :
            /\ current' = [current EXCEPT ![w] = new]
            /\ new.step = "mail" => Address[c.row] \in accounts
      BY <2>1, <2>7 DEF LookUp, GoesTo, Row, ProvisionInv
    <3>2. /\ new \in Row /\ new.row = c.row /\ new.row \in Requests
          /\ new.step \in {"mail", "insert"} /\ new.mail \in MailKinds
      BY <2>1, <2>2, <2>7 DEF LookUp, Row, MailKinds
    <3>3. UNCHANGED <<landing, accounts, mailed, pulled>>
      BY <2>7 DEF LookUp
    <3>4. /\ current' \in [Workers -> Row]
          /\ \A v \in Workers : HandSound(v)'
          /\ \A v \in Workers : current'[v] = AtRest \/ current'[v].row \in Requests
      BY <3>1, <3>2, <3>3, OneHandMoves
    <3> QED BY <3>3, <3>4, <2>4 DEF ProvisionInv, ProvisionTypeOK, NobodyForgotten
  <2>8. CASE CreateAccount(w)
    <3> DEFINE new == [c EXCEPT !.step = "mail", !.mail = "onboarding"]
    <3>1. current' = [current EXCEPT ![w] = new]
      BY <2>1, <2>8 DEF CreateAccount, GoesTo, Row, ProvisionInv
    <3>2. /\ new \in Row /\ new.row = c.row /\ new.row \in Requests
          /\ new.step = "mail" /\ new.mail \in MailKinds
      BY <2>1, <2>2, <2>8 DEF CreateAccount, Row, MailKinds
    <3>3. UNCHANGED <<landing, mailed, pulled>> /\ accounts' = accounts \cup {Address[c.row]}
      BY <2>8 DEF CreateAccount
    <3> HIDE DEF new
    <3>4. /\ current' \in [Workers -> Row]
          /\ \A v \in Workers : HandSound(v)'
          /\ \A v \in Workers : current'[v] = AtRest \/ current'[v].row \in Requests
      BY <3>1, <3>2, <3>3, OneHandMoves
    <3>5. ProvisionTypeOK'
      BY <2>4, <3>2, <3>3, <3>4 DEF ProvisionTypeOK
    <3> QED BY <3>3, <3>4, <3>5, <2>4 DEF ProvisionInv, NobodyForgotten
  <2>9. CASE SendMail(w)
    <3>1. c.mail \in MailKinds /\ c.row \in Requests /\ Address[c.row] \in accounts
      BY <2>1, <2>2, <2>9 DEF SendMail, HandSound
    <3>2. /\ UNCHANGED <<landing, accounts, pulled>>
          /\ mailed' \in {mailed, mailed \cup {<<c.row, c.mail>>}}
      BY <2>9 DEF SendMail
    <3>3. PICK new \in Row :
            /\ current' = [current EXCEPT ![w] = new]
            /\ new = AtRest \/ (new.row = c.row /\ new.step = "mark" /\ <<c.row, c.mail>> \in mailed')
      <4>1. [c EXCEPT !.step = "mark", !.mail = c.mail] \in Row
        BY <2>1 DEF Row
      <4>2. /\ [c EXCEPT !.step = "mark", !.mail = c.mail].row = c.row
            /\ [c EXCEPT !.step = "mark", !.mail = c.mail].step = "mark"
        BY <2>1 DEF Row
      <4>3. \/ current' = [current EXCEPT ![w] = [c EXCEPT !.step = "mark", !.mail = c.mail]]
               /\ <<c.row, c.mail>> \in mailed'
            \/ current' = [current EXCEPT ![w] = AtRest]
        BY <2>9, <2>1 DEF SendMail, GoesTo, GiveUp, Row, ProvisionInv
      <4> QED BY <4>1, <4>2, <4>3, <2>3
    <3>4. /\ current' \in [Workers -> Row]
          /\ \A v \in Workers : HandSound(v)'
          /\ \A v \in Workers : current'[v] = AtRest \/ current'[v].row \in Requests
      <4>1. /\ new.step \in {"mail", "mark"} => Address[new.row] \in accounts'
            /\ new.step = "mail" => new.mail \in MailKinds
            /\ new.step = "mark" => \E kind \in MailKinds : <<new.row, kind>> \in mailed'
        BY <3>1, <3>2, <3>3, <2>3
      <4>2. new = AtRest \/ new.row \in Requests
        BY <3>1, <3>3
      <4> QED BY <3>3, <4>1, <4>2, OneHandMoves
    <3>5. ProvisionTypeOK'
      BY <2>4, <3>1, <3>2, <3>4 DEF ProvisionTypeOK, MailKinds
    <3> QED BY <3>2, <3>4, <3>5, <2>4 DEF ProvisionInv, NobodyForgotten
  <2>10. CASE MarkProvisioned(w)
    <3>1. /\ UNCHANGED <<accounts, mailed, pulled>> /\ current' = [current EXCEPT ![w] = AtRest]
          /\ landing' \in {landing, [landing EXCEPT ![c.row] = "provisioned"]}
          /\ c.step = "mark"
      BY <2>10 DEF MarkProvisioned, GiveUp
    <3>2. /\ current' \in [Workers -> Row]
          /\ \A v \in Workers : HandSound(v)'
          /\ \A v \in Workers : current'[v] = AtRest \/ current'[v].row \in Requests
      BY <3>1, <2>3, OneHandMoves
    <3>3. ProvisionTypeOK'
      BY <2>4, <3>1, <3>2 DEF ProvisionTypeOK
    <3>4. NobodyForgotten'
      <4>1. Address[c.row] \in accounts /\ \E kind \in MailKinds : <<c.row, kind>> \in mailed
        BY <2>1, <3>1 DEF HandSound
      <4>2. \A r \in Requests : landing'[r] = landing[r] \/ r = c.row
        BY <2>4, <3>1 DEF ProvisionTypeOK
      <4> QED BY <2>4, <3>1, <4>1, <4>2 DEF NobodyForgotten, MailKinds
    <3> QED BY <3>2, <3>3, <3>4 DEF ProvisionInv
  <2>11. CASE StepFails(w) \/ WorkerDies(w)
    <3>1. /\ UNCHANGED <<landing, accounts, mailed>> /\ current' = [current EXCEPT ![w] = AtRest]
          /\ pulled' \in {pulled, [pulled EXCEPT ![w] = <<>>]}
      BY <2>11 DEF StepFails, WorkerDies, GiveUp
    <3>2. /\ current' \in [Workers -> Row]
          /\ \A v \in Workers : HandSound(v)'
          /\ \A v \in Workers : current'[v] = AtRest \/ current'[v].row \in Requests
      BY <3>1, <2>3, OneHandMoves
    <3>3. pulled' \in [Workers -> Seq(Requests)]
      <4>1. <<>> \in Seq(Requests)
        OBVIOUS
      <4> QED BY <2>4, <3>1, <4>1 DEF ProvisionTypeOK
    <3>4. ProvisionTypeOK'
      BY <2>4, <3>1, <3>2, <3>3 DEF ProvisionTypeOK
    <3> QED BY <3>1, <3>2, <3>4, <2>4 DEF ProvisionInv, NobodyForgotten
  <2> QED BY <2>5, <2>6, <2>7, <2>8, <2>9, <2>10, <2>11 DEF WorkerStep
<1> QED BY <1>1, <1>2 DEF ProvisionNext

\* What each worker holds of a request it has done: the account before the mail,
\* the mail before the row (onboarding/provision_worker.py).
THEOREM ProvisionInvariant == ProvisionSpec => []ProvisionInv
<1>1. ProvisionInv /\ UNCHANGED provisionVars => ProvisionInv'
  BY DEF ProvisionInv, provisionVars, ProvisionTypeOK, HandSound, NobodyForgotten
<1> QED BY <1>1, ProvisionInitInv, ProvisionStepInv, PTL DEF ProvisionSpec

\* A request leaves the queue only after a mail and with an account, for any
\* requests, addresses and workers, however cycles fail and overlap
\* (onboarding/provision_worker.py).
THEOREM NobodyForgottenHolds == ProvisionSpec => [](ProvisionTypeOK /\ NobodyForgotten)
<1>1. ProvisionInv => ProvisionTypeOK /\ NobodyForgotten
  BY DEF ProvisionInv
<1> QED BY <1>1, ProvisionInvariant, PTL

-----------------------------------------------------------------------------
(* Accounts.                                                               *)

\* What a cache entry, or what is about to become one, says of a user.
Known == [role : Roles, off : BOOLEAN] \cup {Revoked}
Entry == Known \cup {NotCached}

Patch  == [user : Users \cup {NoOne}, to : Account \cup {NoRow},
           step : {"idle", "count", "write", "invalidate"}, others : SUBSET Users]
Lookup == [user : Users \cup {NoOne}, seen : Entry, step : {"idle", "features", "cache"}]

\* A request between its reads knows something of its user.
Reading(l) == l = NoLookup \/ (l.user \in Users /\ l.seen \in Known)

AccountsTyped ==
  /\ appUsers \in [Users -> Account \cup {NoRow}]
  /\ disabled \subseteq Users
  /\ auditLog \in Nat
  /\ patches \in [Sessions -> Patch]
  /\ \A s \in Sessions : patches[s] = NoPatch \/ patches[s].user \in Users
  /\ authz \in [Users -> Entry]
  /\ lookups \in [Readers -> Lookup]
  /\ \A r \in Readers : Reading(lookups[r])
  /\ raced \subseteq Users

\* A row is locked by one change at a time.
LocksHeld == \A s, t \in UnderWay : s # t => patches[s].user # patches[t].user

\* What is about to be written is a row.
RowsProposed == \A s \in UnderWay : patches[s].to \in Account

\* Changes done and under way.
ChangesBounded == auditLog + Cardinality(UnderWay) <= MaxChanges

\* Whoever is about to take an admin away has counted another one.
OthersCounted ==
  \A s \in Sessions :
    /\ patches[s].user \notin patches[s].others
    /\ patches[s].step = "write" /\ patches[s].others = {} /\ patches[s].user \in ActiveAdmins
         => patches[s].to = [role |-> "admin", active |-> TRUE]

\* Nothing is known of somebody without a row.
StrangersUnknown ==
  \A u \in Users : appUsers[u] = NoRow =>
    /\ authz[u] = NotCached
    /\ \A r \in Readers : lookups[r].user # u
    /\ \A s \in Sessions : patches[s].user # u

\* What a lookup has read is what the tables say, unless a change overtook it:
\* after its first statement the account, after the second the switch as well.
LookupsExplained ==
  \A r \in Readers : lookups[r].user \in raced \/
    /\ lookups[r].step = "features" =>
         lookups[r].seen = IF appUsers[lookups[r].user].active
                           THEN [role |-> appUsers[lookups[r].user].role, off |-> FALSE]
                           ELSE Revoked
    /\ lookups[r].step = "cache" => lookups[r].seen = Current(lookups[r].user)

AccountsInv ==
  /\ AccountsTyped /\ LocksHeld /\ RowsProposed /\ ChangesBounded /\ OthersCounted /\ StrangersUnknown
  /\ LookupsExplained /\ StaleExplained

-----------------------------------------------------------------------------

LEMMA AccountsInitInv == AccountsInit => AccountsInv
<1> SUFFICES ASSUME AccountsInit PROVE AccountsInv
  OBVIOUS
<1> USE AccountsAssumption DEF AccountsInit
<1>1. AccountsTyped
  <2>1. appUsers \in [Users -> Account \cup {NoRow}]
    BY DEF Account
  <2>2. NoPatch \in Patch /\ NoLookup \in Lookup /\ NotCached \in Entry
    BY DEF NoPatch, NoLookup, Patch, Lookup, Entry
  <2>3. \A r \in Readers : Reading(lookups[r])
    BY DEF Reading
  <2>4. \A t \in Sessions : patches[t] = NoPatch \/ patches[t].user \in Users
    OBVIOUS
  <2>5. authz \in [Users -> Entry] /\ lookups \in [Readers -> Lookup] /\ patches \in [Sessions -> Patch]
    BY <2>2
  <2> QED BY <2>1, <2>3, <2>4, <2>5 DEF AccountsTyped
<1>2. UnderWay = {}
  BY DEF UnderWay, NoPatch
<1>3. LocksHeld
  BY <1>2 DEF LocksHeld
<1>4. ChangesBounded
  BY <1>2, FS_EmptySet DEF ChangesBounded
<1>5. OthersCounted
  BY DEF OthersCounted, NoPatch
<1>6. StrangersUnknown
  BY DEF StrangersUnknown, NoPatch, NoLookup
<1>7. LookupsExplained
  BY DEF LookupsExplained, NoLookup
<1>8. StaleExplained
  BY DEF StaleExplained
<1>9. RowsProposed
  BY <1>2 DEF RowsProposed
<1> QED BY <1>9, <1>1, <1>3, <1>4, <1>5, <1>6, <1>7, <1>8 DEF AccountsInv

LEMMA UnderWayFinite == IsFiniteSet(UnderWay) /\ Cardinality(UnderWay) \in Nat
<1>1. UnderWay \subseteq Sessions
  BY DEF UnderWay
<1> QED BY <1>1, AccountsAssumption, FS_Subset, FS_CardinalityType

LEMMA InviteInv ==
  ASSUME AccountsInv, NEW u \in Users, NEW role \in Roles, InviteUser(u, role)
  PROVE  AccountsInv'
<1> USE AccountsAssumption DEF AccountsInv, InviteUser
<1>1. UnderWay' = UnderWay
  BY DEF UnderWay
<1>2. \A v \in Users : appUsers[v] # NoRow => appUsers'[v] = appUsers[v]
  BY DEF AccountsTyped
<1>3. AccountsTyped'
  <2>1. [role |-> role, active |-> TRUE] \in Account
    BY DEF Account
  <2> QED BY <2>1 DEF AccountsTyped, Audited
<1>4. LocksHeld'
  BY <1>1 DEF LocksHeld
<1>5. ChangesBounded'
  BY <1>1, UnderWayFinite DEF ChangesBounded, Audited, AccountsTyped
<1>6. \A s \in Sessions : patches[s].user \in Users => appUsers[patches[s].user] # NoRow
  BY DEF StrangersUnknown
<1>7. OthersCounted'
  BY <1>2, <1>6 DEF OthersCounted, ActiveAdmins
<1>8. StrangersUnknown'
  BY <1>2 DEF StrangersUnknown
<1>9. \A r \in Readers : lookups[r].user \in Users => appUsers[lookups[r].user] # NoRow
  BY DEF StrangersUnknown
<1>10. LookupsExplained'
  <2> SUFFICES ASSUME NEW r \in Readers, lookups[r].user \notin raced
               PROVE  LookupsExplained!(r)'
    BY DEF LookupsExplained
  <2>1. CASE lookups[r] = NoLookup
    BY <2>1 DEF NoLookup
  <2>2. CASE lookups[r].user \in Users
    BY <2>2, <1>2, <1>9 DEF LookupsExplained, Current
  <2> QED BY <2>1, <2>2 DEF AccountsTyped, Reading
<1>11. StaleExplained'
  BY <1>2 DEF StaleExplained, StrangersUnknown, Current
<1>12. RowsProposed'
  BY <1>1 DEF RowsProposed
<1> QED BY <1>3, <1>4, <1>5, <1>7, <1>8, <1>10, <1>11, <1>12

LEMMA PatchBeginInv ==
  ASSUME AccountsInv, NEW s \in Sessions, NEW u \in Users, NEW to \in Account, PatchBegin(s, u, to)
  PROVE  AccountsInv'
<1> USE AccountsAssumption DEF AccountsInv, PatchBegin
<1> DEFINE losing == appUsers[u].role = "admin"
                       /\ (to.role # "admin" \/ (appUsers[u].active /\ ~to.active))
           new == [NoPatch EXCEPT !.user = u, !.to = to, !.step = IF losing THEN "count" ELSE "write"]
<1>1. /\ patches' = [patches EXCEPT ![s] = new] /\ patches[s] = NoPatch
      /\ new.user = u /\ new.to = to /\ new.others = {}
      /\ new.step = IF losing THEN "count" ELSE "write"
      /\ new \in Patch
  BY DEF MayBegin, NoPatch, Patch
<1>2. /\ patches'[s] = new
      /\ \A t \in Sessions \ {s} : patches'[t] = patches[t]
  BY <1>1 DEF AccountsTyped
<1>3. UnderWay' = UnderWay \cup {s} /\ s \notin UnderWay
  <2> HIDE DEF new, losing
  <2>1. new.step \in {"count", "write"} /\ patches[s].step = "idle"
    BY <1>1 DEF NoPatch
  <2> QED BY <1>2, <2>1 DEF UnderWay
<1>4. AccountsTyped'
  BY <1>1, <1>2 DEF AccountsTyped
<1>5. LocksHeld'
  <2>1. \A t \in UnderWay : patches[t].user # u
    BY DEF Locked
  <2>2. \A t \in UnderWay : t # s
    BY <1>3
  <2>3. UnderWay \subseteq Sessions
    BY DEF UnderWay
  <2>4. patches'[s].user = u /\ \A t \in UnderWay : patches'[t] = patches[t]
    BY <1>1, <1>2, <2>2, <2>3
  <2> QED BY <1>3, <2>1, <2>4 DEF LocksHeld
<1>6. ChangesBounded'
  <2>1. Cardinality(UnderWay') = Cardinality(UnderWay) + 1
    BY <1>3, UnderWayFinite, FS_AddElement
  <2> QED BY <2>1, UnderWayFinite DEF ChangesBounded, MayBegin, AccountsTyped
<1>7. OthersCounted'
  <2>1. ActiveAdmins' = ActiveAdmins
    BY DEF ActiveAdmins
  <2>2. ~losing /\ u \in ActiveAdmins => to = [role |-> "admin", active |-> TRUE]
    BY DEF ActiveAdmins, Account
  <2> HIDE DEF new, losing, AccountsInv, PatchBegin
  <2>3. /\ u \notin new.others
        /\ new.step = "write" /\ u \in ActiveAdmins => to = [role |-> "admin", active |-> TRUE]
    BY <1>1, <2>2
  <2>4. OthersCounted
    BY DEF AccountsInv
  <2>5. \A t \in Sessions \ {s} : OthersCounted!(t)'
    BY <1>2, <2>1, <2>4 DEF OthersCounted
  <2>6. /\ patches'[s].user \notin patches'[s].others
        /\ patches'[s].step = "write" /\ patches'[s].others = {} /\ patches'[s].user \in ActiveAdmins'
             => patches'[s].to = [role |-> "admin", active |-> TRUE]
    <3>1. patches'[s].user = u /\ patches'[s].to = to /\ patches'[s].step = new.step
      BY <1>1, <1>2
    <3>2. patches'[s].others = new.others
      BY <1>2
    <3> QED BY <3>1, <3>2, <2>1, <2>3
  <2> QED BY <2>5, <2>6 DEF OthersCounted
<1>8. StrangersUnknown'
  BY <1>1, <1>2 DEF StrangersUnknown
<1>9. LookupsExplained'
  BY DEF LookupsExplained, Current
<1>10. StaleExplained'
  <2>1. \A t \in Sessions : patches[t].step = "invalidate" => t # s
    BY <1>1 DEF NoPatch
  <2> QED BY <1>2, <2>1 DEF StaleExplained, Current
<1>11. RowsProposed'
  <2>1. UnderWay \subseteq Sessions /\ patches'[s].to \in Account
    BY <1>1, <1>2 DEF UnderWay
  <2> QED BY <1>2, <1>3, <2>1 DEF RowsProposed
<1> QED BY <1>4, <1>5, <1>6, <1>7, <1>8, <1>9, <1>10, <1>11

\* A change that is given up, or that goes on to its write.
LEMMA CountOthersInv ==
  ASSUME AccountsInv, NEW s \in Sessions, CountOthers(s)
  PROVE  AccountsInv'
<1> USE AccountsAssumption DEF AccountsInv, CountOthers
<1> DEFINE others == ActiveAdmins \ {patches[s].user}
           new == IF others = {} THEN NoPatch
                  ELSE [patches[s] EXCEPT !.step = "write", !.others = others]
<1>1. /\ patches[s].step = "count" /\ patches[s] \in Patch
      /\ patches' = [patches EXCEPT ![s] = new]
  BY DEF AccountsTyped
<1>2. /\ new \in Patch /\ new.step \in {"idle", "write"}
      /\ new.user \in {patches[s].user, NoOne}
      /\ new = NoPatch \/ new.user = patches[s].user
      /\ new.user \notin new.others
      /\ new.step = "write" => new.others # {}
  BY <1>1 DEF NoPatch, Patch, ActiveAdmins
<1>3. /\ patches'[s] = new
      /\ \A t \in Sessions \ {s} : patches'[t] = patches[t]
  BY <1>1 DEF AccountsTyped
<1>4. UnderWay' \subseteq UnderWay /\ s \in UnderWay
  BY <1>1, <1>3 DEF UnderWay
<1>5. AccountsTyped'
  <2>1. patches[s].user \in Users
    BY <1>1 DEF AccountsTyped, NoPatch
  <2>2. new = NoPatch \/ new.user \in Users
    BY <2>1, <1>2
  <2> HIDE DEF new
  <2> QED BY <1>1, <1>2, <1>3, <2>2 DEF AccountsTyped
<1>6. LocksHeld'
  <2>1. UnderWay \subseteq Sessions
    BY DEF UnderWay
  <2>2. s \in UnderWay' => patches'[s].user = patches[s].user
    BY <1>2, <1>3 DEF UnderWay, NoPatch
  <2> QED BY <1>3, <1>4, <2>1, <2>2 DEF LocksHeld
<1>7. ChangesBounded'
  <2>1. Cardinality(UnderWay') \in Nat /\ Cardinality(UnderWay') <= Cardinality(UnderWay)
    BY <1>4, UnderWayFinite, FS_Subset, FS_CardinalityType
  <2> QED BY <2>1, UnderWayFinite DEF ChangesBounded, AccountsTyped
<1>8. OthersCounted'
  <2>1. ActiveAdmins' = ActiveAdmins
    BY DEF ActiveAdmins
  <2> QED BY <1>2, <1>3, <2>1 DEF OthersCounted
<1>9. StrangersUnknown'
  BY <1>2, <1>3 DEF StrangersUnknown
<1>10. LookupsExplained'
  BY DEF LookupsExplained, Current
<1>11. StaleExplained'
  <2>1. \A t \in Sessions : patches[t].step = "invalidate" => t # s
    BY <1>1
  <2> QED BY <1>3, <2>1 DEF StaleExplained, Current
<1>12. RowsProposed'
  <2>1. UnderWay \subseteq Sessions /\ (s \in UnderWay' => patches'[s].to = patches[s].to)
    BY <1>1, <1>3 DEF UnderWay, NoPatch
  <2> QED BY <1>3, <1>4, <2>1 DEF RowsProposed
<1> QED BY <1>5, <1>6, <1>7, <1>8, <1>9, <1>10, <1>11, <1>12

\* A change that ends without a commit frees its row and disturbs nothing else.
LEMMA GivenUp ==
  ASSUME AccountsInv, NEW s \in Sessions, patches[s].step = "write",
         patches' = [patches EXCEPT ![s] = NoPatch],
         UNCHANGED <<appUsers, disabled, auditLog, authz, lookups, raced>>
  PROVE  AccountsInv'
<1> USE AccountsAssumption DEF AccountsInv
<1>1. /\ patches'[s] = NoPatch
      /\ \A t \in Sessions \ {s} : patches'[t] = patches[t]
  BY DEF AccountsTyped
<1>2. UnderWay' \subseteq UnderWay /\ s \notin UnderWay'
  BY <1>1 DEF UnderWay, NoPatch
<1>3. AccountsTyped'
  BY <1>1 DEF AccountsTyped, NoPatch, Patch
<1>4. LocksHeld'
  BY <1>1, <1>2 DEF LocksHeld, UnderWay
<1>5. ChangesBounded'
  <2>1. Cardinality(UnderWay') \in Nat /\ Cardinality(UnderWay') <= Cardinality(UnderWay)
    BY <1>2, UnderWayFinite, FS_Subset, FS_CardinalityType
  <2> QED BY <2>1, UnderWayFinite DEF ChangesBounded, AccountsTyped
<1>6. OthersCounted'
  BY <1>1 DEF OthersCounted, NoPatch, ActiveAdmins
<1>7. StrangersUnknown'
  BY <1>1 DEF StrangersUnknown, NoPatch
<1>8. LookupsExplained'
  BY DEF LookupsExplained, Current
<1>9. StaleExplained'
  <2>1. \A t \in Sessions : patches[t].step = "invalidate" => t # s
    OBVIOUS
  <2> QED BY <1>1, <2>1 DEF StaleExplained, Current
<1>10. RowsProposed'
  BY <1>1, <1>2 DEF RowsProposed, UnderWay
<1> QED BY <1>3, <1>4, <1>5, <1>6, <1>7, <1>8, <1>9, <1>10

LEMMA CommitPatchInv ==
  ASSUME AccountsInv, NEW s \in Sessions, CommitPatch(s)
  PROVE  AccountsInv'
<1>1. CASE AccountFault /\ patches' = [patches EXCEPT ![s] = NoPatch]
           /\ UNCHANGED <<appUsers, auditLog, raced>>
  BY <1>1, GivenUp DEF CommitPatch
<1>2. CASE /\ appUsers' = [appUsers EXCEPT ![patches[s].user] = patches[s].to]
           /\ Audited
           /\ Committed(patches[s].user)
           /\ patches' = [patches EXCEPT ![s].step = "invalidate"]
           /\ UNCHANGED accountFaults
  <2> USE AccountsAssumption DEF AccountsInv
  <2> DEFINE u == patches[s].user
             new == [patches[s] EXCEPT !.step = "invalidate"]
  <2>1. /\ patches[s].step = "write" /\ UNCHANGED <<disabled, authz, lookups>>
        /\ patches[s] \in Patch /\ u \in Users /\ patches[s].to \in Account \cup {NoRow}
    BY DEF CommitPatch, AccountsTyped, Patch, NoPatch
  <2>2. /\ new \in Patch /\ new.user = u /\ new.step = "invalidate"
        /\ new.others = patches[s].others /\ new.to = patches[s].to
    BY <2>1 DEF Patch
  <2>3. /\ patches' = [patches EXCEPT ![s] = new]
        /\ patches'[s] = new /\ \A t \in Sessions \ {s} : patches'[t] = patches[t]
    BY <1>2 DEF AccountsTyped
  <2>4. /\ appUsers'[u] = patches[s].to
        /\ \A v \in Users \ {u} : appUsers'[v] = appUsers[v]
    BY <1>2, <2>1 DEF AccountsTyped
  <2>5. raced \subseteq raced' /\ raced' \subseteq raced \cup {u}
    BY <1>2 DEF Committed
  <2>6. \A r \in Readers : lookups[r].user = u => lookups[r].step = "idle" \/ u \in raced'
    BY <1>2, <2>1 DEF Committed, AccountsTyped, Lookup
  <2>7. UnderWay' = UnderWay \ {s} /\ s \in UnderWay
    <3> HIDE DEF new
    <3> QED BY <2>1, <2>2, <2>3 DEF UnderWay
  <2>8. \A t \in UnderWay \ {s} : patches[t].user # u
    BY <2>7 DEF LocksHeld
  <2>9. AccountsTyped'
    <3> HIDE DEF new
    <3>1. appUsers' \in [Users -> Account \cup {NoRow}]
      BY <1>2, <2>1 DEF AccountsTyped
    <3>2. auditLog' \in Nat
      BY <1>2 DEF Audited, AccountsTyped
    <3>3. \A t \in Sessions : patches'[t] = NoPatch \/ patches'[t].user \in Users
      BY <2>1, <2>2, <2>3 DEF AccountsTyped
    <3>4. raced' \subseteq Users
      BY <2>1, <2>5 DEF AccountsTyped
    <3>5. patches' \in [Sessions -> Patch]
      BY <2>2, <2>3 DEF AccountsTyped
    <3> QED BY <2>1, <3>1, <3>2, <3>3, <3>4, <3>5 DEF AccountsTyped
  <2>10. LocksHeld'
    BY <2>3, <2>7 DEF LocksHeld, UnderWay
  <2>11. ChangesBounded'
    <3>1. Cardinality(UnderWay') = Cardinality(UnderWay) - 1
      BY <2>7, UnderWayFinite, FS_RemoveElement
    <3> QED BY <1>2, <3>1, UnderWayFinite DEF ChangesBounded, Audited, AccountsTyped
  <2>12. OthersCounted'
    <3> SUFFICES ASSUME NEW t \in Sessions
                 PROVE /\ patches'[t].user \notin patches'[t].others
                       /\ patches'[t].step = "write" /\ patches'[t].others = {}
                            /\ patches'[t].user \in ActiveAdmins'
                          => patches'[t].to = [role |-> "admin", active |-> TRUE]
      BY DEF OthersCounted
    <3>1. CASE t = s
      <4> HIDE DEF new
      <4> QED BY <3>1, <2>2, <2>3 DEF OthersCounted
    <3>2. CASE t # s /\ patches[t].step = "write"
      <4>1. t \in UnderWay \ {s}
        BY <3>2 DEF UnderWay
      <4>2. patches[t].user \in ActiveAdmins' => patches[t].user \in ActiveAdmins
        BY <4>1, <2>4, <2>8 DEF ActiveAdmins
      <4> QED BY <3>2, <4>2, <2>3 DEF OthersCounted
    <3>3. CASE t # s /\ patches[t].step # "write"
      BY <3>3, <2>3 DEF OthersCounted
    <3> QED BY <3>1, <3>2, <3>3
  <2>13. StrangersUnknown'
    <3>1. patches[s].to # NoRow
      BY <2>7 DEF RowsProposed, Account, NoRow
    <3> HIDE DEF new
    <3> QED BY <2>1, <2>2, <2>3, <2>4, <3>1 DEF StrangersUnknown
  <2>14. LookupsExplained'
    <3> SUFFICES ASSUME NEW r \in Readers, lookups[r].user \notin raced', lookups[r].step # "idle"
                 PROVE  /\ lookups[r].step = "features" =>
                             lookups[r].seen = IF appUsers'[lookups[r].user].active
                                               THEN [role |-> appUsers'[lookups[r].user].role, off |-> FALSE]
                                               ELSE Revoked
                        /\ lookups[r].step = "cache" => lookups[r].seen = Current(lookups[r].user)'
      BY <2>1 DEF LookupsExplained
    <3>1. lookups[r].user # u /\ lookups[r].user \in Users
      BY <2>6 DEF AccountsTyped, NoLookup, Reading
    <3>2. appUsers'[lookups[r].user] = appUsers[lookups[r].user]
      BY <3>1, <2>4
    <3>3. lookups[r].user \notin raced
      BY <2>5
    <3> QED BY <2>1, <3>2, <3>3 DEF LookupsExplained, Current
  <2>15. StaleExplained'
    <3> SUFFICES ASSUME NEW v \in Users, v \notin raced'
                 PROVE  authz'[v] \in {NotCached, Current(v)'}
                          \/ \E t \in Sessions : patches'[t].user = v /\ patches'[t].step = "invalidate"
      BY DEF StaleExplained
    <3>1. CASE v = u
      <4> HIDE DEF new
      <4> QED BY <3>1, <2>2, <2>3
    <3>2. CASE v # u
      <4>1. Current(v)' = Current(v)
        BY <3>2, <2>1, <2>4 DEF Current
      <4>2. \A t \in Sessions : patches[t].step = "invalidate" => t # s
        BY <2>1
      <4> QED BY <4>1, <4>2, <2>1, <2>3, <2>5 DEF StaleExplained
    <3> QED BY <3>1, <3>2
  <2>16. RowsProposed'
    BY <2>3, <2>7 DEF RowsProposed, UnderWay
  <2> QED BY <2>9, <2>10, <2>11, <2>12, <2>13, <2>14, <2>15, <2>16
<1> QED BY <1>1, <1>2 DEF CommitPatch

LEMMA SetUserFeatureInv ==
  ASSUME AccountsInv, NEW s \in Sessions, NEW u \in Users, SetUserFeature(s, u)
  PROVE  AccountsInv'
<1> USE AccountsAssumption DEF AccountsInv
<1> DEFINE new == [NoPatch EXCEPT !.user = u, !.step = "invalidate"]
<1>1. /\ patches[s] = NoPatch /\ appUsers[u] # NoRow
      /\ patches' = [patches EXCEPT ![s] = new]
      /\ new.user = u /\ new.step = "invalidate" /\ new.others = {} /\ new \in Patch
  BY DEF SetUserFeature, MayBegin, NoPatch, Patch
<1>2. /\ patches'[s] = new /\ \A t \in Sessions \ {s} : patches'[t] = patches[t]
  BY <1>1 DEF AccountsTyped
<1>3. UNCHANGED <<appUsers, authz, lookups>>
  BY DEF SetUserFeature
<1>4. disabled' \subseteq Users /\ \A v \in Users \ {u} : v \in disabled' <=> v \in disabled
  BY DEF SetUserFeature, AccountsTyped
<1>5. raced \subseteq raced' /\ raced' \subseteq raced \cup {u}
  BY DEF SetUserFeature, Committed
<1>6. \A r \in Readers : lookups[r].user = u => lookups[r].step = "idle" \/ u \in raced'
  BY DEF SetUserFeature, Committed, AccountsTyped, Lookup
<1> HIDE DEF new
<1>7. UnderWay' = UnderWay
  BY <1>1, <1>2 DEF UnderWay, NoPatch
<1>8. AccountsTyped'
  <2>1. auditLog' \in Nat
    BY DEF SetUserFeature, Audited, AccountsTyped
  <2>2. patches' \in [Sessions -> Patch]
    BY <1>1, <1>2 DEF AccountsTyped
  <2>3. \A t \in Sessions : patches'[t] = NoPatch \/ patches'[t].user \in Users
    BY <1>1, <1>2 DEF AccountsTyped
  <2> QED BY <1>3, <1>4, <1>5, <2>1, <2>2, <2>3 DEF AccountsTyped
<1>9. s \notin UnderWay /\ UnderWay \subseteq Sessions
  BY <1>1 DEF UnderWay, NoPatch
<1>10. LocksHeld'
  BY <1>2, <1>7, <1>9 DEF LocksHeld
<1>11. RowsProposed'
  BY <1>2, <1>7, <1>9 DEF RowsProposed
<1>12. ChangesBounded'
  BY <1>7, UnderWayFinite DEF ChangesBounded, SetUserFeature, MayBegin, Audited, AccountsTyped
<1>13. OthersCounted'
  <2>1. ActiveAdmins' = ActiveAdmins
    BY <1>3 DEF ActiveAdmins
  <2> QED BY <1>1, <1>2, <2>1 DEF OthersCounted
<1>14. StrangersUnknown'
  BY <1>1, <1>2, <1>3 DEF StrangersUnknown
<1>15. LookupsExplained'
  <2> SUFFICES ASSUME NEW r \in Readers, lookups[r].user \notin raced', lookups[r].step # "idle"
               PROVE  /\ lookups[r].step = "features" =>
                           lookups[r].seen = IF appUsers[lookups[r].user].active
                                             THEN [role |-> appUsers[lookups[r].user].role, off |-> FALSE]
                                             ELSE Revoked
                      /\ lookups[r].step = "cache" => lookups[r].seen = Current(lookups[r].user)'
    BY <1>3 DEF LookupsExplained
  <2>1. lookups[r].user # u /\ lookups[r].user \in Users /\ lookups[r].user \notin raced
    BY <1>5, <1>6 DEF AccountsTyped, NoLookup, Reading
  <2> QED BY <1>3, <1>4, <2>1 DEF LookupsExplained, Current
<1>16. StaleExplained'
  <2> SUFFICES ASSUME NEW v \in Users, v \notin raced'
               PROVE  authz'[v] \in {NotCached, Current(v)'}
                        \/ \E t \in Sessions : patches'[t].user = v /\ patches'[t].step = "invalidate"
    BY DEF StaleExplained
  <2>1. CASE v = u
    BY <2>1, <1>1, <1>2
  <2>2. CASE v # u
    <3>1. Current(v)' = Current(v)
      BY <2>2, <1>3, <1>4 DEF Current
    <3>2. \A t \in Sessions : patches[t].step = "invalidate" => t # s
      BY <1>1 DEF NoPatch
    <3> QED BY <3>1, <3>2, <1>2, <1>3, <1>5 DEF StaleExplained
  <2> QED BY <2>1, <2>2
<1> QED BY <1>8, <1>10, <1>11, <1>12, <1>13, <1>14, <1>15, <1>16

LEMMA InvalidateInv ==
  ASSUME AccountsInv, NEW s \in Sessions, Invalidate(s)
  PROVE  AccountsInv'
<1> USE AccountsAssumption DEF AccountsInv
<1> DEFINE u == patches[s].user
<1>1. /\ patches[s].step = "invalidate" /\ u \in Users
      /\ patches' = [patches EXCEPT ![s] = NoPatch]
      /\ UNCHANGED <<appUsers, disabled, auditLog, lookups>>
  BY DEF Invalidate, AccountsTyped, NoPatch
<1>2. /\ patches'[s] = NoPatch /\ \A t \in Sessions \ {s} : patches'[t] = patches[t]
  BY <1>1 DEF AccountsTyped
<1>3. /\ \A v \in Users \ {u} : authz'[v] = authz[v]
      /\ authz'[u] = NotCached \/ (authz'[u] = authz[u] /\ u \in raced')
      /\ raced \subseteq raced' /\ raced' \subseteq raced \cup {u}
  BY <1>1 DEF Invalidate, AccountsTyped
<1>4. UnderWay' = UnderWay /\ s \notin UnderWay /\ UnderWay \subseteq Sessions
  BY <1>1, <1>2 DEF UnderWay, NoPatch
<1>5. AccountsTyped'
  <2>1. authz' \in [Users -> Entry]
    BY <1>1 DEF Invalidate, AccountsTyped, Entry
  <2> QED BY <1>1, <1>2, <1>3, <2>1 DEF AccountsTyped, NoPatch, Patch
<1>6. LocksHeld'
  BY <1>2, <1>4 DEF LocksHeld
<1>7. RowsProposed'
  BY <1>2, <1>4 DEF RowsProposed
<1>8. ChangesBounded'
  BY <1>1, <1>4 DEF ChangesBounded
<1>9. OthersCounted'
  BY <1>1, <1>2 DEF OthersCounted, ActiveAdmins, NoPatch
<1>10. StrangersUnknown'
  <2>1. appUsers[u] # NoRow
    BY <1>1 DEF StrangersUnknown
  <2> QED BY <1>1, <1>2, <1>3, <2>1 DEF StrangersUnknown, NoPatch
<1>11. LookupsExplained'
  BY <1>1, <1>3 DEF LookupsExplained, Current
<1>12. StaleExplained'
  <2> SUFFICES ASSUME NEW v \in Users, v \notin raced'
               PROVE  authz'[v] \in {NotCached, Current(v)'}
                        \/ \E t \in Sessions : patches'[t].user = v /\ patches'[t].step = "invalidate"
    BY DEF StaleExplained
  <2>1. Current(v)' = Current(v)
    BY <1>1 DEF Current
  <2>2. CASE v = u
    BY <2>2, <1>3
  <2>3. CASE v # u
    <3>1. \A t \in Sessions : patches[t].user = v => t # s
      BY <2>3
    <3> QED BY <2>1, <2>3, <3>1, <1>2, <1>3 DEF StaleExplained
  <2> QED BY <2>2, <2>3
<1> QED BY <1>5, <1>6, <1>7, <1>8, <1>9, <1>10, <1>11, <1>12

\* The steps of lookups and of the cache: no change moves.
LEMMA ChangesStill ==
  ASSUME AccountsInv, UNCHANGED <<appUsers, disabled, auditLog, patches, raced>>
  PROVE  LocksHeld' /\ RowsProposed' /\ ChangesBounded' /\ OthersCounted'
<1> USE DEF AccountsInv
<1>1. UnderWay' = UnderWay /\ ActiveAdmins' = ActiveAdmins
  BY DEF UnderWay, ActiveAdmins
<1>2. LocksHeld' /\ RowsProposed'
  BY <1>1 DEF LocksHeld, RowsProposed
<1> QED BY <1>1, <1>2 DEF ChangesBounded, OthersCounted

LEMMA ReadRowInv ==
  ASSUME AccountsInv, NEW r \in Readers, NEW u \in Users, ReadRow(r, u)
  PROVE  AccountsInv'
<1> USE AccountsAssumption DEF AccountsInv
<1> DEFINE seen == IF appUsers[u].active THEN [role |-> appUsers[u].role, off |-> FALSE] ELSE Revoked
           new == [user |-> u, step |-> "features", seen |-> seen]
<1>1. UNCHANGED <<appUsers, disabled, auditLog, patches, authz, raced>> /\ appUsers[u] # NoRow
  BY DEF ReadRow
<1>2. /\ lookups'[r] = new /\ \A t \in Readers \ {r} : lookups'[t] = lookups[t]
      /\ lookups' = [lookups EXCEPT ![r] = new]
  BY DEF ReadRow, AccountsTyped
<1>3. new \in Lookup /\ new.seen \in Known
  <2>1. seen \in Known
    BY <1>1 DEF Known, AccountsTyped, Account, NoRow
  <2> HIDE DEF seen
  <2> QED BY <2>1 DEF Lookup, Entry
<1>4. AccountsTyped'
  <2> HIDE DEF new
  <2>1. Reading(new)
    BY <1>3 DEF new, Reading
  <2> QED BY <1>1, <1>2, <1>3, <2>1 DEF AccountsTyped
<1>5. StrangersUnknown'
  BY <1>1, <1>2 DEF StrangersUnknown
<1>6. LookupsExplained'
  <2>1. \A v : Current(v)' = Current(v)
    BY <1>1 DEF Current
  <2>2. /\ lookups'[r].step = "features" /\ lookups'[r].user = u
        /\ lookups'[r].seen = IF appUsers[u].active THEN [role |-> appUsers[u].role, off |-> FALSE]
                              ELSE Revoked
    BY <1>2
  <2> HIDE DEF new, seen
  <2> QED BY <1>1, <1>2, <2>1, <2>2 DEF LookupsExplained
<1>7. StaleExplained'
  BY <1>1 DEF StaleExplained, Current
<1> QED BY <1>1, <1>4, <1>5, <1>6, <1>7, ChangesStill

LEMMA ReadFeaturesInv ==
  ASSUME AccountsInv, NEW r \in Readers, ReadFeatures(r)
  PROVE  AccountsInv'
<1> USE AccountsAssumption DEF AccountsInv
<1> DEFINE l == lookups[r]
           seen == IF l.seen = Revoked THEN l.seen ELSE [l.seen EXCEPT !.off = l.user \in disabled]
           read == [user |-> l.user, step |-> "cache", seen |-> seen]
<1>1. /\ UNCHANGED <<appUsers, disabled, auditLog, patches, authz, raced>>
      /\ l.step = "features" /\ l \in Lookup /\ l.user \in Users /\ l.seen \in Known
  BY DEF ReadFeatures, AccountsTyped, NoLookup, Reading
<1>2. PICK new \in {read, NoLookup} : lookups' = [lookups EXCEPT ![r] = new]
  BY <1>1 DEF ReadFeatures, Lookup, AccountsTyped
<1>3. /\ lookups'[r] = new /\ \A t \in Readers \ {r} : lookups'[t] = lookups[t]
  BY <1>2 DEF AccountsTyped
<1>4. seen \in Known
  <2>1. CASE l.seen = Revoked
    BY <2>1 DEF Known
  <2>2. CASE l.seen \in [role : Roles, off : BOOLEAN]
    <3> DEFINE off == l.user \in disabled
    <3>1. off \in BOOLEAN
      OBVIOUS
    <3> HIDE DEF off
    <3>2. [l.seen EXCEPT !.off = off] \in [role : Roles, off : BOOLEAN]
      BY <2>2, <3>1
    <3> QED BY <2>2, <3>2 DEF Known, off
  <2> QED BY <1>1, <2>1, <2>2 DEF Known
<1>5. /\ new \in Lookup
      /\ Reading(new)
      /\ new.user \in {l.user, NoOne}
  <2> HIDE DEF seen
  <2>1. new = NoLookup \/ (new.user \in Users /\ new.seen \in Known)
    BY <1>1, <1>4
  <2> QED BY <2>1, <1>1, <1>4 DEF Lookup, NoLookup, Entry, Reading
<1>6. AccountsTyped'
  <2> HIDE DEF read
  <2>1. lookups' \in [Readers -> Lookup]
    BY <1>2, <1>5 DEF AccountsTyped
  <2>2. \A t \in Readers : Reading(lookups'[t])
    BY <1>3, <1>5 DEF AccountsTyped
  <2> QED BY <1>1, <2>1, <2>2 DEF AccountsTyped
<1>7. StrangersUnknown'
  BY <1>1, <1>3, <1>5 DEF StrangersUnknown
<1>8. LookupsExplained'
  <2>1. l.user \notin raced => seen = Current(l.user)
    <3>1. appUsers[l.user].role # "none"
      BY <1>1 DEF StrangersUnknown, AccountsTyped, Account
    <3> SUFFICES ASSUME l.user \notin raced PROVE seen = Current(l.user)
      OBVIOUS
    <3>2. l.seen = IF appUsers[l.user].active
                   THEN [role |-> appUsers[l.user].role, off |-> FALSE] ELSE Revoked
      BY <1>1 DEF LookupsExplained
    <3>3. CASE appUsers[l.user].active
      <4>1. l.seen = [role |-> appUsers[l.user].role, off |-> FALSE] /\ l.seen # Revoked
        BY <3>1, <3>2, <3>3 DEF Revoked
      <4> QED BY <4>1, <3>3 DEF Current
    <3>4. CASE ~appUsers[l.user].active
      BY <3>2, <3>4 DEF Current
    <3> QED BY <3>3, <3>4
  <2>2. new.user \notin raced =>
          /\ new.step # "features"
          /\ new.step = "cache" => new.seen = Current(new.user)
    <3> HIDE DEF seen
    <3> QED BY <2>1 DEF NoLookup
  <2> HIDE DEF read
  <2>3. \A v : Current(v)' = Current(v)
    BY <1>1 DEF Current
  <2> QED BY <1>1, <1>3, <2>2, <2>3 DEF LookupsExplained
<1>9. StaleExplained'
  BY <1>1 DEF StaleExplained, Current
<1> QED BY <1>1, <1>6, <1>7, <1>8, <1>9, ChangesStill

LEMMA WriteCacheInv ==
  ASSUME AccountsInv, NEW r \in Readers, WriteCache(r)
  PROVE  AccountsInv'
<1> USE AccountsAssumption DEF AccountsInv
<1> DEFINE l == lookups[r]
<1>1. /\ UNCHANGED <<appUsers, disabled, auditLog, patches, raced>>
      /\ l.step = "cache" /\ l.seen \in Known /\ l.user \in Users
      /\ lookups' = [lookups EXCEPT ![r] = NoLookup]
  BY DEF WriteCache, AccountsTyped, NoLookup, Lookup, Reading
<1>2. /\ lookups'[r] = NoLookup /\ \A t \in Readers \ {r} : lookups'[t] = lookups[t]
  BY <1>1 DEF AccountsTyped
<1>3. /\ authz' \in [Users -> Entry]
      /\ \A v \in Users \ {l.user} : authz'[v] = authz[v]
      /\ authz'[l.user] \in {authz[l.user], l.seen}
  BY <1>1 DEF WriteCache, AccountsTyped, Entry
<1>4. AccountsTyped'
  <2>1. lookups' \in [Readers -> Lookup]
    BY <1>1 DEF AccountsTyped, NoLookup, Lookup, Entry
  <2>2. \A t \in Readers : Reading(lookups'[t])
    BY <1>2 DEF AccountsTyped, Reading
  <2> QED BY <1>1, <1>3, <2>1, <2>2 DEF AccountsTyped
<1>5. StrangersUnknown'
  <2>1. appUsers[l.user] # NoRow
    BY <1>1 DEF StrangersUnknown
  <2> QED BY <1>1, <1>2, <1>3, <2>1 DEF StrangersUnknown, NoLookup
<1>6. LookupsExplained'
  BY <1>1, <1>2 DEF LookupsExplained, Current, NoLookup
<1>7. StaleExplained'
  <2>1. \A v : Current(v)' = Current(v)
    BY <1>1 DEF Current
  <2>2. l.user \in raced \/ l.seen = Current(l.user)
    BY <1>1 DEF LookupsExplained
  <2> QED BY <1>1, <1>3, <2>1, <2>2 DEF StaleExplained
<1> QED BY <1>1, <1>4, <1>5, <1>6, <1>7, ChangesStill

LEMMA ExpireInv ==
  ASSUME AccountsInv, NEW u \in Users, Expire(u)
  PROVE  AccountsInv'
<1> USE AccountsAssumption DEF AccountsInv, Expire
<1>1. UNCHANGED <<appUsers, disabled, auditLog, patches, raced, lookups>>
  OBVIOUS
<1>2. AccountsTyped'
  BY DEF AccountsTyped, Entry
<1>3. StrangersUnknown'
  BY DEF StrangersUnknown, AccountsTyped
<1>4. LookupsExplained'
  BY DEF LookupsExplained, Current
<1>5. StaleExplained'
  BY DEF StaleExplained, Current, AccountsTyped
<1> QED BY <1>1, <1>2, <1>3, <1>4, <1>5, ChangesStill

LEMMA AccountsStep == AccountsInv /\ [AccountsNext]_accountVars => AccountsInv'
<1> SUFFICES ASSUME AccountsInv, [AccountsNext]_accountVars PROVE AccountsInv'
  OBVIOUS
<1>1. CASE UNCHANGED accountVars
  <2>1. UNCHANGED <<appUsers, disabled, auditLog, patches, raced, lookups, authz>>
    BY <1>1 DEF accountVars
  <2>2. AccountsTyped' /\ StrangersUnknown'
    BY <2>1 DEF AccountsInv, AccountsTyped, StrangersUnknown
  <2>3. LookupsExplained' /\ StaleExplained'
    BY <2>1 DEF AccountsInv, LookupsExplained, StaleExplained, Current
  <2> QED BY <2>1, <2>2, <2>3, ChangesStill DEF AccountsInv
<1>2. CASE AccountsNext
  BY <1>2, InviteInv, PatchBeginInv, SetUserFeatureInv, CountOthersInv, CommitPatchInv,
     InvalidateInv, ReadRowInv, ReadFeaturesInv, WriteCacheInv, ExpireInv DEF AccountsNext
<1> QED BY <1>1, <1>2

\* Each cached authorisation and each read under way is explained by the changes
\* since, and patches hold what they read (api/auth.py; api/routes/admin.py).
THEOREM AccountsInvariant == AccountsSpec => []AccountsInv
<1> QED BY AccountsInitInv, AccountsStep, PTL DEF AccountsSpec

\* A cached authorisation that differs from the tables has an invalidation to
\* come or comes of a race, for any users, sessions and changes (api/auth.py,
\* load_authz and invalidate_authz).
THEOREM StaleExplainedHolds == AccountsSpec => []StaleExplained
<1>1. AccountsInv => StaleExplained
  BY DEF AccountsInv
<1> QED BY <1>1, AccountsInvariant, PTL

\* The variables of Accounts have their types; a change is one of the bound
\* (api/routes/admin.py).
THEOREM AccountsTypeCorrect == AccountsSpec => []AccountsTypeOK
<1>1. AccountsInv => AccountsTypeOK
  <2> SUFFICES ASSUME AccountsInv PROVE AccountsTypeOK
    OBVIOUS
  <2>1. auditLog \in 0..MaxChanges
    BY UnderWayFinite, AccountsAssumption DEF AccountsInv, ChangesBounded, AccountsTyped
  <2>2. \A u \in Users : authz[u] \in [role : Roles, off : BOOLEAN] \cup {Revoked, NotCached}
    BY DEF AccountsInv, AccountsTyped, Entry, Known
  <2> QED BY <2>1, <2>2 DEF AccountsTypeOK, AccountsInv, AccountsTyped, LocksHeld
<1> QED BY <1>1, AccountsInvariant, PTL

\* Only a commit takes an active admin away.
LEMMA OnlyCommitsDemote ==
  ASSUME AccountsInv, [AccountsNext]_accountVars, NEW u \in ActiveAdmins, u \notin ActiveAdmins'
  PROVE  \E s \in Sessions : /\ patches[s].step = "write" /\ patches[s].user = u
                             /\ ActiveAdmins \ {u} \subseteq ActiveAdmins'
                             /\ patches[s].to # [role |-> "admin", active |-> TRUE]
<1> USE DEF AccountsInv
<1>1. appUsers' # appUsers /\ u \in Users
  BY DEF ActiveAdmins
<1>2. \A v \in Users, role \in Roles : ~InviteUser(v, role)
  <2> SUFFICES ASSUME NEW v \in Users, NEW role \in Roles, InviteUser(v, role) PROVE FALSE
    OBVIOUS
  <2>1. appUsers[u] # NoRow
    BY DEF ActiveAdmins, NoRow
  <2>2. appUsers'[u] = appUsers[u]
    BY <1>1, <2>1 DEF InviteUser, AccountsTyped
  <2> QED BY <2>2 DEF ActiveAdmins
<1>3. PICK s \in Sessions : CommitPatch(s)
  BY <1>1, <1>2 DEF AccountsNext, accountVars, PatchBegin, SetUserFeature, CountOthers, Invalidate,
     ReadRow, ReadFeatures, WriteCache, Expire
<1>4. appUsers' = [appUsers EXCEPT ![patches[s].user] = patches[s].to] /\ patches[s].step = "write"
  BY <1>1, <1>3 DEF CommitPatch
<1>5. patches[s].user = u
  BY <1>1, <1>4 DEF AccountsTyped, ActiveAdmins
<1> QED BY <1>1, <1>4, <1>5 DEF AccountsTyped, ActiveAdmins

\* Only a change that counted another admin, who has been taken away since, takes
\* the last one away, for any users and sessions (api/routes/admin.py,
\* patch_user).
THEOREM LastAdminRaceHolds == AccountsSpec => LastAdminRace
<1>1. AccountsInv /\ [AccountsNext]_accountVars =>
        [(ActiveAdmins # {} /\ ActiveAdmins' = {}) =>
           \E s \in Sessions : /\ patches[s].step = "write"
                               /\ patches[s].others # {}
                               /\ patches[s].others \cap ActiveAdmins = {}]_accountVars
  <2> SUFFICES ASSUME AccountsInv, [AccountsNext]_accountVars, ActiveAdmins # {}, ActiveAdmins' = {}
               PROVE  \E s \in Sessions : /\ patches[s].step = "write"
                                          /\ patches[s].others # {}
                                          /\ patches[s].others \cap ActiveAdmins = {}
    OBVIOUS
  <2>1. PICK u : u \in ActiveAdmins
    OBVIOUS
  <2>2. PICK s \in Sessions : /\ patches[s].step = "write" /\ patches[s].user = u
                              /\ ActiveAdmins \ {u} \subseteq ActiveAdmins'
                              /\ patches[s].to # [role |-> "admin", active |-> TRUE]
    BY <2>1, OnlyCommitsDemote
  <2>3. ActiveAdmins = {u}
    BY <2>1, <2>2
  <2>4. patches[s].others # {} /\ u \notin patches[s].others
    BY <2>2, <2>3 DEF AccountsInv, OthersCounted
  <2> QED BY <2>2, <2>3, <2>4
<1> QED BY <1>1, AccountsInvariant, PTL DEF AccountsSpec, LastAdminRace

-----------------------------------------------------------------------------
(* LedgerReset.                                                            *)

RowCopies == TableSet \X (1..MaxRows) \X (1..MaxVersions)

ResetState == [next : 0..2 * Len(Tables) + 1, copied : SUBSET RowCopies, deleted : SUBSET Keys]

ResetTyped == ResetTypeOK /\ resets \in [Admins -> ResetState]

\* What the transaction of a reset will have kept of a row.
SavedBy(a, k) == <<k[1], k[2], ledger[k]>> \in resets[a].copied \/ k \in late

AtDelete(a, t) ==
  /\ resets[a].next \in DOMAIN Statements
  /\ Statements[resets[a].next] = <<t, "delete">>

\* A row in the ledger is as it was last written.
AsLast == \A k \in Keys : ledger[k] > 0 => ledger[k] = latest[k]

\* What a deletion would take has been copied by the statement before it,
CopiedFirst ==
  \A a \in Admins : \A k \in Visible(a) : AtDelete(a, k[1]) => SavedBy(a, k)

\* ... and what it took, as well; its taken are locked until the end,
DeletedSaved ==
  \A a \in Admins : \A k \in resets[a].deleted : ledger[k] > 0 /\ SavedBy(a, k)

\* ... by one transaction only.
LocksApart ==
  \A a, b \in Admins : a # b => resets[a].deleted \cap resets[b].deleted = {}

ResetSafe == ResetTyped /\ AsLast /\ CopiedFirst /\ DeletedSaved /\ LocksApart /\ ArchiveComplete

-----------------------------------------------------------------------------

\* Each table is copied and then deleted, and the next begins with a copy.
LEMMA StatementOrder ==
  ASSUME NEW n \in DOMAIN Statements
  PROVE  /\ n \in 1..2 * Len(Tables)
         /\ Statements[n][1] \in TableSet
         /\ Statements[n][2] \in {"copy", "delete"}
         /\ Statements[n] = <<Statements[n][1], Statements[n][2]>>
         /\ Statements[n][2] = "copy" /\ n + 1 \in DOMAIN Statements =>
              Statements[n + 1] = <<Statements[n][1], "delete">>
         /\ Statements[n][2] = "delete" /\ n + 1 \in DOMAIN Statements =>
              Statements[n + 1][2] = "copy"
<1>1. Len(Tables) \in Nat /\ DOMAIN Tables = 1..Len(Tables)
  BY ResetAssumption
<1>2. n \in 1..2 * Len(Tables) /\ (n + 1) \div 2 \in DOMAIN Tables
  BY <1>1 DEF Statements
<1>3. Statements[n] = <<Tables[(n + 1) \div 2], IF n % 2 = 1 THEN "copy" ELSE "delete">>
  BY <1>2 DEF Statements
<1>4. ASSUME n + 1 \in DOMAIN Statements
      PROVE  Statements[n + 1] = <<Tables[(n + 2) \div 2],
                                   IF (n + 1) % 2 = 1 THEN "copy" ELSE "delete">>
  <2>1. n + 1 \in 1..2 * Len(Tables) /\ (n + 1) + 1 = n + 2
    BY <1>2, <1>4 DEF Statements
  <2> QED BY <2>1 DEF Statements
<1>5. n % 2 = 1 => (n + 1) \div 2 = (n + 2) \div 2 /\ (n + 1) % 2 # 1
  BY <1>2
<1>6. n % 2 # 1 => (n + 1) % 2 = 1
  BY <1>2
<1>7. Tables[(n + 1) \div 2] \in TableSet
  BY <1>2 DEF TableSet
<1> QED BY <1>2, <1>3, <1>4, <1>5, <1>6, <1>7

LEMMA StatementCount == DOMAIN Statements = 1..2 * Len(Tables) /\ Len(Statements) = 2 * Len(Tables)
  BY ResetAssumption DEF Statements

-----------------------------------------------------------------------------

LEMMA ResetInitSafe == ResetInit => ResetSafe
<1> SUFFICES ASSUME ResetInit PROVE ResetSafe
  OBVIOUS
<1> USE DEF ResetInit
<1>1. Len(Tables) \in Nat /\ MaxVersions \in Nat /\ MaxRows \in Nat
  BY ResetAssumption
<1>2. ResetTyped
  BY <1>1 DEF ResetTyped, ResetTypeOK, ResetState, AtEase, Keys, RowCopies
<1>3. AsLast /\ CopiedFirst /\ DeletedSaved /\ LocksApart /\ ArchiveComplete
  BY DEF AsLast, CopiedFirst, DeletedSaved, LocksApart, ArchiveComplete, AtEase, Visible
<1> QED BY <1>2, <1>3 DEF ResetSafe

\* The service writes a row that nobody deletes.
LEMMA WriteRowSafe == ASSUME ResetSafe, WriteRow PROVE ResetSafe'
<1> USE DEF ResetSafe
<1>1. PICK k \in Keys \ LockedRows :
        /\ latest[k] < MaxVersions
        /\ latest[k] > 0 => ledger[k] > 0
        /\ latest' = [latest EXCEPT ![k] = @ + 1]
        /\ ledger' = [ledger EXCEPT ![k] = latest'[k]]
        /\ late' = IF \E a \in Admins :
                        /\ resets[a].next \in DOMAIN Statements
                        /\ Statements[resets[a].next] = <<k[1], "delete">>
                   THEN late \cup {k} ELSE late
  BY DEF WriteRow
<1>2. UNCHANGED <<archive, resets, resetFaults>>
  BY DEF WriteRow
<1>3. MaxVersions \in Nat /\ latest[k] \in 0..MaxVersions /\ latest[k] + 1 \in 1..MaxVersions
  BY <1>1, ResetAssumption DEF ResetTyped, ResetTypeOK
<1>4. /\ ledger' \in [Keys -> 0..MaxVersions] /\ latest' \in [Keys -> 0..MaxVersions]
      /\ ledger'[k] = latest'[k] /\ latest'[k] > 0
      /\ \A j \in Keys \ {k} : ledger'[j] = ledger[j] /\ latest'[j] = latest[j]
      /\ late' \subseteq Keys /\ late \subseteq late'
  BY <1>1, <1>3 DEF ResetTyped, ResetTypeOK
<1>5. ResetTyped'
  BY <1>2, <1>4 DEF ResetTyped, ResetTypeOK
<1>6. AsLast'
  BY <1>4 DEF AsLast
<1>7. \A a \in Admins : AtDelete(a, k[1]) => k \in late'
  BY <1>1 DEF AtDelete
<1>8. \A a \in Admins : k \notin resets[a].deleted
  BY <1>1 DEF LockedRows, LockedBy
<1>9. CopiedFirst'
  <2> SUFFICES ASSUME NEW a \in Admins, NEW j \in Visible(a)', AtDelete(a, j[1])'
               PROVE  SavedBy(a, j)'
    BY DEF CopiedFirst
  <2>1. AtDelete(a, j[1])
    BY <1>2 DEF AtDelete
  <2>2. CASE j = k
    BY <2>1, <2>2, <1>7 DEF SavedBy
  <2>3. CASE j # k
    <3>1. j \in Visible(a) /\ j \in Keys
      BY <1>2, <1>4, <2>3 DEF Visible
    <3> QED BY <2>1, <2>3, <3>1, <1>2, <1>4 DEF CopiedFirst, SavedBy
  <2> QED BY <2>2, <2>3
<1>10. DeletedSaved'
  <2> SUFFICES ASSUME NEW a \in Admins, NEW j \in resets[a].deleted
               PROVE  ledger'[j] > 0 /\ SavedBy(a, j)'
    BY <1>2 DEF DeletedSaved
  <2>1. j \in Keys /\ j # k
    BY <1>8 DEF ResetTyped, ResetTypeOK
  <2> QED BY <2>1, <1>2, <1>4 DEF DeletedSaved, SavedBy
<1>11. LocksApart'
  BY <1>2 DEF LocksApart
<1>12. ArchiveComplete'
  BY <1>2, <1>4 DEF ArchiveComplete
<1> QED BY <1>5, <1>6, <1>9, <1>10, <1>11, <1>12

\* A transaction that begins or is rolled back holds nothing.
LEMMA FreshSafe ==
  ASSUME ResetSafe, NEW a \in Admins, NEW n \in {0, 1},
         resets' = [resets EXCEPT ![a] = [AtEase EXCEPT !.next = n]],
         UNCHANGED <<ledger, archive, latest, late>>
  PROVE  ResetSafe'
<1> USE DEF ResetSafe
<1>1. /\ resets'[a].next = n /\ resets'[a].copied = {} /\ resets'[a].deleted = {}
      /\ \A b \in Admins \ {a} : resets'[b] = resets[b]
      /\ resets' \in [Admins -> ResetState]
  BY ResetAssumption DEF ResetTyped, ResetState, AtEase
<1>2. ~(\E t \in TableSet : AtDelete(a, t)')
  <2>1. 1 \in DOMAIN Statements => Statements[1][2] = "copy"
    BY ResetAssumption DEF Statements
  <2>2. 0 \notin DOMAIN Statements
    BY StatementCount
  <2> QED BY <1>1, <2>1, <2>2 DEF AtDelete
<1>3. ResetTyped'
  <2>1. \A b \in Admins : resets'[b] \in ResetState
    BY <1>1
  <2> QED BY <1>1, <2>1 DEF ResetTyped, ResetTypeOK, ResetState
<1>4. CopiedFirst'
  <2> SUFFICES ASSUME NEW b \in Admins, NEW k \in Visible(b)', AtDelete(b, k[1])'
               PROVE  SavedBy(b, k)'
    BY DEF CopiedFirst
  <2>1. k \in Keys /\ k[1] \in TableSet
    BY DEF Visible, Keys
  <2>2. b # a
    BY <1>2, <2>1
  <2>3. resets'[b] = resets[b]
    BY <2>2, <1>1
  <2> QED BY <2>2, <2>3 DEF CopiedFirst, Visible, AtDelete, SavedBy
<1>5. AsLast' /\ DeletedSaved' /\ LocksApart' /\ ArchiveComplete'
  BY <1>1 DEF AsLast, DeletedSaved, LocksApart, ArchiveComplete, SavedBy
<1> QED BY <1>3, <1>4, <1>5

LEMMA ExecuteSafe == ASSUME ResetSafe, NEW a \in Admins, Execute(a) PROVE ResetSafe'
<1> USE DEF ResetSafe
<1> DEFINE n == resets[a].next
           t == Statements[n][1]
           taken == OfTable(Visible(a), t)
           copies == {<<k[1], k[2], ledger[k]>> : k \in taken}
<1>1. n \in DOMAIN Statements /\ UNCHANGED <<ledger, archive, latest, late, resetFaults>>
  BY DEF Execute
<1>2. taken \subseteq Keys /\ \A k \in taken : k[1] = t /\ ledger[k] \in 1..MaxVersions
  BY ResetAssumption DEF OfTable, Visible, ResetTyped, ResetTypeOK
<1>3. n + 1 \in 0..2 * Len(Tables) + 1 /\ n \in Nat
  BY <1>1, StatementOrder, ResetAssumption
<1>4. AsLast' /\ ArchiveComplete'
  BY <1>1 DEF AsLast, ArchiveComplete
<1>5. CASE Statements[n][2] = "copy"
  <2>1. resets' = [resets EXCEPT ![a].next = n + 1, ![a].copied = @ \cup copies]
    BY <1>5 DEF Execute
  <2>2. copies \subseteq RowCopies
    BY <1>2 DEF RowCopies, Keys
  <2>3. /\ resets'[a].next = n + 1 /\ resets'[a].copied = resets[a].copied \cup copies
        /\ resets'[a].deleted = resets[a].deleted
        /\ \A b \in Admins \ {a} : resets'[b] = resets[b]
        /\ resets' \in [Admins -> ResetState]
    BY <2>1, <2>2, <1>3 DEF ResetTyped, ResetState
  <2>4. ResetTyped'
    BY <2>3, <1>1 DEF ResetTyped, ResetTypeOK, ResetState
  <2>5. \A b \in Admins : \A k : SavedBy(b, k) => SavedBy(b, k)'
    BY <2>3, <1>1 DEF SavedBy
  <2>6. CopiedFirst'
    <3> SUFFICES ASSUME NEW b \in Admins, NEW k \in Visible(b)', AtDelete(b, k[1])'
                 PROVE  SavedBy(b, k)'
      BY DEF CopiedFirst
    <3>1. k \in Visible(b)
      BY <1>1, <2>3 DEF Visible
    <3>2. CASE b # a
      BY <3>1, <3>2, <2>3, <2>5 DEF CopiedFirst, AtDelete
    <3>3. CASE b = a
      <4>1. k[1] = t
        BY <3>3, <2>3, <1>1, <1>5, StatementOrder DEF AtDelete
      <4>2. k \in taken
        BY <4>1, <3>1, <3>3 DEF OfTable
      <4> QED BY <4>2, <3>3, <2>3, <1>1 DEF SavedBy
    <3> QED BY <3>2, <3>3
  <2>7. DeletedSaved' /\ LocksApart'
    BY <2>3, <2>5, <1>1 DEF DeletedSaved, LocksApart
  <2> QED BY <1>4, <2>4, <2>6, <2>7
<1>6. CASE Statements[n][2] = "delete"
  <2>1. /\ taken \cap LockedRows = {}
        /\ resets' = [resets EXCEPT ![a].next = n + 1, ![a].deleted = @ \cup taken]
    BY <1>6 DEF Execute
  <2>2. /\ resets'[a].next = n + 1 /\ resets'[a].copied = resets[a].copied
        /\ resets'[a].deleted = resets[a].deleted \cup taken
        /\ \A b \in Admins \ {a} : resets'[b] = resets[b]
        /\ resets' \in [Admins -> ResetState]
    BY <2>1, <1>2, <1>3 DEF ResetTyped, ResetState
  <2>3. ResetTyped'
    BY <2>2, <1>1 DEF ResetTyped, ResetTypeOK, ResetState
  <2>4. \A b \in Admins : \A k : SavedBy(b, k) => SavedBy(b, k)'
    BY <2>2, <1>1 DEF SavedBy
  <2>5. CopiedFirst'
    <3> SUFFICES ASSUME NEW b \in Admins, NEW k \in Visible(b)', AtDelete(b, k[1])'
                 PROVE  SavedBy(b, k)'
      BY DEF CopiedFirst
    <3>1. b # a
      BY <2>2, <1>1, <1>6, StatementOrder DEF AtDelete
    <3> QED BY <3>1, <2>2, <2>4, <1>1 DEF CopiedFirst, AtDelete, Visible
  <2>6. DeletedSaved'
    <3>1. AtDelete(a, t)
      BY <1>1, <1>6, StatementOrder DEF AtDelete
    <3>2. \A k \in taken : ledger[k] > 0 /\ SavedBy(a, k)
      <4> TAKE k \in taken
      <4>1. k \in Visible(a) /\ k[1] = t
        BY DEF OfTable
      <4> QED BY <4>1, <3>1 DEF CopiedFirst, Visible
    <3> QED BY <3>2, <2>2, <2>4, <1>1 DEF DeletedSaved
  <2>7. LocksApart'
    BY <2>1, <2>2 DEF LocksApart, LockedRows, LockedBy
  <2> QED BY <1>4, <2>3, <2>5, <2>6, <2>7
<1> QED BY <1>1, <1>5, <1>6, StatementOrder

LEMMA CommitSafe == ASSUME ResetSafe, NEW a \in Admins, CommitReset(a) PROVE ResetSafe'
<1> USE DEF ResetSafe
<1>1. /\ ledger' = [k \in Keys |-> IF k \in resets[a].deleted THEN 0 ELSE ledger[k]]
      /\ archive' = archive \cup resets[a].copied
      /\ resets' = [resets EXCEPT ![a] = AtEase]
      /\ UNCHANGED <<latest, late, resetFaults>>
  BY DEF CommitReset
<1>2. /\ resets'[a] = AtEase
      /\ \A b \in Admins \ {a} : resets'[b] = resets[b]
      /\ resets' \in [Admins -> ResetState]
  BY <1>1, ResetAssumption DEF ResetTyped, ResetState, AtEase
<1>3. /\ ledger' \in [Keys -> 0..MaxVersions]
      /\ archive' \subseteq RowCopies
  BY <1>1, ResetAssumption DEF ResetTyped, ResetTypeOK, ResetState, RowCopies
<1>4. ResetTyped'
  <2>1. \A b \in Admins : resets'[b] \in ResetState
    BY <1>2
  <2> QED BY <1>1, <1>2, <1>3, <2>1 DEF ResetTyped, ResetTypeOK, ResetState, RowCopies
<1>5. AsLast'
  BY <1>1 DEF AsLast
<1>6. \A b \in Admins \ {a} : \A k \in resets[b].deleted : k \in Keys /\ ledger'[k] = ledger[k]
  BY <1>1 DEF LocksApart, ResetTyped, ResetTypeOK
<1>7. CopiedFirst'
  <2> SUFFICES ASSUME NEW b \in Admins, NEW k \in Visible(b)', AtDelete(b, k[1])'
               PROVE  SavedBy(b, k)'
    BY DEF CopiedFirst
  <2>1. b # a
    BY <1>2, StatementCount DEF AtDelete, AtEase
  <2>2. resets'[b] = resets[b]
    BY <2>1, <1>2
  <2>3. k \in Keys /\ ledger'[k] = ledger[k] /\ k \in Visible(b)
    BY <1>1, <2>2 DEF Visible
  <2> QED BY <2>2, <2>3, <1>1 DEF CopiedFirst, AtDelete, SavedBy
<1>8. DeletedSaved'
  <2> SUFFICES ASSUME NEW b \in Admins, NEW k \in resets'[b].deleted
               PROVE  ledger'[k] > 0 /\ SavedBy(b, k)'
    BY DEF DeletedSaved
  <2>1. b # a
    BY <1>2 DEF AtEase
  <2> QED BY <2>1, <1>1, <1>2, <1>6 DEF DeletedSaved, SavedBy
<1>9. LocksApart'
  BY <1>2 DEF LocksApart, AtEase
<1>10. ArchiveComplete'
  <2> SUFFICES ASSUME NEW k \in Keys, latest[k] > 0
               PROVE  ledger'[k] = latest[k] \/ <<k[1], k[2], latest[k]>> \in archive' \/ k \in late
    BY <1>1 DEF ArchiveComplete
  <2>1. CASE k \in resets[a].deleted
    BY <2>1, <1>1 DEF DeletedSaved, SavedBy, AsLast
  <2>2. CASE k \notin resets[a].deleted
    BY <2>2, <1>1 DEF ArchiveComplete
  <2> QED BY <2>1, <2>2
<1> QED BY <1>4, <1>5, <1>7, <1>8, <1>9, <1>10

LEMMA ResetStepSafe == ResetSafe /\ [ResetNext]_resetVars => ResetSafe'
<1> SUFFICES ASSUME ResetSafe, [ResetNext]_resetVars PROVE ResetSafe'
  OBVIOUS
<1>1. CASE WriteRow
  BY <1>1, WriteRowSafe
<1>2. ASSUME NEW a \in Admins, ResetBegin(a) PROVE ResetSafe'
  <2>1. resets' = [resets EXCEPT ![a] = [AtEase EXCEPT !.next = 1]]
    BY <1>2 DEF ResetBegin, ResetSafe, ResetTyped
  <2> QED BY <2>1, <1>2, FreshSafe DEF ResetBegin
<1>3. ASSUME NEW a \in Admins, Execute(a) PROVE ResetSafe'
  BY <1>3, ExecuteSafe
<1>4. ASSUME NEW a \in Admins, CommitReset(a) PROVE ResetSafe'
  BY <1>4, CommitSafe
<1>5. ASSUME NEW a \in Admins, RollBack(a) PROVE ResetSafe'
  <2>1. [AtEase EXCEPT !.next = 0] = AtEase
    BY DEF AtEase
  <2> QED BY <2>1, <1>5, FreshSafe DEF RollBack
<1>6. CASE UNCHANGED resetVars
  BY <1>6 DEF resetVars, ResetSafe, ResetTyped, ResetTypeOK, AsLast, CopiedFirst, DeletedSaved, LocksApart,
              ArchiveComplete, SavedBy, AtDelete, Visible
<1> QED BY <1>1, <1>2, <1>3, <1>4, <1>5, <1>6 DEF ResetNext

-----------------------------------------------------------------------------

\* The type invariant of the reset, for all tables, rows and numbers of resets
\* (api/routes/admin.py, paper_reset).
THEOREM ResetTypeCorrect == ResetSpec => []ResetTypeOK
<1>1. ResetSafe => ResetTypeOK
  BY DEF ResetSafe, ResetTyped
<1> QED BY <1>1, ResetInitSafe, ResetStepSafe, PTL DEF ResetSpec

\* A row that was written is in the ledger or in its archive, as it was last,
\* unless it was written between the copy and the deletion of its table, with
\* any number of concurrent resets and errors (api/routes/admin.py,
\* paper_reset).
THEOREM ArchiveCompleteHolds == ResetSpec => []ArchiveComplete
<1>1. ResetSafe => ArchiveComplete
  BY DEF ResetSafe
<1> QED BY <1>1, ResetInitSafe, ResetStepSafe, PTL DEF ResetSpec

-----------------------------------------------------------------------------
(* All of them.                                                            *)

LEMMA EachMovesOrRests ==
  ASSUME [ServicesNext]_<<focus, serviceVars>>
  PROVE  /\ [MeterNext]_meterVars /\ [ActivityNext]_activityVars /\ [ProvisionNext]_provisionVars
         /\ [AccountsNext]_accountVars /\ [ResetNext]_resetVars
<1>1. CASE MeteringMoves
  BY <1>1 DEF MeteringMoves
<1>2. CASE ActivityMoves
  BY <1>2 DEF ActivityMoves
<1>3. CASE ProvisionMoves
  BY <1>3 DEF ProvisionMoves
<1>4. CASE AccountsMoves
  BY <1>4 DEF AccountsMoves
<1>5. CASE ResetMoves
  BY <1>5 DEF ResetMoves
<1>6. CASE TranscriptsMoves
  BY <1>6 DEF TranscriptsMoves
<1>7. CASE KbMoves
  BY <1>7 DEF KbMoves
<1>8. CASE UNCHANGED <<focus, serviceVars>>
  BY <1>8 DEF serviceVars
<1> QED BY <1>1, <1>2, <1>3, <1>4, <1>5, <1>6, <1>7, <1>8 DEF ServicesNext

\* The services do not disturb each other: a behaviour of all of them is one
\* of each (they share no variable; api/flushers.py, api/request_log.py,
\* onboarding/provision_worker.py, api/routes/admin.py).
THEOREM ServicesCompose ==
  ServicesSpec => MeterSpec /\ ActivitySpec /\ ProvisionSpec /\ AccountsSpec /\ ResetSpec
<1>1. ServicesInit => MeterInit /\ ActivityInit /\ ProvisionInit /\ AccountsInit /\ ResetInit
  BY DEF ServicesInit
<1>2. [ServicesNext]_<<focus, serviceVars>> => [MeterNext]_meterVars
  BY EachMovesOrRests
<1>3. [ServicesNext]_<<focus, serviceVars>> => [ActivityNext]_activityVars
  BY EachMovesOrRests
<1>4. [ServicesNext]_<<focus, serviceVars>> => [ProvisionNext]_provisionVars
  BY EachMovesOrRests
<1>5. [ServicesNext]_<<focus, serviceVars>> => [AccountsNext]_accountVars
  BY EachMovesOrRests
<1>6. [ServicesNext]_<<focus, serviceVars>> => [ResetNext]_resetVars
  BY EachMovesOrRests
<1> QED BY <1>1, <1>2, <1>3, <1>4, <1>5, <1>6, PTL
    DEF ServicesSpec, MeterSpec, ActivitySpec, ProvisionSpec, AccountsSpec, ResetSpec

\* The records of calls, alerts and requests, for any number of them and any
\* caps, batch sizes, windows and numbers of faults: none is lost or stored
\* twice without a reason, and a breach that recurs is answered
\* (api/flushers.py; api/request_log.py; analysis/guardrails.py, _emit).
THEOREM RecordsKeptHolds == ServicesSpec => []RecordsKept
<1>1. EntriesKept /\ BreachAnswered /\ OneFate => RecordsKept
  BY DEF RecordsKept
<1> QED BY <1>1, ServicesCompose, EntriesKeptHolds, BreachAnsweredHolds, OneFateHolds, PTL

=============================================================================
