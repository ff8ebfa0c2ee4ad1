------------------------------ MODULE Metering ------------------------------
(***************************************************************************)
(* What a worker tells about itself and how it becomes durable.  Every LLM *)
(* call is logged and counted against an hourly budget; budget breaches    *)
(* that recur, and critical conditions, raise an alert, at most one of a   *)
(* kind per cooldown.  Logged calls and alerts are pushed on two capped    *)
(* Redis lists, which the API drains into PostgreSQL batch by batch.       *)
(*                                                                         *)
(* What the API records of its own requests: requests and beacon events go *)
(* into a bounded queue in memory, which a task empties into               *)
(* user_activity_events every few seconds and once more when the API is    *)
(* stopped. An event is known by its number; a request may be recorded or  *)
(* not (routes that are skipped or sampled, users that are not signed in). *)
(***************************************************************************)
EXTENDS Integers, Sequences, SequencesExt, FiniteSets, Bags

CONSTANTS
  MaxCalls,     \* bound: LLM calls the worker makes, known by their number
  Critical,     \* kinds of alert_now
  HourBudget,   \* calls of one hour that stay within the budget
  Hour, BreachWindow, BreachCount, Cooldown,
  ListCap,      \* LTRIM cap of either list
  FlushBatch,   \* FLUSH_BATCH_MAX
  MaxTime, MaxAlerts, MaxMeterFaults, MaxStops    \* bounds

BudgetKind == "HOURLY_COST_BUDGET"
AlertKinds == Critical \cup {BudgetKind}
Queues     == {"alerts", "calls"}

ASSUME MeterBounds ==
  /\ {HourBudget, Hour, BreachWindow} \subseteq Nat
  /\ {MaxCalls, MaxTime, MaxAlerts, MaxMeterFaults, MaxStops} \subseteq Nat
  /\ {BreachCount, Cooldown, ListCap, FlushBatch} \subseteq Nat \ {0}

VARIABLES
  now,
  \* the worker
  logged,      \* number of calls made
  spent,       \* _cost_window: when the calls of the last hour were made
  breaches,    \* _breaches: when the breaches of the window were recorded
  lastAlert,   \* _last_alert, a long time ago at first
  raised,      \* alerts raised; an alert is known by its number
  sending,     \* alerts whose dispatch is under way
  dead,        \* queues the worker has given up pushing to
  \* Redis, the API, PostgreSQL
  list,        \* the two lists, head first
  hand,        \* what the flusher holds: a queue, entries, "insert" or "requeue"
  turn,        \* the queue the flusher looks at next
  rows,        \* alert_events and llm_call_log
  gone,        \* history: entries lost to a cap, a stop or a Redis error
  ackLost,     \* history: commits that were reported as failures
  meterFaults, stops

worker    == <<logged, spent, breaches, lastAlert, raised, sending, dead>>
flusher   == <<hand, turn, rows, ackLost>>
meterVars == <<now, worker, list, flusher, gone, meterFaults, stops>>

LongAgo == -(Cooldown + BreachWindow)
Nothing == [queue |-> "none", entries |-> <<>>, step |-> "insert"]
Entries(q) == 1..(IF q = "calls" THEN MaxCalls ELSE MaxAlerts)

MeterInit ==
  /\ now = 0
  /\ logged = 0 /\ spent = <<>> /\ raised = 0 /\ sending = {} /\ dead = {}
  /\ breaches = [k \in AlertKinds |-> <<>>]
  /\ lastAlert = [k \in AlertKinds |-> LongAgo]
  /\ list = [q \in Queues |-> <<>>]
  /\ hand = Nothing /\ turn = "alerts"
  /\ rows = [q \in Queues |-> EmptyBag]
  /\ gone = [q \in Queues |-> {}]
  /\ ackLost = 0 /\ meterFaults = 0 /\ stops = 0

MeterFault == meterFaults < MaxMeterFaults /\ meterFaults' = meterFaults + 1

\* popleft as long as the oldest is too old.
Since(times, t) ==
  LET old == {i \in DOMAIN times : times[i] < t}
  IN  SubSeq(times, Cardinality(old) + 1, Len(times))

-----------------------------------------------------------------------------
(* The worker.                                                             *)

\* LPUSH and LTRIM in one pipeline; a failure silences the queue for the
\* rest of this process.  An entry is pushed, trimmed or given up.
Push(q, e) ==
  \/ /\ q \notin dead
     /\ LET longer == <<e>> \o list[q]
        IN  /\ list' = [list EXCEPT ![q] = SubSeq(longer, 1, IF Len(longer) > ListCap
                                                         THEN ListCap ELSE Len(longer))]
            /\ gone' = [gone EXCEPT ![q] = @ \cup (ToSet(longer) \ ToSet(list'[q]))]
     /\ UNCHANGED <<dead, meterFaults>>
  \/ /\ q \notin dead
     /\ MeterFault
     /\ dead' = dead \cup {q}
     /\ gone' = [gone EXCEPT ![q] = @ \cup {e}]
     /\ UNCHANGED list
  \/ /\ q \in dead
     /\ gone' = [gone EXCEPT ![q] = @ \cup {e}]
     /\ UNCHANGED <<dead, list, meterFaults>>

\* The cooldown begins when the alert is raised, before it is sent.
Emit(k) ==
  IF now - lastAlert[k] < Cooldown
    THEN UNCHANGED <<lastAlert, raised, sending>>
    ELSE /\ raised < MaxAlerts
         /\ lastAlert' = [lastAlert EXCEPT ![k] = now]
         /\ raised' = raised + 1
         /\ sending' = sending \cup {raised + 1}

\* Mutant: one breach more than the policy asks for.
Breach_Late(k) ==
  LET recent == Since(Append(breaches[k], now), now - BreachWindow)
  IN  /\ breaches' = [breaches EXCEPT ![k] = recent]
      /\ IF Len(recent) > BreachCount THEN Emit(k)
                                      ELSE UNCHANGED <<lastAlert, raised, sending>>

Breach(k) ==
  LET recent == Since(Append(breaches[k], now), now - BreachWindow)
  IN  /\ breaches' = [breaches EXCEPT ![k] = recent]
      /\ IF Len(recent) >= BreachCount THEN Emit(k)
                                       ELSE UNCHANGED <<lastAlert, raised, sending>>

\* log: the rolling cost first, which may breach the budget, then the list.
LogCall ==
  /\ logged < MaxCalls
  /\ logged' = logged + 1
  /\ spent' = Since(Append(spent, now), now - Hour)
  /\ IF Len(spent') > HourBudget THEN Breach(BudgetKind)
                                 ELSE UNCHANGED <<breaches, lastAlert, raised, sending>>
  /\ Push("calls", logged + 1)
  /\ UNCHANGED <<now, flusher, stops>>

AlertNow(k) ==
  /\ Emit(k)
  /\ UNCHANGED <<now, logged, spent, breaches, dead, list, flusher, gone, meterFaults, stops>>

\* A thread sends the alert (which may fail) and then queues its history.
Dispatch(a) ==
  /\ sending' = sending \ {a}
  /\ Push("alerts", a)
  /\ UNCHANGED <<now, logged, spent, breaches, lastAlert, raised, flusher, stops>>

\* The monitor lives in memory, and so do alerts that are being sent.
WorkerRestarts ==
  /\ stops < MaxStops
  /\ stops' = stops + 1
  /\ spent' = <<>>
  /\ breaches' = [k \in AlertKinds |-> <<>>]
  /\ lastAlert' = [k \in AlertKinds |-> LongAgo]
  /\ gone' = [gone EXCEPT !["alerts"] = @ \cup sending]
  /\ sending' = {} /\ dead' = {}
  /\ UNCHANGED <<now, logged, raised, list, flusher, meterFaults>>

-----------------------------------------------------------------------------
(* The flusher of the API.                                                 *)

Other(q) == IF q = "alerts" THEN "calls" ELSE "alerts"

\* RPOP with a count: the oldest entries, oldest first.  When the answer is
\* lost the entries are out of Redis all the same, and the cycle is over.
Pop ==
  LET all  == list[turn]
      n    == IF Len(all) < FlushBatch THEN Len(all) ELSE FlushBatch
      taken == SubSeq(Reverse(all), 1, n)
  IN  /\ hand = Nothing
      /\ list' = [list EXCEPT ![turn] = SubSeq(all, 1, Len(all) - n)]
      /\ \/ /\ hand' = IF n = 0 THEN Nothing
                       ELSE [queue |-> turn, entries |-> taken, step |-> "insert"]
            /\ turn' = Other(turn)
            /\ UNCHANGED <<gone, meterFaults>>
         \/ /\ n > 0 /\ MeterFault
            /\ gone' = [gone EXCEPT ![turn] = @ \cup ToSet(taken)]
            /\ turn' = "alerts"
            /\ UNCHANGED hand
      /\ UNCHANGED <<now, worker, rows, ackLost, stops>>

\* What the table holds once the batch is in: llm_call_log has a key.
Stored ==
  LET old == rows[hand.queue]
      new == ToSet(hand.entries)
  IN  IF hand.queue = "calls" THEN old (+) SetToBag(new \ BagToSet(old))
                              ELSE old (+) SetToBag(new)

Insert ==
  /\ hand.queue # "none" /\ hand.step = "insert"
  /\ \/ /\ rows' = [rows EXCEPT ![hand.queue] = Stored]
        /\ hand' = Nothing
        /\ UNCHANGED <<ackLost, meterFaults>>
     \/ /\ MeterFault                        \* refused, or committed unnoticed
        /\ \/ UNCHANGED <<rows, ackLost>>
           \/ /\ rows' = [rows EXCEPT ![hand.queue] = Stored]
              /\ ackLost' = ackLost + 1
        /\ hand' = [hand EXCEPT !.step = "requeue"]
  /\ UNCHANGED <<now, worker, list, turn, gone, stops>>

\* Mutant: a batch the database refused is dropped.
Requeue_Drops ==
  /\ hand.queue # "none" /\ hand.step = "requeue"
  /\ hand' = Nothing
  /\ UNCHANGED <<now, worker, list, turn, rows, ackLost, gone, meterFaults, stops>>

\* RPUSH of the batch, the oldest first; untrimmed until the next push.
Requeue ==
  /\ hand.queue # "none" /\ hand.step = "requeue"
  /\ hand' = Nothing
  /\ \/ /\ list' = [list EXCEPT ![hand.queue] = @ \o hand.entries]
        /\ UNCHANGED <<gone, meterFaults>>
     \/ /\ MeterFault
        /\ gone' = [gone EXCEPT ![hand.queue] = @ \cup ToSet(hand.entries)]
        /\ UNCHANGED list
  /\ UNCHANGED <<now, worker, turn, rows, ackLost, stops>>

\* stop_flushers cancels the loop; cancellation is no Exception, so the
\* batch in hand is not pushed back, whether its insert was committed or
\* not.  A crash does the same.
ApiRestarts ==
  /\ stops < MaxStops
  /\ stops' = stops + 1
  /\ \/ hand = Nothing /\ UNCHANGED <<rows, gone>>
     \/ /\ hand # Nothing
        /\ gone' = [gone EXCEPT ![hand.queue] = @ \cup ToSet(hand.entries)]
        /\ UNCHANGED rows
     \/ /\ hand # Nothing /\ hand.step = "insert"
        /\ rows' = [rows EXCEPT ![hand.queue] = Stored]
        /\ UNCHANGED gone
  /\ hand' = Nothing /\ turn' = "alerts"
  /\ UNCHANGED <<now, worker, list, ackLost, meterFaults>>

Clock ==
  /\ now < MaxTime
  /\ now' = now + 1
  /\ UNCHANGED <<worker, list, flusher, gone, meterFaults, stops>>

MeterNext ==
  \/ LogCall
  \/ \E k \in Critical : AlertNow(k)
  \/ \E a \in sending : Dispatch(a)
  \/ WorkerRestarts
  \/ Pop \/ Insert \/ Requeue \/ ApiRestarts
  \/ Clock

MeterSpec == MeterInit /\ [][MeterNext]_meterVars

-----------------------------------------------------------------------------
(* Properties.                                                             *)

MeterTypeOK ==
  /\ now \in 0..MaxTime
  /\ logged \in 0..MaxCalls /\ raised \in 0..MaxAlerts /\ sending \subseteq 1..raised
  /\ spent \in Seq(0..now)
  /\ breaches \in [AlertKinds -> Seq(0..now)]
  /\ lastAlert \in [AlertKinds -> LongAgo..now]
  /\ dead \subseteq Queues
  /\ \A q \in Queues : list[q] \in Seq(Entries(q)) /\ gone[q] \subseteq Entries(q)
  /\ turn \in Queues
  /\ hand = Nothing \/ (hand.queue \in Queues /\ hand.entries \in Seq(Entries(hand.queue)))

Made(q) == IF q = "calls" THEN 1..logged ELSE (1..raised) \ sending
Held(q) == IF hand.queue = q THEN ToSet(hand.entries) ELSE {}

\* Every call and every dispatched alert is on its list, in the hands of the
\* flusher or in its table, unless the cap, a restart or a Redis error took it:
\* a database that refuses a batch loses nothing.  And nothing is stored twice
\* but alerts whose commit was taken for a failure, as llm_call_log has a key
\* and alert_events has none (api/flushers.py, "the whole batch is RPUSHed
\* back").
EntriesKept ==
  /\ \A q \in Queues : \A e \in Made(q) :
       e \in ToSet(list[q]) \cup Held(q) \cup BagToSet(rows[q]) \cup gone[q]
  /\ \A c \in BagToSet(rows["calls"]) : rows["calls"][c] = 1
  /\ \A a \in BagToSet(rows["alerts"]) : rows["alerts"][a] <= 1 + ackLost

\* A breach that recurs within the window was answered by an alert of its
\* kind: the cooldown never outlives the breaches it silences by more than
\* their window (analysis/guardrails.py, record_breach and _emit).
BreachAnswered ==
  \A k \in AlertKinds :
    Len(Since(breaches[k], now - BreachWindow)) >= BreachCount
      => now - lastAlert[k] < Cooldown + BreachWindow

-----------------------------------------------------------------------------
(* The activity recorder of the API.                                       *)

CONSTANTS
  QueueMax,       \* ACTIVITY_QUEUE_MAX
  ActivityBatch,  \* events of one _flush
  MaxEvents, MaxActivityFaults    \* bounds

ASSUME ActivityBounds ==
  /\ {MaxEvents, MaxActivityFaults} \subseteq Nat
  /\ {QueueMax, ActivityBatch} \subseteq Nat \ {0}

VARIABLES
  recorder,     \* "up", "stopping" (the loop is cancelled), "off"
  recorded,     \* events enqueued or dropped so far
  activity,     \* the queue
  flushing,     \* the batch between get_nowait and the commit
  stored,       \* user_activity_events
  dropped,      \* events that found the queue full
  forgone,      \* history: events whose insert failed or was interrupted
  finals,       \* final drains done since the stop
  activityFaults

activityVars == <<recorder, recorded, activity, flushing, stored, dropped,
                  forgone, finals, activityFaults>>

ActivityInit ==
  /\ recorder = "up" /\ recorded = 0
  /\ activity = <<>> /\ flushing = <<>>
  /\ stored = {} /\ dropped = {} /\ forgone = {}
  /\ finals = 0 /\ activityFaults = 0

\* Mutant: a full queue makes room for the newer event.
Enqueue_Evicts ==
  /\ recorder = "up"
  /\ recorded < MaxEvents
  /\ recorded' = recorded + 1
  /\ activity' = IF Len(activity) < QueueMax THEN Append(activity, recorded')
                 ELSE Append(Tail(activity), recorded')
  /\ UNCHANGED <<recorder, flushing, stored, dropped, forgone, finals, activityFaults>>

\* The middleware and the beacon only enqueue, and never wait.
Enqueue ==
  /\ recorder = "up"
  /\ recorded < MaxEvents
  /\ recorded' = recorded + 1
  /\ IF Len(activity) < QueueMax
       THEN activity' = Append(activity, recorded') /\ UNCHANGED dropped
       ELSE dropped' = dropped \cup {recorded'} /\ UNCHANGED activity
  /\ UNCHANGED <<recorder, flushing, stored, forgone, finals, activityFaults>>

\* _flush takes a batch, by the loop or once after the loop was cancelled.
TakeBatch ==
  /\ flushing = <<>> /\ activity # <<>>
  /\ \/ recorder = "up" /\ UNCHANGED finals
     \/ recorder = "stopping" /\ finals = 0 /\ finals' = 1
  /\ LET n == IF Len(activity) < ActivityBatch THEN Len(activity) ELSE ActivityBatch
     IN  /\ flushing' = SubSeq(activity, 1, n)
         /\ activity' = SubSeq(activity, n + 1, Len(activity))
  /\ UNCHANGED <<recorder, recorded, stored, dropped, forgone, activityFaults>>

\* An insert that did not end well: its events are given up, unless it was
\* committed and only the answer is missing.
Interrupted ==
  \/ forgone' = forgone \cup ToSet(flushing) /\ UNCHANGED stored
  \/ stored' = stored \cup ToSet(flushing) /\ UNCHANGED forgone

StoreBatch ==
  /\ flushing # <<>>
  /\ \/ /\ stored' = stored \cup ToSet(flushing)
        /\ UNCHANGED <<forgone, activityFaults>>
     \/ /\ activityFaults < MaxActivityFaults
        /\ activityFaults' = activityFaults + 1
        /\ Interrupted
  /\ flushing' = <<>>
  /\ UNCHANGED <<recorder, recorded, activity, dropped, finals>>

\* stop cancels the loop wherever it is: a batch in its hands is lost.
StopRecorder ==
  /\ recorder = "up"
  /\ recorder' = "stopping"
  /\ Interrupted
  /\ flushing' = <<>>
  /\ UNCHANGED <<recorded, activity, dropped, finals, activityFaults>>

\* The process ends after one final batch, whatever the queue still holds.
RecorderGone ==
  /\ recorder = "stopping"
  /\ flushing = <<>>
  /\ finals = 1 \/ activity = <<>>
  /\ recorder' = "off"
  /\ forgone' = forgone \cup ToSet(activity)
  /\ activity' = <<>>
  /\ UNCHANGED <<recorded, flushing, stored, dropped, finals, activityFaults>>

ActivityNext == Enqueue \/ TakeBatch \/ StoreBatch \/ StopRecorder \/ RecorderGone

ActivitySpec == ActivityInit /\ [][ActivityNext]_activityVars

-----------------------------------------------------------------------------
(* Properties.                                                             *)

ActivityTypeOK ==
  /\ recorder \in {"up", "stopping", "off"}
  /\ recorded \in 0..MaxEvents
  /\ activity \in Seq(1..recorded) /\ flushing \in Seq(1..recorded)
  /\ Len(activity) <= QueueMax /\ Len(flushing) <= ActivityBatch
  /\ UNION {stored, dropped, forgone} \subseteq 1..recorded
  /\ finals \in 0..1 /\ activityFaults \in 0..MaxActivityFaults

\* Every event has one fate: it waits, is being written, is stored, found the
\* queue full, or was lost with its batch; and what the database took is
\* older than everything that waits (api/request_log.py, ActivityRecorder).
OneFate ==
  /\ 1..recorded = UNION {ToSet(activity), ToSet(flushing), stored, dropped, forgone}
  /\ \A e \in ToSet(flushing) \cup stored : \A w \in ToSet(activity) : e < w
  /\ stored \cap (dropped \cup forgone) = {}

=============================================================================
