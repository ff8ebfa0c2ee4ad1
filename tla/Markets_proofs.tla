--------------------------- MODULE Markets_proofs ---------------------------
(***************************************************************************)
(* Proofs about the services that live by prices: a follow-up of a filing  *)
(* is as old as its name says (MarkOnTimeHolds), no minute has more paced  *)
(* calls than the limit (PacedWithinLimitHolds), no two shocks fall into   *)
(* one cooldown (ShocksSpacedHolds), every signal of the sentiment bridge  *)
(* follows a move of its market (SignalEarnedHolds), an undisturbed cycle  *)
(* of the hedge leaves it within the tolerance (HedgeAfterCycleHolds), and *)
(* what the tables of a day lack is accounted for (DaysAccountedHolds).    *)
(* Each rests on an inductive invariant of its service; MarketsCompose     *)
(* takes them together, as the runs do, and gives RatesKeptHolds.          *)
(***************************************************************************)
EXTENDS MC_Markets, SequenceLemmas

-----------------------------------------------------------------------------
(* PaperLoops: the marks.                                                  *)

Moments == {Never} \cup Nat

MarksTyped ==
  /\ tick \in Nat /\ live \in BOOLEAN /\ running \in BOOLEAN
  /\ t0 \in [Signals -> Moments]
  /\ marks \in [Signals \X Offsets -> Moments]
  /\ queue \subseteq Entry /\ firing \subseteq Entry
  /\ again \subseteq Signals /\ missed \subseteq Signals \X Offsets

\* What waits is due when its name says, unless its report came again,
DueAsNamed ==
  \A e \in queue \cup firing :
    /\ t0[e.signal] # Never
    /\ e.signal \notin again => e.due = t0[e.signal] + e.mark

\* ... and it is not overdue,
NeverOverdue ==
  /\ \A e \in queue : e.due >= tick
  /\ \A e \in firing : e.due = tick
  /\ ~running => queue = {} /\ firing = {}

\* Only what has a t0 has been marked or comes again.
MarkedAfterT0 ==
  /\ \A s \in Signals, o \in Offsets : t0[s] = Never => marks[<<s, o>>] = Never
  /\ \A s \in again : t0[s] # Never

Waits(s, o) == \E e \in queue \cup firing : e.signal = s /\ e.mark = o
Followed(s, o) == marks[<<s, o>>] # Never \/ <<s, o>> \in missed \/ Waits(s, o)
NoneForgotten == \A s \in Signals, o \in Offsets : running /\ t0[s] # Never => Followed(s, o)

AsNamed ==
  \A s \in Signals, o \in Offsets : s \notin again => marks[<<s, o>>] \in {Never, t0[s] + o}

MarksInv ==
  MarksTyped /\ DueAsNamed /\ NeverOverdue /\ MarkedAfterT0 /\ NoneForgotten /\ AsNamed

LEMMA MarksConstants == Never \in Int /\ Never \notin Nat /\ Offsets \subseteq Nat \ {0}
BY MarksAssumption

LEMMA EntryFields ==
  ASSUME NEW e \in Entry
  PROVE  e.due \in Nat /\ e.signal \in Signals /\ e.mark \in Offsets
BY DEF Entry

LEMMA CaptureStep == ASSUME MarksInv, NEW s \in Signals, Capture(s) PROVE MarksInv'
<1> DEFINE new == {[due |-> tick + o, signal |-> s, mark |-> o] : o \in Offsets}
<1>1. /\ MarksTyped /\ DueAsNamed /\ NeverOverdue /\ MarkedAfterT0 /\ NoneForgotten /\ AsNamed
      /\ tick \in Nat
  BY DEF MarksInv, MarksTyped
<1>2. /\ running /\ t0' = [t0 EXCEPT ![s] = IF @ = Never THEN tick ELSE @]
      /\ again' = IF t0[s] = Never THEN again ELSE again \cup {s}
      /\ queue' = queue \cup new
      /\ UNCHANGED <<tick, live, marks, firing, running, missed>>
  BY DEF Capture
<1>3. /\ t0' \in [Signals -> Moments] /\ t0'[s] # Never
      /\ t0'[s] = IF t0[s] = Never THEN tick ELSE t0[s]
      /\ \A x \in Signals \ {s} : t0'[x] = t0[x]
      /\ \A x \in Signals : t0[x] # Never => t0'[x] = t0[x]
  BY <1>1, <1>2, MarksConstants DEF MarksTyped, Moments
<1>4. /\ new \subseteq Entry
      /\ \A e \in new : e.signal = s /\ e.due = tick + e.mark /\ e.mark \in Offsets
      /\ \A o \in Offsets : \E e \in new : e.signal = s /\ e.mark = o
  <2>1. ASSUME NEW o \in Offsets PROVE [due |-> tick + o, signal |-> s, mark |-> o] \in Entry
    <3>1. tick + o \in Nat
      BY <1>1, MarksConstants
    <3> QED BY <3>1 DEF Entry
  <2>2. \A e \in new : \E o \in Offsets : e = [due |-> tick + o, signal |-> s, mark |-> o]
    OBVIOUS
  <2>3. ASSUME NEW o \in Offsets PROVE \E e \in new : e.signal = s /\ e.mark = o
    <3>1. [due |-> tick + o, signal |-> s, mark |-> o] \in new
      OBVIOUS
    <3>2. /\ [due |-> tick + o, signal |-> s, mark |-> o].signal = s
          /\ [due |-> tick + o, signal |-> s, mark |-> o].mark = o
      OBVIOUS
    <3> QED BY ONLY <3>1, <3>2
  <2>4. ASSUME NEW e \in new PROVE e.signal = s /\ e.due = tick + e.mark /\ e.mark \in Offsets
    <3>1. PICK o \in Offsets : e = [due |-> tick + o, signal |-> s, mark |-> o]
      BY <2>2
    <3> QED BY <3>1
  <2> QED BY <2>1, <2>2, <2>3, <2>4
<1> HIDE DEF new
<1>5. MarksTyped'
  BY <1>1, <1>2, <1>3, <1>4 DEF MarksTyped
<1>6. again \subseteq again' /\ again' \subseteq again \cup {s} /\ (t0[s] # Never => s \in again')
  BY <1>2
<1>7. DueAsNamed'
  <2> SUFFICES ASSUME NEW e \in queue' \cup firing'
               PROVE  /\ t0'[e.signal] # Never
                      /\ e.signal \notin again' => e.due = t0'[e.signal] + e.mark
    BY DEF DueAsNamed
  <2>1. CASE e \in queue \cup firing
    <3>1. t0[e.signal] # Never /\ (e.signal \notin again => e.due = t0[e.signal] + e.mark)
      BY <1>1, <2>1 DEF DueAsNamed
    <3>2. e.signal \in Signals
      BY <1>1, <2>1, EntryFields DEF MarksTyped
    <3> QED BY <1>3, <1>6, <3>1, <3>2
  <2>2. CASE e \in new
    <3>1. e.signal = s /\ e.due = tick + e.mark
      BY <1>4, <2>2
    <3>2. s \notin again' => t0'[s] = tick
      BY <1>3, <1>6
    <3> QED BY <1>3, <3>1, <3>2
  <2> QED BY <1>2, <2>1, <2>2
<1>8. NeverOverdue'
  <2>1. \A e \in new : e.due >= tick
    <3> TAKE e \in new
    <3>1. e.due = tick + e.mark /\ e.mark \in Nat
      BY <1>4, MarksConstants
    <3> QED BY <1>1, <3>1
  <2> QED BY <1>1, <1>2, <2>1 DEF NeverOverdue
<1>9. MarkedAfterT0'
  <2>1. \A x \in Signals, o \in Offsets : t0'[x] = Never => marks'[<<x, o>>] = Never
    BY <1>1, <1>2, <1>3 DEF MarkedAfterT0
  <2>2. \A x \in again' : t0'[x] # Never
    BY <1>1, <1>3, <1>6 DEF MarkedAfterT0, MarksTyped
  <2> QED BY <2>1, <2>2 DEF MarkedAfterT0
<1>10. NoneForgotten'
  <2> SUFFICES ASSUME NEW x \in Signals, NEW o \in Offsets, t0'[x] # Never
               PROVE  Followed(x, o)'
    BY DEF NoneForgotten
  <2>1. CASE x = s
    BY <1>2, <1>4, <2>1 DEF Followed, Waits
  <2>2. CASE x # s
    <3>1. Followed(x, o)
      BY <1>1, <1>2, <1>3, <2>2 DEF NoneForgotten
    <3> QED BY <1>2, <3>1 DEF Followed, Waits
  <2> QED BY <2>1, <2>2
<1>11. AsNamed'
  <2> SUFFICES ASSUME NEW x \in Signals, NEW o \in Offsets, x \notin again'
               PROVE  marks[<<x, o>>] \in {Never, t0'[x] + o}
    BY <1>2 DEF AsNamed
  <2>1. CASE x = s
    BY <1>1, <1>6, <2>1 DEF MarkedAfterT0
  <2>2. CASE x # s
    BY <1>1, <1>3, <1>6, <2>2 DEF AsNamed
  <2> QED BY <2>1, <2>2
<1> QED BY <1>5, <1>7, <1>8, <1>9, <1>10, <1>11 DEF MarksInv

LEMMA TakeDueStep == ASSUME MarksInv, TakeDue PROVE MarksInv'
<1> DEFINE ripe == {e \in queue : e.due <= tick}
<1>1. /\ MarksTyped /\ DueAsNamed /\ NeverOverdue /\ MarkedAfterT0 /\ NoneForgotten /\ AsNamed
      /\ tick \in Nat /\ queue \subseteq Entry
  BY DEF MarksInv, MarksTyped
<1>2. /\ running /\ firing = {} /\ queue' = queue \ ripe
      /\ \/ firing' = ripe /\ UNCHANGED missed
         \/ missed' = missed \cup {<<e.signal, e.mark>> : e \in ripe} /\ UNCHANGED firing
      /\ UNCHANGED <<tick, live, t0, marks, running, again>>
  BY DEF TakeDue, GaveUp
<1>3. \A e \in ripe : e \in queue /\ e.due = tick
  <2> TAKE e \in ripe
  <2>1. e \in queue /\ e.due <= tick /\ e.due \in Nat
    BY <1>1, EntryFields
  <2> QED BY <1>1, <2>1 DEF NeverOverdue
<1>4. ripe \subseteq queue /\ \A e \in ripe : <<e.signal, e.mark>> \in Signals \X Offsets
  BY <1>1, EntryFields
<1> HIDE DEF ripe
<1>5. MarksTyped'
  <2>1. missed' \subseteq Signals \X Offsets
    BY <1>1, <1>2, <1>4 DEF MarksTyped
  <2>2. queue' \subseteq Entry /\ firing' \subseteq Entry
    BY <1>1, <1>2, <1>4
  <2> QED BY <1>1, <1>2, <2>1, <2>2 DEF MarksTyped
<1>6. queue' \cup firing' \subseteq queue \cup firing
  BY <1>2, <1>4
<1>7. DueAsNamed'
  BY <1>1, <1>2, <1>6 DEF DueAsNamed
<1>8. NeverOverdue'
  BY <1>1, <1>2, <1>3 DEF NeverOverdue
<1>9. NoneForgotten'
  <2> SUFFICES ASSUME NEW x \in Signals, NEW o \in Offsets, t0[x] # Never
               PROVE  Followed(x, o)'
    BY <1>2 DEF NoneForgotten
  <2>1. Followed(x, o)
    BY <1>1, <1>2 DEF NoneForgotten
  <2>2. CASE Waits(x, o)
    <3>1. PICK e \in queue : e.signal = x /\ e.mark = o
      BY <1>2, <2>2 DEF Waits
    <3>2. e \in queue' \cup firing' \/ <<x, o>> \in missed'
      BY <1>2, <3>1
    <3> QED BY <3>1, <3>2 DEF Followed, Waits
  <2> QED BY <1>2, <2>1, <2>2 DEF Followed
<1>10. MarkedAfterT0' /\ AsNamed'
  BY <1>1, <1>2 DEF MarkedAfterT0, AsNamed
<1> QED BY <1>5, <1>7, <1>8, <1>9, <1>10 DEF MarksInv

LEMMA RecordStep == ASSUME MarksInv, Record PROVE MarksInv'
<1>1. /\ MarksTyped /\ DueAsNamed /\ NeverOverdue /\ MarkedAfterT0 /\ NoneForgotten /\ AsNamed
      /\ tick \in Nat /\ firing \subseteq Entry /\ marks \in [Signals \X Offsets -> Moments]
  BY DEF MarksInv, MarksTyped
<1>2. running /\ UNCHANGED <<tick, live, t0, queue, running, again>>
  BY DEF Record
<1>3. CASE missed' = missed \cup {<<e.signal, e.mark>> : e \in firing} /\ firing' = {} /\ marks' = marks
  <2>1. \A e \in firing : <<e.signal, e.mark>> \in Signals \X Offsets
    BY <1>1, EntryFields
  <2>2. missed' \subseteq Signals \X Offsets
    BY <1>1, <1>3, <2>1 DEF MarksTyped
  <2>3. MarksTyped'
    BY <1>1, <1>2, <1>3, <2>2 DEF MarksTyped
  <2>4. DueAsNamed' /\ NeverOverdue' /\ MarkedAfterT0' /\ AsNamed'
    BY <1>1, <1>2, <1>3 DEF DueAsNamed, NeverOverdue, MarkedAfterT0, AsNamed
  <2>5. NoneForgotten'
    <3> SUFFICES ASSUME NEW x \in Signals, NEW o \in Offsets, t0[x] # Never
                 PROVE  Followed(x, o)'
      BY <1>2 DEF NoneForgotten
    <3>1. Followed(x, o)
      BY <1>1, <1>2 DEF NoneForgotten
    <3> QED BY <1>2, <1>3, <3>1 DEF Followed, Waits
  <2> QED BY <2>3, <2>4, <2>5 DEF MarksInv
<1>4. ASSUME NEW e \in firing, missed' = missed, firing' = firing \ {e},
             marks' = [marks EXCEPT ![<<e.signal, e.mark>>] = IF @ = Never THEN tick ELSE @]
      PROVE  MarksInv'
  <2>1. /\ <<e.signal, e.mark>> \in Signals \X Offsets /\ e.signal \in Signals /\ e.mark \in Offsets
        /\ e.due = tick /\ t0[e.signal] # Never
        /\ e.signal \notin again => e.due = t0[e.signal] + e.mark
    BY <1>1, EntryFields DEF NeverOverdue, DueAsNamed
  <2>2. /\ marks' \in [Signals \X Offsets -> Moments]
        /\ \A x \in Signals, o \in Offsets :
             \/ marks'[<<x, o>>] = marks[<<x, o>>]
             \/ x = e.signal /\ o = e.mark /\ marks'[<<x, o>>] = tick
        /\ marks'[<<e.signal, e.mark>>] # Never
        /\ \A x \in Signals, o \in Offsets : marks[<<x, o>>] # Never => marks'[<<x, o>>] # Never
    BY <1>1, <1>4, <2>1, MarksConstants DEF Moments
  <2>3. MarksTyped'
    BY <1>1, <1>2, <1>4, <2>2 DEF MarksTyped
  <2>4. DueAsNamed' /\ NeverOverdue'
    BY <1>1, <1>2, <1>4 DEF DueAsNamed, NeverOverdue
  <2>5. MarkedAfterT0'
    BY <1>1, <1>2, <2>1, <2>2 DEF MarkedAfterT0
  <2>6. AsNamed'
    <3> SUFFICES ASSUME NEW x \in Signals, NEW o \in Offsets, x \notin again
                 PROVE  marks'[<<x, o>>] \in {Never, t0[x] + o}
      BY <1>2 DEF AsNamed
    <3> QED BY <1>1, <2>1, <2>2 DEF AsNamed
  <2>7. NoneForgotten'
    <3> SUFFICES ASSUME NEW x \in Signals, NEW o \in Offsets, t0[x] # Never
                 PROVE  Followed(x, o)'
      BY <1>2 DEF NoneForgotten
    <3>1. Followed(x, o)
      BY <1>1, <1>2 DEF NoneForgotten
    <3>2. CASE Waits(x, o)
      <4>1. PICK f \in queue \cup firing : f.signal = x /\ f.mark = o
        BY <3>2 DEF Waits
      <4>2. f = e => marks'[<<x, o>>] # Never
        BY <2>2, <4>1
      <4>3. f # e => Waits(x, o)'
        BY <1>2, <1>4, <4>1 DEF Waits
      <4> QED BY <4>2, <4>3 DEF Followed
    <3>3. CASE marks[<<x, o>>] # Never \/ <<x, o>> \in missed
      BY <1>4, <2>2, <3>3 DEF Followed
    <3> QED BY <3>1, <3>2, <3>3 DEF Followed
  <2> QED BY <2>3, <2>4, <2>5, <2>6, <2>7 DEF MarksInv
<1> QED BY <1>3, <1>4 DEF Record, GaveUp

LEMMA CrashStep == ASSUME MarksInv, CrashOfMarks PROVE MarksInv'
<1>1. MarksTyped /\ MarkedAfterT0 /\ AsNamed /\ firing \subseteq Entry
  BY DEF MarksInv, MarksTyped
<1>2. /\ running' = FALSE /\ missed' = missed \cup {<<e.signal, e.mark>> : e \in firing}
      /\ queue' = {} /\ firing' = {} /\ UNCHANGED <<tick, live, t0, marks, again>>
  BY DEF CrashOfMarks, GaveUp
<1>3. missed' \subseteq Signals \X Offsets
  <2>1. \A e \in firing : <<e.signal, e.mark>> \in Signals \X Offsets
    BY <1>1, EntryFields
  <2> QED BY <1>1, <1>2, <2>1 DEF MarksTyped
<1>4. MarksTyped'
  BY <1>1, <1>2, <1>3 DEF MarksTyped
<1> QED BY <1>1, <1>2, <1>4
    DEF MarksInv, DueAsNamed, NeverOverdue, MarkedAfterT0, NoneForgotten, AsNamed

LEMMA RestartStep == ASSUME MarksInv, RestartOfMarks PROVE MarksInv'
<1>1. /\ MarksTyped /\ NeverOverdue /\ MarkedAfterT0 /\ AsNamed /\ tick \in Nat
      /\ t0 \in [Signals -> Moments]
  BY DEF MarksInv, MarksTyped
<1>2. /\ running' = TRUE /\ queue' \subseteq Rearmed /\ firing' = {}
      /\ missed' = missed \cup {<<e.signal, e.mark>> : e \in Missing \ queue'}
      /\ UNCHANGED <<tick, live, t0, marks, again>>
  BY <1>1 DEF RestartOfMarks, GaveUp, NeverOverdue
<1>3. \A e \in Missing : /\ e \in Entry /\ t0[e.signal] # Never
                         /\ e.due = t0[e.signal] + e.mark
  <2> TAKE e \in Missing
  <2>1. PICK m \in Signals \X Offsets :
          /\ t0[m[1]] # Never
          /\ e = [due |-> t0[m[1]] + m[2], signal |-> m[1], mark |-> m[2]]
    BY DEF Missing
  <2>2. m[1] \in Signals /\ m[2] \in Offsets /\ t0[m[1]] \in Nat /\ m[2] \in Nat
    BY <1>1, <2>1, MarksConstants DEF Moments
  <2>3. t0[m[1]] + m[2] \in Nat
    BY <2>2
  <2> QED BY <2>1, <2>2, <2>3 DEF Entry
<1>4. ASSUME NEW x \in Signals, NEW o \in Offsets, t0[x] # Never, marks[<<x, o>>] = Never
      PROVE  \E e \in Missing : e.signal = x /\ e.mark = o
  <2>1. <<x, o>> \in Signals \X Offsets /\ <<x, o>>[1] = x /\ <<x, o>>[2] = o
    OBVIOUS
  <2>2. [due |-> t0[x] + o, signal |-> x, mark |-> o] \in Missing
    BY <1>4, <2>1 DEF Missing
  <2> QED BY <2>2
<1>5. Rearmed \subseteq Missing /\ \A e \in Rearmed : e.due > tick
  BY DEF Rearmed
<1>6. MarksTyped'
  <2>1. \A e \in Missing : <<e.signal, e.mark>> \in Signals \X Offsets
    BY <1>3, EntryFields
  <2>2. missed' \subseteq Signals \X Offsets
    BY <1>1, <1>2, <2>1 DEF MarksTyped
  <2> QED BY <1>1, <1>2, <1>3, <1>5, <2>2 DEF MarksTyped
<1>7. DueAsNamed'
  BY <1>2, <1>3, <1>5 DEF DueAsNamed
<1>8. NeverOverdue'
  <2>1. \A e \in queue' : e.due >= tick
    <3> TAKE e \in queue'
    <3>1. e.due \in Nat /\ e.due > tick
      BY <1>2, <1>3, <1>5, EntryFields
    <3> QED BY <1>1, <3>1
  <2> QED BY <1>2, <2>1 DEF NeverOverdue
<1>9. NoneForgotten'
  <2> SUFFICES ASSUME NEW x \in Signals, NEW o \in Offsets, t0[x] # Never
               PROVE  Followed(x, o)'
    BY <1>2 DEF NoneForgotten
  <2>1. CASE marks[<<x, o>>] # Never
    BY <1>2, <2>1 DEF Followed
  <2>2. CASE marks[<<x, o>>] = Never
    <3>1. PICK e \in Missing : e.signal = x /\ e.mark = o
      BY <1>4, <2>2
    <3>2. e \in queue' \/ <<x, o>> \in missed'
      BY <1>2, <3>1
    <3> QED BY <3>1, <3>2 DEF Followed, Waits
  <2> QED BY <2>1, <2>2
<1>10. MarkedAfterT0' /\ AsNamed'
  BY <1>1, <1>2 DEF MarkedAfterT0, AsNamed
<1> QED BY <1>6, <1>7, <1>8, <1>9, <1>10 DEF MarksInv

LEMMA TickStep == ASSUME MarksInv, Tick PROVE MarksInv'
<1>1. /\ MarksTyped /\ DueAsNamed /\ NeverOverdue /\ MarkedAfterT0 /\ NoneForgotten /\ AsNamed
      /\ tick \in Nat /\ queue \subseteq Entry
  BY DEF MarksInv, MarksTyped
<1>2. /\ tick' = tick + 1 /\ live' \in BOOLEAN /\ firing = {} /\ \A e \in queue : e.due > tick
      /\ UNCHANGED <<t0, marks, queue, firing, running, again, missed>>
  BY <1>1 DEF Tick, NeverOverdue, MarksTyped
<1>3. MarksTyped'
  BY <1>1, <1>2 DEF MarksTyped
<1>4. NeverOverdue'
  <2>1. \A e \in queue : e.due >= tick + 1
    <3> TAKE e \in queue
    <3>1. e.due \in Nat /\ e.due > tick
      BY <1>1, <1>2, EntryFields
    <3> QED BY <1>1, <3>1
  <2> QED BY <1>1, <1>2, <2>1 DEF NeverOverdue
<1>5. DueAsNamed' /\ MarkedAfterT0' /\ AsNamed'
  BY <1>1, <1>2 DEF DueAsNamed, MarkedAfterT0, AsNamed
<1>6. NoneForgotten'
  BY <1>1, <1>2 DEF NoneForgotten, Followed, Waits
<1> QED BY <1>3, <1>4, <1>5, <1>6 DEF MarksInv

LEMMA RestOfMarks == ASSUME MarksInv, Acknowledge \/ UNCHANGED marksVars PROVE MarksInv'
<1>1. UNCHANGED <<tick, live, t0, marks, queue, firing, running, again, missed>>
  BY DEF Acknowledge, marksVars
<1>2. MarksTyped' /\ DueAsNamed' /\ NeverOverdue' /\ MarkedAfterT0' /\ AsNamed'
  BY <1>1 DEF MarksInv, MarksTyped, DueAsNamed, NeverOverdue, MarkedAfterT0, AsNamed
<1>3. NoneForgotten'
  BY <1>1 DEF MarksInv, NoneForgotten, Followed, Waits
<1> QED BY <1>2, <1>3 DEF MarksInv

\* What waits is due when its name says and not overdue, and what has a t0 is
\* followed, across crashes and closes (papertrade/main.py, _rebuild_mark_queue,
\* marks_loop).
THEOREM MarksInvariant == MarksSpec => []MarksInv
<1>1. ASSUME MarksInit PROVE MarksInv
  <2> USE MarksConstants DEF MarksInit
  <2>1. MarksTyped
    BY <1>1 DEF MarksTyped, Moments
  <2>2. \A s \in Signals, o \in Offsets : t0[s] = Never /\ marks[<<s, o>>] = Never
    BY <1>1
  <2> QED BY <1>1, <2>1, <2>2
      DEF MarksInv, DueAsNamed, NeverOverdue, MarkedAfterT0, NoneForgotten, AsNamed
<1>2. ASSUME MarksInv, [MarksNext]_marksVars PROVE MarksInv'
  BY <1>2, CaptureStep, TakeDueStep, RecordStep, CrashStep, RestartStep, TickStep, RestOfMarks
  DEF MarksNext
<1> QED BY <1>1, <1>2, PTL DEF MarksSpec

\* A follow-up is as old as its name says, and none is forgotten, for any signals,
\* offsets and number of crashes (papertrade/main.py, marks_loop).
THEOREM MarkOnTimeHolds == MarksSpec => []MarkOnTime
<1>1. ASSUME MarksInv PROVE MarkOnTime
  BY <1>1 DEF MarksInv, MarkOnTime, AsNamed, NoneForgotten, Followed, Waits
<1> QED BY <1>1, MarksInvariant, PTL

-----------------------------------------------------------------------------
(* LlmCalls.                                                               *)

\* What lies below a bound is the beginning of an ascending sequence.
LEMMA OldestFirst ==
  ASSUME NEW s \in Seq(Nat), Ascending(s), NEW t \in Int
  PROVE  LET old == {i \in DOMAIN s : s[i] < t}
         IN  /\ Cardinality(old) \in 0..Len(s)
             /\ \A i \in 1..Cardinality(old) : s[i] < t
<1> DEFINE old == {i \in DOMAIN s : s[i] < t}
<1>1. Len(s) \in Nat /\ DOMAIN s = 1..Len(s) /\ \A i \in 1..Len(s) : s[i] \in Nat
  OBVIOUS
<1>2. old \subseteq 1..Len(s) /\ \A i \in 1..Len(s) : i \in old <=> s[i] < t
  BY <1>1
<1> HIDE DEF old
<1>3. \A k \in Nat : IsFiniteSet(1..k) /\ Cardinality(1..k) = k
  <2> TAKE k \in Nat
  <2>1. IsFiniteSet(1..k) /\ Cardinality(1..k) = IF 1 > k THEN 0 ELSE k - 1 + 1
    BY FS_Interval
  <2> QED BY <2>1
<1>4. Cardinality(old) \in Nat /\ Cardinality(old) <= Len(s)
  <2>1. IsFiniteSet(1..Len(s)) /\ Cardinality(1..Len(s)) = Len(s)
    BY <1>1, <1>3
  <2>2. IsFiniteSet(old) /\ Cardinality(old) <= Cardinality(1..Len(s))
    BY <1>2, <2>1, FS_Subset
  <2> QED BY <2>1, <2>2, FS_CardinalityType
<1>5. PICK n \in 0..Len(s) : n = Cardinality(old)
  BY <1>1, <1>4
<1>6. ASSUME NEW i \in 1..n PROVE s[i] < t
  <2>1. SUFFICES ASSUME ~(s[i] < t) PROVE FALSE
    OBVIOUS
  <2>2. i \in 1..Len(s) /\ i - 1 \in Nat
    BY <1>1
  <2>3. ASSUME NEW j \in old PROVE j \in 1..(i - 1)
    <3>1. j \in 1..Len(s) /\ s[j] < t
      BY <1>2
    <3>2. s[i] \in Nat /\ s[j] \in Nat
      BY <1>1, <2>2, <3>1
    <3>3. ~(i < j) /\ i # j
      <4>1. i < j => s[i] <= s[j]
        BY <2>2, <3>1 DEF Ascending
      <4> QED BY <2>1, <3>1, <3>2, <4>1
    <3> QED BY <2>2, <3>1, <3>3
  <2>4. old \subseteq 1..(i - 1)
    BY <2>3
  <2>5. Cardinality(old) <= i - 1
    <3>1. IsFiniteSet(1..(i - 1)) /\ Cardinality(1..(i - 1)) = i - 1
      BY <1>3, <2>2
    <3> QED BY <2>4, <3>1, FS_Subset
  <2>6. n <= i - 1
    BY <1>5, <2>5
  <2> QED BY <2>6
<1>7. \A i \in 1..Cardinality(old) : s[i] < t
  BY <1>5, <1>6
<1> QED BY <1>5, <1>7 DEF old

-----------------------------------------------------------------------------

Request == [kind : Kinds \cup {"none"}, step : {"idle", "pace", "call"}, since : Nat, until : Int,
            tries : Nat]

LlmTyped ==
  /\ clock \in Nat /\ window \in Seq(Nat) /\ paced \in Seq(Nat)
  /\ request \in [LlmCallers -> Request]
  /\ overtaken \in [LlmCallers -> Nat] /\ unpaced \subseteq Nat
  /\ Ascending(paced) /\ UpTo(paced, clock)
  /\ Len(window) <= Len(paced)

Forgotten == Len(paced) - Len(window)

\* The window is the end of what was paced, and what it forgot is old.
WindowSound ==
  /\ \A j \in 1..Len(window) : window[j] = paced[Forgotten + j]
  /\ \A i \in 1..Forgotten : clock - paced[i] >= Minute

\* From one call to that which comes as many calls later as a minute may have.
Spaced == \A i \in 1..Len(paced) : i + RpmLimit <= Len(paced) => paced[i + RpmLimit] - paced[i] >= Minute

\* What was paced after a caller began to wait has overtaken it.
WaitsCounted ==
  \A c \in LlmCallers : request[c].step = "pace" =>
    /\ overtaken[c] <= Len(paced)
    /\ \A i \in 1..(Len(paced) - overtaken[c]) : paced[i] <= request[c].since

GivenUpLate == \A n \in unpaced : n >= RpmLimit

LlmInv == LlmTyped /\ WindowSound /\ Spaced /\ WaitsCounted /\ GivenUpLate

LEMMA AgeAsBound ==
  ASSUME NEW a \in Nat, NEW b \in Nat, NEW m \in Nat
  PROVE  (a - b >= m <=> b < a - m + 1) /\ a - m + 1 \in Int
OBVIOUS

LEMMA Shifted ==
  ASSUME NEW m \in Nat, NEW n \in 0..m, NEW k \in Nat
  PROVE  /\ m - n \in 0..m /\ k + m - (m - n) = k + n
         /\ \A j \in 1..(m - n) : n + j \in 1..m /\ k + n + j = k + (n + j)
         /\ \A i \in 1..(k + n) : i \in 1..k \/ (i - k \in 1..n /\ i = k + (i - k) /\ i - k \in 1..m)
OBVIOUS

\* What is left of the window: the end of what was paced, after what is old.
LEMMA LastMinuteEffect ==
  ASSUME LlmInv
  PROVE  /\ LastMinute \in Seq(Nat) /\ Len(LastMinute) <= Len(paced)
         /\ \A j \in 1..Len(LastMinute) : LastMinute[j] = paced[Len(paced) - Len(LastMinute) + j]
         /\ \A i \in 1..(Len(paced) - Len(LastMinute)) : clock - paced[i] >= Minute
<1> DEFINE old == {i \in DOMAIN window : clock - window[i] >= Minute}
           m == Len(window)
           k == Forgotten
<1>1. /\ clock \in Nat /\ window \in Seq(Nat) /\ paced \in Seq(Nat) /\ Minute \in Nat
      /\ m \in Nat /\ k \in Nat /\ Len(paced) \in Nat /\ Len(paced) = k + m
      /\ Ascending(paced)
      /\ \A i \in 1..k : clock - paced[i] >= Minute
      /\ \A j \in 1..m : window[j] = paced[k + j] /\ window[j] \in Nat /\ k + j \in 1..Len(paced)
  <2>1. /\ clock \in Nat /\ window \in Seq(Nat) /\ paced \in Seq(Nat) /\ Minute \in Nat
        /\ Ascending(paced) /\ m <= Len(paced)
    BY LlmAssumption DEF LlmInv, LlmTyped
  <2>2. m \in Nat /\ Len(paced) \in Nat
    BY <2>1
  <2>3. k \in Nat /\ Len(paced) = k + m /\ \A j \in 1..m : k + j \in 1..Len(paced)
    BY <2>1, <2>2 DEF Forgotten
  <2>4. \A j \in 1..m : window[j] \in Nat
    BY <2>1
  <2> QED BY <2>1, <2>2, <2>3, <2>4 DEF LlmInv, WindowSound
<1> HIDE DEF m, k
<1>2. Ascending(window)
  <2> SUFFICES ASSUME NEW i \in 1..m, NEW j \in 1..m, i < j PROVE window[i] <= window[j]
    BY DEF Ascending, m
  <2>1. k + i \in 1..Len(paced) /\ k + j \in 1..Len(paced) /\ k + i < k + j
    BY <1>1
  <2>2. paced[k + i] <= paced[k + j]
    BY <1>1, <2>1 DEF Ascending
  <2> QED BY <1>1, <2>2
<1>3. old = {i \in DOMAIN window : window[i] < clock - Minute + 1}
  <2>1. DOMAIN window = 1..m
    BY <1>1 DEF m
  <2>2. \A i \in 1..m : clock - window[i] >= Minute <=> window[i] < clock - Minute + 1
    BY <1>1, AgeAsBound
  <2> QED BY <2>1, <2>2
<1>4. clock - Minute + 1 \in Int
  BY <1>1
<1>5. Cardinality(old) \in 0..m /\ \A i \in 1..Cardinality(old) : window[i] < clock - Minute + 1
  <2> HIDE DEF old
  <2> QED BY <1>1, <1>2, <1>3, <1>4, OldestFirst DEF m
<1> HIDE DEF old
<1>6. PICK n \in 0..m : n = Cardinality(old)
  BY <1>5
<1>7. LastMinute = SubSeq(window, n + 1, m)
  BY <1>6 DEF LastMinute, old, m
<1>8. /\ LastMinute \in Seq(Nat) /\ Len(LastMinute) = m - n
      /\ \A j \in 1..(m - n) : LastMinute[j] = window[n + j]
  <2>1. n + 1 \in 1..(Len(window) + 1) /\ m \in 0..Len(window)
    BY <1>1 DEF m
  <2> QED BY <1>1, <1>7, <2>1, SubSeqAt DEF m
<1>9. /\ m - n \in 0..m /\ k + m - (m - n) = k + n
      /\ \A j \in 1..(m - n) : n + j \in 1..m /\ k + n + j = k + (n + j)
      /\ \A i \in 1..(k + n) : i \in 1..k \/ (i - k \in 1..n /\ i = k + (i - k) /\ i - k \in 1..m)
  BY <1>1, Shifted
<1>10. \A j \in 1..Len(LastMinute) : LastMinute[j] = paced[Len(paced) - Len(LastMinute) + j]
  BY <1>1, <1>8, <1>9
<1>11. \A i \in 1..(k + n) : clock - paced[i] >= Minute
  <2> TAKE i \in 1..(k + n)
  <2>1. CASE i \in 1..k
    BY <1>1, <2>1
  <2>2. CASE i - k \in 1..n /\ i = k + (i - k) /\ i - k \in 1..m
    <3>1. window[i - k] = paced[i] /\ window[i - k] \in Nat
      BY <1>1, <2>2
    <3>2. window[i - k] < clock - Minute + 1
      BY <1>5, <1>6, <2>2
    <3> QED BY <1>1, <3>1, <3>2, AgeAsBound
  <2> QED BY <1>9, <2>1, <2>2
<1> QED BY <1>1, <1>8, <1>9, <1>10, <1>11

LEMMA LastFitted ==
  ASSUME NEW n \in Nat, NEW w \in Nat, NEW r \in Nat, w < r, NEW i \in Nat, i + r = n + 1
  PROVE  i <= n - w
OBVIOUS

LEMMA OneCallOlder ==
  ASSUME NEW n \in Nat, NEW over \in Nat, over <= n,
         NEW longer, longer = n + 1, NEW more, more = over + 1
  PROVE  longer - more = n - over /\ more <= longer
OBVIOUS

LEMMA OvertakenWhole ==
  ASSUME NEW n \in Nat, NEW w \in Nat, w <= n, NEW over \in Nat, NEW r \in Nat, r <= w, r > 0,
         ~(n - w + 1 <= n - over)
  PROVE  over >= r
OBVIOUS

\* A call gets a slot.
LEMMA PacedEffect ==
  ASSUME LlmInv, NEW c \in LlmCallers, request[c].step = "pace",
         Len(LastMinute) < RpmLimit, Reserve(c)
  PROVE  LlmInv'
<1> DEFINE n == Len(paced)
           w == Len(LastMinute)
           longer == Append(LastMinute, clock)
<1>1. /\ clock \in Nat /\ paced \in Seq(Nat) /\ n \in Nat /\ Ascending(paced) /\ UpTo(paced, clock)
      /\ request \in [LlmCallers -> Request] /\ overtaken \in [LlmCallers -> Nat]
      /\ unpaced \subseteq Nat /\ Spaced /\ WaitsCounted /\ GivenUpLate
      /\ RpmLimit \in Nat \ {0} /\ Minute \in Nat
  BY LlmAssumption DEF LlmInv, LlmTyped
<1>2. /\ LastMinute \in Seq(Nat) /\ w \in Nat /\ w <= n
      /\ \A j \in 1..w : LastMinute[j] = paced[n - w + j]
      /\ \A i \in 1..(n - w) : clock - paced[i] >= Minute
  <2>1. /\ LastMinute \in Seq(Nat) /\ w <= n
        /\ \A j \in 1..w : LastMinute[j] = paced[n - w + j]
        /\ \A i \in 1..(n - w) : clock - paced[i] >= Minute
    BY LastMinuteEffect, Zenon
  <2>2. w \in Nat
    BY <2>1
  <2> HIDE DEF w, n
  <2> QED BY <2>1, <2>2
<1>3. /\ window' = longer /\ paced' = Append(paced, clock)
      /\ overtaken' = [d \in LlmCallers |->
           IF d # c /\ request[d].step = "pace" THEN overtaken[d] + 1 ELSE overtaken[d]]
      /\ request' = [request EXCEPT ![c].step = "call"]
      /\ unpaced' = unpaced /\ clock' = clock
  BY DEF Reserve
<1>4. /\ paced' \in Seq(Nat) /\ Len(paced') = n + 1 /\ paced'[n + 1] = clock
      /\ UpTo(paced', clock) /\ Ascending(paced')
      /\ \A i \in 1..n : paced'[i] = paced[i]
  <2>1. /\ Append(paced, clock) \in Seq(Nat) /\ Len(Append(paced, clock)) = n + 1
        /\ Append(paced, clock)[Len(Append(paced, clock))] = clock
        /\ UpTo(Append(paced, clock), clock) /\ Ascending(Append(paced, clock))
    BY <1>1, AppendAscending
  <2>2. \A i \in 1..n : Append(paced, clock)[i] = paced[i]
    BY <1>1
  <2> QED BY <1>3, <2>1, <2>2
<1>5. /\ window' \in Seq(Nat) /\ Len(window') = w + 1 /\ window'[w + 1] = clock
      /\ \A j \in 1..w : window'[j] = LastMinute[j]
  BY <1>1, <1>2, <1>3
<1> HIDE DEF n, w, longer
<1>6. Len(window') <= Len(paced') /\ n + 1 - (w + 1) = n - w
  BY <1>1, <1>2, <1>4, <1>5
<1>7. request' \in [LlmCallers -> Request]
  BY <1>1, <1>3 DEF Request
<1>8. overtaken' \in [LlmCallers -> Nat]
  BY <1>1, <1>3
<1>9. LlmTyped'
  BY <1>1, <1>3, <1>4, <1>5, <1>6, <1>7, <1>8 DEF LlmTyped
<1>10. Forgotten' = n - w
  <2>1. Len(paced') = n + 1 /\ Len(window') = w + 1
    BY <1>4, <1>5
  <2>2. Forgotten' = Len(paced') - Len(window')
    BY DEF Forgotten
  <2>3. n \in Nat /\ w \in Nat
    BY <1>1, <1>2
  <2> QED BY <2>1, <2>2, <2>3
<1>11. WindowSound'
  <2>1. ASSUME NEW j \in 1..(w + 1) PROVE window'[j] = paced'[n - w + j]
    <3>1. CASE j = w + 1
      <4>1. n - w + (w + 1) = n + 1
        BY <1>1, <1>2
      <4> QED BY <1>4, <1>5, <3>1, <4>1
    <3>2. CASE j \in 1..w
      <4>1. n - w + j \in 1..n
        BY <1>1, <1>2, <3>2
      <4> QED BY <1>2, <1>4, <1>5, <3>2, <4>1
    <3> QED BY <1>2, <3>1, <3>2
  <2>2. ASSUME NEW i \in 1..(n - w) PROVE clock - paced'[i] >= Minute
    <3>1. i \in 1..n
      BY <1>1, <1>2
    <3> QED BY <1>2, <1>4, <3>1
  <2> QED BY <1>3, <1>5, <1>10, <2>1, <2>2 DEF WindowSound
<1>12. Spaced'
  <2> SUFFICES ASSUME NEW i \in 1..(n + 1), i + RpmLimit <= n + 1
               PROVE  paced'[i + RpmLimit] - paced'[i] >= Minute
    BY <1>4 DEF Spaced
  <2>1. i \in 1..n /\ i \in Nat
    BY <1>1
  <2>2. CASE i + RpmLimit = n + 1
    <3>1. i <= n - w
      BY <1>1, <1>2, <2>1, <2>2, LastFitted DEF w
    <3>2. i \in 1..(n - w)
      BY <1>1, <1>2, <2>1, <3>1
    <3>3. clock - paced[i] >= Minute
      BY <1>2, <3>2
    <3> QED BY <1>4, <2>1, <2>2, <3>3
  <2>3. CASE i + RpmLimit <= n
    <3>1. i + RpmLimit \in 1..n
      BY <1>1, <2>1, <2>3
    <3>2. paced[i + RpmLimit] - paced[i] >= Minute
      BY <1>1, <2>1, <2>3 DEF Spaced, n
    <3> QED BY <1>4, <2>1, <3>1, <3>2
  <2>4. i + RpmLimit = n + 1 \/ i + RpmLimit <= n
    BY <1>1, <2>1
  <2> QED BY <2>2, <2>3, <2>4
<1>13. ASSUME NEW d \in LlmCallers, request'[d].step = "pace"
       PROVE  /\ overtaken'[d] <= Len(paced')
              /\ \A i \in 1..(Len(paced') - overtaken'[d]) : paced'[i] <= request'[d].since
  <2>1. d # c
    BY <1>1, <1>3, <1>13 DEF Request
  <2>2. request'[d] = request[d] /\ overtaken'[d] = overtaken[d] + 1 /\ overtaken[d] \in Nat
    BY <1>1, <1>3, <1>13, <2>1
  <2>3. /\ overtaken[d] <= n
        /\ \A i \in 1..(n - overtaken[d]) : paced[i] <= request[d].since
    BY <1>1, <1>13, <2>2 DEF WaitsCounted, n
  <2>5. \A i \in 1..(n - overtaken[d]) : i \in 1..n
    BY <1>1, <2>2, <2>3
  <2>4. Len(paced') - overtaken'[d] = n - overtaken[d] /\ overtaken'[d] <= Len(paced')
    <3>1. Len(paced') = n + 1
      BY <1>4
    <3>2. overtaken'[d] = overtaken[d] + 1
      BY <2>2
    <3>3. n \in Nat /\ overtaken[d] \in Nat /\ overtaken[d] <= n
      BY <1>1, <2>2, <2>3
    <3> QED BY <3>1, <3>2, <3>3, OneCallOlder
  <2> QED BY <1>4, <2>2, <2>3, <2>4, <2>5
<1>15. WaitsCounted'
  BY <1>13 DEF WaitsCounted
<1>14. GivenUpLate'
  BY <1>1, <1>3 DEF GivenUpLate
<1> QED BY <1>9, <1>11, <1>12, <1>14, <1>15 DEF LlmInv

\* The window is full: the caller sleeps, or gives up, a minute's worth of
\* others having gone past it.
LEMMA FullEffect ==
  ASSUME LlmInv, NEW c \in LlmCallers, request[c].step = "pace",
         ~(Len(LastMinute) < RpmLimit), Reserve(c)
  PROVE  LlmInv'
<1> DEFINE n == Len(paced)
           w == Len(LastMinute)
<1>1. /\ clock \in Nat /\ paced \in Seq(Nat) /\ n \in Nat
      /\ request \in [LlmCallers -> Request] /\ overtaken \in [LlmCallers -> Nat]
      /\ unpaced \subseteq Nat /\ Spaced /\ WaitsCounted /\ GivenUpLate /\ LlmTyped
      /\ RpmLimit \in Nat \ {0} /\ Minute \in Nat /\ MaxWait \in Nat /\ MaxWait >= Minute
  BY LlmAssumption DEF LlmInv, LlmTyped
<1>2. /\ LastMinute \in Seq(Nat) /\ w \in Nat /\ w <= n
      /\ \A j \in 1..w : LastMinute[j] = paced[n - w + j]
      /\ \A i \in 1..(n - w) : clock - paced[i] >= Minute
  <2>1. /\ LastMinute \in Seq(Nat) /\ w <= n
        /\ \A j \in 1..w : LastMinute[j] = paced[n - w + j]
        /\ \A i \in 1..(n - w) : clock - paced[i] >= Minute
    BY LastMinuteEffect, Zenon
  <2>2. w \in Nat
    BY <2>1
  <2> HIDE DEF w, n
  <2> QED BY <2>1, <2>2
<1>3. /\ window' = LastMinute /\ UNCHANGED <<paced, overtaken, clock>>
      /\ IF SlotFrees > request[c].since + MaxWait
           THEN /\ request' = [request EXCEPT ![c].step = "call"]
                /\ unpaced' = unpaced \cup {overtaken[c]}
           ELSE /\ request' = [request EXCEPT ![c].until = SlotFrees]
                /\ UNCHANGED unpaced
  BY DEF Reserve
<1>4. w >= RpmLimit /\ w > 0
  BY <1>1, <1>2
<1>5. Head(LastMinute) = paced[n - w + 1] /\ Head(LastMinute) \in Nat /\ SlotFrees \in Nat
  <2>1. Head(LastMinute) = LastMinute[1] /\ 1 \in 1..w
    BY <1>2, <1>4
  <2>2. LastMinute[1] \in Nat
    BY <1>2, <2>1
  <2>3. LastMinute[1] = paced[n - w + 1]
    BY <1>2, <2>1
  <2>4. Head(LastMinute) \in Nat
    BY <2>1, <2>2
  <2>5. SlotFrees \in Nat
    BY <1>1, <2>4 DEF SlotFrees
  <2> QED BY <2>1, <2>3, <2>4, <2>5
<1> HIDE DEF n, w
<1>6. /\ request' \in [LlmCallers -> Request]
      /\ \A d \in LlmCallers : request'[d].step = "pace" =>
           request[d].step = "pace" /\ request'[d].since = request[d].since
  <2>1. CASE request' = [request EXCEPT ![c].step = "call"]
    BY <1>1, <2>1 DEF Request
  <2>2. CASE request' = [request EXCEPT ![c].until = SlotFrees]
    <3>1. request[c] \in Request
      BY <1>1
    <3>2. /\ request'[c] = [request[c] EXCEPT !.until = SlotFrees]
          /\ \A d \in LlmCallers \ {c} : request'[d] = request[d]
      BY <1>1, <2>2
    <3>3. /\ request'[c] \in Request /\ request'[c].since = request[c].since
          /\ request'[c].step = request[c].step
      BY <1>5, <3>1, <3>2 DEF Request
    <3> QED BY <1>1, <2>2, <3>2, <3>3
  <2> QED BY <1>3, <2>1, <2>2
<1>7. unpaced' \subseteq Nat /\ GivenUpLate'
  <2>1. CASE SlotFrees > request[c].since + MaxWait
    <3>1. request[c].since \in Nat /\ overtaken[c] \in Nat
      BY <1>1 DEF Request
    <3>2. paced[n - w + 1] > request[c].since
      BY <1>1, <1>5, <2>1, <3>1 DEF SlotFrees
    <3>3. /\ overtaken[c] <= n
          /\ \A i \in 1..(n - overtaken[c]) : paced[i] <= request[c].since
      BY <1>1 DEF WaitsCounted, n
    <3>4. ~(n - w + 1 <= n - overtaken[c])
      <4>1. SUFFICES ASSUME n - w + 1 <= n - overtaken[c] PROVE FALSE
        OBVIOUS
      <4>2. n - w + 1 \in 1..(n - overtaken[c])
        BY <1>1, <1>2, <3>1, <4>1
      <4>3. paced[n - w + 1] <= request[c].since
        BY <3>3, <4>2
      <4> QED BY <1>5, <3>1, <3>2, <4>3
    <3>5. overtaken[c] >= RpmLimit
      BY <1>1, <1>2, <1>4, <3>1, <3>4, OvertakenWhole
    <3> QED BY <1>1, <1>3, <2>1, <3>1, <3>5 DEF GivenUpLate
  <2>2. CASE ~(SlotFrees > request[c].since + MaxWait)
    BY <1>1, <1>3, <2>2 DEF GivenUpLate
  <2> QED BY <2>1, <2>2
<1>8. LlmTyped'
  BY <1>1, <1>2, <1>3, <1>6, <1>7 DEF LlmTyped, w, n
<1>9. WindowSound'
  BY <1>2, <1>3 DEF WindowSound, Forgotten, n, w
<1>10. Spaced' /\ WaitsCounted'
  BY <1>1, <1>3, <1>6 DEF Spaced, WaitsCounted
<1> QED BY <1>7, <1>8, <1>9, <1>10 DEF LlmInv

LEMMA AgesGrow ==
  ASSUME NEW a \in Nat, NEW later \in Nat, NEW b \in Nat, NEW m \in Nat, later >= a, a - b >= m
  PROVE  later - b >= m
OBVIOUS

LEMMA LlmStep == ASSUME LlmInv, [LlmNext]_llmVars PROVE LlmInv'
<1>1. /\ clock \in Nat /\ paced \in Seq(Nat) /\ request \in [LlmCallers -> Request]
      /\ overtaken \in [LlmCallers -> Nat] /\ UpTo(paced, clock) /\ LlmTyped /\ WindowSound
      /\ Spaced /\ WaitsCounted /\ GivenUpLate /\ Len(paced) \in Nat
  BY DEF LlmInv, LlmTyped
<1>2. ASSUME NEW c \in LlmCallers, Reserve(c) PROVE LlmInv'
  <2>1. request[c].step = "pace"
    BY <1>2 DEF Reserve
  <2> QED BY <1>2, <2>1, PacedEffect, FullEffect
<1>3. ASSUME NEW c \in LlmCallers, CallEnds(c) \/ CallAgain(c) PROVE LlmInv'
  <2>1. UNCHANGED <<clock, window, paced, overtaken, unpaced>>
    BY <1>3 DEF CallEnds, CallAgain
  <2>2. NoAsk \in Request /\ NoAsk.step # "pace"
    BY DEF NoAsk, Request
  <2>3. /\ request' \in [LlmCallers -> Request]
        /\ \A d \in LlmCallers : request'[d].step = "pace" => request'[d] = request[d]
    <3>1. CASE CallEnds(c)
      BY <1>1, <2>2, <3>1 DEF CallEnds
    <3>2. CASE CallAgain(c)
      <4>1. request' = [request EXCEPT ![c].tries = @ + 1] /\ request[c].step = "call"
        BY <3>2 DEF CallAgain
      <4>2. request[c] \in Request /\ request[c].tries + 1 \in Nat
        BY <1>1 DEF Request
      <4>3. /\ request'[c] = [request[c] EXCEPT !.tries = @ + 1]
            /\ \A d \in LlmCallers \ {c} : request'[d] = request[d]
        BY <1>1, <4>1
      <4>4. request'[c] \in Request /\ request'[c].step # "pace"
        BY <4>1, <4>2, <4>3 DEF Request
      <4> QED BY <1>1, <4>1, <4>3, <4>4
    <3> QED BY <1>3, <3>1, <3>2
  <2>4. LlmTyped' /\ WindowSound' /\ Spaced' /\ GivenUpLate'
    BY <1>1, <2>1, <2>3 DEF LlmTyped, WindowSound, Forgotten, Spaced, GivenUpLate
  <2>5. WaitsCounted'
    BY <1>1, <2>1, <2>3 DEF WaitsCounted
  <2> QED BY <2>4, <2>5 DEF LlmInv
<1>4. ASSUME NEW c \in LlmCallers, NEW kind \in Kinds, AskModel(c, kind) PROVE LlmInv'
  <2>1. /\ UNCHANGED <<clock, window, paced, unpaced>>
        /\ request' = [request EXCEPT ![c] =
             [kind |-> kind, step |-> IF kind = "claude" THEN "pace" ELSE "call",
              since |-> clock, until |-> clock, tries |-> 0]]
        /\ overtaken' = [overtaken EXCEPT ![c] = 0]
    BY <1>4 DEF AskModel
  <2>2. /\ request' \in [LlmCallers -> Request] /\ overtaken' \in [LlmCallers -> Nat]
        /\ request'[c].since = clock /\ overtaken'[c] = 0
        /\ \A d \in LlmCallers \ {c} : request'[d] = request[d] /\ overtaken'[d] = overtaken[d]
    BY <1>1, <2>1 DEF Request
  <2>3. LlmTyped' /\ WindowSound' /\ Spaced' /\ GivenUpLate'
    BY <1>1, <2>1, <2>2 DEF LlmTyped, WindowSound, Forgotten, Spaced, GivenUpLate
  <2>4. WaitsCounted'
    <3> SUFFICES ASSUME NEW d \in LlmCallers, request'[d].step = "pace"
                 PROVE  /\ overtaken'[d] <= Len(paced)
                        /\ \A i \in 1..(Len(paced) - overtaken'[d]) : paced[i] <= request'[d].since
      BY <2>1 DEF WaitsCounted
    <3>1. CASE d = c
      BY <1>1, <2>2, <3>1 DEF UpTo
    <3>2. CASE d # c
      BY <1>1, <2>2, <3>2 DEF WaitsCounted
    <3> QED BY <3>1, <3>2
  <2> QED BY <2>3, <2>4 DEF LlmInv
<1>5. CASE LlmClock \/ UNCHANGED llmVars
  <2>1. UNCHANGED <<window, request, paced, overtaken, unpaced>> /\ clock' \in Nat /\ clock' >= clock
    BY <1>1, <1>5 DEF LlmClock, llmVars
  <2>2. UpTo(paced, clock')
    BY <1>1, <2>1 DEF UpTo
  <2>3. LlmTyped' /\ Spaced' /\ GivenUpLate' /\ WaitsCounted'
    BY <1>1, <2>1, <2>2 DEF LlmTyped, Spaced, GivenUpLate, WaitsCounted
  <2>4. \A i \in 1..Forgotten : clock' - paced[i] >= Minute
    <3> TAKE i \in 1..Forgotten
    <3>1. i \in 1..Len(paced)
      BY <1>1 DEF LlmTyped, Forgotten
    <3>2. clock - paced[i] >= Minute /\ paced[i] \in Nat /\ Minute \in Nat
      BY <1>1, <3>1, LlmAssumption DEF WindowSound
    <3> QED BY <1>1, <2>1, <3>2, AgesGrow
  <2>5. WindowSound'
    BY <1>1, <2>1, <2>4 DEF WindowSound, Forgotten
  <2> QED BY <2>3, <2>5 DEF LlmInv
<1> QED BY <1>2, <1>3, <1>4, <1>5 DEF LlmNext

\* A minute of calls that are spaced holds no more than the limit.
LEMMA SpacedWithinLimit ==
  ASSUME LlmInv, NEW t \in Nat
  PROVE  Cardinality({i \in DOMAIN paced : paced[i] \in t..t + Minute - 1}) <= RpmLimit
<1> DEFINE I == {i \in DOMAIN paced : paced[i] \in t..t + Minute - 1}
<1>1. /\ paced \in Seq(Nat) /\ Len(paced) \in Nat /\ DOMAIN paced = 1..Len(paced)
      /\ Ascending(paced) /\ Spaced /\ RpmLimit \in Nat \ {0} /\ Minute \in Nat
      /\ \A i \in 1..Len(paced) : paced[i] \in Nat
  BY LlmAssumption DEF LlmInv, LlmTyped
<1>2. I \subseteq 1..Len(paced) /\ \A i \in I : t <= paced[i] /\ paced[i] <= t + Minute - 1
  BY <1>1
<1> HIDE DEF I
<1>3. CASE I = {}
  <2>1. Cardinality(I) = 0
    BY <1>3, FS_EmptySet
  <2>2. Cardinality(I) <= RpmLimit
    BY <1>1, <2>1
  <2> QED BY <2>2 DEF I
<1>4. CASE I # {}
  <2>1. I \in SUBSET Nat
    BY <1>1, <1>2
  <2>2. PICK k \in I : \A j \in I : k <= j
    BY <1>4, <2>1, LeastNumber
  <2>3. k \in 1..Len(paced) /\ k \in Nat
    BY <1>1, <1>2, <2>2
  <2>4. ASSUME NEW j \in I PROVE j \in k..(k + RpmLimit - 1)
    <3>1. j \in 1..Len(paced) /\ k <= j
      BY <1>2, <2>2
    <3>2. ASSUME j >= k + RpmLimit PROVE FALSE
      <4>1. k + RpmLimit \in 1..Len(paced)
        BY <1>1, <2>3, <3>1, <3>2
      <4>2. paced[k + RpmLimit] - paced[k] >= Minute
        BY <1>1, <2>3, <4>1 DEF Spaced
      <4>3. paced[k + RpmLimit] <= paced[j]
        <5>1. CASE j = k + RpmLimit
          BY <1>1, <4>1, <5>1
        <5>2. CASE k + RpmLimit < j
          BY <1>1, <3>1, <4>1, <5>2 DEF Ascending
        <5> QED BY <1>1, <2>3, <3>1, <3>2, <5>1, <5>2
      <4>4. paced[k] >= t /\ paced[j] <= t + Minute - 1
        BY <1>2, <2>2
      <4>5. paced[k] \in Nat /\ paced[j] \in Nat /\ paced[k + RpmLimit] \in Nat
        BY <1>1, <2>3, <3>1, <4>1
      <4> QED BY <1>1, <4>2, <4>3, <4>4, <4>5
    <3> QED BY <1>1, <2>3, <3>1, <3>2
  <2>5. I \subseteq k..(k + RpmLimit - 1)
    BY <2>4
  <2>6. IsFiniteSet(k..(k + RpmLimit - 1)) /\ Cardinality(k..(k + RpmLimit - 1)) = RpmLimit
    <3>1. k + RpmLimit - 1 \in Int /\ ~(k > k + RpmLimit - 1) /\ k + RpmLimit - 1 - k + 1 = RpmLimit
      BY <1>1, <2>3
    <3> DEFINE e == k + RpmLimit - 1
    <3>2. k \in Int /\ e \in Int
      BY <2>3, <3>1
    <3> HIDE DEF e
    <3>3. IsFiniteSet(k..e) /\ Cardinality(k..e) = IF k > e THEN 0 ELSE e - k + 1
      BY <3>2, FS_Interval
    <3>4. ~(k > e) /\ e - k + 1 = RpmLimit
      BY <1>1, <2>3 DEF e
    <3>5. Cardinality(k..e) = RpmLimit
      BY <3>3, <3>4
    <3> QED BY <3>3, <3>5 DEF e
  <2>7. Cardinality(I) <= RpmLimit
    BY <2>5, <2>6, FS_Subset
  <2> QED BY <2>7 DEF I
<1> QED BY <1>3, <1>4

\* The window of the pacer holds the calls of the last minute, oldest first, and
\* what the history keeps it knows, whatever the callers do (llm/wrapper.py,
\* _pacer_reserve).
THEOREM LlmInvariant == LlmSpec => []LlmInv
<1>1. ASSUME LlmInit PROVE LlmInv
  <2>1. NoAsk \in Request /\ NoAsk.step # "pace"
    BY DEF NoAsk, Request
  <2>2. <<>> \in Seq(Nat) /\ Ascending(<<>>) /\ UpTo(<<>>, 0) /\ Len(<<>>) = 0
    BY DEF Ascending, UpTo
  <2>3. LlmTyped
    BY <1>1, <2>1, <2>2 DEF LlmInit, LlmTyped
  <2>4. WindowSound /\ Spaced
    BY <1>1, <2>2 DEF LlmInit, WindowSound, Forgotten, Spaced
  <2>5. WaitsCounted /\ GivenUpLate
    BY <1>1, <2>1 DEF LlmInit, WaitsCounted, GivenUpLate
  <2> QED BY <2>3, <2>4, <2>5 DEF LlmInv
<1> QED BY <1>1, LlmStep, PTL DEF LlmSpec

\* No minute has more paced calls than the limit, for any number of callers, any
\* limit and any waits (llm/wrapper.py, _pacer_reserve, _bedrock_pace_async).
THEOREM PacedWithinLimitHolds == LlmSpec => []PacedWithinLimit
<1>1. ASSUME LlmInv PROVE PacedWithinLimit
  <2>1. \A t \in 0..clock : t \in Nat
    BY <1>1 DEF LlmInv, LlmTyped
  <2>2. GivenUpLate
    BY <1>1 DEF LlmInv
  <2> QED BY <1>1, <2>1, <2>2, SpacedWithinLimit DEF PacedWithinLimit, GivenUpLate
<1> QED BY <1>1, LlmInvariant, PTL

-----------------------------------------------------------------------------
(* CommodityShocks.                                                        *)

LEMMA ShockConstants ==
  /\ CommitLag \in Nat /\ ShockCooldown \in Nat /\ Baseline \in Nat
  /\ MaxStep \in Nat \ {0} /\ MinSamples \in Nat \ {0} /\ Window \in Nat \ {0}
  /\ MinSamples * Window \in Nat /\ ShockCooldown + CommitLag <= MinSamples * Window
  /\ LongBefore \in Int
BY ShockAssumption DEF LongBefore

LEMMA Products ==
  ASSUME NEW W \in Nat \ {0}, NEW a \in Int, NEW b \in Int
  PROVE  /\ a * W \in Int /\ b * W \in Int /\ (a - b) * W = a * W - b * W
         /\ a <= b => a * W <= b * W
<1>1. a * W \in Int /\ b * W \in Int /\ (a - b) * W = a * W - b * W
  OBVIOUS
<1>2. ASSUME a <= b PROVE a * W <= b * W
  <2>1. PICK d \in Nat : b = a + d
    <3>1. b - a \in Nat /\ b = a + (b - a)
      BY <1>2
    <3> QED BY <3>1
  <2>2. d * W \in Nat
    OBVIOUS
  <2>3. (a + d) * W = a * W + d * W
    OBVIOUS
  <2> QED BY <2>1, <2>2, <2>3
<1> QED BY <1>1, <1>2

LEMMA Quotient ==
  ASSUME NEW B \in Nat, NEW W \in Nat \ {0}
  PROVE  B \div W \in Nat /\ (B \div W) * W <= B
OBVIOUS

\* A grid point at or after a bound is one of the last points of the grid.
LEMMA LatePoint ==
  ASSUME NEW W \in Nat \ {0}, NEW B \in Nat, NEW M \in Nat \ {0}, NEW now_ \in Nat,
         NEW head \in Int, head > now_ - M * W, NEW n \in 0..(B \div W),
         head <= now_ - W - B + n * W
  PROVE  n >= (B \div W) - M + 2
<1>1. PICK q \in Nat : q = B \div W /\ q * W <= B
  BY Quotient
<1>2. n \in Nat /\ n <= q
  BY <1>1
<1>3. SUFFICES ASSUME n <= q - M + 1 PROVE FALSE
  BY <1>1, <1>2
<1>4. /\ n * W \in Int /\ (q - M + 1) * W \in Int
      /\ n * W <= (q - M + 1) * W
  BY <1>1, <1>2, <1>3, Products
<1>5. (q - M + 1) * W = q * W - M * W + W /\ q * W \in Int /\ M * W \in Int
  BY <1>1
<1> QED BY <1>1, <1>4, <1>5

\* As many prices on the grid as make a volatility: the oldest price is as many
\* windows old.
LEMMA SamplesAreOld ==
  ASSUME NEW kept \in Seq(Nat), NEW t \in Nat, EnoughSamples(kept, t)
  PROVE  kept # <<>> /\ Head(kept) <= t - MinSamples * Window
<1> DEFINE q    == Baseline \div Window
           Point(n) == t - Window - Baseline + n * Window
           grid == {Point(n) : n \in 0..q}
           T    == {g \in grid : HasPrice(kept, g)}
           I    == (q - MinSamples + 2)..q
           f    == [n \in I |-> Point(n)]
<1>1. Cardinality(T) >= MinSamples
  BY DEF EnoughSamples
<1>2. q \in Nat /\ MinSamples \in Nat \ {0} /\ Window \in Nat \ {0} /\ Baseline \in Nat
  BY Quotient, ShockConstants
<1>3. IsFiniteSet(I) /\ Cardinality(I) = MinSamples - 1
  <2>1. q - MinSamples + 2 \in Int /\ q \in Int
    BY <1>2
  <2>2. IsFiniteSet(I) /\ Cardinality(I) = IF q - MinSamples + 2 > q THEN 0 ELSE q - (q - MinSamples + 2) + 1
    <3> HIDE DEF q
    <3> QED BY <2>1, FS_Interval
  <2> HIDE DEF q
  <2>3. (IF q - MinSamples + 2 > q THEN 0 ELSE q - (q - MinSamples + 2) + 1) = MinSamples - 1
    BY <1>2
  <2> QED BY <2>2, <2>3
<1>4. kept # <<>>
  <2>1. SUFFICES ASSUME kept = <<>> PROVE FALSE
    OBVIOUS
  <2>2. T = {}
    BY <2>1 DEF HasPrice
  <2>3. Cardinality(T) = 0
    BY <2>2, FS_EmptySet
  <2> HIDE DEF T
  <2> QED BY <1>1, <1>2, <2>3
<1>5. Head(kept) \in Nat /\ MinSamples * Window \in Nat
  BY <1>2, <1>4
<1>6. ASSUME Head(kept) > t - MinSamples * Window PROVE FALSE
  <2>1. ASSUME NEW g \in T PROVE \E n \in I : g = Point(n)
    <3>1. PICK n \in 0..q : g = Point(n)
      OBVIOUS
    <3>2. Head(kept) <= Point(n)
      BY <3>1 DEF HasPrice
    <3>3. n >= q - MinSamples + 2
      <4>1. /\ Head(kept) \in Int /\ Head(kept) > t - MinSamples * Window
            /\ Head(kept) <= t - Window - Baseline + n * Window
        BY <1>5, <1>6, <3>2
      <4>2. /\ Window \in Nat \ {0} /\ Baseline \in Nat /\ MinSamples \in Nat \ {0}
            /\ n \in 0..(Baseline \div Window)
        BY <1>2
      <4> HIDE DEF Point
      <4>3. n >= (Baseline \div Window) - MinSamples + 2
        BY <4>1, <4>2, LatePoint
      <4> QED BY <4>3
    <3>4. n \in I
      <4> HIDE DEF q
      <4> QED BY <1>2, <3>3
    <3> QED BY <3>1, <3>4
  <2> HIDE DEF T, I
  <2> DEFINE S == {f[n] : n \in I}
  <2>2. f \in Surjection(I, S)
    BY DEF Surjection
  <2>3. IsFiniteSet(S) /\ Cardinality(S) <= Cardinality(I)
    <3> HIDE DEF f, S
    <3> QED BY <1>3, <2>2, FS_Surjection
  <2>4. T \subseteq S
    BY <2>1
  <2>5. Cardinality(T) <= Cardinality(S) /\ Cardinality(T) \in Nat /\ Cardinality(S) \in Nat
    <3> HIDE DEF S
    <3> QED BY <2>3, <2>4, FS_Subset, FS_CardinalityType
  <2> HIDE DEF S
  <2> QED BY <1>1, <1>2, <1>3, <2>3, <2>5
<1> QED BY <1>4, <1>5, <1>6

-----------------------------------------------------------------------------

ShockTyped ==
  /\ ticks \in Seq(Nat) /\ Ascending(ticks)
  /\ committed \in Nat /\ position \in Nat /\ committed <= position /\ position <= Len(ticks)
  /\ history \in Seq(Nat) /\ lastShock \in Int
  /\ fired \in Seq(Nat)

\* A shock is never ahead of the ticks,
FiredOfTicks ==
  \A i \in 1..Len(fired) : Len(ticks) > 0 /\ fired[i] <= ticks[Len(ticks)]

\* ... and ticks that may still come, or come again, are not much older,
LittleComesAgain ==
  \A i \in 1..Len(fired) : \A p \in 1..Len(ticks) :
    p > committed => ticks[p] >= fired[i] - CommitLag

\* ... nor are the prices a detector knows that has forgotten the shock.
KnownSince(h, f) == \A j \in 1..Len(h) : h[j] >= f - CommitLag
ShocksRemembered ==
  \A i \in 1..Len(fired) : fired[i] <= lastShock \/ KnownSince(history, fired[i])

ShockInv ==
  ShockTyped /\ FiredOfTicks /\ LittleComesAgain /\ ShocksRemembered /\ ShocksSpaced

\* What is evicted is the beginning of the history.
LEMMA EvictedPart ==
  ASSUME NEW s \in Seq(Nat), NEW t \in Nat
  PROVE  /\ Evicted(s, t) \in Seq(Nat)
         /\ \A j \in 1..Len(Evicted(s, t)) : \E i \in 1..Len(s) : Evicted(s, t)[j] = s[i]
<1> DEFINE young == {i \in DOMAIN s : s[i] >= t - Window - Baseline - 1}
           first == CHOOSE i \in young : \A j \in young : i <= j
<1>1. DOMAIN s = 1..Len(s) /\ Len(s) \in Nat
  OBVIOUS
<1>2. CASE young = {}
  <2>1. Evicted(s, t) = <<>>
    BY <1>2 DEF Evicted
  <2> QED BY <2>1
<1>3. CASE young # {}
  <2>1. young \in SUBSET Nat /\ young \subseteq 1..Len(s)
    BY <1>1
  <2>2. \E i \in young : \A j \in young : i <= j
    <3> HIDE DEF young
    <3> QED BY <1>3, <2>1, LeastNumber
  <2>3. first \in young
    <3> HIDE DEF young
    <3> QED BY <2>2
  <2>4. Evicted(s, t) = SubSeq(s, first, Len(s))
    BY <1>3 DEF Evicted
  <2> HIDE DEF young, first
  <2>5. PICK k \in 1..Len(s) : k = first
    BY <2>1, <2>3
  <2>6. /\ SubSeq(s, k, Len(s)) \in Seq(Nat) /\ Len(SubSeq(s, k, Len(s))) = Len(s) - k + 1
        /\ \A j \in 1..Len(SubSeq(s, k, Len(s))) : SubSeq(s, k, Len(s))[j] = s[k + j - 1]
    <3>1. k \in 1..(Len(s) + 1) /\ Len(s) \in 0..Len(s) /\ k <= Len(s)
      BY <1>1
    <3> QED BY <3>1, SubSeqAt
  <2>7. \A j \in 1..(Len(s) - k + 1) : k + j - 1 \in 1..Len(s)
    BY <1>1
  <2> QED BY <2>4, <2>5, <2>6, <2>7
<1> QED BY <1>2, <1>3

LEMMA WholeCooldown ==
  ASSUME NEW f \in Nat, NEW h \in Nat, NEW t \in Nat, NEW lag \in Nat, NEW cool \in Nat, NEW old \in Nat,
         h <= t - old, h >= f - lag, cool + lag <= old
  PROVE  t - f >= cool
OBVIOUS

LEMMA EvaluateStep == ASSUME ShockInv, Evaluate PROVE ShockInv'
<1>1. /\ ticks \in Seq(Nat) /\ Ascending(ticks) /\ committed \in Nat /\ position \in Nat
      /\ committed <= position /\ position < Len(ticks) /\ history \in Seq(Nat)
      /\ lastShock \in Int /\ fired \in Seq(Nat) /\ Len(ticks) \in Nat /\ Len(fired) \in Nat
      /\ ticks[position + 1] - ticks[committed + 1] <= CommitLag
      /\ position' = position + 1 /\ UNCHANGED <<ticks, committed>>
      /\ FiredOfTicks /\ LittleComesAgain /\ ShocksRemembered /\ ShocksSpaced
      /\ CommitLag \in Nat /\ ShockCooldown \in Nat
  BY ShockConstants DEF ShockInv, ShockTyped, Evaluate
<1>2. position + 1 \in 1..Len(ticks) /\ committed + 1 \in 1..Len(ticks) /\ position + 1 > committed
  BY <1>1
<1>3. PICK t \in Nat : t = ticks[position + 1]
  BY <1>1, <1>2
<1> DEFINE s    == Append(history, t)
           kept == Evicted(s, t)
<1>0. lastShock \in Int /\ ShockCooldown \in Nat /\ CommitLag \in Nat
  BY <1>1
<1>4. /\ history' = kept
      /\ \/ UNCHANGED <<lastShock, fired>>
         \/ /\ t - lastShock >= ShockCooldown /\ EnoughSamples(kept, t)
            /\ lastShock' = t /\ fired' = Append(fired, t)
  BY <1>3 DEF Evaluate
<1> HIDE DEF kept
<1>5. s \in Seq(Nat) /\ \A i \in 1..Len(s) : s[i] = t \/ \E j \in 1..Len(history) : s[i] = history[j]
  <2>1. history \in Seq(Nat)
    BY <1>1
  <2>2. /\ s \in Seq(Nat) /\ Len(s) = Len(history) + 1 /\ Len(history) \in Nat
        /\ s[Len(history) + 1] = t /\ \A i \in 1..Len(history) : s[i] = history[i]
    BY <2>1
  <2>3. \A i \in 1..Len(s) : i \in 1..Len(history) \/ i = Len(history) + 1
    BY <2>2
  <2> HIDE DEF s
  <2> QED BY <2>2, <2>3
<1> HIDE DEF s
<1> USE DEF kept
<1>6. kept \in Seq(Nat) /\ \A j \in 1..Len(kept) : \E i \in 1..Len(s) : kept[j] = s[i]
  BY <1>5, EvictedPart
<1> HIDE DEF kept
<1>7. \A f \in Nat : KnownSince(history, f) /\ t >= f - CommitLag => KnownSince(kept, f)
  BY <1>5, <1>6 DEF KnownSince
<1>8. \A i \in 1..Len(fired) : fired[i] \in Nat /\ t >= fired[i] - CommitLag
  <2> TAKE i \in 1..Len(fired)
  <2>1. ticks[position + 1] >= fired[i] - CommitLag
    BY <1>1, <1>2 DEF LittleComesAgain
  <2>2. fired[i] \in Nat
    BY <1>1
  <2> QED BY <1>3, <2>1, <2>2
<1>9. \A i \in 1..Len(fired) : fired[i] <= lastShock \/ KnownSince(kept, fired[i])
  BY <1>1, <1>7, <1>8 DEF ShocksRemembered
<1>10. CASE UNCHANGED <<lastShock, fired>>
  <2>1. ShockTyped'
    BY <1>1, <1>4, <1>6, <1>10 DEF ShockTyped
  <2>2. ShocksRemembered'
    BY <1>4, <1>9, <1>10 DEF ShocksRemembered
  <2>3. FiredOfTicks' /\ LittleComesAgain' /\ ShocksSpaced'
    BY <1>1, <1>10 DEF FiredOfTicks, LittleComesAgain, ShocksSpaced
  <2> QED BY <2>1, <2>2, <2>3 DEF ShockInv
<1>11. CASE /\ t - lastShock >= ShockCooldown /\ EnoughSamples(kept, t)
            /\ lastShock' = t /\ fired' = Append(fired, t)
  <2>1. /\ fired' \in Seq(Nat) /\ Len(fired') = Len(fired) + 1 /\ fired'[Len(fired) + 1] = t
        /\ \A i \in 1..Len(fired) : fired'[i] = fired[i]
        /\ \A i \in 1..Len(fired') : i \in 1..Len(fired) \/ i = Len(fired) + 1
        /\ DOMAIN fired' = 1..(Len(fired) + 1)
    BY <1>1, <1>11
  <2>2. kept # <<>> /\ Head(kept) <= t - MinSamples * Window
    BY <1>6, <1>11, SamplesAreOld
  <2>3. Head(kept) = kept[1] /\ 1 \in 1..Len(kept) /\ Head(kept) \in Nat
    BY <1>6, <2>2
  <2>4. ASSUME NEW i \in 1..Len(fired) PROVE t - fired[i] >= ShockCooldown
    <3>1. fired[i] \in Nat
      BY <1>8
    <3>2. CASE fired[i] <= lastShock
      BY <1>0, <1>11, <3>1, <3>2
    <3>3. CASE KnownSince(kept, fired[i])
      <4>1. Head(kept) >= fired[i] - CommitLag
        BY <2>3, <3>3 DEF KnownSince
      <4>2. MinSamples * Window \in Nat /\ ShockCooldown + CommitLag <= MinSamples * Window
        BY ShockConstants
      <4> QED BY <1>1, <2>2, <2>3, <3>1, <4>1, <4>2, WholeCooldown
    <3> QED BY <1>9, <3>2, <3>3
  <2>5. ShockTyped'
    BY <1>1, <1>4, <1>6, <1>11, <2>1 DEF ShockTyped
  <2>6. \A i \in 1..Len(fired) : fired[i] <= t
    BY <1>0, <1>8, <2>4
  <2>7. ShocksRemembered'
    BY <1>8, <1>11, <2>1, <2>6 DEF ShocksRemembered
  <2>8. t <= ticks[Len(ticks)]
    <3>1. CASE position + 1 = Len(ticks)
      BY <1>3, <3>1
    <3>2. CASE position + 1 < Len(ticks)
      <4>1. Len(ticks) \in 1..Len(ticks)
        BY <1>1
      <4> QED BY <1>1, <1>2, <1>3, <3>2, <4>1 DEF Ascending
    <3> QED BY <1>2, <3>1, <3>2
  <2>9. FiredOfTicks'
    <3>1. \A i \in 1..Len(fired) : Len(ticks) > 0 /\ fired[i] <= ticks[Len(ticks)]
      BY <1>1 DEF FiredOfTicks
    <3>2. Len(ticks) > 0 /\ ticks' = ticks
      BY <1>1
    <3> QED BY <2>1, <2>8, <3>1, <3>2 DEF FiredOfTicks
  <2>10. \A p \in 1..Len(ticks) : p > committed => ticks[p] >= t - CommitLag
    <3> TAKE p \in 1..Len(ticks)
    <3> HAVE p > committed
    <3>1. ticks[committed + 1] <= ticks[p] /\ ticks[p] \in Nat /\ ticks[committed + 1] \in Nat
      <4>1. CASE p = committed + 1
        BY <1>1, <1>2, <4>1
      <4>2. CASE committed + 1 < p
        BY <1>1, <1>2, <4>2 DEF Ascending
      <4> QED BY <1>1, <4>1, <4>2
    <3>2. ticks[position + 1] - ticks[committed + 1] <= CommitLag
      BY <1>1
    <3> QED BY <1>0, <1>3, <3>1, <3>2
  <2>11. LittleComesAgain'
    BY <1>1, <2>1, <2>10 DEF LittleComesAgain
  <2>12. ShocksSpaced'
    <3> SUFFICES ASSUME NEW i \in 1..(Len(fired) + 1), NEW j \in 1..(Len(fired) + 1), i < j
                 PROVE  fired'[j] - fired'[i] >= ShockCooldown
      BY <2>1 DEF ShocksSpaced
    <3>1. i \in 1..Len(fired) /\ DOMAIN fired = 1..Len(fired)
      BY <1>1
    <3>2. CASE j = Len(fired) + 1
      BY <2>1, <2>4, <3>1, <3>2
    <3>3. CASE j \in 1..Len(fired)
      BY <1>1, <2>1, <3>1, <3>3 DEF ShocksSpaced
    <3>4. j \in 1..Len(fired) \/ j = Len(fired) + 1
      BY <2>1
    <3> QED BY <3>2, <3>3, <3>4
  <2> QED BY <2>5, <2>7, <2>9, <2>11, <2>12 DEF ShockInv
<1> QED BY <1>4, <1>10, <1>11

LEMMA TicksStep == ASSUME ShockInv, Ticks PROVE ShockInv'
<1>1. /\ ticks \in Seq(Nat) /\ Ascending(ticks) /\ Len(ticks) \in Nat /\ fired \in Seq(Nat)
      /\ FiredOfTicks /\ LittleComesAgain /\ ShocksRemembered /\ ShocksSpaced /\ ShockTyped
      /\ UNCHANGED <<position, committed, history, lastShock, fired>>
      /\ CommitLag \in Nat
      /\ \A i \in 1..Len(fired) : fired[i] \in Nat
  BY ShockConstants DEF ShockInv, ShockTyped, Ticks
<1>2. PICK pause \in 1..MaxStep : ticks' = Append(ticks, LatestTick + pause)
  BY DEF Ticks
<1>3. /\ LatestTick \in Nat /\ UpTo(ticks, LatestTick)
      /\ Len(ticks) > 0 => LatestTick = ticks[Len(ticks)]
  <2>1. CASE ticks = <<>>
    BY <2>1 DEF LatestTick, UpTo
  <2>2. CASE ticks # <<>>
    <3>1. Len(ticks) \in 1..Len(ticks) /\ LatestTick = ticks[Len(ticks)]
      BY <1>1, <2>2 DEF LatestTick, Last
    <3>2. \A i \in 1..Len(ticks) : ticks[i] <= ticks[Len(ticks)]
      <4> TAKE i \in 1..Len(ticks)
      <4>1. ticks[i] \in Nat /\ (i = Len(ticks) \/ i < Len(ticks))
        BY <1>1
      <4> QED BY <1>1, <3>1, <4>1 DEF Ascending
    <3>3. ticks[Len(ticks)] \in Nat
      BY <1>1, <3>1
    <3> QED BY <3>1, <3>2, <3>3 DEF UpTo
  <2> QED BY <2>1, <2>2
<1>4. PICK t \in Nat : t = LatestTick + pause /\ t >= LatestTick
  BY <1>3, ShockConstants
<1>5. UpTo(ticks, t)
  BY <1>1, <1>3, <1>4 DEF UpTo
<1>6. /\ ticks' \in Seq(Nat) /\ Len(ticks') = Len(ticks) + 1 /\ Ascending(ticks')
      /\ ticks'[Len(ticks) + 1] = t
  <2>1. ticks' = Append(ticks, t)
    BY <1>2, <1>4
  <2>2. /\ Append(ticks, t) \in Seq(Nat) /\ Len(Append(ticks, t)) = Len(ticks) + 1
        /\ Append(ticks, t)[Len(Append(ticks, t))] = t /\ Ascending(Append(ticks, t))
    BY <1>1, <1>5, AppendAscending
  <2> QED BY <2>1, <2>2
<1>7. \A p \in 1..(Len(ticks) + 1) : p = Len(ticks) + 1 \/ (p \in 1..Len(ticks) /\ ticks'[p] = ticks[p])
  BY <1>1, <1>2
<1>8. \A i \in 1..Len(fired) : fired[i] <= t
  BY <1>1, <1>3, <1>4 DEF FiredOfTicks
<1>9. ShockTyped'
  BY <1>1, <1>6 DEF ShockTyped
<1>10. FiredOfTicks'
  BY <1>1, <1>6, <1>8 DEF FiredOfTicks
<1>11. LittleComesAgain'
  <2> SUFFICES ASSUME NEW i \in 1..Len(fired), NEW p \in 1..(Len(ticks) + 1), p > committed
               PROVE  ticks'[p] >= fired[i] - CommitLag
    BY <1>1, <1>6 DEF LittleComesAgain
  <2>1. CASE p = Len(ticks) + 1
    BY <1>1, <1>6, <1>8, <2>1
  <2>2. CASE p \in 1..Len(ticks) /\ ticks'[p] = ticks[p]
    BY <1>1, <2>2 DEF LittleComesAgain
  <2> QED BY <1>7, <2>1, <2>2
<1>12. ShocksRemembered' /\ ShocksSpaced'
  BY <1>1 DEF ShocksRemembered, ShocksSpaced
<1> QED BY <1>9, <1>10, <1>11, <1>12 DEF ShockInv

LEMMA OtherShockSteps ==
  ASSUME ShockInv,
         \/ Commit \/ Rebalance \/ EngineRestarts \/ UNCHANGED shockVars
         \/ \E target \in Targets : Emit(target)
  PROVE  ShockInv'
<1>1. ShockTyped /\ FiredOfTicks /\ LittleComesAgain /\ ShocksRemembered /\ ShocksSpaced
  BY DEF ShockInv
<1>2. /\ UNCHANGED <<ticks, fired>>
      /\ committed' \in {committed, position} /\ position' \in {committed, position}
      /\ committed' <= position' /\ committed' >= committed
      /\ \/ UNCHANGED <<history, lastShock>>
         \/ history' = <<>> /\ lastShock' = LongBefore
  BY <1>1 DEF ShockTyped, Commit, Rebalance, EngineRestarts, shockVars, Emit
<1>3. LongBefore \in Int
  BY ShockConstants
<1>4. ShockTyped'
  <2>1. committed' \in Nat /\ position' \in Nat /\ position' <= Len(ticks)
    BY <1>1, <1>2 DEF ShockTyped
  <2>2. history' \in Seq(Nat) /\ lastShock' \in Int
    <3>1. history \in Seq(Nat) /\ lastShock \in Int /\ <<>> \in Seq(Nat)
      BY <1>1 DEF ShockTyped
    <3> QED BY <1>2, <1>3, <3>1
  <2> QED BY <1>1, <1>2, <2>1, <2>2 DEF ShockTyped
<1>5. FiredOfTicks' /\ ShocksSpaced'
  BY <1>1, <1>2 DEF FiredOfTicks, ShocksSpaced
<1>6. LittleComesAgain'
  <2>1. \A p \in 1..Len(ticks) : p > committed' => p > committed
    BY <1>1, <1>2 DEF ShockTyped
  <2> QED BY <1>1, <1>2, <2>1 DEF LittleComesAgain
<1>7. ShocksRemembered'
  <2>1. \A f \in Nat : KnownSince(<<>>, f)
    BY DEF KnownSince
  <2>2. \A i \in 1..Len(fired) : fired[i] \in Nat
    BY <1>1 DEF ShockTyped
  <2> QED BY <1>1, <1>2, <2>1, <2>2 DEF ShocksRemembered
<1> QED BY <1>4, <1>5, <1>6, <1>7 DEF ShockInv

\* No two shocks are fired within one cooldown, although a restart forgets the
\* last one, for any windows, cooldown and number of restarts and rebalances: the
\* samples a shock needs take longer to collect than the cooldown and what a
\* restart reads again (commodity/detector.py, evaluate).
THEOREM ShocksSpacedHolds == ShockSpec => []ShocksSpaced
<1>1. ASSUME ShockInit PROVE ShockInv
  <2>1. <<>> \in Seq(Nat) /\ Len(<<>>) = 0 /\ Ascending(<<>>) /\ LongBefore \in Int
    BY ShockConstants DEF Ascending
  <2> QED BY <1>1, <2>1 DEF ShockInit, ShockInv, ShockTyped, FiredOfTicks, LittleComesAgain,
                            ShocksRemembered, ShocksSpaced
<1>2. ASSUME ShockInv, [ShockNext]_shockVars PROVE ShockInv'
  BY <1>2, EvaluateStep, TicksStep, OtherShockSteps DEF ShockNext
<1>3. ShockInv => ShocksSpaced
  BY DEF ShockInv
<1> QED BY <1>1, <1>2, <1>3, PTL DEF ShockSpec

-----------------------------------------------------------------------------
(* Sentiment.                                                              *)

Ways    == {"long", "short"}
Reading == [value : Probabilities, at : Nat]
Key     == [value : Probabilities \cup {Unknown}, at : Nat]
Item    == [prev : Int, delta : Int, of : Nat]
Snap    == [bullish : BOOLEAN, magnitude : 1..5, of : Nat]
Signal  == [symbol : Companies, way : Ways, of : Nat, at : Nat, checked : BOOLEAN]

SentimentTyped ==
  /\ polls \in Seq(Reading) /\ last \in Key /\ base \in Key
  /\ items \in Seq(Item) /\ snaps \in Seq(Snap)
  /\ classified \in Nat /\ bridged \in Nat /\ blind \in BOOLEAN
  /\ sending \in [snap : Nat, signals : SUBSET Signal]
  /\ emitted \in Seq(Signal)
  /\ marked \in [Companies \X Ways -> Nat]

\* The baseline was read from the market, and what is known of the last hour is
\* known of the last day.
KeysSound ==
  /\ last.value # Unknown => last.at <= Now
  /\ base.value # Unknown =>
       /\ \E i \in 1..Len(polls) : base = polls[i]
       /\ last.value # Unknown /\ base.at <= last.at

\* In the readings ps, reading i moved to reading k within the hour.
Hourly(ps, i, k) == ps[k].at - ps[i].at < HourTtl
Move(ps, i, k)   == ps[k].value - ps[i].value

ItemSound(item, ps) ==
  /\ item.of \in 1..Len(ps)
  /\ \/ item.delta = 0
     \/ \E i \in 1..(item.of - 1) : Hourly(ps, i, item.of) /\ item.delta = Move(ps, i, item.of)
  /\ item.prev = Unknown => item.delta = 0

\* A snapshot that is strong enough for a signal follows a move.
SnapSound(snap, ps) ==
  /\ snap.of \in 1..Len(ps)
  /\ \/ snap.magnitude <= 2
     \/ \E i \in 1..(snap.of - 1) :
          /\ Hourly(ps, i, snap.of) /\ Size(Move(ps, i, snap.of)) >= NoiseFloor
          /\ snap.bullish = Bullish(Move(ps, i, snap.of))

SignalSound(s, ps) ==
  /\ s.of \in 1..Len(ps)
  /\ \E i \in 1..(s.of - 1) :
       /\ Hourly(ps, i, s.of) /\ Size(Move(ps, i, s.of)) >= NoiseFloor
       /\ s.way = IF (Move(ps, i, s.of) > 0) = (Beta[s.symbol] > 0) THEN "long" ELSE "short"

\* One signal of a report for each symbol.
OnePerSymbol(T) == \A s, u \in T : s.symbol = u.symbol => s = u

\* A signal that was checked has left a mark.
LeftMark(s, ms) == s.checked => s.at + DedupTtl <= ms[<<s.symbol, s.way>>]

Apart(s, u) ==
  s.symbol = u.symbol /\ s.way = u.way /\ s.checked /\ u.checked => u.at - s.at >= DedupTtl

SentimentInv ==
  /\ SentimentTyped /\ KeysSound
  /\ \A k \in 1..Len(items) : ItemSound(items[k], polls)
  /\ \A k \in 1..Len(snaps) : SnapSound(snaps[k], polls)
  /\ \A s \in sending.signals : SignalSound(s, polls) /\ LeftMark(s, marked)
  /\ OnePerSymbol(sending.signals)
  /\ \A k \in 1..Len(emitted) :
       /\ SignalSound(emitted[k], polls) /\ LeftMark(emitted[k], marked)
       /\ \A s \in sending.signals : Apart(emitted[k], s)
  /\ \A i, j \in 1..Len(emitted) : i < j => Apart(emitted[i], emitted[j])

LEMMA SentimentConstants ==
  /\ \A c \in Companies : Beta[c] \in Int /\ Beta[c] # 0
  /\ \A c \in Companies : Confidence[c] \in {"low", "medium", "high"}
  /\ BullishOnYes \in BOOLEAN /\ BaseMagnitude \in 1..3 /\ NoiseFloor \in Nat \ {0}
  /\ {HourTtl, DayTtl, DedupTtl} \subseteq Nat \ {0} /\ HourTtl <= DayTtl
  /\ Probabilities \subseteq Nat /\ MaxPause \in Nat /\ IsFiniteSet(Companies)
<1>1. /\ \A c \in Companies : Beta[c] \in Int /\ Beta[c] # 0
      /\ \A c \in Companies : Confidence[c] \in {"low", "medium", "high"}
      /\ BullishOnYes \in BOOLEAN /\ IsFiniteSet(Companies) /\ Probabilities \subseteq 0..100
  BY SentimentAssumption
<1>2. BaseMagnitude \in 1..3 /\ NoiseFloor \in Nat \ {0}
  BY SentimentAssumption
<1>3. MaxPause \in Nat /\ {HourTtl, DayTtl, DedupTtl} \subseteq Nat \ {0} /\ HourTtl <= DayTtl
  BY SentimentAssumption
<1> QED BY <1>1, <1>2, <1>3

LEMMA NowIsNat == ASSUME polls \in Seq(Reading) PROVE Now \in Nat
<1>1. CASE polls = <<>>
  BY <1>1 DEF Now
<1>2. CASE polls # <<>>
  <2>1. Len(polls) \in 1..Len(polls)
    BY <1>2
  <2>2. polls[Len(polls)] \in Reading
    BY <2>1
  <2> QED BY <1>2, <2>2 DEF Now, Last, Reading
<1> QED BY <1>1, <1>2

-----------------------------------------------------------------------------
(* What grows stays sound.                                                 *)

LEMMA SoundStays ==
  ASSUME NEW ps \in Seq(Reading), NEW r \in Reading, NEW more, more = Append(ps, r)
  PROVE  /\ \A item : ItemSound(item, ps) => ItemSound(item, more)
         /\ \A snap : SnapSound(snap, ps) => SnapSound(snap, more)
         /\ \A s : SignalSound(s, ps) => SignalSound(s, more)
<1>1. /\ Len(more) = Len(ps) + 1 /\ Len(ps) \in Nat
      /\ \A i \in 1..Len(ps) : more[i] = ps[i]
  OBVIOUS
<1>2. ASSUME NEW k \in 1..Len(ps), NEW i \in 1..(k - 1)
      PROVE  /\ Hourly(more, i, k) <=> Hourly(ps, i, k)
             /\ Move(more, i, k) = Move(ps, i, k)
  <2>1. i \in 1..Len(ps)
    BY <1>1
  <2> QED BY <1>1, <2>1 DEF Hourly, Move
<1>3. \A k \in 1..Len(ps) : k \in 1..Len(more)
  BY <1>1
<1>4. ASSUME NEW item, ItemSound(item, ps) PROVE ItemSound(item, more)
  BY <1>2, <1>3, <1>4 DEF ItemSound
<1>5. ASSUME NEW snap, SnapSound(snap, ps) PROVE SnapSound(snap, more)
  BY <1>2, <1>3, <1>5 DEF SnapSound
<1>6. ASSUME NEW s, SignalSound(s, ps) PROVE SignalSound(s, more)
  BY <1>2, <1>3, <1>6 DEF SignalSound
<1> QED BY <1>4, <1>5, <1>6

LEMMA EarnedSignals ==
  ASSUME NEW s, SignalSound(s, polls)
  PROVE  Earned(s)
BY DEF SignalSound, Earned, Hourly, Move

-----------------------------------------------------------------------------
(* The adapter.                                                            *)

LEMMA PollStep == ASSUME SentimentInv, Poll PROVE SentimentInv'
<1> PICK value \in Probabilities, pause \in 1..MaxPause, written \in 0..2, sent \in BOOLEAN :
      LET now   == Now + pause
          known == Read(last, DayTtl, now)
          prev  == IF written = 2 THEN known ELSE Unknown
          old   == HourBase(now)
          worth == prev = Unknown \/ Size(value - prev) >= MinDelta
      IN  /\ polls' = Append(polls, [value |-> value, at |-> now])
          /\ last' = IF written = 0 THEN last ELSE [value |-> value, at |-> now]
          /\ base' = IF written = 2 /\ old = Unknown THEN [value |-> value, at |-> now] ELSE base
          /\ items' = IF worth /\ sent
                      THEN Append(items, [prev |-> prev,
                                          delta |-> IF written = 2 /\ old # Unknown
                                                    THEN value - old ELSE 0,
                                          of |-> Len(polls')])
                      ELSE items
  BY DEF Poll
<1> DEFINE now   == Now + pause
           known == Read(last, DayTtl, now)
           prev  == IF written = 2 THEN known ELSE Unknown
           old   == HourBase(now)
           r     == [value |-> value, at |-> now]
           item  == [prev |-> prev, delta |-> IF written = 2 /\ old # Unknown THEN value - old ELSE 0,
                     of |-> Len(polls')]
<1>1. /\ polls' = Append(polls, r)
      /\ last' = last \/ last' = r
      /\ written # 0 => last' = r
      /\ base' = base \/ (base' = r /\ written = 2)
      /\ items' = items \/ items' = Append(items, item)
  <2>1. polls' = Append(polls, r)
    OBVIOUS
  <2>2. last' = IF written = 0 THEN last ELSE r
    OBVIOUS
  <2>3. base' = IF written = 2 /\ old = Unknown THEN r ELSE base
    OBVIOUS
  <2>4. items' = items \/ items' = Append(items, item)
    OBVIOUS
  <2> HIDE DEF r, item, old
  <2>5. last' = last \/ last' = r
    BY <2>2
  <2>6. written # 0 => last' = r
    BY <2>2
  <2>7. base' = base \/ (base' = r /\ written = 2)
    <3>1. CASE written = 2 /\ old = Unknown
      BY <2>3, <3>1
    <3>2. CASE ~(written = 2 /\ old = Unknown)
      BY <2>3, <3>2
    <3> QED BY <3>1, <3>2
  <2> QED BY <2>1, <2>4, <2>5, <2>6, <2>7
<1>2. /\ UNCHANGED <<classified, snaps, bridged, sending, marked, blind, emitted>>
      /\ SentimentTyped /\ KeysSound
  BY DEF Poll, SentimentInv
<1>3. /\ polls \in Seq(Reading) /\ Len(polls) \in Nat /\ last \in Key /\ base \in Key
      /\ items \in Seq(Item)
  BY <1>2 DEF SentimentTyped
<1>4. Now \in Nat
  BY <1>3, NowIsNat
<1>5. now \in Nat /\ now >= Now /\ value \in Nat
  BY <1>4, SentimentConstants
<1>6. r \in Reading /\ r \in Key /\ r.value # Unknown /\ r.value = value /\ r.at = now
  BY <1>5 DEF Reading, Key, Unknown
<1>7. /\ last.value \in Int /\ last.at \in Nat /\ base.value \in Int /\ base.at \in Nat
      /\ (base.value = Unknown \/ base.value \in Nat)
  <2>1. \A k \in Key : k.value \in Probabilities \cup {-1} /\ k.at \in Nat
    BY DEF Key, Unknown
  <2>2. Probabilities \subseteq Nat
    BY SentimentConstants
  <2>3. last.value \in Probabilities \cup {-1} /\ base.value \in Probabilities \cup {-1}
    BY <1>3, <2>1
  <2>4. last.at \in Nat /\ base.at \in Nat
    BY <1>3, <2>1
  <2>5. \A v \in Probabilities \cup {-1} : v = -1 \/ v \in Nat
    BY <2>2
  <2>6. last.value = -1 \/ last.value \in Nat
    BY <2>3, <2>5
  <2>7. base.value = -1 \/ base.value \in Nat
    BY <2>3, <2>5
  <2> QED BY <2>4, <2>6, <2>7 DEF Unknown
<1>8. /\ known \in Int /\ old \in Int /\ prev \in Int
      /\ old # Unknown => old = base.value /\ now - base.at < HourTtl
      /\ known = Unknown => last.value = Unknown \/ now - last.at >= DayTtl
  BY <1>5, <1>7, SentimentConstants DEF HourBase, Read, Unknown
<1> HIDE DEF known, old, r
<1>9. prev = Unknown /\ written = 2 => old = Unknown
  <2> SUFFICES ASSUME prev = Unknown, written = 2, old # Unknown PROVE FALSE
    OBVIOUS
  <2>1. old = base.value /\ now - base.at < HourTtl /\ base.value # Unknown
    BY <1>8
  <2>2. last.value # Unknown /\ base.at <= last.at
    BY <1>2, <2>1 DEF KeysSound
  <2>3. known = Unknown
    OBVIOUS
  <2>4. now - last.at >= DayTtl
    BY <1>8, <2>2, <2>3
  <2>5. HourTtl \in Nat /\ DayTtl \in Nat /\ HourTtl <= DayTtl
    BY SentimentConstants
  <2>6. now \in Nat /\ base.at \in Nat /\ last.at \in Nat
    BY <1>5, <1>7
  <2> HIDE DEF now
  <2> QED BY <2>1, <2>2, <2>4, <2>5, <2>6
<1> HIDE DEF now, prev
<1>10. /\ Len(polls') = Len(polls) + 1 /\ polls' \in Seq(Reading) /\ polls'[Len(polls')] = r
       /\ \A i \in 1..Len(polls) : polls'[i] = polls[i]
  BY <1>1, <1>3, <1>6
<1>11. item \in Item /\ item.prev = prev /\ item.of = Len(polls')
       /\ item.delta = IF written = 2 /\ old # Unknown THEN value - old ELSE 0
  BY <1>3, <1>5, <1>8, <1>10 DEF Item
<1>12. ItemSound(item, polls')
  <2>1. item.of = Len(polls') /\ Len(polls') \in 1..Len(polls')
    BY <1>3, <1>10, <1>11
  <2>2. item.prev = Unknown => item.delta = 0
    BY <1>9, <1>11
  <2> DEFINE Follows == \E i \in 1..(item.of - 1) :
                          Hourly(polls', i, item.of) /\ item.delta = Move(polls', i, item.of)
  <2>3. item.delta = 0 \/ Follows
    <3> SUFFICES ASSUME written = 2, old # Unknown PROVE Follows
      BY <1>11
    <3>1. old = base.value /\ now - base.at < HourTtl /\ base.value # Unknown
      BY <1>8
    <3>2. PICK i \in 1..Len(polls) : base = polls[i]
      BY <1>2, <3>1 DEF KeysSound
    <3>3. i \in 1..(item.of - 1) /\ polls'[i] = base /\ polls'[item.of] = r
      BY <1>3, <1>10, <2>1, <3>2
    <3>4. polls'[item.of].at = now /\ polls'[item.of].value = value /\ item.delta = value - base.value
      BY <1>6, <1>11, <3>1, <3>3
    <3>5. Hourly(polls', i, item.of) /\ item.delta = Move(polls', i, item.of)
      BY <3>1, <3>3, <3>4 DEF Hourly, Move
    <3> QED BY <3>3, <3>5
  <2> HIDE DEF item
  <2> QED BY <2>1, <2>2, <2>3 DEF ItemSound
<1> HIDE DEF item
<1>13. items' \in Seq(Item) /\ \A k \in 1..Len(items') : ItemSound(items'[k], polls')
  <2>1. \A k \in 1..Len(items) : ItemSound(items[k], polls')
    BY <1>1, <1>3, <1>6, SoundStays DEF SentimentInv
  <2>2. CASE items' = Append(items, item)
    <3>1. /\ Len(items') = Len(items) + 1 /\ Len(items) \in Nat /\ items'[Len(items) + 1] = item
          /\ items' \in Seq(Item) /\ \A k \in 1..Len(items) : items'[k] = items[k]
      BY <1>3, <1>11, <2>2
    <3>2. ASSUME NEW k \in 1..Len(items') PROVE ItemSound(items'[k], polls')
      <4>1. k \in 1..Len(items) \/ k = Len(items) + 1
        BY <3>1
      <4> QED BY <1>12, <2>1, <3>1, <4>1
    <3> QED BY <3>1, <3>2
  <2> QED BY <1>1, <1>3, <2>1, <2>2
<1>14. SentimentTyped'
  <2>1. last' \in Key /\ base' \in Key
    BY <1>1, <1>3, <1>6
  <2> QED BY <1>2, <1>10, <1>13, <2>1 DEF SentimentTyped
<1>15. Now' = now
  <2>1. polls' # <<>>
    BY <1>3, <1>10
  <2> QED BY <1>6, <1>10, <2>1 DEF Now, Last
<1>16. KeysSound'
  <2>1. last'.value # Unknown => last'.at <= now
    BY <1>1, <1>2, <1>4, <1>5, <1>6, <1>7 DEF KeysSound
  <2>2. CASE base' = r /\ written = 2
    <3>1. last' = r
      BY <1>1, <2>2
    <3>2. Len(polls') \in 1..Len(polls')
      BY <1>3, <1>10
    <3> QED BY <1>10, <1>15, <1>6, <1>5, <2>1, <2>2, <3>1, <3>2 DEF KeysSound
  <2>3. CASE base' = base
    <3> SUFFICES ASSUME base.value # Unknown
                 PROVE  /\ \E i \in 1..Len(polls') : base = polls'[i]
                        /\ last'.value # Unknown /\ base.at <= last'.at
      BY <1>15, <2>1, <2>3 DEF KeysSound
    <3>1. PICK i \in 1..Len(polls) : base = polls[i]
      BY <1>2 DEF KeysSound
    <3>2. i \in 1..Len(polls') /\ base = polls'[i]
      BY <1>3, <1>10, <3>1
    <3>3. last.value # Unknown /\ base.at <= last.at /\ last.at <= now
      BY <1>2, <1>4, <1>5, <1>7 DEF KeysSound
    <3>4. last'.value # Unknown /\ base.at <= last'.at
      BY <1>1, <1>5, <1>6, <1>7, <3>3
    <3> QED BY <3>2, <3>4
  <2> QED BY <1>1, <2>2, <2>3
<1>17. /\ \A k \in 1..Len(snaps) : SnapSound(snaps[k], polls')
       /\ \A s \in sending.signals : SignalSound(s, polls')
       /\ \A k \in 1..Len(emitted) : SignalSound(emitted[k], polls')
  <2>1. /\ \A k \in 1..Len(snaps) : SnapSound(snaps[k], polls)
        /\ \A s \in sending.signals : SignalSound(s, polls)
        /\ \A k \in 1..Len(emitted) : SignalSound(emitted[k], polls)
    BY DEF SentimentInv
  <2>2. /\ \A snap : SnapSound(snap, polls) => SnapSound(snap, polls')
        /\ \A s : SignalSound(s, polls) => SignalSound(s, polls')
    BY <1>1, <1>3, <1>6, SoundStays
  <2> QED BY <2>1, <2>2
<1>18. /\ \A s \in sending.signals : LeftMark(s, marked')
       /\ \A k \in 1..Len(emitted) : LeftMark(emitted[k], marked')
       /\ \A k \in 1..Len(emitted), s \in sending.signals : Apart(emitted[k], s)
       /\ OnePerSymbol(sending.signals)
       /\ \A i, j \in 1..Len(emitted) : i < j => Apart(emitted[i], emitted[j])
  <2>1. /\ \A s \in sending.signals : LeftMark(s, marked)
        /\ \A k \in 1..Len(emitted) : LeftMark(emitted[k], marked)
        /\ \A k \in 1..Len(emitted), s \in sending.signals : Apart(emitted[k], s)
        /\ OnePerSymbol(sending.signals)
        /\ \A i, j \in 1..Len(emitted) : i < j => Apart(emitted[i], emitted[j])
    BY DEF SentimentInv
  <2> QED BY <1>2, <2>1 DEF LeftMark
<1>19. UNCHANGED <<snaps, sending, emitted>>
  BY <1>2
<1> QED BY <1>13, <1>14, <1>16, <1>17, <1>18, <1>19 DEF SentimentInv, LeftMark

-----------------------------------------------------------------------------
(* The worker.                                                             *)

\* What classify makes of an item that passes its noise gate.
LEMMA SnapOfItem ==
  ASSUME NEW ps \in Seq(Reading), NEW item \in Item, ItemSound(item, ps), Moved(item),
         NEW snap, snap = [bullish |-> Bullish(item.delta), magnitude |-> Magnitude(Size(item.delta)),
                           of |-> item.of]
  PROVE  snap \in Snap /\ SnapSound(snap, ps)
<1>1. item.delta \in Int /\ item.of \in Nat /\ item.of \in 1..Len(ps)
  BY DEF Item, ItemSound
<1>2. PICK d \in Int : d = item.delta
  BY <1>1
<1>3. BullishOnYes \in BOOLEAN /\ BaseMagnitude \in 1..3 /\ NoiseFloor \in Nat \ {0}
  BY SentimentConstants
<1>4. Size(d) \in Nat /\ Bullish(d) \in BOOLEAN
  <2>1. Size(d) \in Nat
    BY DEF Size
  <2>2. Bullish(d) \in BOOLEAN
    <3>1. CASE d >= 0
      BY <1>3, <3>1 DEF Bullish
    <3>2. CASE ~(d >= 0)
      BY <3>2 DEF Bullish
    <3> QED BY <3>1, <3>2
  <2> QED BY <2>1, <2>2
<1>5. Magnitude(Size(d)) \in 1..5
  BY <1>3, <1>4 DEF Magnitude, Between
<1>6. snap.bullish = Bullish(d) /\ snap.magnitude = Magnitude(Size(d)) /\ snap.of = item.of
  BY <1>2
<1>7. snap \in Snap
  BY <1>1, <1>2, <1>4, <1>5 DEF Snap
<1>8. CASE d = 0
  <2>1. Magnitude(Size(d)) <= 2
    BY <1>3, <1>8 DEF Magnitude, Between, Size
  <2> QED BY <1>1, <1>6, <1>7, <2>1 DEF SnapSound
<1>9. CASE d # 0
  <2>1. PICK i \in 1..(item.of - 1) : Hourly(ps, i, item.of) /\ d = Move(ps, i, item.of)
    BY <1>2, <1>9 DEF ItemSound
  <2>2. Size(d) >= NoiseFloor
    BY <1>2, <1>9 DEF Moved, ItemSound
  <2> QED BY <1>1, <1>6, <1>7, <2>1, <2>2 DEF SnapSound
<1> QED BY <1>8, <1>9

LEMMA ClassifyStep == ASSUME SentimentInv, Classify PROVE SentimentInv'
<1> DEFINE item == items[classified + 1]
           snap == [bullish |-> Bullish(item.delta), magnitude |-> Magnitude(Size(item.delta)),
                    of |-> item.of]
<1>1. /\ classified < Len(items) /\ classified' = classified + 1
      /\ snaps' = snaps \/ (Moved(item) /\ snaps' = Append(snaps, snap))
      /\ UNCHANGED <<polls, last, base, items, bridged, sending, marked, blind, emitted>>
  <2>1. \/ snaps' = IF Moved(item) THEN Append(snaps, snap) ELSE snaps
        \/ snaps' = snaps
    BY DEF Classify
  <2>2. snaps' = snaps \/ (Moved(item) /\ snaps' = Append(snaps, snap))
    BY <2>1
  <2>3. /\ classified < Len(items) /\ classified' = classified + 1
        /\ UNCHANGED <<polls, last, base, items, bridged, sending, marked, blind, emitted>>
    BY DEF Classify
  <2> QED BY <2>2, <2>3
<1>2. /\ SentimentTyped /\ polls \in Seq(Reading) /\ items \in Seq(Item) /\ snaps \in Seq(Snap)
      /\ classified \in Nat
  BY DEF SentimentInv, SentimentTyped
<1>3. classified + 1 \in 1..Len(items) /\ classified' \in Nat
  BY <1>1, <1>2
<1>4. item \in Item /\ ItemSound(item, polls)
  BY <1>2, <1>3 DEF SentimentInv
<1>5. Moved(item) => snap \in Snap /\ SnapSound(snap, polls)
  BY <1>2, <1>4, SnapOfItem
<1> HIDE DEF snap, item
<1>6. snaps' \in Seq(Snap) /\ \A k \in 1..Len(snaps') : SnapSound(snaps'[k], polls)
  <2>1. \A k \in 1..Len(snaps) : SnapSound(snaps[k], polls)
    BY DEF SentimentInv
  <2>2. CASE snaps' = snaps
    BY <1>2, <2>1, <2>2
  <2>3. CASE Moved(item) /\ snaps' = Append(snaps, snap)
    <3>1. snap \in Snap /\ SnapSound(snap, polls)
      BY <1>5, <2>3
    <3>2. /\ Len(snaps') = Len(snaps) + 1 /\ Len(snaps) \in Nat /\ snaps'[Len(snaps) + 1] = snap
          /\ snaps' \in Seq(Snap) /\ \A k \in 1..Len(snaps) : snaps'[k] = snaps[k]
      BY <1>2, <2>3, <3>1
    <3>3. ASSUME NEW k \in 1..Len(snaps') PROVE SnapSound(snaps'[k], polls)
      <4>1. k \in 1..Len(snaps) \/ k = Len(snaps) + 1
        BY <3>2
      <4> QED BY <2>1, <3>1, <3>2, <4>1
    <3> QED BY <3>2, <3>3
  <2> QED BY <1>1, <2>2, <2>3
<1>7. SentimentTyped'
  BY <1>1, <1>2, <1>3, <1>6 DEF SentimentTyped
<1>8. KeysSound'
  BY <1>1 DEF SentimentInv, KeysSound, Now
<1> QED BY <1>1, <1>6, <1>7, <1>8 DEF SentimentInv, LeftMark

-----------------------------------------------------------------------------
(* The bridge.                                                             *)

LEMMA LevelOf ==
  /\ Level("low") = 1 /\ Level("medium") = 2 /\ Level("high") = 3
<1> DEFINE Named(i, name) == Levels[i] = name
<1>1. Levels[1] = "low" /\ Levels[2] = "medium" /\ Levels[3] = "high"
  BY DEF Levels
<1>2. \A i \in 1..3 : i = 1 \/ i = 2 \/ i = 3
  OBVIOUS
<1>3. 1 \in 1..3 /\ 2 \in 1..3 /\ 3 \in 1..3
  OBVIOUS
<1>4. "low" # "medium" /\ "low" # "high" /\ "medium" # "high"
  OBVIOUS
<1>5. \A i \in 1..3 : Levels[i] = "low" <=> i = 1
  BY <1>1, <1>2, <1>4
<1>6. \A i \in 1..3 : Levels[i] = "medium" <=> i = 2
  BY <1>1, <1>2, <1>4
<1>7. \A i \in 1..3 : Levels[i] = "high" <=> i = 3
  BY <1>1, <1>2, <1>4
<1> QED BY <1>3, <1>5, <1>6, <1>7 DEF Level

\* A weak snapshot convinces of nothing.
LEMMA WeakConvinces ==
  ASSUME NEW m \in 1..2, NEW name \in {"medium", "high"}
  PROVE  Conviction(m, name) = "low"
<1>1. Level(name) \in {2, 3}
  BY LevelOf
<1>2. ~(6 + m >= 9)
  OBVIOUS
<1>3. ImpliedMove(m) < 15
  BY DEF ImpliedMove
<1>4. Levels[1] = "low"
  BY DEF Levels
<1>5. Conviction(m, name) = Levels[IF 1 < Level(name) THEN 1 ELSE Level(name)]
  <2>1. ~(6 + m >= 9 /\ ImpliedMove(m) >= 25) /\ ~(6 + m >= 7 /\ ImpliedMove(m) >= 15)
    <3>1. ImpliedMove(m) \in Nat
      BY DEF ImpliedMove
    <3> QED BY <1>2, <1>3, <3>1
  <2> QED BY <2>1 DEF Conviction
<1> QED BY <1>1, <1>4, <1>5

LEMMA SignalsSound ==
  ASSUME NEW snap \in Snap, SnapSound(snap, polls), polls \in Seq(Reading), Now \in Nat,
         NEW exposed \in SUBSET Companies, NEW s \in SignalsOf(snap, exposed)
  PROVE  s \in Signal /\ SignalSound(s, polls) /\ s.at = Now
<1>1. PICK c \in exposed :
        /\ s = [symbol |-> c, way |-> Way(Beta[c], Up(snap)), of |-> snap.of, at |-> Now, checked |-> TRUE]
        /\ Conviction(snap.magnitude, Confidence[c]) # "low" /\ Confidence[c] # "low"
  BY DEF SignalsOf
<1>2. c \in Companies /\ Beta[c] \in Int /\ Beta[c] # 0 /\ Confidence[c] \in {"medium", "high"}
      /\ BullishOnYes \in BOOLEAN /\ NoiseFloor \in Nat \ {0}
  BY <1>1, SentimentConstants
<1>3. snap.of \in Nat /\ snap.of \in 1..Len(polls) /\ snap.magnitude \in 1..5 /\ snap.bullish \in BOOLEAN
  BY DEF Snap, SnapSound
<1>4. ~(snap.magnitude <= 2)
  <2>1. snap.magnitude <= 2 => snap.magnitude \in 1..2
    BY <1>3
  <2> QED BY <1>1, <1>2, <2>1, WeakConvinces
<1>5. PICK i \in 1..(snap.of - 1) :
        /\ Hourly(polls, i, snap.of) /\ Size(Move(polls, i, snap.of)) >= NoiseFloor
        /\ snap.bullish = Bullish(Move(polls, i, snap.of))
  BY <1>4 DEF SnapSound
<1>6. PICK move : move = Move(polls, i, snap.of)
  OBVIOUS
<1>7. move \in Int
  <2>1. i \in 1..Len(polls)
    BY <1>3
  <2>2. polls[i] \in Reading /\ polls[snap.of] \in Reading
    BY <1>3, <2>1
  <2>3. polls[i].value \in Nat /\ polls[snap.of].value \in Nat
    BY <2>2, SentimentConstants DEF Reading
  <2> QED BY <1>6, <2>3 DEF Move
<1>8. move # 0 /\ (move >= 0 <=> move > 0)
  BY <1>2, <1>5, <1>6, <1>7 DEF Size
<1>9. Up(snap) <=> move > 0
  <2>1. CASE move > 0
    BY <1>2, <1>5, <1>6, <1>8, <2>1 DEF Up, Bullish
  <2>2. CASE ~(move > 0)
    <3>1. snap.bullish = ~BullishOnYes
      BY <1>5, <1>6, <1>8, <2>2 DEF Bullish
    <3> QED BY <1>2, <2>2, <3>1 DEF Up
  <2> QED BY <2>1, <2>2
<1>10. Way(Beta[c], Up(snap)) = IF (move > 0) = (Beta[c] > 0) THEN "long" ELSE "short"
  <2>1. Up(snap) \in BOOLEAN /\ (move > 0) \in BOOLEAN
    BY <1>2, <1>7 DEF Up
  <2> QED BY <1>9, <2>1 DEF Way
<1>11. Way(Beta[c], Up(snap)) \in Ways
  BY DEF Way, Ways
<1>12. s.symbol = c /\ s.way = Way(Beta[c], Up(snap)) /\ s.of = snap.of /\ s.at = Now
  BY <1>1
<1>13. s \in Signal
  BY <1>1, <1>2, <1>3, <1>11 DEF Signal
<1>14. SignalSound(s, polls)
  BY <1>3, <1>5, <1>6, <1>10, <1>12 DEF SignalSound
<1> QED BY <1>12, <1>13, <1>14

LEMMA SignalsDiffer ==
  ASSUME NEW snap, NEW exposed PROVE OnePerSymbol(SignalsOf(snap, exposed))
<1> DEFINE Of(c) == [symbol |-> c, way |-> Way(Beta[c], Up(snap)), of |-> snap.of, at |-> Now,
                     checked |-> TRUE]
<1>1. \A s \in SignalsOf(snap, exposed) : \E c \in exposed : s = Of(c)
  BY DEF SignalsOf
<1>2. \A c : Of(c).symbol = c
  OBVIOUS
<1> HIDE DEF Of
<1> QED BY <1>1, <1>2 DEF OnePerSymbol

LEMMA BridgeStep == ASSUME SentimentInv, Bridge PROVE SentimentInv'
<1>1. /\ SentimentTyped /\ KeysSound /\ polls \in Seq(Reading) /\ snaps \in Seq(Snap)
      /\ bridged \in Nat /\ marked \in [Companies \X Ways -> Nat] /\ emitted \in Seq(Signal)
  BY DEF SentimentInv, SentimentTyped
<1>2. /\ bridged < Len(snaps) /\ bridged' = bridged + 1
      /\ UNCHANGED <<polls, last, base, items, classified, snaps, emitted>>
  BY DEF Bridge
<1>3. bridged + 1 \in 1..Len(snaps) /\ bridged' \in Nat
  BY <1>1, <1>2
<1>4. PICK snap \in Snap : snap = snaps[bridged + 1] /\ SnapSound(snap, polls)
  BY <1>1, <1>3 DEF SentimentInv
<1>5. PICK exposed \in {{}, Companies}, unresolved \in SUBSET Companies, redis \in BOOLEAN :
       LET signals == SignalsOf(snaps[bridged + 1], exposed)
           able    == {s \in signals : s.symbol \notin unresolved}
           notMarked   == {s \in able : ~Duplicate(s.symbol, s.way)}
       IN  /\ blind' \in (IF redis \/ blind THEN {blind} ELSE BOOLEAN)
           /\ sending' = IF exposed = {} THEN Idle
                         ELSE [snap |-> bridged + 1,
                               signals |-> IF redis THEN notMarked
                                           ELSE {[s EXCEPT !.checked = FALSE] : s \in able}]
           /\ marked' = IF redis
                        THEN [p \in DOMAIN marked |->
                                IF \E s \in notMarked : <<s.symbol, s.way>> = p
                                THEN Now + DedupTtl ELSE marked[p]]
                        ELSE marked
  BY DEF Bridge
<1> DEFINE signals == SignalsOf(snap, exposed)
           able    == {s \in signals : s.symbol \notin unresolved}
           notMarked   == {s \in able : ~Duplicate(s.symbol, s.way)}
           unchecked == {[s EXCEPT !.checked = FALSE] : s \in able}
<1>6. blind' \in BOOLEAN
  BY <1>1, <1>5 DEF SentimentTyped
<1>7. /\ exposed = {} => sending' = Idle
      /\ exposed # {} /\ redis => sending' = [snap |-> bridged + 1, signals |-> notMarked]
      /\ exposed # {} /\ ~redis => sending' = [snap |-> bridged + 1, signals |-> unchecked]
      /\ redis => marked' = [p \in DOMAIN marked |-> IF \E s \in notMarked : <<s.symbol, s.way>> = p
                                                    THEN Now + DedupTtl ELSE marked[p]]
      /\ ~redis => marked' = marked
  BY <1>4, <1>5
<1>8. Now \in Nat
  BY <1>1, NowIsNat
<1>9. \A s \in able : s \in Signal /\ SignalSound(s, polls) /\ s.at = Now
  BY <1>1, <1>4, <1>8, SignalsSound
<1>10. OnePerSymbol(able)
  BY SignalsDiffer DEF OnePerSymbol
<1>11. \A s \in notMarked : s \in able /\ ~(Now < marked[<<s.symbol, s.way>>])
  BY DEF Duplicate
<1>12. exposed = {} => signals = {}
  BY DEF SignalsOf
<1> HIDE DEF signals
<1>13. able = {} => notMarked = {}
  OBVIOUS
<1> HIDE DEF able
<1>14. \A s \in unchecked : \E u \in able : s = [u EXCEPT !.checked = FALSE]
  OBVIOUS
<1>15. \A s \in unchecked : /\ s \in Signal /\ SignalSound(s, polls) /\ s.checked = FALSE
  <2> TAKE s \in unchecked
  <2>1. PICK u \in able : s = [u EXCEPT !.checked = FALSE]
    BY <1>14
  <2>2. u \in Signal /\ SignalSound(u, polls)
    BY <1>9
  <2>3. s \in Signal /\ s.symbol = u.symbol /\ s.way = u.way /\ s.of = u.of /\ s.checked = FALSE
    BY <2>1, <2>2 DEF Signal
  <2> QED BY <2>2, <2>3 DEF SignalSound
<1>16. OnePerSymbol(unchecked)
  <2> SUFFICES ASSUME NEW s \in unchecked, NEW v \in unchecked, s.symbol = v.symbol PROVE s = v
    BY DEF OnePerSymbol
  <2>1. PICK u \in able : s = [u EXCEPT !.checked = FALSE]
    BY <1>14
  <2>2. PICK w \in able : v = [w EXCEPT !.checked = FALSE]
    BY <1>14
  <2>3. u.symbol = s.symbol /\ w.symbol = v.symbol
    BY <1>9, <2>1, <2>2 DEF Signal
  <2>4. u = w
    BY <1>10, <2>3 DEF OnePerSymbol
  <2> QED BY <2>1, <2>2, <2>4
<1> HIDE DEF notMarked, unchecked
<1>17. /\ sending' \in [snap : Nat, signals : SUBSET Signal]
       /\ OnePerSymbol(sending'.signals)
       /\ \A s \in sending'.signals : s \in Signal /\ SignalSound(s, polls)
       /\ \A s \in sending'.signals : s.checked => redis /\ s \in notMarked
  <2>1. CASE exposed = {}
    BY <1>7, <2>1 DEF Idle, OnePerSymbol
  <2>2. CASE exposed # {} /\ redis
    <3>1. sending' = [snap |-> bridged + 1, signals |-> notMarked] /\ bridged + 1 \in Nat
      BY <1>1, <1>7, <2>2
    <3>2. sending'.signals = notMarked
      BY <3>1
    <3>3. \A s \in notMarked : s \in Signal /\ SignalSound(s, polls)
      BY <1>9, <1>11
    <3>4. OnePerSymbol(notMarked)
      BY <1>10, <1>11 DEF OnePerSymbol
    <3> QED BY <2>2, <3>1, <3>2, <3>3, <3>4
  <2>3. CASE exposed # {} /\ ~redis
    <3>1. sending' = [snap |-> bridged + 1, signals |-> unchecked] /\ bridged + 1 \in Nat
      BY <1>1, <1>7, <2>3
    <3>2. sending'.signals = unchecked
      BY <3>1
    <3> QED BY <1>15, <1>16, <3>1, <3>2
  <2> QED BY <2>1, <2>2, <2>3
<1>18. DedupTtl \in Nat
  BY SentimentConstants
<1>19. /\ marked' \in [Companies \X Ways -> Nat]
       /\ \A p \in Companies \X Ways :
            marked'[p] = marked[p] \/ (marked[p] <= Now /\ marked'[p] = Now + DedupTtl)
       /\ \A s \in notMarked : redis => marked'[<<s.symbol, s.way>>] = Now + DedupTtl
  <2>1. CASE ~redis
    <3>1. marked' = marked
      BY <1>7, <2>1
    <3> QED BY <1>1, <2>1, <3>1
  <2>2. CASE redis
    <3>1. marked' = [p \in Companies \X Ways |-> IF \E s \in notMarked : <<s.symbol, s.way>> = p
                                                    THEN Now + DedupTtl ELSE marked[p]]
      BY <1>1, <1>7, <2>2
    <3>2. \A p \in Companies \X Ways : marked[p] \in Nat
      BY <1>1
    <3>3. marked' \in [Companies \X Ways -> Nat]
      BY <1>8, <1>18, <3>1, <3>2
    <3>4. ASSUME NEW p \in Companies \X Ways
          PROVE  marked'[p] = marked[p] \/ (marked[p] <= Now /\ marked'[p] = Now + DedupTtl)
      <4>1. marked'[p] = IF \E s \in notMarked : <<s.symbol, s.way>> = p THEN Now + DedupTtl ELSE marked[p]
        BY <3>1
      <4>2. (\E s \in notMarked : <<s.symbol, s.way>> = p) => ~(Now < marked[p])
        BY <1>11
      <4>3. ~(Now < marked[p]) => marked[p] <= Now
        BY <1>8, <3>2
      <4> QED BY <4>1, <4>2, <4>3
    <3>5. ASSUME NEW s \in notMarked PROVE marked'[<<s.symbol, s.way>>] = Now + DedupTtl
      <4>1. <<s.symbol, s.way>> \in Companies \X Ways
        BY <1>9, <1>11 DEF Signal
      <4> QED BY <3>1, <4>1
    <3> QED BY <3>3, <3>4, <3>5
  <2> QED BY <2>1, <2>2
<1>20. \A k \in 1..Len(emitted) : emitted[k] \in Signal /\ <<emitted[k].symbol, emitted[k].way>> \in Companies \X Ways
  <2> TAKE k \in 1..Len(emitted)
  <2>1. PICK e \in Signal : e = emitted[k]
    BY <1>1
  <2> QED BY <2>1 DEF Signal
<1>21. \A k \in 1..Len(emitted) : LeftMark(emitted[k], marked')
  <2> TAKE k \in 1..Len(emitted)
  <2>1. PICK e \in Signal : e = emitted[k] /\ LeftMark(e, marked)
    BY <1>20 DEF SentimentInv
  <2>2. <<e.symbol, e.way>> \in Companies \X Ways /\ e.at \in Nat /\ emitted' = emitted
    BY <1>2 DEF Signal
  <2>3. PICK p \in Companies \X Ways : p = <<e.symbol, e.way>>
    BY <2>2
  <2>4. marked[p] \in Nat /\ (marked'[p] = marked[p] \/ (marked[p] <= Now /\ marked'[p] = Now + DedupTtl))
    BY <1>1, <1>19
  <2>5. e.checked => e.at + DedupTtl <= marked'[p]
    BY <1>8, <1>18, <2>1, <2>2, <2>3, <2>4 DEF LeftMark
  <2> QED BY <2>1, <2>2, <2>3, <2>5 DEF LeftMark
<1>22. \A s \in sending'.signals : LeftMark(s, marked')
  <2> SUFFICES ASSUME NEW s \in sending'.signals, s.checked
               PROVE  s.at + DedupTtl <= marked'[<<s.symbol, s.way>>]
    BY DEF LeftMark
  <2>1. redis /\ s \in notMarked
    BY <1>17
  <2>2. s.at = Now /\ marked'[<<s.symbol, s.way>>] = Now + DedupTtl
    BY <1>9, <1>11, <1>19, <2>1
  <2> QED BY <1>8, <1>18, <2>2
<1>23. \A k \in 1..Len(emitted), s \in sending'.signals : Apart(emitted[k], s)
  <2> TAKE k \in 1..Len(emitted), s \in sending'.signals
  <2>1. PICK e \in Signal : e = emitted[k] /\ LeftMark(e, marked)
    BY <1>20 DEF SentimentInv
  <2> SUFFICES ASSUME e.symbol = s.symbol, e.way = s.way, e.checked, s.checked
               PROVE  s.at - e.at >= DedupTtl
    BY <2>1 DEF Apart
  <2>2. s \in notMarked /\ s.at = Now
    BY <1>9, <1>11, <1>17
  <2>3. PICK p \in Companies \X Ways : p = <<e.symbol, e.way>>
    BY DEF Signal
  <2>4. e.at + DedupTtl <= marked[p] /\ ~(Now < marked[p])
    BY <1>11, <2>1, <2>2, <2>3 DEF LeftMark
  <2>5. marked[p] \in Nat /\ e.at \in Nat
    BY <1>1 DEF Signal
  <2> QED BY <1>8, <1>18, <2>2, <2>4, <2>5
<1>24. SentimentTyped'
  BY <1>1, <1>2, <1>3, <1>6, <1>17, <1>19 DEF SentimentTyped
<1>25. KeysSound'
  BY <1>1, <1>2 DEF KeysSound, Now
<1>26. /\ \A k \in 1..Len(items) : ItemSound(items[k], polls)
       /\ \A k \in 1..Len(snaps) : SnapSound(snaps[k], polls)
       /\ \A k \in 1..Len(emitted) : SignalSound(emitted[k], polls)
       /\ \A i, j \in 1..Len(emitted) : i < j => Apart(emitted[i], emitted[j])
  BY DEF SentimentInv
<1> QED BY <1>2, <1>17, <1>21, <1>22, <1>23, <1>24, <1>25, <1>26 DEF SentimentInv

-----------------------------------------------------------------------------
(* The send, and the consumers' lives.                                     *)

LEMMA ListOfSet ==
  ASSUME NEW T, IsFiniteSet(T)
  PROVE  /\ SetToSeq(T) \in Seq(T)
         /\ \A i, j \in 1..Len(SetToSeq(T)) : SetToSeq(T)[i] = SetToSeq(T)[j] => i = j
<1>1. Cardinality(T) \in Nat /\ ExistsBijection(1..Cardinality(T), T)
  BY FS_CardinalityType
<1>2. PICK f : f \in Bijection(1..Cardinality(T), T)
  BY <1>1 DEF ExistsBijection
<1>3. f \in [1..Cardinality(T) -> T] /\ \A a, b \in 1..Cardinality(T) : f[a] = f[b] => a = b
  BY <1>2 DEF Bijection, Injection, IsInjective
<1>4. IsInjective(f)
  BY <1>3 DEF IsInjective
<1>5. SetToSeq(T) \in [1..Cardinality(T) -> T] /\ IsInjective(SetToSeq(T))
  BY <1>3, <1>4 DEF SetToSeq
<1>6. PICK n \in Nat : n = Cardinality(T)
  BY <1>1
<1>7. SetToSeq(T) \in [1..n -> T]
  BY <1>5, <1>6
<1>8. SetToSeq(T) \in Seq(T) /\ Len(SetToSeq(T)) = n
  BY <1>7
<1>9. DOMAIN SetToSeq(T) = 1..Len(SetToSeq(T))
  BY <1>7, <1>8
<1> QED BY <1>5, <1>8, <1>9 DEF IsInjective

LEMMA FewSignals ==
  ASSUME NEW T \in SUBSET Signal, OnePerSymbol(T)
  PROVE  IsFiniteSet(T)
<1> DEFINE f == [s \in T |-> s.symbol]
<1>1. f \in [T -> Companies]
  BY DEF Signal
<1>2. \A a, b \in T : f[a] = f[b] => a = b
  BY DEF OnePerSymbol
<1>3. f \in Injection(T, Companies)
  BY <1>1, <1>2 DEF Injection, IsInjective
<1> HIDE DEF f
<1> QED BY <1>3, SentimentConstants, FS_Injection

LEMMA SendStep == ASSUME SentimentInv, Send PROVE SentimentInv'
<1> DEFINE T == sending.signals
           more == SetToSeq(T)
<1>1. /\ emitted' = emitted \o more /\ sending' = Idle
      /\ UNCHANGED <<polls, last, base, items, classified, snaps, bridged, marked, blind>>
  BY DEF Send
<1>2. /\ SentimentTyped /\ KeysSound /\ emitted \in Seq(Signal) /\ T \in SUBSET Signal
      /\ OnePerSymbol(T)
      /\ \A s \in T : SignalSound(s, polls) /\ LeftMark(s, marked)
      /\ \A k \in 1..Len(emitted) :
           SignalSound(emitted[k], polls) /\ LeftMark(emitted[k], marked)
      /\ \A k \in 1..Len(emitted), s \in T : Apart(emitted[k], s)
      /\ \A i, j \in 1..Len(emitted) : i < j => Apart(emitted[i], emitted[j])
  BY DEF SentimentInv, SentimentTyped
<1>3. more \in Seq(T) /\ \A i, j \in 1..Len(more) : more[i] = more[j] => i = j
  BY <1>2, FewSignals, ListOfSet
<1> HIDE DEF T, more
<1>4. /\ emitted' \in Seq(Signal) /\ Len(emitted) \in Nat /\ Len(more) \in Nat
      /\ Len(emitted') = Len(emitted) + Len(more)
      /\ \A k \in 1..Len(emitted) : emitted'[k] = emitted[k]
      /\ \A k \in 1..Len(more) : emitted'[Len(emitted) + k] = more[k] /\ more[k] \in T
  <2>1. more \in Seq(Signal)
    BY <1>2, <1>3
  <2> QED BY <1>1, <1>2, <1>3, <2>1
<1>5. ASSUME NEW k \in 1..Len(emitted')
      PROVE  \/ k \in 1..Len(emitted)
             \/ k - Len(emitted) \in 1..Len(more) /\ emitted'[k] = more[k - Len(emitted)]
  <2>1. CASE k > Len(emitted)
    <3>1. k - Len(emitted) \in 1..Len(more) /\ Len(emitted) + (k - Len(emitted)) = k
      BY <1>4, <2>1
    <3> QED BY <1>4, <3>1
  <2>2. CASE ~(k > Len(emitted))
    BY <1>4, <2>2
  <2> QED BY <2>1, <2>2
<1>6. \A k \in 1..Len(emitted') : SignalSound(emitted'[k], polls) /\ LeftMark(emitted'[k], marked)
  <2> TAKE k \in 1..Len(emitted')
  <2>1. CASE k \in 1..Len(emitted)
    BY <1>2, <1>4, <2>1
  <2>2. CASE k - Len(emitted) \in 1..Len(more) /\ emitted'[k] = more[k - Len(emitted)]
    BY <1>2, <1>4, <2>2
  <2> QED BY <1>5, <2>1, <2>2
<1>7. ASSUME NEW i \in 1..Len(emitted'), NEW j \in 1..Len(emitted'), i < j
      PROVE  Apart(emitted'[i], emitted'[j])
  <2>1. CASE j \in 1..Len(emitted)
    <3>1. i \in 1..Len(emitted)
      BY <1>4, <1>7, <2>1
    <3> QED BY <1>2, <1>4, <1>7, <2>1, <3>1
  <2>2. CASE j - Len(emitted) \in 1..Len(more) /\ emitted'[j] = more[j - Len(emitted)]
    <3>1. CASE i \in 1..Len(emitted)
      BY <1>2, <1>4, <2>2, <3>1
    <3>2. CASE i - Len(emitted) \in 1..Len(more) /\ emitted'[i] = more[i - Len(emitted)]
      <4>1. i - Len(emitted) # j - Len(emitted)
        BY <1>4, <1>7
      <4>2. more[i - Len(emitted)] # more[j - Len(emitted)]
        BY <1>3, <2>2, <3>2, <4>1
      <4>3. emitted'[i] \in T /\ emitted'[j] \in T /\ emitted'[i] # emitted'[j]
        BY <1>4, <2>2, <3>2, <4>2
      <4>4. emitted'[i].symbol # emitted'[j].symbol
        BY <1>2, <4>3 DEF OnePerSymbol
      <4> QED BY <4>4 DEF Apart
    <3> QED BY <1>5, <3>1, <3>2
  <2> QED BY <1>5, <2>1, <2>2
<1>8. sending' \in [snap : Nat, signals : SUBSET Signal] /\ sending'.signals = {}
  BY <1>1 DEF Idle
<1>9. SentimentTyped' /\ KeysSound'
  BY <1>1, <1>2, <1>4, <1>8 DEF SentimentTyped, KeysSound, Now
<1>10. /\ \A k \in 1..Len(items) : ItemSound(items[k], polls)
       /\ \A k \in 1..Len(snaps) : SnapSound(snaps[k], polls)
  BY DEF SentimentInv
<1>11. \A k \in 1..Len(emitted') : LeftMark(emitted'[k], marked')
  BY <1>1, <1>6 DEF LeftMark
<1> QED BY <1>1, <1>6, <1>7, <1>8, <1>9, <1>10, <1>11 DEF SentimentInv, OnePerSymbol

LEMMA WorkerStartsStep == ASSUME SentimentInv, WorkerStarts PROVE SentimentInv'
<1>1. /\ classified' \in 0..classified /\ bridged' \in 0..bridged
      /\ sending' = Idle /\ blind' = FALSE
      /\ UNCHANGED <<polls, last, base, items, snaps, marked, emitted>>
  BY DEF WorkerStarts
<1>2. SentimentTyped /\ KeysSound /\ classified \in Nat /\ bridged \in Nat
  BY DEF SentimentInv, SentimentTyped
<1>3. sending' \in [snap : Nat, signals : SUBSET Signal] /\ sending'.signals = {}
  BY <1>1 DEF Idle
<1>4. classified' \in Nat /\ bridged' \in Nat
  BY <1>1, <1>2
<1>5. SentimentTyped' /\ KeysSound'
  BY <1>1, <1>2, <1>3, <1>4 DEF SentimentTyped, KeysSound, Now
<1> QED BY <1>1, <1>3, <1>5 DEF SentimentInv, LeftMark, OnePerSymbol

LEMMA SentimentStep == ASSUME SentimentInv, [SentimentNext]_sentimentVars PROVE SentimentInv'
<1>1. CASE UNCHANGED sentimentVars
  <2>1. UNCHANGED <<polls, last, base, items, classified, snaps, bridged, sending, marked, blind, emitted>>
    BY <1>1 DEF sentimentVars
  <2>2. SentimentTyped' /\ KeysSound'
    BY <2>1 DEF SentimentInv, SentimentTyped, KeysSound, Now
  <2> QED BY <2>1, <2>2 DEF SentimentInv, LeftMark
<1> QED BY <1>1, PollStep, ClassifyStep, BridgeStep, SendStep, WorkerStartsStep DEF SentimentNext

\* Every signal of the bridge follows a move of the market within the hour, and
\* no pair is signalled twice in the window, for any companies and betas, any
\* windows and floors, any number of readings, failures and restarts.  It needs
\* themes of base magnitude 3 at most, as the price themes are: a first reading
\* counts as no move, and from 4 on that is signal enough
\* (sentiment/classifier.py, impact_bridge.py; signal_gates.py, filter_signals).
THEOREM SignalEarnedHolds == SentimentSpec => []SignalEarned
<1>1. ASSUME SentimentInit PROVE SentimentInv
  <2>1. /\ polls = <<>> /\ last = NoReading /\ base = NoReading
        /\ items = <<>> /\ classified = 0 /\ snaps = <<>> /\ bridged = 0 /\ sending = Idle
        /\ marked \in [Companies \X Ways -> {0, DedupTtl}] /\ blind = FALSE /\ emitted = <<>>
    BY <1>1 DEF SentimentInit, Ways
  <2>2. last \in Key /\ base \in Key /\ last.value = Unknown /\ base.value = Unknown
    BY <2>1 DEF NoReading, Key
  <2>3. sending \in [snap : Nat, signals : SUBSET Signal] /\ sending.signals = {}
    BY <2>1 DEF Idle
  <2>4. marked \in [Companies \X Ways -> Nat]
    BY <2>1, SentimentConstants
  <2>5. /\ polls \in Seq(Reading) /\ items \in Seq(Item) /\ snaps \in Seq(Snap) /\ emitted \in Seq(Signal)
        /\ Len(items) = 0 /\ Len(snaps) = 0 /\ Len(emitted) = 0
    BY <2>1
  <2>6. SentimentTyped /\ KeysSound
    BY <2>1, <2>2, <2>3, <2>4, <2>5 DEF SentimentTyped, KeysSound
  <2> QED BY <2>3, <2>5, <2>6 DEF SentimentInv, OnePerSymbol
<1>2. ASSUME SentimentInv PROVE SignalEarned
  <2>1. /\ emitted \in Seq(Signal)
        /\ \A k \in 1..Len(emitted) : SignalSound(emitted[k], polls)
        /\ \A i, j \in 1..Len(emitted) : i < j => Apart(emitted[i], emitted[j])
    BY <1>2 DEF SentimentInv, SentimentTyped
  <2>2. DOMAIN emitted = 1..Len(emitted) /\ Len(emitted) \in Nat
    BY <2>1
  <2>3. \A k \in DOMAIN emitted : Earned(emitted[k])
    BY <2>1, <2>2, EarnedSignals
  <2>4. ASSUME NEW i \in DOMAIN emitted, NEW j \in DOMAIN emitted, i # j,
               emitted[i].symbol = emitted[j].symbol, emitted[i].way = emitted[j].way,
               emitted[i].checked, emitted[j].checked
        PROVE  Size(emitted[i].at - emitted[j].at) >= DedupTtl
    <3>1. emitted[i] \in Signal /\ emitted[j] \in Signal
      BY <2>1, <2>2
    <3>2. emitted[i].at \in Nat /\ emitted[j].at \in Nat /\ DedupTtl \in Nat
      BY <3>1, SentimentConstants DEF Signal
    <3>3. emitted[j].at - emitted[i].at >= DedupTtl \/ emitted[i].at - emitted[j].at >= DedupTtl
      <4>1. i < j \/ j < i
        BY <2>2, <2>4
      <4>2. CASE i < j
        BY <2>1, <2>2, <2>4, <4>2 DEF Apart
      <4>3. CASE j < i
        BY <2>1, <2>2, <2>4, <4>3 DEF Apart
      <4> QED BY <4>1, <4>2, <4>3
    <3> QED BY <3>2, <3>3 DEF Size
  <2> QED BY <2>3, <2>4 DEF SignalEarned
<1> QED BY <1>1, <1>2, SentimentStep, PTL DEF SentimentSpec

-----------------------------------------------------------------------------
(* PaperLoops: what a cycle of the hedge read, and the sum of its rows.    *)

\* What an undisturbed cycle has read is still so.
CycleKnows ==
  ~moved =>
    /\ cycle # "asleep" => seen.pead = pead /\ outcome = "none"
    /\ cycle \in {"quote", "gross", "insert", "rows"} => seen.hedge = Total(hedgeRows)
    /\ cycle \in {"gross", "insert"} => seen.pead - seen.hedge > Tolerance
    /\ cycle = "close" => seen.rows = hedgeRows /\ seen.excess = Total(hedgeRows) - pead

\* The order that passed the cap is the lots, less what whole shares take off.
OrderKnown ==
  cycle = "insert" => /\ seen.order \in Nat \ {0}
                      /\ \E share \in 0..MaxShare : seen.order = Lots * LotValue - share

HedgeInv == HedgeTypeOK /\ OrderKnown /\ CycleKnows /\ HedgeAfterCycle

LEMMA HedgeConstants ==
  /\ LotValue \in Nat /\ MaxShare \in Nat /\ Band \in Nat /\ MaxPead \in Nat
  /\ LotValue > 2 * MaxShare
BY HedgeAssumption

LEMMA ToleranceHalf ==
  /\ Tolerance \in Nat /\ 2 * Tolerance + 1 >= LotValue
  /\ Tolerance >= LotValue \div 2
<1>1. LotValue \div 2 \in Nat /\ 2 * (LotValue \div 2) + 1 >= LotValue
  BY HedgeConstants
<1> QED BY <1>1, HedgeConstants DEF Tolerance

LEMMA TotalIsNat == ASSUME NEW rows, RowsByIds(rows) PROVE Total(rows) \in Nat
<1>1. IsFiniteSet(DOMAIN rows) /\ \A i \in DOMAIN rows : rows[i] \in Nat
  BY DEF RowsByIds
<1> QED BY <1>1, SumIsNat DEF Total

LEMMA TotalOfNone == RowsByIds(NoRows) /\ Total(NoRows) = 0
<1>1. DOMAIN NoRows = {} /\ NoRows = [i \in {} |-> NoRows[i]]
  BY DEF NoRows
<1>2. IsFiniteSet({})
  BY FS_EmptySet
<1>3. NoRows \in [{} -> Nat \ {0}]
  BY <1>1
<1> QED BY <1>1, <1>2, <1>3, SumOfNone DEF RowsByIds, Total

LEMMA NoRowsOnly == ASSUME NEW rows, RowsByIds(rows), DOMAIN rows = {} PROVE rows = NoRows
BY DEF RowsByIds, NoRows

\* A closed row takes its notional with it.
LEMMA WithoutRow ==
  ASSUME NEW rows, RowsByIds(rows), NEW i \in DOMAIN rows
  PROVE  /\ RowsByIds(Without(rows, i))
         /\ Total(Without(rows, i)) = Total(rows) - rows[i]
<1> DEFINE rest == Without(rows, i)
           ids == DOMAIN rows \ {i}
<1>1. /\ IsFiniteSet(DOMAIN rows) /\ DOMAIN rows \subseteq Nat
      /\ \A k \in DOMAIN rows : rows[k] \in Nat /\ rows[k] \in Nat \ {0}
  BY DEF RowsByIds
<1>2. DOMAIN rest = ids /\ (\A k \in ids : rest[k] = rows[k]) /\ rest = [k \in ids |-> rest[k]]
  BY DEF Without
<1>3. IsFiniteSet(ids)
  BY <1>1, FS_Subset
<1>4. RowsByIds(rest)
  BY <1>1, <1>2, <1>3 DEF RowsByIds
<1>5. SumFunctionOnSet(rows, DOMAIN rows) = rows[i] + SumFunctionOnSet(rows, ids)
  BY <1>1, SumWithout
<1>6. SumFunctionOnSet(rest, ids) = SumFunctionOnSet(rows, ids)
  <2> HIDE DEF rest, ids
  <2>1. \A k \in ids : rest[k] \in Nat /\ rest[k] = rows[k]
    BY <1>1, <1>2 DEF ids
  <2> QED BY <1>3, <2>1, SumIsOf
<1>7. SumFunctionOnSet(rows, ids) \in Nat
  <2> HIDE DEF ids
  <2>1. \A k \in ids : rows[k] \in Nat
    BY <1>1 DEF ids
  <2> QED BY <1>3, <2>1, SumIsNat
<1>8. Total(rest) = SumFunctionOnSet(rest, ids) /\ Total(rows) = SumFunctionOnSet(rows, DOMAIN rows)
  BY <1>2 DEF Total
<1>9. Total(rest) = Total(rows) - rows[i]
  <2> HIDE DEF rest, ids
  <2>1. rows[i] \in Nat
    BY <1>1
  <2> QED BY <1>5, <1>6, <1>7, <1>8, <2>1
<1> QED BY <1>4, <1>9

\* ... and closing what is closed takes nothing.
LEMMA RowsLeft == ASSUME NEW rows, RowsByIds(rows), NEW i PROVE RowsByIds(Without(rows, i))
<1>1. CASE i \in DOMAIN rows
  BY <1>1, WithoutRow
<1>2. CASE i \notin DOMAIN rows
  <2>1. DOMAIN rows \ {i} = DOMAIN rows /\ rows = [k \in DOMAIN rows |-> rows[k]]
    BY <1>2 DEF RowsByIds
  <2>2. Without(rows, i) = rows
    BY <2>1 DEF Without
  <2> QED BY <2>2
<1> QED BY <1>1, <1>2

\* The next id is nobody's.
LEMMA NextIdFree == ASSUME RowsByIds(hedgeRows) PROVE NextId \in Nat /\ NextId \notin DOMAIN hedgeRows
<1>1. CASE hedgeRows = NoRows
  BY <1>1 DEF NextId, NoRows
<1>2. CASE hedgeRows # NoRows
  <2>1. DOMAIN hedgeRows # {} /\ DOMAIN hedgeRows \in SUBSET Nat /\ IsFiniteSet(DOMAIN hedgeRows)
    BY <1>2, NoRowsOnly DEF RowsByIds
  <2> DEFINE ids == DOMAIN hedgeRows
  <2>2. Max(ids) \in ids /\ \A y \in ids : Max(ids) >= y
    BY <2>1, LargestNumber
  <2>3. NextId = Max(ids) + 1
    BY <1>2 DEF NextId
  <2>4. Max(ids) \in Nat /\ ids \subseteq Nat
    BY <2>1, <2>2
  <2> HIDE DEF ids
  <2>5. NextId \notin ids
    <3>1. ASSUME NextId \in ids PROVE FALSE
      <4>1. Max(ids) >= Max(ids) + 1
        BY <2>2, <2>3, <3>1
      <4> QED BY <2>4, <4>1
    <3> QED BY <3>1
  <2> QED BY <2>3, <2>4, <2>5 DEF ids
<1> QED BY <1>1, <1>2

\* A new row adds its notional.
LEMMA WithRow ==
  ASSUME NEW rows, RowsByIds(rows), NEW i \in Nat, i \notin DOMAIN rows, NEW v \in Nat \ {0},
         NEW more, more = [k \in DOMAIN rows \cup {i} |-> IF k = i THEN v ELSE rows[k]]
  PROVE  RowsByIds(more) /\ Total(more) = Total(rows) + v
<1> DEFINE ids == DOMAIN rows \cup {i}
<1>1. /\ IsFiniteSet(DOMAIN rows) /\ DOMAIN rows \subseteq Nat
      /\ \A k \in DOMAIN rows : rows[k] \in Nat \ {0}
  BY DEF RowsByIds
<1>2. IsFiniteSet(ids)
  BY <1>1, FS_AddElement
<1>3. DOMAIN more = ids /\ more[i] = v /\ (\A k \in ids : more[k] \in Nat \ {0})
      /\ \A k \in DOMAIN rows : more[k] = rows[k]
  BY <1>1
<1>4. RowsByIds(more)
  <2>1. more = [k \in ids |-> more[k]]
    OBVIOUS
  <2> HIDE DEF ids
  <2>2. ids \subseteq Nat
    BY <1>1 DEF ids
  <2> QED BY <1>2, <1>3, <2>1, <2>2 DEF RowsByIds
<1>5. Total(more) = more[i] + Total(Without(more, i))
  <2>1. Total(Without(more, i)) = Total(more) - more[i]
    BY <1>3, <1>4, WithoutRow
  <2>2. Total(more) \in Nat /\ more[i] \in Nat
    BY <1>3, <1>4, TotalIsNat
  <2> QED BY <2>1, <2>2
<1>6. Without(more, i) = rows
  <2>1. DOMAIN more \ {i} = DOMAIN rows
    BY <1>3
  <2>2. rows = [k \in DOMAIN rows |-> rows[k]]
    BY DEF RowsByIds
  <2>3. [k \in DOMAIN rows |-> more[k]] = [k \in DOMAIN rows |-> rows[k]]
    BY <1>3
  <2> QED BY <2>1, <2>2, <2>3 DEF Without
<1>7. Total(rows) \in Nat
  BY TotalIsNat
<1> QED BY <1>3, <1>4, <1>5, <1>6, <1>7

LEMMA WholeParts ==
  ASSUME NEW a \in Int, NEW b \in Nat \ {0}
  PROVE  a \div b \in Int /\ b * (a \div b) <= a /\ a < b * (a \div b) + b
OBVIOUS

LEMMA TwiceProduct == ASSUME NEW m \in Int, NEW n \in Int PROVE (2 * m) * n = 2 * (n * m)
OBVIOUS

\* What is bought: within half a lot of what is missing.
LEMMA LotsNear ==
  ASSUME seen.pead \in Int, seen.hedge \in Int, seen.pead - seen.hedge > Tolerance
  PROVE  /\ Lots \in Nat \ {0} /\ Lots * LotValue \in Nat
         /\ seen.pead - seen.hedge - Lots * LotValue \in -Tolerance..Tolerance
<1> DEFINE d == seen.pead - seen.hedge
           a == 2 * d + LotValue
           b == 2 * LotValue
           n == a \div b
           v == n * LotValue
<1>1. LotValue \in Nat /\ LotValue > 0 /\ d \in Int /\ a \in Int /\ b \in Nat \ {0}
  BY HedgeConstants
<1>2. n \in Int /\ b * n <= a /\ a < b * n + b
  <2> HIDE DEF a, b
  <2> QED BY <1>1, WholeParts
<1>3. b * n = 2 * v /\ v \in Int
  <2> HIDE DEF n
  <2> QED BY <1>1, <1>2, TwiceProduct
<1>4. Lots = IF n < 1 THEN 1 ELSE n
  BY DEF Lots, LotsFor
<1>5. Tolerance \in Nat /\ 2 * Tolerance + 1 >= LotValue /\ d > Tolerance
  BY ToleranceHalf
<1> HIDE DEF v, n, d
<1>6. 2 * v <= 2 * d + LotValue /\ 2 * d + LotValue < 2 * v + 2 * LotValue
  BY <1>2, <1>3
<1>7. v > 0
  BY <1>1, <1>3, <1>5, <1>6
<1>8. n >= 1
  <2>1. ASSUME n <= 0 PROVE n * LotValue <= 0
    BY <1>1, <1>2, <2>1
  <2>2. n * LotValue > 0
    BY <1>7 DEF v
  <2>3. ~(n <= 0)
    <3>1. ASSUME n <= 0 PROVE FALSE
      <4>1. n * LotValue <= 0
        BY <2>1, <3>1
      <4>2. n * LotValue \in Int
        BY <1>3 DEF v
      <4> QED BY <2>2, <4>1, <4>2
    <3> QED BY <3>1
  <2> QED BY <1>2, <2>3
<1>9. Lots = n /\ Lots \in Nat \ {0} /\ Lots * LotValue = v
  BY <1>2, <1>4, <1>8 DEF v
<1>10. d - v <= Tolerance /\ v - d <= Tolerance
  BY <1>1, <1>3, <1>5, <1>6
<1> QED BY <1>1, <1>3, <1>5, <1>7, <1>9, <1>10 DEF d

LEMMA LotsPositive ==
  ASSUME seen.pead \in Int, seen.hedge \in Int
  PROVE  Lots \in Nat \ {0} /\ Lots * LotValue \in Nat /\ Lots * LotValue >= LotValue
<1> DEFINE a == 2 * (seen.pead - seen.hedge) + LotValue
           b == 2 * LotValue
           n == a \div b
<1>1. LotValue \in Nat /\ a \in Int /\ b \in Nat \ {0}
  BY HedgeConstants
<1>2. n \in Int
  <2> HIDE DEF a, b
  <2> QED BY <1>1, WholeParts
<1>3. Lots = IF n < 1 THEN 1 ELSE n
  BY DEF Lots, LotsFor
<1> HIDE DEF n
<1>4. Lots \in Nat \ {0}
  BY <1>2, <1>3
<1>5. \A k \in Nat \ {0} : k * LotValue \in Nat /\ k * LotValue >= LotValue
  BY <1>1
<1> QED BY <1>4, <1>5

LEMMA HedgeTyped ==
  ASSUME HedgeInv
  PROVE  /\ HedgeTypeOK /\ OrderKnown /\ CycleKnows /\ HedgeAfterCycle
         /\ pead \in 0..MaxPead /\ pead \in Nat /\ RowsByIds(hedgeRows) /\ Total(hedgeRows) \in Nat
         /\ seen.pead \in Nat /\ seen.hedge \in Nat /\ seen.order \in Nat /\ seen.excess \in Int
         /\ RowsByIds(seen.rows) /\ moved \in BOOLEAN
         /\ cycle \in {"asleep", "hedge", "quote", "gross", "insert", "rows", "close"}
<1>1. HedgeTypeOK /\ OrderKnown /\ CycleKnows /\ HedgeAfterCycle
  BY DEF HedgeInv
<1>2. pead \in Nat /\ seen.pead \in Nat /\ Total(hedgeRows) \in Nat
  BY <1>1, TotalIsNat, HedgeConstants DEF HedgeTypeOK
<1> QED BY <1>1, <1>2 DEF HedgeTypeOK

LEMMA HedgeStart == HedgeInit => HedgeInv
<1> SUFFICES ASSUME HedgeInit PROVE HedgeInv
  OBVIOUS
<1>1. HedgeTypeOK
  <2>1. 0 \in 0..MaxPead
    BY HedgeConstants
  <2>2. /\ seen.pead = 0 /\ seen.hedge = 0 /\ seen.order = 0 /\ seen.excess = 0
        /\ seen.rows = NoRows
        /\ seen = [pead |-> 0, hedge |-> 0, order |-> 0, excess |-> 0, rows |-> NoRows]
    BY DEF HedgeInit, Unseen
  <2>3. seen = [pead |-> seen.pead, hedge |-> seen.hedge, order |-> seen.order,
                excess |-> seen.excess, rows |-> seen.rows]
    BY ONLY <2>2
  <2>4. /\ seen.pead \in 0..MaxPead /\ seen.hedge \in Nat /\ seen.order \in Nat
        /\ seen.excess \in Int /\ RowsByIds(seen.rows)
    BY <2>1, <2>2, TotalOfNone
  <2>5. /\ pead \in 0..MaxPead /\ RowsByIds(hedgeRows) /\ cycle = "asleep" /\ outcome = "none"
        /\ moved \in BOOLEAN
    BY <2>1, TotalOfNone DEF HedgeInit
  <2> QED BY <2>3, <2>4, <2>5 DEF HedgeTypeOK
<1>2. OrderKnown /\ CycleKnows /\ HedgeAfterCycle
  BY DEF HedgeInit, OrderKnown, CycleKnows, HedgeAfterCycle
<1> QED BY <1>1, <1>2 DEF HedgeInv

\* A cycle that ends forgets what it has read.
LEMMA Ended ==
  ASSUME NEW o \in {"within", "extended", "shrunk", "refused", "failed"}, HedgeInv, EndsAs(o),
         UNCHANGED <<moved, pead>>, RowsByIds(hedgeRows'), HedgeAfterCycle'
  PROVE  HedgeInv'
<1>1. HedgeTypeOK'
  BY HedgeTyped, TotalOfNone, HedgeConstants DEF EndsAs, HedgeTypeOK, Unseen
<1>2. OrderKnown' /\ CycleKnows'
  BY DEF EndsAs, OrderKnown, CycleKnows
<1> QED BY <1>1, <1>2 DEF HedgeInv

\* ... and one that goes on keeps to its book.
LEMMA WentOn ==
  ASSUME HedgeInv, UNCHANGED <<moved, pead, hedgeRows, outcome, seen>>,
         cycle' \in {"quote", "gross", "rows"}, cycle # "asleep",
         ~moved => seen.hedge = Total(hedgeRows),
         ~moved /\ cycle' = "gross" => seen.pead - seen.hedge > Tolerance
  PROVE  HedgeInv'
<1>1. HedgeTypeOK'
  BY HedgeTyped DEF HedgeTypeOK, RowsByIds
<1>2. CycleKnows'
  <2>1. ~moved => seen.pead = pead /\ outcome = "none"
    BY HedgeTyped DEF CycleKnows
  <2> QED BY <2>1 DEF CycleKnows, Total
<1>3. OrderKnown' /\ HedgeAfterCycle'
  BY HedgeTyped DEF OrderKnown, HedgeAfterCycle, Total
<1> QED BY <1>1, <1>2, <1>3 DEF HedgeInv

LEMMA ReadPeadStep == ASSUME HedgeInv, ReadPead PROVE HedgeInv'
<1>1. /\ cycle' = "hedge" /\ outcome' = "none" /\ moved' = FALSE
      /\ UNCHANGED <<pead, hedgeRows>> /\ seen' = [seen EXCEPT !.pead = pead]
  BY DEF ReadPead
<1>2. /\ seen'.pead = pead /\ seen'.hedge = seen.hedge /\ seen'.order = seen.order
      /\ seen'.excess = seen.excess /\ seen'.rows = seen.rows
      /\ seen' = [pead |-> seen'.pead, hedge |-> seen'.hedge, order |-> seen'.order,
                  excess |-> seen'.excess, rows |-> seen'.rows]
  BY <1>1, HedgeTyped DEF HedgeTypeOK
<1>3. HedgeTypeOK'
  BY <1>1, <1>2, HedgeTyped DEF HedgeTypeOK, RowsByIds
<1>4. OrderKnown' /\ CycleKnows' /\ HedgeAfterCycle'
  BY <1>1, <1>2 DEF OrderKnown, CycleKnows, HedgeAfterCycle
<1> QED BY <1>3, <1>4 DEF HedgeInv

LEMMA ReadHedgeStep == ASSUME HedgeInv, ReadHedge PROVE HedgeInv'
<1> DEFINE h == Total(hedgeRows)
           near == seen.pead - h \in -Tolerance..Tolerance /\ ~(seen.pead = 0 /\ h > 0)
<1>1. /\ UNCHANGED <<moved, pead, hedgeRows>> /\ cycle = "hedge" /\ h \in Nat
      /\ seen.pead \in Nat /\ RowsByIds(hedgeRows)
      /\ ~moved => seen.pead = pead
  BY HedgeTyped DEF ReadHedge, Outside, CycleKnows
<1>2. CASE near
  <2>1. EndsAs("within")
    BY <1>2 DEF ReadHedge
  <2>2. HedgeAfterCycle'
    <3> SUFFICES ASSUME ~moved
                 PROVE  h <= pead + Tolerance /\ (pead = 0 => h = 0)
      BY <1>1, <2>1 DEF HedgeAfterCycle, EndsAs, Total
    <3> QED BY <1>1, <1>2, ToleranceHalf
  <2>3. RowsByIds(hedgeRows')
    BY <1>1
  <2> QED BY <1>1, <2>1, <2>2, <2>3, Ended
<1>3. CASE ~near
  <2>1. cycle' = "quote" /\ seen' = [seen EXCEPT !.hedge = h] /\ UNCHANGED outcome
    BY <1>3 DEF ReadHedge
  <2>2. /\ seen'.pead = seen.pead /\ seen'.hedge = h /\ seen'.order = seen.order
        /\ seen'.excess = seen.excess /\ seen'.rows = seen.rows
        /\ seen' = [pead |-> seen'.pead, hedge |-> seen'.hedge, order |-> seen'.order,
                    excess |-> seen'.excess, rows |-> seen'.rows]
    BY <2>1, HedgeTyped DEF HedgeTypeOK
  <2>3. HedgeTypeOK'
    BY <1>1, <2>1, <2>2, HedgeTyped DEF HedgeTypeOK, RowsByIds
  <2>4. CycleKnows'
    <3>1. ~moved => outcome = "none"
      BY <1>1, HedgeTyped DEF CycleKnows
    <3>2. Total(hedgeRows)' = h
      BY <1>1 DEF Total
    <3> QED BY <1>1, <2>1, <2>2, <3>1, <3>2 DEF CycleKnows
  <2>5. OrderKnown' /\ HedgeAfterCycle'
    BY <1>1, <2>1, HedgeTyped DEF OrderKnown, HedgeAfterCycle, Total
  <2> QED BY <2>3, <2>4, <2>5 DEF HedgeInv
<1> QED BY <1>2, <1>3

LEMMA QuoteStep == ASSUME HedgeInv, Quote PROVE HedgeInv'
<1>1. /\ UNCHANGED <<moved, pead, hedgeRows, outcome, seen>> /\ cycle = "quote"
      /\ cycle' = IF seen.pead - seen.hedge > Tolerance THEN "gross" ELSE "rows"
  BY DEF Quote, Outside
<1>2. ~moved => seen.hedge = Total(hedgeRows)
  BY <1>1, HedgeTyped DEF CycleKnows
<1> QED BY <1>1, <1>2, WentOn

LEMMA CycleDiesStep == ASSUME HedgeInv, CycleDies PROVE HedgeInv'
<1>1. UNCHANGED <<moved, pead, hedgeRows>> /\ EndsAs("failed")
  BY DEF CycleDies, Outside
<1>2. HedgeAfterCycle' /\ RowsByIds(hedgeRows')
  BY <1>1, HedgeTyped DEF HedgeAfterCycle, EndsAs
<1> QED BY <1>1, <1>2, Ended

\* What CheckGross let pass is still what the lots were counted for.
LEMMA CheckGrossStep == ASSUME HedgeInv, CheckGross PROVE HedgeInv'
<1>1. UNCHANGED <<moved, pead, hedgeRows>> /\ cycle = "gross"
  BY DEF CheckGross, Outside
<1>2. CASE EndsAs("refused")
  <2>1. HedgeAfterCycle' /\ RowsByIds(hedgeRows')
    BY <1>1, <1>2, HedgeTyped DEF HedgeAfterCycle, EndsAs
  <2> QED BY <1>1, <1>2, <2>1, Ended
<1>3. ASSUME NEW share \in 0..MaxShare, cycle' = "insert", UNCHANGED outcome,
             seen' = [seen EXCEPT !.order = Lots * LotValue - share]
      PROVE  HedgeInv'
  <2> DEFINE bought == Lots * LotValue
             order == bought - share
  <2>1. bought \in Nat /\ bought >= LotValue
    BY HedgeTyped, LotsPositive
  <2>2. order \in Nat \ {0}
    <3> HIDE DEF bought
    <3> QED BY <2>1, HedgeConstants
  <2>3. /\ seen'.pead = seen.pead /\ seen'.hedge = seen.hedge /\ seen'.order = order
        /\ seen'.excess = seen.excess /\ seen'.rows = seen.rows
        /\ seen' = [pead |-> seen'.pead, hedge |-> seen'.hedge, order |-> seen'.order,
                    excess |-> seen'.excess, rows |-> seen'.rows]
    BY <1>3, HedgeTyped DEF HedgeTypeOK
  <2>4. OrderKnown'
    <3>1. Lots' = Lots
      BY <2>3 DEF Lots
    <3> QED BY <2>2, <2>3, <3>1 DEF OrderKnown
  <2> HIDE DEF order
  <2>5. HedgeTypeOK'
    BY <1>1, <1>3, <2>2, <2>3, HedgeTyped DEF HedgeTypeOK, RowsByIds
  <2>6. CycleKnows'
    <3>1. ~moved => /\ seen.pead = pead /\ outcome = "none" /\ seen.hedge = Total(hedgeRows)
                    /\ seen.pead - seen.hedge > Tolerance
      BY <1>1, HedgeTyped DEF CycleKnows
    <3> QED BY <1>1, <1>3, <2>3, <3>1 DEF CycleKnows, Total
  <2>7. HedgeAfterCycle'
    BY <1>1, <1>3, HedgeTyped DEF HedgeAfterCycle, Total
  <2> QED BY <2>4, <2>5, <2>6, <2>7 DEF HedgeInv
<1> QED BY <1>2, <1>3 DEF CheckGross

LEMMA InsertHedgeStep == ASSUME HedgeInv, InsertHedge PROVE HedgeInv'
<1>2. /\ UNCHANGED <<moved, pead>> /\ EndsAs("extended") /\ cycle = "insert"
      /\ hedgeRows' = [i \in DOMAIN hedgeRows \cup {NextId} |->
                         IF i = NextId THEN seen.order ELSE hedgeRows[i]]
  BY DEF InsertHedge, Outside
<1>1. PICK share \in 0..MaxShare : seen.order = Lots * LotValue - share
  BY <1>2, HedgeTyped DEF OrderKnown
<1> DEFINE bought == Lots * LotValue
           v == bought - share
<1>3. bought \in Nat /\ bought >= LotValue
  BY HedgeTyped, LotsPositive
<1>4. v \in Nat \ {0} /\ share \in Nat /\ share <= MaxShare
  <2> HIDE DEF bought
  <2> QED BY <1>3, HedgeConstants
<1>5. NextId \in Nat /\ NextId \notin DOMAIN hedgeRows /\ RowsByIds(hedgeRows)
  BY HedgeTyped, NextIdFree
<1>6. RowsByIds(hedgeRows') /\ Total(hedgeRows') = Total(hedgeRows) + v
  <2>1. hedgeRows' = [i \in DOMAIN hedgeRows \cup {NextId} |-> IF i = NextId THEN v ELSE hedgeRows[i]]
    BY <1>1, <1>2
  <2> DEFINE next == NextId
             more == hedgeRows'
  <2>2. more = [i \in DOMAIN hedgeRows \cup {next} |-> IF i = next THEN v ELSE hedgeRows[i]]
    BY <2>1
  <2>3. next \in Nat /\ next \notin DOMAIN hedgeRows
    BY <1>5
  <2> HIDE DEF v, next, more
  <2>4. RowsByIds(more) /\ Total(more) = Total(hedgeRows) + v
    BY <1>4, <1>5, <2>2, <2>3, WithRow
  <2> QED BY <2>4 DEF more
<1>7. HedgeAfterCycle'
  <2> SUFFICES ASSUME ~moved
               PROVE  /\ Total(hedgeRows') <= pead + Tolerance
                      /\ pead = 0 => Total(hedgeRows') = 0
                      /\ pead - Total(hedgeRows') <= Tolerance + MaxShare
    BY <1>2 DEF HedgeAfterCycle, EndsAs
  <2>1. seen.pead = pead /\ seen.hedge = Total(hedgeRows) /\ seen.pead - seen.hedge > Tolerance
    BY <1>2, HedgeTyped DEF CycleKnows
  <2>2. pead - Total(hedgeRows) - bought \in -Tolerance..Tolerance
    BY <2>1, HedgeTyped, LotsNear
  <2>3. pead \in Nat /\ Total(hedgeRows) \in Nat /\ Tolerance \in Nat /\ MaxShare \in Nat
    BY HedgeTyped, ToleranceHalf, HedgeConstants
  <2> HIDE DEF bought
  <2>4. Total(hedgeRows') = Total(hedgeRows) + bought - share
    BY <1>3, <1>4, <1>6, <2>3
  <2>5. pead # 0
    BY <2>1, <2>3
  <2> QED BY <1>3, <1>4, <2>2, <2>3, <2>4, <2>5
<1> QED BY <1>2, <1>6, <1>7, Ended

LEMMA ReadRowsStep == ASSUME HedgeInv, ReadRows PROVE HedgeInv'
<1>1. /\ UNCHANGED <<moved, pead, hedgeRows, outcome>> /\ cycle = "rows" /\ cycle' = "close"
      /\ seen' = [seen EXCEPT !.excess = seen.hedge - seen.pead, !.rows = hedgeRows]
  BY DEF ReadRows, Outside
<1>2. /\ seen'.pead = seen.pead /\ seen'.hedge = seen.hedge /\ seen'.rows = hedgeRows
      /\ seen'.order = seen.order /\ seen'.excess = seen.hedge - seen.pead
      /\ seen' = [pead |-> seen'.pead, hedge |-> seen'.hedge, order |-> seen'.order,
                  excess |-> seen'.excess, rows |-> seen'.rows]
  BY <1>1, HedgeTyped DEF HedgeTypeOK
<1>3. HedgeTypeOK'
  <2>1. seen'.excess \in Int
    BY <1>2, HedgeTyped
  <2> QED BY <1>1, <1>2, <2>1, HedgeTyped DEF HedgeTypeOK, RowsByIds
<1>4. CycleKnows'
  <2>1. ~moved => seen.pead = pead /\ outcome = "none" /\ seen.hedge = Total(hedgeRows)
    BY <1>1, HedgeTyped DEF CycleKnows
  <2>2. Total(hedgeRows)' = Total(hedgeRows)
    BY <1>1 DEF Total
  <2> QED BY <1>1, <1>2, <2>1, <2>2 DEF CycleKnows
<1>5. OrderKnown' /\ HedgeAfterCycle'
  BY <1>1, HedgeTyped DEF OrderKnown, HedgeAfterCycle, Total
<1> QED BY <1>3, <1>4, <1>5 DEF HedgeInv

\* The loop ends when the excess is small or nothing is left to close; and what
\* it takes off the excess is what the closed row was worth.
LEMMA CloseRowStep == ASSUME HedgeInv, CloseRow PROVE HedgeInv'
<1>1. UNCHANGED <<moved, pead>> /\ cycle = "close"
  BY DEF CloseRow, Outside
<1>2. ~moved => /\ seen.pead = pead /\ outcome = "none" /\ seen.rows = hedgeRows
                /\ seen.excess = Total(hedgeRows) - pead
  BY <1>1, HedgeTyped DEF CycleKnows
<1>3. CASE seen.rows = NoRows \/ Enough
  <2>1. EndsAs("shrunk") /\ UNCHANGED hedgeRows
    BY <1>3 DEF CloseRow
  <2>2. HedgeAfterCycle'
    <3> SUFFICES ASSUME ~moved
                 PROVE  Total(hedgeRows) <= pead + Tolerance /\ (pead = 0 => Total(hedgeRows) = 0)
      BY <1>1, <2>1 DEF HedgeAfterCycle, EndsAs, Total
    <3>1. pead \in Nat /\ Total(hedgeRows) \in Nat /\ Tolerance \in Nat
      BY HedgeTyped, ToleranceHalf
    <3>2. CASE seen.rows = NoRows
      BY <1>2, <3>1, <3>2, TotalOfNone
    <3>3. CASE Enough
      BY <1>2, <3>1, <3>3 DEF Enough
    <3> QED BY <1>3, <3>2, <3>3
  <2>3. RowsByIds(hedgeRows')
    BY <2>1, HedgeTyped
  <2> QED BY <1>1, <2>1, <2>2, <2>3, Ended
<1>4. CASE ~(seen.rows = NoRows \/ Enough)
  <2> DEFINE newest == Max(DOMAIN seen.rows)
  <2>1. /\ hedgeRows' = Without(hedgeRows, newest)
        /\ seen' = [seen EXCEPT !.rows = Without(seen.rows, newest),
                                !.excess = seen.excess - seen.rows[newest]]
        /\ UNCHANGED <<cycle, outcome>>
    BY <1>4 DEF CloseRow
  <2>2. newest \in DOMAIN seen.rows
    <3>1. RowsByIds(seen.rows) /\ seen.rows # NoRows
      BY <1>4, HedgeTyped
    <3>2. DOMAIN seen.rows \in SUBSET Nat /\ IsFiniteSet(DOMAIN seen.rows) /\ DOMAIN seen.rows # {}
      BY <3>1, NoRowsOnly DEF RowsByIds
    <3> QED BY <3>2, LargestNumber
  <2> HIDE DEF newest
  <2>3. /\ seen'.pead = seen.pead /\ seen'.hedge = seen.hedge
        /\ seen'.rows = Without(seen.rows, newest) /\ seen'.order = seen.order
        /\ seen'.excess = seen.excess - seen.rows[newest]
        /\ seen' = [pead |-> seen'.pead, hedge |-> seen'.hedge, order |-> seen'.order,
                    excess |-> seen'.excess, rows |-> seen'.rows]
    BY <2>1, HedgeTyped DEF HedgeTypeOK
  <2>4. /\ RowsByIds(Without(seen.rows, newest))
        /\ Total(Without(seen.rows, newest)) = Total(seen.rows) - seen.rows[newest]
        /\ seen.rows[newest] \in Nat
    BY <2>2, HedgeTyped, WithoutRow DEF RowsByIds
  <2>5. RowsByIds(Without(hedgeRows, newest))
    BY HedgeTyped, RowsLeft
  <2>6. HedgeTypeOK'
    <3>1. seen'.excess \in Int
      BY <2>3, <2>4, HedgeTyped
    <3>2. RowsByIds(hedgeRows)' /\ RowsByIds(seen.rows)'
      BY <2>1, <2>3, <2>4, <2>5
    <3> QED BY <1>1, <2>1, <2>3, <3>1, <3>2, HedgeTyped DEF HedgeTypeOK
  <2>7. CycleKnows'
    <3>1. ~moved => /\ seen'.rows = hedgeRows'
                    /\ seen'.excess = Total(hedgeRows') - pead
      <4>1. Total(seen.rows) \in Nat /\ pead \in Nat
        BY HedgeTyped, TotalIsNat
      <4> QED BY <1>2, <2>1, <2>3, <2>4, <4>1
    <3> QED BY <1>1, <1>2, <2>1, <2>3, <3>1 DEF CycleKnows
  <2>8. OrderKnown' /\ HedgeAfterCycle'
    BY <1>1, <1>2, <2>1 DEF OrderKnown, HedgeAfterCycle
  <2> QED BY <2>6, <2>7, <2>8 DEF HedgeInv
<1> QED BY <1>3, <1>4

\* Whoever moves the book, the cycle is no longer undisturbed.
LEMMA BookMovesStep == ASSUME HedgeInv, BookMoves PROVE HedgeInv'
<1>1. moved' = TRUE /\ UNCHANGED <<cycle, seen, outcome>>
  BY DEF BookMoves
<1>2. pead' \in 0..MaxPead /\ RowsByIds(hedgeRows')
  <2>1. CASE pead' \in 0..MaxPead \ {pead} /\ UNCHANGED hedgeRows
    BY <2>1, HedgeTyped
  <2>2. ASSUME NEW i \in DOMAIN hedgeRows, hedgeRows' = Without(hedgeRows, i), UNCHANGED pead
        PROVE  pead' \in 0..MaxPead /\ RowsByIds(hedgeRows')
    BY <2>2, HedgeTyped, WithoutRow
  <2> QED BY <2>1, <2>2 DEF BookMoves
<1>3. HedgeTypeOK'
  BY <1>1, <1>2, HedgeTyped DEF HedgeTypeOK, RowsByIds
<1>4. CycleKnows' /\ HedgeAfterCycle'
  BY <1>1 DEF CycleKnows, HedgeAfterCycle
<1>5. OrderKnown'
  BY <1>1, HedgeTyped DEF OrderKnown, Lots
<1> QED BY <1>3, <1>4, <1>5 DEF HedgeInv

LEMMA HedgeStays == HedgeInv /\ UNCHANGED hedgeVars => HedgeInv'
<1> SUFFICES ASSUME HedgeInv, UNCHANGED hedgeVars PROVE HedgeInv'
  OBVIOUS
<1>1. UNCHANGED <<pead, hedgeRows, cycle, seen, outcome, moved>>
  BY DEF hedgeVars
<1>2. HedgeTypeOK'
  BY <1>1, HedgeTyped DEF HedgeTypeOK, RowsByIds
<1>3. OrderKnown' /\ CycleKnows' /\ HedgeAfterCycle'
  BY <1>1, HedgeTyped DEF OrderKnown, CycleKnows, HedgeAfterCycle, Lots, Tolerance, Total
<1> QED BY <1>2, <1>3 DEF HedgeInv

LEMMA HedgeSteps == HedgeInv /\ [HedgeNext]_hedgeVars => HedgeInv'
<1> SUFFICES ASSUME HedgeInv, [HedgeNext]_hedgeVars PROVE HedgeInv'
  OBVIOUS
<1>1. CASE HedgeStep
  BY <1>1, ReadPeadStep, ReadHedgeStep, QuoteStep, CheckGrossStep, InsertHedgeStep,
     ReadRowsStep, CloseRowStep DEF HedgeStep
<1>2. CASE CycleDies
  BY <1>2, CycleDiesStep
<1>3. CASE BookMoves
  BY <1>3, BookMovesStep
<1>4. CASE UNCHANGED hedgeVars
  BY <1>4, HedgeStays
<1> QED BY <1>1, <1>2, <1>3, <1>4 DEF HedgeNext

\* A cycle of the hedge that nothing disturbs ends with the hedge within the
\* tolerance of the book, and an empty book unhedged, for any lot, band and cap
\* (papertrade/main.py, hedge_loop).
THEOREM HedgeAfterCycleHolds == HedgeSpec => []HedgeAfterCycle
<1>1. HedgeInv => HedgeAfterCycle
  BY DEF HedgeInv
<1> QED BY <1>1, HedgeStart, HedgeSteps, PTL DEF HedgeSpec

-----------------------------------------------------------------------------
(* DailyTables.                                                            *)

\* The day is loaded for the job, or a run of that evening did not get it.
Settled(j, d, e) ==
  closes[d][j] = File(j) \/ closes[d]["bse"] = "BSE" \/ <<File(j), d, e>> \in gaps

\* A file brings its own names before it brings any of those listed twice.
FilesWhole ==
  \A d \in Days, k \in NameKinds :
    /\ closes[d][k] = "NSE" => closes[d]["nse"] = "NSE"
    /\ closes[d][k] = "BSE" => closes[d]["bse"] = "BSE"

LoadSound(j) ==
  /\ load[j].at = "idle" => load[j] = Asleep
  /\ load[j].at \in {"fetch", "insert"} => load[j].left # {}
  /\ load[j].at = "insert" => Trading(InHand(j))
  /\ \A d \in load[j].left \cup load[j].held : d <= today
  /\ \A d \in load[j].held : Trading(d)

\* What a daily run still has before it.
Reaches(j) ==
  load[j].at # "idle" =>
    /\ j \notin due
    /\ \A d \in LookBack(today, DailyDays) :
         Trading(d) => d \in load[j].left \cup load[j].held \/ Settled(j, d, today)

DailyDone ==
  \A e \in Evenings, j \in Daily : Done(j, e) =>
    \A d \in LookBack(e, DailyDays) : Trading(d) => Settled(j, d, e)

DealsOk(e) == \A p \in Published(e) : p \in deals \/ <<p[1], p[2], e>> \in gaps
OiOk(e) == \A d \in OiWanted(e) : d \in oi \/ <<"OI", d, e>> \in gaps

TablesInv ==
  /\ TablesTypeOK /\ FilesWhole /\ ClosesTrue
  /\ \A j \in Loads : LoadSound(j)
  /\ \A j \in Daily : Reaches(j)
  /\ DailyDone /\ OiAccounted /\ DealsAccounted
  /\ due # {} => ~Weekend(today)

-----------------------------------------------------------------------------
(* Days.                                                                   *)

LEMMA MaxDay ==
  ASSUME NEW S \in SUBSET Days, S # {}
  PROVE  (CHOOSE d \in S : \A e \in S : e <= d) \in S
<1> DEFINE T == {n \in 0..LastDay : LastDay - n \in S}
<1>1. LastDay \in Nat
  BY TablesAssumption
<1>2. T \in SUBSET Nat /\ T # {}
  <2>1. PICK d \in S : TRUE
    OBVIOUS
  <2>2. LastDay - d \in 0..LastDay /\ LastDay - (LastDay - d) = d
    BY <1>1, <2>1 DEF Days
  <2> QED BY <1>1, <2>1, <2>2
<1>3. PICK n \in T : \A m \in T : n <= m
  BY <1>2, LeastNumber
<1>4. ASSUME NEW e \in S PROVE e <= LastDay - n
  <2>1. LastDay - e \in 0..LastDay /\ LastDay - (LastDay - e) = e
    BY <1>1 DEF Days
  <2>2. LastDay - e \in T
    BY <2>1
  <2>3. n <= LastDay - e
    BY <1>3, <2>2
  <2> QED BY <1>1, <2>1, <2>3 DEF Days
<1>5. LastDay - n \in S /\ \A e \in S : e <= LastDay - n
  BY <1>3, <1>4
<1> QED BY <1>5

LEMMA WindowIs ==
  ASSUME NEW e \in Nat, NEW n
  PROVE  LookBack(e, n) \in SUBSET Days /\ \A d \in LookBack(e, n) : d <= e
<1>1. LastWeekday(e) \in Int /\ LastWeekday(e) <= e
  BY DEF LastWeekday
<1> QED BY <1>1 DEF LookBack, Days

LEMMA DayBounds == today \in FirstDay..LastDay => today \in Nat /\ today \in Days
BY TablesAssumption DEF Days

LEMMA DailyIs ==
  /\ Daily \in SUBSET Loads /\ Daily \in SUBSET NameKinds
  /\ \A j \in Loads : File(j) \in Sources /\ (File(j) = "BSE" <=> j = "bse")
  /\ \A j \in Daily : File(j) = "NSE" <=> j = "nse"
BY DEF Daily, Loads, NameKinds, Sources, File

\* A date that counts as loaded has the names of its own exchange, or of BSE.
LEMMA PresentIs ==
  ASSUME closes \in [Days -> [NameKinds -> Sources \cup {"none"}]], FilesWhole, ClosesTrue,
         NEW j \in Daily, NEW d \in Days, Present(File(j), d), NEW e
  PROVE  Settled(j, d, e)
<1>1. \A k \in NameKinds : closes[d][k] \in {"NSE", "BSE", "none"} /\ Names[k] \in Nat
  BY TablesAssumption DEF Sources
<1>2. ASSUME j = "bse" PROVE closes[d]["bse"] = "BSE"
  <2>1. Threshold \in Int /\ Names["both"] < Threshold
    BY TablesAssumption DEF Threshold, NameKinds
  <2>2. Has(d, "both") + Has(d, "bse") >= Threshold
    BY <1>2 DEF Present, File
  <2>3. Has(d, "both") \in Nat /\ Has(d, "both") <= Names["both"]
    BY <1>1 DEF Has, NameKinds
  <2>4. closes[d]["bse"] # "none"
    BY <1>1, <2>1, <2>2, <2>3 DEF Has, NameKinds
  <2> QED BY <1>1, <2>4 DEF ClosesTrue, Covers, NameKinds
<1>3. ASSUME j = "nse" PROVE closes[d]["nse"] = "NSE" \/ closes[d]["bse"] = "BSE"
  <2>1. Has(d, "nse") + Has(d, "both") + Has(d, "bse") > EnoughRows /\ EnoughRows \in Nat
    BY <1>3, TablesAssumption DEF Present, File
  <2>2. \E k \in NameKinds : closes[d][k] # "none"
    BY <1>1, <2>1 DEF Has, NameKinds
  <2> QED BY <1>1, <2>2 DEF FilesWhole
<1> QED BY <1>2, <1>3 DEF Settled, Daily, File

-----------------------------------------------------------------------------
(* What holds when the history grows.                                      *)

\* Closes stay, and so does what was gaps.
Grows ==
  /\ \A d \in Days, k \in NameKinds : closes[d][k] # "none" => closes'[d][k] = closes[d][k]
  /\ gaps \subseteq gaps'

LEMMA SettledStays ==
  ASSUME closes \in [Days -> [NameKinds -> Sources \cup {"none"}]], Grows,
         NEW j \in Daily, NEW d \in Days, NEW e, Settled(j, d, e)
  PROVE  Settled(j, d, e)'
<1>1. File(j) # "none" /\ "BSE" # "none" /\ j \in NameKinds /\ "bse" \in NameKinds
  BY DEF Daily, File, NameKinds
<1> QED BY <1>1 DEF Settled, Grows, File

LEMMA Filling ==
  ASSUME closes \in [Days -> [NameKinds -> Sources \cup {"none"}]], FilesWhole, ClosesTrue,
         NEW j \in Loads, NEW days \in SUBSET Days, today \in Nat,
         \A d \in days : Trading(d) /\ d <= today,
         closes' = Filled(File(j), days), UNCHANGED today
  PROVE  /\ closes' \in [Days -> [NameKinds -> Sources \cup {"none"}]]
         /\ FilesWhole' /\ ClosesTrue'
         /\ \A d \in Days, k \in NameKinds : closes[d][k] # "none" => closes'[d][k] = closes[d][k]
         /\ j \in Daily => \A d \in days : closes'[d][j] = File(j)
<1>1. File(j) \in {"NSE", "BSE"}
  BY DEF File
<1>2. \A d \in Days, k \in NameKinds :
        closes'[d][k] = IF d \in days /\ k \in Covers(File(j)) /\ closes[d][k] = "none"
                        THEN File(j) ELSE closes[d][k]
  BY DEF Filled
<1>3. \A d \in Days, k \in NameKinds : closes[d][k] \in {"NSE", "BSE", "none"}
  BY DEF Sources
<1>4. closes' \in [Days -> [NameKinds -> Sources \cup {"none"}]]
  BY <1>1, <1>3 DEF Filled, Sources
<1>5. ClosesTrue'
  <2> SUFFICES ASSUME NEW d \in Days, NEW k \in NameKinds, closes'[d][k] # "none"
               PROVE  Trading(d) /\ d <= today /\ k \in Covers(closes'[d][k])
    BY DEF ClosesTrue, Trading, Covers
  <2>1. CASE d \in days /\ k \in Covers(File(j)) /\ closes[d][k] = "none"
    BY <1>2, <2>1
  <2>2. CASE ~(d \in days /\ k \in Covers(File(j)) /\ closes[d][k] = "none")
    BY <1>2, <2>2 DEF ClosesTrue
  <2> QED BY <2>1, <2>2
<1>6. FilesWhole'
  <2> SUFFICES ASSUME NEW d \in Days, NEW k \in NameKinds
               PROVE  /\ closes'[d][k] = "NSE" => closes'[d]["nse"] = "NSE"
                      /\ closes'[d][k] = "BSE" => closes'[d]["bse"] = "BSE"
    BY DEF FilesWhole
  <2>1. /\ closes[d]["nse"] \in {"NSE", "none"} /\ closes[d]["bse"] \in {"BSE", "none"}
        /\ "nse" \in NameKinds /\ "bse" \in NameKinds
    BY <1>3 DEF ClosesTrue, Covers, NameKinds
  <2>2. "nse" \in Covers("NSE") /\ "bse" \in Covers("BSE")
    BY DEF Covers
  <2>3. CASE d \in days /\ k \in Covers(File(j)) /\ closes[d][k] = "none"
    BY <1>1, <1>2, <2>1, <2>2, <2>3
  <2>4. CASE ~(d \in days /\ k \in Covers(File(j)) /\ closes[d][k] = "none")
    <3>1. closes'[d][k] = closes[d][k]
      BY <1>2, <2>4
    <3>2. /\ closes[d]["nse"] = "NSE" => closes'[d]["nse"] = "NSE"
          /\ closes[d]["bse"] = "BSE" => closes'[d]["bse"] = "BSE"
      BY <1>2, <2>1
    <3> QED BY <3>1, <3>2 DEF FilesWhole
  <2> QED BY <2>3, <2>4
<1>7. ASSUME NEW d \in days, j \in Daily PROVE closes'[d][j] = File(j)
  <2>1. j \in NameKinds /\ j \in Covers(File(j)) /\ closes[d][j] \in {File(j), "none"}
    BY <1>3, <1>7 DEF ClosesTrue, Covers, NameKinds, Daily, File
  <2> QED BY <1>2, <2>1
<1> QED BY <1>2, <1>4, <1>5, <1>6, <1>7

-----------------------------------------------------------------------------
(* The steps of a job.                                                     *)

LoadRecords ==
  [at : {"idle", "check", "fetch", "insert", "commit"}, left : SUBSET Days, held : SUBSET Days, count : Nat]

\* What nothing but the day's own steps disturbs.
LEMMA OthersStay ==
  ASSUME TablesInv, Grows, UNCHANGED today, due' \subseteq due,
         NEW i \in Loads, load'[i] = load[i]
  PROVE  /\ LoadSound(i)' /\ (i \in Daily => Reaches(i)')
<1>1. LoadSound(i)'
  BY DEF TablesInv, LoadSound, InHand, Trading, Weekend, Asleep, Job
<1>2. ASSUME i \in Daily PROVE Reaches(i)'
  <2> SUFFICES ASSUME load[i].at # "idle"
               PROVE  /\ i \notin due'
                      /\ \A d \in LookBack(today, DailyDays) : Trading(d) =>
                           d \in load[i].left \cup load[i].held \/ Settled(i, d, today)'
    BY DEF Reaches, Settled
  <2>1. /\ i \notin due
        /\ \A d \in LookBack(today, DailyDays) : Trading(d) =>
             d \in load[i].left \cup load[i].held \/ Settled(i, d, today)
    BY <1>2 DEF TablesInv, Reaches
  <2>2. closes \in [Days -> [NameKinds -> Sources \cup {"none"}]]
        /\ \A d \in LookBack(today, DailyDays) : d \in Days
    BY DEF LookBack, TablesInv, TablesTypeOK
  <2>3. \A d \in LookBack(today, DailyDays) : Settled(i, d, today) => Settled(i, d, today)'
    BY <1>2, <2>2, SettledStays DEF Settled
  <2> QED BY <2>1, <2>3
<1> QED BY <1>1, <1>2

\* The evenings that are over stay accounted for; the one of today has to be.
LEMMA DoneStays ==
  ASSUME TablesInv, Grows, UNCHANGED today,
         \A j \in Daily : Done(j, today)' =>
           \/ Done(j, today)
           \/ \A d \in LookBack(today, DailyDays) : Trading(d) => Settled(j, d, today)'
  PROVE  DailyDone'
<1> SUFFICES ASSUME NEW e \in Evenings, NEW j \in Daily, Done(j, e)',
                    NEW d \in LookBack(e, DailyDays), Trading(d)
             PROVE  Settled(j, d, e)'
  BY DEF DailyDone, Evenings, Weekend, LookBack, LastWeekday, Trading
<1>1. d \in Days /\ closes \in [Days -> [NameKinds -> Sources \cup {"none"}]]
  BY DEF LookBack, TablesInv, TablesTypeOK
<1>2. CASE Done(j, e)
  <2>1. Settled(j, d, e)
    BY <1>2 DEF TablesInv, DailyDone
  <2> QED BY <1>1, <2>1, SettledStays
<1>3. CASE ~Done(j, e)
  <2>1. e = today
    BY <1>3 DEF Done
  <2> QED BY <1>3, <2>1
<1> QED BY <1>2, <1>3

LEMMA OiStays ==
  ASSUME TablesInv, Grows, UNCHANGED <<today, oi>>, "oi" \in due => "oi" \in due'
  PROVE  OiAccounted'
<1> SUFFICES ASSUME NEW e \in Evenings, Done("oi", e)', NEW d \in OiWanted(e)
             PROVE  d \in oi \/ <<"OI", d, e>> \in gaps'
  BY DEF TablesInv, OiAccounted, Evenings, Weekend, OiWanted, Trading
<1>1. Done("oi", e)
  BY DEF Done, Daily
<1> QED BY <1>1 DEF TablesInv, OiAccounted, Grows

LEMMA DealsStay ==
  ASSUME TablesInv, Grows, UNCHANGED <<today, deals>>, "deals" \in due => "deals" \in due'
  PROVE  DealsAccounted'
<1> SUFFICES ASSUME NEW e \in Evenings, Done("deals", e)', NEW p \in Published(e)
             PROVE  p \in deals \/ <<p[1], p[2], e>> \in gaps'
  BY DEF TablesInv, DealsAccounted, Evenings, Weekend, Published, Trading
<1>1. Done("deals", e)
  BY DEF Done, Daily
<1> QED BY <1>1 DEF TablesInv, DealsAccounted, Grows

LEMMA LoadMoves ==
  ASSUME TablesInv, NEW j \in Loads, NEW next \in LoadRecords, load' = [load EXCEPT ![j] = next],
         UNCHANGED <<today, oi, deals>>, due' = due \/ (j \in Daily /\ due' = due \ {j}),
         Grows, closes' \in [Days -> [NameKinds -> Sources \cup {"none"}]], FilesWhole', ClosesTrue',
         priced' \in Days \cup {NoDay}, handLoads' \in 0..MaxByHand, tableFaults' \in 0..MaxTableFaults,
         LoadSound(j)',
         j \in Daily => /\ next.at # "idle" => j \notin due'
                        /\ \A d \in LookBack(today, DailyDays) : Trading(d) =>
                             \/ next.at # "idle" /\ d \in next.left \cup next.held
                             \/ Settled(j, d, today)'
  PROVE  TablesInv'
<1>1. TablesTypeOK'
  BY DEF TablesInv, TablesTypeOK, LoadRecords
<1>2. load'[j] = next /\ \A i \in Loads \ {j} : load'[i] = load[i]
  BY DEF TablesInv, TablesTypeOK
<1>3. due' \subseteq due
  OBVIOUS
<1>4. \A i \in Loads : LoadSound(i)'
  BY <1>2, <1>3, OthersStay
<1>5. \A i \in Daily : Reaches(i)'
  <2>1. ASSUME j \in Daily PROVE Reaches(j)'
    BY <1>2, <2>1 DEF Reaches, LookBack, LastWeekday, Weekend, Trading
  <2> QED BY <1>2, <1>3, <2>1, OthersStay, DailyIs
<1>6. DailyDone'
  <2>1. ASSUME NEW i \in Daily \ {j}, Done(i, today)' PROVE Done(i, today)
    BY <1>2, <2>1, DailyIs DEF Done, Asleep, Job
  <2>2. ASSUME j \in Daily, Done(j, today)', NEW d \in LookBack(today, DailyDays), Trading(d)
        PROVE  Settled(j, d, today)'
    <3>1. next = Asleep
      <4>1. today' = today /\ today \in Nat
        BY DayBounds DEF TablesInv, TablesTypeOK
      <4> QED BY <1>2, <2>2, <4>1 DEF Done, Asleep, Job
    <3> QED BY <2>2, <3>1 DEF Asleep, Job
  <2> QED BY <2>1, <2>2, DoneStays
<1>7. OiAccounted' /\ DealsAccounted'
  <2>1. ("oi" \in due => "oi" \in due') /\ ("deals" \in due => "deals" \in due')
    BY DEF Daily
  <2> QED BY <2>1, OiStays, DealsStay
<1>8. due' # {} => ~Weekend(today')
  BY <1>3 DEF TablesInv
<1> QED BY <1>1, <1>4, <1>5, <1>6, <1>7, <1>8 DEF TablesInv

\* The bounds of today, and a fault of the source or of the table.
LEMMA TodayIs ==
  ASSUME TablesTypeOK
  PROVE  /\ today \in Nat /\ today \in Days /\ FirstDay <= today
         /\ \A n : LookBack(today, n) \in SUBSET Days /\ \A d \in LookBack(today, n) : d <= today
<1>1. today \in FirstDay..LastDay
  BY DEF TablesTypeOK
<1>2. today \in Nat /\ today \in Days /\ FirstDay <= today
  BY <1>1, TablesAssumption DEF Days
<1> QED BY <1>2, WindowIs

LEMMA FaultCounts ==
  ASSUME TablesTypeOK, TableFault \/ UNCHANGED tableFaults
  PROVE  tableFaults' \in 0..MaxTableFaults
BY TablesAssumption DEF TablesTypeOK, TableFault

LEMMA Nothing ==
  ASSUME TablesInv, UNCHANGED <<today, closes>>, gaps \subseteq gaps'
  PROVE  /\ Grows /\ FilesWhole' /\ ClosesTrue'
         /\ closes' \in [Days -> [NameKinds -> Sources \cup {"none"}]]
BY DEF TablesInv, TablesTypeOK, Grows, FilesWhole, ClosesTrue, Trading, Weekend, Covers

LEMMA StartDailyKeeps ==
  ASSUME TablesInv, NEW j \in Daily, StartDaily(j)
  PROVE  TablesInv'
<1> DEFINE next == Job("check", LookBack(today, DailyDays), {}, 0)
<1>1. TablesTypeOK /\ j \in Loads
  BY DailyIs DEF TablesInv
<1>2. next = [at |-> "check", left |-> LookBack(today, DailyDays), held |-> {}, count |-> 0]
  BY DEF Job
<1>3. next \in LoadRecords
  BY <1>1, <1>2, TodayIs DEF LoadRecords
<1>4. load' = [load EXCEPT ![j] = next] /\ load'[j] = next
  BY <1>1 DEF StartDaily, LoadGoes, TablesTypeOK
<1>5. Grows /\ FilesWhole' /\ ClosesTrue' /\ closes' \in [Days -> [NameKinds -> Sources \cup {"none"}]]
  BY Nothing DEF StartDaily
<1>6. LoadSound(j)'
  BY <1>1, <1>2, <1>4, TodayIs DEF LoadSound, StartDaily
<1>7. /\ UNCHANGED <<today, oi, deals>> /\ due' = due \ {j}
      /\ priced' \in Days \cup {NoDay} /\ handLoads' \in 0..MaxByHand /\ tableFaults' \in 0..MaxTableFaults
  BY <1>1 DEF StartDaily, OtherTables, TablesTypeOK
<1> HIDE DEF next
<1> QED BY <1>1, <1>2, <1>3, <1>4, <1>5, <1>6, <1>7, LoadMoves

LEMMA StartByHandKeeps ==
  ASSUME TablesInv, StartByHand
  PROVE  TablesInv'
<1> DEFINE j == "byHand"
           next == Job("check", LookBack(today, ByHandDays), {}, 0)
<1>1. TablesTypeOK /\ j \in Loads /\ j \notin Daily
  BY DEF TablesInv, Loads, Daily
<1>2. next = [at |-> "check", left |-> LookBack(today, ByHandDays), held |-> {}, count |-> 0]
  BY DEF Job
<1>3. next \in LoadRecords
  BY <1>1, <1>2, TodayIs DEF LoadRecords
<1>4. load' = [load EXCEPT ![j] = next] /\ load'[j] = next
  BY <1>1 DEF StartByHand, LoadGoes, TablesTypeOK
<1>5. Grows /\ FilesWhole' /\ ClosesTrue' /\ closes' \in [Days -> [NameKinds -> Sources \cup {"none"}]]
  BY Nothing DEF StartByHand
<1>6. LoadSound(j)'
  BY <1>1, <1>2, <1>4, TodayIs DEF LoadSound, StartByHand
<1>7. /\ UNCHANGED <<today, oi, deals, due>>
      /\ priced' \in Days \cup {NoDay} /\ handLoads' \in 0..MaxByHand /\ tableFaults' \in 0..MaxTableFaults
  BY <1>1, TablesAssumption DEF StartByHand, OtherTables, TablesTypeOK
<1> HIDE DEF next, j
<1> QED BY <1>1, <1>3, <1>4, <1>5, <1>6, <1>7, LoadMoves

\* A job that leaves out the day in hand: it counts as loaded, or has no trading,
\* or is noted as gaps.
LEMMA DropIs ==
  ASSUME TablesInv, NEW j \in Loads, load[j].left # {}
  PROVE  /\ InHand(j) \in load[j].left /\ InHand(j) \in Days /\ InHand(j) <= today
         /\ \A held \in SUBSET Days : DropDay(j, held) \in LoadRecords
         /\ load[j] \in LoadRecords /\ load[j].held \in SUBSET Days
<1>1. load[j] \in LoadRecords
  BY DEF TablesInv, TablesTypeOK, LoadRecords
<1>2. InHand(j) \in load[j].left
  BY <1>1, MaxDay DEF InHand, LoadRecords
<1>3. InHand(j) \in Days /\ InHand(j) <= today
  BY <1>1, <1>2 DEF LoadRecords, TablesInv, LoadSound
<1>4. ASSUME NEW held \in SUBSET Days PROVE DropDay(j, held) \in LoadRecords
  BY <1>1 DEF DropDay, Job, LoadRecords
<1> QED BY <1>1, <1>2, <1>3, <1>4 DEF LoadRecords

\* A step of a job that changes nothing but itself, and notes what it gaps.
LEMMA JobMoves ==
  ASSUME TablesInv, NEW j \in Loads, load[j].at # "idle", NEW next \in LoadRecords,
         load' = [load EXCEPT ![j] = next], gaps \subseteq gaps',
         UNCHANGED <<today, due, closes, oi, deals, priced, handLoads>>,
         TableFault \/ UNCHANGED tableFaults,
         LoadSound(j)', next.at # "idle",
         j \in Daily => \A d \in load[j].left \cup load[j].held :
           d \in next.left \cup next.held \/ ~Trading(d) \/ Settled(j, d, today)'
  PROVE  TablesInv'
<1>1. TablesTypeOK /\ tableFaults' \in 0..MaxTableFaults
  BY FaultCounts DEF TablesInv
<1>2. Grows /\ FilesWhole' /\ ClosesTrue' /\ closes' \in [Days -> [NameKinds -> Sources \cup {"none"}]]
  BY Nothing
<1>3. ASSUME j \in Daily
      PROVE  /\ j \notin due
             /\ \A d \in LookBack(today, DailyDays) : Trading(d) =>
                  d \in next.left \cup next.held \/ Settled(j, d, today)'
  <2>1. j \notin due /\ \A d \in LookBack(today, DailyDays) : Trading(d) =>
          d \in load[j].left \cup load[j].held \/ Settled(j, d, today)
    BY <1>3 DEF TablesInv, Reaches
  <2>2. \A d \in LookBack(today, DailyDays) : Settled(j, d, today) => Settled(j, d, today)'
    BY <1>1, <1>2, <1>3, TodayIs, SettledStays DEF Settled, TablesTypeOK
  <2> QED BY <1>3, <2>1, <2>2
<1>4. priced' \in Days \cup {NoDay} /\ handLoads' \in 0..MaxByHand
  BY <1>1 DEF TablesTypeOK
<1> QED BY <1>1, <1>2, <1>3, <1>4, LoadMoves

\* What a job has after a step on the day in hand.
LEMMA JobIs ==
  ASSUME NEW at, NEW left, NEW held, NEW count
  PROVE  /\ Job(at, left, held, count).at = at /\ Job(at, left, held, count).left = left
         /\ Job(at, left, held, count).held = held /\ Job(at, left, held, count).count = count
BY DEF Job

LEMMA CheckDayKeeps ==
  ASSUME TablesInv, NEW j \in Loads, CheckDay(j)
  PROVE  TablesInv'
<1> DEFINE next == IF Present(File(j), InHand(j)) THEN DropDay(j, load[j].held) ELSE AtDay(j, "fetch")
<1>1. /\ load[j].at = "check" /\ load[j].left # {} /\ load' = [load EXCEPT ![j] = next]
      /\ UNCHANGED <<today, due, closes, oi, deals, priced, gaps, handLoads, tableFaults>>
  BY DEF CheckDay, LoadGoes, OtherTables
<1>2. /\ InHand(j) \in load[j].left /\ InHand(j) \in Days /\ load[j] \in LoadRecords
      /\ load[j].held \in SUBSET Days /\ DropDay(j, load[j].held) \in LoadRecords
  BY <1>1, DropIs
<1>3. next \in LoadRecords /\ load'[j] = next
  BY <1>1, <1>2 DEF AtDay, Job, LoadRecords, TablesInv, TablesTypeOK
<1>4. LoadSound(j)' /\ next.at # "idle"
  BY <1>1, <1>2, <1>3, JobIs DEF TablesInv, LoadSound, AtDay, DropDay, Trading, Weekend
<1>5. ASSUME j \in Daily, NEW d \in load[j].left \cup load[j].held
      PROVE  d \in next.left \cup next.held \/ Settled(j, d, today)'
  <2>1. CASE Present(File(j), InHand(j)) /\ d = InHand(j)
    <3>1. Settled(j, d, today)
      BY <1>2, <1>5, <2>1, PresentIs DEF TablesInv, TablesTypeOK, Settled
    <3> QED BY <1>1, <3>1 DEF Settled
  <2>2. CASE ~(Present(File(j), InHand(j)) /\ d = InHand(j))
    BY <1>2, <1>5, <2>2, JobIs DEF AtDay, DropDay
  <2> QED BY <2>1, <2>2
<1> HIDE DEF next
<1> QED BY <1>1, <1>3, <1>4, <1>5, JobMoves

LEMMA FetchDayKeeps ==
  ASSUME TablesInv, NEW j \in Loads, FetchDay(j)
  PROVE  TablesInv'
<1> DEFINE drop == DropDay(j, load[j].held)
           insert == AtDay(j, "insert")
<1>1. /\ load[j].at = "fetch" /\ load[j].left # {}
      /\ UNCHANGED <<today, due, closes, oi, deals, priced, handLoads>>
  BY DEF FetchDay, OtherTables, TablesInv, LoadSound
<1>2. /\ InHand(j) \in load[j].left /\ InHand(j) \in Days /\ load[j] \in LoadRecords
      /\ load[j].held \in SUBSET Days /\ drop \in LoadRecords
  BY <1>1, DropIs
<1>3. insert \in LoadRecords
  BY <1>2 DEF AtDay, Job, LoadRecords
<1>4. /\ drop.at = "check" /\ drop.left = load[j].left \ {InHand(j)} /\ drop.held = load[j].held
      /\ insert.at = "insert" /\ insert.left = load[j].left /\ insert.held = load[j].held
  BY JobIs DEF DropDay, AtDay
<1>5. \/ /\ ~Trading(InHand(j)) /\ load' = [load EXCEPT ![j] = drop]
         /\ UNCHANGED <<gaps, tableFaults>>
      \/ /\ Trading(InHand(j)) /\ load' = [load EXCEPT ![j] = insert]
         /\ UNCHANGED <<gaps, tableFaults>>
      \/ /\ TableFault /\ load' = [load EXCEPT ![j] = drop]
         /\ gaps' = gaps \cup Lost(j, {InHand(j)})
  BY DEF FetchDay, LoadGoes
<1>6. \A next \in LoadRecords : load' = [load EXCEPT ![j] = next] => load'[j] = next
  BY DEF TablesInv, TablesTypeOK
<1> HIDE DEF drop, insert
<1>7. CASE ~Trading(InHand(j)) /\ load' = [load EXCEPT ![j] = drop] /\ UNCHANGED <<gaps, tableFaults>>
  <2>1. LoadSound(j)'
    BY <1>1, <1>2, <1>4, <1>6, <1>7 DEF TablesInv, LoadSound, Trading, Weekend
  <2>2. \A d \in load[j].left \cup load[j].held : d \in drop.left \cup drop.held \/ ~Trading(d)
    BY <1>4, <1>7
  <2> QED BY <1>1, <1>2, <1>4, <1>7, <2>1, <2>2, JobMoves
<1>8. CASE Trading(InHand(j)) /\ load' = [load EXCEPT ![j] = insert] /\ UNCHANGED <<gaps, tableFaults>>
  <2>1. LoadSound(j)'
    <3>1. InHand(j)' = InHand(j)
      BY <1>3, <1>4, <1>6, <1>8 DEF InHand
    <3> QED BY <1>1, <1>3, <1>4, <1>6, <1>8, <3>1 DEF TablesInv, LoadSound, Trading, Weekend
  <2> QED BY <1>1, <1>3, <1>4, <1>8, <2>1, JobMoves
<1>9. CASE /\ TableFault /\ load' = [load EXCEPT ![j] = drop]
           /\ gaps' = gaps \cup Lost(j, {InHand(j)})
  <2>1. LoadSound(j)'
    BY <1>1, <1>2, <1>4, <1>6, <1>9 DEF TablesInv, LoadSound, Trading, Weekend
  <2>2. ASSUME j \in Daily, NEW d \in load[j].left \cup load[j].held
        PROVE  d \in drop.left \cup drop.held \/ Settled(j, d, today)'
    <3>1. Lost(j, {InHand(j)}) = {File(j)} \X {InHand(j)} \X {today}
      BY <2>2 DEF Lost, Daily
    <3>2. <<File(j), InHand(j), today'>> \in gaps'
      BY <1>1, <1>9, <3>1
    <3> QED BY <1>4, <2>2, <3>2 DEF Settled
  <2> QED BY <1>1, <1>2, <1>4, <1>9, <2>1, <2>2, JobMoves
<1> QED BY <1>5, <1>7, <1>8, <1>9

LEMMA InsertDayKeeps ==
  ASSUME TablesInv, NEW j \in Loads, InsertDay(j)
  PROVE  TablesInv'
<1> DEFINE d == InHand(j)
           count == load[j].count + 1
           drop == DropDay(j, {})
           at == IF j = "bse" \/ count % CommitEvery = 0 THEN "commit" ELSE "check"
           hold == Job(at, load[j].left \ {d}, load[j].held \cup {d}, count)
<1>1. /\ load[j].at = "insert" /\ load[j].left # {} /\ Trading(d)
      /\ UNCHANGED <<today, due, closes, oi, deals, priced, handLoads>>
  BY DEF InsertDay, OtherTables, TablesInv, LoadSound
<1>2. /\ d \in load[j].left /\ d \in Days /\ d <= today /\ load[j] \in LoadRecords
      /\ load[j].held \in SUBSET Days /\ drop \in LoadRecords
  BY <1>1, DropIs
<1>3. hold \in LoadRecords
  BY <1>2 DEF Job, LoadRecords
<1>4. /\ drop.at = "check" /\ drop.left = load[j].left \ {d} /\ drop.held = {}
      /\ hold.at = at /\ hold.left = load[j].left \ {d} /\ hold.held = load[j].held \cup {d}
  BY JobIs DEF DropDay
<1>5. \/ load' = [load EXCEPT ![j] = hold] /\ UNCHANGED <<gaps, tableFaults>>
      \/ /\ TableFault /\ load' = [load EXCEPT ![j] = drop]
         /\ gaps' = gaps \cup Lost(j, load[j].held \cup {d})
  BY DEF InsertDay, LoadGoes
<1>6. \A next \in LoadRecords : load' = [load EXCEPT ![j] = next] => load'[j] = next
  BY DEF TablesInv, TablesTypeOK
<1>7. at \in {"commit", "check"}
  OBVIOUS
<1> HIDE DEF drop, hold, at, d
<1>8. CASE load' = [load EXCEPT ![j] = hold] /\ UNCHANGED <<gaps, tableFaults>>
  <2>1. LoadSound(j)'
    BY <1>1, <1>2, <1>3, <1>4, <1>6, <1>7, <1>8 DEF TablesInv, LoadSound, Trading, Weekend
  <2>2. hold.at # "idle" /\ \A e \in load[j].left \cup load[j].held : e \in hold.left \cup hold.held
    BY <1>4, <1>7
  <2> QED BY <1>1, <1>3, <1>8, <2>1, <2>2, JobMoves
<1>9. CASE /\ TableFault /\ load' = [load EXCEPT ![j] = drop]
           /\ gaps' = gaps \cup Lost(j, load[j].held \cup {d})
  <2>1. LoadSound(j)'
    BY <1>1, <1>2, <1>4, <1>6, <1>9 DEF TablesInv, LoadSound, Trading, Weekend
  <2>2. ASSUME j \in Daily, NEW e \in load[j].left \cup load[j].held
        PROVE  e \in drop.left \cup drop.held \/ Settled(j, e, today)'
    <3>1. Lost(j, load[j].held \cup {d}) = {File(j)} \X (load[j].held \cup {d}) \X {today}
      BY <2>2 DEF Lost, Daily
    <3>2. e \in load[j].held \cup {d} => <<File(j), e, today'>> \in gaps'
      BY <1>1, <1>9, <3>1
    <3> QED BY <1>4, <2>2, <3>2 DEF Settled
  <2> QED BY <1>1, <1>2, <1>4, <1>9, <2>1, <2>2, JobMoves
<1> QED BY <1>5, <1>8, <1>9

LEMMA CommitDaysKeeps ==
  ASSUME TablesInv, NEW j \in Loads, CommitDays(j), load[j].at # "idle"
  PROVE  TablesInv'
<1> DEFINE end == load[j].at = "check" /\ load[j].left = {}
           on == Job("check", load[j].left, {}, load[j].count)
           done == IF end THEN Asleep ELSE on
<1>0. TablesTypeOK /\ today \in Nat /\ today \in Days
      /\ \A d \in LookBack(today, DailyDays) : d \in Days
  BY TodayIs DEF TablesInv
<1>1. /\ UNCHANGED <<today, due, oi, deals, handLoads>> /\ load[j] \in LoadRecords
      /\ priced' \in Days \cup {NoDay} /\ handLoads' \in 0..MaxByHand /\ tableFaults' \in 0..MaxTableFaults
  <2>1. TableFault \/ UNCHANGED tableFaults
    BY DEF CommitDays
  <2> QED BY <1>0, <2>1, FaultCounts DEF CommitDays, OtherTables, TablesTypeOK, LoadRecords
<1>2. Asleep \in LoadRecords /\ on \in LoadRecords /\ done \in LoadRecords
  BY <1>1 DEF Asleep, Job, LoadRecords
<1>3. /\ on.at = "check" /\ on.left = load[j].left /\ on.held = {}
      /\ Asleep.at = "idle" /\ Asleep.left = {} /\ Asleep.held = {}
  BY JobIs DEF Asleep
<1>4. \/ /\ closes' = Filled(File(j), load[j].held) /\ load' = [load EXCEPT ![j] = done]
         /\ UNCHANGED gaps
      \/ /\ load' = [load EXCEPT ![j] = Asleep] /\ UNCHANGED closes
         /\ gaps' = gaps \cup Lost(j, load[j].held \cup load[j].left)
  BY DEF CommitDays, LoadGoes
<1>5. \A next \in LoadRecords : load' = [load EXCEPT ![j] = next] => load'[j] = next
  BY <1>0 DEF TablesTypeOK
<1>6. ASSUME j \in Daily
      PROVE  /\ j \notin due
             /\ \A d \in LookBack(today, DailyDays) : Trading(d) =>
                  d \in load[j].left \cup load[j].held \/ Settled(j, d, today)
  BY <1>6 DEF TablesInv, Reaches
<1>7. LoadSound(j)
  BY DEF TablesInv
<1>8. load'[j] = Asleep \/ load'[j] = on
  BY <1>2, <1>4, <1>5
<1>9. LoadSound(j)'
  BY <1>1, <1>3, <1>7, <1>8 DEF LoadSound, Trading, Weekend
<1> HIDE DEF on, done
<1>10. CASE /\ closes' = Filled(File(j), load[j].held) /\ load' = [load EXCEPT ![j] = done]
            /\ UNCHANGED gaps
  <2>1. /\ load[j].held \in SUBSET Days /\ \A d \in load[j].held : Trading(d) /\ d <= today
    BY <1>1, <1>7 DEF LoadRecords, LoadSound
  <2>2. /\ closes' \in [Days -> [NameKinds -> Sources \cup {"none"}]] /\ FilesWhole' /\ ClosesTrue' /\ Grows
        /\ j \in Daily => \A d \in load[j].held : closes'[d][j] = File(j)
    BY <1>0, <1>1, <1>10, <2>1, Filling DEF TablesInv, TablesTypeOK, Grows
  <2>3. ASSUME j \in Daily, NEW d \in LookBack(today, DailyDays), Trading(d)
        PROVE  (done.at # "idle" /\ d \in done.left \cup done.held) \/ Settled(j, d, today)'
    <3>1. CASE Settled(j, d, today)
      BY <1>0, <1>1, <2>2, <2>3, <3>1, SettledStays DEF Settled, TablesTypeOK
    <3>2. CASE d \in load[j].held
      BY <2>2, <2>3, <3>2 DEF Settled
    <3>3. CASE d \in load[j].left
      <4>1. done = on
        BY <3>3 DEF done
      <4> QED BY <1>3, <3>3, <4>1
    <3> QED BY <1>6, <2>3, <3>1, <3>2, <3>3
  <2> QED BY <1>1, <1>2, <1>6, <1>9, <1>10, <2>2, <2>3, LoadMoves
<1>11. CASE /\ load' = [load EXCEPT ![j] = Asleep] /\ UNCHANGED closes
            /\ gaps' = gaps \cup Lost(j, load[j].held \cup load[j].left)
  <2>1. Grows /\ FilesWhole' /\ ClosesTrue' /\ closes' \in [Days -> [NameKinds -> Sources \cup {"none"}]]
    BY <1>1, <1>11, Nothing
  <2>2. ASSUME j \in Daily, NEW d \in LookBack(today, DailyDays), Trading(d)
        PROVE  Settled(j, d, today)'
    <3>1. CASE Settled(j, d, today)
      BY <1>0, <1>1, <2>1, <2>2, <3>1, SettledStays DEF Settled, TablesTypeOK
    <3>2. CASE d \in load[j].left \cup load[j].held
      <4>1. Lost(j, load[j].held \cup load[j].left) = {File(j)} \X (load[j].held \cup load[j].left) \X {today}
        BY <2>2 DEF Lost, Daily
      <4>2. <<File(j), d, today'>> \in gaps'
        BY <1>1, <1>11, <3>2, <4>1
      <4> QED BY <4>2 DEF Settled
    <3> QED BY <1>6, <2>2, <3>1, <3>2
  <2> QED BY <1>1, <1>2, <1>6, <1>9, <1>11, <2>1, <2>2, LoadMoves
<1> QED BY <1>4, <1>10, <1>11

-----------------------------------------------------------------------------
(* The other jobs, a restart and the end of a day.                         *)

\* A job that is begun and over at once leaves the loads as they are.
LEMMA LoadsStay ==
  ASSUME TablesInv, Grows, UNCHANGED <<today, load, closes, priced, handLoads>>, due' \subseteq due,
         due \cap Daily = due' \cap Daily, TableFault \/ UNCHANGED tableFaults,
         oi' \subseteq Days, deals' \subseteq DealLists \X Days, OiAccounted', DealsAccounted'
  PROVE  TablesInv'
<1>1. TablesTypeOK'
  <2>1. tableFaults' \in 0..MaxTableFaults
    BY FaultCounts DEF TablesInv
  <2> QED BY <2>1 DEF TablesInv, TablesTypeOK
<1>2. FilesWhole' /\ ClosesTrue'
  BY Nothing DEF Grows
<1>3. (\A i \in Loads : LoadSound(i)') /\ \A i \in Daily : Reaches(i)'
  BY OthersStay, DailyIs
<1>4. DailyDone'
  <2>1. ASSUME NEW j \in Daily, Done(j, today)' PROVE Done(j, today)
    BY <2>1 DEF Done
  <2> QED BY <2>1, DoneStays
<1>5. due' # {} => ~Weekend(today')
  BY DEF TablesInv
<1> QED BY <1>1, <1>2, <1>3, <1>4, <1>5 DEF TablesInv

\* A day whose positions are asked for is over.
LEMMA WantedBefore ==
  ASSUME NEW d \in OiWanted(today), today \in Nat
  PROVE  d \in Days /\ Trading(d) /\ d < today
BY DEF OiWanted

LEMMA SyncOiKeeps ==
  ASSUME TablesInv, SyncOi
  PROVE  TablesInv'
<1>1. TablesTypeOK /\ today \in Nat /\ today \in Days
  BY TodayIs DEF TablesInv
<1>2. /\ "oi" \in due /\ due' = due \ {"oi"} /\ UNCHANGED <<today, load, closes, deals, priced, handLoads>>
      /\ gaps \subseteq gaps' /\ (TableFault \/ UNCHANGED tableFaults)
      /\ oi \subseteq oi' /\ oi' \subseteq oi \cup OiWanted(today)
      /\ (oi' = oi \cup OiWanted(today) \/ {"OI"} \X OiWanted(today) \X {today} \subseteq gaps')
  BY DEF SyncOi
<1>3. Grows
  BY <1>2 DEF Grows
<1>5. OiAccounted'
  <2>1. ASSUME NEW e \in Evenings, Done("oi", e)', NEW d \in OiWanted(e)
        PROVE  d \in oi' \/ <<"OI", d, e>> \in gaps'
    <3>1. CASE e = today
      BY <1>2, <3>1
    <3>2. CASE e # today
      <4>1. Done("oi", e)
        BY <1>2, <2>1, <3>2 DEF Done
      <4> QED BY <1>2, <4>1 DEF TablesInv, OiAccounted
    <3> QED BY <3>1, <3>2
  <2>2. ASSUME NEW d \in oi' PROVE Trading(d) /\ d < today
    <3>1. CASE d \in oi
      BY <3>1 DEF TablesInv, OiAccounted
    <3>2. CASE d \in OiWanted(today)
      BY <1>1, <3>2, WantedBefore
    <3> QED BY <1>2, <3>1, <3>2
  <2>3. Evenings' = Evenings
    BY <1>2 DEF Evenings, Weekend
  <2> QED BY <1>2, <2>1, <2>2, <2>3 DEF OiAccounted, OiWanted, Trading, Weekend
<1>6. DealsAccounted'
  BY <1>2, <1>3, DealsStay
<1>7. due \cap Daily = due' \cap Daily /\ oi' \subseteq Days /\ deals' \subseteq DealLists \X Days
  BY <1>1, <1>2 DEF Daily, OiWanted, TablesTypeOK
<1> QED BY <1>2, <1>3, <1>5, <1>6, <1>7, LoadsStay

LEMMA SyncDealsKeeps ==
  ASSUME TablesInv, SyncDeals
  PROVE  TablesInv'
<1>1. TablesTypeOK
  BY DEF TablesInv
<1>2. /\ due = {"deals"} /\ due' = {} /\ UNCHANGED <<today, load, closes, oi, priced, handLoads>>
      /\ gaps \subseteq gaps' /\ (TableFault \/ UNCHANGED tableFaults)
      /\ deals \subseteq deals' /\ deals' \subseteq deals \cup Published(today)
  BY DEF SyncDeals
<1>3. \A p \in Published(today) : p \in deals' \/ <<p[1], p[2], today>> \in gaps'
  BY DEF SyncDeals, DealsLost
<1>4. Grows
  BY <1>2 DEF Grows
<1>5. DealsAccounted'
  <2>1. ASSUME NEW e \in Evenings, Done("deals", e)', NEW p \in Published(e)
        PROVE  p \in deals' \/ <<p[1], p[2], e>> \in gaps'
    <3>1. CASE e = today
      BY <1>3, <3>1
    <3>2. CASE e # today
      <4>1. Done("deals", e)
        BY <1>2, <2>1, <3>2 DEF Done
      <4> QED BY <1>2, <4>1 DEF TablesInv, DealsAccounted
    <3> QED BY <3>1, <3>2
  <2>2. Evenings' = Evenings
    BY <1>2 DEF Evenings, Weekend
  <2> QED BY <2>1, <2>2 DEF DealsAccounted, Published, Trading, Weekend
<1>6. OiAccounted'
  BY <1>2, <1>4, OiStays
<1>7. due \cap Daily = due' \cap Daily /\ oi' \subseteq Days /\ deals' \subseteq DealLists \X Days
  BY <1>1, <1>2 DEF Daily, Published, TablesTypeOK
<1> QED BY <1>2, <1>4, <1>5, <1>6, <1>7, LoadsStay

LEMMA WantedIs ==
  /\ \A j \in Daily : Sought(j) = {File(j)} \X LookBack(today, DailyDays) \X {today}
  /\ Sought("oi") = {"OI"} \X OiWanted(today) \X {today}
  /\ Sought("deals") = DealsLost(Published(today))
BY DEF Sought, Daily

LEMMA MonitorRestartsKeeps ==
  ASSUME TablesInv, MonitorRestarts
  PROVE  TablesInv'
<1>0. TablesTypeOK /\ today \in Nat /\ today \in Days
  BY TodayIs DEF TablesInv
<1>1. PICK still \in SUBSET due :
        /\ due' = still
        /\ gaps' = gaps \cup Stopped \cup Skipped(due \ still)
  BY DEF MonitorRestarts
<1>a. ASSUME NEW i \in due \ still PROVE Sought(i) \subseteq gaps'
  <2>1. Sought(i) \subseteq Skipped(due \ still)
    BY DEF Skipped
  <2> QED BY <1>1, <2>1
<1>2. /\ load' = [j \in Loads |-> IF j \in Daily THEN Asleep ELSE load[j]] /\ priced' = NoDay
      /\ UNCHANGED <<today, closes, deals, handLoads>> /\ gaps \subseteq gaps'
      /\ oi \subseteq oi' /\ oi' \subseteq oi \cup OiWanted(today)
      /\ tableFaults' \in 0..MaxTableFaults
  BY <1>0, <1>1, FaultCounts DEF MonitorRestarts, OtherTables
<1>3. Grows /\ FilesWhole' /\ ClosesTrue' /\ closes' \in [Days -> [NameKinds -> Sources \cup {"none"}]]
  BY <1>2, Nothing
<1>4. Asleep \in LoadRecords /\ Asleep.at = "idle" /\ Asleep.left = {} /\ Asleep.held = {}
  BY DEF Asleep, Job, LoadRecords
<1>5. /\ \A j \in Loads \ Daily : load'[j] = load[j]
      /\ \A j \in Daily : load'[j] = Asleep
  BY <1>2, DailyIs
<1>6. TablesTypeOK'
  <2>1. oi' \subseteq Days
    BY <1>0, <1>2, WantedBefore DEF TablesTypeOK
  <2> QED BY <1>0, <1>1, <1>2, <1>4, <2>1 DEF TablesTypeOK, LoadRecords
<1>7. \A j \in Loads : LoadSound(j)'
  <2>1. \A j \in Daily : LoadSound(j)'
    BY <1>4, <1>5 DEF LoadSound
  <2> QED BY <1>1, <1>2, <1>3, <1>5, <2>1, OthersStay
<1>8. \A j \in Daily : Reaches(j)'
  BY <1>4, <1>5 DEF Reaches
<1>9. ASSUME NEW j \in Daily, Done(j, today)'
      PROVE  \/ Done(j, today)
             \/ \A d \in LookBack(today, DailyDays) : Trading(d) => Settled(j, d, today)'
  <2>1. j \notin due'
    BY <1>0, <1>2, <1>9 DEF Done
  <2>2. CASE j \in due
    <3>1. Sought(j) \subseteq gaps'
      <4>1. j \in due \ still
        BY <1>1, <2>1, <2>2
      <4> QED BY <1>a, <4>1
    <3>2. Sought(j) = {File(j)} \X LookBack(today, DailyDays) \X {today}
      BY <1>9, WantedIs
    <3> QED BY <1>2, <3>1, <3>2 DEF Settled
  <2>3. CASE j \notin due /\ load[j].at # "idle"
    <3>1. SUFFICES ASSUME NEW d \in LookBack(today, DailyDays), Trading(d) PROVE Settled(j, d, today)'
      OBVIOUS
    <3>2. d \in load[j].held \cup load[j].left \/ Settled(j, d, today)
      BY <1>9, <2>3, <3>1 DEF TablesInv, Reaches
    <3>3. ASSUME d \in load[j].held \cup load[j].left PROVE <<File(j), d, today'>> \in gaps'
      <4>1. Lost(j, load[j].held \cup load[j].left) = {File(j)} \X (load[j].held \cup load[j].left) \X {today}
        BY <1>9 DEF Lost, Daily
      <4>2. Lost(j, load[j].held \cup load[j].left) \subseteq gaps'
        <5>1. Lost(j, load[j].held \cup load[j].left) \subseteq Stopped
          BY <1>9 DEF Stopped
        <5> QED BY <1>1, <5>1
      <4> QED BY <1>2, <3>3, <4>1, <4>2
    <3>4. d \in Days
      BY <1>0, TodayIs
    <3> QED BY <1>0, <1>2, <1>3, <1>9, <3>2, <3>3, <3>4, SettledStays DEF Settled, TablesTypeOK
  <2>4. CASE j \notin due /\ load[j].at = "idle"
    <3>1. load[j] = Asleep
      BY <1>9, <2>4, DailyIs DEF TablesInv, LoadSound
    <3> QED BY <2>4, <3>1 DEF Done
  <2> QED BY <2>2, <2>3, <2>4
<1>10. DailyDone'
  BY <1>2, <1>3, <1>9, DoneStays
<1>11. OiAccounted'
  <2>1. ASSUME NEW e \in Evenings, Done("oi", e)', NEW d \in OiWanted(e)
        PROVE  d \in oi' \/ <<"OI", d, e>> \in gaps'
    <3>1. CASE Done("oi", e)
      BY <1>2, <3>1 DEF TablesInv, OiAccounted
    <3>2. CASE ~Done("oi", e)
      <4>1. e = today /\ "oi" \in due /\ "oi" \notin due'
        BY <1>2, <2>1, <3>2 DEF Done, Daily
      <4>2. Sought("oi") \subseteq gaps' /\ Sought("oi") = {"OI"} \X OiWanted(today) \X {today}
        <5>1. "oi" \in due \ still
          BY <1>1, <4>1
        <5> QED BY <1>a, <5>1, WantedIs
      <4> QED BY <4>1, <4>2
    <3> QED BY <3>1, <3>2
  <2>2. Evenings' = Evenings
    BY <1>2 DEF Evenings, Weekend
  <2>3. ASSUME NEW d \in oi' PROVE Trading(d) /\ d < today
    <3>1. CASE d \in oi
      BY <3>1 DEF TablesInv, OiAccounted
    <3>2. CASE d \in OiWanted(today)
      BY <1>0, <3>2, WantedBefore
    <3> QED BY <1>2, <3>1, <3>2
  <2> QED BY <1>2, <2>1, <2>2, <2>3 DEF OiAccounted, OiWanted, Trading, Weekend
<1>12. DealsAccounted'
  <2>1. ASSUME NEW e \in Evenings, Done("deals", e)', NEW p \in Published(e)
        PROVE  p \in deals \/ <<p[1], p[2], e>> \in gaps'
    <3>1. CASE Done("deals", e)
      BY <1>2, <3>1 DEF TablesInv, DealsAccounted
    <3>2. CASE ~Done("deals", e)
      <4>1. e = today /\ "deals" \in due /\ "deals" \notin due'
        BY <1>2, <2>1, <3>2 DEF Done, Daily
      <4>2. Sought("deals") \subseteq gaps' /\ Sought("deals") = DealsLost(Published(today))
        <5>1. "deals" \in due \ still
          BY <1>1, <4>1
        <5> QED BY <1>a, <5>1, WantedIs
      <4> QED BY <4>1, <4>2 DEF DealsLost
    <3> QED BY <3>1, <3>2
  <2>2. Evenings' = Evenings
    BY <1>2 DEF Evenings, Weekend
  <2> QED BY <1>2, <2>1, <2>2 DEF DealsAccounted, Published, Trading, Weekend
<1>13. due' # {} => ~Weekend(today')
  BY <1>1, <1>2 DEF TablesInv
<1> QED BY <1>3, <1>6, <1>7, <1>8, <1>10, <1>11, <1>12, <1>13 DEF TablesInv

LEMMA DayOverKeeps ==
  ASSUME TablesInv, DayOver
  PROVE  TablesInv'
<1>0. TablesTypeOK /\ today \in Nat /\ FirstDay <= today /\ FirstDay \in Nat /\ LastDay \in Nat
  BY TodayIs, TablesAssumption DEF TablesInv
<1>1. /\ today < LastDay /\ due = {} /\ today' = today + 1 /\ due' = DueOn(today')
      /\ \A j \in Daily : load[j] = Asleep
      /\ UNCHANGED <<load, closes, oi, deals, priced, gaps, handLoads, tableFaults>>
  BY DEF DayOver, OtherTables
<1>2. TablesTypeOK'
  BY <1>0, <1>1 DEF TablesTypeOK, DueOn
<1>3. FilesWhole' /\ ClosesTrue'
  BY <1>0, <1>1 DEF TablesInv, FilesWhole, ClosesTrue, Trading, Weekend, Covers, Days
<1>4. \A j \in Loads : LoadSound(j)'
  <2>1. \A j \in Loads : LoadSound(j) /\ load[j] \in LoadRecords
    BY <1>0 DEF TablesInv, TablesTypeOK, LoadRecords
  <2>2. SUFFICES ASSUME NEW j \in Loads PROVE LoadSound(j)'
    OBVIOUS
  <2>3. \A d \in load[j].left \cup load[j].held : d <= today + 1
    BY <1>0, <2>1 DEF LoadSound, LoadRecords, Days
  <2> QED BY <1>1, <2>1, <2>3 DEF LoadSound, InHand, Trading, Weekend
<1>5. \A j \in Daily : Reaches(j)'
  BY <1>1 DEF Reaches, Asleep, Job
<1>6. ASSUME NEW e \in Evenings', NEW j \in Evening, Done(j, e)'
      PROVE  e \in Evenings /\ Done(j, e)
  <2>1. e \in FirstDay..(today + 1) /\ ~Weekend(e)
    BY <1>1, <1>6 DEF Evenings, Weekend
  <2>2. ASSUME e = today + 1 PROVE FALSE
    <3>1. due' = Evening
      BY <1>1, <2>1, <2>2 DEF DueOn
    <3> QED BY <1>0, <1>1, <1>6, <2>2, <3>1 DEF Done
  <2>3. e \in Evenings
    BY <1>0, <2>1, <2>2 DEF Evenings
  <2>4. e <= today /\ e \in Int
    BY <1>0, <2>1, <2>2
  <2>5. e < today \/ e = today
    BY <1>0, <2>4
  <2> QED BY <1>1, <2>3, <2>5 DEF Done
<1>7. DailyDone'
  <2>1. Daily \subseteq Evening
    BY DEF Evening
  <2> QED BY <1>1, <1>6, <2>1 DEF TablesInv, DailyDone, LookBack, LastWeekday, Weekend, Trading, Settled
<1>8. OiAccounted'
  <2>1. "oi" \in Evening
    BY DEF Evening
  <2>2. ASSUME NEW e \in Evenings', Done("oi", e)', NEW d \in OiWanted(e)
        PROVE  d \in oi \/ <<"OI", d, e>> \in gaps
    BY <1>6, <2>1, <2>2 DEF TablesInv, OiAccounted
  <2>3. ASSUME NEW d \in oi PROVE Trading(d) /\ d < today'
    <3>1. Trading(d) /\ d < today /\ d \in Int
      BY <1>0, <2>3 DEF TablesInv, OiAccounted, TablesTypeOK, Days
    <3> QED BY <1>0, <1>1, <3>1
  <2> QED BY <1>1, <2>2, <2>3 DEF OiAccounted, OiWanted, Weekend, Trading
<1>9. DealsAccounted'
  <2>1. "deals" \in Evening
    BY DEF Evening
  <2> QED BY <1>1, <1>6, <2>1 DEF TablesInv, DealsAccounted, Published, Weekend, Trading
<1>10. due' # {} => ~Weekend(today')
  BY <1>1 DEF DueOn, Weekend
<1> QED BY <1>2, <1>3, <1>4, <1>5, <1>7, <1>8, <1>9, <1>10 DEF TablesInv

-----------------------------------------------------------------------------
(* The theorem.                                                            *)

LEMMA TablesInitHolds == TablesInit => TablesInv
<1> SUFFICES ASSUME TablesInit PROVE TablesInv
  OBVIOUS
<1>1. /\ today = FirstDay /\ due = DueOn(FirstDay) /\ load = [j \in Loads |-> Asleep]
      /\ closes = [d \in Days |-> [k \in NameKinds |-> "none"]] /\ deals = {} /\ priced = NoDay
      /\ gaps = {} /\ handLoads = 0 /\ tableFaults = 0 /\ oi \subseteq OiWanted(FirstDay)
  BY DEF TablesInit
<1>2. FirstDay \in Nat /\ LastDay \in Nat /\ FirstDay <= LastDay /\ MaxByHand \in Nat /\ MaxTableFaults \in Nat
  BY TablesAssumption
<1>3. Asleep \in LoadRecords /\ Asleep.at = "idle" /\ Asleep.left = {} /\ Asleep.held = {}
  BY DEF Asleep, Job, LoadRecords
<1>4. TablesTypeOK
  BY <1>1, <1>2, <1>3 DEF TablesTypeOK, LoadRecords, DueOn, OiWanted
<1>5. \A j \in Loads : LoadSound(j)
  BY <1>1, <1>3 DEF LoadSound
<1>6. \A j \in Daily : Reaches(j)
  BY <1>1, <1>3, DailyIs DEF Reaches
<1>7. \A e \in Evenings, j \in Evening : ~Done(j, e)
  <2> SUFFICES ASSUME NEW e \in Evenings, NEW j \in Evening PROVE ~Done(j, e)
    OBVIOUS
  <2>1. e = FirstDay /\ ~Weekend(e)
    BY <1>1, <1>2 DEF Evenings
  <2> QED BY <1>1, <1>2, <2>1 DEF Done, DueOn
<1>8. DailyDone /\ OiAccounted /\ DealsAccounted
  <2>1. \A d \in oi : Trading(d) /\ d < today
    BY <1>1, <1>2, WantedBefore
  <2> QED BY <1>1, <1>7, <2>1 DEF DailyDone, OiAccounted, DealsAccounted, Evening
<1>9. FilesWhole /\ ClosesTrue
  BY <1>1 DEF FilesWhole, ClosesTrue
<1>10. due # {} => ~Weekend(today)
  BY <1>1 DEF DueOn
<1> QED BY <1>4, <1>5, <1>6, <1>8, <1>9, <1>10 DEF TablesInv

LEMMA TablesNextKeeps ==
  ASSUME TablesInv, [TablesNext]_tableVars
  PROVE  TablesInv'
<1>1. CASE \E j \in Daily : StartDaily(j)
  BY <1>1, StartDailyKeeps
<1>2. CASE \E j \in Loads : LoadStep(j)
  <2>1. PICK j \in Loads : CheckDay(j) \/ FetchDay(j) \/ InsertDay(j) \/ CommitDays(j)
    BY <1>2 DEF LoadStep
  <2>2. ASSUME CommitDays(j) PROVE load[j].at # "idle"
    BY <2>2 DEF CommitDays
  <2> QED BY <2>1, <2>2, CheckDayKeeps, FetchDayKeeps, InsertDayKeeps, CommitDaysKeeps
<1>3. CASE UNCHANGED tableVars
  <2>1. UNCHANGED <<today, due, load, closes, oi, deals, priced, gaps, handLoads, tableFaults>>
    BY <1>3 DEF tableVars
  <2>2. Grows
    BY <2>1 DEF Grows
  <2>3. OiAccounted' /\ DealsAccounted'
    BY <2>1, <2>2, OiStays, DealsStay
  <2> QED BY <2>1, <2>2, <2>3, LoadsStay DEF TablesInv, TablesTypeOK
<1> QED BY <1>1, <1>2, <1>3, StartByHandKeeps, SyncOiKeeps, SyncDealsKeeps, MonitorRestartsKeeps,
           DayOverKeeps DEF TablesNext

LEMMA TablesInvMeans == TablesInv => DaysAccounted
<1> SUFFICES ASSUME TablesInv PROVE PricesAccounted
  BY DEF TablesInv, DaysAccounted
<1>1. ASSUME NEW e \in Evenings, NEW d \in LookBack(e, DailyDays), Trading(d), NEW j \in Daily, Done(j, e)
      PROVE  Settled(j, d, e)
  BY <1>1 DEF TablesInv, DailyDone
<1>2. "nse" \in Daily /\ "bse" \in Daily /\ File("nse") = "NSE" /\ File("bse") = "BSE"
  BY DEF Daily, File
<1> QED BY <1>1, <1>2 DEF PricesAccounted, Settled

\* Whatever evening fails or is missed, what the tables of the day show is of the
\* day and of the exchange it says, and what they lack is what a run did not get,
\* for any holidays, any number of companies and any days that a run looks back
\* (kb/sync/pipeline.py, sync_prices, sync_bse_prices; kb/sync/monitor.py).
THEOREM DaysAccountedHolds == TablesSpec => []DaysAccounted
<1>1. TablesInit => TablesInv
  BY TablesInitHolds
<1>2. TablesInv /\ [TablesNext]_tableVars => TablesInv'
  BY TablesNextKeeps
<1>3. TablesInv => DaysAccounted
  BY TablesInvMeans
<1> QED BY <1>1, <1>2, <1>3, PTL DEF TablesSpec

-----------------------------------------------------------------------------
(* All of them.                                                            *)

LEMMA EachMovesOrRests ==
  ASSUME [MarketsNext]_<<focus, marketVars>>
  PROVE  /\ [HedgeNext]_hedgeVars
         /\ [MarksNext]_marksVars /\ [LlmNext]_llmVars /\ [ShockNext]_shockVars
         /\ [SentimentNext]_sentimentVars /\ [TablesNext]_tableVars
<1>1. CASE HedgeMoves
  BY <1>1 DEF HedgeMoves
<1>2. CASE MarksMoves
  BY <1>2 DEF MarksMoves
<1>3. CASE PricesMoves
  BY <1>3 DEF PricesMoves
<1>4. CASE FeedMoves
  BY <1>4 DEF FeedMoves
<1>5. CASE LlmMoves
  BY <1>5 DEF LlmMoves
<1>6. CASE ShocksMoves
  BY <1>6 DEF ShocksMoves
<1>7. CASE SentimentMoves
  BY <1>7 DEF SentimentMoves
<1>8. CASE TablesMove
  BY <1>8 DEF TablesMove
<1>9. CASE UNCHANGED <<focus, marketVars>>
  BY <1>9 DEF marketVars
<1> QED BY <1>1, <1>2, <1>3, <1>4, <1>5, <1>6, <1>7, <1>8, <1>9 DEF MarketsNext

\* These services do not disturb each other: a behaviour of all of them is one
\* of each (they share no variable; papertrade/main.py, hedge_loop, marks_loop;
\* llm/wrapper.py; commodity/detector.py; sentiment/main.py; kb/sync/monitor.py).
THEOREM MarketsCompose ==
  MarketsSpec => HedgeSpec /\ MarksSpec /\ LlmSpec /\ ShockSpec /\ SentimentSpec /\ TablesSpec
<1>1. MarketsInit => HedgeInit /\ MarksInit /\ LlmInit /\ ShockInit /\ SentimentInit /\ TablesInit
  BY DEF MarketsInit
<1>2. [MarketsNext]_<<focus, marketVars>> => [MarksNext]_marksVars
  BY EachMovesOrRests
<1>3. [MarketsNext]_<<focus, marketVars>> => [LlmNext]_llmVars
  BY EachMovesOrRests
<1>4. [MarketsNext]_<<focus, marketVars>> => [ShockNext]_shockVars
  BY EachMovesOrRests
<1>5. [MarketsNext]_<<focus, marketVars>> => [SentimentNext]_sentimentVars
  BY EachMovesOrRests
<1>6. [MarketsNext]_<<focus, marketVars>> => [HedgeNext]_hedgeVars
  BY EachMovesOrRests
<1>7. [MarketsNext]_<<focus, marketVars>> => [TablesNext]_tableVars
  BY EachMovesOrRests
<1> QED BY <1>1, <1>2, <1>3, <1>4, <1>5, <1>6, <1>7, PTL
    DEF MarketsSpec, HedgeSpec, MarksSpec, LlmSpec, ShockSpec, SentimentSpec, TablesSpec

\* The two limits on rates, whatever restarts or runs at once, for any number of
\* callers, any windows and any limit (llm/wrapper.py, the pacer;
\* commodity/detector.py, the cooldown).
THEOREM RatesKeptHolds == MarketsSpec => []RatesKept
<1>1. PacedWithinLimit /\ ShocksSpaced => RatesKept
  BY DEF RatesKept
<1> QED BY <1>1, MarketsCompose, PacedWithinLimitHolds, ShocksSpacedHolds, PTL

=============================================================================
