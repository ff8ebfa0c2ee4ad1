--------------------------- MODULE SequenceLemmas ---------------------------
(***************************************************************************)
(* Facts about sequences and numbers that the proofs share: the elements   *)
(* of what Append, \o, SubSeq and Reverse return, which of these keep a     *)
(* sequence free of repetitions or in ascending order, the least element   *)
(* of a set of numbers, and sums over finite sets.                         *)
(***************************************************************************)
EXTENDS Integers, Sequences, SequencesExt, FiniteSetTheorems, SequenceTheorems,
        FunctionTheorems, WellFoundedInduction, Positions, TLAPS

\* Each set of natural numbers that is not empty has a least element, by which
\* inductions are done: WFMin for < on Nat.
LEMMA LeastNumber ==
  ASSUME NEW T \in SUBSET Nat, T # {}
  PROVE  \E n \in T : \A m \in T : n <= m
<1> DEFINE R == {ss \in Nat \X Nat : ss[1] < ss[2]}
<1>1. R = OpToRel(<, Nat)
  BY DEF OpToRel
<1>2. IsWellFoundedOn(R, Nat)
  BY <1>1, NatLessThanWellFounded
<1>3. ASSUME NEW x \in Nat, NEW y \in Nat, y < x PROVE <<y, x>> \in R
  <2>1. <<y, x>> \in Nat \X Nat /\ <<y, x>>[1] = y /\ <<y, x>>[2] = x
    OBVIOUS
  <2> QED BY <2>1, <1>3
<1> HIDE DEF R
<1>4. PICK x \in T : \A y \in T : ~(<<y, x>> \in R)
  BY <1>2, WFMin
<1>5. \A y \in T : ~(y < x)
  BY <1>3, <1>4
<1>6. \A y \in T : x \in Nat /\ y \in Nat
  OBVIOUS
<1> QED BY <1>5, <1>6

-----------------------------------------------------------------------------
(* What a sequence holds.                                                  *)

LEMMA SetOfNone == ToSet(<<>>) = {}
BY DEF ToSet

LEMMA SetOfSeq ==
  ASSUME NEW S, NEW s \in Seq(S)
  PROVE  /\ ToSet(s) \subseteq S
         /\ \A i \in 1..Len(s) : s[i] \in ToSet(s)
         /\ \A x \in ToSet(s) : \E i \in 1..Len(s) : s[i] = x
BY DEF ToSet

LEMMA OwnElements == ASSUME NEW S, NEW s \in Seq(S) PROVE s \in Seq(ToSet(s))
BY SetOfSeq

LEMMA SetOfAppend ==
  ASSUME NEW S, NEW s \in Seq(S), NEW e \in S
  PROVE  ToSet(Append(s, e)) = ToSet(s) \cup {e}
<1>1. /\ Len(Append(s, e)) = Len(s) + 1 /\ Append(s, e)[Len(s) + 1] = e
      /\ \A i \in 1..Len(s) : Append(s, e)[i] = s[i]
      /\ DOMAIN Append(s, e) = 1..(Len(s) + 1) /\ DOMAIN s = 1..Len(s) /\ Len(s) \in Nat
  OBVIOUS
<1>2. ToSet(Append(s, e)) \subseteq ToSet(s) \cup {e}
  BY <1>1 DEF ToSet
<1>3. ToSet(s) \subseteq ToSet(Append(s, e))
  BY <1>1 DEF ToSet
<1>4. e \in ToSet(Append(s, e))
  <2>1. Len(s) + 1 \in DOMAIN Append(s, e)
    BY <1>1
  <2> QED BY <2>1, <1>1 DEF ToSet
<1> QED BY <1>2, <1>3, <1>4

LEMMA SetOfConcat ==
  ASSUME NEW S, NEW s \in Seq(S), NEW t \in Seq(S)
  PROVE  ToSet(s \o t) = ToSet(s) \cup ToSet(t)
<1>1. /\ Len(s) \in Nat /\ Len(t) \in Nat
      /\ DOMAIN s = 1..Len(s) /\ DOMAIN t = 1..Len(t) /\ DOMAIN (s \o t) = 1..(Len(s) + Len(t))
      /\ \A i \in 1..Len(s) : (s \o t)[i] = s[i]
      /\ \A i \in 1..Len(t) : (s \o t)[Len(s) + i] = t[i]
  OBVIOUS
<1>2. ASSUME NEW i \in 1..(Len(s) + Len(t)) PROVE (s \o t)[i] \in ToSet(s) \cup ToSet(t)
  <2>1. CASE i <= Len(s)
    BY <1>1, <2>1 DEF ToSet
  <2>2. CASE i > Len(s)
    <3>1. i - Len(s) \in 1..Len(t) /\ Len(s) + (i - Len(s)) = i
      BY <1>1, <2>2
    <3>2. (s \o t)[i] = t[i - Len(s)]
      BY <3>1, <1>1
    <3> QED BY <3>1, <3>2, <1>1 DEF ToSet
  <2> QED BY <2>1, <2>2, <1>1
<1>3. \A i \in 1..Len(s) : i \in DOMAIN (s \o t)
  BY <1>1
<1>4. \A i \in 1..Len(t) : Len(s) + i \in DOMAIN (s \o t)
  BY <1>1
<1>5. ToSet(s \o t) \subseteq ToSet(s) \cup ToSet(t)
  <2> SUFFICES ASSUME NEW x \in ToSet(s \o t) PROVE x \in ToSet(s) \cup ToSet(t)
    OBVIOUS
  <2>1. PICK i \in 1..(Len(s) + Len(t)) : x = (s \o t)[i]
    BY <1>1 DEF ToSet
  <2> QED BY <2>1, <1>2
<1>6. ToSet(s) \subseteq ToSet(s \o t)
  BY <1>1, <1>3 DEF ToSet
<1>7. ToSet(t) \subseteq ToSet(s \o t)
  <2> SUFFICES ASSUME NEW i \in 1..Len(t) PROVE t[i] \in ToSet(s \o t)
    BY <1>1 DEF ToSet
  <2>1. t[i] = (s \o t)[Len(s) + i] /\ Len(s) + i \in DOMAIN (s \o t)
    BY <1>1, <1>4
  <2> QED BY <2>1 DEF ToSet
<1> QED BY <1>5, <1>6, <1>7

LEMMA SetOfParts ==
  ASSUME NEW S, NEW s \in Seq(S), NEW n \in 0..Len(s)
  PROVE  ToSet(s) = ToSet(SubSeq(s, 1, n)) \cup ToSet(SubSeq(s, n + 1, Len(s)))
<1> DEFINE front == SubSeq(s, 1, n)
           rest  == SubSeq(s, n + 1, Len(s))
<1>1. Len(s) \in Nat /\ DOMAIN s = 1..Len(s)
  OBVIOUS
<1>2. /\ DOMAIN front = 1..n /\ \A i \in 1..n : front[i] = s[i]
  BY <1>1
<1>3. /\ DOMAIN rest = 1..(Len(s) - n) /\ \A i \in 1..(Len(s) - n) : rest[i] = s[n + i]
  BY <1>1
<1> HIDE DEF front, rest
<1>4. ToSet(front) \cup ToSet(rest) \subseteq ToSet(s)
  <2>1. \A i \in 1..n : i \in DOMAIN s
    BY <1>1
  <2>2. \A i \in 1..(Len(s) - n) : n + i \in DOMAIN s
    BY <1>1
  <2> QED BY <2>1, <2>2, <1>2, <1>3 DEF ToSet
<1>5. ASSUME NEW i \in 1..Len(s) PROVE s[i] \in ToSet(front) \cup ToSet(rest)
  <2>1. CASE i <= n
    BY <1>1, <1>2, <2>1 DEF ToSet
  <2>2. CASE i > n
    <3>1. i - n \in 1..(Len(s) - n) /\ n + (i - n) = i
      BY <1>1, <2>2
    <3>2. rest[i - n] = s[i]
      BY <3>1, <1>3
    <3> QED BY <3>1, <3>2, <1>3 DEF ToSet
  <2> QED BY <2>1, <2>2, <1>1
<1> QED BY <1>1, <1>4, <1>5 DEF ToSet, front, rest

-----------------------------------------------------------------------------
(* Sequences without repetitions.                                          *)

LEMMA InjectiveConcat ==
  ASSUME NEW S, NEW s \in Seq(S), NEW t \in Seq(S), IsInjective(s), IsInjective(t),
         ToSet(s) \cap ToSet(t) = {}
  PROVE  IsInjective(s \o t)
<1>1. /\ Len(s) \in Nat /\ Len(t) \in Nat
      /\ DOMAIN s = 1..Len(s) /\ DOMAIN t = 1..Len(t) /\ DOMAIN (s \o t) = 1..(Len(s) + Len(t))
      /\ \A i \in 1..Len(s) : (s \o t)[i] = s[i]
      /\ \A i \in 1..(Len(s) + Len(t)) : i > Len(s) =>
            i - Len(s) \in 1..Len(t) /\ (s \o t)[i] = t[i - Len(s)]
  OBVIOUS
<1>2. \A i \in 1..Len(s), j \in 1..Len(t) : s[i] # t[j]
  BY <1>1 DEF ToSet
<1> SUFFICES ASSUME NEW a \in 1..(Len(s) + Len(t)), NEW b \in 1..(Len(s) + Len(t)),
                    (s \o t)[a] = (s \o t)[b]
             PROVE  a = b
  BY <1>1 DEF IsInjective
<1>3. CASE a <= Len(s) /\ b <= Len(s)
  BY <1>1, <1>3 DEF IsInjective
<1>4. CASE a > Len(s) /\ b > Len(s)
  <2>1. t[a - Len(s)] = t[b - Len(s)] /\ a - Len(s) \in 1..Len(t) /\ b - Len(s) \in 1..Len(t)
    BY <1>1, <1>4
  <2>2. a - Len(s) = b - Len(s)
    BY <2>1, <1>1 DEF IsInjective
  <2> QED BY <2>2, <1>1
<1>5. CASE a <= Len(s) /\ b > Len(s)
  BY <1>1, <1>2, <1>5
<1>6. CASE a > Len(s) /\ b <= Len(s)
  BY <1>1, <1>2, <1>6
<1> QED BY <1>3, <1>4, <1>5, <1>6, <1>1

\* The last n of a sequence, last first, and what is before them.
LEMMA TakenFromEnd ==
  ASSUME NEW S, NEW s \in Seq(S), NEW n \in 0..Len(s)
  PROVE  LET taken == SubSeq(Reverse(s), 1, n)
             left  == SubSeq(s, 1, Len(s) - n)
         IN  /\ taken \in Seq(S) /\ left \in Seq(S) /\ Len(taken) = n
             /\ ToSet(s) = ToSet(left) \cup ToSet(taken)
             /\ IsInjective(s) => /\ IsInjective(taken) /\ IsInjective(left)
                                  /\ ToSet(left) \cap ToSet(taken) = {}
<1> DEFINE taken == SubSeq(Reverse(s), 1, n)
           left  == SubSeq(s, 1, Len(s) - n)
<1>1. Len(s) \in Nat /\ DOMAIN s = 1..Len(s) /\ n \in Nat
  OBVIOUS
<1>2. Reverse(s) \in Seq(S) /\ Len(Reverse(s)) = Len(s)
      /\ \A i \in 1..Len(s) : Reverse(s)[i] = s[Len(s) - i + 1]
  <2>1. \A i \in 1..Len(s) : Len(s) - i + 1 \in 1..Len(s)
    BY <1>1
  <2>2. \A i \in 1..Len(s) : s[Len(s) - i + 1] \in S
    BY <2>1
  <2> QED BY <1>1, <2>2 DEF Reverse
<1>3. /\ taken \in Seq(S) /\ Len(taken) = n /\ DOMAIN taken = 1..n
      /\ \A i \in 1..n : taken[i] = s[Len(s) - i + 1] /\ Len(s) - i + 1 \in 1..Len(s)
  <2> HIDE DEF left
  <2>1. SubSeq(Reverse(s), 1, n) \in Seq(S) /\ Len(SubSeq(Reverse(s), 1, n)) = n
        /\ \A i \in 1..n : SubSeq(Reverse(s), 1, n)[i] = Reverse(s)[i]
    BY <1>1, <1>2
  <2> QED BY <2>1, <1>1, <1>2
<1>4. /\ left \in Seq(S) /\ DOMAIN left = 1..(Len(s) - n)
      /\ \A i \in 1..(Len(s) - n) : left[i] = s[i] /\ i \in 1..Len(s)
  BY <1>1
<1> HIDE DEF taken, left
<1>5. ToSet(left) \cup ToSet(taken) \subseteq ToSet(s)
  <2>1. \A i \in 1..n : taken[i] \in ToSet(s)
    BY <1>1, <1>3 DEF ToSet
  <2>2. \A i \in 1..(Len(s) - n) : left[i] \in ToSet(s)
    BY <1>1, <1>4 DEF ToSet
  <2> QED BY <2>1, <2>2, <1>3, <1>4 DEF ToSet
<1>6. ASSUME NEW i \in 1..Len(s) PROVE s[i] \in ToSet(left) \cup ToSet(taken)
  <2>1. CASE i <= Len(s) - n
    BY <1>1, <1>4, <2>1 DEF ToSet
  <2>2. CASE i > Len(s) - n
    <3>1. Len(s) - i + 1 \in 1..n /\ Len(s) - (Len(s) - i + 1) + 1 = i
      BY <1>1, <2>2
    <3>2. taken[Len(s) - i + 1] = s[i]
      BY <3>1, <1>3
    <3> QED BY <3>1, <3>2, <1>3 DEF ToSet
  <2> QED BY <2>1, <2>2, <1>1
<1>7. ASSUME IsInjective(s)
      PROVE  IsInjective(taken) /\ IsInjective(left) /\ ToSet(left) \cap ToSet(taken) = {}
  <2>1. \A i, j \in 1..Len(s) : s[i] = s[j] => i = j
    BY <1>1, <1>7 DEF IsInjective
  <2>2. IsInjective(left)
    BY <2>1, <1>4 DEF IsInjective
  <2>3. \A i, j \in 1..n : taken[i] = taken[j] => i = j
    BY <2>1, <1>1, <1>3
  <2>4. \A i \in 1..(Len(s) - n), j \in 1..n : left[i] # taken[j]
    <3> SUFFICES ASSUME NEW i \in 1..(Len(s) - n), NEW j \in 1..n, left[i] = taken[j] PROVE FALSE
      OBVIOUS
    <3>1. s[i] = s[Len(s) - j + 1] /\ i \in 1..Len(s) /\ Len(s) - j + 1 \in 1..Len(s)
      BY <1>3, <1>4
    <3>2. i = Len(s) - j + 1
      BY <2>1, <3>1
    <3> QED BY <3>2, <1>1
  <2>5. ToSet(left) \cap ToSet(taken) = {}
    <3> SUFFICES ASSUME NEW x \in ToSet(left), x \in ToSet(taken) PROVE FALSE
      OBVIOUS
    <3>1. PICK i \in 1..(Len(s) - n) : x = left[i]
      BY <1>4 DEF ToSet
    <3>2. PICK j \in 1..n : x = taken[j]
      BY <1>3 DEF ToSet
    <3> QED BY <3>1, <3>2, <2>4
  <2> QED BY <2>2, <2>3, <2>5, <1>3 DEF IsInjective
<1>8. ToSet(s) \subseteq ToSet(left) \cup ToSet(taken)
  <2> SUFFICES ASSUME NEW x \in ToSet(s) PROVE x \in ToSet(left) \cup ToSet(taken)
    OBVIOUS
  <2>1. PICK i \in 1..Len(s) : x = s[i]
    BY <1>1 DEF ToSet
  <2> QED BY <2>1, <1>6
<1>9. ToSet(s) = ToSet(left) \cup ToSet(taken)
  BY <1>5, <1>8
<1> QED BY <1>3, <1>4, <1>7, <1>9 DEF taken, left

\* The first n of a sequence.
LEMMA FirstOfMany ==
  ASSUME NEW S, NEW s \in Seq(S), NEW n \in 0..Len(s)
  PROVE  /\ SubSeq(s, 1, n) \in Seq(S) /\ Len(SubSeq(s, 1, n)) = n
         /\ ToSet(SubSeq(s, 1, n)) \subseteq ToSet(s)
         /\ IsInjective(s) => IsInjective(SubSeq(s, 1, n))
<1> DEFINE front == SubSeq(s, 1, n)
<1>1. /\ front \in Seq(S) /\ Len(front) = n /\ DOMAIN front = 1..n /\ DOMAIN s = 1..Len(s)
      /\ \A i \in 1..n : front[i] = s[i] /\ i \in 1..Len(s)
  OBVIOUS
<1> HIDE DEF front
<1>2. ToSet(front) \subseteq ToSet(s)
  BY <1>1 DEF ToSet
<1>3. IsInjective(s) => IsInjective(front)
  BY <1>1 DEF IsInjective
<1> QED BY <1>1, <1>2, <1>3 DEF front

LEMMA ConcatType == ASSUME NEW S, NEW s \in Seq(S), NEW t \in Seq(S) PROVE s \o t \in Seq(S)
OBVIOUS

LEMMA SubSeqAt ==
  ASSUME NEW S, NEW s \in Seq(S), NEW m \in 1..(Len(s) + 1), NEW n \in 0..Len(s)
  PROVE  /\ SubSeq(s, m, n) \in Seq(S)
         /\ Len(SubSeq(s, m, n)) = IF m <= n THEN n - m + 1 ELSE 0
         /\ \A i \in 1..Len(SubSeq(s, m, n)) : SubSeq(s, m, n)[i] = s[m + i - 1]
OBVIOUS

\* The rest of a sequence, one by one.
LEMMA RestOfSeq ==
  ASSUME NEW S, NEW s \in Seq(S), NEW k \in 0..(Len(s) - 1)
  PROVE  /\ Head(SubSeq(s, k + 1, Len(s))) = s[k + 1]
         /\ Tail(SubSeq(s, k + 1, Len(s))) = SubSeq(s, k + 2, Len(s))
         /\ SubSeq(s, k + 2, Len(s)) = <<>> <=> k + 1 = Len(s)
<1> DEFINE rest == SubSeq(s, k + 1, Len(s))
           next == SubSeq(s, k + 2, Len(s))
<1>1. Len(s) \in Nat /\ k \in Nat /\ k + 1 \in 1..(Len(s) + 1) /\ k + 2 \in 1..(Len(s) + 1)
      /\ Len(s) \in 0..Len(s) /\ k + 1 <= Len(s)
  OBVIOUS
<1>2. /\ rest \in Seq(S) /\ Len(rest) = Len(s) - k
      /\ \A i \in 1..(Len(s) - k) : rest[i] = s[k + i]
  <2>1. Len(rest) = IF k + 1 <= Len(s) THEN Len(s) - (k + 1) + 1 ELSE 0
    BY <1>1, SubSeqAt
  <2>2. /\ rest \in Seq(S) /\ \A i \in 1..Len(rest) : rest[i] = s[k + 1 + i - 1]
    BY <1>1, SubSeqAt
  <2> HIDE DEF rest
  <2>3. Len(rest) = Len(s) - k /\ \A i \in 1..(Len(s) - k) : k + 1 + i - 1 = k + i
    BY <1>1, <2>1
  <2> QED BY <2>2, <2>3
<1>3. /\ next \in Seq(S) /\ Len(next) = Len(s) - k - 1
      /\ \A i \in 1..(Len(s) - k - 1) : next[i] = s[k + 1 + i]
  <2>1. Len(next) = IF k + 2 <= Len(s) THEN Len(s) - (k + 2) + 1 ELSE 0
    BY <1>1, SubSeqAt
  <2>2. /\ next \in Seq(S) /\ \A i \in 1..Len(next) : next[i] = s[k + 2 + i - 1]
    BY <1>1, SubSeqAt
  <2> HIDE DEF next
  <2>3. Len(next) = Len(s) - k - 1 /\ \A i \in 1..(Len(s) - k - 1) : k + 2 + i - 1 = k + 1 + i
    BY <1>1, <2>1
  <2> QED BY <2>2, <2>3
<1> HIDE DEF rest, next
<1>4. rest # <<>>
  BY <1>1, <1>2
<1>5. Head(rest) = s[k + 1]
  BY <1>1, <1>2
<1>6. /\ Tail(rest) \in Seq(S) /\ Len(Tail(rest)) = Len(s) - k - 1
      /\ \A i \in 1..(Len(s) - k - 1) : Tail(rest)[i] = rest[i + 1]
  BY <1>1, <1>2, <1>4
<1>7. Tail(rest) = next
  <2> DEFINE tail == Tail(rest)
  <2>1. \A i \in 1..(Len(s) - k - 1) : i + 1 \in 1..(Len(s) - k) /\ k + (i + 1) = k + 1 + i
    BY <1>1
  <2>2. \A i \in 1..(Len(s) - k - 1) : tail[i] = next[i]
    BY <1>2, <1>3, <1>6, <2>1
  <2>3. tail \in Seq(S) /\ Len(tail) = Len(next)
    BY <1>3, <1>6
  <2> HIDE DEF tail
  <2>4. tail = next
    BY <1>3, <2>2, <2>3
  <2> QED BY <2>4 DEF tail
<1>8. next = <<>> <=> Len(next) = 0
  BY <1>3
<1>9. Len(next) = 0 <=> k + 1 = Len(s)
  BY <1>1, <1>3
<1> QED BY <1>5, <1>7, <1>8, <1>9 DEF rest, next

LEMMA NotBelowItself == ASSUME NEW m \in Int, NEW n \in Int, n < m PROVE n # m
OBVIOUS

-----------------------------------------------------------------------------
(* Sequences of times.                                                     *)

UpTo(s, t) == \A i \in 1..Len(s) : s[i] <= t

Ascending(s) == \A i, j \in 1..Len(s) : i < j => s[i] <= s[j]

\* What the window keeps: a part that ends as the whole does.
LEMMA SuffixProperties ==
  ASSUME NEW s \in Seq(Nat), NEW n \in 0..Len(s)
  PROVE  LET part == SubSeq(s, n + 1, Len(s))
         IN  /\ part \in Seq(Nat) /\ Len(part) = Len(s) - n
             /\ n < Len(s) => part[Len(part)] = s[Len(s)]
             /\ Ascending(s) => Ascending(part)
             /\ \A u \in Int : UpTo(s, u) => UpTo(part, u)
<1> DEFINE part == SubSeq(s, n + 1, Len(s))
<1>1. Len(s) \in Nat
  OBVIOUS
<1>2. /\ part \in Seq(Nat) /\ Len(part) = Len(s) - n
      /\ \A i \in 1..(Len(s) - n) : part[i] = s[n + i]
  BY <1>1
<1>3. \A i \in 1..(Len(s) - n) : n + i \in 1..Len(s)
  BY <1>1
<1>4. n < Len(s) => Len(s) - n \in 1..(Len(s) - n) /\ n + (Len(s) - n) = Len(s)
  BY <1>1
<1> HIDE DEF part
<1>5. n < Len(s) => part[Len(part)] = s[Len(s)]
  BY <1>2, <1>4
<1>6. ASSUME Ascending(s) PROVE Ascending(part)
  <2> SUFFICES ASSUME NEW i \in 1..(Len(s) - n), NEW j \in 1..(Len(s) - n), i < j
               PROVE  part[i] <= part[j]
    BY <1>2 DEF Ascending
  <2>1. n + i \in 1..Len(s) /\ n + j \in 1..Len(s) /\ n + i < n + j
    BY <1>1, <1>3
  <2>2. s[n + i] <= s[n + j]
    BY <2>1, <1>6 DEF Ascending
  <2> QED BY <1>2, <2>2
<1>7. ASSUME NEW u \in Int, UpTo(s, u) PROVE UpTo(part, u)
  <2> SUFFICES ASSUME NEW i \in 1..(Len(s) - n) PROVE part[i] <= u
    BY <1>2 DEF UpTo
  <2>1. s[n + i] <= u
    BY <1>3, <1>7 DEF UpTo
  <2> QED BY <1>2, <2>1
<1> QED BY <1>2, <1>5, <1>6, <1>7 DEF part

LEMMA AppendAscending ==
  ASSUME NEW T \in Nat, NEW s \in Seq(Nat), UpTo(s, T)
  PROVE  /\ Append(s, T) \in Seq(Nat) /\ Len(Append(s, T)) = Len(s) + 1
         /\ Append(s, T)[Len(Append(s, T))] = T
         /\ UpTo(Append(s, T), T)
         /\ Ascending(s) => Ascending(Append(s, T))
<1>1. /\ Append(s, T) \in Seq(Nat) /\ Len(Append(s, T)) = Len(s) + 1 /\ Len(s) \in Nat
      /\ Append(s, T)[Len(s) + 1] = T
      /\ \A i \in 1..Len(s) : Append(s, T)[i] = s[i]
  OBVIOUS
<1>2. \A i \in 1..(Len(s) + 1) : i \in 1..Len(s) \/ i = Len(s) + 1
  BY <1>1
<1>3. UpTo(Append(s, T), T)
  BY <1>1, <1>2 DEF UpTo
<1>4. ASSUME Ascending(s) PROVE Ascending(Append(s, T))
  <2> SUFFICES ASSUME NEW i \in 1..(Len(s) + 1), NEW j \in 1..(Len(s) + 1), i < j
               PROVE  Append(s, T)[i] <= Append(s, T)[j]
    BY <1>1 DEF Ascending
  <2>1. i \in 1..Len(s)
    BY <1>1
  <2>2. CASE j = Len(s) + 1
    BY <2>1, <2>2, <1>1 DEF UpTo
  <2>3. CASE j \in 1..Len(s)
    BY <2>1, <2>3, <1>1, <1>4 DEF Ascending
  <2> QED BY <2>2, <2>3, <1>1
<1> QED BY <1>1, <1>3, <1>4

(***************************************************************************)
(* Sums over finite sets.  What SumFunctionOnSet(f, S) is unfolded to, with *)
(* g for the sums over less than s; it exists by induction on the number   *)
(* of summands.                                                            *)
(***************************************************************************)
Summed(f, g, s) == IF s = {} THEN 0 ELSE LET x == CHOOSE y \in s : TRUE IN f[x] + g[s \ {x}]

Sums(f, S) == CHOOSE g : g = [s \in SUBSET S |-> Summed(f, g, s)]

\* The library's sum is the function of these sums, at S.
LEMMA SumUnfolded == ASSUME NEW f, NEW S PROVE SumFunctionOnSet(f, S) = Sums(f, S)[S]
BY DEF SumFunctionOnSet, FoldFunctionOnSet, MapThenFoldSet, Sums, Summed

\* The function exists for the subsets of up to n elements, by induction on n.
LEMMA PartsUpTo ==
  ASSUME NEW f, NEW S, IsFiniteSet(S)
  PROVE  \A n \in Nat : \E g : /\ g = [s \in SUBSET S |-> g[s]]
                               /\ \A s \in SUBSET S : Cardinality(s) <= n => g[s] = Summed(f, g, s)
<1> DEFINE Good(n) == \E g : /\ g = [s \in SUBSET S |-> g[s]]
                             /\ \A s \in SUBSET S : Cardinality(s) <= n => g[s] = Summed(f, g, s)
           Bad == {n \in Nat : ~Good(n)}
<1>0. \A s \in SUBSET S : IsFiniteSet(s) /\ Cardinality(s) \in Nat
  BY FS_Subset, FS_CardinalityType
<1>1. ASSUME NEW n \in Nat, n = 0 \/ (n - 1 \in Nat /\ Good(n - 1)) PROVE Good(n)
  <2>1. PICK h : /\ h = [s \in SUBSET S |-> h[s]]
                 /\ \A s \in SUBSET S : Cardinality(s) < n => h[s] = Summed(f, h, s)
    <3>1. CASE n = 0
      <4>1. \A s \in SUBSET S : ~(Cardinality(s) < n)
        BY <1>0, <3>1
      <4> DEFINE e == [s \in SUBSET S |-> 0]
      <4>2. e = [s \in SUBSET S |-> e[s]]
        OBVIOUS
      <4> QED BY <4>1, <4>2
    <3>2. CASE n # 0
      <4>1. PICK h : /\ h = [s \in SUBSET S |-> h[s]]
                     /\ \A s \in SUBSET S : Cardinality(s) <= n - 1 => h[s] = Summed(f, h, s)
        BY <1>1, <3>2
      <4>2. ASSUME NEW s \in SUBSET S, Cardinality(s) < n PROVE Cardinality(s) <= n - 1
        BY <4>2, <1>0
      <4> QED BY <4>1, <4>2
    <3> QED BY <3>1, <3>2
  <2> DEFINE g == [s \in SUBSET S |-> IF Cardinality(s) = n THEN Summed(f, h, s) ELSE h[s]]
  <2>2. g = [s \in SUBSET S |-> g[s]]
    OBVIOUS
  <2>3. ASSUME NEW s \in SUBSET S, Cardinality(s) <= n PROVE g[s] = Summed(f, g, s)
    <3>1. g[s] = Summed(f, h, s)
      <4>1. CASE Cardinality(s) = n
        BY <4>1
      <4>2. CASE Cardinality(s) # n
        <5>1. Cardinality(s) < n
          BY <2>3, <4>2, <1>0
        <5> QED BY <5>1, <4>2, <2>1
      <4> QED BY <4>1, <4>2
    <3>2. CASE s = {}
      BY <3>1, <3>2 DEF Summed
    <3>3. CASE s # {}
      <4> DEFINE x == CHOOSE y \in s : TRUE
      <4>1. x \in s /\ s \ {x} \in SUBSET S
        BY <3>3
      <4>2. Cardinality(s \ {x}) = Cardinality(s) - 1
        BY <4>1, <1>0, FS_RemoveElement
      <4>3. Cardinality(s \ {x}) # n
        BY <4>2, <1>0, <2>3
      <4>4. g[s \ {x}] = h[s \ {x}]
        BY <4>1, <4>3
      <4>5. Summed(f, h, s) = f[x] + h[s \ {x}] /\ Summed(f, g, s) = f[x] + g[s \ {x}]
        BY <3>3 DEF Summed
      <4> QED BY <3>1, <4>4, <4>5
    <3> QED BY <3>2, <3>3
  <2> HIDE DEF g
  <2> QED BY <2>2, <2>3
<1>2. SUFFICES ASSUME Bad # {} PROVE FALSE
  OBVIOUS
<1>3. Bad \in SUBSET Nat
  OBVIOUS
<1>4. PICK n \in Bad : \A m \in Bad : n <= m
  BY <1>2, <1>3, LeastNumber
<1>5. n \in Nat /\ ~Good(n)
  OBVIOUS
<1> HIDE DEF Good
<1>6. CASE n = 0
  BY <1>1, <1>5, <1>6
<1>7. CASE n # 0
  <2>1. n - 1 \in Nat /\ ~(n <= n - 1)
    BY <1>5, <1>7
  <2>2. n - 1 \notin Bad
    BY <2>1, <1>4
  <2>3. Good(n - 1)
    BY <2>1, <2>2
  <2> QED BY <1>1, <1>5, <2>1, <2>3
<1> QED BY <1>6, <1>7

\* It therefore is what its recursion says.
LEMMA PartsDefined ==
  ASSUME NEW f, NEW S, IsFiniteSet(S)
  PROVE  \A s \in SUBSET S : Sums(f, S)[s] = Summed(f, Sums(f, S), s)
<1>1. Cardinality(S) \in Nat /\ \A s \in SUBSET S : Cardinality(s) <= Cardinality(S)
  BY FS_Subset, FS_CardinalityType
<1>2. PICK g : /\ g = [s \in SUBSET S |-> g[s]]
               /\ \A s \in SUBSET S : Cardinality(s) <= Cardinality(S) => g[s] = Summed(f, g, s)
  <2> DEFINE n == Cardinality(S)
  <2>1. n \in Nat
    BY <1>1
  <2> HIDE DEF n
  <2>2. \A m \in Nat : \E g : /\ g = [s \in SUBSET S |-> g[s]]
                            /\ \A s \in SUBSET S : Cardinality(s) <= m => g[s] = Summed(f, g, s)
    BY PartsUpTo
  <2>3. \E g : /\ g = [s \in SUBSET S |-> g[s]]
               /\ \A s \in SUBSET S : Cardinality(s) <= n => g[s] = Summed(f, g, s)
    BY <2>1, <2>2
  <2> QED BY <2>3 DEF n
<1>3. g = [s \in SUBSET S |-> Summed(f, g, s)]
  BY <1>1, <1>2
<1>4. Sums(f, S) = [s \in SUBSET S |-> Summed(f, Sums(f, S), s)]
  BY <1>3 DEF Sums
<1> QED BY <1>4

\* What is summed over more than T is the same on T.
LEMMA PartsAgree ==
  ASSUME NEW f, NEW S, IsFiniteSet(S)
  PROVE  \A T \in SUBSET S : Sums(f, S)[T] = Sums(f, T)[T]
<1> DEFINE Differs(n) == \E R \in SUBSET S : \E T \in SUBSET R :
                            Cardinality(T) = n /\ Sums(f, R)[T] # Sums(f, T)[T]
           Bad == {n \in Nat : Differs(n)}
<1>0. \A T \in SUBSET S : IsFiniteSet(T) /\ Cardinality(T) \in Nat
  BY FS_Subset, FS_CardinalityType
<1>1. SUFFICES ASSUME Bad # {} PROVE FALSE
  <2>1. ASSUME NEW T \in SUBSET S, Sums(f, S)[T] # Sums(f, T)[T] PROVE FALSE
    <3>1. Cardinality(T) \in Bad
      BY <2>1, <1>0
    <3> QED BY <3>1, <1>1
  <2> QED BY <2>1
<1>2. PICK n \in Bad : \A m \in Bad : n <= m
  <2>1. Bad \in SUBSET Nat
    OBVIOUS
  <2> HIDE DEF Bad
  <2> QED BY <1>1, <2>1, LeastNumber
<1>3a. PICK R \in SUBSET S : \E T \in SUBSET R :
                                Cardinality(T) = n /\ Sums(f, R)[T] # Sums(f, T)[T]
  BY <1>2
<1>3. PICK T \in SUBSET R : Cardinality(T) = n /\ Sums(f, R)[T] # Sums(f, T)[T]
  BY <1>3a
<1>4. IsFiniteSet(R) /\ IsFiniteSet(T) /\ T \in SUBSET S
  BY <1>0, <1>3
<1>5. Sums(f, R)[T] = Summed(f, Sums(f, R), T) /\ Sums(f, T)[T] = Summed(f, Sums(f, T), T)
  BY <1>4, PartsDefined
<1>6. T # {}
  BY <1>3, <1>5 DEF Summed
<1> DEFINE x == CHOOSE y \in T : TRUE
           U == T \ {x}
<1>7. x \in T /\ U \in SUBSET T /\ U \in SUBSET R /\ U \in SUBSET S
  BY <1>6, <1>3
<1>8. Cardinality(U) = n - 1 /\ n \in Nat
  BY <1>4, <1>3, <1>7, FS_RemoveElement, FS_CardinalityType
<1>9. /\ Sums(f, R)[T] = f[x] + Sums(f, R)[U]
      /\ Sums(f, T)[T] = f[x] + Sums(f, T)[U]
  BY <1>5, <1>6 DEF Summed
<1> HIDE DEF x, U
<1>10. n - 1 \notin Bad /\ n - 1 \in Nat
  <2>1. ~(n <= n - 1) /\ n - 1 \in Nat
    BY <1>8, <1>0, <1>7
  <2> QED BY <2>1, <1>2
<1>11. ~Differs(n - 1)
  BY <1>10
<1>12. Sums(f, R)[U] = Sums(f, U)[U] /\ Sums(f, T)[U] = Sums(f, U)[U]
  BY <1>11, <1>8, <1>7, <1>4
<1> QED BY <1>3, <1>9, <1>12

\* The sum over nothing.
LEMMA SumOfNone == ASSUME NEW f PROVE SumFunctionOnSet(f, {}) = 0
<1>1. IsFiniteSet({})
  BY FS_EmptySet
<1>2. Sums(f, {})[{}] = Summed(f, Sums(f, {}), {})
  BY <1>1, PartsDefined
<1> QED BY <1>2, SumUnfolded DEF Summed

\* Some summand can be taken out.
LEMMA SumChosen ==
  ASSUME NEW f, NEW S, IsFiniteSet(S), S # {}
  PROVE  \E x \in S : SumFunctionOnSet(f, S) = f[x] + SumFunctionOnSet(f, S \ {x})
<1> DEFINE x == CHOOSE y \in S : TRUE
<1>1. x \in S /\ S \ {x} \in SUBSET S
  OBVIOUS
<1>2. Sums(f, S)[S] = f[x] + Sums(f, S)[S \ {x}]
  <2>1. Sums(f, S)[S] = Summed(f, Sums(f, S), S)
    BY PartsDefined
  <2> QED BY <2>1 DEF Summed
<1>3. Sums(f, S)[S \ {x}] = Sums(f, S \ {x})[S \ {x}]
  BY <1>1, PartsAgree
<1> QED BY <1>1, <1>2, <1>3, SumUnfolded

\* A sum of natural numbers is one.
LEMMA SumIsNat ==
  ASSUME NEW f, NEW S, IsFiniteSet(S), \A x \in S : f[x] \in Nat
  PROVE  SumFunctionOnSet(f, S) \in Nat
<1> DEFINE Bad == {n \in Nat : \E T \in SUBSET S :
                     Cardinality(T) = n /\ SumFunctionOnSet(f, T) \notin Nat}
<1>0. \A T \in SUBSET S : IsFiniteSet(T) /\ Cardinality(T) \in Nat
  BY FS_Subset, FS_CardinalityType
<1>1. SUFFICES ASSUME Bad # {} PROVE FALSE
  BY <1>0
<1>2. PICK n \in Bad : \A m \in Bad : n <= m
  <2>1. Bad \in SUBSET Nat
    OBVIOUS
  <2> HIDE DEF Bad
  <2> QED BY <1>1, <2>1, LeastNumber
<1>3. PICK T \in SUBSET S : Cardinality(T) = n /\ SumFunctionOnSet(f, T) \notin Nat
  BY <1>2
<1>4. T # {}
  BY <1>3, SumOfNone
<1>5. PICK x \in T : SumFunctionOnSet(f, T) = f[x] + SumFunctionOnSet(f, T \ {x})
  BY <1>4, <1>0, SumChosen
<1>6. SumFunctionOnSet(f, T \ {x}) \notin Nat
  BY <1>3, <1>5
<1>7. Cardinality(T \ {x}) = n - 1 /\ n \in Nat /\ n - 1 \in Nat
  <2>1. Cardinality(T \ {x}) = n - 1 /\ T \ {x} \in SUBSET S
    BY <1>0, <1>3, FS_RemoveElement
  <2>2. n \in Nat /\ Cardinality(T \ {x}) \in Nat
    BY <1>0, <1>3, <2>1
  <2> QED BY <2>1, <2>2
<1>8. n - 1 \in Bad
  BY <1>6, <1>7
<1>9. n <= n - 1
  BY <1>8, <1>2
<1> QED BY <1>9, <1>7

\* Any summand can be taken out.
LEMMA SumWithout ==
  ASSUME NEW f, NEW S, IsFiniteSet(S), \A x \in S : f[x] \in Nat
  PROVE  \A y \in S : SumFunctionOnSet(f, S) = f[y] + SumFunctionOnSet(f, S \ {y})
<1> DEFINE Fails(T) == \E y \in T :
                 SumFunctionOnSet(f, T) # f[y] + SumFunctionOnSet(f, T \ {y})
           Bad == {n \in Nat : \E T \in SUBSET S : Cardinality(T) = n /\ Fails(T)}
<1>0. \A T \in SUBSET S : IsFiniteSet(T) /\ Cardinality(T) \in Nat
  BY FS_Subset, FS_CardinalityType
<1>1. SUFFICES ASSUME Bad # {} PROVE FALSE
  <2>1. ASSUME NEW y \in S, SumFunctionOnSet(f, S) # f[y] + SumFunctionOnSet(f, S \ {y})
        PROVE  FALSE
    <3>1. Cardinality(S) \in Bad
      BY <2>1, <1>0
    <3> QED BY <3>1, <1>1
  <2> QED BY <2>1
<1>2. PICK n \in Bad : \A m \in Bad : n <= m
  <2>1. Bad \in SUBSET Nat
    OBVIOUS
  <2> HIDE DEF Bad
  <2> QED BY <1>1, <2>1, LeastNumber
<1>3. PICK T \in SUBSET S : Cardinality(T) = n /\ Fails(T)
  BY <1>2
<1>4. PICK y \in T : SumFunctionOnSet(f, T) # f[y] + SumFunctionOnSet(f, T \ {y})
  BY <1>3
<1>5. PICK x \in T : SumFunctionOnSet(f, T) = f[x] + SumFunctionOnSet(f, T \ {x})
  BY <1>4, <1>0, SumChosen
<1>6. x # y
  BY <1>4, <1>5
<1>7. \A z \in T : Cardinality(T \ {z}) = n - 1 /\ n - 1 \in Nat /\ n \in Nat
  <2>1. ASSUME NEW z \in T PROVE Cardinality(T \ {z}) = n - 1 /\ T \ {z} \in SUBSET S
    BY <1>0, <1>3, FS_RemoveElement
  <2>2. n \in Nat /\ \A z \in T : Cardinality(T \ {z}) \in Nat
    BY <1>0, <1>3, <2>1
  <2> QED BY <2>1, <2>2
<1>8. \A z \in T : ~Fails(T \ {z})
  <2>1. n - 1 \notin Bad
    <3>1. n \in Nat /\ n - 1 \in Nat
      BY <1>7
    <3>2. ~(n <= n - 1)
      BY <3>1
    <3> QED BY <3>1, <3>2, <1>2
  <2> HIDE DEF Fails
  <2> QED BY <2>1, <1>7
<1>9. /\ SumFunctionOnSet(f, T \ {x}) = f[y] + SumFunctionOnSet(f, (T \ {x}) \ {y})
      /\ SumFunctionOnSet(f, T \ {y}) = f[x] + SumFunctionOnSet(f, (T \ {y}) \ {x})
  BY <1>8, <1>6
<1>10. (T \ {x}) \ {y} = (T \ {y}) \ {x}
  OBVIOUS
<1>11. f[x] \in Nat /\ f[y] \in Nat /\ SumFunctionOnSet(f, (T \ {x}) \ {y}) \in Nat
  <2>1. IsFiniteSet((T \ {x}) \ {y}) /\ \A z \in (T \ {x}) \ {y} : f[z] \in Nat
    BY <1>0
  <2> QED BY <2>1, SumIsNat
<1>12. SumFunctionOnSet(f, T) = f[y] + SumFunctionOnSet(f, T \ {y})
  BY <1>5, <1>9, <1>10, <1>11
<1> QED BY <1>12, <1>4

\* Fewer and smaller summands have a smaller sum.
LEMMA SumWithin ==
  ASSUME NEW f, NEW g, NEW S, IsFiniteSet(S), \A x \in S : g[x] \in Nat,
         NEW T \in SUBSET S, \A x \in T : f[x] \in Nat /\ f[x] <= g[x]
  PROVE  SumFunctionOnSet(f, T) <= SumFunctionOnSet(g, S)
<1> DEFINE Fails(U) == ~(SumFunctionOnSet(f, U \cap T) <= SumFunctionOnSet(g, U))
           Bad == {n \in Nat : \E U \in SUBSET S : Cardinality(U) = n /\ Fails(U)}
<1>0. \A U \in SUBSET S : IsFiniteSet(U) /\ Cardinality(U) \in Nat
  BY FS_Subset, FS_CardinalityType
<1>1. SUFFICES ASSUME Bad # {} PROVE FALSE
  <2>1. S \cap T = T
    OBVIOUS
  <2>2. ASSUME Fails(S) PROVE FALSE
    <3>1. Cardinality(S) \in Bad
      BY <2>2, <1>0
    <3> QED BY <3>1, <1>1
  <2> QED BY <2>1, <2>2
<1>2. PICK n \in Bad : \A m \in Bad : n <= m
  <2>1. Bad \in SUBSET Nat
    OBVIOUS
  <2> HIDE DEF Bad
  <2> QED BY <1>1, <2>1, LeastNumber
<1>3. PICK U \in SUBSET S : Cardinality(U) = n /\ Fails(U)
  BY <1>2
<1>4. U # {}
  <2>1. {} \cap T = {}
    OBVIOUS
  <2> QED BY <1>3, <2>1, SumOfNone
<1>5. PICK x \in U : SumFunctionOnSet(g, U) = g[x] + SumFunctionOnSet(g, U \ {x})
  BY <1>4, <1>0, SumChosen
<1>6. n \in Nat /\ n - 1 \in Nat /\ Cardinality(U \ {x}) = n - 1
  <2>1. Cardinality(U \ {x}) = n - 1 /\ U \ {x} \in SUBSET S
    BY <1>0, <1>3, FS_RemoveElement
  <2>2. n \in Nat /\ Cardinality(U \ {x}) \in Nat
    BY <1>0, <1>3, <2>1
  <2> QED BY <2>1, <2>2
<1>7. ~Fails(U \ {x})
  <2>1. ~(n <= n - 1)
    BY <1>6
  <2>2. n - 1 \notin Bad
    BY <2>1, <1>6, <1>2
  <2> HIDE DEF Fails
  <2> QED BY <2>2, <1>6
<1>8. SumFunctionOnSet(g, U \ {x}) \in Nat /\ g[x] \in Nat
  BY <1>0, SumIsNat
<1>9. IsFiniteSet(U \cap T) /\ \A y \in U \cap T : f[y] \in Nat
  BY <1>0
<1>10. SumFunctionOnSet(f, U \cap T) \in Nat
  BY <1>9, SumIsNat
<1>11. CASE x \in T
  <2>1. SumFunctionOnSet(f, U \cap T) = f[x] + SumFunctionOnSet(f, (U \cap T) \ {x})
    BY <1>9, <1>11, SumWithout
  <2>2. (U \cap T) \ {x} = (U \ {x}) \cap T
    OBVIOUS
  <2>3. SumFunctionOnSet(f, (U \ {x}) \cap T) \in Nat /\ f[x] \in Nat /\ f[x] <= g[x]
    <3>1. IsFiniteSet((U \ {x}) \cap T) /\ \A y \in (U \ {x}) \cap T : f[y] \in Nat
      BY <1>0
    <3> QED BY <3>1, <1>11, SumIsNat
  <2>4. SumFunctionOnSet(f, (U \ {x}) \cap T) <= SumFunctionOnSet(g, U \ {x})
    BY <1>7
  <2>5. SumFunctionOnSet(f, U \cap T) = f[x] + SumFunctionOnSet(f, (U \ {x}) \cap T)
    BY <2>1, <2>2
  <2> HIDE DEF Fails, Bad
  <2>6. SumFunctionOnSet(f, U \cap T) <= SumFunctionOnSet(g, U)
    BY <1>5, <1>8, <2>3, <2>4, <2>5
  <2> QED BY <2>6, <1>3 DEF Fails
<1>12. CASE x \notin T
  <2>1. U \cap T = (U \ {x}) \cap T
    BY <1>12
  <2>2. SumFunctionOnSet(f, (U \ {x}) \cap T) <= SumFunctionOnSet(g, U \ {x})
    BY <1>7
  <2>3. SumFunctionOnSet(f, U \cap T) <= SumFunctionOnSet(g, U \ {x})
    BY <2>1, <2>2
  <2> HIDE DEF Fails, Bad
  <2>4. SumFunctionOnSet(f, U \cap T) <= SumFunctionOnSet(g, U)
    BY <1>5, <1>8, <1>10, <2>3
  <2> QED BY <2>4, <1>3 DEF Fails
<1> QED BY <1>11, <1>12

\* A sum depends on the summands alone.
LEMMA SumIsOf ==
  ASSUME NEW f, NEW g, NEW S, IsFiniteSet(S), \A x \in S : f[x] \in Nat /\ f[x] = g[x]
  PROVE  SumFunctionOnSet(f, S) = SumFunctionOnSet(g, S)
<1>1. SumFunctionOnSet(f, S) <= SumFunctionOnSet(g, S)
  BY SumWithin
<1>2. SumFunctionOnSet(g, S) <= SumFunctionOnSet(f, S)
  BY SumWithin
<1>3. SumFunctionOnSet(f, S) \in Nat /\ SumFunctionOnSet(g, S) \in Nat
  BY SumIsNat
<1> QED BY <1>1, <1>2, <1>3

\* Arithmetic of the next lemma.
LEMMA OneMoreTime == ASSUME NEW k \in Nat, NEW m \in Nat PROVE (k + 1) * m = k * m + m
OBVIOUS

\* So many summands of at most m.
LEMMA SumAtMost ==
  ASSUME NEW f, NEW S, IsFiniteSet(S), NEW m \in Nat, \A x \in S : f[x] \in Nat /\ f[x] <= m
  PROVE  SumFunctionOnSet(f, S) <= Cardinality(S) * m
<1> DEFINE Fails(U) == ~(SumFunctionOnSet(f, U) <= Cardinality(U) * m)
           Bad == {n \in Nat : \E U \in SUBSET S : Cardinality(U) = n /\ Fails(U)}
<1>0. \A U \in SUBSET S : IsFiniteSet(U) /\ Cardinality(U) \in Nat
  BY FS_Subset, FS_CardinalityType
<1>1. SUFFICES ASSUME Bad # {} PROVE FALSE
  <2>1. ASSUME Fails(S) PROVE FALSE
    <3>1. Cardinality(S) \in Bad
      BY <2>1, <1>0
    <3> QED BY <3>1, <1>1
  <2> QED BY <2>1
<1>2. PICK n \in Bad : \A k \in Bad : n <= k
  <2>1. Bad \in SUBSET Nat
    OBVIOUS
  <2> HIDE DEF Bad
  <2> QED BY <1>1, <2>1, LeastNumber
<1>3. PICK U \in SUBSET S : Cardinality(U) = n /\ Fails(U)
  BY <1>2
<1>4. U # {}
  <2>1. SUFFICES ASSUME U = {} PROVE FALSE
    OBVIOUS
  <2>2. SumFunctionOnSet(f, U) = 0 /\ Cardinality(U) = 0
    BY <2>1, SumOfNone, FS_EmptySet
  <2>3. 0 <= 0 * m
    OBVIOUS
  <2> QED BY <1>3, <2>2, <2>3
<1>5. PICK x \in U : SumFunctionOnSet(f, U) = f[x] + SumFunctionOnSet(f, U \ {x})
  BY <1>4, <1>0, SumChosen
<1>6. n \in Nat /\ n - 1 \in Nat /\ Cardinality(U \ {x}) = n - 1
  <2>1. Cardinality(U \ {x}) = n - 1 /\ U \ {x} \in SUBSET S
    BY <1>0, <1>3, FS_RemoveElement
  <2>2. n \in Nat /\ Cardinality(U \ {x}) \in Nat
    BY <1>0, <1>3, <2>1
  <2> QED BY <2>1, <2>2
<1>7. ~Fails(U \ {x})
  <2>1. ~(n <= n - 1)
    BY <1>6
  <2>2. n - 1 \notin Bad
    BY <2>1, <1>6, <1>2
  <2> HIDE DEF Fails
  <2> QED BY <2>2, <1>6
<1>8. SumFunctionOnSet(f, U \ {x}) \in Nat /\ f[x] \in Nat /\ f[x] <= m
  BY <1>0, SumIsNat
<1>9. SumFunctionOnSet(f, U \ {x}) <= (n - 1) * m
  BY <1>6, <1>7
<1>10. n * m = (n - 1) * m + m /\ (n - 1) * m \in Nat /\ n * m \in Nat
  <2>1. ((n - 1) + 1) * m = (n - 1) * m + m
    BY <1>6, OneMoreTime
  <2>2. (n - 1) + 1 = n
    BY <1>6
  <2> QED BY <2>1, <2>2, <1>6
<1>11. SumFunctionOnSet(f, U) <= n * m
  BY <1>5, <1>8, <1>9, <1>10
<1> QED BY <1>11, <1>3

\* The largest of some numbers.
LEMMA LargestNumber ==
  ASSUME NEW S \in SUBSET Nat, IsFiniteSet(S), S # {}
  PROVE  Max(S) \in S /\ \A y \in S : Max(S) >= y
<1>1. PICK b \in Nat : \A y \in S : b >= y
  <2> DEFINE f == [x \in S |-> x]
  <2>1. \A x \in S : f[x] \in Nat /\ f[x] = x
    OBVIOUS
  <2> HIDE DEF f
  <2>2. SumFunctionOnSet(f, S) \in Nat
    BY <2>1, SumIsNat
  <2>3. ASSUME NEW y \in S PROVE SumFunctionOnSet(f, S) >= y
    <3>1. SumFunctionOnSet(f, S) = f[y] + SumFunctionOnSet(f, S \ {y})
      <4>1. \A z \in S : SumFunctionOnSet(f, S) = f[z] + SumFunctionOnSet(f, S \ {z})
        BY <2>1, SumWithout
      <4> QED BY <4>1
    <3>2. IsFiniteSet(S \ {y})
      BY FS_Subset
    <3>3. SumFunctionOnSet(f, S \ {y}) \in Nat
      BY <2>1, <3>2, SumIsNat
    <3> QED BY <2>1, <3>1, <3>3
  <2> QED BY <2>2, <2>3
<1> DEFINE Bounds == {c \in Nat : \A y \in S : c >= y}
<1>2. PICK c \in Bounds : \A d \in Bounds : c <= d
  <2>1. Bounds \in SUBSET Nat /\ Bounds # {}
    BY <1>1
  <2> HIDE DEF Bounds
  <2> QED BY <2>1, LeastNumber
<1>3. c \in S
  <2>1. SUFFICES ASSUME c \notin S PROVE FALSE
    OBVIOUS
  <2>2. PICK z \in S : TRUE
    OBVIOUS
  <2>3. \A y \in S : y \in Nat /\ c >= y /\ c # y
    BY <1>2, <2>1
  <2>4. c - 1 \in Nat /\ \A y \in S : c - 1 >= y
    BY <2>2, <2>3, <1>2
  <2>5. c - 1 \in Bounds /\ c \in Nat
    BY <2>4, <1>2
  <2> QED BY <2>5, <1>2
<1>4. \E x \in S : \A y \in S : x >= y
  BY <1>2, <1>3
<1> QED BY <1>4 DEF Max

-----------------------------------------------------------------------------
(* What Positions returns.                                                 *)

\* Positions in the order of their weight: each once, the heavier first, and of
\* equal ones the one before.
LEMMA RankedIs ==
  ASSUME NEW K \in SUBSET Int, IsFiniteSet(K), NEW weight \in [K -> Int]
  PROVE  LET o == Ranked(K, weight)
             n == Cardinality(K)
         IN  /\ n \in Nat /\ o \in [1..n -> K]
             /\ \A i \in K : \E a \in 1..n : o[a] = i
             /\ \A a, b \in 1..n : a < b =>
                  /\ o[a] # o[b]
                  /\ \/ weight[o[a]] > weight[o[b]]
                     \/ weight[o[a]] = weight[o[b]] /\ o[a] < o[b]
<1> DEFINE n == Cardinality(K)
           N(i) == NoLater(K, weight, i)
           place == [i \in K |-> Cardinality(N(i))]
           o == Ranked(K, weight)
<1>1. n \in Nat
  BY FS_CardinalityType
<1>2. \A i \in K : weight[i] \in Int /\ i \in Int
  OBVIOUS
<1>3. ASSUME NEW i \in K
      PROVE  /\ N(i) \in SUBSET K /\ i \in N(i) /\ IsFiniteSet(N(i))
             /\ Cardinality(N(i)) \in 1..n
  <2>1. N(i) \in SUBSET K /\ i \in N(i)
    BY <1>2 DEF NoLater
  <2>2. IsFiniteSet(N(i)) /\ Cardinality(N(i)) <= n
    BY <2>1, FS_Subset
  <2>3. Cardinality(N(i)) \in Nat
    BY <2>2, FS_CardinalityType
  <2>4. Cardinality(N(i)) # 0
    BY <2>1, <2>2, FS_EmptySet
  <2> QED BY <1>1, <2>1, <2>2, <2>3, <2>4
<1>4. ASSUME NEW i \in K, NEW j \in K,
             weight[i] > weight[j] \/ (weight[i] = weight[j] /\ i < j)
      PROVE  place[i] < place[j]
  <2>0. /\ weight[i] \in Int /\ weight[j] \in Int /\ i \in Int /\ j \in Int
        /\ \A k \in K : weight[k] \in Int /\ k \in Int
    BY <1>2
  <2>1. N(i) \in SUBSET N(j) /\ j \notin N(i) /\ j \in N(j)
    <3>1. ASSUME NEW k \in N(i) PROVE k \in N(j)
      BY <2>0, <3>1, <1>4 DEF NoLater
    <3>2. j \notin N(i)
      BY <2>0, <1>4 DEF NoLater
    <3>3. j \in N(j)
      BY <2>0 DEF NoLater
    <3> HIDE DEF N
    <3> QED BY <3>1, <3>2, <3>3
  <2>2. Cardinality(N(i)) <= Cardinality(N(j)) /\ Cardinality(N(i)) # Cardinality(N(j))
    <3>1. IsFiniteSet(N(j))
      BY <1>3
    <3> QED BY <2>1, <3>1, FS_Subset
  <2>3. place[i] = Cardinality(N(i)) /\ place[j] = Cardinality(N(j))
    OBVIOUS
  <2>4. place[i] \in Int /\ place[j] \in Int
    BY <1>3, <2>3
  <2> HIDE DEF place
  <2> QED BY <2>2, <2>3, <2>4
<1>5. ASSUME NEW i \in K, NEW j \in K, i # j PROVE place[i] # place[j]
  <2>1. place[i] \in Int /\ place[j] \in Int
    BY <1>3
  <2>2. \/ weight[i] > weight[j] \/ (weight[i] = weight[j] /\ i < j)
        \/ weight[j] > weight[i] \/ (weight[j] = weight[i] /\ j < i)
    BY <1>2, <1>5
  <2> HIDE DEF place
  <2> QED BY <1>4, <2>1, <2>2
<1>6. place \in [K -> 1..n]
  BY <1>3
<1>7. place \in Injection(K, 1..n)
  <2> HIDE DEF place
  <2> QED BY <1>5, <1>6, Fun_IsInj
<1>8. IsFiniteSet(1..n) /\ Cardinality(1..n) = n
  BY <1>1, FS_Interval
<1>9. place \in Surjection(K, 1..n)
  <2> HIDE DEF place
  <2> QED BY <1>7, <1>8, FS_Injection
<1>10. \A a \in 1..n : \E i \in K : place[i] = a
  <2> HIDE DEF place
  <2> QED BY <1>9 DEF Surjection
<1>11. ASSUME NEW a \in 1..n PROVE o[a] \in K /\ place[o[a]] = a
  <2>1. \E i \in K : Cardinality(N(i)) = a
    BY <1>10
  <2>2. o[a] = CHOOSE i \in K : Cardinality(N(i)) = a
    BY DEF Ranked
  <2>3. o[a] \in K /\ Cardinality(N(o[a])) = a
    BY <2>1, <2>2
  <2> QED BY <2>3
<1>12. o \in [1..n -> K]
  <2>1. o = [a \in 1..n |-> o[a]]
    BY DEF Ranked
  <2> QED BY <2>1, <1>11
<1>13. ASSUME NEW i \in K PROVE \E a \in 1..n : o[a] = i
  <2>1. place[i] \in 1..n
    BY <1>6
  <2>2. o[place[i]] \in K /\ place[o[place[i]]] = place[i]
    BY <2>1, <1>11
  <2> HIDE DEF place, o
  <2> QED BY <2>1, <2>2, <1>5
<1>14. ASSUME NEW a \in 1..n, NEW b \in 1..n, a < b
       PROVE  /\ o[a] # o[b]
              /\ \/ weight[o[a]] > weight[o[b]]
                 \/ weight[o[a]] = weight[o[b]] /\ o[a] < o[b]
  <2>1. o[a] \in K /\ o[b] \in K /\ place[o[a]] = a /\ place[o[b]] = b
    BY <1>11
  <2>2. o[a] # o[b]
    BY <1>14, <2>1
  <2>3. ~(weight[o[b]] > weight[o[a]] \/ (weight[o[b]] = weight[o[a]] /\ o[b] < o[a]))
    <3> HIDE DEF place, o
    <3>1. (weight[o[b]] > weight[o[a]] \/ (weight[o[b]] = weight[o[a]] /\ o[b] < o[a]))
            => place[o[b]] < place[o[a]]
      BY <1>4, <2>1
    <3>2. ~(b < a)
      BY <1>14
    <3> QED BY <2>1, <3>1, <3>2
  <2>4. weight[o[a]] \in Int /\ weight[o[b]] \in Int /\ o[a] \in Int /\ o[b] \in Int
    BY <1>2, <2>1
  <2> HIDE DEF place, o
  <2> QED BY <2>2, <2>3, <2>4
<1> HIDE DEF n, o
<1> QED BY <1>1, <1>12, <1>13, <1>14 DEF n, o

\* The positions of a set in their own order.
LEMMA SortedIs ==
  ASSUME NEW K \in SUBSET Int, IsFiniteSet(K)
  PROVE  LET o == Sorted(K)
             n == Cardinality(K)
         IN  /\ n \in Nat /\ o \in [1..n -> K]
             /\ \A i \in K : \E a \in 1..n : o[a] = i
             /\ \A a, b \in 1..n : a < b => o[a] < o[b]
<1> DEFINE w == [i \in K |-> 0]
           n == Cardinality(K)
           o == Ranked(K, w)
<1>1. w \in [K -> Int] /\ \A i \in K : w[i] = 0
  OBVIOUS
<1>2. /\ n \in Nat /\ o \in [1..n -> K]
      /\ \A i \in K : \E a \in 1..n : o[a] = i
      /\ \A a, b \in 1..n : a < b => /\ o[a] # o[b]
                  /\ \/ w[o[a]] > w[o[b]]
                     \/ w[o[a]] = w[o[b]] /\ o[a] < o[b]
  <2> HIDE DEF w
  <2> QED BY <1>1, RankedIs
<1>3. ASSUME NEW a \in 1..n, NEW b \in 1..n, a < b PROVE o[a] < o[b]
  <2> HIDE DEF w, o, n
  <2>1. o[a] \in K /\ o[b] \in K
    BY <1>2
  <2>2. w[o[a]] = 0 /\ w[o[b]] = 0
    BY <1>1, <2>1
  <2>3. w[o[a]] > w[o[b]] \/ o[a] < o[b]
    BY <1>2, <1>3
  <2> QED BY <2>2, <2>3
<1>4. Sorted(K) = o
  BY DEF Sorted
<1> HIDE DEF w, o, n
<1> QED BY <1>2, <1>3, <1>4 DEF n

\* What Those returns: an element for each position, in their order.
ThoseOf(S, s, K) ==
  /\ Cardinality(K) \in Nat /\ Sorted(K) \in [1..Cardinality(K) -> K]
  /\ \A i \in K : \E a \in 1..Cardinality(K) : Sorted(K)[a] = i
  /\ \A a, b \in 1..Cardinality(K) : a < b => Sorted(K)[a] < Sorted(K)[b]
  /\ Those(s, K) \in Seq(S) /\ Len(Those(s, K)) = Cardinality(K)
  /\ DOMAIN Those(s, K) = 1..Cardinality(K)
  /\ \A a \in 1..Cardinality(K) : Those(s, K)[a] = s[Sorted(K)[a]]

LEMMA ThoseAre ==
  ASSUME NEW S, NEW s \in Seq(S), NEW K \in SUBSET (1..Len(s))
  PROVE  ThoseOf(S, s, K)
<1> DEFINE o == Sorted(K)
           n == Cardinality(K)
<1>1. IsFiniteSet(K) /\ K \in SUBSET Int
  <2>0. Len(s) \in Nat /\ 1 \in Int /\ Len(s) \in Int
    OBVIOUS
  <2>1. IsFiniteSet(1..Len(s))
    BY <2>0, FS_Interval
  <2>2. K \in SUBSET Int
    OBVIOUS
  <2> QED BY <2>1, <2>2, FS_Subset
<1>2. /\ n \in Nat /\ o \in [1..n -> K]
      /\ \A i \in K : \E a \in 1..n : o[a] = i
      /\ \A a, b \in 1..n : a < b => o[a] < o[b]
  BY <1>1, SortedIs
<1>3. Those(s, K) = [a \in 1..n |-> s[o[a]]]
  BY DEF Those
<1> HIDE DEF o, n
<1>4. ASSUME NEW a \in 1..n PROVE s[o[a]] \in S
  <2>1. o[a] \in K
    BY <1>2
  <2>2. o[a] \in 1..Len(s)
    BY <2>1
  <2> QED BY <2>2
<1>5. Those(s, K) \in Seq(S) /\ Len(Those(s, K)) = n
  BY <1>2, <1>3, <1>4
<1>6. DOMAIN Those(s, K) = 1..n /\ \A a \in 1..n : Those(s, K)[a] = s[o[a]]
  BY <1>3
<1> QED BY <1>2, <1>5, <1>6 DEF o, n, ThoseOf

\* They are the elements at these positions and no others.
LEMMA SetOfThose ==
  ASSUME NEW S, NEW s \in Seq(S), NEW K \in SUBSET (1..Len(s))
  PROVE  /\ Those(s, K) \in Seq({s[i] : i \in K})
         /\ ToSet(Those(s, K)) = {s[i] : i \in K}
<1>1. /\ Cardinality(K) \in Nat /\ Sorted(K) \in [1..Cardinality(K) -> K]
      /\ \A i \in K : \E a \in 1..Cardinality(K) : Sorted(K)[a] = i
      /\ Those(s, K) \in Seq(S) /\ DOMAIN Those(s, K) = 1..Cardinality(K)
      /\ Len(Those(s, K)) = Cardinality(K)
      /\ \A a \in 1..Cardinality(K) : Those(s, K)[a] = s[Sorted(K)[a]]
  <2>1. ThoseOf(S, s, K)
    BY ThoseAre
  <2> QED BY <2>1 DEF ThoseOf
<1>2. ASSUME NEW a \in 1..Cardinality(K) PROVE Those(s, K)[a] \in {s[i] : i \in K}
  <2>1. Sorted(K)[a] \in K
    BY <1>1
  <2> QED BY <1>1, <2>1
<1>3. ASSUME NEW i \in K PROVE s[i] \in ToSet(Those(s, K))
  <2>1. PICK a \in 1..Cardinality(K) : Sorted(K)[a] = i
    BY <1>1
  <2>2. a \in DOMAIN Those(s, K) /\ Those(s, K)[a] = s[i]
    BY <1>1, <2>1
  <2> QED BY <2>2 DEF ToSet
<1>4. Those(s, K) \in Seq({s[i] : i \in K})
  BY <1>1, <1>2
<1> QED BY <1>3, <1>4, SetOfSeq

\* If the elements at the positions differ, none comes twice.
LEMMA ThoseDiffer ==
  ASSUME NEW S, NEW s \in Seq(S), NEW K \in SUBSET (1..Len(s)),
         \A i, j \in K : s[i] = s[j] => i = j
  PROVE  IsInjective(Those(s, K))
<1>1. /\ Cardinality(K) \in Nat /\ Sorted(K) \in [1..Cardinality(K) -> K]
      /\ \A a, b \in 1..Cardinality(K) : a < b => Sorted(K)[a] < Sorted(K)[b]
      /\ DOMAIN Those(s, K) = 1..Cardinality(K)
      /\ \A a \in 1..Cardinality(K) : Those(s, K)[a] = s[Sorted(K)[a]]
  <2>1. ThoseOf(S, s, K)
    BY ThoseAre
  <2> QED BY <2>1 DEF ThoseOf
<1>2. ASSUME NEW a \in 1..Cardinality(K), NEW b \in 1..Cardinality(K),
             Those(s, K)[a] = Those(s, K)[b]
      PROVE  a = b
  <2>0. Sorted(K)[a] \in K /\ Sorted(K)[b] \in K
    BY <1>1
  <2>1. Sorted(K)[a] = Sorted(K)[b] /\ Sorted(K)[a] \in Int
    <3>1. s[Sorted(K)[a]] = s[Sorted(K)[b]]
      BY <1>1, <1>2
    <3>2. Sorted(K)[a] = Sorted(K)[b]
      BY <2>0, <3>1
    <3>3. K \in SUBSET Int
      OBVIOUS
    <3> QED BY <2>0, <3>2, <3>3
  <2>2. a \in Int /\ b \in Int /\ ~(a < b) /\ ~(b < a)
    BY <1>1, <2>1
  <2> QED BY <2>2
<1> QED BY <1>1, <1>2 DEF IsInjective

\* All the positions of a sequence give the sequence.
LEMMA ThoseAll ==
  ASSUME NEW S, NEW s \in Seq(S)
  PROVE  Those(s, 1..Len(s)) = s
<1> DEFINE K == 1..Len(s)
           n == Cardinality(K)
           o == Sorted(K)
           Bad == {a \in 1..n : o[a] # a}
<1>1. Len(s) \in Nat /\ n = Len(s)
  <2>1. Len(s) \in Nat /\ Len(s) \in Int /\ 1 \in Int
    OBVIOUS
  <2>2. n = IF 1 > Len(s) THEN 0 ELSE Len(s) - 1 + 1
    <3>1. Cardinality(1..Len(s)) = IF 1 > Len(s) THEN 0 ELSE Len(s) - 1 + 1
      BY <2>1, FS_Interval
    <3> QED BY <3>1
  <2> HIDE DEF n
  <2> QED BY <2>1, <2>2
<1>2. /\ n \in Nat /\ o \in [1..n -> K]
      /\ \A i \in K : \E a \in 1..n : o[a] = i
      /\ \A a, b \in 1..n : a < b => o[a] < o[b]
      /\ Those(s, K) \in Seq(S) /\ Len(Those(s, K)) = n
      /\ \A a \in 1..n : Those(s, K)[a] = s[o[a]]
  <2>1. K \in SUBSET (1..Len(s))
    OBVIOUS
  <2> HIDE DEF K, o, n
  <2>2. ThoseOf(S, s, K)
    BY <2>1, ThoseAre
  <2> QED BY <2>2 DEF ThoseOf, o, n
<1> HIDE DEF o, n
<1>3. \A a \in 1..n : o[a] = a
  <2>1. SUFFICES ASSUME Bad # {} PROVE FALSE
    OBVIOUS
  <2>2. Bad \in SUBSET Nat
    BY <1>2
  <2>3. PICK a \in Bad : \A m \in Bad : a <= m
    BY <2>1, <2>2, LeastNumber
  <2>4. a \in 1..n /\ o[a] # a /\ o[a] \in 1..n
    BY <1>1, <1>2
  <2>5. PICK c \in 1..n : o[c] = a
    BY <1>1, <1>2, <2>4
  <2>6. c # a /\ ~(c < a)
    <3>1. c # a
      BY <2>4, <2>5
    <3>2. ASSUME c < a PROVE FALSE
      <4>1. c \notin Bad
        BY <2>3, <3>2
      <4>2. o[c] = c
        BY <4>1, <2>5
      <4> QED BY <4>2, <2>5, <3>1
    <3> QED BY <3>1, <3>2
  <2>7. a < c
    BY <2>4, <2>5, <2>6
  <2>8. o[a] < a
    BY <1>2, <2>4, <2>5, <2>7
  <2>9. o[a] \notin Bad
    BY <2>3, <2>4, <2>8
  <2>10. o[o[a]] = o[a] /\ o[o[a]] < o[a]
    BY <1>2, <2>4, <2>8, <2>9
  <2> QED BY <2>4, <2>10
<1>4. \A a \in 1..Len(s) : Those(s, K)[a] = s[a]
  BY <1>1, <1>2, <1>3
<1>5. Those(s, K) \in Seq(S) /\ Len(Those(s, K)) = Len(s)
  BY <1>1, <1>2
<1> HIDE DEF K
<1> DEFINE those == Those(s, K)
<1>6. those = s
  <2>1. those \in Seq(S) /\ Len(those) = Len(s) /\ \A a \in 1..Len(s) : those[a] = s[a]
    BY <1>4, <1>5
  <2> HIDE DEF those
  <2> QED BY <2>1
<1> QED BY <1>6 DEF K

-----------------------------------------------------------------------------
(* What FlattenSeq returns.                                                *)

\* What FlattenSeq unfolds to, with f for what comes before.
Joined(f, q, i) == IF i = 1 THEN q[i] ELSE f[i - 1] \o q[i]

Joins(q) == CHOOSE f : f = [i \in 1..Len(q) |-> Joined(f, q, i)]

LEMMA FlattenUnfolded ==
  ASSUME NEW q, Len(q) # 0
  PROVE  FlattenSeq(q) = Joins(q)[Len(q)]
BY DEF FlattenSeq, Joins, Joined

\* The function exists, by induction on how much of q is joined.
LEMMA JoinsDefined ==
  ASSUME NEW q, Len(q) \in Nat
  PROVE  Joins(q) = [i \in 1..Len(q) |-> Joined(Joins(q), q, i)]
<1> DEFINE Good(n) == \E f : f = [i \in 1..n |-> Joined(f, q, i)]
           Bad == {n \in Nat : ~Good(n)}
<1>1. Good(0)
  <2> DEFINE f == [i \in 1..0 |-> Joined(<<>>, q, i)]
  <2>1. f = [i \in 1..0 |-> Joined(f, q, i)]
    OBVIOUS
  <2> QED BY <2>1
<1>2. ASSUME NEW n \in Nat, n # 0, Good(n - 1) PROVE Good(n)
  <2>1. PICK f : f = [i \in 1..(n - 1) |-> Joined(f, q, i)]
    BY <1>2
  <2> DEFINE g == [i \in 1..n |-> IF i = n THEN Joined(f, q, i) ELSE f[i]]
  <2>2. ASSUME NEW i \in 1..n PROVE g[i] = Joined(g, q, i)
    <3>1. CASE i = 1 /\ i = n
      BY <3>1 DEF Joined
    <3>2. CASE i = 1 /\ i # n
      <4>1. i \in 1..(n - 1)
        BY <3>2
      <4> QED BY <2>1, <3>2, <4>1 DEF Joined
    <3>3. CASE i # 1
      <4>1. i - 1 \in 1..n /\ i - 1 # n
        BY <3>3
      <4>2. g[i - 1] = f[i - 1]
        BY <4>1
      <4>3. CASE i = n
        BY <3>3, <4>2, <4>3 DEF Joined
      <4>4. CASE i # n
        <5>1. i \in 1..(n - 1)
          BY <4>4
        <5>2. g[i] = Joined(f, q, i)
          BY <2>1, <4>4, <5>1
        <5> QED BY <3>3, <4>2, <5>2 DEF Joined
      <4> QED BY <4>3, <4>4
    <3> QED BY <3>1, <3>2, <3>3
  <2>3. g = [i \in 1..n |-> g[i]]
    OBVIOUS
  <2> HIDE DEF g
  <2>4. g = [i \in 1..n |-> Joined(g, q, i)]
    BY <2>2, <2>3
  <2> QED BY <2>4
<1>3. Good(Len(q))
  <2> HIDE DEF Good
  <2>1. SUFFICES ASSUME Bad # {} PROVE FALSE
    OBVIOUS
  <2>2. Bad \in SUBSET Nat
    OBVIOUS
  <2>3. PICK n \in Bad : \A m \in Bad : n <= m
    BY <2>1, <2>2, LeastNumber
  <2>4. n \in Nat /\ n # 0 /\ ~Good(n)
    BY <1>1
  <2>5. n - 1 \in Nat /\ ~(n <= n - 1)
    BY <2>4
  <2>6. Good(n - 1)
    BY <2>3, <2>5
  <2> QED BY <1>2, <2>4, <2>6
<1> QED BY <1>3 DEF Joins

\* The parts are sequences over S, and so is what they are joined to.
LEMMA FlattenType ==
  ASSUME NEW S, NEW q \in Seq(Seq(S))
  PROVE  FlattenSeq(q) \in Seq(S)
<1> DEFINE J == Joins(q)
           Bad == {i \in 1..Len(q) : J[i] \notin Seq(S)}
<1>0. Len(q) \in Nat /\ \A i \in 1..Len(q) : q[i] \in Seq(S)
  OBVIOUS
<1>1. J = [i \in 1..Len(q) |-> Joined(J, q, i)]
  BY <1>0, JoinsDefined
<1> HIDE DEF J
<1>2. Len(q) # 0 => J[1] \in Seq(S)
  BY <1>0, <1>1 DEF Joined
<1>3. ASSUME NEW i \in 1..Len(q), i # 1, J[i - 1] \in Seq(S) PROVE J[i] \in Seq(S)
  <2>1. J[i] = J[i - 1] \o q[i]
    BY <1>1, <1>3 DEF Joined
  <2> QED BY <1>0, <1>3, <2>1, ConcatType
<1>4. \A i \in 1..Len(q) : J[i] \in Seq(S)
  <2>1. SUFFICES ASSUME Bad # {} PROVE FALSE
    OBVIOUS
  <2>2. Bad \in SUBSET Nat
    OBVIOUS
  <2>3. PICK n \in Bad : \A m \in Bad : n <= m
    BY <2>1, <2>2, LeastNumber
  <2>4. n \in 1..Len(q) /\ n # 1 /\ J[n] \notin Seq(S)
    BY <1>0, <1>2
  <2>5. n - 1 \in 1..Len(q) /\ ~(n <= n - 1)
    BY <1>0, <2>4
  <2>6. J[n - 1] \in Seq(S)
    BY <2>3, <2>5
  <2> QED BY <1>3, <2>4, <2>6
<1>5. CASE Len(q) = 0
  BY <1>5 DEF FlattenSeq
<1>6. CASE Len(q) # 0
  <2>1. FlattenSeq(q) = J[Len(q)]
    BY <1>6, FlattenUnfolded DEF J
  <2> QED BY <1>0, <1>4, <1>6, <2>1
<1> QED BY <1>5, <1>6

=============================================================================
