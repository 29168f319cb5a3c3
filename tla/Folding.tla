------------------------------- MODULE Folding ------------------------------
(***************************************************************************)
(* What FoldLeft of the community modules computes, for any operation: the *)
(* last of the values one gets from the base by applying the operation to  *)
(* one element after the other.  And induction over the naturals, which    *)
(* proofs about these values need, in the form of a set that is all of a   *)
(* range.  A proof instantiates this module for each operation it folds.   *)
(***************************************************************************)
EXTENDS Naturals, Sequences, SequencesExt, WellFoundedInduction, TLAPS

CONSTANT Op(_, _)

(* A set of naturals that has 0 and with each element its successor.       *)
LEMMA Induction ==
  ASSUME NEW S, 0 \in S, \A i \in Nat : i \in S => i + 1 \in S
  PROVE  Nat \subseteq S
<1> DEFINE R == {ss \in Nat \X Nat : ss[1] < ss[2]}
           T == Nat \ S
<1>1. IsWellFoundedOn(R, Nat)
  BY NatLessThanWellFounded DEF OpToRel
<1> SUFFICES ASSUME T # {} PROVE FALSE
  OBVIOUS
<1>2. \E m \in T : \A k \in T : <<k, m>> \notin R
  <2>1. T \subseteq Nat
    OBVIOUS
  <2> HIDE DEF R, T
  <2> QED  BY <1>1, <2>1, WFMin
<1>3. PICK m \in T : \A k \in T : <<k, m>> \notin R
  BY <1>2
<1>4. m # 0 /\ m - 1 \in Nat /\ m - 1 < m
  OBVIOUS
<1>5. m - 1 \notin T
  BY <1>3, <1>4
<1>6. m - 1 \in S
  BY <1>4, <1>5
<1>7. (m - 1) + 1 = m
  OBVIOUS
<1> QED  BY <1>3, <1>4, <1>6, <1>7

(* The same up to a bound.                                                 *)
LEMMA UpTo ==
  ASSUME NEW n \in Nat, NEW S, 0 \in S,
         \A i \in 0..(n - 1) : i \in S => i + 1 \in S
  PROVE  0..n \subseteq S
<1> DEFINE T == {i \in Nat : i <= n => i \in S}
<1>1. 0 \in T
  OBVIOUS
<1>2. ASSUME NEW i \in Nat, i \in T  PROVE i + 1 \in T
  BY <1>2
<1>3. Nat \subseteq T
  <2> HIDE DEF T
  <2> QED  BY <1>1, <1>2, Induction
<1> QED  BY <1>3

(* The largest element of a range and of its subsets that have it.         *)
LEMMA MaxOfRange ==
  ASSUME NEW n \in Nat, NEW s \in SUBSET (1..n), n \in s
  PROVE  Max(s) = n
<1>1. n \in s /\ \A y \in s : n >= y
  OBVIOUS
<1>2. Max(s) \in s /\ \A y \in s : Max(s) >= y
  BY <1>1 DEF Max
<1>3. Max(s) >= n /\ n >= Max(s) /\ Max(s) \in 1..n
  BY <1>1, <1>2
<1> HIDE DEF Max
<1> QED  BY <1>3

(* The recursion that FoldLeft unfolds to, on the subsets of a domain.     *)
Unfolds(base, seq, n, iter) ==
  iter = [s \in SUBSET (1..n) |->
            IF s = {} THEN base ELSE Op(iter[s \ {Max(s)}], seq[Max(s)])]

LEMMA UnfoldsNext ==
  ASSUME NEW base, NEW seq, NEW n \in Nat, NEW g, Unfolds(base, seq, n, g)
  PROVE  \E h : Unfolds(base, seq, n + 1, h)
<1> DEFINE h == [s \in SUBSET (1..(n + 1)) |->
                   IF n + 1 \in s THEN Op(g[s \ {n + 1}], seq[n + 1]) ELSE g[s]]
           e(s) == IF s = {} THEN base ELSE Op(h[s \ {Max(s)}], seq[Max(s)])
<1>1. ASSUME NEW s \in SUBSET (1..(n + 1)), n + 1 \in s
      PROVE  h[s] = e(s)
  <2>1. Max(s) = n + 1
    BY <1>1, MaxOfRange
  <2>2. s \ {n + 1} \in SUBSET (1..(n + 1)) /\ n + 1 \notin s \ {n + 1}
    OBVIOUS
  <2>3. h[s \ {n + 1}] = g[s \ {n + 1}]
    BY <2>2
  <2> HIDE DEF h
  <2>4. h[s] = Op(g[s \ {n + 1}], seq[n + 1])
    BY <1>1 DEF h
  <2> QED  BY <1>1, <2>1, <2>3, <2>4
<1>2. ASSUME NEW s \in SUBSET (1..(n + 1)), n + 1 \notin s
      PROVE  h[s] = e(s)
  <2>1. s \in SUBSET (1..n) /\ s \ {Max(s)} \in SUBSET (1..n)
    <3>1. \A x \in s : x \in 1..(n + 1) /\ x # n + 1
      BY <1>2
    <3>2. s \in SUBSET (1..n)
      BY <3>1
    <3> QED  BY <3>2
  <2>2. g[s] = IF s = {} THEN base ELSE Op(g[s \ {Max(s)}], seq[Max(s)])
    BY <2>1 DEF Unfolds
  <2>3. h[s] = g[s] /\ h[s \ {Max(s)}] = g[s \ {Max(s)}]
    BY <1>2, <2>1
  <2> HIDE DEF h
  <2> QED  BY <2>2, <2>3
<1>3. h = [s \in SUBSET (1..(n + 1)) |-> h[s]]
  OBVIOUS
<1>4. h = [s \in SUBSET (1..(n + 1)) |-> e(s)]
  <2> HIDE DEF h, e
  <2> QED  BY <1>1, <1>2, <1>3
<1>5. Unfolds(base, seq, n + 1, h)
  <2> HIDE DEF h
  <2> QED  BY <1>4 DEF Unfolds
<1> QED  BY <1>5

LEMMA UnfoldsExists ==
  ASSUME NEW base, NEW seq, NEW n \in Nat
  PROVE  \E iter : Unfolds(base, seq, n, iter)
<1> DEFINE S == {k \in Nat : \E iter : Unfolds(base, seq, k, iter)}
           none == [s \in SUBSET (1..0) |-> base]
<1>1. 0 \in S
  <2>1. SUBSET (1..0) = {{}}
    OBVIOUS
  <2>2. none = [s \in SUBSET (1..0) |->
                  IF s = {} THEN base ELSE Op(none[s \ {Max(s)}], seq[Max(s)])]
    BY <2>1
  <2>3. Unfolds(base, seq, 0, none)
    BY <2>2 DEF Unfolds
  <2> QED  BY <2>3
<1>2. \A k \in Nat : k \in S => k + 1 \in S
  BY UnfoldsNext
<1>3. Nat \subseteq S
  <2> HIDE DEF S
  <2> QED  BY <1>1, <1>2, Induction
<1> QED  BY <1>3

(* A fold is the last value of a run that starts at the base.              *)
IsRun(run, base, seq, n) ==
  /\ DOMAIN run = 0..n
  /\ run[0] = base
  /\ \A i \in 1..n : run[i] = Op(run[i - 1], seq[i])

LEMMA FoldLeftRun ==
  ASSUME NEW base, NEW n \in Nat, NEW seq, DOMAIN seq = 1..n
  PROVE  \E run : IsRun(run, base, seq, n) /\ run[n] = FoldLeft(Op, base, seq)
<1> DEFINE iter == CHOOSE g : Unfolds(base, seq, n, g)
           run == [i \in 0..n |-> iter[1..i]]
<1>1. Unfolds(base, seq, n, iter)
  BY UnfoldsExists
<1>2. FoldLeft(Op, base, seq) = iter[1..n]
  BY DEF FoldLeft, MapThenFoldSet, Unfolds
<1> HIDE DEF iter
<1>3. run[0] = base
  <2>1. 1..0 = {} /\ {} \in SUBSET (1..n)
    OBVIOUS
  <2> QED  BY <1>1, <2>1 DEF Unfolds
<1>4. ASSUME NEW i \in 1..n
      PROVE  run[i] = Op(run[i - 1], seq[i])
  <2>1. 1..i \in SUBSET (1..n) /\ 1..i # {} /\ i \in 1..i /\ 1..i \in SUBSET (1..i)
    OBVIOUS
  <2>2. Max(1..i) = i
    BY <2>1, MaxOfRange
  <2>3. (1..i) \ {i} = 1..(i - 1)
    OBVIOUS
  <2>4. iter[1..i] = Op(iter[1..(i - 1)], seq[i])
    BY <1>1, <2>1, <2>2, <2>3 DEF Unfolds
  <2> QED  BY <2>4
<1> HIDE DEF run
<1>5. run[n] = iter[1..n] /\ DOMAIN run = 0..n
  BY DEF run
<1> QED  BY <1>2, <1>3, <1>4, <1>5 DEF IsRun

(* A function that gives each number what the operation makes of its value *)
(* at the number before.                                                   *)
Recurs(f, base, seq, n) ==
  f = [i \in 0..n |-> IF i = 0 THEN base ELSE Op(f[i - 1], seq[i])]

LEMMA RecursionExists ==
  ASSUME NEW base, NEW n \in Nat, NEW seq, DOMAIN seq = 1..n
  PROVE  \E f : Recurs(f, base, seq, n)
<1>1. PICK run : IsRun(run, base, seq, n)
  BY FoldLeftRun
<1> DEFINE f == [i \in 0..n |-> run[i]]
<1>2. ASSUME NEW i \in 0..n
      PROVE  f[i] = IF i = 0 THEN base ELSE Op(f[i - 1], seq[i])
  <2>1. CASE i = 0
    BY <1>1, <2>1 DEF IsRun
  <2>2. CASE i # 0
    <3>1. i \in 1..n /\ i - 1 \in 0..n
      BY <2>2
    <3>2. f[i] = run[i] /\ f[i - 1] = run[i - 1]
      BY <3>1
    <3> HIDE DEF f
    <3> QED  BY <1>1, <2>2, <3>1, <3>2 DEF IsRun
  <2> QED  BY <2>1, <2>2
<1>3. f = [i \in 0..n |-> f[i]]
  OBVIOUS
<1>4. f = [i \in 0..n |-> IF i = 0 THEN base ELSE Op(f[i - 1], seq[i])]
  <2> HIDE DEF f
  <2> QED  BY <1>2, <1>3
<1> HIDE DEF f
<1> QED  BY <1>4 DEF Recurs

=============================================================================
