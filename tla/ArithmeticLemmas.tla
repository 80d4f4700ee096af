------------------------- MODULE ArithmeticLemmas -------------------------
(***************************************************************************)
(* Induction over the naturals in a first-order form, for the proofs of    *)
(* this project: a property is a set, a recursive step is a function.      *)
(* And remainders.                                                         *)
(***************************************************************************)
EXTENDS Integers, WellFoundedInduction, TLAPS

\* A non-empty set of naturals has a smallest element.
LEMMA NatMin ==
    ASSUME NEW T, T \subseteq Nat, T # {}
    PROVE  \E x \in T : \A y \in T : x =< y
<1>1. PICK x \in T : \A y \in T : ~(<<y, x>> \in OpToRel(<, Nat))
  BY NatLessThanWellFounded, WFMin
<1>2. \A y \in T : ~(y < x)
  BY <1>1 DEF OpToRel
<1> QED
  BY <1>2

\* A set of naturals that has 0 and, with a number below N, the next one, has
\* every number up to N.
LEMMA UpTo ==
    ASSUME NEW N \in Nat, NEW S, 0 \in S,
           \A n \in 0 .. N - 1 : n \in S => n + 1 \in S
    PROVE  0 .. N \subseteq S
<1> DEFINE T == {n \in 0 .. N : n \notin S}
<1> SUFFICES ASSUME T # {} PROVE FALSE
  OBVIOUS
<1>1. PICK x \in T : \A y \in T : x =< y
  <2>1. T \subseteq Nat
    OBVIOUS
  <2> HIDE DEF T
  <2> QED
    BY <2>1, NatMin
<1>2. x # 0 /\ x \in 0 .. N
  BY <1>1
<1>3. x - 1 \in 0 .. N - 1 /\ ~(x =< x - 1)
  BY <1>2
<1>4. x - 1 \in S
  BY <1>1, <1>3
<1> QED
  BY <1>1, <1>2, <1>3, <1>4

\* A set that has a number up to N whenever it has all those above it, up to N,
\* has them all.
LEMMA DownFrom ==
    ASSUME NEW N \in Nat, NEW S,
           \A n \in 0 .. N : (\A m \in n + 1 .. N : m \in S) => n \in S
    PROVE  0 .. N \subseteq S
<1> DEFINE T == {k \in 0 .. N : N - k \notin S}
<1> SUFFICES ASSUME T # {} PROVE FALSE
  <2>1. \A n \in 0 .. N : N - n \in 0 .. N /\ N - (N - n) = n
    OBVIOUS
  <2>2. \A n \in 0 .. N : n \notin S => N - n \in T
    BY <2>1
  <2> QED
    BY <2>2
<1>1. PICK x \in T : \A y \in T : x =< y
  <2>1. T \subseteq Nat
    OBVIOUS
  <2> HIDE DEF T
  <2> QED
    BY <2>1, NatMin
<1>2. \A m \in N - x + 1 .. N : m \in S
  <2> TAKE m \in N - x + 1 .. N
  <2>1. x \in 0 .. N
    OBVIOUS
  <2>2. N - m \in 0 .. N /\ ~(x =< N - m) /\ N - (N - m) = m
    BY <2>1
  <2> QED
    BY <1>1, <2>2
<1>3. N - x \in 0 .. N /\ N - x \notin S
  OBVIOUS
<1> QED
  BY <1>2, <1>3

\* The values of an iteration: from A, step F[k] for k from 1 to N.
IsIteration(g, N, D, A, F) ==
    /\ g \in [0 .. N -> D]
    /\ g[0] = A
    /\ \A k \in 1 .. N : g[k] = F[k][g[k - 1]]

\* An iteration exists.
LEMMA IterationExists ==
    ASSUME NEW N \in Nat, NEW D, NEW A \in D, NEW F \in [1 .. N -> [D -> D]]
    PROVE  \E g : IsIteration(g, N, D, A, F)
<1> DEFINE Upto(n, g) == /\ g \in [0 .. n -> D] /\ g[0] = A
                         /\ \A k \in 1 .. n : g[k] = F[k][g[k - 1]]
           S == {n \in 0 .. N : \E g : Upto(n, g)}
<1>1. 0 \in S
  <2> DEFINE g == [k \in 0 .. 0 |-> A]
  <2>1. Upto(0, g)
    OBVIOUS
  <2> QED
    <3> HIDE DEF g, Upto
    <3> QED
      BY <2>1
<1>2. ASSUME NEW n \in 0 .. N - 1, n \in S PROVE n + 1 \in S
  <2>1. PICK g : Upto(n, g)
    BY <1>2
  <2> DEFINE h == [k \in 0 .. n + 1 |-> IF k = n + 1 THEN F[n + 1][g[n]] ELSE g[k]]
  <2>2. F[n + 1][g[n]] \in D
    <3>1. g[n] \in D /\ n + 1 \in 1 .. N
      BY <2>1
    <3> QED
      BY <3>1
  <2>3. \A k \in 0 .. n : h[k] = g[k] /\ g[k] \in D
    BY <2>1
  <2>4. h \in [0 .. n + 1 -> D]
    <3>1. \A k \in 0 .. n + 1 : k = n + 1 \/ k \in 0 .. n
      OBVIOUS
    <3>2. \A k \in 0 .. n + 1 : h[k] \in D
      BY <2>2, <2>3, <3>1
    <3>3. h = [k \in 0 .. n + 1 |-> h[k]]
      OBVIOUS
    <3> HIDE DEF h
    <3> QED
      BY <3>2, <3>3
  <2>5. \A k \in 1 .. n + 1 : h[k] = F[k][h[k - 1]]
    <3> TAKE k \in 1 .. n + 1
    <3>1. CASE k = n + 1
      BY <2>3, <3>1
    <3>2. CASE k \in 1 .. n
      <4>1. k - 1 \in 0 .. n /\ k \in 0 .. n
        BY <3>2
      <4> QED
        BY <2>1, <2>3, <3>2, <4>1
    <3> QED
      BY <3>1, <3>2
  <2>6. Upto(n + 1, h)
    BY <2>1, <2>3, <2>4, <2>5
  <2>7. n + 1 \in 0 .. N
    OBVIOUS
  <2> HIDE DEF h, Upto
  <2> QED
    BY <2>6, <2>7
<1>3. N \in S
  <2> HIDE DEF S
  <2>1. \A n \in 0 .. N - 1 : n \in S => n + 1 \in S
    BY <1>2
  <2>2. 0 .. N \subseteq S
    BY <1>1, <2>1, UpTo
  <2> QED
    BY <2>2
<1> QED
  BY <1>3 DEF IsIteration

-----------------------------------------------------------------------------
(* Remainders. *)

\* A number is a multiple of C and its remainder.
LEMMA ModFacts ==
    ASSUME NEW a \in Int, NEW C \in Nat \ {0}
    PROVE  a % C \in 0 .. C - 1 /\ \E k \in Int : a = C * k + (a % C)
<1>1. a = C * (a \div C) + (a % C) /\ a \div C \in Int /\ a % C \in 0 .. C - 1
  OBVIOUS
<1> QED
  BY <1>1

\* In only one way.
LEMMA ModUnique ==
    ASSUME NEW C \in Nat \ {0}, NEW k \in Int, NEW r \in 0 .. C - 1
    PROVE  (C * k + r) % C = r
<1> DEFINE a == C * k + r
<1>1. a \in Int
  OBVIOUS
<1>2. a = C * k + r
  OBVIOUS
<1> HIDE DEF a
<1>3. PICK j \in Int : a = C * j + (a % C)
  BY <1>1, ModFacts
<1>4. a % C \in 0 .. C - 1
  BY <1>1, ModFacts
<1> DEFINE s == a % C
<1>5. s \in 0 .. C - 1 /\ C * j + s = C * k + r
  BY <1>2, <1>3, <1>4
<1> HIDE DEF s
<1>6. s = r
  BY <1>5
<1> QED
  BY <1>6 DEF s, a

\* A multiple of C does not count.
LEMMA ModShift ==
    ASSUME NEW a \in Int, NEW C \in Nat \ {0}, NEW k \in Int
    PROVE  (a + C * k) % C = a % C
<1>1. PICK j \in Int : a = C * j + (a % C)
  BY ModFacts
<1>2. a % C \in 0 .. C - 1
  BY ModFacts
<1> DEFINE s == a % C
<1>3. a = C * j + s /\ s \in 0 .. C - 1
  BY <1>1, <1>2
<1> HIDE DEF s
<1>4. a + C * k = C * (j + k) + s /\ j + k \in Int
  BY <1>3
<1>5. (C * (j + k) + s) % C = s
  BY <1>3, <1>4, ModUnique
<1> QED
  BY <1>4, <1>5 DEF s

\* Numbers less than C apart have different remainders.
LEMMA ModDistinct ==
    ASSUME NEW a \in Int, NEW b \in Int, NEW C \in Nat \ {0}, 0 < a - b, a - b < C
    PROVE  a % C # b % C
<1> SUFFICES ASSUME a % C = b % C PROVE FALSE
  OBVIOUS
<1>1. PICK j \in Int : a = C * j + (a % C)
  BY ModFacts
<1>2. PICK k \in Int : b = C * k + (b % C)
  BY ModFacts
<1> DEFINE s == a % C
<1>3. a = C * j + s /\ b = C * k + s /\ s \in Int
  BY <1>1, <1>2, ModFacts
<1> HIDE DEF s
<1>4. a - b = C * (j - k) /\ j - k \in Int
  BY <1>3
<1> DEFINE d == j - k
<1>5. a - b = C * d /\ d \in Int
  BY <1>4
<1> HIDE DEF d
<1>6. d > 0 /\ d < 1
  BY <1>5
<1> QED
  BY <1>5, <1>6

\* Numbers below C are their own remainders.
LEMMA ModSmall ==
    ASSUME NEW C \in Nat \ {0}, NEW a \in 0 .. C - 1
    PROVE  a % C = a
OBVIOUS
=============================================================================
