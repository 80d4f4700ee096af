-------------------------- MODULE ComponentProofs --------------------------
(***************************************************************************)
(* Proofs about five parts that share no state.  The price bitmap: its     *)
(* searches find the nearest set level.  The market-making simulation: the *)
(* inventory keeps its bound, and a quote's place in the queue is exact.   *)
(* The journal: it implements a durable log.  The order index: a lookup is *)
(* right, whatever the hash.  The market-data feed: a subscriber in sync   *)
(* has the book of one that missed nothing, and one at the end of the feed *)
(* has the engine's.                                                       *)
(***************************************************************************)
EXTENDS PriceBitmap, MmSim, Journal, OrderIndex, MdFeed, ArithmeticLemmas, SequenceTheorems,
        FiniteSetTheorems

-----------------------------------------------------------------------------
(***************************************************************************)
(* The price bitmap.  A number is its word's index and its place in the word, *)
(* and its word's index is again such a pair in the summary.               *)
(***************************************************************************)

\* A number has a quotient and a remainder.
LEMMA Parts ==
    ASSUME NEW B \in Nat \ {0}, NEW i \in Nat
    PROVE  i \div B \in Nat /\ i % B \in 0 .. B - 1 /\ i = (i \div B) * B + (i % B)
<1>1. PICK q, r : q = i \div B /\ r = i % B
  OBVIOUS
<1>2. i = B * q + r /\ q \in Int /\ r \in 0 .. B - 1
  BY <1>1
<1>3. q \in Nat
  <2> SUFFICES ASSUME q =< -1 PROVE FALSE
    BY <1>2
  <2>1. B * q =< B * (-1)
    BY <1>2
  <2> QED
    BY <1>2, <2>1
<1>4. i = q * B + r
  BY <1>2
<1>5. (i \div B) * B + (i % B) = q * B + r
  BY <1>1, Zenon
<1>6. i = (i \div B) * B + (i % B)
  BY <1>4, <1>5, Zenon
<1>7. i \div B \in Nat
  BY <1>1, <1>3, Zenon
<1>8. i % B \in 0 .. B - 1
  BY <1>1, <1>2, Zenon
<1> QED
  BY <1>6, <1>7, <1>8, Zenon

\* The two parts alone, without the product.
LEMMA PartTypes ==
    ASSUME NEW B \in Nat \ {0}, NEW i \in Nat
    PROVE  i \div B \in Nat /\ i % B \in 0 .. B - 1
BY Parts, Zenon

\* Numbers are ordered by quotient, then by remainder.
LEMMA Lex ==
    ASSUME NEW B \in Nat \ {0}, NEW s \in Int, NEW t \in Int, NEW b \in 0 .. B - 1, NEW c \in 0 .. B - 1
    PROVE  /\ s < t => s * B + b < t * B + c
           /\ s * B + b \in Int
<1>1. s * B \in Int /\ t * B \in Int
  OBVIOUS
<1>2. ASSUME s < t PROVE s * B + b < t * B + c
  <2>1. (s + 1) * B =< t * B
    BY <1>2
  <2>2. (s + 1) * B = s * B + B
    OBVIOUS
  <2> DEFINE x == s * B
             y == t * B
  <2>3. x + B =< y /\ x \in Int /\ y \in Int
    BY <1>1, <2>1, <2>2
  <2> HIDE DEF x, y
  <2>4. x + b < y + c
    BY <2>3
  <2> QED
    BY <2>4 DEF x, y
<1> QED
  BY <1>1, <1>2

\* They are unique.
LEMMA PartsAre ==
    ASSUME NEW B \in Nat \ {0}, NEW s \in Nat, NEW b \in 0 .. B - 1, NEW i, i = s * B + b
    PROVE  i \in Nat /\ i \div B = s /\ i % B = b
<1>1. s * B \in Nat
  OBVIOUS
<1>2. i \in Nat
  BY <1>1
<1> DEFINE q == i \div B
           r == i % B
<1>3. q \in Nat /\ r \in 0 .. B - 1 /\ i = q * B + r
  BY <1>2, Parts
<1> HIDE DEF q, r
<1>4. ~(q < s) /\ ~(s < q)
  <2>1. q < s => q * B + r < s * B + b
    BY <1>3, Lex
  <2>2. s < q => s * B + b < q * B + r
    BY <1>3, Lex
  <2> QED
    BY <1>2, <1>3, <2>1, <2>2
<1>5. q = s
  BY <1>3, <1>4
<1>6. r = b
  BY <1>1, <1>3, <1>5
<1> QED
  BY <1>2, <1>5, <1>6 DEF q, r

\* Order by the parts.
LEMMA PartsOrder ==
    ASSUME NEW B \in Nat \ {0}, NEW i \in Nat, NEW j \in Nat
    PROVE  /\ i =< j => i \div B < j \div B \/ (i \div B = j \div B /\ i % B =< j % B)
           /\ i \div B < j \div B => i < j
           /\ i \div B = j \div B /\ i % B =< j % B => i =< j
<1> DEFINE s == i \div B
           b == i % B
           t == j \div B
           c == j % B
<1>1. s \in Nat /\ b \in 0 .. B - 1 /\ i = s * B + b
  BY Parts
<1>2. t \in Nat /\ c \in 0 .. B - 1 /\ j = t * B + c
  BY Parts
<1> HIDE DEF s, b, t, c
<1>3. s < t => i < j
  BY <1>1, <1>2, Lex
<1>4. t < s => j < i
  BY <1>1, <1>2, Lex
<1>5. s = t => (i =< j <=> b =< c)
  <2> SUFFICES ASSUME s = t PROVE i =< j <=> b =< c
    OBVIOUS
  <2> DEFINE x == s * B
  <2>1. x \in Int /\ i = x + b /\ j = x + c
    BY <1>1, <1>2
  <2> HIDE DEF x
  <2> QED
    BY <1>1, <1>2, <2>1
<1>6. /\ i =< j => s < t \/ (s = t /\ b =< c)
      /\ s < t => i < j
      /\ s = t /\ b =< c => i =< j
  BY <1>1, <1>2, <1>3, <1>4, <1>5
<1> QED
  BY <1>6 DEF s, b, t, c

-----------------------------------------------------------------------------

\* The least element of a set, and the greatest, when there is one.
LEMMA MinIs ==
    ASSUME NEW S, S \subseteq Int, NEW x \in S, \A y \in S : x =< y
    PROVE  Min(S) = x
<1>1. PICK m : m = Min(S)
  OBVIOUS
<1>2. m \in S /\ \A y \in S : m =< y
  BY <1>1 DEF Min
<1>3. m =< x /\ x =< m /\ m \in Int /\ x \in Int
  BY <1>2
<1>4. m = x
  BY <1>3
<1> QED
  BY <1>1, <1>4

\* The same of the greatest.
LEMMA MaxIs ==
    ASSUME NEW S, S \subseteq Int, NEW x \in S, \A y \in S : x >= y
    PROVE  Max(S) = x
<1>1. PICK m : m = Max(S)
  OBVIOUS
<1>2. m \in S /\ \A y \in S : m >= y
  BY <1>1 DEF Max
<1>3. m >= x /\ x >= m /\ m \in Int /\ x \in Int
  BY <1>2
<1>4. m = x
  BY <1>3
<1> QED
  BY <1>1, <1>4

\* A set of naturals has a least element.
LEMMA MinOf ==
    ASSUME NEW S, S \subseteq Nat, S # {}
    PROVE  Min(S) \in S /\ \A y \in S : Min(S) =< y
<1>1. \E x \in S : \A y \in S : x =< y
  BY NatMin
<1> QED
  BY <1>1 DEF Min

\* A set of numbers up to N has a greatest one.
LEMMA MaxOf ==
    ASSUME NEW N \in Nat, NEW S, S \subseteq 0 .. N, S # {}
    PROVE  Max(S) \in S /\ \A y \in S : Max(S) >= y
<1> DEFINE T == {N - x : x \in S}
<1>1. T \subseteq Nat /\ T # {}
  <2>1. PICK z \in S : TRUE
    OBVIOUS
  <2>2. N - z \in T
    OBVIOUS
  <2>3. \A x \in S : N - x \in Nat
    OBVIOUS
  <2> QED
    BY <2>2, <2>3
<1>2. PICK m \in T : \A y \in T : m =< y
  <2> HIDE DEF T
  <2> QED
    BY <1>1, NatMin
<1>3. PICK x \in S : m = N - x
  BY <1>2
<1>4. \A y \in S : x >= y
  <2> SUFFICES ASSUME NEW y \in S PROVE x >= y
    OBVIOUS
  <2>1. m =< N - y
    BY <1>2
  <2>2. x \in 0 .. N /\ y \in 0 .. N
    BY <1>3
  <2> QED
    BY <1>3, <2>1, <2>2
<1> QED
  BY <1>4 DEF Max

-----------------------------------------------------------------------------

\* The numbers whose bit is set in the first n words of f.
Bits(f, n, B) == {j \in Nat : j \div B < n /\ j % B \in f[j \div B]}

\* r is the nearest member of S from i upward, and there is none.
NearestUp(S, i, r) == r \in S /\ i =< r /\ \A j \in S : i =< j => r =< j
NoneUp(S, i) == \A j \in S : j < i

\* The same downward.
NearestDown(S, i, r) == r \in S /\ r =< i /\ \A j \in S : j =< i => j =< r
NoneDown(S, i) == \A j \in S : i < j

\* The nearest bit is in the word of i.
LEMMA UpHere ==
    ASSUME NEW B \in Nat \ {0}, NEW n \in Nat, NEW f \in [0 .. n - 1 -> SUBSET (0 .. B - 1)],
           NEW i \in Nat, i \div B < n, BitsFrom(f[i \div B], i % B) # {}
    PROVE  NearestUp(Bits(f, n, B), i, (i \div B) * B + Min(BitsFrom(f[i \div B], i % B)))
<1>1. PICK h : h = BitsFrom(f[i \div B], i % B)
  OBVIOUS
<1>2. PICK s, b : s = i \div B /\ b = i % B
  OBVIOUS
<1>3. s \in 0 .. n - 1 /\ b \in 0 .. B - 1
  <2>1. s \in Nat /\ b \in 0 .. B - 1 /\ s < n
    BY <1>2, PartTypes, Zenon
  <2> QED
    BY <2>1
<1>4. h = {x \in f[s] : x >= b} /\ f[s] \subseteq 0 .. B - 1
  BY <1>1, <1>2, <1>3 DEF BitsFrom
<1>5. PICK m : m = Min(h)
  OBVIOUS
<1>6. m \in h /\ \A y \in h : m =< y
  <2>1. h \subseteq Nat /\ h # {}
    BY <1>1, <1>4
  <2> QED
    BY <1>5, <2>1, MinOf
<1>7. m \in f[s] /\ m \in 0 .. B - 1 /\ b =< m
  BY <1>3, <1>4, <1>6
<1>8. PICK r : r = s * B + m
  OBVIOUS
<1>9. r \in Nat /\ r \div B = s /\ r % B = m
  <2>1. s \in Nat
    BY <1>3
  <2> QED
    BY <1>7, <1>8, <2>1, PartsAre, ZenonT(40)
<1>10. r \in Bits(f, n, B)
  BY <1>3, <1>7, <1>9 DEF Bits
<1>11. i =< r
  BY <1>2, <1>7, <1>9, PartsOrder
<1>12. ASSUME NEW j \in Bits(f, n, B), i =< j PROVE r =< j
  <2>1. j \in Nat /\ j % B \in f[j \div B]
    BY DEF Bits
  <2>2. s < j \div B \/ (s = j \div B /\ b =< j % B)
    BY <1>2, <1>12, <2>1, PartsOrder
  <2>3. CASE s < j \div B
    <3>1. r < j
      BY <1>9, <2>1, <2>3, PartsOrder
    <3> QED
      BY <1>9, <2>1, <3>1
  <2>4. CASE s = j \div B /\ b =< j % B
    <3>1. j % B \in 0 .. B - 1
      BY <2>1, PartTypes
    <3>2. j % B \in h
      BY <1>3, <1>4, <2>1, <2>4, <3>1
    <3>3. m =< j % B
      BY <1>6, <3>2
    <3> QED
      BY <1>9, <2>1, <2>4, <3>3, PartsOrder
  <2> QED
    BY <2>2, <2>3, <2>4
<1>13. NearestUp(Bits(f, n, B), i, r)
  BY <1>10, <1>11, <1>12 DEF NearestUp
<1> QED
  BY <1>1, <1>2, <1>5, <1>8, <1>13

\* The nearest bit is in a later word: the first that has one.
LEMMA UpAfter ==
    ASSUME NEW B \in Nat \ {0}, NEW n \in Nat, NEW f \in [0 .. n - 1 -> SUBSET (0 .. B - 1)],
           NEW i \in Nat, i \div B < n => BitsFrom(f[i \div B], i % B) = {},
           NEW k \in 0 .. n - 1, i \div B < k, f[k] # {},
           \A l \in 0 .. n - 1 : i \div B < l /\ l < k => f[l] = {}
    PROVE  NearestUp(Bits(f, n, B), i, k * B + Min(f[k]))
<1>1. PICK s, b : s = i \div B /\ b = i % B
  OBVIOUS
<1>2. s \in Nat /\ b \in 0 .. B - 1 /\ s < k
  BY <1>1, PartTypes
<1>3. PICK m : m = Min(f[k])
  OBVIOUS
<1>4. m \in f[k] /\ (\A y \in f[k] : m =< y) /\ m \in 0 .. B - 1
  <2>1. f[k] \subseteq Nat /\ f[k] \subseteq 0 .. B - 1
    OBVIOUS
  <2> QED
    BY <1>3, <2>1, MinOf
<1>5. PICK r : r = k * B + m
  OBVIOUS
<1>6. r \in Nat /\ r \div B = k /\ r % B = m
  <2>1. k \in Nat
    OBVIOUS
  <2> QED
    BY <1>4, <1>5, <2>1, PartsAre, ZenonT(40)
<1>7. r \in Bits(f, n, B)
  BY <1>4, <1>6 DEF Bits
<1>8. i =< r
  <2>1. i < r
    BY <1>1, <1>2, <1>6, PartsOrder
  <2> QED
    BY <1>6, <2>1
<1>9. ASSUME NEW j \in Bits(f, n, B), i =< j PROVE r =< j
  <2>1. j \in Nat /\ j \div B < n /\ j % B \in f[j \div B]
    BY DEF Bits
  <2>2. PICK t, c : t = j \div B /\ c = j % B
    OBVIOUS
  <2>3. t \in 0 .. n - 1 /\ c \in 0 .. B - 1 /\ c \in f[t]
    <3>1. t \in Nat /\ c \in 0 .. B - 1 /\ t < n /\ c \in f[t]
      BY <2>1, <2>2, PartTypes, Zenon
    <3> QED
      BY <3>1
  <2>4. s < t \/ (s = t /\ b =< c)
    BY <1>1, <1>9, <2>1, <2>2, PartsOrder
  <2>5. ~(s = t /\ b =< c)
    BY <1>1, <1>2, <2>3 DEF BitsFrom
  <2>6. ~(t < k)
    BY <1>1, <2>3, <2>4, <2>5
  <2>7. CASE k < t
    <3>1. r < j
      BY <1>6, <2>1, <2>2, <2>7, PartsOrder
    <3> QED
      BY <1>6, <2>1, <3>1
  <2>8. CASE k = t
    <3>1. m =< c
      BY <1>4, <2>3, <2>8
    <3> QED
      BY <1>6, <2>1, <2>2, <2>8, <3>1, PartsOrder
  <2> QED
    BY <2>3, <2>6, <2>7, <2>8
<1>10. NearestUp(Bits(f, n, B), i, r)
  BY <1>7, <1>8, <1>9 DEF NearestUp
<1> QED
  BY <1>3, <1>5, <1>10

\* There is none.
LEMMA UpNone ==
    ASSUME NEW B \in Nat \ {0}, NEW n \in Nat, NEW f \in [0 .. n - 1 -> SUBSET (0 .. B - 1)],
           NEW i \in Nat, i \div B < n => BitsFrom(f[i \div B], i % B) = {},
           \A l \in 0 .. n - 1 : i \div B < l => f[l] = {}
    PROVE  NoneUp(Bits(f, n, B), i)
<1> SUFFICES ASSUME NEW j \in Bits(f, n, B), ~(j < i) PROVE FALSE
  BY DEF NoneUp
<1>1. PICK s, b : s = i \div B /\ b = i % B
  OBVIOUS
<1>2. s \in Nat /\ b \in 0 .. B - 1
  BY <1>1, PartTypes
<1>3. j \in Nat /\ j \div B < n /\ j % B \in f[j \div B]
  BY DEF Bits
<1>4. PICK t, c : t = j \div B /\ c = j % B
  OBVIOUS
<1>5. t \in 0 .. n - 1 /\ c \in 0 .. B - 1 /\ c \in f[t]
  <2>1. t \in Nat /\ c \in 0 .. B - 1 /\ t < n /\ c \in f[t]
    BY <1>3, <1>4, PartTypes, Zenon
  <2> QED
    BY <2>1
<1>6. i =< j
  BY <1>3
<1>7. s < t \/ (s = t /\ b =< c)
  BY <1>1, <1>3, <1>4, <1>6, PartsOrder
<1>8. ~(s = t /\ b =< c)
  BY <1>1, <1>2, <1>5 DEF BitsFrom
<1> QED
  BY <1>1, <1>5, <1>7, <1>8
\* The same downward: the nearest bit is in the word of i.
LEMMA DownHere ==
    ASSUME NEW B \in Nat \ {0}, NEW n \in Nat, NEW f \in [0 .. n - 1 -> SUBSET (0 .. B - 1)],
           NEW i \in Nat, i \div B < n, BitsUpTo(f[i \div B], i % B) # {}
    PROVE  NearestDown(Bits(f, n, B), i, (i \div B) * B + Max(BitsUpTo(f[i \div B], i % B)))
<1>1. PICK h : h = BitsUpTo(f[i \div B], i % B)
  OBVIOUS
<1>2. PICK s, b : s = i \div B /\ b = i % B
  OBVIOUS
<1>3. s \in 0 .. n - 1 /\ b \in 0 .. B - 1
  <2>1. s \in Nat /\ b \in 0 .. B - 1 /\ s < n
    BY <1>2, PartTypes, Zenon
  <2> QED
    BY <2>1
<1>4. h = {x \in f[s] : x =< b} /\ f[s] \subseteq 0 .. B - 1
  BY <1>1, <1>2, <1>3 DEF BitsUpTo
<1>5. PICK m : m = Max(h)
  OBVIOUS
<1>6. m \in h /\ \A y \in h : m >= y
  <2>1. h \subseteq 0 .. B - 1 /\ h # {} /\ B - 1 \in Nat
    BY <1>1, <1>4
  <2> QED
    BY <1>5, <2>1, MaxOf
<1>7. m \in f[s] /\ m \in 0 .. B - 1 /\ m =< b
  BY <1>3, <1>4, <1>6
<1>8. PICK r : r = s * B + m
  OBVIOUS
<1>9. r \in Nat /\ r \div B = s /\ r % B = m
  <2>1. s \in Nat
    BY <1>3
  <2> QED
    BY <1>7, <1>8, <2>1, PartsAre, ZenonT(40)
<1>10. r \in Bits(f, n, B)
  BY <1>3, <1>7, <1>9 DEF Bits
<1>11. r =< i
  BY <1>2, <1>7, <1>9, PartsOrder
<1>12. ASSUME NEW j \in Bits(f, n, B), j =< i PROVE j =< r
  <2>1. j \in Nat /\ j % B \in f[j \div B]
    BY DEF Bits
  <2>2. j \div B < s \/ (s = j \div B /\ j % B =< b)
    BY <1>2, <1>12, <2>1, PartsOrder
  <2>3. CASE j \div B < s
    <3>1. j < r
      BY <1>9, <2>1, <2>3, PartsOrder
    <3> QED
      BY <1>9, <2>1, <3>1
  <2>4. CASE s = j \div B /\ j % B =< b
    <3>1. j % B \in 0 .. B - 1
      BY <2>1, PartTypes
    <3>2. j % B \in h
      BY <1>3, <1>4, <2>1, <2>4, <3>1
    <3>3. j % B =< m
      BY <1>6, <1>7, <3>1, <3>2
    <3> QED
      BY <1>9, <2>1, <2>4, <3>3, PartsOrder
  <2> QED
    BY <2>2, <2>3, <2>4
<1>13. NearestDown(Bits(f, n, B), i, r)
  BY <1>10, <1>11, <1>12 DEF NearestDown
<1> QED
  BY <1>1, <1>2, <1>5, <1>8, <1>13

\* The nearest bit is in an earlier word: the last before that has one.
LEMMA DownBefore ==
    ASSUME NEW B \in Nat \ {0}, NEW n \in Nat, NEW f \in [0 .. n - 1 -> SUBSET (0 .. B - 1)],
           NEW i \in Nat, i \div B < n, BitsUpTo(f[i \div B], i % B) = {},
           NEW k \in 0 .. n - 1, k < i \div B, f[k] # {},
           \A l \in 0 .. n - 1 : k < l /\ l < i \div B => f[l] = {}
    PROVE  NearestDown(Bits(f, n, B), i, k * B + Max(f[k]))
<1>1. PICK s, b : s = i \div B /\ b = i % B
  OBVIOUS
<1>2. s \in Nat /\ b \in 0 .. B - 1 /\ k < s
  BY <1>1, PartTypes
<1>3. PICK m : m = Max(f[k])
  OBVIOUS
<1>4. m \in f[k] /\ (\A y \in f[k] : m >= y) /\ m \in 0 .. B - 1
  <2>1. f[k] \subseteq 0 .. B - 1 /\ B - 1 \in Nat
    OBVIOUS
  <2> QED
    BY <1>3, <2>1, MaxOf
<1>5. PICK r : r = k * B + m
  OBVIOUS
<1>6. r \in Nat /\ r \div B = k /\ r % B = m
  <2>1. k \in Nat
    OBVIOUS
  <2> QED
    BY <1>4, <1>5, <2>1, PartsAre, ZenonT(40)
<1>7. r \in Bits(f, n, B)
  BY <1>4, <1>6 DEF Bits
<1>8. r =< i
  <2>1. r < i
    BY <1>1, <1>2, <1>6, PartsOrder
  <2> QED
    BY <1>6, <2>1
<1>9. ASSUME NEW j \in Bits(f, n, B), j =< i PROVE j =< r
  <2>1. j \in Nat /\ j \div B < n /\ j % B \in f[j \div B]
    BY DEF Bits
  <2>2. PICK t, c : t = j \div B /\ c = j % B
    OBVIOUS
  <2>3. t \in 0 .. n - 1 /\ c \in 0 .. B - 1 /\ c \in f[t]
    <3>1. t \in Nat /\ c \in 0 .. B - 1 /\ t < n /\ c \in f[t]
      BY <2>1, <2>2, PartTypes, Zenon
    <3> QED
      BY <3>1
  <2>4. t < s \/ (s = t /\ c =< b)
    BY <1>1, <1>9, <2>1, <2>2, PartsOrder
  <2>5. ~(s = t /\ c =< b)
    BY <1>1, <1>2, <2>3 DEF BitsUpTo
  <2>6. ~(k < t)
    BY <1>1, <2>3, <2>4, <2>5
  <2>7. CASE t < k
    <3>1. j < r
      BY <1>6, <2>1, <2>2, <2>7, PartsOrder
    <3> QED
      BY <1>6, <2>1, <3>1
  <2>8. CASE k = t
    <3>1. c =< m
      BY <1>4, <2>3, <2>8
    <3> QED
      BY <1>6, <2>1, <2>2, <2>8, <3>1, PartsOrder
  <2> QED
    BY <2>3, <2>6, <2>7, <2>8
<1>10. NearestDown(Bits(f, n, B), i, r)
  BY <1>7, <1>8, <1>9 DEF NearestDown
<1> QED
  BY <1>3, <1>5, <1>10

\* There is none.
LEMMA DownNone ==
    ASSUME NEW B \in Nat \ {0}, NEW n \in Nat, NEW f \in [0 .. n - 1 -> SUBSET (0 .. B - 1)],
           NEW i \in Nat, i \div B < n, BitsUpTo(f[i \div B], i % B) = {},
           \A l \in 0 .. n - 1 : l < i \div B => f[l] = {}
    PROVE  NoneDown(Bits(f, n, B), i)
<1> SUFFICES ASSUME NEW j \in Bits(f, n, B), ~(i < j) PROVE FALSE
  BY DEF NoneDown
<1>1. PICK s, b : s = i \div B /\ b = i % B
  OBVIOUS
<1>2. s \in Nat /\ b \in 0 .. B - 1
  BY <1>1, PartTypes
<1>3. j \in Nat /\ j \div B < n /\ j % B \in f[j \div B]
  BY DEF Bits
<1>4. PICK t, c : t = j \div B /\ c = j % B
  OBVIOUS
<1>5. t \in 0 .. n - 1 /\ c \in 0 .. B - 1 /\ c \in f[t]
  <2>1. t \in Nat /\ c \in 0 .. B - 1 /\ t < n /\ c \in f[t]
    BY <1>3, <1>4, PartTypes, Zenon
  <2> QED
    BY <2>1
<1>6. j =< i
  BY <1>3
<1>7. t < s \/ (s = t /\ c =< b)
  BY <1>1, <1>3, <1>4, <1>6, PartsOrder
<1>8. ~(s = t /\ c =< b)
  BY <1>1, <1>2, <1>5 DEF BitsUpTo
<1> QED
  BY <1>1, <1>5, <1>7, <1>8

-----------------------------------------------------------------------------

\* What word s says of the numbers from i on, and the words that say anything:
\* the scan of the summary in find_next.
SaidUp(f, B, i, s) == IF s = i \div B THEN BitsFrom(f[s], i % B) ELSE f[s]
SomeUp(f, n, B, i) == {s \in i \div B .. n - 1 : SaidUp(f, B, i, s) # {}}

\* The scan finds the nearest bit, or there is none.
LEMMA ScanUp ==
    ASSUME NEW B \in Nat \ {0}, NEW n \in Nat, NEW f \in [0 .. n - 1 -> SUBSET (0 .. B - 1)],
           NEW i \in Nat
    PROVE  /\ SomeUp(f, n, B, i) = {} => NoneUp(Bits(f, n, B), i)
           /\ SomeUp(f, n, B, i) # {} =>
                LET s == Min(SomeUp(f, n, B, i))
                IN  /\ s \in 0 .. n - 1 /\ SaidUp(f, B, i, s) # {} /\ SaidUp(f, B, i, s) \subseteq 0 .. B - 1
                    /\ NearestUp(Bits(f, n, B), i, s * B + Min(SaidUp(f, B, i, s)))
<1>1. PICK t : t = i \div B
  OBVIOUS
<1>2. t \in Nat
  BY <1>1, PartTypes
<1>3. ASSUME SomeUp(f, n, B, i) = {} PROVE NoneUp(Bits(f, n, B), i)
  <2>1. ASSUME t < n PROVE BitsFrom(f[t], i % B) = {}
    <3>1. t \in t .. n - 1
      BY <1>2, <2>1
    <3>2. SaidUp(f, B, i, t) = {}
      BY <1>1, <1>3, <3>1 DEF SomeUp
    <3> QED
      BY <1>1, <3>2 DEF SaidUp
  <2>2. \A l \in 0 .. n - 1 : t < l => f[l] = {}
    BY <1>1, <1>2, <1>3 DEF SomeUp, SaidUp
  <2> QED
    BY <1>1, <2>1, <2>2, UpNone
<1>4. ASSUME SomeUp(f, n, B, i) # {}, NEW s, s = Min(SomeUp(f, n, B, i))
      PROVE  /\ s \in 0 .. n - 1 /\ SaidUp(f, B, i, s) # {} /\ SaidUp(f, B, i, s) \subseteq 0 .. B - 1
             /\ NearestUp(Bits(f, n, B), i, s * B + Min(SaidUp(f, B, i, s)))
  <2>1. SomeUp(f, n, B, i) \subseteq Nat
    BY <1>1, <1>2 DEF SomeUp
  <2>2. s \in SomeUp(f, n, B, i) /\ \A l \in SomeUp(f, n, B, i) : s =< l
    BY <1>4, <2>1, MinOf
  <2>3. s \in t .. n - 1 /\ SaidUp(f, B, i, s) # {}
    BY <1>1, <2>2 DEF SomeUp
  <2>4. \A l \in t .. n - 1 : l < s => SaidUp(f, B, i, l) = {}
    BY <1>1, <1>2, <2>2, <2>3 DEF SomeUp
  <2>5. s \in 0 .. n - 1 /\ f[s] \subseteq 0 .. B - 1
    BY <1>2, <2>3
  <2>6. SaidUp(f, B, i, s) \subseteq 0 .. B - 1
    BY <2>5 DEF SaidUp, BitsFrom
  <2>7. CASE s = t
    <3>1. SaidUp(f, B, i, s) = BitsFrom(f[t], i % B)
      BY <1>1, <2>7 DEF SaidUp
    <3>2. t < n
      BY <1>2, <2>5, <2>7
    <3>3. NearestUp(Bits(f, n, B), i, t * B + Min(BitsFrom(f[t], i % B)))
      BY <1>1, <2>3, <3>1, <3>2, UpHere
    <3> QED
      BY <2>3, <2>5, <2>6, <2>7, <3>1, <3>3
  <2>8. CASE s # t
    <3>1. SaidUp(f, B, i, s) = f[s] /\ t < s
      BY <1>1, <1>2, <2>3, <2>8 DEF SaidUp
    <3>2. BitsFrom(f[t], i % B) = {}
      BY <1>1, <1>2, <2>3, <2>4, <3>1 DEF SaidUp
    <3>3. \A l \in 0 .. n - 1 : t < l /\ l < s => f[l] = {}
      BY <1>1, <1>2, <2>3, <2>4, <3>1 DEF SaidUp
    <3>4. NearestUp(Bits(f, n, B), i, s * B + Min(f[s]))
      BY <1>1, <2>3, <2>5, <3>1, <3>2, <3>3, UpAfter
    <3> QED
      BY <2>3, <2>5, <2>6, <3>1, <3>4
  <2> QED
    BY <2>7, <2>8
<1> QED
  BY <1>3, <1>4

\* The scan of find_prev.
SaidDown(f, B, i, s) == IF s = i \div B THEN BitsUpTo(f[s], i % B) ELSE f[s]
SomeDown(f, B, i) == {s \in 0 .. i \div B : SaidDown(f, B, i, s) # {}}

\* It finds the nearest bit, or there is none.
LEMMA ScanDown ==
    ASSUME NEW B \in Nat \ {0}, NEW n \in Nat, NEW f \in [0 .. n - 1 -> SUBSET (0 .. B - 1)],
           NEW i \in Nat, i \div B < n
    PROVE  /\ SomeDown(f, B, i) = {} => NoneDown(Bits(f, n, B), i)
           /\ SomeDown(f, B, i) # {} =>
                LET s == Max(SomeDown(f, B, i))
                IN  /\ s \in 0 .. n - 1 /\ SaidDown(f, B, i, s) # {} /\ SaidDown(f, B, i, s) \subseteq 0 .. B - 1
                    /\ NearestDown(Bits(f, n, B), i, s * B + Max(SaidDown(f, B, i, s)))
<1>1. PICK t : t = i \div B
  OBVIOUS
<1>2. t \in Nat /\ t < n
  BY <1>1, PartTypes
<1>3. ASSUME SomeDown(f, B, i) = {} PROVE NoneDown(Bits(f, n, B), i)
  <2>1. BitsUpTo(f[t], i % B) = {}
    BY <1>1, <1>2, <1>3 DEF SomeDown, SaidDown
  <2>2. \A l \in 0 .. n - 1 : l < t => f[l] = {}
    BY <1>1, <1>2, <1>3 DEF SomeDown, SaidDown
  <2> QED
    BY <1>1, <1>2, <2>1, <2>2, DownNone
<1>4. ASSUME SomeDown(f, B, i) # {}, NEW s, s = Max(SomeDown(f, B, i))
      PROVE  /\ s \in 0 .. n - 1 /\ SaidDown(f, B, i, s) # {} /\ SaidDown(f, B, i, s) \subseteq 0 .. B - 1
             /\ NearestDown(Bits(f, n, B), i, s * B + Max(SaidDown(f, B, i, s)))
  <2>1. SomeDown(f, B, i) \subseteq 0 .. t
    BY <1>1, <1>2 DEF SomeDown
  <2>2. s \in SomeDown(f, B, i) /\ \A l \in SomeDown(f, B, i) : s >= l
    BY <1>2, <1>4, <2>1, MaxOf
  <2>3. s \in 0 .. t /\ SaidDown(f, B, i, s) # {}
    BY <1>1, <2>2 DEF SomeDown
  <2>4. \A l \in 0 .. t : s < l => SaidDown(f, B, i, l) = {}
    BY <1>1, <1>2, <2>2, <2>3 DEF SomeDown
  <2>5. s \in 0 .. n - 1 /\ f[s] \subseteq 0 .. B - 1
    BY <1>2, <2>3
  <2>6. SaidDown(f, B, i, s) \subseteq 0 .. B - 1
    BY <2>5 DEF SaidDown, BitsUpTo
  <2>7. CASE s = t
    <3>1. SaidDown(f, B, i, s) = BitsUpTo(f[t], i % B)
      BY <1>1, <2>7 DEF SaidDown
    <3>2. NearestDown(Bits(f, n, B), i, t * B + Max(BitsUpTo(f[t], i % B)))
      BY <1>1, <1>2, <2>3, <3>1, DownHere
    <3> QED
      BY <2>3, <2>5, <2>6, <2>7, <3>1, <3>2
  <2>8. CASE s # t
    <3>1. SaidDown(f, B, i, s) = f[s] /\ s < t
      BY <1>1, <1>2, <2>3, <2>8 DEF SaidDown
    <3>2. BitsUpTo(f[t], i % B) = {}
      BY <1>1, <1>2, <2>3, <2>4, <3>1 DEF SaidDown
    <3>3. \A l \in 0 .. n - 1 : s < l /\ l < t => f[l] = {}
      BY <1>1, <1>2, <2>3, <2>4, <3>1 DEF SaidDown
    <3>4. NearestDown(Bits(f, n, B), i, s * B + Max(f[s]))
      BY <1>1, <1>2, <2>3, <2>5, <3>1, <3>2, <3>3, DownBefore
    <3> QED
      BY <2>3, <2>5, <2>6, <3>1, <3>4
  <2> QED
    BY <2>7, <2>8
<1> QED
  BY <1>3, <1>4
-----------------------------------------------------------------------------

\* Two numbers with the same parts are one.
LEMMA SameParts ==
    ASSUME NEW B \in Nat \ {0}, NEW i \in Nat, NEW j \in Nat, i \div B = j \div B, i % B = j % B
    PROVE  i = j
<1>1. i \div B \in Nat /\ i % B \in 0 .. B - 1
  BY PartTypes
<1>2. i =< j
  <2>1. i % B =< j % B
    BY <1>1
  <2> QED
    BY <2>1, PartsOrder
<1>3. j =< i
  <2>1. j % B =< i % B
    BY <1>1
  <2> QED
    BY <2>1, PartsOrder
<1> QED
  BY <1>2, <1>3

\* A word with a bit more, and with a bit less.
WithBit(f, B, j) == [f EXCEPT ![j \div B] = f[j \div B] \cup {j % B}]
WithoutBit(f, B, j) == [f EXCEPT ![j \div B] = f[j \div B] \ {j % B}]

\* Setting the bit of j adds j.
LEMMA BitsAdd ==
    ASSUME NEW B \in Nat \ {0}, NEW n \in Nat, NEW f \in [0 .. n - 1 -> SUBSET (0 .. B - 1)],
           NEW j \in Nat, j \div B < n, NEW g, g = WithBit(f, B, j)
    PROVE  /\ g \in [0 .. n - 1 -> SUBSET (0 .. B - 1)]
           /\ \A k : k \in Bits(g, n, B) <=> k \in Bits(f, n, B) \/ k = j
<1>1. PICK s, b : s = j \div B /\ b = j % B
  OBVIOUS
<1>2. s \in Nat /\ b \in 0 .. B - 1 /\ s < n
  BY <1>1, PartTypes, Zenon
<1>3. s \in 0 .. n - 1
  BY <1>2
<1>4. g = [f EXCEPT ![s] = f[s] \cup {b}]
  BY <1>1 DEF WithBit
<1>5. g \in [0 .. n - 1 -> SUBSET (0 .. B - 1)]
  BY <1>2, <1>3, <1>4
<1>6. \A k \in Nat : k \div B < n => (k % B \in g[k \div B] <=> k % B \in f[k \div B] \/ k = j)
  <2> SUFFICES ASSUME NEW k \in Nat, NEW t, NEW c, t = k \div B, c = k % B, t < n
               PROVE  c \in g[t] <=> c \in f[t] \/ k = j
    BY Zenon
  <2>1. t \in Nat
    BY PartTypes, Zenon
  <2>2. t \in 0 .. n - 1
    BY <2>1
  <2>3. k = j => t = s /\ c = b
    BY <1>1
  <2>4. t = s /\ c = b => k = j
    BY <1>1, SameParts
  <2> QED
    BY <1>3, <1>4, <2>2, <2>3, <2>4
<1>7. \A k : k \in Bits(g, n, B) <=> k \in Bits(f, n, B) \/ k = j
  BY <1>6 DEF Bits
<1> QED
  BY <1>5, <1>7

\* Clearing it takes j away.
LEMMA BitsRemove ==
    ASSUME NEW B \in Nat \ {0}, NEW n \in Nat, NEW f \in [0 .. n - 1 -> SUBSET (0 .. B - 1)],
           NEW j \in Nat, j \div B < n, NEW g, g = WithoutBit(f, B, j)
    PROVE  /\ g \in [0 .. n - 1 -> SUBSET (0 .. B - 1)]
           /\ \A k : k \in Bits(g, n, B) <=> k \in Bits(f, n, B) /\ k # j
<1>1. PICK s, b : s = j \div B /\ b = j % B
  OBVIOUS
<1>2. s \in Nat /\ b \in 0 .. B - 1 /\ s < n
  BY <1>1, PartTypes, Zenon
<1>3. s \in 0 .. n - 1
  BY <1>2
<1>4. g = [f EXCEPT ![s] = f[s] \ {b}]
  BY <1>1 DEF WithoutBit
<1>5. g \in [0 .. n - 1 -> SUBSET (0 .. B - 1)]
  BY <1>2, <1>3, <1>4
<1>6. \A k \in Nat : k \div B < n => (k % B \in g[k \div B] <=> k % B \in f[k \div B] /\ k # j)
  <2> SUFFICES ASSUME NEW k \in Nat, NEW t, NEW c, t = k \div B, c = k % B, t < n
               PROVE  c \in g[t] <=> c \in f[t] /\ k # j
    BY Zenon
  <2>1. t \in Nat
    BY PartTypes, Zenon
  <2>2. t \in 0 .. n - 1
    BY <2>1
  <2>3. k = j => t = s /\ c = b
    BY <1>1
  <2>4. t = s /\ c = b => k = j
    BY <1>1, SameParts
  <2> QED
    BY <1>3, <1>4, <2>2, <2>3, <2>4
<1>7. \A k : k \in Bits(g, n, B) <=> k \in Bits(f, n, B) /\ k # j
  BY <1>6 DEF Bits
<1> QED
  BY <1>5, <1>7

-----------------------------------------------------------------------------

\* The words that are not zero.
Live(f) == {w \in 0 .. Words - 1 : f[w] # {}}

\* The summary's bits are those of the words that are not zero.
BitmapInv ==
    /\ words \in [0 .. Words - 1 -> SUBSET (0 .. WordBits - 1)]
    /\ summary \in [0 .. SummaryWords - 1 -> SUBSET (0 .. WordBits - 1)]
    /\ Bits(summary, SummaryWords, WordBits) = Live(words)

\* The sizes: the levels fill the words, and every word has a summary bit.
LEMMA Sizes ==
    /\ WordBits \in Nat \ {0} /\ Words \in Nat /\ SummaryWords \in Nat /\ Levels \in Nat
    /\ \A i \in Nat : i < Levels <=> i \div WordBits < Words
    /\ \A w \in Nat : w < Words => w \div WordBits < SummaryWords
<1>1. WordBits \in Nat \ {0} /\ Levels \in Nat \ {0}
  BY BitmapAssumption
<1>2. PICK n, z : n = Words /\ z = SummaryWords
  OBVIOUS
<1>3. n \in Nat /\ Levels \div WordBits = n /\ Levels % WordBits = 0
  BY <1>1, <1>2, PartTypes, BitmapAssumption DEF Words
<1>4. PICK p : p = n + WordBits - 1
  OBVIOUS
<1>5. p \in Nat /\ p \div WordBits = z
  BY <1>1, <1>2, <1>3, <1>4 DEF SummaryWords
<1>6. z \in Nat
  BY <1>1, <1>5, PartTypes
<1>7. ASSUME NEW i \in Nat PROVE i < Levels <=> i \div WordBits < n
  <2>1. PICK s, b : s = i \div WordBits /\ b = i % WordBits
    OBVIOUS
  <2>2. s \in Nat /\ b \in 0 .. WordBits - 1
    BY <1>1, <2>1, PartTypes, Zenon
  <2>3. s < n => i < Levels
    BY <1>1, <1>3, <2>1, PartsOrder
  <2>4. n < s => Levels < i
    BY <1>1, <1>3, <2>1, PartsOrder
  <2>5. n = s /\ 0 =< b => Levels =< i
    BY <1>1, <1>3, <2>1, PartsOrder
  <2> QED
    BY <1>1, <1>3, <2>1, <2>2, <2>3, <2>4, <2>5
<1>8. ASSUME NEW w \in Nat, w < n PROVE w \div WordBits < z
  <2>1. PICK s, b : s = w \div WordBits /\ b = w % WordBits
    OBVIOUS
  <2>2. s \in Nat /\ b \in 0 .. WordBits - 1 /\ w = s * WordBits + b
    BY <1>1, <2>1, Parts, Zenon
  <2>3. PICK v : v = (s + 1) * WordBits + b
    OBVIOUS
  <2>4. v = w + WordBits
    <3>1. (s + 1) * WordBits = s * WordBits + WordBits
      BY <1>1, <2>2
    <3>2. PICK x : x = s * WordBits
      OBVIOUS
    <3>3. x \in Int
      BY <1>1, <2>2, <3>2
    <3>4. v = (x + WordBits) + b /\ w = x + b
      BY <2>2, <2>3, <3>1, <3>2, Zenon
    <3> QED
      BY <1>1, <2>2, <3>3, <3>4
  <2>5. v \in Nat /\ v \div WordBits = s + 1
    <3>1. s + 1 \in Nat
      BY <2>2
    <3> QED
      BY <1>1, <2>2, <2>3, <3>1, PartsAre, ZenonT(40)
  <2>6. v =< p
    BY <1>1, <1>3, <1>4, <1>8, <2>4
  <2>7. s + 1 < z \/ s + 1 = z
    <3>1. v \div WordBits < p \div WordBits \/ v \div WordBits = p \div WordBits
      BY <1>1, <1>5, <2>5, <2>6, PartsOrder
    <3> QED
      BY <1>5, <2>5, <3>1, Zenon
  <2> QED
    BY <1>6, <2>1, <2>2, <2>7
<1> QED
  BY <1>1, <1>2, <1>3, <1>6, <1>7, <1>8
\* countr_zero and countl_zero of a word that is not zero.
LEMMA LowestIs ==
    ASSUME NEW h, h \subseteq 0 .. WordBits - 1, h # {}
    PROVE  Lowest(h) = Min(h) /\ Highest(h) = Max(h)
<1>1. WordBits \in Nat \ {0}
  BY Sizes
<1>2. Min(h) \in h /\ \A y \in h : Min(h) =< y
  <2>1. h \subseteq Nat
    BY <1>1
  <2> QED
    BY <2>1, MinOf
<1>3. Max(h) \in h /\ \A y \in h : Max(h) >= y
  <2>1. WordBits - 1 \in Nat
    BY <1>1
  <2> QED
    BY <2>1, MaxOf
<1>4. PICK a, b : a = Min(h) /\ b = Max(h)
  OBVIOUS
<1>5. a \in h /\ b \in h /\ a \in 0 .. WordBits - 1 /\ b \in 0 .. WordBits - 1
  BY <1>2, <1>3, <1>4
<1>6. Min(h \cup {WordBits}) = a
  <2>1. h \cup {WordBits} \subseteq Int /\ a \in h \cup {WordBits}
    BY <1>1, <1>5
  <2>2. \A y \in h \cup {WordBits} : a =< y
    BY <1>1, <1>2, <1>4, <1>5
  <2> QED
    BY <2>1, <2>2, MinIs
<1>7. Max(h \cup {-1}) = b
  <2>1. h \cup {-1} \subseteq Int /\ b \in h \cup {-1}
    BY <1>1, <1>5
  <2>2. \A y \in h \cup {-1} : b >= y
    BY <1>1, <1>3, <1>4, <1>5
  <2> QED
    BY <2>1, <2>2, MaxIs
<1> QED
  BY <1>4, <1>6, <1>7 DEF Lowest, Highest

\* The set levels are the bits of the words.
SetLevels == {i \in 0 .. Levels - 1 : Test(i)}

\* The two ways to say it.
LEMMA SetLevelsAre == SetLevels = Bits(words, Words, WordBits) /\ SetLevels \subseteq 0 .. Levels - 1
<1>1. Levels \in Nat /\ \A i \in Nat : i < Levels <=> i \div WordBits < Words
  BY Sizes
<1>2. \A i \in Nat : i \in 0 .. Levels - 1 <=> i < Levels
  BY <1>1
<1>3. 0 .. Levels - 1 \subseteq Nat
  OBVIOUS
<1>4. \A i : i \in SetLevels <=> i \in Bits(words, Words, WordBits)
  BY <1>1, <1>2, <1>3, Zenon DEF SetLevels, Bits, Test
<1>5. SetLevels \subseteq 0 .. Levels - 1
  BY DEF SetLevels
<1> QED
  BY <1>4, <1>5

\* What find_next looks at: the rest of the word of i and the words after it.
HereUp(i) == BitsFrom(words[i \div WordBits], i % WordBits)
FoundUp(w1) == LET s == Min(SomeUp(summary, SummaryWords, WordBits, w1))
               IN  s * WordBits + Lowest(SaidUp(summary, WordBits, w1, s))

\* find_next from a level of the book.
LEMMA FindsUp ==
    ASSUME BitmapInv, NEW i \in 0 .. Levels - 1
    PROVE  LET w == i \div WordBits
               some == SomeUp(summary, SummaryWords, WordBits, w + 1)
           IN  /\ HereUp(i) # {} => NearestUp(SetLevels, i, w * WordBits + Lowest(HereUp(i)))
               /\ HereUp(i) = {} /\ (w + 1 >= Words \/ some = {}) => NoneUp(SetLevels, i)
               /\ HereUp(i) = {} /\ ~(w + 1 >= Words \/ some = {}) =>
                    NearestUp(SetLevels, i, FoundUp(w + 1) * WordBits + Lowest(words[FoundUp(w + 1)]))
<1>1. /\ WordBits \in Nat \ {0} /\ Words \in Nat /\ SummaryWords \in Nat /\ Levels \in Nat
      /\ i \in Nat /\ i < Levels
  BY Sizes
<1>2. PICK B, n, z : B = WordBits /\ n = Words /\ z = SummaryWords
  OBVIOUS
<1>3. PICK f, g : f = words /\ g = summary
  OBVIOUS
<1>4. /\ B \in Nat \ {0} /\ n \in Nat /\ z \in Nat
      /\ f \in [0 .. n - 1 -> SUBSET (0 .. B - 1)]
      /\ g \in [0 .. z - 1 -> SUBSET (0 .. B - 1)]
      /\ Bits(g, z, B) = {l \in 0 .. n - 1 : f[l] # {}}
  BY <1>1, <1>2, <1>3 DEF BitmapInv, Live
<1>5. PICK w, b : w = i \div B /\ b = i % B
  OBVIOUS
<1>6. w \in 0 .. n - 1 /\ b \in 0 .. B - 1 /\ w < n /\ w + 1 \in Nat
  <2>1. w \in Nat /\ b \in 0 .. B - 1
    BY <1>1, <1>2, <1>5, PartTypes
  <2>2. w < n
    BY <1>1, <1>2, <1>5, Sizes
  <2> QED
    BY <1>4, <2>1, <2>2
<1>7. PICK h : h = BitsFrom(f[w], b)
  OBVIOUS
<1>8. h = HereUp(i)
  BY <1>2, <1>3, <1>5, <1>7 DEF HereUp
<1>9. SetLevels = Bits(f, n, B)
  BY <1>2, <1>3, SetLevelsAre
<1>10. ASSUME h # {} PROVE NearestUp(SetLevels, i, w * B + Lowest(h))
  <2>1. h \subseteq 0 .. B - 1
    BY <1>4, <1>6, <1>7 DEF BitsFrom
  <2>2. Lowest(h) = Min(h)
    BY <1>2, <1>10, <2>1, LowestIs
  <2>3. NearestUp(Bits(f, n, B), i, w * B + Min(h))
    BY <1>1, <1>4, <1>5, <1>6, <1>7, <1>10, UpHere
  <2> QED
    BY <1>9, <2>2, <2>3
<1>11. PICK v, some : v = w + 1 /\ some = SomeUp(g, z, B, v)
  OBVIOUS
<1>12. ASSUME h = {}, v >= n \/ some = {} PROVE NoneUp(SetLevels, i)
  <2>1. ASSUME NEW l \in 0 .. n - 1, w < l PROVE f[l] = {}
    <3>1. v =< l /\ l \in Nat
      BY <1>6, <1>11, <2>1
    <3>2. some = {}
      BY <1>4, <1>6, <1>11, <1>12, <3>1
    <3>3. NoneUp(Bits(g, z, B), v)
      BY <1>4, <1>6, <1>11, <3>2, ScanUp
    <3>4. l \notin Bits(g, z, B)
      BY <1>6, <1>11, <3>1, <3>3 DEF NoneUp
    <3> QED
      BY <1>4, <3>4
  <2> QED
    BY <1>1, <1>4, <1>5, <1>7, <1>9, <1>12, <2>1, UpNone
<1>13. ASSUME h = {}, ~(v >= n \/ some = {}), NEW k, k = FoundUp(v)
       PROVE  NearestUp(SetLevels, i, k * B + Lowest(f[k]))
  <2>1. PICK s : s = Min(some)
    OBVIOUS
  <2>2. PICK d : d = SaidUp(g, B, v, s)
    OBVIOUS
  <2>3. d # {} /\ d \subseteq 0 .. B - 1 /\ NearestUp(Bits(g, z, B), v, s * B + Min(d))
    BY <1>4, <1>6, <1>11, <1>13, <2>1, <2>2, ScanUp
  <2>4. k = s * B + Min(d)
    <3>1. Lowest(d) = Min(d)
      BY <1>2, <2>3, LowestIs
    <3>2. k = s * B + Lowest(d)
      BY <1>2, <1>3, <1>11, <1>13, <2>1, <2>2 DEF FoundUp
    <3> QED
      BY <3>1, <3>2, Zenon
  <2>5. NearestUp(Bits(g, z, B), v, k)
    BY <2>3, <2>4, Zenon
  <2>6. k \in 0 .. n - 1 /\ f[k] # {} /\ v =< k
    BY <1>4, <2>5 DEF NearestUp
  <2>7. w < k
    BY <1>6, <1>11, <2>6
  <2>8. ASSUME NEW l \in 0 .. n - 1, w < l, l < k PROVE f[l] = {}
    <3>1. v =< l /\ ~(k =< l)
      BY <1>6, <1>11, <2>6, <2>8
    <3>2. l \notin Bits(g, z, B)
      BY <2>5, <3>1 DEF NearestUp
    <3> QED
      BY <1>4, <3>2
  <2>9. NearestUp(Bits(f, n, B), i, k * B + Min(f[k]))
    BY <1>1, <1>4, <1>5, <1>7, <1>13, <2>6, <2>7, <2>8, UpAfter
  <2>10. Lowest(f[k]) = Min(f[k])
    <3>1. f[k] \subseteq 0 .. WordBits - 1
      BY <1>2, <1>4, <2>6
    <3> QED
      BY <2>6, <3>1, LowestIs
  <2> QED
    BY <1>9, <2>9, <2>10, Zenon
<1> QED
  BY <1>2, <1>3, <1>5, <1>8, <1>10, <1>11, <1>12, <1>13, Zenon
\* What find_prev looks at: the bits of the word of i up to it and the words before.
HereDown(i) == BitsUpTo(words[i \div WordBits], i % WordBits)
FoundDown(w1) == LET s == Max(SomeDown(summary, WordBits, w1))
                 IN  s * WordBits + Highest(SaidDown(summary, WordBits, w1, s))

\* find_prev from a level of the book.
LEMMA FindsDown ==
    ASSUME BitmapInv, NEW i \in 0 .. Levels - 1
    PROVE  LET w == i \div WordBits
               some == SomeDown(summary, WordBits, w - 1)
           IN  /\ HereDown(i) # {} => NearestDown(SetLevels, i, w * WordBits + Highest(HereDown(i)))
               /\ HereDown(i) = {} /\ (w = 0 \/ some = {}) => NoneDown(SetLevels, i)
               /\ HereDown(i) = {} /\ ~(w = 0 \/ some = {}) =>
                    NearestDown(SetLevels, i, FoundDown(w - 1) * WordBits + Highest(words[FoundDown(w - 1)]))
<1>1. /\ WordBits \in Nat \ {0} /\ Words \in Nat /\ SummaryWords \in Nat /\ Levels \in Nat
      /\ i \in Nat /\ i < Levels
  BY Sizes
<1>2. PICK B, n, z : B = WordBits /\ n = Words /\ z = SummaryWords
  OBVIOUS
<1>3. PICK f, g : f = words /\ g = summary
  OBVIOUS
<1>4. /\ B \in Nat \ {0} /\ n \in Nat /\ z \in Nat
      /\ f \in [0 .. n - 1 -> SUBSET (0 .. B - 1)]
      /\ g \in [0 .. z - 1 -> SUBSET (0 .. B - 1)]
      /\ Bits(g, z, B) = {l \in 0 .. n - 1 : f[l] # {}}
  BY <1>1, <1>2, <1>3 DEF BitmapInv, Live
<1>5. PICK w, b : w = i \div B /\ b = i % B
  OBVIOUS
<1>6. w \in 0 .. n - 1 /\ b \in 0 .. B - 1 /\ w < n /\ w \in Nat
  <2>1. w \in Nat /\ b \in 0 .. B - 1
    BY <1>1, <1>2, <1>5, PartTypes
  <2>2. w < n
    BY <1>1, <1>2, <1>5, Sizes
  <2> QED
    BY <1>4, <2>1, <2>2
<1>7. PICK h : h = BitsUpTo(f[w], b)
  OBVIOUS
<1>8. h = HereDown(i)
  BY <1>2, <1>3, <1>5, <1>7 DEF HereDown
<1>9. SetLevels = Bits(f, n, B)
  BY <1>2, <1>3, SetLevelsAre
<1>10. ASSUME h # {} PROVE NearestDown(SetLevels, i, w * B + Highest(h))
  <2>1. h \subseteq 0 .. B - 1
    BY <1>4, <1>6, <1>7 DEF BitsUpTo
  <2>2. Highest(h) = Max(h)
    BY <1>2, <1>10, <2>1, LowestIs
  <2>3. NearestDown(Bits(f, n, B), i, w * B + Max(h))
    BY <1>1, <1>4, <1>5, <1>6, <1>7, <1>10, DownHere
  <2> QED
    BY <1>9, <2>2, <2>3
<1>11. PICK v, some : v = w - 1 /\ some = SomeDown(g, B, v)
  OBVIOUS
<1>12. ASSUME w # 0 PROVE v \in Nat /\ v \div B < z
  <2>1. v \in Nat /\ v < n
    BY <1>4, <1>6, <1>11, <1>12
  <2> QED
    BY <1>2, <2>1, Sizes
<1>13. ASSUME h = {}, w = 0 \/ some = {} PROVE NoneDown(SetLevels, i)
  <2>1. ASSUME NEW l \in 0 .. n - 1, l < w PROVE f[l] = {}
    <3>1. l =< v /\ l \in Nat /\ w # 0
      BY <1>6, <1>11, <2>1
    <3>2. some = {}
      BY <1>13, <3>1
    <3>3. NoneDown(Bits(g, z, B), v)
      BY <1>4, <1>11, <1>12, <3>1, <3>2, ScanDown
    <3>4. l \notin Bits(g, z, B)
      BY <1>6, <1>11, <3>1, <3>3 DEF NoneDown
    <3> QED
      BY <1>4, <3>4
  <2> QED
    BY <1>1, <1>4, <1>5, <1>6, <1>7, <1>9, <1>13, <2>1, DownNone
<1>14. ASSUME h = {}, ~(w = 0 \/ some = {}), NEW k, k = FoundDown(v)
       PROVE  NearestDown(SetLevels, i, k * B + Highest(f[k]))
  <2>1. PICK s : s = Max(some)
    OBVIOUS
  <2>2. PICK d : d = SaidDown(g, B, v, s)
    OBVIOUS
  <2>3. d # {} /\ d \subseteq 0 .. B - 1 /\ NearestDown(Bits(g, z, B), v, s * B + Max(d))
    BY <1>4, <1>11, <1>12, <1>14, <2>1, <2>2, ScanDown
  <2>4. k = s * B + Max(d)
    <3>1. Highest(d) = Max(d)
      BY <1>2, <2>3, LowestIs
    <3>2. k = s * B + Highest(d)
      BY <1>2, <1>3, <1>11, <1>14, <2>1, <2>2 DEF FoundDown
    <3> QED
      BY <3>1, <3>2, Zenon
  <2>5. NearestDown(Bits(g, z, B), v, k)
    BY <2>3, <2>4, Zenon
  <2>6. k \in 0 .. n - 1 /\ f[k] # {} /\ k =< v
    BY <1>4, <2>5 DEF NearestDown
  <2>7. k < w
    BY <1>6, <1>11, <2>6
  <2>8. ASSUME NEW l \in 0 .. n - 1, k < l, l < w PROVE f[l] = {}
    <3>1. l =< v /\ ~(l =< k)
      BY <1>6, <1>11, <2>6, <2>8
    <3>2. l \notin Bits(g, z, B)
      BY <2>5, <3>1 DEF NearestDown
    <3> QED
      BY <1>4, <3>2
  <2>9. NearestDown(Bits(f, n, B), i, k * B + Max(f[k]))
    BY <1>1, <1>4, <1>5, <1>6, <1>7, <1>14, <2>6, <2>7, <2>8, DownBefore
  <2>10. Highest(f[k]) = Max(f[k])
    <3>1. f[k] \subseteq 0 .. WordBits - 1
      BY <1>2, <1>4, <2>6
    <3> QED
      BY <2>6, <3>1, LowestIs
  <2> QED
    BY <1>9, <2>9, <2>10, Zenon
<1> QED
  BY <1>2, <1>3, <1>5, <1>8, <1>10, <1>11, <1>13, <1>14, Zenon

-----------------------------------------------------------------------------

\* The nearest is the least of what lies above, and the greatest of what lies below.
LEMMA NearestIs ==
    ASSUME NEW S, S \subseteq 0 .. Levels - 1, NEW i \in -1 .. Levels + 1
    PROVE  /\ \A r : NearestUp(S, i, r) => Min({j \in S : j >= i} \cup {Levels}) = r
           /\ NoneUp(S, i) => Min({j \in S : j >= i} \cup {Levels}) = Levels
           /\ \A r : NearestDown(S, i, r) => Max({j \in S : j =< i} \cup {-1}) = r
           /\ NoneDown(S, i) => Max({j \in S : j =< i} \cup {-1}) = -1
<1>1. Levels \in Nat
  BY Sizes
<1>2. PICK U, D : U = {j \in S : j >= i} \cup {Levels} /\ D = {j \in S : j =< i} \cup {-1}
  OBVIOUS
<1>3. U \subseteq Int /\ D \subseteq Int
  <2>1. S \subseteq Int /\ Levels \in Int /\ -1 \in Int
    BY <1>1
  <2>2. U \subseteq Int
    BY <1>2, <2>1, Zenon
  <2>3. D \subseteq Int
    BY <1>2, <2>1, Zenon
  <2> QED
    BY <2>2, <2>3
<1>4. ASSUME NEW r, NearestUp(S, i, r) PROVE Min(U) = r
  <2>1. r \in U /\ \A y \in U : r =< y
    BY <1>1, <1>2, <1>4 DEF NearestUp
  <2> QED
    BY <1>3, <2>1, MinIs
<1>5. ASSUME NoneUp(S, i) PROVE Min(U) = Levels
  <2>1. Levels \in U /\ \A y \in U : Levels =< y
    BY <1>1, <1>2, <1>5 DEF NoneUp
  <2> QED
    BY <1>3, <2>1, MinIs
<1>6. ASSUME NEW r, NearestDown(S, i, r) PROVE Max(D) = r
  <2>1. r \in D /\ \A y \in D : r >= y
    BY <1>1, <1>2, <1>6 DEF NearestDown
  <2> QED
    BY <1>3, <2>1, MaxIs
<1>7. ASSUME NoneDown(S, i) PROVE Max(D) = -1
  <2>1. -1 \in D /\ \A y \in D : -1 >= y
    BY <1>1, <1>2, <1>7 DEF NoneDown
  <2> QED
    BY <1>3, <2>1, MaxIs
<1> QED
  BY <1>2, <1>4, <1>5, <1>6, <1>7

\* find_next in terms of what it looks at.
LEMMA FindNextIs ==
    ASSUME NEW i0
    PROVE  LET i == Max({i0, 0})
               w == i \div WordBits
               some == SomeUp(summary, SummaryWords, WordBits, w + 1)
           IN  FindNext(i0) =
                 CASE i0 >= Levels -> Levels
                   [] i0 < Levels /\ HereUp(i) # {} -> w * WordBits + Lowest(HereUp(i))
                   [] i0 < Levels /\ HereUp(i) = {} /\ (w + 1 >= Words \/ some = {}) -> Levels
                   [] OTHER -> FoundUp(w + 1) * WordBits + Lowest(words[FoundUp(w + 1)])
BY Zenon DEF FindNext, HereUp, FoundUp, SomeUp, SaidUp

\* find_prev likewise.
LEMMA FindPrevIs ==
    ASSUME NEW i0
    PROVE  LET i == Min({i0, Levels - 1})
               w == i \div WordBits
               some == SomeDown(summary, WordBits, w - 1)
           IN  FindPrev(i0) =
                 CASE i0 < 0 -> -1
                   [] i0 >= 0 /\ HereDown(i) # {} -> w * WordBits + Highest(HereDown(i))
                   [] i0 >= 0 /\ HereDown(i) = {} /\ (w = 0 \/ some = {}) -> -1
                   [] OTHER -> FoundDown(w - 1) * WordBits + Highest(words[FoundDown(w - 1)])
BY Zenon DEF FindPrev, HereDown, FoundDown, SomeDown, SaidDown

\* find_next, its early returns and its clamp included.
LEMMA NextIsNearest ==
    ASSUME BitmapInv, NEW i0 \in -1 .. Levels + 1
    PROVE  FindNext(i0) = Min({j \in SetLevels : j >= i0} \cup {Levels})
<1>1. Levels \in Nat \ {0} /\ SetLevels \subseteq 0 .. Levels - 1
  BY SetLevelsAre, BitmapAssumption
<1>2. PICK S : S = SetLevels
  OBVIOUS
<1>3. CASE i0 >= Levels
  <2>1. FindNext(i0) = Levels
    BY <1>1, <1>3 DEF FindNext
  <2>2. NoneUp(S, i0)
    BY <1>1, <1>2, <1>3 DEF NoneUp
  <2> QED
    BY <1>1, <1>2, <2>1, <2>2, NearestIs
<1>4. CASE i0 < Levels
  <2>1. PICK i : i = Max({i0, 0})
    OBVIOUS
  <2>2. i \in 0 .. Levels - 1 /\ (i = i0 \/ (i = 0 /\ i0 = -1))
    <3>1. CASE i0 >= 0
      <4>1. {i0, 0} \subseteq Int /\ \A y \in {i0, 0} : i0 >= y
        BY <3>1
      <4>2. i = i0
        BY <2>1, <4>1, MaxIs
      <4> QED
        BY <1>1, <1>4, <3>1, <4>2
    <3>2. CASE ~(i0 >= 0)
      <4>1. i0 = -1
        BY <1>1, <3>2
      <4>2. {i0, 0} \subseteq Int /\ \A y \in {i0, 0} : 0 >= y
        BY <4>1
      <4>3. i = 0
        BY <2>1, <4>2, MaxIs
      <4> QED
        BY <1>1, <4>1, <4>3
    <3> QED
      BY <3>1, <3>2
  <2>3. /\ \A r : NearestUp(S, i, r) => NearestUp(S, i0, r)
        /\ NoneUp(S, i) => NoneUp(S, i0)
    <3>1. CASE i = i0
      BY <3>1
    <3>2. CASE i = 0 /\ i0 = -1
      <4>1. S = {} \/ ~NoneUp(S, i)
        BY <1>1, <1>2, <3>2 DEF NoneUp
      <4>2. S = {} => NoneUp(S, i0)
        BY DEF NoneUp
      <4>3. ASSUME NEW r, NearestUp(S, i, r) PROVE NearestUp(S, i0, r)
        BY <1>1, <1>2, <3>2, <4>3 DEF NearestUp
      <4> QED
        BY <4>1, <4>2, <4>3
    <3> QED
      BY <2>2, <3>1, <3>2
  <2>4. PICK w, h : w = i \div WordBits /\ h = HereUp(i)
    OBVIOUS
  <2>5. PICK v, some : v = w + 1 /\ some = SomeUp(summary, SummaryWords, WordBits, v)
    OBVIOUS
  <2>6. PICK k, here, next : k = FoundUp(v) /\ here = w * WordBits + Lowest(h) /\ next = k * WordBits + Lowest(words[k])
    OBVIOUS
  <2>7. FindNext(i0) = CASE i0 >= Levels -> Levels
                          [] i0 < Levels /\ h # {} -> here
                          [] i0 < Levels /\ h = {} /\ (v >= Words \/ some = {}) -> Levels
                          [] OTHER -> next
    BY <2>1, <2>4, <2>5, <2>6, FindNextIs
  <2>8. /\ h # {} => FindNext(i0) = here
        /\ h = {} /\ (v >= Words \/ some = {}) => FindNext(i0) = Levels
        /\ h = {} /\ ~(v >= Words \/ some = {}) => FindNext(i0) = next
    BY <1>1, <1>4, <2>7
  <2>9. CASE h # {}
    <3>1. FindNext(i0) = w * WordBits + Lowest(h)
      BY <2>6, <2>8, <2>9, Zenon
    <3>2. NearestUp(S, i, w * WordBits + Lowest(h))
      BY <1>2, <2>2, <2>4, <2>9, FindsUp
    <3>3. NearestUp(S, i0, FindNext(i0))
      BY <2>3, <3>1, <3>2, Zenon
    <3> QED
      BY <1>1, <1>2, <3>3, NearestIs
  <2>10. CASE h = {} /\ (v >= Words \/ some = {})
    <3>1. FindNext(i0) = Levels
      BY <2>8, <2>10, Zenon
    <3>2. NoneUp(S, i)
      BY <1>2, <2>2, <2>4, <2>5, <2>10, FindsUp
    <3> QED
      BY <1>1, <1>2, <2>3, <3>1, <3>2, NearestIs
  <2>11. CASE h = {} /\ ~(v >= Words \/ some = {})
    <3>1. FindNext(i0) = k * WordBits + Lowest(words[k])
      BY <2>6, <2>8, <2>11, Zenon
    <3>2. NearestUp(S, i, k * WordBits + Lowest(words[k]))
      BY <1>2, <2>2, <2>4, <2>5, <2>6, <2>11, FindsUp
    <3>3. NearestUp(S, i0, FindNext(i0))
      BY <2>3, <3>1, <3>2, Zenon
    <3> QED
      BY <1>1, <1>2, <3>3, NearestIs
  <2> QED
    BY <2>9, <2>10, <2>11
<1> QED
  BY <1>1, <1>3, <1>4

\* find_prev, likewise.
LEMMA PrevIsNearest ==
    ASSUME BitmapInv, NEW i0 \in -1 .. Levels + 1
    PROVE  FindPrev(i0) = Max({j \in SetLevels : j =< i0} \cup {-1})
<1>1. Levels \in Nat \ {0} /\ SetLevels \subseteq 0 .. Levels - 1
  BY SetLevelsAre, BitmapAssumption
<1>2. PICK S : S = SetLevels
  OBVIOUS
<1>3. CASE i0 < 0
  <2>1. FindPrev(i0) = -1
    BY <1>1, <1>3 DEF FindPrev
  <2>2. NoneDown(S, i0)
    BY <1>1, <1>2, <1>3 DEF NoneDown
  <2> QED
    BY <1>1, <1>2, <2>1, <2>2, NearestIs
<1>4. CASE i0 >= 0
  <2>1. PICK i : i = Min({i0, Levels - 1})
    OBVIOUS
  <2>2. i \in 0 .. Levels - 1 /\ (i = i0 \/ (i = Levels - 1 /\ i0 >= i))
    <3>1. CASE i0 =< Levels - 1
      <4>1. PICK x : x = Levels - 1
        OBVIOUS
      <4>2. {i0, x} \subseteq Int /\ \A y \in {i0, x} : i0 =< y
        BY <1>1, <3>1, <4>1
      <4>3. i = i0
        BY <2>1, <4>1, <4>2, MinIs
      <4> QED
        BY <1>1, <1>4, <3>1, <4>3
    <3>2. CASE ~(i0 =< Levels - 1)
      <4>1. PICK x : x = Levels - 1
        OBVIOUS
      <4>2. {i0, x} \subseteq Int /\ \A y \in {i0, x} : x =< y
        BY <1>1, <3>2, <4>1
      <4>3. i = x
        BY <2>1, <4>1, <4>2, MinIs
      <4> QED
        BY <1>1, <3>2, <4>1, <4>3
    <3> QED
      BY <3>1, <3>2
  <2>3. /\ \A r : NearestDown(S, i, r) => NearestDown(S, i0, r)
        /\ NoneDown(S, i) => NoneDown(S, i0)
    <3>1. CASE i = i0
      BY <3>1
    <3>2. CASE i = Levels - 1 /\ i0 >= i
      <4>1. S = {} \/ ~NoneDown(S, i)
        BY <1>1, <1>2, <3>2 DEF NoneDown
      <4>2. S = {} => NoneDown(S, i0)
        BY DEF NoneDown
      <4>3. ASSUME NEW r, NearestDown(S, i, r) PROVE NearestDown(S, i0, r)
        BY <1>1, <1>2, <3>2, <4>3 DEF NearestDown
      <4> QED
        BY <4>1, <4>2, <4>3
    <3> QED
      BY <2>2, <3>1, <3>2
  <2>4. PICK w, h : w = i \div WordBits /\ h = HereDown(i)
    OBVIOUS
  <2>5. PICK v, some : v = w - 1 /\ some = SomeDown(summary, WordBits, v)
    OBVIOUS
  <2>6. PICK k, here, prev : k = FoundDown(v) /\ here = w * WordBits + Highest(h) /\ prev = k * WordBits + Highest(words[k])
    OBVIOUS
  <2>7. FindPrev(i0) = CASE i0 < 0 -> -1
                         [] i0 >= 0 /\ h # {} -> here
                         [] i0 >= 0 /\ h = {} /\ (w = 0 \/ some = {}) -> -1
                         [] OTHER -> prev
    BY <2>1, <2>4, <2>5, <2>6, FindPrevIs
  <2>8. /\ h # {} => FindPrev(i0) = here
        /\ h = {} /\ (w = 0 \/ some = {}) => FindPrev(i0) = -1
        /\ h = {} /\ ~(w = 0 \/ some = {}) => FindPrev(i0) = prev
    BY <1>1, <1>4, <2>7
  <2>9. CASE h # {}
    <3>1. FindPrev(i0) = w * WordBits + Highest(h)
      BY <2>6, <2>8, <2>9, Zenon
    <3>2. NearestDown(S, i, w * WordBits + Highest(h))
      BY <1>2, <2>2, <2>4, <2>9, FindsDown
    <3>3. NearestDown(S, i0, FindPrev(i0))
      BY <2>3, <3>1, <3>2, Zenon
    <3> QED
      BY <1>1, <1>2, <3>3, NearestIs
  <2>10. CASE h = {} /\ (w = 0 \/ some = {})
    <3>1. FindPrev(i0) = -1
      BY <2>8, <2>10, Zenon
    <3>2. NoneDown(S, i)
      BY <1>2, <2>2, <2>4, <2>5, <2>10, FindsDown
    <3> QED
      BY <1>1, <1>2, <2>3, <3>1, <3>2, NearestIs
  <2>11. CASE h = {} /\ ~(w = 0 \/ some = {})
    <3>1. FindPrev(i0) = k * WordBits + Highest(words[k])
      BY <2>6, <2>8, <2>11, Zenon
    <3>2. NearestDown(S, i, k * WordBits + Highest(words[k]))
      BY <1>2, <2>2, <2>4, <2>5, <2>6, <2>11, FindsDown
    <3>3. NearestDown(S, i0, FindPrev(i0))
      BY <2>3, <3>1, <3>2, Zenon
    <3> QED
      BY <1>1, <1>2, <3>3, NearestIs
  <2> QED
    BY <2>9, <2>10, <2>11
<1> QED
  BY <1>1, <1>3, <1>4

-----------------------------------------------------------------------------

\* The summary follows the words.
LEMMA BitmapStep == BitmapInv /\ [BitmapNext]_bitmapVars => BitmapInv'
<1> SUFFICES ASSUME BitmapInv, [BitmapNext]_bitmapVars PROVE BitmapInv'
  OBVIOUS
<1>1. CASE UNCHANGED bitmapVars
  BY <1>1 DEF BitmapInv, bitmapVars, Live
<1>2. CASE BitmapNext
  <2>1. PICK i \in 0 .. Levels - 1 : (~Test(i) /\ Set(i)) \/ (Test(i) /\ Clear(i))
    BY <1>2 DEF BitmapNext
  <2>2. PICK B, n, z : B = WordBits /\ n = Words /\ z = SummaryWords
    OBVIOUS
  <2>3. PICK f, g : f = words /\ g = summary
    OBVIOUS
  <2>4. /\ B \in Nat \ {0} /\ n \in Nat /\ z \in Nat
        /\ f \in [0 .. n - 1 -> SUBSET (0 .. B - 1)]
        /\ g \in [0 .. z - 1 -> SUBSET (0 .. B - 1)]
        /\ Bits(g, z, B) = {l \in 0 .. n - 1 : f[l] # {}}
    BY <2>2, <2>3, Sizes DEF BitmapInv, Live
  <2>5. PICK w, b : w = i \div B /\ b = i % B
    OBVIOUS
  <2>6. w \in 0 .. n - 1 /\ b \in 0 .. B - 1 /\ w \in Nat /\ w \div B < z
    <3>1. i \in Nat /\ i < Levels /\ Levels \in Nat
      BY Sizes
    <3>2. w \in Nat /\ b \in 0 .. B - 1
      BY <2>2, <2>5, <3>1, PartTypes, Sizes
    <3>3. w < n
      BY <2>2, <2>5, <3>1, Sizes
    <3>4. w \div B < z
      BY <2>2, <3>2, <3>3, Sizes
    <3> QED
      BY <2>4, <3>2, <3>3, <3>4
  <2>7. PICK f1, g1 : f1 = words' /\ g1 = summary'
    OBVIOUS
  <2>8. PICK s, c : s = w \div B /\ c = w % B
    OBVIOUS
  <2>9. CASE Set(i)
    <3>1. f1 = [f EXCEPT ![w] = f[w] \cup {b}]
      BY <2>2, <2>3, <2>5, <2>7, <2>9 DEF Set
    <3>2. g1 = [g EXCEPT ![s] = g[s] \cup {c}]
      BY <2>2, <2>3, <2>5, <2>7, <2>9, <2>8 DEF Set
    <3>3. f1 \in [0 .. n - 1 -> SUBSET (0 .. B - 1)]
      BY <2>4, <2>6, <3>1
    <3>4. g1 \in [0 .. z - 1 -> SUBSET (0 .. B - 1)] /\ Bits(g1, z, B) = Bits(g, z, B) \cup {w}
      <4>1. g1 = WithBit(g, B, w)
        BY <2>8, <3>2 DEF WithBit
      <4>2. \A l : l \in Bits(g1, z, B) <=> l \in Bits(g, z, B) \/ l = w
        BY <2>4, <2>6, <4>1, BitsAdd, Zenon
      <4>3. g1 \in [0 .. z - 1 -> SUBSET (0 .. B - 1)]
        BY <2>4, <2>6, <4>1, BitsAdd, Zenon
      <4> QED
        BY <4>2, <4>3
    <3>5. {l \in 0 .. n - 1 : f1[l] # {}} = {l \in 0 .. n - 1 : f[l] # {}} \cup {w}
      BY <2>4, <2>6, <3>1
    <3> QED
      BY <2>2, <2>4, <2>7, <3>3, <3>4, <3>5 DEF BitmapInv, Live
  <2>10. CASE Clear(i)
    <3>1. PICK rest : rest = f[w] \ {b}
      OBVIOUS
    <3>2. f1 = [f EXCEPT ![w] = rest]
      BY <2>2, <2>3, <2>5, <2>7, <2>10, <3>1 DEF Clear
    <3>3. g1 = IF rest = {} THEN [g EXCEPT ![s] = g[s] \ {c}] ELSE g
      BY <2>2, <2>3, <2>5, <2>7, <2>10, <2>8, <3>1 DEF Clear
    <3>4. f1 \in [0 .. n - 1 -> SUBSET (0 .. B - 1)]
      BY <2>4, <2>6, <3>1, <3>2
    <3>5. g1 \in [0 .. z - 1 -> SUBSET (0 .. B - 1)] /\ Bits(g1, z, B) = IF rest = {} THEN Bits(g, z, B) \ {w} ELSE Bits(g, z, B)
      <4>1. CASE rest = {}
        <5>1. g1 = [g EXCEPT ![s] = g[s] \ {c}]
          BY <3>3, <4>1, Zenon
        <5>2. g1 \in [0 .. z - 1 -> SUBSET (0 .. B - 1)] /\ Bits(g1, z, B) = Bits(g, z, B) \ {w}
          <6>1. g1 = WithoutBit(g, B, w)
            BY <2>8, <5>1 DEF WithoutBit
          <6>2. ASSUME NEW l PROVE l \in Bits(g1, z, B) <=> l \in Bits(g, z, B) /\ l # w
            <7>1. B \in Nat \ {0} /\ z \in Nat /\ g \in [0 .. z - 1 -> SUBSET (0 .. B - 1)] /\ w \in Nat /\ w \div B < z
              BY <2>4, <2>6, Zenon
            <7> QED
              BY <6>1, <7>1, BitsRemove, Zenon
          <6>3. g1 \in [0 .. z - 1 -> SUBSET (0 .. B - 1)]
            BY <2>4, <2>6, <6>1, BitsRemove, Zenon
          <6> QED
            BY <6>2, <6>3
        <5> QED
          BY <4>1, <5>2
      <4>2. CASE rest # {}
        BY <2>4, <3>3, <4>2
      <4> QED
        BY <4>1, <4>2
    <3>6. {l \in 0 .. n - 1 : f1[l] # {}}
            = IF rest = {} THEN {l \in 0 .. n - 1 : f[l] # {}} \ {w} ELSE {l \in 0 .. n - 1 : f[l] # {}}
      BY <2>4, <2>6, <3>1, <3>2
    <3> QED
      BY <2>2, <2>4, <2>7, <3>4, <3>5, <3>6 DEF BitmapInv, Live
  <2> QED
    BY <2>1, <2>9, <2>10
<1> QED
  BY <1>1, <1>2

\* PriceBitmap's find_next and find_prev (price_bitmap.hpp:41-77): for every number of
\* levels, every word width and every history of set and clear, and from every index,
\* out of range or not, the descent through the summary leads to the nearest set level.
THEOREM SearchIsExact == BitmapSpec => []FindsTheNearest
<1>1. BitmapInit => BitmapInv
  <2> SUFFICES ASSUME BitmapInit PROVE BitmapInv
    OBVIOUS
  <2>1. /\ words \in [0 .. Words - 1 -> SUBSET (0 .. WordBits - 1)]
        /\ summary \in [0 .. SummaryWords - 1 -> SUBSET (0 .. WordBits - 1)]
    BY DEF BitmapInit
  <2>2. Live(words) = {}
    BY DEF BitmapInit, Live
  <2>3. ASSUME NEW j \in Bits(summary, SummaryWords, WordBits) PROVE FALSE
    <3>1. j \in Nat /\ j \div WordBits < SummaryWords /\ j % WordBits \in summary[j \div WordBits]
      BY DEF Bits
    <3>2. j \div WordBits \in 0 .. SummaryWords - 1
      <4>1. j \div WordBits \in Nat
        BY <3>1, PartTypes, Sizes, Zenon
      <4> QED
        BY <3>1, <4>1, Sizes
    <3> QED
      BY <3>1, <3>2 DEF BitmapInit
  <2>4. Bits(summary, SummaryWords, WordBits) = {}
    BY <2>3
  <2> QED
    BY <2>1, <2>2, <2>4 DEF BitmapInv
<1>2. BitmapInv => FindsTheNearest
  BY NextIsNearest, PrevIsNearest DEF FindsTheNearest, SetLevels
<1> QED
  BY <1>1, <1>2, BitmapStep, PTL DEF BitmapSpec

-----------------------------------------------------------------------------
(***************************************************************************)
(* The market-making simulation.  The bound is kept by a potential: the    *)
(* inventory with all the lots that the live and the coming quotes may add. *)
(***************************************************************************)

\* A quote, as the loop keeps it: with lots left while it is live.
QuoteOK(q) ==
    /\ q = [active |-> q.active, px |-> q.px, remaining |-> q.remaining, ahead |-> q.ahead,
            traded |-> q.traded, pending |-> q.pending, pendPx |-> q.pendPx, eff |-> q.eff]
    /\ q.active \in BOOLEAN /\ q.pending \in BOOLEAN
    /\ q.remaining \in Nat /\ q.ahead \in Nat /\ q.traded \in Nat
    /\ q.active => q.remaining =< run.size

\* What a quote can still be filled for, live and in flight.
Open(q) == IF q.active THEN q.remaining ELSE 0
Coming(q) == IF q.pending /\ q.pendPx # NoPx THEN run.size ELSE 0

Most == run.maxUnits * run.size + 2 * run.size - 1

\* The inventory, with all that may still be bought, or sold, is in bounds.
Bounded(inv, quotes) ==
    /\ \A s \in Sides : QuoteOK(quotes[s])
    /\ inv + Open(quotes["Buy"]) + Coming(quotes["Buy"]) =< Most
    /\ Open(quotes["Sell"]) + Coming(quotes["Sell"]) - inv =< Most

States == [inv : Int, now : Nat, records : Nat, over : BOOLEAN]

MmInv ==
    /\ run \in MmCaptures /\ venue \in Totals /\ seenBook \in Totals
    /\ mm \in States
    /\ quote = [s \in Sides |-> quote[s]]
    /\ Bounded(mm.inv, quote)

\* The size of a quote, and the bound.
LEMMA SizeFacts ==
    ASSUME MmAssumption, run \in MmCaptures
    PROVE  /\ run.size \in Nat /\ run.size > 0 /\ run.maxUnits \in Nat
           /\ run.maxUnits * run.size \in Nat /\ Most \in Nat
<1>1. run.size \in Nat /\ run.size > 0 /\ run.maxUnits \in Nat
  BY DEF MmAssumption
<1>2. run.maxUnits * run.size \in Nat
  BY <1>1
<1>3. Most \in Nat
  <2> DEFINE cap == run.maxUnits * run.size
  <2> HIDE DEF cap
  <2> QED
    BY <1>1, <1>2 DEF Most, cap
<1> QED
  BY <1>1, <1>2, <1>3

\* What may come is a number.
LEMMA OpenFacts ==
    ASSUME MmAssumption, run \in MmCaptures, NEW q, QuoteOK(q)
    PROVE  Open(q) \in Nat /\ Open(q) =< run.size /\ Coming(q) \in Nat /\ Coming(q) =< run.size
BY SizeFacts DEF Open, Coming, QuoteOK

\* A level of the mirror.
LEMMA QtyAtFacts ==
    ASSUME NEW bk \in Totals, NEW s \in Sides, NEW px
    PROVE  QtyAt(bk, s, px) \in Nat
BY DEF QtyAt, Totals

\* process_pending: a quote goes live in place of the one before it.
LEMMA EffectiveFacts ==
    ASSUME MmAssumption, run \in MmCaptures, seenBook \in Totals, NEW s \in Sides, NEW t,
           NEW q, QuoteOK(q), NEW e, e = Effective(q, s, t)
    PROVE  QuoteOK(e) /\ Open(e) + Coming(e) =< Open(q) + Coming(q)
<1>1. Open(q) \in Nat /\ Coming(q) \in Nat /\ run.size \in Nat /\ run.size > 0
  BY OpenFacts, SizeFacts
<1> DEFINE gone == [q EXCEPT !.active = FALSE, !.pending = FALSE, !.pendPx = NoPx]
<1>2. QuoteOK(gone) /\ Open(gone) = 0 /\ Coming(gone) = 0
  <2>1. gone = [active |-> FALSE, px |-> q.px, remaining |-> q.remaining, ahead |-> q.ahead,
                traded |-> q.traded, pending |-> FALSE, pendPx |-> NoPx, eff |-> q.eff]
    <3>1. PICK a, px, n, m, tr, p, pp, x :
             q = [active |-> a, px |-> px, remaining |-> n, ahead |-> m,
                  traded |-> tr, pending |-> p, pendPx |-> pp, eff |-> x]
      BY DEF QuoteOK
    <3>2. PICK g : g = gone
      OBVIOUS
    <3>3. g = [active |-> FALSE, px |-> px, remaining |-> n, ahead |-> m,
               traded |-> tr, pending |-> FALSE, pendPx |-> NoPx, eff |-> x]
      BY <3>1, <3>2
    <3>4. /\ q.px = px /\ q.remaining = n /\ q.ahead = m /\ q.traded = tr /\ q.eff = x
      BY <3>1
    <3> HIDE DEF gone
    <3> QED
      BY <3>2, <3>3, <3>4
  <2> HIDE DEF gone
  <2> QED
    BY <2>1 DEF QuoteOK, Open, Coming
<1>3. CASE e = q
  BY <1>1, <1>3
<1>4. CASE e = gone
  <2> HIDE DEF gone
  <2> QED
    BY <1>1, <1>2, <1>4
<1>5. CASE /\ q.pending /\ q.pendPx # NoPx
           /\ e = [gone EXCEPT !.active = TRUE, !.px = q.pendPx, !.remaining = run.size,
                               !.ahead = QtyAt(seenBook, s, q.pendPx), !.traded = 0]
  <2> DEFINE n == QtyAt(seenBook, s, q.pendPx)
  <2>1. n \in Nat
    BY QtyAtFacts
  <2> HIDE DEF n
  <2>2. e = [active |-> TRUE, px |-> q.pendPx, remaining |-> run.size, ahead |-> n,
             traded |-> 0, pending |-> FALSE, pendPx |-> NoPx, eff |-> q.eff]
    BY <1>5 DEF QuoteOK, n
  <2>3. QuoteOK(e) /\ Open(e) = run.size /\ Coming(e) = 0
    BY <1>1, <2>1, <2>2 DEF QuoteOK, Open, Coming
  <2>4. Coming(q) = run.size
    BY <1>5 DEF Coming
  <2> QED
    BY <1>1, <2>3, <2>4
<1> QED
  BY <1>3, <1>4, <1>5 DEF Effective

\* r is q after fills of f lots.
Filled(q, r, f) ==
    /\ QuoteOK(r) /\ f \in Nat /\ q.remaining - r.remaining = f
    /\ Open(r) = Open(q) - f /\ Coming(r) = Coming(q)

\* QuoteLogic::on_trade: a fill comes out of what is open.
LEMMA TradeFills ==
    ASSUME MmAssumption, run \in MmCaptures, NEW s, NEW px, NEW n \in Nat,
           NEW q, QuoteOK(q), NEW e, e = OnTrade(q, s, px, n)
    PROVE  \E f : Filled(q, e, f)
<1>1. CASE e = q
  <2>1. Filled(q, e, 0)
    BY <1>1, OpenFacts DEF Filled, QuoteOK
  <2> QED
    BY <2>1
<1>2. CASE e # q
  <2> DEFINE through == IF s = "Buy" THEN px < q.px ELSE px > q.px
             consumed == Least(q.ahead, n)
             filled == IF through THEN q.remaining
                       ELSE Least(q.remaining, IF run.optimistic THEN n ELSE n - consumed)
             queue == [q EXCEPT !.ahead = @ - consumed, !.traded = @ + n]
             base == IF through \/ run.optimistic THEN q ELSE queue
  <2>1. consumed \in Nat /\ consumed =< n /\ consumed =< q.ahead
    BY DEF Least, QuoteOK
  <2>2. filled \in Nat /\ filled =< q.remaining
    <3> HIDE DEF through, consumed
    <3> QED
      BY <2>1 DEF Least, QuoteOK
  <2>3. q.active /\ e = [base EXCEPT !.remaining = @ - filled, !.active = q.remaining > filled]
    BY <1>2 DEF OnTrade
  <2>4. QuoteOK(base) /\ base.remaining = q.remaining /\ base.active = q.active
        /\ base.pending = q.pending /\ base.pendPx = q.pendPx
    <3>1. QuoteOK(queue) /\ queue.remaining = q.remaining /\ queue.active = q.active
          /\ queue.pending = q.pending /\ queue.pendPx = q.pendPx
      <4> DEFINE ahead == q.ahead - consumed
                 traded == q.traded + n
      <4>1. ahead \in Nat /\ traded \in Nat
        BY <2>1 DEF QuoteOK
      <4> HIDE DEF consumed
      <4>2. queue = [active |-> q.active, px |-> q.px, remaining |-> q.remaining, ahead |-> ahead,
                     traded |-> traded, pending |-> q.pending, pendPx |-> q.pendPx, eff |-> q.eff]
        <5>1. PICK a, p0, r0, m, tr, p, pp, x :
                 q = [active |-> a, px |-> p0, remaining |-> r0, ahead |-> m,
                      traded |-> tr, pending |-> p, pendPx |-> pp, eff |-> x]
          BY DEF QuoteOK
        <5>2. PICK g : g = queue
          OBVIOUS
        <5>3. g = [active |-> a, px |-> p0, remaining |-> r0, ahead |-> m - consumed,
                   traded |-> tr + n, pending |-> p, pendPx |-> pp, eff |-> x]
          BY <5>1, <5>2
        <5>4. /\ q.active = a /\ q.px = p0 /\ q.remaining = r0 /\ q.ahead = m /\ q.traded = tr
              /\ q.pending = p /\ q.pendPx = pp /\ q.eff = x
          BY <5>1
        <5> HIDE DEF queue
        <5> QED
          BY <5>2, <5>3, <5>4
      <4> HIDE DEF queue, ahead, traded
      <4> QED
        BY <4>1, <4>2 DEF QuoteOK
    <3> HIDE DEF queue, through
    <3> QED
      BY <3>1
  <2> HIDE DEF base, filled
  <2> DEFINE still == q.remaining > filled
  <2>5. still \in BOOLEAN
    OBVIOUS
  <2>6. e = [active |-> still, px |-> base.px, remaining |-> q.remaining - filled,
             ahead |-> base.ahead, traded |-> base.traded, pending |-> base.pending,
             pendPx |-> base.pendPx, eff |-> base.eff]
    <3> HIDE DEF still
    <3>1. e = [base EXCEPT !.remaining = @ - filled, !.active = still]
      BY <2>3 DEF still
    <3> QED
      BY <2>4, <3>1 DEF QuoteOK
  <2>7. e.active = still /\ e.remaining = q.remaining - filled
    <3> HIDE DEF still
    <3> QED
      BY <2>6
  <2>8. q.remaining \in Nat /\ q.remaining =< run.size /\ run.size \in Nat
    BY <2>3, SizeFacts DEF QuoteOK
  <2>9. QuoteOK(e)
    <3>1. e.remaining \in Nat /\ e.remaining =< run.size
      BY <2>2, <2>7, <2>8
    <3> HIDE DEF still
    <3> QED
      BY <2>4, <2>5, <2>6, <3>1 DEF QuoteOK
  <2>10. Coming(e) = Coming(q)
    <3> HIDE DEF still
    <3> QED
      BY <2>4, <2>6 DEF Coming
  <2>11. Open(e) = Open(q) - filled
    <3>1. Open(q) = q.remaining
      BY <2>3 DEF Open
    <3>2. Open(e) = IF q.remaining > filled THEN q.remaining - filled ELSE 0
      BY <2>7 DEF Open
    <3> QED
      BY <2>2, <2>8, <3>1, <3>2
  <2>12. q.remaining - e.remaining = filled
    BY <2>2, <2>7, <2>8
  <2>13. Filled(q, e, filled)
    BY <2>2, <2>9, <2>10, <2>11, <2>12 DEF Filled
  <2> QED
    BY <2>13
<1> QED
  BY <1>1, <1>2

\* QuoteLogic::on_level_change: only the place in the queue moves.
LEMMA LevelFills ==
    ASSUME MmAssumption, run \in MmCaptures, NEW b \in Nat, NEW a \in Nat,
           NEW q, QuoteOK(q), NEW e \in LevelChanges(q, b, a)
    PROVE  Filled(q, e, 0)
<1>1. CASE e = q
  BY <1>1, OpenFacts DEF Filled, QuoteOK
<1>2. CASE e # q
  <2> DEFINE explained == Least(b - a, q.traded)
             base == b - explained
             h == Least(q.ahead, base)
             shrinks == a < b /\ a < base /\ base > 0
             Taken == IF shrinks THEN Split(h, base - h, base - a) ELSE {0}
  <2>1. PICK n \in Taken : e = [q EXCEPT !.ahead = Least(@ - n, a), !.traded = 0]
    BY <1>2 DEF LevelChanges
  <2>2. n \in Nat /\ n =< q.ahead
    <3>1. CASE ~shrinks
      <4>1. n = 0
        BY <2>1, <3>1
      <4> QED
        BY <4>1 DEF QuoteOK
    <3>2. CASE shrinks
      <4>1. explained \in Int /\ q.ahead \in Nat
        BY DEF Least, QuoteOK
      <4> HIDE DEF explained
      <4>2. base \in Int /\ base > 0 /\ base - a \in Nat
        BY <3>2, <4>1
      <4> HIDE DEF base
      <4>3. h \in Nat /\ h =< q.ahead
        BY <4>1, <4>2 DEF Least
      <4>4. n \in Split(h, base - h, base - a)
        BY <2>1, <3>2
      <4> HIDE DEF h
      <4>5. n \in Nat /\ n =< h
        BY <4>2, <4>3, <4>4 DEF Split, Least
      <4> QED
        BY <4>1, <4>3, <4>5
    <3> QED
      BY <3>1, <3>2
  <2> DEFINE ahead == Least(q.ahead - n, a)
  <2>3. ahead \in Nat
    BY <2>2 DEF Least, QuoteOK
  <2>4. e = [active |-> q.active, px |-> q.px, remaining |-> q.remaining, ahead |-> ahead,
             traded |-> 0, pending |-> q.pending, pendPx |-> q.pendPx, eff |-> q.eff]
    <3>1. PICK v, p0, r0, m, tr, p, pp, x :
             q = [active |-> v, px |-> p0, remaining |-> r0, ahead |-> m,
                  traded |-> tr, pending |-> p, pendPx |-> pp, eff |-> x]
      BY DEF QuoteOK
    <3>2. /\ q.active = v /\ q.px = p0 /\ q.remaining = r0 /\ q.ahead = m
          /\ q.pending = p /\ q.pendPx = pp /\ q.eff = x
      BY <3>1
    <3> DEFINE k == Least(m - n, a)
    <3> HIDE DEF k
    <3>3. e = [q EXCEPT !.ahead = k, !.traded = 0]
      BY <2>1, <3>2 DEF k
    <3>4. e = [active |-> v, px |-> p0, remaining |-> r0, ahead |-> k,
               traded |-> 0, pending |-> p, pendPx |-> pp, eff |-> x]
      BY <3>1, <3>3
    <3>5. k = ahead
      BY <3>2 DEF k
    <3> HIDE DEF ahead
    <3> QED
      BY <3>2, <3>4, <3>5
  <2> HIDE DEF ahead
  <2>5. QuoteOK(e) /\ e.remaining = q.remaining /\ Open(e) = Open(q) /\ Coming(e) = Coming(q)
    BY <2>3, <2>4 DEF QuoteOK, Open, Coming
  <2> QED
    BY <2>5, OpenFacts DEF Filled, QuoteOK
<1> QED
  BY <1>1, <1>2

\* The market moved through a quote: it is filled in full.
LEMMA FullFill ==
    ASSUME MmAssumption, run \in MmCaptures, NEW q, QuoteOK(q), q.active,
           NEW e, e = [q EXCEPT !.remaining = 0, !.active = FALSE]
    PROVE  Filled(q, e, q.remaining)
<1>1. PICK v, p0, r0, m, tr, p, pp, x :
         q = [active |-> v, px |-> p0, remaining |-> r0, ahead |-> m,
              traded |-> tr, pending |-> p, pendPx |-> pp, eff |-> x]
  BY DEF QuoteOK
<1>2. /\ q.active = v /\ q.px = p0 /\ q.remaining = r0 /\ q.ahead = m /\ q.traded = tr
      /\ q.pending = p /\ q.pendPx = pp /\ q.eff = x
  BY <1>1
<1>3. e = [active |-> FALSE, px |-> p0, remaining |-> 0, ahead |-> m,
           traded |-> tr, pending |-> p, pendPx |-> pp, eff |-> x]
  BY <1>1
<1>4. /\ r0 \in Nat /\ m \in Nat /\ tr \in Nat /\ p \in BOOLEAN
  BY <1>2 DEF QuoteOK
<1>5. QuoteOK(e) /\ Open(e) = 0 /\ e.remaining = 0
  <2>1. PICK d : d = [active |-> FALSE, px |-> p0, remaining |-> 0, ahead |-> m,
                      traded |-> tr, pending |-> p, pendPx |-> pp, eff |-> x]
    OBVIOUS
  <2>2. /\ d.active = FALSE /\ d.remaining = 0 /\ d.ahead = m /\ d.traded = tr /\ d.pending = p
        /\ d.px = p0 /\ d.pendPx = pp /\ d.eff = x
    BY <2>1
  <2>3. QuoteOK(d) /\ Open(d) = 0 /\ d.remaining = 0
    BY <1>4, <2>1, <2>2 DEF QuoteOK, Open
  <2> QED
    BY <1>3, <2>1, <2>3
<1>6. Coming(e) = Coming(q)
  BY <1>2, <1>3 DEF Coming
<1>7. Open(q) = q.remaining /\ q.remaining \in Nat
  BY <1>2, <1>4 DEF Open
<1> QED
  BY <1>5, <1>6, <1>7 DEF Filled

\* The decision: what is in flight grows only when the cap allows the quote.
LEMMA RequoteFacts ==
    ASSUME MmAssumption, run \in MmCaptures, NEW want, NEW t,
           NEW q, QuoteOK(q), NEW e, e = Requoted(q, want, t)
    PROVE  /\ QuoteOK(e) /\ Open(e) = Open(q)
           /\ Coming(e) = Coming(q) \/ want # NoPx \/ Coming(e) = 0
<1>1. CASE e = q
  BY <1>1
<1>2. CASE e # q
  <2> DEFINE x1 == IF q.pending THEN q.eff ELSE t + run.latency
  <2>1. e = [q EXCEPT !.pending = TRUE, !.pendPx = want, !.eff = x1]
    <3>1. CASE q.pending
      <4>1. e = [q EXCEPT !.pendPx = want]
        BY <1>2, <3>1 DEF Requoted
      <4> QED
        BY <3>1, <4>1 DEF QuoteOK
    <3>2. CASE ~q.pending
      BY <1>2, <3>2 DEF Requoted
    <3> QED
      BY <3>1, <3>2
  <2> HIDE DEF x1
  <2>2. PICK v, p0, r0, m, tr, p, pp, x :
         q = [active |-> v, px |-> p0, remaining |-> r0, ahead |-> m,
              traded |-> tr, pending |-> p, pendPx |-> pp, eff |-> x]
    BY DEF QuoteOK
  <2>3. /\ q.active = v /\ q.px = p0 /\ q.remaining = r0 /\ q.ahead = m /\ q.traded = tr
        /\ q.pending = p /\ q.pendPx = pp /\ q.eff = x
    BY <2>2
  <2>4. e = [active |-> v, px |-> p0, remaining |-> r0, ahead |-> m,
             traded |-> tr, pending |-> TRUE, pendPx |-> want, eff |-> x1]
    BY <2>1, <2>2
  <2>5. /\ r0 \in Nat /\ m \in Nat /\ tr \in Nat /\ v \in BOOLEAN /\ (v => r0 =< run.size)
    BY <2>3 DEF QuoteOK
  <2>6. QuoteOK(e)
    BY <2>4, <2>5 DEF QuoteOK
  <2>7. Open(e) = Open(q)
    BY <2>3, <2>4 DEF Open
  <2>8. want = NoPx => Coming(e) = 0
    BY <2>4 DEF Coming
  <2> QED
    BY <2>6, <2>7, <2>8
<1> QED
  BY <1>1, <1>2

Fills(live, after) == \A s \in Sides : \E f : Filled(live[s], after[s], f)

\* What is bought and sold comes out of what was open: the bounds stay.
LEMMA FillsKeepBounds ==
    ASSUME MmAssumption, run \in MmCaptures, NEW inv \in Int, NEW live, NEW after,
           Bounded(inv, live), Fills(live, after),
           NEW sum, sum = inv + Bought(live, after)
    PROVE  sum \in Int /\ Bounded(sum, after)
<1>0. /\ \A s \in Sides : QuoteOK(live[s]) /\ \E f : Filled(live[s], after[s], f)
      /\ inv + Open(live["Buy"]) + Coming(live["Buy"]) =< Most
      /\ Open(live["Sell"]) + Coming(live["Sell"]) - inv =< Most
  BY DEF Bounded, Fills
<1>1. PICK f : Filled(live["Buy"], after["Buy"], f)
  BY <1>0 DEF Sides
<1>2. PICK g : Filled(live["Sell"], after["Sell"], g)
  BY <1>0 DEF Sides
<1>3. f \in Nat /\ g \in Nat /\ sum = inv + (f - g)
  BY <1>1, <1>2 DEF Filled, Bought
<1>4. \A s \in Sides : QuoteOK(after[s])
  BY <1>0 DEF Filled
<1>5. /\ Open(after["Buy"]) = Open(live["Buy"]) - f /\ Coming(after["Buy"]) = Coming(live["Buy"])
      /\ Open(after["Sell"]) = Open(live["Sell"]) - g /\ Coming(after["Sell"]) = Coming(live["Sell"])
  BY <1>1, <1>2 DEF Filled
<1>6. /\ Open(live["Buy"]) \in Nat /\ Coming(live["Buy"]) \in Nat
      /\ Open(live["Sell"]) \in Nat /\ Coming(live["Sell"]) \in Nat /\ Most \in Nat
  BY <1>0, OpenFacts, SizeFacts DEF Sides
<1> QED
  BY <1>0, <1>3, <1>4, <1>5, <1>6 DEF Bounded

\* The quotes of a record, once what was due went live.
LEMMA LiveFacts ==
    ASSUME MmAssumption, MmInv, NEW t, NEW live, live = [s \in Sides |-> Effective(quote[s], s, t)]
    PROVE  Bounded(mm.inv, live)
<1>1. run \in MmCaptures /\ seenBook \in Totals /\ mm.inv \in Int
  BY DEF MmInv, States
<1>2. ASSUME NEW s \in Sides
      PROVE  /\ QuoteOK(live[s]) /\ Open(live[s]) + Coming(live[s]) =< Open(quote[s]) + Coming(quote[s])
             /\ Open(live[s]) \in Nat /\ Coming(live[s]) \in Nat
             /\ Open(quote[s]) \in Nat /\ Coming(quote[s]) \in Nat
  <2>1. PICK q, e : q = quote[s] /\ e = live[s]
    OBVIOUS
  <2>2. QuoteOK(q) /\ e = Effective(q, s, t)
    BY <2>1 DEF MmInv, Bounded
  <2>3. QuoteOK(e) /\ Open(e) + Coming(e) =< Open(q) + Coming(q)
    BY <1>1, <2>2, EffectiveFacts
  <2>4. Open(e) \in Nat /\ Coming(e) \in Nat /\ Open(q) \in Nat /\ Coming(q) \in Nat
    BY <1>1, <2>2, <2>3, OpenFacts
  <2> QED
    BY <2>1, <2>3, <2>4
<1>3. "Buy" \in Sides /\ "Sell" \in Sides
  BY DEF Sides
<1>4. /\ mm.inv + Open(quote["Buy"]) + Coming(quote["Buy"]) =< Most
      /\ Open(quote["Sell"]) + Coming(quote["Sell"]) - mm.inv =< Most
  BY DEF MmInv, Bounded
<1>5. Most \in Nat
  BY <1>1, SizeFacts
<1>6. mm.inv + Open(live["Buy"]) + Coming(live["Buy"]) =< Most
  <2>1. /\ Open(live["Buy"]) + Coming(live["Buy"]) =< Open(quote["Buy"]) + Coming(quote["Buy"])
        /\ Open(live["Buy"]) \in Nat /\ Coming(live["Buy"]) \in Nat
        /\ Open(quote["Buy"]) \in Nat /\ Coming(quote["Buy"]) \in Nat
    BY <1>2, <1>3
  <2> QED
    BY <1>1, <1>4, <1>5, <2>1
<1>7. Open(live["Sell"]) + Coming(live["Sell"]) - mm.inv =< Most
  <2>1. /\ Open(live["Sell"]) + Coming(live["Sell"]) =< Open(quote["Sell"]) + Coming(quote["Sell"])
        /\ Open(live["Sell"]) \in Nat /\ Coming(live["Sell"]) \in Nat
        /\ Open(quote["Sell"]) \in Nat /\ Coming(quote["Sell"]) \in Nat
    BY <1>2, <1>3
  <2> QED
    BY <1>1, <1>4, <1>5, <2>1
<1> QED
  BY <1>2, <1>6, <1>7 DEF Bounded

\* A trade record.
LEMMA TradeRecordBound ==
    ASSUME MmAssumption, MaxQty \in Nat, MmInv, NEW side \in Sides, NEW qty \in 1 .. MaxQty,
           NEW t \in Nat, TradeRecord(side, qty, t)
    PROVE  MmInv'
<1>1. PICK px : px = IF side = "Buy" THEN BestBidOf(venue) ELSE BestAskOf(venue)
  OBVIOUS
<1>2. PICK live : live = [s \in Sides |-> Effective(quote[s], s, t)]
  OBVIOUS
<1>3. PICK after : after = [live EXCEPT ![side] = OnTrade(@, side, px, qty)]
  OBVIOUS
<1>4. PICK sum : sum = mm.inv + Bought(live, after)
  OBVIOUS
<1>5. /\ qty =< venue[side][px] /\ venue' = [venue EXCEPT ![side][px] = @ - qty]
      /\ quote' = after /\ mm' = [mm EXCEPT !.inv = sum, !.now = t, !.records = @ + 1]
      /\ run' = run /\ seenBook' = seenBook
  BY <1>1, <1>2, <1>3, <1>4 DEF TradeRecord
<1>6. /\ run \in MmCaptures /\ venue \in Totals /\ seenBook \in Totals
      /\ mm \in States
  BY DEF MmInv
<1>7. Bounded(mm.inv, live)
  BY <1>2, LiveFacts
<1>8. ASSUME NEW s \in Sides PROVE \E f : Filled(live[s], after[s], f)
  <2>1. PICK q, e : q = live[s] /\ e = after[s]
    OBVIOUS
  <2>2. QuoteOK(q)
    BY <1>7, <2>1 DEF Bounded
  <2>3. CASE s = side
    <3>1. e = OnTrade(q, s, px, qty)
      BY <1>2, <1>3, <2>1, <2>3
    <3>2. qty \in Nat
      OBVIOUS
    <3>3. \E f : Filled(q, e, f)
      BY <1>6, <2>2, <3>1, <3>2, TradeFills
    <3> QED
      BY <2>1, <3>3
  <2>4. CASE s # side
    <3>1. e = q
      BY <1>2, <1>3, <2>1, <2>4
    <3>2. Filled(q, e, 0)
      BY <1>6, <2>2, <3>1, OpenFacts DEF Filled, QuoteOK
    <3> QED
      BY <2>1, <3>2
  <2> QED
    BY <2>3, <2>4
<1>9. mm.inv \in Int
  BY <1>6 DEF States
<1>10. sum \in Int /\ Bounded(sum, after)
  <2>1. Fills(live, after)
    BY <1>8 DEF Fills
  <2> QED
    BY <1>4, <1>6, <1>7, <1>9, <2>1, FillsKeepBounds
<1>11. venue' \in Totals
  <2>1. CASE px \in Prices
    <3>1. venue[side][px] \in Nat /\ venue[side][px] - qty \in Nat
      BY <1>5, <1>6, <2>1 DEF Totals
    <3> QED
      BY <1>5, <1>6, <2>1, <3>1 DEF Totals
  <2>2. CASE px \notin Prices
    BY <1>5, <1>6, <2>2 DEF Totals
  <2> QED
    BY <2>1, <2>2
<1>12. mm' \in States /\ mm'.inv = sum
  <2>1. PICK m, n : m = mm /\ n = mm'
    OBVIOUS
  <2>2. m \in States /\ n = [m EXCEPT !.inv = sum, !.now = t, !.records = @ + 1]
    BY <1>5, <1>6, <2>1
  <2>3. n \in States /\ n.inv = sum
    <3>1. PICK i, w, r, o : m = [inv |-> i, now |-> w, records |-> r, over |-> o]
                            /\ r \in Nat /\ o \in BOOLEAN
      BY <2>2 DEF States
    <3>2. n = [inv |-> sum, now |-> t, records |-> r + 1, over |-> o]
      BY <2>2, <3>1
    <3>3. r + 1 \in Nat
      BY <3>1
    <3> QED
      BY <1>10, <3>1, <3>2, <3>3 DEF States
  <2> QED
    BY <2>1, <2>3
<1>13. after = [s \in Sides |-> after[s]]
  BY <1>2, <1>3
<1> QED
  BY <1>5, <1>6, <1>10, <1>11, <1>12, <1>13 DEF MmInv, Bounded, QuoteOK, Open, Coming, Most

\* The decision on both sides: a side that gets a quote is below the cap.
LEMMA RequotesKeepBounds ==
    ASSUME MmAssumption, run \in MmCaptures, NEW inv \in Int, NEW met, Bounded(inv, met), NEW target,
           NEW t, NEW next, next = [s \in Sides |-> Requoted(met[s], Capped(inv, s, target[s]), t)]
    PROVE  Bounded(inv, next)
<1>1. "Buy" \in Sides /\ "Sell" \in Sides
  BY DEF Sides
<1>2. /\ run.size \in Nat /\ run.size > 0 /\ run.maxUnits \in Nat
      /\ run.maxUnits * run.size \in Nat /\ Most \in Nat
  BY SizeFacts
<1> DEFINE cap == run.maxUnits * run.size
<1>3. cap \in Nat /\ Most = cap + 2 * run.size - 1
  BY <1>2 DEF Most
<1>4. ASSUME NEW s \in Sides
      PROVE  /\ QuoteOK(next[s]) /\ Open(next[s]) = Open(met[s])
             /\ Open(next[s]) \in Nat /\ Open(next[s]) =< run.size
             /\ Coming(next[s]) \in Nat /\ Coming(next[s]) =< run.size /\ Coming(met[s]) \in Nat
             /\ \/ Coming(next[s]) = Coming(met[s])
                \/ Capped(inv, s, target[s]) # NoPx
                \/ Coming(next[s]) = 0
  <2>1. PICK q, e, want : q = met[s] /\ e = next[s] /\ want = Capped(inv, s, target[s])
    OBVIOUS
  <2>2. QuoteOK(q) /\ e = Requoted(q, want, t)
    BY <2>1 DEF Bounded
  <2>3. /\ QuoteOK(e) /\ Open(e) = Open(q)
        /\ Coming(e) = Coming(q) \/ want # NoPx \/ Coming(e) = 0
    BY <2>2, RequoteFacts
  <2>4. /\ Open(e) \in Nat /\ Open(e) =< run.size /\ Coming(e) \in Nat /\ Coming(e) =< run.size
        /\ Coming(q) \in Nat
    BY <2>2, <2>3, OpenFacts
  <2> QED
    BY <2>1, <2>3, <2>4
<1>5. Capped(inv, "Buy", target["Buy"]) # NoPx => inv < cap
  BY DEF Capped
<1>6. Capped(inv, "Sell", target["Sell"]) # NoPx => inv > - cap
  BY DEF Capped
<1> HIDE DEF cap
<1>7. inv + Open(next["Buy"]) + Coming(next["Buy"]) =< Most
  <2>1. inv + Open(met["Buy"]) + Coming(met["Buy"]) =< Most
    BY DEF Bounded
  <2>2. /\ Open(next["Buy"]) = Open(met["Buy"])
        /\ Open(next["Buy"]) \in Nat /\ Open(next["Buy"]) =< run.size
        /\ Coming(next["Buy"]) \in Nat /\ Coming(next["Buy"]) =< run.size /\ Coming(met["Buy"]) \in Nat
        /\ Coming(next["Buy"]) = Coming(met["Buy"]) \/ inv < cap \/ Coming(next["Buy"]) = 0
    BY <1>1, <1>4, <1>5
  <2> QED
    BY <1>2, <1>3, <2>1, <2>2
<1>8. Open(next["Sell"]) + Coming(next["Sell"]) - inv =< Most
  <2>1. Open(met["Sell"]) + Coming(met["Sell"]) - inv =< Most
    BY DEF Bounded
  <2>2. /\ Open(next["Sell"]) = Open(met["Sell"])
        /\ Open(next["Sell"]) \in Nat /\ Open(next["Sell"]) =< run.size
        /\ Coming(next["Sell"]) \in Nat /\ Coming(next["Sell"]) =< run.size /\ Coming(met["Sell"]) \in Nat
        /\ Coming(next["Sell"]) = Coming(met["Sell"]) \/ inv > - cap \/ Coming(next["Sell"]) = 0
    BY <1>1, <1>4, <1>6
  <2> QED
    BY <1>2, <1>3, <2>1, <2>2
<1> QED
  BY <1>4, <1>7, <1>8 DEF Bounded

\* A book update: quotes that were met are filled, then the next are decided on.
LEMMA DiffRecordBound ==
    ASSUME MmAssumption, MmInv, NEW t \in Nat, DiffRecord(t)
    PROVE  MmInv'
<1> DEFINE Met(s, q) == IF q.active /\ WouldTake(venue, s, q.px)
                        THEN [q EXCEPT !.remaining = 0, !.active = FALSE] ELSE q
           live == [s \in Sides |-> Effective(quote[s], s, t)]
<1>1. live = [s \in Sides |-> Effective(quote[s], s, t)]
  OBVIOUS
<1>2. PICK bid \in LevelChanges(live["Buy"], QtyAt(seenBook, "Buy", live["Buy"].px),
                                QtyAt(venue, "Buy", live["Buy"].px)),
           ask \in LevelChanges(live["Sell"], QtyAt(seenBook, "Sell", live["Sell"].px),
                                QtyAt(venue, "Sell", live["Sell"].px)),
           target \in Targets(venue) :
        LET met == [Buy |-> Met("Buy", bid), Sell |-> Met("Sell", ask)]
            inv == mm.inv + Bought(live, met)
        IN  /\ quote' = IF t < run.warmup THEN met
                        ELSE [s \in Sides |-> Requoted(met[s], Capped(inv, s, target[s]), t)]
            /\ mm' = [mm EXCEPT !.inv = inv, !.now = t, !.records = @ + 1]
  BY DEF DiffRecord
<1> HIDE DEF live
<1>3. PICK met : met = [Buy |-> Met("Buy", bid), Sell |-> Met("Sell", ask)]
  OBVIOUS
<1>4. PICK sum : sum = mm.inv + Bought(live, met)
  OBVIOUS
<1>5. PICK next : next = [s \in Sides |-> Requoted(met[s], Capped(sum, s, target[s]), t)]
  OBVIOUS
<1>6. /\ quote' = met \/ quote' = next
      /\ mm' = [mm EXCEPT !.inv = sum, !.now = t, !.records = @ + 1]
  <2> HIDE DEF Met
  <2> QED
    BY <1>2, <1>3, <1>4, <1>5
<1>7. run' = run /\ venue' = venue /\ seenBook' = venue
  BY DEF DiffRecord
<1>8. /\ run \in MmCaptures /\ venue \in Totals /\ seenBook \in Totals
      /\ mm \in States /\ mm.inv \in Int
  BY DEF MmInv, States
<1>9. Bounded(mm.inv, live)
  BY <1>1, LiveFacts
<1>10. ASSUME NEW s \in Sides, NEW q, q = live[s],
              NEW e \in LevelChanges(q, QtyAt(seenBook, s, q.px), QtyAt(venue, s, q.px)),
              NEW m, m = Met(s, e)
       PROVE  \E f : Filled(q, m, f)
  <2>1. QuoteOK(q)
    BY <1>9, <1>10 DEF Bounded
  <2>2. PICK a, b : a = QtyAt(venue, s, q.px) /\ b = QtyAt(seenBook, s, q.px)
    OBVIOUS
  <2>3. a \in Nat /\ b \in Nat
    BY <1>8, <2>2, QtyAtFacts
  <2>4. Filled(q, e, 0)
    <3>1. e \in LevelChanges(q, b, a)
      BY <2>2
    <3> QED
      BY <1>8, <2>1, <2>3, <3>1, LevelFills
  <2>5. /\ QuoteOK(e) /\ q.remaining - e.remaining = 0 /\ Open(e) = Open(q) - 0
        /\ Coming(e) = Coming(q) /\ q.remaining \in Nat /\ e.remaining \in Nat
    BY <2>1, <2>4 DEF Filled, QuoteOK
  <2>6. CASE m = e
    BY <2>4, <2>6
  <2>7. CASE e.active /\ m = [e EXCEPT !.remaining = 0, !.active = FALSE]
    <3>1. Filled(e, m, e.remaining)
      BY <1>8, <2>5, <2>7, FullFill
    <3>2. Open(q) \in Nat
      BY <1>8, <2>1, OpenFacts
    <3>3. /\ QuoteOK(m) /\ e.remaining - m.remaining = e.remaining
          /\ Open(m) = Open(e) - e.remaining /\ Coming(m) = Coming(e)
      BY <3>1 DEF Filled
    <3>4. q.remaining - m.remaining = e.remaining
      BY <2>5, <3>3 DEF QuoteOK
    <3>5. Open(m) = Open(q) - e.remaining
      BY <2>5, <3>2, <3>3
    <3>6. Filled(q, m, e.remaining)
      BY <2>5, <3>3, <3>4, <3>5 DEF Filled
    <3> QED
      BY <3>6
  <2> QED
    BY <1>10, <2>6, <2>7
<1>11. Fills(live, met)
  <2>1. \E f : Filled(live["Buy"], met["Buy"], f)
    <3>1. PICK q, m : q = live["Buy"] /\ m = met["Buy"]
      OBVIOUS
    <3>2. "Buy" \in Sides /\ m = Met("Buy", bid)
      BY <1>3, <3>1 DEF Sides
    <3>3. bid \in LevelChanges(q, QtyAt(seenBook, "Buy", q.px), QtyAt(venue, "Buy", q.px))
      BY <3>1
    <3> HIDE DEF Met
    <3>4. \E f : Filled(q, m, f)
      BY <1>10, <3>1, <3>2, <3>3
    <3> QED
      BY <3>1, <3>4
  <2>2. \E f : Filled(live["Sell"], met["Sell"], f)
    <3>1. PICK q, m : q = live["Sell"] /\ m = met["Sell"]
      OBVIOUS
    <3>2. "Sell" \in Sides /\ m = Met("Sell", ask)
      BY <1>3, <3>1 DEF Sides
    <3>3. ask \in LevelChanges(q, QtyAt(seenBook, "Sell", q.px), QtyAt(venue, "Sell", q.px))
      BY <3>1
    <3> HIDE DEF Met
    <3>4. \E f : Filled(q, m, f)
      BY <1>10, <3>1, <3>2, <3>3
    <3> QED
      BY <3>1, <3>4
  <2> QED
    BY <2>1, <2>2 DEF Fills, Sides
<1>12. sum \in Int /\ Bounded(sum, met)
  BY <1>4, <1>8, <1>9, <1>11, FillsKeepBounds
<1>13. Bounded(sum, next)
  BY <1>5, <1>8, <1>12, RequotesKeepBounds
<1>14. mm' \in States /\ mm'.inv = sum
  <2>1. PICK m, n : m = mm /\ n = mm'
    OBVIOUS
  <2>2. m \in States /\ n = [m EXCEPT !.inv = sum, !.now = t, !.records = @ + 1]
    BY <1>6, <1>8, <2>1
  <2>3. n \in States /\ n.inv = sum
    <3>1. PICK i, w, r, o : m = [inv |-> i, now |-> w, records |-> r, over |-> o]
                            /\ r \in Nat /\ o \in BOOLEAN
      BY <2>2 DEF States
    <3>2. n = [inv |-> sum, now |-> t, records |-> r + 1, over |-> o]
      BY <2>2, <3>1
    <3>3. r + 1 \in Nat
      BY <3>1
    <3> QED
      BY <1>12, <3>1, <3>2, <3>3 DEF States
  <2> QED
    BY <2>1, <2>3
<1>15. met = [s \in Sides |-> met[s]] /\ next = [s \in Sides |-> next[s]]
  <2>1. next = [s \in Sides |-> next[s]]
    BY <1>5
  <2>2. met = [s \in Sides |-> met[s]]
    <3> DEFINE b == Met("Buy", bid)
               a == Met("Sell", ask)
    <3>1. met = [Buy |-> b, Sell |-> a]
      BY <1>3
    <3> HIDE DEF a, b
    <3> QED
      BY <3>1 DEF Sides
  <2> QED
    BY <2>1, <2>2
<1>16. PICK new : new = quote' /\ Bounded(sum, new) /\ new = [s \in Sides |-> new[s]]
  BY <1>6, <1>12, <1>13, <1>15
<1> QED
  BY <1>7, <1>8, <1>14, <1>16 DEF MmInv, Bounded, QuoteOK, Open, Coming, Most

\* The simulation starts with no quote.
LEMMA MmStart == MmInit => MmInv
<1> SUFFICES ASSUME MmInit PROVE MmInv
  OBVIOUS
<1>1. run \in MmCaptures /\ venue \in Totals /\ seenBook \in Totals
  BY MmAssumption DEF MmInit, MmAssumption
<1>2. mm \in States /\ mm.inv = 0
  BY DEF MmInit, States
<1>3. quote = [s \in Sides |-> NoQuote]
  BY DEF MmInit
<1>4. QuoteOK(NoQuote) /\ Open(NoQuote) = 0 /\ Coming(NoQuote) = 0
  BY DEF QuoteOK, Open, Coming, NoQuote
<1>5. Most \in Nat
  BY <1>1, SizeFacts, MmAssumption
<1>6. "Buy" \in Sides /\ "Sell" \in Sides
  BY DEF Sides
<1>7. \A s \in Sides : quote[s] = NoQuote
  BY <1>3
<1> HIDE DEF NoQuote
<1>8. Bounded(mm.inv, quote)
  BY <1>2, <1>4, <1>5, <1>6, <1>7 DEF Bounded
<1> QED
  BY <1>1, <1>2, <1>3, <1>8 DEF MmInv

\* Every record keeps the invariant.
LEMMA MmStep == MmInv /\ [MmNext]_mmVars => MmInv'
<1> SUFFICES ASSUME MmInv, [MmNext]_mmVars PROVE MmInv'
  OBVIOUS
<1>1. mm.now \in Nat /\ mm.now + 1 \in Nat /\ MaxQty \in Nat
  BY BookAssumption DEF MmInv, States, BookAssumption
<1>2. ASSUME NEW t \in {mm.now, mm.now + 1}, NEW side \in Sides, NEW qty \in 1 .. MaxQty,
             TradeRecord(side, qty, t)
      PROVE  MmInv'
  BY <1>1, <1>2, TradeRecordBound, MmAssumption
<1>3. ASSUME NEW t \in {mm.now, mm.now + 1}, DiffRecord(t) PROVE MmInv'
  BY <1>1, <1>3, DiffRecordBound, MmAssumption
<1>4. ASSUME mm' \in States, mm'.inv = mm.inv, venue' \in Totals, UNCHANGED <<run, seenBook, quote>>
      PROVE  MmInv'
  BY <1>4 DEF MmInv, Bounded, QuoteOK, Open, Coming, Most
<1>5. CASE MissingRecord
  <2>1. mm' = [mm EXCEPT !.over = TRUE] /\ UNCHANGED <<run, venue, seenBook, quote>>
    BY <1>5 DEF MissingRecord
  <2>2. mm' \in States /\ mm'.inv = mm.inv /\ venue' \in Totals
    BY <2>1 DEF MmInv, States
  <2> QED
    BY <1>4, <2>1, <2>2
<1>6. CASE Elsewhere
  <2>1. PICK move \in run.moves : venue' = [venue EXCEPT ![move[1]][move[2]] = move[3]]
    BY <1>6 DEF Elsewhere
  <2>2. venue \in Totals /\ run.moves \subseteq Sides \X Prices \X Nat
    BY MmAssumption DEF MmInv, MmAssumption
  <2>3. move[1] \in Sides /\ move[2] \in Prices /\ move[3] \in Nat
    BY <2>2
  <2>4. venue' \in Totals
    BY <2>1, <2>2, <2>3 DEF Totals
  <2> QED
    BY <1>4, <1>6, <2>4 DEF Elsewhere, MmInv
<1>7. CASE UNCHANGED mmVars
  BY <1>4, <1>7 DEF mmVars, MmInv
<1> QED
  BY <1>2, <1>3, <1>5, <1>6, <1>7 DEF MmNext, MmEnded

\* mm.hpp:42 and mm_sim.hpp:184-200, for every capture, latency and strategy: the
\* inventory passes the cap by less than two quotes.
THEOREM InventoryIsBounded == MmSpec => []InventoryBounded
<1>1. MmInv => InventoryBounded
  <2> SUFFICES ASSUME MmInv PROVE InventoryBounded
    OBVIOUS
  <2>1. run \in MmCaptures /\ mm.inv \in Int /\ "Buy" \in Sides /\ "Sell" \in Sides
    BY DEF MmInv, States, Sides
  <2>2. Most \in Nat
    BY <2>1, SizeFacts, MmAssumption
  <2>3. /\ QuoteOK(quote["Buy"]) /\ QuoteOK(quote["Sell"])
        /\ mm.inv + Open(quote["Buy"]) + Coming(quote["Buy"]) =< Most
        /\ Open(quote["Sell"]) + Coming(quote["Sell"]) - mm.inv =< Most
    BY <2>1 DEF MmInv, Bounded
  <2>4. /\ Open(quote["Buy"]) \in Nat /\ Coming(quote["Buy"]) \in Nat
        /\ Open(quote["Sell"]) \in Nat /\ Coming(quote["Sell"]) \in Nat
    BY <2>1, <2>3, OpenFacts, MmAssumption
  <2>5. mm.inv \in - Most .. Most
    BY <2>1, <2>2, <2>3, <2>4
  <2> QED
    BY <2>5 DEF InventoryBounded, Most
<1> QED
  BY <1>1, MmStart, MmStep, PTL DEF MmSpec

-----------------------------------------------------------------------------
(* The place of a quote in the queue.  Between two updates the mirror      *)
(* shows more lots on its level than there are: those that traded, which   *)
(* the simulation knows of, and those that were cancelled, which it will   *)
(* take off the queue ahead in any part.  The estimate less all of the     *)
(* cancelled ones is still no further forward than the bound says.         *)

PlaceOK(pl) ==
    /\ pl = [ahead |-> pl.ahead, over |-> pl.over, under |-> pl.under]
    /\ pl.ahead \in Nat /\ pl.over \in Nat /\ pl.under \in Nat

\* A quote with est lots ahead in the simulation, and k in the queue of ven lots;
\* over and under bound its error, and tr lots traded since the mirror saw seen.
Near(est, tr, k, over, under, seen, ven) ==
    /\ k =< ven
    /\ est =< k + over
    /\ k =< under \/ (k - under =< est /\ k - under + (seen - tr - ven) =< est)

\* Quote q is in place pl, on a level with ven lots of which the mirror has seen.
InQueue(q, pl, seen, ven) ==
    q.active => Near(q.ahead, q.traded, pl.ahead, pl.over, pl.under, seen, ven)

\* A place behind which n lots are traded at px.
Advanced(pl, at, px, n) == [pl EXCEPT !.ahead = IF at = px THEN @ - Least(@, n) ELSE @]

\* The lots on the level at, before and after a trade of n at px.  A price
\* outside the band has no lots.
TradedTo(ven, new, at, px, n) ==
    /\ px = at => new = ven - n \/ (ven = 0 /\ new = 0)
    /\ px # at => new = ven

QueueInv ==
    /\ place = [s \in Sides |-> place[s]]
    /\ \A s \in Sides : PlaceOK(place[s])
    /\ ~run.optimistic =>
         \A s \in Sides : InQueue(quote[s], place[s], QtyAt(seenBook, s, quote[s].px),
                                  QtyAt(venue, s, quote[s].px))

\* process_pending: a quote that changes is gone, or live at the price it waited for.
LEMMA EffectiveShape ==
    ASSUME NEW s, NEW t, NEW q, QuoteOK(q), NEW e, e = Effective(q, s, t)
    PROVE  \/ e = q
           \/ ~e.active
           \/ /\ q.pending /\ e.active /\ ~e.pending /\ e.traded = 0
              /\ e.ahead = QtyAt(seenBook, s, e.px)
<1> DEFINE gone == [q EXCEPT !.active = FALSE, !.pending = FALSE, !.pendPx = NoPx]
<1>1. gone = [active |-> FALSE, px |-> q.px, remaining |-> q.remaining, ahead |-> q.ahead,
              traded |-> q.traded, pending |-> FALSE, pendPx |-> NoPx, eff |-> q.eff]
  <2>1. PICK a, px, n, m, tr, p, pp, x :
           q = [active |-> a, px |-> px, remaining |-> n, ahead |-> m,
                traded |-> tr, pending |-> p, pendPx |-> pp, eff |-> x]
    BY DEF QuoteOK
  <2>2. PICK g : g = gone
    OBVIOUS
  <2>3. g = [active |-> FALSE, px |-> px, remaining |-> n, ahead |-> m,
             traded |-> tr, pending |-> FALSE, pendPx |-> NoPx, eff |-> x]
    BY <2>1, <2>2
  <2>4. /\ q.px = px /\ q.remaining = n /\ q.ahead = m /\ q.traded = tr /\ q.eff = x
    BY <2>1
  <2> HIDE DEF gone
  <2> QED
    BY <2>2, <2>3, <2>4
<1>2. CASE e = gone
  <2> HIDE DEF gone
  <2> QED
    BY <1>1, <1>2
<1>3. CASE /\ q.pending
           /\ e = [gone EXCEPT !.active = TRUE, !.px = q.pendPx, !.remaining = run.size,
                               !.ahead = QtyAt(seenBook, s, q.pendPx), !.traded = 0]
  <2>1. PICK n, w, z : n = QtyAt(seenBook, s, q.pendPx) /\ w = q.pendPx /\ z = run.size
    OBVIOUS
  <2>2. e = [gone EXCEPT !.active = TRUE, !.px = w, !.remaining = z, !.ahead = n, !.traded = 0]
    BY <1>3, <2>1
  <2> HIDE DEF gone
  <2>3. e.active /\ ~e.pending /\ e.traded = 0 /\ e.ahead = n /\ e.px = w
    BY <1>1, <2>2
  <2> QED
    BY <1>3, <2>1, <2>3
<1> QED
  BY <1>2, <1>3 DEF Effective

\* A quote that goes live joins behind its level.
LEMMA EffectiveJoins ==
    ASSUME NEW s \in Sides, NEW t, NEW q, QuoteOK(q), NEW live, NEW e, e = live[s],
           e = Effective(q, s, t), q = quote[s], venue \in Totals, seenBook \in Totals,
           InQueue(q, place[s], QtyAt(seenBook, s, q.px), QtyAt(venue, s, q.px))
    PROVE  InQueue(e, Placed(s, live), QtyAt(seenBook, s, e.px), QtyAt(venue, s, e.px))
<1>1. CASE e = q
  <2>1. Placed(s, live) = place[s]
    BY <1>1 DEF Placed
  <2> QED
    BY <1>1, <2>1
<1>2. CASE ~e.active
  BY <1>2 DEF InQueue
<1>3. CASE /\ q.pending /\ e.active /\ ~e.pending /\ e.traded = 0
           /\ e.ahead = QtyAt(seenBook, s, e.px)
  <2> DEFINE n == QtyAt(seenBook, s, e.px)
             lots == QtyAt(venue, s, e.px)
  <2>1. n \in Nat /\ lots \in Nat
    BY QtyAtFacts
  <2>2. Placed(s, live) = [ahead |-> lots, over |-> n - Least(n, lots), under |-> lots - Least(n, lots)]
    BY <1>3 DEF Placed
  <2>3. e.ahead = n /\ e.traded = 0
    BY <1>3
  <2> HIDE DEF n, lots
  <2>4. PICK o, u : o = n - Least(n, lots) /\ u = lots - Least(n, lots)
    OBVIOUS
  <2>5. Placed(s, live).ahead = lots /\ Placed(s, live).over = o /\ Placed(s, live).under = u
    BY <2>2, <2>4
  <2>6. Near(n, 0, lots, o, u, n, lots)
    BY <2>1, <2>4 DEF Near, Least
  <2>7. InQueue(e, Placed(s, live), n, lots)
    BY <2>3, <2>5, <2>6 DEF InQueue
  <2> QED
    BY <2>7 DEF n, lots
<1> QED
  BY <1>1, <1>2, <1>3, EffectiveShape

\* QuoteLogic::on_trade: a trade on the level takes from the front.
LEMMA TradeTakesFront ==
    ASSUME ~run.optimistic, NEW s, NEW px, NEW n \in Nat, NEW q, QuoteOK(q),
           NEW pl, PlaceOK(pl), NEW seen \in Nat, NEW ven \in Nat, InQueue(q, pl, seen, ven),
           NEW e, e = OnTrade(q, s, px, n), NEW new \in Nat,
           TradedTo(ven, new, q.px, px, n),
           NEW nl, nl = Advanced(pl, q.px, px, n)
    PROVE  e.px = q.px /\ PlaceOK(nl) /\ InQueue(e, nl, seen, new)
<1>1. PICK a, o, u : /\ pl = [ahead |-> a, over |-> o, under |-> u]
                     /\ a \in Nat /\ o \in Nat /\ u \in Nat
                     /\ pl.ahead = a /\ pl.over = o /\ pl.under = u
  BY DEF PlaceOK
<1>2. PICK c : c = (IF q.px = px THEN a - Least(a, n) ELSE a)
  OBVIOUS
<1>3. nl = [ahead |-> c, over |-> o, under |-> u] /\ c \in Nat
  BY <1>1, <1>2 DEF Least, Advanced
<1>4. PlaceOK(nl) /\ nl.ahead = c /\ nl.over = o /\ nl.under = u
  BY <1>1, <1>3 DEF PlaceOK
<1>5. PICK v, p0, r0, m, tr, p, pp, x :
         /\ q = [active |-> v, px |-> p0, remaining |-> r0, ahead |-> m,
                 traded |-> tr, pending |-> p, pendPx |-> pp, eff |-> x]
         /\ q.active = v /\ q.px = p0 /\ q.ahead = m /\ q.traded = tr /\ q.remaining = r0
         /\ m \in Nat /\ tr \in Nat /\ r0 \in Nat
  BY DEF QuoteOK
<1> DEFINE through == IF s = "Buy" THEN px < q.px ELSE px > q.px
           consumed == Least(q.ahead, n)
           filled == IF through THEN q.remaining
                     ELSE Least(q.remaining, IF run.optimistic THEN n ELSE n - consumed)
           queue == [q EXCEPT !.ahead = @ - consumed, !.traded = @ + n]
<1>6. CASE ~q.active \/ (~through /\ px # q.px)
  <2>1. e = q
    BY <1>6 DEF OnTrade
  <2>2. InQueue(q, nl, seen, new)
    <3>1. CASE ~q.active
      BY <3>1 DEF InQueue
    <3>2. CASE px # q.px
      BY <1>1, <1>2, <1>4, <3>2 DEF InQueue, TradedTo
    <3> QED
      BY <1>6, <3>1, <3>2
  <2> QED
    BY <1>4, <2>1, <2>2
<1>7. CASE through /\ q.active
  <2>1. e = [q EXCEPT !.remaining = @ - filled, !.active = q.remaining > filled] /\ filled = q.remaining
    BY <1>7 DEF OnTrade
  <2> HIDE DEF filled
  <2>2. ~(q.remaining > filled)
    BY <1>5, <2>1
  <2>3. ~e.active /\ e.px = q.px
    BY <1>5, <2>1, <2>2
  <2> QED
    BY <1>4, <2>3 DEF InQueue
<1>8. CASE q.active /\ ~through /\ px = q.px
  <2>1. e = [queue EXCEPT !.remaining = @ - filled, !.active = q.remaining > filled]
    BY <1>8 DEF OnTrade
  <2>2. PICK f, g : f = filled /\ g = consumed
    OBVIOUS
  <2>3. e.px = p0 /\ e.ahead = m - g /\ e.traded = tr + n
    <3>1. e = [[q EXCEPT !.ahead = @ - g, !.traded = @ + n]
                 EXCEPT !.remaining = @ - f, !.active = q.remaining > f]
      BY <2>1, <2>2
    <3> HIDE DEF filled, consumed, queue
    <3> QED
      BY <1>5, <3>1
  <2>4. g = Least(m, n)
    BY <1>5, <2>2
  <2> HIDE DEF filled, consumed, queue, through
  <2>5. e.px = q.px
    BY <1>5, <2>3
  <2>6. InQueue(e, nl, seen, new)
    <3>1. Near(m, tr, a, o, u, seen, ven)
      BY <1>1, <1>5, <1>8 DEF InQueue
    <3>2. c = a - Least(a, n) /\ (new = ven - n \/ (ven = 0 /\ new = 0))
      BY <1>2, <1>8 DEF TradedTo
    <3>3. Near(m - g, tr + n, c, o, u, seen, new)
      BY <1>1, <1>5, <2>4, <3>1, <3>2 DEF Least, Near
    <3> QED
      BY <1>4, <2>3, <3>3 DEF InQueue
  <2> QED
    BY <1>4, <2>5, <2>6
<1> QED
  BY <1>6, <1>7, <1>8

\* QuoteLogic::on_level_change: no more than the rest that the trades do not
\* explain comes off the queue ahead.
LEMMA UpdateKeepsPlace ==
    ASSUME NEW q, QuoteOK(q), NEW pl, PlaceOK(pl), NEW seen \in Nat, NEW ven \in Nat,
           InQueue(q, pl, seen, ven), NEW e \in LevelChanges(q, seen, ven)
    PROVE  e.px = q.px /\ InQueue(e, pl, ven, ven)
<1>1. CASE ~q.active
  <2>1. e = q
    BY <1>1 DEF LevelChanges
  <2> QED
    BY <1>1, <2>1 DEF InQueue
<1>2. CASE q.active
  <2> DEFINE explained == Least(seen - ven, q.traded)
             base == seen - explained
             h == Least(q.ahead, base)
             shrinks == ven < seen /\ ven < base /\ base > 0
             Taken == IF shrinks THEN Split(h, base - h, base - ven) ELSE {0}
  <2>1. PICK n \in Taken : e = [q EXCEPT !.ahead = Least(@ - n, ven), !.traded = 0]
    BY <1>2 DEF LevelChanges
  <2>2. PICK k : k = Least(q.ahead - n, ven)
    OBVIOUS
  <2>3. e.px = q.px /\ e.ahead = k /\ e.traded = 0 /\ e.active
    <3>1. PICK v, p0, r0, m, tr, p, pp, x :
             /\ q = [active |-> v, px |-> p0, remaining |-> r0, ahead |-> m,
                     traded |-> tr, pending |-> p, pendPx |-> pp, eff |-> x]
             /\ q.px = p0 /\ q.ahead = m /\ q.active = v
      BY DEF QuoteOK
    <3>2. e = [q EXCEPT !.ahead = k, !.traded = 0]
      BY <2>1, <2>2, <3>1
    <3> QED
      BY <1>2, <3>1, <3>2
  <2>4. PICK est, tr, a, o, u : /\ est = q.ahead /\ tr = q.traded
                                /\ a = pl.ahead /\ o = pl.over /\ u = pl.under
    OBVIOUS
  <2>5. /\ est \in Nat /\ tr \in Nat /\ a \in Nat /\ o \in Nat /\ u \in Nat
        /\ Near(est, tr, a, o, u, seen, ven)
    BY <1>2, <2>4 DEF InQueue, QuoteOK, PlaceOK
  <2>6. /\ n \in Nat /\ n =< est
        /\ n = 0 \/ n =< seen - tr - ven
    <3>1. CASE ~shrinks
      BY <2>1, <2>5, <3>1
    <3>2. CASE shrinks
      <4>1. PICK b, x : b = base /\ x = h
        OBVIOUS
      <4>2. n \in Split(x, b - x, b - ven)
        BY <2>1, <3>2, <4>1
      <4>3. b \in Nat /\ ven < b /\ b = seen - Least(seen - ven, tr) /\ x = Least(est, b) /\ ven < seen
        BY <2>4, <2>5, <3>2, <4>1 DEF Least
      <4>4. n = 0 \/ n \in 0 .. Least(x, b - ven) \/ n = Least(x, b - ven)
        BY <4>2 DEF Split
      <4>5. b - ven = seen - tr - ven
        BY <2>5, <4>3 DEF Least
      <4> QED
        BY <2>5, <4>3, <4>4, <4>5 DEF Least
    <3> QED
      BY <3>1, <3>2
  <2>7. k = Least(est - n, ven)
    BY <2>2, <2>4
  <2>8. Near(k, 0, a, o, u, ven, ven)
    BY <2>5, <2>6, <2>7 DEF Near, Least
  <2> QED
    BY <2>3, <2>4, <2>8 DEF InQueue
<1> QED
  BY <1>1, <1>2 DEF QuoteOK

\* The decision leaves the live quote where it is.
LEMMA RequoteKeepsPlace ==
    ASSUME NEW q, QuoteOK(q), NEW want, NEW t, NEW e, e = Requoted(q, want, t),
           NEW pl, NEW seen, NEW ven, InQueue(q, pl, seen, ven)
    PROVE  e.px = q.px /\ InQueue(e, pl, seen, ven)
<1>1. e.px = q.px /\ e.active = q.active /\ e.ahead = q.ahead /\ e.traded = q.traded
  <2>1. CASE e = q
    BY <2>1
  <2>2. CASE e = [q EXCEPT !.pendPx = want]
    BY <2>2 DEF QuoteOK
  <2>3. CASE e = [q EXCEPT !.pending = TRUE, !.pendPx = want, !.eff = t + run.latency]
    BY <2>3 DEF QuoteOK
  <2> QED
    BY <2>1, <2>2, <2>3 DEF Requoted
<1> QED
  BY <1>1 DEF InQueue

\* What a quote's history says of its place, once what was due went live.
LEMMA PlacedFacts ==
    ASSUME NEW s \in Sides, NEW live, PlaceOK(place[s]), venue \in Totals, seenBook \in Totals
    PROVE  PlaceOK(Placed(s, live))
<1>1. PICK n, k : n = QtyAt(venue, s, live[s].px) /\ k = QtyAt(seenBook, s, live[s].px)
  OBVIOUS
<1>2. n \in Nat /\ k \in Nat
  BY <1>1, QtyAtFacts
<1>3. PICK o, u : o = k - Least(k, n) /\ u = n - Least(k, n)
  OBVIOUS
<1>4. o \in Nat /\ u \in Nat
  BY <1>2, <1>3 DEF Least
<1>5. Placed(s, live) = place[s] \/ Placed(s, live) = [ahead |-> n, over |-> o, under |-> u]
  BY <1>1, <1>3 DEF Placed
<1>6. PlaceOK([ahead |-> n, over |-> o, under |-> u])
  BY <1>2, <1>4 DEF PlaceOK
<1> QED
  BY <1>5, <1>6

\* The quotes of a record are in the places of their history.
LEMMA LiveInQueue ==
    ASSUME MmAssumption, MmInv, QueueInv, ~run.optimistic, NEW t, NEW live,
           live = [s \in Sides |-> Effective(quote[s], s, t)], NEW s \in Sides
    PROVE  InQueue(live[s], Placed(s, live), QtyAt(seenBook, s, live[s].px),
                   QtyAt(venue, s, live[s].px))
<1>1. venue \in Totals /\ seenBook \in Totals
  BY DEF MmInv
<1>2. PICK q, e : q = quote[s] /\ e = live[s]
  OBVIOUS
<1>3. QuoteOK(q) /\ e = Effective(q, s, t)
  BY <1>2 DEF MmInv, Bounded
<1>4. InQueue(q, place[s], QtyAt(seenBook, s, q.px), QtyAt(venue, s, q.px))
  BY <1>2 DEF QueueInv
<1>5. InQueue(e, Placed(s, live), QtyAt(seenBook, s, e.px), QtyAt(venue, s, e.px))
  BY <1>1, <1>2, <1>3, <1>4, EffectiveJoins
<1> QED
  BY <1>2, <1>5

\* A trade record.
LEMMA TradeRecordPlace ==
    ASSUME MmAssumption, MaxQty \in Nat, MmInv, MmInv', QueueInv, NEW side \in Sides,
           NEW qty \in 1 .. MaxQty, NEW t \in Nat, TradeRecord(side, qty, t)
    PROVE  QueueInv'
<1>1. PICK px : px = IF side = "Buy" THEN BestBidOf(venue) ELSE BestAskOf(venue)
  OBVIOUS
<1>2. PICK live : live = [s \in Sides |-> Effective(quote[s], s, t)]
  OBVIOUS
<1>3. PICK placed : placed = [s \in Sides |-> Placed(s, live)]
  OBVIOUS
<1>4. /\ qty =< venue[side][px] /\ venue' = [venue EXCEPT ![side][px] = @ - qty]
      /\ quote' = [live EXCEPT ![side] = OnTrade(@, side, px, qty)]
      /\ place' = [placed EXCEPT ![side].ahead = IF live[side].px = px THEN @ - Least(@, qty) ELSE @]
      /\ run' = run /\ seenBook' = seenBook
  BY <1>1, <1>2, <1>3 DEF TradeRecord
<1>5. /\ venue \in Totals /\ seenBook \in Totals /\ venue' \in Totals /\ qty \in Nat
  BY DEF MmInv
<1>6. PICK nv, nq, np : nv = venue' /\ nq = quote' /\ np = place'
  OBVIOUS
<1>7. np = [s \in Sides |-> np[s]]
  BY <1>3, <1>4, <1>6
<1>8. ASSUME NEW s \in Sides PROVE PlaceOK(placed[s])
  <2>1. PlaceOK(place[s])
    BY DEF QueueInv
  <2>2. PlaceOK(Placed(s, live))
    BY <1>5, <2>1, PlacedFacts
  <2> QED
    BY <1>3, <2>2
<1>9. ASSUME NEW s \in Sides, s # side
      PROVE  np[s] = placed[s] /\ nq[s] = live[s]
  BY <1>2, <1>3, <1>4, <1>6, <1>9
<1>10. PICK q, pl, e, nl : q = live[side] /\ pl = placed[side] /\ e = nq[side] /\ nl = np[side]
  OBVIOUS
<1>11. e = OnTrade(q, side, px, qty)
  BY <1>2, <1>4, <1>6, <1>10
<1>12. nl = Advanced(pl, q.px, px, qty)
  BY <1>3, <1>4, <1>6, <1>10 DEF Advanced
<1>13. QuoteOK(q) /\ PlaceOK(pl)
  <2>1. Bounded(mm.inv, live)
    BY <1>2, LiveFacts
  <2> QED
    BY <1>8, <1>10, <2>1 DEF Bounded
<1>14. PlaceOK(nl)
  <2>1. PICK a, o, u : /\ pl = [ahead |-> a, over |-> o, under |-> u]
                       /\ a \in Nat /\ o \in Nat /\ u \in Nat
    BY <1>13 DEF PlaceOK
  <2>2. PICK c : c = (IF q.px = px THEN a - Least(a, qty) ELSE a)
    OBVIOUS
  <2>3. c \in Nat
    BY <1>5, <2>1, <2>2 DEF Least
  <2>4. nl = [ahead |-> c, over |-> o, under |-> u]
    BY <1>12, <2>1, <2>2 DEF Advanced
  <2> QED
    BY <2>1, <2>3, <2>4 DEF PlaceOK
<1>15. \A s \in Sides : PlaceOK(np[s])
  BY <1>8, <1>9, <1>10, <1>14
<1> PICK ov : ov = venue
  OBVIOUS
<1>16. /\ ov \in Totals /\ nv \in Totals /\ qty =< ov[side][px]
       /\ nv = [ov EXCEPT ![side][px] = @ - qty]
  BY <1>4, <1>5, <1>6
<1>17. ASSUME NEW s \in Sides, s # side, NEW at PROVE QtyAt(nv, s, at) = QtyAt(ov, s, at)
  BY <1>16, <1>17 DEF QtyAt, Totals
<1>18. ASSUME NEW at PROVE TradedTo(QtyAt(ov, side, at), QtyAt(nv, side, at), at, px, qty)
  <2>1. px # at => QtyAt(nv, side, at) = QtyAt(ov, side, at)
    BY <1>16 DEF QtyAt, Totals
  <2>2. px = at /\ px \in Prices => QtyAt(nv, side, at) = QtyAt(ov, side, at) - qty
    BY <1>16 DEF QtyAt, Totals
  <2>3. at \notin Prices => QtyAt(ov, side, at) = 0 /\ QtyAt(nv, side, at) = 0
    BY DEF QtyAt
  <2> QED
    BY <2>1, <2>2, <2>3 DEF TradedTo
<1>19. ASSUME ~run.optimistic, NEW s \in Sides
       PROVE  InQueue(nq[s], np[s], QtyAt(seenBook, s, nq[s].px), QtyAt(nv, s, nq[s].px))
  <2>1. InQueue(live[s], placed[s], QtyAt(seenBook, s, live[s].px), QtyAt(venue, s, live[s].px))
    BY <1>2, <1>3, <1>19, LiveInQueue
  <2>2. CASE s # side
    <3>1. QtyAt(nv, s, live[s].px) = QtyAt(venue, s, live[s].px)
      BY <1>17, <2>2
    <3> QED
      BY <1>9, <2>1, <2>2, <3>1
  <2>3. CASE s = side
    <3>1. PICK seen, ven, new : /\ seen = QtyAt(seenBook, s, q.px) /\ ven = QtyAt(venue, s, q.px)
                                /\ new = QtyAt(nv, s, q.px)
      OBVIOUS
    <3>2. seen \in Nat /\ ven \in Nat /\ new \in Nat
      BY <1>5, <1>6, <3>1, QtyAtFacts
    <3>3. TradedTo(ven, new, q.px, px, qty)
      BY <1>18, <2>3, <3>1
    <3>4. InQueue(q, pl, seen, ven)
      BY <1>10, <2>1, <2>3, <3>1
    <3>5. e.px = q.px /\ InQueue(e, nl, seen, new)
      BY <1>5, <1>11, <1>12, <1>13, <1>19, <3>2, <3>3, <3>4, TradeTakesFront
    <3> QED
      BY <1>10, <2>3, <3>1, <3>5
  <2> QED
    BY <2>2, <2>3
<1> QED
  BY <1>4, <1>6, <1>7, <1>15, <1>19 DEF QueueInv

\* A book update.
LEMMA DiffRecordPlace ==
    ASSUME MmAssumption, MmInv, QueueInv, NEW t \in Nat, DiffRecord(t)
    PROVE  QueueInv'
<1> DEFINE Met(s, q) == IF q.active /\ WouldTake(venue, s, q.px)
                        THEN [q EXCEPT !.remaining = 0, !.active = FALSE] ELSE q
           live == [s \in Sides |-> Effective(quote[s], s, t)]
<1>1. live = [s \in Sides |-> Effective(quote[s], s, t)]
  OBVIOUS
<1>2. PICK bid \in LevelChanges(live["Buy"], QtyAt(seenBook, "Buy", live["Buy"].px),
                                QtyAt(venue, "Buy", live["Buy"].px)),
           ask \in LevelChanges(live["Sell"], QtyAt(seenBook, "Sell", live["Sell"].px),
                                QtyAt(venue, "Sell", live["Sell"].px)),
           target \in Targets(venue) :
        LET met == [Buy |-> Met("Buy", bid), Sell |-> Met("Sell", ask)]
            inv == mm.inv + Bought(live, met)
        IN  /\ quote' = IF t < run.warmup THEN met
                        ELSE [s \in Sides |-> Requoted(met[s], Capped(inv, s, target[s]), t)]
            /\ mm' = [mm EXCEPT !.inv = inv, !.now = t, !.records = @ + 1]
  BY DEF DiffRecord
<1>3. place' = [s \in Sides |-> Placed(s, live)]
  BY DEF DiffRecord
<1> HIDE DEF live
<1>4. PICK met : met = [Buy |-> Met("Buy", bid), Sell |-> Met("Sell", ask)]
  OBVIOUS
<1>5. PICK sum : sum = mm.inv + Bought(live, met)
  OBVIOUS
<1>6. PICK next : next = [s \in Sides |-> Requoted(met[s], Capped(sum, s, target[s]), t)]
  OBVIOUS
<1>7. quote' = met \/ quote' = next
  <2> HIDE DEF Met
  <2> QED
    BY <1>2, <1>4, <1>5, <1>6
<1>8. run' = run /\ venue' = venue /\ seenBook' = venue
  BY DEF DiffRecord
<1>9. run \in MmCaptures /\ venue \in Totals /\ seenBook \in Totals
  BY DEF MmInv
<1>10. Bounded(mm.inv, live)
  BY <1>1, LiveFacts
<1>11. ASSUME NEW s \in Sides PROVE PlaceOK(Placed(s, live))
  <2>1. PlaceOK(place[s])
    BY DEF QueueInv
  <2> QED
    BY <1>9, <2>1, PlacedFacts
\* One side: the level changes, and the quote may be met.
<1>12. ASSUME ~run.optimistic, NEW s \in Sides, NEW q, q = live[s],
              NEW e \in LevelChanges(q, QtyAt(seenBook, s, q.px), QtyAt(venue, s, q.px)),
              NEW m, m = Met(s, e)
       PROVE  QuoteOK(m) /\ InQueue(m, Placed(s, live), QtyAt(venue, s, m.px), QtyAt(venue, s, m.px))
  <2>1. QuoteOK(q)
    BY <1>10, <1>12 DEF Bounded
  <2>2. PICK a, b : a = QtyAt(venue, s, q.px) /\ b = QtyAt(seenBook, s, q.px)
    OBVIOUS
  <2>3. a \in Nat /\ b \in Nat
    BY <1>9, <2>2, QtyAtFacts
  <2>4. InQueue(q, Placed(s, live), b, a)
    BY <1>1, <1>12, <2>2, LiveInQueue
  <2>5. e \in LevelChanges(q, b, a)
    BY <2>2
  <2>6. e.px = q.px /\ InQueue(e, Placed(s, live), a, a)
    BY <1>11, <2>1, <2>3, <2>4, <2>5, UpdateKeepsPlace
  <2>7. QuoteOK(e)
    BY <1>9, <2>1, <2>3, <2>5, LevelFills DEF Filled
  <2>8. CASE m = e
    BY <2>2, <2>6, <2>7, <2>8
  <2>9. CASE e.active /\ m = [e EXCEPT !.remaining = 0, !.active = FALSE]
    <3>1. QuoteOK(m)
      BY <1>9, <2>7, <2>9, FullFill DEF Filled
    <3>2. ~m.active
      BY <2>7, <2>9 DEF QuoteOK
    <3> QED
      BY <3>1, <3>2 DEF InQueue
  <2> QED
    BY <1>12, <2>8, <2>9
<1>13. ASSUME ~run.optimistic, NEW s \in Sides
       PROVE  QuoteOK(met[s]) /\ InQueue(met[s], Placed(s, live), QtyAt(venue, s, met[s].px),
                                         QtyAt(venue, s, met[s].px))
  <2>1. PICK q, m : q = live[s] /\ m = met[s]
    OBVIOUS
  <2>2. CASE s = "Buy"
    <3>1. m = Met(s, bid)
      BY <1>4, <2>1, <2>2
    <3>2. bid \in LevelChanges(q, QtyAt(seenBook, s, q.px), QtyAt(venue, s, q.px))
      BY <2>1, <2>2
    <3> HIDE DEF Met
    <3> QED
      BY <1>12, <1>13, <2>1, <3>1, <3>2
  <2>3. CASE s = "Sell"
    <3>1. m = Met(s, ask)
      BY <1>4, <2>1, <2>3
    <3>2. ask \in LevelChanges(q, QtyAt(seenBook, s, q.px), QtyAt(venue, s, q.px))
      BY <2>1, <2>3
    <3> HIDE DEF Met
    <3> QED
      BY <1>12, <1>13, <2>1, <3>1, <3>2
  <2> QED
    BY <2>2, <2>3 DEF Sides
<1>14. ASSUME ~run.optimistic, NEW s \in Sides
       PROVE  InQueue(next[s], Placed(s, live), QtyAt(venue, s, next[s].px), QtyAt(venue, s, next[s].px))
  <2>1. PICK q, e, want : q = met[s] /\ e = next[s] /\ want = Capped(sum, s, target[s])
    OBVIOUS
  <2>2. e = Requoted(q, want, t)
    BY <1>6, <2>1
  <2>3. QuoteOK(q) /\ InQueue(q, Placed(s, live), QtyAt(venue, s, q.px), QtyAt(venue, s, q.px))
    BY <1>13, <1>14, <2>1
  <2>4. e.px = q.px /\ InQueue(e, Placed(s, live), QtyAt(venue, s, q.px), QtyAt(venue, s, q.px))
    BY <2>2, <2>3, RequoteKeepsPlace
  <2> QED
    BY <2>1, <2>4
<1>15. PICK nq, np : nq = quote' /\ np = place'
  OBVIOUS
<1>16. np = [s \in Sides |-> np[s]] /\ \A s \in Sides : np[s] = Placed(s, live)
  BY <1>3, <1>15
<1>17. \A s \in Sides : PlaceOK(np[s])
  BY <1>11, <1>16
<1>18. ASSUME ~run.optimistic, NEW s \in Sides
       PROVE  InQueue(nq[s], np[s], QtyAt(venue, s, nq[s].px), QtyAt(venue, s, nq[s].px))
  <2>1. CASE nq = met
    BY <1>13, <1>16, <1>18, <2>1
  <2>2. CASE nq = next
    BY <1>14, <1>16, <1>18, <2>2
  <2> QED
    BY <1>7, <1>15, <2>1, <2>2
<1> QED
  BY <1>8, <1>15, <1>16, <1>17, <1>18 DEF QueueInv

\* Orders that join stand behind the quote.
LEMMA MoreJoin ==
    ASSUME NEW q, QuoteOK(q), NEW pl, PlaceOK(pl), NEW seen \in Nat, NEW ven \in Nat,
           NEW new \in Nat, new >= ven
    PROVE  InQueue(q, pl, seen, ven) => InQueue(q, pl, seen, new)
<1>1. PICK est, tr, a, o, u : /\ est = q.ahead /\ tr = q.traded
                              /\ a = pl.ahead /\ o = pl.over /\ u = pl.under
  OBVIOUS
<1>2. est \in Nat /\ tr \in Nat /\ a \in Nat /\ o \in Nat /\ u \in Nat
  BY <1>1 DEF QuoteOK, PlaceOK
<1>3. Near(est, tr, a, o, u, seen, ven) => Near(est, tr, a, o, u, seen, new)
  BY <1>2 DEF Near
<1> QED
  BY <1>1, <1>3 DEF InQueue

\* Lots leave the level, ahead of the quote or behind it.
LEMMA SomeLeave ==
    ASSUME NEW q, QuoteOK(q), NEW pl, PlaceOK(pl), NEW seen \in Nat, NEW ven \in Nat,
           NEW new \in Nat, new < ven, NEW nl \in Leaving(pl, ven, ven - new)
    PROVE  PlaceOK(nl) /\ (InQueue(q, pl, seen, ven) => InQueue(q, nl, seen, new))
<1>1. PICK est, tr, a, o, u : /\ est = q.ahead /\ tr = q.traded
                              /\ a = pl.ahead /\ o = pl.over /\ u = pl.under
  OBVIOUS
<1>2. est \in Nat /\ tr \in Nat /\ a \in Nat /\ o \in Nat /\ u \in Nat
  BY <1>1 DEF QuoteOK, PlaceOK
<1>3. pl = [ahead |-> a, over |-> o, under |-> u]
  BY <1>1 DEF PlaceOK
<1>4. PICK k \in {x \in 0 .. Least(a, ven - new) : ven - new - x =< ven - a} :
         nl = [pl EXCEPT !.ahead = @ - k, !.over = @ + k, !.under = @ + (ven - new - k)]
  BY <1>1 DEF Leaving
<1>5. k \in Nat /\ k =< a /\ k =< ven - new /\ a - k =< new
  BY <1>2, <1>4 DEF Least
<1>6. PICK b, c, d : b = a - k /\ c = o + k /\ d = u + (ven - new - k)
  OBVIOUS
<1>7. nl = [ahead |-> b, over |-> c, under |-> d]
  BY <1>3, <1>4, <1>6
<1>8. b \in Nat /\ c \in Nat /\ d \in Nat
  BY <1>2, <1>5, <1>6
<1>9. PlaceOK(nl) /\ nl.ahead = b /\ nl.over = c /\ nl.under = d
  BY <1>7, <1>8 DEF PlaceOK
<1>10. Near(est, tr, a, o, u, seen, ven) => Near(est, tr, b, c, d, seen, new)
  BY <1>2, <1>5, <1>6 DEF Near
<1> QED
  BY <1>1, <1>9, <1>10 DEF InQueue

\* Orders join a level or are cancelled.
LEMMA ElsewherePlace ==
    ASSUME MmAssumption, MmInv, MmInv', QueueInv, Elsewhere
    PROVE  QueueInv'
<1> DEFINE Ours(move) == /\ quote[move[1]].active /\ quote[move[1]].px = move[2]
                         /\ move[3] < venue[move[1]][move[2]]
           Places(move) ==
               IF Ours(move)
               THEN {pl \in Leaving(place[move[1]], venue[move[1]][move[2]],
                                    venue[move[1]][move[2]] - move[3]) :
                        pl.over + pl.under =< run.cancelled}
               ELSE {place[move[1]]}
<1>1. PICK move \in run.moves :
         /\ venue' = [venue EXCEPT ![move[1]][move[2]] = move[3]]
         /\ \E pl \in Places(move) : place' = [place EXCEPT ![move[1]] = pl]
  BY DEF Elsewhere
<1>2. PICK side, px, n, lots : side = move[1] /\ px = move[2] /\ n = move[3] /\ lots = venue[side][px]
  OBVIOUS
<1>3. side \in Sides /\ px \in Prices /\ n \in Nat
  BY <1>2, MmAssumption DEF MmInv, MmAssumption
<1>4. venue \in Totals /\ seenBook \in Totals /\ venue' \in Totals
  BY DEF MmInv
<1>5. PICK nv, np, op, q, pl : /\ nv = venue' /\ np = place' /\ op = place
                               /\ q = quote[side] /\ pl = place[side]
  OBVIOUS
<1>6. PICK nl : /\ np = [op EXCEPT ![side] = nl]
                /\ \/ nl = pl /\ ~(q.active /\ q.px = px /\ n < lots)
                   \/ nl \in Leaving(pl, lots, lots - n) /\ q.px = px /\ n < lots
  BY <1>1, <1>2, <1>5
<1> HIDE DEF Ours, Places
<1>7. run' = run /\ seenBook' = seenBook /\ quote' = quote
  BY DEF Elsewhere
<1>8. op = [s \in Sides |-> op[s]] /\ \A s \in Sides : PlaceOK(op[s])
  BY <1>5 DEF QueueInv
<1>9. np = [s \in Sides |-> np[s]] /\ np[side] = nl /\ \A s \in Sides : s # side => np[s] = op[s]
  BY <1>3, <1>6, <1>8
<1>10. lots \in Nat /\ nv = [venue EXCEPT ![side][px] = n]
  BY <1>1, <1>2, <1>3, <1>4, <1>5 DEF Totals
<1>11. PlaceOK(pl) /\ QuoteOK(q)
  BY <1>3, <1>5, <1>8 DEF MmInv, Bounded
<1>12. PICK seen, ven, new : /\ seen = QtyAt(seenBook, side, q.px)
                             /\ ven = QtyAt(venue, side, q.px) /\ new = QtyAt(nv, side, q.px)
  OBVIOUS
<1>13. seen \in Nat /\ ven \in Nat /\ new \in Nat
  BY <1>3, <1>4, <1>5, <1>12, QtyAtFacts
<1>14. /\ q.px = px => ven = lots /\ new = n
       /\ q.px # px => new = ven
  BY <1>2, <1>3, <1>4, <1>10, <1>12 DEF QtyAt, Totals
<1>15. PlaceOK(nl) /\ (InQueue(q, pl, seen, ven) => InQueue(q, nl, seen, new))
  <2>1. CASE nl = pl /\ ~q.active
    BY <1>11, <2>1 DEF InQueue
  <2>2. CASE nl = pl /\ ~(q.px = px /\ n < lots)
    <3>1. new >= ven
      BY <1>3, <1>10, <1>13, <1>14, <2>2
    <3> QED
      BY <1>11, <1>13, <2>2, <3>1, MoreJoin
  <2>3. CASE nl \in Leaving(pl, lots, lots - n) /\ q.px = px /\ n < lots
    BY <1>3, <1>10, <1>11, <1>13, <1>14, <2>3, SomeLeave
  <2> QED
    BY <1>6, <2>1, <2>2, <2>3
<1>16. \A s \in Sides : PlaceOK(np[s])
  BY <1>8, <1>9, <1>15
<1>17. ASSUME ~run.optimistic, NEW s \in Sides
       PROVE  InQueue(quote[s], np[s], QtyAt(seenBook, s, quote[s].px), QtyAt(nv, s, quote[s].px))
  <2>1. InQueue(quote[s], op[s], QtyAt(seenBook, s, quote[s].px), QtyAt(venue, s, quote[s].px))
    BY <1>5, <1>17 DEF QueueInv
  <2>2. CASE s # side
    <3>1. QtyAt(nv, s, quote[s].px) = QtyAt(venue, s, quote[s].px)
      BY <1>3, <1>4, <1>10, <2>2 DEF QtyAt, Totals
    <3> QED
      BY <1>9, <2>1, <2>2, <3>1
  <2>3. CASE s = side
    <3>1. InQueue(q, pl, seen, ven)
      BY <1>5, <1>12, <2>1, <2>3
    <3>2. InQueue(q, nl, seen, new)
      BY <1>15, <3>1
    <3> QED
      BY <1>5, <1>9, <1>12, <2>3, <3>2
  <2> QED
    BY <2>2, <2>3
<1> QED
  BY <1>5, <1>7, <1>9, <1>16, <1>17 DEF QueueInv

\* mm.hpp:8-10 and 112-129, for every capture, strategy and number of lots: where
\* the simulation has a quote is off by no more than the lots that were cancelled
\* ahead of it, one way, and behind it, the other, however the power rule splits
\* them and however an update sums them up with trades and joins.
THEOREM PlaceErrorIsBounded == MmSpec => []QueueErrorBounded
<1>1. MmInit => QueueInv
  <2> SUFFICES ASSUME MmInit PROVE QueueInv
    OBVIOUS
  <2>1. place = [s \in Sides |-> [ahead |-> 0, over |-> 0, under |-> 0]]
    BY DEF MmInit
  <2>2. place = [s \in Sides |-> place[s]]
    BY <2>1
  <2>3. ASSUME NEW s \in Sides PROVE PlaceOK(place[s]) /\ ~quote[s].active
    BY <2>1 DEF PlaceOK, MmInit, NoQuote
  <2> QED
    BY <2>2, <2>3 DEF QueueInv, InQueue
<1>2. MmInv /\ MmInv' /\ QueueInv /\ [MmNext]_mmVars => QueueInv'
  <2> SUFFICES ASSUME MmInv, MmInv', QueueInv, [MmNext]_mmVars PROVE QueueInv'
    OBVIOUS
  <2>1. mm.now \in Nat /\ mm.now + 1 \in Nat /\ MaxQty \in Nat
    BY BookAssumption DEF MmInv, States, BookAssumption
  <2>2. ASSUME NEW t \in {mm.now, mm.now + 1}, NEW side \in Sides, NEW qty \in 1 .. MaxQty,
               TradeRecord(side, qty, t)
        PROVE  QueueInv'
    BY <2>1, <2>2, TradeRecordPlace, MmAssumption
  <2>3. ASSUME NEW t \in {mm.now, mm.now + 1}, DiffRecord(t) PROVE QueueInv'
    BY <2>1, <2>3, DiffRecordPlace, MmAssumption
  <2>4. CASE Elsewhere
    BY <2>4, ElsewherePlace, MmAssumption
  <2>5. CASE UNCHANGED <<run, venue, seenBook, quote, place>>
    BY <2>5 DEF QueueInv
  <2> QED
    BY <2>2, <2>3, <2>4, <2>5 DEF MmNext, MmEnded, MissingRecord, mmVars
<1>3. MmInv /\ QueueInv => QueueErrorBounded
  <2> SUFFICES ASSUME MmInv, QueueInv, NEW s \in Sides, quote[s].active, ~run.optimistic
               PROVE  quote[s].ahead - place[s].ahead \in - place[s].under .. place[s].over
    BY DEF QueueErrorBounded
  <2>1. PICK est, tr, a, o, u : /\ est = quote[s].ahead /\ tr = quote[s].traded /\ a = place[s].ahead
                                /\ o = place[s].over /\ u = place[s].under
    OBVIOUS
  <2>2. est \in Nat /\ tr \in Nat /\ a \in Nat /\ o \in Nat /\ u \in Nat
    BY <2>1 DEF MmInv, Bounded, QuoteOK, QueueInv, PlaceOK
  <2>3. est =< a + o /\ (a =< u \/ a - u =< est)
    BY <2>1 DEF QueueInv, InQueue, Near
  <2>4. est - a \in - u .. o
    BY <2>2, <2>3
  <2> QED
    BY <2>1, <2>4
<1> QED
  BY <1>1, <1>2, <1>3, MmStart, MmStep, PTL DEF MmSpec

-----------------------------------------------------------------------------
(***************************************************************************)
(* The journal.  A scan depends on the front of the file only: what is     *)
(* worn off or damaged at the end of a file makes the scan read less, and  *)
(* nothing else.                                                           *)
(***************************************************************************)

RecordCells == [rec : Ids, cell : Nat, of : Nat \ {0}]
FileCells == RecordCells \cup {Bad, "EXJR", "version"}

\* Behind the header a file has cells of records, or damaged ones.
File(f) == f \in Seq(FileCells) /\ \A i \in 3 .. Len(f) : f[i] \in RecordCells \cup {Bad}

Headed(f) == Len(f) >= 2 /\ f[1] = "EXJR" /\ f[2] = "version"

\* The scan of f from each place behind the header.
ScanResults == [records : Seq(Ids), valid : Nat]
ScansFrom(f, at, i) ==
    IF i > Len(f) \/ ~WholeAt(f, i) THEN at[i] = [records |-> <<>>, valid |-> i - 1]
    ELSE /\ at[i].records = <<f[i].rec>> \o at[i + f[i].of].records
         /\ at[i].valid = at[i + f[i].of].valid
IsScan(f, at) ==
    /\ at \in [3 .. Len(f) + 1 -> ScanResults]
    /\ \A i \in 3 .. Len(f) + 1 : ScansFrom(f, at, i)

\* The length of a file, and where its cells are from.
LEMMA FileFacts ==
    ASSUME NEW f, File(f)
    PROVE  /\ Len(f) \in Nat /\ f \in Seq(FileCells)
           /\ \A i \in 1 .. Len(f) : f[i] \in FileCells
BY LenProperties, ElementOfSeq DEF File

\* A whole record ends in the file.
LEMMA WholeFacts ==
    ASSUME NEW f, File(f), NEW i \in 3 .. Len(f), WholeAt(f, i)
    PROVE  /\ f[i] \in RecordCells /\ f[i].rec \in Ids /\ f[i].of \in Nat \ {0}
           /\ i + f[i].of \in i + 1 .. Len(f) + 1
<1>1. f[i] \in RecordCells
  BY DEF File, WholeAt
<1>2. f[i].rec \in Ids /\ f[i].of \in Nat \ {0} /\ Len(f) \in Nat
  BY <1>1, FileFacts DEF RecordCells
<1> QED
  BY <1>1, <1>2 DEF WholeAt

\* There is a scan of every file.
LEMMA ScanExists ==
    ASSUME NEW f, File(f), Len(f) >= 2
    PROVE  \E at : IsScan(f, at)
<1>1. Len(f) \in Nat
  BY FileFacts
<1> DEFINE N == Len(f) - 2
           L == Len(f) + 1
           Part(lo, at) == at \in [lo .. L -> ScanResults] /\ \A i \in lo .. L : ScansFrom(f, at, i)
           S == {n \in 0 .. N : \E at : Part(n + 3, at)}
<1>2. N \in Nat /\ L = N + 3
  BY <1>1
<1>3. ASSUME NEW n \in 0 .. N, \A m \in n + 1 .. N : m \in S
      PROVE  n \in S
  <2>1. PICK old : n < N => Part(n + 4, old)
    <3>1. CASE n < N
      <4>1. n + 1 \in S /\ (n + 1) + 3 = n + 4
        BY <1>2, <1>3, <3>1
      <4> HIDE DEF Part
      <4>2. \E at : Part((n + 1) + 3, at)
        BY <4>1
      <4> QED
        BY <4>1, <4>2
    <3> QED
      BY <3>1
  <2> DEFINE i == n + 3
  <2>2. i \in 3 .. L /\ i \in Nat /\ L \in Nat
    BY <1>2
  <2>3. i + 1 = n + 4 /\ (i < L <=> n < N)
    BY <1>2
  <2> DEFINE stop == i > Len(f) \/ ~WholeAt(f, i)
             here == IF stop THEN [records |-> <<>>, valid |-> i - 1]
                     ELSE [records |-> <<f[i].rec>> \o old[i + f[i].of].records,
                           valid |-> old[i + f[i].of].valid]
             at == [j \in i .. L |-> IF j = i THEN here ELSE old[j]]
  <2>4. i < L => old \in [i + 1 .. L -> ScanResults] /\ \A j \in i + 1 .. L : ScansFrom(f, old, j)
    BY <2>1, <2>3
  <2> HIDE DEF i
  <2>5. ASSUME ~stop
        PROVE  /\ i < L /\ i \in 3 .. Len(f) /\ f[i].rec \in Ids /\ f[i].of \in Nat \ {0}
               /\ i + f[i].of \in i + 1 .. L
    <3>1. i \in 3 .. Len(f) /\ WholeAt(f, i)
      BY <1>1, <2>2, <2>5
    <3> QED
      BY <1>1, <3>1, WholeFacts
  <2>6. here \in ScanResults
    <3>1. CASE stop
      <4>1. i - 1 \in Nat /\ <<>> \in Seq(Ids)
        BY <2>2
      <4> QED
        BY <3>1, <4>1 DEF ScanResults
    <3>2. CASE ~stop
      <4>1. PICK k : k = i + f[i].of
        OBVIOUS
      <4>2. old[k] \in ScanResults /\ f[i].rec \in Ids
        BY <2>4, <2>5, <3>2, <4>1
      <4>3. <<f[i].rec>> \o old[k].records \in Seq(Ids) /\ old[k].valid \in Nat
        BY <4>2 DEF ScanResults
      <4> QED
        BY <3>2, <4>1, <4>3 DEF ScanResults
    <3> QED
      BY <3>1, <3>2
  <2>7. at \in [i .. L -> ScanResults]
    <3> SUFFICES ASSUME NEW j \in i .. L PROVE (IF j = i THEN here ELSE old[j]) \in ScanResults
      OBVIOUS
    <3>1. j # i => i < L /\ j \in i + 1 .. L
      BY <2>2
    <3> HIDE DEF here
    <3> QED
      BY <2>4, <2>6, <3>1
  <2>8. at[i] = here /\ \A j \in i + 1 .. L : at[j] = old[j]
    BY <2>2
  <2> HIDE DEF at
  <2>9. ScansFrom(f, at, i)
    <3>1. CASE stop
      BY <2>8, <3>1 DEF ScansFrom
    <3>2. CASE ~stop
      <4>1. PICK k : k = i + f[i].of
        OBVIOUS
      <4>2. at[k] = old[k]
        BY <2>5, <2>8, <3>2, <4>1
      <4>3. at[i].records = <<f[i].rec>> \o old[k].records /\ at[i].valid = old[k].valid
        BY <2>8, <3>2, <4>1
      <4> QED
        BY <3>2, <4>1, <4>2, <4>3 DEF ScansFrom
    <3> QED
      BY <3>1, <3>2
  <2>10. ASSUME NEW j \in i + 1 .. L PROVE ScansFrom(f, at, j)
    <3>1. ScansFrom(f, old, j) /\ at[j] = old[j]
      BY <2>2, <2>4, <2>8
    <3>2. CASE j > Len(f) \/ ~WholeAt(f, j)
      BY <3>1, <3>2 DEF ScansFrom
    <3>3. CASE ~(j > Len(f) \/ ~WholeAt(f, j))
      <4>1. j \in 3 .. Len(f)
        BY <1>1, <2>2, <3>3
      <4>2. j + f[j].of \in j + 1 .. Len(f) + 1
        BY <3>3, <4>1, WholeFacts
      <4>3. j + f[j].of \in i + 1 .. L
        BY <1>1, <2>2, <4>2
      <4>4. at[j + f[j].of] = old[j + f[j].of]
        BY <2>8, <4>3
      <4> QED
        BY <3>1, <3>3, <4>4 DEF ScansFrom
    <3> QED
      BY <3>2, <3>3
  <2>11. Part(i, at)
    <3>1. ASSUME NEW j \in i .. L PROVE ScansFrom(f, at, j)
      <4>1. j = i \/ j \in i + 1 .. L
        BY <2>2
      <4> QED
        BY <2>9, <2>10, <4>1
    <3> QED
      BY <2>7, <3>1
  <2> HIDE DEF Part
  <2> QED
    BY <2>11 DEF i
<1>4. 0 .. N \subseteq S
  <2> HIDE DEF S, N
  <2> QED
    BY <1>2, <1>3, DownFrom
<1>5. PICK at : Part(3, at)
  <2>1. 0 \in S
    <3> HIDE DEF S
    <3> QED
      BY <1>2, <1>4
  <2> HIDE DEF Part
  <2>2. \E at : Part(0 + 3, at)
    BY <2>1
  <2> QED
    BY <2>2
<1> QED
  BY <1>5 DEF IsScan

\* A header, or none.
LEMMA HeaderFacts ==
    ASSUME NEW f, File(f)
    PROVE  Len(f) >= 2 => (Unreadable(f) <=> ~Headed(f))
<1> SUFFICES ASSUME Len(f) >= 2 PROVE Unreadable(f) <=> ~Headed(f)
  OBVIOUS
<1>1. Len(f) \in Nat /\ \A i \in 1 .. 2 : f[i] \in FileCells
  BY FileFacts
<1>2. /\ SubSeq(f, 1, 2) \in Seq(FileCells) /\ Len(SubSeq(f, 1, 2)) = 2
      /\ \A i \in 1 .. 2 : SubSeq(f, 1, 2)[i] = f[i]
  BY <1>1, SubSeqProperties
<1>3. Len(Header) = 2 /\ Header[1] = "EXJR" /\ Header[2] = "version" /\ Header \in Seq(FileCells)
  BY DEF Header, FileCells
<1>4. SubSeq(f, 1, 2) = Header <=> f[1] = "EXJR" /\ f[2] = "version"
  <2>1. ASSUME f[1] = "EXJR" /\ f[2] = "version" PROVE SubSeq(f, 1, 2) = Header
    <3>1. \A i \in 1 .. 2 : SubSeq(f, 1, 2)[i] = Header[i]
      <4> TAKE i \in 1 .. 2
      <4>1. i = 1 \/ i = 2
        OBVIOUS
      <4> QED
        BY <1>2, <1>3, <2>1, <4>1
    <3> QED
      BY <1>2, <1>3, <3>1, SeqEqual
  <2>2. ASSUME SubSeq(f, 1, 2) = Header PROVE f[1] = "EXJR" /\ f[2] = "version"
    <3>1. 1 \in 1 .. 2 /\ 2 \in 1 .. 2
      OBVIOUS
    <3> QED
      BY <1>2, <1>3, <2>2, <3>1
  <2> QED
    BY <2>1, <2>2
<1> QED
  BY <1>3, <1>4 DEF Unreadable, Headed

\* A file without a header reads as empty.
LEMMA ShortScan ==
    ASSUME NEW f, File(f), ~Headed(f)
    PROVE  Scan(f) = [records |-> <<>>, valid |-> 0]
<1>1. Len(Header) = 2 /\ Len(f) \in Nat
  BY FileFacts DEF Header
<1>2. Len(f) < 2 \/ Unreadable(f)
  BY <1>1, HeaderFacts
<1> QED
  BY <1>1, <1>2 DEF Scan

\* The other files are scanned from behind the header.
LEMMA ScanUnfolds ==
    ASSUME NEW f, File(f), Headed(f)
    PROVE  \E at : IsScan(f, at) /\ Scan(f) = at[3]
<1>1. Len(Header) = 2 /\ Len(f) \in Nat /\ Len(f) >= 2 /\ ~Unreadable(f)
  BY FileFacts, HeaderFacts DEF Header, Headed
<1> DEFINE Body(g, i) == IF i > Len(f) \/ ~WholeAt(f, i) THEN [records |-> <<>>, valid |-> i - 1]
                         ELSE [g[i + f[i].of] EXCEPT !.records = <<f[i].rec>> \o @]
           Raw(g) == [i \in Len(Header) + 1 .. Len(f) + 1 |-> Body(g, i)]
           scan == CHOOSE g : g = Raw(g)
<1>2. Scan(f) = IF Len(f) < Len(Header) \/ Unreadable(f) THEN [records |-> <<>>, valid |-> 0]
                ELSE scan[Len(Header) + 1]
  BY DEF Scan
<1>3. Scan(f) = scan[3]
  <2> HIDE DEF scan
  <2> QED
    BY <1>1, <1>2
<1>4. PICK at : IsScan(f, at)
  BY <1>1, ScanExists
<1>5. ASSUME NEW i \in 3 .. Len(f) + 1
      PROVE  at[i] = Body(at, i)
  <2>1. ScansFrom(f, at, i) /\ at[i] \in ScanResults
    BY <1>4 DEF IsScan
  <2>2. CASE i > Len(f) \/ ~WholeAt(f, i)
    BY <2>1, <2>2 DEF ScansFrom
  <2>3. CASE ~(i > Len(f) \/ ~WholeAt(f, i))
    <3>1. PICK k, r : k = i + f[i].of /\ r = <<f[i].rec>>
      OBVIOUS
    <3>2. i \in 3 .. Len(f)
      BY <1>1, <2>3
    <3>3. k \in 3 .. Len(f) + 1
      BY <1>1, <2>3, <3>1, <3>2, WholeFacts
    <3>4. at[k] \in ScanResults
      BY <1>4, <3>3 DEF IsScan
    <3>5. at[i].records = r \o at[k].records /\ at[i].valid = at[k].valid
      BY <2>1, <2>3, <3>1 DEF ScansFrom
    <3>6. at[i] = [at[k] EXCEPT !.records = r \o @]
      BY <2>1, <3>4, <3>5 DEF ScanResults
    <3> QED
      BY <2>3, <3>1, <3>6
  <2> QED
    BY <2>2, <2>3
<1>6. at = Raw(at)
  <2>1. at = [i \in 3 .. Len(f) + 1 |-> at[i]]
    BY <1>4 DEF IsScan
  <2>2. Len(Header) + 1 = 3
    BY <1>1
  <2> HIDE DEF Body
  <2> QED
    BY <1>5, <2>1, <2>2
<1>7. scan = Raw(scan)
  <2> HIDE DEF Raw
  <2> QED
    BY <1>6
<1> HIDE DEF scan
<1>8. \A i \in 3 .. Len(f) + 1 :
         scan[i] = Body(scan, i)
  <2>1. Len(Header) + 1 = 3
    BY <1>1
  <2> HIDE DEF Body
  <2> QED
    BY <1>7, <2>1
<1> DEFINE N == Len(f) - 2
           S == {n \in 0 .. N : scan[n + 3] = at[n + 3]}
<1>9. ASSUME NEW n \in 0 .. N, \A m \in n + 1 .. N : m \in S
      PROVE  n \in S
  <2>1. PICK i : i = n + 3
    OBVIOUS
  <2>2. i \in 3 .. Len(f) + 1
    BY <1>1, <2>1
  <2>3. scan[i] = at[i]
    <3>1. CASE i > Len(f) \/ ~WholeAt(f, i)
      BY <1>5, <1>8, <2>2, <3>1
    <3>2. CASE ~(i > Len(f) \/ ~WholeAt(f, i))
      <4>1. PICK k : k = i + f[i].of
        OBVIOUS
      <4>2. i \in 3 .. Len(f)
        BY <1>1, <2>2, <3>2
      <4>3. k \in i + 1 .. Len(f) + 1
        BY <3>2, <4>1, <4>2, WholeFacts
      <4>4. k - 3 \in n + 1 .. N /\ (k - 3) + 3 = k
        BY <1>1, <2>1, <2>2, <4>3
      <4>5. scan[(k - 3) + 3] = at[(k - 3) + 3]
        BY <1>9, <4>4
      <4>6. scan[k] = at[k]
        BY <4>4, <4>5
      <4> QED
        BY <1>5, <1>8, <2>2, <3>2, <4>1, <4>6
    <3> QED
      BY <3>1, <3>2
  <2> QED
    BY <2>1, <2>3
<1>10. scan[3] = at[3]
  <2>1. N \in Nat
    BY <1>1
  <2>2. 0 .. N \subseteq S
    <3> HIDE DEF S, N
    <3> QED
      BY <1>9, <2>1, DownFrom
  <2>3. 0 \in S
    <3> HIDE DEF S
    <3> QED
      BY <2>1, <2>2
  <2>4. scan[0 + 3] = at[0 + 3]
    BY <2>3
  <2> QED
    BY <2>4
<1> QED
  BY <1>3, <1>4, <1>10

\* A scan ends in the file, and not before where it begins.
LEMMA ScanBounds ==
    ASSUME NEW f, File(f), NEW at, IsScan(f, at), NEW i \in 3 .. Len(f) + 1
    PROVE  at[i].valid \in i - 1 .. Len(f)
<1>1. Len(f) \in Nat
  BY FileFacts
<1> DEFINE N == Len(f) + 1
           S == {j \in 0 .. N : j >= 3 => at[j].valid \in j - 1 .. Len(f)}
<1>2. ASSUME NEW n \in 0 .. N, \A m \in n + 1 .. N : m \in S
      PROVE  n \in S
  <2> SUFFICES ASSUME n >= 3 PROVE at[n].valid \in n - 1 .. Len(f)
    OBVIOUS
  <2>1. n \in 3 .. Len(f) + 1
    BY <1>1
  <2>2. ScansFrom(f, at, n)
    BY <2>1 DEF IsScan
  <2>3. CASE n > Len(f) \/ ~WholeAt(f, n)
    <3>1. at[n].valid = n - 1
      BY <2>2, <2>3 DEF ScansFrom
    <3> QED
      BY <1>1, <2>1, <3>1
  <2>4. CASE ~(n > Len(f) \/ ~WholeAt(f, n))
    <3>1. PICK k : k = n + f[n].of
      OBVIOUS
    <3>2. n \in 3 .. Len(f)
      BY <1>1, <2>1, <2>4
    <3>3. k \in n + 1 .. Len(f) + 1
      BY <2>4, <3>1, <3>2, WholeFacts
    <3>4. at[n].valid = at[k].valid
      BY <2>2, <2>4, <3>1 DEF ScansFrom
    <3>5. k \in S /\ k >= 3
      BY <1>1, <1>2, <3>2, <3>3
    <3>6. at[k].valid \in k - 1 .. Len(f)
      BY <3>5
    <3> QED
      BY <1>1, <3>2, <3>3, <3>4, <3>6
  <2> QED
    BY <2>3, <2>4
<1>3. 0 .. N \subseteq S
  <2>1. N \in Nat
    BY <1>1
  <2> HIDE DEF S, N
  <2> QED
    BY <1>2, <2>1, DownFrom
<1>4. i \in S
  BY <1>1, <1>3
<1> QED
  BY <1>4

\* What a scan reads.
LEMMA ScanFacts ==
    ASSUME NEW f, File(f)
    PROVE  /\ Scan(f) \in ScanResults
           /\ Scan(f).valid \in 0 .. Len(f)
           /\ Headed(f) => Scan(f).valid >= 2
           /\ ~Headed(f) => Scan(f).valid = 0 /\ Scan(f).records = <<>>
<1>1. Len(f) \in Nat
  BY FileFacts
<1>2. CASE Headed(f)
  <2>1. PICK at : IsScan(f, at) /\ Scan(f) = at[3]
    BY <1>2, ScanUnfolds
  <2>2. 3 \in 3 .. Len(f) + 1
    BY <1>1, <1>2 DEF Headed
  <2>3. at[3] \in ScanResults /\ at[3].valid \in 3 - 1 .. Len(f)
    BY <2>1, <2>2, ScanBounds DEF IsScan
  <2> QED
    BY <1>1, <1>2, <2>1, <2>3
<1>3. CASE ~Headed(f)
  <2>1. Scan(f) = [records |-> <<>>, valid |-> 0]
    BY <1>3, ShortScan
  <2>2. <<>> \in Seq(Ids)
    OBVIOUS
  <2> QED
    BY <1>1, <1>3, <2>1, <2>2 DEF ScanResults
<1> QED
  BY <1>2, <1>3

\* A damaged cell is no cell of a record.
LEMMA BadFacts == Bad \notin RecordCells /\ Bad # "EXJR" /\ Bad # "version"
<1>1. Bad \notin [rec : 1 .. MaxRecords, cell : Nat, of : Nat] /\ Bad # "EXJR" /\ Bad # "version"
  BY JournalAssumption DEF JournalAssumption
<1>2. RecordCells \subseteq [rec : 1 .. MaxRecords, cell : Nat, of : Nat]
  BY DEF RecordCells, Ids
<1> QED
  BY <1>1, <1>2

\* f is what is left of g: cut, and damaged in places.
Worn(f, g) == File(f) /\ File(g) /\ Len(f) =< Len(g) /\ \A i \in 1 .. Len(f) : f[i] = g[i] \/ f[i] = Bad

\* The sequence a is the front of b.
Begins(a, b) == Len(a) =< Len(b) /\ \A i \in 1 .. Len(a) : a[i] = b[i]

\* A record in front of two sequences.
LEMMA BeginsCons ==
    ASSUME NEW a \in Seq(Ids), NEW b \in Seq(Ids), NEW r \in Ids, Begins(a, b)
    PROVE  Begins(<<r>> \o a, <<r>> \o b)
<1>1. <<r>> \in Seq(Ids) /\ Len(<<r>>) = 1 /\ <<r>>[1] = r
  OBVIOUS
<1>2. Len(a) \in Nat /\ Len(b) \in Nat
  BY LenProperties
<1>3. /\ Len(<<r>> \o a) = 1 + Len(a)
      /\ \A i \in 1 .. 1 + Len(a) : (<<r>> \o a)[i] = IF i <= 1 THEN <<r>>[i] ELSE a[i - 1]
  BY <1>1, ConcatProperties
<1>4. /\ Len(<<r>> \o b) = 1 + Len(b)
      /\ \A i \in 1 .. 1 + Len(b) : (<<r>> \o b)[i] = IF i <= 1 THEN <<r>>[i] ELSE b[i - 1]
  BY <1>1, ConcatProperties
<1>5. ASSUME NEW i \in 1 .. 1 + Len(a) PROVE (<<r>> \o a)[i] = (<<r>> \o b)[i]
  <2>1. i \in 1 .. 1 + Len(b)
    BY <1>2 DEF Begins
  <2>2. CASE i = 1
    BY <1>3, <1>4, <2>1, <2>2
  <2>3. CASE i # 1
    <3>1. ~(i <= 1) /\ i - 1 \in 1 .. Len(a)
      BY <1>2, <2>3
    <3> QED
      BY <1>3, <1>4, <2>1, <3>1 DEF Begins
  <2> QED
    BY <2>2, <2>3
<1>6. 1 + Len(a) =< 1 + Len(b)
  BY <1>2 DEF Begins
<1> QED
  BY <1>3, <1>4, <1>5, <1>6 DEF Begins

\* A record that is whole in what is left was whole.
LEMMA WornWhole ==
    ASSUME NEW f, NEW g, Worn(f, g), NEW i \in 3 .. Len(f), WholeAt(f, i)
    PROVE  WholeAt(g, i) /\ f[i] = g[i]
<1>1. /\ File(f) /\ File(g) /\ Len(f) \in Nat /\ Len(g) \in Nat /\ Len(f) =< Len(g)
      /\ \A j \in 1 .. Len(f) : f[j] = g[j] \/ f[j] = Bad
  BY FileFacts DEF Worn
<1>2. f[i].of \in Nat \ {0} /\ i + f[i].of \in i + 1 .. Len(f) + 1
  BY <1>1, WholeFacts
<1>3. \A k \in 0 .. f[i].of - 1 : f[i + k] # Bad /\ f[i + k].rec = f[i].rec /\ f[i + k].cell = k + 1
  BY DEF WholeAt
<1>4. f[i] # Bad /\ f[i].cell = 1
  BY DEF WholeAt
<1>5. f[i] = g[i]
  BY <1>1, <1>4
<1>6. \A k \in 0 .. f[i].of - 1 : i + k \in 1 .. Len(f)
  BY <1>1, <1>2
<1>7. \A k \in 0 .. f[i].of - 1 : f[i + k] = g[i + k]
  BY <1>1, <1>3, <1>6
<1>8. i + g[i].of - 1 =< Len(g)
  BY <1>1, <1>2, <1>5
<1> QED
  BY <1>3, <1>4, <1>5, <1>7, <1>8 DEF WholeAt

\* What is left reads as the front of what there was.
LEMMA WornScan ==
    ASSUME NEW f, NEW g, Worn(f, g)
    PROVE  Begins(Scan(f).records, Scan(g).records)
<1>1. /\ File(f) /\ File(g) /\ Len(f) \in Nat /\ Len(g) \in Nat /\ Len(f) =< Len(g)
      /\ \A j \in 1 .. Len(f) : f[j] = g[j] \/ f[j] = Bad
  BY FileFacts DEF Worn
<1>2. CASE ~Headed(f)
  <2>1. Scan(f).records = <<>>
    BY <1>1, <1>2, ScanFacts
  <2>2. Scan(g).records \in Seq(Ids)
    BY <1>1, ScanFacts DEF ScanResults
  <2>3. Len(Scan(g).records) \in Nat /\ Len(<<>>) = 0
    BY <2>2, LenProperties
  <2> QED
    BY <2>1, <2>3 DEF Begins
<1>3. CASE Headed(f)
  <2>1. Headed(g)
    <3>1. 1 \in 1 .. Len(f) /\ 2 \in 1 .. Len(f) /\ Len(g) >= 2
      BY <1>1, <1>3 DEF Headed
    <3>2. Bad # "EXJR" /\ Bad # "version"
      BY BadFacts
    <3> QED
      BY <1>1, <1>3, <3>1, <3>2 DEF Headed
  <2>2. PICK af : IsScan(f, af) /\ Scan(f) = af[3]
    BY <1>1, <1>3, ScanUnfolds
  <2>3. PICK ag : IsScan(g, ag) /\ Scan(g) = ag[3]
    BY <1>1, <2>1, ScanUnfolds
  <2> DEFINE N == Len(f) + 1
             S == {j \in 0 .. N : j >= 3 => Begins(af[j].records, ag[j].records)}
  <2>4. ASSUME NEW n \in 0 .. N, \A m \in n + 1 .. N : m \in S
        PROVE  n \in S
    <3> SUFFICES ASSUME n >= 3 PROVE Begins(af[n].records, ag[n].records)
      OBVIOUS
    <3>1. n \in 3 .. Len(f) + 1 /\ n \in 3 .. Len(g) + 1
      BY <1>1
    <3>2. /\ ScansFrom(f, af, n) /\ ScansFrom(g, ag, n)
          /\ ag[n].records \in Seq(Ids)
      BY <2>2, <2>3, <3>1 DEF IsScan, ScanResults
    <3>3. CASE n > Len(f) \/ ~WholeAt(f, n)
      <4>1. af[n].records = <<>>
        BY <3>2, <3>3 DEF ScansFrom
      <4>2. Len(ag[n].records) \in Nat /\ Len(<<>>) = 0
        BY <3>2, LenProperties
      <4> QED
        BY <4>1, <4>2 DEF Begins
    <3>4. CASE ~(n > Len(f) \/ ~WholeAt(f, n))
      <4>1. n \in 3 .. Len(f)
        BY <1>1, <3>1, <3>4
      <4>2. WholeAt(g, n) /\ f[n] = g[n] /\ ~(n > Len(g))
        BY <1>1, <3>4, <4>1, WornWhole
      <4>3. PICK k, r : k = n + f[n].of /\ r = f[n].rec
        OBVIOUS
      <4>4. k \in n + 1 .. Len(f) + 1 /\ r \in Ids
        BY <1>1, <3>4, <4>1, <4>3, WholeFacts
      <4>5. af[n].records = <<r>> \o af[k].records /\ ag[n].records = <<r>> \o ag[k].records
        BY <3>2, <3>4, <4>2, <4>3 DEF ScansFrom
      <4>6. k \in S /\ k >= 3 /\ k \in 3 .. Len(f) + 1 /\ k \in 3 .. Len(g) + 1
        BY <1>1, <2>4, <4>1, <4>4
      <4>7. Begins(af[k].records, ag[k].records)
        BY <4>6
      <4>8. af[k].records \in Seq(Ids) /\ ag[k].records \in Seq(Ids)
        BY <2>2, <2>3, <4>6 DEF IsScan, ScanResults
      <4> QED
        BY <4>4, <4>5, <4>7, <4>8, BeginsCons
    <3> QED
      BY <3>3, <3>4
  <2>5. 0 .. N \subseteq S
    <3>1. N \in Nat
      BY <1>1
    <3> HIDE DEF S, N
    <3> QED
      BY <2>4, <3>1, DownFrom
  <2>6. 3 \in 0 .. N
    BY <1>1, <1>3 DEF Headed
  <2>7. 3 \in S
    <3> HIDE DEF S
    <3> QED
      BY <2>5, <2>6
  <2> QED
    BY <2>2, <2>3, <2>7
<1> QED
  BY <1>2, <1>3

\* Every cell of the file is part of a record that is whole.
Clean(f) == File(f) /\ Headed(f) /\ Scan(f).valid = Len(f)

\* A file that ends early, up to its records, is clean.
LEMMA CutScan ==
    ASSUME NEW f, File(f), Headed(f), NEW h, h = SubSeq(f, 1, Scan(f).valid)
    PROVE  Clean(h) /\ Scan(h).records = Scan(f).records
<1>1. Len(f) \in Nat /\ f \in Seq(FileCells) /\ \A i \in 1 .. Len(f) : f[i] \in FileCells
  BY FileFacts
<1>2. PICK at : IsScan(f, at) /\ Scan(f) = at[3]
  BY ScanUnfolds
<1>3. PICK v : v = Scan(f).valid
  OBVIOUS
<1>4. v \in 2 .. Len(f) /\ v \in Nat
  BY <1>1, <1>3, ScanFacts
<1>5. h \in Seq(FileCells) /\ Len(h) = v /\ \A i \in 1 .. v : h[i] = f[i]
  <2>1. \A i \in 1 .. v : f[i] \in FileCells
    BY <1>1, <1>4
  <2>2. /\ h \in Seq(FileCells) /\ Len(h) = IF 1 <= v THEN v - 1 + 1 ELSE 0
        /\ \A i \in 1 .. v - 1 + 1 : h[i] = f[1 + i - 1]
    BY <1>3, <1>4, <2>1, SubSeqProperties
  <2>3. v - 1 + 1 = v /\ \A i \in 1 .. v : 1 + i - 1 = i
    BY <1>4
  <2> QED
    BY <1>4, <2>2, <2>3
<1>6. File(h)
  <2>1. \A i \in 3 .. Len(h) : h[i] \in RecordCells \cup {Bad}
    BY <1>1, <1>4, <1>5 DEF File
  <2> QED
    BY <1>5, <2>1 DEF File
<1>7. Headed(h)
  BY <1>4, <1>5 DEF Headed
<1>8. PICK ah : IsScan(h, ah) /\ Scan(h) = ah[3]
  BY <1>6, <1>7, ScanUnfolds
<1> DEFINE N == v + 1
           S == {j \in 0 .. N : j >= 3 /\ at[j].valid = v =>
                     ah[j].records = at[j].records /\ ah[j].valid = v}
<1>9. ASSUME NEW n \in 0 .. N, \A m \in n + 1 .. N : m \in S
      PROVE  n \in S
  <2> SUFFICES ASSUME n >= 3, at[n].valid = v PROVE ah[n].records = at[n].records /\ ah[n].valid = v
    OBVIOUS
  <2>1. n \in 3 .. Len(f) + 1 /\ n \in 3 .. Len(h) + 1
    BY <1>1, <1>4, <1>5
  <2>2. ScansFrom(f, at, n) /\ ScansFrom(h, ah, n)
    BY <1>2, <1>8, <2>1 DEF IsScan
  <2>3. CASE n > Len(f) \/ ~WholeAt(f, n)
    <3>1. at[n] = [records |-> <<>>, valid |-> n - 1]
      BY <2>2, <2>3 DEF ScansFrom
    <3>2. at[n].records = <<>> /\ n = v + 1
      BY <1>4, <2>1, <3>1
    <3>3. n > Len(h) /\ n - 1 = v
      BY <1>4, <1>5, <3>2
    <3>4. ah[n] = [records |-> <<>>, valid |-> n - 1]
      BY <2>2, <3>3 DEF ScansFrom
    <3> QED
      BY <3>2, <3>3, <3>4
  <2>4. CASE ~(n > Len(f) \/ ~WholeAt(f, n))
    <3>1. n \in 3 .. Len(f)
      BY <1>1, <2>1, <2>4
    <3>2. PICK k, r : k = n + f[n].of /\ r = f[n].rec
      OBVIOUS
    <3>3. k \in n + 1 .. Len(f) + 1 /\ f[n].of \in Nat \ {0}
      BY <2>4, <3>1, <3>2, WholeFacts
    <3>4. at[n].records = <<r>> \o at[k].records /\ at[k].valid = v
      BY <2>2, <2>4, <3>2 DEF ScansFrom
    <3>5. v \in k - 1 .. Len(f)
      <4>1. k \in 3 .. Len(f) + 1
        BY <1>1, <3>1, <3>3
      <4> QED
        BY <1>2, <3>4, <4>1, ScanBounds
    <3>6. k \in n + 1 .. N /\ k >= 3 /\ n \in 3 .. v
      BY <1>1, <1>4, <3>1, <3>3, <3>5
    <3>7. k \in S
      BY <1>9, <3>6
    <3>8. ah[k].records = at[k].records /\ ah[k].valid = v
      BY <3>4, <3>6, <3>7
    <3>9. WholeAt(h, n) /\ h[n] = f[n]
      <4>1. h[n] = f[n]
        BY <1>5, <3>6
      <4>2. \A j \in 0 .. f[n].of - 1 : h[n + j] = f[n + j]
        <5> TAKE j \in 0 .. f[n].of - 1
        <5>1. n + j \in 1 .. v
          <6>1. PICK z : z = f[n].of
            OBVIOUS
          <6>2. n \in Nat /\ n >= 3 /\ v \in Nat /\ k =< v + 1
            BY <1>1, <3>1, <3>3, <3>5, <3>6
          <6>3. z \in Nat \ {0} /\ k = n + z /\ j \in 0 .. z - 1
            BY <3>2, <3>3, <6>1
          <6> QED
            BY <6>2, <6>3
        <5> QED
          BY <1>5, <5>1
      <4>3. n + f[n].of - 1 =< Len(h)
        BY <1>1, <1>4, <1>5, <3>1, <3>2, <3>3, <3>5
      <4> QED
        BY <2>4, <4>1, <4>2, <4>3 DEF WholeAt
    <3>10. ~(n > Len(h))
      BY <1>4, <1>5, <3>6
    <3>11. ah[n].records = <<r>> \o ah[k].records /\ ah[n].valid = ah[k].valid
      BY <2>2, <3>2, <3>9, <3>10 DEF ScansFrom
    <3> QED
      BY <3>4, <3>8, <3>11
  <2> QED
    BY <2>3, <2>4
<1>10. 3 \in S
  <2>1. N \in Nat /\ 3 \in 0 .. N
    BY <1>4
  <2>2. 0 .. N \subseteq S
    <3> HIDE DEF S, N
    <3> QED
      BY <1>9, <2>1, DownFrom
  <2> HIDE DEF S
  <2> QED
    BY <2>1, <2>2
<1>11. ah[3].records = at[3].records /\ ah[3].valid = v
  BY <1>2, <1>3, <1>10
<1> QED
  BY <1>2, <1>5, <1>6, <1>7, <1>8, <1>11 DEF Clean

\* The cells of a record.
LEMMA CellsFacts ==
    ASSUME NEW r \in Ids, NEW n \in Nat \ {0}
    PROVE  /\ CellsOf(r, n) \in Seq(RecordCells) /\ Len(CellsOf(r, n)) = n + 2
           /\ \A i \in 1 .. n + 2 : CellsOf(r, n)[i] = [rec |-> r, cell |-> i, of |-> n + 2]
<1> DEFINE c == [i \in 1 .. n + 2 |-> [rec |-> r, cell |-> i, of |-> n + 2]]
<1>1. CellsOf(r, n) = c
  <2>1. MetaCells + n = n + 2
    BY DEF MetaCells
  <2> QED
    BY <2>1 DEF CellsOf
<1>2. n + 2 \in Nat /\ n + 2 \in Nat \ {0}
  OBVIOUS
<1>3. c \in [1 .. n + 2 -> RecordCells]
  BY <1>2 DEF RecordCells
<1>4. c \in Seq(RecordCells) /\ Len(c) = n + 2
  <2> HIDE DEF c
  <2> QED
    BY <1>2, <1>3
<1> QED
  BY <1>1, <1>4

\* h is f with a record of z cells behind it.
Extended(f, r, z, h) ==
    /\ File(h) /\ z \in Nat \ {0} /\ Len(h) = Len(f) + z
    /\ \A i \in 1 .. Len(f) : h[i] = f[i]
    /\ \A j \in 0 .. z - 1 : h[Len(f) + 1 + j] = [rec |-> r, cell |-> j + 1, of |-> z]

\* append puts a record behind the file.
LEMMA AppendExtends ==
    ASSUME NEW f, File(f), Len(f) >= 2, NEW r \in Ids, NEW p \in Nat \ {0}
    PROVE  Extended(f, r, p + 2, f \o CellsOf(r, p))
<1>1. Len(f) \in Nat /\ f \in Seq(FileCells)
  BY FileFacts
<1>2. PICK c, z : c = CellsOf(r, p) /\ z = p + 2
  OBVIOUS
<1>3. z \in Nat \ {0}
  BY <1>2
<1>4. /\ c \in Seq(RecordCells) /\ Len(c) = z
      /\ \A i \in 1 .. z : c[i] = [rec |-> r, cell |-> i, of |-> z]
  BY <1>2, CellsFacts
<1>5. c \in Seq(FileCells)
  <2>1. RecordCells \subseteq FileCells
    BY DEF FileCells
  <2> QED
    BY <1>4, <2>1, SeqMonotonic
<1>6. PICK h : h = f \o c
  OBVIOUS
<1>7. /\ h \in Seq(FileCells) /\ Len(h) = Len(f) + Len(c)
      /\ \A i \in 1 .. Len(f) + Len(c) : h[i] = IF i <= Len(f) THEN f[i] ELSE c[i - Len(f)]
  BY <1>1, <1>5, <1>6, ConcatProperties
<1>8. Len(h) = Len(f) + z
  BY <1>4, <1>7
<1>9. \A i \in 1 .. Len(f) : h[i] = f[i]
  BY <1>1, <1>3, <1>4, <1>7
<1>10. ASSUME NEW j \in 0 .. z - 1
       PROVE  h[Len(f) + 1 + j] = [rec |-> r, cell |-> j + 1, of |-> z]
  <2>1. /\ Len(f) + 1 + j \in 1 .. Len(f) + Len(c) /\ ~(Len(f) + 1 + j <= Len(f))
        /\ (Len(f) + 1 + j) - Len(f) = j + 1 /\ j + 1 \in 1 .. z
    BY <1>1, <1>3, <1>4
  <2> QED
    BY <1>4, <1>7, <2>1
<1>11. File(h)
  <2>1. ASSUME NEW i \in 3 .. Len(h) PROVE h[i] \in RecordCells \cup {Bad}
    <3>1. CASE i <= Len(f)
      <4>1. i \in 3 .. Len(f) /\ i \in 1 .. Len(f)
        BY <1>1, <3>1
      <4> QED
        BY <1>9, <4>1 DEF File
    <3>2. CASE ~(i <= Len(f))
      <4>1. i - Len(f) \in 1 .. Len(c) /\ i \in 1 .. Len(f) + Len(c)
        BY <1>1, <1>3, <1>4, <1>8, <3>2
      <4>2. h[i] = c[i - Len(f)]
        BY <1>7, <3>2, <4>1
      <4>3. c[i - Len(f)] \in RecordCells
        BY <1>4, <4>1, ElementOfSeq
      <4> QED
        BY <4>2, <4>3
    <3> QED
      BY <3>1, <3>2
  <2> QED
    BY <1>7, <2>1 DEF File
<1>12. Extended(f, r, z, h)
  BY <1>3, <1>8, <1>9, <1>10, <1>11 DEF Extended
<1> QED
  BY <1>2, <1>6, <1>12

\* Records in front and behind.
LEMMA ConsAppend ==
    ASSUME NEW s \in Seq(Ids), NEW q \in Ids, NEW r \in Ids
    PROVE  <<q>> \o Append(s, r) = Append(<<q>> \o s, r)
<1>1. <<q>> \in Seq(Ids) /\ <<r>> \in Seq(Ids)
  OBVIOUS
<1>2. Append(s, r) = s \o <<r>>
  BY AppendIsConcat
<1>3. <<q>> \o s \in Seq(Ids)
  BY <1>1, ConcatProperties
<1>4. Append(<<q>> \o s, r) = (<<q>> \o s) \o <<r>>
  BY <1>3, AppendIsConcat
<1>5. (<<q>> \o s) \o <<r>> = <<q>> \o (s \o <<r>>)
  BY <1>1, ConcatAssociative
<1> QED
  BY <1>2, <1>4, <1>5

\* A record appended to a clean file is read behind the others.
LEMMA AppendScan ==
    ASSUME NEW f, Clean(f), NEW r \in Ids, NEW z, NEW h, Extended(f, r, z, h)
    PROVE  Clean(h) /\ Scan(h).records = Append(Scan(f).records, r)
<1>1. File(f) /\ Headed(f) /\ Scan(f).valid = Len(f)
  BY DEF Clean
<1>2. Len(f) \in Nat /\ Len(f) >= 2
  BY <1>1, FileFacts DEF Headed
<1>3. z \in Nat \ {0}
  BY DEF Extended
<1>5. Len(h) = Len(f) + z
  BY DEF Extended
<1>6. \A i \in 1 .. Len(f) : h[i] = f[i]
  BY DEF Extended
<1>7. \A j \in 0 .. z - 1 : h[Len(f) + 1 + j] = [rec |-> r, cell |-> j + 1, of |-> z]
  BY DEF Extended
<1>8. File(h)
  BY DEF Extended
<1>9. Headed(h)
  BY <1>1, <1>2, <1>3, <1>5, <1>6 DEF Headed
<1>10. PICK af : IsScan(f, af) /\ Scan(f) = af[3]
  BY <1>1, ScanUnfolds
<1>11. PICK ah : IsScan(h, ah) /\ Scan(h) = ah[3]
  BY <1>8, <1>9, ScanUnfolds
\* The record that was appended.
<1>12. WholeAt(h, Len(f) + 1) /\ h[Len(f) + 1].rec = r /\ h[Len(f) + 1].of = z
  <2>1. PICK i : i = Len(f) + 1
    OBVIOUS
  <2>2. 0 \in 0 .. z - 1 /\ i + 0 = i /\ i \in Nat
    BY <1>2, <1>3, <2>1
  <2>3. \A j \in 0 .. z - 1 : h[i + j] = [rec |-> r, cell |-> j + 1, of |-> z]
    BY <1>7, <2>1
  <2>4. h[i] = [rec |-> r, cell |-> 0 + 1, of |-> z]
    BY <2>2, <2>3
  <2>5. h[i].rec = r /\ h[i].cell = 1 /\ h[i].of = z
    BY <2>4
  <2>6. ASSUME NEW j \in 0 .. z - 1
        PROVE  h[i + j].rec = r /\ h[i + j].cell = j + 1 /\ h[i + j] # Bad
    <3>1. PICK w, k : w = h[i + j] /\ k = j + 1
      OBVIOUS
    <3>2. w = [rec |-> r, cell |-> k, of |-> z]
      BY <2>3, <3>1
    <3>3. k \in Nat \ {0}
      BY <1>3, <3>1
    <3>4. w.rec = r /\ w.cell = k
      BY <3>2
    <3>5. w \in RecordCells
      BY <1>3, <3>2, <3>3 DEF RecordCells
    <3> QED
      BY <3>1, <3>4, <3>5, BadFacts
  <2>8. i + z - 1 =< Len(h)
    BY <1>2, <1>3, <1>5, <2>1
  <2>9. h[i] # Bad
    BY <2>2, <2>6
  <2> QED
    BY <2>1, <2>5, <2>6, <2>8, <2>9 DEF WholeAt
<1>13. ah[Len(f) + 1].records = <<r>> /\ ah[Len(f) + 1].valid = Len(h)
  <2>1. PICK i, k : i = Len(f) + 1 /\ k = Len(h) + 1
    OBVIOUS
  <2>2. i \in 3 .. Len(h) + 1 /\ k \in 3 .. Len(h) + 1 /\ k = i + z /\ ~(i > Len(h)) /\ k > Len(h)
        /\ k - 1 = Len(h)
    BY <1>2, <1>3, <1>5, <2>1
  <2>3. ScansFrom(h, ah, i) /\ ScansFrom(h, ah, k)
    BY <1>11, <2>2 DEF IsScan
  <2>4. ah[k] = [records |-> <<>>, valid |-> Len(h)]
    BY <2>2, <2>3 DEF ScansFrom
  <2>5. ah[i].records = <<r>> \o ah[k].records /\ ah[i].valid = ah[k].valid
    BY <1>12, <2>1, <2>2, <2>3 DEF ScansFrom
  <2>6. <<r>> \o <<>> = <<r>>
    OBVIOUS
  <2> QED
    BY <2>1, <2>4, <2>5, <2>6
<1> DEFINE N == Len(f) + 1
           S == {j \in 0 .. N : j >= 3 /\ af[j].valid = Len(f) =>
                     ah[j].records = Append(af[j].records, r) /\ ah[j].valid = Len(h)}
<1>14. ASSUME NEW n \in 0 .. N, \A m \in n + 1 .. N : m \in S
       PROVE  n \in S
  <2> SUFFICES ASSUME n >= 3, af[n].valid = Len(f)
               PROVE  ah[n].records = Append(af[n].records, r) /\ ah[n].valid = Len(h)
    OBVIOUS
  <2>1. n \in 3 .. Len(f) + 1 /\ n \in 3 .. Len(h) + 1
    BY <1>2, <1>3, <1>5
  <2>2. ScansFrom(f, af, n) /\ ScansFrom(h, ah, n)
    BY <1>10, <1>11, <2>1 DEF IsScan
  <2>3. CASE n > Len(f) \/ ~WholeAt(f, n)
    <3>1. af[n] = [records |-> <<>>, valid |-> n - 1]
      BY <2>2, <2>3 DEF ScansFrom
    <3>2. af[n].records = <<>> /\ n = Len(f) + 1
      BY <1>2, <2>1, <3>1
    <3>3. Append(<<>>, r) = <<r>>
      OBVIOUS
    <3> QED
      BY <1>13, <3>2, <3>3
  <2>4. CASE ~(n > Len(f) \/ ~WholeAt(f, n))
    <3>1. n \in 3 .. Len(f)
      BY <1>2, <2>1, <2>4
    <3>2. PICK k, q : k = n + f[n].of /\ q = f[n].rec
      OBVIOUS
    <3>3. k \in n + 1 .. Len(f) + 1 /\ f[n].of \in Nat \ {0} /\ q \in Ids
      BY <1>1, <2>4, <3>1, <3>2, WholeFacts
    <3>4. af[n].records = <<q>> \o af[k].records /\ af[k].valid = Len(f)
      BY <2>2, <2>4, <3>2 DEF ScansFrom
    <3>5. k \in n + 1 .. N /\ k >= 3 /\ k \in 3 .. Len(f) + 1
      BY <1>2, <3>1, <3>3
    <3>6. k \in S
      BY <1>14, <3>5
    <3>7. ah[k].records = Append(af[k].records, r) /\ ah[k].valid = Len(h)
      BY <3>4, <3>5, <3>6
    <3>8. WholeAt(h, n) /\ h[n] = f[n]
      <4>1. h[n] = f[n]
        BY <1>2, <1>6, <3>1
      <4>2. \A j \in 0 .. f[n].of - 1 : h[n + j] = f[n + j]
        <5> TAKE j \in 0 .. f[n].of - 1
        <5>1. n + j \in 1 .. Len(f)
          BY <1>2, <3>1, <3>2, <3>3
        <5> QED
          BY <1>6, <5>1
      <4>3. n + f[n].of - 1 =< Len(h)
        BY <1>2, <1>3, <1>5, <3>1, <3>2, <3>3
      <4> QED
        BY <2>4, <4>1, <4>2, <4>3 DEF WholeAt
    <3>9. ~(n > Len(h))
      BY <1>2, <1>3, <1>5, <3>1
    <3>10. ah[n].records = <<q>> \o ah[k].records /\ ah[n].valid = ah[k].valid
      BY <2>2, <3>2, <3>8, <3>9 DEF ScansFrom
    <3>11. <<q>> \o Append(af[k].records, r) = Append(<<q>> \o af[k].records, r)
      <4>1. af[k].records \in Seq(Ids)
        BY <1>10, <3>5 DEF IsScan, ScanResults
      <4> QED
        BY <3>3, <4>1, ConsAppend
    <3> QED
      BY <3>4, <3>7, <3>10, <3>11
  <2> QED
    BY <2>3, <2>4
<1>15. 3 \in S
  <2>1. N \in Nat /\ 3 \in 0 .. N
    BY <1>2
  <2>2. 0 .. N \subseteq S
    <3> HIDE DEF S, N
    <3> QED
      BY <1>14, <2>1, DownFrom
  <2> HIDE DEF S
  <2> QED
    BY <2>1, <2>2
<1>16. ah[3].records = Append(af[3].records, r) /\ ah[3].valid = Len(h)
  BY <1>1, <1>10, <1>15
<1> QED
  BY <1>8, <1>9, <1>10, <1>11, <1>16 DEF Clean

\* The header alone is a clean file with nothing in it.
LEMMA HeaderScan ==
    ASSUME NEW f, f = Header
    PROVE  Clean(f) /\ Scan(f).records = <<>>
<1>1. f \in Seq(FileCells) /\ Len(f) = 2 /\ f[1] = "EXJR" /\ f[2] = "version"
  BY DEF Header, FileCells
<1>2. File(f) /\ Headed(f)
  BY <1>1 DEF File, Headed
<1>3. PICK at : IsScan(f, at) /\ Scan(f) = at[3]
  BY <1>2, ScanUnfolds
<1>4. 3 \in 3 .. Len(f) + 1 /\ 3 > Len(f)
  BY <1>1
<1>5. ScansFrom(f, at, 3)
  BY <1>3, <1>4 DEF IsScan
<1>6. at[3] = [records |-> <<>>, valid |-> 3 - 1]
  BY <1>4, <1>5 DEF ScansFrom
<1> QED
  BY <1>1, <1>2, <1>3, <1>6 DEF Clean

\* Part of a buffer is written: nothing is lost or added.
LEMMA CutBuffer ==
    ASSUME NEW o \in Seq(FileCells), NEW c \in Seq(FileCells), NEW n \in 0 .. Len(c)
    PROVE  /\ SubSeq(c, 1, n) \in Seq(FileCells) /\ SubSeq(c, n + 1, Len(c)) \in Seq(FileCells)
           /\ o \o SubSeq(c, 1, n) \in Seq(FileCells)
           /\ (o \o SubSeq(c, 1, n)) \o SubSeq(c, n + 1, Len(c)) = o \o c
<1>1. Len(c) \in Nat
  BY LenProperties
<1>2. SubSeq(c, 1, n) \in Seq(FileCells)
  <2>1. \A i \in 1 .. n : c[i] \in FileCells
    BY <1>1, ElementOfSeq
  <2> QED
    BY <1>1, <2>1, SubSeqProperties
<1>3. SubSeq(c, n + 1, Len(c)) \in Seq(FileCells)
  <2>1. \A i \in n + 1 .. Len(c) : c[i] \in FileCells
    BY <1>1, ElementOfSeq
  <2>2. n + 1 \in Int /\ Len(c) \in Int
    BY <1>1
  <2> QED
    BY <2>1, <2>2, SubSeqProperties
<1>4. SubSeq(c, 1, n) \o SubSeq(c, n + 1, Len(c)) = c
  <2>1. 1 \in 1 .. Len(c) + 1 /\ n \in 1 - 1 .. Len(c) /\ Len(c) \in n .. Len(c)
    BY <1>1
  <2>2. SubSeq(c, 1, n) \o SubSeq(c, n + 1, Len(c)) = SubSeq(c, 1, Len(c))
    BY <2>1, ConcatAdjacentSubSeq
  <2> QED
    BY <2>2, SubSeqFull
<1>5. (o \o SubSeq(c, 1, n)) \o SubSeq(c, n + 1, Len(c))
        = o \o (SubSeq(c, 1, n) \o SubSeq(c, n + 1, Len(c)))
  <2>1. PICK x, y : x = SubSeq(c, 1, n) /\ y = SubSeq(c, n + 1, Len(c))
    OBVIOUS
  <2>2. x \in Seq(FileCells) /\ y \in Seq(FileCells)
    BY <1>2, <1>3, <2>1
  <2>3. (o \o x) \o y = o \o (x \o y)
    BY <2>2, ConcatAssociative
  <2> QED
    BY <2>1, <2>3
<1>6. o \o SubSeq(c, 1, n) \in Seq(FileCells)
  BY <1>2, ConcatProperties
<1> QED
  BY <1>2, <1>3, <1>4, <1>5, <1>6

\* The front of a file is a file.
LEMMA FrontWorn ==
    ASSUME NEW o \in Seq(FileCells), NEW c \in Seq(FileCells), File(o \o c)
    PROVE  File(o) /\ Worn(o, o \o c)
<1>1. Len(o) \in Nat /\ Len(c) \in Nat
  BY LenProperties
<1>2. PICK h : h = o \o c
  OBVIOUS
<1>3. /\ Len(h) = Len(o) + Len(c)
      /\ \A i \in 1 .. Len(o) + Len(c) : h[i] = IF i <= Len(o) THEN o[i] ELSE c[i - Len(o)]
  BY <1>2, ConcatProperties
<1>4. \A i \in 1 .. Len(o) : o[i] = h[i]
  BY <1>1, <1>3
<1>5. File(h)
  BY <1>2
<1>6. File(o)
  <2>1. \A i \in 3 .. Len(o) : i \in 1 .. Len(o) /\ i \in 3 .. Len(h)
    BY <1>1, <1>3
  <2> QED
    BY <1>4, <1>5, <2>1 DEF File
<1>7. Len(o) =< Len(h)
  BY <1>1, <1>3
<1> QED
  BY <1>2, <1>4, <1>5, <1>6, <1>7 DEF Worn

\* The front of a front.
LEMMA BeginsTrans ==
    ASSUME NEW a \in Seq(Ids), NEW b \in Seq(Ids), NEW c \in Seq(Ids), Begins(a, b), Begins(b, c)
    PROVE  Begins(a, c)
<1>1. Len(a) \in Nat /\ Len(b) \in Nat /\ Len(c) \in Nat
  BY LenProperties
<1> QED
  BY <1>1 DEF Begins

\* The front of a sequence is a subsequence.
LEMMA BeginsSubSeq ==
    ASSUME NEW a \in Seq(Ids), NEW b \in Seq(Ids), Begins(a, b)
    PROVE  a = SubSeq(b, 1, Len(a)) /\ Len(a) =< Len(b)
<1>1. Len(a) \in Nat /\ Len(b) \in Nat /\ Len(a) =< Len(b) /\ \A i \in 1 .. Len(a) : a[i] = b[i]
  BY LenProperties DEF Begins
<1>2. PICK s, k : s = SubSeq(b, 1, k) /\ k = Len(a)
  OBVIOUS
<1>3. \A i \in 1 .. k : b[i] \in Ids
  BY <1>1, <1>2, ElementOfSeq
<1>4. s \in Seq(Ids) /\ Len(s) = (IF 1 <= k THEN k - 1 + 1 ELSE 0)
      /\ \A i \in 1 .. k - 1 + 1 : s[i] = b[1 + i - 1]
  BY <1>1, <1>2, <1>3, SubSeqProperties
<1>5. Len(s) = k
  BY <1>1, <1>2, <1>4
<1>6. \A i \in 1 .. k : s[i] = b[i]
  BY <1>1, <1>2, <1>4
<1>7. a = s
  BY <1>1, <1>2, <1>4, <1>5, <1>6, SeqEqual
<1> QED
  BY <1>1, <1>2, <1>7

\* An empty file has nothing in it.
LEMMA EmptyScan == File(<<>>) /\ Scan(<<>>).records = <<>> /\ Scan(<<>>).valid = 0
<1>1. PICK e : e = <<>>
  OBVIOUS
<1>2. e \in Seq(FileCells) /\ Len(e) = 0
  BY <1>1, EmptySeq
<1>3. File(e) /\ ~Headed(e)
  BY <1>2 DEF File, Headed
<1>4. Scan(e).records = <<>> /\ Scan(e).valid = 0
  BY <1>3, ScanFacts
<1> QED
  BY <1>1, <1>3, <1>4

\* What a loss of power leaves reads back between what was synced and what was
\* in the file.
LEMMA PowerLossKeeps ==
    ASSUME File(os), File(disk), Begins(Scan(disk).records, Scan(os).records),
           NEW f \in AfterPowerLoss
    PROVE  /\ File(f)
           /\ Begins(Scan(f).records, Scan(os).records)
           /\ Begins(Scan(disk).records, Scan(f).records)
<1>1. Scan(os).records \in Seq(Ids) /\ Scan(disk).records \in Seq(Ids)
  BY ScanFacts DEF ScanResults
<1>2. ASSUME NEW s \in Seq(Ids) PROVE Begins(s, s)
  <2>1. Len(s) \in Nat
    BY LenProperties
  <2> QED
    BY <2>1 DEF Begins
<1>3. CASE f = disk
  BY <1>1, <1>2, <1>3
<1>4. CASE f # disk
  <2>0. Len(os) \in Nat /\ Len(disk) \in Nat /\ os \in Seq(FileCells)
    BY FileFacts
  <2>1. PICK kept : kept = IF IsPrefixOf(disk, os) THEN Len(disk) ELSE Len(os)
    OBVIOUS
  <2>2. PICK n \in kept .. Len(os), a \in kept + 1 .. Len(os) + 1, b \in 0 .. Len(os) :
            f = [i \in 1 .. n |-> IF i \in a .. b THEN Bad ELSE os[i]]
    BY <1>4, <2>1 DEF AfterPowerLoss
  <2>3. kept \in 0 .. Len(os) /\ n \in 0 .. Len(os)
    BY <2>0, <2>1, <2>2 DEF IsPrefixOf
  <2>4. \A i \in 1 .. Len(os) : os[i] \in FileCells
    BY FileFacts
  <2>5. f \in Seq(FileCells) /\ Len(f) = n
    <3>1. ASSUME NEW i \in 1 .. n PROVE (IF i \in a .. b THEN Bad ELSE os[i]) \in FileCells
      <4>1. i \in 1 .. Len(os)
        BY <2>0, <2>3
      <4>2. Bad \in FileCells
        BY DEF FileCells
      <4> QED
        BY <2>4, <4>1, <4>2
    <3>2. f \in [1 .. n -> FileCells] /\ n \in Nat
      BY <2>0, <2>2, <2>3, <3>1
    <3> QED
      BY <3>2
  <2>6. ASSUME NEW i \in 1 .. n PROVE f[i] = os[i] \/ f[i] = Bad
    BY <2>2
  <2>7. ASSUME NEW i \in 1 .. n, i =< kept PROVE f[i] = os[i]
    <3>1. ~(i \in a .. b)
      BY <2>0, <2>2, <2>3, <2>7
    <3> QED
      BY <2>2, <3>1
  <2>8. File(f)
    <3>1. ASSUME NEW i \in 3 .. Len(f) PROVE f[i] \in RecordCells \cup {Bad}
      <4>1. i \in 1 .. n /\ i \in 3 .. Len(os)
        BY <2>0, <2>3, <2>5
      <4>2. os[i] \in RecordCells \cup {Bad}
        BY <4>1 DEF File
      <4> QED
        BY <2>6, <4>1, <4>2
    <3> QED
      BY <2>5, <3>1 DEF File
  <2>9. Worn(f, os)
    <3>1. Len(f) =< Len(os)
      BY <2>0, <2>3, <2>5
    <3> QED
      BY <2>5, <2>6, <2>8, <3>1 DEF Worn
  <2>10. Begins(Scan(f).records, Scan(os).records)
    BY <2>9, WornScan
  <2>11. CASE IsPrefixOf(disk, os)
    <3>1. kept = Len(disk) /\ Len(disk) =< n
      BY <2>0, <2>1, <2>2, <2>11
    <3>2. ASSUME NEW i \in 1 .. Len(disk) PROVE disk[i] = f[i]
      <4>1. SubSeq(os, 1, Len(disk)) = disk
        BY <2>11 DEF IsPrefixOf
      <4>2. \A j \in 1 .. Len(disk) : os[j] \in FileCells
        BY <2>0, <2>3, <2>4, <3>1
      <4>3. \A j \in 1 .. Len(disk) - 1 + 1 : SubSeq(os, 1, Len(disk))[j] = os[1 + j - 1]
        BY <2>0, <4>2, SubSeqProperties
      <4>4. disk[i] = os[i]
        BY <2>0, <4>1, <4>3
      <4>5. i \in 1 .. n /\ i =< kept
        BY <2>0, <2>3, <3>1
      <4> QED
        BY <2>7, <4>4, <4>5
    <3>3. Worn(disk, f)
      BY <2>5, <2>8, <3>1, <3>2 DEF Worn
    <3> QED
      BY <2>8, <2>10, <3>3, WornScan
  <2>12. CASE ~IsPrefixOf(disk, os)
    <3>1. n = Len(os) /\ kept = Len(os)
      BY <2>0, <2>1, <2>2, <2>12
    <3>2. ASSUME NEW i \in 1 .. Len(f) PROVE f[i] = os[i]
      <4>1. i \in 1 .. n /\ i =< kept
        BY <2>0, <2>5, <3>1
      <4> QED
        BY <2>7, <4>1
    <3>3. f = os
      BY <2>0, <2>5, <3>1, <3>2, SeqEqual
    <3> QED
      BY <2>8, <2>10, <3>3
  <2> QED
    BY <2>11, <2>12
<1> QED
  BY <1>3, <1>4

-----------------------------------------------------------------------------
(***************************************************************************)
(* The inductive invariant of the journal.  What a scan of the file and    *)
(* the buffer would read is the log: a writer that is open has nothing but *)
(* whole records in them, and knows how many; what was flushed is in the   *)
(* file, what was synced on the disk; and the disk has no record that the  *)
(* file has not.                                                           *)
(***************************************************************************)

WriterStates == {"none", "creating", "open", "failed", "ended"}

\* The records in a file.
Read(f) == Scan(f).records

FilesOk(o, b, d) ==
    /\ o \in Seq(FileCells) /\ b \in Seq(FileCells)
    /\ File(o \o b) /\ File(d)
    /\ Begins(Read(d), Read(o))

HeldOk(state, held, o, b) ==
    /\ state \in {"open", "creating"} => Clean(o \o b) /\ held = Len(Read(o \o b))
    /\ state = "none" => o = <<>> /\ b = <<>> /\ held = 0
    /\ state = "ended" => b = <<>>

MarksOk(flushed, synced, o, d) ==
    /\ flushed \in Nat /\ synced \in Nat
    /\ flushed =< Len(Read(o)) /\ synced =< Len(Read(d))

JournalInv ==
    /\ jw \in [state : WriterStates, held : Nat, next : Nat]
    /\ saved \in [flushed : Nat, synced : Nat, crashes : Nat]
    /\ FilesOk(os, buf, disk)
    /\ HeldOk(jw.state, jw.held, os, buf)
    /\ MarksOk(saved.flushed, saved.synced, os, disk)

\* A scan reads records, and the file reads as a front of what will be in it.
LEMMA FilesRead ==
    ASSUME NEW o, NEW b, NEW d, FilesOk(o, b, d)
    PROVE  /\ File(o) /\ File(d) /\ File(o \o b)
           /\ Read(o) \in Seq(Ids) /\ Read(d) \in Seq(Ids) /\ Read(o \o b) \in Seq(Ids)
           /\ Begins(Read(o), Read(o \o b))
           /\ Len(Read(o)) \in Nat /\ Len(Read(d)) \in Nat /\ Len(Read(o \o b)) \in Nat
           /\ Len(Read(d)) =< Len(Read(o)) /\ Len(Read(o)) =< Len(Read(o \o b))
<1>1. o \in Seq(FileCells) /\ b \in Seq(FileCells) /\ File(o \o b) /\ File(d) /\ Begins(Read(d), Read(o))
  BY DEF FilesOk
<1>2. File(o) /\ Worn(o, o \o b)
  BY <1>1, FrontWorn
<1>3. Begins(Read(o), Read(o \o b))
  BY <1>2, WornScan DEF Read
<1>4. Read(o) \in Seq(Ids) /\ Read(d) \in Seq(Ids) /\ Read(o \o b) \in Seq(Ids)
  BY <1>1, <1>2, ScanFacts DEF Read, ScanResults
<1>5. Len(Read(o)) \in Nat /\ Len(Read(d)) \in Nat /\ Len(Read(o \o b)) \in Nat
  BY <1>4, LenProperties
<1> QED
  BY <1>1, <1>2, <1>3, <1>4, <1>5 DEF Begins

\* o1 and b1 are the file and the buffer after a write of n cells.
Moved(o, b, n, o1, b1) ==
    /\ n \in 0 .. Len(b)
    /\ o1 = o \o SubSeq(b, 1, n) /\ b1 = SubSeq(b, n + 1, Len(b))

\* What a write keeps.
NothingLost(o, b, d, o1, b1) ==
    /\ o1 \o b1 = o \o b
    /\ FilesOk(o1, b1, d) /\ FilesOk(o1, <<>>, d) /\ o1 \o <<>> = o1
    /\ Len(Read(o)) =< Len(Read(o1))
    /\ Begins(Read(o1), Read(o \o b))

\* Some of the buffer is written: the file reads as a front of what it was to
\* become, and with more in it than before.
LEMMA WrittenOk ==
    ASSUME NEW o, NEW b, NEW d, FilesOk(o, b, d), NEW n, NEW o1, NEW b1, Moved(o, b, n, o1, b1)
    PROVE  NothingLost(o, b, d, o1, b1)
<1>1. o \in Seq(FileCells) /\ b \in Seq(FileCells) /\ File(o \o b) /\ File(d) /\ Begins(Read(d), Read(o))
  BY DEF FilesOk
<1>2. PICK c : c = SubSeq(b, 1, n)
  OBVIOUS
<1>3. c \in Seq(FileCells) /\ b1 \in Seq(FileCells) /\ o1 \in Seq(FileCells) /\ o1 \o b1 = o \o b /\ o1 = o \o c
  BY <1>1, <1>2, CutBuffer DEF Moved
<1>4. File(o1) /\ Worn(o1, o \o b)
  BY <1>1, <1>3, FrontWorn
<1>5. Begins(Read(o1), Read(o \o b))
  BY <1>4, WornScan DEF Read
<1>6. File(o) /\ Worn(o, o1)
  BY <1>1, <1>3, <1>4, FrontWorn
<1>7. Begins(Read(o), Read(o1))
  BY <1>6, WornScan DEF Read
<1>8. Read(o) \in Seq(Ids) /\ Read(o1) \in Seq(Ids) /\ Read(d) \in Seq(Ids)
  BY <1>1, <1>4, <1>6, ScanFacts DEF Read, ScanResults
<1>9. Begins(Read(d), Read(o1))
  BY <1>1, <1>7, <1>8, BeginsTrans
<1>10. o1 \o <<>> = o1 /\ <<>> \in Seq(FileCells)
  BY <1>3, ConcatEmptySeq, EmptySeq
<1>11. FilesOk(o1, b1, d) /\ FilesOk(o1, <<>>, d)
  BY <1>1, <1>3, <1>4, <1>9, <1>10 DEF FilesOk
<1> QED
  BY <1>3, <1>5, <1>7, <1>10, <1>11 DEF Begins, NothingLost

\* What the journal reads as.
Log == Read(os \o buf)

\* The steps of a durable log, or none.
LogStep ==
    \/ \E r \in Ids : Log' = Append(Log, r) /\ saved'.flushed = saved.flushed /\ saved'.synced = saved.synced
    \/ saved'.flushed = Len(Log) /\ Log' = Log /\ saved'.synced = saved.synced
    \/ saved'.flushed = Len(Log) /\ saved'.synced = Len(Log) /\ Log' = Log
    \/ \E n \in saved.flushed .. Len(Log) :
         Log' = SubSeq(Log, 1, n) /\ saved'.flushed = n /\ saved'.synced = saved.synced
    \/ \E n \in saved.synced .. Len(Log) :
         Log' = SubSeq(Log, 1, n) /\ saved'.flushed = n /\ saved'.synced = n
    \/ Log' = Log /\ saved'.flushed = saved.flushed /\ saved'.synced = saved.synced

\* A new journal.
LEMMA JournalStart == JournalInit => JournalInv /\ Log = <<>>
<1> SUFFICES ASSUME JournalInit PROVE JournalInv /\ Log = <<>>
  OBVIOUS
<1>1. os = <<>> /\ buf = <<>> /\ disk = <<>> /\ <<>> \in Seq(FileCells) /\ os \o buf = <<>>
  BY EmptySeq, ConcatEmptySeq DEF JournalInit
<1>2. File(<<>>) /\ Read(<<>>) = <<>> /\ Len(<<>>) = 0
  BY EmptyScan DEF Read
<1>3. Log = <<>>
  BY <1>1, <1>2 DEF Log
<1>4. FilesOk(os, buf, disk)
  BY <1>1, <1>2 DEF FilesOk, Begins
<1>5. jw = [state |-> "none", held |-> 0, next |-> 1] /\ saved = [flushed |-> 0, synced |-> 0, crashes |-> 0]
  BY DEF JournalInit
<1>6. jw.state = "none" /\ jw.held = 0 /\ jw \in [state : WriterStates, held : Nat, next : Nat]
  <2>1. PICK j : j = jw
    OBVIOUS
  <2>2. j = [state |-> "none", held |-> 0, next |-> 1]
    BY <1>5, <2>1
  <2>3. j.state = "none" /\ j.held = 0 /\ j \in [state : WriterStates, held : Nat, next : Nat]
    BY <2>2 DEF WriterStates
  <2> QED
    BY <2>1, <2>3
<1>7. saved \in [flushed : Nat, synced : Nat, crashes : Nat] /\ saved.flushed = 0 /\ saved.synced = 0
  <2>1. PICK s : s = saved
    OBVIOUS
  <2>2. s = [flushed |-> 0, synced |-> 0, crashes |-> 0]
    BY <1>5, <2>1
  <2>3. s \in [flushed : Nat, synced : Nat, crashes : Nat] /\ s.flushed = 0 /\ s.synced = 0
    BY <2>2
  <2> QED
    BY <2>1, <2>3
<1>8. HeldOk(jw.state, jw.held, os, buf)
  BY <1>1, <1>6 DEF HeldOk
<1>9. MarksOk(saved.flushed, saved.synced, os, disk)
  BY <1>1, <1>2, <1>7 DEF MarksOk
<1> QED
  BY <1>3, <1>4, <1>6, <1>7, <1>8, <1>9 DEF JournalInv

\* append.
LEMMA AppendStep ==
    ASSUME JournalInv, NEW n \in PayloadSizes, AppendRecord(n)
    PROVE  JournalInv' /\ LogStep
<1>1. PICK o, b, r, c, f : o = os /\ b = buf /\ r = jw.next /\ c = CellsOf(r, n) /\ f = o \o b
  OBVIOUS
<1>2. r \in Ids /\ n \in Nat \ {0} /\ jw.state = "open"
  BY <1>1, JournalAssumption DEF AppendRecord, JournalAssumption
<1>3. o \in Seq(FileCells) /\ b \in Seq(FileCells) /\ FilesOk(o, b, disk)
  BY <1>1 DEF JournalInv, FilesOk
<1>4. Clean(f) /\ jw.held = Len(Read(f))
  BY <1>1, <1>2 DEF JournalInv, HeldOk
<1>5. File(f) /\ Len(f) >= 2
  BY <1>4 DEF Clean, Headed
<1>6. Extended(f, r, n + 2, f \o c)
  BY <1>1, <1>2, <1>5, AppendExtends
<1>7. Clean(f \o c) /\ Read(f \o c) = Append(Read(f), r)
  BY <1>2, <1>4, <1>6, AppendScan DEF Read
<1>8. c \in Seq(FileCells)
  <2>1. c \in Seq(RecordCells)
    BY <1>1, <1>2, CellsFacts
  <2>2. RecordCells \subseteq FileCells
    BY DEF FileCells
  <2> QED
    BY <2>1, <2>2, SeqMonotonic
<1>9. f \o c = o \o (b \o c) /\ b \o c \in Seq(FileCells)
  <2>1. b \o c \in Seq(FileCells)
    BY <1>3, <1>8, ConcatProperties
  <2>2. (o \o b) \o c = o \o (b \o c)
    BY <1>3, <1>8, ConcatAssociative
  <2> QED
    BY <1>1, <2>1, <2>2
<1>10. os' = o /\ buf' = b \o c /\ disk' = disk /\ saved' = saved
       /\ jw' = [jw EXCEPT !.held = @ + 1, !.next = @ + 1]
  BY <1>1 DEF AppendRecord
<1>11. jw \in [state : WriterStates, held : Nat, next : Nat]
  BY DEF JournalInv
<1>12. jw' \in [state : WriterStates, held : Nat, next : Nat] /\ jw'.state = jw.state /\ jw'.held = jw.held + 1
  <2>1. PICK v, w, k, q : v = jw /\ w = jw' /\ k = jw.held + 1 /\ q = jw.next + 1
    OBVIOUS
  <2>2. k \in Nat /\ q \in Nat
    BY <1>11, <2>1
  <2>3. w = [v EXCEPT !.held = k, !.next = q] /\ v \in [state : WriterStates, held : Nat, next : Nat]
    BY <1>10, <1>11, <2>1
  <2>4. w \in [state : WriterStates, held : Nat, next : Nat] /\ w.state = v.state /\ w.held = k
    BY <2>2, <2>3
  <2> QED
    BY <2>1, <2>4
<1>13. Log = Read(f) /\ Log' = Append(Log, r)
  BY <1>1, <1>7, <1>9, <1>10 DEF Log
<1>14. File(f \o c)
  BY <1>7 DEF Clean
<1>15. FilesOk(os, buf, disk)'
  BY <1>3, <1>9, <1>10, <1>14 DEF FilesOk
<1>16. HeldOk(jw.state, jw.held, os, buf)'
  <2>1. Read(f) \in Seq(Ids)
    BY <1>5, ScanFacts DEF Read, ScanResults
  <2>2. Len(Append(Read(f), r)) = Len(Read(f)) + 1
    BY <1>2, <2>1, AppendProperties
  <2>3. PICK h : h = o \o (b \o c)
    OBVIOUS
  <2>4. Clean(h) /\ Len(Read(h)) = jw.held + 1 /\ h = (os \o buf)'
    BY <1>4, <1>7, <1>9, <1>10, <2>2, <2>3
  <2>5. jw'.state = "open" /\ jw'.held = Len(Read(h))
    BY <1>2, <1>12, <2>4
  <2> QED
    BY <2>4, <2>5 DEF HeldOk
<1>17. MarksOk(saved.flushed, saved.synced, os, disk)'
  BY <1>1, <1>10 DEF JournalInv, MarksOk
<1>18. JournalInv'
  BY <1>10, <1>12, <1>15, <1>16, <1>17 DEF JournalInv
<1> QED
  BY <1>2, <1>10, <1>13, <1>18 DEF LogStep

\* A write moves cells from the buffer to the file, and fails or not.
LEMMA WriteStep ==
    ASSUME JournalInv, Spill \/ WriteError
    PROVE  JournalInv' /\ LogStep
<1>1. PICK n \in 0 .. Len(buf) : Written(n)
  BY DEF Spill, WriteError
<1>2. FilesOk(os, buf, disk) /\ HeldOk(jw.state, jw.held, os, buf) /\ MarksOk(saved.flushed, saved.synced, os, disk)
      /\ jw \in [state : WriterStates, held : Nat, next : Nat]
      /\ saved \in [flushed : Nat, synced : Nat, crashes : Nat]
  BY DEF JournalInv
<1>3. os' = os \o SubSeq(buf, 1, n) /\ buf' = SubSeq(buf, n + 1, Len(buf))
  BY <1>1 DEF Written
<1>4. PICK o1, b1 : o1 = os' /\ b1 = buf'
  OBVIOUS
<1>5. /\ o1 \o b1 = os \o buf /\ FilesOk(o1, b1, disk)
      /\ Len(Read(os)) =< Len(Read(o1))
  <2>1. PICK o, b, d : o = os /\ b = buf /\ d = disk
    OBVIOUS
  <2>2. FilesOk(o, b, d) /\ n \in 0 .. Len(b) /\ o1 = o \o SubSeq(b, 1, n) /\ b1 = SubSeq(b, n + 1, Len(b))
    BY <1>2, <1>3, <1>4, <2>1
  <2>3. o1 \o b1 = o \o b /\ FilesOk(o1, b1, d) /\ Len(Read(o)) =< Len(Read(o1))
    <3>1. Moved(o, b, n, o1, b1)
      BY <2>2 DEF Moved
    <3>2. FilesOk(o, b, d)
      BY <2>2
    <3>3. NothingLost(o, b, d, o1, b1)
      BY <3>1, <3>2, WrittenOk
    <3> QED
      BY <3>3 DEF NothingLost
  <2> QED
    BY <2>1, <2>3
<1>6. disk' = disk /\ saved' = saved
  BY DEF Spill, WriteError
<1>7. jw.state \in {"open", "creating"} /\ (jw' = jw \/ jw' = [jw EXCEPT !.state = "failed"])
  BY DEF Spill, WriteError
<1>8. /\ jw' \in [state : WriterStates, held : Nat, next : Nat] /\ jw'.held = jw.held
      /\ jw'.state = jw.state \/ jw'.state = "failed"
  <2>1. CASE jw' = jw
    BY <1>2, <2>1
  <2>2. CASE jw' = [jw EXCEPT !.state = "failed"]
    BY <1>2, <2>2 DEF WriterStates
  <2> QED
    BY <1>7, <2>1, <2>2
<1>9. HeldOk(jw.state, jw.held, os, buf)'
  BY <1>2, <1>4, <1>5, <1>7, <1>8 DEF HeldOk
<1>10. MarksOk(saved.flushed, saved.synced, os, disk)'
  <2>1. Len(Read(os)) \in Nat /\ Len(Read(o1)) \in Nat
    BY <1>2, <1>5, FilesRead
  <2> QED
    BY <1>2, <1>4, <1>5, <1>6, <2>1 DEF MarksOk
<1>11. FilesOk(os, buf, disk)'
  BY <1>4, <1>5, <1>6
<1>12. JournalInv'
  BY <1>2, <1>6, <1>8, <1>9, <1>10, <1>11 DEF JournalInv
<1>13. Log' = Log
  BY <1>4, <1>5 DEF Log
<1> QED
  BY <1>6, <1>12, <1>13 DEF LogStep

\* flush.
LEMMA FlushStep ==
    ASSUME JournalInv, Flush
    PROVE  JournalInv' /\ LogStep
<1>1. FilesOk(os, buf, disk) /\ HeldOk(jw.state, jw.held, os, buf) /\ MarksOk(saved.flushed, saved.synced, os, disk)
      /\ jw \in [state : WriterStates, held : Nat, next : Nat]
      /\ saved \in [flushed : Nat, synced : Nat, crashes : Nat]
  BY DEF JournalInv
<1>2. PICK n : n = Len(buf)
  OBVIOUS
<1>3. buf \in Seq(FileCells) /\ n \in Nat /\ n \in 0 .. Len(buf)
  BY <1>1, <1>2, LenProperties DEF FilesOk
<1>4. os' = os \o SubSeq(buf, 1, n) /\ buf' = SubSeq(buf, n + 1, Len(buf))
  BY <1>2 DEF Flush, Written
<1>5. PICK o1, b1 : o1 = os' /\ b1 = buf'
  OBVIOUS
<1>6. /\ o1 \o b1 = os \o buf /\ FilesOk(o1, b1, disk) /\ o1 \o <<>> = o1
  <2>1. PICK o, b, d : o = os /\ b = buf /\ d = disk
    OBVIOUS
  <2>2. FilesOk(o, b, d) /\ n \in 0 .. Len(b) /\ o1 = o \o SubSeq(b, 1, n) /\ b1 = SubSeq(b, n + 1, Len(b))
    BY <1>1, <1>3, <1>4, <1>5, <2>1
  <2>3. o1 \o b1 = o \o b /\ FilesOk(o1, b1, d) /\ o1 \o <<>> = o1
    <3>1. Moved(o, b, n, o1, b1)
      BY <2>2 DEF Moved
    <3>2. FilesOk(o, b, d)
      BY <2>2
    <3>3. NothingLost(o, b, d, o1, b1)
      BY <3>1, <3>2, WrittenOk
    <3> QED
      BY <3>3 DEF NothingLost
  <2> QED
    BY <2>1, <2>3
<1>7. b1 = <<>>
  <2>1. n + 1 \in Int /\ Len(buf) \in Int /\ Len(buf) < n + 1
    BY <1>2, <1>3
  <2> QED
    BY <1>4, <1>5, <2>1, SubSeqEmpty
<1>8. disk' = disk /\ jw' = jw /\ saved' = [saved EXCEPT !.flushed = jw.held] /\ jw.state \in {"open", "creating"}
  BY DEF Flush
<1>9. jw.held = Len(Log) /\ Log' = Log /\ jw.held \in Nat
  BY <1>1, <1>5, <1>6, <1>8 DEF HeldOk, Log
<1>10. /\ saved' \in [flushed : Nat, synced : Nat, crashes : Nat]
       /\ saved'.flushed = jw.held /\ saved'.synced = saved.synced
  BY <1>1, <1>8, <1>9
<1>11. HeldOk(jw.state, jw.held, os, buf)'
  BY <1>1, <1>5, <1>6, <1>8 DEF HeldOk
<1>12. Len(Read(o1)) = jw.held
  BY <1>5, <1>6, <1>7, <1>9 DEF Log
<1>13. MarksOk(saved.flushed, saved.synced, os, disk)'
  BY <1>1, <1>5, <1>8, <1>9, <1>10, <1>12 DEF MarksOk
<1>14. JournalInv'
  BY <1>1, <1>5, <1>6, <1>8, <1>10, <1>11, <1>13 DEF JournalInv
<1> QED
  BY <1>9, <1>10, <1>14 DEF LogStep

\* sync.
LEMMA SyncStep ==
    ASSUME JournalInv, Sync
    PROVE  JournalInv' /\ LogStep
<1>1. FilesOk(os, buf, disk) /\ HeldOk(jw.state, jw.held, os, buf)
      /\ jw \in [state : WriterStates, held : Nat, next : Nat]
      /\ saved \in [flushed : Nat, synced : Nat, crashes : Nat]
  BY DEF JournalInv
<1>2. os' = os /\ buf' = buf /\ disk' = os /\ buf = <<>> /\ jw.state \in {"open", "creating"}
      /\ jw' = [jw EXCEPT !.state = "open"]
      /\ saved' = [saved EXCEPT !.flushed = jw.held, !.synced = jw.held]
  BY DEF Sync
<1>3. jw' \in [state : WriterStates, held : Nat, next : Nat] /\ jw'.state = "open" /\ jw'.held = jw.held
  BY <1>1, <1>2 DEF WriterStates
<1>4. jw.held = Len(Log) /\ jw.held \in Nat /\ Log' = Log
  BY <1>1, <1>2 DEF HeldOk, Log
<1>5. /\ saved' \in [flushed : Nat, synced : Nat, crashes : Nat]
      /\ saved'.flushed = jw.held /\ saved'.synced = jw.held
  BY <1>1, <1>2, <1>4
<1>6. os \o buf = os /\ os \in Seq(FileCells) /\ File(os)
  BY <1>1, <1>2, ConcatEmptySeq DEF FilesOk
<1>7. Begins(Read(os), Read(os))
  <2>1. Len(Read(os)) \in Nat
    BY <1>1, FilesRead
  <2> QED
    BY <2>1 DEF Begins
<1>8. FilesOk(os, buf, disk)'
  BY <1>1, <1>2, <1>6, <1>7 DEF FilesOk
<1>9. HeldOk(jw.state, jw.held, os, buf)'
  BY <1>1, <1>2, <1>3 DEF HeldOk
<1>10. MarksOk(saved.flushed, saved.synced, os, disk)'
  BY <1>2, <1>4, <1>5, <1>6 DEF MarksOk, Log
<1>11. JournalInv'
  BY <1>3, <1>5, <1>8, <1>9, <1>10 DEF JournalInv
<1> QED
  BY <1>4, <1>5, <1>11 DEF LogStep

\* create.
LEMMA CreateStep ==
    ASSUME JournalInv, Create
    PROVE  JournalInv' /\ LogStep
<1>1. FilesOk(os, buf, disk) /\ HeldOk(jw.state, jw.held, os, buf) /\ MarksOk(saved.flushed, saved.synced, os, disk)
      /\ jw \in [state : WriterStates, held : Nat, next : Nat]
  BY DEF JournalInv
<1>2. jw.state = "none" /\ buf' = Header /\ os' = <<>> /\ jw' = [jw EXCEPT !.state = "creating"]
      /\ disk' = disk /\ saved' = saved
  BY DEF Create
<1>3. os = <<>> /\ buf = <<>> /\ jw.held = 0
  BY <1>1, <1>2 DEF HeldOk
<1>4. jw' \in [state : WriterStates, held : Nat, next : Nat] /\ jw'.state = "creating" /\ jw'.held = 0
  BY <1>1, <1>2, <1>3 DEF WriterStates
<1>5. PICK h : h = Header
  OBVIOUS
<1>6. Clean(h) /\ Read(h) = <<>> /\ File(h) /\ h \in Seq(FileCells)
  BY <1>5, HeaderScan DEF Read, Clean, File
<1>7. <<>> \in Seq(FileCells) /\ <<>> \o h = h /\ <<>> \o <<>> = <<>> /\ Len(<<>>) = 0
  BY <1>6, ConcatEmptySeq, EmptySeq
<1>8. Read(<<>>) = <<>>
  BY EmptyScan DEF Read
<1>9. FilesOk(os, buf, disk)'
  BY <1>1, <1>2, <1>3, <1>5, <1>6, <1>7 DEF FilesOk
<1>10. HeldOk(jw.state, jw.held, os, buf)'
  BY <1>2, <1>4, <1>5, <1>6, <1>7 DEF HeldOk
<1>11. MarksOk(saved.flushed, saved.synced, os, disk)'
  BY <1>1, <1>2, <1>3 DEF MarksOk
<1>12. JournalInv'
  BY <1>2, <1>4, <1>9, <1>10, <1>11 DEF JournalInv
<1>13. Log' = Log
  BY <1>2, <1>3, <1>5, <1>6, <1>7, <1>8 DEF Log
<1> QED
  BY <1>2, <1>12, <1>13 DEF LogStep

\* recover.
LEMMA RecoverStep ==
    ASSUME JournalInv, Recover
    PROVE  JournalInv' /\ LogStep
<1>1. FilesOk(os, buf, disk) /\ HeldOk(jw.state, jw.held, os, buf) /\ MarksOk(saved.flushed, saved.synced, os, disk)
      /\ jw \in [state : WriterStates, held : Nat, next : Nat]
  BY DEF JournalInv
<1>2. /\ jw.state = "ended" /\ os' = SubSeq(os, 1, Scan(os).valid)
      /\ jw' = [jw EXCEPT !.state = IF Scan(os).valid < Len(Header) THEN "none" ELSE "open",
                          !.held = Len(Scan(os).records)]
      /\ disk' = disk /\ saved' = saved /\ buf' = buf
  BY DEF Recover
<1>3. buf = <<>>
  BY <1>1, <1>2 DEF HeldOk
<1>4. PICK o, h, k, st : o = os /\ h = os' /\ k = Len(Read(o))
                         /\ st = IF Scan(o).valid < 2 THEN "none" ELSE "open"
  OBVIOUS
<1>5. File(o) /\ o \in Seq(FileCells) /\ Read(o) \in Seq(Ids) /\ k \in Nat
  BY <1>1, <1>4, FilesRead DEF FilesOk
<1>6. jw' = [jw EXCEPT !.state = st, !.held = k]
  <2>1. Len(Header) = 2
    BY DEF Header
  <2> QED
    BY <1>2, <1>4, <2>1 DEF Read
<1>7. st \in WriterStates
  BY <1>4 DEF WriterStates
<1>8. jw' \in [state : WriterStates, held : Nat, next : Nat] /\ jw'.state = st /\ jw'.held = k
  BY <1>1, <1>5, <1>6, <1>7
<1>9. h = SubSeq(o, 1, Scan(o).valid)
  BY <1>2, <1>4
<1>10. /\ File(h) /\ Read(h) = Read(o)
       /\ st = "none" => h = <<>> /\ k = 0
       /\ st = "open" => Clean(h)
       /\ st \in {"none", "open"}
  <2>1. CASE Headed(o)
    <3>1. Clean(h) /\ Read(h) = Read(o)
      BY <1>5, <1>9, <2>1, CutScan DEF Read
    <3>2. Scan(o).valid >= 2 /\ Scan(o).valid \in 0 .. Len(o) /\ Len(o) \in Nat
      BY <1>5, <2>1, ScanFacts, FileFacts
    <3>3. st = "open"
      BY <1>4, <3>2
    <3> QED
      BY <3>1, <3>3 DEF Clean
  <2>2. CASE ~Headed(o)
    <3>1. Scan(o).valid = 0 /\ Read(o) = <<>>
      BY <1>5, <2>2, ScanFacts DEF Read
    <3>2. h = <<>>
      <4>1. 1 \in Int /\ 0 \in Int /\ 0 < 1
        OBVIOUS
      <4>2. SubSeq(o, 1, 0) = <<>>
        BY <4>1, SubSeqEmpty
      <4> QED
        BY <1>9, <3>1, <4>2
    <3>3. st = "none" /\ k = 0
      BY <1>4, <3>1
    <3>4. File(h) /\ Read(h) = <<>>
      BY <3>2, EmptyScan DEF Read
    <3> QED
      BY <3>1, <3>2, <3>3, <3>4
  <2> QED
    BY <2>1, <2>2
<1>11. h \in Seq(FileCells) /\ h \o <<>> = h /\ o \o <<>> = o /\ <<>> \in Seq(FileCells)
  BY <1>5, <1>10, ConcatEmptySeq, EmptySeq DEF File
<1>12. FilesOk(os, buf, disk)'
  BY <1>1, <1>2, <1>3, <1>4, <1>10, <1>11 DEF FilesOk
<1>13. HeldOk(jw.state, jw.held, os, buf)'
  <2>1. os' \o buf' = h /\ os' = h /\ buf' = <<>>
    BY <1>2, <1>3, <1>4, <1>11
  <2>2. k = Len(Read(h))
    BY <1>4, <1>10
  <2> QED
    BY <1>8, <1>10, <2>1, <2>2 DEF HeldOk
<1>14. MarksOk(saved.flushed, saved.synced, os, disk)'
  BY <1>1, <1>2, <1>4, <1>10 DEF MarksOk
<1>15. JournalInv'
  BY <1>2, <1>8, <1>12, <1>13, <1>14 DEF JournalInv
<1>16. Log' = Log
  BY <1>2, <1>3, <1>4, <1>10, <1>11 DEF Log
<1> QED
  BY <1>2, <1>15, <1>16 DEF LogStep

\* The process ends.
LEMMA ProcessEndStep ==
    ASSUME JournalInv, ProcessEnd
    PROVE  JournalInv' /\ LogStep
<1>1. FilesOk(os, buf, disk) /\ HeldOk(jw.state, jw.held, os, buf) /\ MarksOk(saved.flushed, saved.synced, os, disk)
      /\ jw \in [state : WriterStates, held : Nat, next : Nat]
      /\ saved \in [flushed : Nat, synced : Nat, crashes : Nat]
  BY DEF JournalInv
<1>2. PICK n \in 0 .. Len(buf) :
         /\ os' = os \o SubSeq(buf, 1, n)
         /\ saved' = [saved EXCEPT !.crashes = @ + 1, !.flushed = Len(Scan(os').records)]
  BY DEF ProcessEnd
<1>3. buf' = <<>> /\ jw' = [jw EXCEPT !.state = "ended"] /\ disk' = disk
  BY DEF ProcessEnd
<1>4. PICK o, b, d, o1, b1, k : o = os /\ b = buf /\ d = disk /\ o1 = os' /\ b1 = SubSeq(buf, n + 1, Len(buf))
                              /\ k = Len(Read(o1))
  OBVIOUS
<1>5. FilesOk(o, b, d) /\ n \in 0 .. Len(b) /\ o1 = o \o SubSeq(b, 1, n) /\ b1 = SubSeq(b, n + 1, Len(b))
  BY <1>1, <1>2, <1>4
<1>6. /\ FilesOk(o1, <<>>, d) /\ o1 \o <<>> = o1
      /\ Len(Read(o)) =< k /\ Begins(Read(o1), Read(o \o b))
  <2>1. Moved(o, b, n, o1, b1)
    BY <1>5 DEF Moved
  <2>2. NothingLost(o, b, d, o1, b1)
    BY <1>5, <2>1, WrittenOk
  <2> QED
    BY <1>4, <2>2 DEF NothingLost
<1>7. /\ Read(o) \in Seq(Ids) /\ Read(o1) \in Seq(Ids) /\ Read(o \o b) \in Seq(Ids)
      /\ Len(Read(o)) \in Nat /\ k \in Nat /\ Len(Read(o \o b)) \in Nat
  BY <1>4, <1>5, <1>6, FilesRead
<1>8. Read(o1) = SubSeq(Read(o \o b), 1, k) /\ k =< Len(Read(o \o b))
  BY <1>4, <1>6, <1>7, BeginsSubSeq
<1>9. jw' \in [state : WriterStates, held : Nat, next : Nat] /\ jw'.state = "ended"
  BY <1>1, <1>3 DEF WriterStates
<1>10. /\ saved' \in [flushed : Nat, synced : Nat, crashes : Nat]
       /\ saved'.flushed = k /\ saved'.synced = saved.synced
  <2>1. PICK v, w, c : v = saved /\ w = saved' /\ c = saved.crashes + 1
    OBVIOUS
  <2>2. w = [v EXCEPT !.crashes = c, !.flushed = k]
    BY <1>2, <1>4, <2>1 DEF Read
  <2>3. c \in Nat /\ v \in [flushed : Nat, synced : Nat, crashes : Nat]
    BY <1>1, <2>1
  <2>4. w \in [flushed : Nat, synced : Nat, crashes : Nat] /\ w.flushed = k /\ w.synced = v.synced
    BY <1>7, <2>2, <2>3
  <2> QED
    BY <2>1, <2>4
<1>11. FilesOk(os, buf, disk)'
  BY <1>3, <1>4, <1>6
<1>12. HeldOk(jw.state, jw.held, os, buf)'
  BY <1>3, <1>9 DEF HeldOk
<1>13. MarksOk(saved.flushed, saved.synced, os, disk)'
  BY <1>1, <1>3, <1>4, <1>7, <1>10 DEF MarksOk
<1>14. JournalInv'
  BY <1>9, <1>10, <1>11, <1>12, <1>13 DEF JournalInv
<1>15. Log = Read(o \o b) /\ Log' = Read(o1)
  BY <1>3, <1>4, <1>6 DEF Log
<1>16. k \in saved.flushed .. Len(Log)
  BY <1>1, <1>4, <1>6, <1>7, <1>8, <1>15 DEF MarksOk
<1>17. Log' = SubSeq(Log, 1, k) /\ saved'.flushed = k /\ saved'.synced = saved.synced
  BY <1>8, <1>10, <1>15
<1> QED
  BY <1>14, <1>16, <1>17 DEF LogStep

\* Power is lost.
LEMMA PowerLossStep ==
    ASSUME JournalInv, PowerLoss
    PROVE  JournalInv' /\ LogStep
<1>1. FilesOk(os, buf, disk) /\ MarksOk(saved.flushed, saved.synced, os, disk)
      /\ jw \in [state : WriterStates, held : Nat, next : Nat]
      /\ saved \in [flushed : Nat, synced : Nat, crashes : Nat]
  BY DEF JournalInv
<1>2. PICK f \in AfterPowerLoss :
         /\ os' = f
         /\ disk' = f
         /\ saved' = [crashes |-> saved.crashes + 1, flushed |-> Len(Scan(f).records),
                      synced |-> Len(Scan(f).records)]
  BY DEF PowerLoss
<1>3. buf' = <<>> /\ jw' = [jw EXCEPT !.state = "ended"]
  BY DEF PowerLoss
<1>4. /\ File(os) /\ File(disk) /\ Begins(Read(os), Log)
      /\ Read(os) \in Seq(Ids) /\ Read(disk) \in Seq(Ids) /\ Log \in Seq(Ids)
      /\ Begins(Read(disk), Read(os)) /\ Len(Read(disk)) \in Nat
  BY <1>1, FilesRead DEF Log, FilesOk
<1>5. File(f) /\ Begins(Read(f), Read(os)) /\ Begins(Read(disk), Read(f))
  BY <1>4, PowerLossKeeps DEF Read
<1>6. PICK k : k = Len(Read(f))
  OBVIOUS
<1>7. Read(f) \in Seq(Ids) /\ k \in Nat
  <2>1. Read(f) \in Seq(Ids)
    BY <1>5, ScanFacts DEF Read, ScanResults
  <2> QED
    BY <1>6, <2>1, LenProperties
<1>8. Begins(Read(f), Log)
  BY <1>4, <1>5, <1>7, BeginsTrans
<1>9. Read(f) = SubSeq(Log, 1, k) /\ k =< Len(Log) /\ Len(Log) \in Nat
  BY <1>4, <1>6, <1>7, <1>8, BeginsSubSeq, LenProperties
<1>10. jw' \in [state : WriterStates, held : Nat, next : Nat] /\ jw'.state = "ended"
  BY <1>1, <1>3 DEF WriterStates
<1>11. /\ saved' \in [flushed : Nat, synced : Nat, crashes : Nat]
       /\ saved'.flushed = k /\ saved'.synced = k
  <2>1. PICK c : c = saved.crashes + 1
    OBVIOUS
  <2>2. c \in Nat
    BY <1>1, <2>1
  <2>3. saved' = [crashes |-> c, flushed |-> k, synced |-> k]
    BY <1>2, <1>6, <2>1 DEF Read
  <2> QED
    BY <1>7, <2>2, <2>3
<1>12. f \in Seq(FileCells) /\ f \o <<>> = f /\ <<>> \in Seq(FileCells)
  BY <1>5, ConcatEmptySeq, EmptySeq DEF File
<1>13. Begins(Read(f), Read(f))
  BY <1>6, <1>7 DEF Begins
<1>14. FilesOk(os, buf, disk)'
  BY <1>2, <1>3, <1>5, <1>12, <1>13 DEF FilesOk
<1>15. HeldOk(jw.state, jw.held, os, buf)'
  BY <1>3, <1>10 DEF HeldOk
<1>16. MarksOk(saved.flushed, saved.synced, os, disk)'
  BY <1>2, <1>6, <1>7, <1>11 DEF MarksOk
<1>17. JournalInv'
  BY <1>10, <1>11, <1>14, <1>15, <1>16 DEF JournalInv
<1>18. Log' = SubSeq(Log, 1, k)
  BY <1>2, <1>3, <1>9, <1>12 DEF Log
<1>19. k \in saved.synced .. Len(Log)
  BY <1>1, <1>4, <1>5, <1>6, <1>7, <1>9 DEF MarksOk, Begins
<1> QED
  BY <1>11, <1>17, <1>18, <1>19 DEF LogStep

\* journal.hpp:14 and 170: whatever the sizes of the records and the number of
\* crashes, the journal is a durable log.
THEOREM JournalKeepsRecords == JournalSpec => JournalIsDurable
<1>1. JournalInit => JournalInv /\ Durable!Init
  <2> SUFFICES ASSUME JournalInit PROVE JournalInv /\ Durable!Init
    OBVIOUS
  <2>1. JournalInv /\ Scan(os \o buf).records = <<>>
    BY JournalStart DEF Log, Read
  <2>2. saved.flushed = 0 /\ saved.synced = 0
    BY DEF JournalInit
  <2> QED
    BY <2>1, <2>2 DEF Durable!Init
<1>2. JournalInv /\ [JournalNext]_journalVars
        => JournalInv' /\ [Durable!Next]_<<Scan(os \o buf).records, saved.flushed, saved.synced>>
  <2> SUFFICES ASSUME JournalInv, [JournalNext]_journalVars
               PROVE  /\ JournalInv'
                      /\ [Durable!Next]_<<Scan(os \o buf).records, saved.flushed, saved.synced>>
    OBVIOUS
  <2>1. JournalInv' /\ LogStep
    <3>1. CASE UNCHANGED journalVars
      BY <3>1 DEF journalVars, JournalInv, FilesOk, HeldOk, MarksOk, LogStep, Log
    <3>2. ASSUME NEW n \in PayloadSizes, AppendRecord(n) PROVE JournalInv' /\ LogStep
      BY <3>2, AppendStep
    <3> QED
      BY <3>1, <3>2, WriteStep, FlushStep, SyncStep, CreateStep, RecoverStep, ProcessEndStep, PowerLossStep
         DEF JournalNext
  <2> QED
    BY <2>1 DEF LogStep, Log, Read, Durable!Next, Durable!Append1, Durable!Flush, Durable!Sync,
                Durable!LoseAllBut, Durable!ProcessEnd, Durable!PowerLoss
<1> QED
  BY <1>1, <1>2, PTL DEF JournalSpec, JournalIsDurable, Durable!Spec

-----------------------------------------------------------------------------
(***************************************************************************)
(* The order index.  Positions of the table are counted around it, from    *)
(* the place that a fingerprint picks.                                     *)
(***************************************************************************)

Positions == 0 .. TableSize - 1

\* The slots before and after slot i.
Following(i) == (i + 1) % TableSize
Preceding(i) == (i - 1) % TableSize

\* The size of the table.
LEMMA TableSizeFacts == TableSize \in Nat \ {0} /\ Nil \notin Keys /\ Nil \notin Slots /\ Slots \subseteq Nat
                        /\ \A k \in Keys : Fingerprint(k) \in Nat
BY IndexAssumption DEF IndexAssumption

\* Distance and place are inverse.
LEMMA ProbeDist ==
    ASSUME NEW i \in Positions, NEW fp \in Int
    PROVE  Dist(i, fp) \in Positions /\ Probe(fp, Dist(i, fp)) = i
<1>1. PICK C : C = TableSize
  OBVIOUS
<1>2. C \in Nat \ {0} /\ i \in 0 .. C - 1
  BY <1>1, TableSizeFacts DEF Positions
<1>3. i - fp \in Int
  BY <1>2
<1>4. PICK a : a = (i - fp) % C
  OBVIOUS
<1>5. a \in 0 .. C - 1 /\ \E k \in Int : i - fp = C * k + a
  BY <1>2, <1>3, <1>4, ModFacts
<1>6. PICK k \in Int : i - fp = C * k + a
  BY <1>5
<1>7. fp + a \in Int /\ fp + a = C * (- k) + i /\ - k \in Int
  BY <1>2, <1>5, <1>6
<1>8. (C * (- k) + i) % C = i
  BY <1>2, <1>7, ModUnique
<1> QED
  BY <1>1, <1>4, <1>5, <1>7, <1>8 DEF Dist, Probe, Positions

\* The place at a distance, and the distance of that place.
LEMMA DistProbe ==
    ASSUME NEW fp \in Int, NEW d \in Positions
    PROVE  Probe(fp, d) \in Positions /\ Dist(Probe(fp, d), fp) = d
<1>1. PICK C : C = TableSize
  OBVIOUS
<1>2. C \in Nat \ {0} /\ d \in 0 .. C - 1
  BY <1>1, TableSizeFacts DEF Positions
<1>3. fp + d \in Int
  BY <1>2
<1>4. PICK a : a = (fp + d) % C
  OBVIOUS
<1>5. a \in 0 .. C - 1 /\ \E k \in Int : fp + d = C * k + a
  BY <1>2, <1>3, <1>4, ModFacts
<1>6. PICK k \in Int : fp + d = C * k + a
  BY <1>5
<1>7. a - fp \in Int /\ a - fp = C * (- k) + d /\ - k \in Int
  BY <1>2, <1>5, <1>6
<1>8. (C * (- k) + d) % C = d
  BY <1>2, <1>7, ModUnique
<1> QED
  BY <1>1, <1>4, <1>5, <1>7, <1>8 DEF Dist, Probe, Positions

\* One step further is the slot that follows.
LEMMA ProbeNext ==
    ASSUME NEW fp \in Int, NEW d \in Nat
    PROVE  Probe(fp, d + 1) = Following(Probe(fp, d))
<1>1. PICK C : C = TableSize
  OBVIOUS
<1>2. C \in Nat \ {0}
  BY <1>1, TableSizeFacts
<1>3. fp + d \in Int
  OBVIOUS
<1>4. PICK a : a = (fp + d) % C
  OBVIOUS
<1>5. a \in 0 .. C - 1 /\ \E k \in Int : fp + d = C * k + a
  BY <1>2, <1>3, <1>4, ModFacts
<1>6. PICK k \in Int : fp + d = C * k + a
  BY <1>5
<1>7. PICK j \in Int : j = C * k
  BY <1>2
<1>8. fp + (d + 1) = (a + 1) + j /\ a + 1 \in Int
  BY <1>5, <1>6, <1>7
<1>9. ((a + 1) + C * k) % C = (a + 1) % C
  BY <1>2, <1>8, ModShift
<1> QED
  BY <1>1, <1>4, <1>7, <1>8, <1>9 DEF Probe, Following

\* Neighbours.
LEMMA Neighbours ==
    ASSUME NEW i \in Positions
    PROVE  /\ Following(i) = IF i = TableSize - 1 THEN 0 ELSE i + 1
           /\ Preceding(i) = IF i = 0 THEN TableSize - 1 ELSE i - 1
           /\ Following(i) \in Positions /\ Preceding(i) \in Positions
           /\ Preceding(Following(i)) = i /\ Following(Preceding(i)) = i
           /\ TableSize > 1 => Following(i) # i /\ Preceding(i) # i
<1>1. PICK C : C = TableSize
  OBVIOUS
<1>2. C \in Nat \ {0} /\ i \in 0 .. C - 1
  BY <1>1, TableSizeFacts DEF Positions
<1>3. ASSUME NEW a \in 0 .. C - 1
      PROVE  /\ (a + 1) % C = IF a = C - 1 THEN 0 ELSE a + 1
             /\ (a - 1) % C = IF a = 0 THEN C - 1 ELSE a - 1
  <2>1. a \in Int /\ C * 1 = C /\ C * (-1) = - C
    BY <1>2
  <2>2. ASSUME a = C - 1 PROVE (a + 1) % C = 0
    <3>1. a + 1 = C * 1 + 0 /\ 0 \in 0 .. C - 1
      BY <1>2, <2>1, <2>2
    <3>2. (C * 1 + 0) % C = 0
      BY <1>2, <3>1, ModUnique
    <3> QED
      BY <2>2, <3>1, <3>2
  <2>3. ASSUME a # C - 1 PROVE (a + 1) % C = a + 1
    <3>1. a + 1 \in 0 .. C - 1
      BY <1>2, <2>3
    <3> QED
      BY <1>2, <2>3, <3>1, ModSmall
  <2>4. ASSUME a = 0 PROVE (a - 1) % C = C - 1
    <3>1. a - 1 = C * (-1) + (C - 1) /\ C - 1 \in 0 .. C - 1 /\ -1 \in Int
      BY <1>2, <2>1, <2>4
    <3>2. (C * (-1) + (C - 1)) % C = C - 1
      BY <1>2, <3>1, ModUnique
    <3> QED
      BY <2>4, <3>1, <3>2
  <2>5. ASSUME a # 0 PROVE (a - 1) % C = a - 1
    <3>1. a - 1 \in 0 .. C - 1
      BY <1>2, <2>5
    <3> QED
      BY <1>2, <2>5, <3>1, ModSmall
  <2>6. (a + 1) % C = IF a = C - 1 THEN 0 ELSE a + 1
    BY <2>2, <2>3
  <2>7. (a - 1) % C = IF a = 0 THEN C - 1 ELSE a - 1
    BY <2>4, <2>5
  <2> QED
    BY <2>6, <2>7
<1>4. /\ Following(i) = IF i = C - 1 THEN 0 ELSE i + 1
      /\ Preceding(i) = IF i = 0 THEN C - 1 ELSE i - 1
  BY <1>1, <1>2, <1>3 DEF Following, Preceding
<1>5. Following(i) \in 0 .. C - 1 /\ Preceding(i) \in 0 .. C - 1
  BY <1>2, <1>4
<1>6. PICK f, g : f = Following(i) /\ g = Preceding(i)
  OBVIOUS
<1>7. f \in 0 .. C - 1 /\ g \in 0 .. C - 1
  BY <1>5, <1>6
<1>8. /\ Preceding(f) = IF f = 0 THEN C - 1 ELSE f - 1
      /\ Following(g) = IF g = C - 1 THEN 0 ELSE g + 1
  BY <1>1, <1>3, <1>7 DEF Following, Preceding
<1>9. Preceding(f) = i /\ Following(g) = i
  BY <1>2, <1>4, <1>6, <1>8
<1> QED
  BY <1>1, <1>2, <1>4, <1>5, <1>6, <1>9 DEF Positions

\* The distance of the slot that follows.
LEMMA DistNext ==
    ASSUME NEW i \in Positions, NEW fp \in Int, Dist(i, fp) < TableSize - 1
    PROVE  Dist(Following(i), fp) = Dist(i, fp) + 1
<1>1. PICK d : d = Dist(i, fp)
  OBVIOUS
<1>2. d \in Positions /\ Probe(fp, d) = i
  BY <1>1, ProbeDist
<1>3. d + 1 \in Positions /\ d \in Nat
  BY <1>1, <1>2, TableSizeFacts DEF Positions
<1>4. Probe(fp, d + 1) = Following(i)
  BY <1>2, <1>3, ProbeNext
<1> QED
  BY <1>1, <1>3, <1>4, DistProbe

\* The distance of the slot before.
LEMMA DistPrevious ==
    ASSUME NEW i \in Positions, NEW fp \in Int, Dist(i, fp) # 0
    PROVE  Dist(Preceding(i), fp) = Dist(i, fp) - 1
<1>1. PICK d, e : d = Dist(i, fp) /\ e = d - 1
  OBVIOUS
<1>2. d \in Positions /\ Probe(fp, d) = i /\ d # 0
  BY <1>1, ProbeDist
<1>3. e \in Positions /\ e \in Nat /\ d = e + 1
  BY <1>1, <1>2, TableSizeFacts DEF Positions
<1>4. Probe(fp, e + 1) = Following(Probe(fp, e))
  BY <1>3, ProbeNext
<1>5. Probe(fp, e) \in Positions /\ Dist(Probe(fp, e), fp) = e
  BY <1>3, DistProbe
<1>6. Preceding(i) = Probe(fp, e)
  BY <1>2, <1>3, <1>4, <1>5, Neighbours
<1> QED
  BY <1>1, <1>5, <1>6

\* The least of a set of numbers.
LEMMA LeastOf ==
    ASSUME NEW S, S \subseteq Nat, S # {}
    PROVE  Min(S) \in S /\ \A y \in S : Min(S) =< y
<1>1. \E x \in S : \A y \in S : x =< y
  BY NatMin
<1> QED
  BY <1>1 DEF Min

-----------------------------------------------------------------------------
(***************************************************************************)
(* The inductive invariant of the index: the table holds every order of    *)
(* the store once, under its fingerprint, in Robin Hood order.             *)
(***************************************************************************)

Entries == [fp : Nat, value : Slots \cup {Nil}]

IsTable(t) == t \in [Positions -> Entries]

Occupied(t, i) == t[i].value # Nil

\* How far the entry at slot i is from its home.
Away(t, i) == Dist(i, t[i].fp)

\* The entry at slot i may be where it is, d from its home.
FitsAt(t, i, d) == d > 0 => Occupied(t, Preceding(i)) /\ d =< Away(t, Preceding(i)) + 1

Ordered(t) == \A i \in Positions : Occupied(t, i) => FitsAt(t, i, Away(t, i))

\* The entry e is that of an order in the store st.
EntryOk(e, st) == e.value \in Slots /\ st[e.value] # Nil /\ e.fp = Fingerprint(st[e.value])

IsStore(st) ==
    /\ st \in [Slots -> Keys \cup {Nil}]
    /\ \A v, w \in Slots : st[v] = st[w] /\ st[v] # Nil => v = w

\* The table holds the orders of the store, but for those in V.
HoldsAllBut(t, st, V) ==
    /\ \A i \in Positions : Occupied(t, i) => EntryOk(t[i], st) /\ t[i].value \notin V
    /\ \A i, j \in Positions : Occupied(t, i) /\ t[i].value = t[j].value => i = j
    /\ \A v \in Slots : st[v] # Nil /\ v \notin V => \E i \in Positions : t[i].value = v

IndexOk(t, st) == IsTable(t) /\ Ordered(t) /\ IsStore(st) /\ HoldsAllBut(t, st, {})

\* A table has slots whose entries have a fingerprint and a value.
LEMMA TableFacts ==
    ASSUME NEW t, IsTable(t), NEW i \in Positions
    PROVE  /\ t[i] \in Entries /\ t[i].fp \in Nat /\ t[i].fp \in Int
           /\ Occupied(t, i) => t[i].value \in Slots
           /\ Away(t, i) \in Positions /\ Away(t, i) \in Nat
<1>1. t[i] \in Entries
  BY DEF IsTable
<1>2. t[i].fp \in Nat /\ t[i].fp \in Int /\ t[i].value \in Slots \cup {Nil}
  BY <1>1 DEF Entries
<1>3. Away(t, i) \in Positions
  BY <1>2, ProbeDist DEF Away
<1> QED
  BY <1>1, <1>2, <1>3 DEF Occupied, Positions

\* At most half of the table is used.
LEMMA RoomLeft ==
    ASSUME NEW t, IsTable(t),
           \A i, j \in Positions : Occupied(t, i) /\ t[i].value = t[j].value => i = j
    PROVE  \E m \in Positions : ~Occupied(t, m)
<1> SUFFICES ASSUME \A m \in Positions : Occupied(t, m) PROVE FALSE
  OBVIOUS
<1>1. IsFiniteSet(Slots) /\ TableSize >= 2 * Cardinality(Slots)
  BY IndexAssumption DEF IndexAssumption
<1>2. TableSize \in Nat \ {0} /\ Cardinality(Slots) \in Nat
  BY <1>1, TableSizeFacts, FS_CardinalityType
<1>3. IsFiniteSet(Positions) /\ Cardinality(Positions) = TableSize
  <2>1. 0 \in Int /\ TableSize - 1 \in Int
    BY <1>2
  <2>2. IsFiniteSet(0 .. TableSize - 1)
        /\ Cardinality(0 .. TableSize - 1) = IF 0 > TableSize - 1 THEN 0 ELSE TableSize - 1 - 0 + 1
    BY <2>1, FS_Interval
  <2> QED
    BY <1>2, <2>2 DEF Positions
<1> DEFINE f == [i \in Positions |-> t[i].value]
<1>4. f \in [Positions -> Slots]
  BY TableFacts
<1>5. Cardinality(Positions) > Cardinality(Slots)
  BY <1>1, <1>2, <1>3
<1>6. \E x, y \in Positions : x # y /\ f[x] = f[y]
  <2> HIDE DEF f
  <2> QED
    BY <1>1, <1>3, <1>4, <1>5, FS_PigeonHole
<1> QED
  BY <1>6

\* Between its home and an entry every slot is taken, by an entry that is as far
\* from its own home at least.
LEMMA OnTheWay ==
    ASSUME NEW t, IsTable(t), Ordered(t), NEW i \in Positions, Occupied(t, i), NEW fp, fp = t[i].fp,
           NEW d \in 0 .. Away(t, i)
    PROVE  Occupied(t, Probe(fp, d)) /\ Away(t, Probe(fp, d)) >= d
<1>1. fp \in Int /\ Away(t, i) \in Positions /\ Away(t, i) \in Nat
  BY TableFacts
<1> DEFINE N == Away(t, i)
           S == {n \in 0 .. N : Occupied(t, Probe(fp, n)) /\ Away(t, Probe(fp, n)) >= n}
<1>2. Probe(fp, N) = i
  BY <1>1, ProbeDist DEF Away
<1>3. ASSUME NEW n \in 0 .. N, \A m \in n + 1 .. N : m \in S PROVE n \in S
  <2>1. CASE n = N
    BY <1>1, <1>2, <2>1
  <2>2. CASE n # N
    <3>1. n + 1 \in n + 1 .. N /\ n \in Nat /\ n \in Positions /\ n + 1 \in Positions
      BY <1>1, <2>2, TableSizeFacts DEF Positions
    <3>2. Occupied(t, Probe(fp, n + 1)) /\ Away(t, Probe(fp, n + 1)) >= n + 1
      BY <1>3, <3>1
    <3>3. PICK j, k : j = Probe(fp, n + 1) /\ k = Probe(fp, n)
      OBVIOUS
    <3>4. j \in Positions /\ k \in Positions /\ j = Following(k)
      BY <1>1, <3>1, <3>3, DistProbe, ProbeNext
    <3>5. Preceding(j) = k
      BY <3>4, Neighbours
    <3>6. Away(t, j) \in Nat /\ Away(t, k) \in Nat /\ Away(t, j) >= n + 1 /\ Occupied(t, j)
      BY <3>2, <3>3, <3>4, TableFacts
    <3>7. Occupied(t, k) /\ Away(t, j) =< Away(t, k) + 1
      <4>1. Away(t, j) > 0
        BY <3>1, <3>6
      <4> QED
        BY <3>4, <3>5, <3>6, <4>1 DEF Ordered, FitsAt
    <3>8. Away(t, k) >= n
      BY <3>1, <3>6, <3>7
    <3> QED
      BY <3>3, <3>7, <3>8
  <2> QED
    BY <2>1, <2>2
<1>4. 0 .. N \subseteq S
  <2>1. N \in Nat
    BY <1>1
  <2> HIDE DEF S, N
  <2> QED
    BY <1>3, <2>1, DownFrom
<1>5. d \in S
  <2> HIDE DEF S
  <2> QED
    BY <1>4
<1> QED
  BY <1>5

\* A lookup finds an order that is in the store.
LEMMA FindsPresent ==
    ASSUME IndexOk(table, store), NEW v \in Slots, store[v] # Nil, NEW key, key = store[v]
    PROVE  /\ Find(key) = v
           /\ Probe(Fingerprint(key), Stop(key)) \in Positions
           /\ table[Probe(Fingerprint(key), Stop(key))].value = v
<1>1. IsTable(table) /\ Ordered(table) /\ IsStore(store) /\ HoldsAllBut(table, store, {})
  BY DEF IndexOk
<1>2. PICK i \in Positions : table[i].value = v
  BY <1>1 DEF HoldsAllBut
<1>3. PICK fp, s : fp = Fingerprint(key) /\ s = Away(table, i)
  OBVIOUS
<1>4. Occupied(table, i)
  BY <1>2, TableSizeFacts DEF Occupied
<1>5. table[i].fp = fp
  BY <1>1, <1>2, <1>3, <1>4 DEF HoldsAllBut, EntryOk
<1>6. s \in Positions /\ fp \in Int /\ s \in Nat /\ s = Dist(i, fp)
  BY <1>1, <1>3, <1>5, TableFacts DEF Away
<1>7. Probe(fp, s) = i
  BY <1>6, ProbeDist
<1> DEFINE S == {d \in 0 .. TableSize - 1 : NotBeyond(fp, d) \/ Matches(key, d)}
<1>8. Matches(key, s) /\ ~NotBeyond(fp, s)
  <2>1. Matches(key, s)
    BY <1>2, <1>3, <1>4, <1>5, <1>7 DEF Matches, Occupied
  <2>2. Dist(i, table[i].fp) = s
    BY <1>5, <1>6
  <2> QED
    BY <1>4, <1>6, <1>7, <2>1, <2>2 DEF NotBeyond, Occupied
<1>9. ASSUME NEW d \in S PROVE d >= s
  <2> SUFFICES ASSUME d < s PROVE FALSE
    BY <1>6 DEF Positions
  <2>1. d \in Positions /\ d \in Nat /\ d \in 0 .. s
    BY <1>6, TableSizeFacts DEF Positions
  <2>2. PICK j : j = Probe(fp, d)
    OBVIOUS
  <2>3. j \in Positions /\ Dist(j, fp) = d
    BY <1>6, <2>1, <2>2, DistProbe
  <2>4. Occupied(table, j) /\ Away(table, j) >= d
    BY <1>1, <1>3, <1>4, <1>5, <2>1, <2>2, OnTheWay
  <2>5. Away(table, j) \in Nat
    BY <1>1, <2>3, TableFacts
  <2>6. ~NotBeyond(fp, d)
    BY <2>1, <2>2, <2>4, <2>5 DEF NotBeyond, Occupied, Away
  <2>7. Matches(key, d)
    BY <2>6
  <2>8. table[j].value \in Slots /\ store[table[j].value] = key
    BY <1>1, <1>3, <2>2, <2>3, <2>4, <2>7, TableFacts DEF Matches
  <2>9. table[j].value = v
    BY <1>1, <2>8 DEF IsStore
  <2>10. j = i
    BY <1>1, <1>2, <2>3, <2>4, <2>9 DEF HoldsAllBut
  <2> QED
    BY <1>6, <2>1, <2>3, <2>10
<1>10. Stop(key) = s
  <2>1. s \in S
    BY <1>6, <1>8 DEF Positions
  <2>2. S \subseteq Nat
    BY TableSizeFacts
  <2>3. Stop(key) = Min(S)
    BY <1>3 DEF Stop
  <2> HIDE DEF S
  <2>4. Min(S) \in S /\ Min(S) =< s /\ Min(S) \in Nat
    BY <2>1, <2>2, LeastOf
  <2>5. Min(S) >= s
    BY <1>9, <2>4
  <2> QED
    BY <1>6, <2>3, <2>4, <2>5
<1> QED
  BY <1>2, <1>3, <1>7, <1>8, <1>10 DEF Find

\* A lookup of any other id finds nothing.
LEMMA FindsAbsent ==
    ASSUME IndexOk(table, store), NEW key \in Keys, \A v \in Slots : store[v] # key
    PROVE  Find(key) = Nil
<1>1. IsTable(table) /\ IsStore(store) /\ HoldsAllBut(table, store, {})
  BY DEF IndexOk
<1>2. PICK fp : fp = Fingerprint(key)
  OBVIOUS
<1>3. fp \in Int
  BY <1>2, TableSizeFacts
<1>4. PICK m \in Positions : ~Occupied(table, m)
  BY <1>1, RoomLeft DEF HoldsAllBut
<1>5. PICK e : e = Dist(m, fp)
  OBVIOUS
<1>6. e \in Positions /\ Probe(fp, e) = m
  BY <1>3, <1>5, ProbeDist
<1> DEFINE S == {d \in 0 .. TableSize - 1 : NotBeyond(fp, d) \/ Matches(key, d)}
<1>7. NotBeyond(fp, e)
  BY <1>4, <1>6 DEF NotBeyond, Occupied
<1>8. Stop(key) \in S
  <2>1. e \in S /\ S \subseteq Nat
    BY <1>6, <1>7, TableSizeFacts DEF Positions
  <2>2. Stop(key) = Min(S)
    BY <1>2 DEF Stop
  <2> HIDE DEF S
  <2> QED
    BY <2>1, <2>2, LeastOf
<1>9. ~Matches(key, Stop(key))
  <2>1. PICK d, j : d = Stop(key) /\ j = Probe(fp, d)
    OBVIOUS
  <2>2. d \in Positions
    BY <1>8, <2>1 DEF Positions
  <2>3. j \in Positions
    BY <1>3, <2>1, <2>2, DistProbe
  <2>4. Occupied(table, j) => table[j].value \in Slots
    BY <1>1, <2>3, TableFacts
  <2> QED
    BY <1>2, <2>1, <2>4 DEF Matches, Occupied
<1>10. NotBeyond(fp, Stop(key))
  BY <1>8, <1>9
<1> QED
  BY <1>2, <1>10 DEF Find

\* The invariant gives the property.
LEMMA IndexOkAgrees == IndexOk(table, store) => LookupsAgree
<1> SUFFICES ASSUME IndexOk(table, store) PROVE LookupsAgree
  OBVIOUS
<1>1. IsTable(table) /\ Ordered(table) /\ IsStore(store)
  BY DEF IndexOk
<1>2. RobinHoodOrdered
  BY <1>1 DEF RobinHoodOrdered, Ordered, FitsAt, Occupied, Away, Preceding, Positions
<1>3. ASSUME NEW key \in Keys
      PROVE  Find(key) = IF \E v \in Slots : store[v] = key
                         THEN CHOOSE v \in Slots : store[v] = key ELSE Nil
  <2>1. CASE \E v \in Slots : store[v] = key
    <3>1. PICK v \in Slots : store[v] = key
      BY <2>1
    <3>2. store[v] # Nil
      BY <3>1, TableSizeFacts
    <3>3. Find(key) = v
      BY <3>1, <3>2, FindsPresent
    <3>4. \A w \in Slots : store[w] = key => w = v
      BY <1>1, <3>1, <3>2 DEF IsStore
    <3>5. (CHOOSE w \in Slots : store[w] = key) = v
      BY <3>1, <3>4
    <3> QED
      BY <2>1, <3>3, <3>5
  <2>2. CASE ~\E v \in Slots : store[v] = key
    BY <2>2, FindsAbsent
  <2> QED
    BY <2>1, <2>2
<1> QED
  BY <1>2, <1>3 DEF LookupsAgree

-----------------------------------------------------------------------------
(* Insertion. *)

\* An entry is put where one of its distance fits: into a free slot, or in the
\* place of one that is nearer to its home.
LEMMA PlaceKeepsOrder ==
    ASSUME NEW t, IsTable(t), Ordered(t), NEW i \in Positions, NEW c \in Entries, c.value # Nil,
           FitsAt(t, i, Dist(i, c.fp)), Occupied(t, i) => Away(t, i) < Dist(i, c.fp),
           NEW u, u = [t EXCEPT ![i] = c]
    PROVE  IsTable(u) /\ Ordered(u) /\ Occupied(u, i) /\ Away(u, i) = Dist(i, c.fp)
<1>1. IsTable(u)
  BY DEF IsTable
<1>2. u[i] = c /\ \A j \in Positions : j # i => u[j] = t[j]
  BY DEF IsTable
<1>3. Occupied(u, i) /\ Away(u, i) = Dist(i, c.fp)
  BY <1>2 DEF Occupied, Away
<1>4. PICK d : d = Dist(i, c.fp)
  OBVIOUS
<1>5. d \in Positions /\ d \in Nat
  <2>1. c.fp \in Int
    BY DEF Entries
  <2>2. d \in Positions
    BY <1>4, <2>1, ProbeDist
  <2> QED
    BY <2>2 DEF Positions
<1>6. TableSize \in Nat \ {0}
  BY TableSizeFacts
<1>7. ASSUME NEW j \in Positions, Occupied(u, j) PROVE FitsAt(u, j, Away(u, j))
  <2>1. PICK p : p = Preceding(j)
    OBVIOUS
  <2>2. p \in Positions
    BY <2>1, Neighbours
  <2> SUFFICES ASSUME Away(u, j) > 0 PROVE Occupied(u, p) /\ Away(u, j) =< Away(u, p) + 1
    BY <2>1 DEF FitsAt
  <2>3. CASE j = i
    <3>1. d > 0 /\ Away(u, j) = d
      BY <1>3, <1>4, <2>3
    <3>2. TableSize > 1
      BY <1>5, <1>6, <3>1 DEF Positions
    <3>3. p # i
      BY <2>1, <2>3, <3>2, Neighbours
    <3>4. Occupied(t, p) /\ d =< Away(t, p) + 1
      BY <1>4, <2>1, <2>3, <3>1 DEF FitsAt
    <3> QED
      BY <1>2, <2>2, <3>1, <3>3, <3>4 DEF Occupied, Away
  <2>4. CASE j # i
    <3>1. Occupied(t, j) /\ Away(t, j) = Away(u, j)
      BY <1>2, <1>7, <2>4 DEF Occupied, Away
    <3>2. Occupied(t, p) /\ Away(t, j) =< Away(t, p) + 1
      BY <2>1, <3>1 DEF Ordered, FitsAt
    <3>3. CASE p = i
      <4>1. Away(t, i) < d /\ Away(t, i) \in Nat /\ Away(t, j) \in Nat
        BY <1>4, <3>2, <3>3, TableFacts
      <4>2. Away(t, j) =< d + 1
        BY <1>5, <3>2, <3>3, <4>1
      <4> QED
        BY <1>3, <1>4, <3>1, <3>3, <4>2
    <3>4. CASE p # i
      BY <1>2, <2>2, <3>1, <3>2, <3>4 DEF Occupied, Away
    <3> QED
      BY <3>3, <3>4
  <2> QED
    BY <2>3, <2>4
<1> QED
  BY <1>1, <1>3, <1>7 DEF Ordered

\* A displaced entry, or one that moved on, fits at the next slot.
LEMMA FitsNext ==
    ASSUME NEW t, IsTable(t), NEW i \in Positions, Occupied(t, i), NEW d \in Nat, d =< Away(t, i)
    PROVE  FitsAt(t, Following(i), d + 1)
<1>1. Preceding(Following(i)) = i
  BY Neighbours
<1>2. Away(t, i) \in Nat
  BY TableFacts
<1> QED
  BY <1>1, <1>2 DEF FitsAt

\* An entry put into the table is there, and the one that it displaces is not.
LEMMA PlaceKeepsOrders ==
    ASSUME NEW t, IsTable(t), NEW st, NEW i \in Positions, NEW c \in Entries, EntryOk(c, st),
           HoldsAllBut(t, st, {c.value}), NEW u, u = [t EXCEPT ![i] = c]
    PROVE  /\ ~Occupied(t, i) => HoldsAllBut(u, st, {})
           /\ Occupied(t, i) => HoldsAllBut(u, st, {t[i].value}) /\ EntryOk(t[i], st)
<1>1. u[i] = c /\ \A j \in Positions : j # i => u[j] = t[j]
  BY DEF IsTable
<1>2. c.value \in Slots /\ c.value # Nil
  BY TableSizeFacts DEF EntryOk
<1>3. PICK V : V = IF Occupied(t, i) THEN {t[i].value} ELSE {}
  OBVIOUS
<1>4. ASSUME NEW j \in Positions, Occupied(u, j) PROVE EntryOk(u[j], st) /\ u[j].value \notin V
  <2>1. CASE j = i
    BY <1>1, <1>3, <2>1 DEF HoldsAllBut
  <2>2. CASE j # i
    <3>1. u[j] = t[j] /\ Occupied(t, j)
      BY <1>1, <1>4, <2>2 DEF Occupied
    <3>2. EntryOk(t[j], st)
      BY <3>1 DEF HoldsAllBut
    <3>3. Occupied(t, i) => t[j].value # t[i].value
      BY <2>2, <3>1 DEF HoldsAllBut
    <3> QED
      BY <1>3, <3>1, <3>2, <3>3
  <2> QED
    BY <2>1, <2>2
<1>5. ASSUME NEW j \in Positions, NEW k \in Positions, Occupied(u, j), u[j].value = u[k].value
      PROVE  j = k
  <2>1. \A x \in Positions : x # i /\ Occupied(u, x) => u[x] = t[x] /\ Occupied(t, x) /\ t[x].value # c.value
    <3> TAKE x \in Positions
    <3> HAVE x # i /\ Occupied(u, x)
    <3>1. u[x] = t[x] /\ Occupied(t, x)
      BY <1>1 DEF Occupied
    <3> QED
      BY <3>1 DEF HoldsAllBut
  <2>2. Occupied(u, k)
    BY <1>5 DEF Occupied
  <2>3. CASE j = i /\ k # i
    BY <1>1, <1>5, <2>1, <2>2, <2>3
  <2>4. CASE j # i /\ k = i
    BY <1>1, <1>5, <2>1, <2>4
  <2>5. CASE j # i /\ k # i
    <3>1. Occupied(t, j) /\ t[j].value = t[k].value
      BY <1>5, <2>1, <2>2, <2>5
    <3> QED
      BY <3>1 DEF HoldsAllBut
  <2> QED
    BY <2>3, <2>4, <2>5
<1>6. ASSUME NEW v \in Slots, st[v] # Nil, v \notin V PROVE \E j \in Positions : u[j].value = v
  <2>1. CASE v = c.value
    BY <1>1, <2>1
  <2>2. CASE v # c.value
    <3>1. PICK j \in Positions : t[j].value = v
      BY <1>6, <2>2 DEF HoldsAllBut
    <3>2. Occupied(t, j)
      BY <3>1, TableSizeFacts DEF Occupied
    <3>3. j # i
      BY <1>3, <1>6, <3>1, <3>2
    <3> QED
      BY <1>1, <3>1, <3>3
  <2> QED
    BY <2>1, <2>2
<1>7. HoldsAllBut(u, st, V)
  BY <1>4, <1>5, <1>6 DEF HoldsAllBut
<1>8. Occupied(t, i) => V = {t[i].value} /\ EntryOk(t[i], st)
  BY <1>3 DEF HoldsAllBut
<1>9. ~Occupied(t, i) => V = {}
  BY <1>3
<1> QED
  BY <1>7, <1>8, <1>9

\* The states of the insertion loop.
Turns == [table : [Positions -> Entries], i : Positions, d : Nat, cur : Entries]

\* The loop has put down the last entry.
Settled(p, st) == p.cur = Empty /\ IsTable(p.table) /\ Ordered(p.table) /\ HoldsAllBut(p.table, st, {})

\* The loop is n slots from home, with an entry in hand; m slots from home there
\* is a free one.
Placing(p, st, home, n, m) ==
    /\ IsTable(p.table) /\ Ordered(p.table)
    /\ p.cur \in Entries /\ EntryOk(p.cur, st) /\ HoldsAllBut(p.table, st, {p.cur.value})
    /\ n \in Nat /\ m \in Positions /\ n =< m /\ ~Occupied(p.table, Probe(home, m))
    /\ p.i = Probe(home, n)
    /\ p.d = Dist(p.i, p.cur.fp) /\ p.d =< n
    /\ FitsAt(p.table, p.i, p.d)

\* One turn keeps the loop's types.
LEMMA TurnTypes ==
    ASSUME NEW p \in Turns
    PROVE  Settle1(p) \in Turns
<1>1. p.table \in [Positions -> Entries] /\ p.i \in Positions /\ p.d \in Nat /\ p.cur \in Entries
  BY DEF Turns
<1>2. PICK e, sd, f : e = p.table[p.i] /\ sd = Dist(p.i, e.fp) /\ f = (p.i + 1) % TableSize
  OBVIOUS
<1>3. e \in Entries /\ sd \in Nat /\ f \in Positions
  <2>1. e \in Entries
    BY <1>1, <1>2
  <2>2. e.fp \in Int
    BY <2>1 DEF Entries
  <2>3. sd \in Positions
    BY <1>1, <1>2, <2>2, ProbeDist
  <2>4. f \in Positions
    BY <1>1, <1>2, Neighbours DEF Following
  <2> QED
    BY <2>1, <2>3, <2>4 DEF Positions
<1>4. Empty \in Entries
  BY DEF Empty, Entries
<1>5. PICK w : w = [p.table EXCEPT ![p.i] = p.cur]
  OBVIOUS
<1>6. w \in [Positions -> Entries]
  BY <1>1, <1>5
<1>7. \/ Settle1(p) = p
      \/ Settle1(p) = [p EXCEPT !.table = w, !.cur = Empty]
      \/ Settle1(p) = [p EXCEPT !.i = f, !.table = w, !.cur = e, !.d = sd + 1]
      \/ Settle1(p) = [p EXCEPT !.i = f, !.d = p.d + 1]
  BY <1>1, <1>2, <1>5 DEF Settle1, Turns
<1>8. PICK q, k, l : q = Settle1(p) /\ k = sd + 1 /\ l = p.d + 1
  OBVIOUS
<1>9. k \in Nat /\ l \in Nat
  BY <1>1, <1>3, <1>8
<1>10. CASE q = p
  BY <1>8, <1>10
<1>11. CASE q = [p EXCEPT !.table = w, !.cur = Empty]
  BY <1>4, <1>6, <1>8, <1>11 DEF Turns
<1>12. CASE q = [p EXCEPT !.i = f, !.table = w, !.cur = e, !.d = k]
  BY <1>3, <1>6, <1>8, <1>9, <1>12 DEF Turns
<1>13. CASE q = [p EXCEPT !.i = f, !.d = l]
  BY <1>3, <1>8, <1>9, <1>13 DEF Turns
<1> QED
  BY <1>7, <1>8, <1>10, <1>11, <1>12, <1>13

\* One turn puts the entry in hand down for good, or goes on with one in hand.
LEMMA TurnStep ==
    ASSUME NEW p \in Turns, NEW st, NEW home \in Int, NEW n, NEW m, Placing(p, st, home, n, m)
    PROVE  Settled(Settle1(p), st) \/ Placing(Settle1(p), st, home, n + 1, m)
<1>1. PICK t, i, d, c, q : t = p.table /\ i = p.i /\ d = p.d /\ c = p.cur /\ q = Settle1(p)
  OBVIOUS
<1>2. /\ IsTable(t) /\ Ordered(t) /\ c \in Entries /\ EntryOk(c, st) /\ HoldsAllBut(t, st, {c.value})
      /\ n \in Nat /\ m \in Positions /\ n =< m /\ ~Occupied(t, Probe(home, m))
      /\ i = Probe(home, n) /\ d = Dist(i, c.fp) /\ d =< n /\ FitsAt(t, i, d)
  BY <1>1 DEF Placing
<1>3. i \in Positions /\ d \in Nat
  BY <1>1 DEF Turns
<1>4. PICK e, sd, f, w : e = t[i] /\ sd = Dist(i, e.fp) /\ f = Following(i) /\ w = [t EXCEPT ![i] = c]
  OBVIOUS
<1>5. c # Empty /\ c.value # Nil
  BY <1>2, TableSizeFacts DEF EntryOk, Empty
<1>6. e \in Entries /\ e.fp \in Int /\ sd = Away(t, i) /\ sd \in Nat
  BY <1>2, <1>3, <1>4, TableFacts DEF Away
<1>7. CASE e.value = Nil
  <2>1. q = [p EXCEPT !.table = w, !.cur = Empty]
    BY <1>1, <1>4, <1>5, <1>7 DEF Settle1, Turns
  <2>2. q.table = w /\ q.cur = Empty
    BY <2>1 DEF Turns
  <2>3. ~Occupied(t, i)
    BY <1>4, <1>7 DEF Occupied
  <2>4. IsTable(w) /\ Ordered(w)
    BY <1>2, <1>3, <1>4, <1>5, <2>3, PlaceKeepsOrder
  <2>5. HoldsAllBut(w, st, {})
    BY <1>2, <1>3, <1>4, <2>3, PlaceKeepsOrders
  <2> QED
    BY <1>1, <2>2, <2>4, <2>5 DEF Settled
<1>8. CASE e.value # Nil
  <2>1. Occupied(t, i)
    BY <1>4, <1>8 DEF Occupied
  <2>2. n # m
    BY <1>2, <2>1
  <2>3. TableSize \in Nat \ {0} /\ m \in 0 .. TableSize - 1
    BY <1>2, TableSizeFacts DEF Positions
  <2>4. n + 1 \in Nat /\ n + 1 =< m /\ d < TableSize - 1
    BY <1>2, <1>3, <2>2, <2>3
  <2>5. f = Probe(home, n + 1)
    BY <1>2, <1>4, ProbeNext
  <2>6. CASE sd < d
    <3>1. q = [p EXCEPT !.i = f, !.table = w, !.cur = e, !.d = sd + 1]
      BY <1>1, <1>4, <1>5, <1>8, <2>6 DEF Settle1, Turns, Following
    <3>2. q.table = w /\ q.cur = e /\ q.i = f /\ q.d = sd + 1
      BY <3>1 DEF Turns
    <3>3. IsTable(w) /\ Ordered(w) /\ Occupied(w, i) /\ Away(w, i) = d
      <4>1. Away(t, i) < Dist(i, c.fp)
        BY <1>2, <1>6, <2>6
      <4>2. FitsAt(t, i, Dist(i, c.fp))
        BY <1>2
      <4>3. IsTable(t) /\ Ordered(t) /\ c \in Entries /\ c.value # Nil /\ w = [t EXCEPT ![i] = c]
        BY <1>2, <1>4, <1>5
      <4>4. IsTable(w) /\ Ordered(w) /\ Occupied(w, i) /\ Away(w, i) = Dist(i, c.fp)
        BY <1>3, <4>1, <4>2, <4>3, PlaceKeepsOrder
      <4> QED
        BY <1>2, <4>4
    <3>4. HoldsAllBut(w, st, {e.value}) /\ EntryOk(e, st)
      BY <1>2, <1>3, <1>4, <2>1, PlaceKeepsOrders
    <3>5. ~Occupied(w, Probe(home, m))
      <4>1. Probe(home, m) \in Positions /\ Probe(home, m) # i
        BY <1>2, <2>1, DistProbe
      <4>2. w[Probe(home, m)] = t[Probe(home, m)]
        BY <1>2, <1>4, <4>1 DEF IsTable
      <4> QED
        BY <1>2, <4>2 DEF Occupied
    <3>6. sd + 1 = Dist(f, e.fp)
      <4>1. sd < TableSize - 1
        BY <1>3, <1>6, <2>3, <2>4, <2>6
      <4> QED
        BY <1>3, <1>4, <1>6, <4>1, DistNext
    <3>7. sd + 1 =< n + 1
      BY <1>2, <1>3, <1>6, <2>6
    <3>8. FitsAt(w, f, sd + 1)
      <4>1. sd =< Away(w, i)
        BY <1>3, <1>6, <2>6, <3>3
      <4> QED
        BY <1>3, <1>4, <1>6, <3>3, <4>1, FitsNext
    <3>9. Placing(q, st, home, n + 1, m)
      BY <1>2, <1>6, <2>4, <2>5, <3>2, <3>3, <3>4, <3>5, <3>6, <3>7, <3>8 DEF Placing
    <3> QED
      BY <1>1, <3>9
  <2>7. CASE ~(sd < d)
    <3>1. q = [p EXCEPT !.i = f, !.d = d + 1]
      BY <1>1, <1>4, <1>5, <1>8, <2>7 DEF Settle1, Turns, Following
    <3>2. q.table = t /\ q.cur = c /\ q.i = f /\ q.d = d + 1
      BY <1>1, <3>1 DEF Turns
    <3>3. d + 1 = Dist(f, c.fp)
      <4>1. c.fp \in Int
        BY <1>2 DEF Entries
      <4> QED
        BY <1>2, <1>3, <1>4, <2>4, <4>1, DistNext
    <3>4. d + 1 =< n + 1
      BY <1>2, <1>3
    <3>5. FitsAt(t, f, d + 1)
      <4>1. d =< Away(t, i)
        BY <1>3, <1>6, <2>7
      <4> QED
        BY <1>2, <1>3, <1>4, <2>1, <4>1, FitsNext
    <3>6. Placing(q, st, home, n + 1, m)
      BY <1>2, <2>4, <2>5, <3>2, <3>3, <3>4, <3>5 DEF Placing
    <3> QED
      BY <1>1, <3>6
  <2> QED
    BY <2>6, <2>7
<1> QED
  BY <1>7, <1>8

\* insert ends within one round of the table, with the new order in it.
LEMMA InsertedOk ==
    ASSUME IndexOk(table, store), NEW key \in Keys, NEW value \in Slots, store[value] = Nil,
           \A v \in Slots : store[v] # key
    PROVE  IndexOk(Inserted(key, value), [store EXCEPT ![value] = key])
<1>1. IsTable(table) /\ Ordered(table) /\ IsStore(store) /\ HoldsAllBut(table, store, {})
  BY DEF IndexOk
<1>2. PICK st, fp, c : st = [store EXCEPT ![value] = key] /\ fp = Fingerprint(key)
                       /\ c = [fp |-> fp, value |-> value]
  OBVIOUS
<1>3. fp \in Nat /\ fp \in Int /\ c \in Entries /\ c.fp = fp /\ c.value = value
  BY <1>2, TableSizeFacts DEF Entries
<1>4. IsStore(st) /\ st[value] = key /\ \A v \in Slots : v # value => st[v] = store[v]
  BY <1>1, <1>2, TableSizeFacts DEF IsStore
<1>5. EntryOk(c, st) /\ HoldsAllBut(table, st, {value})
  <2>1. key # Nil
    BY TableSizeFacts
  <2>2. EntryOk(c, st)
    BY <1>2, <1>3, <1>4, <2>1 DEF EntryOk
  <2>3. ASSUME NEW j \in Positions, Occupied(table, j)
        PROVE  EntryOk(table[j], st) /\ table[j].value # value
    <3>1. EntryOk(table[j], store)
      BY <1>1, <2>3 DEF HoldsAllBut
    <3>2. table[j].value # value
      BY <3>1 DEF EntryOk
    <3> QED
      BY <1>4, <3>1, <3>2 DEF EntryOk
  <2>4. \A v \in Slots : st[v] # Nil /\ v # value => \E j \in Positions : table[j].value = v
    BY <1>1, <1>4 DEF HoldsAllBut
  <2>5. \A j, k \in Positions : Occupied(table, j) /\ table[j].value = table[k].value => j = k
    BY <1>1 DEF HoldsAllBut
  <2> QED
    BY <2>2, <2>3, <2>4, <2>5 DEF HoldsAllBut
<1>6. PICK h \in Positions : ~Occupied(table, h)
  BY <1>1, RoomLeft DEF HoldsAllBut
<1>7. PICK m : m = Dist(h, fp)
  OBVIOUS
<1>8. m \in Positions /\ Probe(fp, m) = h
  BY <1>3, <1>6, <1>7, ProbeDist
<1>9. TableSize \in Nat \ {0} /\ 0 \in Positions /\ m \in Nat
  BY <1>8, TableSizeFacts DEF Positions
<1> DEFINE start == [table |-> table, i |-> Home(fp), d |-> 0, cur |-> c]
           Raw(g) == [n \in 0 .. TableSize |-> IF n = 0 THEN start ELSE Settle1(g[n - 1])]
           turn == CHOOSE g : g = Raw(g)
<1>10. Inserted(key, value) = turn[TableSize].table
  BY <1>2 DEF Inserted
<1>11. Home(fp) = Probe(fp, 0) /\ Probe(fp, 0) \in Positions /\ Dist(Probe(fp, 0), fp) = 0
  <2>1. fp + 0 = fp
    BY <1>3
  <2> QED
    BY <1>3, <1>9, <2>1, DistProbe DEF Home, Probe
<1>12. start \in Turns
  BY <1>1, <1>3, <1>11 DEF Turns, IsTable
<1>13. Placing(start, st, fp, 0, m)
  <2>1. PICK p : p = start
    OBVIOUS
  <2>2. p.table = table /\ p.i = Home(fp) /\ p.d = 0 /\ p.cur = c
    BY <2>1
  <2>3. FitsAt(table, p.i, 0) /\ p.d = Dist(p.i, p.cur.fp) /\ 0 =< m
    BY <1>3, <1>9, <1>11, <2>2 DEF FitsAt
  <2>4. Placing(p, st, fp, 0, m)
    BY <1>1, <1>3, <1>5, <1>6, <1>8, <1>11, <2>2, <2>3 DEF Placing
  <2> QED
    BY <2>1, <2>4
<1> HIDE DEF start
<1>14. turn = Raw(turn)
  <2> DEFINE F == [k \in 1 .. TableSize |-> [p \in Turns |-> Settle1(p)]]
  <2>1. F \in [1 .. TableSize -> [Turns -> Turns]]
    BY TurnTypes
  <2>2. PICK g : IsIteration(g, TableSize, Turns, start, F)
    <3> HIDE DEF F
    <3> QED
      BY <1>9, <1>12, <2>1, IterationExists
  <2>3. g \in [0 .. TableSize -> Turns] /\ g[0] = start /\ \A k \in 1 .. TableSize : g[k] = F[k][g[k - 1]]
    BY <2>2 DEF IsIteration
  <2>4. ASSUME NEW k \in 0 .. TableSize PROVE g[k] = IF k = 0 THEN start ELSE Settle1(g[k - 1])
    <3>1. CASE k = 0
      BY <2>3, <3>1
    <3>2. CASE k # 0
      <4>1. k \in 1 .. TableSize /\ k - 1 \in 0 .. TableSize
        BY <1>9, <3>2
      <4>2. g[k - 1] \in Turns
        BY <2>3, <4>1
      <4> QED
        BY <2>3, <3>2, <4>1, <4>2
    <3> QED
      BY <3>1, <3>2
  <2>5. g = Raw(g)
    <3>1. g = [k \in 0 .. TableSize |-> g[k]]
      BY <2>3
    <3> QED
      BY <2>4, <3>1
  <2> HIDE DEF Raw
  <2> QED
    BY <2>5
<1> HIDE DEF turn
<1>15. turn[0] = start /\ \A n \in 1 .. TableSize : turn[n] = Settle1(turn[n - 1])
  BY <1>9, <1>14
<1> DEFINE S == {n \in 0 .. TableSize : turn[n] \in Turns /\ (Settled(turn[n], st) \/ Placing(turn[n], st, fp, n, m))}
<1>16. 0 \in S
  BY <1>9, <1>12, <1>13, <1>15
<1>17. ASSUME NEW n \in 0 .. TableSize - 1, n \in S PROVE n + 1 \in S
  <2>1. PICK p, q : p = turn[n] /\ q = turn[n + 1]
    OBVIOUS
  <2>2. p \in Turns /\ (Settled(p, st) \/ Placing(p, st, fp, n, m))
    BY <1>17, <2>1
  <2>3. n + 1 \in 1 .. TableSize /\ n + 1 \in 0 .. TableSize /\ (n + 1) - 1 = n
    BY <1>9
  <2>4. q = Settle1(p)
    BY <1>15, <2>1, <2>3
  <2>5. q \in Turns
    BY <2>2, <2>4, TurnTypes
  <2>6. Settled(q, st) \/ Placing(q, st, fp, n + 1, m)
    <3>1. CASE Settled(p, st)
      <4>1. p.cur = Empty
        BY <3>1 DEF Settled
      <4>2. q = p
        BY <2>4, <4>1 DEF Settle1
      <4> QED
        BY <3>1, <4>2
    <3>2. CASE Placing(p, st, fp, n, m)
      BY <1>3, <2>2, <2>4, <3>2, TurnStep
    <3> QED
      BY <2>2, <3>1, <3>2
  <2> QED
    BY <2>1, <2>3, <2>5, <2>6
<1>18. TableSize \in S
  <2> HIDE DEF S
  <2>1. \A n \in 0 .. TableSize - 1 : n \in S => n + 1 \in S
    BY <1>17
  <2>2. TableSize \in Nat
    BY <1>9
  <2>3. 0 .. TableSize \subseteq S
    BY <1>16, <2>1, <2>2, UpTo
  <2> QED
    BY <2>2, <2>3
<1>19. ~Placing(turn[TableSize], st, fp, TableSize, m)
  BY <1>8, <1>9 DEF Placing, Positions
<1>20. Settled(turn[TableSize], st)
  BY <1>18, <1>19
<1> QED
  BY <1>2, <1>4, <1>10, <1>20 DEF Settled, IndexOk

-----------------------------------------------------------------------------
(* Removal. *)

\* remove_at takes the entry out and keeps all others, in order.
LEMMA RemovedOk ==
    ASSUME IndexOk(table, store), NEW h \in Positions, Occupied(table, h), NEW v, v = table[h].value
    PROVE  IndexOk(Removed(h), [store EXCEPT ![v] = Nil])
<1>1. IsTable(table) /\ Ordered(table) /\ IsStore(store) /\ HoldsAllBut(table, store, {})
  BY DEF IndexOk
<1>2. TableSize \in Nat \ {0} /\ h \in Int /\ v \in Slots /\ Nil \notin Slots
  BY <1>1, TableSizeFacts, TableFacts DEF Positions
<1> DEFINE after(r) == (h + r + 1) % TableSize
           ends(r) == \/ table[after(r)].value = Nil
                      \/ Dist(after(r), table[after(r)].fp) = 0
           R == {r \in 0 .. TableSize - 1 : ends(r)}
           shift == Min(R)
\* Places and distances, counted from the hole.
<1>3. \A r \in Nat : after(r) = Probe(h, r + 1) /\ after(r) = Following(Probe(h, r))
  <2> TAKE r \in Nat
  <2>1. h + r + 1 = h + (r + 1)
    BY <1>2
  <2>2. after(r) = Probe(h, r + 1)
    BY <2>1 DEF Probe
  <2> QED
    BY <1>2, <2>2, ProbeNext
<1>4. \A i \in Positions : Dist(i, h) \in Positions /\ Dist(i, h) \in Nat /\ Probe(h, Dist(i, h)) = i
  <2> TAKE i \in Positions
  <2>1. Dist(i, h) \in Positions /\ Probe(h, Dist(i, h)) = i
    BY <1>2, ProbeDist
  <2> QED
    BY <2>1 DEF Positions
<1>5. \A r \in Positions : Probe(h, r) \in Positions /\ Dist(Probe(h, r), h) = r
  BY <1>2, DistProbe
<1>6. Dist(h, h) = 0
  <2>1. 0 \in Positions /\ h + 0 = h
    BY <1>2 DEF Positions
  <2>2. Probe(h, 0) = h
    BY <1>2, <2>1, ModSmall DEF Probe, Positions
  <2> QED
    BY <1>5, <2>1, <2>2
\* Somewhere the run ends.
<1>7. PICK m \in Positions : ~Occupied(table, m)
  BY <1>1, RoomLeft DEF HoldsAllBut
<1>8. PICK z : z = Dist(m, h) - 1
  OBVIOUS
<1>9. z \in 0 .. TableSize - 2 /\ ends(z)
  <2>1. Dist(m, h) # 0
    <3> SUFFICES ASSUME Dist(m, h) = 0 PROVE FALSE
      OBVIOUS
    <3>1. m = h
      BY <1>4, <1>6
    <3> QED
      BY <1>7, <3>1
  <2>2. Dist(m, h) \in Positions
    BY <1>4
  <2>3. z \in 0 .. TableSize - 2 /\ z \in Nat /\ z + 1 = Dist(m, h)
    BY <1>2, <1>8, <2>1, <2>2 DEF Positions
  <2>4. after(z) = m
    BY <1>3, <1>4, <2>3
  <2> HIDE DEF after
  <2> QED
    BY <1>7, <2>3, <2>4 DEF Occupied
<1>10. shift \in 0 .. TableSize - 2 /\ ends(shift) /\ \A r \in 0 .. shift - 1 : ~ends(r)
  <2> HIDE DEF ends
  <2>1. R \subseteq Nat /\ z \in R
    BY <1>2, <1>9
  <2>2. shift \in R /\ \A y \in R : shift =< y
    <3> HIDE DEF R
    <3> QED
      BY <2>1, LeastOf
  <2> HIDE DEF shift
  <2>3. shift =< z /\ shift \in 0 .. TableSize - 1 /\ ends(shift)
    BY <2>1, <2>2
  <2>4. ASSUME NEW r \in 0 .. shift - 1, ends(r) PROVE FALSE
    <3>1. r \in R
      BY <1>2, <2>3, <2>4
    <3>2. shift =< r
      BY <2>2, <3>1
    <3> QED
      BY <2>3, <3>2
  <2> QED
    BY <1>2, <1>9, <2>3, <2>4
<1>11. PICK n, t : n = shift /\ t = Removed(h)
  OBVIOUS
<1>12. t = [i \in DOMAIN table |->
              LET r == (i - h) % TableSize
              IN  IF r < shift THEN table[after(r)]
                  ELSE IF r = shift THEN Empty ELSE table[i]]
  BY <1>11 DEF Removed
<1> DEFINE Src(i) == IF Dist(i, h) < n THEN Following(i) ELSE i
<1>13. n \in Nat /\ n =< TableSize - 2
       /\ (table[Following(Probe(h, n))].value = Nil \/ Away(table, Following(Probe(h, n))) = 0)
       /\ \A r \in 0 .. n - 1 :
             Occupied(table, Following(Probe(h, r))) /\ Away(table, Following(Probe(h, r))) # 0
  <2>1. shift \in Nat /\ shift =< TableSize - 2
    <3>1. shift \in 0 .. TableSize - 2
      BY <1>10
    <3> HIDE DEF shift
    <3> QED
      BY <1>2, <3>1
  <2>2. \A r \in Nat : ends(r) <=> (\/ table[Following(Probe(h, r))].value = Nil
                                    \/ Away(table, Following(Probe(h, r))) = 0)
    BY <1>3 DEF Away
  <2> HIDE DEF ends, shift
  <2>3. \A r \in 0 .. n - 1 : r \in Nat /\ ~ends(r)
    BY <1>10, <1>11, <2>1
  <2> QED
    BY <1>10, <1>11, <2>1, <2>2, <2>3 DEF Occupied
<1>14. DOMAIN table = Positions
  BY <1>1 DEF IsTable
<1>15. t \in [Positions -> Entries]
       /\ \A i \in Positions : t[i] = IF Dist(i, h) = n THEN Empty ELSE table[Src(i)]
  <2>1. ASSUME NEW i \in Positions
        PROVE  (LET r == (i - h) % TableSize
                IN  IF r < shift THEN table[after(r)]
                    ELSE IF r = shift THEN Empty ELSE table[i])
                 = IF Dist(i, h) = n THEN Empty ELSE table[Src(i)]
    <3>1. PICK r : r = Dist(i, h)
      OBVIOUS
    <3>2. r = (i - h) % TableSize
      BY <3>1 DEF Dist
    <3>3. r \in Nat /\ Probe(h, r) = i
      BY <1>4, <3>1
    <3>4. after(r) = Following(i)
      BY <1>3, <3>3
    <3> HIDE DEF after, shift
    <3>5. r < n => r # n
      BY <1>13, <3>3
    <3> QED
      BY <1>11, <3>1, <3>2, <3>4, <3>5
  <2>2. ASSUME NEW i \in Positions
        PROVE  (IF Dist(i, h) = n THEN Empty ELSE table[Src(i)]) \in Entries
    <3>1. Src(i) \in Positions
      BY Neighbours
    <3>2. Empty \in Entries
      BY DEF Empty, Entries
    <3> QED
      BY <1>1, <3>1, <3>2 DEF IsTable
  <2> DEFINE G(i) == IF Dist(i, h) = n THEN Empty ELSE table[Src(i)]
             H(i) == LET r == (i - h) % TableSize
                     IN  IF r < shift THEN table[after(r)]
                         ELSE IF r = shift THEN Empty ELSE table[i]
  <2>3. t = [i \in Positions |-> H(i)]
    BY <1>12, <1>14
  <2>4. \A i \in Positions : H(i) = G(i) /\ G(i) \in Entries
    BY <2>1, <2>2
  <2> HIDE DEF G, H
  <2>5. t \in [Positions -> Entries] /\ \A i \in Positions : t[i] = G(i)
    BY <2>3, <2>4
  <2> QED
    BY <2>5 DEF G
<1> HIDE DEF after, ends, R, shift
<1>16. IsTable(t)
  BY <1>15 DEF IsTable
\* Where the entries come from.
<1>17. ASSUME NEW i \in Positions, Occupied(t, i)
       PROVE  /\ Dist(i, h) # n /\ t[i] = table[Src(i)] /\ Src(i) \in Positions /\ Src(i) # h
              /\ Occupied(table, Src(i))
              /\ Dist(i, h) < n => Dist(Src(i), h) = Dist(i, h) + 1
  <2>1. Dist(i, h) # n /\ t[i] = table[Src(i)]
    <3>1. Empty.value = Nil
      BY DEF Empty
    <3> QED
      BY <1>15, <1>17, <3>1 DEF Occupied
  <2>2. Src(i) \in Positions
    BY Neighbours
  <2>3. Dist(i, h) < n => Dist(Src(i), h) = Dist(i, h) + 1
    <3> SUFFICES ASSUME Dist(i, h) < n PROVE Dist(Following(i), h) = Dist(i, h) + 1
      OBVIOUS
    <3>1. Dist(i, h) < TableSize - 1
      BY <1>2, <1>4, <1>13
    <3> QED
      BY <1>2, <3>1, DistNext
  <2>4. Src(i) # h
    <3>1. CASE Dist(i, h) < n
      <4>1. Dist(Src(i), h) # 0
        BY <1>4, <2>3, <3>1
      <4> QED
        BY <1>6, <4>1
    <3>2. CASE ~(Dist(i, h) < n)
      <4>1. Dist(i, h) # 0 /\ Src(i) = i
        BY <1>4, <1>13, <2>1, <3>2
      <4> QED
        BY <1>6, <4>1
    <3> QED
      BY <3>1, <3>2
  <2>5. Occupied(table, Src(i))
    BY <1>17, <2>1 DEF Occupied
  <2> QED
    BY <2>1, <2>2, <2>3, <2>4, <2>5
\* An entry that is shifted is nearer to its home.
<1>18. ASSUME NEW i \in Positions, Occupied(t, i)
       PROVE  Away(t, i) = IF Dist(i, h) < n THEN Away(table, Following(i)) - 1 ELSE Away(table, i)
  <2>1. t[i] = table[Src(i)]
    BY <1>17, <1>18
  <2>2. CASE Dist(i, h) < n
    <3>1. PICK j : j = Following(i)
      OBVIOUS
    <3>2. j \in Positions /\ Preceding(j) = i
      BY <3>1, Neighbours
    <3>3. t[i] = table[j]
      BY <2>1, <2>2, <3>1
    <3>4. Dist(i, h) \in 0 .. n - 1 /\ Probe(h, Dist(i, h)) = i
      BY <1>4, <1>13, <2>2
    <3>5. Away(table, j) # 0
      BY <1>13, <3>1, <3>4
    <3>6. table[j].fp \in Int
      BY <1>1, <3>2, TableFacts
    <3>7. Dist(i, table[j].fp) = Dist(j, table[j].fp) - 1
      BY <3>2, <3>5, <3>6, DistPrevious DEF Away
    <3> QED
      BY <2>2, <3>1, <3>3, <3>7 DEF Away
  <2>3. CASE ~(Dist(i, h) < n)
    BY <2>1, <2>3 DEF Away
  <2> QED
    BY <2>2, <2>3
<1>19. \A i \in Positions : /\ Away(table, i) \in Nat /\ Following(i) \in Positions /\ Preceding(i) \in Positions
                            /\ Preceding(Following(i)) = i /\ Following(Preceding(i)) = i
  BY <1>1, TableFacts, Neighbours
<1>20. ASSUME NEW i \in Positions, Dist(i, h) # 0 PROVE Dist(Preceding(i), h) = Dist(i, h) - 1
  BY <1>2, <1>20, DistPrevious
<1>21. ASSUME NEW i \in Positions, Occupied(table, i), Away(table, i) > 0
       PROVE  Occupied(table, Preceding(i)) /\ Away(table, i) =< Away(table, Preceding(i)) + 1
  BY <1>1, <1>21 DEF Ordered, FitsAt
<1>22. ASSUME NEW i \in Positions, Dist(i, h) > n
       PROVE  t[i] = table[i]
  BY <1>4, <1>13, <1>15, <1>22
<1> HIDE DEF Src
<1>23. ASSUME NEW i \in Positions, Occupied(t, i) PROVE FitsAt(t, i, Away(t, i))
  <2>1. PICK r, p, j : r = Dist(i, h) /\ p = Preceding(i) /\ j = Following(i)
    OBVIOUS
  <2>2. r \in Nat /\ r # n /\ p \in Positions /\ j \in Positions /\ Preceding(j) = i /\ Following(p) = i
    BY <1>4, <1>17, <1>19, <1>23, <2>1
  <2> SUFFICES ASSUME Away(t, i) > 0 PROVE Occupied(t, p) /\ Away(t, i) =< Away(t, p) + 1
    BY <2>1 DEF FitsAt
  <2>3. CASE r < n
    <3>1. t[i] = table[j] /\ Occupied(table, j) /\ Away(t, i) = Away(table, j) - 1
      BY <1>17, <1>18, <1>23, <2>1, <2>3 DEF Src
    <3>2. Away(table, j) \in Nat /\ Away(table, j) > 1
      BY <1>19, <2>2, <3>1
    <3>3. Occupied(table, i) /\ Away(table, j) =< Away(table, i) + 1
      BY <1>21, <2>2, <3>1, <3>2
    <3>4. Away(table, i) \in Nat /\ Away(table, i) > 0
      BY <1>19, <3>2, <3>3
    <3>5. CASE r = 0
      <4>1. Occupied(table, p) /\ Away(table, i) =< Away(table, p) + 1
        BY <1>21, <2>1, <3>3, <3>4
      <4>2. Dist(p, h) > n
        <5> SUFFICES ASSUME ~(Dist(p, h) > n) PROVE FALSE
          OBVIOUS
        <5>1. Dist(p, h) \in Nat /\ Dist(p, h) < TableSize - 1
          BY <1>2, <1>4, <1>13, <2>2
        <5>2. Dist(Following(p), h) = Dist(p, h) + 1
          BY <1>2, <2>2, <5>1, DistNext
        <5>3. Dist(i, h) = Dist(p, h) + 1
          BY <2>2, <5>2
        <5>4. Dist(i, h) = 0
          BY <2>1, <3>5
        <5> QED
          BY <5>1, <5>3, <5>4
      <4>3. t[p] = table[p]
        BY <1>22, <2>2, <4>2
      <4>4. Occupied(t, p) /\ Away(t, p) = Away(table, p) /\ Away(table, p) \in Nat
        BY <1>19, <2>2, <4>1, <4>3 DEF Occupied, Away
      <4> QED
        BY <3>1, <3>2, <3>3, <3>4, <4>1, <4>4
    <3>6. CASE r # 0
      <4>1. Dist(p, h) = r - 1
        BY <1>20, <2>1, <3>6
      <4>2. Dist(p, h) < n /\ Dist(p, h) # n
        BY <1>13, <2>2, <2>3, <4>1
      <4>3. t[p] = table[i]
        BY <1>15, <2>2, <4>2 DEF Src
      <4>4. Occupied(t, p)
        BY <3>3, <4>3 DEF Occupied
      <4>5. Away(t, p) = Away(table, i) - 1
        BY <1>18, <2>2, <4>2, <4>4
      <4> QED
        BY <3>1, <3>2, <3>3, <3>4, <4>4, <4>5
    <3> QED
      BY <3>5, <3>6
  <2>4. CASE ~(r < n)
    <3>1. r > n /\ r # 0
      BY <1>13, <2>2, <2>4
    <3>2. t[i] = table[i]
      BY <1>22, <2>1, <3>1
    <3>3. Occupied(table, i) /\ Away(t, i) = Away(table, i)
      BY <1>23, <3>2 DEF Occupied, Away
    <3>4. Occupied(table, p) /\ Away(table, i) =< Away(table, p) + 1
      BY <1>21, <2>1, <3>3
    <3>5. Dist(p, h) = r - 1
      BY <1>20, <2>1, <3>1
    <3>6. Dist(p, h) # n
      <4> SUFFICES ASSUME Dist(p, h) = n PROVE FALSE
        OBVIOUS
      <4>1. p = Probe(h, n)
        BY <1>4, <2>2
      <4>2. table[i].value = Nil \/ Away(table, i) = 0
        BY <1>13, <2>2, <4>1
      <4> QED
        BY <3>3, <4>2 DEF Occupied
    <3>7. Dist(p, h) > n
      BY <1>13, <2>2, <3>1, <3>5, <3>6
    <3>8. t[p] = table[p]
      BY <1>22, <2>2, <3>7
    <3> QED
      BY <3>3, <3>4, <3>8 DEF Occupied, Away
  <2> QED
    BY <2>3, <2>4
<1>24. Ordered(t)
  BY <1>23 DEF Ordered
<1>25. PICK st : st = [store EXCEPT ![v] = Nil]
  OBVIOUS
<1>26. IsStore(st) /\ st[v] = Nil /\ \A w \in Slots : w # v => st[w] = store[w]
  BY <1>1, <1>2, <1>25 DEF IsStore
<1>27. ASSUME NEW i \in Positions, Occupied(t, i) PROVE EntryOk(t[i], st)
  <2>1. PICK j : j = Src(i)
    OBVIOUS
  <2>2. t[i] = table[j] /\ j \in Positions /\ j # h /\ Occupied(table, j)
    BY <1>17, <1>27, <2>1
  <2>3. EntryOk(table[j], store) /\ table[j].value # v
    BY <1>1, <2>2 DEF HoldsAllBut
  <2> QED
    BY <1>26, <2>2, <2>3 DEF EntryOk
<1>28. ASSUME NEW i \in Positions, NEW k \in Positions, Occupied(t, i), t[i].value = t[k].value
       PROVE  i = k
  <2>1. Occupied(t, k)
    BY <1>28 DEF Occupied
  <2>2. PICK r, s, a, b : r = Dist(i, h) /\ s = Dist(k, h) /\ a = Src(i) /\ b = Src(k)
    OBVIOUS
  <2>3. r \in Nat /\ s \in Nat /\ r # n /\ s # n /\ i = Probe(h, r) /\ k = Probe(h, s)
    BY <1>4, <1>17, <1>28, <2>1, <2>2
  <2>4. a = b
    <3>1. a \in Positions /\ b \in Positions /\ Occupied(table, a) /\ t[i] = table[a] /\ t[k] = table[b]
      BY <1>17, <1>28, <2>1, <2>2
    <3> QED
      BY <1>1, <1>28, <3>1 DEF HoldsAllBut
  <2>5. Dist(a, h) = IF r < n THEN r + 1 ELSE r
    BY <1>17, <1>28, <2>2 DEF Src
  <2>6. Dist(b, h) = IF s < n THEN s + 1 ELSE s
    BY <1>17, <2>1, <2>2 DEF Src
  <2>7. r = s
    BY <1>13, <2>3, <2>4, <2>5, <2>6
  <2> QED
    BY <2>3, <2>7
<1>29. ASSUME NEW w \in Slots, st[w] # Nil PROVE \E i \in Positions : t[i].value = w
  <2>1. w # v /\ store[w] # Nil
    BY <1>26, <1>29
  <2>2. PICK j \in Positions : table[j].value = w
    BY <1>1, <2>1 DEF HoldsAllBut
  <2>3. j # h
    BY <2>1, <2>2
  <2>4. Dist(j, h) # 0
    <3> SUFFICES ASSUME Dist(j, h) = 0 PROVE FALSE
      OBVIOUS
    <3>1. Probe(h, 0) = j /\ Probe(h, 0) = h
      BY <1>4, <1>6
    <3> QED
      BY <2>3, <3>1
  <2>5. CASE Dist(j, h) > n
    BY <1>22, <2>2, <2>5
  <2>6. CASE ~(Dist(j, h) > n)
    <3>1. PICK i : i = Preceding(j)
      OBVIOUS
    <3>2. i \in Positions /\ Following(i) = j /\ Dist(i, h) = Dist(j, h) - 1
      BY <1>19, <1>20, <2>4, <3>1
    <3>3. Dist(i, h) < n /\ Dist(i, h) # n
      BY <1>4, <1>13, <2>6, <3>2
    <3>4. t[i] = table[j]
      BY <1>15, <3>2, <3>3 DEF Src
    <3> QED
      BY <2>2, <3>2, <3>4
  <2> QED
    BY <2>5, <2>6
<1>30. HoldsAllBut(t, st, {})
  BY <1>27, <1>28, <1>29 DEF HoldsAllBut
<1> QED
  BY <1>11, <1>16, <1>24, <1>25, <1>26, <1>30 DEF IndexOk

-----------------------------------------------------------------------------

\* order_index.hpp:152: for every hash, every number of orders and every size of
\* the table that holds twice as many, a lookup is right after any sequence of
\* insertions and removals, and the table is in Robin Hood order.
THEOREM IndexIsAMap == IndexSpec => []LookupsAgree
<1>1. IndexInit => IndexOk(table, store)
  <2> SUFFICES ASSUME IndexInit PROVE IndexOk(table, store)
    OBVIOUS
  <2>1. table = [i \in 0 .. TableSize - 1 |-> Empty] /\ store = [v \in Slots |-> Nil]
    BY DEF IndexInit
  <2>2. Empty \in Entries /\ Empty.value = Nil
    BY DEF Empty, Entries
  <2>3. \A i \in Positions : table[i] = Empty
    BY <2>1 DEF Positions
  <2>4. IsTable(table)
    BY <2>1, <2>2 DEF IsTable, Positions
  <2>5. \A i \in Positions : ~Occupied(table, i)
    BY <2>2, <2>3 DEF Occupied
  <2>6. IsStore(store) /\ \A v \in Slots : store[v] = Nil
    BY <2>1 DEF IsStore
  <2> QED
    BY <2>4, <2>5, <2>6 DEF IndexOk, Ordered, HoldsAllBut
<1>2. IndexOk(table, store) /\ [IndexNext]_indexVars => IndexOk(table, store)'
  <2> SUFFICES ASSUME IndexOk(table, store), [IndexNext]_indexVars PROVE IndexOk(table, store)'
    OBVIOUS
  <2>0. IsTable(table) /\ IsStore(store) /\ HoldsAllBut(table, store, {})
    BY DEF IndexOk
  <2>1. ASSUME NEW key \in Keys, NEW value \in Slots, Insert(key, value) PROVE IndexOk(table, store)'
    <3>1. \A v \in Slots : store[v] # key
      <4> SUFFICES ASSUME NEW v \in Slots, store[v] = key PROVE FALSE
        OBVIOUS
      <4>1. Find(key) = v
        BY TableSizeFacts, FindsPresent
      <4> QED
        BY <2>1, <4>1, TableSizeFacts DEF Insert
    <3>2. store[value] = Nil /\ table' = Inserted(key, value) /\ store' = [store EXCEPT ![value] = key]
      BY <2>1 DEF Insert
    <3> QED
      BY <3>1, <3>2, InsertedOk
  <2>2. ASSUME NEW key \in Keys, Erase(key) PROVE IndexOk(table, store)'
    <3>1. \E v \in Slots : store[v] = key
      <4> SUFFICES ASSUME \A v \in Slots : store[v] # key PROVE FALSE
        OBVIOUS
      <4> QED
        BY <2>2, FindsAbsent DEF Erase
    <3>2. PICK v \in Slots : store[v] = key
      BY <3>1
    <3>3. PICK h : h = Probe(Fingerprint(key), Stop(key))
      OBVIOUS
    <3>4. Find(key) = v /\ h \in Positions /\ table[h].value = v
      BY <3>2, <3>3, TableSizeFacts, FindsPresent
    <3>5. Occupied(table, h)
      BY <3>4, TableSizeFacts DEF Occupied
    <3>6. table' = Removed(h) /\ store' = [store EXCEPT ![v] = Nil]
      BY <2>2, <3>3, <3>4 DEF Erase
    <3> QED
      BY <3>4, <3>5, <3>6, RemovedOk
  <2>3. ASSUME NEW v \in Slots, EraseKnown(v) PROVE IndexOk(table, store)'
    <3> DEFINE S(fp) == {x \in 0 .. TableSize - 1 : table[Probe(fp, x)].value = v}
    <3>1. PICK fp : fp = Fingerprint(store[v])
      OBVIOUS
    <3>2. store[v] # Nil /\ table' = Removed(Probe(fp, Min(S(fp)))) /\ store' = [store EXCEPT ![v] = Nil]
      BY <2>3, <3>1 DEF EraseKnown
    <3>3. fp \in Int
      BY <2>0, <3>1, <3>2, TableSizeFacts DEF IsStore
    <3>4. PICK i \in Positions : table[i].value = v
      BY <2>0, <3>2 DEF HoldsAllBut
    <3>5. Dist(i, fp) \in S(fp)
      BY <3>3, <3>4, ProbeDist DEF Positions
    <3>6. Min(S(fp)) \in S(fp)
      <4>1. S(fp) \subseteq Nat
        BY TableSizeFacts
      <4> HIDE DEF S
      <4> QED
        BY <3>5, <4>1, LeastOf
    <3>7. PICK h, d : d = Min(S(fp)) /\ h = Probe(fp, d)
      OBVIOUS
    <3>8. d \in Positions /\ table[h].value = v
      BY <3>6, <3>7 DEF Positions
    <3>9. h \in Positions
      BY <3>3, <3>7, <3>8, DistProbe
    <3>10. Occupied(table, h)
      BY <3>8, TableSizeFacts DEF Occupied
    <3> HIDE DEF S
    <3>11. table' = Removed(h)
      BY <3>2, <3>7
    <3> QED
      BY <3>2, <3>8, <3>9, <3>10, <3>11, RemovedOk
  <2>4. CASE UNCHANGED indexVars
    BY <2>4 DEF indexVars
  <2> QED
    BY <2>1, <2>2, <2>3, <2>4 DEF IndexNext
<1> QED
  BY <1>1, <1>2, IndexOkAgrees, PTL DEF IndexSpec

-----------------------------------------------------------------------------
(***************************************************************************)
(* The market-data feed.                                                   *)
(***************************************************************************)

FeedEntries == [type : {"Level"}, at : FeedLevels, qty : Nat] \cup [type : {"Trade"}]

\* The books of a subscriber: a quantity above 0 for some of the levels.
Books == UNION {[S -> Nat \ {0}] : S \in SUBSET FeedLevels}

\* What a book has at a level.
Holds(book, l) == IF l \in DOMAIN book THEN book[l] ELSE 0

\* g is the course of applying the entries e, one by one, to the book b.
Course(g, b, e) ==
    /\ g \in [0 .. Len(e) -> Books]
    /\ g[0] = b
    /\ \A k \in 1 .. Len(e) : g[k] = Enter(g[k - 1], e[k])

\* g is the course of applying the packets after i up to j to the book b.
CourseAll(g, b, i, j, packets) ==
    g[i] = b /\ \A n \in i + 1 .. j : g[n] = Apply(g[n - 1], packets[n])

\* Whether something is a book.
LEMMA BookIff ==
    ASSUME NEW b
    PROVE  b \in Books <=> DOMAIN b \subseteq FeedLevels /\ b \in [DOMAIN b -> Nat \ {0}]
<1>1. ASSUME b \in Books
      PROVE  DOMAIN b \subseteq FeedLevels /\ b \in [DOMAIN b -> Nat \ {0}]
  <2>1. PICK S \in SUBSET FeedLevels : b \in [S -> Nat \ {0}]
    BY <1>1 DEF Books
  <2>2. DOMAIN b = S
    BY <2>1
  <2> QED
    BY <2>1, <2>2
<1>2. ASSUME DOMAIN b \subseteq FeedLevels, b \in [DOMAIN b -> Nat \ {0}]
      PROVE  b \in Books
  BY <1>2 DEF Books
<1> QED
  BY <1>1, <1>2

\* Nothing is a book.
LEMMA NothingIsBook ==
    Nothing \in Books /\ DOMAIN Nothing = {} /\ \A l : Holds(Nothing, l) = 0
<1>1. DOMAIN Nothing = {}
  BY DEF Nothing
<1>2. Nothing = [l \in {} |-> 0]
  BY DEF Nothing
<1>3. Nothing \in [{} -> Nat \ {0}]
  BY <1>2
<1>4. Nothing \in Books
  BY <1>1, <1>3, BookIff
<1> QED
  BY <1>1, <1>4 DEF Holds

\* Books that hold the same are the same.
LEMMA BookEqual ==
    ASSUME NEW a \in Books, NEW b \in Books, \A l \in FeedLevels : Holds(a, l) = Holds(b, l)
    PROVE  a = b
<1>1. DOMAIN a \subseteq FeedLevels /\ a \in [DOMAIN a -> Nat \ {0}]
  BY BookIff
<1>2. DOMAIN b \subseteq FeedLevels /\ b \in [DOMAIN b -> Nat \ {0}]
  BY BookIff
<1>3. \A l \in FeedLevels : l \in DOMAIN a <=> l \in DOMAIN b
  BY <1>1, <1>2 DEF Holds
<1>4. DOMAIN a = DOMAIN b
  BY <1>1, <1>2, <1>3
<1>5. \A l \in DOMAIN a : a[l] = b[l]
  BY <1>1, <1>4 DEF Holds
<1> QED
  BY <1>1, <1>2, <1>4, <1>5

\* One entry makes a book of a book, and changes the level it is about.
LEMMA EnterFacts ==
    ASSUME NEW b \in Books, NEW x \in FeedEntries
    PROVE  /\ Enter(b, x) \in Books
           /\ x.type = "Trade" => Enter(b, x) = b
           /\ x.type # "Trade" =>
                 \A l \in FeedLevels : Holds(Enter(b, x), l) = IF l = x.at THEN x.qty ELSE Holds(b, l)
<1>1. DOMAIN b \subseteq FeedLevels /\ b \in [DOMAIN b -> Nat \ {0}]
  BY BookIff
<1>2. CASE x.type = "Trade"
  BY <1>2 DEF Enter
<1>3. CASE x.type # "Trade"
  <2>1. x.at \in FeedLevels /\ x.qty \in Nat
    BY <1>3 DEF FeedEntries
  <2>2. CASE x.qty = 0
    <3> DEFINE c == Without(b, {x.at})
    <3>1. Enter(b, x) = c
      BY <1>3, <2>2 DEF Enter
    <3>2. DOMAIN c = DOMAIN b \ {x.at} /\ \A l \in DOMAIN c : c[l] = b[l]
      BY DEF Without
    <3>3. c \in [DOMAIN c -> Nat \ {0}]
      BY <1>1 DEF Without
    <3> HIDE DEF c
    <3>4. c \in Books
      BY <1>1, <3>2, <3>3, BookIff
    <3>5. \A l \in FeedLevels : Holds(c, l) = IF l = x.at THEN x.qty ELSE Holds(b, l)
      BY <2>2, <3>2 DEF Holds
    <3> QED
      BY <1>3, <3>1, <3>4, <3>5
  <2>3. CASE x.qty # 0
    <3> DEFINE c == With(b, x.at, x.qty)
    <3>1. Enter(b, x) = c
      BY <1>3, <2>3 DEF Enter
    <3>2. DOMAIN c = DOMAIN b \cup {x.at} /\ \A l \in DOMAIN c : c[l] = IF l = x.at THEN x.qty ELSE b[l]
      BY DEF With
    <3>3. c \in [DOMAIN c -> Nat \ {0}]
      BY <1>1, <2>1, <2>3 DEF With
    <3> HIDE DEF c
    <3>4. c \in Books
      BY <1>1, <2>1, <3>2, <3>3, BookIff
    <3>5. \A l \in FeedLevels : Holds(c, l) = IF l = x.at THEN x.qty ELSE Holds(b, l)
      BY <3>2 DEF Holds
    <3> QED
      BY <1>3, <3>1, <3>4, <3>5
  <2> QED
    BY <2>2, <2>3
<1> QED
  BY <1>2, <1>3

\* The course of a packet exists.
LEMMA CourseExists ==
    ASSUME NEW b \in Books, NEW e \in Seq(FeedEntries)
    PROVE  \E g : Course(g, b, e)
<1>1. Len(e) \in Nat /\ \A k \in 1 .. Len(e) : e[k] \in FeedEntries
  BY LenProperties, ElementOfSeq
<1> DEFINE F == [k \in 1 .. Len(e) |-> [x \in Books |-> Enter(x, e[k])]]
<1>2. \A k \in 1 .. Len(e) : \A x \in Books : Enter(x, e[k]) \in Books
  BY <1>1, EnterFacts
<1>3. F \in [1 .. Len(e) -> [Books -> Books]]
  BY <1>2
<1>4. \A k \in 1 .. Len(e) : \A x \in Books : F[k][x] = Enter(x, e[k])
  OBVIOUS
<1> HIDE DEF F
<1>5. PICK g : IsIteration(g, Len(e), Books, b, F)
  BY <1>1, <1>3, IterationExists
<1>6. \A k \in 1 .. Len(e) : k - 1 \in 0 .. Len(e)
  BY <1>1
<1>7. Course(g, b, e)
  BY <1>4, <1>5, <1>6 DEF Course, IsIteration
<1> QED
  BY <1>7

\* Applying a packet is following its course to the end.
LEMMA ApplyIs ==
    ASSUME NEW b, NEW e, NEW g, Len(e) \in Nat, g[0] = b,
           \A k \in 1 .. Len(e) : g[k] = Enter(g[k - 1], e[k])
    PROVE  Apply(b, e) = g[Len(e)]
<1> DEFINE N == Len(e)
           Raw(f) == [k \in 0 .. N |-> IF k = 0 THEN b ELSE Enter(f[k - 1], e[k])]
           after == CHOOSE f : f = Raw(f)
<1>1. Apply(b, e) = after[N]
  BY DEF Apply
<1> DEFINE h == [k \in 0 .. N |-> g[k]]
<1>2. h = Raw(h)
  <2>1. \A k \in 0 .. N : k # 0 => k \in 1 .. N /\ k - 1 \in 0 .. N
    OBVIOUS
  <2>2. \A k \in 0 .. N : h[k] = IF k = 0 THEN b ELSE Enter(h[k - 1], e[k])
    BY <2>1
  <2> QED
    BY <2>2
<1>3. after = Raw(after)
  <2> HIDE DEF h, Raw
  <2> QED
    BY <1>2
<1> HIDE DEF after
<1>4. after[0] = b /\ \A k \in 1 .. N : after[k] = Enter(after[k - 1], e[k])
  BY <1>3
<1> DEFINE S == {k \in 0 .. N : after[k] = g[k]}
<1>5. 0 \in S
  BY <1>4
<1>6. \A k \in 0 .. N - 1 : k \in S => k + 1 \in S
  <2> SUFFICES ASSUME NEW k \in 0 .. N - 1, k \in S PROVE k + 1 \in S
    OBVIOUS
  <2>1. k + 1 \in 1 .. N /\ (k + 1) - 1 = k
    OBVIOUS
  <2>2. after[k + 1] = Enter(after[k], e[k + 1]) /\ g[k + 1] = Enter(g[k], e[k + 1])
    BY <1>4, <2>1
  <2> QED
    BY <2>1, <2>2
<1>7. N \in S
  <2> HIDE DEF S
  <2>1. 0 .. N \subseteq S
    BY <1>5, <1>6, UpTo
  <2> QED
    BY <2>1
<1> QED
  BY <1>1, <1>7

\* Applying packets is following their course to the end.
LEMMA ApplyAllIs ==
    ASSUME NEW b, NEW i \in Nat, NEW j \in Nat, i =< j, NEW packets, NEW g,
           CourseAll(g, b, i, j, packets)
    PROVE  ApplyAll(b, i, j, packets) = g[j]
<1>0. g[i] = b /\ \A n \in i + 1 .. j : g[n] = Apply(g[n - 1], packets[n])
  BY DEF CourseAll
<1> DEFINE Raw(f) == [n \in i .. j |-> IF n = i THEN b ELSE Apply(f[n - 1], packets[n])]
           after == CHOOSE f : f = Raw(f)
<1>1. ApplyAll(b, i, j, packets) = after[j]
  BY DEF ApplyAll
<1> DEFINE h == [n \in i .. j |-> g[n]]
<1>2. h = Raw(h)
  <2>1. \A n \in i .. j : n # i => n \in i + 1 .. j /\ n - 1 \in i .. j
    OBVIOUS
  <2>2. \A n \in i .. j : h[n] = IF n = i THEN b ELSE Apply(h[n - 1], packets[n])
    BY <1>0, <2>1
  <2> QED
    BY <2>2
<1>3. after = Raw(after)
  <2> HIDE DEF h, Raw
  <2> QED
    BY <1>2
<1> HIDE DEF after
<1>4. after[i] = b /\ \A n \in i + 1 .. j : after[n] = Apply(after[n - 1], packets[n])
  BY <1>3
<1> DEFINE S == {k \in 0 .. j - i : after[i + k] = g[i + k]}
<1>5. 0 \in S
  BY <1>0, <1>4
<1>6. \A k \in 0 .. (j - i) - 1 : k \in S => k + 1 \in S
  <2> SUFFICES ASSUME NEW k \in 0 .. (j - i) - 1, k \in S PROVE k + 1 \in S
    OBVIOUS
  <2>1. PICK n \in Nat : n = i + k
    OBVIOUS
  <2>2. n + 1 \in i + 1 .. j /\ (n + 1) - 1 = n /\ i + (k + 1) = n + 1 /\ k + 1 \in 0 .. j - i
    BY <2>1
  <2>3. after[n + 1] = Apply(after[n], packets[n + 1]) /\ g[n + 1] = Apply(g[n], packets[n + 1])
    BY <1>0, <1>4, <2>2
  <2>4. after[n] = g[n]
    BY <2>1
  <2> QED
    BY <2>2, <2>3, <2>4
<1>7. j - i \in S
  <2> HIDE DEF S
  <2>1. j - i \in Nat
    OBVIOUS
  <2>2. 0 .. j - i \subseteq S
    BY <1>5, <1>6, <2>1, UpTo
  <2> QED
    BY <2>1, <2>2
<1>8. i + (j - i) = j
  OBVIOUS
<1> QED
  BY <1>1, <1>7, <1>8

\* Entry k of e is about level l, and no other is.
OnlyAbout(e, k, l) ==
    /\ k \in 1 .. Len(e) /\ e[k].type # "Trade" /\ e[k].at = l
    /\ \A j \in 1 .. Len(e) : e[j].type # "Trade" /\ e[j].at = l => j = k

\* No entry of e is about level l.
NoneAbout(e, l) == \A j \in 1 .. Len(e) : ~(e[j].type # "Trade" /\ e[j].at = l)

\* A packet makes a book of a book: a level it is about once has the quantity it
\* says, one that it is not about keeps its own.
LEMMA ApplyFacts ==
    ASSUME NEW b \in Books, NEW e \in Seq(FeedEntries)
    PROVE  /\ Apply(b, e) \in Books
           /\ \A l \in FeedLevels :
                 /\ NoneAbout(e, l) => Holds(Apply(b, e), l) = Holds(b, l)
                 /\ \A k : OnlyAbout(e, k, l) => Holds(Apply(b, e), l) = e[k].qty
<1>1. Len(e) \in Nat /\ \A k \in 1 .. Len(e) : e[k] \in FeedEntries
  BY LenProperties, ElementOfSeq
<1>2. PICK g : Course(g, b, e)
  BY CourseExists
<1>3. g[0] = b /\ \A k \in 1 .. Len(e) : g[k] = Enter(g[k - 1], e[k])
  BY <1>2 DEF Course
<1>4. Apply(b, e) = g[Len(e)]
  BY <1>1, <1>3, ApplyIs
<1>5. \A k \in 0 .. Len(e) : g[k] \in Books
  BY <1>2 DEF Course
<1>6. ASSUME NEW l \in FeedLevels, NEW j \in 1 .. Len(e)
      PROVE  Holds(g[j], l) = IF e[j].type # "Trade" /\ e[j].at = l THEN e[j].qty
                              ELSE Holds(g[j - 1], l)
  <2>1. j - 1 \in 0 .. Len(e)
    BY <1>1
  <2>2. g[j - 1] \in Books /\ e[j] \in FeedEntries /\ g[j] = Enter(g[j - 1], e[j])
    BY <1>1, <1>3, <1>5, <2>1
  <2> QED
    BY <2>2, EnterFacts
<1>7. ASSUME NEW l \in FeedLevels, NoneAbout(e, l)
      PROVE  Holds(g[Len(e)], l) = Holds(b, l)
  <2> DEFINE S == {k \in 0 .. Len(e) : Holds(g[k], l) = Holds(b, l)}
  <2>1. 0 \in S
    BY <1>1, <1>3
  <2>2. \A k \in 0 .. Len(e) - 1 : k \in S => k + 1 \in S
    <3> SUFFICES ASSUME NEW k \in 0 .. Len(e) - 1, k \in S PROVE k + 1 \in S
      OBVIOUS
    <3>1. k + 1 \in 1 .. Len(e) /\ (k + 1) - 1 = k /\ k + 1 \in 0 .. Len(e)
      BY <1>1
    <3>2. Holds(g[k + 1], l) = Holds(g[k], l)
      BY <1>6, <1>7, <3>1 DEF NoneAbout
    <3> QED
      BY <3>1, <3>2
  <2> HIDE DEF S
  <2>3. 0 .. Len(e) \subseteq S
    BY <1>1, <2>1, <2>2, UpTo
  <2>4. Len(e) \in S
    BY <1>1, <2>3
  <2> QED
    BY <2>4 DEF S
<1>8. ASSUME NEW l \in FeedLevels, NEW k, OnlyAbout(e, k, l)
      PROVE  Holds(g[Len(e)], l) = e[k].qty
  <2>1. k \in 1 .. Len(e) /\ e[k].type # "Trade" /\ e[k].at = l
    BY <1>8 DEF OnlyAbout
  <2> DEFINE S == {j \in 0 .. Len(e) : j >= k => Holds(g[j], l) = e[k].qty}
  <2>2. 0 \in S
    BY <1>1, <2>1
  <2>3. \A j \in 0 .. Len(e) - 1 : j \in S => j + 1 \in S
    <3> SUFFICES ASSUME NEW j \in 0 .. Len(e) - 1, j \in S, j + 1 >= k
                 PROVE  Holds(g[j + 1], l) = e[k].qty
      BY <1>1
    <3>1. j + 1 \in 1 .. Len(e) /\ (j + 1) - 1 = j
      BY <1>1
    <3>2. CASE j + 1 = k
      BY <1>6, <2>1, <3>1, <3>2
    <3>3. CASE j + 1 # k
      <4>1. ~(e[j + 1].type # "Trade" /\ e[j + 1].at = l)
        BY <1>8, <3>1, <3>3 DEF OnlyAbout
      <4>2. Holds(g[j + 1], l) = Holds(g[j], l)
        BY <1>6, <3>1, <4>1
      <4>3. j >= k
        BY <1>1, <2>1, <3>3
      <4> QED
        BY <4>2, <4>3
    <3> QED
      BY <3>2, <3>3
  <2> HIDE DEF S
  <2>4. 0 .. Len(e) \subseteq S
    BY <1>1, <2>2, <2>3, UpTo
  <2>5. Len(e) \in S /\ Len(e) >= k
    BY <1>1, <2>1, <2>4
  <2> QED
    BY <2>5 DEF S
<1>9. g[Len(e)] \in Books
  BY <1>1, <1>5
<1> QED
  BY <1>4, <1>7, <1>8, <1>9

-----------------------------------------------------------------------------
(* Packets. *)

\* The number of pieces, and where each begins and ends.
NumPieces(e) == (Len(e) + PerPacket - 1) \div PerPacket
EndOf(e, p) == IF p * PerPacket < Len(e) THEN p * PerPacket ELSE Len(e)

\* The last piece ends with the entries, the others are full.
LEMMA PieceEnds ==
    ASSUME NEW e \in Seq(FeedEntries)
    PROVE  /\ NumPieces(e) \in Nat
           /\ NumPieces(e) = 0 <=> Len(e) = 0
           /\ EndOf(e, NumPieces(e)) = Len(e) /\ EndOf(e, 0) = 0
           /\ \A p \in 1 .. NumPieces(e) :
                 /\ EndOf(e, p - 1) = (p - 1) * PerPacket
                 /\ EndOf(e, p - 1) \in 0 .. Len(e)
                 /\ EndOf(e, p) \in EndOf(e, p - 1) + 1 .. Len(e)
<1>1. Len(e) \in Nat
  BY LenProperties
<1>2. PICK W \in Nat \ {0} : W = PerPacket
  BY FeedAssumption
<1>3. PICK n \in Nat : n = Len(e)
  BY <1>1
<1>4. PICK P : P = NumPieces(e)
  OBVIOUS
<1>5. P = (n + W - 1) \div W
  BY <1>2, <1>3, <1>4 DEF NumPieces
<1>6. n + W - 1 \in Nat
  BY <1>2
<1>7. P \in Nat /\ n + W - 1 = W * P + ((n + W - 1) % W) /\ (n + W - 1) % W \in 0 .. W - 1
  BY <1>2, <1>5, <1>6
<1>8. W * P \in Nat /\ W * P >= n /\ W * P =< n + W - 1 /\ P * W = W * P
  BY <1>2, <1>3, <1>7
<1>9. P = 0 <=> n = 0
  <2>1. CASE P = 0
    BY <1>8, <2>1
  <2>2. CASE P # 0
    <3>1. W * P >= W
      BY <1>2, <1>7, <2>2
    <3> QED
      BY <1>2, <1>3, <1>8, <2>2, <3>1
  <2> QED
    BY <2>1, <2>2
<1>10. EndOf(e, P) = n /\ EndOf(e, 0) = 0
  <2>1. ~(P * W < n)
    BY <1>3, <1>8
  <2>2. 0 * W = 0
    BY <1>2
  <2> QED
    BY <1>2, <1>3, <2>1, <2>2 DEF EndOf
<1>11. ASSUME NEW p \in 1 .. P
       PROVE  /\ EndOf(e, p - 1) = (p - 1) * W
              /\ EndOf(e, p - 1) \in 0 .. n
              /\ EndOf(e, p) \in EndOf(e, p - 1) + 1 .. n
  <2>1. PICK q \in Nat : q = p - 1 /\ p = q + 1 /\ q + 1 =< P
    BY <1>7
  <2>2. q * W \in Nat /\ p * W = q * W + W
    BY <1>2, <2>1
  <2>3. q * W + W =< P * W
    BY <1>2, <1>7, <2>1, <2>2
  <2>4. q * W < n
    BY <1>2, <1>3, <1>8, <2>2, <2>3
  <2>5. EndOf(e, q) = q * W
    BY <1>2, <1>3, <2>4 DEF EndOf
  <2>6. EndOf(e, p) \in {p * W, n} /\ EndOf(e, p) =< n
    BY <1>2, <1>3, <2>2 DEF EndOf
  <2> QED
    BY <1>2, <1>3, <2>1, <2>2, <2>4, <2>5, <2>6
<1> QED
  BY <1>2, <1>3, <1>4, <1>7, <1>9, <1>10, <1>11

\* The pieces are packets of entries.
LEMMA PiecesFacts ==
    ASSUME NEW e \in Seq(FeedEntries)
    PROVE  /\ Pieces(e) \in Seq(Seq(FeedEntries))
           /\ Len(Pieces(e)) = NumPieces(e)
           /\ \A p \in 1 .. NumPieces(e) :
                 Pieces(e)[p] = SubSeq(e, EndOf(e, p - 1) + 1, EndOf(e, p))
<1>1. NumPieces(e) \in Nat
  BY PieceEnds
<1>2. Len(e) \in Nat /\ \A k \in 1 .. Len(e) : e[k] \in FeedEntries
  BY LenProperties, ElementOfSeq
<1>3. Pieces(e) = [p \in 1 .. NumPieces(e) |-> SubSeq(e, (p - 1) * PerPacket + 1, EndOf(e, p))]
  BY DEF Pieces, NumPieces, EndOf
<1>4. \A p \in 1 .. NumPieces(e) :
         Pieces(e)[p] = SubSeq(e, EndOf(e, p - 1) + 1, EndOf(e, p))
  BY <1>3, PieceEnds
<1>5. ASSUME NEW p \in 1 .. NumPieces(e) PROVE Pieces(e)[p] \in Seq(FeedEntries)
  <2>1. PICK u, v : u = EndOf(e, p - 1) + 1 /\ v = EndOf(e, p)
    OBVIOUS
  <2>2. u \in Int /\ v \in Int /\ u >= 1 /\ v =< Len(e)
    BY <1>2, <2>1, PieceEnds
  <2>3. \A k \in u .. v : e[k] \in FeedEntries
    BY <1>2, <2>2
  <2>4. SubSeq(e, u, v) \in Seq(FeedEntries)
    BY <2>2, <2>3, SubSeqProperties
  <2> QED
    BY <1>4, <2>1, <2>4
<1>6. DOMAIN Pieces(e) = 1 .. NumPieces(e) /\ Pieces(e) = [p \in 1 .. NumPieces(e) |-> Pieces(e)[p]]
  BY <1>3
<1>7. Pieces(e) \in Seq(Seq(FeedEntries)) /\ Len(Pieces(e)) = NumPieces(e)
  <2>1. PICK P : P = Pieces(e)
    OBVIOUS
  <2>2. PICK n \in Nat : n = NumPieces(e)
    BY <1>1
  <2>3. P \in [1 .. n -> Seq(FeedEntries)]
    BY <1>5, <1>6, <2>1, <2>2
  <2>4. P \in Seq(Seq(FeedEntries)) /\ Len(P) = n
    BY <2>3
  <2> QED
    BY <2>1, <2>2, <2>4
<1> QED
  BY <1>4, <1>7

\* The packets, one after the other, do what all the entries do.
LEMMA PiecesCourse ==
    ASSUME NEW b \in Books, NEW e \in Seq(FeedEntries)
    PROVE  \E G \in [0 .. NumPieces(e) -> Books] :
              CourseAll(G, b, 0, NumPieces(e), Pieces(e)) /\ G[NumPieces(e)] = Apply(b, e)
<1>1. Len(e) \in Nat /\ \A k \in 1 .. Len(e) : e[k] \in FeedEntries
  BY LenProperties, ElementOfSeq
<1>2. PICK g : Course(g, b, e)
  BY CourseExists
<1>3. g[0] = b /\ \A k \in 1 .. Len(e) : g[k] = Enter(g[k - 1], e[k])
  BY <1>2 DEF Course
<1>4. Apply(b, e) = g[Len(e)]
  BY <1>1, <1>3, ApplyIs
<1>5. PICK P \in Nat : P = NumPieces(e)
  BY PieceEnds
<1> DEFINE G == [p \in 0 .. P |-> g[EndOf(e, p)]]
<1>6. G[0] = b /\ G[P] = g[Len(e)]
  BY <1>3, <1>5, PieceEnds
<1>7. ASSUME NEW p \in 1 .. P PROVE G[p] = Apply(G[p - 1], Pieces(e)[p])
  <2>1. PICK u, v : u = EndOf(e, p - 1) /\ v = EndOf(e, p)
    OBVIOUS
  <2>2. u \in 0 .. Len(e) /\ v \in u + 1 .. Len(e)
    BY <1>5, <2>1, PieceEnds
  <2>3. PICK t : t = SubSeq(e, u + 1, v)
    OBVIOUS
  <2>4. Pieces(e)[p] = t
    BY <1>5, <2>1, <2>3, PiecesFacts
  <2>5. Len(t) = v - u /\ \A k \in 1 .. v - u : t[k] = e[u + k]
    <3>1. u + 1 \in Int /\ v \in Int /\ \A k \in u + 1 .. v : e[k] \in FeedEntries
      BY <1>1, <2>2
    <3>2. /\ Len(SubSeq(e, u + 1, v)) = IF u + 1 =< v THEN v - (u + 1) + 1 ELSE 0
          /\ \A k \in 1 .. v - (u + 1) + 1 : SubSeq(e, u + 1, v)[k] = e[(u + 1) + k - 1]
      BY <3>1, SubSeqProperties
    <3>3. v - (u + 1) + 1 = v - u /\ \A k \in 1 .. v - u : (u + 1) + k - 1 = u + k
      BY <1>1, <2>2
    <3>4. u + 1 =< v
      BY <1>1, <2>2
    <3> QED
      BY <2>3, <3>2, <3>3, <3>4
  <2> DEFINE h == [k \in 0 .. v - u |-> g[u + k]]
  <2>6. \A k \in 1 .. Len(t) : h[k] = Enter(h[k - 1], t[k])
    <3> SUFFICES ASSUME NEW k \in 1 .. Len(t) PROVE h[k] = Enter(h[k - 1], t[k])
      OBVIOUS
    <3>1. k \in 1 .. v - u /\ k - 1 \in 0 .. v - u /\ k \in 0 .. v - u
      BY <1>1, <2>2, <2>5
    <3>2. u + k \in 1 .. Len(e) /\ (u + k) - 1 = u + (k - 1)
      BY <1>1, <2>2, <3>1
    <3>3. g[u + k] = Enter(g[u + (k - 1)], e[u + k])
      BY <1>3, <3>2
    <3> QED
      BY <2>5, <3>1, <3>3
  <2>7. h[0] = g[u] /\ h[Len(t)] = g[v] /\ Len(t) \in Nat
    <3>1. v - u \in Nat /\ u + 0 = u /\ u + (v - u) = v
      BY <1>1, <2>2
    <3> QED
      BY <2>5, <3>1
  <2> HIDE DEF h
  <2>8. Apply(g[u], t) = g[v]
    BY <2>6, <2>7, ApplyIs
  <2>9. p - 1 \in 0 .. P /\ p \in 0 .. P
    BY <1>5
  <2> QED
    BY <2>1, <2>4, <2>8, <2>9
<1>8. G \in [0 .. P -> Books]
  <2>1. \A p \in 0 .. P : EndOf(e, p) \in 0 .. Len(e)
    <3> SUFFICES ASSUME NEW p \in 0 .. P PROVE EndOf(e, p) \in 0 .. Len(e)
      OBVIOUS
    <3>1. CASE p = 0
      BY <1>1, <3>1, PieceEnds
    <3>2. CASE p # 0
      <4>1. p \in 1 .. P
        BY <1>5, <3>2
      <4>2. EndOf(e, p - 1) \in 0 .. Len(e) /\ EndOf(e, p) \in EndOf(e, p - 1) + 1 .. Len(e)
        BY <1>5, <4>1, PieceEnds
      <4> QED
        BY <1>1, <4>2
    <3> QED
      BY <3>1, <3>2
  <2>2. \A p \in 0 .. P : g[EndOf(e, p)] \in Books
    BY <1>2, <2>1 DEF Course
  <2> QED
    BY <2>2
<1> HIDE DEF G
<1>9. CourseAll(G, b, 0, P, Pieces(e))
  <2>1. \A p \in 0 + 1 .. P : p \in 1 .. P
    BY <1>5
  <2> QED
    BY <1>6, <1>7, <2>1 DEF CourseAll
<1> QED
  BY <1>4, <1>5, <1>6, <1>8, <1>9

\* The same for the loop that applies them.
LEMMA ApplyPieces ==
    ASSUME NEW b \in Books, NEW e \in Seq(FeedEntries)
    PROVE  ApplyAll(b, 0, NumPieces(e), Pieces(e)) = Apply(b, e)
<1>0. PICK t : t = Pieces(e)
  OBVIOUS
<1>1. PICK P \in Nat, z \in Nat : P = NumPieces(e) /\ z = 0 /\ t = Pieces(e)
  BY <1>0, PieceEnds
<1>2. PICK G : CourseAll(G, b, z, P, t) /\ G[P] = Apply(b, e)
  BY <1>1, PiecesCourse
<1>3. ApplyAll(b, z, P, t) = G[P]
  BY <1>1, <1>2, ApplyAllIs
<1> QED
  BY <1>1, <1>2, <1>3

-----------------------------------------------------------------------------
(* Lists of levels. *)

\* before says which elements of S come before each, in a strict total order.
OrderOn(S, before) ==
    /\ before \in [S -> SUBSET S]
    /\ \A l \in S : l \notin before[l]
    /\ \A l \in S : \A m \in before[l] : before[m] \subseteq before[l]
    /\ \A l \in S : \A m \in S : l = m \/ m \in before[l] \/ l \in before[m]

\* Each element of S stands in the list q once.
Enumerates(q, S) ==
    /\ q \in Seq(S)
    /\ \A l \in S : \E k \in 1 .. Len(q) : q[k] = l /\ \A j \in 1 .. Len(q) : q[j] = l => j = k

\* Sorting a set lists each of its elements once.
LEMMA SortedFacts ==
    ASSUME NEW S, IsFiniteSet(S), NEW before, OrderOn(S, before)
    PROVE  Enumerates(Sorted(before), S)
<1>1. PICK n \in Nat : n = Cardinality(S)
  BY FS_CardinalityType
<1>2. DOMAIN before = S /\ \A l \in S : before[l] \subseteq S /\ l \notin before[l]
  BY DEF OrderOn
<1>3. \A l \in S : IsFiniteSet(before[l]) /\ Cardinality(before[l]) \in 0 .. n - 1
  <2> SUFFICES ASSUME NEW l \in S
               PROVE  IsFiniteSet(before[l]) /\ Cardinality(before[l]) \in 0 .. n - 1
    OBVIOUS
  <2>1. PICK T \in SUBSET S : T = before[l]
    BY <1>2
  <2>2. IsFiniteSet(T) /\ Cardinality(T) =< Cardinality(S) /\ (Cardinality(S) = Cardinality(T) => S = T)
    BY FS_Subset
  <2>3. Cardinality(T) \in Nat
    BY <2>2, FS_CardinalityType
  <2>4. S # T
    BY <1>2, <2>1
  <2> QED
    BY <1>1, <2>1, <2>2, <2>3, <2>4
<1> DEFINE rank == [l \in S |-> Cardinality(before[l])]
<1>4. rank \in [S -> 0 .. n - 1]
  BY <1>3
<1>5. ASSUME NEW l \in S, NEW m \in S, m \in before[l] PROVE rank[l] # rank[m]
  <2>1. PICK T : T = before[l]
    OBVIOUS
  <2>2. PICK U \in SUBSET T : U = before[m]
    BY <1>5, <2>1 DEF OrderOn
  <2>3. IsFiniteSet(T)
    BY <1>3, <2>1
  <2>4. Cardinality(T) = Cardinality(U) => T = U
    BY <2>3, FS_Subset
  <2>5. T # U
    BY <1>2, <1>5, <2>1, <2>2
  <2> QED
    BY <2>1, <2>2, <2>4, <2>5
<1>6. \A l \in S : \A m \in S : rank[l] = rank[m] => l = m
  <2> HIDE DEF rank
  <2> QED
    BY <1>5 DEF OrderOn
<1> HIDE DEF rank
<1>7. \A i \in 0 .. n - 1 : \E l \in S : rank[l] = i
  <2>1. PICK T : T = 0 .. n - 1
    OBVIOUS
  <2>2. IsFiniteSet(T) /\ Cardinality(T) = n
    <3>1. 0 \in Int /\ n - 1 \in Int
      BY <1>1
    <3>2. IsFiniteSet(0 .. n - 1) /\ Cardinality(0 .. n - 1) = IF 0 > n - 1 THEN 0 ELSE (n - 1) - 0 + 1
      BY <3>1, FS_Interval
    <3> QED
      BY <1>1, <2>1, <3>2
  <2>3. rank \in Injection(S, T)
    BY <1>4, <1>6, <2>1 DEF Injection, IsInjective
  <2>4. rank \in Surjection(S, T)
    BY <1>1, <2>2, <2>3, FS_Injection
  <2> QED
    BY <2>1, <2>4 DEF Surjection
<1> DEFINE q == Sorted(before)
<1>8. q = [i \in 1 .. n |-> CHOOSE l \in S : Cardinality(before[l]) = i - 1]
  BY <1>1, <1>2 DEF Sorted
<1>9. \A i \in 1 .. n : q[i] \in S /\ rank[q[i]] = i - 1
  <2> SUFFICES ASSUME NEW i \in 1 .. n PROVE q[i] \in S /\ rank[q[i]] = i - 1
    OBVIOUS
  <2>1. i - 1 \in 0 .. n - 1
    BY <1>1
  <2>2. PICK l \in S : rank[l] = i - 1
    BY <1>7, <2>1
  <2>3. Cardinality(before[l]) = i - 1
    BY <2>2 DEF rank
  <2>4. q[i] = CHOOSE x \in S : Cardinality(before[x]) = i - 1
    BY <1>8
  <2> HIDE DEF q
  <2>5. q[i] \in S /\ Cardinality(before[q[i]]) = i - 1
    BY <2>3, <2>4
  <2> QED
    BY <2>5 DEF rank
<1>10. q \in Seq(S) /\ Len(q) = n
  <2>1. q \in [1 .. n -> S]
    BY <1>8, <1>9
  <2> HIDE DEF q
  <2> QED
    BY <1>1, <2>1
<1> HIDE DEF q
<1>11. ASSUME NEW l \in S
       PROVE  \E k \in 1 .. n : q[k] = l /\ \A j \in 1 .. n : q[j] = l => j = k
  <2>1. PICK k \in Int : k = rank[l] + 1
    BY <1>4
  <2>2. k \in 1 .. n /\ k - 1 = rank[l]
    BY <1>1, <1>4, <2>1
  <2>3. q[k] = l
    BY <1>6, <1>9, <2>2
  <2>4. \A j \in 1 .. n : q[j] = l => j = k
    BY <1>1, <1>9, <2>2
  <2> QED
    BY <2>2, <2>3, <2>4
<1> QED
  BY <1>10, <1>11 DEF q, Enumerates

\* The order of a snapshot and the order of a batch are total.
LEMMA LevelOrders ==
    ASSUME NEW S \in SUBSET FeedLevels
    PROVE  /\ OrderOn(S, [l \in S |-> {m \in S : BestFirst(m, l)}])
           /\ OrderOn(S, [l \in S |-> {m \in S : InSortOrder(m, l)}])
<1>1. \A l \in S : l.side \in {"Buy", "Sell"} /\ l.price \in Nat
  BY FeedAssumption
<1>2. \A l \in S : \A m \in S : l.side = m.side /\ l.price = m.price => l = m
  BY FeedAssumption
<1>3. \A l \in S : ~BestFirst(l, l) /\ ~InSortOrder(l, l)
  BY <1>1 DEF BestFirst, InSortOrder
<1>4. \A l \in S : \A m \in S : l = m \/ BestFirst(m, l) \/ BestFirst(l, m)
  BY <1>1, <1>2 DEF BestFirst
<1>5. \A l \in S : \A m \in S : l = m \/ InSortOrder(m, l) \/ InSortOrder(l, m)
  BY <1>1, <1>2 DEF InSortOrder
<1>6. \A l \in S : \A m \in S : \A k \in S : BestFirst(m, l) /\ BestFirst(k, m) => BestFirst(k, l)
  BY <1>1 DEF BestFirst
<1>7. \A l \in S : \A m \in S : \A k \in S : InSortOrder(m, l) /\ InSortOrder(k, m) => InSortOrder(k, l)
  BY <1>1 DEF InSortOrder
<1>8. OrderOn(S, [l \in S |-> {m \in S : BestFirst(m, l)}])
  BY <1>3, <1>4, <1>6 DEF OrderOn
<1>9. OrderOn(S, [l \in S |-> {m \in S : InSortOrder(m, l)}])
  BY <1>3, <1>5, <1>7 DEF OrderOn
<1> QED
  BY <1>8, <1>9

\* A packet that tells of each level of S once, by the quantities of f.
Tells(e, S, f) ==
    /\ \A l \in S : \E k : OnlyAbout(e, k, l) /\ e[k].qty = f[l]
    /\ \A l \in FeedLevels \ S : NoneAbout(e, l)

\* The list of a book tells of each of its levels.
LEMMA ListedFacts ==
    ASSUME NEW b \in Books
    PROVE  Listed(b) \in Seq(FeedEntries) /\ Tells(Listed(b), DOMAIN b, b)
<1>1. DOMAIN b \subseteq FeedLevels /\ b \in [DOMAIN b -> Nat \ {0}]
  BY BookIff
<1>2. PICK S \in SUBSET FeedLevels : S = DOMAIN b
  BY <1>1
<1>3. IsFiniteSet(S)
  BY FeedAssumption, FS_Subset
<1>4. PICK q : q = Sorted([l \in S |-> {m \in S : BestFirst(m, l)}])
  OBVIOUS
<1>5. Enumerates(q, S)
  BY <1>3, <1>4, LevelOrders, SortedFacts
<1>6. PICK n \in Nat : n = Len(q)
  BY <1>5, LenProperties DEF Enumerates
<1>7. DOMAIN q = 1 .. n /\ \A i \in 1 .. n : q[i] \in S
  BY <1>5, <1>6, LenProperties DEF Enumerates
<1> DEFINE e == Listed(b)
<1>8. e = [i \in 1 .. n |-> Level(q[i], b[q[i]])]
  BY <1>2, <1>4, <1>7 DEF Listed
<1>9. \A i \in 1 .. n : e[i] \in FeedEntries /\ e[i].type # "Trade" /\ e[i].at = q[i] /\ e[i].qty = b[q[i]]
  BY <1>1, <1>2, <1>7, <1>8 DEF Level, FeedEntries
<1>10. e \in Seq(FeedEntries) /\ Len(e) = n
  <2>1. e \in [1 .. n -> FeedEntries]
    BY <1>8, <1>9
  <2> HIDE DEF e
  <2> QED
    BY <1>6, <2>1
<1> HIDE DEF e
<1>11. ASSUME NEW l \in S PROVE \E k : OnlyAbout(e, k, l) /\ e[k].qty = b[l]
  <2>1. PICK k \in 1 .. n : q[k] = l /\ \A j \in 1 .. n : q[j] = l => j = k
    BY <1>5, <1>6 DEF Enumerates
  <2>2. OnlyAbout(e, k, l) /\ e[k].qty = b[l]
    BY <1>9, <1>10, <2>1 DEF OnlyAbout
  <2> QED
    BY <2>2
<1>12. \A l \in FeedLevels \ S : NoneAbout(e, l)
  BY <1>7, <1>9, <1>10 DEF NoneAbout
<1> QED
  BY <1>2, <1>10, <1>11, <1>12 DEF e, Tells

\* c is b with what f has for the levels S.
Amended(c, b, S, f) ==
    \A l \in FeedLevels : Holds(c, l) = IF l \in S THEN f[l] ELSE Holds(b, l)

\* What a packet that tells of some levels makes of a book.
LEMMA TellsFacts ==
    ASSUME NEW b \in Books, NEW e \in Seq(FeedEntries), NEW S \in SUBSET FeedLevels, NEW f, Tells(e, S, f)
    PROVE  Amended(Apply(b, e), b, S, f)
<1> SUFFICES ASSUME NEW l \in FeedLevels
             PROVE  Holds(Apply(b, e), l) = IF l \in S THEN f[l] ELSE Holds(b, l)
  BY DEF Amended
<1>1. CASE l \in S
  <2>1. PICK k : OnlyAbout(e, k, l) /\ e[k].qty = f[l]
    BY <1>1 DEF Tells
  <2>2. Holds(Apply(b, e), l) = e[k].qty
    BY <2>1, ApplyFacts
  <2> QED
    BY <1>1, <2>1, <2>2
<1>2. CASE l \notin S
  <2>1. NoneAbout(e, l)
    BY <1>2 DEF Tells
  <2> QED
    BY <1>2, <2>1, ApplyFacts
<1> QED
  BY <1>1, <1>2

\* The parts of a snapshot rebuild the book they were taken of.
LEMMA PartsFacts ==
    ASSUME NEW b \in Books
    PROVE  /\ PartsOf(b) \in Seq(Seq(FeedEntries))
           /\ Len(PartsOf(b)) \in Nat \ {0}
           /\ ApplyAll(Nothing, 0, Len(PartsOf(b)), PartsOf(b)) = b
<1>1. PICK e : e = Listed(b)
  OBVIOUS
<1>2. e \in Seq(FeedEntries) /\ Tells(e, DOMAIN b, b)
  BY <1>1, ListedFacts
<1>3. DOMAIN b \subseteq FeedLevels
  BY BookIff
<1>4. Apply(Nothing, e) = b
  <2>1. PICK c \in Books : c = Apply(Nothing, e)
    BY <1>2, NothingIsBook, ApplyFacts
  <2>2. \A l \in FeedLevels : Holds(Apply(Nothing, e), l) = IF l \in DOMAIN b THEN b[l] ELSE Holds(Nothing, l)
    <3>1. PICK S \in SUBSET FeedLevels : S = DOMAIN b
      BY <1>3
    <3>2. Tells(e, S, b)
      BY <1>2, <3>1
    <3>3. \A l \in FeedLevels : Holds(Apply(Nothing, e), l) = IF l \in S THEN b[l] ELSE Holds(Nothing, l)
      <4>1. Amended(Apply(Nothing, e), Nothing, S, b)
        BY <1>2, <3>2, NothingIsBook, TellsFacts
      <4> QED
        BY <4>1 DEF Amended
    <3> QED
      BY <3>1, <3>3
  <2>3. \A l \in FeedLevels : Holds(c, l) = Holds(b, l)
    BY <2>1, <2>2, NothingIsBook DEF Holds
  <2> QED
    BY <2>1, <2>3, BookEqual
<1>5. Len(e) \in Nat
  BY <1>2, LenProperties
<1>6. CASE e = <<>>
  <2>1. PICK t : t = <<e>>
    OBVIOUS
  <2>2. PartsOf(b) = t
    BY <1>1, <1>6, <2>1 DEF PartsOf
  <2>3. t \in Seq(Seq(FeedEntries)) /\ Len(t) = 1 /\ t[1] = e
    BY <1>2, <2>1
  <2> DEFINE g == [n \in 0 .. 1 |-> IF n = 0 THEN Nothing ELSE b]
  <2>4. PICK y \in Nat, z \in Nat : y = 0 /\ z = 1
    OBVIOUS
  <2>5. CourseAll(g, Nothing, y, z, t)
    BY <1>4, <2>3, <2>4 DEF CourseAll
  <2>6. g[z] = b
    BY <2>4
  <2> HIDE DEF g
  <2>7. ApplyAll(Nothing, y, z, t) = g[z]
    BY <2>4, <2>5, ApplyAllIs
  <2> QED
    BY <2>2, <2>3, <2>4, <2>6, <2>7
<1>7. CASE e # <<>>
  <2>1. PartsOf(b) = Pieces(e)
    BY <1>1, <1>7 DEF PartsOf
  <2>2. Len(e) # 0
    BY <1>2, <1>7, EmptySeq
  <2>3. Pieces(e) \in Seq(Seq(FeedEntries)) /\ Len(Pieces(e)) = NumPieces(e)
    BY <1>2, PiecesFacts
  <2>4. NumPieces(e) \in Nat /\ NumPieces(e) # 0
    BY <1>2, <2>2, PieceEnds
  <2>5. ApplyAll(Nothing, 0, NumPieces(e), Pieces(e)) = Apply(Nothing, e)
    BY <1>2, NothingIsBook, ApplyPieces
  <2> QED
    BY <1>4, <2>1, <2>3, <2>4, <2>5
<1> QED
  BY <1>6, <1>7

-----------------------------------------------------------------------------
(* The invariant.  E holds the entries of each incremental packet so far and *)
(* H the book after it.                                                      *)

Packets ==
    [kind : {"Incremental"}, seq : Nat, entries : Seq(FeedEntries)]
      \cup [kind : {"Snapshot"}, seq : Nat, part : Nat, parts : Nat, entries : Seq(FeedEntries)]
      \cup [kind : {"Heartbeat", "End"}, seq : Nat]

\* Packets by number.
Numbered == UNION {[S -> Seq(FeedEntries)] : S \in SUBSET Nat}

Subscribers ==
    [synced : BOOLEAN, seq : Nat, book : Books, pending : Numbered, snapId : Int,
     parts : Numbered, end : Int, ended : BOOLEAN]

FeedTyped ==
    /\ total \in [FeedLevels -> Nat]
    /\ batch \in [levels : SUBSET FeedLevels, trades : Nat]
    /\ feed \in [seq : Nat, since : Nat, ended : BOOLEAN]
    /\ net \in Seq(Packets)
    /\ sub \in Subscribers

\* The first N packets and the books after them.
Told(N, E, H) ==
    /\ E \in [1 .. N -> Seq(FeedEntries)]
    /\ H \in [0 .. N -> Books]
    /\ H[0] = Nothing
    /\ \A n \in 1 .. N : H[n] = Apply(H[n - 1], E[n])

\* A datagram says what the history says, a snapshot of the book at its number.
PacketOk(m, N, ended, E, H) ==
    /\ m.seq \in 0 .. N
    /\ m.kind = "Incremental" => m.seq # 0 /\ m.entries = E[m.seq]
    /\ m.kind = "Snapshot" =>
          /\ m.parts = Len(PartsOf(H[m.seq]))
          /\ m.part \in 1 .. m.parts
          /\ m.entries = PartsOf(H[m.seq])[m.part]
    /\ m.kind = "End" => ended /\ m.seq = N

AllOk(q, N, ended, E, H) == \A i \in 1 .. Len(q) : PacketOk(q[i], N, ended, E, H)

NetOk(q, N, ended, E, H) ==
    /\ AllOk(q, N, ended, E, H)
    /\ \A n \in 1 .. N : \E i \in 1 .. Len(q) : q[i].kind = "Incremental" /\ q[i].seq = n

\* The last book is the engine's but for the levels of the batch.
EngineOk(b) == \A l \in FeedLevels : l \notin batch.levels => Holds(b, l) = total[l]

\* The packets that a subscriber keeps.
PendingOk(s, N, E) == \A n \in DOMAIN s.pending : n \in 1 .. N /\ s.pending[n] = E[n]
PartsOk(s, N, H) ==
    \A p \in DOMAIN s.parts :
       /\ s.snapId \in 0 .. N
       /\ p \in 1 .. Len(PartsOf(H[s.snapId]))
       /\ s.parts[p] = PartsOf(H[s.snapId])[p]

\* A subscriber in sync has the book at its number.
SyncOk(s, N, H) ==
    /\ s.seq \in 0 .. N
    /\ s.synced => s.book = H[s.seq] /\ s.pending = Nothing
EndOk(s, N, ended) ==
    /\ s.end >= 0 => ended /\ s.end = N
    /\ s.ended => s.synced /\ s.end >= 0 /\ s.seq >= s.end
SubOk(s, N, ended, E, H) ==
    PendingOk(s, N, E) /\ PartsOk(s, N, H) /\ SyncOk(s, N, H) /\ EndOk(s, N, ended)

FeedInv ==
    /\ FeedTyped
    /\ feed.ended => batch = NoBatch
    /\ \E E, H :
         /\ Told(feed.seq, E, H)
         /\ NetOk(net, feed.seq, feed.ended, E, H)
         /\ EngineOk(H[feed.seq])
         /\ SubOk(sub, feed.seq, feed.ended, E, H)

\* Packets kept by number.
LEMMA NumberedIff ==
    ASSUME NEW f
    PROVE  f \in Numbered <=> DOMAIN f \subseteq Nat /\ f \in [DOMAIN f -> Seq(FeedEntries)]
<1>1. ASSUME f \in Numbered PROVE DOMAIN f \subseteq Nat /\ f \in [DOMAIN f -> Seq(FeedEntries)]
  <2>1. PICK S \in SUBSET Nat : f \in [S -> Seq(FeedEntries)]
    BY <1>1 DEF Numbered
  <2>2. DOMAIN f = S
    BY <2>1
  <2> QED
    BY <2>1, <2>2
<1>2. ASSUME DOMAIN f \subseteq Nat, f \in [DOMAIN f -> Seq(FeedEntries)] PROVE f \in Numbered
  BY <1>2 DEF Numbered
<1> QED
  BY <1>1, <1>2

\* One more is kept.
LEMMA WithFacts ==
    ASSUME NEW f \in Numbered, NEW k \in Nat, NEW e \in Seq(FeedEntries)
    PROVE  /\ With(f, k, e) \in Numbered
           /\ DOMAIN With(f, k, e) = DOMAIN f \cup {k}
           /\ \A j \in DOMAIN f \cup {k} : With(f, k, e)[j] = IF j = k THEN e ELSE f[j]
<1>1. PICK g : g = With(f, k, e)
  OBVIOUS
<1>2. DOMAIN f \subseteq Nat /\ f \in [DOMAIN f -> Seq(FeedEntries)]
  BY NumberedIff
<1>3. g = [j \in DOMAIN f \cup {k} |-> IF j = k THEN e ELSE f[j]]
  BY <1>1 DEF With
<1>4. DOMAIN g = DOMAIN f \cup {k} /\ \A j \in DOMAIN f \cup {k} : g[j] = IF j = k THEN e ELSE f[j]
  BY <1>3
<1>5. g \in [DOMAIN g -> Seq(FeedEntries)] /\ DOMAIN g \subseteq Nat
  BY <1>2, <1>3
<1>6. g \in Numbered
  BY <1>5, NumberedIff
<1> QED
  BY <1>1, <1>4, <1>6

\* Some are dropped.
LEMMA WithoutFacts ==
    ASSUME NEW f \in Numbered, NEW S
    PROVE  /\ Without(f, S) \in Numbered
           /\ DOMAIN Without(f, S) = DOMAIN f \ S
           /\ \A j \in DOMAIN f \ S : Without(f, S)[j] = f[j]
<1>1. PICK g : g = Without(f, S)
  OBVIOUS
<1>2. DOMAIN f \subseteq Nat /\ f \in [DOMAIN f -> Seq(FeedEntries)]
  BY NumberedIff
<1>3. g = [j \in DOMAIN f \ S |-> f[j]]
  BY <1>1 DEF Without
<1>4. DOMAIN g = DOMAIN f \ S /\ \A j \in DOMAIN f \ S : g[j] = f[j]
  BY <1>3
<1>5. g \in [DOMAIN g -> Seq(FeedEntries)] /\ DOMAIN g \subseteq Nat
  BY <1>2, <1>3
<1>6. g \in Numbered
  BY <1>5, NumberedIff
<1> QED
  BY <1>1, <1>4, <1>6

\* At first none is kept.
LEMMA NothingNumbered == Nothing \in Numbered
<1>1. DOMAIN Nothing = {} /\ Nothing \in [{} -> Seq(FeedEntries)]
  BY DEF Nothing
<1> QED
  BY <1>1, NumberedIff

\* Nothing is kept: it is the function without an element.
LEMMA NothingKept ==
    ASSUME NEW f \in Numbered, DOMAIN f = {}
    PROVE  f = Nothing
<1>1. f \in [{} -> Seq(FeedEntries)]
  BY NumberedIff
<1>2. Nothing \in [{} -> Seq(FeedEntries)] /\ DOMAIN Nothing = {}
  BY DEF Nothing
<1> QED
  BY <1>1, <1>2

\* Two histories that agree on the first N packets.
Agreeing(N, E, H, F, G) ==
    /\ \A n \in 1 .. N : F[n] = E[n]
    /\ \A n \in 0 .. N : G[n] = H[n]

\* The history goes on by the packets of a batch.
LEMMA ToldMore ==
    ASSUME NEW N \in Nat, NEW E, NEW H, Told(N, E, H), NEW e \in Seq(FeedEntries)
    PROVE  \E F, G :
              /\ Told(N + NumPieces(e), F, G)
              /\ Agreeing(N, E, H, F, G)
              /\ \A p \in 1 .. NumPieces(e) : F[N + p] = Pieces(e)[p]
              /\ G[N + NumPieces(e)] = Apply(H[N], e)
<1>1. PICK P \in Nat : P = NumPieces(e)
  BY PieceEnds
<1>2. H[N] \in Books
  BY DEF Told
<1>3. PICK K \in [0 .. P -> Books] : CourseAll(K, H[N], 0, P, Pieces(e)) /\ K[P] = Apply(H[N], e)
  BY <1>1, <1>2, PiecesCourse
<1>4. K[0] = H[N] /\ \A p \in 1 .. P : K[p] = Apply(K[p - 1], Pieces(e)[p])
  <2>1. \A p \in 1 .. P : p \in 0 + 1 .. P
    OBVIOUS
  <2> QED
    BY <1>3, <2>1 DEF CourseAll
<1>5. \A p \in 1 .. P : Pieces(e)[p] \in Seq(FeedEntries)
  BY <1>1, PiecesFacts, ElementOfSeq
<1> DEFINE F == [n \in 1 .. N + P |-> IF n =< N THEN E[n] ELSE Pieces(e)[n - N]]
           G == [n \in 0 .. N + P |-> IF n =< N THEN H[n] ELSE K[n - N]]
<1>6. \A n \in 1 .. N + P : n =< N \/ n - N \in 1 .. P
  OBVIOUS
<1>7. F \in [1 .. N + P -> Seq(FeedEntries)]
  <2>1. \A n \in 1 .. N + P : F[n] \in Seq(FeedEntries)
    <3> SUFFICES ASSUME NEW n \in 1 .. N + P PROVE F[n] \in Seq(FeedEntries)
      OBVIOUS
    <3>1. CASE n =< N
      <4>1. n \in 1 .. N
        BY <3>1
      <4>2. E[n] \in Seq(FeedEntries)
        BY <4>1 DEF Told
      <4> QED
        BY <3>1, <4>2
    <3>2. CASE ~(n =< N)
      <4>1. n - N \in 1 .. P
        BY <1>6, <3>2
      <4> QED
        BY <1>5, <3>2, <4>1
    <3> QED
      BY <3>1, <3>2
  <2>2. F = [n \in 1 .. N + P |-> F[n]]
    OBVIOUS
  <2> HIDE DEF F
  <2> QED
    BY <2>1, <2>2
<1>8. G \in [0 .. N + P -> Books]
  <2>1. \A n \in 0 .. N + P : G[n] \in Books
    <3> SUFFICES ASSUME NEW n \in 0 .. N + P PROVE G[n] \in Books
      OBVIOUS
    <3>1. CASE n =< N
      <4>1. n \in 0 .. N
        BY <3>1
      <4>2. H[n] \in Books
        BY <4>1 DEF Told
      <4> QED
        BY <3>1, <4>2
    <3>2. CASE ~(n =< N)
      <4>1. n - N \in 0 .. P
        BY <3>2
      <4> QED
        BY <1>3, <3>2, <4>1
    <3> QED
      BY <3>1, <3>2
  <2>2. G = [n \in 0 .. N + P |-> G[n]]
    OBVIOUS
  <2> HIDE DEF G
  <2> QED
    BY <2>1, <2>2
<1>9. Agreeing(N, E, H, F, G)
  <2>1. \A n \in 1 .. N : n \in 1 .. N + P /\ n =< N
    OBVIOUS
  <2>2. \A n \in 0 .. N : n \in 0 .. N + P /\ n =< N
    OBVIOUS
  <2> QED
    BY <2>1, <2>2 DEF Agreeing
<1>10. \A p \in 1 .. P : F[N + p] = Pieces(e)[p] /\ G[N + p] = K[p]
  <2>1. \A p \in 1 .. P : N + p \in 1 .. N + P /\ N + p \in 0 .. N + P /\ ~(N + p =< N) /\ (N + p) - N = p
    OBVIOUS
  <2> QED
    BY <2>1
<1> HIDE DEF F, G
<1>11. G[N] = K[0] /\ G[0] = Nothing
  BY <1>4, <1>9 DEF Agreeing, Told
<1>12. ASSUME NEW n \in 1 .. N + P PROVE G[n] = Apply(G[n - 1], F[n])
  <2>1. CASE n =< N
    <3>1. n \in 1 .. N /\ n \in 0 .. N /\ n - 1 \in 0 .. N
      BY <2>1
    <3> QED
      BY <1>9, <3>1 DEF Agreeing, Told
  <2>2. CASE ~(n =< N)
    <3>1. PICK p \in 1 .. P : p = n - N /\ n = N + p
      BY <1>6, <2>2
    <3>2. K[p] = Apply(K[p - 1], Pieces(e)[p])
      BY <1>4
    <3>3. G[n - 1] = K[p - 1]
      <4>1. CASE p = 1
        BY <1>11, <3>1, <4>1
      <4>2. CASE p # 1
        <5>1. p - 1 \in 1 .. P /\ n - 1 = N + (p - 1)
          BY <3>1, <4>2
        <5> QED
          BY <1>10, <5>1
      <4> QED
        BY <4>1, <4>2
    <3> QED
      BY <1>10, <3>1, <3>2, <3>3
  <2> QED
    BY <2>1, <2>2
<1>13. Told(N + P, F, G)
  BY <1>7, <1>8, <1>11, <1>12 DEF Told
<1>14. G[N + P] = Apply(H[N], e)
  <2>1. CASE P = 0
    BY <1>3, <1>11, <2>1
  <2>2. CASE P # 0
    <3>1. P \in 1 .. P
      BY <2>2
    <3> QED
      BY <1>3, <1>10, <3>1
  <2> QED
    BY <2>1, <2>2
<1> QED
  BY <1>1, <1>9, <1>10, <1>13, <1>14

-----------------------------------------------------------------------------
(* What the publisher sends. *)

\* The engine's levels are a book.
LEMMA EngineIsBook ==
    ASSUME FeedTyped
    PROVE  Engine \in Books /\ \A l \in FeedLevels : Holds(Engine, l) = total[l]
<1>1. DOMAIN Engine = Shown /\ Shown \subseteq FeedLevels /\ \A l \in Shown : Engine[l] = total[l]
  BY DEF Engine, Shown
<1>2. Engine \in [Shown -> Nat \ {0}]
  BY DEF Engine, Shown, FeedTyped
<1>3. Engine \in Books
  BY <1>1, <1>2, BookIff
<1>4. \A l \in FeedLevels : Holds(Engine, l) = total[l]
  BY <1>1 DEF Holds, Shown
<1> QED
  BY <1>3, <1>4

\* A batch tells of each of its levels.
LEMMA StagedFacts ==
    ASSUME FeedTyped
    PROVE  Staged \in Seq(FeedEntries) /\ Tells(Staged, batch.levels, total)
<1>1. PICK S \in SUBSET FeedLevels : S = batch.levels
  BY DEF FeedTyped
<1>2. IsFiniteSet(S)
  BY FeedAssumption, FS_Subset
<1>3. PICK q : q = Sorted([l \in S |-> {m \in S : InSortOrder(m, l)}])
  OBVIOUS
<1>4. Enumerates(q, S)
  BY <1>2, <1>3, LevelOrders, SortedFacts
<1>5. PICK n \in Nat : n = Len(q)
  BY <1>4, LenProperties DEF Enumerates
<1>6. DOMAIN q = 1 .. n /\ \A i \in 1 .. n : q[i] \in S
  BY <1>4, <1>5, LenProperties DEF Enumerates
<1>7. PICK t \in Nat : t = batch.trades
  BY DEF FeedTyped
<1> DEFINE u == [i \in 1 .. t |-> Traded]
           v == [i \in 1 .. n |-> Level(q[i], total[q[i]])]
<1>8. Staged = u \o v
  BY <1>1, <1>3, <1>6, <1>7 DEF Staged
<1>9. \A i \in 1 .. n : v[i] \in FeedEntries /\ v[i].type # "Trade" /\ v[i].at = q[i] /\ v[i].qty = total[q[i]]
  BY <1>6 DEF Level, FeedEntries, FeedTyped
<1>10. u \in Seq(FeedEntries) /\ Len(u) = t /\ \A i \in 1 .. t : u[i].type = "Trade"
  <2>1. u \in [1 .. t -> FeedEntries] /\ \A i \in 1 .. t : u[i].type = "Trade"
    BY DEF Traded, FeedEntries
  <2> HIDE DEF u
  <2> QED
    BY <2>1
<1>11. v \in Seq(FeedEntries) /\ Len(v) = n
  <2>1. v \in [1 .. n -> FeedEntries]
    BY <1>9
  <2> HIDE DEF v
  <2> QED
    BY <2>1
<1> HIDE DEF u, v
<1>12. PICK e : e = u \o v
  OBVIOUS
<1>13. e \in Seq(FeedEntries) /\ Len(e) = t + n /\ \A i \in 1 .. t + n : e[i] = IF i =< t THEN u[i] ELSE v[i - t]
  BY <1>10, <1>11, <1>12, ConcatProperties
<1>14. \A i \in 1 .. t + n : e[i].type # "Trade" => i - t \in 1 .. n /\ e[i] = v[i - t]
  <2> SUFFICES ASSUME NEW i \in 1 .. t + n, e[i].type # "Trade"
               PROVE  i - t \in 1 .. n /\ e[i] = v[i - t]
    OBVIOUS
  <2>1. ~(i =< t)
    <3>1. i =< t => i \in 1 .. t
      OBVIOUS
    <3> QED
      BY <1>10, <1>13, <3>1
  <2> QED
    BY <1>13, <2>1
<1>15. ASSUME NEW l \in S PROVE \E k : OnlyAbout(e, k, l) /\ e[k].qty = total[l]
  <2>1. PICK j \in 1 .. n : q[j] = l /\ \A i \in 1 .. n : q[i] = l => i = j
    BY <1>4, <1>5 DEF Enumerates
  <2>2. PICK k \in 1 .. t + n : k = t + j
    OBVIOUS
  <2>3. e[k] = v[j]
    <3>1. ~(k =< t) /\ k - t = j
      BY <2>2
    <3> QED
      BY <1>13, <3>1
  <2>4. e[k].type # "Trade" /\ e[k].at = l /\ e[k].qty = total[l]
    BY <1>9, <2>1, <2>3
  <2>5. ASSUME NEW i \in 1 .. t + n, e[i].type # "Trade", e[i].at = l PROVE i = k
    <3>1. PICK h \in 1 .. n : h = i - t /\ e[i] = v[h]
      BY <1>14, <2>5
    <3>2. q[h] = l
      BY <1>9, <2>5, <3>1
    <3>3. h = j
      BY <2>1, <3>2
    <3> QED
      BY <2>2, <3>1, <3>3
  <2>6. OnlyAbout(e, k, l)
    BY <1>13, <2>4, <2>5 DEF OnlyAbout
  <2> QED
    BY <2>4, <2>6
<1>16. ASSUME NEW l \in FeedLevels \ S PROVE NoneAbout(e, l)
  <2> SUFFICES ASSUME NEW i \in 1 .. t + n, e[i].type # "Trade", e[i].at = l PROVE FALSE
    BY <1>13 DEF NoneAbout
  <2>1. PICK h \in 1 .. n : e[i] = v[h]
    BY <1>14
  <2> QED
    BY <1>6, <1>9, <2>1
<1>17. Tells(e, S, total)
  BY <1>15, <1>16 DEF Tells
<1> QED
  BY <1>1, <1>8, <1>12, <1>13, <1>17

\* At the end of a batch the packets have told all there was to tell.
LEMMA CommitTells ==
    ASSUME FeedTyped, NEW b \in Books, EngineOk(b)
    PROVE  Apply(b, Staged) = Engine
<1>1. PICK e \in Seq(FeedEntries), S \in SUBSET FeedLevels : e = Staged /\ S = batch.levels
  BY StagedFacts DEF FeedTyped
<1>2. Tells(e, S, total)
  BY <1>1, StagedFacts
<1>3. \A l \in FeedLevels : Holds(Apply(b, e), l) = IF l \in S THEN total[l] ELSE Holds(b, l)
  <2>1. PICK f : f = total
    OBVIOUS
  <2>2. Tells(e, S, f)
    BY <1>2, <2>1
  <2>3. Amended(Apply(b, e), b, S, f)
    BY <2>2, TellsFacts
  <2> QED
    BY <2>1, <2>3 DEF Amended
<1>4. \A l \in FeedLevels : Holds(Apply(b, e), l) = total[l]
  BY <1>1, <1>3 DEF EngineOk
<1>5. Apply(b, e) \in Books
  BY ApplyFacts
<1>6. \A l \in FeedLevels : Holds(Apply(b, e), l) = Holds(Engine, l)
  BY <1>4, EngineIsBook
<1>7. Apply(b, e) = Engine
  <2>1. PICK c \in Books, d \in Books : c = Apply(b, e) /\ d = Engine
    BY <1>5, EngineIsBook
  <2>2. \A l \in FeedLevels : Holds(c, l) = Holds(d, l)
    BY <1>6, <2>1
  <2> QED
    BY <2>1, <2>2, BookEqual
<1> QED
  BY <1>1, <1>7

\* Between two batches there is nothing left to tell.
LEMMA IdleTells ==
    ASSUME FeedTyped, batch = NoBatch, NEW b \in Books, EngineOk(b)
    PROVE  b = Engine
<1>1. \A l \in FeedLevels : Holds(b, l) = total[l]
  BY DEF EngineOk, NoBatch
<1>2. PICK d \in Books : d = Engine
  BY EngineIsBook
<1>3. \A l \in FeedLevels : Holds(b, l) = Holds(d, l)
  BY <1>1, <1>2, EngineIsBook
<1> QED
  BY <1>2, <1>3, BookEqual

\* The datagrams of a snapshot.
LEMMA SnapshotPackets ==
    ASSUME FeedTyped, NEW N \in Nat, NEW n \in 0 .. N, NEW ended, NEW E, NEW H, H[n] = Engine
    PROVE  /\ SnapshotParts(n) \in Seq(Packets)
           /\ AllOk(SnapshotParts(n), N, ended, E, H)
<1>1. PICK t : t = PartsOf(Engine)
  OBVIOUS
<1>2. t \in Seq(Seq(FeedEntries)) /\ Len(t) \in Nat \ {0}
  BY <1>1, EngineIsBook, PartsFacts
<1>3. PICK k \in Nat : k = Len(t)
  BY <1>2
<1>4. DOMAIN t = 1 .. k /\ \A p \in 1 .. k : t[p] \in Seq(FeedEntries)
  BY <1>2, <1>3, LenProperties, ElementOfSeq
<1> DEFINE q == SnapshotParts(n)
<1>5. q = [p \in 1 .. k |-> Snapshot(n, p, k, t[p])]
  BY <1>1, <1>3, <1>4 DEF SnapshotParts
<1>6. \A p \in 1 .. k : q[p] \in Packets /\ q[p].kind = "Snapshot" /\ q[p].seq = n /\ q[p].part = p
                        /\ q[p].parts = k /\ q[p].entries = t[p]
  BY <1>4, <1>5 DEF Snapshot, Packets
<1>7. q \in Seq(Packets) /\ Len(q) = k
  <2>1. q \in [1 .. k -> Packets]
    BY <1>5, <1>6
  <2> HIDE DEF q
  <2> QED
    BY <1>3, <2>1
<1> HIDE DEF q
<1>8. \A p \in 1 .. k : PacketOk(q[p], N, ended, E, H)
  BY <1>1, <1>3, <1>6 DEF PacketOk
<1> QED
  BY <1>7, <1>8 DEF q, AllOk

\* The datagrams of a batch.
LEMMA IncrementPackets ==
    ASSUME NEW N \in Nat, NEW e \in Seq(FeedEntries)
    PROVE  /\ Increments(N + 1, e) \in Seq(Packets)
           /\ Len(Increments(N + 1, e)) = NumPieces(e)
           /\ \A p \in 1 .. NumPieces(e) :
                 /\ Increments(N + 1, e)[p].kind = "Incremental"
                 /\ Increments(N + 1, e)[p].seq = N + p
                 /\ Increments(N + 1, e)[p].entries = Pieces(e)[p]
<1>0. PICK t : t = Pieces(e)
  OBVIOUS
<1>1. PICK P \in Nat : P = NumPieces(e) /\ t = Pieces(e)
  BY <1>0, PieceEnds
<1>2. t \in Seq(Seq(FeedEntries)) /\ Len(t) = P
  BY <1>1, PiecesFacts
<1>3. DOMAIN t = 1 .. P /\ \A p \in 1 .. P : t[p] \in Seq(FeedEntries)
  BY <1>2, LenProperties, ElementOfSeq
<1> DEFINE q == Increments(N + 1, e)
<1>4. q = [p \in 1 .. P |-> Incremental(N + 1 + p - 1, t[p])]
  BY <1>1, <1>3 DEF Increments
<1>5. \A p \in 1 .. P : N + 1 + p - 1 = N + p /\ N + p \in Nat
  OBVIOUS
<1>6. \A p \in 1 .. P : q[p] \in Packets /\ q[p].kind = "Incremental" /\ q[p].seq = N + p
                        /\ q[p].entries = t[p]
  BY <1>3, <1>4, <1>5 DEF Incremental, Packets
<1>7. q \in Seq(Packets) /\ Len(q) = P
  <2>1. q \in [1 .. P -> Packets]
    BY <1>4, <1>6
  <2> HIDE DEF q
  <2> QED
    BY <1>1, <2>1
<1> QED
  BY <1>1, <1>6, <1>7

-----------------------------------------------------------------------------
(* The steps of the publisher. *)

\* Initially nothing has been told.
LEMMA FeedInvInit ==
    ASSUME FeedInit
    PROVE  FeedInv
<1>1. FeedTyped
  <2>1. total \in [FeedLevels -> Nat]
    BY DEF FeedInit
  <2>2. batch \in [levels : SUBSET FeedLevels, trades : Nat]
    BY DEF FeedInit, NoBatch
  <2>3. feed \in [seq : Nat, since : Nat, ended : BOOLEAN]
    BY DEF FeedInit
  <2>4. net \in Seq(Packets)
    BY DEF FeedInit
  <2>5. sub \in Subscribers
    <3>1. Nothing \in Books /\ Nothing \in Numbered
      BY NothingIsBook, NothingNumbered
    <3> QED
      BY <3>1 DEF FeedInit, Subscribers
  <2> QED
    BY <2>1, <2>2, <2>3, <2>4, <2>5 DEF FeedTyped
<1> DEFINE E == [n \in 1 .. 0 |-> <<>>]
           H == [n \in 0 .. 0 |-> Nothing]
<1>2. Told(0, E, H)
  BY NothingIsBook DEF Told
<1>3. H[0] = Nothing
  OBVIOUS
<1> HIDE DEF E, H
<1>4. Len(net) = 0
  BY DEF FeedInit
<1>5. NetOk(net, 0, FALSE, E, H)
  BY <1>4 DEF NetOk, AllOk
<1>6. EngineOk(H[0])
  BY <1>3, NothingIsBook DEF EngineOk, FeedInit
<1>7. SubOk(sub, 0, FALSE, E, H)
  BY NothingIsBook DEF SubOk, PendingOk, PartsOk, SyncOk, EndOk, FeedInit
<1> QED
  BY <1>1, <1>2, <1>5, <1>6, <1>7 DEF FeedInv, FeedInit

\* A change of a level that the gateway takes note of.
LEMMA ChangeKeeps ==
    ASSUME FeedInv, \A l \in FeedLevels : l.price # 0,
           NEW l \in FeedLevels, NEW n \in 0 .. MaxTotal, NEW how, Change(l, n, how)
    PROVE  FeedInv'
<1>1. PICK E, H : /\ Told(feed.seq, E, H)
                  /\ NetOk(net, feed.seq, feed.ended, E, H)
                  /\ EngineOk(H[feed.seq])
                  /\ SubOk(sub, feed.seq, feed.ended, E, H)
  BY DEF FeedInv
<1>2. FeedTyped
  BY DEF FeedInv
<1>3. feed' = feed /\ net' = net /\ sub' = sub /\ ~feed.ended
  BY DEF Change
<1>4. Notes(l, how) = {l}
  BY DEF Notes
<1>5. total' = [total EXCEPT ![l] = n]
  BY DEF Change
<1>6. batch'.levels = batch.levels \cup {l} /\ batch' \in [levels : SUBSET FeedLevels, trades : Nat]
  BY <1>2, <1>4 DEF Change, FeedTyped
<1>7. n \in Nat
  BY FeedAssumption
<1>8. FeedTyped'
  BY <1>2, <1>3, <1>5, <1>6, <1>7 DEF FeedTyped
<1>9. EngineOk(H[feed.seq])'
  <2>1. \A m \in FeedLevels : m \notin batch'.levels => m # l /\ m \notin batch.levels
    BY <1>6
  <2>2. \A m \in FeedLevels : m # l => total'[m] = total[m]
    BY <1>2, <1>5 DEF FeedTyped
  <2> QED
    BY <1>1, <1>3, <2>1, <2>2 DEF EngineOk
<1> QED
  BY <1>1, <1>3, <1>8, <1>9 DEF FeedInv

\* What was sent stays right when the history goes on.
LEMMA HistoryGrows ==
    ASSUME NEW N \in Nat, NEW M \in Nat, N =< M, NEW E, NEW H, NEW F, NEW G,
           Agreeing(N, E, H, F, G)
    PROVE  /\ \A m : PacketOk(m, N, FALSE, E, H) => PacketOk(m, M, FALSE, F, G)
           /\ \A s : s.end \in Int /\ SubOk(s, N, FALSE, E, H) => SubOk(s, M, FALSE, F, G)
<1>1. \A n \in 0 .. N : n \in 0 .. M /\ G[n] = H[n] /\ (n # 0 => n \in 1 .. N /\ F[n] = E[n])
  BY DEF Agreeing
<1>2. \A n \in 1 .. N : n \in 1 .. M /\ F[n] = E[n]
  BY DEF Agreeing
<1>3. ASSUME NEW m, PacketOk(m, N, FALSE, E, H) PROVE PacketOk(m, M, FALSE, F, G)
  BY <1>1, <1>3 DEF PacketOk
<1>4. ASSUME NEW s, s.end \in Int, SubOk(s, N, FALSE, E, H) PROVE SubOk(s, M, FALSE, F, G)
  <2>1. PendingOk(s, M, F)
    BY <1>2, <1>4 DEF SubOk, PendingOk
  <2>2. PartsOk(s, M, G)
    BY <1>1, <1>4 DEF SubOk, PartsOk
  <2>3. SyncOk(s, M, G)
    BY <1>1, <1>4 DEF SubOk, SyncOk
  <2>4. EndOk(s, M, FALSE)
    BY <1>4 DEF SubOk, EndOk
  <2> QED
    BY <2>1, <2>2, <2>3, <2>4 DEF SubOk
<1> QED
  BY <1>3, <1>4

\* More datagrams that are right.
LEMMA NetGrows ==
    ASSUME NEW q \in Seq(Packets), NEW r \in Seq(Packets), NEW N, NEW ended, NEW E, NEW H,
           AllOk(q, N, ended, E, H), AllOk(r, N, ended, E, H)
    PROVE  /\ q \o r \in Seq(Packets)
           /\ AllOk(q \o r, N, ended, E, H)
           /\ Len(q \o r) = Len(q) + Len(r)
           /\ \A i \in 1 .. Len(q) : i \in 1 .. Len(q \o r) /\ (q \o r)[i] = q[i]
           /\ \A i \in 1 .. Len(r) : Len(q) + i \in 1 .. Len(q \o r) /\ (q \o r)[Len(q) + i] = r[i]
<1>1. PICK k \in Nat, n \in Nat : k = Len(q) /\ n = Len(r)
  BY LenProperties
<1>2. PICK t : t = q \o r
  OBVIOUS
<1>3. t \in Seq(Packets) /\ Len(t) = k + n /\ \A i \in 1 .. k + n : t[i] = IF i =< k THEN q[i] ELSE r[i - k]
  BY <1>1, <1>2, ConcatProperties
<1>4. \A i \in 1 .. k : i \in 1 .. k + n /\ t[i] = q[i]
  BY <1>3
<1>5. \A i \in 1 .. n : k + i \in 1 .. k + n /\ t[k + i] = r[i]
  <2> SUFFICES ASSUME NEW i \in 1 .. n PROVE k + i \in 1 .. k + n /\ t[k + i] = r[i]
    OBVIOUS
  <2>1. PICK j \in Nat : j = k + i
    OBVIOUS
  <2>2. j \in 1 .. k + n /\ ~(j =< k) /\ j - k = i
    BY <2>1
  <2>3. t[j] = r[i]
    BY <1>3, <2>2
  <2> QED
    BY <2>1, <2>2, <2>3
<1>6. ASSUME NEW i \in 1 .. k + n PROVE PacketOk(t[i], N, ended, E, H)
  <2>1. CASE i =< k
    <3>1. i \in 1 .. k /\ t[i] = q[i]
      BY <1>3, <2>1
    <3> QED
      BY <1>1, <3>1 DEF AllOk
  <2>2. CASE ~(i =< k)
    <3>1. i - k \in 1 .. n
      BY <2>2
    <3>2. t[i] = r[i - k]
      BY <1>3, <2>2
    <3> QED
      BY <1>1, <3>1, <3>2 DEF AllOk
  <2> QED
    BY <2>1, <2>2
<1> QED
  BY <1>1, <1>2, <1>3, <1>4, <1>5, <1>6 DEF AllOk

\* w is q and then r, and says nothing else.
Joined(w, q, r, N, ended, E, H) ==
    /\ w \in Seq(Packets)
    /\ AllOk(w, N, ended, E, H)
    /\ Len(w) = Len(q) + Len(r)
    /\ \A i \in 1 .. Len(q) : i \in 1 .. Len(w) /\ w[i] = q[i]
    /\ \A i \in 1 .. Len(r) : Len(q) + i \in 1 .. Len(w) /\ w[Len(q) + i] = r[i]

\* The same of a named sequence.
LEMMA NetJoined ==
    ASSUME NEW q \in Seq(Packets), NEW r \in Seq(Packets), NEW N, NEW ended, NEW E, NEW H,
           AllOk(q, N, ended, E, H), AllOk(r, N, ended, E, H), NEW w, w = q \o r
    PROVE  Joined(w, q, r, N, ended, E, H)
  BY NetGrows DEF Joined

\* A batch is committed.
LEMMA CommitKeeps ==
    ASSUME FeedInv, Commit
    PROVE  FeedInv'
<1>0. FeedTyped
  BY DEF FeedInv
<1>1. PICK N \in Nat : N = feed.seq
  BY <1>0 DEF FeedTyped
<1>2. PICK E, H : /\ N = feed.seq
                  /\ Told(N, E, H)
                  /\ NetOk(net, N, FALSE, E, H)
                  /\ EngineOk(H[N])
                  /\ SubOk(sub, N, FALSE, E, H)
  <2>1. feed.seq \in Nat /\ feed.ended = FALSE
    BY <1>0 DEF FeedTyped, Commit
  <2>2. PICK E, H : /\ Told(feed.seq, E, H)
                    /\ NetOk(net, feed.seq, feed.ended, E, H)
                    /\ EngineOk(H[feed.seq])
                    /\ SubOk(sub, feed.seq, feed.ended, E, H)
    BY DEF FeedInv
  <2> QED
    BY <1>1, <2>1, <2>2
<1>3. PICK e \in Seq(FeedEntries) : e = Staged
  BY <1>0, StagedFacts
<1>4. PICK P \in Nat, M \in Nat : P = NumPieces(e) /\ M = N + P
  BY PieceEnds
<1>5. PICK F, G : /\ Told(M, F, G)
                  /\ Agreeing(N, E, H, F, G)
                  /\ \A p \in 1 .. P : F[N + p] = Pieces(e)[p]
                  /\ G[M] = Apply(H[N], e)
  <2>1. \E F, G : /\ Told(N + NumPieces(e), F, G)
                  /\ Agreeing(N, E, H, F, G)
                  /\ \A p \in 1 .. NumPieces(e) : F[N + p] = Pieces(e)[p]
                  /\ G[N + NumPieces(e)] = Apply(H[N], e)
    BY <1>2, ToldMore
  <2> QED
    BY <1>4, <2>1
<1>6. H[N] \in Books
  BY <1>2 DEF Told
<1>7. G[M] = Engine
  BY <1>2, <1>0, <1>3, <1>5, <1>6, CommitTells
<1>8. PICK q : q = Increments(N + 1, e)
  OBVIOUS
<1>9. /\ q \in Seq(Packets) /\ Len(q) = P
      /\ \A p \in 1 .. P : q[p].kind = "Incremental" /\ q[p].seq = N + p /\ q[p].entries = Pieces(e)[p]
  BY <1>4, <1>8, IncrementPackets
<1>10. PICK r : r \in {<<>>, SnapshotParts(M)} /\ net' = net \o q \o r
                /\ feed'.seq = M /\ ~feed'.ended /\ feed' \in [seq : Nat, since : Nat, ended : BOOLEAN]
  <2>1. feed.seq + Len(Increments(feed.seq + 1, Staged)) = M
    BY <1>2, <1>3, <1>4, <1>8, <1>9
  <2>2. feed'.seq = M /\ ~feed'.ended /\ feed' \in [seq : Nat, since : Nat, ended : BOOLEAN]
    <3>1. feed.since \in Nat /\ Len(q) \in Nat
      BY <1>0, <1>9 DEF FeedTyped
    <3>2. feed' \in {[feed EXCEPT !.seq = M, !.since = 0],
                     [feed EXCEPT !.seq = M, !.since = feed.since + Len(q)]} /\ ~feed.ended
      BY <1>2, <1>3, <1>8, <2>1 DEF Commit
    <3>3. ASSUME NEW k \in Nat, feed' = [feed EXCEPT !.seq = M, !.since = k]
          PROVE  feed'.seq = M /\ feed'.ended = feed.ended
                 /\ feed' \in [seq : Nat, since : Nat, ended : BOOLEAN]
      BY <1>0, <3>3 DEF FeedTyped
    <3>4. 0 \in Nat /\ feed.since + Len(q) \in Nat
      BY <3>1
    <3> QED
      BY <3>2, <3>3, <3>4
  <2>3. \E r \in {<<>>, SnapshotParts(M)} : net' = net \o q \o r
    BY <1>2, <1>3, <1>8, <2>1 DEF Commit
  <2> QED
    BY <2>2, <2>3
<1>11. net \in Seq(Packets) /\ AllOk(net, M, FALSE, F, G)
  <2>1. N =< M
    BY <1>4
  <2>2. \A m : PacketOk(m, N, FALSE, E, H) => PacketOk(m, M, FALSE, F, G)
    BY <1>5, <2>1, HistoryGrows
  <2>3. AllOk(net, N, FALSE, E, H)
    BY <1>2 DEF NetOk
  <2>4. AllOk(net, M, FALSE, F, G)
    BY <2>2, <2>3 DEF AllOk
  <2> QED
    BY <1>0, <2>4 DEF FeedTyped
<1>12. AllOk(q, M, FALSE, F, G)
  <2>1. \A p \in 1 .. P : N + p \in 0 .. M /\ N + p # 0
    BY <1>4
  <2> QED
    BY <1>5, <1>9, <2>1 DEF PacketOk, AllOk
<1>13. r \in Seq(Packets) /\ AllOk(r, M, FALSE, F, G)
  <2>1. CASE r = <<>>
    BY <2>1 DEF AllOk
  <2>2. CASE r = SnapshotParts(M)
    <3>1. M \in 0 .. M
      BY <1>4
    <3> QED
      BY <1>0, <1>7, <2>2, <3>1, SnapshotPackets
  <2> QED
    BY <1>10, <2>1, <2>2
<1>14. PICK w : w = net \o q
  OBVIOUS
<1>15. /\ w \in Seq(Packets)
       /\ AllOk(w, M, FALSE, F, G)
       /\ Len(w) = Len(net) + Len(q)
       /\ \A i \in 1 .. Len(net) : i \in 1 .. Len(w) /\ w[i] = net[i]
       /\ \A i \in 1 .. Len(q) : Len(net) + i \in 1 .. Len(w) /\ w[Len(net) + i] = q[i]
  <2>1. Joined(w, net, q, M, FALSE, F, G)
    BY <1>9, <1>11, <1>12, <1>14, NetJoined
  <2> QED
    BY <2>1 DEF Joined
<1>16. /\ net' \in Seq(Packets)
       /\ AllOk(net', M, FALSE, F, G)
       /\ \A i \in 1 .. Len(w) : i \in 1 .. Len(net') /\ net'[i] = w[i]
  <2>1. net' = w \o r
    BY <1>10, <1>14
  <2>2. PICK z : z = w \o r
    OBVIOUS
  <2>3. /\ z \in Seq(Packets)
        /\ AllOk(z, M, FALSE, F, G)
        /\ \A i \in 1 .. Len(w) : i \in 1 .. Len(z) /\ z[i] = w[i]
    <3>1. Joined(z, w, r, M, FALSE, F, G)
      BY <1>13, <1>15, <2>2, NetJoined
    <3> QED
      BY <3>1 DEF Joined
  <2> QED
    BY <2>1, <2>2, <2>3
<1>17. ASSUME NEW n \in 1 .. M
       PROVE  \E i \in 1 .. Len(net') : net'[i].kind = "Incremental" /\ net'[i].seq = n
  <2>1. CASE n =< N
    <3>1. n \in 1 .. N
      BY <2>1
    <3>2. PICK i \in 1 .. Len(net) : net[i].kind = "Incremental" /\ net[i].seq = n
      BY <1>2, <3>1 DEF NetOk
    <3>3. i \in 1 .. Len(w) /\ w[i] = net[i]
      BY <1>15
    <3> QED
      BY <1>16, <3>2, <3>3
  <2>2. CASE ~(n =< N)
    <3>1. PICK p \in 1 .. P : n = N + p
      <4>1. n - N \in 1 .. P /\ n = N + (n - N)
        BY <1>4, <2>2
      <4> QED
        BY <4>1
    <3>2. Len(net) + p \in 1 .. Len(w) /\ w[Len(net) + p] = q[p]
      BY <1>9, <1>15
    <3>3. q[p].kind = "Incremental" /\ q[p].seq = n
      BY <1>9, <3>1
    <3> QED
      BY <1>16, <3>2, <3>3
  <2> QED
    BY <2>1, <2>2
<1>18. NetOk(net', M, FALSE, F, G)
  BY <1>16, <1>17 DEF NetOk
<1>19. SubOk(sub, M, FALSE, F, G)
  <2>1. sub.end \in Int /\ N =< M
    BY <1>0, <1>4 DEF FeedTyped, Subscribers
  <2> QED
    BY <1>2, <1>5, <2>1, HistoryGrows
<1>20. total' = total /\ sub' = sub /\ batch' = NoBatch
  BY DEF Commit
<1>21. EngineOk(G[M])'
  <2>1. \A l \in FeedLevels : Holds(G[M], l) = total[l]
    BY <1>0, <1>7, EngineIsBook
  <2> QED
    BY <1>20, <2>1 DEF EngineOk
<1>22. FeedTyped'
  <2>1. NoBatch \in [levels : SUBSET FeedLevels, trades : Nat]
    BY DEF NoBatch
  <2> QED
    BY <1>0, <1>10, <1>16, <1>20, <2>1 DEF FeedTyped
<1>23. feed'.seq = M /\ feed'.ended = FALSE
  BY <1>10
<1>24. /\ Told(feed'.seq, F, G)
       /\ NetOk(net', feed'.seq, feed'.ended, F, G)
       /\ SubOk(sub', feed'.seq, feed'.ended, F, G)
  BY <1>5, <1>18, <1>19, <1>20, <1>23
<1>25. EngineOk(G[feed.seq])'
  BY <1>21, <1>23 DEF EngineOk
<1> QED
  BY <1>20, <1>22, <1>24, <1>25 DEF FeedInv

\* A heartbeat.
LEMMA HeartbeatKeeps ==
    ASSUME FeedInv, HeartbeatIfIdle
    PROVE  FeedInv'
<1>1. PICK E, H : /\ Told(feed.seq, E, H)
                  /\ NetOk(net, feed.seq, feed.ended, E, H)
                  /\ EngineOk(H[feed.seq])
                  /\ SubOk(sub, feed.seq, feed.ended, E, H)
  BY DEF FeedInv
<1>2. FeedTyped
  BY DEF FeedInv
<1>3. total' = total /\ batch' = batch /\ feed' = feed /\ sub' = sub
  BY DEF HeartbeatIfIdle
<1>4. PICK r : r = <<Heartbeat(feed.seq)>>
  OBVIOUS
<1>5. feed.seq \in Nat /\ net \in Seq(Packets)
  BY <1>2 DEF FeedTyped
<1>6. Heartbeat(feed.seq) \in Packets /\ Heartbeat(feed.seq).kind = "Heartbeat" /\ Heartbeat(feed.seq).seq = feed.seq
  BY <1>5 DEF Heartbeat, Packets
<1>7. r \in Seq(Packets) /\ Len(r) = 1 /\ r[1] = Heartbeat(feed.seq)
  BY <1>4, <1>6
<1>8. PacketOk(Heartbeat(feed.seq), feed.seq, feed.ended, E, H)
  BY <1>5, <1>6 DEF PacketOk
<1>9. AllOk(r, feed.seq, feed.ended, E, H)
  BY <1>7, <1>8 DEF AllOk
<1>10. net' = net \o r
  <2>1. net' = Append(net, Heartbeat(feed.seq))
    BY DEF HeartbeatIfIdle
  <2> QED
    BY <1>4, <1>5, <1>6, <2>1, AppendIsConcat
<1>11. AllOk(net, feed.seq, feed.ended, E, H)
  BY <1>1 DEF NetOk
<1>12. PICK z : z = net \o r
  OBVIOUS
<1>13. z \in Seq(Packets) /\ AllOk(z, feed.seq, feed.ended, E, H)
       /\ \A i \in 1 .. Len(net) : i \in 1 .. Len(z) /\ z[i] = net[i]
  <2>1. Joined(z, net, r, feed.seq, feed.ended, E, H)
    BY <1>5, <1>7, <1>9, <1>11, <1>12, NetJoined
  <2> QED
    BY <2>1 DEF Joined
<1>14. NetOk(z, feed.seq, feed.ended, E, H)
  BY <1>1, <1>13 DEF NetOk
<1>15. FeedTyped'
  BY <1>2, <1>3, <1>10, <1>12, <1>13 DEF FeedTyped
<1>16. EngineOk(H[feed.seq])'
  BY <1>1, <1>3 DEF EngineOk
<1>17. NetOk(net', feed'.seq, feed'.ended, E, H)
  BY <1>3, <1>10, <1>12, <1>14
<1>18. Told(feed'.seq, E, H) /\ SubOk(sub', feed'.seq, feed'.ended, E, H)
  BY <1>1, <1>3
<1>19. feed'.ended => batch' = NoBatch
  BY <1>3 DEF FeedInv
<1> QED
  BY <1>15, <1>16, <1>17, <1>18, <1>19 DEF FeedInv

\* The feed ends.
LEMMA EndFeedKeeps ==
    ASSUME FeedInv, EndFeed
    PROVE  FeedInv'
<1>0. FeedTyped /\ batch = NoBatch
  BY DEF FeedInv, EndFeed
<1>1. PICK N \in Nat : N = feed.seq
  BY <1>0 DEF FeedTyped
<1>2. PICK E, H : /\ N = feed.seq
                  /\ Told(N, E, H)
                  /\ NetOk(net, N, FALSE, E, H)
                  /\ EngineOk(H[N])
                  /\ SubOk(sub, N, FALSE, E, H)
  <2>1. feed.seq \in Nat /\ feed.ended = FALSE
    BY <1>0 DEF FeedTyped, EndFeed
  <2>2. PICK E, H : /\ Told(feed.seq, E, H)
                    /\ NetOk(net, feed.seq, feed.ended, E, H)
                    /\ EngineOk(H[feed.seq])
                    /\ SubOk(sub, feed.seq, feed.ended, E, H)
    BY DEF FeedInv
  <2> QED
    BY <1>1, <2>1, <2>2
<1>3. total' = total /\ batch' = NoBatch /\ sub' = sub
  BY <1>0 DEF EndFeed
<1>4. feed'.seq = N /\ feed'.ended = TRUE /\ feed' \in [seq : Nat, since : Nat, ended : BOOLEAN]
  <2>1. feed' = [feed EXCEPT !.since = 0, !.ended = TRUE]
    BY DEF EndFeed
  <2> QED
    BY <1>2, <1>0, <2>1 DEF FeedTyped
<1>5. H[N] = Engine
  <2>1. H[N] \in Books
    BY <1>2 DEF Told
  <2> QED
    BY <1>2, <1>0, <2>1, IdleTells
<1>6. net \in Seq(Packets) /\ AllOk(net, N, TRUE, E, H)
  <2>1. \A m : PacketOk(m, N, FALSE, E, H) => PacketOk(m, N, TRUE, E, H)
    BY DEF PacketOk
  <2> QED
    BY <1>2, <1>0, <2>1 DEF FeedTyped, NetOk, AllOk
<1>7. PICK q : q = SnapshotParts(N)
  OBVIOUS
<1>8. q \in Seq(Packets) /\ AllOk(q, N, TRUE, E, H)
  <2>1. N \in 0 .. N
    OBVIOUS
  <2> QED
    BY <1>0, <1>5, <1>7, <2>1, SnapshotPackets
<1>9. PICK r : r = <<End(N)>>
  OBVIOUS
<1>10. r \in Seq(Packets) /\ AllOk(r, N, TRUE, E, H)
  <2>1. End(N) \in Packets /\ End(N).kind = "End" /\ End(N).seq = N
    BY DEF End, Packets
  <2>2. r \in Seq(Packets) /\ Len(r) = 1 /\ r[1] = End(N)
    BY <1>9, <2>1
  <2>3. PacketOk(End(N), N, TRUE, E, H)
    BY <2>1 DEF PacketOk
  <2>4. \A i \in 1 .. Len(r) : r[i] = End(N)
    BY <2>2
  <2> QED
    BY <2>2, <2>3, <2>4 DEF AllOk
<1>11. PICK w, z : w = net \o q /\ z = w \o r
  OBVIOUS
<1>12. w \in Seq(Packets) /\ AllOk(w, N, TRUE, E, H)
       /\ \A i \in 1 .. Len(net) : i \in 1 .. Len(w) /\ w[i] = net[i]
  <2>1. Joined(w, net, q, N, TRUE, E, H)
    BY <1>6, <1>8, <1>11, NetJoined
  <2> QED
    BY <2>1 DEF Joined
<1>13. z \in Seq(Packets) /\ AllOk(z, N, TRUE, E, H)
       /\ \A i \in 1 .. Len(w) : i \in 1 .. Len(z) /\ z[i] = w[i]
  <2>1. Joined(z, w, r, N, TRUE, E, H)
    BY <1>10, <1>11, <1>12, NetJoined
  <2> QED
    BY <2>1 DEF Joined
<1>14. NetOk(z, N, TRUE, E, H)
  <2>1. \A i \in 1 .. Len(net) : i \in 1 .. Len(z) /\ z[i] = net[i]
    BY <1>12, <1>13
  <2> QED
    BY <1>2, <1>13, <2>1 DEF NetOk
<1>15. net' = z
  BY <1>2, <1>7, <1>9, <1>11 DEF EndFeed
<1>16. SubOk(sub, N, TRUE, E, H)
  <2>1. EndOk(sub, N, FALSE) => EndOk(sub, N, TRUE)
    BY DEF EndOk
  <2> QED
    BY <1>2, <2>1 DEF SubOk
<1>17. FeedTyped'
  <2>1. NoBatch \in [levels : SUBSET FeedLevels, trades : Nat]
    BY DEF NoBatch
  <2> QED
    BY <1>0, <1>3, <1>4, <1>13, <1>15, <2>1 DEF FeedTyped
<1>18. EngineOk(H[feed.seq])'
  BY <1>2, <1>0, <1>3, <1>4 DEF EngineOk
<1>19. /\ Told(feed'.seq, E, H)
       /\ NetOk(net', feed'.seq, feed'.ended, E, H)
       /\ SubOk(sub', feed'.seq, feed'.ended, E, H)
  BY <1>2, <1>3, <1>4, <1>14, <1>15, <1>16
<1> QED
  BY <1>3, <1>17, <1>18, <1>19 DEF FeedInv

-----------------------------------------------------------------------------
(* The steps of the subscriber. *)

\* A step of the subscriber that leaves it right keeps the invariant.
LEMMA HearKeeps ==
    ASSUME FeedInv, UNCHANGED <<total, batch, feed, net>>, sub' \in Subscribers,
           \A E, H : /\ Told(feed.seq, E, H)
                     /\ NetOk(net, feed.seq, feed.ended, E, H)
                     /\ SubOk(sub, feed.seq, feed.ended, E, H)
                     => SubOk(sub', feed.seq, feed.ended, E, H)
    PROVE  FeedInv'
<1>1. PICK E, H : /\ Told(feed.seq, E, H)
                  /\ NetOk(net, feed.seq, feed.ended, E, H)
                  /\ EngineOk(H[feed.seq])
                  /\ SubOk(sub, feed.seq, feed.ended, E, H)
  BY DEF FeedInv
<1>2. SubOk(sub', feed.seq, feed.ended, E, H)
  BY <1>1
<1>3. total' = total /\ batch' = batch /\ feed' = feed /\ net' = net
  OBVIOUS
<1>4. FeedTyped' /\ (feed'.ended => batch' = NoBatch)
  BY <1>3 DEF FeedInv, FeedTyped
<1>5. EngineOk(H[feed.seq])'
  BY <1>1, <1>3 DEF EngineOk
<1>6. /\ Told(feed'.seq, E, H)
      /\ NetOk(net', feed'.seq, feed'.ended, E, H)
      /\ SubOk(sub', feed'.seq, feed'.ended, E, H)
  BY <1>1, <1>2, <1>3
<1> QED
  BY <1>4, <1>5, <1>6 DEF FeedInv

\* A record of the subscriber with its fields set.
LEMMA SettledFields ==
    ASSUME NEW s \in Subscribers
    PROVE  /\ Settle(s) \in Subscribers
           /\ Settle(s).synced = s.synced /\ Settle(s).seq = s.seq /\ Settle(s).book = s.book
           /\ Settle(s).pending = s.pending /\ Settle(s).snapId = s.snapId
           /\ Settle(s).parts = s.parts /\ Settle(s).end = s.end
           /\ Settle(s).ended = (s.end >= 0 /\ s.synced /\ s.seq >= s.end)
<1>1. (s.end >= 0 /\ s.synced /\ s.seq >= s.end) \in BOOLEAN
  OBVIOUS
<1> QED
  BY <1>1 DEF Settle, Subscribers

\* The parts of the book at number m.seq, all of them.
WholeSnapshot(m, parts, N, H) ==
    /\ m.seq \in 0 .. N
    /\ m.parts = Len(PartsOf(H[m.seq]))
    /\ DOMAIN parts = 1 .. m.parts
    /\ \A p \in 1 .. m.parts : parts[p] = PartsOf(H[m.seq])[p]

\* r is s with the book after some packet, and packets that were sent pending.
CaughtUp(r, s, N, E, H) ==
    \E n \in 0 .. N, pending \in Numbered :
       /\ r = [s EXCEPT !.synced = TRUE, !.seq = n, !.book = H[n], !.pending = pending]
       /\ \A k \in DOMAIN pending : k \in 1 .. N /\ pending[k] = E[k]

\* The book that a complete snapshot and the packets kept behind it give.
LEMMA RebuiltFacts ==
    ASSUME NEW N \in Nat, NEW E, NEW H, Told(N, E, H), NEW s \in Subscribers, PendingOk(s, N, E),
           NEW m, NEW parts \in Numbered, WholeSnapshot(m, parts, N, H)
    PROVE  CaughtUp(Rebuilt(s, m, parts), s, N, E, H)
<1>0. /\ m.seq \in 0 .. N
      /\ m.parts = Len(PartsOf(H[m.seq]))
      /\ DOMAIN parts = 1 .. m.parts
      /\ \A p \in 1 .. m.parts : parts[p] = PartsOf(H[m.seq])[p]
  BY DEF WholeSnapshot
<1>1. PICK a \in 0 .. N : a = m.seq
  BY <1>0
<1>2. H[a] \in Books
  BY DEF Told
<1>3. parts = PartsOf(H[a])
  <2>1. PICK t : t = PartsOf(H[a])
    OBVIOUS
  <2>2. t \in Seq(Seq(FeedEntries))
    BY <1>2, <2>1, PartsFacts
  <2>3. DOMAIN t = 1 .. m.parts /\ t \in [1 .. m.parts -> Seq(FeedEntries)]
    BY <1>0, <1>1, <2>1, <2>2, LenProperties
  <2>4. parts \in [1 .. m.parts -> Seq(FeedEntries)]
    BY <1>0, NumberedIff
  <2>5. \A p \in 1 .. m.parts : parts[p] = t[p]
    BY <1>0, <1>1, <2>1
  <2>6. PICK D : D = 1 .. m.parts
    OBVIOUS
  <2>7. t \in [D -> Seq(FeedEntries)] /\ parts \in [D -> Seq(FeedEntries)] /\ \A p \in D : parts[p] = t[p]
    BY <2>3, <2>4, <2>5, <2>6
  <2>8. t = [p \in D |-> t[p]] /\ parts = [p \in D |-> parts[p]]
    BY <2>7
  <2>9. parts = t
    BY <2>7, <2>8
  <2> QED
    BY <2>1, <2>9
<1>4. ApplyAll(Nothing, 0, m.parts, parts) = H[a]
  <2>1. m.parts = Len(PartsOf(H[a]))
    BY <1>0, <1>1
  <2>2. ApplyAll(Nothing, 0, Len(PartsOf(H[a])), PartsOf(H[a])) = H[a]
    BY <1>2, PartsFacts
  <2> QED
    BY <1>3, <2>1, <2>2
<1>5. s.pending \in Numbered
  BY DEF Subscribers
<1>6. PICK newer \in Numbered : newer = Without(s.pending, 0 .. a)
  BY <1>5, WithoutFacts
<1>7. DOMAIN newer = DOMAIN s.pending \ 0 .. a /\ \A k \in DOMAIN newer : newer[k] = s.pending[k]
  <2>0. PICK S : S = 0 .. a
    OBVIOUS
  <2>1. PICK f \in Numbered : f = s.pending /\ S = 0 .. a
    BY <1>5, <2>0
  <2>2. DOMAIN Without(f, S) = DOMAIN f \ S /\ \A j \in DOMAIN f \ S : Without(f, S)[j] = f[j]
    BY WithoutFacts
  <2> QED
    BY <1>6, <2>1, <2>2
<1>8. \A k \in DOMAIN newer : k \in 1 .. N /\ newer[k] = E[k] /\ k > a
  <2> SUFFICES ASSUME NEW k \in DOMAIN newer PROVE k \in 1 .. N /\ newer[k] = E[k] /\ k > a
    OBVIOUS
  <2>1. k \in DOMAIN s.pending /\ k \notin 0 .. a
    BY <1>7
  <2>2. k \in 1 .. N /\ newer[k] = E[k]
    BY <1>7, <2>1 DEF PendingOk
  <2> QED
    BY <2>1, <2>2
<1> DEFINE Ends(n) == n + 1 \notin DOMAIN newer /\ a + 1 .. n \subseteq DOMAIN newer
           last == CHOOSE n \in {a} \cup DOMAIN newer : Ends(n)
<1>9. \E n \in {a} \cup DOMAIN newer : Ends(n)
  <2> DEFINE T == {n \in a .. N : n + 1 \notin DOMAIN newer}
  <2>1. N \in T
    <3>1. N + 1 \notin DOMAIN newer
      BY <1>8
    <3> QED
      BY <3>1
  <2>2. T \subseteq Nat /\ T # {}
    <3>1. a .. N \subseteq Nat
      OBVIOUS
    <3> QED
      BY <2>1, <3>1
  <2>3. PICK x \in T : \A y \in T : x =< y
    <3> HIDE DEF T
    <3> QED
      BY <2>2, NatMin
  <2>4. x \in a .. N /\ x + 1 \notin DOMAIN newer
    OBVIOUS
  <2>5. ASSUME NEW k \in a + 1 .. x PROVE k \in DOMAIN newer
    <3>1. k - 1 \in a .. N /\ (k - 1) + 1 = k /\ ~(x =< k - 1)
      BY <2>4
    <3>2. k - 1 \notin T
      BY <2>3, <3>1
    <3> QED
      BY <3>1, <3>2
  <2>6. x \in {a} \cup DOMAIN newer
    <3>1. x = a \/ x \in a + 1 .. x
      BY <2>4
    <3> QED
      BY <2>5, <3>1
  <2> QED
    BY <2>4, <2>5, <2>6
<1>10. last \in {a} \cup DOMAIN newer /\ Ends(last)
  <2> HIDE DEF Ends
  <2> QED
    BY <1>9
<1>11. PICK n \in a .. N : n = last
  <2>1. last \in a .. N
    <3> HIDE DEF last
    <3> QED
      BY <1>8, <1>10
  <2> QED
    BY <2>1
<1>12. \A k \in a + 1 .. n : k \in DOMAIN newer
  BY <1>10, <1>11
<1>13. CourseAll(H, H[a], a, n, newer)
  <2>1. \A k \in a + 1 .. n : k \in 1 .. N
    OBVIOUS
  <2>2. \A k \in a + 1 .. n : H[k] = Apply(H[k - 1], newer[k])
    BY <1>8, <1>12, <2>1 DEF Told
  <2> QED
    BY <2>2 DEF CourseAll
<1>14. ApplyAll(H[a], a, n, newer) = H[n]
  <2>1. a \in Nat /\ n \in Nat /\ a =< n
    OBVIOUS
  <2> QED
    BY <1>13, <2>1, ApplyAllIs
<1>15. PICK pending \in Numbered : pending = Without(newer, a + 1 .. n)
  BY WithoutFacts
<1>16. \A k \in DOMAIN pending : k \in DOMAIN newer /\ pending[k] = newer[k]
  <2>1. PICK S : S = a + 1 .. n
    OBVIOUS
  <2>2. DOMAIN Without(newer, S) = DOMAIN newer \ S
        /\ \A j \in DOMAIN newer \ S : Without(newer, S)[j] = newer[j]
    BY WithoutFacts
  <2> QED
    BY <1>15, <2>1, <2>2
<1>17. Rebuilt(s, m, parts) =
          [s EXCEPT !.synced = TRUE, !.seq = last,
                    !.book = ApplyAll(ApplyAll(Nothing, 0, m.parts, parts), a, last, newer),
                    !.pending = Without(newer, a + 1 .. last)]
  BY <1>1, <1>6 DEF Rebuilt
<1> HIDE DEF last
<1>18. Rebuilt(s, m, parts) =
          [s EXCEPT !.synced = TRUE, !.seq = n, !.book = H[n], !.pending = pending]
  BY <1>4, <1>11, <1>14, <1>15, <1>17
<1>19. n \in 0 .. N
  OBVIOUS
<1>20. \A k \in DOMAIN pending : k \in 1 .. N /\ pending[k] = E[k]
  BY <1>8, <1>16
<1> QED
  BY <1>18, <1>19, <1>20 DEF CaughtUp

\* A datagram of the network is right.
LEMMA HeardPacket ==
    ASSUME FeedInv, NEW i \in DOMAIN net
    PROVE  /\ net[i] \in Packets
           /\ \A E, H : NetOk(net, feed.seq, feed.ended, E, H)
                        => PacketOk(net[i], feed.seq, feed.ended, E, H)
<1>1. net \in Seq(Packets)
  BY DEF FeedInv, FeedTyped
<1>2. i \in 1 .. Len(net)
  BY <1>1, LenProperties
<1> QED
  BY <1>1, <1>2, ElementOfSeq DEF NetOk, AllOk

\* An increment is heard.
LEMMA HearIncrementalKeeps ==
    ASSUME FeedInv, NEW i \in DOMAIN net, HearIncremental(i)
    PROVE  FeedInv'
<1>1. UNCHANGED <<total, batch, feed, net>>
  BY DEF HearIncremental, Arrives
<1>2. sub \in Subscribers /\ feed.seq \in Nat
  BY DEF FeedInv, FeedTyped
<1>3. PICK m \in Packets : m = net[i]
  BY HeardPacket
<1>4. m.kind = "Incremental"
  BY <1>3 DEF HearIncremental
<1>5. m.seq \in Nat /\ m.entries \in Seq(FeedEntries)
  BY <1>4 DEF Packets
<1>6. sub' \in Subscribers /\
      \A E, H : /\ Told(feed.seq, E, H)
                /\ NetOk(net, feed.seq, feed.ended, E, H)
                /\ SubOk(sub, feed.seq, feed.ended, E, H)
                => SubOk(sub', feed.seq, feed.ended, E, H)
  <2>1. CASE sub' = sub
    BY <1>2, <2>1
  <2>2. CASE /\ sub.synced /\ m.seq = sub.seq + 1
             /\ sub' = [sub EXCEPT !.book = Apply(@, m.entries), !.seq = m.seq]
    <3>1. Apply(sub.book, m.entries) \in Books
      BY <1>2, <1>5, ApplyFacts DEF Subscribers
    <3>2. sub' \in Subscribers /\ sub'.book = Apply(sub.book, m.entries) /\ sub'.seq = m.seq
          /\ sub'.synced = sub.synced /\ sub'.pending = sub.pending /\ sub'.snapId = sub.snapId
          /\ sub'.parts = sub.parts /\ sub'.end = sub.end /\ sub'.ended = sub.ended
      BY <1>2, <1>5, <2>2, <3>1 DEF Subscribers
    <3>3. ASSUME NEW E, NEW H, Told(feed.seq, E, H), NetOk(net, feed.seq, feed.ended, E, H),
                 SubOk(sub, feed.seq, feed.ended, E, H)
          PROVE  SubOk(sub', feed.seq, feed.ended, E, H)
      <4>1. m.seq \in 0 .. feed.seq /\ m.seq # 0 /\ m.entries = E[m.seq]
        BY <1>3, <1>4, <3>3, HeardPacket DEF PacketOk
      <4>2. sub.book = H[sub.seq] /\ sub.pending = Nothing /\ sub.seq \in 0 .. feed.seq
        BY <2>2, <3>3 DEF SubOk, SyncOk
      <4>3. H[m.seq] = Apply(H[m.seq - 1], E[m.seq]) /\ m.seq - 1 = sub.seq
        BY <1>2, <1>5, <2>2, <3>3, <4>1, <4>2 DEF Told
      <4>4. SyncOk(sub', feed.seq, H)
        BY <3>2, <4>1, <4>2, <4>3 DEF SyncOk
      <4>5. PendingOk(sub', feed.seq, E) /\ PartsOk(sub', feed.seq, H)
        BY <3>2, <3>3 DEF SubOk, PendingOk, PartsOk
      <4>6. EndOk(sub', feed.seq, feed.ended)
        <5>1. sub.end \in Int /\ sub.seq \in Nat /\ sub'.seq = sub.seq + 1
          BY <1>2, <2>2, <3>2 DEF Subscribers
        <5> QED
          BY <3>2, <3>3, <5>1 DEF SubOk, EndOk
      <4> QED
        BY <4>4, <4>5, <4>6 DEF SubOk
    <3> QED
      BY <3>2, <3>3
  <2>3. CASE /\ ~sub.synced \/ m.seq > sub.seq + 1
             /\ sub' = [Unsynced(sub) EXCEPT !.pending = With(@, m.seq, m.entries)]
    <3>1. PICK w \in Numbered : w = With(sub.pending, m.seq, m.entries)
      BY <1>2, <1>5, WithFacts DEF Subscribers
    <3>2. DOMAIN w = DOMAIN sub.pending \cup {m.seq}
          /\ \A j \in DOMAIN w : w[j] = IF j = m.seq THEN m.entries ELSE sub.pending[j]
      <4>1. PICK f \in Numbered, k \in Nat, e \in Seq(FeedEntries) :
               f = sub.pending /\ k = m.seq /\ e = m.entries
        BY <1>2, <1>5 DEF Subscribers
      <4>2. w = [j \in DOMAIN f \cup {k} |-> IF j = k THEN e ELSE f[j]]
        BY <3>1, <4>1 DEF With
      <4>3. DOMAIN w = DOMAIN f \cup {k} /\ \A j \in DOMAIN f \cup {k} : w[j] = IF j = k THEN e ELSE f[j]
        BY <4>2
      <4> QED
        BY <4>1, <4>3
    <3>3. sub' \in Subscribers /\ sub'.book = Nothing /\ sub'.seq = sub.seq
          /\ sub'.synced = FALSE /\ sub'.pending = w /\ sub'.snapId = sub.snapId
          /\ sub'.parts = sub.parts /\ sub'.end = sub.end /\ sub'.ended = sub.ended
      BY <1>2, <2>3, <3>1, NothingIsBook DEF Subscribers, Unsynced
    <3>4. ASSUME NEW E, NEW H, Told(feed.seq, E, H), NetOk(net, feed.seq, feed.ended, E, H),
                 SubOk(sub, feed.seq, feed.ended, E, H)
          PROVE  SubOk(sub', feed.seq, feed.ended, E, H)
      <4>1. m.seq \in 0 .. feed.seq /\ m.seq # 0 /\ m.entries = E[m.seq]
        BY <1>3, <1>4, <3>4, HeardPacket DEF PacketOk
      <4>2. m.seq \in 1 .. feed.seq
        BY <1>2, <4>1
      <4>3. PendingOk(sub', feed.seq, E)
        BY <3>2, <3>3, <3>4, <4>1, <4>2 DEF SubOk, PendingOk
      <4>4. PartsOk(sub', feed.seq, H) /\ SyncOk(sub', feed.seq, H)
        BY <3>3, <3>4 DEF SubOk, PartsOk, SyncOk
      <4>5. ~sub.ended
        <5>1. sub.ended => sub.synced /\ sub.end = feed.seq /\ sub.seq >= sub.end
          BY <3>4 DEF SubOk, EndOk
        <5>2. sub.seq \in Nat
          BY <1>2 DEF Subscribers
        <5> QED
          BY <1>2, <1>5, <2>3, <4>1, <5>1, <5>2
      <4>6. EndOk(sub', feed.seq, feed.ended)
        BY <3>3, <3>4, <4>5 DEF SubOk, EndOk
      <4> QED
        BY <4>3, <4>4, <4>6 DEF SubOk
    <3> QED
      BY <3>3, <3>4
  <2> QED
    BY <1>3, <2>1, <2>2, <2>3 DEF HearIncremental
<1> QED
  BY <1>1, <1>6, HearKeeps

\* A heartbeat or the end of the feed is heard.
LEMMA HearControlKeeps ==
    ASSUME FeedInv, NEW i \in DOMAIN net, HearControl(i)
    PROVE  FeedInv'
<1>1. UNCHANGED <<total, batch, feed, net>>
  BY DEF HearControl, Arrives
<1>2. sub \in Subscribers /\ feed.seq \in Nat
  BY DEF FeedInv, FeedTyped
<1>3. PICK m \in Packets : m = net[i]
  BY HeardPacket
<1>4. m.seq \in Nat
  BY DEF Packets
<1>5. PICK s : s \in {sub, Unsynced(sub)} /\
               sub' = Settle(IF m.kind = "End" THEN [s EXCEPT !.end = m.seq] ELSE s)
  BY <1>3 DEF HearControl
<1>6. s \in Subscribers /\ s.pending = sub.pending /\ s.parts = sub.parts /\ s.snapId = sub.snapId
      /\ s.seq = sub.seq /\ s.end = sub.end /\ (s.synced => s = sub)
  <2>1. CASE s = sub
    BY <1>2, <2>1
  <2>2. CASE s = Unsynced(sub)
    BY <1>2, <2>2, NothingIsBook DEF Unsynced, Subscribers
  <2> QED
    BY <1>5, <2>1, <2>2
<1>7. PICK u : u = IF m.kind = "End" THEN [s EXCEPT !.end = m.seq] ELSE s
  OBVIOUS
<1>8. u \in Subscribers /\ u.pending = s.pending /\ u.parts = s.parts /\ u.snapId = s.snapId
      /\ u.seq = s.seq /\ u.book = s.book /\ u.synced = s.synced
      /\ u.end = IF m.kind = "End" THEN m.seq ELSE s.end
  BY <1>4, <1>6, <1>7 DEF Subscribers
<1>9. sub' = Settle(u)
  BY <1>5, <1>7
<1>10. sub' \in Subscribers
  BY <1>8, <1>9, SettledFields
<1>11. ASSUME NEW E, NEW H, Told(feed.seq, E, H), NetOk(net, feed.seq, feed.ended, E, H),
              SubOk(sub, feed.seq, feed.ended, E, H)
       PROVE  SubOk(sub', feed.seq, feed.ended, E, H)
  <2>1. m.kind = "End" => feed.ended /\ m.seq = feed.seq
    BY <1>3, <1>11, HeardPacket DEF PacketOk
  <2>2. /\ sub'.synced = u.synced /\ sub'.seq = u.seq /\ sub'.book = u.book /\ sub'.pending = u.pending
        /\ sub'.snapId = u.snapId /\ sub'.parts = u.parts /\ sub'.end = u.end
        /\ sub'.ended = (u.end >= 0 /\ u.synced /\ u.seq >= u.end)
    BY <1>8, <1>9, SettledFields
  <2>3. PendingOk(sub', feed.seq, E) /\ PartsOk(sub', feed.seq, H)
    BY <1>6, <1>8, <1>11, <2>2 DEF SubOk, PendingOk, PartsOk
  <2>4. SyncOk(sub', feed.seq, H)
    BY <1>6, <1>8, <1>11, <2>2 DEF SubOk, SyncOk
  <2>5. EndOk(sub', feed.seq, feed.ended)
    BY <1>6, <1>8, <1>11, <2>1, <2>2 DEF SubOk, EndOk
  <2> QED
    BY <2>3, <2>4, <2>5 DEF SubOk
<1> QED
  BY <1>1, <1>10, <1>11, HearKeeps

\* Parts of the snapshot that m is a part of, and how they are gathered.
FromSnapshot(parts, m, H) ==
    \A p \in DOMAIN parts : p \in 1 .. m.parts /\ parts[p] = PartsOf(H[m.seq])[p]

Gathered(parts, kept, s, m) ==
    /\ kept = Nothing \/ (kept = s.parts /\ m.seq = s.snapId)
    /\ parts = kept \/ parts = With(kept, m.part, m.entries)

\* The parts that are there once a part of a snapshot was heard are parts of the
\* snapshot at its number.
LEMMA PartsHeard ==
    ASSUME NEW N \in Nat, NEW ended, NEW E, NEW H, NEW s \in Subscribers, PartsOk(s, N, H),
           NEW m \in Packets, m.kind = "Snapshot", PacketOk(m, N, ended, E, H),
           NEW kept \in Numbered, NEW parts \in Numbered, Gathered(parts, kept, s, m)
    PROVE  FromSnapshot(parts, m, H)
<1>0. /\ kept = Nothing \/ (kept = s.parts /\ m.seq = s.snapId)
      /\ parts = kept \/ parts = With(kept, m.part, m.entries)
  BY DEF Gathered
<1>1. m.seq \in 0 .. N /\ m.parts = Len(PartsOf(H[m.seq])) /\ m.part \in 1 .. m.parts
      /\ m.entries = PartsOf(H[m.seq])[m.part]
  BY DEF PacketOk
<1>2. \A p \in DOMAIN kept : p \in 1 .. m.parts /\ kept[p] = PartsOf(H[m.seq])[p]
  <2>1. CASE kept = Nothing
    BY <2>1, NothingIsBook
  <2>2. CASE kept = s.parts /\ m.seq = s.snapId
    BY <1>1, <2>2 DEF PartsOk
  <2> QED
    BY <1>0, <2>1, <2>2
<1>3. CASE parts = kept
  BY <1>2, <1>3 DEF FromSnapshot
<1>4. CASE parts = With(kept, m.part, m.entries)
  <2>1. PICK k \in Nat, e \in Seq(FeedEntries) : k = m.part /\ e = m.entries
    BY DEF Packets
  <2>2. parts = [j \in DOMAIN kept \cup {k} |-> IF j = k THEN e ELSE kept[j]]
    BY <1>4, <2>1 DEF With
  <2>3. DOMAIN parts = DOMAIN kept \cup {k}
    BY <2>2
  <2>4. DOMAIN parts = DOMAIN kept \cup {k} /\ \A j \in DOMAIN parts : parts[j] = IF j = k THEN e ELSE kept[j]
    BY <2>2, <2>3
  <2> QED
    BY <1>1, <1>2, <2>1, <2>4 DEF FromSnapshot
<1> QED
  BY <1>0, <1>3, <1>4

\* A part of a snapshot is heard.
LEMMA HearSnapshotKeeps ==
    ASSUME FeedInv, NEW i \in DOMAIN net, HearSnapshot(i)
    PROVE  FeedInv'
<1>1. UNCHANGED <<total, batch, feed, net>>
  BY DEF HearSnapshot, Arrives
<1>2. sub \in Subscribers /\ feed.seq \in Nat
  BY DEF FeedInv, FeedTyped
<1>3. PICK m \in Packets : m = net[i]
  BY HeardPacket
<1>4. m.kind = "Snapshot"
  BY <1>3 DEF HearSnapshot
<1>5. m.seq \in Nat /\ m.part \in Nat /\ m.entries \in Seq(FeedEntries)
  BY <1>4 DEF Packets
<1>6. PICK kept \in Numbered : kept = Kept(m)
  BY <1>2, NothingNumbered DEF Kept, Subscribers
<1>7. kept = Nothing \/ (kept = sub.parts /\ m.seq = sub.snapId)
  BY <1>6 DEF Kept
<1>8. PICK parts \in Numbered :
         parts = IF m.part \notin DOMAIN kept THEN With(kept, m.part, m.entries) ELSE kept
  BY <1>5, WithFacts
<1>9. PICK s : s = [sub EXCEPT !.snapId = m.seq, !.parts = parts]
  OBVIOUS
<1>10. s \in Subscribers /\ s.snapId = m.seq /\ s.parts = parts /\ s.synced = sub.synced /\ s.seq = sub.seq
       /\ s.book = sub.book /\ s.pending = sub.pending /\ s.end = sub.end
  <2>1. PICK a \in Int, old \in Subscribers : a = m.seq /\ old = sub
    BY <1>2, <1>5
  <2>2. s = [old EXCEPT !.snapId = a, !.parts = parts]
    BY <1>9, <2>1
  <2>3. s \in Subscribers
    BY <2>2 DEF Subscribers
  <2>4. s.snapId = a /\ s.parts = parts /\ s.synced = old.synced /\ s.seq = old.seq
        /\ s.book = old.book /\ s.pending = old.pending /\ s.end = old.end
    BY <2>2 DEF Subscribers
  <2> QED
    BY <2>1, <2>3, <2>4
<1>11. \/ sub' = sub
       \/ sub' = Settle(s) /\ ~sub.synced
       \/ DOMAIN parts = 1 .. m.parts /\ sub' = Settle(CheckHole(Rebuilt(s, m, parts)))
  BY <1>3, <1>6, <1>8, <1>9 DEF HearSnapshot
<1>12. ASSUME NEW E, NEW H, Told(feed.seq, E, H), NetOk(net, feed.seq, feed.ended, E, H),
              SubOk(sub, feed.seq, feed.ended, E, H)
       PROVE  sub' \in Subscribers /\ SubOk(sub', feed.seq, feed.ended, E, H)
  <2>1. PacketOk(m, feed.seq, feed.ended, E, H)
    BY <1>3, <1>12, HeardPacket
  <2>2. m.seq \in 0 .. feed.seq /\ m.parts = Len(PartsOf(H[m.seq]))
    BY <1>4, <2>1 DEF PacketOk
  <2>3. \A p \in DOMAIN parts : p \in 1 .. m.parts /\ parts[p] = PartsOf(H[m.seq])[p]
    <3>1. PartsOk(sub, feed.seq, H)
      BY <1>12 DEF SubOk
    <3>2. parts = kept \/ parts = With(kept, m.part, m.entries)
      BY <1>8
    <3>3. PICK N \in Nat, old \in Subscribers : N = feed.seq /\ old = sub
      BY <1>2
    <3>4. PICK ended : ended = feed.ended
      OBVIOUS
    <3>5. PartsOk(old, N, H) /\ PacketOk(m, N, ended, E, H)
      BY <2>1, <3>1, <3>3, <3>4
    <3>6. Gathered(parts, kept, old, m)
      BY <1>7, <3>2, <3>3 DEF Gathered
    <3>7. FromSnapshot(parts, m, H)
      BY <1>4, <3>5, <3>6, PartsHeard
    <3> QED
      BY <3>7 DEF FromSnapshot
  <2>4. PendingOk(s, feed.seq, E) /\ PartsOk(s, feed.seq, H)
    BY <1>10, <1>12, <2>2, <2>3 DEF SubOk, PendingOk, PartsOk
  <2>5. s.seq \in 0 .. feed.seq /\ (s.end >= 0 => feed.ended /\ s.end = feed.seq)
    BY <1>10, <1>12 DEF SubOk, SyncOk, EndOk
  <2>6. ASSUME NEW u \in Subscribers, sub' = Settle(u),
               PendingOk(u, feed.seq, E), PartsOk(u, feed.seq, H), SyncOk(u, feed.seq, H), u.end = s.end
        PROVE  sub' \in Subscribers /\ SubOk(sub', feed.seq, feed.ended, E, H)
    <3>1. sub' \in Subscribers
      BY <2>6, SettledFields
    <3>2. /\ sub'.synced = u.synced /\ sub'.seq = u.seq /\ sub'.book = u.book /\ sub'.pending = u.pending
          /\ sub'.snapId = u.snapId /\ sub'.parts = u.parts /\ sub'.end = u.end
          /\ sub'.ended = (u.end >= 0 /\ u.synced /\ u.seq >= u.end)
      BY <2>6, SettledFields
    <3>3. PendingOk(sub', feed.seq, E) /\ PartsOk(sub', feed.seq, H) /\ SyncOk(sub', feed.seq, H)
      BY <2>6, <3>2 DEF PendingOk, PartsOk, SyncOk
    <3>4. EndOk(sub', feed.seq, feed.ended)
      BY <2>5, <2>6, <3>2 DEF EndOk
    <3> QED
      BY <3>1, <3>3, <3>4 DEF SubOk
  <2>7. CASE sub' = sub
    BY <1>2, <1>12, <2>7
  <2>8. CASE sub' = Settle(s) /\ ~sub.synced
    <3>1. SyncOk(s, feed.seq, H)
      BY <1>10, <2>5, <2>8 DEF SyncOk
    <3> QED
      BY <1>10, <2>4, <2>6, <2>8, <3>1
  <2>9. CASE DOMAIN parts = 1 .. m.parts /\ sub' = Settle(CheckHole(Rebuilt(s, m, parts)))
    <3>1. PICK n \in 0 .. feed.seq, pending \in Numbered :
             /\ Rebuilt(s, m, parts) =
                   [s EXCEPT !.synced = TRUE, !.seq = n, !.book = H[n], !.pending = pending]
             /\ \A k \in DOMAIN pending : k \in 1 .. feed.seq /\ pending[k] = E[k]
      <4>1. \A p \in 1 .. m.parts : parts[p] = PartsOf(H[m.seq])[p]
        BY <2>3, <2>9
      <4>2. PendingOk(s, feed.seq, E)
        BY <2>4
      <4>3. PICK N \in Nat, ss \in Subscribers : N = feed.seq /\ ss = s
        BY <1>2, <1>10
      <4>4. WholeSnapshot(m, parts, N, H)
        BY <2>2, <2>9, <4>1, <4>3 DEF WholeSnapshot
      <4>5. Told(N, E, H) /\ PendingOk(ss, N, E)
        BY <1>12, <4>2, <4>3
      <4>6. CaughtUp(Rebuilt(ss, m, parts), ss, N, E, H)
        BY <4>4, <4>5, RebuiltFacts
      <4>7. CaughtUp(Rebuilt(s, m, parts), s, feed.seq, E, H)
        BY <4>3, <4>6
      <4> QED
        BY <4>7 DEF CaughtUp
    <3>2. PICK u : u = [s EXCEPT !.synced = TRUE, !.seq = n, !.book = H[n], !.pending = pending]
      OBVIOUS
    <3>3. H[n] \in Books /\ n \in Nat
      BY <1>2, <1>12 DEF Told
    <3>4. u \in Subscribers /\ u.synced /\ u.seq = n /\ u.book = H[n] /\ u.pending = pending
          /\ u.snapId = s.snapId /\ u.parts = s.parts /\ u.end = s.end
      BY <1>10, <3>2, <3>3 DEF Subscribers
    <3>5. PendingOk(u, feed.seq, E) /\ PartsOk(u, feed.seq, H)
      BY <2>4, <3>1, <3>4 DEF PendingOk, PartsOk
    <3>6. CASE pending = Nothing
      <4>1. CheckHole(Rebuilt(s, m, parts)) = u
        BY <3>1, <3>2, <3>4, <3>6 DEF CheckHole
      <4>2. SyncOk(u, feed.seq, H)
        BY <3>4, <3>6 DEF SyncOk
      <4> QED
        BY <2>6, <2>9, <3>4, <3>5, <4>1, <4>2
    <3>7. CASE pending # Nothing
      <4>1. CheckHole(Rebuilt(s, m, parts)) = Unsynced(u)
        BY <3>1, <3>2, <3>4, <3>7 DEF CheckHole
      <4>2. PICK v : v = Unsynced(u)
        OBVIOUS
      <4>3. v \in Subscribers /\ v.synced = FALSE /\ v.seq = n /\ v.pending = pending
            /\ v.snapId = u.snapId /\ v.parts = u.parts /\ v.end = u.end
        BY <3>4, <4>2, NothingIsBook DEF Unsynced, Subscribers
      <4>4. PendingOk(v, feed.seq, E) /\ PartsOk(v, feed.seq, H) /\ SyncOk(v, feed.seq, H)
        BY <3>4, <3>5, <4>3 DEF PendingOk, PartsOk, SyncOk
      <4> QED
        BY <2>6, <2>9, <3>4, <4>1, <4>2, <4>3, <4>4
    <3> QED
      BY <3>6, <3>7
  <2> QED
    BY <1>11, <2>7, <2>8, <2>9
<1>13. sub' \in Subscribers
  BY <1>12 DEF FeedInv
<1>14. \A E, H : /\ Told(feed.seq, E, H)
                 /\ NetOk(net, feed.seq, feed.ended, E, H)
                 /\ SubOk(sub, feed.seq, feed.ended, E, H)
                 => SubOk(sub', feed.seq, feed.ended, E, H)
  BY <1>12
<1> QED
  BY <1>1, <1>13, <1>14, HearKeeps

\* Every step keeps the invariant, if no level has the price that the gateway
\* takes for a market order's.
LEMMA FeedInvNext ==
    ASSUME FeedInv, \A l \in FeedLevels : l.price # 0, [FeedNext]_feedVars
    PROVE  FeedInv'
<1>1. CASE UNCHANGED feedVars
  <2>1. total' = total /\ batch' = batch /\ feed' = feed /\ net' = net /\ sub' = sub
    BY <1>1 DEF feedVars
  <2>2. UNCHANGED <<total, batch, feed, net>> /\ sub' \in Subscribers
    BY <2>1 DEF FeedInv, FeedTyped
  <2> QED
    BY <2>1, <2>2, HearKeeps
<1>2. ASSUME NEW l \in FeedLevels, NEW n \in 0 .. MaxTotal, NEW how \in {"report", "trade", "leave"},
             Change(l, n, how)
      PROVE  FeedInv'
  BY <1>2, ChangeKeeps
<1>3. CASE Commit
  BY <1>3, CommitKeeps
<1>4. CASE HeartbeatIfIdle
  BY <1>4, HeartbeatKeeps
<1>5. CASE EndFeed
  BY <1>5, EndFeedKeeps
<1>6. ASSUME NEW i \in DOMAIN net, Hear(i) PROVE FeedInv'
  BY <1>6, HearIncrementalKeeps, HearControlKeeps, HearSnapshotKeeps DEF Hear
<1> QED
  BY <1>1, <1>2, <1>3, <1>4, <1>5, <1>6 DEF FeedNext

\* A subscriber in sync is right, and one that has ended has the engine's levels.
LEMMA FeedInvImplies ==
    ASSUME FeedInv
    PROVE  SyncedBookIsRight /\ EndDigestsAgree
<1>1. PICK E, H : /\ Told(feed.seq, E, H)
                  /\ NetOk(net, feed.seq, feed.ended, E, H)
                  /\ EngineOk(H[feed.seq])
                  /\ SubOk(sub, feed.seq, feed.ended, E, H)
  BY DEF FeedInv
<1>2. FeedTyped /\ feed.seq \in Nat /\ net \in Seq(Packets) /\ sub.seq \in 0 .. feed.seq
  BY <1>1 DEF FeedInv, FeedTyped, SubOk, SyncOk
<1>3. DOMAIN net = 1 .. Len(net)
  BY <1>2, LenProperties
<1>4. \A n \in 1 .. feed.seq : Sent(n).entries = E[n]
  <2> SUFFICES ASSUME NEW n \in 1 .. feed.seq PROVE Sent(n).entries = E[n]
    OBVIOUS
  <2> DEFINE Is(i) == net[i].kind = "Incremental" /\ net[i].seq = n
  <2>1. \E i \in DOMAIN net : Is(i)
    BY <1>1, <1>3 DEF NetOk
  <2>2. PICK j : j = CHOOSE i \in DOMAIN net : Is(i)
    OBVIOUS
  <2>3. j \in DOMAIN net /\ Is(j)
    <3> HIDE DEF Is
    <3> QED
      BY <2>1, <2>2
  <2>4. PacketOk(net[j], feed.seq, feed.ended, E, H)
    BY <1>1, <1>3, <2>3 DEF NetOk, AllOk
  <2>5. Sent(n) = net[j]
    BY <2>2 DEF Sent
  <2> QED
    BY <2>3, <2>4, <2>5 DEF PacketOk
<1>5. ASSUME NEW n \in 0 .. feed.seq PROVE Followed(n) = H[n]
  <2>0. PICK packets : packets = [k \in 1 .. n |-> Sent(k).entries]
    OBVIOUS
  <2>1. PICK z \in Nat : z = 0 /\ packets = [k \in 1 .. n |-> Sent(k).entries]
    BY <2>0
  <2>2. n \in Nat /\ z =< n
    BY <1>2, <2>1
  <2>3. \A k \in z + 1 .. n : k \in 1 .. n /\ k \in 1 .. feed.seq
    BY <1>2, <2>1
  <2>4. \A k \in z + 1 .. n : packets[k] = E[k]
    BY <1>4, <2>1, <2>3
  <2>5. CourseAll(H, Nothing, z, n, packets)
    BY <1>1, <2>1, <2>3, <2>4 DEF CourseAll, Told
  <2>6. ApplyAll(Nothing, z, n, packets) = H[n]
    BY <2>2, <2>5, ApplyAllIs
  <2> QED
    BY <2>1, <2>6 DEF Followed
<1>6. SyncedBookIsRight
  BY <1>1, <1>2, <1>5 DEF SyncedBookIsRight, SubOk, SyncOk
<1>7. EndDigestsAgree
  <2> SUFFICES ASSUME sub.ended PROVE sub.book = Engine
    BY DEF EndDigestsAgree
  <2>1. sub.synced /\ feed.ended /\ sub.seq >= feed.seq /\ sub.book = H[sub.seq]
    BY <1>1 DEF SubOk, SyncOk, EndOk
  <2>2. sub.seq = feed.seq
    BY <1>2, <2>1
  <2>3. H[feed.seq] \in Books
    BY <1>1, <1>2 DEF Told
  <2>4. batch = NoBatch
    BY <2>1 DEF FeedInv
  <2>5. H[feed.seq] = Engine
    BY <1>1, <1>2, <2>3, <2>4, IdleTells
  <2> QED
    BY <2>1, <2>2, <2>5
<1> QED
  BY <1>6, <1>7

\* mdfeed.hpp:10-11 and 244-270, for any band of levels above price 0, size of
\* packets, interval of snapshots and number of batches, over a network that
\* loses, doubles and reorders: a subscriber in sync has the book of one that
\* missed nothing.
THEOREM RecoveryIsExact ==
    ASSUME \A l \in FeedLevels : l.price # 0
    PROVE  FeedSpec => []SyncedBookIsRight
<1>1. FeedInit => FeedInv
  BY FeedInvInit
<1>2. FeedInv /\ [FeedNext]_feedVars => FeedInv'
  BY FeedInvNext
<1>3. FeedInv => SyncedBookIsRight
  BY FeedInvImplies
<1> QED
  BY <1>1, <1>2, <1>3, PTL DEF FeedSpec

\* exsim_mdlisten.cpp:3, under the same condition: a subscriber that reports the
\* end of the feed has the levels of the engine.
THEOREM EndIsExact ==
    ASSUME \A l \in FeedLevels : l.price # 0
    PROVE  FeedSpec => []EndDigestsAgree
<1>1. FeedInit => FeedInv
  BY FeedInvInit
<1>2. FeedInv /\ [FeedNext]_feedVars => FeedInv'
  BY FeedInvNext
<1>3. FeedInv => EndDigestsAgree
  BY FeedInvImplies
<1> QED
  BY <1>1, <1>2, <1>3, PTL DEF FeedSpec
=============================================================================
