-------------------------- MODULE OrderBookProofs --------------------------
(***************************************************************************)
(* Proofs about OrderBook, for every set of ids and owners, every price    *)
(* band, capacity and self-trade mode: its linked structures stand for     *)
(* queues of slots, share the slots out between the levels and the free    *)
(* list, pass the structural audit of check_invariants, and implement the  *)
(* reference book.                                                         *)
(***************************************************************************)
EXTENDS OrderBook, ArithmeticLemmas, SequenceTheorems, FiniteSetTheorems, TLAPS

-----------------------------------------------------------------------------
(* The lists a book holds: one of slots for every level, in queue order,   *)
(* and the free list, which has the place before the first level.          *)

FreePlace == -1
Places == FreePlace .. Top
SlotOrNil == 0 .. Capacity

\* What follows position k of a list, and what precedes it.
After(q, k) == IF k < Len(q) THEN q[k + 1] ELSE Nil
Before(q, k) == IF k > 1 THEN q[k - 1] ELSE Nil

\* at and pos say where in the lists Q each slot is.
Located(Q, at, pos) ==
    /\ at \in [Slots -> Places]
    /\ pos \in [Slots -> Nat]
    /\ \A s \in Slots : pos[s] \in 1 .. Len(Q[at[s]]) /\ Q[at[s]][pos[s]] = s
    /\ \A i \in Places : \A k \in 1 .. Len(Q[i]) : at[Q[i][k]] = i /\ pos[Q[i][k]] = k

\* Every slot is in exactly one list, once.
Spread(Q) == Q \in [Places -> Seq(Slots)] /\ \E at, pos : Located(Q, at, pos)

\* A list without its k-th slot, and one with a slot put in front.
CutAt(q, k) == [m \in 1 .. Len(q) - 1 |-> IF m < k THEN q[m] ELSE q[m + 1]]
Push(s, q) == [m \in 1 .. Len(q) + 1 |-> IF m = 1 THEN s ELSE q[m - 1]]

\* The lists once the k-th slot of level i has been released.
Freed(Q, i, k) ==
    [j \in Places |-> IF j = i THEN CutAt(Q[i], k)
                      ELSE IF j = FreePlace THEN Push(Q[i][k], Q[FreePlace]) ELSE Q[j]]

\* The lists once the first free slot has been appended to level i.
Rested(Q, i) ==
    [j \in Places |-> IF j = i THEN Append(Q[i], Q[FreePlace][1])
                      ELSE IF j = FreePlace THEN CutAt(Q[FreePlace], 1) ELSE Q[j]]

\* The parameters of a book.
LEMMA Parameters ==
    /\ Top \in Nat /\ Capacity \in Nat /\ Capacity # 0
    /\ Ix = 0 .. Top /\ Slots = 0 .. Capacity - 1 /\ Nil = Capacity
    /\ Places = -1 .. Top /\ Ix \subseteq Places /\ FreePlace \in Places
    /\ FreePlace \notin Ix /\ \A i \in Places : i \in Ix \/ i = FreePlace
    /\ Slots \subseteq SlotOrNil /\ Nil \in SlotOrNil /\ Nil \notin Slots
    /\ \A s \in SlotOrNil : s = Nil \/ s \in Slots
BY BookAssumption DEF BookAssumption, Top, Ix, Slots, Nil, Places, FreePlace, SlotOrNil

\* The levels are numbers from 0 to the top.
LEMMA IxFacts ==
    /\ Top \in Nat
    /\ \A i \in Ix : i \in Int /\ 0 =< i /\ i =< Top
    /\ \A i \in Int : 0 =< i /\ i =< Top => i \in Ix
BY Parameters

\* CutAt takes out one slot and closes the gap.
LEMMA CutAtFacts ==
    ASSUME NEW S, NEW q \in Seq(S), NEW k \in 1 .. Len(q)
    PROVE  /\ CutAt(q, k) \in Seq(S)
           /\ Len(CutAt(q, k)) = Len(q) - 1
           /\ \A m \in 1 .. Len(q) - 1 : CutAt(q, k)[m] = IF m < k THEN q[m] ELSE q[m + 1]
BY DEF CutAt

\* Push makes room for one in front.
LEMMA PushFacts ==
    ASSUME NEW S, NEW q \in Seq(S), NEW s \in S
    PROVE  /\ Push(s, q) \in Seq(S)
           /\ Len(Push(s, q)) = Len(q) + 1
           /\ Push(s, q)[1] = s
           /\ \A m \in 2 .. Len(q) + 1 : Push(s, q)[m] = q[m - 1]
BY DEF Push

\* Releasing a slot moves it from its level to the free list.
LEMMA FreedSpread ==
    ASSUME NEW Q, Spread(Q), NEW i \in Ix, NEW k \in 1 .. Len(Q[i])
    PROVE  Spread(Freed(Q, i, k))
<1> DEFINE R == Freed(Q, i, k)
<1>0. PICK s : s = Q[i][k]
  OBVIOUS
<1>1. PICK at, pos : Located(Q, at, pos)
  BY DEF Spread
<1>2. Q \in [Places -> Seq(Slots)] /\ i \in Places /\ i # FreePlace /\ FreePlace \in Places
  BY Parameters DEF Spread
<1>3. Q[i] \in Seq(Slots) /\ Q[FreePlace] \in Seq(Slots) /\ s \in Slots
      /\ Len(Q[i]) \in Nat /\ Len(Q[FreePlace]) \in Nat
  BY <1>0, <1>2
<1>4. /\ R[i] = CutAt(Q[i], k) /\ R[FreePlace] = Push(s, Q[FreePlace])
      /\ \A j \in Places : j # i /\ j # FreePlace => R[j] = Q[j]
      /\ R = [j \in Places |-> R[j]]
  BY <1>0, <1>2 DEF Freed
<1>5. /\ R[i] \in Seq(Slots) /\ Len(R[i]) = Len(Q[i]) - 1
      /\ \A m \in 1 .. Len(Q[i]) - 1 : R[i][m] = IF m < k THEN Q[i][m] ELSE Q[i][m + 1]
  BY <1>3, <1>4, CutAtFacts, SMTT(30)
<1>6. /\ R[FreePlace] \in Seq(Slots) /\ Len(R[FreePlace]) = Len(Q[FreePlace]) + 1
      /\ R[FreePlace][1] = s
      /\ \A m \in 2 .. Len(Q[FreePlace]) + 1 : R[FreePlace][m] = Q[FreePlace][m - 1]
  <2>1. PICK f : f = Q[FreePlace]
    OBVIOUS
  <2>2. f \in Seq(Slots)
    BY <1>3, <2>1
  <2>3. /\ Push(s, f) \in Seq(Slots) /\ Len(Push(s, f)) = Len(f) + 1 /\ Push(s, f)[1] = s
        /\ \A m \in 2 .. Len(f) + 1 : Push(s, f)[m] = f[m - 1]
    BY <1>3, <2>2, PushFacts
  <2> QED
    BY <1>4, <2>1, <2>3
<1> HIDE DEF R
<1>7. R \in [Places -> Seq(Slots)]
  <2>1. \A j \in Places : R[j] \in Seq(Slots)
    BY <1>2, <1>4, <1>5, <1>6
  <2> QED
    BY <1>4, <2>1
<1> DEFINE at2 == [t \in Slots |-> IF t = s THEN FreePlace ELSE at[t]]
           pos2 == [t \in Slots |-> IF t = s THEN 1
                                    ELSE IF at[t] = FreePlace THEN pos[t] + 1
                                    ELSE IF at[t] = i /\ pos[t] > k THEN pos[t] - 1 ELSE pos[t]]
<1>8. /\ at \in [Slots -> Places] /\ pos \in [Slots -> Nat]
      /\ \A t \in Slots : pos[t] \in 1 .. Len(Q[at[t]]) /\ Q[at[t]][pos[t]] = t
      /\ \A j \in Places : \A m \in 1 .. Len(Q[j]) : at[Q[j][m]] = j /\ pos[Q[j][m]] = m
  BY <1>1 DEF Located
<1>9. at2 \in [Slots -> Places] /\ pos2 \in [Slots -> Nat]
  <2>1. \A t \in Slots : pos[t] \in Nat /\ pos[t] # 0
    BY <1>8
  <2>2. \A t \in Slots : (IF t = s THEN 1 ELSE IF at[t] = FreePlace THEN pos[t] + 1
          ELSE IF at[t] = i /\ pos[t] > k THEN pos[t] - 1 ELSE pos[t]) \in Nat
    BY <2>1
  <2> QED
    BY <1>2, <1>8, <2>2, ZenonT(30)
<1>9a. \A t \in Slots :
         /\ t = s => at2[t] = FreePlace /\ pos2[t] = 1
         /\ t # s => at2[t] = at[t]
         /\ t # s /\ at[t] = FreePlace => pos2[t] = pos[t] + 1
         /\ t # s /\ at[t] = i /\ pos[t] > k => pos2[t] = pos[t] - 1
         /\ t # s /\ at[t] = i /\ ~(pos[t] > k) => pos2[t] = pos[t]
         /\ t # s /\ at[t] # i /\ at[t] # FreePlace => pos2[t] = pos[t]
  BY <1>2
<1> HIDE DEF at2, pos2
<1>10. \A t \in Slots : pos2[t] \in 1 .. Len(R[at2[t]]) /\ R[at2[t]][pos2[t]] = t
  <2> TAKE t \in Slots
  <2>1. CASE t = s
    BY <1>3, <1>6, <1>9a, <2>1
  <2>2. CASE t # s /\ at[t] = FreePlace
    <3>1. pos[t] \in 1 .. Len(Q[FreePlace]) /\ Q[FreePlace][pos[t]] = t
      BY <1>8, <2>2
    <3>2. at2[t] = FreePlace /\ pos2[t] = pos[t] + 1
      BY <1>9a, <2>2
    <3>3. pos[t] + 1 \in 2 .. Len(Q[FreePlace]) + 1 /\ (pos[t] + 1) - 1 = pos[t]
      BY <1>3, <3>1
    <3>4. R[FreePlace][pos[t] + 1] = Q[FreePlace][(pos[t] + 1) - 1]
      BY <1>6, <3>3
    <3>5. pos[t] + 1 \in 1 .. Len(R[FreePlace])
      BY <1>3, <1>6, <3>1
    <3> QED
      BY <3>1, <3>2, <3>3, <3>4, <3>5
  <2>3. CASE t # s /\ at[t] = i
    <3>1. pos[t] \in 1 .. Len(Q[i]) /\ Q[i][pos[t]] = t /\ pos[t] # k
      BY <1>0, <1>8, <2>3
    <3>2. CASE pos[t] > k
      <4>1. at2[t] = i /\ pos2[t] = pos[t] - 1
        BY <1>9a, <2>3, <3>2
      <4>2. pos[t] - 1 \in 1 .. Len(Q[i]) - 1 /\ ~(pos[t] - 1 < k) /\ (pos[t] - 1) + 1 = pos[t]
        BY <1>3, <3>1, <3>2
      <4> QED
        BY <1>5, <3>1, <4>1, <4>2
    <3>3. CASE ~(pos[t] > k)
      <4>1. at2[t] = i /\ pos2[t] = pos[t]
        BY <1>9a, <2>3, <3>3
      <4>2. pos[t] \in 1 .. Len(Q[i]) - 1 /\ pos[t] < k
        BY <1>3, <3>1, <3>3
      <4> QED
        BY <1>5, <3>1, <4>1, <4>2
    <3> QED
      BY <3>2, <3>3
  <2>4. CASE t # s /\ at[t] # i /\ at[t] # FreePlace
    BY <1>4, <1>8, <1>9a, <2>4
  <2> QED
    BY <2>1, <2>2, <2>3, <2>4
<1>11. \A j \in Places : \A m \in 1 .. Len(R[j]) : at2[R[j][m]] = j /\ pos2[R[j][m]] = m
  <2> TAKE j \in Places
  <2> TAKE m \in 1 .. Len(R[j])
  <2>0. at[s] = i /\ pos[s] = k
    BY <1>0, <1>2, <1>8
  <2>1. CASE j = i
    <3> DEFINE n == IF m < k THEN m ELSE m + 1
    <3>1. m \in 1 .. Len(Q[i]) - 1 /\ n \in 1 .. Len(Q[i]) /\ n # k
      BY <1>3, <1>5, <2>1
    <3>2. R[j][m] = Q[i][n]
      BY <1>5, <2>1, <3>1
    <3>3. Q[i][n] \in Slots /\ at[Q[i][n]] = i /\ pos[Q[i][n]] = n
      <4> HIDE DEF n
      <4>1. Q[i][n] \in Slots
        BY <1>3, <3>1
      <4> QED
        BY <1>2, <1>8, <3>1, <4>1
    <3>4. Q[i][n] # s
      BY <2>0, <3>1, <3>3
    <3>5. PICK t : t = Q[i][n]
      OBVIOUS
    <3>6. at2[t] = i /\ pos2[t] = IF n > k THEN n - 1 ELSE n
      <4> HIDE DEF n
      <4> QED
        BY <1>2, <1>9a, <3>3, <3>4, <3>5
    <3>7. (IF n > k THEN n - 1 ELSE n) = m
      BY <1>3, <3>1
    <3> QED
      BY <2>1, <3>2, <3>5, <3>6, <3>7
  <2>2. CASE j = FreePlace /\ m = 1
    BY <1>3, <1>6, <1>9a, <2>2
  <2>3. CASE j = FreePlace /\ m # 1
    <3>1. m - 1 \in 1 .. Len(Q[FreePlace]) /\ R[j][m] = Q[FreePlace][m - 1]
      BY <1>3, <1>6, <2>3
    <3>2. /\ Q[FreePlace][m - 1] \in Slots /\ at[Q[FreePlace][m - 1]] = FreePlace
          /\ pos[Q[FreePlace][m - 1]] = m - 1
      <4>1. PICK n : n = m - 1
        OBVIOUS
      <4>2. n \in 1 .. Len(Q[FreePlace])
        BY <3>1, <4>1
      <4>3. Q[FreePlace][n] \in Slots
        BY <1>3, <4>2
      <4>4. at[Q[FreePlace][n]] = FreePlace /\ pos[Q[FreePlace][n]] = n
        BY <1>2, <1>8, <4>2
      <4> QED
        BY <4>1, <4>3, <4>4
    <3> QED
      BY <1>2, <1>9a, <2>0, <2>3, <3>1, <3>2
  <2>4. CASE j # i /\ j # FreePlace
    <3>1. R[j] = Q[j] /\ Q[j] \in Seq(Slots)
      BY <1>2, <1>4, <2>4
    <3>2. Q[j][m] \in Slots /\ at[Q[j][m]] = j /\ pos[Q[j][m]] = m
      BY <1>8, <3>1
    <3> QED
      BY <1>9a, <2>0, <2>4, <3>1, <3>2
  <2> QED
    BY <2>1, <2>2, <2>3, <2>4
<1>12. Located(R, at2, pos2)
  BY <1>9, <1>10, <1>11 DEF Located
<1> QED
    BY <1>7, <1>12 DEF Spread, R

\* Resting an order moves the first free slot to the back of its level.
LEMMA RestedSpread ==
    ASSUME NEW Q, Spread(Q), NEW i \in Ix, Q[FreePlace] # <<>>
    PROVE  Spread(Rested(Q, i))
<1> DEFINE R == Rested(Q, i)
<1>0. PICK s : s = Q[FreePlace][1]
  OBVIOUS
<1>1. PICK at, pos : Located(Q, at, pos)
  BY DEF Spread
<1>2. Q \in [Places -> Seq(Slots)] /\ i \in Places /\ i # FreePlace /\ FreePlace \in Places
  BY Parameters DEF Spread
<1>3. Q[i] \in Seq(Slots) /\ Q[FreePlace] \in Seq(Slots) /\ s \in Slots
      /\ Len(Q[i]) \in Nat /\ Len(Q[FreePlace]) \in Nat /\ 1 \in 1 .. Len(Q[FreePlace])
  BY <1>0, <1>2
<1>4. /\ R[i] = Append(Q[i], s) /\ R[FreePlace] = CutAt(Q[FreePlace], 1)
      /\ \A j \in Places : j # i /\ j # FreePlace => R[j] = Q[j]
      /\ R = [j \in Places |-> R[j]]
  BY <1>0, <1>2 DEF Rested
<1>5. /\ R[i] \in Seq(Slots) /\ Len(R[i]) = Len(Q[i]) + 1
      /\ R[i][Len(Q[i]) + 1] = s
      /\ \A m \in 1 .. Len(Q[i]) : R[i][m] = Q[i][m]
  BY <1>3, <1>4
<1>6. /\ R[FreePlace] \in Seq(Slots) /\ Len(R[FreePlace]) = Len(Q[FreePlace]) - 1
      /\ \A m \in 1 .. Len(Q[FreePlace]) - 1 : R[FreePlace][m] = Q[FreePlace][m + 1]
  <2>1. PICK f : f = Q[FreePlace]
    OBVIOUS
  <2>2. f \in Seq(Slots) /\ 1 \in 1 .. Len(f)
    BY <1>3, <2>1
  <2>3. /\ CutAt(f, 1) \in Seq(Slots) /\ Len(CutAt(f, 1)) = Len(f) - 1
        /\ \A m \in 1 .. Len(f) - 1 : CutAt(f, 1)[m] = IF m < 1 THEN f[m] ELSE f[m + 1]
    BY <2>2, CutAtFacts
  <2>4. \A m \in 1 .. Len(f) - 1 : CutAt(f, 1)[m] = f[m + 1]
    BY <2>2, <2>3
  <2> QED
    BY <1>4, <2>1, <2>3, <2>4
<1> HIDE DEF R
<1>7. R \in [Places -> Seq(Slots)]
  <2>1. \A j \in Places : R[j] \in Seq(Slots)
    BY <1>2, <1>4, <1>5, <1>6
  <2> QED
    BY <1>4, <2>1
<1> DEFINE at2 == [t \in Slots |-> IF t = s THEN i ELSE at[t]]
           pos2 == [t \in Slots |-> IF t = s THEN Len(Q[i]) + 1
                                    ELSE IF at[t] = FreePlace THEN pos[t] - 1 ELSE pos[t]]
<1>8. /\ at \in [Slots -> Places] /\ pos \in [Slots -> Nat]
      /\ \A t \in Slots : pos[t] \in 1 .. Len(Q[at[t]]) /\ Q[at[t]][pos[t]] = t
      /\ \A j \in Places : \A m \in 1 .. Len(Q[j]) : at[Q[j][m]] = j /\ pos[Q[j][m]] = m
  BY <1>1 DEF Located
<1>9. at2 \in [Slots -> Places] /\ pos2 \in [Slots -> Nat]
  <2>1. \A t \in Slots : pos[t] \in Nat /\ pos[t] # 0
    BY <1>8
  <2>2. \A t \in Slots : (IF t = s THEN Len(Q[i]) + 1
          ELSE IF at[t] = FreePlace THEN pos[t] - 1 ELSE pos[t]) \in Nat
    BY <1>3, <2>1
  <2> QED
    BY <1>2, <1>8, <2>2
<1>10. \A t \in Slots :
         /\ t = s => at2[t] = i /\ pos2[t] = Len(Q[i]) + 1
         /\ t # s => at2[t] = at[t]
         /\ t # s /\ at[t] = FreePlace => pos2[t] = pos[t] - 1
         /\ t # s /\ at[t] # FreePlace => pos2[t] = pos[t]
  BY <1>2
<1> HIDE DEF at2, pos2
<1>11. at[s] = FreePlace /\ pos[s] = 1
  BY <1>0, <1>2, <1>3, <1>8
<1>12. \A t \in Slots : pos2[t] \in 1 .. Len(R[at2[t]]) /\ R[at2[t]][pos2[t]] = t
  <2> TAKE t \in Slots
  <2>1. CASE t = s
    BY <1>3, <1>5, <1>10, <2>1
  <2>2. CASE t # s /\ at[t] = FreePlace
    <3>1. pos[t] \in 1 .. Len(Q[FreePlace]) /\ Q[FreePlace][pos[t]] = t /\ pos[t] # 1
      BY <1>0, <1>8, <2>2
    <3>2. at2[t] = FreePlace /\ pos2[t] = pos[t] - 1
      BY <1>10, <2>2
    <3>3. pos[t] - 1 \in 1 .. Len(Q[FreePlace]) - 1 /\ (pos[t] - 1) + 1 = pos[t]
      BY <1>3, <3>1
    <3>4. R[FreePlace][pos[t] - 1] = Q[FreePlace][(pos[t] - 1) + 1]
      BY <1>6, <3>3
    <3> QED
      BY <1>6, <3>1, <3>2, <3>3, <3>4
  <2>3. CASE t # s /\ at[t] = i
    <3>1. pos[t] \in 1 .. Len(Q[i]) /\ Q[i][pos[t]] = t
      BY <1>8, <2>3
    <3>2. at2[t] = i /\ pos2[t] = pos[t]
      BY <1>2, <1>10, <2>3
    <3>3. pos[t] \in 1 .. Len(R[i])
      BY <1>3, <1>5, <3>1
    <3> QED
      BY <1>5, <3>1, <3>2, <3>3
  <2>4. CASE t # s /\ at[t] # i /\ at[t] # FreePlace
    BY <1>4, <1>8, <1>10, <2>4
  <2> QED
    BY <2>1, <2>2, <2>3, <2>4
<1>13. \A j \in Places : \A m \in 1 .. Len(R[j]) : at2[R[j][m]] = j /\ pos2[R[j][m]] = m
  <2> TAKE j \in Places
  <2> TAKE m \in 1 .. Len(R[j])
  <2>1. CASE j = i /\ m = Len(Q[i]) + 1
    BY <1>3, <1>5, <1>10, <2>1
  <2>2. CASE j = i /\ m # Len(Q[i]) + 1
    <3>1. m \in 1 .. Len(Q[i])
      BY <1>3, <1>5, <2>2
    <3>2. Q[i][m] \in Slots /\ R[j][m] = Q[i][m]
      BY <1>3, <1>5, <2>2, <3>1
    <3>3. at[Q[i][m]] = i /\ pos[Q[i][m]] = m
      BY <1>2, <1>8, <3>1
    <3> QED
      BY <1>2, <1>10, <1>11, <2>2, <3>2, <3>3
  <2>3. CASE j = FreePlace
    <3>1. PICK n : n = m + 1
      OBVIOUS
    <3>2. n \in 1 .. Len(Q[FreePlace]) /\ n # 1 /\ m \in 1 .. Len(Q[FreePlace]) - 1 /\ n - 1 = m
      BY <1>3, <1>6, <2>3, <3>1
    <3>3. Q[FreePlace][n] \in Slots /\ R[j][m] = Q[FreePlace][n]
      BY <1>3, <1>6, <2>3, <3>1, <3>2
    <3>4. at[Q[FreePlace][n]] = FreePlace /\ pos[Q[FreePlace][n]] = n
      BY <1>2, <1>8, <3>2
    <3> QED
      BY <1>10, <1>11, <2>3, <3>2, <3>3, <3>4
  <2>4. CASE j # i /\ j # FreePlace
    <3>1. R[j] = Q[j] /\ Q[j] \in Seq(Slots)
      BY <1>2, <1>4, <2>4
    <3>2. Q[j][m] \in Slots /\ at[Q[j][m]] = j /\ pos[Q[j][m]] = m
      BY <1>8, <3>1
    <3> QED
      BY <1>10, <1>11, <2>4, <3>1, <3>2
  <2> QED
    BY <2>1, <2>2, <2>3, <2>4
<1>14. Located(R, at2, pos2)
  BY <1>9, <1>12, <1>13 DEF Located
<1> QED
    BY <1>7, <1>14 DEF Spread, R

\* Two positions that hold the same slot are the same position.
LEMMA SpreadDistinct ==
    ASSUME NEW Q, Spread(Q), NEW i \in Places, NEW k \in 1 .. Len(Q[i]),
           NEW j \in Places, NEW m \in 1 .. Len(Q[j]), Q[i][k] = Q[j][m]
    PROVE  i = j /\ k = m
<1>1. PICK at, pos : Located(Q, at, pos)
  BY DEF Spread
<1>2. at[Q[i][k]] = i /\ pos[Q[i][k]] = k /\ at[Q[j][m]] = j /\ pos[Q[j][m]] = m
  BY <1>1, Zenon DEF Located
<1> QED
  BY <1>2

\* Every slot has a place, and every place holds slots.
LEMMA SpreadCovers ==
    ASSUME NEW Q, Spread(Q)
    PROVE  /\ \A s \in Slots : \E i \in Places : \E k \in 1 .. Len(Q[i]) : Q[i][k] = s
           /\ \A i \in Places : Q[i] \in Seq(Slots) /\ Len(Q[i]) \in Nat
           /\ \A i \in Places : \A k \in 1 .. Len(Q[i]) : Q[i][k] \in Slots
<1>1. Q \in [Places -> Seq(Slots)]
  BY DEF Spread
<1>2. PICK at, pos : Located(Q, at, pos)
  BY DEF Spread
<1>3. \A s \in Slots : at[s] \in Places /\ pos[s] \in 1 .. Len(Q[at[s]]) /\ Q[at[s]][pos[s]] = s
  BY <1>2 DEF Located
<1>4. \A i \in Places : Q[i] \in Seq(Slots)
  BY <1>1
<1> QED
  BY <1>3, <1>4

-----------------------------------------------------------------------------
(* Following the links. *)

\* A list of different slots.
Distinct(q) == \A k, m \in 1 .. Len(q) : q[k] = q[m] => k = m

\* The next links of the store lead from one slot of q to the following one.
Follows(st, q) == \A k \in 1 .. Len(q) : st[q[k]].next = After(q, k)

\* The prev links lead back.
Returns(st, q) == \A k \in 2 .. Len(q) : st[q[k]].prev = q[k - 1]

\* There are no more different slots than the capacity.
LEMMA DistinctFits ==
    ASSUME NEW q \in Seq(Slots), Distinct(q)
    PROVE  Len(q) =< Capacity
<1>1. Len(q) \in Nat /\ Capacity \in Nat /\ Capacity # 0
  BY Parameters
<1>2. IsFiniteSet(1 .. Len(q)) /\ Cardinality(1 .. Len(q)) = Len(q)
  <2>1. /\ IsFiniteSet(1 .. Len(q))
        /\ Cardinality(1 .. Len(q)) = IF 1 > Len(q) THEN 0 ELSE Len(q) - 1 + 1
    BY <1>1, FS_Interval
  <2> QED
    BY <1>1, <2>1
<1>3. IsFiniteSet(Slots) /\ Cardinality(Slots) = Capacity
  <2>1. /\ IsFiniteSet(0 .. Capacity - 1)
        /\ Cardinality(0 .. Capacity - 1) = IF 0 > Capacity - 1 THEN 0 ELSE (Capacity - 1) - 0 + 1
    BY <1>1, FS_Interval
  <2> QED
    BY <1>1, <2>1 DEF Slots
<1>4. q \in [1 .. Len(q) -> Slots]
  OBVIOUS
<1> SUFFICES ASSUME Capacity < Len(q) PROVE FALSE
  BY <1>1
<1>5. \E x, y \in 1 .. Len(q) : x # y /\ q[x] = q[y]
  BY <1>2, <1>3, <1>4, FS_PigeonHole
<1> QED
  BY <1>5 DEF Distinct

\* Chain recovers the list that the links follow.
LEMMA ChainIs ==
    ASSUME NEW x, NEW q \in Seq(Slots), Distinct(q), Follows(x.store, q),
           \A s \in Slots : x.store[s].next \in SlotOrNil,
           NEW h, h = After(q, 0)
    PROVE  Chain(x, h) = q
<1> DEFINE next(t) == IF t = Nil THEN Nil ELSE x.store[t].next
           Body(f) == [k \in 0 .. Capacity |-> IF k = 0 THEN h ELSE next(f[k - 1])]
           At == CHOOSE f : f = Body(f)
           F == [k \in 1 .. Capacity |-> [t \in SlotOrNil |-> next(t)]]
<1>1. Capacity \in Nat /\ Len(q) \in Nat /\ Len(q) =< Capacity
  BY Parameters, DistinctFits
<1>2. h \in SlotOrNil
  <2>1. q = <<>> \/ q[1] \in Slots
    OBVIOUS
  <2> QED
    BY <1>1, <2>1, Parameters DEF After
<1>3. F \in [1 .. Capacity -> [SlotOrNil -> SlotOrNil]]
  <2>1. \A t \in SlotOrNil : next(t) \in SlotOrNil
    BY Parameters
  <2> HIDE DEF next
  <2> QED
    BY <2>1
<1>4. \E f : f = Body(f)
  <2>1. PICK f : IsIteration(f, Capacity, SlotOrNil, h, F)
    <3> HIDE DEF F
    <3> QED
      BY <1>1, <1>2, <1>3, IterationExists
  <2> HIDE DEF next
  <2>2. \A k \in 1 .. Capacity : f[k - 1] \in SlotOrNil
    BY <1>1, <2>1 DEF IsIteration
  <2>3. \A k \in 1 .. Capacity : f[k] = next(f[k - 1])
    BY <2>1, <2>2 DEF IsIteration
  <2>4. f = [k \in 0 .. Capacity |-> f[k]] /\ f[0] = h
    BY <2>1 DEF IsIteration
  <2>5. \A k \in 0 .. Capacity : k = 0 \/ k \in 1 .. Capacity
    BY <1>1
  <2>6. \A k \in 0 .. Capacity : f[k] = IF k = 0 THEN h ELSE next(f[k - 1])
    BY <2>3, <2>4, <2>5
  <2>7. f = Body(f)
    BY <2>4, <2>6
  <2> QED
    BY <2>7
<1>5. At = Body(At)
  <2> HIDE DEF Body
  <2> QED
    BY <1>4
<1> DEFINE len == Cardinality({k \in 0 .. Capacity - 1 : At[k] # Nil})
<1>6. Chain(x, h) = [k \in 1 .. len |-> At[k - 1]]
  BY DEF Chain
<1> HIDE DEF At, next
<1>7. At[0] = h /\ \A k \in 1 .. Capacity : At[k] = next(At[k - 1])
  BY <1>1, <1>5
<1>8. \A k \in 0 .. Capacity : At[k] = After(q, k)
  <2> DEFINE S == {k \in 0 .. Capacity : At[k] = After(q, k)}
  <2>1. 0 \in S
    BY <1>1, <1>7
  <2>2. \A k \in 0 .. Capacity - 1 : k \in S => k + 1 \in S
    <3> SUFFICES ASSUME NEW k \in 0 .. Capacity - 1, k \in S PROVE k + 1 \in S
      OBVIOUS
    <3>1. k + 1 \in 1 .. Capacity /\ (k + 1) - 1 = k
      BY <1>1
    <3>2. At[k + 1] = next(After(q, k))
      BY <1>7, <3>1
    <3>3. next(After(q, k)) = After(q, k + 1)
      <4>1. CASE k < Len(q)
        <5>1. k + 1 \in 1 .. Len(q) /\ q[k + 1] \in Slots
          BY <1>1, <4>1
        <5>2. q[k + 1] # Nil
          BY <5>1, Parameters
        <5>3. After(q, k) = q[k + 1]
          BY <4>1 DEF After
        <5>4. x.store[q[k + 1]].next = After(q, k + 1)
          BY <5>1 DEF Follows
        <5> QED
          BY <5>2, <5>3, <5>4 DEF next
      <4>2. CASE ~(k < Len(q))
        <5>1. ~(k + 1 < Len(q))
          BY <1>1, <4>2
        <5> QED
          BY <4>2, <5>1 DEF After, next
      <4> QED
        BY <4>1, <4>2
    <3>4. k + 1 \in 0 .. Capacity
      BY <1>1
    <3> QED
      BY <3>2, <3>3, <3>4
  <2>3. 0 .. Capacity \subseteq S
    <3> HIDE DEF S
    <3> QED
      BY <1>1, <2>1, <2>2, UpTo
  <2> QED
    BY <2>3
<1>9. {k \in 0 .. Capacity - 1 : At[k] # Nil} = 0 .. Len(q) - 1
  <2>1. \A k \in 0 .. Capacity - 1 : At[k] # Nil <=> k < Len(q)
    <3> TAKE k \in 0 .. Capacity - 1
    <3>1. At[k] = After(q, k)
      BY <1>1, <1>8
    <3>2. k < Len(q) => q[k + 1] \in Slots
      BY <1>1
    <3> QED
      BY <3>1, <3>2, Parameters DEF After
  <2> QED
    BY <1>1, <2>1
<1>10. len = Len(q)
  <2>1. PICK n : n = Len(q) - 1
    OBVIOUS
  <2>2. n \in Int
    BY <1>1, <2>1
  <2>3. Cardinality(0 .. n) = IF 0 > n THEN 0 ELSE n - 0 + 1
    BY <2>2, FS_Interval
  <2>4. len = Cardinality(0 .. n)
    BY <1>9, <2>1
  <2> HIDE DEF len
  <2> QED
    BY <1>1, <2>1, <2>3, <2>4
<1> HIDE DEF len
<1>11. \A k \in 1 .. Len(q) : At[k - 1] = q[k]
  <2> TAKE k \in 1 .. Len(q)
  <2>1. k - 1 \in 0 .. Capacity /\ k - 1 < Len(q) /\ (k - 1) + 1 = k
    BY <1>1
  <2> QED
    BY <1>8, <2>1 DEF After
<1>12. q = [k \in 1 .. Len(q) |-> q[k]]
  OBVIOUS
<1> QED
  BY <1>6, <1>10, <1>11, <1>12

-----------------------------------------------------------------------------
(* Sums of sizes. *)

Sized(x) == \A s \in Slots : x.store[s].qty \in Nat

\* g runs through the partial sums of list q.
Sums(g, x, q) ==
    /\ g \in [0 .. Len(q) -> Nat]
    /\ g[0] = 0
    /\ \A k \in 1 .. Len(q) : g[k] = g[k - 1] + x.store[q[k]].qty

\* Total is the last partial sum.
LEMMA TotalUnfolds ==
    ASSUME NEW x, Sized(x), NEW q \in Seq(Slots)
    PROVE  \E g : Sums(g, x, q) /\ Total(x, q) = g[Len(q)]
<1> DEFINE N == Len(q)
           Body(f) == [k \in 0 .. N |-> IF k = 0 THEN 0 ELSE f[k - 1] + x.store[q[k]].qty]
           g == CHOOSE f : f = Body(f)
           F == [k \in 1 .. N |-> [n \in Nat |-> n + x.store[q[k]].qty]]
<1>1. N \in Nat /\ \A k \in 1 .. N : x.store[q[k]].qty \in Nat
  BY DEF Sized
<1>2. F \in [1 .. N -> [Nat -> Nat]]
  BY <1>1
<1>3. \E f : f = Body(f)
  <2>1. PICK f : IsIteration(f, N, Nat, 0, F)
    <3> HIDE DEF F
    <3> QED
      BY <1>1, <1>2, IterationExists
  <2>2. \A k \in 1 .. N : f[k - 1] \in Nat
    <3>1. f \in [0 .. N -> Nat]
      BY <2>1 DEF IsIteration
    <3>2. \A k \in 1 .. N : k - 1 \in 0 .. N
      BY <1>1
    <3> QED
      BY <3>1, <3>2
  <2>3. \A k \in 1 .. N : f[k] = f[k - 1] + x.store[q[k]].qty
    BY <2>1, <2>2 DEF IsIteration
  <2>4. f = [k \in 0 .. N |-> f[k]] /\ f[0] = 0
    BY <2>1 DEF IsIteration
  <2>5. \A k \in 0 .. N : k = 0 \/ k \in 1 .. N
    BY <1>1
  <2>6. \A k \in 0 .. N : f[k] = IF k = 0 THEN 0 ELSE f[k - 1] + x.store[q[k]].qty
    BY <2>3, <2>4, <2>5
  <2>7. f = Body(f)
    BY <2>4, <2>6
  <2> QED
    BY <2>7
<1>4. g = Body(g)
  <2> HIDE DEF Body
  <2> QED
    BY <1>3
<1>5. Total(x, q) = g[N]
  BY DEF Total
<1> HIDE DEF g
<1>6. g[0] = 0 /\ \A k \in 1 .. N : g[k] = g[k - 1] + x.store[q[k]].qty
  BY <1>1, <1>4
<1>7. \A k \in 0 .. N : g[k] \in Nat
  <2> DEFINE S == {k \in 0 .. N : g[k] \in Nat}
  <2>1. 0 \in S
    BY <1>1, <1>6
  <2>2. \A k \in 0 .. N - 1 : k \in S => k + 1 \in S
    <3> SUFFICES ASSUME NEW k \in 0 .. N - 1, k \in S PROVE k + 1 \in S
      OBVIOUS
    <3>1. k + 1 \in 1 .. N /\ (k + 1) - 1 = k /\ k + 1 \in 0 .. N
      BY <1>1
    <3>2. g[k + 1] = g[k] + x.store[q[k + 1]].qty
      BY <1>6, <3>1
    <3> QED
      BY <1>1, <3>1, <3>2
  <2>3. 0 .. N \subseteq S
    <3> HIDE DEF S
    <3> QED
      BY <1>1, <2>1, <2>2, UpTo
  <2> QED
    BY <2>3
<1>8. Sums(g, x, q)
  <2>1. g = [k \in 0 .. N |-> g[k]]
    BY <1>4
  <2> QED
    BY <1>6, <1>7, <2>1 DEF Sums
<1> QED
  BY <1>5, <1>8

\* The partial sums are determined.
LEMMA TotalIs ==
    ASSUME NEW x, Sized(x), NEW q \in Seq(Slots), NEW g, Sums(g, x, q)
    PROVE  Total(x, q) = g[Len(q)] /\ Total(x, q) \in Nat
<1>1. PICK f : Sums(f, x, q) /\ Total(x, q) = f[Len(q)]
  BY TotalUnfolds
<1> DEFINE S == {k \in 0 .. Len(q) : f[k] = g[k]}
<1>2. Len(q) \in Nat
  OBVIOUS
<1>3. 0 \in S
  BY <1>1, <1>2 DEF Sums
<1>4. \A k \in 0 .. Len(q) - 1 : k \in S => k + 1 \in S
  <2> SUFFICES ASSUME NEW k \in 0 .. Len(q) - 1, k \in S PROVE k + 1 \in S
    OBVIOUS
  <2>1. k + 1 \in 1 .. Len(q) /\ (k + 1) - 1 = k /\ k + 1 \in 0 .. Len(q)
    BY <1>2
  <2>2. /\ f[k + 1] = f[k] + x.store[q[k + 1]].qty
        /\ g[k + 1] = g[k] + x.store[q[k + 1]].qty
    BY <1>1, <2>1 DEF Sums
  <2> QED
    BY <2>1, <2>2
<1>5. 0 .. Len(q) \subseteq S
  <2> HIDE DEF S
  <2> QED
    BY <1>2, <1>3, <1>4, UpTo
<1> QED
  BY <1>1, <1>2, <1>5 DEF Sums

\* The same sizes have the same sum.
LEMMA TotalSame ==
    ASSUME NEW x, Sized(x), NEW y, Sized(y), NEW q \in Seq(Slots),
           \A k \in 1 .. Len(q) : y.store[q[k]].qty = x.store[q[k]].qty
    PROVE  Total(y, q) = Total(x, q)
<1>1. PICK g : Sums(g, x, q) /\ Total(x, q) = g[Len(q)]
  BY TotalUnfolds
<1>2. Sums(g, y, q)
  BY <1>1 DEF Sums
<1> QED
  BY <1>1, <1>2, TotalIs

\* One slot leaves the list.
LEMMA TotalCut ==
    ASSUME NEW x, Sized(x), NEW y, Sized(y), NEW q \in Seq(Slots), NEW k \in 1 .. Len(q),
           \A m \in 1 .. Len(q) : m # k => y.store[q[m]].qty = x.store[q[m]].qty
    PROVE  Total(y, CutAt(q, k)) = Total(x, q) - x.store[q[k]].qty
<1> DEFINE r == CutAt(q, k)
<1>0. Len(q) \in Nat /\ Len(q) # 0
  OBVIOUS
<1>1. /\ r \in Seq(Slots) /\ Len(r) = Len(q) - 1
      /\ \A m \in 1 .. Len(q) - 1 : r[m] = IF m < k THEN q[m] ELSE q[m + 1]
  BY CutAtFacts
<1> HIDE DEF r
<1>2. PICK g : Sums(g, x, q) /\ Total(x, q) = g[Len(q)]
  BY TotalUnfolds
<1>3. PICK v : v = x.store[q[k]].qty
  OBVIOUS
<1>4. /\ \A m \in 0 .. Len(q) : g[m] \in Nat
      /\ g[0] = 0
      /\ \A m \in 1 .. Len(q) : g[m] = g[m - 1] + x.store[q[m]].qty
      /\ \A m \in 1 .. Len(q) : x.store[q[m]].qty \in Nat
      /\ v \in Nat
  BY <1>2, <1>3 DEF Sums, Sized
<1>5. \A m \in k .. Len(q) : g[m] >= v
  <2> DEFINE S == {m \in 0 .. Len(q) : m >= k => g[m] >= v}
  <2>1. 0 \in S
    BY <1>0
  <2>2. \A m \in 0 .. Len(q) - 1 : m \in S => m + 1 \in S
    <3> SUFFICES ASSUME NEW m \in 0 .. Len(q) - 1, m \in S PROVE m + 1 \in S
      OBVIOUS
    <3>1. m + 1 \in 1 .. Len(q) /\ (m + 1) - 1 = m /\ m + 1 \in 0 .. Len(q) /\ m \in 0 .. Len(q)
      BY <1>0
    <3>2. g[m + 1] = g[m] + x.store[q[m + 1]].qty /\ x.store[q[m + 1]].qty \in Nat
      BY <1>4, <3>1
    <3>3. CASE m + 1 = k
      BY <1>3, <1>4, <3>1, <3>2, <3>3
    <3>4. CASE m + 1 # k
      <4>1. g[m] \in Nat
        BY <1>4, <3>1
      <4>2. m + 1 >= k => m >= k
        BY <3>1, <3>4
      <4>3. m >= k => g[m] >= v
        OBVIOUS
      <4>4. m + 1 >= k => g[m + 1] >= v
        <5> HAVE m + 1 >= k
        <5>1. g[m] >= v
          BY <4>2, <4>3
        <5> QED
          BY <1>4, <3>2, <4>1, <5>1
      <4> QED
        BY <3>1, <4>4
    <3> QED
      BY <3>3, <3>4
  <2>3. 0 .. Len(q) \subseteq S
    <3> HIDE DEF S
    <3> QED
      BY <1>0, <2>1, <2>2, UpTo
  <2> QED
    BY <1>0, <2>3
<1> DEFINE h == [m \in 0 .. Len(r) |-> IF m < k THEN g[m] ELSE g[m + 1] - v]
<1>6. h \in [0 .. Len(r) -> Nat]
  <2>1. \A m \in 0 .. Len(r) : (IF m < k THEN g[m] ELSE g[m + 1] - v) \in Nat
    <3> TAKE m \in 0 .. Len(r)
    <3>1. CASE m < k
      BY <1>0, <1>1, <1>4, <3>1
    <3>2. CASE ~(m < k)
      <4>1. m + 1 \in k .. Len(q) /\ m + 1 \in 0 .. Len(q)
        BY <1>0, <1>1, <3>2
      <4>2. g[m + 1] >= v /\ g[m + 1] \in Nat
        BY <1>4, <1>5, <4>1
      <4> QED
        BY <1>4, <3>2, <4>2
    <3> QED
      BY <3>1, <3>2
  <2> QED
    BY <2>1
<1>7. \A m \in 1 .. Len(r) : h[m] = h[m - 1] + y.store[r[m]].qty
  <2> TAKE m \in 1 .. Len(r)
  <2>1. m \in 1 .. Len(q) - 1 /\ m - 1 \in 0 .. Len(r) /\ m \in 0 .. Len(r)
    BY <1>0, <1>1
  <2>2. CASE m < k
    <3>1. h[m] = g[m] /\ h[m - 1] = g[m - 1] /\ r[m] = q[m] /\ m \in 1 .. Len(q) /\ m # k
      BY <1>0, <1>1, <2>1, <2>2, SMTT(30)
    <3>2. y.store[r[m]].qty = x.store[q[m]].qty
      BY <3>1
    <3> QED
      BY <1>4, <3>1, <3>2
  <2>3. CASE m = k
    <3>1. h[m] = g[m + 1] - v /\ h[m - 1] = g[m - 1] /\ r[m] = q[m + 1]
      BY <1>0, <1>1, <2>1, <2>3
    <3>2. m + 1 \in 1 .. Len(q) /\ m \in 1 .. Len(q) /\ (m + 1) - 1 = m /\ m + 1 # k
          /\ m - 1 \in 0 .. Len(q) /\ m \in 0 .. Len(q)
      BY <1>0, <2>1, <2>3
    <3>3. y.store[r[m]].qty = x.store[q[m + 1]].qty
      BY <3>1, <3>2
    <3>4. /\ g[m + 1] = g[m] + x.store[q[m + 1]].qty
          /\ x.store[q[m + 1]].qty \in Nat
      BY <1>4, <3>2
    <3>5. g[m] = g[m - 1] + v /\ g[m - 1] \in Nat
      BY <1>3, <1>4, <2>3, <3>2
    <3> HIDE DEF h
    <3> QED
      BY <1>4, <3>1, <3>3, <3>4, <3>5, SMTT(30)
  <2>4. CASE m > k
    <3>1. h[m] = g[m + 1] - v /\ h[m - 1] = g[(m - 1) + 1] - v /\ r[m] = q[m + 1]
          /\ (m - 1) + 1 = m
      BY <1>0, <1>1, <2>1, <2>4
    <3>2. m + 1 \in 1 .. Len(q) /\ (m + 1) - 1 = m /\ m + 1 # k /\ m \in 0 .. Len(q)
      BY <1>0, <2>1, <2>4
    <3>3. y.store[r[m]].qty = x.store[q[m + 1]].qty
      BY <3>1, <3>2
    <3>4. /\ g[m + 1] = g[m] + x.store[q[m + 1]].qty
          /\ x.store[q[m + 1]].qty \in Nat /\ g[m] \in Nat
      BY <1>4, <3>2
    <3> HIDE DEF h
    <3> QED
      BY <1>4, <3>1, <3>3, <3>4, SMTT(30)
  <2> QED
    BY <2>1, <2>2, <2>3, <2>4
<1>8. h[0] = 0
  BY <1>0, <1>1, <1>4
<1>9. h[Len(r)] = g[Len(q)] - v
  <2>1. Len(r) \in Nat /\ Len(r) + 1 = Len(q)
    BY <1>0, <1>1
  <2>2. CASE k = Len(q)
    <3>1. Len(r) < k /\ Len(r) = k - 1
      BY <1>0, <2>1, <2>2
    <3>2. h[Len(r)] = g[k - 1] /\ g[k] = g[k - 1] + v /\ g[k - 1] \in Nat
      BY <1>3, <1>4, <2>1, <3>1
    <3> QED
      BY <1>4, <2>2, <3>2
  <2>3. CASE k # Len(q)
    <3>1. ~(Len(r) < k)
      BY <1>0, <2>1, <2>3
    <3>2. h[Len(r)] = g[Len(r) + 1] - v
      BY <2>1, <3>1
    <3> QED
      BY <2>1, <3>2
  <2> QED
    BY <2>2, <2>3
<1> HIDE DEF h
<1>10. Sums(h, y, r)
  BY <1>6, <1>7, <1>8 DEF Sums
<1>11. Total(y, r) = h[Len(r)]
  BY <1>1, <1>10, TotalIs
<1> QED
  BY <1>2, <1>3, <1>9, <1>11 DEF r

\* The size of one slot of the list changes.
LEMMA TotalAmend ==
    ASSUME NEW x, Sized(x), NEW y, Sized(y), NEW q \in Seq(Slots), NEW k \in 1 .. Len(q),
           \A m \in 1 .. Len(q) : m # k => y.store[q[m]].qty = x.store[q[m]].qty
    PROVE  Total(y, q) = Total(x, q) - x.store[q[k]].qty + y.store[q[k]].qty
<1>1. Total(y, CutAt(q, k)) = Total(x, q) - x.store[q[k]].qty
  BY TotalCut
<1>2. \A m \in 1 .. Len(q) : m # k => x.store[q[m]].qty = y.store[q[m]].qty
  OBVIOUS
<1>3. Total(y, CutAt(q, k)) = Total(y, q) - y.store[q[k]].qty
  BY TotalCut
<1>4. \A z : Sized(z) => Total(z, q) \in Nat /\ z.store[q[k]].qty \in Nat
  <2> TAKE z
  <2> HAVE Sized(z)
  <2>1. PICK g : Sums(g, z, q)
    BY TotalUnfolds
  <2> QED
    BY <2>1, TotalIs DEF Sized
<1> QED
  BY <1>1, <1>3, <1>4

\* One slot joins the list.
LEMMA TotalAppend ==
    ASSUME NEW x, Sized(x), NEW y, Sized(y), NEW q \in Seq(Slots), NEW s \in Slots,
           \A m \in 1 .. Len(q) : y.store[q[m]].qty = x.store[q[m]].qty
    PROVE  Total(y, Append(q, s)) = Total(x, q) + y.store[s].qty
<1>1. PICK r : r = Append(q, s)
  OBVIOUS
<1>2. /\ r \in Seq(Slots) /\ Len(r) = Len(q) + 1 /\ Len(q) \in Nat
      /\ r[Len(q) + 1] = s /\ \A m \in 1 .. Len(q) : r[m] = q[m]
  BY <1>1
<1>3. PICK g : Sums(g, x, q) /\ Total(x, q) = g[Len(q)]
  BY TotalUnfolds
<1>4. /\ \A m \in 0 .. Len(q) : g[m] \in Nat
      /\ g[0] = 0
      /\ \A m \in 1 .. Len(q) : g[m] = g[m - 1] + x.store[q[m]].qty
      /\ y.store[s].qty \in Nat
  BY <1>3 DEF Sums, Sized
<1> DEFINE h == [m \in 0 .. Len(r) |-> IF m = Len(r) THEN g[Len(q)] + y.store[s].qty ELSE g[m]]
<1>5. /\ h[Len(r)] = g[Len(q)] + y.store[s].qty
      /\ \A m \in 0 .. Len(q) : h[m] = g[m]
      /\ h = [m \in 0 .. Len(r) |-> h[m]]
  BY <1>2
<1> HIDE DEF h
<1>6. \A m \in 0 .. Len(r) : h[m] \in Nat
  <2>1. \A m \in 0 .. Len(r) : m = Len(r) \/ m \in 0 .. Len(q)
    BY <1>2
  <2>2. g[Len(q)] \in Nat /\ g[Len(q)] + y.store[s].qty \in Nat
    BY <1>2, <1>4
  <2> QED
    BY <1>4, <1>5, <2>1, <2>2
<1>7. \A m \in 1 .. Len(r) : h[m] = h[m - 1] + y.store[r[m]].qty
  <2> TAKE m \in 1 .. Len(r)
  <2>1. CASE m = Len(r)
    <3>1. m - 1 = Len(q) /\ m - 1 \in 0 .. Len(q) /\ r[m] = s
      BY <1>2, <2>1
    <3>2. h[m - 1] = g[Len(q)]
      BY <1>5, <3>1
    <3> QED
      BY <1>5, <2>1, <3>1, <3>2
  <2>2. CASE m # Len(r)
    <3>1. m \in 1 .. Len(q) /\ m \in 0 .. Len(q) /\ m - 1 \in 0 .. Len(q)
      BY <1>2, <2>2
    <3> QED
      BY <1>2, <1>4, <1>5, <3>1, ZenonT(30)
  <2> QED
    BY <2>1, <2>2
<1>8. Sums(h, y, r)
  <2>1. h \in [0 .. Len(r) -> Nat]
    BY <1>5, <1>6
  <2>2. h[0] = 0
    <3>1. 0 \in 0 .. Len(q)
      BY <1>2
    <3> QED
      BY <1>4, <1>5, <3>1
  <2> QED
    BY <1>7, <2>1, <2>2 DEF Sums
<1> QED
  BY <1>1, <1>2, <1>3, <1>5, <1>8, TotalIs

\* The sum of the empty list.
LEMMA TotalEmpty ==
    ASSUME NEW x, Sized(x)
    PROVE  Total(x, <<>>) = 0
<1>1. PICK q : q = <<>>
  OBVIOUS
<1>2. q \in Seq(Slots) /\ Len(q) = 0
  BY <1>1
<1>3. PICK g : Sums(g, x, q) /\ Total(x, q) = g[Len(q)]
  BY <1>2, TotalUnfolds
<1> QED
  BY <1>1, <1>2, <1>3 DEF Sums

-----------------------------------------------------------------------------
(* The representation: book x, with the lists starting at hd, stands for   *)
(* the queues of slots Q.                                                  *)

LevelRec == [qty : Int, head : SlotOrNil, tail : SlotOrNil]
SlotRec == [id : InputIds, qty : Nat, prev : SlotOrNil, level : Ix,
            owner : Owners \cup {NoId}, side : Sides, next : SlotOrNil]

\* The members of the class.
BookTyped(x) ==
    /\ x = [level |-> x.level, bits |-> x.bits, best |-> x.best, ids |-> x.ids,
            store |-> x.store, free |-> x.free, live |-> x.live]
    /\ x.level \in [Ix -> LevelRec]
    /\ x.bits \in [Sides -> SUBSET Ix]
    /\ x.best \in [Sides -> Int]
    /\ x.ids \in [DOMAIN x.ids -> Slots]
    /\ DOMAIN x.ids \subseteq OrderIds
    /\ x.store \in [Slots -> SlotRec]
    /\ x.free \in SlotOrNil

\* live counts the resting orders.
Counted(x) == IsFiniteSet(DOMAIN x.ids) /\ x.live = Cardinality(DOMAIN x.ids)

\* Heads and next links.
Links(x, hd, Q) == \A i \in Places : hd[i] = After(Q[i], 0) /\ Follows(x.store, Q[i])

\* Tails and back links.  The first order of a level may have a stale one: the
\* sweep does not clear it when it takes away the order before.
BackLinks(x, Q) ==
    \A i \in Ix :
       /\ x.level[i].tail = Before(Q[i], Len(Q[i]) + 1)
       /\ Returns(x.store, Q[i])

\* The aggregate of a level is the sum of its orders.
Aggregates(x, Q) == \A i \in Ix : x.level[i].qty = Total(x, Q[i])

\* What a slot in the list of level i holds.
Holds(x, i, s) ==
    /\ x.store[s].level = i
    /\ x.store[s].side \in Sides
    /\ i \in x.bits[x.store[s].side]
    /\ x.store[s].qty # 0
    /\ x.store[s].owner \in Owners
    /\ x.store[s].id \in DOMAIN x.ids
    /\ x.ids[x.store[s].id] = s

Resting(x, Q) == \A i \in Ix : \A k \in 1 .. Len(Q[i]) : Holds(x, i, Q[i][k])

\* An indexed slot holds the order of that id and is not free.
Indexed(x, Q) ==
    \A id \in DOMAIN x.ids :
       /\ x.store[x.ids[id]].id = id
       /\ \A m \in 1 .. Len(Q[FreePlace]) : x.ids[id] # Q[FreePlace][m]

\* A level is marked on one side exactly when it has orders, and the bids are
\* below the asks.
Marked(bits, Q) ==
    /\ \A i \in Ix : Q[i] # <<>> <=> (i \in bits["Buy"] \/ i \in bits["Sell"])
    /\ \A i \in bits["Buy"], j \in bits["Sell"] : i < j

\* The best of a side: of its marked levels the lowest ask, the highest bid.
BestOf(side, set) == IF side = "Sell" THEN FindNext(set, 0) ELSE FindPrev(set, Top)

\* The cached bests.
Cached(x) ==
    \A side \in Sides : x.best[side] = BestOf(side, x.bits[side])

Rep(x, hd, Q) ==
    /\ BookTyped(x) /\ Counted(x)
    /\ Spread(Q) /\ Links(x, hd, Q) /\ BackLinks(x, Q)
    /\ Aggregates(x, Q) /\ Resting(x, Q) /\ Indexed(x, Q)
    /\ Marked(x.bits, Q) /\ Cached(x)

\* Where the lists start in the current state.
Heads == [i \in Places |-> IF i = FreePlace THEN b.free ELSE TrueHead(i)]

\* The order being matched, and the cursor: between two iterations in one level
\* the sweep still has something to match there.
TakerInv ==
    /\ pc \in {"idle", "sweep"}
    /\ pc = "idle" => taker = NoTaker /\ cursor = Nil
    /\ pc = "sweep" => taker \in Ref!Takers /\ taker.id \notin DOMAIN b.ids
    /\ cursor \in SlotOrNil
    /\ cursor # Nil => /\ pc = "sweep" /\ taker.qty # 0 /\ ~taker.stop
                       /\ Crosses(taker.side, Rel(taker.limit))

BookInv == \E Q : Rep(b, Heads, Q)

\* The inductive invariant.
Inv == BookInv /\ TakerInv

-----------------------------------------------------------------------------
(* What the changes of one list do to its links. *)

\* The ends of a list after a cut, a push and an append.
LEMMA EndsMove ==
    ASSUME NEW q \in Seq(Slots), NEW k \in 1 .. Len(q), NEW s \in Slots
    PROVE  /\ After(CutAt(q, k), 0) = IF k > 1 THEN After(q, 0) ELSE After(q, 1)
           /\ Before(CutAt(q, k), Len(CutAt(q, k)) + 1) =
                IF k < Len(q) THEN Before(q, Len(q) + 1) ELSE Before(q, k)
<1>1. /\ Len(CutAt(q, k)) = Len(q) - 1 /\ Len(q) \in Nat
      /\ \A m \in 1 .. Len(q) - 1 : CutAt(q, k)[m] = IF m < k THEN q[m] ELSE q[m + 1]
  BY CutAtFacts
<1>2. PICK r : r = CutAt(q, k)
  OBVIOUS
<1>3. After(r, 0) = IF k > 1 THEN After(q, 0) ELSE After(q, 1)
  <2>1. CASE Len(q) = 1
    BY <1>1, <1>2, <2>1 DEF After
  <2>2. CASE Len(q) # 1
    <3>1. 1 \in 1 .. Len(q) - 1 /\ 0 < Len(r) /\ 0 < Len(q) /\ 1 < Len(q)
      BY <1>1, <1>2, <2>2
    <3>2. After(r, 0) = r[1] /\ After(q, 0) = q[1] /\ After(q, 1) = q[2]
      BY <3>1 DEF After
    <3>3. r[1] = IF 1 < k THEN q[1] ELSE q[1 + 1]
      BY <1>1, <1>2, <3>1
    <3> QED
      BY <3>2, <3>3
  <2> QED
    BY <2>1, <2>2
<1>4. Before(r, Len(r) + 1) = IF k < Len(q) THEN Before(q, Len(q) + 1) ELSE Before(q, k)
  <2>1. CASE Len(q) = 1
    BY <1>1, <1>2, <2>1 DEF Before
  <2>2. CASE Len(q) # 1
    <3>1. PICK n : n = Len(q) - 1
      OBVIOUS
    <3>2. n \in 1 .. Len(q) - 1 /\ Len(r) + 1 > 1 /\ (Len(r) + 1) - 1 = n /\ n + 1 = Len(q)
          /\ Len(q) + 1 > 1 /\ (Len(q) + 1) - 1 = Len(q)
      BY <1>1, <1>2, <2>2, <3>1
    <3>3. Before(r, Len(r) + 1) = r[n] /\ Before(q, Len(q) + 1) = q[Len(q)]
      BY <3>2 DEF Before
    <3>4. r[n] = IF n < k THEN q[n] ELSE q[n + 1]
      BY <1>1, <1>2, <3>2
    <3>5. CASE k = Len(q)
      BY <1>1, <2>2, <3>1, <3>2, <3>3, <3>4, <3>5 DEF Before
    <3>6. CASE k # Len(q)
      BY <1>1, <3>1, <3>2, <3>3, <3>4, <3>6
    <3> QED
      BY <3>5, <3>6
  <2> QED
    BY <2>1, <2>2
<1> QED
  BY <1>2, <1>3, <1>4

\* A cut: the slot before the gap points past it.
LEMMA FollowsCut ==
    ASSUME NEW q \in Seq(Slots), NEW k \in 1 .. Len(q), NEW st, NEW st2, Follows(st, q),
           \A m \in 1 .. Len(q) :
              m # k => st2[q[m]].next = IF m = k - 1 THEN After(q, k) ELSE st[q[m]].next
    PROVE  Follows(st2, CutAt(q, k))
<1>1. PICK r : r = CutAt(q, k)
  OBVIOUS
<1>2. /\ Len(r) = Len(q) - 1 /\ Len(q) \in Nat
      /\ \A m \in 1 .. Len(q) - 1 : r[m] = IF m < k THEN q[m] ELSE q[m + 1]
  <2>1. /\ CutAt(q, k) \in Seq(Slots) /\ Len(CutAt(q, k)) = Len(q) - 1
        /\ \A m \in 1 .. Len(q) - 1 : CutAt(q, k)[m] = IF m < k THEN q[m] ELSE q[m + 1]
    BY CutAtFacts
  <2> QED
    BY <1>1, <2>1
<1> SUFFICES ASSUME NEW m \in 1 .. Len(r) PROVE st2[r[m]].next = After(r, m)
  BY <1>1 DEF Follows
<1>3. m \in 1 .. Len(q) - 1 /\ m \in 1 .. Len(q) /\ m + 1 \in 1 .. Len(q)
  BY <1>2
<1>4. m < Len(r) => r[m + 1] = IF m + 1 < k THEN q[m + 1] ELSE q[(m + 1) + 1]
  <2> HAVE m < Len(r)
  <2>1. m + 1 \in 1 .. Len(q) - 1
    BY <1>2
  <2> QED
    BY <1>2, <2>1
<1>5. CASE m < k
  <2>1. r[m] = q[m]
    BY <1>2, <1>3, <1>5
  <2>2. st2[q[m]].next = IF m = k - 1 THEN After(q, k) ELSE st[q[m]].next
    BY <1>3, <1>5
  <2>3. CASE m = k - 1
    <3>1. m + 1 = k /\ ~(m + 1 < k) /\ (m < Len(r) <=> k < Len(q))
      BY <1>2, <2>3
    <3>2. After(r, m) = After(q, k)
      BY <1>4, <3>1 DEF After
    <3> QED
      BY <2>1, <2>2, <2>3, <3>2
  <2>4. CASE m # k - 1
    <3>1. m + 1 < k /\ m < Len(r) /\ m < Len(q)
      BY <1>2, <1>5, <2>4
    <3>2. st[q[m]].next = After(q, m)
      BY <1>3 DEF Follows
    <3>3. After(r, m) = After(q, m)
      BY <1>4, <3>1 DEF After
    <3> QED
      BY <2>1, <2>2, <2>4, <3>2, <3>3
  <2> QED
    BY <2>3, <2>4
<1>6. CASE ~(m < k)
  <2>1. r[m] = q[m + 1]
    BY <1>2, <1>3, <1>6
  <2>2. m + 1 # k /\ m + 1 # k - 1 /\ ~(m + 1 < k) /\ (m < Len(r) <=> m + 1 < Len(q))
    BY <1>2, <1>6
  <2>3. st2[q[m + 1]].next = st[q[m + 1]].next
    BY <1>3, <2>2
  <2>4. st[q[m + 1]].next = After(q, m + 1)
    BY <1>3 DEF Follows
  <2>5. After(r, m) = After(q, m + 1)
    BY <1>4, <2>2 DEF After
  <2> QED
    BY <2>1, <2>3, <2>4, <2>5
<1> QED
  BY <1>5, <1>6

\* A push: the new first slot points to the old one.
LEMMA FollowsPush ==
    ASSUME NEW q \in Seq(Slots), NEW s \in Slots, NEW st, NEW st2, Follows(st, q),
           st2[s].next = After(q, 0),
           \A m \in 1 .. Len(q) : st2[q[m]].next = st[q[m]].next
    PROVE  Follows(st2, Push(s, q)) /\ After(Push(s, q), 0) = s
<1>1. PICK r : r = Push(s, q)
  OBVIOUS
<1>2. /\ Len(r) = Len(q) + 1 /\ Len(q) \in Nat /\ r[1] = s
      /\ \A m \in 2 .. Len(q) + 1 : r[m] = q[m - 1]
  <2>1. /\ Push(s, q) \in Seq(Slots) /\ Len(Push(s, q)) = Len(q) + 1 /\ Push(s, q)[1] = s
        /\ \A m \in 2 .. Len(q) + 1 : Push(s, q)[m] = q[m - 1]
    BY PushFacts
  <2> QED
    BY <1>1, <2>1
<1>3. After(r, 0) = s
  BY <1>2 DEF After
<1>4. \A m \in 1 .. Len(r) : After(r, m) = After(q, m - 1)
  <2> TAKE m \in 1 .. Len(r)
  <2>1. m < Len(r) <=> m - 1 < Len(q)
    BY <1>2
  <2>2. m < Len(r) => r[m + 1] = q[(m - 1) + 1]
    <3> HAVE m < Len(r)
    <3>1. m + 1 \in 2 .. Len(q) + 1 /\ (m + 1) - 1 = (m - 1) + 1
      BY <1>2
    <3> QED
      BY <1>2, <3>1
  <2> QED
    BY <2>1, <2>2 DEF After
<1>5. \A m \in 1 .. Len(r) : st2[r[m]].next = After(r, m)
  <2> TAKE m \in 1 .. Len(r)
  <2>1. CASE m = 1
    BY <1>2, <1>4, <2>1
  <2>2. CASE m # 1
    <3>1. m - 1 \in 1 .. Len(q) /\ m \in 2 .. Len(q) + 1
      BY <1>2, <2>2
    <3>2. r[m] = q[m - 1] /\ st2[q[m - 1]].next = st[q[m - 1]].next
      BY <1>2, <3>1
    <3>3. st[q[m - 1]].next = After(q, m - 1)
      BY <3>1 DEF Follows
    <3> QED
      BY <1>4, <3>2, <3>3
  <2> QED
    BY <2>1, <2>2
<1> QED
  BY <1>1, <1>3, <1>5 DEF Follows

\* An append: the old last slot points to the new one.
LEMMA FollowsAppend ==
    ASSUME NEW q \in Seq(Slots), NEW s \in Slots, NEW st, NEW st2, Follows(st, q),
           st2[s].next = Nil,
           \A m \in 1 .. Len(q) : st2[q[m]].next = IF m = Len(q) THEN s ELSE st[q[m]].next
    PROVE  Follows(st2, Append(q, s))
<1>1. PICK r : r = Append(q, s)
  OBVIOUS
<1>2. /\ Len(r) = Len(q) + 1 /\ Len(q) \in Nat /\ r[Len(q) + 1] = s
      /\ \A m \in 1 .. Len(q) : r[m] = q[m]
  BY <1>1
<1>3. \A m \in 1 .. Len(r) : st2[r[m]].next = After(r, m)
  <2> TAKE m \in 1 .. Len(r)
  <2>1. CASE m = Len(q) + 1
    BY <1>2, <2>1 DEF After
  <2>2. CASE m = Len(q)
    <3>1. m \in 1 .. Len(q) /\ m < Len(r)
      BY <1>2, <2>2
    <3>2. After(r, m) = s
      BY <1>2, <2>2, <3>1 DEF After
    <3> QED
      BY <1>2, <2>2, <3>1, <3>2
  <2>3. CASE m # Len(q) /\ m # Len(q) + 1
    <3>1. m \in 1 .. Len(q) /\ m + 1 \in 1 .. Len(q) /\ m < Len(r) /\ m < Len(q)
      BY <1>2, <2>3
    <3>2. st[q[m]].next = After(q, m)
      BY <3>1 DEF Follows
    <3>3. After(r, m) = After(q, m)
      BY <1>2, <3>1 DEF After
    <3> QED
      BY <1>2, <2>3, <3>1, <3>2, <3>3
  <2> QED
    BY <2>1, <2>2, <2>3
<1> QED
  BY <1>1, <1>3 DEF Follows

\* A list whose links are untouched.
LEMMA FollowsSame ==
    ASSUME NEW q, NEW st, NEW st2, Follows(st, q),
           \A m \in 1 .. Len(q) : st2[q[m]].next = st[q[m]].next
    PROVE  Follows(st2, q)
BY DEF Follows

\* The back links after a cut: the slot behind the gap, unless it is now the
\* first one, points before the gap.
LEMMA ReturnsCut ==
    ASSUME NEW q \in Seq(Slots), NEW k \in 1 .. Len(q), NEW st, NEW st2, Returns(st, q),
           \A m \in 1 .. Len(q) : m # k /\ m # k + 1 => st2[q[m]].prev = st[q[m]].prev,
           1 < k /\ k < Len(q) => st2[q[k + 1]].prev = q[k - 1]
    PROVE  Returns(st2, CutAt(q, k))
<1>1. PICK r : r = CutAt(q, k)
  OBVIOUS
<1>2. /\ Len(r) = Len(q) - 1 /\ Len(q) \in Nat
      /\ \A m \in 1 .. Len(q) - 1 : r[m] = IF m < k THEN q[m] ELSE q[m + 1]
  <2>1. /\ CutAt(q, k) \in Seq(Slots) /\ Len(CutAt(q, k)) = Len(q) - 1
        /\ \A m \in 1 .. Len(q) - 1 : CutAt(q, k)[m] = IF m < k THEN q[m] ELSE q[m + 1]
    BY CutAtFacts
  <2> QED
    BY <1>1, <2>1
<1> SUFFICES ASSUME NEW m \in 2 .. Len(r) PROVE st2[r[m]].prev = r[m - 1]
  BY <1>1 DEF Returns
<1>3. m \in 1 .. Len(q) - 1 /\ m \in 2 .. Len(q) /\ m + 1 \in 2 .. Len(q) /\ m - 1 \in 1 .. Len(q) - 1
      /\ m \in 1 .. Len(q) /\ m + 1 \in 1 .. Len(q) /\ (m + 1) - 1 = m /\ (m - 1) + 1 = m
  BY <1>2
<1>4. r[m - 1] = IF m - 1 < k THEN q[m - 1] ELSE q[m]
  BY <1>2, <1>3
<1>5. CASE m < k
  <2>1. r[m] = q[m] /\ m # k /\ m # k + 1 /\ m - 1 < k
    BY <1>2, <1>3, <1>5
  <2>2. st[q[m]].prev = q[m - 1]
    BY <1>3 DEF Returns
  <2> QED
    BY <1>3, <1>4, <2>1, <2>2
<1>6. CASE m = k
  <2>1. r[m] = q[k + 1] /\ 1 < k /\ k < Len(q) /\ m - 1 < k
    BY <1>2, <1>3, <1>6
  <2> QED
    BY <1>4, <1>6, <2>1
<1>7. CASE m > k
  <2>1. r[m] = q[m + 1] /\ m + 1 # k /\ m + 1 # k + 1 /\ ~(m - 1 < k)
    BY <1>2, <1>3, <1>7
  <2>2. st[q[m + 1]].prev = q[m]
    BY <1>3 DEF Returns
  <2> QED
    BY <1>3, <1>4, <2>1, <2>2
<1> QED
  BY <1>3, <1>5, <1>6, <1>7

\* The back link of an appended slot.
LEMMA ReturnsAppend ==
    ASSUME NEW q \in Seq(Slots), NEW s \in Slots, NEW st, NEW st2, Returns(st, q),
           st2[s].prev = Before(q, Len(q) + 1),
           \A m \in 1 .. Len(q) : st2[q[m]].prev = st[q[m]].prev
    PROVE  Returns(st2, Append(q, s))
<1>1. PICK r : r = Append(q, s)
  OBVIOUS
<1>2. /\ Len(r) = Len(q) + 1 /\ Len(q) \in Nat /\ r[Len(q) + 1] = s
      /\ \A m \in 1 .. Len(q) : r[m] = q[m]
  BY <1>1
<1> SUFFICES ASSUME NEW m \in 2 .. Len(r) PROVE st2[r[m]].prev = r[m - 1]
  BY <1>1 DEF Returns
<1>3. CASE m = Len(q) + 1
  <2>1. m - 1 \in 1 .. Len(q) /\ m - 1 = Len(q) /\ m > 1
    BY <1>2, <1>3
  <2> QED
    BY <1>2, <1>3, <2>1 DEF Before
<1>4. CASE m # Len(q) + 1
  <2>1. m \in 2 .. Len(q) /\ m \in 1 .. Len(q) /\ m - 1 \in 1 .. Len(q)
    BY <1>2, <1>4
  <2>2. st[q[m]].prev = q[m - 1]
    BY <2>1 DEF Returns
  <2> QED
    BY <1>2, <2>1, <2>2
<1> QED
  BY <1>3, <1>4

\* A list whose back links are untouched.
LEMMA ReturnsSame ==
    ASSUME NEW q, NEW st, NEW st2, Returns(st, q),
           \A m \in 2 .. Len(q) : st2[q[m]].prev = st[q[m]].prev
    PROVE  Returns(st2, q)
BY DEF Returns

-----------------------------------------------------------------------------
(* The cached bests. *)

\* v is the first element of set from i on, or the end of the ladder.
IsNext(set, i, v) ==
    \/ v \in set /\ v >= i /\ \A k \in set : k >= i => v =< k
    \/ v = Top + 1 /\ \A k \in set : ~(k >= i)

\* v is the last element of set down from i, or -1.
IsPrev(set, i, v) ==
    \/ v \in set /\ v =< i /\ \A k \in set : k =< i => k =< v
    \/ v = -1 /\ \A k \in set : ~(k =< i)

\* What find_next returns.
LEMMA FindNextIs ==
    ASSUME NEW set \in SUBSET Ix, NEW i \in Int
    PROVE  IsNext(set, i, FindNext(set, i))
<1>1. CASE \E j \in set : j >= i
  <2> DEFINE T == {j \in set : j >= i}
             P(j) == j >= i /\ \A k \in set : k >= i => j =< k
  <2>1. T \subseteq Nat /\ T # {}
    BY <1>1, IxFacts
  <2>2. PICK x \in T : \A y \in T : x =< y
    <3> HIDE DEF T
    <3> QED
      BY <2>1, NatMin
  <2>3. x \in set /\ P(x)
    BY <2>2
  <2>4. FindNext(set, i) = CHOOSE j \in set : P(j)
    BY <1>1 DEF FindNext
  <2> HIDE DEF P
  <2>5. FindNext(set, i) \in set /\ P(FindNext(set, i))
    BY <2>3, <2>4
  <2> QED
    BY <2>5 DEF IsNext, P
<1>2. CASE ~(\E j \in set : j >= i)
  BY <1>2 DEF FindNext, IsNext
<1> QED
  BY <1>1, <1>2

\* What find_prev returns.
LEMMA FindPrevIs ==
    ASSUME NEW set \in SUBSET Ix, NEW i \in Int
    PROVE  IsPrev(set, i, FindPrev(set, i))
<1>1. CASE \E j \in set : j =< i
  <2> DEFINE T == {Top - j : j \in {k \in set : k =< i}}
             P(j) == j =< i /\ \A k \in set : k =< i => k =< j
  <2>1. T \subseteq Nat /\ T # {}
    BY <1>1, IxFacts
  <2>2. PICK x \in T : \A y \in T : x =< y
    <3> HIDE DEF T
    <3> QED
      BY <2>1, NatMin
  <2>3. PICK z \in set : z =< i /\ x = Top - z
    BY <2>2
  <2>4. \A k \in set : k =< i => Top - z =< Top - k
    BY <2>2, <2>3
  <2>5. P(z)
    BY <2>3, <2>4, IxFacts
  <2>6. FindPrev(set, i) = CHOOSE j \in set : P(j)
    BY <1>1 DEF FindPrev
  <2> HIDE DEF P
  <2>7. FindPrev(set, i) \in set /\ P(FindPrev(set, i))
    BY <2>5, <2>6
  <2> QED
    BY <2>7 DEF IsPrev, P
<1>2. CASE ~(\E j \in set : j =< i)
  BY <1>2 DEF FindPrev, IsPrev
<1> QED
  BY <1>1, <1>2

\* There is one such element.
LEMMA NextUnique ==
    ASSUME NEW set \in SUBSET Ix, NEW i \in Int, NEW v, IsNext(set, i, v)
    PROVE  v = FindNext(set, i)
<1>1. PICK w : w = FindNext(set, i)
  OBVIOUS
<1>2. IsNext(set, i, w)
  BY <1>1, FindNextIs
<1>3. v = w
  BY <1>2, IxFacts DEF IsNext
<1> QED
  BY <1>1, <1>3

\* The same, downwards.
LEMMA PrevUnique ==
    ASSUME NEW set \in SUBSET Ix, NEW i \in Int, NEW v, IsPrev(set, i, v)
    PROVE  v = FindPrev(set, i)
<1>1. PICK w : w = FindPrev(set, i)
  OBVIOUS
<1>2. IsPrev(set, i, w)
  BY <1>1, FindPrevIs
<1>3. v = w
  BY <1>2, IxFacts DEF IsPrev
<1> QED
  BY <1>1, <1>3

\* An ask is better than a level above, a bid than a level below.
AtLeast(side, i, j) == IF side = "Sell" THEN i =< j ELSE j =< i

\* The best is marked, and at least as good as the others.
LEMMA BestFacts ==
    ASSUME NEW side \in Sides, NEW set \in SUBSET Ix
    PROVE  /\ BestOf(side, set) \in Int
           /\ set # {} => BestOf(side, set) \in set
           /\ \A k \in set : AtLeast(side, BestOf(side, set), k)
           /\ set = {} => BestOf(side, set) = IF side = "Sell" THEN Top + 1 ELSE -1
<1>1. CASE side = "Sell"
  <2>1. PICK v : v = FindNext(set, 0)
    OBVIOUS
  <2>2. IsNext(set, 0, v)
    BY <2>1, FindNextIs
  <2> QED
    BY <1>1, <2>1, <2>2, IxFacts DEF IsNext, BestOf, AtLeast
<1>2. CASE side = "Buy"
  <2>1. PICK v : v = FindPrev(set, Top)
    OBVIOUS
  <2>2. IsPrev(set, Top, v)
    BY <2>1, FindPrevIs, IxFacts
  <2> QED
    BY <1>2, <2>1, <2>2, IxFacts DEF IsPrev, BestOf, AtLeast
<1> QED
  BY <1>1, <1>2 DEF Sides

\* A level is retired: the best moves on if it was that level.
LEMMA BestRetires ==
    ASSUME NEW side \in Sides, NEW set \in SUBSET Ix, NEW i \in set, NEW rest,
           \A k : k \in rest <=> k \in set /\ k # i
    PROVE  BestOf(side, rest) =
             IF i = BestOf(side, set) THEN NextBest(side, rest, i) ELSE BestOf(side, set)
<1>0. rest \in SUBSET Ix /\ i \in Ix /\ i \in Int
  BY IxFacts
<1>1. CASE side = "Sell"
  <2>1. PICK v : v = FindNext(set, 0)
    OBVIOUS
  <2>2. IsNext(set, 0, v)
    BY <2>1, FindNextIs
  <2>3. CASE i = v
    <3>1. PICK w : w = FindNext(rest, i + 1)
      OBVIOUS
    <3>2. IsNext(rest, i + 1, w)
      BY <1>0, <3>1, FindNextIs
    <3>3. IsNext(rest, 0, w)
      <4>1. \A k \in rest : k >= i + 1 /\ k >= 0 /\ k \in Int
        <5> TAKE k \in rest
        <5>1. k \in set /\ k # i /\ k \in Ix
          BY <1>0
        <5>2. k \in Int /\ k >= 0 /\ i =< k
          BY <2>2, <2>3, <5>1, IxFacts DEF IsNext
        <5> QED
          BY <1>0, <5>1, <5>2
      <4>2. CASE w \in rest
        BY <3>2, <4>1, <4>2 DEF IsNext
      <4>3. CASE w \notin rest
        BY <3>2, <4>1, <4>3 DEF IsNext
      <4> QED
        BY <4>2, <4>3
    <3>4. w = FindNext(rest, 0)
      BY <1>0, <3>3, NextUnique
    <3> QED
      BY <1>1, <2>1, <2>3, <3>1, <3>4 DEF BestOf, NextBest
  <2>4. CASE i # v
    <3>1. IsNext(rest, 0, v)
      BY <1>0, <2>2, <2>4, IxFacts DEF IsNext
    <3>2. v = FindNext(rest, 0)
      BY <1>0, <3>1, NextUnique
    <3> QED
      BY <1>1, <2>1, <2>4, <3>2 DEF BestOf
  <2> QED
    BY <2>3, <2>4
<1>2. CASE side = "Buy"
  <2>1. PICK v : v = FindPrev(set, Top)
    OBVIOUS
  <2>2. IsPrev(set, Top, v)
    BY <2>1, FindPrevIs, IxFacts
  <2>3. CASE i = v
    <3>1. PICK w : w = FindPrev(rest, i - 1)
      OBVIOUS
    <3>2. IsPrev(rest, i - 1, w)
      BY <1>0, <3>1, FindPrevIs
    <3>3. IsPrev(rest, Top, w)
      <4>1. \A k \in rest : k =< i - 1 /\ k =< Top /\ k \in Int
        <5> TAKE k \in rest
        <5>1. k \in set /\ k # i /\ k \in Ix
          BY <1>0
        <5>2. k \in Int /\ k =< Top /\ k =< i
          BY <2>2, <2>3, <5>1, IxFacts DEF IsPrev
        <5> QED
          BY <1>0, <5>1, <5>2
      <4>2. CASE w \in rest
        BY <3>2, <4>1, <4>2 DEF IsPrev
      <4>3. CASE w \notin rest
        BY <3>2, <4>1, <4>3 DEF IsPrev
      <4> QED
        BY <4>2, <4>3
    <3>4. w = FindPrev(rest, Top)
      BY <1>0, <3>3, PrevUnique, IxFacts
    <3> QED
      BY <1>2, <2>1, <2>3, <3>1, <3>4 DEF BestOf, NextBest
  <2>4. CASE i # v
    <3>1. IsPrev(rest, Top, v)
      BY <1>0, <2>2, <2>4, IxFacts DEF IsPrev
    <3>2. v = FindPrev(rest, Top)
      BY <1>0, <3>1, PrevUnique, IxFacts
    <3> QED
      BY <1>2, <2>1, <2>4, <3>2 DEF BestOf
  <2> QED
    BY <2>3, <2>4
<1> QED
  BY <1>1, <1>2 DEF Sides

\* A level is marked: it is the new best if it is better.
LEMMA BestMarks ==
    ASSUME NEW side \in Sides, NEW set \in SUBSET Ix, NEW i \in Ix, NEW more,
           \A k : k \in more <=> k \in set \/ k = i
    PROVE  BestOf(side, more) =
             IF Better(side, i, BestOf(side, set)) THEN i ELSE BestOf(side, set)
<1>0. more \in SUBSET Ix /\ i \in Int
  BY IxFacts
<1>1. CASE side = "Sell"
  <2>1. PICK v : v = FindNext(set, 0)
    OBVIOUS
  <2>2. IsNext(set, 0, v)
    BY <2>1, FindNextIs
  <2>3. PICK w : w = IF i < v THEN i ELSE v
    OBVIOUS
  <2>4. IsNext(more, 0, w)
    <3>1. \A k \in set : k \in Int /\ k >= 0 /\ k =< Top /\ v =< k /\ k \in more
      BY <2>2, IxFacts DEF IsNext
    <3>2. i >= 0 /\ i =< Top /\ i \in more
      BY IxFacts
    <3>3. v = Top + 1 \/ v \in set
      BY <2>2 DEF IsNext
    <3>4. w \in more /\ w \in Int
      BY <1>0, <2>3, <3>1, <3>2, <3>3, IxFacts
    <3>5. \A k \in more : w =< k
      <4> TAKE k \in more
      <4>1. v \in Int /\ (k \in set \/ k = i)
        BY <3>1, <3>3, IxFacts
      <4>2. CASE k \in set
        BY <1>0, <2>3, <3>1, <4>1, <4>2
      <4>3. CASE k = i
        BY <1>0, <2>3, <4>1, <4>3
      <4> QED
        BY <4>1, <4>2, <4>3
    <3>6. w >= 0
      BY <2>3, <3>1, <3>2, <3>3, IxFacts
    <3> QED
      BY <3>4, <3>5, <3>6 DEF IsNext
  <2>5. w = FindNext(more, 0)
    BY <1>0, <2>4, NextUnique
  <2> QED
    BY <1>1, <2>1, <2>3, <2>5 DEF BestOf, Better
<1>2. CASE side = "Buy"
  <2>1. PICK v : v = FindPrev(set, Top)
    OBVIOUS
  <2>2. IsPrev(set, Top, v)
    BY <2>1, FindPrevIs, IxFacts
  <2>3. PICK w : w = IF i > v THEN i ELSE v
    OBVIOUS
  <2>4. IsPrev(more, Top, w)
    <3>1. \A k \in set : k \in Int /\ k >= 0 /\ k =< Top /\ k =< v /\ k \in more
      BY <2>2, IxFacts DEF IsPrev
    <3>2. i >= 0 /\ i =< Top /\ i \in more
      BY IxFacts
    <3>3. v = -1 \/ v \in set
      BY <2>2 DEF IsPrev
    <3>4. w \in more /\ w \in Int
      BY <1>0, <2>3, <3>1, <3>2, <3>3, IxFacts
    <3>5. \A k \in more : k =< w
      <4> TAKE k \in more
      <4>1. v \in Int /\ (k \in set \/ k = i)
        BY <3>1, <3>3, IxFacts
      <4>2. CASE k \in set
        BY <1>0, <2>3, <3>1, <4>1, <4>2
      <4>3. CASE k = i
        BY <1>0, <2>3, <4>1, <4>3
      <4> QED
        BY <4>1, <4>2, <4>3
    <3>6. w =< Top
      BY <2>3, <3>1, <3>2, <3>3, IxFacts
    <3> QED
      BY <3>4, <3>5, <3>6 DEF IsPrev
  <2>5. w = FindPrev(more, Top)
    BY <1>0, <2>4, PrevUnique, IxFacts
  <2> QED
    BY <1>2, <2>1, <2>3, <2>5 DEF BestOf, Better
<1> QED
  BY <1>1, <1>2 DEF Sides

-----------------------------------------------------------------------------
(* The changes of a book, field by field. *)

SameOrder(o, p) ==
    p.id = o.id /\ p.qty = o.qty /\ p.level = o.level /\ p.owner = o.owner /\ p.side = o.side

\* Slot s of level i now holds n; the head of a level may be stored.
AmendedTo(x, y, i, s, n) ==
    /\ y.bits = x.bits /\ y.best = x.best /\ y.ids = x.ids /\ y.live = x.live /\ y.free = x.free
    /\ \A t \in Slots :
          /\ y.store[t].id = x.store[t].id /\ y.store[t].level = x.store[t].level
          /\ y.store[t].owner = x.store[t].owner /\ y.store[t].side = x.store[t].side
          /\ y.store[t].next = x.store[t].next /\ y.store[t].prev = x.store[t].prev
          /\ y.store[t].qty = IF t = s THEN n ELSE x.store[t].qty
    /\ \A j \in Ix :
          /\ y.level[j].tail = x.level[j].tail
          /\ y.level[j].qty = IF j = i THEN x.level[i].qty - x.store[s].qty + n
                                       ELSE x.level[j].qty

\* Level i of a side is no longer marked.
RetiredTo(x, y, side, i) ==
    \A sd \in Sides :
       /\ \A j : j \in y.bits[sd] <=> j \in x.bits[sd] /\ ~(sd = side /\ j = i)
       /\ y.best[sd] = IF sd = side /\ i = x.best[sd] THEN NextBest(sd, y.bits[sd], i)
                                                      ELSE x.best[sd]

\* The order in slot s has left the index, and the slot is free.
ReleasedTo(x, y, s) ==
    /\ \A id : id \in DOMAIN y.ids <=> id \in DOMAIN x.ids /\ id # x.store[s].id
    /\ \A id \in DOMAIN y.ids : y.ids[id] = x.ids[id]
    /\ y.live = x.live - 1
    /\ y.free = s
    /\ y.store[s].next = x.free
    /\ \A t \in Slots : t # s => SameOrder(x.store[t], y.store[t])

\* The k-th slot of list q has been taken out of it.
UnlinkedTo(x, y, q, k) ==
    /\ \A t \in Slots : t # q[k] =>
          y.store[t].next = IF k > 1 /\ t = q[k - 1] THEN After(q, k) ELSE x.store[t].next
    /\ \A t \in Slots : t # q[k] /\ ~(k < Len(q) /\ t = q[k + 1]) =>
          y.store[t].prev = x.store[t].prev
    /\ 1 < k /\ k < Len(q) => y.store[q[k + 1]].prev = q[k - 1]

\* Level i has lost the k-th order of its list q, and goes with the last one.
LeftTo(x, y, q, i, k) ==
    /\ \A j \in Ix : j # i => y.level[j].tail = x.level[j].tail /\ y.level[j].qty = x.level[j].qty
    /\ y.level[i].qty = x.level[i].qty - x.store[q[k]].qty
    /\ y.level[i].tail = IF k < Len(q) THEN x.level[i].tail ELSE Before(q, k)
    /\ IF Len(q) = 1 THEN RetiredTo(x, y, x.store[q[k]].side, i)
                     ELSE y.bits = x.bits /\ y.best = x.best

FreedTo(x, y, Q, i, k) ==
    /\ ReleasedTo(x, y, Q[i][k])
    /\ UnlinkedTo(x, y, Q[i], k)
    /\ LeftTo(x, y, Q[i], i, k)

\* The heads after it.
HeadsFreed(hd, hd2, Q, i, k) ==
    /\ hd2[FreePlace] = Q[i][k]
    /\ hd2[i] = IF k > 1 THEN hd[i] ELSE After(Q[i], 1)
    /\ \A j \in Ix : j # i => hd2[j] = hd[j]

\* Sizes are numbers.
LEMMA TypedIsSized ==
    ASSUME NEW x, BookTyped(x)
    PROVE  /\ Sized(x)
           /\ \A s \in Slots : x.store[s].next \in SlotOrNil /\ x.store[s].qty \in Nat
           /\ \A s \in Slots : x.store[s].side \in Sides /\ x.store[s].level \in Ix
           /\ \A i \in Ix : x.level[i].qty \in Int
           /\ \A id \in DOMAIN x.ids : x.ids[id] \in Slots /\ id \in OrderIds
<1>1. \A s \in Slots : x.store[s] \in SlotRec
  BY DEF BookTyped
<1>2. \A i \in Ix : x.level[i] \in LevelRec
  BY DEF BookTyped
<1>3. \A id \in DOMAIN x.ids : x.ids[id] \in Slots /\ id \in OrderIds
  BY DEF BookTyped
<1> QED
  BY <1>1, <1>2, <1>3 DEF SlotRec, LevelRec, Sized

\* An amended order keeps its place.
LEMMA AmendKeepsRep ==
    ASSUME NEW x, NEW hd, NEW Q, Rep(x, hd, Q), NEW i \in Ix, NEW k \in 1 .. Len(Q[i]),
           NEW n \in Nat \ {0}, NEW y, BookTyped(y), AmendedTo(x, y, i, Q[i][k], n)
    PROVE  Rep(y, hd, Q)
<1>0. PICK s : s = Q[i][k]
  OBVIOUS
<1>1. AmendedTo(x, y, i, s, n)
  BY <1>0
<1>2. /\ BookTyped(x) /\ Counted(x) /\ Spread(Q) /\ Links(x, hd, Q) /\ BackLinks(x, Q)
      /\ Aggregates(x, Q) /\ Resting(x, Q) /\ Indexed(x, Q) /\ Marked(x.bits, Q) /\ Cached(x)
  BY DEF Rep
<1>3. /\ \A j \in Places : Q[j] \in Seq(Slots) /\ Len(Q[j]) \in Nat
      /\ \A j \in Places : \A m \in 1 .. Len(Q[j]) : Q[j][m] \in Slots
      /\ s \in Slots /\ i \in Places /\ \A j \in Ix : j \in Places
  <2>1. i \in Places /\ \A j \in Ix : j \in Places
    BY Parameters
  <2> QED
    BY <1>0, <1>2, <2>1, SpreadCovers
<1>4. Sized(x) /\ Sized(y)
  BY <1>2, TypedIsSized
<1>5. Links(y, hd, Q)
  <2> SUFFICES ASSUME NEW j \in Places PROVE hd[j] = After(Q[j], 0) /\ Follows(y.store, Q[j])
    BY DEF Links
  <2>1. hd[j] = After(Q[j], 0) /\ Follows(x.store, Q[j])
    BY <1>2 DEF Links
  <2>2. \A m \in 1 .. Len(Q[j]) : y.store[Q[j][m]].next = x.store[Q[j][m]].next
    BY <1>1, <1>3 DEF AmendedTo
  <2> QED
    BY <2>1, <2>2, FollowsSame
<1>6. BackLinks(y, Q)
  <2> SUFFICES ASSUME NEW j \in Ix
               PROVE  y.level[j].tail = Before(Q[j], Len(Q[j]) + 1) /\ Returns(y.store, Q[j])
    BY DEF BackLinks
  <2>1. x.level[j].tail = Before(Q[j], Len(Q[j]) + 1) /\ Returns(x.store, Q[j])
    BY <1>2 DEF BackLinks
  <2>2. \A m \in 1 .. Len(Q[j]) : y.store[Q[j][m]].prev = x.store[Q[j][m]].prev
    BY <1>1, <1>3 DEF AmendedTo
  <2>3. \A m \in 2 .. Len(Q[j]) : m \in 1 .. Len(Q[j])
    BY <1>3
  <2>4. Returns(y.store, Q[j])
    BY <2>1, <2>2, <2>3, ReturnsSame
  <2>5. y.level[j].tail = x.level[j].tail
    BY <1>1 DEF AmendedTo
  <2> QED
    BY <2>1, <2>4, <2>5
<1>7. Aggregates(y, Q)
  <2> SUFFICES ASSUME NEW j \in Ix PROVE y.level[j].qty = Total(y, Q[j])
    BY DEF Aggregates
  <2>1. x.level[j].qty = Total(x, Q[j]) /\ Q[j] \in Seq(Slots)
    BY <1>2, <1>3 DEF Aggregates
  <2>2. \A m \in 1 .. Len(Q[j]) : j # i \/ m # k => Q[j][m] # s
    <3> SUFFICES ASSUME NEW m \in 1 .. Len(Q[j]), Q[j][m] = s PROVE j = i /\ m = k
      OBVIOUS
    <3>1. j \in Places /\ i \in Places /\ Q[j][m] = Q[i][k]
      BY <1>0, <1>3
    <3> QED
      BY <1>2, <3>1, SpreadDistinct
  <2>3. \A m \in 1 .. Len(Q[j]) :
           y.store[Q[j][m]].qty = IF Q[j][m] = s THEN n ELSE x.store[Q[j][m]].qty
    BY <1>1, <1>3 DEF AmendedTo
  <2>4. CASE j = i
    <3>1. PICK q : q = Q[i]
      OBVIOUS
    <3>2. q \in Seq(Slots) /\ k \in 1 .. Len(q)
      BY <1>3, <3>1
    <3>3. \A m \in 1 .. Len(q) : m # k => y.store[q[m]].qty = x.store[q[m]].qty
      BY <2>2, <2>3, <2>4, <3>1
    <3>4. Total(y, q) = Total(x, q) - x.store[q[k]].qty + y.store[q[k]].qty
      BY <1>4, <3>2, <3>3, TotalAmend
    <3>5. q[k] = s /\ y.store[s].qty = n
      BY <1>0, <1>1, <1>3, <3>1 DEF AmendedTo
    <3>6. y.level[i].qty = x.level[i].qty - x.store[s].qty + n
      BY <1>1 DEF AmendedTo
    <3> QED
      BY <2>1, <2>4, <3>1, <3>4, <3>5, <3>6
  <2>5. CASE j # i
    <3>1. \A m \in 1 .. Len(Q[j]) : y.store[Q[j][m]].qty = x.store[Q[j][m]].qty
      BY <2>2, <2>3, <2>5
    <3>2. Total(y, Q[j]) = Total(x, Q[j])
      BY <1>4, <2>1, <3>1, TotalSame
    <3>3. y.level[j].qty = x.level[j].qty
      BY <1>1, <2>5 DEF AmendedTo
    <3> QED
      BY <2>1, <3>2, <3>3
  <2> QED
    BY <2>4, <2>5
<1>8. Resting(y, Q)
  <2> SUFFICES ASSUME NEW j \in Ix, NEW m \in 1 .. Len(Q[j]) PROVE Holds(y, j, Q[j][m])
    BY DEF Resting
  <2>1. PICK t : t = Q[j][m]
    OBVIOUS
  <2>2. Holds(x, j, t) /\ t \in Slots
    BY <1>2, <1>3, <2>1 DEF Resting
  <2>3. y.store[t].qty # 0
    BY <1>1, <2>2 DEF Holds, AmendedTo
  <2>4. Holds(y, j, t)
    BY <1>1, <2>2, <2>3 DEF Holds, AmendedTo
  <2> QED
    BY <2>1, <2>4
<1>9. Indexed(y, Q)
  <2>1. \A id \in DOMAIN x.ids : x.ids[id] \in Slots
    BY <1>2, TypedIsSized
  <2> QED
    BY <1>1, <1>2, <2>1 DEF AmendedTo, Indexed
<1>10. Counted(y) /\ Marked(y.bits, Q) /\ Cached(y)
  BY <1>1, <1>2 DEF AmendedTo, Counted, Cached
<1> QED
  BY <1>2, <1>5, <1>6, <1>7, <1>8, <1>9, <1>10 DEF Rep

\* The lists after a release, one by one.
LEMMA FreedLists ==
    ASSUME NEW Q, Spread(Q), NEW i \in Ix, NEW k \in 1 .. Len(Q[i])
    PROVE  /\ i \in Places /\ FreePlace \in Places /\ i # FreePlace
           /\ Q[i] \in Seq(Slots) /\ Q[FreePlace] \in Seq(Slots) /\ Q[i][k] \in Slots
           /\ Freed(Q, i, k)[i] = CutAt(Q[i], k)
           /\ Freed(Q, i, k)[FreePlace] = Push(Q[i][k], Q[FreePlace])
           /\ \A j \in Places : j # i /\ j # FreePlace => Freed(Q, i, k)[j] = Q[j]
           /\ \A j \in Places : \A m \in 1 .. Len(Q[j]) : j # i \/ m # k => Q[j][m] # Q[i][k]
<1>1. i \in Places /\ FreePlace \in Places /\ i # FreePlace
  BY Parameters
<1>2. Q[i] \in Seq(Slots) /\ Q[FreePlace] \in Seq(Slots) /\ Q[i][k] \in Slots
  BY <1>1, SpreadCovers
<1>3. \A j \in Places : \A m \in 1 .. Len(Q[j]) : j # i \/ m # k => Q[j][m] # Q[i][k]
  BY <1>1, SpreadDistinct
<1> QED
  BY <1>1, <1>2, <1>3 DEF Freed

\* Heads and next links after a release.
LEMMA FreeKeepsLinks ==
    ASSUME NEW x, NEW hd, NEW Q, Rep(x, hd, Q), NEW i \in Ix, NEW k \in 1 .. Len(Q[i]),
           NEW y, FreedTo(x, y, Q, i, k), NEW hd2, HeadsFreed(hd, hd2, Q, i, k),
           hd[FreePlace] = x.free
    PROVE  Links(y, hd2, Freed(Q, i, k))
<1>0. PICK q, f, s, R : q = Q[i] /\ f = Q[FreePlace] /\ s = q[k] /\ R = Freed(Q, i, k)
  OBVIOUS
<1>1. Spread(Q) /\ Links(x, hd, Q)
  BY DEF Rep
<1>2. /\ i \in Places /\ FreePlace \in Places /\ i # FreePlace
      /\ q \in Seq(Slots) /\ f \in Seq(Slots) /\ s \in Slots /\ k \in 1 .. Len(q)
      /\ R[i] = CutAt(q, k) /\ R[FreePlace] = Push(s, f)
      /\ \A j \in Places : j # i /\ j # FreePlace => R[j] = Q[j]
      /\ \A j \in Places : \A m \in 1 .. Len(Q[j]) : j # i \/ m # k => Q[j][m] # s
  BY <1>0, <1>1, FreedLists
<1>3. /\ \A j \in Places : hd[j] = After(Q[j], 0) /\ Follows(x.store, Q[j])
      /\ \A j \in Places : \A m \in 1 .. Len(Q[j]) : Q[j][m] \in Slots
  BY <1>1, SpreadCovers DEF Links
<1>4. /\ y.store[s].next = x.free
      /\ \A t \in Slots : t # s =>
            y.store[t].next = IF k > 1 /\ t = q[k - 1] THEN After(q, k) ELSE x.store[t].next
  BY <1>0 DEF FreedTo, ReleasedTo, UnlinkedTo
<1>5. Follows(y.store, R[i]) /\ hd2[i] = After(R[i], 0)
  <2>1. \A m \in 1 .. Len(q) :
          m # k => y.store[q[m]].next = IF m = k - 1 THEN After(q, k) ELSE x.store[q[m]].next
    <3> SUFFICES ASSUME NEW m \in 1 .. Len(q), m # k
                 PROVE  y.store[q[m]].next = IF m = k - 1 THEN After(q, k) ELSE x.store[q[m]].next
      OBVIOUS
    <3>1. q[m] \in Slots /\ q[m] # s
      BY <1>0, <1>2
    <3>2. k > 1 /\ q[m] = q[k - 1] <=> m = k - 1
      <4>1. ASSUME k > 1, q[m] = q[k - 1] PROVE m = k - 1
        <5>1. PICK n : n = k - 1
          OBVIOUS
        <5>2. n \in 1 .. Len(Q[i]) /\ m \in 1 .. Len(Q[i]) /\ Q[i][m] = Q[i][n]
          BY <1>0, <1>2, <4>1, <5>1
        <5> QED
          BY <1>1, <1>2, <5>1, <5>2, SpreadDistinct
      <4> QED
        BY <1>2, <4>1
    <3> QED
      BY <1>4, <3>1, <3>2
  <2>2. Follows(x.store, q)
    BY <1>0, <1>2, <1>3
  <2>3. Follows(y.store, CutAt(q, k))
    BY <1>2, <2>1, <2>2, FollowsCut
  <2>4. After(CutAt(q, k), 0) = IF k > 1 THEN After(q, 0) ELSE After(q, 1)
    BY <1>2, EndsMove
  <2>5. hd2[i] = IF k > 1 THEN After(q, 0) ELSE After(q, 1)
    BY <1>0, <1>2, <1>3 DEF HeadsFreed
  <2> QED
    BY <1>2, <2>3, <2>4, <2>5
<1>6. Follows(y.store, R[FreePlace]) /\ hd2[FreePlace] = After(R[FreePlace], 0)
  <2>1. \A m \in 1 .. Len(f) : y.store[f[m]].next = x.store[f[m]].next
    <3> TAKE m \in 1 .. Len(f)
    <3>1. f[m] \in Slots /\ f[m] # s
      BY <1>0, <1>2
    <3>2. ~(k > 1 /\ f[m] = q[k - 1])
      <4> SUFFICES ASSUME k > 1, f[m] = q[k - 1] PROVE FALSE
        OBVIOUS
      <4>1. PICK n : n = k - 1
        OBVIOUS
      <4>2. n \in 1 .. Len(Q[i]) /\ m \in 1 .. Len(Q[FreePlace]) /\ Q[FreePlace][m] = Q[i][n]
        BY <1>0, <1>2, <4>1
      <4> QED
        BY <1>1, <1>2, <4>2, SpreadDistinct
    <3> QED
      BY <1>4, <3>1, <3>2
  <2>2. Follows(x.store, f) /\ y.store[s].next = After(f, 0)
    BY <1>0, <1>2, <1>3, <1>4
  <2>3. Follows(y.store, Push(s, f)) /\ After(Push(s, f), 0) = s
    <3>1. PICK st, st2 : st = x.store /\ st2 = y.store
      OBVIOUS
    <3>2. Follows(st, f) /\ st2[s].next = After(f, 0)
      BY <2>2, <3>1
    <3>3. \A m \in 1 .. Len(f) : st2[f[m]].next = st[f[m]].next
      BY <2>1, <3>1
    <3>4. f \in Seq(Slots) /\ s \in Slots
      BY <1>2
    <3>5. Follows(st2, Push(s, f)) /\ After(Push(s, f), 0) = s
      BY <3>2, <3>3, <3>4, FollowsPush, Zenon
    <3> QED
      BY <3>1, <3>5
  <2>4. hd2[FreePlace] = s
    BY <1>0 DEF HeadsFreed
  <2> QED
    BY <1>2, <2>3, <2>4
<1>7. ASSUME NEW j \in Places, j # i, j # FreePlace
      PROVE  Follows(y.store, R[j]) /\ hd2[j] = After(R[j], 0)
  <2>1. \A m \in 1 .. Len(Q[j]) : y.store[Q[j][m]].next = x.store[Q[j][m]].next
    <3> TAKE m \in 1 .. Len(Q[j])
    <3>1. Q[j][m] \in Slots /\ Q[j][m] # s
      BY <1>2, <1>3, <1>7
    <3>2. ~(k > 1 /\ Q[j][m] = q[k - 1])
      <4> SUFFICES ASSUME k > 1, Q[j][m] = q[k - 1] PROVE FALSE
        OBVIOUS
      <4>1. PICK n : n = k - 1
        OBVIOUS
      <4>2. n \in 1 .. Len(Q[i]) /\ Q[j][m] = Q[i][n]
        BY <1>0, <1>2, <4>1
      <4> QED
        BY <1>1, <1>2, <1>7, <4>2, SpreadDistinct
    <3> QED
      BY <1>4, <3>1, <3>2
  <2>2. Follows(y.store, Q[j])
    BY <1>3, <2>1, FollowsSame
  <2>3. hd2[j] = hd[j]
    BY <1>7, Parameters DEF HeadsFreed
  <2> QED
    BY <1>2, <1>3, <1>7, <2>2, <2>3
<1>8. \A j \in Places : hd2[j] = After(R[j], 0) /\ Follows(y.store, R[j])
  BY <1>5, <1>6, <1>7
<1> QED
  BY <1>0, <1>8 DEF Links

\* Tails and back links after a release.
LEMMA FreeKeepsBackLinks ==
    ASSUME NEW x, NEW hd, NEW Q, Rep(x, hd, Q), NEW i \in Ix, NEW k \in 1 .. Len(Q[i]),
           NEW y, FreedTo(x, y, Q, i, k)
    PROVE  BackLinks(y, Freed(Q, i, k))
<1>0. PICK q, s, R : q = Q[i] /\ s = q[k] /\ R = Freed(Q, i, k)
  OBVIOUS
<1>1. Spread(Q) /\ BackLinks(x, Q)
  BY DEF Rep
<1>2. /\ i \in Places /\ i # FreePlace
      /\ q \in Seq(Slots) /\ s \in Slots /\ k \in 1 .. Len(q)
      /\ R[i] = CutAt(q, k)
      /\ \A j \in Places : j # i /\ j # FreePlace => R[j] = Q[j]
      /\ \A j \in Places : \A m \in 1 .. Len(Q[j]) : j # i \/ m # k => Q[j][m] # s
  BY <1>0, <1>1, FreedLists
<1>3. /\ \A j \in Ix : x.level[j].tail = Before(Q[j], Len(Q[j]) + 1) /\ Returns(x.store, Q[j])
      /\ \A j \in Places : \A m \in 1 .. Len(Q[j]) : Q[j][m] \in Slots
      /\ \A j \in Places : Len(Q[j]) \in Nat
      /\ \A j \in Ix : j \in Places /\ j # FreePlace
  BY <1>1, SpreadCovers, Parameters DEF BackLinks
<1>4. /\ \A t \in Slots : t # s /\ ~(k < Len(q) /\ t = q[k + 1]) =>
            y.store[t].prev = x.store[t].prev
      /\ 1 < k /\ k < Len(q) => y.store[q[k + 1]].prev = q[k - 1]
      /\ \A j \in Ix : j # i => y.level[j].tail = x.level[j].tail
      /\ y.level[i].tail = IF k < Len(q) THEN x.level[i].tail ELSE Before(q, k)
  BY <1>0 DEF FreedTo, UnlinkedTo, LeftTo
<1>5. \A j \in Places : \A m \in 1 .. Len(Q[j]) :
        k < Len(q) /\ Q[j][m] = q[k + 1] => j = i /\ m = k + 1
  <2> SUFFICES ASSUME NEW j \in Places, NEW m \in 1 .. Len(Q[j]), k < Len(q), Q[j][m] = q[k + 1]
               PROVE  j = i /\ m = k + 1
    OBVIOUS
  <2>1. PICK n : n = k + 1
    OBVIOUS
  <2>2. n \in 1 .. Len(Q[i]) /\ Q[j][m] = Q[i][n]
    BY <1>0, <1>2, <2>1
  <2> QED
    BY <1>1, <1>2, <2>1, <2>2, SpreadDistinct
<1>6. Returns(y.store, R[i]) /\ y.level[i].tail = Before(R[i], Len(R[i]) + 1)
  <2>1. \A m \in 1 .. Len(q) : m # k /\ m # k + 1 => y.store[q[m]].prev = x.store[q[m]].prev
    <3> SUFFICES ASSUME NEW m \in 1 .. Len(q), m # k, m # k + 1
                 PROVE  y.store[q[m]].prev = x.store[q[m]].prev
      OBVIOUS
    <3>1. q[m] \in Slots /\ q[m] # s /\ ~(k < Len(q) /\ q[m] = q[k + 1])
      BY <1>0, <1>2, <1>3, <1>5
    <3> QED
      BY <1>4, <3>1
  <2>2. Returns(x.store, q) /\ x.level[i].tail = Before(q, Len(q) + 1)
    BY <1>0, <1>3
  <2>3. Returns(y.store, CutAt(q, k))
    BY <1>2, <1>4, <2>1, <2>2, ReturnsCut
  <2>4. Before(CutAt(q, k), Len(CutAt(q, k)) + 1) =
          IF k < Len(q) THEN Before(q, Len(q) + 1) ELSE Before(q, k)
    BY <1>2, EndsMove
  <2>5. y.level[i].tail = Before(CutAt(q, k), Len(CutAt(q, k)) + 1)
    BY <1>4, <2>2, <2>4
  <2> QED
    BY <1>2, <2>3, <2>5
<1>7. ASSUME NEW j \in Ix, j # i
      PROVE  Returns(y.store, R[j]) /\ y.level[j].tail = Before(R[j], Len(R[j]) + 1)
  <2>1. \A m \in 2 .. Len(Q[j]) : y.store[Q[j][m]].prev = x.store[Q[j][m]].prev
    <3> TAKE m \in 2 .. Len(Q[j])
    <3>1. j \in Places /\ m \in 1 .. Len(Q[j])
      BY <1>3
    <3>2. Q[j][m] \in Slots /\ Q[j][m] # s /\ ~(k < Len(q) /\ Q[j][m] = q[k + 1])
      BY <1>2, <1>3, <1>5, <1>7, <3>1
    <3> QED
      BY <1>4, <3>2
  <2>2. Returns(y.store, Q[j])
    BY <1>3, <2>1, ReturnsSame
  <2>3. R[j] = Q[j]
    BY <1>2, <1>3, <1>7
  <2> QED
    BY <1>3, <1>4, <1>7, <2>2, <2>3
<1>8. \A j \in Ix : y.level[j].tail = Before(R[j], Len(R[j]) + 1) /\ Returns(y.store, R[j])
  BY <1>6, <1>7
<1> QED
  BY <1>0, <1>8 DEF BackLinks

\* Aggregates after a release.
LEMMA FreeKeepsAggregates ==
    ASSUME NEW x, NEW hd, NEW Q, Rep(x, hd, Q), NEW i \in Ix, NEW k \in 1 .. Len(Q[i]),
           NEW y, BookTyped(y), FreedTo(x, y, Q, i, k)
    PROVE  Aggregates(y, Freed(Q, i, k))
<1>0. PICK q, s, R : q = Q[i] /\ s = q[k] /\ R = Freed(Q, i, k)
  OBVIOUS
<1>1. Spread(Q) /\ Aggregates(x, Q) /\ BookTyped(x)
  BY DEF Rep
<1>2. /\ i \in Places /\ i # FreePlace
      /\ q \in Seq(Slots) /\ s \in Slots /\ k \in 1 .. Len(q)
      /\ R[i] = CutAt(q, k)
      /\ \A j \in Places : j # i /\ j # FreePlace => R[j] = Q[j]
      /\ \A j \in Places : \A m \in 1 .. Len(Q[j]) : j # i \/ m # k => Q[j][m] # s
  BY <1>0, <1>1, FreedLists
<1>3. /\ \A j \in Places : Q[j] \in Seq(Slots)
      /\ \A j \in Places : \A m \in 1 .. Len(Q[j]) : Q[j][m] \in Slots
      /\ \A j \in Ix : j \in Places /\ j # FreePlace
  BY <1>1, SpreadCovers, Parameters
<1>4. Sized(x) /\ Sized(y)
  BY <1>1, TypedIsSized
<1>5. /\ \A t \in Slots : t # s => y.store[t].qty = x.store[t].qty
      /\ \A j \in Ix : j # i => y.level[j].qty = x.level[j].qty
      /\ y.level[i].qty = x.level[i].qty - x.store[s].qty
  BY <1>0 DEF FreedTo, ReleasedTo, LeftTo, SameOrder
<1> SUFFICES ASSUME NEW j \in Ix PROVE y.level[j].qty = Total(y, R[j])
  BY <1>0 DEF Aggregates
<1>6. x.level[j].qty = Total(x, Q[j])
  BY <1>1 DEF Aggregates
<1>7. CASE j = i
  <2>1. \A m \in 1 .. Len(q) : m # k => y.store[q[m]].qty = x.store[q[m]].qty
    BY <1>0, <1>2, <1>3, <1>5
  <2>2. Total(y, CutAt(q, k)) = Total(x, q) - x.store[q[k]].qty
    BY <1>2, <1>4, <2>1, TotalCut
  <2> QED
    BY <1>0, <1>2, <1>5, <1>6, <1>7, <2>2
<1>8. CASE j # i
  <2>1. \A m \in 1 .. Len(Q[j]) : y.store[Q[j][m]].qty = x.store[Q[j][m]].qty
    BY <1>2, <1>3, <1>5, <1>8
  <2>2. Total(y, Q[j]) = Total(x, Q[j])
    BY <1>3, <1>4, <2>1, TotalSame
  <2> QED
    BY <1>2, <1>3, <1>5, <1>6, <1>8, <2>2
<1> QED
  BY <1>7, <1>8

\* Marks and bests after a release.
LEMMA FreeKeepsLadder ==
    ASSUME NEW x, NEW hd, NEW Q, Rep(x, hd, Q), NEW i \in Ix, NEW k \in 1 .. Len(Q[i]),
           NEW y, BookTyped(y), FreedTo(x, y, Q, i, k)
    PROVE  Marked(y.bits, Freed(Q, i, k)) /\ Cached(y)
<1>0. PICK q, s, R, side : /\ q = Q[i] /\ s = q[k] /\ R = Freed(Q, i, k)
                           /\ side = x.store[s].side
  OBVIOUS
<1>1. /\ Spread(Q) /\ Marked(x.bits, Q) /\ Cached(x) /\ BookTyped(x)
      /\ Holds(x, i, s)
  <2>1. Resting(x, Q)
    BY DEF Rep
  <2>2. Holds(x, i, s)
    BY <1>0, <2>1 DEF Resting
  <2> QED
    BY <2>2 DEF Rep
<1>2. /\ i \in Places /\ i # FreePlace
      /\ q \in Seq(Slots) /\ s \in Slots /\ k \in 1 .. Len(q)
      /\ R[i] = CutAt(q, k)
      /\ \A j \in Places : j # i /\ j # FreePlace => R[j] = Q[j]
  BY <1>0, <1>1, FreedLists
<1>3. \A j \in Ix : j # i => R[j] = Q[j]
  BY <1>2, Parameters
<1>4. Len(q) \in Nat /\ Len(q) # 0 /\ q # <<>> /\ (R[i] # <<>> <=> Len(q) # 1)
  <2>1. CutAt(q, k) \in Seq(Slots) /\ Len(CutAt(q, k)) = Len(q) - 1
    BY <1>2, CutAtFacts
  <2> QED
    BY <1>2, <2>1
<1>5. /\ \A sd \in Sides : x.bits[sd] \in SUBSET Ix
      /\ side \in Sides /\ i \in x.bits[side]
      /\ \A sd \in Sides : x.best[sd] = BestOf(sd, x.bits[sd])
      /\ \A sd \in Sides : y.bits[sd] \in SUBSET Ix
  BY <1>0, <1>1 DEF BookTyped, Holds, Cached
<1>6. CASE Len(q) = 1
  <2>1. RetiredTo(x, y, side, i)
    BY <1>0, <1>6 DEF FreedTo, LeftTo
  <2>2. \A sd \in Sides : \A j : j \in y.bits[sd] <=> j \in x.bits[sd] /\ ~(sd = side /\ j = i)
    BY <2>1 DEF RetiredTo
  <2>3. \A a \in x.bits["Buy"], c \in x.bits["Sell"] : a < c
    BY <1>1 DEF Marked
  <2>4. \A sd \in Sides : i \notin y.bits[sd]
    <3>1. \A sd \in Sides : sd # side => i \notin x.bits[sd]
      BY <1>5, <2>3, IxFacts DEF Sides
    <3> QED
      BY <2>2, <3>1
  <2>5. \A j \in Ix : j # i => \A sd \in Sides : j \in y.bits[sd] <=> j \in x.bits[sd]
    BY <2>2
  <2>6. \A j \in Ix : Q[j] # <<>> <=> (j \in x.bits["Buy"] \/ j \in x.bits["Sell"])
    BY <1>1 DEF Marked
  <2>7. \A j \in Ix : R[j] # <<>> <=> (j \in y.bits["Buy"] \/ j \in y.bits["Sell"])
    <3> TAKE j \in Ix
    <3>1. "Buy" \in Sides /\ "Sell" \in Sides
      BY DEF Sides
    <3>2. CASE j = i
      BY <1>4, <1>6, <2>4, <3>1, <3>2
    <3>3. CASE j # i
      BY <1>3, <2>5, <2>6, <3>1, <3>3
    <3> QED
      BY <3>2, <3>3
  <2>8. \A a \in y.bits["Buy"], c \in y.bits["Sell"] : a < c
    BY <2>2, <2>3 DEF Sides
  <2>9. \A sd \in Sides : y.best[sd] = BestOf(sd, y.bits[sd])
    <3> TAKE sd \in Sides
    <3>1. y.best[sd] = IF sd = side /\ i = x.best[sd] THEN NextBest(sd, y.bits[sd], i)
                                                      ELSE x.best[sd]
      BY <2>1 DEF RetiredTo
    <3>2. CASE sd = side
      <4>1. PICK set, rest : set = x.bits[sd] /\ rest = y.bits[sd]
        OBVIOUS
      <4>2. set \in SUBSET Ix /\ i \in set /\ \A j : j \in rest <=> j \in set /\ j # i
        BY <1>5, <2>2, <3>2, <4>1
      <4>3. BestOf(sd, rest) =
              IF i = BestOf(sd, set) THEN NextBest(sd, rest, i) ELSE BestOf(sd, set)
        BY <4>2, BestRetires
      <4> QED
        BY <1>5, <3>1, <3>2, <4>1, <4>3
    <3>3. CASE sd # side
      <4>1. y.bits[sd] = x.bits[sd]
        BY <2>2, <3>3
      <4> QED
        BY <1>5, <3>1, <3>3, <4>1
    <3> QED
      BY <3>2, <3>3
  <2> QED
    BY <1>0, <2>7, <2>8, <2>9 DEF Marked, Cached
<1>7. CASE Len(q) # 1
  <2>1. y.bits = x.bits /\ y.best = x.best
    BY <1>0, <1>7 DEF FreedTo, LeftTo
  <2>2. \A j \in Ix : R[j] # <<>> <=> Q[j] # <<>>
    BY <1>0, <1>3, <1>4, <1>7
  <2> QED
    BY <1>0, <1>1, <2>1, <2>2 DEF Marked, Cached
<1> QED
  BY <1>6, <1>7

\* Orders and index after a release.
LEMMA FreeKeepsOrders ==
    ASSUME NEW x, NEW hd, NEW Q, Rep(x, hd, Q), NEW i \in Ix, NEW k \in 1 .. Len(Q[i]),
           NEW y, BookTyped(y), FreedTo(x, y, Q, i, k)
    PROVE  Resting(y, Freed(Q, i, k)) /\ Indexed(y, Freed(Q, i, k)) /\ Counted(y)
<1>0. PICK q, f, s, R, gone : /\ q = Q[i] /\ f = Q[FreePlace] /\ s = q[k] /\ R = Freed(Q, i, k)
                              /\ gone = x.store[s].id
  OBVIOUS
<1>1. /\ Spread(Q) /\ Resting(x, Q) /\ Indexed(x, Q) /\ Counted(x) /\ BookTyped(x)
      /\ Marked(x.bits, Q)
  BY DEF Rep
<1>2. /\ i \in Places /\ FreePlace \in Places /\ i # FreePlace
      /\ q \in Seq(Slots) /\ f \in Seq(Slots) /\ s \in Slots /\ k \in 1 .. Len(q)
      /\ R[i] = CutAt(q, k) /\ R[FreePlace] = Push(s, f)
      /\ \A j \in Places : j # i /\ j # FreePlace => R[j] = Q[j]
      /\ \A j \in Places : \A m \in 1 .. Len(Q[j]) : j # i \/ m # k => Q[j][m] # s
  BY <1>0, <1>1, FreedLists
<1>3. /\ \A j \in Places : \A m \in 1 .. Len(Q[j]) : Q[j][m] \in Slots
      /\ \A j \in Ix : j \in Places /\ j # FreePlace
      /\ Holds(x, i, s)
  <2>1. Holds(x, i, s)
    BY <1>0, <1>1 DEF Resting
  <2> QED
    BY <1>1, <2>1, SpreadCovers, Parameters
<1>4. ReleasedTo(x, y, s)
  BY <1>0 DEF FreedTo
<1>5. /\ \A id : id \in DOMAIN y.ids <=> id \in DOMAIN x.ids /\ id # gone
      /\ \A id \in DOMAIN y.ids : y.ids[id] = x.ids[id]
      /\ y.live = x.live - 1
      /\ \A t \in Slots : t # s => SameOrder(x.store[t], y.store[t])
  BY <1>0, <1>4 DEF ReleasedTo
<1>6. gone \in DOMAIN x.ids /\ x.ids[gone] = s
  BY <1>0, <1>3 DEF Holds
<1>7. \A j \in Ix : \A m \in 1 .. Len(R[j]) :
        \E n \in 1 .. Len(Q[j]) : R[j][m] = Q[j][n] /\ Q[j][n] # s
  <2> TAKE j \in Ix
  <2> TAKE m \in 1 .. Len(R[j])
  <2>1. CASE j = i
    <3>1. /\ Len(R[i]) = Len(q) - 1 /\ Len(q) \in Nat
          /\ \A c \in 1 .. Len(q) - 1 : R[i][c] = IF c < k THEN q[c] ELSE q[c + 1]
      <4>1. /\ Len(CutAt(q, k)) = Len(q) - 1
            /\ \A c \in 1 .. Len(q) - 1 : CutAt(q, k)[c] = IF c < k THEN q[c] ELSE q[c + 1]
        BY <1>2, CutAtFacts
      <4> QED
        BY <1>2, <4>1
    <3>2. PICK n : n = IF m < k THEN m ELSE m + 1
      OBVIOUS
    <3>3. n \in 1 .. Len(q) /\ n # k /\ R[i][m] = q[n]
      BY <1>2, <2>1, <3>1, <3>2
    <3> QED
      BY <1>0, <1>2, <2>1, <3>3
  <2>2. CASE j # i
    BY <1>2, <1>3, <2>2
  <2> QED
    BY <2>1, <2>2
<1>8. Resting(y, R)
  <2> SUFFICES ASSUME NEW j \in Ix, NEW m \in 1 .. Len(R[j]) PROVE Holds(y, j, R[j][m])
    BY DEF Resting
  <2>1. PICK n \in 1 .. Len(Q[j]) : R[j][m] = Q[j][n] /\ Q[j][n] # s
    BY <1>7
  <2>2. PICK t : t = Q[j][n]
    OBVIOUS
  <2>3. Holds(x, j, t) /\ t \in Slots /\ t # s
    BY <1>1, <1>3, <2>1, <2>2 DEF Resting
  <2>4. SameOrder(x.store[t], y.store[t])
    BY <1>5, <2>3
  <2>5. x.store[t].id # gone
    BY <1>6, <2>3 DEF Holds
  <2>6. y.store[t].id \in DOMAIN y.ids /\ y.ids[y.store[t].id] = t
    BY <1>5, <2>3, <2>4, <2>5 DEF Holds, SameOrder
  <2>7. R[j] # <<>> /\ j \in x.bits[y.store[t].side] /\ y.store[t].side \in Sides
    BY <2>3, <2>4 DEF Holds, SameOrder
  <2>8. j \in y.bits[y.store[t].side]
    <3>1. CASE Len(q) = 1
      <4>1. RetiredTo(x, y, x.store[s].side, i)
        BY <1>0, <3>1 DEF FreedTo, LeftTo
      <4>2. j # i
        <5>1. j = i => n = 1 /\ k = 1
          BY <1>0, <1>2, <3>1
        <5> QED
          BY <1>0, <2>1, <5>1
      <4> QED
        BY <2>7, <4>1, <4>2 DEF RetiredTo
    <3>2. CASE Len(q) # 1
      BY <1>0, <2>7, <3>2 DEF FreedTo, LeftTo
    <3> QED
      BY <3>1, <3>2
  <2>9. Holds(y, j, t)
    BY <2>3, <2>4, <2>6, <2>7, <2>8 DEF Holds, SameOrder
  <2> QED
    BY <2>1, <2>2, <2>9
<1>9. Indexed(y, R)
  <2> SUFFICES ASSUME NEW id \in DOMAIN y.ids
               PROVE  /\ y.store[y.ids[id]].id = id
                      /\ \A m \in 1 .. Len(R[FreePlace]) : y.ids[id] # R[FreePlace][m]
    BY DEF Indexed
  <2>1. id \in DOMAIN x.ids /\ id # gone /\ y.ids[id] = x.ids[id]
    BY <1>5
  <2>2. /\ x.store[x.ids[id]].id = id
        /\ \A m \in 1 .. Len(f) : x.ids[id] # f[m]
    BY <1>0, <1>1, <2>1 DEF Indexed
  <2>3. x.ids[id] # s /\ x.ids[id] \in Slots
    <3>1. x.ids[id] \in Slots
      BY <1>1, <2>1, TypedIsSized
    <3> QED
      BY <1>0, <2>1, <2>2, <3>1
  <2>4. y.store[y.ids[id]].id = id
    BY <1>5, <2>1, <2>2, <2>3 DEF SameOrder
  <2>5. /\ Len(R[FreePlace]) = Len(f) + 1 /\ Len(f) \in Nat /\ R[FreePlace][1] = s
        /\ \A m \in 2 .. Len(f) + 1 : R[FreePlace][m] = f[m - 1]
    <3>1. /\ Len(Push(s, f)) = Len(f) + 1 /\ Push(s, f)[1] = s
          /\ \A m \in 2 .. Len(f) + 1 : Push(s, f)[m] = f[m - 1]
      BY <1>2, PushFacts
    <3> QED
      BY <1>2, <3>1
  <2>6. \A m \in 1 .. Len(R[FreePlace]) : y.ids[id] # R[FreePlace][m]
    <3> TAKE m \in 1 .. Len(R[FreePlace])
    <3>1. CASE m = 1
      BY <2>1, <2>3, <2>5, <3>1
    <3>2. CASE m # 1
      <4>1. m - 1 \in 1 .. Len(f) /\ m \in 2 .. Len(f) + 1
        BY <2>5, <3>2
      <4> QED
        BY <2>1, <2>2, <2>5, <4>1
    <3> QED
      BY <3>1, <3>2
  <2> QED
    BY <2>4, <2>6
<1>10. Counted(y)
  <2>1. PICK D, E : D = DOMAIN x.ids /\ E = DOMAIN y.ids
    OBVIOUS
  <2>2. E = D \ {gone} /\ gone \in D /\ IsFiniteSet(D) /\ x.live = Cardinality(D)
    BY <1>1, <1>5, <1>6, <2>1 DEF Counted
  <2>3. IsFiniteSet(D \ {gone}) /\ Cardinality(D \ {gone}) = Cardinality(D) - 1
    BY <2>2, FS_RemoveElement
  <2> QED
    BY <1>5, <2>1, <2>2, <2>3 DEF Counted
<1> QED
  BY <1>0, <1>8, <1>9, <1>10

\* A release keeps the representation.
LEMMA FreeKeepsRep ==
    ASSUME NEW x, NEW hd, NEW Q, Rep(x, hd, Q), NEW i \in Ix, NEW k \in 1 .. Len(Q[i]),
           NEW y, BookTyped(y), FreedTo(x, y, Q, i, k), NEW hd2, HeadsFreed(hd, hd2, Q, i, k),
           hd[FreePlace] = x.free
    PROVE  Rep(y, hd2, Freed(Q, i, k))
<1>1. Spread(Q)
  BY DEF Rep
<1>2. Spread(Freed(Q, i, k))
  BY <1>1, FreedSpread
<1>3. Links(y, hd2, Freed(Q, i, k))
  BY FreeKeepsLinks
<1>4. BackLinks(y, Freed(Q, i, k))
  BY FreeKeepsBackLinks
<1>5. Aggregates(y, Freed(Q, i, k))
  BY FreeKeepsAggregates
<1>6. Marked(y.bits, Freed(Q, i, k)) /\ Cached(y)
  BY FreeKeepsLadder
<1>7. Resting(y, Freed(Q, i, k)) /\ Indexed(y, Freed(Q, i, k)) /\ Counted(y)
  BY FreeKeepsOrders
<1> QED
  BY <1>2, <1>3, <1>4, <1>5, <1>6, <1>7 DEF Rep

-----------------------------------------------------------------------------
(* An order comes to rest. *)

\* Level i of a side is marked.
MarkedTo(x, y, side, i) ==
    \A sd \in Sides :
       /\ \A j : j \in y.bits[sd] <=> j \in x.bits[sd] \/ (sd = side /\ j = i)
       /\ y.best[sd] = IF sd = side /\ Better(side, i, x.best[sd]) THEN i ELSE x.best[sd]

\* The first free slot s holds the order id, and the index knows it.
FilledTo(x, y, s, i, id, side, n) ==
    /\ \A d : d \in DOMAIN y.ids <=> d \in DOMAIN x.ids \/ d = id
    /\ \A d \in DOMAIN x.ids : d # id => y.ids[d] = x.ids[d]
    /\ y.ids[id] = s
    /\ y.live = x.live + 1
    /\ y.free = x.store[s].next
    /\ y.store[s].id = id /\ y.store[s].qty = n /\ y.store[s].level = i
    /\ y.store[s].side = side /\ y.store[s].owner \in Owners
    /\ \A t \in Slots : t # s => SameOrder(x.store[t], y.store[t])

\* Slot s is at the back of level i.
LinkedTo(x, y, s, i, side, n) ==
    /\ y.store[s].prev = x.level[i].tail
    /\ y.store[s].next = Nil
    /\ \A t \in Slots : t # s =>
          /\ y.store[t].next = IF t = x.level[i].tail THEN s ELSE x.store[t].next
          /\ y.store[t].prev = x.store[t].prev
    /\ \A j \in Ix : j # i => y.level[j].tail = x.level[j].tail /\ y.level[j].qty = x.level[j].qty
    /\ y.level[i].qty = x.level[i].qty + n
    /\ y.level[i].tail = s
    /\ IF x.level[i].tail = Nil THEN MarkedTo(x, y, side, i)
                                ELSE y.bits = x.bits /\ y.best = x.best

RestedTo(x, y, i, id, side, n) ==
    FilledTo(x, y, x.free, i, id, side, n) /\ LinkedTo(x, y, x.free, i, side, n)

\* The heads after it.
HeadsRested(x, hd, hd2, i) ==
    /\ hd2[FreePlace] = x.store[x.free].next
    /\ hd2[i] = IF x.level[i].tail = Nil THEN x.free ELSE hd[i]
    /\ \A j \in Ix : j # i => hd2[j] = hd[j]

\* No order of the other side is at level i or crosses it.
Clear(x, side, i) ==
    \A j \in x.bits[Opposite(side)] : IF side = "Buy" THEN i < j ELSE j < i

\* The lists after an order has come to rest, one by one.
LEMMA RestedLists ==
    ASSUME NEW x, NEW hd, NEW Q, Rep(x, hd, Q), NEW i \in Ix, hd[FreePlace] = x.free,
           x.free # Nil
    PROVE  /\ i \in Places /\ FreePlace \in Places /\ i # FreePlace
           /\ Q[i] \in Seq(Slots) /\ Q[FreePlace] \in Seq(Slots)
           /\ Len(Q[i]) \in Nat /\ Len(Q[FreePlace]) \in Nat
           /\ Q[FreePlace] # <<>> /\ 1 \in 1 .. Len(Q[FreePlace])
           /\ x.free = Q[FreePlace][1] /\ x.free \in Slots
           /\ Rested(Q, i)[i] = Append(Q[i], x.free)
           /\ Rested(Q, i)[FreePlace] = CutAt(Q[FreePlace], 1)
           /\ \A j \in Places : j # i /\ j # FreePlace => Rested(Q, i)[j] = Q[j]
           /\ \A j \in Places : \A m \in 1 .. Len(Q[j]) :
                 j # FreePlace \/ m # 1 => Q[j][m] # x.free
<1>1. i \in Places /\ FreePlace \in Places /\ i # FreePlace
  BY Parameters
<1>2. Spread(Q) /\ Links(x, hd, Q)
  BY DEF Rep
<1>3. Q[i] \in Seq(Slots) /\ Q[FreePlace] \in Seq(Slots)
      /\ Len(Q[i]) \in Nat /\ Len(Q[FreePlace]) \in Nat
  BY <1>1, <1>2, SpreadCovers
<1>4. x.free = After(Q[FreePlace], 0)
  BY <1>1, <1>2 DEF Links
<1>5. 0 < Len(Q[FreePlace]) /\ x.free = Q[FreePlace][1]
  BY <1>3, <1>4 DEF After
<1>6. Q[FreePlace] # <<>> /\ 1 \in 1 .. Len(Q[FreePlace])
  BY <1>3, <1>5
<1>7. x.free \in Slots
  BY <1>1, <1>2, <1>5, <1>6, SpreadCovers
<1>8. \A j \in Places : \A m \in 1 .. Len(Q[j]) : j # FreePlace \/ m # 1 => Q[j][m] # x.free
  BY <1>1, <1>2, <1>5, <1>6, SpreadDistinct
<1> QED
  BY <1>1, <1>3, <1>5, <1>6, <1>7, <1>8 DEF Rested

\* The tail of a level is its last slot.
LEMMA TailFacts ==
    ASSUME NEW x, NEW hd, NEW Q, Rep(x, hd, Q), NEW i \in Ix
    PROVE  /\ x.level[i].tail = Nil <=> Q[i] = <<>>
           /\ x.level[i].tail = Before(Q[i], Len(Q[i]) + 1)
           /\ \A m \in 1 .. Len(Q[i]) : Q[i][m] = x.level[i].tail <=> m = Len(Q[i])
           /\ \A j \in Places : \A m \in 1 .. Len(Q[j]) : Q[j][m] = x.level[i].tail => j = i
<1>1. Spread(Q) /\ BackLinks(x, Q) /\ i \in Places
  BY Parameters DEF Rep
<1>2. PICK q, tail : q = Q[i] /\ tail = x.level[i].tail
  OBVIOUS
<1>3. q \in Seq(Slots) /\ Len(q) \in Nat /\ \A m \in 1 .. Len(q) : q[m] \in Slots
  BY <1>1, <1>2, SpreadCovers
<1>4. tail = Before(q, Len(q) + 1)
  BY <1>1, <1>2 DEF BackLinks
<1>5. Nil \notin Slots /\ \A j \in Places : \A m \in 1 .. Len(Q[j]) : Q[j][m] \in Slots
  BY <1>1, Parameters, SpreadCovers
<1>6. CASE q = <<>>
  <2>1. Len(q) = 0 /\ tail = Nil
    BY <1>3, <1>4, <1>6 DEF Before
  <2> QED
    BY <1>2, <1>4, <1>5, <1>6, <2>1
<1>7. CASE q # <<>>
  <2>1. Len(q) # 0 /\ Len(q) \in 1 .. Len(q)
    BY <1>3, <1>7
  <2>2. tail = q[Len(q)]
    BY <1>3, <1>4, <2>1 DEF Before
  <2>3. tail # Nil
    BY <1>3, <1>5, <2>1, <2>2
  <2>4. PICK n : n = Len(q)
    OBVIOUS
  <2>5. n \in 1 .. Len(Q[i]) /\ tail = Q[i][n]
    BY <1>2, <2>1, <2>2, <2>4
  <2>6. \A j \in Places : \A m \in 1 .. Len(Q[j]) : Q[j][m] = tail => j = i /\ m = n
    BY <1>1, <2>5, SpreadDistinct
  <2> QED
    BY <1>1, <1>2, <1>4, <1>7, <2>3, <2>4, <2>5, <2>6
<1> QED
  BY <1>6, <1>7

\* Heads and next links once an order rests.
LEMMA RestKeepsLinks ==
    ASSUME NEW x, NEW hd, NEW Q, Rep(x, hd, Q), NEW i \in Ix, hd[FreePlace] = x.free,
           x.free # Nil, NEW y, NEW id, NEW side, NEW n, RestedTo(x, y, i, id, side, n),
           NEW hd2, HeadsRested(x, hd, hd2, i)
    PROVE  Links(y, hd2, Rested(Q, i))
<1>0. PICK q, f, s, R, tail : /\ q = Q[i] /\ f = Q[FreePlace] /\ s = x.free
                              /\ R = Rested(Q, i) /\ tail = x.level[i].tail
  OBVIOUS
<1>1. Spread(Q) /\ Links(x, hd, Q)
  BY DEF Rep
<1>2. /\ i \in Places /\ FreePlace \in Places /\ i # FreePlace
      /\ q \in Seq(Slots) /\ f \in Seq(Slots) /\ Len(q) \in Nat /\ Len(f) \in Nat
      /\ 1 \in 1 .. Len(f) /\ s = f[1] /\ s \in Slots
      /\ R[i] = Append(q, s) /\ R[FreePlace] = CutAt(f, 1)
      /\ \A j \in Places : j # i /\ j # FreePlace => R[j] = Q[j]
      /\ \A j \in Places : \A m \in 1 .. Len(Q[j]) : j # FreePlace \/ m # 1 => Q[j][m] # s
  BY <1>0, RestedLists
<1>3. /\ \A j \in Places : hd[j] = After(Q[j], 0) /\ Follows(x.store, Q[j])
      /\ \A j \in Places : \A m \in 1 .. Len(Q[j]) : Q[j][m] \in Slots
  BY <1>1, SpreadCovers DEF Links
<1>4. /\ y.store[s].next = Nil
      /\ \A t \in Slots : t # s => y.store[t].next = IF t = tail THEN s ELSE x.store[t].next
  BY <1>0 DEF RestedTo, LinkedTo
<1>5. /\ tail = Nil <=> q = <<>>
      /\ \A m \in 1 .. Len(q) : q[m] = tail <=> m = Len(q)
      /\ \A j \in Places : \A m \in 1 .. Len(Q[j]) : Q[j][m] = tail => j = i
  BY <1>0, TailFacts
<1>6. Follows(y.store, R[i]) /\ hd2[i] = After(R[i], 0)
  <2>1. \A m \in 1 .. Len(q) : y.store[q[m]].next = IF m = Len(q) THEN s ELSE x.store[q[m]].next
    <3> TAKE m \in 1 .. Len(q)
    <3>1. q[m] \in Slots /\ q[m] # s
      BY <1>0, <1>2, <1>3
    <3> QED
      BY <1>4, <1>5, <3>1
  <2>2. Follows(x.store, q) /\ hd[i] = After(q, 0)
    BY <1>0, <1>2, <1>3
  <2>3. Follows(y.store, Append(q, s))
    <3>1. PICK st, st2 : st = x.store /\ st2 = y.store
      OBVIOUS
    <3>2. q \in Seq(Slots) /\ s \in Slots
      BY <1>2
    <3>3. /\ Follows(st, q) /\ st2[s].next = Nil
          /\ \A m \in 1 .. Len(q) : st2[q[m]].next = IF m = Len(q) THEN s ELSE st[q[m]].next
      BY <1>4, <2>1, <2>2, <3>1
    <3>4. Follows(st2, Append(q, s))
      BY <3>2, <3>3, FollowsAppend
    <3> QED
      BY <3>1, <3>4
  <2>4. hd2[i] = IF tail = Nil THEN s ELSE hd[i]
    BY <1>0 DEF HeadsRested
  <2>5. After(Append(q, s), 0) = IF q = <<>> THEN s ELSE After(q, 0)
    <3>1. Len(Append(q, s)) = Len(q) + 1 /\ 0 < Len(Append(q, s))
      BY <1>2
    <3>2. CASE q = <<>>
      BY <1>2, <3>1, <3>2 DEF After
    <3>3. CASE q # <<>>
      <4>1. 0 < Len(q) /\ Append(q, s)[1] = q[1]
        BY <1>2, <3>3
      <4> QED
        BY <3>1, <3>3, <4>1 DEF After
    <3> QED
      BY <3>2, <3>3
  <2> QED
    BY <1>2, <1>5, <2>2, <2>3, <2>4, <2>5
<1>7. Follows(y.store, R[FreePlace]) /\ hd2[FreePlace] = After(R[FreePlace], 0)
  <2>1. \A m \in 1 .. Len(f) :
          m # 1 => y.store[f[m]].next = IF m = 1 - 1 THEN After(f, 1) ELSE x.store[f[m]].next
    <3> SUFFICES ASSUME NEW m \in 1 .. Len(f), m # 1
                 PROVE  y.store[f[m]].next = x.store[f[m]].next
      BY <1>2
    <3>1. f[m] \in Slots /\ f[m] # s /\ f[m] # tail
      BY <1>0, <1>2, <1>3, <1>5
    <3> QED
      BY <1>4, <3>1
  <2>2. Follows(x.store, f)
    BY <1>0, <1>2, <1>3
  <2>3. Follows(y.store, CutAt(f, 1))
    BY <1>2, <2>1, <2>2, FollowsCut
  <2>4. After(CutAt(f, 1), 0) = After(f, 1)
    BY <1>2, EndsMove
  <2>5. x.store[s].next = After(f, 1)
    BY <1>2, <2>2 DEF Follows
  <2>6. hd2[FreePlace] = x.store[s].next
    BY <1>0 DEF HeadsRested
  <2> QED
    BY <1>2, <2>3, <2>4, <2>5, <2>6
<1>8. ASSUME NEW j \in Places, j # i, j # FreePlace
      PROVE  Follows(y.store, R[j]) /\ hd2[j] = After(R[j], 0)
  <2>1. \A m \in 1 .. Len(Q[j]) : y.store[Q[j][m]].next = x.store[Q[j][m]].next
    <3> TAKE m \in 1 .. Len(Q[j])
    <3>1. Q[j][m] \in Slots /\ Q[j][m] # s /\ Q[j][m] # tail
      BY <1>2, <1>3, <1>5, <1>8
    <3> QED
      BY <1>4, <3>1
  <2>2. Follows(y.store, Q[j])
    BY <1>3, <2>1, FollowsSame
  <2>3. hd2[j] = hd[j]
    BY <1>8, Parameters DEF HeadsRested
  <2> QED
    BY <1>2, <1>3, <1>8, <2>2, <2>3
<1>9. \A j \in Places : hd2[j] = After(R[j], 0) /\ Follows(y.store, R[j])
  BY <1>6, <1>7, <1>8
<1> QED
  BY <1>0, <1>9 DEF Links

\* Tails and back links once an order rests.
LEMMA RestKeepsBackLinks ==
    ASSUME NEW x, NEW hd, NEW Q, Rep(x, hd, Q), NEW i \in Ix, hd[FreePlace] = x.free,
           x.free # Nil, NEW y, NEW id, NEW side, NEW n, RestedTo(x, y, i, id, side, n)
    PROVE  BackLinks(y, Rested(Q, i))
<1>0. PICK q, s, R, tail : /\ q = Q[i] /\ s = x.free
                           /\ R = Rested(Q, i) /\ tail = x.level[i].tail
  OBVIOUS
<1>1. Spread(Q) /\ BackLinks(x, Q)
  BY DEF Rep
<1>2. /\ i \in Places /\ FreePlace \in Places /\ i # FreePlace
      /\ q \in Seq(Slots) /\ Len(q) \in Nat /\ s \in Slots
      /\ R[i] = Append(q, s)
      /\ \A j \in Places : j # i /\ j # FreePlace => R[j] = Q[j]
      /\ \A j \in Places : \A m \in 1 .. Len(Q[j]) : j # FreePlace \/ m # 1 => Q[j][m] # s
  BY <1>0, RestedLists
<1>3. /\ \A j \in Ix : x.level[j].tail = Before(Q[j], Len(Q[j]) + 1) /\ Returns(x.store, Q[j])
      /\ \A j \in Places : \A m \in 1 .. Len(Q[j]) : Q[j][m] \in Slots
      /\ \A j \in Places : Len(Q[j]) \in Nat
      /\ \A j \in Ix : j \in Places /\ j # FreePlace
  BY <1>1, SpreadCovers, Parameters DEF BackLinks
<1>4. /\ y.store[s].prev = tail
      /\ \A t \in Slots : t # s => y.store[t].prev = x.store[t].prev
      /\ \A j \in Ix : j # i => y.level[j].tail = x.level[j].tail
      /\ y.level[i].tail = s
  BY <1>0 DEF RestedTo, LinkedTo
<1>5. \A j \in Ix : \A m \in 1 .. Len(Q[j]) : y.store[Q[j][m]].prev = x.store[Q[j][m]].prev
  <2> TAKE j \in Ix
  <2> TAKE m \in 1 .. Len(Q[j])
  <2>1. Q[j][m] \in Slots /\ Q[j][m] # s
    BY <1>2, <1>3
  <2> QED
    BY <1>4, <2>1
<1>6. Returns(y.store, R[i]) /\ y.level[i].tail = Before(R[i], Len(R[i]) + 1)
  <2>1. \A m \in 1 .. Len(q) : y.store[q[m]].prev = x.store[q[m]].prev
    BY <1>0, <1>5
  <2>2. Returns(x.store, q) /\ tail = Before(q, Len(q) + 1)
    BY <1>0, <1>3
  <2>3. Returns(y.store, Append(q, s))
    BY <1>2, <1>4, <2>1, <2>2, ReturnsAppend
  <2>4. Before(Append(q, s), Len(Append(q, s)) + 1) = s
    <3>1. PICK r : r = Append(q, s)
      OBVIOUS
    <3>2. Len(r) = Len(q) + 1 /\ r[Len(q) + 1] = s
      BY <1>2, <3>1
    <3>3. Len(r) + 1 > 1 /\ (Len(r) + 1) - 1 = Len(q) + 1
      BY <1>2, <3>2
    <3> QED
      BY <3>1, <3>2, <3>3 DEF Before
  <2> QED
    BY <1>2, <1>4, <2>3, <2>4
<1>7. ASSUME NEW j \in Ix, j # i
      PROVE  Returns(y.store, R[j]) /\ y.level[j].tail = Before(R[j], Len(R[j]) + 1)
  <2>1. \A m \in 2 .. Len(Q[j]) : y.store[Q[j][m]].prev = x.store[Q[j][m]].prev
    <3>1. \A m \in 2 .. Len(Q[j]) : m \in 1 .. Len(Q[j])
      BY <1>3
    <3> QED
      BY <1>5, <3>1
  <2>2. Returns(y.store, Q[j])
    BY <1>3, <2>1, ReturnsSame
  <2>3. R[j] = Q[j]
    BY <1>2, <1>3, <1>7
  <2> QED
    BY <1>3, <1>4, <1>7, <2>2, <2>3
<1>8. \A j \in Ix : y.level[j].tail = Before(R[j], Len(R[j]) + 1) /\ Returns(y.store, R[j])
  BY <1>6, <1>7
<1> QED
  BY <1>0, <1>8 DEF BackLinks

\* Aggregates once an order rests.
LEMMA RestKeepsAggregates ==
    ASSUME NEW x, NEW hd, NEW Q, Rep(x, hd, Q), NEW i \in Ix, hd[FreePlace] = x.free,
           x.free # Nil, NEW y, BookTyped(y), NEW id, NEW side, NEW n,
           RestedTo(x, y, i, id, side, n)
    PROVE  Aggregates(y, Rested(Q, i))
<1>0. PICK q, s, R : q = Q[i] /\ s = x.free /\ R = Rested(Q, i)
  OBVIOUS
<1>1. Spread(Q) /\ Aggregates(x, Q) /\ BookTyped(x)
  BY DEF Rep
<1>2. /\ i \in Places /\ FreePlace \in Places /\ i # FreePlace
      /\ q \in Seq(Slots) /\ Len(q) \in Nat /\ s \in Slots
      /\ R[i] = Append(q, s)
      /\ \A j \in Places : j # i /\ j # FreePlace => R[j] = Q[j]
      /\ \A j \in Places : \A m \in 1 .. Len(Q[j]) : j # FreePlace \/ m # 1 => Q[j][m] # s
  BY <1>0, RestedLists
<1>3. /\ \A j \in Places : Q[j] \in Seq(Slots)
      /\ \A j \in Places : \A m \in 1 .. Len(Q[j]) : Q[j][m] \in Slots
      /\ \A j \in Ix : j \in Places /\ j # FreePlace
  BY <1>1, SpreadCovers, Parameters
<1>4. Sized(x) /\ Sized(y)
  BY <1>1, TypedIsSized
<1>5. /\ \A t \in Slots : t # s => y.store[t].qty = x.store[t].qty
      /\ y.store[s].qty = n
      /\ \A j \in Ix : j # i => y.level[j].qty = x.level[j].qty
      /\ y.level[i].qty = x.level[i].qty + n
  BY <1>0 DEF RestedTo, FilledTo, LinkedTo, SameOrder
<1>6. \A j \in Ix : \A m \in 1 .. Len(Q[j]) : y.store[Q[j][m]].qty = x.store[Q[j][m]].qty
  BY <1>2, <1>3, <1>5
<1> SUFFICES ASSUME NEW j \in Ix PROVE y.level[j].qty = Total(y, R[j])
  BY <1>0 DEF Aggregates
<1>7. x.level[j].qty = Total(x, Q[j])
  BY <1>1 DEF Aggregates
<1>8. CASE j = i
  <2>1. \A m \in 1 .. Len(q) : y.store[q[m]].qty = x.store[q[m]].qty
    BY <1>0, <1>6
  <2>2. Total(y, Append(q, s)) = Total(x, q) + y.store[s].qty
    BY <1>2, <1>4, <2>1, TotalAppend
  <2> QED
    BY <1>0, <1>2, <1>5, <1>7, <1>8, <2>2
<1>9. CASE j # i
  <2>1. Total(y, Q[j]) = Total(x, Q[j])
    BY <1>3, <1>4, <1>6, TotalSame
  <2> QED
    BY <1>2, <1>3, <1>5, <1>7, <1>9, <2>1
<1> QED
  BY <1>8, <1>9

\* Marks and bests once an order rests.
LEMMA RestKeepsLadder ==
    ASSUME NEW x, NEW hd, NEW Q, Rep(x, hd, Q), NEW i \in Ix, hd[FreePlace] = x.free,
           x.free # Nil, NEW y, BookTyped(y), NEW id, NEW side \in Sides, NEW n,
           RestedTo(x, y, i, id, side, n), Clear(x, side, i)
    PROVE  Marked(y.bits, Rested(Q, i)) /\ Cached(y) /\ i \in y.bits[side]
<1>0. PICK q, s, R, tail : /\ q = Q[i] /\ s = x.free
                           /\ R = Rested(Q, i) /\ tail = x.level[i].tail
  OBVIOUS
<1>1. Marked(x.bits, Q) /\ Cached(x) /\ BookTyped(x)
  BY DEF Rep
<1>2. /\ i \in Places /\ q \in Seq(Slots) /\ Len(q) \in Nat /\ s \in Slots
      /\ R[i] = Append(q, s)
      /\ \A j \in Places : j # i /\ j # FreePlace => R[j] = Q[j]
  BY <1>0, RestedLists
<1>3. /\ \A j \in Ix : j # i => R[j] = Q[j]
      /\ R[i] # <<>>
      /\ tail = Nil <=> q = <<>>
  <2>1. Append(q, s) # <<>>
    BY <1>2
  <2>2. \A j \in Ix : j \in Places /\ j # FreePlace
    BY Parameters
  <2>3. tail = Nil <=> q = <<>>
    BY <1>0, TailFacts
  <2> QED
    BY <1>2, <2>1, <2>2, <2>3
<1>4. /\ \A sd \in Sides : x.bits[sd] \in SUBSET Ix
      /\ \A sd \in Sides : x.best[sd] = BestOf(sd, x.bits[sd])
      /\ \A a \in x.bits["Buy"], c \in x.bits["Sell"] : a < c
      /\ \A j \in Ix : Q[j] # <<>> <=> (j \in x.bits["Buy"] \/ j \in x.bits["Sell"])
      /\ "Buy" \in Sides /\ "Sell" \in Sides
  BY <1>1 DEF BookTyped, Cached, Marked, Sides
<1>5. \A sd \in Sides : sd # side =>
        \A j \in x.bits[sd] : IF side = "Buy" THEN i < j ELSE j < i
  BY DEF Clear, Opposite, Sides
<1>6. CASE tail = Nil
  <2>1. MarkedTo(x, y, side, i)
    BY <1>0, <1>6 DEF RestedTo, LinkedTo
  <2>2. \A sd \in Sides : \A j : j \in y.bits[sd] <=> j \in x.bits[sd] \/ (sd = side /\ j = i)
    BY <2>1 DEF MarkedTo
  <2>3. \A j \in Ix : R[j] # <<>> <=> (j \in y.bits["Buy"] \/ j \in y.bits["Sell"])
    <3> TAKE j \in Ix
    <3>1. CASE j = i
      BY <1>3, <2>2, <3>1 DEF Sides
    <3>2. CASE j # i
      BY <1>3, <1>4, <2>2, <3>2
    <3> QED
      BY <3>1, <3>2
  <2>4. \A a \in y.bits["Buy"], c \in y.bits["Sell"] : a < c
    <3> TAKE a \in y.bits["Buy"], c \in y.bits["Sell"]
    <3>1. a \in x.bits["Buy"] \/ (side = "Buy" /\ a = i)
      BY <1>4, <2>2
    <3>2. c \in x.bits["Sell"] \/ (side = "Sell" /\ c = i)
      BY <1>4, <2>2
    <3>3. "Buy" # "Sell"
      OBVIOUS
    <3> QED
      BY <1>4, <1>5, <3>1, <3>2, <3>3
  <2>5. \A sd \in Sides : y.best[sd] = BestOf(sd, y.bits[sd])
    <3> TAKE sd \in Sides
    <3>1. y.best[sd] = IF sd = side /\ Better(side, i, x.best[sd]) THEN i ELSE x.best[sd]
      BY <2>1 DEF MarkedTo
    <3>2. CASE sd = side
      <4>1. PICK set, more : set = x.bits[sd] /\ more = y.bits[sd]
        OBVIOUS
      <4>2. set \in SUBSET Ix /\ \A j : j \in more <=> j \in set \/ j = i
        BY <1>4, <2>2, <3>2, <4>1
      <4>3. BestOf(sd, more) =
              IF Better(sd, i, BestOf(sd, set)) THEN i ELSE BestOf(sd, set)
        BY <4>2, BestMarks
      <4> QED
        BY <1>4, <3>1, <3>2, <4>1, <4>3
    <3>3. CASE sd # side
      <4>1. y.bits[sd] = x.bits[sd]
        BY <2>2, <3>3
      <4> QED
        BY <1>4, <3>1, <3>3, <4>1
    <3> QED
      BY <3>2, <3>3
  <2>6. i \in y.bits[side]
    BY <2>2
  <2> QED
    BY <1>0, <2>3, <2>4, <2>5, <2>6 DEF Marked, Cached
<1>7. CASE tail # Nil
  <2>1. y.bits = x.bits /\ y.best = x.best
    BY <1>0, <1>7 DEF RestedTo, LinkedTo
  <2>2. \A j \in Ix : R[j] # <<>> <=> Q[j] # <<>>
    BY <1>0, <1>3, <1>7
  <2>3. i \in x.bits[side]
    <3>1. i \in x.bits["Buy"] \/ i \in x.bits["Sell"]
      BY <1>0, <1>3, <1>4, <1>7
    <3>2. ASSUME NEW sd \in Sides, sd # side, i \in x.bits[sd] PROVE FALSE
      BY <1>5, <3>2, IxFacts
    <3> QED
      BY <1>4, <3>1, <3>2
  <2> QED
    BY <1>0, <1>1, <2>1, <2>2, <2>3 DEF Marked, Cached
<1> QED
  BY <1>6, <1>7

\* Orders and index once an order rests.
LEMMA RestKeepsOrders ==
    ASSUME NEW x, NEW hd, NEW Q, Rep(x, hd, Q), NEW i \in Ix, hd[FreePlace] = x.free,
           x.free # Nil, NEW y, BookTyped(y), NEW id, NEW side \in Sides, NEW n \in Nat \ {0},
           RestedTo(x, y, i, id, side, n), Clear(x, side, i), id \notin DOMAIN x.ids
    PROVE  Resting(y, Rested(Q, i)) /\ Indexed(y, Rested(Q, i)) /\ Counted(y)
<1>0. PICK q, f, s, R : q = Q[i] /\ f = Q[FreePlace] /\ s = x.free /\ R = Rested(Q, i)
  OBVIOUS
<1>1. Spread(Q) /\ Resting(x, Q) /\ Indexed(x, Q) /\ Counted(x) /\ BookTyped(x)
  BY DEF Rep
<1>2. /\ i \in Places /\ FreePlace \in Places /\ i # FreePlace
      /\ q \in Seq(Slots) /\ f \in Seq(Slots) /\ Len(q) \in Nat /\ Len(f) \in Nat
      /\ 1 \in 1 .. Len(f) /\ s = f[1] /\ s \in Slots
      /\ R[i] = Append(q, s) /\ R[FreePlace] = CutAt(f, 1)
      /\ \A j \in Places : j # i /\ j # FreePlace => R[j] = Q[j]
      /\ \A j \in Places : \A m \in 1 .. Len(Q[j]) : j # FreePlace \/ m # 1 => Q[j][m] # s
  BY <1>0, RestedLists
<1>3. /\ \A j \in Places : \A m \in 1 .. Len(Q[j]) : Q[j][m] \in Slots
      /\ \A j \in Ix : j \in Places /\ j # FreePlace
  BY <1>1, SpreadCovers, Parameters
<1>4. FilledTo(x, y, s, i, id, side, n)
  BY <1>0 DEF RestedTo
<1>5. i \in y.bits[side]
  BY RestKeepsLadder
<1>6. \A sd \in Sides : \A j : j \in x.bits[sd] => j \in y.bits[sd]
  <2>1. CASE x.level[i].tail = Nil
    <3>1. MarkedTo(x, y, side, i)
      BY <2>1 DEF RestedTo, LinkedTo
    <3> QED
      BY <3>1 DEF MarkedTo
  <2>2. CASE x.level[i].tail # Nil
    BY <2>2 DEF RestedTo, LinkedTo
  <2> QED
    BY <2>1, <2>2
<1>7. \A j \in Ix : \A m \in 1 .. Len(R[j]) :
        \/ j = i /\ R[j][m] = s
        \/ \E c \in 1 .. Len(Q[j]) : R[j][m] = Q[j][c]
  <2> TAKE j \in Ix
  <2> TAKE m \in 1 .. Len(R[j])
  <2>1. CASE j = i
    <3>1. /\ Len(R[i]) = Len(q) + 1 /\ R[i][Len(q) + 1] = s
          /\ \A c \in 1 .. Len(q) : R[i][c] = q[c]
      BY <1>2
    <3>2. m = Len(q) + 1 \/ m \in 1 .. Len(q)
      BY <1>2, <2>1, <3>1
    <3> QED
      BY <1>0, <2>1, <3>1, <3>2
  <2>2. CASE j # i
    BY <1>2, <1>3, <2>2
  <2> QED
    BY <2>1, <2>2
<1>8. Resting(y, R)
  <2> SUFFICES ASSUME NEW j \in Ix, NEW m \in 1 .. Len(R[j]) PROVE Holds(y, j, R[j][m])
    BY DEF Resting
  <2>1. CASE j = i /\ R[j][m] = s
    <3>1. Holds(y, i, s)
      BY <1>4, <1>5 DEF Holds, FilledTo
    <3> QED
      BY <2>1, <3>1
  <2>2. CASE \E c \in 1 .. Len(Q[j]) : R[j][m] = Q[j][c]
    <3>1. PICK c \in 1 .. Len(Q[j]) : R[j][m] = Q[j][c]
      BY <2>2
    <3>2. PICK t : t = Q[j][c]
      OBVIOUS
    <3>3. Holds(x, j, t) /\ t \in Slots /\ t # s
      BY <1>1, <1>2, <1>3, <3>2 DEF Resting
    <3>4. SameOrder(x.store[t], y.store[t])
      BY <1>4, <3>3 DEF FilledTo
    <3>5. y.store[t].id \in DOMAIN y.ids /\ y.ids[y.store[t].id] = t
      BY <1>4, <3>3, <3>4 DEF Holds, SameOrder, FilledTo
    <3>6. j \in y.bits[y.store[t].side] /\ y.store[t].side \in Sides
      BY <1>6, <3>3, <3>4 DEF Holds, SameOrder
    <3>7. Holds(y, j, t)
      BY <3>3, <3>4, <3>5, <3>6 DEF Holds, SameOrder
    <3> QED
      BY <3>1, <3>2, <3>7
  <2> QED
    BY <1>7, <2>1, <2>2
<1>9. Indexed(y, R)
  <2>1. /\ Len(R[FreePlace]) = Len(f) - 1
        /\ \A m \in 1 .. Len(f) - 1 : R[FreePlace][m] = f[m + 1]
    <3>1. /\ Len(CutAt(f, 1)) = Len(f) - 1
          /\ \A m \in 1 .. Len(f) - 1 : CutAt(f, 1)[m] = IF m < 1 THEN f[m] ELSE f[m + 1]
      BY <1>2, CutAtFacts
    <3>2. \A m \in 1 .. Len(f) - 1 : ~(m < 1)
      OBVIOUS
    <3> QED
      BY <1>2, <3>1, <3>2
  <2> SUFFICES ASSUME NEW d \in DOMAIN y.ids
               PROVE  /\ y.store[y.ids[d]].id = d
                      /\ \A m \in 1 .. Len(R[FreePlace]) : y.ids[d] # R[FreePlace][m]
    BY DEF Indexed
  <2>2. CASE d = id
    <3>1. y.ids[d] = s /\ y.store[s].id = d
      BY <1>4, <2>2 DEF FilledTo
    <3>2. \A m \in 1 .. Len(R[FreePlace]) : s # R[FreePlace][m]
      <4> TAKE m \in 1 .. Len(R[FreePlace])
      <4>1. PICK c : c = m + 1
        OBVIOUS
      <4>2. m \in 1 .. Len(f) - 1 /\ c \in 1 .. Len(f) /\ c # 1
        BY <1>2, <2>1, <4>1
      <4>3. f[c] # s
        BY <1>0, <1>2, <4>2
      <4> QED
        BY <2>1, <4>1, <4>2, <4>3
    <3> QED
      BY <3>1, <3>2
  <2>3. CASE d # id
    <3>1. d \in DOMAIN x.ids /\ y.ids[d] = x.ids[d]
      BY <1>4, <2>3 DEF FilledTo
    <3>2. x.store[x.ids[d]].id = d /\ \A m \in 1 .. Len(f) : x.ids[d] # f[m]
      BY <1>0, <1>1, <3>1 DEF Indexed
    <3>3. x.ids[d] \in Slots /\ x.ids[d] # s
      BY <1>1, <1>2, <3>1, <3>2, TypedIsSized
    <3>4. y.store[y.ids[d]].id = d
      BY <1>4, <3>1, <3>2, <3>3 DEF FilledTo, SameOrder
    <3>5. \A m \in 1 .. Len(R[FreePlace]) : y.ids[d] # R[FreePlace][m]
      <4> TAKE m \in 1 .. Len(R[FreePlace])
      <4>1. m \in 1 .. Len(f) - 1 /\ m + 1 \in 1 .. Len(f)
        BY <1>2, <2>1
      <4> QED
        BY <2>1, <3>1, <3>2, <4>1
    <3> QED
      BY <3>4, <3>5
  <2> QED
    BY <2>2, <2>3
<1>10. Counted(y)
  <2>1. PICK D, E : D = DOMAIN x.ids /\ E = DOMAIN y.ids
    OBVIOUS
  <2>2. E = D \cup {id} /\ id \notin D /\ IsFiniteSet(D) /\ x.live = Cardinality(D)
    BY <1>1, <1>4, <2>1 DEF Counted, FilledTo
  <2>3. IsFiniteSet(D \cup {id}) /\ Cardinality(D \cup {id}) = Cardinality(D) + 1
    BY <2>2, FS_AddElement
  <2>4. y.live = x.live + 1
    BY <1>4 DEF FilledTo
  <2> QED
    BY <2>1, <2>2, <2>3, <2>4 DEF Counted
<1> QED
  BY <1>0, <1>8, <1>9, <1>10

\* A rest keeps the representation.
LEMMA RestKeepsRep ==
    ASSUME NEW x, NEW hd, NEW Q, Rep(x, hd, Q), NEW i \in Ix, hd[FreePlace] = x.free,
           x.free # Nil, NEW y, BookTyped(y), NEW id, NEW side \in Sides, NEW n \in Nat \ {0},
           RestedTo(x, y, i, id, side, n), Clear(x, side, i), id \notin DOMAIN x.ids,
           NEW hd2, HeadsRested(x, hd, hd2, i)
    PROVE  Rep(y, hd2, Rested(Q, i))
<1>1. Spread(Q) /\ Q[FreePlace] # <<>>
  BY RestedLists DEF Rep
<1>2. Spread(Rested(Q, i))
  BY <1>1, RestedSpread
<1>3. Links(y, hd2, Rested(Q, i))
  BY RestKeepsLinks
<1>4. BackLinks(y, Rested(Q, i))
  BY RestKeepsBackLinks
<1>5. Aggregates(y, Rested(Q, i))
  BY RestKeepsAggregates
<1>6. Marked(y.bits, Rested(Q, i)) /\ Cached(y)
  BY RestKeepsLadder
<1>7. Resting(y, Rested(Q, i)) /\ Indexed(y, Rested(Q, i)) /\ Counted(y)
  BY RestKeepsOrders
<1> QED
  BY <1>2, <1>3, <1>4, <1>5, <1>6, <1>7 DEF Rep

-----------------------------------------------------------------------------
(* What the operators of the model change. *)

\* The fields of a book, and where they range.
LEMMA TypedFields ==
    ASSUME NEW x, BookTyped(x)
    PROVE  /\ x = [level |-> x.level, bits |-> x.bits, best |-> x.best, ids |-> x.ids,
                   store |-> x.store, free |-> x.free, live |-> x.live]
           /\ x.level \in [Ix -> LevelRec]
           /\ x.bits \in [Sides -> SUBSET Ix]
           /\ x.best \in [Sides -> Int]
           /\ x.ids \in [DOMAIN x.ids -> Slots]
           /\ DOMAIN x.ids \subseteq OrderIds
           /\ x.store \in [Slots -> SlotRec]
           /\ x.free \in SlotOrNil
BY DEF BookTyped

\* A book made of fields.
Made(level, bits, best, ids, store, free, live) ==
    [level |-> level, bits |-> bits, best |-> best, ids |-> ids, store |-> store,
     free |-> free, live |-> live]

\* Its fields are the ones it was made of.
LEMMA MadeTyped ==
    ASSUME NEW level, NEW bits, NEW best, NEW ids, NEW store, NEW free, NEW live, NEW x,
           x = Made(level, bits, best, ids, store, free, live)
    PROVE  /\ x.level = level /\ x.bits = bits /\ x.best = best /\ x.ids = ids
           /\ x.store = store /\ x.free = free /\ x.live = live
           /\ /\ level \in [Ix -> LevelRec]
              /\ bits \in [Sides -> SUBSET Ix]
              /\ best \in [Sides -> Int]
              /\ ids \in [DOMAIN ids -> Slots]
              /\ DOMAIN ids \subseteq OrderIds
              /\ store \in [Slots -> SlotRec]
              /\ free \in SlotOrNil
              => BookTyped(x)
<1>1. /\ x.level = level /\ x.bits = bits /\ x.best = best /\ x.ids = ids
      /\ x.store = store /\ x.free = free /\ x.live = live
  BY DEF Made
<1>2. x = [level |-> x.level, bits |-> x.bits, best |-> x.best, ids |-> x.ids,
           store |-> x.store, free |-> x.free, live |-> x.live]
  BY <1>1 DEF Made
<1> QED
  BY <1>1, <1>2 DEF BookTyped

\* An order leaves the index.
LEMMA EraseIdFields ==
    ASSUME NEW x, BookTyped(x), NEW id, NEW y, y = EraseId(x, id)
    PROVE  /\ BookTyped(y)
           /\ y.level = x.level /\ y.bits = x.bits /\ y.best = x.best /\ y.store = x.store
           /\ y.free = x.free /\ y.live = x.live
           /\ \A d : d \in DOMAIN y.ids <=> d \in DOMAIN x.ids /\ d # id
           /\ \A d \in DOMAIN y.ids : y.ids[d] = x.ids[d]
<1>1. PICK ids : ids = [d \in DOMAIN x.ids \ {id} |-> x.ids[d]]
  OBVIOUS
<1>2. y = Made(x.level, x.bits, x.best, ids, x.store, x.free, x.live)
  BY <1>1, TypedFields DEF EraseId, Made
<1>3. /\ ids \in [DOMAIN ids -> Slots] /\ DOMAIN ids \subseteq OrderIds
      /\ DOMAIN ids = DOMAIN x.ids \ {id} /\ \A d \in DOMAIN ids : ids[d] = x.ids[d]
  <2>1. \A d \in DOMAIN x.ids : x.ids[d] \in Slots /\ d \in OrderIds
    BY TypedIsSized
  <2> QED
    BY <1>1, <2>1
<1>4. /\ y.level = x.level /\ y.bits = x.bits /\ y.best = x.best /\ y.ids = ids
      /\ y.store = x.store /\ y.free = x.free /\ y.live = x.live /\ BookTyped(y)
  BY <1>2, <1>3, TypedFields, MadeTyped
<1> QED
  BY <1>3, <1>4

\* An order enters the index.
LEMMA InsertIdFields ==
    ASSUME NEW x, BookTyped(x), NEW id \in OrderIds, NEW s \in Slots, NEW y,
           y = InsertId(x, id, s)
    PROVE  /\ BookTyped(y)
           /\ y.level = x.level /\ y.bits = x.bits /\ y.best = x.best /\ y.store = x.store
           /\ y.free = x.free /\ y.live = x.live
           /\ \A d : d \in DOMAIN y.ids <=> d \in DOMAIN x.ids \/ d = id
           /\ \A d \in DOMAIN x.ids : d # id => y.ids[d] = x.ids[d]
           /\ y.ids[id] = s
<1>1. PICK ids : ids = [d \in DOMAIN x.ids \cup {id} |-> IF d = id THEN s ELSE x.ids[d]]
  OBVIOUS
<1>2. y = Made(x.level, x.bits, x.best, ids, x.store, x.free, x.live)
  BY <1>1, TypedFields DEF InsertId, Made
<1>3. /\ ids \in [DOMAIN ids -> Slots] /\ DOMAIN ids \subseteq OrderIds
      /\ DOMAIN ids = DOMAIN x.ids \cup {id} /\ ids[id] = s
      /\ \A d \in DOMAIN x.ids : d # id => ids[d] = x.ids[d]
  <2>1. \A d \in DOMAIN x.ids : x.ids[d] \in Slots /\ d \in OrderIds
    BY TypedIsSized
  <2> QED
    BY <1>1, <2>1
<1>4. /\ y.level = x.level /\ y.bits = x.bits /\ y.best = x.best /\ y.ids = ids
      /\ y.store = x.store /\ y.free = x.free /\ y.live = x.live /\ BookTyped(y)
  BY <1>2, <1>3, TypedFields, MadeTyped
<1> QED
  BY <1>3, <1>4

\* A slot returns to the free list.
LEMMA ReleaseFields ==
    ASSUME NEW x, BookTyped(x), NEW s \in Slots, NEW y, y = Release(x, s)
    PROVE  /\ BookTyped(y)
           /\ y.level = x.level /\ y.bits = x.bits /\ y.best = x.best /\ y.ids = x.ids
           /\ y.free = s /\ y.live = x.live - 1
           /\ y.store[s].next = x.free
           /\ \A t \in Slots : t # s => y.store[t] = x.store[t]
<1>0. PICK fr, fs : fr = x.free /\ fs = FreeSlot(fr)
  OBVIOUS
<1>1. PICK store : store = [x.store EXCEPT ![s] = fs]
  OBVIOUS
<1>2. y = Made(x.level, x.bits, x.best, x.ids, store, s, x.live - 1)
  <2>1. x = Made(x.level, x.bits, x.best, x.ids, x.store, x.free, x.live)
    BY TypedFields DEF Made
  <2>2. PICK level, bits, best, ids, st, live :
          /\ level = x.level /\ bits = x.bits /\ best = x.best /\ ids = x.ids
          /\ st = x.store /\ live = x.live
    OBVIOUS
  <2>3. x = Made(level, bits, best, ids, st, fr, live)
    BY <1>0, <2>1, <2>2
  <2>4. y = [x EXCEPT !.store[s] = fs, !.free = s, !.live = @ - 1]
    BY <1>0 DEF Release
  <2>5. y = Made(level, bits, best, ids, [st EXCEPT ![s] = fs], s, live - 1)
    BY <2>3, <2>4 DEF Made
  <2> QED
    BY <1>1, <2>2, <2>5
<1>3. fs \in SlotRec /\ fs.next = fr
  <2>1. 0 \in SlotOrNil /\ 0 \in Ix /\ fr \in SlotOrNil /\ NoId \in InputIds
    BY <1>0, BookAssumption, IxFacts, TypedFields DEF SlotOrNil, InputIds
  <2> QED
    BY <1>0, <2>1 DEF FreeSlot, SlotRec, Sides
<1>4. /\ store \in [Slots -> SlotRec] /\ store[s] = fs
      /\ \A t \in Slots : t # s => store[t] = x.store[t]
  <2>1. x.store \in [Slots -> SlotRec]
    BY TypedFields
  <2> QED
    BY <1>1, <1>3, <2>1
<1>5. s \in SlotOrNil
  BY Parameters
<1>6. /\ y.level = x.level /\ y.bits = x.bits /\ y.best = x.best /\ y.ids = x.ids
      /\ y.store = store /\ y.free = s /\ y.live = x.live - 1 /\ BookTyped(y)
  BY <1>2, <1>4, <1>5, TypedFields, MadeTyped
<1> QED
  BY <1>0, <1>3, <1>4, <1>6

\* The next best level is a number.
LEMMA NextBestTyped ==
    ASSUME NEW side \in Sides, NEW set \in SUBSET Ix, NEW i \in Ix
    PROVE  NextBest(side, set, i) \in Int
<1>1. PICK a, c : a = i + 1 /\ c = i - 1
  OBVIOUS
<1>2. a \in Int /\ c \in Int
  BY <1>1, IxFacts
<1>3. PICK v, w : v = FindNext(set, a) /\ w = FindPrev(set, c)
  OBVIOUS
<1>4. IsNext(set, a, v) /\ IsPrev(set, c, w)
  BY <1>2, <1>3, FindNextIs, FindPrevIs
<1>5. v \in Int /\ w \in Int
  BY <1>4, IxFacts DEF IsNext, IsPrev
<1> QED
  BY <1>1, <1>3, <1>5 DEF NextBest

\* A level is retired.
LEMMA RetireFields ==
    ASSUME NEW x, BookTyped(x), NEW side \in Sides, NEW i \in Ix, NEW y,
           y = RetireLevel(x, side, i)
    PROVE  /\ BookTyped(y)
           /\ y.level = x.level /\ y.ids = x.ids /\ y.store = x.store
           /\ y.free = x.free /\ y.live = x.live
           /\ RetiredTo(x, y, side, i)
<1>1. PICK set, next : set = x.bits[side] \ {i} /\ next = NextBest(side, set, i)
  OBVIOUS
<1>2. PICK bits, best : /\ bits = [x.bits EXCEPT ![side] = set]
                        /\ best = [x.best EXCEPT ![side] = IF i = @ THEN next ELSE @]
  OBVIOUS
<1>3. y = Made(x.level, bits, best, x.ids, x.store, x.free, x.live)
  <2>1. x = Made(x.level, x.bits, x.best, x.ids, x.store, x.free, x.live)
    BY TypedFields DEF Made
  <2>2. PICK level, bt, bs, ids, st, fr, live :
          /\ level = x.level /\ bt = x.bits /\ bs = x.best /\ ids = x.ids
          /\ st = x.store /\ fr = x.free /\ live = x.live
    OBVIOUS
  <2>3. x = Made(level, bt, bs, ids, st, fr, live)
    BY <2>1, <2>2
  <2>4. y = [x EXCEPT !.bits[side] = set, !.best[side] = IF i = @ THEN next ELSE @]
    BY <1>1 DEF RetireLevel
  <2>5. y = Made(level, [bt EXCEPT ![side] = set],
                 [bs EXCEPT ![side] = IF i = @ THEN next ELSE @], ids, st, fr, live)
    BY <2>3, <2>4 DEF Made
  <2> QED
    BY <1>2, <2>2, <2>5
<1>4. /\ x.bits \in [Sides -> SUBSET Ix] /\ x.best \in [Sides -> Int]
      /\ x.bits[side] \in SUBSET Ix /\ x.best[side] \in Int
  BY TypedFields
<1>5. set \in SUBSET Ix /\ next \in Int
  BY <1>1, <1>4, NextBestTyped
<1>6. bits \in [Sides -> SUBSET Ix] /\ best \in [Sides -> Int]
  BY <1>2, <1>4, <1>5
<1>7. /\ y.level = x.level /\ y.bits = bits /\ y.best = best /\ y.ids = x.ids
      /\ y.store = x.store /\ y.free = x.free /\ y.live = x.live /\ BookTyped(y)
  BY <1>3, <1>6, TypedFields, MadeTyped
<1>8. RetiredTo(x, y, side, i)
  <2> SUFFICES ASSUME NEW sd \in Sides
               PROVE  /\ \A j : j \in bits[sd] <=> j \in x.bits[sd] /\ ~(sd = side /\ j = i)
                      /\ best[sd] = IF sd = side /\ i = x.best[sd]
                                    THEN NextBest(sd, bits[sd], i) ELSE x.best[sd]
    BY <1>7 DEF RetiredTo
  <2>1. CASE sd = side
    <3>1. bits[sd] = set /\ best[sd] = IF i = x.best[sd] THEN next ELSE x.best[sd]
      BY <1>2, <1>4, <2>1
    <3> QED
      BY <1>1, <2>1, <3>1
  <2>2. CASE sd # side
    BY <1>2, <1>4, <2>2
  <2> QED
    BY <2>1, <2>2
<1> QED
  BY <1>7, <1>8

\* Slot q[k] of list q of level i, in its links and at the ends of the list.
Listed(x, q, i, k) ==
    /\ Distinct(q)
    /\ x.level[i].head = After(q, 0)
    /\ x.level[i].tail = Before(q, Len(q) + 1)
    /\ Follows(x.store, q)
    /\ Returns(x.store, q)
    /\ x.store[q[k]].level = i

\* A slot is the head, or the tail, by its position.
LEMMA ListedFacts ==
    ASSUME NEW x, BookTyped(x), NEW i \in Ix, NEW q \in Seq(Slots), NEW k \in 1 .. Len(q),
           Listed(x, q, i, k)
    PROVE  /\ q[k] = x.level[i].head <=> k = 1
           /\ q[k] = x.level[i].tail <=> k = Len(q)
           /\ x.level[i].head = q[1] /\ x.level[i].tail = q[Len(q)]
           /\ x.store[q[k]].next = After(q, k)
           /\ k > 1 => x.store[q[k]].prev = q[k - 1] /\ q[k - 1] \in Slots
           /\ k < Len(q) => After(q, k) = q[k + 1] /\ q[k + 1] \in Slots
           /\ After(q, k) = Nil <=> k = Len(q)
           /\ q[1] # Nil /\ q[k] \in Slots
<1>1. Len(q) \in Nat /\ 1 \in 1 .. Len(q) /\ Len(q) \in 1 .. Len(q)
  OBVIOUS
<1>2. \A m \in 1 .. Len(q) : q[m] \in Slots /\ q[m] # Nil
  BY Parameters
<1>3. x.level[i].head = q[1]
  BY <1>1 DEF Listed, After
<1>4. x.level[i].tail = q[Len(q)]
  <2>1. Len(q) + 1 > 1 /\ (Len(q) + 1) - 1 = Len(q)
    BY <1>1
  <2> QED
    BY <2>1 DEF Listed, Before
<1>5. \A m \in 1 .. Len(q) : q[k] = q[m] <=> k = m
  BY DEF Listed, Distinct
<1>6. x.store[q[k]].next = After(q, k)
  BY DEF Listed, Follows
<1>7. k > 1 => x.store[q[k]].prev = q[k - 1] /\ q[k - 1] \in Slots
  <2> HAVE k > 1
  <2>1. k \in 2 .. Len(q) /\ k - 1 \in 1 .. Len(q)
    BY <1>1
  <2> QED
    BY <1>2, <2>1 DEF Listed, Returns
<1>8. k < Len(q) => After(q, k) = q[k + 1] /\ q[k + 1] \in Slots /\ q[k + 1] # Nil
  <2> HAVE k < Len(q)
  <2>1. k + 1 \in 1 .. Len(q)
    BY <1>1
  <2> QED
    BY <1>2, <2>1 DEF After
<1>9. After(q, k) = Nil <=> k = Len(q)
  <2>1. k < Len(q) \/ k = Len(q)
    BY <1>1
  <2>2. k = Len(q) => After(q, k) = Nil
    BY <1>1 DEF After
  <2> QED
    BY <1>1, <1>8, <2>1, <2>2
<1> QED
  BY <1>1, <1>2, <1>3, <1>4, <1>5, <1>6, <1>7, <1>8, <1>9

\* The two writes of unlink to the slots around the one taken out.
Rejoined(st, s, lv, store1, store2) ==
    /\ store1 = IF s = lv.head THEN st ELSE [st EXCEPT ![st[s].prev].next = st[s].next]
    /\ store2 = IF s = lv.tail THEN store1 ELSE [store1 EXCEPT ![st[s].next].prev = st[s].prev]

\* The k-th slot of list q is out of it: the slots around the gap point to
\* each other.
GapClosed(st, st2, q, k) ==
    /\ st2 \in [Slots -> SlotRec]
    /\ \A t \in Slots : SameOrder(st[t], st2[t])
    /\ \A t \in Slots : t # q[k] =>
          st2[t].next = IF k > 1 /\ t = q[k - 1] THEN After(q, k) ELSE st[t].next
    /\ \A t \in Slots : t # q[k] /\ ~(k < Len(q) /\ t = q[k + 1]) => st2[t].prev = st[t].prev
    /\ 1 < k /\ k < Len(q) => st2[q[k + 1]].prev = q[k - 1]

\* The store after unlink.
LEMMA UnlinkStore ==
    ASSUME NEW x, BookTyped(x), NEW i \in Ix, NEW q \in Seq(Slots), NEW k \in 1 .. Len(q),
           Listed(x, q, i, k), NEW store1, NEW store2,
           Rejoined(x.store, q[k], x.level[i], store1, store2)
    PROVE  GapClosed(x.store, store2, q, k)
<1>0. PICK st, s, nx, pv, o : /\ st = x.store /\ s = q[k] /\ o = st[s]
                              /\ nx = After(q, k) /\ pv = o.prev
  OBVIOUS
<1>1. st \in [Slots -> SlotRec] /\ s \in Slots /\ o \in SlotRec
  BY <1>0, ListedFacts, TypedFields
<1>2. /\ o.next = nx /\ nx \in SlotOrNil /\ pv \in SlotOrNil
      /\ k > 1 => pv = q[k - 1] /\ pv \in Slots
      /\ k < Len(q) => nx = q[k + 1] /\ nx \in Slots
  <2>1. o.next \in SlotOrNil /\ pv \in SlotOrNil
    BY <1>0, <1>1 DEF SlotRec
  <2>2. o.next = nx
    BY <1>0, ListedFacts
  <2>3. k > 1 => pv = q[k - 1] /\ pv \in Slots
    BY <1>0, ListedFacts
  <2>4. k < Len(q) => nx = q[k + 1] /\ nx \in Slots
    BY <1>0, ListedFacts
  <2> QED
    BY <2>1, <2>2, <2>3, <2>4
<1>3. /\ store1 = IF k = 1 THEN st ELSE [st EXCEPT ![pv].next = nx]
      /\ store2 = IF k = Len(q) THEN store1 ELSE [store1 EXCEPT ![nx].prev = pv]
  <2>1. /\ s = x.level[i].head <=> k = 1
        /\ s = x.level[i].tail <=> k = Len(q)
    BY <1>0, ListedFacts
  <2> QED
    BY <1>0, <1>2, <2>1 DEF Rejoined
<1>4. Len(q) \in Nat /\ (k # 1 <=> k > 1) /\ (k # Len(q) <=> k < Len(q))
  OBVIOUS
<1>5. /\ store1 \in [Slots -> SlotRec]
      /\ \A t \in Slots : SameOrder(st[t], store1[t]) /\ store1[t].prev = st[t].prev
      /\ \A t \in Slots : store1[t].next = IF k > 1 /\ t = pv THEN nx ELSE st[t].next
  <2>1. CASE k = 1
    BY <1>1, <1>3, <1>4, <2>1 DEF SameOrder
  <2>2. CASE k # 1
    <3>1. store1 = [st EXCEPT ![pv] = [st[pv] EXCEPT !.next = nx]] /\ pv \in Slots
      BY <1>1, <1>2, <1>3, <1>4, <2>2
    <3>2. PICK p : p = [st[pv] EXCEPT !.next = nx]
      OBVIOUS
    <3>3. st[pv] \in SlotRec
      BY <1>1, <3>1
    <3>4. /\ p \in SlotRec /\ SameOrder(st[pv], p) /\ p.prev = st[pv].prev /\ p.next = nx
      BY <1>2, <3>2, <3>3 DEF SlotRec, SameOrder
    <3>5. \A t \in Slots : store1[t] = IF t = pv THEN p ELSE st[t]
      BY <1>1, <3>1, <3>2
    <3>6. \A t \in Slots : SameOrder(st[t], st[t])
      BY DEF SameOrder
    <3>7. store1 \in [Slots -> SlotRec]
      BY <1>1, <3>1, <3>2, <3>4
    <3> QED
      BY <1>4, <2>2, <3>4, <3>5, <3>6, <3>7
  <2> QED
    BY <2>1, <2>2
<1>6. /\ store2 \in [Slots -> SlotRec]
      /\ \A t \in Slots : SameOrder(store1[t], store2[t]) /\ store2[t].next = store1[t].next
      /\ \A t \in Slots : store2[t].prev = IF k < Len(q) /\ t = nx THEN pv ELSE store1[t].prev
  <2>1. CASE k = Len(q)
    BY <1>3, <1>4, <1>5, <2>1 DEF SameOrder
  <2>2. CASE k # Len(q)
    <3>1. store2 = [store1 EXCEPT ![nx] = [store1[nx] EXCEPT !.prev = pv]] /\ nx \in Slots
      BY <1>2, <1>3, <1>4, <1>5, <2>2
    <3>2. PICK p : p = [store1[nx] EXCEPT !.prev = pv]
      OBVIOUS
    <3>3. store1[nx] \in SlotRec
      BY <1>5, <3>1
    <3>4. /\ p \in SlotRec /\ SameOrder(store1[nx], p) /\ p.next = store1[nx].next /\ p.prev = pv
      BY <1>2, <3>2, <3>3 DEF SlotRec, SameOrder
    <3>5. \A t \in Slots : store2[t] = IF t = nx THEN p ELSE store1[t]
      BY <1>5, <3>1, <3>2
    <3>6. \A t \in Slots : SameOrder(store1[t], store1[t])
      BY DEF SameOrder
    <3>7. store2 \in [Slots -> SlotRec]
      BY <1>5, <3>1, <3>2, <3>4
    <3> QED
      BY <1>4, <2>2, <3>4, <3>5, <3>6, <3>7
  <2> QED
    BY <2>1, <2>2
<1>7. \A t \in Slots : SameOrder(st[t], store2[t])
  BY <1>5, <1>6 DEF SameOrder
<1>8. \A t \in Slots : t # s =>
        store2[t].next = IF k > 1 /\ t = q[k - 1] THEN After(q, k) ELSE st[t].next
  BY <1>0, <1>2, <1>5, <1>6
<1>9. \A t \in Slots : t # s /\ ~(k < Len(q) /\ t = q[k + 1]) => store2[t].prev = st[t].prev
  BY <1>2, <1>5, <1>6
<1>10. 1 < k /\ k < Len(q) => store2[q[k + 1]].prev = q[k - 1]
  BY <1>2, <1>6
<1> QED
  BY <1>0, <1>6, <1>7, <1>8, <1>9, <1>10 DEF GapClosed

\* unlink takes the k-th slot of a level out of its list.
LEMMA UnlinkFields ==
    ASSUME NEW x, BookTyped(x), NEW i \in Ix, NEW q \in Seq(Slots), NEW k \in 1 .. Len(q),
           Listed(x, q, i, k), NEW y, y = Unlink(x, q[k])
    PROVE  /\ BookTyped(y)
           /\ y.ids = x.ids /\ y.free = x.free /\ y.live = x.live
           /\ \A t \in Slots : SameOrder(x.store[t], y.store[t])
           /\ UnlinkedTo(x, y, q, k)
           /\ LeftTo(x, y, q, i, k)
           /\ \A j \in Ix : y.level[j].head =
                IF j = i /\ k = 1 THEN After(q, 1) ELSE x.level[j].head
<1> DEFINE s == q[k]
           o == x.store[s]
           lv == x.level[o.level]
           head == IF s = lv.head THEN o.next ELSE lv.head
           tail == IF s # lv.tail THEN lv.tail ELSE IF head = Nil THEN Nil ELSE o.prev
           store1 == IF s = lv.head THEN x.store ELSE [x.store EXCEPT ![o.prev].next = o.next]
           store2 == IF s = lv.tail THEN store1 ELSE [store1 EXCEPT ![o.next].prev = o.prev]
           lev == [qty |-> lv.qty - o.qty, head |-> head, tail |-> tail]
           z == [x EXCEPT !.store = store2, !.level[o.level] = lev]
<1>1. y = IF head = Nil THEN RetireLevel(z, o.side, o.level) ELSE z
  BY DEF Unlink
<1>2. /\ head = IF s = lv.head THEN o.next ELSE lv.head
      /\ tail = IF s # lv.tail THEN lv.tail ELSE IF head = Nil THEN Nil ELSE o.prev
  OBVIOUS
<1>3. Rejoined(x.store, s, lv, store1, store2)
  BY DEF Rejoined
<1>4. /\ lev = [qty |-> lv.qty - o.qty, head |-> head, tail |-> tail]
      /\ z = [x EXCEPT !.store = store2, !.level[o.level] = lev]
  OBVIOUS
<1>5. s = q[k] /\ o = x.store[s] /\ lv = x.level[i]
  BY DEF Listed
<1> HIDE DEF s, o, lv, head, tail, store1, store2, lev, z
<1>6. /\ x.level \in [Ix -> LevelRec] /\ x.store \in [Slots -> SlotRec]
      /\ s \in Slots /\ o \in SlotRec /\ lv \in LevelRec
  BY <1>5, ListedFacts, TypedFields
<1>7. /\ s = lv.head <=> k = 1
      /\ s = lv.tail <=> k = Len(q)
      /\ lv.head = q[1] /\ lv.tail = q[Len(q)]
      /\ o.next = After(q, k) /\ (After(q, k) = Nil <=> k = Len(q))
      /\ k > 1 => o.prev = q[k - 1] /\ q[k - 1] \in Slots
      /\ q[1] # Nil
      /\ o.level = i
  BY <1>5, ListedFacts DEF Listed
<1>8. Len(q) \in Nat /\ (k # 1 <=> k > 1) /\ (k # Len(q) <=> k < Len(q))
  OBVIOUS
<1>9. /\ store2 \in [Slots -> SlotRec]
      /\ \A t \in Slots : SameOrder(x.store[t], store2[t])
      /\ \A t \in Slots : t # q[k] =>
           store2[t].next = IF k > 1 /\ t = q[k - 1] THEN After(q, k) ELSE x.store[t].next
      /\ \A t \in Slots : t # q[k] /\ ~(k < Len(q) /\ t = q[k + 1]) =>
           store2[t].prev = x.store[t].prev
      /\ 1 < k /\ k < Len(q) => store2[q[k + 1]].prev = q[k - 1]
  <2>1. Rejoined(x.store, q[k], x.level[i], store1, store2)
    BY <1>5, <1>3
  <2>2. GapClosed(x.store, store2, q, k)
    BY <2>1, UnlinkStore
  <2> QED
    BY <2>2 DEF GapClosed
<1>10. /\ head = Nil <=> Len(q) = 1
       /\ head = IF k = 1 THEN After(q, 1) ELSE lv.head
       /\ tail = IF k < Len(q) THEN lv.tail ELSE Before(q, k)
  <2>1. head = IF k = 1 THEN After(q, 1) ELSE lv.head
    BY <1>7, <1>2
  <2>2. head = Nil <=> Len(q) = 1
    <3>1. CASE k = 1
      BY <1>7, <2>1, <3>1
    <3>2. CASE k # 1
      BY <1>7, <1>8, <2>1, <3>2
    <3> QED
      BY <3>1, <3>2
  <2>3. tail = IF k < Len(q) THEN lv.tail ELSE Before(q, k)
    BY <1>7, <1>8, <1>2, <2>1, <2>2 DEF Before
  <2> QED
    BY <2>1, <2>2, <2>3
<1>11. lev \in LevelRec /\ lev.qty = lv.qty - o.qty /\ lev.head = head /\ lev.tail = tail
  <2>1. head \in SlotOrNil /\ tail \in SlotOrNil
    BY <1>6, <1>2, Parameters DEF LevelRec, SlotRec
  <2>2. lv.qty \in Int /\ o.qty \in Nat
    BY <1>6 DEF LevelRec, SlotRec
  <2> QED
    BY <1>4, <2>1, <2>2 DEF LevelRec
<1>12. PICK level : level = [x.level EXCEPT ![i] = lev]
  OBVIOUS
<1>13. /\ level \in [Ix -> LevelRec] /\ level[i] = lev
       /\ \A j \in Ix : j # i => level[j] = x.level[j]
  BY <1>6, <1>11, <1>12
<1>14. z = Made(level, x.bits, x.best, x.ids, store2, x.free, x.live)
  <2>1. z = [x EXCEPT !.store = store2, !.level[i] = lev]
    BY <1>7, <1>4
  <2>2. PICK lvs, bt, bs, ids, st, fr, live :
          /\ lvs = x.level /\ bt = x.bits /\ bs = x.best /\ ids = x.ids
          /\ st = x.store /\ fr = x.free /\ live = x.live
    OBVIOUS
  <2>3. x = Made(lvs, bt, bs, ids, st, fr, live)
    BY <2>2, TypedFields DEF Made
  <2>4. z = Made([lvs EXCEPT ![i] = lev], bt, bs, ids, store2, fr, live)
    BY <2>1, <2>3 DEF Made
  <2> QED
    BY <1>12, <2>2, <2>4
<1>15. /\ z.level = level /\ z.bits = x.bits /\ z.best = x.best /\ z.ids = x.ids
       /\ z.store = store2 /\ z.free = x.free /\ z.live = x.live /\ BookTyped(z)
  BY <1>9, <1>13, <1>14, TypedFields, MadeTyped
<1>16. o.side \in Sides
  BY <1>6 DEF SlotRec
<1>17. /\ y.level = level /\ y.store = store2 /\ y.ids = x.ids /\ y.free = x.free
       /\ y.live = x.live /\ BookTyped(y)
       /\ IF Len(q) = 1 THEN RetiredTo(x, y, o.side, i) ELSE y.bits = x.bits /\ y.best = x.best
  <2>1. CASE head = Nil
    <3>1. y = RetireLevel(z, o.side, i)
      BY <1>7, <1>1, <2>1
    <3>2. /\ BookTyped(y) /\ y.level = z.level /\ y.ids = z.ids /\ y.store = z.store
          /\ y.free = z.free /\ y.live = z.live /\ RetiredTo(z, y, o.side, i)
      BY <1>15, <1>16, <3>1, RetireFields
    <3>3. RetiredTo(x, y, o.side, i)
      BY <1>15, <3>2 DEF RetiredTo
    <3> QED
      BY <1>10, <1>15, <2>1, <3>2, <3>3
  <2>2. CASE head # Nil
    BY <1>1, <1>10, <1>15, <2>2
  <2> QED
    BY <2>1, <2>2
<1>18. UnlinkedTo(x, y, q, k)
  BY <1>9, <1>17 DEF UnlinkedTo
<1>19. LeftTo(x, y, q, i, k)
  BY <1>5, <1>10, <1>11, <1>13, <1>17 DEF LeftTo
<1> QED
  BY <1>5, <1>9, <1>10, <1>11, <1>13, <1>17, <1>18, <1>19

\* The assignments of the sweep.
SetLevel(x, i, lev) == [x EXCEPT !.level[i] = lev]
LessQty(x, i, n) == [x EXCEPT !.level[i].qty = @ - n]
SetHead(x, i, s) == [x EXCEPT !.level[i].head = s]
ClearTail(x, i) == [x EXCEPT !.level[i].tail = Nil]
SetSize(x, s, n) == [x EXCEPT !.store[s].qty = n]

\* One level is replaced.
LEMMA LevelFields ==
    ASSUME NEW x, BookTyped(x), NEW i \in Ix, NEW lev \in LevelRec, NEW y,
           y = SetLevel(x, i, lev)
    PROVE  /\ BookTyped(y)
           /\ y.bits = x.bits /\ y.best = x.best /\ y.ids = x.ids /\ y.store = x.store
           /\ y.free = x.free /\ y.live = x.live
           /\ y.level[i] = lev /\ \A j \in Ix : j # i => y.level[j] = x.level[j]
<1>1. PICK lvs, bt, bs, ids, st, fr, live :
        /\ lvs = x.level /\ bt = x.bits /\ bs = x.best /\ ids = x.ids
        /\ st = x.store /\ fr = x.free /\ live = x.live
  OBVIOUS
<1>2. x = Made(lvs, bt, bs, ids, st, fr, live)
  BY <1>1, TypedFields DEF Made
<1>3. PICK level : level = [lvs EXCEPT ![i] = lev]
  OBVIOUS
<1>4. y = Made(level, bt, bs, ids, st, fr, live)
  BY <1>2, <1>3 DEF Made, SetLevel
<1>5. lvs \in [Ix -> LevelRec]
  BY <1>1, TypedFields
<1>6. /\ level \in [Ix -> LevelRec] /\ level[i] = lev
      /\ \A j \in Ix : j # i => level[j] = lvs[j]
  BY <1>3, <1>5
<1>7. /\ bt \in [Sides -> SUBSET Ix] /\ bs \in [Sides -> Int] /\ ids \in [DOMAIN ids -> Slots]
      /\ DOMAIN ids \subseteq OrderIds /\ st \in [Slots -> SlotRec] /\ fr \in SlotOrNil
  BY <1>1, TypedFields
<1>8. /\ y.level = level /\ y.bits = bt /\ y.best = bs /\ y.ids = ids
      /\ y.store = st /\ y.free = fr /\ y.live = live /\ BookTyped(y)
  BY <1>4, <1>6, <1>7, MadeTyped
<1> QED
  BY <1>1, <1>6, <1>8

\* The aggregate of a level is set.
LEMMA QtyFields ==
    ASSUME NEW x, BookTyped(x), NEW i \in Ix, NEW n \in Int, NEW y,
           y = LessQty(x, i, n)
    PROVE  /\ BookTyped(y)
           /\ y.bits = x.bits /\ y.best = x.best /\ y.ids = x.ids /\ y.store = x.store
           /\ y.free = x.free /\ y.live = x.live
           /\ y.level[i].qty = x.level[i].qty - n /\ y.level[i].head = x.level[i].head
           /\ y.level[i].tail = x.level[i].tail
           /\ \A j \in Ix : j # i => y.level[j] = x.level[j]
<1>1. PICK lv, lev : lv = x.level[i] /\ lev = [lv EXCEPT !.qty = @ - n]
  OBVIOUS
<1>2. lv \in LevelRec
  BY <1>1, TypedFields
<1>3. lev \in LevelRec /\ lev.qty = lv.qty - n /\ lev.head = lv.head /\ lev.tail = lv.tail
  BY <1>1, <1>2 DEF LevelRec
<1>4. y = SetLevel(x, i, lev)
  BY <1>1 DEF SetLevel, LessQty, SetHead, ClearTail
<1>5. /\ BookTyped(y)
      /\ y.bits = x.bits /\ y.best = x.best /\ y.ids = x.ids /\ y.store = x.store
      /\ y.free = x.free /\ y.live = x.live
      /\ y.level[i] = lev /\ \A j \in Ix : j # i => y.level[j] = x.level[j]
  BY <1>3, <1>4, LevelFields
<1> QED
  BY <1>1, <1>3, <1>5

\* The head of a level is stored.
LEMMA HeadFields ==
    ASSUME NEW x, BookTyped(x), NEW i \in Ix, NEW s \in SlotOrNil, NEW y,
           y = SetHead(x, i, s)
    PROVE  /\ BookTyped(y)
           /\ y.bits = x.bits /\ y.best = x.best /\ y.ids = x.ids /\ y.store = x.store
           /\ y.free = x.free /\ y.live = x.live
           /\ y.level[i].qty = x.level[i].qty /\ y.level[i].head = s
           /\ y.level[i].tail = x.level[i].tail
           /\ \A j \in Ix : j # i => y.level[j] = x.level[j]
<1>1. PICK lv, lev : lv = x.level[i] /\ lev = [lv EXCEPT !.head = s]
  OBVIOUS
<1>2. lv \in LevelRec
  BY <1>1, TypedFields
<1>3. lev \in LevelRec /\ lev.qty = lv.qty /\ lev.head = s /\ lev.tail = lv.tail
  BY <1>1, <1>2 DEF LevelRec
<1>4. y = SetLevel(x, i, lev)
  BY <1>1 DEF SetLevel, LessQty, SetHead, ClearTail
<1>5. /\ BookTyped(y)
      /\ y.bits = x.bits /\ y.best = x.best /\ y.ids = x.ids /\ y.store = x.store
      /\ y.free = x.free /\ y.live = x.live
      /\ y.level[i] = lev /\ \A j \in Ix : j # i => y.level[j] = x.level[j]
  BY <1>3, <1>4, LevelFields
<1> QED
  BY <1>1, <1>3, <1>5

\* The tail of a level is cleared.
LEMMA TailFields ==
    ASSUME NEW x, BookTyped(x), NEW i \in Ix, NEW y,
           y = ClearTail(x, i)
    PROVE  /\ BookTyped(y)
           /\ y.bits = x.bits /\ y.best = x.best /\ y.ids = x.ids /\ y.store = x.store
           /\ y.free = x.free /\ y.live = x.live
           /\ y.level[i].qty = x.level[i].qty /\ y.level[i].head = x.level[i].head
           /\ y.level[i].tail = Nil
           /\ \A j \in Ix : j # i => y.level[j] = x.level[j]
<1>1. PICK lv, lev : lv = x.level[i] /\ lev = [lv EXCEPT !.tail = Nil]
  OBVIOUS
<1>2. lv \in LevelRec /\ Nil \in SlotOrNil
  BY <1>1, TypedFields, Parameters
<1>3. lev \in LevelRec /\ lev.qty = lv.qty /\ lev.head = lv.head /\ lev.tail = Nil
  BY <1>1, <1>2 DEF LevelRec
<1>4. y = SetLevel(x, i, lev)
  BY <1>1 DEF SetLevel, LessQty, SetHead, ClearTail
<1>5. /\ BookTyped(y)
      /\ y.bits = x.bits /\ y.best = x.best /\ y.ids = x.ids /\ y.store = x.store
      /\ y.free = x.free /\ y.live = x.live
      /\ y.level[i] = lev /\ \A j \in Ix : j # i => y.level[j] = x.level[j]
  BY <1>3, <1>4, LevelFields
<1> QED
  BY <1>1, <1>3, <1>5

\* The size in a slot is set.
LEMMA SizeFields ==
    ASSUME NEW x, BookTyped(x), NEW s \in Slots, NEW n \in Nat, NEW y,
           y = SetSize(x, s, n)
    PROVE  /\ BookTyped(y)
           /\ y.level = x.level /\ y.bits = x.bits /\ y.best = x.best /\ y.ids = x.ids
           /\ y.free = x.free /\ y.live = x.live
           /\ \A t \in Slots :
                /\ y.store[t].id = x.store[t].id /\ y.store[t].level = x.store[t].level
                /\ y.store[t].owner = x.store[t].owner /\ y.store[t].side = x.store[t].side
                /\ y.store[t].next = x.store[t].next /\ y.store[t].prev = x.store[t].prev
                /\ y.store[t].qty = IF t = s THEN n ELSE x.store[t].qty
<1>1. PICK lvs, bt, bs, ids, st, fr, live :
        /\ lvs = x.level /\ bt = x.bits /\ bs = x.best /\ ids = x.ids
        /\ st = x.store /\ fr = x.free /\ live = x.live
  OBVIOUS
<1>2. x = Made(lvs, bt, bs, ids, st, fr, live)
  BY <1>1, TypedFields DEF Made
<1>3. PICK o, p, store : /\ o = st[s] /\ p = [o EXCEPT !.qty = n]
                         /\ store = [st EXCEPT ![s] = p]
  OBVIOUS
<1>4. y = Made(lvs, bt, bs, ids, store, fr, live)
  <2>1. y = [x EXCEPT !.store[s] = p]
    BY <1>1, <1>3 DEF SetSize
  <2> QED
    BY <1>2, <1>3, <2>1 DEF Made
<1>5. st \in [Slots -> SlotRec] /\ o \in SlotRec
  BY <1>1, <1>3, TypedFields
<1>6. /\ p \in SlotRec /\ p.id = o.id /\ p.level = o.level /\ p.owner = o.owner
      /\ p.side = o.side /\ p.next = o.next /\ p.prev = o.prev /\ p.qty = n
  BY <1>3, <1>5 DEF SlotRec
<1>7. /\ store \in [Slots -> SlotRec] /\ store[s] = p
      /\ \A t \in Slots : t # s => store[t] = st[t]
  BY <1>3, <1>5, <1>6
<1>8. /\ lvs \in [Ix -> LevelRec] /\ bt \in [Sides -> SUBSET Ix] /\ bs \in [Sides -> Int]
      /\ ids \in [DOMAIN ids -> Slots] /\ DOMAIN ids \subseteq OrderIds /\ fr \in SlotOrNil
  BY <1>1, TypedFields
<1>9. /\ y.level = lvs /\ y.bits = bt /\ y.best = bs /\ y.ids = ids
      /\ y.store = store /\ y.free = fr /\ y.live = live /\ BookTyped(y)
  BY <1>4, <1>7, <1>8, MadeTyped
<1>10. \A t \in Slots :
         /\ store[t].id = st[t].id /\ store[t].level = st[t].level
         /\ store[t].owner = st[t].owner /\ store[t].side = st[t].side
         /\ store[t].next = st[t].next /\ store[t].prev = st[t].prev
         /\ store[t].qty = IF t = s THEN n ELSE st[t].qty
  BY <1>3, <1>6, <1>7
<1> QED
  BY <1>1, <1>9, <1>10

-----------------------------------------------------------------------------
(* The changes of the handlers keep the representation. *)

\* Where the lists start, given the cursor c of a sweep in level i.
HeadsOf(x, c, i) ==
    [j \in Places |-> IF j = FreePlace THEN x.free
                      ELSE IF c # Nil /\ j = i THEN c ELSE x.level[j].head]

\* The entries of HeadsOf.
LEMMA HeadsOfFacts ==
    ASSUME NEW x, NEW c, NEW i \in Ix
    PROVE  /\ HeadsOf(x, c, i)[FreePlace] = x.free
           /\ HeadsOf(x, c, i)[i] = IF c # Nil THEN c ELSE x.level[i].head
           /\ \A j \in Ix : j # i => HeadsOf(x, c, i)[j] = x.level[j].head
BY Parameters DEF HeadsOf

\* An idle book has no cursor.
LEMMA HeadsOfNil ==
    ASSUME NEW x, NEW i
    PROVE  /\ HeadsOf(x, Nil, i)[FreePlace] = x.free
           /\ \A j \in Ix : HeadsOf(x, Nil, i)[j] = x.level[j].head
BY Parameters DEF HeadsOf

\* The slot of an indexed order is in the list of its level.
LEMMA PlaceOf ==
    ASSUME NEW x, NEW hd, NEW Q, Rep(x, hd, Q), NEW id \in DOMAIN x.ids
    PROVE  \E i \in Ix : \E k \in 1 .. Len(Q[i]) :
              /\ Q[i][k] = x.ids[id] /\ x.store[Q[i][k]].id = id /\ Holds(x, i, Q[i][k])
<1>1. Spread(Q) /\ Indexed(x, Q) /\ Resting(x, Q) /\ BookTyped(x)
  BY DEF Rep
<1>2. PICK s : s = x.ids[id]
  OBVIOUS
<1>3. s \in Slots /\ x.store[s].id = id /\ \A m \in 1 .. Len(Q[FreePlace]) : s # Q[FreePlace][m]
  BY <1>1, <1>2, TypedIsSized DEF Indexed
<1>4. PICK i \in Places : \E k \in 1 .. Len(Q[i]) : Q[i][k] = s
  BY <1>1, <1>3, SpreadCovers
<1>5. i \in Ix
  BY <1>3, <1>4, Parameters
<1>6. PICK k \in 1 .. Len(Q[i]) : Q[i][k] = s
  BY <1>4
<1>7. Holds(x, i, Q[i][k])
  BY <1>1, <1>5 DEF Resting
<1> QED
  BY <1>2, <1>3, <1>5, <1>6, <1>7

\* The slots of a level are in their links.
LEMMA RepListed ==
    ASSUME NEW x, NEW hd, NEW Q, Rep(x, hd, Q), NEW i \in Ix, NEW k \in 1 .. Len(Q[i]),
           hd[i] = x.level[i].head
    PROVE  Listed(x, Q[i], i, k)
<1>1. Spread(Q) /\ Links(x, hd, Q) /\ BackLinks(x, Q) /\ Resting(x, Q) /\ i \in Places
  BY Parameters DEF Rep
<1>2. Distinct(Q[i])
  BY <1>1, SpreadDistinct DEF Distinct
<1>3. x.level[i].head = After(Q[i], 0) /\ Follows(x.store, Q[i])
  BY <1>1 DEF Links
<1>4. x.level[i].tail = Before(Q[i], Len(Q[i]) + 1) /\ Returns(x.store, Q[i])
  BY <1>1 DEF BackLinks
<1>5. x.store[Q[i][k]].level = i
  BY <1>1 DEF Resting, Holds
<1> QED
  BY <1>2, <1>3, <1>4, <1>5 DEF Listed

\* Out of the index, out of its level, back to the free list.
Withdrawn(x, s) == Release(Unlink(EraseId(x, x.store[s].id), s), s)

\* A cancelled order, or one that gives up its place, leaves the book.
LEMMA WithdrawKeepsRep ==
    ASSUME NEW x, NEW Q, NEW c, Rep(x, HeadsOf(x, Nil, c), Q), NEW i \in Ix,
           NEW k \in 1 .. Len(Q[i]), NEW y, y = Withdrawn(x, Q[i][k]), NEW d
    PROVE  /\ BookTyped(y)
           /\ FreedTo(x, y, Q, i, k)
           /\ Rep(y, HeadsOf(y, Nil, d), Freed(Q, i, k))
<1>0. PICK q, s, id, hd : /\ q = Q[i] /\ s = q[k] /\ id = x.store[s].id
                          /\ hd = HeadsOf(x, Nil, c)
  OBVIOUS
<1>1. PICK e, u : e = EraseId(x, id) /\ u = Unlink(e, s)
  OBVIOUS
<1>2. y = Release(u, s)
  BY <1>0, <1>1 DEF Withdrawn
<1>3. Rep(x, hd, Q) /\ BookTyped(x) /\ Spread(Q)
  BY <1>0 DEF Rep
<1>4. q \in Seq(Slots) /\ k \in 1 .. Len(q) /\ s \in Slots
  BY <1>0, <1>3, FreedLists
<1>5. /\ hd[FreePlace] = x.free /\ \A j \in Ix : hd[j] = x.level[j].head
  BY <1>0, HeadsOfNil
<1>6. Listed(x, q, i, k)
  <2>1. hd[i] = x.level[i].head
    BY <1>5
  <2>2. Listed(x, Q[i], i, k)
    BY <1>3, <2>1, RepListed
  <2> QED
    BY <1>0, <2>2
<1>7. /\ BookTyped(e)
      /\ e.level = x.level /\ e.bits = x.bits /\ e.best = x.best /\ e.store = x.store
      /\ e.free = x.free /\ e.live = x.live
      /\ \A n : n \in DOMAIN e.ids <=> n \in DOMAIN x.ids /\ n # id
      /\ \A n \in DOMAIN e.ids : e.ids[n] = x.ids[n]
  BY <1>1, <1>3, EraseIdFields
<1>8. Listed(e, q, i, k)
  BY <1>6, <1>7 DEF Listed
<1>9. /\ BookTyped(u)
      /\ u.ids = e.ids /\ u.free = e.free /\ u.live = e.live
      /\ \A t \in Slots : SameOrder(e.store[t], u.store[t])
      /\ UnlinkedTo(e, u, q, k)
      /\ LeftTo(e, u, q, i, k)
      /\ \A j \in Ix : u.level[j].head =
            IF j = i /\ k = 1 THEN After(q, 1) ELSE e.level[j].head
  <2>1. u = Unlink(e, q[k])
    BY <1>0, <1>1
  <2> QED
    BY <1>4, <1>7, <1>8, <2>1, UnlinkFields
<1>10. /\ BookTyped(y)
       /\ y.level = u.level /\ y.bits = u.bits /\ y.best = u.best /\ y.ids = u.ids
       /\ y.free = s /\ y.live = u.live - 1
       /\ y.store[s].next = u.free
       /\ \A t \in Slots : t # s => y.store[t] = u.store[t]
  <2>1. BookTyped(u) /\ s \in Slots
    BY <1>4, <1>9
  <2> QED
    BY <1>2, <2>1, ReleaseFields
<1>11. ReleasedTo(x, y, s)
  BY <1>0, <1>7, <1>9, <1>10 DEF ReleasedTo
<1>12. UnlinkedTo(x, y, q, k)
  <2>1. /\ \A t \in Slots : t # q[k] =>
             u.store[t].next = IF k > 1 /\ t = q[k - 1] THEN After(q, k) ELSE x.store[t].next
        /\ \A t \in Slots : t # q[k] /\ ~(k < Len(q) /\ t = q[k + 1]) =>
             u.store[t].prev = x.store[t].prev
        /\ 1 < k /\ k < Len(q) => u.store[q[k + 1]].prev = q[k - 1]
    BY <1>7, <1>9 DEF UnlinkedTo
  <2>2. k < Len(q) => q[k + 1] \in Slots /\ q[k + 1] # s
    <3> HAVE k < Len(q)
    <3>1. PICK n : n = k + 1
      OBVIOUS
    <3>2. n \in 1 .. Len(q) /\ n # k
      BY <1>4, <3>1
    <3>3. q[n] # q[k]
      BY <1>6, <3>2 DEF Listed, Distinct
    <3> QED
      BY <1>0, <1>4, <3>1, <3>2, <3>3
  <2> QED
    BY <1>0, <1>10, <2>1, <2>2 DEF UnlinkedTo
<1>13. LeftTo(x, y, q, i, k)
  BY <1>7, <1>9, <1>10 DEF LeftTo, RetiredTo
<1>14. FreedTo(x, y, Q, i, k)
  BY <1>0, <1>11, <1>12, <1>13 DEF FreedTo
<1>15. PICK hd2 : hd2 = HeadsOf(y, Nil, d)
  OBVIOUS
<1>16. HeadsFreed(hd, hd2, Q, i, k)
  <2>1. hd2[FreePlace] = y.free /\ \A j \in Ix : hd2[j] = y.level[j].head
    BY <1>15, HeadsOfNil
  <2>2. \A j \in Ix : y.level[j].head = IF j = i /\ k = 1 THEN After(q, 1) ELSE hd[j]
    BY <1>5, <1>7, <1>9, <1>10
  <2>3. k = 1 <=> ~(k > 1)
    BY <1>4
  <2> QED
    BY <1>0, <1>10, <2>1, <2>2, <2>3 DEF HeadsFreed
<1>17. Rep(y, hd2, Freed(Q, i, k))
  BY <1>3, <1>5, <1>10, <1>14, <1>16, FreeKeepsRep
<1> QED
  BY <1>10, <1>14, <1>15, <1>17

\* The maker in slot s of level i goes: the aggregate, the index, the free list.
Dropped(x, i, s) == Release(EraseId(LessQty(x, i, x.store[s].qty), x.store[s].id), s)

\* The inner loop ends at slot s of level i.
LeaveLevel(x, s, side, i) ==
    IF s # Nil THEN SetHead(x, i, s) ELSE RetireLevel(ClearTail(SetHead(x, i, s), i), side, i)

\* The fields after the maker has gone.
LEMMA DroppedFields ==
    ASSUME NEW x, BookTyped(x), NEW i \in Ix, NEW s \in Slots, NEW z, z = Dropped(x, i, s)
    PROVE  /\ BookTyped(z)
           /\ ReleasedTo(x, z, s)
           /\ \A t \in Slots : t # s => z.store[t] = x.store[t]
           /\ z.bits = x.bits /\ z.best = x.best
           /\ z.level[i].qty = x.level[i].qty - x.store[s].qty
           /\ z.level[i].head = x.level[i].head /\ z.level[i].tail = x.level[i].tail
           /\ \A j \in Ix : j # i => z.level[j] = x.level[j]
<1>1. PICK n, id : n = x.store[s].qty /\ id = x.store[s].id
  OBVIOUS
<1>2. PICK y, e : y = LessQty(x, i, n) /\ e = EraseId(y, id)
  OBVIOUS
<1>3. z = Release(e, s)
  BY <1>1, <1>2 DEF Dropped
<1>4. n \in Int
  BY <1>1, TypedIsSized
<1>5. /\ BookTyped(y)
      /\ y.bits = x.bits /\ y.best = x.best /\ y.ids = x.ids /\ y.store = x.store
      /\ y.free = x.free /\ y.live = x.live
      /\ y.level[i].qty = x.level[i].qty - n /\ y.level[i].head = x.level[i].head
      /\ y.level[i].tail = x.level[i].tail
      /\ \A j \in Ix : j # i => y.level[j] = x.level[j]
  BY <1>2, <1>4, QtyFields
<1>6. /\ BookTyped(e)
      /\ e.level = y.level /\ e.bits = y.bits /\ e.best = y.best /\ e.store = y.store
      /\ e.free = y.free /\ e.live = y.live
      /\ \A d : d \in DOMAIN e.ids <=> d \in DOMAIN y.ids /\ d # id
      /\ \A d \in DOMAIN e.ids : e.ids[d] = y.ids[d]
  BY <1>2, <1>5, EraseIdFields
<1>7. /\ BookTyped(z)
      /\ z.level = e.level /\ z.bits = e.bits /\ z.best = e.best /\ z.ids = e.ids
      /\ z.free = s /\ z.live = e.live - 1
      /\ z.store[s].next = e.free
      /\ \A t \in Slots : t # s => z.store[t] = e.store[t]
  BY <1>3, <1>6, ReleaseFields
<1>8. \A t \in Slots : t # s => z.store[t] = x.store[t]
  BY <1>5, <1>6, <1>7
<1>9. \A t \in Slots : t # s => SameOrder(x.store[t], z.store[t])
  BY <1>8 DEF SameOrder
<1>10. ReleasedTo(x, z, s)
  BY <1>1, <1>5, <1>6, <1>7, <1>9 DEF ReleasedTo
<1> QED
  BY <1>1, <1>5, <1>6, <1>7, <1>8, <1>10

\* The fields after the level has been left.
LEMMA LeaveFields ==
    ASSUME NEW x, BookTyped(x), NEW i \in Ix, NEW s \in SlotOrNil, NEW side \in Sides,
           NEW w, w = LeaveLevel(x, s, side, i)
    PROVE  /\ BookTyped(w)
           /\ w.ids = x.ids /\ w.store = x.store /\ w.free = x.free /\ w.live = x.live
           /\ w.level[i].qty = x.level[i].qty /\ w.level[i].head = s
           /\ w.level[i].tail = IF s # Nil THEN x.level[i].tail ELSE Nil
           /\ \A j \in Ix : j # i => w.level[j] = x.level[j]
           /\ IF s # Nil THEN w.bits = x.bits /\ w.best = x.best ELSE RetiredTo(x, w, side, i)
<1>1. PICK y, v : y = SetHead(x, i, s) /\ v = ClearTail(y, i)
  OBVIOUS
<1>2. w = IF s # Nil THEN y ELSE RetireLevel(v, side, i)
  BY <1>1 DEF LeaveLevel
<1>3. /\ BookTyped(y)
      /\ y.bits = x.bits /\ y.best = x.best /\ y.ids = x.ids /\ y.store = x.store
      /\ y.free = x.free /\ y.live = x.live
      /\ y.level[i].qty = x.level[i].qty /\ y.level[i].head = s
      /\ y.level[i].tail = x.level[i].tail
      /\ \A j \in Ix : j # i => y.level[j] = x.level[j]
  BY <1>1, HeadFields
<1>4. CASE s # Nil
  BY <1>2, <1>3, <1>4
<1>5. CASE s = Nil
  <2>1. /\ BookTyped(v)
        /\ v.bits = y.bits /\ v.best = y.best /\ v.ids = y.ids /\ v.store = y.store
        /\ v.free = y.free /\ v.live = y.live
        /\ v.level[i].qty = y.level[i].qty /\ v.level[i].head = y.level[i].head
        /\ v.level[i].tail = Nil
        /\ \A j \in Ix : j # i => v.level[j] = y.level[j]
    BY <1>1, <1>3, TailFields, SMTT(30)
  <2>2. w = RetireLevel(v, side, i)
    BY <1>2, <1>5
  <2>3. /\ BookTyped(w)
        /\ w.level = v.level /\ w.ids = v.ids /\ w.store = v.store
        /\ w.free = v.free /\ w.live = v.live
        /\ RetiredTo(v, w, side, i)
    BY <2>1, <2>2, RetireFields
  <2>4. v.bits = x.bits /\ v.best = x.best
    BY <1>3, <2>1
  <2>5. RetiredTo(x, w, side, i)
    BY <2>3, <2>4 DEF RetiredTo
  <2> QED
    BY <1>3, <1>5, <2>1, <2>3, <2>5
<1> QED
  BY <1>4, <1>5

\* The first order of a level, as the sweep meets it.
LEMMA FirstFacts ==
    ASSUME NEW x, NEW hd, NEW Q, Rep(x, hd, Q), NEW i \in Ix, Q[i] # <<>>
    PROVE  /\ 1 \in 1 .. Len(Q[i]) /\ Len(Q[i]) \in Nat
           /\ hd[i] = Q[i][1] /\ Q[i][1] \in Slots
           /\ x.store[Q[i][1]].next = After(Q[i], 1)
           /\ After(Q[i], 1) = Nil <=> Len(Q[i]) = 1
           /\ After(Q[i], 1) \in SlotOrNil
           /\ Holds(x, i, Q[i][1])
<1>1. Spread(Q) /\ Links(x, hd, Q) /\ Resting(x, Q) /\ i \in Places
  BY Parameters DEF Rep
<1>2. PICK q : q = Q[i]
  OBVIOUS
<1>3. q \in Seq(Slots) /\ Len(q) \in Nat /\ \A m \in 1 .. Len(q) : q[m] \in Slots
  BY <1>1, <1>2, SpreadCovers
<1>4. 1 \in 1 .. Len(q) /\ 0 < Len(q)
  BY <1>2, <1>3
<1>5. hd[i] = After(q, 0) /\ Follows(x.store, q)
  BY <1>1, <1>2 DEF Links
<1>6. hd[i] = q[1] /\ x.store[q[1]].next = After(q, 1)
  BY <1>4, <1>5 DEF After, Follows
<1>7. (After(q, 1) = Nil <=> Len(q) = 1) /\ After(q, 1) \in SlotOrNil
  <2>1. CASE Len(q) = 1
    BY <2>1, Parameters DEF After
  <2>2. CASE Len(q) # 1
    <3>1. 2 \in 1 .. Len(q) /\ 1 < Len(q)
      <4>1. PICK n : n = Len(q)
        OBVIOUS
      <4>2. n \in Nat /\ 0 < n /\ n # 1
        BY <1>3, <1>4, <2>2, <4>1
      <4>3. 2 \in 1 .. n /\ 1 < n
        BY <4>2
      <4> QED
        BY <4>1, <4>3
    <3>2. After(q, 1) = q[2] /\ q[2] \in Slots
      BY <1>3, <3>1 DEF After
    <3> QED
      BY <2>2, <3>2, Parameters
  <2> QED
    BY <2>1, <2>2
<1>8. Holds(x, i, q[1])
  BY <1>1, <1>2, <1>4 DEF Resting
<1> QED
  BY <1>2, <1>3, <1>4, <1>6, <1>7, <1>8

\* A filled or cancelled maker leaves the book: the sweep goes on in its level,
\* or leaves the level.
LEMMA DropKeepsRep ==
    ASSUME NEW x, NEW c, NEW Q, NEW i \in Ix, Rep(x, HeadsOf(x, c, i), Q), Q[i] # <<>>,
           NEW z, z = Dropped(x, i, Q[i][1]), NEW w, NEW d,
           w = LeaveLevel(z, x.store[Q[i][1]].next, x.store[Q[i][1]].side, i)
    PROVE  /\ x.store[Q[i][1]].next # Nil =>
                /\ FreedTo(x, z, Q, i, 1)
                /\ z.best = x.best /\ z.bits = x.bits
                /\ Rep(z, HeadsOf(z, x.store[Q[i][1]].next, i), Freed(Q, i, 1))
           /\ FreedTo(x, w, Q, i, 1)
           /\ Rep(w, HeadsOf(w, Nil, d), Freed(Q, i, 1))
<1>0. PICK q, s, nx, hd, side : /\ q = Q[i] /\ s = q[1] /\ nx = x.store[s].next
                                /\ hd = HeadsOf(x, c, i) /\ side = x.store[s].side
  OBVIOUS
<1>1. Rep(x, hd, Q) /\ BookTyped(x) /\ Spread(Q)
  BY <1>0 DEF Rep
<1>2. /\ 1 \in 1 .. Len(q) /\ Len(q) \in Nat /\ hd[i] = s /\ s \in Slots
      /\ nx = After(q, 1) /\ (nx = Nil <=> Len(q) = 1) /\ nx \in SlotOrNil
      /\ Holds(x, i, s)
  BY <1>0, <1>1, FirstFacts
<1>3. side \in Sides /\ (nx # Nil <=> 1 < Len(q)) /\ (nx = Nil <=> Len(q) = 1)
  <2>1. PICK n : n = Len(q)
    OBVIOUS
  <2>2. n \in Nat /\ 1 \in 1 .. n
    BY <1>2, <2>1
  <2>3. 1 < n <=> n # 1
    BY <2>2
  <2> QED
    BY <1>0, <1>2, <2>1, <2>3 DEF Holds
<1>4. /\ hd[FreePlace] = x.free /\ \A j \in Ix : j # i => hd[j] = x.level[j].head
  BY <1>0, HeadsOfFacts
<1>5. /\ BookTyped(z)
      /\ ReleasedTo(x, z, s)
      /\ \A t \in Slots : t # s => z.store[t] = x.store[t]
      /\ z.bits = x.bits /\ z.best = x.best
      /\ z.level[i].qty = x.level[i].qty - x.store[s].qty
      /\ z.level[i].head = x.level[i].head /\ z.level[i].tail = x.level[i].tail
      /\ \A j \in Ix : j # i => z.level[j] = x.level[j]
  BY <1>0, <1>1, <1>2, DroppedFields
<1>6. /\ BookTyped(w)
      /\ w.ids = z.ids /\ w.store = z.store /\ w.free = z.free /\ w.live = z.live
      /\ w.level[i].qty = z.level[i].qty /\ w.level[i].head = nx
      /\ w.level[i].tail = IF nx # Nil THEN z.level[i].tail ELSE Nil
      /\ \A j \in Ix : j # i => w.level[j] = z.level[j]
      /\ IF nx # Nil THEN w.bits = z.bits /\ w.best = z.best ELSE RetiredTo(z, w, side, i)
  <2>1. w = LeaveLevel(z, nx, side, i)
    BY <1>0
  <2> QED
    BY <1>2, <1>3, <1>5, <2>1, LeaveFields
<1>7. UnlinkedTo(x, z, q, 1) /\ UnlinkedTo(x, w, q, 1)
  <2>1. \A t \in Slots : t # q[1] => z.store[t] = x.store[t] /\ w.store[t] = x.store[t]
    BY <1>0, <1>5, <1>6
  <2>2. ~(1 > 1) /\ ~(1 < 1)
    OBVIOUS
  <2> QED
    BY <2>1, <2>2 DEF UnlinkedTo
<1>8. ReleasedTo(x, z, s) /\ ReleasedTo(x, w, s) /\ z.free = s /\ w.free = s
  <2>1. ReleasedTo(x, z, s)
    BY <1>5
  <2>2. w.ids = z.ids /\ w.store = z.store /\ w.free = z.free /\ w.live = z.live
    BY <1>6
  <2> QED
    BY <2>1, <2>2 DEF ReleasedTo
<1>9. nx # Nil => LeftTo(x, z, q, i, 1)
  <2> HAVE nx # Nil
  <2>1. 1 < Len(q) /\ Len(q) # 1
    BY <1>3
  <2> QED
    BY <1>0, <1>5, <2>1 DEF LeftTo
<1>10. LeftTo(x, w, q, i, 1)
  <2>1. CASE nx # Nil
    <3>1. 1 < Len(q) /\ Len(q) # 1
      BY <1>3, <2>1
    <3> QED
      BY <1>0, <1>5, <1>6, <2>1, <3>1, ZenonT(30) DEF LeftTo
  <2>2. CASE nx = Nil
    <3>1. ~(1 < Len(q)) /\ Len(q) = 1
      BY <1>3, <2>2
    <3>2. RetiredTo(x, w, side, i)
      <4>1. RetiredTo(z, w, side, i) /\ z.bits = x.bits /\ z.best = x.best
        BY <1>5, <1>6, <2>2
      <4> QED
        BY <4>1 DEF RetiredTo
    <3>3. Before(q, 1) = Nil
      BY DEF Before
    <3> QED
      BY <1>0, <1>5, <1>6, <2>2, <3>1, <3>2, <3>3, ZenonT(30) DEF LeftTo
  <2> QED
    BY <2>1, <2>2
<1>11. (nx # Nil => FreedTo(x, z, Q, i, 1)) /\ FreedTo(x, w, Q, i, 1)
  BY <1>0, <1>7, <1>8, <1>9, <1>10 DEF FreedTo
<1>12. PICK hz, hw : hz = HeadsOf(z, nx, i) /\ hw = HeadsOf(w, Nil, d)
  OBVIOUS
<1>13. nx # Nil => HeadsFreed(hd, hz, Q, i, 1)
  <2> HAVE nx # Nil
  <2>1. /\ hz[FreePlace] = z.free /\ hz[i] = nx
        /\ \A j \in Ix : j # i => hz[j] = z.level[j].head
    BY <1>12, HeadsOfFacts
  <2> QED
    BY <1>0, <1>2, <1>4, <1>5, <1>8, <2>1, SMTT(30) DEF HeadsFreed
<1>14. HeadsFreed(hd, hw, Q, i, 1)
  <2>1. hw[FreePlace] = w.free /\ \A j \in Ix : hw[j] = w.level[j].head
    BY <1>12, HeadsOfNil
  <2>2. /\ hw[FreePlace] = s /\ hw[i] = After(q, 1)
        /\ \A j \in Ix : j # i => hw[j] = hd[j]
    <3>1. w.level[i].head = nx /\ \A j \in Ix : j # i => w.level[j] = x.level[j]
      BY <1>5, <1>6
    <3>2. nx = After(q, 1)
      BY <1>2
    <3>3. \A j \in Ix : j # i => hd[j] = x.level[j].head
      BY <1>4
    <3> QED
      BY <1>8, <2>1, <3>1, <3>2, <3>3, ZenonT(30)
  <2> QED
    BY <1>0, <2>2 DEF HeadsFreed
<1>15. 1 \in 1 .. Len(Q[i])
  BY <1>0, <1>2
<1>16. Rep(w, hw, Freed(Q, i, 1))
  <2>1. BookTyped(w) /\ FreedTo(x, w, Q, i, 1) /\ hd[FreePlace] = x.free
    BY <1>4, <1>6, <1>11
  <2> QED
    BY <1>1, <1>14, <1>15, <2>1, FreeKeepsRep
<1>17. nx # Nil => Rep(z, hz, Freed(Q, i, 1))
  BY <1>1, <1>4, <1>5, <1>11, <1>13, <1>15, FreeKeepsRep
<1> QED
  BY <1>0, <1>5, <1>11, <1>12, <1>16, <1>17

\* An order of level i is amended to n.
Amended(x, i, s, n) == SetSize(LessQty(x, i, x.store[s].qty - n), s, n)

\* The fields after an amend.
LEMMA AmendedFields ==
    ASSUME NEW x, BookTyped(x), NEW i \in Ix, NEW s \in Slots, NEW n \in Nat, NEW y,
           y = Amended(x, i, s, n)
    PROVE  /\ BookTyped(y)
           /\ AmendedTo(x, y, i, s, n)
           /\ \A j \in Ix : y.level[j].head = x.level[j].head
<1>1. PICK m, v : m = x.store[s].qty - n /\ v = LessQty(x, i, m)
  OBVIOUS
<1>2. x.store[s].qty \in Nat /\ m \in Int /\ x.level[i].qty \in Int
  BY <1>1, TypedIsSized
<1>3. y = SetSize(v, s, n)
  BY <1>1 DEF Amended
<1>4. /\ BookTyped(v)
      /\ v.bits = x.bits /\ v.best = x.best /\ v.ids = x.ids /\ v.store = x.store
      /\ v.free = x.free /\ v.live = x.live
      /\ v.level[i].qty = x.level[i].qty - m /\ v.level[i].head = x.level[i].head
      /\ v.level[i].tail = x.level[i].tail
      /\ \A j \in Ix : j # i => v.level[j] = x.level[j]
  <2>1. v = LessQty(x, i, m) /\ m \in Int
    BY <1>1, <1>2
  <2> QED
    BY <2>1, QtyFields
<1>5. /\ BookTyped(y)
      /\ y.level = v.level /\ y.bits = v.bits /\ y.best = v.best /\ y.ids = v.ids
      /\ y.free = v.free /\ y.live = v.live
      /\ \A t \in Slots :
           /\ y.store[t].id = v.store[t].id /\ y.store[t].level = v.store[t].level
           /\ y.store[t].owner = v.store[t].owner /\ y.store[t].side = v.store[t].side
           /\ y.store[t].next = v.store[t].next /\ y.store[t].prev = v.store[t].prev
           /\ y.store[t].qty = IF t = s THEN n ELSE v.store[t].qty
  BY <1>3, <1>4, SizeFields, SMTT(30)
<1>6. x.level[i].qty - m = x.level[i].qty - x.store[s].qty + n
  BY <1>1, <1>2
<1>7. \A j \in Ix :
        /\ y.level[j].tail = x.level[j].tail /\ y.level[j].head = x.level[j].head
        /\ y.level[j].qty = IF j = i THEN x.level[i].qty - x.store[s].qty + n
                                     ELSE x.level[j].qty
  <2> TAKE j \in Ix
  <2>1. CASE j = i
    BY <1>4, <1>5, <1>6, <2>1
  <2>2. CASE j # i
    <3>1. y.level[j] = x.level[j]
      BY <1>4, <1>5, <2>2
    <3> QED
      BY <2>2, <3>1
  <2> QED
    BY <2>1, <2>2
<1>8. AmendedTo(x, y, i, s, n)
  <2>1. \A t \in Slots :
           /\ y.store[t].id = x.store[t].id /\ y.store[t].level = x.store[t].level
           /\ y.store[t].owner = x.store[t].owner /\ y.store[t].side = x.store[t].side
           /\ y.store[t].next = x.store[t].next /\ y.store[t].prev = x.store[t].prev
           /\ y.store[t].qty = IF t = s THEN n ELSE x.store[t].qty
    BY <1>4, <1>5
  <2>2. y.bits = x.bits /\ y.best = x.best /\ y.ids = x.ids /\ y.live = x.live
        /\ y.free = x.free
    BY <1>4, <1>5
  <2> QED
    BY <1>7, <2>1, <2>2 DEF AmendedTo
<1> QED
  BY <1>5, <1>7, <1>8

\* A smaller size is amended in place.
LEMMA ModifyKeepsRep ==
    ASSUME NEW x, NEW c, NEW Q, Rep(x, HeadsOf(x, Nil, c), Q), NEW i \in Ix,
           NEW k \in 1 .. Len(Q[i]), NEW n \in Nat \ {0}, NEW y, y = Amended(x, i, Q[i][k], n),
           NEW d
    PROVE  AmendedTo(x, y, i, Q[i][k], n) /\ Rep(y, HeadsOf(y, Nil, d), Q)
<1>1. BookTyped(x) /\ Spread(Q)
  BY DEF Rep
<1>2. Q[i][k] \in Slots /\ n \in Nat
  BY <1>1, FreedLists
<1>3. BookTyped(y) /\ AmendedTo(x, y, i, Q[i][k], n)
      /\ \A j \in Ix : y.level[j].head = x.level[j].head
  BY <1>1, <1>2, AmendedFields
<1>4. Rep(y, HeadsOf(x, Nil, c), Q)
  BY <1>3, AmendKeepsRep
<1>5. HeadsOf(y, Nil, d) = HeadsOf(x, Nil, c)
  <2>1. y.free = x.free
    BY <1>3 DEF AmendedTo
  <2>2. \A j \in Places : j # FreePlace => y.level[j].head = x.level[j].head
    BY <1>3, Parameters
  <2> QED
    BY <2>1, <2>2 DEF HeadsOf
<1> QED
  BY <1>3, <1>4, <1>5

\* The sweep leaves a level at its first order, which it may have reduced.
LEMMA LeaveKeepsRep ==
    ASSUME NEW x, NEW c, NEW Q, NEW i \in Ix, Rep(x, HeadsOf(x, c, i), Q), Q[i] # <<>>,
           NEW y, NEW n \in Nat \ {0}, BookTyped(y), AmendedTo(x, y, i, Q[i][1], n),
           \A j \in Ix : j # i => y.level[j].head = x.level[j].head,
           NEW w, NEW side \in Sides, w = LeaveLevel(y, Q[i][1], side, i), NEW d
    PROVE  AmendedTo(x, w, i, Q[i][1], n) /\ Rep(w, HeadsOf(w, Nil, d), Q)
<1>0. PICK s, hd, hw : s = Q[i][1] /\ hd = HeadsOf(x, c, i) /\ hw = HeadsOf(w, Nil, d)
  OBVIOUS
<1>1. Rep(x, hd, Q)
  BY <1>0
<1>2. s \in Slots /\ s \in SlotOrNil /\ s # Nil /\ hd[i] = s /\ 1 \in 1 .. Len(Q[i])
  BY <1>0, <1>1, FirstFacts, Parameters
<1>3. /\ BookTyped(w)
      /\ w.ids = y.ids /\ w.store = y.store /\ w.free = y.free /\ w.live = y.live
      /\ w.level[i].qty = y.level[i].qty /\ w.level[i].head = s
      /\ w.level[i].tail = IF s # Nil THEN y.level[i].tail ELSE Nil
      /\ \A j \in Ix : j # i => w.level[j] = y.level[j]
      /\ IF s # Nil THEN w.bits = y.bits /\ w.best = y.best ELSE RetiredTo(y, w, side, i)
  <2>1. w = LeaveLevel(y, s, side, i)
    BY <1>0
  <2> QED
    BY <1>2, <2>1, LeaveFields
<1>4. /\ w.bits = y.bits /\ w.best = y.best /\ w.ids = y.ids /\ w.store = y.store
      /\ w.free = y.free /\ w.live = y.live
      /\ \A j \in Ix : w.level[j].qty = y.level[j].qty /\ w.level[j].tail = y.level[j].tail
  BY <1>2, <1>3
<1>5. AmendedTo(x, w, i, Q[i][1], n)
  BY <1>4 DEF AmendedTo
<1>6. hw = hd
  <2>1. w.free = x.free
    BY <1>5 DEF AmendedTo
  <2>2. w.level[i].head = s /\ \A j \in Ix : j # i => w.level[j].head = x.level[j].head
    BY <1>3
  <2>3. /\ hw[FreePlace] = w.free /\ \A j \in Ix : hw[j] = w.level[j].head
    BY <1>0, HeadsOfNil
  <2>4. /\ hd[FreePlace] = x.free /\ \A j \in Ix : j # i => hd[j] = x.level[j].head
    BY <1>0, HeadsOfFacts
  <2>5. \A j \in Places : hw[j] = hd[j]
    BY <1>2, <2>1, <2>2, <2>3, <2>4, Parameters
  <2>6. hw = [j \in Places |-> hw[j]] /\ hd = [j \in Places |-> hd[j]]
    BY <1>0 DEF HeadsOf
  <2> QED
    BY <2>5, <2>6
<1>7. Rep(w, hd, Q)
  <2>1. BookTyped(w)
    BY <1>3
  <2> QED
    BY <1>1, <1>2, <1>5, <2>1, AmendKeepsRep
<1> QED
  BY <1>0, <1>5, <1>6, <1>7

\* A book is itself with nothing amended.
LEMMA NothingAmended ==
    ASSUME NEW x, BookTyped(x), NEW i \in Ix, NEW s \in Slots
    PROVE  AmendedTo(x, x, i, s, x.store[s].qty)
<1>1. x.store[s].qty \in Nat /\ x.level[i].qty \in Int
  BY TypedIsSized
<1>2. x.level[i].qty = x.level[i].qty - x.store[s].qty + x.store[s].qty
  BY <1>1
<1> QED
  BY <1>2 DEF AmendedTo

\* alloc and the appending of an order to its level.
LEMMA LinkFields ==
    ASSUME NEW x, BookTyped(x), NEW i \in Ix, x.free \in Slots, x.live \in Int,
           NEW id \in OrderIds, NEW owner \in Owners, NEW side \in Sides, NEW n \in Nat,
           x.level[i].tail # x.free,
           NEW y, y = Link(Alloc(x), x.free, id, owner, side, i, n)
    PROVE  /\ BookTyped(y)
           /\ y.ids = x.ids /\ y.live = x.live + 1 /\ y.free = x.store[x.free].next
           /\ y.store[x.free].id = id /\ y.store[x.free].qty = n /\ y.store[x.free].level = i
           /\ y.store[x.free].side = side /\ y.store[x.free].owner = owner
           /\ \A t \in Slots : t # x.free => SameOrder(x.store[t], y.store[t])
           /\ LinkedTo(x, y, x.free, i, side, n)
           /\ \A j \in Ix : y.level[j].head =
                IF j = i /\ x.level[i].tail = Nil THEN x.free ELSE x.level[j].head
<1> DEFINE s == x.free
           a == Alloc(x)
           lv == a.level[i]
           fresh == [id |-> id, qty |-> n, prev |-> lv.tail, level |-> i, owner |-> owner,
                     side |-> side, next |-> Nil]
           lev == [qty |-> lv.qty + n, tail |-> s, head |-> IF lv.tail = Nil THEN s ELSE lv.head]
           v == [a EXCEPT !.store[s] = fresh, !.level[i] = lev]
<1>1. y = IF lv.tail = Nil
          THEN [v EXCEPT !.bits[side] = @ \cup {i},
                         !.best[side] = IF Better(side, i, @) THEN i ELSE @]
          ELSE [v EXCEPT !.store[lv.tail].next = s]
  BY DEF Link
<1>2. PICK lvs, bt, bs, ids, st, fr, live :
        /\ lvs = x.level /\ bt = x.bits /\ bs = x.best /\ ids = x.ids
        /\ st = x.store /\ fr = x.free /\ live = x.live
  OBVIOUS
<1>3. x = Made(lvs, bt, bs, ids, st, fr, live)
  BY <1>2, TypedFields DEF Made
<1>4. PICK nf : nf = st[fr].next
  OBVIOUS
<1>5. a = Made(lvs, bt, bs, ids, st, nf, live + 1)
  <2>1. a = [x EXCEPT !.free = nf, !.live = @ + 1]
    BY <1>2, <1>4 DEF Alloc
  <2> HIDE DEF a
  <2> QED
    BY <1>3, <2>1 DEF Made
<1>6. fresh = [id |-> id, qty |-> n, prev |-> lv.tail, level |-> i, owner |-> owner,
               side |-> side, next |-> Nil]
      /\ lev = [qty |-> lv.qty + n, tail |-> s, head |-> IF lv.tail = Nil THEN s ELSE lv.head]
      /\ v = [a EXCEPT !.store[s] = fresh, !.level[i] = lev]
      /\ s = fr /\ lv = a.level[i]
  BY <1>2
<1> HIDE DEF a, s, lv, fresh, lev, v
<1>7. /\ lvs \in [Ix -> LevelRec] /\ bt \in [Sides -> SUBSET Ix] /\ bs \in [Sides -> Int]
      /\ ids \in [DOMAIN ids -> Slots] /\ DOMAIN ids \subseteq OrderIds /\ fr \in Slots
      /\ st \in [Slots -> SlotRec] /\ live \in Int /\ s = fr
  BY <1>2, <1>6, TypedFields
<1>8. lv = lvs[i] /\ lv \in LevelRec /\ lv.tail \in SlotOrNil /\ lv.head \in SlotOrNil
      /\ lv.qty \in Int /\ nf \in SlotOrNil /\ lv.tail # s
  <2>1. a.level = lvs
    BY <1>5 DEF Made
  <2>2. lv = lvs[i] /\ lvs[i] \in LevelRec /\ st[fr] \in SlotRec
    BY <1>6, <1>7, <2>1
  <2>3. lv.tail \in SlotOrNil /\ lv.head \in SlotOrNil /\ lv.qty \in Int /\ nf \in SlotOrNil
    BY <1>4, <2>2 DEF LevelRec, SlotRec
  <2> QED
    BY <1>2, <1>6, <2>2, <2>3
<1>9. /\ fresh \in SlotRec /\ fresh.id = id /\ fresh.qty = n /\ fresh.prev = lv.tail
      /\ fresh.level = i /\ fresh.owner = owner /\ fresh.side = side /\ fresh.next = Nil
  <2>1. Nil \in SlotOrNil /\ id \in InputIds /\ owner \in Owners \cup {NoId}
    BY Parameters DEF InputIds
  <2> QED
    BY <1>6, <1>8, <2>1 DEF SlotRec
<1>10. /\ lev \in LevelRec /\ lev.qty = lv.qty + n /\ lev.tail = s
       /\ lev.head = IF lv.tail = Nil THEN s ELSE lv.head
  <2>1. s \in SlotOrNil /\ lv.qty + n \in Int
    BY <1>7, <1>8, Parameters
  <2> QED
    BY <1>6, <1>8, <2>1 DEF LevelRec
<1>11. PICK store, level : store = [st EXCEPT ![s] = fresh] /\ level = [lvs EXCEPT ![i] = lev]
  OBVIOUS
<1>12. v = Made(level, bt, bs, ids, store, nf, live + 1)
  <2>1. v = [a EXCEPT !.store[s] = fresh, !.level[i] = lev]
    BY <1>6
  <2> QED
    BY <1>5, <1>11, <2>1 DEF Made
<1>13. /\ store \in [Slots -> SlotRec] /\ store[s] = fresh
       /\ \A t \in Slots : t # s => store[t] = st[t]
  BY <1>7, <1>9, <1>11
<1>14. /\ level \in [Ix -> LevelRec] /\ level[i] = lev
       /\ \A j \in Ix : j # i => level[j] = lvs[j]
  BY <1>7, <1>10, <1>11
<1>15. \A j \in Ix : level[j].head = IF j = i /\ lv.tail = Nil THEN s ELSE lvs[j].head
  BY <1>8, <1>10, <1>14
<1>16. CASE lv.tail = Nil
  <2>1. PICK bits, best : /\ bits = [bt EXCEPT ![side] = @ \cup {i}]
                          /\ best = [bs EXCEPT ![side] = IF Better(side, i, @) THEN i ELSE @]
    OBVIOUS
  <2>2. y = [v EXCEPT !.bits[side] = @ \cup {i},
                      !.best[side] = IF Better(side, i, @) THEN i ELSE @]
    BY <1>1, <1>16
  <2>3. y = Made(level, bits, best, ids, store, nf, live + 1)
    BY <1>12, <2>1, <2>2 DEF Made
  <2>4. bits \in [Sides -> SUBSET Ix]
    BY <1>7, <2>1
  <2>5. best \in [Sides -> Int]
    <3>1. i \in Int
      BY IxFacts
    <3> QED
      BY <1>7, <2>1, <3>1
  <2>6. /\ y.level = level /\ y.bits = bits /\ y.best = best /\ y.ids = ids /\ y.store = store
        /\ y.free = nf /\ y.live = live + 1 /\ BookTyped(y)
    BY <1>7, <1>8, <1>13, <1>14, <2>3, <2>4, <2>5, MadeTyped
  <2>7. MarkedTo(x, y, side, i)
    <3> SUFFICES ASSUME NEW sd \in Sides
                 PROVE  /\ \A j : j \in bits[sd] <=> j \in bt[sd] \/ (sd = side /\ j = i)
                        /\ best[sd] = IF sd = side /\ Better(side, i, bs[sd]) THEN i ELSE bs[sd]
      BY <1>2, <2>6 DEF MarkedTo
    <3> QED
      BY <1>7, <2>1
  <2>8. /\ \A t \in Slots : t # s => y.store[t] = st[t]
        /\ y.store[s] = fresh
    BY <1>13, <2>6
  <2>9. s \in Slots /\ \A t \in Slots : t # lv.tail
    BY <1>7, <1>16, Parameters
  <2>10. LinkedTo(x, y, s, i, side, n)
    <3>1. y.store[s].prev = x.level[i].tail /\ y.store[s].next = Nil
      BY <1>2, <1>8, <1>9, <2>8
    <3>2. \A t \in Slots : t # s =>
            /\ y.store[t].next = IF t = x.level[i].tail THEN s ELSE x.store[t].next
            /\ y.store[t].prev = x.store[t].prev
      BY <1>2, <1>8, <2>8, <2>9
    <3>3. \A j \in Ix : j # i => y.level[j].tail = x.level[j].tail /\ y.level[j].qty = x.level[j].qty
      BY <1>2, <1>14, <2>6
    <3>4. y.level[i].qty = x.level[i].qty + n /\ y.level[i].tail = s
      BY <1>2, <1>8, <1>10, <1>14, <2>6
    <3>5. x.level[i].tail = Nil
      BY <1>2, <1>8, <1>16
    <3> QED
      BY <2>7, <3>1, <3>2, <3>3, <3>4, <3>5 DEF LinkedTo
  <2>11. \A t \in Slots : t # s => SameOrder(x.store[t], y.store[t])
    BY <1>2, <2>8 DEF SameOrder
  <2>12. \A j \in Ix : y.level[j].head =
           IF j = i /\ x.level[i].tail = Nil THEN s ELSE x.level[j].head
    BY <1>2, <1>8, <1>15, <2>6
  <2> QED
    BY <1>2, <1>4, <1>6, <1>9, <2>6, <2>8, <2>10, <2>11, <2>12
<1>17. CASE lv.tail # Nil
  <2>1. lv.tail \in Slots
    BY <1>8, <1>17, Parameters
  <2>2. PICK tl, o, p, store2 : /\ tl = lv.tail /\ o = st[tl] /\ p = [o EXCEPT !.next = s]
                                /\ store2 = [store EXCEPT ![tl] = p]
    OBVIOUS
  <2>3. store[tl] = o /\ o \in SlotRec /\ tl \in Slots /\ tl # s
    BY <1>7, <1>8, <1>13, <2>1, <2>2
  <2>4. y = [v EXCEPT !.store[tl].next = s]
    BY <1>1, <1>17, <2>2
  <2>5. y = Made(level, bt, bs, ids, store2, nf, live + 1)
    <3>1. y = Made(level, bt, bs, ids, [store EXCEPT ![tl].next = s], nf, live + 1)
      BY <1>12, <2>4 DEF Made
    <3>2. [store EXCEPT ![tl].next = s] = store2
      BY <1>13, <2>2, <2>3
    <3> QED
      BY <3>1, <3>2
  <2>6. /\ p \in SlotRec /\ SameOrder(o, p) /\ p.next = s /\ p.prev = o.prev
    <3>1. s \in SlotOrNil
      BY <1>7, Parameters
    <3> QED
      BY <2>2, <2>3, <3>1 DEF SlotRec, SameOrder
  <2>7. /\ store2 \in [Slots -> SlotRec] /\ store2[s] = fresh /\ store2[tl] = p
        /\ \A t \in Slots : t # s /\ t # tl => store2[t] = st[t]
    BY <1>7, <1>13, <2>2, <2>3, <2>6
  <2>8. /\ y.level = level /\ y.bits = bt /\ y.best = bs /\ y.ids = ids /\ y.store = store2
        /\ y.free = nf /\ y.live = live + 1 /\ BookTyped(y)
    BY <1>7, <1>8, <1>14, <2>5, <2>7, MadeTyped
  <2>9. \A t \in Slots : t # s =>
          /\ SameOrder(st[t], store2[t])
          /\ store2[t].next = IF t = tl THEN s ELSE st[t].next
          /\ store2[t].prev = st[t].prev
    <3> SUFFICES ASSUME NEW t \in Slots, t # s
                 PROVE  /\ SameOrder(st[t], store2[t])
                        /\ store2[t].next = IF t = tl THEN s ELSE st[t].next
                        /\ store2[t].prev = st[t].prev
      OBVIOUS
    <3>1. CASE t = tl
      BY <2>2, <2>6, <2>7, <3>1
    <3>2. CASE t # tl
      <4>1. store2[t] = st[t]
        BY <2>7, <3>2
      <4> QED
        BY <3>2, <4>1 DEF SameOrder
    <3> QED
      BY <3>1, <3>2
  <2>10. LinkedTo(x, y, s, i, side, n)
    <3>1. y.store[s].prev = x.level[i].tail /\ y.store[s].next = Nil
      BY <1>2, <1>8, <1>9, <2>7, <2>8
    <3>2. \A t \in Slots : t # s =>
            /\ y.store[t].next = IF t = x.level[i].tail THEN s ELSE x.store[t].next
            /\ y.store[t].prev = x.store[t].prev
      <4>1. x.level[i].tail = tl /\ y.store = store2 /\ x.store = st
        BY <1>2, <1>8, <2>2, <2>8
      <4> QED
        BY <2>9, <4>1
    <3>3. \A j \in Ix : j # i => y.level[j].tail = x.level[j].tail /\ y.level[j].qty = x.level[j].qty
      BY <1>2, <1>14, <2>8
    <3>4. y.level[i].qty = x.level[i].qty + n /\ y.level[i].tail = s
      BY <1>2, <1>8, <1>10, <1>14, <2>8
    <3>5. x.level[i].tail # Nil /\ y.bits = x.bits /\ y.best = x.best
      BY <1>2, <1>8, <1>17, <2>8
    <3> QED
      BY <3>1, <3>2, <3>3, <3>4, <3>5 DEF LinkedTo
  <2>11. \A t \in Slots : t # s => SameOrder(x.store[t], y.store[t])
    BY <1>2, <2>8, <2>9
  <2>12. \A j \in Ix : y.level[j].head =
           IF j = i /\ x.level[i].tail = Nil THEN s ELSE x.level[j].head
    BY <1>2, <1>8, <1>15, <2>8
  <2> QED
    BY <1>2, <1>4, <1>6, <1>9, <2>7, <2>8, <2>10, <2>11, <2>12
<1> QED
  BY <1>16, <1>17

\* A remainder comes to rest: alloc, the level, the index.
RestedIn(x, id, owner, side, i, n) ==
    InsertId(Link(Alloc(x), x.free, id, owner, side, i, n), id, x.free)

\* The remainder of an order that crosses nothing joins the back of its level.
LEMMA RestInKeepsRep ==
    ASSUME NEW x, NEW c, NEW Q, Rep(x, HeadsOf(x, Nil, c), Q), NEW i \in Ix, x.free # Nil,
           NEW id \in OrderIds, NEW owner \in Owners, NEW side \in Sides, NEW n \in Nat \ {0},
           Clear(x, side, i), id \notin DOMAIN x.ids,
           NEW y, y = RestedIn(x, id, owner, side, i, n), NEW d
    PROVE  /\ RestedTo(x, y, i, id, side, n) /\ y.store[x.free].owner = owner
           /\ Rep(y, HeadsOf(y, Nil, d), Rested(Q, i))
<1>0. PICK s, hd, hd2, v : /\ s = x.free /\ hd = HeadsOf(x, Nil, c) /\ hd2 = HeadsOf(y, Nil, d)
                           /\ v = Link(Alloc(x), x.free, id, owner, side, i, n)
  OBVIOUS
<1>1. Rep(x, hd, Q) /\ BookTyped(x)
  BY <1>0 DEF Rep
<1>2. hd[FreePlace] = x.free /\ \A j \in Ix : hd[j] = x.level[j].head
  BY <1>0, HeadsOfNil
<1>3. /\ i \in Places /\ i # FreePlace /\ FreePlace \in Places /\ s \in Slots
      /\ \A m \in 1 .. Len(Q[i]) : Q[i][m] # s
  BY <1>0, <1>1, <1>2, RestedLists
<1>4. x.level[i].tail # s
  <2>1. CASE Q[i] = <<>>
    <3>1. x.level[i].tail = Nil
      BY <1>1, <2>1, TailFacts
    <3> QED
      BY <1>3, <3>1, Parameters
  <2>2. CASE Q[i] # <<>>
    <3>1. PICK m : m = Len(Q[i])
      OBVIOUS
    <3>2. Q[i] \in Seq(Slots)
      BY <1>1, <1>2, RestedLists
    <3>3. m \in 1 .. Len(Q[i])
      BY <2>2, <3>1, <3>2
    <3>4. Q[i][m] = x.level[i].tail
      BY <1>1, <3>1, <3>3, TailFacts
    <3> QED
      BY <1>3, <3>3, <3>4
  <2> QED
    BY <2>1, <2>2
<1>5. x.live \in Int
  <2>1. IsFiniteSet(DOMAIN x.ids) /\ x.live = Cardinality(DOMAIN x.ids)
    BY <1>1 DEF Rep, Counted
  <2> QED
    BY <2>1, FS_CardinalityType
<1>6. /\ BookTyped(v)
      /\ v.ids = x.ids /\ v.live = x.live + 1 /\ v.free = x.store[x.free].next
      /\ v.store[x.free].id = id /\ v.store[x.free].qty = n /\ v.store[x.free].level = i
      /\ v.store[x.free].side = side /\ v.store[x.free].owner = owner
      /\ \A t \in Slots : t # x.free => SameOrder(x.store[t], v.store[t])
      /\ LinkedTo(x, v, x.free, i, side, n)
      /\ \A j \in Ix : v.level[j].head =
           IF j = i /\ x.level[i].tail = Nil THEN x.free ELSE x.level[j].head
  <2>1. x.free \in Slots /\ x.level[i].tail # x.free /\ n \in Nat
    BY <1>0, <1>3, <1>4
  <2>2. v = Link(Alloc(x), x.free, id, owner, side, i, n)
    BY <1>0
  <2> QED
    BY <1>1, <1>5, <2>1, <2>2, LinkFields
<1>7. /\ BookTyped(y)
      /\ y.level = v.level /\ y.bits = v.bits /\ y.best = v.best /\ y.store = v.store
      /\ y.free = v.free /\ y.live = v.live
      /\ \A m : m \in DOMAIN y.ids <=> m \in DOMAIN v.ids \/ m = id
      /\ \A m \in DOMAIN v.ids : m # id => y.ids[m] = v.ids[m]
      /\ y.ids[id] = s
  <2>1. y = InsertId(v, id, s) /\ BookTyped(v)
    BY <1>0, <1>6 DEF RestedIn
  <2> QED
    BY <1>3, <2>1, InsertIdFields
<1>8. FilledTo(x, y, x.free, i, id, side, n)
  BY <1>0, <1>6, <1>7 DEF FilledTo
<1>9. LinkedTo(x, y, x.free, i, side, n)
  BY <1>6, <1>7 DEF LinkedTo, MarkedTo
<1>10. RestedTo(x, y, i, id, side, n)
  BY <1>8, <1>9 DEF RestedTo
<1>11. HeadsRested(x, hd, hd2, i)
  <2>1. hd2[FreePlace] = y.free /\ \A j \in Ix : hd2[j] = y.level[j].head
    BY <1>0, HeadsOfNil
  <2>2. hd2[FreePlace] = x.store[x.free].next
    BY <1>6, <1>7, <2>1
  <2>3. \A j \in Ix : hd2[j] = IF j = i /\ x.level[i].tail = Nil THEN x.free ELSE hd[j]
    BY <1>2, <1>6, <1>7, <2>1
  <2> QED
    BY <2>2, <2>3 DEF HeadsRested
<1>12. Rep(y, hd2, Rested(Q, i))
  <2>1. BookTyped(y) /\ hd[FreePlace] = x.free
    BY <1>2, <1>7
  <2> QED
    BY <1>1, <1>10, <1>11, <2>1, RestKeepsRep
<1> QED
  BY <1>0, <1>6, <1>7, <1>10, <1>12

-----------------------------------------------------------------------------
(* The invariant holds initially. *)

\* All slots are free, in order.
FirstLists ==
    [j \in Places |-> IF j = FreePlace THEN [m \in 1 .. Capacity |-> m - 1] ELSE <<>>]

\* The first lists share the slots out.
LEMMA FirstSpread ==
    /\ Spread(FirstLists)
    /\ Len(FirstLists[FreePlace]) = Capacity
    /\ \A m \in 1 .. Capacity : FirstLists[FreePlace][m] = m - 1
    /\ \A j \in Ix : FirstLists[j] = <<>>
<1>1. PICK f : f = [m \in 1 .. Capacity |-> m - 1]
  OBVIOUS
<1>2. Capacity \in Nat /\ Slots = 0 .. Capacity - 1
  BY Parameters
<1>3. /\ f \in Seq(Slots) /\ Len(f) = Capacity /\ \A m \in 1 .. Capacity : f[m] = m - 1
  BY <1>1, <1>2
<1>4. /\ FirstLists[FreePlace] = f /\ \A j \in Ix : FirstLists[j] = <<>>
      /\ FirstLists \in [Places -> Seq(Slots)]
  <2>1. FreePlace \in Places /\ \A j \in Ix : j \in Places /\ j # FreePlace
    BY Parameters
  <2>2. <<>> \in Seq(Slots)
    OBVIOUS
  <2> QED
    BY <1>1, <1>3, <2>1, <2>2 DEF FirstLists
<1> DEFINE at == [s \in Slots |-> FreePlace]
           pos == [s \in Slots |-> s + 1]
<1>5. at \in [Slots -> Places] /\ pos \in [Slots -> Nat]
  BY <1>2, Parameters
<1>6. \A s \in Slots : at[s] = FreePlace /\ pos[s] = s + 1
  OBVIOUS
<1> HIDE DEF at, pos
<1>7. \A s \in Slots :
        pos[s] \in 1 .. Len(FirstLists[at[s]]) /\ FirstLists[at[s]][pos[s]] = s
  <2> TAKE s \in Slots
  <2>1. s + 1 \in 1 .. Capacity /\ (s + 1) - 1 = s
    BY <1>2
  <2>2. f[s + 1] = s
    BY <1>3, <2>1
  <2> QED
    BY <1>3, <1>4, <1>6, <2>1, <2>2
<1>8. \A i \in Places : \A k \in 1 .. Len(FirstLists[i]) :
        at[FirstLists[i][k]] = i /\ pos[FirstLists[i][k]] = k
  <2> TAKE i \in Places
  <2> TAKE k \in 1 .. Len(FirstLists[i])
  <2>1. CASE i = FreePlace
    <3>1. k \in 1 .. Capacity /\ k - 1 \in Slots /\ (k - 1) + 1 = k
      BY <1>2, <1>3, <1>4, <2>1
    <3>2. FirstLists[i][k] = k - 1
      BY <1>3, <1>4, <2>1, <3>1
    <3> QED
      BY <1>6, <2>1, <3>1, <3>2
  <2>2. CASE i # FreePlace
    <3>1. FirstLists[i] = <<>>
      BY <1>4, <2>2, Parameters
    <3>2. Len(FirstLists[i]) = 0
      BY <3>1
    <3> QED
      BY <3>2
  <2> QED
    BY <2>1, <2>2
<1>9. Located(FirstLists, at, pos)
  BY <1>5, <1>7, <1>8 DEF Located
<1> QED
  BY <1>3, <1>4, <1>9 DEF Spread

\* The book as it is constructed stands for empty levels.
LEMMA FirstRep ==
    ASSUME NEW x,
           x = Made([i \in Ix |-> EmptyLevel], [side \in Sides |-> {}], NoBest, << >>,
                    [s \in Slots |-> FreeSlot(s + 1)], 0, 0), NEW d
    PROVE  Rep(x, HeadsOf(x, Nil, d), FirstLists)
<1>0. PICK level, bits, best, ids, store :
        /\ level = [i \in Ix |-> EmptyLevel] /\ bits = [side \in Sides |-> {}]
        /\ best = NoBest /\ ids = << >> /\ store = [s \in Slots |-> FreeSlot(s + 1)]
  OBVIOUS
<1>1. x = Made(level, bits, best, ids, store, 0, 0)
  BY <1>0
<1>2. Capacity \in Nat /\ Capacity # 0 /\ Slots = 0 .. Capacity - 1 /\ Nil = Capacity
      /\ 0 \in SlotOrNil /\ Nil \in SlotOrNil /\ 0 \in Ix /\ Top \in Nat
      /\ \A s \in Slots : s + 1 \in SlotOrNil
  BY Parameters, IxFacts DEF SlotOrNil
<1>3. /\ level \in [Ix -> LevelRec]
      /\ \A i \in Ix : level[i].qty = 0 /\ level[i].head = Nil /\ level[i].tail = Nil
  BY <1>0, <1>2 DEF EmptyLevel, LevelRec
<1>4. bits \in [Sides -> SUBSET Ix] /\ \A side \in Sides : bits[side] = {}
  BY <1>0
<1>5. best \in [Sides -> Int] /\ best["Buy"] = -1 /\ best["Sell"] = Top + 1
  BY <1>0, <1>2 DEF NoBest, Sides
<1>6. ids \in [DOMAIN ids -> Slots] /\ DOMAIN ids \subseteq OrderIds /\ DOMAIN ids = {}
  BY <1>0
<1>7. /\ store \in [Slots -> SlotRec] /\ \A s \in Slots : store[s].next = s + 1
  <2>1. \A s \in Slots : FreeSlot(s + 1) \in SlotRec /\ FreeSlot(s + 1).next = s + 1
    <3> TAKE s \in Slots
    <3>1. NoId \in InputIds /\ NoId \in Owners \cup {NoId} /\ s + 1 \in SlotOrNil
      BY <1>2 DEF InputIds
    <3> QED
      BY <1>2, <3>1 DEF FreeSlot, SlotRec, Sides
  <2> QED
    BY <1>0, <2>1
<1>8. /\ x.level = level /\ x.bits = bits /\ x.best = best /\ x.ids = ids
      /\ x.store = store /\ x.free = 0 /\ x.live = 0 /\ BookTyped(x)
  <2>1. /\ level \in [Ix -> LevelRec] /\ bits \in [Sides -> SUBSET Ix]
        /\ best \in [Sides -> Int] /\ ids \in [DOMAIN ids -> Slots]
        /\ DOMAIN ids \subseteq OrderIds /\ store \in [Slots -> SlotRec]
        /\ 0 \in SlotOrNil
    BY <1>2, <1>3, <1>4, <1>5, <1>6, <1>7
  <2>2. PICK y, none : y = x /\ none = 0 /\ y = Made(level, bits, best, ids, store, none, none)
    BY <1>1
  <2>3. none \in SlotOrNil /\ y = Made(level, bits, best, ids, store, none, none)
    BY <2>1, <2>2
  <2>4. /\ y.level = level /\ y.bits = bits /\ y.best = best /\ y.ids = ids
        /\ y.store = store /\ y.free = none /\ y.live = none
    BY <2>3, MadeTyped
  <2>5. BookTyped(y)
    <3>1. y = Made(y.level, y.bits, y.best, y.ids, y.store, y.free, y.live)
      BY <2>3, <2>4
    <3> QED
      BY <2>1, <2>3, <2>4, <3>1 DEF BookTyped, Made
  <2> QED
    BY <2>2, <2>4, <2>5
<1>9. PICK Q, hd : Q = FirstLists /\ hd = HeadsOf(x, Nil, d)
  OBVIOUS
<1>10. /\ Spread(Q) /\ Len(Q[FreePlace]) = Capacity
       /\ \A m \in 1 .. Capacity : Q[FreePlace][m] = m - 1
       /\ \A j \in Ix : Q[j] = <<>>
  BY <1>9, FirstSpread
<1>11. \A j \in Ix : Q[j] = <<>> /\ Len(Q[j]) = 0
  BY <1>10
<1>12. hd[FreePlace] = 0 /\ \A j \in Ix : hd[j] = Nil
  BY <1>3, <1>8, <1>9, HeadsOfNil, ZenonT(30)
<1>13. Links(x, hd, Q)
  <2> SUFFICES ASSUME NEW j \in Places PROVE hd[j] = After(Q[j], 0) /\ Follows(x.store, Q[j])
    BY DEF Links
  <2>1. CASE j = FreePlace
    <3>1. PICK f : f = Q[FreePlace]
      OBVIOUS
    <3>2. Len(f) = Capacity /\ \A m \in 1 .. Capacity : f[m] = m - 1
      BY <1>10, <3>1
    <3>3. After(f, 0) = 0
      <4>1. 0 < Len(f) /\ 1 \in 1 .. Capacity
        BY <1>2, <3>2
      <4> QED
        BY <3>2, <4>1 DEF After
    <3>4. \A m \in 1 .. Len(f) : store[f[m]].next = After(f, m)
      <4> TAKE m \in 1 .. Len(f)
      <4>1. m \in 1 .. Capacity /\ m - 1 \in Slots /\ (m - 1) + 1 = m
        BY <1>2, <3>2
      <4>2. f[m] = m - 1 /\ store[m - 1].next = (m - 1) + 1
        BY <1>7, <3>2, <4>1
      <4>3. CASE m < Capacity
        <5>1. m + 1 \in 1 .. Capacity /\ (m + 1) - 1 = m
          BY <1>2, <4>1, <4>3
        <5> QED
          BY <3>2, <4>1, <4>2, <4>3, <5>1 DEF After
      <4>4. CASE ~(m < Capacity)
        <5>1. m = Capacity
          BY <1>2, <4>1, <4>4
        <5> QED
          BY <1>2, <3>2, <4>1, <4>2, <4>4, <5>1 DEF After
      <4> QED
        BY <4>3, <4>4
    <3> QED
      BY <1>8, <1>12, <2>1, <3>1, <3>3, <3>4 DEF Follows
  <2>2. CASE j # FreePlace
    <3>1. j \in Ix
      BY <2>2, Parameters
    <3>2. Len(Q[j]) = 0 /\ hd[j] = Nil
      BY <1>11, <1>12, <3>1
    <3> QED
      BY <3>2 DEF After, Follows
  <2> QED
    BY <2>1, <2>2
<1>14. BackLinks(x, Q)
  <2> SUFFICES ASSUME NEW j \in Ix
               PROVE  x.level[j].tail = Before(Q[j], Len(Q[j]) + 1) /\ Returns(x.store, Q[j])
    BY DEF BackLinks
  <2>1. Len(Q[j]) = 0 /\ x.level[j].tail = Nil
    BY <1>3, <1>8, <1>11
  <2> QED
    BY <2>1 DEF Before, Returns
<1>15. Aggregates(x, Q)
  <2>1. Sized(x) /\ Total(x, <<>>) = 0
    BY <1>8, TypedIsSized, TotalEmpty
  <2> QED
    BY <1>3, <1>8, <1>11, <2>1 DEF Aggregates
<1>16. Resting(x, Q) /\ Indexed(x, Q)
  <2>1. Resting(x, Q)
    <3>1. \A i \in Ix : \A k \in 1 .. Len(Q[i]) : FALSE
      BY <1>11
    <3> QED
      BY <3>1 DEF Resting
  <2>2. Indexed(x, Q)
    <3>1. \A id \in DOMAIN x.ids : FALSE
      BY <1>6, <1>8
    <3> QED
      BY <3>1 DEF Indexed
  <2> QED
    BY <2>1, <2>2
<1>17. Marked(x.bits, Q)
  BY <1>4, <1>8, <1>11 DEF Marked, Sides
<1>18. Cached(x)
  <2> SUFFICES ASSUME NEW side \in Sides PROVE best[side] = BestOf(side, bits[side])
    BY <1>8 DEF Cached
  <2>1. PICK set : set = bits[side]
    OBVIOUS
  <2>2. set = {} /\ set \in SUBSET Ix
    BY <1>4, <2>1
  <2>3. BestOf(side, set) = IF side = "Sell" THEN Top + 1 ELSE -1
    BY <2>2, BestFacts
  <2>4. best[side] = IF side = "Sell" THEN Top + 1 ELSE -1
    BY <1>5 DEF Sides
  <2> QED
    BY <2>1, <2>3, <2>4
<1>19. Counted(x)
  BY <1>6, <1>8, FS_EmptySet DEF Counted
<1> QED
  BY <1>8, <1>9, <1>10, <1>13, <1>14, <1>15, <1>16, <1>17, <1>18, <1>19 DEF Rep

\* The heads of the current state, and of the next.
LEMMA CurrentHeads ==
    Heads = HeadsOf(b, cursor, BestIx)
BY DEF Heads, HeadsOf, TrueHead

\* The next heads.
LEMMA NextHeads ==
    Heads' = HeadsOf(b', cursor', BestIx')
BY DEF Heads, HeadsOf, TrueHead, BestIx, MakerSide

\* Without a cursor the stored heads are the heads.
LEMMA HeadsIdle ==
    ASSUME NEW x, NEW i, NEW j
    PROVE  HeadsOf(x, Nil, i) = HeadsOf(x, Nil, j)
BY DEF HeadsOf

\* The invariant of the initial states.
THEOREM InitInv == Init => Inv
<1> SUFFICES ASSUME Init PROVE Inv
  OBVIOUS
<1>1. b = Made([i \in Ix |-> EmptyLevel], [side \in Sides |-> {}], NoBest, << >>,
               [s \in Slots |-> FreeSlot(s + 1)], 0, 0)
  BY DEF Init, Made
<1>2. Heads = HeadsOf(b, Nil, BestIx)
  BY CurrentHeads DEF Init
<1>3. Rep(b, HeadsOf(b, Nil, BestIx), FirstLists)
  BY <1>1, FirstRep
<1>4. BookInv
  BY <1>2, <1>3 DEF BookInv
<1>5. TakerInv
  BY Parameters DEF Init, TakerInv
<1> QED
  BY <1>4, <1>5 DEF Inv


-----------------------------------------------------------------------------
(* The sweep. *)

\* An order crosses the best level of the other side, which holds orders, or no
\* level of that side at all.
LEMMA CrossFacts ==
    ASSUME NEW hd, NEW Q, Rep(b, hd, Q), NEW side \in Sides, NEW lim \in Ix
    PROVE  /\ Opposite(side) \in Sides
           /\ Crosses(side, lim) =>
                /\ b.best[Opposite(side)] \in b.bits[Opposite(side)]
                /\ b.best[Opposite(side)] \in Ix
                /\ Q[b.best[Opposite(side)]] # <<>>
           /\ ~Crosses(side, lim) => Clear(b, side, lim)
<1>1. /\ BookTyped(b) /\ Marked(b.bits, Q) /\ Cached(b)
  BY DEF Rep
<1>2. Opposite(side) \in Sides
  BY DEF Opposite, Sides
<1>3. PICK o, set, v : o = Opposite(side) /\ set = b.bits[o] /\ v = b.best[o]
  OBVIOUS
<1>4. o \in Sides /\ set \in SUBSET Ix
  BY <1>1, <1>2, <1>3 DEF BookTyped
<1>5. v = BestOf(o, set)
  BY <1>1, <1>3, <1>4 DEF Cached
<1>6. /\ v \in Int
      /\ set # {} => v \in set
      /\ \A k \in set : AtLeast(o, v, k)
      /\ set = {} => v = IF o = "Sell" THEN Top + 1 ELSE -1
  BY <1>4, <1>5, BestFacts
<1>7. Crosses(side, lim) <=> IF side = "Buy" THEN v =< lim ELSE v >= lim
  BY <1>3 DEF Crosses, Opposite, Sides
<1>8. o = IF side = "Buy" THEN "Sell" ELSE "Buy"
  BY <1>3 DEF Opposite
<1>9. lim \in Int /\ 0 =< lim /\ lim =< Top /\ Top \in Nat /\ \A k \in set : k \in Int
  BY <1>4, IxFacts
<1>10. ASSUME Crosses(side, lim) PROVE v \in set /\ v \in Ix /\ Q[v] # <<>>
  <2>1. set # {}
    BY <1>6, <1>7, <1>8, <1>9, <1>10
  <2>2. v \in set /\ v \in Ix
    BY <1>4, <1>6, <2>1
  <2> QED
    BY <1>1, <1>3, <1>4, <2>2 DEF Marked, Sides
<1>11. ASSUME ~Crosses(side, lim)
       PROVE  \A j \in set : IF side = "Buy" THEN lim < j ELSE j < lim
  <2> TAKE j \in set
  <2>1. AtLeast(o, v, j) /\ j \in Int
    BY <1>6, <1>9
  <2> QED
    BY <1>6, <1>7, <1>8, <1>9, <1>11, <2>1 DEF AtLeast
<1> QED
  BY <1>2, <1>3, <1>10, <1>11 DEF Clear

\* The orders that can be matched.
LEMMA TakersAre ==
    Ref!Takers = [id : OrderIds, owner : Owners, side : Sides, limit : Prices, qty : Nat,
                  stp : Stps, stop : BOOLEAN, px : Prices \cup {0},
                  tif : {"Day", "Ioc", "Fok"}, rests : BOOLEAN]
BY DEF Ref!Takers, Ref!Sides, Ref!Prices, Ref!Stps, Sides, Prices, Stps

\* The limit of an order as a level.
LEMMA LimitFacts ==
    ASSUME NEW p \in Prices
    PROVE  Rel(p) \in Ix /\ Px(Rel(p)) = p
BY BookAssumption DEF Rel, Px, Prices, Ix, Top

\* A level as a price.
LEMMA PriceFacts ==
    ASSUME NEW i \in Ix
    PROVE  Px(i) \in Prices /\ Rel(Px(i)) = i
BY BookAssumption DEF Rel, Px, Prices, Ix, Top

\* A marked level belongs to one side only.
LEMMA OneSide ==
    ASSUME NEW hd, NEW Q, NEW x, Rep(x, hd, Q), NEW side \in Sides, NEW sd \in Sides,
           NEW i \in x.bits[side], i \in x.bits[sd]
    PROVE  sd = side
<1>1. Marked(x.bits, Q) /\ i \in Int
  <2>1. BookTyped(x) /\ Marked(x.bits, Q)
    BY DEF Rep
  <2>2. i \in Ix
    BY <2>1 DEF BookTyped
  <2> QED
    BY <2>1, <2>2, IxFacts
<1>2. ~(i < i)
  BY <1>1
<1> QED
  BY <1>1, <1>2 DEF Marked, Sides

\* An iteration of the sweep meets the first order of the best level.
LEMMA MakerMet ==
    ASSUME TakerInv, Matching, NEW Q, Rep(b, Heads, Q)
    PROVE  /\ pc = "sweep" /\ taker \in Ref!Takers /\ taker.id \notin DOMAIN b.ids
           /\ taker.qty \in Nat /\ taker.qty # 0 /\ ~taker.stop /\ taker.side \in Sides
           /\ Crosses(taker.side, Rel(taker.limit)) /\ Rel(taker.limit) \in Ix
           /\ MakerSide \in Sides /\ BestIx \in Ix /\ BestIx \in b.bits[MakerSide]
           /\ Q[BestIx] # <<>>
           /\ MakerSlot = Q[BestIx][1] /\ MakerSlot \in Slots /\ Holds(b, BestIx, MakerSlot)
           /\ Maker.side = MakerSide /\ Maker.qty \in Nat /\ Maker.qty # 0
           /\ Maker.next = After(Q[BestIx], 1)
<1>1. /\ pc = "sweep" /\ taker \in Ref!Takers /\ taker.id \notin DOMAIN b.ids
      /\ taker.qty # 0 /\ ~taker.stop /\ Crosses(taker.side, Rel(taker.limit))
  BY DEF TakerInv, Matching
<1>2. taker.qty \in Nat /\ taker.side \in Sides /\ taker.limit \in Prices
  BY <1>1, TakersAre
<1>3. Rel(taker.limit) \in Ix
  BY <1>2, LimitFacts
<1>4. MakerSide \in Sides /\ BestIx \in b.bits[MakerSide] /\ BestIx \in Ix /\ Q[BestIx] # <<>>
  BY <1>1, <1>2, <1>3, CrossFacts DEF MakerSide, BestIx
<1>5. MakerSlot = Heads[BestIx]
  BY <1>4, Parameters DEF MakerSlot, Heads, TrueHead
<1>6. /\ MakerSlot = Q[BestIx][1] /\ MakerSlot \in Slots /\ Holds(b, BestIx, MakerSlot)
      /\ b.store[MakerSlot].next = After(Q[BestIx], 1)
  BY <1>4, <1>5, FirstFacts
<1>7. Maker.side \in Sides /\ BestIx \in b.bits[Maker.side] /\ Maker.qty # 0
  BY <1>6 DEF Holds, Maker
<1>8. Maker.side = MakerSide
  BY <1>4, <1>7, OneSide
<1>9. Maker.qty \in Nat
  BY <1>6 DEF Rep, BookTyped, SlotRec, Maker
<1> QED
  BY <1>1, <1>2, <1>3, <1>4, <1>6, <1>7, <1>8, <1>9 DEF Maker


\* An iteration that stops at the maker stores it as the head of its level.
LEMMA MakerStays ==
    ASSUME TakerInv, Matching, NEW Q, Rep(b, Heads, Q), EndIteration(b, MakerSlot, TRUE)
    PROVE  /\ cursor' = Nil
           /\ AmendedTo(b, b', BestIx, MakerSlot, Maker.qty)
           /\ Rep(b', Heads', Q)
<1>1. /\ MakerSide \in Sides /\ BestIx \in Ix /\ Q[BestIx] # <<>>
      /\ MakerSlot = Q[BestIx][1] /\ MakerSlot \in Slots
      /\ Maker.qty \in Nat \ {0}
  BY MakerMet
<1>2. b' = Leave(b, MakerSlot) /\ cursor' = Nil
  BY DEF EndIteration
<1>3. b' = LeaveLevel(b, MakerSlot, MakerSide, BestIx)
  BY <1>2 DEF Leave, LeaveLevel, SetHead, ClearTail
<1>4. PICK x, y, i, s, n, side, c, d :
        /\ x = b /\ y = b' /\ i = BestIx /\ s = MakerSlot /\ n = Maker.qty /\ side = MakerSide
        /\ c = cursor /\ d = BestIx'
  OBVIOUS
<1>5. BookTyped(x) /\ AmendedTo(x, x, i, s, n)
  BY <1>1, <1>4, NothingAmended DEF Rep, Maker
<1>6. /\ i \in Ix /\ n \in Nat \ {0} /\ side \in Sides /\ s = Q[i][1] /\ Q[i] # <<>>
      /\ Rep(x, HeadsOf(x, c, i), Q) /\ y = LeaveLevel(x, Q[i][1], side, i)
      /\ AmendedTo(x, x, i, Q[i][1], n)
  BY <1>1, <1>3, <1>4, <1>5, CurrentHeads
<1>7. AmendedTo(x, y, i, Q[i][1], n) /\ Rep(y, HeadsOf(y, Nil, d), Q)
  BY <1>5, <1>6, LeaveKeepsRep
<1> QED
  BY <1>1, <1>2, <1>4, <1>7, NextHeads

\* An iteration that takes less than the maker offers leaves it at the head of
\* its level with the rest.
LEMMA MakerShrinks ==
    ASSUME TakerInv, Matching, NEW Q, Rep(b, Heads, Q), NEW fill \in Nat, fill < Maker.qty,
           EndIteration(SetMakerQty(Deduct(b, fill), Maker.qty - fill), MakerSlot, TRUE)
    PROVE  /\ cursor' = Nil
           /\ AmendedTo(b, b', BestIx, MakerSlot, Maker.qty - fill)
           /\ Rep(b', Heads', Q)
<1>1. /\ MakerSide \in Sides /\ BestIx \in Ix /\ Q[BestIx] # <<>>
      /\ MakerSlot = Q[BestIx][1] /\ MakerSlot \in Slots
      /\ Maker.qty \in Nat \ {0}
  BY MakerMet
<1>2. PICK x, z, y, i, s, n, side, c, d :
        /\ x = b /\ z = SetMakerQty(Deduct(b, fill), Maker.qty - fill)
        /\ y = b' /\ i = BestIx /\ s = MakerSlot /\ n = Maker.qty - fill
        /\ side = MakerSide /\ c = cursor /\ d = BestIx'
  OBVIOUS
<1>3. n \in Nat \ {0} /\ Maker.qty - n = fill
  BY <1>1, <1>2
<1>4. z = Amended(x, i, s, n)
  BY <1>2, <1>3 DEF Amended, SetMakerQty, Deduct, SetSize, LessQty, Maker
<1>5. cursor' = Nil /\ y = LeaveLevel(z, s, side, i)
  BY <1>2 DEF EndIteration, Leave, LeaveLevel, SetHead, ClearTail
<1>6. /\ i \in Ix /\ side \in Sides /\ s = Q[i][1] /\ s \in Slots /\ Q[i] # <<>> /\ n \in Nat
      /\ Rep(x, HeadsOf(x, c, i), Q) /\ BookTyped(x)
  BY <1>1, <1>2, <1>3, CurrentHeads DEF Rep
<1>7. /\ BookTyped(z) /\ AmendedTo(x, z, i, Q[i][1], n)
      /\ \A j \in Ix : z.level[j].head = x.level[j].head
  BY <1>4, <1>6, AmendedFields
<1>8. y = LeaveLevel(z, Q[i][1], side, i)
  BY <1>5, <1>6
<1>9. AmendedTo(x, y, i, Q[i][1], n) /\ Rep(y, HeadsOf(y, Nil, d), Q)
  BY <1>3, <1>6, <1>7, <1>8, LeaveKeepsRep
<1> QED
  BY <1>2, <1>5, <1>6, <1>9, NextHeads

\* An iteration that uses the maker up takes it out of its level, and goes on
\* with its successor unless it breaks off or the level is exhausted.
LEMMA MakerGoes ==
    ASSUME TakerInv, Matching, NEW Q, Rep(b, Heads, Q), NEW breaks \in BOOLEAN,
           EndIteration(DropMaker(Deduct(b, Maker.qty)), Maker.next, breaks),
           taker'.side = taker.side
    PROVE  /\ FreedTo(b, b', Q, BestIx, 1)
           /\ Rep(b', Heads', Freed(Q, BestIx, 1))
           /\ cursor' \in SlotOrNil
           /\ cursor' # Nil => ~breaks /\ b'.best = b.best /\ BestIx' = BestIx
<1>1. /\ MakerSide \in Sides /\ BestIx \in Ix /\ Q[BestIx] # <<>>
      /\ MakerSlot = Q[BestIx][1] /\ MakerSlot \in Slots
      /\ Maker.side = MakerSide /\ Maker.next = After(Q[BestIx], 1)
  BY MakerMet
<1>2. PICK x, z, w, i, s, side, c, d, next :
        /\ x = b /\ z = DropMaker(Deduct(b, Maker.qty)) /\ w = Leave(z, Maker.next)
        /\ i = BestIx /\ s = MakerSlot /\ side = MakerSide /\ c = cursor /\ d = BestIx'
        /\ next = Maker.next
  OBVIOUS
<1>3. z = Dropped(x, i, s)
  BY <1>2 DEF Dropped, DropMaker, Deduct, LessQty, Maker
<1>4. w = LeaveLevel(z, next, side, i)
  BY <1>2 DEF Leave, LeaveLevel, SetHead, ClearTail
<1>5. side = x.store[s].side /\ next = x.store[s].next /\ next = After(Q[i], 1)
  BY <1>1, <1>2 DEF Maker
<1>6. /\ i \in Ix /\ s = Q[i][1] /\ Q[i] # <<>> /\ Rep(x, HeadsOf(x, c, i), Q)
  BY <1>1, <1>2, CurrentHeads
<1>7. /\ z = Dropped(x, i, Q[i][1])
      /\ w = LeaveLevel(z, x.store[Q[i][1]].next, x.store[Q[i][1]].side, i)
  BY <1>3, <1>4, <1>5, <1>6
<1>8. /\ next # Nil => /\ FreedTo(x, z, Q, i, 1)
                       /\ z.best = x.best
                       /\ Rep(z, HeadsOf(z, next, i), Freed(Q, i, 1))
      /\ FreedTo(x, w, Q, i, 1)
      /\ Rep(w, HeadsOf(w, Nil, d), Freed(Q, i, 1))
  <2>1. next = x.store[Q[i][1]].next
    BY <1>5, <1>6
  <2> QED
    BY <1>6, <1>7, <2>1, DropKeepsRep
<1>9. next \in SlotOrNil
  BY <1>5, <1>6, FirstFacts
<1>10. CASE breaks \/ next = Nil
  <2>1. b' = w /\ cursor' = Nil
    BY <1>2, <1>10 DEF EndIteration
  <2> QED
    BY <1>2, <1>8, <2>1, NextHeads, Parameters
<1>11. CASE ~(breaks \/ next = Nil)
  <2>1. b' = z /\ cursor' = next
    BY <1>2, <1>11 DEF EndIteration
  <2>2. b'.best = b.best /\ FreedTo(b, b', Q, i, 1) /\ Rep(b', HeadsOf(b', next, i), Freed(Q, i, 1))
    BY <1>2, <1>8, <1>11, <2>1
  <2>3. BestIx' = BestIx
    BY <2>2 DEF BestIx, MakerSide
  <2> QED
    BY <1>2, <1>9, <1>11, <2>1, <2>2, <2>3, NextHeads
<1> QED
  BY <1>10, <1>11


-----------------------------------------------------------------------------
(* The handlers, between two sweeps. *)

\* Between two commands no level is being swept.
LEMMA IdleHeads ==
    ASSUME TakerInv, pc = "idle" \/ (pc = "sweep" /\ ~Matching), NEW Q, Rep(b, Heads, Q), NEW d
    PROVE  cursor = Nil /\ Rep(b, HeadsOf(b, Nil, d), Q)
<1>1. cursor = Nil
  BY DEF TakerInv, Matching
<1>2. Heads = HeadsOf(b, Nil, d)
  BY <1>1, CurrentHeads, HeadsIdle
<1> QED
  BY <1>1, <1>2

\* An order that is cancelled, or gives up its place, leaves the queue of its
\* level.
LEMMA WithdrawStep ==
    ASSUME TakerInv, pc = "idle", NEW Q, Rep(b, Heads, Q), NEW id \in DOMAIN b.ids,
           Withdraw(id, b.ids[id]), cursor' = cursor
    PROVE  \E i \in Ix : \E k \in 1 .. Len(Q[i]) :
              /\ Q[i][k] = b.ids[id] /\ b.store[Q[i][k]].id = id /\ Holds(b, i, Q[i][k])
              /\ FreedTo(b, b', Q, i, k)
              /\ Rep(b', Heads', Freed(Q, i, k))
<1>1. PICK i \in Ix : \E k \in 1 .. Len(Q[i]) :
         Q[i][k] = b.ids[id] /\ b.store[Q[i][k]].id = id /\ Holds(b, i, Q[i][k])
  BY PlaceOf
<1>2. PICK k \in 1 .. Len(Q[i]) :
         Q[i][k] = b.ids[id] /\ b.store[Q[i][k]].id = id /\ Holds(b, i, Q[i][k])
  BY <1>1
<1>3. PICK x, y, d : x = b /\ y = b' /\ d = BestIx'
  OBVIOUS
<1>4. y = Withdrawn(x, Q[i][k])
  BY <1>2, <1>3 DEF Withdraw, Withdrawn
<1>5. Rep(x, HeadsOf(x, Nil, d), Q) /\ cursor' = Nil
  BY <1>3, IdleHeads
<1>6. FreedTo(x, y, Q, i, k) /\ Rep(y, HeadsOf(y, Nil, d), Freed(Q, i, k))
  BY <1>4, <1>5, WithdrawKeepsRep
<1> QED
  BY <1>2, <1>3, <1>5, <1>6, NextHeads

\* What modify does to the book when the order o of slot s keeps its place.
Shrunk(x, o, s, n) ==
    [x EXCEPT !.level[o.level].qty = @ - (o.qty - n), !.store[s].qty = n]

\* An order that is amended keeps its place in the queue of its level.
LEMMA AmendStep ==
    ASSUME TakerInv, pc = "idle", NEW Q, Rep(b, Heads, Q), NEW id \in DOMAIN b.ids,
           NEW n \in Nat \ {0}, NEW s, s = b.ids[id], NEW o, o = b.store[s],
           b' = Shrunk(b, o, s, n), cursor' = cursor
    PROVE  \E i \in Ix : \E k \in 1 .. Len(Q[i]) :
              /\ Q[i][k] = s /\ b.store[Q[i][k]].id = id /\ Holds(b, i, Q[i][k])
              /\ AmendedTo(b, b', i, Q[i][k], n)
              /\ Rep(b', Heads', Q)
<1>1. PICK i \in Ix : \E k \in 1 .. Len(Q[i]) :
         Q[i][k] = b.ids[id] /\ b.store[Q[i][k]].id = id /\ Holds(b, i, Q[i][k])
  BY PlaceOf
<1>2. PICK k \in 1 .. Len(Q[i]) :
         Q[i][k] = b.ids[id] /\ b.store[Q[i][k]].id = id /\ Holds(b, i, Q[i][k])
  BY <1>1
<1>3. PICK x, y, d : x = b /\ y = b' /\ d = BestIx'
  OBVIOUS
<1>4. o.level = i /\ Q[i][k] = s
  BY <1>2 DEF Holds
<1>5. y = Amended(x, i, Q[i][k], n)
  <2>1. y = [x EXCEPT !.level[i].qty = @ - (x.store[s].qty - n), !.store[s].qty = n]
    BY <1>3, <1>4 DEF Shrunk
  <2> QED
    BY <1>4, <2>1 DEF Amended, SetSize, LessQty
<1>6. Rep(x, HeadsOf(x, Nil, d), Q) /\ cursor' = Nil
  BY <1>3, IdleHeads
<1>7. AmendedTo(x, y, i, Q[i][k], n) /\ Rep(y, HeadsOf(y, Nil, d), Q)
  BY <1>5, <1>6, ModifyKeepsRep
<1> QED
  BY <1>2, <1>3, <1>4, <1>6, <1>7, NextHeads

\* The remainder of an order joins the back of the queue at its limit.
LEMMA RestStep ==
    ASSUME TakerInv, NEW Q, Rep(b, Heads, Q), FinishRest
    PROVE  /\ taker \in Ref!Takers /\ taker.qty # 0 /\ taker.id \notin DOMAIN b.ids
           /\ Rel(taker.limit) \in Ix /\ b.free # Nil
           /\ RestedTo(b, b', Rel(taker.limit), taker.id, taker.side, taker.qty)
           /\ b'.store[b.free].owner = taker.owner
           /\ Rep(b', Heads', Rested(Q, Rel(taker.limit)))
<1>1. /\ pc = "sweep" /\ ~Matching /\ taker.qty # 0 /\ ~taker.stop /\ b.free # Nil
      /\ cursor' = cursor
      /\ b' = RestedIn(b, taker.id, taker.owner, taker.side, Rel(taker.limit), taker.qty)
  BY DEF FinishRest, Finish, Remainder, RestedIn
<1>2. taker \in Ref!Takers /\ taker.id \notin DOMAIN b.ids
  BY <1>1 DEF TakerInv
<1>3. /\ taker.id \in OrderIds /\ taker.owner \in Owners /\ taker.side \in Sides
      /\ taker.limit \in Prices /\ taker.qty \in Nat \ {0}
  BY <1>1, <1>2, TakersAre
<1>4. Rel(taker.limit) \in Ix
  BY <1>3, LimitFacts
<1>5. ~Crosses(taker.side, Rel(taker.limit))
  BY <1>1 DEF Matching
<1>6. Clear(b, taker.side, Rel(taker.limit))
  BY <1>3, <1>4, <1>5, CrossFacts
<1>7. PICK x, y, d, i, id, owner, side, n :
         /\ x = b /\ y = b' /\ d = BestIx' /\ i = Rel(taker.limit) /\ id = taker.id
         /\ owner = taker.owner /\ side = taker.side /\ n = taker.qty
  OBVIOUS
<1>8. /\ i \in Ix /\ x.free # Nil /\ id \in OrderIds /\ owner \in Owners /\ side \in Sides
      /\ n \in Nat \ {0} /\ Clear(x, side, i) /\ id \notin DOMAIN x.ids
      /\ y = RestedIn(x, id, owner, side, i, n)
  BY <1>1, <1>2, <1>3, <1>4, <1>6, <1>7
<1>9. Rep(x, HeadsOf(x, Nil, d), Q) /\ cursor' = Nil
  BY <1>1, <1>7, IdleHeads
<1>10. /\ RestedTo(x, y, i, id, side, n) /\ y.store[x.free].owner = owner
       /\ Rep(y, HeadsOf(y, Nil, d), Rested(Q, i))
  BY <1>8, <1>9, RestInKeepsRep
<1> QED
  BY <1>1, <1>2, <1>4, <1>7, <1>9, <1>10, NextHeads


\* A new order that passes every validation has well-typed fields.
LEMMA AcceptedFields ==
    ASSUME NEW c \in AddCommand, AddReason(c) = "None", BookTyped(b)
    PROVE  /\ c.id \in OrderIds /\ c.id \notin DOMAIN b.ids
           /\ c.owner \in Owners /\ c.side \in Sides
           /\ c.qty \in Nat \ {0} /\ c.tif \in {"Day", "Ioc", "Fok"}
           /\ EffectiveStp(c.stp) \in Stps
           /\ LimitIx(c) \in Ix /\ Px(LimitIx(c)) \in Prices
           /\ Rel(Px(LimitIx(c))) = LimitIx(c)
           /\ Px(LimitIx(c)) =
                IF Market(c) THEN (IF c.side = "Buy" THEN MaxPrice ELSE MinPrice) ELSE c.price
           /\ (IF Market(c) THEN 0 ELSE c.price) \in Prices \cup {0}
<1>1. /\ c.id # NoId /\ c.qty # 0 /\ (Market(c) \/ InBand(c.price)) /\ Find(c.id) = Nil
  BY DEF AddReason
<1>2. c.id \notin DOMAIN b.ids
  BY <1>1, Parameters DEF Find, BookTyped
<1>3. Top = MaxPrice - MinPrice /\ MinPrice \in Int /\ MaxPrice \in Int /\ MinPrice =< MaxPrice
  BY BookAssumption DEF Top
<1>4. \A p \in Int : InBand(p) <=> p \in Prices
  BY <1>3 DEF InBand, Rel, Prices
<1>5. c \in LimitCommand \cup MarketCommand
  <2>1. CASE c \in OddCommand
    <3>1. IllFormed(c) /\ ~Market(c) /\ c.price \in Int
      BY <1>3, <2>1 DEF OddCommand, NewOrder, Market, InputPrices
    <3> QED
      BY <1>1, <1>4, <3>1 DEF IllFormed
  <2> QED
    BY <2>1 DEF AddCommand
<1>6. PICK id \in OrderIds, w \in Owners, side \in Sides, n \in 1 .. MaxQty, v \in Varieties,
           t \in {"Limit", "Market"}, p \in Prices \cup {0} :
         c = NewOrder(id, w, side, t, p, n, v)
  BY <1>5 DEF LimitCommand, MarketCommand
<1>7. /\ c.id = id /\ c.owner = w /\ c.side = side /\ c.qty = n
      /\ c.tif = v.tif /\ c.stp = v.stp /\ c.price = p
  BY <1>6 DEF NewOrder
<1>8. v.tif \in {"Day", "Ioc", "Fok"} /\ v.stp \in Stps
  BY BookAssumption
<1>9. n \in Nat \ {0}
  BY BookAssumption
<1>10. p \in Int /\ (Market(c) \/ c.price \in Prices)
  BY <1>1, <1>3, <1>4, <1>7 DEF Prices
<1>11. LimitIx(c) \in Ix
  BY <1>3, <1>7, <1>10 DEF LimitIx, Ix, Rel, Prices
<1>12. Px(LimitIx(c)) \in Prices /\ Rel(Px(LimitIx(c))) = LimitIx(c)
  BY <1>11, PriceFacts
<1>13. Px(LimitIx(c)) =
          IF Market(c) THEN (IF c.side = "Buy" THEN MaxPrice ELSE MinPrice) ELSE c.price
  BY <1>3, <1>7, <1>10 DEF LimitIx, Px, Rel
<1>14. EffectiveStp(c.stp) \in Stps
  BY <1>7, <1>8, BookAssumption DEF EffectiveStp
<1> QED
  BY <1>2, <1>7, <1>8, <1>9, <1>10, <1>11, <1>12, <1>13, <1>14

\* The order that starts to match.
LEMMA AcceptedTaker ==
    ASSUME NEW c \in AddCommand, AddReason(c) = "None", BookTyped(b), NEW px,
           px = IF Market(c) THEN 0 ELSE c.price,
           NEW k, k = [id |-> c.id, owner |-> c.owner, side |-> c.side,
                       limit |-> Px(LimitIx(c)), qty |-> c.qty, stp |-> EffectiveStp(c.stp),
                       stop |-> FALSE, px |-> px, tif |-> c.tif,
                       rests |-> ~Market(c) /\ c.tif = "Day"]
    PROVE  k \in Ref!Takers /\ k.id \notin DOMAIN b.ids
<1>1. PICK rests : rests = (~Market(c) /\ c.tif = "Day") /\ rests \in BOOLEAN
  OBVIOUS
<1>2. PICK id, owner, side, limit, qty, stp, tif :
        /\ id = c.id /\ owner = c.owner /\ side = c.side /\ limit = Px(LimitIx(c))
        /\ qty = c.qty /\ stp = EffectiveStp(c.stp) /\ tif = c.tif
  OBVIOUS
<1>3. k = [id |-> id, owner |-> owner, side |-> side, limit |-> limit, qty |-> qty,
           stp |-> stp, stop |-> FALSE, px |-> px, tif |-> tif, rests |-> rests]
  BY <1>1, <1>2
<1>4. /\ id \in OrderIds /\ id \notin DOMAIN b.ids /\ owner \in Owners /\ side \in Sides
      /\ limit \in Prices /\ qty \in Nat /\ stp \in Stps /\ tif \in {"Day", "Ioc", "Fok"}
      /\ px \in Prices \cup {0}
  BY <1>2, AcceptedFields
<1>5. k.id = id
  BY <1>3
<1> QED
  BY <1>1, <1>3, <1>4, <1>5, TakersAre

\* What the invariant says of the taker is kept by an iteration of the sweep.
LEMMA SweepKeepsInv ==
    ASSUME TakerInv, Matching, NEW Q, Rep(b, Heads, Q), BookInv', pc' = pc,
           taker' \in Ref!Takers, taker'.id = taker.id, taker'.side = taker.side,
           taker'.limit = taker.limit,
           \A id \in DOMAIN b'.ids : id \in DOMAIN b.ids,
           cursor' \in SlotOrNil,
           cursor' # Nil => taker'.qty # 0 /\ ~taker'.stop /\ b'.best = b.best
    PROVE  Inv'
<1>1. /\ pc = "sweep" /\ taker.id \notin DOMAIN b.ids
      /\ Crosses(taker.side, Rel(taker.limit))
  BY MakerMet
<1>2. cursor' # Nil => Crosses(taker.side, Rel(taker.limit))'
  BY <1>1 DEF Crosses, Rel
<1>3. TakerInv'
  BY <1>1, <1>2 DEF TakerInv
<1> QED
  BY <1>3 DEF Inv


\* An iteration changes only what the taker still wants, or stops it.
LEMMA TakerChanges ==
    ASSUME taker \in Ref!Takers, NEW n \in Nat,
           taker' = [taker EXCEPT !.stop = TRUE] \/ taker' = [taker EXCEPT !.qty = n]
    PROVE  /\ taker' \in Ref!Takers /\ taker'.id = taker.id /\ taker'.side = taker.side
           /\ taker'.limit = taker.limit
           /\ taker' = [taker EXCEPT !.qty = n] => taker'.qty = n /\ taker'.stop = taker.stop
BY TakersAre

\* The sweep's iterations preserve the invariant.
LEMMA MatchKeepsInv ==
    ASSUME Inv, Match PROVE Inv'
<1>1. TakerInv /\ Matching
  BY DEF Inv, Match, MatchStop, MatchDecrementMaker, MatchCancelMaker, MatchTrade
<1>2. PICK Q : Rep(b, Heads, Q)
  BY DEF Inv, BookInv
<1>3. /\ taker \in Ref!Takers /\ taker.qty \in Nat /\ taker.qty # 0 /\ ~taker.stop
      /\ Maker.qty \in Nat /\ Maker.qty # 0 /\ BestIx \in Ix
  BY <1>1, <1>2, MakerMet
<1>4. /\ Nil \in SlotOrNil
      /\ \A x, y, i, s, n : AmendedTo(x, y, i, s, n) => y.ids = x.ids
      /\ \A x, y, i, k : FreedTo(x, y, Q, i, k) => \A id \in DOMAIN y.ids : id \in DOMAIN x.ids
  BY Parameters DEF AmendedTo, FreedTo, ReleasedTo
<1>5. CASE MatchStop
  <2>1. EndIteration(b, MakerSlot, TRUE) /\ taker' = [taker EXCEPT !.stop = TRUE] /\ pc' = pc
    BY <1>5 DEF MatchStop
  <2>2. cursor' = Nil /\ b'.ids = b.ids /\ BookInv'
    BY <1>1, <1>2, <1>4, <2>1, MakerStays DEF BookInv
  <2> QED
    BY <1>1, <1>2, <1>3, <1>4, <2>1, <2>2, TakerChanges, SweepKeepsInv
<1>6. CASE MatchDecrementMaker
  <2>1. /\ EndIteration(SetMakerQty(Deduct(b, taker.qty), Maker.qty - taker.qty), MakerSlot, TRUE)
        /\ taker' = [taker EXCEPT !.stop = TRUE] /\ pc' = pc /\ taker.qty < Maker.qty
    BY <1>3, <1>6 DEF MatchDecrementMaker
  <2>2. cursor' = Nil /\ b'.ids = b.ids /\ BookInv'
    BY <1>1, <1>2, <1>3, <1>4, <2>1, MakerShrinks DEF BookInv
  <2> QED
    BY <1>1, <1>2, <1>3, <1>4, <2>1, <2>2, TakerChanges, SweepKeepsInv
<1>7. CASE MatchCancelMaker
  <2>1. PICK both \in BOOLEAN :
           /\ EndIteration(DropMaker(Deduct(b, Maker.qty)), Maker.next, both) /\ pc' = pc
           /\ \/ taker' = taker
              \/ both /\ taker' = [taker EXCEPT !.stop = TRUE]
              \/ /\ taker' = [taker EXCEPT !.qty = taker.qty - Maker.qty]
                 /\ taker.qty - Maker.qty # 0 /\ ~(Maker.qty > taker.qty)
    <3> DEFINE left == taker.qty - Maker.qty
               both == taker.stp = "DecrementCancel" /\ left = 0
    <3>1. both \in BOOLEAN
      OBVIOUS
    <3>2. EndIteration(DropMaker(Deduct(b, Maker.qty)), Maker.next, both) /\ pc' = pc
      BY <1>7 DEF MatchCancelMaker
    <3>3. \/ taker' = taker
          \/ both /\ taker' = [taker EXCEPT !.stop = TRUE]
          \/ /\ taker' = [taker EXCEPT !.qty = left]
             /\ left # 0 /\ ~(Maker.qty > taker.qty)
      BY <1>7 DEF MatchCancelMaker
    <3> HIDE DEF both
    <3> QED
      BY <3>1, <3>2, <3>3
  <2>2. /\ taker' \in Ref!Takers /\ taker'.id = taker.id /\ taker'.side = taker.side
        /\ taker'.limit = taker.limit
        /\ ~both => taker'.qty # 0 /\ ~taker'.stop
    <3>1. CASE taker' = taker
      BY <1>3, <3>1
    <3>2. CASE both /\ taker' = [taker EXCEPT !.stop = TRUE]
      BY <1>3, <3>2, TakerChanges
    <3>3. CASE /\ taker' = [taker EXCEPT !.qty = taker.qty - Maker.qty]
               /\ taker.qty - Maker.qty # 0 /\ ~(Maker.qty > taker.qty)
      <4>1. taker.qty - Maker.qty \in Nat
        BY <1>3, <3>3
      <4> QED
        BY <1>3, <3>3, <4>1, TakerChanges
    <3> QED
      BY <2>1, <3>1, <3>2, <3>3
  <2>3. /\ FreedTo(b, b', Q, BestIx, 1) /\ BookInv' /\ cursor' \in SlotOrNil
        /\ cursor' # Nil => ~both /\ b'.best = b.best
    BY <1>1, <1>2, <2>1, <2>2, MakerGoes DEF BookInv
  <2> QED
    BY <1>1, <1>2, <1>4, <2>1, <2>2, <2>3, SweepKeepsInv
<1>8. CASE MatchTrade
  <2> DEFINE fill == IF Maker.qty < taker.qty THEN Maker.qty ELSE taker.qty
             left == Maker.qty - fill
  <2>1. /\ taker' = [taker EXCEPT !.qty = @ - fill] /\ pc' = pc
        /\ IF left # 0
           THEN EndIteration(SetMakerQty(Deduct(b, fill), left), MakerSlot, TRUE)
           ELSE EndIteration(DropMaker(Deduct(b, fill)), Maker.next, taker.qty = fill)
    BY <1>8 DEF MatchTrade
  <2>2. /\ fill \in Nat /\ taker.qty - fill \in Nat
        /\ left # 0 => fill < Maker.qty
        /\ left = 0 => fill = Maker.qty
        /\ taker.qty # fill => taker.qty - fill # 0
    BY <1>3
  <2>3. taker' = [taker EXCEPT !.qty = taker.qty - fill]
    BY <1>3, <2>1, TakersAre
  <2> HIDE DEF fill
  <2>4. /\ taker' \in Ref!Takers /\ taker'.id = taker.id /\ taker'.side = taker.side
        /\ taker'.limit = taker.limit /\ taker'.qty = taker.qty - fill /\ ~taker'.stop
    BY <1>3, <2>2, <2>3, TakerChanges
  <2>5. CASE left # 0
    <3>1. cursor' = Nil /\ b'.ids = b.ids /\ BookInv'
      BY <1>1, <1>2, <1>4, <2>1, <2>2, <2>5, MakerShrinks DEF BookInv
    <3> QED
      BY <1>1, <1>2, <1>4, <2>1, <2>4, <3>1, SweepKeepsInv
  <2>6. CASE left = 0
    <3>1. PICK breaks \in BOOLEAN : breaks <=> taker.qty = fill
      OBVIOUS
    <3>2. EndIteration(DropMaker(Deduct(b, Maker.qty)), Maker.next, breaks)
      BY <2>1, <2>2, <2>6, <3>1 DEF EndIteration
    <3>3. /\ FreedTo(b, b', Q, BestIx, 1) /\ BookInv' /\ cursor' \in SlotOrNil
          /\ cursor' # Nil => ~breaks /\ b'.best = b.best
      BY <1>1, <1>2, <2>4, <3>2, MakerGoes DEF BookInv
    <3> QED
      BY <1>1, <1>2, <1>4, <2>1, <2>2, <2>4, <3>1, <3>3, SweepKeepsInv
  <2> QED
    BY <2>5, <2>6
<1> QED
  BY <1>5, <1>6, <1>7, <1>8 DEF Match


\* The end of a handler preserves the invariant.
LEMMA FinishKeepsInv ==
    ASSUME Inv, FinishMatch PROVE Inv'
<1>1. TakerInv /\ pc = "sweep" /\ ~Matching
  BY DEF Inv, FinishMatch, FinishFilled, FinishStopped, FinishExpired, FinishFull, FinishRest,
         Drop, Finish
<1>2. PICK Q : Rep(b, Heads, Q)
  BY DEF Inv, BookInv
<1>3. cursor = Nil
  BY <1>1, <1>2, IdleHeads
<1>4. taker' = NoTaker /\ pc' = "idle" /\ cursor' = cursor
  BY DEF FinishMatch, FinishFilled, FinishStopped, FinishExpired, FinishFull, FinishRest,
         Drop, Finish
<1>5. TakerInv'
  BY <1>3, <1>4, Parameters DEF TakerInv
<1>6. BookInv'
  <2>1. CASE FinishRest
    BY <1>1, <1>2, <2>1, RestStep DEF BookInv
  <2>2. CASE ~FinishRest
    <3>1. b' = b
      BY <2>2 DEF FinishMatch, FinishFilled, FinishStopped, FinishExpired, FinishFull, Drop
    <3>2. Heads' = Heads
      BY <1>3, <1>4, <3>1, CurrentHeads, NextHeads, HeadsIdle
    <3> QED
      BY <1>2, <3>1, <3>2 DEF BookInv
  <2> QED
    BY <2>1, <2>2
<1> QED
  BY <1>5, <1>6 DEF Inv

\* A handler that starts between two commands preserves the invariant when it
\* leaves the book represented and the taker, if any, well typed and unknown.
LEMMA IdleKeepsInv ==
    ASSUME TakerInv, pc = "idle", BookInv', cursor' = cursor,
           \/ taker' = taker /\ pc' = pc
           \/ taker' \in Ref!Takers /\ pc' = "sweep" /\ taker'.id \notin DOMAIN b'.ids
    PROVE  Inv'
<1>1. TakerInv'
  BY Parameters DEF TakerInv
<1> QED
  BY <1>1 DEF Inv

\* A book that is left alone between two commands stays represented.
LEMMA SameBook ==
    ASSUME TakerInv, pc = "idle", BookInv, b' = b, cursor' = cursor
    PROVE  BookInv'
<1>1. PICK Q : Rep(b, Heads, Q)
  BY DEF BookInv
<1>2. Heads' = Heads
  <2>1. cursor = Nil
    BY DEF TakerInv
  <2> QED
    BY <2>1, CurrentHeads, NextHeads, HeadsIdle
<1> QED
  BY <1>1, <1>2 DEF BookInv

\* Every handler, and every iteration of the sweep, preserves the invariant.
THEOREM NextInv == Inv /\ [Next]_vars => Inv'
<1> SUFFICES ASSUME Inv, [Next]_vars PROVE Inv'
  OBVIOUS
<1>1. TakerInv /\ BookInv
  BY DEF Inv
<1>2. PICK Q : Rep(b, Heads, Q)
  BY <1>1 DEF BookInv
<1>3. BookTyped(b) /\ \A id : Find(id) # Nil <=> id \in DOMAIN b.ids
  <2>1. BookTyped(b)
    BY <1>2 DEF Rep
  <2> QED
    BY <2>1, Parameters DEF BookTyped, Find
<1>4. ASSUME NEW c, pc = "idle", NEW reason, Reject(c, reason) PROVE Inv'
  BY <1>1, <1>4, SameBook, IdleKeepsInv DEF Reject
<1>5. ASSUME NEW c \in AddCommand, Add(c) PROVE Inv'
  <2>1. CASE AddReason(c) = "None" /\ Accept(c)
    <3>1. pc = "idle" /\ b' = b /\ cursor' = cursor
      BY <1>5, <2>1 DEF Add, Accept
    <3>2. BookInv'
      BY <1>1, <3>1, SameBook
    <3>3. CASE taker' = taker /\ pc' = pc
      BY <1>1, <3>1, <3>2, <3>3, IdleKeepsInv
    <3>4. CASE ~(taker' = taker /\ pc' = pc)
      <4>1. /\ taker' = [id |-> c.id, owner |-> c.owner, side |-> c.side,
                         limit |-> Px(LimitIx(c)), qty |-> c.qty, stp |-> EffectiveStp(c.stp),
                         stop |-> FALSE, px |-> IF Market(c) THEN 0 ELSE c.price, tif |-> c.tif,
                         rests |-> ~Market(c) /\ c.tif = "Day"]
            /\ pc' = "sweep"
        BY <2>1, <3>4 DEF Accept
      <4>2. taker' \in Ref!Takers /\ taker'.id \notin DOMAIN b.ids
        BY <1>3, <2>1, <4>1, AcceptedTaker
      <4> QED
        BY <1>1, <3>1, <3>2, <4>1, <4>2, IdleKeepsInv
    <3> QED
      BY <3>3, <3>4
  <2> QED
    BY <1>4, <1>5, <2>1 DEF Add
<1>6. ASSUME NEW c \in CancelCommand, Cancel(c) PROVE Inv'
  <2>1. CASE Find(c.id) # Nil /\ Withdraw(c.id, Find(c.id)) /\ UNCHANGED <<cursor, taker, pc>>
    <3>1. pc = "idle" /\ c.id \in DOMAIN b.ids /\ Withdraw(c.id, b.ids[c.id])
      BY <1>3, <1>6, <2>1 DEF Cancel, Find
    <3>2. BookInv'
      BY <1>1, <1>2, <2>1, <3>1, WithdrawStep DEF BookInv
    <3> QED
      BY <1>1, <2>1, <3>1, <3>2, IdleKeepsInv
  <2> QED
    BY <1>4, <1>6, <2>1 DEF Cancel
<1>7. ASSUME NEW c \in ModifyCommand, Modify(c) PROVE Inv'
  <2> DEFINE s == Find(c.id)
             o == b.store[s]
             inPlace == Rel(c.price) = o.level /\ c.qty =< o.qty
  <2>1. pc = "idle"
    BY <1>7 DEF Modify
  <2>2. CASE ModifyReason(c) # "None"
    BY <1>4, <1>7, <2>1, <2>2 DEF Modify
  <2>3. CASE ModifyReason(c) = "None"
    <3>1. /\ c.id \in DOMAIN b.ids /\ s = b.ids[c.id] /\ c.qty \in Nat \ {0}
          /\ c.price \in Prices /\ c.id \in OrderIds
      <4>1. Find(c.id) # Nil /\ c.qty # 0 /\ InBand(c.price)
        BY <2>3 DEF ModifyReason
      <4>2. c.id \in DOMAIN b.ids /\ c.id \in OrderIds /\ s = b.ids[c.id]
        BY <1>3, <4>1 DEF Find, BookTyped
      <4>3. c.qty \in 0 .. MaxQty /\ c.price \in InputPrices
        BY DEF ModifyCommand
      <4> QED
        BY <4>1, <4>2, <4>3, BookAssumption DEF InputPrices, InBand, Rel, Prices, Top
    <3>2. CASE /\ b' = [b EXCEPT !.level[o.level].qty = @ - (o.qty - c.qty),
                                 !.store[s].qty = c.qty]
               /\ UNCHANGED <<cursor, taker, pc>>
      <4> HIDE DEF s
      <4>1. PICK t, r, n : t = s /\ r = o /\ n = c.qty
        OBVIOUS
      <4>2. /\ b' = Shrunk(b, r, t, n)
            /\ n \in Nat \ {0} /\ t = b.ids[c.id] /\ r = b.store[t] /\ cursor' = cursor
        BY <3>1, <3>2, <4>1 DEF Shrunk
      <4>3. BookInv'
        BY <1>1, <1>2, <2>1, <3>1, <4>2, AmendStep DEF BookInv
      <4> QED
        BY <1>1, <2>1, <3>2, <4>3, IdleKeepsInv
    <3>3. CASE /\ Withdraw(c.id, s) /\ cursor' = cursor /\ pc' = "sweep"
               /\ taker' = [id |-> c.id, owner |-> o.owner, side |-> o.side,
                            limit |-> c.price, qty |-> c.qty, stp |-> BookStp,
                            stop |-> FALSE, px |-> c.price, tif |-> "Day", rests |-> TRUE]
      <4> HIDE DEF s
      <4>1. PICK i \in Ix : \E k \in 1 .. Len(Q[i]) :
               /\ Q[i][k] = b.ids[c.id] /\ b.store[Q[i][k]].id = c.id /\ Holds(b, i, Q[i][k])
               /\ FreedTo(b, b', Q, i, k)
               /\ Rep(b', Heads', Freed(Q, i, k))
        BY <1>1, <1>2, <2>1, <3>1, <3>3, WithdrawStep
      <4>2. PICK k \in 1 .. Len(Q[i]) :
               /\ Q[i][k] = s /\ b.store[s].id = c.id /\ Holds(b, i, s)
               /\ FreedTo(b, b', Q, i, k)
               /\ Rep(b', Heads', Freed(Q, i, k))
        BY <3>1, <4>1
      <4>3. o.owner \in Owners /\ o.side \in Sides
        BY <4>2 DEF Holds
      <4>4. c.id \notin DOMAIN b'.ids
        BY <4>2 DEF FreedTo, ReleasedTo
      <4> HIDE DEF o
      <4>5. taker' \in Ref!Takers /\ taker'.id = c.id
        BY <3>1, <3>3, <4>3, TakersAre, BookAssumption DEF Stps
      <4>6. BookInv'
        BY <4>2 DEF BookInv
      <4> QED
        BY <1>1, <2>1, <3>3, <4>4, <4>5, <4>6, IdleKeepsInv
    <3> QED
      BY <1>7, <2>3, <3>2, <3>3 DEF Modify
  <2> QED
    BY <2>2, <2>3
<1>8. CASE Match
  BY <1>8, MatchKeepsInv
<1>9. CASE FinishMatch
  BY <1>9, FinishKeepsInv
<1>10. CASE UNCHANGED vars
  <2>1. Heads' = Heads
    BY <1>10, CurrentHeads, NextHeads DEF vars, BestIx, MakerSide
  <2> QED
    BY <1>1, <1>2, <1>10, <2>1 DEF vars, Inv, BookInv, TakerInv, Crosses
<1> QED
  BY <1>5, <1>6, <1>7, <1>8, <1>9, <1>10 DEF Next

\* The linked structures of order_book.hpp stand, in every state of a handler,
\* for queues of slots that share the store out between the levels and the free
\* list, for every price band, capacity and set of orders.
THEOREM BookRepresented == Spec => []Inv
BY InitInv, NextInv, PTL DEF Spec


-----------------------------------------------------------------------------
(* The audit. *)

\* A function that is one-to-one and onto keeps the number of elements.
LEMMA SameNumber ==
    ASSUME NEW S, NEW T, NEW f \in [S -> T], IsFiniteSet(S),
           \A a, c \in S : f[a] = f[c] => a = c, \A t \in T : \E a \in S : f[a] = t
    PROVE  IsFiniteSet(T) /\ Cardinality(T) = Cardinality(S)
<1>1. f \in Surjection(S, T) /\ f \in Injection(S, T)
  BY DEF Surjection, Injection, IsInjective
<1> QED
  BY <1>1, FS_Surjection

\* The chain that starts at the head of a place is the list of that place.
LEMMA ChainOfPlace ==
    ASSUME NEW x, NEW hd, NEW Q, Rep(x, hd, Q), NEW i \in Places
    PROVE  Chain(x, hd[i]) = Q[i] /\ Q[i] \in Seq(Slots) /\ Distinct(Q[i])
<1>1. Spread(Q) /\ Links(x, hd, Q) /\ BookTyped(x)
  BY DEF Rep
<1>2. Q[i] \in Seq(Slots)
  BY <1>1, SpreadCovers
<1>3. Distinct(Q[i])
  BY <1>1, SpreadDistinct DEF Distinct
<1>4. hd[i] = After(Q[i], 0) /\ Follows(x.store, Q[i])
  BY <1>1 DEF Links
<1>5. \A s \in Slots : x.store[s].next \in SlotOrNil
  BY <1>1 DEF BookTyped, SlotRec
<1> QED
  BY <1>2, <1>3, <1>4, <1>5, ChainIs

\* The free list and the indexed orders share the slots out between them.
LEMMA InvAccounts == Inv => SlotsAccountedFor
<1> SUFFICES ASSUME Inv PROVE SlotsAccountedFor
  OBVIOUS
<1>1. PICK Q : Rep(b, Heads, Q)
  BY DEF Inv, BookInv
<1>2. /\ Spread(Q) /\ BookTyped(b) /\ Counted(b) /\ Resting(b, Q) /\ Indexed(b, Q)
  BY <1>1 DEF Rep
<1>3. PICK q, ids : q = Q[FreePlace] /\ ids = b.ids
  OBVIOUS
<1>4. Chain(b, b.free) = q /\ q \in Seq(Slots) /\ Distinct(q)
  <2>1. Heads[FreePlace] = b.free /\ FreePlace \in Places
    BY Parameters DEF Heads
  <2> QED
    BY <1>1, <1>3, <2>1, ChainOfPlace
<1>5. ids \in [DOMAIN ids -> Slots] /\ IsFiniteSet(DOMAIN ids) /\ b.live = Cardinality(DOMAIN ids)
  BY <1>2, <1>3 DEF BookTyped, Counted
<1>6. \A id \in DOMAIN ids : b.store[ids[id]].id = id
  BY <1>2, <1>3 DEF Indexed
<1> DEFINE free == {q[k] : k \in DOMAIN q}
           used == {ids[id] : id \in DOMAIN ids}
<1>7. Cardinality(free) = Len(q)
  <2>1. Len(q) \in Nat /\ DOMAIN q = 1 .. Len(q) /\ q \in [1 .. Len(q) -> free]
    BY <1>4
  <2>2. IsFiniteSet(1 .. Len(q)) /\ Cardinality(1 .. Len(q)) = Len(q)
    <3>1. PICK n \in Nat : n = Len(q)
      BY <2>1
    <3>2. /\ IsFiniteSet(1 .. n)
          /\ Cardinality(1 .. n) = IF 1 > n THEN 0 ELSE n - 1 + 1
      BY FS_Interval
    <3>3. (IF 1 > n THEN 0 ELSE n - 1 + 1) = n
      OBVIOUS
    <3> QED
      BY <3>1, <3>2, <3>3
  <2>3. \A t \in free : \E a \in 1 .. Len(q) : q[a] = t
    BY <2>1
  <2>4. \A a, c \in 1 .. Len(q) : q[a] = q[c] => a = c
    BY <1>4 DEF Distinct
  <2> HIDE DEF free
  <2> QED
    BY <2>1, <2>2, <2>3, <2>4, SameNumber
<1>8. Cardinality(used) = Cardinality(DOMAIN ids)
  <2>1. ids \in [DOMAIN ids -> used]
    BY <1>5
  <2>2. \A t \in used : \E id \in DOMAIN ids : ids[id] = t
    OBVIOUS
  <2>3. \A a, c \in DOMAIN ids : ids[a] = ids[c] => a = c
    BY <1>6
  <2> HIDE DEF used
  <2> QED
    BY <1>5, <2>1, <2>2, <2>3, SameNumber
<1>9. free \cap used = {}
  <2> SUFFICES ASSUME NEW k \in DOMAIN q, NEW id \in DOMAIN ids, q[k] = ids[id] PROVE FALSE
    OBVIOUS
  <2>1. k \in 1 .. Len(q)
    BY <1>4
  <2> QED
    BY <1>2, <1>3, <2>1 DEF Indexed
<1>10. free \cup used = Slots
  <2>1. \A s \in free : s \in Slots
    BY <1>4
  <2>2. \A s \in used : s \in Slots
    BY <1>5
  <2>3. ASSUME NEW s \in Slots PROVE s \in free \/ s \in used
    <3>1. PICK i \in Places : \E k \in 1 .. Len(Q[i]) : Q[i][k] = s
      BY <1>2, SpreadCovers
    <3>2. PICK k \in 1 .. Len(Q[i]) : Q[i][k] = s
      BY <3>1
    <3>3. CASE i = FreePlace
      <4>1. k \in DOMAIN q /\ q[k] = s
        BY <1>3, <1>4, <3>2, <3>3
      <4> QED
        BY <4>1
    <3>4. CASE i # FreePlace
      <4>1. i \in Ix
        BY <3>4, Parameters
      <4>2. Holds(b, i, s)
        BY <1>2, <3>2, <4>1 DEF Resting
      <4>3. b.store[s].id \in DOMAIN ids /\ ids[b.store[s].id] = s
        BY <1>3, <4>2 DEF Holds
      <4> QED
        BY <4>3
    <3> QED
      BY <3>3, <3>4
  <2> HIDE DEF free, used
  <2> QED
    BY <2>1, <2>2, <2>3
<1> DEFINE freeChain == Chain(b, b.free)
           freeSlots == {freeChain[k] : k \in DOMAIN freeChain}
           usedSlots == {b.ids[id] : id \in DOMAIN b.ids}
<1>11. freeSlots = free /\ usedSlots = used /\ freeChain = q
  BY <1>3, <1>4
<1>12. SlotsAccountedFor <=>
         /\ Cardinality(freeSlots) = Len(freeChain)
         /\ Cardinality(usedSlots) = Cardinality(DOMAIN b.ids)
         /\ freeSlots \cap usedSlots = {}
         /\ freeSlots \cup usedSlots = Slots
         /\ b.live = Cardinality(usedSlots)
         /\ \A id \in DOMAIN b.ids : b.store[b.ids[id]].id = id
  BY DEF SlotsAccountedFor
<1> HIDE DEF freeSlots, usedSlots, freeChain, free, used
<1> QED
  BY <1>3, <1>5, <1>6, <1>7, <1>8, <1>9, <1>10, <1>11, <1>12

\* The slots of order_book.hpp's store are neither leaked nor handed out twice,
\* also in the middle of a sweep, for every capacity and every history.
THEOREM SlotsKept == Spec => []SlotsAccountedFor
BY BookRepresented, InvAccounts, PTL


\* A level whose queue is empty is the empty level.
LEMMA EmptyLevels ==
    ASSUME NEW x, NEW hd, NEW Q, Rep(x, hd, Q), NEW i \in Ix, Q[i] = <<>>,
           hd[i] = x.level[i].head
    PROVE  x.level[i] = EmptyLevel
<1>1. BookTyped(x) /\ Links(x, hd, Q) /\ BackLinks(x, Q) /\ Aggregates(x, Q)
  BY DEF Rep
<1>2. Len(Q[i]) = 0 /\ i \in Places
  BY Parameters
<1>3. x.level[i].head = Nil
  BY <1>1, <1>2 DEF Links, After
<1>4. x.level[i].tail = Nil
  BY <1>1, <1>2 DEF BackLinks, Before
<1>5. x.level[i].qty = 0
  <2>1. Sized(x)
    BY <1>1, TypedIsSized
  <2> QED
    BY <1>1, <2>1, TotalEmpty DEF Aggregates
<1>6. x.level[i] \in LevelRec
  BY <1>1 DEF BookTyped
<1> QED
  BY <1>3, <1>4, <1>5, <1>6 DEF EmptyLevel, LevelRec

\* A marked level's list ends at its tail, adds up to its aggregate, is linked
\* back, and holds orders of its side and level that the index knows.
LEMMA MarkedLevels ==
    ASSUME NEW x, NEW hd, NEW Q, Rep(x, hd, Q), NEW side \in Sides, NEW i \in x.bits[side],
           NEW q, q = Q[i]
    PROVE  /\ i \in Ix /\ q # <<>> /\ q \in Seq(Slots)
           /\ q[Len(q)] = x.level[i].tail
           /\ Total(x, q) = x.level[i].qty
           /\ \A k \in 1 .. Len(q) :
                /\ x.store[q[k]].side = side /\ x.store[q[k]].level = i
                /\ x.store[q[k]].qty # 0
                /\ k > 1 => x.store[q[k]].prev = q[k - 1]
                /\ x.store[q[k]].id \in DOMAIN x.ids /\ x.ids[x.store[q[k]].id] = q[k]
<1>1. /\ BookTyped(x) /\ Spread(Q) /\ BackLinks(x, Q) /\ Aggregates(x, Q) /\ Resting(x, Q)
      /\ Marked(x.bits, Q)
  BY DEF Rep
<1>2. i \in Ix /\ i \in Places
  BY <1>1, Parameters DEF BookTyped
<1>3. q # <<>>
  BY <1>1, <1>2 DEF Marked, Sides
<1>4. q \in Seq(Slots) /\ Len(q) \in Nat /\ Len(q) > 0
  BY <1>1, <1>2, <1>3, SpreadCovers
<1>5. x.level[i].tail = Before(q, Len(q) + 1) /\ Returns(x.store, q)
  BY <1>1, <1>2 DEF BackLinks
<1>6. q[Len(q)] = x.level[i].tail
  <2>1. PICK n \in Nat : n = Len(q)
    BY <1>4
  <2>2. n + 1 > 1 /\ (n + 1) - 1 = n
    BY <1>4, <2>1
  <2> QED
    BY <1>5, <2>1, <2>2 DEF Before
<1>7. Total(x, q) = x.level[i].qty
  BY <1>1, <1>2 DEF Aggregates
<1>8. ASSUME NEW k \in 1 .. Len(q)
      PROVE  /\ x.store[q[k]].side = side /\ x.store[q[k]].level = i
             /\ x.store[q[k]].qty # 0
             /\ k > 1 => x.store[q[k]].prev = q[k - 1]
             /\ x.store[q[k]].id \in DOMAIN x.ids /\ x.ids[x.store[q[k]].id] = q[k]
  <2>1. Holds(x, i, q[k])
    BY <1>1, <1>2, <1>8 DEF Resting
  <2>2. x.store[q[k]].side = side
    BY <2>1, OneSide DEF Holds
  <2>3. k > 1 => k \in 2 .. Len(q)
    BY <1>4, <1>8
  <2> QED
    BY <1>5, <2>1, <2>2, <2>3 DEF Holds, Returns
<1> QED
  BY <1>2, <1>3, <1>4, <1>6, <1>7, <1>8

\* Between two commands the book passes its audit.
LEMMA InvChecks == Inv => CheckInvariants
<1> SUFFICES ASSUME Inv, pc = "idle" PROVE CheckInvariants
  BY DEF CheckInvariants
<1>1. PICK Q : Rep(b, Heads, Q)
  BY DEF Inv, BookInv
<1>2. cursor = Nil
  BY DEF Inv, TakerInv
<1>3. \A i \in Ix : i \in Places /\ Heads[i] = b.level[i].head
  BY <1>2, Parameters DEF Heads, TrueHead
<1>4. /\ BookTyped(b) /\ Counted(b) /\ Marked(b.bits, Q) /\ Cached(b)
  BY <1>1 DEF Rep
<1>5. b.bits["Buy"] \in SUBSET Ix /\ b.bits["Sell"] \in SUBSET Ix
  BY <1>4 DEF BookTyped, Sides
<1>6. /\ b.best["Buy"] = FindPrev(b.bits["Buy"], Top)
      /\ b.best["Sell"] = FindNext(b.bits["Sell"], 0)
  BY <1>4 DEF Cached, BestOf, Sides
<1>7. b.best["Buy"] >= 0 /\ b.best["Sell"] =< Top => b.best["Buy"] < b.best["Sell"]
  <2>1. PICK bids, asks, bid, ask :
           bids = b.bits["Buy"] /\ asks = b.bits["Sell"] /\ bid = b.best["Buy"] /\ ask = b.best["Sell"]
    OBVIOUS
  <2>2. bid = BestOf("Buy", bids) /\ ask = BestOf("Sell", asks)
    BY <1>4, <2>1 DEF Cached, Sides
  <2>3. bids \in SUBSET Ix /\ (bids # {} => bid \in bids) /\ (bids = {} => bid = -1)
    <3>1. "Buy" \in Sides /\ bids \in SUBSET Ix
      BY <1>5, <2>1 DEF Sides
    <3> QED
      BY <2>2, <3>1, BestFacts
  <2>4. asks \in SUBSET Ix /\ (asks # {} => ask \in asks) /\ (asks = {} => ask = Top + 1)
    <3>1. "Sell" \in Sides /\ asks \in SUBSET Ix
      BY <1>5, <2>1 DEF Sides
    <3> QED
      BY <2>2, <3>1, BestFacts
  <2>5. \A i \in bids, j \in asks : i < j
    BY <1>4, <2>1 DEF Marked
  <2>6. ASSUME bid >= 0, ask =< Top PROVE bid < ask
    <3>1. bids # {} /\ asks # {}
      BY <2>3, <2>4, <2>6, IxFacts
    <3> QED
      BY <2>3, <2>4, <2>5, <3>1
  <2> QED
    BY <2>1, <2>6
<1>8. b.bits["Buy"] \cap b.bits["Sell"] = {}
  <2> SUFFICES ASSUME NEW i \in b.bits["Buy"], i \in b.bits["Sell"] PROVE FALSE
    OBVIOUS
  <2>1. i < i /\ i \in Int
    BY <1>4, <1>5, IxFacts DEF Marked
  <2> QED
    BY <2>1
<1>9. \A i \in Ix \ (b.bits["Buy"] \cup b.bits["Sell"]) : b.level[i] = EmptyLevel
  <2> TAKE i \in Ix \ (b.bits["Buy"] \cup b.bits["Sell"])
  <2>1. Q[i] = <<>>
    BY <1>4 DEF Marked
  <2> QED
    BY <1>1, <1>3, <2>1, EmptyLevels
<1>10. ASSUME NEW side \in Sides, NEW i \in b.bits[side]
       PROVE  LET lv == b.level[i]
                  chain == Chain(b, lv.head)
              IN  /\ chain # <<>>
                  /\ chain[Len(chain)] = lv.tail
                  /\ Total(b, chain) = lv.qty
                  /\ \A k \in DOMAIN chain :
                       LET o == b.store[chain[k]]
                       IN  /\ o.side = side /\ o.level = i /\ o.qty # 0
                           /\ k > 1 => o.prev = chain[k - 1]
                           /\ Find(o.id) = chain[k]
  <2>1. i \in Ix
    BY <1>4 DEF BookTyped
  <2> DEFINE lv == b.level[i]
             chain == Chain(b, lv.head)
  <2>2. chain = Q[i]
    BY <1>1, <1>3, <2>1, ChainOfPlace
  <2> HIDE DEF chain
  <2>3. /\ chain # <<>> /\ chain \in Seq(Slots)
        /\ chain[Len(chain)] = lv.tail
        /\ Total(b, chain) = lv.qty
        /\ \A k \in 1 .. Len(chain) :
             /\ b.store[chain[k]].side = side /\ b.store[chain[k]].level = i
             /\ b.store[chain[k]].qty # 0
             /\ k > 1 => b.store[chain[k]].prev = chain[k - 1]
             /\ b.store[chain[k]].id \in DOMAIN b.ids
             /\ b.ids[b.store[chain[k]].id] = chain[k]
    BY <1>1, <2>2, MarkedLevels
  <2>4. DOMAIN chain = 1 .. Len(chain)
    BY <2>3
  <2>5. \A k \in DOMAIN chain :
           LET o == b.store[chain[k]]
           IN  /\ o.side = side /\ o.level = i /\ o.qty # 0
               /\ k > 1 => o.prev = chain[k - 1]
               /\ Find(o.id) = chain[k]
    BY <2>3, <2>4 DEF Find
  <2> QED
    BY <2>3, <2>5 DEF chain
<1>11. Cardinality(DOMAIN b.ids) = b.live
  BY <1>4 DEF Counted
<1> QED
  BY <1>6, <1>7, <1>8, <1>9, <1>10, <1>11 DEF CheckInvariants

\* check_invariants (order_book.hpp) finds nothing to report between two
\* commands, for every price band, capacity and history.
THEOREM AuditPasses == Spec => []CheckInvariants
BY BookRepresented, InvChecks, PTL


-----------------------------------------------------------------------------
(* The reference book that the structures stand for. *)

\* The reference book has the vocabulary of this one.
LEMMA RefWords ==
    /\ Ref!Sides = Sides /\ Ref!Prices = Prices /\ Ref!Stps = Stps
    /\ Ref!NoTaker = NoTaker
    /\ Ref!AddCommand = AddCommand /\ Ref!CancelCommand = CancelCommand
    /\ Ref!ModifyCommand = ModifyCommand
<1>1. Ref!Sides = Sides /\ Ref!Prices = Prices /\ Ref!Stps = Stps /\ Ref!NoTaker = NoTaker
  BY DEF Ref!Sides, Sides, Ref!Prices, Prices, Ref!Stps, Stps, Ref!NoTaker, NoTaker
<1>2. Ref!CancelCommand = CancelCommand /\ Ref!ModifyCommand = ModifyCommand
  BY DEF Ref!CancelCommand, CancelCommand, Ref!ModifyCommand, ModifyCommand,
         Ref!InputIds, InputIds, Ref!InputPrices, InputPrices
<1>3. Ref!AddCommand = AddCommand
  BY DEF Ref!AddCommand, AddCommand, Ref!LimitCommand, LimitCommand, Ref!MarketCommand,
         MarketCommand, Ref!OddCommand, OddCommand, Ref!NewOrder, NewOrder, Ref!IllFormed,
         IllFormed, Ref!InputIds, InputIds, Ref!InputPrices, InputPrices, Ref!Sides, Sides,
         Ref!Prices, Prices
<1> QED
  BY <1>1, <1>2, <1>3

\* So have its operators.
LEMMA RefOperators ==
    /\ \A side : Ref!Opposite(side) = Opposite(side)
    /\ \A flag : Ref!EffectiveStp(flag) = EffectiveStp(flag)
    /\ \A c : Ref!Market(c) <=> Market(c)
    /\ \A c, reason : Ref!Rejected(c, reason) = Rejected(c, reason)
    /\ \A id, side, px, qty : Ref!Accepted(id, side, px, qty) = Accepted(id, side, px, qty)
    /\ \A id, side, px, qty, reason :
          Ref!Canceled(id, side, px, qty, reason) = Canceled(id, side, px, qty, reason)
    /\ \A id, side, px, qty : Ref!Modified(id, side, px, qty) = Modified(id, side, px, qty)
    /\ \A id, side, px, qty : Ref!StpDecrement(id, side, px, qty) = StpDecrement(id, side, px, qty)
    /\ \A id, maker, side, px, qty, leaves :
          Ref!Trade(id, maker, side, px, qty, leaves) = Trade(id, maker, side, px, qty, leaves)
BY DEF Ref!Opposite, Opposite, Ref!EffectiveStp, EffectiveStp, Ref!Market, Market,
       Ref!Rejected, Rejected, Ref!Accepted, Accepted, Ref!Canceled, Canceled,
       Ref!Modified, Modified, Ref!StpDecrement, StpDecrement, Ref!Trade, Trade,
       Ref!Event, Event


\* The order in a slot, the queue of a level on a side, and all the queues.
OrderAt(x, s) == [id |-> x.store[s].id, qty |-> x.store[s].qty, owner |-> x.store[s].owner]

OrdersOf(x, q) == [k \in 1 .. Len(q) |-> OrderAt(x, q[k])]

QueueIn(x, Q, side, i) == IF i \in x.bits[side] THEN OrdersOf(x, Q[i]) ELSE <<>>

BookIn(x, Q) == [side \in Sides |-> [p \in Prices |-> QueueIn(x, Q, side, Rel(p))]]

\* Where the orders are.
Place(x, s) == [side |-> x.store[s].side, price |-> Px(x.store[s].level)]
IndexIn(x) == [id \in DOMAIN x.ids |-> Place(x, x.ids[id])]

\* An index without an order, and one with an order.
Without(ix, id) == [d \in DOMAIN ix \ {id} |-> ix[d]]
With(ix, id, loc) == [d \in DOMAIN ix \cup {id} |-> IF d = id THEN loc ELSE ix[d]]

\* The queue that the links of a level spell out.
LEMMA QueueIs ==
    ASSUME NEW Q, Rep(b, Heads, Q), NEW side \in Sides, NEW i \in Ix
    PROVE  QueueOf(side, i) = QueueIn(b, Q, side, i)
<1>1. i \in Places /\ Heads[i] = TrueHead(i)
  BY Parameters DEF Heads
<1>2. Chain(b, TrueHead(i)) = Q[i] /\ Q[i] \in Seq(Slots)
  BY <1>1, ChainOfPlace
<1>3. PICK q : q = Q[i] /\ q = Chain(b, TrueHead(i)) /\ q \in Seq(Slots)
  BY <1>2
<1>4. DOMAIN q = 1 .. Len(q)
  BY <1>3
<1> DEFINE chain == Chain(b, TrueHead(i))
<1>5. QueueOf(side, i) =
         IF i \notin b.bits[side] THEN <<>>
         ELSE [k \in DOMAIN chain |->
                 [id |-> b.store[chain[k]].id, qty |-> b.store[chain[k]].qty,
                  owner |-> b.store[chain[k]].owner]]
  BY DEF QueueOf
<1>6. chain = q
  BY <1>3
<1> HIDE DEF chain
<1>7. QueueIn(b, Q, side, i) =
         IF i \notin b.bits[side] THEN <<>>
         ELSE [k \in 1 .. Len(q) |->
                 [id |-> b.store[q[k]].id, qty |-> b.store[q[k]].qty,
                  owner |-> b.store[q[k]].owner]]
  BY <1>3 DEF QueueIn, OrdersOf, OrderAt
<1> QED
  BY <1>4, <1>5, <1>6, <1>7

\* The reference book of the current state.
LEMMA RefBookIs ==
    ASSUME NEW Q, Rep(b, Heads, Q)
    PROVE  refBook = BookIn(b, Q) /\ refIndex = IndexIn(b)
<1>1. \A side \in Sides, p \in Prices : QueueOf(side, Rel(p)) = QueueIn(b, Q, side, Rel(p))
  BY LimitFacts, QueueIs
<1>2. refBook = BookIn(b, Q)
  BY <1>1 DEF refBook, BookIn
<1>3. refIndex = IndexIn(b)
  BY DEF refIndex, IndexIn, Place
<1> QED
  BY <1>2, <1>3

\* The reference book of the next state.
LEMMA RefBookNext ==
    ASSUME NEW Q, Rep(b', Heads', Q)
    PROVE  refBook' = BookIn(b', Q) /\ refIndex' = IndexIn(b')
<1>1. (Rep(b, Heads, Q) => refBook = BookIn(b, Q) /\ refIndex = IndexIn(b))'
  BY RefBookIs, PTL
<1> QED
  BY <1>1


\* A queue holds orders where its level is marked.
LEMMA QueueFacts ==
    ASSUME NEW x, NEW hd, NEW Q, Rep(x, hd, Q), NEW side \in Sides, NEW p \in Prices
    PROVE  /\ BookIn(x, Q)[side][p] = QueueIn(x, Q, side, Rel(p))
           /\ Rel(p) \in Ix
           /\ BookIn(x, Q)[side][p] # <<>> <=> Rel(p) \in x.bits[side]
           /\ Rel(p) \in x.bits[side] =>
                /\ Len(BookIn(x, Q)[side][p]) = Len(Q[Rel(p)]) /\ Len(Q[Rel(p)]) \in Nat
                /\ Len(Q[Rel(p)]) > 0
                /\ BookIn(x, Q)[side][p] = OrdersOf(x, Q[Rel(p)])
<1>1. BookIn(x, Q)[side][p] = QueueIn(x, Q, side, Rel(p))
  BY DEF BookIn
<1>2. PICK i : i = Rel(p)
  OBVIOUS
<1>3. i \in Ix
  BY <1>2, LimitFacts
<1>4. CASE i \notin x.bits[side]
  BY <1>1, <1>2, <1>3, <1>4 DEF QueueIn
<1>5. CASE i \in x.bits[side]
  <2>1. PICK q : q = Q[i]
    OBVIOUS
  <2>2. q # <<>> /\ q \in Seq(Slots)
    BY <1>5, <2>1, MarkedLevels
  <2>3. Len(q) \in Nat /\ Len(q) > 0
    BY <2>2
  <2>4. QueueIn(x, Q, side, i) = OrdersOf(x, q)
    BY <1>5, <2>1 DEF QueueIn
  <2>5. PICK f : f = OrdersOf(x, q)
    OBVIOUS
  <2>6. Len(f) = Len(q) /\ f # <<>>
    BY <2>3, <2>5 DEF OrdersOf
  <2> QED
    BY <1>1, <1>2, <1>3, <1>5, <2>1, <2>3, <2>4, <2>5, <2>6
<1> QED
  BY <1>4, <1>5

\* The reference book has the levels that are marked.
LEMMA RefLevels ==
    ASSUME NEW Q, Rep(b, Heads, Q), NEW side \in Sides
    PROVE  /\ Ref!Levels(side) \subseteq Prices
           /\ \A p \in Prices : p \in Ref!Levels(side) <=> Rel(p) \in b.bits[side]
<1>1. refBook = BookIn(b, Q) /\ Ref!Prices = Prices
  BY RefBookIs, RefWords
<1>2. \A p \in Prices : refBook[side][p] # <<>> <=> Rel(p) \in b.bits[side]
  <2> TAKE p \in Prices
  <2>1. BookIn(b, Q)[side][p] # <<>> <=> Rel(p) \in b.bits[side]
    BY QueueFacts
  <2> QED
    BY <1>1, <2>1
<1> QED
  BY <1>1, <1>2 DEF Ref!Levels

\* An order crosses in the one book when it does in the other.
LEMMA RefCrosses ==
    ASSUME NEW Q, Rep(b, Heads, Q), NEW side \in Sides, NEW lim \in Prices
    PROVE  Ref!Crosses(side, lim) <=> Crosses(side, Rel(lim))
<1>1. PICK o, l : o = Opposite(side) /\ l = Rel(lim)
  OBVIOUS
<1>2. l \in Ix /\ o \in Sides /\ Px(l) = lim
  BY <1>1, LimitFacts DEF Opposite, Sides
<1>3. /\ Ref!Crosses(side, lim) <=> \E p \in Ref!Levels(o) : Ref!InRange(side, p, lim)
      /\ \A p : Ref!InRange(side, p, lim) <=> IF side = "Buy" THEN p =< lim ELSE p >= lim
  BY <1>1, RefOperators DEF Ref!Crosses, Ref!InRange
<1>4. /\ Ref!Levels(o) \subseteq Prices
      /\ \A p \in Prices : p \in Ref!Levels(o) <=> Rel(p) \in b.bits[o]
  BY <1>2, RefLevels
<1>5. b.bits[o] \subseteq Ix
  BY <1>2 DEF Rep, BookTyped
<1>6. MinPrice \in Int /\ MaxPrice \in Int /\ lim \in Int /\ \A p \in Prices : p \in Int
  BY BookAssumption DEF Prices
<1>7. ASSUME Crosses(side, l) PROVE Ref!Crosses(side, lim)
  <2>1. PICK v : v = b.best[o]
    OBVIOUS
  <2>2. v \in b.bits[o] /\ v \in Ix
    BY <1>1, <1>2, <1>7, <2>1, CrossFacts
  <2>3. Px(v) \in Prices /\ Rel(Px(v)) = v
    BY <2>2, PriceFacts
  <2>4. Px(v) \in Ref!Levels(o)
    BY <1>4, <2>2, <2>3
  <2>5. IF side = "Buy" THEN v =< l ELSE v >= l
    BY <1>1, <1>7, <2>1 DEF Crosses, Opposite, Sides
  <2>6. IF side = "Buy" THEN Px(v) =< lim ELSE Px(v) >= lim
    BY <1>1, <1>2, <1>6, <2>2, <2>5, IxFacts DEF Px
  <2> QED
    BY <1>3, <2>4, <2>6
<1>8. ASSUME ~Crosses(side, l) PROVE ~Ref!Crosses(side, lim)
  <2>1. \A j \in b.bits[o] : IF side = "Buy" THEN l < j ELSE j < l
    BY <1>1, <1>2, <1>8, CrossFacts DEF Clear
  <2> SUFFICES ASSUME NEW p \in Prices, Rel(p) \in b.bits[o],
                      IF side = "Buy" THEN p =< lim ELSE p >= lim
               PROVE  FALSE
    BY <1>3, <1>4
  <2>2. IF side = "Buy" THEN l < Rel(p) ELSE Rel(p) < l
    BY <2>1
  <2> QED
    BY <1>1, <1>6, <2>2 DEF Rel
<1> QED
  BY <1>1, <1>7, <1>8

\* The best levels are the same.
LEMMA RefBest ==
    ASSUME NEW Q, Rep(b, Heads, Q), NEW side \in Sides, b.bits[side] # {}
    PROVE  Ref!Best(side) = Px(b.best[side])
<1>1. PICK v, set : v = b.best[side] /\ set = b.bits[side]
  OBVIOUS
<1>2. set \in SUBSET Ix /\ v = BestOf(side, set) /\ set # {}
  BY <1>1 DEF Rep, BookTyped, Cached
<1>3. v \in set /\ \A k \in set : AtLeast(side, v, k)
  BY <1>2, BestFacts
<1>4. PICK L : L = Ref!Levels(side)
  OBVIOUS
<1>5. L \subseteq Prices /\ \A p \in Prices : p \in L <=> Rel(p) \in set
  BY <1>1, <1>4, RefLevels
<1>6. MinPrice \in Int /\ MaxPrice \in Int /\ \A p \in Prices : p \in Int
  BY BookAssumption DEF Prices
<1>7. \A p, q : Ref!InRange(Opposite(side), p, q) <=> IF side = "Sell" THEN p =< q ELSE p >= q
  BY DEF Ref!InRange, Opposite, Sides
<1>8. Ref!Best(side) = CHOOSE p \in L : \A q \in L : IF side = "Sell" THEN p =< q ELSE p >= q
  BY <1>4, <1>7, RefOperators DEF Ref!Best
<1>9. Px(v) \in L /\ Px(v) \in Int
  BY <1>2, <1>3, <1>5, <1>6, PriceFacts
<1>10. \A q \in L : q \in Int /\ IF side = "Sell" THEN Px(v) =< q ELSE Px(v) >= q
  <2> TAKE q \in L
  <2>1. Rel(q) \in set /\ q \in Int
    BY <1>5, <1>6
  <2>2. AtLeast(side, v, Rel(q)) /\ v \in Int
    BY <1>2, <1>3, <2>1, IxFacts
  <2> QED
    BY <1>6, <2>1, <2>2 DEF AtLeast, Px, Rel
<1>11. PICK w : w = Px(v)
  OBVIOUS
<1>12. /\ w \in L /\ w \in Int
       /\ \A q \in L : q \in Int /\ IF side = "Sell" THEN w =< q ELSE w >= q
  BY <1>9, <1>10, <1>11
<1>13. w = CHOOSE p \in L : \A q \in L : IF side = "Sell" THEN p =< q ELSE p >= q
  BY <1>12
<1> QED
  BY <1>1, <1>8, <1>11, <1>13


\* The orders of a list are those of the slots that have not changed.
LEMMA OrdersSame ==
    ASSUME NEW x, NEW y, NEW q, \A m \in 1 .. Len(q) : SameOrder(x.store[q[m]], y.store[q[m]])
    PROVE  OrdersOf(y, q) = OrdersOf(x, q)
BY DEF OrdersOf, OrderAt, SameOrder

\* A list that loses a slot loses its order.
LEMMA OrdersCut ==
    ASSUME NEW x, NEW y, NEW q \in Seq(Slots), NEW k \in 1 .. Len(q),
           \A m \in 1 .. Len(q) : m # k => SameOrder(x.store[q[m]], y.store[q[m]])
    PROVE  OrdersOf(y, CutAt(q, k)) = CutAt(OrdersOf(x, q), k)
<1>1. Len(q) \in Nat /\ k \in Int
  OBVIOUS
<1>2. PICK n \in Nat : n = Len(q)
  BY <1>1
<1>3. PICK c : c = CutAt(q, k)
  OBVIOUS
<1>4. Len(c) = n - 1 /\ n - 1 \in Nat /\ \A m \in 1 .. n - 1 : c[m] = IF m < k THEN q[m] ELSE q[m + 1]
  <2>1. n - 1 \in Nat
    BY <1>2
  <2>2. c = [m \in 1 .. n - 1 |-> IF m < k THEN q[m] ELSE q[m + 1]]
    BY <1>2, <1>3 DEF CutAt
  <2> QED
    BY <2>1, <2>2
<1>5. PICK f : f = OrdersOf(x, q)
  OBVIOUS
<1>6. Len(f) = n /\ \A m \in 1 .. n : f[m] = OrderAt(x, q[m])
  BY <1>2, <1>5 DEF OrdersOf
<1>7. CutAt(f, k) = [m \in 1 .. n - 1 |-> IF m < k THEN f[m] ELSE f[m + 1]]
  BY <1>6 DEF CutAt
<1>8. OrdersOf(y, c) = [m \in 1 .. n - 1 |-> OrderAt(y, c[m])]
  BY <1>4 DEF OrdersOf
<1>9. \A m \in 1 .. n : m # k => OrderAt(y, q[m]) = OrderAt(x, q[m])
  BY <1>2 DEF OrderAt, SameOrder
<1>10. \A m \in 1 .. n - 1 : OrderAt(y, c[m]) = IF m < k THEN f[m] ELSE f[m + 1]
  <2> TAKE m \in 1 .. n - 1
  <2>1. m \in 1 .. n /\ m + 1 \in 1 .. n
    BY <1>2
  <2>2. CASE m < k
    BY <1>4, <1>6, <1>9, <2>1, <2>2
  <2>3. CASE ~(m < k)
    <3>1. m + 1 # k
      BY <1>1, <2>3
    <3> QED
      BY <1>4, <1>6, <1>9, <2>1, <2>3, <3>1
  <2> QED
    BY <2>2, <2>3
<1> QED
  BY <1>3, <1>5, <1>7, <1>8, <1>10

\* A list that gains a slot gains its order.
LEMMA OrdersAppend ==
    ASSUME NEW x, NEW y, NEW q \in Seq(Slots), NEW s \in Slots,
           \A m \in 1 .. Len(q) : SameOrder(x.store[q[m]], y.store[q[m]])
    PROVE  OrdersOf(y, Append(q, s)) = Append(OrdersOf(x, q), OrderAt(y, s))
<1>1. PICK n \in Nat : n = Len(q)
  OBVIOUS
<1>2. PICK c : c = Append(q, s)
  OBVIOUS
<1>3. Len(c) = n + 1 /\ \A m \in 1 .. n + 1 : c[m] = IF m = n + 1 THEN s ELSE q[m]
  BY <1>1, <1>2
<1>4. PICK f : f = OrdersOf(x, q)
  OBVIOUS
<1>5. f = [m \in 1 .. n |-> OrderAt(x, q[m])]
  BY <1>1, <1>4 DEF OrdersOf
<1>6. f \in Seq({OrderAt(x, q[m]) : m \in 1 .. n}) /\ Len(f) = n
  BY <1>5
<1>7. PICK o, S : o = OrderAt(y, s) /\ S = {OrderAt(x, q[m]) : m \in 1 .. n} \cup {o}
  OBVIOUS
<1>8. f \in Seq(S) /\ o \in S
  BY <1>5, <1>7
<1>9. Append(f, o) = [m \in 1 .. n + 1 |-> IF m = n + 1 THEN o ELSE f[m]]
  <2>1. PICK g : g = Append(f, o)
    OBVIOUS
  <2>2. g \in Seq(S) /\ Len(g) = n + 1 /\ \A m \in 1 .. n + 1 : g[m] = IF m = n + 1 THEN o ELSE f[m]
    BY <1>6, <1>8, <2>1
  <2>3. g = [m \in 1 .. n + 1 |-> g[m]]
    <3>1. DOMAIN g = 1 .. Len(g) /\ g = [m \in DOMAIN g |-> g[m]]
      BY <2>2
    <3> QED
      BY <2>2, <3>1
  <2>4. [m \in 1 .. n + 1 |-> g[m]] = [m \in 1 .. n + 1 |-> IF m = n + 1 THEN o ELSE f[m]]
    BY <2>2
  <2> QED
    BY <2>1, <2>3, <2>4
<1>10. OrdersOf(y, c) = [m \in 1 .. n + 1 |-> OrderAt(y, c[m])]
  BY <1>3 DEF OrdersOf
<1>11. \A m \in 1 .. n + 1 : OrderAt(y, c[m]) = IF m = n + 1 THEN o ELSE f[m]
  <2>1. \A m \in 1 .. n : OrderAt(y, q[m]) = OrderAt(x, q[m])
    BY <1>1 DEF OrderAt, SameOrder
  <2> QED
    BY <1>3, <1>5, <1>7, <2>1
<1> QED
  BY <1>2, <1>4, <1>7, <1>9, <1>10, <1>11

\* The k-th order of a queue now has size n.
Resized(q, k, n) == [q EXCEPT ![k].qty = n]

\* The k-th slot of a list now has size n.
OneSize(x, y, q, k, n) ==
    \A m \in 1 .. Len(q) :
       /\ y.store[q[m]].id = x.store[q[m]].id
       /\ y.store[q[m]].owner = x.store[q[m]].owner
       /\ y.store[q[m]].qty = IF q[m] = q[k] THEN n ELSE x.store[q[m]].qty

\* A list of which one slot is amended.
LEMMA OrdersAmend ==
    ASSUME NEW x, NEW y, NEW q, Distinct(q), NEW k \in 1 .. Len(q), NEW n,
           OneSize(x, y, q, k, n)
    PROVE  OrdersOf(y, q) = Resized(OrdersOf(x, q), k, n)
<1>1. \A m \in 1 .. Len(q) : q[m] = q[k] <=> m = k
  BY DEF Distinct
<1>2. \A m \in 1 .. Len(q) :
         OrderAt(y, q[m]) = IF m = k THEN [OrderAt(x, q[m]) EXCEPT !.qty = n] ELSE OrderAt(x, q[m])
  BY <1>1 DEF OrderAt, OneSize
<1>3. PICK f : f = [m \in 1 .. Len(q) |-> OrderAt(x, q[m])]
  OBVIOUS
<1>4. [f EXCEPT ![k].qty = n] =
         [m \in 1 .. Len(q) |-> IF m = k THEN [OrderAt(x, q[m]) EXCEPT !.qty = n]
                                         ELSE OrderAt(x, q[m])]
  BY <1>3
<1> QED
  BY <1>2, <1>3, <1>4 DEF OrdersOf, Resized

\* Queue v takes the place of one queue of a book.
Replaced(book, side, p, v) == [book EXCEPT ![side][p] = v]

\* The queue of level i is now v.
OneQueue(x, Q, y, Q2, side, i, v) ==
    \A sd \in Sides, j \in Ix :
       QueueIn(y, Q2, sd, j) = IF sd = side /\ j = i THEN v ELSE QueueIn(x, Q, sd, j)

\* A change of one queue.
LEMMA BookChange ==
    ASSUME NEW x, NEW y, NEW Q, NEW Q2, NEW side \in Sides, NEW i \in Ix, NEW v,
           OneQueue(x, Q, y, Q2, side, i, v)
    PROVE  BookIn(y, Q2) = Replaced(BookIn(x, Q), side, Px(i), v)
<1>1. \A p \in Prices : Rel(p) \in Ix /\ (Rel(p) = i <=> p = Px(i))
  BY LimitFacts, PriceFacts
<1>2. PICK w : w = Px(i)
  OBVIOUS
<1>3. \A sd \in Sides, p \in Prices :
        QueueIn(y, Q2, sd, Rel(p)) =
          IF sd = side /\ p = w THEN v ELSE QueueIn(x, Q, sd, Rel(p))
  BY <1>1, <1>2 DEF OneQueue
<1>4. PICK f : f = BookIn(x, Q)
  OBVIOUS
<1>5. f = [sd \in Sides |-> [p \in Prices |-> QueueIn(x, Q, sd, Rel(p))]]
  BY <1>4 DEF BookIn
<1>6. [f EXCEPT ![side][w] = v] =
        [sd \in Sides |-> [p \in Prices |->
           IF sd = side /\ p = w THEN v ELSE QueueIn(x, Q, sd, Rel(p))]]
  BY <1>5
<1> QED
  <2>1. Replaced(f, side, w, v) = [f EXCEPT ![side][w] = v]
    BY DEF Replaced
  <2>2. BookIn(y, Q2) = [f EXCEPT ![side][w] = v]
    BY <1>3, <1>6 DEF BookIn
  <2> QED
    BY <1>2, <1>4, <2>1, <2>2


\* The queues and the index after an order has left.
LEMMA FreedBook ==
    ASSUME NEW x, NEW hd, NEW Q, Rep(x, hd, Q), NEW i \in Ix, NEW k \in 1 .. Len(Q[i]),
           NEW y, FreedTo(x, y, Q, i, k), NEW side, side = x.store[Q[i][k]].side
    PROVE  /\ side \in Sides /\ i \in x.bits[side]
           /\ BookIn(y, Freed(Q, i, k)) =
                Replaced(BookIn(x, Q), side, Px(i), CutAt(OrdersOf(x, Q[i]), k))
           /\ IndexIn(y) = Without(IndexIn(x), x.store[Q[i][k]].id)
<1>1. /\ BookTyped(x) /\ Spread(Q) /\ Resting(x, Q) /\ Indexed(x, Q)
  BY DEF Rep
<1>2. PICK q, s, Q2 : q = Q[i] /\ s = q[k] /\ Q2 = Freed(Q, i, k)
  OBVIOUS
<1>3. Holds(x, i, s)
  BY <1>1, <1>2 DEF Resting
<1>4. side \in Sides /\ i \in x.bits[side] /\ side = x.store[s].side
  BY <1>2, <1>3 DEF Holds
<1>5. /\ ReleasedTo(x, y, s) /\ LeftTo(x, y, q, i, k)
  BY <1>2 DEF FreedTo
<1>6. i \in Places /\ q \in Seq(Slots) /\ s \in Slots /\ Len(q) \in Nat /\ k \in 1 .. Len(q)
  BY <1>1, <1>2, SpreadCovers, Parameters
<1>7. \A sd \in Sides, j \in Ix :
         j \in y.bits[sd] <=> j \in x.bits[sd] /\ ~(Len(q) = 1 /\ sd = side /\ j = i)
  <2>1. CASE Len(q) = 1
    BY <1>4, <1>2, <1>5, <2>1 DEF LeftTo, RetiredTo
  <2>2. CASE Len(q) # 1
    BY <1>5, <2>2 DEF LeftTo
  <2> QED
    BY <2>1, <2>2
<1>8. \A j \in Ix : j # i => Q2[j] = Q[j]
  BY <1>2, Parameters DEF Freed
<1>9. Q2[i] = CutAt(q, k)
  BY <1>2, <1>6 DEF Freed
<1>10. \A t \in Slots : t # s => SameOrder(x.store[t], y.store[t])
  BY <1>5 DEF ReleasedTo
<1>11. ASSUME NEW sd \in Sides, NEW j \in Ix
       PROVE  QueueIn(y, Q2, sd, j) =
                IF sd = side /\ j = i THEN CutAt(OrdersOf(x, q), k) ELSE QueueIn(x, Q, sd, j)
  <2>1. CASE j # i
    <3>1. OrdersOf(y, Q[j]) = OrdersOf(x, Q[j])
      <4>1. ASSUME NEW m \in 1 .. Len(Q[j]) PROVE SameOrder(x.store[Q[j][m]], y.store[Q[j][m]])
        <5>1. j \in Places /\ Q[j][m] \in Slots
          BY <1>1, <4>1, SpreadCovers, Parameters
        <5>2. Q[j][m] # s
          BY <1>1, <1>2, <1>6, <2>1, <4>1, <5>1, SpreadDistinct
        <5> QED
          BY <1>10, <5>1, <5>2
      <4> QED
        BY <4>1, OrdersSame
    <3>2. j \in y.bits[sd] <=> j \in x.bits[sd]
      BY <1>7, <2>1
    <3> QED
      BY <1>8, <2>1, <3>1, <3>2 DEF QueueIn
  <2>2. CASE j = i /\ sd # side
    <3>1. j \notin x.bits[sd]
      BY <1>4, <2>2, OneSide
    <3>2. j \notin y.bits[sd]
      BY <1>7, <3>1
    <3> QED
      BY <2>2, <3>1, <3>2 DEF QueueIn
  <2>3. CASE j = i /\ sd = side
    <3>1. OrdersOf(y, CutAt(q, k)) = CutAt(OrdersOf(x, q), k)
      <4>1. ASSUME NEW m \in 1 .. Len(q), m # k PROVE SameOrder(x.store[q[m]], y.store[q[m]])
        <5>1. q[m] \in Slots
          BY <1>6, <4>1
        <5>2. q[m] # s
          BY <1>1, <1>2, <1>6, <4>1, SpreadDistinct
        <5> QED
          BY <1>10, <5>1, <5>2
      <4> QED
        BY <1>6, <4>1, OrdersCut
    <3>2. CASE Len(q) # 1
      <4>1. i \in y.bits[side]
        BY <1>4, <1>7, <3>2
      <4> QED
        BY <1>9, <2>3, <3>1, <4>1 DEF QueueIn
    <3>3. CASE Len(q) = 1
      <4>1. i \notin y.bits[side]
        BY <1>4, <1>7, <3>3
      <4>2. QueueIn(y, Q2, side, i) = <<>>
        BY <4>1 DEF QueueIn
      <4>3. CutAt(OrdersOf(x, q), k) = <<>>
        <5>1. PICK f : f = OrdersOf(x, q)
          OBVIOUS
        <5>2. Len(f) = 1
          BY <3>3, <5>1 DEF OrdersOf
        <5>3. CutAt(f, k) = [m \in 1 .. 0 |-> IF m < k THEN f[m] ELSE f[m + 1]]
          BY <5>2 DEF CutAt
        <5> QED
          BY <5>1, <5>3
      <4> QED
        BY <2>3, <4>2, <4>3
    <3> QED
      BY <3>2, <3>3
  <2> QED
    BY <2>1, <2>2, <2>3
<1>12. BookIn(y, Q2) = Replaced(BookIn(x, Q), side, Px(i), CutAt(OrdersOf(x, q), k))
  <2>1. OneQueue(x, Q, y, Q2, side, i, CutAt(OrdersOf(x, q), k))
    BY <1>11 DEF OneQueue
  <2> QED
    BY <1>4, <2>1, BookChange
<1>13. IndexIn(y) = Without(IndexIn(x), x.store[s].id)
  <2>1. PICK f : f = IndexIn(x)
    OBVIOUS
  <2>2. DOMAIN f = DOMAIN x.ids /\ \A d \in DOMAIN x.ids : f[d] = Place(x, x.ids[d])
    BY <2>1 DEF IndexIn
  <2>3. DOMAIN y.ids = DOMAIN x.ids \ {x.store[s].id}
    BY <1>5 DEF ReleasedTo
  <2>4. \A d \in DOMAIN y.ids : Place(y, y.ids[d]) = f[d]
    <3> TAKE d \in DOMAIN y.ids
    <3>1. d \in DOMAIN x.ids /\ d # x.store[s].id /\ y.ids[d] = x.ids[d]
      BY <1>5, <2>3 DEF ReleasedTo
    <3>2. x.ids[d] \in Slots /\ x.store[x.ids[d]].id = d
      BY <1>1, <3>1 DEF BookTyped, Indexed
    <3>3. x.ids[d] # s
      BY <3>1, <3>2
    <3>4. SameOrder(x.store[x.ids[d]], y.store[x.ids[d]])
      BY <1>10, <3>2, <3>3
    <3> QED
      BY <2>2, <3>1, <3>4 DEF Place, SameOrder
  <2> QED
    BY <2>1, <2>2, <2>3, <2>4 DEF IndexIn, Without
<1> QED
  BY <1>2, <1>4, <1>12, <1>13


\* The queues and the index after an order has been amended.
LEMMA AmendedBook ==
    ASSUME NEW x, NEW hd, NEW Q, Rep(x, hd, Q), NEW i \in Ix, NEW k \in 1 .. Len(Q[i]),
           NEW y, NEW n, AmendedTo(x, y, i, Q[i][k], n), NEW side, side = x.store[Q[i][k]].side
    PROVE  /\ side \in Sides /\ i \in x.bits[side]
           /\ BookIn(y, Q) =
                Replaced(BookIn(x, Q), side, Px(i), Resized(OrdersOf(x, Q[i]), k, n))
           /\ IndexIn(y) = IndexIn(x)
<1>1. /\ BookTyped(x) /\ Spread(Q) /\ Resting(x, Q) /\ Indexed(x, Q)
  BY DEF Rep
<1>2. PICK q, s : q = Q[i] /\ s = q[k]
  OBVIOUS
<1>3. Holds(x, i, s)
  BY <1>1, <1>2 DEF Resting
<1>4. side \in Sides /\ i \in x.bits[side]
  BY <1>2, <1>3 DEF Holds
<1>5. /\ y.bits = x.bits /\ y.ids = x.ids
      /\ \A t \in Slots :
          /\ y.store[t].id = x.store[t].id /\ y.store[t].level = x.store[t].level
          /\ y.store[t].owner = x.store[t].owner /\ y.store[t].side = x.store[t].side
          /\ y.store[t].qty = IF t = s THEN n ELSE x.store[t].qty
  BY <1>2 DEF AmendedTo
<1>6. i \in Places /\ q \in Seq(Slots) /\ s \in Slots /\ k \in 1 .. Len(q)
  BY <1>1, <1>2, SpreadCovers, Parameters
<1>7. OrdersOf(y, q) = Resized(OrdersOf(x, q), k, n)
  <2>1. Distinct(q)
    BY <1>1, <1>2, <1>6, SpreadDistinct DEF Distinct
  <2>2. ASSUME NEW m \in 1 .. Len(q)
        PROVE  /\ y.store[q[m]].id = x.store[q[m]].id
               /\ y.store[q[m]].owner = x.store[q[m]].owner
               /\ y.store[q[m]].qty = IF q[m] = q[k] THEN n ELSE x.store[q[m]].qty
    <3>1. q[m] \in Slots
      BY <1>6, <2>2
    <3> QED
      BY <1>2, <1>5, <3>1
  <2>3. OneSize(x, y, q, k, n)
    BY <2>2 DEF OneSize
  <2> QED
    BY <1>6, <2>1, <2>3, OrdersAmend
<1>8. PICK v : v = Resized(OrdersOf(x, q), k, n)
  OBVIOUS
<1>9. ASSUME NEW sd \in Sides, NEW j \in Ix
      PROVE  QueueIn(y, Q, sd, j) = IF sd = side /\ j = i THEN v ELSE QueueIn(x, Q, sd, j)
  <2>1. CASE j # i
    <3>1. OrdersOf(y, Q[j]) = OrdersOf(x, Q[j])
      <4>1. ASSUME NEW m \in 1 .. Len(Q[j]) PROVE SameOrder(x.store[Q[j][m]], y.store[Q[j][m]])
        <5>1. j \in Places /\ Q[j][m] \in Slots
          BY <1>1, <4>1, SpreadCovers, Parameters
        <5>2. Q[j][m] # s
          BY <1>1, <1>2, <1>6, <2>1, <4>1, <5>1, SpreadDistinct
        <5> QED
          BY <1>5, <5>1, <5>2 DEF SameOrder
      <4> QED
        BY <4>1, OrdersSame
    <3> QED
      BY <1>5, <2>1, <3>1 DEF QueueIn
  <2>2. CASE j = i /\ sd # side
    <3>1. j \notin x.bits[sd]
      BY <1>4, <2>2, OneSide
    <3> QED
      BY <1>5, <2>2, <3>1 DEF QueueIn
  <2>3. CASE j = i /\ sd = side
    BY <1>2, <1>4, <1>5, <1>7, <1>8, <2>3 DEF QueueIn
  <2> QED
    BY <2>1, <2>2, <2>3
<1>10. BookIn(y, Q) = Replaced(BookIn(x, Q), side, Px(i), v)
  <2>1. OneQueue(x, Q, y, Q, side, i, v)
    BY <1>9 DEF OneQueue
  <2> QED
    BY <1>4, <2>1, BookChange
<1>11. IndexIn(y) = IndexIn(x)
  <2>1. \A d \in DOMAIN x.ids : Place(y, x.ids[d]) = Place(x, x.ids[d])
    <3> TAKE d \in DOMAIN x.ids
    <3>1. x.ids[d] \in Slots
      BY <1>1 DEF BookTyped
    <3> QED
      BY <1>5, <3>1 DEF Place
  <2> QED
    BY <1>5, <2>1 DEF IndexIn
<1> QED
  BY <1>2, <1>4, <1>8, <1>10, <1>11


\* The queues and the index after an order has come to rest.
LEMMA RestedBook ==
    ASSUME NEW x, NEW hd, NEW Q, Rep(x, hd, Q), NEW i \in Ix, x.free # Nil, hd[FreePlace] = x.free,
           NEW side \in Sides, NEW id, NEW n, NEW y, RestedTo(x, y, i, id, side, n),
           id \notin DOMAIN x.ids, NEW hd2, Rep(y, hd2, Rested(Q, i)),
           NEW o, o = [id |-> id, qty |-> n, owner |-> y.store[x.free].owner]
    PROVE  /\ BookIn(y, Rested(Q, i)) =
                Replaced(BookIn(x, Q), side, Px(i), Append(QueueIn(x, Q, side, i), o))
           /\ IndexIn(y) = With(IndexIn(x), id, [side |-> side, price |-> Px(i)])
<1>1. BookTyped(x) /\ Spread(Q) /\ Indexed(x, Q) /\ Marked(x.bits, Q)
  BY DEF Rep
<1>2. PICK q, s, Q2 : q = Q[i] /\ s = x.free /\ Q2 = Rested(Q, i)
  OBVIOUS
<1>3. /\ i \in Places /\ q \in Seq(Slots) /\ Len(q) \in Nat /\ s \in Slots
      /\ Q2[i] = Append(q, s)
      /\ \A j \in Ix : j # i => Q2[j] = Q[j]
      /\ \A j \in Ix : \A m \in 1 .. Len(Q[j]) : Q[j][m] # s
      /\ s = Q[FreePlace][1] /\ 1 \in 1 .. Len(Q[FreePlace])
  <2>1. /\ i \in Places /\ Q[i] \in Seq(Slots) /\ Len(Q[i]) \in Nat /\ x.free \in Slots
        /\ x.free = Q[FreePlace][1] /\ 1 \in 1 .. Len(Q[FreePlace])
        /\ Rested(Q, i)[i] = Append(Q[i], x.free)
        /\ \A j \in Places : j # i /\ j # FreePlace => Rested(Q, i)[j] = Q[j]
        /\ \A j \in Places : \A m \in 1 .. Len(Q[j]) : j # FreePlace \/ m # 1 => Q[j][m] # x.free
    BY RestedLists
  <2>2. \A j \in Ix : j \in Places /\ j # FreePlace
    BY Parameters
  <2> QED
    BY <1>2, <2>1, <2>2
<1>4. FilledTo(x, y, s, i, id, side, n) /\ LinkedTo(x, y, s, i, side, n)
  BY <1>2 DEF RestedTo
<1>5. \A t \in Slots : t # s => SameOrder(x.store[t], y.store[t])
  BY <1>4 DEF FilledTo
<1>6. o = OrderAt(y, s) /\ y.store[s].side = side /\ y.store[s].level = i
  BY <1>2, <1>4 DEF OrderAt, FilledTo
<1>7. x.level[i].tail = Nil <=> q = <<>>
  BY <1>2, TailFacts
<1>8. i \in y.bits[side]
  <2>1. Rep(y, hd2, Q2) /\ Q2[i] = Append(q, s) /\ Len(Append(q, s)) = Len(q) + 1
    BY <1>2, <1>3
  <2>2. PICK L : L = Len(q) + 1 /\ L \in Nat /\ L \in 1 .. Len(Q2[i]) /\ Q2[i][L] = s
    BY <1>3, <2>1
  <2>3. Holds(y, i, s)
    BY <2>1, <2>2 DEF Rep, Resting
  <2> QED
    BY <1>6, <2>3 DEF Holds
<1>9. \A sd \in Sides, j \in Ix : j \in y.bits[sd] <=> j \in x.bits[sd] \/ (sd = side /\ j = i)
  <2>1. CASE x.level[i].tail = Nil
    BY <1>4, <2>1 DEF LinkedTo, MarkedTo
  <2>2. CASE x.level[i].tail # Nil
    BY <1>4, <1>8, <2>2 DEF LinkedTo
  <2> QED
    BY <2>1, <2>2
<1>10. QueueIn(x, Q, side, i) = OrdersOf(x, q)
  <2>1. CASE i \in x.bits[side]
    BY <1>2, <2>1 DEF QueueIn
  <2>2. CASE i \notin x.bits[side]
    <3>1. q = <<>>
      <4> SUFFICES ASSUME q # <<>> PROVE FALSE
        OBVIOUS
      <4>1. y.bits = x.bits
        BY <1>4, <1>7 DEF LinkedTo
      <4> QED
        BY <1>8, <2>2, <4>1
    <3>2. OrdersOf(x, q) = <<>>
      BY <3>1 DEF OrdersOf
    <3> QED
      BY <2>2, <3>2 DEF QueueIn
  <2> QED
    BY <2>1, <2>2
<1>11. PICK v : v = Append(OrdersOf(x, q), o)
  OBVIOUS
<1>12. ASSUME NEW sd \in Sides, NEW j \in Ix
       PROVE  QueueIn(y, Q2, sd, j) = IF sd = side /\ j = i THEN v ELSE QueueIn(x, Q, sd, j)
  <2>1. ASSUME NEW m \in 1 .. Len(Q[j]) PROVE SameOrder(x.store[Q[j][m]], y.store[Q[j][m]])
    <3>1. j \in Places /\ Q[j][m] \in Slots
      BY <1>1, <2>1, SpreadCovers, Parameters
    <3> QED
      BY <1>3, <1>5, <2>1, <3>1
  <2>2. CASE j # i
    <3>1. OrdersOf(y, Q[j]) = OrdersOf(x, Q[j])
      BY <2>1, OrdersSame
    <3>2. j \in y.bits[sd] <=> j \in x.bits[sd]
      BY <1>9, <2>2
    <3> QED
      BY <1>3, <2>2, <3>1, <3>2 DEF QueueIn
  <2>3. CASE j = i /\ sd # side
    <3>1. Rep(y, hd2, Q2)
      BY <1>2
    <3>2. j \notin y.bits[sd]
      BY <1>8, <2>3, <3>1, OneSide
    <3>3. j \notin x.bits[sd]
      BY <1>9, <3>2
    <3> QED
      BY <2>3, <3>2, <3>3 DEF QueueIn
  <2>4. CASE j = i /\ sd = side
    <3>1. OrdersOf(y, Append(q, s)) = Append(OrdersOf(x, q), OrderAt(y, s))
      <4>1. \A m \in 1 .. Len(q) : SameOrder(x.store[q[m]], y.store[q[m]])
        BY <1>2, <2>1, <2>4
      <4> QED
        BY <1>3, <4>1, OrdersAppend, ZenonT(90)
    <3> QED
      BY <1>3, <1>6, <1>8, <1>11, <2>4, <3>1 DEF QueueIn
  <2> QED
    BY <2>2, <2>3, <2>4
<1>13. BookIn(y, Q2) = Replaced(BookIn(x, Q), side, Px(i), v)
  <2>1. OneQueue(x, Q, y, Q2, side, i, v)
    BY <1>12 DEF OneQueue
  <2> QED
    BY <2>1, BookChange
<1>14. IndexIn(y) = With(IndexIn(x), id, [side |-> side, price |-> Px(i)])
  <2>1. PICK f : f = IndexIn(x)
    OBVIOUS
  <2>2. DOMAIN f = DOMAIN x.ids /\ \A d \in DOMAIN x.ids : f[d] = Place(x, x.ids[d])
    BY <2>1 DEF IndexIn
  <2>3. DOMAIN y.ids = DOMAIN x.ids \cup {id}
    BY <1>4 DEF FilledTo
  <2>4. Place(y, y.ids[id]) = [side |-> side, price |-> Px(i)]
    BY <1>4, <1>6 DEF FilledTo, Place
  <2>5. \A d \in DOMAIN x.ids : d # id /\ Place(y, y.ids[d]) = f[d]
    <3> TAKE d \in DOMAIN x.ids
    <3>1. d # id /\ y.ids[d] = x.ids[d]
      BY <1>4 DEF FilledTo
    <3>2. x.ids[d] \in Slots /\ x.ids[d] # s
      BY <1>1, <1>3 DEF BookTyped, Indexed
    <3>3. SameOrder(x.store[x.ids[d]], y.store[x.ids[d]])
      BY <1>5, <3>2
    <3> QED
      BY <2>2, <3>1, <3>3 DEF Place, SameOrder
  <2> QED
    BY <2>1, <2>2, <2>3, <2>4, <2>5 DEF IndexIn, With
<1> QED
  BY <1>2, <1>10, <1>11, <1>13, <1>14


\* The first order of a list, and the list without it.
LEMMA OrdersHead ==
    ASSUME NEW x, NEW q \in Seq(Slots), q # <<>>
    PROVE  /\ Head(OrdersOf(x, q)) = OrderAt(x, q[1])
           /\ Tail(OrdersOf(x, q)) = CutAt(OrdersOf(x, q), 1)
<1>1. PICK n \in Nat : n = Len(q) /\ n > 0
  OBVIOUS
<1>2. PICK f, S : f = OrdersOf(x, q) /\ S = {OrderAt(x, q[m]) : m \in 1 .. n}
  OBVIOUS
<1>3. f = [m \in 1 .. n |-> OrderAt(x, q[m])]
  BY <1>1, <1>2 DEF OrdersOf
<1>4. f \in Seq(S) /\ Len(f) = n /\ f # <<>>
  BY <1>1, <1>2, <1>3
<1>5. f[1] = OrderAt(x, q[1])
  BY <1>1, <1>3
<1>6. Head(f) = f[1]
  BY <1>4
<1>7. Tail(f) = CutAt(f, 1)
  <2>1. Tail(f) \in Seq(S) /\ Len(Tail(f)) = n - 1 /\ \A m \in 1 .. n - 1 : Tail(f)[m] = f[m + 1]
    BY <1>1, <1>4, HeadTailProperties
  <2>2. PICK g : g = Tail(f)
    OBVIOUS
  <2>3. g = [m \in 1 .. n - 1 |-> g[m]]
    <3>1. DOMAIN g = 1 .. Len(g) /\ g = [m \in DOMAIN g |-> g[m]]
      <4>1. g \in Seq(S)
        BY <2>1, <2>2
      <4> QED
        BY <4>1
    <3> QED
      BY <2>1, <2>2, <3>1
  <2>4. [m \in 1 .. n - 1 |-> g[m]] = [m \in 1 .. n - 1 |-> IF m < 1 THEN f[m] ELSE f[m + 1]]
    BY <2>1, <2>2
  <2>5. CutAt(f, 1) = [m \in 1 .. n - 1 |-> IF m < 1 THEN f[m] ELSE f[m + 1]]
    BY <1>4 DEF CutAt
  <2> QED
    BY <2>2, <2>3, <2>4, <2>5
<1> QED
  BY <1>2, <1>5, <1>6, <1>7

\* Both books meet the same maker.
LEMMA RefMaker ==
    ASSUME TakerInv, Matching, NEW Q, Rep(b, Heads, Q)
    PROVE  /\ Ref!Matching
           /\ Ref!Opposite(taker.side) = MakerSide /\ MakerSide \in Sides
           /\ Ref!Best(MakerSide) = Px(BestIx) /\ Px(BestIx) \in Prices
           /\ refBook[MakerSide][Px(BestIx)] = OrdersOf(b, Q[BestIx])
           /\ Ref!Maker.id = Maker.id /\ Ref!Maker.qty = Maker.qty
           /\ Ref!Maker.owner = Maker.owner
           /\ Ref!OwnMaker <=> OwnMaker
<1>1. /\ pc = "sweep" /\ taker \in Ref!Takers /\ taker.qty \in Nat /\ taker.qty # 0 /\ ~taker.stop
      /\ taker.side \in Sides /\ Crosses(taker.side, Rel(taker.limit))
      /\ MakerSide \in Sides /\ BestIx \in Ix /\ BestIx \in b.bits[MakerSide]
      /\ Q[BestIx] # <<>> /\ MakerSlot = Q[BestIx][1]
  BY MakerMet
<1>2. Ref!Matching
  <2>1. taker.limit \in Prices
    BY <1>1, TakersAre
  <2>2. Ref!Crosses(taker.side, taker.limit) /\ taker.qty > 0
    BY <1>1, <2>1, RefCrosses
  <2> QED
    BY <1>1, <2>2 DEF Ref!Matching
<1>3. Ref!Opposite(taker.side) = MakerSide
  BY RefOperators DEF MakerSide
<1>4. Ref!Best(MakerSide) = Px(BestIx)
  BY <1>1, RefBest DEF BestIx
<1>5. Px(BestIx) \in Prices /\ Rel(Px(BestIx)) = BestIx
  BY <1>1, PriceFacts
<1>6. refBook[MakerSide][Px(BestIx)] = OrdersOf(b, Q[BestIx])
  <2>1. BookIn(b, Q)[MakerSide][Px(BestIx)] = OrdersOf(b, Q[BestIx])
    BY <1>1, <1>5, QueueFacts
  <2> QED
    BY <2>1, RefBookIs
<1>7. Q[BestIx] \in Seq(Slots)
  BY <1>1, ChainOfPlace, Parameters
<1>8. Ref!Maker = OrderAt(b, MakerSlot)
  <2>1. Head(OrdersOf(b, Q[BestIx])) = OrderAt(b, MakerSlot)
    BY <1>1, <1>7, OrdersHead
  <2> QED
    BY <1>3, <1>4, <1>6, <2>1 DEF Ref!Maker
<1>9. /\ Ref!Maker.id = Maker.id /\ Ref!Maker.qty = Maker.qty /\ Ref!Maker.owner = Maker.owner
  BY <1>8 DEF OrderAt, Maker
<1>10. Ref!OwnMaker <=> OwnMaker
  BY <1>9 DEF Ref!OwnMaker, OwnMaker
<1> QED
  BY <1>1, <1>2, <1>3, <1>4, <1>5, <1>6, <1>9, <1>10

\* A maker that goes is popped from the reference book.
LEMMA RefPops ==
    ASSUME TakerInv, Matching, NEW Q, Rep(b, Heads, Q), FreedTo(b, b', Q, BestIx, 1),
           Rep(b', Heads', Freed(Q, BestIx, 1))
    PROVE  Ref!PopMaker
<1>1. /\ BestIx \in Ix /\ Q[BestIx] # <<>> /\ MakerSlot = Q[BestIx][1] /\ Maker.side = MakerSide
  BY MakerMet
<1>2. Q[BestIx] \in Seq(Slots) /\ 1 \in 1 .. Len(Q[BestIx])
  BY <1>1, ChainOfPlace, FirstFacts, Parameters
<1>3. MakerSide = b.store[Q[BestIx][1]].side /\ Maker.id = b.store[Q[BestIx][1]].id
  BY <1>1 DEF Maker
<1>4. PICK x, y, i, side, q, hd, k :
        /\ x = b /\ y = b' /\ i = BestIx /\ side = MakerSide /\ q = OrdersOf(b, Q[BestIx])
        /\ hd = Heads /\ k = 1
  OBVIOUS
<1>5. /\ BookIn(y, Freed(Q, i, 1)) =
                Replaced(BookIn(x, Q), side, Px(i), CutAt(OrdersOf(x, Q[i]), 1))
      /\ IndexIn(y) = Without(IndexIn(x), x.store[Q[i][1]].id)
  <2>1. /\ i \in Ix /\ k \in 1 .. Len(Q[i]) /\ Rep(x, hd, Q) /\ FreedTo(x, y, Q, i, k)
        /\ side = x.store[Q[i][k]].side
    BY <1>1, <1>2, <1>3, <1>4
  <2>2. /\ BookIn(y, Freed(Q, i, k)) =
             Replaced(BookIn(x, Q), side, Px(i), CutAt(OrdersOf(x, Q[i]), k))
        /\ IndexIn(y) = Without(IndexIn(x), x.store[Q[i][k]].id)
    BY <2>1, FreedBook
  <2> QED
    BY <1>4, <2>2
<1>6. refBook = BookIn(x, Q) /\ refIndex = IndexIn(x)
  BY <1>4, RefBookIs
<1>7. refBook' = BookIn(y, Freed(Q, i, 1)) /\ refIndex' = IndexIn(y)
  BY <1>4, RefBookNext
<1>8. Tail(q) = CutAt(q, 1)
  BY <1>1, <1>2, <1>4, OrdersHead
<1>9. refBook' = Replaced(refBook, side, Px(i), Tail(refBook[side][Px(i)]))
  <2>1. refBook[side][Px(i)] = q
    BY <1>4, RefMaker
  <2> QED
    BY <1>4, <1>5, <1>6, <1>7, <1>8, <2>1
<1>10. refIndex' = Without(refIndex, Maker.id)
  BY <1>3, <1>4, <1>5, <1>6, <1>7
<1>11. Ref!Opposite(taker.side) = side /\ Ref!Best(side) = Px(i) /\ Ref!Maker.id = Maker.id
  BY <1>4, RefMaker
<1> QED
  BY <1>9, <1>10, <1>11 DEF Ref!PopMaker, Ref!SetQueue, Ref!Forget, Replaced,
     Without

\* A maker that shrinks does so in the reference book.
LEMMA RefShrinks ==
    ASSUME TakerInv, Matching, NEW Q, Rep(b, Heads, Q), NEW n,
           AmendedTo(b, b', BestIx, MakerSlot, n), Rep(b', Heads', Q)
    PROVE  /\ Ref!SetMakerQty(n)
           /\ n = Maker.qty => refBook' = refBook /\ refIndex' = refIndex
<1>1. /\ BestIx \in Ix /\ Q[BestIx] # <<>> /\ MakerSlot = Q[BestIx][1] /\ Maker.side = MakerSide
  BY MakerMet
<1>2. Q[BestIx] \in Seq(Slots) /\ 1 \in 1 .. Len(Q[BestIx])
  BY <1>1, ChainOfPlace, FirstFacts, Parameters
<1>3. MakerSide = b.store[Q[BestIx][1]].side /\ Maker.qty = b.store[Q[BestIx][1]].qty
  BY <1>1 DEF Maker
<1>4. PICK x, y, i, side, q, hd, k :
        /\ x = b /\ y = b' /\ i = BestIx /\ side = MakerSide /\ q = OrdersOf(b, Q[BestIx])
        /\ hd = Heads /\ k = 1
  OBVIOUS
<1>5. /\ BookIn(y, Q) = Replaced(BookIn(x, Q), side, Px(i), Resized(OrdersOf(x, Q[i]), 1, n))
      /\ IndexIn(y) = IndexIn(x) /\ side \in Sides
  <2>1. /\ i \in Ix /\ k \in 1 .. Len(Q[i]) /\ Rep(x, hd, Q) /\ AmendedTo(x, y, i, Q[i][k], n)
        /\ side = x.store[Q[i][k]].side
    BY <1>1, <1>2, <1>3, <1>4
  <2>2. /\ BookIn(y, Q) = Replaced(BookIn(x, Q), side, Px(i), Resized(OrdersOf(x, Q[i]), k, n))
        /\ IndexIn(y) = IndexIn(x) /\ side \in Sides
    BY <2>1, AmendedBook, SMTT(30)
  <2> QED
    BY <1>4, <2>2
<1>6. refBook = BookIn(x, Q) /\ refIndex = IndexIn(x)
  BY <1>4, RefBookIs
<1>7. refBook' = BookIn(y, Q) /\ refIndex' = IndexIn(y)
  BY <1>4, RefBookNext
<1>8. refBook[side][Px(i)] = q /\ Px(i) \in Prices
  BY <1>4, RefMaker
<1>9. refBook' = Replaced(refBook, side, Px(i), Resized(refBook[side][Px(i)], 1, n))
  BY <1>4, <1>5, <1>6, <1>7, <1>8
<1>10. Ref!Opposite(taker.side) = side /\ Ref!Best(side) = Px(i)
  BY <1>4, RefMaker
<1>11. Ref!SetMakerQty(n)
  BY <1>5, <1>6, <1>7, <1>9, <1>10 DEF Ref!SetMakerQty, Replaced, Resized
<1>12. ASSUME n = Maker.qty PROVE refBook' = refBook
  <2>1. Resized(q, 1, n) = q
    <3>1. q = [m \in 1 .. Len(Q[i]) |-> OrderAt(x, Q[i][m])]
      BY <1>4 DEF OrdersOf
    <3>2. 1 \in 1 .. Len(Q[i])
      BY <1>2, <1>4
    <3>3. [OrderAt(x, Q[i][1]) EXCEPT !.qty = n] = OrderAt(x, Q[i][1])
      BY <1>3, <1>4, <1>12 DEF OrderAt
    <3> QED
      BY <3>1, <3>2, <3>3 DEF Resized
  <2>2. PICK f, p : f = refBook /\ p = Px(i)
    OBVIOUS
  <2>3. f = [sd \in Sides |-> [r \in Prices |-> QueueIn(x, Q, sd, Rel(r))]] /\ f[side][p] = q
    BY <1>6, <1>8, <2>2 DEF BookIn
  <2>4. Replaced(f, side, p, q) = f
    BY <1>5, <1>8, <2>2, <2>3 DEF Replaced
  <2> QED
    BY <1>8, <1>9, <2>1, <2>2, <2>4
<1> QED
  BY <1>5, <1>6, <1>7, <1>11, <1>12


\* The fields of an order.
LEMMA OrderFields ==
    \A x, s : /\ OrderAt(x, s).id = x.store[s].id /\ OrderAt(x, s).qty = x.store[s].qty
             /\ OrderAt(x, s).owner = x.store[s].owner
BY DEF OrderAt

\* Both books find an order at the same position of the same queue.
LEMMA RefFinds ==
    ASSUME NEW Q, Rep(b, Heads, Q), NEW i \in Ix, NEW k \in 1 .. Len(Q[i]),
           NEW o, o = b.store[Q[i][k]], NEW q, q = OrdersOf(b, Q[i])
    PROVE  /\ o.id \in DOMAIN refIndex
           /\ o.side \in Sides /\ Px(i) \in Prices /\ o.level = i
           /\ refIndex[o.id].side = o.side /\ refIndex[o.id].price = Px(i)
           /\ refBook[o.side][Px(i)] = q
           /\ Ref!Position(q, o.id) = k
           /\ q[k].qty = o.qty /\ q[k].owner = o.owner
<1>1. Resting(b, Q) /\ Spread(Q)
  BY DEF Rep
<1>2. PICK f, id : f = Q[i] /\ id = o.id
  OBVIOUS
<1>3. i \in Places /\ f \in Seq(Slots) /\ Distinct(f)
  BY <1>2, ChainOfPlace, Parameters
<1>4. \A m \in 1 .. Len(f) : Holds(b, i, f[m])
  BY <1>1, <1>2 DEF Resting
<1>5. /\ o.level = i /\ o.side \in Sides /\ i \in b.bits[o.side] /\ id \in DOMAIN b.ids
      /\ b.ids[id] = f[k] /\ o = b.store[f[k]]
  BY <1>2, <1>4 DEF Holds
<1>6. id \in DOMAIN refIndex /\ refIndex[id].side = o.side /\ refIndex[id].price = Px(i)
  BY <1>5 DEF refIndex
<1>7. Px(i) \in Prices /\ Rel(Px(i)) = i
  BY PriceFacts
<1>8. refBook[o.side][Px(i)] = q
  <2>1. BookIn(b, Q)[o.side][Px(i)] = OrdersOf(b, Q[i])
    BY <1>5, <1>7, QueueFacts
  <2> QED
    BY <2>1, RefBookIs
<1>9. DOMAIN q = 1 .. Len(f) /\ \A m \in 1 .. Len(f) : q[m] = OrderAt(b, f[m])
  BY <1>2 DEF OrdersOf
<1>10. \A m \in 1 .. Len(f) : q[m].id = b.store[f[m]].id
  BY <1>9, OrderFields
<1>11. k \in 1 .. Len(f) /\ q[k].id = id /\ q[k].qty = o.qty /\ q[k].owner = o.owner
  BY <1>2, <1>5, <1>9, OrderFields
<1>12. \A m \in 1 .. Len(f) : q[m].id = id => m = k
  <2> SUFFICES ASSUME NEW m \in 1 .. Len(f), b.store[f[m]].id = id PROVE m = k
    BY <1>10
  <2>1. b.ids[id] = f[m]
    BY <1>4 DEF Holds
  <2> QED
    BY <1>3, <1>5, <1>11, <2>1 DEF Distinct
<1>13. Ref!Position(q, id) = k
  <2>1. Ref!Position(q, id) = CHOOSE m \in 1 .. Len(f) : q[m].id = id
    BY <1>9 DEF Ref!Position
  <2> QED
    BY <1>11, <1>12, <2>1
<1> QED
  BY <1>2, <1>5, <1>6, <1>7, <1>8, <1>11, <1>13

\* An order that is withdrawn is removed from the reference book.
LEMMA RefRemoves ==
    ASSUME NEW Q, Rep(b, Heads, Q), NEW i \in Ix, NEW k \in 1 .. Len(Q[i]),
           FreedTo(b, b', Q, i, k), Rep(b', Heads', Freed(Q, i, k)),
           NEW id, id = b.store[Q[i][k]].id
    PROVE  Ref!Remove(id)
<1>1. PICK x, y, hd, o, q : /\ x = b /\ y = b' /\ hd = Heads /\ o = b.store[Q[i][k]]
                            /\ q = OrdersOf(b, Q[i])
  OBVIOUS
<1>2. /\ refIndex[id].side = o.side /\ refIndex[id].price = Px(i)
      /\ refBook[o.side][Px(i)] = q /\ Ref!Position(q, id) = k
  BY <1>1, RefFinds
<1>3. PICK side : side = o.side
  OBVIOUS
<1>4. Rep(x, hd, Q) /\ FreedTo(x, y, Q, i, k) /\ side = x.store[Q[i][k]].side
  BY <1>1, <1>3
<1>5. /\ BookIn(y, Freed(Q, i, k)) =
           Replaced(BookIn(x, Q), side, Px(i), CutAt(OrdersOf(x, Q[i]), k))
      /\ IndexIn(y) = Without(IndexIn(x), x.store[Q[i][k]].id)
  BY <1>4, FreedBook
<1>6. refBook = BookIn(x, Q) /\ refIndex = IndexIn(x)
  BY <1>1, RefBookIs
<1>7. refBook' = BookIn(y, Freed(Q, i, k)) /\ refIndex' = IndexIn(y)
  BY <1>1, RefBookNext
<1>8. refBook' = Replaced(refBook, side, Px(i), CutAt(q, k)) /\ refIndex' = Without(refIndex, id)
  BY <1>1, <1>5, <1>6, <1>7
<1>9. Ref!RemoveAt(q, k) = CutAt(q, k)
  BY DEF Ref!RemoveAt, CutAt
<1> QED
  BY <1>2, <1>3, <1>8, <1>9 DEF Ref!Remove, Ref!SetQueue, Ref!Forget, Replaced, Without

\* An order that is amended in place is amended in the reference book.
LEMMA RefAmends ==
    ASSUME NEW Q, NEW i \in Ix, NEW k \in 1 .. Len(Q[i]), NEW n, NEW side
    PROVE  /\ Rep(b, Heads, Q) /\ Rep(b', Heads', Q) /\ side = b.store[Q[i][k]].side
           /\ AmendedTo(b, b', i, Q[i][k], n)
           => /\ refBook' = Replaced(refBook, side, Px(i), Resized(OrdersOf(b, Q[i]), k, n))
              /\ refIndex' = refIndex
<1>1. ASSUME NEW x, NEW y, NEW hd, Rep(x, hd, Q), AmendedTo(x, y, i, Q[i][k], n),
             side = x.store[Q[i][k]].side
      PROVE  /\ BookIn(y, Q) = Replaced(BookIn(x, Q), side, Px(i), Resized(OrdersOf(x, Q[i]), k, n))
             /\ IndexIn(y) = IndexIn(x)
  BY <1>1, AmendedBook
<1> SUFFICES ASSUME Rep(b, Heads, Q), Rep(b', Heads', Q), side = b.store[Q[i][k]].side,
                    AmendedTo(b, b', i, Q[i][k], n)
             PROVE  /\ refBook' = Replaced(refBook, side, Px(i), Resized(OrdersOf(b, Q[i]), k, n))
                    /\ refIndex' = refIndex
  OBVIOUS
<1>2. PICK x, y, hd : x = b /\ y = b' /\ hd = Heads
  OBVIOUS
<1>3. /\ BookIn(y, Q) = Replaced(BookIn(x, Q), side, Px(i), Resized(OrdersOf(x, Q[i]), k, n))
      /\ IndexIn(y) = IndexIn(x)
  BY <1>1, <1>2
<1>4. refBook = BookIn(x, Q) /\ refIndex = IndexIn(x)
  BY <1>2, RefBookIs
<1>5. refBook' = BookIn(y, Q) /\ refIndex' = IndexIn(y)
  BY <1>2, RefBookNext
<1> QED
  BY <1>2, <1>3, <1>4, <1>5

\* The store is full when the reference book holds as many orders as fit.
LEMMA RefFull ==
    ASSUME NEW Q, Rep(b, Heads, Q)
    PROVE  /\ DOMAIN refIndex = DOMAIN b.ids
           /\ Cardinality(DOMAIN refIndex) \in Nat /\ Capacity \in Nat
           /\ b.free = Nil <=> Cardinality(DOMAIN refIndex) >= Capacity
<1>1. /\ Spread(Q) /\ BookTyped(b) /\ Counted(b) /\ Resting(b, Q) /\ Indexed(b, Q) /\ Links(b, Heads, Q)
  BY DEF Rep
<1>2. DOMAIN refIndex = DOMAIN b.ids
  BY DEF refIndex
<1>3. PICK q, ids, n, h :
         q = Q[FreePlace] /\ ids = b.ids /\ n = Cardinality(DOMAIN ids) /\ h = b.free
  OBVIOUS
<1>4. q \in Seq(Slots) /\ Heads[FreePlace] = h /\ FreePlace \in Places
  BY <1>1, <1>3, SpreadCovers, Parameters DEF Heads
<1>5. h = After(q, 0)
  BY <1>1, <1>3, <1>4 DEF Links
<1>6. ids \in [DOMAIN ids -> Slots] /\ IsFiniteSet(DOMAIN ids) /\ n \in Nat
  BY <1>1, <1>3, FS_CardinalityType DEF BookTyped, Counted
<1>7. \A a, c \in DOMAIN ids : ids[a] = ids[c] => a = c
  BY <1>1, <1>3 DEF Indexed
<1>8. IsFiniteSet(Slots) /\ Cardinality(Slots) = Capacity /\ Capacity \in Nat
  <2>1. Capacity \in Nat /\ Capacity # 0 /\ 0 \in Int /\ Capacity - 1 \in Int
    BY Parameters
  <2>2. /\ IsFiniteSet(0 .. Capacity - 1)
        /\ Cardinality(0 .. Capacity - 1) = IF 0 > Capacity - 1 THEN 0 ELSE (Capacity - 1) - 0 + 1
    BY <2>1, FS_Interval
  <2> QED
    BY <2>1, <2>2 DEF Slots
<1>9. ids \in Injection(DOMAIN ids, Slots)
  BY <1>6, <1>7 DEF Injection, IsInjective
<1>10. n =< Capacity /\ (n = Capacity <=> ids \in Surjection(DOMAIN ids, Slots))
  BY <1>3, <1>8, <1>9, FS_Injection
<1>11. ids \in Surjection(DOMAIN ids, Slots) <=> \A s \in Slots : \E id \in DOMAIN ids : ids[id] = s
  BY <1>6 DEF Surjection
<1>12. CASE h = Nil
  <2>1. Len(q) = 0
    <3> SUFFICES ASSUME Len(q) # 0 PROVE FALSE
      OBVIOUS
    <3>1. h = q[1] /\ q[1] \in Slots
      BY <1>4, <1>5 DEF After
    <3> QED
      BY <1>12, <3>1, Parameters
  <2>2. ASSUME NEW s \in Slots PROVE \E id \in DOMAIN ids : ids[id] = s
    <3>1. PICK i \in Places : \E k \in 1 .. Len(Q[i]) : Q[i][k] = s
      BY <1>1, SpreadCovers
    <3>2. PICK k \in 1 .. Len(Q[i]) : Q[i][k] = s
      BY <3>1
    <3>3. i # FreePlace
      BY <1>3, <2>1, <3>2
    <3>4. i \in Ix
      BY <3>3, Parameters
    <3>5. Holds(b, i, s)
      BY <1>1, <3>2, <3>4 DEF Resting
    <3> QED
      BY <1>3, <3>5 DEF Holds
  <2> QED
    BY <1>2, <1>3, <1>6, <1>8, <1>10, <1>11, <1>12, <2>2
<1>13. CASE h # Nil
  <2>1. Len(q) \in Nat /\ 1 \in 1 .. Len(q) /\ q[1] \in Slots
    BY <1>4, <1>5, <1>13 DEF After
  <2>2. \A id \in DOMAIN ids : ids[id] # q[1]
    BY <1>1, <1>3, <2>1 DEF Indexed
  <2>3. n # Capacity
    BY <1>10, <1>11, <2>1, <2>2
  <2> QED
    BY <1>2, <1>3, <1>6, <1>8, <1>10, <1>13, <2>3
<1> QED
  BY <1>12, <1>13


\* The remainder that comes to rest is appended in the reference book.
LEMMA RefRests ==
    ASSUME NEW Q
    PROVE  TakerInv /\ Rep(b, Heads, Q) /\ FinishRest
           => /\ refBook' = Replaced(refBook, taker.side, taker.limit,
                               Append(refBook[taker.side][taker.limit],
                                      [id |-> taker.id, qty |-> taker.qty, owner |-> taker.owner]))
              /\ refIndex' = With(refIndex, taker.id, [side |-> taker.side, price |-> taker.limit])
<1>1. ASSUME NEW x, NEW hd, NEW y, NEW hd2, NEW i \in Ix, NEW side \in Sides, NEW id, NEW n,
             NEW o, o = [id |-> id, qty |-> n, owner |-> y.store[x.free].owner],
             Rep(x, hd, Q), x.free # Nil, hd[FreePlace] = x.free,
             RestedTo(x, y, i, id, side, n), id \notin DOMAIN x.ids, Rep(y, hd2, Rested(Q, i))
      PROVE  /\ BookIn(y, Rested(Q, i)) =
                  Replaced(BookIn(x, Q), side, Px(i), Append(QueueIn(x, Q, side, i), o))
             /\ IndexIn(y) = With(IndexIn(x), id, [side |-> side, price |-> Px(i)])
  BY <1>1, RestedBook
<1> SUFFICES ASSUME TakerInv, Rep(b, Heads, Q), FinishRest
             PROVE  /\ refBook' = Replaced(refBook, taker.side, taker.limit,
                               Append(refBook[taker.side][taker.limit],
                                      [id |-> taker.id, qty |-> taker.qty, owner |-> taker.owner]))
                    /\ refIndex' =
                         With(refIndex, taker.id, [side |-> taker.side, price |-> taker.limit])
  OBVIOUS
<1>2. /\ taker \in Ref!Takers /\ taker.id \notin DOMAIN b.ids
      /\ Rel(taker.limit) \in Ix /\ b.free # Nil
      /\ RestedTo(b, b', Rel(taker.limit), taker.id, taker.side, taker.qty)
      /\ b'.store[b.free].owner = taker.owner
      /\ Rep(b', Heads', Rested(Q, Rel(taker.limit)))
  BY RestStep
<1>3. taker.side \in Sides /\ taker.limit \in Prices /\ Px(Rel(taker.limit)) = taker.limit
  BY <1>2, TakersAre, LimitFacts
<1>4. PICK x, y, hd, hd2, i, side, id, n, p, o :
        /\ x = b /\ y = b' /\ hd = Heads /\ hd2 = Heads' /\ i = Rel(taker.limit)
        /\ side = taker.side /\ id = taker.id /\ n = taker.qty /\ p = taker.limit
        /\ o = [id |-> taker.id, qty |-> taker.qty, owner |-> taker.owner]
  OBVIOUS
<1>5. hd[FreePlace] = x.free
  BY <1>4, Parameters DEF Heads
<1>6. o = [id |-> id, qty |-> n, owner |-> y.store[x.free].owner]
  BY <1>2, <1>4
<1>7. /\ i \in Ix /\ side \in Sides /\ Rep(x, hd, Q) /\ x.free # Nil
      /\ RestedTo(x, y, i, id, side, n) /\ id \notin DOMAIN x.ids /\ Rep(y, hd2, Rested(Q, i))
      /\ Px(i) = p /\ p \in Prices /\ Rel(p) = i
  BY <1>2, <1>3, <1>4
<1>8. /\ BookIn(y, Rested(Q, i)) =
           Replaced(BookIn(x, Q), side, Px(i), Append(QueueIn(x, Q, side, i), o))
      /\ IndexIn(y) = With(IndexIn(x), id, [side |-> side, price |-> Px(i)])
  BY <1>1, <1>5, <1>6, <1>7
<1>9. refBook = BookIn(x, Q) /\ refIndex = IndexIn(x)
  BY <1>4, RefBookIs
<1>10. refBook' = BookIn(y, Rested(Q, i)) /\ refIndex' = IndexIn(y)
  <2>1. Rep(b', Heads', Rested(Q, i))
    BY <1>4, <1>7
  <2> QED
    BY <1>4, <2>1, RefBookNext
<1>11. refBook[side][p] = QueueIn(x, Q, side, i)
  BY <1>7, <1>9 DEF BookIn
<1>12. /\ refBook' = Replaced(refBook, side, p, Append(refBook[side][p], o))
       /\ refIndex' = With(refIndex, id, [side |-> side, price |-> p])
  BY <1>7, <1>8, <1>9, <1>10, <1>11
<1> QED
  BY <1>4, <1>12

\* Both sweeps end together.
LEMMA RefFinishes ==
    ASSUME TakerInv, NEW Q, Rep(b, Heads, Q), pc = "sweep", ~Matching
    PROVE  ~Ref!Matching /\ taker.qty \in Nat
<1>1. taker \in Ref!Takers
  BY DEF TakerInv
<1>2. taker.qty \in Nat /\ taker.side \in Sides /\ taker.limit \in Prices
  BY <1>1, TakersAre
<1>3. Ref!Crosses(taker.side, taker.limit) <=> Crosses(taker.side, Rel(taker.limit))
  BY <1>2, RefCrosses
<1> QED
  BY <1>2, <1>3 DEF Matching, Ref!Matching

\* A step that ends the match.
LEMMA RefFinish ==
    ASSUME TakerInv, NEW Q, Rep(b, Heads, Q), NEW evs, Finish(evs)
    PROVE  Ref!Finish(evs)
BY RefFinishes, RefWords DEF Finish, Ref!Finish


\* The reference book counts as this one does.
LEMMA RefCounts == \A S : Ref!Cardinality(S) = Cardinality(S)
BY DEF Ref!Cardinality, Cardinality, Ref!IsFiniteSet, IsFiniteSet

\* A book that is left alone stands for the same reference book.
LEMMA RefSame ==
    ASSUME TakerInv, pc = "idle" \/ (pc = "sweep" /\ ~Matching), NEW Q, Rep(b, Heads, Q),
           b' = b, cursor' = cursor
    PROVE  refBook' = refBook /\ refIndex' = refIndex
<1>1. cursor = Nil
  BY IdleHeads
<1>2. Heads' = Heads
  BY <1>1, CurrentHeads, NextHeads, HeadsIdle
<1>3. Rep(b', Heads', Q)
  BY <1>2
<1>4. refBook' = BookIn(b', Q) /\ refIndex' = IndexIn(b')
  BY <1>3, RefBookNext
<1> QED
  BY <1>4, RefBookIs

\* The end of a handler is the end of the reference book's handler.
LEMMA FinishRefines ==
    ASSUME Inv, FinishMatch PROVE Ref!FinishMatch
<1>1. TakerInv /\ pc = "sweep" /\ ~Matching /\ cursor' = cursor
  BY DEF Inv, FinishMatch, FinishFilled, FinishStopped, FinishExpired, FinishFull, FinishRest,
         Drop, Finish
<1>2. PICK Q : Rep(b, Heads, Q)
  BY DEF Inv, BookInv
<1>3. taker.qty \in Nat
  BY <1>1, <1>2, RefFinishes
<1>4. b' = b => refBook' = refBook /\ refIndex' = refIndex
  BY <1>1, <1>2, RefSame
<1>5. /\ Cardinality(DOMAIN refIndex) \in Nat /\ Capacity \in Nat
      /\ b.free = Nil <=> Cardinality(DOMAIN refIndex) >= Capacity
  BY <1>2, RefFull
<1>6. \A evs : Finish(evs) => Ref!Finish(evs)
  BY <1>1, <1>2, RefFinish
<1>7. ASSUME NEW reason, Drop(reason) PROVE Ref!Drop(reason)
  BY <1>4, <1>6, <1>7, RefOperators DEF Drop, Ref!Drop
<1>8. CASE FinishFilled
  <2>1. Ref!FinishFilled
    BY <1>4, <1>6, <1>8 DEF FinishFilled, Ref!FinishFilled
  <2> QED
    BY <2>1 DEF Ref!FinishMatch
<1>9. CASE FinishStopped
  <2>1. Ref!FinishStopped
    BY <1>3, <1>7, <1>9 DEF FinishStopped, Ref!FinishStopped
  <2> QED
    BY <2>1 DEF Ref!FinishMatch
<1>10. CASE FinishExpired
  <2>1. Ref!FinishExpired
    BY <1>3, <1>7, <1>10 DEF FinishExpired, Ref!FinishExpired
  <2> QED
    BY <2>1 DEF Ref!FinishMatch
<1>11. CASE FinishFull
  <2>1. Ref!FinishFull
    BY <1>3, <1>5, <1>7, <1>11, RefCounts DEF FinishFull, Ref!FinishFull, Remainder, Ref!Remainder
  <2> QED
    BY <2>1 DEF Ref!FinishMatch
<1>12. CASE FinishRest
  <2>1. Remainder /\ b.free # Nil /\ Finish(<<>>)
    BY <1>12 DEF FinishRest
  <2>2. Ref!Remainder /\ Cardinality(DOMAIN refIndex) < Capacity /\ Ref!Finish(<<>>)
    BY <1>3, <1>5, <1>6, <2>1 DEF Remainder, Ref!Remainder
  <2>3. PICK o : o = [id |-> taker.id, qty |-> taker.qty, owner |-> taker.owner]
    OBVIOUS
  <2>4. /\ refBook' = Replaced(refBook, taker.side, taker.limit,
                               Append(refBook[taker.side][taker.limit], o))
        /\ refIndex' = With(refIndex, taker.id, [side |-> taker.side, price |-> taker.limit])
    BY <1>1, <1>2, <1>12, <2>3, RefRests
  <2>5. taker.side \in Sides /\ taker.limit \in Prices
    BY <1>1, TakersAre DEF TakerInv
  <2>6. PICK f, sd, p, g :
          f = refBook /\ sd = taker.side /\ p = taker.limit /\ g = Append(refBook[sd][p], o)
    OBVIOUS
  <2>7. Replaced(f, sd, p, g) = [f EXCEPT ![sd][p] = g]
    BY DEF Replaced
  <2>8. f \in [Sides -> [Prices -> {f[d][r] : d \in Sides, r \in Prices}]]
    <3>1. f = BookIn(b, Q)
      BY <1>2, <2>6, RefBookIs
    <3> QED
      BY <3>1 DEF BookIn
  <2>9. [f EXCEPT ![sd][p] = Append(@, o)] = [f EXCEPT ![sd][p] = g]
    BY <2>5, <2>6, <2>8
  <2>10. refBook' = [refBook EXCEPT ![taker.side][taker.limit] = Append(@, o)]
    BY <2>4, <2>6, <2>7, <2>9
  <2>11. Ref!FinishRest
    BY <2>2, <2>3, <2>4, <2>10, RefCounts DEF Ref!FinishRest, With
  <2> QED
    BY <2>11 DEF Ref!FinishMatch
<1> QED
  BY <1>8, <1>9, <1>10, <1>11, <1>12 DEF FinishMatch

\* An iteration of the sweep is an iteration of match_side.
LEMMA MatchRefines ==
    ASSUME Inv, Match PROVE Ref!Match
<1>1. TakerInv /\ Matching
  BY DEF Inv, Match, MatchStop, MatchDecrementMaker, MatchCancelMaker, MatchTrade
<1>2. PICK Q : Rep(b, Heads, Q)
  BY DEF Inv, BookInv
<1>3. /\ taker \in Ref!Takers /\ taker.qty \in Nat /\ taker.qty # 0 /\ ~taker.stop
      /\ Maker.qty \in Nat /\ Maker.qty # 0 /\ BestIx \in Ix
  BY <1>1, <1>2, MakerMet
<1>4. /\ Ref!Matching /\ Ref!Opposite(taker.side) = MakerSide
      /\ Ref!Best(MakerSide) = Px(BestIx)
      /\ Ref!Maker.id = Maker.id /\ Ref!Maker.qty = Maker.qty
      /\ Ref!OwnMaker <=> OwnMaker
  BY <1>1, <1>2, RefMaker
<1>5. CASE MatchStop
  <2>1. /\ EndIteration(b, MakerSlot, TRUE) /\ taker' = [taker EXCEPT !.stop = TRUE] /\ pc' = pc
        /\ OwnMaker /\ taker.stp = "CancelIncoming" /\ events' = <<>>
    BY <1>5 DEF MatchStop
  <2>2. AmendedTo(b, b', BestIx, MakerSlot, Maker.qty) /\ Rep(b', Heads', Q)
    BY <1>1, <1>2, <2>1, MakerStays
  <2>3. refBook' = refBook /\ refIndex' = refIndex
    BY <1>1, <1>2, <2>2, RefShrinks
  <2>4. Ref!MatchStop
    BY <1>4, <2>1, <2>3 DEF Ref!MatchStop
  <2> QED
    BY <2>4 DEF Ref!Match
<1>6. CASE MatchDecrementMaker
  <2>1. /\ EndIteration(SetMakerQty(Deduct(b, taker.qty), Maker.qty - taker.qty), MakerSlot, TRUE)
        /\ taker' = [taker EXCEPT !.stop = TRUE] /\ pc' = pc /\ taker.qty < Maker.qty
        /\ OwnMaker /\ taker.stp = "DecrementCancel" /\ Maker.qty > taker.qty
        /\ events' = <<StpDecrement(Maker.id, MakerSide, Px(BestIx), Maker.qty - taker.qty)>>
    BY <1>3, <1>6 DEF MatchDecrementMaker
  <2>2. AmendedTo(b, b', BestIx, MakerSlot, Maker.qty - taker.qty) /\ Rep(b', Heads', Q)
    BY <1>1, <1>2, <1>3, <2>1, MakerShrinks
  <2>3. Ref!SetMakerQty(Maker.qty - taker.qty)
    BY <1>1, <1>2, <2>2, RefShrinks
  <2>4. Ref!MatchDecrementMaker
    BY <1>4, <2>1, <2>3, RefOperators DEF Ref!MatchDecrementMaker
  <2> QED
    BY <2>4 DEF Ref!Match
<1>7. CASE MatchCancelMaker
  <2> DEFINE gone == Canceled(Maker.id, MakerSide, Px(BestIx), Maker.qty, "SelfTrade")
             left == taker.qty - Maker.qty
             both == taker.stp = "DecrementCancel" /\ left = 0
  <2>1. /\ OwnMaker /\ taker.stp # "CancelIncoming"
        /\ ~(taker.stp = "DecrementCancel" /\ Maker.qty > taker.qty)
        /\ EndIteration(DropMaker(Deduct(b, Maker.qty)), Maker.next, both)
        /\ \/ /\ taker.stp = "CancelResting"
              /\ events' = <<gone>>
              /\ UNCHANGED taker
           \/ /\ both
              /\ events' = <<gone>>
              /\ taker' = [taker EXCEPT !.stop = TRUE]
           \/ /\ taker.stp = "DecrementCancel" /\ left # 0
              /\ events' = <<gone, StpDecrement(taker.id, taker.side, taker.limit, left)>>
              /\ taker' = [taker EXCEPT !.qty = left]
        /\ pc' = pc
    BY <1>7 DEF MatchCancelMaker
  <2>2. taker'.side = taker.side
    BY <1>3, <2>1, TakersAre
  <2>3. PICK breaks \in BOOLEAN : breaks = both
    OBVIOUS
  <2>4. EndIteration(DropMaker(Deduct(b, Maker.qty)), Maker.next, breaks)
    BY <2>1, <2>3
  <2>5. FreedTo(b, b', Q, BestIx, 1) /\ Rep(b', Heads', Freed(Q, BestIx, 1))
    BY <1>1, <1>2, <2>2, <2>4, MakerGoes
  <2>6. Ref!PopMaker
    BY <1>1, <1>2, <2>5, RefPops
  <2>7. gone = Ref!Canceled(Ref!Maker.id, Ref!Opposite(taker.side), Ref!Best(Ref!Opposite(taker.side)),
                            Ref!Maker.qty, "SelfTrade")
    BY <1>4, RefOperators
  <2>8. taker.stp = "DecrementCancel" /\ left # 0 => left > 0
    BY <1>3, <2>1
  <2>9. StpDecrement(taker.id, taker.side, taker.limit, left) =
           Ref!StpDecrement(taker.id, taker.side, taker.limit, left)
    BY RefOperators
  <2>10. Ref!MatchCancelMaker
    BY <1>4, <2>1, <2>6, <2>7, <2>8, <2>9 DEF Ref!MatchCancelMaker
  <2> QED
    BY <2>10 DEF Ref!Match
<1>8. CASE MatchTrade
  <2> DEFINE fill == IF Maker.qty < taker.qty THEN Maker.qty ELSE taker.qty
             left == Maker.qty - fill
  <2>1. /\ taker' = [taker EXCEPT !.qty = @ - fill] /\ pc' = pc /\ ~OwnMaker
        /\ events' = <<Trade(taker.id, Maker.id, taker.side, Px(BestIx), fill, left)>>
        /\ IF left # 0
           THEN EndIteration(SetMakerQty(Deduct(b, fill), left), MakerSlot, TRUE)
           ELSE EndIteration(DropMaker(Deduct(b, fill)), Maker.next, taker.qty = fill)
    BY <1>8 DEF MatchTrade
  <2>2. /\ fill \in Nat
        /\ left # 0 => fill < Maker.qty
        /\ left = 0 => fill = Maker.qty
    BY <1>3
  <2>3. taker'.side = taker.side
    BY <1>3, <2>1, TakersAre
  <2>4. IF left = 0 THEN Ref!PopMaker ELSE Ref!SetMakerQty(left)
    <3> HIDE DEF fill
    <3>1. CASE left # 0
      <4>1. AmendedTo(b, b', BestIx, MakerSlot, left) /\ Rep(b', Heads', Q)
        BY <1>1, <1>2, <2>1, <2>2, <3>1, MakerShrinks
      <4> QED
        BY <1>1, <1>2, <3>1, <4>1, RefShrinks
    <3>2. CASE left = 0
      <4>1. PICK breaks \in BOOLEAN : breaks <=> taker.qty = fill
        OBVIOUS
      <4>2. EndIteration(DropMaker(Deduct(b, Maker.qty)), Maker.next, breaks)
        BY <2>1, <2>2, <3>2, <4>1 DEF EndIteration
      <4>3. FreedTo(b, b', Q, BestIx, 1) /\ Rep(b', Heads', Freed(Q, BestIx, 1))
        BY <1>1, <1>2, <2>3, <4>2, MakerGoes
      <4> QED
        BY <1>1, <1>2, <3>2, <4>3, RefPops
    <3> QED
      BY <3>1, <3>2
  <2>5. Ref!MatchTrade
    <3>1. events' = <<Ref!Trade(taker.id, Ref!Maker.id, taker.side,
                                Ref!Best(Ref!Opposite(taker.side)), fill, left)>>
      BY <1>4, <2>1, RefOperators
    <3>2. fill = IF Ref!Maker.qty < taker.qty THEN Ref!Maker.qty ELSE taker.qty
      BY <1>4
    <3> HIDE DEF fill
    <3> QED
      BY <1>4, <2>1, <2>4, <3>1, <3>2 DEF Ref!MatchTrade
  <2> QED
    BY <2>5 DEF Ref!Match
<1> QED
  BY <1>5, <1>6, <1>7, <1>8 DEF Match


\* A command that is refused changes neither book.
LEMMA RejectRefines ==
    ASSUME Inv, pc = "idle", NEW c, NEW reason, Reject(c, reason)
    PROVE  Ref!Reject(c, reason)
<1>1. TakerInv
  BY DEF Inv
<1>2. PICK Q : Rep(b, Heads, Q)
  BY DEF Inv, BookInv
<1>3. refBook' = refBook /\ refIndex' = refIndex
  BY <1>1, <1>2, RefSame DEF Reject
<1> QED
  BY <1>3, RefOperators DEF Reject, Ref!Reject

\* Both books know the same orders.
LEMMA RefKnows ==
    ASSUME Inv
    PROVE  \A id : Find(id) = Nil <=> id \notin DOMAIN refIndex
<1>1. PICK Q : Rep(b, Heads, Q)
  BY DEF Inv, BookInv
<1>2. BookTyped(b)
  BY <1>1 DEF Rep
<1>3. \A id : Find(id) # Nil <=> id \in DOMAIN b.ids
  BY <1>2, Parameters DEF BookTyped, Find
<1> QED
  BY <1>3 DEF refIndex

\* cancel of the one book is cancel of the other.
LEMMA CancelRefines ==
    ASSUME Inv, NEW c \in CancelCommand, Cancel(c) PROVE Ref!Cancel(c)
<1>1. TakerInv /\ pc = "idle"
  BY DEF Inv, Cancel
<1>2. PICK Q : Rep(b, Heads, Q)
  BY DEF Inv, BookInv
<1>3. Find(c.id) = Nil <=> c.id \notin DOMAIN refIndex
  BY RefKnows
<1>4. CASE Find(c.id) = Nil
  BY <1>1, <1>3, <1>4, RejectRefines DEF Cancel, Ref!Cancel
<1>5. CASE Find(c.id) # Nil
  <2>1. PICK s, o : s = Find(c.id) /\ o = b.store[s]
    OBVIOUS
  <2>2. /\ Withdraw(c.id, s) /\ UNCHANGED <<cursor, taker, pc>>
        /\ events' = <<Canceled(c.id, o.side, Px(o.level), o.qty, "UserCanceled")>>
    BY <1>5, <2>1 DEF Cancel
  <2>3. c.id \in DOMAIN b.ids /\ s = b.ids[c.id]
    BY <1>5, <2>1 DEF Find
  <2>4. PICK i \in Ix : \E k \in 1 .. Len(Q[i]) :
           /\ Q[i][k] = b.ids[c.id] /\ b.store[Q[i][k]].id = c.id /\ Holds(b, i, Q[i][k])
           /\ FreedTo(b, b', Q, i, k)
           /\ Rep(b', Heads', Freed(Q, i, k))
    BY <1>1, <1>2, <2>2, <2>3, WithdrawStep
  <2>5. PICK k \in 1 .. Len(Q[i]) :
           /\ Q[i][k] = s /\ o.id = c.id
           /\ FreedTo(b, b', Q, i, k)
           /\ Rep(b', Heads', Freed(Q, i, k))
    BY <2>1, <2>3, <2>4
  <2>6. o = b.store[Q[i][k]]
    BY <2>1, <2>5
  <2>7. PICK q : q = OrdersOf(b, Q[i])
    OBVIOUS
  <2>8. /\ o.id \in DOMAIN refIndex /\ o.level = i
        /\ refIndex[o.id].side = o.side /\ refIndex[o.id].price = Px(i)
        /\ refBook[o.side][Px(i)] = q
        /\ Ref!Position(q, o.id) = k /\ q[k].qty = o.qty
    BY <1>2, <2>6, <2>7, RefFinds
  <2>9. Ref!Remove(c.id)
    BY <1>2, <2>5, <2>6, RefRemoves
  <2>10. PICK loc : loc = refIndex[c.id]
    OBVIOUS
  <2>11. /\ loc.side = o.side /\ loc.price = Px(i) /\ refBook[loc.side][loc.price] = q
         /\ q[Ref!Position(q, c.id)].qty = o.qty
    BY <2>5, <2>8, <2>10
  <2>12. events' = <<Ref!Canceled(c.id, loc.side, loc.price, o.qty, "UserCanceled")>>
    BY <2>2, <2>8, <2>11, RefOperators
  <2> QED
    BY <1>1, <1>3, <1>5, <2>2, <2>9, <2>10, <2>11, <2>12 DEF Ref!Cancel
<1> QED
  BY <1>4, <1>5

\* A modify is refused by both books for the same reason.
LEMMA RefModifyReason ==
    ASSUME Inv, NEW c \in ModifyCommand
    PROVE  /\ Ref!ModifyReason(c) = ModifyReason(c)
           /\ ModifyReason(c) = "None" =>
                /\ c.id \in DOMAIN b.ids /\ Find(c.id) = b.ids[c.id]
                /\ c.qty \in Nat \ {0} /\ c.price \in Prices
<1>1. Find(c.id) = Nil <=> c.id \notin DOMAIN refIndex
  BY RefKnows
<1>2. c.qty \in 0 .. MaxQty /\ c.price \in InputPrices
  BY DEF ModifyCommand
<1>3. c.qty \in Nat /\ (InBand(c.price) <=> c.price \in Prices)
  BY <1>2, BookAssumption DEF InputPrices, InBand, Rel, Prices, Top
<1>4. Ref!ModifyReason(c) = ModifyReason(c)
  BY <1>1, <1>3, RefWords DEF Ref!ModifyReason, ModifyReason
<1>5. ASSUME ModifyReason(c) = "None"
      PROVE  /\ c.id \in DOMAIN b.ids /\ Find(c.id) = b.ids[c.id]
             /\ c.qty \in Nat \ {0} /\ c.price \in Prices
  BY <1>3, <1>5 DEF ModifyReason, Find
<1> QED
  BY <1>4, <1>5

\* modify of the one book is modify of the other.
LEMMA ModifyRefines ==
    ASSUME Inv, NEW c \in ModifyCommand, Modify(c) PROVE Ref!Modify(c)
<1>1. TakerInv /\ pc = "idle"
  BY DEF Inv, Modify
<1>2. PICK Q : Rep(b, Heads, Q)
  BY DEF Inv, BookInv
<1>3. Ref!ModifyReason(c) = ModifyReason(c)
  BY RefModifyReason
<1>4. CASE ModifyReason(c) # "None"
  BY <1>1, <1>3, <1>4, RejectRefines DEF Modify, Ref!Modify
<1>5. CASE ModifyReason(c) = "None"
  <2>1. PICK s, o, n : s = Find(c.id) /\ o = b.store[s] /\ n = c.qty
    OBVIOUS
  <2>2. /\ c.id \in DOMAIN b.ids /\ s = b.ids[c.id] /\ n \in Nat \ {0} /\ c.price \in Prices
    BY <1>5, <2>1, RefModifyReason
  <2>3. PICK i \in Ix : \E k \in 1 .. Len(Q[i]) :
           Q[i][k] = b.ids[c.id] /\ b.store[Q[i][k]].id = c.id /\ Holds(b, i, Q[i][k])
    BY <1>2, <2>2, PlaceOf
  <2>4. PICK k \in 1 .. Len(Q[i]) : Q[i][k] = s /\ o.id = c.id
    BY <2>1, <2>2, <2>3
  <2>5. PICK q, loc : q = OrdersOf(b, Q[i]) /\ loc = refIndex[c.id]
    OBVIOUS
  <2>6. /\ o.side \in Sides /\ Px(i) \in Prices /\ o.level = i
        /\ loc.side = o.side /\ loc.price = Px(i)
        /\ refBook[loc.side][loc.price] = q
        /\ Ref!Position(q, c.id) = k
        /\ q[k].qty = o.qty /\ q[k].owner = o.owner
    <3>1. o = b.store[Q[i][k]]
      BY <2>1, <2>4
    <3> QED
      BY <1>2, <2>4, <2>5, <3>1, RefFinds
  <2>7. Rel(c.price) = o.level <=> c.price = loc.price
    BY <2>2, <2>6, LimitFacts, PriceFacts
  <2>8. \A j \in Ix : \A m \in 1 .. Len(Q[j]) : Q[j][m] = s => j = i /\ m = k
    <3> SUFFICES ASSUME NEW j \in Ix, NEW m \in 1 .. Len(Q[j]), Q[j][m] = s
                 PROVE  j = i /\ m = k
      OBVIOUS
    <3>1. i \in Places /\ j \in Places /\ Spread(Q)
      BY <1>2, Parameters DEF Rep
    <3> QED
      BY <2>4, <3>1, SpreadDistinct
  <2>9. events' = <<Modified(c.id, o.side, c.price, n)>> /\ cursor' = cursor
    BY <1>5, <2>1 DEF Modify
  <2>10. events' = <<Ref!Modified(c.id, loc.side, c.price, c.qty)>>
    BY <2>1, <2>6, <2>9, RefOperators
  <2> DEFINE inPlace == Rel(c.price) = o.level /\ n =< o.qty
  <2>11. CASE inPlace
    <3>1. b' = Shrunk(b, o, s, n) /\ UNCHANGED <<taker, pc>>
      BY <1>5, <2>1, <2>11 DEF Modify, Shrunk
    <3>2. PICK j \in Ix : \E m \in 1 .. Len(Q[j]) :
             /\ Q[j][m] = s /\ b.store[Q[j][m]].id = c.id /\ Holds(b, j, Q[j][m])
             /\ AmendedTo(b, b', j, Q[j][m], n)
             /\ Rep(b', Heads', Q)
      <4>1. PICK id : id = c.id
        OBVIOUS
      <4>2. id \in DOMAIN b.ids /\ s = b.ids[id] /\ o = b.store[s] /\ n \in Nat \ {0}
        BY <2>1, <2>2, <4>1
      <4> QED
        BY <1>1, <1>2, <2>9, <3>1, <4>1, <4>2, AmendStep, SMTT(30)
    <3>3. AmendedTo(b, b', i, Q[i][k], n) /\ Rep(b', Heads', Q)
      BY <2>8, <3>2
    <3>4. loc.side = b.store[Q[i][k]].side
      BY <2>1, <2>4, <2>6
    <3>5. /\ refBook' = Replaced(refBook, loc.side, Px(i), Resized(OrdersOf(b, Q[i]), k, n))
          /\ refIndex' = refIndex
      BY <1>2, <3>3, <3>4, RefAmends
    <3>6. refBook' = Replaced(refBook, loc.side, loc.price, Resized(q, k, n))
      BY <2>5, <2>6, <3>5
    <3>7. Ref!Amend(c, loc, q, k)
      BY <2>1, <3>1, <3>5, <3>6 DEF Ref!Amend, Ref!SetQueue, Replaced, Resized
    <3>8. c.price = loc.price /\ c.qty =< q[k].qty
      BY <2>1, <2>6, <2>7, <2>11
    <3> QED
      BY <1>1, <1>3, <1>5, <2>5, <2>6, <2>10, <3>7, <3>8 DEF Ref!Modify
  <2>12. CASE ~inPlace
    <3>1. /\ Withdraw(c.id, s) /\ pc' = "sweep"
          /\ taker' = [id |-> c.id, owner |-> o.owner, side |-> o.side,
                       limit |-> c.price, qty |-> c.qty, stp |-> BookStp,
                       stop |-> FALSE, px |-> c.price, tif |-> "Day", rests |-> TRUE]
      BY <1>5, <2>1, <2>12 DEF Modify
    <3>2. PICK j \in Ix : \E m \in 1 .. Len(Q[j]) :
             Q[j][m] = s /\ FreedTo(b, b', Q, j, m) /\ Rep(b', Heads', Freed(Q, j, m))
      BY <1>1, <1>2, <2>2, <2>9, <3>1, WithdrawStep
    <3>3. FreedTo(b, b', Q, i, k) /\ Rep(b', Heads', Freed(Q, i, k))
      BY <2>8, <3>2
    <3>4. Ref!Remove(c.id)
      <4>1. c.id = b.store[Q[i][k]].id
        BY <2>1, <2>4
      <4> QED
        BY <1>2, <3>3, <4>1, RefRemoves
    <3>5. Ref!Reenter(c, loc, q, k)
      BY <2>6, <3>1, <3>4 DEF Ref!Reenter
    <3>6. ~(c.price = loc.price /\ c.qty =< q[k].qty)
      BY <2>1, <2>6, <2>7, <2>12
    <3> QED
      BY <1>1, <1>3, <1>5, <2>5, <2>6, <2>10, <3>5, <3>6 DEF Ref!Modify
  <2> QED
    BY <2>11, <2>12
<1> QED
  BY <1>4, <1>5


-----------------------------------------------------------------------------
(* The fill-or-kill pre-check: with prevention off, the aggregates answer   *)
(* as the orders would one by one.                                          *)

\* A scan that is open still needs something.
Scans ==
    {s \in [need : Nat, answer : {"open", "yes", "no"}] : s.answer = "open" => s.need # 0}

\* Two scans that cannot be told apart any more.
Agree(w, v) == w.answer = v.answer /\ (w.answer = "open" => w.need = v.need)

\* A scan meets an order.
LEMMA RefScanFacts ==
    ASSUME NEW s \in Scans, NEW o, o.qty \in Nat, NEW owner, NEW stp \in Stps
    PROVE  /\ Ref!ScanOrder(s, o, owner, stp) \in Scans
           /\ s.answer # "open" => Ref!ScanOrder(s, o, owner, stp) = s
           /\ s.answer = "open" /\ stp = "None" =>
                /\ o.qty >= s.need => Ref!ScanOrder(s, o, owner, stp).answer = "yes"
                /\ o.qty < s.need => Ref!ScanOrder(s, o, owner, stp) =
                                        [need |-> s.need - o.qty, answer |-> "open"]
           /\ stp # "None" => Ref!ScanOrder(s, o, owner, stp) = ScanOrder(s, o, owner, stp)
<1>1. /\ s \in [need : Nat, answer : {"open", "yes", "no"}] /\ (s.answer = "open" => s.need # 0)
      /\ s.need \in Nat
  BY DEF Scans
<1>2. stp \in {"None", "CancelResting", "CancelIncoming", "DecrementCancel"}
  BY DEF Stps
<1>3. s.answer # "open" => Ref!ScanOrder(s, o, owner, stp) = s
  BY DEF Ref!ScanOrder
<1>4. ASSUME s.answer = "open"
      PROVE  Ref!ScanOrder(s, o, owner, stp) =
               IF stp # "None" /\ o.owner = owner
               THEN IF stp = "CancelIncoming" THEN [s EXCEPT !.answer = "no"]
                    ELSE IF stp = "CancelResting" THEN s
                    ELSE IF o.qty >= s.need THEN [s EXCEPT !.answer = "no"]
                                            ELSE [s EXCEPT !.need = @ - o.qty]
               ELSE IF o.qty >= s.need THEN [s EXCEPT !.answer = "yes"]
                                       ELSE [s EXCEPT !.need = @ - o.qty]
  BY <1>2, <1>4 DEF Ref!ScanOrder
<1>5. /\ [s EXCEPT !.answer = "no"] \in Scans /\ [s EXCEPT !.answer = "yes"] \in Scans
      /\ [s EXCEPT !.answer = "yes"].answer = "yes"
  BY <1>1 DEF Scans
<1>6. o.qty < s.need /\ s.answer = "open" =>
         /\ [s EXCEPT !.need = @ - o.qty] \in Scans
         /\ [s EXCEPT !.need = @ - o.qty] = [need |-> s.need - o.qty, answer |-> "open"]
  BY <1>1 DEF Scans
<1>7. o.qty < s.need <=> ~(o.qty >= s.need)
  BY <1>1
<1>8. Ref!ScanOrder(s, o, owner, stp) \in Scans
  BY <1>3, <1>4, <1>5, <1>6, <1>7
<1>9. stp # "None" => Ref!ScanOrder(s, o, owner, stp) = ScanOrder(s, o, owner, stp)
  BY <1>2, <1>3, <1>4 DEF ScanOrder, Offer, Decrement
<1>10. s.answer = "open" /\ stp = "None" =>
         /\ o.qty >= s.need => Ref!ScanOrder(s, o, owner, stp).answer = "yes"
         /\ o.qty < s.need => Ref!ScanOrder(s, o, owner, stp) =
                                 [need |-> s.need - o.qty, answer |-> "open"]
  BY <1>4, <1>5, <1>6, <1>7
<1> QED
  BY <1>3, <1>8, <1>9, <1>10

\* A queue whose orders have sizes.
SizedQueue(q) == Len(q) \in Nat /\ \A k \in 1 .. Len(q) : q[k].qty \in Nat

\* The reference book's scan of a queue, order by order.
IsRefScan(g, q, owner, stp, start) ==
    /\ g \in [0 .. Len(q) -> Scans]
    /\ g[0] = start
    /\ \A k \in 1 .. Len(q) : g[k] = Ref!ScanOrder(g[k - 1], q[k], owner, stp)

\* The scan of a queue is the last of these.
LEMMA RefScanUnfolds ==
    ASSUME NEW q, SizedQueue(q), NEW owner, NEW stp \in Stps, NEW start \in Scans
    PROVE  \E g : /\ IsRefScan(g, q, owner, stp, start)
                  /\ Ref!ScanQueue(q, owner, stp, start) = g[Len(q)]
<1> DEFINE N == Len(q)
           Body(f) == [k \in 0 .. N |->
                         IF k = 0 THEN start ELSE Ref!ScanOrder(f[k - 1], q[k], owner, stp)]
           g == CHOOSE f : f = Body(f)
           F == [k \in 1 .. N |-> [s \in Scans |-> Ref!ScanOrder(s, q[k], owner, stp)]]
<1>1. N \in Nat /\ \A k \in 1 .. N : q[k].qty \in Nat
  BY DEF SizedQueue
<1>2. \A k \in 1 .. N : \A s \in Scans : Ref!ScanOrder(s, q[k], owner, stp) \in Scans
  BY <1>1, RefScanFacts
<1>3. F \in [1 .. N -> [Scans -> Scans]]
  BY <1>2
<1>4. \E f : f = Body(f)
  <2>1. PICK f : IsIteration(f, N, Scans, start, F)
    <3> HIDE DEF F
    <3> QED
      BY <1>1, <1>3, IterationExists
  <2>2. \A k \in 1 .. N : f[k - 1] \in Scans
    <3>1. f \in [0 .. N -> Scans]
      BY <2>1 DEF IsIteration
    <3>2. \A k \in 1 .. N : k - 1 \in 0 .. N
      BY <1>1
    <3> QED
      BY <3>1, <3>2
  <2>3. \A k \in 1 .. N : f[k] = Ref!ScanOrder(f[k - 1], q[k], owner, stp)
    BY <2>1, <2>2 DEF IsIteration
  <2>4. f = [k \in 0 .. N |-> f[k]] /\ f[0] = start
    BY <2>1 DEF IsIteration
  <2>5. \A k \in 0 .. N : k = 0 \/ k \in 1 .. N
    BY <1>1
  <2>6. \A k \in 0 .. N : f[k] = IF k = 0 THEN start
                                 ELSE Ref!ScanOrder(f[k - 1], q[k], owner, stp)
    BY <2>3, <2>4, <2>5
  <2>7. f = Body(f)
    BY <2>4, <2>6
  <2> QED
    BY <2>7
<1>5. g = Body(g)
  <2> HIDE DEF Body
  <2> QED
    BY <1>4
<1>6. Ref!ScanQueue(q, owner, stp, start) = g[N]
  BY DEF Ref!ScanQueue
<1> HIDE DEF g
<1>7. g[0] = start /\ \A k \in 1 .. N : g[k] = Ref!ScanOrder(g[k - 1], q[k], owner, stp)
  BY <1>1, <1>5
<1>8. \A k \in 0 .. N : g[k] \in Scans
  <2> DEFINE S == {k \in 0 .. N : g[k] \in Scans}
  <2>1. 0 \in S
    BY <1>1, <1>7
  <2>2. \A k \in 0 .. N - 1 : k \in S => k + 1 \in S
    <3> SUFFICES ASSUME NEW k \in 0 .. N - 1, k \in S PROVE k + 1 \in S
      OBVIOUS
    <3>1. k + 1 \in 1 .. N /\ (k + 1) - 1 = k /\ k + 1 \in 0 .. N
      BY <1>1
    <3>2. g[k + 1] = Ref!ScanOrder(g[k], q[k + 1], owner, stp)
      BY <1>7, <3>1
    <3> QED
      BY <1>2, <3>1, <3>2
  <2>3. 0 .. N \subseteq S
    <3> HIDE DEF S
    <3> QED
      BY <1>1, <2>1, <2>2, UpTo
  <2> QED
    BY <2>3
<1>9. IsRefScan(g, q, owner, stp, start)
  <2>1. g = [k \in 0 .. N |-> g[k]]
    BY <1>5
  <2> QED
    BY <1>7, <1>8, <2>1 DEF IsRefScan
<1> QED
  BY <1>6, <1>9


\* The scan of a queue is a scan; one that has its answer keeps it.
LEMMA RefScanKeeps ==
    ASSUME NEW q, SizedQueue(q), NEW owner, NEW stp \in Stps, NEW start \in Scans
    PROVE  /\ Ref!ScanQueue(q, owner, stp, start) \in Scans
           /\ start.answer # "open" \/ Len(q) = 0 => Ref!ScanQueue(q, owner, stp, start) = start
<1> DEFINE N == Len(q)
<1>1. N \in Nat /\ \A k \in 1 .. N : q[k].qty \in Nat
  BY DEF SizedQueue
<1>2. PICK g : IsRefScan(g, q, owner, stp, start) /\ Ref!ScanQueue(q, owner, stp, start) = g[N]
  BY RefScanUnfolds
<1>3. g \in [0 .. N -> Scans] /\ g[0] = start /\ N \in 0 .. N
  BY <1>1, <1>2 DEF IsRefScan
<1>4. ASSUME start.answer # "open" PROVE g[N] = start
  <2> DEFINE S == {k \in 0 .. N : g[k] = start}
  <2>1. 0 \in S
    BY <1>1, <1>3
  <2>2. \A k \in 0 .. N - 1 : k \in S => k + 1 \in S
    <3> SUFFICES ASSUME NEW k \in 0 .. N - 1, k \in S PROVE k + 1 \in S
      OBVIOUS
    <3>1. k + 1 \in 1 .. N /\ (k + 1) - 1 = k /\ k + 1 \in 0 .. N
      BY <1>1
    <3>2. g[k + 1] = Ref!ScanOrder(start, q[k + 1], owner, stp)
      BY <1>2, <3>1 DEF IsRefScan
    <3>3. Ref!ScanOrder(start, q[k + 1], owner, stp) = start
      BY <1>1, <1>4, <3>1, RefScanFacts
    <3> QED
      BY <3>1, <3>2, <3>3
  <2>3. 0 .. N \subseteq S
    <3> HIDE DEF S
    <3> QED
      BY <1>1, <2>1, <2>2, UpTo
  <2> QED
    BY <1>3, <2>3
<1> QED
  BY <1>2, <1>3, <1>4

\* With prevention off, the sum of a level's sizes answers for its orders.
LEMMA RefScanTotal ==
    ASSUME NEW x, Sized(x), NEW c \in Seq(Slots), NEW owner,
           NEW start \in Scans, start.answer = "open"
    PROVE  Agree(Offer(start, Total(x, c)), Ref!ScanQueue(OrdersOf(x, c), owner, "None", start))
<1>1. PICK N \in Nat : N = Len(c)
  OBVIOUS
<1>2. PICK q : q = OrdersOf(x, c)
  OBVIOUS
<1>3. Len(q) = N /\ \A k \in 1 .. N : q[k].qty = x.store[c[k]].qty
  BY <1>1, <1>2 DEF OrdersOf, OrderAt
<1>4. \A k \in 1 .. N : q[k].qty \in Nat
  BY <1>1, <1>3 DEF Sized
<1>5. SizedQueue(q)
  BY <1>3, <1>4 DEF SizedQueue
<1>6. "None" \in Stps
  BY DEF Stps
<1>7. PICK g : IsRefScan(g, q, owner, "None", start) /\ Ref!ScanQueue(q, owner, "None", start) = g[N]
  BY <1>3, <1>5, <1>6, RefScanUnfolds
<1>8. PICK h : Sums(h, x, c) /\ Total(x, c) = h[N]
  BY <1>1, TotalUnfolds
<1>9. PICK n : n = start.need /\ n \in Nat /\ n # 0 /\ start = [need |-> n, answer |-> "open"]
  BY DEF Scans
<1>10. /\ g \in [0 .. N -> Scans] /\ g[0] = start
       /\ \A k \in 1 .. N : g[k] = Ref!ScanOrder(g[k - 1], q[k], owner, "None")
  BY <1>3, <1>7 DEF IsRefScan
<1>11. /\ h \in [0 .. N -> Nat] /\ h[0] = 0
       /\ \A k \in 1 .. N : h[k] = h[k - 1] + q[k].qty
  BY <1>1, <1>3, <1>8 DEF Sums
<1> DEFINE S == {k \in 0 .. N : IF h[k] >= n THEN g[k].answer = "yes"
                                ELSE g[k] = [need |-> n - h[k], answer |-> "open"]}
<1>12. 0 \in S
  BY <1>9, <1>10, <1>11
<1>13. \A k \in 0 .. N - 1 : k \in S => k + 1 \in S
  <2> SUFFICES ASSUME NEW k \in 0 .. N - 1, k \in S PROVE k + 1 \in S
    OBVIOUS
  <2>1. k + 1 \in 1 .. N /\ (k + 1) - 1 = k /\ k + 1 \in 0 .. N /\ k \in 0 .. N
    OBVIOUS
  <2>2. PICK s, o, t, u, v : s = g[k] /\ o = q[k + 1] /\ t = g[k + 1] /\ u = h[k] /\ v = h[k + 1]
    OBVIOUS
  <2>3. /\ t = Ref!ScanOrder(s, o, owner, "None") /\ s \in Scans /\ o.qty \in Nat
        /\ v = u + o.qty /\ u \in Nat /\ v \in Nat
    BY <1>4, <1>10, <1>11, <2>1, <2>2
  <2>4. IF u >= n THEN s.answer = "yes" ELSE s = [need |-> n - u, answer |-> "open"]
    BY <2>2
  <2>5. IF v >= n THEN t.answer = "yes" ELSE t = [need |-> n - v, answer |-> "open"]
    <3>1. CASE u >= n
      <4>1. t = s /\ v >= n
        BY <1>6, <1>9, <2>3, <2>4, <3>1, RefScanFacts
      <4> QED
        BY <2>4, <3>1, <4>1
    <3>2. CASE ~(u >= n)
      <4>1. s.answer = "open" /\ s.need = n - u
        BY <2>4, <3>2
      <4>2. /\ o.qty >= s.need => t.answer = "yes"
            /\ o.qty < s.need => t = [need |-> s.need - o.qty, answer |-> "open"]
        BY <1>6, <2>3, <4>1, RefScanFacts
      <4>3. /\ v >= n <=> o.qty >= s.need
            /\ o.qty >= s.need \/ o.qty < s.need
            /\ s.need - o.qty = n - v
        <5>1. PICK a, m \in Nat : a = o.qty /\ m = s.need
          BY <1>9, <2>3, <3>2, <4>1
        <5>2. n \in Nat /\ u \in Nat /\ m = n - u /\ v = u + a
          BY <1>9, <2>3, <4>1, <5>1
        <5>3. (v >= n <=> a >= m) /\ (a >= m \/ a < m) /\ m - a = n - v
          BY <5>2
        <5> QED
          BY <5>1, <5>3
      <4> QED
        BY <4>2, <4>3
    <3> QED
      BY <3>1, <3>2
  <2> QED
    BY <2>1, <2>2, <2>5
<1>14. 0 .. N \subseteq S
  <2> HIDE DEF S
  <2> QED
    BY <1>12, <1>13, UpTo
<1>15. PICK T, r : T = h[N] /\ r = g[N]
  OBVIOUS
<1>16. T \in Nat /\ IF T >= n THEN r.answer = "yes" ELSE r = [need |-> n - T, answer |-> "open"]
  BY <1>11, <1>14, <1>15
<1>17. Agree(Offer(start, T), r)
  BY <1>9, <1>16 DEF Agree, Offer
<1> QED
  BY <1>2, <1>7, <1>8, <1>15, <1>17

\* Order by order, both books scan a level alike.
LEMMA LevelScans ==
    ASSUME NEW x, Sized(x), NEW c \in Seq(Slots), NEW owner, NEW stp \in Stps, stp # "None",
           NEW start \in Scans
    PROVE  LET Scan[k \in 0 .. Len(c)] ==
                 IF k = 0 THEN start ELSE ScanOrder(Scan[k - 1], x.store[c[k]], owner, stp)
           IN  Scan[Len(c)] = Ref!ScanQueue(OrdersOf(x, c), owner, stp, start)
<1> DEFINE N == Len(c)
           Body(f) == [k \in 0 .. N |->
                         IF k = 0 THEN start ELSE ScanOrder(f[k - 1], x.store[c[k]], owner, stp)]
           w == CHOOSE f : f = Body(f)
<1>1. N \in Nat
  OBVIOUS
<1>2. PICK q : q = OrdersOf(x, c)
  OBVIOUS
<1>3. Len(q) = N /\ \A k \in 1 .. N : q[k].qty = x.store[c[k]].qty /\ q[k].owner = x.store[c[k]].owner
  BY <1>1, <1>2 DEF OrdersOf, OrderAt
<1>4. \A k \in 1 .. N : q[k].qty \in Nat
  BY <1>3 DEF Sized
<1>5. SizedQueue(q)
  BY <1>1, <1>3, <1>4 DEF SizedQueue
<1>6. PICK g : IsRefScan(g, q, owner, stp, start) /\ Ref!ScanQueue(q, owner, stp, start) = g[N]
  BY <1>3, <1>5, RefScanUnfolds
<1>7. /\ g \in [0 .. N -> Scans] /\ g[0] = start
      /\ \A k \in 1 .. N : g[k] = Ref!ScanOrder(g[k - 1], q[k], owner, stp)
  BY <1>3, <1>6 DEF IsRefScan
<1>8. \A k \in 1 .. N : k - 1 \in 0 .. N
  BY <1>1
<1>9. \A k \in 1 .. N : g[k] = ScanOrder(g[k - 1], x.store[c[k]], owner, stp)
  <2> TAKE k \in 1 .. N
  <2>1. PICK s, o, p : s = g[k - 1] /\ o = q[k] /\ p = x.store[c[k]]
    OBVIOUS
  <2>2. s \in Scans /\ o.qty \in Nat /\ o.qty = p.qty /\ o.owner = p.owner
    BY <1>3, <1>4, <1>7, <1>8, <2>1
  <2>3. Ref!ScanOrder(s, o, owner, stp) = ScanOrder(s, o, owner, stp)
    BY <2>2, RefScanFacts
  <2>4. ScanOrder(s, o, owner, stp) = ScanOrder(s, p, owner, stp)
    BY <2>2 DEF ScanOrder
  <2> QED
    BY <1>7, <2>1, <2>3, <2>4
<1>10. g = Body(g)
  <2>1. g = [k \in 0 .. N |-> g[k]]
    BY <1>7
  <2>2. \A k \in 0 .. N : g[k] = IF k = 0 THEN start
                                 ELSE ScanOrder(g[k - 1], x.store[c[k]], owner, stp)
    <3>1. \A k \in 0 .. N : k = 0 \/ k \in 1 .. N
      BY <1>1
    <3> QED
      BY <1>7, <1>9, <3>1
  <2> QED
    BY <2>1, <2>2
<1>11. w = Body(w)
  <2> HIDE DEF Body
  <2> QED
    BY <1>10
<1> HIDE DEF w
<1>12. w[0] = start /\ \A k \in 1 .. N : w[k] = ScanOrder(w[k - 1], x.store[c[k]], owner, stp)
  BY <1>1, <1>11
<1> DEFINE S == {k \in 0 .. N : w[k] = g[k]}
<1>13. 0 \in S
  BY <1>1, <1>7, <1>12
<1>14. \A k \in 0 .. N - 1 : k \in S => k + 1 \in S
  <2> SUFFICES ASSUME NEW k \in 0 .. N - 1, k \in S PROVE k + 1 \in S
    OBVIOUS
  <2>1. k + 1 \in 1 .. N /\ (k + 1) - 1 = k /\ k + 1 \in 0 .. N
    BY <1>1
  <2>2. /\ w[k + 1] = ScanOrder(w[k], x.store[c[k + 1]], owner, stp)
        /\ g[k + 1] = ScanOrder(g[k], x.store[c[k + 1]], owner, stp)
    BY <1>9, <1>12, <2>1
  <2> QED
    BY <2>1, <2>2
<1>15. 0 .. N \subseteq S
  <2> HIDE DEF S
  <2> QED
    BY <1>1, <1>13, <1>14, UpTo
<1>16. w[N] = g[N]
  BY <1>1, <1>15
<1>17. w[N] = Ref!ScanQueue(OrdersOf(x, c), owner, stp, start)
  BY <1>2, <1>6, <1>16
<1> QED
  BY <1>17 DEF w


\* Both books scan a level alike: by its aggregate with prevention off, order by
\* order otherwise.
LEMMA LevelAgrees ==
    ASSUME NEW Q, Rep(b, Heads, Q), cursor = Nil, NEW i \in Ix, NEW owner, NEW stp \in Stps,
           NEW w \in Scans, NEW v \in Scans, Agree(w, v)
    PROVE  /\ ScanLevel(w, i, owner, stp) \in Scans
           /\ Ref!ScanQueue(OrdersOf(b, Q[i]), owner, stp, v) \in Scans
           /\ Agree(ScanLevel(w, i, owner, stp), Ref!ScanQueue(OrdersOf(b, Q[i]), owner, stp, v))
<1>1. i \in Places /\ Heads[i] = b.level[i].head
  BY Parameters DEF Heads, TrueHead
<1>2. Chain(b, b.level[i].head) = Q[i] /\ Q[i] \in Seq(Slots)
  BY <1>1, ChainOfPlace
<1>3. Sized(b) /\ b.level[i].qty = Total(b, Q[i])
  BY TypedIsSized DEF Rep, Aggregates
<1>4. PICK c \in Seq(Slots) : c = Q[i]
  BY <1>2
<1>5. SizedQueue(OrdersOf(b, c))
  <2>1. Len(c) \in Nat /\ \A k \in 1 .. Len(c) : b.store[c[k]].qty \in Nat
    BY <1>3 DEF Sized
  <2> QED
    BY <2>1 DEF SizedQueue, OrdersOf, OrderAt
<1>6. PICK r : r = Ref!ScanQueue(OrdersOf(b, c), owner, stp, v)
  OBVIOUS
<1>7. r \in Scans /\ (v.answer # "open" => r = v)
  BY <1>5, <1>6, RefScanKeeps
<1>8. CASE w.answer # "open"
  <2>1. ScanLevel(w, i, owner, stp) = w
    BY <1>8 DEF ScanLevel
  <2>2. r = v
    BY <1>7, <1>8 DEF Agree
  <2> QED
    BY <1>4, <1>6, <2>1, <2>2
<1>9. CASE w.answer = "open"
  <2>1. w = v
    <3>1. \A s \in Scans : s = [need |-> s.need, answer |-> s.answer]
      BY DEF Scans
    <3>2. w = [need |-> w.need, answer |-> w.answer] /\ v = [need |-> v.need, answer |-> v.answer]
      BY <3>1
    <3>3. w.need = v.need /\ w.answer = v.answer
      BY <1>9 DEF Agree
    <3> QED
      BY <3>2, <3>3
  <2>2. CASE stp = "None"
    <3>1. ScanLevel(w, i, owner, stp) = Offer(w, Total(b, c))
      BY <1>3, <1>4, <1>9, <2>2 DEF ScanLevel
    <3>2. Agree(Offer(w, Total(b, c)), r)
      BY <1>3, <1>6, <1>9, <2>1, <2>2, RefScanTotal
    <3>3. Total(b, c) \in Nat
      BY <1>3, TotalUnfolds, TotalIs
    <3>4. Offer(w, Total(b, c)) \in Scans
      BY <1>9, <3>3 DEF Offer, Scans
    <3> QED
      BY <1>4, <1>6, <1>7, <3>1, <3>2, <3>4
  <2>3. CASE stp # "None"
    <3> DEFINE chain == Chain(b, b.level[i].head)
               Scan(d) == CHOOSE f : f = [k \in 0 .. Len(d) |->
                            IF k = 0 THEN w ELSE ScanOrder(f[k - 1], b.store[d[k]], owner, stp)]
    <3>1. ScanLevel(w, i, owner, stp) = Scan(chain)[Len(chain)]
      BY <1>9, <2>3 DEF ScanLevel
    <3>2. chain = c
      BY <1>2, <1>4
    <3> HIDE DEF chain
    <3>3. Scan(c)[Len(c)] = Ref!ScanQueue(OrdersOf(b, c), owner, stp, w)
      BY <1>3, <2>3, LevelScans
    <3> HIDE DEF Scan
    <3>4. ScanLevel(w, i, owner, stp) = r
      BY <1>6, <2>1, <3>1, <3>2, <3>3
    <3> QED
      BY <1>4, <1>6, <1>7, <3>4 DEF Agree
  <2> QED
    BY <2>2, <2>3
<1> QED
  BY <1>8, <1>9

\* The k-th level of the ladder from the best possible price of a side, and how
\* many there are within a limit.
LevelAt(side, k) == IF side = "Buy" THEN k - 1 ELSE Top + 1 - k
Within(side, lim) == IF side = "Buy" THEN lim + 1 ELSE Top - lim + 1

\* The reference book's path leads along these levels.
LEMMA RefPath ==
    ASSUME NEW side \in Sides, NEW lim \in Prices, NEW n, n = Within(side, Rel(lim))
    PROVE  /\ n \in Nat /\ n =< Top + 1 /\ Top + 1 \in Nat
           /\ Len(Ref!PricePath(side, lim)) = n
           /\ \A k \in 1 .. n : Ref!PricePath(side, lim)[k] = Px(LevelAt(side, k))
           /\ \A k \in 1 .. Top + 1 :
                /\ LevelAt(side, k) \in Ix
                /\ k =< n <=> IF side = "Buy" THEN LevelAt(side, k) =< Rel(lim)
                                              ELSE Rel(lim) =< LevelAt(side, k)
<1>1. PICK l : l = Rel(lim)
  OBVIOUS
<1>2. l \in Ix /\ lim = MinPrice + l /\ MaxPrice = MinPrice + Top /\ MinPrice \in Int
  BY <1>1, LimitFacts, BookAssumption DEF Px, Top
<1>3. Top \in Nat /\ l \in Int /\ 0 =< l /\ l =< Top
  BY <1>2, IxFacts
<1>4. n = (IF side = "Buy" THEN l + 1 ELSE Top - l + 1) /\ n \in Nat /\ n =< Top + 1 /\ Top + 1 \in Nat
  BY <1>1, <1>3 DEF Within
<1>5. PICK path : path = Ref!PricePath(side, lim)
  OBVIOUS
<1>6. path = [k \in 1 .. n |-> Px(LevelAt(side, k))]
  <2>1. CASE side = "Buy"
    <3>1. path = [k \in 1 .. lim - MinPrice + 1 |-> MinPrice + k - 1]
      BY <1>5, <2>1 DEF Ref!PricePath
    <3>2. lim - MinPrice + 1 = n
      BY <1>2, <1>3, <1>4, <2>1
    <3>3. \A k \in 1 .. n : MinPrice + k - 1 = Px(LevelAt(side, k))
      BY <1>2, <1>4, <2>1 DEF Px, LevelAt
    <3> QED
      BY <3>1, <3>2, <3>3
  <2>2. CASE side # "Buy"
    <3>1. path = [k \in 1 .. MaxPrice - lim + 1 |-> MaxPrice - k + 1]
      BY <1>5, <2>2 DEF Ref!PricePath
    <3>2. MaxPrice - lim + 1 = n
      BY <1>2, <1>3, <1>4, <2>2
    <3>3. \A k \in 1 .. n : MaxPrice - k + 1 = Px(LevelAt(side, k))
      BY <1>2, <1>3, <1>4, <2>2 DEF Px, LevelAt
    <3> QED
      BY <3>1, <3>2, <3>3
  <2> QED
    BY <2>1, <2>2
<1>7. Len(path) = n /\ \A k \in 1 .. n : path[k] = Px(LevelAt(side, k))
  BY <1>4, <1>6
<1>8. \A k \in 1 .. Top + 1 :
        /\ LevelAt(side, k) \in Ix
        /\ k =< n <=> IF side = "Buy" THEN LevelAt(side, k) =< l ELSE l =< LevelAt(side, k)
  <2> TAKE k \in 1 .. Top + 1
  <2>1. k \in Int /\ 1 =< k /\ k =< Top + 1
    BY <1>3
  <2>2. CASE side = "Buy"
    BY <1>3, <1>4, <2>1, <2>2, IxFacts DEF LevelAt
  <2>3. CASE side # "Buy"
    BY <1>3, <1>4, <2>1, <2>3, IxFacts DEF LevelAt
  <2> QED
    BY <2>2, <2>3
<1> QED
  BY <1>1, <1>4, <1>5, <1>7, <1>8

\* The levels that fillable visits are the marked ones within the limit.
LEMMA VisitedIs ==
    ASSUME NEW Q, Rep(b, Heads, Q), NEW side \in Sides, NEW l \in Ix, NEW i \in Ix
    PROVE  Visited(side, l, i) <=>
             /\ i \in b.bits[Opposite(side)]
             /\ IF side = "Buy" THEN i =< l ELSE l =< i
<1>1. PICK o, first, set : o = Opposite(side) /\ first = b.best[o] /\ set = b.bits[o]
  OBVIOUS
<1>2. o \in Sides /\ (side = "Buy" <=> o = "Sell")
  BY <1>1 DEF Opposite, Sides
<1>3. set \in SUBSET Ix /\ first = BestOf(o, set)
  BY <1>1, <1>2 DEF Rep, BookTyped, Cached
<1>4. /\ first \in Int /\ (set # {} => first \in set)
      /\ \A k \in set : AtLeast(o, first, k)
      /\ set = {} => first = IF o = "Sell" THEN Top + 1 ELSE -1
  BY <1>2, <1>3, BestFacts
<1>5. Visited(side, l, i) <=>
        /\ i = first \/ i \in set
        /\ IF side = "Buy" THEN first =< i /\ i =< l ELSE l =< i /\ i =< first
  BY <1>1 DEF Visited
<1>6. Top \in Nat /\ i \in Int /\ 0 =< i /\ i =< Top /\ l \in Int
  BY IxFacts
<1>7. i = first => i \in set
  BY <1>4, <1>6
<1>8. i \in set => IF side = "Buy" THEN first =< i ELSE i =< first
  BY <1>2, <1>4 DEF AtLeast
<1> QED
  BY <1>1, <1>5, <1>7, <1>8


\* One step of fillable's walk along the ladder.
WalkStep(side, l, owner, stp, k, s) ==
    IF Visited(side, l, LevelAt(side, k)) THEN ScanLevel(s, LevelAt(side, k), owner, stp) ELSE s

IsWalk(g, side, l, owner, stp, start) ==
    /\ g \in [0 .. Top + 1 -> Scans]
    /\ g[0] = start
    /\ \A k \in 1 .. Top + 1 : g[k] = WalkStep(side, l, owner, stp, k, g[k - 1])

\* fillable's answer is that of the walk.
LEMMA WalkUnfolds ==
    ASSUME NEW side \in Sides, NEW l \in Ix, NEW qty, NEW owner, NEW stp, Open(qty) \in Scans,
           \A i \in Ix : \A s \in Scans : ScanLevel(s, i, owner, stp) \in Scans,
           \A k \in 1 .. Top + 1 : LevelAt(side, k) \in Ix
    PROVE  \E g : /\ IsWalk(g, side, l, owner, stp, Open(qty))
                  /\ Fillable(side, l, qty, owner, stp) <=> g[Top + 1].answer = "yes"
<1> DEFINE at(k) == IF side = "Buy" THEN k - 1 ELSE Top + 1 - k
           Raw(f) == [k \in 0 .. Top + 1 |->
                        IF k = 0 THEN Open(qty)
                        ELSE IF Visited(side, l, at(k)) THEN ScanLevel(f[k - 1], at(k), owner, stp)
                        ELSE f[k - 1]]
           g == CHOOSE f : f = Raw(f)
<1>1. Fillable(side, l, qty, owner, stp) <=> g[Top + 1].answer = "yes"
  BY DEF Fillable
<1>2. PICK N \in Nat : N = Top + 1
  BY IxFacts
<1> DEFINE start == Open(qty)
           Body(f) == [k \in 0 .. N |->
                         IF k = 0 THEN start ELSE WalkStep(side, l, owner, stp, k, f[k - 1])]
           F == [k \in 1 .. N |-> [s \in Scans |-> WalkStep(side, l, owner, stp, k, s)]]
<1>3. \A f : Raw(f) = Body(f)
  BY <1>2 DEF WalkStep, LevelAt
<1> HIDE DEF at, start
<1>4. \A k \in 1 .. N : \A s \in Scans : WalkStep(side, l, owner, stp, k, s) \in Scans
  BY <1>2 DEF WalkStep
<1>5. start \in Scans
  BY DEF start
<1>6. F \in [1 .. N -> [Scans -> Scans]]
  BY <1>4
<1>7. \E f : f = Raw(f)
  <2>1. PICK f : IsIteration(f, N, Scans, start, F)
    <3> HIDE DEF F
    <3> QED
      BY <1>5, <1>6, IterationExists
  <2>2. \A k \in 1 .. N : f[k - 1] \in Scans
    <3>1. f \in [0 .. N -> Scans]
      BY <2>1 DEF IsIteration
    <3>2. \A k \in 1 .. N : k - 1 \in 0 .. N
      OBVIOUS
    <3> QED
      BY <3>1, <3>2
  <2>3. \A k \in 1 .. N : f[k] = WalkStep(side, l, owner, stp, k, f[k - 1])
    BY <2>1, <2>2 DEF IsIteration
  <2>4. f = [k \in 0 .. N |-> f[k]] /\ f[0] = start
    BY <2>1 DEF IsIteration
  <2>5. \A k \in 0 .. N : k = 0 \/ k \in 1 .. N
    OBVIOUS
  <2>6. \A k \in 0 .. N : f[k] = IF k = 0 THEN start
                                 ELSE WalkStep(side, l, owner, stp, k, f[k - 1])
    BY <2>3, <2>4, <2>5
  <2>7. f = Body(f)
    BY <2>4, <2>6
  <2> HIDE DEF Raw, Body
  <2> QED
    BY <1>3, <2>7
<1>8. g = Body(g)
  <2> HIDE DEF Raw, Body
  <2> QED
    BY <1>3, <1>7
<1> HIDE DEF g
<1>9. g[0] = start /\ \A k \in 1 .. N : g[k] = WalkStep(side, l, owner, stp, k, g[k - 1])
  BY <1>8
<1>10. \A k \in 0 .. N : g[k] \in Scans
  <2> DEFINE S == {k \in 0 .. N : g[k] \in Scans}
  <2>1. 0 \in S
    BY <1>5, <1>9
  <2>2. \A k \in 0 .. N - 1 : k \in S => k + 1 \in S
    <3> SUFFICES ASSUME NEW k \in 0 .. N - 1, k \in S PROVE k + 1 \in S
      OBVIOUS
    <3>1. k + 1 \in 1 .. N /\ (k + 1) - 1 = k /\ k + 1 \in 0 .. N
      OBVIOUS
    <3>2. g[k + 1] = WalkStep(side, l, owner, stp, k + 1, g[k])
      BY <1>9, <3>1
    <3> QED
      BY <1>4, <3>1, <3>2
  <2>3. 0 .. N \subseteq S
    <3> HIDE DEF S
    <3> QED
      BY <2>1, <2>2, UpTo
  <2> QED
    BY <2>3
<1>11. IsWalk(g, side, l, owner, stp, start)
  <2>1. g = [k \in 0 .. N |-> g[k]]
    BY <1>8
  <2> QED
    BY <1>2, <1>9, <1>10, <2>1 DEF IsWalk
<1> QED
  BY <1>1, <1>11 DEF start

\* The reference book's scan of the levels on a path.
IsVisit(g, side, path, owner, stp, start) ==
    /\ g \in [0 .. Len(path) -> Scans]
    /\ g[0] = start
    /\ \A k \in 1 .. Len(path) :
          g[k] = Ref!ScanQueue(refBook[Opposite(side)][path[k]], owner, stp, g[k - 1])

\* The answer of its fillable is that of the scan.
LEMMA VisitUnfolds ==
    ASSUME NEW side \in Sides, NEW lim, NEW qty, NEW owner, NEW stp, Open(qty) \in Scans,
           NEW path, path = Ref!PricePath(side, lim), Len(path) \in Nat,
           \A k \in 1 .. Len(path) : \A s \in Scans :
              Ref!ScanQueue(refBook[Opposite(side)][path[k]], owner, stp, s) \in Scans
    PROVE  \E g : /\ IsVisit(g, side, path, owner, stp, Open(qty))
                  /\ Ref!Fillable(side, lim, qty, owner, stp) <=> g[Len(path)].answer = "yes"
<1> DEFINE N == Len(path)
           start == Open(qty)
           Body(f) == [k \in 0 .. N |->
                         IF k = 0 THEN start
                         ELSE Ref!ScanQueue(refBook[Opposite(side)][path[k]], owner, stp, f[k - 1])]
           g == CHOOSE f : f = Body(f)
           F == [k \in 1 .. N |-> [s \in Scans |->
                   Ref!ScanQueue(refBook[Opposite(side)][path[k]], owner, stp, s)]]
<1>1. Ref!Fillable(side, lim, qty, owner, stp) <=> g[N].answer = "yes"
  <2> DEFINE rpath == Ref!PricePath(side, lim)
             other == Ref!Opposite(side)
             Raw(f) == [k \in 0 .. Len(rpath) |->
                          IF k = 0 THEN [need |-> qty, answer |-> "open"]
                          ELSE Ref!ScanQueue(refBook[other][rpath[k]], owner, stp, f[k - 1])]
  <2>1. Ref!Fillable(side, lim, qty, owner, stp) <=>
           (CHOOSE f : f = Raw(f))[Len(rpath)].answer = "yes"
    BY DEF Ref!Fillable
  <2>2. rpath = path /\ other = Opposite(side) /\ start = [need |-> qty, answer |-> "open"]
    BY RefOperators DEF Open
  <2> HIDE DEF rpath, other, start
  <2> QED
    BY <2>1, <2>2
<1>2. N \in Nat
  OBVIOUS
<1>3. start \in Scans
  OBVIOUS
<1> HIDE DEF start
<1>4. F \in [1 .. N -> [Scans -> Scans]]
  OBVIOUS
<1>5. \E f : f = Body(f)
  <2>1. PICK f : IsIteration(f, N, Scans, start, F)
    <3> HIDE DEF F
    <3> QED
      BY <1>2, <1>3, <1>4, IterationExists
  <2>2. \A k \in 1 .. N : f[k - 1] \in Scans
    <3>1. f \in [0 .. N -> Scans]
      BY <2>1 DEF IsIteration
    <3>2. \A k \in 1 .. N : k - 1 \in 0 .. N
      BY <1>2
    <3> QED
      BY <3>1, <3>2
  <2>3. \A k \in 1 .. N :
           f[k] = Ref!ScanQueue(refBook[Opposite(side)][path[k]], owner, stp, f[k - 1])
    BY <2>1, <2>2 DEF IsIteration
  <2>4. f = [k \in 0 .. N |-> f[k]] /\ f[0] = start
    BY <2>1 DEF IsIteration
  <2>5. \A k \in 0 .. N : k = 0 \/ k \in 1 .. N
    BY <1>2
  <2>6. \A k \in 0 .. N :
          f[k] = IF k = 0 THEN start
                 ELSE Ref!ScanQueue(refBook[Opposite(side)][path[k]], owner, stp, f[k - 1])
    BY <2>3, <2>4, <2>5
  <2>7. f = Body(f)
    BY <2>4, <2>6
  <2> QED
    BY <2>7
<1>6. g = Body(g)
  <2> HIDE DEF Body
  <2> QED
    BY <1>5
<1> HIDE DEF g
<1>7. /\ g[0] = start
      /\ \A k \in 1 .. N :
            g[k] = Ref!ScanQueue(refBook[Opposite(side)][path[k]], owner, stp, g[k - 1])
  BY <1>2, <1>6
<1>8. \A k \in 0 .. N : g[k] \in Scans
  <2> DEFINE S == {k \in 0 .. N : g[k] \in Scans}
  <2>1. 0 \in S
    BY <1>2, <1>3, <1>7
  <2>2. \A k \in 0 .. N - 1 : k \in S => k + 1 \in S
    <3> SUFFICES ASSUME NEW k \in 0 .. N - 1, k \in S PROVE k + 1 \in S
      OBVIOUS
    <3>1. k + 1 \in 1 .. N /\ (k + 1) - 1 = k /\ k + 1 \in 0 .. N
      BY <1>2
    <3>2. g[k + 1] = Ref!ScanQueue(refBook[Opposite(side)][path[k + 1]], owner, stp, g[k])
      BY <1>7, <3>1
    <3> QED
      BY <3>1, <3>2
  <2>3. 0 .. N \subseteq S
    <3> HIDE DEF S
    <3> QED
      BY <1>2, <2>1, <2>2, UpTo
  <2> QED
    BY <2>3
<1>9. IsVisit(g, side, path, owner, stp, start)
  <2>1. g = [k \in 0 .. N |-> g[k]]
    BY <1>6
  <2> QED
    BY <1>7, <1>8, <2>1 DEF IsVisit
<1> QED
  BY <1>1, <1>9 DEF start


\* A level on the path, in both books.
LEMMA StepAgrees ==
    ASSUME NEW Q, Rep(b, Heads, Q), cursor = Nil, NEW side \in Sides, NEW lim \in Prices,
           NEW owner, NEW stp \in Stps, NEW k \in 1 .. Top + 1, k =< Within(side, Rel(lim)),
           NEW w \in Scans, NEW v \in Scans, Agree(w, v),
           NEW r, r = Ref!ScanQueue(refBook[Opposite(side)][Px(LevelAt(side, k))], owner, stp, v)
    PROVE  r \in Scans /\ Agree(WalkStep(side, Rel(lim), owner, stp, k, w), r)
<1>1. PICK l, i, o : l = Rel(lim) /\ i = LevelAt(side, k) /\ o = Opposite(side)
  OBVIOUS
<1>2. l \in Ix /\ o \in Sides
  BY <1>1, LimitFacts DEF Opposite, Sides
<1>3. i \in Ix /\ IF side = "Buy" THEN i =< l ELSE l =< i
  BY <1>1, RefPath
<1>4. Visited(side, l, i) <=> i \in b.bits[o]
  BY <1>1, <1>2, <1>3, VisitedIs
<1>5. refBook[o][Px(i)] = QueueIn(b, Q, o, i)
  <2>1. Px(i) \in Prices /\ Rel(Px(i)) = i
    BY <1>3, PriceFacts
  <2>2. refBook = BookIn(b, Q)
    BY RefBookIs
  <2> QED
    BY <1>2, <2>1, <2>2 DEF BookIn
<1>6. CASE i \in b.bits[o]
  <2>1. r = Ref!ScanQueue(OrdersOf(b, Q[i]), owner, stp, v)
    BY <1>1, <1>5, <1>6 DEF QueueIn
  <2>2. WalkStep(side, l, owner, stp, k, w) = ScanLevel(w, i, owner, stp)
    BY <1>1, <1>4, <1>6 DEF WalkStep
  <2>3. /\ Ref!ScanQueue(OrdersOf(b, Q[i]), owner, stp, v) \in Scans
        /\ Agree(ScanLevel(w, i, owner, stp), Ref!ScanQueue(OrdersOf(b, Q[i]), owner, stp, v))
    BY <1>3, LevelAgrees
  <2> QED
    BY <1>1, <2>1, <2>2, <2>3
<1>7. CASE i \notin b.bits[o]
  <2>1. PICK q : q = refBook[o][Px(i)] /\ q = <<>>
    BY <1>5, <1>7 DEF QueueIn
  <2>2. Len(q) = 0 /\ SizedQueue(q)
    BY <2>1 DEF SizedQueue
  <2>3. r = v
    <3>1. r = Ref!ScanQueue(q, owner, stp, v)
      BY <1>1, <2>1
    <3> QED
      BY <2>2, <3>1, RefScanKeeps
  <2>4. WalkStep(side, l, owner, stp, k, w) = w
    BY <1>1, <1>4, <1>7 DEF WalkStep
  <2> QED
    BY <1>1, <2>3, <2>4
<1> QED
  BY <1>6, <1>7

\* fillable answers alike in both books: hopping over the marked levels and
\* asking their aggregates is as good as scanning every order on the path.
LEMMA RefFillable ==
    ASSUME NEW Q, Rep(b, Heads, Q), cursor = Nil, NEW side \in Sides, NEW lim \in Prices,
           NEW qty \in Nat \ {0}, NEW owner, NEW stp \in Stps
    PROVE  Ref!Fillable(side, lim, qty, owner, stp) <=> Fillable(side, Rel(lim), qty, owner, stp)
<1>1. PICK l, n, o, path, start :
        /\ l = Rel(lim) /\ n = Within(side, Rel(lim)) /\ o = Opposite(side)
        /\ path = Ref!PricePath(side, lim) /\ start = Open(qty)
  OBVIOUS
<1>2. /\ n \in Nat /\ n =< Top + 1 /\ Top + 1 \in Nat /\ Len(path) = n
      /\ \A k \in 1 .. n : path[k] = Px(LevelAt(side, k))
      /\ \A k \in 1 .. Top + 1 :
           /\ LevelAt(side, k) \in Ix
           /\ k =< n <=> IF side = "Buy" THEN LevelAt(side, k) =< l ELSE l =< LevelAt(side, k)
  BY <1>1, RefPath
<1>3. l \in Ix
  BY <1>1, LimitFacts
<1>4. start \in Scans /\ \A s \in Scans : Agree(s, s)
  BY <1>1 DEF Open, Scans, Agree
<1>5. PICK N \in Nat : N = Top + 1
  BY <1>2
<1>6. ASSUME NEW k \in 1 .. n, NEW w \in Scans, NEW v \in Scans, Agree(w, v)
      PROVE  /\ Ref!ScanQueue(refBook[Opposite(side)][path[k]], owner, stp, v) \in Scans
             /\ Agree(WalkStep(side, l, owner, stp, k, w),
                      Ref!ScanQueue(refBook[Opposite(side)][path[k]], owner, stp, v))
  <2>1. k \in 1 .. Top + 1 /\ k =< n /\ path[k] = Px(LevelAt(side, k))
    BY <1>2
  <2>2. PICK r : r = Ref!ScanQueue(refBook[Opposite(side)][Px(LevelAt(side, k))], owner, stp, v)
    OBVIOUS
  <2>3. r \in Scans /\ Agree(WalkStep(side, Rel(lim), owner, stp, k, w), r)
    BY <1>1, <1>6, <2>1, <2>2, StepAgrees
  <2> QED
    BY <1>1, <2>1, <2>2, <2>3
<1>7. PICK g : /\ IsVisit(g, side, path, owner, stp, start)
               /\ Ref!Fillable(side, lim, qty, owner, stp) <=> g[n].answer = "yes"
  <2>1. \A k \in 1 .. Len(path) : \A s \in Scans :
           Ref!ScanQueue(refBook[Opposite(side)][path[k]], owner, stp, s) \in Scans
    BY <1>2, <1>4, <1>6
  <2>2. Len(path) \in Nat /\ Open(qty) \in Scans
    BY <1>1, <1>2, <1>4
  <2>3. \E g : /\ IsVisit(g, side, path, owner, stp, Open(qty))
               /\ Ref!Fillable(side, lim, qty, owner, stp) <=> g[Len(path)].answer = "yes"
    BY <1>1, <2>1, <2>2, VisitUnfolds, SMTT(30)
  <2> QED
    BY <1>1, <1>2, <2>3
<1>8. PICK h : /\ IsWalk(h, side, l, owner, stp, start)
               /\ Fillable(side, l, qty, owner, stp) <=> h[N].answer = "yes"
  <2>1. \A i \in Ix : \A s \in Scans : ScanLevel(s, i, owner, stp) \in Scans
    BY <1>4, LevelAgrees
  <2>2. Open(qty) \in Scans /\ \A k \in 1 .. Top + 1 : LevelAt(side, k) \in Ix
    BY <1>1, <1>2, <1>4
  <2>3. \E h : /\ IsWalk(h, side, l, owner, stp, Open(qty))
               /\ Fillable(side, l, qty, owner, stp) <=> h[Top + 1].answer = "yes"
    BY <1>3, <2>1, <2>2, WalkUnfolds
  <2> QED
    BY <1>1, <1>5, <2>3
<1>9. /\ g \in [0 .. n -> Scans] /\ g[0] = start
      /\ \A k \in 1 .. n :
            g[k] = Ref!ScanQueue(refBook[Opposite(side)][path[k]], owner, stp, g[k - 1])
  BY <1>2, <1>7 DEF IsVisit
<1>10. /\ h \in [0 .. N -> Scans] /\ h[0] = start
       /\ \A k \in 1 .. N : h[k] = WalkStep(side, l, owner, stp, k, h[k - 1])
  BY <1>5, <1>8 DEF IsWalk
<1>11. n \in Nat /\ n =< N
  BY <1>2, <1>5
<1>12. Agree(h[n], g[n])
  <2> DEFINE S == {k \in 0 .. n : Agree(h[k], g[k])}
  <2>1. 0 \in S
    BY <1>4, <1>9, <1>10, <1>11
  <2>2. \A k \in 0 .. n - 1 : k \in S => k + 1 \in S
    <3> SUFFICES ASSUME NEW k \in 0 .. n - 1, k \in S PROVE k + 1 \in S
      OBVIOUS
    <3>1. /\ k + 1 \in 1 .. n /\ (k + 1) - 1 = k /\ k + 1 \in 0 .. n /\ k + 1 \in 1 .. N
          /\ k \in 0 .. n /\ k \in 0 .. N
      BY <1>11
    <3>2. PICK w, v : w = h[k] /\ v = g[k]
      OBVIOUS
    <3>3. w \in Scans /\ v \in Scans /\ Agree(w, v)
      BY <1>9, <1>10, <3>1, <3>2
    <3>4. /\ g[k + 1] = Ref!ScanQueue(refBook[Opposite(side)][path[k + 1]], owner, stp, v)
          /\ h[k + 1] = WalkStep(side, l, owner, stp, k + 1, w)
      BY <1>9, <1>10, <3>1, <3>2
    <3>5. Agree(h[k + 1], g[k + 1])
      BY <1>6, <3>1, <3>3, <3>4
    <3> QED
      BY <3>1, <3>5
  <2>3. 0 .. n \subseteq S
    <3> HIDE DEF S
    <3> QED
      BY <1>11, <2>1, <2>2, UpTo
  <2> QED
    BY <1>11, <2>3
<1>13. h[N] = h[n]
  <2> DEFINE S == {k \in 0 .. N : k >= n => h[k] = h[n]}
  <2>1. 0 \in S
    BY <1>11
  <2>2. \A k \in 0 .. N - 1 : k \in S => k + 1 \in S
    <3> SUFFICES ASSUME NEW k \in 0 .. N - 1, k \in S PROVE k + 1 \in S
      OBVIOUS
    <3>1. k + 1 \in 1 .. N /\ (k + 1) - 1 = k /\ k + 1 \in 0 .. N /\ k + 1 \in 1 .. Top + 1
      BY <1>5
    <3>2. h[k + 1] = WalkStep(side, l, owner, stp, k + 1, h[k])
      BY <1>10, <3>1
    <3>3. CASE k >= n
      <4>1. ~(k + 1 =< n)
        BY <1>11, <3>3
      <4>2. PICK i : i = LevelAt(side, k + 1)
        OBVIOUS
      <4>3. i \in Ix /\ ~(IF side = "Buy" THEN i =< l ELSE l =< i)
        BY <1>2, <3>1, <4>1, <4>2
      <4>4. ~Visited(side, l, i)
        BY <1>3, <4>3, VisitedIs
      <4>5. h[k + 1] = h[k]
        BY <3>2, <4>2, <4>4 DEF WalkStep
      <4> QED
        BY <3>1, <3>3, <4>5
    <3>4. CASE ~(k >= n)
      <4>1. k + 1 >= n => k + 1 = n
        BY <1>11, <3>4
      <4> QED
        BY <3>1, <4>1
    <3> QED
      BY <3>3, <3>4
  <2>3. 0 .. N \subseteq S
    <3> HIDE DEF S
    <3> QED
      BY <2>1, <2>2, UpTo
  <2> QED
    BY <1>11, <2>3
<1> QED
  BY <1>1, <1>7, <1>8, <1>12, <1>13 DEF Agree


\* A new order is refused by both books for the same reason.
LEMMA RefAddReason ==
    ASSUME Inv, NEW c \in AddCommand
    PROVE  /\ Ref!AddReason(c) = AddReason(c)
           /\ Rel(Ref!Limit(c)) = LimitIx(c) /\ Px(LimitIx(c)) = Ref!Limit(c)
<1>1. PICK Q : Rep(b, Heads, Q)
  BY DEF Inv, BookInv
<1>2. Top = MaxPrice - MinPrice /\ MinPrice \in Int /\ MaxPrice \in Int /\ MinPrice =< MaxPrice
  BY BookAssumption DEF Top
<1>3. c.price \in Int /\ c.side \in Sides
  <2>1. CASE c \in OddCommand
    BY <1>2, <2>1 DEF OddCommand, NewOrder, InputPrices, Sides
  <2>2. CASE c \in LimitCommand
    BY <1>2, <2>2 DEF LimitCommand, NewOrder, Prices
  <2>3. CASE c \in MarketCommand
    BY <2>3 DEF MarketCommand, NewOrder
  <2> QED
    BY <2>1, <2>2, <2>3 DEF AddCommand
<1>4. InBand(c.price) <=> c.price \in Prices
  BY <1>2, <1>3 DEF InBand, Rel, Prices
<1>5. PICK lim : lim = Ref!Limit(c)
  OBVIOUS
<1>6. lim = IF Market(c) THEN (IF c.side = "Buy" THEN MaxPrice ELSE MinPrice) ELSE c.price
  BY <1>5, RefOperators DEF Ref!Limit
<1>7. Rel(lim) = LimitIx(c) /\ Px(LimitIx(c)) = lim
  BY <1>2, <1>3, <1>6 DEF Rel, Px, LimitIx
<1>8. Market(c) \/ c.price \in Prices => lim \in Prices
  BY <1>2, <1>6 DEF Prices
<1>9. lim \in Prices => (Ref!Crosses(c.side, lim) <=> Crosses(c.side, LimitIx(c)))
  BY <1>1, <1>3, <1>7, RefCrosses
<1>10. Find(c.id) = Nil <=> c.id \notin DOMAIN refIndex
  BY RefKnows
<1>11. Ref!AddReason(c) =
         IF c.id = NoId THEN "InvalidOrderId"
         ELSE IF c.qty = 0 THEN "InvalidQty"
         ELSE IF ~Market(c) /\ c.price \notin Prices THEN "InvalidPrice"
         ELSE IF c.id \in DOMAIN refIndex THEN "DuplicateOrderId"
         ELSE IF c.postOnly /\ Ref!Crosses(c.side, lim) THEN "WouldCross"
         ELSE "None"
  BY <1>5, RefWords, RefOperators DEF Ref!AddReason
<1>12. Ref!AddReason(c) = AddReason(c)
  BY <1>4, <1>8, <1>9, <1>10, <1>11 DEF AddReason
<1> QED
  BY <1>5, <1>7, <1>12

\* add of the one book is add of the other.
LEMMA AddRefines ==
    ASSUME Inv, NEW c \in AddCommand, Add(c) PROVE Ref!Add(c)
<1>1. TakerInv /\ pc = "idle"
  BY DEF Inv, Add
<1>2. PICK Q : Rep(b, Heads, Q)
  BY DEF Inv, BookInv
<1>3. Ref!AddReason(c) = AddReason(c) /\ Rel(Ref!Limit(c)) = LimitIx(c) /\ Px(LimitIx(c)) = Ref!Limit(c)
  BY RefAddReason
<1>4. CASE AddReason(c) # "None"
  BY <1>1, <1>3, <1>4, RejectRefines DEF Add, Ref!Add
<1>5. CASE AddReason(c) = "None"
  <2>1. BookTyped(b) /\ cursor = Nil
    BY <1>1, <1>2, IdleHeads DEF Rep
  <2>2. PICK stp, lim, px :
          /\ stp = EffectiveStp(c.stp) /\ lim = Ref!Limit(c)
          /\ px = IF Market(c) THEN 0 ELSE c.price
    OBVIOUS
  <2>3. c.side \in Sides /\ c.qty \in Nat \ {0} /\ stp \in Stps /\ lim \in Prices
    BY <1>3, <1>5, <2>1, <2>2, AcceptedFields
  <2>4. Ref!Fillable(c.side, lim, c.qty, c.owner, stp) <=>
           Fillable(c.side, LimitIx(c), c.qty, c.owner, stp)
    <3>1. PICK side, qty, owner : side = c.side /\ qty = c.qty /\ owner = c.owner
      OBVIOUS
    <3>2. Ref!Fillable(side, lim, qty, owner, stp) <=> Fillable(side, Rel(lim), qty, owner, stp)
      <4>1. side \in Sides /\ qty \in Nat \ {0} /\ stp \in Stps /\ lim \in Prices
        BY <2>3, <3>1
      <4> QED
        BY <1>2, <2>1, <4>1, RefFillable
    <3> QED
      BY <1>3, <2>2, <3>1, <3>2
  <2>5. Accept(c)
    BY <1>5 DEF Add
  <2>6. b' = b /\ cursor' = cursor
    BY <2>5 DEF Accept
  <2>7. refBook' = refBook /\ refIndex' = refIndex
    BY <1>1, <1>2, <2>6, RefSame
  <2> DEFINE accepted == Accepted(c.id, c.side, px, c.qty)
             killed == c.tif = "Fok" /\ ~Fillable(c.side, LimitIx(c), c.qty, c.owner, stp)
             gone == Canceled(c.id, c.side, px, c.qty, "FokUnfilled")
             order == [id |-> c.id, owner |-> c.owner, side |-> c.side,
                       limit |-> lim, qty |-> c.qty, stp |-> stp,
                       stop |-> FALSE, px |-> px, tif |-> c.tif,
                       rests |-> ~Market(c) /\ c.tif = "Day"]
  <2>8. \/ events' = <<accepted, gone>> /\ killed /\ taker' = taker /\ pc' = pc
        \/ events' = <<accepted>> /\ ~killed /\ taker' = order /\ pc' = "sweep"
    BY <1>3, <2>2, <2>5 DEF Accept
  <2>9. /\ accepted = Ref!Accepted(c.id, c.side, px, c.qty)
        /\ gone = Ref!Canceled(c.id, c.side, px, c.qty, "FokUnfilled")
        /\ killed <=> c.tif = "Fok" /\ ~Ref!Fillable(c.side, lim, c.qty, c.owner, stp)
        /\ stp = Ref!EffectiveStp(c.stp)
        /\ px = IF Ref!Market(c) THEN 0 ELSE c.price
        /\ Market(c) <=> Ref!Market(c)
    BY <2>2, <2>4, RefOperators
  <2>10. order = [id |-> c.id, owner |-> c.owner, side |-> c.side,
                  limit |-> lim, qty |-> c.qty, stp |-> stp,
                  stop |-> FALSE, px |-> px, tif |-> c.tif,
                  rests |-> ~Ref!Market(c) /\ c.tif = "Day"]
    BY <2>9
  <2> HIDE DEF accepted, killed, gone, order
  <2>11. Ref!Accept(c)
    BY <2>2, <2>7, <2>8, <2>9, <2>10 DEF Ref!Accept
  <2> QED
    BY <1>1, <1>3, <1>5, <2>11 DEF Ref!Add
<1> QED
  BY <1>4, <1>5

\* The empty book stands for the empty reference book.
LEMMA InitRefines == Init => Ref!Init
<1> SUFFICES ASSUME Init PROVE Ref!Init
  OBVIOUS
<1>1. b.bits = [side \in Sides |-> {}] /\ b.ids = << >>
  BY DEF Init
<1>2. \A side \in Sides : \A i : QueueOf(side, i) = <<>>
  BY <1>1 DEF QueueOf
<1>3. refBook = [s \in Sides |-> [p \in Prices |-> <<>>]]
  BY <1>2 DEF refBook
<1>4. refIndex = << >>
  BY <1>1 DEF refIndex
<1> QED
  BY <1>3, <1>4, RefWords DEF Init, Ref!Init

\* Every step is a step of the reference book, or changes nothing it shows.
LEMMA StepRefines == Inv /\ [Next]_vars => [Ref!Next]_(Ref!vars)
<1> SUFFICES ASSUME Inv, [Next]_vars PROVE [Ref!Next]_(Ref!vars)
  OBVIOUS
<1>1. CASE Match
  BY <1>1, MatchRefines DEF Ref!Next
<1>2. CASE FinishMatch
  BY <1>2, FinishRefines DEF Ref!Next
<1>3. CASE \E c \in CancelCommand : Cancel(c)
  BY <1>3, CancelRefines, RefWords DEF Ref!Next
<1>4. CASE \E c \in ModifyCommand : Modify(c)
  BY <1>4, ModifyRefines, RefWords DEF Ref!Next
<1>5. CASE \E c \in AddCommand : Add(c)
  BY <1>5, AddRefines, RefWords DEF Ref!Next
<1>6. CASE UNCHANGED vars
  <2>1. b' = b /\ cursor' = cursor /\ taker' = taker /\ pc' = pc /\ events' = events
    BY <1>6 DEF vars
  <2>2. \A side, i : QueueOf(side, i)' = QueueOf(side, i)
    BY <2>1 DEF QueueOf, TrueHead, BestIx, MakerSide, Chain
  <2>3. refBook' = refBook /\ refIndex' = refIndex
    BY <2>1, <2>2 DEF refBook, refIndex
  <2> QED
    BY <2>1, <2>3 DEF Ref!vars
<1> QED
  BY <1>1, <1>2, <1>3, <1>4, <1>5, <1>6 DEF Next

\* order_book.hpp implements reference_book.hpp: whatever the price band, the
\* capacity, the self-trade mode and the history of commands, the ladder with
\* its lists, bits, cached bests and aggregates reports the same events and
\* holds the same orders in the same queue positions.
THEOREM BookRefinesReference == Spec => RefinesReference
<1>1. Init => Ref!Init
  BY InitRefines
<1>2. Inv /\ [Next]_vars => [Ref!Next]_(Ref!vars)
  BY StepRefines
<1> QED
  BY <1>1, <1>2, BookRepresented, PTL DEF Spec, RefinesReference, Ref!Spec
=============================================================================
