-------------------------- MODULE SpscQueueProofs --------------------------
(***************************************************************************)
(* Proofs about SpscQueue, for every capacity and every width of the       *)
(* indices that can tell a full ring from an empty one.                    *)
(***************************************************************************)
EXTENDS SpscQueue, ArithmeticLemmas, TLAPS

\* What the ring needs of its parameters: the capacity asked for is at most half
\* of the numbers an index can hold, and no element looks like a torn slot.
RingAssumption ==
    /\ Bits \in Nat /\ Bits >= 2
    /\ Requested \in Nat /\ Requested =< Pow2[Bits - 1]
    /\ Torn \notin Values

-----------------------------------------------------------------------------
(* Powers of two. *)

\* Pow2 is what its recursive definition says.
LEMMA Pow2Unfolds ==
    ASSUME Bits \in Nat
    PROVE  /\ Pow2 \in [0 .. Bits -> Nat \ {0}]
           /\ Pow2[0] = 1
           /\ \A k \in 1 .. Bits : Pow2[k] = 2 * Pow2[k - 1]
<1> DEFINE D == Nat \ {0}
           F == [k \in 1 .. Bits |-> [x \in D |-> 2 * x]]
           Body(g) == [k \in 0 .. Bits |-> IF k = 0 THEN 1 ELSE 2 * g[k - 1]]
<1>1. F \in [1 .. Bits -> [D -> D]] /\ 1 \in D
  OBVIOUS
<1>2. PICK f : IsIteration(f, Bits, D, 1, F)
  <2> HIDE DEF F, D
  <2> QED
    BY <1>1, IterationExists
<1>3. f = [k \in 0 .. Bits |-> f[k]] /\ f[0] = 1 /\ \A k \in 1 .. Bits : f[k - 1] \in D
  BY <1>2 DEF IsIteration
<1>4. \A k \in 1 .. Bits : f[k] = 2 * f[k - 1]
  BY <1>2, <1>3 DEF IsIteration
<1>5. f = Body(f)
  <2>1. \A k \in 0 .. Bits : f[k] = IF k = 0 THEN 1 ELSE 2 * f[k - 1]
    <3> TAKE k \in 0 .. Bits
    <3>1. k = 0 \/ k \in 1 .. Bits
      OBVIOUS
    <3> QED
      BY <1>3, <1>4, <3>1
  <2> QED
    BY <1>3, <2>1
<1>6. Pow2 = Body(Pow2)
  <2>1. Pow2 = CHOOSE g : g = Body(g)
    BY DEF Pow2
  <2> HIDE DEF Body
  <2> QED
    BY <1>5, <2>1
<1>7. Pow2[0] = 1 /\ \A k \in 1 .. Bits : Pow2[k] = 2 * Pow2[k - 1]
  BY <1>6
<1>8. Pow2 = [k \in 0 .. Bits |-> Pow2[k]]
  BY <1>6
<1> DEFINE S == {k \in 0 .. Bits : Pow2[k] \in D}
<1>9. 0 \in S
  BY <1>7
<1>10. \A k \in 0 .. Bits - 1 : k \in S => k + 1 \in S
  <2> SUFFICES ASSUME NEW k \in 0 .. Bits - 1, k \in S PROVE k + 1 \in S
    OBVIOUS
  <2>1. k + 1 \in 1 .. Bits /\ (k + 1) - 1 = k /\ Pow2[k] \in D
    OBVIOUS
  <2>2. Pow2[k + 1] = 2 * Pow2[k]
    BY <1>7, <2>1
  <2> QED
    BY <2>1, <2>2
<1>11. 0 .. Bits \subseteq S
  <2> HIDE DEF S
  <2> QED
    BY <1>9, <1>10, UpTo
<1> QED
  BY <1>7, <1>8, <1>11

\* A smaller power of two divides a larger one.
LEMMA Pow2Divides ==
    ASSUME Bits \in Nat, NEW j \in 0 .. Bits, NEW k \in 0 .. Bits, j =< k
    PROVE  \E m \in Nat \ {0} : Pow2[k] = Pow2[j] * m
<1> DEFINE S == {d \in 0 .. Bits - j : \E m \in Nat \ {0} : Pow2[j + d] = Pow2[j] * m}
<1>1. Pow2[j] \in Nat /\ Bits - j \in Nat
  BY Pow2Unfolds
<1>2. 0 \in S
  <2>1. Pow2[j + 0] = Pow2[j] * 1
    BY <1>1
  <2> QED
    BY <1>1, <2>1
<1>3. \A d \in 0 .. (Bits - j) - 1 : d \in S => d + 1 \in S
  <2> SUFFICES ASSUME NEW d \in 0 .. (Bits - j) - 1, d \in S PROVE d + 1 \in S
    OBVIOUS
  <2>1. PICK m \in Nat \ {0} : Pow2[j + d] = Pow2[j] * m
    OBVIOUS
  <2>2. j + (d + 1) \in 1 .. Bits /\ (j + (d + 1)) - 1 = j + d /\ d + 1 \in 0 .. Bits - j
    OBVIOUS
  <2>3. Pow2[j + (d + 1)] = 2 * Pow2[j + d]
    BY <2>2, Pow2Unfolds
  <2>4. Pow2[j + (d + 1)] = Pow2[j] * (2 * m) /\ 2 * m \in Nat \ {0}
    BY <1>1, <2>1, <2>3
  <2> QED
    BY <2>2, <2>4
<1>4. 0 .. Bits - j \subseteq S
  <2> HIDE DEF S
  <2> QED
    BY <1>1, <1>2, <1>3, UpTo
<1>5. k - j \in S /\ j + (k - j) = k
  BY <1>4
<1> QED
  BY <1>5

\* The ring's capacity is smaller than the range of its indices, and divides it.
LEMMA CapFacts ==
    ASSUME RingAssumption
    PROVE  /\ Cap \in Nat \ {0} /\ Width \in Nat \ {0} /\ Cap < Width
           /\ \E m \in Nat \ {0} : Width = Cap * m
<1> DEFINE fits == {j \in 1 .. Bits : Pow2[j] >= Requested}
           T == {Pow2[k] : k \in fits}
<1> USE DEF RingAssumption
<1>1. Pow2 \in [0 .. Bits -> Nat \ {0}] /\ \A k \in 1 .. Bits : Pow2[k] = 2 * Pow2[k - 1]
  BY Pow2Unfolds
<1>2. Bits - 1 \in fits /\ T \subseteq Nat
  BY <1>1
<1>3. \E x \in T : \A y \in T : x =< y
  <2>1. T # {}
    BY <1>2
  <2> HIDE DEF T
  <2> QED
    BY <1>2, <2>1, NatMin
<1>4. Cap \in T /\ \A y \in T : Cap =< y
  BY <1>3 DEF Cap, Min
<1>5. PICK c \in fits : Cap = Pow2[c]
  BY <1>4
<1>6. Cap =< Pow2[Bits - 1]
  BY <1>2, <1>4
<1>7. Pow2[Bits] = 2 * Pow2[Bits - 1] /\ Pow2[Bits - 1] \in Nat \ {0}
  BY <1>1
<1>8. \E m \in Nat \ {0} : Pow2[Bits] = Pow2[c] * m
  <2>1. c \in 0 .. Bits /\ Bits \in 0 .. Bits /\ c =< Bits
    OBVIOUS
  <2> QED
    BY <2>1, Pow2Divides
<1>9. Cap \in Nat \ {0}
  BY <1>1, <1>5
<1> QED
  BY <1>5, <1>6, <1>7, <1>8, <1>9 DEF Width

-----------------------------------------------------------------------------
(* Indices and slots. *)

Indices == 0 .. Width - 1

\* The distance of two indices and the next index, without remainders.
LEMMA IndexFacts ==
    ASSUME RingAssumption, NEW a \in Indices, NEW b \in Indices
    PROVE  /\ Diff(a, b) = IF a >= b THEN a - b ELSE (a - b) + Width
           /\ Inc(a) = IF a = Width - 1 THEN 0 ELSE a + 1
           /\ Diff(a, b) \in 0 .. Width - 1
           /\ Inc(a) \in Indices
<1>1. Width \in Nat \ {0}
  BY CapFacts
<1>2. Diff(a, b) = IF a >= b THEN a - b ELSE (a - b) + Width
  <2>1. CASE a >= b
    <3>1. a - b \in 0 .. Width - 1
      BY <1>1, <2>1 DEF Indices
    <3> QED
      BY <1>1, <2>1, <3>1, ModSmall DEF Diff
  <2>2. CASE ~(a >= b)
    <3>1. (a - b) + Width \in 0 .. Width - 1 /\ a - b \in Int /\ 1 \in Int /\ Width = Width * 1
      BY <1>1, <2>2 DEF Indices
    <3>2. ((a - b) + Width * 1) % Width = (a - b) % Width
      BY <1>1, <3>1, ModShift, Zenon
    <3>3. ((a - b) + Width) % Width = (a - b) + Width
      BY <1>1, <3>1, ModSmall
    <3> QED
      BY <2>2, <3>1, <3>2, <3>3 DEF Diff
  <2> QED
    BY <2>1, <2>2
<1>3. Inc(a) = IF a = Width - 1 THEN 0 ELSE a + 1
  <2>1. CASE a = Width - 1
    <3>1. 0 \in 0 .. Width - 1 /\ Width * 1 + 0 = a + 1
      BY <1>1, <2>1
    <3>2. (Width * 1 + 0) % Width = 0
      BY <1>1, <3>1, ModUnique
    <3> QED
      BY <2>1, <3>1, <3>2 DEF Inc
  <2>2. CASE a # Width - 1
    <3>1. a + 1 \in 0 .. Width - 1
      BY <1>1, <2>2 DEF Indices
    <3> QED
      BY <1>1, <2>2, <3>1, ModSmall DEF Inc
  <2> QED
    BY <2>1, <2>2
<1> QED
  BY <1>1, <1>2, <1>3 DEF Indices

\* Moving either index by one moves their distance by one.
LEMMA DiffSteps ==
    ASSUME RingAssumption, NEW a \in Indices, NEW b \in Indices
    PROVE  /\ Diff(a, b) \in Nat
           /\ Diff(a, b) < Width - 1 => Diff(Inc(a), b) = Diff(a, b) + 1
           /\ a # b => Diff(a, Inc(b)) = Diff(a, b) - 1 /\ Diff(a, b) >= 1
<1>1. Width \in Nat \ {0}
  BY CapFacts
<1>2. Diff(a, b) = IF a >= b THEN a - b ELSE (a - b) + Width
  BY IndexFacts
<1>3. Inc(a) = IF a = Width - 1 THEN 0 ELSE a + 1
  BY IndexFacts
<1>4. Inc(b) = IF b = Width - 1 THEN 0 ELSE b + 1
  BY IndexFacts
<1>5. Inc(a) \in Indices /\ Inc(b) \in Indices /\ Diff(a, b) \in 0 .. Width - 1
  BY IndexFacts
<1> DEFINE c == Inc(a)
           d == Inc(b)
<1> HIDE DEF c, d
<1>6. Diff(c, b) = IF c >= b THEN c - b ELSE (c - b) + Width
  BY <1>5, IndexFacts DEF c
<1>7. Diff(a, d) = IF a >= d THEN a - d ELSE (a - d) + Width
  BY <1>5, IndexFacts DEF d
<1>8. c = (IF a = Width - 1 THEN 0 ELSE a + 1) /\ d = IF b = Width - 1 THEN 0 ELSE b + 1
  BY <1>3, <1>4 DEF c, d
<1>9. Diff(a, b) < Width - 1 => Diff(c, b) = Diff(a, b) + 1
  BY <1>1, <1>2, <1>6, <1>8 DEF Indices
<1>10. a # b => Diff(a, d) = Diff(a, b) - 1 /\ Diff(a, b) >= 1
  BY <1>1, <1>2, <1>7, <1>8 DEF Indices
<1> QED
  BY <1>1, <1>5, <1>9, <1>10 DEF c, d

\* Slots: an index that wrapped is at the same slot, and indices less than the
\* capacity apart are at different ones.
LEMMA SlotFacts ==
    ASSUME RingAssumption, NEW a \in Int
    PROVE  /\ Slot(a) \in 0 .. Cap - 1
           /\ Slot(a + Width) = Slot(a)
           /\ \A b \in Int : 0 < a - b /\ a - b < Cap => Slot(a) # Slot(b)
<1>1. Cap \in Nat \ {0}
  BY CapFacts
<1>2. PICK m \in Nat \ {0} : Width = Cap * m
  BY CapFacts
<1>3. Slot(a) \in 0 .. Cap - 1
  BY <1>1, ModFacts DEF Slot
<1>4. Slot(a + Width) = Slot(a)
  <2>1. m \in Int
    OBVIOUS
  <2>2. (a + Cap * m) % Cap = a % Cap
    BY <1>1, <2>1, ModShift, Zenon
  <2> QED
    BY <1>2, <2>2, Zenon DEF Slot
<1>5. \A b \in Int : 0 < a - b /\ a - b < Cap => Slot(a) # Slot(b)
  BY <1>1, ModDistinct DEF Slot
<1> QED
  BY <1>3, <1>4, <1>5

\* A load returns an index between the one seen last and the newest.
LEMMA VisibleFacts ==
    ASSUME RingAssumption, NEW old \in Indices, NEW new \in Indices, NEW x \in Visible(old, new)
    PROVE  x \in Indices /\ Diff(x, old) =< Diff(new, old) /\ Diff(new, x) =< Diff(new, old)
<1>1. Width \in Nat \ {0}
  BY CapFacts
<1>2. PICK i \in 0 .. Diff(new, old) : x = (old + i) % Width
  BY DEF Visible
<1>3. Diff(new, old) \in 0 .. Width - 1
  BY IndexFacts
<1>4. i \in 0 .. Width - 1
  BY <1>1, <1>2, <1>3
<1>5. x = IF old + i < Width THEN old + i ELSE (old + i) - Width
  <2>1. CASE old + i < Width
    <3>1. old + i \in 0 .. Width - 1
      BY <1>1, <1>4, <2>1 DEF Indices
    <3> QED
      BY <1>1, <1>2, <2>1, <3>1, ModSmall
  <2>2. CASE ~(old + i < Width)
    <3>1. (old + i) - Width \in 0 .. Width - 1 /\ Width * 1 + ((old + i) - Width) = old + i
      BY <1>1, <1>4, <2>2 DEF Indices
    <3>2. (Width * 1 + ((old + i) - Width)) % Width = (old + i) - Width
      BY <1>1, <3>1, ModUnique
    <3> QED
      BY <1>2, <2>2, <3>1, <3>2
  <2> QED
    BY <2>1, <2>2
<1>6. x \in Indices
  BY <1>1, <1>4, <1>5 DEF Indices
<1> QED
  <2>1. /\ Diff(x, old) = IF x >= old THEN x - old ELSE (x - old) + Width
        /\ Diff(new, x) = IF new >= x THEN new - x ELSE (new - x) + Width
        /\ Diff(new, old) = IF new >= old THEN new - old ELSE (new - old) + Width
    BY <1>6, IndexFacts
  <2>2. i =< Diff(new, old)
    BY <1>2, <1>3
  <2> QED
    BY <1>1, <1>4, <1>5, <1>6, <2>1, <2>2 DEF Indices

\* A load may return the newest index.
LEMMA NewestVisible ==
    ASSUME RingAssumption, NEW old \in Indices, NEW new \in Indices
    PROVE  new \in Visible(old, new)
<1>1. Width \in Nat \ {0}
  BY CapFacts
<1>2. Diff(new, old) = IF new >= old THEN new - old ELSE (new - old) + Width
  BY IndexFacts
<1>3. Diff(new, old) \in 0 .. Diff(new, old)
  BY DiffSteps
<1>4. (old + Diff(new, old)) % Width = new
  <2>1. old + Diff(new, old) = new \/ old + Diff(new, old) = new + Width * 1
    BY <1>1, <1>2 DEF Indices
  <2>2. new \in Int /\ 1 \in Int
    BY <1>1 DEF Indices
  <2>3. (new + Width * 1) % Width = new % Width
    BY <1>1, <2>2, ModShift, Zenon
  <2>4. new % Width = new
    BY <1>1, ModSmall DEF Indices
  <2> QED
    BY <2>1, <2>3, <2>4, Zenon
<1> QED
  BY <1>3, <1>4 DEF Visible

-----------------------------------------------------------------------------
(* The invariant. *)

Used == Diff(q.tail, q.head)

QueueTypes ==
    /\ q = [buf |-> q.buf, tail |-> q.tail, headCache |-> q.headCache, prod |-> q.prod,
            head |-> q.head, tailCache |-> q.tailCache, cons |-> q.cons]
    /\ q.buf \in [0 .. Cap - 1 -> Values \cup {Torn}]
    /\ q.tail \in Indices /\ q.headCache \in Indices
    /\ q.head \in Indices /\ q.tailCache \in Indices
    /\ q.prod \in {"idle", "writing"}
    /\ q.cons \in {"idle", "reading"}

\* Around the ring the indices stand in the order headCache, head, tailCache,
\* tail, and from the first to the last is at most one round.  A thread that is
\* writing or reading has found room or an element.
InOrder ==
    /\ Diff(q.tail, q.headCache) =< Cap
    /\ Used =< Diff(q.tail, q.headCache)
    /\ Diff(q.tailCache, q.head) =< Used
    /\ q.prod = "writing" => Diff(q.tail, q.headCache) # Cap
    /\ q.cons = "reading" => q.head # q.tailCache

\* The slots between head and tail hold elements.
Published == \A i \in 0 .. Used - 1 : q.buf[Slot(q.head + i)] \in Values

RingInv == QueueTypes /\ InOrder /\ Published

\* The slot that is written is none of those.
LEMMA TailSlotFree ==
    ASSUME RingAssumption, RingInv
    PROVE  /\ Used \in 0 .. Cap
           /\ Slot(q.tail) \in 0 .. Cap - 1
           /\ Slot(q.tail) = Slot(q.head + Used)
           /\ Used < Cap => \A i \in 0 .. Used - 1 : Slot(q.head + i) # Slot(q.tail)
<1>1. /\ q.tail \in Indices /\ q.head \in Indices /\ q.headCache \in Indices
      /\ Used =< Diff(q.tail, q.headCache) /\ Diff(q.tail, q.headCache) =< Cap
  BY DEF RingInv, QueueTypes, InOrder
<1>2. Cap \in Nat \ {0} /\ Width \in Nat
  BY CapFacts
<1>3. /\ Used = IF q.tail >= q.head THEN q.tail - q.head ELSE (q.tail - q.head) + Width
      /\ Used \in 0 .. Width - 1 /\ Diff(q.tail, q.headCache) \in 0 .. Width - 1
  BY <1>1, IndexFacts DEF Used
<1> HIDE DEF Used
<1>4. Used \in 0 .. Cap
  BY <1>1, <1>2, <1>3
<1>5. q.tail \in Int /\ q.head \in Int
  BY <1>1, <1>2 DEF Indices
<1>6. q.head + Used = q.tail \/ q.head + Used = q.tail + Width
  BY <1>2, <1>3, <1>5
<1>7. Slot(q.tail) = Slot(q.head + Used) /\ Slot(q.tail) \in 0 .. Cap - 1
  BY <1>5, <1>6, SlotFacts
<1>8. ASSUME Used < Cap, NEW i \in 0 .. Used - 1 PROVE Slot(q.head + i) # Slot(q.tail)
  <2>1. q.head + Used \in Int /\ q.head + i \in Int
        /\ 0 < (q.head + Used) - (q.head + i) /\ (q.head + Used) - (q.head + i) < Cap
    BY <1>2, <1>4, <1>5, <1>8
  <2>2. Slot(q.head + Used) # Slot(q.head + i)
    BY <2>1, SlotFacts
  <2> QED
    BY <1>7, <2>2
<1> QED
  BY <1>4, <1>7, <1>8

\* The elements inside.
LEMMA ContentsFacts ==
    ASSUME RingAssumption, RingInv
    PROVE  /\ Contents \in Seq(Values)
           /\ Len(Contents) = Used
           /\ Used \in 0 .. Cap
           /\ \A i \in 1 .. Used : Contents[i] = q.buf[Slot(q.head + i - 1)]
           /\ Contents = [i \in 1 .. Used |-> q.buf[Slot(q.head + i - 1)]]
<1>1. Used \in 0 .. Cap /\ Cap \in Nat
  BY TailSlotFree, CapFacts
<1>2. Contents = [i \in 1 .. Used |-> q.buf[Slot(q.head + i - 1)]]
  BY DEF Contents, Used
<1>3. \A i \in 1 .. Used : q.buf[Slot(q.head + i - 1)] \in Values
  <2> TAKE i \in 1 .. Used
  <2>1. i - 1 \in 0 .. Used - 1
    BY <1>1
  <2>2. q.head \in Int
    BY CapFacts DEF RingInv, QueueTypes, Indices
  <2>3. q.head + (i - 1) = q.head + i - 1
    BY <1>1, <2>2
  <2> QED
    BY <2>1, <2>3 DEF RingInv, Published
<1> HIDE DEF Contents, Used
<1>4. Contents \in Seq(Values) /\ Len(Contents) = Used
  <2>1. Contents \in [1 .. Used -> Values] /\ Used \in Nat
    BY <1>1, <1>2, <1>3
  <2> QED
    BY <2>1
<1> QED
  BY <1>1, <1>2, <1>4

\* The sequence is determined by the slots it is read from.
LEMMA SameContents ==
    ASSUME RingAssumption, RingInv, q'.head = q.head, q'.tail = q.tail,
           \A i \in 0 .. Used - 1 : q'.buf[Slot(q.head + i)] = q.buf[Slot(q.head + i)]
    PROVE  Contents' = Contents
<1>1. Used' = Used /\ Used \in 0 .. Cap /\ Cap \in Nat
  BY TailSlotFree, CapFacts DEF Used, Diff
<1>2. q.head \in Int
  BY CapFacts DEF RingInv, QueueTypes, Indices
<1>3. \A i \in 1 .. Used : q'.buf[Slot(q'.head + i - 1)] = q.buf[Slot(q.head + i - 1)]
  <2> TAKE i \in 1 .. Used
  <2>1. i - 1 \in 0 .. Used - 1 /\ q.head + (i - 1) = q.head + i - 1
    BY <1>1, <1>2
  <2> QED
    BY <2>1
<1>4. Contents = [i \in 1 .. Used |-> q.buf[Slot(q.head + i - 1)]]
  BY DEF Contents, Used
<1>5. Contents' = [i \in 1 .. Used' |-> q'.buf[Slot(q'.head + i - 1)]]
  BY DEF Contents, Used
<1> QED
  BY <1>1, <1>3, <1>4, <1>5

\* try_push looks at head_ again: its cached copy moves towards it.
LEMMA PushRefreshStep ==
    ASSUME RingAssumption, RingInv, PushRefresh
    PROVE  RingInv' /\ Contents' = Contents
<1>1. PICK h \in Visible(q.headCache, q.head) : q' = [q EXCEPT !.headCache = h]
  BY DEF PushRefresh
<1>2. q.prod = "idle" /\ QueueTypes /\ InOrder /\ Published
  BY DEF PushRefresh, RingInv
<1>3. h \in Indices /\ Diff(h, q.headCache) =< Diff(q.head, q.headCache)
      /\ Diff(q.head, h) =< Diff(q.head, q.headCache)
  BY <1>2, VisibleFacts DEF QueueTypes
<1>4. /\ q'.buf = q.buf /\ q'.tail = q.tail /\ q'.headCache = h /\ q'.prod = q.prod
      /\ q'.head = q.head /\ q'.tailCache = q.tailCache /\ q'.cons = q.cons
      /\ QueueTypes'
  BY <1>1, <1>2, <1>3 DEF QueueTypes
<1>5. Diff(q.tail, h) =< Cap /\ Diff(q.tail, q.head) =< Diff(q.tail, h)
  <2>1. Cap \in Nat /\ Width \in Nat \ {0} /\ Cap < Width
    BY CapFacts
  <2>2. /\ q.tail \in Indices /\ q.head \in Indices /\ q.headCache \in Indices
        /\ Diff(q.tail, q.headCache) =< Cap /\ Diff(q.tail, q.head) =< Diff(q.tail, q.headCache)
    BY <1>2 DEF QueueTypes, InOrder, Used
  <2>3. /\ Diff(h, q.headCache) = IF h >= q.headCache THEN h - q.headCache ELSE (h - q.headCache) + Width
        /\ Diff(q.head, q.headCache) = IF q.head >= q.headCache THEN q.head - q.headCache ELSE (q.head - q.headCache) + Width
        /\ Diff(q.head, h) = IF q.head >= h THEN q.head - h ELSE (q.head - h) + Width
        /\ Diff(q.tail, h) = IF q.tail >= h THEN q.tail - h ELSE (q.tail - h) + Width
        /\ Diff(q.tail, q.head) = IF q.tail >= q.head THEN q.tail - q.head ELSE (q.tail - q.head) + Width
        /\ Diff(q.tail, q.headCache) = IF q.tail >= q.headCache THEN q.tail - q.headCache ELSE (q.tail - q.headCache) + Width
    BY <1>3, <2>2, IndexFacts
  <2> QED
    BY <1>3, <2>1, <2>2, <2>3 DEF Indices
<1>6. InOrder'
  BY <1>2, <1>4, <1>5 DEF InOrder, Used, Diff
<1>7. Published'
  BY <1>2, <1>4 DEF Published, Used, Diff, Slot
<1>8. Contents' = Contents
  BY <1>4, SameContents
<1> QED
  BY <1>4, <1>6, <1>7, <1>8 DEF RingInv

\* front looks at tail_ again: its cached copy moves towards it.
LEMMA FrontRefreshStep ==
    ASSUME RingAssumption, RingInv, NEW tails, tails \subseteq Visible(q.tailCache, q.tail),
           FrontRefresh(tails)
    PROVE  RingInv' /\ Contents' = Contents
<1>1. PICK t \in Visible(q.tailCache, q.tail) : t \in tails /\ q' = [q EXCEPT !.tailCache = t]
  BY DEF FrontRefresh
<1>2. q.cons = "idle" /\ q.head = q.tailCache /\ QueueTypes /\ InOrder /\ Published
  BY DEF FrontRefresh, LooksEmpty, RingInv
<1>3. t \in Indices /\ Diff(t, q.tailCache) =< Diff(q.tail, q.tailCache)
  BY <1>2, VisibleFacts DEF QueueTypes
<1>4. /\ q'.buf = q.buf /\ q'.tail = q.tail /\ q'.headCache = q.headCache /\ q'.prod = q.prod
      /\ q'.head = q.head /\ q'.tailCache = t /\ q'.cons = q.cons
      /\ QueueTypes'
  BY <1>1, <1>2, <1>3 DEF QueueTypes
<1>5. InOrder'
  BY <1>2, <1>3, <1>4 DEF InOrder, Used, Diff
<1>6. Published'
  BY <1>2, <1>4 DEF Published, Used, Diff, Slot
<1>7. Contents' = Contents
  BY <1>4, SameContents
<1> QED
  BY <1>4, <1>5, <1>6, <1>7 DEF RingInv

\* try_push begins to write a slot that is not read.
LEMMA PushBeginStep ==
    ASSUME RingAssumption, RingInv, PushBegin
    PROVE  RingInv' /\ Contents' = Contents
<1>1. /\ q.prod = "idle" /\ Diff(q.tail, q.headCache) # Cap
      /\ q' = [q EXCEPT !.prod = "writing", !.buf[Slot(q.tail)] = Torn]
      /\ QueueTypes /\ InOrder /\ Published
  BY DEF PushBegin, LooksFull, RingInv
<1>2. Slot(q.tail) \in 0 .. Cap - 1
  BY TailSlotFree
<1>3. /\ q'.buf = [q.buf EXCEPT ![Slot(q.tail)] = Torn]
      /\ q'.tail = q.tail /\ q'.headCache = q.headCache /\ q'.prod = "writing"
      /\ q'.head = q.head /\ q'.tailCache = q.tailCache /\ q'.cons = q.cons
  BY <1>1 DEF QueueTypes
<1>4. QueueTypes'
  <2>1. q' = [buf |-> q'.buf, tail |-> q'.tail, headCache |-> q'.headCache, prod |-> q'.prod,
              head |-> q'.head, tailCache |-> q'.tailCache, cons |-> q'.cons]
    BY <1>1 DEF QueueTypes
  <2>2. q'.buf \in [0 .. Cap - 1 -> Values \cup {Torn}]
    BY <1>1, <1>2, <1>3 DEF QueueTypes
  <2> QED
    BY <1>1, <1>3, <2>1, <2>2 DEF QueueTypes
<1>5. InOrder'
  BY <1>1, <1>3 DEF InOrder, Used, Diff
<1>6. Used < Cap
  <2>1. Diff(q.tail, q.headCache) \in 0 .. Width - 1 /\ Used \in 0 .. Cap
    BY <1>1, IndexFacts, TailSlotFree DEF QueueTypes
  <2>2. Cap \in Nat /\ Width \in Nat
    BY CapFacts
  <2>3. Used =< Diff(q.tail, q.headCache) /\ Diff(q.tail, q.headCache) =< Cap
    BY <1>1 DEF InOrder
  <2> HIDE DEF Used
  <2> QED
    BY <1>1, <2>1, <2>2, <2>3
<1>7. \A i \in 0 .. Used - 1 : q'.buf[Slot(q.head + i)] = q.buf[Slot(q.head + i)]
  <2> TAKE i \in 0 .. Used - 1
  <2>1. Slot(q.head + i) # Slot(q.tail) /\ Slot(q.head + i) \in 0 .. Cap - 1
    <3>1. q.head + i \in Int
      BY <1>1, CapFacts, TailSlotFree DEF QueueTypes, Indices
    <3> QED
      BY <1>6, <3>1, TailSlotFree, SlotFacts
  <2> QED
    BY <1>1, <1>3, <2>1 DEF QueueTypes
<1>8. Published'
  <2>1. Used' = Used /\ q'.head = q.head
    BY <1>3 DEF Used, Diff
  <2> QED
    BY <1>1, <1>7, <2>1 DEF Published
<1>9. Contents' = Contents
  BY <1>3, <1>7, SameContents
<1> QED
  BY <1>4, <1>5, <1>8, <1>9 DEF RingInv

\* The release store of tail_ publishes one element at the back.
LEMMA PushEndStep ==
    ASSUME RingAssumption, RingInv, NEW v \in Values, PushEnd(v)
    PROVE  RingInv' /\ Len(Contents) < Cap /\ Contents' = Append(Contents, v)
<1>1. /\ q.prod = "writing"
      /\ q' = [q EXCEPT !.prod = "idle", !.buf[Slot(q.tail)] = v, !.tail = Inc(@)]
      /\ QueueTypes /\ InOrder /\ Published
  BY DEF PushEnd, RingInv
<1>2. Slot(q.tail) \in 0 .. Cap - 1 /\ Used \in 0 .. Cap
  BY TailSlotFree
<1>3. /\ q'.buf = [q.buf EXCEPT ![Slot(q.tail)] = v]
      /\ q'.tail = Inc(q.tail) /\ q'.headCache = q.headCache /\ q'.prod = "idle"
      /\ q'.head = q.head /\ q'.tailCache = q.tailCache /\ q'.cons = q.cons
  BY <1>1 DEF QueueTypes
<1>4. QueueTypes'
  <2>1. q' = [buf |-> q'.buf, tail |-> q'.tail, headCache |-> q'.headCache, prod |-> q'.prod,
              head |-> q'.head, tailCache |-> q'.tailCache, cons |-> q'.cons]
    BY <1>1 DEF QueueTypes
  <2>2. q'.buf \in [0 .. Cap - 1 -> Values \cup {Torn}]
    BY <1>1, <1>2, <1>3 DEF QueueTypes
  <2>3. Inc(q.tail) \in Indices
    BY <1>1, IndexFacts DEF QueueTypes
  <2> QED
    BY <1>1, <1>3, <2>1, <2>2, <2>3 DEF QueueTypes
<1>5. /\ Cap \in Nat /\ Width \in Nat \ {0} /\ Cap < Width
      /\ q.tail \in Indices /\ q.head \in Indices /\ q.headCache \in Indices
      /\ q.tailCache \in Indices
  BY <1>1, CapFacts DEF QueueTypes
<1>6. /\ Diff(q.tail, q.headCache) # Cap /\ Diff(q.tail, q.headCache) =< Cap
      /\ Diff(q.tail, q.head) =< Diff(q.tail, q.headCache)
      /\ Diff(q.tailCache, q.head) =< Diff(q.tail, q.head)
  BY <1>1 DEF InOrder, Used
<1>7. /\ Diff(Inc(q.tail), q.head) = Diff(q.tail, q.head) + 1
      /\ Diff(Inc(q.tail), q.headCache) = Diff(q.tail, q.headCache) + 1
      /\ Diff(q.tail, q.headCache) \in Nat /\ Diff(q.tail, q.head) \in Nat
      /\ Diff(q.tailCache, q.head) \in Nat
  <2>1. Diff(q.tail, q.headCache) \in Nat
    BY <1>5, DiffSteps
  <2>2. Diff(q.tail, q.head) \in Nat
    BY <1>5, DiffSteps
  <2>3. Diff(q.tailCache, q.head) \in Nat
    BY <1>5, DiffSteps
  <2>4. Diff(q.tail, q.headCache) < Width - 1 /\ Diff(q.tail, q.head) < Width - 1
    BY <1>5, <1>6, <2>1, <2>2
  <2>5. Diff(Inc(q.tail), q.head) = Diff(q.tail, q.head) + 1
    BY <1>5, <2>4, DiffSteps
  <2>6. Diff(Inc(q.tail), q.headCache) = Diff(q.tail, q.headCache) + 1
    BY <1>5, <2>4, DiffSteps
  <2> QED
    BY <2>1, <2>2, <2>3, <2>5, <2>6
<1>8. InOrder'
  <2>1. /\ Diff(q'.tail, q'.headCache) = Diff(q.tail, q.headCache) + 1
        /\ Used' = Diff(q.tail, q.head) + 1
        /\ Diff(q'.tailCache, q'.head) = Diff(q.tailCache, q.head)
    BY <1>3, <1>7 DEF Used
  <2>2. q'.cons = "reading" => q'.head # q'.tailCache
    BY <1>1, <1>3 DEF InOrder
  <2> HIDE DEF Used
  <2> QED
    BY <1>3, <1>5, <1>6, <1>7, <2>1, <2>2 DEF InOrder
<1>9. Used' = Used + 1 /\ Used < Cap
  BY <1>3, <1>5, <1>6, <1>7 DEF Used
<1> HIDE DEF Used
<1>10. \A i \in 0 .. Used - 1 : q'.buf[Slot(q.head + i)] = q.buf[Slot(q.head + i)]
  <2> TAKE i \in 0 .. Used - 1
  <2>1. Slot(q.head + i) # Slot(q.tail) /\ Slot(q.head + i) \in 0 .. Cap - 1
    <3>1. q.head + i \in Int
      BY <1>2, <1>5 DEF Indices
    <3> QED
      BY <1>9, <3>1, TailSlotFree, SlotFacts
  <2> QED
    BY <1>1, <1>3, <2>1 DEF QueueTypes
<1>11. q'.buf[Slot(q.head + Used)] = v
  BY <1>1, <1>2, <1>3, TailSlotFree DEF QueueTypes
<1>12. Published'
  <2> SUFFICES ASSUME NEW i \in 0 .. Used' - 1 PROVE q'.buf[Slot(q'.head + i)] \in Values
    BY DEF Published
  <2>1. i \in 0 .. Used - 1 \/ i = Used
    BY <1>2, <1>5, <1>9
  <2> QED
    BY <1>1, <1>3, <1>10, <1>11, <2>1 DEF Published
<1>13. Contents' = Append(Contents, v)
  <2>1. /\ Contents \in Seq(Values) /\ Len(Contents) = Used
        /\ \A i \in 1 .. Used : Contents[i] = q.buf[Slot(q.head + i - 1)]
    BY ContentsFacts
  <2>2. Contents' = [i \in 1 .. Used' |-> q'.buf[Slot(q'.head + i - 1)]]
    BY DEF Contents, Used
  <2> HIDE DEF Contents
  <2> DEFINE r == Append(Contents, v)
  <2>3. r \in Seq(Values) /\ Len(r) = Used + 1
        /\ (\A i \in 1 .. Used : r[i] = Contents[i]) /\ r[Used + 1] = v
    BY <1>2, <2>1
  <2> HIDE DEF r
  <2>4. r = [i \in 1 .. Used + 1 |-> r[i]]
    BY <1>2, <2>3
  <2>5. \A i \in 1 .. Used + 1 : r[i] = q'.buf[Slot(q'.head + i - 1)]
    <3> TAKE i \in 1 .. Used + 1
    <3>1. q.head \in Int /\ Used \in Nat
      BY <1>2, <1>5 DEF Indices
    <3>2. CASE i \in 1 .. Used
      <4>1. i - 1 \in 0 .. Used - 1 /\ q.head + (i - 1) = q.head + i - 1
        BY <3>1, <3>2
      <4> QED
        BY <1>3, <1>10, <2>1, <2>3, <3>2, <4>1
    <3>3. CASE i = Used + 1
      <4>1. q.head + i - 1 = q.head + Used
        BY <3>1, <3>3
      <4> QED
        BY <1>3, <1>11, <2>3, <3>3, <4>1
    <3>4. i \in 1 .. Used \/ i = Used + 1
      BY <3>1
    <3> QED
      BY <3>2, <3>3, <3>4, Zenon
  <2>6. Contents' = r
    BY <1>9, <2>2, <2>4, <2>5
  <2> QED
    BY <2>6 DEF r
<1>14. Len(Contents) < Cap
  BY <1>9, ContentsFacts
<1> QED
  BY <1>4, <1>8, <1>12, <1>13, <1>14 DEF RingInv

\* front returns an element: the oldest one inside.
LEMMA FrontStep ==
    ASSUME RingAssumption, RingInv, Front
    PROVE  RingInv' /\ Contents' = Contents
<1>1. /\ q.head # q.tailCache /\ q' = [q EXCEPT !.cons = "reading"]
      /\ QueueTypes /\ InOrder /\ Published
  BY DEF Front, LooksEmpty, RingInv
<1>2. /\ q'.buf = q.buf /\ q'.tail = q.tail /\ q'.headCache = q.headCache /\ q'.prod = q.prod
      /\ q'.head = q.head /\ q'.tailCache = q.tailCache /\ q'.cons = "reading"
      /\ QueueTypes'
  BY <1>1 DEF QueueTypes
<1>3. InOrder'
  BY <1>1, <1>2 DEF InOrder, Used, Diff
<1>4. Published'
  BY <1>1, <1>2 DEF Published, Used, Diff, Slot
<1>5. Contents' = Contents
  BY <1>2, SameContents
<1> QED
  BY <1>2, <1>3, <1>4, <1>5 DEF RingInv

\* A ring whose indices meet is empty.
LEMMA EmptyRing ==
    ASSUME RingAssumption, RingInv, q.tail = q.head
    PROVE  Contents = <<>>
<1>1. q.tail \in Indices /\ q.head \in Indices
  BY DEF RingInv, QueueTypes
<1>2. q.tail >= q.head => Diff(q.tail, q.head) = q.tail - q.head
  BY <1>1, IndexFacts
<1>3. Width \in Nat
  BY CapFacts
<1>4. Used = 0
  BY <1>1, <1>2, <1>3 DEF Used, Indices
<1>5. Contents \in Seq(Values) /\ Len(Contents) = 0
  BY <1>4, ContentsFacts
<1> QED
  BY <1>5

\* What is behind front() is the oldest element inside, and it is whole.
LEMMA ReadingFacts ==
    ASSUME RingAssumption, RingInv, q.cons = "reading"
    PROVE  Contents # <<>> /\ Element = Contents[1] /\ Element \in Values /\ Used >= 1
<1>1. /\ q.head # q.tailCache /\ Diff(q.tailCache, q.head) =< Used
      /\ q.head \in Indices /\ q.tailCache \in Indices
  BY DEF RingInv, InOrder, QueueTypes
<1>2. Width \in Nat \ {0} /\ Cap \in Nat
  BY CapFacts
<1>3. Diff(q.tailCache, q.head) >= 1 /\ Diff(q.tailCache, q.head) \in Int
  BY <1>1, <1>2, DiffSteps
<1>4. /\ Contents \in Seq(Values) /\ Len(Contents) = Used /\ Used \in 0 .. Cap
      /\ \A i \in 1 .. Used : Contents[i] = q.buf[Slot(q.head + i - 1)]
  BY ContentsFacts
<1> HIDE DEF Used, Contents
<1>5. Used >= 1 /\ 1 \in 1 .. Used
  BY <1>1, <1>2, <1>3, <1>4
<1>6. q.head + 1 - 1 = q.head
  BY <1>1, <1>2 DEF Indices
<1> QED
  BY <1>4, <1>5, <1>6 DEF Element

\* pop frees the oldest slot.
LEMMA PopStep ==
    ASSUME RingAssumption, RingInv, Pop
    PROVE  RingInv' /\ Contents # <<>> /\ Contents' = Tail(Contents) /\ Element = Contents[1]
<1>1. /\ q.cons = "reading" /\ q' = [q EXCEPT !.cons = "idle", !.head = Inc(@)]
      /\ QueueTypes /\ InOrder /\ Published
  BY DEF Pop, RingInv
<1>2. /\ q'.buf = q.buf /\ q'.tail = q.tail /\ q'.headCache = q.headCache /\ q'.prod = q.prod
      /\ q'.head = Inc(q.head) /\ q'.tailCache = q.tailCache /\ q'.cons = "idle"
  BY <1>1 DEF QueueTypes
<1>3. /\ Cap \in Nat /\ Width \in Nat \ {0} /\ Cap < Width
      /\ q.tail \in Indices /\ q.head \in Indices /\ q.headCache \in Indices
      /\ q.tailCache \in Indices
  BY <1>1, CapFacts DEF QueueTypes
<1>4. QueueTypes'
  <2>1. q' = [buf |-> q'.buf, tail |-> q'.tail, headCache |-> q'.headCache, prod |-> q'.prod,
              head |-> q'.head, tailCache |-> q'.tailCache, cons |-> q'.cons]
    BY <1>1 DEF QueueTypes
  <2>2. Inc(q.head) \in Indices
    BY <1>3, IndexFacts
  <2> QED
    BY <1>1, <1>2, <2>1, <2>2 DEF QueueTypes
<1>5. /\ Diff(q.tail, q.headCache) =< Cap /\ Diff(q.tail, q.head) =< Diff(q.tail, q.headCache)
      /\ Diff(q.tailCache, q.head) =< Diff(q.tail, q.head)
      /\ q.head # q.tailCache
  BY <1>1 DEF InOrder, Used
<1> DEFINE h == Inc(q.head)
<1>6. /\ Diff(q.tail, h) = Diff(q.tail, q.head) - 1
      /\ Diff(q.tailCache, h) = Diff(q.tailCache, q.head) - 1
      /\ Diff(q.tail, q.head) \in Nat /\ Diff(q.tailCache, q.head) \in Nat
      /\ Diff(q.tail, q.headCache) \in Nat
      /\ h \in Int /\ (h = q.head + 1 \/ h + Width = q.head + 1)
  <2>1. Diff(q.tail, q.headCache) \in Nat
    BY <1>3, DiffSteps
  <2>2. Diff(q.tail, q.head) \in Nat
    BY <1>3, DiffSteps
  <2>3. Diff(q.tailCache, h) = Diff(q.tailCache, q.head) - 1 /\ Diff(q.tailCache, q.head) >= 1
        /\ Diff(q.tailCache, q.head) \in Nat
    BY <1>3, <1>5, DiffSteps
  <2>4. q.tail # q.head
    <3>1. q.tail >= q.head => Diff(q.tail, q.head) = q.tail - q.head
      BY <1>3, IndexFacts
    <3> QED
      BY <1>3, <1>5, <2>2, <2>3, <3>1 DEF Indices
  <2>5. Diff(q.tail, h) = Diff(q.tail, q.head) - 1
    BY <1>3, <2>4, DiffSteps
  <2>6. h = IF q.head = Width - 1 THEN 0 ELSE q.head + 1
    BY <1>3, IndexFacts
  <2>7. h \in Int /\ (h = q.head + 1 \/ h + Width = q.head + 1)
    BY <1>3, <2>6 DEF Indices
  <2> QED
    BY <2>1, <2>2, <2>3, <2>5, <2>7
<1> HIDE DEF h
<1>7. q'.head = h
  BY <1>2 DEF h
<1>8. InOrder'
  <2>1. /\ Diff(q'.tail, q'.headCache) = Diff(q.tail, q.headCache)
        /\ Used' = Diff(q.tail, q.head) - 1
        /\ Diff(q'.tailCache, q'.head) = Diff(q.tailCache, q.head) - 1
    BY <1>2, <1>6, <1>7 DEF Used
  <2>2. q'.prod = "writing" => Diff(q'.tail, q'.headCache) # Cap
    BY <1>1, <1>2 DEF InOrder
  <2> HIDE DEF Used
  <2> QED
    BY <1>2, <1>3, <1>5, <1>6, <2>1, <2>2 DEF InOrder
<1>9. Used' = Used - 1
  BY <1>2, <1>6, <1>7 DEF Used
<1>10. Contents # <<>> /\ Element = Contents[1] /\ Used >= 1 /\ Used \in 0 .. Cap
  BY <1>1, ReadingFacts, TailSlotFree
<1> HIDE DEF Used
<1>11. \A i \in Nat : Slot(h + i) = Slot(q.head + (i + 1))
  <2> TAKE i \in Nat
  <2>1. h + i \in Int /\ (h + i = q.head + (i + 1) \/ (h + i) + Width = q.head + (i + 1))
    BY <1>3, <1>6 DEF Indices
  <2> QED
    BY <2>1, SlotFacts
<1>12. Published'
  <2> SUFFICES ASSUME NEW i \in 0 .. Used' - 1 PROVE q'.buf[Slot(q'.head + i)] \in Values
    BY DEF Published
  <2>1. i + 1 \in 0 .. Used - 1 /\ i \in Nat
    BY <1>3, <1>9, <1>10
  <2> QED
    BY <1>1, <1>2, <1>7, <1>11, <2>1 DEF Published
<1>13. Contents' = Tail(Contents)
  <2>1. /\ Contents \in Seq(Values) /\ Len(Contents) = Used
        /\ \A i \in 1 .. Used : Contents[i] = q.buf[Slot(q.head + i - 1)]
    BY ContentsFacts
  <2>2. Contents' = [i \in 1 .. Used' |-> q'.buf[Slot(q'.head + i - 1)]]
    BY DEF Contents, Used
  <2> HIDE DEF Contents
  <2> DEFINE r == Tail(Contents)
  <2>3. r \in Seq(Values) /\ Len(r) = Used - 1 /\ \A i \in 1 .. Used - 1 : r[i] = Contents[i + 1]
    BY <1>10, <2>1
  <2> HIDE DEF r
  <2>4. r = [i \in 1 .. Used - 1 |-> r[i]]
    BY <1>10, <2>3
  <2>5. \A i \in 1 .. Used - 1 : r[i] = q'.buf[Slot(q'.head + i - 1)]
    <3> TAKE i \in 1 .. Used - 1
    <3>1. /\ i + 1 \in 1 .. Used /\ i - 1 \in Nat /\ h + (i - 1) = h + i - 1
          /\ q.head + ((i - 1) + 1) = q.head + (i + 1) - 1
      BY <1>3, <1>6, <1>10 DEF Indices
    <3>2. r[i] = q.buf[Slot(q.head + (i + 1) - 1)]
      BY <2>1, <2>3, <3>1
    <3> QED
      BY <1>2, <1>7, <1>11, <3>1, <3>2
  <2>6. Contents' = r
    BY <1>9, <2>2, <2>4, <2>5
  <2> QED
    BY <2>6 DEF r
<1> QED
  BY <1>4, <1>8, <1>10, <1>12, <1>13 DEF RingInv

-----------------------------------------------------------------------------

\* The ring that the constructor leaves.
LEMMA RingInit ==
    ASSUME RingAssumption, Init
    PROVE  RingInv /\ Contents = <<>>
<1>1. Cap \in Nat \ {0} /\ Width \in Nat \ {0} /\ Cap < Width
  BY CapFacts
<1>2. 0 \in Indices
  BY <1>1 DEF Indices
<1>3. QueueTypes
  BY <1>1, <1>2 DEF Init, QueueTypes
<1>4. Diff(0, 0) = 0
  BY <1>1, <1>2, IndexFacts
<1>5. InOrder /\ Used = 0
  BY <1>1, <1>4 DEF Init, InOrder, Used
<1>6. Published
  BY <1>5 DEF Published
<1>7. Contents = <<>>
  <2>1. Contents \in Seq(Values) /\ Len(Contents) = 0
    BY <1>3, <1>5, <1>6, ContentsFacts DEF RingInv
  <2> QED
    BY <2>1
<1> QED
  BY <1>3, <1>5, <1>6, <1>7 DEF RingInv

\* The invariant says that nothing torn is read or prefetched.
LEMMA RingSound ==
    ASSUME RingAssumption, RingInv
    PROVE  TypeOK /\ NoTornRead
<1>1. TypeOK
  BY DEF RingInv, QueueTypes, TypeOK, Indices
<1>2. q.cons = "reading" => Element # Torn
  BY ReadingFacts DEF RingAssumption
<1>3. ASSUME NEW s \in Prefetched PROVE q.buf[s] # Torn
  <2>1. PICK a \in 1 .. Cap : Diff(q.tailCache, q.head) > a /\ s = Slot(q.head + a)
    BY <1>3 DEF Prefetched
  <2>2. Diff(q.tailCache, q.head) =< Used /\ q.tailCache \in Indices /\ q.head \in Indices
    BY DEF RingInv, InOrder, QueueTypes
  <2>3. Diff(q.tailCache, q.head) \in 0 .. Width - 1 /\ Used \in 0 .. Cap
    BY <2>2, IndexFacts, TailSlotFree
  <2>4. Cap \in Nat /\ Width \in Nat
    BY CapFacts
  <2> HIDE DEF Used
  <2>5. a \in 0 .. Used - 1
    BY <2>1, <2>2, <2>3, <2>4
  <2> QED
    BY <2>1, <2>5 DEF RingInv, Published, RingAssumption
<1> QED
  BY <1>1, <1>2, <1>3 DEF NoTornRead

\* A step of either thread keeps the invariant and is a step of the queue.
LEMMA RingNext ==
    ASSUME RingAssumption, RingInv, [Next]_q
    PROVE  RingInv' /\ [Fifo!Next]_Contents
<1>1. CASE PushRefresh
  BY <1>1, PushRefreshStep
<1>2. CASE PushBegin
  BY <1>2, PushBeginStep
<1>3. ASSUME NEW v \in Values, PushEnd(v) PROVE RingInv' /\ Fifo!Next
  BY <1>3, PushEndStep DEF Fifo!Next, Fifo!Put
<1>4. CASE FrontRefresh(Visible(q.tailCache, q.tail))
  BY <1>4, FrontRefreshStep
<1>5. CASE Front
  BY <1>5, FrontStep
<1>6. CASE Pop
  BY <1>6, PopStep DEF Fifo!Next, Fifo!Take
<1>7. CASE q' = q
  BY <1>7 DEF RingInv, QueueTypes, InOrder, Published, Used, Contents, Diff, Slot
<1> QED
  BY <1>1, <1>2, <1>3, <1>4, <1>5, <1>6, <1>7 DEF Next

\* spsc_queue.hpp, try_push, front, pop and prefetch between one producer and
\* one consumer: a slot that is being written is never read or prefetched, for
\* every capacity and index width.
THEOREM RingNeverTorn == ASSUME RingAssumption PROVE Spec => [](TypeOK /\ NoTornRead)
<1>1. Init => RingInv
  BY RingInit
<1>2. RingInv /\ [Next]_q => RingInv'
  BY RingNext
<1>3. RingInv => TypeOK /\ NoTornRead
  BY RingSound
<1> QED
  BY <1>1, <1>2, <1>3, PTL DEF Spec

\* The ring implements the bounded FIFO queue.
THEOREM RingIsFifo == ASSUME RingAssumption PROVE Spec => IsFifo
<1>1. Init => RingInv /\ Fifo!Init
  BY RingInit DEF Fifo!Init
<1>2. RingInv /\ [Next]_q => RingInv' /\ [Fifo!Next]_Contents
  BY RingNext
<1> QED
  BY <1>1, <1>2, PTL DEF Spec, IsFifo, Fifo!Spec
=============================================================================
