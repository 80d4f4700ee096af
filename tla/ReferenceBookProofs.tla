------------------------ MODULE ReferenceBookProofs ------------------------
(***************************************************************************)
(* Proofs about ReferenceBook, for every set of ids and owners, every price *)
(* band, capacity and self-trade mode.                                     *)
(***************************************************************************)
EXTENDS BookEvents, ArithmeticLemmas, SequenceTheorems, TLAPS

\* The part of the invariant that speaks of the book alone, and the whole.
BookInv == BookTypes /\ QueuedIsIndexed /\ IndexedIsQueued /\ Uncrossed

Inv == TypeOK /\ IndexAgrees /\ Uncrossed

-----------------------------------------------------------------------------
(* Sequences. *)

\* RemoveAt takes out one element and closes the gap.
LEMMA RemoveAtFacts ==
    ASSUME NEW S, NEW q \in Seq(S), NEW k \in 1 .. Len(q)
    PROVE  /\ RemoveAt(q, k) \in Seq(S)
           /\ Len(RemoveAt(q, k)) = Len(q) - 1
           /\ DOMAIN RemoveAt(q, k) = 1 .. Len(q) - 1
           /\ \A i \in 1 .. Len(q) - 1 :
                RemoveAt(q, k)[i] = IF i < k THEN q[i] ELSE q[i + 1]
BY DEF RemoveAt

\* Tail does the same at the front.
LEMMA TailFacts ==
    ASSUME NEW S, NEW q \in Seq(S), q # <<>>
    PROVE  /\ Tail(q) \in Seq(S)
           /\ Len(q) \in Nat \ {0}
           /\ Len(Tail(q)) = Len(q) - 1
           /\ \A i \in 1 .. Len(q) - 1 : Tail(q)[i] = q[i + 1]
           /\ Head(q) = q[1]
           /\ Head(q) \in S
OBVIOUS

-----------------------------------------------------------------------------
(* The best level. *)

\* A non-empty set of prices has a lowest and a highest one.
LEMMA PriceBounds ==
    ASSUME BookAssumption, NEW T, T \subseteq Prices, T # {}
    PROVE  /\ \E p \in T : \A q \in T : p =< q
           /\ \E p \in T : \A q \in T : p >= q
<1>1. \E p \in T : \A q \in T : p =< q
  <2> DEFINE up == {p - MinPrice : p \in T}
  <2>1. up \subseteq Nat /\ up # {}
    BY DEF Prices, BookAssumption
  <2>2. PICK x \in up : \A y \in up : x =< y
    BY <2>1, NatMin
  <2>3. PICK p \in T : x = p - MinPrice
    BY <2>2
  <2>4. \A q \in T : p - MinPrice =< q - MinPrice
    BY <2>2, <2>3
  <2> QED
    BY <2>3, <2>4 DEF Prices, BookAssumption
<1>2. \E p \in T : \A q \in T : p >= q
  <2> DEFINE down == {MaxPrice - p : p \in T}
  <2>1. down \subseteq Nat /\ down # {}
    BY DEF Prices, BookAssumption
  <2>2. PICK x \in down : \A y \in down : x =< y
    BY <2>1, NatMin
  <2>3. PICK p \in T : x = MaxPrice - p
    BY <2>2
  <2>4. \A q \in T : MaxPrice - p =< MaxPrice - q
    BY <2>2, <2>3
  <2> QED
    BY <2>3, <2>4 DEF Prices, BookAssumption
<1> QED
  BY <1>1, <1>2

\* The best level of a side that has one is a level of that side.
LEMMA BestIsLevel ==
    ASSUME BookTypes, BookAssumption, NEW side \in Sides, Levels(side) # {}
    PROVE  /\ Best(side) \in Prices
           /\ book[side][Best(side)] # <<>>
           /\ book[side][Best(side)] \in Seq(Order)
<1>1. Levels(side) \subseteq Prices
  BY DEF Levels
<1>2. \E p \in Levels(side) : \A q \in Levels(side) : InRange(Opposite(side), p, q)
  BY <1>1, PriceBounds DEF InRange, Opposite, Sides
<1>3. Best(side) \in Levels(side)
  BY <1>2 DEF Best
<1> QED
  BY <1>3 DEF Levels, BookTypes

-----------------------------------------------------------------------------
(* The three ways the book changes. *)

\* One order leaves its queue and the index.
LEMMA RemovalKeepsBookInv ==
    ASSUME BookInv, NEW s \in Sides, NEW p \in Prices, NEW k \in DOMAIN book[s][p],
           book' = SetQueue(s, p, RemoveAt(book[s][p], k)),
           index' = Forget(book[s][p][k].id)
    PROVE  /\ BookInv'
           /\ DOMAIN index' = DOMAIN index \ {book[s][p][k].id}
<1> DEFINE q == book[s][p]
           r == RemoveAt(q, k)
           gone == q[k].id
<1> USE DEF BookInv
<1>1. q \in Seq(Order) /\ DOMAIN q = 1 .. Len(q) /\ k \in 1 .. Len(q) /\ q # <<>>
  BY DEF BookTypes
<1>2. /\ r \in Seq(Order)
      /\ Len(r) = Len(q) - 1
      /\ DOMAIN r = 1 .. Len(q) - 1
      /\ \A i \in 1 .. Len(q) - 1 : r[i] = IF i < k THEN q[i] ELSE q[i + 1]
  BY <1>1, RemoveAtFacts
<1>3. /\ book' \in [Sides -> [Prices -> Seq(Order)]]
      /\ book'[s][p] = r
      /\ \A s2 \in Sides, p2 \in Prices :
           s2 # s \/ p2 # p => book'[s2][p2] = book[s2][p2]
  BY <1>2 DEF BookTypes, SetQueue
<1>4. /\ DOMAIN index' = DOMAIN index \ {gone}
      /\ \A id \in DOMAIN index' : index'[id] = index[id]
  BY DEF Forget
<1>5. BookTypes'
  BY <1>3, <1>4 DEF BookTypes, Forget
<1>6. \A i \in DOMAIN r : \E j \in DOMAIN q : j # k /\ r[i] = q[j]
  <2> TAKE i \in DOMAIN r
  <2> DEFINE j == IF i < k THEN i ELSE i + 1
  <2>1. i \in 1 .. Len(q) - 1
    BY <1>1, <1>2
  <2>2. j \in DOMAIN q /\ j # k /\ r[i] = q[j]
    BY <1>1, <1>2, <2>1
  <2> QED
    BY <2>2
<1>7. QueuedIsIndexed'
  <2> SUFFICES ASSUME NEW s2 \in Sides, NEW p2 \in Prices, NEW i \in DOMAIN book'[s2][p2]
               PROVE  /\ book'[s2][p2][i].id \in DOMAIN index'
                      /\ index'[book'[s2][p2][i].id] = [side |-> s2, price |-> p2]
                      /\ \A j \in DOMAIN book'[s2][p2] :
                           book'[s2][p2][j].id = book'[s2][p2][i].id => j = i
    BY DEF QueuedIsIndexed
  <2>1. CASE s2 = s /\ p2 = p
    <3>1. PICK j \in DOMAIN q : j # k /\ r[i] = q[j]
      BY <1>3, <1>6, <2>1
    <3>2. q[j].id \in DOMAIN index /\ q[j].id # gone /\ index[q[j].id] = [side |-> s, price |-> p]
      BY <3>1 DEF QueuedIsIndexed
    <3>3. \A m \in DOMAIN r : r[m].id = r[i].id => m = i
      <4> SUFFICES ASSUME NEW m \in DOMAIN r, r[m].id = r[i].id PROVE m = i
        OBVIOUS
      <4> DEFINE f(x) == IF x < k THEN x ELSE x + 1
      <4>1. i \in 1 .. Len(q) - 1 /\ m \in 1 .. Len(q) - 1
        BY <1>1, <1>2, <1>3, <2>1
      <4>2. r[i] = q[f(i)] /\ r[m] = q[f(m)] /\ f(i) \in DOMAIN q /\ f(m) \in DOMAIN q
        <5>1. \A x \in 1 .. Len(q) - 1 : f(x) \in DOMAIN q
          BY <1>1
        <5>2. r[i] = q[f(i)]
          BY <1>2, <4>1
        <5>3. r[m] = q[f(m)]
          BY <1>2, <4>1
        <5> QED
          BY <4>1, <5>1, <5>2, <5>3
      <4>3. \A a, c \in DOMAIN q : q[a].id = q[c].id => a = c
        BY ZenonT(40) DEF QueuedIsIndexed
      <4>4. f(m) = f(i)
        BY <4>2, <4>3
      <4> QED
        BY <1>1, <4>1, <4>4
    <3> QED
      BY <1>3, <1>4, <2>1, <3>1, <3>2, <3>3, SMTT(60)
  <2>2. CASE s2 # s \/ p2 # p
    <3>1. book'[s2][p2] = book[s2][p2]
      BY <1>3, <2>2
    <3>2. /\ index[gone] = [side |-> s, price |-> p]
          /\ index[book[s2][p2][i].id] = [side |-> s2, price |-> p2]
          /\ book[s2][p2][i].id \in DOMAIN index
      BY <3>1 DEF QueuedIsIndexed
    <3>3. book[s2][p2][i].id # gone
      BY <2>2, <3>2
    <3> QED
      BY <1>4, <3>1, <3>2, <3>3 DEF QueuedIsIndexed
  <2> QED
    BY <2>1, <2>2
<1>8. IndexedIsQueued'
  <2> SUFFICES ASSUME NEW id \in DOMAIN index'
               PROVE  \E i \in DOMAIN book'[index'[id].side][index'[id].price] :
                         book'[index'[id].side][index'[id].price][i].id = id
    BY DEF IndexedIsQueued
  <2> DEFINE t == index[id].side
             x == index[id].price
  <2>1. /\ id \in DOMAIN index /\ id # gone /\ index'[id] = index[id]
        /\ t \in Sides /\ x \in Prices
    BY <1>4 DEF BookTypes, Loc
  <2>2. PICK j \in DOMAIN book[t][x] : book[t][x][j].id = id
    BY <2>1 DEF IndexedIsQueued
  <2>3. CASE t = s /\ x = p
    <3> DEFINE i == IF j < k THEN j ELSE j - 1
    <3>1. j \in 1 .. Len(q) /\ j # k
      BY <1>1, <2>1, <2>2, <2>3
    <3>2. i \in 1 .. Len(q) - 1 /\ (IF i < k THEN i ELSE i + 1) = j
      BY <1>1, <3>1
    <3>3. i \in DOMAIN r /\ r[i] = q[j]
      <4>1. i \in DOMAIN r /\ r[i] = IF i < k THEN q[i] ELSE q[i + 1]
        BY <1>2, <3>2
      <4> QED
        BY <3>2, <4>1
    <3> QED
      BY <1>3, <2>1, <2>2, <2>3, <3>3
  <2>4. CASE t # s \/ x # p
    BY <1>3, <2>1, <2>2, <2>4
  <2> QED
    BY <2>3, <2>4
<1>9. Uncrossed'
  <2>1. \A s2 \in Sides, p2 \in Prices : book'[s2][p2] # <<>> => book[s2][p2] # <<>>
    BY <1>1, <1>2, <1>3
  <2> QED
    BY <2>1 DEF Uncrossed, Sides
<1> QED
  BY <1>4, <1>5, <1>7, <1>8, <1>9

\* Quantities change, nothing else does.
LEMMA AmendKeepsBookInv ==
    ASSUME BookInv, NEW s \in Sides, NEW p \in Prices, NEW k \in DOMAIN book[s][p],
           NEW n \in Nat \ {0},
           book' = SetQueue(s, p, [book[s][p] EXCEPT ![k].qty = n]),
           index' = index
    PROVE  BookInv'
<1> DEFINE q == book[s][p]
           r == [q EXCEPT ![k].qty = n]
<1> USE DEF BookInv
<1>1. q \in Seq(Order) /\ DOMAIN q = 1 .. Len(q) /\ k \in 1 .. Len(q) /\ q # <<>>
  BY DEF BookTypes
<1>2. r \in Seq(Order) /\ DOMAIN r = DOMAIN q /\ \A i \in DOMAIN q : r[i].id = q[i].id
  <2> DEFINE o == [q[k] EXCEPT !.qty = n]
  <2>1. q[k] \in Order
    BY <1>1
  <2>2. o \in Order /\ o.id = q[k].id
    BY <2>1 DEF Order
  <2>3. r = [q EXCEPT ![k] = o]
    BY <1>1
  <2> HIDE DEF o, r
  <2>4. \A i \in DOMAIN q : r[i] = IF i = k THEN o ELSE q[i]
    BY <1>1, <2>3
  <2>5. r \in Seq(Order) /\ DOMAIN r = DOMAIN q
    BY <1>1, <2>2, <2>3
  <2> QED
    BY <2>2, <2>4, <2>5
<1>3. /\ book' \in [Sides -> [Prices -> Seq(Order)]]
      /\ book'[s][p] = r
      /\ \A s2 \in Sides, p2 \in Prices :
           s2 # s \/ p2 # p => book'[s2][p2] = book[s2][p2]
  BY <1>2 DEF BookTypes, SetQueue
<1> HIDE DEF r
<1>4. \A s2 \in Sides, p2 \in Prices :
        /\ DOMAIN book'[s2][p2] = DOMAIN book[s2][p2]
        /\ \A i \in DOMAIN book[s2][p2] : book'[s2][p2][i].id = book[s2][p2][i].id
        /\ book'[s2][p2] # <<>> => book[s2][p2] # <<>>
  BY <1>1, <1>2, <1>3
<1>5. BookTypes'
  BY <1>3 DEF BookTypes
<1>6. QueuedIsIndexed'
  <2> SUFFICES ASSUME NEW s2 \in Sides, NEW p2 \in Prices, NEW i \in DOMAIN book'[s2][p2]
               PROVE  /\ book'[s2][p2][i].id \in DOMAIN index'
                      /\ index'[book'[s2][p2][i].id] = [side |-> s2, price |-> p2]
                      /\ \A j \in DOMAIN book'[s2][p2] :
                           book'[s2][p2][j].id = book'[s2][p2][i].id => j = i
    BY DEF QueuedIsIndexed
  <2>1. i \in DOMAIN book[s2][p2] /\ book'[s2][p2][i].id = book[s2][p2][i].id
    BY <1>4
  <2>2. /\ book[s2][p2][i].id \in DOMAIN index
        /\ index[book[s2][p2][i].id] = [side |-> s2, price |-> p2]
        /\ \A j \in DOMAIN book[s2][p2] : book[s2][p2][j].id = book[s2][p2][i].id => j = i
    BY <2>1 DEF QueuedIsIndexed
  <2> QED
    BY <1>4, <2>1, <2>2, ZenonT(40)
<1>7. IndexedIsQueued'
  <2> SUFFICES ASSUME NEW id \in DOMAIN index
               PROVE  \E i \in DOMAIN book'[index[id].side][index[id].price] :
                         book'[index[id].side][index[id].price][i].id = id
    BY DEF IndexedIsQueued
  <2>1. index[id].side \in Sides /\ index[id].price \in Prices
    BY DEF BookTypes, Loc
  <2>2. PICK i \in DOMAIN book[index[id].side][index[id].price] :
           book[index[id].side][index[id].price][i].id = id
    BY DEF IndexedIsQueued
  <2> QED
    BY <1>4, <2>1, <2>2
<1>8. Uncrossed'
  BY <1>4 DEF Uncrossed, Sides
<1> QED
  BY <1>5, <1>6, <1>7, <1>8

\* An order that is not indexed and crosses nothing joins the back of a queue.
LEMMA AppendKeepsBookInv ==
    ASSUME BookAssumption, BookInv, NEW s \in Sides, NEW p \in Prices, NEW o \in Order,
           o.id \notin DOMAIN index, ~Crosses(s, p),
           book' = [book EXCEPT ![s][p] = Append(@, o)],
           index' = [i \in DOMAIN index \cup {o.id} |->
                       IF i = o.id THEN [side |-> s, price |-> p] ELSE index[i]]
    PROVE  BookInv'
<1> DEFINE q == book[s][p]
           r == Append(q, o)
<1> USE DEF BookInv
<1>1. q \in Seq(Order) /\ DOMAIN q = 1 .. Len(q) /\ Len(q) \in Nat
  BY DEF BookTypes
<1>2. /\ r \in Seq(Order) /\ DOMAIN r = 1 .. Len(q) + 1
      /\ r[Len(q) + 1] = o
      /\ \A i \in 1 .. Len(q) : r[i] = q[i]
  BY <1>1
<1>3. /\ book' \in [Sides -> [Prices -> Seq(Order)]]
      /\ book'[s][p] = r
      /\ \A s2 \in Sides, p2 \in Prices :
           s2 # s \/ p2 # p => book'[s2][p2] = book[s2][p2]
  BY <1>2 DEF BookTypes
<1>4. /\ DOMAIN index' = DOMAIN index \cup {o.id}
      /\ index'[o.id] = [side |-> s, price |-> p]
      /\ \A id \in DOMAIN index : index'[id] = index[id]
  OBVIOUS
<1>5. BookTypes'
  <2>1. o.id \in OrderIds /\ [side |-> s, price |-> p] \in Loc
    BY DEF Order, Loc
  <2> QED
    BY <1>3, <1>4, <2>1 DEF BookTypes
<1> HIDE DEF r
<1>6. QueuedIsIndexed'
  <2> SUFFICES ASSUME NEW s2 \in Sides, NEW p2 \in Prices, NEW i \in DOMAIN book'[s2][p2]
               PROVE  /\ book'[s2][p2][i].id \in DOMAIN index'
                      /\ index'[book'[s2][p2][i].id] = [side |-> s2, price |-> p2]
                      /\ \A j \in DOMAIN book'[s2][p2] :
                           book'[s2][p2][j].id = book'[s2][p2][i].id => j = i
    BY DEF QueuedIsIndexed
  <2>1. CASE s2 = s /\ p2 = p
    <3>1. \A j \in 1 .. Len(q) : q[j].id # o.id
      BY <1>1 DEF QueuedIsIndexed
    <3>2. CASE i = Len(q) + 1
      BY <1>1, <1>2, <1>3, <1>4, <2>1, <3>1, <3>2
    <3>3. CASE i \in 1 .. Len(q)
      <4>1. /\ q[i].id \in DOMAIN index /\ index[q[i].id] = [side |-> s, price |-> p]
            /\ \A j \in 1 .. Len(q) : q[j].id = q[i].id => j = i
        BY <1>1, <3>3 DEF QueuedIsIndexed
      <4>2. book'[s2][p2] = r /\ r[i] = q[i]
        BY <1>2, <1>3, <2>1, <3>3
      <4>3. \A j \in DOMAIN r : r[j].id = q[i].id => j = i
        <5> SUFFICES ASSUME NEW j \in DOMAIN r, r[j].id = q[i].id PROVE j = i
          OBVIOUS
        <5>1. q[i].id # o.id
          BY <3>1, <3>3
        <5>2. j # Len(q) + 1
          BY <1>2, <5>1
        <5>3. j \in 1 .. Len(q) /\ r[j] = q[j]
          BY <1>1, <1>2, <5>2
        <5> QED
          BY <4>1, <5>3
      <4> QED
        BY <1>4, <2>1, <4>1, <4>2, <4>3
    <3> QED
      BY <1>1, <1>2, <1>3, <2>1, <3>2, <3>3
  <2>2. CASE s2 # s \/ p2 # p
    <3>1. book'[s2][p2] = book[s2][p2]
      BY <1>3, <2>2
    <3>2. /\ book[s2][p2][i].id \in DOMAIN index
          /\ index[book[s2][p2][i].id] = [side |-> s2, price |-> p2]
          /\ \A j \in DOMAIN book[s2][p2] :
               book[s2][p2][j].id = book[s2][p2][i].id => j = i
      BY <3>1 DEF QueuedIsIndexed
    <3> QED
      BY <1>4, <3>1, <3>2
  <2> QED
    BY <2>1, <2>2
<1>7. IndexedIsQueued'
  <2> SUFFICES ASSUME NEW id \in DOMAIN index'
               PROVE  \E i \in DOMAIN book'[index'[id].side][index'[id].price] :
                         book'[index'[id].side][index'[id].price][i].id = id
    BY DEF IndexedIsQueued
  <2>1. CASE id = o.id
    <3>1. index'[id].side = s /\ index'[id].price = p
      BY <1>4, <2>1
    <3>2. Len(q) + 1 \in DOMAIN r /\ r[Len(q) + 1].id = id
      BY <1>1, <1>2, <2>1
    <3> QED
      BY <1>3, <3>1, <3>2
  <2>2. CASE id # o.id
    <3> DEFINE t == index[id].side
               x == index[id].price
    <3>1. id \in DOMAIN index /\ index'[id] = index[id] /\ t \in Sides /\ x \in Prices
      BY <1>4, <2>2 DEF BookTypes, Loc
    <3>2. PICK j \in DOMAIN book[t][x] : book[t][x][j].id = id
      BY <3>1 DEF IndexedIsQueued
    <3>3. j \in DOMAIN book'[t][x] /\ book'[t][x][j].id = id
      <4>1. CASE t = s /\ x = p
        BY <1>1, <1>2, <1>3, <3>2, <4>1
      <4>2. CASE t # s \/ x # p
        BY <1>3, <3>1, <3>2, <4>2
      <4> QED
        BY <4>1, <4>2
    <3> QED
      BY <3>1, <3>3
  <2> QED
    BY <2>1, <2>2
<1>8. Uncrossed'
  <2> SUFFICES ASSUME NEW x \in Prices, NEW y \in Prices,
                      book'["Buy"][x] # <<>>, book'["Sell"][y] # <<>>
               PROVE  x < y
    BY DEF Uncrossed
  <2>1. CASE s = "Buy"
    <3>1. book["Sell"][y] # <<>>
      BY <1>3, <2>1 DEF Sides
    <3>2. ~(y =< p)
      BY <2>1, <3>1 DEF Crosses, Levels, InRange, Opposite
    <3>3. CASE x = p
      BY <3>2, <3>3 DEF Prices, BookAssumption
    <3>4. CASE x # p
      BY <1>3, <3>1, <3>4 DEF Uncrossed, Sides
    <3> QED
      BY <3>3, <3>4
  <2>2. CASE s = "Sell"
    <3>1. book["Buy"][x] # <<>>
      BY <1>3, <2>2 DEF Sides
    <3>2. ~(x >= p)
      BY <2>2, <3>1 DEF Crosses, Levels, InRange, Opposite
    <3>3. CASE y = p
      BY <3>2, <3>3 DEF Prices, BookAssumption
    <3>4. CASE y # p
      BY <1>3, <3>1, <3>4 DEF Uncrossed, Sides
    <3> QED
      BY <3>3, <3>4
  <2> QED
    BY <2>1, <2>2 DEF Sides
<1> QED
  BY <1>5, <1>6, <1>7, <1>8

-----------------------------------------------------------------------------
(* The order a handler removes, and the order a taker meets. *)

\* Remove(id) takes out exactly the order with that id.
LEMMA RemoveKeepsBookInv ==
    ASSUME BookInv, NEW id \in DOMAIN index, Remove(id)
    PROVE  BookInv' /\ DOMAIN index' = DOMAIN index \ {id}
<1> DEFINE s == index[id].side
           p == index[id].price
           k == Position(book[s][p], id)
<1>1. s \in Sides /\ p \in Prices
  BY DEF BookInv, BookTypes, Loc
<1>2. k \in DOMAIN book[s][p] /\ book[s][p][k].id = id
  BY DEF BookInv, IndexedIsQueued, Position
<1>3. book' = SetQueue(s, p, RemoveAt(book[s][p], k)) /\ index' = Forget(book[s][p][k].id)
  BY <1>2 DEF Remove
<1> HIDE DEF s, p, k
<1> QED
  BY <1>1, <1>2, <1>3, RemovalKeepsBookInv

\* While the loop runs there is a maker: the first order of a level of the
\* opposite side.
LEMMA MakerFacts ==
    ASSUME BookAssumption, Inv, Matching
    PROVE  /\ taker \in Takers
           /\ Opposite(taker.side) \in Sides
           /\ Best(Opposite(taker.side)) \in Prices
           /\ 1 \in DOMAIN book[Opposite(taker.side)][Best(Opposite(taker.side))]
           /\ book[Opposite(taker.side)][Best(Opposite(taker.side))] \in Seq(Order)
           /\ book[Opposite(taker.side)][Best(Opposite(taker.side))] # <<>>
           /\ Maker = book[Opposite(taker.side)][Best(Opposite(taker.side))][1]
           /\ Maker \in Order
<1> DEFINE s == Opposite(taker.side)
           q == book[s][Best(s)]
<1>1. taker \in Takers /\ s \in Sides
  BY DEF Inv, TypeOK, TakerTypes, Matching, Takers, Opposite, Sides
<1>2. Levels(s) # {}
  BY DEF Matching, Crosses
<1>3. Best(s) \in Prices /\ q # <<>> /\ q \in Seq(Order)
  BY <1>1, <1>2, BestIsLevel DEF Inv, TypeOK
<1>4. Head(q) = q[1] /\ Head(q) \in Order /\ 1 \in DOMAIN q
  BY <1>3, TailFacts
<1> QED
  BY <1>1, <1>3, <1>4 DEF Maker

\* A maker that is filled or cancelled leaves its queue and the index together.
LEMMA PopMakerKeepsBookInv ==
    ASSUME BookAssumption, Inv, Matching, PopMaker
    PROVE  BookInv' /\ DOMAIN index' \subseteq DOMAIN index
<1> DEFINE s == Opposite(taker.side)
           p == Best(s)
           q == book[s][p]
<1>1. /\ s \in Sides /\ p \in Prices /\ 1 \in DOMAIN q
      /\ q \in Seq(Order) /\ q # <<>> /\ Maker = q[1]
  BY MakerFacts
<1>2. Tail(q) = RemoveAt(q, 1)
  <2> DEFINE u == Tail(q)
             v == RemoveAt(q, 1)
  <2>1. u \in Seq(Order) /\ Len(q) \in Nat \ {0} /\ Len(u) = Len(q) - 1
        /\ \A i \in 1 .. Len(q) - 1 : u[i] = q[i + 1]
    BY <1>1, TailFacts
  <2>2. v \in Seq(Order) /\ Len(v) = Len(q) - 1
        /\ \A i \in 1 .. Len(q) - 1 : v[i] = q[i + 1]
    <3>1. 1 \in 1 .. Len(q)
      BY <1>1
    <3>2. /\ v \in Seq(Order) /\ Len(v) = Len(q) - 1
          /\ \A i \in 1 .. Len(q) - 1 : v[i] = IF i < 1 THEN q[i] ELSE q[i + 1]
      BY <1>1, <3>1, RemoveAtFacts
    <3> QED
      BY <3>2, <2>1
  <2> HIDE DEF u, v
  <2>3. DOMAIN u = 1 .. Len(q) - 1 /\ DOMAIN v = 1 .. Len(q) - 1
    BY <2>1, <2>2
  <2>4. \A i \in 1 .. Len(q) - 1 : u[i] = v[i]
    BY <2>1, <2>2
  <2>5. u = [i \in 1 .. Len(q) - 1 |-> u[i]] /\ v = [i \in 1 .. Len(q) - 1 |-> v[i]]
    BY <2>1, <2>2, <2>3
  <2>6. u = v
    BY <2>4, <2>5
  <2> QED
    BY <2>6 DEF u, v
<1>3. book' = SetQueue(s, p, RemoveAt(q, 1)) /\ index' = Forget(q[1].id)
  BY <1>1, <1>2 DEF PopMaker
<1>4. BookInv
  BY DEF Inv, TypeOK, IndexAgrees, BookInv
<1> HIDE DEF s, p
<1>5. BookInv' /\ DOMAIN index' = DOMAIN index \ {q[1].id}
  BY <1>1, <1>3, <1>4, RemovalKeepsBookInv
<1> QED
  BY <1>5

\* A maker that is partly filled or decremented stays where it is.
LEMMA SetMakerQtyKeepsBookInv ==
    ASSUME BookAssumption, Inv, Matching, NEW n \in Nat \ {0}, SetMakerQty(n)
    PROVE  BookInv' /\ index' = index
<1> DEFINE s == Opposite(taker.side)
           p == Best(s)
<1>1. s \in Sides /\ p \in Prices /\ 1 \in DOMAIN book[s][p]
  BY MakerFacts
<1>2. book' = SetQueue(s, p, [book[s][p] EXCEPT ![1].qty = n]) /\ index' = index
  BY <1>1 DEF SetMakerQty, SetQueue, Inv, TypeOK, BookTypes
<1>3. BookInv
  BY DEF Inv, TypeOK, IndexAgrees, BookInv
<1> HIDE DEF s, p
<1> QED
  BY <1>1, <1>2, <1>3, AmendKeepsBookInv

-----------------------------------------------------------------------------
(* Invariance. *)

\* A new order that passes every validation has well-typed fields.
LEMMA AcceptedCommand ==
    ASSUME BookAssumption, NEW c \in AddCommand, AddReason(c) = "None"
    PROVE  /\ c.id \in OrderIds /\ c.id \notin DOMAIN index
           /\ c.owner \in Owners /\ c.side \in Sides
           /\ c.qty \in Nat \ {0} /\ c.tif \in {"Day", "Ioc", "Fok"}
           /\ EffectiveStp(c.stp) \in Stps
           /\ Limit(c) \in Prices
           /\ (IF Market(c) THEN 0 ELSE c.price) \in Prices \cup {0}
<1>1. c.id # NoId /\ c.qty # 0 /\ (Market(c) \/ c.price \in Prices) /\ c.id \notin DOMAIN index
  BY DEF AddReason
<1>2. c \in LimitCommand \cup MarketCommand
  <2>1. CASE c \in OddCommand
    <3>1. IllFormed(c) /\ ~Market(c)
      BY <2>1 DEF OddCommand, NewOrder, Market
    <3> QED
      BY <1>1, <3>1 DEF IllFormed
  <2> QED
    BY <2>1 DEF AddCommand
<1>3. PICK id \in OrderIds, w \in Owners, side \in Sides, n \in 1 .. MaxQty, v \in Varieties,
           t \in {"Limit", "Market"}, p \in Prices \cup {0} :
         c = NewOrder(id, w, side, t, p, n, v)
  BY <1>2 DEF LimitCommand, MarketCommand
<1>4. /\ c.id = id /\ c.owner = w /\ c.side = side /\ c.qty = n
      /\ c.tif = v.tif /\ c.stp = v.stp /\ c.price = p
  BY <1>3 DEF NewOrder
<1>5. v.tif \in {"Day", "Ioc", "Fok"} /\ v.stp \in Stps
  BY DEF BookAssumption
<1>6. n \in Nat \ {0}
  BY DEF BookAssumption
<1>7. Limit(c) \in Prices
  BY <1>1 DEF Limit, Prices, BookAssumption
<1>8. EffectiveStp(c.stp) \in Stps
  BY <1>4, <1>5 DEF EffectiveStp, BookAssumption
<1> QED
  BY <1>1, <1>4, <1>5, <1>6, <1>7, <1>8

\* What the invariant says of the taker is kept when the book keeps its part,
\* no order is added to the index and the taker only loses quantity or stops.
LEMMA SweepStepKeepsInv ==
    ASSUME Inv, pc = "sweep", BookInv', DOMAIN index' \subseteq DOMAIN index, pc' = pc,
           \/ taker' = [taker EXCEPT !.stop = TRUE]
           \/ \E n \in Nat : taker' = [taker EXCEPT !.qty = n]
    PROVE  Inv'
<1>1. taker \in Takers /\ taker.id \notin DOMAIN index
  BY DEF Inv, TypeOK, TakerTypes, IndexAgrees
<1>2. taker' \in Takers /\ taker'.id = taker.id
  BY <1>1 DEF Takers
<1> QED
  BY <1>1, <1>2 DEF Inv, TypeOK, TakerTypes, IndexAgrees, BookInv

\* The book that the constructor leaves (reference_book.hpp:25-30) satisfies the
\* inductive invariant.
THEOREM InitInv == BookAssumption /\ Init => Inv
<1> SUFFICES ASSUME BookAssumption, Init PROVE Inv
  OBVIOUS
<1>1. \A s \in Sides, p \in Prices : book[s][p] = <<>>
  BY DEF Init
<1>2. BookTypes
  BY DEF Init, BookTypes
<1>3. QueuedIsIndexed /\ IndexedIsQueued /\ Uncrossed
  BY <1>1 DEF Init, QueuedIsIndexed, IndexedIsQueued, Uncrossed, Sides
<1> QED
  BY <1>2, <1>3 DEF Init, Inv, TypeOK, TakerTypes, IndexAgrees

\* Every handler, and every iteration of match_side, preserves the inductive
\* invariant.
THEOREM NextInv == BookAssumption /\ Inv /\ [Next]_vars => Inv'
<1> SUFFICES ASSUME BookAssumption, Inv, [Next]_vars PROVE Inv'
  OBVIOUS
<1>1. BookInv
  BY DEF Inv, TypeOK, IndexAgrees, BookInv
<1>2. ASSUME NEW c \in AddCommand, Add(c) PROVE Inv'
  <2>1. CASE UNCHANGED <<book, index, taker, pc>>
    BY <2>1 DEF Inv, TypeOK, BookTypes, TakerTypes, IndexAgrees, QueuedIsIndexed,
                IndexedIsQueued, Uncrossed, Levels
  <2>2. CASE AddReason(c) = "None" /\ pc' = "sweep" /\ Accept(c) /\ pc = "idle"
    <3>1. book' = book /\ index' = index
      BY <2>2 DEF Accept
    <3>2. taker' = [id |-> c.id, owner |-> c.owner, side |-> c.side,
                    limit |-> Limit(c), qty |-> c.qty, stp |-> EffectiveStp(c.stp),
                    stop |-> FALSE, px |-> IF Market(c) THEN 0 ELSE c.price, tif |-> c.tif,
                    rests |-> ~Market(c) /\ c.tif = "Day"]
      BY <2>2 DEF Accept
    <3>3. taker' \in Takers /\ taker'.id = c.id /\ c.id \notin DOMAIN index
      <4>1. (~Market(c) /\ c.tif = "Day") \in BOOLEAN
        OBVIOUS
      <4> QED
        BY <2>2, <3>2, <4>1, AcceptedCommand DEF Takers
    <3> QED
      BY <2>2, <3>1, <3>3, <1>1 DEF Inv, TypeOK, BookTypes, TakerTypes, IndexAgrees,
         QueuedIsIndexed, IndexedIsQueued, Uncrossed, BookInv
  <2> QED
    BY <1>2, <2>1, <2>2 DEF Add, Reject, Accept
<1>3. ASSUME NEW c \in CancelCommand, Cancel(c) PROVE Inv'
  <2>1. CASE UNCHANGED <<book, index, taker, pc>>
    BY <2>1 DEF Inv, TypeOK, BookTypes, TakerTypes, IndexAgrees, QueuedIsIndexed,
                IndexedIsQueued, Uncrossed
  <2>2. CASE c.id \in DOMAIN index /\ Remove(c.id) /\ UNCHANGED <<taker, pc>> /\ pc = "idle"
    <3>1. BookInv'
      BY <1>1, <2>2, RemoveKeepsBookInv
    <3> QED
      BY <2>2, <3>1 DEF Inv, TypeOK, TakerTypes, IndexAgrees, BookInv
  <2> QED
    BY <1>3, <2>1, <2>2 DEF Cancel, Reject
<1>4. ASSUME NEW c \in ModifyCommand, Modify(c) PROVE Inv'
  <2> DEFINE loc == index[c.id]
             q == book[loc.side][loc.price]
             k == Position(q, c.id)
  <2>1. CASE UNCHANGED <<book, index, taker, pc>>
    BY <2>1 DEF Inv, TypeOK, BookTypes, TakerTypes, IndexAgrees, QueuedIsIndexed,
                IndexedIsQueued, Uncrossed
  <2>2. CASE ModifyReason(c) = "None" /\ pc = "idle" /\ (Amend(c, loc, q, k) \/ Reenter(c, loc, q, k))
    <3>1. /\ c.id \in DOMAIN index /\ c.price \in Prices /\ c.qty # 0
          /\ c.id \in OrderIds /\ c.qty \in Nat \ {0}
      BY <2>2 DEF ModifyReason, ModifyCommand, InputIds, Inv, TypeOK, BookTypes, BookAssumption
    <3>2. /\ loc.side \in Sides /\ loc.price \in Prices /\ q \in Seq(Order)
          /\ k \in DOMAIN q /\ q[k] \in Order
      <4>1. loc.side \in Sides /\ loc.price \in Prices
        BY <3>1 DEF Inv, TypeOK, BookTypes, Loc
      <4>2. q \in Seq(Order)
        BY <4>1 DEF Inv, TypeOK, BookTypes
      <4>3. k \in DOMAIN q
        BY <1>1, <3>1 DEF BookInv, IndexedIsQueued, Position
      <4> QED
        BY <4>1, <4>2, <4>3
    <3>3. CASE Amend(c, loc, q, k)
      <4>1. /\ book' = SetQueue(loc.side, loc.price, [q EXCEPT ![k].qty = c.qty])
            /\ index' = index /\ taker' = taker /\ pc' = pc
        BY <3>3 DEF Amend
      <4> HIDE DEF loc, k
      <4>2. BookInv'
        BY <1>1, <3>1, <3>2, <4>1, AmendKeepsBookInv
      <4> QED
        BY <2>2, <4>1, <4>2 DEF Inv, TypeOK, TakerTypes, IndexAgrees, BookInv
    <3>4. CASE Reenter(c, loc, q, k)
      <4>1. BookInv' /\ DOMAIN index' = DOMAIN index \ {c.id}
        BY <1>1, <3>1, <3>4, RemoveKeepsBookInv DEF Reenter
      <4>2. taker' \in Takers /\ taker'.id = c.id /\ pc' = "sweep"
        <5>1. q[k].owner \in Owners
          BY <3>2 DEF Order
        <5> HIDE DEF q, k, loc
        <5> QED
          BY <3>1, <3>2, <3>4, <5>1 DEF Reenter, Takers, BookAssumption
      <4> QED
        BY <4>1, <4>2 DEF Inv, TypeOK, TakerTypes, IndexAgrees, BookInv
    <3> QED
      BY <2>2, <3>3, <3>4
  <2> QED
    BY <1>4, <2>1, <2>2 DEF Modify, Reject
<1>5. CASE MatchStop
  <2>1. BookInv'
    BY <1>1, <1>5 DEF MatchStop, BookInv, BookTypes, QueuedIsIndexed, IndexedIsQueued, Uncrossed
  <2> QED
    BY <1>5, <2>1, SweepStepKeepsInv DEF MatchStop, Matching
<1>6. CASE MatchDecrementMaker
  <2>1. Matching /\ SetMakerQty(Maker.qty - taker.qty) /\ pc' = pc
        /\ taker' = [taker EXCEPT !.stop = TRUE] /\ Maker.qty > taker.qty
    BY <1>6 DEF MatchDecrementMaker
  <2>2. Maker.qty - taker.qty \in Nat \ {0}
    BY <2>1, MakerFacts DEF Order, Takers
  <2>3. BookInv' /\ index' = index
    BY <2>1, <2>2, SetMakerQtyKeepsBookInv
  <2> QED
    BY <2>1, <2>3, SweepStepKeepsInv DEF Matching
<1>7. CASE MatchCancelMaker
  <2>1. Matching /\ PopMaker /\ pc' = pc
    BY <1>7 DEF MatchCancelMaker
  <2>2. \/ taker' = [taker EXCEPT !.stop = TRUE]
        \/ \E n \in Nat : taker' = [taker EXCEPT !.qty = n]
    <3>1. taker \in Takers /\ Maker.qty \in Nat /\ taker.qty \in Nat
      BY <2>1, MakerFacts DEF Order, Takers
    <3>2. CASE taker' = taker
      <4>1. taker' = [taker EXCEPT !.qty = taker.qty]
        BY <3>1, <3>2 DEF Takers
      <4> QED
        BY <3>1, <4>1
    <3>3. CASE taker.qty - Maker.qty > 0 /\ taker' = [taker EXCEPT !.qty = taker.qty - Maker.qty]
      <4>1. taker.qty - Maker.qty \in Nat
        BY <3>1, <3>3
      <4> QED
        BY <3>3, <4>1
    <3> QED
      BY <1>7, <3>2, <3>3 DEF MatchCancelMaker
  <2>3. BookInv' /\ DOMAIN index' \subseteq DOMAIN index
    BY <2>1, PopMakerKeepsBookInv
  <2> QED
    BY <2>1, <2>2, <2>3, SweepStepKeepsInv DEF Matching
<1>8. CASE MatchTrade
  <2> DEFINE fill == IF Maker.qty < taker.qty THEN Maker.qty ELSE taker.qty
  <2>1. /\ Matching /\ pc' = pc /\ taker' = [taker EXCEPT !.qty = @ - fill]
        /\ IF Maker.qty - fill = 0 THEN PopMaker ELSE SetMakerQty(Maker.qty - fill)
    BY <1>8 DEF MatchTrade
  <2>2. Maker.qty \in Nat /\ taker.qty \in Nat /\ taker \in Takers
    BY <2>1, MakerFacts DEF Order, Takers
  <2>3. taker.qty - fill \in Nat /\ Maker.qty - fill \in Nat
    BY <2>2
  <2>4. taker' = [taker EXCEPT !.qty = taker.qty - fill]
    BY <2>1, <2>2 DEF Takers
  <2> HIDE DEF fill
  <2>5. BookInv' /\ DOMAIN index' \subseteq DOMAIN index
    <3>1. CASE Maker.qty - fill = 0
      BY <2>1, <3>1, PopMakerKeepsBookInv
    <3>2. CASE Maker.qty - fill # 0
      BY <2>1, <2>3, <3>2, SetMakerQtyKeepsBookInv
    <3> QED
      BY <3>1, <3>2
  <2> QED
    BY <2>1, <2>3, <2>4, <2>5, SweepStepKeepsInv DEF Matching
<1>9. CASE FinishFilled \/ FinishStopped \/ FinishExpired \/ FinishFull
  <2>1. book' = book /\ index' = index /\ taker' = NoTaker /\ pc' = "idle"
    BY <1>9 DEF FinishFilled, FinishStopped, FinishExpired, FinishFull, Drop, Finish
  <2>2. BookInv'
    BY <1>1, <2>1 DEF BookInv, BookTypes, QueuedIsIndexed, IndexedIsQueued, Uncrossed
  <2> QED
    BY <2>1, <2>2 DEF BookInv, Inv, TypeOK, TakerTypes, IndexAgrees
<1>10. CASE FinishRest
  <2> DEFINE o == [id |-> taker.id, qty |-> taker.qty, owner |-> taker.owner]
  <2>1. /\ pc = "sweep" /\ taker \in Takers /\ taker.qty > 0 /\ taker.id \notin DOMAIN index
        /\ ~Crosses(taker.side, taker.limit)
    BY <1>10 DEF FinishRest, Finish, Remainder, Matching, Inv, TypeOK, TakerTypes, IndexAgrees
  <2>2. o \in Order /\ o.id = taker.id /\ taker.side \in Sides /\ taker.limit \in Prices
    BY <2>1 DEF Takers, Order
  <2>3. /\ book' = [book EXCEPT ![taker.side][taker.limit] = Append(@, o)]
        /\ index' = [i \in DOMAIN index \cup {o.id} |->
                       IF i = o.id THEN [side |-> taker.side, price |-> taker.limit] ELSE index[i]]
        /\ taker' = NoTaker /\ pc' = "idle"
    BY <1>10 DEF FinishRest, Finish
  <2> HIDE DEF o
  <2>4. BookInv'
    BY <1>1, <2>1, <2>2, <2>3, AppendKeepsBookInv
  <2> QED
    BY <2>3, <2>4 DEF Inv, TypeOK, TakerTypes, IndexAgrees, BookInv
<1>11. CASE UNCHANGED vars
  BY <1>11 DEF vars, Inv, TypeOK, BookTypes, TakerTypes, IndexAgrees, QueuedIsIndexed,
     IndexedIsQueued, Uncrossed
<1> QED
  BY <1>2, <1>3, <1>4, <1>5, <1>6, <1>7, <1>8, <1>9, <1>10, <1>11
     DEF Next, Match, FinishMatch

\* Every state of reference_book.hpp, inside and between its handlers, is well
\* typed, its index and its queues agree, and it is not crossed: what
\* check_invariants tests, for every price band, capacity and set of orders.
THEOREM BookCorrect == Spec => [](TypeOK /\ IndexAgrees /\ Uncrossed)
<1>1. Init => Inv
  BY InitInv, BookAssumption
<1>2. Inv /\ [Next]_vars => Inv'
  BY NextInv, BookAssumption
<1>3. Inv => TypeOK /\ IndexAgrees /\ Uncrossed
  BY DEF Inv
<1> QED
  BY <1>1, <1>2, <1>3, PTL DEF Spec

\* index_ and the queues describe the same orders, in every state of a handler.
THEOREM IndexMatchesQueues == Spec => []IndexAgrees
BY BookCorrect, PTL

-----------------------------------------------------------------------------
(* Time priority. *)

\* No two orders of a queue have the same id.
UniqueIds(q) == \A i, j \in DOMAIN q : q[i].id = q[j].id => i = j

\* What QueueDiscipline says of one queue.
KeepsPriority(old, new) ==
    \A i, j \in DOMAIN old : \A m, n \in DOMAIN new :
       (old[i].id = new[m].id /\ old[j].id = new[n].id) =>
          /\ (i < j <=> m < n)
          /\ new[m].qty =< old[i].qty

\* A queue that does not change keeps priority.
LEMMA SameQueueKeepsPriority ==
    ASSUME NEW q \in Seq(Order), UniqueIds(q)
    PROVE  KeepsPriority(q, q)
<1> SUFFICES ASSUME NEW i \in DOMAIN q, NEW j \in DOMAIN q, NEW m \in DOMAIN q, NEW n \in DOMAIN q,
                    q[i].id = q[m].id, q[j].id = q[n].id
             PROVE  (i < j <=> m < n) /\ q[m].qty =< q[i].qty
  BY DEF KeepsPriority
<1>1. i = m /\ j = n
  BY DEF UniqueIds
<1>2. q[i].qty \in Nat
  <2>1. q[i] \in Order
    OBVIOUS
  <2> QED
    BY <2>1 DEF Order
<1> QED
  BY <1>1, <1>2

\* So does one that an order leaves,
LEMMA RemovalKeepsPriority ==
    ASSUME NEW q \in Seq(Order), UniqueIds(q), NEW k \in DOMAIN q
    PROVE  KeepsPriority(q, RemoveAt(q, k))
<1> DEFINE r == RemoveAt(q, k)
           f(x) == IF x < k THEN x ELSE x + 1
<1> SUFFICES ASSUME NEW i \in DOMAIN q, NEW j \in DOMAIN q, NEW m \in DOMAIN r, NEW n \in DOMAIN r,
                    q[i].id = r[m].id, q[j].id = r[n].id
             PROVE  (i < j <=> m < n) /\ r[m].qty =< q[i].qty
  BY DEF KeepsPriority
<1>1. k \in 1 .. Len(q) /\ Len(q) \in Nat /\ DOMAIN q = 1 .. Len(q)
  OBVIOUS
<1>2. /\ DOMAIN r = 1 .. Len(q) - 1
      /\ \A x \in 1 .. Len(q) - 1 : r[x] = IF x < k THEN q[x] ELSE q[x + 1]
  BY <1>1, RemoveAtFacts
<1>3. m \in 1 .. Len(q) - 1 /\ n \in 1 .. Len(q) - 1
  BY <1>2
<1>4. f(m) \in DOMAIN q /\ f(n) \in DOMAIN q
  BY <1>1, <1>3
<1>5. r[m] = q[f(m)] /\ r[n] = q[f(n)]
  BY <1>2, <1>3
<1>6. i = f(m) /\ j = f(n)
  <2> HIDE DEF f, r
  <2> QED
    BY <1>4, <1>5 DEF UniqueIds
<1>7. i < j <=> m < n
  BY <1>1, <1>3, <1>6
<1>8. q[i].qty \in Nat
  <2>1. q[i] \in Order
    OBVIOUS
  <2> QED
    BY <2>1 DEF Order
<1> HIDE DEF r, f
<1> QED
  BY <1>5, <1>6, <1>7, <1>8

\* one in which an order shrinks,
LEMMA AmendKeepsPriority ==
    ASSUME NEW q \in Seq(Order), UniqueIds(q), NEW k \in DOMAIN q, NEW x \in Nat, x =< q[k].qty
    PROVE  KeepsPriority(q, [q EXCEPT ![k].qty = x])
<1> DEFINE r == [q EXCEPT ![k].qty = x]
<1> SUFFICES ASSUME NEW i \in DOMAIN q, NEW j \in DOMAIN q, NEW m \in DOMAIN r, NEW n \in DOMAIN r,
                    q[i].id = r[m].id, q[j].id = r[n].id
             PROVE  (i < j <=> m < n) /\ r[m].qty =< q[i].qty
  BY DEF KeepsPriority
<1>1. q[k] \in Order /\ q[i] \in Order
  OBVIOUS
<1>2. DOMAIN r = DOMAIN q
  OBVIOUS
<1>3. \A y \in DOMAIN q : r[y] = IF y = k THEN [q[k] EXCEPT !.qty = x] ELSE q[y]
  OBVIOUS
<1>4. [q[k] EXCEPT !.qty = x].id = q[k].id /\ [q[k] EXCEPT !.qty = x].qty = x
  BY <1>1 DEF Order
<1> HIDE DEF r
<1>5. r[m].id = q[m].id /\ r[n].id = q[n].id
  BY <1>2, <1>3, <1>4
<1>6. i = m /\ j = n
  BY <1>2, <1>5 DEF UniqueIds
<1>7. r[m].qty = q[i].qty \/ (m = k /\ r[m].qty = x)
  BY <1>2, <1>3, <1>4, <1>6
<1>8. q[i].qty \in Nat
  BY <1>1 DEF Order
<1> QED
  BY <1>6, <1>7, <1>8

\* and one that a new order joins at the back.
LEMMA AppendKeepsPriority ==
    ASSUME NEW q \in Seq(Order), UniqueIds(q), NEW o \in Order,
           \A i \in DOMAIN q : q[i].id # o.id
    PROVE  KeepsPriority(q, Append(q, o))
<1> DEFINE r == Append(q, o)
<1> SUFFICES ASSUME NEW i \in DOMAIN q, NEW j \in DOMAIN q, NEW m \in DOMAIN r, NEW n \in DOMAIN r,
                    q[i].id = r[m].id, q[j].id = r[n].id
             PROVE  (i < j <=> m < n) /\ r[m].qty =< q[i].qty
  BY DEF KeepsPriority
<1>1. Len(q) \in Nat /\ DOMAIN q = 1 .. Len(q) /\ DOMAIN r = 1 .. Len(q) + 1
      /\ r[Len(q) + 1] = o /\ \A x \in 1 .. Len(q) : r[x] = q[x]
  OBVIOUS
<1> HIDE DEF r
<1>2. m # Len(q) + 1 /\ n # Len(q) + 1
  BY <1>1
<1>3. m \in DOMAIN q /\ n \in DOMAIN q /\ r[m] = q[m] /\ r[n] = q[n]
  BY <1>1, <1>2
<1>4. i = m /\ j = n
  BY <1>3 DEF UniqueIds
<1>5. q[i].qty \in Nat
  <2>1. q[i] \in Order
    OBVIOUS
  <2> QED
    BY <2>1 DEF Order
<1> QED
  BY <1>3, <1>4, <1>5

\* Under the invariant, replacing one queue by one that keeps priority keeps
\* priority everywhere.
LEMMA OneQueueKeepsPriority ==
    ASSUME BookInv, NEW s \in Sides, NEW p \in Prices, NEW r,
           book' = [book EXCEPT ![s][p] = r],
           UniqueIds(book[s][p]) => KeepsPriority(book[s][p], r)
    PROVE  \A s2 \in Sides, p2 \in Prices : KeepsPriority(book[s2][p2], book'[s2][p2])
<1> TAKE s2 \in Sides, p2 \in Prices
<1>1. UniqueIds(book[s2][p2])
  BY DEF BookInv, QueuedIsIndexed, UniqueIds
<1>2. CASE s2 = s /\ p2 = p
  BY <1>1, <1>2 DEF BookInv, BookTypes
<1>3. CASE s2 # s \/ p2 # p
  <2>1. book'[s2][p2] = book[s2][p2] /\ book[s2][p2] \in Seq(Order)
    BY <1>3 DEF BookInv, BookTypes
  <2> QED
    BY <1>1, <2>1, SameQueueKeepsPriority
<1> QED
  BY <1>2, <1>3

\* An order that a handler removes from the middle of its queue.
LEMMA RemoveKeepsPriority ==
    ASSUME BookInv, NEW id \in DOMAIN index, Remove(id)
    PROVE  \A s \in Sides, p \in Prices : KeepsPriority(book[s][p], book'[s][p])
<1> DEFINE s == index[id].side
           p == index[id].price
           q == book[s][p]
           k == Position(q, id)
<1>1. s \in Sides /\ p \in Prices
  BY DEF BookInv, BookTypes, Loc
<1>2. k \in DOMAIN q /\ q \in Seq(Order)
  BY <1>1 DEF BookInv, BookTypes, IndexedIsQueued, Position
<1>3. book' = [book EXCEPT ![s][p] = RemoveAt(q, k)]
  BY DEF Remove, SetQueue
<1> HIDE DEF k
<1>4. UniqueIds(q) => KeepsPriority(q, RemoveAt(q, k))
  BY <1>2, RemovalKeepsPriority
<1> HIDE DEF s, p
<1> QED
  BY <1>1, <1>3, <1>4, OneQueueKeepsPriority

\* A maker that leaves the front of its queue.
LEMMA PopMakerKeepsPriority ==
    ASSUME BookAssumption, Inv, Matching, PopMaker
    PROVE  \A s \in Sides, p \in Prices : KeepsPriority(book[s][p], book'[s][p])
<1> DEFINE s == Opposite(taker.side)
           p == Best(s)
           q == book[s][p]
<1>1. s \in Sides /\ p \in Prices /\ q \in Seq(Order) /\ q # <<>>
  BY MakerFacts
<1>2. book' = [book EXCEPT ![s][p] = Tail(q)] /\ BookInv
  BY DEF PopMaker, SetQueue, Inv, TypeOK, IndexAgrees, BookInv
<1>3. ASSUME UniqueIds(q) PROVE KeepsPriority(q, Tail(q))
  <2> HIDE DEF q
  <2> DEFINE r == Tail(q)
  <2>1. Len(q) \in Nat \ {0} /\ DOMAIN q = 1 .. Len(q) /\ DOMAIN r = 1 .. Len(q) - 1
        /\ \A x \in 1 .. Len(q) - 1 : r[x] = q[x + 1]
    BY <1>1, TailFacts
  <2> HIDE DEF r
  <2> SUFFICES ASSUME NEW i \in DOMAIN q, NEW j \in DOMAIN q,
                      NEW m \in DOMAIN r, NEW n \in DOMAIN r,
                      q[i].id = r[m].id, q[j].id = r[n].id
               PROVE  (i < j <=> m < n) /\ r[m].qty =< q[i].qty
    BY DEF KeepsPriority, r
  <2>2. m + 1 \in DOMAIN q /\ n + 1 \in DOMAIN q /\ r[m] = q[m + 1] /\ r[n] = q[n + 1]
    BY <2>1
  <2>3. i = m + 1 /\ j = n + 1
    BY <1>3, <2>2 DEF UniqueIds
  <2>4. q[i].qty \in Nat
    <3>1. q[i] \in Order
      BY <1>1
    <3> QED
      BY <3>1 DEF Order
  <2> QED
    BY <2>1, <2>2, <2>3, <2>4
<1> HIDE DEF s, p
<1> QED
  BY <1>1, <1>2, <1>3, OneQueueKeepsPriority

\* A maker that shrinks at the front of its queue.
LEMMA SetMakerQtyKeepsPriority ==
    ASSUME BookAssumption, Inv, Matching, NEW n \in Nat, n =< Maker.qty, SetMakerQty(n)
    PROVE  \A s \in Sides, p \in Prices : KeepsPriority(book[s][p], book'[s][p])
<1> DEFINE s == Opposite(taker.side)
           p == Best(s)
           q == book[s][p]
<1>1. s \in Sides /\ p \in Prices /\ q \in Seq(Order) /\ 1 \in DOMAIN q /\ n =< q[1].qty
  BY MakerFacts
<1>2. book' = [book EXCEPT ![s][p] = [q EXCEPT ![1].qty = n]] /\ BookInv
  BY <1>1 DEF SetMakerQty, Inv, TypeOK, IndexAgrees, BookTypes, BookInv
<1>3. UniqueIds(q) => KeepsPriority(q, [q EXCEPT ![1].qty = n])
  <2> HIDE DEF q
  <2> QED
    BY <1>1, AmendKeepsPriority
<1> HIDE DEF s, p
<1> QED
  BY <1>1, <1>2, <1>3, OneQueueKeepsPriority

\* Every handler and every iteration of the match loop keeps time priority.
LEMMA StepKeepsPriority ==
    ASSUME BookAssumption, Inv, [Next]_vars
    PROVE  \A s \in Sides, p \in Prices : KeepsPriority(book[s][p], book'[s][p])
<1> DEFINE Goal == \A s \in Sides, p \in Prices : KeepsPriority(book[s][p], book'[s][p])
<1>1. BookInv
  BY DEF Inv, TypeOK, IndexAgrees, BookInv
<1>2. ASSUME book' = book PROVE Goal
  <2> TAKE s \in Sides, p \in Prices
  <2>1. UniqueIds(book[s][p])
    BY <1>1 DEF BookInv, QueuedIsIndexed, UniqueIds
  <2>2. book[s][p] \in Seq(Order)
    BY <1>1 DEF BookInv, BookTypes
  <2> QED
    BY <1>2, <2>1, <2>2, SameQueueKeepsPriority
<1>3. ASSUME NEW c \in CancelCommand, Cancel(c) PROVE Goal
  <2>1. CASE book' = book
    BY <1>2, <2>1
  <2>2. CASE c.id \in DOMAIN index /\ Remove(c.id)
    BY <1>1, <2>2, RemoveKeepsPriority
  <2> QED
    BY <1>3, <2>1, <2>2 DEF Cancel, Reject
<1>4. ASSUME NEW c \in ModifyCommand, Modify(c) PROVE Goal
  <2> DEFINE loc == index[c.id]
             q == book[loc.side][loc.price]
             k == Position(q, c.id)
  <2>1. CASE book' = book
    BY <1>2, <2>1
  <2>2. CASE c.id \in DOMAIN index /\ c.qty =< q[k].qty /\ Amend(c, loc, q, k)
    <3>1. loc.side \in Sides /\ loc.price \in Prices /\ q \in Seq(Order)
      BY <1>1, <2>2 DEF BookInv, BookTypes, Loc
    <3>2. k \in DOMAIN q
      BY <1>1, <2>2 DEF BookInv, IndexedIsQueued, Position
    <3>3. book' = [book EXCEPT ![loc.side][loc.price] = [q EXCEPT ![k].qty = c.qty]]
      BY <2>2 DEF Amend, SetQueue
    <3>4. c.qty \in Nat /\ c.qty =< q[k].qty
      BY <2>2 DEF ModifyCommand, BookAssumption
    <3> HIDE DEF k
    <3>5. UniqueIds(q) => KeepsPriority(q, [q EXCEPT ![k].qty = c.qty])
      BY <3>1, <3>2, <3>4, AmendKeepsPriority
    <3> HIDE DEF loc
    <3> QED
      BY <1>1, <3>1, <3>3, <3>5, OneQueueKeepsPriority
  <2>3. CASE c.id \in DOMAIN index /\ Reenter(c, loc, q, k)
    BY <1>1, <2>3, RemoveKeepsPriority DEF Reenter
  <2> QED
    BY <1>4, <2>1, <2>2, <2>3 DEF Modify, Reject, ModifyReason
<1>5. CASE MatchDecrementMaker
  <2>1. Matching /\ SetMakerQty(Maker.qty - taker.qty) /\ Maker.qty > taker.qty
    BY <1>5 DEF MatchDecrementMaker
  <2>2. Maker.qty - taker.qty \in Nat /\ Maker.qty - taker.qty =< Maker.qty
    BY <2>1, MakerFacts DEF Order, Takers
  <2> QED
    BY <2>1, <2>2, SetMakerQtyKeepsPriority
<1>6. CASE MatchCancelMaker
  BY <1>6, PopMakerKeepsPriority DEF MatchCancelMaker
<1>7. CASE MatchTrade
  <2> DEFINE fill == IF Maker.qty < taker.qty THEN Maker.qty ELSE taker.qty
  <2>1. /\ Matching
        /\ IF Maker.qty - fill = 0 THEN PopMaker ELSE SetMakerQty(Maker.qty - fill)
    BY <1>7 DEF MatchTrade
  <2>2. Maker.qty \in Nat /\ taker.qty \in Nat
    BY <2>1, MakerFacts DEF Order, Takers
  <2>3. Maker.qty - fill \in Nat /\ Maker.qty - fill =< Maker.qty
    BY <2>2
  <2> HIDE DEF fill
  <2> QED
    BY <2>1, <2>3, PopMakerKeepsPriority, SetMakerQtyKeepsPriority
<1>8. CASE FinishRest
  <2> DEFINE o == [id |-> taker.id, qty |-> taker.qty, owner |-> taker.owner]
             s == taker.side
             p == taker.limit
  <2>1. taker \in Takers /\ taker.qty > 0 /\ taker.id \notin DOMAIN index
    BY <1>8 DEF FinishRest, Finish, Remainder, Inv, TypeOK, TakerTypes, IndexAgrees
  <2>2. o \in Order /\ o.id = taker.id /\ s \in Sides /\ p \in Prices
    BY <2>1 DEF Takers, Order
  <2>3. book' = [book EXCEPT ![s][p] = Append(book[s][p], o)]
    BY <1>8 DEF FinishRest
  <2> HIDE DEF o, s, p
  <2>4. book[s][p] \in Seq(Order) /\ \A i \in DOMAIN book[s][p] : book[s][p][i].id # o.id
    <3>1. book[s][p] \in Seq(Order)
      BY <1>1, <2>2 DEF BookInv, BookTypes
    <3>2. \A i \in DOMAIN book[s][p] : book[s][p][i].id \in DOMAIN index
      BY <1>1, <2>2 DEF BookInv, QueuedIsIndexed
    <3> QED
      BY <2>1, <2>2, <3>1, <3>2
  <2>5. UniqueIds(book[s][p]) => KeepsPriority(book[s][p], Append(book[s][p], o))
    BY <2>2, <2>4, AppendKeepsPriority
  <2> QED
    BY <1>1, <2>2, <2>3, <2>5, OneQueueKeepsPriority
<1>9. ASSUME NEW c \in AddCommand, Add(c) PROVE book' = book
  BY <1>9 DEF Add, Reject, Accept
<1>10. CASE MatchStop \/ FinishFilled \/ FinishStopped \/ FinishExpired \/ FinishFull
  <2>1. book' = book
    BY <1>10 DEF MatchStop, FinishFilled, FinishStopped, FinishExpired, FinishFull, Drop
  <2> QED
    BY <1>2, <2>1
<1>11. CASE UNCHANGED vars
  BY <1>2, <1>11 DEF vars
<1> QED
  BY <1>2, <1>3, <1>4, <1>5, <1>6, <1>7, <1>8, <1>9, <1>10, <1>11 DEF Next, Match, FinishMatch

\* Price-time priority holds at every step of every handler: the orders that
\* stay in a queue keep their order and never grow there (reference_book.hpp,
\* modify and match_side).
THEOREM TimePriority == Spec => QueueDiscipline
<1>1. Init => Inv
  BY InitInv, BookAssumption
<1>2. Inv /\ [Next]_vars => Inv'
  BY NextInv, BookAssumption
<1>3. Inv /\ [Next]_vars =>
        [\A s \in Sides, p \in Prices :
           LET old == book[s][p]
               new == book'[s][p]
           IN  \A i, j \in DOMAIN old : \A m, n \in DOMAIN new :
                 (old[i].id = new[m].id /\ old[j].id = new[n].id) =>
                    /\ (i < j <=> m < n)
                    /\ new[m].qty =< old[i].qty]_vars
  BY StepKeepsPriority, BookAssumption DEF KeepsPriority
<1> QED
  BY <1>1, <1>2, <1>3, PTL DEF Spec, QueueDiscipline

-----------------------------------------------------------------------------
(* Fill or kill.  The scan of fillable runs ahead of the match loop: each   *)
(* maker the loop takes away is the order the scan met first.              *)

Scans == [need : Int, answer : {"open", "yes", "no"}]

\* The scan of a queue, order by order.
IsScan(g, q, owner, stp, start) ==
    /\ g \in [0 .. Len(q) -> Scans]
    /\ g[0] = start
    /\ \A k \in 1 .. Len(q) : g[k] = ScanOrder(g[k - 1], q[k], owner, stp)

\* One order: the scan keeps its type, and an answer once given.
LEMMA ScanOrderFacts ==
    ASSUME NEW s \in Scans, NEW o \in Order, NEW owner, NEW stp \in Stps
    PROVE  /\ ScanOrder(s, o, owner, stp) \in Scans
           /\ s.answer # "open" => ScanOrder(s, o, owner, stp) = s
<1>1. o.qty \in Int /\ s.need \in Int
  BY DEF Order, Scans
<1>2. CASE s.answer # "open"
  BY <1>2 DEF ScanOrder
<1>3. CASE s.answer = "open"
  BY <1>1, <1>3 DEF ScanOrder, Scans, Stps
<1> QED
  BY <1>2, <1>3

\* ScanQueue is the last state of the scan.
LEMMA ScanQueueUnfolds ==
    ASSUME NEW q \in Seq(Order), NEW owner, NEW stp \in Stps, NEW start \in Scans
    PROVE  \E g : IsScan(g, q, owner, stp, start) /\ ScanQueue(q, owner, stp, start) = g[Len(q)]
<1> DEFINE N == Len(q)
           F == [k \in 1 .. N |-> [s \in Scans |-> ScanOrder(s, q[k], owner, stp)]]
           Body(g) == [k \in 0 .. N |-> IF k = 0 THEN start ELSE ScanOrder(g[k - 1], q[k], owner, stp)]
           g == CHOOSE f : f = Body(f)
<1>1. N \in Nat /\ \A k \in 1 .. N : q[k] \in Order
  OBVIOUS
<1>2. F \in [1 .. N -> [Scans -> Scans]]
  <2>1. \A k \in 1 .. N : \A s \in Scans : ScanOrder(s, q[k], owner, stp) \in Scans
    BY <1>1, ScanOrderFacts
  <2> QED
    BY <2>1
<1>3. \E f : f = Body(f)
  <2>1. PICK f : IsIteration(f, N, Scans, start, F)
    <3> HIDE DEF F
    <3> QED
      BY <1>1, <1>2, IterationExists
  <2>2. \A k \in 1 .. N : f[k - 1] \in Scans
    BY <1>1, <2>1 DEF IsIteration
  <2>3. \A k \in 1 .. N : f[k] = ScanOrder(f[k - 1], q[k], owner, stp)
    BY <2>1, <2>2 DEF IsIteration
  <2>4. f = [k \in 0 .. N |-> f[k]] /\ f[0] = start
    BY <2>1 DEF IsIteration
  <2>5. f = Body(f)
    BY <1>1, <2>3, <2>4
  <2> QED
    BY <2>5
<1>4. g = Body(g)
  <2> HIDE DEF Body
  <2> QED
    BY <1>3
<1>5. ScanQueue(q, owner, stp, start) = g[N]
  BY DEF ScanQueue
<1> HIDE DEF g
<1>6. g[0] = start /\ \A k \in 1 .. N : g[k] = ScanOrder(g[k - 1], q[k], owner, stp)
  BY <1>1, <1>4
<1>7. \A k \in 0 .. N : g[k] \in Scans
  <2> DEFINE S == {k \in 0 .. N : g[k] \in Scans}
  <2>1. 0 \in S
    BY <1>1, <1>6
  <2>2. \A k \in 0 .. N - 1 : k \in S => k + 1 \in S
    <3> SUFFICES ASSUME NEW k \in 0 .. N - 1, k \in S PROVE k + 1 \in S
      OBVIOUS
    <3>1. k + 1 \in 1 .. N /\ (k + 1) - 1 = k
      BY <1>1
    <3>2. g[k + 1] = ScanOrder(g[k], q[k + 1], owner, stp) /\ q[k + 1] \in Order
      BY <1>1, <1>6, <3>1
    <3> QED
      BY <1>1, <3>1, <3>2, ScanOrderFacts
  <2>3. 0 .. N \subseteq S
    <3> HIDE DEF S
    <3> QED
      BY <1>1, <2>1, <2>2, UpTo
  <2> QED
    BY <2>3
<1>8. IsScan(g, q, owner, stp, start)
  <2>1. g = [k \in 0 .. N |-> g[k]]
    BY <1>4
  <2> QED
    BY <1>6, <1>7, <2>1 DEF IsScan
<1> QED
  BY <1>5, <1>8

\* The scan keeps its type and an answer once given; an empty queue is passed.
LEMMA ScanQueueFacts ==
    ASSUME NEW q \in Seq(Order), NEW owner, NEW stp \in Stps, NEW start \in Scans
    PROVE  /\ ScanQueue(q, owner, stp, start) \in Scans
           /\ start.answer # "open" => ScanQueue(q, owner, stp, start) = start
           /\ q = <<>> => ScanQueue(q, owner, stp, start) = start
<1> DEFINE N == Len(q)
<1>1. PICK g : IsScan(g, q, owner, stp, start) /\ ScanQueue(q, owner, stp, start) = g[N]
  BY ScanQueueUnfolds
<1>2. N \in Nat /\ \A k \in 1 .. N : q[k] \in Order
  OBVIOUS
<1>3. ASSUME start.answer # "open" PROVE g[N] = start
  <2> DEFINE S == {k \in 0 .. N : g[k] = start}
  <2>1. 0 \in S
    BY <1>1, <1>2 DEF IsScan
  <2>2. \A k \in 0 .. N - 1 : k \in S => k + 1 \in S
    <3> SUFFICES ASSUME NEW k \in 0 .. N - 1, k \in S PROVE k + 1 \in S
      OBVIOUS
    <3>1. k + 1 \in 1 .. N /\ (k + 1) - 1 = k
      BY <1>2
    <3>2. g[k + 1] = ScanOrder(start, q[k + 1], owner, stp) /\ q[k + 1] \in Order
      BY <1>1, <1>2, <3>1 DEF IsScan
    <3>3. ScanOrder(start, q[k + 1], owner, stp) = start
      BY <1>3, <3>2, ScanOrderFacts
    <3> QED
      BY <1>2, <3>1, <3>2, <3>3
  <2>3. 0 .. N \subseteq S
    <3> HIDE DEF S
    <3> QED
      BY <1>2, <2>1, <2>2, UpTo
  <2> QED
    BY <1>2, <2>3
<1> QED
  BY <1>1, <1>2, <1>3 DEF IsScan

\* The scan of a queue goes on behind its first order.
LEMMA ScanQueueTail ==
    ASSUME NEW q \in Seq(Order), q # <<>>, NEW owner, NEW stp \in Stps, NEW start \in Scans
    PROVE  ScanQueue(q, owner, stp, start) =
             ScanQueue(Tail(q), owner, stp, ScanOrder(start, q[1], owner, stp))
<1> DEFINE N == Len(q)
           r == Tail(q)
           next == ScanOrder(start, q[1], owner, stp)
<1>1. /\ N \in Nat \ {0} /\ r \in Seq(Order) /\ Len(r) = N - 1
      /\ \A i \in 1 .. N - 1 : r[i] = q[i + 1]
      /\ q[1] \in Order
  BY TailFacts
<1>2. next \in Scans
  BY <1>1, ScanOrderFacts
<1> HIDE DEF r, next
<1>3. PICK g : IsScan(g, q, owner, stp, start) /\ ScanQueue(q, owner, stp, start) = g[N]
  BY ScanQueueUnfolds
<1>4. PICK h : IsScan(h, r, owner, stp, next) /\ ScanQueue(r, owner, stp, next) = h[N - 1]
  BY <1>1, <1>2, ScanQueueUnfolds
<1> DEFINE S == {k \in 0 .. N - 1 : h[k] = g[k + 1]}
<1>5. 0 \in S
  <2>1. h[0] = next /\ 1 \in 1 .. N /\ 1 - 1 = 0 /\ 0 + 1 = 1
    BY <1>1, <1>4 DEF IsScan
  <2>2. g[1] = ScanOrder(g[1 - 1], q[1], owner, stp) /\ g[0] = start
    BY <1>3, <2>1 DEF IsScan
  <2> QED
    BY <1>1, <2>1, <2>2 DEF next
<1>6. \A k \in 0 .. (N - 1) - 1 : k \in S => k + 1 \in S
  <2> SUFFICES ASSUME NEW k \in 0 .. (N - 1) - 1, k \in S PROVE k + 1 \in S
    OBVIOUS
  <2>1. k + 1 \in 1 .. N - 1 /\ (k + 1) + 1 \in 1 .. N /\ (k + 1) - 1 = k /\ ((k + 1) + 1) - 1 = k + 1
    BY <1>1
  <2>2. h[k + 1] = ScanOrder(h[k], r[k + 1], owner, stp)
    BY <1>1, <1>4, <2>1 DEF IsScan
  <2>3. g[(k + 1) + 1] = ScanOrder(g[k + 1], q[(k + 1) + 1], owner, stp)
    BY <1>3, <2>1 DEF IsScan
  <2>4. r[k + 1] = q[(k + 1) + 1]
    BY <1>1, <2>1
  <2> QED
    BY <1>1, <2>1, <2>2, <2>3, <2>4
<1>7. N - 1 \in S
  <2>1. N - 1 \in Nat
    BY <1>1
  <2> HIDE DEF S
  <2>2. 0 .. N - 1 \subseteq S
    BY <1>5, <1>6, <2>1, UpTo
  <2> QED
    BY <2>1, <2>2
<1> QED
  BY <1>1, <1>3, <1>4, <1>7 DEF r, next

\* fillable, of a side of the book that is given as a function of the price.
FillableIn(bk, side, limit, qty, owner, stp) ==
    LET path == PricePath(side, limit)
        Visit[k \in 0 .. Len(path)] ==
          IF k = 0 THEN [need |-> qty, answer |-> "open"]
          ELSE ScanQueue(bk[path[k]], owner, stp, Visit[k - 1])
    IN  Visit[Len(path)].answer = "yes"

\* The scan of the levels of a path, level by level.
IsVisit(g, bk, path, owner, stp, start) ==
    /\ g \in [0 .. Len(path) -> Scans]
    /\ g[0] = start
    /\ \A k \in 1 .. Len(path) : g[k] = ScanQueue(bk[path[k]], owner, stp, g[k - 1])

\* The scan g answers for an order with these fields.
Answers(g, bk, side, limit, qty, owner, stp) ==
    LET path == PricePath(side, limit)
    IN  /\ IsVisit(g, bk, path, owner, stp, [need |-> qty, answer |-> "open"])
        /\ FillableIn(bk, side, limit, qty, owner, stp) <=> g[Len(path)].answer = "yes"

\* The path of an order leads from the best possible price to its limit.
LEMMA PathFacts ==
    ASSUME BookAssumption, NEW side \in Sides, NEW limit \in Prices
    PROVE  /\ PricePath(side, limit) \in Seq(Prices)
           /\ Len(PricePath(side, limit)) \in Nat \ {0}
           /\ \A k \in 1 .. Len(PricePath(side, limit)) :
                /\ PricePath(side, limit)[k] \in Prices
                /\ InRange(side, PricePath(side, limit)[k], limit)
           /\ \A p \in Prices : InRange(side, p, limit) =>
                \E k \in 1 .. Len(PricePath(side, limit)) : PricePath(side, limit)[k] = p
           /\ \A j, k \in 1 .. Len(PricePath(side, limit)) :
                j < k => /\ PricePath(side, limit)[j] # PricePath(side, limit)[k]
                         /\ InRange(side, PricePath(side, limit)[j], PricePath(side, limit)[k])
<1> DEFINE path == PricePath(side, limit)
<1>1. limit \in Int /\ MinPrice \in Int /\ MaxPrice \in Int /\ MinPrice =< limit /\ limit =< MaxPrice
  BY DEF BookAssumption, Prices
<1>2. CASE side = "Buy"
  <2> DEFINE N == limit - MinPrice + 1
  <2>1. path = [i \in 1 .. N |-> MinPrice + i - 1] /\ N \in Nat \ {0}
    BY <1>1, <1>2 DEF PricePath
  <2> HIDE DEF path, N
  <2>2. \A k \in 1 .. N : path[k] = MinPrice + k - 1
    BY <2>1
  <2>3. \A k \in 1 .. N : path[k] \in Prices /\ path[k] =< limit
    BY <1>1, <2>1, <2>2 DEF Prices, N
  <2>4. path \in Seq(Prices) /\ Len(path) = N
    <3>1. path \in [1 .. N -> Prices]
      BY <2>1, <2>3
    <3>2. N \in Nat
      BY <2>1
    <3> QED
      BY <3>1, <3>2
  <2>5. \A p \in Prices : p =< limit => \E k \in 1 .. N : path[k] = p
    <3> SUFFICES ASSUME NEW p \in Prices, p =< limit PROVE \E k \in 1 .. N : path[k] = p
      OBVIOUS
    <3>1. p - MinPrice + 1 \in 1 .. N /\ MinPrice + (p - MinPrice + 1) - 1 = p
      BY <1>1 DEF N, Prices
    <3>2. path[p - MinPrice + 1] = p
      BY <2>2, <3>1
    <3> QED
      BY <3>1, <3>2
  <2>6. \A j, k \in 1 .. N : j < k => path[j] # path[k] /\ path[j] =< path[k]
    BY <1>1, <2>1, <2>2
  <2> QED
    BY <1>2, <2>1, <2>3, <2>4, <2>5, <2>6 DEF InRange, path
<1>3. CASE side = "Sell"
  <2> DEFINE N == MaxPrice - limit + 1
  <2>1. path = [i \in 1 .. N |-> MaxPrice - i + 1] /\ N \in Nat \ {0}
    BY <1>1, <1>3 DEF PricePath
  <2> HIDE DEF path, N
  <2>2. \A k \in 1 .. N : path[k] = MaxPrice - k + 1
    BY <2>1
  <2>3. \A k \in 1 .. N : path[k] \in Prices /\ path[k] >= limit
    BY <1>1, <2>1, <2>2 DEF Prices, N
  <2>4. path \in Seq(Prices) /\ Len(path) = N
    <3>1. path \in [1 .. N -> Prices]
      BY <2>1, <2>3
    <3>2. N \in Nat
      BY <2>1
    <3> QED
      BY <3>1, <3>2
  <2>5. \A p \in Prices : p >= limit => \E k \in 1 .. N : path[k] = p
    <3> SUFFICES ASSUME NEW p \in Prices, p >= limit PROVE \E k \in 1 .. N : path[k] = p
      OBVIOUS
    <3>1. MaxPrice - p + 1 \in 1 .. N /\ MaxPrice - (MaxPrice - p + 1) + 1 = p
      BY <1>1 DEF N, Prices
    <3>2. path[MaxPrice - p + 1] = p
      BY <2>2, <3>1
    <3> QED
      BY <3>1, <3>2
  <2>6. \A j, k \in 1 .. N : j < k => path[j] # path[k] /\ path[j] >= path[k]
    BY <1>1, <2>1, <2>2
  <2> QED
    BY <1>3, <2>1, <2>3, <2>4, <2>5, <2>6 DEF InRange, path
<1> QED
  BY <1>2, <1>3 DEF Sides

\* fillable's answer is that of the scan of the levels on the path.
LEMMA FillableUnfolds ==
    ASSUME BookAssumption, NEW bk \in [Prices -> Seq(Order)], NEW side \in Sides,
           NEW limit \in Prices, NEW qty \in Nat, NEW owner, NEW stp \in Stps
    PROVE  \E g : Answers(g, bk, side, limit, qty, owner, stp)
<1> DEFINE path == PricePath(side, limit)
           N == Len(path)
           start == [need |-> qty, answer |-> "open"]
           F == [k \in 1 .. N |-> [s \in Scans |-> ScanQueue(bk[path[k]], owner, stp, s)]]
           Body(g) == [k \in 0 .. N |->
                         IF k = 0 THEN start ELSE ScanQueue(bk[path[k]], owner, stp, g[k - 1])]
           g == CHOOSE f : f = Body(f)
<1>1. N \in Nat /\ \A k \in 1 .. N : bk[path[k]] \in Seq(Order)
  BY PathFacts
<1>2. start \in Scans
  BY DEF Scans
<1>3. \A k \in 1 .. N : \A s \in Scans : ScanQueue(bk[path[k]], owner, stp, s) \in Scans
  BY <1>1, ScanQueueFacts
<1>4. FillableIn(bk, side, limit, qty, owner, stp) <=> g[N].answer = "yes"
  BY DEF FillableIn
<1> HIDE DEF path, start
<1>5. F \in [1 .. N -> [Scans -> Scans]]
  BY <1>3
<1>6. \E f : f = Body(f)
  <2>1. PICK f : IsIteration(f, N, Scans, start, F)
    <3> HIDE DEF F
    <3> QED
      BY <1>1, <1>2, <1>5, IterationExists
  <2>2. \A k \in 1 .. N : f[k - 1] \in Scans
    BY <1>1, <2>1, SMTT(30) DEF IsIteration
  <2>3. \A k \in 1 .. N : f[k] = ScanQueue(bk[path[k]], owner, stp, f[k - 1])
    BY <2>1, <2>2 DEF IsIteration
  <2>4. f = [k \in 0 .. N |-> f[k]] /\ f[0] = start
    BY <2>1 DEF IsIteration
  <2>5. \A k \in 0 .. N : k = 0 \/ k \in 1 .. N
    BY <1>1
  <2>6. \A k \in 0 .. N :
          f[k] = IF k = 0 THEN start ELSE ScanQueue(bk[path[k]], owner, stp, f[k - 1])
    BY <2>3, <2>4, <2>5
  <2>7. f = Body(f)
    BY <2>4, <2>6
  <2> QED
    BY <2>7
<1>7. g = Body(g)
  <2> HIDE DEF Body
  <2> QED
    BY <1>6
<1> HIDE DEF g
<1>8. g[0] = start /\ \A k \in 1 .. N : g[k] = ScanQueue(bk[path[k]], owner, stp, g[k - 1])
  BY <1>1, <1>7
<1>9. \A k \in 0 .. N : g[k] \in Scans
  <2> DEFINE S == {k \in 0 .. N : g[k] \in Scans}
  <2>1. 0 \in S
    BY <1>1, <1>2, <1>8
  <2>2. \A k \in 0 .. N - 1 : k \in S => k + 1 \in S
    <3> SUFFICES ASSUME NEW k \in 0 .. N - 1, k \in S PROVE k + 1 \in S
      OBVIOUS
    <3>1. k + 1 \in 1 .. N /\ (k + 1) - 1 = k
      BY <1>1
    <3>2. g[k + 1] = ScanQueue(bk[path[k + 1]], owner, stp, g[k])
      BY <1>1, <1>8, <3>1
    <3> QED
      BY <1>1, <1>3, <3>1, <3>2
  <2>3. 0 .. N \subseteq S
    <3> HIDE DEF S
    <3> QED
      BY <1>1, <2>1, <2>2, UpTo
  <2> QED
    BY <2>3
<1>10. IsVisit(g, bk, path, owner, stp, start)
  <2>1. g = [k \in 0 .. N |-> g[k]]
    BY <1>7
  <2> QED
    BY <1>8, <1>9, <2>1 DEF IsVisit
<1> QED
  BY <1>4, <1>10 DEF path, start, Answers

\* With nothing within the limit, nothing can be filled.
LEMMA NothingInRange ==
    ASSUME BookAssumption, NEW bk \in [Prices -> Seq(Order)], NEW side \in Sides,
           NEW limit \in Prices, NEW qty \in Nat, NEW owner, NEW stp \in Stps,
           \A p \in Prices : InRange(side, p, limit) => bk[p] = <<>>
    PROVE  ~FillableIn(bk, side, limit, qty, owner, stp)
<1> DEFINE path == PricePath(side, limit)
           N == Len(path)
           start == [need |-> qty, answer |-> "open"]
<1>1. PICK g : /\ IsVisit(g, bk, path, owner, stp, start)
               /\ FillableIn(bk, side, limit, qty, owner, stp) <=> g[N].answer = "yes"
  BY FillableUnfolds DEF Answers
<1>2. N \in Nat /\ \A k \in 1 .. N : bk[path[k]] = <<>>
  BY PathFacts
<1>3. start \in Scans /\ start.answer = "open"
  BY DEF Scans
<1> HIDE DEF path, start
<1> DEFINE S == {k \in 0 .. N : g[k] = start}
<1>4. 0 \in S
  BY <1>1, <1>2 DEF IsVisit
<1>5. \A k \in 0 .. N - 1 : k \in S => k + 1 \in S
  <2> SUFFICES ASSUME NEW k \in 0 .. N - 1, k \in S PROVE k + 1 \in S
    OBVIOUS
  <2>1. k + 1 \in 1 .. N /\ (k + 1) - 1 = k
    BY <1>2
  <2>2. g[k + 1] = ScanQueue(<<>>, owner, stp, start)
    BY <1>1, <1>2, <2>1 DEF IsVisit
  <2>3. ScanQueue(<<>>, owner, stp, start) = start
    <3>1. <<>> \in Seq(Order)
      OBVIOUS
    <3> QED
      BY <1>3, <3>1, ScanQueueFacts, ZenonT(30)
  <2>4. k + 1 \in 0 .. N
    BY <1>2, <2>1
  <2> QED
    BY <2>2, <2>3, <2>4
<1>6. 0 .. N \subseteq S
  <2> HIDE DEF S
  <2> QED
    BY <1>2, <1>4, <1>5, UpTo
<1> QED
  BY <1>1, <1>2, <1>3, <1>6

\* The first level within the limit that has orders.
IsFirstLevel(bk, side, limit, best) ==
    /\ InRange(side, best, limit)
    /\ bk[best] # <<>>
    /\ \A p \in Prices : bk[p] # <<>> => InRange(side, best, p)

\* The scan meets the front of the first level that has orders.  Its answer to
\* that order is not "no" if the whole can be filled, and as long as the answer
\* is open, the rest can be filled once that order is gone.
LEMMA FillableTail ==
    ASSUME BookAssumption, NEW bk \in [Prices -> Seq(Order)], NEW side \in Sides,
           NEW limit \in Prices, NEW qty \in Nat, NEW owner, NEW stp \in Stps,
           NEW best \in Prices, IsFirstLevel(bk, side, limit, best),
           FillableIn(bk, side, limit, qty, owner, stp)
    PROVE  LET first == ScanOrder([need |-> qty, answer |-> "open"], bk[best][1], owner, stp)
           IN  /\ first.answer # "no"
               /\ \A n \in Nat : first = [need |-> n, answer |-> "open"] =>
                    FillableIn([bk EXCEPT ![best] = Tail(@)], side, limit, n, owner, stp)
<1> DEFINE path == PricePath(side, limit)
           N == Len(path)
           start == [need |-> qty, answer |-> "open"]
           q == bk[best]
           first == ScanOrder(start, q[1], owner, stp)
           bk2 == [bk EXCEPT ![best] = Tail(@)]
<1> HIDE DEF first
<1>0. N \in Nat
  BY PathFacts
<1>1. PICK g : IsVisit(g, bk, path, owner, stp, start) /\ g[N].answer = "yes"
  <2>1. PICK g : Answers(g, bk, side, limit, qty, owner, stp)
    BY FillableUnfolds
  <2> QED
    BY <2>1 DEF Answers
<1>2. /\ path \in Seq(Prices) /\ N \in Nat /\ \A k \in 1 .. N : path[k] \in Prices
      /\ \A j, k \in 1 .. N : j < k => path[j] # path[k] /\ InRange(side, path[j], path[k])
  BY PathFacts
<1>3. PICK b \in 1 .. N : path[b] = best
  BY PathFacts DEF IsFirstLevel
<1>4. \A k \in 1 .. N : k < b => bk[path[k]] = <<>>
  <2> SUFFICES ASSUME NEW k \in 1 .. N, k < b, bk[path[k]] # <<>> PROVE FALSE
    OBVIOUS
  <2>1. InRange(side, best, path[k]) /\ path[k] # best /\ InRange(side, path[k], best)
    BY <1>2, <1>3 DEF IsFirstLevel
  <2>2. best \in Int /\ path[k] \in Int
    <3>1. path[k] \in Prices
      BY <1>2
    <3> QED
      BY <3>1 DEF Prices, BookAssumption
  <2> QED
    BY <2>1, <2>2 DEF InRange
<1>5. start \in Scans
  BY DEF Scans
<1> HIDE DEF start, path
<1>6. q \in Seq(Order) /\ q[1] \in Order /\ Tail(q) \in Seq(Order)
  BY TailFacts DEF IsFirstLevel
<1>7. first \in Scans
  BY <1>5, <1>6, ScanOrderFacts DEF first
<1>8. ScanQueue(q, owner, stp, start) = ScanQueue(Tail(q), owner, stp, first)
  BY <1>5, <1>6, ScanQueueTail DEF first, IsFirstLevel
<1>9. first.answer # "no"
  <2> SUFFICES ASSUME first.answer = "no" PROVE FALSE
    OBVIOUS
  <2>1. ScanQueue(q, owner, stp, start) = first
    BY <1>6, <1>7, <1>8, ScanQueueFacts
  <2> DEFINE S == {k \in 0 .. N : g[k] = IF k < b THEN start ELSE first}
  <2>2. 0 \in S
    BY <1>1, <1>2, <1>3 DEF IsVisit
  <2>3. \A k \in 0 .. N - 1 : k \in S => k + 1 \in S
    <3> SUFFICES ASSUME NEW k \in 0 .. N - 1, k \in S PROVE k + 1 \in S
      OBVIOUS
    <3>1. k + 1 \in 1 .. N /\ (k + 1) - 1 = k
      BY <1>2
    <3>2. g[k + 1] = ScanQueue(bk[path[k + 1]], owner, stp, g[k]) /\ bk[path[k + 1]] \in Seq(Order)
      BY <1>1, <1>2, <3>1 DEF IsVisit
    <3>3. CASE k + 1 < b
      <4>1. bk[path[k + 1]] = <<>> /\ g[k] = start
        BY <1>2, <1>4, <3>1, <3>3
      <4>2. g[k + 1] = start
        BY <1>5, <3>2, <4>1, ScanQueueFacts
      <4> QED
        BY <3>1, <3>3, <4>2
    <3>4. CASE k + 1 = b
      BY <1>3, <2>1, <3>1, <3>2, <3>4
    <3>5. CASE k + 1 > b
      <4>1. g[k] = first
        BY <3>1, <3>5
      <4>2. g[k + 1] = first
        BY <1>7, <3>2, <4>1, ScanQueueFacts
      <4> QED
        BY <3>1, <3>5, <4>2
    <3> QED
      BY <3>1, <3>3, <3>4, <3>5
  <2>4. 0 .. N \subseteq S
    <3> HIDE DEF S
    <3> QED
      BY <1>2, <2>2, <2>3, UpTo
  <2>5. g[N] = first
    <3>1. N \in S
      <4> HIDE DEF S
      <4> QED
        BY <1>0, <2>4
    <3>2. ~(N < b)
      BY <1>2, <1>3
    <3> QED
      BY <3>1, <3>2
  <2> QED
    BY <1>1, <2>5
<1>10. ASSUME NEW n \in Nat, first = [need |-> n, answer |-> "open"]
       PROVE  FillableIn(bk2, side, limit, n, owner, stp)
  <2>1. bk2 \in [Prices -> Seq(Order)] /\ bk2[best] = Tail(q)
        /\ \A p \in Prices : p # best => bk2[p] = bk[p]
    BY <1>6
  <2> HIDE DEF bk2, q
  <2>2. PICK h : /\ IsVisit(h, bk2, path, owner, stp, first)
                 /\ FillableIn(bk2, side, limit, n, owner, stp) <=> h[N].answer = "yes"
    <3>1. bk2 \in [Prices -> Seq(Order)]
      BY <2>1
    <3>2. PICK h : Answers(h, bk2, side, limit, n, owner, stp)
      BY <3>1, FillableUnfolds
    <3> QED
      BY <1>10, <3>2 DEF Answers, path
  <2> DEFINE S == {k \in 0 .. N : IF k < b THEN g[k] = start /\ h[k] = first ELSE g[k] = h[k]}
  <2>3. 0 \in S
    BY <1>1, <1>2, <1>3, <2>2 DEF IsVisit
  <2>4. \A k \in 0 .. N - 1 : k \in S => k + 1 \in S
    <3> SUFFICES ASSUME NEW k \in 0 .. N - 1, k \in S PROVE k + 1 \in S
      OBVIOUS
    <3>1. k + 1 \in 1 .. N /\ (k + 1) - 1 = k
      BY <1>2
    <3>2. /\ g[k + 1] = ScanQueue(bk[path[k + 1]], owner, stp, g[k])
          /\ h[k + 1] = ScanQueue(bk2[path[k + 1]], owner, stp, h[k])
          /\ bk[path[k + 1]] \in Seq(Order)
      BY <1>1, <1>2, <2>2, <3>1 DEF IsVisit
    <3>3. k + 1 # b => bk2[path[k + 1]] = bk[path[k + 1]]
      <4>1. k + 1 # b => path[k + 1] # best
        BY <1>2, <1>3, <3>1
      <4> QED
        BY <1>2, <2>1, <3>1, <4>1
    <3>4. CASE k + 1 < b
      <4>1. bk[path[k + 1]] = <<>> /\ g[k] = start /\ h[k] = first
        BY <1>2, <1>4, <3>1, <3>4
      <4>2. g[k + 1] = start /\ h[k + 1] = first
        <5>1. ScanQueue(bk[path[k + 1]], owner, stp, start) = start
          BY <1>5, <3>2, <4>1, ScanQueueFacts, ZenonT(40)
        <5>2. ScanQueue(bk[path[k + 1]], owner, stp, first) = first
          BY <1>7, <3>2, <4>1, ScanQueueFacts, ZenonT(40)
        <5>3. bk2[path[k + 1]] = bk[path[k + 1]]
          BY <1>2, <3>1, <3>3, <3>4
        <5> QED
          BY <3>2, <4>1, <5>1, <5>2, <5>3
      <4> QED
        BY <3>1, <3>4, <4>2
    <3>5. CASE k + 1 = b
      <4>1. g[k] = start /\ h[k] = first
        BY <3>1, <3>5
      <4>2. g[k + 1] = h[k + 1]
        BY <1>3, <1>8, <2>1, <3>2, <3>5, <4>1 DEF q
      <4> QED
        BY <3>1, <3>5, <4>2
    <3>6. CASE k + 1 > b
      <4>1. g[k] = h[k]
        BY <3>1, <3>6
      <4>2. g[k + 1] = h[k + 1]
        BY <3>2, <3>3, <3>6, <4>1
      <4> QED
        BY <3>1, <3>6, <4>2
    <3> QED
      BY <3>1, <3>4, <3>5, <3>6
  <2>5. 0 .. N \subseteq S
    <3> HIDE DEF S
    <3> QED
      BY <1>2, <2>3, <2>4, UpTo
  <2>6. g[N] = h[N]
    <3>1. N \in S
      <4> HIDE DEF S
      <4> QED
        BY <1>0, <2>5
    <3>2. ~(N < b)
      BY <1>2, <1>3
    <3> QED
      BY <3>1, <3>2
  <2> QED
    BY <1>1, <2>2, <2>6
<1> QED
  BY <1>9, <1>10 DEF first, start

\* What stays true of a fill-or-kill order while it is matched: it was not
\* stopped, and what is left of it can be filled by what is left of the book.
FokInv ==
    pc = "sweep" /\ taker.tif = "Fok" =>
       /\ ~taker.stop
       /\ taker.qty > 0 =>
            Fillable(taker.side, taker.limit, taker.qty, taker.owner, taker.stp)

\* The maker stands in the first level that the scan of the taker meets.
LEMMA MakerIsFirst ==
    ASSUME BookAssumption, Inv, Matching
    PROVE  IsFirstLevel(book[Opposite(taker.side)], taker.side, taker.limit,
                        Best(Opposite(taker.side)))
<1> DEFINE opp == Opposite(taker.side)
           best == Best(opp)
<1>1. taker \in Takers /\ taker.side \in Sides /\ opp \in Sides /\ taker.limit \in Prices
      /\ best \in Prices /\ book[opp][best] # <<>>
  BY MakerFacts DEF Takers
<1>2. Opposite(opp) = taker.side
  BY <1>1 DEF Opposite, Sides
<1>3. PICK p \in Levels(opp) : InRange(taker.side, p, taker.limit)
  BY DEF Matching, Crosses
<1>4. Levels(opp) \subseteq Prices
  BY DEF Levels
<1>5. \E x \in Levels(opp) : \A y \in Levels(opp) : InRange(Opposite(opp), x, y)
  BY <1>1, <1>3, <1>4, PriceBounds DEF InRange, Opposite, Sides
<1>6. \A y \in Levels(opp) : InRange(taker.side, best, y)
  BY <1>2, <1>5 DEF Best
<1> HIDE DEF best, opp
<1>7. InRange(taker.side, best, taker.limit)
  <2>1. InRange(taker.side, best, p) /\ p \in Prices
    BY <1>3, <1>4, <1>6
  <2>2. p \in Int /\ best \in Int /\ taker.limit \in Int
    BY <1>1, <2>1 DEF Prices, BookAssumption
  <2> QED
    BY <1>3, <2>1, <2>2 DEF InRange
<1>8. \A y \in Prices : book[opp][y] # <<>> => InRange(taker.side, best, y)
  BY <1>6 DEF Levels
<1> QED
  BY <1>1, <1>7, <1>8 DEF IsFirstLevel, best, opp

\* While a fill-or-kill order is matched, the scan never says "no" to its maker,
\* and a maker that leaves takes with it what the scan counted.
LEMMA FokMaker ==
    ASSUME BookAssumption, Inv, FokInv, Matching, taker.tif = "Fok"
    PROVE  LET first == ScanOrder([need |-> taker.qty, answer |-> "open"], Maker,
                                  taker.owner, taker.stp)
           IN  /\ first.answer # "no"
               /\ \A n \in Nat : first = [need |-> n, answer |-> "open"] /\ PopMaker =>
                    FillableIn(book'[Opposite(taker.side)], taker.side, taker.limit, n,
                               taker.owner, taker.stp)
<1> DEFINE opp == Opposite(taker.side)
           best == Best(opp)
           bk == book[opp]
           first == ScanOrder([need |-> taker.qty, answer |-> "open"], Maker,
                              taker.owner, taker.stp)
<1>1. /\ taker \in Takers /\ opp \in Sides /\ best \in Prices /\ Maker = bk[best][1]
      /\ taker.side \in Sides /\ taker.limit \in Prices /\ taker.qty \in Nat /\ taker.stp \in Stps
  BY MakerFacts DEF Takers
<1>2. bk \in [Prices -> Seq(Order)]
  BY <1>1 DEF Inv, TypeOK, BookTypes
<1>3. IsFirstLevel(bk, taker.side, taker.limit, best)
  BY MakerIsFirst
<1>4. FillableIn(bk, taker.side, taker.limit, taker.qty, taker.owner, taker.stp)
  BY DEF FokInv, Matching, Fillable, FillableIn
<1>5. PopMaker => book'[opp] = [bk EXCEPT ![best] = Tail(@)]
  BY <1>1, <1>2 DEF PopMaker, SetQueue, Inv, TypeOK, BookTypes
<1> HIDE DEF opp, best, bk
<1>6. LET f == ScanOrder([need |-> taker.qty, answer |-> "open"], bk[best][1],
                         taker.owner, taker.stp)
      IN  /\ f.answer # "no"
          /\ \A n \in Nat : f = [need |-> n, answer |-> "open"] =>
               FillableIn([bk EXCEPT ![best] = Tail(@)], taker.side, taker.limit, n,
                          taker.owner, taker.stp)
  BY <1>1, <1>2, <1>3, <1>4, FillableTail
<1> QED
  BY <1>1, <1>5, <1>6 DEF opp

\* The book a fill-or-kill order is accepted against can fill it, and each
\* iteration of match_side leaves a book that can fill the rest.
LEMMA FokStep ==
    ASSUME BookAssumption, Inv, FokInv, [Next]_vars
    PROVE  FokInv'
<1> DEFINE first == ScanOrder([need |-> taker.qty, answer |-> "open"], Maker,
                              taker.owner, taker.stp)
           Rest(n) == FillableIn(book'[Opposite(taker.side)], taker.side, taker.limit, n,
                                 taker.owner, taker.stp)
<1>1. ASSUME Matching, taker.tif = "Fok"
      PROVE  /\ taker \in Takers /\ taker.qty \in Nat \ {0} /\ taker.stp \in Stps
             /\ Maker \in Order /\ Maker.qty \in Nat /\ ~taker.stop
             /\ first.answer # "no"
             /\ \A n \in Nat : first = [need |-> n, answer |-> "open"] /\ PopMaker => Rest(n)
  <2>1. taker \in Takers /\ Maker \in Order
    BY <1>1, MakerFacts
  <2>2. first.answer # "no"
        /\ \A n \in Nat : first = [need |-> n, answer |-> "open"] /\ PopMaker => Rest(n)
    BY <1>1, FokMaker
  <2> HIDE DEF first, Rest
  <2> QED
    BY <1>1, <2>1, <2>2 DEF Takers, Order, Matching
<1>2. ASSUME pc' = "sweep", NEW n \in Nat, taker' = [taker EXCEPT !.qty = n], taker \in Takers,
             ~taker.stop, n > 0 => Rest(n)
      PROVE  FokInv'
  <2>1. /\ taker'.qty = n /\ taker'.stop = taker.stop /\ taker'.side = taker.side
        /\ taker'.limit = taker.limit /\ taker'.owner = taker.owner /\ taker'.stp = taker.stp
    BY <1>2 DEF Takers
  <2> QED
    BY <1>2, <2>1 DEF FokInv, Fillable, FillableIn
<1>3. CASE MatchStop
  <2>1. Matching /\ OwnMaker /\ taker.stp = "CancelIncoming" /\ taker' = [taker EXCEPT !.stop = TRUE]
    BY <1>3 DEF MatchStop
  <2>2. taker.tif # "Fok"
    <3> SUFFICES ASSUME taker.tif = "Fok" PROVE FALSE
      OBVIOUS
    <3>1. first.answer = "no"
      BY <2>1 DEF ScanOrder, OwnMaker
    <3> QED
      BY <1>1, <2>1, <3>1
  <2>3. taker'.tif = taker.tif
    BY <2>1, MakerFacts DEF Takers
  <2> QED
    BY <2>2, <2>3 DEF FokInv
<1>4. CASE MatchDecrementMaker
  <2>1. /\ Matching /\ OwnMaker /\ taker.stp = "DecrementCancel" /\ Maker.qty > taker.qty
        /\ taker' = [taker EXCEPT !.stop = TRUE]
    BY <1>4 DEF MatchDecrementMaker
  <2>2. taker.tif # "Fok"
    <3> SUFFICES ASSUME taker.tif = "Fok" PROVE FALSE
      OBVIOUS
    <3>1. Maker.qty >= taker.qty
      BY <1>1, <2>1
    <3>2. first.answer = "no"
      BY <2>1, <3>1 DEF ScanOrder, OwnMaker
    <3> QED
      BY <1>1, <2>1, <3>2
  <2>3. taker'.tif = taker.tif
    BY <2>1, MakerFacts DEF Takers
  <2> QED
    BY <2>2, <2>3 DEF FokInv
<1>5. CASE MatchCancelMaker
  <2>1. Matching /\ OwnMaker /\ PopMaker /\ taker.stp # "CancelIncoming" /\ pc' = "sweep"
        /\ ~(taker.stp = "DecrementCancel" /\ Maker.qty > taker.qty)
    BY <1>5 DEF MatchCancelMaker, Matching
  <2>2. taker \in Takers
    BY <2>1, MakerFacts
  <2>3. taker'.tif = taker.tif
    BY <1>5, <2>2 DEF MatchCancelMaker, Takers
  <2> SUFFICES ASSUME taker.tif = "Fok" PROVE FokInv'
    BY <2>3 DEF FokInv
  <2>4. CASE taker.stp = "CancelResting" /\ taker' = taker
    <3>1. first = [need |-> taker.qty, answer |-> "open"]
      BY <2>1, <2>4 DEF ScanOrder, OwnMaker
    <3>2. Rest(taker.qty) /\ taker.qty \in Nat /\ ~taker.stop
      BY <1>1, <2>1, <3>1
    <3>3. taker' = [taker EXCEPT !.qty = taker.qty]
      BY <2>2, <2>4 DEF Takers
    <3> HIDE DEF Rest
    <3> QED
      BY <1>2, <2>1, <2>2, <3>2, <3>3
  <2>5. CASE taker.stp = "DecrementCancel" /\ taker.qty - Maker.qty = 0
    <3>1. Maker.qty >= taker.qty
      BY <1>1, <2>1, <2>5
    <3>2. first.answer = "no"
      BY <2>1, <2>5, <3>1 DEF ScanOrder, OwnMaker
    <3> QED
      BY <1>1, <2>1, <3>2
  <2>6. CASE /\ taker.stp = "DecrementCancel" /\ taker.qty - Maker.qty > 0
             /\ taker' = [taker EXCEPT !.qty = taker.qty - Maker.qty]
    <3> DEFINE n == taker.qty - Maker.qty
    <3>1. ~(Maker.qty >= taker.qty) /\ n \in Nat
      BY <1>1, <2>1, <2>6
    <3>2. first = [need |-> n, answer |-> "open"]
      BY <2>1, <2>6, <3>1 DEF ScanOrder, OwnMaker
    <3>3. Rest(n) /\ ~taker.stop
      BY <1>1, <2>1, <3>1, <3>2
    <3> HIDE DEF Rest
    <3> QED
      BY <1>2, <2>1, <2>2, <2>6, <3>1, <3>3
  <2> QED
    BY <1>5, <2>1, <2>4, <2>5, <2>6 DEF MatchCancelMaker
<1>6. CASE MatchTrade
  <2> DEFINE fill == IF Maker.qty < taker.qty THEN Maker.qty ELSE taker.qty
  <2>1. /\ Matching /\ ~OwnMaker /\ pc' = "sweep" /\ taker' = [taker EXCEPT !.qty = @ - fill]
        /\ IF Maker.qty - fill = 0 THEN PopMaker ELSE SetMakerQty(Maker.qty - fill)
    BY <1>6 DEF MatchTrade, Matching
  <2>2. taker \in Takers
    BY <2>1, MakerFacts
  <2>3. taker'.tif = taker.tif
    BY <2>1, <2>2 DEF Takers
  <2> SUFFICES ASSUME taker.tif = "Fok" PROVE FokInv'
    BY <2>3 DEF FokInv
  <2>4. taker.qty \in Nat /\ Maker.qty \in Nat /\ ~taker.stop
    BY <1>1, <2>1
  <2>5. CASE Maker.qty >= taker.qty
    <3>1. taker' = [taker EXCEPT !.qty = 0]
      BY <2>1, <2>2, <2>4, <2>5 DEF Takers
    <3> HIDE DEF Rest
    <3> QED
      BY <1>2, <2>1, <2>2, <2>4, <3>1
  <2>6. CASE ~(Maker.qty >= taker.qty)
    <3> DEFINE n == taker.qty - Maker.qty
    <3>1. n \in Nat /\ fill = Maker.qty /\ Maker.qty - fill = 0
      BY <2>4, <2>6
    <3>2. taker' = [taker EXCEPT !.qty = n] /\ PopMaker
      BY <2>1, <2>2, <3>1 DEF Takers
    <3>3. first = [need |-> n, answer |-> "open"]
      BY <2>1, <2>6 DEF ScanOrder, OwnMaker
    <3>4. Rest(n)
      BY <1>1, <2>1, <3>1, <3>2, <3>3
    <3> HIDE DEF Rest
    <3> QED
      BY <1>2, <2>1, <2>2, <2>4, <3>1, <3>2, <3>4
  <2> QED
    BY <2>5, <2>6
<1>7. ASSUME NEW c \in AddCommand, Add(c) PROVE FokInv'
  <2>1. CASE pc' = pc
    BY <1>7, <2>1 DEF Add, FokInv
  <2>2. CASE pc' # pc
    <3>1. /\ ~(c.tif = "Fok" /\ ~Fillable(c.side, Limit(c), c.qty, c.owner, EffectiveStp(c.stp)))
          /\ book' = book
          /\ taker'.tif = c.tif /\ taker'.stop = FALSE /\ taker'.side = c.side
          /\ taker'.limit = Limit(c) /\ taker'.qty = c.qty /\ taker'.owner = c.owner
          /\ taker'.stp = EffectiveStp(c.stp)
      BY <1>7, <2>2 DEF Add, Reject, Accept
    <3> QED
      BY <3>1 DEF FokInv, Fillable
  <2> QED
    BY <2>1, <2>2
<1>8. ASSUME NEW c \in ModifyCommand, Modify(c) PROVE FokInv'
  <2>1. CASE pc' = pc
    BY <1>8, <2>1 DEF Modify, FokInv
  <2>2. CASE pc' # pc
    <3> DEFINE loc == index[c.id]
               q == book[loc.side][loc.price]
               k == Position(q, c.id)
    <3>1. Reenter(c, loc, q, k)
      BY <1>8, <2>2 DEF Modify, Reject, Amend
    <3> HIDE DEF loc, q, k
    <3>2. taker'.tif = "Day"
      BY <3>1 DEF Reenter
    <3> QED
      BY <3>2 DEF FokInv
  <2> QED
    BY <2>1, <2>2
<1>9. ASSUME NEW c \in CancelCommand, Cancel(c) PROVE FokInv'
  BY <1>9 DEF Cancel, Reject, FokInv
<1>10. CASE FinishMatch
  BY <1>10 DEF FinishMatch, FinishFilled, FinishStopped, FinishExpired, FinishFull, FinishRest,
               Drop, Finish, FokInv
<1>11. CASE UNCHANGED vars
  BY <1>11 DEF vars, FokInv, Fillable
<1> QED
  BY <1>3, <1>4, <1>5, <1>6, <1>7, <1>8, <1>9, <1>10, <1>11 DEF Next, Match

\* fillable predicts the match: an accepted fill-or-kill order is resolved to the
\* last unit, by trades or, under decrement-and-cancel, also against own orders,
\* whatever the book holds (reference_book.hpp, fillable and match_side).
THEOREM FokCorrect == Spec => []FokAllOrNothing
<1>1. Init => Inv /\ FokInv
  BY InitInv, BookAssumption DEF Init, FokInv
<1>2. Inv /\ FokInv /\ [Next]_vars => (Inv /\ FokInv)'
  BY NextInv, FokStep, BookAssumption
<1>3. Inv /\ FokInv => FokAllOrNothing
  <2> SUFFICES ASSUME Inv, FokInv, pc = "sweep", ~Matching, taker.tif = "Fok", taker.qty # 0
               PROVE  FALSE
    BY DEF FokAllOrNothing
  <2> DEFINE opp == Opposite(taker.side)
  <2>1. /\ taker.side \in Sides /\ taker.limit \in Prices /\ taker.qty \in Nat
        /\ taker.stp \in Stps /\ opp \in Sides
    BY DEF Inv, TypeOK, TakerTypes, Takers, Opposite, Sides
  <2>2. FillableIn(book[opp], taker.side, taker.limit, taker.qty, taker.owner, taker.stp)
    BY <2>1 DEF FokInv, Fillable, FillableIn
  <2>3. ~Crosses(taker.side, taker.limit)
    BY <2>1 DEF FokInv, Matching
  <2>4. \A p \in Prices : InRange(taker.side, p, taker.limit) => book[opp][p] = <<>>
    BY <2>3 DEF Crosses, Levels
  <2>5. book[opp] \in [Prices -> Seq(Order)]
    BY <2>1 DEF Inv, TypeOK, BookTypes
  <2> HIDE DEF opp
  <2> QED
    BY <2>1, <2>2, <2>4, <2>5, NothingInRange, BookAssumption
<1> QED
  BY <1>1, <1>2, <1>3, PTL DEF Spec

-----------------------------------------------------------------------------
(* The events tell the book. *)

\* A step passes at most two events to the sink.
LEMMA LearnAllOf ==
    ASSUME NEW v, NEW evs, NEW e, NEW f
    PROVE  /\ evs = <<>> => LearnAll(v, evs) = v
           /\ evs = <<e>> => LearnAll(v, evs) = Learn(v, e)
           /\ evs = <<e, f>> => LearnAll(v, evs) = Learn(Learn(v, e), f)
<1> DEFINE N == Len(evs)
           Body(g) == [k \in 0 .. N |-> IF k = 0 THEN v ELSE Learn(g[k - 1], evs[k])]
           g == CHOOSE h : h = Body(h)
           one == Learn(v, e)
           two == Learn(one, f)
<1>1. LearnAll(v, evs) = g[N]
  BY DEF LearnAll
<1>2. ASSUME NEW h, h = Body(h) PROVE g = Body(g)
  <2> HIDE DEF Body
  <2> QED
    BY <1>2
<1>3. ASSUME evs = <<>> PROVE LearnAll(v, evs) = v
  <2> DEFINE h == [k \in 0 .. N |-> v]
  <2>1. N = 0
    BY <1>3
  <2>2. h = Body(h)
    BY <2>1
  <2>3. g = Body(g)
    BY <1>2, <2>2
  <2> HIDE DEF g
  <2> QED
    BY <1>1, <2>1, <2>3
<1>4. ASSUME evs = <<e>> PROVE LearnAll(v, evs) = Learn(v, e)
  <2> DEFINE h == [k \in 0 .. N |-> IF k = 0 THEN v ELSE one]
  <2>1. N = 1 /\ evs[1] = e
    BY <1>4
  <2>2. h = Body(h)
    BY <2>1
  <2>3. g = Body(g)
    BY <1>2, <2>2
  <2> HIDE DEF g, N
  <2>4. g[0] = v /\ g[1] = Learn(g[1 - 1], evs[1])
    BY <2>1, <2>3
  <2> QED
    BY <1>1, <2>1, <2>4
<1>5. ASSUME evs = <<e, f>> PROVE LearnAll(v, evs) = Learn(Learn(v, e), f)
  <2> DEFINE h == [k \in 0 .. N |-> IF k = 0 THEN v ELSE IF k = 1 THEN one ELSE two]
  <2>1. N = 2 /\ evs[1] = e /\ evs[2] = f
    BY <1>5
  <2>2. h = Body(h)
    BY <2>1
  <2>3. g = Body(g)
    BY <1>2, <2>2
  <2> HIDE DEF g, N
  <2>4. g[0] = v /\ g[1] = Learn(g[1 - 1], evs[1]) /\ g[2] = Learn(g[2 - 1], evs[2])
    BY <2>1, <2>3
  <2> QED
    BY <1>1, <2>1, <2>4
<1> QED
  BY <1>3, <1>4, <1>5

\* The same: nothing, and one event.
LEMMA LearnAllIs ==
    ASSUME NEW v, NEW e
    PROVE  /\ LearnAll(v, <<>>) = v
           /\ LearnAll(v, <<e>>) = Learn(v, e)
<1>1. PICK a, b : a = <<>> /\ b = <<e>>
  OBVIOUS
<1>2. LearnAll(v, a) = v
  BY <1>1, LearnAllOf
<1>3. LearnAll(v, b) = Learn(v, e)
  BY <1>1, LearnAllOf
<1> QED
  BY <1>1, <1>2, <1>3

\* Two events, one after the other.
LEMMA LearnTwo ==
    ASSUME NEW v, NEW e, NEW f
    PROVE  LearnAll(v, <<e, f>>) = Learn(Learn(v, e), f)
<1>1. PICK c : c = <<e, f>>
  OBVIOUS
<1>2. LearnAll(v, c) = Learn(Learn(v, e), f)
  BY <1>1, LearnAllOf
<1> QED
  BY <1>1, <1>2

\* w is what is known after v, once order id is known to be on side at px with n.
Knows(w, v, id, side, px, n) ==
    /\ DOMAIN w = DOMAIN v \cup {id}
    /\ w[id] = [side |-> side, price |-> px, qty |-> n]
    /\ \A j \in DOMAIN v : j # id => w[j] = v[j]

\* The meaning of an acceptance and of a modification.
LEMMA LearnKnown ==
    ASSUME NEW v, NEW id, NEW side, NEW px, NEW n, NEW e,
           \/ e = Accepted(id, side, px, n)
           \/ e = Modified(id, side, px, n)
           \/ e = StpDecrement(id, side, px, n),
           NEW w, w = Learn(v, e)
    PROVE  Knows(w, v, id, side, px, n)
<1>1. e.type \in {"Accepted", "Modified"} /\ e.id = id /\ e.side = side /\ e.price = px /\ e.qty = n
  BY DEF Accepted, Modified, StpDecrement, Event
<1>2. Learn(v, e) = Known(v, id, [side |-> side, price |-> px, qty |-> n])
  BY <1>1 DEF Learn
<1> QED
  BY <1>2 DEF Known, Knows

\* A rejection says nothing of the book.
LEMMA LearnRejected ==
    ASSUME NEW v, NEW c, NEW reason
    PROVE  Learn(v, Rejected(c, reason)) = v
<1>1. Rejected(c, reason).type = "Rejected"
  BY DEF Rejected, Event
<1> QED
  BY <1>1 DEF Learn

\* w is what is known after v, once order id is gone.
Forgets(w, v, id) ==
    DOMAIN w = DOMAIN v \ {id} /\ \A j \in DOMAIN v : j # id => w[j] = v[j]

\* A cancel of all that is open takes the order away.
LEMMA LearnCanceled ==
    ASSUME NEW v, NEW id, NEW side, NEW px, NEW n \in Nat, NEW reason, v[id].qty = n,
           NEW e, e = Canceled(id, side, px, n, reason), NEW w, w = Learn(v, e)
    PROVE  Forgets(w, v, id)
<1>1. e.type = "Canceled" /\ e.id = id /\ e.qty = n
  BY DEF Canceled, Event
<1>2. Learn(v, e) = SetQty(v, id, v[id].qty - n)
  BY <1>1 DEF Learn
<1>3. Learn(v, e) = Gone(v, id)
  BY <1>2 DEF SetQty
<1> QED
  BY <1>3 DEF Gone, Forgets

\* w is what is known after v, once order id has n left, nothing perhaps.
Leaves(w, v, id, side, px, n) ==
    /\ DOMAIN w = DOMAIN v \ {j \in {id} : n = 0}
    /\ n # 0 => w[id] = [side |-> side, price |-> px, qty |-> n]
    /\ \A j \in DOMAIN v : j # id => w[j] = v[j]

\* What is open of an order changes.
LEMMA SetQtyFacts ==
    ASSUME NEW v, NEW id \in DOMAIN v, NEW side, NEW px, NEW m, NEW n \in Nat,
           v[id] = [side |-> side, price |-> px, qty |-> m], NEW w, w = SetQty(v, id, n)
    PROVE  Leaves(w, v, id, side, px, n)
<1>1. CASE n = 0
  BY <1>1 DEF SetQty, Gone, Leaves
<1>2. CASE n # 0
  <2>1. SetQty(v, id, n) = [v EXCEPT ![id].qty = n]
    BY <1>2 DEF SetQty
  <2>2. [v EXCEPT ![id].qty = n][id] = [v[id] EXCEPT !.qty = n]
    OBVIOUS
  <2>3. [v[id] EXCEPT !.qty = n] = [side |-> side, price |-> px, qty |-> n]
    OBVIOUS
  <2> QED
    BY <1>2, <2>1, <2>2, <2>3 DEF Leaves
<1> QED
  BY <1>1, <1>2

\* A trade: both sides of it have less.
LEMMA LearnTrade ==
    ASSUME NEW v, NEW id, NEW maker, NEW side, NEW px, NEW n, NEW left
    PROVE  Learn(v, Trade(id, maker, side, px, n, left)) =
             SetQty(SetQty(v, id, v[id].qty - n), maker, left)
<1> DEFINE e == Trade(id, maker, side, px, n, left)
<1>1. e.type = "Trade" /\ e.id = id /\ e.maker = maker /\ e.qty = n /\ e.leaves = left
  BY DEF Trade
<1> HIDE DEF e
<1>2. Learn(v, e) = SetQty(SetQty(v, id, v[id].qty - n), maker, left)
  BY <1>1 DEF Learn
<1> QED
  BY <1>2 DEF e

\* v tells of every order in the book bk.
Shows(v, bk) ==
    \A s \in Sides, p \in Prices : \A i \in DOMAIN bk[s][p] :
       v[bk[s][p][i].id] = [side |-> s, price |-> p, qty |-> bk[s][p][i].qty]

\* r is the queue of order x after a change to x alone, and v tells of it.
ShowsQueue(v, s, p, x, r) ==
    /\ \A j \in DOMAIN index : j # x => v[j] = view[j]
    /\ x \in DOMAIN index => index[x] = [side |-> s, price |-> p]
    /\ \A i \in DOMAIN r :
          \/ v[r[i].id] = [side |-> s, price |-> p, qty |-> r[i].qty]
          \/ \E k \in DOMAIN book[s][p] : r[i] = book[s][p][k] /\ r[i].id # x

\* The queue of one order is changed: the others are where they were.
LEMMA ShowsOneQueue ==
    ASSUME BookInv, Shows(view, book), NEW s \in Sides, NEW p \in Prices, NEW x,
           NEW r, NEW bk, bk = SetQueue(s, p, r), NEW v, ShowsQueue(v, s, p, x, r)
    PROVE  Shows(v, bk)
<1>0. /\ \A j \in DOMAIN index : j # x => v[j] = view[j]
      /\ x \in DOMAIN index => index[x] = [side |-> s, price |-> p]
      /\ \A i \in DOMAIN r :
            \/ v[r[i].id] = [side |-> s, price |-> p, qty |-> r[i].qty]
            \/ \E k \in DOMAIN book[s][p] : r[i] = book[s][p][k] /\ r[i].id # x
  BY DEF ShowsQueue
<1> SUFFICES ASSUME NEW t \in Sides, NEW u \in Prices, NEW i \in DOMAIN bk[t][u]
             PROVE  v[bk[t][u][i].id] = [side |-> t, price |-> u, qty |-> bk[t][u][i].qty]
  BY DEF Shows
<1>1. bk[t][u] = IF t = s /\ u = p THEN r ELSE book[t][u]
  BY DEF SetQueue, BookInv, BookTypes
<1>2. ASSUME NEW k \in DOMAIN book[t][u], book[t][u][k].id # x
      PROVE  v[book[t][u][k].id] = [side |-> t, price |-> u, qty |-> book[t][u][k].qty]
  <2>1. book[t][u][k].id \in DOMAIN index
    BY DEF BookInv, QueuedIsIndexed
  <2> QED
    BY <1>0, <1>2, <2>1 DEF Shows
<1>3. CASE t = s /\ u = p
  BY <1>0, <1>1, <1>2, <1>3
<1>4. CASE ~(t = s /\ u = p)
  <2>1. bk[t][u] = book[t][u] /\ i \in DOMAIN book[t][u]
    BY <1>1, <1>4
  <2>2. /\ book[t][u][i].id \in DOMAIN index
        /\ index[book[t][u][i].id] = [side |-> t, price |-> u]
    BY <2>1 DEF BookInv, QueuedIsIndexed
  <2>3. book[t][u][i].id # x
    <3>1. [side |-> t, price |-> u] # [side |-> s, price |-> p]
      BY <1>4
    <3> QED
      BY <1>0, <2>2, <3>1
  <2> QED
    BY <1>2, <2>1, <2>3
<1> QED
  BY <1>3, <1>4

\* remove: an order leaves, and the listener forgets it.
LEMMA RemoveShows ==
    ASSUME BookInv, Shows(view, book), NEW id \in DOMAIN index, Remove(id), NEW v,
           \A j \in DOMAIN index : j # id => v[j] = view[j]
    PROVE  Shows(v, book')
<1> DEFINE s == index[id].side
           p == index[id].price
           q == book[s][p]
           k == Position(q, id)
           r == RemoveAt(q, k)
<1>1. s \in Sides /\ p \in Prices /\ index[id] = [side |-> s, price |-> p]
  BY DEF BookInv, BookTypes, Loc
<1>2. k \in DOMAIN q /\ q[k].id = id
  BY DEF BookInv, IndexedIsQueued, Position
<1>3. q \in Seq(Order) /\ \A i, j \in DOMAIN q : q[i].id = q[j].id => i = j
  BY <1>1 DEF BookInv, BookTypes, QueuedIsIndexed
<1>4. book' = SetQueue(s, p, r)
  BY DEF Remove
<1> HIDE DEF s, p, k
<1>5. ASSUME NEW i \in DOMAIN r
      PROVE  \E j \in DOMAIN q : r[i] = q[j] /\ r[i].id # id
  <2> HIDE DEF q
  <2>1. Len(q) \in Nat /\ k \in 1 .. Len(q) /\ DOMAIN q = 1 .. Len(q)
    BY <1>2, <1>3, LenProperties
  <2>0. q \in Seq(Order) /\ k \in 1 .. Len(q)
    BY <1>3, <2>1
  <2>2. i \in 1 .. Len(q) - 1 /\ r[i] = IF i < k THEN q[i] ELSE q[i + 1]
    BY <2>0, RemoveAtFacts
  <2>3. PICK j \in DOMAIN q : r[i] = q[j] /\ j # k
    <3>1. CASE i < k
      BY <2>1, <2>2, <3>1
    <3>2. CASE ~(i < k)
      <4>1. i + 1 \in DOMAIN q /\ i + 1 # k
        BY <2>1, <2>2, <3>2
      <4> QED
        BY <2>2, <3>2, <4>1
    <3> QED
      BY <3>1, <3>2
  <2> QED
    BY <1>2, <1>3, <2>3
<1> HIDE DEF r
<1>6. PICK bk : bk = book'
  OBVIOUS
<1>7. bk = SetQueue(s, p, r)
  BY <1>4, <1>6
<1>8. ShowsQueue(v, s, p, id, r)
  BY <1>1, <1>5 DEF ShowsQueue
<1>9. Shows(v, bk)
  BY <1>1, <1>7, <1>8, ShowsOneQueue
<1> QED
  BY <1>6, <1>9

\* The maker leaves the front of its level.
LEMMA PopMakerShows ==
    ASSUME BookAssumption, Inv, Matching, PopMaker, Shows(view, book), NEW v,
           \A j \in DOMAIN index : j # Maker.id => v[j] = view[j]
    PROVE  Shows(v, book')
<1> DEFINE s == Opposite(taker.side)
           p == Best(s)
           q == book[s][p]
           r == Tail(q)
<1>1. /\ s \in Sides /\ p \in Prices /\ 1 \in DOMAIN q
      /\ q \in Seq(Order) /\ q # <<>> /\ Maker = q[1]
  BY MakerFacts
<1>2. BookInv
  BY DEF Inv, TypeOK, IndexAgrees, BookInv
<1>3. /\ \A i, j \in DOMAIN q : q[i].id = q[j].id => i = j
      /\ Maker.id \in DOMAIN index /\ index[Maker.id] = [side |-> s, price |-> p]
  <2> HIDE DEF s, p
  <2> QED
    BY <1>1, <1>2 DEF BookInv, QueuedIsIndexed
<1>4. book' = SetQueue(s, p, r)
  BY DEF PopMaker
<1> HIDE DEF s, p
<1>5. ASSUME NEW i \in DOMAIN r
      PROVE  \E j \in DOMAIN q : r[i] = q[j] /\ r[i].id # Maker.id
  <2> HIDE DEF q
  <2>1. Tail(q) \in Seq(Order) /\ Len(q) \in Nat \ {0} /\ Len(Tail(q)) = Len(q) - 1
        /\ \A j \in 1 .. Len(q) - 1 : Tail(q)[j] = q[j + 1]
    BY <1>1, TailFacts
  <2>2. i \in 1 .. Len(q) - 1 /\ DOMAIN q = 1 .. Len(q)
    BY <1>1, <2>1, LenProperties
  <2>3. i + 1 \in DOMAIN q /\ i + 1 # 1
    BY <2>1, <2>2
  <2> QED
    BY <1>1, <1>3, <2>1, <2>2, <2>3
<1> HIDE DEF r
<1>6. PICK bk, x : bk = book' /\ x = Maker.id
  OBVIOUS
<1>7. bk = SetQueue(s, p, r)
  BY <1>4, <1>6
<1>8. ShowsQueue(v, s, p, x, r)
  BY <1>3, <1>5, <1>6 DEF ShowsQueue
<1>9. Shows(v, bk)
  BY <1>1, <1>2, <1>7, <1>8, ShowsOneQueue
<1> QED
  BY <1>6, <1>9

\* An order changes its quantity and stays where it is.
LEMMA AmendShows ==
    ASSUME BookInv, Shows(view, book), NEW s \in Sides, NEW p \in Prices,
           NEW k \in DOMAIN book[s][p], NEW n, NEW v,
           \A j \in DOMAIN index : j # book[s][p][k].id => v[j] = view[j],
           v[book[s][p][k].id] = [side |-> s, price |-> p, qty |-> n],
           NEW bk, bk = SetQueue(s, p, [book[s][p] EXCEPT ![k].qty = n])
    PROVE  Shows(v, bk)
<1> DEFINE q == book[s][p]
           x == q[k].id
           r == [q EXCEPT ![k].qty = n]
<1>1. q \in Seq(Order) /\ DOMAIN r = DOMAIN q
  BY DEF BookInv, BookTypes
<1>2. /\ \A i, j \in DOMAIN q : q[i].id = q[j].id => i = j
      /\ x \in DOMAIN index /\ index[x] = [side |-> s, price |-> p]
  BY DEF BookInv, QueuedIsIndexed
<1>3. ASSUME NEW i \in DOMAIN r
      PROVE  \/ v[r[i].id] = [side |-> s, price |-> p, qty |-> r[i].qty]
             \/ \E j \in DOMAIN q : r[i] = q[j] /\ r[i].id # x
  <2>1. CASE i = k
    <3>1. r[k] = [q[k] EXCEPT !.qty = n] /\ q[k] \in Order
      BY <1>1
    <3>2. r[k].id = x /\ r[k].qty = n
      BY <3>1 DEF Order
    <3> QED
      BY <2>1, <3>2
  <2>2. CASE i # k
    <3>1. r[i] = q[i] /\ i \in DOMAIN q
      BY <1>1, <2>2
    <3>2. q[i].id # x
      BY <1>2, <2>2, <3>1
    <3> QED
      BY <3>1, <3>2
  <2> QED
    BY <2>1, <2>2
<1>4. bk = SetQueue(s, p, r) /\ \A j \in DOMAIN index : j # x => v[j] = view[j]
  OBVIOUS
<1> HIDE DEF r, x
<1>5. ShowsQueue(v, s, p, x, r)
  BY <1>2, <1>3, <1>4 DEF ShowsQueue
<1> QED
  BY <1>4, <1>5, ShowsOneQueue

\* An order joins the back of a queue.
LEMMA AppendShows ==
    ASSUME BookInv, Shows(view, book), NEW s \in Sides, NEW p \in Prices, NEW o \in Order,
           o.id \notin DOMAIN index, NEW v, \A j \in DOMAIN index : v[j] = view[j],
           v[o.id] = [side |-> s, price |-> p, qty |-> o.qty],
           NEW bk, bk = SetQueue(s, p, Append(book[s][p], o))
    PROVE  Shows(v, bk)
<1> DEFINE q == book[s][p]
           x == o.id
           r == Append(q, o)
<1>1. q \in Seq(Order) /\ Len(q) \in Nat
  BY LenProperties DEF BookInv, BookTypes
<1>2. /\ DOMAIN r = 1 .. Len(q) + 1 /\ DOMAIN q = 1 .. Len(q)
      /\ \A i \in 1 .. Len(q) : r[i] = q[i]
      /\ r[Len(q) + 1] = o
  BY <1>1, AppendProperties, LenProperties
<1>3. \A i \in DOMAIN q : q[i].id # x
  BY DEF BookInv, QueuedIsIndexed
<1>4. bk = SetQueue(s, p, r) /\ \A j \in DOMAIN index : j # x => v[j] = view[j]
  OBVIOUS
<1> HIDE DEF r
<1>5. ASSUME NEW i \in DOMAIN r
      PROVE  \/ v[r[i].id] = [side |-> s, price |-> p, qty |-> r[i].qty]
             \/ \E j \in DOMAIN q : r[i] = q[j] /\ r[i].id # x
  <2>1. i = Len(q) + 1 \/ i \in 1 .. Len(q)
    BY <1>1, <1>2
  <2> QED
    BY <1>2, <1>3, <2>1
<1>6. x \in DOMAIN index => index[x] = [side |-> s, price |-> p]
  OBVIOUS
<1> HIDE DEF x
<1>7. ShowsQueue(v, s, p, x, r)
  BY <1>4, <1>5, <1>6 DEF ShowsQueue
<1> QED
  BY <1>4, <1>7, ShowsOneQueue, Zenon

\* The order being matched, while something of it is open.
TakerIds == IF pc = "sweep" /\ taker.qty > 0 THEN {taker.id} ELSE {}

TakerShown ==
    \E p : /\ view[taker.id] = [side |-> taker.side, price |-> p, qty |-> taker.qty]
           /\ taker.rests => p = taker.limit

\* The listener knows how much of it is open.
LEMMA ShownQty == TakerShown => view[taker.id].qty = taker.qty
<1> SUFFICES ASSUME TakerShown PROVE view[taker.id].qty = taker.qty
  OBVIOUS
<1>1. PICK p : view[taker.id] = [side |-> taker.side, price |-> p, qty |-> taker.qty]
  BY DEF TakerShown
<1> QED
  BY <1>1

\* The inductive invariant: EventsTellTheBook order by order, and enough of the
\* order being matched for when it comes to rest.
ViewInv ==
    /\ DOMAIN view = DOMAIN index \cup TakerIds
    /\ Shows(view, book)
    /\ TakerIds # {} => TakerShown

\* What it says between commands and inside one.
LEMMA ViewFacts ==
    ASSUME Inv, ViewInv
    PROVE  /\ BookInv
           /\ pc = "idle" => DOMAIN view = DOMAIN index
           /\ pc = "sweep" => taker \in Takers /\ taker.id \notin DOMAIN index
           /\ pc = "sweep" /\ taker.qty > 0 =>
                 DOMAIN view = DOMAIN index \cup {taker.id} /\ TakerShown
           /\ pc = "sweep" /\ taker.qty = 0 => DOMAIN view = DOMAIN index
           /\ \A s \in Sides, p \in Prices : \A i \in DOMAIN book[s][p] :
                 book[s][p][i].id \in DOMAIN index
<1>1. BookInv
  BY DEF Inv, TypeOK, IndexAgrees, BookInv
<1>2. pc = "sweep" => taker \in Takers /\ taker.id \notin DOMAIN index
  BY DEF Inv, TypeOK, TakerTypes, IndexAgrees
<1>3. \A s \in Sides, p \in Prices : \A i \in DOMAIN book[s][p] :
         book[s][p][i].id \in DOMAIN index
  BY <1>1 DEF BookInv, QueuedIsIndexed
<1>4. pc = "idle" => DOMAIN view = DOMAIN index
  BY DEF ViewInv, TakerIds
<1>5. pc = "sweep" /\ taker.qty > 0 => DOMAIN view = DOMAIN index \cup {taker.id} /\ TakerShown
  BY DEF ViewInv, TakerIds
<1>6. pc = "sweep" /\ taker.qty = 0 => DOMAIN view = DOMAIN index
  BY DEF ViewInv, TakerIds
<1> QED
  BY <1>1, <1>2, <1>3, <1>4, <1>5, <1>6

\* A book that stays is still told of.
LEMMA SameShows ==
    ASSUME BookInv, Shows(view, book), NEW v, \A j \in DOMAIN index : v[j] = view[j]
    PROVE  Shows(v, book)
<1> SUFFICES ASSUME NEW s \in Sides, NEW p \in Prices, NEW i \in DOMAIN book[s][p]
             PROVE  v[book[s][p][i].id] = [side |-> s, price |-> p, qty |-> book[s][p][i].qty]
  BY DEF Shows
<1>1. book[s][p][i].id \in DOMAIN index
  BY DEF BookInv, QueuedIsIndexed
<1>2. view[book[s][p][i].id] = [side |-> s, price |-> p, qty |-> book[s][p][i].qty]
  BY DEF Shows
<1> QED
  BY <1>1, <1>2

\* So is a book of which the listener learns nothing.
LEMMA SameView ==
    ASSUME Inv, ViewInv, UNCHANGED <<book, index, taker, pc>>, DOMAIN view' = DOMAIN view,
           \A j \in DOMAIN view : view'[j] = view[j]
    PROVE  ViewInv'
<1>1. DOMAIN index \subseteq DOMAIN view /\ BookInv
  BY ViewFacts DEF ViewInv
<1>2. TakerIds' = TakerIds /\ TakerIds \subseteq DOMAIN view
  BY DEF TakerIds, ViewInv
<1>3. PICK v : v = view'
  OBVIOUS
<1>4. Shows(v, book)
  BY <1>1, <1>3, SameShows DEF ViewInv
<1>5. Shows(view', book')
  <2>1. book' = book
    OBVIOUS
  <2> QED
    BY <1>3, <1>4, <2>1 DEF Shows
<1>6. ASSUME TakerIds # {} PROVE TakerShown'
  <2>1. TakerShown /\ view'[taker.id] = view[taker.id]
    BY <1>2, <1>6 DEF ViewInv, TakerIds
  <2> QED
    BY <2>1 DEF TakerShown
<1> QED
  BY <1>2, <1>5, <1>6 DEF ViewInv, Shows

\* reject.
LEMMA RejectView ==
    ASSUME Inv, ViewInv, NEW c, NEW reason, Reject(c, reason), view' = LearnAll(view, events')
    PROVE  ViewInv'
<1>1. LearnAll(view, <<Rejected(c, reason)>>) = Learn(view, Rejected(c, reason))
  BY LearnAllIs
<1>2. view' = view
  BY <1>1, LearnRejected DEF Reject
<1> QED
  BY <1>2, SameView DEF Reject

\* add.
LEMMA AddView ==
    ASSUME BookAssumption, Inv, ViewInv, NEW c \in AddCommand, Add(c),
           view' = LearnAll(view, events')
    PROVE  ViewInv'
<1>1. CASE AddReason(c) # "None"
  BY <1>1, RejectView DEF Add
<1>2. CASE AddReason(c) = "None"
  <2>0. PICK px : px = IF Market(c) THEN 0 ELSE c.price
    OBVIOUS
  <2>1. PICK id, side, n : id = c.id /\ side = c.side /\ n = c.qty
    OBVIOUS
  <2>2. PICK e, f : e = Accepted(id, side, px, n) /\ f = Canceled(id, side, px, n, "FokUnfilled")
    OBVIOUS
  <2>3. PICK v, w : v = Learn(view, e) /\ w = Learn(v, f)
    OBVIOUS
  <2>4. pc = "idle" /\ Accept(c)
    BY <1>2 DEF Add
  <2>5. id \notin DOMAIN index /\ n \in Nat /\ n > 0
    BY <1>2, <2>1, AcceptedCommand
  <2>6. DOMAIN view = DOMAIN index /\ BookInv /\ Shows(view, book)
    BY <2>4, ViewFacts DEF ViewInv
  <2>7. /\ DOMAIN v = DOMAIN view \cup {id}
        /\ v[id] = [side |-> side, price |-> px, qty |-> n]
        /\ \A j \in DOMAIN view : j # id => v[j] = view[j]
    <3>1. Knows(v, view, id, side, px, n)
      BY <2>2, <2>3, LearnKnown
    <3> QED
      BY <3>1 DEF Knows
  <2>8. CASE events' = <<e, f>> /\ UNCHANGED <<book, index, taker, pc>>
    <3>1. view' = w
      <4>1. LearnAll(view, <<e, f>>) = Learn(Learn(view, e), f)
        BY LearnTwo
      <4> QED
        BY <2>3, <2>8, <4>1
    <3>2. DOMAIN w = DOMAIN v \ {id} /\ \A j \in DOMAIN v : j # id => w[j] = v[j]
      <4>1. v[id].qty = n
        BY <2>7
      <4>2. Forgets(w, v, id)
        BY <2>2, <2>3, <2>5, <4>1, LearnCanceled
      <4> QED
        BY <4>2 DEF Forgets
    <3>3. DOMAIN view' = DOMAIN view /\ \A j \in DOMAIN view : view'[j] = view[j]
      BY <2>5, <2>6, <2>7, <3>1, <3>2
    <3> QED
      BY <2>8, <3>3, SameView
  <2>9. CASE /\ events' = <<e>> /\ pc' = "sweep" /\ UNCHANGED <<book, index>>
             /\ taker'.id = id /\ taker'.side = side /\ taker'.qty = n
             /\ taker'.limit = Limit(c) /\ (taker'.rests => ~Market(c))
    <3>1. view' = v
      <4>1. LearnAll(view, <<e>>) = Learn(view, e)
        BY LearnAllIs
      <4> QED
        BY <2>3, <2>9, <4>1
    <3>2. Shows(v, book)
      BY <2>5, <2>6, <2>7, SameShows
    <3>3. Shows(view', book')
      BY <2>9, <3>1, <3>2 DEF Shows
    <3>4. TakerIds' = {id}
      BY <2>5, <2>9 DEF TakerIds
    <3>5. TakerShown'
      <4>1. taker'.rests => px = taker'.limit
        BY <2>0, <2>9 DEF Limit
      <4>2. view'[taker'.id] = [side |-> taker'.side, price |-> px, qty |-> taker'.qty]
        BY <2>7, <2>9, <3>1
      <4> QED
        BY <4>1, <4>2 DEF TakerShown
    <3>6. DOMAIN view' = DOMAIN index' \cup TakerIds'
      BY <2>6, <2>7, <2>9, <3>1, <3>4
    <3> QED
      BY <3>3, <3>5, <3>6 DEF ViewInv, Shows
  <2>10. (events' = <<e, f>> /\ UNCHANGED <<book, index, taker, pc>>)
         \/ (/\ events' = <<e>> /\ pc' = "sweep" /\ UNCHANGED <<book, index>>
             /\ taker'.id = id /\ taker'.side = side /\ taker'.qty = n
             /\ taker'.limit = Limit(c) /\ (taker'.rests => ~Market(c)))
    <3> DEFINE rests == ~Market(c) /\ c.tif = "Day"
               stp == EffectiveStp(c.stp)
               limit == Limit(c)
    <3>1. \/ events' = <<e, f>> /\ UNCHANGED <<book, index, taker, pc>>
          \/ /\ events' = <<e>> /\ pc' = "sweep" /\ UNCHANGED <<book, index>>
             /\ taker' = [id |-> c.id, owner |-> c.owner, side |-> c.side, limit |-> limit,
                          qty |-> c.qty, stp |-> stp, stop |-> FALSE, px |-> px, tif |-> c.tif,
                          rests |-> rests]
      BY <2>0, <2>1, <2>2, <2>4 DEF Accept
    <3>2. rests => ~Market(c)
      OBVIOUS
    <3> HIDE DEF rests, stp, limit
    <3>3. limit = Limit(c)
      BY DEF limit
    <3> QED
      BY <2>1, <3>1, <3>2, <3>3
  <2> QED
    BY <2>8, <2>9, <2>10
<1> QED
  BY <1>1, <1>2

\* Where the index finds a resting order, and what the listener knows of it.
LEMMA Located ==
    ASSUME BookInv, Shows(view, book), NEW id \in DOMAIN index, NEW s, s = index[id].side,
           NEW p, p = index[id].price, NEW q, q = book[s][p], NEW k, k = Position(q, id)
    PROVE  /\ s \in Sides /\ p \in Prices /\ index[id] = [side |-> s, price |-> p]
           /\ k \in DOMAIN q /\ q[k].id = id /\ q[k] \in Order
           /\ view[id] = [side |-> s, price |-> p, qty |-> q[k].qty]
<1>1. s \in Sides /\ p \in Prices /\ index[id] = [side |-> s, price |-> p]
  BY DEF BookInv, BookTypes, Loc
<1>2. k \in DOMAIN q /\ q[k].id = id
  BY DEF BookInv, IndexedIsQueued, Position
<1>3. q \in Seq(Order)
  BY <1>1 DEF BookInv, BookTypes
<1>4. q[k] \in Order
  BY <1>2, <1>3
<1>5. view[q[k].id] = [side |-> s, price |-> p, qty |-> q[k].qty]
  BY <1>1, <1>2 DEF Shows
<1> QED
  BY <1>1, <1>2, <1>4, <1>5

\* What makes up the invariant after a step.
LEMMA NewView ==
    ASSUME NEW v, view' = v, NEW bk, book' = bk, Shows(v, bk),
           DOMAIN view' = DOMAIN index' \cup TakerIds',
           TakerIds' # {} => TakerShown'
    PROVE  ViewInv'
BY DEF ViewInv, Shows

\* cancel.
LEMMA CancelView ==
    ASSUME BookAssumption, Inv, ViewInv, NEW c \in CancelCommand, Cancel(c),
           view' = LearnAll(view, events')
    PROVE  ViewInv'
<1>1. CASE c.id \notin DOMAIN index
  BY <1>1, RejectView DEF Cancel
<1>2. CASE c.id \in DOMAIN index
  <2>1. PICK id : id = c.id
    OBVIOUS
  <2>2. PICK s, p : s = index[id].side /\ p = index[id].price
    OBVIOUS
  <2>3. PICK q : q = book[s][p]
    OBVIOUS
  <2>4. PICK k : k = Position(q, id)
    OBVIOUS
  <2>5. PICK n : n = q[k].qty
    OBVIOUS
  <2>6. PICK e : e = Canceled(id, s, p, n, "UserCanceled")
    OBVIOUS
  <2>7. PICK v : v = Learn(view, e)
    OBVIOUS
  <2>8. pc = "idle" /\ Remove(id) /\ events' = <<e>> /\ UNCHANGED <<taker, pc>>
    BY <1>2, <2>1, <2>2, <2>3, <2>4, <2>5, <2>6 DEF Cancel
  <2>9. view' = v
    <3>1. LearnAll(view, <<e>>) = Learn(view, e)
      BY LearnAllIs
    <3> QED
      BY <2>7, <2>8, <3>1
  <2>10. DOMAIN view = DOMAIN index /\ BookInv /\ Shows(view, book)
    BY <2>8, ViewFacts DEF ViewInv
  <2>11. n \in Nat /\ view[id].qty = n /\ id \in DOMAIN index
    <3>1. q[k] \in Order /\ view[id] = [side |-> s, price |-> p, qty |-> q[k].qty]
      BY <1>2, <2>1, <2>2, <2>3, <2>4, <2>10, Located
    <3> QED
      BY <1>2, <2>1, <2>5, <3>1 DEF Order
  <2>12. DOMAIN v = DOMAIN view \ {id} /\ \A j \in DOMAIN view : j # id => v[j] = view[j]
    <3>1. Forgets(v, view, id)
      BY <2>6, <2>7, <2>11, LearnCanceled
    <3> QED
      BY <3>1 DEF Forgets
  <2>13. Shows(v, book')
    BY <2>8, <2>10, <2>11, <2>12, RemoveShows
  <2>14. DOMAIN index' = DOMAIN index \ {id}
    BY <2>8 DEF Remove, Forget
  <2>15. TakerIds' = {}
    BY <2>8 DEF TakerIds
  <2> QED
    BY <2>9, <2>10, <2>12, <2>13, <2>14, <2>15 DEF ViewInv, Shows
<1> QED
  BY <1>1, <1>2

\* modify.
LEMMA ModifyView ==
    ASSUME BookAssumption, Inv, ViewInv, NEW c \in ModifyCommand, Modify(c),
           view' = LearnAll(view, events')
    PROVE  ViewInv'
<1>1. CASE ModifyReason(c) # "None"
  BY <1>1, RejectView DEF Modify
<1>2. CASE ModifyReason(c) = "None"
  <2>1. PICK id, px, n : id = c.id /\ px = c.price /\ n = c.qty
    OBVIOUS
  <2>2. PICK s, p : s = index[id].side /\ p = index[id].price
    OBVIOUS
  <2>3. PICK q : q = book[s][p]
    OBVIOUS
  <2>4. PICK k : k = Position(q, id)
    OBVIOUS
  <2>5. PICK e : e = Modified(id, s, px, n)
    OBVIOUS
  <2>6. PICK v : v = Learn(view, e)
    OBVIOUS
  <2>7. /\ id \in DOMAIN index /\ n \in Nat /\ n > 0 /\ pc = "idle"
        /\ events' = <<e>>
        /\ \/ px = p /\ Amend(c, index[c.id], q, k)
           \/ Reenter(c, index[c.id], q, k)
    <3>1. id \in DOMAIN index /\ c.qty # 0 /\ c.qty \in Nat
      BY <1>2, <2>1, BookAssumption DEF ModifyReason, ModifyCommand, BookAssumption
    <3> QED
      BY <1>2, <2>1, <2>2, <2>3, <2>4, <2>5, <3>1, SMTT(60) DEF Modify
  <2>8. view' = v
    <3>1. LearnAll(view, <<e>>) = Learn(view, e)
      BY LearnAllIs
    <3> QED
      BY <2>6, <2>7, <3>1
  <2>9. DOMAIN view = DOMAIN index /\ BookInv /\ Shows(view, book)
    BY <2>7, ViewFacts DEF ViewInv
  <2>10. /\ s \in Sides /\ p \in Prices /\ k \in DOMAIN q /\ q[k].id = id
    BY <2>2, <2>3, <2>4, <2>7, <2>9, Located
  <2>11. /\ DOMAIN v = DOMAIN view \cup {id}
         /\ v[id] = [side |-> s, price |-> px, qty |-> n]
         /\ \A j \in DOMAIN view : j # id => v[j] = view[j]
    <3>1. Knows(v, view, id, s, px, n)
      BY <2>5, <2>6, LearnKnown
    <3> QED
      BY <3>1 DEF Knows
  <2>12. CASE px = p /\ Amend(c, index[c.id], q, k)
    <3>1. PICK bk : bk = book'
      OBVIOUS
    <3>2. bk = SetQueue(s, p, [book[s][p] EXCEPT ![k].qty = n]) /\ UNCHANGED <<index, taker, pc>>
      BY <2>1, <2>2, <2>3, <2>12, <3>1 DEF Amend
    <3>3. Shows(v, bk)
      BY <2>3, <2>9, <2>10, <2>11, <2>12, <3>2, AmendShows
    <3>4. TakerIds' = {}
      BY <2>7, <3>2 DEF TakerIds
    <3>5. DOMAIN view' = DOMAIN index' \cup TakerIds'
      BY <2>7, <2>8, <2>9, <2>11, <3>2, <3>4
    <3> QED
      BY <2>8, <3>1, <3>3, <3>4, <3>5, NewView
  <2>13. CASE Reenter(c, index[c.id], q, k)
    <3>1. /\ Remove(id) /\ pc' = "sweep"
          /\ taker'.id = id /\ taker'.side = s /\ taker'.limit = px /\ taker'.qty = n
      BY <2>1, <2>2, <2>13 DEF Reenter
    <3>2. Shows(v, book')
      BY <2>7, <2>9, <2>11, <3>1, RemoveShows
    <3>3. DOMAIN index' = DOMAIN index \ {id}
      BY <3>1 DEF Remove, Forget
    <3>4. TakerIds' = {id}
      BY <2>7, <3>1 DEF TakerIds
    <3>5. TakerShown'
      BY <2>8, <2>11, <3>1 DEF TakerShown
    <3>6. DOMAIN view' = DOMAIN index' \cup TakerIds'
      BY <2>7, <2>8, <2>9, <2>11, <3>3, <3>4
    <3>7. PICK bk : bk = book'
      OBVIOUS
    <3> QED
      BY <2>8, <3>2, <3>5, <3>6, <3>7, NewView
  <2> QED
    BY <2>7, <2>12, <2>13
<1> QED
  BY <1>1, <1>2

-----------------------------------------------------------------------------
(* The match loop, as the events tell it. *)

\* The maker and the taker, as the listener knows them.
LEMMA Meeting ==
    ASSUME BookAssumption, Inv, ViewInv, Matching,
           NEW s, s = Opposite(taker.side), NEW p, p = Best(s), NEW m, m = Maker
    PROVE  /\ s \in Sides /\ p \in Prices /\ 1 \in DOMAIN book[s][p] /\ book[s][p][1] = m
           /\ m.qty \in Nat /\ m.qty > 0 /\ m.id \in DOMAIN index
           /\ view[m.id] = [side |-> s, price |-> p, qty |-> m.qty]
           /\ taker \in Takers /\ taker.qty \in Nat /\ taker.qty > 0 /\ pc = "sweep"
           /\ taker.id \notin DOMAIN index /\ taker.id # m.id
           /\ DOMAIN view = DOMAIN index \cup {taker.id} /\ TakerIds = {taker.id} /\ TakerShown
           /\ BookInv /\ Shows(view, book)
<1>1. /\ taker \in Takers /\ s \in Sides /\ p \in Prices /\ 1 \in DOMAIN book[s][p]
      /\ book[s][p][1] = m /\ m \in Order
  BY MakerFacts
<1>2. pc = "sweep" /\ taker.qty > 0 /\ taker.qty \in Nat
  BY <1>1 DEF Matching, Takers
<1>3. /\ BookInv /\ taker.id \notin DOMAIN index
      /\ DOMAIN view = DOMAIN index \cup {taker.id} /\ TakerShown
  BY <1>2, ViewFacts
<1>4. Shows(view, book)
  BY DEF ViewInv
<1>5. m.id \in DOMAIN index /\ view[m.id] = [side |-> s, price |-> p, qty |-> m.qty]
  <2>1. book[s][p][1].id \in DOMAIN index
    BY <1>1, <1>3 DEF BookInv, QueuedIsIndexed
  <2>2. view[book[s][p][1].id] = [side |-> s, price |-> p, qty |-> book[s][p][1].qty]
    BY <1>1, <1>4 DEF Shows
  <2> QED
    BY <1>1, <2>1, <2>2
<1>6. m.qty \in Nat /\ m.qty > 0
  BY <1>1 DEF Order
<1>7. TakerIds = {taker.id}
  BY <1>2 DEF TakerIds
<1>8. taker.id # m.id
  BY <1>3, <1>5
<1> QED
  BY <1>1, <1>2, <1>3, <1>4, <1>5, <1>6, <1>7, <1>8

\* The maker has less and stays where it is.
LEMMA SetMakerQtyShows ==
    ASSUME BookAssumption, Inv, ViewInv, Matching, NEW n, SetMakerQty(n), NEW v,
           \A j \in DOMAIN index : j # Maker.id => v[j] = view[j],
           NEW s, s = Opposite(taker.side), NEW p, p = Best(s),
           v[Maker.id] = [side |-> s, price |-> p, qty |-> n]
    PROVE  Shows(v, book')
<1>1. PICK m : m = Maker
  OBVIOUS
<1>2. /\ s \in Sides /\ p \in Prices /\ 1 \in DOMAIN book[s][p] /\ book[s][p][1] = m
      /\ BookInv /\ Shows(view, book)
  <2>1. BookInv /\ Shows(view, book)
    BY ViewFacts DEF ViewInv
  <2> QED
    BY <1>1, <2>1, MakerFacts
<1>3. PICK bk : bk = book'
  OBVIOUS
<1>4. bk = SetQueue(s, p, [book[s][p] EXCEPT ![1].qty = n])
  BY <1>2, <1>3 DEF SetMakerQty, SetQueue, BookInv, BookTypes
<1>5. /\ \A j \in DOMAIN index : j # book[s][p][1].id => v[j] = view[j]
      /\ v[book[s][p][1].id] = [side |-> s, price |-> p, qty |-> n]
  BY <1>1, <1>2
<1>6. Shows(v, bk)
  BY <1>2, <1>4, <1>5, AmendShows
<1> QED
  BY <1>3, <1>6

\* The taker stops against an order of its own.
LEMMA StopView ==
    ASSUME BookAssumption, Inv, ViewInv, MatchStop, view' = LearnAll(view, events')
    PROVE  ViewInv'
<1>1. Matching /\ taker' = [taker EXCEPT !.stop = TRUE] /\ events' = <<>> /\ UNCHANGED <<book, index, pc>>
  BY DEF MatchStop
<1>2. /\ taker \in Takers /\ taker.qty \in Nat /\ taker.qty > 0 /\ pc = "sweep"
      /\ DOMAIN view = DOMAIN index \cup {taker.id} /\ TakerShown /\ Shows(view, book)
  BY <1>1, Meeting
<1>3. view' = view
  <2>1. LearnAll(view, <<>>) = view
    BY LearnAllIs
  <2> QED
    BY <1>1, <2>1
<1>4. /\ taker'.id = taker.id /\ taker'.qty = taker.qty /\ taker'.side = taker.side
      /\ taker'.limit = taker.limit /\ taker'.rests = taker.rests
  BY <1>1, <1>2 DEF Takers
<1>5. TakerIds' = {taker.id}
  BY <1>1, <1>2, <1>4 DEF TakerIds
<1>6. TakerShown'
  BY <1>2, <1>3, <1>4 DEF TakerShown
<1>7. PICK v, bk : v = view /\ bk = book
  OBVIOUS
<1> QED
  BY <1>1, <1>2, <1>3, <1>5, <1>6, <1>7, NewView

\* The maker gives up as much as the taker has left.
LEMMA DecrementView ==
    ASSUME BookAssumption, Inv, ViewInv, MatchDecrementMaker, view' = LearnAll(view, events')
    PROVE  ViewInv'
<1>1. PICK s : s = Opposite(taker.side)
  OBVIOUS
<1>2. PICK p, m : p = Best(s) /\ m = Maker
  OBVIOUS
<1>3. PICK id, n : id = m.id /\ n = m.qty - taker.qty
  OBVIOUS
<1>4. PICK e : e = StpDecrement(id, s, p, n)
  OBVIOUS
<1>5. PICK v : v = Learn(view, e)
  OBVIOUS
<1>6. /\ Matching /\ SetMakerQty(n) /\ taker' = [taker EXCEPT !.stop = TRUE] /\ events' = <<e>>
      /\ pc' = pc /\ index' = index
  BY <1>1, <1>2, <1>3, <1>4 DEF MatchDecrementMaker, SetMakerQty
<1>7. /\ taker \in Takers /\ taker.qty \in Nat /\ taker.qty > 0 /\ pc = "sweep"
      /\ id \in DOMAIN index /\ taker.id \notin DOMAIN index /\ taker.id # id
      /\ DOMAIN view = DOMAIN index \cup {taker.id} /\ TakerShown
  BY <1>1, <1>2, <1>3, <1>6, Meeting
<1>8. view' = v
  <2>1. LearnAll(view, <<e>>) = Learn(view, e)
    BY LearnAllIs
  <2> QED
    BY <1>5, <1>6, <2>1
<1>9. /\ DOMAIN v = DOMAIN view \cup {id}
      /\ v[id] = [side |-> s, price |-> p, qty |-> n]
      /\ \A j \in DOMAIN view : j # id => v[j] = view[j]
  <2>1. Knows(v, view, id, s, p, n)
    BY <1>4, <1>5, LearnKnown
  <2> QED
    BY <2>1 DEF Knows
<1>10. Shows(v, book')
  <2>1. /\ \A j \in DOMAIN index : j # Maker.id => v[j] = view[j]
        /\ v[Maker.id] = [side |-> s, price |-> p, qty |-> n]
    BY <1>2, <1>3, <1>7, <1>9
  <2> QED
    BY <1>1, <1>2, <1>6, <2>1, SetMakerQtyShows
<1>11. /\ taker'.id = taker.id /\ taker'.qty = taker.qty /\ taker'.side = taker.side
       /\ taker'.limit = taker.limit /\ taker'.rests = taker.rests
  BY <1>6, <1>7 DEF Takers
<1>12. TakerIds' = {taker.id}
  BY <1>6, <1>7, <1>11 DEF TakerIds
<1>13. TakerShown'
  BY <1>7, <1>8, <1>9, <1>11, ZenonT(40) DEF TakerShown
<1>14. DOMAIN view' = DOMAIN index' \cup TakerIds'
  BY <1>6, <1>7, <1>8, <1>9, <1>12
<1>15. PICK bk : bk = book'
  OBVIOUS
<1> QED
  BY <1>8, <1>10, <1>13, <1>14, <1>15, NewView

\* The maker is cancelled, and the taker perhaps decremented.
LEMMA CancelMakerView ==
    ASSUME BookAssumption, Inv, ViewInv, MatchCancelMaker, view' = LearnAll(view, events')
    PROVE  ViewInv'
<1>1. PICK s : s = Opposite(taker.side)
  OBVIOUS
<1>2. PICK p, m : p = Best(s) /\ m = Maker
  OBVIOUS
<1>3. PICK id, n, left : id = m.id /\ n = m.qty /\ left = taker.qty - m.qty
  OBVIOUS
<1>4. PICK t, side, limit : t = taker.id /\ side = taker.side /\ limit = taker.limit
  OBVIOUS
<1>5. PICK e, f : e = Canceled(id, s, p, n, "SelfTrade") /\ f = StpDecrement(t, side, limit, left)
  OBVIOUS
<1>6. PICK v, w : v = Learn(view, e) /\ w = Learn(v, f)
  OBVIOUS
<1>7. /\ Matching /\ PopMaker /\ pc' = pc
      /\ \/ events' = <<e>> /\ taker' = taker
         \/ events' = <<e>> /\ taker' = [taker EXCEPT !.stop = TRUE]
         \/ left > 0 /\ events' = <<e, f>> /\ taker' = [taker EXCEPT !.qty = left]
  BY <1>1, <1>2, <1>3, <1>4, <1>5 DEF MatchCancelMaker
<1>8. /\ taker \in Takers /\ taker.qty \in Nat /\ taker.qty > 0 /\ pc = "sweep"
      /\ id \in DOMAIN index /\ t \notin DOMAIN index /\ t # id /\ n \in Nat
      /\ view[id] = [side |-> s, price |-> p, qty |-> n]
      /\ DOMAIN view = DOMAIN index \cup {t} /\ TakerShown /\ Shows(view, book)
  <2>1. /\ taker \in Takers /\ taker.qty \in Nat /\ taker.qty > 0 /\ pc = "sweep"
        /\ m.id \in DOMAIN index /\ taker.id \notin DOMAIN index /\ taker.id # m.id
        /\ m.qty \in Nat /\ view[m.id] = [side |-> s, price |-> p, qty |-> m.qty]
        /\ DOMAIN view = DOMAIN index \cup {taker.id} /\ TakerShown /\ Shows(view, book)
    BY <1>1, <1>2, <1>7, Meeting, SMTT(30)
  <2> QED
    BY <1>3, <1>4, <2>1
<1>9. DOMAIN index' = DOMAIN index \ {id}
  BY <1>2, <1>3, <1>7 DEF PopMaker, Forget
<1>10. DOMAIN v = DOMAIN view \ {id} /\ \A j \in DOMAIN view : j # id => v[j] = view[j]
  <2>1. view[id].qty = n
    BY <1>8
  <2>2. Forgets(v, view, id)
    BY <1>5, <1>6, <1>8, <2>1, LearnCanceled
  <2> QED
    BY <2>2 DEF Forgets
<1>11. PICK bk : bk = book'
  OBVIOUS
<1>12. ASSUME NEW u, \A j \in DOMAIN view : j # id /\ j # t => u[j] = view[j]
       PROVE  Shows(u, bk)
  <2>1. \A j \in DOMAIN index : j # Maker.id => u[j] = view[j]
    BY <1>2, <1>3, <1>8, <1>12
  <2> QED
    BY <1>7, <1>8, <1>11, <2>1, PopMakerShows
<1>13. CASE /\ events' = <<e>>
            /\ taker' = taker \/ taker' = [taker EXCEPT !.stop = TRUE]
  <2>1. view' = v
    <3>1. LearnAll(view, <<e>>) = Learn(view, e)
      BY LearnAllIs
    <3> QED
      BY <1>6, <1>13, <3>1
  <2>2. /\ taker'.id = taker.id /\ taker'.qty = taker.qty /\ taker'.side = taker.side
        /\ taker'.limit = taker.limit /\ taker'.rests = taker.rests
    BY <1>8, <1>13 DEF Takers
  <2>3. TakerIds' = {t}
    BY <1>4, <1>7, <1>8, <2>2 DEF TakerIds
  <2>4. TakerShown'
    BY <1>4, <1>8, <1>10, <2>1, <2>2, ZenonT(40) DEF TakerShown
  <2>5. DOMAIN view' = DOMAIN index' \cup TakerIds'
    BY <1>8, <1>9, <1>10, <2>1, <2>3
  <2>6. Shows(v, bk)
    BY <1>10, <1>12
  <2> QED
    BY <1>11, <2>1, <2>4, <2>5, <2>6, NewView
<1>14. CASE left > 0 /\ events' = <<e, f>> /\ taker' = [taker EXCEPT !.qty = left]
  <2>1. view' = w
    <3>1. LearnAll(view, <<e, f>>) = Learn(Learn(view, e), f)
      BY LearnTwo
    <3> QED
      BY <1>6, <1>14, <3>1
  <2>2. /\ DOMAIN w = DOMAIN v \cup {t}
        /\ w[t] = [side |-> side, price |-> limit, qty |-> left]
        /\ \A j \in DOMAIN v : j # t => w[j] = v[j]
    <3>1. Knows(w, v, t, side, limit, left)
      BY <1>5, <1>6, LearnKnown
    <3> QED
      BY <3>1 DEF Knows
  <2>3. taker'.id = t /\ taker'.qty = left /\ taker'.side = side /\ taker'.limit = limit
    BY <1>4, <1>8, <1>14 DEF Takers
  <2>4. TakerIds' = {t}
    BY <1>7, <1>8, <1>14, <2>3 DEF TakerIds
  <2>5. TakerShown'
    BY <2>1, <2>2, <2>3 DEF TakerShown
  <2>6. DOMAIN view' = DOMAIN index' \cup TakerIds'
    BY <1>8, <1>9, <1>10, <2>1, <2>2, <2>4
  <2>7. Shows(w, bk)
    <3>1. \A j \in DOMAIN view : j # id /\ j # t => w[j] = view[j]
      BY <1>10, <2>2
    <3> QED
      BY <1>12, <3>1
  <2> QED
    BY <1>11, <2>1, <2>5, <2>6, <2>7, NewView
<1> QED
  BY <1>7, <1>13, <1>14

\* A trade.
LEMMA TradeView ==
    ASSUME BookAssumption, Inv, ViewInv, MatchTrade, view' = LearnAll(view, events')
    PROVE  ViewInv'
<1>1. PICK s : s = Opposite(taker.side)
  OBVIOUS
<1>2. PICK p, m : p = Best(s) /\ m = Maker
  OBVIOUS
<1>3. PICK id, t, side : id = m.id /\ t = taker.id /\ side = taker.side
  OBVIOUS
<1>4. PICK fill : fill = IF m.qty < taker.qty THEN m.qty ELSE taker.qty
  OBVIOUS
<1>5. PICK left, rest : left = m.qty - fill /\ rest = taker.qty - fill
  OBVIOUS
<1>6. PICK v : v = SetQty(view, t, rest)
  OBVIOUS
<1>7. PICK w : w = SetQty(v, id, left)
  OBVIOUS
<1>8. PICK e : e = Trade(t, id, side, p, fill, left)
  OBVIOUS
<1>9. /\ Matching /\ events' = <<e>> /\ pc' = pc
      /\ taker' = [taker EXCEPT !.qty = @ - fill]
      /\ IF left = 0 THEN PopMaker ELSE SetMakerQty(left)
  BY <1>1, <1>2, <1>3, <1>4, <1>5, <1>8 DEF MatchTrade
<1>10. /\ taker \in Takers /\ taker.qty \in Nat /\ taker.qty > 0 /\ pc = "sweep"
       /\ id \in DOMAIN index /\ t \notin DOMAIN index /\ t # id /\ m.qty \in Nat
       /\ view[id] = [side |-> s, price |-> p, qty |-> m.qty]
       /\ DOMAIN view = DOMAIN index \cup {t} /\ TakerShown /\ Shows(view, book)
  BY <1>1, <1>2, <1>3, <1>9, Meeting
<1>11. left \in Nat /\ rest \in Nat /\ fill \in Nat
  BY <1>4, <1>5, <1>10
<1>12. PICK px : /\ view[t] = [side |-> side, price |-> px, qty |-> taker.qty]
                 /\ taker.rests => px = taker.limit
  BY <1>3, <1>10 DEF TakerShown
<1>13. /\ DOMAIN v = DOMAIN view \ {j \in {t} : rest = 0}
       /\ rest # 0 => v[t] = [side |-> side, price |-> px, qty |-> rest]
       /\ \A j \in DOMAIN view : j # t => v[j] = view[j]
  <2>1. t \in DOMAIN view
    BY <1>10
  <2>2. Leaves(v, view, t, side, px, rest)
    BY <1>6, <1>11, <1>12, <2>1, SetQtyFacts
  <2> QED
    BY <2>2 DEF Leaves
<1>14. /\ DOMAIN w = DOMAIN v \ {j \in {id} : left = 0}
       /\ left # 0 => w[id] = [side |-> s, price |-> p, qty |-> left]
       /\ \A j \in DOMAIN v : j # id => w[j] = v[j]
  <2>1. id \in DOMAIN v /\ v[id] = [side |-> s, price |-> p, qty |-> m.qty]
    BY <1>10, <1>13
  <2>2. Leaves(w, v, id, s, p, left)
    BY <1>7, <1>11, <2>1, SetQtyFacts
  <2> QED
    BY <2>2 DEF Leaves
<1>15. view' = w
  <2>1. LearnAll(view, <<e>>) = Learn(view, e)
    BY LearnAllIs
  <2>2. Learn(view, e) = SetQty(SetQty(view, t, view[t].qty - fill), id, left)
    BY <1>8, LearnTrade
  <2>3. view[t].qty - fill = rest
    BY <1>5, <1>12
  <2> QED
    BY <1>6, <1>7, <1>9, <2>1, <2>2, <2>3
<1>16. \A j \in DOMAIN index : j # id => w[j] = view[j]
  BY <1>10, <1>13, <1>14
<1>17. Shows(w, book') /\ DOMAIN index' = DOMAIN index \ {j \in {id} : left = 0}
  <2>1. \A j \in DOMAIN index : j # Maker.id => w[j] = view[j]
    BY <1>2, <1>3, <1>16
  <2>2. CASE left = 0
    <3>1. Shows(w, book')
      BY <1>9, <1>10, <2>1, <2>2, PopMakerShows
    <3>2. DOMAIN index' = DOMAIN index \ {id}
      BY <1>2, <1>3, <1>9, <2>2 DEF PopMaker, Forget
    <3> QED
      BY <2>2, <3>1, <3>2
  <2>3. CASE left # 0
    <3>1. w[Maker.id] = [side |-> s, price |-> p, qty |-> left]
      BY <1>2, <1>3, <1>14, <2>3
    <3>2. Shows(w, book')
      BY <1>1, <1>2, <1>9, <2>1, <2>3, <3>1, SetMakerQtyShows
    <3>3. index' = index
      BY <1>9, <2>3 DEF SetMakerQty
    <3> QED
      BY <2>3, <3>2, <3>3
  <2> QED
    BY <2>2, <2>3
<1>18. /\ taker'.id = t /\ taker'.qty = rest /\ taker'.side = side
       /\ taker'.limit = taker.limit /\ taker'.rests = taker.rests
  BY <1>3, <1>5, <1>9, <1>10 DEF Takers
<1>19. TakerIds' = {j \in {t} : rest # 0}
  BY <1>9, <1>10, <1>11, <1>18 DEF TakerIds
<1>20. TakerIds' # {} => TakerShown'
  <2> SUFFICES ASSUME TakerIds' # {} PROVE TakerShown'
    OBVIOUS
  <2>1. rest # 0
    BY <1>19
  <2>2. w[t] = [side |-> side, price |-> px, qty |-> rest]
    BY <1>10, <1>13, <1>14, <2>1
  <2> QED
    BY <1>12, <1>15, <1>18, <2>2 DEF TakerShown
<1>21. DOMAIN view' = DOMAIN index' \cup TakerIds'
  <2>1. DOMAIN w = (DOMAIN index \cup {t}) \ ({j \in {t} : rest = 0} \cup {j \in {id} : left = 0})
    BY <1>10, <1>13, <1>14
  <2> QED
    BY <1>10, <1>15, <1>17, <1>19, <2>1
<1>22. PICK bk : bk = book'
  OBVIOUS
<1> QED
  BY <1>15, <1>17, <1>20, <1>21, <1>22, NewView

\* The end of the match: the taker is gone, or it rests.
LEMMA FinishView ==
    ASSUME BookAssumption, Inv, ViewInv, FinishMatch, view' = LearnAll(view, events')
    PROVE  ViewInv'
<1>1. PICK t, side, n : t = taker.id /\ side = taker.side /\ n = taker.qty
  OBVIOUS
<1>2. pc = "sweep" /\ taker' = NoTaker /\ pc' = "idle"
  BY DEF FinishMatch, FinishFilled, FinishStopped, FinishExpired, FinishFull, FinishRest, Drop,
         Finish
<1>3. /\ BookInv /\ Shows(view, book) /\ taker \in Takers /\ t \notin DOMAIN index /\ n \in Nat
      /\ n > 0 => DOMAIN view = DOMAIN index \cup {t} /\ TakerShown
      /\ n = 0 => DOMAIN view = DOMAIN index
  <2>1. /\ BookInv /\ taker \in Takers /\ taker.id \notin DOMAIN index
        /\ taker.qty > 0 => DOMAIN view = DOMAIN index \cup {taker.id} /\ TakerShown
        /\ taker.qty = 0 => DOMAIN view = DOMAIN index
    BY <1>2, ViewFacts
  <2>2. taker.qty \in Nat
    BY <2>1 DEF Takers
  <2> QED
    BY <1>1, <2>1, <2>2 DEF ViewInv
<1>4. TakerIds' = {}
  BY <1>2 DEF TakerIds
<1>5. PICK bk : bk = book'
  OBVIOUS
<1>6. ASSUME events' = <<>> PROVE view' = view
  <2>1. LearnAll(view, <<>>) = view
    BY LearnAllIs
  <2> QED
    BY <1>6, <2>1
<1>7. CASE FinishFilled
  <2>1. n = 0 /\ events' = <<>> /\ UNCHANGED <<book, index>>
    BY <1>1, <1>7 DEF FinishFilled, Finish
  <2>2. PICK v : v = view
    OBVIOUS
  <2> QED
    BY <1>3, <1>4, <1>5, <1>6, <2>1, <2>2, NewView
<1>8. ASSUME NEW reason, n > 0, Drop(reason) PROVE ViewInv'
  <2>1. PICK px : px = taker.px
    OBVIOUS
  <2>2. PICK e : e = Canceled(t, side, px, n, reason)
    OBVIOUS
  <2>3. PICK v : v = Learn(view, e)
    OBVIOUS
  <2>4. events' = <<e>> /\ UNCHANGED <<book, index>>
    BY <1>1, <1>8, <2>1, <2>2 DEF Drop, Finish
  <2>5. view' = v
    <3>1. LearnAll(view, <<e>>) = Learn(view, e)
      BY LearnAllIs
    <3> QED
      BY <2>3, <2>4, <3>1
  <2>6. DOMAIN v = DOMAIN view \ {t} /\ \A j \in DOMAIN view : j # t => v[j] = view[j]
    <3>1. view[t].qty = n
      BY <1>1, <1>3, <1>8, ShownQty
    <3>2. Forgets(v, view, t)
      BY <1>3, <2>2, <2>3, <3>1, LearnCanceled
    <3> QED
      BY <3>2 DEF Forgets
  <2>7. \A j \in DOMAIN index : v[j] = view[j]
    BY <1>3, <1>8, <2>6
  <2>8. Shows(v, book)
    BY <1>3, <2>7, SameShows
  <2>9. DOMAIN view' = DOMAIN index' \cup TakerIds'
    BY <1>3, <1>4, <1>8, <2>4, <2>5, <2>6
  <2>10. Shows(v, bk)
    BY <1>5, <2>4, <2>8 DEF Shows
  <2> QED
    BY <1>4, <1>5, <2>5, <2>9, <2>10, NewView
<1>9. CASE FinishRest
  <2>1. /\ n > 0 /\ taker.rests /\ events' = <<>>
        /\ DOMAIN index' = DOMAIN index \cup {t}
    BY <1>1, <1>9 DEF FinishRest, Remainder, Finish
  <2>2. PICK p : p = taker.limit
    OBVIOUS
  <2>3. PICK o : o = [id |-> taker.id, qty |-> taker.qty, owner |-> taker.owner]
    OBVIOUS
  <2>4. side \in Sides /\ p \in Prices /\ o \in Order /\ o.id = t /\ o.qty = n
    BY <1>1, <1>3, <2>1, <2>2, <2>3 DEF Takers, Order
  <2>5. bk = SetQueue(side, p, Append(book[side][p], o))
    BY <1>1, <1>3, <1>5, <1>9, <2>2, <2>3, <2>4 DEF FinishRest, SetQueue, BookInv, BookTypes
  <2>6. PICK v : v = view
    OBVIOUS
  <2>7. v[o.id] = [side |-> side, price |-> p, qty |-> o.qty]
    BY <1>1, <1>3, <2>1, <2>2, <2>4, <2>6 DEF TakerShown
  <2>8. o.id \notin DOMAIN index /\ \A j \in DOMAIN index : v[j] = view[j]
    BY <1>3, <2>4, <2>6
  <2>9. Shows(v, bk)
    BY <1>3, <2>4, <2>5, <2>7, <2>8, AppendShows
  <2>10. view' = v
    BY <1>6, <2>1, <2>6
  <2>11. DOMAIN view' = DOMAIN index' \cup TakerIds'
    BY <1>3, <1>4, <2>1, <2>6, <2>10
  <2> QED
    BY <1>4, <1>5, <2>9, <2>10, <2>11, NewView
<1>10. CASE FinishStopped
  BY <1>1, <1>8, <1>10 DEF FinishStopped
<1>11. CASE FinishExpired
  BY <1>1, <1>8, <1>11 DEF FinishExpired
<1>12. CASE FinishFull
  BY <1>1, <1>8, <1>12 DEF FinishFull, Remainder
<1> QED
  BY <1>7, <1>9, <1>10, <1>11, <1>12 DEF FinishMatch

\* The events of a step tell of the book it leaves.
LEMMA ViewStep ==
    ASSUME BookAssumption, Inv, ViewInv, [EventsNext]_eventVars
    PROVE  ViewInv'
<1>1. CASE UNCHANGED eventVars
  BY <1>1, SameView DEF eventVars
<1>2. CASE EventsNext
  <2>1. Next /\ view' = LearnAll(view, events')
    BY <1>2 DEF EventsNext
  <2>2. CASE Match
    BY <2>1, <2>2, StopView, DecrementView, CancelMakerView, TradeView DEF Match
  <2>3. CASE FinishMatch
    BY <2>1, <2>3, FinishView
  <2>4. ASSUME NEW c \in CancelCommand, Cancel(c) PROVE ViewInv'
    BY <2>1, <2>4, CancelView
  <2>5. ASSUME NEW c \in ModifyCommand, Modify(c) PROVE ViewInv'
    BY <2>1, <2>5, ModifyView
  <2>6. ASSUME NEW c \in AddCommand, Add(c) PROVE ViewInv'
    BY <2>1, <2>6, AddView
  <2> QED
    BY <2>1, <2>2, <2>3, <2>4, <2>5, <2>6 DEF Next
<1> QED
  BY <1>1, <1>2

\* The events are enough: a listener that knows nothing but the event stream
\* knows every resting order (side, price and open quantity) and the remainder
\* of the order being matched, after every step of every handler, for any book,
\* any capacity and any self-trade mode (the Event of common.hpp as the handlers
\* of reference_book.hpp fill it in).
THEOREM EventsAreEnough == EventsSpec => []EventsTellTheBook
<1>1. EventsInit => Inv /\ ViewInv
  <2> SUFFICES ASSUME EventsInit PROVE Inv /\ ViewInv
    OBVIOUS
  <2>1. Init /\ view = <<>>
    BY DEF EventsInit
  <2>2. Inv
    BY <2>1, InitInv, BookAssumption
  <2>3. TakerIds = {} /\ DOMAIN view = {} /\ DOMAIN index = {}
    BY <2>1 DEF Init, TakerIds
  <2>4. Shows(view, book)
    BY <2>1 DEF Init, Shows
  <2> QED
    BY <2>2, <2>3, <2>4 DEF ViewInv
<1>2. Inv /\ ViewInv /\ [EventsNext]_eventVars => (Inv /\ ViewInv)'
  <2> SUFFICES ASSUME Inv, ViewInv, [EventsNext]_eventVars PROVE Inv' /\ ViewInv'
    OBVIOUS
  <2>1. [Next]_vars
    BY DEF EventsNext, eventVars, vars
  <2> QED
    BY <2>1, NextInv, ViewStep, BookAssumption
<1>3. Inv /\ ViewInv => EventsTellTheBook
  <2> SUFFICES ASSUME Inv, ViewInv PROVE EventsTellTheBook
    OBVIOUS
  <2>1. BookInv /\ Shows(view, book)
    BY ViewFacts DEF ViewInv
  <2>2. ASSUME NEW id \in DOMAIN index
        PROVE  view[id] = [side |-> index[id].side, price |-> index[id].price,
                           qty |-> RestingQty(id)]
    <3>1. PICK s, p : s = index[id].side /\ p = index[id].price
      OBVIOUS
    <3>2. PICK q : q = book[s][p]
      OBVIOUS
    <3>3. PICK k : k = Position(q, id)
      OBVIOUS
    <3>4. view[id] = [side |-> s, price |-> p, qty |-> q[k].qty]
      BY <2>1, <3>1, <3>2, <3>3, Located
    <3>5. RestingQty(id) = q[k].qty
      BY <3>1, <3>2, <3>3 DEF RestingQty
    <3> QED
      BY <3>1, <3>4, <3>5
  <2>3. pc = "sweep" /\ taker.qty > 0 => view[taker.id].qty = taker.qty
    BY ViewFacts, ShownQty
  <2> QED
    BY <2>2, <2>3 DEF EventsTellTheBook, ViewInv, TakerIds
<1> QED
  BY <1>1, <1>2, <1>3, PTL DEF EventsSpec
=============================================================================
