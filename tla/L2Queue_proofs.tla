--------------------------- MODULE L2Queue_proofs ---------------------------
(***************************************************************************)
(* Proofs about the L2 matching model, for any set of prices, any orders,  *)
(* any market events and any latency: what takers are offered was          *)
(* displayed and not taken, the queue agrees with the orders, and orders   *)
(* in a queue only move forward.                                           *)
(***************************************************************************)
EXTENDS L2Queue, Induction

-----------------------------------------------------------------------------
(* The kinds of values.                                                    *)
Place  == [level : Sides \X Prices, priority : Nat \X Nat \X Nat, remaining : Nat, ahead : Nat]
Entry  == [intent : Intents, created : Nat, filled : Nat]
Books  == [Sides -> [Prices -> Nat]]
Queues == UNION {[D -> Place] : D \in SUBSET used}
Stops  == UNION {[D -> Nat] : D \in SUBSET used}
Orders == UNION {[D -> Entry] : D \in SUBSET used}

Matching == [known : BOOLEAN, book : Books, overlay : Books, queue : Queues, stopAt : Stops]

Typed ==
  /\ used \subseteq Keys /\ IsFiniteSet(used)
  /\ orders \in Orders /\ now \in Nat
  /\ known \in BOOLEAN /\ book \in Books /\ overlay \in Books
  /\ queue \in Queues /\ stopAt \in Stops
  /\ displayed \in [Sides -> [Prices -> Int]]

(* No order is open that has nothing left to fill.                         *)
Unfilled == \A k \in DOMAIN orders : Remaining(k) \in Nat \ {0}

(* What an event does to the place of an open order: it keeps its level    *)
(* and its priority and moves forward.                                     *)
Onward(q, r) ==
  \A k \in DOMAIN orders \cap DOMAIN q :
    /\ k \in DOMAIN r
    /\ r[k].level = q[k].level /\ r[k].priority = q[k].priority
    /\ r[k].ahead <= q[k].ahead /\ r[k].remaining <= q[k].remaining

-----------------------------------------------------------------------------
(* What belongs to these kinds.                                            *)
LEMMA QueueIs ==
  ASSUME NEW q \in Queues
  PROVE  /\ q = [k \in DOMAIN q |-> q[k]] /\ DOMAIN q \subseteq used
         /\ \A k \in DOMAIN q : /\ q[k] \in Place
                                /\ q[k].ahead \in Nat /\ q[k].remaining \in Nat
<1>1. PICK D \in SUBSET used : q \in [D -> Place]
  BY DEF Queues
<1>2. \A k \in D : q[k] \in Place
  BY <1>1
<1>3. \A k \in D : q[k].ahead \in Nat /\ q[k].remaining \in Nat
  BY <1>2 DEF Place
<1> QED BY <1>1, <1>2, <1>3

(* A function of places over a set of keys that name orders is a queue.    *)
LEMMA IsQueue ==
  ASSUME NEW D \in SUBSET used, NEW q, q = [k \in D |-> q[k]], \A k \in D : q[k] \in Place
  PROVE  q \in Queues
<1>1. q \in [D -> Place]
  OBVIOUS
<1> QED BY <1>1 DEF Queues

(* What Typed says of the open orders.                                     *)
LEMMA OrderIs ==
  ASSUME Typed
  PROVE  /\ DOMAIN orders \subseteq used /\ orders = [k \in DOMAIN orders |-> orders[k]]
         /\ IsFiniteSet(DOMAIN orders) /\ DOMAIN orders \subseteq Keys
         /\ \A k \in DOMAIN orders :
              /\ orders[k] \in Entry /\ orders[k].intent \in Intents
              /\ orders[k].created \in Nat /\ orders[k].filled \in Nat
              /\ orders[k].intent.side \in Sides /\ orders[k].intent.quantity \in Nat \ {0}
              /\ HasLimit(orders[k].intent) => orders[k].intent.limit \in Prices
<1>1. PICK D \in SUBSET used : orders \in [D -> Entry]
  BY DEF Orders, Typed
<1>2. DOMAIN orders = D /\ orders = [k \in DOMAIN orders |-> orders[k]]
  BY <1>1
<1>3. \A k \in D : orders[k] \in Entry
  BY <1>1
<1>4. \A k \in D : orders[k].intent \in Intents /\ orders[k].created \in Nat /\ orders[k].filled \in Nat
  BY <1>3 DEF Entry
<1>5. \A i \in Intents : i.side \in Sides /\ i.quantity \in Nat \ {0} /\ (HasLimit(i) => i.limit \in Prices)
  BY L2Assumption DEF Sides, HasLimit
<1>6. IsFiniteSet(DOMAIN orders) /\ DOMAIN orders \subseteq Keys
  BY <1>2, FS_Subset DEF Typed
<1> QED BY <1>2, <1>3, <1>4, <1>5, <1>6

(* What the triggered stops are, and what makes them so.                   *)
LEMMA StopsIs ==
  ASSUME NEW s \in Stops
  PROVE  /\ s = [k \in DOMAIN s |-> s[k]] /\ DOMAIN s \subseteq used
         /\ \A k \in DOMAIN s : s[k] \in Nat
<1>1. PICK D \in SUBSET used : s \in [D -> Nat]
  BY DEF Stops
<1> QED BY <1>1

LEMMA IsStops ==
  ASSUME NEW D \in SUBSET used, NEW s, s = [k \in D |-> s[k]], \A k \in D : s[k] \in Nat
  PROVE  s \in Stops
<1>1. s \in [D -> Nat]
  OBVIOUS
<1> QED BY <1>1 DEF Stops

(* There are two sides, each the other's other.                            *)
LEMMA SidesAre ==
  /\ \A s \in Sides : Other(s) \in Sides /\ Other(Other(s)) = s /\ Other(s) # s
  /\ \A s, r \in Sides : s # r => r = Other(s)
BY DEF Sides, Other

(* Moving forward is transitive.                                           *)
LEMMA OnwardOnward ==
  ASSUME Typed, NEW a \in Queues, NEW b \in Queues, NEW c \in Queues, Onward(a, b), Onward(b, c)
  PROVE  Onward(a, c)
<1> SUFFICES ASSUME NEW k \in DOMAIN orders \cap DOMAIN a
             PROVE  /\ k \in DOMAIN c
                    /\ c[k].level = a[k].level /\ c[k].priority = a[k].priority
                    /\ c[k].ahead <= a[k].ahead /\ c[k].remaining <= a[k].remaining
  BY DEF Onward
<1>1. k \in DOMAIN b /\ k \in DOMAIN c
  BY DEF Onward
<1>2. /\ a[k].ahead \in Nat /\ a[k].remaining \in Nat
      /\ b[k].ahead \in Nat /\ b[k].remaining \in Nat
      /\ c[k].ahead \in Nat /\ c[k].remaining \in Nat
  BY <1>1, QueueIs
<1>3. /\ b[k].level = a[k].level /\ b[k].priority = a[k].priority
      /\ b[k].ahead <= a[k].ahead /\ b[k].remaining <= a[k].remaining
  BY DEF Onward
<1>4. /\ c[k].level = b[k].level /\ c[k].priority = b[k].priority
      /\ c[k].ahead <= b[k].ahead /\ c[k].remaining <= b[k].remaining
  BY <1>1 DEF Onward
<1> QED BY <1>1, <1>2, <1>3, <1>4

-----------------------------------------------------------------------------
(* Queue positions.                                                        *)

(* Volume that leaves a level moves the orders queued there forward.       *)
LEMMA AdvanceIs ==
  ASSUME Typed, NEW q \in Queues, NEW level, NEW n \in Nat
  PROVE  /\ Advance(q, level, n) \in Queues /\ DOMAIN Advance(q, level, n) = DOMAIN q
         /\ Onward(q, Advance(q, level, n))
         /\ \A k \in DOMAIN q : Advance(q, level, n)[k].remaining = q[k].remaining
<1> DEFINE r == Advance(q, level, n)
<1>1. DOMAIN r = DOMAIN q /\ r = [k \in DOMAIN q |-> r[k]]
  BY DEF Advance
<1>2. ASSUME NEW k \in DOMAIN q
      PROVE  /\ r[k] \in Place /\ r[k].remaining = q[k].remaining
             /\ r[k].level = q[k].level /\ r[k].priority = q[k].priority
             /\ r[k].ahead <= q[k].ahead
  <2>1. q[k] \in Place /\ q[k].ahead \in Nat
    BY QueueIs
  <2>2. r[k] = IF q[k].level = level THEN [q[k] EXCEPT !.ahead = Monus(q[k].ahead, n)] ELSE q[k]
    BY DEF Advance
  <2>3. Monus(q[k].ahead, n) \in Nat /\ Monus(q[k].ahead, n) <= q[k].ahead
    BY <2>1 DEF Monus
  <2> HIDE DEF r
  <2> QED BY <2>1, <2>2, <2>3 DEF Place
<1>3. \A k \in DOMAIN q : r[k].remaining <= q[k].remaining
  BY <1>2, QueueIs
<1>4. r \in Queues
  <2> HIDE DEF r
  <2> QED BY <1>1, <1>2, QueueIs, IsQueue
<1> HIDE DEF r
<1> QED BY <1>1, <1>2, <1>3, <1>4 DEF Onward, r

(* Held(q): what is queued, by order.                                      *)
Held(q) == [j \in DOMAIN q |-> q[j].remaining]

(* What an order keeps of its place when its remainder shrinks.            *)
Still(q, left, j) ==
  IF j \in DOMAIN q \cap DOMAIN left THEN Least(q[j].remaining, left[j]) ELSE 0
Freed(q, left, k) ==
  SumFunctionOnSet([j \in DOMAIN q |-> q[j].remaining - Still(q, left, j)], Before(q, k))

(* What is freed before an order is an amount.                             *)
LEMMA FreedIs ==
  ASSUME Typed, NEW q \in Queues, NEW left, DOMAIN left = DOMAIN orders,
         \A j \in DOMAIN left : left[j] \in Nat, NEW k \in DOMAIN q
  PROVE  Freed(q, left, k) \in Nat
<1> DEFINE f == [j \in DOMAIN q |-> q[j].remaining - Still(q, left, j)]
<1>1. Before(q, k) \subseteq DOMAIN q /\ IsFiniteSet(Before(q, k))
  <2>1. Before(q, k) \subseteq DOMAIN q
    BY DEF Before, Earlier
  <2>2. Before(q, k) \subseteq used
    BY <2>1, QueueIs
  <2> QED BY <2>1, <2>2, FS_Subset DEF Typed
<1>2. ASSUME NEW j \in DOMAIN q PROVE f[j] \in Nat
  <2>1. q[j].remaining \in Nat
    BY QueueIs
  <2> QED BY <2>1 DEF Still, Least
<1>3. SumFunctionOnSet(f, Before(q, k)) \in Nat
  <2> HIDE DEF f
  <2> QED BY <1>1, <1>2, SumNat
<1> QED BY <1>3 DEF Freed

(* A release keeps the open orders in their places and moves them forward. *)
LEMMA ReleaseIs ==
  ASSUME Typed, NEW q \in Queues, NEW left, DOMAIN left = DOMAIN orders,
         \A j \in DOMAIN left : left[j] \in Nat
  PROVE  /\ Release(q, left) \in Queues /\ DOMAIN Release(q, left) = DOMAIN q \cap DOMAIN orders
         /\ Onward(q, Release(q, left))
         /\ \A k \in DOMAIN q \cap DOMAIN orders :
              /\ Release(q, left)[k].remaining = Least(q[k].remaining, left[k])
              /\ Release(q, left)[k].ahead = Monus(q[k].ahead, Freed(q, left, k))
<1> DEFINE r == Release(q, left)
           D == DOMAIN q \cap DOMAIN orders
<1>1. r = [k \in D |-> [q[k] EXCEPT !.ahead = Monus(q[k].ahead, Freed(q, left, k)),
                                    !.remaining = Still(q, left, k)]]
  BY DEF Release, Freed, Still
<1>2. DOMAIN r = D /\ r = [k \in D |-> r[k]]
  BY <1>1
<1>3. ASSUME NEW k \in D
      PROVE  /\ r[k] \in Place /\ r[k].remaining = Least(q[k].remaining, left[k])
             /\ r[k].ahead = Monus(q[k].ahead, Freed(q, left, k))
             /\ r[k].level = q[k].level /\ r[k].priority = q[k].priority
             /\ r[k].ahead <= q[k].ahead /\ r[k].remaining <= q[k].remaining
  <2> DEFINE freed == Freed(q, left, k)
  <2>1. q[k] \in Place /\ q[k].ahead \in Nat /\ q[k].remaining \in Nat /\ left[k] \in Nat /\ freed \in Nat
    BY QueueIs, FreedIs
  <2>2. r[k] = [q[k] EXCEPT !.ahead = Monus(q[k].ahead, freed), !.remaining = Still(q, left, k)]
    BY <1>1
  <2>3. Still(q, left, k) = Least(q[k].remaining, left[k])
    BY DEF Still
  <2>4. /\ Monus(q[k].ahead, freed) \in Nat /\ Monus(q[k].ahead, freed) <= q[k].ahead
        /\ Least(q[k].remaining, left[k]) \in Nat /\ Least(q[k].remaining, left[k]) <= q[k].remaining
    BY <2>1 DEF Monus, Least
  <2> HIDE DEF r, freed
  <2>5. r[k] = [q[k] EXCEPT !.ahead = Monus(q[k].ahead, freed), !.remaining = Least(q[k].remaining, left[k])]
    BY <2>2, <2>3
  <2> QED BY <2>1, <2>4, <2>5 DEF Place, freed
<1>4. r \in Queues
  <2>1. D \in SUBSET used
    BY QueueIs
  <2> HIDE DEF r, D
  <2> QED BY <1>2, <1>3, <2>1, IsQueue
<1> HIDE DEF r
<1> QED BY <1>2, <1>3, <1>4 DEF Onward, r

(* Places may be added to a queue.                                         *)
LEMMA OneMore ==
  ASSUME Typed, NEW q \in Queues, NEW k \in DOMAIN orders, k \notin DOMAIN q, NEW place \in Place
  PROVE  /\ Put(q, {k}, place) \in Queues /\ DOMAIN Put(q, {k}, place) = DOMAIN q \cup {k}
         /\ Put(q, {k}, place)[k] = place
         /\ \A j \in DOMAIN q : Put(q, {k}, place)[j] = q[j]
<1> DEFINE r == Put(q, {k}, place)
<1>1. r = [j \in DOMAIN q \cup {k} |-> IF j \in {k} THEN place ELSE q[j]]
  BY DEF Put
<1>2. DOMAIN r = DOMAIN q \cup {k} /\ r[k] = place /\ \A j \in DOMAIN q : r[j] = q[j]
  BY <1>1
<1>3. r = [j \in DOMAIN q \cup {k} |-> r[j]]
  BY <1>1, <1>2
<1>4. DOMAIN q \cup {k} \in SUBSET used /\ \A j \in DOMAIN q \cup {k} : r[j] \in Place
  BY <1>2, QueueIs, OrderIs
<1>5. r \in Queues
  <2> HIDE DEF r
  <2> QED BY <1>3, <1>4, IsQueue
<1> QED BY <1>2, <1>5

-----------------------------------------------------------------------------
(* The order in which orders are met.                                      *)

(* Tuples are functions from their positions.                              *)
LEMMA TupleIs ==
  ASSUME NEW n \in Nat, NEW a \in [1..n -> Int]
  PROVE  a \in Seq(Int) /\ Len(a) = n
BY LenProperties, SeqDef

(* Triples of integers are functions from their positions.                 *)
LEMMA TriplesAre ==
  \A x, y, z \in Int : <<x, y, z>> \in [1..3 -> Int]
OBVIOUS

(* Python's order of tuples is a strict total order.                       *)
LEMMA PrecedesOrders ==
  ASSUME NEW n \in Nat, NEW a \in [1..n -> Int], NEW b \in [1..n -> Int], NEW c \in [1..n -> Int]
  PROVE  /\ ~Precedes(a, a)
         /\ a # b => Precedes(a, b) \/ Precedes(b, a)
         /\ Precedes(a, b) /\ Precedes(b, c) => Precedes(a, c)
<1>1. Len(a) = n /\ Len(b) = n
  BY TupleIs
<1>2. ~Precedes(a, a)
  BY <1>1 DEF Precedes
<1>3. ASSUME a # b PROVE Precedes(a, b) \/ Precedes(b, a)
  <2> DEFINE differ == {i \in 1..n : a[i] # b[i]}
  <2>1. differ # {}
    <3>1. (\A i \in 1..n : a[i] = b[i]) => a = b
      OBVIOUS
    <3> QED BY <3>1, <1>3
  <2>2. differ \in SUBSET Nat
    OBVIOUS
  <2>3. PICK i \in differ : \A j \in differ : i <= j
    <3> HIDE DEF differ
    <3> QED BY <2>1, <2>2, LeastExists
  <2>4. \A j \in 1..(i - 1) : a[j] = b[j] /\ b[j] = a[j]
    BY <2>3
  <2>5. a[i] < b[i] \/ b[i] < a[i]
    BY <2>3
  <2>6. i \in 1..Len(a) /\ i \in 1..Len(b)
    BY <2>3, <1>1
  <2> QED BY <2>4, <2>5, <2>6 DEF Precedes
<1>4. ASSUME Precedes(a, b), Precedes(b, c) PROVE Precedes(a, c)
  <2>1. PICK i \in 1..n : a[i] < b[i] /\ \A j \in 1..(i - 1) : a[j] = b[j]
    BY <1>1, <1>4 DEF Precedes
  <2>2. PICK k \in 1..n : b[k] < c[k] /\ \A j \in 1..(k - 1) : b[j] = c[j]
    BY <1>1, <1>4 DEF Precedes
  <2>3. ASSUME NEW m \in 1..n, m <= i, m <= k, m = i \/ m = k PROVE Precedes(a, c)
    <3>1. \A j \in 1..(m - 1) : j \in 1..(i - 1) /\ j \in 1..(k - 1)
      BY <2>3
    <3>2. \A j \in 1..(m - 1) : a[j] = c[j]
      BY <2>1, <2>2, <3>1
    <3>3. a[m] \in Int /\ b[m] \in Int /\ c[m] \in Int
      OBVIOUS
    <3>4. a[m] <= b[m] /\ b[m] <= c[m]
      <4>1. m = i \/ m \in 1..(i - 1)
        BY <2>3
      <4>2. m = k \/ m \in 1..(k - 1)
        BY <2>3
      <4>3. a[m] <= b[m]
        BY <2>1, <4>1, <3>3
      <4>4. b[m] <= c[m]
        BY <2>2, <4>2, <3>3
      <4> QED BY <4>3, <4>4
    <3>5. a[m] < b[m] \/ b[m] < c[m]
      BY <2>1, <2>2, <2>3
    <3>6. a[m] < c[m]
      BY <3>3, <3>4, <3>5
    <3>7. m \in 1..Len(a)
      BY <1>1
    <3> QED BY <3>2, <3>6, <3>7 DEF Precedes
  <2>4. CASE i <= k
    <3>1. i \in 1..n /\ i <= i /\ i <= k
      BY <2>4
    <3> QED BY <3>1, <2>3, Zenon
  <2>5. CASE k <= i
    <3>1. k \in 1..n /\ k <= i /\ k <= k
      BY <2>5
    <3> QED BY <3>1, <2>3, Zenon
  <2>6. i <= k \/ k <= i
    OBVIOUS
  <2> QED BY <2>4, <2>5, <2>6
<1> QED BY <1>2, <1>3, <1>4

(* When an order entered is a triple of times and its identifier.          *)
LEMMA EnteredIs ==
  ASSUME Typed, NEW stops \in Stops, NEW k \in DOMAIN orders
  PROVE  /\ Entered(k, stops) \in Nat \X Nat \X Nat
         /\ Entered(k, stops) \in [1..3 -> Int] /\ Entered(k, stops)[3] = k
<1>1. k \in Nat /\ orders[k].created \in Nat
  BY OrderIs, L2Assumption
<1>2. k \in DOMAIN stops => stops[k] \in Nat
  BY StopsIs
<1> DEFINE first == IF k \in DOMAIN stops THEN stops[k] ELSE orders[k].created
<1>3. Entered(k, stops) = <<first, orders[k].created, k>>
  BY DEF Entered
<1>4. first \in Nat
  BY <1>1, <1>2
<1> HIDE DEF first
<1> QED BY <1>1, <1>3, <1>4

(* The place of an order in turn is six integers, the last its identifier. *)
LEMMA TurnIs ==
  ASSUME Typed, NEW stops \in Stops, NEW k \in DOMAIN orders
  PROVE  Turn(k, stops) \in [1..6 -> Int] /\ Turn(k, stops)[6] = k
<1> DEFINE i == orders[k].intent
           x == IF i.side = "BUY" THEN 0 ELSE 1
           y == IF HasLimit(i) THEN 1 ELSE 0
           z == IF ~HasLimit(i) THEN 0 ELSE IF i.side = "BUY" THEN -i.limit ELSE i.limit
           e == Entered(k, stops)
<1>1. x \in Int /\ y \in Int /\ z \in Int
  <2>1. HasLimit(i) => i.limit \in Nat
    BY OrderIs, L2Assumption
  <2> QED BY <2>1
<1>2. Turn(k, stops) = <<x, y, z>> \o e
  BY DEF Turn
<1>3. e \in [1..3 -> Int] /\ e[3] = k
  BY EnteredIs
<1> HIDE DEF x, y, z, e
<1> DEFINE d == <<x, y, z>>
<1>4. d \in [1..3 -> Int]
  BY <1>1, TriplesAre
<1> HIDE DEF d
<1>5. d \in Seq(Int) /\ Len(d) = 3 /\ e \in Seq(Int) /\ Len(e) = 3
  BY <1>3, <1>4, TupleIs
<1>6. d \o e \in Seq(Int) /\ Len(d \o e) = 6 /\ (d \o e)[6] = e[3]
  <2>1. /\ d \o e \in Seq(Int) /\ Len(d \o e) = Len(d) + Len(e)
        /\ \A n \in 1..(Len(d) + Len(e)) :
             (d \o e)[n] = IF n <= Len(d) THEN d[n] ELSE e[n - Len(d)]
    BY <1>5, ConcatProperties
  <2>2. Len(d) + Len(e) = 6 /\ 6 \in 1..(Len(d) + Len(e)) /\ ~(6 <= Len(d)) /\ 6 - Len(d) = 3
    BY <1>5
  <2>3. (d \o e)[6] = e[6 - Len(d)]
    BY <2>1, <2>2
  <2> QED BY <2>1, <2>2, <2>3
<1>7. d \o e \in [1..6 -> Int]
  BY <1>6, LenProperties
<1>8. Turn(k, stops) = d \o e
  BY <1>2 DEF d
<1> QED BY <1>3, <1>6, <1>7, <1>8

(* Of some orders there is a last in turn.                                 *)
LEMMA LastIs ==
  ASSUME Typed, NEW stops \in Stops, NEW S \in SUBSET DOMAIN orders, S # {}
  PROVE  /\ LastInTurn(S, stops) \in S
         /\ \A j \in S \ {LastInTurn(S, stops)} :
              Precedes(Turn(j, stops), Turn(LastInTurn(S, stops), stops))
<1> DEFINE IsLast(T, k) == \A j \in T \ {k} : Precedes(Turn(j, stops), Turn(k, stops))
           B == {T \in SUBSET S : T = {} \/ \E k \in T : IsLast(T, k)}
<1>1. ASSUME NEW T \in SUBSET S, \A R \in SUBSET T : R # T => R \in B
      PROVE  T \in B
  <2> SUFFICES ASSUME T # {} PROVE \E k \in T : IsLast(T, k)
    OBVIOUS
  <2>1. PICK x \in T : TRUE
    OBVIOUS
  <2>2. T \ {x} \in B
    <3>1. T \ {x} \in SUBSET T /\ T \ {x} # T
      BY <2>1
    <3> QED BY <3>1, <1>1
  <2>3. CASE T \ {x} = {}
    BY <2>3, <2>1
  <2>4. CASE T \ {x} # {}
    <3>1. PICK k \in T \ {x} : IsLast(T \ {x}, k)
      BY <2>2, <2>4
    <3>2. \A j \in T : /\ Turn(j, stops) \in [1..6 -> Int]
                       /\ Turn(j, stops)[6] = j
      BY TurnIs
    <3>3. Turn(x, stops) # Turn(k, stops)
      BY <3>2, <2>1
    <3>4. Precedes(Turn(x, stops), Turn(k, stops)) \/ Precedes(Turn(k, stops), Turn(x, stops))
      BY <3>2, <3>3, <2>1, PrecedesOrders
    <3>5. CASE Precedes(Turn(x, stops), Turn(k, stops))
      BY <3>1, <3>5
    <3>6. CASE Precedes(Turn(k, stops), Turn(x, stops))
      <4> SUFFICES ASSUME NEW j \in T \ {x} PROVE Precedes(Turn(j, stops), Turn(x, stops))
        BY <2>1
      <4>1. j = k \/ Precedes(Turn(j, stops), Turn(k, stops))
        BY <3>1
      <4> QED BY <4>1, <3>2, <3>6, <2>1, PrecedesOrders
    <3> QED BY <3>4, <3>5, <3>6
  <2> QED BY <2>3, <2>4
<1>2. SUBSET S \subseteq B
  <2>1. IsFiniteSet(S)
    BY OrderIs, FS_Subset
  <2> HIDE DEF B
  <2> QED BY <1>1, <2>1, FiniteSetInduction
<1>3. \E k \in S : IsLast(S, k)
  <2>1. S \in B
    BY <1>2
  <2> QED BY <2>1
<1> QED BY <1>3 DEF LastInTurn

-----------------------------------------------------------------------------
(* Joining a queue.                                                        *)

(* The matching state with another queue.                                  *)
LEMMA MatchingIs ==
  ASSUME NEW m \in Matching
  PROVE  /\ m.known \in BOOLEAN /\ m.book \in Books /\ m.overlay \in Books
         /\ m.queue \in Queues /\ m.stopAt \in Stops
         /\ \A q \in Queues :
              LET r == [m EXCEPT !.queue = q]
              IN  /\ r \in Matching /\ r.queue = q /\ r.known = m.known
                  /\ r.book = m.book /\ r.overlay = m.overlay /\ r.stopAt = m.stopAt
BY DEF Matching

(* What queues at a level before an order that comes to it.                *)
OwnBefore(m, k) ==
  SumFunctionOnSet(Held(m.queue), Earlier(m.queue, Level(k), Entered(k, m.stopAt)))

(* It is an amount.                                                        *)
LEMMA OwnBeforeIs ==
  ASSUME Typed, NEW m \in Matching, NEW k
  PROVE  OwnBefore(m, k) \in Nat
<1> DEFINE q == m.queue
           E == Earlier(q, Level(k), Entered(k, m.stopAt))
<1>1. q \in Queues
  BY MatchingIs
<1>2. E \subseteq DOMAIN q /\ DOMAIN q \subseteq used
  BY <1>1, QueueIs DEF Earlier
<1>3. IsFiniteSet(E)
  <2>1. E \subseteq used
    BY <1>2
  <2> HIDE DEF E
  <2> QED BY <2>1, FS_Subset DEF Typed
<1>4. \A j \in E : Held(q)[j] \in Nat
  <2> HIDE DEF E
  <2> QED BY <1>1, <1>2, QueueIs DEF Held
<1>5. SumFunctionOnSet(Held(q), E) \in Nat
  <2> HIDE DEF E, q
  <2> QED BY <1>3, <1>4, SumNat
<1> QED BY <1>5 DEF OwnBefore

(* The place an order joins at.                                            *)
PlaceOf(m, k, left) ==
  [level |-> Level(k), priority |-> Entered(k, m.stopAt), remaining |-> left,
   ahead |-> m.overlay[orders[k].intent.side][orders[k].intent.limit] + OwnBefore(m, k)]

(* An order that is offered to the queue joins it at its place or does not; *)
(* nothing else changes.                                                   *)
Joined(m, k, left, r) ==
  /\ r \in Matching /\ r.known = m.known /\ r.book = m.book
  /\ r.overlay = m.overlay /\ r.stopAt = m.stopAt
  /\ \A j \in DOMAIN m.queue : j \in DOMAIN r.queue /\ r.queue[j] = m.queue[j]
  /\ DOMAIN r.queue \subseteq DOMAIN m.queue \cup {k}
  /\ k \in DOMAIN r.queue /\ k \notin DOMAIN m.queue
       => r.queue[k] = PlaceOf(m, k, left)

(* The place is one.                                                       *)
LEMMA PlaceOfIs ==
  ASSUME Typed, NEW m \in Matching, NEW k \in DOMAIN orders, HasLimit(orders[k].intent),
         NEW left \in Nat
  PROVE  PlaceOf(m, k, left) \in Place
<1> DEFINE i == orders[k].intent
           n == m.overlay[i.side][i.limit] + OwnBefore(m, k)
<1>1. i.side \in Sides /\ i.limit \in Prices
  BY OrderIs
<1>2. m.overlay[i.side][i.limit] \in Nat
  BY <1>1, MatchingIs DEF Books
<1>3. n \in Nat
  BY <1>2, OwnBeforeIs
<1>4. Level(k) \in Sides \X Prices
  BY <1>1 DEF Level
<1>5. Entered(k, m.stopAt) \in Nat \X Nat \X Nat
  BY MatchingIs, EnteredIs
<1> HIDE DEF n
<1>6. PlaceOf(m, k, left) = [level |-> Level(k), priority |-> Entered(k, m.stopAt), remaining |-> left, ahead |-> n]
  BY DEF PlaceOf, n
<1> QED BY <1>3, <1>4, <1>5, <1>6 DEF Place

(* Enqueue lets an order join its queue, or leaves it where it is.         *)
LEMMA EnqueueIs ==
  ASSUME Typed, NEW m \in Matching, NEW k \in DOMAIN orders, NEW left \in Nat
  PROVE  Joined(m, k, left, Enqueue(m, k, left))
<1>1. Joined(m, k, left, m)
  BY DEF Joined
<1>2. ASSUME k \notin DOMAIN m.queue, HasLimit(orders[k].intent)
      PROVE  Joined(m, k, left, [m EXCEPT !.queue = Put(m.queue, {k}, PlaceOf(m, k, left))])
  <2> DEFINE q == Put(m.queue, {k}, PlaceOf(m, k, left))
  <2>1. /\ q \in Queues /\ DOMAIN q = DOMAIN m.queue \cup {k} /\ q[k] = PlaceOf(m, k, left)
        /\ \A j \in DOMAIN m.queue : q[j] = m.queue[j]
    <3>1. PlaceOf(m, k, left) \in Place /\ m.queue \in Queues
      BY <1>2, PlaceOfIs, MatchingIs
    <3> DEFINE place == PlaceOf(m, k, left)
               old == m.queue
    <3>2. place \in Place /\ old \in Queues /\ k \notin DOMAIN old
      BY <1>2, <3>1
    <3>3. q = Put(old, {k}, place)
      OBVIOUS
    <3> HIDE DEF place, old, q
    <3>4. /\ Put(old, {k}, place) \in Queues /\ DOMAIN Put(old, {k}, place) = DOMAIN old \cup {k}
          /\ Put(old, {k}, place)[k] = place
          /\ \A j \in DOMAIN old : Put(old, {k}, place)[j] = old[j]
      BY <3>2, OneMore, ZenonT(300)
    <3> QED BY <3>3, <3>4 DEF place, old
  <2> HIDE DEF q
  <2>2. /\ [m EXCEPT !.queue = q] \in Matching /\ [m EXCEPT !.queue = q].queue = q
        /\ [m EXCEPT !.queue = q].known = m.known /\ [m EXCEPT !.queue = q].book = m.book
        /\ [m EXCEPT !.queue = q].overlay = m.overlay /\ [m EXCEPT !.queue = q].stopAt = m.stopAt
    BY <2>1, MatchingIs
  <2> DEFINE r == [m EXCEPT !.queue = q]
  <2>3. Joined(m, k, left, r)
    <3> HIDE DEF r
    <3> QED BY <2>1, <2>2 DEF Joined, r
  <2> QED BY <2>3 DEF q
<1>3. CASE k \in DOMAIN m.queue
  BY <1>1, <1>3 DEF Enqueue
<1>4. CASE k \notin DOMAIN m.queue
  <2>1. \/ Enqueue(m, k, left) = m
        \/ /\ HasLimit(orders[k].intent)
           /\ Enqueue(m, k, left) = [m EXCEPT !.queue = Put(m.queue, {k}, PlaceOf(m, k, left))]
    BY <1>4 DEF Enqueue, Rest, PlaceOf, OwnBefore, Held
  <2> QED BY <2>1, <1>1, <1>2, <1>4
<1> QED BY <1>3, <1>4

-----------------------------------------------------------------------------
(* Reconciling the queues.                                                 *)

(* The places in a queue are held by open orders, for what they need.      *)
Tidy(q) ==
  DOMAIN q \subseteq DOMAIN orders /\ \A k \in DOMAIN q : q[k].remaining = Remaining(k)

(* What an event may have made of the matching state m before it matches.  *)
Reconciled(m, r) ==
  /\ r \in Matching /\ r.known = m.known /\ r.book = m.book
  /\ r.overlay = m.overlay /\ r.stopAt = m.stopAt
  /\ Tidy(r.queue) /\ Onward(m.queue, r.queue)

Released(m) == [m EXCEPT !.queue = Release(m.queue, [k \in DOMAIN orders |-> Remaining(k)])]

(* A release frees the places of closed orders.                            *)
LEMMA ReleasedIs ==
  ASSUME Typed, Unfilled, NEW m \in Matching,
         \A k \in DOMAIN orders \cap DOMAIN m.queue : m.queue[k].remaining = Remaining(k)
  PROVE  Reconciled(m, Released(m))
<1> DEFINE left == [k \in DOMAIN orders |-> Remaining(k)]
           q == Release(m.queue, left)
<1>1. DOMAIN left = DOMAIN orders /\ \A k \in DOMAIN left : left[k] \in Nat /\ left[k] = Remaining(k)
  BY DEF Unfilled
<1>2. m.queue \in Queues
  BY MatchingIs
<1>3. /\ q \in Queues /\ DOMAIN q = DOMAIN m.queue \cap DOMAIN orders /\ Onward(m.queue, q)
      /\ \A k \in DOMAIN m.queue \cap DOMAIN orders : q[k].remaining = Least(m.queue[k].remaining, left[k])
  <2> HIDE DEF left, q
  <2> QED BY <1>1, <1>2, ReleaseIs DEF q
<1> HIDE DEF left, q
<1>4. Tidy(q)
  <2>1. \A k \in DOMAIN q : q[k].remaining = Least(Remaining(k), Remaining(k))
    BY <1>1, <1>3
  <2> QED BY <1>3, <2>1 DEF Tidy, Least
<1>5. Released(m) = [m EXCEPT !.queue = q]
  BY DEF Released, q, left
<1>6. Released(m) \in Matching /\ Released(m).queue = q /\ Released(m).known = m.known
      /\ Released(m).book = m.book /\ Released(m).overlay = m.overlay /\ Released(m).stopAt = m.stopAt
  BY <1>3, <1>5, MatchingIs
<1> QED BY <1>3, <1>4, <1>6 DEF Reconciled

(* Places that an order joins keep the queue tidy.                         *)
LEMMA JoinedIs ==
  ASSUME Typed, Unfilled, NEW m \in Matching, NEW a \in Matching, Reconciled(m, a),
         NEW k \in DOMAIN orders, NEW r, Joined(a, k, Remaining(k), r)
  PROVE  Reconciled(m, r)
<1>1. /\ r \in Matching /\ r.known = m.known /\ r.book = m.book
      /\ r.overlay = m.overlay /\ r.stopAt = m.stopAt
  BY DEF Joined, Reconciled
<1>2. /\ \A j \in DOMAIN a.queue : j \in DOMAIN r.queue /\ r.queue[j] = a.queue[j]
      /\ DOMAIN r.queue \subseteq DOMAIN a.queue \cup {k}
      /\ k \in DOMAIN r.queue /\ k \notin DOMAIN a.queue => r.queue[k].remaining = Remaining(k)
  BY DEF Joined, PlaceOf
<1>3. Tidy(a.queue) /\ Onward(m.queue, a.queue)
  BY DEF Reconciled
<1>4. Tidy(r.queue)
  BY <1>2, <1>3 DEF Tidy
<1>5. Onward(m.queue, r.queue)
  BY <1>2, <1>3 DEF Onward
<1> QED BY <1>1, <1>4, <1>5 DEF Reconciled

(* The recursion of Reconcile, and that it has a solution.                 *)
Queued(m, D, g) ==
  g = [S \in SUBSET D |->
         IF S = {} THEN Released(m)
         ELSE LET k == LastInTurn(S, m.stopAt) IN Enqueue(g[S \ {k}], k, Remaining(k))]

(* It has one, since a set has fewer members without the last in turn.      *)
LEMMA QueuedExists ==
  ASSUME Typed, Unfilled, NEW m \in Matching, Released(m) \in Matching, NEW D \in SUBSET DOMAIN orders
  PROVE  \E g : Queued(m, D, g)
<1> DEFINE final == [S \in SUBSET D |-> LastInTurn(S, m.stopAt)]
           step == [x \in Matching \X D |-> Enqueue(x[1], x[2], Remaining(x[2]))]
<1>1. IsFiniteSet(D)
  BY OrderIs, FS_Subset
<1>2. \A S \in SUBSET D : S # {} => final[S] \in S /\ final[S] = LastInTurn(S, m.stopAt)
  BY LastIs, MatchingIs
<1>3. \A v \in Matching, x \in D : step[<<v, x>>] \in Matching /\ step[<<v, x>>] = Enqueue(v, x, Remaining(x))
  <2> SUFFICES ASSUME NEW v \in Matching, NEW x \in D
               PROVE  step[<<v, x>>] \in Matching /\ step[<<v, x>>] = Enqueue(v, x, Remaining(x))
    OBVIOUS
  <2>1. step[<<v, x>>] = Enqueue(v, x, Remaining(x))
    OBVIOUS
  <2>2. x \in DOMAIN orders /\ Remaining(x) \in Nat
    BY DEF Unfilled
  <2>3. Enqueue(v, x, Remaining(x)) \in Matching
    BY <2>2, EnqueueIs DEF Joined
  <2> QED BY <2>1, <2>3
<1>4. PICK g \in [SUBSET D -> Matching] : Recurs(Released(m), final, step, D, g)
  <2> HIDE DEF final, step
  <2> QED BY <1>1, <1>2, <1>3, SetRecursion
<1>5. \A S \in SUBSET D :
        g[S] = IF S = {} THEN Released(m)
               ELSE LET k == LastInTurn(S, m.stopAt) IN Enqueue(g[S \ {k}], k, Remaining(k))
  <2> SUFFICES ASSUME NEW S \in SUBSET D
               PROVE  g[S] = IF S = {} THEN Released(m)
                             ELSE LET k == LastInTurn(S, m.stopAt) IN Enqueue(g[S \ {k}], k, Remaining(k))
    OBVIOUS
  <2>1. g[S] = IF S = {} THEN Released(m) ELSE step[<<g[S \ {final[S]}], final[S]>>]
    <3> HIDE DEF final, step
    <3> QED BY <1>4 DEF Recurs
  <2>2. CASE S = {}
    BY <2>1, <2>2
  <2>3. CASE S # {}
    <3> DEFINE k == LastInTurn(S, m.stopAt)
    <3>1. k \in S /\ final[S] = k
      BY <1>2, <2>3
    <3> HIDE DEF k, final, step
    <3>2. g[S \ {k}] \in Matching /\ k \in D
      BY <3>1
    <3>3. g[S] = Enqueue(g[S \ {k}], k, Remaining(k))
      BY <1>3, <2>1, <2>3, <3>1, <3>2
    <3> QED BY <2>3, <3>3 DEF k
  <2> QED BY <2>2, <2>3
<1>6. g = [S \in SUBSET D |-> g[S]]
  OBVIOUS
<1> DEFINE h == [S \in SUBSET D |-> IF S = {} THEN Released(m)
                    ELSE LET k == LastInTurn(S, m.stopAt) IN Enqueue(g[S \ {k}], k, Remaining(k))]
<1>7. g = h
  <2> HIDE DEF final, step
  <2> QED BY <1>5, <1>6
<1> QED BY <1>7 DEF Queued

(* What Reconcile computes, order by order.                                *)
TheQueued(m, D) == CHOOSE g : Queued(m, D, g)

(* Reconcile by this recursion: release, then one order after the other.   *)
LEMMA ReconcileSteps ==
  ASSUME Typed, Unfilled, NEW m \in Matching, Released(m) \in Matching, NEW t
  PROVE  LET g == TheQueued(m, Due(t))
         IN  /\ Reconcile(m, t) = IF m.known THEN g[Due(t)] ELSE Released(m)
             /\ g[{}] = Released(m)
             /\ \A S \in SUBSET Due(t) : S # {} =>
                  LET k == LastInTurn(S, m.stopAt)
                  IN  k \in S /\ g[S] = Enqueue(g[S \ {k}], k, Remaining(k))
<1> DEFINE g == TheQueued(m, Due(t))
<1>1. Reconcile(m, t) = IF m.known THEN g[Due(t)] ELSE Released(m)
  BY DEF Reconcile, TheQueued, Queued, Released
<1>2. Due(t) \in SUBSET DOMAIN orders
  BY DEF Due
<1>3. Queued(m, Due(t), g)
  <2>1. \E h : Queued(m, Due(t), h)
    BY <1>2, QueuedExists
  <2> QED BY <2>1 DEF TheQueued
<1> HIDE DEF g
<1>4. \A S \in SUBSET Due(t) :
        g[S] = IF S = {} THEN Released(m)
               ELSE LET k == LastInTurn(S, m.stopAt) IN Enqueue(g[S \ {k}], k, Remaining(k))
  BY <1>3 DEF Queued
<1>5. g[{}] = Released(m)
  BY <1>4
<1>6. ASSUME NEW S \in SUBSET Due(t), S # {}
      PROVE  LET k == LastInTurn(S, m.stopAt)
             IN  k \in S /\ g[S] = Enqueue(g[S \ {k}], k, Remaining(k))
  <2>1. LastInTurn(S, m.stopAt) \in S
    <3>1. S \in SUBSET DOMAIN orders /\ m.stopAt \in Stops
      BY <1>2, MatchingIs
    <3> QED BY <3>1, <1>6, LastIs
  <2> QED BY <1>4, <1>6, <2>1
<1> QED BY <1>1, <1>5, <1>6 DEF g

(* Reconciling the queues leaves them tidy and moves nobody back.          *)
LEMMA ReconcileIs ==
  ASSUME Typed, Unfilled, NEW m \in Matching, NEW t,
         \A k \in DOMAIN orders \cap DOMAIN m.queue : m.queue[k].remaining = Remaining(k)
  PROVE  Reconciled(m, Reconcile(m, t))
<1> DEFINE g == TheQueued(m, Due(t))
           B == {S \in SUBSET Due(t) : Reconciled(m, g[S])}
<1>1. Reconciled(m, Released(m)) /\ Released(m) \in Matching
  BY ReleasedIs DEF Reconciled
<1>2. /\ Reconcile(m, t) = IF m.known THEN g[Due(t)] ELSE Released(m)
      /\ g[{}] = Released(m)
      /\ \A S \in SUBSET Due(t) : S # {} =>
           LET k == LastInTurn(S, m.stopAt)
           IN  k \in S /\ g[S] = Enqueue(g[S \ {k}], k, Remaining(k))
  BY <1>1, ReconcileSteps
<1>3. Due(t) \in SUBSET DOMAIN orders /\ IsFiniteSet(Due(t))
  <2>1. Due(t) \in SUBSET DOMAIN orders
    BY DEF Due
  <2> QED BY <2>1, OrderIs, FS_Subset
<1> HIDE DEF g
<1>4. ASSUME NEW S \in SUBSET Due(t), \A R \in SUBSET S : R # S => R \in B
      PROVE  S \in B
  <2>1. CASE S = {}
    BY <2>1, <1>1, <1>2
  <2>2. CASE S # {}
    <3> DEFINE k == LastInTurn(S, m.stopAt)
               R == S \ {k}
    <3>1. k \in S /\ g[S] = Enqueue(g[R], k, Remaining(k))
      BY <1>2, <2>2
    <3> HIDE DEF k
    <3>2. Reconciled(m, g[R])
      BY <1>4, <3>1
    <3>3. k \in DOMAIN orders /\ Remaining(k) \in Nat
      BY <1>3, <3>1 DEF Unfilled
    <3> HIDE DEF R
    <3>4. g[R] \in Matching
      BY <3>2 DEF Reconciled
    <3>5. Joined(g[R], k, Remaining(k), g[S])
      BY <3>1, <3>3, <3>4, EnqueueIs
    <3>6. Reconciled(m, g[S])
      BY <3>2, <3>3, <3>4, <3>5, JoinedIs
    <3> QED BY <3>6
  <2> QED BY <2>1, <2>2
<1>5. SUBSET Due(t) \subseteq B
  <2> HIDE DEF B
  <2> QED BY <1>3, <1>4, FiniteSetInduction
<1>6. Reconciled(m, g[Due(t)])
  BY <1>5
<1> QED BY <1>1, <1>2, <1>6

(* Nor do the stops a price triggers change anything but the stops.        *)
LEMMA TriggerIs ==
  ASSUME Typed, NEW m \in Matching, NEW t \in Nat, NEW seen
  PROVE  LET r == Trigger(m, t, seen)
         IN  /\ r \in Matching /\ r.known = m.known /\ r.book = m.book
             /\ r.overlay = m.overlay /\ r.queue = m.queue
             /\ DOMAIN m.stopAt \subseteq DOMAIN r.stopAt
             /\ \A k \in DOMAIN r.stopAt :
                  IF k \in DOMAIN m.stopAt THEN r.stopAt[k] = m.stopAt[k]
                  ELSE k \in DOMAIN orders /\ IsStop(orders[k].intent) /\ r.stopAt[k] = t
<1> DEFINE hit(k) == LET i == orders[k].intent
                     IN  /\ Eligible(k, t) /\ IsStop(i) /\ k \notin DOMAIN m.stopAt
                         /\ \E p \in seen[i.side] : IF i.side = "BUY" THEN p >= i.stop ELSE p <= i.stop
           H == {k \in DOMAIN orders : hit(k)}
           s == Put(m.stopAt, H, t)
           r == [m EXCEPT !.stopAt = s]
<1>1. Trigger(m, t, seen) = r
  BY DEF Trigger
<1>2. H \subseteq DOMAIN orders /\ \A k \in H : k \notin DOMAIN m.stopAt /\ IsStop(orders[k].intent)
  OBVIOUS
<1> HIDE DEF H
<1>3. m.stopAt \in Stops
  BY MatchingIs
<1>4. DOMAIN s = DOMAIN m.stopAt \cup H /\ s = [k \in DOMAIN s |-> s[k]]
      /\ \A k \in DOMAIN s : s[k] = IF k \in H THEN t ELSE m.stopAt[k]
  BY DEF Put
<1> HIDE DEF s
<1>5. s \in Stops
  <2>1. DOMAIN s \in SUBSET used
    BY <1>2, <1>3, <1>4, StopsIs, OrderIs
  <2>2. \A k \in DOMAIN s : s[k] \in Nat
    BY <1>3, <1>4, StopsIs
  <2> QED BY <1>4, <2>1, <2>2, IsStops
<1>6. /\ r \in Matching /\ r.known = m.known /\ r.book = m.book
      /\ r.overlay = m.overlay /\ r.queue = m.queue /\ r.stopAt = s
  BY <1>5 DEF Matching
<1> HIDE DEF r
<1> QED BY <1>1, <1>2, <1>4, <1>6

-----------------------------------------------------------------------------
(* Taking.                                                                 *)

(* The levels an order can take from, and what they offer.                 *)
Offered(m, k) == m.overlay[Other(orders[k].intent.side)]
Hit(m, k) == {p \in Prices : Offered(m, k)[p] > 0 /\ Marketable(k, p, m.stopAt)}

(* A plan takes from the levels it can, the best first, what the order     *)
(* needs, and leaves of the need only what these levels do not hold.       *)
LEMMA PlanIs ==
  ASSUME Typed, Unfilled, NEW m \in Matching, NEW k \in DOMAIN orders
  PROVE  /\ Plan(m, k) \in [Prices -> Nat]
         /\ \A p \in Prices : Offered(m, k)[p] \in Nat /\ Plan(m, k)[p] <= Offered(m, k)[p]
         /\ \A p \in Prices : p \notin Hit(m, k) => Plan(m, k)[p] = 0
         /\ Volume(Plan(m, k)) \in Nat /\ Volume(Plan(m, k)) <= Remaining(k)
         /\ Volume(Plan(m, k)) # Remaining(k) =>
              \A p \in Hit(m, k) : Plan(m, k)[p] = Offered(m, k)[p]
<1> DEFINE side == orders[k].intent.side
           open == Offered(m, k)
           hit == Hit(m, k)
           need == Remaining(k)
           better(p) == {r \in hit : IF side = "BUY" THEN r < p ELSE r > p}
           plan == Plan(m, k)
           all == [p \in Prices |-> p]
           top == SumFunctionOnSet(all, Prices)
           rank == [p \in hit |-> IF side = "BUY" THEN p ELSE top - p]
<1>1. side \in Sides /\ open \in [Prices -> Nat] /\ need \in Nat
  <2>1. side \in Sides
    BY OrderIs
  <2>2. open \in [Prices -> Nat]
    BY <2>1, SidesAre, MatchingIs DEF Offered, Books
  <2> QED BY <2>1, <2>2 DEF Unfilled
<1>2. IsFiniteSet(Prices) /\ Prices \subseteq Nat /\ hit \subseteq Prices /\ IsFiniteSet(hit)
  <2>1. hit \subseteq Prices
    BY DEF Hit
  <2> QED BY <2>1, L2Assumption, FS_Subset
<1>3. top \in Nat /\ \A p \in Prices : p <= top
  <2>1. \A p \in Prices : all[p] \in Nat /\ all[p] = p
    BY <1>2
  <2> HIDE DEF all
  <2> QED BY <1>2, <2>1, SumNat
<1>4. plan = [p \in Prices |->
                IF p \in hit THEN Least(open[p], Monus(need, SumFunctionOnSet(open, better(p)))) ELSE 0]
  BY DEF Plan, Hit, Offered
<1> HIDE DEF plan, hit, open, need, top
<1>5. ASSUME NEW p \in hit
      PROVE  better(p) = {r \in hit : rank[r] < rank[p]}
  <2>1. \A r \in hit : r \in Nat /\ r <= top
    BY <1>2, <1>3
  <2>2. \A r \in hit : (IF side = "BUY" THEN r < p ELSE r > p) <=> rank[r] < rank[p]
    BY <2>1, <1>3
  <2> HIDE DEF rank
  <2> QED BY <2>2
<1>6. (\A p \in hit : rank[p] \in Nat) /\ \A p, r \in hit : rank[p] = rank[r] => p = r
  BY <1>2, <1>3
<1>7. ASSUME NEW p \in hit
      PROVE  plan[p] = TakenFirst(open, rank, hit, need, p)
  <2> DEFINE before == SumFunctionOnSet(open, better(p))
  <2>1. before \in Nat
    <3>1. better(p) \subseteq hit /\ IsFiniteSet(better(p))
      BY <1>2, FS_Subset
    <3>2. \A r \in better(p) : open[r] \in Nat
      BY <1>1, <1>2
    <3> HIDE DEF better
    <3> QED BY <3>1, <3>2, SumNat
  <2>2. plan[p] = Least(open[p], Monus(need, before)) /\ open[p] \in Nat
    BY <1>1, <1>2, <1>4
  <2>3. TakenFirst(open, rank, hit, need, p) = IF need > before THEN Lesser(open[p], need - before) ELSE 0
    BY <1>5 DEF TakenFirst
  <2> HIDE DEF before
  <2> QED BY <1>1, <2>1, <2>2, <2>3 DEF Least, Monus, Lesser
<1> HIDE DEF rank
<1>8. /\ \A p \in hit : plan[p] \in Nat /\ plan[p] <= open[p]
      /\ SumFunctionOnSet(plan, hit) = Lesser(need, SumFunctionOnSet(open, hit))
  <2>1. \A p \in hit : open[p] \in Nat
    BY <1>1, <1>2
  <2>2. IsFiniteSet(hit) /\ need \in Nat
    BY <1>1, <1>2
  <2>3. \A p \in hit : rank[p] \in Nat
    BY <1>6
  <2>4. \A p, r \in hit : rank[p] = rank[r] => p = r
    BY <1>6
  <2>5. \A p \in hit : plan[p] = TakenFirst(open, rank, hit, need, p)
    BY <1>7
  <2>6. /\ \A p \in hit : plan[p] \in Nat /\ plan[p] <= open[p]
        /\ SumFunctionOnSet(plan, hit) = Lesser(need, SumFunctionOnSet(open, hit))
    BY ONLY <2>1, <2>2, <2>3, <2>4, <2>5, TakingInOrder
  <2> QED BY <2>6
<1>9. \A p \in Prices : p \notin hit => plan[p] = 0
  BY <1>4
<1>10. plan \in [Prices -> Nat] /\ \A p \in Prices : open[p] \in Nat /\ plan[p] <= open[p]
  <2>1. \A p \in Prices : plan[p] \in Nat /\ open[p] \in Nat /\ plan[p] <= open[p]
    BY <1>1, <1>8, <1>9
  <2>2. plan = [p \in Prices |-> plan[p]]
    BY <1>4
  <2> QED BY <2>1, <2>2
<1>11. Volume(plan) = Lesser(need, SumFunctionOnSet(open, hit))
  <2>1. Summable(plan, Prices)
    BY <1>2, <1>10 DEF Summable
  <2>2. SumFunctionOnSet(plan, Prices) = SumFunctionOnSet(plan, hit)
    BY <1>2, <1>9, <2>1, SumSupport
  <2> QED BY <1>8, <2>2 DEF Volume
<1>12. SumFunctionOnSet(open, hit) \in Nat
  <2>1. \A p \in hit : open[p] \in Nat
    BY <1>1, <1>2
  <2> QED BY <2>1, <1>2, SumNat
<1>13. Volume(plan) \in Nat /\ Volume(plan) <= need
  BY <1>1, <1>11, <1>12 DEF Lesser
<1>14. ASSUME Volume(plan) # need, NEW p \in hit PROVE plan[p] = open[p]
  <2>1. SumFunctionOnSet(open, hit) <= need /\ SumFunctionOnSet(open, hit) # need
    BY <1>1, <1>11, <1>12, <1>14 DEF Lesser
  <2>2. SumFunctionOnSet(plan, hit) = SumFunctionOnSet(open, hit)
    BY <1>8, <1>1, <1>12, <2>1 DEF Lesser
  <2>3. Summable(plan, hit) /\ Summable(open, hit) /\ Summable(plan, hit \ {p}) /\ Summable(open, hit \ {p})
    <3>1. Summable(plan, hit) /\ Summable(open, hit)
      BY <1>1, <1>2, <1>10 DEF Summable
    <3> QED BY <3>1, SummablePart
  <2>4. /\ SumFunctionOnSet(plan, hit) = plan[p] + SumFunctionOnSet(plan, hit \ {p})
        /\ SumFunctionOnSet(open, hit) = open[p] + SumFunctionOnSet(open, hit \ {p})
    BY <2>3, <1>14, SumSplit
  <2>5. SumFunctionOnSet(plan, hit \ {p}) <= SumFunctionOnSet(open, hit \ {p})
    BY <2>3, <1>8, SumMonotone
  <2>6. SumFunctionOnSet(plan, hit \ {p}) \in Int /\ SumFunctionOnSet(open, hit \ {p}) \in Int
    BY <2>3, SumType
  <2>7. plan[p] \in Nat /\ open[p] \in Nat /\ plan[p] <= open[p]
    BY <1>14, <1>8, <1>1, <1>2
  <2> DEFINE x == SumFunctionOnSet(plan, hit \ {p})
             y == SumFunctionOnSet(open, hit \ {p})
  <2>8. plan[p] + x = open[p] + y /\ x <= y /\ x \in Int /\ y \in Int
    BY <2>2, <2>4, <2>5, <2>6
  <2> HIDE DEF x, y
  <2> QED BY <2>7, <2>8
<1> QED BY <1>1, <1>9, <1>10, <1>13, <1>14 DEF plan, open, hit, need

(* One order's turn, in parts: the places that the volume it takes passes,  *)
(* what the orders need after it, and what it leaves of the book.          *)
Passed(q, k, plan) ==
  [j \in DOMAIN q |->
     IF q[j].level[1] # Other(orders[k].intent.side) THEN q[j]
     ELSE [q[j] EXCEPT !.ahead = Monus(q[j].ahead, plan[q[j].level[2]])]]

Needs(k, left) == [j \in DOMAIN orders |-> IF j = k THEN left ELSE Remaining(j)]

Left(m, k) == Remaining(k) - Volume(Plan(m, k))

LeftOver(m, k) ==
  [m.overlay EXCEPT ![Other(orders[k].intent.side)] =
     [p \in Prices |-> Offered(m, k)[p] - Plan(m, k)[p]]]

QueueAfter(m, k) == Release(Passed(m.queue, k, Plan(m, k)), Needs(k, Left(m, k)))

Taken(m, k) == [m EXCEPT !.overlay = LeftOver(m, k), !.queue = QueueAfter(m, k)]

(* The places of the orders it passes move forward.                        *)
LEMMA PassedIs ==
  ASSUME Typed, NEW q \in Queues, NEW k \in DOMAIN orders, NEW plan \in [Prices -> Nat]
  PROVE  /\ Passed(q, k, plan) \in Queues /\ DOMAIN Passed(q, k, plan) = DOMAIN q
         /\ Onward(q, Passed(q, k, plan))
         /\ \A j \in DOMAIN q : Passed(q, k, plan)[j].remaining = q[j].remaining
<1> DEFINE r == Passed(q, k, plan)
<1>1. DOMAIN r = DOMAIN q /\ r = [j \in DOMAIN q |-> r[j]]
  BY DEF Passed
<1>2. ASSUME NEW j \in DOMAIN q
      PROVE  /\ r[j] \in Place /\ r[j].remaining = q[j].remaining
             /\ r[j].level = q[j].level /\ r[j].priority = q[j].priority
             /\ r[j].ahead <= q[j].ahead
  <2>1. q[j] \in Place /\ q[j].ahead \in Nat
    BY QueueIs
  <2>2. r[j] = IF q[j].level[1] # Other(orders[k].intent.side) THEN q[j]
               ELSE [q[j] EXCEPT !.ahead = Monus(q[j].ahead, plan[q[j].level[2]])]
    BY DEF Passed
  <2>3. plan[q[j].level[2]] \in Nat
    BY <2>1 DEF Place
  <2> DEFINE n == Monus(q[j].ahead, plan[q[j].level[2]])
  <2>4. n \in Nat /\ n <= q[j].ahead
    BY <2>1, <2>3 DEF Monus
  <2> HIDE DEF r, n
  <2>5. r[j] = q[j] \/ r[j] = [q[j] EXCEPT !.ahead = n]
    BY <2>2 DEF n
  <2> QED BY <2>1, <2>4, <2>5 DEF Place
<1>3. \A j \in DOMAIN q : r[j].remaining <= q[j].remaining
  BY <1>2, QueueIs
<1>4. r \in Queues
  <2> HIDE DEF r
  <2> QED BY <1>1, <1>2, QueueIs, IsQueue
<1> HIDE DEF r
<1> QED BY <1>1, <1>2, <1>3, <1>4 DEF Onward, r

(* What an order's turn leaves of the book and of the queues.              *)
LEMMA TakenIs ==
  ASSUME Typed, Unfilled, NEW m \in Matching, NEW k \in DOMAIN orders
  PROVE  LET r == Taken(m, k)
         IN  /\ r \in Matching /\ r.known = m.known /\ r.book = m.book /\ r.stopAt = m.stopAt
             /\ r.overlay = LeftOver(m, k) /\ r.queue = QueueAfter(m, k)
             /\ Left(m, k) \in Nat /\ Onward(m.queue, r.queue)
             /\ DOMAIN r.queue = DOMAIN m.queue \cap DOMAIN orders
             /\ \A j \in DOMAIN r.queue :
                  r.queue[j].remaining
                    = Least(m.queue[j].remaining, IF j = k THEN Left(m, k) ELSE Remaining(j))
<1> DEFINE plan == Plan(m, k)
           a == Passed(m.queue, k, plan)
           needs == Needs(k, Left(m, k))
           q == QueueAfter(m, k)
           o == LeftOver(m, k)
           s == Other(orders[k].intent.side)
<1>1. /\ plan \in [Prices -> Nat] /\ Left(m, k) \in Nat
      /\ \A p \in Prices : Offered(m, k)[p] \in Nat /\ plan[p] <= Offered(m, k)[p]
  BY PlanIs DEF Left, Unfilled
<1>2. m.queue \in Queues /\ m.overlay \in Books
  BY MatchingIs
<1>3. /\ a \in Queues /\ DOMAIN a = DOMAIN m.queue /\ Onward(m.queue, a)
      /\ \A j \in DOMAIN a : a[j].remaining = m.queue[j].remaining
  <2> HIDE DEF plan
  <2> QED BY <1>1, <1>2, PassedIs
<1>4. DOMAIN needs = DOMAIN orders
      /\ \A j \in DOMAIN needs : needs[j] \in Nat /\ needs[j] = IF j = k THEN Left(m, k) ELSE Remaining(j)
  BY <1>1 DEF Needs, Unfilled
<1> HIDE DEF a, needs
<1>5. q = Release(a, needs)
  BY DEF QueueAfter, a, needs
<1> HIDE DEF q
<1>6. /\ q \in Queues /\ DOMAIN q = DOMAIN a \cap DOMAIN orders /\ Onward(a, q)
      /\ \A j \in DOMAIN a \cap DOMAIN orders : q[j].remaining = Least(a[j].remaining, needs[j])
  BY <1>3, <1>4, <1>5, ReleaseIs
<1>7. Onward(m.queue, q)
  BY <1>2, <1>3, <1>6, OnwardOnward
<1>8. o \in Books
  <2>1. [p \in Prices |-> Offered(m, k)[p] - plan[p]] \in [Prices -> Nat]
    BY <1>1
  <2>2. s \in Sides
    BY OrderIs, SidesAre
  <2> HIDE DEF plan
  <2> QED BY <1>2, <2>1, <2>2 DEF Books, LeftOver, plan
<1> HIDE DEF o
<1>9. Taken(m, k) = [m EXCEPT !.overlay = o, !.queue = q]
  BY DEF Taken, o, q
<1>10. /\ Taken(m, k) \in Matching /\ Taken(m, k).known = m.known /\ Taken(m, k).book = m.book
       /\ Taken(m, k).stopAt = m.stopAt /\ Taken(m, k).overlay = o /\ Taken(m, k).queue = q
  BY <1>6, <1>8, <1>9 DEF Matching
<1>11. \A j \in DOMAIN q :
         q[j].remaining = Least(m.queue[j].remaining, IF j = k THEN Left(m, k) ELSE Remaining(j))
  BY <1>3, <1>4, <1>6
<1>12. DOMAIN q = DOMAIN m.queue \cap DOMAIN orders
  BY <1>3, <1>6
<1> QED BY <1>1, <1>7, <1>10, <1>11, <1>12 DEF o, q

(* The orders' takes and the matching state after some of them were met.   *)
Accs == [m : Matching, takes : [DOMAIN orders -> [Prices -> Nat]]]

(* An order's turn: it does nothing, or it takes and what is left may join. *)
LEMMA TakeIs ==
  ASSUME Typed, Unfilled, NEW acc \in Accs, NEW k \in DOMAIN orders
  PROVE  /\ Take(acc, k) \in Accs
         /\ \/ Take(acc, k) = acc
            \/ /\ Take(acc, k).takes = [acc.takes EXCEPT ![k] = Plan(acc.m, k)]
               /\ Take(acc, k).m = Enqueue(Taken(acc.m, k), k, Left(acc.m, k))
               /\ Joined(Taken(acc.m, k), k, Left(acc.m, k), Take(acc, k).m)
<1> DEFINE m == acc.m
           plan == Plan(m, k)
           left == Left(m, k)
           r == Enqueue(Taken(m, k), k, left)
           takes == [acc.takes EXCEPT ![k] = plan]
<1>1. m \in Matching /\ acc.takes \in [DOMAIN orders -> [Prices -> Nat]]
  BY DEF Accs
<1>2. plan \in [Prices -> Nat]
  BY <1>1, PlanIs
<1>3. Taken(m, k) \in Matching /\ left \in Nat
  BY <1>1, TakenIs
<1>4. Joined(Taken(m, k), k, left, r)
  <2> HIDE DEF left
  <2> QED BY <1>3, EnqueueIs
<1>5. r \in Matching
  BY <1>4 DEF Joined
<1>6. takes \in [DOMAIN orders -> [Prices -> Nat]]
  <2> HIDE DEF plan
  <2> QED BY <1>1, <1>2
<1>7. Take(acc, k) = IF orders[k].intent.tif = "FOK" /\ left # 0 THEN acc
                     ELSE [takes |-> takes, m |-> r]
  <2>1. Passed(m.queue, k, plan) =
          [j \in DOMAIN m.queue |->
             LET e == m.queue[j]
             IN  IF e.level[1] # Other(orders[k].intent.side) THEN e
                 ELSE [e EXCEPT !.ahead = Monus(e.ahead, plan[e.level[2]])]]
    BY DEF Passed
  <2>2. Taken(m, k) =
          [m EXCEPT !.overlay[Other(orders[k].intent.side)] =
                       [p \in Prices |-> m.overlay[Other(orders[k].intent.side)][p] - plan[p]],
                    !.queue = Release(Passed(m.queue, k, plan), Needs(k, left))]
    BY <1>1 DEF Taken, LeftOver, Offered, QueueAfter, Matching
  <2> QED BY <2>1, <2>2 DEF Take, Left, Needs
<1> HIDE DEF r, takes, left
<1>8. Take(acc, k) = acc \/ Take(acc, k) = [takes |-> takes, m |-> r]
  BY <1>7
<1>9. [takes |-> takes, m |-> r] \in Accs
  BY <1>5, <1>6 DEF Accs
<1> QED BY <1>4, <1>8, <1>9 DEF takes, left, r

(* What takers took of a level.                                            *)
Takers(side) == {k \in DOMAIN orders : orders[k].intent.side = Other(side)}
TakenAt(takes, s, p) ==
  SumFunctionOnSet([k \in DOMAIN orders |-> takes[k][p]], Takers(s))

(* What holds after some orders S were met, starting from m: the levels    *)
(* hold what was not taken, nobody took more than it needs, and the queue  *)
(* agrees.                                                                 *)
Consumed(m, S, acc) ==
  /\ acc \in Accs
  /\ acc.m.known = m.known /\ acc.m.book = m.book /\ acc.m.stopAt = m.stopAt
  /\ \A k \in DOMAIN orders \ S : \A p \in Prices : acc.takes[k][p] = 0
  /\ \A k \in DOMAIN orders : Volume(acc.takes[k]) \in Nat /\ Volume(acc.takes[k]) <= Remaining(k)
  /\ \A s \in Sides, p \in Prices : acc.m.overlay[s][p] + TakenAt(acc.takes, s, p) = m.overlay[s][p]
  /\ DOMAIN acc.m.queue \subseteq DOMAIN orders
  /\ \A k \in DOMAIN acc.m.queue :
       acc.m.queue[k].remaining = Remaining(k) - Volume(acc.takes[k])
  /\ Onward(m.queue, acc.m.queue)

(* Zeros have no volume.                                                   *)
LEMMA NoVolume ==
  ASSUME NEW f, \A p \in Prices : f[p] = 0
  PROVE  Volume(f) = 0
BY L2Assumption, SumZero DEF Volume

(* One more take changes what was taken of the levels it takes from.       *)
LEMMA TakenAtIs ==
  ASSUME Typed, NEW takes \in [DOMAIN orders -> [Prices -> Nat]], NEW k \in DOMAIN orders,
         NEW plan \in [Prices -> Nat], NEW s \in Sides, NEW p \in Prices, takes[k][p] = 0
  PROVE  /\ TakenAt(takes, s, p) \in Nat
         /\ TakenAt([takes EXCEPT ![k] = plan], s, p)
              = TakenAt(takes, s, p) + IF s = Other(orders[k].intent.side) THEN plan[p] ELSE 0
<1> DEFINE more == [takes EXCEPT ![k] = plan]
           f == [j \in DOMAIN orders |-> takes[j][p]]
           g == [j \in DOMAIN orders |-> more[j][p]]
           T == Takers(s)
<1>1. T \subseteq DOMAIN orders /\ IsFiniteSet(T)
  BY OrderIs, FS_Subset DEF Takers
<1>2. /\ \A j \in DOMAIN orders : f[j] \in Nat /\ g[j] \in Nat
      /\ \A j \in DOMAIN orders : j # k => g[j] = f[j]
      /\ f[k] = 0 /\ g[k] = plan[p]
  OBVIOUS
<1>3. k \in T <=> s = Other(orders[k].intent.side)
  BY OrderIs, SidesAre DEF Takers
<1>4. TakenAt(takes, s, p) = SumFunctionOnSet(f, T) /\ TakenAt(more, s, p) = SumFunctionOnSet(g, T)
  BY DEF TakenAt
<1> HIDE DEF f, g, T, more
<1>5. Summable(f, T)
  BY <1>1, <1>2 DEF Summable
<1>6. SumFunctionOnSet(f, T) \in Nat
  <2>1. \A j \in T : f[j] \in Nat
    BY <1>1, <1>2
  <2> QED BY <1>1, <2>1, SumNat
<1>7. CASE k \in T
  <2>1. g[k] \in Int /\ \A j \in T \ {k} : f[j] = g[j]
    BY <1>1, <1>2
  <2>2. SumFunctionOnSet(g, T) = SumFunctionOnSet(f, T) + (g[k] - f[k])
    BY <2>1, <1>5, <1>7, SumChanged
  <2>3. plan[p] \in Nat
    OBVIOUS
  <2>4. SumFunctionOnSet(g, T) = SumFunctionOnSet(f, T) + plan[p]
    BY <2>2, <2>3, <1>2, <1>6
  <2> QED BY <2>4, <1>3, <1>4, <1>6, <1>7 DEF more
<1>8. CASE k \notin T
  <2>1. \A j \in T : f[j] = g[j]
    BY <1>1, <1>2, <1>8
  <2>2. SumFunctionOnSet(f, T) = SumFunctionOnSet(g, T)
    BY <2>1, <1>5, SumSame
  <2> QED BY <2>2, <1>3, <1>4, <1>6, <1>8 DEF more
<1> QED BY <1>7, <1>8

(* What holds after some orders were met holds after one more.             *)
LEMMA TakeConsumes ==
  ASSUME Typed, Unfilled, NEW m \in Matching, NEW S \in SUBSET DOMAIN orders, NEW acc,
         Consumed(m, S, acc), NEW k \in DOMAIN orders, k \notin S
  PROVE  Consumed(m, S \cup {k}, Take(acc, k))
<1> DEFINE a == acc.m
           plan == Plan(a, k)
           left == Left(a, k)
           out == Take(acc, k)
           r == out.m
           T == S \cup {k}
<1>1. acc \in Accs /\ a \in Matching /\ acc.takes \in [DOMAIN orders -> [Prices -> Nat]]
  BY DEF Consumed, Accs
<1>2. /\ a.known = m.known /\ a.book = m.book /\ a.stopAt = m.stopAt
      /\ \A j \in DOMAIN orders \ S : \A p \in Prices : acc.takes[j][p] = 0
      /\ \A j \in DOMAIN orders : Volume(acc.takes[j]) \in Nat /\ Volume(acc.takes[j]) <= Remaining(j)
      /\ \A s \in Sides, p \in Prices : a.overlay[s][p] + TakenAt(acc.takes, s, p) = m.overlay[s][p]
      /\ DOMAIN a.queue \subseteq DOMAIN orders
      /\ \A j \in DOMAIN a.queue : a.queue[j].remaining = Remaining(j) - Volume(acc.takes[j])
      /\ Onward(m.queue, a.queue)
  BY DEF Consumed
<1>3. out \in Accs
  BY <1>1, TakeIs
<1>4. CASE out = acc
  BY <1>4, <1>1, <1>2 DEF Consumed
<1>5. ASSUME /\ out.takes = [acc.takes EXCEPT ![k] = plan]
             /\ Joined(Taken(a, k), k, left, r)
      PROVE  Consumed(m, T, out)
  <2>1. /\ plan \in [Prices -> Nat] /\ Volume(plan) \in Nat /\ Volume(plan) <= Remaining(k)
        /\ \A p \in Prices : Offered(a, k)[p] \in Nat
        /\ left = Remaining(k) - Volume(plan) /\ left \in Nat
    BY <1>1, PlanIs DEF Left, Unfilled
  <2> DEFINE t == Taken(a, k)
  <2>2. /\ t \in Matching /\ t.known = a.known /\ t.book = a.book /\ t.stopAt = a.stopAt
        /\ t.overlay = LeftOver(a, k) /\ Onward(a.queue, t.queue)
        /\ DOMAIN t.queue = DOMAIN a.queue \cap DOMAIN orders
        /\ \A j \in DOMAIN t.queue :
             t.queue[j].remaining = Least(a.queue[j].remaining, IF j = k THEN left ELSE Remaining(j))
    BY <1>1, TakenIs
  <2> HIDE DEF t, left, out
  <2>3. /\ r \in Matching /\ r.known = t.known /\ r.book = t.book
        /\ r.overlay = t.overlay /\ r.stopAt = t.stopAt
        /\ \A j \in DOMAIN t.queue : j \in DOMAIN r.queue /\ r.queue[j] = t.queue[j]
        /\ DOMAIN r.queue \subseteq DOMAIN t.queue \cup {k}
        /\ k \in DOMAIN r.queue /\ k \notin DOMAIN t.queue => r.queue[k].remaining = left
    BY <1>5 DEF Joined, PlaceOf, t
  <2>4. r.known = m.known /\ r.book = m.book /\ r.stopAt = m.stopAt
    BY <1>2, <2>2, <2>3
  <2>5. \A j \in DOMAIN orders : out.takes[j] = IF j = k THEN plan ELSE acc.takes[j]
    <3> HIDE DEF plan
    <3> QED BY <1>1, <1>5
  <2>6. \A j \in DOMAIN orders \ T : \A p \in Prices : out.takes[j][p] = 0
    BY <1>2, <2>5
  <2>7. \A j \in DOMAIN orders : Volume(out.takes[j]) \in Nat /\ Volume(out.takes[j]) <= Remaining(j)
    BY <1>2, <2>1, <2>5
  <2>8. Volume(acc.takes[k]) = 0
    BY <1>2, NoVolume
  <2>9. ASSUME NEW j \in DOMAIN r.queue
        PROVE  j \in DOMAIN orders /\ r.queue[j].remaining = Remaining(j) - Volume(out.takes[j])
    <3>1. j \in DOMAIN orders
      BY <2>2, <2>3
    <3>2. Remaining(j) \in Nat /\ Volume(acc.takes[j]) \in Nat /\ Volume(acc.takes[j]) <= Remaining(j)
      BY <1>2, <3>1 DEF Unfilled
    <3>3. CASE j \in DOMAIN t.queue
      <4>1. /\ r.queue[j].remaining = Least(a.queue[j].remaining, IF j = k THEN left ELSE Remaining(j))
            /\ a.queue[j].remaining = Remaining(j) - Volume(acc.takes[j])
        BY <1>2, <2>2, <2>3, <3>3
      <4>2. CASE j = k
        BY <4>1, <4>2, <2>1, <2>5, <2>8, <3>1, <3>2 DEF Least
      <4>3. CASE j # k
        BY <4>1, <4>3, <2>5, <3>1, <3>2 DEF Least
      <4> QED BY <4>2, <4>3, <3>1
    <3>4. CASE j \notin DOMAIN t.queue
      <4>1. j = k /\ r.queue[j].remaining = left
        BY <2>3, <3>4
      <4> QED BY <4>1, <2>1, <2>5, <3>1
    <3> QED BY <3>3, <3>4
  <2>10. Onward(a.queue, r.queue)
    BY <2>2, <2>3 DEF Onward
  <2>11. Onward(m.queue, r.queue)
    <3>1. m.queue \in Queues /\ a.queue \in Queues /\ r.queue \in Queues
      BY <1>1, <2>3, MatchingIs
    <3> QED BY <1>2, <2>10, <3>1, OnwardOnward
  <2>12. ASSUME NEW s \in Sides, NEW p \in Prices
         PROVE  r.overlay[s][p] + TakenAt(out.takes, s, p) = m.overlay[s][p]
    <3> DEFINE here == s = Other(orders[k].intent.side)
               x == IF here THEN plan[p] ELSE 0
    <3>1. a.overlay[s][p] \in Nat /\ a.overlay \in Books
      BY <1>1, MatchingIs DEF Books
    <3>2. acc.takes[k][p] = 0
      BY <1>2
    <3>3. /\ TakenAt(acc.takes, s, p) \in Nat
          /\ TakenAt(out.takes, s, p) = TakenAt(acc.takes, s, p) + x
      <4> DEFINE takes == acc.takes
      <4>1. takes \in [DOMAIN orders -> [Prices -> Nat]] /\ plan \in [Prices -> Nat] /\ takes[k][p] = 0
        BY <1>1, <2>1, <3>2
      <4>2. out.takes = [takes EXCEPT ![k] = plan]
        BY <1>5
      <4> HIDE DEF takes, plan
      <4>3. /\ TakenAt(takes, s, p) \in Nat
            /\ TakenAt([takes EXCEPT ![k] = plan], s, p)
                 = TakenAt(takes, s, p) + IF s = Other(orders[k].intent.side) THEN plan[p] ELSE 0
        BY <4>1, TakenAtIs, ZenonT(100)
      <4> QED BY <4>2, <4>3 DEF takes
    <3>4. r.overlay[s][p] = a.overlay[s][p] - x
      <4>1. r.overlay = LeftOver(a, k)
        BY <2>2, <2>3
      <4>2. CASE here
        <5>1. r.overlay[s][p] = Offered(a, k)[p] - plan[p]
          BY <4>1, <4>2, <3>1 DEF LeftOver, Books
        <5>2. Offered(a, k) = a.overlay[s]
          BY <4>2 DEF Offered
        <5> QED BY <5>1, <5>2, <4>2
      <4>3. CASE ~here
        <5>1. r.overlay[s][p] = a.overlay[s][p]
          BY <4>1, <4>3, <3>1 DEF LeftOver, Books
        <5> QED BY <5>1, <4>3, <3>1
      <4> QED BY <4>2, <4>3
    <3>5. a.overlay[s][p] + TakenAt(acc.takes, s, p) = m.overlay[s][p] /\ x \in Nat
      BY <1>2, <2>1
    <3> HIDE DEF x
    <3> QED BY <3>1, <3>3, <3>4, <3>5
  <2> QED BY <1>3, <2>4, <2>6, <2>7, <2>9, <2>11, <2>12 DEF Consumed
<1> QED BY <1>1, <1>4, <1>5, TakeIs

-----------------------------------------------------------------------------
(* Meeting the book.                                                       *)

(* The recursion of ConsumeVisibleBook, and that it has a solution.        *)
MetBy(m, D, skip, g) ==
  g = [S \in SUBSET D |->
         IF S = {} THEN [m |-> m, takes |-> NoTakes]
         ELSE LET k == LastInTurn(S, m.stopAt) IN Meet(g[S \ {k}], k, skip)]

TheMet(m, D, skip) == CHOOSE g : MetBy(m, D, skip, g)

(* Before any order is met nothing is taken.                               *)
LEMMA NoTakesIs ==
  ASSUME NEW m \in Matching
  PROVE  [m |-> m, takes |-> NoTakes] \in Accs
<1>1. NoTakes \in [DOMAIN orders -> [Prices -> Nat]]
  BY DEF NoTakes
<1> QED BY <1>1 DEF Accs

(* Meeting an order takes for it or leaves everything as it is.            *)
LEMMA MeetIs ==
  ASSUME Typed, Unfilled, NEW acc \in Accs, NEW k \in DOMAIN orders, NEW skip \in BOOLEAN
  PROVE  Meet(acc, k, skip) \in Accs /\ (Meet(acc, k, skip) = acc \/ Meet(acc, k, skip) = Take(acc, k))
BY TakeIs DEF Meet

(* The recursion of ConsumeVisibleBook has a solution.                     *)
LEMMA MetExists ==
  ASSUME Typed, Unfilled, NEW m \in Matching, NEW D \in SUBSET DOMAIN orders, NEW skip \in BOOLEAN
  PROVE  \E g : MetBy(m, D, skip, g)
<1> DEFINE final == [S \in SUBSET D |-> LastInTurn(S, m.stopAt)]
           step == [x \in Accs \X D |-> Meet(x[1], x[2], skip)]
           base == [m |-> m, takes |-> NoTakes]
<1>1. IsFiniteSet(D) /\ base \in Accs
  BY OrderIs, FS_Subset, NoTakesIs
<1>2. \A S \in SUBSET D : S # {} => final[S] \in S /\ final[S] = LastInTurn(S, m.stopAt)
  BY LastIs, MatchingIs
<1> HIDE DEF base
<1>3. \A v \in Accs, x \in D : step[<<v, x>>] \in Accs /\ step[<<v, x>>] = Meet(v, x, skip)
  <2> SUFFICES ASSUME NEW v \in Accs, NEW x \in D
               PROVE  step[<<v, x>>] \in Accs /\ step[<<v, x>>] = Meet(v, x, skip)
    OBVIOUS
  <2>1. step[<<v, x>>] = Meet(v, x, skip)
    OBVIOUS
  <2>2. x \in DOMAIN orders
    OBVIOUS
  <2>3. Meet(v, x, skip) \in Accs
    BY <2>2, MeetIs
  <2> QED BY <2>1, <2>3
<1>4. PICK g \in [SUBSET D -> Accs] : Recurs(base, final, step, D, g)
  <2> HIDE DEF final, step
  <2> QED BY <1>1, <1>2, <1>3, SetRecursion
<1>5. \A S \in SUBSET D :
        g[S] = IF S = {} THEN base
               ELSE LET k == LastInTurn(S, m.stopAt) IN Meet(g[S \ {k}], k, skip)
  <2> SUFFICES ASSUME NEW S \in SUBSET D
               PROVE  g[S] = IF S = {} THEN base
                             ELSE LET k == LastInTurn(S, m.stopAt) IN Meet(g[S \ {k}], k, skip)
    OBVIOUS
  <2>1. g[S] = IF S = {} THEN base ELSE step[<<g[S \ {final[S]}], final[S]>>]
    <3> HIDE DEF final, step
    <3> QED BY <1>4 DEF Recurs
  <2>2. CASE S = {}
    BY <2>1, <2>2
  <2>3. CASE S # {}
    <3> DEFINE k == LastInTurn(S, m.stopAt)
    <3>1. k \in S /\ final[S] = k
      BY <1>2, <2>3
    <3> HIDE DEF k, final, step
    <3>2. g[S \ {k}] \in Accs /\ k \in D
      BY <3>1
    <3>3. g[S] = Meet(g[S \ {k}], k, skip)
      BY <1>3, <2>1, <2>3, <3>1, <3>2
    <3> QED BY <2>3, <3>3 DEF k
  <2> QED BY <2>2, <2>3
<1>6. g = [S \in SUBSET D |-> g[S]]
  OBVIOUS
<1> DEFINE h == [S \in SUBSET D |-> IF S = {} THEN base
                    ELSE LET k == LastInTurn(S, m.stopAt) IN Meet(g[S \ {k}], k, skip)]
<1>7. g = h
  <2> HIDE DEF final, step
  <2> QED BY <1>5, <1>6
<1> QED BY <1>7 DEF MetBy, base

(* What ConsumeVisibleBook computes, order by order.                       *)
LEMMA MetSteps ==
  ASSUME Typed, Unfilled, NEW m \in Matching, NEW t, NEW skip \in BOOLEAN
  PROVE  LET g == TheMet(m, Due(t), skip)
         IN  /\ ConsumeVisibleBook(m, t, skip) = g[Due(t)]
             /\ g[{}] = [m |-> m, takes |-> NoTakes]
             /\ \A S \in SUBSET Due(t) : S # {} =>
                  LET k == LastInTurn(S, m.stopAt)
                  IN  k \in S /\ g[S] = Meet(g[S \ {k}], k, skip)
<1> DEFINE g == TheMet(m, Due(t), skip)
<1>1. ConsumeVisibleBook(m, t, skip) = g[Due(t)]
  BY DEF ConsumeVisibleBook, TheMet, MetBy
<1>2. Due(t) \in SUBSET DOMAIN orders
  BY DEF Due
<1>3. MetBy(m, Due(t), skip, g)
  <2>1. \E h : MetBy(m, Due(t), skip, h)
    BY <1>2, MetExists
  <2> QED BY <2>1 DEF TheMet
<1> HIDE DEF g
<1>4. \A S \in SUBSET Due(t) :
        g[S] = IF S = {} THEN [m |-> m, takes |-> NoTakes]
               ELSE LET k == LastInTurn(S, m.stopAt) IN Meet(g[S \ {k}], k, skip)
  BY <1>3 DEF MetBy
<1>5. g[{}] = [m |-> m, takes |-> NoTakes]
  BY <1>4
<1>6. ASSUME NEW S \in SUBSET Due(t), S # {}
      PROVE  LET k == LastInTurn(S, m.stopAt)
             IN  k \in S /\ g[S] = Meet(g[S \ {k}], k, skip)
  <2>1. LastInTurn(S, m.stopAt) \in S
    <3>1. S \in SUBSET DOMAIN orders /\ m.stopAt \in Stops
      BY <1>2, MatchingIs
    <3> QED BY <3>1, <1>6, LastIs
  <2> QED BY <1>4, <1>6, <2>1
<1> QED BY <1>1, <1>5, <1>6 DEF g

(* Before anybody is met, nothing was taken.                               *)
LEMMA NobodyMet ==
  ASSUME Typed, Unfilled, NEW m \in Matching, Tidy(m.queue)
  PROVE  Consumed(m, {}, [m |-> m, takes |-> NoTakes])
<1> DEFINE acc == [m |-> m, takes |-> NoTakes]
<1>1. acc \in Accs /\ acc.m = m /\ acc.takes = NoTakes
  BY NoTakesIs
<1>2. \A k \in DOMAIN orders : \A p \in Prices : NoTakes[k][p] = 0
  BY DEF NoTakes
<1>3. \A k \in DOMAIN orders : Volume(NoTakes[k]) = 0
  BY <1>2, NoVolume
<1>4. ASSUME NEW s \in Sides, NEW p \in Prices PROVE TakenAt(NoTakes, s, p) = 0
  <2>1. Takers(s) \subseteq DOMAIN orders /\ IsFiniteSet(Takers(s))
    BY OrderIs, FS_Subset DEF Takers
  <2> DEFINE f == [k \in DOMAIN orders |-> NoTakes[k][p]]
  <2>2. \A k \in Takers(s) : f[k] = 0
    BY <1>2, <2>1
  <2> HIDE DEF f
  <2>3. SumFunctionOnSet(f, Takers(s)) = 0
    BY <2>1, <2>2, SumZero
  <2> QED BY <2>3 DEF TakenAt, f
<1>5. \A s \in Sides, p \in Prices : m.overlay[s][p] \in Nat
  BY MatchingIs DEF Books
<1>6. m.queue \in Queues
  BY MatchingIs
<1>7. Onward(m.queue, m.queue)
  BY <1>6, QueueIs DEF Onward
<1>8. \A k \in DOMAIN m.queue : m.queue[k].remaining = Remaining(k) /\ k \in DOMAIN orders
  BY DEF Tidy
<1>9. \A k \in DOMAIN orders : Remaining(k) \in Nat
  BY DEF Unfilled
<1> HIDE DEF acc
<1>10. \A k \in DOMAIN acc.m.queue : acc.m.queue[k].remaining = Remaining(k) - Volume(acc.takes[k])
  BY <1>1, <1>3, <1>8, <1>9
<1>11. \A k \in DOMAIN orders : Volume(acc.takes[k]) \in Nat /\ Volume(acc.takes[k]) <= Remaining(k)
  BY <1>1, <1>3, <1>9
<1>12. \A s \in Sides, p \in Prices : acc.m.overlay[s][p] + TakenAt(acc.takes, s, p) = m.overlay[s][p]
  BY <1>1, <1>4, <1>5
<1>13. Consumed(m, {}, acc)
  BY <1>1, <1>2, <1>7, <1>8, <1>10, <1>11, <1>12 DEF Consumed
<1> QED BY <1>13 DEF acc

(* Those an event skips change nothing.                                    *)
LEMMA MeetConsumes ==
  ASSUME Typed, Unfilled, NEW m \in Matching, NEW S \in SUBSET DOMAIN orders, NEW acc,
         Consumed(m, S, acc), NEW k \in DOMAIN orders, k \notin S, NEW skip \in BOOLEAN
  PROVE  Consumed(m, S \cup {k}, Meet(acc, k, skip))
<1>1. Consumed(m, S \cup {k}, Take(acc, k))
  BY TakeConsumes
<1>2. Consumed(m, S \cup {k}, acc)
  BY DEF Consumed
<1> QED BY <1>1, <1>2 DEF Meet

(* After an event met the orders that are due, what they took left the     *)
(* levels, nobody took more than it needs, and the queue agrees.           *)
LEMMA ConsumeIs ==
  ASSUME Typed, Unfilled, NEW m \in Matching, Tidy(m.queue), NEW t, NEW skip \in BOOLEAN
  PROVE  Consumed(m, Due(t), ConsumeVisibleBook(m, t, skip))
<1> DEFINE g == TheMet(m, Due(t), skip)
           B == {S \in SUBSET Due(t) : Consumed(m, S, g[S])}
<1>1. Consumed(m, {}, [m |-> m, takes |-> NoTakes])
  BY NobodyMet
<1>2. /\ ConsumeVisibleBook(m, t, skip) = g[Due(t)]
      /\ g[{}] = [m |-> m, takes |-> NoTakes]
      /\ \A S \in SUBSET Due(t) : S # {} =>
           LET k == LastInTurn(S, m.stopAt)
           IN  k \in S /\ g[S] = Meet(g[S \ {k}], k, skip)
  BY MetSteps, ZenonT(100)
<1>3. Due(t) \in SUBSET DOMAIN orders /\ IsFiniteSet(Due(t))
  <2>1. Due(t) \in SUBSET DOMAIN orders
    BY DEF Due
  <2> QED BY <2>1, OrderIs, FS_Subset
<1> HIDE DEF g
<1>4. ASSUME NEW S \in SUBSET Due(t), \A R \in SUBSET S : R # S => R \in B
      PROVE  S \in B
  <2>1. CASE S = {}
    BY <2>1, <1>1, <1>2
  <2>2. CASE S # {}
    <3> DEFINE k == LastInTurn(S, m.stopAt)
               R == S \ {k}
    <3>1. k \in S /\ g[S] = Meet(g[R], k, skip)
      BY <1>2, <2>2
    <3> HIDE DEF k
    <3>2. Consumed(m, R, g[R])
      BY <1>4, <3>1
    <3>3. k \in DOMAIN orders /\ R \in SUBSET DOMAIN orders /\ k \notin R /\ R \cup {k} = S
      BY <1>3, <3>1
    <3> HIDE DEF R
    <3>4. Consumed(m, R \cup {k}, Meet(g[R], k, skip))
      BY <3>2, <3>3, MeetConsumes
    <3> QED BY <3>1, <3>3, <3>4
  <2> QED BY <2>1, <2>2
<1>5. SUBSET Due(t) \subseteq B
  <2> HIDE DEF B
  <2> QED BY <1>3, <1>4, FiniteSetInduction
<1>6. Consumed(m, Due(t), g[Due(t)])
  BY <1>5
<1> QED BY <1>2, <1>6

-----------------------------------------------------------------------------
(* The inductive invariant.                                                *)
IInv == Typed /\ QueueMatchesOrder /\ VisibleVolumeOnce

(* Under the invariant every open order still needs something.             *)
LEMMA UnfilledIs ==
  ASSUME Typed, QueueMatchesOrder
  PROVE  Unfilled
<1> SUFFICES ASSUME NEW k \in DOMAIN orders PROVE Remaining(k) \in Nat \ {0}
  BY DEF Unfilled
<1>1. orders[k].intent.quantity \in Nat \ {0} /\ orders[k].filled \in Nat
  BY OrderIs
<1>2. Remaining(k) > 0
  BY DEF QueueMatchesOrder
<1> QED BY <1>1, <1>2 DEF Remaining

(* Events happen at natural times, none before the last.                   *)
LEMMA InstantsAre ==
  ASSUME Typed, NEW t \in Instants
  PROVE  t \in Nat /\ now \in Nat /\ now <= t
BY DEF Typed, Instants

(* Steps that take over the matching state of an event.                    *)
CommitReady(m, fill, takes, shown) ==
  /\ m \in Matching
  /\ \A k \in DOMAIN orders : fill[k] \in Nat /\ fill[k] <= Remaining(k)
  /\ takes \in [DOMAIN orders -> [Prices -> Nat]]
  /\ \A k \in DOMAIN m.queue :
       k \in DOMAIN orders => m.queue[k].remaining = Remaining(k) - fill[k]
  /\ shown \in [Sides -> [Prices -> Int]]
  /\ \A s \in Sides, p \in Prices : m.overlay[s][p] + TakenAt(takes, s, p) <= shown[s][p]

(* Taking over a matching state that is ready keeps the invariant.         *)
LEMMA CommitKeeps ==
  ASSUME IInv, NEW t \in Instants, NEW m, NEW fill, NEW takes, NEW shown,
         CommitReady(m, fill, takes, shown), Commit(t, m, fill, takes, shown)
  PROVE  IInv'
<1> DEFINE total(k) == orders[k].filled + fill[k]
           done(k)  == \/ total(k) = orders[k].intent.quantity
                       \/ Immediate(orders[k].intent) /\ Eligible(k, t)
           open == {j \in DOMAIN orders : ~done(j)}
<1>0. Typed /\ Unfilled
  BY UnfilledIs DEF IInv
<1>1. /\ now' = t /\ used' = used
      /\ known' = m.known /\ book' = m.book /\ overlay' = m.overlay
      /\ queue' = m.queue /\ stopAt' = m.stopAt
  BY DEF Commit
<1>2. orders' = [k \in open |-> [orders[k] EXCEPT !.filled = total(k)]]
  BY DEF Commit
<1>3. displayed' = [s \in Sides |-> [p \in Prices |-> shown[s][p] - TakenAt(takes, s, p)]]
  BY DEF Commit, TakenAt, Takers
<1>4. ASSUME NEW k \in open
      PROVE  /\ k \in DOMAIN orders /\ total(k) \in Nat /\ total(k) < orders[k].intent.quantity
             /\ orders'[k] = [orders[k] EXCEPT !.filled = total(k)]
  <2>1. /\ orders[k].filled \in Nat /\ orders[k].intent.quantity \in Nat
        /\ fill[k] \in Nat /\ fill[k] <= Remaining(k) /\ k \in DOMAIN orders
    BY <1>0, OrderIs DEF CommitReady
  <2>2. total(k) # orders[k].intent.quantity
    OBVIOUS
  <2>3. orders'[k] = [orders[k] EXCEPT !.filled = total(k)]
    <3> HIDE DEF open, total
    <3> QED BY <1>2
  <2> QED BY <2>1, <2>2, <2>3 DEF Remaining
<1>5. DOMAIN orders' = open
  <2> HIDE DEF open, total
  <2> QED BY <1>2
<1>6. ASSUME NEW k \in open
      PROVE  /\ orders'[k] \in Entry /\ orders'[k].intent = orders[k].intent
             /\ orders'[k].filled = total(k)
  <2>1. orders[k] \in Entry
    BY <1>0, <1>4, OrderIs
  <2> HIDE DEF total, open
  <2> QED BY <2>1, <1>4 DEF Entry
<1> HIDE DEF open
<1>7. orders' \in Orders'
  <2>1. orders' = [k \in open |-> orders'[k]]
    <3> HIDE DEF total
    <3> QED BY <1>2
  <2>2. orders' \in [open -> Entry]
    BY <1>6, <2>1
  <2>3. open \in SUBSET used
    BY <1>0, <1>4, OrderIs
  <2> QED BY <2>2, <2>3, <1>1 DEF Orders
<1>8. ASSUME NEW s \in Sides, NEW p \in Prices PROVE TakenAt(takes, s, p) \in Nat
  <2> DEFINE f == [k \in DOMAIN orders |-> takes[k][p]]
  <2>1. Takers(s) \subseteq DOMAIN orders /\ IsFiniteSet(Takers(s))
    BY <1>0, OrderIs, FS_Subset DEF Takers
  <2>2. \A k \in Takers(s) : f[k] \in Nat
    BY <2>1 DEF CommitReady
  <2> HIDE DEF f
  <2>3. SumFunctionOnSet(f, Takers(s)) \in Nat
    BY <2>1, <2>2, SumNat
  <2> QED BY <2>3 DEF TakenAt, f
<1>9. \A s \in Sides, p \in Prices : shown[s][p] \in Int
  BY DEF CommitReady
<1>10. displayed' \in [Sides -> [Prices -> Int]]
       /\ \A s \in Sides, p \in Prices : displayed'[s][p] = shown[s][p] - TakenAt(takes, s, p)
  BY <1>3, <1>8, <1>9
<1>11. Typed'
  <2>1. m \in Matching /\ t \in Nat /\ used \subseteq Keys /\ IsFiniteSet(used)
    BY <1>0, InstantsAre DEF CommitReady, Typed
  <2>2. /\ m.known \in BOOLEAN /\ m.book \in Books /\ m.overlay \in Books
        /\ m.queue \in Queues /\ m.stopAt \in Stops
    BY <2>1, MatchingIs
  <2>3. queue' \in Queues' /\ stopAt' \in Stops'
    BY <1>1, <2>2 DEF Queues, Stops
  <2>4. now' \in Nat /\ used' \subseteq Keys /\ IsFiniteSet(used')
        /\ known' \in BOOLEAN /\ book' \in Books /\ overlay' \in Books
    BY <1>1, <2>1, <2>2
  <2> QED BY <1>7, <1>10, <2>3, <2>4 DEF Typed, Books
<1>12. QueueMatchesOrder'
  <2> SUFFICES ASSUME NEW k \in open
               PROVE  /\ Remaining(k)' > 0
                      /\ k \in DOMAIN queue' => queue'[k].remaining = Remaining(k)'
    BY <1>5 DEF QueueMatchesOrder
  <2>1. /\ orders[k].filled \in Nat /\ orders[k].intent.quantity \in Nat
        /\ fill[k] \in Nat /\ k \in DOMAIN orders
    BY <1>0, <1>4, OrderIs DEF CommitReady
  <2>2. Remaining(k)' = orders[k].intent.quantity - total(k)
    <3>1. Remaining(k)' = orders'[k].intent.quantity - orders'[k].filled
      BY DEF Remaining
    <3>2. orders'[k].intent = orders[k].intent /\ orders'[k].filled = total(k)
      BY <1>6
    <3> HIDE DEF total
    <3> QED BY <3>1, <3>2
  <2>3. Remaining(k)' > 0 /\ Remaining(k)' = Remaining(k) - fill[k]
    <3>1. Remaining(k) = orders[k].intent.quantity - orders[k].filled
      BY DEF Remaining
    <3>2. total(k) \in Nat /\ total(k) < orders[k].intent.quantity /\ total(k) = orders[k].filled + fill[k]
      BY <1>4
    <3> HIDE DEF total
    <3> QED BY <2>1, <2>2, <3>1, <3>2
  <2>4. k \in DOMAIN queue' => queue'[k].remaining = Remaining(k) - fill[k]
    BY <1>1, <2>1 DEF CommitReady
  <2> QED BY <2>3, <2>4
<1>13. VisibleVolumeOnce'
  <2> SUFFICES ASSUME NEW s \in Sides, NEW p \in Prices
               PROVE  overlay'[s][p] <= displayed'[s][p]
    BY DEF VisibleVolumeOnce
  <2>1. m.overlay[s][p] + TakenAt(takes, s, p) <= shown[s][p] /\ overlay' = m.overlay
    BY <1>1 DEF CommitReady
  <2>2. m.overlay[s][p] \in Nat
    BY MatchingIs DEF CommitReady, Books
  <2> QED BY <1>8, <1>9, <1>10, <2>1, <2>2
<1> QED BY <1>11, <1>12, <1>13 DEF IInv

(* An event that only reconciles, and takers, are ready to be taken over.  *)

(* The state a match starts from.                                          *)
LEMMA StagedIs ==
  ASSUME IInv
  PROVE  /\ Typed /\ Unfilled /\ Staged \in Matching
         /\ Staged.known = known /\ Staged.book = book /\ Staged.overlay = overlay
         /\ Staged.queue = queue /\ Staged.stopAt = stopAt
         /\ \A k \in DOMAIN orders \cap DOMAIN queue : queue[k].remaining = Remaining(k)
<1>1. Typed /\ Unfilled
  BY UnfilledIs DEF IInv
<1>2. Staged \in Matching
  BY <1>1 DEF Staged, Matching, Typed
<1> QED BY <1>1, <1>2 DEF Staged, IInv, QueueMatchesOrder

(* What an event applied may hand to the matching.                         *)
AppliedOk(a, shown) ==
  /\ a \in Matching
  /\ \A k \in DOMAIN orders \cap DOMAIN a.queue : a.queue[k].remaining = Remaining(k)
  /\ shown \in [Sides -> [Prices -> Int]]
  /\ \A s \in Sides, p \in Prices : a.overlay[s][p] <= shown[s][p]

(* The matching state in which the takers of a book event are met, and     *)
(* what comes of it.                                                       *)
Ready(a, t) ==
  LET m == Reconcile(a, t) IN Trigger(m, t, [side \in Sides |-> Best(m, side)])

(* Reconciling and triggering leave the overlay alone and queues tidy.     *)
LEMMA ReadyIs ==
  ASSUME Typed, Unfilled, NEW a, NEW shown, AppliedOk(a, shown), NEW t \in Nat
  PROVE  /\ Ready(a, t) \in Matching /\ Tidy(Ready(a, t).queue)
         /\ Ready(a, t).overlay = a.overlay /\ Onward(a.queue, Ready(a, t).queue)
<1> DEFINE m == Reconcile(a, t)
           seen == [side \in Sides |-> Best(m, side)]
           r == Trigger(m, t, seen)
<1>1. Reconciled(a, m)
  BY ReconcileIs DEF AppliedOk
<1> HIDE DEF m
<1>2. m \in Matching /\ m.overlay = a.overlay /\ Tidy(m.queue) /\ Onward(a.queue, m.queue)
  BY <1>1 DEF Reconciled
<1>3. r \in Matching /\ r.overlay = m.overlay /\ r.queue = m.queue
  <2> HIDE DEF seen
  <2> QED BY <1>2, TriggerIs
<1>4. Ready(a, t) = r
  BY DEF Ready, m
<1> HIDE DEF r
<1> QED BY <1>2, <1>3, <1>4

(* What a book event commits is ready to be taken over.                    *)
LEMMA BookEventReady ==
  ASSUME Typed, Unfilled, NEW a, NEW shown, AppliedOk(a, shown), NEW t \in Nat
  PROVE  LET r == ConsumeVisibleBook(Ready(a, t), t, FALSE)
         IN  /\ CommitReady(r.m, [k \in DOMAIN orders |-> Volume(r.takes[k])], r.takes, shown)
             /\ Onward(a.queue, r.m.queue) /\ DOMAIN r.m.queue \subseteq DOMAIN orders
<1> DEFINE m == Ready(a, t)
           r == ConsumeVisibleBook(m, t, FALSE)
           fill == [k \in DOMAIN orders |-> Volume(r.takes[k])]
<1>1. m \in Matching /\ Tidy(m.queue) /\ m.overlay = a.overlay /\ Onward(a.queue, m.queue)
  BY ReadyIs
<1> HIDE DEF m
<1>2. Consumed(m, Due(t), r)
  BY <1>1, ConsumeIs
<1> HIDE DEF r
<1>3. /\ r.m \in Matching /\ r.takes \in [DOMAIN orders -> [Prices -> Nat]]
      /\ \A k \in DOMAIN orders : Volume(r.takes[k]) \in Nat /\ Volume(r.takes[k]) <= Remaining(k)
      /\ \A s \in Sides, p \in Prices : r.m.overlay[s][p] + TakenAt(r.takes, s, p) = m.overlay[s][p]
      /\ DOMAIN r.m.queue \subseteq DOMAIN orders
      /\ \A k \in DOMAIN r.m.queue : r.m.queue[k].remaining = Remaining(k) - Volume(r.takes[k])
      /\ Onward(m.queue, r.m.queue)
  BY <1>2 DEF Consumed, Accs
<1>4. \A k \in DOMAIN orders : fill[k] = Volume(r.takes[k])
  OBVIOUS
<1> HIDE DEF fill
<1>5. \A s \in Sides, p \in Prices : r.m.overlay[s][p] + TakenAt(r.takes, s, p) <= shown[s][p]
  BY <1>1, <1>3 DEF AppliedOk
<1>6. \A k \in DOMAIN orders : fill[k] \in Nat /\ fill[k] <= Remaining(k)
  BY <1>3, <1>4
<1>7. \A k \in DOMAIN r.m.queue : k \in DOMAIN orders => r.m.queue[k].remaining = Remaining(k) - fill[k]
  BY <1>3, <1>4
<1>8. CommitReady(r.m, fill, r.takes, shown)
  BY <1>3, <1>5, <1>6, <1>7 DEF CommitReady, AppliedOk
<1>9. Onward(a.queue, r.m.queue)
  <2>1. a.queue \in Queues /\ m.queue \in Queues /\ r.m.queue \in Queues
    BY <1>1, <1>3, MatchingIs DEF AppliedOk
  <2> QED BY <1>1, <1>3, <2>1, OnwardOnward
<1> QED BY <1>3, <1>8, <1>9 DEF r, m, fill

-----------------------------------------------------------------------------
(* The events.                                                             *)

(* What an event does to the places of the open orders.                    *)
MovesOn == Onward(queue, queue') /\ DOMAIN queue' \subseteq DOMAIN orders

(* A snapshot hands its book to the matching, and an empty queue.          *)
LEMMA SnapshotKeeps ==
  ASSUME IInv, NEW t \in Instants, NEW b \in Snapshots, Snapshot(t, b)
  PROVE  IInv' /\ last'.kind = "snapshot"
<1> DEFINE a == ApplySnapshot(Staged, b)
           r == ConsumeVisibleBook(Ready(a, t), t, FALSE)
           fill == [k \in DOMAIN orders |-> Volume(r.takes[k])]
<1>1. Typed /\ Unfilled /\ Staged \in Matching
  BY StagedIs
<1>2. b \in Books /\ t \in Nat
  BY <1>1, InstantsAre, L2Assumption DEF Books, Sides
<1>3. Nobody \in Queues /\ DOMAIN Nobody = {}
  <2>1. Nobody \in [{} -> Place] /\ {} \in SUBSET used
    BY DEF Nobody
  <2> QED BY <2>1 DEF Queues
<1>4. a \in Matching /\ a.queue = Nobody /\ a.overlay = b
  BY <1>1, <1>2, <1>3 DEF ApplySnapshot, Matching
<1>5. AppliedOk(a, b)
  <2>1. \A s \in Sides, p \in Prices : b[s][p] \in Nat
    BY <1>2 DEF Books
  <2>2. b \in [Sides -> [Prices -> Int]]
    BY <1>2 DEF Books
  <2> QED BY <1>3, <1>4, <2>1, <2>2 DEF AppliedOk
<1>6. Commit(t, r.m, fill, r.takes, b) /\ last'.kind = "snapshot"
  BY DEF Snapshot, BookEvent, Ready
<1> HIDE DEF a
<1>7. CommitReady(r.m, fill, r.takes, b)
  BY <1>1, <1>2, <1>5, BookEventReady
<1> HIDE DEF r, fill
<1> QED BY <1>6, <1>7, CommitKeeps

(* A delta leaves of a level what takers did not consume of it.            *)
LEMMA DeltaKeeps ==
  ASSUME IInv, NEW t \in Instants, NEW side \in Sides, NEW p \in Prices, NEW n \in Sizes \cup {0},
         Delta(t, side, p, n)
  PROVE  IInv' /\ MovesOn
<1> DEFINE a == ApplyDelta(Staged, side, p, n)
           shown == [displayed EXCEPT ![side][p] = @ + Monus(n, book[side][p])]
           r == ConsumeVisibleBook(Ready(a, t), t, FALSE)
           fill == [k \in DOMAIN orders |-> Volume(r.takes[k])]
           v == Refreshed(Staged, side, p, n)
           q == Advance(queue, <<side, p>>, Monus(book[side][p], n))
<1>1. /\ Typed /\ Unfilled /\ Staged \in Matching
      /\ Staged.known = known /\ Staged.book = book /\ Staged.overlay = overlay
      /\ Staged.queue = queue /\ Staged.stopAt = stopAt
      /\ \A k \in DOMAIN orders \cap DOMAIN queue : queue[k].remaining = Remaining(k)
  BY StagedIs
<1>2. /\ n \in Nat /\ t \in Nat /\ queue \in Queues
      /\ book \in Books /\ overlay \in Books /\ displayed \in [Sides -> [Prices -> Int]]
  BY <1>1, InstantsAre, L2Assumption DEF Typed
<1>3. /\ \A s \in Sides, x \in Prices : book[s][x] \in Nat /\ overlay[s][x] \in Nat /\ displayed[s][x] \in Int
      /\ \A s \in Sides, x \in Prices : overlay[s][x] <= displayed[s][x]
  BY <1>2 DEF Books, IInv, VisibleVolumeOnce
<1>4. v = Monus(n, Monus(book[side][p], overlay[side][p]))
  BY <1>1 DEF Refreshed
<1>5. v \in Nat /\ v <= displayed[side][p] + Monus(n, book[side][p])
  <2>1. book[side][p] \in Nat /\ overlay[side][p] \in Nat /\ displayed[side][p] \in Int
        /\ overlay[side][p] <= displayed[side][p]
    BY <1>3
  <2> HIDE DEF v
  <2> QED BY <1>2, <1>4, <2>1 DEF Monus
<1>6. /\ q \in Queues /\ DOMAIN q = DOMAIN queue /\ Onward(queue, q)
      /\ \A k \in DOMAIN queue : q[k].remaining = queue[k].remaining
  <2>1. Monus(book[side][p], n) \in Nat
    BY <1>2, <1>3 DEF Monus
  <2> QED BY <1>1, <1>2, <2>1, AdvanceIs
<1> HIDE DEF v, q
<1>7. a = [Staged EXCEPT !.book[side][p] = n, !.overlay[side][p] = v, !.queue = q]
  BY <1>1 DEF ApplyDelta, v, q
<1> HIDE DEF a
<1>8. /\ a \in Matching /\ a.queue = q
      /\ a.overlay = [overlay EXCEPT ![side][p] = v]
  BY <1>1, <1>2, <1>5, <1>6, <1>7 DEF Matching, Books
<1>9. \A s \in Sides, x \in Prices :
        /\ shown[s][x] = IF s = side /\ x = p THEN displayed[s][x] + Monus(n, book[s][x]) ELSE displayed[s][x]
        /\ a.overlay[s][x] = IF s = side /\ x = p THEN v ELSE overlay[s][x]
  BY <1>2, <1>8 DEF Books
<1>10. shown \in [Sides -> [Prices -> Int]]
  <2>1. displayed[side][p] + Monus(n, book[side][p]) \in Int
    BY <1>2, <1>3 DEF Monus
  <2> QED BY <2>1, <1>2
<1>11. Commit(t, r.m, fill, r.takes, shown)
  BY DEF Delta, BookEvent, Ready, a
<1> HIDE DEF shown
<1>12. AppliedOk(a, shown)
  <2>1. \A s \in Sides, x \in Prices : a.overlay[s][x] <= shown[s][x]
    BY <1>3, <1>5, <1>9
  <2>2. \A k \in DOMAIN orders \cap DOMAIN q : q[k].remaining = Remaining(k)
    BY <1>1, <1>6
  <2> QED BY <1>8, <1>10, <2>1, <2>2 DEF AppliedOk
<1>13. /\ CommitReady(r.m, fill, r.takes, shown)
       /\ Onward(q, r.m.queue) /\ DOMAIN r.m.queue \subseteq DOMAIN orders
  <2>1. Typed /\ Unfilled /\ t \in Nat
    BY <1>1, <1>2
  <2>2. /\ CommitReady(r.m, fill, r.takes, shown)
        /\ Onward(a.queue, r.m.queue) /\ DOMAIN r.m.queue \subseteq DOMAIN orders
    BY <2>1, <1>12, BookEventReady
  <2> HIDE DEF r, fill
  <2> QED BY <2>2, <1>8
<1> HIDE DEF r, fill
<1>14. IInv'
  BY <1>11, <1>13, CommitKeeps
<1>15. queue' = r.m.queue
  BY <1>11 DEF Commit
<1>16. Onward(queue, r.m.queue)
  <2>1. r.m.queue \in Queues
    BY <1>13, MatchingIs DEF CommitReady
  <2> QED BY <1>1, <1>2, <1>6, <1>13, <2>1, OnwardOnward
<1> QED BY <1>13, <1>14, <1>15, <1>16 DEF MovesOn

(* Nothing was taken where nobody took.                                    *)
LEMMA NothingTaken ==
  ASSUME Typed, Unfilled, NEW s \in Sides, NEW p \in Prices
  PROVE  TakenAt(NoTakes, s, p) = 0
<1>1. Takers(s) \subseteq DOMAIN orders /\ IsFiniteSet(Takers(s))
  BY OrderIs, FS_Subset DEF Takers
<1> DEFINE f == [k \in DOMAIN orders |-> NoTakes[k][p]]
<1>2. \A k \in Takers(s) : f[k] = 0
  BY <1>1 DEF NoTakes
<1> HIDE DEF f
<1>3. SumFunctionOnSet(f, Takers(s)) = 0
  BY <1>1, <1>2, SumZero
<1> QED BY <1>3 DEF TakenAt, f

(* Any other event.                                                        *)
LEMMA OtherKeeps ==
  ASSUME IInv, NEW t \in Instants, OtherEvent(t)
  PROVE  IInv' /\ MovesOn
<1> DEFINE m == Reconcile(Staged, t)
           fill == [k \in DOMAIN orders |-> 0]
<1>1. /\ Typed /\ Unfilled /\ Staged \in Matching
      /\ Staged.overlay = overlay /\ Staged.queue = queue
      /\ \A k \in DOMAIN orders \cap DOMAIN queue : queue[k].remaining = Remaining(k)
  BY StagedIs
<1>2. Reconciled(Staged, m)
  BY <1>1, ReconcileIs
<1>3. Commit(t, m, fill, NoTakes, displayed)
  BY DEF OtherEvent
<1> HIDE DEF m
<1>4. /\ m \in Matching /\ m.overlay = overlay /\ Tidy(m.queue) /\ Onward(queue, m.queue)
  BY <1>1, <1>2 DEF Reconciled
<1>5. \A k \in DOMAIN orders : fill[k] = 0 /\ Remaining(k) \in Nat
  BY <1>1 DEF Unfilled
<1> HIDE DEF fill
<1>6. CommitReady(m, fill, NoTakes, displayed)
  <2>1. \A k \in DOMAIN orders : fill[k] \in Nat /\ fill[k] <= Remaining(k)
    BY <1>5
  <2>2. NoTakes \in [DOMAIN orders -> [Prices -> Nat]]
    BY DEF NoTakes
  <2>3. \A k \in DOMAIN m.queue : k \in DOMAIN orders => m.queue[k].remaining = Remaining(k) - fill[k]
    BY <1>4, <1>5 DEF Tidy
  <2>4. displayed \in [Sides -> [Prices -> Int]]
    BY <1>1 DEF Typed
  <2>5. \A s \in Sides, p \in Prices : m.overlay[s][p] + TakenAt(NoTakes, s, p) <= displayed[s][p]
    <3>1. \A s \in Sides, p \in Prices : overlay[s][p] \in Nat /\ overlay[s][p] <= displayed[s][p]
      BY <1>1 DEF Typed, Books, IInv, VisibleVolumeOnce
    <3>2. \A s \in Sides, p \in Prices : TakenAt(NoTakes, s, p) = 0
      BY <1>1, NothingTaken
    <3> QED BY <1>4, <3>1, <3>2
  <2> QED BY <1>4, <2>1, <2>2, <2>3, <2>4, <2>5 DEF CommitReady
<1>7. IInv'
  BY <1>3, <1>6, CommitKeeps
<1>8. queue' = m.queue
  BY <1>3 DEF Commit
<1> QED BY <1>4, <1>7, <1>8 DEF MovesOn, Tidy

(* A trade: the takers it finds, the stops it triggers, and the resting    *)
(* orders that it fills, each by no more than it still holds.              *)
LEMMA TradeKeeps ==
  ASSUME IInv, NEW t \in Instants, NEW price \in Prices, NEW n \in Sizes, NEW side \in Aggressors,
         Trade(t, price, n, side)
  PROVE  IInv' /\ MovesOn
<1> DEFINE m == Reconcile(Staged, t)
           r == IF known THEN ConsumeVisibleBook(m, t, TRUE) ELSE [m |-> m, takes |-> NoTakes]
           seen == [x \in Sides |-> {price}]
           u == Trigger(r.m, t, seen)
           makers == Makers(u, t, price, side)
           made(k) == IF k \in makers THEN Made(u.queue, k, n) ELSE 0
           q == [k \in DOMAIN u.queue |->
                   IF k \in makers THEN Served(u.queue[k], n, Made(u.queue, k, n)) ELSE u.queue[k]]
           out == ConsumeQueues(u, makers, n)
           fill == [k \in DOMAIN orders |-> Volume(r.takes[k]) + made(k)]
<1>1. /\ Typed /\ Unfilled /\ Staged \in Matching
      /\ Staged.overlay = overlay /\ Staged.queue = queue
      /\ \A k \in DOMAIN orders \cap DOMAIN queue : queue[k].remaining = Remaining(k)
  BY StagedIs
<1>2. n \in Nat /\ t \in Nat
  BY <1>1, InstantsAre, L2Assumption
<1>3. Reconciled(Staged, m)
  BY <1>1, ReconcileIs
<1>4. Commit(t, out, fill, r.takes, displayed)
  BY DEF Trade
<1> HIDE DEF m
<1>5. /\ m \in Matching /\ m.overlay = overlay /\ Tidy(m.queue) /\ Onward(queue, m.queue)
  BY <1>1, <1>3 DEF Reconciled
<1>6. PICK S : Consumed(m, S, r)
  <2>1. CASE known
    BY <2>1, <1>1, <1>5, ConsumeIs
  <2>2. CASE ~known
    BY <2>2, <1>1, <1>5, NobodyMet
  <2> QED BY <2>1, <2>2
<1> HIDE DEF r
<1>7. /\ r.m \in Matching /\ r.takes \in [DOMAIN orders -> [Prices -> Nat]]
      /\ \A k \in DOMAIN orders : Volume(r.takes[k]) \in Nat /\ Volume(r.takes[k]) <= Remaining(k)
      /\ \A s \in Sides, p \in Prices : r.m.overlay[s][p] + TakenAt(r.takes, s, p) = m.overlay[s][p]
      /\ DOMAIN r.m.queue \subseteq DOMAIN orders
      /\ \A k \in DOMAIN r.m.queue : r.m.queue[k].remaining = Remaining(k) - Volume(r.takes[k])
      /\ Onward(m.queue, r.m.queue)
  BY <1>6 DEF Consumed, Accs
<1>8. u \in Matching /\ u.overlay = r.m.overlay /\ u.queue = r.m.queue
  <2> HIDE DEF seen
  <2> QED BY <1>1, <1>2, <1>7, TriggerIs
<1> HIDE DEF u
<1>9. makers \subseteq DOMAIN orders \cap DOMAIN u.queue
  BY DEF Makers
<1> HIDE DEF makers
<1>10. u.queue \in Queues
  BY <1>8, MatchingIs
<1>11. ASSUME NEW k \in DOMAIN u.queue
       PROVE  /\ made(k) \in Nat /\ made(k) <= u.queue[k].remaining
              /\ q[k] \in Place /\ q[k].remaining = u.queue[k].remaining - made(k)
              /\ q[k].level = u.queue[k].level /\ q[k].priority = u.queue[k].priority
              /\ q[k].ahead <= u.queue[k].ahead /\ q[k].remaining <= u.queue[k].remaining
  <2> DEFINE e == u.queue[k]
             x == Made(u.queue, k, n)
  <2>1. e \in Place /\ e.ahead \in Nat /\ e.remaining \in Nat
    BY <1>10, QueueIs
  <2>2. x = Least(e.remaining, Monus(n, e.ahead))
    BY DEF Made
  <2>3. x \in Nat /\ x <= e.remaining /\ e.remaining - x \in Nat /\ e.remaining - x <= e.remaining
    BY <1>2, <2>1, <2>2 DEF Least, Monus
  <2>4. Monus(e.ahead, n) \in Nat /\ Monus(e.ahead, n) <= e.ahead
    BY <1>2, <2>1 DEF Monus
  <2>5. q[k] = IF k \in makers THEN Served(e, n, x) ELSE e
    OBVIOUS
  <2>6. made(k) = IF k \in makers THEN x ELSE 0
    OBVIOUS
  <2> DEFINE w == Served(e, n, x)
  <2> HIDE DEF e, x, q, made
  <2>7. /\ w \in Place /\ w.remaining = e.remaining - x /\ w.ahead = Monus(e.ahead, n)
        /\ w.level = e.level /\ w.priority = e.priority
    BY <2>1, <2>3, <2>4 DEF Served, Place
  <2> HIDE DEF w
  <2>8. CASE k \in makers
    BY <2>1, <2>3, <2>4, <2>5, <2>6, <2>7, <2>8 DEF e, w
  <2>9. CASE k \notin makers
    BY <2>1, <2>5, <2>6, <2>9 DEF e
  <2> QED BY <2>8, <2>9
<1>12. DOMAIN q = DOMAIN u.queue /\ q = [k \in DOMAIN q |-> q[k]]
  OBVIOUS
<1>13. out = [u EXCEPT !.queue = q]
  BY DEF ConsumeQueues
<1>14. ASSUME NEW k \in DOMAIN orders, k \notin DOMAIN u.queue PROVE made(k) = 0
  BY <1>9, <1>14
<1>15. \A k \in DOMAIN orders : fill[k] = Volume(r.takes[k]) + made(k)
  <2> HIDE DEF made
  <2> QED OBVIOUS
<1> HIDE DEF q, made, fill, out
<1>16. q \in Queues /\ Onward(u.queue, q)
  <2>1. q \in Queues
    BY <1>10, <1>11, <1>12, QueueIs, IsQueue
  <2> QED BY <1>11, <1>12, <2>1 DEF Onward
<1>17. out \in Matching /\ out.queue = q /\ out.overlay = u.overlay
  BY <1>8, <1>13, <1>16, MatchingIs
<1>18. ASSUME NEW k \in DOMAIN orders
       PROVE  fill[k] \in Nat /\ fill[k] <= Remaining(k)
  <2>1. /\ Volume(r.takes[k]) \in Nat /\ Volume(r.takes[k]) <= Remaining(k)
        /\ Remaining(k) \in Nat /\ fill[k] = Volume(r.takes[k]) + made(k)
    BY <1>1, <1>7, <1>15 DEF Unfilled
  <2>2. CASE k \in DOMAIN u.queue
    <3>1. u.queue[k].remaining = Remaining(k) - Volume(r.takes[k])
      BY <2>2, <1>7, <1>8
    <3>2. made(k) \in Nat /\ made(k) <= u.queue[k].remaining
      BY <2>2, <1>11
    <3> QED BY <2>1, <3>1, <3>2
  <2>3. CASE k \notin DOMAIN u.queue
    BY <2>1, <2>3, <1>14
  <2> QED BY <2>2, <2>3
<1>19. ASSUME NEW k \in DOMAIN out.queue
       PROVE  out.queue[k].remaining = Remaining(k) - fill[k] /\ k \in DOMAIN orders
  <2>1. k \in DOMAIN u.queue /\ k \in DOMAIN orders
    BY <1>7, <1>8, <1>12, <1>17
  <2>2. /\ Volume(r.takes[k]) \in Nat /\ Remaining(k) \in Nat
        /\ fill[k] = Volume(r.takes[k]) + made(k)
    BY <2>1, <1>1, <1>7, <1>15 DEF Unfilled
  <2>3. u.queue[k].remaining = Remaining(k) - Volume(r.takes[k])
    BY <2>1, <1>7, <1>8
  <2>4. made(k) \in Nat /\ out.queue[k].remaining = u.queue[k].remaining - made(k)
    BY <2>1, <1>11, <1>17
  <2> QED BY <2>1, <2>2, <2>3, <2>4
<1>20. CommitReady(out, fill, r.takes, displayed)
  <2>1. \A s \in Sides, p \in Prices : out.overlay[s][p] + TakenAt(r.takes, s, p) = overlay[s][p]
    BY <1>5, <1>7, <1>8, <1>17
  <2>2. \A s \in Sides, p \in Prices : overlay[s][p] \in Nat /\ overlay[s][p] <= displayed[s][p]
    BY <1>1 DEF Typed, Books, IInv, VisibleVolumeOnce
  <2>3. \A s \in Sides, p \in Prices : out.overlay[s][p] + TakenAt(r.takes, s, p) <= displayed[s][p]
    BY <2>1, <2>2
  <2>4. displayed \in [Sides -> [Prices -> Int]]
    BY <1>1 DEF Typed
  <2> QED BY <1>7, <1>17, <1>18, <1>19, <2>3, <2>4 DEF CommitReady
<1>21. IInv'
  BY <1>4, <1>20, CommitKeeps
<1>22. queue' = out.queue
  BY <1>4 DEF Commit
<1>23. Onward(queue, q)
  <2>1. queue \in Queues /\ m.queue \in Queues /\ r.m.queue \in Queues
    BY <1>1, <1>5, <1>7, MatchingIs
  <2>2. Onward(queue, r.m.queue)
    BY <1>1, <1>5, <1>7, <2>1, OnwardOnward
  <2> QED BY <1>1, <1>8, <1>16, <2>1, <2>2, OnwardOnward
<1> QED BY <1>17, <1>19, <1>21, <1>22, <1>23 DEF MovesOn

(* Steps of the broker leave the matching state alone.                     *)
LEMMA SubmitKeeps ==
  ASSUME IInv, NEW k \in Keys, NEW i \in Intents, Submit(k, i)
  PROVE  IInv' /\ UNCHANGED queue
<1> DEFINE new == [intent |-> i, created |-> now, filled |-> 0]
<1>1. /\ k \notin used /\ used' = used \cup {k}
      /\ orders' = Put(orders, {k}, new)
      /\ UNCHANGED <<now, known, book, overlay, queue, stopAt, displayed>>
  BY DEF Submit, modelVars
<1>2. Typed
  BY DEF IInv
<1>3. /\ DOMAIN orders' = DOMAIN orders \cup {k} /\ k \notin DOMAIN orders
      /\ orders'[k] = new /\ \A j \in DOMAIN orders : orders'[j] = orders[j]
      /\ orders' = [j \in DOMAIN orders' |-> orders'[j]]
  <2>1. k \notin DOMAIN orders
    BY <1>1, <1>2, OrderIs
  <2> HIDE DEF new
  <2> QED BY <1>1, <2>1 DEF Put
<1>4. new \in Entry
  BY <1>2 DEF Entry, Typed
<1> HIDE DEF new
<1>5. orders' \in Orders'
  <2>1. \A j \in DOMAIN orders' : orders'[j] \in Entry
    BY <1>2, <1>3, <1>4, OrderIs
  <2>2. orders' \in [DOMAIN orders' -> Entry]
    BY <2>1, <1>3
  <2>3. DOMAIN orders' \in SUBSET used'
    BY <1>1, <1>2, <1>3, OrderIs
  <2> QED BY <2>2, <2>3 DEF Orders
<1>6. Typed'
  <2>1. used' \subseteq Keys /\ IsFiniteSet(used')
    BY <1>1, <1>2, FS_AddElement DEF Typed
  <2>2. queue' \in Queues' /\ stopAt' \in Stops'
    BY <1>1, <1>2 DEF Typed, Queues, Stops
  <2> QED BY <1>1, <1>2, <1>5, <2>1, <2>2 DEF Typed, Books
<1>7. QueueMatchesOrder'
  <2> SUFFICES ASSUME NEW j \in DOMAIN orders'
               PROVE  /\ Remaining(j)' > 0
                      /\ j \in DOMAIN queue' => queue'[j].remaining = Remaining(j)'
    BY DEF QueueMatchesOrder
  <2>0. Remaining(j)' = orders'[j].intent.quantity - orders'[j].filled
    BY DEF Remaining
  <2>1. CASE j = k
    <3>1. k \notin DOMAIN queue' /\ orders'[j].filled = 0 /\ orders'[j].intent = i
      BY <1>1, <1>2, <1>3, <2>1, QueueIs DEF Typed, new
    <3>2. i.quantity \in Nat \ {0}
      BY L2Assumption
    <3> QED BY <2>0, <2>1, <3>1, <3>2
  <2>2. CASE j # k
    <3>1. j \in DOMAIN orders /\ orders'[j] = orders[j]
      BY <1>3, <2>2
    <3>2. Remaining(j) = orders[j].intent.quantity - orders[j].filled
      BY DEF Remaining
    <3>3. Remaining(j) > 0 /\ (j \in DOMAIN queue => queue[j].remaining = Remaining(j))
      BY <3>1 DEF IInv, QueueMatchesOrder
    <3> QED BY <1>1, <2>0, <3>1, <3>2, <3>3
  <2> QED BY <2>1, <2>2
<1>8. VisibleVolumeOnce'
  BY <1>1 DEF IInv, VisibleVolumeOnce
<1> QED BY <1>1, <1>6, <1>7, <1>8 DEF IInv

(* An order that leaves keeps the invariant and moves no queue.            *)
LEMMA CloseKeeps ==
  ASSUME IInv, NEW k \in Keys, Close(k)
  PROVE  IInv' /\ UNCHANGED queue
<1> DEFINE D == DOMAIN orders \ {k}
<1>1. /\ orders' = [j \in D |-> orders[j]]
      /\ UNCHANGED <<used, now, known, book, overlay, queue, stopAt, displayed>>
  BY DEF Close, modelVars
<1>2. Typed
  BY DEF IInv
<1>3. DOMAIN orders' = D /\ \A j \in D : orders'[j] = orders[j] /\ j \in DOMAIN orders
  BY <1>1
<1> HIDE DEF D
<1>4. orders' \in Orders'
  <2>1. \A j \in D : orders[j] \in Entry
    BY <1>2, <1>3, OrderIs
  <2>2. orders' \in [D -> Entry]
    BY <1>1, <2>1
  <2>3. D \in SUBSET used'
    BY <1>1, <1>2, <1>3, OrderIs
  <2> QED BY <2>2, <2>3 DEF Orders
<1>5. Typed'
  <2>1. queue' \in Queues' /\ stopAt' \in Stops'
    BY <1>1, <1>2 DEF Typed, Queues, Stops
  <2> QED BY <1>1, <1>2, <1>4, <2>1 DEF Typed, Books
<1>6. QueueMatchesOrder'
  <2> SUFFICES ASSUME NEW j \in D
               PROVE  /\ Remaining(j)' > 0
                      /\ j \in DOMAIN queue' => queue'[j].remaining = Remaining(j)'
    BY <1>3 DEF QueueMatchesOrder
  <2>1. Remaining(j)' = orders'[j].intent.quantity - orders'[j].filled
    BY DEF Remaining
  <2>2. Remaining(j) = orders[j].intent.quantity - orders[j].filled
    BY DEF Remaining
  <2>3. Remaining(j) > 0 /\ (j \in DOMAIN queue => queue[j].remaining = Remaining(j))
    BY <1>3 DEF IInv, QueueMatchesOrder
  <2> QED BY <1>1, <1>3, <2>1, <2>2, <2>3
<1>7. VisibleVolumeOnce'
  BY <1>1 DEF IInv, VisibleVolumeOnce
<1> QED BY <1>1, <1>5, <1>6, <1>7 DEF IInv

(* The model starts empty.                                                 *)
LEMMA InitIs ==
  ASSUME Init
  PROVE  IInv
<1>1. IsFiniteSet(used) /\ used = {} /\ orders = Nobody /\ queue = Nobody /\ stopAt = Nobody
  BY FS_EmptySet DEF Init
<1>2. DOMAIN Nobody = {} /\ Nobody \in [{} -> Place] /\ Nobody \in [{} -> Nat] /\ Nobody \in [{} -> Entry]
  BY DEF Nobody
<1>3. {} \in SUBSET used
  OBVIOUS
<1>4. orders \in Orders /\ queue \in Queues /\ stopAt \in Stops
  BY <1>1, <1>2, <1>3 DEF Orders, Queues, Stops
<1>5. \A s \in Sides, p \in Prices : Empty[s][p] = 0
  BY DEF Empty
<1>6. Empty \in Books /\ Empty \in [Sides -> [Prices -> Int]]
  BY DEF Empty, Books
<1>7. Typed
  BY <1>1, <1>4, <1>6 DEF Typed, Init
<1>8. QueueMatchesOrder
  BY <1>1, <1>2 DEF QueueMatchesOrder
<1>9. VisibleVolumeOnce
  BY <1>5 DEF VisibleVolumeOnce, Init
<1> QED BY <1>7, <1>8, <1>9 DEF IInv

(* Every step keeps the invariant, and every step but a snapshot moves the *)
(* open orders in the queues on, or leaves the queues alone.               *)
LEMMA StepKeeps ==
  ASSUME IInv, [Next]_vars
  PROVE  IInv' /\ (last'.kind = "snapshot" \/ MovesOn \/ UNCHANGED queue)
<1>1. CASE UNCHANGED vars
  <2>1. UNCHANGED <<used, orders, now, known, book, overlay, queue, stopAt, displayed>>
    BY <1>1 DEF vars, modelVars
  <2>2. Typed'
    BY <2>1 DEF IInv, Typed, Queues, Stops, Orders, Books
  <2>3. QueueMatchesOrder' /\ VisibleVolumeOnce'
    BY <2>1 DEF IInv, QueueMatchesOrder, VisibleVolumeOnce, Remaining
  <2> QED BY <2>1, <2>2, <2>3 DEF IInv
<1>2. ASSUME NEW k \in Keys, NEW i \in Intents, Submit(k, i)
      PROVE  IInv' /\ UNCHANGED queue
  BY <1>2, SubmitKeeps
<1>3. ASSUME NEW k \in Keys, Close(k)
      PROVE  IInv' /\ UNCHANGED queue
  BY <1>3, CloseKeeps
<1>4. ASSUME NEW t \in Instants, NEW b \in Snapshots, Snapshot(t, b)
      PROVE  IInv' /\ last'.kind = "snapshot"
  BY <1>4, SnapshotKeeps
<1>5. ASSUME NEW t \in Instants, NEW side \in Sides, NEW p \in Prices, NEW n \in Sizes \cup {0},
             Delta(t, side, p, n)
      PROVE  IInv' /\ MovesOn
  BY <1>5, DeltaKeeps
<1>6. ASSUME NEW t \in Instants, NEW p \in Prices, NEW n \in Sizes, NEW side \in Aggressors,
             Trade(t, p, n, side)
      PROVE  IInv' /\ MovesOn
  BY <1>6, TradeKeeps
<1>7. ASSUME NEW t \in Instants, OtherEvent(t)
      PROVE  IInv' /\ MovesOn
  BY <1>7, OtherKeeps
<1>8. Over => UNCHANGED vars
  BY DEF Over
<1> QED BY <1>1, <1>2, <1>3, <1>4, <1>5, <1>6, <1>7, <1>8 DEF Next

-----------------------------------------------------------------------------
(* The theorems.                                                           *)

(* Quantities, places and times are what they are meant to be, whatever    *)
(* the market and the strategy do.                                         *)
THEOREM Invariance == Spec => []IInv
<1>1. Init => IInv
  BY InitIs
<1>2. IInv /\ [Next]_vars => IInv'
  BY StepKeeps
<1> QED BY <1>1, <1>2, PTL DEF Spec

(* What the overlay offers to takers was displayed by the vendor since the *)
(* last snapshot and taken by nobody (_stage_delta, _consume_visible_book). *)
THEOREM VisibleVolumeIsOfferedOnce == Spec => []VisibleVolumeOnce
<1>1. IInv => VisibleVolumeOnce
  BY DEF IInv
<1> QED BY <1>1, Invariance, PTL

(* An order never fills beyond its quantity, and its place in a queue holds *)
(* exactly what it still needs (_reduce_queue_remaining, _consume_queues). *)
THEOREM QueueAlwaysMatchesOrder == Spec => []QueueMatchesOrder
<1>1. IInv => QueueMatchesOrder
  BY DEF IInv
<1> QED BY <1>1, Invariance, PTL

(* Between snapshots an order in a queue only moves forward                *)
(* (_advance_queues, _reconcile_queues, _consume_queues).                  *)
THEOREM QueuesAlwaysAdvance == Spec => QueuesOnlyAdvance
<1> DEFINE Step == last'.kind # "snapshot" =>
                     \A k \in DOMAIN queue \cap DOMAIN queue' :
                       /\ queue'[k].level = queue[k].level /\ queue'[k].priority = queue[k].priority
                       /\ queue'[k].ahead <= queue[k].ahead
                       /\ queue'[k].remaining <= queue[k].remaining
<1>1. ASSUME IInv, [Next]_vars PROVE Step
  <2> SUFFICES ASSUME last'.kind # "snapshot", NEW k \in DOMAIN queue \cap DOMAIN queue'
               PROVE  /\ queue'[k].level = queue[k].level /\ queue'[k].priority = queue[k].priority
                      /\ queue'[k].ahead <= queue[k].ahead
                      /\ queue'[k].remaining <= queue[k].remaining
    OBVIOUS
  <2>1. CASE MovesOn
    BY <2>1 DEF MovesOn, Onward
  <2>2. CASE UNCHANGED queue
    <3>1. queue \in Queues
      BY <1>1 DEF IInv, Typed
    <3>2. queue[k].ahead \in Nat /\ queue[k].remaining \in Nat
      BY <3>1, QueueIs
    <3> QED BY <2>2, <3>2
  <2> QED BY <1>1, <2>1, <2>2, StepKeeps
<1>2. IInv /\ [Next]_vars => [Step]_vars
  BY <1>1
<1> QED BY <1>2, Invariance, PTL DEF Spec, QueuesOnlyAdvance
=============================================================================
