-------------------------- MODULE L2Joining_proofs --------------------------
(***************************************************************************)
(* Proof that an order joins the queue of its price behind all who came    *)
(* before it, whatever the event that lets it join also releases, consumes *)
(* or triggers.                                                            *)
(*                                                                         *)
(* Orders join in two loops, the reconciliation and the meeting of takers. *)
(* In each they come in turn, and with one limit the first in turn entered *)
(* first (TurnEntered), so that each finds before it those that will be    *)
(* there (Arrived, Followed).  One that could not rest in the first loop   *)
(* and joins in the second at the limit of one that rests is a stop        *)
(* triggered by this event (Assembled): the one that rests may have missed *)
(* it, when it entered at the very time of the event and not before        *)
(* (MissedIsTied).  What a taker consumes leaves the overlay and the       *)
(* places behind it alike (TakenWaits).                                    *)
(***************************************************************************)
EXTENDS L2Queue_proofs

-----------------------------------------------------------------------------
(* Joining behind.                                                         *)

(* The order k waits for what a level of o shows and for what the orders   *)
(* before it need, those of G left out.                                    *)
Waits(q, o, k, G) ==
  q[k].ahead = o[q[k].level[1]][q[k].level[2]] + SumFunctionOnSet(Held(q), Before(q, k) \ G)

(* Whom the order k may have missed that joined before it: those of W, if  *)
(* it was in the queue when they came, among those of U.                   *)
Missed(U, W, k) == IF k \in U THEN W ELSE {}

(* When Enqueue lets an order rest.                                        *)
Rests(m, k, left) ==
  LET i == orders[k].intent
  IN  /\ HasLimit(i) /\ ~Immediate(i) /\ left > 0
      /\ i.type = "STOP_LIMIT" => k \in DOMAIN m.stopAt
      /\ \A p \in Prices : m.overlay[Other(i.side)][p] > 0 => ~Marketable(k, p, m.stopAt)

(* The place of an order that came with the present event.                 *)
AtItsPlace(m, k, G) ==
  /\ m.queue[k].level = Level(k) /\ m.queue[k].priority = Entered(k, m.stopAt)
  /\ Waits(m.queue, m.overlay, k, G)

(* An order joins if and only if it rests.                                 *)
LEMMA EnqueueRests ==
  ASSUME NEW m \in Matching, NEW k \in DOMAIN orders, NEW left, k \notin DOMAIN m.queue
  PROVE  k \in DOMAIN Enqueue(m, k, left).queue <=> Rests(m, k, left)
<1> DEFINE place == PlaceOf(m, k, left)
<1>1. Enqueue(m, k, left) = IF Rests(m, k, left) THEN [m EXCEPT !.queue = Put(m.queue, {k}, place)] ELSE m
  BY DEF Enqueue, Rest, Rests, PlaceOf, OwnBefore, Held
<1> HIDE DEF place
<1>2. [m EXCEPT !.queue = Put(m.queue, {k}, place)].queue = Put(m.queue, {k}, place)
  BY DEF Matching
<1>3. k \in DOMAIN Put(m.queue, {k}, place)
  BY DEF Put
<1> QED BY <1>1, <1>2, <1>3

(* The orders before one are finitely many, and need amounts.              *)
LEMMA BeforeIs ==
  ASSUME Typed, NEW q \in Queues, NEW k, NEW G
  PROVE  /\ Before(q, k) \subseteq DOMAIN q
         /\ IsFiniteSet(Before(q, k)) /\ IsFiniteSet(Before(q, k) \ G)
         /\ \A j \in DOMAIN q : Held(q)[j] \in Nat /\ Held(q)[j] = q[j].remaining
         /\ Summable(Held(q), Before(q, k) \ G)
         /\ SumFunctionOnSet(Held(q), Before(q, k) \ G) \in Nat
<1>1. Before(q, k) \subseteq DOMAIN q
  BY DEF Before, Earlier
<1>2. IsFiniteSet(Before(q, k)) /\ IsFiniteSet(Before(q, k) \ G)
  <2>1. Before(q, k) \subseteq used /\ Before(q, k) \ G \subseteq used
    BY <1>1, QueueIs
  <2>2. IsFiniteSet(used)
    BY DEF Typed
  <2> QED BY <2>1, <2>2, FS_Subset
<1>3. \A j \in DOMAIN q : Held(q)[j] \in Nat /\ Held(q)[j] = q[j].remaining
  BY QueueIs DEF Held
<1>4. \A j \in Before(q, k) \ G : Held(q)[j] \in Nat
  BY <1>1, <1>3
<1> QED BY <1>1, <1>2, <1>3, <1>4, SumNat DEF Summable

(* What is zero may be left out of a sum.                                  *)
LEMMA SumWithout ==
  ASSUME NEW f, NEW S, Summable(f, S), NEW G, \A x \in S \cap G : f[x] = 0
  PROVE  SumFunctionOnSet(f, S) = SumFunctionOnSet(f, S \ G)
<1> DEFINE F(T) == SumFunctionOnSet(f, T)
           B == {T \in SUBSET S : F(T) = F(T \ G)}
<1>1. ASSUME NEW T \in SUBSET S, \A R \in SUBSET T : R # T => R \in B
      PROVE  T \in B
  <2>1. CASE T \ G = T
    BY <2>1
  <2>2. CASE T \ G # T
    <3>1. PICK x \in T : x \in G
      BY <2>2
    <3> DEFINE R == T \ {x}
    <3>2. f[x] = 0 /\ R \in SUBSET T /\ R # T /\ R \ G = T \ G
      BY <1>1, <3>1
    <3>3. F(R) = F(R \ G)
      BY <1>1, <3>2
    <3>4. Summable(f, T) /\ F(R) \in Int
      BY <1>1, <3>2, SummablePart, SumType
    <3>5. F(T) = f[x] + F(R)
      BY <3>4, SumSplit
    <3> HIDE DEF F, R
    <3>6. F(T) = F(T \ G)
      BY <3>2, <3>3, <3>4, <3>5
    <3> QED BY <3>6
  <2> QED BY <2>1, <2>2
<1>2. SUBSET S \subseteq B
  <2> HIDE DEF B
  <2>1. IsFiniteSet(S)
    BY DEF Summable
  <2> QED BY <1>1, <2>1, FiniteSetInduction
<1> QED BY <1>2

(* No order precedes itself, and of two at most one precedes the other.    *)
LEMMA EnteredOrders ==
  ASSUME Typed, NEW stops \in Stops, NEW j \in DOMAIN orders, NEW k \in DOMAIN orders
  PROVE  /\ ~Precedes(Entered(k, stops), Entered(k, stops))
         /\ Precedes(Entered(j, stops), Entered(k, stops)) => ~Precedes(Entered(k, stops), Entered(j, stops))
<1> DEFINE a == Entered(j, stops)
           b == Entered(k, stops)
<1>1. a \in [1..3 -> Int] /\ b \in [1..3 -> Int]
  BY EnteredIs
<1> HIDE DEF a, b
<1>2. ~Precedes(b, b) /\ ~Precedes(a, a)
  BY <1>1, PrecedesOrders
<1>3. Precedes(a, b) /\ Precedes(b, a) => Precedes(a, a)
  BY <1>1, PrecedesOrders
<1> QED BY <1>2, <1>3 DEF a, b

(* Of two orders with one limit the first in turn entered first.           *)
LEMMA TurnEntered ==
  ASSUME Typed, NEW stops \in Stops, NEW j \in DOMAIN orders, NEW k \in DOMAIN orders,
         Level(j) = Level(k), HasLimit(orders[j].intent), HasLimit(orders[k].intent),
         Precedes(Turn(j, stops), Turn(k, stops))
  PROVE  Precedes(Entered(j, stops), Entered(k, stops))
<1> DEFINE head(x) == LET i == orders[x].intent
                      IN  << IF i.side = "BUY" THEN 0 ELSE 1, 1,
                             IF i.side = "BUY" THEN -i.limit ELSE i.limit >>
           d == head(k)
           a == Entered(j, stops)
           b == Entered(k, stops)
<1>1. orders[j].intent.side = orders[k].intent.side /\ orders[j].intent.limit = orders[k].intent.limit
  BY DEF Level
<1>2. head(j) = head(k)
  BY <1>1
<1>3. Turn(j, stops) = d \o a /\ Turn(k, stops) = d \o b
  <2>1. Turn(j, stops) = head(j) \o a /\ Turn(k, stops) = head(k) \o b
    BY DEF Turn
  <2> QED BY <1>2, <2>1
<1>4. a \in [1..3 -> Int] /\ b \in [1..3 -> Int]
  BY EnteredIs
<1>5. d \in [1..3 -> Int]
  <2>1. orders[k].intent.limit \in Int
    BY OrderIs, L2Assumption
  <2> DEFINE x == IF orders[k].intent.side = "BUY" THEN 0 ELSE 1
             z == IF orders[k].intent.side = "BUY" THEN -orders[k].intent.limit ELSE orders[k].intent.limit
  <2>2. x \in Int /\ z \in Int /\ d = <<x, 1, z>>
    BY <2>1
  <2> HIDE DEF d, x, z
  <2> QED BY <2>2, TriplesAre
<1> HIDE DEF head, d, a, b
<1>6. d \in Seq(Int) /\ Len(d) = 3 /\ a \in Seq(Int) /\ Len(a) = 3 /\ b \in Seq(Int) /\ Len(b) = 3
  BY <1>4, <1>5, TupleIs
<1>7. ASSUME NEW e \in Seq(Int), Len(e) = 3
      PROVE  /\ Len(d \o e) = 6
             /\ \A n \in 1..6 : (d \o e)[n] = IF n <= 3 THEN d[n] ELSE e[n - 3]
  <2>1. /\ Len(d \o e) = Len(d) + Len(e)
        /\ \A n \in 1..(Len(d) + Len(e)) :
             (d \o e)[n] = IF n <= Len(d) THEN d[n] ELSE e[n - Len(d)]
    BY <1>6, <1>7, ConcatProperties
  <2>2. Len(d) = 3 /\ Len(d) + Len(e) = 6
    BY <1>6, <1>7
  <2> QED BY <2>1, <2>2
<1>8. PICK n \in 1..6 : (d \o a)[n] < (d \o b)[n] /\ \A i \in 1..(n - 1) : (d \o a)[i] = (d \o b)[i]
  <2>1. Precedes(d \o a, d \o b) /\ Len(d \o a) = 6
    BY <1>3, <1>6, <1>7
  <2> QED BY <2>1 DEF Precedes
<1>9. /\ \A i \in 1..6 : (d \o a)[i] = IF i <= 3 THEN d[i] ELSE a[i - 3]
      /\ \A i \in 1..6 : (d \o b)[i] = IF i <= 3 THEN d[i] ELSE b[i - 3]
  BY <1>6, <1>7
<1>10. ~(n <= 3)
  <2> SUFFICES ASSUME n <= 3 PROVE FALSE
    OBVIOUS
  <2>1. (d \o a)[n] = d[n] /\ (d \o b)[n] = d[n]
    BY <1>9
  <2>2. n \in 1..3
    OBVIOUS
  <2>3. d[n] \in Int /\ d[n] < d[n]
    BY <1>5, <1>8, <2>1, <2>2
  <2> QED BY <2>3
<1>11. n - 3 \in 1..3 /\ a[n - 3] < b[n - 3]
  <2>1. (d \o a)[n] = a[n - 3] /\ (d \o b)[n] = b[n - 3]
    BY <1>9, <1>10
  <2>2. n - 3 \in 1..3
    BY <1>10
  <2> QED BY <1>8, <2>1, <2>2
<1>12. ASSUME NEW i \in 1..((n - 3) - 1) PROVE a[i] = b[i]
  <2>1. i + 3 \in 1..(n - 1) /\ i + 3 \in 1..6 /\ ~(i + 3 <= 3) /\ (i + 3) - 3 = i
    BY <1>10
  <2>2. (d \o a)[i + 3] = (d \o b)[i + 3]
    BY <1>8, <2>1
  <2>3. (d \o a)[i + 3] = a[(i + 3) - 3] /\ (d \o b)[i + 3] = b[(i + 3) - 3]
    BY <1>9, <2>1
  <2> QED BY <2>1, <2>2, <2>3
<1>13. Precedes(a, b)
  BY <1>6, <1>11, <1>12 DEF Precedes
<1> QED BY <1>13 DEF a, b

(* An order waits as before when the book at its level, the needs of the   *)
(* orders before it, and its own place stay.                               *)
LEMMA WaitsOn ==
  ASSUME Typed, NEW q \in Queues, NEW r \in Queues, NEW o, NEW k, NEW G,
         k \in DOMAIN q, k \in DOMAIN r, r[k] = q[k], Before(r, k) \ G = Before(q, k) \ G,
         \A j \in Before(q, k) : j \in DOMAIN r /\ r[j].remaining = q[j].remaining,
         Waits(q, o, k, G)
  PROVE  Waits(r, o, k, G)
<1>1. \A j \in Before(q, k) \ G : Held(q)[j] = Held(r)[j]
  <2>1. \A j \in Before(q, k) : j \in DOMAIN q
    BY DEF Before, Earlier
  <2> QED BY <2>1 DEF Held
<1>2. SumFunctionOnSet(Held(q), Before(q, k) \ G) = SumFunctionOnSet(Held(r), Before(q, k) \ G)
  <2>1. Summable(Held(q), Before(q, k) \ G)
    BY BeforeIs
  <2> QED BY <1>1, <2>1, SumSame
<1> QED BY <1>2 DEF Waits

(* An order that joins behind those that came with the event takes its     *)
(* place, and they keep theirs; before it joins only who may miss it.      *)
LEMMA JoinedBehind ==
  ASSUME Typed, NEW m \in Matching, NEW k \in DOMAIN orders, NEW left \in Nat,
         NEW r, Joined(m, k, left, r), NEW D, NEW U, NEW W,
         \A j \in DOMAIN m.queue \ D : AtItsPlace(m, j, Missed(U, W, j)),
         k \in DOMAIN r.queue \ DOMAIN m.queue =>
           /\ k \notin U
           /\ \A j \in DOMAIN m.queue \ D :
                Level(j) = Level(k) /\ Precedes(Entered(k, m.stopAt), Entered(j, m.stopAt))
                  => k \in Missed(U, W, j)
  PROVE  \A j \in DOMAIN r.queue \ D : AtItsPlace(r, j, Missed(U, W, j))
<1> DEFINE q == m.queue
           s == r.queue
<1>1. /\ r \in Matching /\ r.overlay = m.overlay /\ r.stopAt = m.stopAt
      /\ \A j \in DOMAIN q : j \in DOMAIN s /\ s[j] = q[j]
      /\ DOMAIN s \subseteq DOMAIN q \cup {k}
      /\ k \in DOMAIN s /\ k \notin DOMAIN q => s[k] = PlaceOf(m, k, left)
  BY DEF Joined
<1>2. q \in Queues /\ s \in Queues /\ m.stopAt \in Stops
  BY <1>1, MatchingIs
<1> HIDE DEF q, s
<1>3. CASE k \notin DOMAIN s \/ k \in DOMAIN q
  <2>1. DOMAIN s = DOMAIN q
    BY <1>1, <1>3
  <2>2. s = q
    <3>1. s = [j \in DOMAIN s |-> s[j]] /\ q = [j \in DOMAIN q |-> q[j]]
      BY <1>2, QueueIs
    <3> QED BY <1>1, <2>1, <3>1
  <2> QED BY <1>1, <2>2 DEF AtItsPlace, q, s
<1>4. CASE k \in DOMAIN s /\ k \notin DOMAIN q
  <2>1. /\ s[k].level = Level(k) /\ s[k].priority = Entered(k, m.stopAt)
        /\ s[k].ahead = m.overlay[orders[k].intent.side][orders[k].intent.limit] + OwnBefore(m, k)
    BY <1>1, <1>4 DEF PlaceOf
  <2>2. DOMAIN s = DOMAIN q \cup {k} /\ \A j \in DOMAIN q : s[j] = q[j] /\ j # k
    BY <1>1, <1>4
  <2>3. ASSUME NEW j \in DOMAIN q \ D
        PROVE  AtItsPlace(r, j, Missed(U, W, j))
    <3> DEFINE G == Missed(U, W, j)
    <3>1. q[j].level = Level(j) /\ q[j].priority = Entered(j, m.stopAt) /\ Waits(q, m.overlay, j, G)
      BY <2>3 DEF AtItsPlace, q
    <3>2. k \notin Before(s, j) \ G
      <4>1. Level(j) = Level(k) /\ Precedes(Entered(k, m.stopAt), Entered(j, m.stopAt)) => k \in G
        BY <1>4, <2>3 DEF q, s
      <4>2. s[j].level = Level(j) /\ s[j].priority = Entered(j, m.stopAt)
        BY <2>2, <2>3, <3>1
      <4> QED BY <2>1, <4>1, <4>2 DEF Before, Earlier
    <3> HIDE DEF G
    <3>3. Before(s, j) \ G = Before(q, j) \ G
      BY <2>2, <2>3, <3>2 DEF Before, Earlier
    <3>4. \A i \in Before(q, j) : i \in DOMAIN s /\ s[i].remaining = q[i].remaining
      BY <2>2 DEF Before, Earlier
    <3>5. s[j] = q[j] /\ j \in DOMAIN s /\ j \in DOMAIN q
      BY <2>2, <2>3
    <3>6. Waits(s, m.overlay, j, G)
      BY <1>2, <3>1, <3>3, <3>4, <3>5, WaitsOn
    <3> QED BY <1>1, <3>1, <3>5, <3>6 DEF AtItsPlace, s, G
  <2>4. AtItsPlace(r, k, Missed(U, W, k))
    <3>0. Missed(U, W, k) = {}
      BY <1>4 DEF Missed, q, s
    <3>1. Before(s, k) = Earlier(q, Level(k), Entered(k, m.stopAt))
      <4>1. ~Precedes(Entered(k, m.stopAt), Entered(k, m.stopAt))
        BY <1>2, EnteredOrders
      <4> QED BY <2>1, <2>2, <4>1 DEF Before, Earlier
    <3> DEFINE E == Earlier(q, Level(k), Entered(k, m.stopAt))
    <3>2. E \subseteq DOMAIN q
      BY DEF Earlier
    <3>3. \A i \in E : Held(s)[i] = Held(q)[i]
      BY <2>2, <3>2 DEF Held
    <3>4. Summable(Held(s), E)
      <4>1. Summable(Held(s), Before(s, k) \ {})
        BY <1>2, BeforeIs
      <4> QED BY <3>1, <4>1
    <3> HIDE DEF E
    <3>5. SumFunctionOnSet(Held(s), E) = SumFunctionOnSet(Held(q), E)
      BY <3>3, <3>4, SumSame
    <3>6. OwnBefore(m, k) = SumFunctionOnSet(Held(s), Before(s, k) \ {})
      <4>1. Before(s, k) \ {} = E
        BY <3>1 DEF E
      <4>2. OwnBefore(m, k) = SumFunctionOnSet(Held(q), E)
        BY DEF OwnBefore, E, q
      <4> QED BY <3>5, <4>1, <4>2
    <3>7. s[k].level[1] = orders[k].intent.side /\ s[k].level[2] = orders[k].intent.limit
      BY <2>1 DEF Level
    <3>8. Waits(s, m.overlay, k, {})
      BY <2>1, <3>6, <3>7 DEF Waits
    <3> QED BY <1>1, <2>1, <3>0, <3>8 DEF AtItsPlace, s
  <2> QED BY <2>2, <2>3, <2>4 DEF s
<1> QED BY <1>3, <1>4

(* A release takes from what is ahead what it takes from the needs, if it  *)
(* takes nothing from those left out.                                      *)
LEMMA ReleaseWaits ==
  ASSUME Typed, NEW q \in Queues, DOMAIN q \subseteq DOMAIN orders, NEW left,
         DOMAIN left = DOMAIN orders, \A j \in DOMAIN left : left[j] \in Nat,
         NEW o \in Books, NEW k \in DOMAIN q, NEW G, Waits(q, o, k, G),
         \A j \in Before(q, k) \cap G : q[j].remaining <= left[j]
  PROVE  Waits(Release(q, left), o, k, G)
<1> DEFINE r == Release(q, left)
           E == Before(q, k) \ G
           still == [j \in DOMAIN q |-> Still(q, left, j)]
           freed == [j \in DOMAIN q |-> q[j].remaining - Still(q, left, j)]
           shown == o[q[k].level[1]][q[k].level[2]]
<1>1. /\ r \in Queues /\ DOMAIN r = DOMAIN q
      /\ \A j \in DOMAIN q : r[j].level = q[j].level /\ r[j].priority = q[j].priority
      /\ \A j \in DOMAIN q : r[j].remaining = Least(q[j].remaining, left[j])
      /\ r[k].ahead = Monus(q[k].ahead, Freed(q, left, k))
  <2>1. /\ r \in Queues /\ DOMAIN r = DOMAIN q \cap DOMAIN orders /\ Onward(q, r)
        /\ \A j \in DOMAIN q \cap DOMAIN orders :
             /\ r[j].remaining = Least(q[j].remaining, left[j])
             /\ r[j].ahead = Monus(q[j].ahead, Freed(q, left, j))
    BY ReleaseIs
  <2> HIDE DEF r
  <2>2. DOMAIN q \cap DOMAIN orders = DOMAIN q /\ DOMAIN orders \cap DOMAIN q = DOMAIN q
    OBVIOUS
  <2> QED BY <2>1, <2>2 DEF Onward
<1> HIDE DEF r
<1>2. Before(r, k) \ G = E
  BY <1>1 DEF Before, Earlier
<1>3. E \subseteq DOMAIN q /\ IsFiniteSet(E) /\ SumFunctionOnSet(Held(q), E) \in Nat
      /\ \A j \in DOMAIN q : Held(q)[j] = q[j].remaining /\ q[j].remaining \in Nat
  BY BeforeIs, QueueIs
<1> HIDE DEF E
<1>4. ASSUME NEW j \in E
      PROVE  /\ still[j] \in Nat /\ freed[j] \in Nat /\ Held(q)[j] = still[j] + freed[j]
             /\ Held(r)[j] = still[j]
  <2>1. j \in DOMAIN q /\ j \in DOMAIN left /\ left[j] \in Nat /\ q[j].remaining \in Nat
    BY <1>3
  <2>2. still[j] = Least(q[j].remaining, left[j]) /\ freed[j] = q[j].remaining - still[j]
    BY <2>1 DEF Still
  <2>3. Held(r)[j] = r[j].remaining
    BY <1>1, <2>1 DEF Held
  <2> HIDE DEF still, freed
  <2>4. Held(q)[j] = q[j].remaining /\ r[j].remaining = Least(q[j].remaining, left[j])
    BY <1>1, <1>3, <2>1
  <2> QED BY <2>1, <2>2, <2>3, <2>4 DEF Least
<1>5. Freed(q, left, k) = SumFunctionOnSet(freed, E)
  <2> DEFINE S == Before(q, k)
  <2>1. Freed(q, left, k) = SumFunctionOnSet(freed, S)
    BY DEF Freed
  <2>2. S \subseteq DOMAIN q /\ IsFiniteSet(S)
    BY BeforeIs
  <2>3. ASSUME NEW j \in S
        PROVE  freed[j] \in Int /\ (j \in G => freed[j] = 0)
    <3>1. /\ j \in DOMAIN q /\ j \in DOMAIN left /\ left[j] \in Nat /\ q[j].remaining \in Nat
          /\ (j \in G => q[j].remaining <= left[j])
      BY <1>3, <2>2
    <3>2. freed[j] = q[j].remaining - Least(q[j].remaining, left[j])
      BY <3>1 DEF Still
    <3> HIDE DEF freed
    <3> QED BY <3>1, <3>2 DEF Least
  <2>4. Summable(freed, S)
    BY <2>2, <2>3 DEF Summable
  <2>5. \A j \in S \cap G : freed[j] = 0
    BY <2>3
  <2> HIDE DEF freed, S
  <2>6. SumFunctionOnSet(freed, S) = SumFunctionOnSet(freed, S \ G)
    BY <2>4, <2>5, SumWithout
  <2> QED BY <2>1, <2>6 DEF E, S
<1> HIDE DEF still, freed
<1>6. Summable(still, E) /\ Summable(freed, E)
  BY <1>3, <1>4 DEF Summable
<1>7. SumFunctionOnSet(Held(q), E) = SumFunctionOnSet(still, E) + SumFunctionOnSet(freed, E)
  <2>1. \A j \in E : Held(q)[j] = still[j] + freed[j]
    BY <1>4
  <2> QED BY <1>6, <2>1, SumPlus
<1>8. SumFunctionOnSet(still, E) = SumFunctionOnSet(Held(r), E)
  <2>1. \A j \in E : still[j] = Held(r)[j]
    BY <1>4
  <2> QED BY <1>6, <2>1, SumSame
<1>9. SumFunctionOnSet(still, E) \in Nat /\ SumFunctionOnSet(freed, E) \in Nat
  <2>1. \A j \in E : still[j] \in Nat /\ freed[j] \in Nat
    BY <1>4
  <2> QED BY <1>3, <2>1, SumNat
<1>10. q[k].ahead = shown + SumFunctionOnSet(Held(q), E) /\ shown \in Nat
  <2>1. q[k] \in Place
    BY QueueIs
  <2>2. shown \in Nat
    BY <2>1 DEF Place, Books
  <2> QED BY <2>2 DEF Waits, E
<1> HIDE DEF shown
<1>11. r[k].ahead = shown + SumFunctionOnSet(Held(r), E)
  <2> DEFINE x == SumFunctionOnSet(still, E)
             y == SumFunctionOnSet(freed, E)
  <2>1. r[k].ahead = Monus(shown + (x + y), y) /\ x \in Nat /\ y \in Nat /\ shown \in Nat
    BY <1>1, <1>5, <1>7, <1>9, <1>10
  <2> HIDE DEF x, y
  <2>2. Monus(shown + (x + y), y) = shown + x
    BY <2>1 DEF Monus
  <2> QED BY <2>1, <2>2, <1>8 DEF x
<1> QED BY <1>1, <1>2, <1>11 DEF Waits, shown, r

(* A take leaves of a level less, and as much less ahead of those there.   *)
LEMMA TakenWaits ==
  ASSUME Typed, Unfilled, NEW m \in Matching, DOMAIN m.queue \subseteq DOMAIN orders,
         NEW k \in DOMAIN orders, NEW j \in DOMAIN m.queue, NEW G, AtItsPlace(m, j, G),
         k \notin DOMAIN m.queue \cap G,
         \A i \in DOMAIN m.queue : m.queue[i].remaining <= Remaining(i)
  PROVE  AtItsPlace(Taken(m, k), j, G)
<1> DEFINE plan == Plan(m, k)
           q == m.queue
           a == Passed(q, k, plan)
           needs == Needs(k, Left(m, k))
           o == m.overlay
           rest == LeftOver(m, k)
           there == Other(orders[k].intent.side)
           r == Taken(m, k)
<1>1. /\ plan \in [Prices -> Nat] /\ Left(m, k) \in Nat
      /\ \A p \in Prices : plan[p] <= o[there][p]
  BY PlanIs DEF Left, Unfilled, Offered
<1>2. q \in Queues /\ o \in Books /\ there \in Sides
  BY MatchingIs, OrderIs, SidesAre
<1>3. r \in Matching /\ r.stopAt = m.stopAt /\ r.overlay = rest /\ r.queue = QueueAfter(m, k)
  BY TakenIs
<1>4. QueueAfter(m, k) = Release(a, needs)
  BY DEF QueueAfter
<1>5. rest \in Books
  BY <1>3, MatchingIs
<1>6. \A s \in Sides, p \in Prices : rest[s][p] = IF s = there THEN o[s][p] - plan[p] ELSE o[s][p]
  BY <1>2 DEF LeftOver, Offered, Books
<1>7. DOMAIN needs = DOMAIN orders /\ \A i \in DOMAIN needs : needs[i] \in Nat
  BY <1>1 DEF Needs, Unfilled
<1> HIDE DEF plan, needs, rest, r, there
<1>8. /\ a \in Queues /\ DOMAIN a = DOMAIN q
      /\ \A i \in DOMAIN q : a[i].level = q[i].level /\ a[i].priority = q[i].priority
      /\ \A i \in DOMAIN q : a[i].remaining = q[i].remaining
  BY <1>1, <1>2, PassedIs DEF Onward
<1>9. a[j].ahead = IF q[j].level[1] # there THEN q[j].ahead ELSE Monus(q[j].ahead, plan[q[j].level[2]])
  <2>1. a[j] = IF q[j].level[1] # there THEN q[j] ELSE [q[j] EXCEPT !.ahead = Monus(q[j].ahead, plan[q[j].level[2]])]
    BY DEF Passed, there
  <2>2. q[j] \in Place
    BY <1>2, QueueIs
  <2> QED BY <2>1, <2>2 DEF Place
<1> HIDE DEF a
<1>10. Waits(a, rest, j, G)
  <2> DEFINE n == SumFunctionOnSet(Held(q), Before(q, j) \ G)
             s == q[j].level[1]
             p == q[j].level[2]
  <2>1. Before(a, j) = Before(q, j) /\ Held(a) = Held(q)
    BY <1>8 DEF Before, Earlier, Held
  <2>2. q[j].ahead = o[s][p] + n
    BY DEF AtItsPlace, Waits
  <2>3. n \in Nat
    BY <1>2, BeforeIs
  <2>4. s \in Sides /\ p \in Prices
    <3>1. q[j] \in Place
      BY <1>2, QueueIs
    <3> QED BY <3>1 DEF Place
  <2>5. o[s][p] \in Nat /\ plan[p] \in Nat /\ (s = there => plan[p] <= o[s][p])
    BY <1>1, <1>2, <2>4 DEF Books
  <2>6. rest[s][p] = IF s = there THEN o[s][p] - plan[p] ELSE o[s][p]
    BY <1>6, <2>4
  <2> HIDE DEF n
  <2>7. a[j].ahead = rest[s][p] + n
    <3>1. CASE s = there
      <4>1. a[j].ahead = Monus(o[s][p] + n, plan[p]) /\ rest[s][p] = o[s][p] - plan[p]
        BY <1>9, <2>2, <2>6, <3>1
      <4> DEFINE v == o[s][p]
      <4>2. v \in Nat /\ plan[p] \in Nat /\ plan[p] <= v
        BY <2>5, <3>1
      <4> HIDE DEF v
      <4>3. Monus(v + n, plan[p]) = (v - plan[p]) + n
        BY <2>3, <4>2 DEF Monus
      <4> QED BY <4>1, <4>3 DEF v
    <3>2. CASE s # there
      BY <1>9, <2>2, <2>6, <3>2
    <3> QED BY <3>1, <3>2
  <2>8. a[j].level[1] = s /\ a[j].level[2] = p
    BY <1>8
  <2>9. SumFunctionOnSet(Held(a), Before(a, j) \ G) = n
    BY <2>1 DEF n
  <2> HIDE DEF s, p
  <2> QED BY <2>7, <2>8, <2>9 DEF Waits
<1>11. Waits(Release(a, needs), rest, j, G)
  <2>1. ASSUME NEW i \in Before(a, j) \cap G PROVE a[i].remaining <= needs[i]
    <3>1. i \in DOMAIN q /\ i \in DOMAIN orders /\ i # k
      BY <1>8 DEF Before, Earlier
    <3>2. needs[i] = Remaining(i)
      BY <3>1 DEF needs, Needs
    <3> QED BY <1>8, <3>1, <3>2
  <2> QED BY <1>5, <1>7, <1>8, <1>10, <2>1, ReleaseWaits
<1>12. Release(a, needs)[j].level = q[j].level /\ Release(a, needs)[j].priority = q[j].priority
  <2>1. Onward(a, Release(a, needs))
    BY <1>7, <1>8, ReleaseIs
  <2> QED BY <2>1, <1>8 DEF Onward
<1> QED BY <1>3, <1>4, <1>11, <1>12 DEF AtItsPlace, r, q

-----------------------------------------------------------------------------
(* Those that join while the queues are reconciled.                        *)

(* What Reconcile made of m once the orders of S were offered to the       *)
(* queue: who joined rests at its place, who did not could not rest.       *)
Arrived(m, S, r) ==
  /\ Reconciled(m, r)
  /\ \A j \in DOMAIN r.queue \ DOMAIN m.queue :
       AtItsPlace(r, j, {}) /\ j \in S /\ Rests(r, j, Remaining(j))
  /\ \A j \in S \ DOMAIN r.queue : ~Rests(r, j, Remaining(j))

(* One more order arrives.                                                 *)
LEMMA ArrivesNext ==
  ASSUME Typed, Unfilled, NEW m \in Matching, NEW S \in SUBSET DOMAIN orders, NEW a,
         Arrived(m, S, a), NEW k \in DOMAIN orders, k \notin S,
         \A j \in S : Precedes(Turn(j, m.stopAt), Turn(k, m.stopAt))
  PROVE  Arrived(m, S \cup {k}, Enqueue(a, k, Remaining(k)))
<1> DEFINE r == Enqueue(a, k, Remaining(k))
           D == DOMAIN m.queue
<1>1. /\ a \in Matching /\ a.overlay = m.overlay /\ a.stopAt = m.stopAt /\ Reconciled(m, a)
      /\ \A j \in DOMAIN a.queue \ D : AtItsPlace(a, j, {}) /\ j \in S /\ Rests(a, j, Remaining(j))
      /\ \A j \in S \ DOMAIN a.queue : ~Rests(a, j, Remaining(j))
  BY DEF Arrived, Reconciled
<1>2. Remaining(k) \in Nat /\ m.stopAt \in Stops
  BY MatchingIs DEF Unfilled
<1>3. Joined(a, k, Remaining(k), r)
  BY <1>1, <1>2, EnqueueIs
<1>4. k \notin DOMAIN a.queue => (k \in DOMAIN r.queue <=> Rests(a, k, Remaining(k)))
  BY <1>1, EnqueueRests
<1> HIDE DEF r, D
<1>5. Reconciled(m, r)
  BY <1>1, <1>3, JoinedIs
<1>6. /\ r.overlay = a.overlay /\ r.stopAt = a.stopAt
      /\ \A j \in DOMAIN a.queue : j \in DOMAIN r.queue
      /\ DOMAIN r.queue \subseteq DOMAIN a.queue \cup {k}
  BY <1>3 DEF Joined
<1>7. \A j : Rests(r, j, Remaining(j)) <=> Rests(a, j, Remaining(j))
  BY <1>6 DEF Rests
<1>8. \A j \in DOMAIN r.queue \ D : AtItsPlace(r, j, {})
  <2>0. \A j : Missed({}, {}, j) = {}
    BY DEF Missed
  <2>1. ASSUME k \in DOMAIN r.queue \ DOMAIN a.queue, NEW j \in DOMAIN a.queue \ D, Level(j) = Level(k)
        PROVE  ~Precedes(Entered(k, a.stopAt), Entered(j, a.stopAt))
    <3>1. j \in S /\ j \in DOMAIN orders /\ HasLimit(orders[j].intent)
      BY <1>1, <2>1 DEF Rests
    <3>2. HasLimit(orders[k].intent)
      BY <1>4, <2>1 DEF Rests
    <3>3. Precedes(Entered(j, m.stopAt), Entered(k, m.stopAt))
      BY <1>2, <2>1, <3>1, <3>2, TurnEntered
    <3> QED BY <1>1, <1>2, <3>1, <3>3, EnteredOrders
  <2>2. \A j \in DOMAIN a.queue \ D : AtItsPlace(a, j, Missed({}, {}, j))
    BY <1>1, <2>0
  <2>3. \A j \in DOMAIN r.queue \ D : AtItsPlace(r, j, Missed({}, {}, j))
    BY <1>1, <1>2, <1>3, <2>1, <2>2, JoinedBehind
  <2> QED BY <2>0, <2>3
<1>9. \A j \in DOMAIN r.queue \ D : j \in S \cup {k} /\ Rests(r, j, Remaining(j))
  <2> SUFFICES ASSUME NEW j \in DOMAIN r.queue \ D
               PROVE  j \in S \cup {k} /\ Rests(a, j, Remaining(j))
    BY <1>7
  <2> QED BY <1>1, <1>4, <1>6
<1>10. \A j \in (S \cup {k}) \ DOMAIN r.queue : ~Rests(r, j, Remaining(j))
  <2> SUFFICES ASSUME NEW j \in (S \cup {k}) \ DOMAIN r.queue
               PROVE  ~Rests(a, j, Remaining(j))
    BY <1>7
  <2> QED BY <1>1, <1>4, <1>6
<1> QED BY <1>5, <1>8, <1>9, <1>10 DEF Arrived, r, D

(* Reconciling lets all that are due arrive, if there is a book.           *)
LEMMA ReconcileArrives ==
  ASSUME Typed, Unfilled, NEW m \in Matching, NEW t, m.known,
         \A k \in DOMAIN orders \cap DOMAIN m.queue : m.queue[k].remaining = Remaining(k)
  PROVE  Arrived(m, Due(t), Reconcile(m, t))
<1> DEFINE g == TheQueued(m, Due(t))
           B == {S \in SUBSET Due(t) : Arrived(m, S, g[S])}
<1>1. Reconciled(m, Released(m)) /\ Released(m) \in Matching
  BY ReleasedIs DEF Reconciled
<1>2. /\ Reconcile(m, t) = IF m.known THEN g[Due(t)] ELSE Released(m)
      /\ g[{}] = Released(m)
      /\ \A S \in SUBSET Due(t) : S # {} =>
           LET k == LastInTurn(S, m.stopAt)
           IN  k \in S /\ g[S] = Enqueue(g[S \ {k}], k, Remaining(k))
  BY <1>1, ReconcileSteps
<1>3. Due(t) \in SUBSET DOMAIN orders /\ IsFiniteSet(Due(t))
  <2>1. Due(t) \in SUBSET DOMAIN orders
    BY DEF Due
  <2> QED BY <2>1, OrderIs, FS_Subset
<1>4. m.stopAt \in Stops
  BY MatchingIs
<1> HIDE DEF g
<1>5. Arrived(m, {}, Released(m))
  <2>1. DOMAIN Released(m).queue \subseteq DOMAIN m.queue
    <3>1. Released(m).queue = Release(m.queue, [k \in DOMAIN orders |-> Remaining(k)])
      BY DEF Released, Matching
    <3> QED BY <3>1 DEF Release
  <2> QED BY <1>1, <2>1 DEF Arrived
<1>6. ASSUME NEW S \in SUBSET Due(t), \A R \in SUBSET S : R # S => R \in B
      PROVE  S \in B
  <2>1. CASE S = {}
    BY <2>1, <1>2, <1>5
  <2>2. CASE S # {}
    <3> DEFINE k == LastInTurn(S, m.stopAt)
               R == S \ {k}
    <3>1. k \in S /\ g[S] = Enqueue(g[R], k, Remaining(k))
      BY <1>2, <2>2
    <3>2. \A j \in R : Precedes(Turn(j, m.stopAt), Turn(k, m.stopAt))
      <4>1. S \in SUBSET DOMAIN orders
        BY <1>3
      <4> QED BY <1>4, <2>2, <4>1, LastIs
    <3> HIDE DEF k
    <3>3. Arrived(m, R, g[R])
      BY <1>6, <3>1
    <3>4. k \in DOMAIN orders /\ R \in SUBSET DOMAIN orders /\ k \notin R /\ S = R \cup {k}
      BY <1>3, <3>1
    <3> HIDE DEF R
    <3>5. Arrived(m, R \cup {k}, Enqueue(g[R], k, Remaining(k)))
      BY <3>2, <3>3, <3>4, ArrivesNext
    <3>6. Arrived(m, S, g[S])
      BY <3>1, <3>4, <3>5
    <3> QED BY <3>6
  <2> QED BY <2>1, <2>2
<1>7. SUBSET Due(t) \subseteq B
  <2> HIDE DEF B
  <2> QED BY <1>3, <1>6, FiniteSetInduction
<1>8. Arrived(m, Due(t), g[Due(t)])
  BY <1>7
<1> QED BY <1>2, <1>8

-----------------------------------------------------------------------------
(* Those that join while takers are met.                                   *)

(* Times that are over: when orders were made and stops triggered.         *)
Timely ==
  /\ \A k \in DOMAIN orders : orders[k].created <= now
  /\ \A k \in DOMAIN stopAt : stopAt[k] <= now

(* When the takers of an event at time t are met, all that came to the     *)
(* queue with it are in their places, and only those of W may still come   *)
(* before them.                                                            *)
Assembled(u, D, t, W) ==
  /\ W \cap DOMAIN u.queue = {}
  /\ \A j \in DOMAIN u.queue \ D :
       AtItsPlace(u, j, W) /\ j \in DOMAIN orders /\ HasLimit(orders[j].intent)
  /\ \A j \in DOMAIN u.queue \ D : \A k \in Due(t) \ DOMAIN u.queue :
       /\ HasLimit(orders[k].intent) /\ ~Immediate(orders[k].intent) /\ Level(j) = Level(k)
       /\ orders[k].intent.type = "STOP_LIMIT" => k \in DOMAIN u.stopAt
       => k \in W

(* Where one order rests, another one with its limit does not meet the     *)
(* book either.                                                            *)
LEMMA SameLevelRests ==
  ASSUME NEW r, NEW j, NEW k, Level(j) = Level(k), HasLimit(orders[k].intent),
         ~Immediate(orders[k].intent), Remaining(k) > 0,
         orders[k].intent.type = "STOP_LIMIT" => k \in DOMAIN r.stopAt,
         Rests(r, j, Remaining(j))
  PROVE  Rests(r, k, Remaining(k))
<1>1. orders[j].intent.side = orders[k].intent.side /\ orders[j].intent.limit = orders[k].intent.limit
  BY DEF Level
<1>2. HasLimit(orders[j].intent) /\ (IsStop(orders[j].intent) => j \in DOMAIN r.stopAt)
  BY DEF Rests, HasLimit, IsStop
<1>3. ASSUME NEW p \in Prices, r.overlay[Other(orders[k].intent.side)][p] > 0, Marketable(k, p, r.stopAt)
      PROVE  FALSE
  <2>1. IF orders[k].intent.side = "BUY" THEN p <= orders[k].intent.limit ELSE p >= orders[k].intent.limit
    BY <1>3 DEF Marketable
  <2>2. Marketable(j, p, r.stopAt)
    BY <1>1, <1>2, <2>1 DEF Marketable
  <2> QED BY <1>1, <1>3, <2>2 DEF Rests
<1> QED BY <1>3 DEF Rests

(* The stops that an event triggers, from the state a on.                  *)
Woken(a, u) == DOMAIN u.stopAt \ DOMAIN a.stopAt

(* Triggering stops leaves the orders that arrived in their places; it     *)
(* triggers none of them, and only those it triggers may still come.       *)
LEMMA TriggerAssembles ==
  ASSUME Typed, Unfilled, NEW a \in Matching, NEW t \in Nat, NEW m, Arrived(a, Due(t), m), NEW seen
  PROVE  LET u == Trigger(m, t, seen)
         IN  /\ Assembled(u, DOMAIN a.queue, t, Woken(a, u) \ DOMAIN u.queue)
             /\ (DOMAIN u.queue \ DOMAIN a.queue) \cap Woken(a, u) = {}
<1> DEFINE u == Trigger(m, t, seen)
           D == DOMAIN a.queue
           W == Woken(a, u) \ DOMAIN u.queue
<1>1. /\ m \in Matching /\ m.stopAt = a.stopAt /\ Tidy(m.queue)
      /\ \A j \in DOMAIN m.queue \ D : AtItsPlace(m, j, {}) /\ j \in Due(t) /\ Rests(m, j, Remaining(j))
      /\ \A j \in Due(t) \ DOMAIN m.queue : ~Rests(m, j, Remaining(j))
  BY DEF Arrived, Reconciled
<1>2. /\ u \in Matching /\ u.overlay = m.overlay /\ u.queue = m.queue
      /\ DOMAIN m.stopAt \subseteq DOMAIN u.stopAt
      /\ \A k \in DOMAIN u.stopAt :
           IF k \in DOMAIN m.stopAt THEN u.stopAt[k] = m.stopAt[k]
           ELSE k \in DOMAIN orders /\ IsStop(orders[k].intent) /\ u.stopAt[k] = t
  BY <1>1, TriggerIs
<1> HIDE DEF u, D
<1>3. ASSUME NEW j \in DOMAIN m.queue \ D
      PROVE  /\ Entered(j, u.stopAt) = Entered(j, m.stopAt)
             /\ j \in DOMAIN orders /\ HasLimit(orders[j].intent) /\ j \notin Woken(a, u)
  <2>1. Rests(m, j, Remaining(j)) /\ j \in DOMAIN orders
    BY <1>1 DEF Tidy
  <2>2. HasLimit(orders[j].intent) /\ (IsStop(orders[j].intent) => j \in DOMAIN m.stopAt)
    BY <2>1 DEF Rests, HasLimit, IsStop
  <2>3. Entered(j, u.stopAt) = Entered(j, m.stopAt)
    BY <1>2, <2>2 DEF Entered
  <2> QED BY <1>1, <1>2, <2>1, <2>2, <2>3 DEF Woken
<1>4. \A j \in DOMAIN u.queue \ D :
        AtItsPlace(u, j, W) /\ j \in DOMAIN orders /\ HasLimit(orders[j].intent)
  <2> SUFFICES ASSUME NEW j \in DOMAIN m.queue \ D PROVE AtItsPlace(u, j, W)
    BY <1>2, <1>3
  <2>1. /\ m.queue[j].level = Level(j) /\ m.queue[j].priority = Entered(j, m.stopAt)
        /\ Waits(m.queue, m.overlay, j, {})
    BY <1>1 DEF AtItsPlace
  <2>2. Before(m.queue, j) \ W = Before(m.queue, j) \ {}
    BY <1>2 DEF Before, Earlier
  <2>3. Waits(m.queue, m.overlay, j, W)
    <3> HIDE DEF W
    <3> QED BY <2>1, <2>2 DEF Waits
  <2> HIDE DEF W
  <2> QED BY <1>2, <1>3, <2>1, <2>3 DEF AtItsPlace
<1>5. ASSUME NEW j \in DOMAIN u.queue \ D, NEW k \in Due(t) \ DOMAIN u.queue,
             HasLimit(orders[k].intent), ~Immediate(orders[k].intent), Level(j) = Level(k),
             orders[k].intent.type = "STOP_LIMIT" => k \in DOMAIN u.stopAt
      PROVE  k \in W
  <2>1. k \in DOMAIN orders /\ Remaining(k) > 0 /\ ~Rests(m, k, Remaining(k))
    BY <1>1, <1>2, <1>5 DEF Due, Unfilled
  <2>2. Rests(m, j, Remaining(j))
    BY <1>1, <1>2
  <2>3. k \in DOMAIN u.stopAt /\ k \notin DOMAIN m.stopAt
    BY <1>5, <2>1, <2>2, SameLevelRests
  <2> QED BY <1>1, <1>5, <2>3 DEF Woken
<1>6. W \cap DOMAIN u.queue = {} /\ (DOMAIN u.queue \ D) \cap Woken(a, u) = {}
  BY <1>2, <1>3
<1> HIDE DEF W
<1> QED BY <1>4, <1>5, <1>6 DEF Assembled, u, D, W

(* What holds of those that came with the event while orders of S were met.*)
Followed(u, D, W, S, acc) ==
  /\ Consumed(u, S, acc)
  /\ DOMAIN acc.m.queue \subseteq DOMAIN u.queue \cup S
  /\ \A j \in DOMAIN acc.m.queue \ D :
       AtItsPlace(acc.m, j, Missed(DOMAIN u.queue, W, j)) /\ HasLimit(orders[j].intent)

(* One more order is met.                                                  *)
LEMMA FollowsNext ==
  ASSUME Typed, Unfilled, NEW u \in Matching, Tidy(u.queue), NEW t, NEW D, NEW W, Assembled(u, D, t, W),
         NEW S \in SUBSET Due(t), NEW acc, Followed(u, D, W, S, acc),
         NEW k \in Due(t), k \notin S,
         \A j \in S : Precedes(Turn(j, u.stopAt), Turn(k, u.stopAt)), NEW skip \in BOOLEAN
  PROVE  Followed(u, D, W, S \cup {k}, Meet(acc, k, skip))
<1> DEFINE U == DOMAIN u.queue
<1>1. S \in SUBSET DOMAIN orders /\ k \in DOMAIN orders
  BY DEF Due
<1>2. /\ acc \in Accs /\ acc.m \in Matching /\ Consumed(u, S, acc)
      /\ acc.m.stopAt = u.stopAt /\ DOMAIN acc.m.queue \subseteq DOMAIN orders
      /\ Onward(u.queue, acc.m.queue)
      /\ DOMAIN acc.m.queue \subseteq U \cup S
      /\ \A j \in DOMAIN acc.m.queue \ D :
           AtItsPlace(acc.m, j, Missed(U, W, j)) /\ HasLimit(orders[j].intent)
  BY DEF Followed, Consumed, Accs
<1>3. Consumed(u, S \cup {k}, Meet(acc, k, skip))
  BY <1>1, <1>2, MeetConsumes
<1>4. DOMAIN u.queue \subseteq DOMAIN acc.m.queue
  BY <1>2 DEF Onward, Tidy
<1>5. u.stopAt \in Stops
  BY MatchingIs
<1> DEFINE out == Meet(acc, k, skip)
           a == Taken(acc.m, k)
           left == Left(acc.m, k)
<1>6. out = acc \/ (out.m = Enqueue(a, k, left) /\ Joined(a, k, left, out.m))
  <2>1. out = acc \/ out = Take(acc, k)
    BY <1>1, <1>2, MeetIs
  <2> QED BY <1>1, <1>2, <2>1, TakeIs
<1>7. CASE out = acc
  BY <1>2, <1>3, <1>7 DEF Followed
<1>8. CASE out.m = Enqueue(a, k, left) /\ Joined(a, k, left, out.m)
  <2>1. /\ a \in Matching /\ a.stopAt = u.stopAt /\ left \in Nat
        /\ DOMAIN a.queue = DOMAIN acc.m.queue
    <3> DEFINE m == acc.m
    <3>1. /\ Taken(m, k) \in Matching /\ Taken(m, k).stopAt = m.stopAt /\ Left(m, k) \in Nat
          /\ DOMAIN Taken(m, k).queue = DOMAIN m.queue \cap DOMAIN orders
      <4> HIDE DEF m
      <4>1. m \in Matching
        BY <1>2 DEF m
      <4> QED BY <1>1, <4>1, TakenIs
    <3>2. DOMAIN m.queue \cap DOMAIN orders = DOMAIN m.queue
      BY <1>2
    <3> QED BY <1>2, <3>1, <3>2
  <2>2. ASSUME NEW j \in DOMAIN a.queue \ D PROVE AtItsPlace(a, j, Missed(U, W, j))
    <3> DEFINE G == Missed(U, W, j)
               m == acc.m
    <3>1. k \notin DOMAIN m.queue \cap G
      <4>1. W \cap U = {}
        BY DEF Assembled
      <4> QED BY <1>2, <4>1 DEF Missed
    <3>2. ASSUME NEW i \in DOMAIN m.queue PROVE m.queue[i].remaining <= Remaining(i)
      <4>1. /\ m.queue[i].remaining = Remaining(i) - Volume(acc.takes[i])
            /\ Volume(acc.takes[i]) \in Nat /\ i \in DOMAIN orders
        BY <1>2 DEF Consumed
      <4>2. Remaining(i) \in Nat
        BY <4>1 DEF Unfilled
      <4> QED BY <4>1, <4>2
    <3>3. AtItsPlace(m, j, G) /\ j \in DOMAIN m.queue /\ m \in Matching /\ DOMAIN m.queue \subseteq DOMAIN orders
      BY <1>2, <2>1
    <3> HIDE DEF G, m
    <3>4. AtItsPlace(Taken(m, k), j, G)
      BY <1>1, <3>1, <3>2, <3>3, TakenWaits
    <3> QED BY <3>4 DEF G, m
  <2> HIDE DEF a, left
  <2> DEFINE r == out.m
  <2>3. Joined(a, k, left, r) /\ (k \notin DOMAIN a.queue => (k \in DOMAIN r.queue <=> Rests(a, k, left)))
    <3>1. k \notin DOMAIN a.queue => (k \in DOMAIN Enqueue(a, k, left).queue <=> Rests(a, k, left))
      BY <1>1, <2>1, EnqueueRests
    <3> QED BY <1>8, <3>1
  <2> HIDE DEF r, out
  <2>4. ASSUME k \in DOMAIN r.queue \ DOMAIN a.queue
        PROVE  /\ HasLimit(orders[k].intent) /\ ~Immediate(orders[k].intent)
               /\ orders[k].intent.type = "STOP_LIMIT" => k \in DOMAIN u.stopAt
               /\ k \in Due(t) \ DOMAIN u.queue
    BY <1>4, <2>1, <2>3, <2>4 DEF Rests
  <2>5. ASSUME k \in DOMAIN r.queue \ DOMAIN a.queue, NEW j \in DOMAIN a.queue \ D, Level(j) = Level(k),
               Precedes(Entered(k, a.stopAt), Entered(j, a.stopAt))
        PROVE  k \in Missed(U, W, j)
    <3>1. CASE j \in U
      <4>1. k \in W
        BY <2>4, <2>5, <3>1 DEF Assembled
      <4> QED BY <3>1, <4>1 DEF Missed
    <3>2. CASE j \in S
      <4>1. j \in DOMAIN orders /\ HasLimit(orders[j].intent) /\ HasLimit(orders[k].intent)
        BY <1>1, <1>2, <2>1, <2>4, <2>5, <3>2
      <4>2. Precedes(Entered(j, u.stopAt), Entered(k, u.stopAt))
        BY <1>1, <1>5, <2>5, <3>2, <4>1, TurnEntered
      <4> QED BY <1>1, <1>5, <2>1, <2>5, <4>1, <4>2, EnteredOrders
    <3> QED BY <1>2, <2>1, <2>5, <3>1, <3>2
  <2>6. \A j \in DOMAIN r.queue \ D : AtItsPlace(r, j, Missed(U, W, j))
    <3>1. k \in DOMAIN r.queue \ DOMAIN a.queue => k \notin U
      BY <2>4
    <3> HIDE DEF U
    <3> QED BY <1>1, <2>1, <2>2, <2>3, <2>5, <3>1, JoinedBehind
  <2>7. DOMAIN r.queue \subseteq DOMAIN a.queue \cup {k}
    BY <2>3 DEF Joined
  <2>8. \A j \in DOMAIN r.queue \ D : HasLimit(orders[j].intent)
    BY <1>2, <2>1, <2>4, <2>7
  <2>9. DOMAIN r.queue \subseteq U \cup (S \cup {k})
    BY <1>2, <2>1, <2>7
  <2> QED BY <1>3, <2>6, <2>8, <2>9 DEF Followed, r, out
<1> QED BY <1>6, <1>7, <1>8

(* All that came with the event are in their places when all takers were   *)
(* met.                                                                    *)
LEMMA ConsumeFollows ==
  ASSUME Typed, Unfilled, NEW u \in Matching, Tidy(u.queue), NEW t, NEW D, NEW W,
         Assembled(u, D, t, W),
         NEW skip \in BOOLEAN
  PROVE  \A j \in DOMAIN ConsumeVisibleBook(u, t, skip).m.queue \ D :
           AtItsPlace(ConsumeVisibleBook(u, t, skip).m, j, Missed(DOMAIN u.queue, W, j))
<1> DEFINE g == TheMet(u, Due(t), skip)
           B == {S \in SUBSET Due(t) : Followed(u, D, W, S, g[S])}
           none == [m |-> u, takes |-> NoTakes]
<1>1. Followed(u, D, W, {}, none)
  <2>1. Consumed(u, {}, none)
    BY NobodyMet
  <2>2. none.m = u
    OBVIOUS
  <2> HIDE DEF none
  <2>3. DOMAIN none.m.queue \subseteq DOMAIN u.queue \cup {}
    BY <2>2
  <2>4. ASSUME NEW j \in DOMAIN none.m.queue \ D
        PROVE  AtItsPlace(none.m, j, Missed(DOMAIN u.queue, W, j)) /\ HasLimit(orders[j].intent)
    <3>1. j \in DOMAIN u.queue \ D
      BY <2>2, <2>4
    <3>2. AtItsPlace(u, j, W) /\ HasLimit(orders[j].intent)
      BY <3>1 DEF Assembled
    <3>3. Missed(DOMAIN u.queue, W, j) = W
      BY <3>1 DEF Missed
    <3> QED BY <2>2, <3>2, <3>3
  <2> QED BY <2>1, <2>3, <2>4 DEF Followed
<1> HIDE DEF none
<1>2. /\ ConsumeVisibleBook(u, t, skip) = g[Due(t)]
      /\ g[{}] = none
      /\ \A S \in SUBSET Due(t) : S # {} =>
           LET k == LastInTurn(S, u.stopAt)
           IN  k \in S /\ g[S] = Meet(g[S \ {k}], k, skip)
  BY MetSteps DEF none
<1>3. Due(t) \in SUBSET DOMAIN orders /\ IsFiniteSet(Due(t))
  <2>1. Due(t) \in SUBSET DOMAIN orders
    BY DEF Due
  <2> QED BY <2>1, OrderIs, FS_Subset
<1>4. u.stopAt \in Stops
  BY MatchingIs
<1> HIDE DEF g
<1>5. ASSUME NEW S \in SUBSET Due(t), \A R \in SUBSET S : R # S => R \in B
      PROVE  S \in B
  <2>1. CASE S = {}
    BY <2>1, <1>1, <1>2
  <2>2. CASE S # {}
    <3> DEFINE k == LastInTurn(S, u.stopAt)
               R == S \ {k}
    <3>1. k \in S /\ g[S] = Meet(g[R], k, skip)
      BY <1>2, <2>2
    <3>2. \A j \in R : Precedes(Turn(j, u.stopAt), Turn(k, u.stopAt))
      <4>1. S \in SUBSET DOMAIN orders
        BY <1>3
      <4> QED BY <1>4, <2>2, <4>1, LastIs
    <3> HIDE DEF k
    <3>3. Followed(u, D, W, R, g[R])
      BY <1>5, <3>1
    <3>4. k \in Due(t) /\ R \in SUBSET Due(t) /\ k \notin R /\ S = R \cup {k}
      BY <3>1
    <3> HIDE DEF R
    <3>5. Followed(u, D, W, R \cup {k}, Meet(g[R], k, skip))
      BY <3>2, <3>3, <3>4, FollowsNext
    <3>6. Followed(u, D, W, S, g[S])
      BY <3>1, <3>4, <3>5
    <3> QED BY <3>6
  <2> QED BY <2>1, <2>2
<1>6. SUBSET Due(t) \subseteq B
  <2> DEFINE T == Due(t)
  <2> HIDE DEF B
  <2>1. IsFiniteSet(T)
    BY <1>3
  <2>2. \A S \in SUBSET T : (\A R \in SUBSET S : R # S => R \in B) => S \in B
    BY <1>5
  <2> HIDE DEF T
  <2>3. SUBSET T \subseteq B
    BY <2>1, <2>2, FiniteSetInduction
  <2> QED BY <2>3 DEF T
<1>7. Followed(u, D, W, Due(t), g[Due(t)])
  BY <1>6
<1> QED BY <1>2, <1>7 DEF Followed

-----------------------------------------------------------------------------
(* The events, once more: times, and who joined.                           *)

(* The stops the event triggers, among those that come to a queue with it, *)
(* that an order may miss which entered at the time of the event.          *)
Tied(D, k) ==
  {j \in DOMAIN queue' \ D : /\ queue'[k].priority[1] = now'
                            /\ j \notin DOMAIN stopAt /\ j \in DOMAIN stopAt'}

(* An order that came to a queue waits for all that is before it, but      *)
(* perhaps for those it ties with.                                         *)
Behind(D) ==
  \A k \in DOMAIN queue' \ D :
    Waits(queue', overlay', k, {}) \/ Waits(queue', overlay', k, Tied(D, k))

(* Whom an order missed it ties with.                                      *)
LEMMA MissedIsTied ==
  ASSUME Typed, Timely, NEW t \in Instants, NEW u \in Matching,
         \A j \in DOMAIN u.stopAt :
           u.stopAt[j] = IF j \in DOMAIN stopAt THEN stopAt[j] ELSE t,
         NEW q \in Queues, DOMAIN q \subseteq DOMAIN orders, NEW D, DOMAIN q \cap D \subseteq DOMAIN u.queue,
         \A j \in DOMAIN q \ D : q[j].priority = Entered(j, u.stopAt),
         (DOMAIN u.queue \ D) \cap (DOMAIN u.stopAt \ DOMAIN stopAt) = {},
         NEW k \in DOMAIN q \ D
  PROVE  Before(q, k) \ ((DOMAIN u.stopAt \ DOMAIN stopAt) \ DOMAIN u.queue) =
         Before(q, k) \ {j \in DOMAIN q \ D : /\ q[k].priority[1] = t
                                              /\ j \notin DOMAIN stopAt /\ j \in DOMAIN u.stopAt}
<1> DEFINE W == (DOMAIN u.stopAt \ DOMAIN stopAt) \ DOMAIN u.queue
           tied == {j \in DOMAIN q \ D : /\ q[k].priority[1] = t
                                        /\ j \notin DOMAIN stopAt /\ j \in DOMAIN u.stopAt}
           p == q[k].priority
<1>0. t \in Nat /\ now \in Nat /\ now <= t
  BY InstantsAre
<1>1. p[1] \in Nat /\ p[1] <= t
  <2>1. p = Entered(k, u.stopAt) /\ k \in DOMAIN orders
    OBVIOUS
  <2>2. p[1] = IF k \in DOMAIN u.stopAt THEN u.stopAt[k] ELSE orders[k].created
    BY <2>1 DEF Entered
  <2>3. orders[k].created \in Nat /\ orders[k].created <= now
    BY <2>1, OrderIs DEF Timely
  <2>4. k \in DOMAIN stopAt => stopAt[k] \in Nat /\ stopAt[k] <= now
    BY StopsIs DEF Timely, Typed
  <2> HIDE DEF p
  <2> QED BY <1>0, <2>2, <2>3, <2>4
<1>2. ASSUME NEW j \in Before(q, k), j \in W PROVE j \in tied
  <2>1. j \in DOMAIN q \ D /\ j \in DOMAIN orders /\ Precedes(q[j].priority, p)
    BY <1>2 DEF Before, Earlier
  <2> DEFINE x == Entered(j, u.stopAt)
  <2>2. x[1] = t /\ Precedes(x, p)
    BY <1>2, <2>1 DEF Entered
  <2>3. x \in [1..3 -> Int]
    BY <2>1, EnteredIs, MatchingIs
  <2> HIDE DEF x, p
  <2>4. Len(x) = 3
    BY <2>3, TupleIs
  <2>5. PICK i \in 1..Len(x) : x[i] < p[i] /\ \A l \in 1..(i - 1) : x[l] = p[l]
    BY <2>2 DEF Precedes
  <2>6. i = 1 \/ 1 \in 1..(i - 1)
    BY <2>4
  <2>7. p[1] = t
    BY <1>0, <1>1, <2>2, <2>5, <2>6
  <2> QED BY <1>2, <2>1, <2>7 DEF p
<1>3. ASSUME NEW j \in tied PROVE j \in W
  OBVIOUS
<1> HIDE DEF W, tied
<1>4. Before(q, k) \ W = Before(q, k) \ tied
  BY <1>2, <1>3
<1> QED BY <1>4 DEF W, tied

(* A match that is taken over keeps times behind the clock.                *)
LEMMA CommitTimely ==
  ASSUME Typed, Timely, NEW t \in Instants, NEW m, NEW fill, NEW takes, NEW shown,
         Commit(t, m, fill, takes, shown), \A k \in DOMAIN m.stopAt : m.stopAt[k] <= t
  PROVE  Timely'
<1>1. now' = t /\ stopAt' = m.stopAt /\ now \in Nat /\ t \in Nat /\ now <= t
  BY InstantsAre DEF Commit
<1>2. /\ DOMAIN orders' \subseteq DOMAIN orders
      /\ \A k \in DOMAIN orders' : orders'[k].created = orders[k].created
  <2> DEFINE done(k) == \/ orders[k].filled + fill[k] = orders[k].intent.quantity
                        \/ Immediate(orders[k].intent) /\ Eligible(k, t)
             open == {j \in DOMAIN orders : ~done(j)}
  <2>1. orders' = [k \in open |-> [orders[k] EXCEPT !.filled = orders[k].filled + fill[k]]]
    BY DEF Commit
  <2>2. open \subseteq DOMAIN orders
    OBVIOUS
  <2> HIDE DEF open
  <2>3. DOMAIN orders' = open
        /\ \A k \in open : orders'[k] = [orders[k] EXCEPT !.filled = orders[k].filled + fill[k]]
    BY <2>1
  <2>4. \A k \in open : orders[k] \in Entry
    BY <2>2, OrderIs
  <2>5. \A k \in open : orders'[k].created = orders[k].created
    BY <2>3, <2>4 DEF Entry
  <2> QED BY <2>2, <2>3, <2>5
<1>3. \A k \in DOMAIN orders : orders[k].created \in Nat /\ orders[k].created <= now
  BY OrderIs DEF Timely
<1>4. \A k \in DOMAIN orders' : orders'[k].created <= now'
  BY <1>1, <1>2, <1>3
<1>5. \A k \in DOMAIN stopAt' : stopAt'[k] <= now'
  BY <1>1
<1> QED BY <1>4, <1>5 DEF Timely

(* A book event: stops are triggered at its time or were before, and those *)
(* that came to the queue with it are behind all before them, but for ties.*)
LEMMA BookEventBehind ==
  ASSUME Typed, Unfilled, Timely, NEW t \in Instants, NEW a \in Matching, a.known, a.stopAt = stopAt,
         \A k \in DOMAIN orders \cap DOMAIN a.queue : a.queue[k].remaining = Remaining(k),
         NEW shown, NEW kind, BookEvent(t, a, shown, kind)
  PROVE  Timely' /\ Behind(DOMAIN a.queue)
<1> DEFINE m == Reconcile(a, t)
           seen == [side \in Sides |-> Best(m, side)]
           u == Trigger(m, t, seen)
           r == ConsumeVisibleBook(u, t, FALSE)
           fill == [k \in DOMAIN orders |-> Volume(r.takes[k])]
           D == DOMAIN a.queue
           W == Woken(a, u) \ DOMAIN u.queue
<1>1. t \in Nat /\ now \in Nat /\ now <= t
  BY InstantsAre
<1>2. Commit(t, r.m, fill, r.takes, shown)
  BY DEF BookEvent
<1>3. Arrived(a, Due(t), m)
  BY ReconcileArrives
<1> HIDE DEF m, seen
<1>4. Assembled(u, D, t, W) /\ (DOMAIN u.queue \ D) \cap Woken(a, u) = {}
  BY <1>1, <1>3, TriggerAssembles
<1>5. m \in Matching /\ m.stopAt = stopAt /\ Tidy(m.queue) /\ Onward(a.queue, m.queue)
  BY <1>3 DEF Arrived, Reconciled
<1>6. /\ u \in Matching /\ u.queue = m.queue
      /\ \A k \in DOMAIN u.stopAt : u.stopAt[k] = IF k \in DOMAIN stopAt THEN stopAt[k] ELSE t
  BY <1>1, <1>5, TriggerIs
<1> HIDE DEF u
<1>7. Tidy(u.queue)
  BY <1>5, <1>6
<1>8. \A k \in DOMAIN r.m.queue \ D : AtItsPlace(r.m, k, Missed(DOMAIN u.queue, W, k))
  <2> HIDE DEF W, D
  <2> QED BY <1>4, <1>6, <1>7, ConsumeFollows
<1>9. Consumed(u, Due(t), r)
  BY <1>6, <1>7, ConsumeIs
<1> HIDE DEF r, fill
<1>10. r.m.stopAt = u.stopAt /\ r.m \in Matching /\ r.m.queue \in Queues /\ DOMAIN r.m.queue \subseteq DOMAIN orders
  BY <1>9, MatchingIs DEF Consumed, Accs
<1>11. \A k \in DOMAIN r.m.stopAt : r.m.stopAt[k] <= t
  <2>1. \A k \in DOMAIN stopAt : stopAt[k] \in Nat /\ stopAt[k] <= now
    BY StopsIs DEF Timely, Typed
  <2> QED BY <1>1, <1>6, <1>10, <2>1
<1>12. Timely'
  BY <1>2, <1>11, CommitTimely
<1>13. queue' = r.m.queue /\ overlay' = r.m.overlay /\ stopAt' = r.m.stopAt /\ now' = t
  BY <1>2 DEF Commit
<1>14. ASSUME NEW k \in DOMAIN queue' \ D
       PROVE  Waits(queue', overlay', k, {}) \/ Waits(queue', overlay', k, Tied(D, k))
  <2> DEFINE q == r.m.queue
             tied == {j \in DOMAIN q \ D : /\ q[k].priority[1] = t
                                          /\ j \notin DOMAIN stopAt /\ j \in DOMAIN u.stopAt}
  <2>1. Waits(q, overlay', k, Missed(DOMAIN u.queue, W, k)) /\ queue' = q /\ k \in DOMAIN q \ D
    BY <1>8, <1>13, <1>14 DEF AtItsPlace
  <2>2. W = (DOMAIN u.stopAt \ DOMAIN stopAt) \ DOMAIN u.queue
        /\ (DOMAIN u.queue \ D) \cap (DOMAIN u.stopAt \ DOMAIN stopAt) = {}
    BY <1>4 DEF Woken
  <2>3. DOMAIN q \cap D \subseteq DOMAIN u.queue
    BY <1>5, <1>6, <1>10 DEF Onward
  <2>4. \A j \in DOMAIN q \ D : q[j].priority = Entered(j, u.stopAt)
    BY <1>8, <1>10 DEF AtItsPlace
  <2>5. Tied(D, k) = tied
    BY <1>10, <1>13 DEF Tied
  <2>6. q \in Queues /\ DOMAIN q \subseteq DOMAIN orders
    BY <1>10
  <2> HIDE DEF q, W, D
  <2>7. Before(q, k) \ W = Before(q, k) \ tied
    BY <1>6, <2>1, <2>2, <2>3, <2>4, <2>6, MissedIsTied
  <2> HIDE DEF tied
  <2>8. CASE k \in DOMAIN u.queue
    BY <2>1, <2>5, <2>7, <2>8 DEF Missed, Waits
  <2>9. CASE k \notin DOMAIN u.queue
    BY <2>1, <2>9 DEF Missed
  <2> QED BY <2>8, <2>9
<1> QED BY <1>12, <1>14 DEF Behind

(* Each event keeps times behind the clock, and whoever it lets join is    *)
(* behind those before.                                                    *)
LEMMA SnapshotBehind ==
  ASSUME IInv, Timely, NEW t \in Instants, NEW b \in Snapshots, Snapshot(t, b)
  PROVE  Timely' /\ Behind({})
<1> DEFINE a == ApplySnapshot(Staged, b)
<1>1. Typed /\ Unfilled /\ Staged \in Matching /\ Staged.stopAt = stopAt
  BY StagedIs
<1>2. b \in Books
  BY L2Assumption DEF Books, Sides
<1>3. Nobody \in Queues /\ DOMAIN Nobody = {}
  <2>1. Nobody \in [{} -> Place] /\ {} \in SUBSET used
    BY DEF Nobody
  <2> QED BY <2>1 DEF Queues
<1>4. a \in Matching /\ a.queue = Nobody /\ a.known /\ a.stopAt = stopAt
  BY <1>1, <1>2, <1>3 DEF ApplySnapshot, Matching
<1>5. BookEvent(t, a, b, "snapshot")
  BY DEF Snapshot
<1> HIDE DEF a
<1>6. \A k \in DOMAIN orders \cap DOMAIN a.queue : a.queue[k].remaining = Remaining(k)
  BY <1>3, <1>4
<1>7. DOMAIN a.queue = {}
  BY <1>3, <1>4
<1> QED BY <1>1, <1>4, <1>5, <1>6, <1>7, BookEventBehind

(* Those that join with a delta find all before them.                      *)
LEMMA DeltaBehind ==
  ASSUME IInv, Timely, NEW t \in Instants, NEW side \in Sides, NEW p \in Prices, NEW n \in Sizes \cup {0},
         Delta(t, side, p, n)
  PROVE  Timely' /\ Behind(DOMAIN queue)
<1> DEFINE a == ApplyDelta(Staged, side, p, n)
           shown == [displayed EXCEPT ![side][p] = @ + Monus(n, book[side][p])]
           v == Refreshed(Staged, side, p, n)
           q == Advance(queue, <<side, p>>, Monus(book[side][p], n))
<1>1. /\ Typed /\ Unfilled /\ Staged \in Matching
      /\ Staged.known = known /\ Staged.book = book /\ Staged.overlay = overlay
      /\ Staged.queue = queue /\ Staged.stopAt = stopAt
      /\ \A k \in DOMAIN orders \cap DOMAIN queue : queue[k].remaining = Remaining(k)
  BY StagedIs
<1>2. /\ n \in Nat /\ queue \in Queues /\ book \in Books /\ overlay \in Books
  BY <1>1, L2Assumption DEF Typed
<1>3. book[side][p] \in Nat /\ overlay[side][p] \in Nat
  BY <1>2 DEF Books
<1>4. v \in Nat
  BY <1>1, <1>2, <1>3 DEF Refreshed, Monus
<1>5. /\ q \in Queues /\ DOMAIN q = DOMAIN queue
      /\ \A k \in DOMAIN queue : q[k].remaining = queue[k].remaining
  <2>1. Monus(book[side][p], n) \in Nat
    BY <1>2, <1>3 DEF Monus
  <2> QED BY <1>1, <1>2, <2>1, AdvanceIs
<1> HIDE DEF v, q
<1>6. a = [Staged EXCEPT !.book[side][p] = n, !.overlay[side][p] = v, !.queue = q]
  BY <1>1 DEF ApplyDelta, v, q
<1>7. BookEvent(t, a, shown, "delta") /\ known
  BY DEF Delta
<1> HIDE DEF a, shown
<1>8. a \in Matching /\ a.queue = q /\ a.known /\ a.stopAt = stopAt
  BY <1>1, <1>2, <1>4, <1>5, <1>6, <1>7 DEF Matching, Books
<1>9. \A k \in DOMAIN orders \cap DOMAIN a.queue : a.queue[k].remaining = Remaining(k)
  BY <1>1, <1>5, <1>8
<1>10. Timely' /\ Behind(DOMAIN a.queue)
  BY <1>1, <1>7, <1>8, <1>9, BookEventBehind
<1> QED BY <1>5, <1>8, <1>10

(* An event that only reconciles does the same, with or without a book.    *)
LEMMA OtherBehind ==
  ASSUME IInv, Timely, NEW t \in Instants, OtherEvent(t)
  PROVE  Timely' /\ Behind(DOMAIN queue)
<1> DEFINE m == Reconcile(Staged, t)
           fill == [k \in DOMAIN orders |-> 0]
<1>1. /\ Typed /\ Unfilled /\ Staged \in Matching /\ Staged.known = known
      /\ Staged.queue = queue /\ Staged.stopAt = stopAt
      /\ \A k \in DOMAIN orders \cap DOMAIN queue : queue[k].remaining = Remaining(k)
  BY StagedIs
<1>2. Commit(t, m, fill, NoTakes, displayed)
  BY DEF OtherEvent
<1>3. Reconciled(Staged, m)
  BY <1>1, ReconcileIs
<1>4. \A k \in DOMAIN m.queue \ DOMAIN queue : AtItsPlace(m, k, {})
  <2>1. CASE known
    <3>1. Arrived(Staged, Due(t), m)
      BY <1>1, <2>1, ReconcileArrives
    <3> QED BY <1>1, <3>1 DEF Arrived
  <2>2. CASE ~known
    <3>1. m = Released(Staged)
      BY <1>1, <2>2 DEF Reconcile, Released
    <3>2. m.queue = Release(queue, [k \in DOMAIN orders |-> Remaining(k)])
      BY <1>1, <3>1 DEF Released, Matching
    <3>3. DOMAIN m.queue \subseteq DOMAIN queue
      BY <3>2 DEF Release
    <3> QED BY <3>3
  <2> QED BY <2>1, <2>2
<1>5. m.stopAt = stopAt
  BY <1>1, <1>3 DEF Reconciled
<1> HIDE DEF m, fill
<1>6. \A k \in DOMAIN m.stopAt : m.stopAt[k] <= t
  <2>1. now \in Nat /\ \A k \in DOMAIN stopAt : stopAt[k] \in Nat /\ stopAt[k] <= now
    BY <1>1, StopsIs DEF Timely, Typed
  <2> QED BY <1>1, <1>5, <2>1, InstantsAre
<1>7. Timely'
  BY <1>1, <1>2, <1>6, CommitTimely
<1>8. queue' = m.queue /\ overlay' = m.overlay
  BY <1>2 DEF Commit
<1> QED BY <1>4, <1>7, <1>8 DEF Behind, AtItsPlace

(* A trade triggers stops at its time.                                     *)
LEMMA TradeTimely ==
  ASSUME IInv, Timely, NEW t \in Instants, NEW price \in Prices, NEW n \in Sizes, NEW side \in Aggressors,
         Trade(t, price, n, side)
  PROVE  Timely'
<1> DEFINE m == Reconcile(Staged, t)
           r == IF known THEN ConsumeVisibleBook(m, t, TRUE) ELSE [m |-> m, takes |-> NoTakes]
           seen == [x \in Sides |-> {price}]
           u == Trigger(r.m, t, seen)
           makers == Makers(u, t, price, side)
           made(k) == IF k \in makers THEN Made(u.queue, k, n) ELSE 0
           out == ConsumeQueues(u, makers, n)
           fill == [k \in DOMAIN orders |-> Volume(r.takes[k]) + made(k)]
<1>1. /\ Typed /\ Unfilled /\ Staged \in Matching
      /\ Staged.queue = queue /\ Staged.stopAt = stopAt
      /\ \A k \in DOMAIN orders \cap DOMAIN queue : queue[k].remaining = Remaining(k)
  BY StagedIs
<1>2. now \in Nat /\ t \in Nat /\ now <= t
  BY <1>1, InstantsAre
<1>3. Reconciled(Staged, m)
  BY <1>1, ReconcileIs
<1>4. Commit(t, out, fill, r.takes, displayed)
  BY DEF Trade
<1> HIDE DEF m
<1>5. m \in Matching /\ m.stopAt = stopAt /\ Tidy(m.queue)
  BY <1>1, <1>3 DEF Reconciled
<1>6. PICK S : Consumed(m, S, r)
  <2>1. CASE known
    BY <2>1, <1>1, <1>5, ConsumeIs
  <2>2. CASE ~known
    BY <2>2, <1>1, <1>5, NobodyMet
  <2> QED BY <2>1, <2>2
<1> HIDE DEF r
<1>7. r.m \in Matching /\ r.m.stopAt = stopAt
  BY <1>5, <1>6 DEF Consumed, Accs
<1>8. /\ u \in Matching
      /\ \A k \in DOMAIN u.stopAt : u.stopAt[k] = IF k \in DOMAIN stopAt THEN stopAt[k] ELSE t
  <2> DEFINE before == r.m
  <2> HIDE DEF seen
  <2>1. before \in Matching /\ before.stopAt = stopAt
    BY <1>7
  <2>2. u = Trigger(before, t, seen)
    OBVIOUS
  <2> HIDE DEF before, u
  <2>3. /\ u \in Matching
        /\ \A k \in DOMAIN u.stopAt :
             IF k \in DOMAIN before.stopAt THEN u.stopAt[k] = before.stopAt[k]
             ELSE u.stopAt[k] = t
    BY <1>1, <1>2, <2>1, <2>2, TriggerIs
  <2> QED BY <2>1, <2>3
<1> HIDE DEF u
<1>9. out.stopAt = u.stopAt
  BY <1>8 DEF ConsumeQueues, Matching
<1> HIDE DEF out, fill
<1>10. \A k \in DOMAIN out.stopAt : out.stopAt[k] <= t
  <2>1. \A k \in DOMAIN stopAt : stopAt[k] \in Nat /\ stopAt[k] <= now
    BY <1>1, StopsIs DEF Timely, Typed
  <2>2. \A k \in DOMAIN u.stopAt : u.stopAt[k] <= t
    BY <1>2, <1>8, <2>1
  <2> QED BY <1>9, <2>2
<1> QED BY <1>1, <1>4, <1>10, CommitTimely

(* Every step keeps times behind the clock; every event but a trade lets   *)
(* orders join behind those before.                                        *)
LEMMA StepBehind ==
  ASSUME IInv, Timely, [Next]_vars
  PROVE  /\ Timely'
         /\ count' # count /\ last'.kind # "trade" =>
              Behind(IF last'.kind = "snapshot" THEN {} ELSE DOMAIN queue)
<1>0. Typed /\ now \in Nat
  BY DEF IInv, Typed
<1>1. CASE UNCHANGED vars
  BY <1>1 DEF vars, modelVars, Timely
<1>2. ASSUME NEW k \in Keys, NEW i \in Intents, Submit(k, i)
      PROVE  Timely' /\ count' = count
  <2>1. /\ now' = now /\ count' = count /\ stopAt' = stopAt
        /\ orders' = Put(orders, {k}, [intent |-> i, created |-> now, filled |-> 0])
    BY <1>2 DEF Submit, modelVars
  <2>2. /\ DOMAIN orders' = DOMAIN orders \cup {k}
        /\ orders'[k].created = now
        /\ \A j \in DOMAIN orders : j # k => orders'[j] = orders[j]
    BY <2>1 DEF Put
  <2>3. \A j \in DOMAIN orders' : orders'[j].created <= now'
    <3> SUFFICES ASSUME NEW j \in DOMAIN orders' PROVE orders'[j].created <= now
      BY <2>1
    <3>1. CASE j = k
      BY <1>0, <2>2, <3>1
    <3>2. CASE j # k
      BY <2>2, <3>2 DEF Timely
    <3> QED BY <3>1, <3>2
  <2>4. \A j \in DOMAIN stopAt' : stopAt'[j] <= now'
    BY <2>1 DEF Timely
  <2> QED BY <2>1, <2>3, <2>4 DEF Timely
<1>3. ASSUME NEW k \in Keys, Close(k)
      PROVE  Timely' /\ count' = count
  <2>1. now' = now /\ count' = count /\ stopAt' = stopAt /\ orders' = [j \in DOMAIN orders \ {k} |-> orders[j]]
    BY <1>3 DEF Close, modelVars
  <2> QED BY <2>1 DEF Timely
<1>4. ASSUME NEW t \in Instants, NEW b \in Snapshots, Snapshot(t, b)
      PROVE  Timely' /\ Behind({}) /\ last'.kind = "snapshot"
  BY <1>4, SnapshotBehind, SnapshotKeeps
<1>5. ASSUME NEW t \in Instants, NEW side \in Sides, NEW p \in Prices, NEW n \in Sizes \cup {0},
             Delta(t, side, p, n)
      PROVE  Timely' /\ Behind(DOMAIN queue) /\ last'.kind = "delta"
  <2>1. last'.kind = "delta"
    BY <1>5 DEF Delta, BookEvent
  <2> QED BY <1>5, <2>1, DeltaBehind
<1>6. ASSUME NEW t \in Instants, NEW p \in Prices, NEW n \in Sizes, NEW side \in Aggressors,
             Trade(t, p, n, side)
      PROVE  Timely' /\ last'.kind = "trade"
  <2>1. last'.kind = "trade"
    BY <1>6 DEF Trade
  <2> QED BY <1>6, <2>1, TradeTimely
<1>7. ASSUME NEW t \in Instants, OtherEvent(t)
      PROVE  Timely' /\ Behind(DOMAIN queue) /\ last'.kind = "other"
  <2>1. last'.kind = "other"
    BY <1>7 DEF OtherEvent
  <2> QED BY <1>7, <2>1, OtherBehind
<1>8. Over => UNCHANGED vars
  BY DEF Over
<1>9. UNCHANGED vars => count' = count
  BY DEF vars
<1> QED BY <1>1, <1>2, <1>3, <1>4, <1>5, <1>6, <1>7, <1>8, <1>9 DEF Next

(* An order joins the queue of its price behind all the volume the level   *)
(* shows and all that the orders before it still need, whatever the same   *)
(* event releases, consumes or triggers (_queue_passive_order in the loops *)
(* of _reconcile_queues and _consume_visible_book); an order that entered  *)
(* at the time of the event may miss the stops the event triggers and that *)
(* come before it, and nobody else.                                        *)
THEOREM NewcomersJoinBehind == Spec => JoinsBehind
<1> DEFINE Step ==
      count' # count /\ last'.kind # "trade" =>
        \A k \in Newcomers :
          LET place == queue'[k]
              shown == overlay'[place.level[1]][place.level[2]]
              needed(S) == SumFunctionOnSet([j \in DOMAIN queue' |-> queue'[j].remaining], S)
              tied == {j \in Newcomers : /\ place.priority[1] = now'
                                         /\ j \notin DOMAIN stopAt /\ j \in DOMAIN stopAt'}
          IN  place.ahead \in {shown + needed(Before(queue', k)),
                               shown + needed(Before(queue', k) \ tied)}
<1>1. Init => Timely
  BY DEF Init, Timely, Nobody
<1>2. IInv /\ Timely /\ [Next]_vars => Timely'
  BY StepBehind
<1>3. IInv /\ Timely /\ [Next]_vars => [Step]_vars
  <2> SUFFICES ASSUME IInv, Timely, [Next]_vars, count' # count, last'.kind # "trade",
                      NEW k \in Newcomers
               PROVE  LET place == queue'[k]
                          shown == overlay'[place.level[1]][place.level[2]]
                          needed(S) == SumFunctionOnSet([j \in DOMAIN queue' |-> queue'[j].remaining], S)
                          tied == {j \in Newcomers : /\ place.priority[1] = now'
                                                     /\ j \notin DOMAIN stopAt /\ j \in DOMAIN stopAt'}
                      IN  place.ahead \in {shown + needed(Before(queue', k)),
                                           shown + needed(Before(queue', k) \ tied)}
    OBVIOUS
  <2> DEFINE D == IF last'.kind = "snapshot" THEN {} ELSE DOMAIN queue
  <2>1. Behind(D)
    BY StepBehind
  <2>2. Newcomers = DOMAIN queue' \ D
    BY DEF Newcomers
  <2> HIDE DEF D
  <2>3. Waits(queue', overlay', k, {}) \/ Waits(queue', overlay', k, Tied(D, k))
    BY <2>1, <2>2 DEF Behind
  <2>4. Before(queue', k) \ {} = Before(queue', k)
    OBVIOUS
  <2>5. Tied(D, k) = {j \in Newcomers : /\ queue'[k].priority[1] = now'
                                        /\ j \notin DOMAIN stopAt /\ j \in DOMAIN stopAt'}
    BY <2>2 DEF Tied
  <2> QED BY <2>3, <2>4, <2>5 DEF Waits, Held
<1> QED BY <1>1, <1>2, <1>3, Invariance, PTL DEF Spec, JoinsBehind
=============================================================================
