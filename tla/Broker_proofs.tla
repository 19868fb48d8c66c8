---------------------------- MODULE Broker_proofs ----------------------------
(***************************************************************************)
(* Theorems about Broker for every set of keys, intents, fill and cancel   *)
(* identifiers, days and times.  After type correctness, StepKinds reduces *)
(* the actions to a few kinds of steps; each invariant, and the refinement *)
(* of OrderLifecycle, then has one case per kind.                          *)
(***************************************************************************)
EXTENDS Broker, Induction

-----------------------------------------------------------------------------
(* Type correctness. *)

(* The part of TypeOK about the variables that Register and MoveAll write. *)
BookTyped  == orders \in [Keys -> Orders] /\ log \in [Keys -> Seq(Events)] /\ archived \in [Keys -> Nat]
IndexTyped == openIds \subseteq Keys /\ dayIds \subseteq Keys /\ immediateIds \subseteq Keys

(* Registering an order keeps the types of the orders and their history. *)
LEMMA RegisterTyped ==
  ASSUME TypeOK, NEW k \in Keys, NEW i \in Intents, NEW to \in Status, Register(k, i, to)
  PROVE  BookTyped'
<1>1. MaxQuantity \in Nat
      BY BrokerAssumption
<1>2. Moved(Created(i), to, 0) \in Orders
      BY <1>1 DEF Moved, Created, Orders
<1>3. EventOf(Created(i), to, 0) \in Events
      BY <1>1 DEF EventOf, Created, Events, Status
<1>4. orders' \in [Keys -> Orders]
      BY <1>2 DEF TypeOK, Register
<1>5. log' \in [Keys -> Seq(Events)]
      BY <1>3 DEF TypeOK, Register
<1>6. archived' \in [Keys -> Nat]
      BY DEF TypeOK, Register
<1> QED BY <1>4, <1>5, <1>6 DEF BookTyped

(* A transition of orders keeps the types of the orders and their history. *)
LEMMA MoveTyped ==
  ASSUME TypeOK, NEW S \in SUBSET Keys, NEW to \in Status, NEW q \in 0..MaxQuantity,
         \A k \in S : orders[k].filled + q <= MaxQuantity,
         MoveAll(S, to, q)
  PROVE  BookTyped' /\ IndexTyped'
<1>1. ASSUME NEW k \in S
      PROVE  Moved(orders[k], to, q) \in Orders /\ EventOf(orders[k], to, q) \in Events
  <2>1. orders[k] \in Orders
        BY DEF TypeOK
  <2>2. orders[k].filled + q \in 0..MaxQuantity
        BY <2>1, BrokerAssumption DEF Orders
  <2> QED BY <2>1, <2>2 DEF Moved, EventOf, Orders, Events
<1>2. orders' \in [Keys -> Orders]
      BY <1>1 DEF TypeOK, MoveAll
<1>3. log' \in [Keys -> Seq(Events)]
      BY <1>1 DEF TypeOK, MoveAll
<1>4. archived' \in [Keys -> Nat]
      BY DEF TypeOK, MoveAll
<1>5. openIds' \subseteq Keys /\ dayIds' \subseteq Keys /\ immediateIds' \subseteq Keys
      BY DEF TypeOK, MoveAll, indexes
<1> QED BY <1>2, <1>3, <1>4, <1>5 DEF BookTyped, IndexTyped

(* The broker starts with its types. *)
LEMMA TypeInit == Init => TypeOK
  BY BrokerAssumption DEF Init, TypeOK, Orders, NoOrder, Created, NoIntent, Status, NoFill, NoKey, NoDay

(* A reset keeps the types. *)
LEMMA TypeReset == Reset => TypeOK'
  BY BrokerAssumption DEF Reset, TypeOK, Orders, NoOrder, Created, NoIntent, Status, NoFill, NoKey, NoDay

(* Every step of the broker preserves its type. *)
LEMMA TypeStep == TypeOK /\ [Next]_brokerVars => TypeOK'
<1> SUFFICES ASSUME TypeOK, [Next]_brokerVars
             PROVE  TypeOK'
    OBVIOUS
<1> USE DEF Status, OpenStatus, Terminal, BookTyped, IndexTyped
<1>1. ASSUME NEW k \in Keys, NEW i \in Intents, Submit(k, i)
      PROVE  TypeOK'
  <2>1. Register(k, i, "ACCEPTED")
        BY <1>1 DEF Submit
  <2> QED BY <1>1, <2>1, RegisterTyped DEF Submit, TypeOK
<1>2. ASSUME NEW k \in Keys, NEW i \in Intents, Reject(k, i)
      PROVE  TypeOK'
  <2>1. Register(k, i, "REJECTED")
        BY <1>2 DEF Reject
  <2> QED BY <1>2, <2>1, RegisterTyped DEF Reject, TypeOK
<1>3. ASSUME NEW k \in Keys, NEW c \in CancelIds, NEW now \in Times, Cancel(k, c, now)
      PROVE  TypeOK'
  <2>1. MoveAll({k}, "CANCELLED", 0)
        BY <1>3 DEF Cancel
  <2>2. {k} \in SUBSET Keys /\ 0 \in 0..MaxQuantity /\ \A j \in {k} : orders[j].filled + 0 <= MaxQuantity
        BY BrokerAssumption DEF TypeOK, Orders
  <2>3. BookTyped' /\ IndexTyped'
        BY <2>1, <2>2, MoveTyped
  <2> QED BY <1>3, <2>3 DEF Cancel, TypeOK
<1>4. ASSUME NEW f \in FillIds, NEW k \in Keys, NEW q \in 1..MaxQuantity, NEW now \in Times,
             NEW trusted, ApplyFill(f, k, q, now, trusted)
      PROVE  TypeOK'
  <2>1. orders[k] \in Orders
        BY DEF TypeOK
  <2>2. orders[k].intent.quantity \in 0..MaxQuantity
        BY <2>1, BrokerAssumption DEF Orders, NoIntent
  <2>3. q \in 0..MaxQuantity /\ orders[k].filled + q <= MaxQuantity
        BY <1>4, <2>1, <2>2, BrokerAssumption DEF ApplyFill, Remaining, Orders
  <2>4. PICK to \in Status : MoveAll({k}, to, q)
        BY <1>4 DEF ApplyFill
  <2>5. fillKeys' \in [FillIds -> [key : Keys \cup {NoKey}, quantity : 0..MaxQuantity]]
        BY <1>4, <2>3 DEF ApplyFill, TypeOK
  <2>6. {k} \in SUBSET Keys /\ \A j \in {k} : orders[j].filled + q <= MaxQuantity
        BY <2>3
  <2>7. BookTyped' /\ IndexTyped'
        BY <2>3, <2>4, <2>6, MoveTyped
  <2> QED BY <1>4, <2>5, <2>7 DEF ApplyFill, TypeOK
<1>5. ASSUME NEW S \in SUBSET Keys, NEW now \in Times, ExpireAll(S, now)
      PROVE  TypeOK'
  <2>1. MoveAll(S, "EXPIRED", 0)
        BY <1>5 DEF ExpireAll
  <2>2. 0 \in 0..MaxQuantity /\ \A k \in S : orders[k].filled + 0 <= MaxQuantity
        BY BrokerAssumption DEF TypeOK, Orders
  <2>3. BookTyped' /\ IndexTyped'
        BY <2>1, <2>2, MoveTyped
  <2> QED BY <1>5, <2>3 DEF ExpireAll, TypeOK
<1>6. ASSUME NEW k \in Keys, NEW d \in Days, NoteTradingDay(k, d)
      PROVE  TypeOK'
  BY <1>6 DEF NoteTradingDay, TypeOK
<1>7. ASSUME NEW d \in Days, NEW now \in Times, ExpireDayOrders(d, now)
      PROVE  TypeOK'
  <2>1. PICK S \in SUBSET Keys : ExpireAll(S, now)
        BY <1>7 DEF ExpireDayOrders, Due, TypeOK
  <2> QED BY <1>5, <2>1
<1>8. CASE StartStream
  BY <1>8 DEF StartStream, TypeOK
<1>9. CASE FinishStream
  BY <1>9 DEF FinishStream, TypeOK
<1>10. CASE AbortStream
  BY <1>10 DEF AbortStream, TypeOK
<1>11. CASE Reset
  BY <1>11, TypeReset
<1>12. CASE UNCHANGED brokerVars
  BY <1>12 DEF brokerVars, TypeOK
<1> QED BY <1>1, <1>2, <1>3, <1>4, <1>5, <1>6, <1>7, <1>8, <1>9, <1>10, <1>11, <1>12 DEF Next

(* In every reachable state every variable of the broker has its type. *)
THEOREM TypeCorrect == Spec => []TypeOK
  BY TypeInit, TypeStep, PTL DEF Spec

-----------------------------------------------------------------------------
(* The kinds of steps.  Whatever the call, the broker changes in one of    *)
(* these ways: an order is bound to a new key, fills, or is closed; the    *)
(* book is cleared; a trading day is noted; the stream changes state.      *)
Registers ==
  \E k \in Keys, i \in Intents, to \in {"ACCEPTED", "REJECTED"} :
    /\ Mutable /\ ~Known(k) /\ Register(k, i, to)
    /\ openIds' = IF to = "ACCEPTED" THEN openIds \cup {k} ELSE openIds
    /\ immediateIds' = IF to = "ACCEPTED" /\ i.tif \in Immediate
                         THEN immediateIds \cup {k} ELSE immediateIds
    /\ UNCHANGED <<dayIds, acceptedDay, fillKeys, cancelKeys, stream>>

Fills ==
  \E k \in Keys, q \in 1..MaxQuantity :
    /\ Mutable /\ IsOpen(k) /\ q <= Remaining(k)
    /\ MoveAll({k}, IF q = Remaining(k) THEN "FILLED" ELSE "PARTIALLY_FILLED", q)
    /\ UNCHANGED <<acceptedDay, cancelKeys, stream>>
    /\ \/ stream = "on" /\ UNCHANGED fillKeys
       \/ \E f \in FillIds : /\ fillKeys[f] = NoFill
                             /\ fillKeys' = [fillKeys EXCEPT ![f] = [key |-> k, quantity |-> q]]

Cancels(k, c) == cancelKeys[c] = NoKey /\ cancelKeys' = [cancelKeys EXCEPT ![c] = k]

Closes ==
  \E S \in SUBSET Keys, to \in {"CANCELLED", "EXPIRED"} :
    /\ Mutable /\ (\A k \in S : IsOpen(k)) /\ MoveAll(S, to, 0)
    /\ UNCHANGED <<acceptedDay, fillKeys, stream>>
    /\ \/ UNCHANGED cancelKeys
       \/ \E k \in Keys, c \in CancelIds : S = {k} /\ to = "CANCELLED" /\ Cancels(k, c)

Notes   == \E k \in Keys, d \in Days : NoteTradingDay(k, d)
Streams == StartStream \/ FinishStream \/ AbortStream

(* Every step is of one of the kinds. *)
LEMMA StepKinds ==
  ASSUME TypeOK, [Next]_brokerVars
  PROVE  Registers \/ Fills \/ Closes \/ Reset \/ Notes \/ Streams \/ UNCHANGED brokerVars
<1>1. ASSUME NEW k \in Keys, NEW i \in Intents, Submit(k, i)
      PROVE  Registers
  <2>1. Registers!(k, i, "ACCEPTED")
        BY <1>1 DEF Submit
  <2> QED BY <2>1 DEF Registers
<1>2. ASSUME NEW k \in Keys, NEW i \in Intents, Reject(k, i)
      PROVE  Registers
  <2>1. Registers!(k, i, "REJECTED")
        BY <1>2 DEF Reject
  <2> QED BY <2>1 DEF Registers
<1>3. ASSUME NEW k \in Keys, NEW c \in CancelIds, NEW now \in Times, Cancel(k, c, now)
      PROVE  Closes
  <2>1. {k} \in SUBSET Keys /\ Closes!({k}, "CANCELLED")
        BY <1>3 DEF Cancel, Cancels
  <2> QED BY <2>1 DEF Closes
<1>4. ASSUME NEW f \in FillIds, NEW k \in Keys, NEW q \in 1..MaxQuantity, NEW now \in Times,
             NEW trusted \in {FALSE, stream = "on"}, ApplyFill(f, k, q, now, trusted)
      PROVE  Fills
  BY <1>4 DEF ApplyFill, Fills
<1>5. ASSUME NEW S \in SUBSET Keys, NEW now \in Times, ExpireAll(S, now)
      PROVE  Closes
  <2>1. Closes!(S, "EXPIRED")
        BY <1>5 DEF ExpireAll, Expirable
  <2> QED BY <2>1 DEF Closes
<1>6. ASSUME NEW d \in Days, NEW now \in Times, ExpireDayOrders(d, now)
      PROVE  Closes
  <2>1. PICK S \in SUBSET Keys : ExpireAll(S, now)
        BY <1>6 DEF ExpireDayOrders, Due, TypeOK
  <2> QED BY <1>5, <2>1
<1> QED BY <1>1, <1>2, <1>3, <1>4, <1>5, <1>6 DEF Next, Notes, Streams

(* Noting a day and streaming do not look at an order's state. *)
Aside == Notes \/ Streams \/ UNCHANGED brokerVars

(* A step that is none of the kinds that change orders leaves the abstract *)
(* book as it is.                                                          *)
LEMMA AsideKeepsBook ==
  ASSUME Aside
  PROVE  UNCHANGED <<orders, log, openIds, immediateIds, fillKeys, cancelKeys>>
  BY DEF Aside, Notes, Streams, NoteTradingDay, StartStream, FinishStream, AbortStream, brokerVars

(* A known order is of an intent that was presented; nothing else is       *)
(* remembered of a key than its order.                                     *)
Presented == \A k \in Keys : IF Known(k) THEN orders[k].intent \in Intents ELSE orders[k] = NoOrder

(* Every kind of step keeps the orders those of the intents presented. *)
LEMMA PresentedStep == TypeOK /\ Presented /\ [Next]_brokerVars => Presented'
<1> SUFFICES ASSUME TypeOK, Presented, [Next]_brokerVars
             PROVE  Presented'
    OBVIOUS
<1> USE DEF Presented, Known
<1>1. CASE Registers
  <2>1. PICK k \in Keys, i \in Intents, to \in {"ACCEPTED", "REJECTED"} : Register(k, i, to)
        BY <1>1 DEF Registers
  <2>2. orders'[k] = [intent |-> i, status |-> to, filled |-> 0, version |-> 1]
        BY <2>1 DEF Register, Moved, Created, TypeOK
  <2>3. \A j \in Keys \ {k} : orders'[j] = orders[j]
        BY <2>1 DEF Register, TypeOK
  <2> QED BY <2>2, <2>3
<1>2. ASSUME NEW S \in SUBSET Keys, NEW to \in Status \ {"CREATED"}, NEW q \in Nat,
             \A k \in S : IsOpen(k), MoveAll(S, to, q)
      PROVE  Presented'
  <2>1. \A k \in Keys : orders'[k] = IF k \in S THEN Moved(orders[k], to, q) ELSE orders[k]
        BY <1>2 DEF MoveAll
  <2>2. ASSUME NEW k \in S PROVE orders'[k].status = to /\ orders'[k].intent = orders[k].intent /\ Known(k)
    <3>1. orders'[k] = Moved(orders[k], to, q)
      BY <1>2 DEF MoveAll
    <3>2. orders[k].status \in OpenStatus
      BY <1>2 DEF IsOpen
    <3> QED BY <3>1, <3>2 DEF Moved, OpenStatus
  <2>3. ASSUME NEW k \in Keys PROVE Presented!(k)'
    <3>1. CASE k \in S
      BY <1>2, <2>2, <3>1
    <3>2. CASE k \notin S
      BY <2>1, <3>2
    <3> QED BY <3>1, <3>2
  <2> QED BY <2>3
<1>3. CASE Fills
  <2>1. PICK k \in Keys, q \in 1..MaxQuantity : Fills!(k, q)
        BY <1>3 DEF Fills
  <2>2. PICK to \in {"FILLED", "PARTIALLY_FILLED"} : MoveAll({k}, to, q)
        BY <2>1
  <2>3. {k} \in SUBSET Keys /\ q \in Nat /\ to \in Status \ {"CREATED"}
        BY DEF Status, Terminal, OpenStatus
  <2> QED BY <1>2, <2>1, <2>2, <2>3
<1>4. CASE Closes
  <2>1. PICK S \in SUBSET Keys, to \in {"CANCELLED", "EXPIRED"} : Closes!(S, to)
        BY <1>4 DEF Closes
  <2>2. to \in Status \ {"CREATED"}
        BY DEF Status, Terminal
  <2> QED BY <1>2, <2>1, <2>2
<1>5. CASE Reset
  BY <1>5 DEF Reset, NoOrder, Created
<1>6. CASE Aside
  BY <1>6, AsideKeepsBook
<1> QED BY <1>1, <1>3, <1>4, <1>5, <1>6, StepKinds DEF Aside

-----------------------------------------------------------------------------
(* Quantity conservation. *)

(* Every kind of step keeps the executed quantity within the ordered one. *)
LEMMA QuantityStep == TypeOK /\ QuantityConserved /\ [Next]_brokerVars => QuantityConserved'
<1> SUFFICES ASSUME TypeOK, QuantityConserved, [Next]_brokerVars
             PROVE  QuantityConserved'
    OBVIOUS
<1> USE DEF QuantityConserved, Known
<1>1. CASE Registers
  <2>1. PICK k \in Keys, i \in Intents, to \in {"ACCEPTED", "REJECTED"} : Register(k, i, to)
        BY <1>1 DEF Registers
  <2>2. orders'[k] = [intent |-> i, status |-> to, filled |-> 0, version |-> 1]
        BY <2>1 DEF Register, Moved, Created, TypeOK
  <2>3. i.quantity \in Nat \ {0}
        BY BrokerAssumption
  <2>4. \A j \in Keys \ {k} : orders'[j] = orders[j]
        BY <2>1 DEF Register, TypeOK
  <2> QED BY <2>2, <2>3, <2>4
<1>2. CASE Fills
  <2>1. PICK k \in Keys, q \in 1..MaxQuantity :
          /\ IsOpen(k) /\ q <= Remaining(k)
          /\ MoveAll({k}, IF q = Remaining(k) THEN "FILLED" ELSE "PARTIALLY_FILLED", q)
        BY <1>2 DEF Fills
  <2>2. orders[k] \in Orders /\ orders[k].intent.quantity \in Nat
        BY BrokerAssumption DEF TypeOK, Orders, NoIntent
  <2>3. orders'[k] = Moved(orders[k], IF q = Remaining(k) THEN "FILLED" ELSE "PARTIALLY_FILLED", q)
        BY <2>1 DEF MoveAll
  <2>4. \A j \in Keys \ {k} : orders'[j] = orders[j]
        BY <2>1 DEF MoveAll
  <2>5. q \in Nat \ {0} /\ orders[k].filled \in Nat
        BY <2>2, BrokerAssumption DEF Orders
  <2>6. QuantityConserved!(k)'
        BY <2>1, <2>2, <2>3, <2>5 DEF Moved, Remaining, IsOpen, OpenStatus
  <2> QED BY <2>4, <2>6
<1>3. CASE Closes
  <2>1. PICK S \in SUBSET Keys, to \in {"CANCELLED", "EXPIRED"} :
          (\A k \in S : IsOpen(k)) /\ MoveAll(S, to, 0)
        BY <1>3 DEF Closes
  <2>2. ASSUME NEW k \in Keys
        PROVE  QuantityConserved!(k)'
    <3>1. orders[k] \in Orders /\ orders[k].intent.quantity \in Nat /\ orders[k].filled \in Nat
          BY BrokerAssumption DEF TypeOK, Orders, NoIntent
    <3>2. CASE k \in S
      <4>1. orders'[k] = Moved(orders[k], to, 0) /\ IsOpen(k)
            BY <2>1, <3>2 DEF MoveAll
      <4> QED BY <3>1, <4>1 DEF Moved, IsOpen, OpenStatus
    <3>3. CASE k \notin S
      <4>1. orders'[k] = orders[k]
            BY <2>1, <3>3 DEF MoveAll
      <4> QED BY <4>1
    <3> QED BY <3>2, <3>3
  <2> QED BY <2>2
<1>4. CASE Reset
  BY <1>4 DEF Reset, NoOrder, Created, NoIntent
<1>5. CASE Aside
  BY <1>5, AsideKeepsBook
<1> QED BY <1>1, <1>2, <1>3, <1>4, <1>5, StepKinds DEF Aside

(* No order is ever filled beyond its intent, and its status tells how far *)
(* it was filled (apply_fill's quantity conservation, through cancels and  *)
(* expiries).                                                              *)
THEOREM QuantityIsConserved == Spec => []QuantityConserved
<1>1. Init => QuantityConserved
      BY DEF Init, QuantityConserved, NoOrder, Created, NoIntent, Known
<1> QED BY <1>1, QuantityStep, TypeCorrect, PTL DEF Spec

-----------------------------------------------------------------------------
(* The indexes. *)

(* Every kind of step keeps the indexes of open and immediate orders in    *)
(* agreement with the orders.                                              *)
LEMMA IndexesStep == TypeOK /\ IndexesAgree /\ [Next]_brokerVars => IndexesAgree'
<1> SUFFICES ASSUME TypeOK, IndexesAgree, [Next]_brokerVars
             PROVE  IndexesAgree'
    OBVIOUS
<1> USE DEF IndexesAgree, IsOpen, OpenStatus
<1>1. CASE Registers
  <2>1. PICK k \in Keys, i \in Intents, to \in {"ACCEPTED", "REJECTED"} : Registers!(k, i, to)
        BY <1>1 DEF Registers
  <2>2. orders' = [orders EXCEPT ![k] = [intent |-> i, status |-> to, filled |-> 0, version |-> 1]]
        BY <2>1 DEF Register, Moved, Created
  <2>3. \A j \in Keys : orders'[j] = IF j = k THEN [intent |-> i, status |-> to, filled |-> 0, version |-> 1]
                                              ELSE orders[j]
        BY <2>2 DEF TypeOK
  <2>4. ~IsOpen(k)
        BY <2>1 DEF Known
  <2> QED BY <2>1, <2>3, <2>4
<1>2. ASSUME NEW S \in SUBSET Keys, NEW to \in Status \ {"CREATED"}, NEW q \in Nat,
             \A k \in S : IsOpen(k), MoveAll(S, to, q)
      PROVE  IndexesAgree'
  <2>1. \A k \in Keys : /\ orders'[k].intent = orders[k].intent
                        /\ orders'[k].status = IF k \in S THEN to ELSE orders[k].status
        BY <1>2 DEF MoveAll, Moved
  <2>2. CASE to \in Terminal
    BY <1>2, <2>1, <2>2 DEF MoveAll, Terminal
  <2>3. CASE to \notin Terminal
    BY <1>2, <2>1, <2>3 DEF MoveAll, indexes, Status
  <2> QED BY <2>2, <2>3
<1>3. CASE Fills
  <2>1. PICK k \in Keys, q \in 1..MaxQuantity : Fills!(k, q)
        BY <1>3 DEF Fills
  <2>2. PICK to \in {"FILLED", "PARTIALLY_FILLED"} : MoveAll({k}, to, q)
        BY <2>1
  <2>3. {k} \in SUBSET Keys /\ q \in Nat /\ to \in Status \ {"CREATED"}
        BY BrokerAssumption DEF Status, Terminal
  <2> QED BY <1>2, <2>1, <2>2, <2>3
<1>4. CASE Closes
  <2>1. PICK S \in SUBSET Keys, to \in {"CANCELLED", "EXPIRED"} : Closes!(S, to)
        BY <1>4 DEF Closes
  <2>2. to \in Status \ {"CREATED"}
        BY DEF Status, Terminal
  <2> QED BY <1>2, <2>1, <2>2
<1>5. CASE Reset
  BY <1>5 DEF Reset, NoOrder, Created
<1>6. CASE Aside
  BY <1>6, AsideKeepsBook
<1> QED BY <1>1, <1>3, <1>4, <1>5, <1>6, StepKinds DEF Aside

(* The open index names exactly the open orders and the immediate index    *)
(* the open IOC and FOK orders, after every call.                          *)
THEOREM IndexesAlwaysAgree == Spec => []IndexesAgree
<1>1. Init => IndexesAgree
      BY DEF Init, IndexesAgree, IsOpen, OpenStatus, NoOrder, Created
<1> QED BY <1>1, IndexesStep, TypeCorrect, PTL DEF Spec

-----------------------------------------------------------------------------
(* The DAY index. *)

(* A day is noted for DAY orders only; IndexesAgree is not needed.         *)
DaysOfDayOrders ==
  \A k \in Keys : acceptedDay[k] # NoDay => Known(k) /\ orders[k].intent.tif = "DAY"

DayInv == DayOrdersWatched /\ DaysOfDayOrders

(* Every kind of step keeps each open DAY order in the index of its day. *)
LEMMA DayStep == TypeOK /\ DayInv /\ [Next]_brokerVars => DayInv'
<1> SUFFICES ASSUME TypeOK, DayInv, [Next]_brokerVars
             PROVE  DayInv'
    OBVIOUS
<1> USE DEF DayInv, DayOrdersWatched, DaysOfDayOrders, Known
<1>1. CASE Registers
  <2>1. PICK k \in Keys, i \in Intents, to \in {"ACCEPTED", "REJECTED"} : Registers!(k, i, to)
        BY <1>1 DEF Registers
  <2>2. \A j \in Keys \ {k} : orders'[j] = orders[j]
        BY <2>1 DEF Register, TypeOK
  <2>3. acceptedDay[k] = NoDay /\ k \notin dayIds
        BY <2>1
  <2> QED BY <2>1, <2>2, <2>3 DEF TypeOK
<1>2. ASSUME NEW S \in SUBSET Keys, NEW to \in Status \ {"CREATED"}, NEW q,
             MoveAll(S, to, q), UNCHANGED acceptedDay
      PROVE  DayInv'
  <2>1. \A k \in Keys : /\ orders'[k].intent = orders[k].intent
                        /\ orders'[k].status = IF k \in S THEN to ELSE orders[k].status
        BY <1>2 DEF MoveAll, Moved
  <2>2. \/ openIds' = openIds \ S /\ dayIds' = dayIds \ S
        \/ openIds' = openIds /\ dayIds' = dayIds
        BY <1>2 DEF MoveAll, indexes
  <2> QED BY <1>2, <2>1, <2>2 DEF TypeOK
<1>3. CASE Fills
  <2>1. PICK k \in Keys, q \in 1..MaxQuantity : Fills!(k, q)
        BY <1>3 DEF Fills
  <2>2. PICK to \in {"FILLED", "PARTIALLY_FILLED"} : MoveAll({k}, to, q)
        BY <2>1
  <2>3. {k} \in SUBSET Keys /\ to \in Status \ {"CREATED"}
        BY DEF Status, Terminal, OpenStatus
  <2> QED BY <1>2, <2>1, <2>2, <2>3
<1>4. CASE Closes
  <2>1. PICK S \in SUBSET Keys, to \in {"CANCELLED", "EXPIRED"} : Closes!(S, to)
        BY <1>4 DEF Closes
  <2>2. to \in Status \ {"CREATED"}
        BY DEF Status, Terminal
  <2> QED BY <1>2, <2>1, <2>2
<1>5. CASE Reset
  BY <1>5 DEF Reset, NoOrder, Created
<1>6. CASE Notes
  <2>1. PICK k \in Keys, d \in Days : NoteTradingDay(k, d)
        BY <1>6 DEF Notes
  <2>2. d # NoDay
        BY BrokerAssumption DEF NoDay
  <2> QED BY <2>1, <2>2 DEF NoteTradingDay, TypeOK
<1>7. CASE Streams
  BY <1>7 DEF Streams, StartStream, FinishStream, AbortStream
<1>8. CASE UNCHANGED brokerVars
  BY <1>8 DEF brokerVars
<1> QED BY <1>1, <1>3, <1>4, <1>5, <1>6, <1>7, <1>8, StepKinds

(* An open order whose trading day was noted stays in the index that       *)
(* expire_day_orders walks until it closes: no DAY order is forgotten.     *)
THEOREM DayOrdersAreWatched == Spec => []DayOrdersWatched
<1>1. Init => DayInv
      BY DEF Init, DayInv, DayOrdersWatched, DaysOfDayOrders, NoOrder, Created
<1>2. DayInv => DayOrdersWatched
      BY DEF DayInv
<1> QED BY <1>1, <1>2, DayStep, TypeCorrect, PTL DEF Spec

-----------------------------------------------------------------------------
(* The event history. *)

(* HistoryChained of one order, and of its m-th event.                     *)
Linked(k, m) ==
  /\ log[k][m].sequence = m
  /\ log[k][m].from = IF m = 1 THEN "CREATED" ELSE log[k][m - 1].to

Chained(k) ==
  /\ Len(log[k]) = orders[k].version
  /\ \A m \in 1..Len(log[k]) : Linked(k, m)
  /\ Known(k) <=> Len(log[k]) > 0
  /\ Known(k) => log[k][Len(log[k])].to = orders[k].status

(* Appending the next event of an order keeps its history a chain.         *)
LEMMA AppendChains ==
  ASSUME TypeOK, NEW k \in Keys, Chained(k), NEW to \in Status \ {"CREATED"}, NEW q,
         log'[k] = Append(log[k], EventOf(orders[k], to, q)),
         orders'[k].status = to, orders'[k].version = orders[k].version + 1
  PROVE  Chained(k)'
<1> DEFINE event == EventOf(orders[k], to, q)
<1>a. log[k] \in Seq(Events) /\ orders[k].status \in Status
      BY DEF TypeOK, Orders
<1>b. Len(log[k]) \in Nat
      BY <1>a
<1> PICK n \in Nat : n = Len(log[k])
    BY <1>b
<1>1. log[k] \in Seq(Events) /\ n = Len(log[k]) /\ orders[k].status \in Status
      BY <1>a
<1>2. Len(log'[k]) = n + 1
      BY <1>1
<1>3. \A m \in 1..n : log'[k][m] = log[k][m]
      BY <1>1
<1>4. log'[k][n + 1] = event
      BY <1>1
<1>5. event.sequence = n + 1 /\ event.to = to /\ event.from = orders[k].status
      BY DEF EventOf, Chained
<1>6. orders[k].status = IF n = 0 THEN "CREATED" ELSE log[k][n].to
      BY <1>1 DEF Chained, Known
<1>7. \A m \in 1..n : Linked(k, m)'
  <2>1. SUFFICES ASSUME NEW m \in 1..n
                 PROVE  Linked(k, m)'
        OBVIOUS
  <2>2. Linked(k, m) /\ log'[k][m] = log[k][m]
        BY <1>3 DEF Chained
  <2>3. CASE m = 1
    BY <2>2, <2>3 DEF Linked
  <2>4. CASE m # 1
    <3>1. m - 1 \in 1..n
          BY <1>1, <2>4
    <3>2. log'[k][m - 1] = log[k][m - 1]
          BY <1>3, <3>1
    <3> QED BY <2>2, <2>4, <3>2 DEF Linked
  <2> QED BY <2>3, <2>4
<1>8. Linked(k, n + 1)'
  <2>1. CASE n = 0
    BY <1>4, <1>5, <1>6, <2>1 DEF Linked
  <2>2. CASE n # 0
    <3>1. n \in 1..n /\ n + 1 # 1 /\ n + 1 - 1 = n
          BY <1>1, <2>2
    <3>2. log'[k][n] = log[k][n]
          BY <1>3, <3>1
    <3> QED BY <1>4, <1>5, <1>6, <2>2, <3>1, <3>2 DEF Linked
  <2> QED BY <2>1, <2>2
<1>9. \A m \in 1..Len(log'[k]) : Linked(k, m)'
      BY <1>1, <1>2, <1>7, <1>8
<1>10. Known(k)' /\ Len(log'[k]) > 0 /\ log'[k][Len(log'[k])].to = orders'[k].status
      BY <1>1, <1>2, <1>4, <1>5 DEF Known
<1>11. Len(log'[k]) = orders'[k].version
      BY <1>2 DEF Chained
<1> QED BY <1>9, <1>10, <1>11 DEF Chained

(* Every kind of step keeps the versions of an order consecutive and its   *)
(* transitions chained.                                                    *)
LEMMA HistoryStep == TypeOK /\ HistoryChained /\ [Next]_brokerVars => HistoryChained'
<1> SUFFICES ASSUME TypeOK, HistoryChained, [Next]_brokerVars
             PROVE  \A k \in Keys : Chained(k)'
    BY DEF HistoryChained, Chained, Linked
<1>1. ASSUME NEW k \in Keys
      PROVE  Chained(k)
      BY DEF HistoryChained, Chained, Linked
<1>2. ASSUME NEW k \in Keys, orders'[k] = orders[k], log'[k] = log[k]
      PROVE  Chained(k)'
      BY <1>1, <1>2 DEF Chained, Linked, Known
<1>3. CASE Registers
  <2>1. PICK k \in Keys, i \in Intents, to \in {"ACCEPTED", "REJECTED"} : Registers!(k, i, to)
        BY <1>3 DEF Registers
  <2>2. orders[k].status = "CREATED" /\ orders[k].version = 0
        BY <2>1, <1>1 DEF Known, Chained, TypeOK
  <2>3. orders'[k] = [intent |-> i, status |-> to, filled |-> 0, version |-> 1]
        BY <2>1 DEF Register, Moved, Created, TypeOK
  <2>4. log'[k] = Append(log[k], EventOf(orders[k], to, 0))
        BY <2>1, <2>2 DEF Register, EventOf, Created, TypeOK
  <2>5. Chained(k)'
    <3>1. to \in Status \ {"CREATED"}
          BY DEF Status, Terminal, OpenStatus
    <3>2. orders'[k].status = to /\ orders'[k].version = orders[k].version + 1
          BY <2>2, <2>3
    <3> QED BY <1>1, <2>4, <3>1, <3>2, AppendChains
  <2>6. \A j \in Keys \ {k} : orders'[j] = orders[j] /\ log'[j] = log[j]
        BY <2>1 DEF Register, TypeOK
  <2> QED BY <1>2, <2>5, <2>6
<1>4. ASSUME NEW S \in SUBSET Keys, NEW to \in Status \ {"CREATED"}, NEW q, MoveAll(S, to, q)
      PROVE  \A k \in Keys : Chained(k)'
  <2>1. ASSUME NEW k \in Keys
        PROVE  Chained(k)'
    <3>1. CASE k \in S
      <4>1. /\ log'[k] = Append(log[k], EventOf(orders[k], to, q))
            /\ orders'[k].status = to /\ orders'[k].version = orders[k].version + 1
            BY <1>4, <3>1 DEF MoveAll, Moved
      <4> QED BY <1>1, <4>1, AppendChains
    <3>2. CASE k \notin S
      BY <1>2, <1>4, <3>2 DEF MoveAll
    <3> QED BY <3>1, <3>2
  <2> QED BY <2>1
<1>5. CASE Fills
  <2>1. PICK k \in Keys, q \in 1..MaxQuantity : Fills!(k, q)
        BY <1>5 DEF Fills
  <2>2. PICK to \in {"FILLED", "PARTIALLY_FILLED"} : MoveAll({k}, to, q)
        BY <2>1
  <2> QED BY <1>4, <2>2 DEF Status, Terminal, OpenStatus
<1>6. CASE Closes
  <2>1. PICK S \in SUBSET Keys, to \in {"CANCELLED", "EXPIRED"} : Closes!(S, to)
        BY <1>6 DEF Closes
  <2> QED BY <1>4, <2>1 DEF Status, Terminal, OpenStatus
<1>7. CASE Reset
  BY <1>7 DEF Reset, Chained, Linked, NoOrder, Created, Known
<1>8. CASE Aside
  BY <1>8, <1>2, AsideKeepsBook
<1> QED BY <1>3, <1>5, <1>6, <1>7, <1>8, StepKinds DEF Aside

(* The recorded events of every order are a gapless chain from CREATED to  *)
(* its present status.                                                     *)
THEOREM HistoryIsChained == Spec => []HistoryChained
<1>1. Init => HistoryChained
      BY DEF Init, HistoryChained, NoOrder, Created, Known
<1> QED BY <1>1, HistoryStep, TypeCorrect, PTL DEF Spec

-----------------------------------------------------------------------------
(* The filled quantity is the sum of the recorded fills. *)

(* What the history of an order says was filled. *)
Recorded(history) == SumFunction([n \in DOMAIN history |-> history[n].quantity])

(* What the fill table says was filled of an order, and under which ids. *)
UsedFor(k) == {f \in FillIds : fillKeys[f].key = k}
Tabled(k)  == SumFunctionOnSet([f \in FillIds |-> fillKeys[f].quantity], UsedFor(k))

(* An event adds its quantity to what the history records. *)
LEMMA RecordedAppend ==
  ASSUME NEW h \in Seq(Events), NEW e \in Events
  PROVE  Recorded(Append(h, e)) = Recorded(h) + e.quantity /\ Recorded(h) \in Int
<1> DEFINE r == Append(h, e)
           m == Len(h) + 1
           F == [n \in DOMAIN h |-> h[n].quantity]
           G == [n \in DOMAIN r |-> r[n].quantity]
<1>1. r \in Seq(Events) /\ Len(r) = m /\ r[m] = e /\ \A n \in 1..Len(h) : r[n] = h[n]
  BY AppendProperties
<1>2. DOMAIN h = 1..Len(h) /\ DOMAIN r = 1..m /\ Len(h) \in Nat
  <2> HIDE DEF r
  <2> QED BY <1>1, LenProperties
<1>3. DOMAIN r = (DOMAIN h) \cup {m} /\ m \notin DOMAIN h
  <2> HIDE DEF r
  <2> QED BY <1>2
<1>4. \A x \in Events : x.quantity \in Int
  BY BrokerAssumption DEF Events
<1>5. \A n \in DOMAIN h : F[n] \in Int /\ F[n] = G[n]
  <2> HIDE DEF r
  <2> QED BY <1>1, <1>2, <1>3, <1>4
<1>6. G[m] = e.quantity /\ G[m] \in Int
  <2> HIDE DEF r
  <2> QED BY <1>1, <1>3, <1>4
<1>7. IsFiniteSet(DOMAIN h)
  BY <1>2, FS_Interval
<1>8. DOMAIN F = DOMAIN h /\ DOMAIN G = DOMAIN r
  OBVIOUS
<1>9. Recorded(h) = SumFunctionOnSet(F, DOMAIN h) /\ Recorded(r) = SumFunctionOnSet(G, DOMAIN r)
  BY <1>8 DEF Recorded, SumFunction
<1> HIDE DEF F, G, r, m
<1>10. Summable(F, DOMAIN h)
  BY <1>5, <1>7 DEF Summable
<1>11. Summable(G, DOMAIN h) /\ SumFunctionOnSet(F, DOMAIN h) = SumFunctionOnSet(G, DOMAIN h)
  BY <1>5, <1>10, SumSame
<1>12. SumFunctionOnSet(G, (DOMAIN h) \cup {m}) = G[m] + SumFunctionOnSet(G, DOMAIN h)
  BY <1>3, <1>6, <1>11, SumAdd
<1>13. SumFunctionOnSet(F, DOMAIN h) \in Int
  BY <1>10, SumType
<1>14. Recorded(r) = Recorded(h) + e.quantity
  BY <1>3, <1>6, <1>9, <1>11, <1>12, <1>13
<1> QED BY <1>9, <1>13, <1>14 DEF r

(* A history without events records nothing. *)
LEMMA RecordedEmpty == Recorded(<<>>) = 0
<1> DEFINE F == [n \in DOMAIN <<>> |-> <<>>[n].quantity]
<1>1. DOMAIN F = {}
  OBVIOUS
<1>2. Recorded(<<>>) = SumFunctionOnSet(F, DOMAIN F)
  BY DEF Recorded, SumFunction
<1> HIDE DEF F
<1> QED BY <1>1, <1>2, SumEmpty

(* The parts of FillsAccounted for one order.  A finite number of fills    *)
(* was applied under ids of the table.                                     *)
RecordedAll(k) == orders[k].filled = Recorded(log[k])
TabledAll(k)   == IsFiniteSet(UsedFor(k)) /\ (stream = "off" => orders[k].filled = Tabled(k))
FillsInv       == \A k \in Keys : RecordedAll(k) /\ TabledAll(k)

(* An event of an order accounts for what it filled. *)
LEMMA RecordedStep ==
  ASSUME TypeOK, NEW k \in Keys, RecordedAll(k), NEW q \in 0..MaxQuantity, NEW e \in Events,
         e.quantity = q,
         orders'[k].filled = orders[k].filled + q, log'[k] = Append(log[k], e)
  PROVE  RecordedAll(k)'
<1>1. log[k] \in Seq(Events)
  BY DEF TypeOK
<1>2. Recorded(Append(log[k], e)) = Recorded(log[k]) + e.quantity
  BY <1>1, RecordedAppend
<1> QED BY <1>2 DEF RecordedAll

(* A fill under a new id is counted for its order and for no other. *)
LEMMA TabledStep ==
  ASSUME TypeOK, NEW k \in Keys, NEW q \in 1..MaxQuantity, NEW f \in FillIds,
         fillKeys[f] = NoFill, fillKeys' = [fillKeys EXCEPT ![f] = [key |-> k, quantity |-> q]],
         NEW j \in Keys, IsFiniteSet(UsedFor(j))
  PROVE  IsFiniteSet(UsedFor(j)') /\ Tabled(j)' = Tabled(j) + (IF j = k THEN q ELSE 0)
<1> DEFINE F == [g \in FillIds |-> fillKeys[g].quantity]
           G == [g \in FillIds |-> fillKeys'[g].quantity]
           U == UsedFor(j)
<1>1. k # NoKey /\ j # NoKey /\ q \in Int
  BY BrokerAssumption DEF NoKey
<1>2. \A g \in FillIds : fillKeys'[g] = IF g = f THEN [key |-> k, quantity |-> q] ELSE fillKeys[g]
  BY DEF TypeOK
<1>3. UsedFor(j)' = IF j = k THEN U \cup {f} ELSE U
  BY <1>1, <1>2 DEF UsedFor, NoFill, NoKey
<1>4. f \notin U
  BY <1>1 DEF UsedFor, NoFill, NoKey
<1>5. \A g \in U : F[g] \in Int /\ F[g] = G[g]
  BY <1>2, <1>4, BrokerAssumption DEF TypeOK, UsedFor
<1>6. G[f] = q
  BY <1>2
<1>7. Tabled(j) = SumFunctionOnSet(F, U) /\ Tabled(j)' = SumFunctionOnSet(G, UsedFor(j)')
  BY DEF Tabled
<1> HIDE DEF F, G, U
<1>8. Summable(F, U)
  BY <1>5 DEF Summable, U
<1>9. Summable(G, U) /\ SumFunctionOnSet(F, U) = SumFunctionOnSet(G, U)
  BY <1>5, <1>8, SumSame
<1>10. SumFunctionOnSet(F, U) \in Int
  BY <1>8, SumType
<1>11. CASE j = k
  <2>1. Summable(G, U \cup {f}) /\ SumFunctionOnSet(G, U \cup {f}) = G[f] + SumFunctionOnSet(G, U)
    BY <1>1, <1>4, <1>6, <1>9, SumAdd
  <2>2. IsFiniteSet(UsedFor(j)')
    BY <2>1, <1>3, <1>11 DEF Summable
  <2>3. Tabled(j)' = Tabled(j) + q
    BY <2>1, <1>1, <1>3, <1>6, <1>7, <1>9, <1>10, <1>11
  <2> QED BY <2>2, <2>3, <1>11
<1>12. CASE j # k
  <2>1. UsedFor(j)' = U
    BY <1>3, <1>12
  <2>2. IsFiniteSet(UsedFor(j)')
    BY <2>1 DEF U
  <2>3. Tabled(j)' = Tabled(j) + 0
    BY <2>1, <1>7, <1>9, <1>10
  <2> QED BY <2>2, <2>3, <1>12
<1> QED BY <1>11, <1>12

(* What the table says does not change while the table does not. *)
LEMMA TabledKept ==
  ASSUME UNCHANGED fillKeys, NEW k
  PROVE  UsedFor(k)' = UsedFor(k) /\ Tabled(k)' = Tabled(k)
BY DEF UsedFor, Tabled

(* Every kind of step keeps the fills accounted for. *)
LEMMA FillsStep == TypeOK /\ QuantityConserved /\ FillsInv /\ [Next]_brokerVars => FillsInv'
<1> SUFFICES ASSUME TypeOK, QuantityConserved, FillsInv, [Next]_brokerVars, NEW j \in Keys
             PROVE  RecordedAll(j)' /\ TabledAll(j)'
  BY DEF FillsInv
<1>1. RecordedAll(j) /\ TabledAll(j)
  BY DEF FillsInv
<1>2. orders[j] \in Orders /\ orders[j].filled \in Int /\ log[j] \in Seq(Events) /\ 0 \in 0..MaxQuantity
  BY BrokerAssumption DEF TypeOK, Orders
<1>3. ASSUME orders'[j].filled = orders[j].filled, log'[j] = log[j]
      PROVE  RecordedAll(j)'
  BY <1>1, <1>3 DEF RecordedAll
<1>4. ASSUME orders'[j].filled = orders[j].filled, UNCHANGED fillKeys, stream' = "off" => stream = "off"
      PROVE  TabledAll(j)'
  <2>1. UsedFor(j)' = UsedFor(j) /\ Tabled(j)' = Tabled(j)
    BY <1>4, TabledKept
  <2> QED BY <2>1, <1>1, <1>4 DEF TabledAll
<1>5. ASSUME NEW to \in Status, NEW q \in 0..MaxQuantity, NEW S, MoveAll(S, to, q)
      PROVE  RecordedAll(j)'
  <2>1. CASE j \in S
    <3>1. orders'[j].filled = orders[j].filled + q /\ log'[j] = Append(log[j], EventOf(orders[j], to, q))
      BY <1>5, <2>1 DEF MoveAll, Moved
    <3>2. EventOf(orders[j], to, q) \in Events /\ EventOf(orders[j], to, q).quantity = q
      BY <1>2 DEF EventOf, Events, Orders
    <3> QED BY <3>1, <3>2, <1>1, RecordedStep
  <2>2. CASE j \notin S
    BY <1>3, <1>5, <2>2 DEF MoveAll
  <2> QED BY <2>1, <2>2
<1>6. CASE Registers
  <2>1. PICK k \in Keys, i \in Intents, to \in {"ACCEPTED", "REJECTED"} : Registers!(k, i, to)
    BY <1>6 DEF Registers
  <2>2. CASE j = k
    <3>1. orders'[j] = Moved(Created(i), to, 0) /\ log'[j] = Append(log[j], EventOf(Created(i), to, 0))
      BY <2>1, <2>2 DEF Register, TypeOK
    <3>2. orders'[j].filled = 0
      BY <3>1 DEF Moved, Created
    <3>3. EventOf(Created(i), to, 0) \in Events /\ EventOf(Created(i), to, 0).quantity = 0
      BY <1>2 DEF EventOf, Events, Created, Status, OpenStatus, Terminal
    <3>4. orders[j].filled = 0
      BY <2>1, <2>2 DEF Known, QuantityConserved
    <3>5. RecordedAll(j)'
      BY <3>1, <3>2, <3>3, <3>4, <1>1, <1>2, RecordedStep
    <3>6. TabledAll(j)'
      BY <3>2, <3>4, <2>1, <1>4
    <3> QED BY <3>5, <3>6
  <2>3. CASE j # k
    <3>1. orders'[j] = orders[j] /\ log'[j] = log[j]
      BY <2>1, <2>3 DEF Register, TypeOK
    <3> QED BY <3>1, <2>1, <1>3, <1>4
  <2> QED BY <2>2, <2>3
<1>7. CASE Fills
  <2>1. PICK k \in Keys, q \in 1..MaxQuantity : Fills!(k, q)
    BY <1>7 DEF Fills
  <2>2. PICK to \in {"FILLED", "PARTIALLY_FILLED"} : MoveAll({k}, to, q)
    BY <2>1
  <2>3. to \in Status /\ q \in 0..MaxQuantity
    BY DEF Status, OpenStatus, Terminal
  <2>4. RecordedAll(j)'
    BY <1>5, <2>2, <2>3
  <2>5. orders'[j].filled = orders[j].filled + (IF j = k THEN q ELSE 0)
    <3>1. j = k => orders'[j].filled = orders[j].filled + q
      BY <2>2 DEF MoveAll, Moved
    <3>2. j # k => orders'[j] = orders[j]
      BY <2>2 DEF MoveAll
    <3> QED BY <3>1, <3>2, <1>2
  <2>6. CASE stream = "on" /\ UNCHANGED fillKeys
    <3>1. UsedFor(j)' = UsedFor(j)
      BY <2>6, TabledKept
    <3>2. stream' = "on"
      BY <2>1, <2>6
    <3> QED BY <2>4, <3>1, <3>2, <1>1 DEF TabledAll
  <2>7. CASE \E f \in FillIds : fillKeys[f] = NoFill
                                /\ fillKeys' = [fillKeys EXCEPT ![f] = [key |-> k, quantity |-> q]]
    <3>1. PICK f \in FillIds : fillKeys[f] = NoFill
                               /\ fillKeys' = [fillKeys EXCEPT ![f] = [key |-> k, quantity |-> q]]
      BY <2>7
    <3>2. IsFiniteSet(UsedFor(j)') /\ Tabled(j)' = Tabled(j) + (IF j = k THEN q ELSE 0)
      BY <3>1, <1>1, TabledStep DEF TabledAll
    <3>3. stream' = stream
      BY <2>1
    <3> QED BY <2>4, <2>5, <3>2, <3>3, <1>1 DEF TabledAll
  <2> QED BY <2>1, <2>6, <2>7
<1>8. CASE Closes
  <2>1. PICK S \in SUBSET Keys, to \in {"CANCELLED", "EXPIRED"} : Closes!(S, to)
    BY <1>8 DEF Closes
  <2>2. RecordedAll(j)'
    BY <1>2, <1>5, <2>1 DEF Status, OpenStatus, Terminal
  <2>3. orders'[j].filled = orders[j].filled
    BY <2>1, <1>2 DEF MoveAll, Moved
  <2> QED BY <1>4, <2>1, <2>2, <2>3
<1>9. CASE Reset
  <2>1. orders'[j].filled = 0 /\ log'[j] = <<>> /\ fillKeys' = [f \in FillIds |-> NoFill]
    BY <1>9 DEF Reset, NoOrder, Created
  <2>2. UsedFor(j)' = {}
    BY <2>1, BrokerAssumption DEF UsedFor, NoFill, NoKey
  <2>3. Tabled(j)' = 0
    BY <2>2, SumEmpty DEF Tabled
  <2> QED BY <2>1, <2>2, <2>3, RecordedEmpty, FS_EmptySet DEF RecordedAll, TabledAll
<1>10. CASE Aside
  <2>1. stream' = "off" => stream = "off"
    BY <1>10 DEF Aside, Notes, Streams, NoteTradingDay, StartStream, FinishStream, AbortStream, brokerVars
  <2> QED BY <1>3, <1>4, <1>10, <2>1, AsideKeepsBook
<1> QED BY <1>6, <1>7, <1>8, <1>9, <1>10, StepKinds DEF Aside

(* The broker starts with nothing filled. *)
LEMMA FillsInit == Init => FillsInv
<1> SUFFICES ASSUME Init, NEW j \in Keys PROVE RecordedAll(j) /\ TabledAll(j)
  BY DEF FillsInv
<1>1. orders[j].filled = 0 /\ log[j] = <<>> /\ fillKeys = [f \in FillIds |-> NoFill]
  BY DEF Init, NoOrder, Created
<1>2. UsedFor(j) = {}
  BY <1>1, BrokerAssumption DEF UsedFor, NoFill, NoKey
<1>3. Tabled(j) = 0
  BY <1>2, SumEmpty DEF Tabled
<1> QED BY <1>1, <1>2, <1>3, RecordedEmpty, FS_EmptySet DEF RecordedAll, TabledAll

(* The filled quantity of every order is what its recorded events add up   *)
(* to and, without a sink, what the fill table adds up to: no fill is lost *)
(* and a fill presented again under its id is not counted twice.           *)
THEOREM FillsAreAccounted == Spec => []FillsAccounted
<1>1. FillsInv => FillsAccounted
  BY DEF FillsInv, RecordedAll, TabledAll, FillsAccounted, Recorded, Tabled, UsedFor
<1> QED BY <1>1, FillsInit, FillsStep, TypeCorrect, QuantityIsConserved, PTL DEF Spec

-----------------------------------------------------------------------------
(* Finished orders and cancel keys. *)

(* Only Reset touches an order that is not open. *)
LEMMA FinishedStays ==
  ASSUME TypeOK, [Next]_brokerVars, ~Reset,
         NEW k \in Keys, orders[k].status \in Terminal
  PROVE  orders'[k] = orders[k]
<1> USE DEF Terminal, IsOpen, OpenStatus
<1>1. CASE Registers
  BY <1>1 DEF Registers, Register, Known, TypeOK
<1>2. CASE Fills
  BY <1>2 DEF Fills, MoveAll
<1>3. CASE Closes
  BY <1>3 DEF Closes, MoveAll
<1>4. CASE Aside
  BY <1>4, AsideKeepsBook
<1> QED BY <1>1, <1>2, <1>3, <1>4, StepKinds DEF Aside

(* Every kind of step keeps the recorded results of cancels true. *)
LEMMA CancelStep == TypeOK /\ CancelKeysTrue /\ [Next]_brokerVars => CancelKeysTrue'
<1> SUFFICES ASSUME TypeOK, CancelKeysTrue, [Next]_brokerVars
             PROVE  CancelKeysTrue'
    OBVIOUS
<1> USE DEF CancelKeysTrue
<1>1. CASE Reset
  BY <1>1 DEF Reset
<1>2. CASE UNCHANGED cancelKeys /\ ~Reset
  <2>1. ASSUME NEW c \in CancelIds, cancelKeys[c] # NoKey
        PROVE  orders'[cancelKeys[c]].status = "CANCELLED"
    <3>1. cancelKeys[c] \in Keys /\ orders[cancelKeys[c]].status = "CANCELLED"
          BY <2>1 DEF TypeOK
    <3> QED BY <1>2, <3>1, FinishedStays DEF Terminal
  <2> QED BY <1>2, <2>1
<1>3. CASE Closes /\ ~Reset
  <2>1. PICK S \in SUBSET Keys, to \in {"CANCELLED", "EXPIRED"} : Closes!(S, to)
        BY <1>3 DEF Closes
  <2>2. CASE UNCHANGED cancelKeys
    BY <1>2, <1>3, <2>2
  <2>3. CASE \E k \in Keys, c \in CancelIds : S = {k} /\ to = "CANCELLED" /\ Cancels(k, c)
    <3>1. PICK k \in Keys, c \in CancelIds : S = {k} /\ to = "CANCELLED" /\ Cancels(k, c)
          BY <2>3
    <3>2. cancelKeys' = [cancelKeys EXCEPT ![c] = k] /\ IsOpen(k)
          BY <2>1, <3>1 DEF Cancels
    <3>3. orders'[k].status = "CANCELLED"
          BY <2>1, <3>1 DEF MoveAll, Moved
    <3>4. \A d \in CancelIds : cancelKeys[d] # k
      <4>1. k # NoKey /\ orders[k].status # "CANCELLED"
            BY <3>2, BrokerAssumption DEF IsOpen, OpenStatus, NoKey
      <4> QED BY <4>1
    <3>5. \A d \in CancelIds : cancelKeys'[d] = IF d = c THEN k ELSE cancelKeys[d]
          BY <3>2 DEF TypeOK
    <3>6. ASSUME NEW d \in CancelIds, d # c, cancelKeys[d] # NoKey
          PROVE  orders'[cancelKeys[d]].status = "CANCELLED"
      <4>1. cancelKeys[d] \in Keys /\ orders[cancelKeys[d]].status = "CANCELLED"
            BY <3>6 DEF TypeOK
      <4> QED BY <1>3, <4>1, FinishedStays DEF Terminal
    <3> QED BY <3>3, <3>4, <3>5, <3>6
  <2> QED BY <2>1, <2>2, <2>3
<1>4. Registers \/ Fills \/ Aside => UNCHANGED cancelKeys
      BY AsideKeepsBook DEF Registers, Fills
<1> QED BY <1>1, <1>2, <1>3, <1>4, StepKinds DEF Aside

(* A cancel key stays bound to a cancelled order, and an order to at most  *)
(* one cancel key.                                                         *)
THEOREM CancelKeysAreTrue == Spec => []CancelKeysTrue
<1>1. Init => CancelKeysTrue
      BY DEF Init, CancelKeysTrue
<1> QED BY <1>1, CancelStep, TypeCorrect, PTL DEF Spec

-----------------------------------------------------------------------------
(* The artifact stream. *)

(* Every kind of step keeps what was streamed out complete. *)
LEMMA ArchiveStep == TypeOK /\ IndexesAgree /\ ArchiveComplete /\ [Next]_brokerVars => ArchiveComplete'
<1> SUFFICES ASSUME TypeOK, IndexesAgree, ArchiveComplete, [Next]_brokerVars
             PROVE  ArchiveComplete'
    OBVIOUS
<1> USE DEF ArchiveComplete
<1>1. CASE Registers
  <2>1. PICK k \in Keys, i \in Intents, to \in {"ACCEPTED", "REJECTED"} : Registers!(k, i, to)
        BY <1>1 DEF Registers
  <2>2. stream' = stream /\ stream \in {"off", "on"}
        BY <2>1 DEF Mutable
  <2>3. orders'[k].status = to /\ orders[k].status = "CREATED"
        BY <2>1 DEF Register, Moved, Known, TypeOK
  <2>4. \A j \in Keys \ {k} : orders'[j] = orders[j] /\ archived'[j] = archived[j]
        BY <2>1 DEF Register, TypeOK
  <2>5. archived'[k] = IF stream = "on" /\ to \in Terminal THEN archived[k] + 1 ELSE archived[k]
        BY <2>1 DEF Register, TypeOK
  <2> QED BY <2>2, <2>3, <2>4, <2>5 DEF Terminal
<1>2. ASSUME NEW S \in SUBSET Keys, NEW to \in Status \ {"CREATED"}, NEW q,
             \A k \in S : IsOpen(k), MoveAll(S, to, q), Mutable, UNCHANGED stream
      PROVE  ArchiveComplete'
  <2>1. SUFFICES ASSUME NEW k \in Keys
                 PROVE  ArchiveComplete!(k)'
        OBVIOUS
  <2>2. CASE k \in S
    <3>1. orders'[k].status = to /\ orders[k].status \notin Terminal
          BY <1>2, <2>2 DEF MoveAll, Moved, IsOpen, OpenStatus, Terminal
    <3>2. archived'[k] = IF stream = "on" /\ to \in Terminal THEN archived[k] + 1 ELSE archived[k]
          BY <1>2, <2>2 DEF MoveAll
    <3> QED BY <1>2, <3>1, <3>2 DEF Mutable
  <2>3. CASE k \notin S
    <3>1. orders'[k] = orders[k] /\ archived'[k] = archived[k]
          BY <1>2, <2>3 DEF MoveAll
    <3> QED BY <1>2, <3>1 DEF Mutable
  <2> QED BY <2>2, <2>3
<1>3. CASE Fills
  <2>1. PICK k \in Keys, q \in 1..MaxQuantity : Fills!(k, q)
        BY <1>3 DEF Fills
  <2>2. PICK to \in {"FILLED", "PARTIALLY_FILLED"} : MoveAll({k}, to, q)
        BY <2>1
  <2>3. {k} \in SUBSET Keys /\ to \in Status \ {"CREATED"}
        BY DEF Status, Terminal, OpenStatus
  <2> QED BY <1>2, <2>1, <2>2, <2>3
<1>4. CASE Closes
  <2>1. PICK S \in SUBSET Keys, to \in {"CANCELLED", "EXPIRED"} : Closes!(S, to)
        BY <1>4 DEF Closes
  <2>2. to \in Status \ {"CREATED"}
        BY DEF Status, Terminal
  <2> QED BY <1>2, <2>1, <2>2
<1>5. CASE Reset
  BY <1>5 DEF Reset
<1>6. CASE Notes
  BY <1>6 DEF Notes, NoteTradingDay, Known
<1>7. CASE StartStream
  BY <1>7 DEF StartStream, Known, Terminal
<1>8. CASE FinishStream
  <2>1. ASSUME NEW k \in Keys
        PROVE  ArchiveComplete!(k)'
    <3>1. archived'[k] = IF k \in openIds THEN archived[k] + 1 ELSE archived[k]
          BY <1>8 DEF FinishStream
    <3>2. k \in openIds <=> orders[k].status \in OpenStatus
          BY DEF IndexesAgree, IsOpen
    <3>3. orders[k].status \in Status
          BY DEF TypeOK, Orders
    <3>4. archived[k] = IF orders[k].status \in Terminal THEN 1 ELSE 0
          BY <1>8 DEF FinishStream
    <3>5. archived'[k] = IF Known(k) THEN 1 ELSE 0
          BY <3>1, <3>2, <3>3, <3>4 DEF Known, Status, OpenStatus, Terminal
    <3>6. stream' = "finished" /\ orders' = orders
          BY <1>8 DEF FinishStream
    <3> QED BY <3>5, <3>6 DEF Known
  <2> QED BY <2>1
<1>9. CASE AbortStream
  BY <1>9 DEF AbortStream
<1>10. CASE UNCHANGED brokerVars
  BY <1>10 DEF brokerVars, Known
<1> QED BY <1>1, <1>3, <1>4, <1>5, <1>6, <1>7, <1>8, <1>9, <1>10, StepKinds DEF Streams

(* Every order reaches the sink once when it is terminal, and a finished   *)
(* stream holds every order once.                                          *)
THEOREM ArchiveIsComplete == Spec => []ArchiveComplete
<1>1. Init => ArchiveComplete
      BY DEF Init, ArchiveComplete
<1> QED BY <1>1, ArchiveStep, TypeCorrect, IndexesAlwaysAgree, PTL DEF Spec

-----------------------------------------------------------------------------
(* Refinement. *)

(* Every kind of step is a step of OrderLifecycle or leaves its book       *)
(* alone.                                                                  *)
LEMMA LifecycleStep == TypeOK /\ [Next]_brokerVars => [OL!Next]_Book
<1> SUFFICES ASSUME TypeOK, [Next]_brokerVars
             PROVE  [OL!Next]_Book
    OBVIOUS
<1> USE DEF Book, Phase
<1>1. CASE Registers
  <2>1. PICK k \in Keys, i \in Intents, to \in {"ACCEPTED", "REJECTED"} : Registers!(k, i, to)
        BY <1>1 DEF Registers
  <2>2. orders' = [orders EXCEPT ![k] = [intent |-> i, status |-> to, filled |-> 0, version |-> 1]]
        BY <2>1 DEF Register, Moved, Created
  <2>3. Book[k].phase = "unused"
        BY <2>1 DEF Known
  <2>4. PICK p \in {"working", "finished"} : p = Phase(to)
        BY DEF OpenStatus
  <2>5. Book' = [Book EXCEPT ![k] = [phase |-> p, quantity |-> i.quantity, executed |-> 0]]
        BY <2>2, <2>4 DEF TypeOK
  <2>6. i.quantity \in OL!Quantities
        BY BrokerAssumption DEF OL!Quantities
  <2>7. OL!Open(k, i.quantity, p)
        BY <2>3, <2>5 DEF OL!Open
  <2> HIDE DEF Book
  <2> QED BY <2>6, <2>7 DEF OL!Next
<1>2. CASE Fills
  <2>1. PICK k \in Keys, q \in 1..MaxQuantity : Fills!(k, q)
        BY <1>2 DEF Fills
  <2>2. orders[k].intent.quantity \in Nat /\ orders[k].filled \in Nat /\ q \in Nat
        BY BrokerAssumption DEF TypeOK, Orders, NoIntent
  <2>3. Book[k].phase = "working" /\ Book[k].executed = orders[k].filled
        /\ Book[k].quantity = orders[k].intent.quantity
        BY <2>1 DEF IsOpen, OpenStatus
  <2>4. q = Remaining(k) <=> Book[k].executed + q = Book[k].quantity
        BY <2>2, <2>3 DEF Remaining
  <2>5. Book[k].executed + q <= Book[k].quantity
        BY <2>1, <2>2, <2>3 DEF Remaining
  <2>6. \A j \in Keys : orders'[j] = IF j = k
           THEN Moved(orders[k], IF q = Remaining(k) THEN "FILLED" ELSE "PARTIALLY_FILLED", q)
           ELSE orders[j]
        BY <2>1 DEF MoveAll
  <2>7. Book' = [Book EXCEPT ![k] =
                   [phase    |-> IF q = Remaining(k) THEN "finished" ELSE "working",
                    quantity |-> Book[k].quantity,
                    executed |-> Book[k].executed + q]]
    <3>1. Book'[k] = [phase    |-> IF q = Remaining(k) THEN "finished" ELSE "working",
                      quantity |-> Book[k].quantity,
                      executed |-> Book[k].executed + q]
          BY <2>3, <2>6 DEF Moved, OpenStatus
    <3>2. \A j \in Keys \ {k} : Book'[j] = Book[j]
          BY <2>6
    <3>3. Book' = [j \in Keys |-> Book'[j]] /\ Book = [j \in Keys |-> Book[j]]
          OBVIOUS
    <3> HIDE DEF Book
    <3> QED BY <3>1, <3>2, <3>3
  <2>8. q \in OL!Quantities
    BY <2>1 DEF OL!Quantities
  <2> HIDE DEF Book
  <2>9. OL!Execute(k, q)
    BY <2>3, <2>4, <2>5, <2>7 DEF OL!Execute
  <2> QED BY <2>8, <2>9 DEF OL!Next
<1>3. CASE Closes
  <2>1. PICK S \in SUBSET Keys, to \in {"CANCELLED", "EXPIRED"} : Closes!(S, to)
        BY <1>3 DEF Closes
  <2>2. \A k \in S : Book[k].phase = "working"
        BY <2>1 DEF IsOpen, OpenStatus
  <2>3. \A k \in Keys : orders'[k] = IF k \in S THEN Moved(orders[k], to, 0) ELSE orders[k]
        BY <2>1 DEF MoveAll
  <2>4. \A k \in Keys : orders[k].filled + 0 = orders[k].filled
        BY DEF TypeOK, Orders
  <2>5. Book' = [k \in Keys |-> IF k \in S THEN [Book[k] EXCEPT !.phase = "finished"] ELSE Book[k]]
    <3>1. ASSUME NEW k \in Keys
          PROVE  Book'[k] = IF k \in S THEN [Book[k] EXCEPT !.phase = "finished"] ELSE Book[k]
      <4>1. CASE k \in S
        <5>1. orders'[k] = Moved(orders[k], to, 0)
              BY <2>3, <4>1
        <5>2. Phase(to) = "finished"
              BY DEF OpenStatus
        <5>3. Book'[k] = [phase |-> "finished", quantity |-> orders[k].intent.quantity,
                          executed |-> orders[k].filled]
              BY <2>4, <5>1, <5>2 DEF Moved
        <5> QED BY <4>1, <5>3
      <4>2. CASE k \notin S
        BY <2>3, <4>2
      <4> QED BY <4>1, <4>2
    <3>2. Book' = [k \in Keys |-> Book'[k]]
          OBVIOUS
    <3> HIDE DEF Book
    <3> QED BY <3>1, <3>2
  <2> QED BY <2>2, <2>5 DEF OL!Next, OL!Close
<1>4. CASE Reset
  <2>1. Book' = [k \in Keys |-> OL!Unused]
        BY <1>4 DEF Reset, NoOrder, Created, NoIntent, OL!Unused
  <2> QED BY <2>1 DEF OL!Next, OL!Clear
<1>5. CASE Aside
  BY <1>5, AsideKeepsBook
<1> QED BY <1>1, <1>2, <1>3, <1>4, <1>5, StepKinds DEF Aside

(* The broker implements OrderLifecycle: a key is used once, executions    *)
(* add up to at most the quantity, a finished order changes no more.       *)
THEOREM BrokerImplementsLifecycle == Spec => Lifecycle
<1>1. Init => OL!Init
      BY DEF Init, OL!Init, OL!Unused, Book, Phase, NoOrder, Created, NoIntent
<1> QED BY <1>1, LifecycleStep, TypeCorrect, PTL DEF Spec, Lifecycle, OL!Spec
=============================================================================
