------------------------- MODULE ReplayEngine_proofs -------------------------
(***************************************************************************)
(* Proofs about ReplayEngine.                                              *)
(*                                                                         *)
(* The engine drives the broker only by the broker's own operations, so    *)
(* the broker's invariants carry over (BP).  With the types and the        *)
(* control of the loop they make Sound, the inductive invariant on which   *)
(* every other proof stands.  On top of it, one invariant per theorem:     *)
(* RefusedInv, SessionInv, OneShotInv and BooksInv without any hypothesis, *)
(* and, for quantities whose filled fractions a Decimal writes exactly     *)
(* (ExactFractions), HoldInv, SharesInv, MoneyInv and PendingInv, which    *)
(* relate the reservations of the risk gate to the broker's orders, the    *)
(* account and the fills still to be committed.                            *)
(***************************************************************************)
EXTENDS ReplayEngine, Induction

BP == INSTANCE Broker_proofs

(* The constants of the engine are constants of a broker. *)
LEMMA BrokerConstants == BP!BrokerAssumption
BY EngineAssumption DEF BP!BrokerAssumption, BP!TimesInForce

(* The predicates and actions of Broker are the same in both instances. *)
LEMMA SameBrokerType == (B!TypeOK <=> BP!TypeOK) /\ (B!TypeOK' <=> BP!TypeOK')
BY DEF B!TypeOK, BP!TypeOK, B!Orders, BP!Orders, B!Events, BP!Events, B!Status, BP!Status,
       B!OpenStatus, BP!OpenStatus, B!Terminal, BP!Terminal, B!NoIntent, BP!NoIntent,
       B!NoDay, BP!NoDay, B!NoKey, BP!NoKey

(* Moving orders to a new status is the same step in both instances. *)
LEMMA SameMoveAll == \A S, to, q : B!MoveAll(S, to, q) <=> BP!MoveAll(S, to, q)
BY DEF B!MoveAll, BP!MoveAll, B!Moved, BP!Moved, B!EventOf, BP!EventOf, B!Terminal, BP!Terminal,
       B!indexes, BP!indexes

(* So is the registration of a new order. *)
LEMMA SameRegister == \A k, i, to : B!Register(k, i, to) <=> BP!Register(k, i, to)
BY DEF B!Register, BP!Register, B!Moved, BP!Moved, B!EventOf, BP!EventOf, B!Terminal, BP!Terminal,
       B!Created, BP!Created

(* So are the views of the state and the constants of the broker. *)
LEMMA SameViews ==
  /\ B!Mutable <=> BP!Mutable
  /\ \A k : (B!Known(k) <=> BP!Known(k)) /\ (B!IsOpen(k) <=> BP!IsOpen(k)) /\ B!Remaining(k) = BP!Remaining(k)
  /\ B!Immediate = BP!Immediate
  /\ B!NoKey = BP!NoKey /\ B!NoDay = BP!NoDay /\ B!NoFill = BP!NoFill /\ B!NoOrder = BP!NoOrder
BY DEF B!Mutable, BP!Mutable, B!Known, BP!Known, B!IsOpen, BP!IsOpen, B!OpenStatus, BP!OpenStatus,
       B!Remaining, BP!Remaining, B!Immediate, BP!Immediate, B!NoKey, BP!NoKey, B!NoDay, BP!NoDay,
       B!NoFill, BP!NoFill, B!NoOrder, BP!NoOrder, B!Created, BP!Created, B!NoIntent, BP!NoIntent

(* So is the expiry of several orders. *)
LEMMA SameExpire == \A S, now : B!ExpireAll(S, now) <=> BP!ExpireAll(S, now)
BY SameViews, SameMoveAll DEF B!ExpireAll, BP!ExpireAll, B!Expirable, BP!Expirable

(* So are submission and rejection. *)
LEMMA SameSubmit ==
  \A k, i : (B!Submit(k, i) <=> BP!Submit(k, i)) /\ (B!Reject(k, i) <=> BP!Reject(k, i))
BY SameViews, SameRegister DEF B!Submit, BP!Submit, B!Reject, BP!Reject

(* So is a cancellation. *)
LEMMA SameCancel == \A k, c, now : B!Cancel(k, c, now) <=> BP!Cancel(k, c, now)
BY SameViews, SameMoveAll DEF B!Cancel, BP!Cancel

(* So is the application of a fill. *)
LEMMA SameFill == \A f, k, q, now, t : B!ApplyFill(f, k, q, now, t) <=> BP!ApplyFill(f, k, q, now, t)
BY SameViews, SameMoveAll DEF B!ApplyFill, BP!ApplyFill

(* So is the noting of the trading day. *)
LEMMA SameNote == \A k, d : B!NoteTradingDay(k, d) <=> BP!NoteTradingDay(k, d)
BY SameViews DEF B!NoteTradingDay, BP!NoteTradingDay, B!NoteTradingDayRaises, BP!NoteTradingDayRaises

(* So is the expiry of the DAY orders of an earlier session. *)
LEMMA SameExpireDay == \A d, now : B!ExpireDayOrders(d, now) <=> BP!ExpireDayOrders(d, now)
<1> TAKE d, now
<1>1. \A j, k : B!SortsBefore(j, k) <=> BP!SortsBefore(j, k)
  BY DEF B!SortsBefore, BP!SortsBefore
<1>2. B!Due(d) = BP!Due(d)
  BY SameViews DEF B!Due, BP!Due
<1>3. B!Stuck(d, now) = BP!Stuck(d, now)
  BY SameViews, <1>2 DEF B!Stuck, BP!Stuck, B!Expirable, BP!Expirable
<1>4. {k \in B!Due(d) : \A s \in B!Stuck(d, now) : B!SortsBefore(k, s)}
        = {k \in BP!Due(d) : \A s \in BP!Stuck(d, now) : BP!SortsBefore(k, s)}
  BY <1>1, <1>2, <1>3
<1> QED BY <1>4, SameExpire DEF B!ExpireDayOrders, BP!ExpireDayOrders

(* So are the streams of events and the restoration of the broker. *)
LEMMA SameStreams ==
  /\ B!StartStream <=> BP!StartStream
  /\ B!FinishStream <=> BP!FinishStream
  /\ B!AbortStream <=> BP!AbortStream
  /\ B!Reset <=> BP!Reset
BY SameViews DEF B!StartStream, BP!StartStream, B!FinishStream, BP!FinishStream,
   B!AbortStream, BP!AbortStream, B!Reset, BP!Reset

(* So is a step of the broker. *)
LEMMA SameNext == B!Next <=> BP!Next
BY SameExpire, SameSubmit, SameCancel, SameFill, SameNote, SameExpireDay, SameStreams DEF B!Next, BP!Next

(* So is its initial state. *)
LEMMA SameInit == B!Init <=> BP!Init
BY SameViews DEF B!Init, BP!Init

(* Both instances have the variables of the engine. *)
LEMMA SameVars ==
  /\ B!brokerVars = brokerVars /\ BP!brokerVars = brokerVars
  /\ B!brokerVars' = brokerVars' /\ BP!brokerVars' = brokerVars'
BY DEF B!brokerVars, BP!brokerVars, brokerVars

(* The invariants of the broker say the same in both instances. *)
LEMMA SameFacts ==
  /\ (B!QuantityConserved <=> BP!QuantityConserved) /\ (B!QuantityConserved' <=> BP!QuantityConserved')
  /\ (B!IndexesAgree <=> BP!IndexesAgree) /\ (B!IndexesAgree' <=> BP!IndexesAgree')
  /\ (B!DayOrdersWatched <=> BP!DayOrdersWatched) /\ (B!DayOrdersWatched' <=> BP!DayOrdersWatched')
BY SameViews DEF B!QuantityConserved, BP!QuantityConserved, B!IndexesAgree, BP!IndexesAgree,
   B!DayOrdersWatched, BP!DayOrdersWatched, B!Known, BP!Known, B!IsOpen, BP!IsOpen,
   B!OpenStatus, BP!OpenStatus, B!Immediate, BP!Immediate, B!NoDay, BP!NoDay

(* The broker inside the engine keeps its invariants. *)
Presented == \A k \in Keys : IF B!Known(k) THEN orders[k].intent \in Intents ELSE orders[k] = B!NoOrder
DayNoted  == \A k \in Keys : acceptedDay[k] # B!NoDay => B!Known(k) /\ orders[k].intent.tif = "DAY"

BrokerSound ==
  /\ B!TypeOK /\ Presented
  /\ B!QuantityConserved /\ B!IndexesAgree /\ B!DayOrdersWatched /\ DayNoted

(* What the engine keeps of the broker is what Broker_proofs shows of it. *)
LEMMA SameSound ==
  /\ BrokerSound <=> (/\ BP!TypeOK /\ BP!Presented /\ BP!QuantityConserved /\ BP!IndexesAgree
                      /\ BP!DayInv)
  /\ BrokerSound' <=> (/\ BP!TypeOK' /\ BP!Presented' /\ BP!QuantityConserved' /\ BP!IndexesAgree'
                       /\ BP!DayInv')
<1>1. (Presented <=> BP!Presented) /\ (Presented' <=> BP!Presented')
  BY SameViews DEF Presented, BP!Presented, B!Known, BP!Known
<1>2. (DayNoted <=> BP!DaysOfDayOrders) /\ (DayNoted' <=> BP!DaysOfDayOrders')
  BY SameViews DEF DayNoted, BP!DaysOfDayOrders, B!Known, BP!Known
<1> QED BY <1>1, <1>2, SameBrokerType, SameFacts DEF BrokerSound, BP!DayInv

(* A step of the broker keeps it, by the lemmas of Broker_proofs. *)
LEMMA BrokerStep == BrokerSound /\ [B!Next]_brokerVars => BrokerSound'
<1> SUFFICES ASSUME BrokerSound, [B!Next]_brokerVars PROVE BrokerSound'
  OBVIOUS
<1>1. [BP!Next]_(BP!brokerVars)
  BY SameNext, SameVars
<1>2. BP!TypeOK /\ BP!Presented /\ BP!QuantityConserved /\ BP!IndexesAgree /\ BP!DayInv
  BY SameSound
<1>3. BP!TypeOK'
  BY <1>1, <1>2, BrokerConstants, BP!TypeStep
<1>4. BP!Presented'
  BY <1>1, <1>2, BrokerConstants, BP!PresentedStep
<1>5. BP!QuantityConserved'
  BY <1>1, <1>2, BrokerConstants, BP!QuantityStep
<1>6. BP!IndexesAgree'
  BY <1>1, <1>2, BrokerConstants, BP!IndexesStep
<1>7. BP!DayInv'
  BY <1>1, <1>2, BrokerConstants, BP!DayStep
<1> QED BY <1>3, <1>4, <1>5, <1>6, <1>7, SameSound

(* It holds at first. *)
LEMMA BrokerInit == B!Init => BrokerSound
<1> SUFFICES ASSUME B!Init PROVE BrokerSound
  OBVIOUS
<1>1. BP!Init
  BY SameInit
<1>2. BP!TypeOK
  BY <1>1, BrokerConstants, BP!TypeInit
<1>3. BP!Presented
  BY <1>1 DEF BP!Init, BP!Presented, BP!Known, BP!NoOrder, BP!Created
<1>4. BP!QuantityConserved
  BY <1>1 DEF BP!Init, BP!QuantityConserved, BP!NoOrder, BP!Created, BP!NoIntent, BP!Known
<1>5. BP!IndexesAgree
  BY <1>1 DEF BP!Init, BP!IndexesAgree, BP!IsOpen, BP!OpenStatus, BP!NoOrder, BP!Created
<1>6. BP!DayInv
  BY <1>1 DEF BP!Init, BP!DayInv, BP!DayOrdersWatched, BP!DaysOfDayOrders, BP!NoOrder, BP!Created
<1> QED BY <1>2, <1>3, <1>4, <1>5, <1>6, SameSound

-----------------------------------------------------------------------------
(* What the engine chooses. *)

(* The first order in the broker's order is one of the orders. *)
LEMMA FirstChosen ==
  ASSUME B!TypeOK, NEW S \in SUBSET Keys, S # {}
  PROVE  FirstOf(S) \in S
<1> DEFINE created(k) == orders[k].intent.created
           T == {created(k) : k \in S}
<1>1. \A k \in Keys : created(k) \in Nat
  BY EngineAssumption DEF B!TypeOK, B!Orders, B!NoIntent
<1>2. PICK c \in T : \A d \in T : c <= d
  <2>1. T \in SUBSET Nat /\ T # {}
    BY <1>1
  <2> HIDE DEF T
  <2> QED BY <2>1, LeastExists
<1> DEFINE R == {k \in S : created(k) = c}
<1>3. PICK k \in R : \A j \in R : k <= j
  <2>1. R \in SUBSET Nat /\ R # {}
    BY EngineAssumption
  <2> HIDE DEF R
  <2> QED BY <2>1, LeastExists
<1>4. k \in S /\ k \in Nat /\ created(k) = c
  BY EngineAssumption
<1>5. ASSUME NEW j \in S \ {k} PROVE B!SortsBefore(k, j)
  <2>1. created(j) \in Nat /\ created(k) \in Nat /\ created(k) <= created(j) /\ j \in Nat
    BY <1>1, <1>2, <1>4, EngineAssumption
  <2>2. CASE created(j) = c
    <3>1. j \in R /\ k <= j /\ k # j
      BY <2>2, <1>3
    <3> QED BY <3>1, <2>1, <2>2, <1>4 DEF B!SortsBefore
  <2>3. CASE created(j) # c
    BY <2>1, <2>3, <1>4 DEF B!SortsBefore
  <2> QED BY <2>2, <2>3
<1> QED BY <1>4, <1>5 DEF FirstOf

(* The intent submitted next is one of those on offer. *)
LEMMA OfferChosen ==
  ASSUME offers \subseteq Keys \X Intents, offers # {}
  PROVE  Offer \in offers /\ Offer[1] \in Keys /\ Offer[2] \in Intents
<1> DEFINE T == {o[1] : o \in offers}
<1>1. PICK k \in T : \A j \in T : k <= j
  <2>1. T \in SUBSET Nat /\ T # {}
    <3>1. Keys \subseteq Nat
      BY EngineAssumption
    <3>2. \A o \in offers : o[1] \in Keys
      OBVIOUS
    <3>3. \A j \in T : j \in Nat
      BY <3>1, <3>2
    <3>4. \E j : j \in T
      OBVIOUS
    <3> QED BY <3>3, <3>4
  <2> HIDE DEF T
  <2> QED BY <2>1, LeastExists
<1>2. PICK o \in offers : o[1] = k
  OBVIOUS
<1>3. \A other \in offers : o[1] <= other[1]
  BY <1>1, <1>2
<1>4. Offer \in offers
  BY <1>2, <1>3 DEF Offer
<1> QED BY <1>4

-----------------------------------------------------------------------------
(* The state of the engine's own loop. *)
AnyFill == [key : Keys, quantity : 1..MaxQuantity, price : Prices]
Held    == [left : Nat, original : Nat]
Steps   == {"idle", "check", "match", "commit", "immediate", "runtime", "intents",
            "note", "done", "failed"}

(* The type of every variable that is not the broker's. *)
Typed ==
  /\ market \in [price : Prices \cup {NoPrice}, status : Statuses]
  /\ cashReserved \in [Keys -> Held] /\ positionReserved \in [Keys -> Held]
  /\ cash \in Nat /\ position \in Nat /\ boughtToday \in Nat
  /\ pc \in Steps
  /\ toCheck \subseteq Keys
  /\ pending \in Seq(AnyFill) /\ Len(pending) <= MaxBatch
  /\ offers \subseteq Keys \X Intents

(* Where the loop stands.  Outside the loop's body there is no event yet   *)
(* or none in progress; fills are pending and intents on offer exactly     *)
(* while they are worked off; an intent is stamped with its event's time,  *)
(* and the one whose reservation is to be made was just submitted.         *)
Control ==
  /\ stream = "off"
  /\ event = NoEvent \/ (event.n \in Nat \ {0} /\ event.at \in Times /\ event.day \in Days)
  /\ event = NoEvent => openIds = {} /\ pc \in {"idle", "done", "failed"}
  /\ pc = "commit" <=> pending # <<>>
  /\ pc \in {"intents", "note"} <=> offers # {}
  /\ pc # "check" => toCheck = {}
  /\ \A o \in offers : o[2].created = event.at
  /\ pc = "note" => B!Known(Offer[1]) /\ orders[Offer[1]].intent = Offer[2]

Sound == BrokerSound /\ Typed /\ Control

(* The broker's actions that the engine calls are steps of the broker. *)
LEMMA CallsAreSteps ==
  /\ \A S \in SUBSET Keys, now \in Times : B!ExpireAll(S, now) => B!Next
  /\ \A k \in Keys, i \in Intents : B!Submit(k, i) \/ B!Reject(k, i) => B!Next
  /\ \A f \in FillIds, k \in Keys, q \in 1..MaxQuantity, now \in Times :
       B!ApplyFill(f, k, q, now, FALSE) => B!Next
  /\ \A k \in Keys, d \in Days : B!NoteTradingDay(k, d) => B!Next
  /\ B!Reset => B!Next
BY DEF B!Next

(* A failure is a reset of the broker. *)
LEMMA FailResets == \A reason : Fail(reason) => B!Next
BY CallsAreSteps DEF Fail

(* The fills of a batch are fills of eligible open orders. *)
LEMMA BatchTyped ==
  ASSUME BrokerSound, NEW batch \in Batches
  PROVE  /\ batch \in Seq(AnyFill) /\ Len(batch) <= MaxBatch
         /\ \A n \in DOMAIN batch : batch[n].key \in openIds
         /\ \A k \in openIds : /\ Filling(batch, k) <= B!Remaining(k)
                               /\ orders[k].intent.tif = "FOK" => Filling(batch, k) \in {0, B!Remaining(k)}
<1> DEFINE F == {f \in Fills : WithinLimit(f)}
<1>1. batch \in BoundedSeq(F, MaxBatch)
  BY DEF Batches
<1>2. PICK m \in 0..MaxBatch : batch \in [1..m -> F]
  BY <1>1 DEF BoundedSeq, SeqOf
<1>3. \A f \in F : f \in AnyFill /\ f.key \in openIds
  BY DEF Fills, AnyFill, BrokerSound, B!TypeOK
<1>4. MaxBatch \in Nat
  BY EngineAssumption
<1> HIDE DEF F
<1>5. batch \in [1..m -> AnyFill] /\ m \in Nat /\ m <= MaxBatch
  BY <1>2, <1>3, <1>4
<1>6. batch \in Seq(AnyFill) /\ Len(batch) = m
  BY <1>5
<1>7. \A n \in DOMAIN batch : batch[n].key \in openIds
  BY <1>2, <1>3
<1> QED BY <1>5, <1>6, <1>7 DEF Batches

(* The orders whose fills the risk gate refuses. *)
Refused(batch) ==
  {batch[n].key : n \in {m \in DOMAIN batch :
     ~CheckFill(batch[m].key, orders[batch[m].key].intent.side,
                batch[m].quantity, batch[m].price, cash)}}

(* The refused orders are open. *)
LEMMA RefusedOpen ==
  ASSUME BrokerSound, NEW batch, batch \in Batches \/ batch = <<>>
  PROVE  Refused(batch) \subseteq openIds /\ openIds \subseteq Keys
<1>1. CASE batch \in Batches
  BY <1>1, BatchTyped DEF Refused, BrokerSound, B!TypeOK
<1>2. CASE batch = <<>>
  <2>1. DOMAIN batch = {}
    BY <1>2
  <2> QED BY <2>1 DEF Refused, BrokerSound, B!TypeOK
<1> QED BY <1>1, <1>2

(* Every step of the engine is a step of the broker or leaves it alone. *)
LEMMA EngineStepsBroker == Sound /\ [Next]_vars => [B!Next]_brokerVars
<1> SUFFICES ASSUME Sound, [Next]_vars, ~UNCHANGED brokerVars PROVE B!Next
  BY DEF Sound
<1> USE DEF Sound
<1>1. openIds \in SUBSET Keys /\ dayIds \in SUBSET Keys
  BY DEF BrokerSound, B!TypeOK
<1>2. pc \notin {"idle", "done", "failed"} => event.at \in Times /\ event.day \in Days
  BY DEF Control
<1>3. CASE NextEvent
  <2>1. PICK at \in Times, day \in Days :
          Fail("a DAY order that is not open expired") \/ B!ExpireAll(B!Due(day), at)
    BY <1>3 DEF NextEvent
  <2>2. B!Due(day) \in SUBSET Keys
    BY <1>1 DEF B!Due
  <2> QED BY <2>1, <2>2, FailResets, CallsAreSteps
<1>4. CASE CheckOpenOrder
  <2>1. FirstOf(toCheck) \in Keys /\ pc = "check"
    BY <1>4, FirstChosen DEF CheckOpenOrder, Typed, BrokerSound
  <2>2. B!ExpireAll({FirstOf(toCheck)}, event.at)
    BY <1>4 DEF CheckOpenOrder, ExpireAndRelease
  <2> QED BY <1>2, <2>1, <2>2, CallsAreSteps
<1>5. CASE Match
  <2>1. PICK batch : /\ batch \in Batches \/ batch = <<>>
                     /\ B!ExpireAll(Refused(batch), event.at)
    BY <1>5 DEF Match, ExpireAndRelease, Refused
  <2>2. Refused(batch) \in SUBSET Keys
    BY <2>1, RefusedOpen
  <2> QED BY <1>2, <1>5, <2>1, <2>2, CallsAreSteps DEF Match
<1>6. CASE CommitFill
  <2> DEFINE fill == Head(pending)
  <2>1. fill \in AnyFill
    BY <1>6 DEF CommitFill, Typed, Control
  <2>2. \/ \E reason : Fail(reason)
        \/ \E f \in FillIds : B!ApplyFill(f, fill.key, fill.quantity, event.at, FALSE)
    BY <1>6 DEF CommitFill
  <2>3. fill.key \in Keys /\ fill.quantity \in 1..MaxQuantity
    BY <2>1 DEF AnyFill
  <2> HIDE DEF fill
  <2> QED BY <1>2, <1>6, <2>2, <2>3, FailResets, CallsAreSteps DEF CommitFill
<1>7. CASE ExpireImmediate
  <2>1. {k \in immediateIds : Eligible(k)} \in SUBSET Keys
    BY DEF BrokerSound, B!TypeOK
  <2> QED BY <1>2, <1>7, <2>1, CallsAreSteps DEF ExpireImmediate, ExpireAndRelease
<1>8. CASE RuntimeCheck
  BY <1>1, <1>2, <1>8, CallsAreSteps DEF RuntimeCheck, ExpireAndRelease
<1>9. CASE SubmitOrReject
  <2>1. Offer[1] \in Keys /\ Offer[2] \in Intents
    BY <1>9, OfferChosen DEF SubmitOrReject, Control, Typed
  <2>2. \/ \E reason : Fail(reason)
        \/ B!Submit(Offer[1], Offer[2]) \/ B!Reject(Offer[1], Offer[2])
    BY <1>9 DEF SubmitOrReject
  <2> QED BY <2>1, <2>2, FailResets, CallsAreSteps
<1>10. CASE NoteAndReserve
  <2>1. Offer[1] \in Keys /\ event.day \in Days
    BY <1>2, <1>10, OfferChosen DEF NoteAndReserve, Control, Typed
  <2>2. \/ \E reason : Fail(reason)
        \/ B!NoteTradingDay(Offer[1], event.day)
    BY <1>10 DEF NoteAndReserve
  <2> QED BY <2>1, <2>2, FailResets, CallsAreSteps
<1>11. CASE ComponentRaises
  BY <1>11, FailResets DEF ComponentRaises
<1>12. CASE CheckDone \/ EndOfStream \/ Returned \/ UNCHANGED vars
  BY <1>12 DEF CheckDone, EndOfStream, Returned, vars
<1> QED BY <1>3, <1>4, <1>5, <1>6, <1>7, <1>8, <1>9, <1>10, <1>11, <1>12 DEF Next

-----------------------------------------------------------------------------
(* Typed and Control are kept by every step. *)

(* After a failure the run stands where it started. *)
LEMMA FailSound ==
  ASSUME NEW reason, Fail(reason)
  PROVE  Typed' /\ Control'
<1>1. /\ market' = [price |-> NoPrice, status |-> "open"]
      /\ cashReserved' = [k \in Keys |-> NoReservation] /\ positionReserved' = [k \in Keys |-> NoReservation]
      /\ cash' = InitialCash /\ position' = InitialPosition /\ boughtToday' = 0
      /\ pc' = "failed" /\ event' = NoEvent /\ toCheck' = {} /\ pending' = <<>> /\ offers' = {}
      /\ stream' = "off" /\ openIds' = {}
  BY DEF Fail, B!Reset
<1>2. Len(<<>>) = 0 /\ 0 <= MaxBatch /\ InitialCash \in Nat /\ InitialPosition \in Nat
  BY EngineAssumption
<1>3. Typed'
  BY <1>1, <1>2 DEF Typed, Statuses, Held, NoReservation, Steps
<1>4. Control'
  BY <1>1 DEF Control
<1> QED BY <1>3, <1>4

(* Releasing orders keeps the reservations typed. *)
LEMMA ReleaseTyped ==
  ASSUME Typed, NEW S, ReleaseOrders(S)
  PROVE  cashReserved' \in [Keys -> Held] /\ positionReserved' \in [Keys -> Held]
BY DEF Typed, ReleaseOrders, Released, Held, NoReservation

(* What expiring orders does to the engine's own state, and what it leaves. *)
LEMMA ExpireTyped ==
  ASSUME Typed, NEW S, ExpireAndRelease(S)
  PROVE  /\ cashReserved' \in [Keys -> Held] /\ positionReserved' \in [Keys -> Held]
         /\ UNCHANGED <<market, stream, acceptedDay>>
BY ReleaseTyped DEF ExpireAndRelease, B!ExpireAll

(* A fill releases a part of a reservation. *)
LEMMA AfterFillTyped ==
  ASSUME NEW held \in Held, NEW q \in Nat, NEW ordered \in Nat \ {0}
  PROVE  AfterFill(held, q, ordered) \in Held
<1>1. Fraction(q, ordered) \in Int
  <2>1. q * Precision \in Nat /\ Precision \in Nat
    BY RiskAssumption
  <2> DEFINE n == q * Precision
  <2>2. n \in Nat
    BY <2>1
  <2>3. n \div ordered \in Int /\ n % ordered \in Int
    <3> HIDE DEF n
    <3> QED BY <2>2
  <2> QED BY <2>3 DEF Fraction
<1>2. held.original * Fraction(q, ordered) \in Int
  <2> DEFINE x == Fraction(q, ordered)
             y == held.original
  <2>1. x \in Int /\ y \in Int
    BY <1>1 DEF Held
  <2>2. y * x \in Int
    <3> HIDE DEF x, y
    <3> QED BY <2>1
  <2> QED BY <2>2
<1> DEFINE left == held.left - held.original * Fraction(q, ordered)
<1>3. left \in Int
  BY <1>2 DEF Held
<1>4. AfterFill(held, q, ordered) = IF left <= 0 THEN NoReservation ELSE [held EXCEPT !.left = left]
  BY DEF AfterFill
<1> HIDE DEF left
<1> QED BY <1>3, <1>4 DEF Held, NoReservation

(* A reservation of a natural amount is typed. *)
LEMMA ReserveTyped ==
  ASSUME Typed, NEW k \in Keys, NEW intent \in Intents, Reserve(k, intent)
  PROVE  /\ cashReserved' \in [Keys -> Held] /\ positionReserved' \in [Keys -> Held]
         /\ UNCHANGED market
<1>1. ASSUME NEW amount \in Nat PROVE Reservation(amount) \in Held
  <2>1. amount * Precision \in Nat
    BY RiskAssumption
  <2> QED BY <2>1 DEF Reservation, Held, NoReservation
<1>2. intent.quantity \in Nat /\ intent.limit \in Nat /\ market.price \in Nat
  <2>1. intent.quantity \in 1..MaxQuantity /\ intent.limit \in Prices \cup {NoPrice} /\ MaxQuantity \in Nat
    BY EngineAssumption
  <2>2. market.price \in Prices \cup {NoPrice}
    BY DEF Typed
  <2>3. \A x \in Prices \cup {NoPrice} : x \in Nat
    BY EngineAssumption DEF NoPrice
  <2> QED BY <2>1, <2>2, <2>3
<1>3. IntentPrice(intent) \in Nat
  BY <1>2 DEF IntentPrice
<1>4. \A q, price, rate \in Nat : q * price * (1 + rate) \in Nat
  OBVIOUS
<1>5. CashRequired(intent) \in Nat
  <2>1. Cost(intent.quantity, IntentPrice(intent)) \in Nat
    BY <1>2, <1>3, <1>4, RiskAssumption DEF Cost
  <2> QED BY <2>1 DEF CashRequired
<1>6. PositionRequired(intent) \in Nat
  BY <1>2 DEF PositionRequired
<1>7. Reservation(CashRequired(intent)) \in Held /\ Reservation(PositionRequired(intent)) \in Held
  BY <1>1, <1>5, <1>6
<1> QED BY <1>7 DEF Typed, Reserve

(* The next event. *)
LEMMA NextEventSound ==
  ASSUME Sound, NextEvent
  PROVE  Typed' /\ Control'
<1> USE DEF Sound
<1>1. PICK fact \in Bars \cup StatusEvents, at \in Times, day \in Days : NextEvent!3!(fact, at, day)
  BY DEF NextEvent
<1>2. CASE B!Stuck(day, at) # {}
  BY <1>1, <1>2, FailSound
<1>3. CASE B!Stuck(day, at) = {}
  <2>1. /\ B!ExpireAll(B!Due(day), at) /\ ReleaseOrders(B!Due(day)) /\ Observe(fact)
        /\ boughtToday' = IF day > event.day THEN 0 ELSE boughtToday
        /\ event' = [n |-> event.n + 1, at |-> at, day |-> day, kind |-> fact.kind]
        /\ pc' = "check" /\ toCheck' = openIds'
        /\ UNCHANGED <<cash, position, pending, offers, failure>>
    BY <1>1, <1>3
  <2>2. cashReserved' \in [Keys -> Held] /\ positionReserved' \in [Keys -> Held]
    BY <2>1, ReleaseTyped
  <2>3. market' \in [price : Prices \cup {NoPrice}, status : Statuses]
    <3>1. CASE fact.kind = "status"
      <4>1. fact.status \in Statuses
        BY <3>1 DEF Bars, StatusEvents
      <4> QED BY <2>1, <3>1, <4>1 DEF Observe, Typed
    <3>2. CASE fact.kind # "status"
      <4>1. fact.price \in Prices
        BY <3>2 DEF Bars, StatusEvents
      <4> QED BY <2>1, <3>2, <4>1 DEF Observe, Typed
    <3> QED BY <3>1, <3>2
  <2>4. openIds' \subseteq Keys /\ stream' = stream
    <3>1. openIds' \subseteq openIds
      BY <2>1 DEF B!ExpireAll, B!MoveAll, B!indexes
    <3> QED BY <2>1, <3>1 DEF B!ExpireAll, BrokerSound, B!TypeOK
  <2>5. boughtToday' \in Nat
    BY <2>1 DEF Typed
  <2>6. Typed'
    BY <2>1, <2>2, <2>3, <2>4, <2>5 DEF Typed, Steps
  <2>7. event.n \in Nat
    BY DEF Control, NoEvent
  <2>8. event' # NoEvent /\ event'.n \in Nat \ {0} /\ event'.at \in Times /\ event'.day \in Days
    BY <2>1, <2>7 DEF NoEvent
  <2>9. pending = <<>> /\ offers = {}
    BY DEF NextEvent, Control
  <2>10. Control'
    BY <2>1, <2>4, <2>8, <2>9 DEF Control
  <2> QED BY <2>6, <2>10
<1> QED BY <1>2, <1>3

(* The check of one open order. *)
LEMMA CheckOpenSound ==
  ASSUME Sound, CheckOpenOrder
  PROVE  Typed' /\ Control'
<1> USE DEF Sound
<1>1. /\ pc = "check" /\ toCheck' \subseteq toCheck
      /\ UNCHANGED <<cash, position, boughtToday, pc, event, pending, offers>>
      /\ UNCHANGED <<brokerVars, riskVars>> \/ \E S : ExpireAndRelease(S)
  BY DEF CheckOpenOrder, accountVars
<1>2. /\ cashReserved' \in [Keys -> Held] /\ positionReserved' \in [Keys -> Held]
      /\ UNCHANGED <<market, stream>>
  BY <1>1, ExpireTyped DEF brokerVars, riskVars, Typed
<1>3. Typed'
  BY <1>1, <1>2 DEF Typed
<1>4. event # NoEvent
  BY <1>1 DEF Control
<1>5. Control'
  BY <1>1, <1>2, <1>4 DEF Control
<1> QED BY <1>3, <1>5

(* A turn of the match. *)
LEMMA MatchSound ==
  ASSUME Sound, Match
  PROVE  Typed' /\ Control'
<1> USE DEF Sound
<1>1. PICK batch : /\ batch \in Batches \/ batch = <<>>
                   /\ \/ ExpireAndRelease(Refused(batch)) /\ UNCHANGED <<pc, pending>>
                      \/ /\ pc' = IF batch = <<>> THEN "immediate" ELSE "commit"
                         /\ pending' = batch
                         /\ UNCHANGED <<brokerVars, riskVars>>
  BY DEF Match, Refused
<1>2. pc = "match" /\ UNCHANGED <<cash, position, boughtToday, event, toCheck, offers>>
  BY DEF Match, accountVars
<1>3. /\ cashReserved' \in [Keys -> Held] /\ positionReserved' \in [Keys -> Held]
      /\ UNCHANGED <<market, stream>>
  BY <1>1, ExpireTyped DEF brokerVars, riskVars, Typed
<1>4. pending' \in Seq(AnyFill) /\ Len(pending') <= MaxBatch
  <2>1. CASE batch = <<>>
    <3>1. Len(<<>>) <= MaxBatch /\ <<>> \in Seq(AnyFill)
      BY EngineAssumption
    <3>2. pending' = pending \/ pending' = <<>>
      BY <1>1, <2>1
    <3>3. CASE pending' = <<>>
      BY <3>1, <3>3
    <3>4. CASE pending' = pending
      BY <3>4 DEF Typed
    <3> QED BY <3>2, <3>3, <3>4
  <2>2. CASE batch \in Batches
    BY <1>1, <2>2, BatchTyped DEF Typed
  <2> QED BY <1>1, <2>1, <2>2
<1>5. Typed'
  BY <1>1, <1>2, <1>3, <1>4 DEF Typed, Steps
<1>6. event # NoEvent /\ pending = <<>> /\ offers = {}
  BY <1>2 DEF Control
<1>7. Control'
  BY <1>1, <1>2, <1>3, <1>6 DEF Control
<1> QED BY <1>5, <1>7

(* What committing a fill does when the ledger takes it: the order moves,  *)
(* its reservation shrinks, the account changes and the fill is done.      *)
Committed(fill) ==
  LET intent   == orders[fill.key].intent
      notional == fill.quantity * fill.price
      fee      == notional * FeeRate
  IN  /\ fill = Head(pending) /\ fill.key \in openIds
      /\ B!IsOpen(fill.key) /\ intent \in Intents /\ fill.quantity <= B!Remaining(fill.key)
      /\ \E to \in {"FILLED", "PARTIALLY_FILLED"} : B!MoveAll({fill.key}, to, fill.quantity)
      /\ UNCHANGED <<acceptedDay, stream>>
      /\ ReleaseFill(fill.key, fill.quantity, intent.quantity)
      /\ LedgerRefusal(intent.side, fill.quantity, notional, fee) = NoFailure
      /\ PostFill(intent.side, fill.quantity, notional, fee)
      /\ notional \in Nat /\ fee \in Nat
      /\ pending' = Tail(pending)
      /\ pc' = IF Len(pending) = 1 THEN "immediate" ELSE "commit"
      /\ UNCHANGED <<event, toCheck, offers, failure>>

(* Committing a fill fails or does that.                                   *)
LEMMA CommitEffect ==
  ASSUME Sound, CommitFill
  PROVE  (\E reason : Fail(reason)) \/ (\E fill \in AnyFill : Committed(fill))
<1> USE DEF Sound
<1> SUFFICES ASSUME ~ \E reason : Fail(reason) PROVE \E fill \in AnyFill : Committed(fill)
  OBVIOUS
<1> DEFINE fill     == Head(pending)
           intent   == orders[fill.key].intent
           notional == fill.quantity * fill.price
           fee      == notional * FeeRate
<1>1. fill \in AnyFill
  BY DEF CommitFill, Control, Typed
<1>2. LedgerRefusal(intent.side, fill.quantity, notional, fee) = NoFailure
  BY DEF CommitFill
<1>3. /\ \E f \in FillIds : B!ApplyFill(f, fill.key, fill.quantity, event.at, FALSE)
      /\ ReleaseFill(fill.key, fill.quantity, intent.quantity)
      /\ PostFill(intent.side, fill.quantity, notional, fee)
      /\ pending' = Tail(pending)
      /\ pc' = IF Len(pending) = 1 THEN "immediate" ELSE "commit"
      /\ UNCHANGED <<event, toCheck, offers, failure>>
  BY <1>2 DEF CommitFill
<1>4. fill.key \in Keys /\ fill.quantity \in Nat /\ fill.price \in Nat /\ FeeRate \in Nat
  <2> HIDE DEF fill
  <2>1. fill.key \in Keys /\ fill.quantity \in 1..MaxQuantity /\ fill.price \in Prices
    BY <1>1 DEF AnyFill
  <2>2. MaxQuantity \in Nat /\ Prices \subseteq Nat
    BY EngineAssumption
  <2>3. FeeRate \in Nat
    BY RiskAssumption
  <2>4. \A x \in Nat : \A n \in 1..x : n \in Nat
    OBVIOUS
  <2>5. fill.quantity \in Nat
    BY <2>1, <2>2, <2>4
  <2>6. fill.price \in Nat
    BY <2>1, <2>2
  <2> QED BY <2>1, <2>3, <2>5, <2>6
<1>5. notional \in Nat /\ fee \in Nat
  <2>1. \A a, b \in Nat : a * b \in Nat
    OBVIOUS
  <2>2. notional \in Nat
    BY <1>4, <2>1
  <2> QED BY <1>4, <2>1, <2>2
<1> HIDE DEF fill
<1>6. PICK f \in FillIds : B!ApplyFill(f, fill.key, fill.quantity, event.at, FALSE)
  BY <1>3
<1>7. /\ B!IsOpen(fill.key) /\ fill.quantity <= B!Remaining(fill.key)
      /\ \E to \in {"FILLED", "PARTIALLY_FILLED"} : B!MoveAll({fill.key}, to, fill.quantity)
      /\ UNCHANGED <<acceptedDay, stream>>
  BY <1>6 DEF B!ApplyFill
<1>8. intent \in Intents /\ fill.key \in openIds
  <2>1. B!Known(fill.key)
    BY <1>7 DEF B!IsOpen, B!Known, B!OpenStatus
  <2> QED BY <1>4, <1>7, <2>1 DEF BrokerSound, Presented, B!IndexesAgree
<1>9. Committed(fill)
  BY <1>2, <1>3, <1>5, <1>7, <1>8 DEF Committed, fill
<1> QED BY <1>1, <1>9

(* The commitment of a fill. *)
LEMMA CommitSound ==
  ASSUME Sound, CommitFill
  PROVE  Typed' /\ Control'
<1> USE DEF Sound
<1>1. CASE \E reason : Fail(reason)
  BY <1>1, FailSound
<1>2. CASE \E fill \in AnyFill : Committed(fill)
  <2>1. PICK fill \in AnyFill : Committed(fill)
    BY <1>2
  <2> DEFINE intent   == orders[fill.key].intent
             notional == fill.quantity * fill.price
             fee      == notional * FeeRate
  <2>2. /\ fill.key \in Keys /\ fill.quantity \in Nat /\ intent \in Intents
        /\ intent.side \in {"BUY", "SELL"} /\ intent.quantity \in Nat \ {0}
    BY <2>1, EngineAssumption DEF AnyFill, Committed
  <2>3. cashReserved' \in [Keys -> Held] /\ positionReserved' \in [Keys -> Held] /\ market' = market
    <3>1. cashReserved[fill.key] \in Held /\ positionReserved[fill.key] \in Held
      BY <2>2 DEF Typed
    <3>2. AfterFill(cashReserved[fill.key], fill.quantity, intent.quantity) \in Held
      BY <2>2, <3>1, AfterFillTyped
    <3>3. AfterFill(positionReserved[fill.key], fill.quantity, intent.quantity) \in Held
      BY <2>2, <3>1, AfterFillTyped
    <3> QED BY <2>1, <3>2, <3>3 DEF Committed, ReleaseFill, Typed
  <2>4. cash' \in Nat /\ position' \in Nat /\ boughtToday' \in Nat
    <3>1. /\ LedgerRefusal(intent.side, fill.quantity, notional, fee) = NoFailure
          /\ PostFill(intent.side, fill.quantity, notional, fee)
          /\ notional \in Nat /\ fee \in Nat
      BY <2>1 DEF Committed
    <3>2. cash \in Nat /\ position \in Nat /\ boughtToday \in Nat
      BY DEF Typed
    <3> HIDE DEF notional, fee, intent
    <3>3. CASE intent.side = "BUY"
      <4>1. ~(cash < notional + fee)
        BY <3>1, <3>3 DEF LedgerRefusal, NoFailure
      <4>2. /\ cash' = cash - notional - fee /\ position' = position + fill.quantity
            /\ boughtToday' = boughtToday + fill.quantity
        BY <3>1, <3>3 DEF PostFill
      <4> QED BY <2>2, <3>1, <3>2, <4>1, <4>2
    <3>4. CASE intent.side = "SELL"
      <4>1. ~(position < fill.quantity) /\ ~(cash + notional < fee)
        BY <3>1, <3>4 DEF LedgerRefusal, NoFailure
      <4>2. /\ cash' = cash + notional - fee /\ position' = position - fill.quantity
            /\ boughtToday' = IF position - fill.quantity < boughtToday
                                THEN position - fill.quantity ELSE boughtToday
        BY <3>1, <3>4 DEF PostFill
      <4> QED BY <2>2, <3>1, <3>2, <4>1, <4>2
    <3> QED BY <2>2, <3>3, <3>4 DEF intent
  <2>5. pending \in Seq(AnyFill) /\ pending # <<>> /\ Len(pending) <= MaxBatch
    BY DEF CommitFill, Control, Typed
  <2>6. /\ pending' \in Seq(AnyFill) /\ Len(pending') <= MaxBatch
        /\ pending' = <<>> <=> Len(pending) = 1
    <3>1. MaxBatch \in Nat /\ pending' = Tail(pending)
      BY <2>1, EngineAssumption DEF Committed
    <3>2. Tail(pending) \in Seq(AnyFill) /\ Len(Tail(pending)) = Len(pending) - 1 /\ Len(pending) \in Nat
      BY <2>5
    <3>3. \A t \in Seq(AnyFill) : t = <<>> <=> Len(t) = 0
      OBVIOUS
    <3> QED BY <2>5, <3>1, <3>2, <3>3
  <2>7. /\ pc' = IF Len(pending) = 1 THEN "immediate" ELSE "commit"
        /\ UNCHANGED <<event, toCheck, offers, stream>>
    BY <2>1 DEF Committed
  <2>8. Typed'
    BY <2>3, <2>4, <2>6, <2>7 DEF Typed, Steps
  <2>9. pc = "commit" /\ event # NoEvent /\ offers = {} /\ toCheck = {}
    BY DEF CommitFill, Control
  <2>10. Control'
    BY <2>6, <2>7, <2>9 DEF Control
  <2> QED BY <2>8, <2>10
<1> QED BY <1>1, <1>2, CommitEffect

(* The expiry of immediate orders, and the call of the strategy. *)
LEMMA ImmediateSound ==
  ASSUME Sound, ExpireImmediate \/ RuntimeCheck
  PROVE  Typed' /\ Control'
<1> USE DEF Sound
<1>1. /\ pc \in {"immediate", "runtime"}
      /\ UNCHANGED <<cash, position, boughtToday, event, toCheck, pending>>
      /\ UNCHANGED <<brokerVars, riskVars>> \/ \E S : ExpireAndRelease(S)
  BY DEF ExpireImmediate, RuntimeCheck, accountVars
<1>2. /\ cashReserved' \in [Keys -> Held] /\ positionReserved' \in [Keys -> Held]
      /\ UNCHANGED <<market, stream>>
  BY <1>1, ExpireTyped DEF brokerVars, riskVars, Typed
<1>3. event # NoEvent /\ pending = <<>> /\ offers = {} /\ toCheck = {}
  BY <1>1 DEF Control
<1>4. /\ offers' \subseteq Keys \X Intents
      /\ pc' \in {"runtime", "idle", "intents"} /\ (pc' = "intents" <=> offers' # {})
      /\ \A o \in offers' : o[2].created = event.at
  <2>1. CASE ExpireImmediate
    BY <1>3, <2>1 DEF ExpireImmediate
  <2>2. CASE RuntimeCheck
    <3>1. PICK returned \in Callbacks : offers' = returned /\ pc' = IF returned = {} THEN "idle" ELSE "intents"
      BY <2>2 DEF RuntimeCheck
    <3>2. returned \subseteq Keys \X Intents /\ \A o \in returned : o[2].created = event.at
      BY DEF Callbacks
    <3> QED BY <3>1, <3>2
  <2> QED BY <2>1, <2>2
<1>5. Typed'
  BY <1>1, <1>2, <1>4 DEF Typed, Steps
<1>6. Control'
  BY <1>1, <1>2, <1>3, <1>4 DEF Control
<1> QED BY <1>5, <1>6

(* The submission of an intent. *)
LEMMA SubmitSound ==
  ASSUME Sound, SubmitOrReject
  PROVE  Typed' /\ Control'
<1> USE DEF Sound
<1>0. PICK k, intent : k = Offer[1] /\ intent = Offer[2]
  OBVIOUS
<1>1. pc = "intents" /\ event # NoEvent /\ pending = <<>> /\ toCheck = {} /\ offers # {}
  BY DEF SubmitOrReject, Control
<1>2. Offer \in offers /\ k \in Keys /\ intent \in Intents
  BY <1>0, <1>1, OfferChosen DEF Typed
<1>3. CASE \E reason : Fail(reason)
  BY <1>3, FailSound
<1>4. CASE ~ \E reason : Fail(reason)
  <2>1. /\ B!Known(k) => orders[k].intent = intent
        /\ UNCHANGED <<riskVars, accountVars, event, toCheck, pending, failure>>
        /\ \/ /\ IF B!Known(k) THEN UNCHANGED brokerVars ELSE B!Submit(k, intent)
              /\ pc' = "note" /\ UNCHANGED offers
           \/ /\ IF B!Known(k) THEN UNCHANGED brokerVars ELSE B!Reject(k, intent)
              /\ NextOffer(offers \ {Offer})
    BY <1>0, <1>4 DEF SubmitOrReject
  <2>2. UNCHANGED stream
    BY <2>1 DEF brokerVars, B!Submit, B!Reject
  <2>3. UNCHANGED <<market, cashReserved, positionReserved, cash, position, boughtToday>>
    BY <2>1 DEF riskVars, accountVars
  <2>4. CASE /\ IF B!Known(k) THEN UNCHANGED brokerVars ELSE B!Submit(k, intent)
             /\ pc' = "note" /\ UNCHANGED offers
    <3>1. Typed'
      BY <2>1, <2>3, <2>4 DEF Typed, Steps
    <3>2. B!Known(k)' /\ orders'[k].intent = intent
      <4>1. CASE B!Known(k)
        BY <2>1, <2>4, <4>1 DEF brokerVars, B!Known
      <4>2. CASE ~B!Known(k)
        <5>1. B!Register(k, intent, "ACCEPTED")
          BY <2>4, <4>2 DEF B!Submit
        <5>2. orders'[k] = B!Moved(B!Created(intent), "ACCEPTED", 0)
          BY <1>2, <5>1 DEF B!Register, BrokerSound, B!TypeOK
        <5> QED BY <5>2 DEF B!Moved, B!Created, B!Known
      <4> QED BY <4>1, <4>2
    <3>3. Offer' = Offer
      BY <2>4 DEF Offer
    <3>4. B!Known(Offer[1])' /\ orders'[Offer'[1]].intent = Offer'[2]
      BY <1>0, <3>2, <3>3 DEF B!Known
    <3>5. Control'
      BY <1>1, <2>1, <2>2, <2>4, <3>4 DEF Control
    <3> QED BY <3>1, <3>5
  <2>5. CASE NextOffer(offers \ {Offer})
    <3>1. offers' = offers \ {Offer} /\ pc' = IF offers' = {} THEN "idle" ELSE "intents"
      BY <2>5 DEF NextOffer
    <3>2. Typed'
      BY <2>1, <2>3, <3>1 DEF Typed, Steps
    <3>3. Control'
      BY <1>1, <2>1, <2>2, <3>1 DEF Control
    <3> QED BY <3>2, <3>3
  <2> QED BY <2>1, <2>4, <2>5
<1> QED BY <1>3, <1>4

(* The day and the reservation of the order submitted. *)
LEMMA NoteSound ==
  ASSUME Sound, NoteAndReserve
  PROVE  Typed' /\ Control'
<1> USE DEF Sound
<1> DEFINE k == Offer[1]
           intent == Offer[2]
<1>1. pc = "note" /\ event # NoEvent /\ pending = <<>> /\ toCheck = {} /\ offers # {}
  BY DEF NoteAndReserve, Control
<1>2. Offer \in offers /\ k \in Keys /\ intent \in Intents
  BY <1>1, OfferChosen DEF Typed
<1>3. CASE \E reason : Fail(reason)
  BY <1>3, FailSound
<1>4. CASE ~ \E reason : Fail(reason)
  <2>1. /\ IF intent.tif = "DAY" THEN B!NoteTradingDay(k, event.day) ELSE UNCHANGED brokerVars
        /\ IF B!IsOpen(k) THEN Reserve(k, intent) ELSE UNCHANGED riskVars
        /\ NextOffer(offers \ {Offer})
        /\ UNCHANGED <<accountVars, event, toCheck, pending, failure>>
    BY <1>4 DEF NoteAndReserve
  <2>2. UNCHANGED stream
    BY <2>1 DEF brokerVars, B!NoteTradingDay
  <2>3. offers' = offers \ {Offer} /\ pc' = IF offers' = {} THEN "idle" ELSE "intents"
    BY <2>1 DEF NextOffer
  <2> HIDE DEF k, intent
  <2>4. /\ cashReserved' \in [Keys -> Held] /\ positionReserved' \in [Keys -> Held]
        /\ UNCHANGED market
    <3>1. CASE B!IsOpen(k)
      BY <1>2, <2>1, <3>1, ReserveTyped
    <3>2. CASE ~B!IsOpen(k)
      BY <2>1, <3>2 DEF riskVars, Typed
    <3> QED BY <3>1, <3>2
  <2>5. Typed'
    BY <2>1, <2>3, <2>4 DEF Typed, Steps, accountVars
  <2>6. Control'
    BY <1>1, <2>1, <2>2, <2>3 DEF Control
  <2> QED BY <2>5, <2>6
<1> QED BY <1>3, <1>4

(* Every step of the engine keeps its state, and the broker's, sound. *)
LEMMA SoundStep == Sound /\ [Next]_vars => Sound'
<1> SUFFICES ASSUME Sound, [Next]_vars PROVE Sound'
  OBVIOUS
<1>1. BrokerSound'
  BY EngineStepsBroker, BrokerStep DEF Sound
<1>2. CASE CheckDone \/ EndOfStream
  <2>1. /\ pc' \in Steps /\ pc' \notin {"commit", "intents", "note", "check"}
        /\ pc \notin {"commit", "intents", "note"} /\ toCheck = {}
        /\ event = NoEvent => pc' \in {"idle", "done", "failed"}
    BY <1>2 DEF CheckDone, EndOfStream, Steps, Sound, Control
  <2>2. UNCHANGED <<brokerVars, riskVars, accountVars, event, toCheck, pending, offers, failure>>
    BY <1>2 DEF CheckDone, EndOfStream
  <2>3. Typed'
    BY <2>1, <2>2 DEF Sound, Typed, riskVars, accountVars
  <2>4. Control'
    BY <2>1, <2>2 DEF Sound, Control, brokerVars
  <2> QED BY <1>1, <2>3, <2>4 DEF Sound
<1>3. CASE UNCHANGED vars
  <2>1. UNCHANGED <<market, cashReserved, positionReserved, cash, position, boughtToday, pc,
                    event, toCheck, pending, offers, stream, openIds, orders>>
    BY <1>3 DEF vars, brokerVars, riskVars, accountVars, loopVars
  <2>2. Typed'
    BY <2>1 DEF Sound, Typed
  <2>3. Offer' = Offer
    BY <2>1 DEF Offer
  <2>4. Control'
    BY <2>1, <2>3 DEF Sound, Control, B!Known
  <2> QED BY <1>1, <2>2, <2>4 DEF Sound
<1>4. CASE ComponentRaises
  BY <1>1, <1>4, FailSound DEF Sound, ComponentRaises
<1>5. CASE Next /\ ~(CheckDone \/ EndOfStream \/ ComponentRaises \/ UNCHANGED vars)
  BY <1>1, <1>5, NextEventSound, CheckOpenSound, MatchSound, CommitSound, ImmediateSound,
     SubmitSound, NoteSound DEF Sound, Next, Returned
<1> QED BY <1>2, <1>3, <1>4, <1>5

(* The engine starts sound. *)
LEMMA SoundInit == Init => Sound
<1> SUFFICES ASSUME Init PROVE Sound
  OBVIOUS
<1>1. BrokerSound
  BY BrokerInit DEF Init
<1>2. Len(<<>>) = 0 /\ 0 <= MaxBatch /\ InitialCash \in Nat /\ InitialPosition \in Nat
  BY EngineAssumption
<1>3. Typed
  BY <1>2 DEF Init, Typed, Statuses, Held, NoReservation, Steps
<1>4. Control
  BY DEF Init, B!Init, Control
<1> QED BY <1>1, <1>3, <1>4 DEF Sound

(* In every reachable state the engine and its broker are sound: the       *)
(* inductive invariant the theorems below rest on.                         *)
THEOREM EngineSound == Spec => []Sound
BY SoundInit, SoundStep, PTL DEF Spec

(* Driven by the engine the broker is a broker: every step of a replay is  *)
(* one of the broker's calls or leaves it alone, so that what is proved of *)
(* Broker holds in every replay.                                           *)
THEOREM EngineDrivesBroker == Spec => B!Spec
<1>1. Init => B!Init
  BY DEF Init
<1>2. B!brokerVars = brokerVars /\ B!brokerVars' = brokerVars'
  BY SameVars
<1>3. Sound /\ [Next]_vars => [B!Next]_(B!brokerVars)
  BY <1>2, EngineStepsBroker
<1> QED BY <1>1, <1>3, EngineSound, PTL DEF Spec, B!Spec

(* In every reachable state every variable has its type. *)
THEOREM EngineTypes == Spec => []TypeOK
<1>1. Sound => TypeOK
  <2> SUFFICES ASSUME Sound PROVE TypeOK
    OBVIOUS
  <2>1. \A o \in offers : o[1] \in Keys /\ o[2] \in Intents
    BY DEF Sound, Typed
  <2>2. \A k \in Keys : cashReserved[k].left \in Nat /\ positionReserved[k].left \in Nat
    BY DEF Sound, Typed, Held
  <2>3. market.price \in Prices \cup {NoPrice} /\ market.status \in Statuses
    BY DEF Sound, Typed
  <2> QED BY <2>1, <2>2, <2>3 DEF Sound, Typed, BrokerSound, TypeOK, Steps
<1> QED BY <1>1, EngineSound, PTL

-----------------------------------------------------------------------------
(* What the calls do to the orders. *)

(* The order of k goes on being the same order with as much filled. *)
SameOrder(k) ==
  /\ orders'[k].intent = orders[k].intent /\ orders'[k].filled = orders[k].filled
  /\ B!Known(k)' <=> B!Known(k)

(* Orders close: those of S leave the indexes, nothing else changes.       *)
Close(S) ==
  /\ \A k \in Keys : SameOrder(k)
  /\ openIds' = openIds \ S /\ dayIds' = dayIds \ S /\ immediateIds' = immediateIds \ S
  /\ UNCHANGED <<acceptedDay, event>>

(* Expiring orders leaves what is filled of them. *)
LEMMA ExpireSame ==
  ASSUME B!TypeOK, NEW S \in SUBSET Keys, NEW now, B!ExpireAll(S, now)
  PROVE  \A k \in Keys : SameOrder(k)
<1>1. \A k \in S : orders[k].status \in {"ACCEPTED", "PARTIALLY_FILLED"}
  BY DEF B!ExpireAll, B!Expirable, B!IsOpen, B!OpenStatus
<1>2. \A k \in Keys : orders'[k] = IF k \in S THEN B!Moved(orders[k], "EXPIRED", 0) ELSE orders[k]
  BY DEF B!ExpireAll, B!MoveAll
<1>3. \A k \in Keys : orders[k].filled \in Nat
  BY EngineAssumption DEF B!TypeOK, B!Orders
<1>4. ASSUME NEW k \in Keys PROVE SameOrder(k)
  <2>1. CASE k \in S
    <3>1. orders'[k] = B!Moved(orders[k], "EXPIRED", 0)
      BY <1>2, <2>1
    <3>2. orders'[k].intent = orders[k].intent /\ orders'[k].filled = orders[k].filled + 0
          /\ orders'[k].status = "EXPIRED"
      BY <3>1 DEF B!Moved
    <3> QED BY <3>2, <2>1, <1>1, <1>3 DEF SameOrder, B!Known
  <2>2. CASE k \notin S
    BY <1>2, <2>2 DEF SameOrder, B!Known
  <2> QED BY <2>1, <2>2
<1> QED BY <1>4

(* Expiring orders closes them. *)
LEMMA ExpireCloses ==
  ASSUME B!TypeOK, NEW S \in SUBSET Keys, NEW now, B!ExpireAll(S, now), UNCHANGED event
  PROVE  Close(S)
<1>1. openIds' = openIds \ S /\ dayIds' = dayIds \ S /\ immediateIds' = immediateIds \ S /\ UNCHANGED acceptedDay
  BY DEF B!ExpireAll, B!MoveAll, B!Terminal
<1> QED BY <1>1, ExpireSame DEF Close

(* No change closes nothing. *)
LEMMA UnchangedCloses ==
  ASSUME UNCHANGED brokerVars, UNCHANGED event
  PROVE  Close({})
BY DEF Close, SameOrder, brokerVars, B!Known

(* A committed fill goes to one open order and leaves the others alone.    *)
LEMMA CommitOrders ==
  ASSUME B!TypeOK, NEW fill \in AnyFill, Committed(fill)
  PROVE  /\ \A k \in Keys \ {fill.key} : SameOrder(k)
         /\ LET k == fill.key
            IN  /\ orders'[k].intent = orders[k].intent
                /\ orders'[k].filled = orders[k].filled + fill.quantity
                /\ B!Known(k) /\ B!Known(k)'
         /\ openIds' \subseteq openIds
         /\ orders[fill.key].filled \in Nat /\ fill.quantity \in Nat
<1>1. fill.key \in Keys /\ fill.quantity \in Nat
  BY EngineAssumption DEF AnyFill
<1>2. PICK to \in {"FILLED", "PARTIALLY_FILLED"} : B!MoveAll({fill.key}, to, fill.quantity)
  BY DEF Committed
<1>3. \A k \in Keys : orders'[k] = IF k = fill.key THEN B!Moved(orders[k], to, fill.quantity) ELSE orders[k]
  BY <1>2 DEF B!MoveAll
<1>4. openIds' \subseteq openIds
  BY <1>2 DEF B!MoveAll, B!indexes
<1>5. B!Known(fill.key)
  BY DEF Committed, B!IsOpen, B!Known, B!OpenStatus
<1>6. \A k \in Keys \ {fill.key} : SameOrder(k)
  BY <1>3 DEF SameOrder, B!Known
<1>7. orders'[fill.key] = B!Moved(orders[fill.key], to, fill.quantity)
  BY <1>1, <1>3
<1>8. /\ orders'[fill.key].intent = orders[fill.key].intent
      /\ orders'[fill.key].filled = orders[fill.key].filled + fill.quantity
      /\ orders'[fill.key].status # "CREATED"
  BY <1>7 DEF B!Moved
<1>9. orders[fill.key].filled \in Nat
  <2>1. \A k \in Keys : orders[k].filled \in Nat
    BY EngineAssumption DEF B!TypeOK, B!Orders
  <2> QED BY <1>1, <2>1
<1>10. B!Known(fill.key)'
  <2> PICK k : k = fill.key
    OBVIOUS
  <2>1. B!Known(k)'
    BY <1>8 DEF B!Known
  <2> QED BY <2>1
<1> QED BY <1>1, <1>4, <1>5, <1>6, <1>8, <1>9, <1>10

(* Submitting or rejecting an intent registers it under a key that was not *)
(* known, or changes nothing.                                              *)
LEMMA SubmitOrders ==
  ASSUME Sound, NEW k \in Keys, NEW intent \in Intents,
         \/ IF B!Known(k) THEN UNCHANGED brokerVars ELSE B!Submit(k, intent)
         \/ IF B!Known(k) THEN UNCHANGED brokerVars ELSE B!Reject(k, intent)
  PROVE  /\ \A j \in Keys \ {k} : SameOrder(j)
         /\ openIds' = openIds \/ (openIds' = openIds \cup {k} /\ ~B!Known(k))
         /\ UNCHANGED acceptedDay
         /\ \/ UNCHANGED brokerVars
            \/ /\ orders[k] = B!NoOrder /\ acceptedDay[k] = B!NoDay /\ ~B!Known(k)
               /\ orders'[k].intent = intent /\ orders'[k].filled = 0 /\ B!Known(k)'
<1>1. CASE UNCHANGED brokerVars
  BY <1>1 DEF brokerVars, SameOrder, B!Known
<1>2. CASE ~B!Known(k) /\ (B!Submit(k, intent) \/ B!Reject(k, intent))
  <2>1. PICK to \in {"ACCEPTED", "REJECTED"} : B!Register(k, intent, to)
    BY <1>2 DEF B!Submit, B!Reject
  <2>2. \A j \in Keys : orders'[j] = IF j = k THEN B!Moved(B!Created(intent), to, 0) ELSE orders[j]
    BY <2>1 DEF B!Register, Sound, BrokerSound, B!TypeOK
  <2>3. orders'[k].intent = intent /\ orders'[k].filled = 0 /\ B!Known(k)'
    <3>1. orders'[k] = B!Moved(B!Created(intent), to, 0)
      BY <2>2
    <3> QED BY <3>1 DEF B!Moved, B!Created, B!Known
  <2>4. orders[k] = B!NoOrder /\ acceptedDay[k] = B!NoDay
    BY <1>2 DEF Sound, BrokerSound, Presented, DayNoted
  <2>5. \A j \in Keys \ {k} : SameOrder(j)
    BY <2>2 DEF SameOrder, B!Known
  <2>6. UNCHANGED acceptedDay /\ (openIds' = openIds \/ openIds' = openIds \cup {k})
    BY <1>2 DEF B!Submit, B!Reject
  <2> QED BY <1>2, <2>3, <2>4, <2>5, <2>6
<1> QED BY <1>1, <1>2

(* Noting a trading day leaves the orders alone. *)
LEMMA NoteOrders ==
  ASSUME NEW k, NEW d, B!NoteTradingDay(k, d) \/ UNCHANGED brokerVars
  PROVE  (\A j \in Keys : SameOrder(j)) /\ UNCHANGED <<orders, openIds>>
BY DEF B!NoteTradingDay, brokerVars, SameOrder, B!Known

(* A failure clears the orders. *)
LEMMA FailOrders ==
  ASSUME NEW reason, Fail(reason)
  PROVE  /\ openIds' = {} /\ pending' = <<>> /\ position' = InitialPosition /\ pc' = "failed"
         /\ \A k \in Keys : ~B!Known(k)' /\ orders'[k] = B!NoOrder
BY DEF Fail, B!Reset, B!Known, B!NoOrder, B!Created

(* The steps that close orders or change nothing about them: all but the   *)
(* next event, a commitment, a submission and its completion.              *)
Closing == CheckOpenOrder \/ CheckDone \/ Match \/ ExpireImmediate \/ RuntimeCheck
           \/ EndOfStream \/ UNCHANGED vars

(* A closing step expires some orders or none. *)
LEMMA ClosingCloses ==
  ASSUME Sound, Closing
  PROVE  \E S \in SUBSET Keys : Close(S)
<1>1. {} \in SUBSET Keys /\ openIds \in SUBSET Keys /\ immediateIds \in SUBSET Keys /\ B!TypeOK
  BY DEF Sound, BrokerSound, B!TypeOK
<1>2. UNCHANGED event
  BY DEF Closing, CheckOpenOrder, CheckDone, Match, ExpireImmediate, RuntimeCheck, EndOfStream,
     vars, loopVars
<1>3. CASE UNCHANGED brokerVars
  BY <1>1, <1>2, <1>3, UnchangedCloses
<1>4. ASSUME NEW S \in SUBSET Keys, ExpireAndRelease(S) PROVE \E R \in SUBSET Keys : Close(R)
  BY <1>1, <1>2, <1>4, ExpireCloses DEF ExpireAndRelease
<1>5. CASE CheckOpenOrder
  <2>1. FirstOf(toCheck) \in Keys
    BY <1>1, <1>5, FirstChosen DEF CheckOpenOrder, Sound, Typed
  <2>2. ExpireAndRelease({FirstOf(toCheck)}) \/ UNCHANGED brokerVars
    BY <1>5 DEF CheckOpenOrder
  <2> QED BY <2>1, <2>2, <1>3, <1>4
<1>6. CASE Match
  <2>1. PICK batch : /\ batch \in Batches \/ batch = <<>>
                     /\ ExpireAndRelease(Refused(batch)) \/ UNCHANGED brokerVars
    BY <1>6 DEF Match, Refused
  <2>2. Refused(batch) \in SUBSET Keys
    BY <2>1, RefusedOpen DEF Sound
  <2> QED BY <2>1, <2>2, <1>3, <1>4
<1>7. CASE ExpireImmediate
  BY <1>1, <1>4, <1>7 DEF ExpireImmediate
<1>8. CASE RuntimeCheck
  BY <1>1, <1>3, <1>4, <1>8 DEF RuntimeCheck
<1>9. CASE CheckDone \/ EndOfStream \/ UNCHANGED vars
  BY <1>3, <1>9 DEF CheckDone, EndOfStream, vars
<1> QED BY <1>5, <1>6, <1>7, <1>8, <1>9 DEF Closing

-----------------------------------------------------------------------------
(* What the pending fills fill. *)

(* No fills fill nothing. *)
LEMMA FillingEmpty == \A k : Filling(<<>>, k) = 0
<1> SUFFICES ASSUME NEW k PROVE Filling(<<>>, k) = 0
  OBVIOUS
<1> DEFINE F == [n \in DOMAIN <<>> |-> IF <<>>[n].key = k THEN <<>>[n].quantity ELSE 0]
<1>1. DOMAIN F = {}
  OBVIOUS
<1>2. Filling(<<>>, k) = SumFunctionOnSet(F, DOMAIN F)
  BY DEF Filling, SumFunction
<1> HIDE DEF F
<1> QED BY <1>1, <1>2, SumEmpty

(* The first fill and the others. *)
LEMMA FillingTail ==
  ASSUME NEW p \in Seq(AnyFill), p # <<>>, NEW k
  PROVE  /\ Filling(p, k) = (IF Head(p).key = k THEN Head(p).quantity ELSE 0) + Filling(Tail(p), k)
         /\ Filling(Tail(p), k) \in Nat
<1> DEFINE t == Tail(p)
           F == [n \in DOMAIN p |-> IF p[n].key = k THEN p[n].quantity ELSE 0]
           G == [n \in DOMAIN t |-> IF t[n].key = k THEN t[n].quantity ELSE 0]
<1>1. Len(p) \in Nat \ {0} /\ DOMAIN p = 1..Len(p) /\ Head(p) = p[1]
  OBVIOUS
<1>2. t \in Seq(AnyFill) /\ Len(t) = Len(p) - 1 /\ \A n \in 1..Len(t) : t[n] = p[n + 1]
  BY HeadTailProperties
<1>3. PICK N \in Nat : Len(p) = N + 1
  <2>1. Len(p) - 1 \in Nat /\ Len(p) = (Len(p) - 1) + 1
    BY <1>1
  <2> QED BY <2>1
<1>4. Len(t) = N /\ DOMAIN p = 1..(N + 1)
  BY <1>1, <1>2, <1>3
<1> HIDE DEF t
<1>5. DOMAIN t = 1..N
  BY <1>2, <1>4, LenProperties
<1>6. \A x \in AnyFill : x.quantity \in Nat
  BY EngineAssumption DEF AnyFill
<1>7. \A n \in 1..(N + 1) : F[n] \in Nat
  BY <1>4, <1>6
<1>8. \A n \in 1..N : G[n] = F[n + 1] /\ G[n] \in Nat
  <2>1. \A n \in 1..N : n + 1 \in 1..(N + 1) /\ t[n] = p[n + 1]
    BY <1>2, <1>4
  <2> QED BY <1>2, <1>4, <1>5, <1>6, <2>1
<1>9. DOMAIN F = 1..(N + 1) /\ DOMAIN G = 1..N
  BY <1>4, <1>5
<1>10. Filling(p, k) = SumFunctionOnSet(F, 1..(N + 1)) /\ Filling(t, k) = SumFunctionOnSet(G, 1..N)
  BY <1>9 DEF Filling, SumFunction
<1>11. F[1] = IF Head(p).key = k THEN Head(p).quantity ELSE 0
  <2>1. 1 \in 1..(N + 1)
    OBVIOUS
  <2> QED BY <1>1, <1>4, <2>1
<1> HIDE DEF F, G
<1>12. SumFunctionOnSet(F, 1..(N + 1)) = F[1] + SumFunctionOnSet(G, 1..N)
  BY <1>7, <1>8, SumShift
<1>13. SumFunctionOnSet(G, 1..N) \in Nat
  <2>1. IsFiniteSet(1..N) /\ \A n \in 1..N : G[n] \in Nat
    BY <1>8, FS_Interval
  <2> QED BY <2>1, SumNat
<1> QED BY <1>10, <1>11, <1>12, <1>13 DEF t

(* A batch fills nothing of an order it has no fill of. *)
LEMMA FillingNone ==
  ASSUME NEW p \in Seq(AnyFill), NEW k, \A n \in DOMAIN p : p[n].key # k
  PROVE  Filling(p, k) = 0
<1> DEFINE F == [n \in DOMAIN p |-> IF p[n].key = k THEN p[n].quantity ELSE 0]
<1>1. IsFiniteSet(DOMAIN p)
  <2>1. DOMAIN p = 1..Len(p) /\ Len(p) \in Nat
    OBVIOUS
  <2> QED BY <2>1, FS_Interval
<1>2. DOMAIN F = DOMAIN p /\ \A n \in DOMAIN p : F[n] = 0
  OBVIOUS
<1>3. Filling(p, k) = SumFunctionOnSet(F, DOMAIN F)
  BY DEF Filling, SumFunction
<1> HIDE DEF F
<1> QED BY <1>1, <1>2, <1>3, SumZero

-----------------------------------------------------------------------------
(* Nothing is matched that the market refuses. *)

(* While the open orders are checked, those checked already can be traded; *)
(* then all of them can, until the event is matched.                       *)
RefusedInv ==
  pc \in {"check", "match", "commit"} => \A k \in openIds \ toCheck : Tradable(orders[k].intent)

(* The checks and the match keep it so. *)
LEMMA RefusedStep == Sound /\ RefusedInv /\ [Next]_vars => RefusedInv'
<1> SUFFICES ASSUME Sound, RefusedInv, [Next]_vars, pc' \in {"check", "match", "commit"},
                    NEW k \in openIds', k \notin toCheck'
             PROVE  Tradable(orders[k].intent)'
  BY DEF RefusedInv
<1>1. ASSUME orders'[k].intent = orders[k].intent, UNCHANGED market, Tradable(orders[k].intent)
      PROVE  Tradable(orders[k].intent)'
  BY <1>1 DEF Tradable
<1>2. openIds \subseteq Keys
  BY DEF Sound, BrokerSound, B!TypeOK
<1>3. CASE NextEvent
  <2>1. toCheck' = openIds'
    BY <1>3 DEF NextEvent, Fail
  <2> QED BY <2>1
<1>4. CASE CheckOpenOrder
  <2>1. PICK S \in SUBSET Keys : Close(S)
    BY <1>4, ClosingCloses DEF Closing
  <2>2. k \in openIds /\ k \in Keys /\ orders'[k].intent = orders[k].intent
    BY <1>2, <2>1 DEF Close, SameOrder
  <2>3. UNCHANGED market
    BY <1>4 DEF CheckOpenOrder, ExpireAndRelease, riskVars
  <2> DEFINE first == FirstOf(toCheck)
  <2>4. toCheck' = toCheck \ {first} /\ pc = "check"
    BY <1>4 DEF CheckOpenOrder
  <2>5. CASE k \notin toCheck
    BY <1>1, <2>2, <2>3, <2>4, <2>5 DEF RefusedInv
  <2>6. CASE k \in toCheck
    <3>1. k = first
      BY <2>4, <2>6
    <3>2. CASE ExpireAndRelease({first})
      <4>1. openIds' = openIds \ {first}
        BY <3>2 DEF ExpireAndRelease, B!ExpireAll, B!MoveAll, B!Terminal
      <4> QED BY <3>1, <4>1
    <3>3. CASE ~ExpireAndRelease({first})
      <4> DEFINE remaining == [orders[k].intent EXCEPT !.quantity = B!Remaining(k)]
      <4>1. Check(k, remaining, cash, position, boughtToday)
        BY <1>4, <3>1, <3>3 DEF CheckOpenOrder
      <4>2. orders[k].intent \in Intents
        <5>1. B!Known(k)
          BY <2>2 DEF Sound, BrokerSound, B!IndexesAgree, B!IsOpen, B!Known, B!OpenStatus
        <5> QED BY <2>2, <5>1 DEF Sound, BrokerSound, Presented
      <4>3. remaining.side = orders[k].intent.side
        <5>1. orders[k].intent \in [tif : {"DAY", "GTC", "IOC", "FOK"}, side : {"BUY", "SELL"},
                        limit : Prices \cup {NoPrice}, quantity : 1..MaxQuantity, created : Nat]
          BY <4>2, EngineAssumption
        <5> QED BY <5>1
      <4>4. Tradable(remaining)
        BY <4>1 DEF Check
      <4>5. Tradable(orders[k].intent)
        BY <4>3, <4>4 DEF Tradable
      <4> QED BY <1>1, <2>2, <2>3, <4>5
    <3> QED BY <3>2, <3>3
  <2> QED BY <2>5, <2>6
<1>5. CASE CheckDone \/ Match \/ UNCHANGED vars
  <2>1. PICK S \in SUBSET Keys : Close(S)
    BY <1>5, ClosingCloses DEF Closing
  <2>2. k \in openIds /\ k \in Keys /\ orders'[k].intent = orders[k].intent
    BY <1>2, <2>1 DEF Close, SameOrder
  <2>3. UNCHANGED <<market, toCheck>> /\ pc \in {"check", "match", "commit"}
    BY <1>5 DEF CheckDone, Match, ExpireAndRelease, riskVars, vars, loopVars
  <2> QED BY <1>1, <2>2, <2>3 DEF RefusedInv
<1>6. CASE CommitFill
  <2>1. PICK fill \in AnyFill : Committed(fill)
    BY <1>6, CommitEffect DEF Fail
  <2>2. k \in openIds /\ k \in Keys
    BY <1>2, <2>1, CommitOrders DEF Sound, BrokerSound
  <2>3. orders'[k].intent = orders[k].intent
    BY <2>1, <2>2, CommitOrders DEF Sound, BrokerSound, SameOrder
  <2>4. UNCHANGED <<market, toCheck>> /\ pc = "commit"
    BY <1>6, <2>1 DEF Committed, ReleaseFill, CommitFill
  <2> QED BY <1>1, <2>2, <2>3, <2>4 DEF RefusedInv
<1>7. CASE ExpireImmediate \/ RuntimeCheck \/ SubmitOrReject \/ NoteAndReserve \/ ComponentRaises
           \/ EndOfStream
  BY <1>7 DEF ExpireImmediate, RuntimeCheck, SubmitOrReject, NoteAndReserve, NextOffer,
              ComponentRaises, EndOfStream, Fail
<1> QED BY <1>3, <1>4, <1>5, <1>6, <1>7 DEF Next, Returned

(* By the time orders meet an event, no open order is on a side that the   *)
(* present state of the market closes (_pre_match's check of every open    *)
(* order against the market as it is now).                                 *)
THEOREM RefusedNeverMatched == Spec => []RefusedNotMatched
<1>1. Init => RefusedInv
  BY DEF Init, RefusedInv
<1>2. Sound /\ RefusedInv => RefusedNotMatched
  BY DEF Sound, Control, RefusedInv, RefusedNotMatched
<1> QED BY <1>1, <1>2, RefusedStep, EngineSound, PTL DEF Spec

-----------------------------------------------------------------------------
(* DAY orders and their session. *)

(* An open DAY order was accepted on the day of the event, or is the one   *)
(* just submitted, whose day is about to be noted.                         *)
InSession(k) ==
  orders[k].intent.tif = "DAY" =>
    acceptedDay[k] = event.day \/ (k \in BeingReserved /\ acceptedDay[k] = B!NoDay)

SessionInv == \A k \in openIds : InSession(k)

(* Every step keeps the open DAY orders in their session. *)
LEMMA SessionStep == Sound /\ SessionInv /\ [Next]_vars => SessionInv'
<1> SUFFICES ASSUME Sound, SessionInv, [Next]_vars, NEW k \in openIds'
             PROVE  InSession(k)'
  BY DEF SessionInv
<1>1. openIds \subseteq Keys
  BY DEF Sound, BrokerSound, B!TypeOK
<1>2. CASE NextEvent
  <2>1. PICK fact \in Bars \cup StatusEvents, at \in Times, day \in Days : NextEvent!3!(fact, at, day)
    BY <1>2 DEF NextEvent
  <2>2. CASE B!Stuck(day, at) # {}
    BY <2>1, <2>2, FailOrders
  <2>3. CASE B!Stuck(day, at) = {}
    <3>1. B!ExpireAll(B!Due(day), at) /\ event'.day = day /\ day >= event.day
      BY <2>1, <2>3
    <3>2. openIds' = openIds \ B!Due(day) /\ UNCHANGED acceptedDay
      BY <3>1 DEF B!ExpireAll, B!MoveAll, B!Terminal
    <3>3. k \in openIds /\ k \in Keys /\ k \notin B!Due(day)
      BY <1>1, <3>2
    <3>4. orders'[k].intent = orders[k].intent
      <4>1. orders'[k] = orders[k]
        BY <3>1, <3>3 DEF B!ExpireAll, B!MoveAll
      <4> QED BY <4>1
    <3>5. SUFFICES ASSUME orders[k].intent.tif = "DAY" PROVE acceptedDay[k] = day
      BY <3>1, <3>2, <3>4 DEF InSession
    <3>6. event # NoEvent /\ event.day \in Days
      BY <3>3 DEF Sound, Control
    <3>7. BeingReserved = {}
      BY <1>2 DEF NextEvent, BeingReserved
    <3>8. acceptedDay[k] = event.day
      BY <3>3, <3>5, <3>7 DEF SessionInv, InSession
    <3>9. acceptedDay[k] # B!NoDay /\ event.day \in Nat /\ day \in Nat
      BY <3>6, <3>8, EngineAssumption DEF B!NoDay
    <3>10. k \in dayIds
      BY <3>3, <3>9 DEF Sound, BrokerSound, B!DayOrdersWatched
    <3>11. ~(day > event.day)
      BY <3>3, <3>8, <3>9, <3>10 DEF B!Due
    <3> QED BY <3>1, <3>8, <3>9, <3>11
  <2> QED BY <2>2, <2>3
<1>3. CASE CommitFill
  <2>1. CASE \E reason : Fail(reason)
    BY <2>1, FailOrders
  <2>2. CASE \E fill \in AnyFill : Committed(fill)
    <3>1. PICK fill \in AnyFill : Committed(fill)
      BY <2>2
    <3>2. k \in openIds /\ orders'[k].intent = orders[k].intent
      BY <1>1, <3>1, CommitOrders DEF Sound, BrokerSound, SameOrder
    <3>3. UNCHANGED <<event, acceptedDay>> /\ BeingReserved = {}
      BY <1>3, <3>1 DEF Committed, CommitFill, BeingReserved
    <3> QED BY <3>2, <3>3 DEF SessionInv, InSession
  <2> QED BY <1>3, <2>1, <2>2, CommitEffect
<1>4. CASE SubmitOrReject
  <2>1. CASE \E reason : Fail(reason)
    BY <2>1, FailOrders
  <2>2. CASE ~ \E reason : Fail(reason)
    <3>1. PICK j, intent : j = Offer[1] /\ intent = Offer[2]
      OBVIOUS
    <3>2. j \in Keys /\ intent \in Intents
      BY <1>4, <3>1, OfferChosen DEF SubmitOrReject, Sound, Control, Typed
    <3>3. /\ \/ /\ IF B!Known(j) THEN UNCHANGED brokerVars ELSE B!Submit(j, intent)
                /\ pc' = "note" /\ UNCHANGED offers
             \/ IF B!Known(j) THEN UNCHANGED brokerVars ELSE B!Reject(j, intent)
          /\ UNCHANGED event
      BY <1>4, <2>2, <3>1 DEF SubmitOrReject
    <3>4. /\ \A i \in Keys \ {j} : SameOrder(i)
          /\ openIds' = openIds \/ (openIds' = openIds \cup {j} /\ ~B!Known(j))
          /\ UNCHANGED acceptedDay
          /\ \/ UNCHANGED brokerVars
             \/ orders[j] = B!NoOrder /\ acceptedDay[j] = B!NoDay /\ ~B!Known(j)
      BY <3>2, <3>3, SubmitOrders
    <3>5. BeingReserved = {}
      BY <1>4 DEF SubmitOrReject, BeingReserved
    <3>6. CASE k \in openIds
      <4>1. B!Known(k)
        BY <3>6 DEF Sound, BrokerSound, B!IndexesAgree, B!IsOpen, B!Known, B!OpenStatus
      <4>2. orders'[k].intent = orders[k].intent
        BY <1>1, <3>4, <3>6, <4>1 DEF brokerVars, SameOrder
      <4>3. orders[k].intent.tif = "DAY" => acceptedDay[k] = event.day
        BY <3>5, <3>6 DEF SessionInv, InSession
      <4> QED BY <3>3, <3>4, <4>2, <4>3 DEF InSession
    <3>7. CASE k \notin openIds
      <4>1. k = j /\ ~B!Known(j) /\ openIds' # openIds
        BY <3>4, <3>7
      <4>2. acceptedDay'[k] = B!NoDay
        BY <3>4, <4>1 DEF brokerVars
      <4>3. pc' = "note" /\ UNCHANGED offers
        BY <3>3, <4>1 DEF B!Reject
      <4>4. BeingReserved' = {j}
        BY <3>1, <4>3 DEF BeingReserved, Offer
      <4> QED BY <4>1, <4>2, <4>4 DEF InSession
    <3> QED BY <3>6, <3>7
  <2> QED BY <2>1, <2>2
<1>5. CASE NoteAndReserve
  <2>1. CASE \E reason : Fail(reason)
    BY <2>1, FailOrders
  <2>2. CASE ~ \E reason : Fail(reason)
    <3>1. PICK j, intent : j = Offer[1] /\ intent = Offer[2]
      OBVIOUS
    <3>2. j \in Keys /\ orders[j].intent = intent /\ BeingReserved = {j}
      BY <1>5, <3>1, OfferChosen DEF NoteAndReserve, Sound, Control, Typed, BeingReserved
    <3>3. /\ IF intent.tif = "DAY" THEN B!NoteTradingDay(j, event.day) ELSE UNCHANGED brokerVars
          /\ UNCHANGED event
      BY <1>5, <2>2, <3>1 DEF NoteAndReserve
    <3>4. UNCHANGED <<orders, openIds>>
      BY <3>3 DEF B!NoteTradingDay, brokerVars
    <3>5. orders[k].intent.tif = "DAY" =>
            acceptedDay[k] = event.day \/ (k = j /\ acceptedDay[k] = B!NoDay)
      BY <3>2, <3>4 DEF SessionInv, InSession
    <3>6. orders[k].intent.tif = "DAY" => acceptedDay'[k] = event.day
      <4>1. CASE intent.tif = "DAY"
        <5>1. acceptedDay' = IF acceptedDay[j] = B!NoDay THEN [acceptedDay EXCEPT ![j] = event.day]
                                                         ELSE acceptedDay
          BY <3>3, <4>1 DEF B!NoteTradingDay
        <5>2. acceptedDay \in [Keys -> Days \cup {B!NoDay}] /\ k \in Keys
          BY <1>1, <3>4 DEF Sound, BrokerSound, B!TypeOK
        <5> QED BY <3>2, <3>5, <5>1, <5>2
      <4>2. CASE intent.tif # "DAY"
        BY <3>2, <3>3, <3>5, <4>2 DEF brokerVars
      <4> QED BY <4>1, <4>2
    <3> QED BY <3>3, <3>4, <3>6 DEF InSession
  <2> QED BY <2>1, <2>2
<1>6. CASE ComponentRaises
  BY <1>6, FailOrders DEF ComponentRaises
<1>7. CASE Closing
  <2>1. PICK S \in SUBSET Keys : Close(S)
    BY <1>7, ClosingCloses
  <2>2. k \in openIds /\ orders'[k].intent = orders[k].intent /\ UNCHANGED <<acceptedDay, event>>
    BY <1>1, <2>1 DEF Close, SameOrder
  <2>3. BeingReserved' = BeingReserved
    <3>1. CASE UNCHANGED vars
      BY <3>1 DEF vars, loopVars, BeingReserved, Offer
    <3>2. CASE pc # "note" /\ pc' # "note"
      BY <3>2 DEF BeingReserved
    <3> QED BY <1>7, <3>1, <3>2 DEF Closing, CheckOpenOrder, CheckDone, Match, ExpireImmediate,
                                   RuntimeCheck, EndOfStream
  <2> QED BY <2>2, <2>3 DEF SessionInv, InSession
<1> QED BY <1>2, <1>3, <1>4, <1>5, <1>6, <1>7 DEF Next, Returned, Closing

(* No DAY order lives into another session: expire_day_orders at the first *)
(* event of a day finds every open DAY order of the days before, although  *)
(* the day is noted by a call of its own after the submission.             *)
THEOREM SessionAlwaysHonoured == Spec => []SessionHonoured
<1>1. Init => SessionInv
  BY DEF Init, B!Init, SessionInv
<1>2. SessionInv => SessionHonoured
  BY DEF SessionInv, InSession, SessionHonoured
<1> QED BY <1>1, <1>2, SessionStep, EngineSound, PTL DEF Spec

-----------------------------------------------------------------------------
(* IOC and FOK orders are one shot. *)

(* Once the immediate orders that were eligible are expired, the open ones *)
(* wait for a later event; a new one is stamped with the present event.    *)
Waiting(k) ==
  orders[k].intent.tif \in B!Immediate =>
    /\ pc = "runtime" => ~Eligible(k)
    /\ pc \in {"intents", "note", "idle", "done"} => orders[k].intent.created + Latency >= event.at

(* With what the pending fills will fill, a FOK order is filled in full or *)
(* not at all.                                                             *)
Whole(k) ==
  orders[k].intent.tif = "FOK" =>
    orders[k].filled + Filling(pending, k) \in {0, orders[k].intent.quantity}

OneShotInv == (\A k \in openIds : Waiting(k)) /\ (\A k \in Keys : Whole(k))

(* Instants and latencies are numbers. *)
LEMMA Clock ==
  ASSUME Sound
  PROVE  /\ event.at \in Nat /\ Latency \in Nat
         /\ \A k \in Keys : orders[k].intent.created \in Nat /\ orders[k].filled \in Nat
                            /\ orders[k].intent.quantity \in Nat
         /\ openIds \subseteq Keys
<1>1. event.at \in Nat
  <2>1. CASE event = NoEvent
    BY <2>1 DEF NoEvent
  <2>2. CASE event # NoEvent
    <3>1. event.at \in Times
      BY <2>2 DEF Sound, Control
    <3>2. Times \subseteq Nat
      BY EngineAssumption
    <3> QED BY <3>1, <3>2
  <2> QED BY <2>1, <2>2
<1>2. \A k \in Keys : orders[k].intent \in Intents \cup {B!NoIntent} /\ orders[k].filled \in 0..MaxQuantity
  BY DEF Sound, BrokerSound, B!TypeOK, B!Orders
<1>3. \A i \in Intents \cup {B!NoIntent} : i.created \in Nat /\ i.quantity \in Nat
  BY EngineAssumption DEF B!NoIntent
<1>4. MaxQuantity \in Nat /\ Latency \in Nat
  BY EngineAssumption
<1> QED BY <1>1, <1>2, <1>3, <1>4 DEF Sound, BrokerSound, B!TypeOK

(* Every step keeps the open immediate orders waiting. *)
LEMMA WaitingStep == Sound /\ OneShotInv /\ [Next]_vars => \A k \in openIds' : Waiting(k)'
<1> SUFFICES ASSUME Sound, OneShotInv, [Next]_vars, NEW k \in openIds',
                    pc' \in {"runtime", "intents", "note", "idle", "done"}
             PROVE  Waiting(k)'
  BY DEF Waiting
<1>1. openIds \subseteq Keys /\ event.at \in Nat /\ Latency \in Nat
  BY Clock
<1>2. ASSUME k \in openIds PROVE orders[k].intent.created \in Nat /\ Waiting(k)
  BY <1>1, <1>2, Clock DEF OneShotInv
<1>3. CASE ExpireImmediate
  <2> DEFINE S == {j \in immediateIds : Eligible(j)}
  <2>1. B!ExpireAll(S, event.at) /\ UNCHANGED event /\ pc' = "runtime"
    BY <1>3 DEF ExpireImmediate, ExpireAndRelease
  <2>2. S \in SUBSET Keys /\ B!TypeOK
    BY DEF Sound, BrokerSound, B!TypeOK
  <2> HIDE DEF S
  <2>3. Close(S)
    BY <2>1, <2>2, ExpireCloses
  <2>4. k \in openIds /\ k \notin S /\ orders'[k].intent = orders[k].intent
    BY <1>1, <2>3 DEF Close, SameOrder
  <2>5. orders[k].intent.tif \in B!Immediate => ~Eligible(k)
    BY <2>4 DEF S, Sound, BrokerSound, B!IndexesAgree
  <2> QED BY <2>1, <2>4, <2>5 DEF Waiting, Eligible
<1>4. CASE RuntimeCheck \/ EndOfStream \/ UNCHANGED vars
  <2>1. PICK S \in SUBSET Keys : Close(S)
    BY <1>4, ClosingCloses DEF Closing
  <2>2. k \in openIds /\ orders'[k].intent = orders[k].intent /\ UNCHANGED event
    BY <1>1, <2>1 DEF Close, SameOrder
  <2>3. Waiting(k) /\ orders[k].intent.created \in Nat
    BY <1>2, <2>2
  <2>4. CASE RuntimeCheck
    <3>1. pc = "runtime" /\ pc' # "runtime"
      BY <2>4 DEF RuntimeCheck
    <3>2. orders[k].intent.tif \in B!Immediate => orders[k].intent.created + Latency >= event.at
      BY <1>1, <2>3, <3>1 DEF Waiting, Eligible
    <3> QED BY <2>2, <3>1, <3>2 DEF Waiting
  <2>5. CASE EndOfStream
    BY <2>2, <2>3, <2>5 DEF EndOfStream, Waiting
  <2>6. CASE UNCHANGED vars
    BY <2>2, <2>3, <2>6 DEF vars, loopVars, Waiting, Eligible
  <2> QED BY <1>4, <2>4, <2>5, <2>6
<1>5. CASE SubmitOrReject /\ ~ \E reason : Fail(reason)
  <2>1. PICK j, intent : j = Offer[1] /\ intent = Offer[2]
    OBVIOUS
  <2>2. j \in Keys /\ intent \in Intents /\ Offer \in offers
    BY <1>5, <2>1, OfferChosen DEF SubmitOrReject, Sound, Control, Typed
  <2>3. /\ \/ IF B!Known(j) THEN UNCHANGED brokerVars ELSE B!Submit(j, intent)
           \/ IF B!Known(j) THEN UNCHANGED brokerVars ELSE B!Reject(j, intent)
        /\ UNCHANGED event /\ pc = "intents" /\ pc' # "runtime"
    BY <1>5, <2>1 DEF SubmitOrReject, NextOffer
  <2>4. /\ \A i \in Keys \ {j} : SameOrder(i)
        /\ openIds' = openIds \/ (openIds' = openIds \cup {j} /\ ~B!Known(j))
        /\ UNCHANGED brokerVars \/ orders'[j].intent = intent
    BY <2>2, <2>3, SubmitOrders
  <2>5. intent.created = event.at
    BY <2>1, <2>2 DEF Sound, Control
  <2>6. CASE k = j /\ orders'[j].intent = intent
    BY <1>1, <2>3, <2>5, <2>6 DEF Waiting
  <2>7. CASE ~(k = j /\ orders'[j].intent = intent)
    <3>1. k \in openIds /\ orders'[k].intent = orders[k].intent
      BY <1>1, <2>4, <2>7 DEF brokerVars, SameOrder
    <3> QED BY <1>2, <2>3, <3>1 DEF Waiting
  <2> QED BY <2>6, <2>7
<1>6. CASE NoteAndReserve /\ ~ \E reason : Fail(reason)
  <2>1. UNCHANGED <<orders, openIds, event>>
    BY <1>6 DEF NoteAndReserve, B!NoteTradingDay, brokerVars
  <2>2. pc = "note" /\ pc' # "runtime"
    BY <1>6 DEF NoteAndReserve, NextOffer
  <2> QED BY <1>2, <2>1, <2>2 DEF Waiting
<1>7. CASE \E reason : Fail(reason)
  BY <1>7, FailOrders
<1>8. CASE NextEvent \/ CheckOpenOrder \/ CheckDone \/ Match \/ ComponentRaises
  BY <1>8, FailOrders DEF NextEvent, CheckOpenOrder, CheckDone, Match, ComponentRaises
<1>9. CASE CommitFill
  BY <1>9, CommitEffect, FailOrders DEF Committed
<1> QED BY <1>3, <1>4, <1>5, <1>6, <1>7, <1>8, <1>9 DEF Next, Returned

(* Every step keeps FOK orders whole. *)
LEMMA WholeStep == Sound /\ OneShotInv /\ [Next]_vars => \A k \in Keys : Whole(k)'
<1> SUFFICES ASSUME Sound, OneShotInv, [Next]_vars, NEW k \in Keys
             PROVE  Whole(k)'
  OBVIOUS
<1>1. Whole(k) /\ orders[k].filled \in Nat /\ orders[k].intent.quantity \in Nat
  BY Clock DEF OneShotInv
<1>2. ASSUME SameOrder(k), UNCHANGED pending PROVE Whole(k)'
  BY <1>1, <1>2 DEF Whole, SameOrder
<1>3. CASE \E reason : Fail(reason)
  <2>1. orders'[k] = B!NoOrder
    BY <1>3, FailOrders
  <2>2. orders'[k].intent.tif = "NONE"
    BY <2>1 DEF B!NoOrder, B!Created, B!NoIntent
  <2> QED BY <2>2 DEF Whole
<1>4. CASE NextEvent /\ ~ \E reason : Fail(reason)
  <2>1. PICK at \in Times, day \in Days : B!ExpireAll(B!Due(day), at) /\ UNCHANGED pending
    BY <1>4 DEF NextEvent
  <2>2. B!Due(day) \in SUBSET Keys /\ B!TypeOK
    BY DEF B!Due, Sound, BrokerSound, B!TypeOK
  <2> QED BY <1>2, <2>1, <2>2, ExpireSame
<1>5. CASE CheckOpenOrder \/ CheckDone \/ ExpireImmediate \/ RuntimeCheck \/ EndOfStream
           \/ UNCHANGED vars
  <2>1. PICK S \in SUBSET Keys : Close(S)
    BY <1>5, ClosingCloses DEF Closing
  <2>2. UNCHANGED pending
    BY <1>5 DEF CheckOpenOrder, CheckDone, ExpireImmediate, RuntimeCheck, EndOfStream, vars, loopVars
  <2> QED BY <1>2, <2>1, <2>2 DEF Close
<1>6. CASE Match
  <2>1. PICK batch : /\ batch \in Batches \/ batch = <<>>
                     /\ UNCHANGED pending \/ (pending' = batch /\ UNCHANGED brokerVars)
    BY <1>6 DEF Match
  <2>2. CASE UNCHANGED pending
    <3>1. PICK S \in SUBSET Keys : Close(S)
      BY <1>6, ClosingCloses DEF Closing
    <3> QED BY <1>2, <2>2, <3>1 DEF Close
  <2>3. CASE pending' = batch /\ UNCHANGED brokerVars
    <3>1. pending = <<>> /\ UNCHANGED orders
      BY <1>6, <2>3 DEF Match, Sound, Control, brokerVars
    <3>2. SUFFICES ASSUME orders[k].intent.tif = "FOK"
                   PROVE  orders[k].filled + Filling(batch, k) \in {0, orders[k].intent.quantity}
      BY <2>3, <3>1 DEF Whole
    <3>3. orders[k].filled \in {0, orders[k].intent.quantity}
      BY <1>1, <3>1, <3>2, FillingEmpty DEF Whole
    <3>4. CASE batch = <<>> \/ k \notin openIds
      <4>1. Filling(batch, k) = 0
        <5>1. CASE batch = <<>>
          BY <5>1, FillingEmpty
        <5>2. CASE batch # <<>>
          <6>1. batch \in Seq(AnyFill) /\ \A n \in DOMAIN batch : batch[n].key \in openIds
            BY <2>1, <5>2, BatchTyped DEF Sound
          <6> QED BY <3>4, <5>2, <6>1, FillingNone
        <5> QED BY <5>1, <5>2
      <4> QED BY <1>1, <3>3, <4>1
    <3>5. CASE batch # <<>> /\ k \in openIds
      <4>1. Filling(batch, k) \in {0, B!Remaining(k)}
        BY <2>1, <3>2, <3>5, BatchTyped DEF Sound
      <4>2. Filling(batch, k) = 0 \/ Filling(batch, k) = orders[k].intent.quantity - orders[k].filled
        BY <4>1 DEF B!Remaining
      <4> QED BY <1>1, <3>3, <4>2
    <3> QED BY <3>4, <3>5
  <2> QED BY <2>1, <2>2, <2>3
<1>7. CASE CommitFill /\ ~ \E reason : Fail(reason)
  <2>1. PICK fill \in AnyFill : Committed(fill)
    BY <1>7, CommitEffect
  <2>2. pending \in Seq(AnyFill) /\ pending # <<>> /\ fill = Head(pending) /\ pending' = Tail(pending)
    BY <1>7, <2>1 DEF CommitFill, Sound, Control, Typed, Committed
  <2>3. /\ Filling(pending, k) = (IF fill.key = k THEN fill.quantity ELSE 0) + Filling(Tail(pending), k)
        /\ Filling(Tail(pending), k) \in Nat
    BY <2>2, FillingTail
  <2>4. /\ orders'[k].intent = orders[k].intent
        /\ orders'[k].filled = orders[k].filled + (IF fill.key = k THEN fill.quantity ELSE 0)
        /\ fill.quantity \in Nat
    <3>1. fill.quantity \in Nat
      BY <2>1, CommitOrders DEF Sound, BrokerSound
    <3>2. CASE fill.key = k
      BY <2>1, <3>1, <3>2, CommitOrders DEF Sound, BrokerSound
    <3>3. CASE fill.key # k
      <4>1. SameOrder(k)
        BY <2>1, <3>3, CommitOrders DEF Sound, BrokerSound
      <4> QED BY <1>1, <3>1, <3>3, <4>1 DEF SameOrder
    <3> QED BY <3>2, <3>3
  <2> DEFINE part == IF fill.key = k THEN fill.quantity ELSE 0
             rest == Filling(Tail(pending), k)
             all  == Filling(pending, k)
  <2>5. all = part + rest /\ orders'[k].filled = orders[k].filled + part /\ part \in Nat /\ rest \in Nat
        /\ Filling(pending, k)' = rest
    BY <2>2, <2>3, <2>4 DEF Filling
  <2>6. orders'[k].filled + rest = orders[k].filled + all
    <3> HIDE DEF part, rest, all
    <3> QED BY <1>1, <2>5
  <2> QED BY <1>1, <2>4, <2>5, <2>6 DEF Whole
<1>8. CASE SubmitOrReject /\ ~ \E reason : Fail(reason)
  <2>1. PICK j, intent : j = Offer[1] /\ intent = Offer[2]
    OBVIOUS
  <2>2. j \in Keys /\ intent \in Intents /\ pending = <<>> /\ UNCHANGED pending
    BY <1>8, <2>1, OfferChosen DEF SubmitOrReject, Sound, Control, Typed
  <2>3. \/ IF B!Known(j) THEN UNCHANGED brokerVars ELSE B!Submit(j, intent)
        \/ IF B!Known(j) THEN UNCHANGED brokerVars ELSE B!Reject(j, intent)
    BY <1>8, <2>1 DEF SubmitOrReject
  <2>4. /\ \A i \in Keys \ {j} : SameOrder(i)
        /\ UNCHANGED brokerVars \/ orders'[j].filled = 0
    BY <2>2, <2>3, SubmitOrders
  <2>5. CASE SameOrder(k)
    BY <1>2, <2>2, <2>5
  <2>6. CASE ~SameOrder(k)
    <3>1. orders'[k].filled = 0
      BY <2>4, <2>6 DEF brokerVars, SameOrder, B!Known
    <3>2. Filling(pending', k) = 0
      BY <2>2, FillingEmpty
    <3> QED BY <3>1, <3>2 DEF Whole
  <2> QED BY <2>5, <2>6
<1>9. CASE NoteAndReserve /\ ~ \E reason : Fail(reason)
  <2>1. UNCHANGED pending /\ (\/ \E j, d : B!NoteTradingDay(j, d) \/ UNCHANGED brokerVars)
    BY <1>9 DEF NoteAndReserve
  <2> QED BY <1>2, <2>1, NoteOrders
<1> QED BY <1>3, <1>4, <1>5, <1>6, <1>7, <1>8, <1>9 DEF Next, Returned, ComponentRaises

(* IOC and FOK orders do not outlive the first event they are eligible     *)
(* for, and when no batch is half committed a FOK order is filled in full  *)
(* or not at all.                                                          *)
THEOREM ImmediateIsOneShot == Spec => []ImmediateOneShot
<1>1. Init => OneShotInv
  <2> SUFFICES ASSUME Init PROVE OneShotInv
    OBVIOUS
  <2>1. openIds = {} /\ \A k \in Keys : orders[k].intent.tif = "NONE"
    BY DEF Init, B!Init, B!NoOrder, B!Created, B!NoIntent
  <2> QED BY <2>1 DEF OneShotInv, Whole
<1>2. Sound /\ OneShotInv => ImmediateOneShot
  <2> SUFFICES ASSUME Sound, OneShotInv PROVE ImmediateOneShot
    OBVIOUS
  <2>1. ASSUME pc \in {"runtime", "idle", "done"}, NEW k \in openIds, orders[k].intent.tif \in B!Immediate
        PROVE  IF pc = "runtime" THEN ~Eligible(k) ELSE orders[k].intent.created + Latency >= event.at
    BY <2>1 DEF OneShotInv, Waiting
  <2>2. ASSUME pc # "commit", NEW k \in Keys, orders[k].intent.tif = "FOK"
        PROVE  orders[k].filled \in {0, orders[k].intent.quantity}
    <3>1. pending = <<>>
      BY <2>2 DEF Sound, Control
    <3>2. Filling(pending, k) = 0 /\ orders[k].filled \in Nat
      BY <3>1, FillingEmpty, Clock
    <3> QED BY <2>2, <3>2 DEF OneShotInv, Whole
  <2> QED BY <2>1, <2>2 DEF ImmediateOneShot
<1>3. Sound /\ OneShotInv /\ [Next]_vars => OneShotInv'
  BY WaitingStep, WholeStep DEF OneShotInv
<1> QED BY <1>1, <1>2, <1>3, EngineSound, PTL DEF Spec
-----------------------------------------------------------------------------
(* The broker's book and the ledger's. *)

OfSide(side)   == {k \in Keys : B!Known(k) /\ orders[k].intent.side = side}
Executed(side) == SumFunctionOnSet([k \in Keys |-> orders[k].filled], OfSide(side))

(* Finitely many orders are known, so that what was executed is a sum.     *)
BooksInv ==
  /\ IsFiniteSet({k \in Keys : B!Known(k)})
  /\ position = InitialPosition + Executed("BUY") - Executed("SELL")

(* What was filled of the orders of one side can be added up. *)
LEMMA SidesSummable ==
  ASSUME Sound, IsFiniteSet({k \in Keys : B!Known(k)}), NEW side
  PROVE  Summable([k \in Keys |-> orders[k].filled], OfSide(side)) /\ Executed(side) \in Int
<1>1. OfSide(side) \subseteq {k \in Keys : B!Known(k)}
  BY DEF OfSide
<1>2. IsFiniteSet(OfSide(side))
  BY <1>1, FS_Subset
<1>3. \A k \in OfSide(side) : [j \in Keys |-> orders[j].filled][k] \in Int
  BY Clock DEF OfSide
<1>4. Summable([k \in Keys |-> orders[k].filled], OfSide(side))
  BY <1>2, <1>3 DEF Summable
<1> QED BY <1>4, SumType DEF Executed

(* A side whose orders stay the same has executed the same. *)
LEMMA SideSame ==
  ASSUME Sound, IsFiniteSet({k \in Keys : B!Known(k)}), NEW side,
         OfSide(side)' = OfSide(side),
         \A k \in OfSide(side) : orders'[k].filled = orders[k].filled
  PROVE  Executed(side)' = Executed(side)
<1> DEFINE f == [k \in Keys |-> orders[k].filled]
           g == [k \in Keys |-> orders'[k].filled]
<1>1. Summable(f, OfSide(side)) /\ \A k \in OfSide(side) : f[k] = g[k]
  BY SidesSummable DEF OfSide
<1>2. Executed(side) = SumFunctionOnSet(f, OfSide(side)) /\ Executed(side)' = SumFunctionOnSet(g, OfSide(side))
  BY DEF Executed
<1> HIDE DEF f, g
<1> QED BY <1>1, <1>2, SumSame

(* A step that leaves every order as it is leaves the books as they are.   *)
LEMMA BooksSame ==
  ASSUME Sound, BooksInv, \A k \in Keys : SameOrder(k), UNCHANGED position
  PROVE  BooksInv'
<1>1. {k \in Keys : B!Known(k)}' = {k \in Keys : B!Known(k)}
  BY DEF SameOrder
<1>2. ASSUME NEW side PROVE Executed(side)' = Executed(side)
  <2>1. OfSide(side)' = OfSide(side) /\ \A k \in OfSide(side) : orders'[k].filled = orders[k].filled
    BY DEF SameOrder, OfSide
  <2> QED BY <2>1, SideSame DEF BooksInv
<1> QED BY <1>1, <1>2 DEF BooksInv

(* A commitment enters the fill in both books. *)
LEMMA BooksCommit ==
  ASSUME Sound, BooksInv, NEW fill \in AnyFill, Committed(fill)
  PROVE  BooksInv'
<1> DEFINE f    == [k \in Keys |-> orders[k].filled]
           g    == [k \in Keys |-> orders'[k].filled]
<1>0. PICK side : side = orders[fill.key].intent.side
  OBVIOUS
<1>1. /\ \A k \in Keys \ {fill.key} : SameOrder(k)
      /\ orders'[fill.key].intent = orders[fill.key].intent
      /\ orders'[fill.key].filled = orders[fill.key].filled + fill.quantity
      /\ B!Known(fill.key) /\ B!Known(fill.key)'
      /\ orders[fill.key].filled \in Nat /\ fill.quantity \in Nat
      /\ fill.key \in Keys
  BY CommitOrders DEF Sound, BrokerSound, AnyFill
<1>2. {k \in Keys : B!Known(k)}' = {k \in Keys : B!Known(k)}
  BY <1>1 DEF SameOrder
<1>3. \A s : OfSide(s)' = OfSide(s)
  BY <1>1 DEF OfSide, SameOrder
<1>4. \A s : s # side => Executed(s)' = Executed(s)
  <2> SUFFICES ASSUME NEW s, s # side PROVE Executed(s)' = Executed(s)
    OBVIOUS
  <2>1. \A k \in OfSide(s) : orders'[k].filled = orders[k].filled
    BY <1>0, <1>1 DEF OfSide, SameOrder
  <2> QED BY <1>3, <2>1, SideSame DEF BooksInv
<1>5. Executed(side)' = Executed(side) + fill.quantity
  <2>1. Summable(f, OfSide(side)) /\ fill.key \in OfSide(side) /\ Executed(side) \in Int
    BY <1>0, <1>1, SidesSummable DEF OfSide, BooksInv
  <2>2. \A k \in OfSide(side) \ {fill.key} : f[k] = g[k]
    BY <1>0, <1>1 DEF OfSide, SameOrder
  <2>3. g[fill.key] = f[fill.key] + fill.quantity /\ f[fill.key] \in Int /\ g[fill.key] \in Int
    BY <1>1
  <2>4. /\ Executed(side) = SumFunctionOnSet(f, OfSide(side))
        /\ Executed(side)' = SumFunctionOnSet(g, OfSide(side))
    BY <1>3 DEF Executed
  <2> HIDE DEF f, g
  <2>5. SumFunctionOnSet(g, OfSide(side)) = (SumFunctionOnSet(f, OfSide(side)) - f[fill.key]) + g[fill.key]
    <3>1. PICK F, G, S, x : F = f /\ G = g /\ S = OfSide(side) /\ x = fill.key
      OBVIOUS
    <3>2. Summable(F, S) /\ x \in S /\ G[x] \in Int /\ \A y \in S \ {x} : F[y] = G[y]
      BY <2>1, <2>2, <2>3, <3>1
    <3>3. SumFunctionOnSet(G, S) = (SumFunctionOnSet(F, S) - F[x]) + G[x]
      <4>1. Summable(G, S)
        BY <3>2, SumExcept
      <4>2. Summable(F, S \ {x})
        BY <3>2, SummablePart
      <4>3. /\ SumFunctionOnSet(F, S) = F[x] + SumFunctionOnSet(F, S \ {x})
            /\ SumFunctionOnSet(G, S) = G[x] + SumFunctionOnSet(G, S \ {x})
        BY <3>2, <4>1, SumSplit
      <4>4. SumFunctionOnSet(F, S \ {x}) = SumFunctionOnSet(G, S \ {x})
        BY <3>2, <4>2, SumSame
      <4>5. SumFunctionOnSet(F, S \ {x}) \in Int /\ F[x] \in Int
        BY <3>2, <4>2, SumType DEF Summable
      <4> QED BY <3>2, <4>3, <4>4, <4>5
    <3> QED BY <3>1, <3>3
  <2> QED BY <1>1, <2>1, <2>3, <2>4, <2>5
<1>6. /\ side \in {"BUY", "SELL"}
      /\ position' = IF side = "BUY" THEN position + fill.quantity ELSE position - fill.quantity
  <2>1. orders[fill.key].intent \in Intents
    BY DEF Committed
  <2>2. side \in {"BUY", "SELL"}
    BY <1>0, <2>1, EngineAssumption
  <2> QED BY <1>0, <2>2 DEF Committed, PostFill
<1>7. Executed("BUY") \in Int /\ Executed("SELL") \in Int /\ position \in Nat /\ InitialPosition \in Nat
  BY SidesSummable, EngineAssumption DEF Sound, Typed, BooksInv
<1>8. side = "BUY" => Executed("BUY")' = Executed("BUY") + fill.quantity /\ Executed("SELL")' = Executed("SELL")
  BY <1>4, <1>5
<1>9. side = "SELL" => Executed("SELL")' = Executed("SELL") + fill.quantity /\ Executed("BUY")' = Executed("BUY")
  BY <1>4, <1>5
<1>10. position' = InitialPosition + Executed("BUY")' - Executed("SELL")'
  BY <1>1, <1>6, <1>7, <1>8, <1>9 DEF BooksInv
<1> QED BY <1>2, <1>10 DEF BooksInv

(* A new order has nothing filled. *)
LEMMA BooksSubmit ==
  ASSUME Sound, BooksInv, NEW k \in Keys, NEW intent, UNCHANGED position,
         \A j \in Keys \ {k} : SameOrder(j),
         ~B!Known(k), orders'[k].intent = intent, orders'[k].filled = 0, B!Known(k)'
  PROVE  BooksInv'
<1> DEFINE f == [j \in Keys |-> orders[j].filled]
           g == [j \in Keys |-> orders'[j].filled]
<1>1. {j \in Keys : B!Known(j)}' = {j \in Keys : B!Known(j)} \cup {k}
  BY DEF SameOrder
<1>2. IsFiniteSet({j \in Keys : B!Known(j)}')
  BY <1>1, FS_AddElement DEF BooksInv
<1>3. ASSUME NEW side PROVE Executed(side)' = Executed(side)
  <2>1. CASE intent.side # side
    <3>1. OfSide(side)' = OfSide(side) /\ \A j \in OfSide(side) : orders'[j].filled = orders[j].filled
      BY <2>1 DEF OfSide, SameOrder
    <3> QED BY <3>1, SideSame DEF BooksInv
  <2>2. CASE intent.side = side
    <3>1. OfSide(side)' = OfSide(side) \cup {k} /\ k \notin OfSide(side)
      BY <2>2 DEF OfSide, SameOrder
    <3>2. Summable(f, OfSide(side)) /\ Executed(side) \in Int /\ Executed(side) = SumFunctionOnSet(f, OfSide(side))
      BY SidesSummable DEF BooksInv, Executed
    <3>3. (\A j \in OfSide(side) : f[j] = g[j]) /\ g[k] = 0 /\ g[k] \in Int
      BY <3>1 DEF OfSide, SameOrder
    <3>4. Executed(side)' = SumFunctionOnSet(g, OfSide(side) \cup {k})
      BY <3>1 DEF Executed
    <3> HIDE DEF f, g
    <3>5. Summable(g, OfSide(side)) /\ SumFunctionOnSet(f, OfSide(side)) = SumFunctionOnSet(g, OfSide(side))
      BY <3>2, <3>3, SumSame
    <3>6. SumFunctionOnSet(g, OfSide(side) \cup {k}) = g[k] + SumFunctionOnSet(g, OfSide(side))
      BY <3>1, <3>3, <3>5, SumAdd
    <3> QED BY <3>2, <3>3, <3>4, <3>5, <3>6
  <2> QED BY <2>1, <2>2
<1> QED BY <1>2, <1>3 DEF BooksInv

(* Without known orders the position is the initial one. *)
LEMMA BooksEmpty ==
  ASSUME \A k \in Keys : ~B!Known(k), position = InitialPosition
  PROVE  BooksInv
<1>1. {k \in Keys : B!Known(k)} = {} /\ OfSide("BUY") = {} /\ OfSide("SELL") = {}
  BY DEF OfSide
<1>2. Executed("BUY") = 0 /\ Executed("SELL") = 0
  BY <1>1, SumEmpty DEF Executed
<1>3. InitialPosition = InitialPosition + 0 - 0
  BY EngineAssumption
<1> QED BY <1>1, <1>2, <1>3, FS_EmptySet DEF BooksInv

(* Every step keeps the two books in agreement. *)
LEMMA BooksStep == Sound /\ BooksInv /\ [Next]_vars => BooksInv'
<1> SUFFICES ASSUME Sound, BooksInv, [Next]_vars PROVE BooksInv'
  OBVIOUS
<1>1. CASE \E reason : Fail(reason)
  <2>1. position' = InitialPosition /\ \A k \in Keys : ~B!Known(k)'
    BY <1>1, FailOrders
  <2>2. {k \in Keys : B!Known(k)}' = {} /\ OfSide("BUY")' = {} /\ OfSide("SELL")' = {}
    BY <2>1 DEF OfSide
  <2>3. Executed("BUY")' = 0 /\ Executed("SELL")' = 0
    BY <2>2, SumEmpty DEF Executed
  <2>4. InitialPosition = InitialPosition + 0 - 0
    BY EngineAssumption
  <2> QED BY <2>1, <2>2, <2>3, <2>4, FS_EmptySet DEF BooksInv
<1>2. CASE NextEvent /\ ~ \E reason : Fail(reason)
  <2>1. PICK at \in Times, day \in Days : B!ExpireAll(B!Due(day), at) /\ UNCHANGED position
    BY <1>2 DEF NextEvent
  <2>2. B!Due(day) \in SUBSET Keys /\ B!TypeOK
    BY DEF B!Due, Sound, BrokerSound, B!TypeOK
  <2> QED BY <2>1, <2>2, ExpireSame, BooksSame
<1>3. CASE CheckOpenOrder \/ CheckDone \/ Match \/ ExpireImmediate \/ RuntimeCheck \/ EndOfStream
           \/ UNCHANGED vars
  <2>1. PICK S \in SUBSET Keys : Close(S)
    BY <1>3, ClosingCloses DEF Closing
  <2>2. UNCHANGED position
    BY <1>3 DEF CheckOpenOrder, CheckDone, Match, ExpireImmediate, RuntimeCheck, EndOfStream,
       vars, accountVars
  <2> QED BY <2>1, <2>2, BooksSame DEF Close
<1>4. CASE CommitFill /\ ~ \E reason : Fail(reason)
  BY <1>4, CommitEffect, BooksCommit
<1>5. CASE SubmitOrReject /\ ~ \E reason : Fail(reason)
  <2>1. PICK k, intent : k = Offer[1] /\ intent = Offer[2]
    OBVIOUS
  <2>2. k \in Keys /\ intent \in Intents /\ UNCHANGED position
    BY <1>5, <2>1, OfferChosen DEF SubmitOrReject, Sound, Control, Typed, accountVars
  <2>3. \/ IF B!Known(k) THEN UNCHANGED brokerVars ELSE B!Submit(k, intent)
        \/ IF B!Known(k) THEN UNCHANGED brokerVars ELSE B!Reject(k, intent)
    BY <1>5, <2>1 DEF SubmitOrReject
  <2>4. /\ \A j \in Keys \ {k} : SameOrder(j)
        /\ \/ UNCHANGED brokerVars
           \/ ~B!Known(k) /\ orders'[k].intent = intent /\ orders'[k].filled = 0 /\ B!Known(k)'
    BY <2>2, <2>3, SubmitOrders
  <2>5. CASE UNCHANGED brokerVars
    <3>1. \A j \in Keys : SameOrder(j)
      BY <2>5 DEF brokerVars, SameOrder, B!Known
    <3> QED BY <2>2, <3>1, BooksSame
  <2>6. CASE ~B!Known(k) /\ orders'[k].intent = intent /\ orders'[k].filled = 0 /\ B!Known(k)'
    BY <2>2, <2>4, <2>6, BooksSubmit
  <2> QED BY <2>4, <2>5, <2>6
<1>6. CASE NoteAndReserve /\ ~ \E reason : Fail(reason)
  <2>1. UNCHANGED position /\ (\/ \E j, d : B!NoteTradingDay(j, d) \/ UNCHANGED brokerVars)
    BY <1>6 DEF NoteAndReserve, accountVars
  <2> QED BY <2>1, NoteOrders, BooksSame
<1> QED BY <1>1, <1>2, <1>3, <1>4, <1>5, <1>6 DEF Next, Returned, ComponentRaises

(* The position the ledger keeps is at all times the initial one plus what *)
(* the broker's buy orders, less what its sell orders, report as filled.   *)
THEOREM LedgerAndBrokerAgree == Spec => []LedgerMatchesBroker
<1>1. Init => BooksInv
  <2>1. Init => position = InitialPosition /\ \A k \in Keys : ~B!Known(k)
    BY DEF Init, B!Init, B!NoOrder, B!Created, B!Known
  <2> QED BY <2>1, BooksEmpty
<1>2. BooksInv => LedgerMatchesBroker
  BY DEF BooksInv, Executed, OfSide, LedgerMatchesBroker
<1> QED BY <1>1, <1>2, BooksStep, EngineSound, PTL DEF Spec

-----------------------------------------------------------------------------
(* What the reservations hold. *)

(* The filled fractions of the quantities ordered are exact: no Decimal is *)
(* rounded.                                                                *)
ExactFractions == \A i \in Intents : \E n \in Nat : Precision = n * i.quantity

(* The products that amounts are made of, with their laws. *)
LEMMA Products ==
  /\ \A a, b \in Int : a * b \in Int /\ a * b = b * a
  /\ \A a, b \in Nat : a * b \in Nat
  /\ \A a, b \in Nat \ {0} : a * b \in Nat \ {0}
  /\ \A a, b, c \in Int : a * (b * c) = (a * b) * c
  /\ \A a, b, c \in Int : a * (b - c) = a * b - a * c /\ (b - c) * a = b * a - c * a
  /\ \A a, b, c \in Int : a * (b + c) = a * b + a * c /\ (b + c) * a = b * a + c * a
OBVIOUS

(* More of something costs more. *)
LEMMA Grows == \A a, b \in Int, c \in Nat : a <= b => a * c <= b * c /\ c * a <= c * b
<1> SUFFICES ASSUME NEW a \in Int, NEW b \in Int, NEW c \in Nat, a <= b
             PROVE  a * c <= b * c /\ c * a <= c * b
  OBVIOUS
<1>1. b - a \in Nat
  OBVIOUS
<1>2. (b - a) * c \in Nat
  BY <1>1, Products
<1>3. (b - a) * c = b * c - a * c
  BY Products
<1>4. b * c \in Int /\ a * c \in Int /\ a * c = c * a /\ b * c = c * b
  BY Products
<1> DEFINE x == b * c
           y == a * c
<1>5. x \in Int /\ y \in Int /\ x - y \in Nat
  BY <1>2, <1>3, <1>4
<1>6. y <= x
  <2> HIDE DEF x, y
  <2> QED BY <1>5
<1> QED BY <1>4, <1>6

(* Dividing a multiple. *)
LEMMA DivExact == \A m \in Nat, Q \in Nat \ {0} : (m * Q) \div Q = m /\ (m * Q) % Q = 0
<1> SUFFICES ASSUME NEW m \in Nat, NEW Q \in Nat \ {0} PROVE (m * Q) \div Q = m /\ (m * Q) % Q = 0
  OBVIOUS
<1> DEFINE x == m * Q
           d == x \div Q
           r == x % Q
<1>1. x \in Nat
  BY Products
<1>2. d \in Int /\ r \in 0..(Q - 1) /\ x = Q * d + r
  <2> HIDE DEF x
  <2> QED BY <1>1
<1>3. Q * (m - d) = r
  <2>1. Q * (m - d) = Q * m - Q * d /\ Q * m = x /\ Q * m \in Int /\ Q * d \in Int
    <3>1. Q * m = x /\ Q * m \in Int
      BY Products
    <3> HIDE DEF d, x
    <3>2. m \in Int /\ d \in Int /\ Q \in Int
      BY <1>2
    <3> QED BY <3>1, <3>2, Products
  <2> DEFINE p == Q * m
             t == Q * d
             z == Q * (m - d)
  <2>2. z = p - t /\ p = x /\ p \in Int /\ t \in Int /\ x = t + r /\ r \in Int
    BY <1>2, <2>1
  <2> HIDE DEF x, d, r, p, t, z
  <2>3. z = r
    BY <2>2
  <2> QED BY <2>3 DEF z, p, t
<1>4. m - d = 0
  <2> DEFINE e == m - d
  <2>1. e \in Int /\ Q * e = r /\ r \in 0..(Q - 1)
    BY <1>2, <1>3
  <2> HIDE DEF e, r, d, x
  <2>2. CASE e >= 1
    <3>1. Q * 1 <= Q * e
      BY <2>1, <2>2, Grows
    <3> QED BY <2>1, <3>1
  <2>3. CASE e <= -1
    <3>1. Q * e <= Q * (-1)
      BY <2>1, <2>3, Grows
    <3> QED BY <2>1, <3>1
  <2> QED BY <2>1, <2>2, <2>3 DEF e
<1>5. r = 0
  BY <1>3, <1>4
<1> QED BY <1>2, <1>4, <1>5

(* When fractions are exact the part released is the part filled. *)
LEMMA FractionExact ==
  ASSUME NEW Q \in Nat \ {0}, NEW n \in Nat, Precision = n * Q, NEW q \in Nat
  PROVE  Fraction(q, Q) = q * n
<1>1. q * Precision = (q * n) * Q /\ q * n \in Nat
  BY Products
<1>2. (q * Precision) \div Q = q * n /\ (q * Precision) % Q = 0
  BY <1>1, DivExact
<1>3. \A w : ~(2 * 0 > Q \/ (2 * 0 = Q /\ w))
  OBVIOUS
<1> QED BY <1>2, <1>3 DEF Fraction

(* A reservation of an order: the amount of a unit times what remains and  *)
(* times what was ordered.                                                 *)
HeldFor(ordered, rem, u) == [left |-> Precision * (rem * u), original |-> ordered * u]

(* What is left of it when q of the remainder is filled.                   *)
After(ordered, rem, q, u) == IF q = rem THEN NoReservation ELSE HeldFor(ordered, rem - q, u)

(* Releasing a fill leaves the reservation of what remains. *)
LEMMA AfterFillExact ==
  ASSUME ExactFractions, NEW i \in Intents, NEW u \in Nat \ {0},
         NEW rem \in Nat, NEW q \in Nat, q <= rem
  PROVE  AfterFill(HeldFor(i.quantity, rem, u), q, i.quantity) = After(i.quantity, rem, q, u)
<1> DEFINE Q == i.quantity
<1>1. Q \in Nat \ {0}
  BY EngineAssumption
<1>2. PICK n \in Nat : Precision = n * Q
  BY DEF ExactFractions
<1>3. Fraction(q, Q) = q * n
  BY <1>1, <1>2, FractionExact
<1>4. Precision \in Nat \ {0}
  BY RiskAssumption
<1> HIDE DEF Q
<1>5. (Q * u) * (q * n) = Precision * (q * u)
  <2>1. Q \in Int /\ u \in Int /\ q \in Int /\ n \in Int
    BY <1>1
  <2> HIDE <1>2, <1>3
  <2>2. (Q * u) * (q * n) = (n * Q) * (q * u)
    BY <2>1, Products
  <2> QED BY <1>2, <2>2
<1>6. Precision * (rem * u) - Precision * (q * u) = Precision * ((rem - q) * u)
  <2>1. rem * u - q * u = (rem - q) * u /\ rem * u \in Int /\ q * u \in Int
    BY Products
  <2>2. Precision * (rem * u - q * u) = Precision * (rem * u) - Precision * (q * u)
    BY <1>4, <2>1, Products
  <2> QED BY <2>1, <2>2
<1> DEFINE held == HeldFor(Q, rem, u)
           left == Precision * ((rem - q) * u)
<1>7. AfterFill(held, q, Q) = IF left <= 0 THEN NoReservation ELSE [held EXCEPT !.left = left]
  BY <1>3, <1>5, <1>6 DEF AfterFill, HeldFor
<1>8. [held EXCEPT !.left = left] = HeldFor(Q, rem - q, u)
  BY DEF HeldFor
<1>9. CASE q = rem
  <2>1. left = 0
    <3>1. PICK z : z = rem - q
      OBVIOUS
    <3>2. z = 0 /\ 0 * u = 0 /\ Precision * 0 = 0
      BY <1>4, <1>9, <3>1
    <3>3. Precision * (z * u) = 0
      BY <3>2
    <3>4. rem - q = 0
      BY <1>9
    <3> QED BY <3>1, <3>2, <3>3, <3>4
  <2> HIDE DEF left, held
  <2>2. AfterFill(held, q, Q) = NoReservation
    BY <1>7, <2>1
  <2> QED BY <1>9, <2>2 DEF held, Q, After
<1>10. CASE q # rem
  <2>1. rem - q \in Nat \ {0}
    BY <1>10
  <2>2. (rem - q) * u \in Nat \ {0}
    BY <2>1, Products
  <2>3. left \in Nat \ {0}
    BY <1>4, <2>2, Products
  <2> HIDE DEF left, held
  <2>4. ~(left <= 0)
    BY <2>3
  <2>5. AfterFill(held, q, Q) = HeldFor(Q, rem - q, u)
    BY <1>7, <1>8, <2>4
  <2> QED BY <1>10, <2>5 DEF held, Q, After
<1> QED BY <1>9, <1>10 DEF Q

(* Of nothing nothing is released. *)
LEMMA AfterFillNone ==
  ASSUME NEW q \in Nat, NEW ordered \in Nat \ {0}
  PROVE  AfterFill(NoReservation, q, ordered) = NoReservation
<1>1. Fraction(q, ordered) \in Int
  <2>1. q * Precision \in Nat
    BY RiskAssumption, Products
  <2> DEFINE n == q * Precision
  <2>2. n \div ordered \in Int /\ n % ordered \in Int
    <3>1. n \in Nat
      BY <2>1
    <3> HIDE DEF n
    <3> QED BY <3>1
  <2> QED BY <2>2 DEF Fraction
<1> DEFINE x == Fraction(q, ordered)
<1>2. x \in Int /\ \A y \in Int : 0 * y = 0
  BY <1>1
<1>3. 0 * x = 0
  <2> HIDE DEF x
  <2> QED BY <1>2
<1>4. NoReservation.left = 0 /\ NoReservation.original = 0
  BY DEF NoReservation
<1>5. NoReservation.left - NoReservation.original * x = 0
  <2> HIDE DEF x
  <2> QED BY <1>3, <1>4
<1> QED BY <1>5 DEF AfterFill

-----------------------------------------------------------------------------
(* Sums of reservations. *)

Total(reserved) == ReservedByOthers(reserved, B!NoKey)

(* All reservations together are one of them and the others. *)
LEMMA TotalSplit ==
  ASSUME NEW r \in [Keys -> Held], NEW k \in Keys
  PROVE  /\ Total(r) = r[k].left + ReservedByOthers(r, k)
         /\ Total(r) \in Nat /\ ReservedByOthers(r, k) \in Nat /\ r[k].left \in Nat
<1> DEFINE f == [j \in Keys |-> r[j].left]
<1>1. f = [j \in DOMAIN r |-> r[j].left] /\ DOMAIN r = Keys /\ Keys \ {B!NoKey} = Keys
  BY EngineAssumption DEF B!NoKey
<1>2. Total(r) = SumFunctionOnSet(f, Keys) /\ ReservedByOthers(r, k) = SumFunctionOnSet(f, Keys \ {k})
  BY <1>1 DEF Total, ReservedByOthers
<1>3. IsFiniteSet(Keys) /\ IsFiniteSet(Keys \ {k}) /\ \A j \in Keys : f[j] \in Nat
  BY EngineAssumption, FS_Subset DEF Held
<1>4. f[k] = r[k].left /\ r[k].left \in Nat
  BY DEF Held
<1> HIDE DEF f
<1>5. Summable(f, Keys)
  BY <1>3 DEF Summable
<1>6. SumFunctionOnSet(f, Keys) = f[k] + SumFunctionOnSet(f, Keys \ {k})
  BY <1>5, SumSplit
<1>7. SumFunctionOnSet(f, Keys) \in Nat
  BY <1>3, SumNat
<1>8. SumFunctionOnSet(f, Keys \ {k}) \in Nat
  <2>1. \A j \in Keys \ {k} : f[j] \in Nat
    BY <1>3
  <2> QED BY <1>3, <2>1, SumNat
<1> QED BY <1>2, <1>4, <1>6, <1>7, <1>8

(* All reservations together are some number. *)
LEMMA TotalType == ASSUME NEW r \in [Keys -> Held] PROVE Total(r) \in Nat
<1> DEFINE f == [j \in Keys |-> r[j].left]
<1>1. f = [j \in DOMAIN r |-> r[j].left] /\ DOMAIN r = Keys /\ Keys \ {B!NoKey} = Keys
  BY EngineAssumption DEF B!NoKey
<1>2. Total(r) = SumFunctionOnSet(f, Keys)
  BY <1>1 DEF Total, ReservedByOthers
<1>3. IsFiniteSet(Keys) /\ \A j \in Keys : f[j] \in Nat
  BY EngineAssumption DEF Held
<1> HIDE DEF f
<1> QED BY <1>2, <1>3, SumNat

(* The other reservations do not depend on this one. *)
LEMMA OthersSame ==
  ASSUME NEW r \in [Keys -> Held], NEW s \in [Keys -> Held], NEW k \in Keys,
         \A j \in Keys \ {k} : s[j] = r[j]
  PROVE  ReservedByOthers(s, k) = ReservedByOthers(r, k)
<1> DEFINE f == [j \in Keys |-> r[j].left]
           g == [j \in Keys |-> s[j].left]
<1>1. /\ f = [j \in DOMAIN r |-> r[j].left] /\ DOMAIN r = Keys
      /\ g = [j \in DOMAIN s |-> s[j].left] /\ DOMAIN s = Keys
  OBVIOUS
<1>2. ReservedByOthers(r, k) = SumFunctionOnSet(f, Keys \ {k}) /\ ReservedByOthers(s, k) = SumFunctionOnSet(g, Keys \ {k})
  BY <1>1 DEF ReservedByOthers
<1>3. \A j \in Keys \ {k} : f[j] = g[j] /\ f[j] \in Int
  BY DEF Held
<1>4. IsFiniteSet(Keys \ {k})
  BY EngineAssumption, FS_Subset
<1> HIDE DEF f, g
<1>5. Summable(f, Keys \ {k})
  BY <1>3, <1>4 DEF Summable
<1> QED BY <1>2, <1>3, <1>5, SumSame

(* Where no reservation grows their total does not. *)
LEMMA TotalShrinks ==
  ASSUME NEW r \in [Keys -> Held], NEW s \in [Keys -> Held],
         \A j \in Keys : s[j].left <= r[j].left
  PROVE  Total(s) <= Total(r)
<1> DEFINE f == [j \in Keys |-> r[j].left]
           g == [j \in Keys |-> s[j].left]
<1>1. /\ f = [j \in DOMAIN r |-> r[j].left] /\ DOMAIN r = Keys
      /\ g = [j \in DOMAIN s |-> s[j].left] /\ DOMAIN s = Keys
      /\ Keys \ {B!NoKey} = Keys
  BY EngineAssumption DEF B!NoKey
<1>2. Total(r) = SumFunctionOnSet(f, Keys) /\ Total(s) = SumFunctionOnSet(g, Keys)
  BY <1>1 DEF Total, ReservedByOthers
<1>3. \A j \in Keys : g[j] <= f[j] /\ f[j] \in Int /\ g[j] \in Int
  BY DEF Held
<1> HIDE DEF f, g
<1>4. Summable(f, Keys) /\ Summable(g, Keys)
  BY <1>3, EngineAssumption DEF Summable
<1> QED BY <1>2, <1>3, <1>4, SumMonotone

(* Without reservations the total is nothing. *)
LEMMA TotalZero == Total([k \in Keys |-> NoReservation]) = 0
<1> DEFINE r == [k \in Keys |-> NoReservation]
           f == [j \in Keys |-> r[j].left]
<1>1. f = [j \in DOMAIN r |-> r[j].left] /\ DOMAIN r = Keys /\ Keys \ {B!NoKey} = Keys
  BY EngineAssumption DEF B!NoKey
<1>2. Total(r) = SumFunctionOnSet(f, Keys)
  BY <1>1 DEF Total, ReservedByOthers
<1>3. \A j \in Keys : f[j] = 0
  BY DEF NoReservation
<1> HIDE DEF f
<1>4. SumFunctionOnSet(f, Keys) = 0
  BY <1>3, EngineAssumption, SumZero
<1> QED BY <1>2, <1>4

-----------------------------------------------------------------------------
(* Every open order is backed by the reservation of what remains of it.    *)

OpenOrder(o) == o.status \in B!OpenStatus
Remainder(o) == o.intent.quantity - o.filled

(* The amount reserved for a unit of the order.                            *)
UnitAmount(intent, u) == u \in Nat \ {0} /\ (intent.limit # NoPrice => u = intent.limit * (1 + FeeRate))

Backed(o, c, p) ==
  /\ IF OpenOrder(o) /\ o.intent.side = "BUY"
       THEN \E u : UnitAmount(o.intent, u) /\ c = HeldFor(o.intent.quantity, Remainder(o), u)
       ELSE c = NoReservation
  /\ IF OpenOrder(o) /\ o.intent.side = "SELL"
       THEN p = HeldFor(o.intent.quantity, Remainder(o), 1)
       ELSE p = NoReservation

Tracks(k) == Backed(orders[k], cashReserved[k], positionReserved[k])

(* The order was just submitted and nothing is reserved for it yet.        *)
Fresh(k) ==
  /\ B!IsOpen(k) /\ orders[k].filled = 0
  /\ cashReserved[k] = NoReservation /\ positionReserved[k] = NoReservation

HoldInv ==
  /\ \A k \in Keys : Tracks(k) \/ (pc = "note" /\ k = Offer[1] /\ Fresh(k))
  /\ pc = "note" => IntentPrice(Offer[2]) # NoPrice

(* Orders and reservations that stay the same keep their backing. *)
LEMMA BackedSame ==
  ASSUME UNCHANGED <<brokerVars, cashReserved, positionReserved>>, NEW k, Tracks(k)
  PROVE  Tracks(k)'
BY DEF brokerVars, Tracks

(* An order that closed or is not known is backed by nothing. *)
LEMMA BackedNone == \A o : ~OpenOrder(o) => Backed(o, NoReservation, NoReservation)
BY DEF Backed

(* Expired orders are released, the others keep their backing. *)
LEMMA ReleaseBacks ==
  ASSUME Sound, NEW S \in SUBSET Keys, NEW now, B!ExpireAll(S, now), ReleaseOrders(S),
         NEW k \in Keys, Tracks(k)
  PROVE  Tracks(k)'
<1>1. orders'[k] = IF k \in S THEN B!Moved(orders[k], "EXPIRED", 0) ELSE orders[k]
  BY DEF B!ExpireAll, B!MoveAll
<1>2. /\ cashReserved'[k] = IF k \in S THEN NoReservation ELSE cashReserved[k]
      /\ positionReserved'[k] = IF k \in S THEN NoReservation ELSE positionReserved[k]
  BY DEF ReleaseOrders, Released, Sound, Typed
<1>3. CASE k \in S
  <2>1. ~OpenOrder(orders'[k])
    BY <1>1, <1>3 DEF B!Moved, OpenOrder, B!OpenStatus
  <2> QED BY <1>2, <1>3, <2>1, BackedNone DEF Tracks
<1>4. CASE k \notin S
  BY <1>1, <1>2, <1>4 DEF Tracks
<1> QED BY <1>3, <1>4

(* What a commitment does to the order of the fill. *)
LEMMA CommitFacts ==
  ASSUME Sound, Sound', NEW fill \in AnyFill, Committed(fill)
  PROVE  LET k == fill.key
             o == orders[k]
             q == fill.quantity
         IN  /\ k \in Keys /\ o.intent \in Intents /\ OpenOrder(o)
             /\ q \in Nat \ {0} /\ Remainder(o) \in Nat /\ q <= Remainder(o)
             /\ orders'[k].intent = o.intent /\ Remainder(orders'[k]) = Remainder(o) - q
             /\ OpenOrder(orders'[k]) <=> q # Remainder(o)
             /\ \A j \in Keys \ {k} : orders'[j] = orders[j]
             /\ ReleaseFill(k, q, o.intent.quantity)
<1>1. PICK k, q, o : k = fill.key /\ q = fill.quantity /\ o = orders[k]
  OBVIOUS
<1>2. PICK to \in {"FILLED", "PARTIALLY_FILLED"} : B!MoveAll({k}, to, q)
  BY <1>1 DEF Committed
<1>3. \A j \in Keys : orders'[j] = IF j = k THEN B!Moved(orders[j], to, q) ELSE orders[j]
  BY <1>2 DEF B!MoveAll
<1>4. /\ k \in Keys /\ o.intent \in Intents /\ OpenOrder(o) /\ ReleaseFill(k, q, o.intent.quantity)
      /\ q <= Remainder(o)
  BY <1>1 DEF Committed, AnyFill, OpenOrder, B!IsOpen, B!Remaining, Remainder
<1>5. o.filled \in Nat /\ q \in Nat
  BY <1>1, CommitOrders DEF Sound, BrokerSound
<1>6. q # 0 /\ o.intent.quantity \in Nat
  <2>1. q \in 1..MaxQuantity /\ MaxQuantity \in Nat
    BY <1>1, EngineAssumption DEF AnyFill
  <2>2. o.intent.quantity \in 1..MaxQuantity
    BY <1>4, EngineAssumption
  <2> QED BY <2>1, <2>2
<1>7. orders'[k] = B!Moved(o, to, q)
  BY <1>1, <1>3, <1>4
<1>8. orders'[k].intent = o.intent /\ orders'[k].filled = o.filled + q /\ orders'[k].status = to
  BY <1>7 DEF B!Moved
<1>9. Remainder(o) \in Nat /\ Remainder(orders'[k]) = Remainder(o) - q
  BY <1>4, <1>5, <1>6, <1>8 DEF Remainder
<1>10. OpenOrder(orders'[k]) <=> q # Remainder(o)
  <2>1. B!QuantityConserved'
    BY DEF Sound, BrokerSound
  <2>2. orders'[k].status = "FILLED" <=> orders'[k].filled = orders'[k].intent.quantity
    BY <1>4, <1>8, <2>1 DEF B!QuantityConserved, B!Known
  <2>3. orders'[k].status = "FILLED" <=> q = Remainder(o)
    BY <1>4, <1>5, <1>6, <1>8, <2>2 DEF Remainder
  <2>4. OpenOrder(orders'[k]) <=> orders'[k].status # "FILLED"
    BY <1>8 DEF OpenOrder, B!OpenStatus
  <2> QED BY <2>3, <2>4
<1> QED BY <1>1, <1>3, <1>4, <1>5, <1>6, <1>8, <1>9, <1>10

(* A commitment releases from the reservation of its order what the fill   *)
(* took of the order, and touches no other reservation.                    *)
LEMMA CommitReleases ==
  ASSUME Sound, Sound', ExactFractions, NEW fill \in AnyFill, Committed(fill), Tracks(fill.key)
  PROVE  LET k == fill.key
             o == orders[k]
             after(u) == After(o.intent.quantity, Remainder(o), fill.quantity, u)
         IN  /\ \A j \in Keys \ {k} : cashReserved'[j] = cashReserved[j]
                                      /\ positionReserved'[j] = positionReserved[j]
             /\ o.intent.side = "BUY" =>
                  /\ \E u : /\ UnitAmount(o.intent, u)
                            /\ cashReserved[k] = HeldFor(o.intent.quantity, Remainder(o), u)
                            /\ cashReserved'[k] = after(u)
                  /\ positionReserved[k] = NoReservation /\ positionReserved'[k] = NoReservation
             /\ o.intent.side = "SELL" =>
                  /\ positionReserved[k] = HeldFor(o.intent.quantity, Remainder(o), 1)
                  /\ positionReserved'[k] = after(1)
                  /\ cashReserved[k] = NoReservation /\ cashReserved'[k] = NoReservation
<1>1. PICK k, q, o, i : k = fill.key /\ q = fill.quantity /\ o = orders[k] /\ i = o.intent
  OBVIOUS
<1>2. /\ k \in Keys /\ i \in Intents /\ OpenOrder(o)
      /\ q \in Nat /\ Remainder(o) \in Nat /\ q <= Remainder(o)
      /\ ReleaseFill(k, q, i.quantity)
  BY <1>1, CommitFacts
<1>3. i.quantity \in Nat \ {0} /\ i.side \in {"BUY", "SELL"}
  BY <1>2, EngineAssumption
<1>4. /\ \A j \in Keys \ {k} : cashReserved'[j] = cashReserved[j] /\ positionReserved'[j] = positionReserved[j]
      /\ cashReserved'[k] = AfterFill(cashReserved[k], q, i.quantity)
      /\ positionReserved'[k] = AfterFill(positionReserved[k], q, i.quantity)
  BY <1>2 DEF ReleaseFill, Sound, Typed
<1>5. Backed(o, cashReserved[k], positionReserved[k])
  BY <1>1 DEF Tracks
<1>6. AfterFill(NoReservation, q, i.quantity) = NoReservation
  BY <1>2, <1>3, AfterFillNone
<1> DEFINE after(u) == After(i.quantity, Remainder(o), q, u)
<1>7. \A u \in Nat \ {0} : AfterFill(HeldFor(i.quantity, Remainder(o), u), q, i.quantity) = after(u)
  <2> SUFFICES ASSUME NEW u \in Nat \ {0}
               PROVE  AfterFill(HeldFor(i.quantity, Remainder(o), u), q, i.quantity) = after(u)
    OBVIOUS
  <2> QED BY <1>2, AfterFillExact
<1>8. CASE i.side = "BUY"
  <2>1. PICK u : UnitAmount(i, u) /\ cashReserved[k] = HeldFor(i.quantity, Remainder(o), u)
    BY <1>1, <1>2, <1>5, <1>8 DEF Backed
  <2>2. positionReserved[k] = NoReservation
    BY <1>1, <1>5, <1>8 DEF Backed
  <2>3. u \in Nat \ {0}
    BY <2>1 DEF UnitAmount
  <2>4. cashReserved'[k] = after(u)
    BY <1>4, <1>7, <2>1, <2>3
  <2>5. positionReserved'[k] = NoReservation
    BY <1>4, <1>6, <2>2
  <2> QED BY <1>1, <1>4, <1>8, <2>1, <2>2, <2>4, <2>5
<1>9. CASE i.side = "SELL"
  <2>1. positionReserved[k] = HeldFor(i.quantity, Remainder(o), 1) /\ cashReserved[k] = NoReservation
    BY <1>1, <1>2, <1>5, <1>9 DEF Backed
  <2>2. positionReserved'[k] = after(1)
    BY <1>4, <1>7, <2>1
  <2>3. cashReserved'[k] = NoReservation
    BY <1>4, <1>6, <2>1
  <2> QED BY <1>1, <1>4, <1>9, <2>1, <2>2, <2>3
<1> QED BY <1>3, <1>8, <1>9

(* A commitment keeps every order backed. *)
LEMMA CommitBacks ==
  ASSUME Sound, Sound', ExactFractions, NEW fill \in AnyFill, Committed(fill),
         \A j \in Keys : Tracks(j), NEW j \in Keys
  PROVE  Tracks(j)'
<1>1. PICK k, q, o : k = fill.key /\ q = fill.quantity /\ o = orders[k]
  OBVIOUS
<1>2. CASE j # k
  BY <1>1, <1>2, CommitFacts, CommitReleases DEF Tracks, AnyFill
<1>3. CASE j = k
  <2>1. /\ k \in Keys /\ o.intent \in Intents /\ OpenOrder(o)
        /\ orders'[k].intent = o.intent /\ Remainder(orders'[k]) = Remainder(o) - q
        /\ OpenOrder(orders'[k]) <=> q # Remainder(o)
    BY <1>1, CommitFacts
  <2>2. o.intent.side \in {"BUY", "SELL"}
    BY <2>1, EngineAssumption
  <2>3. Tracks(fill.key)
    BY <1>1, <1>3
  <2> DEFINE after(u) == After(o.intent.quantity, Remainder(o), q, u)
  <2>4. /\ o.intent.side = "BUY" => /\ \E u : UnitAmount(o.intent, u) /\ cashReserved'[k] = after(u)
                                    /\ positionReserved'[k] = NoReservation
        /\ o.intent.side = "SELL" => positionReserved'[k] = after(1) /\ cashReserved'[k] = NoReservation
    BY <1>1, <2>3, CommitReleases
  <2>5. CASE q = Remainder(o)
    <3>1. cashReserved'[k] = NoReservation /\ positionReserved'[k] = NoReservation /\ ~OpenOrder(orders'[k])
      BY <2>1, <2>2, <2>4, <2>5 DEF After
    <3> QED BY <1>3, <3>1, BackedNone DEF Tracks
  <2>6. CASE q # Remainder(o)
    BY <1>3, <2>1, <2>2, <2>4, <2>6 DEF Tracks, Backed, After
  <2> QED BY <2>5, <2>6
<1> QED BY <1>2, <1>3

(* The limit of an intent is a number. *)
LEMMA LimitType == ASSUME NEW i \in Intents PROVE i.limit \in Nat
<1>1. i.limit \in Prices \cup {NoPrice}
  BY EngineAssumption
<1>2. CASE i.limit \in Prices
  BY <1>2, EngineAssumption
<1>3. CASE i.limit = NoPrice
  BY <1>3 DEF NoPrice
<1> QED BY <1>1, <1>2, <1>3

(* What a buy with a price requires is the reservation of its whole.       *)
LEMMA BuyRequires ==
  ASSUME Typed, NEW intent \in Intents, intent.side = "BUY", IntentPrice(intent) # NoPrice
  PROVE  \E u : /\ UnitAmount(intent, u)
                /\ CashRequired(intent) = intent.quantity * u /\ CashRequired(intent) \in Nat \ {0}
                /\ Reservation(CashRequired(intent)) = HeldFor(intent.quantity, intent.quantity, u)
<1> DEFINE Q == intent.quantity
           price == IntentPrice(intent)
           u == price * (1 + FeeRate)
<1>1. Q \in Nat \ {0} /\ price \in Nat \ {0}
  <2>1. Q \in 1..MaxQuantity /\ intent.limit \in Prices \cup {NoPrice} /\ MaxQuantity \in Nat
    BY EngineAssumption
  <2>2. market.price \in Prices \cup {NoPrice}
    BY DEF Typed
  <2>3. \A x \in Prices \cup {NoPrice} : x \in Nat
    BY EngineAssumption DEF NoPrice
  <2>4. intent.limit \in Nat /\ market.price \in Nat
    BY <2>1, <2>2, <2>3
  <2> QED BY <2>1, <2>4 DEF IntentPrice, NoPrice
<1>2. 1 + FeeRate \in Nat \ {0} /\ Precision \in Nat \ {0}
  BY RiskAssumption
<1>3. u \in Nat \ {0}
  <2> HIDE DEF price
  <2> QED BY <1>1, <1>2, Products
<1>4. CashRequired(intent) = Q * u
  <2>1. CashRequired(intent) = Q * price * (1 + FeeRate)
    BY DEF CashRequired, Cost
  <2> HIDE DEF price, Q
  <2> QED BY <1>1, <1>2, <2>1, Products
<1>5. UnitAmount(intent, u)
  BY <1>3 DEF UnitAmount, IntentPrice
<1> HIDE DEF u, Q
<1>6. Q * u \in Nat \ {0} /\ (Q * u) * Precision = Precision * (Q * u)
  BY <1>1, <1>2, <1>3, Products
<1>7. Reservation(Q * u) = HeldFor(Q, Q, u)
  BY <1>6 DEF Reservation, HeldFor
<1>8. CashRequired(intent) \in Nat \ {0} /\ Reservation(CashRequired(intent)) = HeldFor(Q, Q, u)
  BY <1>4, <1>6, <1>7
<1> QED BY <1>4, <1>5, <1>8 DEF Q

(* What a sale requires is the reservation of its quantity. *)
LEMMA SellRequires ==
  ASSUME NEW intent \in Intents, intent.side = "SELL"
  PROVE  /\ PositionRequired(intent) = intent.quantity /\ intent.quantity \in Nat \ {0}
         /\ Reservation(PositionRequired(intent)) = HeldFor(intent.quantity, intent.quantity, 1)
<1> DEFINE Q == intent.quantity
<1>1. Q \in Nat \ {0} /\ Precision \in Nat
  BY EngineAssumption, RiskAssumption
<1>2. PositionRequired(intent) = Q
  BY DEF PositionRequired
<1> HIDE DEF Q
<1>3. Q * Precision = Precision * (Q * 1) /\ Q * 1 = Q
  BY <1>1, Products
<1>4. Reservation(Q) = HeldFor(Q, Q, 1)
  BY <1>1, <1>3 DEF Reservation, HeldFor
<1> QED BY <1>1, <1>2, <1>4 DEF Q

(* An order whose remainder is backed holds something. *)
LEMMA HeldSome ==
  ASSUME NEW Q, NEW rem \in Nat \ {0}, NEW u \in Nat \ {0}
  PROVE  HeldFor(Q, rem, u).left \in Nat \ {0} /\ HeldFor(Q, rem, u) # NoReservation
<1>1. rem * u \in Nat \ {0} /\ Precision \in Nat \ {0}
  BY Products, RiskAssumption
<1>2. Precision * (rem * u) \in Nat \ {0}
  BY <1>1, Products
<1>3. HeldFor(Q, rem, u).left = Precision * (rem * u) /\ NoReservation.left = 0
  BY DEF HeldFor, NoReservation
<1> DEFINE l == Precision * (rem * u)
<1> HIDE DEF l
<1>4. HeldFor(Q, rem, u).left = l /\ l \in Nat \ {0}
  BY <1>2, <1>3 DEF l
<1> QED BY <1>3, <1>4

(* The steps that close orders release them. *)
LEMMA ClosingReleases ==
  ASSUME Sound, Closing
  PROVE  \/ UNCHANGED <<brokerVars, riskVars>>
         \/ \E S \in SUBSET Keys : ExpireAndRelease(S)
<1>1. openIds \in SUBSET Keys /\ immediateIds \in SUBSET Keys /\ B!TypeOK
  BY DEF Sound, BrokerSound, B!TypeOK
<1>2. CASE CheckOpenOrder
  <2>1. FirstOf(toCheck) \in Keys
    BY <1>1, <1>2, FirstChosen DEF CheckOpenOrder, Sound, Typed
  <2> QED BY <1>2, <2>1 DEF CheckOpenOrder
<1>3. CASE Match
  <2>1. PICK batch : /\ batch \in Batches \/ batch = <<>>
                     /\ ExpireAndRelease(Refused(batch)) \/ UNCHANGED <<brokerVars, riskVars>>
    BY <1>3 DEF Match, Refused
  <2>2. Refused(batch) \in SUBSET Keys
    BY <2>1, RefusedOpen DEF Sound
  <2> QED BY <2>1, <2>2
<1>4. CASE ExpireImmediate
  BY <1>1, <1>4 DEF ExpireImmediate
<1>5. CASE RuntimeCheck
  BY <1>1, <1>5 DEF RuntimeCheck
<1>6. CASE CheckDone \/ EndOfStream \/ UNCHANGED vars
  BY <1>6 DEF CheckDone, EndOfStream, vars
<1> QED BY <1>2, <1>3, <1>4, <1>5, <1>6 DEF Closing

(* Submitting an order leaves it fresh; a rejected one holds nothing. *)
LEMMA SubmitHolds ==
  ASSUME Sound, HoldInv, SubmitOrReject, ~ \E reason : Fail(reason)
  PROVE  HoldInv'
<1>1. PICK k, intent : k = Offer[1] /\ intent = Offer[2]
  OBVIOUS
<1>2. /\ k \in Keys /\ intent \in Intents
      /\ pc = "intents" /\ UNCHANGED <<market, cashReserved, positionReserved>>
  BY <1>1, OfferChosen DEF SubmitOrReject, Sound, Control, Typed, riskVars
<1>3. \A j \in Keys : Tracks(j)
  BY <1>2 DEF HoldInv
<1>4. \/ /\ Check(k, intent, cash, position, boughtToday)
         /\ IF B!Known(k) THEN UNCHANGED brokerVars ELSE B!Submit(k, intent)
         /\ pc' = "note" /\ UNCHANGED offers
      \/ /\ IF B!Known(k) THEN UNCHANGED brokerVars ELSE B!Reject(k, intent)
         /\ pc' # "note"
  BY <1>1 DEF SubmitOrReject, NextOffer
<1>5. pc' = "note" => Offer' = Offer /\ IntentPrice(Offer[2])' # NoPrice
  <2> SUFFICES ASSUME pc' = "note" PROVE Offer' = Offer /\ IntentPrice(Offer[2])' # NoPrice
    OBVIOUS
  <2>1. Check(k, intent, cash, position, boughtToday) /\ UNCHANGED offers
    BY <1>4
  <2>2. Offer' = Offer
    BY <2>1 DEF Offer
  <2>3. IntentPrice(intent) # NoPrice
    BY <2>1 DEF Check
  <2> QED BY <1>1, <1>2, <2>2, <2>3 DEF IntentPrice
<1>6. CASE UNCHANGED brokerVars
  BY <1>2, <1>3, <1>5, <1>6, BackedSame DEF HoldInv
<1>7. CASE ~B!Known(k) /\ (B!Submit(k, intent) \/ B!Reject(k, intent))
  <2>1. PICK to \in {"ACCEPTED", "REJECTED"} : /\ B!Register(k, intent, to)
                                               /\ to = "ACCEPTED" => B!Submit(k, intent)
                                               /\ to = "REJECTED" => B!Reject(k, intent)
    BY <1>7 DEF B!Submit, B!Reject
  <2>2. \A j \in Keys : orders'[j] = IF j = k THEN B!Moved(B!Created(intent), to, 0) ELSE orders[j]
    BY <2>1 DEF B!Register, Sound, BrokerSound, B!TypeOK
  <2>3. \A j \in Keys \ {k} : Tracks(j)'
    BY <1>2, <1>3, <2>2 DEF Tracks
  <2>4. ~OpenOrder(orders[k])
    BY <1>7 DEF OpenOrder, B!Known, B!OpenStatus
  <2>5. cashReserved[k] = NoReservation /\ positionReserved[k] = NoReservation
    BY <1>2, <1>3, <2>4 DEF Tracks, Backed
  <2>6. orders'[k].status = to /\ orders'[k].filled = 0
    <3>1. orders'[k] = B!Moved(B!Created(intent), to, 0)
      BY <1>2, <2>2
    <3> QED BY <3>1 DEF B!Moved, B!Created
  <2>7. CASE to = "REJECTED"
    <3>1. ~OpenOrder(orders'[k])
      BY <2>6, <2>7 DEF OpenOrder, B!OpenStatus
    <3>2. Tracks(k)'
      BY <1>2, <2>5, <3>1, BackedNone DEF Tracks
    <3> QED BY <1>5, <2>3, <3>2 DEF HoldInv
  <2>8. CASE to = "ACCEPTED" /\ pc' = "note"
    <3>1. OpenOrder(orders'[k])
      BY <2>6, <2>8 DEF OpenOrder, B!OpenStatus
    <3>2. k = Offer[1]'
      BY <1>1, <1>5, <2>8
    <3>3. \A j \in Keys : j = k => Fresh(j)'
      BY <1>2, <2>5, <2>6, <3>1 DEF Fresh, B!IsOpen, OpenOrder
    <3> QED BY <1>5, <2>3, <2>8, <3>2, <3>3 DEF HoldInv
  <2>9. CASE to = "ACCEPTED" /\ pc' # "note"
    <3>1. B!Submit(k, intent) /\ B!Reject(k, intent)
      BY <1>4, <1>7, <2>1, <2>9
    <3>2. openIds' = openIds \cup {k} /\ openIds' = openIds /\ k \notin openIds
      <4>1. ~B!IsOpen(k)
        BY <2>4 DEF B!IsOpen, OpenOrder
      <4>2. k \notin openIds
        BY <4>1 DEF Sound, BrokerSound, B!IndexesAgree
      <4> QED BY <3>1, <4>2 DEF B!Submit, B!Reject
    <3> QED BY <3>2
  <2> QED BY <2>1, <2>7, <2>8, <2>9
<1> QED BY <1>4, <1>6, <1>7

(* Completing a submission backs the fresh order, and changes nothing of   *)
(* an order that was presented again.                                      *)
LEMMA NoteHolds ==
  ASSUME Sound, HoldInv, NoteAndReserve, ~ \E reason : Fail(reason)
  PROVE  HoldInv'
<1>1. PICK k, intent : k = Offer[1] /\ intent = Offer[2]
  OBVIOUS
<1>2. /\ k \in Keys /\ intent \in Intents /\ orders[k].intent = intent
      /\ pc = "note" /\ pc' # "note" /\ IntentPrice(intent) # NoPrice
  BY <1>1, OfferChosen DEF NoteAndReserve, NextOffer, Sound, Control, Typed, HoldInv
<1>3. UNCHANGED orders
  BY NoteOrders DEF NoteAndReserve
<1>4. /\ B!IsOpen(k) => ~ReserveRaises(k, intent) /\ Reserve(k, intent)
      /\ ~B!IsOpen(k) => UNCHANGED <<cashReserved, positionReserved>>
  BY <1>1 DEF NoteAndReserve, riskVars
<1>5. \A j \in Keys \ {k} : cashReserved'[j] = cashReserved[j] /\ positionReserved'[j] = positionReserved[j]
  BY <1>4 DEF Reserve, Sound, Typed
<1>6. \A j \in Keys \ {k} : Tracks(j)'
  BY <1>1, <1>3, <1>5 DEF Tracks, HoldInv
<1>7. CASE ~B!IsOpen(k)
  <2>1. Tracks(k)
    BY <1>2, <1>7 DEF HoldInv, Fresh
  <2> QED BY <1>2, <1>3, <1>4, <1>6, <1>7, <2>1 DEF HoldInv, Tracks
<1>8. CASE B!IsOpen(k)
  <2>1. OpenOrder(orders[k]) /\ Reserve(k, intent) /\ ~ReserveRaises(k, intent)
    BY <1>4, <1>8 DEF B!IsOpen, OpenOrder
  <2>2. Remainder(orders[k]) \in Nat \ {0} /\ intent.quantity \in Nat \ {0}
        /\ (orders[k].filled = 0 => Remainder(orders[k]) = intent.quantity)
    <3>1. B!QuantityConserved /\ orders[k].filled \in Nat
      BY <1>2, Clock DEF Sound, BrokerSound
    <3>2. orders[k].status \in {"ACCEPTED", "PARTIALLY_FILLED"}
      BY <2>1 DEF OpenOrder, B!OpenStatus
    <3>3. intent.quantity \in Nat \ {0}
      BY <1>2, EngineAssumption
    <3>4. orders[k].filled # intent.quantity /\ orders[k].filled <= intent.quantity
      BY <1>2, <3>1, <3>2 DEF B!QuantityConserved, B!Known
    <3> QED BY <1>2, <3>1, <3>3, <3>4 DEF Remainder
  <2>3. Fresh(k) \/ Tracks(k)
    BY <1>2 DEF HoldInv
  <2>4. CASE intent.side = "BUY"
    <3>1. PICK u : /\ UnitAmount(intent, u)
                   /\ CashRequired(intent) \in Nat \ {0}
                   /\ Reservation(CashRequired(intent)) = HeldFor(intent.quantity, intent.quantity, u)
      BY <1>2, <2>4, BuyRequires DEF Sound
    <3>2. /\ cashReserved'[k] = Reservation(CashRequired(intent))
          /\ positionReserved'[k] = positionReserved[k]
      BY <1>2, <2>1, <2>4 DEF Reserve, Sound, Typed
    <3>3. positionReserved[k] = NoReservation
      BY <1>2, <2>3, <2>4 DEF Fresh, Tracks, Backed
    <3>4. \E w : UnitAmount(intent, w) /\ cashReserved'[k] = HeldFor(intent.quantity, Remainder(orders[k]), w)
      <4>1. CASE Fresh(k)
        BY <2>2, <3>1, <3>2, <4>1 DEF Fresh
      <4>2. CASE Tracks(k)
        <5>1. PICK w : UnitAmount(intent, w) /\ cashReserved[k] = HeldFor(intent.quantity, Remainder(orders[k]), w)
          BY <1>2, <2>1, <2>4, <4>2 DEF Tracks, Backed
        <5>2. cashReserved[k] # NoReservation
          BY <2>2, <5>1, HeldSome DEF UnitAmount
        <5>3. cashReserved[k] = Reservation(CashRequired(intent))
          BY <2>1, <3>1, <5>2 DEF ReserveRaises
        <5> QED BY <3>2, <5>1, <5>3
      <4> QED BY <2>3, <4>1, <4>2
    <3>5. Tracks(k)'
      BY <1>2, <1>3, <2>1, <2>4, <3>2, <3>3, <3>4 DEF Tracks, Backed
    <3> QED BY <1>2, <1>6, <3>5 DEF HoldInv
  <2>5. CASE intent.side = "SELL"
    <3>1. /\ Reservation(PositionRequired(intent)) = HeldFor(intent.quantity, intent.quantity, 1)
          /\ PositionRequired(intent) # 0
      BY <1>2, <2>5, SellRequires
    <3>2. /\ positionReserved'[k] = Reservation(PositionRequired(intent))
          /\ cashReserved'[k] = cashReserved[k]
      BY <1>2, <2>1, <2>5 DEF Reserve, Sound, Typed
    <3>3. cashReserved[k] = NoReservation
      BY <1>2, <2>3, <2>5 DEF Fresh, Tracks, Backed
    <3>4. positionReserved'[k] = HeldFor(intent.quantity, Remainder(orders[k]), 1)
      <4>1. CASE Fresh(k)
        BY <2>2, <3>1, <3>2, <4>1 DEF Fresh
      <4>2. CASE Tracks(k)
        <5>1. positionReserved[k] = HeldFor(intent.quantity, Remainder(orders[k]), 1)
          BY <1>2, <2>1, <2>5, <4>2 DEF Tracks, Backed
        <5>2. positionReserved[k] # NoReservation
          BY <2>2, <5>1, HeldSome
        <5>3. positionReserved[k] = Reservation(PositionRequired(intent))
          BY <2>1, <3>1, <5>2 DEF ReserveRaises
        <5> QED BY <3>2, <5>1, <5>3
      <4> QED BY <2>3, <4>1, <4>2
    <3>5. Tracks(k)'
      BY <1>2, <1>3, <2>1, <2>5, <3>2, <3>3, <3>4 DEF Tracks, Backed
    <3> QED BY <1>2, <1>6, <3>5 DEF HoldInv
  <2>6. intent.side \in {"BUY", "SELL"}
    BY <1>2, EngineAssumption
  <2> QED BY <2>4, <2>5, <2>6
<1> QED BY <1>7, <1>8

(* A failed run holds nothing. *)
LEMMA FailHolds == ASSUME NEW reason, Fail(reason) PROVE HoldInv'
<1>1. /\ pc' = "failed" /\ cashReserved' = [k \in Keys |-> NoReservation]
      /\ positionReserved' = [k \in Keys |-> NoReservation]
  BY DEF Fail
<1>2. ASSUME NEW k \in Keys PROVE Tracks(k)'
  <2>1. ~OpenOrder(orders'[k])
    BY FailOrders DEF OpenOrder, B!OpenStatus, B!NoOrder, B!Created
  <2> QED BY <1>1, <2>1, BackedNone DEF Tracks
<1> QED BY <1>1, <1>2 DEF HoldInv

(* When fractions are exact every step keeps the reservations right.       *)
LEMMA HoldStep ==
  ASSUME ExactFractions, Sound, HoldInv, [Next]_vars
  PROVE  HoldInv'
<1>1. Sound'
  BY SoundStep
<1>2. CASE \E reason : Fail(reason)
  BY <1>2, FailHolds
<1>3. CASE NextEvent /\ ~ \E reason : Fail(reason)
  <2>1. PICK at \in Times, day \in Days : /\ B!ExpireAll(B!Due(day), at) /\ ReleaseOrders(B!Due(day))
                                          /\ pc = "idle" /\ pc' = "check"
    BY <1>3 DEF NextEvent
  <2>2. B!Due(day) \in SUBSET Keys
    BY DEF B!Due, Sound, BrokerSound, B!TypeOK
  <2>3. \A k \in Keys : Tracks(k)
    BY <2>1 DEF HoldInv
  <2>4. \A k \in Keys : Tracks(k)'
    BY <2>1, <2>2, <2>3, ReleaseBacks
  <2> QED BY <2>1, <2>4 DEF HoldInv
<1>4. CASE CheckOpenOrder \/ CheckDone \/ Match \/ ExpireImmediate \/ RuntimeCheck \/ EndOfStream
  <2>1. pc # "note" /\ pc' # "note"
    BY <1>4 DEF CheckOpenOrder, CheckDone, Match, ExpireImmediate, RuntimeCheck, EndOfStream
  <2>2. \A k \in Keys : Tracks(k)
    BY <2>1 DEF HoldInv
  <2>3. (UNCHANGED <<brokerVars, riskVars>>) \/ \E S \in SUBSET Keys : ExpireAndRelease(S)
    BY <1>4, ClosingReleases DEF Closing
  <2>4. \A k \in Keys : Tracks(k)'
    BY <2>2, <2>3, ReleaseBacks, BackedSame DEF ExpireAndRelease, riskVars
  <2> QED BY <2>1, <2>4 DEF HoldInv
<1>5. CASE UNCHANGED vars
  <2>1. UNCHANGED <<orders, cashReserved, positionReserved, market, pc, offers>>
    BY <1>5 DEF vars, brokerVars, riskVars, loopVars
  <2>2. Offer' = Offer
    BY <2>1 DEF Offer
  <2>3. \A k \in Keys : (Tracks(k) => Tracks(k)') /\ (Fresh(k) => Fresh(k)')
    BY <2>1 DEF Tracks, Fresh, B!IsOpen
  <2>4. IntentPrice(Offer[2])' = IntentPrice(Offer[2])
    BY <2>1, <2>2 DEF IntentPrice
  <2> QED BY <2>1, <2>2, <2>3, <2>4 DEF HoldInv
<1>6. CASE CommitFill /\ ~ \E reason : Fail(reason)
  <2>1. PICK fill \in AnyFill : Committed(fill)
    BY <1>6, CommitEffect
  <2>2. pc = "commit" /\ pc' # "note"
    BY <1>6, <2>1 DEF CommitFill, Committed
  <2>3. \A k \in Keys : Tracks(k)
    BY <2>2 DEF HoldInv
  <2>4. \A k \in Keys : Tracks(k)'
    BY <1>1, <2>1, <2>3, CommitBacks
  <2> QED BY <2>2, <2>4 DEF HoldInv
<1>7. CASE (SubmitOrReject \/ NoteAndReserve) /\ ~ \E reason : Fail(reason)
  BY <1>7, SubmitHolds, NoteHolds
<1> QED BY <1>2, <1>3, <1>4, <1>5, <1>6, <1>7 DEF Next, Returned, ComponentRaises

(* When the fractions of the quantities ordered are exact, every order     *)
(* holds at all times exactly the reservation of what remains of it.       *)
THEOREM ReservationsFollowOrders ==
  ASSUME ExactFractions
  PROVE  Spec => []ReservationTracksRemainder
<1>1. Init => HoldInv
  <2> SUFFICES ASSUME Init PROVE HoldInv
    OBVIOUS
  <2>1. pc = "idle" /\ \A k \in Keys : ~OpenOrder(orders[k])
    BY DEF Init, B!Init, OpenOrder, B!OpenStatus, B!NoOrder, B!Created
  <2>2. \A k \in Keys : cashReserved[k] = NoReservation /\ positionReserved[k] = NoReservation
    BY DEF Init
  <2> QED BY <2>1, <2>2, BackedNone DEF HoldInv, Tracks
<1>2. Sound /\ HoldInv => ReservationTracksRemainder
  <2> SUFFICES ASSUME Sound, HoldInv, NEW k \in Keys \ BeingReserved
               PROVE  ReservationTracksRemainder!(k)
    BY DEF ReservationTracksRemainder
  <2> DEFINE Q    == orders[k].intent.quantity
             rem  == B!Remaining(k)
             i    == orders[k].intent
  <2>1. Tracks(k)
    BY DEF BeingReserved, HoldInv
  <2>2. (B!IsOpen(k) <=> OpenOrder(orders[k])) /\ rem = Remainder(orders[k])
    BY DEF B!IsOpen, OpenOrder, B!Remaining, Remainder
  <2>3. NoReservation.left = 0
    BY DEF NoReservation
  <2>4. B!IsOpen(k) => i \in Intents /\ Q \in Nat \ {0} /\ rem \in Int
    <3> SUFFICES ASSUME B!IsOpen(k) PROVE i \in Intents /\ Q \in Nat \ {0} /\ rem \in Int
      OBVIOUS
    <3>1. i \in Intents
      BY DEF Sound, BrokerSound, Presented, B!Known, B!IsOpen, B!OpenStatus
    <3>2. Q \in Nat \ {0} /\ orders[k].filled \in Nat
      BY <3>1, Clock, EngineAssumption
    <3> QED BY <3>1, <3>2 DEF B!Remaining
  <2>5. ASSUME B!IsOpen(k), i.side = "BUY"
        PROVE  cashReserved[k].left =
                 Precision * (IF i.limit = NoPrice THEN rem * (cashReserved[k].original \div Q)
                              ELSE Cost(rem, i.limit))
    <3>1. PICK u : UnitAmount(i, u) /\ cashReserved[k] = HeldFor(Q, rem, u)
      BY <2>1, <2>2, <2>5 DEF Tracks, Backed
    <3>2. cashReserved[k].left = Precision * (rem * u) /\ cashReserved[k].original = Q * u /\ u \in Nat
      BY <3>1 DEF HeldFor, UnitAmount
    <3>3. CASE i.limit = NoPrice
      <4>1. (Q * u) \div Q = u
        <5>1. Q \in Nat \ {0} /\ u \in Nat
          BY <2>4, <2>5, <3>2
        <5> HIDE DEF Q
        <5>2. Q * u = u * Q
          BY <5>1, Products
        <5>3. (u * Q) \div Q = u
          BY <5>1, DivExact
        <5> QED BY <5>2, <5>3
      <4> QED BY <3>2, <3>3, <4>1
    <3>4. CASE i.limit # NoPrice
      <4>1. u = i.limit * (1 + FeeRate) /\ i.limit \in Nat /\ FeeRate \in Nat /\ 1 + FeeRate \in Int
        <5>1. i.limit \in Nat
          BY <2>4, <2>5, LimitType
        <5> QED BY <3>1, <3>4, <5>1, RiskAssumption DEF UnitAmount
      <4>2. rem * (i.limit * (1 + FeeRate)) = (rem * i.limit) * (1 + FeeRate)
        <5> HIDE DEF rem, i
        <5>1. rem \in Int
          BY <2>4, <2>5
        <5> QED BY <4>1, <5>1, Products
      <4>3. rem * u = Cost(rem, i.limit)
        BY <4>1, <4>2 DEF Cost
      <4> QED BY <3>2, <3>4, <4>3
    <3> QED BY <3>3, <3>4
  <2>6. ~(B!IsOpen(k) /\ i.side = "BUY") => cashReserved[k].left = 0
    BY <2>1, <2>2, <2>3 DEF Tracks, Backed
  <2>7. B!IsOpen(k) /\ i.side = "SELL" => positionReserved[k].left = Precision * rem
    <3> SUFFICES ASSUME B!IsOpen(k), i.side = "SELL" PROVE positionReserved[k].left = Precision * rem
      OBVIOUS
    <3>1. positionReserved[k] = HeldFor(Q, rem, 1)
      BY <2>1, <2>2 DEF Tracks, Backed
    <3>2. rem * 1 = rem
      <4> HIDE DEF rem
      <4> QED BY <2>4
    <3> QED BY <3>1, <3>2 DEF HeldFor
  <2>8. ~(B!IsOpen(k) /\ i.side = "SELL") => positionReserved[k].left = 0
    BY <2>1, <2>2, <2>3 DEF Tracks, Backed
  <2> QED BY <2>5, <2>6, <2>7, <2>8
<1> QED BY <1>1, <1>2, HoldStep, EngineSound, PTL DEF Spec

-----------------------------------------------------------------------------
(* The reservations are covered by the account. *)

Settled == IF TPlusOne THEN position - boughtToday ELSE position

LimitedBuys == \A k \in Keys : B!Known(k) /\ orders[k].intent.side = "BUY" => orders[k].intent.limit # NoPrice

(* What sell orders reserve is settled, also with the order just accepted. *)
SharesInv ==
  /\ Total(positionReserved) <= Precision * Settled
  /\ pc = "note" /\ Offer[2].side = "SELL" /\ B!IsOpen(Offer[1]) =>
       Fits(PositionRequired(Offer[2]), positionReserved, Offer[1], Settled)

(* What buy orders reserve is in the account, unless one has no limit;     *)
(* the order just accepted fits in any case.                               *)
MoneyInv ==
  /\ LimitedBuys => Total(cashReserved) <= Precision * cash
  /\ pc = "note" /\ Offer[2].side = "BUY" /\ B!IsOpen(Offer[1]) =>
       Fits(CashRequired(Offer[2]), cashReserved, Offer[1], cash)

(* Released reservations do not grow. *)
LEMMA ReleaseShrinks ==
  ASSUME Typed, NEW S, ReleaseOrders(S)
  PROVE  Total(cashReserved') <= Total(cashReserved) /\ Total(positionReserved') <= Total(positionReserved)
<1>1. cashReserved' \in [Keys -> Held] /\ positionReserved' \in [Keys -> Held]
  BY ReleaseTyped
<1>2. \A r \in [Keys -> Held], k \in Keys : Released(r, S)[k].left <= r[k].left
  BY DEF Released, NoReservation, Held
<1>3. cashReserved \in [Keys -> Held] /\ positionReserved \in [Keys -> Held]
  BY DEF Typed
<1>4. cashReserved' = Released(cashReserved, S) /\ positionReserved' = Released(positionReserved, S)
  BY DEF ReleaseOrders
<1> QED BY <1>1, <1>2, <1>3, <1>4, TotalShrinks

(* What closing steps and the next event do to the sums. *)
LEMMA ClosingShrinks ==
  ASSUME Sound, NextEvent \/ Closing, ~ \E reason : Fail(reason)
  PROVE  /\ Total(cashReserved') <= Total(cashReserved) /\ Total(positionReserved') <= Total(positionReserved)
         /\ UNCHANGED <<cash, position>>
         /\ boughtToday' = boughtToday \/ (event'.day > event.day /\ boughtToday' = 0)
<1>1. CASE NextEvent
  <2>1. PICK fact \in Bars \cup StatusEvents, at \in Times, day \in Days : NextEvent!3!(fact, at, day)
    BY <1>1 DEF NextEvent
  <2>2. B!Stuck(day, at) = {}
    BY <2>1
  <2>3. /\ ReleaseOrders(B!Due(day)) /\ UNCHANGED <<cash, position>>
        /\ boughtToday' = (IF day > event.day THEN 0 ELSE boughtToday)
        /\ event' = [n |-> event.n + 1, at |-> at, day |-> day, kind |-> fact.kind]
    BY <2>1, <2>2
  <2>4. event'.day = day
    BY <2>3
  <2> QED BY <2>3, <2>4, ReleaseShrinks DEF Sound
<1>2. CASE Closing
  <2>1. (UNCHANGED <<brokerVars, riskVars>>) \/ \E S \in SUBSET Keys : ExpireAndRelease(S)
    BY <1>2, ClosingReleases
  <2>2. UNCHANGED <<cash, position, boughtToday>>
    BY <1>2 DEF Closing, CheckOpenOrder, CheckDone, Match, ExpireImmediate, RuntimeCheck, EndOfStream,
       vars, accountVars
  <2>3. Total(cashReserved) \in Nat /\ Total(positionReserved) \in Nat
    BY TotalType DEF Sound, Typed
  <2>4. Total(cashReserved') <= Total(cashReserved) /\ Total(positionReserved') <= Total(positionReserved)
    <3>1. CASE UNCHANGED <<brokerVars, riskVars>>
      BY <2>3, <3>1 DEF riskVars
    <3>2. CASE \E S \in SUBSET Keys : ExpireAndRelease(S)
      BY <3>2, ReleaseShrinks DEF ExpireAndRelease, Sound
    <3> QED BY <2>1, <3>1, <3>2
  <2> QED BY <2>2, <2>4
<1> QED BY <1>1, <1>2

(* A reservation that changes changes the sum by as much. *)
LEMMA TotalChange ==
  ASSUME NEW r \in [Keys -> Held], NEW s \in [Keys -> Held], NEW k \in Keys,
         \A j \in Keys \ {k} : s[j] = r[j]
  PROVE  /\ Total(s) = (Total(r) - r[k].left) + s[k].left
         /\ Total(s) = s[k].left + ReservedByOthers(r, k)
         /\ Total(r) \in Nat /\ r[k].left \in Nat /\ s[k].left \in Nat /\ r[k].left <= Total(r)
<1> DEFINE a == ReservedByOthers(r, k)
           b == ReservedByOthers(s, k)
           tr == Total(r)
           ts == Total(s)
           x == r[k].left
           y == s[k].left
<1>1. tr = x + a /\ a \in Nat /\ x \in Nat /\ tr \in Nat
  BY TotalSplit
<1>2. ts = y + b /\ y \in Nat
  BY TotalSplit
<1>3. b = a
  BY OthersSame
<1>4. ts = (tr - x) + y /\ ts = y + a /\ x <= tr
  <2> HIDE DEF a, b, tr, ts, x, y
  <2> QED BY <1>1, <1>2, <1>3
<1> QED BY <1>1, <1>2, <1>4

(* The part of a reservation that a fill releases. *)
LEMMA FillReleases ==
  ASSUME NEW Q, NEW rem \in Nat, NEW q \in Nat, q <= rem, NEW u \in Nat
  PROVE  /\ After(Q, rem, q, u).left = HeldFor(Q, rem, u).left - Precision * (q * u)
         /\ Precision * (q * u) \in Nat /\ HeldFor(Q, rem, u).left \in Nat
         /\ Precision * (q * u) <= HeldFor(Q, rem, u).left
<1>1. Precision \in Nat
  BY RiskAssumption
<1>2. rem * u \in Nat /\ q * u \in Nat /\ (rem - q) * u \in Nat
      /\ (rem - q) * u = rem * u - q * u
  BY Products
<1>3. /\ Precision * (rem * u) \in Nat /\ Precision * (q * u) \in Nat
      /\ Precision * ((rem - q) * u) \in Nat
      /\ Precision * (rem * u - q * u) = Precision * (rem * u) - Precision * (q * u)
  BY <1>1, <1>2, Products
<1> DEFINE all == Precision * (rem * u)
           out == Precision * (q * u)
           rest == Precision * ((rem - q) * u)
<1>4. rest = all - out /\ all \in Nat /\ out \in Nat /\ rest \in Nat
  BY <1>2, <1>3
<1>5. HeldFor(Q, rem, u).left = all /\ HeldFor(Q, rem - q, u).left = rest /\ NoReservation.left = 0
  BY DEF HeldFor, NoReservation
<1>6. q = rem => all = out
  OBVIOUS
<1> HIDE DEF all, out, rest
<1>7. out <= all
  BY <1>4
<1>8. After(Q, rem, q, u).left = all - out
  <2>1. CASE q = rem
    BY <1>4, <1>5, <1>6, <2>1 DEF After
  <2>2. CASE q # rem
    BY <1>4, <1>5, <2>2 DEF After
  <2> QED BY <2>1, <2>2
<1>9. out = Precision * (q * u)
  BY DEF out
<1> QED BY <1>4, <1>5, <1>7, <1>8, <1>9

(* The settled quantity is a number. *)
LEMMA SettledType ==
  ASSUME Typed
  PROVE  /\ Settled \in Int /\ Settled <= position /\ position \in Nat /\ boughtToday \in Nat
         /\ cash \in Nat /\ Precision \in Nat \ {0}
BY RiskAssumption DEF Settled, Typed

(* A sale is backed: what is sold was settled, none of it bought today.    *)
LEMMA SaleSettled ==
  ASSUME Sound, Sound', ExactFractions, SharesInv, NEW fill \in AnyFill,
         fill.key \in Keys, Tracks(fill.key), OpenOrder(orders[fill.key]),
         orders[fill.key].intent.side = "SELL",
         fill.quantity \in Nat, fill.quantity <= Remainder(orders[fill.key]), Remainder(orders[fill.key]) \in Nat
  PROVE  fill.quantity <= Settled
<1>1. PICK k, q, rem, Q : k = fill.key /\ q = fill.quantity /\ rem = Remainder(orders[k])
                          /\ Q = orders[k].intent.quantity
  OBVIOUS
<1>2. positionReserved[k] = HeldFor(Q, rem, 1)
  BY <1>1 DEF Tracks, Backed
<1>3. positionReserved[k].left <= Total(positionReserved) /\ Total(positionReserved) \in Nat
  BY <1>1, TotalChange DEF Sound, Typed
<1>4. /\ Precision * (q * 1) \in Nat /\ HeldFor(Q, rem, 1).left \in Nat
      /\ Precision * (q * 1) <= HeldFor(Q, rem, 1).left
  BY <1>1, FillReleases
<1>5. Precision * q <= Precision * Settled /\ Precision * q \in Int /\ Precision * Settled \in Int
  <2>1. q * 1 = q /\ Settled \in Int /\ Precision \in Int /\ q \in Int
    BY <1>1, SettledType DEF Sound
  <2>2. Precision * q \in Int /\ Precision * Settled \in Int
    BY <2>1, Products
  <2> DEFINE a == Precision * q
             b == Precision * Settled
             t == Total(positionReserved)
             l == positionReserved[k].left
  <2>3. a <= l /\ l <= t /\ t <= b /\ a \in Int /\ b \in Int /\ t \in Int /\ l \in Int
    BY <1>2, <1>3, <1>4, <2>1, <2>2 DEF SharesInv
  <2> HIDE DEF a, b, t, l
  <2>4. a <= b
    BY <2>3
  <2> QED BY <2>2, <2>4 DEF a, b
<1>6. ~(Settled + 1 <= q)
  <2> SUFFICES ASSUME Settled + 1 <= q PROVE FALSE
    OBVIOUS
  <2>1. Settled \in Int /\ Precision \in Nat \ {0} /\ q \in Int
    BY <1>1, SettledType DEF Sound
  <2> DEFINE s == Settled
  <2> HIDE DEF s
  <2>2. s \in Int /\ s + 1 \in Int /\ s + 1 <= q
    BY <2>1 DEF s
  <2>3. Precision * (s + 1) <= Precision * q
    BY <2>1, <2>2, Grows
  <2>4. Precision * (s + 1) = Precision * s + Precision * 1 /\ Precision * s \in Int /\ Precision * 1 = Precision
    BY <2>1, <2>2, Products
  <2>5. Precision * q <= Precision * s /\ Precision * q \in Int
    BY <1>5 DEF s
  <2> DEFINE x == Precision * s
             y == Precision * q
             z == Precision * (s + 1)
  <2>6. z <= y /\ z = x + Precision /\ y <= x /\ x \in Int /\ y \in Int
    BY <2>3, <2>4, <2>5
  <2> HIDE DEF x, y, z
  <2> QED BY <2>1, <2>6
<1>7. q <= Settled
  BY <1>1, <1>6, SettledType DEF Sound
<1> QED BY <1>1, <1>7

(* A commitment keeps the shares covered. *)
LEMMA SharesCommit ==
  ASSUME Sound, Sound', ExactFractions, SharesInv, NEW fill \in AnyFill, Committed(fill), Tracks(fill.key)
  PROVE  Total(positionReserved') <= Precision * Settled'
<1>1. PICK k, q, o, i : k = fill.key /\ q = fill.quantity /\ o = orders[k] /\ i = o.intent
  OBVIOUS
<1>2. /\ k \in Keys /\ i \in Intents /\ OpenOrder(o)
      /\ q \in Nat /\ Remainder(o) \in Nat /\ q <= Remainder(o)
  BY <1>1, CommitFacts
<1>3. i.side \in {"BUY", "SELL"}
  BY <1>2, EngineAssumption
<1>4. /\ i.side = "BUY"  => position' = position + q /\ boughtToday' = boughtToday + q
      /\ i.side = "SELL" => /\ position' = position - q
                            /\ boughtToday' = IF position - q < boughtToday THEN position - q ELSE boughtToday
  BY <1>1, <1>3 DEF Committed, PostFill
<1>5. /\ positionReserved \in [Keys -> Held] /\ positionReserved' \in [Keys -> Held]
      /\ \A j \in Keys \ {k} : positionReserved'[j] = positionReserved[j]
  BY <1>1, CommitReleases DEF Sound, Typed
<1>6. /\ Total(positionReserved') = (Total(positionReserved) - positionReserved[k].left) + positionReserved'[k].left
      /\ Total(positionReserved) \in Nat /\ positionReserved[k].left \in Nat /\ positionReserved'[k].left \in Nat
  BY <1>2, <1>5, TotalChange
<1> DEFINE t  == Total(positionReserved)
           t1 == Total(positionReserved')
           s  == Settled
           s1 == Settled'
<1>7. s \in Int /\ s1 \in Int /\ Precision \in Nat \ {0} /\ t <= Precision * s
  <2>1. Typed /\ Typed'
    BY DEF Sound
  <2>2. Settled' \in Int
    BY <2>1 DEF Settled, Typed
  <2> QED BY <2>1, <2>2, SettledType DEF SharesInv
<1>8. CASE i.side = "BUY"
  <2>1. positionReserved[k] = positionReserved'[k]
    BY <1>1, <1>8, CommitReleases
  <2>2. t1 = t /\ t \in Nat
    <3> DEFINE l == positionReserved[k].left
    <3>1. t1 = (t - l) + l /\ t \in Nat /\ l \in Nat
      BY <1>6, <2>1
    <3> HIDE DEF t, t1, l
    <3> QED BY <3>1
  <2>3. s <= s1
    BY <1>2, <1>4, <1>8, SettledType DEF Settled, Sound
  <2>4. Precision * s <= Precision * s1 /\ Precision * s \in Int /\ Precision * s1 \in Int
    <3> HIDE DEF s, s1
    <3> QED BY <1>7, <2>3, Grows, Products
  <2> DEFINE a == Precision * s
             b == Precision * s1
  <2>5. t <= a /\ a <= b /\ a \in Int /\ b \in Int
    BY <1>7, <2>4
  <2>6. t <= b
    <3> HIDE DEF a, b, t
    <3> QED BY <2>2, <2>5
  <2> QED BY <2>2, <2>6
<1>9. CASE i.side = "SELL"
  <2>1. q <= Settled
    BY <1>1, <1>2, <1>9, SaleSettled
  <2>2. s1 = s - q
    BY <1>2, <1>4, <1>9, <2>1, SettledType DEF Settled, Sound
  <2>3. /\ positionReserved[k] = HeldFor(i.quantity, Remainder(o), 1)
        /\ positionReserved'[k] = After(i.quantity, Remainder(o), q, 1)
    BY <1>1, <1>9, CommitReleases
  <2>4. positionReserved'[k].left = positionReserved[k].left - Precision * (q * 1)
    BY <1>2, <2>3, FillReleases
  <2>5. q * 1 = q
    BY <1>2
  <2>6. Precision * (s - q) = Precision * s - Precision * q /\ Precision * s \in Int /\ Precision * q \in Int
    <3> HIDE DEF s
    <3> QED BY <1>2, <1>7, Products
  <2> DEFINE a == Precision * s
             b == Precision * q
             l == positionReserved[k].left
             l1 == positionReserved'[k].left
             c == Precision * s1
  <2>7. /\ t1 = (t - l) + l1 /\ l1 = l - b /\ c = a - b /\ t <= a
        /\ a \in Int /\ b \in Int /\ l \in Nat /\ t \in Nat
    BY <1>6, <1>7, <2>2, <2>4, <2>5, <2>6
  <2>8. t1 <= c
    <3> HIDE DEF t1, t, l, l1, a, b, c
    <3> QED BY <2>7
  <2> QED BY <2>8
<1> QED BY <1>3, <1>8, <1>9

(* What a failure leaves of the account. *)
LEMMA FailAccount ==
  ASSUME NEW reason, Fail(reason)
  PROVE  /\ Total(cashReserved') = 0 /\ Total(positionReserved') = 0
         /\ cash' = InitialCash /\ position' = InitialPosition /\ boughtToday' = 0
         /\ pc' = "failed" /\ pending' = <<>>
BY TotalZero DEF Fail

(* What the submission of an accepted order leaves to be reserved.         *)
LEMMA SubmitFits ==
  ASSUME Sound, SubmitOrReject, ~ \E reason : Fail(reason)
  PROVE  /\ pc = "intents" /\ UNCHANGED <<riskVars, accountVars, pending, event, failure>>
         /\ pc' = "note" => Offer' = Offer /\ Check(Offer[1], Offer[2], cash, position, boughtToday)
<1>1. PICK k, intent : k = Offer[1] /\ intent = Offer[2]
  OBVIOUS
<1>2. pc = "intents" /\ UNCHANGED <<riskVars, accountVars, pending, event, failure>>
  BY DEF SubmitOrReject
<1>3. \/ Check(k, intent, cash, position, boughtToday) /\ UNCHANGED offers
      \/ pc' # "note"
  BY <1>1 DEF SubmitOrReject, NextOffer
<1>4. UNCHANGED offers => Offer' = Offer
  BY DEF Offer
<1> QED BY <1>1, <1>2, <1>3, <1>4

(* What the completion of a submission reserves.                           *)
LEMMA NoteReserves ==
  ASSUME Sound, NoteAndReserve, ~ \E reason : Fail(reason)
  PROVE  /\ pc = "note" /\ pc' # "note" /\ UNCHANGED <<orders, accountVars, pending, event, failure>>
         /\ Offer[1] \in Keys /\ Offer[2] \in Intents /\ orders[Offer[1]].intent = Offer[2]
         /\ B!IsOpen(Offer[1]) => Reserve(Offer[1], Offer[2])
         /\ ~B!IsOpen(Offer[1]) => UNCHANGED riskVars
<1>1. pc = "note" /\ pc' # "note" /\ UNCHANGED <<accountVars, pending, event, failure>>
  BY DEF NoteAndReserve, NextOffer
<1>2. UNCHANGED orders
  BY NoteOrders DEF NoteAndReserve
<1>3. Offer[1] \in Keys /\ Offer[2] \in Intents /\ orders[Offer[1]].intent = Offer[2]
  BY <1>1, OfferChosen DEF Sound, Control, Typed
<1>4. /\ B!IsOpen(Offer[1]) => Reserve(Offer[1], Offer[2])
      /\ ~B!IsOpen(Offer[1]) => UNCHANGED riskVars
  BY DEF NoteAndReserve
<1> QED BY <1>1, <1>2, <1>3, <1>4

(* Reserving what fits leaves the sum covered. *)
LEMMA ReserveFits ==
  ASSUME NEW r \in [Keys -> Held], NEW s \in [Keys -> Held], NEW k \in Keys, NEW amount \in Nat,
         NEW available \in Int, s = [r EXCEPT ![k] = Reservation(amount)],
         Fits(amount, r, k, available)
  PROVE  Total(s) <= Precision * available
<1>1. Precision \in Nat
  BY RiskAssumption
<1>2. amount * Precision \in Nat /\ available * Precision = Precision * available
      /\ Precision * available \in Int
  BY <1>1, Products
<1>3. amount = 0 => amount * Precision = 0
  BY <1>1
<1>4. s[k].left = amount * Precision
  BY <1>3 DEF Reservation, NoReservation
<1>5. Total(s) = s[k].left + ReservedByOthers(r, k)
  BY TotalChange
<1>6. amount * Precision + ReservedByOthers(r, k) <= available * Precision
  BY DEF Fits
<1> QED BY <1>2, <1>4, <1>5, <1>6

(* When fractions are exact every step keeps the shares covered.           *)
LEMMA SharesStep ==
  ASSUME ExactFractions, Sound, HoldInv, SharesInv, [Next]_vars
  PROVE  SharesInv'
<1>1. Sound' /\ Typed /\ Typed'
  BY SoundStep DEF Sound
<1>2. CASE \E reason : Fail(reason)
  <2>1. /\ Total(positionReserved') = 0 /\ pc' = "failed"
        /\ position' = InitialPosition /\ boughtToday' = 0
    BY <1>2, FailAccount
  <2>2. Settled' \in Nat
    BY <2>1, EngineAssumption DEF Settled
  <2>3. 0 <= Precision * Settled'
    <3> PICK x : x = Settled'
      OBVIOUS
    <3>1. Precision * x \in Nat
      BY <2>2, Products, RiskAssumption
    <3> QED BY <3>1
  <2>4. Total(positionReserved)' <= Precision * Settled'
    BY <2>1, <2>3
  <2> QED BY <2>1, <2>4 DEF SharesInv
<1>3. CASE (NextEvent \/ CheckOpenOrder \/ CheckDone \/ Match \/ ExpireImmediate \/ RuntimeCheck \/ EndOfStream)
           /\ ~ \E reason : Fail(reason)
  <2>1. /\ Total(positionReserved') <= Total(positionReserved)
        /\ UNCHANGED position /\ (boughtToday' = boughtToday \/ boughtToday' = 0)
    BY <1>3, ClosingShrinks DEF Closing
  <2>2. pc' # "note"
    <3>1. CASE NextEvent
      BY <1>3, <3>1 DEF NextEvent
    <3>2. CASE CheckOpenOrder \/ CheckDone \/ Match \/ ExpireImmediate \/ RuntimeCheck \/ EndOfStream
      BY <3>2 DEF CheckOpenOrder, CheckDone, Match, ExpireImmediate, RuntimeCheck, EndOfStream
    <3> QED BY <1>3, <3>1, <3>2
  <2>3. Settled \in Int /\ Settled' \in Int /\ Settled <= Settled'
    <3>1. position \in Nat /\ boughtToday \in Nat /\ position' = position
      BY <1>1, <2>1 DEF Typed
    <3>2. CASE boughtToday' = boughtToday
      BY <3>1, <3>2 DEF Settled
    <3>3. CASE boughtToday' = 0
      <4>1. Settled' = position
        BY <3>1, <3>3 DEF Settled
      <4>2. Settled \in Int /\ Settled <= position
        BY <1>1, SettledType
      <4> QED BY <3>1, <4>1, <4>2
    <3> QED BY <2>1, <3>2, <3>3
  <2>4. Total(positionReserved') <= Precision * Settled'
    <3> PICK t, t1, s, s1 : t = Total(positionReserved) /\ t1 = Total(positionReserved')
                            /\ s = Settled /\ s1 = Settled'
      OBVIOUS
    <3>1. s \in Int /\ s1 \in Int /\ s <= s1 /\ t1 <= t /\ t <= Precision * s
      BY <2>1, <2>3 DEF SharesInv
    <3>2. Precision * s <= Precision * s1 /\ Precision * s \in Int /\ Precision * s1 \in Int
      <4>1. Precision \in Nat
        BY RiskAssumption
      <4>2. Precision * s <= Precision * s1
        BY <3>1, <4>1, Grows
      <4>3. \A x \in Int : Precision * x \in Int
        BY <4>1
      <4> QED BY <3>1, <4>2, <4>3
    <3>3. t \in Nat /\ t1 \in Nat
      BY <1>1, TotalType DEF Typed
    <3>4. t1 <= Precision * s1
      <4> DEFINE a == Precision * s
                 b == Precision * s1
      <4>1. t1 <= t /\ t <= a /\ a <= b /\ a \in Int /\ b \in Int
        BY <3>1, <3>2
      <4> HIDE DEF a, b
      <4>2. t1 <= b
        BY <3>3, <4>1
      <4> QED BY <4>2 DEF b
    <3> QED BY <3>4
  <2>5. Total(positionReserved)' <= Precision * Settled'
    BY <2>4
  <2> QED BY <2>2, <2>5 DEF SharesInv
<1>4. CASE UNCHANGED vars
  <2>1. UNCHANGED <<orders, positionReserved, market, pc, offers, position, boughtToday>>
    BY <1>4 DEF vars, brokerVars, riskVars, loopVars, accountVars
  <2>2. Offer' = Offer /\ Settled' = Settled
    BY <2>1 DEF Offer, Settled
  <2> QED BY <2>1, <2>2 DEF SharesInv, B!IsOpen
<1>5. CASE CommitFill /\ ~ \E reason : Fail(reason)
  <2>1. PICK fill \in AnyFill : Committed(fill)
    BY <1>5, CommitEffect
  <2>2. pc = "commit" /\ pc' # "note"
    BY <1>5, <2>1 DEF CommitFill, Committed
  <2>3. Tracks(fill.key)
    BY <2>1, <2>2 DEF HoldInv, AnyFill
  <2>4. Total(positionReserved') <= Precision * Settled'
    BY <1>1, <2>1, <2>3, SharesCommit
  <2>5. Total(positionReserved)' <= Precision * Settled'
    BY <2>4
  <2> QED BY <2>2, <2>5 DEF SharesInv
<1>6. CASE SubmitOrReject /\ ~ \E reason : Fail(reason)
  <2>1. /\ UNCHANGED <<positionReserved, market, position, boughtToday>>
        /\ pc' = "note" => Offer' = Offer /\ Check(Offer[1], Offer[2], cash, position, boughtToday)
    BY <1>6, SubmitFits DEF riskVars, accountVars
  <2>2. Settled' = Settled /\ Total(positionReserved)' = Total(positionReserved)
    BY <2>1 DEF Settled
  <2>3. ASSUME pc' = "note", Offer'[2].side = "SELL"
        PROVE  Fits(PositionRequired(Offer[2]), positionReserved, Offer[1], Settled)'
    <3>1. Fits(PositionRequired(Offer[2]), positionReserved, Offer[1], Settled)
      BY <2>1, <2>3 DEF Check, Settled
    <3>2. Offer' = Offer
      BY <2>1, <2>3
    <3> QED BY <2>1, <2>2, <3>1, <3>2
  <2> QED BY <2>2, <2>3 DEF SharesInv
<1>7. CASE NoteAndReserve /\ ~ \E reason : Fail(reason)
  <2>1. PICK k, intent : k = Offer[1] /\ intent = Offer[2]
    OBVIOUS
  <2>2. /\ pc = "note" /\ pc' # "note" /\ UNCHANGED <<position, boughtToday>>
        /\ k \in Keys /\ intent \in Intents
        /\ B!IsOpen(k) => Reserve(k, intent)
        /\ ~B!IsOpen(k) => UNCHANGED positionReserved
    BY <1>7, <2>1, NoteReserves DEF accountVars, riskVars
  <2>3. Settled' = Settled /\ Settled \in Int
    BY <1>1, <2>2, SettledType DEF Settled
  <2>4. CASE UNCHANGED positionReserved
    BY <2>2, <2>3, <2>4 DEF SharesInv
  <2>5. CASE B!IsOpen(k) /\ intent.side = "SELL"
    <3>1. positionReserved' = [positionReserved EXCEPT ![k] = Reservation(PositionRequired(intent))]
      BY <2>2, <2>5 DEF Reserve
    <3>2. Fits(PositionRequired(intent), positionReserved, k, Settled)
      BY <2>1, <2>2, <2>5 DEF SharesInv
    <3>3. PositionRequired(intent) \in Nat
      BY <2>2, <2>5, SellRequires
    <3>4. positionReserved \in [Keys -> Held] /\ positionReserved' \in [Keys -> Held]
      BY <1>1 DEF Typed
    <3>5. Total(positionReserved') <= Precision * Settled
      BY <2>2, <2>3, <3>1, <3>2, <3>3, <3>4, ReserveFits
    <3>6. Total(positionReserved)' <= Precision * Settled'
      BY <2>3, <3>5
    <3> QED BY <2>2, <3>6 DEF SharesInv
  <2> QED BY <2>2, <2>4, <2>5 DEF Reserve
<1> QED BY <1>2, <1>3, <1>4, <1>5, <1>6, <1>7 DEF Next, Returned, ComponentRaises

-----------------------------------------------------------------------------
(* The pending fills fit their orders.                                     *)

Matched(o) == o.status \in {"ACCEPTED", "PARTIALLY_FILLED", "FILLED"}

PendingInv ==
  /\ \A n \in DOMAIN pending : Matched(orders[pending[n].key]) /\ WithinLimit(pending[n])
  /\ \A k \in Keys : Filling(pending, k) <= Remainder(orders[k])

(* Nothing overfilled. *)
LEMMA RemainderType == ASSUME Sound, NEW k \in Keys PROVE Remainder(orders[k]) \in Nat
<1>1. orders[k].filled \in Nat /\ orders[k].intent.quantity \in Nat
  BY Clock
<1>2. orders[k].filled <= orders[k].intent.quantity
  BY DEF Sound, BrokerSound, B!QuantityConserved
<1> QED BY <1>1, <1>2 DEF Remainder

(* A batch fills within the limits of the orders. *)
LEMMA BatchLimited ==
  ASSUME NEW batch \in Batches, NEW n \in DOMAIN batch
  PROVE  WithinLimit(batch[n])
<1> DEFINE F == {f \in Fills : WithinLimit(f)}
<1>1. batch \in BoundedSeq(F, MaxBatch)
  BY DEF Batches
<1>2. PICK m \in 0..MaxBatch : batch \in [1..m -> F]
  BY <1>1 DEF BoundedSeq, SeqOf
<1>3. batch[n] \in F
  <2> HIDE DEF F
  <2> QED BY <1>2
<1> QED BY <1>3

(* A limit is kept as long as the order is the same. *)
LEMMA LimitSame ==
  ASSUME NEW fill, orders'[fill.key].intent = orders[fill.key].intent, WithinLimit(fill)
  PROVE  WithinLimit(fill)'
BY DEF WithinLimit

(* Every step keeps the pending fills fitting.                             *)
LEMMA PendingStep == Sound /\ PendingInv /\ [Next]_vars => PendingInv'
<1> SUFFICES ASSUME Sound, PendingInv, [Next]_vars PROVE PendingInv'
  OBVIOUS
<1>1. Sound'
  BY SoundStep
<1>2. \A k \in Keys : Remainder(orders'[k]) \in Nat
  <2>1. \A k \in Keys : orders'[k].filled \in Nat /\ orders'[k].intent.quantity \in Nat
    <3>1. \A k \in Keys : orders'[k].intent \in Intents \cup {B!NoIntent} /\ orders'[k].filled \in 0..MaxQuantity
      BY <1>1 DEF Sound, BrokerSound, B!TypeOK, B!Orders
    <3>2. \A i \in Intents \cup {B!NoIntent} : i.quantity \in Nat
      BY EngineAssumption DEF B!NoIntent
    <3>3. MaxQuantity \in Nat
      BY EngineAssumption
    <3> QED BY <3>1, <3>2, <3>3
  <2>2. \A k \in Keys : orders'[k].filled <= orders'[k].intent.quantity
    BY <1>1 DEF Sound, BrokerSound, B!QuantityConserved
  <2> QED BY <2>1, <2>2 DEF Remainder
<1>3. CASE pending' = <<>>
  <2>1. \A k \in Keys : Filling(pending', k) <= Remainder(orders'[k])
    BY <1>2, <1>3, FillingEmpty
  <2>2. DOMAIN pending' = {}
    BY <1>3
  <2>3. \A k : Filling(pending, k)' = Filling(pending', k)
    BY DEF Filling
  <2> QED BY <2>1, <2>2, <2>3 DEF PendingInv
<1>4. CASE pending' # <<>> /\ Match
  <2>1. PICK batch : /\ batch \in Batches \/ batch = <<>>
                     /\ UNCHANGED pending \/ (pending' = batch /\ UNCHANGED brokerVars)
    BY <1>4 DEF Match
  <2>2. pending = <<>>
    BY <1>4 DEF Match, Sound, Control
  <2>3. batch \in Batches /\ pending' = batch /\ UNCHANGED orders
    BY <1>4, <2>1, <2>2 DEF brokerVars
  <2>4. /\ batch \in Seq(AnyFill) /\ \A n \in DOMAIN batch : batch[n].key \in openIds
        /\ \A k \in openIds : Filling(batch, k) <= B!Remaining(k)
    BY <2>3, BatchTyped DEF Sound
  <2>5. \A n \in DOMAIN pending' : Matched(orders'[pending'[n].key])
    <3>1. \A k \in openIds : Matched(orders[k])
      BY DEF Sound, BrokerSound, B!TypeOK, B!IndexesAgree, B!IsOpen, B!OpenStatus, Matched
    <3> QED BY <2>3, <2>4, <3>1
  <2>6. \A n \in DOMAIN pending' : WithinLimit(pending[n])'
    <3>1. \A n \in DOMAIN batch : WithinLimit(batch[n])'
      BY <2>3, BatchLimited, LimitSame
    <3> QED BY <2>3, <3>1 DEF WithinLimit
  <2>7. ASSUME NEW k \in Keys PROVE Filling(pending, k)' <= Remainder(orders'[k])
    <3>1. Filling(pending, k)' = Filling(batch, k)
      BY <2>3 DEF Filling
    <3>2. CASE k \in openIds
      BY <2>3, <2>4, <3>1, <3>2 DEF B!Remaining, Remainder
    <3>3. CASE k \notin openIds
      BY <1>2, <2>4, <3>1, <3>3, FillingNone
    <3> QED BY <3>2, <3>3
  <2> QED BY <2>5, <2>6, <2>7 DEF PendingInv
<1>5. CASE CommitFill /\ ~ \E reason : Fail(reason)
  <2>1. PICK fill \in AnyFill : Committed(fill)
    BY <1>5, CommitEffect
  <2>2. pending \in Seq(AnyFill) /\ pending # <<>> /\ fill = Head(pending) /\ pending' = Tail(pending)
    BY <1>5, <2>1 DEF CommitFill, Sound, Control, Typed, Committed
  <2>3. PICK key, q, o : key = fill.key /\ q = fill.quantity /\ o = orders[key]
    OBVIOUS
  <2>4. /\ key \in Keys /\ q \in Nat \ {0} /\ Remainder(o) \in Nat
        /\ orders'[key].intent = o.intent /\ Remainder(orders'[key]) = Remainder(o) - q
        /\ \A j \in Keys \ {key} : orders'[j] = orders[j]
    BY <1>1, <2>1, <2>3, CommitFacts
  <2>5. Matched(orders'[key])
    <3>1. PICK to \in {"FILLED", "PARTIALLY_FILLED"} : B!MoveAll({key}, to, q)
      BY <2>1, <2>3 DEF Committed
    <3>2. orders'[key] = B!Moved(orders[key], to, q)
      BY <2>4, <3>1 DEF B!MoveAll
    <3>3. orders'[key].status = to
      BY <3>2 DEF B!Moved
    <3> QED BY <3>3 DEF Matched
  <2>6. \A n \in DOMAIN Tail(pending) : n + 1 \in DOMAIN pending /\ Tail(pending)[n] = pending[n + 1]
                                        /\ pending[n + 1].key \in Keys
    <3>1. Len(pending) \in Nat \ {0} /\ DOMAIN pending = 1..Len(pending)
      BY <2>2
    <3>2. /\ Tail(pending) \in Seq(AnyFill) /\ Len(Tail(pending)) = Len(pending) - 1
          /\ \A n \in 1..Len(Tail(pending)) : Tail(pending)[n] = pending[n + 1]
      BY <2>2, HeadTailProperties
    <3>3. DOMAIN Tail(pending) = 1..(Len(pending) - 1)
      BY <3>2, LenProperties
    <3>4. \A n \in DOMAIN pending : pending[n] \in AnyFill
      BY <2>2
    <3> DEFINE L == Len(pending)
    <3>5. L \in Nat \ {0} /\ \A n \in 1..(L - 1) : n + 1 \in 1..L
      BY <3>1
    <3> QED BY <3>1, <3>2, <3>3, <3>4, <3>5 DEF AnyFill
  <2>7. \A k \in Keys : orders'[k].intent = orders[k].intent /\ (Matched(orders[k]) => Matched(orders'[k]))
    BY <2>3, <2>4, <2>5
  <2>8. \A n \in DOMAIN pending' : Matched(orders'[pending'[n].key]) /\ WithinLimit(pending[n])'
    <3> SUFFICES ASSUME NEW n \in DOMAIN Tail(pending)
                 PROVE  Matched(orders'[Tail(pending)[n].key]) /\ WithinLimit(pending[n])'
      BY <2>2
    <3>1. PICK f : f = Tail(pending)[n]
      OBVIOUS
    <3>2. f.key \in Keys /\ Matched(orders[f.key]) /\ WithinLimit(f)
      BY <2>6, <3>1 DEF PendingInv
    <3>3. WithinLimit(f)' /\ Matched(orders'[f.key])
      BY <2>7, <3>2, LimitSame
    <3> QED BY <2>2, <3>1, <3>3 DEF WithinLimit
  <2>9. ASSUME NEW k \in Keys PROVE Filling(pending, k)' <= Remainder(orders'[k])
    <3> DEFINE part == IF key = k THEN q ELSE 0
               rest == Filling(Tail(pending), k)
               all  == Filling(pending, k)
    <3>1. all = part + rest /\ rest \in Nat
      BY <2>2, <2>3, FillingTail
    <3>2. Filling(pending, k)' = rest
      BY <2>2 DEF Filling
    <3>3. all <= Remainder(orders[k]) /\ Remainder(orders[k]) \in Nat
      BY RemainderType DEF PendingInv
    <3>4. Remainder(orders'[k]) = Remainder(orders[k]) - part
      BY <2>3, <2>4, <3>3
    <3>5. part \in Nat
      BY <2>4
    <3> HIDE DEF part, rest, all
    <3> QED BY <3>1, <3>2, <3>3, <3>4, <3>5
  <2> QED BY <2>8, <2>9 DEF PendingInv
<1>6. CASE UNCHANGED vars
  BY <1>6 DEF vars, brokerVars, loopVars, PendingInv, WithinLimit, Filling
<1>7. pending' # <<>> => Match \/ (CommitFill /\ ~ \E reason : Fail(reason)) \/ UNCHANGED vars
  <2>1. ASSUME \E reason : Fail(reason) PROVE pending' = <<>>
    BY <2>1, FailOrders
  <2>2. ASSUME pc # "commit", pending' # <<>> PROVE ~UNCHANGED pending
    BY <2>2 DEF Sound, Control
  <2> SUFFICES ASSUME pending' # <<>>, ~Match, ~CommitFill PROVE UNCHANGED vars
    BY <2>1
  <2>3. CASE NextEvent \/ CheckOpenOrder \/ CheckDone \/ ExpireImmediate
    BY <2>1, <2>2, <2>3 DEF NextEvent, CheckOpenOrder, CheckDone, ExpireImmediate
  <2>4. CASE RuntimeCheck \/ SubmitOrReject \/ NoteAndReserve \/ ComponentRaises \/ EndOfStream
    BY <2>1, <2>2, <2>4 DEF RuntimeCheck, SubmitOrReject, NoteAndReserve, ComponentRaises, EndOfStream
  <2> QED BY <2>3, <2>4 DEF Next, Returned
<1> QED BY <1>3, <1>4, <1>5, <1>6, <1>7

(* The fill to be committed next goes to an open order and fits it.        *)
LEMMA HeadFits ==
  ASSUME Sound, PendingInv, pc = "commit", NEW fill, fill = Head(pending)
  PROVE  /\ fill \in AnyFill /\ fill.key \in Keys /\ fill = pending[1] /\ 1 \in DOMAIN pending
         /\ OpenOrder(orders[fill.key]) /\ WithinLimit(fill)
         /\ fill.quantity \in Nat \ {0} /\ fill.price \in Nat /\ Remainder(orders[fill.key]) \in Nat
         /\ fill.quantity <= Remainder(orders[fill.key])
         /\ orders[fill.key].intent \in Intents
<1>1. pending \in Seq(AnyFill) /\ pending # <<>>
  BY DEF Sound, Control, Typed
<1>2. fill \in AnyFill /\ fill = pending[1] /\ 1 \in DOMAIN pending
  BY <1>1
<1>3. fill.key \in Keys /\ fill.quantity \in 1..MaxQuantity /\ fill.price \in Prices
  BY <1>2 DEF AnyFill
<1>4. MaxQuantity \in Nat /\ Prices \subseteq Nat
  BY EngineAssumption
<1>5. fill.quantity \in Nat \ {0} /\ fill.price \in Nat
  <2>1. \A n \in Nat : \A x \in 1..n : x \in Nat \ {0}
    OBVIOUS
  <2>2. fill.quantity \in Nat \ {0}
    BY <1>3, <1>4, <2>1
  <2>3. fill.price \in Nat
    BY <1>3, <1>4
  <2> QED BY <2>2, <2>3
<1>6. Matched(orders[fill.key]) /\ WithinLimit(fill)
  BY <1>2 DEF PendingInv
<1>7. Remainder(orders[fill.key]) \in Nat
  BY <1>3, RemainderType
<1>8. fill.quantity <= Remainder(orders[fill.key])
  <2> DEFINE all == Filling(pending, fill.key)
             rest == Filling(Tail(pending), fill.key)
  <2>1. all = fill.quantity + rest /\ rest \in Nat
    BY <1>1, FillingTail
  <2>2. all <= Remainder(orders[fill.key])
    BY <1>3 DEF PendingInv
  <2> HIDE DEF all, rest
  <2> QED BY <1>5, <1>7, <2>1, <2>2
<1>9. B!Known(fill.key)
  BY <1>6 DEF Matched, B!Known
<1>10. OpenOrder(orders[fill.key])
  <2>1. orders[fill.key].status = "FILLED" => Remainder(orders[fill.key]) = 0
    <3>1. orders[fill.key].filled \in Nat /\ orders[fill.key].intent.quantity \in Nat
      BY <1>3, Clock
    <3>2. orders[fill.key].status = "FILLED" => orders[fill.key].filled = orders[fill.key].intent.quantity
      BY <1>3, <1>9 DEF Sound, BrokerSound, B!QuantityConserved
    <3> QED BY <3>1, <3>2 DEF Remainder
  <2>2. orders[fill.key].status # "FILLED"
    BY <1>5, <1>7, <1>8, <2>1
  <2> QED BY <1>6, <2>2 DEF Matched, OpenOrder, B!OpenStatus
<1>11. orders[fill.key].intent \in Intents
  BY <1>3, <1>9 DEF Sound, BrokerSound, Presented
<1> QED BY <1>2, <1>3, <1>5, <1>6, <1>7, <1>8, <1>10, <1>11

-----------------------------------------------------------------------------
(* The money.  A fee is no more than the notional it is charged on.        *)
ModestFee == FeeRate <= 1

(* What a fill costs or brings, with its fee. *)
LEMMA FillAmounts ==
  ASSUME NEW q \in Nat, NEW price \in Nat, NEW notional, notional = q * price,
         NEW fee, fee = notional * FeeRate
  PROVE  /\ notional \in Nat /\ fee \in Nat /\ q * (price * (1 + FeeRate)) \in Nat
         /\ notional + fee = q * (price * (1 + FeeRate))
         /\ ModestFee => fee <= notional
<1>1. FeeRate \in Nat /\ 1 + FeeRate \in Nat
  BY RiskAssumption
<1>2. notional \in Nat
  BY Products
<1>3. fee \in Nat
  BY <1>1, <1>2, Products
<1>4. notional * (1 + FeeRate) = notional * 1 + notional * FeeRate /\ notional * 1 = notional
  BY <1>1, <1>2, Products
<1>5. q * (price * (1 + FeeRate)) = (q * price) * (1 + FeeRate)
  BY <1>1, Products
<1>6. price * (1 + FeeRate) \in Nat
  BY <1>1, Products
<1>7. q * (price * (1 + FeeRate)) \in Nat
  BY <1>6, Products
<1>8. notional + fee = q * (price * (1 + FeeRate))
  BY <1>4, <1>5
<1>9. ModestFee => fee <= notional
  <2> SUFFICES ASSUME ModestFee PROVE fee <= notional
    OBVIOUS
  <2>1. notional * 0 = 0 /\ notional * 1 = notional
    BY <1>2
  <2>2. CASE FeeRate = 0
    BY <1>2, <2>1, <2>2
  <2>3. CASE FeeRate = 1
    BY <1>2, <2>1, <2>3
  <2>4. FeeRate = 0 \/ FeeRate = 1
    BY RiskAssumption DEF ModestFee
  <2> QED BY <2>2, <2>3, <2>4
<1> QED BY <1>2, <1>3, <1>7, <1>8, <1>9

(* As long as every buy has a limit, what a fill within it costs is        *)
(* reserved, and so it is in the account.                                  *)
LEMMA BuyCovered ==
  ASSUME Sound, ExactFractions, MoneyInv, LimitedBuys, PendingInv, pc = "commit",
         NEW fill, fill = Head(pending), Tracks(fill.key), orders[fill.key].intent.side = "BUY",
         NEW u, UnitAmount(orders[fill.key].intent, u),
         cashReserved[fill.key] = HeldFor(orders[fill.key].intent.quantity, Remainder(orders[fill.key]), u)
  PROVE  LET cost == fill.quantity * (fill.price * (1 + FeeRate))
         IN  /\ cost \in Nat /\ cost <= cash
             /\ Precision * cost <= Precision * (fill.quantity * u)
<1>1. PICK k, q, p, rem, Q, i : /\ k = fill.key /\ q = fill.quantity /\ p = fill.price
                                /\ rem = Remainder(orders[k]) /\ Q = orders[k].intent.quantity
                                /\ i = orders[k].intent
  OBVIOUS
<1>2. /\ k \in Keys /\ OpenOrder(orders[k]) /\ WithinLimit(fill) /\ i \in Intents
      /\ q \in Nat \ {0} /\ p \in Nat /\ rem \in Nat /\ q <= rem
  BY <1>1, HeadFits
<1>3. i.limit # NoPrice
  <2>1. B!Known(k)
    BY <1>2 DEF OpenOrder, B!Known, B!OpenStatus
  <2> QED BY <1>1, <1>2, <2>1 DEF LimitedBuys
<1>4. p <= i.limit /\ i.limit \in Nat
  <2>1. i.limit \in Nat
    BY <1>2, LimitType
  <2>2. fill.price <= orders[fill.key].intent.limit
    BY <1>1, <1>2, <1>3 DEF WithinLimit
  <2> QED BY <1>1, <2>1, <2>2
<1>5. u = i.limit * (1 + FeeRate) /\ u \in Nat /\ 1 + FeeRate \in Nat /\ Precision \in Nat \ {0}
  BY <1>1, <1>3, RiskAssumption DEF UnitAmount
<1> DEFINE w == p * (1 + FeeRate)
           cost == q * w
<1>6. w \in Nat /\ w <= u
  BY <1>2, <1>4, <1>5, Products, Grows
<1> HIDE DEF w
<1>7. cost \in Nat /\ q * u \in Nat /\ cost <= q * u
  BY <1>2, <1>5, <1>6, Products, Grows
<1> DEFINE qu == q * u
<1> HIDE DEF cost, qu
<1>8. Precision * cost <= Precision * qu /\ Precision * cost \in Nat /\ Precision * qu \in Nat
  BY <1>5, <1>7, Grows, Products DEF qu
<1>9. Precision * qu <= HeldFor(Q, rem, u).left /\ HeldFor(Q, rem, u).left \in Nat
  BY <1>2, <1>5, FillReleases DEF qu
<1>10. /\ cashReserved[k].left <= Total(cashReserved) /\ Total(cashReserved) \in Nat
       /\ cash \in Nat
  BY <1>2, TotalChange DEF Sound, Typed
<1>11. Total(cashReserved) <= Precision * cash /\ Precision * cash \in Nat
  BY <1>5, <1>10, Products DEF MoneyInv
<1>12. Precision * cost <= Precision * cash
  <2> DEFINE a == Precision * cost
             b == Precision * qu
             c == HeldFor(Q, rem, u).left
             d == Total(cashReserved)
             e == Precision * cash
  <2>1. a <= b /\ b <= c /\ c <= d /\ d <= e /\ a \in Nat /\ b \in Nat /\ c \in Nat /\ d \in Nat /\ e \in Nat
    BY <1>1, <1>8, <1>9, <1>10, <1>11
  <2> HIDE DEF a, b, c, d, e
  <2>2. a <= e
    BY <2>1
  <2> QED BY <2>2 DEF a, e
<1>13. cost <= cash
  <2> SUFFICES ASSUME ~(cost <= cash) PROVE FALSE
    OBVIOUS
  <2>1. cash + 1 <= cost /\ cash + 1 \in Nat
    BY <1>7, <1>10
  <2>2. Precision * (cash + 1) <= Precision * cost
    BY <1>5, <1>7, <2>1, Grows
  <2>3. Precision * (cash + 1) = Precision * cash + Precision * 1 /\ Precision * 1 = Precision
    BY <1>5, <1>10, Products
  <2> DEFINE x == Precision * cash
             y == Precision * cost
             z == Precision * (cash + 1)
  <2>4. z <= y /\ y <= x /\ z = x + Precision /\ x \in Nat /\ y \in Nat
    BY <1>8, <1>11, <1>12, <2>2, <2>3
  <2> HIDE DEF x, y, z
  <2> QED BY <1>5, <2>4
<1> QED BY <1>1, <1>7, <1>8, <1>13 DEF cost, w, qu

(* A commitment keeps the money covered. *)
LEMMA MoneyCommit ==
  ASSUME Sound, Sound', ExactFractions, ModestFee, MoneyInv, PendingInv, pc = "commit",
         NEW fill \in AnyFill, Committed(fill), Tracks(fill.key), LimitedBuys'
  PROVE  Total(cashReserved') <= Precision * cash'
<1>1. PICK k, q, p, o, i : /\ k = fill.key /\ q = fill.quantity /\ p = fill.price
                           /\ o = orders[k] /\ i = o.intent
  OBVIOUS
<1>2. /\ fill = Head(pending) /\ k \in Keys /\ i \in Intents /\ OpenOrder(o)
      /\ q \in Nat /\ p \in Nat /\ Remainder(o) \in Nat /\ q <= Remainder(o)
  BY <1>1, HeadFits DEF Committed
<1>3. i.side \in {"BUY", "SELL"}
  BY <1>2, EngineAssumption
<1>4. LimitedBuys
  <2>1. \A j \in Keys \ {k} : SameOrder(j)
    BY <1>1, CommitOrders DEF Sound, BrokerSound
  <2>2. orders'[k].intent = orders[k].intent /\ B!Known(k)'
    BY <1>1, CommitOrders DEF Sound, BrokerSound
  <2> QED BY <2>1, <2>2 DEF LimitedBuys, SameOrder
<1>5. PICK notional, fee : notional = q * p /\ fee = notional * FeeRate
  OBVIOUS
<1>6. /\ notional \in Nat /\ fee \in Nat /\ notional + fee = q * (p * (1 + FeeRate))
      /\ fee <= notional
  BY <1>2, <1>5, FillAmounts
<1>7. /\ i.side = "BUY"  => cash' = cash - notional - fee
      /\ i.side = "SELL" => cash' = cash + notional - fee
  BY <1>1, <1>3, <1>5 DEF Committed, PostFill
<1>8. /\ cashReserved \in [Keys -> Held] /\ cashReserved' \in [Keys -> Held]
      /\ \A j \in Keys \ {k} : cashReserved'[j] = cashReserved[j]
  BY <1>1, CommitReleases DEF Sound, Typed
<1>9. /\ Total(cashReserved') = (Total(cashReserved) - cashReserved[k].left) + cashReserved'[k].left
      /\ Total(cashReserved) \in Nat /\ cashReserved[k].left \in Nat /\ cashReserved'[k].left \in Nat
  BY <1>2, <1>8, TotalChange
<1>10. Total(cashReserved) <= Precision * cash /\ cash \in Nat /\ Precision \in Nat
  BY <1>4, RiskAssumption DEF MoneyInv, Sound, Typed
<1> DEFINE t  == Total(cashReserved)
           t1 == Total(cashReserved')
           l  == cashReserved[k].left
           l1 == cashReserved'[k].left
<1>11. CASE i.side = "BUY"
  <2>1. PICK u : /\ UnitAmount(i, u)
                 /\ cashReserved[k] = HeldFor(i.quantity, Remainder(o), u)
                 /\ cashReserved'[k] = After(i.quantity, Remainder(o), q, u)
    BY <1>1, <1>11, CommitReleases
  <2>2. u \in Nat
    BY <2>1 DEF UnitAmount
  <2>3. l1 = l - Precision * (q * u) /\ Precision * (q * u) \in Nat
    BY <1>2, <2>1, <2>2, FillReleases
  <2>4. PICK cost : cost = q * (p * (1 + FeeRate))
    OBVIOUS
  <2>5. cost \in Nat /\ Precision * cost <= Precision * (q * u)
    BY <1>1, <1>2, <1>4, <1>11, <2>1, <2>4, BuyCovered
  <2>6. cash' = cash - cost
    BY <1>6, <1>7, <1>10, <1>11, <2>4
  <2>7. Precision * (cash - cost) = Precision * cash - Precision * cost
        /\ Precision * cash \in Nat /\ Precision * cost \in Nat
    BY <1>10, <2>5, Products
  <2> DEFINE a == Precision * cash
             b == Precision * cost
             c == Precision * (q * u)
             d == Precision * cash'
  <2>8. /\ t1 = (t - l) + l1 /\ l1 = l - c /\ t <= a /\ b <= c /\ d = a - b
        /\ t \in Nat /\ l \in Nat /\ a \in Nat /\ b \in Nat /\ c \in Nat
    BY <1>9, <1>10, <2>3, <2>5, <2>6, <2>7
  <2>9. t1 <= d
    <3> HIDE DEF t, t1, l, l1, a, b, c, d
    <3> QED BY <2>8
  <2> QED BY <2>9
<1>12. CASE i.side = "SELL"
  <2>1. cashReserved'[k] = cashReserved[k]
    BY <1>1, <1>12, CommitReleases
  <2>2. t1 = t /\ t \in Nat
    <3>1. t1 = (t - l) + l /\ t \in Nat /\ l \in Nat
      BY <1>9, <2>1
    <3> HIDE DEF t, t1, l
    <3> QED BY <3>1
  <2>3. cash <= cash' /\ cash' \in Int
    BY <1>6, <1>7, <1>10, <1>12
  <2> DEFINE a == Precision * cash
             b == Precision * cash'
  <2>4. a <= b /\ a \in Int /\ b \in Int
    <3> PICK c1 : c1 = cash'
      OBVIOUS
    <3>1. cash \in Int /\ c1 \in Int /\ cash <= c1 /\ Precision \in Nat
      BY <1>10, <2>3
    <3>2. Precision * cash <= Precision * c1
      BY <3>1, Grows
    <3>3. \A m, n \in Int : m * n \in Int
      OBVIOUS
    <3>4. Precision * cash \in Int /\ Precision * c1 \in Int
      BY <3>1, <3>3
    <3> QED BY <3>2, <3>4
  <2>5. t1 <= b
    <3>1. t <= a
      BY <1>10
    <3> HIDE DEF a, b, t, t1
    <3> QED BY <2>2, <2>4, <3>1
  <2> QED BY <2>5
<1> QED BY <1>3, <1>11, <1>12

(* When fractions are exact and the fee is modest every step keeps the     *)
(* money covered.                                                          *)
LEMMA MoneyStep ==
  ASSUME ExactFractions, ModestFee, Sound, HoldInv, MoneyInv, PendingInv, [Next]_vars
  PROVE  MoneyInv'
<1>1. Sound' /\ Typed /\ Typed'
  BY SoundStep DEF Sound
<1>2. CASE \E reason : Fail(reason)
  <2>1. Total(cashReserved') = 0 /\ pc' = "failed" /\ cash' = InitialCash
    BY <1>2, FailAccount
  <2>2. 0 <= Precision * InitialCash
    <3>1. Precision * InitialCash \in Nat
      BY EngineAssumption, RiskAssumption, Products
    <3> QED BY <3>1
  <2>3. Total(cashReserved)' <= Precision * cash'
    BY <2>1, <2>2
  <2> QED BY <2>1, <2>3 DEF MoneyInv
<1>3. CASE (NextEvent \/ CheckOpenOrder \/ CheckDone \/ Match \/ ExpireImmediate \/ RuntimeCheck \/ EndOfStream)
           /\ ~ \E reason : Fail(reason)
  <2>1. Total(cashReserved') <= Total(cashReserved) /\ UNCHANGED cash
    BY <1>3, ClosingShrinks DEF Closing
  <2>2. pc' # "note"
    <3>1. CASE NextEvent
      BY <1>3, <3>1 DEF NextEvent
    <3>2. CASE CheckOpenOrder \/ CheckDone \/ Match \/ ExpireImmediate \/ RuntimeCheck \/ EndOfStream
      BY <3>2 DEF CheckOpenOrder, CheckDone, Match, ExpireImmediate, RuntimeCheck, EndOfStream
    <3> QED BY <1>3, <3>1, <3>2
  <2>3. \A k \in Keys : SameOrder(k)
    <3>1. CASE NextEvent
      <4>1. PICK at \in Times, day \in Days : B!ExpireAll(B!Due(day), at)
        BY <1>3, <3>1 DEF NextEvent
      <4>2. B!Due(day) \in SUBSET Keys /\ B!TypeOK
        BY DEF B!Due, Sound, BrokerSound, B!TypeOK
      <4> QED BY <4>1, <4>2, ExpireSame
    <3>2. CASE ~NextEvent
      <4>1. PICK S \in SUBSET Keys : Close(S)
        BY <1>3, <3>2, ClosingCloses DEF Closing
      <4> QED BY <4>1 DEF Close
    <3> QED BY <3>1, <3>2
  <2>4. LimitedBuys' => LimitedBuys
    BY <2>3 DEF LimitedBuys, SameOrder
  <2>5. LimitedBuys => Total(cashReserved') <= Precision * cash
    <3> PICK t, t1, x : t = Total(cashReserved) /\ t1 = Total(cashReserved') /\ x = Precision * cash
      OBVIOUS
    <3>1. t1 <= t /\ t \in Nat /\ t1 \in Nat /\ (LimitedBuys => t <= x)
      BY <1>1, <2>1, TotalType DEF MoneyInv, Typed
    <3>2. x \in Nat
      BY <1>1, RiskAssumption, Products DEF Typed
    <3> QED BY <3>1, <3>2
  <2>6. LimitedBuys' => Total(cashReserved)' <= Precision * cash'
    BY <2>1, <2>4, <2>5
  <2> QED BY <2>2, <2>6 DEF MoneyInv
<1>4. CASE UNCHANGED vars
  <2>1. UNCHANGED <<orders, cashReserved, market, pc, offers, cash>>
    BY <1>4 DEF vars, brokerVars, riskVars, loopVars, accountVars
  <2>2. Offer' = Offer /\ (LimitedBuys' <=> LimitedBuys)
    BY <2>1 DEF Offer, LimitedBuys, B!Known
  <2>3. CashRequired(Offer[2])' = CashRequired(Offer[2])
    BY <2>1, <2>2 DEF CashRequired, IntentPrice
  <2> QED BY <2>1, <2>2, <2>3 DEF MoneyInv, B!IsOpen
<1>5. CASE CommitFill /\ ~ \E reason : Fail(reason)
  <2>1. PICK fill \in AnyFill : Committed(fill)
    BY <1>5, CommitEffect
  <2>2. pc = "commit" /\ pc' # "note"
    BY <1>5, <2>1 DEF CommitFill, Committed
  <2>3. Tracks(fill.key)
    BY <2>1, <2>2 DEF HoldInv, AnyFill
  <2>4. LimitedBuys' => Total(cashReserved') <= Precision * cash'
    BY <1>1, <2>1, <2>2, <2>3, MoneyCommit
  <2>5. LimitedBuys' => Total(cashReserved)' <= Precision * cash'
    BY <2>4
  <2> QED BY <2>2, <2>5 DEF MoneyInv
<1>6. CASE SubmitOrReject /\ ~ \E reason : Fail(reason)
  <2>1. /\ UNCHANGED <<cashReserved, market, cash>>
        /\ pc' = "note" => Offer' = Offer /\ Check(Offer[1], Offer[2], cash, position, boughtToday)
    BY <1>6, SubmitFits DEF riskVars, accountVars
  <2>2. LimitedBuys' => LimitedBuys
    <3>1. PICK k, intent : k = Offer[1] /\ intent = Offer[2]
      OBVIOUS
    <3>2. k \in Keys /\ intent \in Intents
      BY <1>6, <3>1, OfferChosen DEF SubmitOrReject, Sound, Control, Typed
    <3>3. \/ IF B!Known(k) THEN UNCHANGED brokerVars ELSE B!Submit(k, intent)
          \/ IF B!Known(k) THEN UNCHANGED brokerVars ELSE B!Reject(k, intent)
      BY <1>6, <3>1 DEF SubmitOrReject
    <3>4. /\ \A j \in Keys \ {k} : SameOrder(j)
          /\ UNCHANGED brokerVars \/ ~B!Known(k)
      BY <3>2, <3>3, SubmitOrders
    <3> QED BY <3>4 DEF LimitedBuys, SameOrder, brokerVars, B!Known
  <2>3. ASSUME pc' = "note", Offer'[2].side = "BUY"
        PROVE  Fits(CashRequired(Offer[2]), cashReserved, Offer[1], cash)'
    <3>1. Fits(CashRequired(Offer[2]), cashReserved, Offer[1], cash)
      BY <2>1, <2>3 DEF Check
    <3>2. Offer' = Offer /\ CashRequired(Offer[2])' = CashRequired(Offer[2])
      BY <2>1, <2>3 DEF CashRequired, IntentPrice
    <3> QED BY <2>1, <3>1, <3>2
  <2>4. Total(cashReserved)' = Total(cashReserved)
    BY <2>1
  <2> QED BY <2>1, <2>2, <2>3, <2>4 DEF MoneyInv
<1>7. CASE NoteAndReserve /\ ~ \E reason : Fail(reason)
  <2>1. PICK k, intent : k = Offer[1] /\ intent = Offer[2]
    OBVIOUS
  <2>2. /\ pc = "note" /\ pc' # "note" /\ UNCHANGED <<orders, cash>>
        /\ k \in Keys /\ intent \in Intents
        /\ B!IsOpen(k) => Reserve(k, intent)
        /\ ~B!IsOpen(k) => UNCHANGED cashReserved
    BY <1>7, <2>1, NoteReserves DEF accountVars, riskVars
  <2>3. LimitedBuys' <=> LimitedBuys
    BY <2>2 DEF LimitedBuys, B!Known
  <2>4. CASE UNCHANGED cashReserved
    BY <2>2, <2>3, <2>4 DEF MoneyInv
  <2>5. CASE B!IsOpen(k) /\ intent.side = "BUY"
    <3>1. cashReserved' = [cashReserved EXCEPT ![k] = Reservation(CashRequired(intent))]
      BY <2>2, <2>5 DEF Reserve
    <3>2. Fits(CashRequired(intent), cashReserved, k, cash)
      BY <2>1, <2>2, <2>5 DEF MoneyInv
    <3>3. CashRequired(intent) \in Nat
      <4>1. IntentPrice(intent) # NoPrice
        BY <2>1, <2>2 DEF HoldInv
      <4> QED BY <1>1, <2>2, <2>5, <4>1, BuyRequires
    <3>4. cashReserved \in [Keys -> Held] /\ cashReserved' \in [Keys -> Held] /\ cash \in Int
      BY <1>1 DEF Typed
    <3>5. Total(cashReserved') <= Precision * cash
      BY <2>2, <3>1, <3>2, <3>3, <3>4, ReserveFits
    <3>6. Total(cashReserved)' <= Precision * cash'
      BY <2>2, <3>5
    <3> QED BY <2>2, <3>6 DEF MoneyInv
  <2> QED BY <2>2, <2>4, <2>5 DEF Reserve
<1> QED BY <1>2, <1>3, <1>4, <1>5, <1>6, <1>7 DEF Next, Returned, ComponentRaises

-----------------------------------------------------------------------------
(* No order is open, nothing is reserved and no fill is pending at first.  *)
LEMMA CoverInit ==
  Init => HoldInv /\ SharesInv /\ MoneyInv /\ PendingInv
<1> SUFFICES ASSUME Init PROVE HoldInv /\ SharesInv /\ MoneyInv /\ PendingInv
  OBVIOUS
<1>1. /\ pc = "idle" /\ pending = <<>> /\ cash = InitialCash /\ position = InitialPosition
      /\ boughtToday = 0
      /\ cashReserved = [k \in Keys |-> NoReservation] /\ positionReserved = [k \in Keys |-> NoReservation]
  BY DEF Init
<1>2. \A k \in Keys : orders[k] = B!NoOrder
  BY DEF Init, B!Init
<1>3. \A k \in Keys : ~OpenOrder(orders[k]) /\ Remainder(orders[k]) = 0
  BY <1>2 DEF OpenOrder, B!OpenStatus, B!NoOrder, B!Created, Remainder, B!NoIntent
<1>4. HoldInv
  <2>1. \A k \in Keys : cashReserved[k] = NoReservation /\ positionReserved[k] = NoReservation
    BY <1>1
  <2> QED BY <1>1, <1>3, <2>1, BackedNone DEF HoldInv, Tracks
<1>5. Total(cashReserved) = 0 /\ Total(positionReserved) = 0
  BY <1>1, TotalZero
<1>6. \A m, n \in Nat : m * n \in Nat /\ 0 <= m * n
  BY Products
<1>7. SharesInv
  <2>1. Settled \in Nat /\ Precision \in Nat
    BY <1>1, EngineAssumption, RiskAssumption DEF Settled
  <2> QED BY <1>1, <1>5, <1>6, <2>1 DEF SharesInv
<1>8. MoneyInv
  <2>1. cash \in Nat /\ Precision \in Nat
    BY <1>1, EngineAssumption, RiskAssumption
  <2> QED BY <1>1, <1>5, <1>6, <2>1 DEF MoneyInv
<1>9. PendingInv
  <2>1. DOMAIN pending = {}
    BY <1>1
  <2>2. \A k \in Keys : Filling(pending, k) = 0
    BY <1>1, FillingEmpty
  <2> QED BY <1>3, <2>1, <2>2 DEF PendingInv
<1> QED BY <1>4, <1>7, <1>8, <1>9

(* When the fractions of the quantities ordered are exact and a fee is no  *)
(* more than its notional, what open orders reserve is always backed: sell *)
(* orders by shares that are held and settled, buy orders with a limit by  *)
(* cash in the account.                                                    *)
THEOREM ReservationsAlwaysCovered ==
  ASSUME ExactFractions, ModestFee
  PROVE  Spec => []ReservationsCovered
<1>1. Sound /\ SharesInv /\ MoneyInv => ReservationsCovered
  <2> SUFFICES ASSUME Sound, SharesInv, MoneyInv PROVE ReservationsCovered
    OBVIOUS
  <2>1. Total(positionReserved) <= Precision * Settled
    BY DEF SharesInv
  <2>2. (\A k \in Keys : B!Known(k) => orders[k].intent.limit # NoPrice) => LimitedBuys
    BY DEF LimitedBuys
  <2>3. LimitedBuys => Total(cashReserved) <= Precision * cash
    BY DEF MoneyInv
  <2> QED BY <2>1, <2>2, <2>3 DEF ReservationsCovered, Total, Settled
<1>2. Sound /\ HoldInv /\ SharesInv /\ MoneyInv /\ PendingInv /\ [Next]_vars
      => HoldInv' /\ SharesInv' /\ MoneyInv' /\ PendingInv'
  BY HoldStep, SharesStep, MoneyStep, PendingStep
<1> QED BY <1>1, <1>2, CoverInit, EngineSound, PTL DEF Spec

(* Within a trading day no share bought on that day is sold: whatever the  *)
(* batches a match returns, a sale that commits takes settled shares only. *)
THEOREM SameDaySharesStay ==
  ASSUME ExactFractions
  PROVE  Spec => BoughtTodayKept
<1> DEFINE Kept == TPlusOne /\ failure' = NoFailure /\ event'.day = event.day => boughtToday' >= boughtToday
<1>1. Sound /\ HoldInv /\ SharesInv /\ PendingInv /\ [Next]_vars => [Kept]_vars
  <2> SUFFICES ASSUME Sound, HoldInv, SharesInv, PendingInv, Next,
                      TPlusOne, failure' = NoFailure, event'.day = event.day
               PROVE  boughtToday' >= boughtToday
    BY DEF Kept
  <2>1. boughtToday \in Nat /\ position \in Nat
    BY DEF Sound, Typed
  <2>2. CASE UNCHANGED accountVars
    BY <2>1, <2>2 DEF accountVars
  <2>3. CASE NextEvent
    <3>1. PICK fact \in Bars \cup StatusEvents, at \in Times, day \in Days : NextEvent!3!(fact, at, day)
      BY <2>3 DEF NextEvent
    <3>2. CASE B!Stuck(day, at) # {}
      BY <3>1, <3>2 DEF Fail, NoFailure
    <3>3. CASE B!Stuck(day, at) = {}
      <4>1. /\ boughtToday' = (IF day > event.day THEN 0 ELSE boughtToday)
            /\ event' = [n |-> event.n + 1, at |-> at, day |-> day, kind |-> fact.kind]
        BY <3>1, <3>3
      <4>2. ~(day > event.day)
        <5>1. event.day \in Nat
          <6>1. event = NoEvent \/ event.day \in Days
            BY DEF Sound, Control
          <6>2. CASE event = NoEvent
            BY <6>2 DEF NoEvent
          <6>3. CASE event.day \in Days
            BY <6>3, EngineAssumption
          <6> QED BY <6>1, <6>2, <6>3
        <5>2. day = event.day
          BY <4>1
        <5> QED BY <5>1, <5>2
      <4> QED BY <2>1, <4>1, <4>2
    <3> QED BY <3>2, <3>3
  <2>4. CASE CommitFill
    <3> DEFINE fill     == Head(pending)
               intent   == orders[fill.key].intent
               notional == fill.quantity * fill.price
               fee      == notional * FeeRate
    <3>1. LedgerRefusal(intent.side, fill.quantity, notional, fee) = NoFailure
      BY <2>4 DEF CommitFill, Fail
    <3>2. pc = "commit" /\ PostFill(intent.side, fill.quantity, notional, fee)
      BY <2>4, <3>1 DEF CommitFill
    <3>3. fill \in AnyFill /\ fill.key \in Keys /\ OpenOrder(orders[fill.key]) /\ intent \in Intents
          /\ fill.quantity \in Nat /\ Remainder(orders[fill.key]) \in Nat
          /\ fill.quantity <= Remainder(orders[fill.key])
      BY <3>2, HeadFits
    <3>4. intent.side \in {"BUY", "SELL"}
      BY <3>3, EngineAssumption
    <3>5. CASE intent.side = "BUY"
      BY <2>1, <3>2, <3>3, <3>5 DEF PostFill
    <3>6. CASE intent.side = "SELL"
      <4>1. Sound'
        BY SoundStep
      <4>2. Tracks(fill.key)
        BY <3>2, <3>3 DEF HoldInv
      <4>3. fill.quantity <= Settled
        BY <3>3, <3>6, <4>1, <4>2, SaleSettled
      <4>4. fill.quantity <= position - boughtToday
        BY <4>3 DEF Settled
      <4>5. boughtToday' = IF position - fill.quantity < boughtToday
                             THEN position - fill.quantity ELSE boughtToday
        BY <3>2, <3>6 DEF PostFill
      <4> QED BY <2>1, <3>3, <4>4, <4>5
    <3> QED BY <3>4, <3>5, <3>6
  <2>5. CASE SubmitOrReject
    BY <2>2, <2>5 DEF SubmitOrReject, Fail, NoFailure
  <2>6. CASE NoteAndReserve
    BY <2>2, <2>6 DEF NoteAndReserve, Fail, NoFailure
  <2>7. CASE ComponentRaises
    BY <2>7 DEF ComponentRaises, Fail, NoFailure
  <2>8. CASE CheckOpenOrder \/ CheckDone \/ Match \/ ExpireImmediate \/ RuntimeCheck \/ EndOfStream \/ Returned
    BY <2>2, <2>8 DEF CheckOpenOrder, CheckDone, Match, ExpireImmediate, RuntimeCheck, EndOfStream,
       Returned, vars
  <2> QED BY <2>3, <2>4, <2>5, <2>6, <2>7, <2>8 DEF Next
<1>2. Sound /\ HoldInv /\ SharesInv /\ PendingInv /\ [Next]_vars => HoldInv' /\ SharesInv' /\ PendingInv'
  BY HoldStep, SharesStep, PendingStep
<1> QED BY <1>1, <1>2, CoverInit, EngineSound, PTL DEF Spec, BoughtTodayKept

Refusal(fill) ==
  LedgerRefusal(orders[fill.key].intent.side, fill.quantity, fill.quantity * fill.price,
                (fill.quantity * fill.price) * FeeRate)

(* Why a run fails: of the ledger's refusals only that of the fill being   *)
(* committed is recorded.                                                  *)
LEMMA FailureCauses ==
  ASSUME [Next]_vars
  PROVE  \/ UNCHANGED failure
         \/ failure' \notin {"short position", "negative cash", NoFailure}
         \/ pc = "commit" /\ Refusal(Head(pending)) # NoFailure /\ failure' = Refusal(Head(pending))
<1>1. CASE NextEvent
  <2>1. PICK fact \in Bars \cup StatusEvents, at \in Times, day \in Days : NextEvent!3!(fact, at, day)
    BY <1>1 DEF NextEvent
  <2> QED BY <2>1 DEF Fail, NoFailure
<1>2. CASE CommitFill
  BY <1>2 DEF CommitFill, Fail, Refusal
<1>3. CASE SubmitOrReject
  BY <1>3 DEF SubmitOrReject, Fail, NoFailure
<1>4. CASE NoteAndReserve
  BY <1>4 DEF NoteAndReserve, Fail, NoFailure
<1>5. CASE ComponentRaises
  BY <1>5 DEF ComponentRaises, Fail, NoFailure
<1>6. CASE CheckOpenOrder \/ CheckDone \/ Match \/ ExpireImmediate \/ RuntimeCheck \/ EndOfStream \/ UNCHANGED vars
  BY <1>6 DEF CheckOpenOrder, CheckDone, Match, ExpireImmediate, RuntimeCheck, EndOfStream, vars, loopVars
<1> QED BY <1>1, <1>2, <1>3, <1>4, <1>5, <1>6 DEF Next, Returned

(* The ledger refuses only a buy that its cash does not cover, and only    *)
(* when some buy order has no limit.                                       *)
LEMMA RefusalCause ==
  ASSUME ExactFractions, ModestFee, Sound, Sound', HoldInv, SharesInv, MoneyInv, PendingInv,
         pc = "commit", NEW fill, fill = Head(pending), Refusal(fill) # NoFailure
  PROVE  Refusal(fill) = "negative cash" /\ orders[fill.key].intent.side = "BUY" /\ ~LimitedBuys
<1>1. PICK q, p, i, notional, fee :
        /\ q = fill.quantity /\ p = fill.price /\ i = orders[fill.key].intent
        /\ notional = q * p /\ fee = notional * FeeRate
  OBVIOUS
<1>2. /\ fill \in AnyFill /\ fill.key \in Keys /\ OpenOrder(orders[fill.key]) /\ i \in Intents
      /\ q \in Nat /\ p \in Nat /\ Remainder(orders[fill.key]) \in Nat
      /\ q <= Remainder(orders[fill.key])
  BY <1>1, HeadFits
<1>3. /\ notional \in Nat /\ fee \in Nat /\ notional + fee = q * (p * (1 + FeeRate))
      /\ fee <= notional
  <2>1. notional = q * p /\ fee = notional * FeeRate /\ q \in Nat /\ p \in Nat
    BY <1>1, <1>2
  <2> QED BY <2>1, FillAmounts
<1>4. cash \in Nat /\ position \in Nat /\ Settled \in Int /\ Settled <= position
  BY SettledType DEF Sound
<1>5. LedgerRefusal(i.side, q, notional, fee) # NoFailure /\ Refusal(fill) = LedgerRefusal(i.side, q, notional, fee)
  BY <1>1 DEF Refusal
<1>6. Tracks(fill.key)
  BY <1>2 DEF HoldInv
<1>7. i.side \in {"BUY", "SELL"}
  BY <1>2, EngineAssumption
<1>8. CASE i.side = "SELL"
  <2>1. q <= Settled
    BY <1>1, <1>2, <1>6, <1>8, SaleSettled
  <2>2. ~(position < q) /\ ~(cash + notional < fee)
    BY <1>2, <1>3, <1>4, <2>1
  <2> QED BY <1>5, <1>8, <2>2 DEF LedgerRefusal
<1>9. CASE i.side = "BUY"
  <2>1. cash < notional + fee /\ LedgerRefusal(i.side, q, notional, fee) = "negative cash"
    BY <1>5, <1>9 DEF LedgerRefusal
  <2>2. ~LimitedBuys
    <3> SUFFICES ASSUME LimitedBuys PROVE FALSE
      OBVIOUS
    <3>1. PICK u : UnitAmount(i, u)
                   /\ cashReserved[fill.key] = HeldFor(i.quantity, Remainder(orders[fill.key]), u)
      BY <1>1, <1>2, <1>6, <1>9 DEF Tracks, Backed
    <3>2. PICK cost : cost = q * (p * (1 + FeeRate))
      OBVIOUS
    <3>3. /\ cashReserved[fill.key] = HeldFor(orders[fill.key].intent.quantity, Remainder(orders[fill.key]), u)
          /\ UnitAmount(orders[fill.key].intent, u) /\ orders[fill.key].intent.side = "BUY"
          /\ cost = fill.quantity * (fill.price * (1 + FeeRate))
      BY <1>1, <1>9, <3>1, <3>2
    <3>4. cost <= cash
      <4>1. LET amount == fill.quantity * (fill.price * (1 + FeeRate))
            IN  amount \in Nat /\ amount <= cash
        BY <1>6, <3>3, BuyCovered
      <4>2. fill.quantity * (fill.price * (1 + FeeRate)) <= cash
        BY <4>1
      <4> QED BY <3>3, <4>2
    <3>5. cost = notional + fee
      BY <1>3, <3>2
    <3>6. cash < notional + fee /\ notional + fee <= cash
      BY <2>1, <3>4, <3>5
    <3>7. notional \in Nat /\ fee \in Nat /\ cash \in Nat
      BY <1>3, <1>4
    <3> QED BY <3>6, <3>7
  <2> QED BY <1>1, <1>5, <1>9, <2>1, <2>2
<1> QED BY <1>7, <1>8, <1>9

(* The checks that precede a commitment leave one way for the ledger to    *)
(* refuse it: a buy batch runs out of cash after some buy without a limit  *)
(* was accepted.  It never refuses a sale.                                 *)
THEOREM OverdraftNeedsMarketBuy ==
  ASSUME ExactFractions, ModestFee
  PROVE  Spec => OnlyMarketBuysOverdraw
<1> DEFINE NoShort == failure # "short position"
           Covered == HoldInv /\ SharesInv /\ MoneyInv /\ PendingInv
           Overdraw ==
             /\ failure' # "short position"
             /\ failure' = "negative cash" /\ failure = NoFailure =>
                  \E n \in DOMAIN pending : /\ orders[pending[n].key].intent.side = "BUY"
                                            /\ \E k \in Keys : /\ B!Known(k)
                                                               /\ orders[k].intent.side = "BUY"
                                                               /\ orders[k].intent.limit = NoPrice
<1>1. Init => NoShort /\ Covered
  BY CoverInit DEF Init, NoFailure
<1>2. Sound /\ Covered /\ [Next]_vars => Covered'
  BY HoldStep, SharesStep, MoneyStep, PendingStep
<1>3. Sound /\ Covered /\ NoShort /\ [Next]_vars => NoShort' /\ Overdraw
  <2> SUFFICES ASSUME Sound, Covered, NoShort, [Next]_vars PROVE NoShort' /\ Overdraw
    OBVIOUS
  <2>1. CASE UNCHANGED failure
    BY <2>1 DEF NoFailure
  <2>2. CASE failure' \notin {"short position", "negative cash", NoFailure}
    BY <2>2
  <2>3. CASE pc = "commit" /\ Refusal(Head(pending)) # NoFailure /\ failure' = Refusal(Head(pending))
    <3>1. Sound'
      BY SoundStep
    <3>2. PICK fill : fill = Head(pending)
      OBVIOUS
    <3>3. Refusal(fill) = "negative cash" /\ orders[fill.key].intent.side = "BUY" /\ ~LimitedBuys
      BY <2>3, <3>1, <3>2, RefusalCause
    <3>4. 1 \in DOMAIN pending /\ fill = pending[1]
      BY <2>3, <3>2, HeadFits
    <3>5. \E k \in Keys : B!Known(k) /\ orders[k].intent.side = "BUY" /\ orders[k].intent.limit = NoPrice
      BY <3>3 DEF LimitedBuys
    <3> QED BY <2>3, <3>2, <3>3, <3>4, <3>5
  <2> QED BY <2>1, <2>2, <2>3, FailureCauses
<1>4. Spec => [][Overdraw]_vars
  BY <1>1, <1>2, <1>3, EngineSound, PTL DEF Spec
<1> QED BY <1>4 DEF OnlyMarketBuysOverdraw
=============================================================================
