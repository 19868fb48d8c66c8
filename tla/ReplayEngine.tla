---------------------------- MODULE ReplayEngine ----------------------------
(***************************************************************************)
(* DeterministicRunEngine.replay (engine.py) driving the broker, the risk  *)
(* gate and the cash account of the ledger through a stream of market      *)
(* events of one cash instrument.  The engine is one sequential program:   *)
(* pc says where it stands in the body of its loop, and every action is    *)
(* one call, or one iteration of an inner loop, of that body.  A raised    *)
(* exception anywhere restores the whole run and ends it (Fail).           *)
(*                                                                         *)
(* The matching model and the strategy are the environment: the model may  *)
(* return any fills a MatchingModel may (Batches), the strategy any        *)
(* intents stamped with the event's time, those presented before included. *)
(***************************************************************************)
EXTENDS RiskGate, Sequences, SequencesExt

CONSTANTS
  Keys, Intents, MaxQuantity, FillIds, CancelIds, Days, Times, \* see Broker
  Prices,           \* prices of bars and of market-order fills
  Latency,          \* latency of the matching model
  MaxEvents,        \* bound: events of a run
  MaxBatch,         \* bound: fills returned by one match
  MaxOffers,        \* bound: intents returned by one strategy callback
  InitialCash, InitialPosition,
  HasPolicies       \* TRUE when risk policies are installed

ASSUME EngineAssumption ==
  /\ Keys \subseteq Nat \ {0} /\ IsFiniteSet(Keys) /\ MaxQuantity \in Nat \ {0}
  /\ Days \subseteq Nat \ {0} /\ Times \subseteq Nat
  /\ Prices \subseteq Nat \ {0}
  /\ Latency \in Nat /\ MaxEvents \in Nat /\ MaxBatch \in Nat \ {0} /\ MaxOffers \in Nat
  /\ InitialCash \in Nat /\ InitialPosition \in Nat
  /\ HasPolicies \in BOOLEAN
  /\ Intents \subseteq [tif : {"DAY", "GTC", "IOC", "FOK"}, side : {"BUY", "SELL"},
                        limit : Prices \cup {NoPrice}, quantity : 1..MaxQuantity, created : Nat]

VARIABLES
  orders, openIds, dayIds, immediateIds, acceptedDay, fillKeys, cancelKeys, log,
  archived, stream, \* the broker's state
  cash, position,   \* the ledger's cash and quantity of the instrument
  boughtToday,      \* acquired_today: quantity in lots opened on this trading day
  pc,               \* where the loop body stands
  event,            \* the event being processed, and its number
  toCheck,          \* open orders the pre-match check has yet to visit
  pending,          \* fills of the accepted batch still to be committed
  offers,           \* intents of the callback still to be submitted
  failure           \* why the run failed closed

B == INSTANCE Broker

brokerVars  == <<orders, openIds, dayIds, immediateIds, acceptedDay, fillKeys,
                 cancelKeys, log, archived, stream>>
accountVars == <<cash, position, boughtToday>>
loopVars    == <<pc, event, toCheck, pending, offers, failure>>
vars        == <<brokerVars, riskVars, accountVars, loopVars>>

NoEvent   == [n |-> 0, at |-> 0, day |-> 0, kind |-> "none"]
NoFailure == "none"

Init ==
  /\ B!Init
  /\ market = [price |-> NoPrice, status |-> "open"]
  /\ cashReserved = [k \in Keys |-> NoReservation]
  /\ positionReserved = [k \in Keys |-> NoReservation]
  /\ cash = InitialCash /\ position = InitialPosition /\ boughtToday = 0
  /\ pc = "idle" /\ event = NoEvent
  /\ toCheck = {} /\ pending = <<>> /\ offers = {}
  /\ failure = NoFailure

(* Mutant of Fail: the ledger is left as the failed run had it. *)
FailKeepingLedger(reason) ==
  /\ B!Reset
  /\ market' = [price |-> NoPrice, status |-> "open"]
  /\ cashReserved' = [k \in Keys |-> NoReservation]
  /\ positionReserved' = [k \in Keys |-> NoReservation]
  /\ UNCHANGED accountVars
  /\ pc' = "failed" /\ event' = NoEvent
  /\ toCheck' = {} /\ pending' = <<>> /\ offers' = {}
  /\ failure' = reason

(* _restore_state: every component returns to where it was before the run. *)
Fail(reason) ==
  /\ B!Reset
  /\ market' = [price |-> NoPrice, status |-> "open"]
  /\ cashReserved' = [k \in Keys |-> NoReservation]
  /\ positionReserved' = [k \in Keys |-> NoReservation]
  /\ cash' = InitialCash /\ position' = InitialPosition /\ boughtToday' = 0
  /\ pc' = "failed" /\ event' = NoEvent
  /\ toCheck' = {} /\ pending' = <<>> /\ offers' = {}
  /\ failure' = reason

-----------------------------------------------------------------------------
(* Several orders expire in one loop of the engine, which releases each.   *)
ExpireAndRelease(S) == B!ExpireAll(S, event.at) /\ ReleaseOrders(S) /\ UNCHANGED market

(* The next event: DAY orders of an earlier session expire and release     *)
(* their reservations, then the risk gate and the ledger observe it.       *)
Bars         == [kind : {"bar"}, price : Prices]
StatusEvents == [kind : {"status"}, status : Statuses]

NextEvent ==
  /\ pc = "idle"
  /\ event.n < MaxEvents
  /\ \E fact \in Bars \cup StatusEvents, at \in Times, day \in Days :
       /\ at >= event.at /\ day >= event.day
       /\ at = event.at => day = event.day
       /\ IF B!Stuck(day, at) # {}
            THEN Fail("a DAY order that is not open expired")
            ELSE /\ B!ExpireAll(B!Due(day), at)
                 /\ ReleaseOrders(B!Due(day))
                 /\ Observe(fact)
                 /\ boughtToday' = IF day > event.day THEN 0 ELSE boughtToday
                 /\ event' = [n |-> event.n + 1, at |-> at, day |-> day, kind |-> fact.kind]
                 /\ pc' = "check"
                 /\ toCheck' = openIds'
                 /\ UNCHANGED <<cash, position, pending, offers, failure>>

FirstOf(S) == CHOOSE k \in S : \A j \in S \ {k} : B!SortsBefore(k, j)

(* check_open_order of the next order, on what remains of its intent; a    *)
(* runtime or order policy may reject what the built-in checks accept.     *)
CheckOpenOrder ==
  /\ pc = "check" /\ toCheck # {}
  /\ LET k         == FirstOf(toCheck)
         remaining == [orders[k].intent EXCEPT !.quantity = B!Remaining(k)]
         accepted  == Check(k, remaining, cash, position, boughtToday)
     IN  /\ toCheck' = toCheck \ {k}
         /\ \/ accepted /\ UNCHANGED <<brokerVars, riskVars>>
            \/ (~accepted \/ HasPolicies) /\ ExpireAndRelease({k})
  /\ UNCHANGED <<accountVars, pc, event, pending, offers, failure>>

CheckDone ==
  /\ pc = "check" /\ toCheck = {}
  /\ pc' = "match"
  /\ UNCHANGED <<brokerVars, riskVars, accountVars, event, toCheck, pending, offers, failure>>

-----------------------------------------------------------------------------
(* What a matching model may return for the event: fills of eligible open  *)
(* orders, within the limit price and the remaining quantity, a FOK order  *)
(* in full or not at all; a model may fill an order at several levels.     *)
Eligible(k) == event.at >= orders[k].intent.created + Latency

Fills == [key : {k \in openIds : Eligible(k)}, quantity : 1..MaxQuantity, price : Prices]

WithinLimit(fill) ==
  LET intent == orders[fill.key].intent
  IN  \/ intent.limit = NoPrice
      \/ intent.side = "BUY"  /\ fill.price <= intent.limit
      \/ intent.side = "SELL" /\ fill.price >= intent.limit

Filling(batch, k) ==
  SumFunction([n \in DOMAIN batch |-> IF batch[n].key = k THEN batch[n].quantity ELSE 0])

Batches ==
  {batch \in BoundedSeq({f \in Fills : WithinLimit(f)}, MaxBatch) :
     \A k \in openIds :
       /\ Filling(batch, k) <= B!Remaining(k)
       /\ orders[k].intent.tif = "FOK" => Filling(batch, k) \in {0, B!Remaining(k)}}

(* One turn of _match_and_commit's loop: no fills ends it; when the risk   *)
(* gate refuses a fill the whole match is undone, the orders of refused    *)
(* fills expire and the event is matched again; else the batch commits.    *)
(* Every fill is checked against the account as it is before the batch.    *)
Match ==
  /\ pc = "match"
  /\ \E batch \in IF event.kind = "bar" THEN Batches ELSE {<<>>} :
       LET refused == {batch[n].key : n \in {m \in DOMAIN batch :
                          ~CheckFill(batch[m].key, orders[batch[m].key].intent.side,
                                     batch[m].quantity, batch[m].price, cash)}}
       IN  IF refused # {}
             THEN /\ ExpireAndRelease(refused)
                  /\ UNCHANGED <<pc, pending>>
             ELSE /\ pc' = IF batch = <<>> THEN "immediate" ELSE "commit"
                  /\ pending' = batch
                  /\ UNCHANGED <<brokerVars, riskVars>>
  /\ UNCHANGED <<accountVars, event, toCheck, offers, failure>>

(* Mutant of LedgerRefusal: the fee is not checked. *)
LedgerRefusalFeeless(side, quantity, notional, fee) ==
  CASE side = "BUY"  /\ cash < notional     -> "negative cash"
    [] side = "SELL" /\ position < quantity -> "short position"
    [] OTHER                                -> NoFailure

(* The ledger posts a fill and then its fee; it refuses to go short or to  *)
(* spend cash the account does not hold.                                   *)
LedgerRefusal(side, quantity, notional, fee) ==
  CASE side = "BUY"  /\ cash < notional + fee -> "negative cash"
    [] side = "SELL" /\ position < quantity   -> "short position"
    [] side = "SELL" /\ cash + notional < fee -> "negative cash"
    [] OTHER                                  -> NoFailure

(* A sale closes the oldest lots first, today's lots last.                 *)
PostFill(side, quantity, notional, fee) ==
  IF side = "BUY"
    THEN /\ cash' = cash - notional - fee
         /\ position' = position + quantity
         /\ boughtToday' = boughtToday + quantity
    ELSE /\ cash' = cash + notional - fee
         /\ position' = position - quantity
         /\ boughtToday' = IF position - quantity < boughtToday
                             THEN position - quantity ELSE boughtToday

(* Fill ids are taken in order; each names one fill.                       *)
NextFillId(f) == fillKeys[f] = B!NoFill /\ \A g \in FillIds : fillKeys[g] = B!NoFill => f <= g

(* _commit_fill: broker, reservation, ledger fill, ledger fee. *)
CommitFill ==
  /\ pc = "commit"
  /\ LET fill     == Head(pending)
         intent   == orders[fill.key].intent
         notional == fill.quantity * fill.price
         fee      == notional * FeeRate
         refusal  == LedgerRefusal(intent.side, fill.quantity, notional, fee)
     IN  IF refusal # NoFailure
           THEN Fail(refusal)
           ELSE /\ \E f \in FillIds :
                     NextFillId(f) /\ B!ApplyFill(f, fill.key, fill.quantity, event.at, FALSE)
                /\ ReleaseFill(fill.key, fill.quantity, intent.quantity)
                /\ PostFill(intent.side, fill.quantity, notional, fee)
                /\ pending' = Tail(pending)
                /\ pc' = IF Len(pending) = 1 THEN "immediate" ELSE "commit"
                /\ UNCHANGED <<event, toCheck, offers, failure>>

(* Mutant of ExpireImmediate: partially filled orders are left open. *)
ExpireImmediateUntouched ==
  /\ pc = "immediate"
  /\ ExpireAndRelease({k \in immediateIds : Eligible(k) /\ orders[k].filled = 0})
  /\ pc' = "runtime"
  /\ UNCHANGED <<accountVars, event, toCheck, pending, offers, failure>>

(* Mutant of ExpireImmediate: the event is matched for as long as orders are open. *)
ExpireImmediateRematching ==
  /\ pc = "immediate"
  /\ ExpireAndRelease({k \in immediateIds : Eligible(k)})
  /\ pc' = IF openIds = {} THEN "runtime" ELSE "match"
  /\ UNCHANGED <<accountVars, event, toCheck, pending, offers, failure>>

-----------------------------------------------------------------------------
(* _expire_immediate_orders: IOC and FOK remainders expire at the first    *)
(* eligible event, whether or not that event could match.                  *)
ExpireImmediate ==
  /\ pc = "immediate"
  /\ ExpireAndRelease({k \in immediateIds : Eligible(k)})
  /\ pc' = "runtime"
  /\ UNCHANGED <<accountVars, event, toCheck, pending, offers, failure>>

(* The runtime check may stop all open orders; then the strategy is called *)
(* and its intents are taken in the order of their keys.                   *)
Callbacks == {S \in SUBSET (Keys \X {i \in Intents : i.created = event.at}) :
                /\ Cardinality(S) <= MaxOffers
                /\ \A a, b \in S : a[1] = b[1] => a = b}

RuntimeCheck ==
  /\ pc = "runtime"
  /\ \/ UNCHANGED <<brokerVars, riskVars>>
     \/ HasPolicies /\ openIds # {} /\ ExpireAndRelease(openIds)
  /\ \E returned \in Callbacks :
       /\ offers' = returned
       /\ pc' = IF returned = {} THEN "idle" ELSE "intents"
  /\ UNCHANGED <<accountVars, event, toCheck, pending, failure>>

Offer == CHOOSE o \in offers : \A other \in offers : o[1] <= other[1]

NextOffer(rest) == offers' = rest /\ pc' = IF rest = {} THEN "idle" ELSE "intents"

(* check, then submit or reject.  A key known with another intent raises;  *)
(* with the same intent both calls return the order recorded earlier.      *)
SubmitOrReject ==
  /\ pc = "intents"
  /\ LET k        == Offer[1]
         intent   == Offer[2]
         accepted == Check(k, intent, cash, position, boughtToday)
     IN  IF B!Known(k) /\ orders[k].intent # intent
           THEN Fail("key reused with a different intent")
           ELSE /\ \/ /\ accepted
                      /\ IF B!Known(k) THEN UNCHANGED brokerVars ELSE B!Submit(k, intent)
                      /\ pc' = "note"
                      /\ UNCHANGED offers
                   \/ /\ ~accepted \/ HasPolicies
                      /\ IF B!Known(k) THEN UNCHANGED brokerVars ELSE B!Reject(k, intent)
                      /\ NextOffer(offers \ {Offer})
                /\ UNCHANGED <<riskVars, accountVars, event, toCheck, pending, failure>>

(* After submit: note_trading_day whatever the order's status, then, for   *)
(* an order that is open, the reservation prepared by the check.           *)
NoteAndReserve ==
  /\ pc = "note"
  /\ LET k      == Offer[1]
         intent == Offer[2]
     IN  IF B!IsOpen(k) /\ ReserveRaises(k, intent)
           THEN Fail("reservation key reused")
           ELSE /\ IF intent.tif = "DAY" THEN B!NoteTradingDay(k, event.day)
                                         ELSE UNCHANGED brokerVars
                /\ IF B!IsOpen(k) THEN Reserve(k, intent) ELSE UNCHANGED riskVars
                /\ NextOffer(offers \ {Offer})
                /\ UNCHANGED <<accountVars, event, toCheck, pending, failure>>

(* The matching model or the strategy raises. *)
ComponentRaises == pc \in {"match", "runtime"} /\ Fail("component raised")

EndOfStream ==
  /\ pc = "idle"
  /\ pc' = "done"
  /\ UNCHANGED <<brokerVars, riskVars, accountVars, event, toCheck, pending, offers, failure>>

(* Not a step of the program: the replay has returned or raised. *)
Returned == pc \in {"done", "failed"} /\ UNCHANGED vars

Next ==
  \/ NextEvent \/ CheckOpenOrder \/ CheckDone
  \/ Match \/ CommitFill
  \/ ExpireImmediate \/ RuntimeCheck
  \/ SubmitOrReject \/ NoteAndReserve
  \/ ComponentRaises \/ EndOfStream \/ Returned

Spec == Init /\ [][Next]_vars

(* The engine is one thread that never waits: while it is inside the body  *)
(* of its loop its next step happens.                                      *)
FairSpec == Spec /\ WF_vars(Next /\ pc # "idle")
-----------------------------------------------------------------------------
TypeOK ==
  /\ B!TypeOK
  /\ market.price \in Prices \cup {NoPrice} /\ market.status \in Statuses
  /\ \A k \in Keys : cashReserved[k].left \in Nat /\ positionReserved[k].left \in Nat
  /\ cash \in Nat /\ position \in Nat /\ boughtToday \in Nat
  /\ pc \in {"idle", "check", "match", "commit", "immediate", "runtime", "intents",
             "note", "done", "failed"}
  /\ toCheck \subseteq Keys /\ Len(pending) <= MaxBatch
  /\ \A o \in offers : o[1] \in Keys /\ o[2] \in Intents

(* The order just submitted, whose reservation is about to be made. *)
BeingReserved == IF pc = "note" THEN {Offer[1]} ELSE {}

(* The risk gate follows the broker without reading it: through partial    *)
(* fills, expiries and rejections an order holds exactly the reservation   *)
(* of what remains of it, and an order that closed holds none.  (A market  *)
(* buy is reserved at the reference price of the day it was accepted.)     *)
ReservationTracksRemainder ==
  \A k \in Keys \ BeingReserved :
    LET intent   == orders[k].intent
        open     == B!IsOpen(k)
        accepted == cashReserved[k].original \div intent.quantity
    IN  /\ cashReserved[k].left =
             IF open /\ intent.side = "BUY"
               THEN Precision * (IF intent.limit = NoPrice THEN B!Remaining(k) * accepted
                                 ELSE Cost(B!Remaining(k), intent.limit))
               ELSE 0
        /\ positionReserved[k].left =
             IF open /\ intent.side = "SELL" THEN Precision * B!Remaining(k) ELSE 0

(* A reservation is worth something: what open sell orders reserve is held *)
(* and settled, and what open buy orders reserve is in the account, unless *)
(* market orders, whose cost is only estimated, have been filled.          *)
ReservationsCovered ==
  /\ ReservedByOthers(positionReserved, B!NoKey)
       <= Precision * (IF TPlusOne THEN position - boughtToday ELSE position)
  /\ (\A k \in Keys : B!Known(k) => orders[k].intent.limit # NoPrice)
       => ReservedByOthers(cashReserved, B!NoKey) <= Precision * cash

(* Nothing is matched that the present market refuses: by the time orders  *)
(* meet the event no open order is on a side that halts or price limits    *)
(* close, although it was accepted under an earlier status.                *)
RefusedNotMatched ==
  pc \in {"match", "commit"} => \A k \in openIds : Tradable(orders[k].intent)

(* A DAY order never lives into the next session: outside the moment of    *)
(* submission an open DAY order was accepted on the day being processed.   *)
SessionHonoured ==
  \A k \in openIds \ BeingReserved :
    orders[k].intent.tif = "DAY" => acceptedDay[k] = event.day

(* IOC and FOK are one shot: after the first event they are eligible for   *)
(* they are closed, and a FOK order ends filled in full or not at all.     *)
ImmediateOneShot ==
  /\ pc \in {"runtime", "idle", "done"} =>
       \A k \in openIds : orders[k].intent.tif \in B!Immediate =>
         IF pc = "runtime" THEN ~Eligible(k) ELSE orders[k].intent.created + Latency >= event.at
  /\ pc # "commit" =>
       \A k \in Keys : orders[k].intent.tif = "FOK" =>
                         orders[k].filled \in {0, orders[k].intent.quantity}

(* Broker and ledger are two books of the same fills: the position is what *)
(* the orders say was bought and sold.                                     *)
LedgerMatchesBroker ==
  LET filled(side) ==
        SumFunctionOnSet([k \in Keys |-> orders[k].filled],
                         {k \in Keys : B!Known(k) /\ orders[k].intent.side = side})
  IN  position = InitialPosition + filled("BUY") - filled("SELL")

(* T+1: within a trading day no share bought on that day is sold.          *)
BoughtTodayKept ==
  [][TPlusOne /\ failure' = NoFailure /\ event'.day = event.day => boughtToday' >= boughtToday]_vars

(* The checks before commit are meant to make the ledger's own refusals    *)
(* unreachable.  A sale can never be short; cash can only run out when an  *)
(* open market buy was priced above its reservation.                       *)
OnlyMarketBuysOverdraw ==
  [][/\ failure' # "short position"
     /\ failure' = "negative cash" /\ failure = NoFailure =>
          \E n \in DOMAIN pending : /\ orders[pending[n].key].intent.side = "BUY"
                                    /\ \E k \in Keys : /\ B!Known(k)
                                                       /\ orders[k].intent.side = "BUY"
                                                       /\ orders[k].intent.limit = NoPrice]_vars

(* The retry loop of a match whose fills are refused, and the loop body as *)
(* a whole, end for every event.                                           *)
EventCompletes == pc # "idle" ~> pc \in {"idle", "done", "failed"}

(* engine.py, _match_and_commit: "Match one event until every remaining    *)
(* candidate can commit atomically": once a batch passed the risk gate its *)
(* fills commit, the ledger refuses none.                                  *)
CheckedBatchCommits == failure \notin {"negative cash", "short position"}

(* README.md, "idempotent lifecycle operations": presenting an intent a    *)
(* second time under its key changes nothing, so it cannot make the run    *)
(* fail, neither at once nor at the end of the trading day.                *)
ResubmissionHarmless ==
  failure \notin {"a DAY order that is not open expired", "reservation key reused"}

(* Reservations are released exactly: once every order is closed the risk  *)
(* gate holds nothing against the account.                                 *)
ReleasedExactly ==
  openIds = {} /\ pc # "note" =>
    \A k \in Keys : cashReserved[k] = NoReservation /\ positionReserved[k] = NoReservation
=============================================================================
