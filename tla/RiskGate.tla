------------------------------ MODULE RiskGate ------------------------------
(***************************************************************************)
(* RuleBookRiskGate (rules.py) for one cash instrument: the market state   *)
(* it observes, the cash and position reservations of open orders, the     *)
(* check of an intent against them, and the check of a candidate fill.     *)
(*                                                                         *)
(* Amounts are integers.  Reservations are released by a Decimal fraction  *)
(* of the original amount; a Decimal keeps a fixed number of digits, so    *)
(* the fraction is rounded (half even) to one part in Precision and what   *)
(* is left of a reservation is counted in units of 1/Precision.            *)
(***************************************************************************)
EXTENDS Integers, Functions

CONSTANTS
  FeeRate,    \* fee per unit of notional, the largest of the fee rates
  Precision,  \* the resolution of a Decimal fraction
  TPlusOne    \* TRUE for equities whose purchases settle the next day

ASSUME RiskAssumption ==
  FeeRate \in Nat /\ Precision \in Nat \ {0} /\ TPlusOne \in BOOLEAN

VARIABLES
  market,           \* the MarketState: reference price and trading status
  cashReserved,     \* _cash_reservations, by idempotency key
  positionReserved  \* _position_reservations, by idempotency key

riskVars == <<market, cashReserved, positionReserved>>

NoPrice       == 0
NoReservation == [left |-> 0, original |-> 0]
Statuses      == {"open", "halted", "limit_up", "limit_down"}

-----------------------------------------------------------------------------
(* observe: a status event changes the status, a priced event the reference. *)
Observe(event) ==
  market' = IF event.kind = "status" THEN [market EXCEPT !.status = event.status]
                                     ELSE [market EXCEPT !.price = event.price]

Cost(quantity, price) == quantity * price * (1 + FeeRate)

(* _intent_price: a market order is priced at the reference. *)
IntentPrice(intent) == IF intent.limit # NoPrice THEN intent.limit ELSE market.price

(* _reservation_requirement: a buy reserves its cost, a sell its quantity. *)
CashRequired(intent) ==
  IF intent.side = "BUY" THEN Cost(intent.quantity, IntentPrice(intent)) ELSE 0
PositionRequired(intent) == IF intent.side = "SELL" THEN intent.quantity ELSE 0

ReservedByOthers(reserved, k) ==
  SumFunctionOnSet([j \in DOMAIN reserved |-> reserved[j].left], DOMAIN reserved \ {k})

(* Mutant of Fits: the reservations of the other orders are not counted. *)
FitsAlone(required, reserved, k, available) == required <= available

Fits(required, reserved, k, available) ==
  required * Precision + ReservedByOthers(reserved, k) <= available * Precision

(* _check: the market must trade the intent's side, the intent must have a  *)
(* price, and with the other orders' reservations it must fit the account.  *)
Tradable(intent) ==
  /\ market.status # "halted"
  /\ intent.side = "BUY"  => market.status # "limit_up"
  /\ intent.side = "SELL" => market.status # "limit_down"

(* Mutants of Check: the status of the market is not looked at; shares     *)
(* bought today can be sold.                                               *)
CheckWithoutStatus(k, intent, cash, position, boughtToday) ==
  /\ IntentPrice(intent) # NoPrice
  /\ intent.side = "BUY" => Fits(CashRequired(intent), cashReserved, k, cash)
  /\ intent.side = "SELL" =>
       LET settled == IF TPlusOne THEN position - boughtToday ELSE position
       IN  Fits(PositionRequired(intent), positionReserved, k, settled)

CheckWithoutTPlusOne(k, intent, cash, position, boughtToday) ==
  /\ Tradable(intent)
  /\ IntentPrice(intent) # NoPrice
  /\ intent.side = "BUY" => Fits(CashRequired(intent), cashReserved, k, cash)
  /\ intent.side = "SELL" => Fits(PositionRequired(intent), positionReserved, k, position)

Check(k, intent, cash, position, boughtToday) ==
  /\ Tradable(intent)
  /\ IntentPrice(intent) # NoPrice
  /\ intent.side = "BUY" => Fits(CashRequired(intent), cashReserved, k, cash)
  /\ intent.side = "SELL" =>
       LET settled == IF TPlusOne THEN position - boughtToday ELSE position
       IN  Fits(PositionRequired(intent), positionReserved, k, settled)

(* check_fill: a buy is checked at its actual price against the cash the   *)
(* other orders have not reserved; a sale is always accepted.              *)
CheckFill(k, side, quantity, price, cash) ==
  side = "BUY" => Fits(Cost(quantity, price), cashReserved, k, cash)

-----------------------------------------------------------------------------
(* _reserve_requirement refuses a key that holds a different reservation.  *)
Reservation(amount) ==
  IF amount = 0 THEN NoReservation ELSE [left |-> amount * Precision, original |-> amount]

ReserveRaises(k, intent) ==
  LET clashes(held, amount) == amount # 0 /\ held # NoReservation /\ held # Reservation(amount)
  IN  \/ clashes(cashReserved[k], CashRequired(intent))
      \/ clashes(positionReserved[k], PositionRequired(intent))

Reserve(k, intent) ==
  /\ cashReserved' = IF intent.side = "BUY"
       THEN [cashReserved EXCEPT ![k] = Reservation(CashRequired(intent))] ELSE cashReserved
  /\ positionReserved' = IF intent.side = "SELL"
       THEN [positionReserved EXCEPT ![k] = Reservation(PositionRequired(intent))]
       ELSE positionReserved
  /\ UNCHANGED market

(* quantity / ordered, rounded half even to one part in Precision. *)
Fraction(quantity, ordered) ==
  LET whole == (quantity * Precision) \div ordered
      twice == 2 * ((quantity * Precision) % ordered)
  IN  IF twice > ordered \/ (twice = ordered /\ whole % 2 = 1) THEN whole + 1 ELSE whole

(* release_fill: the filled fraction of the original amount is released.   *)
AfterFill(held, quantity, ordered) ==
  LET left == held.left - held.original * Fraction(quantity, ordered)
  IN  IF left <= 0 THEN NoReservation ELSE [held EXCEPT !.left = left]

(* Mutant of ReleaseFill: only the cash of a fill is released. *)
ReleaseFillCash(k, quantity, ordered) ==
  /\ cashReserved'     = [cashReserved EXCEPT ![k] = AfterFill(@, quantity, ordered)]
  /\ UNCHANGED <<market, positionReserved>>

ReleaseFill(k, quantity, ordered) ==
  /\ cashReserved'     = [cashReserved EXCEPT ![k] = AfterFill(@, quantity, ordered)]
  /\ positionReserved' = [positionReserved EXCEPT ![k] = AfterFill(@, quantity, ordered)]
  /\ UNCHANGED market

(* release_order, for the orders of S. *)
Released(reserved, S) ==
  [k \in DOMAIN reserved |-> IF k \in S THEN NoReservation ELSE reserved[k]]

ReleaseOrders(S) ==
  /\ cashReserved'     = Released(cashReserved, S)
  /\ positionReserved' = Released(positionReserved, S)
=============================================================================
