------------------------------- MODULE Broker -------------------------------
(***************************************************************************)
(* DeterministicBroker (broker.py): the order table with its open, DAY and *)
(* immediate indexes, the idempotency tables, the order-event history and  *)
(* the artifact stream.  Every action is one public call that succeeds and *)
(* changes something; a call that raises before its first assignment, or   *)
(* that returns a fact recorded earlier, is a stuttering step.             *)
(*                                                                         *)
(* An order identifier is a digest of its idempotency key and intent, and  *)
(* a key is refused with a second intent, so an order is named by its key. *)
(* Keys are numbers: their order stands for the order of the digests.      *)
(***************************************************************************)
EXTENDS Integers, Sequences, FiniteSetsExt

CONSTANTS
  Keys,        \* idempotency keys of intents
  Intents,     \* the intents a strategy can present
  MaxQuantity, \* largest quantity of an intent
  FillIds,     \* fill_id values
  CancelIds,   \* idempotency keys of cancel requests
  Days,        \* trading days
  Times        \* instants of calls, on the clock of the intents' created_at

TimesInForce == {"DAY", "GTC", "IOC", "FOK"}
Immediate    == {"IOC", "FOK"}

ASSUME BrokerAssumption ==
  /\ Keys \subseteq Nat \ {0}
  /\ MaxQuantity \in Nat \ {0}
  /\ \A i \in Intents : i.tif \in TimesInForce /\ i.quantity \in 1..MaxQuantity /\ i.created \in Nat
  /\ Days \subseteq Nat \ {0}
  /\ Times \subseteq Nat

VARIABLES
  orders,       \* _orders and _submit_keys: the order bound to each key
  openIds,      \* _open_order_ids
  dayIds,       \* _day_order_ids
  immediateIds, \* _immediate_order_ids
  acceptedDay,  \* _accepted_day, NoDay when the order has none
  fillKeys,     \* _fill_keys: the fill applied under each fill_id
  cancelKeys,   \* _cancel_keys: the order cancelled under each key
  log,          \* the events recorded, per order (_events, or the sink's stream)
  archived,     \* how often each order was written to the sink's "orders" stream
  stream        \* the artifact stream: off, or its state

indexes    == <<openIds, dayIds, immediateIds>>
brokerVars == <<orders, openIds, dayIds, immediateIds, acceptedDay, fillKeys,
                cancelKeys, log, archived, stream>>

-----------------------------------------------------------------------------
OpenStatus == {"ACCEPTED", "PARTIALLY_FILLED"}
Terminal   == {"FILLED", "CANCELLED", "REJECTED", "EXPIRED"}
Status     == {"CREATED"} \cup OpenStatus \cup Terminal

NoIntent == [tif |-> "NONE", quantity |-> 0, created |-> 0]
Created(intent) == [intent |-> intent, status |-> "CREATED", filled |-> 0, version |-> 0]
NoOrder  == Created(NoIntent)
NoDay    == 0
NoFill   == [key |-> 0, quantity |-> 0]
NoKey    == 0

Known(k)     == orders[k].status # "CREATED"
IsOpen(k)    == orders[k].status \in OpenStatus

(* _sort_key: by creation, then by identifier. *)
SortsBefore(j, k) ==
  \/ orders[j].intent.created < orders[k].intent.created
  \/ orders[j].intent.created = orders[k].intent.created /\ j < k

Remaining(k) == orders[k].intent.quantity - orders[k].filled

(* _require_mutable: a finished or aborted stream freezes the broker. *)
Mutable == stream \in {"off", "on"}

(* transition_order and the two facts it returns. *)
Moved(order, to, quantity) ==
  [intent |-> order.intent, status |-> to, filled |-> order.filled + quantity,
   version |-> order.version + 1]

(* Mutant of EventOf: the event is built from the updated order. *)
EventOfUpdated(order, to, quantity) ==
  [sequence |-> order.version + 1, from |-> to, to |-> to, quantity |-> quantity]

EventOf(order, to, quantity) ==
  [sequence |-> order.version + 1, from |-> order.status, to |-> to, quantity |-> quantity]

(* Bind key k to a new order and record its first event.  *)
Register(k, intent, to) ==
  /\ orders'   = [orders EXCEPT ![k] = Moved(Created(intent), to, 0)]
  /\ log'      = [log EXCEPT ![k] = Append(log[k], EventOf(Created(intent), to, 0))]
  /\ archived' = IF stream = "on" /\ to \in Terminal
                   THEN [archived EXCEPT ![k] = archived[k] + 1] ELSE archived

(* Mutants of MoveAll: a closed order stays in the immediate index; a      *)
(* partial fill drops the order from the DAY index.                        *)
MoveAllKeepingImmediate(S, to, quantity) ==
  /\ orders'   = [k \in Keys |-> IF k \in S THEN Moved(orders[k], to, quantity) ELSE orders[k]]
  /\ log'      = [k \in Keys |-> IF k \in S THEN Append(log[k], EventOf(orders[k], to, quantity))
                                            ELSE log[k]]
  /\ archived' = [k \in Keys |-> IF k \in S /\ stream = "on" /\ to \in Terminal
                                   THEN archived[k] + 1 ELSE archived[k]]
  /\ IF to \in Terminal
       THEN openIds' = openIds \ S /\ dayIds' = dayIds \ S /\ UNCHANGED immediateIds
       ELSE UNCHANGED indexes

MoveAllDroppingDay(S, to, quantity) ==
  /\ orders'   = [k \in Keys |-> IF k \in S THEN Moved(orders[k], to, quantity) ELSE orders[k]]
  /\ log'      = [k \in Keys |-> IF k \in S THEN Append(log[k], EventOf(orders[k], to, quantity))
                                            ELSE log[k]]
  /\ archived' = [k \in Keys |-> IF k \in S /\ stream = "on" /\ to \in Terminal
                                   THEN archived[k] + 1 ELSE archived[k]]
  /\ dayIds'   = dayIds \ S
  /\ IF to \in Terminal
       THEN openIds' = openIds \ S /\ immediateIds' = immediateIds \ S
       ELSE UNCHANGED <<openIds, immediateIds>>

(* The orders of S move to status `to`, each filling `quantity` more, and   *)
(* their events are recorded; on a terminal status they leave every index   *)
(* and, when streaming, their final bytes go to the sink.                   *)
MoveAll(S, to, quantity) ==
  /\ orders'   = [k \in Keys |-> IF k \in S THEN Moved(orders[k], to, quantity) ELSE orders[k]]
  /\ log'      = [k \in Keys |-> IF k \in S THEN Append(log[k], EventOf(orders[k], to, quantity))
                                            ELSE log[k]]
  /\ archived' = [k \in Keys |-> IF k \in S /\ stream = "on" /\ to \in Terminal
                                   THEN archived[k] + 1 ELSE archived[k]]
  /\ IF to \in Terminal
       THEN /\ openIds'      = openIds \ S
            /\ dayIds'       = dayIds \ S
            /\ immediateIds' = immediateIds \ S
       ELSE UNCHANGED indexes

-----------------------------------------------------------------------------
Init ==
  /\ orders       = [k \in Keys |-> NoOrder]
  /\ openIds      = {}
  /\ dayIds       = {}
  /\ immediateIds = {}
  /\ acceptedDay  = [k \in Keys |-> NoDay]
  /\ fillKeys     = [f \in FillIds |-> NoFill]
  /\ cancelKeys   = [c \in CancelIds |-> NoKey]
  /\ log          = [k \in Keys |-> <<>>]
  /\ archived     = [k \in Keys |-> 0]
  /\ stream       = "off"

(* Mutant of Submit: the key is not looked up. *)
SubmitAgain(k, intent) ==
  /\ Mutable
  /\ Register(k, intent, "ACCEPTED")
  /\ openIds'      = openIds \cup {k}
  /\ immediateIds' = IF intent.tif \in Immediate THEN immediateIds \cup {k} ELSE immediateIds
  /\ UNCHANGED <<dayIds, acceptedDay, fillKeys, cancelKeys, stream>>

(* submit with a new key; a known key with the same intent returns its order. *)
Submit(k, intent) ==
  /\ Mutable
  /\ ~Known(k)
  /\ Register(k, intent, "ACCEPTED")
  /\ openIds'      = openIds \cup {k}
  /\ immediateIds' = IF intent.tif \in Immediate THEN immediateIds \cup {k} ELSE immediateIds
  /\ UNCHANGED <<dayIds, acceptedDay, fillKeys, cancelKeys, stream>>

(* reject with a new key: the order exists only to explain the refusal. *)
Reject(k, intent) ==
  /\ Mutable
  /\ ~Known(k)
  /\ Register(k, intent, "REJECTED")
  /\ UNCHANGED <<openIds, dayIds, immediateIds, acceptedDay, fillKeys, cancelKeys, stream>>

(* Mutant of Cancel: an order is cancelled whatever its state. *)
CancelTerminal(k, c, now) ==
  /\ Mutable
  /\ cancelKeys[c] = NoKey
  /\ Known(k)
  /\ now >= orders[k].intent.created
  /\ MoveAll({k}, "CANCELLED", 0)
  /\ cancelKeys' = [cancelKeys EXCEPT ![c] = k]
  /\ UNCHANGED <<acceptedDay, fillKeys, stream>>

Cancel(k, c, now) ==
  /\ Mutable
  /\ cancelKeys[c] = NoKey
  /\ IsOpen(k)
  /\ now >= orders[k].intent.created
  /\ MoveAll({k}, "CANCELLED", 0)
  /\ cancelKeys' = [cancelKeys EXCEPT ![c] = k]
  /\ UNCHANGED <<acceptedDay, fillKeys, stream>>

(* Mutants of ApplyFill: no bound by what remains; the order is taken to   *)
(* be filled when one fill covers it; the fill table is not looked up.     *)
ApplyFillUnbounded(f, k, quantity, now, trusted) ==
  /\ Mutable
  /\ trusted \/ fillKeys[f] = NoFill
  /\ IsOpen(k)
  /\ quantity > 0
  /\ now >= orders[k].intent.created
  /\ MoveAll({k}, IF quantity = Remaining(k) THEN "FILLED" ELSE "PARTIALLY_FILLED", quantity)
  /\ fillKeys' = IF trusted THEN fillKeys
                 ELSE [fillKeys EXCEPT ![f] = [key |-> k, quantity |-> quantity]]
  /\ UNCHANGED <<acceptedDay, cancelKeys, stream>>

ApplyFillWhole(f, k, quantity, now, trusted) ==
  /\ Mutable
  /\ trusted \/ fillKeys[f] = NoFill
  /\ IsOpen(k)
  /\ quantity > 0
  /\ quantity <= Remaining(k)
  /\ now >= orders[k].intent.created
  /\ MoveAll({k}, IF quantity = orders[k].intent.quantity THEN "FILLED" ELSE "PARTIALLY_FILLED", quantity)
  /\ fillKeys' = IF trusted THEN fillKeys
                 ELSE [fillKeys EXCEPT ![f] = [key |-> k, quantity |-> quantity]]
  /\ UNCHANGED <<acceptedDay, cancelKeys, stream>>

ApplyFillReplayed(f, k, quantity, now, trusted) ==
  /\ Mutable
  /\ IsOpen(k)
  /\ quantity > 0
  /\ quantity <= Remaining(k)
  /\ now >= orders[k].intent.created
  /\ MoveAll({k}, IF quantity = Remaining(k) THEN "FILLED" ELSE "PARTIALLY_FILLED", quantity)
  /\ fillKeys' = IF trusted THEN fillKeys
                 ELSE [fillKeys EXCEPT ![f] = [key |-> k, quantity |-> quantity]]
  /\ UNCHANGED <<acceptedDay, cancelKeys, stream>>

(* apply_fill; a fill_id already in the table returns its event or raises. *)
(* trusted_unique skips the table, the caller vouching for the fill_id.    *)
ApplyFill(f, k, quantity, now, trusted) ==
  /\ Mutable
  /\ trusted \/ fillKeys[f] = NoFill
  /\ IsOpen(k)
  /\ quantity > 0
  /\ quantity <= Remaining(k)
  /\ now >= orders[k].intent.created
  /\ MoveAll({k}, IF quantity = Remaining(k) THEN "FILLED" ELSE "PARTIALLY_FILLED", quantity)
  /\ fillKeys' = IF trusted THEN fillKeys
                 ELSE [fillKeys EXCEPT ![f] = [key |-> k, quantity |-> quantity]]
  /\ UNCHANGED <<acceptedDay, cancelKeys, stream>>

Expirable(k, now) == IsOpen(k) /\ now >= orders[k].intent.created

(* expire, of one order, or of every order in one loop of the caller.      *)
ExpireAll(S, now) ==
  /\ Mutable
  /\ \A k \in S : Expirable(k, now)
  /\ MoveAll(S, "EXPIRED", 0)
  /\ UNCHANGED <<acceptedDay, fillKeys, cancelKeys, stream>>

(* note_trading_day: the order's status is not looked at.  When streaming, *)
(* a terminal order is kept as bytes and reading its intent raises.        *)
NoteTradingDayRaises(k) == stream = "on" /\ Known(k) /\ ~IsOpen(k)

NoteTradingDay(k, day) ==
  /\ Mutable
  /\ ~NoteTradingDayRaises(k)
  /\ Known(k) /\ orders[k].intent.tif = "DAY"
  /\ acceptedDay' = IF acceptedDay[k] = NoDay THEN [acceptedDay EXCEPT ![k] = day]
                                              ELSE acceptedDay
  /\ dayIds' = dayIds \cup {k}
  /\ UNCHANGED <<orders, openIds, immediateIds, fillKeys, cancelKeys, log, archived, stream>>

(* Mutant of Due: a session is over a day late. *)
DueLater(day) == {k \in dayIds : acceptedDay[k] # NoDay /\ day > acceptedDay[k] + 1}

(* expire_day_orders walks the due orders in sort order and expires each;  *)
(* it raises at the first one that cannot expire, the earlier ones staying *)
(* expired.                                                                *)
Due(day)        == {k \in dayIds : acceptedDay[k] # NoDay /\ day > acceptedDay[k]}
Stuck(day, now) == {k \in Due(day) : ~Expirable(k, now)}

ExpireDayOrders(day, now) ==
  LET reached == {k \in Due(day) : \A s \in Stuck(day, now) : SortsBefore(k, s)}
  IN  reached # {} /\ ExpireAll(reached, now)

StartStream ==
  /\ stream = "off"
  /\ \A k \in Keys : ~Known(k)
  /\ stream' = "on"
  /\ UNCHANGED <<orders, openIds, dayIds, immediateIds, acceptedDay, fillKeys,
                 cancelKeys, log, archived>>

(* Mutant of FinishStream: every order is written, not only the open ones. *)
FinishStreamAll ==
  /\ stream = "on"
  /\ stream'   = "finished"
  /\ archived' = [k \in Keys |-> IF Known(k) THEN archived[k] + 1 ELSE archived[k]]
  /\ UNCHANGED <<orders, openIds, dayIds, immediateIds, acceptedDay, fillKeys,
                 cancelKeys, log>>

(* finish_artifact_stream writes the orders that are still open. *)
FinishStream ==
  /\ stream = "on"
  /\ stream'   = "finished"
  /\ archived' = [k \in Keys |-> IF k \in openIds THEN archived[k] + 1 ELSE archived[k]]
  /\ UNCHANGED <<orders, openIds, dayIds, immediateIds, acceptedDay, fillKeys,
                 cancelKeys, log>>

AbortStream ==
  /\ stream = "on"
  /\ stream' = "aborted"
  /\ UNCHANGED <<orders, openIds, dayIds, immediateIds, acceptedDay, fillKeys,
                 cancelKeys, log, archived>>

Reset ==
  /\ orders'       = [k \in Keys |-> NoOrder]
  /\ openIds'      = {}
  /\ dayIds'       = {}
  /\ immediateIds' = {}
  /\ acceptedDay'  = [k \in Keys |-> NoDay]
  /\ fillKeys'     = [f \in FillIds |-> NoFill]
  /\ cancelKeys'   = [c \in CancelIds |-> NoKey]
  /\ log'          = [k \in Keys |-> <<>>]
  /\ archived'     = [k \in Keys |-> 0]
  /\ stream'       = "off"

Next ==
  \/ \E k \in Keys, i \in Intents : Submit(k, i) \/ Reject(k, i)
  \/ \E k \in Keys, c \in CancelIds, now \in Times : Cancel(k, c, now)
  \/ \E f \in FillIds, k \in Keys, q \in 1..MaxQuantity, now \in Times,
        trusted \in {FALSE, stream = "on"} :
       ApplyFill(f, k, q, now, trusted)
  \/ \E S \in SUBSET Keys, now \in Times : ExpireAll(S, now)
  \/ \E k \in Keys, d \in Days : NoteTradingDay(k, d)
  \/ \E d \in Days, now \in Times : ExpireDayOrders(d, now)
  \/ StartStream \/ FinishStream \/ AbortStream
  \/ Reset

Spec == Init /\ [][Next]_brokerVars

-----------------------------------------------------------------------------
(* Every variable has its type; orders are facts about known intents.      *)
Orders == [intent : Intents \cup {NoIntent}, status : Status,
           filled : 0..MaxQuantity, version : Nat]
Events == [sequence : Nat, from : Status, to : Status, quantity : 0..MaxQuantity]

TypeOK ==
  /\ orders \in [Keys -> Orders]
  /\ openIds \subseteq Keys /\ dayIds \subseteq Keys /\ immediateIds \subseteq Keys
  /\ acceptedDay \in [Keys -> Days \cup {NoDay}]
  /\ fillKeys \in [FillIds -> [key : Keys \cup {NoKey}, quantity : 0..MaxQuantity]]
  /\ cancelKeys \in [CancelIds -> Keys \cup {NoKey}]
  /\ log \in [Keys -> Seq(Events)]
  /\ archived \in [Keys -> Nat]
  /\ stream \in {"off", "on", "finished", "aborted"}

(* The indexes are maintained by hand at six places of broker.py: the open *)
(* index must name the open orders and the immediate index the open IOC    *)
(* and FOK orders, whatever the order of submits, fills, cancels, expiries.*)
IndexesAgree ==
  /\ openIds = {k \in Keys : IsOpen(k)}
  /\ immediateIds = {k \in openIds : orders[k].intent.tif \in Immediate}

(* No DAY order escapes its session: once its trading day is noted an open *)
(* order stays in the index expire_day_orders walks until it closes, and   *)
(* the index only ever holds DAY orders with a noted day.                  *)
DayOrdersWatched ==
  /\ \A k \in openIds : acceptedDay[k] # NoDay => k \in dayIds
  /\ \A k \in dayIds : orders[k].intent.tif = "DAY" /\ acceptedDay[k] # NoDay

(* Quantity conservation through partial fills, cancellation and expiry:   *)
(* the status tells exactly how much of the intent was filled.             *)
QuantityConserved ==
  \A k \in Keys :
    LET o == orders[k]
    IN  /\ o.status \in {"CREATED", "ACCEPTED", "REJECTED"} => o.filled = 0
        /\ o.status = "PARTIALLY_FILLED" => o.filled \in 1..(o.intent.quantity - 1)
        /\ o.status = "FILLED" <=> (Known(k) /\ o.filled = o.intent.quantity)
        /\ o.filled <= o.intent.quantity

(* The event history is a complete, gapless story of each order: sequence  *)
(* numbers count 1..version, each event starts where the previous ended,   *)
(* the first starts at CREATED and the last ends at the current status.    *)
HistoryChained ==
  \A k \in Keys :
    /\ Len(log[k]) = orders[k].version
    /\ \A n \in 1..Len(log[k]) :
         /\ log[k][n].sequence = n
         /\ log[k][n].from = IF n = 1 THEN "CREATED" ELSE log[k][n - 1].to
    /\ Known(k) <=> Len(log[k]) > 0
    /\ Known(k) => log[k][Len(log[k])].to = orders[k].status

(* A reader of the history alone recovers the filled quantity, and the     *)
(* fill table accounts for it too: a fill replayed under its fill_id is    *)
(* counted once (without a sink every fill goes through the table).        *)
FillsAccounted ==
  \A k \in Keys :
    LET recorded == SumFunction([n \in DOMAIN log[k] |-> log[k][n].quantity])
        tabled   == SumFunctionOnSet([f \in FillIds |-> fillKeys[f].quantity],
                                     {f \in FillIds : fillKeys[f].key = k})
    IN  /\ orders[k].filled = recorded
        /\ stream = "off" => orders[k].filled = tabled

(* A cancel key that answers "cancelled" answers truly for ever after, and *)
(* an order is cancelled under one key only.                               *)
CancelKeysTrue ==
  /\ \A c \in CancelIds : cancelKeys[c] # NoKey => orders[cancelKeys[c]].status = "CANCELLED"
  /\ \A c, d \in CancelIds : cancelKeys[c] = cancelKeys[d] /\ cancelKeys[c] # NoKey => c = d

(* While streaming, an order reaches the sink's "orders" stream once and   *)
(* only when it is terminal; a finished stream holds every order exactly   *)
(* once, the ones still open included, and an aborted one never twice.     *)
ArchiveComplete ==
  \A k \in Keys :
    archived[k] = CASE stream = "off"      -> 0
                    [] stream = "finished" -> IF Known(k) THEN 1 ELSE 0
                    [] OTHER               -> IF orders[k].status \in Terminal THEN 1 ELSE 0

(* The broker implements OrderLifecycle: through all its tables an order   *)
(* is used once, executes within its quantity and never leaves a terminal  *)
(* state.                                                                  *)
Phase(status) == IF status = "CREATED" THEN "unused"
                 ELSE IF status \in OpenStatus THEN "working" ELSE "finished"

Book == [k \in Keys |-> [phase    |-> Phase(orders[k].status),
                         quantity |-> orders[k].intent.quantity,
                         executed |-> orders[k].filled]]

OL == INSTANCE OrderLifecycle WITH book <- Book

Lifecycle == OL!Spec
=============================================================================
