---------------------------- MODULE SharedCapital ----------------------------
(***************************************************************************)
(* SharedCapitalAccount (continuous.py): one economic account whose cash   *)
(* is attributed to sleeves.  Every event posts to the total book and to   *)
(* the book of its sleeve; sale proceeds and purchased units are on hold   *)
(* until their settlement instant, which the next event at or after it     *)
(* releases.  An event is admitted as a whole or rejected without a trace. *)
(*                                                                         *)
(* Amounts are integers.  Identifiers are left out: keys (at, sequence)    *)
(* increase strictly, so an event presented again is a stuttering step.    *)
(***************************************************************************)
EXTENDS Integers, FiniteSets, Functions

CONSTANTS
  Sleeves, Currencies,
  CashAssets, Futures,    \* instruments: long-only cash assets, linear futures
  Owner, CurrencyOf,      \* of an instrument: its sleeve, its settlement currency
  Allocation,             \* opening cash of the sleeves, by currency
  MarginDivisor,          \* the initial margin rate is 1 / MarginDivisor
  Times,                  \* bound: instants of events and settlements
  Quantities, Prices, Fees, Amounts, \* bounds: what events carry
  MaxEvents               \* bound: events admitted

Instruments == CashAssets \cup Futures
Budgets     == Sleeves \cup {"total"}

ASSUME CapitalAssumption ==
  /\ IsFiniteSet(Sleeves) /\ IsFiniteSet(CashAssets) /\ IsFiniteSet(Futures)
  /\ "total" \notin Sleeves /\ CashAssets \cap Futures = {}
  /\ Owner \in [Instruments -> Sleeves] /\ CurrencyOf \in [Instruments -> Currencies]
  /\ Allocation \in [Sleeves -> [Currencies -> Nat]]
  /\ Times \subseteq Nat /\ Quantities \subseteq Int \ {0} /\ Prices \subseteq Nat \ {0}
  /\ Fees \subseteq Nat /\ Amounts \subseteq Nat \ {0} /\ MaxEvents \in Nat
  /\ MarginDivisor \in Nat \ {0} /\ \A price \in Prices : price % MarginDivisor = 0

VARIABLES
  account,  \* books, holds (pending), marks and the instant of the last event
  declared, \* the holds that the events of the journal declared
  count     \* number of admitted events

vars == <<account, declared, count>>

Unmarked == 0

(* A book: cash; what was posted against outside flows, transfers and      *)
(* conversions; fees and charges paid; units; and the cost of futures.     *)
Opening(cash) ==
  [cash |-> cash, outside |-> [c \in Currencies |-> 0], paid |-> [c \in Currencies |-> 0],
   units |-> [i \in Instruments |-> 0], cost |-> [i \in Futures |-> 0]]

OpeningCash(b) ==
  IF b = "total" THEN [c \in Currencies |-> SumFunction([s \in Sleeves |-> Allocation[s][c]])]
                 ELSE Allocation[b]

Init ==
  /\ account = [books   |-> [b \in Budgets |-> Opening(OpeningCash(b))],
                pending |-> {},
                marks   |-> [i \in Instruments |-> Unmarked],
                now     |-> 0]
  /\ declared = {} /\ count = 0

-----------------------------------------------------------------------------
(* liquidity: what a budget may spend: its cash less the proceeds on hold, *)
(* the initial margin of its futures and their unrealized losses.          *)
Least(x, y) == IF x < y THEN x ELSE y
Positive(x) == IF x > 0 THEN x ELSE 0
Abs(x)      == IF x < 0 THEN -x ELSE x

Pnl(a, b, i) == a.books[b].units[i] * a.marks[i] - a.books[b].cost[i]

Proceeds(a, b, c) ==
  SumFunctionOnSet([h \in a.pending |-> h.cash],
                   {h \in a.pending : h.currency = c /\ b \in {"total", h.sleeve}})

Reserve(a, b, i) ==
  Abs(a.books[b].units[i] * a.marks[i]) \div MarginDivisor + Positive(-Pnl(a, b, i))

Margin(a, b, c) ==
  SumFunctionOnSet([i \in Futures |-> Reserve(a, b, i)],
                   {i \in Futures : CurrencyOf[i] = c /\ a.books[b].units[i] # 0})

Free(a, b, c) == a.books[b].cash[c] - Proceeds(a, b, c) - Margin(a, b, c)

(* Mutant of Funded: a curing order may worsen a deficit. *)
FundedWorse(old, new, curing) ==
  \A b \in Budgets, c \in Currencies : Free(new, b, c) >= 0 \/ curing

(* The shortfall rule of _apply: an order may leave no budget below zero,  *)
(* except that a curing one may leave a deficit that it does not worsen.   *)
Funded(old, new, curing) ==
  \A b \in Budgets, c \in Currencies :
    \/ Free(new, b, c) >= 0
    \/ curing /\ Free(new, b, c) >= Least(0, Free(old, b, c))

-----------------------------------------------------------------------------
(* Every event first releases the holds that are due at its instant.       *)
Begun(at) ==
  [account EXCEPT !.now = at, !.pending = {h \in @ : h.at > at}]

(* Mutant of Rejected: the holds the event has released stay released. *)
RejectedReleasing(attempt) ==
  [attempt EXCEPT !.books = account.books, !.marks = account.marks, !.now = account.now]

(* A raise at any point restores the books, holds, marks and the key.      *)
Rejected(attempt) ==
  [attempt EXCEPT !.books = account.books, !.pending = account.pending,
                  !.marks = account.marks, !.now = account.now]

(* _apply after the dispatch.  (reconcile asserts BooksReconcile, which    *)
(* always holds.)                                                          *)
Admit(admitted, after) ==
  /\ count < MaxEvents
  /\ IF admitted
       THEN /\ account' = after
            /\ declared' = declared \cup (after.pending \ account.pending)
            /\ count' = count + 1
       ELSE account' = Rejected(after) /\ UNCHANGED <<declared, count>>

(* A posting to a book against an outside flow, a transfer or a conversion. *)
Flow(book, c, amount) == [book EXCEPT !.cash[c] = @ + amount, !.outside[c] = @ + amount]

Post(a, b, c, amount) == [a EXCEPT !.books[b] = Flow(@, c, amount)]

-----------------------------------------------------------------------------
(* Marks value the instrument in every book. *)
Mark(at, i, price) == Admit(TRUE, [Begun(at) EXCEPT !.marks[i] = price])

(* settle and fx_mark move nothing but the clock. *)
Settle(at) == Admit(TRUE, Begun(at))

Transfer(at, source, target, c, amount) ==
  LET begun == Begun(at)
      after == Post(Post(begun, source, c, -amount), target, c, amount)
  IN  Admit(/\ source # target /\ amount <= Free(begun, source, c)
            /\ Funded(begun, after, TRUE),
            after)

ExternalCash(at, sleeve, c, amount) ==
  LET begun == Begun(at)
      after == Post(Post(begun, sleeve, c, amount), "total", c, amount)
  IN  Admit(Funded(begun, after, amount > 0), after)

(* Mutant of FxConvert: what was bought reaches the sleeve's book alone. *)
FxConvertAttributed(at, sleeve, source, target, sold, bought) ==
  LET begun == Begun(at)
      paid  == Post(Post(begun, sleeve, source, -sold), "total", source, -sold)
      after == Post(paid, sleeve, target, bought)
  IN  Admit(/\ source # target /\ sold <= Free(begun, sleeve, source)
            /\ Funded(begun, after, FALSE),
            after)

FxConvert(at, sleeve, source, target, sold, bought) ==
  LET begun == Begun(at)
      convert(a, b) == Post(Post(a, b, source, -sold), b, target, bought)
      after == convert(convert(begun, sleeve), "total")
  IN  Admit(/\ source # target /\ sold <= Free(begun, sleeve, source)
            /\ Funded(begun, after, FALSE),
            after)

-----------------------------------------------------------------------------
(* Cost that leaves a futures position when a part of it is closed.        *)
Closed(cost, closing, units) == (cost * closing) \div Abs(units)

(* A future's fill in one book: closing realizes against the average cost, *)
(* the rest opens at the price.                                            *)
FillFuture(book, i, quantity, price) ==
  LET old     == book.units[i]
      opposed == old * quantity < 0
      closing == IF opposed THEN Least(Abs(old), Abs(quantity)) ELSE 0
      sign    == IF quantity > 0 THEN 1 ELSE -1
      removed == IF closing = 0 THEN 0 ELSE Closed(book.cost[i], closing, old)
      opened  == sign * (Abs(quantity) - closing) * price
  IN  [book EXCEPT !.units[i] = @ + quantity,
                   !.cost[i]  = @ - removed + opened,
                   !.cash[CurrencyOf[i]] = @ - sign * closing * price - removed]

FillCash(book, i, quantity, price) ==
  [book EXCEPT !.units[i] = @ + quantity, !.cash[CurrencyOf[i]] = @ - quantity * price]

Pay(book, c, amount) == [book EXCEPT !.cash[c] = @ - amount, !.paid[c] = @ + amount]

(* Mutant of Hold: the sign of the quantity is not looked at. *)
HoldSigned(i, quantity, price, settles) ==
  {[id |-> count, sleeve |-> Owner[i], currency |-> CurrencyOf[i], instrument |-> i,
    at |-> settles, units |-> quantity, cash |-> -quantity * price]}

(* What a fill of a cash asset leaves on hold: bought units, or proceeds.  *)
Hold(i, quantity, price, settles) ==
  {[id |-> count, sleeve |-> Owner[i], currency |-> CurrencyOf[i], instrument |-> i,
    at |-> settles, units |-> Positive(quantity), cash |-> Positive(-quantity) * price]}

OnHold(a, i) ==
  SumFunctionOnSet([h \in a.pending |-> h.units], {h \in a.pending : h.instrument = i})

(* fill: inventory and buying power of the sleeve are checked, price and   *)
(* fill and fee are posted to both books (no book of a cash asset may pay  *)
(* a fee it has no cash for), and the result must be funded.               *)
Fill(at, i, quantity, price, fee, settles) ==
  LET sleeve == Owner[i]
      c      == CurrencyOf[i]
      begun  == Begun(at)
      old    == begun.books[sleeve].units[i]
      final  == old + quantity
      filled(b) == IF i \in Futures THEN FillFuture(begun.books[b], i, quantity, price)
                                    ELSE FillCash(begun.books[b], i, quantity, price)
      after  == [begun EXCEPT
                   !.marks[i] = price,
                   !.books = [b \in Budgets |-> IF b \in {sleeve, "total"}
                                                  THEN Pay(filled(b), c, fee) ELSE @[b]],
                   !.pending = IF i \in CashAssets /\ settles > at
                                 THEN @ \cup Hold(i, quantity, price, settles) ELSE @]
      reducing == Abs(final) < Abs(old) /\ old * final >= 0
  IN  Admit(/\ settles >= at
            /\ i \in CashAssets =>
                 /\ final >= 0 /\ (quantity < 0 => -quantity <= old - OnHold(begun, i))
                 /\ quantity > 0 => quantity * price + fee <= Free(begun, sleeve, c)
                 /\ fee > 0 => \A b \in {sleeve, "total"} : after.books[b].cash[c] >= 0
            /\ Funded(begun, after, reducing),
            after)

(* A charge is a fact: it is posted whatever it leaves.                    *)
Charge(at, i, amount) ==
  LET begun == Begun(at)
  IN  Admit(TRUE, [begun EXCEPT !.books =
                     [b \in Budgets |-> IF b \in {Owner[i], "total"}
                                          THEN Pay(@[b], CurrencyOf[i], amount) ELSE @[b]]])

Increased(amounts, x, n) == [amounts EXCEPT ![x] = @ + n]

(* Mutant of Realized: the cost is not reset to the price. *)
RealizedTwice(book, i, profit) == [book EXCEPT !.cash = Increased(@, CurrencyOf[i], profit)]

(* The profit or loss at the settlement price becomes cash, and the        *)
(* position's cost what it is worth at that price.                         *)
Realized(book, i, profit) ==
  [book EXCEPT !.cash = Increased(@, CurrencyOf[i], profit), !.cost = Increased(@, i, profit)]

VariationMargin(at, i, price) ==
  LET marked == [Begun(at) EXCEPT !.marks[i] = price]
  IN  Admit(TRUE, [marked EXCEPT !.books =
                     [b \in Budgets |-> IF b \in {Owner[i], "total"}
                                          THEN Realized(@[b], i, Pnl(marked, b, i)) ELSE @[b]]])

(* Not a step of the program: no further event is presented. *)
Idle == UNCHANGED vars

Orders(at) ==
  \/ \E s, t \in Sleeves, c \in Currencies, x \in Amounts : Transfer(at, s, t, c, x)
  \/ \E s \in Sleeves, c \in Currencies, x \in Amounts : \/ ExternalCash(at, s, c, x)
                                                         \/ ExternalCash(at, s, c, -x)
  \/ \E s \in Sleeves, c, d \in Currencies, x, y \in Amounts : FxConvert(at, s, c, d, x, y)
  \/ \E i \in Instruments, q \in Quantities, p \in Prices, f \in Fees, t \in Times :
       (i \in Futures => t = at) /\ Fill(at, i, q, p, f, t)

Facts(at) ==
  \/ Settle(at)
  \/ \E i \in Instruments, p \in Prices : Mark(at, i, p)
  \/ \E i \in Instruments, x \in Amounts : Charge(at, i, x)
  \/ \E i \in Futures, p \in Prices : VariationMargin(at, i, p)

Next ==
  \/ \E at \in Times : at >= account.now /\ (Orders(at) \/ Facts(at))
  \/ Idle

Spec == Init /\ [][Next]_vars
-----------------------------------------------------------------------------
TypeOK ==
  /\ \A b \in Budgets :
       /\ {account.books[b].cash, account.books[b].outside} \subseteq [Currencies -> Int]
       /\ account.books[b].paid \in [Currencies -> Nat]
       /\ \A i \in CashAssets : account.books[b].units[i] \in Nat
  /\ \A h \in account.pending : h.units \in Nat /\ h.cash \in Nat
  /\ account.marks \in [Instruments -> Prices \cup {Unmarked}]
  /\ account.now \in Times \cup {0}

(* What reconcile asserts and more: the attribution books add up to the    *)
(* total book, in cash, units and cost, and so do the budgets they may     *)
(* spend: attribution creates no buying power.                             *)
BooksReconcile ==
  LET books == account.books
  IN  /\ \A c \in Currencies :
           /\ books["total"].cash[c] = SumFunction([s \in Sleeves |-> books[s].cash[c]])
           /\ Free(account, "total", c) = SumFunction([s \in Sleeves |-> Free(account, s, c)])
      /\ \A i \in Instruments :
           books["total"].units[i] = SumFunction([s \in Sleeves |-> books[s].units[i]])
      /\ \A i \in Futures :
           books["total"].cost[i] = SumFunction([s \in Sleeves |-> books[s].cost[i]])

(* Proceeds and purchased units stay on hold exactly until their declared  *)
(* settlement instant, whatever is presented and rejected meanwhile, and   *)
(* units on hold have not been sold.                                       *)
HoldsHonoured ==
  /\ account.pending = {h \in declared : h.at > account.now}
  /\ \A i \in CashAssets : OnHold(account, i) <= account.books[Owner[i]].units[i]

(* Only the facts (marks, charges) overdraw a budget; an order never takes *)
(* one below zero, nor further below than facts had taken it.              *)
OrdersStayFunded ==
  [][(\E b \in Budgets, c \in Currencies :
        Free(account', b, c) < Least(0, Free(account, b, c)))
      => ~(\E at \in Times : Orders(at))]_vars

(* Profit comes from marks alone: in every book and currency the worth of  *)
(* cash, assets and open futures changes by outside flows, fees and the    *)
(* revaluation of what was held, however positions are opened, closed,     *)
(* reversed or settled.                                                    *)
Value(a, b, i) == IF i \in Futures THEN Pnl(a, b, i) ELSE a.books[b].units[i] * a.marks[i]

Within(c) == {i \in Instruments : CurrencyOf[i] = c}

Worth(a, b, c) ==
  a.books[b].cash[c] + a.books[b].paid[c] - a.books[b].outside[c]
    + SumFunctionOnSet([i \in Instruments |-> Value(a, b, i)], Within(c))

Revaluation(a, b, marks) ==
  [i \in Instruments |-> a.books[b].units[i] * (marks[i] - a.marks[i])]

ProfitFromMarks ==
  [][\A b \in Budgets, c \in Currencies :
       Worth(account', b, c) - Worth(account, b, c) =
         SumFunctionOnSet(Revaluation(account, b, account'.marks), Within(c))]_vars
=============================================================================
