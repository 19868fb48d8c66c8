------------------------------- MODULE Ledger -------------------------------
(***************************************************************************)
(* ExactAccountLedger (ledger.py): a journal of transactions and the books *)
(* kept beside it (balances, positions, lots, marks, open entitlements).   *)
(* One call books one event; when the account snapshot at its end raises,  *)
(* _rollback_apply takes back what the call did, map by map, from an undo  *)
(* record made before the posting.                                         *)
(*                                                                         *)
(* A call of the ledger is one step.  Money and quantities are integers in *)
(* the smallest unit, the contract multiplier is 1, fixed() rounds half to *)
(* even.  Account keys have the account, the currency and a tuple for the  *)
(* instrument; the memo counters, which mirror a memo posting, are left    *)
(* out.  A snapshot raises when it must convert an amount that is not zero *)
(* and no rate of that currency was known at its time.                     *)
(***************************************************************************)
EXTENDS Integers, SequencesExt

CONSTANTS
  Instruments,     \* the InstrumentSpecs of the account
  Kind,            \* of each: "cash", "derivative" or "premium" (options)
  Currency,        \* settlement currency of each
  Base,            \* base currency of the account
  Step,            \* quantity_step, in units
  InitialCash      \* opening balances: a sequence of [currency, amount]

ASSUME LedgerAssumption ==
  /\ Kind \in [Instruments -> {"cash", "derivative", "premium"}]
  /\ Step \in Nat \ {0}
  /\ InitialCash \in Seq([currency : STRING, amount : Nat \ {0}])
  /\ \A m, n \in DOMAIN InitialCash : InitialCash[m].currency = InitialCash[n].currency => m = n

VARIABLES
  mode,        \* fx_valuation_mode: "legacy" or "pit"
  ledger,      \* the books: a record of the ledger's fields (Opened)
  fx,          \* _fx and _fx_history, or the observed PIT rates
  sunk,        \* rows the artifact sink holds (external)
  checkpoint,  \* what the engine captured before a replay; <<>> outside one
  outcome      \* of the last call: applied, repeated, kept or refused

vars == <<mode, ledger, fx, sunk, checkpoint, outcome>>

Abs(n)      == IF n < 0 THEN -n ELSE n
Sign(n)     == IF n < 0 THEN -1 ELSE 1
Least(a, b) == IF a < b THEN a ELSE b
Monus(a, b) == IF a > b THEN a - b ELSE 0

(* a / b to the nearest integer, a tie to the even one. *)
RoundDiv(a, b) ==
  LET n == Abs(a) \div b
      r == 2 * (Abs(a) % b)
  IN  Sign(a) * IF r > b \/ (r = b /\ n % 2 = 1) THEN n + 1 ELSE n

Lookup(f, x, default) == IF x \in DOMAIN f THEN f[x] ELSE default

(* f with v at x, and f without x. *)
Put(f, x, v) == [y \in DOMAIN f \cup {x} |-> IF y = x THEN v ELSE f[y]]
Drop(f, x)   == [y \in DOMAIN f \ {x} |-> f[y]]

-----------------------------------------------------------------------------
(* Accounts, and the transactions that move them: [key, time, postings],   *)
(* the postings a function from account keys to an amount and shares.      *)

Cash(c)       == <<"assets:cash", c, <<>>>>
Cost(i)       == << IF Kind[i] = "derivative" THEN "memo:position_cost"
                                              ELSE "assets:position_cost", Currency[i], <<i>> >>
Position(i)   == <<"assets:position", Currency[i], <<i>>>>
Income(a, i)  == <<a, Currency[i], <<i>>>>

Amount(k, n)  == [x \in {k} |-> [amount |-> n, shares |-> 0]]
Shares(i, n)  == [x \in {Position(i)} |-> [amount |-> 0, shares |-> n]]

(* Postings together; of two to one account the first counts (@@ of TLC,   *)
(* which the provers do not know).                                         *)
Together(parts) ==
  [k \in UNION {DOMAIN parts[n] : n \in DOMAIN parts} |->
     parts[Min({n \in DOMAIN parts : k \in DOMAIN parts[n]})][k]]

Balance(l, k) == Lookup(l.accounts, k, 0)
Held(l, i)    == Lookup(l.positions, i, 0)
Moved(tx)     == {i \in Instruments : Position(i) \in DOMAIN tx.postings}

(* _post: the balances and positions a transaction touches, the journal    *)
(* and the key.                                                            *)
Posted(l, tx) ==
  [l EXCEPT
     !.accounts = [k \in DOMAIN l.accounts \cup DOMAIN tx.postings |->
                     IF k \in DOMAIN tx.postings
                     THEN Balance(l, k) + tx.postings[k].amount ELSE l.accounts[k]],
     !.positions = [i \in DOMAIN l.positions \cup Moved(tx) |->
                      IF i \in Moved(tx)
                      THEN Held(l, i) + tx.postings[Position(i)].shares ELSE l.positions[i]],
     !.journal = Append(@, tx),
     !.keys = @ \cup {tx.key}]

OpeningTransaction(n) ==
  LET q == InitialCash[n]
  IN  [key |-> <<"opening", q.currency>>, time |-> 0,
       postings |-> Together(<<Amount(Cash(q.currency), q.amount),
                               Amount(<<"equity:opening", q.currency, <<>>>>, -q.amount)>>)]

(* The books of a new account: its opening cash and nothing else. *)
Opened ==
  [journal   |-> [n \in 1..Len(InitialCash) |-> OpeningTransaction(n)],
   keys      |-> {OpeningTransaction(n).key : n \in DOMAIN InitialCash},
   accounts  |-> [k \in UNION {DOMAIN OpeningTransaction(n).postings : n \in DOMAIN InitialCash} |->
                    LET n == CHOOSE m \in DOMAIN InitialCash : InitialCash[m].currency = k[2]
                    IN  OpeningTransaction(n).postings[k].amount],
   positions |-> [i \in {} |-> 0],   \* _positions, by instrument
   seen      |-> [e \in {} |-> 0],   \* _event_fingerprints
   marked    |-> [e \in {} |-> 0],   \* _mark_fingerprints
   fills     |-> [f \in {} |-> 0],   \* _fills: the instrument of each
   days      |-> [f \in {} |-> 0],   \* _fill_trading_days
   closes    |-> [f \in {} |-> 0],   \* _fill_close_allocations
   lots      |-> [i \in {} |-> 0],   \* _position_lots
   marks     |-> [i \in {} |-> 0],   \* _marks: the price of each
   entitled  |-> [k \in {} |-> 0],   \* _dividend_entitlements
   dividends |-> [d \in {} |-> 0],   \* _dividend_lifecycle_states
   records   |-> [r \in {} |-> 0],   \* _dividend_execution_by_key
   closed    |-> FALSE,              \* _artifact_stream_closed
   time      |-> 0]                  \* _event_time

Init ==
  /\ mode \in {"legacy", "pit"}
  /\ ledger = Opened
  /\ fx = {} /\ sunk = <<>> /\ checkpoint = <<>> /\ outcome = "applied"

-----------------------------------------------------------------------------
(* Valuation.                                                              *)

(* _to_base and select_pit_fx: a rate of the currency known by then. *)
Convertible(amount, c, at) ==
  amount = 0 \/ c = Base \/ \E q \in fx : q.currency = c /\ q.at <= at

(* _position_valuation: without a mark a position is worth its cost. *)
Notional(l, i) == IF i \in DOMAIN l.marks THEN l.marks[i] * Held(l, i) ELSE Balance(l, Cost(i))
Pnl(l, i)      == Notional(l, i) - Balance(l, Cost(i))

(* snapshot and assert_nav_residual: what the account's value is made of. *)
Valued(l) ==
  {<<l.accounts[k], k[2]>> :
     k \in {j \in DOMAIN l.accounts : j[1] \in {"assets:cash", "assets:dividend_receivable"}}}
  \cup UNION {{<<Notional(l, i), Currency[i]>>, <<Pnl(l, i), Currency[i]>>,
               <<Balance(l, Income("income:realized_pnl", i)), Currency[i]>>} :
              i \in DOMAIN l.positions}

SnapshotRaises(l, at) == \E v \in Valued(l) : ~Convertible(v[1], v[2], at)

-----------------------------------------------------------------------------
(* Lots: by day of acquisition, closed oldest first.                       *)

Lots(l, i)     == Lookup(l.lots, i, <<>>)
LotSum(lots)   == MapThenSumSet(LAMBDA n : lots[n].quantity, 1..Len(lots))
ByDay(lots) ==
  LET order == SetToSortSeq(1..Len(lots), LAMBDA m, n :
                 lots[m].day < lots[n].day \/ (lots[m].day = lots[n].day /\ m < n))
  IN  [n \in 1..Len(lots) |-> lots[order[n]]]

(* What each lot gives when q is closed, from the first on, and the rest.  *)
Taken(lots, q) ==
  [n \in 1..Len(lots) |->
     Least(Abs(lots[n].quantity),
           Monus(q, MapThenSumSet(LAMBDA m : Abs(lots[m].quantity), 1..(n - 1))))]

Without(lots, taken) ==
  SelectSeq([n \in 1..Len(lots) |->
               [lots[n] EXCEPT !.quantity = Sign(@) * (Abs(@) - taken[n])]],
            LAMBDA lot : lot.quantity # 0)

Signed(e) == IF e.side = "BUY" THEN e.quantity ELSE -e.quantity

(* What a fill opens, added to today's lot of that side if there is one.   *)
WithOpened(lots, opening, day) ==
  LET same == {n \in 1..Len(lots) : lots[n].day = day /\ lots[n].quantity * opening > 0}
  IN  IF opening = 0 THEN lots
      ELSE IF same # {} THEN [lots EXCEPT ![Min(same)].quantity = @ + opening]
      ELSE Append(lots, [day |-> day, quantity |-> opening])

(* What it closes of earlier days and of today, and the lots after it.     *)
LotsAfter(e, day, lots, taken) ==
  LET total == MapThenSumSet(LAMBDA n : taken[n], DOMAIN lots)
      today == MapThenSumSet(LAMBDA n : taken[n], {n \in DOMAIN lots : lots[n].day = day})
  IN  [prior |-> total - today, today |-> today,
       lots |-> WithOpened(Without(lots, taken), Sign(Signed(e)) * (e.quantity - total), day)]

(* _prepare_lot_update *)
LotUpdate(l, e, day) ==
  LET lots == Lots(l, e.instrument)
  IN  IF lots # <<>> /\ lots[1].quantity * Signed(e) < 0
      THEN LotsAfter(e, day, ByDay(lots), Taken(ByDay(lots), e.quantity))
      ELSE LotsAfter(e, day, lots, [n \in DOMAIN lots |-> 0])

-----------------------------------------------------------------------------
(* Events and the transactions they translate to.                          *)

CloseQuantity(l, e) ==
  IF Held(l, e.instrument) * Signed(e) < 0 THEN Least(Abs(Held(l, e.instrument)), e.quantity) ELSE 0

(* _allocated_position_cost: closing all of a position takes all its cost. *)
Allocated(l, i, q) == IF q = 0 THEN 0 ELSE RoundDiv(Balance(l, Cost(i)) * q, Abs(Held(l, i)))

DerivativeFill(l, e) ==
  LET i        == e.instrument
      old      == Held(l, i)
      new      == old + Signed(e)
      cost     == Balance(l, Cost(i))
      close    == CloseQuantity(l, e)
      realized == IF close = 0 THEN 0
                  ELSE IF mode = "pit" THEN Sign(old) * e.price * close - Allocated(l, i, close)
                  ELSE RoundDiv((Sign(old) * e.price * Abs(old) - cost) * close, Abs(old))
      newCost  == IF close = 0 THEN cost + Signed(e) * e.price
                  ELSE IF new * old >= 0 THEN cost - Allocated(l, i, close)
                  ELSE new * e.price
  IN  Together(<<Amount(Cost(i), newCost - cost), Shares(i, Signed(e))>>
                 \o IF realized = 0 THEN <<>>
                    ELSE <<Amount(Cash(Currency[i]), realized),
                           Amount(Income("income:realized_pnl", i), -realized)>>)

PremiumFill(l, e) ==
  LET i     == e.instrument
      close == CloseQuantity(l, e)
      delta == Sign(Signed(e)) * (e.quantity - close) * e.price - Allocated(l, i, close)
      cash  == -Signed(e) * e.price
  IN  Together(<<Amount(Cash(Currency[i]), cash), Amount(Cost(i), delta), Shares(i, Signed(e)),
                 Amount(Income("income:realized_pnl", i), -(cash + delta))>>)

CashFill(l, e) ==
  LET i       == e.instrument
      money   == e.quantity * e.price
      removed == Allocated(l, i, e.quantity)
  IN  IF e.side = "BUY"
      THEN Together(<<Shares(i, Signed(e)), Amount(Cash(Currency[i]), -money),
                      Amount(Cost(i), money)>>)
      ELSE Together(<<Shares(i, Signed(e)), Amount(Cash(Currency[i]), money),
                      Amount(Cost(i), -removed),
                      Amount(Income("income:realized_pnl", i), removed - money)>>)

EntitlementKey(e) == <<e.instrument, e.currency, e.effective>>
Receivable(key)   == <<"assets:dividend_receivable", key[2], <<key[1], key[3]>>>>

(* _corporate_action_transaction.  cash is None (-1) or an amount a share, *)
(* ratio <<>> or a fraction; an entitlement of shares has shares > 0.      *)
ActionPostings(l, e) ==
  LET i    == e.instrument
      held == Held(l, i)
      cost == Balance(l, Cost(i))
      paid == l.entitled[EntitlementKey(e)].total
      gain == (IF e.shares > 0 THEN e.eligible ELSE held) * e.cash
  IN  CASE e.type = "terminal_cash" ->
             Together(<<Amount(Cash(Currency[i]), held * e.cash), Amount(Cost(i), -cost),
                        Amount(Income("income:realized_pnl", i), cost - held * e.cash),
                        Shares(i, -held)>>)
        [] e.type = "cash_dividend_payment" ->
             Together(<<Amount(Cash(e.currency), paid), Amount(Receivable(EntitlementKey(e)), -paid)>>)
        [] OTHER ->
             Together((IF e.cash < 0 THEN <<>>
                       ELSE <<Amount(IF e.type = "cash_dividend_entitlement"
                                     THEN Receivable(EntitlementKey(e)) ELSE Cash(e.currency), gain),
                              Amount(<<"income:corporate_action", e.currency, <<i>>>>, -gain)>>)
                      \o (IF e.shares > 0 THEN <<Shares(i, e.shares)>>
                          ELSE IF e.ratio = <<>> THEN <<>>
                          ELSE <<Shares(i, (held * e.ratio[1]) \div e.ratio[2] - held)>>))

SettlementPostings(l, e) ==
  LET i == e.instrument
  IN  Together(<<Amount(Cash(e.currency), e.amount),
                 Amount(<<"income:settlement", e.currency, <<i>>>>, -e.amount)>>
                 \o IF e.type # "daily_mark" THEN <<>>
                    ELSE <<Amount(Cost(i), Held(l, i) * e.price - Balance(l, Cost(i)))>>)

(* _cash_income_transaction *)
CashIncome(c, n, counter) == Together(<<Amount(Cash(c), n), Amount(counter, -n)>>)

(* _translate *)
Postings(l, e) ==
  CASE e.kind = "fill" /\ Kind[e.instrument] = "derivative" -> DerivativeFill(l, e)
    [] e.kind = "fill" /\ Kind[e.instrument] = "premium"    -> PremiumFill(l, e)
    [] e.kind = "fill" /\ Kind[e.instrument] = "cash"       -> CashFill(l, e)
    [] e.kind = "fee" -> CashIncome(e.currency, -e.amount, <<"expenses:fees", e.currency, <<>>>>)
    [] e.kind = "funding" ->
         CashIncome(e.currency, e.amount, <<"income:funding", e.currency, <<e.instrument>>>>)
    [] e.kind = "settlement" -> SettlementPostings(l, e)
    [] e.kind = "action"     -> ActionPostings(l, e)

Translated(l, e) == [key |-> <<e.kind, e.id>>, time |-> e.time, postings |-> Postings(l, e)]

NoEffect(e, tx) ==
  e.kind = "action" /\ \A k \in DOMAIN tx.postings : tx.postings[k] = [amount |-> 0, shares |-> 0]

-----------------------------------------------------------------------------
(* What _validate_event, _validate_corporate_action and the translation    *)
(* demand of an event.                                                     *)

FillAccepted(l, e) ==
  Kind[e.instrument] = "cash" =>
    IF e.side = "SELL" THEN Held(l, e.instrument) >= e.quantity
    ELSE Balance(l, Cash(Currency[e.instrument])) >= e.quantity * e.price

FeeAccepted(l, e) ==
  /\ e.fill \in DOMAIN l.fills
  /\ e.currency = Currency[l.fills[e.fill]]
  /\ (Kind[l.fills[e.fill]] # "derivative" /\ e.amount > 0) =>
       Balance(l, Cash(e.currency)) >= e.amount

SettlementAccepted(l, e) ==
  /\ e.currency = Currency[e.instrument]
  /\ e.type = "daily_mark" =>
       /\ Kind[e.instrument] = "derivative"
       /\ e.amount = Held(l, e.instrument) * e.price - Balance(l, Cost(e.instrument))

PaymentAccepted(l, e) ==
  LET key == EntitlementKey(e)
  IN  /\ e.ratio = <<>> /\ key \in DOMAIN l.entitled
      /\ e.cash = l.entitled[key].cash
      /\ Balance(l, Receivable(key)) = l.entitled[key].total

ActionAccepted(l, e) ==
  LET i == e.instrument
  IN  /\ e.shares > 0 => Kind[i] = "cash" /\ e.shares % Step = 0
      /\ e.type = "terminal_cash" =>
           Kind[i] # "derivative" /\ e.cash >= 0 /\ e.currency = Currency[i]
      /\ e.type = "cash_dividend_entitlement" => EntitlementKey(e) \notin DOMAIN l.entitled
      /\ e.type = "cash_dividend_payment" => PaymentAccepted(l, e)
      /\ (e.type # "terminal_cash" /\ e.ratio # <<>>) =>
           (Held(l, i) * e.ratio[1]) % (e.ratio[2] * Step) = 0

Accepted(l, e) ==
  /\ e.time >= l.time
  /\ e.kind = "fill" => FillAccepted(l, e)
  /\ e.kind = "fee" => FeeAccepted(l, e)
  /\ e.kind = "funding" => e.currency = Currency[e.instrument]
  /\ e.kind = "settlement" => SettlementAccepted(l, e)
  /\ e.kind = "action" => ActionAccepted(l, e)

-----------------------------------------------------------------------------
(* Booking an event: the body of _apply after its checks.                  *)

(* Mutant of Split: the lots keep their old quantities. *)
SplitMarksOnly(l, e) ==
  LET i == e.instrument
  IN  IF e.type = "terminal_cash" THEN [l EXCEPT !.marks = Drop(@, i)]
      ELSE [l EXCEPT !.marks = [j \in DOMAIN @ |->
                                  IF j = i THEN (@[j] * e.ratio[2]) \div e.ratio[1] ELSE @[j]]]

(* _apply_split_state and, below, the entitlement of shares and            *)
(* _apply_dividend_state, on the books with the transaction posted.        *)
Split(l, e) ==
  LET i == e.instrument
  IN  IF e.type = "terminal_cash"
      THEN [l EXCEPT !.lots = Put(@, i, <<>>), !.marks = Drop(@, i)]
      ELSE [l EXCEPT
              !.lots = Put(@, i, [n \in 1..Len(Lots(l, i)) |->
                                   [Lots(l, i)[n] EXCEPT
                                      !.quantity = (@ * e.ratio[1]) \div e.ratio[2]]]),
              !.marks = [j \in DOMAIN @ |->
                           IF j = i THEN (@[j] * e.ratio[2]) \div e.ratio[1] ELSE @[j]]]

ShareLot(l, e) ==
  [l EXCEPT
     !.lots = Put(@, e.instrument, Append(Lots(l, e.instrument),
                                          [day |-> e.sellable - 1, quantity |-> e.shares])),
     !.marks = IF e.reference = 0 THEN @ ELSE Put(@, e.instrument, e.reference)]

(* Mutant of DividendState: a paid entitlement stays registered. *)
DividendStateKept(l, e) ==
  LET key == EntitlementKey(e)
  IN  IF e.type # "cash_dividend_entitlement" THEN l
      ELSE [l EXCEPT !.entitled =
              Put(@, key, [cash |-> e.cash, total |-> Balance(l, Receivable(key))])]

DividendState(l, e) ==
  LET key == EntitlementKey(e)
  IN  CASE e.type = "cash_dividend_payment" ->
             [l EXCEPT !.entitled = Drop(@, key)]
        [] e.type = "cash_dividend_entitlement" ->
             [l EXCEPT !.entitled =
                Put(@, key, [cash |-> e.cash, total |-> Balance(l, Receivable(key))])]
        [] OTHER -> l

AfterFill(l, e, day, update) ==
  [l EXCEPT
     !.fills  = Put(@, e.id, e.instrument),
     !.days   = Put(@, e.id, day),
     !.lots   = Put(@, e.instrument, update.lots),
     !.closes = Put(@, e.id, [prior |-> update.prior, today |-> update.today])]

AfterAction(l, e) ==
  LET d == DividendState(l, e)
  IN  IF e.shares > 0 THEN ShareLot(d, e)
      ELSE IF e.ratio # <<>> \/ e.type = "terminal_cash" THEN Split(d, e) ELSE d

(* What each kind of event changes beside its transaction. *)
Recorded(l, posted, e, day) ==
  CASE e.kind = "fill"   -> AfterFill(posted, e, day, LotUpdate(l, e, day))
    [] e.kind = "action" -> AfterAction(posted, e)
    [] e.kind = "settlement" /\ e.type = "daily_mark" ->
         [posted EXCEPT !.marks = Put(@, e.instrument, e.price)]
    [] OTHER -> posted

BookedAs(l, e, day, tx) ==
  [Recorded(l, IF NoEffect(e, tx) THEN l ELSE Posted(l, tx), e, day) EXCEPT
     !.seen = Put(@, e.id, e), !.time = e.time]

(* The books after _apply's assignments, before its snapshot. *)
Booked(l, e, day) == BookedAs(l, e, day, Translated(l, e))

-----------------------------------------------------------------------------
(* _capture_apply_undo and _rollback_apply.  Saved keeps the entries of a  *)
(* map at some keys, with the absence of the others; Restored puts both    *)
(* back (_restore_values).                                                 *)

Saved(f, S) == Restrict(f, S \cap DOMAIN f)

Restored(f, S, saved) ==
  [x \in (DOMAIN f \ S) \cup DOMAIN saved |-> IF x \in DOMAIN saved THEN saved[x] ELSE f[x]]

InstrumentsOf(e) == IF e.kind = "fee" THEN {} ELSE {e.instrument}
FillsOf(e)       == IF e.kind = "fill" THEN {e.id} ELSE {}
EntitlementsOf(e) ==
  IF e.kind = "action" /\ e.type \in {"cash_dividend_entitlement", "cash_dividend_payment"}
  THEN {EntitlementKey(e)} ELSE {}

Undo(l, e, tx) ==
  [count    |-> Len(l.journal),
   known    |-> tx.key \in l.keys,
   accounts |-> Saved(l.accounts, DOMAIN tx.postings),
   positions |-> Saved(l.positions, Moved(tx)),
   seen     |-> Saved(l.seen, {e.id}),
   fills    |-> Saved(l.fills, FillsOf(e)),
   days     |-> Saved(l.days, FillsOf(e)),
   closes   |-> Saved(l.closes, FillsOf(e)),
   lots     |-> Saved(l.lots, InstrumentsOf(e)),
   marks    |-> Saved(l.marks, InstrumentsOf(e)),
   entitled |-> Saved(l.entitled, EntitlementsOf(e)),
   time     |-> l.time]

(* Mutant of Rollback: the transaction stays in the journal. *)
RollbackKeepsJournal(l, e, tx, undo) ==
  [l EXCEPT
     !.keys      = IF undo.known THEN @ ELSE @ \ {tx.key},
     !.accounts  = Restored(@, DOMAIN tx.postings, undo.accounts),
     !.positions = Restored(@, Moved(tx), undo.positions),
     !.lots      = Restored(@, InstrumentsOf(e), undo.lots),
     !.entitled  = Restored(@, EntitlementsOf(e), undo.entitled),
     !.time      = undo.time]

(* Mutant of Rollback: the marks are not put back. *)
RollbackForgetsMarks(l, e, tx, undo) ==
  [l EXCEPT
     !.journal   = SubSeq(@, 1, undo.count),
     !.keys      = IF undo.known THEN @ ELSE @ \ {tx.key},
     !.accounts  = Restored(@, DOMAIN tx.postings, undo.accounts),
     !.positions = Restored(@, Moved(tx), undo.positions),
     !.seen      = Restored(@, {e.id}, undo.seen),
     !.fills     = Restored(@, FillsOf(e), undo.fills),
     !.days      = Restored(@, FillsOf(e), undo.days),
     !.closes    = Restored(@, FillsOf(e), undo.closes),
     !.lots      = Restored(@, InstrumentsOf(e), undo.lots),
     !.entitled  = Restored(@, EntitlementsOf(e), undo.entitled),
     !.time      = undo.time]

Rollback(l, e, tx, undo) ==
  [l EXCEPT
     !.journal   = SubSeq(@, 1, undo.count),
     !.keys      = IF undo.known THEN @ ELSE @ \ {tx.key},
     !.accounts  = Restored(@, DOMAIN tx.postings, undo.accounts),
     !.positions = Restored(@, Moved(tx), undo.positions),
     !.seen      = Restored(@, {e.id}, undo.seen),
     !.fills     = Restored(@, FillsOf(e), undo.fills),
     !.days      = Restored(@, FillsOf(e), undo.days),
     !.closes    = Restored(@, FillsOf(e), undo.closes),
     !.lots      = Restored(@, InstrumentsOf(e), undo.lots),
     !.marks     = Restored(@, InstrumentsOf(e), undo.marks),
     !.entitled  = Restored(@, EntitlementsOf(e), undo.entitled),
     !.time      = undo.time]

-----------------------------------------------------------------------------
(* Calls of the ledger.  Refuse is a call that raised before it changed    *)
(* anything.                                                               *)

Replaying == checkpoint # <<>>
Refuse    == outcome' = "refused" /\ UNCHANGED ledger

(* The fingerprint check: the same event again, or another of its name. *)
Repeats(l, e, day) ==
  e.id \in DOMAIN l.seen /\ l.seen[e.id] = e /\ (e.kind = "fill" => l.days[e.id] = day)

(* _validate_event comes before the fingerprint check. *)
Validated(l, e) ==
  /\ e.kind = "fee" => FeeAccepted(l, e)
  /\ e.kind \in {"funding", "settlement"} => e.currency = Currency[e.instrument]

(* The snapshot at the end of _apply: what was booked stays when it        *)
(* returns, and is taken back when it raises.                              *)
Finish(e, tx, after, snap) ==
  IF snap /\ SnapshotRaises(after, e.time)
  THEN ledger' = Rollback(after, e, tx, Undo(ledger, e, tx)) /\ outcome' = "refused"
  ELSE ledger' = after /\ outcome' = "applied"

(* apply and apply_with_trading_day *)
Apply(e, day, snap) ==
  /\ ~Replaying
  /\ IF ledger.closed \/ ~Validated(ledger, e) THEN Refuse
     ELSE IF e.id \in DOMAIN ledger.seen
     THEN IF Repeats(ledger, e, day) /\ ~(snap /\ SnapshotRaises(ledger, ledger.time))
          THEN outcome' = "repeated" /\ UNCHANGED ledger
          ELSE Refuse
     ELSE IF ~Accepted(ledger, e) THEN Refuse
     ELSE Finish(e, Translated(ledger, e), Booked(ledger, e, day), snap)
  /\ UNCHANGED <<mode, fx, sunk, checkpoint>>

(* mark, and observe_market for the other priced events.  A replay asks    *)
(* for no snapshot, and a mark that is refused fails it.                   *)
MarkAccepted(l, m) == m.id \notin DOMAIN l.marked /\ m.time >= l.time

Mark(m, snap) ==
  LET marked == [ledger EXCEPT !.marks = Put(@, m.instrument, m.price),
                               !.marked = Put(@, m.id, m), !.time = m.time]
  IN  /\ Replaying => ~snap /\ MarkAccepted(ledger, m)
      /\ IF ledger.closed THEN Refuse
         ELSE IF m.id \in DOMAIN ledger.marked
         THEN IF ledger.marked[m.id] = m /\ ~(snap /\ SnapshotRaises(ledger, ledger.time))
              THEN outcome' = "repeated" /\ UNCHANGED ledger
              ELSE Refuse
         ELSE IF ~MarkAccepted(ledger, m) \/ (snap /\ SnapshotRaises(marked, m.time)) THEN Refuse
         ELSE ledger' = marked /\ outcome' = "applied"
      /\ UNCHANGED <<mode, fx, sunk, checkpoint>>

(* funding_from_market and settlement_from_market: the ledger event of a   *)
(* market fact, from the position and the mark as they are.                *)
FromMarket(l, f) ==
  IF f.kind = "funding_rate"
  THEN [id |-> f.id, kind |-> "funding", instrument |-> f.instrument, time |-> f.time,
        currency |-> Currency[f.instrument],
        amount |-> -(Held(l, f.instrument) * l.marks[f.instrument] * f.rate)]
  ELSE [id |-> f.id, kind |-> "settlement", type |-> "daily_mark", instrument |-> f.instrument,
        time |-> f.time, currency |-> Currency[f.instrument],
        price |-> l.marks[f.instrument], amount |-> Pnl(l, f.instrument)]

HasEvent(l, f) == Held(l, f.instrument) # 0 /\ f.instrument \in DOMAIN l.marks

(* set_fx_rate, and observe_pit_fx, whose rates may come in any order. *)
ObserveRate(q) ==
  /\ ~Replaying /\ ~ledger.closed
  /\ mode = "legacy" => \A r \in fx : r.currency = q.currency => r.at < q.at
  /\ fx' = fx \cup {q} /\ outcome' = "applied"
  /\ UNCHANGED <<mode, ledger, sunk, checkpoint>>

-----------------------------------------------------------------------------
(* Imports of a statement.  _import_seen lets a repeat pass; the snapshot  *)
(* comes last, and nothing is taken back when it raises ("kept").          *)

Imported(done, at) ==
  /\ ledger' = done
  /\ outcome' = IF SnapshotRaises(done, at) THEN "kept" ELSE "applied"

SameImport(l, tx) == \E n \in 1..Len(l.journal) : l.journal[n] = tx

(* book_external_cash *)
BookExternalCash(t) ==
  LET tx == [key |-> <<"external", t.id>>, time |-> t.time,
             postings |-> Together(<<Amount(Cash(Base), t.amount),
                                     Amount(<<"equity:external_flows", Base, <<>>>>, -t.amount)>>)]
  IN  /\ ~Replaying
      /\ IF ledger.closed THEN Refuse
         ELSE IF tx.key \in ledger.keys
         THEN IF SameImport(ledger, tx) /\ ~SnapshotRaises(ledger, ledger.time)
              THEN outcome' = "repeated" /\ UNCHANGED ledger ELSE Refuse
         ELSE IF t.time < ledger.time \/ Balance(ledger, Cash(Base)) + t.amount < 0 THEN Refuse
         ELSE Imported([Posted(ledger, tx) EXCEPT !.time = t.time], t.time)
      /\ UNCHANGED <<mode, fx, sunk, checkpoint>>

(* book_opening_position *)
BookOpeningPosition(p) ==
  LET i  == p.instrument
      tx == [key |-> <<"opening-position", i>>, time |-> 0,
             postings |-> Together(<<Amount(Cost(i), p.quantity * p.price), Shares(i, p.quantity),
                                     Amount(<<"equity:opening", Currency[i], <<>>>>,
                                            -p.quantity * p.price)>>)]
      lot == <<[day |-> p.day, quantity |-> p.quantity]>>
  IN  /\ ~Replaying
      /\ IF ledger.closed \/ Kind[i] = "derivative" \/ p.day > ledger.time THEN Refuse
         ELSE IF tx.key \in ledger.keys
         THEN IF /\ SameImport(ledger, tx) /\ Lots(ledger, i) = lot
                 /\ ~SnapshotRaises(ledger, ledger.time)
              THEN outcome' = "repeated" /\ UNCHANGED ledger ELSE Refuse
         ELSE IF ledger.time # 0 \/ Held(ledger, i) # 0 THEN Refuse
         ELSE Imported([Posted(ledger, tx) EXCEPT !.lots = Put(@, i, lot),
                                                  !.marks = Put(@, i, p.price)], 0)
      /\ UNCHANGED <<mode, fx, sunk, checkpoint>>

-----------------------------------------------------------------------------
(* The engine's streaming replay: the books are reset, their journal goes  *)
(* to the sink, and a failure puts back what was captured.                 *)

(* _capture_state, reset, start_artifact_stream *)
StartReplay ==
  /\ ~Replaying
  /\ checkpoint' = [ledger |-> ledger, sunk |-> sunk, fx |-> fx]
  /\ ledger' = [Opened EXCEPT !.journal = <<>>]
  /\ sunk' = Opened.journal
  /\ outcome' = "applied" /\ fx' = {}
  /\ UNCHANGED mode

(* _post while streaming keeps no keys; _apply_replay_event, for fills and  *)
(* fees, no fingerprints either; the fee of a fill forgets the fill.       *)
Streamed(l, after, e) ==
  LET done == {f \in DOMAIN after.fills : e.kind = "fee" /\ e.fill = f}
  IN  [after EXCEPT
         !.journal = <<>>, !.keys = l.keys,
         !.seen   = IF e.kind \in {"fill", "fee"} THEN l.seen ELSE @,
         !.fills  = Restrict(@, DOMAIN @ \ done),
         !.closes = Restrict(@, {f \in DOMAIN @ :
                                   f \in done => Kind[after.fills[f]] = "derivative"})]

Stream(e, after) == ledger' = Streamed(ledger, after, e) /\ sunk' = sunk \o after.journal

(* The engine sends each event once; one that is refused fails the replay. *)
ReplayEvent(e, day) ==
  /\ Replaying
  /\ Accepted(ledger, e) /\ e.id \notin DOMAIN ledger.seen
  /\ \A n \in 1..Len(sunk) : sunk[n].key # <<e.kind, e.id>>
  /\ Stream(e, Booked(ledger, e, day))
  /\ outcome' = "applied"
  /\ UNCHANGED <<mode, fx, checkpoint>>

(* finish_artifact_stream *)
FinishReplay ==
  /\ Replaying
  /\ ledger' = [ledger EXCEPT !.closed = TRUE]
  /\ checkpoint' = <<>> /\ outcome' = "applied"
  /\ UNCHANGED <<mode, fx, sunk>>

(* abort_artifact_stream and _restore_state, when anything raised. *)
FailReplay ==
  /\ Replaying
  /\ ledger' = checkpoint.ledger /\ sunk' = checkpoint.sunk /\ fx' = checkpoint.fx
  /\ checkpoint' = <<>> /\ outcome' = "applied"
  /\ UNCHANGED mode

=============================================================================
