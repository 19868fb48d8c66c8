------------------------------ MODULE Account ------------------------------
(***************************************************************************)
(* The account as a whole: one ledger, used directly, through corporate    *)
(* actions and the dividend lifecycle, by the engine's replay, or by a     *)
(* cash desk.  The constants are a catalogue of what may be asked of it;   *)
(* some entries share an id and differ in content.                         *)
(***************************************************************************)
EXTENDS CorporateActions, Dividends, CashDesk

CONSTANTS
  Events,       \* ledger events, each with the trading days it may be sent with
  MarketFacts,  \* funding rates and daily settlements
  MarkEvents, Rates, Transfers, Openings, Actions, Lifecycles, Orders,
  Times,        \* instants for corporate actions, cutoffs and day ends
  Agendas,      \* bound: which ids occur in the life of one account
  MaxBefore,    \* bound on what is booked and marked before a replay
  MaxReplayed   \* bound on the ids of a life in which a replay may start

(* What the ids of fees add to that of their order (Charges). *)
FeeSuffixes == {"-commission", "-stamp", "-fee"}

(* What the contracts of the facts demand; and, of strings, that no two    *)
(* orders have a fee id in common, since the suffixes end differently.     *)
Ratio(r) == r[1] \in Nat \ {0} /\ r[2] \in Nat \ {0}

IsEvent(e) ==
  /\ e.kind \in {"fill", "fee", "funding", "settlement", "action"}
  /\ e.kind # "fee" => e.instrument \in Instruments
  /\ e.kind = "fill" => e.side \in {"BUY", "SELL"} /\ e.quantity \in Nat \ {0} /\ e.price \in Int
  /\ e.kind \in {"fee", "funding", "settlement"} => e.amount \in Int
  /\ (e.kind = "settlement" /\ e.type = "daily_mark") => e.price \in Int
  /\ e.kind = "action" =>
       /\ e.cash \in Int /\ e.shares \in Nat /\ e.eligible \in Nat /\ e.reference \in Nat
       /\ e.ratio # <<>> => Ratio(e.ratio)

IsAction(a) ==
  /\ a.instrument \in Instruments /\ a.cash \in Int
  /\ a.kind = "split" => Ratio(a.ratio)
  /\ a.kind = "cash_in_lieu" => a.retired \in Nat
  /\ ~Simple(a) /\ a.kind # "cash_in_lieu" =>
       /\ a.target \in Instruments /\ Ratio(a.ratio) /\ Ratio(a.fraction)
       /\ a.election \in Nat /\ a.parentMark \in Nat /\ a.targetMark \in Nat

ASSUME CatalogueAssumption ==
  /\ \A e \in Events : IsEvent(e)
  /\ \A f \in MarketFacts : f.instrument \in Instruments /\ (f.kind = "funding_rate" => f.rate \in Int)
  /\ \A m \in MarkEvents : m.price \in Int
  /\ \A t \in Transfers : t.amount \in Int
  /\ \A p \in Openings : p.instrument \in Instruments /\ p.quantity \in Int /\ p.price \in Int
  /\ \A a \in Actions : IsAction(a)
  /\ \A d \in Lifecycles :
       d.quantity \in Int /\ d.amount \in Int /\ d.published \in Int /\ d.gross \in Int /\ d.withheld \in Int
  /\ \A o \in Orders :
       /\ o.instrument \in Instruments /\ o.side \in {"BUY", "SELL"}
       /\ o.quantity \in Nat \ {0} /\ o.price \in Nat \ {0}
  /\ \A o, p \in Orders, s, t \in FeeSuffixes : o.id \o s = p.id \o t => o.id = p.id /\ s = t

VARIABLE agenda  \* the ids that may occur

AllVars == <<vars, deskVars, agenda>>

AccountInit ==
  /\ Init /\ DeskInit
  /\ desk = "us" => mode = "legacy"
  /\ IF desk = "none" THEN agenda \in Agendas ELSE agenda = {}

Due(catalogue) == {e \in catalogue : e.id \in agenda}

(* A ledger that no desk trades on. *)
Alone == desk = "none" /\ UNCHANGED <<deskVars, agenda>>

ApplyEvent ==
  /\ \E e \in Due(Events), snap \in BOOLEAN : \E day \in e.on : Apply(e, day, snap)
  /\ Alone

ApplyFact ==
  /\ \E f \in Due(MarketFacts), snap \in BOOLEAN :
       HasEvent(ledger, f) /\ Apply(FromMarket(ledger, f), f.time, snap)
  /\ Alone

MarkPrice == (\E m \in Due(MarkEvents), snap \in BOOLEAN : Mark(m, snap)) /\ Alone
SetRate   == (\E q \in Rates : ObserveRate(q)) /\ Alone
Transfer  == (\E t \in Due(Transfers) : BookExternalCash(t)) /\ Alone
Import    == (\E p \in Due(Openings) : BookOpeningPosition(p)) /\ Alone
Act       == (\E a \in Due(Actions), at \in Times : ApplyAction(a, at)) /\ Alone

Dividend ==
  /\ \E d \in Due(Lifecycles), phase \in Phases, cutoff \in Times : ApplyDividend(d, phase, cutoff)
  /\ Alone

BeginReplay ==
  /\ Len(ledger.journal) + Cardinality(DOMAIN ledger.marked) + Cardinality(DOMAIN ledger.seen)
       <= MaxBefore
  /\ Cardinality(agenda) <= MaxReplayed
  /\ StartReplay /\ Alone

ReplayOne ==
  /\ \/ \E e \in Due(Events) : ReplayEvent(e, e.time)
     \/ \E f \in Due(MarketFacts) :
          HasEvent(ledger, f) /\ ReplayEvent(FromMarket(ledger, f), f.time)
  /\ Alone

EndReplay == (FinishReplay \/ FailReplay) /\ Alone

TradeHK   == (\E o \in Orders : ExecuteHK(o)) /\ UNCHANGED agenda
SettleDay == (\E day \in Times : SettleEndOfDay(day)) /\ UNCHANGED agenda
TradeCash == (\E o \in Orders : TradeUS(o)) /\ UNCHANGED agenda
ActDesk   == (\E e \in Events : ActionUS(e)) /\ UNCHANGED agenda
PriceDesk == (\E m \in MarkEvents : MarkDesk(m)) /\ UNCHANGED agenda

Next ==
  \/ ApplyEvent \/ ApplyFact \/ MarkPrice \/ SetRate \/ Transfer \/ Import \/ Act \/ Dividend
  \/ BeginReplay \/ ReplayOne \/ EndReplay
  \/ TradeHK \/ SettleDay \/ TradeCash \/ ActDesk \/ PriceDesk

Spec == AccountInit /\ [][Next]_AllVars

-----------------------------------------------------------------------------
(* What the journal says of an account, and of a position. *)
Journal == sunk \o ledger.journal

Entry(rows, k, n) == Lookup(rows[n].postings, k, [amount |-> 0, shares |-> 0])
Amounts(rows, k)  == [n \in DOMAIN rows |-> Entry(rows, k, n).amount]
Units(rows, i)    == [n \in DOMAIN rows |-> Entry(rows, Position(i), n).shares]
Total(f)          == SumFunctionOnSet(f, DOMAIN f)

(* The books are what the journal adds up to: every balance and position,  *)
(* no event booked twice, and the keys those of the journal (those of a    *)
(* stream are not kept).  About _post and _rollback_apply, which keep the  *)
(* journal, the keys and the balances by separate assignments.             *)
BooksReconcile ==
  /\ \A k \in DOMAIN ledger.accounts : ledger.accounts[k] = Total(Amounts(Journal, k))
  /\ \A i \in DOMAIN ledger.positions : ledger.positions[i] = Total(Units(Journal, i))
  /\ \A m, n \in DOMAIN Journal : m # n => Journal[m].key # Journal[n].key
  /\ sunk = <<>> => ledger.keys = {ledger.journal[n].key : n \in DOMAIN ledger.journal}

(* The lots of an instrument add up to its position and lie on one side,   *)
(* and a flat position has no cost left.  About _prepare_lot_update, which *)
(* the rules of T+1 rely on, beside the splits, conversions and imports    *)
(* that move positions and lots separately.                                *)
LotsCoverPosition ==
  \A i \in Instruments :
    /\ LotSum(Lots(ledger, i)) = Held(ledger, i)
    /\ \A m, n \in DOMAIN Lots(ledger, i) :
         Lots(ledger, i)[m].quantity * Lots(ledger, i)[n].quantity > 0
    /\ Held(ledger, i) = 0 => Balance(ledger, Cost(i)) = 0

(* What the receivable accounts hold is what the registered, unpaid        *)
(* dividends are owed, of both kinds.  About _apply_dividend_state and     *)
(* NextState, which keep the claim beside its balance.                     *)
ReceivablesRegistered ==
  \A k \in {j \in DOMAIN ledger.accounts : j[1] = "assets:dividend_receivable"} :
    ledger.accounts[k] =
      IF k[3][1] = "dividend"
      THEN LET state == ledger.dividends[k[3][2]]
           IN  IF state.currency = k[2] THEN state.receivable ELSE 0
      ELSE LET key == <<k[3][1], k[2], k[3][2]>>
           IN  IF key \in DOMAIN ledger.entitled THEN ledger.entitled[key].total ELSE 0

(* A call that raises leaves the books as they were (an import whose last  *)
(* snapshot raises is "kept": its repeat does nothing).  About _apply,     *)
(* which undoes map by map what it had done when its snapshot raised.      *)
RefusedLeavesNoTrace == [][outcome' = "refused" => ledger' = ledger]_AllVars

(* No purchase spends the net proceeds of a sale before it settles: two    *)
(* settlement days after it and a settled day's end in Hong Kong, one day  *)
(* after it in the United States.  About available_cash and settled_cash.  *)
Unsettled(s) ==
  IF desk = "hk" THEN Cardinality({d \in SettlementDays : s.day < d /\ d <= lastSettled}) < 2
  ELSE \A d \in SettlementDays : s.day < d => ledger.time < d

ProceedsHeld ==
  desk # "none" =>
    Balance(ledger, Cash(Base)) >=
      MapThenSumSet(LAMBDA s : s.net, {s \in sales : Unsettled(s)})

(* An event that was booked may be sent again, as often as one likes       *)
(* ("every mutation is replayable and idempotent", ledger.py:123): it      *)
(* passes the checks made before the ledger knows it again.                *)
RepeatsAccepted ==
  \A e \in Events :
    e.id \in DOMAIN ledger.seen /\ ledger.seen[e.id] = e => Validated(ledger, e)

=============================================================================
