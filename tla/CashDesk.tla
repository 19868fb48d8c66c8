------------------------------ MODULE CashDesk ------------------------------
(***************************************************************************)
(* The two accounts that execute cash equities on a ledger of their own    *)
(* and let no purchase spend what a sale has not yet been paid:            *)
(*   "hk"  HKDailyExecution (hong_kong.py), which keeps a list of pending  *)
(*         proceeds and drops those due when a day's end is settled (T+2), *)
(*   "us"  USCashAccount (us_cash.py), which works out the pending         *)
(*         proceeds from the ledger's journal each time (T+1).             *)
(* An order is one step: its fill and its fees are booked together or not  *)
(* at all.  A day is a unit of the ledger's time.                          *)
(***************************************************************************)
EXTENDS Ledger

CONSTANTS
  Desks,           \* the kinds of account to start with; "none": a ledger alone
  Lot,             \* board lot of the Hong Kong instruments
  SettlementDays,  \* the settlement calendar
  MinFee, FeePer,  \* commission: one part in FeePer, at least MinFee (Hong Kong)
  StampPer         \* stamp duty: one part in StampPer, rounded up (Hong Kong)

(* MinFee is positive: execute does not book a charge of zero, Charges all. *)
ASSUME DeskAssumption ==
  /\ SettlementDays \subseteq Nat /\ Lot \in Nat \ {0} /\ MinFee \in Nat \ {0}
  /\ FeePer \in Nat \ {0} /\ StampPer \in Nat \ {0}

VARIABLES
  desk,         \* the kind of account
  executed,     \* executed, _trades: the content of each order, by id
  pending,      \* pending: what Hong Kong sales will pay, with its day
  lastSettled,  \* last_settlement_day; -1 when there is none
  sales         \* history: day and net proceeds of every sale

deskVars == <<desk, executed, pending, lastSettled, sales>>

DeskInit ==
  /\ desk \in Desks
  /\ executed = [o \in {} |-> 0] /\ pending = <<>> /\ lastSettled = -1 /\ sales = {}

Worth(o) == o.quantity * o.price

(* HKFeeSchedule.charge, and the commission of trade: fee ids and amounts. *)
Charges(o) ==
  IF desk = "hk"
  THEN << <<"-commission", Max({MinFee, RoundDiv(Worth(o), FeePer)})>>,
          <<"-stamp", (Worth(o) + StampPer - 1) \div StampPer>> >>
  ELSE << <<"-fee", RoundDiv(Worth(o), FeePer)>> >>

FeeTotal(o) == MapThenSumSet(LAMBDA n : Charges(o)[n][2], DOMAIN Charges(o))

FillOf(o) == [id |-> o.id, kind |-> "fill", instrument |-> o.instrument, side |-> o.side,
              quantity |-> o.quantity, price |-> o.price, time |-> o.at]
FeesOf(o) == [n \in DOMAIN Charges(o) |->
                [id |-> o.id \o Charges(o)[n][1], kind |-> "fee", fill |-> o.id,
                 amount |-> Charges(o)[n][2], currency |-> Base, time |-> o.at]]

(* The fill and then each fee, every one with its snapshot; [ok, books]. *)
WithSnapshot(done, at) == [ok |-> ~SnapshotRaises(done, at), books |-> done]

BookNext(r, e, day) ==
  IF r.ok /\ Accepted(r.books, e) THEN WithSnapshot(Booked(r.books, e, day), e.time)
  ELSE [ok |-> FALSE, books |-> r.books]

BookAll(l, o) ==
  LET events    == <<FillOf(o)>> \o FeesOf(o)
      after[n \in 0..Len(events)] ==
        IF n = 0 THEN [ok |-> TRUE, books |-> l] ELSE BookNext(after[n - 1], events[n], o.at)
  IN  after[Len(events)]

(* What both accounts do with an order they may execute. *)
Executed(o, due, done) ==
  IF ~done.ok THEN Refuse /\ UNCHANGED deskVars
  ELSE /\ ledger' = done.books /\ outcome' = "applied"
       /\ executed' = Put(executed, o.id, o)
       /\ pending' = IF desk = "hk" /\ o.side = "SELL"
                     THEN Append(pending, <<due, Monus(Worth(o), FeeTotal(o))>>) ELSE pending
       /\ sales' = IF o.side = "SELL"
                   THEN sales \cup {[id |-> o.id, day |-> o.at,
                                     net |-> Monus(Worth(o), FeeTotal(o))]}
                   ELSE sales
       /\ UNCHANGED <<desk, lastSettled>>

Execute(o, due) == Executed(o, due, BookAll(ledger, o))

Again(o) ==
  /\ IF executed[o.id] = o THEN outcome' = "repeated" /\ UNCHANGED ledger ELSE Refuse
  /\ UNCHANGED deskVars

-----------------------------------------------------------------------------
(* Hong Kong *)

(* available_cash *)
Available == Balance(ledger, Cash(Base)) - MapThenSumSet(LAMBDA n : pending[n][2], DOMAIN pending)

(* settlement_date: the second settlement day after the trade. *)
NextDay(day) == Min({d \in SettlementDays : d > day})

(* Mutant of SettlementDate: the day after the trade. *)
SettlementNext(day) == NextDay(day)

SettlementDate(day) == Min({d \in SettlementDays : d > day} \ {NextDay(day)})

ExecuteHK(o) ==
  /\ desk = "hk"
  /\ IF o.id \in DOMAIN executed THEN Again(o)
     ELSE IF \/ o.at <= lastSettled \/ o.quantity % Lot # 0
             \/ o.at < ledger.time \/ SnapshotRaises(ledger, o.at)
             \/ o.side = "SELL" /\ o.quantity > Held(ledger, o.instrument)
             \/ o.side = "BUY" /\ Worth(o) + FeeTotal(o) > Available
             \/ o.side = "SELL" /\ Available + Worth(o) < FeeTotal(o)
             \/ Cardinality({d \in SettlementDays : d > o.at}) < 2
     THEN Refuse /\ UNCHANGED deskVars
     ELSE Execute(o, SettlementDate(o.at))
  /\ UNCHANGED <<mode, fx, sunk, checkpoint>>

SettleEndOfDay(day) ==
  /\ desk = "hk"
  /\ IF day < lastSettled THEN outcome' = "refused" /\ UNCHANGED <<pending, lastSettled>>
     ELSE /\ pending' = SelectSeq(pending, LAMBDA p : p[1] > day)
          /\ lastSettled' = day /\ outcome' = "applied"
  /\ UNCHANGED <<mode, ledger, fx, sunk, checkpoint, desk, executed, sales>>

-----------------------------------------------------------------------------
(* United States *)

Proceeds(tx) ==
  IF tx.key[1] = "fill" /\ Cash(Base) \in DOMAIN tx.postings
  THEN Max({0, tx.postings[Cash(Base)].amount}) ELSE 0

(* settled_cash and settlement_session (external): the session after the   *)
(* trade's.                                                                *)
SettledCash(at) ==
  Balance(ledger, Cash(Base))
  - MapThenSumSet(LAMBDA n : LET tx == ledger.journal[n]
                             IN  IF NextDay(tx.time) > at THEN Proceeds(tx) ELSE 0,
                  DOMAIN ledger.journal)

(* _check_time *)
InTime(at) == at >= ledger.time /\ ~SnapshotRaises(ledger, ledger.time)

TradeUS(o) ==
  /\ desk = "us"
  /\ IF o.id \in DOMAIN executed THEN Again(o)
     ELSE IF \/ ~InTime(o.at)
             \/ o.side = "SELL" /\ o.quantity > Held(ledger, o.instrument)
             \/ o.side = "BUY" /\ Worth(o) + FeeTotal(o) > Max({0, SettledCash(o.at)})
     THEN Refuse /\ UNCHANGED deskVars
     ELSE Execute(o, o.at)
  /\ UNCHANGED <<mode, fx, sunk, checkpoint>>

(* action and mark of the account in the United States; Hong Kong's mark.  *)
ActionUS(e) ==
  /\ desk = "us" /\ e.kind = "action" /\ e.type # "terminal_cash" /\ e.shares = 0
  /\ IF InTime(e.time) THEN Apply(e, e.time, TRUE)
     ELSE Refuse /\ UNCHANGED <<mode, fx, sunk, checkpoint>>
  /\ UNCHANGED deskVars

MarkDesk(m) ==
  /\ desk # "none" /\ Kind[m.instrument] = "cash"
  /\ IF desk = "us" /\ ~InTime(m.time) THEN Refuse /\ UNCHANGED <<mode, fx, sunk, checkpoint>>
     ELSE Mark(m, TRUE)
  /\ UNCHANGED deskVars

=============================================================================
