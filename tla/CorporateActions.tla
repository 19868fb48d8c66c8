-------------------------- MODULE CorporateActions --------------------------
(***************************************************************************)
(* corporate_actions.py: apply_action books the evidenced terms of a       *)
(* corporate action on the ledger.  Splits, dividends and terminal cash    *)
(* become an event of the ledger; cash in lieu and conversions (mergers,   *)
(* spin-offs, rights) post their own transaction and move the lots.  The   *)
(* whole ledger is captured before and restored when anything raises.      *)
(***************************************************************************)
EXTENDS Ledger

Distribution(a) == a.kind \in {"spin_off", "rights_distribution"}
Exercise(a)     == a.kind = "rights_exercise"

(* The ledger event that stands for the simple kinds. *)
AsEvent(a, at) ==
  [id |-> a.id, kind |-> "action", instrument |-> a.instrument, time |-> at,
   type |-> CASE a.kind = "dividend_entitlement" -> "cash_dividend_entitlement"
              [] a.kind = "dividend_payment"     -> "cash_dividend_payment"
              [] OTHER                           -> a.kind,
   effective |-> a.effective, currency |-> a.currency,
   cash |-> IF a.kind = "split" THEN -1 ELSE a.cash,
   ratio |-> IF a.kind = "split" THEN a.ratio ELSE <<>>,
   shares |-> 0, eligible |-> 0, sellable |-> 0, reference |-> 0]

-----------------------------------------------------------------------------
(* _cash_in_lieu: retired units are paid off at a price.                   *)

LieuAccepted(l, a) ==
  /\ a.retired <= Held(l, a.instrument) /\ a.retired % Step = 0
  /\ a.retired <= LotSum(Lots(l, a.instrument))

CashInLieu(l, a, at) ==
  LET i     == a.instrument
      cost  == Allocated(l, i, a.retired)
      money == a.retired * a.cash
      lots  == Lots(l, i)
      done  == Posted(l, [key |-> <<"financial", a.id>>, time |-> at,
                          postings |-> Together(<<Amount(Cash(a.currency), money),
                                                  Amount(Cost(i), -cost),
                                                  Amount(Income("income:realized_pnl", i), cost - money),
                                                  Shares(i, -a.retired)>>)])
  IN  [done EXCEPT
         !.lots  = Put(@, i, Without(lots, Taken(lots, a.retired))),
         !.marks = IF a.retired = Held(l, i) THEN Drop(@, i) ELSE @,
         !.time  = at]

-----------------------------------------------------------------------------
(* _convert: a holding, or rights to it, becomes units of the target.      *)

Eligible(l, a) == IF Exercise(a) THEN a.election ELSE Held(l, a.instrument)
Added(l, a)    == (Eligible(l, a) * a.ratio[1]) \div a.ratio[2]
Removed(l, a)  == IF Distribution(a) THEN 0 ELSE Eligible(l, a)
PaidOut(l, a)  == Eligible(l, a) * a.cash * IF Exercise(a) THEN -1 ELSE 1

ConvertAccepted(l, a) ==
  /\ Kind[a.target] # "derivative" /\ Currency[a.target] = a.currency
  /\ Held(l, a.instrument) >= 0 /\ Eligible(l, a) <= Held(l, a.instrument)
  /\ (Eligible(l, a) * a.ratio[1]) % (a.ratio[2] * Step) = 0
  /\ Removed(l, a) % Step = 0
  /\ Balance(l, Cash(a.currency)) + PaidOut(l, a) >= 0
  /\ Removed(l, a) <= LotSum(Lots(l, a.instrument))

(* The share of the cost that moves, and what leaves the parent. *)
MovedCost(l, a) ==
  LET held == Held(l, a.instrument)
      cost == Balance(l, Cost(a.instrument))
  IN  IF held = 0 THEN 0
      ELSE IF Exercise(a) THEN RoundDiv(cost * Eligible(l, a), held)
      ELSE RoundDiv(cost * a.fraction[1], a.fraction[2])

RemovedCost(l, a) ==
  IF Distribution(a) THEN MovedCost(l, a) ELSE Allocated(l, a.instrument, Eligible(l, a))

ConvertPostings(l, a) ==
  LET target == MovedCost(l, a) - IF Exercise(a) THEN PaidOut(l, a) ELSE 0
  IN  Together(<<Amount(Cash(a.currency), PaidOut(l, a)),
                 Amount(Cost(a.instrument), -RemovedCost(l, a)),
                 Amount(Cost(a.target), target),
                 Amount(Income("income:realized_pnl", a.instrument),
                        RemovedCost(l, a) - target - PaidOut(l, a)),
                 Shares(a.instrument, -Removed(l, a)), Shares(a.target, Added(l, a))>>)

(* The target's lots: of a conversion the parent's days, otherwise today.  *)
NewLots(l, a, at) ==
  LET lots  == Lots(l, a.instrument)
      taken == Taken(lots, Removed(l, a))
  IN  IF Removed(l, a) > 0
      THEN SelectSeq([n \in 1..Len(lots) |->
                        [day |-> IF Exercise(a) THEN at ELSE lots[n].day,
                         quantity |-> (taken[n] * a.ratio[1]) \div a.ratio[2]]],
                     LAMBDA lot : lot.quantity # 0)
      ELSE IF Added(l, a) = 0 THEN <<>> ELSE << [day |-> at, quantity |-> Added(l, a)] >>

Conversion(l, a, at) ==
  [key |-> <<"financial", a.id>>, time |-> at, postings |-> ConvertPostings(l, a)]

(* Nothing is posted when every posting is zero. *)
PostedIfAny(l, tx) == IF NoEffect([kind |-> "action"], tx) THEN l ELSE Posted(l, tx)

(* The lots the conversion takes from the parent and gives to the target.  *)
ConvertedLots(l, a, at) ==
  LET i    == a.instrument
      kept == IF Removed(l, a) = 0 THEN l.lots
              ELSE Put(l.lots, i, Without(Lots(l, i), Taken(Lots(l, i), Removed(l, a))))
  IN  Put(kept, a.target, Lookup(kept, a.target, <<>>) \o NewLots(l, a, at))

ConvertedMarks(l, a) ==
  LET i   == a.instrument
      new == Put(l.marks, a.target, a.targetMark)
  IN  IF Distribution(a) THEN Put(new, i, a.parentMark)
      ELSE IF Held(l, i) = Removed(l, a) THEN Drop(new, i) ELSE new

Converted(l, a, at) ==
  [PostedIfAny(l, Conversion(l, a, at)) EXCEPT
     !.lots = ConvertedLots(l, a, at), !.marks = ConvertedMarks(l, a), !.time = at]

-----------------------------------------------------------------------------
(* apply_action                                                            *)

Simple(a) == a.kind \in {"split", "dividend_entitlement", "dividend_payment", "terminal_cash"}

TermsAccepted(l, a, at) ==
  /\ at >= a.effective /\ at >= l.time
  /\ Kind[a.instrument] # "derivative" /\ Currency[a.instrument] = a.currency
  /\ IF Simple(a) THEN Accepted(l, AsEvent(a, at))
     ELSE IF a.kind = "cash_in_lieu" THEN LieuAccepted(l, a) ELSE ConvertAccepted(l, a)

(* The books with the action booked, and remembered by its own terms. *)
ActionBooked(l, a, at) ==
  LET done == IF Simple(a) THEN Booked(l, AsEvent(a, at), at)
              ELSE IF a.kind = "cash_in_lieu" THEN CashInLieu(l, a, at) ELSE Converted(l, a, at)
  IN  [done EXCEPT !.seen = Put(@, a.id, a)]

(* Everything is restored when the last snapshot raises. *)
Commit(done, at) ==
  IF SnapshotRaises(done, at) THEN Refuse ELSE ledger' = done /\ outcome' = "applied"

ApplyAction(a, at) ==
  /\ ~Replaying
  /\ IF ledger.closed \/ at < a.effective THEN Refuse
     ELSE IF a.id \in DOMAIN ledger.seen
     THEN IF ledger.seen[a.id] = a /\ ~SnapshotRaises(ledger, ledger.time)
          THEN outcome' = "repeated" /\ UNCHANGED ledger ELSE Refuse
     ELSE IF SnapshotRaises(ledger, ledger.time) \/ ~TermsAccepted(ledger, a, at) THEN Refuse
     ELSE Commit(ActionBooked(ledger, a, at), at)
  /\ UNCHANGED <<mode, fx, sunk, checkpoint>>

=============================================================================
