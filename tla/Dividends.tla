----------------------------- MODULE Dividends -----------------------------
(***************************************************************************)
(* The evidenced dividend lifecycle (dividends.py), for a ledger in mode   *)
(* "pit": the entitlement on the ex-date, the conversion to the currency   *)
(* the holder elected, the payment.  Each phase is applied once; the same  *)
(* facts again return the first record.  The ledger is captured before and *)
(* restored when anything raises.                                          *)
(*                                                                         *)
(* A lifecycle is a record of the facts known when it is sent: an election *)
(* that is not known is "none", an amount that is not known -1.  effective *)
(* and available give, by phase, the latest of its facts' times.  Issuer   *)
(* and published amounts divide without rest, so that no policy must round *)
(* them; the verifier of PRODUCTION_CERTIFIED (external) says yes.         *)
(***************************************************************************)
EXTENDS Ledger

Phases == {"ENTITLEMENT", "ISSUER_CONVERSION", "PAYMENT"}

(* DividendLifecycleState.phases before each phase. *)
Before(phase) ==
  CASE phase = "ENTITLEMENT"       -> <<>>
    [] phase = "ISSUER_CONVERSION" -> <<"ENTITLEMENT">>
    [] phase = "PAYMENT"           -> <<"ENTITLEMENT", "ISSUER_CONVERSION">>

Known(d, phase) ==
  /\ phase # "ENTITLEMENT" => d.elect # "none"
  /\ phase = "PAYMENT" => d.gross >= 0

(* The phases whose facts a lifecycle has; _validate_cutoff_snapshot.      *)
Present(d)           == {p \in Phases : Known(d, p)}
NoFuture(d, cutoff)  == \A p \in Present(d) : d.available[p] <= cutoff

(* _lifecycle_prefix: the facts up to a phase. *)
Facts(d)    == <<d.instrument, d.declared, d.amount, d.effective["ENTITLEMENT"],
                 d.available["ENTITLEMENT"]>>
Election(d) == <<d.elect, d.published, d.effective["ISSUER_CONVERSION"],
                 d.available["ISSUER_CONVERSION"]>>
Paid(d)     == <<d.gross, d.withheld, d.payIn, d.effective["PAYMENT"], d.available["PAYMENT"]>>

Prefix(d, phase) ==
  <<Facts(d), d.policy>>
  \o (IF phase = "ENTITLEMENT" THEN <<>> ELSE <<Election(d)>>)
  \o (IF phase = "PAYMENT" THEN <<Paid(d)>> ELSE <<>>)

Basis(d) == <<d.quantity, d.exAt>>

AppliedAt(d, phase) ==
  IF phase = "ENTITLEMENT" THEN d.exAt ELSE Max({d.effective[phase], d.available[phase]})

OwedAccount(d, c) == <<"assets:dividend_receivable", c, <<"dividend", d.id>>>>
Clearing(d, c)    == <<"clearing:dividend_issuer_fx", c, <<"dividend", d.id>>>>

-----------------------------------------------------------------------------
(* What each phase demands, beyond the order of the phases.                *)

EntitlementAccepted(l, d, cutoff) ==
  /\ d.available["ENTITLEMENT"] <= d.exAt /\ d.effective["ENTITLEMENT"] <= d.exAt
  /\ cutoff >= d.exAt /\ l.time <= d.exAt
  /\ Kind[d.instrument] # "derivative"
  /\ Held(l, d.instrument) >= 0 /\ Held(l, d.instrument) = d.quantity

(* What a later phase may not have changed. *)
Continues(state, d) ==
  /\ state.facts = Facts(d)
  /\ state.policy # "none" => d.policy = state.policy

ConversionAccepted(state, d) ==
  IF d.elect = state.declared THEN d.published < 0 ELSE d.published >= 0

PaymentTermsAccepted(state, d) ==
  /\ d.policy = "certified"
  /\ state.election = Election(d)
  /\ d.payIn = state.currency /\ d.gross = state.receivable

PhaseAccepted(l, d, phase, cutoff) ==
  /\ d.effective[phase] <= cutoff
  /\ IF phase = "ENTITLEMENT"
     THEN d.id \notin DOMAIN l.dividends /\ EntitlementAccepted(l, d, cutoff)
     ELSE /\ d.id \in DOMAIN l.dividends
          /\ LET state == l.dividends[d.id]
             IN  /\ state.phases = Before(phase) /\ Continues(state, d)
                 /\ AppliedAt(d, phase) >= l.time
                 /\ phase = "ISSUER_CONVERSION" => ConversionAccepted(state, d)
                 /\ phase = "PAYMENT" => PaymentTermsAccepted(state, d)

-----------------------------------------------------------------------------
(* What each phase posts, and the state of the dividend after it.          *)

ConvertedGross(state, d) ==
  IF d.elect = state.declared THEN state.gross ELSE d.published * d.quantity

EntitlementPostings(d) ==
  LET gross == d.quantity * d.amount
  IN  IF gross = 0 THEN <<>>
      ELSE Together(<<Amount(OwedAccount(d, d.declared), gross),
                      Amount(<<"income:dividend", d.declared, <<"dividend", d.id>>>>, -gross)>>)

ConversionPostings(state, d) ==
  LET new == ConvertedGross(state, d)
  IN  IF d.elect = state.declared \/ (state.gross = 0 /\ new = 0) THEN <<>>
      ELSE Together(<<Amount(OwedAccount(d, state.declared), -state.gross),
                      Amount(Clearing(d, state.declared), state.gross),
                      Amount(OwedAccount(d, d.elect), new), Amount(Clearing(d, d.elect), -new)>>)

(* Deductions and the rounding adjustment are part of what is withheld.    *)
PaymentPostings(d) ==
  IF d.gross = 0 THEN <<>>
  ELSE Together(<<Amount(Cash(d.payIn), d.gross - d.withheld),
                  Amount(<<"expenses:dividend_withholding", d.payIn, <<"dividend", d.id>>>>, d.withheld),
                  Amount(OwedAccount(d, d.payIn), -d.gross)>>)

PhasePostings(l, d, phase) ==
  CASE phase = "ENTITLEMENT"       -> EntitlementPostings(d)
    [] phase = "ISSUER_CONVERSION" -> ConversionPostings(l.dividends[d.id], d)
    [] phase = "PAYMENT"           -> PaymentPostings(d)

Entitled(d) ==
  [facts |-> Facts(d), policy |-> d.policy, election |-> <<>>, basis |-> Basis(d),
   declared |-> d.declared, gross |-> d.quantity * d.amount, currency |-> d.declared,
   receivable |-> d.quantity * d.amount, phases |-> <<"ENTITLEMENT">>, paid |-> FALSE]

Elected(state, d) ==
  [state EXCEPT !.election = Election(d), !.policy = d.policy, !.currency = d.elect,
                !.receivable = ConvertedGross(state, d),
                !.phases = Append(@, "ISSUER_CONVERSION")]

Settled(state) == [state EXCEPT !.receivable = 0, !.phases = Append(@, "PAYMENT"), !.paid = TRUE]

NextState(l, d, phase) ==
  CASE phase = "ENTITLEMENT"       -> Entitled(d)
    [] phase = "ISSUER_CONVERSION" -> Elected(l.dividends[d.id], d)
    [] phase = "PAYMENT"           -> Settled(l.dividends[d.id])

PhaseBooked(l, d, phase) ==
  LET postings == PhasePostings(l, d, phase)
      posted == IF postings = <<>> THEN l
                ELSE Posted(l, [key |-> <<"dividend", d.id, phase>>, time |-> AppliedAt(d, phase),
                                postings |-> postings])
  IN  [posted EXCEPT
         !.dividends = Put(@, d.id, NextState(l, d, phase)),
         !.records = Put(@, <<d.id, phase>>,
                         [prefix |-> Prefix(d, phase), basis |-> Basis(d),
                          applied |-> AppliedAt(d, phase)]),
         !.time = AppliedAt(d, phase)]

(* apply_dividend_lifecycle *)
ApplyDividend(d, phase, cutoff) ==
  LET key == <<d.id, phase>>
  IN  /\ ~Replaying
      /\ IF \/ ledger.closed \/ mode # "pit" \/ ~NoFuture(d, cutoff) \/ ~Known(d, phase)
            \/ d.effective[phase] > cutoff
         THEN Refuse
         ELSE IF key \in DOMAIN ledger.records
         THEN IF /\ ledger.records[key].prefix = Prefix(d, phase)
                 /\ phase = "ENTITLEMENT" => ledger.records[key].basis = Basis(d)
                 /\ ledger.records[key].applied <= cutoff
              THEN outcome' = "repeated" /\ UNCHANGED ledger ELSE Refuse
         ELSE IF PhaseAccepted(ledger, d, phase, cutoff)
         THEN ledger' = PhaseBooked(ledger, d, phase) /\ outcome' = "applied"
         ELSE Refuse
      /\ UNCHANGED <<mode, fx, sunk, checkpoint>>

=============================================================================
