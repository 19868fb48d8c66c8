----------------------------- MODULE MCAccount -----------------------------
(* The account with a catalogue in which every kind of event, action,      *)
(* dividend phase and order occurs, some of them twice with other content. *)
EXTENDS Account

MCKind     == [STK |-> "cash", TGT |-> "cash", FUT |-> "derivative", OPT |-> "premium"]
MCCurrency == [STK |-> "B", TGT |-> "B", FUT |-> "F", OPT |-> "B"]
MCCash     == << [currency |-> "B", amount |-> 20] >>

Fill(id, i, side, q, price, at) ==
  [id |-> id, kind |-> "fill", instrument |-> i, side |-> side, quantity |-> q, price |-> price,
   time |-> at, on |-> {at}]
Action(id, type, at, cash, ratio, shares) ==
  [id |-> id, kind |-> "action", type |-> type, instrument |-> "STK", time |-> at, effective |-> 2,
   currency |-> IF type = "terminal_cash" THEN "B" ELSE "F", cash |-> cash, ratio |-> ratio,
   shares |-> shares, eligible |-> 2, sellable |-> 3, reference |-> shares, on |-> {at}]

MCEvents ==
  { [Fill("b1", "STK", "BUY", 4, 3, 1) EXCEPT !.on = {1, 2}], Fill("b1", "STK", "BUY", 4, 2, 1),
    Fill("b2", "STK", "BUY", 2, 4, 2), Fill("s1", "STK", "SELL", 4, 2, 2),
    Fill("s2", "STK", "SELL", 2, 5, 1),
    [id |-> "fee2", kind |-> "fee", fill |-> "f1", amount |-> 1, currency |-> "F", time |-> 1,
     on |-> {1}],
    [id |-> "fee", kind |-> "fee", fill |-> "b1", amount |-> 5, currency |-> "B", time |-> 1,
     on |-> {1}],
    Fill("f1", "FUT", "BUY", 4, 2, 1), Fill("f2", "FUT", "SELL", 6, 3, 2),
    Fill("f3", "FUT", "BUY", 2, 5, 2),
    Fill("o1", "OPT", "SELL", 2, 1, 1), Fill("o2", "OPT", "BUY", 4, 2, 2),
    Action("ent", "cash_dividend_entitlement", 2, 1, <<>>, 0),
    Action("pay", "cash_dividend_payment", 2, 1, <<>>, 0),
    Action("split", "split", 2, -1, <<2, 1>>, 0), Action("join", "split", 2, -1, <<1, 2>>, 0),
    Action("bonus", "split", 2, 1, <<>>, 2), Action("end", "terminal_cash", 2, 1, <<>>, 0) }

MCMarketFacts == { [id |-> "settle", kind |-> "daily_settlement", instrument |-> "FUT", time |-> 2],
                   [id |-> "rate", kind |-> "funding_rate", instrument |-> "FUT", rate |-> 1,
                    time |-> 2] }
MCMarkEvents  == { [id |-> "m1", instrument |-> "FUT", price |-> 4, time |-> 1],
                   [id |-> "m2", instrument |-> "STK", price |-> 4, time |-> 1] }
MCRates       == { [currency |-> "F", at |-> 2] }
MCTransfers   == { [id |-> "t1", amount |-> -15, time |-> 1], [id |-> "t1", amount |-> 3, time |-> 1] }
MCOpenings    == { [id |-> "open", instrument |-> "STK", quantity |-> 2, price |-> 3, day |-> 0] }

Terms(id, kind, cash, ratio) ==
  [id |-> id, kind |-> kind, instrument |-> "STK", target |-> "TGT", currency |-> "B", cash |-> cash,
   ratio |-> ratio, retired |-> 2, fraction |-> <<1, 2>>, election |-> 2, parentMark |-> 2,
   targetMark |-> 3, effective |-> 2]
MCActions == { Terms("lieu", "cash_in_lieu", 2, <<>>), Terms("merge", "merger", 1, <<1, 1>>),
               Terms("spin", "spin_off", 0, <<1, 1>>), Terms("use", "rights_exercise", 2, <<2, 1>>),
               Terms("halve", "split", 0, <<1, 2>>) }

Lifecycle(elect, published, gross) ==
  [id |-> "D", instrument |-> "STK", quantity |-> 4, exAt |-> 2, declared |-> "F", amount |-> 1,
   policy |-> "certified", elect |-> elect, published |-> published, gross |-> gross,
   withheld |-> 1, payIn |-> "B",
   effective |-> [ENTITLEMENT |-> 1, ISSUER_CONVERSION |-> 2, PAYMENT |-> 3],
   available |-> [ENTITLEMENT |-> 1, ISSUER_CONVERSION |-> 2, PAYMENT |-> 2]]
MCLifecycles == { Lifecycle("B", 2, 8), Lifecycle("B", 3, 12), Lifecycle("none", -1, -1) }

Order(id, side, q, price, at) ==
  [id |-> id, instrument |-> "STK", side |-> side, quantity |-> q, price |-> price, at |-> at]
MCOrders == { Order("h1", "BUY", 4, 3, 1), Order("h2", "SELL", 2, 6, 1), Order("h3", "SELL", 2, 6, 2),
              Order("h4", "BUY", 2, 6, 2), Order("h5", "BUY", 2, 4, 3), Order("h6", "BUY", 4, 3, 2),
              Order("h6", "BUY", 4, 4, 3), Order("h7", "SELL", 2, 1, 3) }

(* Each life has a few of the ids; the ids of a life may come in any order *)
(* and any number of times.                                                *)
MCAgendas ==
  { {"b1", "b2", "s1", "s2", "split", "join", "bonus"},         \* lots and splits
    {"b1", "b2", "s1", "fee", "ent", "pay", "bonus", "split"},  \* entitlements
    {"b1", "s1", "fee", "t1", "m2", "end", "ent", "pay"},       \* cash, terminal cash
    {"f1", "f2", "f3", "fee2", "m1", "settle", "rate"},         \* a derivative
    {"o1", "o2", "b1", "fee", "t1", "s2", "m1"},                \* an option
    {"open", "b2", "s1", "merge", "spin", "lieu", "m2"},        \* conversions
    {"open", "b2", "use", "halve", "ent", "merge", "split"},
    {"b1", "s1", "D", "split", "t1", "ent"},                    \* a lifecycle
    {"b1", "b2", "D", "ent", "pay", "lieu", "spin"},
    {"b1", "s1", "fee", "split"}, {"b1", "ent", "pay", "end"},  \* short ones, to replay
    {"f1", "f2", "m1", "settle"}, {"o1", "o2", "m1", "fee"} }

(* Whether the last call returned does not matter to the next. *)
View == <<mode, ledger, fx, sunk, checkpoint, deskVars, agenda>>
=============================================================================
