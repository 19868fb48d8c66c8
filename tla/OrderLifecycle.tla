--------------------------- MODULE OrderLifecycle ---------------------------
(***************************************************************************)
(* What the broker promises about orders, without its indexes, idempotency *)
(* tables, event log or artifact stream: an order key is used once, an     *)
(* order works until it is completed or closed, executions only add up to  *)
(* the ordered quantity, and a finished order never changes again.         *)
(* Broker.tla implements this module (Broker!Lifecycle).                   *)
(***************************************************************************)
EXTENDS Integers

CONSTANTS Keys,         \* idempotency keys: at most one order each
          MaxQuantity   \* the largest quantity an intent may ask for, in Nat \ {0}

VARIABLE book           \* book[k]: the order submitted under key k

Quantities == 1..MaxQuantity

Phases == {"unused", "working", "finished"}

Unused == [phase |-> "unused", quantity |-> 0, executed |-> 0]

Entries == [phase : Phases, quantity : 0..MaxQuantity, executed : 0..MaxQuantity]

Init == book = [k \in Keys |-> Unused]

(* A key is bound to an order: the order works, or was refused outright. *)
Open(k, quantity, phase) ==
  /\ book[k].phase = "unused"
  /\ book' = [book EXCEPT ![k] =
                [phase |-> phase, quantity |-> quantity, executed |-> 0]]

(* A working order executes; it finishes exactly when nothing remains. *)
Execute(k, quantity) ==
  /\ book[k].phase = "working"
  /\ book[k].executed + quantity <= book[k].quantity
  /\ book' = [book EXCEPT ![k] =
                [phase    |-> IF book[k].executed + quantity = book[k].quantity
                                THEN "finished" ELSE "working",
                 quantity |-> book[k].quantity,
                 executed |-> book[k].executed + quantity]]

(* Working orders are cancelled or expire, keeping what they executed. *)
Close(closing) ==
  /\ \A k \in closing : book[k].phase = "working"
  /\ book' = [k \in Keys |->
                IF k \in closing THEN [book[k] EXCEPT !.phase = "finished"] ELSE book[k]]

(* The whole book is forgotten before a new run. *)
Clear == book' = [k \in Keys |-> Unused]

Next ==
  \/ \E k \in Keys, q \in Quantities, p \in {"working", "finished"} : Open(k, q, p)
  \/ \E k \in Keys, q \in Quantities : Execute(k, q)
  \/ \E closing \in SUBSET Keys : Close(closing)
  \/ Clear

Spec == Init /\ [][Next]_book
=============================================================================
