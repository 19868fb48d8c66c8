------------------------------ MODULE MCBroker ------------------------------
(* Broker on a small instance: two orders chosen among a DAY order of two  *)
(* units, a GTC and an IOC order, so that partial fills, both special      *)
(* indexes and the session boundary between two days all occur.            *)
EXTENDS Broker

MCIntents == {[tif |-> "DAY", quantity |-> 2, created |-> 0],
              [tif |-> "GTC", quantity |-> 2, created |-> 0],
              [tif |-> "IOC", quantity |-> 1, created |-> 1]}
=============================================================================
