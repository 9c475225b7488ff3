----------------------------- MODULE MCOutgoing -----------------------------
(* Instances of Outgoing for TLC: peers of which the last one is of a less   *)
(* useful device class.                                                      *)
EXTENDS Outgoing

TwoClasses == [n \in Peers |-> n - 1]
ThreePeers == [n \in Peers |-> IF n = 3 THEN 1 ELSE 0]
=============================================================================
