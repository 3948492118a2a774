---------------------------- MODULE MCWriteGateway ----------------------------
(* Instances of WriteGateway for TLC: writes of one execution under one
   key. *)
EXTENDS WriteGateway, TLC

CONSTANTS q1, q2, q3, k1, e1

SameKey   == [q \in Requests |-> k1]
OneExec   == [q \in Requests |-> e1]
==============================================================================
