---------------------------- MODULE MCRendezvous ----------------------------
(* Two hosts, with distinct or equal addresses. *)
EXTENDS Rendezvous

CONSTANTS A, B

Distinct == [h \in Hosts |-> IF h = A THEN 1 ELSE 2]
Equal == [h \in Hosts |-> 1]

Once == [h \in Hosts |-> 1]
Twice == [h \in Hosts |-> 2]
Thrice == [h \in Hosts |-> 3]
=============================================================================
