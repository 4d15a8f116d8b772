---------------------------- MODULE MCSSEManager ----------------------------
(* Small instances of SSEManager for TLC: one connection to the stream of  *)
(* an instance, one to the stream of all instances.                        *)
EXTENDS SSEManager

CONSTANTS c1, c2, home, office

MCClients == {c1, c2}
MCInstances == {home, office}
MCInstanceOf == [c \in MCClients |-> IF c = c1 THEN home ELSE Everything]
=============================================================================
