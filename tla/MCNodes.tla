------------------------------- MODULE MCNodes -------------------------------
(* A small instance of Nodes for TLC: any two requests, two addresses.     *)
EXTENDS Nodes

CONSTANTS r1, r2, ip1, ip2

MCRequests == {r1, r2}
MCIPs == {ip1, ip2}
=============================================================================
