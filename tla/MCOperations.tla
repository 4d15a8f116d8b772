---------------------------- MODULE MCOperations ----------------------------
(* Small instances of Operations for TLC.                                  *)
EXTENDS Operations

CONSTANTS o1, o2, c1, c2

MCOps == {o1, o2}
MCBootstraps == {o2}
OneOp == {o1}
OneCanceller == {c1}
TwoCancellers == {c1, c2}
=============================================================================
