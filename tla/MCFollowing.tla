----------------------------- MODULE MCFollowing -----------------------------
(* What is waited for: the web client waits at the daemon for the end of   *)
(* an operation and for a shell, the daemon for the probes of a scan.  The *)
(* three meet in nothing, and each is explored alone.                      *)
(* One press of a button may start two operations, the dialog is opened    *)
(* twice; three polls stand for the sixty of a minute.  Addresses have two *)
(* bytes of two bits, a subnet ends in the middle of the second byte and   *)
(* one spans several values of the first.                                  *)
EXTENDS OperationFollow, Terminal, Discovery

CONSTANTS s1, s2, c1

MCStarters == {s1, s2}
MCCancellers == {c1}
MCSubnets == {[ip |-> <<1, 2>>, ones |-> 1], [ip |-> <<3, 3>>, ones |-> 3],
              [ip |-> <<0, 1>>, ones |-> 4]}
MCPresent == {<<0, 1>>, <<1, 1>>}

VARIABLE waitsFor   \* "operation", "shell" or "scan"

followVars == <<waitsFor, vars, termVars, scanVars>>

FollowInit ==
    /\ waitsFor \in {"operation", "shell", "scan"}
    /\ Init /\ (waitsFor # "operation" => surface = "apps")
    /\ TermInit
    /\ ScanInit

FollowNext ==
    /\ UNCHANGED waitsFor
    /\ \/ waitsFor = "operation" /\ Next /\ UNCHANGED <<termVars, scanVars>>
       \/ waitsFor = "shell" /\ TermNext /\ UNCHANGED <<vars, scanVars>>
       \/ waitsFor = "scan" /\ ScanNext /\ UNCHANGED <<vars, termVars>>

(* Where a part is not explored nothing of it is ever enabled.             *)
FollowSpec == FollowInit /\ [][FollowNext]_followVars /\ Fairness /\ TermFairness /\ ScanFairness
=============================================================================
