------------------------------ MODULE MCCluster ------------------------------
(* A small instance of Cluster for TLC: any three requests of which two at *)
(* most bootstrap and one fetches the kubeconfig, whichever comes first;   *)
(* two probes of the first wait and one of the others.                     *)
EXTENDS Cluster

CONSTANTS r1, r2, r3

MCRequests == {r1, r2, r3}
Ordered == <<"generate", "bootstrap", "reset", "configure", "regenerate">>
MCMixes ==
    {[r \in MCRequests |-> Ordered[IF r = r1 THEN i[1] ELSE IF r = r2 THEN i[2] ELSE i[3]]] :
        i \in {t \in (1..5) \X (1..5) \X (1..5) : t[1] <= t[2] /\ t[2] <= t[3] /\ t[2] <= 3
                                         /\ t # <<2, 2, 2>>}}
MCAttempts == [s \in Waits |-> IF s = 1 THEN 2 ELSE 1]
=============================================================================
