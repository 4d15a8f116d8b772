------------------------- MODULE OperationLifecycle -------------------------
(***************************************************************************)
(* What the operations package promises to a client that polls an          *)
(* operation: the "status" field of its record and how far its worker is,  *)
(* without files, partial writes or events.  An operation nobody cancels   *)
(* is pending, running (a bootstrap never is), and settles once; once a    *)
(* cancel request has named it, its record may say cancelled at any time,  *)
(* and the worker may overwrite that until it has settled.                 *)
(***************************************************************************)
EXTENDS Naturals

CONSTANTS
    Ops,        \* the operations of one instance
    Bootstraps  \* those started by cluster.Bootstrap

VARIABLES
    status,  \* what the record of each operation says
    phase,   \* its worker: new, at work, settled, or lost in a crash
    named    \* operations a cancel request has named

vars == <<status, phase, named>>

Open == {"pending", "running"}
Outcomes == {"completed", "failed"}

Init ==
    /\ status = [o \in Ops |-> "none"]
    /\ phase = [o \in Ops |-> "new"]
    /\ named = {}

Submit(o) ==
    /\ phase[o] = "new"
    /\ phase' = [phase EXCEPT ![o] = "at work"]
    /\ UNCHANGED <<status, named>>

Say(o, s) ==
    /\ phase[o] = "at work"
    /\ \/ status[o] = "none" /\ s = "pending"
       \/ status[o] = "pending" /\ s = "running" /\ o \notin Bootstraps
       \/ status[o] = "cancelled" /\ s = IF o \in Bootstraps THEN "pending" ELSE "running"
    /\ status' = [status EXCEPT ![o] = s]
    /\ UNCHANGED <<phase, named>>

(* Only for an operation that was named may the worker's verdict get lost. *)
Settle(o) ==
    /\ phase[o] = "at work"
    /\ phase' = [phase EXCEPT ![o] = "settled"]
    /\ \/ /\ \/ status[o] = IF o \in Bootstraps THEN "pending" ELSE "running"
             \/ o \in named
          /\ \E s \in Outcomes : status' = [status EXCEPT ![o] = s]
       \/ o \in named /\ UNCHANGED status
    /\ UNCHANGED named

Name(o) ==
    /\ phase[o] # "new"
    /\ named' = named \cup {o}
    /\ UNCHANGED <<status, phase>>

Cancel(o) ==
    /\ o \in named
    /\ status[o] # "none"
    /\ status' = [status EXCEPT ![o] = "cancelled"]
    /\ UNCHANGED <<phase, named>>

(* The daemon dies: nobody will settle what was being worked on.           *)
Crash ==
    /\ phase' = [o \in Ops |-> IF phase[o] = "at work" THEN "lost" ELSE phase[o]]
    /\ UNCHANGED <<status, named>>

Work(o) == (\E s \in Open : Say(o, s)) \/ Settle(o)

Next ==
    \/ \E o \in Ops : Submit(o) \/ Work(o) \/ Name(o) \/ Cancel(o)
    \/ Crash

Spec == Init /\ [][Next]_vars

(* Every operation that was submitted settles, unless the daemon dies.     *)
FairSpec == Spec /\ \A o \in Ops : WF_vars(Work(o))
=============================================================================
