---------------------------- MODULE ServicePages ----------------------------
(***************************************************************************)
(* The services page of the web client (ClusterServicesComponent.tsx with  *)
(* the dialog of ServiceDetailDialog.tsx): which lifecycle buttons a       *)
(* service offers, the requests they make and the set of services the page *)
(* takes to be busy.                                                       *)
(*                                                                         *)
(* Each kind of request is one hook of the page, which tracks the last     *)
(* request only: the callbacks given with an earlier one, or by a page     *)
(* that is gone, never run.  A failed request is made once more.  The page *)
(* goes by the names of services, whichever instance is on screen.         *)
(***************************************************************************)
EXTENDS Naturals, FiniteSets

CONSTANTS
    Services,
    MaxCalls   \* bound: requests on their way

ASSUME CallsAssumption == MaxCalls \in Nat

NoService == "none"
Lifecycle == [templates : {"not_fetched", "update_available", "up_to_date"},
              configuration : {"not_configured", "needs_recompile", "compiled"},
              deployment : {"not_deployed", "out_of_sync", "deployed", "degraded"}]

Unknown == [templates |-> "not_fetched", configuration |-> "not_configured", deployment |-> "not_deployed"]

VARIABLES
    onPage,     \* the page is mounted
    opened,     \* the service whose dialog is open
    lifecycle,  \* of that service, as last read
    operating,  \* services the page takes to be busy
    calls,      \* requests on their way
    cleaned     \* auxiliary: services that were cleaned under another request

svcVars == <<onPage, opened, lifecycle, operating, calls, cleaned>>

Lifecycles == {"fetch", "compile", "deploy"}
Noting == Lifecycles \cup {"clean"}   \* the page notes these services as busy

IsPending(kind) == \E c \in calls : c.kind = kind /\ c.tracked

FetchOffered == lifecycle.templates # "up_to_date"
CompileOffered == lifecycle.templates = "up_to_date" /\ lifecycle.configuration # "compiled"
DeployOffered == lifecycle.configuration = "compiled" /\ lifecycle.deployment \in {"not_deployed", "out_of_sync"}
DeleteOffered == lifecycle.templates # "not_fetched" /\ lifecycle.deployment = "deployed"
CleanOffered == lifecycle.templates = "up_to_date"

BlockedByHook(kind) == IsPending(kind)   \* mutant
Blocked(kind) == IsPending(kind) \/ (kind \in Lifecycles /\ opened \in operating)

SvcInit ==
    /\ onPage = FALSE /\ opened = NoService /\ lifecycle = Unknown
    /\ operating = {} /\ calls = {} /\ cleaned = {}

EnterPage ==
    /\ ~onPage /\ onPage' = TRUE
    /\ UNCHANGED <<opened, lifecycle, operating, calls, cleaned>>

LeavePage ==
    /\ onPage /\ onPage' = FALSE
    /\ opened' = NoService /\ operating' = {} /\ cleaned' = {}
    /\ calls' = {[c EXCEPT !.tracked = FALSE, !.mounted = FALSE] : c \in calls}
    /\ lifecycle' = Unknown

OpenService(s) ==
    /\ onPage /\ opened = NoService
    /\ opened' = s /\ lifecycle' \in Lifecycle
    /\ UNCHANGED <<onPage, operating, calls, cleaned>>

CloseService ==
    /\ opened # NoService /\ opened' = NoService /\ lifecycle' = Unknown
    /\ UNCHANGED <<onPage, operating, calls, cleaned>>

(* Pods change, requests end: when it is read again is WebCache's concern. *)
LifecycleRead ==
    /\ opened # NoService /\ lifecycle' \in Lifecycle
    /\ UNCHANGED <<onPage, opened, operating, calls, cleaned>>

Untracked(kind) == {[c EXCEPT !.tracked = c.tracked /\ c.kind # kind] : c \in calls}

Call(kind, s) ==
    /\ Cardinality(calls) < MaxCalls
    /\ LET id == CHOOSE i \in 1..MaxCalls : i \notin {c.id : c \in calls} IN
          calls' = Untracked(kind) \cup {[id |-> id, kind |-> kind, service |-> s, tries |-> 0,
                                          tracked |-> TRUE, mounted |-> TRUE]}
    /\ operating' = IF kind \in Noting THEN operating \cup {s} ELSE operating
    /\ UNCHANGED <<onPage, opened, lifecycle, cleaned>>

HandleFetch == FetchOffered /\ ~Blocked("fetch") /\ Call("fetch", opened)
HandleCompile == CompileOffered /\ ~Blocked("compile") /\ Call("compile", opened)
HandleDeploy == DeployOffered /\ ~Blocked("deploy") /\ Call("deploy", opened)
HandleDelete == DeleteOffered /\ ~Blocked("delete") /\ Call("delete", opened)
HandleCleanFiles == CleanOffered /\ ~Blocked("clean") /\ Call("clean", opened)
HandleInstallAll == onPage /\ opened = NoService /\ ~Blocked("installAll") /\ Call("installAll", NoService)

Settled(c) ==
    LET called == c.tracked /\ c.kind \in Noting IN
        /\ calls' = calls \ {c}
        /\ operating' = IF called THEN operating \ {c.service} ELSE operating
        /\ cleaned' = IF called /\ \E x \in calls' : x.mounted /\ x.service = c.service
                      THEN cleaned \cup {c.service} ELSE cleaned
        /\ UNCHANGED <<onPage, opened, lifecycle>>

CallSucceeds(c) == Settled(c)

CallFails(c) ==
    IF c.tries = 0
    THEN /\ calls' = (calls \ {c}) \cup {[c EXCEPT !.tries = 1]}
         /\ UNCHANGED <<onPage, opened, lifecycle, operating, cleaned>>
    ELSE Settled(c)

SvcNext ==
    \/ EnterPage \/ LeavePage \/ CloseService \/ LifecycleRead \/ HandleInstallAll
    \/ \E s \in Services : OpenService(s)
    \/ opened # NoService /\ (HandleFetch \/ HandleCompile \/ HandleDeploy \/ HandleDelete \/ HandleCleanFiles)
    \/ \E c \in calls : CallSucceeds(c) \/ CallFails(c)

SvcSpec == SvcInit /\ [][SvcNext]_svcVars

---------------------------------------------------------------------------
(* Fetching, compiling and deploying one service never overlap as long as  *)
(* the page stays: not even when the buttons of several services are       *)
(* pressed in turn.  Only cleaning its files meanwhile, which no request   *)
(* blocks, makes a service look idle too early.                            *)
OneLifecycleRequest ==
    \A c, d \in calls :
        c.mounted /\ d.mounted /\ {c.kind, d.kind} \subseteq Lifecycles /\ c.service = d.service /\ c # d
            => c.service \in cleaned

(* A busy service has a request on its way: the callbacks of an earlier    *)
(* request, which would free it, are never passed over.                    *)
BusyHasRequest == \A s \in operating : \E c \in calls : c.mounted /\ c.service = s

(* That a service is shown busy is true enough to keep requests apart. *)
BusyIsTrue == OneLifecycleRequest /\ BusyHasRequest
=============================================================================
