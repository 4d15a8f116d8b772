------------------------------ MODULE AppPages ------------------------------
(***************************************************************************)
(* The page of apps of the web client (AppsComponent.tsx, AppDetailPanel,  *)
(* AppConfigDialog): the config that is read before the dialog opens, the  *)
(* buttons of an app's panel and the requests that follow, while the user  *)
(* leaves the page, comes back or goes to another instance.                *)
(*                                                                         *)
(* The requests of useDeployedApps carry a key with their instance: they   *)
(* survive the page, are seen by the next one and are made again as they   *)
(* were.  Which apps an instance has is WebCache's concern, and free here. *)
(***************************************************************************)
EXTENDS Naturals, FiniteSets

CONSTANTS
    Apps,
    Homes,       \* instances
    MaxRequests, \* bound: requests of the client on their way
    MaxReads     \* bound: readings of a config on their way

ASSUME RequestsAssumption == {MaxRequests, MaxReads} \subseteq Nat

NoApp == "none"
Buttons == {"deploy", "update", "restart", "delete"}
Closed == [app |-> NoApp]
Statuses == {"added", "deployed", "troubled"}   \* running is as deployed

(* Where a config was read: at <<instance, app>>, or it is the default one *)
(* of the app, or the instance on screen has changed since it was asked.   *)
Defaults == <<"defaults">>
Elsewhere == <<"elsewhere">>

VARIABLES
    onApps,   \* the page is mounted
    home,     \* the instance on screen
    detail,   \* the app whose panel is open
    status,   \* of that app, as last read
    reads,    \* readings of an app's config
    dialog,   \* the config dialog, if open: its app, and where its inputs come from
    requests  \* from = where what they carry was read; tracked = it is the last one of the page's hook

appVars == <<onApps, home, detail, status, reads, dialog, requests>>

Saving == \E r \in requests : r.kind \in {"add", "updateConfig"} /\ r.tracked

(* useMutationState: the requests of the key, whichever page made them.    *)
Pending(kind) == {r.app : r \in {x \in requests : x.kind = kind /\ x.home = home}}

AppsInit ==
    /\ onApps = FALSE /\ home \in Homes
    /\ detail = NoApp /\ status = "added" /\ reads = {} /\ dialog = Closed /\ requests = {}

VisitApps ==
    /\ ~onApps /\ onApps' = TRUE
    /\ UNCHANGED <<home, detail, status, reads, dialog, requests>>

LeaveApps ==
    /\ onApps /\ onApps' = FALSE
    /\ detail' = NoApp /\ status' = "added" /\ reads' = {} /\ dialog' = Closed
    /\ requests' = {[r EXCEPT !.tracked = FALSE] : r \in requests}
    /\ UNCHANGED home

(* The page stays, with its panel and its dialog; a hook whose key has     *)
(* changed lets its request go.                                            *)
SwitchHome(h) ==
    /\ h # home /\ home' = h
    /\ reads' = {[r EXCEPT !.from = Elsewhere] : r \in reads}
    /\ dialog' = IF dialog = Closed THEN Closed ELSE [dialog EXCEPT !.from = Elsewhere]
    /\ requests' = {[r EXCEPT !.tracked = FALSE] : r \in requests}
    /\ UNCHANGED <<onApps, detail, status>>

OpenDetail(a) ==
    /\ onApps /\ dialog = Closed /\ detail = NoApp
    /\ detail' = a /\ status' \in Statuses
    /\ UNCHANGED <<onApps, home, reads, dialog, requests>>

CloseDetail ==
    /\ detail # NoApp /\ dialog = Closed
    /\ detail' = NoApp /\ status' = "added"
    /\ UNCHANGED <<onApps, home, reads, dialog, requests>>

StatusRead ==
    /\ detail # NoApp /\ status' \in Statuses
    /\ UNCHANGED <<onApps, home, detail, reads, dialog, requests>>

(* An app yet to be added opens the dialog at once, any other is read.     *)
ConfigureNew(a) ==
    /\ onApps /\ dialog = Closed /\ detail = NoApp /\ a \notin Pending("add")
    /\ dialog' = [app |-> a, added |-> FALSE, from |-> Defaults]
    /\ UNCHANGED <<onApps, home, detail, status, reads, requests>>

Configure ==
    /\ detail # NoApp /\ dialog = Closed /\ status # "troubled"
    /\ Cardinality(reads) < MaxReads
    /\ reads' = reads \cup {[app |-> detail, from |-> <<home, detail>>]}
    /\ UNCHANGED <<onApps, home, detail, status, dialog, requests>>

(* The answer opens the dialog or replaces what is in it, whichever panel  *)
(* is open by then; a failed reading leaves the default config.            *)
ConfigReadForPanel(r, ok) ==   \* mutant
    /\ reads' = reads \ {r}
    /\ dialog' = [app |-> IF detail = NoApp THEN r.app ELSE detail, added |-> TRUE,
                  from |-> IF ok \/ r.from = Elsewhere THEN r.from ELSE Defaults]
    /\ UNCHANGED <<onApps, home, detail, status, requests>>
ConfigRead(r, ok) ==
    /\ reads' = reads \ {r}
    /\ dialog' = [app |-> r.app, added |-> TRUE, from |-> IF ok \/ r.from = Elsewhere THEN r.from ELSE Defaults]
    /\ UNCHANGED <<onApps, home, detail, status, requests>>

Request(kind, a, from) ==
    /\ Cardinality(requests) < MaxRequests
    /\ LET same == {r \in requests : r.kind = kind /\ r.app = a /\ r.home = home} IN
          requests' = {[r EXCEPT !.tracked = r.tracked /\ r.kind # kind] : r \in requests}
                      \cup {[kind |-> kind, app |-> a, home |-> home, nth |-> Cardinality(same), from |-> from,
                             tracked |-> TRUE]}

Press(kind) ==
    /\ detail # NoApp /\ dialog = Closed
    /\ kind = "deploy" => status # "troubled"
    /\ kind \in {"update", "restart"} => status = "deployed"
    /\ detail \notin Pending(kind)
    /\ Request(kind, detail, Defaults)
    /\ UNCHANGED <<onApps, home, detail, status, reads, dialog>>

(* A new app is given a name, which may be that of another.                *)
HandleConfigSave ==
    /\ dialog # Closed /\ ~Saving
    /\ IF dialog.added THEN Request("updateConfig", dialog.app, dialog.from)
       ELSE \E name \in Apps : Request("add", name, Defaults)
    /\ dialog' = Closed
    /\ UNCHANGED <<onApps, home, detail, status, reads>>

CancelConfig ==
    /\ dialog # Closed /\ dialog' = Closed
    /\ UNCHANGED <<onApps, home, detail, status, reads, requests>>

RequestEnds(r) ==
    /\ requests' = requests \ {r}
    /\ UNCHANGED <<onApps, home, detail, status, reads, dialog>>

AppsNext ==
    \/ VisitApps \/ LeaveApps \/ CloseDetail \/ StatusRead \/ Configure \/ HandleConfigSave \/ CancelConfig
    \/ \E h \in Homes : SwitchHome(h)
    \/ \E a \in Apps : OpenDetail(a) \/ ConfigureNew(a)
    \/ \E kind \in Buttons : Press(kind)
    \/ \E r \in reads : ConfigRead(r, TRUE) \/ ConfigRead(r, FALSE)
    \/ \E r \in requests : RequestEnds(r)

AppsSpec == AppsInit /\ [][AppsNext]_appVars

---------------------------------------------------------------------------
(* Deploy, update, restart and delete are each asked once at a time of an  *)
(* app, even when the page or the instance is left and found again         *)
(* meanwhile.                                                              *)
OneRequestOfAButton ==
    \A r, q \in requests :
        r.kind \in Buttons /\ r.kind = q.kind /\ r.app = q.app /\ r.home = q.home => r = q

(* A config is saved for the app and the instance it was read from, or is  *)
(* the default one, however the readings are crossed by clicks: unless the *)
(* instance on screen has changed since Configure was clicked.             *)
SavedWhereRead ==
    \A r \in requests : r.kind = "updateConfig" => r.from \in {<<r.home, r.app>>, Defaults, Elsewhere}

(* A click does what it says, once, to the app it was made for.            *)
AsTheUserAsked == OneRequestOfAButton /\ SavedWhereRead
=============================================================================
