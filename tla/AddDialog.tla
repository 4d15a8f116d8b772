------------------------------ MODULE AddDialog ------------------------------
(***************************************************************************)
(* The dialog in which an app is added to an instance (AppConfigDialog):   *)
(* its name, which must not be taken, and the deployed app that serves its *)
(* requirement.  The list of apps the dialog goes by is read again while   *)
(* the user types, and an effect then fills the dialog anew.               *)
(*                                                                         *)
(* The daemon adds an app whether or not its name is taken, so the dialog  *)
(* alone keeps two apps from having one name.                              *)
(***************************************************************************)
EXTENDS Naturals, FiniteSets

CONSTANTS
    Names,     \* names the user may give
    Package,   \* the name the app has in the wild directory
    Servers,   \* apps that can serve the requirement
    MaxAdds    \* bound: requests on their way

ASSUME AddsAssumption == Package \in Names /\ MaxAdds \in Nat

Blank == ""
NoApps == [taken |-> {}, ready |-> {}]

VARIABLES
    preset,     \* the server that the app's own manifest names (installedAs), if any; it stays
    actual,     \* the instance's apps: the names that are taken, the servers that are deployed
    seen,       \* as the client last read them
    onAppsPage,
    addOpen,
    appName,    \* what the dialog holds: a name
    mapping,    \* ... and a server
    adds        \* tracked = it was asked by the page that is mounted

addVars == <<preset, actual, seen, onAppsPage, addOpen, appName, mapping, adds>>

IsSaving == \E r \in adds : r.tracked

IsNameUnique(name) == name \notin seen.taken

(* The default name, unless it is taken; the server that the manifest      *)
(* names, deployed or not, else the one that is deployed, if it is the only. *)
FillFrom(list) ==
    /\ appName' = IF Package \in list.taken THEN Blank ELSE Package
    /\ mapping' = IF preset # Blank THEN preset
                  ELSE IF Cardinality(list.ready) = 1 THEN CHOOSE s \in list.ready : TRUE ELSE Blank

AddInit ==
    /\ preset \in Servers \cup {Blank}
    /\ actual = NoApps /\ seen = NoApps
    /\ onAppsPage = FALSE /\ addOpen = FALSE
    /\ appName = Blank /\ mapping = Blank /\ adds = {}

(* Other requests and other users: apps are deployed, deleted and added.   *)
AppsChange ==
    /\ \E taken \in SUBSET Names, ready \in SUBSET Servers : actual' = [taken |-> taken, ready |-> ready]
    /\ UNCHANGED <<seen, onAppsPage, addOpen, appName, mapping, adds>>

(* A list that is read again and is the same stays the same object.        *)
AppsReadKeepsInputs ==   \* mutant
    /\ onAppsPage /\ seen' = actual
    /\ UNCHANGED <<actual, onAppsPage, addOpen, appName, mapping, adds>>
AppsRead ==
    /\ onAppsPage /\ seen' = actual
    /\ IF addOpen /\ actual # seen THEN FillFrom(actual) ELSE UNCHANGED <<appName, mapping>>
    /\ UNCHANGED <<actual, onAppsPage, addOpen, adds>>

EnterApps ==
    /\ ~onAppsPage /\ onAppsPage' = TRUE
    /\ UNCHANGED <<actual, seen, addOpen, appName, mapping, adds>>

LeaveForOther ==
    /\ onAppsPage /\ onAppsPage' = FALSE
    /\ addOpen' = FALSE /\ appName' = Blank /\ mapping' = Blank
    /\ adds' = {[r EXCEPT !.tracked = FALSE] : r \in adds}
    /\ UNCHANGED <<actual, seen>>

(* The tile of an app that may be added: no listed one has its name, and   *)
(* it is not being added under that name.                                  *)
Available == IsNameUnique(Package) /\ \A r \in adds : r.name # Package

OpenAdd ==
    /\ onAppsPage /\ ~addOpen /\ Available
    /\ addOpen' = TRUE /\ FillFrom(seen)
    /\ UNCHANGED <<actual, seen, onAppsPage, adds>>

TypeName(name) ==
    /\ addOpen /\ appName' = name
    /\ UNCHANGED <<actual, seen, onAppsPage, addOpen, mapping, adds>>

ChooseServer(s) ==
    /\ addOpen /\ s \in seen.ready /\ mapping' = s
    /\ UNCHANGED <<actual, seen, onAppsPage, addOpen, appName, adds>>

(* The name's error is the effect's on every change of name or list.       *)
CanSave == mapping # Blank /\ appName # Blank /\ IsNameUnique(appName)

HandleSave ==
    /\ addOpen /\ CanSave /\ ~IsSaving
    /\ Cardinality(adds) < MaxAdds
    /\ adds' = adds \cup {[name |-> appName, server |-> mapping, tracked |-> TRUE]}
    /\ addOpen' = FALSE
    /\ UNCHANGED <<actual, seen, onAppsPage, appName, mapping>>

CancelAdd ==
    /\ addOpen /\ addOpen' = FALSE
    /\ UNCHANGED <<actual, seen, onAppsPage, appName, mapping, adds>>

AddEnds(r, ok) ==
    /\ adds' = adds \ {r}
    /\ actual' = IF ok THEN [actual EXCEPT !.taken = @ \cup {r.name}] ELSE actual
    /\ UNCHANGED <<seen, onAppsPage, addOpen, appName, mapping>>

AddNext ==
    /\ UNCHANGED preset
    /\ \/ AppsChange \/ AppsRead \/ EnterApps \/ LeaveForOther \/ OpenAdd \/ HandleSave \/ CancelAdd
       \/ \E name \in Names \cup {Blank} : TypeName(name)
       \/ \E s \in Servers : ChooseServer(s)
       \/ \E r \in adds : AddEnds(r, TRUE) \/ AddEnds(r, FALSE)

AddSpec == AddInit /\ [][AddNext]_addVars

-----------------------------------------------------------------------------
(* An app is added under a name that no app in the list has, and with a    *)
(* server that the list shows as deployed or that the app's own manifest   *)
(* names, by the list that is on screen when Add is clicked: however often *)
(* that list has changed while the user was typing and choosing.           *)
AddsWhatIsListed ==
    [][\A r \in adds' : r.tracked /\ r \notin adds =>
          IsNameUnique(r.name) /\ r.server \in seen.ready \cup ({preset} \ {Blank})]_addVars
=============================================================================
