----------------------------- MODULE EventClient -----------------------------
(***************************************************************************)
(* The one connection of the web client to /api/v1/events, shared by all   *)
(* hooks that listen (hooks/useGlobalSSE.ts).  The first listener opens    *)
(* it, the last one closes it, and a broken connection is opened again by  *)
(* a timer.  "up" is the network between the browser and the daemon.       *)
(***************************************************************************)
EXTENDS Naturals, FiniteSets

CONSTANTS
    Listeners,  \* the mounted hooks that may listen
    MaxBreaks   \* bound: how often the network goes down

ASSUME BreaksAssumption == MaxBreaks \in Nat

VARIABLES
    listeners,  \* globalListeners
    source,     \* globalEventSource: "none", "connecting" or "open"
    status,     \* connectionStatus
    timer,      \* is reconnectTimeout set
    up, breaks, \* the network
    stranded    \* auxiliary: a listener left while another one waited for the timer

eventVars == <<listeners, source, status, timer, up, breaks, stranded>>
network == <<up, breaks>>

EventTypeOK ==
    /\ listeners \subseteq Listeners
    /\ source \in {"none", "connecting", "open"}
    /\ status \in {"disconnected", "connecting", "connected"}
    /\ timer \in BOOLEAN
    /\ up \in BOOLEAN
    /\ breaks \in 0..MaxBreaks
    /\ stranded \in BOOLEAN

EventInit ==
    /\ listeners = {}
    /\ source = "none"
    /\ status = "disconnected"
    /\ timer = FALSE
    /\ up \in BOOLEAN
    /\ breaks = 0
    /\ stranded = FALSE

(* createGlobalConnection; a source that was closed is never kept. *)
Create ==
    IF source = "none"
    THEN source' = "connecting" /\ status' = "connecting"
    ELSE UNCHANGED <<source, status>>

(* Only the arrival of a first listener opens a connection. *)
Listen(l) ==
    /\ l \notin listeners
    /\ listeners' = listeners \cup {l}
    /\ IF listeners = {}
       THEN Create /\ stranded' = FALSE
       ELSE UNCHANGED <<source, status, stranded>>
    /\ UNCHANGED <<timer, network>>

HushKeepsTimer(l) ==   \* mutant
    /\ l \in listeners
    /\ listeners' = listeners \ {l}
    /\ IF listeners' = {} /\ source # "none"
       THEN source' = "none" /\ status' = "disconnected"
       ELSE UNCHANGED <<source, status>>
    /\ UNCHANGED <<timer, stranded, network>>

(* closeGlobalConnection; the timer is cleared whoever remains. *)
Hush(l) ==
    /\ l \in listeners
    /\ listeners' = listeners \ {l}
    /\ timer' = FALSE
    /\ IF listeners' = {} /\ source # "none"
       THEN source' = "none" /\ status' = "disconnected"
       ELSE UNCHANGED <<source, status>>
    /\ stranded' = (listeners' # {} /\ (timer \/ stranded))
    /\ UNCHANGED network

OnOpen ==
    /\ source = "connecting" /\ up
    /\ source' = "open"
    /\ status' = "connected"
    /\ UNCHANGED <<listeners, timer, stranded, network>>

OnError ==
    /\ source # "none" /\ ~up
    /\ source' = "none"
    /\ status' = "disconnected"
    /\ timer' = (listeners # {})
    /\ UNCHANGED <<listeners, stranded, network>>

Reconnect ==
    /\ timer
    /\ timer' = FALSE
    /\ IF source = "none" /\ listeners # {} THEN Create ELSE UNCHANGED <<source, status>>
    /\ UNCHANGED <<listeners, stranded, network>>

Down ==
    /\ up /\ breaks < MaxBreaks
    /\ up' = FALSE
    /\ breaks' = breaks + 1
    /\ UNCHANGED <<listeners, source, status, timer, stranded>>

Up ==
    /\ ~up
    /\ up' = TRUE
    /\ UNCHANGED <<listeners, source, status, timer, breaks, stranded>>

EventNext ==
    \/ \E l \in Listeners : Listen(l) \/ Hush(l)
    \/ OnOpen \/ OnError \/ Reconnect
    \/ Down \/ Up

EventSpec == EventInit /\ [][EventNext]_eventVars

---------------------------------------------------------------------------
(* A page that listens to nothing holds neither a connection, which would
   be one of the daemon's clients for ever, nor a timer that opens one.     *)
ClosedWhenUnused == listeners = {} => source = "none" /\ ~timer

(* Whoever listens without a connection waits for the timer, unless another
   listener has left since the connection broke and took the timer along.   *)
WaitsOrStranded == listeners # {} /\ source = "none" => timer \/ stranded

(* There is never a second connection: a timer that is still to fire finds
   none.  onerror and the arrival of a listener could each leave both.      *)
OneConnection == timer => source = "none"

(* What the hooks are told is what the connection is. *)
StatusAgrees ==
    /\ source = "none" <=> status = "disconnected"
    /\ source = "open" <=> status = "connected"

(* One connection at most, held only while it is used, and known for what it is. *)
ConnectionIsSound == ClosedWhenUnused /\ WaitsOrStranded /\ OneConnection /\ StatusAgrees
=============================================================================
