----------------------------- MODULE SSEManager -----------------------------
(***************************************************************************)
(* The hub of the global event stream, api/internal/sse/manager.go, and    *)
(* the HTTP handlers of handlers_sse.go that are its clients.  A handler   *)
(* registers, relays what its channel brings, and unregisters when the     *)
(* connection ends.  Requests to the hub travel in three independent       *)
(* buffered channels; one goroutine, run, takes from any that is not empty.*)
(***************************************************************************)
EXTENDS Naturals, Sequences, FiniteSets, SequencesExt

CONSTANTS
    Clients,        \* connections
    Instances,      \* Wild Cloud instances
    Everything,     \* the instance name "*" of GlobalEventStream
    InstanceOf,     \* the instance a connection is registered for
    ChannelCap,     \* of a client channel: 100 in the code
    QueueCap,       \* of register and unregister: 100 in the code
    BroadcastCap,   \* of broadcast: 1000 in the code
    MaxEvents       \* bound: events broadcast

ASSUME SSEAssumption ==
    /\ Everything \notin Instances
    /\ InstanceOf \in [Clients -> Instances \cup {Everything}]
    /\ ChannelCap \in Nat \ {0} /\ QueueCap \in Nat \ {0}
    /\ BroadcastCap \in Nat \ {0} /\ MaxEvents \in Nat

VARIABLES
    conn,        \* conn[c]: the handler of connection c
    register, unregister, broadcast,  \* the three queues of the hub
    clients,     \* the registered connections
    channel,     \* channel[c]: events buffered for c
    closed,      \* connections whose channel is closed
    limiters,    \* connections with an entry in rateLimiters
    events,      \* events handed to Broadcast so far
    alive,       \* FALSE once run has panicked: the daemon is gone
    got,         \* history: got[c], numbers of the events relayed to c
    early        \* history: connections that ended before run had handled
                 \* their registration

hubVars == <<conn, register, unregister, broadcast, clients, channel, closed,
             limiters, events, alive, got, early>>

Event == [no : 1..MaxEvents, instance : Instances]

-----------------------------------------------------------------------------
(* Handlers.  Sending to a full queue waits.                               *)

RegisterClient(c) ==
    /\ conn[c] = "new"
    /\ Len(register) < QueueCap
    /\ register' = Append(register, c)
    /\ conn' = [conn EXCEPT ![c] = "open"]
    /\ UNCHANGED <<unregister, broadcast, clients, channel, closed, limiters,
                   events, alive, got, early>>

Relay(c) ==
    /\ conn[c] = "open"
    /\ channel[c] # <<>>
    /\ channel' = [channel EXCEPT ![c] = Tail(@)]
    /\ got' = [got EXCEPT ![c] = Append(@, Head(channel[c]))]
    /\ UNCHANGED <<conn, register, unregister, broadcast, clients, closed,
                   limiters, events, alive, early>>

(* The connection ends, at any moment after RegisterClient returned.       *)
(* Mutant: the connection is cancelled and the hub is not told.            *)
CancelOnly(c) ==
    /\ conn[c] = "open"
    /\ conn' = [conn EXCEPT ![c] = "leaving"]
    /\ early' = IF c \in ToSet(register) THEN early \cup {c} ELSE early
    /\ UNCHANGED <<register, unregister, broadcast, clients, channel, closed,
                   limiters, events, alive, got>>

UnregisterClient(c) ==
    /\ conn[c] = "open"
    /\ Len(unregister) < QueueCap
    /\ unregister' = Append(unregister, c)
    /\ conn' = [conn EXCEPT ![c] = "leaving"]
    /\ early' = IF c \in ToSet(register) THEN early \cup {c} ELSE early
    /\ UNCHANGED <<register, broadcast, clients, channel, closed, limiters,
                   events, alive, got>>

(* The end of UnregisterClient: "Clean up rate limiter".                   *)
DropLimiter(c) ==
    /\ conn[c] = "leaving"
    /\ conn' = [conn EXCEPT ![c] = "gone"]
    /\ limiters' = limiters \ {c}
    /\ UNCHANGED <<register, unregister, broadcast, clients, channel, closed,
                   events, alive, got, early>>

(* Watchers, node and operation handlers: an event is queued, or dropped   *)
(* when the queue is full.                                                 *)
Broadcast(i) ==
    /\ events < MaxEvents
    /\ events' = events + 1
    /\ broadcast' = IF Len(broadcast) < BroadcastCap
                    THEN Append(broadcast, [no |-> events', instance |-> i])
                    ELSE broadcast
    /\ UNCHANGED <<conn, register, unregister, clients, channel, closed,
                   limiters, alive, got, early>>

-----------------------------------------------------------------------------
(* The three cases of run's select.  Only run touches the client maps.     *)

RunRegister ==
    /\ register # <<>>
    /\ clients' = clients \cup {Head(register)}
    /\ register' = Tail(register)
    /\ UNCHANGED <<conn, unregister, broadcast, channel, closed, limiters,
                   events, alive, got, early>>

(* Mutant: the channel is closed and its client stays registered.          *)
RunCloseOnly ==
    /\ unregister # <<>>
    /\ closed' = closed \cup {Head(unregister)}
    /\ unregister' = Tail(unregister)
    /\ UNCHANGED <<conn, register, broadcast, clients, channel, limiters,
                   events, alive, got, early>>

RunUnregister ==
    /\ unregister # <<>>
    /\ clients' = clients \ {Head(unregister)}
    /\ closed' = closed \cup {Head(unregister)}
    /\ unregister' = Tail(unregister)
    /\ UNCHANGED <<conn, register, broadcast, channel, limiters, events,
                   alive, got, early>>

Addressed(e) == {c \in clients : InstanceOf[c] \in {e.instance, Everything}}

(* Mutant: the newest event first.                                         *)
RunNewestBroadcast ==
    /\ broadcast # <<>>
    /\ LET e == Last(broadcast) IN
       /\ limiters' = limiters \cup Addressed(e)
       /\ \E chosen \in SUBSET Addressed(e) :
            /\ alive' = (chosen \cap closed = {})
            /\ channel' = [c \in Clients |->
                 IF c \in chosen \ closed /\ Len(channel[c]) < ChannelCap
                 THEN Append(channel[c], e.no) ELSE channel[c]]
    /\ broadcast' = Front(broadcast)
    /\ UNCHANGED <<conn, register, unregister, clients, closed, events, got, early>>

(* The rate limiter of every addressed client is looked up, and created if *)
(* missing; it and the filters decide who of them is sent the event.  A    *)
(* full channel loses it, a closed one makes the send panic.               *)
RunBroadcast ==
    /\ broadcast # <<>>
    /\ LET e == Head(broadcast) IN
       /\ limiters' = limiters \cup Addressed(e)
       /\ \E chosen \in SUBSET Addressed(e) :
            /\ alive' = (chosen \cap closed = {})
            /\ channel' = [c \in Clients |->
                 IF c \in chosen \ closed /\ Len(channel[c]) < ChannelCap
                 THEN Append(channel[c], e.no) ELSE channel[c]]
    /\ broadcast' = Tail(broadcast)
    /\ UNCHANGED <<conn, register, unregister, clients, closed, events, got, early>>

Run == RunRegister \/ RunUnregister \/ RunBroadcast

-----------------------------------------------------------------------------
HubInit ==
    /\ conn = [c \in Clients |-> "new"]
    /\ register = <<>> /\ unregister = <<>> /\ broadcast = <<>>
    /\ clients = {} /\ closed = {} /\ limiters = {}
    /\ channel = [c \in Clients |-> <<>>]
    /\ events = 0
    /\ alive = TRUE
    /\ got = [c \in Clients |-> <<>>]
    /\ early = {}

Handler(c) ==
    RegisterClient(c) \/ Relay(c) \/ UnregisterClient(c) \/ DropLimiter(c)

HubNext ==
    /\ alive
    /\ \/ \E c \in Clients : Handler(c)
       \/ \E i \in Instances : Broadcast(i)
       \/ Run

HubSpec == HubInit /\ [][HubNext]_hubVars

(* run never stops taking from its queues.                                 *)
FairHubSpec == HubSpec /\ WF_hubVars(alive /\ Run)

-----------------------------------------------------------------------------
TypeOK ==
    /\ conn \in [Clients -> {"new", "open", "leaving", "gone"}]
    /\ register \in Seq(Clients) /\ Len(register) <= QueueCap
    /\ unregister \in Seq(Clients) /\ Len(unregister) <= QueueCap
    /\ broadcast \in Seq(Event) /\ Len(broadcast) <= BroadcastCap
    /\ clients \subseteq Clients /\ closed \subseteq Clients
    /\ limiters \subseteq Clients
    /\ channel \in [Clients -> Seq(1..MaxEvents)]
    /\ events \in 0..MaxEvents
    /\ alive \in BOOLEAN
    /\ got \in [Clients -> Seq(1..MaxEvents)]
    /\ early \subseteq Clients

(* A client sees events in the order they were broadcast, each at most     *)
(* once, whatever was dropped on the way.                                  *)
InOrder ==
    \A c \in Clients :
        LET seen == got[c] \o channel[c]
        IN /\ \A i, j \in 1..Len(seen) : i < j => seen[i] < seen[j]
           /\ \A i \in 1..Len(seen), k \in 1..Len(broadcast) :
                seen[i] < broadcast[k].no

(* run outlives every connection: as long as no connection ended before    *)
(* its registration was handled, it never sends on a closed channel.       *)
DaemonSurvives == early = {} => alive /\ clients \cap closed = {}

(* However connections come and go and queues overflow, the hub lives and  *)
(* what it delivers is in order.                                           *)
HubIsSound == TypeOK /\ InOrder /\ DaemonSurvives

(* A connection that ends is forgotten by the hub and stays forgotten,     *)
(* unless it ended before its registration was handled or such a           *)
(* connection brought the daemon down.                                     *)
Forgotten ==
    \A c \in Clients :
        (conn[c] = "gone")
            ~> (c \in early \/ ~alive \/ [](c \notin clients /\ c \in closed))

(* "Clean up rate limiter": once a connection that is gone was             *)
(* unregistered, no broadcast gives it a limiter again.                    *)
LimitersStopGrowing ==
    [][\A c \in Clients \ early :
         (conn[c] = "gone" /\ c \in closed /\ c \notin limiters)
            => c \notin limiters']_hubVars

(* Nothing of a connection that ended remains or comes back.               *)
GoneAreForgotten == Forgotten /\ LimitersStopGrowing
=============================================================================
