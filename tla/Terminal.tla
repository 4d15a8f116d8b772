------------------------------ MODULE Terminal ------------------------------
(***************************************************************************)
(* The terminal of the web client (components/XTerminal.tsx): one screen,  *)
(* one websocket to a shell of the daemon, a timer that connects again and *)
(* the screen's text kept in the browser between visits.  The page mounts  *)
(* a component per instance, and React's strict mode mounts it twice.      *)
(*                                                                         *)
(* Text is the set of instances whose output it holds.  The daemon sends   *)
(* binary messages: each is decoded later, by a promise of its own.        *)
(***************************************************************************)
EXTENDS Naturals, FiniteSets

CONSTANTS
    Terminals,  \* instances
    MaxDrops    \* bound: connections lost or refused, shells that exit

ASSUME DropsAssumption == MaxDrops \in Nat

NoTerminal == "none"
ASSUME TerminalsAssumption == NoTerminal \notin Terminals
NoSocket == 0
SocketIds == 1..3   \* two left behind and the one in use

VARIABLES
    terminal,   \* the instance whose terminal is mounted
    sockets,    \* the websockets the browser has not closed
    wsRef,      \* the one the component holds
    timer2s,    \* its timer to connect again is set
    screen,     \* what its screen shows
    history,    \* localStorage
    blobs,      \* messages being decoded, with the screen they go to
    drops

termVars == <<terminal, sockets, wsRef, timer2s, screen, history, blobs, drops>>

(* phase: connecting, open, or deaf, when the shell has exited and the     *)
(* daemon still waits for input.  hangsUp: its onopen only closes it.      *)
Socket(id, i) == [id |-> id, to |-> i, phase |-> "connecting", hangsUp |-> FALSE]

TermInit ==
    /\ terminal = NoTerminal /\ sockets = {} /\ wsRef = NoSocket /\ timer2s = FALSE
    /\ screen = {} /\ history = [i \in Terminals |-> {}] /\ blobs = {} /\ drops = 0

Held == {s \in sockets : s.id = wsRef}
ConnectUnheld(i, others) ==   \* mutant
    \E id \in SocketIds \ {s.id : s \in sockets} : sockets' = others \cup {Socket(id, i)} /\ wsRef' = NoSocket
Connect(i, others) ==
    \E id \in SocketIds \ {s.id : s \in sockets} : sockets' = others \cup {Socket(id, i)} /\ wsRef' = id

Mount(i) ==
    /\ terminal = NoTerminal
    /\ terminal' = i
    /\ screen' = history[i]
    /\ Connect(i, sockets)
    /\ UNCHANGED <<timer2s, history, blobs, drops>>

(* The cleanup: a socket that is still connecting is closed once it is     *)
(* open, and what an old screen is still sent is never shown.              *)
UnmountOpenOnly ==   \* mutant
    /\ terminal # NoTerminal
    /\ terminal' = NoTerminal /\ timer2s' = FALSE /\ wsRef' = NoSocket /\ screen' = {}
    /\ history' = IF screen = {} THEN history ELSE [history EXCEPT ![terminal] = screen]
    /\ sockets' = sockets \ {s \in Held : s.phase # "connecting"}
    /\ blobs' = {[b EXCEPT !.disposed = TRUE] : b \in blobs}
    /\ UNCHANGED drops
Unmount ==
    /\ terminal # NoTerminal
    /\ terminal' = NoTerminal /\ timer2s' = FALSE /\ wsRef' = NoSocket /\ screen' = {}
    /\ history' = IF screen = {} THEN history ELSE [history EXCEPT ![terminal] = screen]
    /\ sockets' = (sockets \ Held) \cup {[s EXCEPT !.hangsUp = TRUE] : s \in {x \in Held : x.phase = "connecting"}}
    /\ blobs' = {[b EXCEPT !.disposed = TRUE] : b \in blobs}
    /\ UNCHANGED drops

Opens(s) ==
    /\ s.phase = "connecting"
    /\ sockets' = (sockets \ {s}) \cup (IF s.hangsUp THEN {} ELSE {[s EXCEPT !.phase = "open"]})
    /\ UNCHANGED <<terminal, wsRef, timer2s, screen, history, blobs, drops>>

Output(s) ==
    /\ s.phase = "open"
    /\ blobs' = blobs \cup {[of |-> s.to, disposed |-> s.id # wsRef]}
    /\ UNCHANGED <<terminal, sockets, wsRef, timer2s, screen, history, drops>>

Write(b) ==
    /\ blobs' = blobs \ {b}
    /\ screen' = IF b.disposed THEN screen ELSE screen \cup {b.of}
    /\ UNCHANGED <<terminal, sockets, wsRef, timer2s, history, drops>>

Close(s) ==
    /\ sockets' = sockets \ {s}
    /\ timer2s' = (timer2s \/ s.id = wsRef)
    /\ UNCHANGED <<terminal, wsRef, screen, history, blobs>>

Drop(s) == drops < MaxDrops /\ drops' = drops + 1 /\ Close(s)

ShellExits(s) ==
    /\ s.phase = "open" /\ drops < MaxDrops
    /\ drops' = drops + 1
    /\ sockets' = (sockets \ {s}) \cup {[s EXCEPT !.phase = "deaf"]}
    /\ UNCHANGED <<terminal, wsRef, timer2s, screen, history, blobs>>

(* A key reaches the shell; if there is none left the daemon hangs up.     *)
Key == \E s \in Held : s.phase = "deaf" /\ Close(s) /\ UNCHANGED drops

Reconnect2s ==
    /\ timer2s
    /\ timer2s' = FALSE
    /\ Connect(terminal, sockets \ Held)
    /\ UNCHANGED <<terminal, screen, history, blobs, drops>>

TermNext ==
    \/ \E i \in Terminals : Mount(i)
    \/ Unmount \/ Key \/ Reconnect2s
    \/ \E s \in sockets : Opens(s) \/ Output(s) \/ Drop(s) \/ ShellExits(s)
    \/ \E b \in blobs : Write(b)

(* The timer runs, and a handshake ends one way or the other.              *)
TermFairness ==
    /\ WF_termVars(Reconnect2s)
    /\ \A id \in SocketIds : WF_termVars(\E s \in sockets : s.id = id /\ (Opens(s) \/ Drop(s)))

TermSpec == TermInit /\ [][TermNext]_termVars /\ TermFairness

---------------------------------------------------------------------------
(* The daemon runs one shell for the terminal, of the instance on screen:  *)
(* every other websocket hangs up as soon as it is open.                   *)
OneShell == \A s \in sockets : IF s.id = wsRef THEN s.to = terminal ELSE s.phase = "connecting" /\ s.hangsUp

(* What was printed by one instance's shell is shown and kept for no       *)
(* other, however late it is decoded.                                      *)
OutputIsOwn ==
    /\ screen \subseteq {terminal}
    /\ \A i \in Terminals : history[i] \subseteq {i}

TerminalIsOwn == OneShell /\ OutputIsOwn

(* A terminal that stays on screen gets connected, whatever is lost.       *)
TerminalConnects == \A i \in Terminals : terminal = i ~> terminal # i \/ \E s \in Held : s.phase # "connecting"
=============================================================================
