-------------------------------- MODULE Nodes --------------------------------
(***************************************************************************)
(* The life of one node of an instance: its entry under                    *)
(* cluster.nodes.active in config.yaml, the machine behind it, and the     *)
(* requests of api/internal/node that add, update, apply, reset and delete *)
(* it.  A request reads the entry field by field, keeps what it read, and  *)
(* writes it back field by field; nothing orders the requests among each   *)
(* other.  A yq call that writes is one step here (ConfigStore takes it    *)
(* apart); the calls that read one entry are two.                          *)
(***************************************************************************)
EXTENDS Naturals, Sequences, FiniteSets

CONSTANTS
    Requests,    \* requests that name the node
    IPs,         \* addresses
    NoIP,        \* none given
    MaxCrashes,  \* bound: deaths of the daemon
    MaxMisread,  \* bound: fields of one reading of the entry on which yq fails
    NoEntry,     \* the node is not in config.yaml
    NoNode       \* nothing read, or no longer used

Kinds == {"add", "update", "apply", "reset", "delete", "force"}
Entry == [role : BOOLEAN, disk : BOOLEAN,  \* whether they are set
          targetIp : IPs \cup {NoIP}, currentIp : IPs \cup {NoIP},
          maintenance : BOOLEAN, configured : BOOLEAN, applied : BOOLEAN]
Machine == [ip : IPs, maintenance : BOOLEAN]

ASSUME NodesAssumption ==
    /\ NoIP \notin IPs
    /\ NoEntry \notin Entry /\ NoNode \notin Entry
    /\ MaxCrashes \in Nat /\ MaxMisread \in Nat

VARIABLES
    kind,      \* kind[r]: what the request does; it never changes
    entry,     \* the node in config.yaml
    machine,   \* where the machine is and whether it is in maintenance mode
    pc,        \* pc[r]: where the request, or its reset goroutine, stands
    node,      \* node[r]: the entry as the request read it
    todo,      \* todo[r]: yq calls still to make: <<field, value>>, or Removal
    answer,    \* answer[r]: what the client was told
    crashes,   \* deaths of the daemon
    accepted,  \* history: the machine has accepted a configuration
    pulled,    \* history: the entry was removed under another request
    blurred    \* history: the entry may not tell where the machine is

vars == <<kind, entry, machine, pc, node, todo, answer, crashes, accepted,
          pulled, blurred>>

Removal == <<"removal">>
Blank == [role |-> FALSE, disk |-> FALSE, targetIp |-> NoIP, currentIp |-> NoIP,
          maintenance |-> FALSE, configured |-> FALSE, applied |-> FALSE]

Fields == DOMAIN Blank

InHand(r) == pc[r] \notin {"new", "done", "failed", "dead"}
Alone(r) == \A q \in Requests \ {r} : ~InHand(q)

-----------------------------------------------------------------------------
(* The endpoint and the mode that Apply chooses for a node as it read it.  *)
Moving(n) == n.currentIp # NoIP /\ n.currentIp # n.targetIp
DeployIP(n) == IF Moving(n) THEN n.currentIp ELSE n.targetIp
Insecure(n) == Moving(n) \/ n.maintenance \/ ~n.applied

(* talosctl apply-config: the machine is there, and in that mode.          *)
Accepts(m, ip, insecure) == m.ip = ip /\ m.maintenance = insecure

(* updateNodeStatus: four fields, the address only if there is one.        *)
StatusWrites(n) ==
    <<<<"maintenance", n.maintenance>>>>
    \o (IF n.currentIp = NoIP THEN <<>> ELSE <<<<"currentIp", n.currentIp>>>>)
    \o <<<<"configured", n.configured>>, <<"applied", n.applied>>>>

(* What Reset writes once the machine was reset: the flags, then the entry *)
(* goes altogether.  Mutant: in the other order.                           *)
ResetWritesLate(n) ==
    <<Removal>> \o StatusWrites([n EXCEPT !.maintenance = TRUE, !.configured = FALSE,
                                          !.applied = FALSE])
ResetWrites(n) ==
    StatusWrites([n EXCEPT !.maintenance = TRUE, !.configured = FALSE,
                           !.applied = FALSE]) \o <<Removal>>

(* The node after the machine accepted its configuration.                  *)
Deployed(n) ==
    [n EXCEPT !.applied = TRUE, !.currentIp = n.targetIp, !.maintenance = FALSE]

-----------------------------------------------------------------------------
(* Begin: Get, which for all but Add must find the entry.  A yq call that  *)
(* fails in Get refuses the request, but for Add it is as good as no node. *)
Takes(r, k) == kind[r] = k /\ pc[r] = "new" /\ blurred' = (blurred \/ ~Alone(r))

Refuse(r) ==
    /\ \/ pc[r] = "new" /\ (kind[r] = "add" => entry # NoEntry)
       \/ pc[r] = "asked"
    /\ pc' = [pc EXCEPT ![r] = "failed"]
    /\ answer' = [answer EXCEPT ![r] = "error"]
    /\ UNCHANGED <<kind, entry, machine, node, todo, crashes, accepted, pulled,
                   blurred>>

(* Add: a current address means maintenance mode.  The entry is truthful   *)
(* if the machine is in maintenance mode at the address given for it, and  *)
(* no entry that Get missed is written over; then it does not matter what  *)
(* an earlier entry said.                                                  *)
Add(r) ==
    /\ kind[r] = "add" /\ pc[r] = "new"
    /\ pc' = [pc EXCEPT ![r] = "write"]
    /\ \E target, current \in IPs \cup {NoIP}, maintenance \in BOOLEAN :
         /\ current # NoIP => maintenance
         /\ todo' = [todo EXCEPT ![r] =
              <<<<"role", TRUE>>, <<"disk", TRUE>>>>
              \o (IF target = NoIP THEN <<>> ELSE <<<<"targetIp", target>>>>)
              \o (IF current = NoIP THEN <<>> ELSE <<<<"currentIp", current>>>>)
              \o (IF maintenance THEN <<<<"maintenance", TRUE>>>> ELSE <<>>)]
         /\ blurred' =
              \/ ~Alone(r)
              \/ ~machine.maintenance
              \/ target = NoIP
              \/ entry # NoEntry
              \/ machine.ip # IF current = NoIP THEN target ELSE current
    /\ UNCHANGED <<kind, entry, machine, node, answer, crashes, accepted, pulled>>

(* Update, one field a request.  A new current address means maintenance   *)
(* mode too.                                                               *)
Update(r) ==
    /\ kind[r] = "update" /\ pc[r] = "new"
    /\ entry # NoEntry
    /\ pc' = [pc EXCEPT ![r] = "write"]
    /\ \/ \E ip \in IPs :
            /\ todo' = [todo EXCEPT ![r] = <<<<"targetIp", ip>>>>]
            /\ blurred' =
                 \/ blurred
                 \/ ~Alone(r)
                 \/ /\ machine.ip # ip
                    /\ machine.maintenance => machine.ip # entry.currentIp
       \/ \E ip \in IPs :
            /\ todo' = [todo EXCEPT ![r] =
                          <<<<"currentIp", ip>>, <<"maintenance", TRUE>>>>]
            /\ blurred' = (blurred \/ ~Alone(r)
                             \/ machine # [ip |-> ip, maintenance |-> TRUE])
       \/ \E on \in BOOLEAN :
            /\ todo' = [todo EXCEPT ![r] = <<<<"maintenance", on>>>>]
            /\ blurred' = (blurred \/ ~Alone(r) \/ machine.maintenance # on)
    /\ UNCHANGED <<kind, entry, machine, node, answer, crashes, accepted, pulled>>

(* Delete with skip_reset.                                                 *)
ForceDelete(r) ==
    /\ Takes(r, "force")
    /\ entry # NoEntry
    /\ pc' = [pc EXCEPT ![r] = "write"]
    /\ todo' = [todo EXCEPT ![r] = <<Removal>>]
    /\ UNCHANGED <<kind, entry, machine, node, answer, crashes, accepted, pulled>>

(* Delete without: a goroutine runs Reset, which reads the entry again.    *)
Delete(r) ==
    /\ Takes(r, "delete")
    /\ entry # NoEntry
    /\ pc' = [pc EXCEPT ![r] = "asked"]
    /\ UNCHANGED <<kind, entry, machine, node, todo, answer, crashes, accepted,
                   pulled>>

Reset(r) ==
    /\ \/ Takes(r, "reset")
       \/ pc[r] = "asked" /\ UNCHANGED blurred
    /\ entry # NoEntry
    /\ pc' = [pc EXCEPT ![r] = "read"]
    /\ node' = [node EXCEPT ![r] = entry]
    /\ UNCHANGED <<kind, entry, machine, todo, answer, crashes, accepted, pulled>>

Apply(r) ==
    /\ Takes(r, "apply")
    /\ entry # NoEntry
    /\ pc' = [pc EXCEPT ![r] = "read"]
    /\ node' = [node EXCEPT ![r] = entry]
    /\ UNCHANGED <<kind, entry, machine, todo, answer, crashes, accepted, pulled>>

(* List: the node was there when the names were read.  Each field is read  *)
(* on its own: it may be that of an entry that has changed or gone since,  *)
(* and it is blank if yq fails, of which nobody hears.                     *)
Torn(was, now) ==
    [role : {was.role, now.role}, disk : {was.disk, now.disk},
     targetIp : {was.targetIp, now.targetIp}, currentIp : {was.currentIp, now.currentIp},
     maintenance : {was.maintenance, now.maintenance},
     configured : {was.configured, now.configured}, applied : {was.applied, now.applied}]

Misread(n, lost) ==
    LET IsRead(f) == f \notin lost IN
    [role |-> n.role /\ IsRead("role"), disk |-> n.disk /\ IsRead("disk"),
     targetIp |-> IF IsRead("targetIp") THEN n.targetIp ELSE NoIP,
     currentIp |-> IF IsRead("currentIp") THEN n.currentIp ELSE NoIP,
     maintenance |-> n.maintenance /\ IsRead("maintenance"),
     configured |-> n.configured /\ IsRead("configured"), applied |-> n.applied /\ IsRead("applied")]

Read(r) ==
    /\ pc[r] = "read"
    /\ \E n \in Torn(node[r], IF entry = NoEntry THEN Blank ELSE entry), lost \in SUBSET Fields :
         /\ Cardinality(lost) <= MaxMisread
         /\ node' = [node EXCEPT ![r] = Misread(n, lost)]
         /\ blurred' = (blurred \/ Misread(n, lost) # entry)
    /\ pc' = [pc EXCEPT ![r] = IF kind[r] = "apply" THEN "generate" ELSE "reset"]
    /\ UNCHANGED <<kind, entry, machine, todo, answer, crashes, accepted, pulled>>

-----------------------------------------------------------------------------
(* Apply: base configuration, patch and final configuration, then the      *)
(* status.  Mutant: the node is marked applied at once.                    *)
GenerateApplied(r) ==
    /\ pc[r] = "generate"
    /\ pc' = [pc EXCEPT ![r] = "configured"]
    /\ node' = [node EXCEPT ![r].configured = TRUE, ![r].applied = TRUE]
    /\ todo' = [todo EXCEPT ![r] = StatusWrites(node'[r])]
    /\ UNCHANGED <<kind, entry, machine, answer, crashes, accepted, pulled, blurred>>

Generate(r) ==
    /\ pc[r] = "generate"
    /\ pc' = [pc EXCEPT ![r] = "configured"]
    /\ node' = [node EXCEPT ![r].configured = TRUE]
    /\ todo' = [todo EXCEPT ![r] = StatusWrites(node'[r])]
    /\ UNCHANGED <<kind, entry, machine, answer, crashes, accepted, pulled, blurred>>

(* The machine takes the configuration and restarts at its target address. *)
Deploy(r) ==
    /\ pc[r] = "configured" /\ todo[r] = <<>>
    /\ Accepts(machine, DeployIP(node[r]), Insecure(node[r]))
    /\ machine' = [ip |-> IF node[r].targetIp = NoIP THEN machine.ip
                          ELSE node[r].targetIp, maintenance |-> FALSE]
    /\ accepted' = TRUE
    /\ pc' = [pc EXCEPT ![r] = "write"]
    /\ node' = [node EXCEPT ![r] = NoNode]
    /\ todo' = [todo EXCEPT ![r] = StatusWrites(Deployed(node[r]))]
    /\ UNCHANGED <<kind, entry, answer, crashes, pulled, blurred>>

(* talosctl reset.  A configured machine at that address wipes itself and  *)
(* comes back somewhere; but a machine that cannot be reached ("connection *)
(* refused", "Unavailable") counts as reset as well.                       *)
ResetMachine(r) ==
    /\ pc[r] = "reset"
    /\ LET ip == IF node[r].currentIp # NoIP THEN node[r].currentIp
                 ELSE node[r].targetIp
       IN \/ Accepts(machine, ip, FALSE)
               /\ \E to \in IPs : machine' = [ip |-> to, maintenance |-> TRUE]
          \/ UNCHANGED machine
    /\ pc' = [pc EXCEPT ![r] = "write"]
    /\ node' = [node EXCEPT ![r] = NoNode]
    /\ todo' = [todo EXCEPT ![r] = ResetWrites(node[r])]
    /\ UNCHANGED <<kind, entry, answer, crashes, accepted, pulled, blurred>>

-----------------------------------------------------------------------------
(* One yq call.  Setting a field of a node that is not there creates it.   *)
Write(r) ==
    /\ todo[r] # <<>>
    /\ IF Head(todo[r]) = Removal
       THEN /\ entry' = NoEntry
            /\ pulled' = (pulled \/ ~Alone(r))
       ELSE /\ entry' = [(IF entry = NoEntry THEN Blank ELSE entry)
                           EXCEPT ![Head(todo[r])[1]] = Head(todo[r])[2]]
            /\ UNCHANGED pulled
    /\ todo' = [todo EXCEPT ![r] = Tail(@)]
    /\ UNCHANGED <<kind, machine, pc, node, answer, crashes, accepted, blurred>>

(* The end; but a Delete that still waits for its reset removes the entry  *)
(* once more.                                                              *)
Finish(r) ==
    /\ pc[r] \in {"write", "again"} /\ todo[r] = <<>>
    /\ IF kind[r] = "delete" /\ pc[r] = "write" /\ answer[r] = "none"
       THEN /\ pc' = [pc EXCEPT ![r] = "again"]
            /\ todo' = [todo EXCEPT ![r] = <<Removal>>]
            /\ UNCHANGED answer
       ELSE /\ pc' = [pc EXCEPT ![r] = "done"]
            /\ answer' = [answer EXCEPT ![r] = IF @ = "none" THEN "ok" ELSE @]
            /\ UNCHANGED todo
    /\ UNCHANGED <<kind, entry, machine, node, crashes, accepted, pulled, blurred>>

TimeoutWhileWriting(r) ==  \* mutant: only a slow yq is timed
    /\ kind[r] = "delete" /\ pc[r] = "write"
    /\ answer[r] = "none"
    /\ answer' = [answer EXCEPT ![r] = "error"]
    /\ UNCHANGED <<kind, entry, machine, pc, node, todo, crashes, accepted, pulled,
                   blurred>>

(* Delete gives the reset 30 seconds; the goroutine goes on.               *)
Timeout(r) ==
    /\ kind[r] = "delete" /\ pc[r] \in {"asked", "read", "reset", "write"}
    /\ answer[r] = "none"
    /\ answer' = [answer EXCEPT ![r] = "error"]
    /\ UNCHANGED <<kind, entry, machine, pc, node, todo, crashes, accepted, pulled,
                   blurred>>

(* A yq call, a file or talosctl fails: the request ends, nothing of what  *)
(* it did is undone.                                                       *)
Fail(r) ==
    /\ todo[r] # <<>> \/ pc[r] \in {"generate", "configured", "reset"}
    /\ pc' = [pc EXCEPT ![r] = "failed"]
    /\ todo' = [todo EXCEPT ![r] = <<>>]
    /\ answer' = [answer EXCEPT ![r] = "error"]
    /\ blurred' = (blurred \/ pc[r] = "write")
    /\ node' = [node EXCEPT ![r] = NoNode]
    /\ UNCHANGED <<kind, entry, machine, crashes, accepted, pulled>>

Crash ==
    /\ crashes < MaxCrashes
    /\ \E r \in Requests : InHand(r)
    /\ crashes' = crashes + 1
    /\ pc' = [r \in Requests |-> IF InHand(r) THEN "dead" ELSE pc[r]]
    /\ node' = [r \in Requests |-> NoNode]
    /\ todo' = [r \in Requests |-> <<>>]
    /\ blurred' = (blurred \/ \E r \in Requests : pc[r] = "write")
    /\ UNCHANGED <<kind, entry, machine, answer, accepted, pulled>>

-----------------------------------------------------------------------------
(* The node is not registered and its machine in maintenance mode, or it   *)
(* is in production.                                                       *)
Production(ip) ==
    [role |-> TRUE, disk |-> TRUE, targetIp |-> ip, currentIp |-> ip,
     maintenance |-> FALSE, configured |-> TRUE, applied |-> TRUE]

Init ==
    /\ kind \in [Requests -> Kinds]
    /\ \E ip \in IPs :
         \/ /\ entry = NoEntry /\ accepted = FALSE
            /\ machine = [ip |-> ip, maintenance |-> TRUE]
         \/ /\ entry = Production(ip) /\ accepted = TRUE
            /\ machine = [ip |-> ip, maintenance |-> FALSE]
    /\ pc = [r \in Requests |-> "new"]
    /\ node = [r \in Requests |-> NoNode]
    /\ todo = [r \in Requests |-> <<>>]
    /\ answer = [r \in Requests |-> "none"]
    /\ crashes = 0
    /\ pulled = FALSE
    /\ blurred = FALSE

Own(r) ==
    \/ Read(r) \/ Generate(r) \/ Write(r) \/ Finish(r)
    \/ pc[r] = "asked" /\ (Reset(r) \/ Refuse(r))

Next ==
    \/ \E r \in Requests :
         \/ Refuse(r) \/ Add(r) \/ Update(r) \/ ForceDelete(r) \/ Delete(r)
         \/ Reset(r) \/ Apply(r) \/ Read(r) \/ Generate(r) \/ Deploy(r) \/ ResetMachine(r)
         \/ Write(r) \/ Finish(r) \/ Timeout(r) \/ Fail(r)
    \/ Crash

Spec == Init /\ [][Next]_vars

(* The daemon's own steps are taken, timers fire and local commands end;   *)
(* talosctl may hang for ever.                                             *)
FairSpec ==
    Spec /\ \A r \in Requests : WF_vars(Own(r)) /\ WF_vars(Timeout(r))

-----------------------------------------------------------------------------
TypeOK ==
    /\ kind \in [Requests -> Kinds]
    /\ entry \in Entry \cup {NoEntry}
    /\ machine \in Machine
    /\ pc \in [Requests -> {"new", "asked", "read", "reset", "generate", "configured",
                            "write", "again", "done", "failed", "dead"}]
    /\ node \in [Requests -> Entry \cup {NoNode}]
    /\ \A r \in Requests : \A i \in 1..Len(todo[r]) :
         todo[r][i] = Removal \/ todo[r][i][1] \in Fields
    /\ answer \in [Requests -> {"none", "ok", "error"}]
    /\ crashes \in 0..MaxCrashes
    /\ {accepted, pulled, blurred} \subseteq BOOLEAN

(* A node without role or disk in config.yaml is one that an Add is still  *)
(* writing or gave up writing; else a request that went on after the node  *)
(* was removed has brought its flags back.                                 *)
EntryIsWhole ==
    (entry # NoEntry /\ ~(entry.role /\ entry.disk)) =>
        \/ pulled
        \/ \E r \in Requests : kind[r] = "add" /\ pc[r] \in {"write", "failed", "dead"}

(* The three scenarios of Apply: when no request is under way, and as long *)
(* as requests came one at a time, told the truth about the machine and    *)
(* did not break off after acting on it, Apply would speak to the machine  *)
(* where it is and in the mode it is in.  The last exemption covers an Add *)
(* or a read of the entry in which yq failed unnoticed.                    *)
ApplyFindsMachine ==
    (entry # NoEntry /\ ~blurred /\ \A r \in Requests : ~InHand(r)) =>
        Accepts(machine, DeployIP(entry), Insecure(entry))

(* The entry is one that the next Apply can use.                           *)
EntriesAreSound == TypeOK /\ EntryIsWhole /\ ApplyFindsMachine

(* However requests overlap, fail or die: config.yaml never calls a node   *)
(* applied whose machine has never accepted a configuration.               *)
AppliedWasAccepted == (entry # NoEntry /\ entry.applied) => accepted

(* A Delete is answered even if the reset it asked for hangs.              *)
DeleteIsAnswered ==
    \A r \in Requests :
        (kind[r] = "delete" /\ pc[r] # "new")
            ~> (answer[r] # "none" \/ pc[r] = "dead")
=============================================================================
