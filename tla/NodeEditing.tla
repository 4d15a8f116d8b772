---------------------------- MODULE NodeEditing ----------------------------
(***************************************************************************)
(* Adding and configuring a node in the web client                         *)
(* (ClusterNodesComponent.tsx, nodes/NodeForm.tsx): a click asks for the   *)
(* machine's hardware first and its answer opens the drawer, or changes    *)
(* the one that is open; the form proposes a hostname, a role and an       *)
(* address, and follows the nodes and the configuration while it is open.  *)
(*                                                                         *)
(* Hostnames are [prefixed, stem, n], as control-1 or test-worker-2; any   *)
(* other name is Custom.  Of an address only the last octet is kept.  The  *)
(* instance has a prefix and a virtual address; they are known once its    *)
(* configuration is read.  Disk, interface, schematic and maintenance only *)
(* travel with the form.                                                   *)
(***************************************************************************)
EXTENDS Integers, FiniteSets, SequencesExt

CONSTANTS
    Machines,     \* machines in maintenance mode that can be added
    Inventories,  \* bound: the lists of nodes a reading may bring
    Vip,          \* last octet of the cluster's virtual address
    LastOctet,    \* the greatest an address may have: 254
    FilterRoles,  \* the role of the page: control nodes, worker nodes
    TypedNames,   \* bound: the hostnames a user types
    MaxDetecting, \* bound: hardware readings on their way
    MaxNodeCalls  \* bound: requests on their way

ASSUME NodeAssumption == {Vip, LastOctet, MaxDetecting, MaxNodeCalls} \subseteq Nat

(* A list of nodes ends, and what is read of a name as its number is one.  *)
ASSUME InventoriesAssumption == \A list \in Inventories : IsFiniteSet(list) /\ \A x \in list : x.hostname.n \in Nat

Roles == {"controlplane", "worker"}
NoOctet == 0
NoForm == [mode |-> "none"]

VARIABLES
    filterRole,
    known,       \* the nodes as last read, and whether the configuration is read
    detecting,   \* hardware readings on their way: what was clicked
    drawer,      \* what the drawer is open for
    nodeForm,    \* its inputs, and what they were filled from
    nodeCalls,   \* requests on their way
    addError     \* the alert that an add has failed

nodeVars == <<filterRole, known, detecting, drawer, nodeForm, nodeCalls, addError>>

ControlPlanes(k) == {x \in k.nodes : x.role = "controlplane"}
DefaultRole(k) == IF Cardinality(ControlPlanes(k)) >= 3 THEN "worker" ELSE "controlplane"
Stem(role) == IF role = "controlplane" THEN "control" ELSE "worker"

(* One more than the highest number among the nodes of the role; without a *)
(* prefix the pattern finds the end of any name.                           *)
GeneratedHostname(role, k) ==
    LET numbers == {x.hostname.n : x \in {y \in k.nodes : /\ y.role = role /\ y.hostname.stem = Stem(role)
                                                         /\ k.config => y.hostname.prefixed}}
    IN  [prefixed |-> k.config, stem |-> Stem(role), n |-> 1 + Max(numbers \cup {0})]

(* The first octet after the virtual address that no control plane has.    *)
SuggestedOctet(k) ==
    LET used == {x.octet : x \in {y \in ControlPlanes(k) : y.octet > Vip}}
    IN  FoldLeft(LAMBDA next, octet : IF octet = next THEN next + 1 ELSE next, Vip + 1, SetToSortSeq(used, <))

(* The effects of the form that watch its role, the nodes and the          *)
(* configuration: a generated hostname is generated again, an address the  *)
(* node does not have is suggested.                                        *)
WithHostnameOfRole(f, k) ==   \* mutant
    IF f.mode = "add" /\ f.hostname.stem \in {"control", "worker"} /\ (f.hostname.prefixed => k.config)
          /\ (f.hostname.stem # Stem(f.role) \/ f.hostname.prefixed # k.config)
    THEN [f EXCEPT !.hostname = GeneratedHostname(f.role, k), !.typed = FALSE] ELSE f
WithHostname(f, k) ==
    IF f.mode = "add" /\ f.hostname.stem \in {"control", "worker"} /\ (f.hostname.prefixed => k.config)
    THEN [f EXCEPT !.hostname = GeneratedHostname(f.role, k), !.typed = FALSE] ELSE f

WithOctet(f, k) ==
    IF f.unaddressed /\ f.role = "controlplane" /\ k.config /\ SuggestedOctet(k) <= LastOctet
    THEN [f EXCEPT !.octet = SuggestedOctet(k)] ELSE f

WithRole(f, k) ==
    IF f.mode = "add" /\ f.role = "controlplane" THEN [f EXCEPT !.role = DefaultRole(k)] ELSE f

Settle(f, k) == IF f = NoForm THEN f ELSE WithOctet(WithHostname(f, k), k)

(* getInitialValues, when the form is mounted or reset.                    *)
InitialValues(d, k) ==
    IF d.mode = "configure"
    THEN [mode |-> "configure", of |-> d.node.hostname, hostname |-> d.node.hostname, role |-> d.node.role,
          octet |-> d.node.octet, typed |-> FALSE, unaddressed |-> d.node.octet = NoOctet]
    ELSE [mode |-> "add", of |-> d.machine, hostname |-> GeneratedHostname(DefaultRole(k), k),
          role |-> DefaultRole(k), octet |-> NoOctet, typed |-> FALSE, unaddressed |-> FALSE]

EditInit ==
    /\ filterRole \in FilterRoles
    /\ known = [nodes |-> {}, config |-> FALSE]
    /\ detecting = {} /\ drawer = NoForm /\ nodeForm = NoForm /\ nodeCalls = {} /\ addError = FALSE

NodesRead ==
    /\ known' \in {[known EXCEPT !.nodes = list] : list \in Inventories}
    /\ nodeForm' = IF nodeForm = NoForm THEN NoForm ELSE Settle(WithRole(nodeForm, known'), known')
    /\ UNCHANGED <<filterRole, detecting, drawer, nodeCalls, addError>>

ConfigurationRead ==
    /\ known' = [known EXCEPT !.config = TRUE]
    /\ nodeForm' = Settle(nodeForm, known')
    /\ UNCHANGED <<filterRole, detecting, drawer, nodeCalls, addError>>

(* The drawer opens, or shows something else: a form that is there is      *)
(* reset when the mode changes, or the node to configure.                  *)
ResetsOnMode(f, d) == f.mode # d.mode   \* mutant
Resets(f, d) == f.mode # d.mode \/ (d.mode = "configure" /\ f.of # d.node.hostname)

Show(d) ==
    /\ drawer' = d
    /\ nodeForm' = IF Resets(nodeForm, d) THEN Settle(InitialValues(d, known), known) ELSE nodeForm

(* Clicks on the page, which the open drawer covers.                       *)
Detect(d) ==
    /\ drawer = NoForm /\ Cardinality(detecting) < MaxDetecting
    /\ detecting' = detecting \cup {d}
    /\ UNCHANGED <<filterRole, known, drawer, nodeForm, nodeCalls, addError>>

AddNode == \E m \in Machines : Detect([mode |-> "add", machine |-> m])

OfThePage == {x \in known.nodes : x.role = filterRole}

ConfigureNode ==
    \/ \E x \in OfThePage : x.octet # NoOctet /\ Detect([mode |-> "configure", node |-> x])
    \/ \E x \in OfThePage :
          /\ drawer = NoForm /\ x.octet = NoOctet /\ Show([mode |-> "configure", node |-> x])
          /\ UNCHANGED <<filterRole, known, detecting, nodeCalls, addError>>

(* Without the hardware an add is given up, a node configured all the same. *)
Detected == \E d \in detecting :
    /\ detecting' = detecting \ {d}
    /\ \/ Show(d)
       \/ d.mode = "add" /\ UNCHANGED <<drawer, nodeForm>>
    /\ UNCHANGED <<filterRole, known, nodeCalls, addError>>

ChooseRole == \E r \in Roles :
    /\ nodeForm # NoForm /\ r # nodeForm.role
    /\ nodeForm' = Settle([nodeForm EXCEPT !.role = r], known)
    /\ UNCHANGED <<filterRole, known, detecting, drawer, nodeCalls, addError>>

TypeHostname == \E h \in TypedNames :
    /\ nodeForm # NoForm /\ nodeForm.mode = "add"
    /\ nodeForm' = [nodeForm EXCEPT !.hostname = h, !.typed = TRUE]
    /\ UNCHANGED <<filterRole, known, detecting, drawer, nodeCalls, addError>>

Shut == drawer' = NoForm /\ nodeForm' = NoForm

CloseDrawer ==
    /\ drawer # NoForm /\ Shut
    /\ UNCHANGED <<filterRole, known, detecting, nodeCalls, addError>>

(* `mutate' does not wait: requests made one after the other are on their  *)
(* way together.  A hook notices the end of its latest request only.       *)
Send(requests) ==
    /\ Cardinality(nodeCalls) + Cardinality(requests) <= MaxNodeCalls
    /\ nodeCalls' = {[c EXCEPT !.latest = @ /\ \A r \in requests : r.op # c.op] : c \in nodeCalls} \cup requests

Asking(op, node, of) == [op |-> op, node |-> node, of |-> of, latest |-> TRUE]

AddSubmit ==
    /\ drawer # NoForm /\ drawer.mode = "add"
    /\ Send({Asking("add", nodeForm.hostname, nodeForm.of), Asking("apply", nodeForm.hostname, nodeForm.hostname)})
    /\ Shut /\ addError' = FALSE
    /\ UNCHANGED <<filterRole, known, detecting>>

(* Apply is the only button of the form in this mode; the Enter key saves. *)
ConfigureSubmit ==
    /\ drawer # NoForm /\ drawer.mode = "configure"
    /\ \E apply \in {{}, {Asking("apply", drawer.node.hostname, drawer.node.hostname)}} :
          Send({Asking("update", drawer.node.hostname, nodeForm.of)} \cup apply)
    /\ Shut
    /\ UNCHANGED <<filterRole, known, detecting, addError>>

DeleteNode ==
    /\ drawer # NoForm /\ drawer.mode = "configure"
    /\ \E confirmed \in BOOLEAN :
          IF confirmed THEN Send({Asking("delete", drawer.node.hostname, drawer.node.hostname)})
          ELSE UNCHANGED nodeCalls
    /\ Shut
    /\ UNCHANGED <<filterRole, known, detecting, addError>>

ApplyFromCard == \E x \in OfThePage :
    /\ drawer = NoForm /\ ~\E c \in nodeCalls : c.op = "apply" /\ c.latest
    /\ Send({Asking("apply", x.hostname, x.hostname)})
    /\ UNCHANGED <<filterRole, known, detecting, drawer, nodeForm, addError>>

Answer == \E c \in nodeCalls, ok \in BOOLEAN :
    /\ nodeCalls' = nodeCalls \ {c}
    /\ addError' = IF c.op = "add" /\ c.latest THEN ~ok ELSE addError
    /\ UNCHANGED <<filterRole, known, detecting, drawer, nodeForm>>

NodeNext ==
    \/ NodesRead \/ ConfigurationRead \/ AddNode \/ ConfigureNode \/ Detected
    \/ ChooseRole \/ TypeHostname \/ CloseDrawer
    \/ AddSubmit \/ ConfigureSubmit \/ DeleteNode \/ ApplyFromCard \/ Answer

EditSpec == EditInit /\ [][NodeNext]_nodeVars

-----------------------------------------------------------------------------
(* What an update or an apply names is what its values were read from,     *)
(* whatever hardware answers late and replaces the node in the drawer: no  *)
(* node is given the role and the address of another.                      *)
UpdateIsOfItsNode == \A c \in nodeCalls : c.op = "update" => c.of = c.node

(* The hostname the form proposes is no node's of that role, however the   *)
(* list, the prefix and the role change under it.                          *)
ProposedNameIsFree ==
    (nodeForm # NoForm /\ nodeForm.mode = "add" /\ ~nodeForm.typed) =>
        \A x \in known.nodes : x.role = nodeForm.role => x.hostname # nodeForm.hostname

(* handleAddSubmit's comment: "Add node configuration (if this fails,      *)
(* error is shown and drawer stays open)".                                 *)
FailedAddKeepsDrawer == [][~addError /\ addError' => drawer # NoForm]_nodeVars
=============================================================================
