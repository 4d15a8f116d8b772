----------------------------- MODULE NodesProofs -----------------------------
(***************************************************************************)
(* Proofs about Nodes, for any number of requests and addresses: types,    *)
(* that entries are whole and true of their machines, and that "applied"   *)
(* is never written before a machine accepted a configuration.  The word   *)
(* travels: from config.yaml into what a request read, from there into the *)
(* yq calls it has still to make, and from there back.  The inductive      *)
(* invariant types all three by the values that "applied" may have so far. *)
(*                                                                         *)
(* Then what becomes of an entry while requests are under way: which of    *)
(* its fields are on their way, and what it will say of the machine.       *)
(***************************************************************************)
EXTENDS Nodes, SequenceTheorems, TLAPS

-----------------------------------------------------------------------------
AppliedValues(acc) == IF acc THEN BOOLEAN ELSE {FALSE}

EntryOf(acc) ==
    [role : BOOLEAN, disk : BOOLEAN,
     targetIp : IPs \cup {NoIP}, currentIp : IPs \cup {NoIP},
     maintenance : BOOLEAN, configured : BOOLEAN, applied : AppliedValues(acc)]

WriteOf(acc) ==
    {Removal} \cup ({"role", "disk", "maintenance", "configured"} \X BOOLEAN)
              \cup ({"applied"} \X AppliedValues(acc))
              \cup ({"targetIp", "currentIp"} \X (IPs \cup {NoIP}))

HasRead == {"read", "reset", "generate", "configured"}

Types ==
    /\ kind \in [Requests -> Kinds]
    /\ machine \in Machine
    /\ pc \in [Requests -> {"new", "asked", "read", "reset", "generate", "configured",
                            "write", "again", "done", "failed", "dead"}]
    /\ answer \in [Requests -> {"none", "ok", "error"}]
    /\ crashes \in 0..MaxCrashes
    /\ accepted \in BOOLEAN /\ pulled \in BOOLEAN /\ blurred \in BOOLEAN

Carried ==
    /\ entry \in EntryOf(accepted) \cup {NoEntry}
    /\ node \in [Requests -> EntryOf(accepted) \cup {NoNode}]
    /\ todo \in [Requests -> Seq(WriteOf(accepted))]
    /\ \A r \in Requests : pc[r] \in HasRead => node[r] # NoNode

IInv == Types /\ Carried

-----------------------------------------------------------------------------
(* What was said while nothing was accepted may be said later as well.     *)
LEMMA MayBeSaidLater ==
    ASSUME NEW a \in BOOLEAN, NEW b \in BOOLEAN, a => b
    PROVE  /\ AppliedValues(a) \subseteq AppliedValues(b)
           /\ EntryOf(a) \subseteq EntryOf(b)
           /\ WriteOf(a) \subseteq WriteOf(b)
           /\ Seq(WriteOf(a)) \subseteq Seq(WriteOf(b))
<1>1. AppliedValues(a) \subseteq AppliedValues(b)
  BY DEF AppliedValues
<1>2. EntryOf(a) \subseteq EntryOf(b)
  BY <1>1 DEF EntryOf
<1>3. WriteOf(a) \subseteq WriteOf(b)
  BY <1>1 DEF WriteOf
<1>4. Seq(WriteOf(a)) \subseteq Seq(WriteOf(b))
  BY <1>3, SeqMonotonic
<1>5. QED
  BY <1>1, <1>2, <1>3, <1>4

LEMMA EntryOfType ==
    ASSUME NEW a \in BOOLEAN
    PROVE  /\ EntryOf(a) \subseteq Entry
           /\ NoEntry \notin EntryOf(a) /\ NoNode \notin EntryOf(a)
<1>1. EntryOf(a) \subseteq Entry
  BY DEF EntryOf, Entry, AppliedValues
<1>2. QED
  BY <1>1, NodesAssumption

LEMMA BlankType == ASSUME NEW a \in BOOLEAN PROVE Blank \in EntryOf(a)
BY DEF Blank, EntryOf, AppliedValues

LEMMA MachineType ==
    ASSUME NEW ip \in IPs, NEW on \in BOOLEAN
    PROVE  [ip |-> ip, maintenance |-> on] \in Machine
BY DEF Machine

(* updateNodeStatus and Reset write what the node as they read it says.    *)
LEMMA StatusWritesType ==
    ASSUME NEW a \in BOOLEAN, NEW n \in EntryOf(a)
    PROVE  StatusWrites(n) \in Seq(WriteOf(a))
<1>1. <<"maintenance", n.maintenance>> \in WriteOf(a)
  BY DEF EntryOf, WriteOf
<1>2. <<"configured", n.configured>> \in WriteOf(a)
  BY DEF EntryOf, WriteOf
<1>3. <<"applied", n.applied>> \in WriteOf(a)
  BY DEF EntryOf, WriteOf
<1>4. <<"currentIp", n.currentIp>> \in WriteOf(a)
  BY DEF EntryOf, WriteOf
<1> DEFINE W == WriteOf(a)
           address == IF n.currentIp = NoIP THEN <<>> ELSE <<<<"currentIp", n.currentIp>>>>
<1>5. <<<<"maintenance", n.maintenance>>>> \in Seq(W)
  BY <1>1
<1>6. address \in Seq(W)
  BY <1>4
<1>7. <<<<"configured", n.configured>>, <<"applied", n.applied>>>> \in Seq(W)
  BY <1>2, <1>3
<1> HIDE DEF W, address
<1>8. (<<<<"maintenance", n.maintenance>>>> \o address)
        \o <<<<"configured", n.configured>>, <<"applied", n.applied>>>> \in Seq(W)
  BY <1>5, <1>6, <1>7, ConcatProperties
<1>9. QED
  BY <1>8 DEF W, address, StatusWrites

LEMMA ResetWritesType ==
    ASSUME NEW a \in BOOLEAN, NEW n \in EntryOf(a)
    PROVE  ResetWrites(n) \in Seq(WriteOf(a))
<1> DEFINE m == [n EXCEPT !.maintenance = TRUE, !.configured = FALSE, !.applied = FALSE]
<1>1. m \in EntryOf(a)
  BY DEF EntryOf, AppliedValues
<1> HIDE DEF m
<1>2. StatusWrites(m) \in Seq(WriteOf(a))
  BY <1>1, StatusWritesType
<1>3. <<Removal>> \in Seq(WriteOf(a))
  BY DEF WriteOf
<1>4. StatusWrites(m) \o <<Removal>> \in Seq(WriteOf(a))
  BY <1>2, <1>3, ConcatProperties
<1>5. QED
  BY <1>4 DEF m, ResetWrites

-----------------------------------------------------------------------------
(* One lemma per action.                                                   *)
LEMMA InitIInv == Init => IInv
<1> SUFFICES ASSUME Init PROVE IInv
  OBVIOUS
<1>1. PICK ip \in IPs :
         \/ /\ entry = NoEntry /\ accepted = FALSE
            /\ machine = [ip |-> ip, maintenance |-> TRUE]
         \/ /\ entry = Production(ip) /\ accepted = TRUE
            /\ machine = [ip |-> ip, maintenance |-> FALSE]
  BY DEF Init
<1>2. Types
  <2>1. machine \in Machine
    <3>1. TRUE \in BOOLEAN /\ FALSE \in BOOLEAN
      OBVIOUS
    <3>2. QED
      BY <1>1, <3>1, MachineType
  <2>2. accepted \in BOOLEAN
    BY <1>1
  <2>3. 0 \in 0..MaxCrashes
    BY NodesAssumption
  <2>4. QED
    BY <2>1, <2>2, <2>3 DEF Init, Types
<1>4. entry \in EntryOf(accepted) \cup {NoEntry}
  <2>1. Production(ip) \in EntryOf(TRUE)
    BY DEF Production, EntryOf, AppliedValues
  <2>2. QED
    BY <1>1, <2>1
<1>3. /\ node \in [Requests -> EntryOf(accepted) \cup {NoNode}]
      /\ todo \in [Requests -> Seq(WriteOf(accepted))]
      /\ \A r \in Requests : pc[r] \in HasRead => node[r] # NoNode
  BY DEF Init, HasRead
<1>5. QED
  BY <1>2, <1>3, <1>4 DEF IInv, Carried

(* Steps that carry nothing: what is read and what is to be written stays. *)
LEMMA CarriesNothing ==
    ASSUME IInv, UNCHANGED <<entry, node, todo, accepted>>,
           \A r \in Requests : pc'[r] \in HasRead => pc[r] \in HasRead
    PROVE  Carried'
BY DEF IInv, Carried

LEMMA RefuseIInv == ASSUME IInv, NEW r \in Requests, Refuse(r) PROVE IInv'
<1>1. Types'
  BY DEF IInv, Types, Refuse
<1>2. Carried'
  <2>1. UNCHANGED <<entry, node, todo, accepted>>
    BY DEF Refuse
  <2>2. \A q \in Requests : pc'[q] \in HasRead => pc[q] \in HasRead
    BY DEF Refuse, IInv, Types, HasRead
  <2>3. QED
    BY <2>1, <2>2, CarriesNothing
<1>3. QED
  BY <1>1, <1>2 DEF IInv

LEMMA DeleteIInv == ASSUME IInv, NEW r \in Requests, Delete(r) PROVE IInv'
<1>1. Types'
  BY DEF IInv, Types, Delete, Takes
<1>2. Carried'
  <2>1. UNCHANGED <<entry, node, todo, accepted>>
    BY DEF Delete
  <2>2. \A q \in Requests : pc'[q] \in HasRead => pc[q] \in HasRead
    BY DEF Delete, IInv, Types, HasRead
  <2>3. QED
    BY <2>1, <2>2, CarriesNothing
<1>3. QED
  BY <1>1, <1>2 DEF IInv

LEMMA TimeoutIInv == ASSUME IInv, NEW r \in Requests, Timeout(r) PROVE IInv'
<1>1. Types'
  BY DEF IInv, Types, Timeout
<1>2. Carried'
  BY CarriesNothing DEF Timeout
<1>3. QED
  BY <1>1, <1>2 DEF IInv

(* Steps that decide what to write next.                                   *)
LEMMA WritesNext ==
    ASSUME IInv, NEW r \in Requests, NEW s \in Seq(WriteOf(accepted)),
           todo' = [todo EXCEPT ![r] = s],
           UNCHANGED <<entry, accepted>>,
           node' = node \/ (node' = [node EXCEPT ![r] = NoNode] /\ pc'[r] \notin HasRead),
           \A q \in Requests : pc'[q] \in HasRead => pc[q] \in HasRead
    PROVE  Carried'
BY DEF IInv, Carried

LEMMA AddIInv == ASSUME IInv, NEW r \in Requests, Add(r) PROVE IInv'
<1>1. Types'
  <2>1. blurred' \in BOOLEAN
    BY DEF Add
  <2>2. QED
    BY <2>1 DEF IInv, Types, Add
<1>2. PICK target \in IPs \cup {NoIP}, current \in IPs \cup {NoIP}, maintenance \in BOOLEAN :
        todo' = [todo EXCEPT ![r] =
              <<<<"role", TRUE>>, <<"disk", TRUE>>>>
              \o (IF target = NoIP THEN <<>> ELSE <<<<"targetIp", target>>>>)
              \o (IF current = NoIP THEN <<>> ELSE <<<<"currentIp", current>>>>)
              \o (IF maintenance THEN <<<<"maintenance", TRUE>>>> ELSE <<>>)]
  BY DEF Add
<1> DEFINE W == WriteOf(accepted)
           s1 == <<<<"role", TRUE>>, <<"disk", TRUE>>>>
           s2 == IF target = NoIP THEN <<>> ELSE <<<<"targetIp", target>>>>
           s3 == IF current = NoIP THEN <<>> ELSE <<<<"currentIp", current>>>>
           s4 == IF maintenance THEN <<<<"maintenance", TRUE>>>> ELSE <<>>
<1>3. s1 \in Seq(W) /\ s2 \in Seq(W) /\ s3 \in Seq(W) /\ s4 \in Seq(W)
  <2>1. <<"role", TRUE>> \in W /\ <<"disk", TRUE>> \in W
    BY DEF WriteOf
  <2>2. <<"targetIp", target>> \in W /\ <<"currentIp", current>> \in W
    BY DEF WriteOf
  <2>3. <<"maintenance", TRUE>> \in W
    BY DEF WriteOf
  <2> HIDE DEF W
  <2>4. QED
    BY <2>1, <2>2, <2>3
<1>4. todo' = [todo EXCEPT ![r] = s1 \o s2 \o s3 \o s4]
  BY <1>2
<1> HIDE DEF W, s1, s2, s3, s4
<1>5. s1 \o s2 \o s3 \o s4 \in Seq(W)
  BY <1>3, ConcatProperties
<1>6. UNCHANGED <<entry, node, accepted>>
  BY DEF Add
<1>7. \A q \in Requests : pc'[q] \in HasRead => pc[q] \in HasRead
  BY DEF Add, IInv, Types, HasRead
<1>8. Carried'
  BY <1>4, <1>5, <1>6, <1>7, WritesNext DEF W
<1>9. QED
  BY <1>1, <1>8 DEF IInv

LEMMA UpdateIInv == ASSUME IInv, NEW r \in Requests, Update(r) PROVE IInv'
<1>1. Types'
  <2>1. blurred' \in BOOLEAN
    BY DEF Update
  <2>2. QED
    BY <2>1 DEF IInv, Types, Update
<1>2. PICK s \in Seq(WriteOf(accepted)) : todo' = [todo EXCEPT ![r] = s]
  <2>1. CASE \E ip \in IPs : todo' = [todo EXCEPT ![r] = <<<<"targetIp", ip>>>>]
    <3>1. PICK ip \in IPs : todo' = [todo EXCEPT ![r] = <<<<"targetIp", ip>>>>]
      BY <2>1
    <3>2. <<"targetIp", ip>> \in WriteOf(accepted)
      BY DEF WriteOf
    <3>3. <<<<"targetIp", ip>>>> \in Seq(WriteOf(accepted))
      BY <3>2
    <3>4. QED
      BY <3>1, <3>3
  <2>2. CASE \E ip \in IPs : todo' = [todo EXCEPT ![r] =
                          <<<<"currentIp", ip>>, <<"maintenance", TRUE>>>>]
    <3>1. PICK ip \in IPs : todo' = [todo EXCEPT ![r] =
                          <<<<"currentIp", ip>>, <<"maintenance", TRUE>>>>]
      BY <2>2
    <3>2. <<"currentIp", ip>> \in WriteOf(accepted)
             /\ <<"maintenance", TRUE>> \in WriteOf(accepted)
      BY DEF WriteOf
    <3>3. <<<<"currentIp", ip>>, <<"maintenance", TRUE>>>> \in Seq(WriteOf(accepted))
      BY <3>2
    <3>4. QED
      BY <3>1, <3>3
  <2>3. CASE \E on \in BOOLEAN : todo' = [todo EXCEPT ![r] = <<<<"maintenance", on>>>>]
    <3>1. PICK on \in BOOLEAN : todo' = [todo EXCEPT ![r] = <<<<"maintenance", on>>>>]
      BY <2>3
    <3>2. <<"maintenance", on>> \in WriteOf(accepted)
      BY DEF WriteOf
    <3>3. <<<<"maintenance", on>>>> \in Seq(WriteOf(accepted))
      BY <3>2
    <3>4. QED
      BY <3>1, <3>3
  <2>4. QED
    BY <2>1, <2>2, <2>3 DEF Update
<1>3. UNCHANGED <<entry, node, accepted>>
  BY DEF Update
<1>4. \A q \in Requests : pc'[q] \in HasRead => pc[q] \in HasRead
  BY DEF Update, IInv, Types, HasRead
<1>5. Carried'
  BY <1>2, <1>3, <1>4, WritesNext
<1>6. QED
  BY <1>1, <1>5 DEF IInv

LEMMA ForceDeleteIInv == ASSUME IInv, NEW r \in Requests, ForceDelete(r) PROVE IInv'
<1>1. Types'
  <2>1. blurred' \in BOOLEAN
    BY DEF ForceDelete, Takes
  <2>2. QED
    BY <2>1 DEF IInv, Types, ForceDelete
<1>2. <<Removal>> \in Seq(WriteOf(accepted))
  BY DEF WriteOf
<1>3. UNCHANGED <<entry, node, accepted>>
  BY DEF ForceDelete
<1>4. \A q \in Requests : pc'[q] \in HasRead => pc[q] \in HasRead
  BY DEF ForceDelete, IInv, Types, HasRead
<1>5. Carried'
  BY <1>2, <1>3, <1>4, WritesNext DEF ForceDelete
<1>6. QED
  BY <1>1, <1>5 DEF IInv

LEMMA FinishIInv == ASSUME IInv, NEW r \in Requests, Finish(r) PROVE IInv'
<1>1. Types'
  BY DEF IInv, Types, Finish
<1>2. UNCHANGED <<entry, node, accepted>>
  BY DEF Finish
<1>3. \A q \in Requests : pc'[q] \in HasRead => pc[q] \in HasRead
  BY DEF Finish, IInv, Types, HasRead
<1>4. <<Removal>> \in Seq(WriteOf(accepted))
  BY DEF WriteOf
<1>5. todo' = [todo EXCEPT ![r] = <<Removal>>] \/ UNCHANGED todo
  BY DEF Finish
<1>6. Carried'
  BY <1>2, <1>3, <1>4, <1>5, WritesNext, CarriesNothing
<1>7. QED
  BY <1>1, <1>6 DEF IInv

LEMMA ResetMachineIInv == ASSUME IInv, NEW r \in Requests, ResetMachine(r) PROVE IInv'
<1>1. Types'
  <2>1. machine \in Machine
    BY DEF IInv, Types
  <2>2. machine' = machine \/ \E to \in IPs : machine' = [ip |-> to, maintenance |-> TRUE]
    BY DEF ResetMachine
  <2>3. machine' \in Machine
    <3>1. TRUE \in BOOLEAN
      OBVIOUS
    <3>2. QED
      BY <2>1, <2>2, <3>1, MachineType
  <2>4. QED
    BY <2>3 DEF IInv, Types, ResetMachine
<1>2. node[r] \in EntryOf(accepted)
  BY DEF IInv, Carried, ResetMachine, HasRead
<1>3. ResetWrites(node[r]) \in Seq(WriteOf(accepted))
  BY <1>2, ResetWritesType DEF IInv, Types
<1>4. UNCHANGED <<entry, accepted>> /\ node' = [node EXCEPT ![r] = NoNode] /\ pc'[r] \notin HasRead
  BY DEF ResetMachine, IInv, Types, HasRead
<1>5. \A q \in Requests : pc'[q] \in HasRead => pc[q] \in HasRead
  BY DEF ResetMachine, IInv, Types, HasRead
<1>6. todo' = [todo EXCEPT ![r] = ResetWrites(node[r])]
  BY DEF ResetMachine
<1>7. Carried'
  BY <1>3, <1>4, <1>5, <1>6, WritesNext
<1>8. QED
  BY <1>1, <1>7 DEF IInv

LEMMA FailIInv == ASSUME IInv, NEW r \in Requests, Fail(r) PROVE IInv'
<1>1. Types'
  <2>1. blurred' \in BOOLEAN
    BY DEF Fail
  <2>2. QED
    BY <2>1 DEF IInv, Types, Fail
<1>2. <<>> \in Seq(WriteOf(accepted))
  BY EmptySeq
<1>3. UNCHANGED <<entry, accepted>> /\ node' = [node EXCEPT ![r] = NoNode] /\ pc'[r] \notin HasRead
  BY DEF Fail, IInv, Types, HasRead
<1>4. \A q \in Requests : pc'[q] \in HasRead => pc[q] \in HasRead
  BY DEF Fail, IInv, Types, HasRead
<1>5. Carried'
  BY <1>2, <1>3, <1>4, WritesNext DEF Fail
<1>6. QED
  BY <1>1, <1>5 DEF IInv

(* Steps that read the entry, or set a flag of what was read.              *)
LEMMA ReadsNode ==
    ASSUME IInv, NEW r \in Requests, NEW n \in EntryOf(accepted),
           node' = [node EXCEPT ![r] = n],
           UNCHANGED <<entry, accepted>>,
           todo' \in [Requests -> Seq(WriteOf(accepted))],
           \A q \in Requests \ {r} : pc'[q] = pc[q]
    PROVE  Carried'
<1>1. n # NoNode
  BY EntryOfType DEF IInv, Types
<1>2. node' \in [Requests -> EntryOf(accepted) \cup {NoNode}]
  BY DEF IInv, Carried
<1>3. \A q \in Requests : pc'[q] \in HasRead => node'[q] # NoNode
  BY <1>1 DEF IInv, Carried
<1>4. QED
  BY <1>2, <1>3 DEF IInv, Carried

LEMMA ResetIInv == ASSUME IInv, NEW r \in Requests, Reset(r) PROVE IInv'
<1>1. Types'
  <2>1. blurred' \in BOOLEAN
    BY DEF Reset, Takes, IInv, Types
  <2>2. QED
    BY <2>1 DEF IInv, Types, Reset
<1>2. entry \in EntryOf(accepted)
  BY DEF IInv, Carried, Reset
<1>3. \A q \in Requests \ {r} : pc'[q] = pc[q]
  BY DEF Reset, IInv, Types
<1>4. Carried'
  BY <1>2, <1>3, ReadsNode DEF Reset, IInv, Carried
<1>5. QED
  BY <1>1, <1>4 DEF IInv

LEMMA ApplyIInv == ASSUME IInv, NEW r \in Requests, Apply(r) PROVE IInv'
<1>1. Types'
  <2>1. blurred' \in BOOLEAN
    BY DEF Apply, Takes
  <2>2. QED
    BY <2>1 DEF IInv, Types, Apply
<1>2. entry \in EntryOf(accepted)
  BY DEF IInv, Carried, Apply
<1>3. \A q \in Requests \ {r} : pc'[q] = pc[q]
  BY DEF Apply, IInv, Types
<1>4. Carried'
  BY <1>2, <1>3, ReadsNode DEF Apply, IInv, Carried
<1>5. QED
  BY <1>1, <1>4 DEF IInv

(* A torn reading is made of two entries of the same type, and so is one   *)
(* in which some fields are blank.                                         *)
LEMMA TornType ==
    ASSUME NEW a \in BOOLEAN, NEW was \in EntryOf(a), NEW now \in EntryOf(a)
    PROVE  Torn(was, now) \subseteq EntryOf(a)
BY DEF Torn, EntryOf

LEMMA MisreadType ==
    ASSUME NEW a \in BOOLEAN, NEW n \in EntryOf(a), NEW lost
    PROVE  Misread(n, lost) \in EntryOf(a)
BY DEF Misread, EntryOf, AppliedValues

LEMMA ReadIInv == ASSUME IInv, NEW r \in Requests, Read(r) PROVE IInv'
<1>1. Types'
  BY DEF IInv, Types, Read
<1> DEFINE now == IF entry = NoEntry THEN Blank ELSE entry
<1>2. node[r] \in EntryOf(accepted)
  BY DEF IInv, Carried, Read, HasRead
<1>3. now \in EntryOf(accepted)
  BY BlankType DEF IInv, Types, Carried
<1>4. PICK read \in Torn(node[r], now), lost \in SUBSET Fields :
        node' = [node EXCEPT ![r] = Misread(read, lost)]
  BY DEF Read
<1> DEFINE n == Misread(read, lost)
<1> HIDE DEF now
<1>5. n \in EntryOf(accepted)
  BY <1>2, <1>3, <1>4, TornType, MisreadType DEF IInv, Types
<1> HIDE DEF n
<1>6. \A q \in Requests \ {r} : pc'[q] = pc[q]
  BY DEF Read, IInv, Types
<1>7. Carried'
  BY <1>4, <1>5, <1>6, ReadsNode DEF Read, IInv, Carried, n
<1>8. QED
  BY <1>1, <1>7 DEF IInv

LEMMA GenerateIInv == ASSUME IInv, NEW r \in Requests, Generate(r) PROVE IInv'
<1>1. Types'
  BY DEF IInv, Types, Generate
<1> DEFINE n == [node[r] EXCEPT !.configured = TRUE]
<1>2. node[r] \in EntryOf(accepted)
  BY DEF IInv, Carried, Generate, HasRead
<1>3. n \in EntryOf(accepted)
  BY <1>2 DEF EntryOf
<1>4. node' = [node EXCEPT ![r] = n]
  BY DEF Generate
<1>5. node'[r] = n
  BY <1>4 DEF IInv, Carried
<1>6. StatusWrites(n) \in Seq(WriteOf(accepted))
  BY <1>3, StatusWritesType DEF IInv, Types
<1>7. todo' = [todo EXCEPT ![r] = StatusWrites(n)]
  BY <1>5 DEF Generate
<1> HIDE DEF n
<1>8. todo' \in [Requests -> Seq(WriteOf(accepted))]
  BY <1>6, <1>7 DEF IInv, Carried
<1>9. \A q \in Requests \ {r} : pc'[q] = pc[q]
  BY DEF Generate, IInv, Types
<1>10. Carried'
  BY <1>3, <1>4, <1>8, <1>9, ReadsNode DEF Generate
<1>11. QED
  BY <1>1, <1>10 DEF IInv

(* Here the word appears: the machine has just accepted.                   *)
LEMMA DeployIInv == ASSUME IInv, NEW r \in Requests, Deploy(r) PROVE IInv'
<1> DEFINE n == Deployed(node[r])
           ip == IF node[r].targetIp = NoIP THEN machine.ip ELSE node[r].targetIp
<1>1. node[r] \in EntryOf(accepted)
  BY DEF IInv, Carried, Deploy, HasRead
<1>2. Types'
  <2>1. ip \in IPs
    BY <1>1 DEF IInv, Types, Machine, EntryOf
  <2>2. machine' = [ip |-> ip, maintenance |-> FALSE]
    BY DEF Deploy
  <2>3. FALSE \in BOOLEAN
    OBVIOUS
  <2> HIDE DEF ip
  <2>4. machine' \in Machine
    BY <2>1, <2>2, <2>3, MachineType
  <2>5. QED
    BY <2>4 DEF IInv, Types, Deploy
<1>3. /\ EntryOf(accepted) \subseteq EntryOf(TRUE)
      /\ Seq(WriteOf(accepted)) \subseteq Seq(WriteOf(TRUE))
  BY MayBeSaidLater DEF IInv, Types
<1>4. n \in EntryOf(TRUE)
  BY <1>1 DEF EntryOf, Deployed, AppliedValues
<1>5. node' = [node EXCEPT ![r] = NoNode]
  BY DEF Deploy
<1>7. StatusWrites(n) \in Seq(WriteOf(TRUE))
  BY <1>4, StatusWritesType
<1>8. todo' = [todo EXCEPT ![r] = StatusWrites(n)]
  BY DEF Deploy
<1> HIDE DEF n
<1>9. pc'[r] \notin HasRead
  BY DEF Deploy, IInv, Types, HasRead
<1>10. accepted' = TRUE /\ UNCHANGED entry
  BY DEF Deploy
<1>11. entry' \in EntryOf(TRUE) \cup {NoEntry}
  BY <1>3, <1>10 DEF IInv, Carried
<1>12. node' \in [Requests -> EntryOf(TRUE) \cup {NoNode}]
  BY <1>3, <1>5 DEF IInv, Carried
<1>13. todo' \in [Requests -> Seq(WriteOf(TRUE))]
  BY <1>3, <1>7, <1>8 DEF IInv, Carried
<1>14. \A q \in Requests : pc'[q] \in HasRead => node'[q] # NoNode
  BY <1>5, <1>9 DEF IInv, Carried, Types, Deploy
<1>15. Carried'
  BY <1>10, <1>11, <1>12, <1>13, <1>14 DEF Carried
<1>16. QED
  BY <1>2, <1>15 DEF IInv

(* A field is set to a value it may have.                                  *)
LEMMA FieldIsSet ==
    ASSUME NEW a \in BOOLEAN, NEW e \in EntryOf(a), NEW w \in WriteOf(a), w # Removal
    PROVE  [e EXCEPT ![w[1]] = w[2]] \in EntryOf(a)
<1>1. CASE w \in {"role", "disk", "maintenance", "configured"} \X BOOLEAN
  <2>1. PICK f \in {"role", "disk", "maintenance", "configured"}, v \in BOOLEAN : w = <<f, v>>
    BY <1>1
  <2>2. w[1] = f /\ w[2] = v
    BY <2>1
  <2>3. CASE f = "role"
    BY <2>2, <2>3 DEF EntryOf
  <2>4. CASE f = "disk"
    BY <2>2, <2>4 DEF EntryOf
  <2>5. CASE f = "maintenance"
    BY <2>2, <2>5 DEF EntryOf
  <2>6. CASE f = "configured"
    BY <2>2, <2>6 DEF EntryOf
  <2>7. QED
    BY <2>3, <2>4, <2>5, <2>6
<1>2. CASE w \in {"applied"} \X AppliedValues(a)
  <2>1. PICK v \in AppliedValues(a) : w = <<"applied", v>>
    BY <1>2
  <2>2. w[1] = "applied" /\ w[2] = v
    BY <2>1
  <2>3. QED
    BY <2>2 DEF EntryOf
<1>3. CASE w \in {"targetIp", "currentIp"} \X (IPs \cup {NoIP})
  <2>1. PICK f \in {"targetIp", "currentIp"}, v \in IPs \cup {NoIP} : w = <<f, v>>
    BY <1>3
  <2>2. w[1] = f /\ w[2] = v
    BY <2>1
  <2>3. CASE f = "targetIp"
    BY <2>2, <2>3 DEF EntryOf
  <2>4. CASE f = "currentIp"
    BY <2>2, <2>4 DEF EntryOf
  <2>5. QED
    BY <2>3, <2>4
<1>4. QED
  BY <1>1, <1>2, <1>3 DEF WriteOf

LEMMA WriteIInv == ASSUME IInv, NEW r \in Requests, Write(r) PROVE IInv'
<1> DEFINE W == WriteOf(accepted)
           w == Head(todo[r])
           e == IF entry = NoEntry THEN Blank ELSE entry
<1>1. Types'
  <2>1. pulled' \in BOOLEAN
    BY DEF Write, IInv, Types
  <2>2. QED
    BY <2>1 DEF IInv, Types, Write
<1>2. todo[r] \in Seq(W) /\ todo[r] # <<>>
  BY DEF IInv, Carried, Write
<1> HIDE DEF W
<1>3. w \in W /\ Tail(todo[r]) \in Seq(W)
  BY <1>2
<1>4. todo' = [todo EXCEPT ![r] = Tail(todo[r])]
  BY DEF Write
<1>5. todo' \in [Requests -> Seq(W)]
  BY <1>3, <1>4 DEF IInv, Carried, W
<1>6. entry' \in EntryOf(accepted) \cup {NoEntry}
  <2>1. CASE w = Removal
    BY <2>1 DEF Write
  <2>2. CASE w # Removal
    <3>1. e \in EntryOf(accepted)
      BY BlankType DEF IInv, Types, Carried
    <3>2. entry' = [e EXCEPT ![w[1]] = w[2]]
      BY <2>2 DEF Write
    <3> HIDE DEF e, w
    <3>3. QED
      BY <1>3, <2>2, <3>1, <3>2, FieldIsSet DEF IInv, Types, W
  <2>3. QED
    BY <2>1, <2>2
<1>7. UNCHANGED <<node, pc, accepted>>
  BY DEF Write
<1>8. Carried'
  BY <1>5, <1>6, <1>7 DEF IInv, Carried, W
<1>9. QED
  BY <1>1, <1>8 DEF IInv

LEMMA CrashIInv == ASSUME IInv, Crash PROVE IInv'
<1>1. Types'
  <2>1. pc' \in [Requests -> {"new", "asked", "read", "reset", "generate", "configured",
                              "write", "again", "done", "failed", "dead"}]
    BY DEF Crash, IInv, Types
  <2>2. crashes' \in 0..MaxCrashes
    BY NodesAssumption DEF Crash, IInv, Types
  <2>3. blurred' \in BOOLEAN
    BY DEF Crash
  <2>4. QED
    BY <2>1, <2>2, <2>3 DEF IInv, Types, Crash
<1>2. todo' \in [Requests -> Seq(WriteOf(accepted))]
  BY DEF Crash
<1>3. \A r \in Requests : pc'[r] \notin HasRead
  BY DEF Crash, InHand, HasRead, IInv, Types
<1>4. UNCHANGED <<entry, accepted>> /\ node' = [r \in Requests |-> NoNode]
  BY DEF Crash
<1>5. Carried'
  BY <1>2, <1>3, <1>4 DEF IInv, Carried
<1>6. QED
  BY <1>1, <1>5 DEF IInv

LEMMA NextIInv == IInv /\ [Next]_vars => IInv'
<1> SUFFICES ASSUME IInv, [Next]_vars PROVE IInv'
  OBVIOUS
<1>1. ASSUME NEW r \in Requests,
             \/ Refuse(r) \/ Add(r) \/ Update(r) \/ ForceDelete(r) \/ Delete(r)
             \/ Reset(r) \/ Apply(r) \/ Read(r) \/ Generate(r) \/ Deploy(r)
             \/ ResetMachine(r) \/ Write(r) \/ Finish(r) \/ Timeout(r) \/ Fail(r)
      PROVE  IInv'
  BY <1>1, RefuseIInv, AddIInv, UpdateIInv, ForceDeleteIInv, DeleteIInv, ResetIInv,
     ApplyIInv, ReadIInv, GenerateIInv, DeployIInv, ResetMachineIInv, WriteIInv,
     FinishIInv, TimeoutIInv, FailIInv
<1>2. CASE Crash
  BY <1>2, CrashIInv
<1>3. CASE UNCHANGED vars
  BY <1>3 DEF vars, IInv, Types, Carried
<1>4. QED
  BY <1>1, <1>2, <1>3 DEF Next

LEMMA IInvHolds == Spec => []IInv
<1>1. QED
  BY InitIInv, NextIInv, PTL DEF Spec

-----------------------------------------------------------------------------
(* Types are kept, whatever requests run into each other.                  *)
THEOREM NodesTypeCorrect == Spec => []TypeOK
<1>1. ASSUME IInv, NEW r \in Requests, NEW i \in 1..Len(todo[r])
      PROVE  todo[r][i] = Removal \/ todo[r][i][1] \in Fields
  <2>1. todo[r] \in Seq(WriteOf(accepted))
    BY <1>1 DEF IInv, Carried
  <2>2. todo[r][i] \in WriteOf(accepted)
    BY <1>1, <2>1, ElementOfSeq
  <2>3. Fields = {"role", "disk", "targetIp", "currentIp", "maintenance",
                  "configured", "applied"}
    BY DEF Fields, Blank
  <2>4. QED
    BY <2>2, <2>3 DEF WriteOf
<1>2. IInv => TypeOK
  <2> SUFFICES ASSUME IInv PROVE TypeOK
    OBVIOUS
  <2>1. EntryOf(accepted) \subseteq Entry
    BY EntryOfType DEF IInv, Types
  <2>2. entry \in Entry \cup {NoEntry} /\ node \in [Requests -> Entry \cup {NoNode}]
    BY <2>1 DEF IInv, Carried
  <2>3. {accepted, pulled, blurred} \subseteq BOOLEAN
    BY DEF IInv, Types
  <2>4. QED
    BY <1>1, <2>2, <2>3 DEF IInv, Types, TypeOK
<1>3. QED
  BY <1>2, IInvHolds, PTL

(* However requests overlap, read torn entries, fail or die with the       *)
(* daemon: config.yaml calls no node applied whose machine has never       *)
(* accepted a configuration.                                               *)
THEOREM AppliedIsTrue == Spec => []AppliedWasAccepted
<1>1. IInv => AppliedWasAccepted
  <2> SUFFICES ASSUME IInv, entry # NoEntry, entry.applied PROVE accepted
    BY DEF AppliedWasAccepted
  <2>1. entry.applied \in AppliedValues(accepted)
    BY DEF IInv, Carried, EntryOf
  <2>2. QED
    BY <2>1 DEF AppliedValues
<1>2. QED
  BY <1>1, IInvHolds, PTL

-----------------------------------------------------------------------------
(* EntriesAreSound.  First, which calls a request may still have to make.  *)
(* A removal is the last one; role and disk are only ever set.             *)
Settings ==
    ({"role", "disk"} \X {TRUE})
    \cup ({"maintenance", "configured", "applied"} \X BOOLEAN)
    \cup ({"targetIp", "currentIp"} \X (IPs \cup {NoIP}))

CallsFit(k, p, s) ==
    /\ s # <<>> => p \in {"configured", "write", "again"}
    /\ \A i \in 1..Len(s) :
         \/ s[i] \in Settings /\ p # "again"
         \/ s[i] = Removal /\ i = Len(s) /\ p # "configured"
    /\ p \in {"generate", "configured"} => k = "apply"

Calls == \A r \in Requests : CallsFit(kind[r], pc[r], todo[r])

Contains(s, w) == \E i \in 1..Len(s) : s[i] = w

(* An Add that gave up, or an entry that was removed under a request.      *)
Excused ==
    \/ pulled
    \/ \E r \in Requests : kind[r] = "add" /\ pc[r] \in {"failed", "dead"}

(* What an entry lacks is on its way.                                      *)
Completes(r) ==
    /\ kind[r] = "add" /\ pc[r] = "write"
    /\ entry.role \/ Contains(todo[r], <<"role", TRUE>>)
    /\ entry.disk \/ Contains(todo[r], <<"disk", TRUE>>)

(* While there is no entry, nobody is about to write one but by adding it  *)
(* from the start.                                                         *)
FromTheStart(r) ==
    /\ kind[r] = "add" /\ pc[r] = "write"
    /\ Len(todo[r]) > 1
    /\ todo[r][1] = <<"role", TRUE>> /\ todo[r][2] = <<"disk", TRUE>>
BringsNothing(r) ==
    \/ todo[r] = <<>> /\ pc[r] \notin HasRead
    \/ todo[r] # <<>> /\ todo[r][1] = Removal
    \/ FromTheStart(r)

Lacks == entry # NoEntry /\ ~(entry.role /\ entry.disk)
Completing == (~Excused /\ Lacks) => \E r \in Requests : Completes(r)
Absent == (~Excused /\ entry = NoEntry) => \A r \in Requests : BringsNothing(r)

(* Apply would find the machine that an entry describes, and would still   *)
(* find it there if its target changed.                                    *)
Knows(m, e) ==
    /\ Accepts(m, DeployIP(e), Insecure(e))
    /\ e.targetIp # NoIP
    /\ m.maintenance => e.maintenance \/ ~e.applied

Now == IF entry = NoEntry THEN Blank ELSE entry
Agrees(e, g) ==
    /\ e.targetIp = g.targetIp /\ e.currentIp = g.currentIp
    /\ e.maintenance = g.maintenance /\ e.applied = g.applied
Says(g) ==
    {<<"targetIp", g.targetIp>>, <<"currentIp", g.currentIp>>,
     <<"maintenance", g.maintenance>>, <<"applied", g.applied>>}
    \cup ({"role", "disk"} \X {TRUE}) \cup ({"configured"} \X BOOLEAN)

(* Once the calls s are made, the entry says of the machine what g says.   *)
Heads(e, s, g) ==
    /\ s \in Seq(Says(g))
    /\ e.targetIp = g.targetIp \/ Contains(s, <<"targetIp", g.targetIp>>)
    /\ e.currentIp = g.currentIp \/ Contains(s, <<"currentIp", g.currentIp>>)
    /\ e.maintenance = g.maintenance \/ Contains(s, <<"maintenance", g.maintenance>>)
    /\ e.applied = g.applied \/ Contains(s, <<"applied", g.applied>>)

(* A request that came alone and was told the truth.                       *)
Removes(r) ==
    \/ todo[r] # <<>> /\ todo[r][Len(todo[r])] = Removal
    \/ todo[r] = <<>> /\ entry = NoEntry
Teaches(r) ==
    kind[r] # "delete" /\ \E g \in Entry : Knows(machine, g) /\ Heads(Now, todo[r], g)
OneInHand == \A q, r \in Requests : InHand(q) /\ InHand(r) => q = r
Told(r) ==
    /\ pc[r] \in {"read", "generate", "reset"} => node[r] = entry
    /\ pc[r] = "configured" =>
         entry # NoEntry /\ Agrees(entry, node[r]) /\ todo[r] \in Seq(Says(node[r]))
    /\ pc[r] = "write" => Removes(r) \/ Teaches(r)
    /\ pc[r] = "again" => entry = NoEntry

Describes ==
    (entry # NoEntry /\ \A r \in Requests : pc[r] # "write") => Knows(machine, entry)
Truthful == ~blurred => OneInHand /\ (\A r \in Requests : Told(r)) /\ Describes

SoundInv == IInv /\ Calls /\ Completing /\ Absent /\ Truthful

-----------------------------------------------------------------------------
(* What calls are, and how they change an entry.                           *)
LEMMA SeqOfOne == ASSUME NEW S, NEW x \in S PROVE <<x>> \in Seq(S)
OBVIOUS

LEMMA SeqOfTwo == ASSUME NEW S, NEW x \in S, NEW y \in S PROVE <<x, y>> \in Seq(S)
OBVIOUS

LEMMA RemovalIsNoSetting == Removal \notin Settings
BY DEF Removal, Settings

LEMMA SettingsOfEntry ==
    ASSUME NEW g \in Entry
    PROVE  Says(g) \subseteq Settings
<1>1. /\ g.targetIp \in IPs \cup {NoIP} /\ g.currentIp \in IPs \cup {NoIP}
      /\ g.maintenance \in BOOLEAN /\ g.applied \in BOOLEAN
  BY DEF Entry
<1>2. <<"targetIp", g.targetIp>> \in Settings /\ <<"currentIp", g.currentIp>> \in Settings
  BY <1>1 DEF Settings
<1>3. <<"maintenance", g.maintenance>> \in Settings /\ <<"applied", g.applied>> \in Settings
  BY <1>1 DEF Settings
<1>4. ({"role", "disk"} \X {TRUE}) \subseteq Settings /\ ({"configured"} \X BOOLEAN) \subseteq Settings
  BY DEF Settings
<1>5. QED
  BY <1>2, <1>3, <1>4 DEF Says

LEMMA ContainsTail ==
    ASSUME NEW S, NEW s \in Seq(S), s # <<>>, NEW w, Contains(s, w), Head(s) # w
    PROVE  Contains(Tail(s), w)
<1>1. PICK i \in 1..Len(s) : s[i] = w
  BY DEF Contains
<1>2. Len(s) \in Nat /\ i \in Nat /\ i # 1 /\ Len(Tail(s)) = Len(s) - 1
  BY <1>1, HeadTailProperties
<1>3. i - 1 \in 1..Len(Tail(s)) /\ (i - 1) + 1 = i
  BY <1>1, <1>2
<1>4. Tail(s)[i - 1] = s[i]
  BY <1>3, HeadTailProperties
<1>5. QED
  BY <1>1, <1>3, <1>4 DEF Contains

LEMMA ContainsConcat ==
    ASSUME NEW S, NEW s \in Seq(S), NEW t \in Seq(S), NEW w,
           Contains(s, w) \/ Contains(t, w)
    PROVE  Contains(s \o t, w)
<1>1. Len(s) \in Nat /\ Len(t) \in Nat /\ Len(s \o t) = Len(s) + Len(t)
  BY ConcatProperties
<1>2. CASE Contains(s, w)
  <2>1. PICK i \in 1..Len(s) : s[i] = w
    BY <1>2 DEF Contains
  <2>2. i \in 1..Len(s) + Len(t) /\ i <= Len(s)
    BY <1>1
  <2>3. (s \o t)[i] = s[i]
    BY <2>2, ConcatProperties
  <2>4. QED
    BY <1>1, <2>1, <2>2, <2>3 DEF Contains
<1>3. CASE Contains(t, w)
  <2>1. PICK i \in 1..Len(t) : t[i] = w
    BY <1>3 DEF Contains
  <2>2. Len(s) + i \in 1..Len(s) + Len(t) /\ ~(Len(s) + i <= Len(s)) /\ (Len(s) + i) - Len(s) = i
    BY <1>1
  <2>3. (s \o t)[Len(s) + i] = t[(Len(s) + i) - Len(s)]
    BY <2>2, ConcatProperties
  <2>4. QED
    BY <1>1, <2>1, <2>2, <2>3 DEF Contains
<1>4. QED
  BY <1>2, <1>3

LEMMA ContainsOnly == ASSUME NEW w PROVE Contains(<<w>>, w)
BY DEF Contains

LEMMA ContainsSecond == ASSUME NEW v, NEW w PROVE Contains(<<v, w>>, v) /\ Contains(<<v, w>>, w)
<1>1. Len(<<v, w>>) = 2 /\ <<v, w>>[1] = v /\ <<v, w>>[2] = w
  OBVIOUS
<1>2. QED
  BY <1>1 DEF Contains

(* updateNodeStatus writes what the node says.                             *)
LEMMA StatusWritesSay ==
    ASSUME NEW n \in Entry
    PROVE  /\ StatusWrites(n) \in Seq(Says(n))
           /\ Contains(StatusWrites(n), <<"maintenance", n.maintenance>>)
           /\ Contains(StatusWrites(n), <<"applied", n.applied>>)
           /\ n.currentIp # NoIP => Contains(StatusWrites(n), <<"currentIp", n.currentIp>>)
<1> DEFINE S == Says(n)
           m == <<"maintenance", n.maintenance>>
           a == <<"applied", n.applied>>
           i == <<"currentIp", n.currentIp>>
           c == <<"configured", n.configured>>
           address == IF n.currentIp = NoIP THEN <<>> ELSE <<i>>
<1>1. m \in S /\ a \in S /\ i \in S
  BY DEF Says
<1>2. c \in S
  BY DEF Says, Entry
<1>3. StatusWrites(n) = (<<m>> \o address) \o <<c, a>>
  BY DEF StatusWrites
<1> HIDE DEF S, m, a, i, c
<1>4. <<m>> \in Seq(S) /\ address \in Seq(S) /\ <<c, a>> \in Seq(S)
  BY <1>1, <1>2
<1>5. n.currentIp # NoIP => Contains(address, i)
  BY ContainsOnly
<1> HIDE DEF address
<1>6. <<m>> \o address \in Seq(S) /\ (<<m>> \o address) \o <<c, a>> \in Seq(S)
  BY <1>4, ConcatProperties
<1>7. Contains(<<m>>, m) /\ Contains(<<c, a>>, a)
  BY ContainsOnly, ContainsSecond
<1>8. Contains(<<m>> \o address, m) /\ (n.currentIp # NoIP => Contains(<<m>> \o address, i))
  BY <1>4, <1>5, <1>7, ContainsConcat
<1>9. /\ Contains((<<m>> \o address) \o <<c, a>>, m)
      /\ Contains((<<m>> \o address) \o <<c, a>>, a)
      /\ n.currentIp # NoIP => Contains((<<m>> \o address) \o <<c, a>>, i)
  BY <1>4, <1>6, <1>7, <1>8, ContainsConcat
<1>10. QED
  BY <1>3, <1>6, <1>9 DEF S, m, a, i

(* A field set: what the entry says afterwards.                            *)
LEMMA SaysAfter ==
    ASSUME NEW e \in Entry, NEW w \in Settings
    PROVE  LET f == [e EXCEPT ![w[1]] = w[2]] IN
           /\ f \in Entry
           /\ f.role = (e.role \/ w[1] = "role")
           /\ f.disk = (e.disk \/ w[1] = "disk")
           /\ f.targetIp = IF w[1] = "targetIp" THEN w[2] ELSE e.targetIp
           /\ f.currentIp = IF w[1] = "currentIp" THEN w[2] ELSE e.currentIp
           /\ f.maintenance = IF w[1] = "maintenance" THEN w[2] ELSE e.maintenance
           /\ f.applied = IF w[1] = "applied" THEN w[2] ELSE e.applied
<1>1. CASE w \in {"role", "disk"} \X {TRUE}
  <2>1. w[1] \in {"role", "disk"} /\ w[2] = TRUE
    BY <1>1
  <2>2. CASE w[1] = "role"
    BY <2>1, <2>2 DEF Entry
  <2>3. CASE w[1] = "disk"
    BY <2>1, <2>3 DEF Entry
  <2>4. QED
    BY <2>1, <2>2, <2>3
<1>2. CASE w \in {"maintenance", "configured", "applied"} \X BOOLEAN
  <2>1. w[1] \in {"maintenance", "configured", "applied"} /\ w[2] \in BOOLEAN
    BY <1>2
  <2>2. CASE w[1] = "maintenance"
    BY <2>1, <2>2 DEF Entry
  <2>3. CASE w[1] = "configured"
    BY <2>1, <2>3 DEF Entry
  <2>4. CASE w[1] = "applied"
    BY <2>1, <2>4 DEF Entry
  <2>5. QED
    BY <2>1, <2>2, <2>3, <2>4
<1>3. CASE w \in {"targetIp", "currentIp"} \X (IPs \cup {NoIP})
  <2>1. w[1] \in {"targetIp", "currentIp"} /\ w[2] \in IPs \cup {NoIP}
    BY <1>3
  <2>2. CASE w[1] = "targetIp"
    BY <2>1, <2>2 DEF Entry
  <2>3. CASE w[1] = "currentIp"
    BY <2>1, <2>3 DEF Entry
  <2>4. QED
    BY <2>1, <2>2, <2>3
<1>4. QED
  BY <1>1, <1>2, <1>3 DEF Settings

(* A field set to what g says of it.                                       *)
LEMMA SaysSame ==
    ASSUME NEW g \in Entry, NEW w \in Says(g)
    PROVE  /\ w[1] = "targetIp" => w[2] = g.targetIp
           /\ w[1] = "currentIp" => w[2] = g.currentIp
           /\ w[1] = "maintenance" => w[2] = g.maintenance
           /\ w[1] = "applied" => w[2] = g.applied
           /\ w \in Settings /\ w # Removal
<1>1. w \in Settings /\ w # Removal
  BY SettingsOfEntry, RemovalIsNoSetting
<1>2. CASE w \in {<<"targetIp", g.targetIp>>, <<"currentIp", g.currentIp>>,
               <<"maintenance", g.maintenance>>, <<"applied", g.applied>>}
  BY <1>1, <1>2
<1>3. CASE w \in ({"role", "disk"} \X {TRUE}) \cup ({"configured"} \X BOOLEAN)
  <2>1. w[1] \in {"role", "disk", "configured"}
    BY <1>3
  <2>2. QED
    BY <1>1, <2>1
<1>4. QED
  BY <1>2, <1>3 DEF Says

-----------------------------------------------------------------------------
(* Calls is kept.                                                          *)
LEMMA FitsNothing ==
    ASSUME NEW k, NEW p, p \in {"generate", "configured"} => k = "apply"
    PROVE  CallsFit(k, p, <<>>)
BY DEF CallsFit

LEMMA FitsSettings ==
    ASSUME NEW k, NEW p \in {"configured", "write"}, p = "configured" => k = "apply",
           NEW s \in Seq(Settings)
    PROVE  CallsFit(k, p, s)
<1>1. \A i \in 1..Len(s) : s[i] \in Settings
  BY ElementOfSeq
<1>2. QED
  BY <1>1 DEF CallsFit

LEMMA FitsRemoval ==
    ASSUME NEW k, NEW p \in {"write", "again"}
    PROVE  CallsFit(k, p, <<Removal>>)
<1>1. Len(<<Removal>>) = 1 /\ <<Removal>>[1] = Removal
  OBVIOUS
<1>2. QED
  BY <1>1 DEF CallsFit

LEMMA FitsResetWrites ==
    ASSUME NEW k, NEW n \in Entry
    PROVE  /\ CallsFit(k, "write", ResetWrites(n))
           /\ Len(ResetWrites(n)) # 0
           /\ ResetWrites(n)[Len(ResetWrites(n))] = Removal
<1> DEFINE m == [n EXCEPT !.maintenance = TRUE, !.configured = FALSE, !.applied = FALSE]
           s == StatusWrites(m)
           W == Settings \cup {Removal}
<1>1. m \in Entry
  BY DEF Entry
<1> HIDE DEF m
<1>2. s \in Seq(Settings)
  <2>1. s \in Seq(Says(m)) /\ Says(m) \subseteq Settings
    BY <1>1, StatusWritesSay, SettingsOfEntry
  <2>2. QED
    BY <2>1, SeqMonotonic
<1> HIDE DEF s
<1>3. s \in Seq(W) /\ <<Removal>> \in Seq(W) /\ Len(s) \in Nat
  BY <1>2, SeqMonotonic
<1>4. /\ Len(s \o <<Removal>>) = Len(s) + 1
      /\ \A i \in 1..Len(s) + 1 : (s \o <<Removal>>)[i] = IF i <= Len(s) THEN s[i] ELSE <<Removal>>[i - Len(s)]
  BY <1>3, ConcatProperties
<1>5. (s \o <<Removal>>)[Len(s) + 1] = Removal
  BY <1>3, <1>4
<1>6. \A i \in 1..Len(s) + 1 : i # Len(s) + 1 => (s \o <<Removal>>)[i] \in Settings
  <2> TAKE i \in 1..Len(s) + 1
  <2> HAVE i # Len(s) + 1
  <2>1. i \in 1..Len(s) /\ i <= Len(s)
    BY <1>3
  <2>2. s[i] \in Settings
    BY <1>2, <2>1, ElementOfSeq
  <2>3. QED
    BY <1>4, <2>1, <2>2
<1>7. ResetWrites(n) = s \o <<Removal>>
  BY DEF ResetWrites, s, m
<1>8. CallsFit(k, "write", s \o <<Removal>>)
  BY <1>3, <1>4, <1>5, <1>6 DEF CallsFit
<1>9. QED
  BY <1>3, <1>4, <1>5, <1>7, <1>8

(* What is left after a call.                                              *)
LEMMA FitsTail ==
    ASSUME NEW k, NEW p, NEW S, NEW s \in Seq(S), s # <<>>, CallsFit(k, p, s)
    PROVE  /\ CallsFit(k, p, Tail(s))
           /\ Head(s) = Removal => Tail(s) = <<>>
           /\ Head(s) # Removal => Head(s) \in Settings /\ p # "again"
<1>1. /\ Tail(s) \in Seq(S) /\ Len(Tail(s)) = Len(s) - 1 /\ Len(s) \in Nat \ {0}
      /\ \A i \in 1..Len(Tail(s)) : Tail(s)[i] = s[i + 1]
  BY HeadTailProperties, EmptySeq
<1>2. Head(s) = s[1]
  OBVIOUS
<1>3. \A i \in 1..Len(Tail(s)) : /\ i + 1 \in 1..Len(s)
                                 /\ i + 1 = Len(s) => i = Len(Tail(s))
  <2>1. ASSUME NEW n \in Nat \ {0}, NEW m, m = n - 1
        PROVE  \A i \in 1..m : i + 1 \in 1..n /\ (i + 1 = n => i = m)
    BY <2>1
  <2>2. QED
    BY <1>1, <2>1
<1>4. CallsFit(k, p, Tail(s))
  BY <1>1, <1>3 DEF CallsFit
<1>5. 1 \in 1..Len(s)
  BY <1>1
<1>6. Head(s) = Removal => Tail(s) = <<>>
  <2>1. ASSUME Head(s) = Removal PROVE Len(s) = 1
    BY <1>2, <1>5, <2>1, RemovalIsNoSetting DEF CallsFit
  <2>2. Tail(s) # <<>> => Len(Tail(s)) \in Nat \ {0}
    BY <1>1, EmptySeq
  <2>3. Len(s) = 1 => Len(Tail(s)) = 0
    BY <1>1
  <2>4. 0 \notin Nat \ {0}
    OBVIOUS
  <2>5. QED
    BY <2>1, <2>2, <2>3, <2>4
<1>7. QED
  BY <1>2, <1>4, <1>5, <1>6 DEF CallsFit

LEMMA CallsOthers ==
    ASSUME Calls, UNCHANGED kind, NEW r \in Requests,
           \A q \in Requests \ {r} : pc'[q] = pc[q] /\ todo'[q] = todo[q],
           CallsFit(kind[r], pc'[r], todo'[r])
    PROVE  Calls'
BY DEF Calls

LEMMA ConcatBegins ==
    ASSUME NEW S, NEW s \in Seq(S), NEW t \in Seq(S), Len(s) > 1
    PROVE  Len(s \o t) > 1 /\ (s \o t)[1] = s[1] /\ (s \o t)[2] = s[2]
<1>1. /\ Len(s \o t) = Len(s) + Len(t) /\ Len(s) \in Nat /\ Len(t) \in Nat
      /\ \A i \in 1..Len(s) + Len(t) : (s \o t)[i] = IF i <= Len(s) THEN s[i] ELSE t[i - Len(s)]
  BY ConcatProperties
<1>2. 1 \in 1..Len(s) + Len(t) /\ 2 \in 1..Len(s) + Len(t) /\ 1 <= Len(s) /\ 2 <= Len(s)
  BY <1>1
<1>3. QED
  BY <1>1, <1>2

(* What a request that begins has to write.                                *)
LEMMA AddCalls ==
    ASSUME NEW target \in IPs \cup {NoIP}, NEW current \in IPs \cup {NoIP},
           NEW maintenance \in BOOLEAN, current # NoIP => maintenance
    PROVE  LET g == [role |-> TRUE, disk |-> TRUE, targetIp |-> target, currentIp |-> current,
                     maintenance |-> maintenance, configured |-> FALSE, applied |-> FALSE]
               s == <<<<"role", TRUE>>, <<"disk", TRUE>>>>
                      \o (IF target = NoIP THEN <<>> ELSE <<<<"targetIp", target>>>>)
                      \o (IF current = NoIP THEN <<>> ELSE <<<<"currentIp", current>>>>)
                      \o (IF maintenance THEN <<<<"maintenance", TRUE>>>> ELSE <<>>)
           IN /\ g \in Entry /\ Heads(Blank, s, g) /\ s \in Seq(Settings)
              /\ Len(s) > 1 /\ s[1] = <<"role", TRUE>> /\ s[2] = <<"disk", TRUE>>
<1> DEFINE g == [role |-> TRUE, disk |-> TRUE, targetIp |-> target, currentIp |-> current,
                 maintenance |-> maintenance, configured |-> FALSE, applied |-> FALSE]
           S == Says(g)
           s1 == <<<<"role", TRUE>>, <<"disk", TRUE>>>>
           s2 == IF target = NoIP THEN <<>> ELSE <<<<"targetIp", target>>>>
           s3 == IF current = NoIP THEN <<>> ELSE <<<<"currentIp", current>>>>
           s4 == IF maintenance THEN <<<<"maintenance", TRUE>>>> ELSE <<>>
<1>1. g \in Entry
  BY DEF Entry
<1>2. /\ <<"role", TRUE>> \in S /\ <<"disk", TRUE>> \in S
      /\ <<"targetIp", target>> \in S /\ <<"currentIp", current>> \in S
      /\ maintenance => <<"maintenance", TRUE>> \in S
  BY DEF Says
<1>3. /\ g.targetIp = target /\ g.currentIp = current /\ g.maintenance = maintenance
      /\ g.applied = FALSE
  OBVIOUS
<1> HIDE DEF S, g
<1>4. s1 \in Seq(S) /\ s2 \in Seq(S) /\ s3 \in Seq(S) /\ s4 \in Seq(S)
  BY <1>2
<1>5. /\ target # NoIP => Contains(s2, <<"targetIp", target>>)
      /\ current # NoIP => Contains(s3, <<"currentIp", current>>)
      /\ maintenance => Contains(s4, <<"maintenance", TRUE>>)
  BY ContainsOnly
<1>6. Len(s1) = 2 /\ s1[1] = <<"role", TRUE>> /\ s1[2] = <<"disk", TRUE>>
  OBVIOUS
<1> HIDE DEF s1, s2, s3, s4
<1>7. /\ s1 \o s2 \in Seq(S) /\ (s1 \o s2) \o s3 \in Seq(S)
      /\ ((s1 \o s2) \o s3) \o s4 \in Seq(S)
  BY <1>4, ConcatProperties
<1>8. /\ target # NoIP => Contains(((s1 \o s2) \o s3) \o s4, <<"targetIp", target>>)
      /\ current # NoIP => Contains(((s1 \o s2) \o s3) \o s4, <<"currentIp", current>>)
      /\ maintenance => Contains(((s1 \o s2) \o s3) \o s4, <<"maintenance", TRUE>>)
  <2>1. target # NoIP => Contains(s1 \o s2, <<"targetIp", target>>)
    BY <1>4, <1>5, ContainsConcat
  <2>2. /\ target # NoIP => Contains((s1 \o s2) \o s3, <<"targetIp", target>>)
        /\ current # NoIP => Contains((s1 \o s2) \o s3, <<"currentIp", current>>)
    BY <1>4, <1>5, <1>7, <2>1, ContainsConcat
  <2>3. QED
    BY <1>4, <1>5, <1>7, <2>2, ContainsConcat
<1>9. /\ Len(((s1 \o s2) \o s3) \o s4) > 1
      /\ (((s1 \o s2) \o s3) \o s4)[1] = <<"role", TRUE>>
      /\ (((s1 \o s2) \o s3) \o s4)[2] = <<"disk", TRUE>>
  <2>1. Len(s1) > 1
    BY <1>6
  <2>2. Len(s1 \o s2) > 1 /\ (s1 \o s2)[1] = s1[1] /\ (s1 \o s2)[2] = s1[2]
    BY <1>4, <2>1, ConcatBegins
  <2>3. /\ Len((s1 \o s2) \o s3) > 1
        /\ ((s1 \o s2) \o s3)[1] = s1[1] /\ ((s1 \o s2) \o s3)[2] = s1[2]
    BY <1>4, <1>7, <2>2, ConcatBegins
  <2>4. /\ Len(((s1 \o s2) \o s3) \o s4) > 1
        /\ (((s1 \o s2) \o s3) \o s4)[1] = s1[1] /\ (((s1 \o s2) \o s3) \o s4)[2] = s1[2]
    BY <1>4, <1>7, <2>3, ConcatBegins
  <2>5. QED
    BY <1>6, <2>4
<1>10. Heads(Blank, ((s1 \o s2) \o s3) \o s4, g)
  BY <1>3, <1>7, <1>8 DEF Heads, Blank, S
<1>11. ((s1 \o s2) \o s3) \o s4 \in Seq(Settings)
  BY <1>1, <1>7, SettingsOfEntry, SeqMonotonic DEF S
<1>12. QED
  BY <1>1, <1>9, <1>10, <1>11 DEF s1, s2, s3, s4, g

(* Where a request has no calls to make.                                   *)
LEMMA NoCalls ==
    ASSUME Calls, NEW r \in Requests, pc[r] \notin {"configured", "write", "again"}
    PROVE  todo[r] = <<>>
BY DEF Calls, CallsFit

LEMMA CallsStep ==
    ASSUME IInv, Calls, NEW r \in Requests,
             \/ Refuse(r) \/ Add(r) \/ Update(r) \/ ForceDelete(r) \/ Delete(r)
             \/ Reset(r) \/ Apply(r) \/ Read(r) \/ Generate(r) \/ Deploy(r)
             \/ ResetMachine(r) \/ Write(r) \/ Finish(r) \/ Timeout(r) \/ Fail(r)
    PROVE  Calls'
<1>0. /\ pc \in [Requests -> {"new", "asked", "read", "reset", "generate", "configured",
                              "write", "again", "done", "failed", "dead"}]
      /\ todo \in [Requests -> Seq(WriteOf(accepted))] /\ kind \in [Requests -> Kinds]
  BY DEF IInv, Types, Carried
<1>1. CASE Refuse(r)
  <2>1. pc[r] \in {"new", "asked"} /\ pc'[r] = "failed" /\ todo' = todo
    BY <1>0, <1>1 DEF Refuse
  <2>2. CallsFit(kind[r], pc'[r], todo'[r])
    BY <2>1, NoCalls, FitsNothing
  <2>3. \A q \in Requests \ {r} : pc'[q] = pc[q] /\ todo'[q] = todo[q]
    BY <1>0, <1>1 DEF Refuse
  <2>4. QED
    BY <1>1, <2>2, <2>3, CallsOthers DEF Refuse
<1>2. CASE Add(r)
  <2>1. PICK target \in IPs \cup {NoIP}, current \in IPs \cup {NoIP}, maintenance \in BOOLEAN :
         /\ current # NoIP => maintenance
         /\ todo' = [todo EXCEPT ![r] =
              <<<<"role", TRUE>>, <<"disk", TRUE>>>>
              \o (IF target = NoIP THEN <<>> ELSE <<<<"targetIp", target>>>>)
              \o (IF current = NoIP THEN <<>> ELSE <<<<"currentIp", current>>>>)
              \o (IF maintenance THEN <<<<"maintenance", TRUE>>>> ELSE <<>>)]
    BY <1>2 DEF Add
  <2>2. todo'[r] \in Seq(Settings) /\ pc'[r] = "write"
    BY <1>0, <1>2, <2>1, AddCalls DEF Add
  <2>3. CallsFit(kind[r], pc'[r], todo'[r])
    BY <2>2, FitsSettings
  <2>4. \A q \in Requests \ {r} : pc'[q] = pc[q] /\ todo'[q] = todo[q]
    BY <1>0, <1>2, <2>1 DEF Add
  <2>5. QED
    BY <1>2, <2>3, <2>4, CallsOthers DEF Add
<1>3. CASE Update(r)
  <2>1. \E s \in Seq(Settings) : todo' = [todo EXCEPT ![r] = s]
    <3>1. CASE \E ip \in IPs : todo' = [todo EXCEPT ![r] = <<<<"targetIp", ip>>>>]
      <4>1. \A ip \in IPs : <<"targetIp", ip>> \in Settings
        BY DEF Settings
      <4>2. \A ip \in IPs : <<<<"targetIp", ip>>>> \in Seq(Settings)
        BY <4>1, SeqOfOne, SeqOfTwo
      <4>3. QED
        BY <3>1, <4>2
    <3>2. CASE \E ip \in IPs : todo' = [todo EXCEPT ![r] =
                          <<<<"currentIp", ip>>, <<"maintenance", TRUE>>>>]
      <4>1. \A ip \in IPs : <<"currentIp", ip>> \in Settings /\ <<"maintenance", TRUE>> \in Settings
        BY DEF Settings
      <4>2. \A ip \in IPs : <<<<"currentIp", ip>>, <<"maintenance", TRUE>>>> \in Seq(Settings)
        BY <4>1, SeqOfOne, SeqOfTwo
      <4>3. QED
        BY <3>2, <4>2
    <3>3. CASE \E on \in BOOLEAN : todo' = [todo EXCEPT ![r] = <<<<"maintenance", on>>>>]
      <4>1. \A on \in BOOLEAN : <<"maintenance", on>> \in Settings
        BY DEF Settings
      <4>2. \A on \in BOOLEAN : <<<<"maintenance", on>>>> \in Seq(Settings)
        BY <4>1, SeqOfOne, SeqOfTwo
      <4>3. QED
        BY <3>3, <4>2
    <3>4. QED
      BY <1>3, <3>1, <3>2, <3>3 DEF Update
  <2>2. PICK s \in Seq(Settings) : todo' = [todo EXCEPT ![r] = s]
    BY <2>1
  <2>3. CallsFit(kind[r], pc'[r], todo'[r])
    BY <1>0, <1>3, <2>2, FitsSettings DEF Update
  <2>4. \A q \in Requests \ {r} : pc'[q] = pc[q] /\ todo'[q] = todo[q]
    BY <1>0, <1>3, <2>2 DEF Update
  <2>5. QED
    BY <1>3, <2>3, <2>4, CallsOthers DEF Update
<1>4. CASE ForceDelete(r)
  <2>1. CallsFit(kind[r], pc'[r], todo'[r])
    BY <1>0, <1>4, FitsRemoval DEF ForceDelete
  <2>2. \A q \in Requests \ {r} : pc'[q] = pc[q] /\ todo'[q] = todo[q]
    BY <1>0, <1>4 DEF ForceDelete
  <2>3. QED
    BY <1>4, <2>1, <2>2, CallsOthers DEF ForceDelete
<1>5. CASE Delete(r) \/ Reset(r) \/ Apply(r) \/ Read(r)
  <2>1. /\ pc[r] \in {"new", "asked", "read"} /\ todo' = todo /\ kind' = kind
        /\ pc'[r] \in {"asked", "read", "reset", "generate"}
        /\ pc'[r] = "generate" => kind[r] = "apply"
    BY <1>0, <1>5 DEF Delete, Reset, Apply, Read, Takes
  <2>2. CallsFit(kind[r], pc'[r], todo'[r])
    BY <2>1, NoCalls, FitsNothing
  <2>3. \A q \in Requests \ {r} : pc'[q] = pc[q] /\ todo'[q] = todo[q]
    BY <1>0, <1>5, <2>1 DEF Delete, Reset, Apply, Read
  <2>4. QED
    BY <2>1, <2>2, <2>3, CallsOthers
<1>6. CASE Generate(r) \/ Deploy(r)
  <2>1. pc[r] \in {"generate", "configured"} /\ kind[r] = "apply" /\ kind' = kind
    BY <1>6 DEF Generate, Deploy, Calls, CallsFit
  <2>2. node[r] \in Entry
    BY <2>1, EntryOfType DEF IInv, Types, Carried, HasRead
  <2>3. PICK n \in Entry : todo' = [todo EXCEPT ![r] = StatusWrites(n)]
    <3>1. [node[r] EXCEPT !.configured = TRUE] \in Entry /\ Deployed(node[r]) \in Entry
      BY <2>2 DEF Entry, Deployed
    <3>2. CASE Generate(r)
      <4>1. node'[r] \in Entry
        BY <3>1, <3>2 DEF Generate, IInv, Carried
      <4>2. QED
        BY <3>2, <4>1 DEF Generate
    <3>3. CASE Deploy(r)
      BY <3>1, <3>3 DEF Deploy
    <3>4. QED
      BY <1>6, <3>2, <3>3
  <2>4. StatusWrites(n) \in Seq(Settings)
    BY StatusWritesSay, SettingsOfEntry, SeqMonotonic
  <2>5. pc'[r] \in {"configured", "write"} /\ todo'[r] = StatusWrites(n)
    BY <1>0, <1>6, <2>3 DEF Generate, Deploy
  <2>6. CallsFit(kind[r], pc'[r], todo'[r])
    BY <2>1, <2>4, <2>5, FitsSettings
  <2>7. \A q \in Requests \ {r} : pc'[q] = pc[q] /\ todo'[q] = todo[q]
    BY <1>0, <1>6, <2>3 DEF Generate, Deploy
  <2>8. QED
    BY <2>1, <2>6, <2>7, CallsOthers
<1>7. CASE ResetMachine(r)
  <2>1. node[r] \in Entry
    BY <1>7, EntryOfType DEF ResetMachine, IInv, Types, Carried, HasRead
  <2>2. CallsFit(kind[r], pc'[r], todo'[r])
    BY <1>0, <1>7, <2>1, FitsResetWrites DEF ResetMachine
  <2>3. \A q \in Requests \ {r} : pc'[q] = pc[q] /\ todo'[q] = todo[q]
    BY <1>0, <1>7 DEF ResetMachine
  <2>4. QED
    BY <1>7, <2>2, <2>3, CallsOthers DEF ResetMachine
<1>8. CASE Write(r)
  <2>1. CallsFit(kind[r], pc[r], Tail(todo[r]))
    BY <1>0, <1>8, FitsTail DEF Write, Calls
  <2>2. UNCHANGED <<kind, pc>> /\ todo' = [todo EXCEPT ![r] = Tail(todo[r])]
    BY <1>8 DEF Write
  <2>3. QED
    BY <1>0, <2>1, <2>2, CallsOthers
<1>9. CASE Finish(r)
  <2>1. CallsFit(kind[r], pc'[r], todo'[r])
    <3>1. \/ pc'[r] = "again" /\ todo'[r] = <<Removal>>
          \/ pc'[r] = "done" /\ todo'[r] = <<>>
      BY <1>0, <1>9 DEF Finish
    <3>2. QED
      BY <3>1, FitsRemoval, FitsNothing
  <2>2. \A q \in Requests \ {r} : pc'[q] = pc[q] /\ todo'[q] = todo[q]
    BY <1>0, <1>9 DEF Finish
  <2>3. QED
    BY <1>9, <2>1, <2>2, CallsOthers DEF Finish
<1>10. CASE Timeout(r)
  BY <1>10 DEF Timeout, Calls
<1>11. CASE Fail(r)
  <2>1. CallsFit(kind[r], pc'[r], todo'[r])
    BY <1>0, <1>11, FitsNothing DEF Fail
  <2>2. \A q \in Requests \ {r} : pc'[q] = pc[q] /\ todo'[q] = todo[q]
    BY <1>0, <1>11 DEF Fail
  <2>3. QED
    BY <1>11, <2>1, <2>2, CallsOthers DEF Fail
<1>12. QED
  BY <1>1, <1>2, <1>3, <1>4, <1>5, <1>6, <1>7, <1>8, <1>9, <1>10, <1>11

LEMMA CrashCalls == ASSUME IInv, Calls, Crash PROVE Calls'
<1>1. \A r \in Requests : todo'[r] = <<>> /\ pc'[r] \notin {"generate", "configured"}
  BY DEF Crash, InHand, IInv, Types
<1>2. QED
  BY <1>1, FitsNothing DEF Calls, Crash

-----------------------------------------------------------------------------
(* What an entry lacks stays on its way, and nobody brings a part back.    *)
LEMMA WholeOthers ==
    ASSUME Completing, Absent, UNCHANGED <<kind, entry, pulled>>, NEW r \in Requests,
           \A q \in Requests \ {r} : pc'[q] = pc[q] /\ todo'[q] = todo[q],
           pc[r] \in {"failed", "dead"} => pc'[r] = pc[r],
           Lacks /\ Completes(r) => Completes(r)' \/ Excused',
           entry = NoEntry /\ BringsNothing(r) => BringsNothing(r)'
    PROVE  Completing' /\ Absent'
<1>1. Excused => Excused'
  BY DEF Excused
<1>2. Completing'
  <2> SUFFICES ASSUME ~Excused', Lacks' PROVE \E q \in Requests : Completes(q)'
    BY DEF Completing
  <2>1. PICK q \in Requests : Completes(q)
    BY <1>1 DEF Completing, Lacks
  <2>2. CASE q = r
    BY <2>1, <2>2 DEF Lacks
  <2>3. CASE q # r
    <3>1. Completes(q)'
      BY <2>1, <2>3 DEF Completes
    <3>2. QED
      BY <3>1
  <2>4. QED
    BY <2>2, <2>3
<1>3. Absent'
  <2> SUFFICES ASSUME ~Excused', entry' = NoEntry, NEW q \in Requests
               PROVE  BringsNothing(q)'
    BY DEF Absent
  <2>1. BringsNothing(q) /\ entry = NoEntry
    BY <1>1 DEF Absent
  <2>2. CASE q = r
    BY <2>1, <2>2
  <2>3. CASE q # r
    BY <2>1, <2>3 DEF BringsNothing, FromTheStart
  <2>4. QED
    BY <2>2, <2>3
<1>4. QED
  BY <1>2, <1>3

LEMMA WriteWhole ==
    ASSUME IInv, Calls, Completing, Absent, NEW r \in Requests, Write(r)
    PROVE  Completing' /\ Absent'
<1> DEFINE w == Head(todo[r])
<1>1. /\ todo[r] \in Seq(WriteOf(accepted)) /\ todo[r] # <<>>
      /\ todo' = [todo EXCEPT ![r] = Tail(todo[r])] /\ UNCHANGED <<kind, pc>>
      /\ todo \in [Requests -> Seq(WriteOf(accepted))]
  BY DEF Write, IInv, Carried
<1>2. /\ CallsFit(kind[r], pc[r], Tail(todo[r]))
      /\ w = Removal => Tail(todo[r]) = <<>>
      /\ w # Removal => w \in Settings
  BY <1>1, FitsTail DEF Calls
<1>3. w = todo[r][1] /\ 1 \in 1..Len(todo[r])
  <2>1. Len(todo[r]) \in Nat \ {0}
    BY <1>1, EmptySeq
  <2>2. QED
    BY <2>1
<1>4. CASE w = Removal
  <2>1. entry' = NoEntry /\ pulled' = (pulled \/ ~Alone(r))
    BY <1>4 DEF Write
  <2>2. pc[r] \in {"write", "again"}
    BY <1>1, <1>3, <1>4, RemovalIsNoSetting DEF Calls, CallsFit
  <2>3. Absent'
    <3> SUFFICES ASSUME ~Excused', NEW q \in Requests PROVE BringsNothing(q)'
      BY DEF Absent
    <3>1. Alone(r)
      BY <2>1 DEF Excused
    <3>2. CASE q = r
      BY <1>1, <1>2, <1>4, <2>2, <3>2 DEF BringsNothing, HasRead
    <3>3. CASE q # r
      <4>1. ~InHand(q)
        BY <3>1, <3>3 DEF Alone
      <4>2. todo[q] = <<>> /\ pc[q] \notin HasRead
        BY <4>1, NoCalls DEF InHand, HasRead
      <4>3. QED
        BY <1>1, <3>3, <4>2 DEF BringsNothing
    <3>4. QED
      BY <3>2, <3>3
  <2>4. QED
    BY <2>1, <2>3 DEF Completing, Lacks
<1>5. CASE w # Removal
  <2>1. entry' = [Now EXCEPT ![w[1]] = w[2]] /\ pulled' = pulled
    BY <1>5 DEF Write, Now
  <2>2. Now \in Entry /\ w \in Settings
    BY <1>2, <1>5, EntryOfType, BlankType DEF Now, IInv, Types, Carried
  <2> HIDE DEF w
  <2>3. /\ entry' \in Entry
        /\ entry'.role = (Now.role \/ w[1] = "role")
        /\ entry'.disk = (Now.disk \/ w[1] = "disk")
    BY <2>1, <2>2, SaysAfter
  <2>4. entry' # NoEntry
    BY <2>3, NodesAssumption
  <2>5. Excused' = Excused
    BY <1>1, <2>1 DEF Excused
  <2>6. ASSUME ~Excused, Lacks' PROVE \E q \in Requests : Completes(q)'
    <3>1. CASE entry # NoEntry
      <4>1. Now = entry /\ Lacks
        BY <2>3, <2>6, <3>1 DEF Now, Lacks
      <4>2. PICK q \in Requests : Completes(q)
        BY <2>6, <4>1 DEF Completing
      <4>3. CASE q = r
        <5>1. Contains(todo[r], <<"role", TRUE>>) => entry'.role \/ Contains(Tail(todo[r]), <<"role", TRUE>>)
          <6>1. CASE w = <<"role", TRUE>>
            BY <2>3, <6>1
          <6>2. CASE w # <<"role", TRUE>>
            BY <1>1, <6>2, ContainsTail DEF w
          <6>3. QED
            BY <6>1, <6>2
        <5>2. Contains(todo[r], <<"disk", TRUE>>) => entry'.disk \/ Contains(Tail(todo[r]), <<"disk", TRUE>>)
          <6>1. CASE w = <<"disk", TRUE>>
            BY <2>3, <6>1
          <6>2. CASE w # <<"disk", TRUE>>
            BY <1>1, <6>2, ContainsTail DEF w
          <6>3. QED
            BY <6>1, <6>2
        <5>3. todo'[r] = Tail(todo[r])
          BY <1>1
        <5>4. Completes(r)'
          BY <1>1, <2>3, <4>1, <4>2, <4>3, <5>1, <5>2, <5>3 DEF Completes
        <5>5. QED
          BY <5>4
      <4>4. CASE q # r
        <5>1. todo'[q] = todo[q]
          BY <1>1, <4>4
        <5>2. Completes(q)'
          BY <1>1, <2>3, <4>1, <4>2, <5>1 DEF Completes
        <5>3. QED
          BY <5>2
      <4>5. QED
        BY <4>3, <4>4
    <3>2. CASE entry = NoEntry
      <4>1. FromTheStart(r)
        BY <1>1, <1>3, <1>5, <2>6, <3>2 DEF Absent, BringsNothing
      <4>2. w[1] = "role"
        BY <1>3, <4>1 DEF FromTheStart
      <4>3. Contains(Tail(todo[r]), <<"disk", TRUE>>)
        <5>1. Len(todo[r]) \in Nat /\ Len(todo[r]) > 1
          BY <1>1, <4>1 DEF FromTheStart
        <5>2. Len(Tail(todo[r])) = Len(todo[r]) - 1
          BY <1>1, HeadTailProperties
        <5>3. 1 \in 1..Len(Tail(todo[r])) /\ 1 + 1 = 2
          BY <5>1, <5>2
        <5>4. Tail(todo[r])[1] = todo[r][2]
          BY <1>1, <5>3, HeadTailProperties
        <5>5. QED
          BY <4>1, <5>3, <5>4 DEF Contains, FromTheStart
      <4>4. todo'[r] = Tail(todo[r])
        BY <1>1
      <4>5. Completes(r)'
        BY <1>1, <2>3, <4>1, <4>2, <4>3, <4>4 DEF Completes, FromTheStart
      <4>6. QED
        BY <4>5
    <3>3. QED
      BY <3>1, <3>2
  <2>7. QED
    BY <2>4, <2>5, <2>6 DEF Completing, Absent
<1>6. QED
  BY <1>4, <1>5

LEMMA WholeStep ==
    ASSUME IInv, Calls, Completing, Absent, NEW r \in Requests,
             \/ Refuse(r) \/ Add(r) \/ Update(r) \/ ForceDelete(r) \/ Delete(r)
             \/ Reset(r) \/ Apply(r) \/ Read(r) \/ Generate(r) \/ Deploy(r)
             \/ ResetMachine(r) \/ Write(r) \/ Finish(r) \/ Timeout(r) \/ Fail(r)
    PROVE  Completing' /\ Absent'
<1>0. /\ pc \in [Requests -> {"new", "asked", "read", "reset", "generate", "configured",
                              "write", "again", "done", "failed", "dead"}]
      /\ todo \in [Requests -> Seq(WriteOf(accepted))]
  BY DEF IInv, Types, Carried
<1>1. CASE Refuse(r)
  <2>1. pc[r] \in {"new", "asked"} /\ pc'[r] = "failed" /\ todo' = todo
    BY <1>0, <1>1 DEF Refuse
  <2>2. BringsNothing(r)'
    BY <2>1, NoCalls DEF BringsNothing, HasRead
  <2>3. \A q \in Requests \ {r} : pc'[q] = pc[q] /\ todo'[q] = todo[q]
    BY <1>0, <1>1 DEF Refuse
  <2>4. ~Completes(r)
    BY <2>1 DEF Completes
  <2>5. QED
    BY <1>1, <2>1, <2>2, <2>3, <2>4, WholeOthers DEF Refuse
<1>2. CASE Add(r)
  <2>1. PICK target \in IPs \cup {NoIP}, current \in IPs \cup {NoIP}, maintenance \in BOOLEAN :
         /\ current # NoIP => maintenance
         /\ todo' = [todo EXCEPT ![r] =
              <<<<"role", TRUE>>, <<"disk", TRUE>>>>
              \o (IF target = NoIP THEN <<>> ELSE <<<<"targetIp", target>>>>)
              \o (IF current = NoIP THEN <<>> ELSE <<<<"currentIp", current>>>>)
              \o (IF maintenance THEN <<<<"maintenance", TRUE>>>> ELSE <<>>)]
    BY <1>2 DEF Add
  <2>2. /\ Len(todo'[r]) > 1
        /\ todo'[r][1] = <<"role", TRUE>> /\ todo'[r][2] = <<"disk", TRUE>>
    BY <1>0, <2>1, AddCalls
  <2>3. kind'[r] = "add" /\ pc'[r] = "write" /\ pc[r] = "new"
    BY <1>0, <1>2 DEF Add
  <2>4. BringsNothing(r)'
    BY <2>2, <2>3 DEF BringsNothing, FromTheStart
  <2>5. \A q \in Requests \ {r} : pc'[q] = pc[q] /\ todo'[q] = todo[q]
    BY <1>0, <1>2, <2>1 DEF Add
  <2>6. ~Completes(r)
    BY <2>3 DEF Completes
  <2>7. UNCHANGED <<kind, entry, pulled>>
    BY <1>2 DEF Add
  <2>8. QED
    BY <2>3, <2>4, <2>5, <2>6, <2>7, WholeOthers
<1>3. CASE Update(r) \/ ForceDelete(r) \/ Delete(r) \/ Reset(r) \/ Apply(r)
  <2>1. pc[r] \in {"new", "asked"} /\ entry # NoEntry /\ UNCHANGED <<kind, entry, pulled>>
    BY <1>3 DEF Update, ForceDelete, Delete, Reset, Apply, Takes
  <2>2. \A q \in Requests \ {r} : pc'[q] = pc[q]
    BY <1>0, <1>3 DEF Update, ForceDelete, Delete, Reset, Apply
  <2>3. \A q \in Requests \ {r} : todo'[q] = todo[q]
    <3>1. CASE Update(r)
      BY <1>0, <3>1 DEF Update
    <3>2. CASE ~Update(r)
      BY <1>0, <1>3, <3>2 DEF ForceDelete, Delete, Reset, Apply
    <3>3. QED
      BY <3>1, <3>2
  <2>4. ~Completes(r)
    BY <2>1 DEF Completes
  <2>5. QED
    BY <2>1, <2>2, <2>3, <2>4, WholeOthers
<1>4. CASE Read(r) \/ Generate(r) \/ Deploy(r) \/ ResetMachine(r)
  <2>1. pc[r] \in HasRead /\ todo[r] = <<>> /\ UNCHANGED <<kind, entry, pulled>>
    BY <1>4, NoCalls DEF Read, Generate, Deploy, ResetMachine, HasRead
  <2>2. \A q \in Requests \ {r} : pc'[q] = pc[q] /\ todo'[q] = todo[q]
    BY <1>0, <1>4 DEF Read, Generate, Deploy, ResetMachine
  <2>3. ~Completes(r) /\ ~BringsNothing(r) /\ pc[r] \notin {"failed", "dead"}
    BY <2>1 DEF Completes, BringsNothing, FromTheStart, HasRead
  <2>4. QED
    BY <2>1, <2>2, <2>3, WholeOthers
<1>5. CASE Write(r)
  BY <1>5, WriteWhole
<1>6. CASE Finish(r)
  <2>1. \/ pc'[r] = "again" /\ todo'[r] = <<Removal>>
        \/ pc'[r] = "done" /\ todo'[r] = <<>>
    BY <1>0, <1>6 DEF Finish
  <2>2. <<Removal>> # <<>> /\ <<Removal>>[1] = Removal
    OBVIOUS
  <2>3. BringsNothing(r)'
    BY <2>1, <2>2 DEF BringsNothing, HasRead
  <2>4. todo[r] = <<>> /\ pc[r] \in {"write", "again"} /\ UNCHANGED <<kind, entry, pulled>>
    BY <1>6 DEF Finish
  <2>5. ~(Lacks /\ Completes(r))
    BY <2>4 DEF Lacks, Completes, Contains
  <2>6. \A q \in Requests \ {r} : pc'[q] = pc[q] /\ todo'[q] = todo[q]
    BY <1>0, <1>6 DEF Finish
  <2>7. QED
    BY <2>3, <2>4, <2>5, <2>6, WholeOthers
<1>7. CASE Timeout(r)
  BY <1>7 DEF Timeout, Completing, Absent, Excused, Lacks, Completes, BringsNothing, FromTheStart
<1>8. CASE Fail(r)
  <2>1. pc'[r] = "failed" /\ todo'[r] = <<>> /\ UNCHANGED <<kind, entry, pulled>>
    BY <1>0, <1>8 DEF Fail
  <2>2. pc[r] \notin {"failed", "dead"}
    BY <1>8, NoCalls DEF Fail
  <2>3. Completes(r) => Excused'
    BY <2>1 DEF Completes, Excused
  <2>4. BringsNothing(r)'
    BY <2>1 DEF BringsNothing, HasRead
  <2>5. \A q \in Requests \ {r} : pc'[q] = pc[q] /\ todo'[q] = todo[q]
    BY <1>0, <1>8 DEF Fail
  <2>6. QED
    BY <2>1, <2>2, <2>3, <2>4, <2>5, WholeOthers
<1>9. QED
  BY <1>1, <1>2, <1>3, <1>4, <1>5, <1>6, <1>7, <1>8

LEMMA CrashWhole == ASSUME IInv, Calls, Completing, Absent, Crash PROVE Completing' /\ Absent'
<1>1. /\ \A r \in Requests : pc'[r] = IF InHand(r) THEN "dead" ELSE pc[r]
      /\ \A r \in Requests : todo'[r] = <<>>
      /\ UNCHANGED <<kind, entry, pulled>>
  BY DEF Crash
<1>2. \A r \in Requests : pc'[r] \notin HasRead
  BY <1>1 DEF InHand, HasRead
<1>3. Excused => Excused'
  BY <1>1 DEF Excused, InHand
<1>4. \A r \in Requests : Completes(r) => Excused'
  BY <1>1 DEF Completes, Excused, InHand
<1>5. \A r \in Requests : BringsNothing(r)'
  BY <1>1, <1>2 DEF BringsNothing
<1>6. Lacks' => Lacks
  BY <1>1 DEF Lacks
<1>7. QED
  BY <1>3, <1>4, <1>5, <1>6 DEF Completing, Absent

-----------------------------------------------------------------------------
(* What is known of the machine stays true.                                *)
LEMMA KnowsAgreeing ==
    ASSUME NEW m, NEW e, NEW g, Agrees(e, g)
    PROVE  Knows(m, e) <=> Knows(m, g)
BY DEF Agrees, Knows, DeployIP, Insecure, Moving

LEMMA HeadsHome ==
    ASSUME NEW e, NEW g, Heads(e, <<>>, g)
    PROVE  Agrees(e, g)
<1>1. \A w : ~Contains(<<>>, w)
  BY DEF Contains
<1>2. QED
  BY <1>1 DEF Heads, Agrees

LEMMA HeadsOn ==
    ASSUME NEW e \in Entry, NEW g \in Entry, NEW s, s # <<>>, Heads(e, s, g)
    PROVE  LET w == Head(s) IN
           /\ w # Removal /\ w \in Settings
           /\ Heads([e EXCEPT ![w[1]] = w[2]], Tail(s), g)
<1> DEFINE w == Head(s)
           f == [e EXCEPT ![w[1]] = w[2]]
<1>1. s \in Seq(Says(g))
  BY DEF Heads
<1>2. w \in Says(g) /\ Tail(s) \in Seq(Says(g))
  BY <1>1, HeadTailProperties
<1> HIDE DEF w
<1>3. /\ w \in Settings /\ w # Removal
      /\ w[1] = "targetIp" => w[2] = g.targetIp
      /\ w[1] = "currentIp" => w[2] = g.currentIp
      /\ w[1] = "maintenance" => w[2] = g.maintenance
      /\ w[1] = "applied" => w[2] = g.applied
  BY <1>2, SaysSame
<1>4. /\ f.targetIp = IF w[1] = "targetIp" THEN w[2] ELSE e.targetIp
      /\ f.currentIp = IF w[1] = "currentIp" THEN w[2] ELSE e.currentIp
      /\ f.maintenance = IF w[1] = "maintenance" THEN w[2] ELSE e.maintenance
      /\ f.applied = IF w[1] = "applied" THEN w[2] ELSE e.applied
  BY <1>3, SaysAfter
<1> HIDE DEF f
<1>5. ASSUME NEW k, NEW x, Contains(s, <<k, x>>), w[1] # k
      PROVE  Contains(Tail(s), <<k, x>>)
  <2>1. w # <<k, x>>
    BY <1>5
  <2>2. QED
    BY <1>1, <1>5, <2>1, ContainsTail DEF w
<1>6. f.targetIp = g.targetIp \/ Contains(Tail(s), <<"targetIp", g.targetIp>>)
  BY <1>3, <1>4, <1>5 DEF Heads
<1>7. f.currentIp = g.currentIp \/ Contains(Tail(s), <<"currentIp", g.currentIp>>)
  BY <1>3, <1>4, <1>5 DEF Heads
<1>8. f.maintenance = g.maintenance \/ Contains(Tail(s), <<"maintenance", g.maintenance>>)
  BY <1>3, <1>4, <1>5 DEF Heads
<1>9. f.applied = g.applied \/ Contains(Tail(s), <<"applied", g.applied>>)
  BY <1>3, <1>4, <1>5 DEF Heads
<1>10. Heads(f, Tail(s), g)
  BY <1>2, <1>6, <1>7, <1>8, <1>9 DEF Heads
<1>11. QED
  BY <1>3, <1>10 DEF w, f

(* A step of a request that is the only one in hand.                       *)
LEMMA TruthfulAlone ==
    ASSUME IInv, NEW r \in Requests,
           ~blurred' => /\ \A q \in Requests \ {r} : ~InHand(q) /\ pc'[q] = pc[q]
                        /\ Told(r)' /\ Describes'
    PROVE  Truthful'
<1> SUFFICES ASSUME ~blurred' PROVE OneInHand' /\ (\A q \in Requests : Told(q)') /\ Describes'
  BY DEF Truthful
<1>1. \A q \in Requests \ {r} : pc'[q] \in {"new", "done", "failed", "dead"}
  BY DEF InHand
<1>2. OneInHand'
  BY <1>1 DEF OneInHand, InHand
<1>3. \A q \in Requests \ {r} : Told(q)'
  BY <1>1 DEF Told
<1>4. QED
  BY <1>2, <1>3

LEMMA AloneIsDescribed ==
    ASSUME Truthful, ~blurred, NEW r \in Requests, Alone(r), pc[r] # "write", entry # NoEntry
    PROVE  Knows(machine, entry)
BY DEF Truthful, Describes, Alone, InHand

LEMMA InHandIsAlone ==
    ASSUME Truthful, ~blurred, NEW r \in Requests, InHand(r)
    PROVE  Alone(r) /\ Told(r)
BY DEF Truthful, OneInHand, Alone

-----------------------------------------------------------------------------
(* Truthful is kept, action by action.                                     *)
LEMMA InitTruthful == Init => Calls /\ Completing /\ Absent /\ Truthful
<1> SUFFICES ASSUME Init PROVE Calls /\ Completing /\ Absent /\ Truthful
  OBVIOUS
<1>1. \A r \in Requests : pc[r] = "new" /\ todo[r] = <<>>
  BY DEF Init
<1>2. Calls
  BY <1>1, FitsNothing DEF Calls
<1>3. PICK ip \in IPs :
         \/ entry = NoEntry
         \/ /\ entry = Production(ip)
            /\ machine = [ip |-> ip, maintenance |-> FALSE]
  BY DEF Init
<1>4. Completing
  BY <1>3 DEF Completing, Lacks, Production
<1>5. Absent
  BY <1>1 DEF Absent, BringsNothing, HasRead
<1>6. Describes
  <2>1. ip # NoIP
    BY NodesAssumption
  <2>2. CASE entry = NoEntry
    BY <2>2 DEF Describes
  <2>3. CASE entry # NoEntry
    <3>1. /\ entry.targetIp = ip /\ entry.currentIp = ip
          /\ entry.maintenance = FALSE /\ entry.applied = TRUE
          /\ machine.ip = ip /\ machine.maintenance = FALSE
      BY <1>3, <2>3 DEF Production
    <3>2. Knows(machine, entry)
      BY <2>1, <3>1 DEF Knows, Accepts, DeployIP, Insecure, Moving
    <3>3. QED
      BY <3>2 DEF Describes
  <2>4. QED
    BY <2>2, <2>3
<1>7. OneInHand /\ \A r \in Requests : Told(r)
  BY <1>1 DEF OneInHand, InHand, Told
<1>8. QED
  BY <1>2, <1>4, <1>5, <1>6, <1>7 DEF Truthful

LEMMA RefuseTruthful ==
    ASSUME IInv, Truthful, NEW r \in Requests, Refuse(r) PROVE Truthful'
<1>1. /\ pc[r] \in {"new", "asked"} /\ pc' = [pc EXCEPT ![r] = "failed"]
      /\ UNCHANGED <<kind, entry, machine, node, todo, blurred>>
  BY DEF Refuse
<1>2. pc'[r] = "failed" /\ \A q \in Requests \ {r} : pc'[q] = pc[q]
  BY <1>1 DEF IInv, Types
<1> SUFFICES ASSUME ~blurred' PROVE OneInHand' /\ (\A q \in Requests : Told(q)') /\ Describes'
  BY DEF Truthful
<1>3. OneInHand /\ (\A q \in Requests : Told(q)) /\ Describes
  BY <1>1 DEF Truthful
<1>4. \A q \in Requests : InHand(q)' => InHand(q)
  BY <1>2 DEF InHand
<1>5. OneInHand'
  BY <1>3, <1>4 DEF OneInHand
<1>6. Told(r)'
  BY <1>2 DEF Told
<1>7. ASSUME NEW q \in Requests, q # r PROVE Told(q)'
  <2>1. pc'[q] = pc[q] /\ Told(q)
    BY <1>2, <1>3, <1>7
  <2>2. QED
    BY <1>1, <2>1 DEF Told, Removes, Teaches, Now
<1>8. Describes'
  <2>1. (\A q \in Requests : pc'[q] # "write") => \A q \in Requests : pc[q] # "write"
    BY <1>1, <1>2
  <2>2. QED
    BY <1>1, <1>3, <2>1 DEF Describes
<1>9. QED
  BY <1>5, <1>6, <1>7, <1>8

LEMMA TimeoutTruthful ==
    ASSUME Truthful, NEW r \in Requests, Timeout(r) PROVE Truthful'
BY DEF Timeout, Truthful, OneInHand, InHand, Told, Removes, Teaches, Now, Describes

LEMMA AddTruthful ==
    ASSUME IInv, NEW r \in Requests, Add(r) PROVE Truthful'
<1>1. PICK target \in IPs \cup {NoIP}, current \in IPs \cup {NoIP}, maintenance \in BOOLEAN :
         /\ current # NoIP => maintenance
         /\ todo' = [todo EXCEPT ![r] =
              <<<<"role", TRUE>>, <<"disk", TRUE>>>>
              \o (IF target = NoIP THEN <<>> ELSE <<<<"targetIp", target>>>>)
              \o (IF current = NoIP THEN <<>> ELSE <<<<"currentIp", current>>>>)
              \o (IF maintenance THEN <<<<"maintenance", TRUE>>>> ELSE <<>>)]
         /\ blurred' =
              \/ ~Alone(r)
              \/ ~machine.maintenance
              \/ target = NoIP
              \/ entry # NoEntry
              \/ machine.ip # IF current = NoIP THEN target ELSE current
  BY DEF Add
<1>2. PICK g : g = [role |-> TRUE, disk |-> TRUE, targetIp |-> target, currentIp |-> current,
                    maintenance |-> maintenance, configured |-> FALSE, applied |-> FALSE]
  OBVIOUS
<1>3. g \in Entry /\ Heads(Blank, todo'[r], g)
  BY <1>1, <1>2, AddCalls DEF IInv, Carried
<1>4. /\ entry' = entry /\ kind[r] = "add"
      /\ pc' = [pc EXCEPT ![r] = "write"] /\ UNCHANGED <<kind, machine>>
  BY DEF Add
<1>5. pc'[r] = "write" /\ \A q \in Requests \ {r} : pc'[q] = pc[q]
  BY <1>4 DEF IInv, Types
<1>6. ASSUME ~blurred' PROVE Told(r)'
  <2>1. machine.maintenance /\ target # NoIP /\ machine.ip = IF current = NoIP THEN target ELSE current
    BY <1>1, <1>6
  <2>2. /\ g.targetIp = target /\ g.currentIp = current /\ g.applied = FALSE
    BY <1>2
  <2>3. machine.maintenance = TRUE
    BY <2>1 DEF IInv, Types, Machine
  <2>4. DeployIP(g) = machine.ip
    BY <2>1, <2>2 DEF DeployIP, Moving
  <2>5. Knows(machine, g)
    BY <2>1, <2>2, <2>3, <2>4 DEF Knows, Accepts, Insecure
  <2>6. entry' = NoEntry
    BY <1>1, <1>4, <1>6
  <2>7. Teaches(r)'
    BY <1>3, <1>4, <2>5, <2>6 DEF Teaches, Now
  <2>8. QED
    BY <1>5, <2>7 DEF Told
<1>7. Describes'
  BY <1>5 DEF Describes
<1>8. ~blurred' => Alone(r)
  BY <1>1
<1>9. QED
  BY <1>5, <1>6, <1>7, <1>8, TruthfulAlone DEF Alone

LEMMA UpdateTruthful ==
    ASSUME IInv, Truthful, NEW r \in Requests, Update(r) PROVE Truthful'
<1>1. /\ entry # NoEntry /\ kind[r] = "update" /\ pc[r] = "new"
      /\ pc' = [pc EXCEPT ![r] = "write"] /\ UNCHANGED <<kind, entry, machine>>
  BY DEF Update
<1>2. pc'[r] = "write" /\ \A q \in Requests \ {r} : pc'[q] = pc[q]
  BY <1>1 DEF IInv, Types
<1>3. entry \in Entry /\ machine \in Machine
  BY <1>1, EntryOfType DEF IInv, Types, Carried
<1>4. ~blurred' => ~blurred /\ Alone(r)
  BY DEF Update
<1>5. ASSUME ~blurred', NEW g \in Entry, Knows(machine, g), Heads(entry, todo'[r], g)
      PROVE  Told(r)'
  <2>1. Teaches(r)'
    BY <1>1, <1>5 DEF Teaches, Now
  <2>2. QED
    BY <1>2, <2>1 DEF Told
<1>6. ASSUME ~blurred' PROVE Told(r)'
  <2>1. Knows(machine, entry)
    BY <1>1, <1>4, <1>6, AloneIsDescribed
  <2>2. /\ entry.targetIp \in IPs \cup {NoIP} /\ entry.currentIp \in IPs \cup {NoIP}
        /\ entry.maintenance \in BOOLEAN /\ entry.applied \in BOOLEAN
        /\ machine.ip \in IPs /\ machine.maintenance \in BOOLEAN
    BY <1>3 DEF Entry, Machine
  <2>3. CASE \E ip \in IPs :
            /\ todo' = [todo EXCEPT ![r] = <<<<"targetIp", ip>>>>]
            /\ blurred' =
                 \/ blurred
                 \/ ~Alone(r)
                 \/ /\ machine.ip # ip
                    /\ machine.maintenance => machine.ip # entry.currentIp
    <3>1. PICK ip \in IPs :
            /\ todo' = [todo EXCEPT ![r] = <<<<"targetIp", ip>>>>]
            /\ machine.ip = ip \/ (machine.maintenance /\ machine.ip = entry.currentIp)
      <4>1. PICK ip \in IPs :
              /\ todo' = [todo EXCEPT ![r] = <<<<"targetIp", ip>>>>]
              /\ blurred' =
                   \/ blurred
                   \/ ~Alone(r)
                   \/ /\ machine.ip # ip
                      /\ machine.maintenance => machine.ip # entry.currentIp
        BY <2>3
      <4>2. ~(machine.ip # ip /\ (machine.maintenance => machine.ip # entry.currentIp))
        BY <1>6, <4>1, Zenon
      <4>3. machine.ip = ip \/ (machine.maintenance /\ machine.ip = entry.currentIp)
        BY <4>2
      <4>4. QED
        BY <4>1, <4>3
    <3>2. PICK g : g = [entry EXCEPT !.targetIp = ip]
      OBVIOUS
    <3>3. /\ g \in Entry /\ g.targetIp = ip /\ g.currentIp = entry.currentIp
          /\ g.maintenance = entry.maintenance /\ g.applied = entry.applied
      BY <1>3, <3>2 DEF Entry
    <3>4. Knows(machine, g)
      <4>1. ip # NoIP
        BY NodesAssumption
      <4>2. QED
        BY <2>1, <2>2, <3>1, <3>3, <4>1, NodesAssumption
           DEF Knows, Accepts, DeployIP, Insecure, Moving
    <3>5. <<"targetIp", ip>> \in Says(g)
      BY <3>3 DEF Says
    <3>6. Heads(entry, <<<<"targetIp", ip>>>>, g)
      BY <3>3, <3>5, SeqOfOne, ContainsOnly DEF Heads
    <3>7. todo'[r] = <<<<"targetIp", ip>>>>
      BY <3>1 DEF IInv, Carried
    <3>8. QED
      BY <1>5, <1>6, <3>3, <3>4, <3>6, <3>7
  <2>4. CASE \E ip \in IPs :
            /\ todo' = [todo EXCEPT ![r] =
                          <<<<"currentIp", ip>>, <<"maintenance", TRUE>>>>]
            /\ blurred' = (blurred \/ ~Alone(r)
                             \/ machine # [ip |-> ip, maintenance |-> TRUE])
    <3>1. PICK ip \in IPs :
            /\ todo' = [todo EXCEPT ![r] =
                          <<<<"currentIp", ip>>, <<"maintenance", TRUE>>>>]
            /\ machine = [ip |-> ip, maintenance |-> TRUE]
      BY <1>6, <2>4
    <3>2. PICK g : g = [entry EXCEPT !.currentIp = ip, !.maintenance = TRUE]
      OBVIOUS
    <3>3. /\ g \in Entry /\ g.targetIp = entry.targetIp /\ g.currentIp = ip
          /\ g.maintenance = TRUE /\ g.applied = entry.applied
      BY <1>3, <3>2 DEF Entry
    <3>4. Knows(machine, g)
      BY <2>1, <3>1, <3>3, NodesAssumption DEF Knows, Accepts, DeployIP, Insecure, Moving
    <3>5. <<"currentIp", ip>> \in Says(g) /\ <<"maintenance", TRUE>> \in Says(g)
      BY <3>3 DEF Says
    <3>6. Heads(entry, <<<<"currentIp", ip>>, <<"maintenance", TRUE>>>>, g)
      BY <3>3, <3>5, SeqOfTwo, ContainsSecond DEF Heads
    <3>7. todo'[r] = <<<<"currentIp", ip>>, <<"maintenance", TRUE>>>>
      BY <3>1 DEF IInv, Carried
    <3>8. QED
      BY <1>5, <1>6, <3>3, <3>4, <3>6, <3>7
  <2>5. CASE \E on \in BOOLEAN :
            /\ todo' = [todo EXCEPT ![r] = <<<<"maintenance", on>>>>]
            /\ blurred' = (blurred \/ ~Alone(r) \/ machine.maintenance # on)
    <3>1. PICK on \in BOOLEAN :
            /\ todo' = [todo EXCEPT ![r] = <<<<"maintenance", on>>>>]
            /\ machine.maintenance = on
      BY <1>6, <2>5
    <3>2. PICK g : g = [entry EXCEPT !.maintenance = on]
      OBVIOUS
    <3>3. /\ g \in Entry /\ g.targetIp = entry.targetIp /\ g.currentIp = entry.currentIp
          /\ g.maintenance = on /\ g.applied = entry.applied
      BY <1>3, <3>2 DEF Entry
    <3>4. Knows(machine, g)
      BY <2>1, <2>2, <3>1, <3>3 DEF Knows, Accepts, DeployIP, Insecure, Moving
    <3>5. <<"maintenance", on>> \in Says(g)
      BY <3>3 DEF Says
    <3>6. Heads(entry, <<<<"maintenance", on>>>>, g)
      BY <3>3, <3>5, SeqOfOne, ContainsOnly DEF Heads
    <3>7. todo'[r] = <<<<"maintenance", on>>>>
      BY <3>1 DEF IInv, Carried
    <3>8. QED
      BY <1>5, <1>6, <3>3, <3>4, <3>6, <3>7
  <2>6. QED
    BY <2>3, <2>4, <2>5 DEF Update
<1>7. Describes'
  BY <1>2 DEF Describes
<1>8. QED
  BY <1>2, <1>4, <1>6, <1>7, TruthfulAlone DEF Alone

LEMMA ForceDeleteTruthful ==
    ASSUME IInv, NEW r \in Requests, ForceDelete(r) PROVE Truthful'
<1>1. /\ pc' = [pc EXCEPT ![r] = "write"] /\ blurred' = (blurred \/ ~Alone(r))
      /\ todo' = [todo EXCEPT ![r] = <<Removal>>]
  BY DEF ForceDelete, Takes
<1>2. /\ pc'[r] = "write" /\ todo'[r] = <<Removal>>
      /\ \A q \in Requests \ {r} : pc'[q] = pc[q]
  BY <1>1 DEF IInv, Types, Carried
<1>3. Removes(r)'
  BY <1>2 DEF Removes
<1>4. Told(r)' /\ Describes'
  BY <1>2, <1>3 DEF Told, Describes
<1>5. QED
  BY <1>1, <1>2, <1>4, TruthfulAlone DEF Alone

LEMMA BeginsTruthful ==
    ASSUME IInv, Truthful, NEW r \in Requests, Delete(r) \/ Reset(r) \/ Apply(r)
    PROVE  Truthful'
<1>1. /\ pc[r] \in {"new", "asked"} /\ entry # NoEntry /\ UNCHANGED <<entry, machine>>
      /\ \/ pc' = [pc EXCEPT ![r] = "asked"]
         \/ pc' = [pc EXCEPT ![r] = "read"] /\ node' = [node EXCEPT ![r] = entry]
  BY DEF Delete, Reset, Apply, Takes
<1>2. ASSUME ~blurred' PROVE ~blurred /\ Alone(r)
  <2>1. CASE pc[r] = "new"
    BY <1>2, <2>1 DEF Delete, Reset, Apply, Takes
  <2>2. CASE pc[r] = "asked"
    <3>1. ~blurred
      BY <1>2 DEF Delete, Reset, Apply, Takes
    <3>2. QED
      BY <2>2, <3>1, InHandIsAlone DEF InHand
  <2>3. QED
    BY <1>1, <2>1, <2>2
<1>3. \A q \in Requests \ {r} : pc'[q] = pc[q]
  BY <1>1 DEF IInv, Types
<1>4. pc'[r] = "asked" \/ (pc'[r] = "read" /\ node'[r] = entry)
  <2>1. /\ pc \in [Requests -> {"new", "asked", "read", "reset", "generate", "configured",
                                "write", "again", "done", "failed", "dead"}]
        /\ DOMAIN node = Requests
    BY DEF IInv, Types, Carried
  <2>2. CASE pc' = [pc EXCEPT ![r] = "asked"]
    <3>1. pc'[r] = "asked"
      BY <2>1, <2>2
    <3>2. QED
      BY <3>1
  <2>3. CASE pc' = [pc EXCEPT ![r] = "read"] /\ node' = [node EXCEPT ![r] = entry]
    BY <2>1, <2>3
  <2>4. QED
    BY <1>1, <2>2, <2>3
<1>5. Told(r)'
  BY <1>1, <1>4 DEF Told
<1>6. ASSUME ~blurred' PROVE Describes'
  BY <1>1, <1>2, <1>6, AloneIsDescribed DEF Describes
<1>7. QED
  BY <1>2, <1>3, <1>5, <1>6, TruthfulAlone DEF Alone

LEMMA ReadTruthful ==
    ASSUME IInv, Truthful, NEW r \in Requests, Read(r) PROVE Truthful'
<1>1. /\ pc[r] = "read" /\ UNCHANGED <<entry, machine>>
      /\ pc' = [pc EXCEPT ![r] = IF kind[r] = "apply" THEN "generate" ELSE "reset"]
  BY DEF Read
<1>2. pc'[r] \in {"generate", "reset"} /\ \A q \in Requests \ {r} : pc'[q] = pc[q]
  BY <1>1 DEF IInv, Types
<1>3. PICK n : node' = [node EXCEPT ![r] = n] /\ blurred' = (blurred \/ n # entry)
  <2>1. PICK read, lost : /\ node' = [node EXCEPT ![r] = Misread(read, lost)]
                          /\ blurred' = (blurred \/ Misread(read, lost) # entry)
    BY DEF Read
  <2>2. QED
    BY <2>1
<1>4. ASSUME ~blurred' PROVE Alone(r) /\ Told(r)' /\ Describes'
  <2>1. ~blurred /\ n = entry
    BY <1>3, <1>4
  <2>2. Alone(r) /\ node[r] = entry
    BY <1>1, <2>1, InHandIsAlone DEF InHand, Told
  <2>3. entry # NoEntry
    BY <1>1, <2>2, EntryOfType DEF IInv, Types, Carried, HasRead
  <2>4. node'[r] = entry
    BY <1>3, <2>1 DEF IInv, Carried
  <2>5. Told(r)'
    BY <1>1, <1>2, <2>4 DEF Told
  <2>6. Describes'
    BY <1>1, <2>1, <2>2, <2>3, AloneIsDescribed DEF Describes
  <2>7. QED
    BY <2>2, <2>5, <2>6
<1>5. QED
  BY <1>2, <1>4, TruthfulAlone DEF Alone

LEMMA GenerateTruthful ==
    ASSUME IInv, Truthful, NEW r \in Requests, Generate(r) PROVE Truthful'
<1>1. /\ pc[r] = "generate" /\ UNCHANGED <<entry, machine, blurred>>
      /\ pc' = [pc EXCEPT ![r] = "configured"]
  BY DEF Generate
<1>2. pc'[r] = "configured" /\ \A q \in Requests \ {r} : pc'[q] = pc[q]
  BY <1>1 DEF IInv, Types
<1>3. ASSUME ~blurred' PROVE Alone(r) /\ Told(r)' /\ Describes'
  <2>1. ~blurred /\ Alone(r) /\ node[r] = entry
    BY <1>1, <1>3, InHandIsAlone DEF InHand, Told
  <2>2. entry # NoEntry /\ entry \in Entry
    BY <1>1, <2>1, EntryOfType DEF IInv, Types, Carried, HasRead
  <2>3. PICK n : n = [entry EXCEPT !.configured = TRUE]
    OBVIOUS
  <2>4. n \in Entry /\ Agrees(entry, n)
    BY <2>2, <2>3 DEF Entry, Agrees
  <2>5. node'[r] = n
    BY <2>1, <2>3 DEF Generate, IInv, Carried
  <2>6. todo'[r] = StatusWrites(n)
    BY <2>5 DEF Generate, IInv, Carried
  <2>7. StatusWrites(n) \in Seq(Says(n))
    BY <2>4, StatusWritesSay
  <2>8. Told(r)'
    BY <1>1, <1>2, <2>2, <2>4, <2>5, <2>6, <2>7 DEF Told
  <2>9. Describes'
    BY <1>1, <2>1, <2>2, AloneIsDescribed DEF Describes
  <2>10. QED
    BY <2>1, <2>8, <2>9
<1>4. QED
  BY <1>2, <1>3, TruthfulAlone DEF Alone

LEMMA DeployTruthful ==
    ASSUME IInv, Calls, Truthful, NEW r \in Requests, Deploy(r) PROVE Truthful'
<1>1. /\ pc[r] = "configured" /\ UNCHANGED <<kind, entry, blurred>>
      /\ pc' = [pc EXCEPT ![r] = "write"]
      /\ machine' = [ip |-> IF node[r].targetIp = NoIP THEN machine.ip
                            ELSE node[r].targetIp, maintenance |-> FALSE]
  BY DEF Deploy
<1>2. pc'[r] = "write" /\ \A q \in Requests \ {r} : pc'[q] = pc[q]
  BY <1>1 DEF IInv, Types
<1>3. kind[r] = "apply"
  BY <1>1 DEF Calls, CallsFit
<1>4. ASSUME ~blurred' PROVE Alone(r) /\ Told(r)' /\ Describes'
  <2>1. ~blurred /\ Alone(r) /\ entry # NoEntry /\ Agrees(entry, node[r])
    BY <1>1, <1>4, InHandIsAlone DEF InHand, Told
  <2>2. node[r] \in Entry
    BY <1>1, EntryOfType DEF IInv, Types, Carried, HasRead
  <2>3. Knows(machine, entry)
    BY <1>1, <2>1, AloneIsDescribed
  <2>4. node[r].targetIp # NoIP
    BY <2>1, <2>3 DEF Agrees, Knows
  <2>5. PICK g : g = Deployed(node[r])
    OBVIOUS
  <2>6. /\ g \in Entry /\ g.targetIp = node[r].targetIp /\ g.currentIp = node[r].targetIp
        /\ g.maintenance = FALSE /\ g.applied = TRUE
    BY <2>2, <2>5 DEF Entry, Deployed
  <2>7. Knows(machine', g)
    BY <1>1, <2>4, <2>6 DEF Knows, Accepts, DeployIP, Insecure, Moving
  <2>9. todo'[r] = StatusWrites(g)
    BY <2>5 DEF Deploy, IInv, Carried
  <2>10. /\ StatusWrites(g) \in Seq(Says(g))
         /\ Contains(StatusWrites(g), <<"maintenance", g.maintenance>>)
         /\ Contains(StatusWrites(g), <<"applied", g.applied>>)
         /\ Contains(StatusWrites(g), <<"currentIp", g.currentIp>>)
    BY <2>4, <2>6, StatusWritesSay
  <2>11. entry.targetIp = g.targetIp
    BY <2>1, <2>6 DEF Agrees
  <2>12. Heads(entry, StatusWrites(g), g)
    BY <2>10, <2>11 DEF Heads
  <2>13. Teaches(r)'
    BY <1>1, <1>3, <2>1, <2>6, <2>7, <2>9, <2>12 DEF Teaches, Now
  <2>14. Told(r)' /\ Describes'
    BY <1>2, <2>13 DEF Told, Describes
  <2>15. QED
    BY <2>1, <2>14
<1>5. QED
  BY <1>2, <1>4, TruthfulAlone DEF Alone

LEMMA ResetMachineTruthful ==
    ASSUME IInv, Truthful, NEW r \in Requests, ResetMachine(r) PROVE Truthful'
<1>1. /\ pc[r] = "reset" /\ pc' = [pc EXCEPT ![r] = "write"] /\ UNCHANGED blurred
      /\ todo' = [todo EXCEPT ![r] = ResetWrites(node[r])]
  BY DEF ResetMachine
<1>2. /\ pc'[r] = "write" /\ todo'[r] = ResetWrites(node[r])
      /\ \A q \in Requests \ {r} : pc'[q] = pc[q]
  BY <1>1 DEF IInv, Types, Carried
<1>3. node[r] \in Entry
  BY <1>1, EntryOfType DEF IInv, Types, Carried, HasRead
<1>4. Removes(r)'
  <2>1. Len(ResetWrites(node[r])) # 0 /\ ResetWrites(node[r])[Len(ResetWrites(node[r]))] = Removal
    BY <1>3, FitsResetWrites
  <2>2. ResetWrites(node[r]) # <<>>
    BY <2>1
  <2>3. QED
    BY <1>2, <2>1, <2>2 DEF Removes
<1>5. Told(r)' /\ Describes'
  BY <1>2, <1>4 DEF Told, Describes
<1>6. ~blurred' => Alone(r)
  BY <1>1, InHandIsAlone DEF InHand
<1>7. QED
  BY <1>2, <1>5, <1>6, TruthfulAlone DEF Alone

LEMMA FinishTruthful ==
    ASSUME IInv, Truthful, NEW r \in Requests, Finish(r) PROVE Truthful'
<1>1. /\ pc[r] \in {"write", "again"} /\ todo[r] = <<>>
      /\ UNCHANGED <<kind, entry, machine, blurred>>
      /\ \/ kind[r] = "delete" /\ pc[r] = "write" /\ pc' = [pc EXCEPT ![r] = "again"]
         \/ pc' = [pc EXCEPT ![r] = "done"]
  BY DEF Finish
<1>2. /\ \/ kind[r] = "delete" /\ pc[r] = "write" /\ pc'[r] = "again"
         \/ pc'[r] = "done"
      /\ \A q \in Requests \ {r} : pc'[q] = pc[q]
  BY <1>1 DEF IInv, Types
<1>3. ASSUME ~blurred' PROVE Alone(r) /\ Told(r)' /\ Describes'
  <2>1. ~blurred /\ Alone(r) /\ Told(r)
    BY <1>1, <1>3, InHandIsAlone DEF InHand
  <2>2. \/ entry = NoEntry
        \/ kind[r] # "delete" /\ Knows(machine, entry)
    <3>1. CASE pc[r] = "again" \/ Removes(r)
      BY <1>1, <2>1, <3>1 DEF Told, Removes
    <3>2. CASE pc[r] = "write" /\ Teaches(r)
      <4>1. PICK g \in Entry : Knows(machine, g) /\ Heads(Now, <<>>, g)
        BY <1>1, <3>2 DEF Teaches
      <4>2. Agrees(Now, g)
        BY <4>1, HeadsHome
      <4>3. Knows(machine, Now)
        BY <4>1, <4>2, KnowsAgreeing
      <4>4. QED
        BY <3>2, <4>3 DEF Now, Teaches
    <3>3. QED
      BY <1>1, <2>1, <3>1, <3>2 DEF Told
  <2>3. Told(r)'
    BY <1>1, <1>2, <2>2 DEF Told
  <2>4. Describes'
    BY <1>1, <2>2 DEF Describes
  <2>5. QED
    BY <2>1, <2>3, <2>4
<1>4. QED
  BY <1>2, <1>3, TruthfulAlone DEF Alone

LEMMA FailTruthful ==
    ASSUME IInv, Calls, Truthful, NEW r \in Requests, Fail(r) PROVE Truthful'
<1>1. /\ pc' = [pc EXCEPT ![r] = "failed"] /\ UNCHANGED <<entry, machine>>
      /\ blurred' = (blurred \/ pc[r] = "write")
  BY DEF Fail
<1>2. pc'[r] = "failed" /\ \A q \in Requests \ {r} : pc'[q] = pc[q]
  BY <1>1 DEF IInv, Types
<1>3. InHand(r)
  BY NoCalls DEF Fail, InHand
<1>4. ASSUME ~blurred' PROVE Alone(r) /\ Told(r)' /\ Describes'
  <2>1. ~blurred /\ pc[r] # "write" /\ Alone(r)
    BY <1>1, <1>3, <1>4, InHandIsAlone
  <2>2. Told(r)'
    BY <1>2 DEF Told
  <2>3. Describes'
    BY <1>1, <2>1, AloneIsDescribed DEF Describes
  <2>4. QED
    BY <2>1, <2>2, <2>3
<1>5. QED
  BY <1>2, <1>4, TruthfulAlone DEF Alone

LEMMA CrashTruthful == ASSUME IInv, Truthful, Crash PROVE Truthful'
<1>1. /\ \A r \in Requests : pc'[r] = IF InHand(r) THEN "dead" ELSE pc[r]
      /\ UNCHANGED <<entry, machine>>
      /\ blurred' = (blurred \/ \E r \in Requests : pc[r] = "write")
  BY DEF Crash
<1>2. \A r \in Requests : pc'[r] \in {"new", "done", "failed", "dead"}
  BY <1>1 DEF InHand
<1>3. OneInHand' /\ \A r \in Requests : Told(r)'
  BY <1>2 DEF OneInHand, InHand, Told
<1>4. ~blurred' => Describes'
  BY <1>1 DEF Truthful, Describes
<1>5. QED
  BY <1>3, <1>4 DEF Truthful

LEMMA WriteTruthful ==
    ASSUME IInv, Calls, Truthful, NEW r \in Requests, Write(r) PROVE Truthful'
<1> DEFINE w == Head(todo[r])
<1>1. /\ todo[r] \in Seq(WriteOf(accepted)) /\ todo[r] # <<>>
      /\ todo' = [todo EXCEPT ![r] = Tail(todo[r])]
      /\ UNCHANGED <<kind, pc, machine, node, blurred>>
      /\ todo'[r] = Tail(todo[r])
  BY DEF Write, IInv, Carried
<1>2. /\ pc[r] \in {"configured", "write", "again"}
      /\ CallsFit(kind[r], pc[r], Tail(todo[r]))
      /\ w = Removal => Tail(todo[r]) = <<>>
      /\ w # Removal => w \in Settings /\ pc[r] # "again"
  <2>1. CallsFit(kind[r], pc[r], todo[r])
    BY DEF Calls
  <2>2. /\ CallsFit(kind[r], pc[r], Tail(todo[r]))
        /\ w = Removal => Tail(todo[r]) = <<>>
        /\ w # Removal => w \in Settings /\ pc[r] # "again"
    BY <1>1, <2>1, FitsTail
  <2>3. pc[r] \in {"configured", "write", "again"}
    BY <1>1, <2>1 DEF CallsFit
  <2>4. QED
    BY <2>2, <2>3
<1>3. /\ w = Removal => entry' = NoEntry
      /\ w # Removal => entry' = [Now EXCEPT ![w[1]] = w[2]]
  BY DEF Write, Now
<1>4. Now \in Entry
  BY EntryOfType, BlankType DEF Now, IInv, Types, Carried
<1> SUFFICES ASSUME ~blurred' PROVE Alone(r) /\ Told(r)' /\ Describes'
  BY <1>1, TruthfulAlone DEF Alone
<1>5. ~blurred /\ Alone(r) /\ Told(r)
  BY <1>1, <1>2, InHandIsAlone DEF InHand
<1>6. CASE pc[r] = "configured"
  <2>1. entry # NoEntry /\ Agrees(entry, node[r]) /\ todo[r] \in Seq(Says(node[r]))
    BY <1>5, <1>6 DEF Told
  <2>2. node[r] \in Entry /\ Now = entry
    BY <1>6, <2>1, EntryOfType DEF IInv, Types, Carried, HasRead, Now
  <2>3. w \in Says(node[r]) /\ Tail(todo[r]) \in Seq(Says(node[r]))
    BY <1>1, <2>1, HeadTailProperties
  <2> HIDE DEF w
  <2>4. /\ w \in Settings /\ w # Removal
        /\ w[1] = "targetIp" => w[2] = node[r].targetIp
        /\ w[1] = "currentIp" => w[2] = node[r].currentIp
        /\ w[1] = "maintenance" => w[2] = node[r].maintenance
        /\ w[1] = "applied" => w[2] = node[r].applied
    BY <2>2, <2>3, SaysSame
  <2>5. entry' = [entry EXCEPT ![w[1]] = w[2]]
    BY <1>3, <2>2, <2>4
  <2>6. /\ entry' \in Entry
        /\ entry'.targetIp = IF w[1] = "targetIp" THEN w[2] ELSE entry.targetIp
        /\ entry'.currentIp = IF w[1] = "currentIp" THEN w[2] ELSE entry.currentIp
        /\ entry'.maintenance = IF w[1] = "maintenance" THEN w[2] ELSE entry.maintenance
        /\ entry'.applied = IF w[1] = "applied" THEN w[2] ELSE entry.applied
    BY <1>4, <2>2, <2>4, <2>5, SaysAfter
  <2>7. Agrees(entry', node[r])
    BY <2>1, <2>4, <2>6 DEF Agrees
  <2>8. entry' # NoEntry
    BY <2>6, NodesAssumption
  <2>9. Knows(machine, entry)
    BY <1>5, <1>6, <2>1, AloneIsDescribed
  <2>10. Knows(machine, entry')
    BY <2>1, <2>7, <2>9, KnowsAgreeing
  <2>11. Told(r)'
    BY <1>1, <1>6, <2>3, <2>7, <2>8 DEF Told
  <2>12. Describes'
    BY <1>1, <2>10 DEF Describes
  <2>13. QED
    BY <1>5, <2>11, <2>12
<1>7. CASE pc[r] = "write"
  <2>1. Describes'
    BY <1>1, <1>7 DEF Describes
  <2>2. CASE todo[r][Len(todo[r])] = Removal
    <3>1. ASSUME w = Removal PROVE Removes(r)'
      BY <1>1, <1>2, <1>3, <3>1 DEF Removes
    <3>2. ASSUME w # Removal PROVE Removes(r)'
      <4>1. Len(todo[r]) \in Nat \ {0} /\ w = todo[r][1]
        BY <1>1, EmptySeq
      <4>2. Len(todo[r]) # 1
        BY <2>2, <3>2, <4>1
      <4>a. Len(Tail(todo[r])) = Len(todo[r]) - 1
        BY <1>1, HeadTailProperties
      <4>3. /\ Len(Tail(todo[r])) = Len(todo[r]) - 1
            /\ \A i \in 1..Len(Tail(todo[r])) : Tail(todo[r])[i] = todo[r][i + 1]
        BY <1>1, HeadTailProperties
      <4>4. /\ Len(Tail(todo[r])) \in 1..Len(Tail(todo[r]))
            /\ Len(Tail(todo[r])) + 1 = Len(todo[r])
        <5>1. ASSUME NEW n \in Nat \ {0}, n # 1, NEW m, m = n - 1
              PROVE  m \in 1..m /\ m + 1 = n
          BY <5>1
        <5>2. QED
          BY <4>1, <4>2, <4>a, <5>1
      <4>5. Tail(todo[r])[Len(Tail(todo[r]))] = Removal
        BY <2>2, <4>3, <4>4
      <4>6. Tail(todo[r]) # <<>>
        <5>1. Tail(todo[r]) = <<>> => Len(Tail(todo[r])) = 0
          BY EmptySeq
        <5>2. 0 \notin 1..0
          OBVIOUS
        <5>3. QED
          BY <4>4, <5>1, <5>2
      <4>7. Removes(r)'
        BY <1>1, <4>5, <4>6 DEF Removes
      <4>8. QED
        BY <4>7
    <3>3. Removes(r)'
      BY <3>1, <3>2
    <3>4. QED
      BY <1>1, <1>5, <1>7, <2>1, <3>3 DEF Told
  <2>3. CASE Teaches(r)
    <3>1. PICK g \in Entry : Knows(machine, g) /\ Heads(Now, todo[r], g)
      BY <2>3 DEF Teaches
    <3>2. /\ w # Removal /\ w \in Settings
          /\ Heads([Now EXCEPT ![w[1]] = w[2]], Tail(todo[r]), g)
      BY <1>1, <1>4, <3>1, HeadsOn
    <3>3. entry' = [Now EXCEPT ![w[1]] = w[2]]
      BY <1>3, <3>2
    <3> HIDE DEF w
    <3>4. entry' \in Entry
      BY <1>4, <3>2, <3>3, SaysAfter
    <3>5. Now' = entry'
      BY <3>4, NodesAssumption DEF Now
    <3>6. Teaches(r)'
      BY <1>1, <2>3, <3>1, <3>2, <3>3, <3>5 DEF Teaches
    <3>7. QED
      BY <1>1, <1>5, <1>7, <2>1, <3>6 DEF Told
  <2>4. QED
    BY <1>1, <1>5, <1>7, <2>2, <2>3 DEF Told, Removes
<1>8. CASE pc[r] = "again"
  <2>1. entry' = NoEntry
    BY <1>2, <1>3, <1>8
  <2>2. QED
    BY <1>1, <1>5, <1>8, <2>1 DEF Told, Describes
<1>9. QED
  BY <1>2, <1>6, <1>7, <1>8

LEMMA NextSoundInv == SoundInv /\ [Next]_vars => SoundInv'
<1> SUFFICES ASSUME SoundInv, [Next]_vars PROVE SoundInv'
  OBVIOUS
<1>1. IInv'
  BY NextIInv DEF SoundInv
<1>2. ASSUME NEW r \in Requests,
             \/ Refuse(r) \/ Add(r) \/ Update(r) \/ ForceDelete(r) \/ Delete(r)
             \/ Reset(r) \/ Apply(r) \/ Read(r) \/ Generate(r) \/ Deploy(r)
             \/ ResetMachine(r) \/ Write(r) \/ Finish(r) \/ Timeout(r) \/ Fail(r)
      PROVE  Calls' /\ Completing' /\ Absent' /\ Truthful'
  <2>1. Calls' /\ Completing' /\ Absent'
    BY <1>2, CallsStep, WholeStep DEF SoundInv
  <2>2. Truthful'
    BY <1>2, RefuseTruthful, AddTruthful, UpdateTruthful, ForceDeleteTruthful,
       BeginsTruthful, ReadTruthful, GenerateTruthful, DeployTruthful,
       ResetMachineTruthful, WriteTruthful, FinishTruthful, TimeoutTruthful, FailTruthful
       DEF SoundInv
  <2>3. QED
    BY <2>1, <2>2
<1>3. CASE Crash
  BY <1>1, <1>3, CrashCalls, CrashWhole, CrashTruthful DEF SoundInv
<1>4. CASE UNCHANGED vars
  <2>1. Calls'
    BY <1>4 DEF SoundInv, Calls, vars
  <2>2. Completing' /\ Absent'
    BY <1>4 DEF SoundInv, Completing, Absent, Excused, Lacks, Completes, BringsNothing,
                FromTheStart, vars
  <2>3. Truthful'
    BY <1>4 DEF SoundInv, Truthful, OneInHand, InHand, Told, Removes, Teaches, Now,
                Describes, vars
  <2>4. QED
    BY <1>1, <2>1, <2>2, <2>3 DEF SoundInv
<1>5. QED
  BY <1>1, <1>2, <1>3, <1>4 DEF Next, SoundInv

(* Whatever requests run into each other: a node without role or disk is   *)
(* one that an Add has not finished, or an entry that was removed under a  *)
(* request; and as long as requests came one at a time, told the truth and *)
(* did not break off after they had acted, Apply finds the machine where   *)
(* config.yaml says, in the mode it says.                                  *)
THEOREM EntriesStaySound == Spec => []EntriesAreSound
<1>1. SoundInv => EntryIsWhole
  BY DEF SoundInv, Completing, Excused, Lacks, Completes, EntryIsWhole
<1>2. SoundInv => ApplyFindsMachine
  <2> SUFFICES ASSUME SoundInv, entry # NoEntry, ~blurred, \A r \in Requests : ~InHand(r)
               PROVE  Accepts(machine, DeployIP(entry), Insecure(entry))
    BY DEF ApplyFindsMachine
  <2>1. Describes
    BY DEF SoundInv, Truthful
  <2>2. \A r \in Requests : pc[r] # "write"
    BY DEF InHand
  <2>3. QED
    BY <2>1, <2>2 DEF Describes, Knows
<1>3. SoundInv /\ TypeOK => EntriesAreSound
  BY <1>1, <1>2 DEF EntriesAreSound
<1>4. Init => SoundInv
  BY InitIInv, InitTruthful DEF SoundInv
<1>5. QED
  BY <1>3, <1>4, NextSoundInv, NodesTypeCorrect, PTL DEF Spec

-----------------------------------------------------------------------------
(* What DeleteIsAnswered rests on, but for fairness.  Where a request      *)
(* stands, and what it was told.                                           *)
AnswerFits(r) ==
    /\ pc[r] \in {"new", "asked", "done", "failed", "dead"} => todo[r] = <<>>
    /\ pc[r] = "new" => answer[r] = "none"
    /\ pc[r] \in {"done", "failed"} => answer[r] # "none"
    /\ answer[r] = "ok" => pc[r] = "done"
    /\ kind[r] = "delete" => pc[r] \notin {"generate", "configured"}
AnswersFit == \A r \in Requests : AnswerFits(r)

(* A Delete that has no answer yet is where the time runs, or makes its    *)
(* last call; only the death of the daemon leaves a request without one.   *)
WaitsForAnswer(r) == answer[r] = "none" /\ pc[r] # "new"
TimeRuns ==
    \A r \in Requests : WaitsForAnswer(r) =>
        /\ InHand(r) \/ pc[r] = "dead"
        /\ kind[r] = "delete" /\ pc[r] # "dead" => pc[r] \in {"asked", "read", "reset", "write", "again"}
AnswersStand == \A r \in Requests : answer[r] # "none" => answer'[r] = answer[r]

LEMMA AnswerOfOne ==
    ASSUME AnswersFit, NEW r \in Requests, UNCHANGED kind,
           \A q \in Requests \ {r} : pc'[q] = pc[q] /\ todo'[q] = todo[q] /\ answer'[q] = answer[q],
           AnswerFits(r)', answer[r] # "none" => answer'[r] = answer[r]
    PROVE  AnswersFit' /\ AnswersStand
<1>1. \A q \in Requests \ {r} : AnswerFits(q)'
  BY DEF AnswersFit, AnswerFits
<1> QED
  BY <1>1 DEF AnswersFit, AnswersStand

LEMMA AnswerStep == ASSUME IInv, AnswersFit, [Next]_vars PROVE AnswersFit' /\ AnswersStand
<1>1. Types /\ pc = [q \in Requests |-> pc[q]] /\ todo = [q \in Requests |-> todo[q]]
      /\ answer = [q \in Requests |-> answer[q]]
  BY DEF IInv, Types, Carried
<1>2. \A r \in Requests : AnswerFits(r) /\ answer[r] \in {"none", "ok", "error"}
  BY <1>1 DEF AnswersFit, Types
<1>3. ASSUME NEW r \in Requests, NEW p, pc' = [pc EXCEPT ![r] = p], UNCHANGED <<kind, answer>>,
             p \in {"asked", "read", "reset", "generate", "configured", "write"}, pc[r] \notin {"done", "failed"},
             \A q \in Requests \ {r} : todo'[q] = todo[q], p = "asked" => todo'[r] = <<>>,
             p \in {"generate", "configured"} => kind[r] # "delete"
      PROVE  AnswersFit' /\ AnswersStand
  <2>1. pc'[r] = p /\ \A q \in Requests \ {r} : pc'[q] = pc[q]
    BY <1>1, <1>3
  <2>2. AnswerFits(r)'
    BY <1>2, <1>3, <2>1 DEF AnswerFits
  <2> QED
    BY <1>3, <2>1, <2>2, AnswerOfOne
<1>4. ASSUME NEW r \in Requests, Refuse(r) PROVE AnswersFit' /\ AnswersStand
  <2>1. pc'[r] = "failed" /\ \A q \in Requests \ {r} : pc'[q] = pc[q]
    BY <1>1, <1>4 DEF Refuse
  <2>2. answer'[r] = "error" /\ \A q \in Requests \ {r} : answer'[q] = answer[q]
    BY <1>1, <1>4 DEF Refuse
  <2>3. pc[r] \in {"new", "asked"} /\ UNCHANGED <<kind, todo>>
    BY <1>4 DEF Refuse
  <2>4. AnswerFits(r)' /\ (answer[r] # "none" => answer'[r] = answer[r])
    BY <1>2, <2>1, <2>2, <2>3 DEF AnswerFits
  <2> QED
    BY <2>1, <2>2, <2>3, <2>4, AnswerOfOne
<1>5. ASSUME NEW r \in Requests, Add(r) \/ Update(r) \/ ForceDelete(r) PROVE AnswersFit' /\ AnswersStand
  <2>1. pc[r] = "new" /\ pc' = [pc EXCEPT ![r] = "write"] /\ UNCHANGED <<kind, answer>>
    BY <1>5 DEF Add, Update, ForceDelete, Takes
  <2>2. \E t : todo' = [todo EXCEPT ![r] = t]
    BY <1>5 DEF Add, Update, ForceDelete
  <2>3. \A q \in Requests \ {r} : todo'[q] = todo[q]
    BY <1>1, <2>2
  <2> QED
    BY <1>3, <2>1, <2>3
<1>6. ASSUME NEW r \in Requests, Delete(r) PROVE AnswersFit' /\ AnswersStand
  <2>1. pc[r] = "new" /\ pc' = [pc EXCEPT ![r] = "asked"] /\ UNCHANGED <<kind, answer, todo>>
    BY <1>6 DEF Delete, Takes
  <2>2. todo[r] = <<>>
    BY <1>2, <2>1 DEF AnswerFits
  <2> QED
    BY <1>3, <2>1, <2>2
<1>7. ASSUME NEW r \in Requests, Reset(r) \/ Apply(r) PROVE AnswersFit' /\ AnswersStand
  BY <1>3, <1>7 DEF Reset, Apply, Takes
<1>8. ASSUME NEW r \in Requests, Read(r) PROVE AnswersFit' /\ AnswersStand
  <2>1. PICK p \in {"generate", "reset"} : pc' = [pc EXCEPT ![r] = p] /\ (p = "generate" => kind[r] = "apply")
    BY <1>8 DEF Read
  <2> QED
    BY <1>3, <1>8, <2>1 DEF Read
<1>9. ASSUME NEW r \in Requests, Generate(r) \/ Deploy(r) \/ ResetMachine(r) PROVE AnswersFit' /\ AnswersStand
  <2>1. PICK p \in {"configured", "write"} : pc' = [pc EXCEPT ![r] = p]
          /\ (p = "configured" => pc[r] = "generate")
    BY <1>9 DEF Generate, Deploy, ResetMachine
  <2>2. \E t : todo' = [todo EXCEPT ![r] = t]
    BY <1>9 DEF Generate, Deploy, ResetMachine
  <2>3. \A q \in Requests \ {r} : todo'[q] = todo[q]
    BY <1>1, <2>2
  <2>4. UNCHANGED <<kind, answer>> /\ pc[r] \in {"generate", "configured", "reset"}
    BY <1>9 DEF Generate, Deploy, ResetMachine
  <2>5. p = "configured" => kind[r] # "delete"
    BY <1>2, <2>1 DEF AnswerFits
  <2> QED
    BY <1>3, <2>1, <2>3, <2>4, <2>5
<1>10. ASSUME NEW r \in Requests, Write(r) PROVE AnswersFit' /\ AnswersStand
  <2>1. todo[r] # <<>> /\ todo' = [todo EXCEPT ![r] = Tail(todo[r])] /\ UNCHANGED <<kind, pc, answer>>
    BY <1>10 DEF Write
  <2>2. \A q \in Requests \ {r} : todo'[q] = todo[q]
    BY <1>1, <2>1
  <2>3. AnswerFits(r)'
    BY <1>2, <2>1 DEF AnswerFits
  <2> QED
    BY <2>1, <2>2, <2>3, AnswerOfOne
<1>11. ASSUME NEW r \in Requests, Finish(r) PROVE AnswersFit' /\ AnswersStand
  <2>1. pc[r] \in {"write", "again"} /\ todo[r] = <<>> /\ UNCHANGED kind
    BY <1>11 DEF Finish
  <2>2. CASE kind[r] = "delete" /\ pc[r] = "write" /\ answer[r] = "none"
    <3>1. pc' = [pc EXCEPT ![r] = "again"] /\ todo' = [todo EXCEPT ![r] = <<Removal>>] /\ UNCHANGED answer
      BY <1>11, <2>2 DEF Finish
    <3>2. pc'[r] = "again" /\ \A q \in Requests \ {r} : pc'[q] = pc[q] /\ todo'[q] = todo[q]
      BY <1>1, <3>1
    <3>3. AnswerFits(r)'
      BY <1>2, <2>2, <3>1, <3>2 DEF AnswerFits
    <3> QED
      BY <2>1, <3>1, <3>2, <3>3, AnswerOfOne
  <2>3. CASE ~(kind[r] = "delete" /\ pc[r] = "write" /\ answer[r] = "none")
    <3>1. pc' = [pc EXCEPT ![r] = "done"] /\ UNCHANGED todo
          /\ answer' = [answer EXCEPT ![r] = IF answer[r] = "none" THEN "ok" ELSE answer[r]]
      BY <1>11, <2>3 DEF Finish
    <3>2. pc'[r] = "done" /\ answer'[r] = (IF answer[r] = "none" THEN "ok" ELSE answer[r])
          /\ \A q \in Requests \ {r} : pc'[q] = pc[q] /\ answer'[q] = answer[q]
      BY <1>1, <3>1
    <3>3. AnswerFits(r)'
      BY <2>1, <3>1, <3>2 DEF AnswerFits
    <3> QED
      BY <2>1, <3>1, <3>2, <3>3, AnswerOfOne
  <2> QED
    BY <2>2, <2>3
<1>12. ASSUME NEW r \in Requests, Timeout(r) PROVE AnswersFit' /\ AnswersStand
  <2>1. pc[r] \in {"asked", "read", "reset", "write"} /\ answer[r] = "none" /\ UNCHANGED <<kind, pc, todo>>
    BY <1>12 DEF Timeout
  <2>2. answer'[r] = "error" /\ \A q \in Requests \ {r} : answer'[q] = answer[q]
    BY <1>1, <1>12 DEF Timeout
  <2>3. AnswerFits(r)'
    BY <1>2, <2>1, <2>2 DEF AnswerFits
  <2> QED
    BY <2>1, <2>2, <2>3, AnswerOfOne
<1>13. ASSUME NEW r \in Requests, Fail(r) PROVE AnswersFit' /\ AnswersStand
  <2>1. pc[r] # "done"
    BY <1>2, <1>13 DEF Fail, AnswerFits
  <2>2. /\ pc'[r] = "failed" /\ todo'[r] = <<>> /\ answer'[r] = "error" /\ UNCHANGED kind
        /\ \A q \in Requests \ {r} : pc'[q] = pc[q] /\ todo'[q] = todo[q] /\ answer'[q] = answer[q]
    BY <1>1, <1>13 DEF Fail
  <2>3. AnswerFits(r)' /\ (answer[r] # "none" => answer'[r] = answer[r])
    BY <1>2, <2>1, <2>2 DEF AnswerFits
  <2> QED
    BY <2>2, <2>3, AnswerOfOne
<1>14. ASSUME Crash PROVE AnswersFit' /\ AnswersStand
  <2>1. UNCHANGED <<kind, answer>> /\ \A q \in Requests : todo'[q] = <<>> /\ pc'[q] = IF InHand(q) THEN "dead" ELSE pc[q]
    BY <1>14 DEF Crash
  <2>2. \A q \in Requests : AnswerFits(q)'
    BY <1>2, <2>1 DEF AnswerFits, InHand
  <2> QED
    BY <2>1, <2>2 DEF AnswersFit, AnswersStand
<1>15. ASSUME UNCHANGED vars PROVE AnswersFit' /\ AnswersStand
  BY <1>15 DEF vars, AnswersFit, AnswerFits, AnswersStand
<1> QED
  BY <1>4, <1>5, <1>6, <1>7, <1>8, <1>9, <1>10, <1>11, <1>12, <1>13, <1>14, <1>15 DEF Next

(* However requests about a node overlap, time out, fail or die with the   *)
(* daemon: what a request was told is never taken back, and one that was   *)
(* told nothing is at work, a Delete where its time runs or at its last    *)
(* call, unless the daemon died.                                           *)
THEOREM DeletesAreTimed == Spec => []TimeRuns /\ [][AnswersStand]_vars
<1>1. Init => IInv /\ AnswersFit
  <2>1. Init => AnswersFit
    BY DEF Init, AnswersFit, AnswerFits
  <2> QED
    BY <2>1, InitIInv
<1>2. IInv /\ AnswersFit /\ [Next]_vars => (IInv /\ AnswersFit)'
  BY AnswerStep, NextIInv
<1>3. IInv /\ AnswersFit => TimeRuns
  BY DEF IInv, Types, AnswersFit, AnswerFits, TimeRuns, WaitsForAnswer, InHand
<1>4. IInv /\ AnswersFit /\ [Next]_vars => [AnswersStand]_vars
  BY AnswerStep
<1> QED
  BY <1>1, <1>2, <1>3, <1>4, PTL DEF Spec
=============================================================================
