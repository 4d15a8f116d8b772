---------------------------- MODULE ClusterProofs ----------------------------
(***************************************************************************)
(* Proofs about Cluster, for any number of requests and attempts: the      *)
(* progress a bootstrap shows is true of the cluster, no two bootstraps    *)
(* complete for one life of it, and the files of the instance belong       *)
(* together.  The first two rest on the life each bootstrap began: lives   *)
(* are never begun twice, and only step 0 begins one.                      *)
(***************************************************************************)
EXTENDS Cluster, FiniteSetTheorems, TLAPS

-----------------------------------------------------------------------------
Types ==
    /\ kind \in [Requests -> Kinds]
    /\ pc \in [Requests -> {"new", "secrets", "config", "remove", "track", "command",
                            "retrieve", "done", "failed", "dead"}]
    /\ life \in Nat
    /\ level \in 0..Up
    /\ step \in [Requests -> Steps]
    /\ record \in [Requests -> {"none", "pending", "completed", "failed"}]
    /\ lifeOf \in [Requests -> Nat]

(* Where a bootstrap stands and what it has begun.                         *)
Places ==
    \A r \in Requests :
        /\ pc[r] = "new" => step[r] = 0
        /\ pc[r] = "command" => kind[r] = "bootstrap" /\ step[r] = 0
        /\ pc[r] = "retrieve" /\ kind[r] = "bootstrap" => step[r] = 5
        /\ record[r] = "completed" => step[r] # 0
        /\ (step[r] = 0) = (lifeOf[r] = 0)

Lives ==
    /\ level # 0 => life # 0
    /\ \A r \in Requests : lifeOf[r] <= life
    /\ \A q, r \in Requests : q # r /\ lifeOf[q] = lifeOf[r] => lifeOf[q] = 0

Progress ==
    \A r \in Requests :
        (record[r] \in {"pending", "completed"} /\ lifeOf[r] = life /\ level # 0) =>
            /\ Before(step[r]) <= level
            /\ record[r] = "completed" => level = Up

IInv == Types /\ Places /\ Lives /\ Progress

-----------------------------------------------------------------------------
LEMMA InitIInv == Init => IInv
<1> SUFFICES ASSUME Init PROVE IInv
  OBVIOUS
<1>1. kind \in [Requests -> Kinds]
  BY ClusterAssumption DEF Init
<1>2. PICK n \in {0, 1} : life = n /\ level = IF n = 0 THEN 0 ELSE Up
  BY DEF Init
<1>3. life \in Nat /\ level \in 0..Up /\ (level # 0 => life # 0)
  BY <1>2 DEF Up
<1>4. Types
  BY <1>1, <1>3 DEF Init, Types, Steps
<1>5. Places /\ Lives /\ Progress
  BY <1>3 DEF Init, Places, Lives, Progress
<1>6. QED
  BY <1>4, <1>5 DEF IInv

(* Requests that are no bootstraps, and files: nothing here depends on     *)
(* them.                                                                   *)
LEMMA OthersAreFree ==
    ASSUME IInv, UNCHANGED <<kind, cluster, tracking>>,
           pc' \in [Requests -> {"new", "secrets", "config", "remove", "track",
                                 "command", "retrieve", "done", "failed", "dead"}],
           \A r \in Requests :
              /\ pc'[r] = "new" => pc[r] = "new"
              /\ pc'[r] = "command" => pc[r] = "command" \/ (kind[r] = "bootstrap" /\ step[r] = 0)
              /\ pc'[r] = "retrieve" /\ kind[r] = "bootstrap" => pc[r] = "retrieve" \/ step[r] = 5
    PROVE  IInv'
<1>1. UNCHANGED <<kind, life, level, step, record, lifeOf>>
  BY DEF cluster, tracking
<1>2. Types'
  BY <1>1 DEF IInv, Types
<1>3. Places'
  BY <1>1 DEF IInv, Places
<1>4. Lives' /\ Progress'
  BY <1>1 DEF IInv, Lives, Progress, Before
<1>5. QED
  BY <1>2, <1>3, <1>4 DEF IInv

LEMMA FileStepIInv ==
    ASSUME IInv, NEW r \in Requests,
           \/ Refuse(r) \/ Generate(r) \/ GenSecrets(r) \/ GenConfig(r)
           \/ GenerateFails(r) \/ Reset(r) \/ RemoveAll(r) \/ AccessFails(r)
    PROVE  IInv'
<1>1. UNCHANGED <<kind, cluster, tracking>>
  BY DEF Refuse, Generate, GenSecrets, GenConfig, GenerateFails, Reset, RemoveAll, AccessFails
<1>2. \E how \in {"secrets", "config", "remove", "done", "failed"} :
        pc' = [pc EXCEPT ![r] = how] \/ pc' = pc
  BY DEF Refuse, Generate, GenSecrets, GenConfig, GenerateFails, Reset, RemoveAll,
         AccessFails, Ends
<1>3. QED
  BY <1>1, <1>2, OthersAreFree DEF IInv, Types

LEMMA SetEndpointIInv == ASSUME IInv, NEW r \in Requests, SetEndpoint(r) PROVE IInv'
<1>1. UNCHANGED <<kind, cluster, tracking>> /\ kind[r] = "bootstrap" /\ step[r] = 0
  BY DEF SetEndpoint
<1>2. pc' = [pc EXCEPT ![r] = "command"]
  BY DEF SetEndpoint, Ends
<1>3. QED
  BY <1>1, <1>2, OthersAreFree DEF IInv, Types

LEMMA PointToVIPIInv == ASSUME IInv, NEW r \in Requests, PointToVIP(r) PROVE IInv'
<1>1. UNCHANGED <<kind, cluster, tracking>>
  BY DEF PointToVIP
<1>2. pc' = [pc EXCEPT ![r] = "retrieve"]
  BY DEF PointToVIP, Ends
<1>3. kind[r] = "bootstrap" => step[r] = 5
  BY DEF PointToVIP, Access
<1>4. QED
  BY <1>1, <1>2, <1>3, OthersAreFree DEF IInv, Types

LEMMA BootstrapIInv == ASSUME IInv, NEW r \in Requests, Bootstrap(r) PROVE IInv'
<1>1. /\ pc' = [pc EXCEPT ![r] = "track"]
      /\ record' = [record EXCEPT ![r] = "pending"]
      /\ UNCHANGED <<kind, life, level, step, lifeOf>>
  BY DEF Bootstrap, Ends, cluster
<1>2. Types'
  BY <1>1 DEF IInv, Types
<1>3. Places'
  BY <1>1 DEF IInv, Types, Places
<1>4. Lives'
  BY <1>1 DEF IInv, Lives
<1>5. Progress'
  <2> SUFFICES ASSUME NEW q \in Requests, record'[q] \in {"pending", "completed"},
                      lifeOf[q] = life, level # 0
               PROVE  Before(step[q]) <= level /\ (record'[q] = "completed" => level = Up)
    BY <1>1 DEF Progress, Before
  <2>1. CASE q = r
    <3>1. pc[r] = "new"
      BY DEF Bootstrap, Arrives
    <3>2. lifeOf[r] = 0
      BY <3>1 DEF IInv, Places
    <3>3. QED
      BY <2>1, <3>2 DEF IInv, Lives
  <2>2. CASE q # r
    BY <1>1, <2>2 DEF IInv, Types, Progress
  <2>3. QED
    BY <2>1, <2>2
<1>6. QED
  BY <1>2, <1>3, <1>4, <1>5 DEF IInv

(* Steps that end a bootstrap without success.                             *)
LEMMA FailBootstrapIInv ==
    ASSUME IInv, NEW r \in Requests, FailBootstrap(r),
           UNCHANGED <<kind, cluster, step, lifeOf>>
    PROVE  IInv'
<1>1. /\ pc' = [pc EXCEPT ![r] = "failed"]
      /\ record' = [record EXCEPT ![r] = "failed"]
      /\ UNCHANGED <<kind, life, level, step, lifeOf>>
  BY DEF FailBootstrap, Ends, cluster
<1>2. Types'
  BY <1>1 DEF IInv, Types
<1>3. Places' /\ Lives'
  BY <1>1 DEF IInv, Types, Places, Lives
<1>4. Progress'
  BY <1>1 DEF IInv, Types, Progress, Before
<1>5. QED
  BY <1>2, <1>3, <1>4 DEF IInv

(* Steps that leave the life of the cluster alone and bring a bootstrap,   *)
(* which is past step 0, to its next one.                                  *)
LEMMA NextStepIInv ==
    ASSUME IInv, NEW r \in Requests, step[r] \in 1..5, NextStep(r),
           \/ Ends(r, "track")
           \/ UNCHANGED pc /\ pc[r] = "track",
           level > Before(step[r]) \/ step[r] = 5,
           UNCHANGED <<kind, cluster, record, lifeOf>>
    PROVE  IInv'
<1>1. /\ step' = [step EXCEPT ![r] = @ + 1]
      /\ UNCHANGED <<kind, life, level, record, lifeOf>>
  BY DEF NextStep, cluster
<1>2. /\ pc' \in [Requests -> {"new", "secrets", "config", "remove", "track", "command",
                               "retrieve", "done", "failed", "dead"}]
      /\ pc'[r] = "track" /\ \A q \in Requests \ {r} : pc'[q] = pc[q]
  BY DEF Ends, IInv, Types
<1>3. step' \in [Requests -> Steps] /\ step'[r] = step[r] + 1
      /\ \A q \in Requests \ {r} : step'[q] = step[q]
  BY <1>1 DEF IInv, Types, Steps
<1>4. Types'
  BY <1>1, <1>2, <1>3 DEF IInv, Types
<1>5. Places'
  BY <1>1, <1>2, <1>3 DEF IInv, Types, Places, Steps
<1>6. Lives'
  BY <1>1 DEF IInv, Lives
<1>7. Progress'
  <2> SUFFICES ASSUME NEW q \in Requests, record[q] \in {"pending", "completed"},
                      lifeOf[q] = life, level # 0
               PROVE  Before(step'[q]) <= level /\ (record[q] = "completed" => level = Up)
    BY <1>1 DEF Progress, Before
  <2>1. Before(step[q]) <= level /\ (record[q] = "completed" => level = Up)
    BY DEF IInv, Progress
  <2>2. QED
    BY <1>3, <2>1 DEF Before, IInv, Types, Up, Steps
<1>8. QED
  BY <1>4, <1>5, <1>6, <1>7 DEF IInv

LEMMA RunCommandIInv == ASSUME IInv, NEW r \in Requests, RunBootstrapCommand(r) PROVE IInv'
<1>1. /\ pc[r] = "command" /\ level = 0 /\ level' = 1 /\ life' = life + 1
      /\ lifeOf' = [lifeOf EXCEPT ![r] = life']
      /\ pc' = [pc EXCEPT ![r] = "track"]
      /\ step' = [step EXCEPT ![r] = @ + 1]
      /\ UNCHANGED <<kind, record>>
  BY DEF RunBootstrapCommand, Ends, NextStep
<1>2. kind[r] = "bootstrap" /\ step[r] = 0
  BY <1>1 DEF IInv, Places
<1>3. /\ step' \in [Requests -> Steps] /\ step'[r] = 1
      /\ \A q \in Requests \ {r} : step'[q] = step[q]
  BY <1>1, <1>2 DEF IInv, Types, Steps
<1>4. /\ lifeOf' \in [Requests -> Nat] /\ lifeOf'[r] = life + 1
      /\ \A q \in Requests \ {r} : lifeOf'[q] = lifeOf[q] /\ lifeOf[q] < life + 1
  BY <1>1 DEF IInv, Types, Lives
<1>5. Types'
  BY <1>1, <1>3, <1>4 DEF IInv, Types, Up
<1>6. Places'
  BY <1>1, <1>3, <1>4 DEF IInv, Types, Places
<1>7. Lives'
  BY <1>1, <1>4 DEF IInv, Types, Lives
<1>8. Progress'
  <2> SUFFICES ASSUME NEW q \in Requests, record[q] \in {"pending", "completed"},
                      lifeOf'[q] = life'
               PROVE  Before(step'[q]) <= level' /\ (record[q] = "completed" => level' = Up)
    BY <1>1 DEF Progress, Before
  <2>1. q = r
    BY <1>1, <1>4 DEF IInv, Types
  <2>2. record[r] # "completed"
    BY <1>2 DEF IInv, Places
  <2>3. QED
    BY <1>1, <1>3, <2>1, <2>2 DEF Before
<1>9. QED
  BY <1>5, <1>6, <1>7, <1>8 DEF IInv

LEMMA CompletedIInv ==
    ASSUME IInv, NEW r \in Requests, step[r] = 6, level > Before(6),
           Ends(r, "done"), record' = [record EXCEPT ![r] = "completed"],
           UNCHANGED <<kind, cluster, step, attempt, lifeOf>>
    PROVE  IInv'
<1>1. /\ pc' = [pc EXCEPT ![r] = "done"]
      /\ UNCHANGED <<kind, life, level, step, lifeOf>>
  BY DEF Ends, cluster
<1>2. level = Up
  BY DEF Before, Up, IInv, Types
<1>3. Types'
  BY <1>1 DEF IInv, Types
<1>4. Places' /\ Lives'
  BY <1>1 DEF IInv, Types, Places, Lives
<1>5. Progress'
  BY <1>1, <1>2 DEF IInv, Types, Progress, Before, Up
<1>6. QED
  BY <1>3, <1>4, <1>5 DEF IInv

LEMMA ProbeIInv == ASSUME IInv, NEW r \in Requests, Probe(r) PROVE IInv'
<1>1. /\ step[r] \in 1..4 \cup {6} /\ pc[r] = "track"
      /\ UNCHANGED <<kind, cluster, lifeOf>>
  BY DEF Probe, Waiting, Waits, Steps, IInv, Types
<1>2. CASE Found(r)
  <2>1. level > Before(step[r])
    BY <1>2 DEF Found, ProbeFinds
  <2>2. CASE step[r] = 6
    BY <1>1, <1>2, <2>1, <2>2, CompletedIInv DEF Found
  <2>3. CASE step[r] # 6
    <3>1. NextStep(r) /\ UNCHANGED <<pc, record>> /\ step[r] \in 1..5
      BY <1>1, <1>2, <2>3 DEF Found
    <3>2. QED
      BY <1>1, <2>1, <3>1, NextStepIInv
  <2>4. QED
    BY <2>2, <2>3
<1>3. CASE Missed(r)
  <2>1. UNCHANGED <<kind, life, level, pc, step, record, lifeOf>>
    BY <1>1, <1>3 DEF Missed, cluster
  <2>2. QED
    BY <2>1 DEF IInv, Types, Places, Lives, Progress, Before
<1>4. CASE Exhausted(r)
  BY <1>1, <1>4, FailBootstrapIInv DEF Exhausted
<1>5. QED
  BY <1>2, <1>3, <1>4 DEF Probe

LEMMA CommandFailsIInv == ASSUME IInv, NEW r \in Requests, CommandFails(r) PROVE IInv'
BY FailBootstrapIInv DEF CommandFails

LEMMA RetrieveIInv == ASSUME IInv, NEW r \in Requests, Retrieve(r) PROVE IInv'
<1>1. pc[r] = "retrieve" /\ UNCHANGED <<kind, cluster, record, lifeOf>>
  BY DEF Retrieve
<1>2. CASE kind[r] = "bootstrap"
  <2>1. step[r] = 5
    BY <1>1, <1>2 DEF IInv, Places
  <2>2. Ends(r, "track") /\ NextStep(r)
    BY <1>2 DEF Retrieve
  <2>3. QED
    BY <1>1, <2>1, <2>2, NextStepIInv
<1>3. CASE kind[r] # "bootstrap"
  <2>1. Ends(r, "done") /\ UNCHANGED <<step, attempt>>
    BY <1>3 DEF Retrieve
  <2>2. pc' = [pc EXCEPT ![r] = "done"]
    BY <2>1 DEF Ends
  <2>3. UNCHANGED <<kind, cluster, tracking>>
    BY <1>1, <2>1 DEF tracking
  <2>4. QED
    BY <2>2, <2>3, OthersAreFree DEF IInv, Types
<1>4. QED
  BY <1>2, <1>3

LEMMA MachinesIInv ==
    ASSUME IInv, Configured \/ Advance \/ Wiped
    PROVE  IInv'
<1>1. /\ UNCHANGED <<kind, pc, life, step, record, lifeOf>>
      /\ \/ level' = level
         \/ level' = 0
         \/ level \in 1..Up - 1 /\ level' = level + 1
  BY DEF Configured, Advance, Wiped, tracking
<1>2. Types' /\ Places' /\ Lives'
  BY <1>1 DEF IInv, Types, Places, Lives, Up
<1>3. Progress'
  <2> SUFFICES ASSUME NEW q \in Requests, record[q] \in {"pending", "completed"},
                      lifeOf[q] = life, level' # 0
               PROVE  Before(step[q]) <= level' /\ (record[q] = "completed" => level' = Up)
    BY <1>1 DEF Progress, Before
  <2>1. level # 0 /\ level <= level'
    BY <1>1 DEF IInv, Types, Up
  <2>2. Before(step[q]) <= level /\ (record[q] = "completed" => level = Up)
    BY <2>1 DEF IInv, Progress
  <2>3. QED
    BY <1>1, <2>1, <2>2 DEF Before, IInv, Types, Up, Steps
<1>4. QED
  BY <1>2, <1>3 DEF IInv

LEMMA CrashIInv == ASSUME IInv, Crash PROVE IInv'
<1>1. UNCHANGED <<kind, cluster, tracking>>
  BY DEF Crash
<1>2. pc' = [r \in Requests |-> IF InHand(r) THEN "dead" ELSE pc[r]]
  BY DEF Crash
<1>3. QED
  BY <1>1, <1>2, OthersAreFree DEF IInv, Types, InHand

LEMMA NextIInv == IInv /\ [Next]_vars => IInv'
<1> SUFFICES ASSUME IInv, [Next]_vars PROVE IInv'
  OBVIOUS
<1>1. ASSUME NEW r \in Requests,
             \/ Refuse(r) \/ Generate(r) \/ GenSecrets(r) \/ GenConfig(r)
             \/ GenerateFails(r) \/ Reset(r) \/ RemoveAll(r) \/ AccessFails(r)
      PROVE  IInv'
  BY <1>1, FileStepIInv
<1>2. ASSUME NEW r \in Requests,
             \/ Bootstrap(r) \/ SetEndpoint(r) \/ RunBootstrapCommand(r)
             \/ CommandFails(r) \/ Probe(r) \/ PointToVIP(r) \/ Retrieve(r)
      PROVE  IInv'
  BY <1>2, BootstrapIInv, SetEndpointIInv, RunCommandIInv, CommandFailsIInv, ProbeIInv,
     PointToVIPIInv, RetrieveIInv
<1>3. CASE Configured \/ Advance \/ Wiped
  BY <1>3, MachinesIInv
<1>4. CASE Crash
  BY <1>4, CrashIInv
<1>5. CASE UNCHANGED vars
  BY <1>5 DEF vars, cluster, tracking, IInv, Types, Places, Lives, Progress, Before
<1>6. QED
  BY <1>1, <1>2, <1>3, <1>4, <1>5 DEF Next

LEMMA IInvHolds == Spec => []IInv
<1>1. QED
  BY InitIInv, NextIInv, PTL DEF Spec

-----------------------------------------------------------------------------
(* The step a bootstrap shows is one the cluster has come to, and          *)
(* "completed" means that it is up, until its machines are wiped.          *)
THEOREM ProgressStaysHonest == Spec => []ProgressIsHonest
<1>1. IInv => ProgressIsHonest
  BY DEF IInv, Progress, ProgressIsHonest, Bootstraps
<1>2. QED
  BY <1>1, IInvHolds, PTL

(* However bootstraps race or are tried again, and whatever they find left *)
(* over: no two of them complete for the same life of the cluster.         *)
THEOREM NoSecondBootstrap == Spec => []OneBootstrapCompletes
<1>1. IInv => OneBootstrapCompletes
  <2> SUFFICES ASSUME IInv, NEW b \in Bootstraps, NEW c \in Bootstraps, b # c,
                      record[b] = "completed"
               PROVE  lifeOf[b] # lifeOf[c]
    BY DEF OneBootstrapCompletes
  <2>1. b \in Requests /\ c \in Requests
    BY DEF Bootstraps
  <2>2. lifeOf[b] # 0
    BY <2>1 DEF IInv, Places
  <2>3. QED
    BY <2>1, <2>2 DEF IInv, Lives
<1>2. QED
  BY <1>1, IInvHolds, PTL
-----------------------------------------------------------------------------
(* Types in full.  Generations and lives are counted by the requests that  *)
(* have come so far, of which each makes one at most.                      *)

Limit(s) == IF s \in Waits THEN MaxAttempts[s] ELSE 1

FileTypes ==
    /\ gens \in Nat
    /\ generated \in [Files -> 0..gens]
    /\ endpoint \in {"local", "node", "vip"}
    /\ machines \in 0..gens
    /\ kubeconfig \in 0..life
    /\ crashes \in 0..MaxCrashes
    /\ cut \in BOOLEAN
    /\ meddled \subseteq Requests

Attempts ==
    /\ attempt \in [Requests -> Nat \ {0}]
    /\ \A r \in Requests : attempt[r] <= Limit(step[r])

Past == {r \in Requests : pc[r] \notin {"new", "secrets"}}
Begun == {r \in Requests : step[r] # 0}
Counted == gens <= 1 + Cardinality(Past) /\ life <= 1 + Cardinality(Begun)

(* Only requests of a kind stand where that kind takes them.               *)
Owners ==
    \A r \in Requests :
        /\ pc[r] \in {"secrets", "config"} => kind[r] = "generate"
        /\ pc[r] = "remove" => kind[r] = "reset"
        /\ pc[r] \in {"track", "command"} => kind[r] = "bootstrap"

FInv == IInv /\ FileTypes /\ Attempts /\ Counted /\ Owners

LEMMA LimitPositive == \A s \in Steps : Limit(s) \in Nat /\ Limit(s) >= 1
BY ClusterAssumption DEF Limit

LEMMA Growing ==
    ASSUME NEW S \in SUBSET Requests, NEW T \in SUBSET Requests, S \subseteq T
    PROVE  /\ Cardinality(S) \in Nat /\ Cardinality(T) \in Nat
           /\ Cardinality(S) <= Cardinality(T)
           /\ S # T => Cardinality(S) + 1 <= Cardinality(T)
<1>1. IsFiniteSet(Requests)
  BY ClusterAssumption
<1>2. IsFiniteSet(S) /\ IsFiniteSet(T)
  BY <1>1, FS_Subset
<1>3. Cardinality(S) \in Nat /\ Cardinality(T) \in Nat /\ Cardinality(S) <= Cardinality(T)
  BY <1>2, FS_Subset, FS_CardinalityType
<1>4. S # T => Cardinality(S) # Cardinality(T)
  BY <1>2, FS_Subset
<1>5. QED
  BY <1>3, <1>4

LEMMA FInvTypes == FInv => TypeOK
<1> SUFFICES ASSUME FInv PROVE TypeOK
  OBVIOUS
<1>1. Cardinality(Past) \in Nat /\ Cardinality(Past) <= Cardinality(Requests)
      /\ Cardinality(Begun) \in Nat /\ Cardinality(Begun) <= Cardinality(Requests)
      /\ Cardinality(Requests) \in Nat
  BY Growing DEF Past, Begun
<1>2. gens \in 0..Cardinality(Requests) + 1 /\ life \in 0..Cardinality(Requests) + 1
  BY <1>1 DEF FInv, IInv, Types, FileTypes, Counted
<1>3. lifeOf \in [Requests -> 0..life]
  BY DEF FInv, IInv, Types, Lives
<1>4. \A r \in Requests :
        attempt[r] \in 1..(IF step[r] \in Waits THEN MaxAttempts[step[r]] ELSE 1)
  <2> TAKE r \in Requests
  <2>1. Limit(step[r]) \in Nat
    BY LimitPositive DEF FInv, IInv, Types
  <2>2. attempt[r] \in 1..Limit(step[r])
    BY <2>1 DEF FInv, Attempts
  <2>3. QED
    BY <2>2 DEF Limit
<1>5. QED
  BY <1>2, <1>3, <1>4 DEF FInv, IInv, Types, FileTypes, TypeOK

LEMMA FInvInit == Init => FInv
<1> SUFFICES ASSUME Init PROVE FInv
  OBVIOUS
<1>1. IInv
  BY InitIInv
<1>2. FileTypes
  <2>1. PICK n \in {0, 1} :
          /\ generated = [f \in Files |-> n]
          /\ gens = n /\ kubeconfig = n /\ machines = n /\ life = n
          /\ endpoint = IF n = 0 THEN "local" ELSE "vip"
    BY DEF Init
  <2>2. n \in 0..gens /\ n \in 0..life /\ gens \in Nat
    BY <2>1
  <2>3. generated \in [Files -> 0..gens]
    BY <2>1, <2>2
  <2>4. crashes = 0 /\ cut = FALSE /\ meddled = {} /\ 0 \in 0..MaxCrashes
    BY ClusterAssumption DEF Init
  <2>5. QED
    BY <2>1, <2>2, <2>3, <2>4 DEF FileTypes
<1>3. Attempts
  BY LimitPositive DEF Init, Attempts, Steps
<1>4. Cardinality(Past) \in Nat /\ Cardinality(Begun) \in Nat
  BY Growing DEF Past, Begun
<1>5. Counted
  BY <1>4 DEF Init, Counted
<1>6. Owners
  BY DEF Init, Owners
<1>7. QED
  BY <1>1, <1>2, <1>3, <1>5, <1>6 DEF FInv

LEMMA FileTypesNext ==
    ASSUME FInv, [Next]_vars PROVE FileTypes'
<1>0. /\ FileTypes /\ life \in Nat /\ MaxCrashes \in Nat
      /\ \A r \in Requests : meddled' = meddled => meddled' \subseteq Requests
  BY ClusterAssumption DEF FInv, IInv, Types, FileTypes
<1>1. ASSUME NEW r \in Requests, Arrives(r)
      PROVE  cut' \in BOOLEAN /\ meddled' \subseteq Requests
  BY <1>0, <1>1 DEF Arrives, FileTypes, Bootstraps
<1>2. ASSUME NEW r \in Requests, Generate(r) \/ Reset(r) \/ Bootstrap(r)
      PROVE  FileTypes'
  <2>1. Arrives(r) /\ UNCHANGED <<generated, gens, endpoint, kubeconfig, machines, life, crashes>>
    BY <1>2 DEF Generate, Reset, Bootstrap, files, cluster
  <2>2. QED
    BY <1>0, <1>1, <2>1 DEF FileTypes
<1>3. ASSUME NEW r \in Requests, PointToVIP(r) PROVE FileTypes'
  <2>1. UNCHANGED <<generated, gens, kubeconfig, machines, life, crashes>>
        /\ endpoint' \in {endpoint, "vip"}
    BY <1>3 DEF PointToVIP, cluster
  <2>2. (UNCHANGED <<cut, meddled>>) \/ Arrives(r)
    BY <1>3 DEF PointToVIP, Access
  <2>3. QED
    BY <1>0, <1>1, <2>1, <2>2 DEF FileTypes
<1>4. ASSUME NEW r \in Requests, GenSecrets(r) PROVE FileTypes'
  <2>1. gens' = gens + 1 /\ generated' = [generated EXCEPT !["secrets"] = gens + 1]
        /\ UNCHANGED <<endpoint, kubeconfig, machines, life, crashes, cut, meddled>>
    BY <1>4 DEF GenSecrets, cluster
  <2>2. generated' \in [Files -> 0..gens'] /\ machines \in 0..gens'
    <3>1. \A n \in 0..gens : n \in 0..gens'
      BY <1>0, <2>1 DEF FileTypes
    <3>2. gens + 1 \in 0..gens'
      BY <1>0, <2>1 DEF FileTypes
    <3>3. QED
      BY <1>0, <2>1, <3>1, <3>2 DEF FileTypes
  <2>3. QED
    BY <1>0, <2>1, <2>2 DEF FileTypes
<1>5. ASSUME NEW r \in Requests, GenConfig(r) PROVE FileTypes'
  <2>1. generated' = [f \in Files |-> generated["secrets"]] /\ endpoint' = "local"
        /\ UNCHANGED <<gens, kubeconfig, machines, life, crashes, cut, meddled>>
    BY <1>5 DEF GenConfig, cluster
  <2>2. QED
    BY <1>0, <2>1 DEF FileTypes, Files
<1>6. ASSUME NEW r \in Requests, RemoveAll(r) PROVE FileTypes'
  <2>1. UNCHANGED <<gens, endpoint, kubeconfig, machines, life, crashes, meddled>>
        /\ cut' \in {cut, TRUE}
        /\ (generated' = generated \/ \E f \in Files : generated' = [generated EXCEPT ![f] = 0])
    BY <1>6 DEF RemoveAll, cluster
  <2>2. generated' \in [Files -> 0..gens]
    BY <1>0, <2>1 DEF FileTypes
  <2>3. QED
    BY <1>0, <2>1, <2>2 DEF FileTypes
<1>7. ASSUME NEW r \in Requests,
             \/ Refuse(r) \/ GenerateFails(r) \/ SetEndpoint(r) \/ CommandFails(r)
             \/ Probe(r) \/ Retrieve(r) \/ AccessFails(r) \/ RunBootstrapCommand(r)
      PROVE  FileTypes'
  <2>1. /\ UNCHANGED <<generated, gens, machines, crashes, meddled>>
        /\ endpoint' \in {endpoint, "node"} /\ kubeconfig' \in {kubeconfig, life}
        /\ life' \in {life, life + 1} /\ cut' \in BOOLEAN
    BY <1>0, <1>7 DEF Refuse, GenerateFails, SetEndpoint, CommandFails, Probe, Retrieve,
       AccessFails, RunBootstrapCommand, files, cluster, FileTypes
  <2>2. QED
    BY <1>0, <2>1 DEF FileTypes
<1>8. CASE Configured \/ Advance \/ Wiped \/ Crash
  <2>1. /\ UNCHANGED <<generated, gens, endpoint, kubeconfig, life, meddled>>
        /\ machines' \in {machines, 0, generated["base"]} /\ cut' \in BOOLEAN
        /\ crashes' = crashes \/ (crashes' = crashes + 1 /\ crashes < MaxCrashes)
    BY <1>0, <1>8 DEF Configured, Advance, Wiped, Crash, files, cluster, FileTypes
  <2>2. QED
    BY <1>0, <2>1 DEF FileTypes, Files
<1>9. CASE UNCHANGED vars
  BY <1>0, <1>9 DEF vars, files, cluster, tracking, FileTypes
<1>10. QED
  BY <1>2, <1>3, <1>4, <1>5, <1>6, <1>7, <1>8, <1>9 DEF Next

LEMMA AttemptsNext ==
    ASSUME FInv, IInv', [Next]_vars PROVE Attempts'
<1>0. /\ Attempts /\ step \in [Requests -> Steps] /\ step' \in [Requests -> Steps]
      /\ \A r \in Requests : Limit(step[r]) \in Nat /\ Limit(step[r]) >= 1
      /\ \A r \in Requests : Limit(step'[r]) \in Nat /\ Limit(step'[r]) >= 1
  BY LimitPositive DEF FInv, IInv, Types
<1>1. ASSUME NEW r \in Requests, NextStep(r) PROVE Attempts'
  BY <1>0, <1>1 DEF NextStep, Attempts
<1>2. ASSUME UNCHANGED <<step, attempt>> PROVE Attempts'
  BY <1>0, <1>2 DEF Attempts
<1>3. ASSUME NEW r \in Requests, Probe(r) PROVE Attempts'
  <2>1. CASE Missed(r)
    <3>1. Limit(step[r]) = MaxAttempts[step[r]]
      BY <1>3 DEF Probe, Waiting, Limit
    <3>2. attempt[r] < Limit(step[r]) /\ attempt' = [attempt EXCEPT ![r] = @ + 1] /\ step' = step
      BY <2>1, <3>1 DEF Missed
    <3>3. QED
      BY <1>0, <3>2 DEF Attempts
  <2>2. CASE Found(r) \/ Exhausted(r)
    BY <1>1, <1>2, <2>2 DEF Found, Exhausted
  <2>3. QED
    BY <1>3, <2>1, <2>2 DEF Probe
<1>4. ASSUME NEW r \in Requests, RunBootstrapCommand(r) \/ Retrieve(r) PROVE Attempts'
  BY <1>1, <1>2, <1>4 DEF RunBootstrapCommand, Retrieve
<1>5. QED
  BY <1>2, <1>3, <1>4 DEF Next, vars, tracking, Refuse, Generate, GenSecrets, GenConfig,
     GenerateFails, Reset, RemoveAll, Bootstrap, SetEndpoint, CommandFails, PointToVIP,
     AccessFails, Configured, Advance, Wiped, Crash

(* No request comes back, and no bootstrap starts over; a generation and a *)
(* life of the cluster are begun by requests that had begun none.          *)
LEMMA CountedNext ==
    ASSUME FInv, IInv', [Next]_vars PROVE Counted'
<1>0. /\ Counted /\ FileTypes /\ Types /\ Types' /\ Places /\ life \in Nat /\ gens \in Nat
  BY DEF FInv, IInv, Types, FileTypes
<1>1. /\ Past \subseteq Past'
      /\ gens' = gens \/ (gens' = gens + 1 /\ Past # Past')
  <2>1. ASSUME NEW r \in Requests, GenSecrets(r)
        PROVE  Past \subseteq Past' /\ gens' = gens + 1 /\ Past # Past'
    <3>1. pc[r] = "secrets" /\ pc' = [pc EXCEPT ![r] = "config"] /\ gens' = gens + 1
      BY <2>1 DEF GenSecrets, Ends
    <3>2. r \notin Past /\ r \in Past'
      BY <1>0, <3>1 DEF Past, Types
    <3>3. QED
      BY <1>0, <3>1, <3>2 DEF Past, Types
  <2>2. ASSUME NEW r \in Requests, NEW s, Ends(r, s), s # "new",
               s = "secrets" => pc[r] = "new"
        PROVE  Past \subseteq Past'
    BY <1>0, <2>2 DEF Ends, Past, Types
  <2>3. ASSUME UNCHANGED pc PROVE Past \subseteq Past'
    BY <2>3 DEF Past
  <2>4. ASSUME NEW r \in Requests,
               \/ Refuse(r) \/ Generate(r) \/ GenConfig(r) \/ GenerateFails(r)
               \/ Reset(r) \/ RemoveAll(r) \/ Bootstrap(r) \/ SetEndpoint(r)
               \/ RunBootstrapCommand(r) \/ CommandFails(r) \/ Probe(r)
               \/ PointToVIP(r) \/ Retrieve(r) \/ AccessFails(r)
        PROVE  gens' = gens /\ Past \subseteq Past'
    <3>1. gens' = gens
      BY <2>4 DEF Refuse, Generate, GenConfig, GenerateFails, Reset, RemoveAll, Bootstrap,
         SetEndpoint, RunBootstrapCommand, CommandFails, Probe, PointToVIP, Retrieve,
         AccessFails, files
    <3>2. (UNCHANGED pc) \/ \E s \in {"secrets", "done", "failed", "remove", "track", "command", "retrieve"} :
              Ends(r, s) /\ (s = "secrets" => pc[r] = "new")
      BY <2>4 DEF Refuse, Generate, GenConfig, GenerateFails, Reset, RemoveAll, Bootstrap,
         SetEndpoint, RunBootstrapCommand, CommandFails, Probe, PointToVIP, Retrieve,
         AccessFails, FailBootstrap, Found, Missed, Exhausted, Arrives
    <3>3. QED
      BY <2>2, <2>3, <3>1, <3>2
  <2>5. CASE Configured \/ Advance \/ Wiped
    BY <2>3, <2>5 DEF Configured, Advance, Wiped, files
  <2>6. CASE Crash
    BY <2>6 DEF Crash, files, Past
  <2>7. CASE UNCHANGED vars
    BY <2>3, <2>7 DEF vars, files
  <2>8. QED
    BY <2>1, <2>4, <2>5, <2>6, <2>7 DEF Next
<1>2. /\ Begun \subseteq Begun'
      /\ life' = life \/ (life' = life + 1 /\ Begun # Begun')
  <2>1. ASSUME NEW r \in Requests, RunBootstrapCommand(r)
        PROVE  life' = life + 1 /\ step[r] = 0 /\ NextStep(r)
    BY <1>0, <2>1 DEF RunBootstrapCommand, Places
  <2>2. ASSUME NEW r \in Requests, NextStep(r)
        PROVE  Begun \subseteq Begun' /\ (step[r] = 0 => Begun # Begun')
    <3>1. step' = [step EXCEPT ![r] = @ + 1] /\ step[r] \in 0..6
      BY <1>0, <2>2 DEF NextStep, Types, Steps
    <3>2. r \in Begun' /\ \A q \in Requests \ {r} : step'[q] = step[q]
      BY <1>0, <3>1 DEF Begun, Types
    <3>3. QED
      BY <3>2 DEF Begun
  <2>3. ASSUME UNCHANGED step PROVE Begun' = Begun
    BY <2>3 DEF Begun
  <2>4. ASSUME NEW r \in Requests, Probe(r) \/ Retrieve(r)
        PROVE  life' = life /\ Begun \subseteq Begun'
    BY <2>2, <2>3, <2>4 DEF Probe, Found, Missed, Exhausted, Retrieve, cluster
  <2>5. ASSUME NEW r \in Requests,
               \/ Refuse(r) \/ Generate(r) \/ GenSecrets(r) \/ GenConfig(r)
               \/ GenerateFails(r) \/ Reset(r) \/ RemoveAll(r) \/ Bootstrap(r)
               \/ SetEndpoint(r) \/ CommandFails(r) \/ PointToVIP(r) \/ AccessFails(r)
        PROVE  UNCHANGED <<life, step>>
    BY <2>5 DEF Refuse, Generate, GenSecrets, GenConfig, GenerateFails, Reset, RemoveAll,
       Bootstrap, SetEndpoint, CommandFails, PointToVIP, AccessFails, cluster, tracking
  <2>6. CASE Configured \/ Advance \/ Wiped \/ Crash \/ UNCHANGED vars
    BY <2>3, <2>6 DEF Configured, Advance, Wiped, Crash, vars, cluster, tracking
  <2>7. QED
    BY <2>1, <2>2, <2>3, <2>4, <2>5, <2>6 DEF Next
<1>3. /\ Cardinality(Past) \in Nat /\ Cardinality(Past') \in Nat
      /\ Cardinality(Past) <= Cardinality(Past')
      /\ Past # Past' => Cardinality(Past) + 1 <= Cardinality(Past')
  <2>1. Past \in SUBSET Requests /\ Past' \in SUBSET Requests
    BY DEF Past
  <2>2. QED
    BY <1>1, <2>1, Growing
<1>4. /\ Cardinality(Begun) \in Nat /\ Cardinality(Begun') \in Nat
      /\ Cardinality(Begun) <= Cardinality(Begun')
      /\ Begun # Begun' => Cardinality(Begun) + 1 <= Cardinality(Begun')
  <2>1. Begun \in SUBSET Requests /\ Begun' \in SUBSET Requests
    BY DEF Begun
  <2>2. QED
    BY <1>2, <2>1, Growing
<1>5. QED
  BY <1>0, <1>1, <1>2, <1>3, <1>4 DEF Counted

LEMMA OwnersNext ==
    ASSUME FInv, [Next]_vars PROVE Owners'
<1>0. Owners /\ Types
  BY DEF FInv, IInv
<1>1. ASSUME NEW r \in Requests, NEW s, Ends(r, s), UNCHANGED kind,
             /\ s \in {"secrets", "config"} => kind[r] = "generate"
             /\ s = "remove" => kind[r] = "reset"
             /\ s \in {"track", "command"} => kind[r] = "bootstrap"
      PROVE  Owners'
  BY <1>0, <1>1 DEF Ends, Owners, Types
<1>2. ASSUME UNCHANGED <<kind, pc>> PROVE Owners'
  BY <1>0, <1>2 DEF Owners
<1>3. ASSUME NEW r \in Requests,
             \/ Refuse(r) \/ Generate(r) \/ GenSecrets(r) \/ GenConfig(r)
             \/ GenerateFails(r) \/ Reset(r) \/ RemoveAll(r) \/ Bootstrap(r)
             \/ SetEndpoint(r) \/ RunBootstrapCommand(r) \/ CommandFails(r) \/ Probe(r)
             \/ PointToVIP(r) \/ Retrieve(r) \/ AccessFails(r)
      PROVE  Owners'
  <2>1. kind' = kind
    BY <1>3 DEF Refuse, Generate, GenSecrets, GenConfig, GenerateFails, Reset, RemoveAll,
       Bootstrap, SetEndpoint, RunBootstrapCommand, CommandFails, Probe, PointToVIP,
       Retrieve, AccessFails
  <2>2. \/ UNCHANGED pc
        \/ \E s \in {"secrets", "config", "remove", "track", "command", "retrieve", "done", "failed"} :
             /\ Ends(r, s)
             /\ s \in {"secrets", "config"} => kind[r] = "generate"
             /\ s = "remove" => kind[r] = "reset"
             /\ s \in {"track", "command"} => kind[r] = "bootstrap"
    BY <1>0, <1>3 DEF Refuse, Generate, GenSecrets, GenConfig, GenerateFails, Reset, RemoveAll,
       Bootstrap, SetEndpoint, RunBootstrapCommand, CommandFails, Probe, PointToVIP,
       Retrieve, AccessFails, FailBootstrap, Found, Missed, Exhausted, Owners
  <2>3. QED
    BY <1>1, <1>2, <2>1, <2>2
<1>4. CASE Configured \/ Advance \/ Wiped \/ UNCHANGED vars
  BY <1>2, <1>4 DEF Configured, Advance, Wiped, vars
<1>5. CASE Crash
  BY <1>0, <1>5 DEF Crash, Owners, Types
<1>6. QED
  BY <1>3, <1>4, <1>5 DEF Next

LEMMA FInvNext == FInv /\ [Next]_vars => FInv'
<1> SUFFICES ASSUME FInv, [Next]_vars PROVE FInv'
  OBVIOUS
<1>1. IInv'
  BY NextIInv DEF FInv
<1>2. QED
  BY <1>1, FileTypesNext, AttemptsNext, CountedNext, OwnersNext DEF FInv

-----------------------------------------------------------------------------
(* The three generated files.  As long as no generation or reset breaks    *)
(* off or meets the other, only a generation between its two commands      *)
(* leaves them apart, and none runs while a reset removes them.            *)
Together ==
    ~cut =>
      /\ \A q, r \in Requests :
            pc[q] \in {"secrets", "config"} => pc[r] # "remove"
      /\ (\A r \in Requests : pc[r] # "remove") =>
            /\ generated["base"] = generated["talosconfig"]
            /\ \/ generated["secrets"] = generated["base"]
               \/ /\ generated["base"] = 0 /\ generated["secrets"] # 0
                  /\ \E r \in Requests : pc[r] = "config"

(* A bootstrap that no other request met or followed is the only one at    *)
(* work, on the life it began.                                             *)
Undisturbed ==
    /\ \A b \in Bootstraps \ meddled : pc[b] # "new" =>
          /\ \A q \in Requests \ {b} : ~InHand(q)
          /\ lifeOf[b] \in {0, life}
          /\ pc[b] = "retrieve" \/ step[b] = 6 => endpoint = "vip"
          /\ step[b] = 6 => kubeconfig = life
    /\ \A r \in Requests : record[r] = "completed" => pc[r] # "new" /\ step[r] = 6

AgreeInv == FInv /\ Together /\ Undisturbed

LEMMA AgreeInit == Init => AgreeInv
<1> SUFFICES ASSUME Init PROVE AgreeInv
  OBVIOUS
<1>1. PICK n \in {0, 1} : generated = [f \in Files |-> n]
  BY DEF Init
<1>2. Together
  BY <1>1 DEF Init, Together, Files
<1>3. Undisturbed
  BY DEF Init, Undisturbed, Bootstraps
<1>4. QED
  BY <1>2, <1>3, FInvInit DEF AgreeInv

(* Steps of requests that neither generate nor reset.                      *)
LEMMA TogetherAside ==
    ASSUME FInv, Together, UNCHANGED generated, cut => cut', NEW r \in Requests,
           pc[r] \notin {"config", "remove"},
           \/ UNCHANGED pc
           \/ \E s : Ends(r, s) /\ s \notin {"secrets", "config", "remove"}
    PROVE  Together'
BY DEF Together, FInv, IInv, Types, Ends

LEMMA GenerateTogether ==
    ASSUME FInv, Together, NEW r \in Requests, Generate(r) PROVE Together'
<1>1. /\ kind[r] = "generate" /\ pc[r] = "new" /\ UNCHANGED generated
      /\ cut' = (cut \/ \E q \in Requests : InHand(q) /\ {kind[q], kind[r]} = Generation)
      /\ pc' = [pc EXCEPT ![r] = IF generated["secrets"] # 0 THEN "done" ELSE "secrets"]
  BY DEF Generate, Arrives, Generation, Ends, files
<1>2. ASSUME NEW q \in Requests, pc[q] = "remove" PROVE cut'
  <2>1. kind[q] = "reset" /\ InHand(q)
    BY <1>2 DEF FInv, Owners, InHand
  <2>2. {kind[q], kind[r]} = Generation
    BY <1>1, <2>1 DEF Generation
  <2>3. QED
    BY <1>1, <2>1, <2>2
<1>3. pc \in [Requests -> {"new", "secrets", "config", "remove", "track", "command",
                            "retrieve", "done", "failed", "dead"}]
  BY DEF FInv, IInv, Types
<1>4. QED
  BY <1>1, <1>2, <1>3 DEF Together

LEMMA ResetTogether ==
    ASSUME FInv, Together, NEW r \in Requests, Reset(r) PROVE Together'
<1>1. /\ kind[r] = "reset" /\ pc[r] = "new" /\ UNCHANGED generated
      /\ cut' = (cut \/ \E q \in Requests : InHand(q) /\ {kind[q], kind[r]} = Generation)
      /\ pc' = [pc EXCEPT ![r] = "remove"]
  BY DEF Reset, Arrives, Generation, Ends, files
<1>2. ASSUME NEW q \in Requests, pc[q] \in {"secrets", "config"} PROVE cut'
  <2>1. kind[q] = "generate" /\ InHand(q)
    BY <1>2 DEF FInv, Owners, InHand
  <2>2. {kind[q], kind[r]} = Generation
    BY <1>1, <2>1 DEF Generation
  <2>3. QED
    BY <1>1, <2>1, <2>2
<1>3. pc \in [Requests -> {"new", "secrets", "config", "remove", "track", "command",
                            "retrieve", "done", "failed", "dead"}]
  BY DEF FInv, IInv, Types
<1>4. QED
  BY <1>1, <1>2, <1>3 DEF Together

LEMMA GenSecretsTogether ==
    ASSUME FInv, Together, NEW r \in Requests, GenSecrets(r) PROVE Together'
<1>0. /\ gens \in Nat /\ generated \in [Files -> 0..gens]
      /\ pc \in [Requests -> {"new", "secrets", "config", "remove", "track", "command",
                              "retrieve", "done", "failed", "dead"}]
  BY DEF FInv, IInv, Types, FileTypes
<1>1. /\ pc[r] = "secrets" /\ generated["secrets"] = 0 /\ cut' = cut
      /\ generated' = [generated EXCEPT !["secrets"] = gens + 1]
      /\ pc' = [pc EXCEPT ![r] = "config"]
  BY DEF GenSecrets, Ends
<1>2. /\ generated'["secrets"] = gens + 1 /\ generated'["base"] = generated["base"]
      /\ generated'["talosconfig"] = generated["talosconfig"]
      /\ gens + 1 # 0
  BY <1>0, <1>1 DEF Files
<1>3. QED
  BY <1>0, <1>1, <1>2 DEF Together

LEMMA GenConfigTogether ==
    ASSUME FInv, Together, NEW r \in Requests, GenConfig(r) PROVE Together'
<1>0. /\ pc \in [Requests -> {"new", "secrets", "config", "remove", "track", "command",
                              "retrieve", "done", "failed", "dead"}]
  BY DEF FInv, IInv, Types, FileTypes
<1>1. /\ pc[r] = "config" /\ cut' = cut
      /\ generated' = [f \in Files |-> generated["secrets"]]
      /\ pc' = [pc EXCEPT ![r] = "done"]
  BY DEF GenConfig, Ends
<1>2. generated'["secrets"] = generated'["base"]
      /\ generated'["talosconfig"] = generated'["base"]
  BY <1>1 DEF Files
<1>3. QED
  BY <1>0, <1>1, <1>2 DEF Together

LEMMA RemoveTogether ==
    ASSUME FInv, Together, NEW r \in Requests, RemoveAll(r) PROVE Together'
<1>0. /\ pc \in [Requests -> {"new", "secrets", "config", "remove", "track", "command",
                              "retrieve", "done", "failed", "dead"}]
  BY DEF FInv, IInv, Types, FileTypes
<1>1. pc[r] = "remove"
  BY DEF RemoveAll
<1>2. CASE UNCHANGED <<pc, cut>>
  BY <1>1, <1>2 DEF Together
<1>3. CASE (\A f \in Files : generated[f] = 0) /\ Ends(r, "done") /\ UNCHANGED <<generated, cut>>
  BY <1>0, <1>1, <1>3 DEF Together, Ends, Files
<1>4. CASE cut' = TRUE
  BY <1>4 DEF Together
<1>5. QED
  BY <1>2, <1>3, <1>4 DEF RemoveAll

LEMMA TogetherNext ==
    ASSUME FInv, Together, [Next]_vars PROVE Together'
<1>0. cut \in BOOLEAN /\ cut' \in BOOLEAN
  BY FInvNext DEF FInv, FileTypes
<1>a. ASSUME NEW r \in Requests, Arrives(r) PROVE pc[r] = "new" /\ (cut => cut')
  BY <1>a, Zenon DEF Arrives
<1>1. ASSUME NEW r \in Requests,
             \/ Refuse(r) \/ Bootstrap(r) \/ SetEndpoint(r) \/ RunBootstrapCommand(r)
             \/ CommandFails(r) \/ Probe(r) \/ PointToVIP(r) \/ Retrieve(r)
             \/ AccessFails(r) \/ (GenerateFails(r) /\ pc[r] = "secrets")
      PROVE  Together'
  <2>a. PointToVIP(r) => UNCHANGED generated /\ (cut => cut') /\ pc[r] \in {"new", "track"}
    <3>1. Access(r) => (cut => cut') /\ pc[r] \in {"new", "track"}
      BY <1>0, <1>a DEF Access
    <3>2. QED
      BY <3>1 DEF PointToVIP
  <2>b. Bootstrap(r) => UNCHANGED generated /\ (cut => cut') /\ pc[r] = "new"
    BY <1>a DEF Bootstrap, files
  <2>c. ASSUME \/ Refuse(r) \/ SetEndpoint(r) \/ RunBootstrapCommand(r) \/ CommandFails(r)
               \/ Probe(r) \/ Retrieve(r) \/ AccessFails(r)
               \/ (GenerateFails(r) /\ pc[r] = "secrets")
        PROVE  UNCHANGED generated /\ (cut => cut') /\ pc[r] \notin {"config", "remove"}
    BY <1>0, <2>c DEF Refuse, SetEndpoint, RunBootstrapCommand, CommandFails, Probe, Retrieve,
       AccessFails, GenerateFails, Waiting, files
  <2>1. UNCHANGED generated /\ (cut => cut') /\ pc[r] \notin {"config", "remove"}
    BY <1>1, <2>a, <2>b, <2>c
  <2>2. \/ UNCHANGED pc
        \/ \E s \in {"track", "command", "retrieve", "done", "failed"} : Ends(r, s)
    BY <1>1 DEF Refuse, Bootstrap, SetEndpoint, RunBootstrapCommand, CommandFails, Probe,
       PointToVIP, Retrieve, AccessFails, GenerateFails, FailBootstrap, Found, Missed,
       Exhausted
  <2>3. QED
    BY <2>1, <2>2, TogetherAside
<1>2. ASSUME NEW r \in Requests, GenerateFails(r), pc[r] = "config" PROVE Together'
  BY <1>2 DEF GenerateFails, Together
<1>3. CASE Configured \/ Advance \/ Wiped \/ UNCHANGED vars
  BY <1>3 DEF Configured, Advance, Wiped, vars, files, Together
<1>4. CASE Crash
  <2>1. /\ pc' = [r \in Requests |-> IF InHand(r) THEN "dead" ELSE pc[r]]
        /\ cut' = (cut \/ \E r \in Requests : pc[r] \in {"config", "remove"})
        /\ UNCHANGED generated
    BY <1>4 DEF Crash, files
  <2>2. \A r \in Requests : pc'[r] \notin {"secrets", "config", "remove"}
    BY <2>1 DEF InHand
  <2>3. QED
    BY <2>1, <2>2 DEF Together
<1>5. ASSUME NEW r \in Requests, GenerateFails(r) PROVE pc[r] \in {"secrets", "config"}
  BY <1>5 DEF GenerateFails
<1>6. QED
  BY <1>1, <1>2, <1>3, <1>4, <1>5, GenerateTogether, ResetTogether, GenSecretsTogether,
     GenConfigTogether, RemoveTogether DEF Next

(* Who arrives meddles with the bootstraps that are under way or over.     *)
LEMMA ArrivalUndisturbed ==
    ASSUME FInv, Undisturbed, NEW r \in Requests, Arrives(r), UNCHANGED <<kind, step, lifeOf>>,
           \E s : Ends(r, s) /\ s \in {"done", "secrets", "remove", "track", "retrieve"}
                  /\ (kind[r] = "bootstrap" => s = "track"),
           record' = record \/ record' = [record EXCEPT ![r] = "pending"]
    PROVE  Undisturbed'
<1>0. Types /\ Places
  BY DEF FInv, IInv
<1>1. /\ pc[r] = "new" /\ \A q \in Requests \ {r} : pc'[q] = pc[q]
      /\ pc'[r] # "new" /\ (kind[r] = "bootstrap" => pc'[r] = "track")
  BY <1>0 DEF Arrives, Ends, Types
<1>2. ASSUME NEW b \in Bootstraps' \ meddled', pc'[b] # "new"
      PROVE  /\ \A q \in Requests \ {b} : ~InHand(q)'
             /\ lifeOf[b] = 0 /\ pc'[b] = "track" /\ step[b] = 0
  <2>1. b \in Bootstraps /\ b \in Requests /\ kind[b] = "bootstrap"
    BY <1>2 DEF Bootstraps
  <2>2. b = r
    BY <1>1, <1>2, <2>1 DEF Arrives
  <2>3. \A q \in Requests \ {r} : ~InHand(q)
    BY <1>2, <2>1, <2>2 DEF Arrives
  <2>4. QED
    BY <1>0, <1>1, <2>1, <2>2, <2>3 DEF InHand, Places
<1>3. ASSUME NEW q \in Requests, record'[q] = "completed" PROVE pc'[q] # "new" /\ step[q] = 6
  BY <1>0, <1>1, <1>3 DEF Undisturbed, Types
<1>4. QED
  BY <1>2, <1>3 DEF Undisturbed

(* A step of a request in hand disturbs no bootstrap but itself.           *)
LEMMA OwnStepUndisturbed ==
    ASSUME FInv, Undisturbed, NEW r \in Requests, InHand(r),
           UNCHANGED <<kind, meddled>>,
           \A q \in Requests \ {r} : /\ pc'[q] = pc[q] /\ step'[q] = step[q]
                                     /\ lifeOf'[q] = lifeOf[q] /\ record'[q] = record[q],
           pc'[r] # "new",
           record'[r] = "completed" => step'[r] = 6,
           kind[r] = "bootstrap" /\ r \notin meddled =>
              /\ lifeOf'[r] \in {0, life'}
              /\ pc'[r] = "retrieve" \/ step'[r] = 6 => endpoint' = "vip"
              /\ step'[r] = 6 => kubeconfig' = life'
    PROVE  Undisturbed'
<1>0. pc[r] # "new"
  BY DEF InHand
<1>1. ASSUME NEW b \in Bootstraps' \ meddled', pc'[b] # "new"
      PROVE  /\ \A q \in Requests \ {b} : ~InHand(q)'
             /\ lifeOf'[b] \in {0, life'}
             /\ pc'[b] = "retrieve" \/ step'[b] = 6 => endpoint' = "vip"
             /\ step'[b] = 6 => kubeconfig' = life'
  <2>1. b \in Bootstraps \ meddled /\ b \in Requests /\ kind[b] = "bootstrap"
    BY <1>1 DEF Bootstraps
  <2>2. b = r
    BY <1>0, <1>1, <2>1 DEF Undisturbed
  <2>3. \A q \in Requests \ {b} : ~InHand(q)
    BY <1>0, <2>1, <2>2 DEF Undisturbed
  <2>4. QED
    BY <2>1, <2>2, <2>3 DEF InHand
<1>2. ASSUME NEW q \in Requests, record'[q] = "completed"
      PROVE  pc'[q] # "new" /\ step'[q] = 6
  BY <1>2 DEF Undisturbed
<1>3. QED
  BY <1>1, <1>2 DEF Undisturbed

LEMMA UndisturbedNext ==
    ASSUME FInv, Undisturbed, [Next]_vars PROVE Undisturbed'
<1>0. Types /\ Places /\ Owners
  BY DEF FInv, IInv
<1>a. ASSUME NEW r \in Requests, NEW s, Ends(r, s)
      PROVE  pc'[r] = s /\ \A q \in Requests \ {r} : pc'[q] = pc[q]
  BY <1>0, <1>a DEF Ends, Types
<1>b. ASSUME NEW r \in Requests, NextStep(r)
      PROVE  step'[r] = step[r] + 1 /\ \A q \in Requests \ {r} : step'[q] = step[q]
  BY <1>0, <1>b DEF NextStep, Types
<1>1. ASSUME NEW r \in Requests, Generate(r) \/ Reset(r) \/ Bootstrap(r)
      PROVE  Undisturbed'
  BY <1>1, ArrivalUndisturbed DEF Generate, Reset, Bootstrap, tracking
<1>2. ASSUME NEW r \in Requests, PointToVIP(r) PROVE Undisturbed'
  <2>1. CASE kind[r] = "bootstrap" /\ pc[r] = "track" /\ step[r] = 5
    <3>1. /\ endpoint' = "vip" /\ Ends(r, "retrieve")
          /\ UNCHANGED <<kind, meddled, kubeconfig, life, step, lifeOf, record>>
      BY <1>2, <2>1 DEF PointToVIP, Access, Arrives, cluster, tracking
    <3>2. record[r] # "completed"
      BY <2>1 DEF Undisturbed
    <3>3. r \notin meddled => lifeOf[r] \in {0, life}
      BY <2>1 DEF Undisturbed, Bootstraps
    <3>4. QED
      BY <1>a, <2>1, <3>1, <3>2, <3>3, OwnStepUndisturbed DEF InHand
  <2>2. CASE kind[r] \in {"configure", "regenerate"} /\ Arrives(r)
    BY <1>2, <2>2, ArrivalUndisturbed DEF PointToVIP, tracking
  <2>3. QED
    BY <1>2, <2>1, <2>2 DEF PointToVIP, Access
<1>3. ASSUME NEW r \in Requests, Refuse(r) PROVE Undisturbed'
  <2>1. /\ kind[r] # "bootstrap" /\ pc[r] = "new" /\ Ends(r, "failed")
        /\ UNCHANGED <<kind, endpoint, kubeconfig, life, step, lifeOf, record, meddled>>
    BY <1>3 DEF Refuse, files, cluster, tracking
  <2>2. \A q \in Requests : InHand(q)' => InHand(q)
    BY <1>a, <2>1 DEF InHand
  <2>3. QED
    BY <1>a, <2>1, <2>2 DEF Undisturbed, Bootstraps
<1>4. ASSUME NEW r \in Requests,
             GenSecrets(r) \/ GenConfig(r) \/ GenerateFails(r) \/ RemoveAll(r) \/ AccessFails(r)
      PROVE  Undisturbed'
  <2>1. /\ UNCHANGED <<kind, life, step, lifeOf, record, meddled>>
        /\ (UNCHANGED pc) \/ \E s \in {"config", "done", "failed"} : Ends(r, s)
        /\ pc[r] \in {"secrets", "config", "remove"} \/ kind[r] \in {"configure", "regenerate"}
        /\ pc[r] \in {"secrets", "config", "remove", "retrieve"}
    BY <1>4 DEF GenSecrets, GenConfig, GenerateFails, RemoveAll, AccessFails, cluster, tracking
  <2>2. kind[r] # "bootstrap"
    BY <1>0, <2>1 DEF Owners
  <2>3. record[r] # "completed" \/ step[r] = 6
    BY DEF Undisturbed
  <2>4. InHand(r) /\ pc'[r] # "new" /\ \A q \in Requests \ {r} : pc'[q] = pc[q]
    BY <1>a, <2>1 DEF InHand
  <2>5. QED
    BY <2>1, <2>2, <2>3, <2>4, OwnStepUndisturbed
<1>5. ASSUME NEW r \in Requests, SetEndpoint(r) PROVE Undisturbed'
  <2>1. /\ pc[r] = "track" /\ step[r] = 0 /\ Ends(r, "command")
        /\ UNCHANGED <<kind, kubeconfig, life, step, lifeOf, record, meddled>>
    BY <1>5 DEF SetEndpoint, cluster, tracking
  <2>2. record[r] # "completed" /\ lifeOf[r] = 0
    BY <1>0, <2>1 DEF Undisturbed, Places
  <2>3. QED
    BY <1>a, <2>1, <2>2, OwnStepUndisturbed DEF InHand
<1>6. ASSUME NEW r \in Requests, CommandFails(r) PROVE Undisturbed'
  <2>1. /\ pc[r] \in {"track", "command", "retrieve"} /\ kind[r] = "bootstrap"
        /\ Ends(r, "failed") /\ record' = [record EXCEPT ![r] = "failed"]
        /\ UNCHANGED <<kind, endpoint, kubeconfig, life, step, lifeOf, meddled>>
    BY <1>6 DEF CommandFails, FailBootstrap, files, cluster
  <2>2. /\ record'[r] = "failed" /\ \A q \in Requests \ {r} : record'[q] = record[q]
    BY <1>0, <2>1 DEF Types
  <2>3. r \notin meddled => /\ lifeOf[r] \in {0, life}
                            /\ step[r] = 6 => endpoint = "vip" /\ kubeconfig = life
    BY <2>1 DEF Undisturbed, Bootstraps
  <2>4. QED
    BY <1>a, <2>1, <2>2, <2>3, OwnStepUndisturbed DEF InHand
<1>7. ASSUME NEW r \in Requests, Probe(r) PROVE Undisturbed'
  <2>1. /\ pc[r] = "track" /\ step[r] \in Waits /\ kind[r] = "bootstrap"
        /\ UNCHANGED <<kind, endpoint, kubeconfig, life, lifeOf, meddled>>
    BY <1>7 DEF Probe, Waiting, files, cluster
  <2>2. r \notin meddled => /\ lifeOf[r] \in {0, life}
                            /\ step[r] = 6 => endpoint = "vip" /\ kubeconfig = life
    BY <2>1 DEF Undisturbed, Bootstraps
  <2>3. record[r] = "completed" => step[r] = 6
    BY DEF Undisturbed
  <2>4. CASE Missed(r) \/ Exhausted(r)
    <3>1. /\ step' = step
          /\ \A q \in Requests \ {r} : pc'[q] = pc[q] /\ record'[q] = record[q]
          /\ pc'[r] \in {"track", "failed"} /\ record'[r] \in {record[r], "failed"}
      BY <1>0, <1>a, <2>1, <2>4 DEF Missed, Exhausted, FailBootstrap, Types
    <3>2. QED
      BY <2>1, <2>2, <2>3, <3>1, OwnStepUndisturbed DEF InHand
  <2>5. CASE Found(r) /\ step[r] = 6
    <3>1. /\ step' = step /\ Ends(r, "done")
          /\ \A q \in Requests \ {r} : record'[q] = record[q]
      BY <1>0, <2>5 DEF Found, Types
    <3>2. QED
      BY <1>a, <2>1, <2>2, <2>5, <3>1, OwnStepUndisturbed DEF InHand
  <2>6. CASE Found(r) /\ step[r] # 6
    <3>1. NextStep(r) /\ UNCHANGED <<pc, record>>
      BY <2>6 DEF Found
    <3>2. step'[r] = step[r] + 1 /\ step'[r] # 6
      BY <1>b, <2>1, <2>6, <3>1 DEF Waits, Steps
    <3>3. QED
      BY <1>b, <2>1, <2>2, <2>3, <2>6, <3>1, <3>2, OwnStepUndisturbed DEF InHand
  <2>7. QED
    BY <1>7, <2>4, <2>5, <2>6 DEF Probe
<1>8. ASSUME NEW r \in Requests, RunBootstrapCommand(r) PROVE Undisturbed'
  <2>1. /\ pc[r] = "command" /\ Ends(r, "track") /\ NextStep(r)
        /\ lifeOf' = [lifeOf EXCEPT ![r] = life']
        /\ UNCHANGED <<kind, endpoint, kubeconfig, record, meddled>>
    BY <1>8 DEF RunBootstrapCommand, files
  <2>2. step[r] = 0 /\ record[r] # "completed"
    BY <1>0, <2>1 DEF Places, Undisturbed
  <2>3. step'[r] = 1 /\ lifeOf'[r] = life'
        /\ \A q \in Requests \ {r} : lifeOf'[q] = lifeOf[q]
    BY <1>0, <1>b, <2>1, <2>2 DEF Types
  <2>4. QED
    BY <1>a, <1>b, <2>1, <2>2, <2>3, OwnStepUndisturbed DEF InHand
<1>9. ASSUME NEW r \in Requests, Retrieve(r) PROVE Undisturbed'
  <2>1. /\ pc[r] = "retrieve" /\ kubeconfig' = life
        /\ UNCHANGED <<kind, endpoint, life, record, lifeOf, meddled>>
    BY <1>9 DEF Retrieve, cluster
  <2>2. record[r] = "completed" => step[r] = 6
    BY DEF Undisturbed
  <2>3. CASE kind[r] = "bootstrap"
    <3>1. Ends(r, "track") /\ NextStep(r) /\ step[r] = 5
      BY <1>0, <1>9, <2>1, <2>3 DEF Retrieve, Places
    <3>2. step'[r] = 6
      BY <1>b, <3>1
    <3>3. r \notin meddled => endpoint = "vip" /\ lifeOf[r] \in {0, life}
      BY <2>1, <2>3 DEF Undisturbed, Bootstraps
    <3>4. QED
      BY <1>a, <1>b, <2>1, <2>3, <3>1, <3>2, <3>3, OwnStepUndisturbed DEF InHand
  <2>4. CASE kind[r] # "bootstrap"
    <3>1. Ends(r, "done") /\ UNCHANGED step
      BY <1>9, <2>4 DEF Retrieve
    <3>2. QED
      BY <1>a, <2>1, <2>2, <2>4, <3>1, OwnStepUndisturbed DEF InHand
  <2>5. QED
    BY <2>3, <2>4
<1>10. CASE Configured \/ Advance \/ Wiped \/ UNCHANGED vars
  <2>1. UNCHANGED <<kind, pc, endpoint, kubeconfig, life, step, lifeOf, record, meddled>>
    BY <1>10 DEF Configured, Advance, Wiped, vars, files, cluster, tracking
  <2>2. QED
    BY <2>1 DEF Undisturbed, Bootstraps, InHand
<1>11. CASE Crash
  <2>1. /\ UNCHANGED <<kind, endpoint, kubeconfig, life, step, lifeOf, record, meddled>>
        /\ \A q \in Requests : pc'[q] = IF InHand(q) THEN "dead" ELSE pc[q]
    BY <1>11 DEF Crash, files, cluster, tracking
  <2>2. \A q \in Requests : ~InHand(q)' /\ (pc'[q] = "new" <=> pc[q] = "new")
                            /\ pc'[q] # "retrieve"
    BY <2>1 DEF InHand
  <2>3. QED
    BY <2>1, <2>2 DEF Undisturbed, Bootstraps
<1>12. QED
  BY <1>1, <1>2, <1>3, <1>4, <1>5, <1>6, <1>7, <1>8, <1>9, <1>10, <1>11 DEF Next

(* Secrets, base configuration and talosconfig are of one generation       *)
(* whenever nobody is at work on them, unless something broke off; and a   *)
(* bootstrap that nobody met or followed leaves access to the cluster it   *)
(* began, whatever an earlier cluster left behind.                         *)
THEOREM FilesKeepAgreeing == Spec => []FilesAgree
<1>1. AgreeInv /\ [Next]_vars => AgreeInv'
  BY FInvNext, TogetherNext, UndisturbedNext DEF AgreeInv
<1>2. AgreeInv => GenerationsAgree
  <2> SUFFICES ASSUME AgreeInv, ~cut,
                      \A r \in Requests : pc[r] \notin {"secrets", "config", "remove"}
               PROVE  Cardinality({generated[f] : f \in Files}) = 1
    BY DEF GenerationsAgree
  <2>1. /\ generated["base"] = generated["talosconfig"]
        /\ generated["secrets"] = generated["base"]
    BY DEF AgreeInv, Together
  <2>2. {generated[f] : f \in Files} = {generated["base"]}
    BY <2>1 DEF Files
  <2>3. QED
    BY <2>2, FS_Singleton
<1>3. AgreeInv => CompletedGivesAccess
  <2> SUFFICES ASSUME AgreeInv, NEW b \in Bootstraps, record[b] = "completed", b \notin meddled
               PROVE  kubeconfig = lifeOf[b] /\ endpoint = "vip"
    BY DEF CompletedGivesAccess
  <2>1. b \in Requests /\ pc[b] # "new" /\ step[b] = 6
    BY DEF AgreeInv, Undisturbed, Bootstraps
  <2>2. lifeOf[b] # 0
    BY <2>1 DEF AgreeInv, FInv, IInv, Places
  <2>3. QED
    BY <2>1, <2>2 DEF AgreeInv, Undisturbed
<1>4. AgreeInv => TypeOK
  BY FInvTypes DEF AgreeInv
<1>5. QED
  BY <1>1, <1>2, <1>3, <1>4, AgreeInit, PTL DEF Spec, FilesAgree

-----------------------------------------------------------------------------
(* What BootstrapEnds rests on, but for fairness.                          *)

(* The record of a bootstrap says where its goroutine stands; only a death *)
(* of the daemon leaves "pending" behind.                                  *)
RecordIsOf(r) ==
    /\ pc[r] = "dead" => crashes > 0
    /\ IF kind[r] = "bootstrap"
       THEN /\ record[r] = "none" <=> pc[r] = "new"
            /\ record[r] = "pending" <=> pc[r] \in {"track", "command", "retrieve", "dead"}
            /\ record[r] = "completed" <=> pc[r] = "done"
            /\ record[r] = "failed" <=> pc[r] = "failed"
       ELSE record[r] = "none"
RecordsAreTrue == \A r \in Requests : RecordIsOf(r)

(* A bootstrap under way takes a further attempt, of which each step has   *)
(* a number, goes on to the next step, of which there are seven, goes on   *)
(* to a command of its step, or ends.                                      *)
MovesOn(r) ==
    \/ step'[r] = step[r] /\ attempt'[r] = attempt[r] /\ pc'[r] = pc[r]
    \/ step'[r] = step[r] /\ attempt'[r] = attempt[r] + 1 /\ pc'[r] = pc[r]
    \/ step'[r] = step[r] + 1
    \/ step'[r] = step[r] /\ attempt'[r] = attempt[r] /\ pc[r] = "track" /\ pc'[r] \in {"command", "retrieve"}
    \/ pc'[r] \in {"done", "failed", "dead"}
BootstrapsMoveOn == \A r \in Bootstraps : record[r] = "pending" => MovesOn(r)

PendingIsBounded ==
    \A r \in Requests : record[r] = "pending" => step[r] \in Steps /\ attempt[r] \in 1..Limit(step[r])

LEMMA RecordsOfOthers ==
    ASSUME FInv, NEW r \in Requests, UNCHANGED <<kind, crashes>>,
           \A q \in Requests \ {r} : /\ pc'[q] = pc[q] /\ record'[q] = record[q]
                                     /\ step'[q] = step[q] /\ attempt'[q] = attempt[q],
           RecordIsOf(r)', record[r] = "pending" => MovesOn(r), RecordsAreTrue
    PROVE  RecordsAreTrue' /\ BootstrapsMoveOn
<1>1. \A q \in Requests \ {r} : RecordIsOf(q)'
  BY DEF RecordsAreTrue, RecordIsOf
<1>2. \A q \in Requests \ {r} : MovesOn(q)
  BY DEF MovesOn
<1> QED
  BY <1>1, <1>2 DEF RecordsAreTrue, BootstrapsMoveOn, Bootstraps

LEMMA RecordsNext == ASSUME FInv, RecordsAreTrue, [Next]_vars PROVE RecordsAreTrue' /\ BootstrapsMoveOn
<1>0. /\ Types /\ Owners /\ Places
      /\ attempt = [q \in Requests |-> attempt[q]] /\ attempt \in [Requests -> Nat]
  BY DEF FInv, IInv, Attempts
<1>1. pc = [q \in Requests |-> pc[q]] /\ record = [q \in Requests |-> record[q]] /\ step = [q \in Requests |-> step[q]]
      /\ \A q \in Requests : kind[q] \in Kinds /\ step[q] \in Nat
  BY <1>0 DEF Types, Steps
<1>2. ASSUME NEW r \in Requests, NEW to, pc' = [pc EXCEPT ![r] = to], UNCHANGED <<kind, crashes, tracking>>,
             kind[r] # "bootstrap", to # "dead"
      PROVE  RecordsAreTrue' /\ BootstrapsMoveOn
  <2>1. pc'[r] = to /\ \A q \in Requests \ {r} : pc'[q] = pc[q]
    BY <1>1, <1>2
  <2>2. UNCHANGED <<step, attempt, record>>
    BY <1>2 DEF tracking
  <2>3. RecordIsOf(r) /\ record[r] # "pending"
    BY <1>2 DEF RecordsAreTrue, RecordIsOf
  <2>4. RecordIsOf(r)'
    BY <1>2, <2>1, <2>2, <2>3 DEF RecordIsOf
  <2> QED
    BY <1>2, <2>1, <2>2, <2>3, <2>4, RecordsOfOthers
<1>3. ASSUME UNCHANGED <<kind, pc, crashes, tracking>> PROVE RecordsAreTrue' /\ BootstrapsMoveOn
  BY <1>3 DEF tracking, RecordsAreTrue, RecordIsOf, BootstrapsMoveOn, MovesOn
<1>4. ASSUME NEW r \in Requests, Refuse(r) \/ Generate(r) \/ GenSecrets(r) \/ GenConfig(r)
                    \/ GenerateFails(r) \/ Reset(r) \/ RemoveAll(r) \/ AccessFails(r)
      PROVE  RecordsAreTrue' /\ BootstrapsMoveOn
  <2>1. UNCHANGED <<kind, crashes, tracking>>
    BY <1>4 DEF Refuse, Generate, GenSecrets, GenConfig, GenerateFails, Reset, RemoveAll, AccessFails
  <2>2. kind[r] # "bootstrap"
    BY <1>0, <1>4 DEF Refuse, Generate, GenSecrets, GenConfig, GenerateFails, Reset, RemoveAll, AccessFails, Owners
  <2>3. pc' = pc \/ \E to \in {"secrets", "config", "remove", "done", "failed"} : pc' = [pc EXCEPT ![r] = to]
    BY <1>4 DEF Refuse, Generate, GenSecrets, GenConfig, GenerateFails, Reset, RemoveAll, AccessFails, Ends
  <2> QED
    BY <1>2, <1>3, <2>1, <2>2, <2>3
<1>5. ASSUME NEW r \in Requests, NEW to \in {"track", "command", "retrieve", "done", "failed"}, kind[r] = "bootstrap",
             NEW says, UNCHANGED <<kind, crashes, step, attempt>>,
             pc' = [pc EXCEPT ![r] = to], record' = [record EXCEPT ![r] = says],
             says = CASE to = "done" -> "completed" [] to = "failed" -> "failed" [] OTHER -> "pending",
             \/ pc[r] = "new"
             \/ pc[r] = "track" /\ to # "track"
             \/ pc[r] \in {"command", "retrieve"} /\ to = "failed"
      PROVE  RecordsAreTrue' /\ BootstrapsMoveOn
  <2>1. pc'[r] = to /\ record'[r] = says
    BY <1>1, <1>5
  <2>2. \A q \in Requests \ {r} : pc'[q] = pc[q] /\ record'[q] = record[q]
    BY <1>1, <1>5
  <2>3. RecordIsOf(r)'
    BY <1>5, <2>1 DEF RecordIsOf
  <2>4. pc[r] = "new" => record[r] # "pending"
    BY <1>5 DEF RecordsAreTrue, RecordIsOf
  <2>5. record[r] = "pending" => MovesOn(r)
    BY <1>5, <2>1, <2>4 DEF MovesOn
  <2> QED
    BY <1>5, <2>2, <2>3, <2>5, RecordsOfOthers
<1>6. ASSUME NEW r \in Requests, NextStep(r), UNCHANGED <<kind, crashes, record>>, kind[r] = "bootstrap",
             pc' = [pc EXCEPT ![r] = "track"], record[r] = "pending"
      PROVE  RecordsAreTrue' /\ BootstrapsMoveOn
  <2>1. pc'[r] = "track" /\ step'[r] = step[r] + 1
    BY <1>1, <1>6 DEF NextStep
  <2>2. \A q \in Requests \ {r} : pc'[q] = pc[q] /\ step'[q] = step[q] /\ attempt'[q] = attempt[q]
    BY <1>0, <1>1, <1>6 DEF NextStep
  <2>3. RecordIsOf(r)' /\ MovesOn(r)
    BY <1>6, <2>1 DEF RecordIsOf, MovesOn
  <2> QED
    BY <1>6, <2>2, <2>3, RecordsOfOthers
<1>7. \A r \in Requests : kind[r] = "bootstrap" /\ pc[r] \in {"track", "command", "retrieve"} => record[r] = "pending"
  BY DEF RecordsAreTrue, RecordIsOf
<1>8. ASSUME NEW r \in Requests, record[r] = "pending" PROVE record = [record EXCEPT ![r] = "pending"]
  BY <1>1, <1>8
<1>9. ASSUME NEW r \in Requests, Bootstrap(r) PROVE RecordsAreTrue' /\ BootstrapsMoveOn
  BY <1>5, <1>9 DEF Bootstrap, Arrives, Ends
<1>10. ASSUME NEW r \in Requests, SetEndpoint(r) PROVE RecordsAreTrue' /\ BootstrapsMoveOn
  <2>1. kind[r] = "bootstrap" /\ pc[r] = "track" /\ pc' = [pc EXCEPT ![r] = "command"] /\ UNCHANGED <<kind, crashes, tracking>>
    BY <1>10 DEF SetEndpoint, Ends
  <2> QED
    BY <1>5, <1>7, <1>8, <2>1 DEF tracking
<1>11. ASSUME NEW r \in Requests, RunBootstrapCommand(r) PROVE RecordsAreTrue' /\ BootstrapsMoveOn
  <2>1. kind[r] = "bootstrap" /\ pc[r] = "command"
    BY <1>0, <1>11 DEF RunBootstrapCommand, Owners
  <2> QED
    BY <1>6, <1>7, <1>11, <2>1 DEF RunBootstrapCommand, Ends
<1>12. ASSUME NEW r \in Requests, CommandFails(r) PROVE RecordsAreTrue' /\ BootstrapsMoveOn
  BY <1>5, <1>12 DEF CommandFails, FailBootstrap, Ends
<1>13. ASSUME NEW r \in Requests, Probe(r) PROVE RecordsAreTrue' /\ BootstrapsMoveOn
  <2>1. kind[r] = "bootstrap" /\ pc[r] = "track" /\ UNCHANGED <<kind, crashes>> /\ record[r] = "pending"
    BY <1>7, <1>13 DEF Probe, Waiting
  <2>2. CASE Found(r)
    <3>1. CASE step[r] = 6
      BY <1>5, <2>1, <2>2, <3>1 DEF Found, Ends
    <3>2. CASE step[r] # 6
      <4>1. pc = [pc EXCEPT ![r] = "track"]
        BY <1>1, <2>1
      <4> QED
        BY <1>6, <2>1, <2>2, <3>2, <4>1 DEF Found
    <3> QED
      BY <3>1, <3>2
  <2>3. CASE Missed(r)
    <3>1. UNCHANGED <<pc, step, record>> /\ attempt' = [attempt EXCEPT ![r] = @ + 1]
      BY <2>3 DEF Missed
    <3>2. attempt'[r] = attempt[r] + 1 /\ \A q \in Requests \ {r} : attempt'[q] = attempt[q]
      BY <1>0, <3>1
    <3>3. RecordIsOf(r)' /\ MovesOn(r)
      BY <2>1, <3>1, <3>2 DEF RecordsAreTrue, RecordIsOf, MovesOn
    <3> QED
      BY <2>1, <3>1, <3>2, <3>3, RecordsOfOthers
  <2>4. CASE Exhausted(r)
    BY <1>5, <2>1, <2>4 DEF Exhausted, FailBootstrap, Ends
  <2> QED
    BY <1>13, <2>2, <2>3, <2>4 DEF Probe
<1>14. ASSUME NEW r \in Requests, PointToVIP(r) PROVE RecordsAreTrue' /\ BootstrapsMoveOn
  <2>1. pc' = [pc EXCEPT ![r] = "retrieve"] /\ UNCHANGED <<kind, crashes, tracking>>
    BY <1>14 DEF PointToVIP, Ends
  <2>2. CASE kind[r] = "bootstrap"
    <3>1. pc[r] = "track"
      BY <1>14, <2>2 DEF PointToVIP, Access
    <3> QED
      BY <1>5, <1>7, <1>8, <2>1, <2>2, <3>1 DEF tracking
  <2>3. CASE kind[r] # "bootstrap"
    BY <1>2, <2>1, <2>3
  <2> QED
    BY <2>2, <2>3
<1>15. ASSUME NEW r \in Requests, Retrieve(r) PROVE RecordsAreTrue' /\ BootstrapsMoveOn
  <2>1. pc[r] = "retrieve" /\ UNCHANGED <<kind, crashes, record, lifeOf>>
    BY <1>15 DEF Retrieve
  <2>2. CASE kind[r] = "bootstrap"
    BY <1>6, <1>7, <1>15, <2>1, <2>2 DEF Retrieve, Ends
  <2>3. CASE kind[r] # "bootstrap"
    <3>1. pc' = [pc EXCEPT ![r] = "done"] /\ UNCHANGED <<step, attempt>>
      BY <1>15, <2>3 DEF Retrieve, Ends
    <3> QED
      BY <1>2, <2>1, <2>3, <3>1 DEF tracking
  <2> QED
    BY <2>2, <2>3
<1>16. ASSUME Configured \/ Advance \/ Wiped PROVE RecordsAreTrue' /\ BootstrapsMoveOn
  BY <1>3, <1>16 DEF Configured, Advance, Wiped
<1>17. ASSUME Crash PROVE RecordsAreTrue' /\ BootstrapsMoveOn
  <2>1. UNCHANGED <<kind, step, attempt, record>> /\ crashes' > 0
    BY <1>17, ClusterAssumption DEF Crash, tracking, FInv, FileTypes
  <2>2. \A q \in Requests : pc'[q] = IF InHand(q) THEN "dead" ELSE pc[q]
    BY <1>17 DEF Crash
  <2>3. \A q \in Requests : RecordIsOf(q)'
    BY <1>0, <2>1, <2>2 DEF RecordsAreTrue, RecordIsOf, InHand, Owners, Types
  <2>4. \A q \in Requests : MovesOn(q)
    BY <2>1, <2>2 DEF MovesOn
  <2> QED
    BY <2>3, <2>4 DEF RecordsAreTrue, BootstrapsMoveOn, Bootstraps
<1>18. ASSUME UNCHANGED vars PROVE RecordsAreTrue' /\ BootstrapsMoveOn
  BY <1>3, <1>18 DEF vars
<1> QED
  BY <1>4, <1>9, <1>10, <1>11, <1>12, <1>13, <1>14, <1>15, <1>16, <1>17, <1>18 DEF Next

(* However requests about the cluster overlap and fail: the record of a    *)
(* bootstrap agrees with its goroutine, "pending" is left behind by a      *)
(* death of the daemon only, and a pending bootstrap never goes back, so   *)
(* that it ends after as many steps as its attempts and commands allow.    *)
THEOREM PendingBootstrapsMoveOn == Spec => [](RecordsAreTrue /\ PendingIsBounded) /\ [][BootstrapsMoveOn]_vars
<1>1. Init => FInv /\ RecordsAreTrue
  <2>1. Init => RecordsAreTrue
    BY DEF Init, RecordsAreTrue, RecordIsOf
  <2> QED
    BY <2>1, FInvInit
<1>2. FInv /\ RecordsAreTrue /\ [Next]_vars => (FInv /\ RecordsAreTrue)'
  BY FInvNext, RecordsNext
<1>3. FInv /\ RecordsAreTrue /\ [Next]_vars => [BootstrapsMoveOn]_vars
  BY RecordsNext
<1>4. FInv => PendingIsBounded
  BY LimitPositive DEF FInv, IInv, Types, Attempts, PendingIsBounded
<1> QED
  BY <1>1, <1>2, <1>3, <1>4, PTL DEF Spec
=============================================================================
