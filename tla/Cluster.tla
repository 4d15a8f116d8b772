------------------------------- MODULE Cluster -------------------------------
(***************************************************************************)
(* How an instance gets its cluster, api/internal/cluster: the requests    *)
(* that generate the Talos configuration, bootstrap the cluster in seven   *)
(* steps, point the access files to it, and remove the configuration.      *)
(* Every request has a manager of its own and nothing orders them.  Files  *)
(* carry the generation of secrets they were made from; the machines carry *)
(* the generation they were configured with.  One talosctl or kubectl call *)
(* is one step; an operation record is rewritten in one step (Operations   *)
(* takes that apart).                                                      *)
(***************************************************************************)
EXTENDS Naturals, FiniteSets

CONSTANTS
    Requests,    \* requests about the cluster of one instance
    Mixes,       \* what they may do: a set of functions
    MaxAttempts, \* MaxAttempts[s]: probes of step s: 30, 90, 60, 60, 10
    MaxCrashes   \* bound: deaths of the daemon

Kinds == {"generate", "bootstrap", "configure", "regenerate", "reset"}
Files == {"secrets", "base", "talosconfig"}
Steps == 0..6     \* bootstrap, etcd, vip, controlplane, apiserver, configure, nodes
Waits == Steps \ {0, 5}
Up == 6           \* nothing is left to wait for

ASSUME ClusterAssumption ==
    /\ IsFiniteSet(Requests)
    /\ Mixes \subseteq [Requests -> Kinds]
    /\ MaxAttempts \in [Waits -> Nat \ {0}]
    /\ MaxCrashes \in Nat

VARIABLES
    kind,       \* kind[r]: what the request does; it never changes
    pc,         \* pc[r]: where the request, or its goroutine, stands
    generated,  \* generated[f]: the generation of a file in talos/generated, or 0
    gens,       \* generations of secrets so far
    endpoint,   \* of talosconfig: "local", "node" or "vip"
    kubeconfig, \* the life of the cluster it gives access to, 0: no file
    machines,   \* the generation the control plane runs with, 0: maintenance
    life,       \* lives of the cluster so far: it is bootstrapped, it is wiped
    level,      \* how far the cluster is: 0, or up to which wait it has come
    step, attempt,  \* of each bootstrap, as its operation record shows them
    record,     \* record[r]: the status in the bootstrap's operation record
    crashes,    \* deaths of the daemon
    lifeOf,     \* history: the life that bootstrap r began
    cut,        \* history: a generation or a reset broke off, or two met
    meddled     \* history: bootstraps that others met or followed

files == <<generated, gens, endpoint, kubeconfig>>
cluster == <<machines, life, level>>
tracking == <<step, attempt, record, lifeOf>>
vars == <<kind, pc, files, cluster, tracking, crashes, cut, meddled>>

InHand(r) == pc[r] \notin {"new", "done", "failed", "dead"}
Bootstraps == {r \in Requests : kind[r] = "bootstrap"}

-----------------------------------------------------------------------------
(* The external commands: when they can succeed.                           *)

(* talosctl reaches the machines with the credentials they trust.          *)
TalosAnswers == machines # 0 /\ generated["talosconfig"] = machines

(* How far the cluster must be before a step; step 5 only changes files.   *)
Before(s) == IF s = 6 THEN 5 ELSE s

(* What the probe of a step looks for: etcd status, addresses, containers  *)
(* (talosctl), /healthz on the VIP (curl), the nodes (kubectl).            *)
ProbeFinds(s) ==
    /\ level > Before(s)
    /\ s \in {1, 2, 3} => TalosAnswers
    /\ s = 6 => kubeconfig = life

(* talosctl kubeconfig --nodes VIP.                                        *)
KubeconfigIsServed == TalosAnswers /\ level > 2

-----------------------------------------------------------------------------
(* A request arrives; what it meets.                                       *)
Ends(r, how) == pc' = [pc EXCEPT ![r] = how]
Generation == {"generate", "reset"}
Arrives(r) ==
    /\ pc[r] = "new"
    /\ cut' = \/ cut
              \/ /\ kind[r] \in Generation
                 /\ \E q \in Requests : InHand(q) /\ {kind[q], kind[r]} = Generation
    /\ meddled' = meddled \cup {b \in Bootstraps \ {r} : pc[b] # "new"}
                    \cup {b \in Bootstraps \cap {r} : \E q \in Requests \ {r} : InHand(q)}

(* A value is missing in config.yaml.                                      *)
Refuse(r) ==
    /\ pc[r] = "new" /\ kind[r] \notin {"bootstrap", "reset"}
    /\ Ends(r, "failed")
    /\ UNCHANGED <<kind, files, cluster, tracking, crashes, cut, meddled>>

-----------------------------------------------------------------------------
(* GenerateConfig.  Secrets that are there mean that all is done.          *)
Generate(r) ==
    /\ kind[r] = "generate" /\ Arrives(r)
    /\ Ends(r, IF generated["secrets"] # 0 THEN "done" ELSE "secrets")
    /\ UNCHANGED <<kind, files, cluster, tracking, crashes>>

(* talosctl gen secrets and gen config do not overwrite a file.            *)
GenSecrets(r) ==
    /\ pc[r] = "secrets"
    /\ generated["secrets"] = 0
    /\ gens' = gens + 1
    /\ generated' = [generated EXCEPT !["secrets"] = gens']
    /\ Ends(r, "config")
    /\ UNCHANGED <<kind, endpoint, kubeconfig, cluster, tracking, crashes, cut, meddled>>

GenConfig(r) ==
    /\ pc[r] = "config"
    /\ generated["secrets"] # 0
    /\ generated["base"] = 0 /\ generated["talosconfig"] = 0
    /\ generated' = [f \in Files |-> generated["secrets"]]
    /\ endpoint' = "local"
    /\ Ends(r, "done")
    /\ UNCHANGED <<kind, gens, kubeconfig, cluster, tracking, crashes, cut, meddled>>

GenerateFails(r) ==
    /\ pc[r] \in {"secrets", "config"}
    /\ Ends(r, "failed")
    /\ cut' = (cut \/ pc[r] = "config")
    /\ UNCHANGED <<kind, files, cluster, tracking, crashes, meddled>>

-----------------------------------------------------------------------------
(* Reset: the directory goes, file by file; nothing else does.             *)
Reset(r) ==
    /\ kind[r] = "reset" /\ Arrives(r)
    /\ Ends(r, "remove")
    /\ UNCHANGED <<kind, files, cluster, tracking, crashes>>

RemoveSecretsOnly(r) ==  \* mutant
    /\ pc[r] = "remove"
    /\ generated' = [generated EXCEPT !["secrets"] = 0]
    /\ Ends(r, "done")
    /\ UNCHANGED <<kind, gens, endpoint, kubeconfig, cluster, tracking, crashes,
                   cut, meddled>>

RemoveAll(r) ==
    /\ pc[r] = "remove"
    /\ \/ \E f \in Files :
            /\ generated[f] # 0
            /\ generated' = [generated EXCEPT ![f] = 0]
            /\ UNCHANGED <<pc, cut>>
       \/ /\ \A f \in Files : generated[f] = 0
          /\ Ends(r, "done")
          /\ UNCHANGED <<generated, cut>>
       \/ /\ Ends(r, "failed")
          /\ cut' = TRUE
          /\ UNCHANGED generated
    /\ UNCHANGED <<kind, gens, endpoint, kubeconfig, cluster, tracking, crashes, meddled>>

-----------------------------------------------------------------------------
(* Bootstrap.  The goroutine ends with the last step or the first error.   *)
Bootstrap(r) ==
    /\ kind[r] = "bootstrap" /\ Arrives(r)
    /\ Ends(r, "track")
    /\ record' = [record EXCEPT ![r] = "pending"]
    /\ UNCHANGED <<kind, files, cluster, step, attempt, lifeOf, crashes>>

FailBootstrap(r) ==
    /\ Ends(r, "failed")
    /\ record' = [record EXCEPT ![r] = "failed"]

NextStep(r) ==
    /\ step' = [step EXCEPT ![r] = @ + 1]
    /\ attempt' = [attempt EXCEPT ![r] = 1]

(* The first step: the endpoint is the node, then the command.             *)
SetEndpoint(r) ==
    /\ kind[r] = "bootstrap" /\ pc[r] = "track" /\ step[r] = 0
    /\ generated["talosconfig"] # 0
    /\ endpoint' = "node"
    /\ Ends(r, "command")
    /\ UNCHANGED <<kind, generated, gens, kubeconfig, cluster, tracking, crashes,
                   cut, meddled>>

RunCommandAgain(r) ==  \* mutant: the error of the command is ignored
    /\ pc[r] = "command" /\ TalosAnswers
    /\ level' = IF level = 0 THEN 1 ELSE level
    /\ life' = IF level = 0 THEN life + 1 ELSE life
    /\ lifeOf' = [lifeOf EXCEPT ![r] = life']
    /\ Ends(r, "track") /\ NextStep(r)
    /\ UNCHANGED <<kind, files, machines, record, crashes, cut, meddled>>

(* talosctl bootstrap: machines bootstrap once.                            *)
RunBootstrapCommand(r) ==
    /\ pc[r] = "command" /\ TalosAnswers
    /\ level = 0
    /\ level' = 1
    /\ life' = life + 1
    /\ lifeOf' = [lifeOf EXCEPT ![r] = life']
    /\ Ends(r, "track") /\ NextStep(r)
    /\ UNCHANGED <<kind, files, machines, record, crashes, cut, meddled>>

(* Any command but a probe may fail, and the bootstrap with it.            *)
CommandFails(r) ==
    /\ \/ kind[r] = "bootstrap" /\ pc[r] = "track" /\ step[r] \in {0, 5}
       \/ pc[r] \in {"command", "retrieve"} /\ kind[r] = "bootstrap"
    /\ FailBootstrap(r)
    /\ UNCHANGED <<kind, files, cluster, step, attempt, lifeOf, crashes, cut, meddled>>

(* A probe finds what the step waits for ...                               *)
Waiting(r) == kind[r] = "bootstrap" /\ pc[r] = "track" /\ step[r] \in Waits
Found(r) ==
    /\ ProbeFinds(step[r])
    /\ IF step[r] = 6
       THEN /\ Ends(r, "done")
            /\ record' = [record EXCEPT ![r] = "completed"]
            /\ UNCHANGED <<step, attempt>>
       ELSE NextStep(r) /\ UNCHANGED <<pc, record>>

(* ... or misses it, there or not.                                         *)
Missed(r) ==
    /\ attempt[r] < MaxAttempts[step[r]]
    /\ attempt' = [attempt EXCEPT ![r] = @ + 1]
    /\ UNCHANGED <<pc, step, record>>

(* The last attempt.  Mutants: the step is passed; attempts start over.    *)
ExhaustedPasses(r) ==
    /\ attempt[r] = MaxAttempts[step[r]] /\ step[r] # 6
    /\ NextStep(r)
    /\ UNCHANGED <<pc, record>>
ExhaustedStartsOver(r) ==
    /\ attempt[r] = MaxAttempts[step[r]]
    /\ attempt' = [attempt EXCEPT ![r] = 1]
    /\ UNCHANGED <<pc, step, record>>
Exhausted(r) ==
    /\ attempt[r] = MaxAttempts[step[r]]
    /\ FailBootstrap(r)
    /\ UNCHANGED <<step, attempt>>

Probe(r) ==
    /\ Waiting(r)
    /\ Found(r) \/ Missed(r) \/ Exhausted(r)
    /\ UNCHANGED <<kind, files, cluster, lifeOf, crashes, cut, meddled>>

-----------------------------------------------------------------------------
(* The endpoint is the VIP: step 5 of a bootstrap, or ConfigureEndpoints.  *)
(* RegenerateKubeconfig leaves it alone.                                   *)
Access(r) ==
    \/ kind[r] = "bootstrap" /\ pc[r] = "track" /\ step[r] = 5
         /\ UNCHANGED <<cut, meddled>>
    \/ kind[r] \in {"configure", "regenerate"} /\ Arrives(r)

PointToVIP(r) ==
    /\ Access(r)
    /\ IF kind[r] = "regenerate" THEN UNCHANGED endpoint
       ELSE generated["talosconfig"] # 0 /\ endpoint' = "vip"
    /\ Ends(r, "retrieve")
    /\ UNCHANGED <<kind, generated, gens, kubeconfig, cluster, tracking, crashes>>

Retrieve(r) ==
    /\ pc[r] = "retrieve" /\ KubeconfigIsServed
    /\ kubeconfig' = life
    /\ IF kind[r] = "bootstrap" THEN Ends(r, "track") /\ NextStep(r)
       ELSE Ends(r, "done") /\ UNCHANGED <<step, attempt>>
    /\ UNCHANGED <<kind, generated, gens, endpoint, cluster, record, lifeOf, crashes,
                   cut, meddled>>

(* ConfigureEndpoints at its first error; RegenerateKubeconfig after its   *)
(* 30 seconds of retries.                                                  *)
AccessFails(r) ==
    /\ kind[r] \in {"configure", "regenerate"} /\ pc[r] = "retrieve"
    /\ Ends(r, "failed")
    /\ UNCHANGED <<kind, files, cluster, tracking, crashes, cut, meddled>>

-----------------------------------------------------------------------------
(* The machines: configured from the base (Nodes), on their way up, wiped. *)
Configured ==
    /\ machines = 0 /\ generated["base"] # 0
    /\ machines' = generated["base"]
    /\ UNCHANGED <<kind, pc, files, life, level, tracking, crashes, cut, meddled>>

Advance ==
    /\ level \in 1..Up - 1
    /\ level' = level + 1
    /\ UNCHANGED <<kind, pc, files, machines, life, tracking, crashes, cut, meddled>>

Wiped ==
    /\ machines # 0
    /\ machines' = 0 /\ level' = 0
    /\ UNCHANGED <<kind, pc, files, life, tracking, crashes, cut, meddled>>

Crash ==
    /\ crashes < MaxCrashes
    /\ \E r \in Requests : InHand(r)
    /\ crashes' = crashes + 1
    /\ pc' = [r \in Requests |-> IF InHand(r) THEN "dead" ELSE pc[r]]
    /\ cut' = (cut \/ \E r \in Requests : pc[r] \in {"config", "remove"})
    /\ UNCHANGED <<kind, files, cluster, tracking, meddled>>

-----------------------------------------------------------------------------
(* A new instance, or one whose cluster is up.                             *)
Init ==
    /\ kind \in Mixes
    /\ pc = [r \in Requests |-> "new"]
    /\ \E n \in {0, 1} :
         /\ generated = [f \in Files |-> n]
         /\ gens = n /\ kubeconfig = n /\ machines = n /\ life = n
         /\ endpoint = IF n = 0 THEN "local" ELSE "vip"
         /\ level = IF n = 0 THEN 0 ELSE Up
    /\ step = [r \in Requests |-> 0]
    /\ attempt = [r \in Requests |-> 1]
    /\ record = [r \in Requests |-> "none"]
    /\ crashes = 0
    /\ lifeOf = [r \in Requests |-> 0]
    /\ cut = FALSE
    /\ meddled = {}

Track(r) ==
    \/ SetEndpoint(r) \/ RunBootstrapCommand(r) \/ CommandFails(r) \/ Probe(r)
    \/ kind[r] = "bootstrap" /\ (PointToVIP(r) \/ Retrieve(r))

Next ==
    \/ \E r \in Requests :
         \/ Refuse(r)
         \/ Generate(r) \/ GenSecrets(r) \/ GenConfig(r) \/ GenerateFails(r)
         \/ Reset(r) \/ RemoveAll(r)
         \/ Bootstrap(r) \/ SetEndpoint(r) \/ RunBootstrapCommand(r)
         \/ CommandFails(r) \/ Probe(r)
         \/ PointToVIP(r) \/ Retrieve(r) \/ AccessFails(r)
    \/ Configured \/ Advance \/ Wiped \/ Crash

Spec == Init /\ [][Next]_vars

(* The goroutine of a bootstrap is run and the commands it starts end; the *)
(* machines owe nothing.                                                   *)
FairSpec == Spec /\ \A r \in Requests : WF_vars(Track(r))

-----------------------------------------------------------------------------
TypeOK ==
    /\ kind \in [Requests -> Kinds]
    /\ pc \in [Requests -> {"new", "secrets", "config", "remove", "track", "command",
                            "retrieve", "done", "failed", "dead"}]
    /\ gens \in 0..Cardinality(Requests) + 1
    /\ generated \in [Files -> 0..gens]
    /\ endpoint \in {"local", "node", "vip"}
    /\ machines \in 0..gens
    /\ life \in 0..Cardinality(Requests) + 1
    /\ kubeconfig \in 0..life
    /\ level \in 0..Up
    /\ step \in [Requests -> Steps]
    /\ \A r \in Requests :
         attempt[r] \in 1..(IF step[r] \in Waits THEN MaxAttempts[step[r]] ELSE 1)
    /\ record \in [Requests -> {"none", "pending", "completed", "failed"}]
    /\ lifeOf \in [Requests -> 0..life]
    /\ crashes \in 0..MaxCrashes
    /\ cut \in BOOLEAN
    /\ meddled \subseteq Requests

(* Whatever generations run at once: once none is under way, secrets, base *)
(* configuration and talosconfig are all there and of one generation, or   *)
(* none is, unless a generation or a reset broke off or the two met.       *)
GenerationsAgree ==
    (~cut /\ \A r \in Requests : pc[r] \notin {"secrets", "config", "remove"}) =>
        Cardinality({generated[f] : f \in Files}) = 1

(* The progress shown is never ahead of the cluster, as long as its        *)
(* machines are not wiped.                                                 *)
ProgressIsHonest ==
    \A b \in Bootstraps :
        (record[b] \in {"pending", "completed"} /\ lifeOf[b] = life /\ level # 0) =>
            /\ Before(step[b]) <= level
            /\ record[b] = "completed" => level = Up

(* However bootstraps race, follow each other or are tried again: no two   *)
(* of them complete for the same life of the cluster.                      *)
OneBootstrapCompletes ==
    \A b, c \in Bootstraps :
        (b # c /\ record[b] = "completed" /\ record[c] = "completed") =>
            lifeOf[b] # lifeOf[c]

(* A bootstrap that no other request met or followed leaves access to the  *)
(* cluster it began, whatever files an earlier cluster left behind.        *)
CompletedGivesAccess ==
    \A b \in Bootstraps :
        (record[b] = "completed" /\ b \notin meddled) =>
            kubeconfig = lifeOf[b] /\ endpoint = "vip"

(* The files of the instance belong together, and to its cluster.          *)
FilesAgree == TypeOK /\ GenerationsAgree /\ CompletedGivesAccess

(* The record of a bootstrap leaves "pending": every wait ends after its   *)
(* number of attempts.                                                     *)
BootstrapEnds ==
    \A r \in Requests : record[r] = "pending" ~> (record[r] # "pending" \/ crashes > 0)
=============================================================================
