----------------------------- MODULE ConfigStore -----------------------------
(***************************************************************************)
(* The config.yaml of one instance and everyone who writes it.  The file   *)
(* has a lock file beside it, but each kind of writer uses it differently: *)
(*                                                                         *)
(*   "batch"    ConfigUpdateBatch, SetConfigValue: one locked yq -i a key  *)
(*   "put"      PUT of the file, updateYAMLFile: reads and merges first,   *)
(*              and locks only the write                                   *)
(*   "service"  services.UpdateConfig: reads, changes, writes, no lock     *)
(*   "node"     node.Manager: one yq -i a key, no lock                     *)
(*                                                                         *)
(* A top-level key holds the name of the writer that set it last.          *)
(***************************************************************************)
EXTENDS Naturals, Sequences, FiniteSets, SequencesExt

CONSTANTS
    Keys,        \* top-level keys of the file
    Writers,     \* requests that write the file
    KeysOf,      \* KeysOf[w]: the keys the request sets, in order
    MaxCrashes,  \* bound: deaths of the daemon
    Initial,     \* the value of a key before any request
    Missing,     \* a key that is not in the file
    Empty,       \* content: truncated, not filled yet
    Garbage,     \* content: two fills over each other
    Nobody       \* the lock is free

Kinds == {"batch", "put", "service", "node"}
Value == Writers \cup {Initial, Missing}
Config == [Keys -> Value]
Blank == [k \in Keys |-> Missing]

ASSUME ConfigAssumption ==
    /\ KeysOf \in [Writers -> Seq(Keys) \ {<<>>}]
    /\ MaxCrashes \in Nat
    /\ Initial \notin Writers /\ Missing \notin Writers /\ Initial # Missing
    /\ Empty \notin Config /\ Garbage \notin Config /\ Empty # Garbage
    /\ Nobody \notin Writers

VARIABLES
    kind,     \* kind[w]: which of the four; it never changes
    renames,  \* yq -i renames its result into place, or copies it over the
              \* file (temporary files on another file system); never changes
    file,     \* the content of config.yaml
    lock,     \* who holds config.yaml.lock
    pc,       \* pc[w]: where the request stands
    next,     \* next[w]: index of the key a "batch" or "node" request is at
    buf,      \* buf[w]: the content the request is about to write
    orphan,   \* requests filling a file that was renamed away under them
    crashes   \* deaths of the daemon

fixed == <<kind, renames>>
vars == <<fixed, file, lock, pc, next, buf, orphan, crashes>>

UsesYq(w) == kind[w] \in {"batch", "node"}
UsesLock(w) == kind[w] \in {"batch", "put"}
KeySet(w) == ToSet(KeysOf[w])

(* What a request writes, given what it read.                              *)
MergedWithNothing(w, content) ==  \* mutant: replaces instead of merging
    LET ks == IF UsesYq(w) THEN {KeysOf[w][next[w]]} ELSE KeySet(w)
    IN [k \in Keys |-> IF k \in ks THEN w ELSE Missing]
Merged(w, content) ==
    LET ks == IF UsesYq(w) THEN {KeysOf[w][next[w]]} ELSE KeySet(w)
    IN [k \in Keys |-> IF k \in ks THEN w ELSE content[k]]

-----------------------------------------------------------------------------
(* Mutant: the lock is not exclusive.                                      *)
LockShared(w) ==
    /\ \/ kind[w] = "batch" /\ pc[w] = "idle" /\ pc' = [pc EXCEPT ![w] = "read"]
       \/ kind[w] = "put" /\ pc[w] = "merged" /\ pc' = [pc EXCEPT ![w] = "write"]
    /\ lock' = w
    /\ UNCHANGED <<fixed, file, next, buf, orphan, crashes>>

Lock(w) ==
    /\ \/ kind[w] = "batch" /\ pc[w] = "idle" /\ pc' = [pc EXCEPT ![w] = "read"]
       \/ kind[w] = "put" /\ pc[w] = "merged" /\ pc' = [pc EXCEPT ![w] = "write"]
    /\ lock = Nobody
    /\ lock' = w
    /\ UNCHANGED <<fixed, file, next, buf, orphan, crashes>>

Begin(w) ==
    /\ kind[w] # "batch"
    /\ pc[w] = "idle"
    /\ pc' = [pc EXCEPT ![w] = "read"]
    /\ UNCHANGED <<fixed, file, lock, next, buf, orphan, crashes>>

(* Reading and changing.  An empty file is an empty mapping to yq and to   *)
(* updateYAMLFile; services.UpdateConfig panics on it (a nil map).  What   *)
(* does not parse, or yq refuses, ends the request; nothing is undone.     *)
Refused(w) ==
    file = Garbage \/ UsesYq(w) \/ (file = Empty /\ kind[w] = "service")

Read(w) ==
    /\ pc[w] = "read"
    /\ file # Garbage
    /\ ~(file = Empty /\ kind[w] = "service")
    /\ buf' = [buf EXCEPT ![w] = Merged(w, IF file = Empty THEN Blank ELSE file)]
    /\ pc' = [pc EXCEPT ![w] = IF kind[w] = "put" THEN "merged" ELSE "write"]
    /\ UNCHANGED <<fixed, file, lock, next, orphan, crashes>>

FailAndKeepLock(w) ==  \* mutant: no deferred Release
    /\ pc[w] = "read"
    /\ Refused(w)
    /\ pc' = [pc EXCEPT ![w] = "failed"]
    /\ UNCHANGED <<fixed, file, lock, next, buf, orphan, crashes>>

Fail(w) ==
    /\ pc[w] = "read"
    /\ Refused(w)
    /\ pc' = [pc EXCEPT ![w] = "failed"]
    /\ lock' = IF lock = w THEN Nobody ELSE lock
    /\ UNCHANGED <<fixed, file, next, buf, orphan, crashes>>

(* After the write of a key: the next key, or the answer.                  *)
Written(w) ==
    LET more == UsesYq(w) /\ next[w] < Len(KeysOf[w])
    IN /\ pc' = [pc EXCEPT ![w] = IF more THEN "idle" ELSE "done"]
       /\ next' = IF more THEN [next EXCEPT ![w] = @ + 1] ELSE next
       /\ lock' = IF lock = w THEN Nobody ELSE lock
       /\ buf' = [buf EXCEPT ![w] = Blank]

(* yq -i puts a new file in place of the old one: whoever had opened the   *)
(* old one writes into a file that is gone.                                *)
Rename(w) ==
    /\ pc[w] = "write"
    /\ UsesYq(w) /\ renames
    /\ file' = buf[w]
    /\ orphan' = {v \in Writers : pc[v] = "fill"}
    /\ Written(w)
    /\ UNCHANGED <<fixed, crashes>>

(* os.WriteFile, and yq -i across file systems.                            *)
Truncate(w) ==
    /\ pc[w] = "write"
    /\ ~(UsesYq(w) /\ renames)
    /\ pc' = [pc EXCEPT ![w] = "fill"]
    /\ file' = Empty
    /\ UNCHANGED <<fixed, lock, next, buf, orphan, crashes>>

Fill(w) ==
    /\ pc[w] = "fill"
    /\ IF w \in orphan THEN file' = file
       ELSE IF file = Empty THEN file' = buf[w]
       ELSE file' \in {buf[w], Garbage}
    /\ orphan' = orphan \ {w}
    /\ Written(w)
    /\ UNCHANGED <<fixed, crashes>>

(* The daemon dies; its locks go with it.                                  *)
Crash ==
    /\ crashes < MaxCrashes
    /\ crashes' = crashes + 1
    /\ pc' = [w \in Writers |->
                IF pc[w] = "done" THEN "done"
                ELSE IF pc[w] = "idle" /\ next[w] = 1 THEN "idle" ELSE "failed"]
    /\ lock' = Nobody
    /\ buf' = [w \in Writers |-> Blank]
    /\ orphan' = {}
    /\ UNCHANGED <<fixed, file, next>>

-----------------------------------------------------------------------------
Init ==
    /\ kind \in [Writers -> Kinds]
    /\ renames \in BOOLEAN
    /\ file = [k \in Keys |-> Initial]
    /\ lock = Nobody
    /\ pc = [w \in Writers |-> "idle"]
    /\ next = [w \in Writers |-> 1]
    /\ buf = [w \in Writers |-> Blank]
    /\ orphan = {}
    /\ crashes = 0

Write(w) ==
    Lock(w) \/ Begin(w) \/ Read(w) \/ Fail(w) \/ Rename(w) \/ Truncate(w) \/ Fill(w)

Next == (\E w \in Writers : Write(w)) \/ Crash

Spec == Init /\ [][Next]_vars

(* A request that can proceed does; flock is granted to whoever waits.     *)
FairSpec ==
    /\ Spec
    /\ \A w \in Writers : SF_vars(Lock(w)) /\ WF_vars(Write(w))

-----------------------------------------------------------------------------
TypeOK ==
    /\ kind \in [Writers -> Kinds]
    /\ renames \in BOOLEAN
    /\ file \in Config \cup {Empty, Garbage}
    /\ lock \in Writers \cup {Nobody}
    /\ pc \in [Writers ->
                 {"idle", "read", "merged", "write", "fill", "done", "failed"}]
    /\ next \in [Writers -> Nat \ {0}]
    /\ \A w \in Writers : next[w] <= Len(KeysOf[w])
    /\ buf \in [Writers -> Config]
    /\ orphan \subseteq Writers
    /\ crashes \in 0..MaxCrashes

(* The keys a request has set: all when it was answered, the first ones    *)
(* while a batch is on its way or after it failed.                         *)
SetBy(w) ==
    IF pc[w] = "done" THEN KeySet(w)
    ELSE IF UsesYq(w) THEN {KeysOf[w][i] : i \in 1..next[w] - 1}
    ELSE {}

(* Whether every request takes the lock around its whole read-modify-write *)
(* as SetConfigValue does.                                                 *)
AllLocked == \A w \in Writers : kind[w] = "batch"

(* No request's change is lost: a key it has set has its value, or that of *)
(* another request that sets the key too.  It takes the lock, and no crash *)
(* while yq copies its result over the file.                               *)
NoLostUpdate ==
    (AllLocked /\ (renames \/ crashes = 0) /\ file \in Config) =>
        \A w \in Writers : \A k \in SetBy(w) :
            \E v \in Writers : k \in KeySet(v) /\ file[k] = v

(* Under the lock, and if yq renames, a reader who takes no lock always    *)
(* finds a whole file: one that parses and lacks no key.                   *)
Whole(content) == content \in Config /\ \A k \in Keys : content[k] # Missing
AlwaysWhole == (AllLocked /\ renames) => Whole(file)

(* While the daemon lives, a half-written file has a writer that is going  *)
(* to fill it; two fills over each other need a writer that ignores the    *)
(* lock.                                                                   *)
TornHasWriter ==
    crashes = 0 =>
      /\ file = Empty => \E w \in Writers : pc[w] = "fill" /\ w \notin orphan
      /\ file = Garbage =>
           \E w \in Writers : ~UsesLock(w) /\ (pc[w] # "idle" \/ next[w] > 1)

(* What a reader without a lock finds is whole, or has a writer to blame.  *)
FileIsSound == TypeOK /\ AlwaysWhole /\ TornHasWriter

(* Every request is answered or dies with the daemon: nobody waits for the *)
(* lock for ever.                                                          *)
Answered == \A w \in Writers : <>(pc[w] \in {"done", "failed"})

(* updateYAMLFile: "shallow merge at the top level, preserving unmodified  *)
(* keys".  Whatever PUT requests run, a key that none of them sets keeps   *)
(* its value.                                                              *)
UnmodifiedKeysKept ==
    ((\A w \in Writers : kind[w] = "put") /\ file \in Config) =>
        \A k \in Keys \ UNION {KeySet(w) : w \in Writers} : file[k] = Initial
=============================================================================
