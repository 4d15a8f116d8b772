-------------------------- MODULE ConfigStoreProofs --------------------------
(***************************************************************************)
(* Proofs about ConfigStore: types and half-written files in general, and  *)
(* what the lock gives when every writer takes it around its whole         *)
(* read-modify-write.  For any keys, requests and crashes.                 *)
(***************************************************************************)
EXTENDS ConfigStore, TLAPS

-----------------------------------------------------------------------------
(* The keys of a request are keys.                                         *)
LEMMA KeySetType ==
    ASSUME NEW w \in Writers
    PROVE  /\ KeysOf[w] \in Seq(Keys) /\ Len(KeysOf[w]) \in Nat \ {0}
           /\ \A i \in 1..Len(KeysOf[w]) : KeysOf[w][i] \in KeySet(w)
           /\ KeySet(w) = {KeysOf[w][i] : i \in 1..Len(KeysOf[w])}
           /\ KeySet(w) \subseteq Keys
<1>1. KeysOf[w] \in Seq(Keys) /\ KeysOf[w] # <<>>
  BY ConfigAssumption
<1>2. Len(KeysOf[w]) \in Nat \ {0}
  BY <1>1
<1>3. DOMAIN KeysOf[w] = 1..Len(KeysOf[w])
  BY <1>1
<1>4. KeySet(w) = {KeysOf[w][i] : i \in 1..Len(KeysOf[w])}
  BY <1>3 DEF KeySet, ToSet
<1>5. \A i \in 1..Len(KeysOf[w]) : KeysOf[w][i] \in Keys
  BY <1>1
<1>6. QED
  BY <1>1, <1>2, <1>4, <1>5

(* Merging a request into a configuration yields one; keys the request     *)
(* does not set at this step stay, the others are the request's.           *)
LEMMA MergedConfig ==
    ASSUME NEW w \in Writers, NEW content \in Config
    PROVE  /\ Merged(w, content) \in Config
           /\ \A k \in Keys : Merged(w, content)[k] \in {w, content[k]}
BY DEF Merged, Config, Value

LEMMA BlankConfig == Blank \in Config
BY DEF Blank, Config, Value

-----------------------------------------------------------------------------
(* Type correctness, for writers of every kind.                            *)

PcType == [Writers -> {"idle", "read", "merged", "write", "fill", "done", "failed"}]

NextInRange ==
    /\ next \in [Writers -> Nat \ {0}]
    /\ \A w \in Writers : next[w] <= Len(KeysOf[w])

LEMMA WrittenType ==
    ASSUME TypeOK, NEW w \in Writers, Written(w)
    PROVE  /\ pc' \in PcType
           /\ NextInRange'
           /\ lock' \in Writers \cup {Nobody}
           /\ buf' \in [Writers -> Config]
<1> DEFINE more == UsesYq(w) /\ next[w] < Len(KeysOf[w])
<1>1. pc' \in PcType
  BY DEF Written, TypeOK, PcType
<1>2. lock' \in Writers \cup {Nobody}
  BY DEF Written, TypeOK
<1>3. NextInRange'
  <2>1. CASE more
    <3>1. next' = [next EXCEPT ![w] = @ + 1]
      BY <2>1 DEF Written
    <3>2. next[w] \in Nat \ {0} /\ next[w] + 1 <= Len(KeysOf[w])
      BY <2>1, KeySetType DEF TypeOK
    <3>3. QED
      BY <3>1, <3>2 DEF TypeOK, NextInRange
  <2>2. CASE ~more
    BY <2>2 DEF Written, TypeOK, NextInRange
  <2>3. QED
    BY <2>1, <2>2
<1>4. buf' \in [Writers -> Config]
  BY BlankConfig DEF Written, TypeOK
<1>5. QED
  BY <1>1, <1>2, <1>3, <1>4

LEMMA InitTypeOK == Init => TypeOK
<1> SUFFICES ASSUME Init PROVE TypeOK
  OBVIOUS
<1>1. file \in Config
  BY DEF Init, Config, Value
<1>2. \A w \in Writers : next[w] <= Len(KeysOf[w])
  BY KeySetType DEF Init
<1>3. QED
  BY <1>1, <1>2, BlankConfig, ConfigAssumption DEF Init, TypeOK

LEMMA NextTypeOK == TypeOK /\ [Next]_vars => TypeOK'
<1> SUFFICES ASSUME TypeOK, [Next]_vars PROVE TypeOK'
  OBVIOUS
<1>1. ASSUME NEW w \in Writers, Lock(w) PROVE TypeOK'
  BY <1>1 DEF Lock, TypeOK, fixed
<1>2. ASSUME NEW w \in Writers, Begin(w) PROVE TypeOK'
  BY <1>2 DEF Begin, TypeOK, fixed
<1>3. ASSUME NEW w \in Writers, Read(w) PROVE TypeOK'
  <2> DEFINE content == IF file = Empty THEN Blank ELSE file
  <2>1. content \in Config
    BY <1>3, BlankConfig DEF Read, TypeOK, fixed
  <2>2. Merged(w, content) \in Config
    BY <2>1, MergedConfig
  <2>3. buf' \in [Writers -> Config]
    BY <1>3, <2>2 DEF Read, TypeOK, fixed
  <2>4. QED
    BY <1>3, <2>3 DEF Read, TypeOK, fixed
<1>4. ASSUME NEW w \in Writers, Fail(w) PROVE TypeOK'
  BY <1>4 DEF Fail, TypeOK, fixed
<1>5. ASSUME NEW w \in Writers, Rename(w) PROVE TypeOK'
  BY <1>5, WrittenType DEF Rename, TypeOK, fixed, PcType, NextInRange
<1>6. ASSUME NEW w \in Writers, Truncate(w) PROVE TypeOK'
  BY <1>6 DEF Truncate, TypeOK, fixed
<1>7. ASSUME NEW w \in Writers, Fill(w) PROVE TypeOK'
  <2>1. file' \in Config \cup {Empty, Garbage}
    BY <1>7 DEF Fill, TypeOK, fixed
  <2>2. QED
    BY <1>7, <2>1, WrittenType DEF Fill, TypeOK, fixed, PcType, NextInRange
<1>8. CASE Crash
  <2>1. crashes' \in 0..MaxCrashes
    BY <1>8, ConfigAssumption DEF Crash, TypeOK, fixed
  <2>2. pc' \in PcType
    BY <1>8 DEF Crash, PcType
  <2>3. buf' \in [Writers -> Config]
    BY <1>8, BlankConfig DEF Crash
  <2>4. QED
    BY <1>8, <2>1, <2>2, <2>3 DEF Crash, TypeOK, fixed, PcType
<1>9. CASE UNCHANGED vars
  BY <1>9 DEF vars, fixed, TypeOK
<1>10. QED
  BY <1>1, <1>2, <1>3, <1>4, <1>5, <1>6, <1>7, <1>8, <1>9 DEF Next, Write

(* What the file, the memory of requests and the lock hold is well formed. *)
THEOREM ConfigTypeCorrect == Spec => []TypeOK
BY InitTypeOK, NextTypeOK, PTL DEF Spec

-----------------------------------------------------------------------------
(* The discipline of SetConfigValue and ConfigUpdateBatch.                 *)

(* No crash has come while a copy over the file could be under way.        *)
Safe == renames \/ crashes = 0

(* The content of the file, the write under way counted as done.           *)
Latest == IF file = Empty THEN buf[lock] ELSE file

KeyOf(w) == KeysOf[w][next[w]]

(* Only the holder of the lock reads and writes, and what it is about to   *)
(* write is the file as it still is, with its own change.                  *)
LockHeld ==
    /\ \A w \in Writers :
         /\ pc[w] # "merged"
         /\ pc[w] \in {"read", "write", "fill"} => lock = w
         /\ pc[w] = "write" => buf[w] = Merged(w, file)
         /\ pc[w] = "fill" => ~renames /\ file = Empty /\ buf[w][KeyOf(w)] = w
    /\ file = Empty => lock \in Writers /\ pc[lock] = "fill"
    /\ orphan = {}

Kept(w) == \A k \in SetBy(w) : \E v \in Writers : k \in KeySet(v) /\ Latest[k] = v

Strong ==
    /\ LockHeld
    /\ Whole(Latest)
    /\ \A w \in Writers : Kept(w)

LockedInv == TypeOK /\ (AllLocked /\ Safe => Strong)

(* The initial state.                                                      *)
LEMMA LockedInit == Init => LockedInv
<1> SUFFICES ASSUME Init, AllLocked PROVE TypeOK /\ Strong
  BY InitTypeOK DEF LockedInv
<1>1. TypeOK
  BY InitTypeOK
<1>2. file \in Config /\ file # Empty /\ Whole(file)
  BY ConfigAssumption DEF Init, Whole, Config, Value
<1>3. LockHeld
  BY <1>2 DEF Init, LockHeld
<1>4. \A w \in Writers : SetBy(w) = {}
  BY DEF AllLocked, Init, SetBy, UsesYq
<1>5. QED
  BY <1>1, <1>2, <1>3, <1>4 DEF Strong, Kept, Latest

(* Steps that do not change what the file holds or is about to hold, and   *)
(* let nobody set a key.                                                   *)
LEMMA QuietStep ==
    ASSUME Strong, LockHeld', Latest' = Latest,
           \A w \in Writers : SetBy(w)' \subseteq SetBy(w)
    PROVE  Strong'
<1>1. Whole(Latest)'
  BY DEF Strong, Whole
<1>2. \A w \in Writers : Kept(w)'
  BY DEF Strong, Kept
<1>3. QED
  BY <1>1, <1>2 DEF Strong

(* The end of a write adds the key that was written to the keys set.       *)
LEMMA WrittenSets ==
    ASSUME AllLocked, TypeOK, NEW w \in Writers, Written(w), UNCHANGED fixed,
           pc[w] \in {"write", "fill"}
    PROVE  /\ \A u \in Writers : SetBy(u)' \subseteq SetBy(u) \cup {KeyOf(w)}
           /\ \A u \in Writers \ {w} : pc'[u] = pc[u] /\ buf'[u] = buf[u]
                                       /\ next'[u] = next[u]
           /\ pc'[w] \in {"idle", "done"}
<1>0. /\ \A u \in Writers : UsesYq(u) /\ UsesYq(u)'
      /\ next[w] \in 1..Len(KeysOf[w]) /\ next[w] \in Nat
  BY KeySetType DEF AllLocked, UsesYq, TypeOK, fixed
<1>1. \A u \in Writers \ {w} : pc'[u] = pc[u] /\ buf'[u] = buf[u] /\ next'[u] = next[u]
  BY <1>0 DEF Written, TypeOK
<1>2. pc'[w] \in {"idle", "done"}
  BY DEF Written, TypeOK
<1>3. \A u \in Writers : SetBy(u)' \subseteq SetBy(u) \cup {KeyOf(w)}
  <2> TAKE u \in Writers
  <2>1. CASE u # w
    BY <1>0, <1>1, <2>1 DEF SetBy
  <2>2. CASE u = w /\ next[w] < Len(KeysOf[w])
    <3>1. pc'[w] = "idle" /\ next'[w] = next[w] + 1
      BY <1>0, <2>2 DEF Written, TypeOK
    <3>2. SetBy(w) = {KeysOf[w][i] : i \in 1..next[w] - 1}
      BY <1>0 DEF SetBy
    <3>3. SetBy(w)' = {KeysOf[w][i] : i \in 1..next[w]}
      BY <1>0, <3>1 DEF SetBy
    <3>4. \A i \in 1..next[w] : i \in 1..next[w] - 1 \/ i = next[w]
      BY <1>0
    <3>5. QED
      BY <2>2, <3>2, <3>3, <3>4 DEF KeyOf
  <2>3. CASE u = w /\ ~(next[w] < Len(KeysOf[w]))
    <3>1. pc'[w] = "done"
      BY <1>0, <2>3 DEF Written, TypeOK
    <3>2. SetBy(w) = {KeysOf[w][i] : i \in 1..next[w] - 1}
      BY <1>0 DEF SetBy
    <3>3. SetBy(w)' = {KeysOf[w][i] : i \in 1..Len(KeysOf[w])}
      BY <1>0, <3>1, KeySetType DEF SetBy, KeySet
    <3>4. \A i \in 1..Len(KeysOf[w]) : i \in 1..next[w] - 1 \/ i = next[w]
      BY <1>0, <2>3, KeySetType
    <3>5. QED
      BY <2>3, <3>2, <3>3, <3>4 DEF KeyOf
  <2>4. QED
    BY <2>1, <2>2, <2>3
<1>4. QED
  BY <1>1, <1>2, <1>3

(* A step after which the content has one key more from its writer.        *)
LEMMA KeptStep ==
    ASSUME AllLocked, TypeOK, Strong, NEW w \in Writers, LockHeld', Whole(Latest)',
           KeyOf(w) \in KeySet(w), Latest'[KeyOf(w)] = w,
           \A k \in Keys \ {KeyOf(w)} : Latest'[k] = Latest[k],
           \A u \in Writers : SetBy(u)' \subseteq SetBy(u) \cup {KeyOf(w)}
    PROVE  Strong'
<1>1. \A u \in Writers : SetBy(u) \subseteq Keys
  BY KeySetType DEF SetBy, TypeOK
<1>2. \A u \in Writers : Kept(u)'
  <2> SUFFICES ASSUME NEW u \in Writers, NEW k \in SetBy(u)'
               PROVE  \E v \in Writers : k \in KeySet(v) /\ Latest'[k] = v
    BY DEF Kept, KeySet
  <2>1. CASE k = KeyOf(w)
    BY <2>1
  <2>2. CASE k # KeyOf(w)
    <3>1. k \in SetBy(u) /\ k \in Keys /\ Latest'[k] = Latest[k]
      BY <1>1, <2>2
    <3>2. QED
      BY <3>1 DEF Strong, Kept
  <2>3. QED
    BY <2>1, <2>2
<1>3. QED
  BY <1>2 DEF Strong

(* What a batch request writes at a step: its key, the rest as it was.     *)
LEMMA BatchMerge ==
    ASSUME AllLocked, TypeOK, NEW w \in Writers, NEW content \in Config
    PROVE  /\ KeyOf(w) \in KeySet(w) /\ KeyOf(w) \in Keys
           /\ Merged(w, content) \in Config
           /\ Merged(w, content)[KeyOf(w)] = w
           /\ \A k \in Keys \ {KeyOf(w)} : Merged(w, content)[k] = content[k]
           /\ Whole(content) => Whole(Merged(w, content))
<1>1. next[w] \in 1..Len(KeysOf[w])
  BY KeySetType DEF TypeOK
<1>2. KeyOf(w) \in KeySet(w) /\ KeyOf(w) \in Keys
  BY <1>1, KeySetType DEF KeyOf
<1>3. Merged(w, content) = [k \in Keys |-> IF k = KeyOf(w) THEN w ELSE content[k]]
  BY DEF Merged, AllLocked, UsesYq, KeyOf
<1>4. Merged(w, content) \in Config
  BY MergedConfig
<1>5. Whole(content) => Whole(Merged(w, content))
  BY <1>3, <1>4, ConfigAssumption DEF Whole
<1>6. QED
  BY <1>2, <1>3, <1>4, <1>5

LEMMA LockStep ==
    ASSUME AllLocked, TypeOK, TypeOK', Strong, NEW w \in Writers, Lock(w)
    PROVE  Strong'
<1>1. file # Empty /\ lock = Nobody /\ pc[w] = "idle" /\ pc'[w] = "read" /\ lock' = w
  BY ConfigAssumption DEF AllLocked, Lock, Strong, LockHeld, TypeOK
<1>2. \A u \in Writers \ {w} :
         pc'[u] = pc[u] /\ pc[u] \notin {"read", "write", "fill"}
  BY <1>1, ConfigAssumption DEF Lock, Strong, LockHeld, TypeOK
<1>3. UNCHANGED <<file, buf, next, orphan, fixed, kind, renames>>
  BY DEF Lock, fixed
<1>4. LockHeld'
  BY <1>1, <1>2, <1>3 DEF Strong, LockHeld
<1>5. Latest' = Latest
  BY <1>1, <1>3 DEF Latest
<1>6. \A u \in Writers : SetBy(u)' \subseteq SetBy(u)
  BY <1>1, <1>2, <1>3 DEF AllLocked, SetBy, UsesYq
<1>7. QED
  BY <1>4, <1>5, <1>6, QuietStep

LEMMA ReadStep ==
    ASSUME AllLocked, TypeOK, TypeOK', Strong, NEW w \in Writers, Read(w)
    PROVE  Strong'
<1>1. pc[w] = "read" /\ lock = w /\ file # Empty /\ pc'[w] = "write"
      /\ buf'[w] = Merged(w, file)
  BY DEF AllLocked, Read, Strong, LockHeld, TypeOK
<1>2. \A u \in Writers \ {w} :
         /\ pc'[u] = pc[u] /\ buf'[u] = buf[u]
         /\ pc[u] \notin {"read", "write", "fill"}
  BY <1>1 DEF Read, Strong, LockHeld, TypeOK
<1>3. UNCHANGED <<file, lock, next, orphan, fixed, kind, renames>>
  BY DEF Read, fixed
<1>4. Merged(w, file)' = Merged(w, file)
  BY <1>3 DEF Merged, UsesYq, KeySet
<1>5. LockHeld'
  BY <1>1, <1>2, <1>3, <1>4 DEF Strong, LockHeld
<1>6. Latest' = Latest
  BY <1>1, <1>3 DEF Latest
<1>7. \A u \in Writers : SetBy(u)' \subseteq SetBy(u)
  BY <1>1, <1>2, <1>3 DEF SetBy, UsesYq
<1>8. QED
  BY <1>5, <1>6, <1>7, QuietStep

LEMMA FailStep ==
    ASSUME AllLocked, TypeOK, TypeOK', Strong, NEW w \in Writers, Fail(w)
    PROVE  Strong'
<1>1. pc[w] = "read" /\ lock = w /\ file # Empty /\ pc'[w] = "failed"
  BY DEF Fail, Strong, LockHeld, TypeOK
<1>2. \A u \in Writers \ {w} :
         pc'[u] = pc[u] /\ pc[u] \notin {"read", "write", "fill"}
  BY <1>1 DEF Fail, Strong, LockHeld, TypeOK
<1>3. UNCHANGED <<file, buf, next, orphan, fixed, kind, renames>>
  BY DEF Fail, fixed
<1>4. LockHeld'
  BY <1>1, <1>2, <1>3 DEF Strong, LockHeld
<1>5. Latest' = Latest
  BY <1>1, <1>3 DEF Latest
<1>6. \A u \in Writers : SetBy(u)' \subseteq SetBy(u)
  BY <1>1, <1>2, <1>3 DEF AllLocked, SetBy, UsesYq
<1>7. QED
  BY <1>4, <1>5, <1>6, QuietStep

(* yq puts the new content in place at once.                               *)
LEMMA RenameStep ==
    ASSUME AllLocked, TypeOK, TypeOK', Strong, NEW w \in Writers, Rename(w)
    PROVE  Strong'
<1>1. pc[w] = "write" /\ lock = w /\ file # Empty /\ file' = buf[w]
      /\ buf[w] = Merged(w, file)
  BY DEF Rename, Strong, LockHeld, TypeOK
<1>2. Latest = file /\ file \in Config /\ Whole(file)
  BY <1>1 DEF Latest, Strong, Whole
<1>3. /\ KeyOf(w) \in KeySet(w)
      /\ file' \in Config /\ file'[KeyOf(w)] = w /\ Whole(file')
      /\ \A k \in Keys \ {KeyOf(w)} : file'[k] = file[k]
  BY <1>1, <1>2, BatchMerge
<1>4. file' # Empty /\ Latest' = file'
  BY <1>3, ConfigAssumption DEF Latest
<1>5. Written(w) /\ UNCHANGED fixed
  BY DEF Rename
<1>6. /\ \A u \in Writers : SetBy(u)' \subseteq SetBy(u) \cup {KeyOf(w)}
      /\ \A u \in Writers \ {w} : pc'[u] = pc[u]
      /\ pc'[w] \in {"idle", "done"}
  BY <1>1, <1>5, WrittenSets
<1>7. \A u \in Writers \ {w} : pc[u] \notin {"read", "write", "fill", "merged"}
  BY <1>1 DEF Strong, LockHeld
<1>8. orphan' = {}
  BY <1>1, <1>7 DEF Rename
<1>9. LockHeld'
  BY <1>4, <1>6, <1>7, <1>8 DEF LockHeld
<1>10. Whole(Latest)'
  BY <1>3, <1>4 DEF Whole
<1>11. QED
  BY <1>2, <1>3, <1>4, <1>6, <1>9, <1>10, KeptStep DEF Latest

(* yq starts to copy: what counts is now what it is about to fill in.      *)
LEMMA TruncateStep ==
    ASSUME AllLocked, TypeOK, TypeOK', Strong, NEW w \in Writers, Truncate(w)
    PROVE  Strong'
<1>1. pc[w] = "write" /\ lock = w /\ file # Empty /\ file' = Empty
      /\ buf[w] = Merged(w, file) /\ pc'[w] = "fill" /\ ~renames
  BY DEF AllLocked, UsesYq, Truncate, Strong, LockHeld, TypeOK
<1>2. Latest = file /\ file \in Config /\ Whole(file)
  BY <1>1 DEF Latest, Strong, Whole
<1>3. UNCHANGED <<lock, next, buf, orphan, fixed, kind, renames>>
  BY DEF Truncate, fixed
<1>4. Latest' = buf[w]
  BY <1>1, <1>3 DEF Latest
<1>5. /\ KeyOf(w) \in KeySet(w) /\ buf[w][KeyOf(w)] = w /\ Whole(buf[w])
      /\ \A k \in Keys \ {KeyOf(w)} : buf[w][k] = file[k]
  BY <1>1, <1>2, BatchMerge
<1>6. \A u \in Writers \ {w} :
         pc'[u] = pc[u] /\ pc[u] \notin {"read", "write", "fill", "merged"}
  BY <1>1 DEF Truncate, Strong, LockHeld, TypeOK
<1>7. KeyOf(w)' = KeyOf(w)
  BY <1>3 DEF KeyOf
<1>8. LockHeld'
  BY <1>1, <1>3, <1>5, <1>6, <1>7 DEF Strong, LockHeld
<1>9. Whole(Latest)'
  BY <1>4, <1>5 DEF Whole
<1>10. \A u \in Writers : SetBy(u)' \subseteq SetBy(u)
  BY <1>1, <1>3, <1>6 DEF SetBy, UsesYq
<1>11. QED
  BY <1>2, <1>4, <1>5, <1>8, <1>9, <1>10, KeptStep

(* The copy ends: the file holds what counted before.                      *)
LEMMA FillStep ==
    ASSUME AllLocked, TypeOK, TypeOK', Strong, NEW w \in Writers, Fill(w)
    PROVE  Strong'
<1>1. pc[w] = "fill" /\ lock = w /\ file = Empty /\ file' = buf[w]
      /\ buf[w][KeyOf(w)] = w /\ orphan' = {}
  BY DEF Fill, Strong, LockHeld, TypeOK
<1>2. Latest = buf[w] /\ Whole(buf[w]) /\ buf[w] \in Config
  BY <1>1 DEF Latest, Strong, Whole
<1>3. file' # Empty /\ Latest' = buf[w]
  BY <1>1, <1>2, ConfigAssumption DEF Latest
<1>4. KeyOf(w) \in KeySet(w)
  BY <1>2, BatchMerge
<1>5. Written(w) /\ UNCHANGED fixed
  BY DEF Fill
<1>6. /\ \A u \in Writers : SetBy(u)' \subseteq SetBy(u) \cup {KeyOf(w)}
      /\ \A u \in Writers \ {w} : pc'[u] = pc[u]
      /\ pc'[w] \in {"idle", "done"}
  BY <1>1, <1>5, WrittenSets
<1>7. \A u \in Writers \ {w} : pc[u] \notin {"read", "write", "fill", "merged"}
  BY <1>1 DEF Strong, LockHeld
<1>8. LockHeld'
  BY <1>1, <1>3, <1>6, <1>7 DEF LockHeld
<1>9. Whole(Latest)'
  BY <1>2, <1>3 DEF Whole
<1>10. QED
  BY <1>1, <1>2, <1>3, <1>4, <1>6, <1>8, <1>9, KeptStep

(* A crash where nothing is half-written.                                  *)
LEMMA CrashStep ==
    ASSUME AllLocked, TypeOK, TypeOK', Strong, Crash, Safe'
    PROVE  Strong'
<1>1. renames
  BY ConfigAssumption DEF Crash, Safe, fixed, TypeOK
<1>2. file # Empty /\ file' = file
  BY <1>1 DEF Strong, LockHeld, Crash
<1>3. \A u \in Writers : /\ pc'[u] \in {"done", "idle", "failed"}
                         /\ pc'[u] = "done" <=> pc[u] = "done"
  BY DEF Crash
<1>4. LockHeld'
  BY <1>2, <1>3 DEF Crash, LockHeld
<1>5. Latest' = Latest
  BY <1>2 DEF Latest
<1>6. \A u \in Writers : SetBy(u)' \subseteq SetBy(u)
  BY <1>3 DEF Crash, fixed, SetBy, UsesYq
<1>7. QED
  BY <1>4, <1>5, <1>6, QuietStep

LEMMA LockedNext == LockedInv /\ [Next]_vars => LockedInv'
<1> SUFFICES ASSUME LockedInv, [Next]_vars, AllLocked', Safe' PROVE Strong'
  BY NextTypeOK DEF LockedInv
<1>0. TypeOK /\ TypeOK'
  BY NextTypeOK DEF LockedInv
<1>1. UNCHANGED <<kind, renames>> /\ crashes <= crashes'
  BY <1>0 DEF Next, vars, fixed, Write, Lock, Begin, Read, Fail, Rename, Truncate,
     Fill, Crash, TypeOK
<1>2. AllLocked /\ Safe
  BY <1>0, <1>1 DEF AllLocked, Safe, TypeOK
<1>3. Strong
  BY <1>2 DEF LockedInv
<1>4. ASSUME NEW w \in Writers, Begin(w) PROVE FALSE
  BY <1>2, <1>4 DEF AllLocked, Begin
<1>5. CASE UNCHANGED vars
  <2>1. LockHeld' /\ Latest' = Latest
    BY <1>3, <1>5 DEF vars, fixed, Strong, LockHeld, Latest, Merged, UsesYq, KeySet, KeyOf
  <2>2. \A u \in Writers : SetBy(u)' \subseteq SetBy(u)
    BY <1>5 DEF vars, fixed, SetBy, UsesYq
  <2>3. QED
    BY <1>3, <2>1, <2>2, QuietStep
<1>6. QED
  BY <1>0, <1>2, <1>3, <1>4, <1>5, LockStep, ReadStep, FailStep, RenameStep,
     TruncateStep, FillStep, CrashStep DEF Next, Write

(* When every writer holds the lock around its whole read-modify-write, no *)
(* change is ever lost, unless a crash interrupts a copy over the file;    *)
(* and if yq renames, a reader without the lock always finds a whole file, *)
(* crashes included.                                                       *)
THEOREM LockingPreventsRaces == Spec => [](NoLostUpdate /\ AlwaysWhole)
<1>1. LockedInv => NoLostUpdate
  <2> SUFFICES ASSUME LockedInv, AllLocked, Safe, file \in Config
               PROVE  \A w \in Writers : \A k \in SetBy(w) :
                        \E v \in Writers : k \in KeySet(v) /\ file[k] = v
    BY DEF NoLostUpdate, Safe
  <2>1. Latest = file
    BY ConfigAssumption DEF Latest
  <2>2. QED
    BY <2>1 DEF LockedInv, Strong, Kept
<1>2. LockedInv => AlwaysWhole
  <2> SUFFICES ASSUME LockedInv, AllLocked, renames PROVE Whole(file)
    BY DEF AlwaysWhole
  <2>1. Strong
    BY DEF LockedInv, Safe
  <2>2. Latest = file
    BY <2>1 DEF Strong, LockHeld, Latest
  <2>3. QED
    BY <2>1, <2>2 DEF Strong
<1>3. QED
  BY <1>1, <1>2, LockedInit, LockedNext, PTL DEF Spec
-----------------------------------------------------------------------------
(* Half-written files, for writers of every kind, as long as the daemon    *)
(* lives.  A request that uses the lock holds it while it writes, so of    *)
(* two requests that fill the file at once one ignores the lock.           *)

Holders ==
    \A w \in Writers :
        UsesLock(w) /\ (pc[w] \in {"write", "fill"} \/ (kind[w] = "batch" /\ pc[w] = "read"))
            => lock = w

OrphansFill == \A w \in orphan : pc[w] = "fill"

Blame == \E w \in Writers : ~UsesLock(w) /\ (pc[w] # "idle" \/ next[w] > 1)

EmptyHasFiller == file = Empty => \E w \in Writers : pc[w] = "fill" /\ w \notin orphan

OverwriteHasBlame ==
    /\ file = Garbage => Blame
    /\ \A w \in Writers : pc[w] = "fill" /\ w \notin orphan /\ file # Empty => Blame

Attended == Holders /\ OrphansFill /\ EmptyHasFiller /\ OverwriteHasBlame

TornInv == TypeOK /\ (crashes = 0 => Attended)

(* What the end of a write does to the request: it has begun for good, is  *)
(* past its fill, and gives the lock back.                                 *)
LEMMA WrittenEnds ==
    ASSUME TypeOK, NEW w \in Writers, Written(w), UNCHANGED fixed
    PROVE  /\ \A u \in Writers \ {w} : pc'[u] = pc[u] /\ next'[u] = next[u]
           /\ pc'[w] \in {"idle", "done"}
           /\ pc'[w] # "idle" \/ next'[w] > 1
           /\ next'[w] >= next[w]
           /\ lock = w => lock' = Nobody
           /\ lock # w => lock' = lock
<1>1. next[w] \in Nat \ {0}
  BY DEF TypeOK
<1>2. CASE UsesYq(w) /\ next[w] < Len(KeysOf[w])
  BY <1>1, <1>2 DEF Written, TypeOK
<1>3. CASE ~(UsesYq(w) /\ next[w] < Len(KeysOf[w]))
  BY <1>1, <1>3 DEF Written, TypeOK
<1>4. QED
  BY <1>2, <1>3

(* Who has begun stays so: blame is not lost.                              *)
LEMMA BlameStays ==
    ASSUME TypeOK, Blame, UNCHANGED kind,
           \A u \in Writers : pc[u] # "idle" \/ next[u] > 1
                                => pc'[u] # "idle" \/ next'[u] > 1
    PROVE  Blame'
BY DEF Blame, UsesLock

(* The steps that leave the file alone and start no write.                 *)
LEMMA AttendedAside ==
    ASSUME TypeOK, Attended, NEW w \in Writers,
           UNCHANGED <<fixed, file, next, orphan>>,
           \A u \in Writers \ {w} : pc'[u] = pc[u],
           pc[w] \in {"idle", "read", "merged"},
           pc'[w] \notin {"idle", "fill"},
           \A u \in Writers \ {w} : lock = u => lock' = u,
           UsesLock(w) /\ (pc'[w] = "write" \/ (kind[w] = "batch" /\ pc'[w] = "read"))
               => lock' = w
    PROVE  Attended'
<1>1. UNCHANGED <<kind, renames>>
  BY DEF fixed
<1>2. Holders'
  BY <1>1 DEF Attended, Holders, UsesLock
<1>3. OrphansFill' /\ EmptyHasFiller'
  BY DEF Attended, OrphansFill, EmptyHasFiller, TypeOK
<1>4. Blame => Blame'
  BY <1>1, BlameStays
<1>5. OverwriteHasBlame'
  BY <1>4 DEF Attended, OverwriteHasBlame
<1>6. QED
  BY <1>2, <1>3, <1>5 DEF Attended

LEMMA RenameAttended ==
    ASSUME TypeOK, Attended, NEW w \in Writers, Rename(w) PROVE Attended'
<1>1. pc[w] = "write" /\ UNCHANGED fixed /\ UNCHANGED <<kind, renames>> /\ Written(w)
  BY DEF Rename, fixed
<1>2. /\ \A u \in Writers \ {w} : pc'[u] = pc[u] /\ next'[u] = next[u]
      /\ pc'[w] \in {"idle", "done"}
      /\ lock = w => lock' = Nobody
      /\ lock # w => lock' = lock
  BY <1>1, WrittenEnds
<1>3. file' \in Config /\ file' # Empty /\ file' # Garbage
  BY ConfigAssumption DEF Rename, TypeOK
<1>4. orphan' = {v \in Writers : pc[v] = "fill"}
  BY DEF Rename
<1>5. Holders'
  BY <1>1, <1>2, ConfigAssumption DEF Attended, Holders, UsesLock
<1>6. OrphansFill' /\ EmptyHasFiller' /\ OverwriteHasBlame'
  BY <1>1, <1>2, <1>3, <1>4 DEF OrphansFill, EmptyHasFiller, OverwriteHasBlame
<1>7. QED
  BY <1>5, <1>6 DEF Attended

LEMMA TruncateAttended ==
    ASSUME TypeOK, Attended, NEW w \in Writers, Truncate(w) PROVE Attended'
<1>1. /\ pc[w] = "write" /\ pc'[w] = "fill" /\ file' = Empty
      /\ \A u \in Writers \ {w} : pc'[u] = pc[u]
      /\ UNCHANGED <<kind, renames, lock, next, orphan>>
  BY DEF Truncate, TypeOK, fixed
<1>2. w \notin orphan
  BY <1>1 DEF Attended, OrphansFill
<1>3. Holders'
  BY <1>1 DEF Attended, Holders, UsesLock
<1>4. OrphansFill' /\ EmptyHasFiller'
  BY <1>1, <1>2 DEF Attended, OrphansFill, EmptyHasFiller, TypeOK
<1>5. OverwriteHasBlame'
  BY <1>1, ConfigAssumption DEF OverwriteHasBlame
<1>6. QED
  BY <1>3, <1>4, <1>5 DEF Attended

LEMMA FillAttended ==
    ASSUME TypeOK, Attended, NEW w \in Writers, Fill(w) PROVE Attended'
<1>1. pc[w] = "fill" /\ UNCHANGED fixed /\ UNCHANGED <<kind, renames>> /\ Written(w)
      /\ orphan' = orphan \ {w}
  BY DEF Fill, fixed
<1>2. /\ \A u \in Writers \ {w} : pc'[u] = pc[u] /\ next'[u] = next[u]
      /\ pc'[w] \in {"idle", "done"}
      /\ pc'[w] # "idle" \/ next'[w] > 1
      /\ lock = w => lock' = Nobody
      /\ lock # w => lock' = lock
  BY <1>1, WrittenEnds
<1>3. Holders'
  BY <1>1, <1>2, ConfigAssumption DEF Attended, Holders, UsesLock
<1>4. OrphansFill'
  BY <1>1, <1>2 DEF Attended, OrphansFill, TypeOK
<1>5. Blame => Blame'
  BY <1>1, <1>2, BlameStays
<1>6. CASE w \in orphan
  <2>1. file' = file
    BY <1>6 DEF Fill
  <2>2. EmptyHasFiller'
    BY <1>1, <1>2, <1>6, <2>1 DEF Attended, EmptyHasFiller
  <2>3. OverwriteHasBlame'
    BY <1>1, <1>2, <1>5, <2>1 DEF Attended, OverwriteHasBlame
  <2>4. QED
    BY <1>3, <1>4, <2>2, <2>3 DEF Attended
<1>7. CASE w \notin orphan
  <2>1. file' # Empty /\ (file' = Garbage => file # Empty)
    BY <1>7, ConfigAssumption DEF Fill, TypeOK
  <2>2. EmptyHasFiller'
    BY <2>1 DEF EmptyHasFiller
  <2>3. file' = Garbage => Blame'
    BY <1>1, <1>5, <1>7, <2>1 DEF Attended, OverwriteHasBlame
  <2>4. ASSUME NEW u \in Writers, pc'[u] = "fill", u \notin orphan' PROVE Blame'
    \* u and w fill the same file: one of them has no lock
    <3>1. u # w /\ pc[u] = "fill"
      BY <1>2, <2>4
    <3>2. ~UsesLock(u) \/ ~UsesLock(w)
      BY <1>1, <3>1 DEF Attended, Holders
    <3>3. Blame
      BY <1>1, <3>1, <3>2 DEF Blame
    <3>4. QED
      BY <1>5, <3>3
  <2>5. OverwriteHasBlame'
    BY <2>3, <2>4 DEF OverwriteHasBlame
  <2>6. QED
    BY <1>3, <1>4, <2>2, <2>5 DEF Attended
<1>8. QED
  BY <1>6, <1>7

LEMMA TornInit == Init => TornInv
<1> SUFFICES ASSUME Init PROVE TypeOK /\ Attended
  BY DEF TornInv
<1>1. TypeOK
  BY InitTypeOK
<1>2. file \in Config
  BY DEF Init, Config, Value
<1>3. QED
  BY <1>1, <1>2, ConfigAssumption DEF Init, Attended, Holders, OrphansFill,
     EmptyHasFiller, OverwriteHasBlame

LEMMA TornNext == TornInv /\ [Next]_vars => TornInv'
<1> SUFFICES ASSUME TornInv, [Next]_vars, crashes' = 0 PROVE Attended'
  BY NextTypeOK DEF TornInv
<1>0. TypeOK /\ TypeOK'
  BY NextTypeOK DEF TornInv
<1>1. CASE Crash
  BY <1>0, <1>1 DEF Crash, TypeOK
<1>2. crashes = 0 /\ Attended
  <2>1. Crash \/ crashes' = crashes
    BY DEF Next, vars, Write, Lock, Begin, Read, Fail, Rename, Truncate, Fill
  <2>2. crashes = 0
    BY <1>0, <2>1 DEF Crash, TypeOK
  <2>3. QED
    BY <2>2 DEF TornInv
<1>3. ASSUME NEW w \in Writers, Lock(w) PROVE Attended'
  <2>1. /\ \A u \in Writers \ {w} : pc'[u] = pc[u]
        /\ lock = Nobody /\ lock' = w
        /\ pc[w] \in {"idle", "merged"} /\ pc'[w] \in {"read", "write"}
        /\ UNCHANGED <<fixed, file, next, orphan>>
    BY <1>0, <1>3 DEF Lock, TypeOK
  <2>2. QED
    BY <1>0, <1>2, <2>1, AttendedAside, ConfigAssumption
<1>4. ASSUME NEW w \in Writers, Begin(w) PROVE Attended'
  <2>1. /\ \A u \in Writers \ {w} : pc'[u] = pc[u]
        /\ kind[w] # "batch" /\ lock' = lock
        /\ pc[w] = "idle" /\ pc'[w] = "read"
        /\ UNCHANGED <<fixed, file, next, orphan>>
    BY <1>0, <1>4 DEF Begin, TypeOK
  <2>2. QED
    BY <1>0, <1>2, <2>1, AttendedAside
<1>5. ASSUME NEW w \in Writers, Read(w) PROVE Attended'
  <2>1. /\ \A u \in Writers \ {w} : pc'[u] = pc[u]
        /\ lock' = lock
        /\ pc[w] = "read" /\ pc'[w] = IF kind[w] = "put" THEN "merged" ELSE "write"
        /\ UNCHANGED <<fixed, file, next, orphan>>
    BY <1>0, <1>5 DEF Read, TypeOK
  <2>2. UsesLock(w) /\ pc'[w] = "write" => lock' = w
    BY <1>2, <2>1 DEF Attended, Holders, UsesLock
  <2>3. pc'[w] # "read"
    BY <2>1
  <2>4. QED
    BY <1>0, <1>2, <2>1, <2>2, <2>3, AttendedAside
<1>6. ASSUME NEW w \in Writers, Fail(w) PROVE Attended'
  <2>1. /\ \A u \in Writers \ {w} : pc'[u] = pc[u]
        /\ lock' = IF lock = w THEN Nobody ELSE lock
        /\ pc[w] = "read" /\ pc'[w] = "failed"
        /\ UNCHANGED <<fixed, file, next, orphan>>
    BY <1>0, <1>6 DEF Fail, TypeOK
  <2>2. QED
    BY <1>0, <1>2, <2>1, AttendedAside
<1>7. CASE UNCHANGED vars
  BY <1>2, <1>7 DEF vars, fixed, Attended, Holders, OrphansFill, EmptyHasFiller,
     OverwriteHasBlame, Blame, UsesLock
<1>8. QED
  BY <1>0, <1>1, <1>2, <1>3, <1>4, <1>5, <1>6, <1>7, RenameAttended,
     TruncateAttended, FillAttended DEF Next, Write

(* Whatever mix of writers runs: what is stored is well formed, a reader   *)
(* who meets a half-written or mixed-up file has a writer to blame that is *)
(* at work or took no lock, and under the lock there is no such file.      *)
THEOREM FileStaysSound == Spec => []FileIsSound
<1>1. Spec => []TornInv
  BY TornInit, TornNext, PTL DEF Spec
<1>2. Spec => []AlwaysWhole
  BY LockingPreventsRaces, PTL
<1>3. TornInv => TypeOK /\ TornHasWriter
  BY DEF TornInv, Attended, EmptyHasFiller, OverwriteHasBlame, Blame, TornHasWriter
<1>4. QED
  BY <1>1, <1>2, <1>3, PTL DEF FileIsSound

-----------------------------------------------------------------------------
(* What Answered rests on, but for fairness.                               *)

(* Where a request holds the lock: a batch from its read to the end of its *)
(* write, a PUT for its write.                                             *)
Critical(w) ==
    \/ kind[w] = "batch" /\ pc[w] \in {"read", "write", "fill"}
    \/ kind[w] = "put" /\ pc[w] \in {"write", "fill"}
LockIsUsed ==
    /\ \A w \in Writers : lock = w <=> Critical(w)
    /\ \A w \in Writers : pc[w] = "merged" => kind[w] = "put"

Waits(w) == (kind[w] = "batch" /\ pc[w] = "idle") \/ pc[w] = "merged"
HolderWorks ==
    /\ \A w \in Writers : Waits(w) => lock # w
    /\ lock # Nobody => Critical(lock) /\ ~Waits(lock)

(* A request goes from key to key and, for each, through these stages.     *)
Stage == [idle |-> 0, read |-> 1, merged |-> 2, write |-> 3, fill |-> 4, done |-> 5, failed |-> 5]
GoesOn(w) ==
    \/ next'[w] = next[w] /\ pc'[w] = pc[w]
    \/ next'[w] = next[w] + 1 /\ next[w] < Len(KeysOf[w]) /\ pc[w] \notin {"done", "failed"}
    \/ next'[w] = next[w] /\ Stage[pc'[w]] > Stage[pc[w]]

LEMMA Stages ==
    /\ Stage["idle"] = 0 /\ Stage["read"] = 1 /\ Stage["merged"] = 2 /\ Stage["write"] = 3
    /\ Stage["fill"] = 4 /\ Stage["done"] = 5 /\ Stage["failed"] = 5
BY DEF Stage

LEMMA WrittenGoesOn ==
    ASSUME TypeOK, LockIsUsed, NEW w \in Writers, UNCHANGED kind, Written(w), pc[w] \in {"write", "fill"}
    PROVE  LockIsUsed' /\ \A v \in Writers : GoesOn(v)
<1>1. pc \in PcType /\ next \in [Writers -> Nat \ {0}]
  BY DEF TypeOK, PcType
<1>2. PICK to \in {"idle", "done"} : pc' = [pc EXCEPT ![w] = to]
  BY DEF Written
<1>3. pc'[w] = to /\ \A v \in Writers \ {w} : pc'[v] = pc[v]
  BY <1>1, <1>2 DEF PcType
<1>4. lock' = IF lock = w THEN Nobody ELSE lock
  BY DEF Written
<1>5. ~Critical(w)' /\ lock' # w
  BY <1>3, <1>4, ConfigAssumption DEF Critical
<1>6. \A v \in Writers \ {w} : (Critical(v)' <=> Critical(v)) /\ (lock' = v <=> lock = v)
  <2>1. \A v \in Writers \ {w} : Critical(v)' <=> Critical(v)
    BY <1>3 DEF Critical
  <2> QED
    BY <1>4, <2>1, ConfigAssumption
<1>7. LockIsUsed'
  BY <1>3, <1>5, <1>6 DEF LockIsUsed
<1>8. \A v \in Writers \ {w} : GoesOn(v)
  <2>1. \A v \in Writers \ {w} : next'[v] = next[v]
    BY <1>1 DEF Written
  <2> QED
    BY <1>3, <2>1 DEF GoesOn
<1>9. GoesOn(w)
  <2>1. CASE UsesYq(w) /\ next[w] < Len(KeysOf[w])
    BY <1>1, <2>1 DEF Written, GoesOn
  <2>2. CASE ~(UsesYq(w) /\ next[w] < Len(KeysOf[w]))
    <3>1. next' = next /\ pc'[w] = "done"
      BY <1>1, <2>2 DEF Written, PcType
    <3> QED
      BY <3>1, Stages DEF GoesOn
  <2> QED
    BY <2>1, <2>2
<1> QED
  BY <1>7, <1>8, <1>9

LEMMA OneGoesOn ==
    ASSUME TypeOK, LockIsUsed, NEW w \in Writers, UNCHANGED <<kind, next>>,
           NEW to \in {"read", "merged", "write", "fill", "failed"},
           pc' = [pc EXCEPT ![w] = to], Stage[to] > Stage[pc[w]], to = "merged" => kind[w] = "put",
           lock' = w <=> Critical(w)', \A v \in Writers \ {w} : lock' = v <=> lock = v
    PROVE  LockIsUsed' /\ \A v \in Writers : GoesOn(v)
<1>1. pc'[w] = to /\ \A v \in Writers \ {w} : pc'[v] = pc[v]
  BY DEF TypeOK
<1>2. \A v \in Writers \ {w} : Critical(v)' <=> Critical(v)
  BY <1>1 DEF Critical
<1>3. LockIsUsed'
  BY <1>1, <1>2 DEF LockIsUsed
<1> QED
  BY <1>1, <1>3 DEF GoesOn

LEMMA LockNext ==
    ASSUME TypeOK, LockIsUsed, [Next]_vars
    PROVE  LockIsUsed' /\ \A w \in Writers : GoesOn(w)
<1>0. pc \in PcType
  BY DEF TypeOK, PcType
<1>1. ASSUME NEW w \in Writers, Lock(w) PROVE LockIsUsed' /\ \A v \in Writers : GoesOn(v)
  <2>1. lock = Nobody /\ lock' = w /\ UNCHANGED <<kind, next>>
    BY <1>1 DEF Lock, fixed
  <2>2. \A v \in Writers \ {w} : lock' = v <=> lock = v
    BY <2>1, ConfigAssumption
  <2>3. CASE kind[w] = "batch" /\ pc[w] = "idle" /\ pc' = [pc EXCEPT ![w] = "read"]
    <3>1. Critical(w)' /\ Stage["read"] > Stage[pc[w]]
      BY <1>0, <2>1, <2>3, Stages DEF Critical, PcType
    <3> QED
      BY <2>1, <2>2, <2>3, <3>1, OneGoesOn
  <2>4. CASE kind[w] = "put" /\ pc[w] = "merged" /\ pc' = [pc EXCEPT ![w] = "write"]
    <3>1. Critical(w)' /\ Stage["write"] > Stage[pc[w]]
      BY <1>0, <2>1, <2>4, Stages DEF Critical, PcType
    <3> QED
      BY <2>1, <2>2, <2>4, <3>1, OneGoesOn
  <2> QED
    BY <1>1, <2>3, <2>4 DEF Lock
<1>2. ASSUME NEW w \in Writers, Begin(w) PROVE LockIsUsed' /\ \A v \in Writers : GoesOn(v)
  <2>1. kind[w] # "batch" /\ pc[w] = "idle" /\ pc' = [pc EXCEPT ![w] = "read"] /\ UNCHANGED <<kind, next, lock>>
    BY <1>2 DEF Begin, fixed
  <2>2. ~Critical(w) /\ ~Critical(w)' /\ Stage["read"] > Stage[pc[w]]
    BY <1>0, <2>1, Stages DEF Critical, PcType
  <2>3. lock' = w <=> Critical(w)'
    BY <2>1, <2>2 DEF LockIsUsed
  <2> QED
    BY <2>1, <2>2, <2>3, OneGoesOn
<1>3. ASSUME NEW w \in Writers, Read(w) PROVE LockIsUsed' /\ \A v \in Writers : GoesOn(v)
  <2>1. pc[w] = "read" /\ UNCHANGED <<kind, next, lock>>
    BY <1>3 DEF Read, fixed
  <2>2. PICK to \in {"merged", "write"} : pc' = [pc EXCEPT ![w] = to] /\ (to = "merged" <=> kind[w] = "put")
    BY <1>3 DEF Read
  <2>3. (Critical(w)' <=> Critical(w)) /\ Stage[to] > Stage[pc[w]]
    BY <1>0, <2>1, <2>2, Stages DEF Critical, PcType
  <2>4. lock' = w <=> Critical(w)'
    BY <2>1, <2>3 DEF LockIsUsed
  <2> QED
    BY <2>1, <2>2, <2>3, <2>4, OneGoesOn
<1>4. ASSUME NEW w \in Writers, Fail(w) PROVE LockIsUsed' /\ \A v \in Writers : GoesOn(v)
  <2>1. pc[w] = "read" /\ pc' = [pc EXCEPT ![w] = "failed"] /\ UNCHANGED <<kind, next>>
        /\ lock' = IF lock = w THEN Nobody ELSE lock
    BY <1>4 DEF Fail, fixed
  <2>2. lock' # w /\ \A v \in Writers \ {w} : lock' = v <=> lock = v
    BY <2>1, ConfigAssumption
  <2>3. ~Critical(w)' /\ Stage["failed"] > Stage[pc[w]]
    BY <1>0, <2>1, Stages DEF Critical, PcType
  <2> QED
    BY <2>1, <2>2, <2>3, OneGoesOn
<1>5. ASSUME NEW w \in Writers, Truncate(w) PROVE LockIsUsed' /\ \A v \in Writers : GoesOn(v)
  <2>1. pc[w] = "write" /\ pc' = [pc EXCEPT ![w] = "fill"] /\ UNCHANGED <<kind, next, lock>>
    BY <1>5 DEF Truncate, fixed
  <2>2. (Critical(w)' <=> Critical(w)) /\ Stage["fill"] > Stage[pc[w]]
    BY <1>0, <2>1, Stages DEF Critical, PcType
  <2>3. lock' = w <=> Critical(w)'
    BY <2>1, <2>2 DEF LockIsUsed
  <2> QED
    BY <2>1, <2>2, <2>3, OneGoesOn
<1>6. ASSUME NEW w \in Writers, Rename(w) \/ Fill(w) PROVE LockIsUsed' /\ \A v \in Writers : GoesOn(v)
  BY <1>6, WrittenGoesOn DEF Rename, Fill, fixed
<1>7. ASSUME Crash PROVE LockIsUsed' /\ \A w \in Writers : GoesOn(w)
  <2>1. \A w \in Writers : pc'[w] \in {"idle", "done", "failed"} /\ lock' # w
    BY <1>7, ConfigAssumption DEF Crash
  <2>2. \A w \in Writers : GoesOn(w)
    <3> SUFFICES ASSUME NEW w \in Writers PROVE GoesOn(w)
      OBVIOUS
    <3>1. next' = next
      BY <1>7 DEF Crash
    <3>2. pc'[w] = pc[w] \/ (pc'[w] = "failed" /\ pc[w] \in {"idle", "read", "merged", "write", "fill"})
      BY <1>0, <1>7 DEF Crash, PcType
    <3> QED
      BY <3>1, <3>2, Stages DEF GoesOn
  <2> QED
    BY <2>1, <2>2 DEF LockIsUsed, Critical
<1>8. ASSUME UNCHANGED vars PROVE LockIsUsed' /\ \A w \in Writers : GoesOn(w)
  BY <1>8 DEF vars, fixed, LockIsUsed, Critical, GoesOn
<1> QED
  BY <1>1, <1>2, <1>3, <1>4, <1>5, <1>6, <1>7, <1>8 DEF Next, Write

(* Whatever writers meet, fail and die with the daemon: who holds the lock *)
(* is between its read and the end of its write and waits for nobody, and  *)
(* no step takes a request back, so that it has finitely many of them.     *)
THEOREM NobodyWaitsForAWaiter == Spec => []HolderWorks /\ [][\A w \in Writers : GoesOn(w)]_vars
<1>1. Init => TypeOK /\ LockIsUsed
  BY InitTypeOK, ConfigAssumption DEF Init, LockIsUsed, Critical
<1>2. TypeOK /\ LockIsUsed /\ [Next]_vars => (TypeOK /\ LockIsUsed)'
  BY NextTypeOK, LockNext
<1>3. TypeOK /\ LockIsUsed => HolderWorks
  BY DEF TypeOK, LockIsUsed, HolderWorks, Critical, Waits
<1>4. TypeOK /\ LockIsUsed /\ [Next]_vars => [\A w \in Writers : GoesOn(w)]_vars
  BY LockNext
<1> QED
  BY <1>1, <1>2, <1>3, <1>4, PTL DEF Spec
=============================================================================
