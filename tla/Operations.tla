----------------------------- MODULE Operations -----------------------------
(***************************************************************************)
(* The operation records of one instance: api/internal/operations and the  *)
(* goroutines of api/v1/async.go and cluster.Bootstrap that drive them.    *)
(*                                                                         *)
(* A record is a JSON file.  Every change is a read-modify-write with no   *)
(* lock: GetByInstance reads and parses the file, the caller changes the   *)
(* record in memory, writeOperation truncates the file and then fills it.  *)
(* Three steps, and other writers, readers or the death of the daemon may  *)
(* come between any two of them.  The writers of a record are the worker   *)
(* that carries the operation out and the cancel requests that name it.    *)
(***************************************************************************)
EXTENDS Naturals, FiniteSets

CONSTANTS
    Ops,         \* operations; each stands for its worker too
    Bootstraps,  \* those started by cluster.Bootstrap, the rest by async.go
    Cancellers,  \* cancel requests: one HTTP request each
    MaxReports,  \* bound: progress reports of one operation's body
    MaxCrashes,  \* bound: deaths of the daemon
    NoFile,      \* the file does not exist
    Empty,       \* truncated by a writer, not filled yet
    Garbage,     \* two fills over each other: JSON followed by a tail
    NoRecord,    \* no record was ever readable
    NoJob        \* no write under way

VARIABLES
    file,     \* file[o]: content of the operation's JSON file
    pc,       \* pc[p]: where the worker or cancel request stands
    job,      \* job[p]: the write under way, its record already computed
    outcome,  \* outcome[o]: how the body ended
    reports,  \* reports[o]: progress reports made so far
    crashes,  \* deaths of the daemon so far
    last,     \* history: last[o], the last record a reader could parse
    sent,     \* history: sent[o], the events broadcast so far
    named,    \* history: operations a cancel request has named
    acked     \* history: operations whose cancellation was acknowledged

vars == <<file, pc, job, outcome, reports, crashes, last, sent, named, acked>>

-----------------------------------------------------------------------------
(* Records and files.                                                      *)

Open == {"pending", "running"}
Terminal == {"completed", "failed", "cancelled"}
Full == 2  \* stands for 100: progress is none, some or full

Record == [status : Open \cup Terminal, progress : 0..Full, ended : BOOLEAN]

Procs == Ops \cup Cancellers
Events == {"operation:started", "operation:completed", "operation:failed"}
NoEvent == "no event"

Job == [op : Ops, rec : Record, stage : {"truncate", "fill"},
        event : Events \cup {NoEvent}]

ASSUME OpsAssumption ==
    /\ Bootstraps \subseteq Ops
    /\ Ops \cap Cancellers = {}
    /\ MaxReports \in Nat
    /\ MaxCrashes \in Nat
    /\ NoFile \notin Record /\ Empty \notin Record /\ Garbage \notin Record
    /\ NoFile # Empty /\ NoFile # Garbage /\ Empty # Garbage
    /\ NoRecord \notin Record
    /\ NoJob \notin Job

Readable(o) == file[o] \in Record

(* The three ways the manager changes a record it has read.                *)
WithStatus(r, s) ==
    [r EXCEPT !.status = s, !.ended = IF s \in Terminal THEN TRUE ELSE @]
WithProgress(r, n) == [r EXCEPT !.progress = n]
WithOutcome(r, s, n) == WithProgress(WithStatus(r, s), n)

(* Only the manager that cluster.Bootstrap uses has an SSE manager; Update *)
(* broadcasts when the status it found differs from the one it writes.     *)
EventFor(o, old, new) ==
    IF o \notin Bootstraps \/ old = new THEN NoEvent
    ELSE IF new = "completed" THEN "operation:completed"
    ELSE IF new = "failed" THEN "operation:failed"
    ELSE NoEvent

(* GetByInstance, then the change made in memory: rec is the record read   *)
(* with the change.  A file that is missing or does not parse ends the     *)
(* call with an error, which every worker discards.                        *)
ReadAndChange(p, o, rec) ==
    job' = IF Readable(o)
           THEN [job EXCEPT ![p] =
                   [op |-> o, rec |-> rec, stage |-> "truncate",
                    event |-> IF p = o
                              THEN EventFor(o, file[o].status, rec.status)
                              ELSE NoEvent]]
           ELSE job

(* A fill starts at the beginning of the file.  Over the content another   *)
(* writer filled since the truncation it may leave a tail of that content. *)
Filled(o, r) == IF file[o] = Empty THEN {r} ELSE {r, Garbage}

-----------------------------------------------------------------------------
(* The two steps of writeOperation, for whoever runs it.                   *)

(* Mutant: the event goes out before the record is written.                *)
TruncateAndAnnounce(p) ==
    /\ job[p] # NoJob
    /\ job[p].stage = "truncate"
    /\ file' = [file EXCEPT ![job[p].op] = Empty]
    /\ job' = [job EXCEPT ![p].stage = "fill"]
    /\ sent' = IF job[p].event = NoEvent THEN sent
               ELSE [sent EXCEPT ![job[p].op] = @ \cup {job[p].event}]
    /\ UNCHANGED <<pc, outcome, reports, crashes, last, named, acked>>

Truncate(p) ==
    /\ job[p] # NoJob
    /\ job[p].stage = "truncate"
    /\ file' = [file EXCEPT ![job[p].op] = Empty]
    /\ job' = [job EXCEPT ![p].stage = "fill"]
    /\ UNCHANGED <<pc, outcome, reports, crashes, last, sent, named, acked>>

Fill(p) ==
    /\ job[p] # NoJob
    /\ job[p].stage = "fill"
    /\ LET o == job[p].op IN
       /\ \E c \in Filled(o, job[p].rec) :
            /\ file' = [file EXCEPT ![o] = c]
            /\ last' = IF c = Garbage THEN last ELSE [last EXCEPT ![o] = c]
       /\ sent' = IF job[p].event = NoEvent THEN sent
                  ELSE [sent EXCEPT ![o] = @ \cup {job[p].event}]
       /\ acked' = IF p \in Cancellers THEN acked \cup {o} ELSE acked
    /\ job' = [job EXCEPT ![p] = NoJob]
    /\ UNCHANGED <<pc, outcome, reports, crashes, named>>

-----------------------------------------------------------------------------
(* The worker of an operation.                                             *)

(* Start: a fresh record in a fresh file, then operation:started.          *)
Start(o) ==
    /\ pc[o] = "new"
    /\ pc' = [pc EXCEPT ![o] = "scheduled"]
    /\ file' = [file EXCEPT ![o] = Empty]
    /\ job' = [job EXCEPT ![o] =
        [op |-> o,
         rec |-> [status |-> "pending", progress |-> 0, ended |-> FALSE],
         stage |-> "fill",
         event |-> IF o \in Bootstraps THEN "operation:started" ELSE NoEvent]]
    /\ UNCHANGED <<outcome, reports, crashes, last, sent, named, acked>>

(* Mutant: the body starts without the operation being marked running.     *)
BeginBodyPending(o) ==
    /\ pc[o] = "scheduled"
    /\ job[o] = NoJob
    /\ pc' = [pc EXCEPT ![o] = "body"]
    /\ UNCHANGED <<file, job, outcome, reports, crashes, last, sent, named, acked>>

(* The goroutine of async.go marks the operation running; that of          *)
(* cluster.Bootstrap goes straight to its first step.                      *)
BeginBody(o) ==
    /\ pc[o] = "scheduled"
    /\ job[o] = NoJob
    /\ pc' = [pc EXCEPT ![o] = "body"]
    /\ IF o \in Bootstraps THEN job' = job
       ELSE ReadAndChange(o, o, WithStatus(file[o], "running"))
    /\ UNCHANGED <<file, outcome, reports, crashes, last, sent, named, acked>>

(* UpdateProgress and UpdateBootstrapProgress.                             *)
ReportProgress(o) ==
    /\ pc[o] = "body"
    /\ job[o] = NoJob
    /\ reports[o] < MaxReports
    /\ reports' = [reports EXCEPT ![o] = @ + 1]
    /\ \E n \in 0..Full : ReadAndChange(o, o, WithProgress(file[o], n))
    /\ UNCHANGED <<file, pc, outcome, crashes, last, sent, named, acked>>

(* What the worker writes when the body returns, returns an error, or      *)
(* panics and is recovered.                                                *)
VerdictIgnoresError(how, r) ==  \* mutant: the body's error is dropped
    IF how = "panic" THEN WithOutcome(r, "failed", 0)
                     ELSE WithOutcome(r, "completed", Full)
Verdict(how, r) ==
    IF how = "ok" THEN WithOutcome(r, "completed", Full)
                  ELSE WithOutcome(r, "failed", 0)

(* Mutant: the goroutine recovers a panic without updating the record.     *)
EndBodySilently(o) ==
    /\ pc[o] = "body"
    /\ job[o] = NoJob
    /\ \E how \in {"ok", "error", "panic"} :
         /\ how = "panic" => o \notin Bootstraps
         /\ outcome' = [outcome EXCEPT ![o] = how]
         /\ IF how = "panic" THEN job' = job
            ELSE ReadAndChange(o, o, Verdict(how, file[o]))
    /\ pc' = [pc EXCEPT ![o] = "done"]
    /\ UNCHANGED <<file, reports, crashes, last, sent, named, acked>>

EndBody(o) ==
    /\ pc[o] = "body"
    /\ job[o] = NoJob
    /\ \E how \in {"ok", "error", "panic"} :
         \* nothing recovers a panic of the bootstrap goroutine: see Crash
         /\ how = "panic" => o \notin Bootstraps
         /\ outcome' = [outcome EXCEPT ![o] = how]
         /\ ReadAndChange(o, o, Verdict(how, file[o]))
    /\ pc' = [pc EXCEPT ![o] = "done"]
    /\ UNCHANGED <<file, reports, crashes, last, sent, named, acked>>

Worker(o) ==
    Start(o) \/ BeginBody(o) \/ ReportProgress(o) \/ EndBody(o)
        \/ Truncate(o) \/ Fill(o)

-----------------------------------------------------------------------------
(* Mutant: a cancel request resets the progress and keeps the status.      *)
CancelKeepsStatus(c, o) ==
    /\ pc[c] = "new"
    /\ file[o] # NoFile
    /\ pc' = [pc EXCEPT ![c] = "done"]
    /\ ReadAndChange(c, o, WithProgress(file[o], 0))
    /\ named' = named \cup {o}
    /\ UNCHANGED <<file, outcome, reports, crashes, last, sent, acked>>

(* A cancel request.  Cancel is UpdateStatus with no look at the status it *)
(* finds; the worker is not told.                                          *)
Cancel(c, o) ==
    /\ pc[c] = "new"
    /\ file[o] # NoFile
    /\ pc' = [pc EXCEPT ![c] = "done"]
    /\ ReadAndChange(c, o, WithStatus(file[o], "cancelled"))
    /\ named' = named \cup {o}
    /\ UNCHANGED <<file, outcome, reports, crashes, last, sent, acked>>

Canceller(c) == (\E o \in Ops : Cancel(c, o)) \/ Truncate(c) \/ Fill(c)

-----------------------------------------------------------------------------
(* The daemon dies (killed, power lost, a panic nobody recovers) and is    *)
(* started again: every goroutine and request is gone, the files stay as   *)
(* they are, and nothing at start-up looks at them.                        *)
Crash ==
    /\ crashes < MaxCrashes
    /\ \E p \in Procs : job[p] # NoJob \/ pc[p] \in {"scheduled", "body"}
    /\ crashes' = crashes + 1
    /\ pc' = [p \in Procs |->
                IF job[p] # NoJob \/ pc[p] \in {"scheduled", "body"} THEN "dead"
                ELSE pc[p]]
    /\ job' = [p \in Procs |-> NoJob]
    /\ UNCHANGED <<file, outcome, reports, last, sent, named, acked>>

-----------------------------------------------------------------------------
Init ==
    /\ file = [o \in Ops |-> NoFile]
    /\ pc = [p \in Procs |-> "new"]
    /\ job = [p \in Procs |-> NoJob]
    /\ outcome = [o \in Ops |-> "none"]
    /\ reports = [o \in Ops |-> 0]
    /\ crashes = 0
    /\ last = [o \in Ops |-> NoRecord]
    /\ sent = [o \in Ops |-> {}]
    /\ named = {}
    /\ acked = {}

Next ==
    \/ \E o \in Ops : Worker(o)
    \/ \E c \in Cancellers : Canceller(c)
    \/ Crash

Spec == Init /\ [][Next]_vars

(* The Go scheduler runs every runnable goroutine; that bodies end is      *)
(* assumed (their waits are bounded by attempts or command timeouts).      *)
FairSpec ==
    /\ Spec
    /\ \A o \in Ops : WF_vars(Worker(o))
    /\ \A c \in Cancellers : WF_vars(Truncate(c) \/ Fill(c))

-----------------------------------------------------------------------------
TypeOK ==
    /\ file \in [Ops -> Record \cup {NoFile, Empty, Garbage}]
    /\ pc \in [Procs -> {"new", "scheduled", "body", "done", "dead"}]
    /\ job \in [Procs -> Job \cup {NoJob}]
    /\ outcome \in [Ops -> {"none", "ok", "error", "panic"}]
    /\ reports \in [Ops -> 0..MaxReports]
    /\ crashes \in 0..MaxCrashes
    /\ last \in [Ops -> Record \cup {NoRecord}]
    /\ sent \in [Ops -> SUBSET Events]
    /\ named \subseteq Ops
    /\ acked \subseteq Ops

-----------------------------------------------------------------------------
(* A record that says completed belongs to an operation whose body         *)
(* succeeded, one that says failed to one whose body failed: in the file,  *)
(* in the memory of a request that read it, and in the events broadcast.   *)
(* A cancel request writes back what it read before the worker's last      *)
(* update, so a stale or mixed-up write would show here.                   *)
Honest(s, how) ==
    /\ s \in {"completed", "operation:completed"} => how = "ok"
    /\ s \in {"failed", "operation:failed"} => how \in {"error", "panic"}

HonestOutcome ==
    /\ \A o \in Ops : last[o] # NoRecord => Honest(last[o].status, outcome[o])
    /\ \A p \in Procs :
         job[p] # NoJob => Honest(job[p].rec.status, outcome[job[p].op])
    /\ \A o \in Ops : \A e \in sent[o] : Honest(e, outcome[o])

(* No step brings an operation back to life for a client: a record that    *)
(* says how the body ended is followed only by the same verdict or by a    *)
(* cancellation, whoever wrote with whatever it had read before.           *)
VerdictStands ==
    [][\A o \in Ops :
         (last[o] # NoRecord /\ last[o].status \in {"completed", "failed"})
           => last'[o].status \in {last[o].status, "cancelled"}]_vars

(* A client told by an event that a bootstrap ended, and that then fetches *)
(* the record, finds the outcome the event announced, unless a cancel      *)
(* request has named the operation.                                        *)
EventFollowsRecord ==
    \A o \in Ops \ named :
        /\ "operation:completed" \in sent[o]
             => Readable(o) /\ file[o].status = "completed"
        /\ "operation:failed" \in sent[o]
             => Readable(o) /\ file[o].status = "failed"

(* An unreadable record is the work of a write in progress, or of one the  *)
(* daemon died in, unless a cancel request has named the operation.        *)
UnreadableIsTransient ==
    \A o \in Ops \ named :
        (file[o] # NoFile /\ ~Readable(o)) => job[o] # NoJob \/ pc[o] = "dead"

(* What a client may rely on when it reads a record, or hears of it before *)
(* it reads it.                                                            *)
RecordsAreSound == TypeOK /\ EventFollowsRecord /\ UnreadableIsTransient

(* The records are what the abstract life cycle promises, a reader that    *)
(* meets a half-written file keeping the record it last parsed.            *)
Lifecycle == INSTANCE OperationLifecycle WITH
    status <- [o \in Ops |->
                 IF last[o] = NoRecord THEN "none" ELSE last[o].status],
    phase <- [o \in Ops |->
                IF pc[o] = "new" THEN "new"
                ELSE IF pc[o] = "dead" THEN "lost"
                ELSE IF pc[o] = "done" /\ job[o] = NoJob THEN "settled"
                ELSE "at work"]
LifecycleSpec == Lifecycle!FairSpec

(* As long as the daemon lives, a started operation comes to rest with a   *)
(* terminal status, or with a file two writers left for nobody to parse.   *)
ComesToRest ==
    \A o \in Ops : (pc[o] # "new") ~>
        [](\/ crashes > 0
           \/ file[o] = Garbage
           \/ Readable(o) /\ file[o].status \in Terminal)

=============================================================================
