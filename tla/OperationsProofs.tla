-------------------------- MODULE OperationsProofs --------------------------
(***************************************************************************)
(* Proofs about Operations, for any set of operations, of cancel requests  *)
(* and any bounds: the records stay well formed, they are honest about how *)
(* the body ended, a verdict is never taken back, what an event announced  *)
(* is found in the record, and the records implement the life cycle.       *)
(***************************************************************************)
EXTENDS Operations, TLAPS

-----------------------------------------------------------------------------
(* The records the manager computes.                                       *)

(* Changing a record the way the manager does yields a record with the     *)
(* status that was set, or, for a progress report, the status it had.      *)
LEMMA ChangedRecord ==
    ASSUME NEW r \in Record, NEW s \in Open \cup Terminal, NEW n \in 0..Full
    PROVE  /\ WithStatus(r, s) \in Record /\ WithStatus(r, s).status = s
           /\ WithProgress(r, n) \in Record
           /\ WithProgress(r, n).status = r.status
           /\ WithOutcome(r, s, n) \in Record /\ WithOutcome(r, s, n).status = s
<1>1. WithStatus(r, s) \in Record /\ WithStatus(r, s).status = s
  BY DEF Record, WithStatus
<1>2. \A q \in Record : WithProgress(q, n) \in Record
                        /\ WithProgress(q, n).status = q.status
  BY DEF Record, WithProgress
<1>3. QED
  BY <1>1, <1>2 DEF WithOutcome

(* The verdict on a body is a record that says completed or failed, as the *)
(* body ended.                                                             *)
LEMMA VerdictRecord ==
    ASSUME NEW r \in Record, NEW how \in {"ok", "error", "panic"}
    PROVE  /\ Verdict(how, r) \in Record
           /\ how = "ok" => Verdict(how, r).status = "completed"
           /\ how # "ok" => Verdict(how, r).status = "failed"
<1>1. 0 \in 0..Full /\ Full \in 0..Full
  BY DEF Full
<1>2. "completed" \in Open \cup Terminal /\ "failed" \in Open \cup Terminal
  BY DEF Terminal
<1>3. \A s \in Open \cup Terminal, n \in 0..Full :
         WithOutcome(r, s, n) \in Record /\ WithOutcome(r, s, n).status = s
  BY ChangedRecord
<1>4. /\ WithOutcome(r, "completed", Full) \in Record /\ WithOutcome(r, "completed", Full).status = "completed"
      /\ WithOutcome(r, "failed", 0) \in Record /\ WithOutcome(r, "failed", 0).status = "failed"
  BY <1>1, <1>2, <1>3
<1>5. QED
  BY <1>4 DEF Verdict

(* The event of an update announces the status the update writes.          *)
LEMMA EventAnnounces ==
    ASSUME NEW o, NEW old, NEW new
    PROVE  /\ EventFor(o, old, new) \in Events \cup {NoEvent}
           /\ EventFor(o, old, new) = "operation:completed" => new = "completed"
           /\ EventFor(o, old, new) = "operation:failed" => new = "failed"
           /\ EventFor(o, old, new) \notin {"completed", "failed"}
BY DEF EventFor, Events, NoEvent

-----------------------------------------------------------------------------
(* Type correctness.                                                       *)

(* A read-modify-write leaves the jobs well typed.                         *)
LEMMA ReadAndChangeType ==
    ASSUME TypeOK, NEW p \in Procs, NEW o \in Ops, NEW rec,
           Readable(o) => rec \in Record, ReadAndChange(p, o, rec)
    PROVE  job' \in [Procs -> Job \cup {NoJob}]
<1> DEFINE ev == IF p = o THEN EventFor(o, file[o].status, rec.status)
                 ELSE NoEvent
           new == [op |-> o, rec |-> rec, stage |-> "truncate", event |-> ev]
<1>1. CASE Readable(o)
  <2>1. ev \in Events \cup {NoEvent}
    BY EventAnnounces
  <2>2. new \in Job
    BY <1>1, <2>1 DEF Job
  <2>3. job' = [job EXCEPT ![p] = new]
    BY <1>1 DEF ReadAndChange
  <2>4. QED
    BY <2>2, <2>3 DEF TypeOK
<1>2. CASE ~Readable(o)
  BY <1>2 DEF ReadAndChange, TypeOK
<1>3. QED
  BY <1>1, <1>2

(* The two steps of a write keep the types.                                *)
LEMMA WriteType ==
    ASSUME TypeOK, NEW p \in Procs, Truncate(p) \/ Fill(p)
    PROVE  TypeOK'
<1>1. CASE Truncate(p)
  <2>1. job[p] \in Job
    BY <1>1 DEF Truncate, TypeOK
  <2>2. [job[p] EXCEPT !.stage = "fill"] \in Job
    BY <2>1 DEF Job
  <2>3. job' \in [Procs -> Job \cup {NoJob}]
    BY <1>1, <2>2 DEF Truncate, TypeOK
  <2>4. file' \in [Ops -> Record \cup {NoFile, Empty, Garbage}]
    BY <1>1 DEF Truncate, TypeOK
  <2>5. QED
    BY <1>1, <2>3, <2>4 DEF Truncate, TypeOK
<1>2. CASE Fill(p)
  <2>1. job[p] \in Job
    BY <1>2 DEF Fill, TypeOK
  <2> DEFINE o == job[p].op
  <2>2. o \in Ops /\ job[p].rec \in Record /\ job[p].event \in Events \cup {NoEvent}
    BY <2>1 DEF Job
  <2>3. PICK c \in Filled(o, job[p].rec) :
          /\ file' = [file EXCEPT ![o] = c]
          /\ last' = IF c = Garbage THEN last ELSE [last EXCEPT ![o] = c]
    BY <1>2 DEF Fill
  <2>4. c \in Record \/ c = Garbage
    BY <2>2, <2>3 DEF Filled
  <2>5. /\ file' \in [Ops -> Record \cup {NoFile, Empty, Garbage}]
        /\ last' \in [Ops -> Record \cup {NoRecord}]
    BY <2>3, <2>4 DEF TypeOK
  <2>6. sent' \in [Ops -> SUBSET Events]
    BY <1>2, <2>2 DEF Fill, TypeOK
  <2>7. acked' \subseteq Ops
    BY <1>2, <2>2 DEF Fill, TypeOK
  <2>8. job' \in [Procs -> Job \cup {NoJob}]
    BY <1>2 DEF Fill, TypeOK
  <2>9. QED
    BY <1>2, <2>5, <2>6, <2>7, <2>8 DEF Fill, TypeOK
<1>3. QED
  BY <1>1, <1>2

(* The initial state is well typed.                                        *)
LEMMA InitType == Init => TypeOK
BY OpsAssumption DEF Init, TypeOK, Procs

(* Every step keeps the types.                                             *)
LEMMA NextType == TypeOK /\ [Next]_vars => TypeOK'
<1> SUFFICES ASSUME TypeOK, [Next]_vars PROVE TypeOK'
  OBVIOUS
<1>a. Ops \subseteq Procs /\ Cancellers \subseteq Procs
  BY DEF Procs
<1>1. ASSUME NEW o \in Ops, Start(o) PROVE TypeOK'
  <2>1. [op |-> o,
         rec |-> [status |-> "pending", progress |-> 0, ended |-> FALSE],
         stage |-> "fill",
         event |-> IF o \in Bootstraps THEN "operation:started" ELSE NoEvent]
           \in Job
    BY DEF Job, Record, Open, Events, Full
  <2>2. job' \in [Procs -> Job \cup {NoJob}]
    BY <1>1, <1>a, <2>1 DEF Start, TypeOK
  <2>3. pc' \in [Procs -> {"new", "scheduled", "body", "done", "dead"}]
    BY <1>1, <1>a DEF Start, TypeOK
  <2>4. file' \in [Ops -> Record \cup {NoFile, Empty, Garbage}]
    BY <1>1 DEF Start, TypeOK
  <2>5. QED
    BY <1>1, <2>2, <2>3, <2>4 DEF Start, TypeOK
<1>2. ASSUME NEW o \in Ops, BeginBody(o) PROVE TypeOK'
  <2>1. Readable(o) => WithStatus(file[o], "running") \in Record
    BY ChangedRecord DEF Readable, Open, Full
  <2>2. job' \in [Procs -> Job \cup {NoJob}]
    <3>1. CASE o \in Bootstraps
      BY <1>2, <3>1 DEF BeginBody, TypeOK
    <3>2. CASE o \notin Bootstraps
      BY <1>2, <1>a, <2>1, <3>2, ReadAndChangeType DEF BeginBody
    <3>3. QED
      BY <3>1, <3>2
  <2>3. pc' \in [Procs -> {"new", "scheduled", "body", "done", "dead"}]
    BY <1>2, <1>a DEF BeginBody, TypeOK
  <2>4. QED
    BY <1>2, <2>2, <2>3 DEF BeginBody, TypeOK
<1>3. ASSUME NEW o \in Ops, ReportProgress(o) PROVE TypeOK'
  <2>1. PICK n \in 0..Full : ReadAndChange(o, o, WithProgress(file[o], n))
    BY <1>3 DEF ReportProgress
  <2>2. Readable(o) => WithProgress(file[o], n) \in Record
    BY ChangedRecord DEF Readable, Open
  <2>3. job' \in [Procs -> Job \cup {NoJob}]
    BY <1>a, <2>1, <2>2, ReadAndChangeType
  <2>4. reports' \in [Ops -> 0..MaxReports]
    BY <1>3, OpsAssumption DEF ReportProgress, TypeOK
  <2>5. QED
    BY <1>3, <2>3, <2>4 DEF ReportProgress, TypeOK
<1>4. ASSUME NEW o \in Ops, EndBody(o) PROVE TypeOK'
  <2>1. PICK how \in {"ok", "error", "panic"} :
          /\ outcome' = [outcome EXCEPT ![o] = how]
          /\ ReadAndChange(o, o, Verdict(how, file[o]))
    BY <1>4 DEF EndBody
  <2>2. Readable(o) => Verdict(how, file[o]) \in Record
    BY VerdictRecord DEF Readable
  <2>3. job' \in [Procs -> Job \cup {NoJob}]
    BY <1>a, <2>1, <2>2, ReadAndChangeType
  <2>4. outcome' \in [Ops -> {"none", "ok", "error", "panic"}]
    BY <2>1 DEF TypeOK
  <2>5. pc' \in [Procs -> {"new", "scheduled", "body", "done", "dead"}]
    BY <1>4, <1>a DEF EndBody, TypeOK
  <2>6. QED
    BY <1>4, <2>3, <2>4, <2>5 DEF EndBody, TypeOK
<1>5. ASSUME NEW c \in Cancellers, NEW o \in Ops, Cancel(c, o) PROVE TypeOK'
  <2>1. Readable(o) => WithStatus(file[o], "cancelled") \in Record
    BY ChangedRecord DEF Readable, Terminal, Full
  <2>2. job' \in [Procs -> Job \cup {NoJob}]
    BY <1>5, <1>a, <2>1, ReadAndChangeType DEF Cancel
  <2>3. pc' \in [Procs -> {"new", "scheduled", "body", "done", "dead"}]
    BY <1>5, <1>a DEF Cancel, TypeOK
  <2>4. QED
    BY <1>5, <2>2, <2>3 DEF Cancel, TypeOK
<1>6. CASE Crash
  BY <1>6, OpsAssumption DEF Crash, TypeOK
<1>7. CASE UNCHANGED vars
  BY <1>7 DEF vars, TypeOK
<1>8. QED
  BY <1>a, <1>1, <1>2, <1>3, <1>4, <1>5, <1>6, <1>7, WriteType
     DEF Next, Worker, Canceller

(* Every record in a file, in the memory of a request or last seen by a    *)
(* reader is well formed, whatever the interleaving.                       *)
THEOREM TypeCorrect == Spec => []TypeOK
BY InitType, NextType, PTL DEF Spec

-----------------------------------------------------------------------------
(* Honesty.  The property alone is not inductive: a cancel request may     *)
(* hold a record for as long as it likes.  What makes it so is that nobody *)
(* but the worker writes a verdict, once, in its last write, and that the  *)
(* file never holds anything but the record last readable.                 *)

LastIsFile == \A o \in Ops : Readable(o) => last[o] = file[o]

UndecidedBefore ==
    \A o \in Ops : pc[o] \in {"new", "scheduled", "body"} => outcome[o] = "none"

JobsHaveOwners ==
    /\ \A o \in Ops : job[o] # NoJob => job[o].op = o
    /\ \A c \in Cancellers : job[c] # NoJob => job[c].rec.status = "cancelled"

JobsHonest ==
    \A p \in Procs : job[p] # NoJob =>
        /\ Honest(job[p].rec.status, outcome[job[p].op])
        /\ Honest(job[p].event, outcome[job[p].op])

QuietWhenDecided ==
    \A o \in Ops :
        (last[o] # NoRecord /\ last[o].status \in {"completed", "failed"})
            => pc[o] \in {"done", "dead"} /\ job[o] = NoJob

IInv ==
    /\ TypeOK
    /\ HonestOutcome
    /\ LastIsFile
    /\ UndecidedBefore
    /\ JobsHaveOwners
    /\ JobsHonest
    /\ QuietWhenDecided

(* Only verdicts and their events need an outcome to be honest.            *)
LEMMA HonestUndecided ==
    ASSUME NEW how,
           NEW s \in {"pending", "running", "cancelled", "operation:started", NoEvent}
    PROVE  Honest(s, how)
BY DEF Honest, NoEvent

(* What a request reads from a file is honest.                             *)
LEMMA HonestFile ==
    ASSUME IInv, NEW o \in Ops, Readable(o)
    PROVE  file[o] \in Record /\ Honest(file[o].status, outcome[o])
BY OpsAssumption DEF IInv, HonestOutcome, LastIsFile, Readable

(* The job a read-modify-write starts, and that it disturbs no other.      *)
LEMMA ReadAndChangeJob ==
    ASSUME TypeOK, NEW p \in Procs, NEW o \in Ops, NEW rec,
           Readable(o) => rec \in Record,
           ReadAndChange(p, o, rec)
    PROVE  /\ \A q \in Procs \ {p} : job'[q] = job[q]
           /\ ~Readable(o) => job'[p] = job[p]
           /\ Readable(o) =>
                /\ job'[p].op = o
                /\ job'[p].rec = rec
                /\ \A how : Honest(rec.status, how) => Honest(job'[p].event, how)
<1> DEFINE ev == IF p = o THEN EventFor(o, file[o].status, rec.status)
                 ELSE NoEvent
           new == [op |-> o, rec |-> rec, stage |-> "truncate", event |-> ev]
<1>1. CASE Readable(o)
  <2>1. job' = [job EXCEPT ![p] = new]
    BY <1>1 DEF ReadAndChange
  <2>2. job'[p] = new /\ \A q \in Procs \ {p} : job'[q] = job[q]
    BY <2>1 DEF TypeOK
  <2>3. /\ ev = "operation:completed" => rec.status = "completed"
        /\ ev = "operation:failed" => rec.status = "failed"
        /\ ev \notin {"completed", "failed"}
    BY EventAnnounces DEF NoEvent
  <2>4. ASSUME NEW how, Honest(rec.status, how) PROVE Honest(ev, how)
    BY <2>3, <2>4 DEF Honest
  <2>5. QED
    BY <1>1, <2>2, <2>4
<1>2. CASE ~Readable(o)
  BY <1>2 DEF ReadAndChange
<1>3. QED
  BY <1>1, <1>2

(* A read-modify-write that writes an honest record keeps the jobs honest, *)
(* provided it leaves them with their owners and decides no outcome but    *)
(* its own.                                                                *)
LEMMA ReadAndChangeHonest ==
    ASSUME IInv, NEW p \in Procs, NEW o \in Ops, NEW rec, NEW how,
           Readable(o) => rec \in Record /\ Honest(rec.status, how),
           ReadAndChange(p, o, rec),
           outcome' = [outcome EXCEPT ![o] = how],
           \A q \in Procs : job[q] # NoJob =>
               /\ Honest(job[q].rec.status, outcome'[job[q].op])
               /\ Honest(job[q].event, outcome'[job[q].op])
    PROVE  JobsHonest'
<1>1. TypeOK
  BY DEF IInv
<1>2. outcome'[o] = how
  BY <1>1 DEF TypeOK
<1> SUFFICES ASSUME NEW q \in Procs, job'[q] # NoJob
             PROVE  /\ Honest(job'[q].rec.status, outcome'[job'[q].op])
                    /\ Honest(job'[q].event, outcome'[job'[q].op])
  BY DEF JobsHonest
<1>3. CASE q # p
  BY <1>1, <1>3, ReadAndChangeJob
<1>4. CASE q = p /\ Readable(o)
  <2>1. job'[p].op = o /\ job'[p].rec = rec
    BY <1>1, <1>4, ReadAndChangeJob
  <2>2. Honest(rec.status, how)
    BY <1>4
  <2>3. Honest(job'[p].event, how)
    BY <1>1, <1>4, <2>2, ReadAndChangeJob
  <2>4. QED
    BY <1>2, <1>4, <2>1, <2>2, <2>3
<1>5. CASE q = p /\ ~Readable(o)
  BY <1>1, <1>5, ReadAndChangeJob
<1>6. QED
  BY <1>3, <1>4, <1>5

(* What is honest before the body has ended is honest however it ends.     *)
LEMMA HonestWhateverComes ==
    ASSUME NEW s, NEW how, Honest(s, "none") PROVE Honest(s, how)
BY DEF Honest

(* The steps that read the file and compute the next record: the worker's  *)
(* updates and a cancel request.  The verdict on the body is decided in    *)
(* one of them, before anything says so.                                   *)
LEMMA UpdateKeepsIInv ==
    ASSUME IInv, TypeOK', NEW p \in Procs, NEW o \in Ops, NEW rec, NEW how,
           Readable(o) => rec \in Record /\ Honest(rec.status, how),
           p \in Ops => p = o,
           p \in Cancellers => (Readable(o) => rec.status = "cancelled"),
           ReadAndChange(p, o, rec),
           outcome' = [outcome EXCEPT ![o] = how],
           outcome[o] = how \/ (outcome[o] = "none" /\ pc'[o] \notin {"new", "scheduled", "body"}),
           p = o => pc[o] \notin {"done", "dead"},
           \A q \in Ops : pc'[q] \in {"new", "scheduled", "body"}
                           => pc[q] \in {"new", "scheduled", "body"},
           \A q \in Ops : pc[q] \in {"done", "dead"} => pc'[q] = pc[q],
           UNCHANGED <<file, last, sent>>
    PROVE  IInv'
<1>0. TypeOK /\ Ops \subseteq Procs /\ Cancellers \subseteq Procs
  BY DEF IInv, Procs
<1>1. \A q \in Ops : outcome'[q] = IF q = o THEN how ELSE outcome[q]
  BY <1>0 DEF TypeOK
<1>2. ASSUME NEW q \in Ops, NEW s, Honest(s, outcome[q])
      PROVE  Honest(s, outcome'[q])
  BY <1>1, <1>2, HonestWhateverComes
<1>3. JobsHonest'
  <2>1. \A q \in Procs : job[q] # NoJob => job[q].op \in Ops
    BY <1>0 DEF TypeOK, Job
  <2>2. \A q \in Procs : job[q] # NoJob =>
           /\ Honest(job[q].rec.status, outcome'[job[q].op])
           /\ Honest(job[q].event, outcome'[job[q].op])
    BY <1>2, <2>1 DEF IInv, JobsHonest
  <2>3. QED
    BY <2>2, ReadAndChangeHonest
<1>4. HonestOutcome'
  <2>1. \A q \in Ops : last'[q] # NoRecord => Honest(last'[q].status, outcome'[q])
    BY <1>2 DEF IInv, HonestOutcome
  <2>2. \A q \in Ops : \A e \in sent'[q] : Honest(e, outcome'[q])
    BY <1>2 DEF IInv, HonestOutcome
  <2>3. QED
    BY <1>3, <2>1, <2>2 DEF HonestOutcome, JobsHonest
<1>5. LastIsFile'
  BY DEF IInv, LastIsFile, Readable
<1>6. UndecidedBefore'
  BY <1>1 DEF IInv, UndecidedBefore
<1>7. JobsHaveOwners'
  <2>1. \A q \in Procs \ {p} : job'[q] = job[q]
    BY <1>0, ReadAndChangeJob
  <2>2. ~Readable(o) => job'[p] = job[p]
    BY <1>0, ReadAndChangeJob
  <2>3. Readable(o) => job'[p].op = o /\ job'[p].rec = rec
    BY <1>0, ReadAndChangeJob
  <2>4. \A q \in Ops : job'[q] # NoJob => job'[q].op = q
    BY <1>0, <2>1, <2>2, <2>3 DEF IInv, JobsHaveOwners
  <2>5. \A c \in Cancellers : job'[c] # NoJob => job'[c].rec.status = "cancelled"
    BY <1>0, <2>1, <2>2, <2>3 DEF IInv, JobsHaveOwners
  <2>6. QED
    BY <2>4, <2>5 DEF JobsHaveOwners
<1>8. QuietWhenDecided'
  <2> SUFFICES ASSUME NEW q \in Ops, last'[q] # NoRecord,
                      last'[q].status \in {"completed", "failed"}
               PROVE  pc'[q] \in {"done", "dead"} /\ job'[q] = NoJob
    BY DEF QuietWhenDecided
  <2>1. pc[q] \in {"done", "dead"} /\ job[q] = NoJob
    BY DEF IInv, QuietWhenDecided
  <2>2. q # p
    BY <2>1
  <2>3. job'[q] = job[q]
    BY <1>0, <2>2, ReadAndChangeJob
  <2>4. QED
    BY <2>1, <2>3
<1>9. QED
  BY <1>3, <1>4, <1>5, <1>6, <1>7, <1>8 DEF IInv

(* The two steps of a write.                                               *)
LEMMA TruncateKeepsIInv ==
    ASSUME IInv, TypeOK', NEW p \in Procs, Truncate(p) PROVE IInv'
<1>0. TypeOK /\ Ops \subseteq Procs /\ Cancellers \subseteq Procs
  BY DEF IInv, Procs
<1>1. job[p] # NoJob /\ job[p] \in Job /\ job[p].op \in Ops
  BY <1>0 DEF Truncate, TypeOK, Job
<1>2. /\ \A q \in Procs \ {p} : job'[q] = job[q]
      /\ job'[p] = [job[p] EXCEPT !.stage = "fill"]
  BY <1>0 DEF Truncate, TypeOK
<1>3. \A q \in Procs : job'[q] # NoJob =>
         /\ job[q] # NoJob
         /\ job'[q].op = job[q].op
         /\ job'[q].rec = job[q].rec
         /\ job'[q].event = job[q].event
  BY <1>1, <1>2 DEF Job
<1>4. JobsHonest'
  BY <1>3 DEF IInv, JobsHonest, Truncate
<1>5. HonestOutcome'
  BY <1>4 DEF IInv, HonestOutcome, JobsHonest, Truncate
<1>6. LastIsFile'
  <2>1. file' = [file EXCEPT ![job[p].op] = Empty] /\ last' = last
    BY DEF Truncate
  <2>2. \A o \in Ops : file'[o] = Empty \/ file'[o] = file[o]
    BY <1>0, <1>1, <2>1 DEF TypeOK
  <2>3. QED
    BY <2>1, <2>2, OpsAssumption DEF IInv, LastIsFile, Readable
<1>7. UndecidedBefore'
  BY DEF IInv, UndecidedBefore, Truncate
<1>8. JobsHaveOwners'
  BY <1>0, <1>3 DEF IInv, JobsHaveOwners
<1>9. QuietWhenDecided'
  BY <1>0, <1>1, <1>2 DEF IInv, QuietWhenDecided, Truncate
<1>10. QED
  BY <1>4, <1>5, <1>6, <1>7, <1>8, <1>9 DEF IInv

LEMMA FillKeepsIInv ==
    ASSUME IInv, TypeOK', NEW p \in Procs, Fill(p) PROVE IInv'
<1>0. TypeOK /\ Ops \subseteq Procs /\ Cancellers \subseteq Procs
  BY DEF IInv, Procs
<1> DEFINE o == job[p].op
           r == job[p].rec
<1>1. job[p] # NoJob /\ job[p] \in Job /\ o \in Ops /\ r \in Record
  BY <1>0 DEF Fill, TypeOK, Job
<1>2. /\ \A q \in Procs \ {p} : job'[q] = job[q]
      /\ job'[p] = NoJob
  BY <1>0 DEF Fill, TypeOK
<1>3. PICK c \in Filled(o, r) :
        /\ file' = [file EXCEPT ![o] = c]
        /\ last' = IF c = Garbage THEN last ELSE [last EXCEPT ![o] = c]
  BY DEF Fill
<1>4. c = r \/ c = Garbage
  BY <1>3 DEF Filled
<1>5. /\ \A q \in Ops \ {o} : file'[q] = file[q] /\ last'[q] = last[q]
      /\ file'[o] = c
      /\ last'[o] = IF c = Garbage THEN last[o] ELSE r
  BY <1>0, <1>1, <1>3, <1>4 DEF TypeOK
<1>6. Honest(r.status, outcome[o]) /\ Honest(job[p].event, outcome[o])
  BY <1>1 DEF IInv, JobsHonest
<1>7. JobsHonest'
  BY <1>2 DEF IInv, JobsHonest, Fill
<1>8. HonestOutcome'
  <2>1. \A q \in Ops : last'[q] # NoRecord => Honest(last'[q].status, outcome'[q])
    BY <1>5, <1>6 DEF IInv, HonestOutcome, Fill
  <2>2. \A q \in Ops : \A e \in sent'[q] : Honest(e, outcome'[q])
    <3> SUFFICES ASSUME NEW q \in Ops, NEW e \in sent'[q]
                 PROVE  Honest(e, outcome[q])
      BY DEF Fill
    <3>1. sent' = sent \/ sent' = [sent EXCEPT ![o] = @ \cup {job[p].event}]
      BY DEF Fill
    <3>2. e \in sent[q] \/ (q = o /\ e = job[p].event)
      BY <1>0, <1>1, <3>1 DEF TypeOK
    <3>3. QED
      BY <1>6, <3>2 DEF IInv, HonestOutcome
  <2>3. QED
    BY <1>7, <2>1, <2>2 DEF HonestOutcome, JobsHonest
<1>9. LastIsFile'
  BY <1>4, <1>5, OpsAssumption DEF IInv, LastIsFile, Readable
<1>10. UndecidedBefore'
  BY DEF IInv, UndecidedBefore, Fill
<1>11. JobsHaveOwners'
  BY <1>0, <1>2 DEF IInv, JobsHaveOwners
<1>12. QuietWhenDecided'
  <2> SUFFICES ASSUME NEW q \in Ops, last'[q] # NoRecord,
                      last'[q].status \in {"completed", "failed"}
               PROVE  pc[q] \in {"done", "dead"} /\ job'[q] = NoJob
    BY DEF QuietWhenDecided, Fill
  <2>1. CASE last'[q] = last[q]
    <3>1. pc[q] \in {"done", "dead"} /\ job[q] = NoJob
      BY <2>1 DEF IInv, QuietWhenDecided
    <3>2. QED
      BY <1>0, <1>2, <3>1
  <2>2. CASE last'[q] # last[q]
    \* the verdict just written: it is the worker's own last write
    <3>1. q = o /\ last'[q] = r
      BY <1>5, <2>2
    <3>2. p \notin Cancellers
      BY <1>1, <3>1 DEF IInv, JobsHaveOwners
    <3>3. p = o
      BY <1>1, <3>2 DEF IInv, JobsHaveOwners, Procs
    <3>4. outcome[o] # "none"
      BY <1>6, <3>1 DEF Honest
    <3>5. pc[o] \in {"done", "dead"}
      BY <1>0, <1>1, <3>4 DEF IInv, UndecidedBefore, TypeOK
    <3>6. QED
      BY <1>2, <3>1, <3>3, <3>5
  <2>3. QED
    BY <2>1, <2>2
<1>13. QED
  BY <1>7, <1>8, <1>9, <1>10, <1>11, <1>12 DEF IInv

(* A new operation: its record says pending, its file is being written.    *)
LEMMA StartKeepsIInv ==
    ASSUME IInv, TypeOK', NEW o \in Ops, Start(o) PROVE IInv'
<1>0. TypeOK /\ Ops \subseteq Procs /\ Cancellers \subseteq Procs
      /\ o \notin Cancellers
  BY OpsAssumption DEF IInv, Procs
<1> DEFINE r == [status |-> "pending", progress |-> 0, ended |-> FALSE]
           ev == IF o \in Bootstraps THEN "operation:started" ELSE NoEvent
           new == [op |-> o, rec |-> r, stage |-> "fill", event |-> ev]
<1>1. /\ \A q \in Procs \ {o} : job'[q] = job[q] /\ pc'[q] = pc[q]
      /\ job'[o] = new /\ pc[o] = "new" /\ pc'[o] = "scheduled"
  BY <1>0 DEF Start, TypeOK
<1>2. JobsHonest'
  <2> SUFFICES ASSUME NEW q \in Procs, job'[q] # NoJob
               PROVE  /\ Honest(job'[q].rec.status, outcome[job'[q].op])
                      /\ Honest(job'[q].event, outcome[job'[q].op])
    BY DEF JobsHonest, Start
  <2>1. CASE q # o
    BY <1>1, <2>1 DEF IInv, JobsHonest
  <2>2. CASE q = o
    BY <1>1, <2>2, HonestUndecided
  <2>3. QED
    BY <2>1, <2>2
<1>3. HonestOutcome'
  BY <1>2 DEF IInv, HonestOutcome, JobsHonest, Start
<1>4. LastIsFile'
  <2>1. \A q \in Ops : file'[q] = Empty \/ file'[q] = file[q]
    BY <1>0 DEF Start, TypeOK
  <2>2. QED
    BY <2>1, OpsAssumption DEF IInv, LastIsFile, Readable, Start
<1>5. UndecidedBefore'
  BY <1>0, <1>1 DEF IInv, UndecidedBefore, Start
<1>6. JobsHaveOwners'
  BY <1>0, <1>1 DEF IInv, JobsHaveOwners
<1>7. QuietWhenDecided'
  BY <1>0, <1>1 DEF IInv, QuietWhenDecided, Start
<1>8. QED
  BY <1>2, <1>3, <1>4, <1>5, <1>6, <1>7 DEF IInv

(* A crash only takes work away.                                           *)
LEMMA CrashKeepsIInv ==
    ASSUME IInv, TypeOK', Crash PROVE IInv'
<1>0. TypeOK /\ Ops \subseteq Procs /\ Cancellers \subseteq Procs
  BY DEF IInv, Procs
<1>1. \A q \in Procs :
         /\ job'[q] = NoJob
         /\ pc'[q] = IF job[q] # NoJob \/ pc[q] \in {"scheduled", "body"}
                     THEN "dead" ELSE pc[q]
  BY DEF Crash
<1>2. JobsHonest' /\ JobsHaveOwners'
  BY <1>0, <1>1 DEF JobsHonest, JobsHaveOwners
<1>3. HonestOutcome'
  BY <1>2 DEF IInv, HonestOutcome, JobsHonest, Crash
<1>4. LastIsFile'
  BY DEF IInv, LastIsFile, Readable, Crash
<1>5. UndecidedBefore'
  BY <1>0, <1>1 DEF IInv, UndecidedBefore, Crash
<1>6. QuietWhenDecided'
  BY <1>0, <1>1 DEF IInv, QuietWhenDecided, Crash
<1>7. QED
  BY <1>2, <1>3, <1>4, <1>5, <1>6 DEF IInv

(* An update whose record keeps the status it found, or says running or    *)
(* cancelled, leaves the outcomes alone.                                   *)
LEMMA SameOutcome ==
    ASSUME TypeOK, NEW o \in Ops, UNCHANGED outcome
    PROVE  outcome' = [outcome EXCEPT ![o] = outcome[o]]
BY DEF TypeOK

LEMMA NextKeepsIInv == IInv /\ [Next]_vars => IInv'
<1> SUFFICES ASSUME IInv, [Next]_vars PROVE IInv'
  OBVIOUS
<1>t. TypeOK'
  BY NextType DEF IInv
<1>a. TypeOK /\ Ops \subseteq Procs /\ Cancellers \subseteq Procs
      /\ \A c \in Cancellers : c \notin Ops
  BY OpsAssumption DEF IInv, Procs
<1>1. ASSUME NEW o \in Ops, BeginBody(o) PROVE IInv'
  <2>1. \A q \in Procs \ {o} : pc'[q] = pc[q]
    BY <1>1, <1>a DEF BeginBody, TypeOK
  <2>2. pc[o] = "scheduled" /\ pc'[o] = "body"
    BY <1>1, <1>a DEF BeginBody, TypeOK
  <2>3. CASE o \notin Bootstraps
    <3>1. Readable(o) =>
             /\ WithStatus(file[o], "running") \in Record
             /\ Honest(WithStatus(file[o], "running").status, outcome[o])
      BY ChangedRecord, HonestUndecided DEF Readable, Open, Full
    <3>2. ReadAndChange(o, o, WithStatus(file[o], "running"))
      BY <1>1, <2>3 DEF BeginBody
    <3>3. UNCHANGED <<file, last, sent, outcome>>
      BY <1>1 DEF BeginBody
    <3>4. QED
      BY <1>t, <1>a, <2>1, <2>2, <3>1, <3>2, <3>3, SameOutcome, UpdateKeepsIInv
  <2>4. CASE o \in Bootstraps
    <3>1. UNCHANGED <<file, job, last, sent, outcome>>
      BY <1>1, <2>4 DEF BeginBody
    <3>2. JobsHonest' /\ HonestOutcome' /\ LastIsFile' /\ JobsHaveOwners'
      BY <3>1 DEF IInv, JobsHonest, HonestOutcome, LastIsFile, Readable, JobsHaveOwners
    <3>3. UndecidedBefore' /\ QuietWhenDecided'
      BY <1>a, <2>1, <2>2, <3>1 DEF IInv, UndecidedBefore, QuietWhenDecided
    <3>4. QED
      BY <1>t, <3>2, <3>3 DEF IInv
  <2>5. QED
    BY <2>3, <2>4
<1>2. ASSUME NEW o \in Ops, ReportProgress(o) PROVE IInv'
  <2>1. PICK n \in 0..Full : ReadAndChange(o, o, WithProgress(file[o], n))
    BY <1>2 DEF ReportProgress
  <2>2. Readable(o) =>
           /\ WithProgress(file[o], n) \in Record
           /\ Honest(WithProgress(file[o], n).status, outcome[o])
    BY ChangedRecord, HonestFile DEF Readable, Open
  <2>3. UNCHANGED <<file, last, sent, outcome, pc>> /\ pc[o] = "body"
    BY <1>2 DEF ReportProgress
  <2>4. QED
    BY <1>t, <1>a, <2>1, <2>2, <2>3, SameOutcome, UpdateKeepsIInv
<1>3. ASSUME NEW o \in Ops, EndBody(o) PROVE IInv'
  <2>1. PICK how \in {"ok", "error", "panic"} :
          /\ outcome' = [outcome EXCEPT ![o] = how]
          /\ ReadAndChange(o, o, Verdict(how, file[o]))
    BY <1>3 DEF EndBody
  <2>2. Readable(o) => /\ Verdict(how, file[o]) \in Record
                       /\ Honest(Verdict(how, file[o]).status, how)
    BY VerdictRecord DEF Readable, Honest
  <2>3. pc[o] = "body" /\ pc'[o] = "done" /\ \A q \in Procs \ {o} : pc'[q] = pc[q]
    BY <1>3, <1>a DEF EndBody, TypeOK
  <2>4. outcome[o] = "none"
    BY <2>3 DEF IInv, UndecidedBefore
  <2>5. UNCHANGED <<file, last, sent>>
    BY <1>3 DEF EndBody
  <2>6. QED
    BY <1>t, <1>a, <2>1, <2>2, <2>3, <2>4, <2>5, UpdateKeepsIInv
<1>4. ASSUME NEW c \in Cancellers, NEW o \in Ops, Cancel(c, o) PROVE IInv'
  <2>1. Readable(o) =>
           /\ WithStatus(file[o], "cancelled") \in Record
           /\ WithStatus(file[o], "cancelled").status = "cancelled"
           /\ Honest(WithStatus(file[o], "cancelled").status, outcome[o])
    BY ChangedRecord, HonestUndecided DEF Readable, Terminal, Full
  <2>2. ReadAndChange(c, o, WithStatus(file[o], "cancelled"))
    BY <1>4 DEF Cancel
  <2>3. \A q \in Ops : pc'[q] = pc[q]
    BY <1>4, <1>a DEF Cancel, TypeOK
  <2>4. UNCHANGED <<file, last, sent, outcome>>
    BY <1>4 DEF Cancel
  <2>5. QED
    BY <1>t, <1>a, <2>1, <2>2, <2>3, <2>4, SameOutcome, UpdateKeepsIInv
<1>5. CASE UNCHANGED vars
  <2>1. JobsHonest' /\ HonestOutcome' /\ LastIsFile' /\ JobsHaveOwners'
    BY <1>5 DEF vars, IInv, JobsHonest, HonestOutcome, LastIsFile, Readable,
                JobsHaveOwners
  <2>2. UndecidedBefore' /\ QuietWhenDecided'
    BY <1>5 DEF vars, IInv, UndecidedBefore, QuietWhenDecided
  <2>3. QED
    BY <1>t, <2>1, <2>2 DEF IInv
<1>6. QED
  BY <1>t, <1>a, <1>1, <1>2, <1>3, <1>4, <1>5, StartKeepsIInv, TruncateKeepsIInv,
     FillKeepsIInv, CrashKeepsIInv DEF Next, Worker, Canceller

LEMMA InitIInv == Init => IInv
<1> SUFFICES ASSUME Init PROVE IInv
  OBVIOUS
<1>1. TypeOK
  BY InitType
<1>2. HonestOutcome /\ JobsHonest /\ JobsHaveOwners
  BY DEF Init, HonestOutcome, JobsHonest, JobsHaveOwners, Procs
<1>3. LastIsFile /\ UndecidedBefore /\ QuietWhenDecided
  BY OpsAssumption DEF Init, LastIsFile, Readable, UndecidedBefore,
                       QuietWhenDecided, Procs
<1>4. QED
  BY <1>1, <1>2, <1>3 DEF IInv

-----------------------------------------------------------------------------
(* No record and no event ever misreports how an operation ended, however  *)
(* cancel requests, crashes and the worker interleave.                     *)
THEOREM OutcomesAreHonest == Spec => []HonestOutcome
<1>1. Spec => []IInv
  BY InitIInv, NextKeepsIInv, PTL DEF Spec
<1>2. IInv => HonestOutcome
  BY DEF IInv
<1>3. QED
  BY <1>1, <1>2, PTL

(* Once a reader was told how the body ended, no step tells readers        *)
(* anything else but that the operation was cancelled.                     *)
THEOREM VerdictsStand == Spec => VerdictStands
<1> DEFINE Stands ==
      \A o \in Ops :
         (last[o] # NoRecord /\ last[o].status \in {"completed", "failed"})
           => last'[o].status \in {last[o].status, "cancelled"}
<1>1. IInv /\ [Next]_vars => [Stands]_vars
  <2> SUFFICES ASSUME IInv, Next, NEW o \in Ops, last[o] # NoRecord,
                      last[o].status \in {"completed", "failed"}
               PROVE  last'[o].status \in {last[o].status, "cancelled"}
    BY DEF Stands
  <2>0. TypeOK /\ Ops \subseteq Procs /\ Cancellers \subseteq Procs
    BY DEF IInv, Procs
  <2>1. job[o] = NoJob
    BY DEF IInv, QuietWhenDecided
  <2>2. ASSUME NEW p \in Procs, Fill(p)
        PROVE  last'[o].status \in {last[o].status, "cancelled"}
    <3>1. job[p] # NoJob /\ job[p].op \in Ops
      BY <2>0, <2>2 DEF Fill, TypeOK, Job
    <3>2. CASE job[p].op # o
      BY <2>0, <2>2, <3>1, <3>2 DEF Fill, TypeOK
    <3>3. CASE job[p].op = o
      <4>1. p \in Cancellers
        BY <2>1, <3>1, <3>3 DEF IInv, JobsHaveOwners, Procs
      <4>2. job[p].rec.status = "cancelled"
        BY <3>1, <4>1 DEF IInv, JobsHaveOwners
      <4>3. PICK c \in Filled(o, job[p].rec) :
              last' = IF c = Garbage THEN last ELSE [last EXCEPT ![o] = c]
        BY <2>2, <3>3 DEF Fill
      <4>4. last'[o] = last[o] \/ last'[o] = job[p].rec
        BY <2>0, <4>3 DEF Filled, TypeOK
      <4>5. QED
        BY <4>2, <4>4
    <3>4. QED
      BY <3>2, <3>3
  <2>3. CASE UNCHANGED last
    BY <2>3
  <2>4. QED
    BY <2>0, <2>2, <2>3 DEF Next, Worker, Canceller, Start, BeginBody,
       ReportProgress, EndBody, Truncate, Cancel, Crash
<1>2. Spec => []IInv
  BY InitIInv, NextKeepsIInv, PTL DEF Spec
<1>3. QED
  BY <1>1, <1>2, PTL DEF Spec, VerdictStands
-----------------------------------------------------------------------------
(* Soundness of the records, and what the worker's next write may follow.  *)
(* An operation nobody cancels is alone with its worker: it is found as    *)
(* the worker left it.  One that was cancelled says, besides what its      *)
(* worker writes, only "cancelled", and only after it said something.      *)

Expected(o) == IF o \in Bootstraps THEN "pending" ELSE "running"

EventFits(j) ==
    /\ j.event = "operation:completed" => j.rec.status = "completed"
    /\ j.event = "operation:failed" => j.rec.status = "failed"

NewIsUntouched ==
    \A o \in Ops :
        /\ pc[o] = "new" => file[o] = NoFile /\ job[o] = NoJob /\ last[o] = NoRecord
        /\ pc[o] # "new" => file[o] # NoFile

CancelsAreNamed ==
    \A c \in Cancellers : job[c] # NoJob =>
        /\ job[c].op \in named /\ last[job[c].op] # NoRecord
        /\ job[c].event = NoEvent

EventsAnnounce == \A p \in Procs : job[p] # NoJob => EventFits(job[p])

FillMeetsEmpty ==
    \A o \in Ops \ named : job[o] # NoJob /\ job[o].stage = "fill" => file[o] = Empty

StartedSaysPending ==
    \A o \in Ops : pc[o] = "scheduled" =>
        /\ job[o] # NoJob => /\ job[o].stage = "fill" /\ job[o].rec.status = "pending"
                             /\ file[o] = Empty /\ last[o] = NoRecord
        /\ job[o] = NoJob => /\ last[o] # NoRecord
                             /\ last[o].status \in {"pending", "cancelled"}

BodySaysExpected ==
    \A o \in Ops : pc[o] = "body" =>
        /\ last[o] # NoRecord
        /\ last[o].status \in {"pending", Expected(o), "cancelled"}
        /\ job[o] = NoJob /\ Readable(o) => last[o].status \in {Expected(o), "cancelled"}
        /\ job[o] # NoJob =>
             /\ job[o].rec.status \in {Expected(o), "cancelled"}
             /\ job[o].rec.status = "cancelled" => last[o].status = "cancelled"

DoneSaysVerdict ==
    \A o \in Ops :
        /\ pc[o] = "done" => last[o] # NoRecord
        /\ pc[o] = "done" /\ job[o] # NoJob => job[o].rec.status \in {"completed", "failed"}
        /\ pc[o] = "dead" => job[o] = NoJob

UnnamedOnTrack ==
    \A o \in Ops \ named :
        /\ pc[o] = "scheduled" /\ job[o] = NoJob => last[o].status = "pending"
        /\ pc[o] = "body" /\ job[o] = NoJob => last[o].status = Expected(o)
        /\ pc[o] = "body" /\ job[o] # NoJob => job[o].rec.status = Expected(o)
        /\ pc[o] = "done" /\ job[o] # NoJob => last[o].status = Expected(o)

Alone == FillMeetsEmpty /\ UnreadableIsTransient /\ EventFollowsRecord
OnCourse == StartedSaysPending /\ BodySaysExpected /\ DoneSaysVerdict /\ UnnamedOnTrack

SInv ==
    /\ IInv
    /\ NewIsUntouched
    /\ CancelsAreNamed
    /\ EventsAnnounce
    /\ Alone
    /\ OnCourse

(* The job a read-modify-write starts, in full.                            *)
LEMMA ReadAndChangeNew ==
    ASSUME TypeOK, NEW p \in Procs, NEW o \in Ops, NEW rec,
           Readable(o) => rec \in Record,
           ReadAndChange(p, o, rec)
    PROVE  /\ \A q \in Procs \ {p} : job'[q] = job[q]
           /\ ~Readable(o) => job' = job
           /\ Readable(o) =>
                /\ job'[p] # NoJob
                /\ job'[p].op = o /\ job'[p].rec = rec /\ job'[p].stage = "truncate"
                /\ EventFits(job'[p])
                /\ p # o => job'[p].event = NoEvent
<1> DEFINE ev == IF p = o THEN EventFor(o, file[o].status, rec.status)
                 ELSE NoEvent
           new == [op |-> o, rec |-> rec, stage |-> "truncate", event |-> ev]
<1>1. CASE Readable(o)
  <2>1. ev \in Events \cup {NoEvent}
    BY EventAnnounces
  <2>2. new \in Job
    BY <1>1, <2>1 DEF Job
  <2>3. job' = [job EXCEPT ![p] = new]
    BY <1>1 DEF ReadAndChange
  <2>4. job'[p] = new /\ \A q \in Procs \ {p} : job'[q] = job[q]
    BY <2>3 DEF TypeOK
  <2>5. new # NoJob
    BY <2>2, OpsAssumption
  <2>6. EventFits(new)
    BY EventAnnounces DEF EventFits, NoEvent
  <2>7. QED
    BY <1>1, <2>4, <2>5, <2>6
<1>2. CASE ~Readable(o)
  BY <1>2 DEF ReadAndChange
<1>3. QED
  BY <1>1, <1>2

(* What SInv says of types, that every proof below needs.                  *)
LEMMA SoundTypes ==
    ASSUME SInv
    PROVE  /\ TypeOK /\ Ops \subseteq Procs /\ Cancellers \subseteq Procs
           /\ \A c \in Cancellers : c \notin Ops
           /\ \A p \in Procs : job[p] # NoJob =>
                job[p] \in Job /\ job[p].op \in Ops /\ job[p].rec \in Record
           /\ \A o \in Ops : Readable(o) => last[o] = file[o] /\ last[o] # NoRecord
           /\ NoFile \notin Record /\ Empty \notin Record /\ Garbage \notin Record
           /\ NoFile # Empty /\ NoFile # Garbage /\ Empty # Garbage
<1>1. TypeOK /\ LastIsFile
  BY DEF SInv, IInv
<1>2. \A p \in Procs : job[p] # NoJob =>
        job[p] \in Job /\ job[p].op \in Ops /\ job[p].rec \in Record
  BY <1>1 DEF TypeOK, Job
<1>3. \A o \in Ops : Readable(o) => last[o] = file[o] /\ last[o] # NoRecord
  BY <1>1, OpsAssumption DEF LastIsFile, Readable
<1>4. QED
  BY <1>1, <1>2, <1>3, OpsAssumption DEF Procs

LEMMA InitSInv == Init => SInv
<1> SUFFICES ASSUME Init PROVE SInv
  OBVIOUS
<1>1. IInv
  BY InitIInv
<1>2. NewIsUntouched /\ CancelsAreNamed /\ EventsAnnounce
  BY DEF Init, NewIsUntouched, CancelsAreNamed, EventsAnnounce, Procs
<1>3. Alone
  BY DEF Init, Alone, FillMeetsEmpty, UnreadableIsTransient, EventFollowsRecord, Procs
<1>4. OnCourse
  BY DEF Init, OnCourse, StartedSaysPending, BodySaysExpected, DoneSaysVerdict,
         UnnamedOnTrack, Procs
<1>5. QED
  BY <1>1, <1>2, <1>3, <1>4 DEF SInv

LEMMA StartKeepsSInv ==
    ASSUME SInv, IInv', NEW o \in Ops, Start(o) PROVE SInv'
<1>0. TypeOK /\ Ops \subseteq Procs /\ Cancellers \subseteq Procs /\ o \notin Cancellers
  BY SoundTypes
<1> DEFINE r == [status |-> "pending", progress |-> 0, ended |-> FALSE]
           ev == IF o \in Bootstraps THEN "operation:started" ELSE NoEvent
           new == [op |-> o, rec |-> r, stage |-> "fill", event |-> ev]
<1>1. /\ \A q \in Procs \ {o} : job'[q] = job[q] /\ pc'[q] = pc[q]
      /\ \A q \in Ops \ {o} : file'[q] = file[q]
      /\ job'[o] = new /\ pc[o] = "new" /\ pc'[o] = "scheduled" /\ file'[o] = Empty
      /\ UNCHANGED <<last, sent, named>>
  BY <1>0 DEF Start, TypeOK
<1>2. new \in Job
  BY DEF Job, Record, Open, Events, Full
<1>3. new # NoJob /\ EventFits(new) /\ new.stage = "fill" /\ new.rec.status = "pending"
  BY <1>2, OpsAssumption DEF EventFits, NoEvent
<1>4. file[o] = NoFile /\ last[o] = NoRecord /\ job[o] = NoJob
  BY <1>1 DEF SInv, NewIsUntouched
<1>5. NewIsUntouched'
  BY <1>0, <1>1, OpsAssumption DEF SInv, NewIsUntouched
<1>6. CancelsAreNamed' /\ EventsAnnounce'
  BY <1>0, <1>1, <1>3 DEF SInv, CancelsAreNamed, EventsAnnounce
<1>7. FillMeetsEmpty' /\ UnreadableIsTransient'
  BY <1>0, <1>1, <1>3 DEF SInv, Alone, FillMeetsEmpty, UnreadableIsTransient, Readable
<1>8. EventFollowsRecord'
  BY <1>0, <1>1, <1>4, OpsAssumption DEF SInv, Alone, EventFollowsRecord, Readable
<1>9. StartedSaysPending'
  BY <1>0, <1>1, <1>3, <1>4 DEF SInv, OnCourse, StartedSaysPending
<1>10. BodySaysExpected' /\ DoneSaysVerdict' /\ UnnamedOnTrack'
  BY <1>0, <1>1, <1>3 DEF SInv, OnCourse, BodySaysExpected, DoneSaysVerdict,
                          UnnamedOnTrack, Readable
<1>11. QED
  BY <1>5, <1>6, <1>7, <1>8, <1>9, <1>10 DEF SInv, Alone, OnCourse

(* The steps that read the file and compute the next record change no      *)
(* file: what is said of the files and of cancel requests stays true.      *)
LEMMA UpdateKeepsRecords ==
    ASSUME SInv, NEW p \in Procs, NEW o \in Ops, NEW rec,
           Readable(o) => rec \in Record,
           p \in Ops => p = o /\ job[o] = NoJob /\ pc[o] \notin {"new", "dead"} /\ pc'[o] # "new",
           p \in Cancellers => o \in named',
           \A q \in Procs \ {p} : pc'[q] = pc[q],
           ReadAndChange(p, o, rec),
           named \subseteq named',
           UNCHANGED <<file, last, sent>>
    PROVE  NewIsUntouched' /\ CancelsAreNamed' /\ EventsAnnounce' /\ Alone'
<1>0. TypeOK /\ Ops \subseteq Procs /\ Cancellers \subseteq Procs
      /\ (\A c \in Cancellers : c \notin Ops)
      /\ \A q \in Ops : Readable(q) => last[q] # NoRecord
  BY SoundTypes
<1>1. /\ \A q \in Procs \ {p} : job'[q] = job[q]
      /\ ~Readable(o) => job' = job
      /\ Readable(o) =>
           /\ job'[p] # NoJob
           /\ job'[p].op = o /\ job'[p].stage = "truncate"
           /\ EventFits(job'[p])
           /\ p # o => job'[p].event = NoEvent
  BY <1>0, ReadAndChangeNew
<1>2. NewIsUntouched'
  BY <1>0, <1>1 DEF SInv, NewIsUntouched
<1>3. CancelsAreNamed'
  BY <1>0, <1>1 DEF SInv, CancelsAreNamed
<1>4. EventsAnnounce'
  BY <1>0, <1>1 DEF SInv, EventsAnnounce
<1>5. FillMeetsEmpty'
  BY <1>0, <1>1 DEF SInv, Alone, FillMeetsEmpty
<1>6. UnreadableIsTransient'
  BY <1>0, <1>1 DEF SInv, Alone, UnreadableIsTransient, Readable
<1>7. EventFollowsRecord'
  BY <1>0 DEF SInv, Alone, EventFollowsRecord, Readable
<1>8. QED
  BY <1>2, <1>3, <1>4, <1>5, <1>6, <1>7 DEF Alone

(* An operation that nobody cancels and that is between two writes has a   *)
(* record its worker can read.                                             *)
LEMMA UnnamedIsReadable ==
    ASSUME SInv, NEW o \in Ops \ named, job[o] = NoJob, pc[o] \notin {"new", "dead"}
    PROVE  Readable(o)
BY DEF SInv, Alone, UnreadableIsTransient, NewIsUntouched

LEMMA BeginKeepsSInv ==
    ASSUME SInv, IInv', NEW o \in Ops, BeginBody(o) PROVE SInv'
<1>0. TypeOK /\ Ops \subseteq Procs /\ Cancellers \subseteq Procs
      /\ o \notin Cancellers
      /\ (Readable(o) => last[o] = file[o])
  BY SoundTypes
<1>1. /\ pc[o] = "scheduled" /\ pc'[o] = "body" /\ job[o] = NoJob
      /\ \A q \in Procs \ {o} : pc'[q] = pc[q]
      /\ UNCHANGED <<file, last, sent, named>>
  BY <1>0 DEF BeginBody, TypeOK
<1> DEFINE rec == WithStatus(file[o], "running")
<1>2. Readable(o) => rec \in Record /\ rec.status = "running"
  BY ChangedRecord DEF Readable, Open, Full
<1>3. last[o] # NoRecord /\ last[o].status \in {"pending", "cancelled"}
  BY <1>1 DEF SInv, OnCourse, StartedSaysPending
<1>4. o \notin named => last[o].status = "pending" /\ Readable(o)
  BY <1>1, UnnamedIsReadable DEF SInv, OnCourse, UnnamedOnTrack
<1>5. CASE o \in Bootstraps
  <2>1. job' = job
    BY <1>5 DEF BeginBody
  <2>2. NewIsUntouched' /\ CancelsAreNamed' /\ EventsAnnounce'
    BY <1>0, <1>1, <2>1 DEF SInv, NewIsUntouched, CancelsAreNamed, EventsAnnounce
  <2>3. Alone'
    BY <1>0, <1>1, <2>1 DEF SInv, Alone, FillMeetsEmpty, UnreadableIsTransient,
                             EventFollowsRecord, Readable
  <2>4. StartedSaysPending' /\ DoneSaysVerdict'
    BY <1>0, <1>1, <2>1 DEF SInv, OnCourse, StartedSaysPending, DoneSaysVerdict
  <2>5. BodySaysExpected' /\ UnnamedOnTrack'
    BY <1>0, <1>1, <1>3, <1>4, <1>5, <2>1
       DEF SInv, OnCourse, BodySaysExpected, UnnamedOnTrack, Expected, Readable
  <2>6. QED
    BY <2>2, <2>3, <2>4, <2>5 DEF SInv, OnCourse
<1>6. CASE o \notin Bootstraps
  <2>1. ReadAndChange(o, o, rec)
    BY <1>6 DEF BeginBody
  <2>2. NewIsUntouched' /\ CancelsAreNamed' /\ EventsAnnounce' /\ Alone'
    BY <1>0, <1>1, <1>2, <2>1, UpdateKeepsRecords
  <2>3. /\ \A q \in Procs \ {o} : job'[q] = job[q]
        /\ ~Readable(o) => job' = job
        /\ Readable(o) => job'[o] # NoJob /\ job'[o].rec.status = "running"
    BY <1>0, <1>2, <2>1, ReadAndChangeNew
  <2>4. StartedSaysPending' /\ DoneSaysVerdict'
    BY <1>0, <1>1, <2>3 DEF SInv, OnCourse, StartedSaysPending, DoneSaysVerdict
  <2>5. BodySaysExpected' /\ UnnamedOnTrack'
    BY <1>0, <1>1, <1>3, <1>4, <1>6, <2>3
       DEF SInv, OnCourse, BodySaysExpected, UnnamedOnTrack, Expected, Readable
  <2>6. QED
    BY <2>2, <2>4, <2>5 DEF SInv, OnCourse
<1>7. QED
  BY <1>5, <1>6

LEMMA ReportKeepsSInv ==
    ASSUME SInv, IInv', NEW o \in Ops, ReportProgress(o) PROVE SInv'
<1>0. TypeOK /\ Ops \subseteq Procs /\ Cancellers \subseteq Procs
      /\ o \notin Cancellers
      /\ (Readable(o) => last[o] = file[o])
  BY SoundTypes
<1>1. /\ pc[o] = "body" /\ job[o] = NoJob
      /\ UNCHANGED <<file, last, sent, named, pc>>
  BY DEF ReportProgress
<1>2. PICK n \in 0..Full : ReadAndChange(o, o, WithProgress(file[o], n))
  BY DEF ReportProgress
<1>3. Readable(o) => /\ WithProgress(file[o], n) \in Record
                     /\ WithProgress(file[o], n).status = last[o].status
  BY <1>0, ChangedRecord DEF Readable, Open
<1>4. NewIsUntouched' /\ CancelsAreNamed' /\ EventsAnnounce' /\ Alone'
  BY <1>0, <1>1, <1>2, <1>3, UpdateKeepsRecords
<1>5. /\ \A q \in Procs \ {o} : job'[q] = job[q]
      /\ ~Readable(o) => job' = job
      /\ Readable(o) => job'[o] # NoJob /\ job'[o].rec.status = last[o].status
  BY <1>0, <1>2, <1>3, ReadAndChangeNew
<1>6. StartedSaysPending' /\ DoneSaysVerdict'
  BY <1>0, <1>1, <1>5 DEF SInv, OnCourse, StartedSaysPending, DoneSaysVerdict
<1>7. BodySaysExpected' /\ UnnamedOnTrack'
  BY <1>0, <1>1, <1>5 DEF SInv, OnCourse, BodySaysExpected, UnnamedOnTrack,
                          Expected, Readable
<1>8. QED
  BY <1>4, <1>6, <1>7 DEF SInv, OnCourse

LEMMA EndKeepsSInv ==
    ASSUME SInv, IInv', NEW o \in Ops, EndBody(o) PROVE SInv'
<1>0. TypeOK /\ Ops \subseteq Procs /\ Cancellers \subseteq Procs
      /\ o \notin Cancellers
  BY SoundTypes
<1>1. /\ pc[o] = "body" /\ pc'[o] = "done" /\ job[o] = NoJob
      /\ \A q \in Procs \ {o} : pc'[q] = pc[q]
      /\ UNCHANGED <<file, last, sent, named>>
  BY <1>0 DEF EndBody, TypeOK
<1>2. PICK how \in {"ok", "error", "panic"} : ReadAndChange(o, o, Verdict(how, file[o]))
  BY DEF EndBody
<1>3. Readable(o) => /\ Verdict(how, file[o]) \in Record
                     /\ Verdict(how, file[o]).status \in {"completed", "failed"}
  BY VerdictRecord DEF Readable
<1>4. NewIsUntouched' /\ CancelsAreNamed' /\ EventsAnnounce' /\ Alone'
  BY <1>0, <1>1, <1>2, <1>3, UpdateKeepsRecords
<1>5. /\ \A q \in Procs \ {o} : job'[q] = job[q]
      /\ ~Readable(o) => job' = job
      /\ Readable(o) => job'[o] # NoJob /\ job'[o].rec.status \in {"completed", "failed"}
  BY <1>0, <1>2, <1>3, ReadAndChangeNew
<1>6. StartedSaysPending' /\ DoneSaysVerdict'
  BY <1>0, <1>1, <1>5 DEF SInv, OnCourse, StartedSaysPending, DoneSaysVerdict,
                          BodySaysExpected
<1>7. BodySaysExpected' /\ UnnamedOnTrack'
  BY <1>0, <1>1, <1>5 DEF SInv, OnCourse, BodySaysExpected, UnnamedOnTrack, Readable, Expected
<1>8. QED
  BY <1>4, <1>6, <1>7 DEF SInv, OnCourse

LEMMA CancelKeepsSInv ==
    ASSUME SInv, IInv', NEW c \in Cancellers, NEW o \in Ops, Cancel(c, o) PROVE SInv'
<1>0. TypeOK /\ Ops \subseteq Procs /\ c \in Procs /\ c \notin Ops
  BY SoundTypes
<1>1. /\ \A q \in Procs \ {c} : pc'[q] = pc[q]
      /\ UNCHANGED <<file, last, sent>> /\ named' = named \cup {o}
      /\ ReadAndChange(c, o, WithStatus(file[o], "cancelled"))
  BY <1>0 DEF Cancel, TypeOK
<1>2. Readable(o) => WithStatus(file[o], "cancelled") \in Record
  BY ChangedRecord DEF Readable, Terminal, Full
<1>3. NewIsUntouched' /\ CancelsAreNamed' /\ EventsAnnounce' /\ Alone'
  BY <1>0, <1>1, <1>2, UpdateKeepsRecords
<1>4. \A q \in Ops : job'[q] = job[q] /\ pc'[q] = pc[q]
  BY <1>0, <1>1, <1>2, ReadAndChangeNew
<1>5. OnCourse'
  BY <1>1, <1>4 DEF SInv, OnCourse, StartedSaysPending, BodySaysExpected,
                    DoneSaysVerdict, UnnamedOnTrack, Readable, Expected
<1>6. QED
  BY <1>3, <1>5 DEF SInv

LEMMA TruncateKeepsSInv ==
    ASSUME SInv, IInv', NEW p \in Procs, Truncate(p) PROVE SInv'
<1> DEFINE o == job[p].op
<1>0. /\ TypeOK /\ Ops \subseteq Procs /\ Cancellers \subseteq Procs
      /\ \A c \in Cancellers : c \notin Ops
      /\ Empty # NoFile /\ Empty \notin Record
  BY SoundTypes
<1>1. job[p] # NoJob /\ job[p] \in Job /\ o \in Ops /\ job[p].stage = "truncate"
  BY <1>0, SoundTypes DEF Truncate
<1>2. /\ \A q \in Procs \ {p} : job'[q] = job[q]
      /\ \A q \in Ops \ {o} : file'[q] = file[q]
      /\ file'[o] = Empty
      /\ job'[p] = [job[p] EXCEPT !.stage = "fill"]
      /\ UNCHANGED <<pc, last, sent, named>>
  BY <1>0, <1>1 DEF Truncate, TypeOK
<1>3. \A q \in Procs : /\ job'[q] # NoJob <=> job[q] # NoJob
                       /\ job'[q] # NoJob =>
                            /\ job'[q].op = job[q].op
                            /\ job'[q].rec = job[q].rec
                            /\ job'[q].event = job[q].event
                       /\ q # p => job'[q] = job[q]
  <2>1. job'[p] \in Job
    BY <1>1, <1>2 DEF Job
  <2>2. job'[p] # NoJob
    BY <2>1, OpsAssumption
  <2>3. QED
    BY <1>1, <1>2, <2>2 DEF Job
<1>4. p = o \/ (p \in Cancellers /\ o \in named /\ last[o] # NoRecord)
  BY <1>1 DEF SInv, IInv, JobsHaveOwners, CancelsAreNamed, Procs
<1>5. pc[o] # "new" /\ file[o] # NoFile
  BY <1>0, <1>1, <1>4 DEF SInv, NewIsUntouched
<1>6. NewIsUntouched'
  BY <1>0, <1>2, <1>3, <1>5 DEF SInv, NewIsUntouched
<1>7. CancelsAreNamed' /\ EventsAnnounce'
  BY <1>0, <1>2, <1>3 DEF SInv, CancelsAreNamed, EventsAnnounce, EventFits
<1>8. FillMeetsEmpty'
  BY <1>0, <1>1, <1>2, <1>3, <1>4 DEF SInv, Alone, FillMeetsEmpty
<1>9. UnreadableIsTransient'
  BY <1>0, <1>1, <1>2, <1>3, <1>4 DEF SInv, Alone, UnreadableIsTransient, Readable
<1>10. EventFollowsRecord'
  \* no event went out for an operation that still has a write to make
  <2>1. o \notin named => "operation:completed" \notin sent[o]
                          /\ "operation:failed" \notin sent[o]
    <3> SUFFICES ASSUME o \notin named, \/ "operation:completed" \in sent[o]
                                        \/ "operation:failed" \in sent[o]
                 PROVE FALSE
      OBVIOUS
    <3>1. Readable(o) /\ file[o].status \in {"completed", "failed"}
      BY <1>1 DEF SInv, Alone, EventFollowsRecord
    <3>2. last[o] # NoRecord /\ last[o].status \in {"completed", "failed"}
      BY <1>1, <3>1, SoundTypes
    <3>3. job[o] = NoJob
      BY <1>1, <3>2 DEF SInv, IInv, QuietWhenDecided
    <3>4. QED
      BY <1>1, <1>4, <3>3
  <2>2. QED
    BY <1>2, <2>1 DEF SInv, Alone, EventFollowsRecord, Readable
<1>11. StartedSaysPending'
  BY <1>0, <1>1, <1>2, <1>3 DEF SInv, OnCourse, StartedSaysPending
<1>12. BodySaysExpected'
  BY <1>0, <1>2, <1>3 DEF SInv, OnCourse, BodySaysExpected, Readable, Expected
<1>13. DoneSaysVerdict' /\ UnnamedOnTrack'
  BY <1>0, <1>2, <1>3 DEF SInv, OnCourse, DoneSaysVerdict, UnnamedOnTrack, Expected
<1>14. QED
  BY <1>6, <1>7, <1>8, <1>9, <1>10, <1>11, <1>12, <1>13 DEF SInv, Alone, OnCourse

(* What a fill leaves: the record of its job, or garbage; never garbage    *)
(* for an operation nobody cancels.  A cancel request fills "cancelled".   *)
LEMMA FillEffect ==
    ASSUME SInv, NEW p \in Procs, Fill(p)
    PROVE  LET o == job[p].op
               r == job[p].rec
           IN  /\ job[p] # NoJob /\ o \in Ops /\ r \in Record /\ job[p].stage = "fill"
               /\ \A q \in Procs \ {p} : job'[q] = job[q]
               /\ job'[p] = NoJob
               /\ \A q \in Ops \ {o} : /\ file'[q] = file[q] /\ last'[q] = last[q]
                                       /\ sent'[q] = sent[q]
               /\ \/ file'[o] = r /\ last'[o] = r /\ last' = [last EXCEPT ![o] = r]
                  \/ /\ file'[o] = Garbage /\ last' = last
                     /\ o \in named /\ file[o] # Empty
               /\ sent'[o] \subseteq sent[o] \cup {job[p].event}
               /\ \/ p = o
                  \/ /\ p \in Cancellers /\ o \in named
                     /\ last[o] # NoRecord /\ r.status = "cancelled"
               /\ UNCHANGED <<pc, named>>
<1> DEFINE o == job[p].op
           r == job[p].rec
<1>0. TypeOK /\ Ops \subseteq Procs /\ Garbage \notin Record
  BY SoundTypes
<1>1. job[p] # NoJob /\ o \in Ops /\ r \in Record /\ job[p].stage = "fill"
  BY <1>0, SoundTypes DEF Fill
<1>2. /\ \A q \in Procs \ {p} : job'[q] = job[q]
      /\ job'[p] = NoJob
      /\ UNCHANGED <<pc, named>>
  BY <1>0 DEF Fill, TypeOK
<1>3. PICK c \in Filled(o, r) :
        /\ file' = [file EXCEPT ![o] = c]
        /\ last' = IF c = Garbage THEN last ELSE [last EXCEPT ![o] = c]
  BY DEF Fill
<1>4. c = r \/ (c = Garbage /\ file[o] # Empty)
  BY <1>3 DEF Filled
<1>5. /\ \A q \in Ops \ {o} : file'[q] = file[q] /\ last'[q] = last[q]
      /\ file'[o] = c
      /\ c = r => last' = [last EXCEPT ![o] = r] /\ last'[o] = r
      /\ c = Garbage => last' = last
  BY <1>0, <1>1, <1>3 DEF TypeOK
<1>6. /\ \A q \in Ops \ {o} : sent'[q] = sent[q]
      /\ sent'[o] \subseteq sent[o] \cup {job[p].event}
  BY <1>0, <1>1 DEF Fill, TypeOK
<1>7. \/ p = o
      \/ p \in Cancellers /\ o \in named /\ last[o] # NoRecord /\ r.status = "cancelled"
  BY <1>1 DEF SInv, IInv, JobsHaveOwners, CancelsAreNamed, Procs
<1>8. c = Garbage => o \in named
  BY <1>0, <1>1, <1>4, <1>7 DEF SInv, Alone, FillMeetsEmpty
<1>9. QED
  BY <1>1, <1>2, <1>4, <1>5, <1>6, <1>7, <1>8

LEMMA FillKeepsSInv ==
    ASSUME SInv, IInv', NEW p \in Procs, Fill(p) PROVE SInv'
<1> DEFINE o == job[p].op
           r == job[p].rec
<1>0. /\ TypeOK /\ Ops \subseteq Procs /\ Cancellers \subseteq Procs
      /\ \A c \in Cancellers : c \notin Ops
      /\ NoFile \notin Record /\ NoFile # Garbage /\ Garbage \notin Record
      /\ NoRecord \notin Record
      /\ \A q \in Procs : job[q] # NoJob => job[q].op \in Ops
  BY SoundTypes, OpsAssumption
<1>1. /\ job[p] # NoJob /\ o \in Ops /\ r \in Record /\ job[p].stage = "fill"
      /\ \A q \in Procs \ {p} : job'[q] = job[q]
      /\ job'[p] = NoJob
      /\ \A q \in Ops \ {o} : /\ file'[q] = file[q] /\ last'[q] = last[q]
                              /\ sent'[q] = sent[q]
      /\ \/ file'[o] = r /\ last'[o] = r
         \/ /\ file'[o] = Garbage /\ last'[o] = last[o]
            /\ o \in named /\ file[o] # Empty
      /\ sent'[o] \subseteq sent[o] \cup {job[p].event}
      /\ \/ p = o
         \/ /\ p \in Cancellers /\ o \in named
            /\ last[o] # NoRecord /\ r.status = "cancelled"
      /\ UNCHANGED <<pc, named>>
  BY FillEffect
<1>2. pc[o] # "new" /\ file'[o] # NoFile
  <2>1. pc[o] # "new"
    BY <1>1 DEF SInv, NewIsUntouched
  <2>2. file'[o] # NoFile
    BY <1>0, <1>1
  <2>3. QED
    BY <2>1, <2>2
<1>3. NewIsUntouched'
  BY <1>0, <1>1, <1>2 DEF SInv, NewIsUntouched
<1>4. CancelsAreNamed' /\ EventsAnnounce'
  <2>1. \A q \in Ops : last[q] # NoRecord => last'[q] # NoRecord
    BY <1>0, <1>1
  <2>2. QED
    BY <1>0, <1>1, <2>1 DEF SInv, CancelsAreNamed, EventsAnnounce
<1>5. FillMeetsEmpty' /\ UnreadableIsTransient'
  BY <1>0, <1>1 DEF SInv, Alone, FillMeetsEmpty, UnreadableIsTransient, Readable
<1>6. EventFollowsRecord'
  <2> SUFFICES ASSUME NEW q \in Ops \ named
               PROVE  /\ "operation:completed" \in sent'[q]
                           => file'[q] \in Record /\ file'[q].status = "completed"
                      /\ "operation:failed" \in sent'[q]
                           => file'[q] \in Record /\ file'[q].status = "failed"
    BY <1>1 DEF EventFollowsRecord, Readable
  <2>1. CASE q # o
    BY <1>1, <2>1 DEF SInv, Alone, EventFollowsRecord, Readable
  <2>2. CASE q = o
    <3>1. p = o /\ file'[o] = r
      BY <1>1, <2>2
    <3>2. "operation:completed" \notin sent[o] /\ "operation:failed" \notin sent[o]
      <4> SUFFICES ASSUME \/ "operation:completed" \in sent[o]
                          \/ "operation:failed" \in sent[o]
                   PROVE FALSE
        OBVIOUS
      <4>1. Readable(o) /\ file[o].status \in {"completed", "failed"}
        BY <1>1, <2>2 DEF SInv, Alone, EventFollowsRecord
      <4>2. last[o] # NoRecord /\ last[o].status \in {"completed", "failed"}
        BY <1>1, <4>1, SoundTypes
      <4>3. QED
        BY <1>1, <3>1, <4>2 DEF SInv, IInv, QuietWhenDecided
    <3>3. EventFits(job[p])
      BY <1>1 DEF SInv, EventsAnnounce
    <3>4. QED
      BY <1>1, <2>2, <3>1, <3>2, <3>3 DEF EventFits
  <2>3. QED
    BY <2>1, <2>2
<1>7. StartedSaysPending'
  <2> SUFFICES ASSUME NEW q \in Ops, pc[q] = "scheduled"
               PROVE  /\ job'[q] # NoJob =>
                           /\ job'[q].stage = "fill" /\ job'[q].rec.status = "pending"
                           /\ file'[q] = Empty /\ last'[q] = NoRecord
                      /\ job'[q] = NoJob =>
                           /\ last'[q] # NoRecord
                           /\ last'[q].status \in {"pending", "cancelled"}
    BY <1>1 DEF StartedSaysPending
  <2>1. CASE q # o
    <3>1. job'[q] = job[q]
      BY <1>0, <1>1, <2>1 DEF SInv, IInv, JobsHaveOwners
    <3>2. QED
      BY <1>1, <2>1, <3>1 DEF SInv, OnCourse, StartedSaysPending
  <2>2. CASE q = o /\ p = o
    BY <1>0, <1>1, <2>2 DEF SInv, OnCourse, StartedSaysPending
  <2>3. CASE q = o /\ p # o
    BY <1>0, <1>1, <2>3 DEF SInv, OnCourse, StartedSaysPending
  <2>4. QED
    BY <2>1, <2>2, <2>3
<1>8. BodySaysExpected'
  BY <1>0, <1>1 DEF SInv, OnCourse, BodySaysExpected, Readable, Expected
<1>9. DoneSaysVerdict'
  BY <1>0, <1>1 DEF SInv, OnCourse, DoneSaysVerdict
<1>10. UnnamedOnTrack'
  <2> SUFFICES ASSUME NEW q \in Ops \ named
               PROVE  /\ pc[q] = "scheduled" /\ job'[q] = NoJob => last'[q].status = "pending"
                      /\ pc[q] = "body" /\ job'[q] = NoJob => last'[q].status = Expected(q)
                      /\ pc[q] = "body" /\ job'[q] # NoJob => job'[q].rec.status = Expected(q)
                      /\ pc[q] = "done" /\ job'[q] # NoJob => last'[q].status = Expected(q)
    BY <1>1 DEF UnnamedOnTrack, Expected
  <2>1. CASE q # o
    BY <1>0, <1>1, <2>1 DEF SInv, OnCourse, UnnamedOnTrack, JobsHaveOwners, IInv
  <2>2. CASE q = o
    BY <1>0, <1>1, <2>2 DEF SInv, OnCourse, UnnamedOnTrack, StartedSaysPending
  <2>3. QED
    BY <2>1, <2>2
<1>11. QED
  BY <1>3, <1>4, <1>5, <1>6, <1>7, <1>8, <1>9, <1>10 DEF SInv, Alone, OnCourse

LEMMA CrashKeepsSInv ==
    ASSUME SInv, IInv', Crash PROVE SInv'
<1>0. TypeOK /\ Ops \subseteq Procs /\ Cancellers \subseteq Procs
  BY SoundTypes
<1>1. /\ \A q \in Procs :
           /\ job'[q] = NoJob
           /\ pc'[q] = IF job[q] # NoJob \/ pc[q] \in {"scheduled", "body"}
                       THEN "dead" ELSE pc[q]
      /\ UNCHANGED <<file, last, sent, named>>
  BY DEF Crash
<1>2. NewIsUntouched'
  BY <1>0, <1>1 DEF SInv, NewIsUntouched
<1>3. CancelsAreNamed' /\ EventsAnnounce'
  BY <1>0, <1>1 DEF CancelsAreNamed, EventsAnnounce
<1>4. FillMeetsEmpty' /\ UnreadableIsTransient' /\ EventFollowsRecord'
  BY <1>0, <1>1 DEF SInv, Alone, FillMeetsEmpty, UnreadableIsTransient,
                    EventFollowsRecord, Readable
<1>5. StartedSaysPending' /\ BodySaysExpected' /\ DoneSaysVerdict' /\ UnnamedOnTrack'
  BY <1>0, <1>1 DEF SInv, OnCourse, StartedSaysPending, BodySaysExpected,
                    DoneSaysVerdict, UnnamedOnTrack
<1>6. QED
  BY <1>2, <1>3, <1>4, <1>5 DEF SInv, Alone, OnCourse

LEMMA NextKeepsSInv == SInv /\ [Next]_vars => SInv'
<1> SUFFICES ASSUME SInv, [Next]_vars PROVE SInv'
  OBVIOUS
<1>0. IInv' /\ Ops \subseteq Procs /\ Cancellers \subseteq Procs
  BY NextKeepsIInv, SoundTypes DEF SInv
<1>1. CASE UNCHANGED vars
  <2>1. NewIsUntouched' /\ CancelsAreNamed' /\ EventsAnnounce'
    BY <1>1 DEF vars, SInv, NewIsUntouched, CancelsAreNamed, EventsAnnounce
  <2>2. Alone'
    BY <1>1 DEF vars, SInv, Alone, FillMeetsEmpty, UnreadableIsTransient,
                EventFollowsRecord, Readable
  <2>3. OnCourse'
    BY <1>1 DEF vars, SInv, OnCourse, StartedSaysPending, BodySaysExpected,
                DoneSaysVerdict, UnnamedOnTrack, Readable
  <2>4. QED
    BY <1>0, <2>1, <2>2, <2>3 DEF SInv
<1>2. QED
  BY <1>0, <1>1, StartKeepsSInv, BeginKeepsSInv, ReportKeepsSInv, EndKeepsSInv,
     CancelKeepsSInv, TruncateKeepsSInv, FillKeepsSInv, CrashKeepsSInv
     DEF Next, Worker, Canceller

(* A client that hears of the end of a bootstrap and then fetches the      *)
(* record finds what it was told, and a record nobody can read belongs to  *)
(* a write under way or cut short, unless the operation was cancelled.     *)
THEOREM RecordsStaySound == Spec => []RecordsAreSound
<1>1. Spec => []SInv
  BY InitSInv, NextKeepsSInv, PTL DEF Spec
<1>2. SInv => RecordsAreSound
  BY DEF SInv, IInv, Alone, RecordsAreSound
<1>3. QED
  BY <1>1, <1>2, PTL

-----------------------------------------------------------------------------
(* The records implement the life cycle: what a client may rely on when it *)
(* reads a record is all that OperationLifecycle promises of it.           *)

Says == [o \in Ops |-> IF last[o] = NoRecord THEN "none" ELSE last[o].status]

Stage ==
    [o \in Ops |->
       IF pc[o] = "new" THEN "new"
       ELSE IF pc[o] = "dead" THEN "lost"
       ELSE IF pc[o] = "done" /\ job[o] = NoJob THEN "settled"
       ELSE "at work"]

(* The actions of the life cycle, read through the mapping.                *)
LEMMA MappedActions ==
    ASSUME NEW o \in Ops
    PROVE  /\ Lifecycle!vars = <<Says, Stage, named>>
           /\ Lifecycle!Submit(o) <=>
                /\ Stage[o] = "new"
                /\ Stage' = [Stage EXCEPT ![o] = "at work"]
                /\ UNCHANGED <<Says, named>>
           /\ \A s : Lifecycle!Say(o, s) <=>
                /\ Stage[o] = "at work"
                /\ \/ Says[o] = "none" /\ s = "pending"
                   \/ Says[o] = "pending" /\ s = "running" /\ o \notin Bootstraps
                   \/ Says[o] = "cancelled" /\ s = Expected(o)
                /\ Says' = [Says EXCEPT ![o] = s]
                /\ UNCHANGED <<Stage, named>>
           /\ Lifecycle!Settle(o) <=>
                /\ Stage[o] = "at work"
                /\ Stage' = [Stage EXCEPT ![o] = "settled"]
                /\ \/ /\ Says[o] = Expected(o) \/ o \in named
                      /\ \E v \in {"completed", "failed"} :
                           Says' = [Says EXCEPT ![o] = v]
                   \/ o \in named /\ UNCHANGED Says
                /\ UNCHANGED named
           /\ Lifecycle!Name(o) <=>
                /\ Stage[o] # "new"
                /\ named' = named \cup {o}
                /\ UNCHANGED <<Says, Stage>>
           /\ Lifecycle!Cancel(o) <=>
                /\ o \in named
                /\ Says[o] # "none"
                /\ Says' = [Says EXCEPT ![o] = "cancelled"]
                /\ UNCHANGED <<Stage, named>>
           /\ Lifecycle!Crash <=>
                /\ Stage' = [q \in Ops |-> IF Stage[q] = "at work" THEN "lost" ELSE Stage[q]]
                /\ UNCHANGED <<Says, named>>
<1>1. Lifecycle!vars = <<Says, Stage, named>>
  BY DEF Lifecycle!vars, Says, Stage
<1>2. Lifecycle!Submit(o) <=>
        /\ Stage[o] = "new"
        /\ Stage' = [Stage EXCEPT ![o] = "at work"]
        /\ UNCHANGED <<Says, named>>
  BY DEF Lifecycle!Submit, Says, Stage
<1>3. \A s : Lifecycle!Say(o, s) <=>
        /\ Stage[o] = "at work"
        /\ \/ Says[o] = "none" /\ s = "pending"
           \/ Says[o] = "pending" /\ s = "running" /\ o \notin Bootstraps
           \/ Says[o] = "cancelled" /\ s = Expected(o)
        /\ Says' = [Says EXCEPT ![o] = s]
        /\ UNCHANGED <<Stage, named>>
  BY DEF Lifecycle!Say, Says, Stage, Expected
<1>4. Lifecycle!Settle(o) <=>
        /\ Stage[o] = "at work"
        /\ Stage' = [Stage EXCEPT ![o] = "settled"]
        /\ \/ /\ Says[o] = Expected(o) \/ o \in named
              /\ \E v \in {"completed", "failed"} :
                   Says' = [Says EXCEPT ![o] = v]
           \/ o \in named /\ UNCHANGED Says
        /\ UNCHANGED named
  BY DEF Lifecycle!Settle, Lifecycle!Outcomes, Says, Stage, Expected
<1>5. Lifecycle!Name(o) <=>
        /\ Stage[o] # "new"
        /\ named' = named \cup {o}
        /\ UNCHANGED <<Says, Stage>>
  BY DEF Lifecycle!Name, Says, Stage
<1>6. Lifecycle!Cancel(o) <=>
        /\ o \in named
        /\ Says[o] # "none"
        /\ Says' = [Says EXCEPT ![o] = "cancelled"]
        /\ UNCHANGED <<Stage, named>>
  BY DEF Lifecycle!Cancel, Says, Stage
<1>7. Lifecycle!Crash <=>
        /\ Stage' = [q \in Ops |-> IF Stage[q] = "at work" THEN "lost" ELSE Stage[q]]
        /\ UNCHANGED <<Says, named>>
  BY DEF Lifecycle!Crash, Says, Stage
<1>8. QED
  BY <1>1, <1>2, <1>3, <1>4, <1>5, <1>6, <1>7

(* What is seen of an operation follows from its own record and worker.    *)
LEMMA SeenOf ==
    ASSUME NEW o \in Ops
    PROVE  /\ Says[o] = IF last[o] = NoRecord THEN "none" ELSE last[o].status
           /\ Says'[o] = IF last'[o] = NoRecord THEN "none" ELSE last'[o].status
           /\ Stage[o] = IF pc[o] = "new" THEN "new"
                         ELSE IF pc[o] = "dead" THEN "lost"
                         ELSE IF pc[o] = "done" /\ job[o] = NoJob THEN "settled"
                         ELSE "at work"
           /\ Stage'[o] = IF pc'[o] = "new" THEN "new"
                          ELSE IF pc'[o] = "dead" THEN "lost"
                          ELSE IF pc'[o] = "done" /\ job'[o] = NoJob THEN "settled"
                          ELSE "at work"
           /\ \A q : Says' = [Says EXCEPT ![o] = q] <=>
                 Says'[o] = q /\ \A x \in Ops \ {o} : Says'[x] = Says[x]
           /\ \A q : Stage' = [Stage EXCEPT ![o] = q] <=>
                 Stage'[o] = q /\ \A x \in Ops \ {o} : Stage'[x] = Stage[x]
           /\ (\A x \in Ops : Says'[x] = Says[x]) => Says' = Says
           /\ (\A x \in Ops : Stage'[x] = Stage[x]) => Stage' = Stage
<1>1. Says = [x \in Ops |-> Says[x]] /\ Says' = [x \in Ops |-> Says'[x]]
  BY DEF Says
<1>2. Stage = [x \in Ops |-> Stage[x]] /\ Stage' = [x \in Ops |-> Stage'[x]]
  BY DEF Stage
<1>3. /\ \A q : Says' = [Says EXCEPT ![o] = q] <=>
            Says'[o] = q /\ \A x \in Ops \ {o} : Says'[x] = Says[x]
      /\ (\A x \in Ops : Says'[x] = Says[x]) => Says' = Says
  BY <1>1
<1>4. /\ \A q : Stage' = [Stage EXCEPT ![o] = q] <=>
            Stage'[o] = q /\ \A x \in Ops \ {o} : Stage'[x] = Stage[x]
      /\ (\A x \in Ops : Stage'[x] = Stage[x]) => Stage' = Stage
  BY <1>2
<1>5. QED
  BY <1>3, <1>4 DEF Says, Stage

(* Steps that change neither a readable record nor how far a worker is     *)
(* are not seen.                                                           *)
LEMMA NotSeen ==
    ASSUME UNCHANGED <<last, named>>,
           \A o \in Ops : Stage'[o] = Stage[o]
    PROVE  UNCHANGED Lifecycle!vars
<1>1. Says' = Says
  BY DEF Says
<1>2. Stage' = Stage
  BY DEF Stage
<1>3. QED
  BY <1>1, <1>2 DEF Lifecycle!vars, Says, Stage

(* A worker's last read finds a record it can change, or a file that a     *)
(* cancel request left unreadable: then its verdict is lost.               *)
LEMMA EndIsSeen ==
    ASSUME SInv, SInv', NEW o \in Ops, EndBody(o)
    PROVE  Lifecycle!Settle(o) \/ UNCHANGED Lifecycle!vars
<1>0. TypeOK /\ Ops \subseteq Procs
  BY SoundTypes
<1>1. /\ pc[o] = "body" /\ pc'[o] = "done" /\ job[o] = NoJob
      /\ \A q \in Procs \ {o} : pc'[q] = pc[q]
      /\ UNCHANGED <<file, last, sent, named>>
  BY <1>0 DEF EndBody, TypeOK
<1>2. PICK how \in {"ok", "error", "panic"} : ReadAndChange(o, o, Verdict(how, file[o]))
  BY DEF EndBody
<1>3. Readable(o) => Verdict(how, file[o]) \in Record
  BY VerdictRecord DEF Readable
<1>4. /\ \A q \in Procs \ {o} : job'[q] = job[q]
      /\ ~Readable(o) => job' = job
      /\ Readable(o) => job'[o] # NoJob
  BY <1>0, <1>2, <1>3, ReadAndChangeNew
<1>5. \A q \in Ops \ {o} : Stage'[q] = Stage[q]
  BY <1>0, <1>1, <1>4 DEF Stage
<1>6. CASE Readable(o)
  <2>1. Stage'[o] = Stage[o]
    BY <1>1, <1>4, <1>6 DEF Stage
  <2>2. QED
    BY <1>1, <1>5, <2>1, NotSeen
<1>7. CASE ~Readable(o)
  <2>1. o \in named
    BY <1>1, <1>7, UnnamedIsReadable
  <2>2. Stage[o] = "at work" /\ Stage' = [Stage EXCEPT ![o] = "settled"]
    BY <1>1, <1>4, <1>5, <1>7, SeenOf
  <2>3. UNCHANGED <<Says, named>>
    BY <1>1 DEF Says
  <2>4. QED
    BY <2>1, <2>2, <2>3, MappedActions
<1>8. QED
  BY <1>6, <1>7

(* A fill is where the life cycle moves: the worker says where it is or    *)
(* settles, or the operation says cancelled.                               *)
LEMMA FillIsSeen ==
    ASSUME SInv, SInv', NEW p \in Procs, Fill(p)
    PROVE  \/ \E o \in Ops : \/ Lifecycle!Settle(o) \/ Lifecycle!Cancel(o)
                             \/ \E s \in {"pending", "running"} : Lifecycle!Say(o, s)
           \/ UNCHANGED Lifecycle!vars
<1>0. /\ TypeOK /\ Ops \subseteq Procs
      /\ \A c \in Cancellers : c \notin Ops
      /\ NoRecord \notin Record
  BY SoundTypes, OpsAssumption
<1>a. PICK o \in Ops, r \in Record :
        /\ o = job[p].op /\ r = job[p].rec
        /\ job[p] # NoJob /\ job[p].stage = "fill"
        /\ \A q \in Procs \ {p} : job'[q] = job[q]
        /\ job'[p] = NoJob
        /\ \A q \in Ops \ {o} : last'[q] = last[q]
        /\ \/ last'[o] = r
           \/ last' = last /\ o \in named /\ file[o] # Empty
        /\ \/ p = o
           \/ /\ p \in Cancellers /\ o \in named
              /\ last[o] # NoRecord /\ r.status = "cancelled"
        /\ UNCHANGED <<pc, named>>
  BY FillEffect
<1>1. /\ p \in Procs /\ o \in Ops /\ r \in Record
      /\ o = job[p].op /\ r = job[p].rec
      /\ job[p] # NoJob /\ job[p].stage = "fill"
      /\ \A q \in Procs \ {p} : job'[q] = job[q]
      /\ job'[p] = NoJob
      /\ \A q \in Ops \ {o} : last'[q] = last[q]
      /\ \/ last'[o] = r
         \/ last' = last /\ o \in named /\ file[o] # Empty
      /\ \/ p = o
         \/ /\ p \in Cancellers /\ o \in named
            /\ last[o] # NoRecord /\ r.status = "cancelled"
      /\ UNCHANGED <<pc, named>>
  BY <1>a
<1>2. r # NoRecord
  BY <1>0, <1>1
<1>3. \A q \in Ops \ {o} : Says'[q] = Says[q] /\ Stage'[q] = Stage[q]
  <2>1. \A q \in Ops \ {o} : job'[q] = job[q] \/ q = p
    BY <1>0, <1>1
  <2>2. \A q \in Ops \ {o} : q # p
    BY <1>0, <1>1
  <2>3. QED
    BY <1>1, <2>1, <2>2 DEF Says, Stage
<1>s. /\ Says[o] = IF last[o] = NoRecord THEN "none" ELSE last[o].status
      /\ Says'[o] = IF last'[o] = NoRecord THEN "none" ELSE last'[o].status
      /\ pc[o] \in {"scheduled", "body"} \/ (pc[o] = "done" /\ job[o] # NoJob)
           => Stage[o] = "at work"
      /\ pc'[o] \in {"scheduled", "body"} => Stage'[o] = "at work"
      /\ pc'[o] = "done" /\ job'[o] = NoJob => Stage'[o] = "settled"
  BY <1>1, SeenOf
<1>e. /\ \A s : Says'[o] = s => Says' = [Says EXCEPT ![o] = s]
      /\ \A s : Stage'[o] = s => Stage' = [Stage EXCEPT ![o] = s]
      /\ Says'[o] = Says[o] => Says' = Says
      /\ Stage'[o] = Stage[o] => Stage' = Stage
  <2>1. Says = [x \in Ops |-> Says[x]] /\ Says' = [x \in Ops |-> Says'[x]]
    BY DEF Says
  <2>2. Stage = [x \in Ops |-> Stage[x]] /\ Stage' = [x \in Ops |-> Stage'[x]]
    BY DEF Stage
  <2>3. QED
    BY <1>1, <1>3, <2>1, <2>2
<1>m. /\ UNCHANGED <<Says, Stage, named>> => UNCHANGED Lifecycle!vars
      /\ \A s : /\ Stage[o] = "at work"
               /\ \/ Says[o] = "none" /\ s = "pending"
                  \/ Says[o] = "pending" /\ s = "running" /\ o \notin Bootstraps
                  \/ Says[o] = "cancelled" /\ s = Expected(o)
               /\ Says' = [Says EXCEPT ![o] = s]
               /\ UNCHANGED <<Stage, named>>
               => Lifecycle!Say(o, s)
      /\ /\ o \in named
         /\ Says[o] # "none"
         /\ Says' = [Says EXCEPT ![o] = "cancelled"]
         /\ UNCHANGED <<Stage, named>>
         => Lifecycle!Cancel(o)
  BY <1>1, MappedActions DEF Lifecycle!vars, Says, Stage
<1>4. CASE p \in Cancellers
  <2>1. Stage'[o] = Stage[o]
    BY <1>0, <1>1, <1>4 DEF Stage
  <2>2. CASE last' = last
    BY <1>1, <1>3, <2>1, <2>2, NotSeen
  <2>3. CASE last'[o] = r
    <3>1. Says'[o] = "cancelled" /\ Says[o] # "none"
      <4>1. r.status = "cancelled" /\ last[o] # NoRecord /\ last[o] \in Record
        BY <1>0, <1>1, <1>4 DEF TypeOK
      <4>2. last[o].status # "none"
        BY <4>1 DEF Record, Open, Terminal
      <4>3. QED
        BY <1>2, <1>s, <2>3, <4>1, <4>2
    <3>2. Says' = [Says EXCEPT ![o] = "cancelled"] /\ UNCHANGED Stage
      BY <1>1, <2>1, <3>1, <1>e
    <3>3. QED
      BY <1>0, <1>1, <1>4, <1>m, <3>1, <3>2
  <2>4. QED
    BY <1>1, <2>2, <2>3
<1>5. CASE p = o
  <2>1. pc[o] \in {"scheduled", "body", "done"}
    BY <1>0, <1>1, <1>5 DEF SInv, NewIsUntouched, OnCourse, DoneSaysVerdict, TypeOK
  <2>2. Stage[o] = "at work"
    BY <1>1, <1>5, <1>s, <2>1
  <2>3. CASE pc[o] = "scheduled"
    <3>1. last[o] = NoRecord /\ r.status = "pending" /\ file[o] = Empty
      BY <1>1, <1>5, <2>3 DEF SInv, OnCourse, StartedSaysPending
    <3>2. Says[o] = "none" /\ Says'[o] = "pending" /\ Stage'[o] = Stage[o]
      BY <1>1, <1>2, <1>s, <2>2, <2>3, <3>1
    <3>3. Says' = [Says EXCEPT ![o] = "pending"] /\ UNCHANGED Stage
      BY <1>e, <3>2
    <3>4. Lifecycle!Say(o, "pending")
      BY <1>1, <1>m, <2>2, <3>2, <3>3
    <3>5. QED
      BY <1>1, <3>4
  <2>4. CASE pc[o] = "body"
    <3>1. Stage'[o] = Stage[o]
      BY <1>1, <1>s, <2>2, <2>4
    <3>2. UNCHANGED Stage
      BY <1>e, <3>1
    <3>3. CASE last' = last
      BY <1>1, <3>2, <3>3, NotSeen
    <3>4. CASE last'[o] = r
      <4>1. /\ last[o] # NoRecord
            /\ last[o].status \in {"pending", Expected(o), "cancelled"}
            /\ r.status \in {Expected(o), "cancelled"}
            /\ r.status = "cancelled" => last[o].status = "cancelled"
        BY <1>1, <1>5, <2>4 DEF SInv, OnCourse, BodySaysExpected
      <4>2. Says[o] = last[o].status /\ Says'[o] = r.status
        BY <1>2, <1>s, <3>4, <4>1
      <4>3. CASE r.status = last[o].status
        <5>1. Says' = Says
          BY <1>e, <4>2, <4>3
        <5>2. QED
          BY <1>1, <1>m, <3>2, <5>1
      <4>4. CASE r.status # last[o].status
        <5>1. r.status = Expected(o) /\ last[o].status \in {"pending", "cancelled"}
          BY <4>1, <4>4
        <5>2. Says' = [Says EXCEPT ![o] = Expected(o)]
          BY <1>e, <4>2, <5>1
        <5>3. last[o].status = "pending" => Expected(o) = "running" /\ o \notin Bootstraps
          BY <4>4, <5>1 DEF Expected
        <5>4. Lifecycle!Say(o, Expected(o))
          BY <1>1, <1>m, <2>2, <3>2, <4>2, <5>1, <5>2, <5>3
        <5>5. Expected(o) \in {"pending", "running"}
          BY DEF Expected
        <5>6. QED
          BY <1>1, <5>4, <5>5
      <4>5. QED
        BY <4>3, <4>4
    <3>5. QED
      BY <1>1, <3>3, <3>4
  <2>5. CASE pc[o] = "done"
    <3>1. Stage'[o] = "settled"
      BY <1>1, <1>5, <1>s, <2>5
    <3>2. Stage' = [Stage EXCEPT ![o] = "settled"]
      BY <1>e, <3>1
    <3>3. CASE last' = last /\ o \in named
      <4>1. Says' = Says
        BY <3>3 DEF Says
      <4>2. Lifecycle!Settle(o)
        BY <1>1, <2>2, <3>2, <3>3, <4>1, MappedActions
      <4>3. QED
        BY <1>1, <4>2
    <3>4. CASE last'[o] = r
      <4>1. last[o] # NoRecord /\ r.status \in {"completed", "failed"}
        BY <1>1, <1>5, <2>5 DEF SInv, OnCourse, DoneSaysVerdict
      <4>2. Says' = [Says EXCEPT ![o] = r.status]
        BY <1>2, <1>e, <1>s, <3>4
      <4>3. o \notin named => Says[o] = Expected(o)
        <5>1. o \notin named => last[o].status = Expected(o)
          BY <1>1, <1>5, <2>5 DEF SInv, OnCourse, UnnamedOnTrack
        <5>2. QED
          BY <1>s, <4>1, <5>1
      <4>4. Lifecycle!Settle(o)
        BY <1>1, <2>2, <3>2, <4>1, <4>2, <4>3, MappedActions
      <4>5. QED
        BY <1>1, <4>4
    <3>5. QED
      BY <1>1, <3>3, <3>4
  <2>6. QED
    BY <2>1, <2>3, <2>4, <2>5
<1>6. QED
  BY <1>1, <1>4, <1>5

(* A death of the daemon is one for the life cycle: whoever was at work is *)
(* lost.                                                                   *)
LEMMA CrashIsSeen ==
    ASSUME SInv, Crash, NEW o \in Ops PROVE Lifecycle!Crash
<1>0. TypeOK /\ Ops \subseteq Procs
  BY SoundTypes
<1>1. /\ \A q \in Procs :
           /\ job'[q] = NoJob
           /\ pc'[q] = IF job[q] # NoJob \/ pc[q] \in {"scheduled", "body"}
                       THEN "dead" ELSE pc[q]
      /\ UNCHANGED <<last, named>>
  BY DEF Crash
<1>2. ASSUME NEW q \in Ops
      PROVE  Stage'[q] = IF Stage[q] = "at work" THEN "lost" ELSE Stage[q]
  <2>1. pc[q] \in {"new", "dead"} => job[q] = NoJob
    BY DEF SInv, NewIsUntouched, OnCourse, DoneSaysVerdict
  <2>2. pc[q] \in {"new", "scheduled", "body", "done", "dead"}
    BY <1>0 DEF TypeOK
  <2>3. QED
    BY <1>0, <1>1, <2>1, <2>2 DEF Stage
<1>3. Stage' = [q \in Ops |-> IF Stage[q] = "at work" THEN "lost" ELSE Stage[q]]
  <2>1. Stage' = [q \in Ops |-> Stage'[q]]
    BY DEF Stage
  <2>2. QED
    BY <1>2, <2>1
<1>4. Says' = Says
  BY <1>1 DEF Says
<1>5. QED
  BY <1>1, <1>3, <1>4, MappedActions

(* Every step of the detailed specification is one of the life cycle's or  *)
(* is not seen.                                                            *)
LEMMA StepIsSeen == SInv /\ [Next]_vars => [Lifecycle!Next]_Lifecycle!vars
<1> SUFFICES ASSUME SInv, [Next]_vars PROVE Lifecycle!Next \/ UNCHANGED Lifecycle!vars
  OBVIOUS
<1>0. SInv' /\ TypeOK /\ Ops \subseteq Procs /\ Cancellers \subseteq Procs
      /\ \A c \in Cancellers : c \notin Ops
  BY NextKeepsSInv, SoundTypes
<1>1. ASSUME NEW o \in Ops, Start(o) PROVE Lifecycle!Submit(o)
  <2>1. /\ pc[o] = "new" /\ pc'[o] = "scheduled"
        /\ \A q \in Ops \ {o} : pc'[q] = pc[q] /\ job'[q] = job[q]
        /\ UNCHANGED <<last, named>>
    BY <1>0, <1>1 DEF Start, TypeOK
  <2>2. Stage[o] = "new" /\ Stage'[o] = "at work"
    BY <2>1 DEF Stage
  <2>3. \A q \in Ops \ {o} : Stage'[q] = Stage[q]
    BY <2>1 DEF Stage
  <2>4. Stage' = [Stage EXCEPT ![o] = "at work"]
    BY <2>2, <2>3, SeenOf
  <2>5. Says' = Says
    BY <2>1 DEF Says
  <2>6. QED
    BY <2>1, <2>2, <2>4, <2>5, MappedActions
<1>2. ASSUME NEW o \in Ops, BeginBody(o) \/ ReportProgress(o)
      PROVE  UNCHANGED Lifecycle!vars
  <2>1. /\ pc[o] \in {"scheduled", "body"} /\ pc'[o] \in {"scheduled", "body"}
        /\ \A q \in Ops \ {o} : pc'[q] = pc[q] /\ job'[q] = job[q]
        /\ UNCHANGED <<last, named>>
    BY <1>0, <1>2 DEF BeginBody, ReportProgress, ReadAndChange, TypeOK
  <2>2. \A q \in Ops : Stage'[q] = Stage[q]
    BY <2>1 DEF Stage
  <2>3. QED
    BY <2>1, <2>2, NotSeen
<1>3. ASSUME NEW p \in Procs, Truncate(p) PROVE UNCHANGED Lifecycle!vars
  <2>1. /\ \A q \in Procs : job'[q] # NoJob <=> job[q] # NoJob
        /\ UNCHANGED <<last, named, pc>>
    <3>1. job[p] # NoJob /\ job[p] \in Job
      BY <1>3, SoundTypes DEF Truncate
    <3>2. [job[p] EXCEPT !.stage = "fill"] \in Job
      BY <3>1 DEF Job
    <3>3. [job[p] EXCEPT !.stage = "fill"] # NoJob
      BY <3>2, OpsAssumption
    <3>4. QED
      BY <1>0, <1>3, <3>1, <3>3 DEF Truncate, TypeOK
  <2>2. \A q \in Ops : Stage'[q] = Stage[q]
    BY <1>0, <2>1 DEF Stage
  <2>3. QED
    BY <2>1, <2>2, NotSeen
<1>4. ASSUME NEW c \in Cancellers, NEW o \in Ops, Cancel(c, o)
      PROVE  Lifecycle!Name(o)
  <2>1. /\ \A q \in Ops : pc'[q] = pc[q] /\ job'[q] = job[q]
        /\ UNCHANGED last /\ named' = named \cup {o} /\ file[o] # NoFile
    BY <1>0, <1>4 DEF Cancel, ReadAndChange, TypeOK
  <2>2. pc[o] # "new"
    BY <2>1 DEF SInv, NewIsUntouched
  <2>3. Stage[o] # "new" /\ Stage' = Stage /\ Says' = Says
    BY <2>1, <2>2 DEF Stage, Says
  <2>4. QED
    BY <2>1, <2>3, MappedActions
<1>5. CASE Crash
  <2>1. CASE Ops = {}
    BY <1>5, <2>1 DEF Crash, Lifecycle!vars
  <2>2. CASE Ops # {}
    BY <1>5, <2>2, CrashIsSeen DEF Lifecycle!Next
  <2>3. QED
    BY <2>1, <2>2
<1>6. CASE UNCHANGED vars
  BY <1>6 DEF vars, Lifecycle!vars
<1>7. ASSUME NEW p \in Procs, Fill(p)
      PROVE  Lifecycle!Next \/ UNCHANGED Lifecycle!vars
  BY <1>0, <1>7, FillIsSeen DEF Lifecycle!Next, Lifecycle!Work, Lifecycle!Open
<1>8. ASSUME NEW o \in Ops, EndBody(o)
      PROVE  Lifecycle!Next \/ UNCHANGED Lifecycle!vars
  BY <1>0, <1>8, EndIsSeen DEF Lifecycle!Next, Lifecycle!Work
<1>9. ASSUME NEW o \in Ops, Worker(o)
      PROVE  Lifecycle!Next \/ UNCHANGED Lifecycle!vars
  <2>1. Lifecycle!Submit(o) => Lifecycle!Next
    BY DEF Lifecycle!Next
  <2>2. QED
    BY <1>0, <1>1, <1>2, <1>3, <1>7, <1>8, <1>9, <2>1 DEF Worker
<1>10. ASSUME NEW c \in Cancellers, Canceller(c)
       PROVE  Lifecycle!Next \/ UNCHANGED Lifecycle!vars
  <2>1. \A o \in Ops : Lifecycle!Name(o) => Lifecycle!Next
    BY DEF Lifecycle!Next
  <2>2. QED
    BY <1>0, <1>3, <1>4, <1>7, <1>10, <2>1 DEF Canceller
<1>11. QED
  BY <1>5, <1>6, <1>9, <1>10 DEF Next

(* What a client may see of the records, whatever the interleaving of      *)
(* workers, cancel requests and deaths of the daemon, is what the abstract *)
(* life cycle allows: a record never goes back, settles once, and says     *)
(* cancelled only for an operation that a cancel request has named.        *)
THEOREM ImplementsLifecycle == Spec => Lifecycle!Spec
<1>1. Init => Lifecycle!Init
  BY DEF Init, Lifecycle!Init, Procs
<1>2. Spec => []SInv
  BY InitSInv, NextKeepsSInv, PTL DEF Spec
<1>3. QED
  BY <1>1, <1>2, StepIsSeen, PTL DEF Spec, Lifecycle!Spec
=============================================================================
