------------------------------ MODULE Discovery ------------------------------
(***************************************************************************)
(* Node discovery, api/internal/discovery: requests that start and cancel  *)
(* the scan of a subnet, and the goroutine that scans.  They share one     *)
(* file, status.json, which is read, changed and rewritten (truncated,     *)
(* then filled).  The manager's mutex orders nothing between them: every   *)
(* request has a manager, and so a mutex, of its own.                      *)
(***************************************************************************)
EXTENDS Naturals, FiniteSets

CONSTANTS
    Starters,    \* start requests; each stands for its goroutine too
    Cancellers,  \* cancel requests
    Subnets,     \* what start requests ask for: records [ip, ones]
    Present,     \* addresses where a node in maintenance mode answers
    Bytes, Bits, \* an address has Bytes bytes of Bits bits: 4 and 8 in IPv4
    MaxCrashes,  \* bound: deaths of the daemon
    Absent, Empty, Garbage,  \* status.json: no file, truncated, two fills mixed
    NoJob,       \* no write under way
    NoSubnet     \* nothing asked for yet

(* The powers of two, by recursion.                                        *)
Pow2[n \in Nat] == IF n = 0 THEN 1 ELSE 2 * Pow2[n - 1]

Address == [1..Bytes -> 0..Pow2[Bits] - 1]
Status == [active : BOOLEAN, found : SUBSET Present]
Job == [status : Status, stage : {"truncate", "fill"}]
Procs == Starters \cup Cancellers

ASSUME DiscoveryAssumption ==
    /\ Starters \cap Cancellers = {}
    /\ Bytes \in Nat \ {0} /\ Bits \in Nat \ {0}
    /\ Present \subseteq Address
    /\ Subnets \subseteq [ip : Address, ones : 1..Bytes * Bits]
    /\ MaxCrashes \in Nat
    /\ {Absent, Empty, Garbage} \cap Status = {}
    /\ Absent # Empty /\ Absent # Garbage /\ Empty # Garbage
    /\ NoJob \notin Job

VARIABLES
    file,      \* status.json
    pc,        \* pc[p]: where the request or its goroutine stands
    job,       \* job[p]: the write under way
    subnet,    \* subnet[s]: what the start request asked for
    ipList,    \* ipList[s]: the addresses the goroutine probes
    collected, \* collected[s]: nodes the goroutine has found
    crashes,   \* deaths of the daemon that were not its own panic
    panicked,  \* the goroutines whose panic killed the daemon
    disturbed  \* history: processes that were busy at the same time

scanVars == <<file, pc, job, subnet, ipList, collected, crashes, panicked, disturbed>>

-----------------------------------------------------------------------------
(* Addresses.                                                              *)

(* incIP: the carry stops at the first byte that does not become zero.     *)
IncIP(ip) ==
    [j \in 1..Bytes |->
        IF \A k \in j + 1..Bytes : ip[k] = Pow2[Bits] - 1 THEN (ip[j] + 1) % Pow2[Bits]
        ELSE ip[j]]

(* The bits of byte j that a mask with that many leading ones leaves free. *)
FreeBits(j, ones) ==
    IF ones >= j * Bits THEN 0
    ELSE IF ones <= (j - 1) * Bits THEN Bits
    ELSE j * Bits - ones
Mask(ip, ones) ==
    [j \in 1..Bytes |-> LET n == Pow2[FreeBits(j, ones)] IN (ip[j] \div n) * n]
LastIP(ip, ones) ==
    [j \in 1..Bytes |-> Mask(ip, ones)[j] + Pow2[FreeBits(j, ones)] - 1]
Contains(net, ones, ip) == Mask(ip, ones) = net

(* ExpandSubnet: from the network address upwards while the subnet         *)
(* contains the address, but for the first and the last.  A single host    *)
(* stands for itself.  (With no leading ones the loop would never end.)    *)
ExpandSubnet(s) ==
    LET net == Mask(s.ip, s.ones)
        Walk[n \in Nat] == IF n = 0 THEN net ELSE IncIP(Walk[n - 1])
        Visited == {Walk[n] : n \in {k \in 0..Pow2[Bytes * Bits] :
                      \A m \in 0..k : Contains(net, s.ones, Walk[m])}}
    IN IF s.ones = Bytes * Bits THEN {s.ip}
       ELSE Visited \ {net, LastIP(net, s.ones)}

-----------------------------------------------------------------------------
(* GetDiscoveryStatus: no file means that no discovery has been run.       *)
Readable == file \notin {Empty, Garbage}
Current == IF file = Absent THEN [active |-> FALSE, found |-> {}] ELSE file

Busy(p) == pc[p] = "scan" \/ job[p] # NoJob
Met(p) == IF \E q \in Procs \ {p} : Busy(q)
          THEN disturbed \cup {p} \cup {q \in Procs : Busy(q)} ELSE disturbed

Writing(p, status) ==
    job' = [job EXCEPT ![p] = [status |-> status, stage |-> "truncate"]]

(* StartDiscovery.                                                         *)
Start(s) ==
    /\ pc[s] = "new"
    /\ Readable /\ ~Current.active
    /\ pc' = [pc EXCEPT ![s] = "scan"]
    /\ \E n \in Subnets :
         /\ subnet' = [subnet EXCEPT ![s] = n]
         /\ ipList' = [ipList EXCEPT ![s] = ExpandSubnet(n)]
    /\ Writing(s, [active |-> TRUE, found |-> {}])
    /\ disturbed' = Met(s)
    /\ UNCHANGED <<file, collected, crashes, panicked>>

(* CancelDiscovery; the goroutine that scans is not told.                  *)
Cancel(c) ==
    /\ pc[c] = "new"
    /\ Readable /\ Current.active
    /\ pc' = [pc EXCEPT ![c] = "ended"]
    /\ Writing(c, [Current EXCEPT !.active = FALSE])
    /\ disturbed' = Met(c)
    /\ UNCHANGED <<file, subnet, ipList, collected, crashes, panicked>>

Refuse(p) ==
    /\ pc[p] = "new"
    /\ Readable => Current.active = (p \in Starters)
    /\ pc' = [pc EXCEPT ![p] = "refused"]
    /\ UNCHANGED <<file, job, subnet, ipList, collected, crashes, panicked, disturbed>>

-----------------------------------------------------------------------------
(* runDiscovery.  The probes of all addresses run in parallel and answer   *)
(* in any order.                                                           *)
Answers(s) == ipList[s] \cap Present

(* Mutants: only the newest node is written; a result is not kept waiting  *)
(* until the last one is written.                                          *)
CollectNewest(s) ==
    /\ pc[s] = "scan" /\ job[s] = NoJob
    /\ \E ip \in Answers(s) \ collected[s] :
         /\ collected' = [collected EXCEPT ![s] = @ \cup {ip}]
         /\ IF Readable
            THEN Writing(s, [Current EXCEPT !.found = {ip}]) /\ UNCHANGED pc
            ELSE pc' = [pc EXCEPT ![s] = "stuck"] /\ UNCHANGED job
    /\ UNCHANGED <<file, subnet, ipList, crashes, panicked, disturbed>>
(* A result: the status is read again and gets the nodes found so far.  An *)
(* unreadable status is a nil pointer: the panic runs the deferred         *)
(* function, which waits for ever for the mutex the goroutine holds.       *)
Collect(s) ==
    /\ pc[s] = "scan" /\ job[s] = NoJob
    /\ \E ip \in Answers(s) \ collected[s] :
         /\ collected' = [collected EXCEPT ![s] = @ \cup {ip}]
         /\ IF Readable
            THEN Writing(s, [Current EXCEPT !.found = collected'[s]]) /\ UNCHANGED pc
            ELSE pc' = [pc EXCEPT ![s] = "stuck"] /\ UNCHANGED job
    /\ UNCHANGED <<file, subnet, ipList, crashes, panicked, disturbed>>

(* The daemon is gone, and started again; nothing looks at the file.       *)
Die ==
    /\ pc' = [p \in Procs |-> IF Busy(p) \/ pc[p] = "stuck" THEN "dead" ELSE pc[p]]
    /\ job' = [p \in Procs |-> NoJob]

FinishActive(s) ==  \* mutant: the status keeps saying active
    /\ pc[s] = "scan" /\ job[s] = NoJob
    /\ Answers(s) = collected[s]
    /\ pc' = [pc EXCEPT ![s] = "ended"]
    /\ UNCHANGED <<file, job, subnet, ipList, collected, crashes, panicked, disturbed>>

(* The deferred function after the last result; here the nil pointer kills *)
(* the daemon.                                                             *)
Finish(s) ==
    /\ pc[s] = "scan" /\ job[s] = NoJob
    /\ Answers(s) = collected[s]
    /\ IF Readable
       THEN /\ pc' = [pc EXCEPT ![s] = "ended"]
            /\ Writing(s, [Current EXCEPT !.active = FALSE])
            /\ UNCHANGED panicked
       ELSE Die /\ panicked' = panicked \cup {s}
    /\ UNCHANGED <<file, subnet, ipList, collected, crashes, disturbed>>

-----------------------------------------------------------------------------
(* writeDiscoveryStatus.                                                   *)
Truncate(p) ==
    /\ job[p] # NoJob /\ job[p].stage = "truncate"
    /\ file' = Empty
    /\ job' = [job EXCEPT ![p].stage = "fill"]
    /\ UNCHANGED <<pc, subnet, ipList, collected, crashes, panicked, disturbed>>

Fill(p) ==
    /\ job[p] # NoJob /\ job[p].stage = "fill"
    /\ file' \in IF file = Empty THEN {job[p].status} ELSE {job[p].status, Garbage}
    /\ job' = [job EXCEPT ![p] = NoJob]
    /\ UNCHANGED <<pc, subnet, ipList, collected, crashes, panicked, disturbed>>

Crash ==
    /\ crashes < MaxCrashes
    /\ \E p \in Procs : Busy(p)
    /\ crashes' = crashes + 1
    /\ Die
    /\ UNCHANGED <<file, subnet, ipList, collected, panicked, disturbed>>

-----------------------------------------------------------------------------
ScanInit ==
    /\ file = Absent
    /\ pc = [p \in Procs |-> "new"]
    /\ job = [p \in Procs |-> NoJob]
    /\ subnet = [s \in Starters |-> NoSubnet]
    /\ ipList = [s \in Starters |-> {}]
    /\ collected = [s \in Starters |-> {}]
    /\ crashes = 0
    /\ panicked = {}
    /\ disturbed = {}

Work(p) ==
    \/ Truncate(p)
    \/ Fill(p)
    \/ p \in Starters /\ (Collect(p) \/ Finish(p))

ScanNext ==
    \/ \E s \in Starters : Start(s) \/ Collect(s) \/ Finish(s)
    \/ \E c \in Cancellers : Cancel(c)
    \/ \E p \in Procs : Refuse(p) \/ Truncate(p) \/ Fill(p)
    \/ Crash

ScanSpec == ScanInit /\ [][ScanNext]_scanVars

(* Goroutines that can run do run; every probe answers or fails.           *)
ScanFairness == \A p \in Procs : WF_scanVars(Work(p))
FairScanSpec == ScanSpec /\ ScanFairness

-----------------------------------------------------------------------------
TypeOK ==
    /\ file \in Status \cup {Absent, Empty, Garbage}
    /\ pc \in [Procs -> {"new", "refused", "scan", "ended", "stuck", "dead"}]
    /\ job \in [Procs -> Job \cup {NoJob}]
    /\ subnet \in [Starters -> Subnets \cup {NoSubnet}]
    /\ ipList \in [Starters -> SUBSET Address]
    /\ collected \in [Starters -> SUBSET Present]
    /\ crashes \in 0..MaxCrashes
    /\ panicked \subseteq Starters
    /\ disturbed \subseteq Procs

(* What ExpandSubnet walks through byte by byte is the set of the          *)
(* addresses between the first and the last one of the subnet, taken as    *)
(* numbers.                                                                *)
Number(ip) ==
    LET Sum[j \in 0..Bytes] == IF j = 0 THEN 0 ELSE Sum[j - 1] * Pow2[Bits] + ip[j]
    IN Sum[Bytes]
SubnetIsCovered ==
    \A s \in Starters : pc[s] \notin {"new", "refused"} =>
        LET n == subnet[s]
            size == Pow2[Bytes * Bits - n.ones]
            first == (Number(n.ip) \div size) * size
        IN ipList[s] =
             IF size = 1 THEN {n.ip}
             ELSE {ip \in Address : first < Number(ip) /\ Number(ip) < first + size - 1}

(* A scan that no other request ran into reports every node that answered, *)
(* and no other, until the next request writes.                            *)
UndisturbedIsComplete ==
    \A s \in Starters :
        (/\ pc[s] = "ended" /\ job[s] = NoJob
         /\ s \notin disturbed
         /\ \A p \in Procs \ {s} : pc[p] \in {"new", "refused"})
            => file = [active |-> FALSE, found |-> Answers(s)]

(* A nil status takes two processes that were busy at the same time.       *)
PanicNeedsCompany ==
    \A s \in Starters : (pc[s] = "stuck" \/ s \in panicked) => s \in disturbed

(* A scan asks every host address of its subnet and no other, and only     *)
(* what another request did to the status file can make it report less     *)
(* than it found, or break it off.                                         *)
ScanIsTrue == TypeOK /\ SubnetIsCovered /\ UndisturbedIsComplete /\ PanicNeedsCompany

(* Whatever start and cancel requests run into each other: as long as the  *)
(* daemon lives, the status does not say "in progress" for ever, which     *)
(* would refuse every later discovery.                                     *)
ActiveEnds ==
    (Readable /\ Current.active)
        ~> (~Readable \/ ~Current.active \/ crashes > 0 \/ panicked # {})
=============================================================================
