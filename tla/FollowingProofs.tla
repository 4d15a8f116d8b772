---------------------------- MODULE FollowingProofs ----------------------------
(***************************************************************************)
(* Proofs about those who follow work that others do: the pages that poll  *)
(* an operation (OperationFollow), the screen of a shell (Terminal) and    *)
(* the goroutine that scans a subnet and reports in a file (Discovery).    *)
(***************************************************************************)
EXTENDS OperationFollow, Terminal, Discovery, FiniteSetTheorems, WellFoundedInduction, TLAPS

-----------------------------------------------------------------------------
(* OperationFollow.  What a click watches is the operation it began last;  *)
(* the others, if it has not lost sight of one, are over.                  *)
Phases == {"new", "at work", "settled", "lost"}
Clicked == [stage : {"idle", "posting", "posted", "asking", "success", "error"}, op : Ops \cup {Nobody},
            polls : Nat, tries : {0, 1}, began : SUBSET Ops, blind : BOOLEAN]

DaemonIsSound ==
    /\ phase \in [Ops -> Phases]
    /\ status = [o \in Ops |-> status[o]]
    /\ \A o \in Ops : status[o] \in {"completed", "failed"} => phase[o] = "settled"

Over(o) == phase[o] \in {"settled", "lost"}

ClickIsSound(k) ==
    /\ k \in Clicked
    /\ k.stage \in {"idle", "posting"} => k.op = Nobody
    /\ k.stage \in {"posted", "asking"} => k.op \in Ops
    /\ k.tries = 0 => k.began \subseteq {k.op}
    /\ ~k.blind => \A o \in k.began \ {k.op} : Over(o)

ClicksAreSound == click = [c \in Clicks |-> click[c]] /\ \A c \in Clicks : ClickIsSound(click[c])

FollowInv == DaemonIsSound /\ ClicksAreSound

(* What the daemon does: an operation that is over stays so.               *)
DaemonStep == DaemonIsSound' /\ \A o \in Ops : Over(o) => Over(o)'

LEMMA SubmitStep == ASSUME DaemonIsSound, NEW o \in Ops, Daemon!Submit(o) PROVE DaemonStep
BY DEF DaemonIsSound, DaemonStep, Over, Phases, Daemon!Submit

LEMMA SayStep == ASSUME DaemonIsSound, NEW o \in Ops, NEW s \in Daemon!Open, Daemon!Say(o, s) PROVE DaemonStep
BY DEF DaemonIsSound, DaemonStep, Over, Phases, Daemon!Say, Daemon!Open

LEMMA SettleStep == ASSUME DaemonIsSound, NEW o \in Ops, Daemon!Settle(o) PROVE DaemonStep
<1>1. phase' = [phase EXCEPT ![o] = "settled"] /\ phase[o] = "at work"
  BY DEF Daemon!Settle
<1>2. status' = [p \in Ops |-> status'[p]] /\ \A p \in Ops \ {o} : status'[p] = status[p]
  BY DEF Daemon!Settle, DaemonIsSound
<1> QED
  BY <1>1, <1>2 DEF DaemonIsSound, DaemonStep, Over, Phases

LEMMA WorkStep == ASSUME DaemonIsSound, NEW o \in Ops, Daemon!Work(o) PROVE DaemonStep
BY SayStep, SettleStep DEF Daemon!Work

LEMMA NameStep == ASSUME DaemonIsSound, NEW o \in Ops, Daemon!Name(o) PROVE DaemonStep
BY DEF DaemonIsSound, DaemonStep, Over, Daemon!Name

LEMMA CancelStep == ASSUME DaemonIsSound, NEW o \in Ops, Daemon!Cancel(o) PROVE DaemonStep
BY DEF DaemonIsSound, DaemonStep, Over, Daemon!Cancel

LEMMA CrashStep == ASSUME DaemonIsSound, Daemon!Crash PROVE DaemonStep
BY DEF DaemonIsSound, DaemonStep, Over, Phases, Daemon!Crash

LEMMA StillStep == ASSUME DaemonIsSound, UNCHANGED daemon PROVE DaemonStep
BY DEF DaemonIsSound, DaemonStep, Over, daemon

-----------------------------------------------------------------------------
(* A step of one click, or of none, beside a step of the daemon.           *)
LEMMA ClicksStay == ASSUME FollowInv, DaemonStep, UNCHANGED click PROVE FollowInv'
BY DEF FollowInv, DaemonStep, ClicksAreSound, ClickIsSound, Clicked

LEMMA ClickStays ==
    ASSUME FollowInv, DaemonStep, NEW c \in Clicks, NEW k, Go(c, k), ClickIsSound(k)'
    PROVE  FollowInv'
<1>1. click' = [d \in Clicks |-> IF d = c THEN k ELSE click[d]]
  BY DEF Go, FollowInv, ClicksAreSound
<1>2. ASSUME NEW d \in Clicks PROVE ClickIsSound(click[d])'
  <2>1. CASE d = c
    <3>1. click'[d] = k
      BY <1>1, <2>1
    <3> QED
      BY <3>1 DEF ClickIsSound, Over
  <2>2. CASE d # c
    <3>1. click'[d] = click[d] /\ ClickIsSound(click[d])
      BY <1>1, <2>2 DEF FollowInv, ClicksAreSound
    <3> QED
      BY <3>1 DEF DaemonStep, ClickIsSound, Clicked
  <2> QED
    BY <2>1, <2>2
<1>3. click' = [d \in Clicks |-> click'[d]]
  BY <1>1
<1> QED
  BY <1>2, <1>3 DEF FollowInv, DaemonStep, ClicksAreSound

LEMMA FailedIsSound ==
    ASSUME NEW k \in Clicked, ClickIsSound(k), k.stage \in {"posting", "posted", "asking"}, NEW outcome \in BOOLEAN,
           outcome => k.op \in Ops /\ Over(k.op)
    PROVE  ClickIsSound(Failed(k, outcome))
<1>1. CASE k.tries # 0
  BY <1>1 DEF ClickIsSound, Failed, Clicked
<1>2. CASE k.tries = 0
  <2>1. PICK f \in Clicked : f = [k EXCEPT !.stage = "posting", !.op = Nobody, !.tries = 1, !.blind = ~outcome]
    BY DEF Clicked
  <2>2. f.began = k.began /\ f.blind = ~outcome /\ f.op = Nobody /\ f.tries = 1 /\ f.stage = "posting"
    BY <2>1 DEF Clicked
  <2>3. f = Failed(k, outcome)
    BY <1>2, <2>1 DEF Failed
  <2>4. k.began \subseteq {k.op}
    BY <1>2 DEF ClickIsSound
  <2>5. ~f.blind => \A o \in f.began \ {f.op} : Over(o)
    <3>1. CASE outcome = TRUE
      BY <2>2, <2>4, <3>1
    <3>2. CASE outcome = FALSE
      BY <2>2, <3>2
    <3> QED
      BY <3>1, <3>2
  <2>6. ClickIsSound(f)
    BY <2>2, <2>5 DEF ClickIsSound
  <2> QED
    BY <2>3, <2>6
<1> QED
  BY <1>1, <1>2

LEMMA ClickSteps ==
    ASSUME FollowInv, NEW c \in Clicks, ClickNext(c)
    PROVE  FollowInv'
<1> DEFINE k == click[c]
<1>0. ClickIsSound(k) /\ k \in Clicked /\ DaemonIsSound /\ Nobody \notin Ops /\ MaxAttempts \in Nat
  BY FollowBounds DEF FollowInv, ClicksAreSound, ClickIsSound
<1> HIDE DEF k
<1>1. ASSUME UNCHANGED daemon, NEW next, ClickIsSound(next), Go(c, next) PROVE FollowInv'
  <2>1. DaemonStep
    BY <1>0, <1>1, StillStep
  <2>2. ClickIsSound(next)'
    BY <1>1 DEF ClickIsSound, Over, daemon
  <2> QED
    BY <1>1, <2>1, <2>2, ClickStays
<1>2. ASSUME UNCHANGED daemon, NEW outcome \in BOOLEAN, outcome => k.op \in Ops /\ Over(k.op),
             k.stage \in {"posting", "posted", "asking"}, Go(c, Failed(k, outcome))
      PROVE  FollowInv'
  <2>1. ClickIsSound(Failed(k, outcome))
    BY <1>0, <1>2, FailedIsSound
  <2> QED
    BY <1>1, <1>2, <2>1
<1>3. CASE Press(c)
  <2>1. PICK next \in Clicked : next = [k EXCEPT !.stage = "posting"]
    BY <1>0 DEF Clicked
  <2>2. k.stage = "idle" /\ Go(c, next) /\ UNCHANGED daemon
    BY <1>3, <2>1 DEF Press, k
  <2>3. ClickIsSound(next)
    BY <1>0, <2>1, <2>2 DEF ClickIsSound, Clicked
  <2> QED
    BY <1>1, <2>2, <2>3
<1>4. CASE Post(c)
  <2>1. PICK o \in Ops \ Bootstraps :
          Daemon!Submit(o) /\ Go(c, [k EXCEPT !.stage = "posted", !.op = o, !.began = @ \cup {o}])
    BY <1>4 DEF Post, k
  <2>2. PICK next \in Clicked : next = [k EXCEPT !.stage = "posted", !.op = o, !.began = @ \cup {o}]
    BY <1>0 DEF Clicked
  <2>3. next.op = o /\ next.stage = "posted" /\ next.began = k.began \cup {o} /\ next.tries = k.tries
        /\ next.blind = k.blind
    BY <2>2, <1>0 DEF Clicked
  <2>4. k.op = Nobody /\ k.began \subseteq Ops
    BY <1>0, <1>4 DEF Post, k, ClickIsSound, Clicked
  <2>5. DaemonStep
    BY <1>0, <2>1, SubmitStep
  <2>6. ~next.blind => \A p \in next.began \ {next.op} : Over(p)
    BY <1>0, <2>3, <2>4 DEF ClickIsSound
  <2>7. next.tries = 0 => next.began \subseteq {next.op}
    BY <1>0, <2>3, <2>4 DEF ClickIsSound
  <2>8. ClickIsSound(next)'
    <3>1. \A p \in next.began \ {next.op} : Over(p) => Over(p)'
      BY <2>5, <2>2 DEF DaemonStep, Clicked
    <3> QED
      BY <2>2, <2>3, <2>6, <2>7, <3>1 DEF ClickIsSound
  <2> QED
    BY <2>1, <2>2, <2>5, <2>8, ClickStays
<1>5. CASE Accepted(c)
  <2>1. PICK next \in Clicked : next = [k EXCEPT !.stage = "asking", !.polls = 0]
    BY <1>0 DEF Clicked
  <2>2. k.stage = "posted" /\ Go(c, next) /\ UNCHANGED daemon
    BY <1>5, <2>1 DEF Accepted, k
  <2>3. ClickIsSound(next)
    BY <1>0, <2>1, <2>2 DEF ClickIsSound, Clicked
  <2> QED
    BY <1>1, <2>2, <2>3
<1>6. CASE Ask(c)
  <2>1. k.stage = "asking" /\ k.op \in Ops /\ Go(c, Asked(k, status[k.op])) /\ UNCHANGED daemon
    BY <1>0, <1>6 DEF Ask, k, ClickIsSound
  <2>2. CASE status[k.op] = "completed"
    <3>1. PICK next \in Clicked : next = [k EXCEPT !.stage = "success"]
      BY <1>0 DEF Clicked
    <3>2. ClickIsSound(next)
      BY <1>0, <2>1, <3>1 DEF ClickIsSound, Clicked
    <3>3. Asked(k, status[k.op]) = next
      BY <2>2, <3>1 DEF Asked
    <3> QED
      BY <1>1, <2>1, <3>2, <3>3
  <2>3. CASE status[k.op] = "failed"
    <3>1. Over(k.op)
      BY <1>0, <2>1, <2>3 DEF DaemonIsSound, Over
    <3>2. Asked(k, status[k.op]) = Failed(k, TRUE)
      BY <2>3 DEF Asked
    <3> QED
      BY <1>2, <2>1, <3>1, <3>2
  <2>4. CASE status[k.op] \notin {"completed", "failed"}
    <3>1. CASE k.polls + 1 < MaxAttempts
      <4>0. PICK n \in Nat : n = k.polls + 1
        BY <1>0 DEF Clicked
      <4>1. PICK next \in Clicked : next = [k EXCEPT !.polls = @ + 1]
        BY <1>0, <4>0 DEF Clicked
      <4>2. ClickIsSound(next)
        BY <1>0, <2>1, <4>1 DEF ClickIsSound, Clicked
      <4>3. Asked(k, status[k.op]) = next
        BY <2>4, <3>1, <4>1 DEF Asked
      <4> QED
        BY <1>1, <2>1, <4>2, <4>3
    <3>2. CASE ~(k.polls + 1 < MaxAttempts)
      <4>1. Asked(k, status[k.op]) = Failed(k, FALSE)
        BY <2>4, <3>2 DEF Asked
      <4> QED
        BY <1>2, <2>1, <4>1
    <3> QED
      BY <3>1, <3>2
  <2> QED
    BY <2>2, <2>3, <2>4
<1>7. CASE Errs(c)
  <2>1. k.stage \in {"posting", "posted", "asking"} /\ Go(c, Failed(k, FALSE)) /\ UNCHANGED daemon
    BY <1>7 DEF Errs, k
  <2> QED
    BY <1>2, <2>1
<1>8. CASE HangsUp(c)
  <2>1. k.stage = "posted" /\ Go(c, Failed(k, FALSE)) /\ UNCHANGED daemon
    BY <1>8 DEF HangsUp, k
  <2> QED
    BY <1>2, <2>1
<1> QED
  BY <1>3, <1>4, <1>5, <1>6, <1>7, <1>8 DEF ClickNext

LEMMA DialogSteps == ASSUME DaemonIsSound, DialogNext PROVE DaemonStep /\ UNCHANGED click
<1>1. CASE StartBootstrap
  <2>1. UNCHANGED click
    BY <1>1 DEF StartBootstrap
  <2>2. CASE \E o \in Bootstraps \cap Ops : Daemon!Submit(o)
    BY <2>1, <2>2, SubmitStep
  <2>3. CASE UNCHANGED daemon
    BY <2>1, <2>3, StillStep
  <2>4. \A o \in Bootstraps : Daemon!Submit(o) => o \in Ops \/ UNCHANGED daemon
    BY DEF Daemon!Submit, DaemonIsSound, daemon
  <2> QED
    BY <1>1, <2>2, <2>3, <2>4 DEF StartBootstrap
<1>2. CASE OpenDialog \/ Started \/ StartLost \/ PollDialog \/ CloseTimer \/ CloseDialog
  <2>1. UNCHANGED daemon /\ UNCHANGED click
    BY <1>2 DEF OpenDialog, Started, StartLost, PollDialog, CloseTimer, CloseDialog
  <2> QED
    BY <2>1, StillStep
<1> QED
  BY <1>1, <1>2 DEF DialogNext

LEMMA PageSteps == ASSUME DaemonIsSound, PageNext PROVE DaemonStep /\ UNCHANGED click
<1>1. UNCHANGED daemon /\ UNCHANGED click
  BY DEF PageNext, PollList, SetFilter, CancelFromPage, vars
<1> QED
  BY <1>1, StillStep

LEMMA FollowInit == Init => FollowInv
<1> SUFFICES ASSUME Init PROVE FollowInv
  OBVIOUS
<1>1. DaemonIsSound
  BY DEF Init, Daemon!Init, DaemonIsSound, Phases
<1>2. ClickIsSound(NoClick)
  BY FollowBounds DEF NoClick, ClickIsSound, Clicked
<1> QED
  BY <1>1, <1>2 DEF Init, FollowInv, ClicksAreSound

LEMMA FollowStep == FollowInv /\ [Next]_vars => FollowInv'
<1> SUFFICES ASSUME FollowInv, [Next]_vars PROVE FollowInv'
  OBVIOUS
<1>0. DaemonIsSound
  BY DEF FollowInv
<1>1. CASE \E c \in Clicks : ClickNext(c)
  BY <1>1, ClickSteps
<1>2. CASE DialogNext
  BY <1>0, <1>2, DialogSteps, ClicksStay
<1>3. CASE PageNext
  BY <1>0, <1>3, PageSteps, ClicksStay
<1>4. CASE OthersSubmit
  <2>1. DaemonStep /\ UNCHANGED click
    BY <1>0, <1>4, SubmitStep DEF OthersSubmit
  <2> QED
    BY <2>1, ClicksStay
<1>5. CASE \E o \in Ops : DaemonWorks(o)
  <2>1. DaemonStep /\ UNCHANGED click
    BY <1>0, <1>5, WorkStep DEF DaemonWorks
  <2> QED
    BY <2>1, ClicksStay
<1>6. CASE OthersCancel
  <2>1. DaemonStep /\ UNCHANGED click
    BY <1>0, <1>6, NameStep, CancelStep DEF OthersCancel
  <2> QED
    BY <2>1, ClicksStay
<1>7. CASE DaemonDies
  <2>1. DaemonStep /\ UNCHANGED click
    BY <1>0, <1>7, CrashStep DEF DaemonDies
  <2> QED
    BY <2>1, ClicksStay
<1>8. CASE UNCHANGED vars
  <2>1. UNCHANGED daemon /\ UNCHANGED click
    BY <1>8 DEF vars
  <2> QED
    BY <1>0, <2>1, StillStep, ClicksStay
<1> QED
  BY <1>1, <1>2, <1>3, <1>4, <1>5, <1>6, <1>7, <1>8 DEF Next

LEMMA FollowInvImplies == FollowInv => SecondNeedsBlindness
<1> SUFFICES ASSUME FollowInv, NEW c \in Clicks, ~click[c].blind
             PROVE  ~(Cardinality({o \in click[c].began : phase[o] = "at work"}) > 1)
  BY DEF SecondNeedsBlindness
<1>1. ClickIsSound(click[c])
  BY DEF FollowInv, ClicksAreSound
<1>2. {o \in click[c].began : phase[o] = "at work"} \subseteq {click[c].op}
  BY <1>1 DEF ClickIsSound, Over
<1>3. IsFiniteSet({click[c].op}) /\ Cardinality({click[c].op}) = 1
  BY FS_Singleton
<1>4. Cardinality({o \in click[c].began : phase[o] = "at work"}) <= 1
  BY <1>2, <1>3, FS_Subset
<1>5. PICK n \in Nat : n = Cardinality({o \in click[c].began : phase[o] = "at work"})
  BY <1>2, <1>3, FS_Subset, FS_CardinalityType
<1>6. n <= 1
  BY <1>4, <1>5
<1>7. ~(n > 1)
  BY <1>6
<1> QED
  BY <1>5, <1>7

(* Whatever the daemon, its crashes, other clients and the way do, the two *)
(* operations of one press are at work beside each other only when the     *)
(* client lost sight of the first (pollOperation in hooks/useApps.ts).     *)
THEOREM SecondAlwaysNeedsBlindness == Spec => []SecondNeedsBlindness
BY FollowInit, FollowStep, FollowInvImplies, PTL DEF Spec

-----------------------------------------------------------------------------
(* Terminal.  Every socket has an id of its own, and what is decoded for   *)
(* the screen that is there was printed by its instance's shell.           *)
SocketIsSound(s) ==
    /\ s = [id |-> s.id, to |-> s.to, phase |-> s.phase, hangsUp |-> s.hangsUp]
    /\ s.id \in SocketIds
    /\ IF s.id = wsRef THEN s.to = terminal /\ s.hangsUp = FALSE ELSE s.phase = "connecting" /\ s.hangsUp = TRUE

SocketsAreSound ==
    /\ \A s \in sockets : SocketIsSound(s)
    /\ \A s, t \in sockets : s.id = t.id => s = t

BlobsAreSound ==
    \A b \in blobs :
        /\ b = [of |-> b.of, disposed |-> b.disposed] /\ b.disposed \in BOOLEAN
        /\ b.disposed = FALSE => b.of = terminal /\ terminal # NoTerminal

ScreenIsSound ==
    /\ terminal \in Terminals \cup {NoTerminal}
    /\ screen \subseteq {terminal}
    /\ history = [i \in Terminals |-> history[i]]
    /\ \A i \in Terminals : history[i] \subseteq {i}
    /\ timer2s \in BOOLEAN
    /\ terminal = NoTerminal => wsRef = NoSocket /\ timer2s = FALSE /\ screen = {}

TermInv == SocketsAreSound /\ BlobsAreSound /\ ScreenIsSound

LEMMA TermStart == TermInit => TermInv
BY DEF TermInit, TermInv, SocketsAreSound, BlobsAreSound, ScreenIsSound

(* A new connection, when no other socket is the component's any more.     *)
LEMMA ConnectSockets ==
    ASSUME NEW i, NEW others \in SUBSET sockets, Connect(i, others), SocketsAreSound, terminal' = i,
           \A s \in others : s.id # wsRef
    PROVE  SocketsAreSound'
<1>1. PICK id \in SocketIds \ {s.id : s \in sockets} : sockets' = others \cup {Socket(id, i)} /\ wsRef' = id
  BY DEF Connect
<1>2. PICK new : new = Socket(id, i)
  OBVIOUS
<1>3. new.id = id /\ new.to = i /\ new.hangsUp = FALSE /\ new = [id |-> new.id, to |-> new.to, phase |-> new.phase, hangsUp |-> new.hangsUp]
  BY <1>2 DEF Socket
<1>4. \A s \in others : s.id # id
  BY <1>1
<1>5. \A s \in others : SocketIsSound(s)'
  BY <1>1, <1>4 DEF SocketsAreSound, SocketIsSound
<1>6. SocketIsSound(new)'
  BY <1>1, <1>3 DEF SocketIsSound
<1>7. sockets' = others \cup {new}
  BY <1>1, <1>2
<1>8. \A s, t \in sockets' : s.id = t.id => s = t
  BY <1>3, <1>4, <1>7 DEF SocketsAreSound
<1> QED
  BY <1>5, <1>6, <1>7, <1>8 DEF SocketsAreSound

(* A socket that goes, and one that goes on in a new phase.                *)
LEMMA FewerSockets ==
    ASSUME SocketsAreSound, sockets' \subseteq sockets, UNCHANGED <<terminal, wsRef>>
    PROVE  SocketsAreSound'
BY DEF SocketsAreSound, SocketIsSound

LEMMA SocketGoesOn ==
    ASSUME SocketsAreSound, NEW s \in sockets, NEW p, s.id = wsRef, UNCHANGED <<terminal, wsRef>>,
           sockets' = (sockets \ {s}) \cup {[s EXCEPT !.phase = p]}
    PROVE  SocketsAreSound'
<1>1. PICK t : t = [s EXCEPT !.phase = p]
  OBVIOUS
<1>2. t = [id |-> t.id, to |-> t.to, phase |-> t.phase, hangsUp |-> t.hangsUp]
      /\ t.id = s.id /\ t.to = s.to /\ t.hangsUp = s.hangsUp
  BY <1>1 DEF SocketsAreSound, SocketIsSound
<1>3. SocketIsSound(t)'
  BY <1>2 DEF SocketsAreSound, SocketIsSound
<1>4. \A u \in sockets \ {s} : SocketIsSound(u)' /\ u.id # t.id
  BY <1>2 DEF SocketsAreSound, SocketIsSound
<1>5. sockets' = (sockets \ {s}) \cup {t}
  BY <1>1
<1> QED
  BY <1>3, <1>4, <1>5 DEF SocketsAreSound

LEMMA MountStep == ASSUME TermInv, NEW i \in Terminals, Mount(i) PROVE TermInv'
<1>1. terminal' = i /\ Connect(i, sockets) /\ screen' = history[i] /\ terminal = NoTerminal
      /\ UNCHANGED <<timer2s, history, blobs>>
  BY DEF Mount
<1>2. \A s \in sockets : s.id # wsRef
  BY <1>1 DEF TermInv, SocketsAreSound, SocketIsSound, ScreenIsSound, NoSocket, SocketIds
<1>3. SocketsAreSound'
  BY <1>1, <1>2, ConnectSockets DEF TermInv
<1>4. BlobsAreSound'
  BY <1>1 DEF TermInv, BlobsAreSound
<1>5. ScreenIsSound'
  BY <1>1, TerminalsAssumption DEF TermInv, ScreenIsSound
<1> QED
  BY <1>3, <1>4, <1>5 DEF TermInv

LEMMA UnmountStep == ASSUME TermInv, Unmount PROVE TermInv'
<1>1. terminal # NoTerminal /\ terminal' = NoTerminal /\ timer2s' = FALSE /\ wsRef' = NoSocket /\ screen' = {}
  BY DEF Unmount
<1>2. ScreenIsSound'
  <2>1. history' = IF screen = {} THEN history ELSE [history EXCEPT ![terminal] = screen]
    BY DEF Unmount
  <2>2. history' = [i \in Terminals |-> history'[i]]
    BY <2>1 DEF TermInv, ScreenIsSound
  <2>3. \A i \in Terminals : history'[i] \subseteq {i}
    BY <2>1, <1>1 DEF TermInv, ScreenIsSound
  <2> QED
    BY <1>1, <2>2, <2>3 DEF ScreenIsSound
<1>3. BlobsAreSound'
  <2>1. blobs' = {[b EXCEPT !.disposed = TRUE] : b \in blobs}
    BY DEF Unmount
  <2>2. ASSUME NEW b \in blobs' PROVE b = [of |-> b.of, disposed |-> b.disposed] /\ b.disposed = TRUE
    <3>1. PICK a \in blobs : b = [a EXCEPT !.disposed = TRUE]
      BY <2>1
    <3>2. a = [of |-> a.of, disposed |-> a.disposed]
      BY DEF TermInv, BlobsAreSound
    <3> QED
      BY <3>1, <3>2
  <2> QED
    BY <2>2 DEF BlobsAreSound
<1>4. SocketsAreSound'
  <2>1. sockets' = (sockets \ Held) \cup {[s EXCEPT !.hangsUp = TRUE] : s \in {x \in Held : x.phase = "connecting"}}
    BY DEF Unmount
  <2>2. \A s \in sockets \ Held : SocketIsSound(s)' /\ s.id # wsRef
    BY <1>1 DEF TermInv, SocketsAreSound, SocketIsSound, Held, NoSocket, SocketIds
  <2>3. ASSUME NEW t \in sockets' \ (sockets \ Held) PROVE SocketIsSound(t)' /\ t.id = wsRef /\ t.to = terminal /\ t.phase = "connecting" /\ t.hangsUp = TRUE
    <3>1. PICK s \in Held : t = [s EXCEPT !.hangsUp = TRUE] /\ s.phase = "connecting"
      BY <2>1
    <3>2. s \in sockets /\ s.id = wsRef /\ SocketIsSound(s)
      BY DEF Held, TermInv, SocketsAreSound
    <3>3. t = [id |-> t.id, to |-> t.to, phase |-> t.phase, hangsUp |-> t.hangsUp] /\ t.id = s.id /\ t.hangsUp = TRUE
          /\ t.phase = "connecting" /\ t.to = s.to
      BY <3>1, <3>2 DEF SocketIsSound
    <3>4. t.id # wsRef' /\ t.id \in SocketIds
      BY <1>1, <3>2, <3>3 DEF SocketIsSound, NoSocket, SocketIds
    <3> QED
      BY <3>2, <3>3, <3>4 DEF SocketIsSound
  <2>4. \A s, t \in sockets' : s.id = t.id => s = t
    <3>1. \A s, t \in sockets \ Held : s.id = t.id => s = t
      BY DEF TermInv, SocketsAreSound
    <3>2. ASSUME NEW s \in sockets' \ (sockets \ Held), NEW t \in sockets' \ (sockets \ Held) PROVE s = t
      <4>1. s = [id |-> s.id, to |-> s.to, phase |-> s.phase, hangsUp |-> s.hangsUp]
            /\ t = [id |-> t.id, to |-> t.to, phase |-> t.phase, hangsUp |-> t.hangsUp]
        BY <2>3 DEF SocketIsSound
      <4>2. s.id = t.id /\ s.to = t.to /\ s.phase = t.phase /\ s.hangsUp = t.hangsUp
        BY <2>3
      <4> QED
        BY <4>1, <4>2
    <3> QED
      BY <2>2, <2>3, <3>1, <3>2
  <2> QED
    BY <2>2, <2>3, <2>4 DEF SocketsAreSound
<1> QED
  BY <1>2, <1>3, <1>4 DEF TermInv

LEMMA SocketSteps ==
    ASSUME TermInv, NEW s \in sockets, Opens(s) \/ Drop(s) \/ ShellExits(s)
    PROVE  TermInv'
<1>1. CASE Opens(s)
  <2>1. UNCHANGED <<terminal, wsRef, timer2s, screen, history, blobs>>
    BY <1>1 DEF Opens
  <2>2. SocketsAreSound'
    <3>1. CASE s.hangsUp = TRUE
      BY <1>1, <2>1, <3>1, FewerSockets DEF Opens, TermInv
    <3>2. CASE s.hangsUp = FALSE
      <4>1. s.id = wsRef
        BY <3>2 DEF TermInv, SocketsAreSound, SocketIsSound
      <4>2. sockets' = (sockets \ {s}) \cup {[s EXCEPT !.phase = "open"]}
        BY <1>1, <3>2 DEF Opens
      <4> QED
        BY <2>1, <4>1, <4>2, SocketGoesOn DEF TermInv
    <3>3. s.hangsUp \in BOOLEAN
      BY DEF TermInv, SocketsAreSound, SocketIsSound
    <3> QED
      BY <3>1, <3>2, <3>3
  <2> QED
    BY <2>1, <2>2 DEF TermInv, BlobsAreSound, ScreenIsSound
<1>2. CASE Drop(s)
  <2>1. Close(s)
    BY <1>2 DEF Drop
  <2>2. SocketsAreSound'
    BY <2>1, FewerSockets DEF Close, TermInv
  <2>3. terminal = NoTerminal => s.id # wsRef
    BY DEF TermInv, SocketsAreSound, SocketIsSound, ScreenIsSound, NoSocket, SocketIds
  <2> QED
    BY <2>1, <2>2, <2>3 DEF Close, TermInv, BlobsAreSound, ScreenIsSound
<1>3. CASE ShellExits(s)
  <2>1. s.phase = "open" /\ UNCHANGED <<terminal, wsRef, timer2s, screen, history, blobs>>
        /\ sockets' = (sockets \ {s}) \cup {[s EXCEPT !.phase = "deaf"]}
    BY <1>3 DEF ShellExits
  <2>2. s.id = wsRef
    BY <2>1 DEF TermInv, SocketsAreSound, SocketIsSound
  <2>3. SocketsAreSound'
    BY <2>1, <2>2, SocketGoesOn DEF TermInv
  <2> QED
    BY <2>1, <2>3 DEF TermInv, BlobsAreSound, ScreenIsSound
<1> QED
  BY <1>1, <1>2, <1>3

LEMMA OutputStep == ASSUME TermInv, NEW s \in sockets, Output(s) PROVE TermInv'
<1>1. s.id = wsRef /\ s.to = terminal /\ s.id # NoSocket
  BY DEF Output, TermInv, SocketsAreSound, SocketIsSound, NoSocket, SocketIds
<1>2. terminal # NoTerminal
  BY <1>1 DEF TermInv, ScreenIsSound
<1>3. blobs' = blobs \cup {[of |-> terminal, disposed |-> FALSE]}
  BY <1>1 DEF Output
<1>4. UNCHANGED <<terminal, sockets, wsRef, timer2s, screen, history>>
  BY DEF Output
<1>5. PICK new : new = [of |-> terminal, disposed |-> FALSE]
  OBVIOUS
<1>6. new = [of |-> new.of, disposed |-> new.disposed] /\ new.of = terminal /\ new.disposed = FALSE
  BY <1>5
<1>7. blobs' = blobs \cup {new}
  BY <1>3, <1>5
<1>8. BlobsAreSound'
  BY <1>2, <1>4, <1>6, <1>7 DEF TermInv, BlobsAreSound
<1> QED
  BY <1>4, <1>8 DEF TermInv, SocketsAreSound, SocketIsSound, ScreenIsSound

LEMMA WriteStep == ASSUME TermInv, NEW b \in blobs, Write(b) PROVE TermInv'
<1>1. UNCHANGED <<terminal, sockets, wsRef, timer2s, history>> /\ blobs' = blobs \ {b}
  BY DEF Write
<1>2. ScreenIsSound'
  <2>1. CASE b.disposed = TRUE
    BY <1>1, <2>1 DEF Write, TermInv, ScreenIsSound
  <2>2. CASE b.disposed = FALSE
    BY <1>1, <2>2 DEF Write, TermInv, BlobsAreSound, ScreenIsSound
  <2>3. b.disposed \in BOOLEAN
    BY DEF TermInv, BlobsAreSound
  <2> QED
    BY <2>1, <2>2, <2>3
<1> QED
  BY <1>1, <1>2 DEF TermInv, SocketsAreSound, SocketIsSound, BlobsAreSound

LEMMA KeyStep == ASSUME TermInv, Key PROVE TermInv'
<1>1. PICK s \in Held : Close(s)
  BY DEF Key
<1>2. SocketsAreSound'
  BY <1>1, FewerSockets DEF Close, TermInv
<1>3. terminal # NoTerminal
  BY DEF Held, TermInv, SocketsAreSound, SocketIsSound, ScreenIsSound, NoSocket, SocketIds
<1> QED
  BY <1>1, <1>2, <1>3 DEF Close, TermInv, BlobsAreSound, ScreenIsSound

LEMMA ReconnectStep == ASSUME TermInv, Reconnect2s PROVE TermInv'
<1>1. timer2s /\ timer2s' = FALSE /\ Connect(terminal, sockets \ Held) /\ UNCHANGED <<terminal, screen, history, blobs>>
  BY DEF Reconnect2s
<1>2. SocketsAreSound'
  BY <1>1, ConnectSockets DEF Held, TermInv
<1>3. terminal # NoTerminal
  BY <1>1 DEF TermInv, ScreenIsSound
<1> QED
  BY <1>1, <1>2, <1>3 DEF TermInv, BlobsAreSound, ScreenIsSound

LEMMA TermStep == TermInv /\ [TermNext]_termVars => TermInv'
<1> SUFFICES ASSUME TermInv, [TermNext]_termVars PROVE TermInv'
  OBVIOUS
<1>1. CASE UNCHANGED termVars
  BY <1>1 DEF termVars, TermInv, SocketsAreSound, SocketIsSound, BlobsAreSound, ScreenIsSound
<1> QED
  BY <1>1, MountStep, UnmountStep, SocketSteps, OutputStep, WriteStep, KeyStep, ReconnectStep DEF TermNext

LEMMA TermInvImplies == TermInv => TerminalIsOwn
BY DEF TermInv, SocketsAreSound, SocketIsSound, ScreenIsSound, TerminalIsOwn, OneShell, OutputIsOwn

(* For any instances, any number of visits, lost connections and shells    *)
(* that exit: one shell of the instance on screen, and the output of one   *)
(* instance's shell is neither shown nor kept for another                  *)
(* (components/XTerminal.tsx).                                             *)
THEOREM TerminalStaysOwn == TermSpec => []TerminalIsOwn
BY TermStart, TermStep, TermInvImplies, PTL DEF TermSpec

-----------------------------------------------------------------------------
(* Induction and recursion.  A set of natural numbers that holds 0 and,    *)
(* with a number, the next one, holds all.                                 *)
LEMMA Inductive ==
    ASSUME NEW S, 0 \in S, \A n \in Nat : n \in S => n + 1 \in S
    PROVE  \A n \in Nat : n \in S
<1> SUFFICES ASSUME NEW k \in Nat, k \notin S PROVE FALSE
  OBVIOUS
<1> DEFINE R == StrictSubsetOrdering(0..k)
           Bad == {0..j : j \in {i \in 0..k : i \notin S}}
<1>1. IsWellFoundedOn(R, SUBSET (0..k))
  <2>1. IsFiniteSet(0..k)
    BY FS_Interval
  <2> QED
    BY <2>1, FS_StrictSubsetOrderingWellFounded, FS_FiniteSubsetsOfFinite
<1>2. Bad \subseteq SUBSET (0..k) /\ Bad # {}
  <2>1. 0..k \in Bad
    OBVIOUS
  <2> QED
    BY <2>1
<1>3. PICK T \in Bad : \A U \in Bad : <<U, T>> \notin R
  <2> HIDE DEF R, Bad
  <2> QED
    BY <1>1, <1>2, WFMin
<1>4. PICK j \in 0..k : j \notin S /\ T = 0..j
  OBVIOUS
<1>5. j # 0
  BY <1>4
<1>6. j - 1 \in 0..k /\ j - 1 \in Nat /\ (j - 1) + 1 = j
  BY <1>5
<1>7. j - 1 \notin S
  BY <1>4, <1>6
<1>8. 0..(j - 1) \in Bad
  BY <1>6, <1>7
<1>9. 0..(j - 1) \subseteq 0..j /\ 0..(j - 1) # 0..j /\ 0..j \in SUBSET (0..k) /\ 0..(j - 1) \in SUBSET (0..k)
  <2>1. j \in 0..j /\ j \notin 0..(j - 1)
    OBVIOUS
  <2> QED
    BY <2>1
<1>10. <<0..(j - 1), 0..j>> \in R
  BY <1>9 DEF StrictSubsetOrdering
<1> QED
  BY <1>3, <1>4, <1>8, <1>10

(* A function on the natural numbers that is given at 0 and, at each next  *)
(* number, by its value before exists and has its values in V.             *)
ByStep(f, V, a, step) == f \in [Nat -> V] /\ f[0] = a /\ \A n \in Nat \ {0} : f[n] = step[n][f[n - 1]]

LEMMA Recursion ==
    ASSUME NEW V, NEW a \in V, NEW step \in [Nat -> [V -> V]]
    PROVE  \E f : ByStep(f, V, a, step)
<1> DEFINE Fits(g, k) == g \in [0..k -> V] /\ g[0] = a /\ \A n \in 1..k : g[n] = step[n][g[n - 1]]
           Reached == {k \in Nat : \E g \in [0..k -> V] : Fits(g, k)}
           Single == {k \in Nat : \A g, h : \A i \in Nat : Fits(g, k) /\ Fits(h, k + i) => g[k] = h[k]}
<1>1. \A k \in Nat : k \in Reached
  <2>1. 0 \in Reached
    <3>1. Fits([n \in 0..0 |-> a], 0)
      OBVIOUS
    <3> QED
      BY <3>1
  <2>2. ASSUME NEW k \in Nat, k \in Reached PROVE k + 1 \in Reached
    <3>1. PICK g \in [0..k -> V] : Fits(g, k)
      BY <2>2
    <3> DEFINE h == [n \in 0..(k + 1) |-> IF n = k + 1 THEN step[k + 1][g[k]] ELSE g[n]]
    <3>2. g[k] \in V /\ step[k + 1] \in [V -> V]
      OBVIOUS
    <3>3. h \in [0..(k + 1) -> V]
      BY <3>2
    <3>4. h[0] = a
      BY <3>1
    <3>5. \A n \in 1..(k + 1) : h[n] = step[n][h[n - 1]]
      <4> SUFFICES ASSUME NEW n \in 1..(k + 1) PROVE h[n] = step[n][h[n - 1]]
        OBVIOUS
      <4>1. CASE n = k + 1
        BY <4>1
      <4>2. CASE n # k + 1
        <5>1. n \in 1..k /\ n - 1 \in 0..k /\ n \in 0..(k + 1) /\ n - 1 \in 0..(k + 1) /\ n - 1 # k + 1
          BY <4>2
        <5>2. h[n] = g[n] /\ h[n - 1] = g[n - 1]
          BY <5>1, <4>2
        <5> HIDE DEF h
        <5> QED
          BY <3>1, <5>1, <5>2
      <4> QED
        BY <4>1, <4>2
    <3> HIDE DEF h
    <3>6. Fits(h, k + 1)
      BY <3>3, <3>4, <3>5
    <3> QED
      BY <3>3, <3>6
  <2> HIDE DEF Reached
  <2> QED
    BY <2>1, <2>2, Inductive
<1> DEFINE G == [k \in Nat |-> CHOOSE g \in [0..k -> V] : Fits(g, k)]
<1>2. \A k \in Nat : Fits(G[k], k)
  BY <1>1
<1>3. \A k \in Nat : k \in Single
  <2>1. 0 \in Single
    OBVIOUS
  <2>2. ASSUME NEW k \in Nat, k \in Single PROVE k + 1 \in Single
    <3> SUFFICES \A g, h : \A i \in Nat : Fits(g, k + 1) /\ Fits(h, (k + 1) + i) => g[k + 1] = h[k + 1]
      <4> HIDE DEF Fits
      <4> QED
        OBVIOUS
    <3> SUFFICES ASSUME NEW g, NEW h, NEW i \in Nat, Fits(g, k + 1), Fits(h, (k + 1) + i) PROVE g[k + 1] = h[k + 1]
      <4> HIDE DEF Fits
      <4> QED
        OBVIOUS
    <3> DEFINE e == [n \in 0..k |-> g[n]]
    <3>1. Fits(e, k)
      <4>1. e \in [0..k -> V]
        <5>1. \A n \in 0..k : n \in 0..(k + 1)
          OBVIOUS
        <5> QED
          BY <5>1
      <4>2. e[0] = a
        OBVIOUS
      <4>3. \A n \in 1..k : n \in 1..(k + 1) /\ n \in 0..k /\ n - 1 \in 0..k
        OBVIOUS
      <4>4. \A n \in 1..k : e[n] = step[n][e[n - 1]]
        BY <4>3
      <4> QED
        BY <4>1, <4>2, <4>4
    <3>2. i + 1 \in Nat /\ k + (i + 1) = (k + 1) + i
      OBVIOUS
    <3>3. e[k] = h[k]
      <4> HIDE DEF e, Fits
      <4>1. Fits(h, k + (i + 1))
        BY <3>2
      <4> QED
        BY <3>1, <3>2, <4>1, <2>2
    <3>4. e[k] = g[k]
      OBVIOUS
    <3>5. k + 1 \in 1..(k + 1) /\ k + 1 \in 1..((k + 1) + i) /\ (k + 1) - 1 = k
      OBVIOUS
    <3>6. g[k + 1] = step[k + 1][g[k]] /\ h[k + 1] = step[k + 1][h[k]]
      BY <3>5
    <3> QED
      BY <3>3, <3>4, <3>6
  <2> HIDE DEF Single
  <2> QED
    BY <2>1, <2>2, Inductive
<1> DEFINE f == [k \in Nat |-> G[k][k]]
<1>4. f \in [Nat -> V]
  <2> HIDE DEF G
  <2>1. \A k \in Nat : G[k][k] \in V
    BY <1>2
  <2> QED
    BY <2>1
<1>5. ASSUME NEW n \in Nat PROVE f[n] = IF n = 0 THEN a ELSE step[n][f[n - 1]]
  <2> HIDE DEF G
  <2>1. CASE n = 0
    BY <1>2, <2>1
  <2>2. CASE n # 0
    <3>1. n - 1 \in Nat /\ 1 \in Nat /\ (n - 1) + 1 = n /\ n \in 1..n
      BY <2>2
    <3>2. G[n][n] = step[n][G[n][n - 1]]
      BY <1>2, <3>1
    <3>3. Fits(G[n - 1], n - 1) /\ Fits(G[n], (n - 1) + 1)
      BY <1>2, <3>1
    <3>4. G[n - 1][n - 1] = G[n][n - 1]
      <4> HIDE DEF Fits
      <4> QED
        BY <1>3, <3>1, <3>3
    <3> QED
      BY <2>2, <3>1, <3>2, <3>4
  <2> QED
    BY <2>1, <2>2
<1> HIDE DEF f
<1>6. ByStep(f, V, a, step)
  BY <1>4, <1>5 DEF ByStep
<1> QED
  BY <1>6

-----------------------------------------------------------------------------
(* Discovery: addresses as numbers.  The powers of two.                    *)
LEMMA Pow2Def == Pow2 \in [Nat -> Nat] /\ Pow2 = [n \in Nat |-> IF n = 0 THEN 1 ELSE 2 * Pow2[n - 1]]
<1> DEFINE twice == [n \in Nat |-> [v \in Nat |-> 2 * v]]
<1>1. twice \in [Nat -> [Nat -> Nat]] /\ 1 \in Nat
  OBVIOUS
<1>2. \A n, v \in Nat : twice[n][v] = 2 * v
  OBVIOUS
<1> HIDE DEF twice
<1>3. PICK f : ByStep(f, Nat, 1, twice)
  BY <1>1, Recursion
<1> DEFINE g(h) == [n \in Nat |-> IF n = 0 THEN 1 ELSE 2 * h[n - 1]]
<1>4. f = g(f)
  <2>1. \A n \in Nat \ {0} : f[n - 1] \in Nat
    BY <1>3 DEF ByStep
  <2>2. \A n \in Nat : f[n] = IF n = 0 THEN 1 ELSE 2 * f[n - 1]
    BY <1>2, <1>3, <2>1 DEF ByStep
  <2>3. f = [n \in Nat |-> f[n]]
    BY <1>3 DEF ByStep
  <2> QED
    BY <2>2, <2>3
<1>5. Pow2 = CHOOSE h : h = g(h)
  BY DEF Pow2
<1>6. Pow2 = g(Pow2)
  <2> HIDE DEF g
  <2> QED
    BY <1>4, <1>5
<1>7. Pow2[0] = 1 /\ \A n \in Nat : Pow2[n + 1] = 2 * Pow2[n]
  <2>1. \A n \in Nat : n + 1 \in Nat /\ n + 1 # 0 /\ (n + 1) - 1 = n
    OBVIOUS
  <2> QED
    BY <1>6, <2>1
<1>8. \A n \in Nat : Pow2[n] \in Nat
  <2> DEFINE S == {n \in Nat : Pow2[n] \in Nat}
  <2>1. 0 \in S /\ \A n \in Nat : n \in S => n + 1 \in S
    BY <1>7
  <2> HIDE DEF S
  <2>2. \A n \in Nat : n \in S
    BY <2>1, Inductive
  <2> QED
    BY <2>2 DEF S
<1> QED
  BY <1>6, <1>8

LEMMA Pow2Next == Pow2[0] = 1 /\ \A n \in Nat : Pow2[n] \in Nat /\ Pow2[n] >= 1 /\ Pow2[n + 1] = 2 * Pow2[n]
<1>1. Pow2[0] = 1 /\ \A n \in Nat : Pow2[n] \in Nat /\ Pow2[n + 1] = 2 * Pow2[n]
  <2>1. \A n \in Nat : n + 1 \in Nat /\ n + 1 # 0 /\ (n + 1) - 1 = n
    OBVIOUS
  <2> QED
    BY <2>1, Pow2Def
<1> DEFINE S == {n \in Nat : Pow2[n] >= 1}
<1>2. 0 \in S /\ \A n \in Nat : n \in S => n + 1 \in S
  BY <1>1
<1>3. \A n \in Nat : n \in S
  <2> HIDE DEF S
  <2> QED
    BY <1>2, Inductive
<1> QED
  BY <1>1, <1>3

LEMMA Pow2Sum == \A a, b \in Nat : Pow2[a + b] = Pow2[a] * Pow2[b]
<1> SUFFICES ASSUME NEW a \in Nat PROVE \A b \in Nat : Pow2[a + b] = Pow2[a] * Pow2[b]
  OBVIOUS
<1> DEFINE S == {b \in Nat : Pow2[a + b] = Pow2[a] * Pow2[b]}
<1>1. 0 \in S
  BY Pow2Next
<1>2. ASSUME NEW b \in Nat, b \in S PROVE b + 1 \in S
  <2>1. PICK p \in Nat, q \in Nat : p = Pow2[a] /\ q = Pow2[b]
    BY Pow2Next
  <2>2. Pow2[a + b] = p * q
    BY <1>2, <2>1
  <2>3. a + b \in Nat /\ a + (b + 1) = (a + b) + 1
    OBVIOUS
  <2>4. Pow2[a + (b + 1)] = 2 * (p * q)
    BY <2>2, <2>3, Pow2Next
  <2>5. Pow2[b + 1] = 2 * q
    BY <2>1, Pow2Next
  <2>6. 2 * (p * q) = p * (2 * q)
    OBVIOUS
  <2> QED
    BY <2>1, <2>4, <2>5, <2>6
<1>3. \A b \in Nat : b \in S
  <2> HIDE DEF S
  <2> QED
    BY <1>1, <1>2, Inductive
<1> QED
  BY <1>3

LEMMA Pow2AtLeast2 == \A n \in Nat \ {0} : Pow2[n] >= 2
<1> SUFFICES ASSUME NEW n \in Nat, n # 0 PROVE Pow2[n] >= 2
  OBVIOUS
<1>1. n - 1 \in Nat /\ (n - 1) + 1 = n
  OBVIOUS
<1>2. PICK p \in Nat : p = Pow2[n - 1] /\ p >= 1 /\ Pow2[n] = 2 * p
  BY <1>1, Pow2Next
<1> QED
  BY <1>2

(* The first j bytes of an address, as a number.                           *)
IsSum(S, ip) ==
    S \in [0..Bytes -> Nat] /\ S[0] = 0 /\ \A j \in 1..Bytes : S[j] = S[j - 1] * Pow2[Bits] + ip[j]

LEMMA InductiveTo ==
    ASSUME NEW k \in Nat, NEW S, 0 \in S, \A j \in 1..k : j - 1 \in S => j \in S
    PROVE  \A j \in 0..k : j \in S
<1> DEFINE T == {n \in Nat : n \in 0..k => n \in S}
<1>1. 0 \in T
  OBVIOUS
<1>2. ASSUME NEW n \in Nat, n \in T PROVE n + 1 \in T
  <2>1. n + 1 \in 0..k => n \in 0..k /\ n + 1 \in 1..k /\ (n + 1) - 1 = n
    OBVIOUS
  <2> QED
    BY <1>2, <2>1
<1>3. \A n \in Nat : n \in T
  <2> HIDE DEF T
  <2> QED
    BY <1>1, <1>2, Inductive
<1> QED
  BY <1>3

LEMMA Powers ==
    /\ Bytes \in Nat /\ Bytes >= 1 /\ Bits \in Nat /\ Bits >= 1
    /\ Pow2[Bits] \in Nat /\ Pow2[Bits] >= 2
    /\ \A j \in 0..Bytes : j * Bits \in Nat
    /\ \A j \in 1..Bytes : /\ j * Bits = (j - 1) * Bits + Bits
                           /\ Pow2[j * Bits] = Pow2[(j - 1) * Bits] * Pow2[Bits]
    /\ \A j \in 0..Bytes : Pow2[j * Bits] \in Nat /\ Pow2[j * Bits] >= 1
<1>1. Bytes \in Nat /\ Bytes >= 1 /\ Bits \in Nat /\ Bits >= 1
  BY DiscoveryAssumption
<1>2. Pow2[Bits] \in Nat /\ Pow2[Bits] >= 2
  BY <1>1, Pow2Next, Pow2AtLeast2
<1>3. \A j \in 0..Bytes : j * Bits \in Nat
  BY <1>1
<1>4. ASSUME NEW j \in 1..Bytes
      PROVE  j * Bits = (j - 1) * Bits + Bits /\ Pow2[j * Bits] = Pow2[(j - 1) * Bits] * Pow2[Bits]
  <2>1. j * Bits = (j - 1) * Bits + Bits
    BY <1>1
  <2>2. (j - 1) * Bits \in Nat
    BY <1>1
  <2> QED
    BY <1>1, <2>1, <2>2, Pow2Sum
<1> QED
  BY <1>1, <1>2, <1>3, <1>4, Pow2Next

LEMMA NumberIsSum ==
    ASSUME NEW ip, \A j \in 1..Bytes : ip[j] \in Nat
    PROVE  \E S : IsSum(S, ip) /\ Number(ip) = S[Bytes]
<1> DEFINE shift == [n \in Nat |-> [v \in Nat |-> IF n \in 1..Bytes THEN v * Pow2[Bits] + ip[n] ELSE v]]
           g(h) == [j \in 0..Bytes |-> IF j = 0 THEN 0 ELSE h[j - 1] * Pow2[Bits] + ip[j]]
           Sum[j \in 0..Bytes] == IF j = 0 THEN 0 ELSE Sum[j - 1] * Pow2[Bits] + ip[j]
<1>1. \A n, v \in Nat : shift[n][v] = IF n \in 1..Bytes THEN v * Pow2[Bits] + ip[n] ELSE v
  OBVIOUS
<1>2. shift \in [Nat -> [Nat -> Nat]]
  <2>1. \A n, v \in Nat : (IF n \in 1..Bytes THEN v * Pow2[Bits] + ip[n] ELSE v) \in Nat
    BY Powers
  <2> QED
    BY <2>1
<1> HIDE DEF shift
<1>3. PICK f : ByStep(f, Nat, 0, shift)
  BY <1>2, Recursion
<1> DEFINE e == [j \in 0..Bytes |-> f[j]]
<1>4. e \in [0..Bytes -> Nat] /\ \A j \in 0..Bytes : e[j] = IF j = 0 THEN 0 ELSE e[j - 1] * Pow2[Bits] + ip[j]
  <2>1. \A j \in 0..Bytes : j \in Nat /\ e[j] = f[j] /\ f[j] \in Nat
    BY <1>3 DEF ByStep
  <2>2. e[0] = 0
    BY <1>3, <2>1, Powers DEF ByStep
  <2>3. ASSUME NEW j \in 1..Bytes PROVE e[j] = e[j - 1] * Pow2[Bits] + ip[j]
    <3>1. j \in Nat \ {0} /\ j - 1 \in 0..Bytes /\ j \in 0..Bytes
      BY Powers
    <3>2. f[j] = shift[j][f[j - 1]]
      BY <1>3, <3>1 DEF ByStep
    <3>3. f[j - 1] \in Nat
      BY <2>1, <3>1
    <3> HIDE DEF e
    <3> QED
      BY <1>1, <2>1, <3>1, <3>2, <3>3
  <2>4. e \in [0..Bytes -> Nat]
    BY <2>1
  <2>5. \A j \in 0..Bytes : j # 0 => j \in 1..Bytes
    OBVIOUS
  <2> HIDE DEF e
  <2> QED
    BY <2>2, <2>3, <2>4, <2>5
<1>5. e = g(e)
  <2>1. e = [j \in 0..Bytes |-> e[j]]
    OBVIOUS
  <2> HIDE DEF e
  <2> QED
    BY <1>4, <2>1
<1>6. Sum = g(Sum)
  <2>1. Sum = CHOOSE h : h = g(h)
    OBVIOUS
  <2> HIDE DEF g, Sum, e
  <2> QED
    BY <1>5, <2>1
<1>7. Number(ip) = Sum[Bytes]
  BY DEF Number
<1> HIDE DEF Sum, e
<1>8. \A j \in 0..Bytes : Sum[j] = IF j = 0 THEN 0 ELSE Sum[j - 1] * Pow2[Bits] + ip[j]
  BY <1>6
<1> DEFINE S == {j \in 0..Bytes : Sum[j] \in Nat}
<1>9. Sum[0] = 0 /\ \A j \in 1..Bytes : Sum[j] = Sum[j - 1] * Pow2[Bits] + ip[j]
  <2>1. 0 \in 0..Bytes /\ \A j \in 1..Bytes : j \in 0..Bytes /\ j # 0
    BY Powers
  <2> QED
    BY <1>8, <2>1
<1>10. 0 \in S /\ \A j \in 1..Bytes : j - 1 \in S => j \in S
  <2>1. 0 \in S
    BY <1>9, Powers
  <2>2. ASSUME NEW j \in 1..Bytes, j - 1 \in S PROVE j \in S
    <3>1. PICK a \in Nat : a = Sum[j - 1]
      BY <2>2
    <3>2. Sum[j] = a * Pow2[Bits] + ip[j]
      BY <1>9, <3>1
    <3>3. Sum[j] \in Nat /\ j \in 0..Bytes
      BY <3>2, Powers
    <3> QED
      BY <3>3
  <2> QED
    BY <2>1, <2>2
<1>11. \A j \in 0..Bytes : Sum[j] \in Nat
  <2>1. \A j \in 0..Bytes : j \in S
    <3> HIDE DEF S
    <3> QED
      BY <1>10, Powers, InductiveTo
  <2> QED
    BY <2>1
<1>12. Sum = [j \in 0..Bytes |-> Sum[j]]
  BY <1>6
<1>13. IsSum(Sum, ip)
  BY <1>9, <1>11, <1>12 DEF IsSum
<1> QED
  BY <1>7, <1>13

(* What an address is worth, and that it is worth no other's.              *)
LEMMA AddressBytes ==
    ASSUME NEW ip \in Address
    PROVE  /\ \A j \in 1..Bytes : ip[j] \in Nat /\ ip[j] < Pow2[Bits] /\ ip[j] <= Pow2[Bits] - 1
           /\ ip = [j \in 1..Bytes |-> ip[j]]
<1>1. PICK n \in Nat : n = Pow2[Bits] /\ n >= 2
  BY Powers
<1>2. ip \in [1..Bytes -> 0..n - 1]
  BY <1>1 DEF Address
<1>3. \A j \in 1..Bytes : ip[j] \in 0..n - 1
  BY <1>2
<1> QED
  BY <1>1, <1>2, <1>3

LEMMA SumStep ==
    ASSUME NEW S, NEW ip, IsSum(S, ip), NEW j \in 1..Bytes
    PROVE  j - 1 \in 0..Bytes /\ j \in 0..Bytes /\ S[j - 1] \in Nat /\ S[j] \in Nat
           /\ S[j] = S[j - 1] * Pow2[Bits] + ip[j]
<1>1. j - 1 \in 0..Bytes /\ j \in 0..Bytes
  BY Powers
<1> QED
  BY <1>1 DEF IsSum

LEMMA SumRange ==
    ASSUME NEW ip \in Address, NEW S, IsSum(S, ip)
    PROVE  \A j \in 0..Bytes : S[j] < Pow2[j * Bits]
<1> DEFINE T == {j \in 0..Bytes : S[j] < Pow2[j * Bits]}
<1>1. 0 \in T
  <2>1. 0 * Bits = 0 /\ 0 \in 0..Bytes
    BY Powers
  <2> QED
    BY <2>1, Pow2Next DEF IsSum
<1>2. ASSUME NEW j \in 1..Bytes, j - 1 \in T PROVE j \in T
  <2>1. PICK a \in Nat, p \in Nat, b \in Nat, x \in Nat :
          a = S[j - 1] /\ p = Pow2[(j - 1) * Bits] /\ b = Pow2[Bits] /\ x = ip[j]
    <3>1. S[j - 1] \in Nat /\ Pow2[(j - 1) * Bits] \in Nat
      BY SumStep, Powers
    <3>2. ip[j] \in Nat /\ Pow2[Bits] \in Nat
      BY AddressBytes, Powers
    <3> QED
      BY <3>1, <3>2
  <2>2. a + 1 <= p /\ x <= b - 1
    BY <1>2, <2>1, AddressBytes
  <2>3. S[j] = a * b + x /\ Pow2[j * Bits] = p * b
    BY <2>1, Powers DEF IsSum
  <2>4. (a + 1) * b <= p * b
    BY <2>2
  <2>5. (a + 1) * b = a * b + b
    OBVIOUS
  <2>6. a * b \in Nat /\ p * b \in Nat
    OBVIOUS
  <2>7. S[j] < Pow2[j * Bits]
    BY <2>2, <2>3, <2>4, <2>5, <2>6
  <2> QED
    BY <2>7, Powers
<1> HIDE DEF T
<1>3. \A j \in 0..Bytes : j \in T
  BY <1>1, <1>2, Powers, InductiveTo
<1> QED
  BY <1>3 DEF T

LEMMA SumInjective ==
    ASSUME NEW a \in Address, NEW b \in Address, NEW S, NEW T, IsSum(S, a), IsSum(T, b), S[Bytes] = T[Bytes]
    PROVE  a = b
<1> DEFINE U == {j \in 0..Bytes : S[j] = T[j] => \A k \in 1..j : a[k] = b[k]}
<1>1. 0 \in U
  BY Powers
<1>2. ASSUME NEW j \in 1..Bytes, j - 1 \in U PROVE j \in U
  <2> SUFFICES ASSUME S[j] = T[j] PROVE \A k \in 1..j : a[k] = b[k]
    BY Powers
  <2>1. PICK s \in Nat, t \in Nat, n \in Nat, x \in Nat, y \in Nat :
          s = S[j - 1] /\ t = T[j - 1] /\ n = Pow2[Bits] /\ x = a[j] /\ y = b[j]
    <3>1. S[j - 1] \in Nat /\ T[j - 1] \in Nat
      BY SumStep
    <3>2. a[j] \in Nat /\ b[j] \in Nat /\ Pow2[Bits] \in Nat
      BY AddressBytes, Powers
    <3> QED
      BY <3>1, <3>2
  <2>2. x < n /\ y < n
    BY <2>1, AddressBytes
  <2>3. s * n + x = t * n + y
    BY <2>1 DEF IsSum
  <2>4. s = t
    <3>1. ASSUME s < t PROVE FALSE
      <4>1. (s + 1) * n <= t * n
        BY <3>1
      <4>2. (s + 1) * n = s * n + n /\ s * n \in Nat /\ t * n \in Nat
        OBVIOUS
      <4> QED
        BY <2>2, <2>3, <4>1, <4>2
    <3>2. ASSUME t < s PROVE FALSE
      <4>1. (t + 1) * n <= s * n
        BY <3>2
      <4>2. (t + 1) * n = t * n + n /\ s * n \in Nat /\ t * n \in Nat
        OBVIOUS
      <4> QED
        BY <2>2, <2>3, <4>1, <4>2
    <3> QED
      BY <3>1, <3>2
  <2>5. x = y
    <3>1. s * n \in Nat
      OBVIOUS
    <3> QED
      BY <2>3, <2>4, <3>1
  <2>6. \A k \in 1..(j - 1) : a[k] = b[k]
    BY <1>2, <2>1, <2>4
  <2>7. \A k \in 1..j : k = j \/ k \in 1..(j - 1)
    OBVIOUS
  <2> QED
    BY <2>1, <2>5, <2>6, <2>7
<1> HIDE DEF U
<1>3. \A j \in 0..Bytes : j \in U
  BY <1>1, <1>2, Powers, InductiveTo
<1>4. \A k \in 1..Bytes : a[k] = b[k]
  BY <1>3, Powers DEF U
<1>5. a = [k \in 1..Bytes |-> a[k]] /\ b = [k \in 1..Bytes |-> b[k]]
  BY AddressBytes
<1> QED
  BY <1>4, <1>5

LEMMA AddressNumber ==
    ASSUME NEW ip \in Address
    PROVE  Number(ip) \in Nat /\ Number(ip) < Pow2[Bytes * Bits]
<1>1. \A j \in 1..Bytes : ip[j] \in Nat
  BY AddressBytes
<1>2. PICK S : IsSum(S, ip) /\ Number(ip) = S[Bytes]
  BY <1>1, NumberIsSum
<1>3. Bytes \in 0..Bytes
  BY Powers
<1>4. S[Bytes] \in Nat
  BY <1>2, <1>3 DEF IsSum
<1>5. S[Bytes] < Pow2[Bytes * Bits]
  BY <1>2, <1>3, SumRange
<1> QED
  BY <1>2, <1>4, <1>5

LEMMA NumberInjective ==
    ASSUME NEW a \in Address, NEW b \in Address, Number(a) = Number(b) PROVE a = b
<1>1. (\A j \in 1..Bytes : a[j] \in Nat) /\ (\A j \in 1..Bytes : b[j] \in Nat)
  BY Powers DEF Address
<1>2. PICK S : IsSum(S, a) /\ Number(a) = S[Bytes]
  BY <1>1, NumberIsSum
<1>3. PICK T : IsSum(T, b) /\ Number(b) = T[Bytes]
  BY <1>1, NumberIsSum
<1> QED
  BY <1>2, <1>3, SumInjective

LEMMA IncIPType == ASSUME NEW ip \in Address PROVE IncIP(ip) \in Address
<1>1. \A j \in 1..Bytes : (ip[j] + 1) % Pow2[Bits] \in 0..Pow2[Bits] - 1
  <2>1. \A x, n \in Nat : n > 0 => (x + 1) % n \in 0..n - 1
    OBVIOUS
  <2> QED
    BY <2>1, Powers DEF Address
<1> QED
  BY <1>1 DEF IncIP, Address

(* incIP, which adds to bytes from the last one and carries while a byte   *)
(* becomes zero, counts one up, and from the last address to the first:    *)
(* for any number of bytes of any number of bits.                          *)
THEOREM IncIPNumber ==
    ASSUME NEW ip \in Address
    PROVE  Number(IncIP(ip)) = IF Number(ip) + 1 = Pow2[Bytes * Bits] THEN 0 ELSE Number(ip) + 1
<1>1. PICK n \in Nat : n = Pow2[Bits] /\ n >= 2
  BY Powers
<1>2. PICK up \in Address : up = IncIP(ip)
  BY IncIPType
<1>3. (\A j \in 1..Bytes : ip[j] \in 0..n - 1) /\ (\A j \in 1..Bytes : up[j] \in 0..n - 1)
  BY <1>1 DEF Address
<1>4. PICK S : IsSum(S, ip) /\ Number(ip) = S[Bytes]
  BY <1>3, NumberIsSum
<1>5. PICK T : IsSum(T, up) /\ Number(up) = T[Bytes]
  BY <1>3, NumberIsSum
<1>6. Number(up) < Pow2[Bytes * Bits] /\ Number(up) \in Nat /\ Number(ip) < Pow2[Bytes * Bits] /\ Number(ip) \in Nat
  BY AddressNumber
<1> DEFINE full(j) == \A k \in j + 1..Bytes : ip[k] = n - 1
<1>7. \A j \in 1..Bytes : up[j] = IF full(j) THEN (ip[j] + 1) % n ELSE ip[j]
  BY <1>1, <1>2 DEF IncIP
<1>8. \A j \in 1..Bytes : full(j - 1) <=> full(j) /\ ip[j] = n - 1
  <2> SUFFICES ASSUME NEW j \in 1..Bytes PROVE full(j - 1) <=> full(j) /\ ip[j] = n - 1
    OBVIOUS
  <2>1. \A k : k \in (j - 1) + 1..Bytes <=> k = j \/ k \in j + 1..Bytes
    BY Powers
  <2> QED
    BY <2>1
<1>9. full(Bytes)
  BY Powers
<1>10. \A j \in 1..Bytes : /\ j - 1 \in 0..Bytes /\ S[j - 1] \in Nat /\ T[j - 1] \in Nat
                           /\ S[j] = S[j - 1] * n + ip[j] /\ T[j] = T[j - 1] * n + up[j]
  BY <1>1, <1>4, <1>5, Powers DEF IsSum
<1>11. (n - 1) + 1 = n /\ n % n = 0 /\ \A x \in 0..n - 1 : x # n - 1 => (x + 1) % n = x + 1
  BY <1>1
<1>12. ASSUME full(0)
       PROVE  T[Bytes] = 0 /\ S[Bytes] + 1 = Pow2[Bytes * Bits]
  <2> DEFINE U == {j \in 0..Bytes : T[j] = 0 /\ S[j] + 1 = Pow2[j * Bits]}
  <2>1. \A j \in 1..Bytes : full(j) /\ ip[j] = n - 1
    BY <1>12, Powers
  <2>2. \A j \in 1..Bytes : up[j] = 0
    BY <1>7, <1>11, <2>1
  <2>3. 0 \in U
    <3>1. 0 * Bits = 0 /\ 0 \in 0..Bytes
      BY Powers
    <3> QED
      BY <1>4, <1>5, <3>1, Pow2Next DEF IsSum
  <2>4. ASSUME NEW j \in 1..Bytes, j - 1 \in U PROVE j \in U
    <3>1. PICK s \in Nat, p \in Nat : s = S[j - 1] /\ p = Pow2[(j - 1) * Bits] /\ s + 1 = p /\ T[j - 1] = 0
      BY <1>10, <2>4, Powers
    <3>2. S[j] = s * n + (n - 1) /\ T[j] = 0 * n + 0 /\ Pow2[j * Bits] = p * n
      BY <1>1, <1>10, <2>1, <2>2, <3>1, Powers
    <3>3. (s + 1) * n = s * n + n /\ s * n \in Nat
      BY <1>1
    <3>4. S[j] + 1 = Pow2[j * Bits] /\ T[j] = 0
      BY <1>1, <3>1, <3>2, <3>3
    <3> QED
      BY <3>4, Powers
  <2> HIDE DEF U, full
  <2>5. \A j \in 0..Bytes : j \in U
    BY <2>3, <2>4, Powers, InductiveTo
  <2> QED
    BY <2>5, Powers DEF U
<1>13. ASSUME ~full(0)
       PROVE  T[Bytes] = S[Bytes] + 1
  <2> DEFINE U == {j \in 0..Bytes : T[j] = IF full(j) THEN S[j] + 1 ELSE S[j]}
  <2>1. 0 \in U
    BY <1>4, <1>5, <1>13, Powers DEF IsSum
  <2>2. ASSUME NEW j \in 1..Bytes, j - 1 \in U PROVE j \in U
    <3>1. PICK s \in Nat, t \in Nat, x \in 0..n - 1 : s = S[j - 1] /\ t = T[j - 1] /\ x = ip[j]
      BY <1>3, <1>10
    <3>2. t = IF full(j - 1) THEN s + 1 ELSE s
      BY <2>2, <3>1
    <3>3. S[j] = s * n + x /\ T[j] = t * n + up[j] /\ s * n \in Nat
      BY <1>10, <3>1
    <3>4. CASE ~full(j)
      <4>1. t = s /\ up[j] = x
        BY <1>7, <1>8, <3>1, <3>2, <3>4
      <4> HIDE DEF full
      <4> QED
        BY <3>3, <3>4, <4>1, Powers
    <3>5. CASE full(j) /\ x = n - 1
      <4>1. t = s + 1 /\ up[j] = 0
        <5>1. full(j - 1)
          BY <1>8, <3>1, <3>5
        <5>2. up[j] = (ip[j] + 1) % n
          BY <1>7, <3>5
        <5> HIDE DEF full
        <5> QED
          BY <1>11, <3>1, <3>2, <3>5, <5>1, <5>2
      <4>2. (s + 1) * n = s * n + n
        OBVIOUS
      <4> HIDE DEF full
      <4>3. T[j] = S[j] + 1
        BY <1>1, <3>3, <3>5, <4>1, <4>2
      <4> QED
        BY <3>5, <4>3, Powers
    <3>6. CASE full(j) /\ x # n - 1
      <4>1. t = s /\ up[j] = x + 1
        BY <1>7, <1>8, <1>11, <3>1, <3>2, <3>6
      <4> HIDE DEF full
      <4>3. T[j] = S[j] + 1
        BY <1>1, <3>3, <4>1
      <4> QED
        BY <3>6, <4>3, Powers
    <3> QED
      BY <3>4, <3>5, <3>6
  <2> HIDE DEF U, full
  <2>3. \A j \in 0..Bytes : j \in U
    BY <2>1, <2>2, Powers, InductiveTo
  <2> QED
    BY <1>9, <2>3, Powers DEF U
<1> HIDE DEF full
<1> QED
  BY <1>2, <1>4, <1>5, <1>6, <1>12, <1>13, Powers

(* Division.                                                               *)
LEMMA Divided ==
    ASSUME NEW x \in Nat, NEW n \in Nat, n > 0
    PROVE  \E a, c \in Nat : a = x \div n /\ c < n /\ x = a * n + c
<1>1. PICK a \in Nat : a = x \div n
  OBVIOUS
<1>2. n * a <= x /\ n * a > x - n
  BY <1>1
<1>3. n * a = a * n /\ a * n \in Nat
  OBVIOUS
<1>4. PICK c \in Nat : c = x - a * n
  BY <1>2, <1>3
<1> QED
  BY <1>1, <1>2, <1>3, <1>4

LEMMA Quotient ==
    ASSUME NEW q \in Nat, NEW r \in Nat, NEW n \in Nat, r < n PROVE (q * n + r) \div n = q
<1>1. PICK x \in Nat : x = q * n + r
  OBVIOUS
<1>2. PICK p, c \in Nat : p = x \div n /\ c < n /\ x = p * n + c
  BY Divided
<1>3. q * n \in Nat /\ p * n \in Nat /\ (p + 1) * n = p * n + n /\ (q + 1) * n = q * n + n
  OBVIOUS
<1>4. ASSUME p < q PROVE FALSE
  <2>1. (p + 1) * n <= q * n
    BY <1>4
  <2> QED
    BY <1>1, <1>2, <1>3, <2>1
<1>5. ASSUME q < p PROVE FALSE
  <2>1. (q + 1) * n <= p * n
    BY <1>5
  <2> QED
    BY <1>1, <1>2, <1>3, <2>1
<1>6. p = q
  BY <1>4, <1>5
<1> QED
  BY <1>1, <1>2, <1>6

(* A byte of an address, and of the first and the last address of its      *)
(* subnet.                                                                 *)
LEMMA FreeBitsType ==
    ASSUME NEW ones \in Nat, NEW j \in 1..Bytes
    PROVE  FreeBits(j, ones) \in 0..Bits
<1>1. PICK e \in Nat, d \in Nat : e = j * Bits /\ d = (j - 1) * Bits /\ e = d + Bits
  <2>1. j - 1 \in 0..Bytes /\ j \in 0..Bytes
    BY Powers
  <2> QED
    BY <2>1, Powers
<1>2. FreeBits(j, ones) = IF ones >= e THEN 0 ELSE IF ones <= d THEN Bits ELSE e - ones
  BY <1>1 DEF FreeBits
<1> QED
  BY <1>1, <1>2, Powers

LEMMA MaskByte ==
    ASSUME NEW ip \in Address, NEW ones \in Nat, NEW j \in 1..Bytes
    PROVE  \E n, m, a, c \in Nat :
             /\ n = Pow2[FreeBits(j, ones)] /\ Pow2[Bits] = n * m
             /\ c < n /\ a < m /\ ip[j] = a * n + c
             /\ Mask(ip, ones)[j] = a * n
             /\ LastIP(ip, ones)[j] = a * n + (n - 1)
<1>1. PICK f \in 0..Bits : f = FreeBits(j, ones)
  BY FreeBitsType
<1>2. f \in Nat /\ Bits - f \in Nat /\ f + (Bits - f) = Bits
  BY Powers
<1>3. PICK n \in Nat, m \in Nat : n = Pow2[f] /\ m = Pow2[Bits - f] /\ n >= 1 /\ Pow2[Bits] = n * m
  <2>1. Pow2[f] \in Nat /\ Pow2[f] >= 1 /\ Pow2[Bits - f] \in Nat
    BY <1>2, Pow2Next
  <2>2. Pow2[f + (Bits - f)] = Pow2[f] * Pow2[Bits - f]
    BY <1>2, Pow2Sum
  <2> QED
    BY <1>2, <2>1, <2>2
<1>4. PICK x \in Nat : x = ip[j] /\ x < n * m
  BY <1>3, AddressBytes
<1>5. PICK a, c \in Nat : a = x \div n /\ c < n /\ x = a * n + c
  <2>1. n > 0
    BY <1>3
  <2> QED
    BY <2>1, Divided
<1>6. a < m
  <2> SUFFICES ASSUME m <= a PROVE FALSE
    OBVIOUS
  <2>1. m * n <= a * n
    OBVIOUS
  <2>2. m * n = n * m /\ m * n \in Nat /\ a * n \in Nat
    OBVIOUS
  <2> QED
    BY <1>4, <1>5, <2>1, <2>2
<1>7. Mask(ip, ones)[j] = a * n
  BY <1>1, <1>3, <1>4, <1>5 DEF Mask
<1>8. LastIP(ip, ones)[j] = a * n + n - 1
  BY <1>1, <1>3, <1>7 DEF LastIP
<1>9. a * n + n - 1 = a * n + (n - 1)
  OBVIOUS
<1> QED
  BY <1>1, <1>3, <1>4, <1>5, <1>6, <1>7, <1>8, <1>9

LEMMA MaskType ==
    ASSUME NEW ip \in Address, NEW ones \in Nat
    PROVE  Mask(ip, ones) \in Address /\ LastIP(ip, ones) \in Address
<1>1. ASSUME NEW j \in 1..Bytes
      PROVE  Mask(ip, ones)[j] \in 0..Pow2[Bits] - 1 /\ LastIP(ip, ones)[j] \in 0..Pow2[Bits] - 1
  <2>1. PICK n, m, a, c \in Nat :
          /\ n = Pow2[FreeBits(j, ones)] /\ Pow2[Bits] = n * m
          /\ c < n /\ a < m /\ ip[j] = a * n + c
          /\ Mask(ip, ones)[j] = a * n
          /\ LastIP(ip, ones)[j] = a * n + (n - 1)
    BY MaskByte
  <2>2. (a + 1) * n <= m * n
    BY <2>1
  <2>3. (a + 1) * n = a * n + n /\ m * n = n * m /\ a * n \in Nat /\ n * m \in Nat
    OBVIOUS
  <2> QED
    BY <2>1, <2>2, <2>3
<1>2. Mask(ip, ones) = [j \in 1..Bytes |-> Mask(ip, ones)[j]]
      /\ LastIP(ip, ones) = [j \in 1..Bytes |-> LastIP(ip, ones)[j]]
  BY DEF Mask, LastIP
<1> QED
  BY <1>1, <1>2 DEF Address

(* The bits that the first j bytes leave free.                             *)
FreeUpTo(j, ones) == IF j * Bits <= ones THEN 0 ELSE j * Bits - ones

LEMMA FreeUpToNext ==
    ASSUME NEW ones \in Nat, NEW j \in 1..Bytes
    PROVE  /\ FreeUpTo(j - 1, ones) \in Nat /\ FreeUpTo(j, ones) \in Nat
           /\ \/ FreeUpTo(j - 1, ones) = 0 /\ FreeUpTo(j, ones) = FreeBits(j, ones)
              \/ FreeUpTo(j, ones) = FreeUpTo(j - 1, ones) + Bits /\ FreeBits(j, ones) = Bits
<1>1. PICK e \in Nat, d \in Nat : e = j * Bits /\ d = (j - 1) * Bits /\ e = d + Bits
  <2>1. j - 1 \in 0..Bytes /\ j \in 0..Bytes
    BY Powers
  <2> QED
    BY <2>1, Powers
<1>2. FreeBits(j, ones) = IF ones >= e THEN 0 ELSE IF ones <= d THEN Bits ELSE e - ones
  BY <1>1 DEF FreeBits
<1>3. FreeUpTo(j, ones) = IF e <= ones THEN 0 ELSE e - ones
  BY <1>1 DEF FreeUpTo
<1>4. FreeUpTo(j - 1, ones) = IF d <= ones THEN 0 ELSE d - ones
  BY <1>1 DEF FreeUpTo
<1> QED
  BY <1>1, <1>2, <1>3, <1>4, Powers

(* Z is the size of the subnet: what the mask takes away is the remainder. *)
InBlock(s, t, u, z) == \E q, r \in Nat : r < z /\ s = q * z + r /\ t = q * z /\ u = q * z + (z - 1)

LEMMA MaskSum ==
    ASSUME NEW ip \in Address, NEW ones \in Nat, NEW S, NEW T, NEW U,
           IsSum(S, ip), IsSum(T, Mask(ip, ones)), IsSum(U, LastIP(ip, ones))
    PROVE  \A j \in 0..Bytes : InBlock(S[j], T[j], U[j], Pow2[FreeUpTo(j, ones)])
<1> DEFINE W == {j \in 0..Bytes : InBlock(S[j], T[j], U[j], Pow2[FreeUpTo(j, ones)])}
<1>1. 0 \in W
  <2>1. FreeUpTo(0, ones) = 0 /\ 0 \in 0..Bytes
    BY Powers DEF FreeUpTo
  <2>2. S[0] = 0 /\ T[0] = 0 /\ U[0] = 0 /\ Pow2[0] = 1
    BY Pow2Next DEF IsSum
  <2>3. InBlock(0, 0, 0, 1)
    BY DEF InBlock
  <2> QED
    BY <2>1, <2>2, <2>3
<1>2. ASSUME NEW j \in 1..Bytes, j - 1 \in W PROVE j \in W
  <2>1. PICK z \in Nat : z = Pow2[FreeUpTo(j - 1, ones)]
    BY FreeUpToNext, Pow2Next
  <2>2. PICK q, r \in Nat : r < z /\ S[j - 1] = q * z + r /\ T[j - 1] = q * z /\ U[j - 1] = q * z + (z - 1)
    BY <1>2, <2>1 DEF InBlock
  <2>3. PICK n, m, a, c \in Nat :
          /\ n = Pow2[FreeBits(j, ones)] /\ Pow2[Bits] = n * m
          /\ c < n /\ a < m /\ ip[j] = a * n + c
          /\ Mask(ip, ones)[j] = a * n /\ LastIP(ip, ones)[j] = a * n + (n - 1)
    BY MaskByte
  <2>4. /\ S[j] = (q * z + r) * (n * m) + (a * n + c)
        /\ T[j] = (q * z) * (n * m) + a * n
        /\ U[j] = (q * z + (z - 1)) * (n * m) + (a * n + (n - 1))
    BY <2>2, <2>3, SumStep
  <2>5. InBlock(S[j], T[j], U[j], Pow2[FreeUpTo(j, ones)])
    <3>1. CASE FreeUpTo(j - 1, ones) = 0 /\ FreeUpTo(j, ones) = FreeBits(j, ones)
      <4>1. z = 1 /\ r = 0 /\ Pow2[FreeUpTo(j, ones)] = n
        BY <2>1, <2>2, <2>3, <3>1, Pow2Next
      <4>2. PICK p \in Nat : p = q * m + a
        OBVIOUS
      <4>3. p * n = q * (n * m) + a * n
        <5>1. p * n = (q * m) * n + a * n
          BY <4>2
        <5>2. (q * m) * n = q * (n * m)
          OBVIOUS
        <5> QED
          BY <5>1, <5>2
      <4>4. q * 1 + 0 = q /\ q * 1 = q /\ q * 1 + (1 - 1) = q
        OBVIOUS
      <4>5. q * (n * m) \in Nat /\ a * n \in Nat
        OBVIOUS
      <4>6. S[j] = p * n + c /\ T[j] = p * n /\ U[j] = p * n + (n - 1)
        <5>1. S[j] = q * (n * m) + (a * n + c)
          BY <2>4, <4>1, <4>4
        <5>2. T[j] = q * (n * m) + a * n
          BY <2>4, <4>1, <4>4
        <5>3. U[j] = q * (n * m) + (a * n + (n - 1))
          BY <2>4, <4>1, <4>4
        <5> QED
          BY <4>3, <4>5, <5>1, <5>2, <5>3
      <4> QED
        BY <2>3, <4>1, <4>6 DEF InBlock
    <3>2. CASE FreeUpTo(j, ones) = FreeUpTo(j - 1, ones) + Bits /\ FreeBits(j, ones) = Bits
      <4>1. n >= 2 /\ n = n * m /\ Pow2[FreeUpTo(j, ones)] = z * n
        <5>1. n = Pow2[Bits]
          BY <2>3, <3>2
        <5>2. Pow2[FreeUpTo(j, ones)] = z * n
          <6>1. FreeUpTo(j - 1, ones) \in Nat /\ Bits \in Nat
            BY FreeUpToNext, Powers
          <6>2. Pow2[FreeUpTo(j - 1, ones) + Bits] = Pow2[FreeUpTo(j - 1, ones)] * Pow2[Bits]
            BY <6>1, Pow2Sum
          <6> QED
            BY <2>1, <3>2, <5>1, <6>2
        <5> QED
          BY <2>3, <5>1, <5>2, Powers
      <4>2. m = 1
        <5>1. m # 0
          BY <4>1
        <5>2. m > 1 => n * m >= n * 2
          OBVIOUS
        <5>3. n * 2 > n
          BY <4>1
        <5> QED
          BY <4>1, <5>1, <5>2, <5>3
      <4>3. a = 0 /\ a * n = 0 /\ n * m = n
        BY <2>3, <4>1, <4>2
      <4>4. PICK k \in Nat : k = r * n + c
        OBVIOUS
      <4>5. k < z * n
        <5>1. (r + 1) * n <= z * n
          BY <2>2
        <5>2. (r + 1) * n = r * n + n /\ r * n \in Nat /\ z * n \in Nat
          OBVIOUS
        <5> QED
          BY <2>3, <4>4, <5>1, <5>2
      <4>6. (q * z + r) * n = q * (z * n) + r * n /\ (q * z) * n = q * (z * n)
        OBVIOUS
      <4>7. (q * z + (z - 1)) * n = q * (z * n) + (z * n - n)
        OBVIOUS
      <4>8. q * (z * n) \in Nat /\ r * n \in Nat /\ z * n \in Nat
        OBVIOUS
      <4>9. S[j] = q * (z * n) + k /\ T[j] = q * (z * n) /\ U[j] = q * (z * n) + (z * n - 1)
        <5>1. S[j] = (q * z + r) * n + c /\ T[j] = (q * z) * n /\ U[j] = (q * z + (z - 1)) * n + (n - 1)
          BY <2>4, <4>3
        <5> QED
          BY <4>4, <4>6, <4>7, <4>8, <5>1
      <4> QED
        BY <4>1, <4>5, <4>8, <4>9 DEF InBlock
    <3> QED
      BY <3>1, <3>2, FreeUpToNext
  <2> QED
    BY <2>5, Powers
<1> HIDE DEF W
<1>3. \A j \in 0..Bytes : j \in W
  BY <1>1, <1>2, Powers, InductiveTo
<1> QED
  BY <1>3 DEF W

(* A subnet, as numbers.                                                   *)
LEMMA SubnetNumbers ==
    ASSUME NEW ip \in Address, NEW ones \in 1..Bytes * Bits
    PROVE  /\ Bytes * Bits - ones \in Nat
           /\ InBlock(Number(ip), Number(Mask(ip, ones)), Number(LastIP(ip, ones)), Pow2[Bytes * Bits - ones])
<1>1. PICK net \in Address, last \in Address : net = Mask(ip, ones) /\ last = LastIP(ip, ones)
  BY MaskType
<1>2. PICK S : IsSum(S, ip) /\ Number(ip) = S[Bytes]
  BY AddressBytes, NumberIsSum
<1>3. PICK T : IsSum(T, net) /\ Number(net) = T[Bytes]
  BY AddressBytes, NumberIsSum
<1>4. PICK U : IsSum(U, last) /\ Number(last) = U[Bytes]
  BY AddressBytes, NumberIsSum
<1>5. ones \in Nat /\ Bytes \in 0..Bytes
  BY Powers
<1>6. InBlock(S[Bytes], T[Bytes], U[Bytes], Pow2[FreeUpTo(Bytes, ones)])
  BY <1>1, <1>2, <1>3, <1>4, <1>5, MaskSum
<1>7. PICK e \in Nat : e = Bytes * Bits
  BY <1>5, Powers
<1>8. FreeUpTo(Bytes, ones) = Bytes * Bits - ones /\ Bytes * Bits - ones \in Nat
  BY <1>7 DEF FreeUpTo
<1> QED
  BY <1>1, <1>2, <1>3, <1>4, <1>6, <1>8

(* The mask leaves the network address of those of the subnet alone.       *)
LEMMA ContainedIsBetween ==
    ASSUME NEW ip \in Address, NEW ones \in 1..Bytes * Bits, NEW a \in Address, NEW z \in Nat, NEW q \in Nat,
           z = Pow2[Bytes * Bits - ones], Number(Mask(ip, ones)) = q * z
    PROVE  Contains(Mask(ip, ones), ones, a) <=> q * z <= Number(a) /\ Number(a) < q * z + z
<1>1. PICK p, r \in Nat : r < z /\ Number(a) = p * z + r /\ Number(Mask(a, ones)) = p * z
  BY SubnetNumbers DEF InBlock
<1>2. q * z \in Nat /\ p * z \in Nat
  OBVIOUS
<1>3. ASSUME Mask(a, ones) = Mask(ip, ones) PROVE q * z <= Number(a) /\ Number(a) < q * z + z
  BY <1>1, <1>2, <1>3
<1>4. ASSUME q * z <= Number(a), Number(a) < q * z + z PROVE Mask(a, ones) = Mask(ip, ones)
  <2>1. PICK d \in Nat : d < z /\ Number(a) = q * z + d
    BY <1>1, <1>2, <1>4
  <2>2. Number(a) \div z = q
    BY <2>1, Quotient
  <2>3. Number(a) \div z = p
    BY <1>1, Quotient
  <2>4. Number(Mask(a, ones)) = Number(Mask(ip, ones))
    BY <1>1, <2>2, <2>3
  <2>5. Mask(a, ones) \in Address /\ Mask(ip, ones) \in Address
    BY MaskType
  <2> QED
    BY <2>4, <2>5, NumberInjective
<1> QED
  BY <1>3, <1>4 DEF Contains

(* The addresses one after the other.                                      *)
IsWalk(W, net) == W \in [Nat -> Address] /\ W[0] = net /\ \A n \in Nat \ {0} : W[n] = IncIP(W[n - 1])

LEMMA WalkCounts ==
    ASSUME NEW net \in Address, NEW W, IsWalk(W, net), NEW z \in Nat, Number(net) + z <= Pow2[Bytes * Bits]
    PROVE  \A n \in Nat : n < z => Number(W[n]) = Number(net) + n
<1> DEFINE U == {n \in Nat : n < z => Number(W[n]) = Number(net) + n}
<1>1. 0 \in U
  BY AddressNumber DEF IsWalk
<1>2. ASSUME NEW n \in Nat, n \in U PROVE n + 1 \in U
  <2> SUFFICES ASSUME n + 1 < z PROVE Number(W[n + 1]) = Number(net) + (n + 1)
    OBVIOUS
  <2>1. PICK a \in Address : a = W[n]
    BY DEF IsWalk
  <2>2. PICK f \in Nat, g \in Nat, t \in Nat : f = Number(net) /\ g = Number(a) /\ t = Pow2[Bytes * Bits]
    BY AddressNumber, Powers
  <2>3. g = f + n
    BY <1>2, <2>1, <2>2
  <2>4. W[n + 1] = IncIP(a)
    <3>1. n + 1 \in Nat \ {0} /\ (n + 1) - 1 = n
      OBVIOUS
    <3> QED
      BY <2>1, <3>1 DEF IsWalk
  <2>5. g + 1 # t
    BY <2>2, <2>3
  <2>6. Number(IncIP(a)) = g + 1
    BY <2>2, <2>5, IncIPNumber
  <2> QED
    BY <2>2, <2>3, <2>4, <2>6
<1>3. \A n \in Nat : n \in U
  <2> HIDE DEF U
  <2> QED
    BY <1>1, <1>2, Inductive
<1> QED
  BY <1>3

(* ExpandSubnet, which masks and compares byte by byte and walks with      *)
(* incIP, returns the addresses between the first and the last one of the  *)
(* subnet, taken as numbers, and a single host for itself: for any address *)
(* and any mask but the empty one.                                         *)
THEOREM SubnetIsExpanded ==
    ASSUME NEW s \in [ip : Address, ones : 1..Bytes * Bits]
    PROVE  LET size == Pow2[Bytes * Bits - s.ones]
               first == (Number(s.ip) \div size) * size
           IN ExpandSubnet(s) =
                IF size = 1 THEN {s.ip}
                ELSE {ip \in Address : first < Number(ip) /\ Number(ip) < first + size - 1}
<1>1. PICK e \in Nat : e = Bytes * Bits
  BY Powers
<1>2. s.ip \in Address /\ s.ones \in 1..Bytes * Bits /\ s.ones \in 1..e /\ s.ones \in Nat
  BY <1>1
<1>3. PICK z \in Nat : z = Pow2[Bytes * Bits - s.ones]
  BY <1>2, SubnetNumbers, Pow2Next
<1> DEFINE net == Mask(s.ip, s.ones)
           last == LastIP(net, s.ones)
<1>4. net \in Address /\ last \in Address
  BY <1>2, MaskType
<1>5. PICK q, r \in Nat : r < z /\ Number(s.ip) = q * z + r /\ Number(net) = q * z
  BY <1>2, <1>3, SubnetNumbers DEF InBlock
<1>6. Number(last) = q * z + (z - 1)
  <2> HIDE DEF net
  <2>1. PICK p, c \in Nat : c < z /\ Number(net) = p * z + c /\ Number(last) = p * z + (z - 1)
    BY <1>2, <1>3, <1>4, SubnetNumbers DEF InBlock
  <2>2. (q * z + 0) \div z = q /\ q * z + 0 = q * z
    <3>1. 0 < z
      BY <1>5
    <3> QED
      BY <3>1, Quotient
  <2>3. (p * z + c) \div z = p
    BY <2>1, Quotient
  <2>4. p = q
    BY <1>5, <2>1, <2>2, <2>3
  <2> QED
    BY <2>1, <2>4
<1> HIDE DEF net, last
<1>7. (Number(s.ip) \div z) * z = q * z /\ q * z \in Nat
  <2>1. (q * z + r) \div z = q
    BY <1>5, Quotient
  <2> QED
    BY <1>5, <2>1
<1>8. CASE s.ones = Bytes * Bits
  <2>1. z = 1
    BY <1>1, <1>3, <1>8, Pow2Next
  <2> QED
    BY <1>3, <1>8, <2>1 DEF ExpandSubnet
<1>9. CASE s.ones # Bytes * Bits
  <2>1. z >= 2
    BY <1>1, <1>2, <1>3, <1>9, Pow2AtLeast2
  <2> DEFINE g(h) == [n \in Nat |-> IF n = 0 THEN net ELSE IncIP(h[n - 1])]
             Walk[n \in Nat] == IF n = 0 THEN net ELSE IncIP(Walk[n - 1])
             Visited == {Walk[n] : n \in {k \in 0..Pow2[Bytes * Bits] :
                           \A m \in 0..k : Contains(net, s.ones, Walk[m])}}
  <2>2. IsWalk(Walk, net)
    <3> DEFINE up == [n \in Nat |-> [a \in Address |-> IncIP(a)]]
    <3>1. up \in [Nat -> [Address -> Address]] /\ \A n \in Nat : \A a \in Address : up[n][a] = IncIP(a)
      BY IncIPType
    <3> HIDE DEF up
    <3>2. PICK f : ByStep(f, Address, net, up)
      BY <1>4, <3>1, Recursion
    <3>3. f = g(f)
      <4>1. \A n \in Nat \ {0} : n - 1 \in Nat
        OBVIOUS
      <4>2. \A n \in Nat \ {0} : f[n - 1] \in Address
        BY <3>2, <4>1 DEF ByStep
      <4>3. \A n \in Nat : f[n] = IF n = 0 THEN net ELSE IncIP(f[n - 1])
        BY <3>1, <3>2, <4>2 DEF ByStep
      <4>4. f = [n \in Nat |-> f[n]]
        BY <3>2 DEF ByStep
      <4> QED
        BY <4>3, <4>4
    <3>4. Walk = g(Walk)
      <4>1. Walk = CHOOSE h : h = g(h)
        OBVIOUS
      <4> HIDE DEF g, Walk
      <4> QED
        BY <3>3, <4>1
    <3> HIDE DEF Walk
    <3>5. Walk[0] = net /\ \A n \in Nat \ {0} : Walk[n] = IncIP(Walk[n - 1])
      BY <3>4
    <3>6. \A n \in Nat : Walk[n] \in Address
      <4> DEFINE U == {n \in Nat : Walk[n] \in Address}
      <4>1. 0 \in U
        BY <1>4, <3>5
      <4>2. ASSUME NEW n \in Nat, n \in U PROVE n + 1 \in U
        <5>1. n + 1 \in Nat \ {0} /\ (n + 1) - 1 = n
          OBVIOUS
        <5> QED
          BY <3>5, <4>2, <5>1, IncIPType
      <4>3. \A n \in Nat : n \in U
        <5> HIDE DEF U
        <5> QED
          BY <4>1, <4>2, Inductive
      <4> QED
        BY <4>3
    <3>7. Walk = [n \in Nat |-> Walk[n]]
      BY <3>4
    <3> QED
      BY <3>5, <3>6, <3>7 DEF IsWalk
  <2>3. ExpandSubnet(s) = Visited \ {net, last}
    BY <1>9 DEF ExpandSubnet, net, last
  <2> HIDE DEF Walk
  <2>4. \A a \in Address : Contains(net, s.ones, a) <=> q * z <= Number(a) /\ Number(a) < q * z + z
    BY <1>2, <1>3, <1>5, ContainedIsBetween DEF net
  <2>5. PICK t \in Nat : t = Pow2[Bytes * Bits] /\ q * z + (z - 1) < t
    BY <1>4, <1>6, AddressNumber, Powers
  <2>6. q * z + z <= t /\ z <= t
    BY <1>7, <2>5
  <2>7. \A n \in Nat : n < z => Number(Walk[n]) = q * z + n
    BY <1>4, <1>5, <2>2, <2>5, <2>6, WalkCounts
  <2>8. ASSUME NEW a \in Visited PROVE a \in Address /\ q * z <= Number(a) /\ Number(a) < q * z + z
    <3>1. PICK n \in 0..Pow2[Bytes * Bits] : a = Walk[n] /\ \A m \in 0..n : Contains(net, s.ones, Walk[m])
      BY <2>8
    <3>2. n \in 0..n /\ n \in Nat
      OBVIOUS
    <3> QED
      BY <2>2, <2>4, <3>1, <3>2 DEF IsWalk
  <2>9. ASSUME NEW a \in Address, q * z <= Number(a), Number(a) < q * z + z PROVE a \in Visited
    <3>1. PICK n \in Nat : n < z /\ Number(a) = q * z + n
      <4>1. PICK x \in Nat, y \in Nat : x = Number(a) /\ y = q * z
        BY <1>7, AddressNumber
      <4>2. x - y \in Nat /\ x - y < z /\ x = y + (x - y)
        BY <2>9, <4>1
      <4> QED
        BY <4>1, <4>2
    <3>2. Walk[n] = a
      BY <2>2, <2>7, <3>1, NumberInjective DEF IsWalk
    <3>3. ASSUME NEW m \in 0..n PROVE Contains(net, s.ones, Walk[m])
      <4>1. m \in Nat /\ m < z
        BY <3>1
      <4>2. Number(Walk[m]) = q * z + m /\ Walk[m] \in Address
        BY <2>2, <2>7, <4>1 DEF IsWalk
      <4> QED
        BY <1>7, <2>4, <4>1, <4>2
    <3>4. n \in 0..Pow2[Bytes * Bits]
      BY <2>5, <2>6, <3>1
    <3> QED
      BY <3>2, <3>3, <3>4
  <2> HIDE DEF Visited
  <2>10. \A a \in Address : (a # net <=> Number(a) # q * z) /\ (a # last <=> Number(a) # q * z + (z - 1))
    BY <1>4, <1>5, <1>6, NumberInjective
  <2>11. ExpandSubnet(s) = {ip \in Address : q * z < Number(ip) /\ Number(ip) < q * z + z - 1}
    <3>1. ASSUME NEW a \in Address
          PROVE  (q * z <= Number(a) /\ Number(a) < q * z + z /\ Number(a) # q * z /\ Number(a) # q * z + (z - 1))
                   <=> (q * z < Number(a) /\ Number(a) < q * z + z - 1)
      <4>1. PICK x \in Nat, y \in Nat : x = Number(a) /\ y = q * z
        BY <1>7, AddressNumber
      <4> QED
        BY <4>1
    <3>2. \A a : a \in ExpandSubnet(s) <=>
                   a \in Address /\ q * z <= Number(a) /\ Number(a) < q * z + z /\ a # net /\ a # last
      BY <2>3, <2>8, <2>9
    <3>3. \A a : a \in ExpandSubnet(s) <=> a \in Address /\ q * z < Number(a) /\ Number(a) < q * z + z - 1
      BY <2>10, <3>1, <3>2
    <3> QED
      BY <3>3
  <2> QED
    BY <1>3, <1>7, <2>1, <2>11
<1> QED
  BY <1>8, <1>9

-----------------------------------------------------------------------------
(* Discovery.  A goroutine that meets nobody finds the status as it left   *)
(* it; and the only request that ever began has the file to itself.        *)
Stages == {"new", "refused", "scan", "ended", "stuck", "dead"}
Alone(s) == \A p \in Procs \ {s} : pc[p] \in {"new", "refused"}

ScanTyped ==
    /\ file \in Status \cup {Absent, Empty, Garbage}
    /\ pc \in [Procs -> Stages]
    /\ job \in [Procs -> Job \cup {NoJob}]
    /\ collected \in [Starters -> SUBSET Present]
    /\ ipList = [s \in Starters |-> ipList[s]]
    /\ panicked \subseteq Starters /\ disturbed \subseteq Procs

JobsAreOfTheBusy ==
    /\ \A p \in Procs : pc[p] \in {"new", "refused", "stuck", "dead"} => job[p] = NoJob
    /\ \A s \in Starters : pc[s] \in {"new", "refused"} => collected[s] = {}

(* Who was not disturbed is busy by itself.                                *)
Undisturbed ==
    \A p \in Procs : Busy(p) /\ p \notin disturbed => \A q \in Procs \ {p} : ~Busy(q)

(* A goroutine that was not disturbed finds what it wrote.                 *)
Filling(s) == job[s] # NoJob /\ job[s].stage = "fill"
FindsItsFile ==
    \A s \in Starters :
        pc[s] = "scan" /\ s \notin disturbed => IF Filling(s) THEN file = Empty ELSE Readable

(* What the only request that began writes, or has written.                *)
Report(s) == [active |-> pc[s] = "scan", found |-> collected[s]]
HasItsFile ==
    \A s \in Starters : Alone(s) =>
        /\ pc[s] \in {"new", "refused"} => file = Absent
        /\ pc[s] \in {"scan", "ended"} =>
             IF job[s] = NoJob THEN file = Report(s)
             ELSE /\ job[s].status = Report(s)
                  /\ IF Filling(s) THEN file = Empty ELSE Readable
        /\ pc[s] = "ended" => collected[s] = Answers(s)

ScanInv == ScanTyped /\ JobsAreOfTheBusy /\ Undisturbed /\ FindsItsFile /\ HasItsFile /\ PanicNeedsCompany

LEMMA ScanStart == ScanInit => ScanInv
<1> SUFFICES ASSUME ScanInit PROVE ScanInv
  OBVIOUS
<1>1. ScanTyped
  BY DEF ScanInit, ScanTyped, Stages
<1>2. JobsAreOfTheBusy /\ Undisturbed /\ FindsItsFile /\ HasItsFile
  BY DEF ScanInit, JobsAreOfTheBusy, Undisturbed, FindsItsFile, HasItsFile, Busy, Procs
<1>3. PanicNeedsCompany
  BY DEF ScanInit, PanicNeedsCompany, Procs
<1> QED
  BY <1>1, <1>2, <1>3 DEF ScanInv

LEMMA Distinct ==
    /\ NoJob \notin Job /\ Starters \subseteq Procs /\ Starters \cap Cancellers = {}
    /\ Absent \notin Status /\ Empty \notin Status /\ Garbage \notin Status
    /\ Absent # Empty /\ Absent # Garbage /\ Empty # Garbage
BY DiscoveryAssumption DEF Procs

LEMMA ReportType == ASSUME ScanInv, NEW s \in Starters PROVE Report(s) \in Status
BY DEF ScanInv, ScanTyped, Report, Status

LEMMA CurrentType == ASSUME ScanInv, Readable PROVE Current \in Status
<1>1. CASE file = Absent
  BY <1>1 DEF Current, Status
<1>2. CASE file # Absent
  BY <1>2 DEF Current, Readable, ScanInv, ScanTyped
<1> QED
  BY <1>1, <1>2

(* A new job.                                                              *)
LEMMA WritingType ==
    ASSUME ScanInv, NEW p \in Procs, NEW report \in Status, Writing(p, report)
    PROVE  /\ job' \in [Procs -> Job \cup {NoJob}]
           /\ job'[p] # NoJob /\ job'[p].status = report /\ job'[p].stage = "truncate"
           /\ \A q \in Procs \ {p} : job'[q] = job[q]
<1>1. PICK j \in Job : j = [status |-> report, stage |-> "truncate"]
  BY DEF Job
<1>2. job' = [job EXCEPT ![p] = j]
  BY <1>1 DEF Writing
<1>3. job \in [Procs -> Job \cup {NoJob}]
  BY DEF ScanInv, ScanTyped
<1>4. job'[p] = j /\ \A q \in Procs \ {p} : job'[q] = job[q]
  BY <1>2, <1>3
<1>5. job' \in [Procs -> Job \cup {NoJob}]
  BY <1>2, <1>3
<1>6. j # NoJob
  BY Distinct
<1> QED
  BY <1>1, <1>4, <1>5, <1>6

(* A request that begins meets whoever is busy.                            *)
LEMMA MetType == ASSUME ScanInv, NEW p \in Procs, disturbed' = Met(p)
    PROVE  /\ disturbed \subseteq disturbed' /\ disturbed' \subseteq Procs
           /\ \A q \in Procs \ {p} : Busy(q) => q \in disturbed' /\ p \in disturbed'
BY DEF ScanInv, ScanTyped, Met

(* A request begins: nothing but its own state and its job is new.  stage  *)
(* is where it stands then.                                                *)
LEMMA BeginStep ==
    ASSUME ScanInv, NEW p \in Procs, pc[p] = "new", NEW stage \in {"scan", "ended"}, NEW report \in Status,
           pc' = [pc EXCEPT ![p] = stage], Writing(p, report), disturbed' = Met(p), Readable,
           UNCHANGED <<file, collected, panicked>>,
           ipList' = [s \in Starters |-> ipList'[s]], \A s \in Starters \ {p} : ipList'[s] = ipList[s],
           p \in Starters => report = [active |-> TRUE, found |-> {}] /\ stage = "scan"
    PROVE  ScanInv'
<1>1. job' \in [Procs -> Job \cup {NoJob}] /\ job'[p] # NoJob /\ job'[p].status = report
      /\ job'[p].stage = "truncate" /\ \A q \in Procs \ {p} : job'[q] = job[q]
  BY WritingType
<1>2. disturbed \subseteq disturbed' /\ disturbed' \subseteq Procs
      /\ \A q \in Procs \ {p} : Busy(q) => q \in disturbed' /\ p \in disturbed'
  BY MetType
<1>3. pc'[p] = stage /\ (\A q \in Procs \ {p} : pc'[q] = pc[q]) /\ pc' \in [Procs -> Stages]
  BY DEF ScanInv, ScanTyped, Stages
<1>4. \A q \in Procs \ {p} : Busy(q)' <=> Busy(q)
  BY <1>1, <1>3 DEF Busy
<1>5. ScanTyped'
  BY <1>1, <1>2, <1>3 DEF ScanInv, ScanTyped
<1>6. JobsAreOfTheBusy'
  BY <1>1, <1>3, Distinct DEF ScanInv, JobsAreOfTheBusy
<1>7. Undisturbed'
  BY <1>2, <1>4 DEF ScanInv, Undisturbed
<1>8. FindsItsFile'
  <2>1. ASSUME NEW s \in Starters, pc'[s] = "scan", s \notin disturbed'
        PROVE  IF Filling(s)' THEN file' = Empty ELSE Readable'
    <3>1. CASE s = p
      BY <1>1, <3>1 DEF Filling, Readable
    <3>2. CASE s # p
      BY <1>1, <1>2, <1>3, <2>1, <3>2, Distinct DEF ScanInv, FindsItsFile, Filling, Readable
    <3> QED
      BY <3>1, <3>2
  <2> QED
    BY <2>1 DEF FindsItsFile
<1>9. HasItsFile'
  <2>1. ASSUME NEW s \in Starters, Alone(s)'
        PROVE  /\ pc'[s] \in {"new", "refused"} => file' = Absent
               /\ pc'[s] \in {"scan", "ended"} =>
                    IF job'[s] = NoJob THEN file' = Report(s)'
                    ELSE job'[s].status = Report(s)' /\ IF Filling(s)' THEN file' = Empty ELSE Readable'
               /\ pc'[s] = "ended" => collected'[s] = Answers(s)'
    <3>1. s = p
      BY <1>3, <2>1 DEF Alone
    <3>2. Report(s)' = [active |-> TRUE, found |-> {}] /\ stage = "scan"
      BY <1>3, <3>1 DEF Report, ScanInv, JobsAreOfTheBusy
    <3> QED
      BY <1>1, <1>3, <3>1, <3>2 DEF Filling, Readable
  <2> QED
    BY <2>1 DEF HasItsFile
<1>10. PanicNeedsCompany'
  <2>1. ASSUME NEW s \in Starters, pc'[s] = "stuck" \/ s \in panicked' PROVE s \in disturbed'
    <3>1. pc[s] = "stuck" \/ s \in panicked
      BY <1>3, <2>1, Distinct
    <3> QED
      BY <1>2, <3>1 DEF ScanInv, PanicNeedsCompany
  <2> QED
    BY <2>1 DEF PanicNeedsCompany
<1> QED
  BY <1>5, <1>6, <1>7, <1>8, <1>9, <1>10 DEF ScanInv

LEMMA StartStep == ASSUME ScanInv, NEW s \in Starters, Start(s) PROVE ScanInv'
<1>1. PICK n \in Subnets : ipList' = [ipList EXCEPT ![s] = ExpandSubnet(n)]
  BY DEF Start
<1>2. ipList' = [t \in Starters |-> ipList'[t]] /\ \A t \in Starters \ {s} : ipList'[t] = ipList[t]
  BY <1>1 DEF ScanInv, ScanTyped
<1>3. PICK report \in Status : report = [active |-> TRUE, found |-> {}]
  BY DEF Status
<1>4. s \in Procs /\ pc[s] = "new" /\ pc' = [pc EXCEPT ![s] = "scan"] /\ Writing(s, report) /\ disturbed' = Met(s)
      /\ Readable /\ UNCHANGED <<file, collected, panicked>>
  BY <1>3, Distinct DEF Start
<1> QED
  BY <1>2, <1>3, <1>4, BeginStep

LEMMA CancelScanStep == ASSUME ScanInv, NEW c \in Cancellers, Cancel(c) PROVE ScanInv'
<1>1. Readable /\ c \in Procs /\ pc[c] = "new" /\ pc' = [pc EXCEPT ![c] = "ended"] /\ disturbed' = Met(c)
      /\ Writing(c, [Current EXCEPT !.active = FALSE]) /\ UNCHANGED <<file, ipList, collected, panicked>>
  BY DEF Cancel, Procs
<1>2. PICK report \in Status : report = [Current EXCEPT !.active = FALSE]
  BY <1>1, CurrentType DEF Status
<1>3. Writing(c, report) /\ c \notin Starters /\ ipList' = [s \in Starters |-> ipList'[s]]
  BY <1>1, <1>2, Distinct DEF ScanInv, ScanTyped
<1> QED
  BY <1>1, <1>3, BeginStep

LEMMA RefuseStep == ASSUME ScanInv, NEW p \in Procs, Refuse(p) PROVE ScanInv'
<1>1. pc[p] = "new" /\ pc' = [pc EXCEPT ![p] = "refused"]
      /\ UNCHANGED <<file, job, ipList, collected, panicked, disturbed>>
  BY DEF Refuse
<1>2. pc'[p] = "refused" /\ (\A q \in Procs \ {p} : pc'[q] = pc[q]) /\ pc' \in [Procs -> Stages]
  BY <1>1 DEF ScanInv, ScanTyped, Stages
<1>3. \A q \in Procs : Busy(q)' <=> Busy(q)
  BY <1>1, <1>2 DEF Busy
<1>4. ScanTyped' /\ JobsAreOfTheBusy'
  BY <1>1, <1>2 DEF ScanInv, ScanTyped, JobsAreOfTheBusy
<1>5. Undisturbed'
  BY <1>1, <1>3 DEF ScanInv, Undisturbed
<1>6. \A s \in Starters : Filling(s)' <=> Filling(s)
  BY <1>1 DEF Filling
<1>7. Readable' <=> Readable
  BY <1>1 DEF Readable
<1>8. FindsItsFile'
  <2>1. \A s \in Starters : pc'[s] = "scan" => pc[s] = "scan"
    BY <1>1, <1>2, Distinct
  <2> QED
    BY <1>1, <1>6, <1>7, <2>1 DEF ScanInv, FindsItsFile
<1>9. HasItsFile'
  <2>1. ASSUME NEW s \in Starters, Alone(s)' PROVE Alone(s)
    BY <1>1, <1>2, <2>1 DEF Alone
  <2>2. ASSUME NEW s \in Starters
        PROVE  /\ pc'[s] \in {"new", "refused"} <=> pc[s] \in {"new", "refused"}
               /\ pc'[s] \in {"scan", "ended"} => pc'[s] = pc[s] /\ Report(s)' = Report(s)
    BY <1>1, <1>2, Distinct DEF Report
  <2> QED
    BY <1>1, <1>6, <1>7, <2>1, <2>2 DEF ScanInv, HasItsFile, Answers
<1>10. PanicNeedsCompany'
  BY <1>1, <1>2, Distinct DEF ScanInv, PanicNeedsCompany
<1> QED
  BY <1>4, <1>5, <1>8, <1>9, <1>10 DEF ScanInv

(* A goroutine that scans goes on: it stands at stage then and may have    *)
(* begun to write status.                                                  *)
LEMMA GoesOn ==
    ASSUME ScanInv, NEW s \in Starters, pc[s] = "scan", job[s] = NoJob, Readable,
           NEW stage \in {"scan", "ended"}, NEW report \in Status, Writing(s, report),
           pc' = [pc EXCEPT ![s] = stage], UNCHANGED <<file, ipList, panicked, disturbed>>,
           collected' \in [Starters -> SUBSET Present],
           \A t \in Starters \ {s} : collected'[t] = collected[t],
           Alone(s) /\ stage = "scan" => report = [active |-> TRUE, found |-> collected'[s]],
           Alone(s) /\ stage = "ended" => report = [active |-> FALSE, found |-> collected'[s]],
           stage = "ended" => collected'[s] = Answers(s)
    PROVE  ScanInv'
<1>1. s \in Procs
  BY Distinct
<1>2. job' \in [Procs -> Job \cup {NoJob}] /\ job'[s] # NoJob /\ job'[s].status = report
      /\ job'[s].stage = "truncate" /\ \A q \in Procs \ {s} : job'[q] = job[q]
  BY <1>1, WritingType
<1>3. pc'[s] = stage /\ (\A q \in Procs \ {s} : pc'[q] = pc[q]) /\ pc' \in [Procs -> Stages]
  BY <1>1 DEF ScanInv, ScanTyped, Stages
<1>4. \A q \in Procs : Busy(q)' <=> Busy(q)
  BY <1>2, <1>3 DEF Busy
<1>5. ScanTyped'
  BY <1>2, <1>3 DEF ScanInv, ScanTyped
<1>6. JobsAreOfTheBusy'
  BY <1>2, <1>3, Distinct DEF ScanInv, JobsAreOfTheBusy
<1>7. Undisturbed'
  BY <1>4 DEF ScanInv, Undisturbed
<1>8. FindsItsFile'
  <2>1. ASSUME NEW t \in Starters, pc'[t] = "scan", t \notin disturbed'
        PROVE  IF Filling(t)' THEN file' = Empty ELSE Readable'
    <3>1. CASE t = s
      BY <1>2, <3>1 DEF Filling, Readable
    <3>2. CASE t # s
      BY <1>2, <1>3, <2>1, <3>2, Distinct DEF ScanInv, FindsItsFile, Filling, Readable
    <3> QED
      BY <3>1, <3>2
  <2> QED
    BY <2>1 DEF FindsItsFile
<1>9. HasItsFile'
  <2>1. ASSUME NEW t \in Starters, Alone(t)'
        PROVE  /\ pc'[t] \in {"new", "refused"} => file' = Absent
               /\ pc'[t] \in {"scan", "ended"} =>
                    IF job'[t] = NoJob THEN file' = Report(t)'
                    ELSE job'[t].status = Report(t)' /\ IF Filling(t)' THEN file' = Empty ELSE Readable'
               /\ pc'[t] = "ended" => collected'[t] = Answers(t)'
    <3>1. t = s
      BY <1>1, <1>3, <2>1 DEF Alone
    <3>2. Alone(s)
      BY <1>3, <2>1, <3>1 DEF Alone
    <3>3. report = Report(s)'
      BY <1>3, <3>2 DEF Report
    <3>4. Answers(s)' = Answers(s)
      BY DEF Answers
    <3> QED
      BY <1>2, <1>3, <3>1, <3>3, <3>4 DEF Filling, Readable
  <2> QED
    BY <2>1 DEF HasItsFile
<1>10. PanicNeedsCompany'
  BY <1>3, Distinct DEF ScanInv, PanicNeedsCompany
<1> QED
  BY <1>5, <1>6, <1>7, <1>8, <1>9, <1>10 DEF ScanInv

(* What the only request that began reads is what it has written.          *)
LEMMA ReadsItsReport ==
    ASSUME ScanInv, NEW s \in Starters, pc[s] = "scan", job[s] = NoJob, Alone(s)
    PROVE  Current = Report(s)
<1>1. file = Report(s)
  BY DEF ScanInv, HasItsFile
<1>2. file # Absent
  BY <1>1, ReportType, Distinct
<1> QED
  BY <1>1, <1>2 DEF Current

LEMMA UnreadableNeedsCompany ==
    ASSUME ScanInv, NEW s \in Starters, pc[s] = "scan", job[s] = NoJob, ~Readable PROVE s \in disturbed
BY DEF ScanInv, FindsItsFile, Filling

LEMMA CollectStep == ASSUME ScanInv, NEW s \in Starters, Collect(s) PROVE ScanInv'
<1>1. PICK ip \in Answers(s) \ collected[s] :
        /\ collected' = [collected EXCEPT ![s] = @ \cup {ip}]
        /\ IF Readable
           THEN Writing(s, [Current EXCEPT !.found = collected'[s]]) /\ UNCHANGED pc
           ELSE pc' = [pc EXCEPT ![s] = "stuck"] /\ UNCHANGED job
  BY DEF Collect
<1>2. pc[s] = "scan" /\ job[s] = NoJob /\ UNCHANGED <<file, subnet, ipList, crashes, panicked, disturbed>>
  BY DEF Collect
<1>3. collected \in [Starters -> SUBSET Present] /\ ip \in Present
  BY <1>1 DEF ScanInv, ScanTyped, Answers
<1>4. collected' \in [Starters -> SUBSET Present] /\ \A t \in Starters \ {s} : collected'[t] = collected[t]
  BY <1>1, <1>3
<1>5. ASSUME Readable PROVE ScanInv'
  <2>1. PICK c \in Status : c = Current
    BY <1>5, CurrentType
  <2>2. PICK report \in Status : report = [c EXCEPT !.found = collected'[s]]
    BY <1>4 DEF Status
  <2>3. Alone(s) => report = [active |-> TRUE, found |-> collected'[s]]
    <3> SUFFICES ASSUME Alone(s) PROVE report = [active |-> TRUE, found |-> collected'[s]]
      OBVIOUS
    <3>1. c.active = TRUE
      <4>1. c.active = (pc[s] = "scan")
        BY <1>2, <2>1, ReadsItsReport DEF Report
      <4>2. (pc[s] = "scan") = TRUE
        BY <1>2
      <4> QED
        BY <4>1, <4>2
    <3>2. report.active = c.active /\ report.found = collected'[s]
      BY <2>2 DEF Status
    <3> QED
      BY <3>1, <3>2 DEF Status
  <2>4. Writing(s, report) /\ pc' = pc
    BY <1>1, <1>5, <2>1, <2>2
  <2>5. pc' = [pc EXCEPT ![s] = "scan"]
    BY <1>2, <2>4, Distinct DEF ScanInv, ScanTyped
  <2> QED
    BY <1>2, <1>4, <1>5, <2>3, <2>4, <2>5, GoesOn
<1>6. ASSUME ~Readable PROVE ScanInv'
  <2>1. pc' = [pc EXCEPT ![s] = "stuck"] /\ job' = job
    BY <1>1, <1>6
  <2>2. pc'[s] = "stuck" /\ (\A q \in Procs \ {s} : pc'[q] = pc[q]) /\ pc' \in [Procs -> Stages]
    BY <2>1, Distinct DEF ScanInv, ScanTyped, Stages
  <2>3. s \in disturbed /\ s \in Procs
    BY <1>2, <1>6, UnreadableNeedsCompany, Distinct
  <2>4. \A q \in Procs : Busy(q)' => Busy(q)
    BY <1>2, <2>1, <2>2 DEF Busy
  <2>5. ScanTyped'
    BY <1>2, <1>4, <2>1, <2>2 DEF ScanInv, ScanTyped
  <2>6. JobsAreOfTheBusy'
    BY <1>2, <1>4, <2>1, <2>2, Distinct DEF ScanInv, JobsAreOfTheBusy
  <2>7. Undisturbed'
    BY <1>2, <2>4 DEF ScanInv, Undisturbed
  <2>8. FindsItsFile'
    BY <1>2, <2>1, <2>2, Distinct DEF ScanInv, FindsItsFile, Filling, Readable
  <2>9. HasItsFile'
    <3>1. ASSUME NEW t \in Starters, Alone(t)' PROVE t = s
      BY <2>2, <2>3, <3>1 DEF Alone
    <3> QED
      BY <2>2, <3>1 DEF HasItsFile
  <2>10. PanicNeedsCompany'
    BY <1>2, <2>2, <2>3, Distinct DEF ScanInv, PanicNeedsCompany
  <2> QED
    BY <2>5, <2>6, <2>7, <2>8, <2>9, <2>10 DEF ScanInv
<1> QED
  BY <1>5, <1>6

(* The daemon dies.                                                        *)
LEMMA DieStep ==
    ASSUME ScanInv, Die, UNCHANGED <<file, ipList, collected, disturbed>>,
           panicked' \subseteq Starters, \A s \in panicked' : s \in panicked \/ s \in disturbed
    PROVE  ScanInv'
<1>1. \A p \in Procs : job'[p] = NoJob /\ pc'[p] = IF Busy(p) \/ pc[p] = "stuck" THEN "dead" ELSE pc[p]
  BY DEF Die
<1>2. job' \in [Procs -> Job \cup {NoJob}]
  BY DEF Die
<1>3. pc' \in [Procs -> Stages]
  BY DEF Die, ScanInv, ScanTyped, Stages
<1>4. \A p \in Procs : ~Busy(p)'
  BY <1>1 DEF Busy
<1>5. \A p \in Procs : pc'[p] # "dead" => pc'[p] = pc[p] /\ ~Busy(p) /\ pc'[p] \notin {"scan", "stuck"}
  BY <1>1 DEF Busy
<1>6. ScanTyped'
  BY <1>2, <1>3 DEF ScanInv, ScanTyped
<1>7. JobsAreOfTheBusy' /\ Undisturbed'
  BY <1>1, <1>4, <1>5, Distinct DEF ScanInv, JobsAreOfTheBusy, Undisturbed
<1>8. FindsItsFile'
  BY <1>5, Distinct DEF FindsItsFile
<1>9. HasItsFile'
  <2>1. ASSUME NEW s \in Starters, Alone(s)'
        PROVE  /\ pc'[s] \in {"new", "refused"} => file' = Absent
               /\ pc'[s] \in {"scan", "ended"} =>
                    IF job'[s] = NoJob THEN file' = Report(s)'
                    ELSE job'[s].status = Report(s)' /\ IF Filling(s)' THEN file' = Empty ELSE Readable'
               /\ pc'[s] = "ended" => collected'[s] = Answers(s)'
    <3>1. Alone(s) /\ s \in Procs
      BY <1>5, <2>1, Distinct DEF Alone
    <3>2. pc'[s] \in {"new", "refused"} => file' = Absent
      BY <1>5, <3>1 DEF ScanInv, HasItsFile
    <3>3. ASSUME pc'[s] \in {"scan", "ended"}
          PROVE  job'[s] = NoJob /\ file' = Report(s)' /\ collected'[s] = Answers(s)'
      <4>1. pc'[s] = "ended" /\ pc[s] = "ended" /\ job[s] = NoJob
        BY <1>5, <3>1, <3>3 DEF Busy
      <4>2. file = Report(s) /\ collected[s] = Answers(s)
        BY <3>1, <4>1 DEF ScanInv, HasItsFile
      <4>3. Report(s)' = Report(s) /\ Answers(s)' = Answers(s)
        BY <4>1 DEF Report, Answers
      <4> QED
        BY <1>1, <3>1, <4>2, <4>3
    <3> QED
      BY <3>2, <3>3
  <2> QED
    BY <2>1 DEF HasItsFile
<1>10. PanicNeedsCompany'
  BY <1>5, Distinct DEF ScanInv, PanicNeedsCompany
<1> QED
  BY <1>6, <1>7, <1>8, <1>9, <1>10 DEF ScanInv

LEMMA FinishStep == ASSUME ScanInv, NEW s \in Starters, Finish(s) PROVE ScanInv'
<1>1. pc[s] = "scan" /\ job[s] = NoJob /\ Answers(s) = collected[s]
      /\ UNCHANGED <<file, subnet, ipList, collected, crashes, disturbed>>
  BY DEF Finish
<1>2. ASSUME Readable PROVE ScanInv'
  <2>1. pc' = [pc EXCEPT ![s] = "ended"] /\ Writing(s, [Current EXCEPT !.active = FALSE]) /\ panicked' = panicked
    BY <1>2 DEF Finish
  <2>2. PICK c \in Status : c = Current
    BY <1>2, CurrentType
  <2>3. PICK report \in Status : report = [c EXCEPT !.active = FALSE]
    BY <2>2 DEF Status
  <2>4. Alone(s) => report = [active |-> FALSE, found |-> collected'[s]]
    <3> SUFFICES ASSUME Alone(s) PROVE report = [active |-> FALSE, found |-> collected'[s]]
      OBVIOUS
    <3>1. c.found = collected[s]
      BY <1>1, <2>2, ReadsItsReport DEF Report
    <3>2. collected'[s] = collected[s]
      BY <1>1
    <3>3. report.found = c.found /\ report.active = FALSE
      BY <2>3 DEF Status
    <3> QED
      BY <3>1, <3>2, <3>3 DEF Status
  <2>5. collected' \in [Starters -> SUBSET Present]
    BY <1>1 DEF ScanInv, ScanTyped
  <2> QED
    BY <1>1, <1>2, <2>1, <2>2, <2>3, <2>4, <2>5, GoesOn
<1>3. ASSUME ~Readable PROVE ScanInv'
  <2>1. Die /\ panicked' = panicked \cup {s}
    BY <1>3 DEF Finish
  <2>2. s \in disturbed
    BY <1>1, <1>3, UnreadableNeedsCompany
  <2>3. panicked' \subseteq Starters /\ \A t \in panicked' : t \in panicked \/ t \in disturbed
    BY <2>1, <2>2 DEF ScanInv, ScanTyped
  <2> QED
    BY <1>1, <2>1, <2>3, DieStep
<1> QED
  BY <1>2, <1>3

LEMMA CrashScanStep == ASSUME ScanInv, Crash PROVE ScanInv'
<1>1. Die /\ UNCHANGED <<file, ipList, collected, disturbed, panicked>>
  BY DEF Crash
<1>2. panicked' \subseteq Starters /\ \A t \in panicked' : t \in panicked \/ t \in disturbed
  BY <1>1 DEF ScanInv, ScanTyped
<1> QED
  BY <1>1, <1>2, DieStep

(* Whoever has a write under way is busy, and began.                       *)
LEMMA WriterBegan ==
    ASSUME ScanInv, NEW p \in Procs, job[p] # NoJob
    PROVE  Busy(p) /\ pc[p] \in {"scan", "ended"} /\ job[p] \in Job
           /\ \A s \in Starters : Alone(s) => s = p
BY DEF Busy, ScanInv, ScanTyped, JobsAreOfTheBusy, Stages, Alone

LEMMA TruncateStep == ASSUME ScanInv, NEW p \in Procs, Truncate(p) PROVE ScanInv'
<1>1. job[p] # NoJob /\ job[p].stage = "truncate" /\ file' = Empty
      /\ UNCHANGED <<pc, subnet, ipList, collected, crashes, panicked, disturbed>>
  BY DEF Truncate
<1>2. Busy(p) /\ pc[p] \in {"scan", "ended"} /\ job[p] \in Job /\ \A s \in Starters : Alone(s) => s = p
  BY <1>1, WriterBegan
<1>3. PICK j \in Job : j = [job[p] EXCEPT !.stage = "fill"]
  BY <1>2 DEF Job
<1>4. job' = [job EXCEPT ![p] = j]
  BY <1>3 DEF Truncate
<1>5. job \in [Procs -> Job \cup {NoJob}]
  BY DEF ScanInv, ScanTyped
<1>6. job' \in [Procs -> Job \cup {NoJob}] /\ job'[p] = j /\ \A q \in Procs \ {p} : job'[q] = job[q]
  BY <1>4, <1>5
<1>7. j # NoJob /\ j.status = job[p].status /\ j.stage = "fill"
  BY <1>2, <1>3, Distinct DEF Job
<1>8. \A q \in Procs : Busy(q)' <=> Busy(q)
  BY <1>1, <1>6, <1>7 DEF Busy
<1>9. ScanTyped'
  BY <1>1, <1>6 DEF ScanInv, ScanTyped
<1>10. JobsAreOfTheBusy'
  BY <1>1, <1>2, <1>6 DEF ScanInv, JobsAreOfTheBusy
<1>11. Undisturbed'
  BY <1>1, <1>8 DEF ScanInv, Undisturbed
<1>12. FindsItsFile'
  <2>1. ASSUME NEW s \in Starters, pc'[s] = "scan", s \notin disturbed' PROVE Filling(s)' /\ file' = Empty
    <3>1. Busy(s) /\ s \in Procs
      BY <1>1, <2>1, Distinct DEF Busy
    <3>2. s = p
      BY <1>1, <1>2, <2>1, <3>1 DEF ScanInv, Undisturbed
    <3> QED
      BY <1>1, <1>6, <1>7, <3>2 DEF Filling
  <2> QED
    BY <2>1 DEF FindsItsFile
<1>13. HasItsFile'
  <2>1. ASSUME NEW s \in Starters, Alone(s)'
        PROVE  /\ pc'[s] \in {"new", "refused"} => file' = Absent
               /\ pc'[s] \in {"scan", "ended"} =>
                    IF job'[s] = NoJob THEN file' = Report(s)'
                    ELSE job'[s].status = Report(s)' /\ IF Filling(s)' THEN file' = Empty ELSE Readable'
               /\ pc'[s] = "ended" => collected'[s] = Answers(s)'
    <3>1. Alone(s) /\ s = p
      BY <1>1, <1>2, <2>1 DEF Alone
    <3>2. job[s].status = Report(s) /\ (pc[s] = "ended" => collected[s] = Answers(s))
      BY <1>1, <1>2, <3>1 DEF ScanInv, HasItsFile
    <3>3. Report(s)' = Report(s) /\ Answers(s)' = Answers(s)
      BY <1>1 DEF Report, Answers
    <3> QED
      BY <1>1, <1>2, <1>6, <1>7, <3>1, <3>2, <3>3 DEF Filling
  <2> QED
    BY <2>1 DEF HasItsFile
<1>14. PanicNeedsCompany'
  BY <1>1 DEF ScanInv, PanicNeedsCompany
<1> QED
  BY <1>9, <1>10, <1>11, <1>12, <1>13, <1>14 DEF ScanInv

LEMMA FillStep == ASSUME ScanInv, NEW p \in Procs, Fill(p) PROVE ScanInv'
<1>1. job[p] # NoJob /\ job[p].stage = "fill" /\ job' = [job EXCEPT ![p] = NoJob]
      /\ file' \in {job[p].status, Garbage} /\ (file = Empty => file' = job[p].status)
      /\ UNCHANGED <<pc, subnet, ipList, collected, crashes, panicked, disturbed>>
  BY DEF Fill
<1>2. Busy(p) /\ pc[p] \in {"scan", "ended"} /\ job[p] \in Job /\ \A s \in Starters : Alone(s) => s = p
  BY <1>1, WriterBegan
<1>3. job[p].status \in Status
  BY <1>2 DEF Job
<1>4. job \in [Procs -> Job \cup {NoJob}]
  BY DEF ScanInv, ScanTyped
<1>5. job' \in [Procs -> Job \cup {NoJob}] /\ job'[p] = NoJob /\ \A q \in Procs \ {p} : job'[q] = job[q]
  BY <1>1, <1>4
<1>6. \A q \in Procs : Busy(q)' => Busy(q)
  BY <1>1, <1>2, <1>5 DEF Busy
<1>7. ScanTyped'
  BY <1>1, <1>3, <1>5 DEF ScanInv, ScanTyped
<1>8. JobsAreOfTheBusy'
  BY <1>1, <1>2, <1>5 DEF ScanInv, JobsAreOfTheBusy
<1>9. Undisturbed'
  BY <1>1, <1>6 DEF ScanInv, Undisturbed
<1>10. ~Filling(p)'
  BY <1>5 DEF Filling
<1>11. FindsItsFile'
  <2>1. ASSUME NEW s \in Starters, pc'[s] = "scan", s \notin disturbed'
        PROVE  IF Filling(s)' THEN file' = Empty ELSE Readable'
    <3>1. Busy(s) /\ s \in Procs
      BY <1>1, <2>1, Distinct DEF Busy
    <3>2. s = p
      BY <1>1, <1>2, <2>1, <3>1 DEF ScanInv, Undisturbed
    <3>3. file = Empty
      BY <1>1, <2>1, <3>2 DEF ScanInv, FindsItsFile, Filling
    <3>4. Readable'
      BY <1>1, <1>3, <3>3, Distinct DEF Readable
    <3> QED
      BY <1>10, <3>2, <3>4
  <2> QED
    BY <2>1 DEF FindsItsFile
<1>12. HasItsFile'
  <2>1. ASSUME NEW s \in Starters, Alone(s)'
        PROVE  /\ pc'[s] \in {"new", "refused"} => file' = Absent
               /\ pc'[s] \in {"scan", "ended"} =>
                    IF job'[s] = NoJob THEN file' = Report(s)'
                    ELSE job'[s].status = Report(s)' /\ IF Filling(s)' THEN file' = Empty ELSE Readable'
               /\ pc'[s] = "ended" => collected'[s] = Answers(s)'
    <3>1. Alone(s) /\ s = p
      BY <1>1, <1>2, <2>1 DEF Alone
    <3>2. job[s].status = Report(s) /\ file = Empty /\ (pc[s] = "ended" => collected[s] = Answers(s))
      BY <1>1, <1>2, <3>1 DEF ScanInv, HasItsFile, Filling
    <3>3. Report(s)' = Report(s) /\ Answers(s)' = Answers(s)
      BY <1>1 DEF Report, Answers
    <3> QED
      BY <1>1, <1>2, <1>5, <3>1, <3>2, <3>3
  <2> QED
    BY <2>1 DEF HasItsFile
<1>13. PanicNeedsCompany'
  BY <1>1 DEF ScanInv, PanicNeedsCompany
<1> QED
  BY <1>7, <1>8, <1>9, <1>11, <1>12, <1>13 DEF ScanInv

LEMMA ScanStep == ASSUME ScanInv, [ScanNext]_scanVars PROVE ScanInv'
<1>1. ASSUME NEW s \in Starters, Start(s) \/ Collect(s) \/ Finish(s) PROVE ScanInv'
  BY <1>1, StartStep, CollectStep, FinishStep
<1>2. ASSUME NEW c \in Cancellers, Cancel(c) PROVE ScanInv'
  BY <1>2, CancelScanStep
<1>3. ASSUME NEW p \in Procs, Refuse(p) \/ Truncate(p) \/ Fill(p) PROVE ScanInv'
  BY <1>3, RefuseStep, TruncateStep, FillStep
<1>4. ASSUME Crash PROVE ScanInv'
  BY <1>4, CrashScanStep
<1>5. ASSUME UNCHANGED scanVars PROVE ScanInv'
  BY <1>5 DEF scanVars, ScanInv, ScanTyped, JobsAreOfTheBusy, Undisturbed, FindsItsFile, HasItsFile,
     PanicNeedsCompany, Busy, Filling, Readable, Alone, Report, Answers
<1> QED
  BY <1>1, <1>2, <1>3, <1>4, <1>5 DEF ScanNext

(* What a goroutine asks is what its subnet holds.                         *)
AsksItsSubnet ==
    /\ subnet \in [Starters -> Subnets \cup {NoSubnet}]
    /\ ipList \in [Starters -> SUBSET Address]
    /\ crashes \in 0..MaxCrashes
    /\ \A s \in Starters : pc[s] \notin {"new", "refused"} =>
          subnet[s] \in Subnets /\ ipList[s] = ExpandSubnet(subnet[s])

LEMMA ExpandedType == ASSUME NEW n \in Subnets PROVE ExpandSubnet(n) \subseteq Address
<1>1. n \in [ip : Address, ones : 1..Bytes * Bits]
  BY DiscoveryAssumption
<1>2. n.ip \in Address
  BY <1>1
<1> QED
  BY <1>1, <1>2, SubnetIsExpanded

LEMMA AskStart == ScanInit => AsksItsSubnet
<1> SUFFICES ASSUME ScanInit PROVE AsksItsSubnet
  OBVIOUS
<1>1. MaxCrashes \in Nat
  BY DiscoveryAssumption
<1> QED
  BY <1>1, Distinct DEF ScanInit, AsksItsSubnet

LEMMA AskStep == ASSUME ScanInv, AsksItsSubnet, [ScanNext]_scanVars PROVE AsksItsSubnet'
<1>1. pc \in [Procs -> Stages]
  BY DEF ScanInv, ScanTyped
<1>2. ASSUME NEW s \in Starters, Start(s) PROVE AsksItsSubnet'
  <2>1. PICK n \in Subnets : subnet' = [subnet EXCEPT ![s] = n] /\ ipList' = [ipList EXCEPT ![s] = ExpandSubnet(n)]
    BY <1>2 DEF Start
  <2>2. pc' = [pc EXCEPT ![s] = "scan"] /\ UNCHANGED crashes
    BY <1>2 DEF Start
  <2>3. ExpandSubnet(n) \subseteq Address
    BY ExpandedType
  <2>4. ipList' \in [Starters -> SUBSET Address]
    BY <2>1, <2>3 DEF AsksItsSubnet
  <2>5. subnet' \in [Starters -> Subnets \cup {NoSubnet}]
    BY <2>1 DEF AsksItsSubnet
  <2>6. ASSUME NEW t \in Starters, pc'[t] \notin {"new", "refused"}
        PROVE  subnet'[t] \in Subnets /\ ipList'[t] = ExpandSubnet(subnet'[t])
    <3>1. CASE t = s
      BY <2>1, <3>1 DEF AsksItsSubnet
    <3>2. CASE t # s
      <4>1. pc'[t] = pc[t] /\ subnet'[t] = subnet[t] /\ ipList'[t] = ipList[t]
        BY <1>1, <2>1, <2>2, <3>2, Distinct DEF AsksItsSubnet
      <4> QED
        BY <2>6, <4>1 DEF AsksItsSubnet
    <3> QED
      BY <3>1, <3>2
  <2> QED
    BY <2>2, <2>4, <2>5, <2>6 DEF AsksItsSubnet
<1>3. ASSUME UNCHANGED <<subnet, ipList>>, crashes' \in 0..MaxCrashes,
             \A s \in Starters : pc[s] \in {"new", "refused"} => pc'[s] \in {"new", "refused"}
      PROVE  AsksItsSubnet'
  BY <1>3 DEF AsksItsSubnet
<1>4. ASSUME NEW p \in Procs, NEW stage, pc' = [pc EXCEPT ![p] = stage],
             p \in Starters /\ pc[p] \in {"new", "refused"} => stage \in {"new", "refused"}
      PROVE  \A s \in Starters : pc[s] \in {"new", "refused"} => pc'[s] \in {"new", "refused"}
  BY <1>1, <1>4, Distinct
<1>5. crashes \in 0..MaxCrashes
  BY DEF AsksItsSubnet
<1>6. ASSUME Die PROVE \A s \in Starters : pc[s] \in {"new", "refused"} => pc'[s] \in {"new", "refused"}
  <2> SUFFICES ASSUME NEW s \in Starters, pc[s] \in {"new", "refused"} PROVE pc'[s] = pc[s]
    OBVIOUS
  <2>1. ~Busy(s) /\ pc[s] # "stuck"
    BY Distinct DEF Busy, ScanInv, JobsAreOfTheBusy
  <2> QED
    BY <1>6, <2>1, Distinct DEF Die
<1>7. ASSUME NEW s \in Starters, Collect(s) PROVE AsksItsSubnet'
  <2>1. pc' = pc \/ pc' = [pc EXCEPT ![s] = "stuck"]
    BY <1>7 DEF Collect
  <2>2. pc[s] = "scan" /\ s \in Procs
    BY <1>7, Distinct DEF Collect
  <2>3. \A t \in Starters : pc[t] \in {"new", "refused"} => pc'[t] \in {"new", "refused"}
    BY <1>1, <2>1, <2>2, Distinct
  <2> QED
    BY <1>3, <1>5, <1>7, <2>3 DEF Collect
<1>8. ASSUME NEW s \in Starters, Finish(s) PROVE AsksItsSubnet'
  <2>1. pc' = [pc EXCEPT ![s] = "ended"] \/ Die
    BY <1>8 DEF Finish
  <2>2. pc[s] = "scan" /\ s \in Procs
    BY <1>8, Distinct DEF Finish
  <2>3. \A t \in Starters : pc[t] \in {"new", "refused"} => pc'[t] \in {"new", "refused"}
    BY <1>1, <1>6, <2>1, <2>2, Distinct
  <2> QED
    BY <1>3, <1>5, <1>8, <2>3 DEF Finish
<1>9. ASSUME NEW c \in Cancellers, Cancel(c) PROVE AsksItsSubnet'
  <2>1. \A t \in Starters : pc[t] \in {"new", "refused"} => pc'[t] \in {"new", "refused"}
    <3>1. pc' = [pc EXCEPT ![c] = "ended"] /\ c \in Procs /\ c \notin Starters
      BY <1>9, Distinct DEF Cancel, Procs
    <3> QED
      BY <1>1, <3>1, Distinct
  <2> QED
    BY <1>3, <1>5, <1>9, <2>1 DEF Cancel
<1>10. ASSUME NEW p \in Procs, Refuse(p) PROVE AsksItsSubnet'
  <2>1. \A t \in Starters : pc[t] \in {"new", "refused"} => pc'[t] \in {"new", "refused"}
    <3>1. pc' = [pc EXCEPT ![p] = "refused"]
      BY <1>10 DEF Refuse
    <3> QED
      BY <1>1, <3>1, Distinct
  <2> QED
    BY <1>3, <1>5, <1>10, <2>1 DEF Refuse
<1>11. ASSUME NEW p \in Procs, Truncate(p) \/ Fill(p) PROVE AsksItsSubnet'
  BY <1>3, <1>5, <1>11 DEF Truncate, Fill
<1>12. ASSUME Crash PROVE AsksItsSubnet'
  <2>1. crashes' \in 0..MaxCrashes
    BY <1>5, <1>12, DiscoveryAssumption DEF Crash
  <2> QED
    BY <1>3, <1>6, <1>12, <2>1 DEF Crash
<1>13. ASSUME UNCHANGED scanVars PROVE AsksItsSubnet'
  BY <1>3, <1>5, <1>13 DEF scanVars
<1> QED
  BY <1>2, <1>7, <1>8, <1>9, <1>10, <1>11, <1>12, <1>13 DEF ScanNext

(* Any number of start and cancel requests, any subnets of addresses of    *)
(* any number of bytes: a scan asks every host address of its subnet and   *)
(* no other; one that no other request ran into has, when it ended,        *)
(* reported every node that answered; and a goroutine finds an unreadable  *)
(* status only if it was busy together with another one.                   *)
THEOREM ScanStaysTrue == ScanSpec => []ScanIsTrue
<1>1. ScanInit => ScanInv /\ AsksItsSubnet
  BY ScanStart, AskStart
<1>2. ScanInv /\ AsksItsSubnet /\ [ScanNext]_scanVars => (ScanInv /\ AsksItsSubnet)'
  BY ScanStep, AskStep
<1>3. ScanInv /\ AsksItsSubnet => ScanIsTrue
  <2> SUFFICES ASSUME ScanInv, AsksItsSubnet PROVE ScanIsTrue
    OBVIOUS
  <2>1. TypeOK
    BY DEF TypeOK, ScanInv, ScanTyped, Stages, AsksItsSubnet
  <2>2. SubnetIsCovered
    <3> SUFFICES ASSUME NEW s \in Starters, pc[s] \notin {"new", "refused"}
                 PROVE  LET n == subnet[s]
                            size == Pow2[Bytes * Bits - n.ones]
                            first == (Number(n.ip) \div size) * size
                        IN ipList[s] =
                             IF size = 1 THEN {n.ip}
                             ELSE {ip \in Address : first < Number(ip) /\ Number(ip) < first + size - 1}
      BY DEF SubnetIsCovered
    <3>1. subnet[s] \in [ip : Address, ones : 1..Bytes * Bits] /\ ipList[s] = ExpandSubnet(subnet[s])
      BY DiscoveryAssumption DEF AsksItsSubnet
    <3> QED
      BY <3>1, SubnetIsExpanded
  <2>3. UndisturbedIsComplete
    <3> SUFFICES ASSUME NEW s \in Starters, pc[s] = "ended", job[s] = NoJob,
                        \A p \in Procs \ {s} : pc[p] \in {"new", "refused"}
                 PROVE  file = [active |-> FALSE, found |-> Answers(s)]
      BY DEF UndisturbedIsComplete
    <3>1. file = Report(s) /\ collected[s] = Answers(s)
      BY DEF ScanInv, HasItsFile, Alone
    <3> QED
      BY <3>1 DEF Report
  <2> QED
    BY <2>1, <2>2, <2>3 DEF ScanInv, ScanIsTrue
<1> QED
  BY <1>1, <1>2, <1>3, PTL DEF ScanSpec

-----------------------------------------------------------------------------
(* What EndsAreHeard rests on, but for fairness.                           *)

(* A click goes forward through these stages, polls, or begins again.      *)
Forward == {<<"idle", "posting">>, <<"posting", "posted">>, <<"posted", "asking">>}
ClickMovesOn(c) ==
    \/ click'[c] = click[c]
    \/ click'[c].tries = click[c].tries /\ <<click[c].stage, click'[c].stage>> \in Forward
    \/ /\ click'[c].tries = click[c].tries /\ click[c].stage = "asking" /\ click'[c].stage = "asking"
       /\ click'[c].polls = click[c].polls + 1 /\ click'[c].polls < MaxAttempts
    \/ /\ click[c].stage \in {"posting", "posted", "asking"}
       /\ \/ click[c].tries = 0 /\ click'[c].tries = 1 /\ click'[c].stage = "posting"
          \/ click'[c].stage \in {"success", "error"}
ClicksMoveOn == \A c \in Clicks : ClickMovesOn(c)

CancelledWasNamed(o) == status[o] = "cancelled" => o \in named

(* What the dialog has seen is of the operation it is about now; an end is *)
(* how that ended, unless a cancel request named it.                       *)
SeenIsTrue ==
    /\ dialog = [open |-> dialog.open, starting |-> dialog.starting, op |-> dialog.op, seen |-> dialog.seen]
    /\ dialog.starting \in BOOLEAN
    /\ dialog.op = Nobody \/ dialog.starting => dialog.seen = "none"
    /\ \A o \in Ops : CancelledWasNamed(o)
    /\ \A o \in Ops : dialog.op = o /\ dialog.seen \in Final /\ o \notin named => dialog.seen = status[o]

(* The end of an operation that nobody named is final.                     *)
EndStays(o) ==
    /\ CancelledWasNamed(o)'
    /\ o \in named => o \in named'
    /\ status[o] \in Final /\ o \notin named => status'[o] = status[o]

LEMMA OneMovesOn == ASSUME FollowInv, NEW c \in Clicks, ClickNext(c) PROVE ClicksMoveOn
<1> DEFINE k == click[c]
<1>1. k \in Clicked /\ MaxAttempts \in Nat
  BY FollowBounds DEF FollowInv, ClicksAreSound, ClickIsSound
<1>2. click = [d \in Clicks |-> click[d]]
  BY DEF FollowInv, ClicksAreSound
<1>3. ASSUME NEW next, Go(c, next), click'[c] = next => ClickMovesOn(c) PROVE ClicksMoveOn
  <2>1. click'[c] = next /\ \A d \in Clicks \ {c} : click'[d] = click[d]
    BY <1>2, <1>3 DEF Go
  <2> QED
    BY <1>3, <2>1 DEF ClicksMoveOn, ClickMovesOn
<1>4. ASSUME NEW f, f = Failed(k, TRUE) \/ f = Failed(k, FALSE), Go(c, f), k.stage \in {"posting", "posted", "asking"}
      PROVE  ClicksMoveOn
  <2>1. CASE k.tries = 0
    <3>1. f.stage = "posting" /\ f.tries = 1
      BY <1>1, <1>4, <2>1 DEF Failed, Clicked
    <3> QED
      BY <1>3, <1>4, <2>1, <3>1 DEF ClickMovesOn
  <2>2. CASE k.tries # 0
    <3>1. f.stage = "error"
      BY <1>1, <1>4, <2>2 DEF Failed, Clicked
    <3> QED
      BY <1>3, <1>4, <3>1 DEF ClickMovesOn
  <2> QED
    BY <2>1, <2>2
<1>5. CASE Press(c)
  BY <1>1, <1>3, <1>5 DEF Press, Clicked, ClickMovesOn, Forward
<1>6. CASE Post(c)
  <2>1. PICK o \in Ops : Go(c, [k EXCEPT !.stage = "posted", !.op = o, !.began = @ \cup {o}])
    BY <1>6 DEF Post
  <2>2. k.stage = "posting"
    BY <1>6 DEF Post
  <2> QED
    BY <1>1, <1>3, <2>1, <2>2 DEF Clicked, ClickMovesOn, Forward
<1>7. CASE Accepted(c)
  BY <1>1, <1>3, <1>7 DEF Accepted, Clicked, ClickMovesOn, Forward
<1>8. CASE Ask(c)
  <2> DEFINE s == status[k.op]
  <2>1. Go(c, Asked(k, s)) /\ k.stage = "asking"
    BY <1>8 DEF Ask
  <2>2. CASE s = "completed"
    BY <1>1, <1>3, <2>1, <2>2 DEF Asked, Clicked, ClickMovesOn
  <2>3. CASE s = "failed"
    <3>1. Asked(k, s) = Failed(k, TRUE)
      BY <2>3 DEF Asked
    <3> QED
      BY <1>4, <2>1, <3>1
  <2>4. CASE s \notin {"completed", "failed"} /\ k.polls + 1 < MaxAttempts
    <3>1. Asked(k, s) = [k EXCEPT !.polls = @ + 1]
      BY <2>4 DEF Asked
    <3> QED
      BY <1>1, <1>3, <2>1, <2>4, <3>1 DEF Clicked, ClickMovesOn
  <2>5. CASE s \notin {"completed", "failed"} /\ ~(k.polls + 1 < MaxAttempts)
    <3>1. Asked(k, s) = Failed(k, FALSE)
      BY <2>5 DEF Asked
    <3> QED
      BY <1>4, <2>1, <3>1
  <2> QED
    BY <2>2, <2>3, <2>4, <2>5
<1>9. CASE Errs(c) \/ HangsUp(c)
  <2>1. Go(c, Failed(k, FALSE)) /\ k.stage \in {"posting", "posted", "asking"}
    BY <1>9 DEF Errs, HangsUp
  <2> QED
    BY <1>4, <2>1
<1> QED
  BY <1>5, <1>6, <1>7, <1>8, <1>9 DEF ClickNext

LEMMA ClicksRest == ASSUME UNCHANGED click PROVE ClicksMoveOn
BY DEF ClicksMoveOn, ClickMovesOn

(* What each step of the daemon leaves of an end.                          *)
LEMMA EndsStay ==
    ASSUME DaemonIsSound, \A o \in Ops : CancelledWasNamed(o),
           \/ \E o : Daemon!Submit(o)
           \/ \E o \in Ops : Daemon!Work(o) \/ Daemon!Name(o) \/ Daemon!Cancel(o)
           \/ Daemon!Crash
           \/ UNCHANGED daemon
    PROVE  \A o \in Ops : EndStays(o)
<1>1. status = [o \in Ops |-> status[o]] /\ \A o \in Ops : status[o] \in {"completed", "failed"} => phase[o] = "settled"
  BY DEF DaemonIsSound
<1>2. ASSUME NEW p \in Ops, UNCHANGED <<status, named>> PROVE EndStays(p)
  BY <1>2 DEF EndStays, CancelledWasNamed
<1>3. ASSUME NEW o \in Ops, NEW p \in Ops, Daemon!Work(o) PROVE EndStays(p)
  <2>1. phase[o] = "at work" /\ UNCHANGED named /\ \A q \in Ops \ {o} : status'[q] = status[q]
    BY <1>1, <1>3 DEF Daemon!Work, Daemon!Say, Daemon!Settle
  <2>2. status'[o] = "cancelled" => status[o] = "cancelled"
    BY <1>1, <1>3 DEF Daemon!Work, Daemon!Say, Daemon!Settle, Daemon!Open, Daemon!Outcomes
  <2>3. status[o] \in Final => o \in named
    BY <1>1, <2>1 DEF Final, CancelledWasNamed
  <2> QED
    BY <2>1, <2>2, <2>3 DEF EndStays, CancelledWasNamed
<1>4. ASSUME NEW o \in Ops, NEW p \in Ops, Daemon!Name(o) \/ Daemon!Cancel(o) PROVE EndStays(p)
  <2>1. CASE Daemon!Name(o)
    BY <2>1 DEF Daemon!Name, EndStays, CancelledWasNamed
  <2>2. CASE Daemon!Cancel(o)
    BY <1>1, <2>2 DEF Daemon!Cancel, EndStays, CancelledWasNamed
  <2> QED
    BY <1>4, <2>1, <2>2
<1> QED
  BY <1>2, <1>3, <1>4 DEF Daemon!Submit, Daemon!Crash, daemon

(* A step of the dialog, beside which the daemon may take a submission.    *)
LEMMA SeenByDialog ==
    ASSUME SeenIsTrue, \A o \in Ops : EndStays(o), DialogNext
    PROVE  SeenIsTrue'
<1>1. \A o \in Ops : CancelledWasNamed(o)'
  BY DEF EndStays
<1>2. ASSUME NEW d, dialog' = d, d.op = Nobody \/ d.starting => d.seen = "none", d.starting \in BOOLEAN,
             d = [open |-> d.open, starting |-> d.starting, op |-> d.op, seen |-> d.seen],
             \A o \in Ops : d.op = o /\ d.seen \in Final => d.seen = status'[o] \/ o \in named'
      PROVE  SeenIsTrue'
  BY <1>1, <1>2 DEF SeenIsTrue
<1>3. ASSUME UNCHANGED dialog PROVE SeenIsTrue'
  BY <1>1, <1>3 DEF SeenIsTrue, EndStays
<1>4. "none" \notin Final
  BY DEF Final
<1>5. CASE OpenDialog \/ CloseTimer \/ CloseDialog
  <2>1. PICK d : d = dialog'
    OBVIOUS
  <2>2. /\ d.op = Nobody /\ d.starting = FALSE /\ d.seen = "none"
        /\ d = [open |-> d.open, starting |-> d.starting, op |-> d.op, seen |-> d.seen]
    BY <1>5, <2>1 DEF OpenDialog, CloseTimer, CloseDialog, NoDialog
  <2> QED
    BY <1>2, <1>4, <2>1, <2>2
<1>6. CASE StartBootstrap
  BY <1>2, <1>3, <1>4, <1>6 DEF StartBootstrap, Confirming, SeenIsTrue
<1>7. CASE Started \/ StartLost
  <2>1. PICK d : d = dialog'
    OBVIOUS
  <2>2. /\ d.starting = FALSE /\ d.seen = "none"
        /\ d = [open |-> d.open, starting |-> d.starting, op |-> d.op, seen |-> d.seen]
    BY <1>7, <2>1 DEF Started, StartLost, SeenIsTrue
  <2> QED
    BY <1>2, <1>4, <2>1, <2>2
<1>8. CASE PollDialog
  BY <1>2, <1>8 DEF PollDialog, SeenIsTrue, daemon
<1> QED
  BY <1>5, <1>6, <1>7, <1>8 DEF DialogNext

LEMMA HeardStep ==
    ASSUME FollowInv, SeenIsTrue, [Next]_vars
    PROVE  ClicksMoveOn /\ SeenIsTrue' /\ \A o \in Ops : EndStays(o)
<1>1. DaemonIsSound /\ \A o \in Ops : CancelledWasNamed(o)
  BY DEF FollowInv, SeenIsTrue
<1>2. ASSUME \A o \in Ops : EndStays(o), UNCHANGED dialog PROVE SeenIsTrue'
  BY <1>2 DEF SeenIsTrue, EndStays
<1>3. ASSUME NEW c \in Clicks, ClickNext(c) PROVE ClicksMoveOn /\ SeenIsTrue' /\ \A o \in Ops : EndStays(o)
  <2>1. UNCHANGED dialog /\ ((\E o : Daemon!Submit(o)) \/ UNCHANGED daemon)
    BY <1>3 DEF ClickNext, Press, Post, Accepted, Ask, Errs, HangsUp
  <2>2. \A o \in Ops : EndStays(o)
    BY <1>1, <2>1, EndsStay
  <2> QED
    BY <1>2, <1>3, <2>1, <2>2, OneMovesOn
<1>4. ASSUME DialogNext PROVE ClicksMoveOn /\ SeenIsTrue' /\ \A o \in Ops : EndStays(o)
  <2>1. UNCHANGED click /\ ((\E o : Daemon!Submit(o)) \/ UNCHANGED daemon)
    BY <1>4 DEF DialogNext, OpenDialog, StartBootstrap, Started, StartLost, PollDialog, CloseTimer, CloseDialog, daemon
  <2>2. \A o \in Ops : EndStays(o)
    BY <1>1, <2>1, EndsStay
  <2> QED
    BY <1>4, <2>1, <2>2, SeenByDialog, ClicksRest
<1>5. ASSUME UNCHANGED <<click, dialog>>,
             \/ \E o : Daemon!Submit(o)
             \/ \E o \in Ops : Daemon!Work(o) \/ Daemon!Name(o) \/ Daemon!Cancel(o)
             \/ Daemon!Crash
             \/ UNCHANGED daemon
      PROVE  ClicksMoveOn /\ SeenIsTrue' /\ \A o \in Ops : EndStays(o)
  BY <1>1, <1>2, <1>5, EndsStay, ClicksRest
<1>6. ASSUME PageNext \/ UNCHANGED vars PROVE UNCHANGED <<click, dialog, daemon>>
  BY <1>6 DEF PageNext, PollList, SetFilter, CancelFromPage, vars
<1>7. CASE PageNext \/ UNCHANGED vars
  BY <1>5, <1>6, <1>7
<1>8. CASE OthersSubmit \/ (\E o \in Ops : DaemonWorks(o)) \/ OthersCancel \/ DaemonDies
  BY <1>5, <1>8 DEF OthersSubmit, DaemonWorks, OthersCancel, DaemonDies
<1> QED
  BY <1>3, <1>4, <1>7, <1>8 DEF Next

(* Whatever fails on the way, and whoever cancels or dies: a click goes    *)
(* forward through its stages and polls, begins again once at most, and    *)
(* ends; the end that the dialog has seen is that of its own bootstrap;    *)
(* and only an operation that a cancel request named changes its end.      *)
THEOREM ClicksMoveOnAndEndsStay ==
    Spec => []SeenIsTrue /\ [][ClicksMoveOn /\ \A o \in Ops : EndStays(o)]_vars
<1>1. Init => FollowInv /\ SeenIsTrue
  BY FollowInit DEF Init, Daemon!Init, NoDialog, SeenIsTrue, CancelledWasNamed
<1>2. FollowInv /\ SeenIsTrue /\ [Next]_vars =>
        (FollowInv /\ SeenIsTrue)' /\ (ClicksMoveOn /\ \A o \in Ops : EndStays(o))
  BY FollowStep, HeardStep
<1> QED
  BY <1>1, <1>2, PTL DEF Spec

-----------------------------------------------------------------------------
(* What TerminalConnects and ActiveEnds rest on, but for fairness.         *)

(* A terminal on screen is connected, is connecting, or will do so when    *)
(* its timer ends.                                                         *)
HasWayToConnect == terminal # NoTerminal => Held # {} \/ timer2s

LEMMA HeldStays ==
    ASSUME HasWayToConnect, SocketsAreSound, UNCHANGED <<terminal, wsRef, timer2s>>, NEW s \in sockets,
           s.id = wsRef => \E t \in sockets' : t.id = wsRef, sockets \ {s} \subseteq sockets'
    PROVE  HasWayToConnect'
<1>1. \A t \in Held : t = s \/ t \in Held'
  BY DEF Held
<1>2. s \in Held => Held' # {}
  BY DEF Held
<1> QED
  BY <1>1, <1>2 DEF HasWayToConnect

LEMMA ConnectedByItself == ASSUME NEW i, NEW others, Connect(i, others) PROVE HasWayToConnect'
<1>1. PICK id \in SocketIds \ {s.id : s \in sockets} : sockets' = others \cup {Socket(id, i)} /\ wsRef' = id
  BY DEF Connect
<1>2. Socket(id, i).id = id
  BY DEF Socket
<1>3. Socket(id, i) \in Held'
  BY <1>1, <1>2 DEF Held
<1> QED
  BY <1>3 DEF HasWayToConnect

LEMMA WayStep == ASSUME TermInv, HasWayToConnect, [TermNext]_termVars PROVE HasWayToConnect'
<1>1. SocketsAreSound
  BY DEF TermInv
<1>2. ASSUME NEW i \in Terminals, Mount(i) PROVE HasWayToConnect'
  BY <1>2, ConnectedByItself DEF Mount
<1>3. ASSUME Unmount PROVE HasWayToConnect'
  BY <1>3 DEF Unmount, HasWayToConnect
<1>4. ASSUME Reconnect2s PROVE HasWayToConnect'
  BY <1>4, ConnectedByItself DEF Reconnect2s
<1>5. ASSUME NEW s \in sockets, Close(s) PROVE HasWayToConnect'
  <2>1. UNCHANGED <<terminal, wsRef>> /\ sockets' = sockets \ {s} /\ timer2s' = (timer2s \/ s.id = wsRef)
    BY <1>5 DEF Close
  <2>2. CASE s.id = wsRef
    BY <2>1, <2>2 DEF HasWayToConnect
  <2>3. CASE s.id # wsRef
    <3>1. \A t \in Held : t \in Held'
      BY <2>1, <2>3 DEF Held
    <3> QED
      BY <2>1, <3>1 DEF HasWayToConnect
  <2> QED
    BY <2>2, <2>3
<1>6. ASSUME NEW s \in sockets, NEW p, UNCHANGED <<terminal, wsRef, timer2s>>,
             sockets' = (sockets \ {s}) \cup {[s EXCEPT !.phase = p]}
      PROVE  HasWayToConnect'
  <2>1. PICK t : t = [s EXCEPT !.phase = p]
    OBVIOUS
  <2>2. t.id = s.id
    BY <1>1, <2>1 DEF SocketsAreSound, SocketIsSound
  <2> QED
    BY <1>1, <1>6, <2>1, <2>2, HeldStays
<1>7. ASSUME NEW s \in sockets, Opens(s) PROVE HasWayToConnect'
  <2>1. UNCHANGED <<terminal, wsRef, timer2s>>
    BY <1>7 DEF Opens
  <2>2. CASE s.hangsUp
    <3>1. sockets' = sockets \ {s} /\ s.id # wsRef
      BY <1>1, <1>7, <2>2 DEF Opens, SocketsAreSound, SocketIsSound
    <3> QED
      BY <1>1, <2>1, <3>1, HeldStays
  <2>3. CASE ~s.hangsUp
    BY <1>6, <1>7, <2>1, <2>3 DEF Opens
  <2> QED
    BY <2>2, <2>3
<1>8. ASSUME NEW s \in sockets, Output(s) \/ Drop(s) \/ ShellExits(s) PROVE HasWayToConnect'
  <2>1. ASSUME Output(s) PROVE HasWayToConnect'
    BY <2>1 DEF Output, HasWayToConnect, Held
  <2>2. ASSUME Drop(s) PROVE HasWayToConnect'
    BY <1>5, <2>2 DEF Drop
  <2>3. ASSUME ShellExits(s) PROVE HasWayToConnect'
    BY <1>6, <2>3 DEF ShellExits
  <2> QED
    BY <1>8, <2>1, <2>2, <2>3
<1>9. ASSUME Key PROVE HasWayToConnect'
  BY <1>5, <1>9 DEF Key, Held
<1>10. ASSUME NEW b \in blobs, Write(b) PROVE HasWayToConnect'
  BY <1>10 DEF Write, HasWayToConnect, Held
<1>11. ASSUME UNCHANGED termVars PROVE HasWayToConnect'
  BY <1>11 DEF termVars, HasWayToConnect, Held
<1> QED
  BY <1>2, <1>3, <1>4, <1>7, <1>8, <1>9, <1>10, <1>11 DEF TermNext

(* However often connections are refused, lost and made again, and pages   *)
(* come and go: a terminal on screen holds a socket or has its timer set,  *)
(* so that none is left without a connection for good.                     *)
THEOREM TerminalKeepsConnecting == TermSpec => []HasWayToConnect
<1>1. TermInit => TermInv /\ HasWayToConnect
  BY TermStart DEF TermInit, HasWayToConnect
<1>2. TermInv /\ HasWayToConnect /\ [TermNext]_termVars => (TermInv /\ HasWayToConnect)'
  BY TermStep, WayStep
<1> QED
  BY <1>1, <1>2, PTL DEF TermSpec

(* A status that says "in progress" has a goroutine, or the write of a     *)
(* request, that is going to change it; who writes such a status scans.    *)
SaysActive == Readable /\ Current.active
ActiveHasScanner == SaysActive => crashes > 0 \/ panicked # {} \/ \E p \in Procs : Busy(p)
OnlyScannersSayActive == \A p \in Procs : job[p] # NoJob /\ job[p].status.active => pc[p] = "scan"
ScanGoesOn == ActiveHasScanner /\ OnlyScannersSayActive

(* Who is still busy keeps the status company.                             *)
LEMMA StillBusy ==
    ASSUME NEW p \in Procs, Busy(p)', OnlyScannersSayActive'
    PROVE  ScanGoesOn'
BY DEF ScanGoesOn, ActiveHasScanner

LEMMA OneJobChanges ==
    ASSUME ScanTyped, OnlyScannersSayActive, NEW p \in Procs, NEW j, job' = [job EXCEPT ![p] = j],
           \A q \in Procs \ {p} : pc'[q] = pc[q], j # NoJob /\ j.status.active => pc'[p] = "scan"
    PROVE  OnlyScannersSayActive'
BY DEF ScanTyped, OnlyScannersSayActive

LEMMA JobsRest ==
    ASSUME ScanTyped, OnlyScannersSayActive, NEW p \in Procs, UNCHANGED job,
           \A q \in Procs \ {p} : pc'[q] = pc[q], job[p] = NoJob
    PROVE  OnlyScannersSayActive'
BY DEF ScanTyped, OnlyScannersSayActive

LEMMA GoesOnStep == ASSUME ScanInv, AsksItsSubnet, ScanGoesOn, [ScanNext]_scanVars PROVE ScanGoesOn'
<1>1. ScanTyped /\ OnlyScannersSayActive /\ ActiveHasScanner
  BY DEF ScanInv, ScanGoesOn
<1>2. pc \in [Procs -> Stages] /\ job \in [Procs -> Job \cup {NoJob}]
  BY <1>1 DEF ScanTyped
<1>3. ASSUME NEW p \in Procs, NEW st, NEW to, Writing(p, st), [status |-> st, stage |-> "truncate"] \in Job,
             pc' = [pc EXCEPT ![p] = to], st.active => to = "scan"
      PROVE  ScanGoesOn'
  <2>1. PICK j \in Job : j = [status |-> st, stage |-> "truncate"] /\ j # NoJob
    BY <1>3, Distinct
  <2>2. job' = [job EXCEPT ![p] = j]
    BY <1>3, <2>1 DEF Writing
  <2>3. j.status = st
    BY <2>1
  <2>4. OnlyScannersSayActive'
    BY <1>1, <1>2, <1>3, <2>2, <2>3, OneJobChanges
  <2>5. Busy(p)'
    BY <1>2, <2>1, <2>2 DEF Busy
  <2> QED
    BY <2>4, <2>5, StillBusy
<1>4. Readable => Current \in Status
  BY <1>1, Distinct DEF ScanTyped, Readable, Current, Status
<1>5. ASSUME NEW s \in Starters, Start(s) PROVE ScanGoesOn'
  <2>1. [status |-> [active |-> TRUE, found |-> {}], stage |-> "truncate"] \in Job
    BY DEF Job, Status
  <2> QED
    BY <1>3, <1>5, <2>1, Distinct DEF Start
<1>6. ASSUME NEW c \in Cancellers, Cancel(c) PROVE ScanGoesOn'
  <2>1. PICK st : st = [Current EXCEPT !.active = FALSE]
    OBVIOUS
  <2>2. st \in Status /\ st.active = FALSE
    BY <1>4, <1>6, <2>1 DEF Cancel, Status
  <2>3. [status |-> st, stage |-> "truncate"] \in Job
    BY <2>2 DEF Job
  <2>4. c \in Procs /\ Writing(c, st) /\ pc' = [pc EXCEPT ![c] = "ended"]
    BY <1>6, <2>1 DEF Cancel, Procs
  <2> QED
    BY <1>3, <2>2, <2>3, <2>4
<1>7. ASSUME NEW p \in Procs, Refuse(p) PROVE ScanGoesOn'
  <2>1. pc[p] = "new" /\ pc' = [pc EXCEPT ![p] = "refused"] /\ UNCHANGED <<file, job, crashes, panicked>>
    BY <1>7 DEF Refuse
  <2>2. job[p] = NoJob
    BY <2>1 DEF ScanInv, JobsAreOfTheBusy
  <2>3. OnlyScannersSayActive'
    BY <1>1, <1>2, <2>1, <2>2, JobsRest
  <2>4. \A q \in Procs : Busy(q) => Busy(q)'
    BY <1>2, <2>1 DEF Busy
  <2> QED
    BY <1>1, <2>1, <2>3, <2>4 DEF ScanGoesOn, ActiveHasScanner, SaysActive, Readable, Current
<1>8. ASSUME NEW s \in Starters, Collect(s) PROVE ScanGoesOn'
  <2>0. s \in Procs /\ pc[s] = "scan" /\ job[s] = NoJob
    BY <1>8, Distinct DEF Collect
  <2>1. CASE Readable
    <3>1. PICK st : st = [Current EXCEPT !.found = collected'[s]]
      OBVIOUS
    <3>2. Writing(s, st) /\ UNCHANGED pc
      BY <1>8, <2>1, <3>1 DEF Collect
    <3>3. collected'[s] \in SUBSET Present
      <4>1. PICK ip \in Answers(s) \ collected[s] : collected' = [collected EXCEPT ![s] = @ \cup {ip}]
        BY <1>8 DEF Collect
      <4> QED
        BY <1>1, <4>1 DEF ScanTyped, Answers
    <3>4. st \in Status
      BY <1>4, <2>1, <3>1, <3>3 DEF Status
    <3>5. [status |-> st, stage |-> "truncate"] \in Job
      BY <3>4 DEF Job
    <3>6. pc' = [pc EXCEPT ![s] = "scan"]
      BY <1>2, <2>0, <3>2
    <3> QED
      BY <1>3, <2>0, <3>2, <3>5, <3>6
  <2>2. CASE ~Readable
    <3>1. pc' = [pc EXCEPT ![s] = "stuck"] /\ UNCHANGED <<file, job>>
      BY <1>8, <2>2 DEF Collect
    <3>2. OnlyScannersSayActive'
      BY <1>1, <1>2, <2>0, <3>1, JobsRest
    <3> QED
      BY <2>2, <3>1, <3>2 DEF ScanGoesOn, ActiveHasScanner, SaysActive, Readable
  <2> QED
    BY <2>1, <2>2
<1>9. ASSUME NEW s \in Starters, Finish(s) PROVE ScanGoesOn'
  <2>1. CASE Readable
    <3>1. PICK st : st = [Current EXCEPT !.active = FALSE]
      OBVIOUS
    <3>2. st \in Status /\ st.active = FALSE
      BY <1>4, <2>1, <3>1 DEF Status
    <3>3. [status |-> st, stage |-> "truncate"] \in Job
      BY <3>2 DEF Job
    <3>4. s \in Procs /\ Writing(s, st) /\ pc' = [pc EXCEPT ![s] = "ended"]
      BY <1>9, <2>1, <3>1, Distinct DEF Finish
    <3> QED
      BY <1>3, <3>2, <3>3, <3>4
  <2>2. CASE ~Readable
    <3>1. Die /\ s \in panicked'
      BY <1>9, <2>2 DEF Finish
    <3>2. \A q \in Procs : job'[q] = NoJob
      BY <3>1 DEF Die
    <3> QED
      BY <3>1, <3>2 DEF ScanGoesOn, ActiveHasScanner, OnlyScannersSayActive
  <2> QED
    BY <2>1, <2>2
<1>10. ASSUME NEW p \in Procs, Truncate(p) PROVE ScanGoesOn'
  <2>1. PICK j : j = [job[p] EXCEPT !.stage = "fill"]
    OBVIOUS
  <2>2. job[p] # NoJob /\ job[p] \in Job /\ job' = [job EXCEPT ![p] = j] /\ UNCHANGED pc /\ file' = Empty
    BY <1>2, <1>10, <2>1 DEF Truncate
  <2>3. j \in Job /\ j.status = job[p].status
    BY <2>1, <2>2 DEF Job
  <2>4. j.status.active => pc'[p] = "scan"
    BY <1>1, <2>2, <2>3 DEF OnlyScannersSayActive
  <2>5. OnlyScannersSayActive'
    BY <1>1, <2>2, <2>4, OneJobChanges
  <2> QED
    BY <2>2, <2>5 DEF ScanGoesOn, ActiveHasScanner, SaysActive, Readable
<1>11. ASSUME NEW p \in Procs, Fill(p) PROVE ScanGoesOn'
  <2>1. job[p] # NoJob /\ job' = [job EXCEPT ![p] = NoJob] /\ UNCHANGED pc /\ file' \in {job[p].status, Garbage}
    BY <1>11 DEF Fill
  <2>2. OnlyScannersSayActive'
    BY <1>1, <2>1, OneJobChanges
  <2>3. CASE pc[p] = "scan"
    BY <2>1, <2>2, <2>3, StillBusy DEF Busy
  <2>4. CASE pc[p] # "scan"
    <3>1. job[p].status \in Status /\ ~job[p].status.active
      BY <1>1, <1>2, <2>1, <2>4 DEF OnlyScannersSayActive, Job
    <3>2. ~SaysActive'
      BY <2>1, <3>1, Distinct DEF SaysActive, Readable, Current
    <3> QED
      BY <2>2, <3>2 DEF ScanGoesOn, ActiveHasScanner
  <2> QED
    BY <2>3, <2>4
<1>12. ASSUME Crash PROVE ScanGoesOn'
  <2>1. \A q \in Procs : job'[q] = NoJob
    BY <1>12 DEF Crash, Die
  <2>2. crashes' > 0
    BY <1>12, DiscoveryAssumption DEF Crash, AsksItsSubnet
  <2> QED
    BY <2>1, <2>2 DEF ScanGoesOn, ActiveHasScanner, OnlyScannersSayActive
<1>13. ASSUME UNCHANGED scanVars PROVE ScanGoesOn'
  BY <1>1, <1>13 DEF scanVars, ScanGoesOn, ActiveHasScanner, OnlyScannersSayActive, SaysActive, Readable, Current, Busy
<1> QED
  BY <1>5, <1>6, <1>7, <1>8, <1>9, <1>10, <1>11, <1>12, <1>13 DEF ScanNext

(* Whatever requests start and cancel scans and run into each other: as    *)
(* long as the daemon lives, a status that says "in progress", which       *)
(* refuses every later discovery, has a goroutine or a write under way     *)
(* that is going to change it.                                             *)
THEOREM ActiveStatusHasScanner == ScanSpec => []ActiveHasScanner
<1>1. ScanInit => ScanInv /\ AsksItsSubnet /\ ScanGoesOn
  <2>1. ScanInit => ScanGoesOn
    BY DEF ScanInit, ScanGoesOn, ActiveHasScanner, OnlyScannersSayActive, SaysActive, Current
  <2> QED
    BY <2>1, ScanStart, AskStart
<1>2. ScanInv /\ AsksItsSubnet /\ ScanGoesOn /\ [ScanNext]_scanVars => (ScanInv /\ AsksItsSubnet /\ ScanGoesOn)'
  BY ScanStep, AskStep, GoesOnStep
<1>3. ScanGoesOn => ActiveHasScanner
  BY DEF ScanGoesOn
<1> QED
  BY <1>1, <1>2, <1>3, PTL DEF ScanSpec
=============================================================================
