--------------------------- MODULE OperationFollow ---------------------------
(***************************************************************************)
(* How the web client follows the operations that the daemon promises as   *)
(* OperationLifecycle: the app buttons of hooks/useApps.ts, which poll     *)
(* inside their mutation, the bootstrap dialog, which polls with a query,  *)
(* and the page that lists the operations.  Records are read through HTTP  *)
(* and any answer may be an error: a lost connection, a record that is     *)
(* being written, a refusal.                                               *)
(***************************************************************************)
EXTENDS Naturals, FiniteSets

CONSTANTS
    Ops, Bootstraps,
    Clicks,       \* presses of Deploy, Restart, Update or Delete of an app
    MaxAttempts,  \* polls of one operation before it "timed out"; 60 in the code
    MaxLost,      \* bound: answers that are errors for no reason of the model's
    MaxDialogs,   \* bound: openings of the bootstrap dialog
    MaxOthers,    \* bound: operations that others start
    Nobody        \* no operation

ASSUME FollowBounds ==
    /\ MaxAttempts \in Nat \ {0} /\ MaxLost \in Nat /\ MaxDialogs \in Nat /\ MaxOthers \in Nat
    /\ Nobody \notin Ops

VARIABLES
    status, phase, named,  \* the daemon's, see OperationLifecycle
    surface,   \* what of the client is followed: its parts meet in the daemon only
    click,     \* click[c]: a mutation of an app
    dialog,    \* the bootstrap dialog
    closings,  \* timers that will close the dialog, whichever it is by then
    shown,     \* the operations page: the filter and the records it last got
    lost, dialogs

daemon == <<status, phase, named>>
vars == <<surface, daemon, click, dialog, closings, shown, lost, dialogs>>

Daemon == INSTANCE OperationLifecycle

Final == {"completed", "failed", "cancelled"}
Filters == {"all", "running", "completed", "failed"}
NoClick == [stage |-> "idle", op |-> Nobody, polls |-> 0, tries |-> 0, began |-> {}, blind |-> FALSE]
NoDialog == [open |-> FALSE, starting |-> FALSE, op |-> Nobody, seen |-> "none"]

Init ==
    /\ Daemon!Init
    /\ surface \in {"apps", "bootstrap", "operations"}
    /\ click = [c \in Clicks |-> NoClick]
    /\ dialog = NoDialog
    /\ closings = 0
    /\ shown = [filter |-> "all", records |-> [o \in Ops |-> "none"]]
    /\ lost = 0 /\ dialogs = 0

---------------------------------------------------------------------------
(* The buttons of the apps.  A mutation starts an operation and asks for   *)
(* it once a second; any error, the operation's or the way's, makes the    *)
(* client repeat all of it once ("blind": it no longer watches the first). *)
Go(c, next) == click' = [click EXCEPT ![c] = next]

Failed(k, outcome) ==
    IF k.tries = 0
    THEN [k EXCEPT !.stage = "posting", !.op = Nobody, !.tries = 1, !.blind = ~outcome]
    ELSE [k EXCEPT !.stage = "error"]

Press(c) ==
    /\ click[c].stage = "idle"
    /\ Go(c, [click[c] EXCEPT !.stage = "posting"])
    /\ UNCHANGED <<surface, daemon, dialog, closings, shown, lost, dialogs>>

Post(c) ==
    /\ click[c].stage = "posting"
    /\ \E o \in Ops \ Bootstraps :
         /\ Daemon!Submit(o)
         /\ Go(c, [click[c] EXCEPT !.stage = "posted", !.op = o, !.began = @ \cup {o}])
    /\ UNCHANGED <<surface, dialog, closings, shown, lost, dialogs>>

(* The daemon answers when it has written the record, if it lives to. *)
NeverWritten(o) == status[o] = "none" /\ phase[o] \in {"lost", "settled"}

Accepted(c) ==
    /\ click[c].stage = "posted"
    /\ status[click[c].op] # "none"
    /\ Go(c, [click[c] EXCEPT !.stage = "asking", !.polls = 0])
    /\ UNCHANGED <<surface, daemon, dialog, closings, shown, lost, dialogs>>

CancelledIsFailed(k, s) ==   \* mutant
    CASE s = "completed" -> [k EXCEPT !.stage = "success"]
      [] s \in {"failed", "cancelled"} -> Failed(k, TRUE)
      [] OTHER -> IF k.polls + 1 < MaxAttempts THEN [k EXCEPT !.polls = @ + 1] ELSE Failed(k, FALSE)

(* pollOperation: a cancelled operation is not an end. *)
Asked(k, s) ==
    CASE s = "completed" -> [k EXCEPT !.stage = "success"]
      [] s = "failed" -> Failed(k, TRUE)
      [] OTHER -> IF k.polls + 1 < MaxAttempts THEN [k EXCEPT !.polls = @ + 1] ELSE Failed(k, FALSE)

Ask(c) ==
    /\ click[c].stage = "asking"
    /\ Go(c, Asked(click[c], status[click[c].op]))
    /\ UNCHANGED <<surface, daemon, dialog, closings, shown, lost, dialogs>>

Errs(c) ==
    /\ click[c].stage \in {"posting", "posted", "asking"}
    /\ lost < MaxLost
    /\ lost' = lost + 1
    /\ Go(c, Failed(click[c], FALSE))
    /\ UNCHANGED <<surface, daemon, dialog, closings, shown, dialogs>>

HangsUp(c) ==
    /\ click[c].stage = "posted"
    /\ NeverWritten(click[c].op)
    /\ Go(c, Failed(click[c], FALSE))
    /\ UNCHANGED <<surface, daemon, dialog, closings, shown, lost, dialogs>>

---------------------------------------------------------------------------
(* The bootstrap dialog.  It calls the daemon without retries, keeps its   *)
(* state only while it is open, and can be closed at any time.             *)
OpenDialog ==
    /\ ~dialog.open
    /\ dialogs < MaxDialogs
    /\ dialogs' = dialogs + 1
    /\ dialog' = [NoDialog EXCEPT !.open = TRUE]
    /\ UNCHANGED <<surface, daemon, click, closings, shown, lost>>

Confirming == dialog.open /\ dialog.op = Nobody

StartBootstrap ==
    /\ Confirming /\ ~dialog.starting
    /\ \/ \E o \in Bootstraps :
            /\ Daemon!Submit(o)
            /\ dialog' = [dialog EXCEPT !.starting = TRUE, !.op = o]
       \/ UNCHANGED <<surface, dialog, daemon>>   \* refused: the error is shown, the question stays
    /\ UNCHANGED <<surface, click, closings, shown, lost, dialogs>>

Started ==
    /\ dialog.starting
    /\ status[dialog.op] # "none"
    /\ dialog' = [dialog EXCEPT !.starting = FALSE]
    /\ UNCHANGED <<surface, daemon, click, closings, shown, lost, dialogs>>

StartLost ==
    /\ dialog.starting
    /\ \/ lost < MaxLost /\ lost' = lost + 1
       \/ NeverWritten(dialog.op) /\ UNCHANGED lost
    /\ dialog' = [dialog EXCEPT !.starting = FALSE, !.op = Nobody]
    /\ UNCHANGED <<surface, daemon, click, closings, shown, dialogs>>

PollDialogOnce ==   \* mutant
    /\ dialog.open /\ dialog.op # Nobody /\ ~dialog.starting
    /\ dialog.seen = "none"
    /\ dialog' = [dialog EXCEPT !.seen = status[dialog.op]]
    /\ closings' = IF dialog'.seen = "completed" THEN closings + 1 ELSE closings
    /\ UNCHANGED <<surface, daemon, click, shown, lost, dialogs>>

(* useOperation polls until it sees a final status; the first sight of
   "completed" sets a timer that nothing clears.                            *)
PollDialog ==
    /\ dialog.open /\ dialog.op # Nobody /\ ~dialog.starting
    /\ dialog.seen \notin Final
    /\ dialog' = [dialog EXCEPT !.seen = status[dialog.op]]
    /\ closings' = IF dialog'.seen = "completed" THEN closings + 1 ELSE closings
    /\ UNCHANGED <<surface, daemon, click, shown, lost, dialogs>>

CloseTimer ==
    /\ closings > 0
    /\ closings' = closings - 1
    /\ dialog' = NoDialog
    /\ UNCHANGED <<surface, daemon, click, shown, lost, dialogs>>

CloseDialog ==
    /\ dialog.open
    /\ dialog' = NoDialog
    /\ UNCHANGED <<surface, daemon, click, closings, shown, lost, dialogs>>

---------------------------------------------------------------------------
(* The operations page.  Its Cancel sends the instance under a name that   *)
(* the daemon's records do not have, and so to no instance at all.         *)
Matches(filter, s) ==
    CASE filter = "all" -> s # "none"
      [] filter = "running" -> s \in {"running", "pending"}
      [] OTHER -> s = filter

PollList ==
    /\ shown' = [shown EXCEPT !.records =
                   [o \in Ops |-> IF Matches(shown.filter, status[o]) THEN status[o] ELSE "none"]]
    /\ UNCHANGED <<surface, daemon, click, dialog, closings, lost, dialogs>>

(* Every filter has a cache entry of its own: old data of it, or none. *)
SetFilter(f) ==
    /\ f # shown.filter
    /\ shown' = [filter |-> f, records |-> [o \in Ops |-> "none"]]
    /\ UNCHANGED <<surface, daemon, click, dialog, closings, lost, dialogs>>

CanCancel(o) == shown.records[o] \in {"pending", "running"}

CancelFromPage(o) ==
    /\ CanCancel(o)
    /\ UNCHANGED vars  \* answered with an error

---------------------------------------------------------------------------
DaemonWorks(o) == Daemon!Work(o) /\ UNCHANGED <<surface, click, dialog, closings, shown, lost, dialogs>>

(* Other clients: the command line, another tab. *)
OthersCancel ==
    /\ \E o \in Ops : Daemon!Name(o) \/ Daemon!Cancel(o)
    /\ UNCHANGED <<surface, click, dialog, closings, shown, lost, dialogs>>
OthersSubmit ==
    /\ Cardinality({o \in Ops : phase[o] # "new"}) < MaxOthers
    /\ \E o \in Ops : Daemon!Submit(o)
    /\ UNCHANGED <<surface, click, dialog, closings, shown, lost, dialogs>>
DaemonDies ==
    /\ Daemon!Crash
    /\ UNCHANGED <<surface, click, dialog, closings, shown, lost, dialogs>>

ClickNext(c) == Press(c) \/ Post(c) \/ Accepted(c) \/ Ask(c) \/ Errs(c) \/ HangsUp(c)
DialogNext == OpenDialog \/ StartBootstrap \/ Started \/ StartLost \/ PollDialog \/ CloseTimer \/ CloseDialog
PageNext == PollList \/ (\E f \in Filters : SetFilter(f)) \/ \E o \in Ops : CancelFromPage(o)

Next ==
    \/ surface = "apps" /\ \E c \in Clicks : ClickNext(c)
    \/ surface = "bootstrap" /\ DialogNext
    \/ surface = "operations" /\ (PageNext \/ OthersSubmit)
    \/ \E o \in Ops : DaemonWorks(o)
    \/ OthersCancel \/ DaemonDies

Spec == Init /\ [][Next]_vars

(* The browser's timers fire and the daemon answers; an operation at work
   comes to its end.  Nothing makes a user press or close anything.         *)
Fairness ==
    /\ \A c \in Clicks : WF_vars(Post(c)) /\ WF_vars(Accepted(c)) /\ WF_vars(Ask(c))
                         /\ WF_vars(HangsUp(c))
    /\ WF_vars(Started) /\ WF_vars(PollDialog)
    /\ \A o \in Ops : WF_vars(DaemonWorks(o))

FairSpec == Spec /\ Fairness

---------------------------------------------------------------------------
(* Two operations of one click are at work beside each other only when the
   client lost sight of the first: an answer was an error, or the minute was
   over.  A client that took a cancel request for the end of the operation
   would start the second beside a worker that goes on.                     *)
SecondNeedsBlindness ==
    \A c \in Clicks :
        Cardinality({o \in click[c].began : phase[o] = "at work"}) > 1 => click[c].blind

(* Every press of a button gets its verdict, also when the operation was
   cancelled, hangs, or died with the daemon.                               *)
EveryClickIsAnswered ==
    \A c \in Clicks : (click[c].stage = "posting") ~> (click[c].stage \in {"success", "error"})

(* A dialog that stays open shows how its bootstrap ended, unless somebody
   cancelled it or the daemon died.                                         *)
DialogHearsTheEnd ==
    \A o \in Bootstraps :
        (dialog.op = o /\ phase[o] = "settled" /\ o \notin named)
            ~> (dialog.op # o \/ dialog.seen = status[o] \/ o \in named)

(* Whoever waits for an operation hears of its end.                        *)
EndsAreHeard == EveryClickIsAnswered /\ DialogHearsTheEnd
=============================================================================
