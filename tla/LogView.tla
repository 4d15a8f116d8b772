------------------------------ MODULE LogView ------------------------------
(***************************************************************************)
(* The log tab of a service's dialog (services/ServiceDetailDialog.tsx):   *)
(* the last lines of a container are fetched, or followed through an event *)
(* source that appends to what is there.  A fetch is never aborted, and    *)
(* whichever answers last is shown.  A line is the choice it was asked     *)
(* with; an answer without lines, Clear and a failure leave none.          *)
(***************************************************************************)
EXTENDS Naturals, FiniteSets

CONSTANTS
    Containers,  \* of the service's pods
    Tails,       \* how many lines to ask for
    MaxFetches   \* bound: fetches on their way

ASSUME LogsAssumption == MaxFetches \in Nat

Unchosen == "default"   \* the daemon takes a container

VARIABLES
    dialogOpen,  \* the dialog is mounted
    chosen,      \* container and number of lines
    follow,
    fetches,     \* requests for lines
    sources,     \* event sources the browser holds
    lines,       \* what the tab shows
    logsLoading, \* ... unless it shows a spinner
    crossed      \* auxiliary: fetches overlapped, or the choice changed while following

logVars == <<dialogOpen, chosen, follow, fetches, sources, lines, logsLoading, crossed>>

LogChoices == [container : Containers \cup {Unchosen}, tail : Tails]

LogInit ==
    /\ dialogOpen = FALSE /\ chosen = [container |-> Unchosen, tail |-> CHOOSE t \in Tails : TRUE]
    /\ follow = FALSE /\ fetches = {} /\ sources = {} /\ lines = {} /\ logsLoading = FALSE /\ crossed = FALSE

FetchLogs(choice) ==
    /\ Cardinality(fetches) < MaxFetches
    /\ \E id \in (1..MaxFetches) \ {f.id : f \in fetches} : fetches' = fetches \cup {[id |-> id, of |-> choice]}
    /\ logsLoading' = TRUE
    /\ crossed' = (crossed \/ fetches # {})

OpenDialog2 ==
    /\ ~dialogOpen
    /\ dialogOpen' = TRUE
    /\ FetchLogs(chosen)
    /\ UNCHANGED <<chosen, follow, sources, lines>>

(* What the component leaves running has nowhere to go.                    *)
CloseDialog2 ==
    /\ dialogOpen
    /\ dialogOpen' = FALSE /\ chosen' = [container |-> Unchosen, tail |-> CHOOSE t \in Tails : TRUE]
    /\ follow' = FALSE /\ fetches' = {} /\ sources' = {} /\ lines' = {} /\ logsLoading' = FALSE /\ crossed' = FALSE

Following(choice) == [of |-> choice]

(* The effects that watch the choice and Follow.                           *)
ChooseKeepsSource(choice) ==   \* mutant
    /\ dialogOpen /\ choice # chosen
    /\ chosen' = choice
    /\ IF follow
       THEN /\ sources' = sources \cup {Following(choice)} /\ crossed' = TRUE
            /\ UNCHANGED <<fetches, logsLoading>>
       ELSE FetchLogs(choice) /\ UNCHANGED sources
    /\ UNCHANGED <<dialogOpen, follow, lines>>
Choose(choice) ==
    /\ dialogOpen /\ choice # chosen
    /\ chosen' = choice
    /\ IF follow
       THEN /\ sources' = {Following(choice)} /\ crossed' = TRUE
            /\ UNCHANGED <<fetches, logsLoading>>
       ELSE FetchLogs(choice) /\ UNCHANGED sources
    /\ UNCHANGED <<dialogOpen, follow, lines>>

(* The first container of the pods, once they are known.                   *)
PodsArrive == chosen.container = Unchosen /\ \E c \in Containers : Choose([chosen EXCEPT !.container = c])
ChooseContainer(c) == chosen.container # Unchosen /\ Choose([chosen EXCEPT !.container = c])
ChooseTail(t) == Choose([chosen EXCEPT !.tail = t])

Follow ==
    /\ dialogOpen /\ ~follow
    /\ follow' = TRUE /\ sources' = {Following(chosen)}
    /\ crossed' = (crossed \/ fetches # {})
    /\ UNCHANGED <<dialogOpen, chosen, fetches, lines, logsLoading>>

(* The checkbox is cleared, or the source fails.                           *)
Unfollow ==
    /\ follow
    /\ follow' = FALSE /\ sources' = {}
    /\ FetchLogs(chosen)
    /\ UNCHANGED <<dialogOpen, chosen, lines>>

Line(source) ==
    /\ lines' = lines \cup {source.of}
    /\ UNCHANGED <<dialogOpen, chosen, follow, fetches, sources, logsLoading, crossed>>

Answered(fetch) ==
    /\ fetches' = fetches \ {fetch} /\ logsLoading' = FALSE
    /\ lines' \in {{fetch.of}, {}}
    /\ crossed' = (crossed /\ (fetches' # {} \/ follow \/ ~lines' \subseteq {chosen}))
    /\ UNCHANGED <<dialogOpen, chosen, follow, sources>>

Refresh ==
    /\ dialogOpen /\ ~follow
    /\ lines' = {}
    /\ FetchLogs(chosen)
    /\ UNCHANGED <<dialogOpen, chosen, follow, sources>>

Clear ==
    /\ dialogOpen
    /\ lines' = {}
    /\ UNCHANGED <<dialogOpen, chosen, follow, fetches, sources, logsLoading, crossed>>

LogNext ==
    \/ OpenDialog2 \/ CloseDialog2 \/ PodsArrive \/ Follow \/ Unfollow \/ Refresh \/ Clear
    \/ \E c \in Containers : ChooseContainer(c)
    \/ \E t \in Tails : ChooseTail(t)
    \/ \E source \in sources : Line(source)
    \/ \E fetch \in fetches : Answered(fetch)

LogSpec == LogInit /\ [][LogNext]_logVars

---------------------------------------------------------------------------
(* One stream of the daemon follows the log while the tab does, the one    *)
(* that was chosen, and none is left when it stops or closes.              *)
OneFollower == sources = IF follow THEN {Following(chosen)} ELSE {}

(* The lines on screen are what was asked for, but for an answer that was  *)
(* overtaken and for what was followed before the choice changed.          *)
LinesAreChosen == ~crossed /\ ~logsLoading => lines \subseteq {chosen}

(* The tab shows, and follows, the log that is chosen. *)
LogIsTheChosen == OneFollower /\ LinesAreChosen
=============================================================================
