--------------------------- MODULE OperationStream ---------------------------
(***************************************************************************)
(* The live output of one install_all_services operation: the Broadcaster  *)
(* (operations/broadcaster.go), the worker that publishes into it          *)
(* (services.InstallAll, Deploy and broadcastWriter) and the HTTP handlers *)
(* that replay the log and then follow the channel (OperationStream).      *)
(*                                                                         *)
(* Broadcaster methods hold its mutex for their whole body: each is one    *)
(* step.  A line is its number; 0 is the "Starting deployment" message,    *)
(* which is published and not logged.                                      *)
(***************************************************************************)
EXTENDS Naturals, Sequences, FiniteSets, SequencesExt

CONSTANTS
    Streams,      \* requests for the operation's stream
    NumServices,  \* length of BaseServices
    WithScript,   \* the services that have an install.sh
    MaxLines,     \* bound: lines of script output
    MaxChunk,     \* bound: lines handed to broadcastWriter.Write at once
    Capacity      \* of a client channel: 100 in the code

ASSUME StreamAssumption ==
    /\ NumServices \in Nat \ {0}
    /\ WithScript \subseteq 1..NumServices
    /\ MaxLines \in Nat /\ MaxChunk \in Nat \ {0} /\ Capacity \in Nat \ {0}

VARIABLES
    wpc,       \* the worker
    service,   \* services deployed or being deployed
    line,      \* script lines produced so far
    pending,   \* lines logged, not published yet (broadcastWriter.buffer)
    log,       \* output.log of the operation
    result,    \* how the installation ended
    status,    \* status field of the operation's record
    clients,   \* clients[opID]: the streams whose channel is subscribed
    channel,   \* channel[h]: buffered messages
    closed,    \* streams whose channel is closed
    hpc,       \* the handlers
    ended,     \* ended[h]: the handler's isCompleted
    replayed,  \* history: replayed[h], the lines of the log sent first
    got,       \* history: got[h], messages received live
    missed,    \* history: missed[h], published between replay and Subscribe
    dropped    \* history: streams a full channel lost a message for

worker == <<wpc, service, line, pending, log, result, status>>
broadcaster == <<clients, channel, closed>>
handlers == <<hpc, ended, replayed, got>>
losses == <<missed, dropped>>
vars == <<worker, broadcaster, handlers, losses>>

-----------------------------------------------------------------------------
(* Publish: one message to every subscribed channel that has room.         *)
HasRoom(h) == Len(channel[h]) < Capacity

Publish(m) ==
    /\ channel' = [h \in Streams |->
         IF h \in clients /\ HasRoom(h) THEN Append(channel[h], m)
                                        ELSE channel[h]]
    /\ dropped' = dropped \cup {h \in clients : ~HasRoom(h)}
    /\ missed' = [h \in Streams |->
         IF hpc[h] = "subscribe" THEN missed[h] \cup {m} ELSE missed[h]]
    /\ UNCHANGED <<clients, closed>>

(* Close: close every subscribed channel, forget the operation.            *)
(* Mutant: the channels are closed and stay subscribed.                    *)
CloseAndKeepClients ==
    /\ closed' = closed \cup clients
    /\ clients' = clients
    /\ UNCHANGED channel

CloseClients ==
    /\ closed' = closed \cup clients
    /\ clients' = {}
    /\ UNCHANGED channel

-----------------------------------------------------------------------------
(* The worker: Install of one service after the other.                     *)

(* Fetch, validation or compilation fails, or kubeconfig is missing: the   *)
(* installation ends, and no channel is closed.                            *)
InstallFails ==
    /\ wpc = "next"
    /\ service < NumServices
    /\ wpc' = "end"
    /\ result' = "failed"
    /\ UNCHANGED <<service, line, pending, log, status, broadcaster, handlers, losses>>

(* Deploy of a service without install.sh: a message, and that is all.     *)
DeployNothing ==
    /\ wpc = "next"
    /\ service < NumServices
    /\ service + 1 \notin WithScript
    /\ service' = service + 1
    /\ Publish(0)
    /\ UNCHANGED <<wpc, line, pending, log, result, status, handlers>>

(* Deploy of a service with install.sh starts a fresh log (os.Create).     *)
OpenLog ==
    /\ wpc = "next"
    /\ service < NumServices
    /\ service + 1 \in WithScript
    /\ service' = service + 1
    /\ log' = <<>>
    /\ wpc' = "announce"
    /\ UNCHANGED <<line, pending, result, status, broadcaster, handlers, losses>>

Announce ==
    /\ wpc = "announce"
    /\ wpc' = "script"
    /\ Publish(0)
    /\ UNCHANGED <<service, line, pending, log, result, status, handlers>>

(* broadcastWriter.Write: the whole chunk to the log first ...             *)
WriteChunk ==
    /\ wpc = "script"
    /\ pending = <<>>
    /\ \E n \in 1..MaxChunk :
         /\ line + n <= MaxLines
         /\ pending' = [i \in 1..n |-> line + i]
         /\ line' = line + n
    /\ log' = log \o pending'
    /\ UNCHANGED <<wpc, service, result, status, broadcaster, handlers, losses>>

(* ... then line by line to the subscribers.  Flush publishes the last     *)
(* line the same way when the script did not end it.                       *)
(* Mutant: the newest line of the buffer first.                            *)
PublishLastLine ==
    /\ wpc = "script"
    /\ pending # <<>>
    /\ Publish(Last(pending))
    /\ pending' = Front(pending)
    /\ UNCHANGED <<wpc, service, line, log, result, status, handlers>>

PublishLine ==
    /\ wpc = "script"
    /\ pending # <<>>
    /\ Publish(Head(pending))
    /\ pending' = Tail(pending)
    /\ UNCHANGED <<wpc, service, line, log, result, status, handlers>>

(* The script exited and the output is flushed: every stream is closed,    *)
(* whatever services are still to come and before the record is updated.   *)
ScriptExits ==
    /\ wpc = "script"
    /\ pending = <<>>
    /\ CloseClients
    /\ \/ wpc' = "next" /\ result' = result
       \/ wpc' = "end" /\ result' = "failed"
    /\ UNCHANGED <<service, line, pending, log, status, handlers, losses>>

AllInstalled ==
    /\ wpc = "next"
    /\ service = NumServices
    /\ wpc' = "end"
    /\ result' = "completed"
    /\ UNCHANGED <<service, line, pending, log, status, broadcaster, handlers, losses>>

(* The last Update of StartAsyncOperationWithBroadcaster.                  *)
SetStatus ==
    /\ wpc = "end"
    /\ wpc' = "done"
    /\ status' = result
    /\ UNCHANGED <<service, line, pending, log, result, broadcaster, handlers, losses>>

Worker ==
    \/ InstallFails \/ DeployNothing \/ OpenLog \/ Announce \/ WriteChunk
    \/ PublishLine \/ ScriptExits \/ AllInstalled \/ SetStatus

-----------------------------------------------------------------------------
(* A stream request.                                                       *)

CheckStatus(h) ==
    /\ hpc[h] = "new"
    /\ hpc' = [hpc EXCEPT ![h] = "replay"]
    /\ ended' = [ended EXCEPT ![h] = status \in {"completed", "failed"}]
    /\ UNCHANGED <<worker, broadcaster, replayed, got, losses>>

(* The log as it is now goes to the client, then the completion event if   *)
(* the status read before was terminal.                                    *)
Replay(h) ==
    /\ hpc[h] = "replay"
    /\ hpc' = [hpc EXCEPT ![h] = IF ended[h] THEN "done" ELSE "subscribe"]
    /\ replayed' = [replayed EXCEPT ![h] = ToSet(log)]
    /\ UNCHANGED <<worker, broadcaster, ended, got, losses>>

Subscribe(h) ==
    /\ hpc[h] = "subscribe"
    /\ hpc' = [hpc EXCEPT ![h] = "follow"]
    /\ clients' = clients \cup {h}
    /\ UNCHANGED <<worker, channel, closed, ended, replayed, got, losses>>

(* for data := range ch: a closed channel is drained before the loop ends; *)
(* a client that went away does not end it.                                *)
Receive(h) ==
    /\ hpc[h] = "follow"
    /\ channel[h] # <<>>
    /\ channel' = [channel EXCEPT ![h] = Tail(@)]
    /\ got' = [got EXCEPT ![h] = Append(@, Head(channel[h]))]
    /\ UNCHANGED <<worker, clients, closed, hpc, ended, replayed, losses>>

(* The deferred Unsubscribe: if anyone is subscribed to the operation, it  *)
(* closes the channel, closed or not; closing twice panics.                *)
(* Mutant: the loop receives for ever from the closed channel.             *)
ReceiveNothing(h) ==
    /\ hpc[h] = "follow"
    /\ channel[h] = <<>>
    /\ h \in closed
    /\ UNCHANGED vars

Unsubscribe(h) ==
    /\ hpc[h] = "follow"
    /\ channel[h] = <<>>
    /\ h \in closed
    /\ clients' = clients \ {h}
    /\ hpc' = [hpc EXCEPT ![h] = IF clients # {} THEN "panicked" ELSE "done"]
    /\ UNCHANGED <<worker, channel, closed, ended, replayed, got, losses>>

Handler(h) ==
    \/ CheckStatus(h) \/ Replay(h) \/ Subscribe(h) \/ Receive(h)
    \/ Unsubscribe(h)

-----------------------------------------------------------------------------
Init ==
    /\ wpc = "next" /\ service = 0 /\ line = 0 /\ pending = <<>> /\ log = <<>>
    /\ result = "none" /\ status = "running"
    /\ clients = {} /\ closed = {}
    /\ channel = [h \in Streams |-> <<>>]
    /\ hpc = [h \in Streams |-> "new"]
    /\ ended = [h \in Streams |-> FALSE]
    /\ replayed = [h \in Streams |-> {}]
    /\ got = [h \in Streams |-> <<>>]
    /\ missed = [h \in Streams |-> {}]
    /\ dropped = {}

Next == Worker \/ \E h \in Streams : Handler(h)

Spec == Init /\ [][Next]_vars

(* Goroutines that can run do run; the scripts are assumed to exit.        *)
FairSpec ==
    /\ Spec
    /\ WF_vars(Worker)
    /\ \A h \in Streams : WF_vars(Handler(h))

-----------------------------------------------------------------------------
Lines == 0..MaxLines

TypeOK ==
    /\ wpc \in {"next", "announce", "script", "end", "done"}
    /\ service \in 0..NumServices
    /\ line \in Lines
    /\ pending \in Seq(Lines) /\ log \in Seq(Lines)
    /\ result \in {"none", "completed", "failed"}
    /\ status \in {"running", "completed", "failed"}
    /\ clients \subseteq Streams /\ closed \subseteq Streams
    /\ channel \in [Streams -> Seq(Lines)]
    /\ hpc \in [Streams ->
                  {"new", "replay", "subscribe", "follow", "done", "panicked"}]
    /\ ended \in [Streams -> BOOLEAN]
    /\ replayed \in [Streams -> SUBSET Lines]
    /\ got \in [Streams -> Seq(Lines)]
    /\ missed \in [Streams -> SUBSET Lines]
    /\ dropped \subseteq Streams

(* Publish never sends on a closed channel: that would panic the worker    *)
(* and fail the installation.  A channel that Close or Unsubscribe closed  *)
(* is in no client set, and every subscribed stream is still following.    *)
NoSendOnClosed ==
    /\ clients \cap closed = {}
    /\ \A h \in clients : hpc[h] = "follow"

(* What a stream receives live, and what still waits in its channel, is a  *)
(* contiguous run of the script's lines: in order, none twice, none        *)
(* skipped, unless its channel was full when a line came.                  *)
LiveIsContiguous ==
    \A h \in Streams \ dropped :
        LET seen == got[h] \o channel[h]
        IN \A i, j \in 1..Len(seen) :
             (/\ i < j /\ seen[i] > 0 /\ seen[j] > 0
              /\ \A k \in i + 1..j - 1 : seen[k] = 0)
                => seen[j] = seen[i] + 1

(* Of the lines in the log that are published, a stream that follows lacks *)
(* only those published between the end of its replay and its Subscribe:   *)
(* logging a chunk before publishing it closes every other gap.            *)
OnlyWindowIsLost ==
    \A h \in Streams \ dropped :
        (hpc[h] = "follow" /\ h \notin closed) =>
            ToSet(log) \ ToSet(pending)
                \subseteq replayed[h] \cup missed[h] \cup ToSet(got[h] \o channel[h])

(* What a client of a running installation has seen is the output, in its  *)
(* order, but for the window between replay and subscription.              *)
OutputIsHonest == TypeOK /\ LiveIsContiguous /\ OnlyWindowIsLost

(* A stream whose channel is closed ends, having delivered everything that *)
(* was buffered for it.                                                    *)
CloseEndsStream ==
    \A h \in Streams :
        (h \in closed) ~> (hpc[h] \in {"done", "panicked"} /\ channel[h] = <<>>)
=============================================================================
