------------------------------ MODULE WebCache ------------------------------
(***************************************************************************)
(* One entry of the client's query cache, against the daemon's state, the  *)
(* mutations of every screen, other clients and the connection that brings *)
(* events.  Entries share nothing but the writes and events that mark      *)
(* them, so one is followed at a time: "watched", some query of some       *)
(* screen.  What the cache does is @tanstack/react-query's, as the hooks   *)
(* and queryClient.ts use it; what marks the entry is the hooks' own.      *)
(*                                                                         *)
(* The part of the daemon's state that the query shows is a version        *)
(* number; staleness by age is a free choice when a screen is opened again.*)
(***************************************************************************)
EXTENDS Integers, WebHooks, EventClient, SequencesExt

CONSTANTS
    MaxVersion,  \* bound: how often what is shown changes
    MaxClicks,   \* bound: mutations the user starts
    MaxLost      \* bound: answers that are lost or are errors

ASSUME CacheBounds == {MaxVersion, MaxClicks, MaxLost} \subseteq Nat

(* The hooks that each route's components call; "shell" is around them all. *)
Screens == [
    nodes |-> {UseNodes, UseDiscoveryStatus, UseCluster, UseClusterStatus, UseInstanceConfig},
    apps |-> {UseAvailableApps, UseDeployedApps, UseAppStatuses, UseAppBackupsOfApps, UseAppEnhanced,
              UseAppReadme, UseAppEvents, UseAppLogs},
    services |-> {UseServices, UseService, UseServiceStatus, UseServiceConfig},
    cloud |-> {UseInstanceConfig, UseConfig},
    central |-> {UseCentralStatus, UseInstanceConfig, UseConfig, UseDnsmasq},
    advanced |-> {UseConfigYaml, UseCentralStatus},
    dashboard |-> {UseInstanceCard, UseInstanceOperations, UseInstanceClusterHealth, UseClusterStatus},
    operations |-> {UseOperationList, UseCancelOperation},
    health |-> {UseClusterHealth, UseClusterStatus, UseClusterNodes},
    access |-> {UseKubeconfig, UseTalosconfig, UseRegenerateKubeconfig},
    secrets |-> {UseSecrets, UseUpdateSecrets},
    utilities |-> {UseDashboardToken, UseClusterVersions, UseNodeIPs, UseControlPlaneIP, UseCopySecret},
    backups |-> {UseDeployedApps, UseAllBackups, UseAppBackups, UseCreateSchedule, UseUpdateSchedule},
    assets |-> {UseAssetList, UseAssetStatus, UseDownloadAsset, UseDeleteAsset},
    pxe |-> {UsePxeAssets, UseDownloadPxeAsset, UseDeletePxeAsset, UseAssets, UseStatus, UseHealth},
    kubernetes |-> {UseInstanceCard, UseDashboardToken},
    landing |-> {UseInstances},
    shell |-> {UseSetupStatus, UseInstances}]

(* Hooks that are exported and that no component calls. *)
Unused == {UseNodeHardware, UseInstance, UseAvailableApp, UseAppRuntime, UseServiceManifest, UseBaseServices,
    UseBaseServiceStatus, UseInstallService, UseOperations, UseBackupVerification, UseBackupDiscovery,
    UseDeleteAppBackup, UseDeleteSchedule, UseRunSchedule, UseToggleSchedule, UseScheduleHistory, UseAsset, UsePxeAsset}

HooksOf(s) == IF s = "unused" THEN Unused ELSE Screens[s]
QueriesOf(s) == UNION {h.queries : h \in HooksOf(s)}
MutationsOf(s) == UNION {h.mutations : h \in HooksOf(s)}
ListensOf(s) == UNION {h.listens : h \in HooksOf(s)}
AllMutations == UNION {MutationsOf(s) : s \in DOMAIN Screens \cup {"unused"}}

(***************************************************************************)
(* Which mutations leave which queries as they are though they change what *)
(* the queries show: the keys the hooks do not name.  This is read off the *)
(* hooks, pair by pair, and not worked out from what a mutation marks:     *)
(* a pair that is not here has to be marked.                               *)
(***************************************************************************)
By(hooks) == UNION {h.mutations : h \in hooks}

ConfigKey == Here(<<"config">>)
YamlKey == <<"instance", "i", "config", "yaml">>
Instance == {<<"instance", "i">>, Here(<<>>)}   \* its card and the unused query
ConfigUsers == {
    Here(<<"nodes">>), <<"cluster-nodes", "i">>, Here(<<"apps", "app", "enhanced">>),
    Here(<<"services", "svc", "status">>), Here(<<"services", "svc", "config">>)}

DashboardKey == <<"instance-operations", "i">>
ListKey == <<"operations", "i", "filter">>
OperationsKey == Here(<<"operations">>)

PassedBy ==
    (AllMutations \X {SetupKey})
    \cup (By({UseNodes, UseDeployedApps, UseServiceConfig}) \X ({ConfigKey, YamlKey} \cup Instance))
    \cup (By({UseInstanceConfig}) \X ({YamlKey} \cup Instance \cup ConfigUsers))
    \cup (By({UseConfigYaml}) \X ({ConfigKey} \cup Instance \cup ConfigUsers))
    \cup (By({UseNodes}) \X {<<"cluster-nodes", "i">>})
    \cup (By({UseDeployedApps}) \X {Here(<<"secrets", "raw">>), Here(<<"secrets", "masked">>)})
    \cup (By({UseCluster}) \X {Here(<<"kubeconfig">>), Here(<<"talosconfig">>), Here(<<"cluster", "talosconfig">>)})
    \cup ({m \in By({UseCluster}) : m.call = ClusterApi.configureEndpoints} \X {Here(<<"cluster", "kubeconfig">>)})
    \cup (By({UseRegenerateKubeconfig}) \X {Here(<<"cluster", "kubeconfig">>)})
    \cup (By({UseDeployedApps, UseAppBackupsOfApps, UseAppBackups, UseServices, UseCluster})
            \X {DashboardKey, ListKey, OperationsKey})
    \cup (By({UseInstallService}) \X {DashboardKey, ListKey})
    \cup (By({UseCancelOperation}) \X {DashboardKey, OperationsKey})
    \cup (By({UseInstances}) \X {<<"central", "status">>})
    \cup (By({UseDownloadAsset, UseDeleteAsset}) \X {PxeKey, PxeKey \o <<"kernel">>})

VARIABLES
    screen, watched,  \* what the user looks at: the route, one of its queries
    mounted,          \* is it open
    server,           \* version of the daemon's state that the watched query shows
    entry,            \* its entry: data, marked, fetch, answer, tries
    mutation,         \* the mutation on its way: what it is to this query, stage, tries
    jobs,             \* accepted operations that have still to change it
    wire,             \* types of events on their way to the client
    owed,             \* auxiliary: the version the client has been told of
    overtaken,        \* auxiliary: did a mark come while the fetch of the data, or the
                      \* one that is running, ran and could not be restarted
    clicks, lost

page == <<screen, watched>>
daemon == <<server, jobs>>
cache == <<entry, overtaken>>
counters == <<clicks, lost>>
vars == <<page, mounted, daemon, cache, mutation, wire, owed, counters, eventVars>>

NoData == -1
NoWrite == [now |-> FALSE, later |-> FALSE, told |-> FALSE, marks |-> FALSE, always |-> FALSE, routed |-> FALSE,
            events |-> {}, last |-> FALSE]
Resting == [write |-> NoWrite, stage |-> "idle", tries |-> 0]

IsMarkedBy(key, prefixes) == \E p \in prefixes : IsPrefix(p, key)

Published == {"operation:completed", "dnsmasq:restart", "dnsmasq:config", "central:status"}

InvalidatesWithoutCentral(type) ==   \* mutant
    IF type \in {"dnsmasq:restart", "dnsmasq:config"} THEN {<<"dnsmasq">>} ELSE {SetupKey}
EventInvalidates(type) ==
    CASE type = "central:status" -> {<<"central", "status">>}
      [] type \in {"dnsmasq:restart", "dnsmasq:config"} -> {<<"dnsmasq">>}
      [] type \in OperationEvents -> {Here(<<"operations">>), SetupKey}
      [] type \in PodEvents -> {Here(<<"apps", "app">>)}
      [] type \in DeploymentEvents \cup ServiceEvents -> {Here(<<"apps">>), Here(<<"services">>), SetupKey}
      [] type = "talos:event" -> {Here(<<"nodes">>)}
      [] OTHER -> {SetupKey, Here(<<"nodes">>)}

(* What the daemon publishes of the types the client asks its source for.  *)
EventsOf(call) ==
    CASE call = ClusterApi.bootstrap -> {"operation:completed"}
      [] call = ApiService.restartDnsmasq -> {"dnsmasq:restart"}
      [] call = ApiService.generateDnsmasqConfig -> {"dnsmasq:config"}
      [] OTHER -> {}

(* Which queries the hooks leave to which events to keep fresh. *)
EventPromises ==
    {"dnsmasq:restart", "dnsmasq:config"} \X {<<"dnsmasq", "status">>, <<"dnsmasq", "config">>}
    \cup {<<"central:status", <<"central", "status">>>>, <<"operation:completed", SetupKey>>}

(* The published events that concern a query of an open screen, what a
   mutation is to the query, and all that matters of it.  The cache is one
   for all screens: a mutation of any of them may change what is watched.   *)
HeardBy(s, q) == {type \in Published \cap ListensOf(s) :
    <<type, q.key>> \in EventPromises \/ IsMarkedBy(q.key, EventInvalidates(type))}

WriteTo(q, m) == [
    now |-> m.now \cap q.shows # {}, later |-> m.later \cap q.shows # {}, told |-> <<m, q.key>> \notin PassedBy,
    marks |-> IsMarkedBy(q.key, m.inv \cup m.always), always |-> IsMarkedBy(q.key, m.always),
    routed |-> Routed(m.call), events |-> EventsOf(m.call), last |-> m.later = {}]

Watching(s, q) == [
    key |-> q.key, shows |-> q.shows, auto |-> q.auto, polls |-> q.polls, retries |-> q.retries,
    routed |-> Routed(q.call), hears |-> HeardBy(s, q),
    writes |-> {w \in {WriteTo(q, m) : m \in AllMutations} : w.now \/ w.later \/ w.marks}]

Start ==
    /\ mounted = FALSE
    /\ server = 0
    /\ entry = [data |-> NoData, marked |-> FALSE, fetch |-> "idle", answer |-> NoData, tries |-> 0]
    /\ mutation = Resting
    /\ jobs = {} /\ wire = {}
    /\ owed = 0
    /\ overtaken = [data |-> FALSE, fetch |-> FALSE]
    /\ clicks = 0 /\ lost = 0
    /\ EventInit /\ (watched.hears = {} => up)

Init ==
    /\ screen \in DOMAIN Screens \cup {"unused"}
    /\ watched \in {Watching(screen, q) : q \in QueriesOf(screen)}
    /\ Start

---------------------------------------------------------------------------
(* The cache.                                                              *)
Sent(e) == [e EXCEPT !.fetch = "sent", !.answer = NoData, !.tries = 0]
Fetch(e) == entry' = Sent(e) /\ overtaken' = [overtaken EXCEPT !.fetch = FALSE]

(* An entry that is marked and on screen is fetched, again if a fetch is
   running, unless that is its first: the new fetch joins that one.  Marks
   leave a query alone that only its hook's own refetch fetches.            *)
Mark(fetching) ==
    IF fetching /\ mounted /\ (entry.fetch = "idle" \/ entry.data # NoData)
    THEN Fetch([entry EXCEPT !.marked = TRUE])
    ELSE /\ entry' = [entry EXCEPT !.marked = TRUE]
         /\ overtaken' = [overtaken EXCEPT !.fetch = entry.fetch # "idle"]

Serve ==
    /\ entry.fetch = "sent"
    /\ watched.routed
    /\ entry' = [entry EXCEPT !.fetch = "answered", !.answer = server]
    /\ UNCHANGED <<page, mounted, daemon, mutation, wire, owed, overtaken, counters, eventVars>>

(* An answer replaces the data and takes the mark away, whenever it came.  *)
Receive ==
    /\ entry.fetch = "answered"
    /\ entry' = [data |-> entry.answer, marked |-> FALSE, fetch |-> "idle", answer |-> NoData, tries |-> 0]
    /\ overtaken' = [data |-> overtaken.fetch, fetch |-> FALSE]
    /\ UNCHANGED <<page, mounted, daemon, mutation, wire, owed, counters, eventVars>>

Fails ==
    entry' = IF mounted /\ entry.tries < watched.retries
             THEN [Sent(entry) EXCEPT !.tries = entry.tries + 1]
             ELSE [entry EXCEPT !.fetch = "idle", !.answer = NoData, !.tries = 0]

FetchFails ==
    /\ entry.fetch # "idle"
    /\ Fails
    /\ \/ watched.routed /\ lost < MaxLost /\ lost' = lost + 1
       \/ ~watched.routed /\ UNCHANGED lost
    /\ UNCHANGED <<page, mounted, daemon, mutation, wire, owed, overtaken, clicks, eventVars>>

Refetch ==
    /\ mounted
    /\ entry.fetch = "idle"
    /\ Fetch(entry)
    /\ UNCHANGED <<page, mounted, daemon, mutation, wire, owed, counters, eventVars>>

Poll == watched.polls /\ Refetch

---------------------------------------------------------------------------
(* The screen.  Its hooks listen while it is open; the rest of the page    *)
(* comes and goes by itself.                                               *)
(* Fresh data is shown as it is; what is missing, marked or old is fetched. *)
Open ==
    /\ ~mounted
    /\ mounted' = TRUE
    /\ IF watched.hears = {} THEN UNCHANGED eventVars ELSE Listen("screen")
    /\ \/ watched.auto /\ entry.fetch = "idle" /\ Fetch(entry)
       \/ /\ watched.auto => entry.fetch # "idle" \/ (entry.data # NoData /\ ~entry.marked)
          /\ UNCHANGED cache
    /\ UNCHANGED <<page, daemon, mutation, wire, owed, counters>>

Leave ==
    /\ mounted
    /\ mounted' = FALSE
    /\ IF watched.hears = {} THEN UNCHANGED <<eventVars, wire>> ELSE Hush("screen") /\ wire' = IF source' = "none" THEN {} ELSE wire
    /\ UNCHANGED <<page, daemon, cache, mutation, owed, counters>>

(* What was on its way when the connection closes is gone, and nothing is
   invalidated when it is back.                                             *)
Connection ==
    /\ watched.hears # {}
    /\ \/ \E l \in Listeners \ {"screen"} : Listen(l) \/ Hush(l)
       \/ OnOpen \/ OnError \/ Reconnect \/ Down \/ Up
    /\ wire' = IF source' = "open" THEN wire ELSE {}
    /\ UNCHANGED <<page, mounted, daemon, cache, mutation, owed, counters>>

---------------------------------------------------------------------------
(* The daemon.                                                             *)
MayChange(times) == server + Cardinality(jobs) + times <= MaxVersion

Publish(types) == wire' = IF source = "open" THEN wire \cup (types \cap watched.hears) ELSE wire

(* Another tab, the command line, the cluster itself. *)
OthersChange(r) ==
    /\ MayChange(1)
    /\ server' = server + 1
    /\ CASE r = "kubeconfig" -> Publish(EventsOf(ClusterApi.bootstrap))
         [] r = "dnsmasq" -> Publish(EventsOf(ApiService.restartDnsmasq))
         [] r = "dnsmasqConfig" -> Publish(EventsOf(ApiService.generateDnsmasqConfig))
         [] OTHER -> UNCHANGED wire
    /\ UNCHANGED <<page, mounted, jobs, cache, mutation, owed, counters, eventVars>>

Tick ==
    /\ "central:status" \in watched.hears
    /\ Publish({"central:status"})
    /\ UNCHANGED <<page, mounted, daemon, cache, mutation, owed, counters, eventVars>>

JobEnds(job) ==
    /\ job \in jobs
    /\ jobs' = jobs \ {job}
    /\ server' = server + 1
    /\ Publish(job.events)
    /\ UNCHANGED <<page, mounted, cache, mutation, owed, counters, eventVars>>

---------------------------------------------------------------------------
(* Mutations.  Any error, a refusal too, sends the whole request again,    *)
(* once.  A mutation is started on any of the screens that have it, this   *)
(* one or another, and lives on when its screen is left.                   *)
Mutate(w) ==
    /\ mutation.stage = "idle"
    /\ clicks < MaxClicks
    /\ clicks' = clicks + 1
    /\ mutation' = [write |-> w, stage |-> "sent", tries |-> 0]
    /\ UNCHANGED <<page, mounted, daemon, cache, wire, owed, lost, eventVars>>

Apply ==
    /\ mutation.stage = "sent"
    /\ LET write == mutation.write IN
         /\ write.routed
         /\ MayChange((IF write.now THEN 1 ELSE 0) + (IF write.later THEN 1 ELSE 0))
         /\ server' = IF write.now THEN server + 1 ELSE server
         /\ jobs' = IF write.later
                    THEN jobs \cup {[events |-> write.events, click |-> clicks, try |-> mutation.tries]}
                    ELSE jobs
         /\ IF write.last THEN Publish(write.events) ELSE UNCHANGED wire
    /\ mutation' = [mutation EXCEPT !.stage = "applied"]
    /\ UNCHANGED <<page, mounted, cache, owed, counters, eventVars>>

Succeed ==
    /\ mutation.stage = "applied"
    /\ IF mutation.write.marks THEN Mark(watched.auto \/ watched.key[1] = "dnsmasq") ELSE UNCHANGED cache
    /\ owed' = IF mutation.write.now /\ mutation.write.told THEN server ELSE owed
    /\ mutation' = Resting
    /\ UNCHANGED <<page, mounted, daemon, wire, counters, eventVars>>

Err ==
    /\ mutation.stage # "idle"
    /\ \/ mutation.write.routed /\ lost < MaxLost /\ lost' = lost + 1
       \/ ~mutation.write.routed /\ UNCHANGED lost
    /\ IF mutation.tries < 1
       THEN /\ mutation' = [mutation EXCEPT !.stage = "sent", !.tries = @ + 1]
            /\ UNCHANGED cache
       ELSE /\ mutation' = Resting
            /\ IF mutation.write.always THEN Mark(watched.auto) ELSE UNCHANGED cache
    /\ UNCHANGED <<page, mounted, daemon, wire, owed, clicks, eventVars>>

---------------------------------------------------------------------------
(* Events.  A listener lives as long as the hook it belongs to.            *)
Deliver(type) ==
    /\ type \in wire
    /\ wire' = wire \ {type}
    /\ IF mounted
       THEN /\ IF IsMarkedBy(watched.key, EventInvalidates(type)) THEN Mark(watched.auto) ELSE UNCHANGED cache
            /\ owed' = IF <<type, watched.key>> \in EventPromises THEN server ELSE owed
       ELSE UNCHANGED <<cache, owed>>
    /\ UNCHANGED <<page, mounted, daemon, mutation, counters, eventVars>>

---------------------------------------------------------------------------
Next ==
    \/ Serve \/ Receive \/ FetchFails \/ Refetch
    \/ Open \/ Leave \/ Connection
    \/ \E r \in watched.shows : OthersChange(r)
    \/ Tick
    \/ \E job \in jobs : JobEnds(job)
    \/ \E w \in watched.writes : Mutate(w)
    \/ Apply \/ Succeed \/ Err
    \/ \E type \in wire : Deliver(type)

Spec == Init /\ [][Next]_vars

(* The browser answers promises and fires timers; the daemon answers what
   it is asked and its ticker goes on.  An answer of the daemon arrives
   between two ticks, which are half a minute apart.                        *)
FairSpec ==
    /\ Spec
    /\ WF_vars(Serve) /\ SF_vars(Receive) /\ WF_vars(Poll)
    /\ WF_vars(FetchFails /\ ~watched.routed)
    /\ WF_vars(Tick) /\ WF_vars(\E type \in wire : Deliver(type))
    /\ WF_vars(Connection /\ (OnOpen \/ OnError \/ Reconnect))

---------------------------------------------------------------------------
(* When the client has been told of a change, by the success of a mutation
   of any screen or by an event, and nothing is on its way any more, the
   data in the cache shows that change, or is marked and will be fetched.
   There are two exceptions (see the README).  A fetch that was running
   when the change was made, and that could not be restarted: its answer
   takes the mark away.  And the mutations that pass a query by, PassedBy:
   every one for the phases of the setup; for the configuration as a
   whole, those that write parts of it or save it under another key; for
   what is shown of it elsewhere, the saves of the whole; the operation
   lists, which are polled, and some files of the cluster.                  *)
AcknowledgedIsSeen ==
    entry.fetch = "idle" /\ ~entry.marked /\ ~overtaken.data /\ entry.data # NoData
        => entry.data >= owed

UpToDate == entry.data = server

(* The pages that watch the cluster and the operations show in the end what
   the daemon has, whoever changed it and whichever answers are lost.       *)
LiveKeys == {
    <<"cluster-health", "i">>, <<"cluster-status", "i">>, <<"cluster-nodes", "i">>, <<"instance-operations", "i">>,
    <<"instance-cluster-health", "i">>, <<"operations", "i", "filter">>, Here(<<"services", "svc", "status">>)}
PolledCatchesUp == screen # "unused" /\ watched.key \in LiveKeys => []<>(~mounted \/ UpToDate)

(* The state of the daemon has no timer: the events of the ticker alone
   refresh it, for as long as the connection stands.                        *)
TickedCatchesUp ==
    watched.key = <<"central", "status">> => []<>(~mounted \/ UpToDate \/ source # "open")

(* Data that is watched, and not just marked when this client changes it,
   does not stay old.                                                       *)
CatchesUp == PolledCatchesUp /\ TickedCatchesUp
=============================================================================
