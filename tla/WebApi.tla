------------------------------- MODULE WebApi -------------------------------
(***************************************************************************)
(* The calls of the web client, service by service, and the routes the     *)
(* daemon has for them.  A call is its method and the segments of its path *)
(* below /api/v1; a segment the caller fills in is Var.  Query strings,    *)
(* headers and bodies are left out, payloads belong to the modules that    *)
(* make the calls.                                                         *)
(***************************************************************************)
EXTENDS Naturals, Sequences

Var == "any"
In == <<"instances", Var>>
App == In \o <<"apps", Var>>
Service == In \o <<"services", Var>>
Operation == In \o <<"operations", Var>>
Asset == <<"pxe", "assets", Var, Var>>

Get(path) == <<"GET", path>>
Post(path) == <<"POST", path>>
Put(path) == <<"PUT", path>>
Patch(path) == <<"PATCH", path>>
Delete(path) == <<"DELETE", path>>

InstancesApi == [
    list |-> Get(<<"instances">>), get |-> Get(In), create |-> Post(<<"instances">>),
    delete |-> Delete(In), getConfig |-> Get(In \o <<"config">>),
    updateConfig |-> Put(In \o <<"config">>), batchUpdateConfig |-> Patch(In \o <<"config">>),
    getConfigYaml |-> Get(In \o <<"config">>), updateConfigYaml |-> Put(In \o <<"config">>),
    getSecrets |-> Get(In \o <<"secrets">>), updateSecrets |-> Put(In \o <<"secrets">>)]

NodesApi ==
    LET Nodes == In \o <<"nodes">> IN [
    list |-> Get(Nodes), get |-> Get(Nodes \o <<Var>>), add |-> Post(Nodes),
    update |-> Put(Nodes \o <<Var>>), delete |-> Delete(Nodes \o <<Var>>),
    apply |-> Post(Nodes \o <<Var, "apply">>), reset |-> Post(Nodes \o <<Var, "reset">>),
    discover |-> Post(Nodes \o <<"discover">>), detect |-> Post(Nodes \o <<"detect">>),
    discoveryStatus |-> Get(In \o <<"discovery">>),
    cancelDiscovery |-> Post(In \o <<"discovery", "cancel">>),
    getHardware |-> Get(Nodes \o <<"hardware", Var>>),
    fetchTemplates |-> Post(Nodes \o <<"fetch-templates">>)]

ClusterApi ==
    LET Cluster == In \o <<"cluster">> IN [
    generateConfig |-> Post(Cluster \o <<"config", "generate">>),
    bootstrap |-> Post(Cluster \o <<"bootstrap">>), configureEndpoints |-> Post(Cluster \o <<"endpoints">>),
    getStatus |-> Get(Cluster \o <<"status">>), getHealth |-> Get(Cluster \o <<"health">>),
    getKubeconfig |-> Get(Cluster \o <<"kubeconfig">>),
    generateKubeconfig |-> Post(Cluster \o <<"kubeconfig", "generate">>),
    getTalosconfig |-> Get(Cluster \o <<"talosconfig">>), reset |-> Post(Cluster \o <<"reset">>)]

ServicesApi == [
    list |-> Get(In \o <<"services">>), get |-> Get(Service), install |-> Post(In \o <<"services">>),
    installAll |-> Post(In \o <<"services", "install-all">>), delete |-> Delete(Service),
    getStatus |-> Get(Service \o <<"status">>), getConfig |-> Get(Service \o <<"config">>),
    updateConfig |-> Patch(Service \o <<"config">>), getLogs |-> Get(Service \o <<"logs">>),
    fetch |-> Post(Service \o <<"fetch">>), compile |-> Post(Service \o <<"compile">>),
    deploy |-> Post(Service \o <<"deploy">>), cleanFiles |-> Post(Service \o <<"clean-files">>),
    getManifest |-> Get(<<"services", Var, "manifest">>),
    getGlobalConfig |-> Get(<<"services", Var, "config">>)]

AppsApi == [
    listAvailable |-> Get(<<"apps">>), getAvailable |-> Get(<<"apps", Var>>),
    listDeployed |-> Get(In \o <<"apps">>), add |-> Post(In \o <<"apps">>),
    deploy |-> Post(App \o <<"deploy">>), restart |-> Post(App \o <<"restart">>),
    update |-> Post(App \o <<"update">>), delete |-> Delete(App),
    getConfig |-> Get(App \o <<"config">>), updateConfig |-> Patch(App \o <<"config">>),
    getStatus |-> Get(App \o <<"status">>), getEnhanced |-> Get(App \o <<"enhanced">>),
    getRuntime |-> Get(App \o <<"runtime">>), getLogs |-> Get(App \o <<"logs">>),
    getEvents |-> Get(App \o <<"events">>), backup |-> Post(App \o <<"backup">>),
    listBackups |-> Get(App \o <<"backup">>), restore |-> Post(App \o <<"restore">>),
    getReadme |-> Get(App \o <<"readme">>)]

OperationsApi == [
    list |-> Get(In \o <<"operations">>), get |-> Get(Operation),
    cancel |-> Post(Operation \o <<"cancel">>), createStream |-> Get(Operation \o <<"stream">>)]

(* With a timestamp, verifyBackup puts it after the word the daemon expects
   it before; backupAllApps never gets as far as a call.                    *)
BackupsApi == [
    listAppBackups |-> Get(App \o <<"backup">>), startAppBackup |-> Post(App \o <<"backup">>),
    restoreAppBackup |-> Post(App \o <<"restore">>),
    deleteAppBackup |-> Delete(App \o <<"backup", Var>>),
    verifyBackup |-> Post(App \o <<"backup", "verify", Var>>),
    verifyLatest |-> Post(App \o <<"backup", "verify">>),
    discoverResources |-> Get(App \o <<"backup", "discover">>),
    getBackupStats |-> Get(In \o <<"backups", "stats">>)]

SchedulesApi ==
    LET Schedules == In \o <<"backup-schedules">> IN [
    list |-> Get(Schedules), create |-> Post(Schedules), get |-> Get(Schedules \o <<Var>>),
    update |-> Put(Schedules \o <<Var>>), delete |-> Delete(Schedules \o <<Var>>),
    run |-> Post(Schedules \o <<Var, "run">>), history |-> Get(Schedules \o <<Var, "history">>),
    status |-> Get(<<"scheduler", "status">>)]

AssetsApi == [
    list |-> Get(<<"pxe", "assets">>), get |-> Get(Asset), download |-> Post(Asset \o <<"download">>),
    status |-> Get(Asset \o <<"status">>), file |-> Get(Asset \o <<"pxe", Var>>), delete |-> Delete(Asset)]

PxeApi ==
    LET Assets == In \o <<"pxe", "assets">> IN [
    listAssets |-> Get(Assets), getAsset |-> Get(Assets \o <<Var>>),
    downloadAsset |-> Post(Assets \o <<"download">>), deleteAsset |-> Delete(Assets \o <<Var>>)]

UtilitiesApi ==
    LET Utilities == In \o <<"utilities">> IN [
    health |-> Get(Utilities \o <<"health">>),
    getDashboardToken |-> Get(Utilities \o <<"dashboard", "token">>),
    getNodeIPs |-> Get(Utilities \o <<"nodes", "ips">>),
    getControlPlaneIP |-> Get(Utilities \o <<"controlplane", "ip">>),
    copySecret |-> Post(Utilities \o <<"secrets", Var, "copy">>),
    getVersion |-> Get(Utilities \o <<"version">>)]

SetupApi == [status |-> Get(In \o <<"setup", "status">>)]

(* The service of the pages of the daemon itself; its getStatus is the only
   call whose path does not begin with /api/v1.                             *)
ApiService == [
    getStatus |-> Get(<<"", "status">>), getHealth |-> Get(<<"health">>),
    getConfig |-> Get(<<"config">>), createConfig |-> Post(<<"config">>), updateConfig |-> Put(<<"config">>),
    getConfigYaml |-> Get(<<"config", "yaml">>), updateConfigYaml |-> Put(<<"config", "yaml">>),
    getDnsmasqStatus |-> Get(<<"dnsmasq", "status">>), getDnsmasqConfig |-> Get(<<"dnsmasq", "config">>),
    writeDnsmasqConfig |-> Put(<<"dnsmasq", "config">>), generateDnsmasqConfig |-> Post(<<"dnsmasq", "generate">>),
    restartDnsmasq |-> Post(<<"dnsmasq", "restart">>), getNetworkInfo |-> Get(<<"network", "info">>),
    downloadPXEAssets |-> Post(<<"pxe", "assets">>)]

CentralApi == [status |-> Get(<<"status">>)]

(***************************************************************************)
(* What the daemon's router knows of the calls above, and of some more.    *)
(***************************************************************************)
InstanceRoutes == {
    Post(<<"instances">>), Get(<<"instances">>), Get(In), Delete(In), Get(In \o <<"setup", "status">>),
    Get(In \o <<"config">>), Put(In \o <<"config">>), Patch(In \o <<"config">>),
    Get(In \o <<"secrets">>), Put(In \o <<"secrets">>), Get(<<"context">>), Post(<<"context">>),
    Get(In \o <<"operations">>), Get(Operation), Get(Operation \o <<"stream">>), Post(Operation \o <<"cancel">>)}

NodeRoutes ==
    LET Nodes == In \o <<"nodes">> IN {
    Post(Nodes \o <<"discover">>), Post(Nodes \o <<"detect">>), Get(In \o <<"discovery">>),
    Post(In \o <<"discovery", "cancel">>), Get(Nodes \o <<"hardware", Var>>),
    Post(Nodes \o <<"fetch-templates">>), Post(Nodes), Get(Nodes), Get(Nodes \o <<Var>>), Put(Nodes \o <<Var>>),
    Post(Nodes \o <<Var, "apply">>), Post(Nodes \o <<Var, "reset">>), Delete(Nodes \o <<Var>>)}

AssetRoutes == {
    Get(<<"pxe", "assets">>), Get(Asset), Post(Asset \o <<"download">>), Delete(Asset),
    Get(Asset \o <<"pxe", Var>>), Get(Asset \o <<"status">>)}

ClusterRoutes ==
    LET Cluster == In \o <<"cluster">> IN {
    Post(Cluster \o <<"config", "generate">>), Post(Cluster \o <<"bootstrap">>), Post(Cluster \o <<"endpoints">>),
    Get(Cluster \o <<"status">>), Get(Cluster \o <<"health">>), Get(Cluster \o <<"kubeconfig">>),
    Post(Cluster \o <<"kubeconfig", "generate">>), Get(Cluster \o <<"talosconfig">>), Post(Cluster \o <<"reset">>)}

ServiceRoutes == {
    Get(In \o <<"services">>), Post(In \o <<"services">>), Post(In \o <<"services", "install-all">>),
    Get(Service), Delete(Service), Get(Service \o <<"status">>), Get(Service \o <<"config">>),
    Patch(Service \o <<"config">>), Get(Service \o <<"logs">>), Get(<<"services", Var, "manifest">>),
    Get(<<"services", Var, "config">>)}
    \cup {Post(Service \o <<step>>) : step \in {"fetch", "compile", "deploy", "clean-files"}}

AppRoutes ==
    {Get(<<"apps">>), Get(<<"apps", Var>>), Get(In \o <<"apps">>), Post(In \o <<"apps">>), Delete(App),
     Patch(App \o <<"config">>)}
    \cup {Post(App \o <<step>>) : step \in {"deploy", "restart", "update", "eject"}}
    \cup {Get(App \o <<part>>) :
            part \in {"config", "status", "enhanced", "runtime", "logs", "events", "readme"}}

BackupRoutes == {
    Post(App \o <<"backup">>), Get(App \o <<"backup">>), Get(App \o <<"backup", "latest">>),
    Get(App \o <<"backup", "discover">>), Delete(App \o <<"backup", Var>>),
    Post(App \o <<"backup", Var, "verify">>), Post(App \o <<"restore">>)}

GlobalRoutes ==
    LET Utilities == In \o <<"utilities">> IN {
    Get(<<"config">>), Put(<<"config">>), Get(Utilities \o <<"health">>),
    Get(Utilities \o <<"dashboard", "token">>), Get(Utilities \o <<"nodes", "ips">>),
    Get(Utilities \o <<"controlplane", "ip">>), Post(Utilities \o <<"secrets", Var, "copy">>),
    Get(Utilities \o <<"version">>), Get(In \o <<"events">>), Get(<<"events">>), Get(<<"dnsmasq", "status">>),
    Get(<<"dnsmasq", "config">>), Put(<<"dnsmasq", "config">>), Post(<<"dnsmasq", "restart">>),
    Post(<<"dnsmasq", "generate">>), Get(<<"network", "info">>), Get(<<"network", "resolve">>),
    Get(<<"status">>), Get(<<"health">>)}

Routes == InstanceRoutes \cup NodeRoutes \cup AssetRoutes \cup ClusterRoutes
            \cup ServiceRoutes \cup AppRoutes \cup BackupRoutes \cup GlobalRoutes

(* A route takes a call when the methods are the same and every segment is
   the route's own word or one of its variables.                            *)
Takes(route, call) ==
    /\ route[1] = call[1]
    /\ Len(route[2]) = Len(call[2])
    /\ \A k \in 1..Len(call[2]) : route[2][k] \in {call[2][k], Var}

(* Every other call ends in an ApiError: the router answers 404 or 405.     *)
Routed(call) == \E route \in Routes : Takes(route, call)
=============================================================================
