------------------------------ MODULE WebHooks ------------------------------
(***************************************************************************)
(* The query and mutation hooks of the web client, as tables.  A query has *)
(* a key, the call that fills it, what of the daemon's state its answer    *)
(* shows, whether it is fetched without being asked for, whether a timer   *)
(* repeats it and how often a failed fetch is repeated.  A mutation has    *)
(* its call, what has changed by the time it succeeds, what changes after  *)
(* that by its doing, and the key prefixes it invalidates when it succeeds *)
(* ("inv") or however it ends ("always").  A hook also listens for types   *)
(* of events.  What a query shows and a mutation changes is read from the  *)
(* daemon's handlers; toasts, the order of results and the values hooks    *)
(* hand on are left out.                                                   *)
(***************************************************************************)
EXTENDS WebApi

Here(key) == <<"instances", "i">> \o key   \* keys of the instance on screen
Read(key, call, shows) ==
    [key |-> key, call |-> call, shows |-> shows, auto |-> TRUE, polls |-> FALSE, retries |-> 1]
Polled(key, call, shows) == [Read(key, call, shows) EXCEPT !.polls = TRUE]
Write(call, now, later, inv) ==
    [call |-> call, now |-> now, later |-> later, inv |-> inv, always |-> {}]
Settling(call, now, later, always) ==
    [call |-> call, now |-> now, later |-> later, inv |-> {}, always |-> always]
(* The call starts an operation, which is listed by the time it succeeds. *)
Starts(call, later, inv) == Write(call, {"operations"}, later \cup {"operations"}, inv)
Endless == 9   \* retry: true

(* The parts of the document config.yaml, which some calls show or replace
   as a whole and others by the part: the settings, the active nodes and
   the sections of the apps.                                                *)
Document == {"config", "nodes", "appConfig"}
Hook(queries, mutations, listens) == [queries |-> queries, mutations |-> mutations, listens |-> listens]

OperationEvents == {"operation:started", "operation:progress", "operation:completed", "operation:failed"}
ServiceEvents == {"service:added", "service:modified", "service:deleted"}
PodEvents == {"pod:added", "pod:modified", "pod:deleted"}
DeploymentEvents == {"deployment:added", "deployment:modified", "deployment:deleted"}

---------------------------------------------------------------------------
(* Nodes, discovery, setup and the cluster.                                *)
UseNodes ==
    LET nodes == Here(<<"nodes">>)  found == Here(<<"discovery">>) IN
    Hook({Read(nodes, NodesApi.list, {"nodes"})},
         {Write(NodesApi.discover, {"discovery"}, {"discovery"}, {found}),
          Write(NodesApi.cancelDiscovery, {"discovery"}, {}, {found})}
         \cup {Write(call, {"nodes"}, {}, {nodes}) :
                 call \in {NodesApi.add, NodesApi.update, NodesApi.delete}}
         \cup {Write(call, {"nodes"}, {"cluster"}, {nodes}) : call \in {NodesApi.apply, NodesApi.reset}}
         \cup {Write(call, {}, {}, {}) : call \in {NodesApi.detect, NodesApi.fetchTemplates, NodesApi.getHardware}},
         {})

UseDiscoveryStatus == Hook({Read(Here(<<"discovery">>), NodesApi.discoveryStatus, {"discovery"})}, {}, {"talos:event"})

UseNodeHardware == Hook({Read(Here(<<"nodes", "hardware", "ip">>), NodesApi.getHardware, {"hardware"})}, {}, {})

(* The interval a caller passes is not used. *)
SetupKey == Here(<<"setup", "status">>)
UseSetupStatus ==
    Hook({Read(SetupKey, SetupApi.status, {"global", "config", "nodes", "kubeconfig", "services", "apps"})}, {},
         OperationEvents \cup ServiceEvents
         \cup {"node:added", "node:modified", "node:deleted", "node:configured", "node:applied"})

UseCluster ==
    LET Cluster(part) == Here(<<"cluster", part>>) IN
    Hook({Read(Cluster("status"), ClusterApi.getStatus, {"cluster"}),
          Read(Cluster("health"), ClusterApi.getHealth, {"cluster"}),
          [Read(Cluster("kubeconfig"), ClusterApi.getKubeconfig, {"kubeconfig"}) EXCEPT !.retries = 0],
          [Read(Cluster("talosconfig"), ClusterApi.getTalosconfig, {"talosconfig"}) EXCEPT !.retries = 0]}
         \cup UseSetupStatus.queries,
         {Write(ClusterApi.generateConfig, {"talosconfig"}, {}, {}),
          Starts(ClusterApi.bootstrap, {"cluster", "kubeconfig", "talosconfig"}, {Here(<<"cluster">>)}),
          Write(ClusterApi.configureEndpoints, {"kubeconfig", "talosconfig"}, {}, {}),
          Write(ClusterApi.generateKubeconfig, {"kubeconfig"}, {}, {Cluster("kubeconfig")}),
          Starts(ClusterApi.reset, {"talosconfig"}, {Here(<<"cluster">>)})},
         UseSetupStatus.listens)

UseClusterHealth == Hook({Polled(<<"cluster-health", "i">>, ClusterApi.getHealth, {"cluster"})}, {}, {})
UseClusterStatus == Hook({Polled(<<"cluster-status", "i">>, ClusterApi.getStatus, {"cluster"})}, {}, {})
UseClusterNodes == Hook({Polled(<<"cluster-nodes", "i">>, NodesApi.list, {"nodes"})}, {}, {})

UseKubeconfig == Hook({Read(Here(<<"kubeconfig">>), ClusterApi.getKubeconfig, {"kubeconfig"})}, {}, {})
UseTalosconfig == Hook({Read(Here(<<"talosconfig">>), ClusterApi.getTalosconfig, {"talosconfig"})}, {}, {})
UseRegenerateKubeconfig ==
    Hook({}, {Write(ClusterApi.generateKubeconfig, {"kubeconfig"}, {}, {Here(<<"kubeconfig">>)})}, {})

---------------------------------------------------------------------------
(* Instances, their configuration and their secrets.                       *)
UseInstances ==
    Hook({Read(<<"instances">>, InstancesApi.list, {"instances"})},
         {Write(call, {"instances"}, {}, {<<"instances">>}) : call \in {InstancesApi.create, InstancesApi.delete}}, {})
UseInstance == Hook({Read(Here(<<>>), InstancesApi.get, Document)}, {}, {})

(* Its pages send the document they read with one of its parts replaced. *)
UseInstanceConfig ==
    LET config == Here(<<"config">>) IN
    Hook({Read(config, InstancesApi.getConfig, Document)},
         {Write(call, Document, {}, {config}) : call \in {InstancesApi.updateConfig, InstancesApi.batchUpdateConfig}}, {})

(* Retried without end; the two hooks' keys do not begin alike. *)
UseConfigYaml ==
    Hook({[Read(<<"instance", "i", "config", "yaml">>, InstancesApi.getConfigYaml, Document) EXCEPT !.retries = Endless]},
         {Write(InstancesApi.updateConfigYaml, Document, {}, {<<"instance", "i", "config">>})}, {})

UseConfig ==
    Hook({Read(<<"globalConfig">>, ApiService.getConfig, {"global"})},
         {Write(call, {"global"}, {}, {<<"globalConfig">>}) : call \in {ApiService.createConfig, ApiService.updateConfig}}, {})

UseSecrets == Hook({Read(Here(<<"secrets", form>>), InstancesApi.getSecrets, {"secrets"}) : form \in {"raw", "masked"}}, {}, {})
UpdateMarksRaw ==   \* mutant
    Hook({}, {Write(InstancesApi.updateSecrets, {"secrets"}, {}, {Here(<<"secrets", "raw">>)})}, {})
UseUpdateSecrets == Hook({}, {Write(InstancesApi.updateSecrets, {"secrets"}, {}, {Here(<<"secrets">>)})}, {})

(* The dashboard's own hooks. *)
UseInstanceCard == Hook({Read(<<"instance", "i">>, InstancesApi.get, Document)}, {}, {})
UseInstanceOperations == Hook({Polled(<<"instance-operations", "i">>, OperationsApi.list, {"operations"})}, {}, {})
UseInstanceClusterHealth == Hook({Polled(<<"instance-cluster-health", "i">>, ClusterApi.getHealth, {"cluster"})}, {}, {})

---------------------------------------------------------------------------
(* Apps.  A mutation that follows its operation to the end succeeds when
   the operation has completed, so that all its changes are made by then.  *)
UseAvailableApps == Hook({Read(<<"apps", "available">>, AppsApi.listAvailable, {"catalog"})}, {}, {})
UseAvailableApp == Hook({Read(<<"apps", "available", "app">>, AppsApi.getAvailable, {"catalog"})}, {}, {})

UseDeployedApps ==
    LET apps == Here(<<"apps">>) IN
    Hook({Read(apps, AppsApi.listDeployed, {"apps"})},
         {Write(AppsApi.add, {"apps", "appConfig", "secrets"}, {}, {apps}),
          Write(AppsApi.updateConfig, {"apps", "appConfig"}, {}, {apps}),
          Write(AppsApi.delete, {"apps", "appConfig", "secrets", "operations"}, {}, {apps})}
         \cup {Write(call, {"apps", "operations"}, {}, {apps}) : call \in {AppsApi.deploy, AppsApi.restart, AppsApi.update}},
         PodEvents \cup DeploymentEvents \cup ServiceEvents)

UseAppStatuses ==
    Hook({[Read(Here(<<"apps", "app", "status">>), AppsApi.getStatus, {"apps"}) EXCEPT !.retries = 0]}, {},
         PodEvents \cup {"deployment:modified"})

AppBackupKey == Here(<<"apps", "app", "backups">>)
UseAppBackupsOfApps ==
    Hook({Read(AppBackupKey, AppsApi.listBackups, {"backups"})},
         {Starts(AppsApi.backup, {"backups"}, {AppBackupKey}),
          Starts(AppsApi.restore, {"apps", "appConfig", "secrets"}, {})}, {})

UseAppEnhanced == Hook({Read(Here(<<"apps", "app", "enhanced">>), AppsApi.getEnhanced, {"apps", "appConfig"})}, {}, {})
UseAppRuntime == Hook({Read(Here(<<"apps", "app", "runtime">>), AppsApi.getRuntime, {"apps"})}, {}, PodEvents \cup {"deployment:modified"})
UseAppLogs == Hook({Read(Here(<<"apps", "app", "logs", "params">>), AppsApi.getLogs, {"logs"})}, {}, {})
UseAppEvents == Hook({Read(Here(<<"apps", "app", "events", "20">>), AppsApi.getEvents, {"logs"})}, {}, {})
UseAppReadme == Hook({[Read(Here(<<"apps", "app", "readme">>), AppsApi.getReadme, {"catalog", "apps"}) EXCEPT !.retries = 0]}, {}, {})

---------------------------------------------------------------------------
(* Services.  fetch, compile, deploy and clean-files are done when the
   daemon answers; install and delete start operations.                    *)
UseServices ==
    LET services == Here(<<"services">>) IN
    Hook({Read(services, ServicesApi.list, {"services"})},
         {Starts(call, {"services"}, {services}) : call \in {ServicesApi.install, ServicesApi.installAll}}
         \cup {Settling(ServicesApi.delete, {"operations"}, {"services", "operations"}, {services})}
         \cup {Settling(call, {"services"}, {}, {services}) :
                 call \in {ServicesApi.fetch, ServicesApi.compile, ServicesApi.deploy, ServicesApi.cleanFiles}}, {})

(* Polled unless the client is told that events are enabled, which the
   deployments' settings do not. *)
UseServiceStatus ==
    Hook({Polled(Here(<<"services", "svc", "status">>), ServicesApi.getStatus, {"services", "config"})}, {}, ServiceEvents)

UseServiceConfig ==
    LET services == Here(<<"services">>) IN
    Hook({Read(services \o <<"svc", "config">>, ServicesApi.getConfig, {"services", "config"})},
         {Write(ServicesApi.updateConfig, {"services", "config"}, {},
                {services \o <<"svc", "config">>, services \o <<"svc", "status">>, services})}, {})

UseServiceManifest == Hook({Read(<<"services", "svc", "manifest">>, ServicesApi.getManifest, {"catalog"})}, {}, {})
UseService == Hook({Read(Here(<<"services", "svc">>), ServicesApi.list, {"services"})}, {}, {})

UseBaseServices == Hook({Read(Here(<<"services">>), ServicesApi.list, {"services"})}, {}, ServiceEvents \cup PodEvents)
UseBaseServiceStatus ==
    Hook({Read(Here(<<"services", "svc", "status">>), ServicesApi.getStatus, {"services", "config"})}, {}, ServiceEvents)
UseInstallService ==
    Hook({}, {Starts(ServicesApi.install, {"services"}, {Here(<<"services">>), Here(<<"operations">>)})}, {})

---------------------------------------------------------------------------
(* Operations.                                                             *)
UseOperations == Hook({Read(Here(<<"operations">>), OperationsApi.list, {"operations"})}, {}, OperationEvents)
UseOperationList == Hook({Polled(<<"operations", "i", "filter">>, OperationsApi.list, {"operations"})}, {}, {})
UseCancelOperation ==
    Hook({}, {Write(OperationsApi.cancel, {"operations"}, {}, {<<"operation", "i", "op">>, <<"operations", "i">>})}, {})

---------------------------------------------------------------------------
(* Backups and their schedules.                                            *)
UseAppBackups ==
    Hook({Read(AppBackupKey, BackupsApi.listAppBackups, {"backups"})},
         {Starts(BackupsApi.startAppBackup, {"backups"}, {AppBackupKey}),
          Starts(BackupsApi.restoreAppBackup, {"apps", "appConfig", "secrets"}, {Here(<<"apps">>)})}, OperationEvents)
UseAllBackups == Hook({Read(Here(<<"all-backups", "apps">>), BackupsApi.listAppBackups, {"backups"})}, {}, OperationEvents)
UseBackupVerification == Hook({}, {Write(BackupsApi.verifyBackup, {"backups"}, {}, {AppBackupKey})}, {})
UseBackupDiscovery == Hook({Read(Here(<<"apps", "app", "backup-resources">>), BackupsApi.discoverResources, {"resources"})}, {}, {})
UseDeleteAppBackup ==
    Hook({}, {Write(BackupsApi.deleteAppBackup, {"backups"}, {}, {AppBackupKey, Here(<<"all-backups">>)})}, {})

ScheduleKey == Here(<<"backup-schedules">>)
UseCreateSchedule == Hook({}, {Write(SchedulesApi.create, {"schedules"}, {}, {ScheduleKey})}, {})
UseUpdateSchedule == Hook({}, {Write(SchedulesApi.update, {"schedules"}, {}, {ScheduleKey})}, {})
UseDeleteSchedule == Hook({}, {Write(SchedulesApi.delete, {"schedules"}, {}, {ScheduleKey})}, {})
UseRunSchedule == Hook({}, {Write(SchedulesApi.run, {"schedules"}, {"backups"}, {ScheduleKey, Here(<<"backups">>)})}, {})
UseToggleSchedule == Hook({}, {Write(SchedulesApi.update, {"schedules"}, {}, {ScheduleKey})}, {})
UseScheduleHistory == Hook({Read(ScheduleKey \o <<"id", "history">>, SchedulesApi.history, {"schedules"})}, {}, {})

---------------------------------------------------------------------------
(* The daemon's own services, assets and utilities.                        *)
UseCentralStatus == Hook({Read(<<"central", "status">>, CentralApi.status, {"central", "instances"})}, {}, {"central:status", "central:health"})

(* Its mutations refetch the queries themselves. *)
UseDnsmasq ==
    LET status == <<"dnsmasq", "status">>  config == <<"dnsmasq", "config">> IN
    Hook({Read(status, ApiService.getDnsmasqStatus, {"dnsmasq"}),
          [Read(config, ApiService.getDnsmasqConfig, {"dnsmasqConfig"}) EXCEPT !.auto = FALSE]},
         {Write(ApiService.generateDnsmasqConfig, {"dnsmasq", "dnsmasqConfig"}, {}, {status, config}),
          Write(ApiService.restartDnsmasq, {"dnsmasq"}, {}, {status})},
         {"dnsmasq:restart", "dnsmasq:config"})

UseStatus == Hook({Polled(<<"status">>, ApiService.getStatus, {"central"})}, {}, {})
UseHealth == Hook({}, {Write(ApiService.getHealth, {}, {}, {})}, {})
UseAssets == Hook({}, {Write(ApiService.downloadPXEAssets, {"assets"}, {}, {})}, {})

UseAssetList == Hook({Read(<<"assets">>, AssetsApi.list, {"assets"})}, {}, {})
UseAsset == Hook({Read(<<"assets", "s", "v">>, AssetsApi.get, {"assets"})}, {}, {})
UseAssetStatus == Hook({Read(<<"assets", "s", "v", "status">>, AssetsApi.status, {"assets"})}, {}, {})
UseDownloadAsset ==
    Hook({}, {Write(AssetsApi.download, {"assets"}, {}, {<<"assets">>, <<"assets", "s", "v">>, <<"assets", "s", "v", "status">>})}, {})
UseDeleteAsset ==
    Hook({}, {Write(AssetsApi.delete, {"assets"}, {}, {<<"assets">>, <<"assets", "s", "v">>, <<"assets", "s", "v", "status">>})}, {})

PxeKey == Here(<<"pxe", "assets">>)
UsePxeAssets == Hook({Polled(PxeKey, PxeApi.listAssets, {"assets"})}, {}, {})
UsePxeAsset == Hook({Read(PxeKey \o <<"kernel">>, PxeApi.getAsset, {"assets"})}, {}, {})
UseDownloadPxeAsset == Hook({}, {Write(PxeApi.downloadAsset, {}, {"assets"}, {PxeKey})}, {})
UseDeletePxeAsset == Hook({}, {Write(PxeApi.deleteAsset, {"assets"}, {}, {PxeKey})}, {})

UseDashboardToken == Hook({Read(Here(<<"utilities", "dashboard", "token">>), UtilitiesApi.getDashboardToken, {"utilities"})}, {}, {})
UseClusterVersions == Hook({Read(Here(<<"utilities", "version">>), UtilitiesApi.getVersion, {"utilities"})}, {}, {})
UseNodeIPs == Hook({Read(Here(<<"utilities", "nodes", "ips">>), UtilitiesApi.getNodeIPs, {"cluster"})}, {}, {})
UseControlPlaneIP == Hook({Read(Here(<<"utilities", "controlplane", "ip">>), UtilitiesApi.getControlPlaneIP, {"cluster"})}, {}, {})
UseCopySecret == Hook({}, {Write(UtilitiesApi.copySecret, {"kubernetesSecrets"}, {}, {<<"secrets">>})}, {})
=============================================================================
