# Wild Cloud: a formal model of its daemon and its web client

Wild Cloud (`src/`) sets up and runs Kubernetes clusters on machines of a local
network. Its core is one Go daemon, `src/api`, that keeps all it knows in files:
a directory for each instance with `config.yaml`, `secrets.yaml`, operation
records, the discovery status, generated Talos configurations and logs. HTTP
handlers change these files and start goroutines that call `kubectl`,
`talosctl` and `yq`. Almost every handler creates its own manager objects, so a
mutex inside a manager orders nothing, and most files are read, changed and
rewritten without a lock.

People use it through a web client, `src/web`, that is as large as the daemon. It
caches what the daemon says, follows operations by polling and by one event
connection, copies cached documents into forms and sends them back, and repeats
requests that failed. There the hazards are of time: an answer that comes when the
user is elsewhere, a timer that fires into a dialog that was opened again, a
draft that is filled anew while one types, a retry of what was done already.

This directory holds TLA+ modules of the parts where goroutines, requests,
files, machines, crashes, answers, timers and clicks meet, the TLC configurations that
check them on small instances, and TLAPS proofs of properties that matter most.

Contents: 1 inventory, 2 modules and code, 3 runs, 4 fairness, 5 proofs,
6 findings and observations, 7 what is abstracted or left out, 8 what could
follow, 9 how to run.

## 1. Inventory

### The daemon

Paths are below `src/api/internal`.

| component | code | state it keeps | operations |
|---|---|---|---|
| operation records | `operations/operations.go`, `storage/storage.go` | one JSON file per operation | Start, Update, UpdateStatus, UpdateProgress, UpdateBootstrapProgress, Cancel, List, (Delete, Cleanup: never called) |
| asynchronous handlers | `api/v1/async.go`, `api/v1/handlers_operations.go` | goroutines | StartAsyncOperation and two variants, OperationCancel, OperationGet, OperationStream |
| operation output stream | `operations/broadcaster.go`, `services/broadcast_writer.go` | client channels, log file | Subscribe, Unsubscribe, Publish, Close, Write, Flush |
| event stream hub | `sse/manager.go`, `api/v1/handlers_sse.go` | client maps, rate limiters, three queues | run, RegisterClient, UnregisterClient, Broadcast |
| cluster watchers | `sse/watchers.go` | `kubectl --watch` and `talosctl events` processes | StartWatchers, StopWatchers, restart |
| instance configuration | `config/`, `tools/yq.go`, `api/v1/helpers.go`, `api/v1/handlers_config.go`, `services/config.go` | `config.yaml`, `config.yaml.lock` | batch update, PUT, per-service update, `yq -i` of the node manager |
| secrets | `secrets/secrets.go` | `secrets.yaml` and its lock | SetSecret, EnsureSecret, DeleteSecret |
| instances, context | `instance/`, `context/` | instance directories, current-context file | create, delete, use |
| node discovery | `discovery/discovery.go` | `discovery/status.json`, a scanning goroutine | StartDiscovery, CancelDiscovery, ExpandSubnet |
| nodes | `node/node.go`, `api/v1/handlers_node.go` | `cluster.nodes.active` in `config.yaml`, the machines | Add, Update, Apply, Reset, Delete |
| cluster bootstrap | `cluster/cluster.go`, `api/v1/handlers_cluster.go` | `talos/generated`, kubeconfig, bootstrap records, the machines | GenerateConfig, Bootstrap, ConfigureEndpoints, RegenerateKubeconfig, Reset |
| asset downloads | `assets/assets.go`, `api/v1/handlers_assets.go` | images and their temporary files | DownloadAssets, DeleteSchematic, list |
| services | `services/` | compiled files, deployments | Fetch, Compile, Deploy, Install, InstallAll, Delete |
| apps | `apps/apps.go` | an app's files, its part of config and secrets, its namespace | Add, Deploy, Update, Eject, Delete |
| backup and restore | `backup/` | backup directories, a destination, restore namespaces | BackupApp, RestoreApp, Verify, Delete |
| dnsmasq | `dnsmasq/` | one fragment per instance, the service | write, validate, remove, reload |
| PXE, setup, tools, network, utilities, data | | none of their own, or files on disk | wrappers of external programs, embedded templates, queries |
| command line client | `src/cli` | none | HTTP requests, polling |

### The web client

Paths are below `src/web/src`.

| component | code | state it keeps | operations |
|---|---|---|---|
| API and query cache | `services/api/`, `lib/queryClient.ts`, `hooks/` | react-query's entries: data, fetch, mark, retries | queries, mutations, invalidations, polling |
| event connection | `hooks/useGlobalSSE.ts` | one EventSource, listeners, a timer | subscribe, unsubscribe, onopen, onerror, reconnect, close |
| following operations | `hooks/useApps.ts`, `components/cluster/BootstrapModal.tsx`, `components/operations/`, `router/pages/OperationsPage.tsx` | attempts, the operation a dialog follows | pollOperation, start, poll, close, cancel |
| terminal | `components/XTerminal.tsx` | a websocket, a timer, the text kept between visits | connect, output, drop, reconnect, unmount |
| configuration forms | `CloudComponent`, `CentralComponent`, `DnsComponent`, `ConfigEditor`, `ClusterSettings`, `ServiceConfigEditor`, `SecretsPage` | a draft, which card is open, tests of domains | edit, type, save, cancel, re-read, test |
| apps pages | `AppsComponent`, `apps/AppDetailPanel`, `apps/AppConfigDialog` | the open dialog and panel, what is typed | configure, add, deploy, update, delete |
| services pages | `ClusterServicesComponent`, `services/ServiceDetailDialog` | services noted as busy, the chosen log | fetch, compile, deploy, delete, follow logs |
| nodes pages | `ClusterNodesComponent`, `nodes/NodeForm` | the drawer, the form with its eight effects | detect, add, update, apply, delete |
| backups pages | `router/pages/BackupsPage`, `BackupRestoreModal`, `backup/` | what was chosen in dialogs that stay mounted | create, restore, look at |
| asset pages | `router/pages/IsoPage`, `AssetsIsoPage`, `AssetsPxePage` | what was last read of the assets, the chosen version | download, delete |
| the rest | widgets, layout, types, pages that only show | | |

### How they interact

- A handler of a long operation writes a record, answers with its id and
  leaves a goroutine behind. The goroutine runs the operation (services, apps,
  backup, cluster reset; the bootstrap has a goroutine of its own) and writes the
  record again at the start, on progress and at the end. A cancel request
  rewrites the same record. Nothing passes from the record to the goroutine.
- An installation publishes the output of its scripts to a broadcaster; an
  output stream replays the log file and then subscribes.
- Bootstraps, and only they, hand events about their records to the event hub;
  watchers, backups and `services.UpdateConfig` feed it too. Every SSE connection is a
  client of the hub.
- Services, nodes, the batch and the PUT handler all write `config.yaml`, each
  with its own idea of the lock beside it.
- `node.Apply` needs the base configuration that `cluster.GenerateConfig` wrote;
  `cluster.Bootstrap` needs machines that took it, and the addresses the nodes
  have in `config.yaml`.
- Every page of the client reads through the query cache. An entry is as old as the
  last thing that marked it: a mutation of this client that names its key, an event
  whose type maps to its key, or a timer. Events arrive over one connection.
- The buttons of apps and services post a request, poll the operation it names, and
  are repeated by react-query when that fails; the bootstrap dialog polls with a
  query; the forms send whole documents, read some time ago.

### What is hard, and what makes each part correct

| component | hard behaviour | what must hold |
|---|---|---|
| operation records | truncate-then-fill writes, unlocked read-modify-write by worker and cancel requests, death of the daemon | a record never misreports an outcome; a verdict is final but for a cancellation; events never run ahead of the record; an operation comes to rest |
| output stream | replay before subscribe, several Close calls per installation, full channels, close against send | no send on a closed channel; live output contiguous; only the window between replay and subscribe is lost; a closed channel ends its stream |
| event hub | three queues served in any order, full queues, a select that never blocks on clients | events in order; one dead client never stops the hub; a connection that ended is forgotten |
| configuration | four kinds of writers, a read outside the lock, torn files, a failing batch | with the lock taken around the whole change no update is lost and the file is whole; every request is answered |
| discovery | per-request mutex, cancel that does not reach the goroutine, nil status | an undisturbed scan reports all it found; "in progress" ends |
| nodes | an entry read and written field by field, machine and entry changed in turn, a reset that outlives its deletion | "applied" is true of the machine; Apply finds the machine; a deletion is answered |
| cluster | files of several generations, machines that live on, bounded waits, racing bootstraps | files of one generation; progress not ahead of the cluster; one bootstrap per life of the cluster; completed gives access; every bootstrap ends |
| asset downloads | one temporary file for all downloads of an image, a repeated request, a restart | what is offered is a whole file |
| cache and events | marks while a fetch runs, lost events, mutations that name the wrong keys, a reconnection timer against hooks that come and go | what the client was told is done is shown; watched data does not stay old; the connection is open as long as somebody listens |
| following operations | sixty polls, a retry of the whole mutation, a timer against a reopened dialog | no second operation beside a running one that the client saw; whoever waits hears of the end |
| terminal | reconnection timer, unmounting, output decoded by promises | one shell, its output on its own screen; a terminal connects |
| forms | a document read before the user typed, effects that fill the draft again, a change of instance | others' changes and the user's typing are kept; saved where it was read |
| pages | late answers into dialogs of something else, retries that read the page anew, busy marks of the last request only | a click does what it said, once, for the thing it was made for; what is shown is of what was chosen |
| secrets, instances, services, apps, backup, dnsmasq | several external steps in turn, each may fail; checks outside locks | not modelled, see 7 |

The hazards, each at its line with the properties that cover it, are listed in
`PROJECT.json`.

## 2. Modules and code

| module | models | its state in the code |
|---|---|---|
| `OperationLifecycle` | what an operation promises its clients: the abstract specification | status as the last readable record shows it |
| `Operations` | the records, their writers and readers | `file[o]` the JSON file; `pc`, `job` the goroutine and its write under way |
| `OperationStream` | one installation, its broadcaster and its output streams | `clients`, `channel`, `closed` of `Broadcaster`; `log`, `pending` of `broadcastWriter` |
| `SSEManager` | the hub and its connections | `clients`, `rateLimiters`, queues `register`, `unregister`, `broadcast` of `sse.Manager` |
| `ConfigStore` | `config.yaml` and the four kinds of writers | `file`, `lock`; `buf[w]` what a request holds in memory |
| `Discovery` | start, cancel and scan; subnet arithmetic | `file` is `status.json`; `collected[s]` is `discoveredNodes` |
| `Nodes` | the life of one node | `entry` in `config.yaml`; `machine`; `node[r]` the struct a request read; `todo[r]` its remaining `yq` calls |
| `Cluster` | generation, bootstrap, access and reset | `generated`, `endpoint`, `kubeconfig` the files; `machines`, `life`, `level` the cluster; `step`, `attempt`, `record` the bootstrap's record |
| `Assets` | downloads of the daemon and the pages that ask for them | `tmp`, `final` the files; `downloads` handlers and who waits for them; `listed` what the page read |
| `WebApi` | every call of the client and every route of the daemon | tables |
| `WebHooks` | every query and mutation hook | tables: key, call, what invalidates it, what the daemon changes |
| `EventClient` | the shared event connection | `listeners`, `source`, `status`, `timer` are the globals of `useGlobalSSE.ts` |
| `WebCache` | one entry of the query cache against the daemon, mutations, events and time | `entry` is react-query's; `server` the daemon's state as a version; `mutation`, `jobs`, `wire` what is on its way |
| `OperationFollow` | polling buttons, bootstrap dialog, operations page | `click[c]` a mutation of `useApps.ts`; `dialog`, `closings` of `BootstrapModal` |
| `Terminal` | the terminal and its websockets | `wsRef`, `timer2s`, `screen`, `history` (localStorage), `blobs` |
| `ConfigForms` | the forms that edit a document of the daemon | `draft`, `editing`, `cached`; a record per form says how it differs |
| `DomainTests` | the cloud page's tests of its domains | `testing` is `testingDomain` and `testType`; `verdicts` is `testResults` |
| `AppPages` | the config dialog and the buttons of an app | `dialog`, `detail`, `reads`, `requests` |
| `AddDialog` | adding an app under a free name with a server | `appName`, `mapping`; `seen` the list as last read, `actual` the daemon's |
| `ServicePages` | a service's buttons and the busy marks | `operating` is `operatingServices`; `calls` |
| `LogView` | fetching and following logs | `chosen`, `follow`, `fetches`, `sources`, `lines` |
| `NodeEditing` | detection, drawer and form of nodes | `drawer`, `nodeForm`, `detecting`, `nodeCalls` |
| `BackupPages` | the dialogs of a backup and a restore | `createApp`, `timers`, `restoreApp`, `picked`, `restoring` |

The `MC*` modules give constants their values. The proofs are in `OperationsProofs`,
`OperationStreamProofs`, `ConfigStoreProofs`, `NodesProofs` and `ClusterProofs`, each about
the module it is named after; in `EventProofs`, about the way of an event (`SSEManager`,
`EventClient`, `WebCache` and its tables); in `FollowingProofs`, about those who follow
work that others do (`OperationFollow`, `Terminal`, `Discovery`); and in `WebPagesProofs`,
about the other pages and `Assets`. `PROJECT.json` ("map") gives the source lines of
every definition.

Conventions. One action is one step of the code that others can see: in the daemon a
system call, a command, a channel operation, a locked region; in the browser one
callback, event handler or timer, which JavaScript runs to its end, together with
the effects React runs after it. A file that is written with `os.WriteFile` goes
through `Empty` (truncated) and, when two fills meet, may become `Garbage` (parses
as nothing). A variable marked *history* or *auxiliary* in its declaration is no state
of the program: it remembers what a property needs and no guard reads it.
Definitions marked *mutant* are plausible bugs; no specification uses them,
they show that a property can fail.

How they compose. `Operations` implements `OperationLifecycle`, which
`OperationFollow` in turn takes for the daemon: an operation that a client follows
changes its status by the actions of `OperationLifecycle`, so what is shown of the client rests
on what the daemon was shown to implement. `WebCache` EXTENDS `EventClient`
and `WebHooks` (and so `WebApi`): events reach the cache over the modelled connection,
and the hooks' tables say what they mark. `MCFollowing` and `MCWebPages` put modules
whose parts share no state beside each other; a variable says which one is explored: of the
client because the browser shows one page, and the daemon's scan beside them because
nothing they do meets it. `Nodes` and `Cluster` treat as one step
what `ConfigStore` and `Operations` take apart (a `yq -i` call, the rewriting of
a record); `Cluster` takes as external what `Nodes` does to machines
(`Configured`, `Wiped`).

### The daemon

**`Operations` and `OperationLifecycle`.** Start writes the first record; the
worker's `UpdateStatus("running")`, its reports and its verdict, and a cancel
request's `UpdateStatus("cancelled")`, are each a read (`ReadAndChange`), a
`Truncate` and a `Fill`. An update that finds the record unreadable is dropped,
as `async.go` does (`_ = opsMgr.Update`). The refinement mapping shows clients the
last readable record; under it `Operations!FairSpec` implements
`OperationLifecycle!FairSpec`: statuses move along the life cycle, and an
operation that is not lost in a crash settles.

**`OperationStream`.** The worker is `Install` of each service in turn, with or
without a script; `OpenLog`, `Announce`, `WriteChunk`, `PublishLine`,
`ScriptExits` follow `Deploy` and the writer. A stream is the handler:
`CheckStatus`, `Replay`, `Subscribe`, `Receive`, `Leave`/`Unsubscribe`.

**`SSEManager`.** `Run` is one iteration of `select`; clients connect, relay and
leave; `Broadcast` is non-blocking and drops when its queue is full.

**`ConfigStore`.** The writers' kinds are an initial choice of each request;
`renames` says whether `yq -i` can rename its temporary file or must copy it over
the original, which depends on the host.

**`Discovery`.** `Start` and `Cancel` check the status they read and write;
`Collect` and `Finish` are the goroutine. `ExpandSubnet` is modelled byte by
byte, with the carry of `incIP` and the broadcast test of `isLastIP`, for
addresses of `Bytes` bytes of `Bits` bits; powers of two are a recursive function
(`Pow2`), because the provers do not know `^`.

**`Nodes`.** `Read` returns any mixture of the entry at two moments, because
`List` reads ten fields in ten `yq` calls. `Apply` is `Generate` (patch, final
configuration, status "configured"), `Deploy` (the machine takes the
configuration) and four to eight status writes; `Delete` without `skip_reset`
runs `Reset` in a goroutine that a `Timeout` leaves behind. A `yq` call that fails on a
field gives it blank (`Misread`), and one that fails on the list makes a node that is
there unknown to Get: a refusal, or an `Add` over the entry.

**`Cluster`.** Each generation of secrets has a number, and so has each life of
the cluster (bootstrapped until wiped): files, machines and bootstraps carry
these numbers, and the properties compare them. A probe of a wait finds what it
waits for only if the cluster is that far, and may miss it even then.

**`Assets`.** A download looks whether the file is there, creates the temporary file,
copies piece after piece and renames; each step may fail, and the daemon may die. The
handler answers when all is done, so the client waits, loses the answer or
leaves, and asks once more.

### The web client

**`WebApi` and `WebHooks`** are tables: which call a hook makes, with which key and
options, what it invalidates, and, read from the handlers, what part of the daemon's
state a call shows or changes. The document `config.yaml` is three parts there (settings,
active nodes, sections of the apps), which some calls show or write whole. `WebCache` and
its run follow every query, on each of its screens, under the mutations of all screens: a
mutation that is routed, changes what the query shows and does not mark it violates
AcknowledgedIsSeen, unless the pair stands in the table `PassedBy`, which is written out by
hand and told in section 6. A key that is misspelt or forgotten outside that table is found.

**`WebCache`.** One query of one screen is followed at a time; the cache is one for all
screens, so the mutations it meets are those of all hooks, also while its screen is
left. A fetch is `Serve` (the daemon
answers with its version) and `Receive`; it may fail and is repeated; it marks,
is marked, polled or left. A mutation is `Mutate`, `Apply`, `Succeed` or `Err`. The version
the client was told of is `owed`. `MCWebCacheYaml` starts the same cache with one mutation, the
save of the whole document.

**`EventClient`.** `Listen` and `Hush` are the effect of `useGlobalSSE` and its
cleanup, `OnOpen`, `OnError` and `Reconnect` the browser's callbacks and the timer.

**`OperationFollow`.** `Post`, `Accepted`, `Ask`, `HangsUp` are `pollOperation` inside a
mutation that react-query repeats; `Started`, `PollDialog`, `CloseDialog` and the
closing timers are `BootstrapModal`.

**`Terminal`.** `Connect` and the callbacks of one websocket; React's strict mode mounts the
component twice. A binary message is decoded by a promise (`Write`).

**`ConfigForms`.** Eight pages share one machine. `Plain` is what most of them do; each
form is a record that says where it differs: whether it copies the document when it
opens, which fields refill the draft, what a save sends, when the card closes. `Reread`
contains the refilling effects.

**The other page modules** follow their components handler by handler, with the names
of the source. What a query shows changes freely there, within what the daemon can
say, since when it is read again is `WebCache`'s concern. A per-call callback of a
mutation runs only for the last request of a mounted hook, as react-query has it.

## 3. Runs

The runs end within a minute and a half with two workers, but for `web_pages`, which
takes three to four.

| run | instance | distinct states | shows |
|---|---|---|---|
| `operations` | 2 operations, one a bootstrap; 1 cancel request; 1 report; 1 crash | 71 000 | RecordsAreSound, HonestOutcome, VerdictStands, LifecycleSpec (refinement), ComesToRest |
| `stream` | 3 services, first and third with a script of 2 lines; 2 streams; channels of 2 | 423 000 | OutputIsHonest, NoSendOnClosed, CloseEndsStream |
| `sse` | a connection for one instance and one for all; 3 events; queues of 2 and 2, channels of 1 | 68 000 | HubIsSound, GoneAreForgotten |
| `config` | 3 requests of any mix of kinds over 2 contested keys, one sets both; 1 crash | 196 000 | FileIsSound, NoLostUpdate, Answered |
| `nodes` | 2 requests of any of six kinds, 2 addresses; 1 crash; 2 fields of a reading on which `yq` fails | 636 000 | EntriesAreSound, AppliedWasAccepted, DeleteIsAnswered |
| `cluster` | 3 requests, at most 2 bootstraps and 1 of the access kinds; 2 probes of the first wait, 1 of the others; 1 crash | 616 000 | FilesAgree, ProgressIsHonest, OneBootstrapCompletes, BootstrapEnds |
| `web_cache` | every query of every screen with every mutation of all screens, and every event of its own, that concerns it; 2 changes, 1 click, 1 lost answer, 1 break of the connection, one other listener | 1 164 000 | AcknowledgedIsSeen, ConnectionIsSound, CatchesUp |
| `following` | 1 click with 3 operations it may start, 2 bootstraps, 3 polls, 2 lost answers, 3 openings of the dialog, 1 foreign cancellation; 2 terminals, 3 drops; 2 starts and 1 cancel of a scan, 3 subnets of a 4-bit address space, 2 machines, 1 crash | 141 000 | SecondNeedsBlindness, EndsAreHeard (operations), TerminalIsOwn, TerminalConnects (terminal), ScanIsTrue, ActiveEnds (discovery) |
| `web_pages` | the nine page modules one by one: 2 apps, 2 instances, 2 services, 2 containers, 2 machines, 2 domains; 2 or 3 requests of each kind | 6 952 000 | SavedWhereLoaded, EditsAreKept (forms), AsTheUserAsked, AddsWhatIsListed (apps), BusyIsTrue, LogIsTheChosen (services), UpdateIsOfItsNode, ProposedNameIsFree (nodes), BackupsAsAsked, ServedIsWhole (assets), VerdictIsOfItsDomain (domains) |
| `config_put` | 2 PUT requests of different keys, a third key | | counterexample: UnmodifiedKeysKept |
| `node_add` | the nodes page | | counterexample: FailedAddKeepsDrawer |
| `web_cache_yaml` | the cloud and advanced pages' queries of the configuration, with the YAML save | | counterexample: SaveInvalidatesBoth |

A run's property is a conjunction of named parts where several parts ask one question. In
the daemon: RecordsAreSound is EventFollowsRecord (an event never runs ahead of the
record) and UnreadableIsTransient (a torn record has a writer); OutputIsHonest is
LiveIsContiguous and OnlyWindowIsLost; HubIsSound is InOrder and DaemonSurvives;
GoneAreForgotten is Forgotten and LimitersStopGrowing; FileIsSound is AlwaysWhole and
TornHasWriter; ScanIsTrue is SubnetIsCovered, UndisturbedIsComplete and
PanicNeedsCompany; EntriesAreSound is EntryIsWhole and ApplyFindsMachine; FilesAgree is
GenerationsAgree and CompletedGivesAccess; each of them also with the module's type
invariant. In the client: CatchesUp is PolledCatchesUp and TickedCatchesUp;
EndsAreHeard is EveryClickIsAnswered and DialogHearsTheEnd; TerminalIsOwn is OneShell
and OutputIsOwn; EditsAreKept is SaveKeepsOthers and TypingIsKept; AsTheUserAsked is
OneRequestOfAButton and SavedWhereRead; BusyIsTrue is OneLifecycleRequest and
BusyHasRequest; LogIsTheChosen is OneFollower and LinesAreChosen; BackupsAsAsked is
BackupIsOfTheChosen and RestoreIsOfTheShown. Each definition has a comment that states it.

Exceptions are named, and each is a behaviour of the code that section 6 tells: `early`,
`meddled`, `cut`, `blurred`, `pulled`, `missed`, `disturbed` in the daemon,
`overtaken`, `blind`, `stranded`, `cleaned`, `crossed`, `overlapped`, `strayed`,
`readdressed` in the client, and the pairs of `PassedBy` in the cache. A property says that
nothing else breaks it, and nothing of what happens inside the exception: where a hazard
lies there wholly or partly, its note in `PROJECT.json` says so.

Why the bounds are enough. Every hazard named in section 1 is a meeting of two
writers, of a writer and a reader, or of an answer and a click, possibly with a crash
or a failure between, so two or three requests reach it. Queues and channels are as
long as needed to be full while something else is queued. A script of two lines has a
first and a last; three services, of which the middle one has no script, give a Close
that is followed by another. One crash is enough because nothing in the code looks at
the files after a restart; with two the state left by the first is one the second
finds as well. In `Discovery` an address has two bytes so that a carry crosses a byte
border, in a subnet mask that ends inside each of the two. Waits of `Cluster` are alike
but for the number of attempts, so one of them has two (a miss and a retry) and the
others one. Of the ten fields of an entry, which the model has as seven, two misread ones
are what it takes to get both the address and the mode wrong. The sixty polls of an operation are three: one that is early, one that
sees the operation at work and the last. Two instances, apps, services or machines are
one that was left and one that is on screen; a third would be one more that was left.
Two versions of the daemon's state make an answer old, and a third request is one that
meets both an older one's end and a newer one. The inventories of nodes have a gap in the
numbers, a node without an address, a foreign name and three control planes, the cases the
form distinguishes. Deadlock is not checked: in the daemon's modules requests come to an
end and then nothing is left to do, and the client waits for clicks, which are bounded.

Each property of each passing run has a mutant in `PROJECT.json`: a change of one
modelled definition, of the kind a programmer might make, that violates it.

## 4. Fairness

- *Goroutines.* Weak fairness on a worker's or handler's own steps: the Go
  scheduler runs what can run. Requests owe nothing before they are made.
- *Bodies and local commands end* (`Operations`, `OperationStream`, `ConfigStore`,
  `Discovery`, `Cluster`): their waits are counted attempts, scripts are assumed to
  exit, `talosctl version` has a time limit on the connection.
- *flock* (`ConfigStore`): strong fairness on `Lock`; the kernel wakes waiters, and
  a waiter that is woken again and again gets the lock in the end.
- *talosctl may hang* in `Nodes`: no fairness on `ResetMachine` or `Deploy`. That
  is the point of `DeleteIsAnswered`.
- *The machines owe nothing* in `Cluster`: a cluster may never come up; bootstraps
  end all the same.
- *select* (`SSEManager`): Go chooses uniformly among ready cases. Fairness is
  asked of `Run` as a whole only; with a bounded number of events that is
  enough for the two liveness properties.
- *The browser* (`WebCache`, `OperationFollow`, `Terminal`): weak fairness on timers and
  callbacks; a request is answered or fails. In `WebCache` receiving an answer has strong
  fairness: a marked fetch is started again, and an answer arrives between two ticks,
  which are half a minute apart. A call that no route serves fails.
- *Nobody has to click.* No fairness on anything a user does, on other clients, on the
  loss of an answer or on a break of the connection. The pages of `web_pages` have safety
  properties only, under a specification without fairness.

## 5. Proofs

`tlapm` checks every theorem for all values of the constants that satisfy the named
`ASSUME` of the module. These ask that sentinels are distinct from data, that bounds are
natural numbers, that kinds of requests are kept apart, that `Inventories` (`NodeEditing`)
are finite sets of nodes whose names carry natural numbers, and nothing else; TLC
evaluates them in each run.

| module | theorem | property |
|---|---|---|
| `OperationsProofs` | `TypeCorrect` | TypeOK |
| | `OutcomesAreHonest` | HonestOutcome |
| | `VerdictsStand` | VerdictStands |
| | `RecordsStaySound` | RecordsAreSound |
| | `ImplementsLifecycle` | the safety part of LifecycleSpec |
| `OperationStreamProofs` | `NeverSendsOnClosed` | NoSendOnClosed |
| | `OutputStaysHonest` | OutputIsHonest |
| | `ClosedStreamsDrain` | what CloseEndsStream rests on |
| `ConfigStoreProofs` | `ConfigTypeCorrect` | TypeOK |
| | `LockingPreventsRaces` | NoLostUpdate, AlwaysWhole |
| | `FileStaysSound` | FileIsSound |
| | `NobodyWaitsForAWaiter` | what Answered rests on |
| `NodesProofs` | `NodesTypeCorrect` | TypeOK |
| | `AppliedIsTrue` | AppliedWasAccepted |
| | `EntriesStaySound` | EntriesAreSound |
| | `DeletesAreTimed` | what DeleteIsAnswered rests on |
| `ClusterProofs` | `ProgressStaysHonest` | ProgressIsHonest |
| | `NoSecondBootstrap` | OneBootstrapCompletes |
| | `FilesKeepAgreeing` | FilesAgree |
| | `PendingBootstrapsMoveOn` | what BootstrapEnds rests on |
| `EventProofs` | `HubStaysSound` | HubIsSound |
| | `LimitersStayGone` | LimitersStopGrowing, of GoneAreForgotten |
| | `GoneWaitTheirTurn` | what Forgotten rests on |
| | `ConnectionStaysSound` | ConnectionIsSound |
| | `AcknowledgedStaysSeen` | AcknowledgedIsSeen |
| `FollowingProofs` | `SecondAlwaysNeedsBlindness` | SecondNeedsBlindness |
| | `ClicksMoveOnAndEndsStay` | what EndsAreHeard rests on |
| | `TerminalStaysOwn` | TerminalIsOwn |
| | `TerminalKeepsConnecting` | what TerminalConnects rests on |
| | `ScanStaysTrue` | ScanIsTrue |
| | `ActiveStatusHasScanner` | what ActiveEnds rests on |
| | `IncIPNumber`, `SubnetIsExpanded` | what `incIP` and `ExpandSubnet` return |
| `WebPagesProofs` | `SavesStayWhereLoaded`, `EditsStayKept` | SavedWhereLoaded, EditsAreKept |
| | `AppsStayAsAsked`, `AddsStayListed` | AsTheUserAsked, AddsWhatIsListed |
| | `BusyStaysTrue`, `LogStaysTheChosen` | BusyIsTrue, LogIsTheChosen |
| | `UpdateStaysOfItsNode`, `ProposedNameStaysFree` | UpdateIsOfItsNode, ProposedNameIsFree |
| | `BackupsStayAsAsked`, `ServedStaysWhole` | BackupsAsAsked, ServedIsWhole |
| | `VerdictStaysOfItsDomain` | VerdictIsOfItsDomain |

In all of them a theorem follows from an inductive invariant: one lemma says that it holds
at first, one lemma for each action that the action keeps it, and one that the
property follows.

That something happens in the end has two halves: that somebody is there to bring it
about and no step takes back what others brought about, which is safety, and that the
steps can be taken and are. The second is ENABLED and fairness, which are beyond the
prover. The first is proved for eight of the ten liveness properties: the theorems that the
table calls "what ... rests on" are about who acts next, and about what never goes back.

### The daemon

- *Operations.* HonestOutcome is not inductive: a cancel request may hold a record
  for as long as it likes and write it back. `IInv` adds that a readable file is
  the last readable record (`LastIsFile`), that nobody but the worker writes a
  verdict (`JobsHaveOwners`, `JobsHonest`), that it does so only after the body ended
  (`UndecidedBefore`), and that a verdict in the file means that the worker has
  made its last write (`QuietWhenDecided`). The last one gives VerdictsStand. `SInv`
  adds that a fill finds the record empty unless two writers met, what the record and the
  write under way say at each point of the worker (`OnCourse`), and the two parts of
  RecordsAreSound themselves. ImplementsLifecycle takes every action to a step of
  `OperationLifecycle` under the refinement mapping, or to none: what clients
  see changes only where a `Fill` ends with a readable record.
- *OperationStream.* `IInv` says that a stream is subscribed from the moment it follows
  until its channel is closed (`Subscribed`), which is why Publish meets no closed
  channel; that the lines a script has written and the writer has not published are
  the latest ones (`Pending`); that what a stream saw live, together with its channel,
  is contiguous and ends with the line that was published last (`Live`); and what
  the replay and the live part cover (`Covered`). ClosedStreamsDrain says of a closed
  channel that it only gets shorter, line by line to its client, and that its stream does not
  end before it is empty.
- *ConfigStore.* `LockedInv`: when all requests are batches and no crash met a
  copying `yq`, only the holder of the lock is between read and write, what it is
  about to write is the file as it still is plus its own key, and the content of
  the file, counting a write under way as done (`Latest`), is whole and keeps each
  request's keys. A crash releases the lock with its holder. FileIsSound rests on `TornInv`:
  until a crash, an empty file has a writer who is about to fill it, two writers meet in the
  file only if one of them took no lock (`Blame`), and a request whose file was renamed
  away under it is filling still, but no file that anyone reads. NobodyWaitsForAWaiter is
  about any mix of writers: the holder of the lock is between its read and the end
  of its write (`LockIsUsed`), so it waits for nobody, and every step of a request takes
  it to its next key or to a later stage of its key.
- *Nodes.* The word "applied" travels from the entry into what a request read, from
  there into the `yq` calls it has still to make, and back. `IInv` types all three by
  the values "applied" may have before and after a machine accepted a configuration
  (`EntryOf`, `WriteOf`); AppliedIsTrue needs no assumption about how requests overlap,
  read torn entries, fail or die. EntriesAreSound rests on `SoundInv`: of the calls a
  request has still to make, a removal is the last, and role and disk are never
  unset; an entry that lacks them has an Add under way or was removed under
  another's hands; and while all requests were truthful, which means one at
  a time, of true addresses and not broken off, the entry, the struct the request
  holds and its remaining calls lead to one record that says where the machine is and
  whether it wants the secure way. It was checked by TLC as an invariant before it was
  proved, on two overlapping requests with a crash (1 075 000 states) and on four
  requests in turn (723 000). DeletesAreTimed says where a Delete without an answer is: in
  the part whose time is limited, or at its last call. It rests on what each stage says
  of the answer and of the calls still to make (`AnswerFits`).
- *Cluster.* `IInv` says where a bootstrap can stand (`Places`), that each life of the
  cluster was begun by one bootstrap at most and that the current one is the
  highest (`Lives`), and that the step of a bootstrap of the current life is not ahead
  of the cluster (`Progress`). ProgressIsHonest is `Progress`; two completed
  bootstraps have begun lives, hence different ones. `AgreeInv` adds how many
  attempts and requests there have been and whose each step is (`FInv`); that only a
  generation between its two commands leaves the files of different generations,
  and none runs beside a removal, unless one was cut off (`Together`); and which
  endpoint and kubeconfig a bootstrap that nobody disturbed has left (`Undisturbed`).
  PendingBootstrapsMoveOn says that a record is pending exactly while its goroutine is at
  work or died with the daemon (`RecordsAreTrue`), and that such a bootstrap only
  counts on: attempts, of which a step has a number, and steps, of which there are seven.
- *Event hub.* `IInv` says that the numbers of events rise along what a client got, what
  waits in its channel, and the queue (`Ordered`), and, connection by connection,
  that a registration waits only for an open one, and a closed one is not registered
  (`Queued`), unless it ended too early. A connection that ended too early endangers all
  the others by ending `run`, but not what `Queued` says of them, and so LimitersStayGone
  is about every other connection. GoneWaitTheirTurn says that a connection that ended
  is closed or stands in the hub's queue, where it moves up until it is first and closed next.
- *Discovery.* `ScanInv`: who was not disturbed is busy by itself, finds what it wrote, and
  if no other request ever began, the file is its report, or will be when the write under
  way ends. `AsksItsSubnet` adds that the list of a scan is what ExpandSubnet returned, and
  `SubnetIsExpanded` says what that is, for any number of bytes of any number of bits.
  Addresses are taken as numbers (`NumberIsSum`), which no two addresses share
  (`NumberInjective`): incIP adds one (`IncIPNumber`), a mask rounds down to a multiple of
  the size of the subnet (`SubnetNumbers`), so the subnet is an interval of numbers
  (`ContainedIsBetween`), which the walk counts through from its lower end (`WalkCounts`).
  Induction over numbers is stated about sets (`Inductive`, from the theorem that the subsets
  of a finite set are well-founded), and that a recursive function is what its equation
  says is proved from it (`Recursion`). ActiveStatusHasScanner says that a status "in
  progress" has a goroutine that will change it, unless one panicked or the daemon died; who
  writes such a status goes on to scan.

### The web client

- *EventClient.* `ConnectionInv` is the type invariant with the four parts of
  ConnectionIsSound, which are inductive together and not one by one: that the timer
  finds no connection rests on a page without listeners having no timer, and
  that who listens is connected or waits rests on both. The proof is for any set of hooks
  and any number of breaks.
- *WebCache.* The tables are proved first. `AllWritten`: for each part of the daemon's
  state, which hooks' routed mutations have changed it by the time they succeed, and the key
  prefix they mark with it (`Written`). `AllKept`: of each query of each hook, that every
  mutation which has changed a part it shows marks a prefix of its key or is one of
  `PassedBy` (`Settled`); mutations that mark too little of what they change are routed
  nowhere (`NotRouted`). `WatchingMarks` puts the two together for the entry that is
  watched. `CacheInv` then relates that entry to what the client was told: unmarked data,
  and an answer on its way, are as new as that, unless a fetch that was running took the
  mark away.
- *OperationFollow.* `FollowInv`: the daemon's verdicts are of operations that settled, and
  a click that lost sight of none of its operations has at most one that is not
  over, the one it polls. ClicksMoveOnAndEndsStay says that a click only goes on through its
  stages and its polls, begins again once at most, and ends for good; that an end which the
  dialog has seen is the end of its own bootstrap (`SeenIsTrue`: nothing is left in the
  dialog of one that was lost before); and that only a cancel request changes an end.
- *Terminal.* `TermInv`: each socket has an id of its own and is to the instance on screen
  if it is the current one, any other hangs up as soon as it opens; and what is
  still to be decoded for a screen that is there came from its own shell.
  TerminalKeepsConnecting adds that a terminal on screen holds its current socket or
  has its timer set, so that none is left without a connection for good.
- *The pages.* Each page has one invariant, which says what its requests, its dialog and
  what it has read know of one another: that a save of a form carries the document
  of its origin, that a busy mark has a request, that a log's lines are of the
  source that is followed, that a timer has a creation behind it. Most are about records in a
  set, whose fields a step changes one at a time. ProposedNameStaysFree needs that a
  finite set of numbers has a greatest one (`GreatestOfFinite`), which is proved from the
  theorems about finite sets.

Only model-checked: that the steps can be taken, and are, which the liveness properties wait for
(ComesToRest, CloseEndsStream, Forgotten, Answered, ActiveEnds, DeleteIsAnswered,
BootstrapEnds, CatchesUp, EndsAreHeard, TerminalConnects), and the fairness of
LifecycleSpec. For ComesToRest, VerdictsStand is what an outcome that was reached rests
on. CatchesUp, which repeats for ever, has nothing that only goes on, and no such theorem.
Every safety property of the passing runs is a theorem.

## 6. Findings and observations

Three runs end in a counterexample, and each refutes a sentence of the repository that
`PROJECT.json` ("findings") quotes.

1. `UnmodifiedKeysKept`: a PUT that reads `config.yaml` while another one has truncated
   it writes back its own keys alone (`api/v1/helpers.go:41`).
2. `FailedAddKeepsDrawer`: a node is added without waiting for the answer, so the drawer is
   closed when the daemon refuses it (`ClusterNodesComponent.tsx:251`).
3. `SaveInvalidatesBoth`: a save of the YAML document marks a key that the JSON
   configuration is not under (`useConfigYaml.ts:18`; `instance` there, `instances` in
   `useInstances.ts:58`). For up to five minutes the pages that edit parts of the
   configuration start from the old document, and what they save sends it back.

What modelling showed besides, stated here because no run is about it or because a
property says it only as an exception.

### The daemon

- *Operations.* Nothing repairs the record of an operation that a crash or a shutdown
  interrupted: it says pending or running for ever, although `src/docs/app-states.md:160`
  has "No indefinite waits: Operations timeout explicitly." A cancel request
  ("OperationCancel cancels an operation", `api/v1/handlers_operations.go:48`) is never
  told to the worker, which overwrites it (`operations/operations.go:244`). The managers that
  `async.go` creates have no SSE manager: operations other than bootstraps publish no
  events. Bootstraps never leave "pending" until they end. Delete and Cleanup have no
  caller, so records are kept, although `backup/README.md:180` says that completed
  operations older than a day are purged.
- *Streams.* A stream that subscribes after the last Close, or to an installation that
  never runs a script, waits for ever (`api/v1/handlers_operations.go:118`; :109 has "If
  operation is already completed, send completion signal and return"). Unsubscribe closes a
  channel that Close has closed already; the panic happens in the handler after its
  stream ended and `net/http` recovers it.
- *Event hub.* An unregistration handled before its registration leaves the connection
  registered, with a closed channel (`sse/manager.go:217`), and the next event panics
  `run`, and with it the daemon: DaemonSurvives needs `early = {}`. The handler of a stream
  restarts all watchers of its instance although its comment says "only once per
  instance" (`api/v1/handlers_sse.go:45`). Rate limiter entries of events queued
  before a connection left are kept for ever.
- *Configuration.* A batch that fails halfway keeps its first keys. A crash while
  `yq` copies leaves a torn file that no later request repairs.
- *Discovery.* A cancelled scan goes on, and its next result may write "active" again
  or bring back the status of a scan that was started since. A crash between
  truncate and fill leaves a status that refuses every later start and cancellation;
  there is no caller of ClearDiscoveryStatus. A `/0` subnet expands for ever.
- *Nodes.* A new `target_ip` for a node in production makes every later Apply insecure
  and addressed to the old address, which a configured machine refuses; a forced
  deletion followed by an Add of a configured machine likewise; so does a crash
  between the machine's acceptance and the record. These are the exceptions
  (`blurred`) of ApplyFindsMachine. A failing `yq` is taken for a missing value: a field is
  read as blank, and an Add whose look for the node fails writes over the one that is
  there (`node/node.go:189`, also `blurred`). A machine that cannot be reached at all counts as
  reset. A request that goes on after its node was removed brings back an entry
  without role and disk (`pulled` in EntryIsWhole). After its timeout a deletion has
  answered with an error and may still reset and remove the node later.
- *Cluster.* GenerateConfig takes existing secrets for a finished generation: after a
  failure or crash between `gen secrets` and `gen config` every later call
  answers "generated successfully" with no base configuration (`cut` in
  GenerationsAgree). Reset removes the generated files only: kubeconfig and machines
  stay as they are. A bootstrap that ran out of attempts cannot be
  continued by another, because machines bootstrap once; the record stays failed
  although the cluster may come up. Concurrent bootstraps are not refused; one of
  them fails at `talosctl bootstrap`, after it has moved the talosconfig's endpoint to
  its own node. `waitForNodeRegistration` looks for "Ready" in the output of
  `kubectl get nodes` and is content with "NotReady".
- *Assets.* Downloads that overlap share one temporary file: a torn file may be published,
  and stays when the second download fails, for a file that is there is not fetched again.
  The client's request carries `assets`, the daemon reads `asset_types`: all
  three kinds are downloaded whatever was asked for.

### The web client

- *Cache.* A mark set during a first fetch is lost, because a fetch without data is not
  started again (`overtaken`). Nothing is marked when the connection comes back, so events
  that were lost stay lost. When any hook that listens is unmounted between a break and the
  timer, the timer is cleared and the connection not opened again as long as others listen
  (`stranded`), although `useGlobalSSE.ts:81` says "Auto-reconnect after error with delay".
  Mutations that change what a query shows and neither mark it nor are followed by an event
  (`PassedBy`): the saves of the whole document for each other's copy of it, for the card of
  the instance, the nodes, an app's details and a service's status and configuration; those
  of nodes, apps and services, which change their own part, for all copies of the document;
  nodes for the health page's list of nodes; adding and deleting apps for the secrets; the
  cluster page and the access page for each other's kubeconfig and talosconfig, which have
  keys of their own; everything that starts an operation for the lists of operations (a
  cancellation marks one of three), of which two are polled; instances for the daemon's
  status, which names them; the assets for the PXE pages, which no route serves.
  The setup status is marked by no mutation and polled nowhere: `AppSidebar.tsx:29` says
  "Poll every 10s in sidebar", `services/api/hooks/useSetup.ts:23` sets `refetchInterval:
  false`. Two hooks keep answers of different shape under one key (`useAppBackups`). Among
  the calls that no route serves: the backup schedules and scheduler status, `POST /config`,
  `/config/yaml`, `/api/status`, an instance's PXE assets, the verification of a backup,
  backup statistics. The client subscribes to no `node:*`, `operation:cancelled`,
  `backup:*`, `restore:*` or `talos:*` events.
- *Following operations.* An operation of more than a minute is reported as failed and
  started again, beside the first (`blind`). A closing timer of the bootstrap dialog closes
  one that was opened since. A cancelled bootstrap leaves its dialog in progress. Cancel of the
  operations page addresses no instance. Its counts are those of the filtered list.
- *Forms.* The secrets page keeps one instance's edits when another is chosen, and Save
  sends them there; what is typed is written into the cached object too. A save that is
  repeated goes to the instance then on screen. Cards of the cloud page close as soon as the save
  is sent, and its catch never runs. Edit or Cancel of one cloud card drops the other
  one's typing. The service editor's timer closes an editor that was opened again.
  The central page's "Edit Config" opens empty. What is typed during a save of the YAML
  editor is lost.
- *Domain tests.* The end of one test frees another one's button, so the same test may run
  twice and an older verdict replace a newer. Verdicts stay when the instance
  changes.
- *Apps.* When the config cannot be read the dialog shows defaults, and Save sends them. A
  reading that is answered late replaces or reopens the dialog; one that was opened for an
  instance is saved to the one then on screen. Deploying is possible while a deletion is
  pending. The effect that loads an app's secrets repeats itself when it has none.
  A restore started from the apps page goes, when repeated, to the app then selected.
- *Adding an app.* When the list of apps changes, what was typed is replaced by the proposal.
  The list may be old: the daemon adds an app under a name that is taken and writes over it.
- *Services.* Clean Files is blocked by nothing but itself and frees a busy service
  early (`cleaned`); deletions and Install All are not noted as busy.
- *Logs.* The list of containers arrives after the first fetch, so two fetches overlap;
  a change of container while following mixes lines (`crossed`).
- *Nodes.* The page of workers proposes the role controlplane and a control name, and sends the
  role worker; as only nodes of the role are counted, the same name may be proposed again. A
  typed name that has the form of a proposal is replaced when nodes are read again.
  A controlplane chosen by the user becomes a worker when there are three. Detection of a
  second machine while the drawer is open keeps the first one's values under the second
  one's name. Add and apply, or update and apply, are sent together. A change of role
  to worker keeps the proposed address: the branch that would clear it cannot be reached
  (`NodeForm.tsx:319`, 372). A deletion closes the drawer even if not confirmed.
- *Backups.* The timer that clears the dialog fires half a second after Create, the retry a
  second after a failure: it asks for a backup of no app, of the instance then on
  screen, and its success is announced as one. The timer also clears and closes a dialog opened
  meanwhile. The dialog of a restore keeps the timestamp that was picked when another app is
  chosen. The answer of a restore closes a dialog opened since.
- *Assets.* The pages never poll a download. The ISO page of assets shows the state of the first
  version and downloads the selected one.
- *Terminal.* After `exit` the terminal is dead until a key is pressed.
- Parts of `components/` are used by no page, such as the backup schedules, BackupCard and
  ServiceDetailModal.

## 7. Abstractions, and what is not modelled

- Contents are what properties tell apart: a configuration is the writer of each
  key, a record its status, progress and end, a line of output its number, a secret
  its generation, an address a model value except where ExpandSubnet computes; in the
  client the daemon's state is a version, a document three numbers, a hostname its
  prefix, stem and number, an address its last octet, a file its pieces.
- External programs are modelled from how the code uses them: `yq -i` renames or
  copies its result; `talosctl apply-config` wants the machine at that address and in
  that mode; `talosctl gen` does not overwrite; `talosctl bootstrap` succeeds once;
  `kubectl get nodes` needs the kubeconfig of the current life. `talosctl kubeconfig`
  merges into an existing file; the model keeps which life the file gives access to.
  react-query is modelled by what the hooks rely on: retries, restart of a marked fetch
  that has data, polling, callbacks of the last request of a mounted hook. So are the
  browser's EventSource, WebSocket and timers.
- `Garbage` stands for whatever two fills leave; it never parses. (Two JSON documents
  of equal length would, and would then be one of the two, which the model has.)
- The methods of `Broadcaster` are atomic: they hold its mutex. Replaying a log is one
  step: lines that a script writes during it are either replayed or in the window.
- The token counts and filters of the hub's rate limiter are a free choice for each
  event; heartbeats are left out.
- Discovery takes one subnet a request; the list of local networks that a request
  without a subnet scans is another such set.
- A panic in a bootstrap's goroutine, which nothing recovers, is a Crash. After a
  crash the daemon starts again and looks at nothing; requests that had not come
  yet come to the new one.
- `Cluster` leaves out cancel requests of a bootstrap (they are in `Operations`), and
  treats a missing address or VIP as a command that fails.
- `WebCache` follows one query at a time, under the mutations of all screens and the events
  of the hooks on its own: queries share nothing else. A timer's period does not count, but for the order of the daemon's
  ticks and an answer. Of a mutation it matters what it is to that query, so that two mutations
  which change and mark the same are one. Caches that are dropped after a time are a free choice at the next visit.
- `Assets` has one schematic and one platform. Deleting is one step; a loss of power, which
  could lose what was renamed but not synced, is left out.
- In the page modules what is not sent and blocks nothing is left out: tabs, filters, texts.

Not modelled, and why:

- *Services, apps, backup and restore, dnsmasq* of the daemon: sequences of external
  commands over rendered files, one after the other in one goroutine. Their results lie
  in kubectl, databases and dnsmasq; their operations run as `Operations` has them.
- *Instances, context*: one directory made or removed and a file with a name. A
  goroutine of a deleted instance may bring its directory back; every module here takes the
  instance as existing.
- *Secrets*: the locked writes are `ConfigStore`'s; EnsureSecret's check outside the lock,
  like EnsureConfigValue's, is not modelled: two callers may generate two values.
- *Watchers*: what they do is decided by the output of two commands.
- *PXE, setup, tools, network, utilities, data paths*: they keep nothing or change
  nothing that others read.
- *Command line client*: it prints what it receives.
- *Widgets, layout, and pages that only show*: there is no state to get wrong. Parts of
  pages, such as an app's secrets or the discovery panel, are named in the components'
  notes.

## 8. What could follow

1. Every safety property of the runs is a theorem, and so is what most liveness
   properties rest on. What a proof could still add: a refinement of a "mark or show"
   cache by `WebCache` for all queries at a time.
2. `Instances` with secrets and context: creation and deletion in steps, composed with
   `Operations` as the owner of the directory that records live in.
3. `Apps` and `Services` of the daemon over local files, config and cluster, one external
   step failing at a time, with the property that the derived status agrees with what is
   deployed; then `AppPages` could take its apps from there.
4. `ConfigForms` over `ConfigStore`: a save of the client is a PUT, and could be lost to either.

## 9. How to run

    tlasany Operations.tla
    tlc -workers 2 -config MCOperations.cfg MCOperations
    tlapm OperationsProofs.tla

and likewise for the other modules; a configuration is named after the module it
instantiates, with a suffix when it is a counterexample. `Pages` in `MCWebPages.cfg`
can be cut down to explore a single page.
