# Verification of the Che plugin brokers

TLA+ models, TLC runs and TLAPS proofs for the two plugin brokers of Eclipse
Che.  A *broker* is a short-lived process that runs while a workspace starts:

* the **metadata broker** runs before the workspace's pod exists.  It fetches
  the `meta.yaml` of every plugin asked for, decides which sidecar containers
  the pod needs and with what in them, and sends that *tooling* to Che master;
* the **artifacts broker** runs as an init container of the pod.  It brings the
  persistent volume `/plugins` in line with the plugins asked for: it removes
  what is no longer wanted and downloads what is missing.

Both report their progress as events over a JSON-RPC tunnel and end; Che master
acts on `DONE` or `FAILED`.

## Inventory

| Part (source) | State | Operations | What makes it correct |
|---|---|---|---|
| Artifacts broker (`brokers/artifacts`) | on the volume: archives, `installed.json`; in memory: lists of `CachedPlugin` | read and remove the index, wipe the directory, uninstall, keep or drop extensions, download, write the index | the index never vouches for what is not there; `DONE` means that every extension is available; nothing stale stays; downloads are reused; a start ends, and a later one recovers |
| Metadata broker (`brokers/metadata`) | list of metas, runtime injection, list of `ChePlugin` | fetch, validate, find the injection, merge, provision each sidecar, publish | every plugin asked for is served, every sidecar is equipped once, other containers are left alone |
| Plugin merging (`utils/mergeplugins`) | a Go map from images to plugins, two result lists | sort, merge one image | no plugin lost or duplicated; the merged plugin provides what its parts ask for |
| Events and the end of the process (`common`, `cmd/main.go`, the vendored `che-go-jsonrpc`) | tunnel state, channel, write loop, read loop, connection | publish, write, answer, close, exit, `log.Fatal` | events in order, one result, nothing left behind, closed once, the process ends |
| Meta resolution and validation (`utils/metadata_resolver.go`, `utils/validator.go`) | none | choose a URL, fetch, fill in the id, validate, resolve relative paths | a meta always has an id; an invalid list gives no tooling |
| Names (`utils/plugin_names.go`) | none | sanitise ids, names and images | two plugins should not share a directory (they may: see the findings) |
| Collisions (`utils/dependencies.go`) | none | warn of an extension in several plugins | whatever two plugins of the result share has been warned of |
| Configuration (`cfg`), certificates (`common/connect.go`) | settings | parse flags and the plugin list, read certificates, connect | a process that cannot start ends; a list that cannot be parsed is reported before it does |
| Files and downloads (`utils/ioutil.go`), random names (`common/random.go`) | none | I/O | a call that fails half way is seen as a failure by its caller |
| A workspace's starts (both brokers) | the volume, the tooling | metadata broker, pod, artifacts broker, stop, start again | sidecars find their extensions where they were told to look |

**Interaction.** `main` builds a broker, connects the tunnel and subscribes it
to the broker's bus; `Start` publishes on the bus, whose one consumer hands each
event to the tunnel's unbuffered channel.  The write loop and the read loop are
goroutines of their own.  The two brokers never talk to each other: they meet
through the plugin list (both fetch and, if told to, merge the same metas) and
through names (the directory one writes to is the one the other tells a sidecar
to read).

**What is hard here.** A volume that outlives a process which may die between
any two of its calls; calls whose failure is only logged; loops over Go maps,
whose order differs from run to run; main, write loop and read loop closing one
channel while the connection breaks; structs copied by value whose slices are
shared.  `PROJECT.json` lists each hazard at its line with the properties that
would catch it.

## Modules

```
PluginCache            what the artifacts broker promises
  <- ArtifactsBroker   the artifacts broker, step by step
       <- ArtifactsBrokerProofs <- SyncProofs
       <- MCArtifactsBroker
Report                 what Che master may rely on
  <- BrokerEvents      main, the tunnel and its loops
       <- BrokerEventsProofs
MergePlugins           the two loops of a merge
  <- MCMergePlugins
  <- MergePluginsProofs (with ListLemmas, FoldLemmas)
  <- MetadataBroker    the metadata broker, step by step
       <- MCMetadataBroker
       <- MetadataBrokerProofs (with MergePluginsProofs)
       <- Workspace    MetadataBroker, then PluginCache, on one volume
            <- MCWorkspace
            <- WorkspaceProofs (with MetadataBrokerProofs)
```

`Report` and `PluginCache` are abstract specifications.  `BrokerEvents` and
`ArtifactsBroker` instantiate them with a refinement mapping and state that they
implement them; TLC checks it and TLAPS proves it.  `Workspace` can therefore use
`PluginCache` in the place of the artifacts broker.

### PluginCache

A set of pairs of a directory and an extension that is complete in it
(`available`), what the current start has to provide (`wanted`) and how far it is
(`phase`).  Nothing changes before a start knows what is wanted or after it has
ended; while it syncs, things may go and what is wanted may come; it is successful
only with everything there.  In `ArtifactsBroker` the three are `Available`,
`Wanted` and `Phase`: partial files, names, the index and crashes do not show.

### ArtifactsBroker

`disk` gives the content of every path: absent, an extension, or `Partial` (a
file that is not complete).  `installedJSON` is the index.  `pc` is the place in
`Start`, and `toInstall`, `data`, `installed`, `idx`, `visited`, `entries`,
`copying` are the local variables of the functions it calls.  A step is one call
that touches the volume, so that a crash (`Crash`: the pod is evicted, or
publishing an event on a closed tunnel ends the process) can come between any
two.  Calls fail through `Inject(kind)`; `MaxFaults` bounds the failures and
crashes of one behaviour, and nothing bounds the number of starts.

| Actions | Code |
|---|---|
| `Start`, `GetPlugins` | `main`; `Broker.Start` up to the plugin list, `convertMetasToPlugins` |
| `ReadIndex`, `RemoveIndex`, `CheckIndex` | `readInstalledPlugins`, `checkInstalledPluginsFilePaths` |
| `GlobPlugins`, `RemoveEntry`, `ResetDone` | `resetPluginsDirectory` |
| `Uninstall`, `ResolveExtension`, `NextInstalled`, `PrepareDone` | `preparePluginsToInstall`, `removePlugin`, `findPlugin` |
| `BeginPlugin`, `BeginCopy`, `DownloadFails`, `InjectPluginFails`, `EndCopy`, `EndPlugin`, `ProcessDone` | `ProcessPlugin`, `downloadArchive`, `injectPlugin`, `CopyFile` |
| `BeginWrite`, `EndWrite` | `writeInstalledPlugins` and the end of `Start` |

The order of a map iteration is a choice of the next key.  An archive name is
ten random letters; the model takes it to be new (`FreshPath`).  `FileName` has
as many names as a directory has room for: when they are used up, the volume is
full and nothing more can be copied there.

### Report

The kinds of the events the master has heard, whether the line to the broker is
up or lost, and how the process ended.  `MayFollow` is the grammar of a report:
`STARTED`, logs, then `DONE` or `FAILED`; `FAILED` may come first, and is followed
by one log that explains it.  With the line up, a process ends with status 0 only
after `DONE` and with a failure only after `FAILED`.

### BrokerEvents

`Parse`, `ConfigureCertPool`, `Connect` and `ParsePluginFQNs` are what main does
before a broker's `Start`; `StartUpFails` is `log.Fatal` in one of the first
three.  With `disable-push` there is no tunnel (`link = "none"`), and events go
nowhere (`PublishUnheard`).  Then there are main, the write loop and the read loop, the channel between them and the
connection.  `Steps` (`PubStarted`, `PubFailed`, `PubDone`, `PubLog`) is the
table of what main publishes and where it goes next; `Publish` is the rendezvous at the channel; `CloseOnce`, `CloseOut`,
`Drained` are the three parts of `closeOnce` (compare-and-swap, close of the
channel, wait and close of the connection), taken by main or by the read loop.
The process ends in `Exit` (`main` returns, or calls `log.Fatal` on the error of
`Start`), `Die` (the configuration cannot be parsed), `PublishOnClosed`
(`Accept` calls `log.Fatalf`) or `AnswerOnClosed` (the read loop panics).
`MaxLogs` and `MaxRequests` bound the log events and the requests of the master.
`published` and `received` are history variables; an event is `received` when its
`Write` has succeeded on a connection that is up.  A write that the operating
system accepts for a connection already lost counts as failed: the effect is the
same.

### MergePlugins

The two loops of `MergePlugins`: `SortPlugin` sorts one plugin, `MergeImage`
merges one image, whichever the map iteration comes to.
`mergePluginsForImage` is an operator on the list of plugins; its helpers are
named after the parts of a plugin they add.  `Add` holds what the `*Mergeable`
functions have in common: the first entry that *clashes* with the new one
decides, by *agreeing* or not.  A string is a member of `Word`, a quantity a
number, `Unset` or `Malformed`.  `MergedLists` is the set of the lists that a call
may return, by the order of the map iteration; `MergedAsListed` checks the loops
against it, and `Workspace` uses it for the second call, in the other process.

### MetadataBroker

Extends `MergePlugins` (whose variables are the state of the call while `pc` is
`"merge"`) with a start of the metadata broker: one step for each fetch, for the
check of the list, for each iteration of the merge and for each call of
`ProcessPlugin`.  `AddPluginRunnerRequirements` works on the container in place
and returns a changed copy of the meta that `ProcessPlugin` drops;
`RunnerContainer` is what remains of it.  `collisions` is what
`GetExtensionCollisions` has found for the log.

### Workspace

Extends `MetadataBroker` with what comes after it.  `stage` says which of the two
brokers runs, or whether the workspace does.  `StartPod` is the master's step from
the published tooling to the pod; `PrepareArtifacts` is the artifacts broker up to
its plugin list (the metas once more, `ResolveRelativeExtensionPaths`,
`MergePlugins` with an order of its own, `convertMetasToPlugins`);
`ProcessArtifacts`, `ArtifactsDone` and `ArtifactsFail` are steps of `PluginCache`,
which has its variables in this module.  Either broker may die or fail at any step,
a workspace stops, and the next start has other plugins and other settings and the
same volume.  The two brokers of a start have the same settings, and the registries
serve both the same metas.  `PluginsPath` and `ArtifactsPath` are the two ways to
name a plugin's directory, from its publisher, name and version and from its id; a
word that is the value of both stands for one directory.

## Runs

| Run | Question | Instance |
|---|---|---|
| `artifacts_faults` | Do the index and the result of a start stay sound, whatever fails? | (also: does the broker implement `PluginCache`?) two plugins, local or remote, up to two extensions each (one shared), one list with a plugin twice; files of an earlier version; three failures of any kind |
| `artifacts_tidy` | Is the index exact, is nothing stale kept and nothing downloaded twice? | lists with one extension per plugin; three failures of the kinds that do not stop a removal |
| `artifacts_recovery` | Does every start end, and do later starts recover? | a full volume, repeated plugins, two failures of any kind, fairness |
| `artifacts_second_file` | Are out-of-date plugins removed? (No.) | a local plugin with two extensions, then none; no failure |
| `artifacts_shared_name` | Is a unique name unique? (No.) | two remote plugins with one directory name; no failure |
| `broker_events` | Does the master learn everything, once and in order, and does the process end? | (also: does it implement `Report`?) with and without a tunnel, three log events, two requests, a connection that may break at any time, fairness |
| `merge_plugins` | Are plugins neither lost nor changed by merging? | all lists of up to three of eleven plugins that agree, clash or overlap in one way each; every map order |
| `metadata` | Is every plugin served, every sidecar equipped, every shared extension announced? | all requests of up to three from registries with eleven metas, valid or not, with every setting of merging, localhost and default registry |
| `metadata_endpoints` | Does a remote sidecar get its endpoint? (No.) | the same, `use-localhost-in-plugin-urls` off |
| `metadata_collisions` | Is every warning about an extension true? (No.) | the same, `merge-plugins` on |
| `workspace` | Do the sidecars find their extensions, and does every start end? | seven requests, with plugins that merge, that do not, that have no sidecar, and with relative extensions that can and cannot be resolved; every setting of merging and default registry; any number of starts, fairness |
| `workspace_ids` | And with an id that is not made of publisher, name and version? (No.) | three requests with such a plugin, merged or not |

Why these bounds are enough: two plugins and two paths per directory are what an
interference between plugins or between files needs; three failures allow one
that leaves a state behind, one while the next start repairs it, and one more;
the indices of `idx` and the loops show nothing new on longer lists, and the
invariants of the first three runs and of the runs of merging, of provisioning and of
both brokers are proved for lists of any length.  Three log events
fill the channel, the write loop and the queue of the main goroutine.  Merging
treats images one by one and adds plugins one after the other: a third plugin
clashes with what the first two have left, and two images show that one failing
merge does not disturb the other.  `workspace` has one image, since two add
nothing to the question where extensions are; its requests share plugins with each
other, so that a start finds on the volume what it wants, what it does not, and
what it wants in another directory.

The artifacts model never ends (a workspace may always start again), and the
other models stutter once they have ended, so that deadlock is checked in every
run.

### Findings

1. `artifacts_second_file`: `removePlugin` returns in the first iteration of its
   loop (`src/brokers/artifacts/cache.go:143`), so a local plugin with several
   extensions leaves all but one on the volume when it is uninstalled.
   `NoStaleArtifacts` holds when a plugin has one extension (`artifacts_tidy`).
2. `artifacts_shared_name`: `ConvertIDToUniqueName` is not injective, and
   uninstalling one plugin removes the directory of the other.  The theorems
   assume `NamesDistinct` for this reason.
3. `metadata_endpoints`: `ProcessPlugin` drops the meta that
   `AddPluginRunnerRequirements` returns, and the endpoint and the workspace
   variable with it (`src/brokers/metadata/broker.go:135`).
4. `workspace_ids`: `THEIA_PLUGINS` names a directory after publisher, name and
   version, `injectPlugin` fills one named after the id.  When the id has another
   form, and the plugin is not merged (a merged plugin has a new id, of that
   form), the workspace runs and the sidecar finds nothing.
   `SidecarsFindExtensions` holds when ids have that form (`workspace`).
5. `metadata_collisions`: the warning about extensions that will be there several
   times is computed before merging, and is given too when there will be one.
   The converse holds: nothing that is there twice goes without a warning
   (`DuplicatesAnnounced` in `metadata`).

## Fairness

* `ArtifactsBroker`: `WF_vars(BrokerStep)`.  A process that runs is scheduled
  and its calls return, with success or not.  Nothing is assumed about anyone
  starting a broker; `Recovery` says what follows *if* starts go on.
* `BrokerEvents`: weak fairness of main, of the write loop and of the read loop.
  The Go scheduler runs every goroutine that is not blocked, and a write to the
  connection completes or fails.  The connection need not break, and the master
  need not send anything.  A master that stops reading without closing the
  connection is outside this assumption: `Write` sets no deadline, and main
  would wait for ever.
* `Workspace`: weak fairness of the metadata broker, of the master's step to the
  pod, and of the artifacts broker up to its plugin list (`Brokering`), and of
  `ArtifactsDone \/ ArtifactsFail`: that a sync ends one way or the other is
  `Terminates`, which `artifacts_recovery` checks of the detailed broker.  Nobody has
  to start a workspace again.
* `MergePlugins` and `MetadataBroker` state safety only.

## Proofs

`ArtifactsBrokerProofs`, for any plugins, requests, names, files and any number
of failures:

* `TypeCorrect`: `Spec => []TypeOK`.
* `CacheInvariant`: `NamesDistinct => (Spec => []CacheInv)`.
* `IndexIsSound`, `RequestedIsAvailable`: the two safety properties of
  `artifacts_faults`.

`IndexSound` is not inductive: that the index written by `EndWrite` is sound
depends on every path collected since the index was read.  `CacheInv` says, for
each phase of a start, what has been established: before the index has been
dealt with no path is filled in (`NotBegun`); the copy of the index in memory is
as sound as the index was, because the volume has not changed since
(`DataSound`); the installed extensions not yet looked at are whole if their
plugin is still requested, and none of them has been handed over
(`InstalledIntact`); the file being written belongs to nobody else
(`CopyFresh`); whatever path is filled in leads to the whole extension
(`FilledWhole`); the plugins the loop has left behind are complete
(`ProcessedComplete`).  The critical step is `Uninstall` of a remote plugin,
which removes a directory: it spares the others' files only if directories are
not shared, which is `NamesDistinct`.  Assumptions: `ConstantsAssumption`, and
`NamesDistinct`, which `artifacts_shared_name` shows to be needed.

* `CacheImplemented`: `NamesDistinct => (Spec => ImplementsCache)`.

For `CacheImplemented`, each step is shown to be a step of the cache or to change
none of `Available`, `Wanted` and `Phase`.  It needs `CacheInv` (what `Uninstall` removes is not what a
plugin was told to keep, and a start that ends has everything) and `CopyPartial`:
the file that `EndCopy` completes is partial until then, so that completing it
makes no other extension unavailable.

`BrokerEventsProofs`, for any number of log events and requests:

* `EventsTypeCorrect`, `ChannelClosedByOne`, `EventsInOrder`, `EventsFlushed`,
  `ResultIsDelivered`, `PanicIsLate`: the safety properties of `broker_events`.
* `EventsInvariant`: `Spec => []EventsInv`.
* `ReportImplemented`: `Spec => ImplementsReport`.

The argument has three layers.  `ClosedBy`, `CloseOrder` and `ClosedByOne`:
whoever wins the compare-and-swap closes channel, write loop and connection in
that order, once, and the read loop does so only on a connection that is lost and
with no request left to answer.
`InOrder` and `NothingLost`: while the connection is not lost, the master is
behind by the one message in the hands of the write loop; a message is dropped
only on a lost connection, since one closed here is closed after the write loop
has ended.  `PublishedSoFar`: what main has published
at each of its steps.  The
result then follows at each end of the process: `Exit` comes after `Close`,
which has waited for the write loop; `Die` comes without closing, and `FAILED`
has arrived because the log event after it was accepted; `PublishOnClosed`
happens on a lost connection only; `AnswerOnClosed` comes when the read loop has not
closed the tunnel itself, so that main has, with its result published
(`PanicsLate`).  For `ReportImplemented`, `FitsReport` says that
the event in the hands of the write loop is one that may come next in the report.
Assumptions: `BoundsAssumption`,
`NoneAssumption`.

`SyncProofs` extends `ArtifactsBrokerProofs` to the properties of
`artifacts_tidy`, whose hypotheses are what that run's constants satisfy:

* `IndexIsExact`: when reading and removing the index cannot fail
  (`Fault \intersect {"read", "removeIndex"} = {}`).  `ExactInv` adds to
  `CacheInv` that the index is gone whenever the volume may differ from it
  (`IndexGone`).
* `DownloadsAreReused`: when no request asks twice for a plugin (`AskedOnce`).
  `ReuseInv`: an installed extension that the loop of `preparePluginsToInstall` has
  left behind, and whose plugin is still requested, has handed over its path
  (`HandedOver`), and no path is taken back.
* `NothingStaleIsLeft`: when listing and removing files cannot fail
  (`Fault \intersect {"glob", "remove"} = {}`) and every request is `Orderly`: it
  asks for a plugin once, and for at most one file of a plugin without a sidecar,
  which `artifacts_second_file` shows to be needed.  `TidyInv` says of every file
  on the volume who answers for it: an index that can be read, the list of entries
  to wipe, the installed extensions still ahead, a requested plugin, or the copy
  under way.

`SyncInv` joins these invariants; `artifacts_tidy` checks it, and `SyncInvariant`
proves it under the hypotheses of all three.

`MergePluginsProofs`, for any list of plugins, of any length:

* `MergeInvariant`: `Spec => []MergeInv`.
* `MergeKeepsTypes`, `NothingIsLost`, `MergedPluginsProvide`,
  `CompatiblePluginsMerge`, `MergedListsOnly`: the five properties of
  `merge_plugins`.

The last three depend on how the loops came to their lists.  `MergeInv` says that
the groups are `Filter`s of what has been sorted (`GroupsSorted`), that the images
visited so far have each been merged once, if they can be (`GroupsMerged`), and that
there is an order of these images by which `unmodified` and `merged` are what
`UnmodifiedOf` and `MergedOf` say (`SomeOrder`).  What a merged plugin has is a fact
about folds.  `FoldLemmas` says what a fold gives for the empty list and for one
element more, for `FoldLeft` and for a recursive function over prefixes; it has the
operation as a constant, and `MergePluginsProofs` instantiates it for each operation
of the model.  From there, `AddAllNamed`, `AddAllMounted` and `AddAllEqual` say of
the lists of a merged plugin that they have all that the parts ask for, contradict
nothing, and are refused only if two entries disagree.  `ListLemmas` has the facts
about `FlattenSeq` and the induction principles.  Those of the library have an
operator parameter, which the provers cannot instantiate; here they are stated with
sets (a set with 0 that is closed under successor has all numbers; likewise for
sequences), and a proof by induction names the set of the inputs that have the
property.

Assumption: `MergeAssumption`.  It says that the constants are of their types, and
that `Unset`, `Malformed` and `Conflict` are none of the values they are
distinguished from (in Go an empty string, an error of the parser, an error
result).

`MetadataBrokerProofs`, for any requests, registries, settings and editors:

* `MetadataInvariant`: `StartSpec => []MetadataInv`.
* `StartKeepsTypes`, `EveryPluginIsServed`, `DuplicatesAreAnnounced`,
  `OthersAreUntouched`: properties of `metadata`, with no further hypothesis.
* `SidecarsAreEquipped`: when the metas of the registry leave the broker's own
  names free (`NamesLeftFree`: no container has a variable `THEIA_PLUGINS` or
  `THEIA_PLUGIN_ENDPOINT_PORT` of its own, and none, init containers included, the
  plugins volume).  The code does
  not look for them: a `meta.yaml` that has one gets it twice.
* `RuntimeIsInjected`: when the che-theia editors of a request bring the same init
  containers, of which one is the injector and names its first volume
  (`EditorsAlike`; the broker takes the first editor), when no container has the
  injector's variable or volume of its own (`InjectionLeftFree`), and when that
  volume is not the plugins volume (`InjectedApart`).

`MetadataInv` joins `MergeInv` with where the metas come from (`MetasChecked`: each
is the identified meta of what is served for its place in the request, none is
missing once fetching is over; collisions and injection are those of the metas), with what merging was given and has returned
(`MetasMerged`), and with `MetasProcessed`: plugin by plugin the tooling is what
`ProcessPlugin` makes of the metas.  `EveryPluginServed` and
`DuplicatesAnnounced` then follow from what merging keeps (a plugin of the result is
one of the metas or the merge of a group of them, and its extensions are theirs);
`OthersUntouched` from `Accounted` at the end of the merge, and a count through
`ConvertMetaToPlugin`; the other two from the containers of merged plugins having
no entry that none of the parts had.  Assumptions: `MergeAssumption` and
`MetadataAssumption`.  The instance of
`metadata` satisfies the hypotheses of the last two theorems: a request has one
editor at most, with one injector or none, and only the injector uses the names that
are to be left free.

`WorkspaceProofs`, for any requests, registries and settings, and any number of
starts on one volume:

* `WorkspaceInvariant`: `WorkspaceSpec => []WorkspaceInv`.
* `WorkspaceKeepsTypes`: the type invariant of `workspace`.
* `ExtensionsAreFound`: `SidecarsFindExtensions`, when `NamesLeftFree` holds (see
  above) and the two names of a directory agree (`PathsAgree`: for titles, and for
  the id of a plugin with a sidecar that a request may ask for).  The instance of
  `workspace` satisfies both; that of `workspace_ids` fails `PathsAgree`, and the
  property with it.

`WorkspaceInv` says that the metadata broker is in a state of `MetadataInv`, and has
ended when there is a pod, or that nothing is left of the last start
(`Provisioning`); and that what the artifacts broker wants is what one order of the
images makes of the resolved metas, all of it available when the workspace runs
(`Installing`).  The lemmas on the steps of `MetadataBroker` are cited as they are.
`ExtensionsAreFound` compares two calls of `MergePlugins` that share no state and come
to the images in different orders.  `ListedHas` says of every list that a call may return
(`MergedLists`) that each plugin of the argument is in it, as it is or in the merge
of its image's group, which depends on the list and not on the order.
`ResolvedGroup` and `ResolvedMerges` say that resolving extensions changes neither
the groups nor whether they are merged, since an extension is never in conflict.  So
a plugin is left alone in both brokers or merged in both, with the same first title,
and `MergeGood` gives the merged plugin of the second the resolved extensions of
each part.  Assumptions: those of `MetadataBrokerProofs` and `WorkspaceAssumption`.

**Only model-checked.**  All liveness properties (`Terminates`, `Recovery`,
`Exits`, `StartEnds`): liveness under fairness is beyond the
prover.  Every invariant and every action property of a passing run is proved.

## Not modelled

* JSON, YAML, HTTP, archives, flags, certificates: formats and libraries; a step
  may fail where they may.  Of `utils/ioutil.go`, the functions that neither
  broker's start calls (`Unzip`, `Untar`, `CopyResource`, `CreateFile`)
  have no state of a broker to act on.
* How a name is sanitised and which letters a random name has: the models have the
  functions and the sets of their results as constants, and what depends on them
  (that names are distinct, that two names of a directory agree) is an assumption
  that a violated run shows to be needed.
* The text of logs and of the plan, and the flag that prints them.
* Acknowledgements and deadlines: the protocol has none, so that a broker which
  loses its connection while it writes `DONE` ends like a successful one, and a
  master that stops reading blocks it.  No property of the brokers can say more.
* A registry that changes between the two brokers of a start, or whose URL serves
  another file than before: it is not part of the repository, and nothing there
  says what should follow.
* `Makefile`, Docker and CI files, test mocks.

## Plan

Done: the models above with their abstract specifications and their composition,
their runs, and the proof of every safety property that a run checks.

What could follow is about the hypotheses.  `NamesDistinct`, `Orderly` and
`PathsAgree` are needed (a run shows each); `NamesLeftFree`, `EditorsAlike`,
`InjectionLeftFree` and `InjectedApart` are promises of the registry, and there is no
run that shows what follows without them, since neither the code nor a document says
what should.
