--------------------------- MODULE ArtifactsBroker ---------------------------
(***************************************************************************)
(* The artifacts broker (src/brokers/artifacts): an init container that    *)
(* brings the /plugins volume of a workspace in line with the plugins the  *)
(* workspace asks for.  The volume outlives the container; the broker's    *)
(* memory does not.  One broker runs at a time, and it may die between any *)
(* two of its calls to the file system: log.Fatalf on a closed tunnel, an  *)
(* eviction, a node failure.  The next start finds what the last one left. *)
(*                                                                         *)
(* A step of this module is one call that touches the volume (or one       *)
(* network call), with the computation that surrounds it.                  *)
(***************************************************************************)
EXTENDS Naturals, Sequences

CONSTANTS
  PluginID,       \* plugin ids (model.PluginMeta.ID)
  Extension,      \* extension URLs
  UniqueName,     \* utils.ConvertIDToUniqueName: PluginID -> directory name
  Root,           \* the directory /plugins itself
  FileName,       \* archive names; as many as the volume holds per directory
  Request,        \* the plugin lists a start may ask for
  Leftover,       \* files an earlier version may have left on the volume
  Fault,          \* the kinds of failure the environment may inject
  MaxFaults,      \* bound: how many failures one behaviour contains
  SidecarsEntry,  \* /plugins/sidecars as an entry of /plugins
  IndexEntry,     \* /plugins/installed.json as an entry of /plugins
  NotDownloaded,  \* the empty path ""
  Absent,         \* content of a path where there is no file
  Partial         \* content of a file that is not, or no longer, complete

Sidecar == {UniqueName[id] : id \in PluginID}
Dir == Sidecar \union {Root}
Path == [dir : Dir, name : FileName]
Content == Extension \union {Absent, Partial}

(* model.CachedPlugin: CachedExtensions maps an extension URL to its path. *)
CachedExtensionMap ==
  UNION {[urls -> Path \union {NotDownloaded}] : urls \in SUBSET Extension}
CachedPlugin ==
  [ID : PluginID, IsRemote : BOOLEAN, CachedExtensions : CachedExtensionMap]

(* What a start is asked for: plugins with nothing downloaded yet.         *)
RequestedPlugin ==
  {p \in CachedPlugin :
     \A url \in DOMAIN p.CachedExtensions :
       p.CachedExtensions[url] = NotDownloaded}

(* installed.json: missing, not parseable, of another version, or current. *)
InstalledJSON ==
  [state : {"absent", "malformed", "old", "current"}, plugins : Seq(CachedPlugin)]
NoInstalledJSON == [state |-> "absent", plugins |-> <<>>]
MalformedJSON == [state |-> "malformed", plugins |-> <<>>]

FaultKind ==
  {"crash", "fetch", "read", "removeIndex", "glob", "remove",
   "download", "copy", "write"}

ASSUME ConstantsAssumption ==
  /\ UniqueName \in [PluginID -> Sidecar]
  /\ Root \notin Sidecar
  /\ Request \subseteq Seq(RequestedPlugin)
  /\ Leftover \subseteq Path
  /\ Fault \subseteq FaultKind
  /\ MaxFaults \in Nat
  /\ {NotDownloaded, SidecarsEntry, IndexEntry} \intersect Path = {}
  /\ SidecarsEntry # IndexEntry
  /\ Absent # Partial
  /\ Absent \notin Extension
  /\ Partial \notin Extension

-----------------------------------------------------------------------------
VARIABLES
  disk,           \* the files of /plugins: the content of every path
  installedJSON,  \* /plugins/installed.json
  pc,             \* what the broker does next; "down" when none runs
  toInstall,      \* the requested plugins, whose paths fill up
  data,           \* bytes of installed.json read by readInstalledPlugins
  installed,      \* the list readInstalledPlugins returned
  idx,            \* index of the loop that runs, over installed or toInstall
  visited,        \* keys the inner map iteration has been through
  entries,        \* directory entries resetPluginsDirectory has yet to remove
  copying,        \* <<url, path>> while CopyFile writes path
  faults          \* failures so far

volume == <<disk, installedJSON>>
memory == <<toInstall, data, installed, idx, visited, entries, copying>>
vars == <<volume, pc, memory, faults>>

Stopped == {"down", "done", "failed"}
Running ==
  {"fetch", "read", "removeIndex", "check", "glob", "reset", "prepare",
   "process", "extensions", "copy", "write", "writing"}

(* Entries of /plugins as filepath.Glob lists them: files of the directory *)
(* itself, the directory of all sidecars, and the index.                   *)
Entry == Path \union {SidecarsEntry, IndexEntry}

TypeOK ==
  /\ disk \in [Path -> Content]
  /\ installedJSON \in InstalledJSON
  /\ pc \in Stopped \union Running
  /\ toInstall \in Seq(CachedPlugin)
  /\ data \in InstalledJSON
  /\ installed \in Seq(CachedPlugin)
  /\ idx \in Nat \ {0}
  /\ visited \subseteq Extension
  /\ entries \subseteq Entry
  /\ copying \in IF pc = "copy" THEN Extension \X Path ELSE {<<>>}
  /\ faults \in 0 .. MaxFaults

Init ==
  /\ \E left \in SUBSET Leftover :
       disk = [p \in Path |-> IF p \in left THEN Partial ELSE Absent]
  /\ installedJSON \in {NoInstalledJSON, [state |-> "old", plugins |-> <<>>]}
  /\ pc = "down"
  /\ toInstall = <<>>
  /\ data = NoInstalledJSON
  /\ installed = <<>>
  /\ idx = 1
  /\ visited = {}
  /\ entries = {}
  /\ copying = <<>>
  /\ faults = 0

-----------------------------------------------------------------------------
(* Helpers *)

(* A failure of the given kind happens in this step.                       *)
Inject(kind) ==
  /\ kind \in Fault
  /\ faults < MaxFaults
  /\ faults' = faults + 1

NoFault == UNCHANGED faults

(* What a process knows before it has done anything.                       *)
FreshMemory ==
  /\ toInstall' = <<>>
  /\ data' = NoInstalledJSON
  /\ installed' = <<>>
  /\ idx' = 1
  /\ visited' = {}
  /\ entries' = {}
  /\ copying' = <<>>

(* injectPlugin: where the artifacts of a plugin live.                     *)
PluginDir(plugin) ==
  IF plugin.IsRemote THEN UniqueName[plugin.ID] ELSE Root

(* Mutant: findPlugin without the comparison of IsRemote.                  *)
SameID(p, q) == p.ID = q.ID

(* findPlugin compares ID and IsRemote.                                    *)
SamePlugin(p, q) == p.ID = q.ID /\ p.IsRemote = q.IsRemote

(* findPlugin: i is the first of the plugins that matches the query.       *)
FirstMatch(i, query, plugins) ==
  /\ i \in DOMAIN plugins
  /\ SamePlugin(plugins[i], query)
  /\ \A j \in 1 .. i - 1 : ~SamePlugin(plugins[j], query)

NoMatch(query, plugins) ==
  \A i \in DOMAIN plugins : ~SamePlugin(plugins[i], query)

Urls(plugin) == DOMAIN plugin.CachedExtensions

(* The list with the path of one extension filled in.                      *)
WithPath(plugins, i, url, path) ==
  [plugins EXCEPT ![i] =
     [ID |-> plugins[i].ID, IsRemote |-> plugins[i].IsRemote,
      CachedExtensions |-> [plugins[i].CachedExtensions EXCEPT ![url] = path]]]

(* The path of the i-th plugin's extension url.                            *)
PathOf(plugins, i, url) == plugins[i].CachedExtensions[url]

(* The paths a list of plugins refers to.                                  *)
Referenced(plugins) ==
  {p \in Path : \E i \in DOMAIN plugins : \E url \in Urls(plugins[i]) :
                   PathOf(plugins, i, url) = p}

Exists(path) == path \in Path /\ disk[path] # Absent

Removed(paths) == [p \in Path |-> IF p \in paths THEN Absent ELSE disk[p]]

InDir(dir) == {p \in Path : p.dir = dir}

(* os.RemoveAll: all of the tree, or any part of it when it fails.         *)
RemoveTree(paths) ==
  \/ disk' = Removed(paths) /\ NoFault
  \/ Inject("remove") /\ \E some \in SUBSET paths : disk' = Removed(some)

(* os.Remove: the file, or nothing when it fails.                          *)
RemoveFile(path) ==
  \/ disk' = Removed({path}) /\ NoFault
  \/ Inject("remove") /\ UNCHANGED disk

-----------------------------------------------------------------------------
(* Start, up to the plugin list *)

(* main: a new process, with nothing in memory.                            *)
Start ==
  /\ pc \in Stopped
  /\ pc' = "fetch"
  /\ FreshMemory
  /\ NoFault
  /\ UNCHANGED volume

(* GetPluginMetas, ResolveRelativeExtensionPaths, MergePlugins and         *)
(* convertMetasToPlugins turn the configuration into the requested list.   *)
GetPlugins ==
  /\ pc = "fetch"
  /\ \/ \E requested \in Request : toInstall' = requested /\ pc' = "read" /\ NoFault
     \/ Inject("fetch") /\ pc' = "failed" /\ UNCHANGED toInstall
  /\ UNCHANGED <<volume, data, installed, idx, visited, entries, copying>>

-----------------------------------------------------------------------------
(* readInstalledPlugins *)

ReadIndex ==
  /\ pc = "read"
  /\ \/ /\ installedJSON.state # "absent"
        /\ data' = installedJSON
        /\ pc' = "removeIndex"
        /\ NoFault
     \/ /\ installedJSON.state = "absent"
        /\ pc' = "glob"
        /\ NoFault
        /\ UNCHANGED data
     \/ Inject("read") /\ pc' = "glob" /\ UNCHANGED data
  /\ UNCHANGED <<volume, toInstall, installed, idx, visited, entries, copying>>

(* Mutant: the index is read and left on the volume.                       *)
IndexStays ==
  /\ pc = "removeIndex"
  /\ pc' = "check"
  /\ NoFault
  /\ UNCHANGED <<volume, memory>>

RemoveIndex ==
  /\ pc = "removeIndex"
  /\ \/ installedJSON' = NoInstalledJSON /\ pc' = "check" /\ NoFault
     \/ Inject("removeIndex") /\ pc' = "glob" /\ UNCHANGED installedJSON
  /\ UNCHANGED <<disk, memory>>

(* Mutant: no checkInstalledPluginsFilePaths.                              *)
UncheckedIndex == data.state = "current"

(* json.Unmarshal, the version check and checkInstalledPluginsFilePaths.   *)
UsableIndex ==
  /\ data.state = "current"
  /\ \A i \in DOMAIN data.plugins : \A url \in Urls(data.plugins[i]) :
       Exists(data.plugins[i].CachedExtensions[url])

CheckIndex ==
  /\ pc = "check"
  /\ \/ UsableIndex /\ installed' = data.plugins /\ pc' = "prepare"
     \/ ~UsableIndex /\ pc' = "glob" /\ UNCHANGED installed
  /\ NoFault
  /\ UNCHANGED <<volume, toInstall, data, idx, visited, entries, copying>>

-----------------------------------------------------------------------------
(* resetPluginsDirectory *)

(* Mutant: the pattern of the glob matches nothing.                        *)
NoEntries == {}

EntriesOfPlugins ==
  {p \in InDir(Root) : disk[p] # Absent}
    \union {e \in {SidecarsEntry} : \E p \in Path : p.dir # Root /\ disk[p] # Absent}
    \union {e \in {IndexEntry} : installedJSON.state # "absent"}

GlobPlugins ==
  /\ pc = "glob"
  /\ \/ entries' = EntriesOfPlugins /\ pc' = "reset" /\ NoFault
     \/ Inject("glob") /\ pc' = "process" /\ UNCHANGED entries
  /\ UNCHANGED <<volume, toInstall, data, installed, idx, visited, copying>>

RemoveEntry(entry) ==
  /\ pc = "reset"
  /\ entry \in entries
  /\ entries' = entries \ {entry}
  /\ \/ /\ entry = IndexEntry
        /\ \/ installedJSON' = NoInstalledJSON /\ NoFault
           \/ Inject("remove") /\ UNCHANGED installedJSON
        /\ UNCHANGED disk
     \/ /\ entry = SidecarsEntry
        /\ RemoveTree(UNION {InDir(dir) : dir \in Sidecar})
        /\ UNCHANGED installedJSON
     \/ /\ entry \notin {IndexEntry, SidecarsEntry}
        /\ RemoveFile(entry)
        /\ UNCHANGED installedJSON
  /\ UNCHANGED <<pc, toInstall, data, installed, idx, visited, copying>>

(* Mutant: the sync starts over once the directory is clean.               *)
SyncAgain ==
  /\ pc = "reset"
  /\ entries = {}
  /\ pc' = "read"
  /\ NoFault
  /\ UNCHANGED <<volume, memory>>

ResetDone ==
  /\ pc = "reset"
  /\ entries = {}
  /\ pc' = "process"
  /\ NoFault
  /\ UNCHANGED <<volume, memory>>

-----------------------------------------------------------------------------
(* preparePluginsToInstall: for each installed plugin *)

(* Not requested: removePlugin takes the first key of the map iteration    *)
(* and returns.  A remote plugin loses its directory, another one file.    *)
Uninstall ==
  /\ pc = "prepare"
  /\ idx \in DOMAIN installed
  /\ NoMatch(installed[idx], toInstall)
  /\ \/ Urls(installed[idx]) = {} /\ UNCHANGED disk /\ NoFault
     \/ \E url \in Urls(installed[idx]) :
          LET path == installed[idx].CachedExtensions[url]
          IN  IF installed[idx].IsRemote
              THEN RemoveTree(InDir(path.dir))
              ELSE RemoveFile(path)
  /\ idx' = idx + 1
  /\ UNCHANGED <<installedJSON, pc, toInstall, data, installed, visited, entries, copying>>

(* Mutants: the path is not handed over, the file is not deleted.          *)
ForgetPath(i, url) ==
  /\ url \in Urls(toInstall[i])
  /\ NoFault
  /\ UNCHANGED <<disk, toInstall>>

LeaveFile(i, url) ==
  /\ url \notin Urls(toInstall[i])
  /\ NoFault
  /\ UNCHANGED <<disk, toInstall>>

(* Requested: an extension still in use hands its path over ...            *)
KeepExtension(i, url) ==
  /\ url \in Urls(toInstall[i])
  /\ toInstall' = WithPath(toInstall, i, url, installed[idx].CachedExtensions[url])
  /\ NoFault
  /\ UNCHANGED disk

(* ... and one no longer in use is deleted.                                *)
DropExtension(i, url) ==
  /\ url \notin Urls(toInstall[i])
  /\ RemoveFile(installed[idx].CachedExtensions[url])
  /\ UNCHANGED toInstall

ResolveExtension(url) ==
  /\ pc = "prepare"
  /\ idx \in DOMAIN installed
  /\ url \in Urls(installed[idx]) \ visited
  /\ \E i \in DOMAIN toInstall :
       /\ FirstMatch(i, installed[idx], toInstall)
       /\ KeepExtension(i, url) \/ DropExtension(i, url)
  /\ visited' = visited \union {url}
  /\ UNCHANGED <<installedJSON, pc, data, installed, idx, entries, copying>>

NextInstalled ==
  /\ pc = "prepare"
  /\ idx \in DOMAIN installed
  /\ ~NoMatch(installed[idx], toInstall)
  /\ Urls(installed[idx]) \subseteq visited
  /\ idx' = idx + 1
  /\ visited' = {}
  /\ NoFault
  /\ UNCHANGED <<volume, pc, toInstall, data, installed, entries, copying>>

(* Mutant: the next loop counts from zero.                                 *)
CountFromZero ==
  /\ pc = "prepare"
  /\ idx \notin DOMAIN installed
  /\ pc' = "process"
  /\ idx' = 0
  /\ NoFault
  /\ UNCHANGED <<volume, toInstall, data, installed, visited, entries, copying>>

PrepareDone ==
  /\ pc = "prepare"
  /\ idx \notin DOMAIN installed
  /\ pc' = "process"
  /\ idx' = 1
  /\ NoFault
  /\ UNCHANGED <<volume, toInstall, data, installed, visited, entries, copying>>

-----------------------------------------------------------------------------
(* ProcessPlugin: for each plugin of toInstall *)

(* TempDir.                                                                *)
BeginPlugin ==
  /\ pc = "process"
  /\ idx \in DOMAIN toInstall
  /\ \/ pc' = "extensions" /\ NoFault
     \/ Inject("download") /\ pc' = "failed"
  /\ UNCHANGED <<volume, memory>>

Missing(plugin) ==
  {url \in Urls(plugin) : plugin.CachedExtensions[url] = NotDownloaded}

(* generatePluginArchiveName: ten random letters in the plugin's directory *)
(* are taken never to repeat a name that is on disk or in a list.          *)
FreshPath(plugin) ==
  {p \in InDir(PluginDir(plugin)) :
     /\ disk[p] = Absent
     /\ p \notin Referenced(installedJSON.plugins) \union Referenced(toInstall)}

(* downloadArchive and MkDir succeed and CopyFile creates the destination. *)
BeginCopy(url) ==
  /\ pc = "extensions"
  /\ url \in Missing(toInstall[idx])
  /\ \E path \in FreshPath(toInstall[idx]) :
       /\ disk' = [disk EXCEPT ![path] = Partial]
       /\ copying' = <<url, path>>
  /\ pc' = "copy"
  /\ NoFault
  /\ UNCHANGED <<installedJSON, toInstall, data, installed, idx, visited, entries>>

(* No answer, another status than 200, or the copy in the temporary        *)
(* directory is not complete.                                              *)
DownloadFails(url) ==
  /\ pc = "extensions"
  /\ url \in Missing(toInstall[idx])
  /\ Inject("download")
  /\ pc' = "failed"
  /\ UNCHANGED <<volume, memory>>

(* MkDir or the creation of the destination fails; it always does when the *)
(* volume is full.                                                         *)
InjectPluginFails(url) ==
  /\ pc = "extensions"
  /\ url \in Missing(toInstall[idx])
  /\ \/ Inject("copy")
     \/ FreshPath(toInstall[idx]) = {} /\ NoFault
  /\ pc' = "failed"
  /\ UNCHANGED <<volume, memory>>

(* Mutant: the error of CopyFile is ignored.                               *)
EndCopyRegardless ==
  /\ pc = "copy"
  /\ \/ disk' = [disk EXCEPT ![copying[2]] = copying[1]] /\ NoFault
     \/ Inject("copy") /\ UNCHANGED disk
  /\ toInstall' = WithPath(toInstall, idx, copying[1], copying[2])
  /\ pc' = "extensions"
  /\ copying' = <<>>
  /\ UNCHANGED <<installedJSON, data, installed, idx, visited, entries>>

EndCopy ==
  /\ pc = "copy"
  /\ \/ /\ disk' = [disk EXCEPT ![copying[2]] = copying[1]]
        /\ toInstall' = WithPath(toInstall, idx, copying[1], copying[2])
        /\ pc' = "extensions"
        /\ NoFault
     \/ Inject("copy") /\ pc' = "failed" /\ UNCHANGED <<disk, toInstall>>
  /\ copying' = <<>>
  /\ UNCHANGED <<installedJSON, data, installed, idx, visited, entries>>

EndPlugin ==
  /\ pc = "extensions"
  /\ Missing(toInstall[idx]) = {}
  /\ pc' = "process"
  /\ idx' = idx + 1
  /\ NoFault
  /\ UNCHANGED <<volume, toInstall, data, installed, visited, entries, copying>>

ProcessDone ==
  /\ pc = "process"
  /\ idx \notin DOMAIN toInstall
  /\ pc' = "write"
  /\ NoFault
  /\ UNCHANGED <<volume, memory>>

-----------------------------------------------------------------------------
(* writeInstalledPlugins: WriteFile truncates the file, then fills it.  An *)
(* error is a warning in the log; the start is successful all the same.    *)

BeginWrite ==
  /\ pc = "write"
  /\ \/ installedJSON' = MalformedJSON /\ pc' = "writing" /\ NoFault
     \/ Inject("write") /\ pc' = "done" /\ UNCHANGED installedJSON
  /\ UNCHANGED <<disk, memory>>

EndWrite ==
  /\ pc = "writing"
  /\ \/ installedJSON' = [state |-> "current", plugins |-> toInstall] /\ NoFault
     \/ Inject("write") /\ UNCHANGED installedJSON
  /\ pc' = "done"
  /\ UNCHANGED <<disk, memory>>

(* The process dies; the next start begins from what is on the volume.     *)
Crash ==
  /\ pc \in Running
  /\ Inject("crash")
  /\ pc' = "down"
  /\ FreshMemory
  /\ UNCHANGED volume

-----------------------------------------------------------------------------
ReadInstalledPlugins == ReadIndex \/ RemoveIndex \/ CheckIndex

ResetPluginsDirectory ==
  GlobPlugins \/ (\E entry \in Entry : RemoveEntry(entry)) \/ ResetDone

PreparePluginsToInstall ==
  \/ Uninstall
  \/ \E url \in Extension : ResolveExtension(url)
  \/ NextInstalled
  \/ PrepareDone

ProcessPlugins ==
  \/ BeginPlugin
  \/ \E url \in Extension : BeginCopy(url) \/ DownloadFails(url) \/ InjectPluginFails(url)
  \/ EndCopy
  \/ EndPlugin
  \/ ProcessDone

WriteInstalledPlugins == BeginWrite \/ EndWrite

(* What a running broker does, whether its calls succeed or fail.          *)
BrokerStep ==
  \/ GetPlugins
  \/ ReadInstalledPlugins
  \/ ResetPluginsDirectory
  \/ PreparePluginsToInstall
  \/ ProcessPlugins
  \/ WriteInstalledPlugins

Next == Start \/ BrokerStep \/ Crash

Spec == Init /\ [][Next]_vars

(* A running process is scheduled; nothing obliges anyone to start one.    *)
FairSpec == Spec /\ WF_vars(BrokerStep)

-----------------------------------------------------------------------------
(* Properties *)

(* The path of an extension is in its plugin's directory and nobody else's. *)
WellPlaced(plugins, i, url) ==
  /\ PathOf(plugins, i, url) \in InDir(PluginDir(plugins[i]))
  /\ \A j \in DOMAIN plugins : \A u \in Urls(plugins[j]) :
       PathOf(plugins, j, u) = PathOf(plugins, i, url) => j = i /\ u = url

(* Every path of the list is well placed and whole, or there is no file.   *)
Sound(files, plugins) ==
  \A i \in DOMAIN plugins : \A url \in Urls(plugins[i]) :
    /\ WellPlaced(plugins, i, url)
    /\ files[PathOf(plugins, i, url)] \in {url, Absent}

(* Whatever the index of the volume says is there is either there, whole,  *)
(* in its plugin's directory and under a name of its own, or it is missing *)
(* altogether, which checkInstalledPluginsFilePaths notices.  It never     *)
(* vouches for a partial download or for another extension's archive,      *)
(* though the broker may die, or a call may fail, at any point.            *)
IndexSound ==
  installedJSON.state = "current" => Sound(disk, installedJSON.plugins)

(* readInstalledPlugins removes the index before anything else changes on  *)
(* the volume and writeInstalledPlugins comes last.  So, as long as the    *)
(* index can be read and removed, an index that is there is exact: every   *)
(* file it lists is on the volume and complete, mid-start too.             *)
IndexExact ==
  installedJSON.state = "current" =>
    \A i \in DOMAIN installedJSON.plugins : \A url \in Urls(installedJSON.plugins[i]) :
      disk[PathOf(installedJSON.plugins, i, url)] = url

(* When Start publishes DONE, every extension of every requested plugin is *)
(* complete in the directory the plugin's container will look in, whether  *)
(* it was kept from an earlier start or downloaded in this one.            *)
RequestedAvailable ==
  pc = "done" =>
    \A i \in DOMAIN toInstall : \A url \in Urls(toInstall[i]) :
      /\ WellPlaced(toInstall, i, url)
      /\ disk[PathOf(toInstall, i, url)] = url

(* When Start publishes DONE, syncWithPluginsDir has removed what is out   *)
(* of date: all that is left on the volume belongs to a requested plugin.  *)
NoStaleArtifacts ==
  pc = "done" => \A p \in Path : disk[p] # Absent => p \in Referenced(toInstall)

(* An extension the previous start installed for a plugin that is still    *)
(* requested is not downloaded again by ProcessPlugin.                     *)
DownloadsOnlyMissing ==
  \A url \in Extension : BeginCopy(url) =>
    ~\E i \in DOMAIN installed :
       SamePlugin(installed[i], toInstall[idx]) /\ url \in Urls(installed[i])
ReuseDownloads == [][DownloadsOnlyMissing]_vars

(* A start comes to an end, with a result, a failure or its own death: no  *)
(* state of the volume and no failing call keeps the broker busy forever.  *)
Terminates == (pc \in Running) ~> (pc \in Stopped)

(* Whatever failed starts have left behind, starting again and again is    *)
(* enough for one to succeed once the environment stops failing.           *)
Recovery == []<>(pc = "fetch") => []<>(pc = "done")

(* What a container finds on the volume: the extensions that are whole.    *)
Available == {place \in Dir \X Extension : \E p \in InDir(place[1]) : disk[p] = place[2]}

Phase ==
  IF pc = "fetch" THEN "starting"
  ELSE IF pc \in Running THEN "syncing"
  ELSE IF pc = "done" THEN "ready"
  ELSE "idle"

(* Where the extensions of a list of plugins belong.                       *)
Places(plugins) ==
  UNION {{<<PluginDir(plugins[i]), url>> : url \in Urls(plugins[i])} : i \in DOMAIN plugins}

Wanted == IF Phase \in {"syncing", "ready"} THEN Places(toInstall) ELSE {}

Cache == INSTANCE PluginCache WITH
  Directory <- Dir, available <- Available, wanted <- Wanted, phase <- Phase

(* The broker is a cache: seen through the complete extensions alone, its  *)
(* start only ever adds what is wanted, touches nothing before it knows    *)
(* what that is or after it has ended, and is successful only when all of  *)
(* it is there, whatever the index, partial files, failures and crashes do.*)
ImplementsCache == Cache!CacheSpec

-----------------------------------------------------------------------------
(* The inductive invariant that IndexSound and RequestedAvailable rest on. *)

(* A path filled in so far, kept or downloaded, leads to what it should.   *)
FilledWhole(files, plugins) ==
  \A i \in DOMAIN plugins : \A url \in Urls(plugins[i]) \ Missing(plugins[i]) :
    /\ WellPlaced(plugins, i, url)
    /\ files[PathOf(plugins, i, url)] = url

(* Until the index has been dealt with, no path is filled in.              *)
NothingFilled(plugins) ==
  \A i \in DOMAIN plugins : Missing(plugins[i]) = Urls(plugins[i])

NotBegun ==
  pc \in {"fetch", "read", "removeIndex", "check", "glob", "reset"} =>
    idx = 1 /\ visited = {} /\ NothingFilled(toInstall)

(* The copy of the index in memory is as sound as the index was.           *)
DataSound ==
  pc \in {"removeIndex", "check"} /\ data.state = "current" =>
    Sound(disk, data.plugins)

(* The installed extensions preparePluginsToInstall has yet to look at:    *)
(* those of a requested plugin are whole, and none has been handed over.   *)
InstalledIntact ==
  pc = "prepare" =>
    /\ idx \in DOMAIN installed /\ NoMatch(installed[idx], toInstall) => visited = {}
    /\ \A i \in DOMAIN installed : \A url \in Urls(installed[i]) :
         /\ WellPlaced(installed, i, url)
         /\ i > idx \/ (i = idx /\ url \notin visited) =>
              /\ PathOf(installed, i, url) \notin Referenced(toInstall)
              /\ ~NoMatch(installed[i], toInstall) =>
                   disk[PathOf(installed, i, url)] = url

(* The file being written is the current plugin's and nobody else's.       *)
CopyFresh ==
  /\ pc = "extensions" => idx \in DOMAIN toInstall
  /\ pc = "copy" =>
       /\ idx \in DOMAIN toInstall
       /\ copying[1] \in Missing(toInstall[idx])
       /\ copying[2] \in InDir(PluginDir(toInstall[idx]))
       /\ copying[2] \notin Referenced(installedJSON.plugins)
       /\ copying[2] \notin Referenced(toInstall)

(* The plugins up to the n-th have all their paths.                        *)
FilledUpTo(n, plugins) ==
  \A i \in DOMAIN plugins : i <= n => Missing(plugins[i]) = {}

(* Plugins the loop over toInstall has left behind are complete.           *)
ProcessedComplete ==
  /\ pc \in {"process", "extensions", "copy"} => FilledUpTo(idx - 1, toInstall)
  /\ pc \in {"write", "writing", "done"} => FilledUpTo(Len(toInstall), toInstall)

(* The state of the volume and of the loops, in every phase of a start,    *)
(* that makes the index sound and the result of a start available.         *)
CacheInv ==
  /\ TypeOK
  /\ IndexSound
  /\ FilledWhole(disk, toInstall)
  /\ NotBegun
  /\ DataSound
  /\ InstalledIntact
  /\ CopyFresh
  /\ ProcessedComplete

-----------------------------------------------------------------------------
(* The inductive invariants that IndexExact, ReuseDownloads and            *)
(* NoStaleArtifacts rest on, beside CacheInv.                              *)

(* From the check of the index until it is written again, the volume has   *)
(* none to be read.                                                        *)
IndexGone ==
  pc \in {"check", "glob", "reset", "prepare", "process", "extensions", "copy", "write", "writing"} =>
    installedJSON.state # "current"

ExactInv == IndexGone /\ IndexExact

(* What the broker relies on, and does not check: no plugin is asked for   *)
(* twice, and one without a container brings one extension at most.        *)
AskedOnce(plugins) ==
  \A i, j \in DOMAIN plugins : SamePlugin(plugins[i], plugins[j]) => i = j

SingleFiles(plugins) ==
  \A i \in DOMAIN plugins : ~plugins[i].IsRemote => \A u, v \in Urls(plugins[i]) : u = v

(* The loop of preparePluginsToInstall has yet to come to the extension.   *)
Ahead(i, url) == i > idx \/ (i = idx /\ url \notin visited)

(* An installed extension has found the plugin that still asks for it.     *)
HandedOver(i, url) ==
  \A j \in DOMAIN toInstall :
    SamePlugin(installed[i], toInstall[j]) => url \notin Missing(toInstall[j])

ReuseInv ==
  /\ AskedOnce(toInstall)
  /\ pc \in {"fetch", "read", "removeIndex", "check", "glob", "reset"} => installed = <<>>
  /\ pc = "prepare" =>
       \A i \in DOMAIN installed : \A url \in Urls(installed[i]) :
         ~Ahead(i, url) => HandedOver(i, url)
  /\ pc \in {"process", "extensions", "copy"} =>
       \A i \in DOMAIN installed : \A url \in Urls(installed[i]) : HandedOver(i, url)

(* There are no files but those of the given set.                          *)
OnlyFiles(paths) == \A p \in Path : disk[p] # Absent => p \in paths

PathsAhead ==
  {p \in Path : \E i \in DOMAIN installed : \E url \in Urls(installed[i]) :
                   Ahead(i, url) /\ PathOf(installed, i, url) = p}

(* A path that is filled in was that of an extension left behind.          *)
FilledBehind ==
  \A j \in DOMAIN toInstall : \A url \in Urls(toInstall[j]) \ Missing(toInstall[j]) :
    \E i \in DOMAIN installed :
      /\ SamePlugin(installed[i], toInstall[j])
      /\ url \in Urls(installed[i])
      /\ ~Ahead(i, url)

Orderly(plugins) == AskedOnce(plugins) /\ SingleFiles(plugins)

AllOrderly ==
  Orderly(toInstall) /\ Orderly(installedJSON.plugins) /\ Orderly(data.plugins) /\ Orderly(installed)

(* Before files are added the index is out of the way, removed by          *)
(* readInstalledPlugins or, when that fails, with the other entries.       *)
IndexCleared ==
  /\ pc \in {"check", "prepare", "process", "extensions", "copy", "write", "writing"} =>
       installedJSON.state # "current"
  /\ pc = "reset" /\ installedJSON.state = "current" => IndexEntry \in entries

(* In every phase each file is referred to by the list in charge, or is    *)
(* about to be removed or referred to.                                     *)
IndexedFiles ==
  /\ installedJSON.state = "current" => OnlyFiles(Referenced(installedJSON.plugins))
  /\ pc \in {"removeIndex", "check"} /\ data.state = "current" =>
       OnlyFiles(Referenced(data.plugins))

DoomedFiles ==
  pc = "reset" =>
    OnlyFiles(entries \union {p \in Path : p.dir # Root /\ SidecarsEntry \in entries})

InstalledFiles ==
  pc = "prepare" => FilledBehind /\ OnlyFiles(Referenced(toInstall) \union PathsAhead)

RequestedFiles ==
  /\ pc \in {"process", "extensions", "write", "writing", "done"} =>
       OnlyFiles(Referenced(toInstall))
  /\ pc = "copy" => OnlyFiles(Referenced(toInstall) \union {copying[2]})

TidyInv ==
  AllOrderly /\ IndexCleared /\ IndexedFiles /\ DoomedFiles /\ InstalledFiles /\ RequestedFiles

(* What artifacts_tidy checks at once.                                     *)
SyncInv == CacheInv /\ ExactInv /\ ReuseInv /\ TidyInv

(* Two plugins never share a directory of sidecars: what the broker needs  *)
(* of ConvertIDToUniqueName, which does not provide it for every two ids.  *)
NamesDistinct == \A a, b \in PluginID : UniqueName[a] = UniqueName[b] => a = b
=============================================================================
