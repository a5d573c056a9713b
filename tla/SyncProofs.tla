------------------------------ MODULE SyncProofs ------------------------------
(***************************************************************************)
(* Proofs about what the artifacts broker leaves on the volume: the index  *)
(* is exact, what is installed is not downloaded again, and nothing stale  *)
(* is left behind.  Each rests on an invariant of its own beside CacheInv  *)
(* and names the calls that must not fail and the requests it is about.    *)
(***************************************************************************)
EXTENDS ArtifactsBrokerProofs

-----------------------------------------------------------------------------
(* The index is exact *)

(* What is about to be written lists files that are there, and complete.   *)
LEMMA ListedWhole ==
  ASSUME CacheInv, pc \in {"write", "writing", "done"},
         NEW i \in DOMAIN toInstall, NEW url \in Urls(toInstall[i])
  PROVE  disk[PathOf(toInstall, i, url)] = url
<1>1. FilledWhole(disk, toInstall) /\ FilledUpTo(Len(toInstall), toInstall)
  BY DEF CacheInv, ProcessedComplete
<1>2. i <= Len(toInstall)
  BY DEF CacheInv, TypeOK
<1> QED
  BY <1>1, <1>2 DEF FilledWhole, FilledUpTo

LEMMA IndexGoneStep ==
  ASSUME Fault \intersect {"read", "removeIndex"} = {}, IndexGone, [Next]_vars
  PROVE  IndexGone'
<1> USE DEF IndexGone
<1>1. CASE Start \/ Crash
  BY <1>1 DEF Start, Crash
<1>2. CASE GetPlugins
  BY <1>2 DEF GetPlugins
<1>3. CASE ReadIndex
  BY <1>3 DEF ReadIndex, Inject, volume
<1>4. CASE RemoveIndex
  BY <1>4 DEF RemoveIndex, Inject, NoInstalledJSON
<1>5. CASE CheckIndex
  BY <1>5 DEF CheckIndex, volume
<1>6. CASE ResetPluginsDirectory
  <2>1. CASE GlobPlugins \/ ResetDone
    BY <2>1 DEF GlobPlugins, ResetDone, volume
  <2>2. ASSUME NEW entry \in Entry, RemoveEntry(entry) PROVE IndexGone'
    <3>1. UNCHANGED installedJSON \/ installedJSON' = NoInstalledJSON
      BY <2>2 DEF RemoveEntry
    <3> QED
      BY <2>2, <3>1 DEF RemoveEntry, NoInstalledJSON
  <2> QED
    BY <1>6, <2>1, <2>2 DEF ResetPluginsDirectory
<1>7. CASE PreparePluginsToInstall
  BY <1>7 DEF PreparePluginsToInstall, Uninstall, ResolveExtension, NextInstalled, PrepareDone, volume
<1>8. CASE ProcessPlugins
  BY <1>8 DEF ProcessPlugins, BeginPlugin, BeginCopy, DownloadFails, InjectPluginFails, EndCopy,
              EndPlugin, ProcessDone, volume
<1>9. CASE WriteInstalledPlugins
  BY <1>9 DEF WriteInstalledPlugins, BeginWrite, EndWrite, MalformedJSON
<1>10. CASE UNCHANGED vars
  BY <1>10 DEF vars, volume
<1> QED
  BY <1>1, <1>2, <1>3, <1>4, <1>5, <1>6, <1>7, <1>8, <1>9, <1>10
  DEF Next, BrokerStep, ReadInstalledPlugins

(* The files change only while there is no index, and the index only when  *)
(* it is written or removed.                                               *)
LEMMA IndexOrFiles ==
  ASSUME [Next]_vars
  PROVE  \/ UNCHANGED volume
         \/ /\ pc \in {"reset", "prepare", "extensions", "copy"}
            /\ UNCHANGED installedJSON \/ installedJSON' = NoInstalledJSON
         \/ installedJSON' \in {NoInstalledJSON, MalformedJSON}
         \/ EndWrite /\ installedJSON' = [state |-> "current", plugins |-> toInstall]
<1>1. CASE Start \/ Crash \/ GetPlugins
  BY <1>1 DEF Start, Crash, GetPlugins
<1>2. CASE ReadInstalledPlugins
  BY <1>2 DEF ReadInstalledPlugins, ReadIndex, RemoveIndex, CheckIndex, volume
<1>3. CASE ResetPluginsDirectory
  BY <1>3 DEF ResetPluginsDirectory, GlobPlugins, RemoveEntry, ResetDone
<1>4. CASE PreparePluginsToInstall
  BY <1>4 DEF PreparePluginsToInstall, Uninstall, ResolveExtension, NextInstalled, PrepareDone
<1>5. CASE ProcessPlugins
  BY <1>5 DEF ProcessPlugins, BeginPlugin, BeginCopy, DownloadFails, InjectPluginFails, EndCopy,
              EndPlugin, ProcessDone
<1>6. CASE WriteInstalledPlugins
  BY <1>6 DEF WriteInstalledPlugins, BeginWrite, EndWrite, volume
<1>7. CASE UNCHANGED vars
  BY <1>7 DEF vars
<1> QED
  BY <1>1, <1>2, <1>3, <1>4, <1>5, <1>6, <1>7 DEF Next, BrokerStep

LEMMA ExactStep ==
  ASSUME Fault \intersect {"read", "removeIndex"} = {}, CacheInv, ExactInv, [Next]_vars
  PROVE  ExactInv'
<1>1. IndexGone'
  BY IndexGoneStep DEF ExactInv
<1>2. IndexExact'
  <2>1. CASE UNCHANGED volume
    BY <2>1 DEF ExactInv, IndexExact, volume
  <2>2. CASE /\ pc \in {"reset", "prepare", "extensions", "copy"}
             /\ UNCHANGED installedJSON \/ installedJSON' = NoInstalledJSON
    BY <2>2 DEF ExactInv, IndexGone, IndexExact, NoInstalledJSON
  <2>3. CASE installedJSON' \in {NoInstalledJSON, MalformedJSON}
    BY <2>3 DEF IndexExact, NoInstalledJSON, MalformedJSON
  <2>4. CASE EndWrite /\ installedJSON' = [state |-> "current", plugins |-> toInstall]
    <3>1. pc = "writing" /\ disk' = disk /\ installedJSON'.plugins = toInstall
      BY <2>4 DEF EndWrite
    <3> QED
      BY <3>1, ListedWhole DEF IndexExact
  <2> QED
    BY <2>1, <2>2, <2>3, <2>4, IndexOrFiles
<1> QED
  BY <1>1, <1>2 DEF ExactInv

(* While readInstalledPlugins can read and remove the index, whatever else *)
(* fails and however often the broker dies, an index that is there lists   *)
(* complete files only: checkInstalledPluginsFilePaths never rejects it.   *)
THEOREM IndexIsExact ==
  ASSUME NamesDistinct, Fault \intersect {"read", "removeIndex"} = {}
  PROVE  Spec => []IndexExact
<1>1. Init => ExactInv
  BY DEF Init, ExactInv, IndexGone, IndexExact, NoInstalledJSON
<1>2. CacheInv /\ ExactInv /\ [Next]_vars => ExactInv'
  BY ExactStep
<1>3. Spec => []CacheInv
  BY CacheInvariant
<1>4. ExactInv => IndexExact
  BY DEF ExactInv
<1> QED
  BY <1>1, <1>2, <1>3, <1>4, PTL DEF Spec

-----------------------------------------------------------------------------
(* What is installed is not downloaded again *)

(* Filling in a path leaves the plugins and their extensions as they are.  *)
LEMMA Filling ==
  ASSUME NEW plugins \in Seq(CachedPlugin),
         NEW i \in DOMAIN plugins, NEW url \in Urls(plugins[i]),
         NEW path \in Path,
         NEW stored, stored = WithPath(plugins, i, url, path)
  PROVE  /\ DOMAIN stored = DOMAIN plugins
         /\ \A j \in DOMAIN plugins :
              /\ \A plugin : SamePlugin(plugin, stored[j]) <=> SamePlugin(plugin, plugins[j])
              /\ Missing(stored[j]) = Missing(plugins[j]) \ (IF j = i THEN {url} ELSE {})
         /\ Orderly(plugins) => Orderly(stored)
         /\ AskedOnce(plugins) => AskedOnce(stored)
<1>1. /\ DOMAIN stored = DOMAIN plugins
      /\ \A j \in DOMAIN plugins :
           /\ stored[j].ID = plugins[j].ID
           /\ stored[j].IsRemote = plugins[j].IsRemote
           /\ Urls(stored[j]) = Urls(plugins[j])
           /\ \A u \in Urls(plugins[j]) :
                PathOf(stored, j, u) =
                  IF j = i /\ u = url THEN path ELSE PathOf(plugins, j, u)
  BY StorePath
<1>2. path # NotDownloaded
  BY ConstantsAssumption
<1>3. ASSUME NEW j \in DOMAIN plugins
      PROVE  Missing(stored[j]) = Missing(plugins[j]) \ (IF j = i THEN {url} ELSE {})
  BY <1>1, <1>2 DEF Missing, PathOf, Urls
<1>4. ASSUME NEW j \in DOMAIN plugins, NEW plugin
      PROVE  SamePlugin(plugin, stored[j]) <=> SamePlugin(plugin, plugins[j])
  BY <1>1 DEF SamePlugin
<1>5. AskedOnce(plugins) => AskedOnce(stored)
  BY <1>1 DEF AskedOnce, SamePlugin
<1>6. SingleFiles(plugins) => SingleFiles(stored)
  BY <1>1 DEF SingleFiles
<1> QED
  BY <1>1, <1>3, <1>4, <1>5, <1>6 DEF Orderly

(* EndCopy fills in the path of the file it has completed.                 *)
LEMMA EndCopyFills ==
  ASSUME CacheInv, EndCopy
  PROVE  \/ UNCHANGED <<disk, toInstall>>
         \/ /\ copying[2] \in Path
            /\ idx \in DOMAIN toInstall
            /\ copying[1] \in Missing(toInstall[idx]) /\ copying[1] \in Urls(toInstall[idx])
            /\ disk' = [disk EXCEPT ![copying[2]] = copying[1]]
            /\ toInstall' = WithPath(toInstall, idx, copying[1], copying[2])
            /\ toInstall \in Seq(CachedPlugin)
BY DEF EndCopy, CacheInv, TypeOK, CopyFresh, Missing

(* KeepExtension fills in the path of the installed file.                  *)
LEMMA InstalledPath ==
  ASSUME CacheInv, pc = "prepare",
         NEW i \in DOMAIN installed, NEW url \in Urls(installed[i])
  PROVE  /\ PathOf(installed, i, url) \in Path
         /\ PathOf(installed, i, url) \in InDir(PluginDir(installed[i]))
         /\ installed[i].CachedExtensions[url] = PathOf(installed, i, url)
BY DEF CacheInv, InstalledIntact, WellPlaced, InDir, PathOf

(* Extensions stay handed over while more paths are filled in.             *)
LEMMA StillHandedOver ==
  ASSUME UNCHANGED installed,
         DOMAIN toInstall' = DOMAIN toInstall,
         \A j \in DOMAIN toInstall :
           /\ \A plugin : SamePlugin(plugin, toInstall'[j]) <=> SamePlugin(plugin, toInstall[j])
           /\ Missing(toInstall'[j]) \subseteq Missing(toInstall[j]),
         NEW i \in DOMAIN installed, NEW url, HandedOver(i, url)
  PROVE  HandedOver(i, url)'
BY DEF HandedOver

(* The step over one extension of an installed plugin hands it over, when  *)
(* the plugin is asked for once.                                           *)
LEMMA ResolveHandsOver ==
  ASSUME CacheInv, AskedOnce(toInstall), NEW url \in Extension, ResolveExtension(url)
  PROVE  /\ AskedOnce(toInstall')
         /\ HandedOver(idx, url)'
         /\ \A i \in DOMAIN installed : \A u : HandedOver(i, u) => HandedOver(i, u)'
<1>1. PICK k \in DOMAIN toInstall :
        FirstMatch(k, installed[idx], toInstall) /\ (KeepExtension(k, url) \/ DropExtension(k, url))
  BY DEF ResolveExtension
<1>2. /\ pc = "prepare" /\ idx \in DOMAIN installed /\ url \in Urls(installed[idx])
      /\ UNCHANGED <<installed, idx>>
  BY DEF ResolveExtension
<1>3. \A j \in DOMAIN toInstall : SamePlugin(installed[idx], toInstall[j]) => j = k
  BY <1>1 DEF FirstMatch, SamePlugin, AskedOnce
<1>4. CASE KeepExtension(k, url)
  <2>1. /\ toInstall \in Seq(CachedPlugin) /\ url \in Urls(toInstall[k])
        /\ PathOf(installed, idx, url) \in Path
        /\ toInstall' = WithPath(toInstall, k, url, PathOf(installed, idx, url))
    BY <1>2, <1>4, InstalledPath DEF KeepExtension, CacheInv, TypeOK
  <2>2. /\ DOMAIN toInstall' = DOMAIN toInstall
        /\ \A j \in DOMAIN toInstall :
             /\ \A plugin : SamePlugin(plugin, toInstall'[j]) <=> SamePlugin(plugin, toInstall[j])
             /\ Missing(toInstall'[j]) = Missing(toInstall[j]) \ (IF j = k THEN {url} ELSE {})
        /\ AskedOnce(toInstall')
    BY <2>1, Filling
  <2>3. HandedOver(idx, url)'
    BY <1>2, <1>3, <2>2 DEF HandedOver
  <2>4. \A i \in DOMAIN installed : \A u : HandedOver(i, u) => HandedOver(i, u)'
    BY <1>2, <2>2, StillHandedOver
  <2> QED
    BY <2>2, <2>3, <2>4
<1>5. CASE DropExtension(k, url)
  <2>1. toInstall' = toInstall /\ url \notin Urls(toInstall[k])
    BY <1>5 DEF DropExtension
  <2>2. HandedOver(idx, url)'
    BY <1>2, <1>3, <2>1 DEF HandedOver, Missing
  <2> QED
    BY <1>2, <2>1, <2>2 DEF HandedOver
<1> QED
  BY <1>1, <1>4, <1>5

LEMMA ReuseInit == Init => ReuseInv
BY DEF Init, ReuseInv, AskedOnce

LEMMA ReusePrepare ==
  ASSUME CacheInv, ReuseInv, PreparePluginsToInstall
  PROVE  ReuseInv'
<1> USE DEF ReuseInv
<1>1. /\ pc = "prepare"
      /\ idx \in Nat /\ installed' = installed
      /\ \A i \in DOMAIN installed : i \in Nat
  BY DEF PreparePluginsToInstall, Uninstall, ResolveExtension, NextInstalled, PrepareDone,
         CacheInv, TypeOK
<1>2. CASE Uninstall
  <2>1. /\ pc' = "prepare" /\ idx' = idx + 1
        /\ UNCHANGED <<toInstall, visited>>
        /\ NoMatch(installed[idx], toInstall)
        /\ visited = {}
    BY <1>2 DEF Uninstall, CacheInv, InstalledIntact
  <2>2. ASSUME NEW i \in DOMAIN installed, NEW url \in Urls(installed[i]), ~Ahead(i, url)'
        PROVE  HandedOver(i, url)
    <3>1. CASE i = idx
      BY <2>1, <3>1 DEF NoMatch, HandedOver, SamePlugin
    <3>2. CASE i # idx
      <4>1. ~Ahead(i, url)
        BY <1>1, <2>1, <2>2, <3>2 DEF Ahead
      <4> QED
        BY <1>1, <4>1
    <3> QED
      BY <3>1, <3>2
  <2> QED
    BY <1>1, <2>1, <2>2 DEF HandedOver
<1>3. ASSUME NEW url \in Extension, ResolveExtension(url) PROVE ReuseInv'
  <2>1. pc' = "prepare" /\ idx' = idx /\ visited' = visited \union {url}
    BY <1>3 DEF ResolveExtension
  <2>2. /\ AskedOnce(toInstall')
        /\ HandedOver(idx, url)'
        /\ \A i \in DOMAIN installed : \A u : HandedOver(i, u) => HandedOver(i, u)'
    BY <1>3, ResolveHandsOver
  <2>3. ASSUME NEW i \in DOMAIN installed, NEW u \in Urls(installed[i]), ~Ahead(i, u)'
        PROVE  HandedOver(i, u)'
    <3>1. ~Ahead(i, u) \/ (i = idx /\ u = url)
      BY <2>1, <2>3 DEF Ahead
    <3>2. ~Ahead(i, u) => HandedOver(i, u)
      BY <1>1
    <3>3. CASE i = idx /\ u = url
      BY <2>1, <2>2, <3>3
    <3>4. CASE ~Ahead(i, u)
      BY <2>2, <3>2, <3>4
    <3> QED
      BY <3>1, <3>3, <3>4
  <2> QED
    BY <1>1, <2>1, <2>2, <2>3
<1>4. CASE NextInstalled
  <2>1. /\ pc' = "prepare" /\ idx' = idx + 1 /\ visited' = {}
        /\ Urls(installed[idx]) \subseteq visited
        /\ toInstall' = toInstall
    BY <1>4 DEF NextInstalled
  <2>2. ASSUME NEW i \in DOMAIN installed, NEW url \in Urls(installed[i]), ~Ahead(i, url)'
        PROVE  HandedOver(i, url)
    <3>1. ~Ahead(i, url)
      BY <1>1, <2>1, <2>2 DEF Ahead
    <3> QED
      BY <1>1, <3>1
  <2> QED
    BY <1>1, <2>1, <2>2 DEF HandedOver
<1>5. CASE PrepareDone
  <2>1. pc' = "process" /\ toInstall' = toInstall /\ idx \notin DOMAIN installed
    BY <1>5 DEF PrepareDone
  <2>2. \A i \in DOMAIN installed : \A url : ~Ahead(i, url)
    <3>1. idx > Len(installed) /\ \A i \in DOMAIN installed : i <= Len(installed)
      BY <2>1 DEF CacheInv, TypeOK
    <3>2. Len(installed) \in Nat
      BY DEF CacheInv, TypeOK
    <3> QED
      BY <1>1, <3>1, <3>2 DEF Ahead
  <2> QED
    BY <1>1, <2>1, <2>2 DEF HandedOver
<1> QED
  BY <1>2, <1>3, <1>4, <1>5 DEF PreparePluginsToInstall

LEMMA ReuseProcess ==
  ASSUME CacheInv, ReuseInv, ProcessPlugins
  PROVE  ReuseInv'
<1> USE DEF ReuseInv
<1>1. CASE EndCopy
  <2>1. CASE UNCHANGED toInstall
    BY <1>1, <2>1 DEF EndCopy, HandedOver
  <2>2. CASE toInstall' # toInstall
    <3>1. /\ DOMAIN toInstall' = DOMAIN toInstall
          /\ \A j \in DOMAIN toInstall :
               /\ \A plugin : SamePlugin(plugin, toInstall'[j]) <=> SamePlugin(plugin, toInstall[j])
               /\ Missing(toInstall'[j]) \subseteq Missing(toInstall[j])
          /\ AskedOnce(toInstall')
      BY <1>1, <2>2, EndCopyFills, Filling
    <3>2. UNCHANGED installed /\ pc = "copy" /\ pc' \in {"extensions", "failed"}
      BY <1>1 DEF EndCopy
    <3>3. \A i \in DOMAIN installed : \A u : HandedOver(i, u) => HandedOver(i, u)'
      BY <3>1, <3>2, StillHandedOver
    <3> QED
      BY <3>1, <3>2, <3>3
  <2> QED
    BY <2>1, <2>2
<1>2. CASE ~EndCopy
  <2>1. /\ UNCHANGED <<toInstall, installed>>
        /\ pc \in {"process", "extensions", "copy"}
        /\ pc' \in {"process", "extensions", "copy", "write", "failed"}
    BY <1>2 DEF ProcessPlugins, BeginPlugin, BeginCopy, DownloadFails, InjectPluginFails, EndPlugin,
                ProcessDone, memory
  <2> QED
    BY <2>1 DEF HandedOver
<1> QED
  BY <1>1, <1>2

LEMMA ReuseStep ==
  ASSUME \A requested \in Request : AskedOnce(requested), CacheInv, ReuseInv, [Next]_vars
  PROVE  ReuseInv'
<1> USE DEF ReuseInv
<1>1. CASE Start \/ Crash
  BY <1>1 DEF Start, Crash, FreshMemory, AskedOnce
<1>2. CASE GetPlugins
  BY <1>2 DEF GetPlugins
<1>3. CASE ReadIndex \/ RemoveIndex
  BY <1>3 DEF ReadIndex, RemoveIndex, memory
<1>4. CASE CheckIndex
  <2>1. toInstall' = toInstall /\ idx' = 1 /\ visited' = {} /\ pc' \in {"prepare", "glob"}
    BY <1>4 DEF CheckIndex, CacheInv, NotBegun
  <2>2. pc' = "glob" => installed' = installed
    BY <1>4 DEF CheckIndex
  <2>3. pc' = "prepare" => \A i \in DOMAIN installed' : \A url : Ahead(i, url)'
    <3>1. installed' \in Seq(CachedPlugin)
      BY <1>4 DEF CheckIndex, CacheInv, TypeOK, InstalledJSON
    <3>2. \A i \in DOMAIN installed' : i \in Nat /\ (i > 1 \/ i = 1)
      BY <3>1
    <3> QED
      BY <2>1, <3>2 DEF Ahead
  <2> QED
    BY <1>4, <2>1, <2>2, <2>3 DEF CheckIndex
<1>5. CASE ResetPluginsDirectory
  <2>1. /\ UNCHANGED <<toInstall, installed>>
        /\ pc \in {"glob", "reset"} /\ pc' \in {"reset", "process"}
    BY <1>5 DEF ResetPluginsDirectory, GlobPlugins, RemoveEntry, ResetDone, memory
  <2> QED
    BY <2>1
<1>6. CASE PreparePluginsToInstall
  BY <1>6, ReusePrepare
<1>7. CASE ProcessPlugins
  BY <1>7, ReuseProcess
<1>8. CASE WriteInstalledPlugins
  BY <1>8 DEF WriteInstalledPlugins, BeginWrite, EndWrite, memory
<1>9. CASE UNCHANGED vars
  BY <1>9 DEF vars, memory, HandedOver, Ahead
<1> QED
  BY <1>1, <1>2, <1>3, <1>4, <1>5, <1>6, <1>7, <1>8, <1>9 DEF Next, BrokerStep, ReadInstalledPlugins

(* When no plugin is asked for twice, ProcessPlugin never downloads an     *)
(* extension that the previous start installed for a plugin still asked    *)
(* for, whatever fails and however the loops interleave with crashes.      *)
THEOREM DownloadsAreReused ==
  ASSUME NamesDistinct, \A requested \in Request : AskedOnce(requested)
  PROVE  Spec => ReuseDownloads
<1>1. CacheInv /\ ReuseInv => DownloadsOnlyMissing
  <2> SUFFICES ASSUME CacheInv, ReuseInv, NEW url \in Extension, BeginCopy(url),
                      NEW i \in DOMAIN installed, SamePlugin(installed[i], toInstall[idx]),
                      url \in Urls(installed[i])
               PROVE  FALSE
    BY DEF DownloadsOnlyMissing
  <2>1. pc = "extensions" /\ url \in Missing(toInstall[idx]) /\ idx \in DOMAIN toInstall
    BY DEF BeginCopy, CacheInv, CopyFresh
  <2> QED
    BY <2>1 DEF ReuseInv, HandedOver
<1>2. Init => ReuseInv
  BY ReuseInit
<1>3. CacheInv /\ ReuseInv /\ [Next]_vars => ReuseInv'
  BY ReuseStep
<1>4. Spec => []CacheInv
  BY CacheInvariant
<1>5. Spec => []ReuseInv
  BY <1>2, <1>3, <1>4, PTL DEF Spec
<1> QED
  BY <1>1, <1>4, <1>5, PTL DEF ReuseDownloads

-----------------------------------------------------------------------------
(* Nothing stale is left behind *)

(* Filling in a path that was missing adds it to those referred to.        *)
LEMMA FillRefers ==
  ASSUME NEW plugins \in Seq(CachedPlugin),
         NEW i \in DOMAIN plugins, NEW url \in Missing(plugins[i]), NEW path \in Path,
         NEW stored, stored = WithPath(plugins, i, url, path)
  PROVE  Referenced(plugins) \union {path} \subseteq Referenced(stored)
<1>1. url \in Urls(plugins[i])
  BY DEF Missing
<1>2. /\ DOMAIN stored = DOMAIN plugins
      /\ \A j \in DOMAIN plugins :
           /\ Urls(stored[j]) = Urls(plugins[j])
           /\ \A u \in Urls(plugins[j]) :
                PathOf(stored, j, u) =
                  IF j = i /\ u = url THEN path ELSE PathOf(plugins, j, u)
  BY <1>1, StorePath
<1>3. path \in Referenced(stored)
  BY <1>1, <1>2 DEF Referenced
<1>4. PathOf(plugins, i, url) \notin Path
  BY ConstantsAssumption DEF Missing, PathOf
<1>5. ASSUME NEW p \in Referenced(plugins) PROVE p \in Referenced(stored)
  <2>1. PICK j \in DOMAIN plugins :
          p \in Path /\ \E u \in Urls(plugins[j]) : PathOf(plugins, j, u) = p
    BY DEF Referenced
  <2>2. PICK u \in Urls(plugins[j]) : PathOf(plugins, j, u) = p
    BY <2>1
  <2>3. ~(j = i /\ u = url)
    BY <1>4, <2>1, <2>2
  <2> QED
    BY <1>2, <2>1, <2>2, <2>3 DEF Referenced
<1> QED
  BY <1>3, <1>5

(* The files that are left when some have been removed.                    *)
LEMMA OnlyFilesLeft ==
  ASSUME NEW gone, Deletes(gone), NEW paths, OnlyFiles(paths)
  PROVE  /\ \A p \in Path : disk'[p] # Absent => p \in paths
         /\ \A more : paths \subseteq more => \A p \in Path : disk'[p] # Absent => p \in more
BY DEF Deletes, OnlyFiles

(* The four lists are the requests of this start and of earlier ones.      *)
LEMMA OrderlyStep ==
  ASSUME \A requested \in Request : Orderly(requested), CacheInv, AllOrderly, [Next]_vars
  PROVE  AllOrderly'
<1> USE DEF AllOrderly
<1>e. Orderly(<<>>)
  BY DEF Orderly, AskedOnce, SingleFiles
<1>1. CASE Start \/ Crash
  BY <1>1, <1>e DEF Start, Crash, FreshMemory, NoInstalledJSON, volume
<1>2. CASE GetPlugins
  BY <1>2 DEF GetPlugins, volume
<1>3. CASE ReadInstalledPlugins
  BY <1>3, <1>e DEF ReadInstalledPlugins, ReadIndex, RemoveIndex, CheckIndex, volume, memory,
                    NoInstalledJSON
<1>4. CASE ResetPluginsDirectory
  <2>1. UNCHANGED <<toInstall, data, installed>>
    BY <1>4 DEF ResetPluginsDirectory, GlobPlugins, RemoveEntry, ResetDone, memory
  <2>2. UNCHANGED installedJSON \/ installedJSON' = NoInstalledJSON
    BY <1>4 DEF ResetPluginsDirectory, GlobPlugins, RemoveEntry, ResetDone, volume
  <2> QED
    BY <2>1, <2>2, <1>e DEF NoInstalledJSON
<1>5. CASE PreparePluginsToInstall
  <2>1. ASSUME NEW url \in Extension, ResolveExtension(url) PROVE AllOrderly'
    <3>1. PICK k \in DOMAIN toInstall : KeepExtension(k, url) \/ DropExtension(k, url)
      BY <2>1 DEF ResolveExtension
    <3>2. /\ UNCHANGED <<installedJSON, data, installed>> /\ pc = "prepare"
          /\ idx \in DOMAIN installed /\ url \in Urls(installed[idx])
      BY <2>1 DEF ResolveExtension
    <3>3. CASE UNCHANGED toInstall
      BY <3>2, <3>3
    <3>4. CASE KeepExtension(k, url)
      <4>1. /\ toInstall \in Seq(CachedPlugin) /\ url \in Urls(toInstall[k])
            /\ toInstall' = WithPath(toInstall, k, url, PathOf(installed, idx, url))
        BY <3>4 DEF KeepExtension, CacheInv, TypeOK, PathOf
      <4>2. PathOf(installed, idx, url) \in Path
        BY <3>2, InstalledPath
      <4>3. Orderly(toInstall')
        BY <4>1, <4>2, Filling
      <4> QED
        BY <3>2, <4>3
    <3> QED
      BY <3>1, <3>3, <3>4 DEF DropExtension
  <2>2. CASE Uninstall \/ NextInstalled \/ PrepareDone
    BY <2>2 DEF Uninstall, NextInstalled, PrepareDone, volume
  <2> QED
    BY <1>5, <2>1, <2>2 DEF PreparePluginsToInstall
<1>6. CASE ProcessPlugins
  <2>1. CASE EndCopy
    <3>1. UNCHANGED <<installedJSON, data, installed>>
      BY <2>1 DEF EndCopy
    <3>2. Orderly(toInstall')
      BY <2>1, EndCopyFills, Filling
    <3> QED
      BY <3>1, <3>2
  <2>2. CASE ~EndCopy
    BY <1>6, <2>2 DEF ProcessPlugins, BeginPlugin, BeginCopy, DownloadFails, InjectPluginFails,
                      EndPlugin, ProcessDone, memory, volume
  <2> QED
    BY <2>1, <2>2
<1>7. CASE WriteInstalledPlugins
  BY <1>7, <1>e DEF WriteInstalledPlugins, BeginWrite, EndWrite, memory, MalformedJSON
<1>8. CASE UNCHANGED vars
  BY <1>8 DEF vars, volume, memory
<1> QED
  BY <1>1, <1>2, <1>3, <1>4, <1>5, <1>6, <1>7, <1>8 DEF Next, BrokerStep

(* Nothing fills the volume while an index is there to vouch for it.       *)
LEMMA IndexClearedStep ==
  ASSUME Fault \intersect {"glob", "remove"} = {}, IndexCleared, [Next]_vars
  PROVE  IndexCleared'
<1> USE DEF IndexCleared
<1>1. CASE Start \/ Crash \/ GetPlugins
  BY <1>1 DEF Start, Crash, GetPlugins
<1>2. CASE ReadIndex \/ CheckIndex
  BY <1>2 DEF ReadIndex, CheckIndex, volume
<1>3. CASE RemoveIndex
  BY <1>3 DEF RemoveIndex, NoInstalledJSON
<1>4. CASE GlobPlugins
  BY <1>4 DEF GlobPlugins, Inject, volume, EntriesOfPlugins
<1>5. ASSUME NEW entry \in Entry, RemoveEntry(entry) PROVE IndexCleared'
  <2>1. /\ pc = "reset" /\ pc' = "reset" /\ entries' = entries \ {entry}
        /\ \/ entry = IndexEntry /\ installedJSON' = NoInstalledJSON
           \/ entry # IndexEntry /\ UNCHANGED installedJSON
    BY <1>5, ConstantsAssumption DEF RemoveEntry, Inject
  <2> QED
    BY <2>1 DEF NoInstalledJSON
<1>6. CASE ResetDone
  BY <1>6 DEF ResetDone, volume
<1>7. CASE PreparePluginsToInstall
  BY <1>7 DEF PreparePluginsToInstall, Uninstall, ResolveExtension, NextInstalled, PrepareDone, volume
<1>8. CASE ProcessPlugins
  BY <1>8 DEF ProcessPlugins, BeginPlugin, BeginCopy, DownloadFails, InjectPluginFails, EndCopy,
              EndPlugin, ProcessDone, volume
<1>9. CASE WriteInstalledPlugins
  BY <1>9 DEF WriteInstalledPlugins, BeginWrite, EndWrite, MalformedJSON
<1>10. CASE UNCHANGED vars
  BY <1>10 DEF vars, volume, memory
<1> QED
  BY <1>1, <1>2, <1>3, <1>4, <1>5, <1>6, <1>7, <1>8, <1>9, <1>10
  DEF Next, BrokerStep, ReadInstalledPlugins, ResetPluginsDirectory

(* The index lists every file for as long as it is current.                *)
LEMMA IndexedFilesStep ==
  ASSUME CacheInv, TidyInv, [Next]_vars
  PROVE  IndexedFiles'
<1> USE DEF IndexedFiles
<1>1. IndexedFiles /\ IndexCleared
  BY DEF TidyInv
<1>2. (installedJSON.state = "current" => OnlyFiles(Referenced(installedJSON.plugins)))'
  <2>1. CASE UNCHANGED volume
    BY <1>1, <2>1 DEF volume, OnlyFiles
  <2>2. CASE installedJSON' \in {NoInstalledJSON, MalformedJSON}
    BY <2>2 DEF NoInstalledJSON, MalformedJSON
  <2>3. CASE EndWrite /\ installedJSON' = [state |-> "current", plugins |-> toInstall]
    <3>1. OnlyFiles(Referenced(toInstall)) /\ disk' = disk /\ installedJSON'.plugins = toInstall
      BY <2>3 DEF EndWrite, TidyInv, RequestedFiles
    <3> QED
      BY <3>1 DEF OnlyFiles, Referenced
  <2>4. CASE pc \in {"prepare", "extensions", "copy"} /\ UNCHANGED installedJSON
    BY <1>1, <2>4 DEF IndexCleared
  <2>5. CASE pc = "reset" /\ UNCHANGED installedJSON
    <3>1. UNCHANGED disk \/ \E gone : Deletes(gone)
      <4>1. ASSUME NEW entry \in Entry, RemoveEntry(entry) PROVE UNCHANGED disk \/ \E gone : Deletes(gone)
        BY <4>1, RemoveTreeDeletes, RemoveFileDeletes DEF RemoveEntry, CacheInv
      <4>2. CASE ~ResetPluginsDirectory
        BY <2>5, <4>2 DEF Next, BrokerStep, Start, Crash, GetPlugins, ReadInstalledPlugins, ReadIndex,
             RemoveIndex, CheckIndex, PreparePluginsToInstall, Uninstall, ResolveExtension,
             NextInstalled, PrepareDone, ProcessPlugins, BeginPlugin, BeginCopy, DownloadFails,
             InjectPluginFails, EndCopy, EndPlugin, ProcessDone, WriteInstalledPlugins, BeginWrite,
             EndWrite, Stopped, vars, volume
      <4> QED
        BY <4>1, <4>2 DEF ResetPluginsDirectory, GlobPlugins, ResetDone, volume
    <3>2. CASE UNCHANGED disk
      BY <1>1, <2>5, <3>2 DEF OnlyFiles
    <3>3. ASSUME NEW gone, Deletes(gone), installedJSON.state = "current"
          PROVE  OnlyFiles(Referenced(installedJSON.plugins))'
      BY <1>1, <2>5, <3>3, OnlyFilesLeft DEF OnlyFiles
    <3> QED
      BY <2>5, <3>1, <3>2, <3>3
  <2> QED
    BY <2>1, <2>2, <2>3, <2>4, <2>5, IndexOrFiles
<1>3. ASSUME pc' \in {"removeIndex", "check"}, data'.state = "current"
      PROVE  OnlyFiles(Referenced(data.plugins))'
  <2>1. CASE ReadIndex
    BY <1>1, <1>3, <2>1 DEF ReadIndex, volume, OnlyFiles
  <2>2. CASE RemoveIndex
    BY <1>1, <1>3, <2>2 DEF RemoveIndex, memory, OnlyFiles
  <2>3. CASE UNCHANGED vars
    BY <1>1, <1>3, <2>3 DEF vars, volume, memory, OnlyFiles
  <2>4. CASE /\ ~ReadIndex /\ ~RemoveIndex /\ Next
    BY <1>3, <2>4 DEF Next, BrokerStep, Start, Crash, GetPlugins, ReadInstalledPlugins, CheckIndex,
         ResetPluginsDirectory, GlobPlugins, RemoveEntry, ResetDone,
         PreparePluginsToInstall, Uninstall, ResolveExtension, NextInstalled, PrepareDone,
         ProcessPlugins, BeginPlugin, BeginCopy, DownloadFails, InjectPluginFails, EndCopy,
         EndPlugin, ProcessDone, WriteInstalledPlugins, BeginWrite, EndWrite
  <2> QED
    BY <2>1, <2>2, <2>3, <2>4
<1> QED
  BY <1>2, <1>3

(* Every file is in or below an entry that resetPluginsDirectory removes.  *)
LEMMA DoomedFilesStep ==
  ASSUME Fault \intersect {"glob", "remove"} = {}, CacheInv, DoomedFiles, [Next]_vars
  PROVE  DoomedFiles'
<1> SUFFICES ASSUME pc' = "reset", NEW p \in Path, disk'[p] # Absent
             PROVE  p \in entries' \/ (p.dir # Root /\ SidecarsEntry \in entries')
  BY DEF DoomedFiles, OnlyFiles
<1>1. SidecarsEntry \notin Path /\ IndexEntry \notin Path /\ SidecarsEntry # IndexEntry
  BY ConstantsAssumption
<1>2. CASE GlobPlugins
  <2>1. disk' = disk /\ entries' = EntriesOfPlugins
    BY <1>2 DEF GlobPlugins, Inject, volume
  <2> QED
    BY <2>1 DEF EntriesOfPlugins, InDir
<1>3. ASSUME NEW entry \in Entry, RemoveEntry(entry)
      PROVE  p \in entries' \/ (p.dir # Root /\ SidecarsEntry \in entries')
  <2>1. /\ pc = "reset" /\ entries' = entries \ {entry}
        /\ disk[p] # Absent => p \in entries \/ (p.dir # Root /\ SidecarsEntry \in entries)
    BY <1>3 DEF RemoveEntry, DoomedFiles, OnlyFiles
  <2>2. CASE entry = IndexEntry
    BY <1>1, <1>3, <2>1, <2>2 DEF RemoveEntry
  <2>3. CASE entry = SidecarsEntry
    <3>1. disk' = Removed(UNION {InDir(dir) : dir \in Sidecar})
      BY <1>1, <1>3, <2>3 DEF RemoveEntry, RemoveTree, Inject
    <3>2. p \notin UNION {InDir(dir) : dir \in Sidecar} /\ disk[p] # Absent
      BY <3>1 DEF Removed
    <3>3. p.dir = Root
      BY <3>2 DEF InDir, Path, Dir
    <3> QED
      BY <1>1, <2>1, <2>3, <3>2, <3>3
  <2>4. CASE entry \notin {IndexEntry, SidecarsEntry}
    <3>1. disk' = Removed({entry})
      BY <1>1, <1>3, <2>4 DEF RemoveEntry, RemoveFile, Inject
    <3>2. p # entry /\ disk[p] # Absent
      BY <3>1 DEF Removed
    <3> QED
      BY <2>1, <2>4, <3>2
  <2> QED
    BY <2>2, <2>3, <2>4
<1>4. CASE UNCHANGED vars
  BY <1>4 DEF vars, volume, memory, DoomedFiles, OnlyFiles
<1>5. CASE Next /\ ~ResetPluginsDirectory
  BY <1>5 DEF Next, BrokerStep, Start, Crash, GetPlugins, ReadInstalledPlugins, ReadIndex,
         RemoveIndex, CheckIndex,
         PreparePluginsToInstall, Uninstall, ResolveExtension, NextInstalled, PrepareDone,
         ProcessPlugins, BeginPlugin, BeginCopy, DownloadFails, InjectPluginFails, EndCopy,
         EndPlugin, ProcessDone, WriteInstalledPlugins, BeginWrite, EndWrite
<1> QED
  BY <1>2, <1>3, <1>4, <1>5 DEF ResetPluginsDirectory, ResetDone

(* What the loop of preparePluginsToInstall has left behind stays behind.  *)
LEMMA BehindStays ==
  ASSUME CacheInv, pc = "prepare", installed' = installed,
         \/ idx' = idx /\ visited \subseteq visited'
         \/ idx' = idx + 1 /\ (NoMatch(installed[idx], toInstall) => visited = {}),
         NEW i \in DOMAIN installed, NEW url \in Urls(installed[i]), ~Ahead(i, url)
  PROVE  ~Ahead(i, url)'
<1>1. i \in Nat /\ idx \in Nat
  BY DEF CacheInv, TypeOK
<1> QED
  BY <1>1 DEF Ahead

(* An extension that is kept had no path in the requested list.            *)
LEMMA KeptWasMissing ==
  ASSUME CacheInv, AllOrderly, FilledBehind, NEW url \in Extension, ResolveExtension(url),
         NEW k \in DOMAIN toInstall, FirstMatch(k, installed[idx], toInstall),
         KeepExtension(k, url)
  PROVE  url \in Missing(toInstall[k])
<1> SUFFICES ASSUME url \notin Missing(toInstall[k]) PROVE FALSE
  OBVIOUS
<1>1. /\ idx \in DOMAIN installed /\ url \notin visited
      /\ url \in Urls(toInstall[k])
      /\ SamePlugin(toInstall[k], installed[idx])
  BY DEF ResolveExtension, KeepExtension, FirstMatch
<1>2. PICK i \in DOMAIN installed : SamePlugin(installed[i], toInstall[k]) /\ ~Ahead(i, url)
  BY <1>1 DEF FilledBehind
<1>3. i = idx
  BY <1>1, <1>2 DEF AllOrderly, Orderly, AskedOnce, SamePlugin
<1> QED
  BY <1>1, <1>2, <1>3 DEF Ahead

(* The step over an extension: its path is handed over or its file goes.   *)
LEMMA ResolveTidies ==
  ASSUME Fault \intersect {"glob", "remove"} = {}, CacheInv, AllOrderly, InstalledFiles,
         NEW url \in Extension, ResolveExtension(url)
  PROVE  InstalledFiles'
<1>1. PICK k \in DOMAIN toInstall :
        FirstMatch(k, installed[idx], toInstall) /\ (KeepExtension(k, url) \/ DropExtension(k, url))
  BY DEF ResolveExtension
<1>2. /\ pc = "prepare" /\ pc' = "prepare" /\ idx \in DOMAIN installed
      /\ url \in Urls(installed[idx]) /\ url \notin visited
      /\ idx' = idx /\ installed' = installed /\ visited' = visited \union {url}
      /\ FilledBehind /\ OnlyFiles(Referenced(toInstall) \union PathsAhead)
  BY DEF ResolveExtension, InstalledFiles
<1> DEFINE path == PathOf(installed, idx, url)
<1>3. path \in Path /\ installed[idx].CachedExtensions[url] = path
  BY <1>2, InstalledPath
<1> HIDE DEF path
<1>4. ASSUME NEW i \in DOMAIN installed, NEW u \in Urls(installed[i]), ~Ahead(i, u)
      PROVE  ~Ahead(i, u)'
  BY <1>2, <1>4, BehindStays
<1>5. ~Ahead(idx, url)'
  <2>1. idx \in Nat
    BY DEF CacheInv, TypeOK
  <2> QED
    BY <1>2, <2>1 DEF Ahead
<1>6. PathsAhead \subseteq PathsAhead' \union {path}
  BY <1>2 DEF PathsAhead, Ahead, path
<1>7. CASE KeepExtension(k, url)
  <2>1. /\ toInstall \in Seq(CachedPlugin) /\ url \in Urls(toInstall[k])
        /\ toInstall' = WithPath(toInstall, k, url, path) /\ disk' = disk
    BY <1>3, <1>7 DEF KeepExtension, CacheInv, TypeOK
  <2>2. url \in Missing(toInstall[k])
    BY <1>1, <1>2, <1>7, KeptWasMissing
  <2>3. Referenced(toInstall) \union {path} \subseteq Referenced(toInstall')
    BY <1>3, <2>1, <2>2, FillRefers
  <2>4. /\ DOMAIN toInstall' = DOMAIN toInstall
        /\ \A j \in DOMAIN toInstall :
             /\ Urls(toInstall'[j]) = Urls(toInstall[j])
             /\ \A plugin : SamePlugin(plugin, toInstall'[j]) <=> SamePlugin(plugin, toInstall[j])
             /\ Missing(toInstall'[j]) = Missing(toInstall[j]) \ (IF j = k THEN {url} ELSE {})
    <3>1. \A j \in DOMAIN toInstall : Urls(toInstall'[j]) = Urls(toInstall[j])
      BY <2>1, StorePath
    <3> QED
      BY <1>3, <2>1, <3>1, Filling
  <2>5. OnlyFiles(Referenced(toInstall) \union PathsAhead)'
    BY <1>2, <1>6, <2>1, <2>3 DEF OnlyFiles
  <2>6. FilledBehind'
    <3> SUFFICES ASSUME NEW j \in DOMAIN toInstall', NEW u \in Urls(toInstall'[j]) \ Missing(toInstall'[j])
                 PROVE  \E i \in DOMAIN installed :
                          SamePlugin(installed[i], toInstall'[j]) /\ u \in Urls(installed[i]) /\ ~Ahead(i, u)'
      BY <1>2 DEF FilledBehind
    <3>1. CASE j = k /\ u = url
      <4>1. SamePlugin(installed[idx], toInstall'[j])
        BY <1>1, <2>4, <3>1 DEF FirstMatch, SamePlugin
      <4> QED
        BY <1>2, <1>5, <3>1, <4>1
    <3>2. CASE ~(j = k /\ u = url)
      <4>1. u \in Urls(toInstall[j]) \ Missing(toInstall[j]) /\ j \in DOMAIN toInstall
        BY <2>4, <3>2
      <4>2. PICK i \in DOMAIN installed :
              SamePlugin(installed[i], toInstall[j]) /\ u \in Urls(installed[i]) /\ ~Ahead(i, u)
        BY <1>2, <4>1 DEF FilledBehind
      <4> QED
        BY <1>4, <2>4, <4>1, <4>2
    <3> QED
      BY <3>1, <3>2
  <2> QED
    BY <2>5, <2>6 DEF InstalledFiles
<1>8. CASE DropExtension(k, url)
  <2>1. toInstall' = toInstall /\ disk' = Removed({path})
    BY <1>3, <1>8 DEF DropExtension, RemoveFile, Inject
  <2>2. OnlyFiles(Referenced(toInstall) \union PathsAhead)'
    <3> SUFFICES ASSUME NEW p \in Path, disk'[p] # Absent
                 PROVE  p \in Referenced(toInstall) \union PathsAhead'
      BY <2>1 DEF OnlyFiles
    <3>1. p # path /\ disk[p] # Absent
      BY <2>1 DEF Removed
    <3> QED
      BY <1>2, <1>6, <3>1 DEF OnlyFiles
  <2>3. FilledBehind'
    BY <1>2, <1>4, <2>1 DEF FilledBehind
  <2> QED
    BY <2>2, <2>3 DEF InstalledFiles
<1> QED
  BY <1>1, <1>7, <1>8

(* removePlugin leaves no file of a plugin that is not asked for.          *)
LEMMA UninstallTidies ==
  ASSUME Fault \intersect {"glob", "remove"} = {}, CacheInv, AllOrderly, InstalledFiles, Uninstall
  PROVE  InstalledFiles'
<1>1. /\ pc = "prepare" /\ pc' = "prepare" /\ idx \in DOMAIN installed
      /\ NoMatch(installed[idx], toInstall)
      /\ idx' = idx + 1 /\ UNCHANGED <<installed, toInstall, visited>>
      /\ FilledBehind /\ OnlyFiles(Referenced(toInstall) \union PathsAhead)
      /\ idx \in Nat /\ \A i \in DOMAIN installed : i \in Nat
  BY DEF Uninstall, InstalledFiles, CacheInv, TypeOK
<1>2. visited = {}
  BY <1>1 DEF CacheInv, InstalledIntact
<1>3. FilledBehind'
  <2>1. ASSUME NEW i \in DOMAIN installed, NEW u \in Urls(installed[i]), ~Ahead(i, u)
        PROVE  ~Ahead(i, u)'
    BY <1>1, <1>2, <2>1, BehindStays
  <2> QED
    BY <1>1, <2>1 DEF FilledBehind
<1>4. ASSUME NEW p \in PathsAhead, p \notin PathsAhead'
      PROVE  \E u \in Urls(installed[idx]) : PathOf(installed, idx, u) = p
  <2>1. PICK i \in DOMAIN installed :
          p \in Path /\ \E u \in Urls(installed[i]) : Ahead(i, u) /\ PathOf(installed, i, u) = p
    BY DEF PathsAhead
  <2>2. PICK u \in Urls(installed[i]) : Ahead(i, u) /\ PathOf(installed, i, u) = p
    BY <2>1
  <2>3. i # idx => Ahead(i, u)'
    BY <1>1, <1>2, <2>2 DEF Ahead
  <2> QED
    BY <1>1, <1>4, <2>1, <2>2, <2>3 DEF PathsAhead
<1>5. ASSUME NEW p \in Path, disk'[p] # Absent
      PROVE  disk[p] # Absent /\ \A u \in Urls(installed[idx]) : PathOf(installed, idx, u) # p
  <2>1. CASE Urls(installed[idx]) = {} /\ UNCHANGED disk
    BY <1>5, <2>1
  <2>2. ASSUME NEW url \in Urls(installed[idx]), installed[idx].IsRemote,
               RemoveTree(InDir(installed[idx].CachedExtensions[url].dir))
        PROVE  disk[p] # Absent /\ \A u \in Urls(installed[idx]) : PathOf(installed, idx, u) # p
    <3>1. \A u \in Urls(installed[idx]) : PathOf(installed, idx, u).dir = PluginDir(installed[idx])
      BY <1>1, InstalledPath DEF InDir
    <3>2. installed[idx].CachedExtensions[url].dir = PluginDir(installed[idx])
      BY <3>1 DEF PathOf
    <3>3. disk' = Removed(InDir(PluginDir(installed[idx])))
      BY <2>2, <3>2 DEF RemoveTree, Inject
    <3> QED
      BY <1>5, <3>1, <3>3 DEF Removed, InDir
  <2>3. ASSUME NEW url \in Urls(installed[idx]), ~installed[idx].IsRemote,
               RemoveFile(installed[idx].CachedExtensions[url])
        PROVE  disk[p] # Absent /\ \A u \in Urls(installed[idx]) : PathOf(installed, idx, u) # p
    <3>1. \A u \in Urls(installed[idx]) : u = url
      BY <1>1, <2>3 DEF AllOrderly, Orderly, SingleFiles
    <3>2. disk' = Removed({PathOf(installed, idx, url)})
      BY <2>3 DEF RemoveFile, Inject, PathOf
    <3> QED
      BY <1>5, <3>1, <3>2 DEF Removed
  <2> QED
    BY <2>1, <2>2, <2>3 DEF Uninstall
<1>6. OnlyFiles(Referenced(toInstall) \union PathsAhead)'
  BY <1>1, <1>4, <1>5 DEF OnlyFiles
<1> QED
  BY <1>3, <1>6 DEF InstalledFiles

LEMMA InstalledFilesStep ==
  ASSUME Fault \intersect {"glob", "remove"} = {}, CacheInv, TidyInv, [Next]_vars
  PROVE  InstalledFiles'
<1>0. AllOrderly /\ InstalledFiles /\ IndexedFiles
  BY DEF TidyInv
<1>1. ASSUME CheckIndex, pc' = "prepare" PROVE InstalledFiles'
  <2>1. /\ pc = "check" /\ UsableIndex /\ installed' = data.plugins
        /\ UNCHANGED <<disk, toInstall, idx, visited>>
        /\ idx = 1 /\ visited = {} /\ NothingFilled(toInstall)
        /\ OnlyFiles(Referenced(data.plugins))
    BY <1>0, <1>1 DEF CheckIndex, volume, CacheInv, NotBegun, IndexedFiles, UsableIndex
  <2>2. data.plugins \in Seq(CachedPlugin)
    BY DEF CacheInv, TypeOK, InstalledJSON
  <2>3. \A i \in DOMAIN data.plugins : i = 1 \/ i > 1
    BY <2>2
  <2>4. \A i \in DOMAIN installed' : \A u : Ahead(i, u)'
    BY <2>1, <2>3 DEF Ahead
  <2>5. Referenced(data.plugins) = PathsAhead'
    BY <2>1, <2>4 DEF PathsAhead, Referenced
  <2>6. OnlyFiles(Referenced(toInstall) \union PathsAhead)'
    BY <2>1, <2>5 DEF OnlyFiles
  <2>7. FilledBehind'
    BY <2>1 DEF FilledBehind, NothingFilled
  <2> QED
    BY <2>6, <2>7 DEF InstalledFiles
<1>2. CASE Uninstall
  BY <1>0, <1>2, UninstallTidies
<1>3. ASSUME NEW url \in Extension, ResolveExtension(url) PROVE InstalledFiles'
  BY <1>0, <1>3, ResolveTidies
<1>4. CASE NextInstalled
  <2>1. /\ pc = "prepare" /\ Urls(installed[idx]) \subseteq visited
        /\ idx' = idx + 1 /\ visited' = {} /\ UNCHANGED <<disk, toInstall, installed>>
        /\ ~NoMatch(installed[idx], toInstall)
        /\ idx \in Nat /\ \A i \in DOMAIN installed : i \in Nat
        /\ FilledBehind /\ OnlyFiles(Referenced(toInstall) \union PathsAhead)
    BY <1>0, <1>4 DEF NextInstalled, volume, CacheInv, TypeOK, InstalledFiles
  <2>2. ASSUME NEW i \in DOMAIN installed, NEW u \in Urls(installed[i])
        PROVE  Ahead(i, u) <=> Ahead(i, u)'
    BY <2>1 DEF Ahead
  <2>3. PathsAhead' = PathsAhead
    BY <2>1, <2>2 DEF PathsAhead
  <2>4. FilledBehind'
    BY <2>1, <2>2 DEF FilledBehind
  <2> QED
    BY <2>1, <2>3, <2>4 DEF InstalledFiles, OnlyFiles
<1>5. CASE UNCHANGED vars
  BY <1>0, <1>5 DEF vars, volume, memory, InstalledFiles, FilledBehind, OnlyFiles, PathsAhead, Ahead
<1>6. CASE /\ Next /\ ~Uninstall /\ ~NextInstalled /\ ~CheckIndex
           /\ ~\E url \in Extension : ResolveExtension(url)
  <2>1. pc' # "prepare"
    BY <1>6 DEF Next, BrokerStep, Start, Crash, GetPlugins, ReadInstalledPlugins, ReadIndex,
         RemoveIndex, ResetPluginsDirectory, GlobPlugins, RemoveEntry, ResetDone,
         PreparePluginsToInstall, PrepareDone,
         ProcessPlugins, BeginPlugin, BeginCopy, DownloadFails, InjectPluginFails, EndCopy,
         EndPlugin, ProcessDone, WriteInstalledPlugins, BeginWrite, EndWrite
  <2> QED
    BY <2>1 DEF InstalledFiles
<1>7. CASE CheckIndex /\ pc' # "prepare"
  BY <1>7 DEF InstalledFiles
<1> QED
  BY <1>1, <1>2, <1>3, <1>4, <1>5, <1>6, <1>7

(* From there on each file is a requested plugin's, or being written.      *)
LEMMA RequestedFilesStep ==
  ASSUME Fault \intersect {"glob", "remove"} = {}, CacheInv, TidyInv, [Next]_vars
  PROVE  RequestedFiles'
<1>0. DoomedFiles /\ InstalledFiles /\ RequestedFiles
  BY DEF TidyInv
<1>1. CASE ResetPluginsDirectory
  <2>1. pc' = "process" => disk' = disk /\ toInstall' = toInstall /\ pc = "reset" /\ entries = {}
    BY <1>1 DEF ResetPluginsDirectory, GlobPlugins, RemoveEntry, ResetDone, Inject, volume, memory
  <2>2. pc' \in {"reset", "process"}
    BY <1>1 DEF ResetPluginsDirectory, GlobPlugins, RemoveEntry, ResetDone
  <2> QED
    BY <1>0, <2>1, <2>2 DEF DoomedFiles, RequestedFiles, OnlyFiles
<1>2. CASE PreparePluginsToInstall
  <2>1. PrepareDone \/ pc' = "prepare"
    BY <1>2 DEF PreparePluginsToInstall, Uninstall, ResolveExtension, NextInstalled
  <2>2. CASE PrepareDone
    <3>1. /\ OnlyFiles(Referenced(toInstall) \union PathsAhead) /\ idx \notin DOMAIN installed
          /\ UNCHANGED <<disk, toInstall>> /\ pc' = "process"
      BY <1>0, <2>2 DEF PrepareDone, InstalledFiles, volume
    <3>2. PathsAhead = {}
      <4>1. Len(installed) \in Nat /\ idx \in Nat \ {0} /\ DOMAIN installed = 1 .. Len(installed)
        BY DEF CacheInv, TypeOK
      <4>2. \A i \in DOMAIN installed : \A u : ~Ahead(i, u)
        BY <3>1, <4>1 DEF Ahead
      <4> QED
        BY <4>2 DEF PathsAhead
    <3> QED
      BY <3>1, <3>2 DEF RequestedFiles, OnlyFiles
  <2> QED
    BY <2>1, <2>2 DEF RequestedFiles
<1>3. CASE ProcessPlugins
  <2>1. ASSUME NEW url \in Extension, BeginCopy(url) PROVE RequestedFiles'
    <3>1. PICK path \in Path : disk' = [disk EXCEPT ![path] = Partial] /\ copying' = <<url, path>>
      BY <2>1 DEF BeginCopy, FreshPath, InDir
    <3>2. pc = "extensions" /\ pc' = "copy" /\ toInstall' = toInstall /\ copying'[2] = path
      BY <2>1, <3>1 DEF BeginCopy
    <3> QED
      BY <1>0, <3>1, <3>2 DEF RequestedFiles, OnlyFiles, CacheInv, TypeOK
  <2>2. CASE EndCopy
    <3>1. pc = "copy" /\ pc' \in {"extensions", "failed"}
          /\ (pc' = "extensions" =>
                /\ disk' = [disk EXCEPT ![copying[2]] = copying[1]]
                /\ toInstall' = WithPath(toInstall, idx, copying[1], copying[2]))
      BY <2>2 DEF EndCopy
    <3>2. /\ copying[2] \in Path /\ idx \in DOMAIN toInstall /\ toInstall \in Seq(CachedPlugin)
          /\ copying[1] \in Missing(toInstall[idx])
      BY <3>1 DEF CacheInv, TypeOK, CopyFresh
    <3>3. pc' = "extensions" => Referenced(toInstall) \union {copying[2]} \subseteq Referenced(toInstall')
      BY <3>1, <3>2, FillRefers
    <3>4. pc' = "extensions" => \A p \in Path : disk'[p] # Absent => disk[p] # Absent \/ p = copying[2]
      BY <3>1 DEF CacheInv, TypeOK
    <3> QED
      BY <1>0, <3>1, <3>3, <3>4 DEF RequestedFiles, OnlyFiles
  <2>3. CASE /\ UNCHANGED <<disk, toInstall>> /\ pc \in {"process", "extensions"}
             /\ pc' \in {"process", "extensions", "write", "failed"}
    BY <1>0, <2>3 DEF RequestedFiles, OnlyFiles
  <2> QED
    BY <1>3, <2>1, <2>2, <2>3 DEF ProcessPlugins, BeginPlugin, DownloadFails, InjectPluginFails,
                                  EndPlugin, ProcessDone, volume, memory
<1>4. CASE WriteInstalledPlugins
  BY <1>0, <1>4 DEF WriteInstalledPlugins, BeginWrite, EndWrite, memory, RequestedFiles, OnlyFiles
<1>5. CASE UNCHANGED vars
  BY <1>0, <1>5 DEF vars, volume, memory, RequestedFiles, OnlyFiles
<1>6. CASE Start \/ Crash \/ GetPlugins \/ ReadInstalledPlugins
  BY <1>6 DEF Start, Crash, GetPlugins, ReadInstalledPlugins, ReadIndex, RemoveIndex, CheckIndex,
              RequestedFiles
<1> QED
  BY <1>1, <1>2, <1>3, <1>4, <1>5, <1>6 DEF Next, BrokerStep

LEMMA TidyInit == Init => TidyInv
<1> SUFFICES ASSUME Init PROVE TidyInv
  OBVIOUS
<1>1. Orderly(<<>>)
  BY DEF Orderly, AskedOnce, SingleFiles
<1>2. /\ pc = "down" /\ toInstall = <<>> /\ installed = <<>>
      /\ installedJSON.plugins = <<>> /\ installedJSON.state # "current" /\ data.plugins = <<>>
  BY DEF Init, NoInstalledJSON
<1> QED
  BY <1>1, <1>2 DEF TidyInv, AllOrderly, IndexCleared, IndexedFiles, DoomedFiles, InstalledFiles,
                    RequestedFiles

(* When no plugin is asked for twice and each one without a container      *)
(* brings at most one extension, a start that publishes DONE leaves no     *)
(* file on the volume but those of the requested plugins, whatever earlier *)
(* starts and earlier versions left there and wherever they died, as long  *)
(* as the broker can list its directory and remove files.                  *)
THEOREM NothingStaleIsLeft ==
  ASSUME NamesDistinct, Fault \intersect {"glob", "remove"} = {},
         \A requested \in Request : Orderly(requested)
  PROVE  Spec => []NoStaleArtifacts
<1>1. Init => TidyInv
  BY TidyInit
<1>2. CacheInv /\ TidyInv /\ [Next]_vars => TidyInv'
  BY OrderlyStep, IndexClearedStep, IndexedFilesStep, DoomedFilesStep, InstalledFilesStep,
     RequestedFilesStep DEF TidyInv
<1>3. Spec => []CacheInv
  BY CacheInvariant
<1>4. TidyInv => NoStaleArtifacts
  BY DEF TidyInv, RequestedFiles, OnlyFiles, NoStaleArtifacts
<1> QED
  BY <1>1, <1>2, <1>3, <1>4, PTL DEF Spec

(* The invariants that these three rest on hold together, for the requests *)
(* and the failures that all of them allow.                                *)
THEOREM SyncInvariant ==
  ASSUME NamesDistinct, Fault \intersect {"read", "removeIndex", "glob", "remove"} = {},
         \A requested \in Request : Orderly(requested)
  PROVE  Spec => []SyncInv
<1>1. /\ Fault \intersect {"read", "removeIndex"} = {} /\ Fault \intersect {"glob", "remove"} = {}
      /\ \A requested \in Request : AskedOnce(requested)
  BY DEF Orderly
<1>2. Init => ExactInv /\ ReuseInv /\ TidyInv
  BY ReuseInit, TidyInit DEF Init, ExactInv, IndexGone, IndexExact, NoInstalledJSON
<1>3. CacheInv /\ ExactInv /\ [Next]_vars => ExactInv'
  BY <1>1, ExactStep
<1>4. CacheInv /\ ReuseInv /\ [Next]_vars => ReuseInv'
  BY <1>1, ReuseStep
<1>5. CacheInv /\ TidyInv /\ [Next]_vars => TidyInv'
  BY <1>1, OrderlyStep, IndexClearedStep, IndexedFilesStep, DoomedFilesStep,
     InstalledFilesStep, RequestedFilesStep DEF TidyInv
<1>6. Spec => []CacheInv
  BY CacheInvariant
<1>7. CacheInv /\ ExactInv /\ ReuseInv /\ TidyInv => SyncInv
  BY DEF SyncInv
<1> QED
  BY <1>2, <1>3, <1>4, <1>5, <1>6, <1>7, PTL DEF Spec
=============================================================================
