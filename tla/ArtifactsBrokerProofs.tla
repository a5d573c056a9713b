------------------------ MODULE ArtifactsBrokerProofs ------------------------
(***************************************************************************)
(* Proofs about the artifacts broker, for every set of plugins, extensions *)
(* and requests, and for failures of any kind and in any number.           *)
(***************************************************************************)
EXTENDS ArtifactsBroker, TLAPS

(* Storing a path for an extension gives a list of plugins.                *)
LEMMA StorePathType ==
  ASSUME NEW plugins \in Seq(CachedPlugin), NEW i, NEW url,
         NEW path \in Path \union {NotDownloaded}
  PROVE  WithPath(plugins, i, url, path) \in Seq(CachedPlugin)
<1>1. CASE i \notin DOMAIN plugins
  <2>1. ASSUME NEW plugin PROVE [plugins EXCEPT ![i] = plugin] = plugins
    BY <1>1
  <2> QED
    BY <2>1, Zenon DEF WithPath
<1>2. CASE i \in DOMAIN plugins
  <2> DEFINE exts == [plugins[i].CachedExtensions EXCEPT ![url] = path]
  <2>1. plugins[i] \in CachedPlugin
    BY <1>2
  <2>2. PICK urls \in SUBSET Extension :
          plugins[i].CachedExtensions \in [urls -> Path \union {NotDownloaded}]
    BY <2>1 DEF CachedPlugin, CachedExtensionMap
  <2>3. exts \in [urls -> Path \union {NotDownloaded}]
    BY <2>2
  <2> HIDE DEF exts
  <2>4. exts \in CachedExtensionMap
    BY <2>3 DEF CachedExtensionMap
  <2>5. [ID |-> plugins[i].ID, IsRemote |-> plugins[i].IsRemote,
         CachedExtensions |-> exts] \in CachedPlugin
    BY <2>1, <2>4 DEF CachedPlugin
  <2> QED
    BY <1>2, <2>5 DEF WithPath, exts
<1> QED
  BY <1>1, <1>2

(* It differs from the old list in the path of that extension alone.       *)
LEMMA StorePath ==
  ASSUME NEW plugins \in Seq(CachedPlugin),
         NEW i \in DOMAIN plugins,
         NEW url \in Urls(plugins[i]),
         NEW path,
         NEW stored,
         stored = WithPath(plugins, i, url, path)
  PROVE  /\ DOMAIN stored = DOMAIN plugins
         /\ \A j \in DOMAIN plugins :
              /\ stored[j].ID = plugins[j].ID
              /\ stored[j].IsRemote = plugins[j].IsRemote
              /\ Urls(stored[j]) = Urls(plugins[j])
              /\ \A u \in Urls(plugins[j]) :
                   PathOf(stored, j, u) =
                     IF j = i /\ u = url THEN path ELSE PathOf(plugins, j, u)
<1> DEFINE exts == [plugins[i].CachedExtensions EXCEPT ![url] = path]
           plugin == [ID |-> plugins[i].ID, IsRemote |-> plugins[i].IsRemote,
                      CachedExtensions |-> exts]
<1>1. plugins[i] \in CachedPlugin
  OBVIOUS
<1>2. PICK urls \in SUBSET Extension :
        plugins[i].CachedExtensions \in [urls -> Path \union {NotDownloaded}]
  BY <1>1 DEF CachedPlugin, CachedExtensionMap
<1>3. /\ DOMAIN exts = urls
      /\ \A u \in urls : exts[u] = IF u = url THEN path ELSE plugins[i].CachedExtensions[u]
  BY <1>2
<1> HIDE DEF exts
<1>4. plugin.ID = plugins[i].ID /\ plugin.IsRemote = plugins[i].IsRemote
        /\ plugin.CachedExtensions = exts
  OBVIOUS
<1>5. stored = [plugins EXCEPT ![i] = plugin]
  BY DEF WithPath, exts
<1> HIDE DEF plugin
<1>6. /\ DOMAIN stored = DOMAIN plugins
      /\ stored[i] = plugin
      /\ \A j \in DOMAIN plugins : j # i => stored[j] = plugins[j]
  BY <1>5
<1>7. DOMAIN plugins[i].CachedExtensions = urls
  BY <1>2
<1> QED
  BY <1>3, <1>4, <1>6, <1>7 DEF Urls, PathOf

(* The paths of a list of plugins are paths, or not known yet.             *)
LEMMA PathOfType ==
  ASSUME NEW plugins \in Seq(CachedPlugin),
         NEW i \in DOMAIN plugins,
         NEW url \in Urls(plugins[i])
  PROVE  /\ PathOf(plugins, i, url) \in Path \union {NotDownloaded}
         /\ url \in Extension
<1>1. plugins[i] \in CachedPlugin
  OBVIOUS
<1>2. PICK urls \in SUBSET Extension :
        plugins[i].CachedExtensions \in [urls -> Path \union {NotDownloaded}]
  BY <1>1 DEF CachedPlugin, CachedExtensionMap
<1> QED
  BY <1>2 DEF PathOf, Urls

(* A requested list is a list of plugins with no path filled in.           *)
LEMMA RequestType ==
  ASSUME NEW requested \in Request
  PROVE  /\ requested \in Seq(CachedPlugin)
         /\ \A i \in DOMAIN requested : Missing(requested[i]) = Urls(requested[i])
<1>1. requested \in Seq(RequestedPlugin)
  BY ConstantsAssumption
<1>2. \A i \in DOMAIN requested : requested[i] \in RequestedPlugin
  BY <1>1
<1>3. \A i \in DOMAIN requested : requested[i] \in CachedPlugin
  BY <1>2 DEF RequestedPlugin
<1>4. requested \in [1 .. Len(requested) -> CachedPlugin] /\ Len(requested) \in Nat
  BY <1>1, <1>3
<1>5. requested \in Seq(CachedPlugin)
  BY <1>4
<1>6. \A i \in DOMAIN requested : Missing(requested[i]) = Urls(requested[i])
  BY <1>2 DEF RequestedPlugin, Missing, Urls
<1> QED
  BY <1>5, <1>6

-----------------------------------------------------------------------------
(* Type correctness *)

LEMMA TypeInit == Init => TypeOK
<1> SUFFICES ASSUME Init PROVE TypeOK
  OBVIOUS
<1>1. disk \in [Path -> Content]
  BY DEF Init, Content
<1>2. installedJSON \in InstalledJSON /\ data \in InstalledJSON
  <2>1. NoInstalledJSON \in InstalledJSON
    BY DEF InstalledJSON, NoInstalledJSON
  <2>2. [state |-> "old", plugins |-> <<>>] \in InstalledJSON
    BY DEF InstalledJSON
  <2> QED
    BY <2>1, <2>2, Zenon DEF Init
<1>3. faults \in 0 .. MaxFaults
  BY ConstantsAssumption DEF Init
<1>4. pc = "down" /\ copying = <<>>
  BY DEF Init, Stopped
<1>5. toInstall \in Seq(CachedPlugin) /\ installed \in Seq(CachedPlugin)
  BY DEF Init
<1>6. idx \in Nat \ {0} /\ visited \subseteq Extension /\ entries \subseteq Entry
  BY DEF Init
<1> QED
  BY <1>1, <1>2, <1>3, <1>4, <1>5, <1>6 DEF TypeOK, Stopped

LEMMA TypeStep == TypeOK /\ [Next]_vars => TypeOK'
<1> SUFFICES ASSUME TypeOK, [Next]_vars PROVE TypeOK'
  OBVIOUS
<1> USE ConstantsAssumption DEF TypeOK, Stopped, Running
<1>0. NoInstalledJSON \in InstalledJSON /\ MalformedJSON \in InstalledJSON
  BY DEF NoInstalledJSON, MalformedJSON, InstalledJSON
<1>a. ASSUME NEW paths PROVE Removed(paths) \in [Path -> Content]
  BY DEF Removed, Content
<1>b. ASSUME NEW kind, Inject(kind) PROVE faults' \in 0 .. MaxFaults
  BY <1>b DEF Inject
<1>c. ASSUME NoFault PROVE faults' \in 0 .. MaxFaults
  BY <1>c DEF NoFault
<1>1. CASE Start
  BY <1>1, <1>0, <1>c DEF Start, FreshMemory, volume
<1>2. CASE GetPlugins
  <2>1. toInstall' \in Seq(CachedPlugin)
    <3>1. CASE UNCHANGED toInstall
      BY <3>1
    <3>2. CASE toInstall' \in Request
      BY <3>2, RequestType
    <3> QED
      BY <1>2, <3>1, <3>2 DEF GetPlugins
  <2> QED
    BY <1>2, <2>1, <1>b, <1>c DEF GetPlugins, volume
<1>3. CASE ReadIndex
  BY <1>3, <1>b, <1>c DEF ReadIndex, volume
<1>4. CASE RemoveIndex
  BY <1>4, <1>0, <1>b, <1>c DEF RemoveIndex, memory
<1>5. CASE CheckIndex
  BY <1>5, <1>c DEF CheckIndex, volume, InstalledJSON
<1>6. CASE GlobPlugins
  <2>1. EntriesOfPlugins \subseteq Entry
    BY DEF EntriesOfPlugins, InDir, Entry
  <2> QED
    BY <1>6, <2>1, <1>b, <1>c DEF GlobPlugins, volume
<1>7. ASSUME NEW entry \in Entry, RemoveEntry(entry) PROVE TypeOK'
  <2>1. disk' \in [Path -> Content] /\ faults' \in 0 .. MaxFaults
    BY <1>7, <1>a, <1>b, <1>c DEF RemoveEntry, RemoveTree, RemoveFile
  <2>2. installedJSON' \in InstalledJSON
    BY <1>7, <1>0 DEF RemoveEntry
  <2> QED
    BY <1>7, <2>1, <2>2 DEF RemoveEntry
<1>8. CASE ResetDone
  BY <1>8, <1>c DEF ResetDone, volume, memory
<1>9. CASE Uninstall
  <2>1. disk' \in [Path -> Content] /\ faults' \in 0 .. MaxFaults
    BY <1>9, <1>a, <1>b, <1>c DEF Uninstall, RemoveTree, RemoveFile
  <2> QED
    BY <1>9, <2>1 DEF Uninstall
<1>10. ASSUME NEW url \in Extension, ResolveExtension(url) PROVE TypeOK'
  <2>1. PICK i \in DOMAIN toInstall : KeepExtension(i, url) \/ DropExtension(i, url)
    BY <1>10 DEF ResolveExtension
  <2>2. idx \in DOMAIN installed /\ url \in Urls(installed[idx])
    BY <1>10 DEF ResolveExtension
  <2>3. CASE KeepExtension(i, url)
    <3>1. installed[idx].CachedExtensions[url] \in Path \union {NotDownloaded}
      BY <2>2, PathOfType DEF PathOf
    <3>2. toInstall' \in Seq(CachedPlugin)
      BY <2>3, <3>1, StorePathType DEF KeepExtension
    <3> QED
      BY <1>10, <2>3, <3>2, <1>c DEF ResolveExtension, KeepExtension
  <2>4. CASE DropExtension(i, url)
    BY <1>10, <2>4, <1>a, <1>b, <1>c DEF ResolveExtension, DropExtension, RemoveFile
  <2> QED
    BY <2>1, <2>3, <2>4
<1>11. CASE NextInstalled
  BY <1>11, <1>c DEF NextInstalled, volume
<1>12. CASE PrepareDone
  BY <1>12, <1>c DEF PrepareDone, volume
<1>13. CASE BeginPlugin
  BY <1>13, <1>b, <1>c DEF BeginPlugin, volume, memory
<1>14. ASSUME NEW url \in Extension, BeginCopy(url) PROVE TypeOK'
  <2>1. PICK path \in FreshPath(toInstall[idx]) :
          disk' = [disk EXCEPT ![path] = Partial] /\ copying' = <<url, path>>
    BY <1>14 DEF BeginCopy
  <2>2. path \in Path
    BY DEF FreshPath, InDir
  <2>3. disk' \in [Path -> Content] /\ copying' \in Extension \X Path
    BY <2>1, <2>2 DEF Content
  <2> QED
    BY <1>14, <2>3, <1>c DEF BeginCopy
<1>15. ASSUME NEW url \in Extension, DownloadFails(url) \/ InjectPluginFails(url)
       PROVE  TypeOK'
  BY <1>15, <1>b, <1>c DEF DownloadFails, InjectPluginFails, volume, memory
<1>16. CASE EndCopy
  <2>1. CASE Inject("copy") /\ pc' = "failed" /\ UNCHANGED <<disk, toInstall>>
    BY <1>16, <2>1, <1>b DEF EndCopy
  <2>2. CASE /\ disk' = [disk EXCEPT ![copying[2]] = copying[1]]
             /\ toInstall' = WithPath(toInstall, idx, copying[1], copying[2])
             /\ pc' = "extensions"
             /\ NoFault
    <3>1. copying[1] \in Extension /\ copying[2] \in Path
      BY <1>16 DEF EndCopy
    <3>2. toInstall' \in Seq(CachedPlugin)
      BY <2>2, <3>1, StorePathType
    <3>3. disk' \in [Path -> Content]
      BY <2>2, <3>1 DEF Content
    <3> QED
      BY <1>16, <2>2, <3>2, <3>3, <1>c DEF EndCopy
  <2> QED
    BY <1>16, <2>1, <2>2 DEF EndCopy
<1>17. CASE EndPlugin
  BY <1>17, <1>c DEF EndPlugin, volume
<1>18. CASE ProcessDone
  BY <1>18, <1>c DEF ProcessDone, volume, memory
<1>19. CASE BeginWrite
  BY <1>19, <1>0, <1>b, <1>c DEF BeginWrite, memory
<1>20. CASE EndWrite
  BY <1>20, <1>b, <1>c DEF EndWrite, memory, InstalledJSON
<1>21. CASE Crash
  BY <1>21, <1>0, <1>b DEF Crash, FreshMemory, volume
<1>22. CASE UNCHANGED vars
  BY <1>22 DEF vars, volume, memory
<1> QED
  BY <1>1, <1>2, <1>3, <1>4, <1>5, <1>6, <1>7, <1>8, <1>9, <1>10, <1>11, <1>12,
     <1>13, <1>14, <1>15, <1>16, <1>17, <1>18, <1>19, <1>20, <1>21, <1>22
  DEF Next, BrokerStep, ReadInstalledPlugins, ResetPluginsDirectory,
      PreparePluginsToInstall, ProcessPlugins, WriteInstalledPlugins

(* Every variable keeps to its type, whatever fails.                       *)
THEOREM TypeCorrect == Spec => []TypeOK
<1>1. Init => TypeOK
  BY TypeInit
<1>2. TypeOK /\ [Next]_vars => TypeOK'
  BY TypeStep
<1> QED
  BY <1>1, <1>2, PTL DEF Spec

-----------------------------------------------------------------------------
(* Facts about lists of plugins and about removals *)

(* No path of the list is filled in, so none of it has to be whole.        *)
LEMMA NothingFilledWhole ==
  ASSUME NEW files, NEW plugins, NothingFilled(plugins)
  PROVE  FilledWhole(files, plugins)
BY DEF NothingFilled, FilledWhole

LEMMA EmptyList ==
  ASSUME NEW files
  PROVE  NothingFilled(<<>>) /\ FilledWhole(files, <<>>)
BY DEF NothingFilled, FilledWhole

(* What a step may have removed: files of the given set.                   *)
Deletes(paths) ==
  \A p \in Path : disk'[p] = disk[p] \/ (p \in paths /\ disk'[p] = Absent)

LEMMA RemoveTreeDeletes ==
  ASSUME TypeOK, NEW paths, RemoveTree(paths)
  PROVE  Deletes(paths)
<1>1. CASE disk' = Removed(paths)
  BY <1>1 DEF Removed, Deletes
<1>2. CASE \E some \in SUBSET paths : disk' = Removed(some)
  BY <1>2 DEF Removed, Deletes
<1> QED
  BY <1>1, <1>2 DEF RemoveTree

LEMMA RemoveFileDeletes ==
  ASSUME TypeOK, NEW path, RemoveFile(path)
  PROVE  Deletes({path})
BY DEF RemoveFile, Removed, Deletes, TypeOK

(* Removing files does not make a list unsound.                            *)
LEMMA DeletesKeepsSound ==
  ASSUME NEW paths, Deletes(paths), NEW plugins \in Seq(CachedPlugin), Sound(disk, plugins)
  PROVE  Sound(disk', plugins)
<1>1. ASSUME NEW i \in DOMAIN plugins, NEW url \in Urls(plugins[i])
      PROVE  PathOf(plugins, i, url) \in Path
  BY DEF Sound, WellPlaced, InDir
<1> QED
  BY <1>1 DEF Sound, Deletes

(* Neither does writing a file that the list does not refer to ...         *)
LEMMA OtherFilesKeepSound ==
  ASSUME NEW path, NEW plugins, path \notin Referenced(plugins),
         \A p \in Path : p # path => disk'[p] = disk[p],
         Sound(disk, plugins)
  PROVE  Sound(disk', plugins)
<1>1. ASSUME NEW i \in DOMAIN plugins, NEW url \in Urls(plugins[i])
      PROVE  /\ PathOf(plugins, i, url) \in Path
             /\ PathOf(plugins, i, url) # path
  <2>1. PathOf(plugins, i, url) \in Path
    BY DEF Sound, WellPlaced, InDir
  <2> QED
    BY <2>1 DEF Referenced
<1> QED
  BY <1>1 DEF Sound

(* ... which takes nothing away from the paths that are filled in either.  *)
LEMMA OtherFilesKeepWhole ==
  ASSUME NEW path, NEW plugins, path \notin Referenced(plugins),
         \A p \in Path : p # path => disk'[p] = disk[p],
         FilledWhole(disk, plugins)
  PROVE  FilledWhole(disk', plugins)
<1>1. ASSUME NEW i \in DOMAIN plugins, NEW url \in Urls(plugins[i]) \ Missing(plugins[i])
      PROVE  /\ PathOf(plugins, i, url) \in Path
             /\ PathOf(plugins, i, url) # path
  <2>1. PathOf(plugins, i, url) \in Path
    BY DEF FilledWhole, WellPlaced, InDir
  <2> QED
    BY <2>1 DEF Referenced
<1> QED
  BY <1>1 DEF FilledWhole

(* Filling in the path of a file that is whole and was nobody's.           *)
LEMMA FillPath ==
  ASSUME NEW plugins \in Seq(CachedPlugin), FilledWhole(disk, plugins),
         NEW i \in DOMAIN plugins, NEW url \in Urls(plugins[i]),
         NEW path \in InDir(PluginDir(plugins[i])), path \notin Referenced(plugins),
         NEW files, files[path] = url,
         \A p \in Path : p # path => files[p] = disk[p],
         NEW stored, stored = WithPath(plugins, i, url, path)
  PROVE  /\ FilledWhole(files, stored)
         /\ Referenced(stored) \subseteq Referenced(plugins) \union {path}
         /\ \A query : NoMatch(query, stored) <=> NoMatch(query, plugins)
<1>1. /\ DOMAIN stored = DOMAIN plugins
      /\ \A j \in DOMAIN plugins :
           /\ stored[j].ID = plugins[j].ID
           /\ stored[j].IsRemote = plugins[j].IsRemote
           /\ Urls(stored[j]) = Urls(plugins[j])
           /\ \A u \in Urls(plugins[j]) :
                PathOf(stored, j, u) =
                  IF j = i /\ u = url THEN path ELSE PathOf(plugins, j, u)
  BY StorePath
<1>2. path \in Path /\ path # NotDownloaded
  BY ConstantsAssumption DEF InDir
<1>3. \A j \in DOMAIN plugins : \A u \in Urls(plugins[j]) : PathOf(plugins, j, u) # path
  BY <1>2 DEF Referenced
<1>4. ASSUME NEW j \in DOMAIN stored, NEW u \in Urls(stored[j]) \ Missing(stored[j])
      PROVE  WellPlaced(stored, j, u) /\ files[PathOf(stored, j, u)] = u
  <2>1. PluginDir(stored[j]) = PluginDir(plugins[j])
    BY <1>1 DEF PluginDir
  <2>2. CASE j = i /\ u = url
    <3>1. PathOf(stored, j, u) = path /\ path \in InDir(PluginDir(stored[j]))
      BY <1>1, <2>1, <2>2
    <3>2. ASSUME NEW k \in DOMAIN stored, NEW v \in Urls(stored[k]), PathOf(stored, k, v) = path
          PROVE  k = j /\ v = u
      BY <1>1, <1>3, <2>2, <3>2
    <3> QED
      BY <2>2, <3>1, <3>2 DEF WellPlaced
  <2>3. CASE ~(j = i /\ u = url)
    <3>1. PathOf(stored, j, u) = PathOf(plugins, j, u) /\ u \in Urls(plugins[j])
      BY <1>1, <2>3
    <3>2. u \notin Missing(plugins[j])
      BY <3>1 DEF Missing, PathOf, Urls
    <3>3. WellPlaced(plugins, j, u) /\ disk[PathOf(plugins, j, u)] = u
      BY <1>1, <3>1, <3>2 DEF FilledWhole
    <3>4. PathOf(plugins, j, u) \in Path /\ PathOf(plugins, j, u) # path
      BY <1>1, <1>3, <3>1, <3>3 DEF WellPlaced, InDir
    <3>5. ASSUME NEW k \in DOMAIN stored, NEW v \in Urls(stored[k]),
                 PathOf(stored, k, v) = PathOf(stored, j, u)
          PROVE  k = j /\ v = u
      <4>1. PathOf(plugins, k, v) = PathOf(plugins, j, u)
        BY <1>1, <3>1, <3>4, <3>5
      <4> QED
        BY <1>1, <3>3, <4>1 DEF WellPlaced
    <3> QED
      BY <2>1, <3>1, <3>3, <3>4, <3>5 DEF WellPlaced
  <2> QED
    BY <2>2, <2>3
<1>5. FilledWhole(files, stored)
  BY <1>4 DEF FilledWhole
<1>6. Referenced(stored) \subseteq Referenced(plugins) \union {path}
  BY <1>1 DEF Referenced
<1>7. \A query : NoMatch(query, stored) <=> NoMatch(query, plugins)
  <2>1. ASSUME NEW query
        PROVE  \A j \in DOMAIN plugins :
                 SamePlugin(stored[j], query) <=> SamePlugin(plugins[j], query)
    BY <1>1 DEF SamePlugin
  <2> QED
    BY <1>1, <2>1 DEF NoMatch
<1> QED
  BY <1>5, <1>6, <1>7

(* Two plugins that keep their files in one directory of sidecars are one. *)
LEMMA SameSidecar ==
  ASSUME NamesDistinct, NEW p \in CachedPlugin, NEW q \in CachedPlugin,
         q.IsRemote, PluginDir(p) = PluginDir(q)
  PROVE  SamePlugin(p, q)
<1>1. p.ID \in PluginID /\ q.ID \in PluginID /\ p.IsRemote \in BOOLEAN /\ q.IsRemote \in BOOLEAN
  BY DEF CachedPlugin
<1>2. UniqueName[q.ID] \in Sidecar /\ Root \notin Sidecar
  BY <1>1, ConstantsAssumption
<1>3. p.IsRemote
  BY <1>2 DEF PluginDir
<1>4. UniqueName[p.ID] = UniqueName[q.ID]
  BY <1>3 DEF PluginDir
<1> QED
  BY <1>1, <1>3, <1>4 DEF NamesDistinct, SamePlugin

-----------------------------------------------------------------------------
(* Each step preserves the invariant *)

LEMMA FreshMemoryPreserves ==
  ASSUME CacheInv, TypeOK', FreshMemory, pc' \in {"fetch", "down"}, UNCHANGED volume
  PROVE  CacheInv'
<1>1. NothingFilled(toInstall') /\ FilledWhole(disk', toInstall')
  BY EmptyList DEF FreshMemory
<1> QED
  BY <1>1 DEF CacheInv, FreshMemory, volume, IndexSound, NotBegun, DataSound,
              InstalledIntact, CopyFresh, ProcessedComplete

LEMMA GetPluginsPreserves ==
  ASSUME CacheInv, TypeOK', GetPlugins
  PROVE  CacheInv'
<1>1. NothingFilled(toInstall')
  <2>1. CASE toInstall' \in Request
    BY <2>1, RequestType DEF NothingFilled
  <2>2. CASE UNCHANGED toInstall
    BY <2>2 DEF GetPlugins, CacheInv, NotBegun
  <2> QED
    BY <2>1, <2>2 DEF GetPlugins
<1>2. FilledWhole(disk', toInstall')
  BY <1>1, NothingFilledWhole
<1> QED
  BY <1>1, <1>2 DEF GetPlugins, CacheInv, volume, IndexSound, NotBegun, DataSound,
                    InstalledIntact, CopyFresh, ProcessedComplete

LEMMA ReadIndexPreserves ==
  ASSUME CacheInv, TypeOK', ReadIndex
  PROVE  CacheInv'
BY DEF ReadIndex, CacheInv, volume, IndexSound, NotBegun, DataSound,
       InstalledIntact, CopyFresh, ProcessedComplete

LEMMA RemoveIndexPreserves ==
  ASSUME CacheInv, TypeOK', RemoveIndex
  PROVE  CacheInv'
BY DEF RemoveIndex, NoInstalledJSON, CacheInv, memory, IndexSound, NotBegun, DataSound,
       InstalledIntact, CopyFresh, ProcessedComplete

LEMMA GlobPluginsPreserves ==
  ASSUME CacheInv, TypeOK', GlobPlugins
  PROVE  CacheInv'
<1>1. FilledUpTo(0, toInstall)
  BY DEF FilledUpTo, CacheInv, TypeOK
<1> QED
  BY <1>1 DEF GlobPlugins, CacheInv, volume, IndexSound, NotBegun, DataSound,
       InstalledIntact, CopyFresh, ProcessedComplete

LEMMA ResetDonePreserves ==
  ASSUME CacheInv, TypeOK', ResetDone
  PROVE  CacheInv'
<1>1. FilledUpTo(0, toInstall)
  BY DEF FilledUpTo, CacheInv, TypeOK
<1> QED
  BY <1>1 DEF ResetDone, CacheInv, volume, memory, IndexSound, NotBegun, DataSound,
       InstalledIntact, CopyFresh, ProcessedComplete

LEMMA NextInstalledPreserves ==
  ASSUME CacheInv, TypeOK', NextInstalled
  PROVE  CacheInv'
BY DEF NextInstalled, CacheInv, TypeOK, volume, IndexSound, NotBegun, DataSound,
       InstalledIntact, CopyFresh, ProcessedComplete

LEMMA PrepareDonePreserves ==
  ASSUME CacheInv, TypeOK', PrepareDone
  PROVE  CacheInv'
<1>1. FilledUpTo(0, toInstall)
  BY DEF FilledUpTo, CacheInv, TypeOK
<1> QED
  BY <1>1 DEF PrepareDone, CacheInv, volume, IndexSound, NotBegun, DataSound,
       InstalledIntact, CopyFresh, ProcessedComplete

LEMMA BeginPluginPreserves ==
  ASSUME CacheInv, TypeOK', BeginPlugin
  PROVE  CacheInv'
BY DEF BeginPlugin, CacheInv, volume, memory, IndexSound, NotBegun, DataSound,
       InstalledIntact, CopyFresh, ProcessedComplete

LEMMA DownloadFailsPreserves ==
  ASSUME CacheInv, TypeOK', NEW url \in Extension, DownloadFails(url) \/ InjectPluginFails(url)
  PROVE  CacheInv'
BY DEF DownloadFails, InjectPluginFails, CacheInv, volume, memory, IndexSound, NotBegun, DataSound,
       InstalledIntact, CopyFresh, ProcessedComplete

LEMMA EndPluginPreserves ==
  ASSUME CacheInv, TypeOK', EndPlugin
  PROVE  CacheInv'
<1>1. FilledUpTo(idx' - 1, toInstall')
  <2>1. FilledUpTo(idx - 1, toInstall) /\ Missing(toInstall[idx]) = {}
    BY DEF EndPlugin, CacheInv, ProcessedComplete
  <2>2. idx \in Nat \ {0} /\ idx' = idx + 1 /\ toInstall' = toInstall
    BY DEF EndPlugin, CacheInv, TypeOK
  <2>3. \A i \in DOMAIN toInstall : i \in Nat
    BY DEF CacheInv, TypeOK
  <2>4. ASSUME NEW i \in DOMAIN toInstall, i <= idx PROVE Missing(toInstall[i]) = {}
    BY <2>1, <2>2, <2>3, <2>4 DEF FilledUpTo
  <2> QED
    BY <2>2, <2>4 DEF FilledUpTo
<1> QED
  BY <1>1 DEF EndPlugin, CacheInv, volume, IndexSound, NotBegun, DataSound,
       InstalledIntact, CopyFresh, ProcessedComplete

LEMMA ProcessDonePreserves ==
  ASSUME CacheInv, TypeOK', ProcessDone
  PROVE  CacheInv'
<1>1. FilledUpTo(Len(toInstall), toInstall)
  <2>1. FilledUpTo(idx - 1, toInstall) /\ idx \notin DOMAIN toInstall
    BY DEF ProcessDone, CacheInv, ProcessedComplete
  <2>2. idx \in Nat \ {0} /\ DOMAIN toInstall = 1 .. Len(toInstall) /\ Len(toInstall) \in Nat
    BY DEF CacheInv, TypeOK
  <2>3. \A i \in 1 .. Len(toInstall) : i <= idx - 1
    BY <2>1, <2>2
  <2> QED
    BY <2>1, <2>2, <2>3 DEF FilledUpTo
<1> QED
  BY <1>1 DEF ProcessDone, CacheInv, volume, memory, IndexSound, NotBegun, DataSound,
       InstalledIntact, CopyFresh, ProcessedComplete

LEMMA BeginWritePreserves ==
  ASSUME CacheInv, TypeOK', BeginWrite
  PROVE  CacheInv'
BY DEF BeginWrite, MalformedJSON, CacheInv, memory, IndexSound, NotBegun, DataSound,
       InstalledIntact, CopyFresh, ProcessedComplete

LEMMA StutterPreserves ==
  ASSUME CacheInv, UNCHANGED vars
  PROVE  CacheInv'
<1>1. TypeOK'
  BY DEF CacheInv, TypeOK, vars, volume, memory
<1> QED
  BY <1>1 DEF CacheInv, vars, volume, memory, IndexSound, NotBegun, DataSound,
       InstalledIntact, CopyFresh, ProcessedComplete

(* The sound index that has all its files is whole.                        *)
LEMMA CheckIndexPreserves ==
  ASSUME CacheInv, TypeOK', CheckIndex
  PROVE  CacheInv'
<1>1. CASE ~UsableIndex /\ pc' = "glob" /\ UNCHANGED installed
  BY <1>1 DEF CheckIndex, CacheInv, volume, IndexSound, NotBegun, DataSound,
       InstalledIntact, CopyFresh, ProcessedComplete
<1>2. CASE UsableIndex /\ installed' = data.plugins /\ pc' = "prepare"
  <2>1. Sound(disk, installed') /\ disk' = disk /\ toInstall' = toInstall
    BY <1>2 DEF CheckIndex, UsableIndex, CacheInv, DataSound, volume
  <2>2. NothingFilled(toInstall')
    BY <2>1 DEF CheckIndex, CacheInv, NotBegun
  <2>3. Referenced(toInstall') = {}
    BY <2>2, ConstantsAssumption DEF NothingFilled, Referenced, Missing, PathOf
  <2>4. ASSUME NEW i \in DOMAIN installed', NEW url \in Urls(installed'[i])
        PROVE  /\ WellPlaced(installed', i, url)
               /\ PathOf(installed', i, url) \notin Referenced(toInstall')
               /\ disk'[PathOf(installed', i, url)] = url
    <3>1. disk[PathOf(installed', i, url)] # Absent
      BY <1>2 DEF UsableIndex, Exists, PathOf
    <3> QED
      BY <2>1, <2>3, <3>1 DEF Sound
  <2>5. InstalledIntact'
    <3>1. visited' = {}
      BY DEF CheckIndex, CacheInv, NotBegun
    <3> QED
      BY <2>4, <3>1 DEF InstalledIntact
  <2> QED
    BY <1>2, <2>1, <2>5 DEF CheckIndex, CacheInv, volume, IndexSound, NotBegun, DataSound,
         CopyFresh, ProcessedComplete
<1> QED
  BY <1>1, <1>2 DEF CheckIndex

(* resetPluginsDirectory only removes, and nothing is needed then.         *)
LEMMA RemoveEntryPreserves ==
  ASSUME CacheInv, TypeOK', NEW entry \in Entry, RemoveEntry(entry)
  PROVE  CacheInv'
<1>1. PICK paths : Deletes(paths)
  <2>1. CASE UNCHANGED disk
    BY <2>1 DEF Deletes
  <2>2. CASE RemoveTree(UNION {InDir(dir) : dir \in Sidecar})
    BY <2>2, RemoveTreeDeletes DEF CacheInv
  <2>3. CASE RemoveFile(entry)
    BY <2>3, RemoveFileDeletes DEF CacheInv
  <2> QED
    BY <2>1, <2>2, <2>3 DEF RemoveEntry
<1>2. IndexSound'
  <2>1. CASE UNCHANGED installedJSON
    <3>1. installedJSON.plugins \in Seq(CachedPlugin)
      BY DEF CacheInv, TypeOK, InstalledJSON
    <3>2. IndexSound
      BY DEF CacheInv
    <3> QED
      BY <1>1, <2>1, <3>1, <3>2, DeletesKeepsSound DEF IndexSound
  <2>2. CASE installedJSON' = NoInstalledJSON
    BY <2>2 DEF IndexSound, NoInstalledJSON
  <2> QED
    BY <2>1, <2>2 DEF RemoveEntry
<1>3. NothingFilled(toInstall')
  BY DEF RemoveEntry, CacheInv, NotBegun
<1>4. FilledWhole(disk', toInstall')
  BY <1>3, NothingFilledWhole
<1> QED
  BY <1>2, <1>3, <1>4 DEF RemoveEntry, CacheInv, NotBegun, DataSound, InstalledIntact,
       CopyFresh, ProcessedComplete

(* A new file is none of the files that the index or toInstall refers to.  *)
LEMMA BeginCopyPreserves ==
  ASSUME CacheInv, TypeOK', NEW url \in Extension, BeginCopy(url)
  PROVE  CacheInv'
<1>1. PICK path \in FreshPath(toInstall[idx]) :
        disk' = [disk EXCEPT ![path] = Partial] /\ copying' = <<url, path>>
  BY DEF BeginCopy
<1>2. /\ path \in InDir(PluginDir(toInstall[idx]))
      /\ path \notin Referenced(installedJSON.plugins)
      /\ path \notin Referenced(toInstall)
  BY DEF FreshPath
<1>3. \A p \in Path : p # path => disk'[p] = disk[p]
  BY <1>1 DEF CacheInv, TypeOK
<1>4. IndexSound'
  <2>1. installedJSON' = installedJSON
    BY DEF BeginCopy
  <2>2. IndexSound
    BY DEF CacheInv
  <2>3. Sound(disk, installedJSON.plugins) => Sound(disk', installedJSON.plugins)
    BY <1>2, <1>3, OtherFilesKeepSound
  <2> QED
    BY <2>1, <2>2, <2>3 DEF IndexSound
<1>5. FilledWhole(disk', toInstall')
  BY <1>2, <1>3, OtherFilesKeepWhole DEF BeginCopy, CacheInv
<1>6. CopyFresh'
  BY <1>1, <1>2 DEF CopyFresh, BeginCopy, CacheInv
<1> QED
  BY <1>4, <1>5, <1>6 DEF BeginCopy, CacheInv, NotBegun, DataSound, InstalledIntact,
       ProcessedComplete

(* The complete file becomes the extension's.                              *)
LEMMA EndCopyPreserves ==
  ASSUME CacheInv, TypeOK', EndCopy
  PROVE  CacheInv'
<1>1. CASE Inject("copy") /\ pc' = "failed" /\ UNCHANGED <<disk, toInstall>>
  BY <1>1 DEF EndCopy, CacheInv, IndexSound, NotBegun, DataSound, InstalledIntact,
              CopyFresh, ProcessedComplete
<1>2. CASE /\ disk' = [disk EXCEPT ![copying[2]] = copying[1]]
           /\ toInstall' = WithPath(toInstall, idx, copying[1], copying[2])
           /\ pc' = "extensions"
  <2> DEFINE url == copying[1]
             path == copying[2]
  <2>1. /\ toInstall \in Seq(CachedPlugin)
        /\ idx \in DOMAIN toInstall
        /\ url \in Missing(toInstall[idx])
        /\ path \in InDir(PluginDir(toInstall[idx]))
        /\ path \notin Referenced(installedJSON.plugins)
        /\ path \notin Referenced(toInstall)
    BY DEF EndCopy, CacheInv, CopyFresh, TypeOK
  <2>2. url \in Urls(toInstall[idx]) /\ path \in Path
    BY <2>1 DEF Missing, InDir
  <2>3. disk'[path] = url /\ \A p \in Path : p # path => disk'[p] = disk[p]
    BY <1>2, <2>2 DEF CacheInv, TypeOK
  <2>4. toInstall' = WithPath(toInstall, idx, url, path)
    BY <1>2
  <2> HIDE DEF url, path
  <2>5. IndexSound'
    <3>1. Sound(disk, installedJSON.plugins) => Sound(disk', installedJSON.plugins)
      BY <2>1, <2>3, OtherFilesKeepSound
    <3> QED
      BY <3>1 DEF EndCopy, CacheInv, IndexSound
  <2>6. FilledWhole(disk', toInstall')
    BY <2>1, <2>2, <2>3, <2>4, FillPath DEF CacheInv
  <2>7. FilledUpTo(idx' - 1, toInstall') /\ idx' \in DOMAIN toInstall'
    <3>1. FilledUpTo(idx - 1, toInstall) /\ idx' = idx /\ idx \in Nat
      BY DEF EndCopy, CacheInv, ProcessedComplete, TypeOK
    <3>2. /\ DOMAIN toInstall' = DOMAIN toInstall
          /\ \A j \in DOMAIN toInstall :
               /\ Urls(toInstall'[j]) = Urls(toInstall[j])
               /\ \A u \in Urls(toInstall[j]) :
                    PathOf(toInstall', j, u) =
                      IF j = idx /\ u = url THEN path ELSE PathOf(toInstall, j, u)
      BY <2>1, <2>2, <2>4, StorePath
    <3>3. ASSUME NEW j \in DOMAIN toInstall, j <= idx - 1
          PROVE  Missing(toInstall'[j]) = {}
      <4>1. Missing(toInstall[j]) = {} /\ j # idx
        BY <3>1, <3>3 DEF FilledUpTo
      <4> QED
        BY <3>2, <4>1 DEF Missing, PathOf, Urls
    <3> QED
      BY <2>1, <3>1, <3>2, <3>3 DEF FilledUpTo
  <2> QED
    BY <1>2, <2>5, <2>6, <2>7 DEF EndCopy, CacheInv, NotBegun, DataSound, InstalledIntact,
         CopyFresh, ProcessedComplete
<1> QED
  BY <1>1, <1>2 DEF EndCopy

(* What is written is complete.                                            *)
LEMMA EndWritePreserves ==
  ASSUME CacheInv, TypeOK', EndWrite
  PROVE  CacheInv'
<1>1. CASE UNCHANGED installedJSON
  BY <1>1 DEF EndWrite, CacheInv, memory, IndexSound, NotBegun, DataSound, InstalledIntact,
              CopyFresh, ProcessedComplete
<1>2. CASE installedJSON' = [state |-> "current", plugins |-> toInstall]
  <2>1. /\ FilledWhole(disk, toInstall)
        /\ FilledUpTo(Len(toInstall), toInstall)
        /\ toInstall \in Seq(CachedPlugin)
    BY DEF EndWrite, CacheInv, ProcessedComplete, TypeOK
  <2>2. \A i \in DOMAIN toInstall : Missing(toInstall[i]) = {}
    BY <2>1 DEF FilledUpTo
  <2>3. Sound(disk, toInstall)
    BY <2>1, <2>2 DEF FilledWhole, Sound
  <2>4. IndexSound'
    BY <1>2, <2>3 DEF EndWrite, IndexSound
  <2> QED
    BY <2>4 DEF EndWrite, CacheInv, memory, NotBegun, DataSound, InstalledIntact,
                CopyFresh, ProcessedComplete
<1> QED
  BY <1>1, <1>2 DEF EndWrite

(* What is left after a removal that spares the files still needed.        *)
LEMMA SparingPreserves ==
  ASSUME CacheInv, TypeOK', pc = "prepare", pc' = "prepare",
         UNCHANGED <<installedJSON, toInstall, installed>>,
         NEW paths, Deletes(paths),
         paths \intersect Referenced(toInstall) = {},
         \A i \in DOMAIN installed : \A url \in Urls(installed[i]) :
           i > idx' \/ (i = idx' /\ url \notin visited') =>
             /\ i > idx \/ (i = idx /\ url \notin visited)
             /\ ~NoMatch(installed[i], toInstall) =>
                  PathOf(installed, i, url) \notin paths,
         idx' \in DOMAIN installed /\ NoMatch(installed[idx'], toInstall) => visited' = {}
  PROVE  CacheInv'
<1>1. IndexSound'
  <2>1. installedJSON.plugins \in Seq(CachedPlugin)
    BY DEF CacheInv, TypeOK, InstalledJSON
  <2> QED
    BY <2>1, DeletesKeepsSound DEF CacheInv, IndexSound
<1>2. FilledWhole(disk', toInstall)
  <2>1. ASSUME NEW i \in DOMAIN toInstall, NEW url \in Urls(toInstall[i]) \ Missing(toInstall[i])
        PROVE  WellPlaced(toInstall, i, url) /\ disk'[PathOf(toInstall, i, url)] = url
    <3>1. WellPlaced(toInstall, i, url) /\ disk[PathOf(toInstall, i, url)] = url
      BY DEF CacheInv, FilledWhole
    <3>2. PathOf(toInstall, i, url) \in Referenced(toInstall)
      BY <3>1 DEF WellPlaced, InDir, Referenced
    <3> QED
      BY <3>1, <3>2 DEF Deletes, Referenced
  <2> QED
    BY <2>1 DEF FilledWhole
<1>3. InstalledIntact'
  <2>1. ASSUME NEW i \in DOMAIN installed, NEW url \in Urls(installed[i]),
               i > idx' \/ (i = idx' /\ url \notin visited')
        PROVE  /\ PathOf(installed, i, url) \notin Referenced(toInstall)
               /\ ~NoMatch(installed[i], toInstall) => disk'[PathOf(installed, i, url)] = url
    <3>1. /\ PathOf(installed, i, url) \in Path
          /\ PathOf(installed, i, url) \notin Referenced(toInstall)
          /\ ~NoMatch(installed[i], toInstall) => disk[PathOf(installed, i, url)] = url
      BY <2>1 DEF CacheInv, InstalledIntact, WellPlaced, InDir
    <3> QED
      BY <2>1, <3>1 DEF Deletes
  <2>2. \A i \in DOMAIN installed : \A url \in Urls(installed[i]) : WellPlaced(installed, i, url)
    BY DEF CacheInv, InstalledIntact
  <2> QED
    BY <2>1, <2>2 DEF InstalledIntact
<1> QED
  BY <1>1, <1>2, <1>3 DEF CacheInv, NotBegun, DataSound, CopyFresh, ProcessedComplete

(* Uninstalling a plugin removes its own files, and no requested plugin's. *)
LEMMA UninstallPreserves ==
  ASSUME NamesDistinct, CacheInv, TypeOK', Uninstall
  PROVE  CacheInv'
<1>1. /\ pc = "prepare" /\ pc' = "prepare"
      /\ idx \in DOMAIN installed /\ idx \in Nat /\ idx' = idx + 1
      /\ NoMatch(installed[idx], toInstall)
      /\ visited = {} /\ visited' = {}
      /\ UNCHANGED <<installedJSON, toInstall, installed>>
      /\ installed \in Seq(CachedPlugin) /\ toInstall \in Seq(CachedPlugin)
  BY DEF Uninstall, CacheInv, InstalledIntact, TypeOK
<1>2. \A i \in DOMAIN installed : i \in Nat /\ (i > idx' \/ i = idx' => i > idx)
  BY <1>1
<1>3. ASSUME NEW paths, Deletes(paths),
             paths \intersect Referenced(toInstall) = {},
             \A i \in DOMAIN installed : \A url \in Urls(installed[i]) :
               i > idx /\ ~NoMatch(installed[i], toInstall) =>
                 PathOf(installed, i, url) \notin paths
      PROVE  CacheInv'
  BY <1>1, <1>2, <1>3, SparingPreserves
<1>4. CASE UNCHANGED disk
  <2>1. Deletes({})
    BY <1>4 DEF Deletes
  <2> QED
    BY <1>3, <2>1
<1>5. ASSUME NEW url \in Urls(installed[idx]), installed[idx].IsRemote,
             RemoveTree(InDir(PathOf(installed, idx, url).dir))
      PROVE  CacheInv'
  <2> DEFINE dir == PathOf(installed, idx, url).dir
  <2>1. dir = PluginDir(installed[idx])
    BY <1>1 DEF CacheInv, InstalledIntact, WellPlaced, InDir
  <2>2. Deletes(InDir(dir))
    BY <1>5, RemoveTreeDeletes DEF CacheInv
  <2> HIDE DEF dir
  <2>3. ASSUME NEW i \in DOMAIN toInstall PROVE PluginDir(toInstall[i]) # dir
    <3>1. toInstall[i] \in CachedPlugin /\ installed[idx] \in CachedPlugin
      BY <1>1
    <3>2. ~SamePlugin(toInstall[i], installed[idx])
      BY <1>1 DEF NoMatch
    <3> QED
      BY <1>5, <2>1, <3>1, <3>2, SameSidecar
  <2>4. InDir(dir) \intersect Referenced(toInstall) = {}
    <3> SUFFICES ASSUME NEW i \in DOMAIN toInstall, NEW u \in Urls(toInstall[i]),
                        PathOf(toInstall, i, u) \in Path
                 PROVE  PathOf(toInstall, i, u) \notin InDir(dir)
      BY DEF Referenced
    <3>1. u \notin Missing(toInstall[i])
      BY ConstantsAssumption DEF Missing, PathOf
    <3>2. PathOf(toInstall, i, u) \in InDir(PluginDir(toInstall[i]))
      BY <3>1 DEF CacheInv, FilledWhole, WellPlaced
    <3> QED
      BY <2>3, <3>2 DEF InDir
  <2>5. ASSUME NEW i \in DOMAIN installed, NEW u \in Urls(installed[i]),
               ~NoMatch(installed[i], toInstall)
        PROVE  PathOf(installed, i, u) \notin InDir(dir)
    <3>1. PICK j \in DOMAIN toInstall : SamePlugin(toInstall[j], installed[i])
      BY <2>5 DEF NoMatch
    <3>2. PluginDir(installed[i]) = PluginDir(toInstall[j])
      BY <3>1 DEF SamePlugin, PluginDir
    <3>3. PathOf(installed, i, u) \in InDir(PluginDir(installed[i]))
      BY <1>1 DEF CacheInv, InstalledIntact, WellPlaced
    <3> QED
      BY <2>3, <3>2, <3>3 DEF InDir
  <2> QED
    BY <1>3, <2>2, <2>4, <2>5
<1>6. ASSUME NEW url \in Urls(installed[idx]), RemoveFile(PathOf(installed, idx, url))
      PROVE  CacheInv'
  <2> DEFINE path == PathOf(installed, idx, url)
  <2>1. Deletes({path})
    BY <1>6, RemoveFileDeletes DEF CacheInv
  <2>2. WellPlaced(installed, idx, url) /\ path \notin Referenced(toInstall)
    BY <1>1 DEF CacheInv, InstalledIntact
  <2>3. ASSUME NEW i \in DOMAIN installed, NEW u \in Urls(installed[i]), i > idx
        PROVE  PathOf(installed, i, u) # path
    BY <1>1, <1>2, <2>2, <2>3 DEF WellPlaced
  <2> QED
    BY <1>3, <2>1, <2>2, <2>3
<1> QED
  BY <1>4, <1>5, <1>6 DEF Uninstall, PathOf

(* A kept extension's path moves from the old list to the new one; a       *)
(* dropped one's file is nobody's.                                         *)
LEMMA ResolveExtensionPreserves ==
  ASSUME CacheInv, TypeOK', NEW url \in Extension, ResolveExtension(url)
  PROVE  CacheInv'
<1> DEFINE path == PathOf(installed, idx, url)
<1>1. PICK i \in DOMAIN toInstall :
        /\ FirstMatch(i, installed[idx], toInstall)
        /\ KeepExtension(i, url) \/ DropExtension(i, url)
  BY DEF ResolveExtension
<1>2. /\ pc = "prepare" /\ pc' = "prepare"
      /\ idx \in DOMAIN installed /\ idx' = idx
      /\ url \in Urls(installed[idx]) \ visited
      /\ visited' = visited \union {url}
      /\ UNCHANGED <<installedJSON, installed>>
      /\ installed \in Seq(CachedPlugin) /\ toInstall \in Seq(CachedPlugin)
  BY DEF ResolveExtension, CacheInv, TypeOK
<1>3. ~NoMatch(installed[idx], toInstall)
  BY <1>1 DEF FirstMatch, NoMatch
<1>4. /\ WellPlaced(installed, idx, url)
      /\ path \notin Referenced(toInstall)
      /\ disk[path] = url
  BY <1>2, <1>3 DEF CacheInv, InstalledIntact
<1>5. \A j \in DOMAIN installed : \A u \in Urls(installed[j]) :
        j > idx \/ (j = idx /\ u \notin visited') =>
          /\ j > idx \/ (j = idx /\ u \notin visited)
          /\ PathOf(installed, j, u) # path
  <2>1. idx \in Nat /\ ~(idx > idx)
    BY DEF CacheInv, TypeOK
  <2> QED
    BY <1>2, <1>4, <2>1 DEF WellPlaced
<1> HIDE DEF path
<1>6. CASE KeepExtension(i, url)
  <2>1. url \in Urls(toInstall[i]) /\ toInstall' = WithPath(toInstall, i, url, path) /\ disk' = disk
    BY <1>6 DEF KeepExtension, path, PathOf
  <2>2. path \in InDir(PluginDir(toInstall[i]))
    <3>1. PluginDir(toInstall[i]) = PluginDir(installed[idx])
      BY <1>1 DEF FirstMatch, SamePlugin, PluginDir
    <3> QED
      BY <1>4, <3>1 DEF WellPlaced, path
  <2>3. /\ FilledWhole(disk', toInstall')
        /\ Referenced(toInstall') \subseteq Referenced(toInstall) \union {path}
        /\ \A query : NoMatch(query, toInstall') <=> NoMatch(query, toInstall)
    BY <1>2, <1>4, <2>1, <2>2, FillPath DEF CacheInv
  <2>4. InstalledIntact'
    <3>1. ASSUME NEW j \in DOMAIN installed, NEW u \in Urls(installed[j]),
                 j > idx \/ (j = idx /\ u \notin visited')
          PROVE  /\ PathOf(installed, j, u) \notin Referenced(toInstall')
                 /\ ~NoMatch(installed[j], toInstall') => disk'[PathOf(installed, j, u)] = u
      <4>1. PathOf(installed, j, u) # path
        BY <1>5, <3>1
      <4>2. /\ PathOf(installed, j, u) \notin Referenced(toInstall)
            /\ ~NoMatch(installed[j], toInstall) => disk[PathOf(installed, j, u)] = u
        BY <1>2, <1>5, <3>1 DEF CacheInv, InstalledIntact
      <4> QED
        BY <2>1, <2>3, <4>1, <4>2
    <3>2. \A j \in DOMAIN installed : \A u \in Urls(installed[j]) : WellPlaced(installed, j, u)
      BY <1>2 DEF CacheInv, InstalledIntact
    <3>3. ~NoMatch(installed[idx], toInstall')
      BY <1>3, <2>3
    <3> QED
      BY <1>2, <3>1, <3>2, <3>3 DEF InstalledIntact
  <2>5. IndexSound'
    BY <1>2, <2>1 DEF CacheInv, IndexSound
  <2> QED
    BY <1>2, <2>3, <2>4, <2>5 DEF CacheInv, NotBegun, DataSound, CopyFresh, ProcessedComplete
<1>7. CASE DropExtension(i, url)
  <2>1. Deletes({path}) /\ toInstall' = toInstall
    BY <1>7, RemoveFileDeletes DEF DropExtension, CacheInv, path, PathOf
  <2> QED
    BY <1>2, <1>3, <1>4, <1>5, <2>1, SparingPreserves
<1> QED
  BY <1>1, <1>6, <1>7

-----------------------------------------------------------------------------
(* The theorems *)

LEMMA CacheInvInit == Init => CacheInv
<1> SUFFICES ASSUME Init PROVE CacheInv
  OBVIOUS
<1>1. TypeOK
  BY TypeInit
<1>2. installedJSON.state # "current"
  BY DEF Init, NoInstalledJSON
<1>3. pc = "down" /\ toInstall = <<>>
  BY DEF Init
<1>4. FilledWhole(disk, toInstall)
  BY <1>3, EmptyList
<1> QED
  BY <1>1, <1>2, <1>3, <1>4 DEF CacheInv, IndexSound, NotBegun, DataSound, InstalledIntact,
     CopyFresh, ProcessedComplete

LEMMA CacheInvStep ==
  ASSUME NamesDistinct
  PROVE  CacheInv /\ [Next]_vars => CacheInv'
<1> SUFFICES ASSUME CacheInv, [Next]_vars PROVE CacheInv'
  OBVIOUS
<1>0. TypeOK'
  BY TypeStep DEF CacheInv
<1>1. CASE Start \/ Crash
  BY <1>0, <1>1, FreshMemoryPreserves DEF Start, Crash
<1>2. CASE GetPlugins
  BY <1>0, <1>2, GetPluginsPreserves
<1>3. CASE ReadInstalledPlugins
  BY <1>0, <1>3, ReadIndexPreserves, RemoveIndexPreserves, CheckIndexPreserves
  DEF ReadInstalledPlugins
<1>4. CASE ResetPluginsDirectory
  BY <1>0, <1>4, GlobPluginsPreserves, RemoveEntryPreserves, ResetDonePreserves
  DEF ResetPluginsDirectory
<1>5. CASE PreparePluginsToInstall
  BY <1>0, <1>5, UninstallPreserves, ResolveExtensionPreserves, NextInstalledPreserves,
     PrepareDonePreserves
  DEF PreparePluginsToInstall
<1>6. CASE ProcessPlugins
  BY <1>0, <1>6, BeginPluginPreserves, BeginCopyPreserves, DownloadFailsPreserves,
     EndCopyPreserves, EndPluginPreserves, ProcessDonePreserves
  DEF ProcessPlugins
<1>7. CASE WriteInstalledPlugins
  BY <1>0, <1>7, BeginWritePreserves, EndWritePreserves DEF WriteInstalledPlugins
<1>8. CASE UNCHANGED vars
  BY <1>8, StutterPreserves
<1> QED
  BY <1>1, <1>2, <1>3, <1>4, <1>5, <1>6, <1>7, <1>8 DEF Next, BrokerStep

(* The invariant every other theorem about the broker follows from.        *)
THEOREM CacheInvariant ==
  ASSUME NamesDistinct
  PROVE  Spec => []CacheInv
<1>1. Init => CacheInv
  BY CacheInvInit
<1>2. CacheInv /\ [Next]_vars => CacheInv'
  BY CacheInvStep
<1> QED
  BY <1>1, <1>2, PTL DEF Spec

(* Whatever fails, and however often the broker dies and starts again, the *)
(* index on the volume vouches for no file that is not the whole archive   *)
(* of the extension it is listed for (readInstalledPlugins trusts it).     *)
THEOREM IndexIsSound ==
  ASSUME NamesDistinct
  PROVE  Spec => []IndexSound
<1>1. Spec => []CacheInv
  BY CacheInvariant
<1>2. CacheInv => IndexSound
  BY DEF CacheInv
<1> QED
  BY <1>1, <1>2, PTL

(* A start that publishes DONE has every requested extension in place, if  *)
(* no two plugin ids are given one directory name.                         *)
THEOREM RequestedIsAvailable ==
  ASSUME NamesDistinct
  PROVE  Spec => []RequestedAvailable
<1>1. Spec => []CacheInv
  BY CacheInvariant
<1>2. CacheInv => RequestedAvailable
  <2> SUFFICES ASSUME CacheInv, pc = "done",
                      NEW i \in DOMAIN toInstall, NEW url \in Urls(toInstall[i])
               PROVE  /\ WellPlaced(toInstall, i, url)
                      /\ disk[PathOf(toInstall, i, url)] = url
    BY DEF RequestedAvailable
  <2>1. FilledWhole(disk, toInstall) /\ FilledUpTo(Len(toInstall), toInstall)
    BY DEF CacheInv, ProcessedComplete
  <2>2. i <= Len(toInstall)
    BY DEF CacheInv, TypeOK
  <2> QED
    BY <2>1, <2>2 DEF FilledWhole, FilledUpTo
<1> QED
  BY <1>1, <1>2, PTL

-----------------------------------------------------------------------------
(* ArtifactsBroker implements PluginCache: every step of the broker is a   *)
(* step of the cache, or one the cache does not see.                       *)

(* The file that is being written is not complete until it is.             *)
CopyPartial == pc = "copy" => disk[copying[2]] = Partial

LEMMA CopyPartialStep ==
  ASSUME TypeOK, CopyPartial, [Next]_vars
  PROVE  CopyPartial'
<1>1. CASE \E url \in Extension : BeginCopy(url)
  <2>1. PICK url \in Extension : BeginCopy(url)
    BY <1>1
  <2>2. PICK path \in FreshPath(toInstall[idx]) :
          disk' = [disk EXCEPT ![path] = Partial] /\ copying' = <<url, path>>
    BY <2>1 DEF BeginCopy
  <2>3. path \in Path /\ disk \in [Path -> Content]
    BY <2>2 DEF FreshPath, InDir, TypeOK
  <2> QED
    BY <2>2, <2>3 DEF CopyPartial
<1>2. CASE UNCHANGED vars
  BY <1>2 DEF CopyPartial, vars, volume, memory
<1>3. ASSUME pc' # "copy" PROVE CopyPartial'
  BY <1>3 DEF CopyPartial
<1> QED
  BY <1>1, <1>2, <1>3
  DEF Next, Start, BrokerStep, Crash, GetPlugins, ReadInstalledPlugins, ReadIndex,
      RemoveIndex, CheckIndex, ResetPluginsDirectory, GlobPlugins, RemoveEntry, ResetDone,
      PreparePluginsToInstall, Uninstall, ResolveExtension, NextInstalled, PrepareDone,
      ProcessPlugins, BeginPlugin, DownloadFails, InjectPluginFails, EndCopy, EndPlugin, ProcessDone,
      WriteInstalledPlugins, BeginWrite, EndWrite

-----------------------------------------------------------------------------
(* Steps of the cache *)

(* A step on the way that completes no file is one that drops some.        *)
LEMMA Drops ==
  ASSUME Phase = "syncing", Phase' = "syncing", Wanted' = Wanted,
         Available' \subseteq Available
  PROVE  Cache!CacheNext
BY DEF Cache!CacheNext, Cache!Sync, Cache!Drop

LEMMA DeletesDrop ==
  ASSUME TypeOK, NEW paths, Deletes(paths)
  PROVE  Available' \subseteq Available
<1>1. Absent \notin Extension
  BY ConstantsAssumption
<1>2. \A p \in Path : disk'[p] \in Extension => disk'[p] = disk[p]
  BY <1>1 DEF Deletes
<1> QED
  BY <1>2 DEF Available, InDir

LEMMA SameDisk ==
  ASSUME UNCHANGED disk
  PROVE  Available' = Available
BY DEF Available

(* A step that changes neither the files nor the list of plugins.          *)
LEMMA Quiet ==
  ASSUME pc \in Running \ {"fetch"}, pc' \in Running \ {"fetch"},
         UNCHANGED <<disk, toInstall>>
  PROVE  Cache!CacheNext
<1>1. Phase = "syncing" /\ Phase' = "syncing"
  BY DEF Phase
<1>2. Wanted' = Wanted
  BY <1>1 DEF Wanted, Places
<1> QED
  BY <1>1, <1>2, SameDisk, Drops

(* A start that fails or dies leaves the files as they are.                *)
LEMMA Failing ==
  ASSUME pc \in Running, pc' \in {"down", "failed"}, UNCHANGED disk
  PROVE  Cache!CacheNext
<1>1. Phase \in {"starting", "syncing"} /\ Phase' = "idle"
  BY DEF Phase, Running
<1>2. Wanted' = {}
  BY <1>1 DEF Wanted
<1> QED
  BY <1>1, <1>2, SameDisk DEF Cache!CacheNext, Cache!Fail

LEMMA StartBegins ==
  ASSUME Start
  PROVE  Cache!CacheNext
<1>1. Phase \in {"idle", "ready"} /\ Phase' = "starting"
  BY DEF Start, Stopped, Phase, Running
<1>2. Wanted' = {} /\ UNCHANGED disk
  BY <1>1 DEF Wanted, Start, volume
<1> QED
  BY <1>1, <1>2, SameDisk DEF Cache!CacheNext, Cache!Begin

LEMMA PlacesType ==
  ASSUME NEW plugins \in Seq(CachedPlugin)
  PROVE  Places(plugins) \subseteq Dir \X Extension
<1> SUFFICES ASSUME NEW i \in DOMAIN plugins, NEW url \in Urls(plugins[i])
             PROVE  <<PluginDir(plugins[i]), url>> \in Dir \X Extension
  BY DEF Places
<1>1. url \in Extension
  BY PathOfType
<1>2. plugins[i] \in CachedPlugin
  OBVIOUS
<1>3. PluginDir(plugins[i]) \in Dir
  BY <1>2, ConstantsAssumption DEF CachedPlugin, PluginDir, Dir
<1> QED
  BY <1>1, <1>3

LEMMA GetPluginsWants ==
  ASSUME TypeOK, TypeOK', GetPlugins
  PROVE  Cache!CacheNext
<1>1. CASE pc' = "failed"
  BY <1>1, Failing DEF GetPlugins, Running, volume
<1>2. CASE pc' = "read"
  <2>1. Phase = "starting" /\ Phase' = "syncing"
    BY <1>2 DEF GetPlugins, Phase, Running
  <2>2. Wanted' \subseteq Dir \X Extension
    BY PlacesType DEF Wanted, TypeOK
  <2>3. UNCHANGED disk
    BY DEF GetPlugins, volume
  <2> QED
    BY <2>1, <2>2, <2>3, SameDisk DEF Cache!CacheNext, Cache!Want, Cache!Place
<1> QED
  BY <1>1, <1>2 DEF GetPlugins

LEMMA RemoveEntryDrops ==
  ASSUME TypeOK, NEW entry \in Entry, RemoveEntry(entry)
  PROVE  Cache!CacheNext
<1>1. PICK paths : Deletes(paths)
  BY RemoveTreeDeletes, RemoveFileDeletes DEF RemoveEntry, Deletes
<1>2. Phase = "syncing" /\ Phase' = "syncing" /\ Wanted' = Wanted
  BY DEF RemoveEntry, Phase, Running, Wanted, Places
<1> QED
  BY <1>1, <1>2, DeletesDrop, Drops

LEMMA UninstallDrops ==
  ASSUME TypeOK, Uninstall
  PROVE  Cache!CacheNext
<1>1. PICK paths : Deletes(paths)
  <2>1. CASE UNCHANGED disk
    BY <2>1 DEF Deletes
  <2>2. CASE \E url \in Urls(installed[idx]) :
               RemoveTree(InDir(installed[idx].CachedExtensions[url].dir))
    BY <2>2, RemoveTreeDeletes
  <2>3. CASE \E url \in Urls(installed[idx]) :
               RemoveFile(installed[idx].CachedExtensions[url])
    BY <2>3, RemoveFileDeletes
  <2> QED
    BY <2>1, <2>2, <2>3 DEF Uninstall
<1>2. Phase = "syncing" /\ Phase' = "syncing" /\ Wanted' = Wanted
  BY DEF Uninstall, Phase, Running, Wanted, Places
<1> QED
  BY <1>1, <1>2, DeletesDrop, Drops

(* Filling in a path changes nothing in what is wanted.                    *)
LEMMA StorePathPlaces ==
  ASSUME NEW plugins \in Seq(CachedPlugin),
         NEW i \in DOMAIN plugins,
         NEW url \in Urls(plugins[i]),
         NEW path,
         NEW stored,
         stored = WithPath(plugins, i, url, path)
  PROVE  Places(stored) = Places(plugins)
<1>1. /\ DOMAIN stored = DOMAIN plugins
      /\ \A j \in DOMAIN plugins :
           /\ stored[j].ID = plugins[j].ID
           /\ stored[j].IsRemote = plugins[j].IsRemote
           /\ Urls(stored[j]) = Urls(plugins[j])
  BY StorePath
<1>2. \A j \in DOMAIN plugins : PluginDir(stored[j]) = PluginDir(plugins[j])
  BY <1>1 DEF PluginDir
<1> QED
  BY <1>1, <1>2 DEF Places

LEMMA ResolveExtensionDrops ==
  ASSUME TypeOK, NEW url \in Extension, ResolveExtension(url)
  PROVE  Cache!CacheNext
<1>1. PICK i \in DOMAIN toInstall : KeepExtension(i, url) \/ DropExtension(i, url)
  BY DEF ResolveExtension
<1>2. Phase = "syncing" /\ Phase' = "syncing"
  BY DEF ResolveExtension, Phase, Running
<1>3. CASE KeepExtension(i, url)
  <2>1. Places(toInstall') = Places(toInstall)
    BY <1>3, StorePathPlaces DEF KeepExtension, TypeOK
  <2>2. Wanted' = Wanted /\ UNCHANGED disk
    BY <1>2, <1>3, <2>1 DEF Wanted, KeepExtension
  <2> QED
    BY <1>2, <2>2, SameDisk, Drops
<1>4. CASE DropExtension(i, url)
  <2>1. PICK paths : Deletes(paths)
    BY <1>4, RemoveFileDeletes DEF DropExtension
  <2>2. Wanted' = Wanted
    BY <1>2, <1>4 DEF Wanted, Places, DropExtension
  <2> QED
    BY <1>2, <2>1, <2>2, DeletesDrop, Drops
<1> QED
  BY <1>1, <1>3, <1>4

LEMMA BeginCopyDrops ==
  ASSUME TypeOK, NEW url \in Extension, BeginCopy(url)
  PROVE  Cache!CacheNext
<1>1. PICK path \in FreshPath(toInstall[idx]) : disk' = [disk EXCEPT ![path] = Partial]
  BY DEF BeginCopy
<1>2. \A p \in Path : disk'[p] \in Extension => disk'[p] = disk[p]
  BY <1>1, ConstantsAssumption DEF TypeOK
<1>3. Available' \subseteq Available
  BY <1>2 DEF Available, InDir
<1>4. Phase = "syncing" /\ Phase' = "syncing" /\ Wanted' = Wanted
  BY DEF BeginCopy, Phase, Running, Wanted, Places
<1> QED
  BY <1>3, <1>4, Drops

(* The archive of a wanted extension is complete, and it is the only file  *)
(* that has changed.                                                       *)
LEMMA EndCopyProvides ==
  ASSUME CacheInv, CopyPartial, EndCopy
  PROVE  Cache!CacheNext
<1>1. CASE pc' = "failed" /\ UNCHANGED disk
  BY <1>1, Failing DEF EndCopy, Running
<1>2. CASE /\ disk' = [disk EXCEPT ![copying[2]] = copying[1]]
           /\ toInstall' = WithPath(toInstall, idx, copying[1], copying[2])
           /\ pc' = "extensions"
  <2> DEFINE url == copying[1]
             path == copying[2]
             dir == PluginDir(toInstall[idx])
  <2>1. /\ toInstall \in Seq(CachedPlugin)
        /\ idx \in DOMAIN toInstall
        /\ url \in Missing(toInstall[idx])
        /\ path \in InDir(dir)
        /\ disk \in [Path -> Content]
        /\ disk[path] = Partial
    BY DEF EndCopy, CacheInv, CopyFresh, CopyPartial, TypeOK
  <2>2. url \in Urls(toInstall[idx]) /\ path \in Path /\ path.dir = dir
    BY <2>1 DEF Missing, InDir
  <2>3. disk'[path] = url /\ \A p \in Path : p # path => disk'[p] = disk[p]
    BY <1>2, <2>1, <2>2
  <2>4. toInstall' = WithPath(toInstall, idx, url, path)
    BY <1>2
  <2> HIDE DEF url, path
  <2>5. Phase = "syncing" /\ Phase' = "syncing"
    BY <1>2 DEF EndCopy, Phase, Running
  <2>6. Wanted' = Wanted
    BY <2>1, <2>2, <2>4, <2>5, StorePathPlaces DEF Wanted
  <2>7. <<dir, url>> \in Wanted
    BY <2>1, <2>2, <2>5 DEF Wanted, Places
  <2>8. url \in Extension /\ dir \in Dir
    BY <2>7, <2>1, <2>5, PlacesType DEF Wanted
  <2>9. Partial \notin Extension
    BY ConstantsAssumption
  <2>10. Available' = Available \union {<<dir, url>>}
    <3>1. ASSUME NEW d \in Dir, NEW x \in Extension
          PROVE  <<d, x>> \in Available' <=> <<d, x>> \in Available \union {<<dir, url>>}
      <4>1. <<d, x>> \in Available' <=> \E p \in Path : p.dir = d /\ disk'[p] = x
        BY DEF Available, InDir
      <4>2. <<d, x>> \in Available <=> \E p \in Path : p.dir = d /\ disk[p] = x
        BY DEF Available, InDir
      <4> QED
        BY <2>1, <2>2, <2>3, <2>9, <4>1, <4>2
    <3>2. Available \subseteq Dir \X Extension /\ Available' \subseteq Dir \X Extension
      BY DEF Available
    <3> QED
      BY <2>8, <3>1, <3>2
  <2> QED
    BY <2>5, <2>6, <2>7, <2>10 DEF Cache!CacheNext, Cache!Sync, Cache!Provide
<1> QED
  BY <1>1, <1>2 DEF EndCopy

(* When the last loop is over, everything that is wanted is there.         *)
LEMMA WriteSucceeds ==
  ASSUME CacheInv, pc \in {"write", "writing"}, pc' = "done",
         UNCHANGED <<disk, toInstall>>
  PROVE  Cache!CacheNext
<1>1. Phase = "syncing" /\ Phase' = "ready"
  BY DEF Phase, Running
<1>2. Wanted' = Wanted
  BY <1>1 DEF Wanted, Places
<1>3. ASSUME NEW i \in DOMAIN toInstall, NEW url \in Urls(toInstall[i])
      PROVE  <<PluginDir(toInstall[i]), url>> \in Available
  <2>1. FilledWhole(disk, toInstall) /\ FilledUpTo(Len(toInstall), toInstall)
    BY DEF CacheInv, ProcessedComplete
  <2>2. i <= Len(toInstall) /\ toInstall \in Seq(CachedPlugin)
    BY DEF CacheInv, TypeOK
  <2>3. /\ PathOf(toInstall, i, url) \in InDir(PluginDir(toInstall[i]))
        /\ disk[PathOf(toInstall, i, url)] = url
    BY <2>1, <2>2 DEF FilledWhole, FilledUpTo, WellPlaced
  <2>4. <<PluginDir(toInstall[i]), url>> \in Dir \X Extension
    BY <2>2, PlacesType DEF Places
  <2> QED
    BY <2>3, <2>4 DEF Available
<1>4. Wanted \subseteq Available
  BY <1>1, <1>3 DEF Wanted, Places
<1> QED
  BY <1>1, <1>2, <1>4, SameDisk DEF Cache!CacheNext, Cache!Succeed

-----------------------------------------------------------------------------
LEMMA CacheInit == Init => Cache!CacheInit
<1> SUFFICES ASSUME Init PROVE Cache!CacheInit
  OBVIOUS
<1>1. \A p \in Path : disk[p] \notin Extension
  BY ConstantsAssumption DEF Init
<1>2. Available = {}
  BY <1>1 DEF Available, InDir
<1>3. Phase = "idle"
  BY DEF Init, Phase, Running
<1> QED
  BY <1>2, <1>3 DEF Wanted, Cache!CacheInit

LEMMA CacheStep ==
  ASSUME CacheInv, TypeOK', CopyPartial, [Next]_vars
  PROVE  [Cache!CacheNext]_(Cache!cacheVars)
<1> USE DEF CacheInv
<1>1. CASE Start
  BY <1>1, StartBegins
<1>2. CASE Crash
  BY <1>2, Failing DEF Crash, volume
<1>3. CASE GetPlugins
  BY <1>3, GetPluginsWants
<1>4. CASE ReadInstalledPlugins
  BY <1>4, Quiet DEF ReadInstalledPlugins, ReadIndex, RemoveIndex, CheckIndex, Running,
     volume, memory
<1>5. CASE ResetPluginsDirectory
  BY <1>5, Quiet, RemoveEntryDrops DEF ResetPluginsDirectory, GlobPlugins, ResetDone,
     Running, volume, memory
<1>6. CASE PreparePluginsToInstall
  BY <1>6, Quiet, UninstallDrops, ResolveExtensionDrops
  DEF PreparePluginsToInstall, NextInstalled, PrepareDone, Running, volume
<1>7. CASE ProcessPlugins
  <2>1. CASE BeginPlugin
    BY <2>1, Quiet, Failing DEF BeginPlugin, Running, volume, memory
  <2>2. ASSUME NEW url \in Extension, BeginCopy(url)
        PROVE  Cache!CacheNext
    BY <2>2, BeginCopyDrops
  <2>3. ASSUME NEW url \in Extension, DownloadFails(url) \/ InjectPluginFails(url)
        PROVE  Cache!CacheNext
    BY <2>3, Failing DEF DownloadFails, InjectPluginFails, Running, volume
  <2>4. CASE EndCopy
    BY <2>4, EndCopyProvides
  <2>5. CASE EndPlugin \/ ProcessDone
    BY <2>5, Quiet DEF EndPlugin, ProcessDone, Running, volume, memory
  <2> QED
    BY <1>7, <2>1, <2>2, <2>3, <2>4, <2>5 DEF ProcessPlugins
<1>8. CASE WriteInstalledPlugins
  BY <1>8, Quiet, WriteSucceeds DEF WriteInstalledPlugins, BeginWrite, EndWrite, Running,
     memory
<1>9. CASE UNCHANGED vars
  <2>1. UNCHANGED <<disk, toInstall, pc>>
    BY <1>9 DEF vars, volume, memory
  <2>2. UNCHANGED <<Available, Wanted, Phase>>
    BY <2>1 DEF Available, Wanted, Phase, Places
  <2> QED
    BY <2>2 DEF Cache!cacheVars
<1> QED
  BY <1>1, <1>2, <1>3, <1>4, <1>5, <1>6, <1>7, <1>8, <1>9 DEF Next, BrokerStep

(* The artifacts broker implements the cache, if no two plugin ids are     *)
(* given one directory name: the index, partial files, failing calls and   *)
(* crashes do not show in what containers find on the volume.              *)
THEOREM CacheImplemented ==
  ASSUME NamesDistinct
  PROVE  Spec => ImplementsCache
<1>1. Init => Cache!CacheInit /\ CopyPartial
  BY CacheInit DEF Init, CopyPartial
<1>2. CacheInv /\ CopyPartial /\ [Next]_vars => CopyPartial'
  BY CopyPartialStep DEF CacheInv
<1>3. CacheInv /\ CacheInv' /\ CopyPartial /\ [Next]_vars
        => [Cache!CacheNext]_(Cache!cacheVars)
  BY CacheStep DEF CacheInv
<1>4. Spec => []CacheInv
  BY CacheInvariant
<1> QED
  BY <1>1, <1>2, <1>3, <1>4, PTL DEF Spec, ImplementsCache, Cache!CacheSpec
=============================================================================
