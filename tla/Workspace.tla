------------------------------ MODULE Workspace ------------------------------
(***************************************************************************)
(* The starts of a workspace, with both brokers.  The metadata broker runs *)
(* before the workspace's pod is made and says which directory each        *)
(* sidecar finds its plugins in; the artifacts broker is an init container *)
(* of the pod, fetches the same metas again, in a process of its own, and  *)
(* fills the directories of the /plugins volume.  The volume is kept from  *)
(* one start to the next; the request may change in between.               *)
(*                                                                         *)
(* The metadata broker is MetadataBroker, step by step.  The artifacts     *)
(* broker is PluginCache, which ArtifactsBroker implements, and what it    *)
(* computes before it touches the volume.                                  *)
(***************************************************************************)
EXTENDS MetadataBroker

CONSTANTS
  ArtifactsPath,  \* PluginID -> the directory ConvertIDToUniqueName names
  Root,           \* /plugins itself
  Relative,       \* extensions written relative:extension/...
  Escaping,       \* those of them with ".." in the path
  RelativeURL     \* Relative -> the URL in the default registry

(* A directory is the same word here as in PluginsPath.                    *)
ASSUME WorkspaceAssumption ==
  /\ ArtifactsPath \in [PluginID -> Word]
  /\ Root \in Word
  /\ Relative \subseteq Word
  /\ Escaping \subseteq Relative
  /\ RelativeURL \in [Relative -> Word]

VARIABLES
  available,      \* <<directory, URL>> of the extensions on the volume
  wanted,         \* those the artifacts broker has to provide
  phase,          \* of the artifacts broker
  stage           \* "metadata", "pod", "running" or "stopped"

Cache == INSTANCE PluginCache WITH Directory <- Word, Extension <- Word

cacheVars == <<available, wanted, phase>>
workspaceVars == <<vars, cacheVars, stage>>

(* The artifacts broker runs in the pod, and nowhere else.                 *)
WorkspaceTypeOK ==
  /\ TypeOK
  /\ Cache!CacheTypeOK
  /\ stage \in {"metadata", "pod", "running", "stopped"}
  /\ (stage = "pod") = (phase \in {"starting", "syncing"})
  /\ stage = "running" => phase = "ready" /\ pc = "done"

WorkspaceInit == StartInit /\ Cache!CacheInit /\ stage = "metadata"

(* The start is over, or the workspace is: but for the volume, nothing is  *)
(* left of it.                                                             *)
GoDown ==
  /\ stage' = "stopped"
  /\ pc' = "fetch"
  /\ request' = <<>>
  /\ metas' = <<>>
  /\ collisions' = <<>>
  /\ injection' = None
  /\ metasToProcess' = <<>>
  /\ tooling' = <<>>
  /\ plugins' = <<>>
  /\ sorted' = 0
  /\ toMerge' = [image \in Image |-> <<>>]
  /\ pending' = {}
  /\ unmodified' = <<>>
  /\ merged' = <<>>
  /\ UNCHANGED flags

-----------------------------------------------------------------------------
(* The metadata broker *)

Provision ==
  /\ stage = "metadata"
  /\ BrokerStep
  /\ UNCHANGED <<cacheVars, stage>>

(* The broker has reported FAILED, or the master misses it.                *)
ProvisionFails ==
  /\ stage = "metadata"
  /\ pc = "failed"
  /\ GoDown
  /\ UNCHANGED cacheVars

ProvisionDies ==
  /\ stage = "metadata"
  /\ GoDown
  /\ UNCHANGED cacheVars

(* The master has the tooling, and makes the pod of it.                    *)
StartPod ==
  /\ stage = "metadata"
  /\ pc = "done"
  /\ stage' = "pod"
  /\ Cache!Begin
  /\ UNCHANGED vars

-----------------------------------------------------------------------------
(* The artifacts broker *)

Unresolvable(extension) ==
  extension \in Relative /\ (~flags.registry \/ extension \in Escaping)

URLOf(extension) == IF extension \in Relative THEN RelativeURL[extension] ELSE extension

(* Every extension, or the first that cannot be resolved ends the start.   *)
ResolveRelativeExtensionPaths(list) ==
  [i \in DOMAIN list |->
     [list[i] EXCEPT !.Extensions = [k \in DOMAIN @ |-> URLOf(@[k])]]]

(* Mutant: the artifacts broker does not look at merge-plugins.            *)
NeverMerged(list) == {list}

(* MergePlugins, in a process of its own and on resolved extensions.       *)
MetasToInstall(list) == IF flags.merge THEN MergedLists(list) ELSE {list}

PathInPlugins(meta) == IF meta.Containers # <<>> THEN ArtifactsPath[meta.ID] ELSE Root

convertMetasToPlugins(list) ==
  UNION {{PathInPlugins(meta)} \X ToSet(meta.Extensions) :
           meta \in {list[i] : i \in {k \in DOMAIN list : IsTheiaOrVscodePlugin(list[k])}}}

(* Mutant: relative extensions are left as they are.                       *)
PrepareUnresolved ==
  /\ stage = "pod" /\ phase = "starting"
  /\ \E list \in MetasToInstall(metas) : wanted' = convertMetasToPlugins(list)
  /\ Cache!Want
  /\ UNCHANGED <<vars, stage>>

(* The registries answer as they did a moment ago.                         *)
PrepareArtifacts ==
  /\ stage = "pod" /\ phase = "starting"
  /\ \A i \in DOMAIN metas : \A k \in DOMAIN metas[i].Extensions :
       ~Unresolvable(metas[i].Extensions[k])
  /\ \E resolved \in {ResolveRelativeExtensionPaths(metas)} :
       \E list \in MetasToInstall(resolved) : wanted' = convertMetasToPlugins(list)
  /\ Cache!Want
  /\ UNCHANGED <<vars, stage>>

ProcessArtifacts ==
  /\ stage = "pod"
  /\ Cache!Sync
  /\ UNCHANGED <<vars, stage>>

ArtifactsDone ==
  /\ stage = "pod"
  /\ Cache!Succeed
  /\ stage' = "running"
  /\ UNCHANGED vars

(* Mutant: the broker is run again in the pod that it failed in.           *)
ArtifactsRetried ==
  /\ stage = "pod"
  /\ phase' = "starting"
  /\ wanted' = {}
  /\ UNCHANGED <<vars, available, stage>>

ArtifactsFail ==
  /\ stage = "pod"
  /\ Cache!Fail
  /\ GoDown

-----------------------------------------------------------------------------
(* The workspace *)

Stop ==
  /\ stage = "running"
  /\ GoDown
  /\ UNCHANGED cacheVars

(* A new start, for the same plugins or for others, on the same volume.    *)
Restart ==
  /\ stage = "stopped"
  /\ stage' = "metadata"
  /\ flags' \in Flag
  /\ request' \in Request
  /\ UNCHANGED <<pc, metas, collisions, injection, metasToProcess, tooling, mergeVars, cacheVars>>

Brokering ==
  \/ Provision
  \/ ProvisionFails
  \/ StartPod
  \/ PrepareArtifacts

WorkspaceNext ==
  \/ Brokering
  \/ ProvisionDies
  \/ ProcessArtifacts
  \/ ArtifactsDone
  \/ ArtifactsFail
  \/ Stop
  \/ Restart

(* Processes that have something to do go on; the sync ends one way or the *)
(* other, as Terminates of ArtifactsBroker says it does.                   *)
WorkspaceSpec ==
  /\ WorkspaceInit
  /\ [][WorkspaceNext]_workspaceVars
  /\ WF_workspaceVars(Brokering)
  /\ WF_workspaceVars(ArtifactsDone \/ ArtifactsFail)

-----------------------------------------------------------------------------
(* Properties *)

(* Where the container that runs a plugin looks for extensions; a plugin   *)
(* without one runs in the editor's.                                       *)
LooksIn(plugin) ==
  IF plugin.Containers = <<>> THEN Root
  ELSE Named("THEIA_PLUGINS", Sidecar(plugin).Env)[1].Value

Serves(plugin, meta) ==
  /\ plugin.Type \in TheiaTypes
  /\ Len(plugin.Containers) = Len(meta.Containers)
  /\ \A k \in DOMAIN meta.Containers : Runs(plugin.Containers[k], meta.Containers[k])
  /\ plugin.ID = meta.ID \/ (flags.merge /\ pluginMergable(meta))

(* In a running workspace every extension of every Theia plugin it asks    *)
(* for is on the volume, in the directory that the container which runs    *)
(* the plugin was told of before the pod was made: the two brokers, which  *)
(* merge on their own and name the directory after different fields, agree *)
(* whatever was on the volume before.                                      *)
SidecarsFindExtensions ==
  stage = "running" =>
    \A i \in DOMAIN metas :
      IsTheiaOrVscodePlugin(metas[i]) =>
        \E j \in DOMAIN tooling :
          /\ Serves(tooling[j], metas[i])
          /\ \A k \in DOMAIN metas[i].Extensions :
               <<LooksIn(tooling[j]), URLOf(metas[i].Extensions[k])>> \in available

(* A start ends: with a workspace that runs, or with one that does not.    *)
StartEnds == stage \in {"metadata", "pod"} ~> stage \in {"running", "stopped"}
-----------------------------------------------------------------------------
(* The inductive invariant that these properties rest on.                  *)

(* What GoDown leaves of a start, and a new one finds.                     *)
NothingLeft ==
  /\ pc = "fetch"
  /\ flags \in Flags
  /\ request = <<>>
  /\ metas = <<>>
  /\ collisions = <<>>
  /\ injection = None
  /\ metasToProcess = <<>>
  /\ tooling = <<>>
  /\ BeginsWith(<<>>)

(* Both brokers of a start work for the same metas, and the pod is made    *)
(* when the first has ended well.                                          *)
Provisioning ==
  /\ IF stage = "stopped" THEN NothingLeft ELSE MetadataInv
  /\ stage \in {"pod", "running"} => pc = "done"

(* What the second provides is what they ask for.                          *)
Installing ==
  /\ phase = "syncing" \/ stage = "running" =>
       \E list \in MetasToInstall(ResolveRelativeExtensionPaths(metas)) :
         wanted = convertMetasToPlugins(list)
  /\ stage = "running" => wanted \subseteq available

WorkspaceInv == WorkspaceTypeOK /\ Provisioning /\ Installing
=============================================================================
