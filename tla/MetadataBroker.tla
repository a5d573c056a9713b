--------------------------- MODULE MetadataBroker ---------------------------
(***************************************************************************)
(* The metadata broker (src/brokers/metadata): before the pod of a         *)
(* workspace is made, it fetches the meta.yaml of every plugin, checks     *)
(* them, merges plugins when it is told to, adds to each sidecar what it   *)
(* needs to run plugins, and publishes the result as the workspace's       *)
(* tooling.  A step is one fetch, one iteration of a loop or one check of  *)
(* the whole list; any failure ends the start with no tooling.             *)
(***************************************************************************)
EXTENDS MergePlugins

CONSTANTS
  Request,           \* lists of PluginFQN a start may be given
  Served,            \* PluginFQN -> the meta.yaml its URL serves, if any
  Flag,              \* the settings a start may run with
  CheTheia,          \* titles whose name is che-theia
  RandomWord,        \* ports common.Random may return
  PluginsPath,       \* Title -> THEIA_PLUGINS, made of GetPluginUniqueName
  None,              \* an id that is missing, an injection that is not needed
  Failure            \* the error result of GetRuntimeInjection

PluginFQN ==
  [ID : PluginID \union {None}, Reference : BOOLEAN, Registry : BOOLEAN]

(* The flags merge-plugins and use-localhost-in-plugin-urls, and whether   *)
(* there is a default registry.                                            *)
Flags == [merge : BOOLEAN, localhost : BOOLEAN, registry : BOOLEAN]

(* meta.yaml: like a PluginMeta, but the id may be missing.                *)
MetaFile == MetaWith(PluginID \union {None})
WithID(raw, id) == [raw EXCEPT !.ID = id]

ChePlugin ==
  [ID : PluginID, Title : Title, Type : PluginType, Containers : Seq(Container),
   InitContainers : Seq(Container), Endpoints : Seq(Endpoint),
   WorkspaceEnv : Seq(EnvVar)]

RemotePluginInjection == [Env : EnvVar, Volume : Volume]

ASSUME MetadataAssumption ==
  /\ Request \subseteq Seq(PluginFQN)
  /\ \A fqn \in DOMAIN Served : Served[fqn] \in MetaFile
  /\ Flag \subseteq Flags
  /\ CheTheia \subseteq Title
  /\ RandomWord \subseteq Word
  /\ {"plugins", "/plugins", "THEIA_PLUGINS", "THEIA_PLUGIN_ENDPOINT_PORT"} \subseteq Word
  /\ PluginsPath \in [Title -> Word]
  /\ None \notin PluginID \union RemotePluginInjection

VARIABLES
  pc,             \* what the broker does next
  flags,          \* the settings of this start
  request,        \* the plugins it was asked for
  metas,          \* the metas fetched so far
  collisions,     \* extension -> ids, as the log warns of them
  injection,      \* result of GetRuntimeInjection
  metasToProcess, \* the metas, merged or not
  tooling         \* the ChePlugins made so far

metadataVars == <<pc, flags, request, metas, collisions, injection, metasToProcess, tooling>>
vars == <<metadataVars, mergeVars>>

TypeOK ==
  /\ pc \in {"fetch", "validate", "merge", "process", "done", "failed"}
  /\ flags \in Flags
  /\ request \in Seq(PluginFQN)
  /\ metas \in Seq(PluginMeta)
  /\ DOMAIN collisions \subseteq Word /\ \A e \in DOMAIN collisions : collisions[e] \in Seq(PluginID)
  /\ injection \in RemotePluginInjection \union {None}
  /\ metasToProcess \in Seq(PluginMeta)
  /\ tooling \in Seq(ChePlugin)
  /\ MergeTypeOK

StartInit ==
  /\ pc = "fetch"
  /\ flags \in Flag
  /\ request \in Request
  /\ metas = <<>>
  /\ collisions = <<>>
  /\ injection = None
  /\ metasToProcess = <<>>
  /\ tooling = <<>>
  /\ BeginsWith(<<>>)

-----------------------------------------------------------------------------
(* GetPluginMetas *)

(* getRegistryURL: there is a URL to fetch from.                           *)
HasURL(fqn) == fqn.Reference \/ fqn.Registry \/ flags.registry

(* Mutant: the id of the meta.yaml, whatever it is.                        *)
AsServed(fqn, raw) == raw

(* A meta.yaml without an id gets that of the PluginFQN, or else one made  *)
(* of its publisher, name and version.                                     *)
Identified(fqn, raw) ==
  IF raw.ID # None THEN raw
  ELSE IF fqn.ID # None THEN WithID(raw, fqn.ID)
  ELSE WithID(raw, raw.Title)

GetPluginMeta ==
  /\ pc = "fetch"
  /\ Len(metas) < Len(request)
  /\ LET fqn == request[Len(metas) + 1]
     IN  /\ HasURL(fqn)
         /\ fqn \in DOMAIN Served
         /\ metas' = Append(metas, Identified(fqn, Served[fqn]))
  /\ UNCHANGED <<pc, flags, request, collisions, injection, metasToProcess, tooling, mergeVars>>

(* Mutant: an extension of three plugins at least.                         *)
CollisionsOfAll(list) ==
  LET IDs(e) == FlattenSeq([i \in DOMAIN list |->
                  [k \in DOMAIN Filter(list[i].Extensions, LAMBDA x : x = e) |-> list[i].ID]])
  IN  [e \in {x \in UNION {ToSet(list[i].Extensions) : i \in DOMAIN list} : Len(IDs(x)) > 2} |->
         IDs(e)]

(* An extension of several entries of the list, with the ids of all.       *)
GetExtensionCollisions(list) ==
  LET IDs(e) == FlattenSeq([i \in DOMAIN list |->
                  [k \in DOMAIN Filter(list[i].Extensions, LAMBDA x : x = e) |-> list[i].ID]])
  IN  [e \in {x \in UNION {ToSet(list[i].Extensions) : i \in DOMAIN list} : Len(IDs(x)) > 1} |->
         IDs(e)]

(* Mutant: a plugin that cannot be fetched ends the list, not the start.   *)
GiveUpFetching ==
  /\ pc = "fetch"
  /\ Len(metas) < Len(request)
  /\ pc' = "validate"
  /\ collisions' = GetExtensionCollisions(metas)
  /\ UNCHANGED <<flags, request, metas, injection, metasToProcess, tooling, mergeVars>>

(* No URL, no answer, an HTTP error, or not YAML.                          *)
GetPluginMetaFails ==
  /\ pc = "fetch"
  /\ Len(metas) < Len(request)
  /\ pc' = "failed"
  /\ UNCHANGED <<flags, request, metas, collisions, injection, metasToProcess, tooling, mergeVars>>

(* The plan is printed, and what may not work together.                    *)
GetPluginMetasDone ==
  /\ pc = "fetch"
  /\ Len(metas) = Len(request)
  /\ pc' = "validate"
  /\ collisions' = GetExtensionCollisions(metas)
  /\ UNCHANGED <<flags, request, metas, injection, metasToProcess, tooling, mergeVars>>

-----------------------------------------------------------------------------
(* ProcessPlugins *)

ValidMeta(meta) ==
  /\ meta.APIVersion = "v2"
  /\ \/ meta.Type \in CheTypes /\ meta.Extensions = <<>> /\ meta.Containers # <<>>
     \/ meta.Type \in TheiaTypes /\ meta.Extensions # <<>> /\ Len(meta.Containers) <= 1

ValidateMetas(list) == \A i \in DOMAIN list : ValidMeta(list[i])

Named(name, entries) == Filter(entries, LAMBDA e : e.Name = name)

findCheTheiaEditor(list) ==
  Filter(list, LAMBDA meta :
    meta.Type = "che editor" /\ meta.Title \in CheTheia /\ meta.InitContainers # <<>>)

(* findEnv fails on a variable that is missing or empty.                   *)
FoundEnv(name, container) ==
  Named(name, container.Env) # <<>> /\ Named(name, container.Env)[1].Value # ""

InjectionOf(injector) ==
  LET volumes == Named(Named("REMOTE_ENDPOINT_VOLUME_NAME", injector.Env)[1].Value, injector.Volumes)
  IN  IF /\ FoundEnv("PLUGIN_REMOTE_ENDPOINT_EXECUTABLE", injector)
         /\ FoundEnv("REMOTE_ENDPOINT_VOLUME_NAME", injector)
         /\ volumes # <<>>
      THEN [Env |-> Named("PLUGIN_REMOTE_ENDPOINT_EXECUTABLE", injector.Env)[1],
            Volume |-> volumes[1]]
      ELSE Failure

(* Mutant: only the first meta is looked at.                               *)
InjectionOfFirst(list) ==
  IF list # <<>> /\ findCheTheiaEditor(<<list[1]>>) # <<>>
  THEN InjectionOf(list[1].InitContainers[1])
  ELSE None

(* Another editor, or a che-theia without the injector, needs none.        *)
GetRuntimeInjection(list) ==
  LET editors == findCheTheiaEditor(list)
      injectors == Named("remote-runtime-injector", editors[1].InitContainers)
  IN  IF editors = <<>> \/ injectors = <<>> THEN None ELSE InjectionOf(injectors[1])

ProcessPluginsFails ==
  /\ pc = "validate"
  /\ ~ValidateMetas(metas) \/ GetRuntimeInjection(metas) = Failure
  /\ pc' = "failed"
  /\ UNCHANGED <<flags, request, metas, collisions, injection, metasToProcess, tooling, mergeVars>>

BeginProcessPlugins ==
  /\ pc = "validate"
  /\ ValidateMetas(metas)
  /\ GetRuntimeInjection(metas) # Failure
  /\ injection' = GetRuntimeInjection(metas)
  /\ IF flags.merge
     THEN /\ pc' = "merge"
          /\ plugins' = metas
          /\ UNCHANGED <<metasToProcess, sorted, toMerge, pending, unmodified, merged>>
     ELSE /\ pc' = "process"
          /\ metasToProcess' = metas
          /\ UNCHANGED mergeVars
  /\ UNCHANGED <<flags, request, metas, collisions, tooling>>

MergePluginsStep ==
  /\ pc = "merge"
  /\ MergeStep
  /\ UNCHANGED metadataVars

MergePluginsReturns ==
  /\ pc = "merge"
  /\ MergeDone
  /\ pc' = "process"
  /\ metasToProcess' = MergeResult
  /\ UNCHANGED <<flags, request, metas, collisions, injection, tooling, mergeVars>>

-----------------------------------------------------------------------------
(* ProcessPlugin *)

(* provisionNonLocalHost: what it does to the container, and what it adds  *)
(* to the meta it returns.                                                 *)
NonLocalHostContainer(container, port) ==
  [container EXCEPT !.Ports = Append(@, port),
                    !.Env = Append(@, [Name |-> "THEIA_PLUGIN_ENDPOINT_PORT", Value |-> port])]

(* Mutant: the container that is provisioned is a copy.                    *)
CopiedContainer(meta, port) == Sidecar(meta)

(* AddPluginRunnerRequirements works on the container in place.  The meta  *)
(* it returns, with the endpoint and the workspace variable, is dropped by *)
(* ProcessPlugin.                                                          *)
RunnerContainer(meta, port) ==
  LET mounted ==
        [Sidecar(meta) EXCEPT
           !.Volumes = Append(@, [MountPath |-> "/plugins", Name |-> "plugins", Ephemeral |-> FALSE]),
           !.MountSources = TRUE]
      provisioned == IF flags.localhost THEN mounted ELSE NonLocalHostContainer(mounted, port)
  IN  [provisioned EXCEPT
         !.Env = Append(@, [Name |-> "THEIA_PLUGINS", Value |-> PluginsPath[meta.Title]])]

InjectRemoteRuntime(container) ==
  IF injection = None THEN container
  ELSE [container EXCEPT !.Env = Append(@, injection.Env),
                         !.Volumes = Append(@, injection.Volume)]

ConvertMetaToPlugin(meta) ==
  [ID |-> meta.ID, Title |-> meta.Title, Type |-> meta.Type, Containers |-> meta.Containers,
   InitContainers |-> meta.InitContainers, Endpoints |-> meta.Endpoints,
   WorkspaceEnv |-> meta.WorkspaceEnv]

(* Mutant: sidecars of any type are provisioned.                           *)
HasSidecar(meta) == meta.Containers # <<>>

IsRemote(meta) == IsTheiaOrVscodePlugin(meta) /\ meta.Containers # <<>>

ProvisionSidecar(meta, port) ==
  [meta EXCEPT !.Containers[1] = InjectRemoteRuntime(RunnerContainer(meta, port))]

ProcessPlugin ==
  /\ pc = "process"
  /\ Len(tooling) < Len(metasToProcess)
  /\ LET meta == metasToProcess[Len(tooling) + 1]
     IN  \/ /\ IsRemote(meta)
            /\ \E port \in RandomWord :
                 tooling' = Append(tooling, ConvertMetaToPlugin(ProvisionSidecar(meta, port)))
         \/ ~IsRemote(meta) /\ tooling' = Append(tooling, ConvertMetaToPlugin(meta))
  /\ UNCHANGED <<pc, flags, request, metas, collisions, injection, metasToProcess, mergeVars>>

PublishTooling ==
  /\ pc = "process"
  /\ Len(tooling) = Len(metasToProcess)
  /\ pc' = "done"
  /\ UNCHANGED <<flags, request, metas, collisions, injection, metasToProcess, tooling, mergeVars>>

BrokerStep ==
  \/ GetPluginMeta
  \/ GetPluginMetaFails
  \/ GetPluginMetasDone
  \/ ProcessPluginsFails
  \/ BeginProcessPlugins
  \/ MergePluginsStep
  \/ MergePluginsReturns
  \/ ProcessPlugin
  \/ PublishTooling

Ended == pc \in {"done", "failed"} /\ UNCHANGED vars

StartNext == BrokerStep \/ Ended

StartSpec == StartInit /\ [][StartNext]_vars

-----------------------------------------------------------------------------
(* Properties *)

SidecarPlugins == {i \in DOMAIN tooling : tooling[i].Type \in TheiaTypes /\ tooling[i].Containers # <<>>}

PluginsVolume == [MountPath |-> "/plugins", Name |-> "plugins", Ephemeral |-> FALSE]

(* In the tooling, every sidecar that runs plugins, merged or not, mounts  *)
(* the plugins volume and the sources once, is told once where its plugins *)
(* are, and exposes the one port it is told to listen on when it does not  *)
(* share the editor's network.                                             *)
SidecarsEquipped ==
  pc = "done" =>
    \A i \in SidecarPlugins :
      LET container == Sidecar(tooling[i])
          ports == Named("THEIA_PLUGIN_ENDPOINT_PORT", container.Env)
      IN  /\ Count(PluginsVolume, container.Volumes) = 1
          /\ container.MountSources
          /\ Named("THEIA_PLUGINS", container.Env) =
               <<[Name |-> "THEIA_PLUGINS", Value |-> PluginsPath[tooling[i].Title]]>>
          /\ IF flags.localhost THEN ports = <<>>
             ELSE Len(ports) = 1 /\ Contains(container.Ports, ports[1].Value)

Injectors ==
  {c \in UNION {ToSet(metas[i].InitContainers) :
       i \in {j \in DOMAIN metas : metas[j].Type = "che editor" /\ metas[j].Title \in CheTheia}} :
     c.Name = "remote-runtime-injector"}

(* When the workspace's editor brings the runtime for remote plugins, then *)
(* every sidecar of the tooling gets its variable and its volume, exactly  *)
(* once, wherever the editor is in the list of plugins and whatever plugins*)
(* were merged; and no other container gets them.                          *)
RuntimeInjected ==
  pc = "done" =>
    \A i \in DOMAIN tooling : \A k \in DOMAIN tooling[i].Containers :
      LET container == tooling[i].Containers[k]
          times == IF Injectors # {} /\ i \in SidecarPlugins THEN 1 ELSE 0
      IN  /\ Len(Named("PLUGIN_REMOTE_ENDPOINT_EXECUTABLE", container.Env)) = times
          /\ \A c \in Injectors : Count(c.Volumes[1], container.Volumes) = times

(* Plugins that do not run in a sidecar of their own come out as their     *)
(* meta.yaml has them, each as often as it was asked for.                  *)
OthersUntouched ==
  pc = "done" =>
    \A i \in DOMAIN metas :
      metas[i].Type \in CheTypes \/ metas[i].Containers = <<>> =>
        Count(ConvertMetaToPlugin(metas[i]), tooling) =
          Cardinality({j \in DOMAIN metas :
                         ConvertMetaToPlugin(metas[j]) = ConvertMetaToPlugin(metas[i])})

(* The container runs what the one of the meta.yaml would have run.        *)
Runs(container, asked) ==
  /\ container.Image = asked.Image
  /\ AllSaid(Equal, asked.Env, container.Env)
  /\ AllSaid(Equal, asked.Commands, container.Commands)
  /\ AllSaid(SameMount, asked.Volumes, container.Volumes)

(* What the meta asks for is in one of the plugins that come out.          *)
InTooling(meta) ==
  \E j \in DOMAIN tooling :
    /\ AllSaid(Equal, meta.Endpoints, tooling[j].Endpoints)
    /\ AllSaid(Equal, meta.WorkspaceEnv, tooling[j].WorkspaceEnv)
    /\ \A k \in DOMAIN meta.Containers :
         k \in DOMAIN tooling[j].Containers
           /\ Runs(tooling[j].Containers[k], meta.Containers[k])
    /\ tooling[j].ID = meta.ID \/ (flags.merge /\ pluginMergable(meta))

(* DONE is published with a tooling that has, for every plugin asked for,  *)
(* its containers, its endpoints and its variables, in a plugin of its own *)
(* or in a merged one: no plugin of the request is passed over because it  *)
(* cannot be fetched, or is lost when its image is merged half way.        *)
EveryPluginServed ==
  pc = "done" =>
    \A i \in DOMAIN request :
      /\ request[i] \in DOMAIN Served
      /\ InTooling(Identified(request[i], Served[request[i]]))

ExtensionsOf(i) == ToSet(metasToProcess[i].Extensions)

(* The log has warned, before anything was merged, of every extension that *)
(* two plugins of the workspace bring, and has named every plugin that     *)
(* asked for it.                                                           *)
DuplicatesAnnounced ==
  pc = "done" =>
    \A i, j \in DOMAIN metasToProcess :
      i # j => \A e \in ExtensionsOf(i) \intersect ExtensionsOf(j) :
        /\ e \in DOMAIN collisions
        /\ \A k \in DOMAIN metas :
             Contains(metas[k].Extensions, e) => Contains(collisions[e], metas[k].ID)

(* "multiple instances of the same extension will be included in this      *)
(* workspace": of each extension the log warns of.                         *)
WarningsTrue ==
  pc = "done" =>
    \A e \in DOMAIN collisions : \E i, j \in DOMAIN metasToProcess :
      i # j /\ e \in ExtensionsOf(i) \intersect ExtensionsOf(j)

(* AddPluginRunnerRequirements "adds needed ports, endpoints, volumes,      *)
(* environment variables": a sidecar that the editor reaches over the       *)
(* network has an endpoint to the port it listens on.                      *)
EndpointsProvided ==
  pc = "done" /\ ~flags.localhost =>
    \A i \in SidecarPlugins :
      LET ports == Named("THEIA_PLUGIN_ENDPOINT_PORT", Sidecar(tooling[i]).Env)
      IN  \E j \in DOMAIN tooling[i].Endpoints :
            tooling[i].Endpoints[j].Target = ports[1].Value

-----------------------------------------------------------------------------
(* The inductive invariant that these properties rest on.                  *)

(* The metas are what is served for the request, in its order, all of it   *)
(* has been fetched and is checked before anything is made of them.        *)
MetasChecked ==
  /\ Len(metas) <= Len(request)
  /\ pc \in {"validate", "merge", "process", "done"} => Len(metas) = Len(request)
  /\ request \in Request
  /\ \A i \in DOMAIN metas :
       request[i] \in DOMAIN Served /\ metas[i] = Identified(request[i], Served[request[i]])
  /\ pc \in {"merge", "process", "done"} =>
       /\ ValidateMetas(metas)
       /\ injection = GetRuntimeInjection(metas) /\ injection # Failure
       /\ collisions = GetExtensionCollisions(metas)
  /\ pc = "validate" => collisions = GetExtensionCollisions(metas)

(* Plugins are merged when the flag says so, and only then.                *)
MetasMerged ==
  /\ MergeInv
  /\ pc \in {"fetch", "validate"} => BeginsWith(<<>>)
  /\ pc = "merge" => flags.merge /\ plugins = metas
  /\ pc \in {"process", "done"} =>
       IF flags.merge THEN MergeDone /\ plugins = metas /\ metasToProcess = MergeResult
       ELSE metasToProcess = metas

ProcessedAs(meta, plugin) ==
  IF IsRemote(meta)
  THEN \E port \in RandomWord : plugin = ConvertMetaToPlugin(ProvisionSidecar(meta, port))
  ELSE plugin = ConvertMetaToPlugin(meta)

(* One plugin comes out for each, in the same order.                       *)
MetasProcessed ==
  /\ pc \notin {"process", "done"} => tooling = <<>>
  /\ Len(tooling) <= Len(metasToProcess)
  /\ \A i \in DOMAIN tooling : ProcessedAs(metasToProcess[i], tooling[i])
  /\ pc = "done" => Len(tooling) = Len(metasToProcess)

MetadataInv == TypeOK /\ MetasChecked /\ MetasMerged /\ MetasProcessed
=============================================================================
