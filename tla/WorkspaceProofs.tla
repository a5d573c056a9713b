--------------------------- MODULE WorkspaceProofs ---------------------------
(***************************************************************************)
(* What is proved of Workspace, for any requests, registries and settings, *)
(* and any number of starts on one volume.  The steps of the metadata      *)
(* broker keep its own invariant, which is cited; the rest is that both    *)
(* brokers of a start come to the same plugins.                            *)
(***************************************************************************)
EXTENDS Workspace, MetadataBrokerProofs

-----------------------------------------------------------------------------
(* The invariant *)

(* A step of the metadata broker keeps its invariant.                      *)
LEMMA BrokerStepKeepsInv ==
  ASSUME MetadataInv, BrokerStep
  PROVE  MetadataInv'
BY GetPluginMetaKeepsInv, FailureKeepsInv, GetPluginMetasDoneKeepsInv,
   BeginProcessPluginsKeepsInv, MergePluginsStepKeepsInv, MergePluginsReturnsKeepsInv,
   ProcessPluginKeepsInv, RestKeepsInv
   DEF BrokerStep

(* So does one that leaves it alone.                                       *)
LEMMA RestOfBroker ==
  ASSUME MetadataInv, UNCHANGED vars
  PROVE  MetadataInv'
BY RestKeepsInv

(* Between two starts there is nothing but the volume.                     *)
LEMMA NothingLeftType ==
  ASSUME NothingLeft
  PROVE  TypeOK
<1>1. MergeTypeOK
  <2>1. <<>> \in Seq(PluginMeta) /\ BeginsWith(<<>>)
    BY DEF NothingLeft
  <2> QED
    BY <2>1, BeginsMergeInv DEF MergeInv
<1>2. /\ request \in Seq(PluginFQN) /\ metas \in Seq(PluginMeta) /\ DOMAIN collisions = {}
      /\ metasToProcess \in Seq(PluginMeta) /\ tooling \in Seq(ChePlugin)
  BY DEF NothingLeft
<1> QED
  BY <1>1, <1>2 DEF NothingLeft, TypeOK

LEMMA GoneDown ==
  ASSUME flags \in Flags, GoDown
  PROVE  NothingLeft'
BY DEF GoDown, NothingLeft, BeginsWith

LEMMA StartNextHasInv == (StartInit => MetadataInv)'
<1>1. StartInit => MetadataInv
  BY StartHasInv
<1> QED
  BY <1>1, PTL

LEMMA NothingLeftNext == (NothingLeft => TypeOK)'
<1>1. NothingLeft => TypeOK
  BY NothingLeftType
<1> QED
  BY <1>1, PTL

(* The metas and the settings are all that the second broker looks at.     *)
LEMMA SameMetas ==
  ASSUME UNCHANGED <<flags, metas>>
  PROVE  /\ MetasToInstall(ResolveRelativeExtensionPaths(metas))'
              = MetasToInstall(ResolveRelativeExtensionPaths(metas))
         /\ \A list : convertMetasToPlugins(list)' = convertMetasToPlugins(list)
BY DEF MetasToInstall

-----------------------------------------------------------------------------
(* Each step keeps the invariant. *)
LEMMA StartUpKeepsInv ==
  ASSUME WorkspaceInv, Provision \/ ProvisionFails \/ ProvisionDies
  PROVE  WorkspaceInv'
<1>1. /\ stage = "metadata" /\ MetadataInv /\ phase \notin {"starting", "syncing"}
      /\ flags \in Flags /\ UNCHANGED cacheVars /\ Cache!CacheTypeOK
  BY DEF WorkspaceInv, WorkspaceTypeOK, Provisioning, MetadataInv, TypeOK,
         Provision, ProvisionFails, ProvisionDies
<1>2. phase' = phase /\ phase' \notin {"starting", "syncing"} /\ Cache!CacheTypeOK'
  BY <1>1 DEF cacheVars, Cache!CacheTypeOK, Cache!Place
<1>3. CASE Provision
  <2>1. stage' = "metadata" /\ MetadataInv'
    BY <1>1, <1>3, BrokerStepKeepsInv DEF Provision
  <2> QED
    BY <1>2, <2>1 DEF WorkspaceInv, WorkspaceTypeOK, Provisioning, Installing, MetadataInv
<1>4. CASE ProvisionFails \/ ProvisionDies
  <2>1. stage' = "stopped" /\ NothingLeft'
    BY <1>1, <1>4, GoneDown DEF ProvisionFails, ProvisionDies, GoDown
  <2>2. TypeOK'
    BY <2>1, NothingLeftNext
  <2> QED
    BY <1>2, <2>1, <2>2 DEF WorkspaceInv, WorkspaceTypeOK, Provisioning, Installing
<1> QED
  BY <1>3, <1>4

LEMMA StartPodKeepsInv ==
  ASSUME WorkspaceInv, StartPod
  PROVE  WorkspaceInv'
<1>1. /\ stage' = "pod" /\ pc = "done" /\ MetadataInv /\ UNCHANGED vars
      /\ phase' = "starting" /\ wanted' = {} /\ available' = available /\ Cache!CacheTypeOK
  BY DEF WorkspaceInv, WorkspaceTypeOK, Provisioning, StartPod, Cache!Begin
<1>2. MetadataInv' /\ pc' = "done"
  BY <1>1, RestOfBroker DEF vars, metadataVars
<1>3. Cache!CacheTypeOK'
  BY <1>1 DEF Cache!CacheTypeOK, Cache!Place
<1> QED
  BY <1>1, <1>2, <1>3 DEF WorkspaceInv, WorkspaceTypeOK, Provisioning, Installing, MetadataInv

LEMMA PodKeepsInv ==
  ASSUME WorkspaceInv, PrepareArtifacts \/ ProcessArtifacts \/ ArtifactsDone
  PROVE  WorkspaceInv'
<1>1. /\ stage = "pod" /\ pc = "done" /\ MetadataInv /\ Cache!CacheTypeOK
      /\ phase \in {"starting", "syncing"} /\ Installing /\ UNCHANGED vars
  BY DEF WorkspaceInv, WorkspaceTypeOK, Provisioning, PrepareArtifacts, ProcessArtifacts,
         ArtifactsDone
<1>2. MetadataInv' /\ TypeOK' /\ pc' = "done" /\ UNCHANGED <<flags, metas>>
  BY <1>1, RestOfBroker DEF MetadataInv, vars, metadataVars
<1>3. /\ MetasToInstall(ResolveRelativeExtensionPaths(metas))'
            = MetasToInstall(ResolveRelativeExtensionPaths(metas))
      /\ \A list : convertMetasToPlugins(list)' = convertMetasToPlugins(list)
  BY <1>2, SameMetas
<1>4. CASE PrepareArtifacts
  <2>1. /\ stage' = "pod" /\ phase' = "syncing" /\ available' = available
        /\ wanted' \in SUBSET Cache!Place
        /\ \E list \in MetasToInstall(ResolveRelativeExtensionPaths(metas)) :
             wanted' = convertMetasToPlugins(list)
    BY <1>1, <1>4, Zenon DEF PrepareArtifacts, Cache!Want
  <2>2. Cache!CacheTypeOK'
    BY <1>1, <2>1 DEF Cache!CacheTypeOK, Cache!Place
  <2>3. Installing'
    BY <1>3, <2>1 DEF Installing
  <2> QED
    BY <1>2, <2>1, <2>2, <2>3 DEF WorkspaceInv, WorkspaceTypeOK, Provisioning
<1>5. CASE ProcessArtifacts
  <2>1. stage' = "pod" /\ phase = "syncing" /\ phase' = "syncing" /\ wanted' = wanted
    BY <1>1, <1>5 DEF ProcessArtifacts, Cache!Sync, Cache!Drop, Cache!Provide
  <2>2. Cache!CacheTypeOK'
    BY <1>1, <1>5, <2>1
    DEF ProcessArtifacts, Cache!Sync, Cache!Drop, Cache!Provide, Cache!CacheTypeOK, Cache!Place
  <2>3. Installing'
    BY <1>1, <1>3, <2>1 DEF Installing
  <2> QED
    BY <1>2, <2>1, <2>2, <2>3 DEF WorkspaceInv, WorkspaceTypeOK, Provisioning
<1>6. CASE ArtifactsDone
  <2>1. /\ stage' = "running" /\ phase = "syncing" /\ phase' = "ready"
        /\ wanted \subseteq available /\ wanted' = wanted /\ available' = available
    BY <1>1, <1>6 DEF ArtifactsDone, Cache!Succeed
  <2>2. Cache!CacheTypeOK'
    BY <1>1, <2>1 DEF Cache!CacheTypeOK, Cache!Place
  <2>3. Installing'
    BY <1>1, <1>3, <2>1 DEF Installing
  <2> QED
    BY <1>2, <2>1, <2>2, <2>3 DEF WorkspaceInv, WorkspaceTypeOK, Provisioning
<1> QED
  BY <1>4, <1>5, <1>6

LEMMA EndKeepsInv ==
  ASSUME WorkspaceInv, ArtifactsFail \/ Stop
  PROVE  WorkspaceInv'
<1>1. /\ flags \in Flags /\ GoDown /\ stage' = "stopped" /\ Cache!CacheTypeOK
      /\ stage = "running" => phase = "ready"
  BY DEF WorkspaceInv, WorkspaceTypeOK, TypeOK, ArtifactsFail, Stop, GoDown
<1>2. NothingLeft' /\ TypeOK'
  BY <1>1, GoneDown, NothingLeftNext
<1>3. phase' \in {"idle", "ready"} /\ Cache!CacheTypeOK'
  <2>1. CASE ArtifactsFail
    BY <1>1, <2>1 DEF ArtifactsFail, Cache!Fail, Cache!CacheTypeOK, Cache!Place
  <2>2. CASE Stop
    BY <1>1, <2>2 DEF Stop, cacheVars, Cache!CacheTypeOK, Cache!Place
  <2> QED
    BY <2>1, <2>2
<1> QED
  BY <1>1, <1>2, <1>3 DEF WorkspaceInv, WorkspaceTypeOK, Provisioning, Installing

(* A start begins with nothing but the volume and its request.             *)
LEMMA RestartKeepsInv ==
  ASSUME WorkspaceInv, Restart
  PROVE  WorkspaceInv'
<1>1. /\ stage' = "metadata" /\ NothingLeft /\ UNCHANGED cacheVars /\ Cache!CacheTypeOK
      /\ phase \notin {"starting", "syncing"}
  BY DEF WorkspaceInv, WorkspaceTypeOK, Provisioning, Restart
<1>2. StartInit'
  BY <1>1 DEF Restart, StartInit, NothingLeft, BeginsWith, mergeVars
<1>3. MetadataInv' /\ TypeOK'
  <2>1. MetadataInv'
    BY <1>2, StartNextHasInv
  <2> QED
    BY <2>1 DEF MetadataInv
<1>4. phase' \notin {"starting", "syncing"} /\ Cache!CacheTypeOK'
  BY <1>1 DEF cacheVars, Cache!CacheTypeOK, Cache!Place
<1> QED
  BY <1>1, <1>3, <1>4 DEF WorkspaceInv, WorkspaceTypeOK, Provisioning, Installing

LEMMA IdleKeepsInv ==
  ASSUME WorkspaceInv, UNCHANGED workspaceVars
  PROVE  WorkspaceInv'
<1>1. /\ UNCHANGED vars /\ UNCHANGED <<available, wanted, phase, stage>>
      /\ UNCHANGED <<pc, flags, request, metas, collisions, injection, metasToProcess, tooling, mergeVars>>
  BY DEF workspaceVars, cacheVars, vars, metadataVars
<1>2. Cache!CacheTypeOK'
  BY <1>1 DEF WorkspaceInv, WorkspaceTypeOK, Cache!CacheTypeOK, Cache!Place
<1>3. Installing'
  BY <1>1, SameMetas DEF WorkspaceInv, Installing
<1>4. CASE stage = "stopped"
  <2>1. NothingLeft'
    BY <1>1, <1>4 DEF WorkspaceInv, Provisioning, NothingLeft, BeginsWith, mergeVars
  <2>2. TypeOK'
    BY <2>1, NothingLeftNext
  <2> QED
    BY <1>1, <1>2, <1>3, <1>4, <2>1, <2>2 DEF WorkspaceInv, WorkspaceTypeOK, Provisioning
<1>5. CASE stage # "stopped"
  <2>1. MetadataInv' /\ TypeOK'
    BY <1>1, <1>5, RestOfBroker DEF WorkspaceInv, Provisioning, MetadataInv
  <2> QED
    BY <1>1, <1>2, <1>3, <1>5, <2>1 DEF WorkspaceInv, WorkspaceTypeOK, Provisioning
<1> QED
  BY <1>4, <1>5

(* The inductive invariant of a workspace and its volume, over any number  *)
(* of starts.                                                              *)
THEOREM WorkspaceInvariant == WorkspaceSpec => []WorkspaceInv
<1>1. WorkspaceInit => WorkspaceInv
  <2> SUFFICES ASSUME WorkspaceInit PROVE WorkspaceInv
    OBVIOUS
  <2>1. MetadataInv /\ stage = "metadata" /\ phase = "idle" /\ Cache!CacheTypeOK
    BY StartHasInv DEF WorkspaceInit, Cache!CacheInit, Cache!CacheTypeOK
  <2> QED
    BY <2>1 DEF WorkspaceInv, WorkspaceTypeOK, Provisioning, Installing, MetadataInv
<1>2. WorkspaceInv /\ [WorkspaceNext]_workspaceVars => WorkspaceInv'
  <2> SUFFICES ASSUME WorkspaceInv, [WorkspaceNext]_workspaceVars PROVE WorkspaceInv'
    OBVIOUS
  <2>1. CASE Provision \/ ProvisionFails \/ ProvisionDies
    BY <2>1, StartUpKeepsInv
  <2>2. CASE StartPod
    BY <2>2, StartPodKeepsInv
  <2>3. CASE PrepareArtifacts \/ ProcessArtifacts \/ ArtifactsDone
    BY <2>3, PodKeepsInv
  <2>4. CASE ArtifactsFail \/ Stop
    BY <2>4, EndKeepsInv
  <2>5. CASE Restart
    BY <2>5, RestartKeepsInv
  <2>6. CASE UNCHANGED workspaceVars
    BY <2>6, IdleKeepsInv
  <2> QED
    BY <2>1, <2>2, <2>3, <2>4, <2>5, <2>6 DEF WorkspaceNext, Brokering
<1>3. WorkspaceSpec => WorkspaceInit /\ [][WorkspaceNext]_workspaceVars
  BY PTL DEF WorkspaceSpec
<1> QED
  BY <1>1, <1>2, <1>3, PTL

(* The variables of both brokers keep to their types, and the artifacts    *)
(* broker runs in a pod, whatever ends a start and whatever the next is.   *)
THEOREM WorkspaceKeepsTypes == WorkspaceSpec => []WorkspaceTypeOK
<1>1. WorkspaceInv => WorkspaceTypeOK
  BY DEF WorkspaceInv
<1> QED
  BY <1>1, WorkspaceInvariant, PTL

-----------------------------------------------------------------------------
(* What a call to MergePlugins makes of a plugin, whatever the order of    *)
(* the images                                                              *)

(* An order of the images comes to each of them.                           *)
LEMMA OrderHasAll ==
  ASSUME NEW list \in Seq(PluginMeta),
         NEW order \in SetToSeqs({image \in Image : GroupOf(image, list) # <<>>})
  PROVE  /\ order \in Seq(Image)
         /\ \A image \in Image : GroupOf(image, list) # <<>> => Has(order, image)
<1> DEFINE S == {image \in Image : GroupOf(image, list) # <<>>}
           n == Cardinality(S)
<1>1. IsFiniteSet(S)
  BY GroupedFinite
<1> HIDE DEF S
<1>2. n \in Nat /\ IsFiniteSet(1 .. n) /\ Cardinality(1 .. n) = n
  <2>1. n \in Nat
    BY <1>1, FS_CardinalityType
  <2> HIDE DEF n
  <2>2. Cardinality(1 .. n) = (IF 1 > n THEN 0 ELSE n - 1 + 1) /\ IsFiniteSet(1 .. n)
    BY <2>1, FS_Interval
  <2> QED
    BY <2>1, <2>2
<1>3. order \in [1 .. n -> S] /\ \A i, j \in 1 .. n : i # j => order[i] # order[j]
  BY DEF SetToSeqs, S
<1>4. order \in Injection(1 .. n, S)
  BY <1>3 DEF Injection, IsInjective
<1>5. order \in Surjection(1 .. n, S)
  BY <1>1, <1>2, <1>4, FS_Injection
<1>6. \A image \in S : \E i \in 1 .. n : order[i] = image
  BY <1>5 DEF Surjection
<1>7. \A image \in S : Has(order, image)
  BY <1>3, <1>6 DEF Has
<1>8. order \in Seq(Image)
  <2>1. order \in [1 .. n -> Image]
    BY <1>3 DEF S
  <2> HIDE DEF n
  <2> QED
    BY <1>2, <2>1
<1> QED
  BY <1>7, <1>8 DEF S

(* The lists that one part of each image's plugins makes.                  *)
LEMMA PartsOfOrder ==
  ASSUME NEW order \in Seq(Image), NEW parts \in [Image -> Seq(PluginMeta)]
  PROVE  /\ FlattenSeq([i \in DOMAIN order |-> parts[order[i]]]) \in Seq(PluginMeta)
         /\ \A image \in Image : Has(order, image) =>
              \A p : Has(parts[image], p) =>
                       Has(FlattenSeq([i \in DOMAIN order |-> parts[order[i]]]), p)
<1> DEFINE lists == [i \in DOMAIN order |-> parts[order[i]]]
<1>1. DOMAIN order = 1 .. Len(order) /\ Len(order) \in Nat
  OBVIOUS
<1>2. \A i \in DOMAIN order : parts[order[i]] \in Seq(PluginMeta)
  OBVIOUS
<1>3. lists \in [1 .. Len(order) -> Seq(PluginMeta)]
  BY <1>1, <1>2
<1>4. DOMAIN lists = DOMAIN order /\ \A i \in DOMAIN order : lists[i] = parts[order[i]]
  OBVIOUS
<1> HIDE DEF lists
<1>5. lists \in Seq(Seq(PluginMeta))
  <2> DEFINE n == Len(order)
  <2>1. lists \in [1 .. n -> Seq(PluginMeta)] /\ n \in Nat
    BY <1>1, <1>3
  <2> HIDE DEF n
  <2> QED
    BY <2>1
<1>6. /\ FlattenSeq(lists) \in Seq(PluginMeta)
      /\ \A i \in DOMAIN lists : \A k \in DOMAIN lists[i] : Has(FlattenSeq(lists), lists[i][k])
  BY <1>5, FlattenType, FlattenHas
<1>7. ASSUME NEW image \in Image, Has(order, image), NEW p, Has(parts[image], p)
      PROVE  Has(FlattenSeq(lists), p)
  <2>1. PICK i \in DOMAIN order : order[i] = image
    BY <1>7 DEF Has
  <2>2. lists[i] = parts[image] /\ i \in DOMAIN lists
    BY <1>4, <2>1
  <2>3. PICK k \in DOMAIN lists[i] : lists[i][k] = p
    BY <1>7, <2>2 DEF Has
  <2> QED
    BY <1>6, <2>2, <2>3
<1> QED
  BY <1>6, <1>7 DEF lists

(* A plugin comes out as it is, or in the plugin its image is merged into. *)
LEMMA ListedHas ==
  ASSUME NEW list \in Seq(PluginMeta), NEW result \in MergedLists(list), NEW p, Has(list, p)
  PROVE  LET image == Sidecar(p).Image
             group == GroupOf(image, list)
         IN  IF pluginMergable(p) /\ Merges(image, group)
             THEN Has(result, mergePluginsForImage(image, group))
             ELSE Has(result, p)
<1>1. PICK order \in SetToSeqs({image \in Image : GroupOf(image, list) # <<>>}) :
        result = UnmodifiedOf(list, order) \o MergedOf(list, order)
  BY Zenon DEF MergedLists
<1>2. /\ order \in Seq(Image)
      /\ \A image \in Image : GroupOf(image, list) # <<>> => Has(order, image)
  BY OrderHasAll
<1> DEFINE alone(image) == LeftAlone(image, GroupOf(image, list))
           into(image) == MergedInto(image, GroupOf(image, list))
           kept == FlattenSeq([i \in DOMAIN order |-> alone(order[i])])
           made == FlattenSeq([i \in DOMAIN order |-> into(order[i])])
<1>3. UnmodifiedOf(list, order) = Others(list) \o kept /\ MergedOf(list, order) = made
  BY Zenon DEF UnmodifiedOf, MergedOf, Others, Of
<1>4. \A image \in Image : alone(image) \in Seq(PluginMeta) /\ into(image) \in Seq(PluginMeta)
  BY GroupParts
<1> HIDE DEF alone, into
<1> DEFINE alones == [image \in Image |-> alone(image)]
           intos == [image \in Image |-> into(image)]
<1>5. /\ alones \in [Image -> Seq(PluginMeta)] /\ intos \in [Image -> Seq(PluginMeta)]
      /\ \A image \in Image : alones[image] = alone(image) /\ intos[image] = into(image)
  BY <1>4
<1> HIDE DEF alones, intos
<1>6. /\ kept = FlattenSeq([i \in DOMAIN order |-> alones[order[i]]])
      /\ made = FlattenSeq([i \in DOMAIN order |-> intos[order[i]]])
  <2>1. \A i \in DOMAIN order : order[i] \in Image
    BY <1>2
  <2>2. /\ [i \in DOMAIN order |-> alone(order[i])] = [i \in DOMAIN order |-> alones[order[i]]]
        /\ [i \in DOMAIN order |-> into(order[i])] = [i \in DOMAIN order |-> intos[order[i]]]
    BY <1>5, <2>1
  <2> QED
    BY <2>2
<1>7. /\ kept \in Seq(PluginMeta) /\ made \in Seq(PluginMeta)
      /\ \A image \in Image : Has(order, image) =>
           /\ \A q : Has(alone(image), q) => Has(kept, q)
           /\ \A q : Has(into(image), q) => Has(made, q)
  BY <1>2, <1>5, <1>6, PartsOfOrder
<1> HIDE DEF kept, made
<1>8. Others(list) \in Seq(PluginMeta) /\ (~pluginMergable(p) => Has(Others(list), p))
  BY OthersKeeps
<1>9. \A q : Has(result, q) <=> Has(Others(list), q) \/ Has(kept, q) \/ Has(made, q)
  <2>1. Others(list) \o kept \in Seq(PluginMeta)
    BY <1>7, <1>8, ConcatProperties
  <2>2. \A q : Has(Others(list) \o kept, q) <=> Has(Others(list), q) \/ Has(kept, q)
    BY <1>7, <1>8, HasConcat
  <2>3. \A q : Has((Others(list) \o kept) \o made, q) <=> Has(Others(list) \o kept, q) \/ Has(made, q)
    BY <1>7, <2>1, HasConcat
  <2> QED
    BY <1>1, <1>3, <2>2, <2>3
<1>10. CASE ~pluginMergable(p)
  BY <1>8, <1>9, <1>10
<1>11. CASE pluginMergable(p)
  <2> DEFINE image == Sidecar(p).Image
             group == GroupOf(image, list)
  <2>1. p \in PluginMeta
    BY HasType
  <2>2. image \in Image
    BY <1>11, <2>1, SidecarType DEF Container
  <2>3. Has(group, p)
    BY <1>11, GroupOfKeeps
  <2>4. Has(order, image)
    BY <1>2, <2>2, <2>3 DEF Has
  <2>5. alone(image) = LeftAlone(image, group) /\ into(image) = MergedInto(image, group)
    BY DEF alone, into
  <2> HIDE DEF image, group
  <2>6. CASE Merges(image, group)
    <3>1. into(image) = <<mergePluginsForImage(image, group)>>
      BY <2>5, <2>6 DEF MergedInto
    <3>2. \A e : Has(<<e>>, e)
      BY DEF Has
    <3>3. Has(into(image), mergePluginsForImage(image, group))
      BY <3>1, <3>2
    <3>4. Has(result, mergePluginsForImage(image, group))
      BY <1>7, <1>9, <2>2, <2>4, <3>3
    <3> QED
      BY <2>6, <3>4, <1>11, Zenon DEF image, group
  <2>7. CASE ~Merges(image, group)
    <3>1. alone(image) = group
      BY <2>5, <2>7 DEF LeftAlone
    <3>2. Has(result, p)
      BY <1>7, <1>9, <2>2, <2>3, <2>4, <3>1
    <3> QED
      BY <2>7, <3>2, Zenon DEF image, group
  <2> QED
    BY <2>6, <2>7
<1> QED
  BY <1>10, <1>11

-----------------------------------------------------------------------------
(* Resolving the extensions changes nothing that merging looks at          *)

Resolved(meta) == [meta EXCEPT !.Extensions = [k \in DOMAIN @ |-> URLOf(@[k])]]

LEMMA ResolvedParts ==
  ASSUME NEW meta \in PluginMeta
  PROVE  LET resolved == Resolved(meta)
         IN  /\ resolved \in PluginMeta
             /\ resolved.ID = meta.ID /\ resolved.Title = meta.Title /\ resolved.Type = meta.Type
             /\ resolved.Containers = meta.Containers
             /\ resolved.InitContainers = meta.InitContainers
             /\ resolved.Endpoints = meta.Endpoints /\ resolved.WorkspaceEnv = meta.WorkspaceEnv
             /\ DOMAIN resolved.Extensions = DOMAIN meta.Extensions
             /\ \A k \in DOMAIN meta.Extensions : resolved.Extensions[k] = URLOf(meta.Extensions[k])
<1> DEFINE old == meta.Extensions
           new == [k \in DOMAIN old |-> URLOf(old[k])]
<1>1. old \in Seq(Word)
  BY MetaParts
<1>2. Resolved(meta) = [meta EXCEPT !.Extensions = new]
  BY Zenon DEF Resolved
<1>3. new \in Seq(Word) /\ DOMAIN new = DOMAIN old /\ \A k \in DOMAIN old : new[k] = URLOf(old[k])
  <2>1. \A e \in Word : URLOf(e) \in Word
    BY WorkspaceAssumption DEF URLOf
  <2> DEFINE n == Len(old)
  <2>2. n \in Nat /\ DOMAIN old = 1 .. n /\ \A k \in 1 .. n : URLOf(old[k]) \in Word
    BY <1>1, <2>1
  <2>3. new \in [1 .. n -> Word]
    BY <2>2
  <2> HIDE DEF n
  <2> QED
    BY <2>2, <2>3
<1> HIDE DEF old, new
<1> QED
  BY <1>2, <1>3 DEF PluginMeta, MetaWith, old

LEMMA ResolvedList ==
  ASSUME NEW list \in Seq(PluginMeta)
  PROVE  /\ ResolveRelativeExtensionPaths(list) \in Seq(PluginMeta)
         /\ Len(ResolveRelativeExtensionPaths(list)) = Len(list)
         /\ DOMAIN ResolveRelativeExtensionPaths(list) = DOMAIN list
         /\ \A i \in DOMAIN list :
              list[i] \in PluginMeta /\ ResolveRelativeExtensionPaths(list)[i] = Resolved(list[i])
<1> DEFINE result == [i \in DOMAIN list |-> Resolved(list[i])]
           n == Len(list)
<1>1. ResolveRelativeExtensionPaths(list) = result
  BY Zenon DEF ResolveRelativeExtensionPaths, Resolved
<1>2. n \in Nat /\ DOMAIN list = 1 .. n /\ \A i \in 1 .. n : list[i] \in PluginMeta
  OBVIOUS
<1>3. \A i \in 1 .. n : Resolved(list[i]) \in PluginMeta
  BY <1>2, ResolvedParts
<1>4. result \in [1 .. n -> PluginMeta] /\ \A i \in 1 .. n : result[i] = Resolved(list[i])
  BY <1>2, <1>3
<1> HIDE DEF result, n
<1>5. result \in Seq(PluginMeta) /\ Len(result) = n /\ DOMAIN result = 1 .. n
  BY <1>2, <1>4
<1> QED
  BY <1>1, <1>2, <1>4, <1>5 DEF n

LEMMA ResolvedAppend ==
  ASSUME NEW list \in Seq(PluginMeta), NEW meta \in PluginMeta
  PROVE  ResolveRelativeExtensionPaths(Append(list, meta)) =
           Append(ResolveRelativeExtensionPaths(list), Resolved(meta))
<1> DEFINE all == Append(list, meta)
           left == ResolveRelativeExtensionPaths(all)
           front == ResolveRelativeExtensionPaths(list)
           n == Len(list)
<1>1. /\ all \in Seq(PluginMeta) /\ Len(all) = n + 1 /\ n \in Nat /\ all[n + 1] = meta
      /\ DOMAIN list = 1 .. n /\ DOMAIN all = 1 .. n + 1 /\ \A i \in 1 .. n : all[i] = list[i]
  BY AppendProperties
<1>2. /\ left \in Seq(PluginMeta) /\ Len(left) = n + 1
      /\ \A i \in 1 .. n + 1 : left[i] = Resolved(all[i])
  <2> HIDE DEF all
  <2> QED
    BY <1>1, ResolvedList
<1>3. /\ front \in Seq(PluginMeta) /\ Len(front) = n
      /\ \A i \in 1 .. n : front[i] = Resolved(list[i])
  BY <1>1, ResolvedList
<1>4. Resolved(meta) \in PluginMeta
  BY ResolvedParts
<1> HIDE DEF left, front, all
<1> DEFINE right == Append(front, Resolved(meta))
<1>5. /\ right \in Seq(PluginMeta) /\ Len(right) = n + 1 /\ right[n + 1] = Resolved(meta)
      /\ \A i \in 1 .. n : right[i] = front[i]
  <2> HIDE DEF n
  <2> QED
    BY <1>3, <1>4, AppendProperties
<1> HIDE DEF right, n
<1>6. \A i \in 1 .. n + 1 : left[i] = right[i]
  <2>1. \A i \in 1 .. n + 1 : i \in 1 .. n \/ i = n + 1
    BY <1>1
  <2> QED
    BY <1>1, <1>2, <1>3, <1>5, <2>1
<1>7. left = right
  BY <1>2, <1>5, <1>6, SeqEqual
<1> QED
  BY <1>7 DEF left, right, all, front

(* The plugins of an image are the same, resolved.                         *)
LEMMA ResolvedGroup ==
  ASSUME NEW list \in Seq(PluginMeta), NEW image
  PROVE  GroupOf(image, ResolveRelativeExtensionPaths(list)) =
           ResolveRelativeExtensionPaths(GroupOf(image, list))
<1> DEFINE In(p) == pluginMergable(p) /\ Sidecar(p).Image = image
           T == {s \in Seq(PluginMeta) :
                   GroupOf(image, ResolveRelativeExtensionPaths(s))
                     = ResolveRelativeExtensionPaths(GroupOf(image, s))}
<1>1. <<>> \in T
  <2>1. ResolveRelativeExtensionPaths(<<>>) = <<>>
    <3>1. <<>> \in Seq(PluginMeta) /\ Len(<<>>) = 0
      OBVIOUS
    <3>2. /\ ResolveRelativeExtensionPaths(<<>>) \in Seq(PluginMeta)
          /\ Len(ResolveRelativeExtensionPaths(<<>>)) = 0
      BY <3>1, ResolvedList
    <3> QED
      BY <3>2
  <2>2. <<>> \in Seq(PluginMeta)
    OBVIOUS
  <2> QED
    BY <2>1, <2>2, GroupOfNone
<1>2. ASSUME NEW s \in Seq(PluginMeta), NEW e \in PluginMeta, s \in T
      PROVE  Append(s, e) \in T
  <2>1. GroupOf(image, Append(s, e)) = IF In(e) THEN Append(GroupOf(image, s), e) ELSE GroupOf(image, s)
    BY GroupOfAppend
  <2> DEFINE f == ResolveRelativeExtensionPaths(s)
             r == Resolved(e)
  <2>2. f \in Seq(PluginMeta) /\ r \in PluginMeta
    BY ResolvedList, ResolvedParts
  <2>3. In(r) <=> In(e)
    <3>1. r.Containers = e.Containers /\ r.InitContainers = e.InitContainers /\ r.Type = e.Type
      BY ResolvedParts
    <3> HIDE DEF r
    <3> QED
      BY <3>1 DEF pluginMergable, IsTheiaOrVscodePlugin, Sidecar
  <2>4. ResolveRelativeExtensionPaths(Append(s, e)) = Append(f, r)
    BY ResolvedAppend
  <2>5. GroupOf(image, f) = ResolveRelativeExtensionPaths(GroupOf(image, s))
    BY <1>2
  <2>6. GroupOf(image, s) \in Seq(PluginMeta)
    BY GroupOfKeeps
  <2>7. ResolveRelativeExtensionPaths(Append(GroupOf(image, s), e))
          = Append(ResolveRelativeExtensionPaths(GroupOf(image, s)), r)
    BY <2>6, ResolvedAppend
  <2> HIDE DEF f, r
  <2>8. GroupOf(image, Append(f, r)) = IF In(r) THEN Append(GroupOf(image, f), r) ELSE GroupOf(image, f)
    BY <2>2, GroupOfAppend
  <2>9. Append(s, e) \in Seq(PluginMeta)
    BY AppendProperties
  <2> HIDE DEF In
  <2>10. GroupOf(image, ResolveRelativeExtensionPaths(Append(s, e)))
           = ResolveRelativeExtensionPaths(GroupOf(image, Append(s, e)))
    BY <2>1, <2>3, <2>4, <2>5, <2>7, <2>8
  <2> QED
    BY <2>9, <2>10
<1> HIDE DEF T
<1>3. Seq(PluginMeta) \subseteq T
  BY <1>1, <1>2, SeqSetInduction
<1> QED
  BY <1>3 DEF T

(* So whether they are merged is the same.                                 *)
LEMMA ResolvedMerges ==
  ASSUME NEW image \in Image, NEW group, Mergable(group)
  PROVE  /\ Mergable(ResolveRelativeExtensionPaths(group))
         /\ Merges(image, ResolveRelativeExtensionPaths(group)) <=> Merges(image, group)
<1> DEFINE after == ResolveRelativeExtensionPaths(group)
<1>1. /\ group \in Seq(PluginMeta) /\ after \in Seq(PluginMeta)
      /\ Len(after) = Len(group) /\ DOMAIN after = DOMAIN group
      /\ \A i \in DOMAIN group : group[i] \in PluginMeta /\ after[i] = Resolved(group[i])
  BY ResolvedList DEF Mergable
<1>2. \A i \in DOMAIN group :
        /\ after[i].Containers = group[i].Containers
        /\ after[i].InitContainers = group[i].InitContainers
        /\ after[i].Type = group[i].Type
        /\ after[i].Endpoints = group[i].Endpoints
        /\ after[i].WorkspaceEnv = group[i].WorkspaceEnv
  BY <1>1, ResolvedParts
<1> HIDE DEF after
<1>3. \A i \in DOMAIN group : Sidecar(after[i]) = Sidecar(group[i])
  BY <1>2 DEF Sidecar
<1>4. Mergable(after)
  BY <1>1, <1>2 DEF Mergable, pluginMergable, IsTheiaOrVscodePlugin
<1>5. NoConflict(after) <=> NoConflict(group)
  <2>1. [i \in DOMAIN after |-> after[i].WorkspaceEnv] = [i \in DOMAIN group |-> group[i].WorkspaceEnv]
    BY <1>1, <1>2
  <2>2. [i \in DOMAIN after |-> after[i].Endpoints] = [i \in DOMAIN group |-> group[i].Endpoints]
    BY <1>1, <1>2
  <2>3. [i \in DOMAIN after |-> Sidecar(after[i]).Env] = [i \in DOMAIN group |-> Sidecar(group[i]).Env]
    BY <1>1, <1>3
  <2>4. [i \in DOMAIN after |-> Sidecar(after[i]).Commands]
          = [i \in DOMAIN group |-> Sidecar(group[i]).Commands]
    BY <1>1, <1>3
  <2>5. [i \in DOMAIN after |-> Sidecar(after[i]).Volumes]
          = [i \in DOMAIN group |-> Sidecar(group[i]).Volumes]
    BY <1>1, <1>3
  <2>6. \A kind : [i \in DOMAIN after |-> Sidecar(after[i]).Resources[kind]]
          = [i \in DOMAIN group |-> Sidecar(group[i]).Resources[kind]]
    BY <1>1, <1>3
  <2>7. WorkspaceEnvs(after) = WorkspaceEnvs(group) /\ Endpoints(after) = Endpoints(group)
    BY <2>1, <2>2, Zenon DEF WorkspaceEnvs, Endpoints, Of
  <2>8. /\ Envs(after) = Envs(group) /\ Commands(after) = Commands(group)
        /\ Volumes(after) = Volumes(group)
    BY <2>3, <2>4, <2>5, Zenon DEF Envs, Commands, Volumes, Of
  <2>9. \A kind : Quantities(kind, after) = Quantities(kind, group)
    BY <2>6, Zenon DEF Quantities
  <2> QED
    BY <2>7, <2>8, <2>9, Zenon DEF NoConflict
<1>6. \A list : Mergable(list) => (Merges(image, list) <=> Len(list) > 1 /\ NoConflict(list))
  <2> SUFFICES ASSUME NEW list, Mergable(list), Len(list) > 1
               PROVE  mergePluginsForImage(image, list) # Conflict <=> NoConflict(list)
    BY DEF Merges
  <2>1. list # <<>>
    OBVIOUS
  <2>2. NoConflict(list) => mergePluginsForImage(image, list) \in PluginMeta
    BY <2>1, MergeGood DEF GoodMerge
  <2>3. Conflict \notin PluginMeta
    BY MergeAssumption
  <2> QED
    BY <2>2, <2>3, MergeResults
<1>7. Merges(image, after) <=> Merges(image, group)
  BY <1>1, <1>4, <1>5, <1>6
<1> QED
  BY <1>4, <1>7 DEF after

-----------------------------------------------------------------------------
(* Where the extensions are                                                *)

(* The plugin of the tooling that is made of a meta, or of the merged      *)
(* plugin of its image, serves it.                                         *)
LEMMA MadeServes ==
  ASSUME MetadataInv, pc = "done", NEW i \in DOMAIN metas, IsTheiaOrVscodePlugin(metas[i]),
         NEW j \in DOMAIN metasToProcess,
         \/ metasToProcess[j] = metas[i]
         \/ /\ flags.merge /\ pluginMergable(metas[i]) /\ pluginMergable(metasToProcess[j])
            /\ Sidecar(metasToProcess[j]).Image = Sidecar(metas[i]).Image
            /\ Provides(metasToProcess[j], metas[i])
  PROVE  j \in DOMAIN tooling /\ Serves(tooling[j], metas[i])
<1> DEFINE meta == metas[i]
           source == metasToProcess[j]
           plugin == tooling[j]
<1>1. /\ TypeOK /\ j \in DOMAIN tooling /\ source \in PluginMeta /\ ProcessedAs(source, plugin)
      /\ meta \in PluginMeta /\ IsTheiaOrVscodePlugin(meta) /\ plugin \in ChePlugin
  <2>1. metas \in Seq(PluginMeta) /\ tooling \in Seq(ChePlugin)
    BY DEF MetadataInv, TypeOK
  <2>2. TypeOK /\ j \in DOMAIN tooling /\ source \in PluginMeta /\ ProcessedAs(source, plugin)
    BY PublishedTooling
  <2> QED
    BY <2>1, <2>2
<1>2. \/ source = meta
      \/ /\ flags.merge /\ pluginMergable(meta) /\ pluginMergable(source)
         /\ Sidecar(source).Image = Sidecar(meta).Image
         /\ Provides(source, meta)
  OBVIOUS
<1> HIDE DEF meta, source, plugin
<1>3. /\ plugin.ID = source.ID /\ plugin.Type = source.Type
      /\ DOMAIN plugin.Containers = DOMAIN source.Containers
      /\ \A k \in DOMAIN source.Containers :
           k # 1 \/ ~IsRemote(source) => plugin.Containers[k] = source.Containers[k]
      /\ IsRemote(source) => \E port \in RandomWord : Sidecar(plugin) = Provisioned(source, port)
  BY <1>1, ProcessedParts
<1>4. Len(plugin.Containers) = Len(source.Containers)
  <2>1. plugin.Containers \in Seq(Container) /\ source.Containers \in Seq(Container)
    BY <1>1 DEF ChePlugin, PluginMeta, MetaWith
  <2> QED
    BY <1>3, <2>1
<1>5. ASSUME NEW k \in DOMAIN source.Containers, NEW asked, Runs(source.Containers[k], asked)
      PROVE  Runs(plugin.Containers[k], asked)
  <2>1. CASE k = 1 /\ IsRemote(source)
    <3>1. PICK port \in RandomWord : Sidecar(plugin) = Provisioned(source, port)
      BY <1>3, <2>1
    <3>2. Runs(Sidecar(source), asked)
      BY <1>5, <2>1 DEF Sidecar
    <3>3. Runs(Provisioned(source, port), asked)
      BY <1>1, <2>1, <3>2, ProvisionedRuns
    <3> QED
      BY <2>1, <3>1, <3>3 DEF Sidecar
  <2>2. CASE k # 1 \/ ~IsRemote(source)
    BY <1>3, <1>5, <2>2
  <2> QED
    BY <2>1, <2>2
<1>6. CASE source = meta
  <2>1. \A c : Runs(c, c)
    BY DEF Runs, AllSaid, Said, Equal, SameMount
  <2>2. \A k \in DOMAIN meta.Containers : Runs(plugin.Containers[k], meta.Containers[k])
    BY <1>5, <1>6, <2>1
  <2> QED
    BY <1>1, <1>3, <1>4, <1>6, <2>2 DEF Serves, IsTheiaOrVscodePlugin, meta, plugin
<1>7. CASE /\ flags.merge /\ pluginMergable(meta) /\ pluginMergable(source)
           /\ Sidecar(source).Image = Sidecar(meta).Image
           /\ Provides(source, meta)
  <2>1. Runs(Sidecar(source), Sidecar(meta))
    BY <1>7 DEF Provides, Runs
  <2>2. /\ meta.Containers \in Seq(Container) /\ source.Containers \in Seq(Container)
        /\ Len(meta.Containers) = 1 /\ Len(source.Containers) = 1
    BY <1>1, <1>7 DEF PluginMeta, MetaWith, pluginMergable
  <2>3. \A k \in DOMAIN meta.Containers : k = 1 /\ k \in DOMAIN source.Containers
    BY <2>2
  <2>4. \A k \in DOMAIN meta.Containers : Runs(plugin.Containers[k], meta.Containers[k])
    BY <1>5, <2>1, <2>3 DEF Sidecar
  <2>5. plugin.Type \in TheiaTypes
    BY <1>3, <1>7 DEF pluginMergable, IsTheiaOrVscodePlugin
  <2> QED
    BY <1>1, <1>4, <1>7, <2>2, <2>4, <2>5 DEF Serves, meta, plugin
<1> QED
  BY <1>2, <1>6, <1>7

(* A sidecar looks where the metadata broker told it to.                   *)
LEMMA MadeLooks ==
  ASSUME MetadataInv, NamesLeftFree, pc = "done", NEW j \in DOMAIN metasToProcess,
         IsTheiaOrVscodePlugin(metasToProcess[j])
  PROVE  LooksIn(tooling[j]) =
           IF metasToProcess[j].Containers = <<>> THEN Root
           ELSE PluginsPath[metasToProcess[j].Title]
<1> DEFINE source == metasToProcess[j]
           plugin == tooling[j]
<1>1. TypeOK /\ j \in DOMAIN tooling /\ source \in PluginMeta /\ ProcessedAs(source, plugin)
  BY PublishedTooling
<1>2. plugin \in ChePlugin /\ IsTheiaOrVscodePlugin(source)
  <2>1. tooling \in Seq(ChePlugin)
    BY DEF MetadataInv, TypeOK
  <2> QED
    BY <1>1, <2>1
<1> HIDE DEF source
<1>3. /\ plugin.Title = source.Title /\ plugin.Type = source.Type
      /\ DOMAIN plugin.Containers = DOMAIN source.Containers
  BY <1>1, ProcessedParts
<1>4. plugin.Containers = <<>> <=> source.Containers = <<>>
  <2>1. plugin.Containers \in Seq(Container) /\ source.Containers \in Seq(Container)
    BY <1>1, <1>2 DEF ChePlugin, PluginMeta, MetaWith
  <2> HIDE DEF plugin
  <2> QED
    BY <1>3, <2>1
<1>5. CASE source.Containers = <<>>
  BY <1>4, <1>5 DEF LooksIn, source
<1>6. CASE source.Containers # <<>>
  <2>1. j \in SidecarPlugins
    BY <1>1, <1>2, <1>3, <1>4, <1>6 DEF SidecarPlugins, IsTheiaOrVscodePlugin
  <2>2. Named("THEIA_PLUGINS", Sidecar(plugin).Env) =
          <<[Name |-> "THEIA_PLUGINS", Value |-> PluginsPath[plugin.Title]]>>
    BY <2>1, InvEquipped DEF SidecarsEquipped
  <2>3. \A path : <<[Name |-> "THEIA_PLUGINS", Value |-> path]>>[1].Value = path
    OBVIOUS
  <2> HIDE DEF plugin
  <2>4. LooksIn(plugin) = PluginsPath[plugin.Title]
    BY <1>4, <1>6, <2>2, <2>3 DEF LooksIn
  <2> QED
    BY <1>3, <1>6, <2>4 DEF plugin, source
<1> QED
  BY <1>5, <1>6

(* What the artifacts broker provides for a list.                          *)
LEMMA InstalledOf ==
  ASSUME NEW list, NEW q, Has(list, q), IsTheiaOrVscodePlugin(q), NEW e, Has(q.Extensions, e)
  PROVE  <<PathInPlugins(q), e>> \in convertMetasToPlugins(list)
<1>1. PICK i \in DOMAIN list : list[i] = q
  BY DEF Has
<1>2. q \in {list[k] : k \in {n \in DOMAIN list : IsTheiaOrVscodePlugin(list[n])}}
  BY <1>1
<1>3. e \in ToSet(q.Extensions)
  BY DEF Has, ToSet
<1> QED
  BY <1>2, <1>3 DEF convertMetasToPlugins

(* An id that names a directory is one that the title names too.           *)
PathsAgree ==
  /\ \A title \in Title : ArtifactsPath[title] = PluginsPath[title]
  /\ \A list \in Request : \A i \in DOMAIN list :
       list[i] \in DOMAIN Served =>
         LET meta == Identified(list[i], Served[list[i]])
         IN  meta.Containers # <<>> => ArtifactsPath[meta.ID] = PluginsPath[meta.Title]

LEMMA InvFound ==
  ASSUME WorkspaceInv, NamesLeftFree, PathsAgree
  PROVE  SidecarsFindExtensions
<1> SUFFICES ASSUME stage = "running", NEW i \in DOMAIN metas, IsTheiaOrVscodePlugin(metas[i])
             PROVE  \E j \in DOMAIN tooling :
                      /\ Serves(tooling[j], metas[i])
                      /\ \A k \in DOMAIN metas[i].Extensions :
                           <<LooksIn(tooling[j]), URLOf(metas[i].Extensions[k])>> \in available
  BY DEF SidecarsFindExtensions
<1> DEFINE meta == metas[i]
           all == ResolveRelativeExtensionPaths(metas)
<1>1. MetadataInv /\ pc = "done" /\ metas \in Seq(PluginMeta)
  BY DEF WorkspaceInv, Provisioning, MetadataInv, TypeOK
<1>2. PICK list \in MetasToInstall(all) : convertMetasToPlugins(list) \subseteq available
  BY DEF WorkspaceInv, Installing
<1>3. /\ all \in Seq(PluginMeta) /\ meta \in PluginMeta
      /\ Has(metas, meta) /\ Has(all, Resolved(meta))
  BY <1>1, ResolvedList DEF Has
<1>4. /\ Resolved(meta) \in PluginMeta
      /\ Resolved(meta).ID = meta.ID /\ Resolved(meta).Containers = meta.Containers
      /\ Resolved(meta).InitContainers = meta.InitContainers /\ Resolved(meta).Type = meta.Type
      /\ \A k \in DOMAIN meta.Extensions :
           Has(Resolved(meta).Extensions, URLOf(meta.Extensions[k]))
  BY <1>3, ResolvedParts DEF Has
<1>5. IsTheiaOrVscodePlugin(meta)
  OBVIOUS
<1>6. meta.Containers # <<>> => ArtifactsPath[meta.ID] = PluginsPath[meta.Title]
  <2>1. /\ metas[i] = Identified(request[i], Served[request[i]])
        /\ request[i] \in DOMAIN Served /\ request \in Request
    BY <1>1 DEF MetadataInv, MetasChecked
  <2>2. i \in DOMAIN request
    BY <1>1, ServedMeta
  <2> QED
    BY <2>1, <2>2 DEF PathsAgree
<1>7. ASSUME NEW j \in DOMAIN metasToProcess, metasToProcess[j] = meta,
             Has(list, Resolved(meta))
      PROVE  \E n \in DOMAIN tooling :
               /\ Serves(tooling[n], meta)
               /\ \A k \in DOMAIN meta.Extensions :
                    <<LooksIn(tooling[n]), URLOf(meta.Extensions[k])>> \in available
  <2>1. j \in DOMAIN tooling /\ Serves(tooling[j], meta)
    BY <1>1, <1>7, MadeServes
  <2>2. LooksIn(tooling[j]) = IF meta.Containers = <<>> THEN Root ELSE PluginsPath[meta.Title]
    BY <1>1, <1>5, <1>7, MadeLooks
  <2> HIDE DEF meta
  <2>3. PathInPlugins(Resolved(meta)) = LooksIn(tooling[j])
    BY <1>4, <1>6, <2>2 DEF PathInPlugins
  <2>4. IsTheiaOrVscodePlugin(Resolved(meta))
    BY <1>4, <1>5 DEF IsTheiaOrVscodePlugin
  <2>5. ASSUME NEW k \in DOMAIN meta.Extensions
        PROVE  <<LooksIn(tooling[j]), URLOf(meta.Extensions[k])>> \in available
    <3>1. <<PathInPlugins(Resolved(meta)), URLOf(meta.Extensions[k])>> \in convertMetasToPlugins(list)
      BY <1>4, <1>7, <2>4, InstalledOf
    <3> QED
      BY <1>2, <2>3, <3>1
  <2> QED
    BY <2>1, <2>5
<1>8. CASE ~flags.merge
  <2>1. metasToProcess = metas
    BY <1>1, <1>8 DEF MetadataInv, MetasMerged
  <2>2. list = all
    BY <1>2, <1>8 DEF MetasToInstall
  <2> QED
    BY <1>3, <1>7, <2>1, <2>2
<1>9. CASE flags.merge
  <2> DEFINE image == Sidecar(meta).Image
             group == GroupOf(image, metas)
             after == ResolveRelativeExtensionPaths(group)
  <2>1. metasToProcess \in MergedLists(metas)
    <3>1. MergeInv /\ MergeDone /\ plugins = metas /\ metasToProcess = MergeResult
      BY <1>1, <1>9 DEF MetadataInv, MetasMerged
    <3> QED
      BY <3>1, InvListed DEF MergedAsListed
  <2>2. list \in MergedLists(all)
    BY <1>2, <1>9 DEF MetasToInstall
  <2>3. /\ pluginMergable(Resolved(meta)) <=> pluginMergable(meta)
        /\ Sidecar(Resolved(meta)) = Sidecar(meta)
    <3> HIDE DEF meta
    <3> QED
      BY <1>4 DEF pluginMergable, IsTheiaOrVscodePlugin, Sidecar
  <2>4. GroupOf(image, all) = after
    BY <1>1, ResolvedGroup
  <2>5. IF pluginMergable(meta) /\ Merges(image, group)
        THEN Has(metasToProcess, mergePluginsForImage(image, group))
        ELSE Has(metasToProcess, meta)
    <3> HIDE DEF meta
    <3> QED
      BY <1>1, <1>3, <2>1, ListedHas
  <2>6. IF pluginMergable(meta) /\ Merges(image, after)
        THEN Has(list, mergePluginsForImage(image, after))
        ELSE Has(list, Resolved(meta))
    <3> DEFINE p == Resolved(meta)
    <3>1. Has(all, p)
      BY <1>3
    <3>2. Sidecar(p).Image = image /\ (pluginMergable(p) <=> pluginMergable(meta))
      BY <2>3
    <3> HIDE DEF p, meta, all, after, image
    <3>3. IF pluginMergable(p) /\ Merges(Sidecar(p).Image, GroupOf(Sidecar(p).Image, all))
          THEN Has(list, mergePluginsForImage(Sidecar(p).Image, GroupOf(Sidecar(p).Image, all)))
          ELSE Has(list, p)
      BY <1>3, <2>2, <3>1, ListedHas
    <3>4. IF pluginMergable(meta) /\ Merges(image, after)
          THEN Has(list, mergePluginsForImage(image, after))
          ELSE Has(list, p)
      BY <2>4, <3>2, <3>3
    <3> QED
      BY <3>4 DEF p
  <2>7. pluginMergable(meta) => image \in Image
    <3> HIDE DEF meta
    <3> QED
      BY <1>3, SidecarType DEF Container
  <2>8. Mergable(group)
    BY <1>1, GroupMergable
  <2>9. pluginMergable(meta) => Mergable(after) /\ (Merges(image, after) <=> Merges(image, group))
    <3> HIDE DEF group, image, meta
    <3> QED
      BY <2>7, <2>8, ResolvedMerges
  <2>10. CASE ~(pluginMergable(meta) /\ Merges(image, group))
    <3>1. Has(metasToProcess, meta) /\ Has(list, Resolved(meta))
      <4> HIDE DEF meta, image, group, after
      <4> QED
        BY <2>5, <2>6, <2>9, <2>10
    <3>2. PICK j \in DOMAIN metasToProcess : metasToProcess[j] = meta
      BY <3>1 DEF Has
    <3> QED
      BY <1>7, <3>1, <3>2
  <2>11. CASE pluginMergable(meta) /\ Merges(image, group)
    <3> DEFINE whole == mergePluginsForImage(image, group)
               wholeAfter == mergePluginsForImage(image, after)
    <3>1. /\ Has(metasToProcess, whole) /\ Has(list, wholeAfter)
          /\ Merges(image, after) /\ image \in Image /\ Mergable(after)
      <4> HIDE DEF meta, image, group, after
      <4> QED
        BY <2>5, <2>6, <2>7, <2>9, <2>11
    <3>2. Len(group) > 1 /\ whole # Conflict /\ Len(after) > 1 /\ wholeAfter # Conflict
      BY <2>11, <3>1 DEF Merges
    <3>3. group # <<>> /\ after # <<>>
      <4> HIDE DEF group, after
      <4> QED
        BY <3>2
    <3>4. GoodMerge(image, group, whole) /\ GoodMerge(image, after, wholeAfter)
      <4>1. NoConflict(group) /\ NoConflict(after)
        BY <3>2, MergeResults
      <4> QED
        BY <2>8, <3>1, <3>3, <4>1, MergeGood
    <3>5. Has(group, meta) /\ Has(after, Resolved(meta))
      <4>1. Has(group, meta)
        BY <1>1, <1>3, <2>11, GroupOfKeeps
      <4>2. Has(GroupOf(image, all), Resolved(meta))
        BY <1>3, <2>3, <2>11, GroupOfKeeps
      <4> QED
        BY <2>4, <4>1, <4>2
    <3>6. Provides(whole, meta) /\ Provides(wholeAfter, Resolved(meta))
      <4> HIDE DEF meta, group, after, whole, wholeAfter, image
      <4> QED
        BY <3>4, <3>5 DEF GoodMerge, Has
    <3>7. /\ whole.Title = group[1].Title /\ wholeAfter.ID = after[1].Title
          /\ whole.Containers # <<>> /\ wholeAfter.Containers # <<>>
          /\ IsTheiaOrVscodePlugin(whole) /\ IsTheiaOrVscodePlugin(wholeAfter)
      <4>1. /\ pluginMergable(whole) /\ pluginMergable(wholeAfter)
            /\ whole \in PluginMeta /\ wholeAfter \in PluginMeta
        BY <3>4 DEF GoodMerge
      <4>2. \A im, some : mergePluginsForImage(im, some) # Conflict =>
              /\ mergePluginsForImage(im, some).Title = some[1].Title
              /\ mergePluginsForImage(im, some).ID = some[1].Title
        <5> TAKE im, some
        <5>1. mergePluginsForImage(im, some) = Conflict
              \/ /\ mergePluginsForImage(im, some).Title = some[1].Title
                 /\ mergePluginsForImage(im, some).ID = some[1].Title
          BY DEF mergePluginsForImage
        <5> QED
          BY <5>1
      <4>3. whole.Title = group[1].Title /\ wholeAfter.ID = after[1].Title
        BY <3>2, <4>2
      <4> HIDE DEF whole, wholeAfter
      <4>4. whole.Containers # <<>> /\ wholeAfter.Containers # <<>>
        BY <4>1 DEF pluginMergable
      <4>5. IsTheiaOrVscodePlugin(whole) /\ IsTheiaOrVscodePlugin(wholeAfter)
        BY <4>1 DEF pluginMergable
      <4> QED
        BY <4>3, <4>4, <4>5
    <3>8. after[1].Title = group[1].Title /\ group[1].Title \in Title
      <4>1. group \in Seq(PluginMeta)
        BY <2>8 DEF Mergable
      <4> HIDE DEF group
      <4>2. 1 \in DOMAIN group
        BY <3>3, <4>1
      <4>3. after[1] = Resolved(group[1]) /\ group[1] \in PluginMeta
        BY <4>1, <4>2, ResolvedList
      <4> HIDE DEF after
      <4> QED
        BY <4>3, ResolvedParts DEF PluginMeta, MetaWith
    <3>9. PICK j \in DOMAIN metasToProcess : metasToProcess[j] = whole
      <4> HIDE DEF whole
      <4> QED
        BY <3>1 DEF Has
    <3>10. Sidecar(whole).Image = Sidecar(meta).Image /\ pluginMergable(whole)
      BY <3>4 DEF GoodMerge
    <3> HIDE DEF whole, wholeAfter, group, after, image
    <3>11. j \in DOMAIN tooling /\ Serves(tooling[j], meta)
      BY <1>1, <1>9, <2>11, <3>6, <3>9, <3>10, MadeServes
    <3>12. LooksIn(tooling[j]) = PluginsPath[whole.Title]
      BY <1>1, <3>7, <3>9, MadeLooks
    <3>13. PathInPlugins(wholeAfter) = LooksIn(tooling[j])
      BY <3>7, <3>8, <3>12 DEF PathInPlugins, PathsAgree
    <3>14. ASSUME NEW k \in DOMAIN meta.Extensions
           PROVE  <<LooksIn(tooling[j]), URLOf(meta.Extensions[k])>> \in available
      <4> DEFINE e == URLOf(meta.Extensions[k])
      <4>1. Has(Resolved(meta).Extensions, e)
        BY <1>4, <3>14
      <4> HIDE DEF e
      <4>2. Has(wholeAfter.Extensions, e)
        BY <3>6, <4>1 DEF Provides, AllSaid, Said, Equal, Has
      <4>3. <<PathInPlugins(wholeAfter), e>> \in convertMetasToPlugins(list)
        BY <3>1, <3>7, <4>2, InstalledOf
      <4> QED
        BY <1>2, <3>13, <4>3 DEF e
    <3> QED
      BY <3>11, <3>14
  <2> QED
    BY <2>10, <2>11
<1> QED
  BY <1>8, <1>9

(* Every extension of a running workspace is where the container that runs *)
(* its plugin looks, on whatever volume, when the ids that name directories *)
(* agree with the titles: the brokers do merge alike.                      *)
THEOREM ExtensionsAreFound ==
  ASSUME NamesLeftFree, PathsAgree
  PROVE  WorkspaceSpec => []SidecarsFindExtensions
<1>1. WorkspaceInv => SidecarsFindExtensions
  BY InvFound
<1> QED
  BY <1>1, WorkspaceInvariant, PTL
=============================================================================
