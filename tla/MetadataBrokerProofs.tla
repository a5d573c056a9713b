------------------------- MODULE MetadataBrokerProofs -------------------------
(***************************************************************************)
(* What is proved of MetadataBroker, for every request and whatever is     *)
(* served.  The inductive invariant is MetadataInv: the metas were checked *)
(* before anything was made of them, the merge is a call of MergePlugins   *)
(* (its own invariant is cited, not proved again), and each plugin of the  *)
(* tooling is what its meta or its merged plugin becomes.                  *)
(***************************************************************************)
EXTENDS MetadataBroker, MergePluginsProofs

-----------------------------------------------------------------------------
(* Filters *)

Editors(list) == findCheTheiaEditor(list)

(* The extensions of a list that are the given one.                        *)
Same(e, list) == Filter(list, LAMBDA x : x = e)

KeepNamed(name, kept, e) == IF e.Name = name THEN Append(kept, e) ELSE kept
KeepSame(e, kept, x) == IF x = e THEN Append(kept, x) ELSE kept
KeepEditor(x, kept, meta) ==
  IF meta.Type = "che editor" /\ meta.Title \in CheTheia /\ meta.InitContainers # <<>>
  THEN Append(kept, meta) ELSE kept

KeepingNamed == INSTANCE FoldLemmas WITH Op <- KeepNamed, Base <- <<>>
KeepingSame == INSTANCE FoldLemmas WITH Op <- KeepSame, Base <- <<>>
KeepingEditor == INSTANCE FoldLemmas WITH Op <- KeepEditor, Base <- <<>>

LEMMA NamedRun ==
  ASSUME NEW name, NEW list
  PROVE  Named(name, list) = KeepingNamed!Run(name, list)
BY Zenon DEF Named, Filter, KeepingNamed!Run, KeepNamed

LEMMA NamedNone ==
  ASSUME NEW name
  PROVE  Named(name, <<>>) = <<>>
BY NamedRun, KeepingNamed!RunEmpty

LEMMA NamedAppend ==
  ASSUME NEW name, NEW S, NEW list \in Seq(S), NEW e \in S
  PROVE  Named(name, Append(list, e)) =
           IF e.Name = name THEN Append(Named(name, list), e) ELSE Named(name, list)
<1>1. KeepingNamed!Run(name, Append(list, e)) = KeepNamed(name, KeepingNamed!Run(name, list), e)
  BY KeepingNamed!RunAppend
<1> QED
  BY <1>1, NamedRun, Zenon DEF KeepNamed

LEMMA SameRun ==
  ASSUME NEW e, NEW list
  PROVE  Same(e, list) = KeepingSame!Run(e, list)
BY Zenon DEF Same, Filter, KeepingSame!Run, KeepSame

LEMMA SameNone ==
  ASSUME NEW e
  PROVE  Same(e, <<>>) = <<>>
BY SameRun, KeepingSame!RunEmpty

LEMMA SameAppend ==
  ASSUME NEW e, NEW S, NEW list \in Seq(S), NEW x \in S
  PROVE  Same(e, Append(list, x)) = IF x = e THEN Append(Same(e, list), x) ELSE Same(e, list)
<1>1. KeepingSame!Run(e, Append(list, x)) = KeepSame(e, KeepingSame!Run(e, list), x)
  BY KeepingSame!RunAppend
<1> QED
  BY <1>1, SameRun, Zenon DEF KeepSame

LEMMA EditorsRun ==
  ASSUME NEW list
  PROVE  Editors(list) = KeepingEditor!Run(0, list)
BY Zenon DEF Editors, findCheTheiaEditor, Filter, KeepingEditor!Run, KeepEditor

IsEditor(meta) ==
  meta.Type = "che editor" /\ meta.Title \in CheTheia /\ meta.InitContainers # <<>>

LEMMA EditorsNone == Editors(<<>>) = <<>>
BY EditorsRun, KeepingEditor!RunEmpty

LEMMA EditorsAppend ==
  ASSUME NEW S, NEW list \in Seq(S), NEW meta \in S
  PROVE  Editors(Append(list, meta)) =
           IF IsEditor(meta) THEN Append(Editors(list), meta) ELSE Editors(list)
<1>1. KeepingEditor!Run(0, Append(list, meta)) = KeepEditor(0, KeepingEditor!Run(0, list), meta)
  BY KeepingEditor!RunAppend
<1> QED
  BY <1>1, EditorsRun, Zenon DEF KeepEditor, IsEditor

LEMMA NamedKeeps ==
  ASSUME NEW S, NEW list \in Seq(S), NEW name
  PROVE  /\ Named(name, list) \in Seq(S)
         /\ \A e : Has(Named(name, list), e) <=> Has(list, e) /\ e.Name = name
<1> DEFINE T == {s \in Seq(S) : /\ Named(name, s) \in Seq(S)
                                /\ \A e : Has(Named(name, s), e) <=> Has(s, e) /\ e.Name = name}
<1>1. <<>> \in T
  <2>1. <<>> \in Seq(S) /\ \A e : ~Has(<<>>, e)
    BY DEF Has
  <2> QED
    BY <2>1, NamedNone
<1>2. ASSUME NEW s \in Seq(S), NEW x \in S, s \in T PROVE Append(s, x) \in T
  <2>1. /\ Named(name, s) \in Seq(S)
        /\ \A e : Has(Named(name, s), e) <=> Has(s, e) /\ e.Name = name
    BY <1>2
  <2>2. Named(name, Append(s, x)) = IF x.Name = name THEN Append(Named(name, s), x) ELSE Named(name, s)
    BY NamedAppend
  <2>3. Append(s, x) \in Seq(S) /\ \A e : Has(Append(s, x), e) <=> Has(s, e) \/ e = x
    BY HasAppend
  <2>4. Append(Named(name, s), x) \in Seq(S)
        /\ \A e : Has(Append(Named(name, s), x), e) <=> Has(Named(name, s), e) \/ e = x
    BY <2>1, HasAppend
  <2>5. CASE x.Name = name
    BY <2>1, <2>2, <2>3, <2>4, <2>5
  <2>6. CASE x.Name # name
    BY <2>1, <2>2, <2>3, <2>6
  <2> QED
    BY <2>5, <2>6
<1> HIDE DEF T
<1>3. Seq(S) \subseteq T
  BY <1>1, <1>2, SeqSetInduction
<1> QED
  BY <1>3 DEF T

LEMMA SameKeeps ==
  ASSUME NEW S, NEW list \in Seq(S), NEW e
  PROVE  Same(e, list) \in Seq(S) /\ \A x : Has(Same(e, list), x) <=> Has(list, x) /\ x = e
<1> DEFINE T == {s \in Seq(S) : /\ Same(e, s) \in Seq(S)
                                /\ \A x : Has(Same(e, s), x) <=> Has(s, x) /\ x = e}
<1>1. <<>> \in T
  <2>1. <<>> \in Seq(S) /\ \A x : ~Has(<<>>, x)
    BY DEF Has
  <2> QED
    BY <2>1, SameNone
<1>2. ASSUME NEW s \in Seq(S), NEW y \in S, s \in T PROVE Append(s, y) \in T
  <2>1. Same(e, s) \in Seq(S) /\ \A x : Has(Same(e, s), x) <=> Has(s, x) /\ x = e
    BY <1>2
  <2>2. Same(e, Append(s, y)) = IF y = e THEN Append(Same(e, s), y) ELSE Same(e, s)
    BY SameAppend
  <2>3. Append(s, y) \in Seq(S) /\ \A x : Has(Append(s, y), x) <=> Has(s, x) \/ x = y
    BY HasAppend
  <2>4. Append(Same(e, s), y) \in Seq(S)
        /\ \A x : Has(Append(Same(e, s), y), x) <=> Has(Same(e, s), x) \/ x = y
    BY <2>1, HasAppend
  <2>5. CASE y = e
    BY <2>1, <2>2, <2>3, <2>4, <2>5
  <2>6. CASE y # e
    BY <2>1, <2>2, <2>3, <2>6
  <2> QED
    BY <2>5, <2>6
<1> HIDE DEF T
<1>3. Seq(S) \subseteq T
  BY <1>1, <1>2, SeqSetInduction
<1> QED
  BY <1>3 DEF T

LEMMA EditorsKeeps ==
  ASSUME NEW S, NEW list \in Seq(S)
  PROVE  /\ Editors(list) \in Seq(S)
         /\ \A meta : Has(Editors(list), meta) <=> Has(list, meta) /\ IsEditor(meta)
<1> DEFINE T == {s \in Seq(S) : /\ Editors(s) \in Seq(S)
                                /\ \A m : Has(Editors(s), m) <=> Has(s, m) /\ IsEditor(m)}
<1>1. <<>> \in T
  <2>1. <<>> \in Seq(S) /\ \A m : ~Has(<<>>, m)
    BY DEF Has
  <2> QED
    BY <2>1, EditorsNone
<1>2. ASSUME NEW s \in Seq(S), NEW x \in S, s \in T PROVE Append(s, x) \in T
  <2>1. Editors(s) \in Seq(S) /\ \A m : Has(Editors(s), m) <=> Has(s, m) /\ IsEditor(m)
    BY <1>2
  <2>2. Editors(Append(s, x)) = IF IsEditor(x) THEN Append(Editors(s), x) ELSE Editors(s)
    BY EditorsAppend
  <2>3. Append(s, x) \in Seq(S) /\ \A m : Has(Append(s, x), m) <=> Has(s, m) \/ m = x
    BY HasAppend
  <2>4. Append(Editors(s), x) \in Seq(S)
        /\ \A m : Has(Append(Editors(s), x), m) <=> Has(Editors(s), m) \/ m = x
    BY <2>1, HasAppend
  <2>5. CASE IsEditor(x)
    BY <2>1, <2>2, <2>3, <2>4, <2>5
  <2>6. CASE ~IsEditor(x)
    BY <2>1, <2>2, <2>3, <2>6
  <2> QED
    BY <2>5, <2>6
<1> HIDE DEF T
<1>3. Seq(S) \subseteq T
  BY <1>1, <1>2, SeqSetInduction
<1> QED
  BY <1>3 DEF T

-----------------------------------------------------------------------------
(* Types *)

LEMMA IdentifiedType ==
  ASSUME NEW fqn \in PluginFQN, NEW raw \in MetaFile
  PROVE  Identified(fqn, raw) \in PluginMeta
<1>1. /\ raw.ID \in PluginID \union {None} /\ raw.Title \in PluginID
      /\ fqn.ID \in PluginID \union {None}
  BY MergeAssumption DEF MetaFile, MetaWith, PluginFQN
<1>2. ASSUME NEW id \in PluginID PROVE WithID(raw, id) \in PluginMeta
  BY DEF WithID, MetaFile, MetaWith, PluginMeta
<1>3. raw.ID # None => raw \in PluginMeta
  BY <1>1 DEF MetaFile, MetaWith, PluginMeta
<1> QED
  BY <1>1, <1>2, <1>3 DEF Identified

LEMMA InjectionType ==
  ASSUME NEW list \in Seq(PluginMeta)
  PROVE  GetRuntimeInjection(list) \in RemotePluginInjection \union {None, Failure}
<1> DEFINE editors == Editors(list)
           injectors == Named("remote-runtime-injector", editors[1].InitContainers)
<1>1. GetRuntimeInjection(list) =
        IF editors = <<>> \/ injectors = <<>> THEN None ELSE InjectionOf(injectors[1])
  BY Zenon DEF GetRuntimeInjection, Editors
<1>2. editors \in Seq(PluginMeta)
  BY EditorsKeeps
<1> HIDE DEF editors
<1>3. editors # <<>> => editors[1].InitContainers \in Seq(Container)
  <2>1. editors # <<>> => editors[1] \in PluginMeta
    BY <1>2
  <2> QED
    BY <2>1 DEF PluginMeta, MetaWith
<1>4. editors # <<>> => injectors \in Seq(Container)
  BY <1>3, NamedKeeps
<1> HIDE DEF injectors
<1>5. ASSUME NEW injector \in Container
      PROVE  InjectionOf(injector) \in RemotePluginInjection \union {Failure}
  <2> DEFINE envs(name) == Named(name, injector.Env)
             volumes == Named(envs("REMOTE_ENDPOINT_VOLUME_NAME")[1].Value, injector.Volumes)
  <2>1. injector.Env \in Seq(EnvVar) /\ injector.Volumes \in Seq(Volume)
    BY DEF Container
  <2>2. \A name : envs(name) \in Seq(EnvVar)
    BY <2>1, NamedKeeps
  <2>3. volumes \in Seq(Volume)
    BY <2>1, NamedKeeps
  <2>4. InjectionOf(injector) =
          IF /\ FoundEnv("PLUGIN_REMOTE_ENDPOINT_EXECUTABLE", injector)
             /\ FoundEnv("REMOTE_ENDPOINT_VOLUME_NAME", injector)
             /\ volumes # <<>>
          THEN [Env |-> envs("PLUGIN_REMOTE_ENDPOINT_EXECUTABLE")[1], Volume |-> volumes[1]]
          ELSE Failure
    BY Zenon DEF InjectionOf
  <2>5. FoundEnv("PLUGIN_REMOTE_ENDPOINT_EXECUTABLE", injector)
          => envs("PLUGIN_REMOTE_ENDPOINT_EXECUTABLE") # <<>>
    BY DEF FoundEnv
  <2> HIDE DEF envs, volumes
  <2>6. volumes # <<>> => volumes[1] \in Volume
    BY <2>3
  <2>7. FoundEnv("PLUGIN_REMOTE_ENDPOINT_EXECUTABLE", injector)
          => envs("PLUGIN_REMOTE_ENDPOINT_EXECUTABLE")[1] \in EnvVar
    BY <2>2, <2>5
  <2> QED
    BY <2>4, <2>6, <2>7 DEF RemotePluginInjection
<1>6. editors # <<>> /\ injectors # <<>> => injectors[1] \in Container
  BY <1>4
<1> QED
  BY <1>1, <1>5, <1>6

(* The ids of the entries of a list that bring an extension.               *)
IDsOf(e, list) ==
  FlattenSeq([i \in DOMAIN list |-> [k \in DOMAIN Same(e, list[i].Extensions) |-> list[i].ID]])

LEMMA CollisionsAre ==
  ASSUME NEW list
  PROVE  GetExtensionCollisions(list) =
           [e \in {x \in UNION {ToSet(list[i].Extensions) : i \in DOMAIN list} : Len(IDsOf(x, list)) > 1} |->
              IDsOf(e, list)]
BY Zenon DEF GetExtensionCollisions, IDsOf, Same

LEMMA IDListsType ==
  ASSUME NEW list \in Seq(PluginMeta), NEW e
  PROVE  /\ [i \in DOMAIN list |-> [k \in DOMAIN Same(e, list[i].Extensions) |-> list[i].ID]]
              \in Seq(Seq(PluginID))
         /\ IDsOf(e, list) \in Seq(PluginID)
<1> DEFINE IDs(i) == [k \in DOMAIN Same(e, list[i].Extensions) |-> list[i].ID]
           lists == [i \in DOMAIN list |-> IDs(i)]
<1>1. ASSUME NEW i \in DOMAIN list PROVE IDs(i) \in Seq(PluginID)
  <2>1. list[i].Extensions \in Seq(Word) /\ list[i].ID \in PluginID
    <3>1. list[i] \in PluginMeta
      OBVIOUS
    <3> QED
      BY <3>1 DEF PluginMeta, MetaWith
  <2>2. Same(e, list[i].Extensions) \in Seq(Word)
    BY <2>1, SameKeeps
  <2>3. PICK n \in Nat : DOMAIN Same(e, list[i].Extensions) = 1 .. n
    BY <2>2
  <2> QED
    BY <2>1, <2>3
<1> HIDE DEF IDs
<1>2. lists \in Seq(Seq(PluginID))
  <2>1. DOMAIN list = 1 .. Len(list) /\ Len(list) \in Nat
    OBVIOUS
  <2> QED
    BY <1>1, <2>1
<1>3. FlattenSeq(lists) \in Seq(PluginID)
  BY <1>2, FlattenType
<1> QED
  BY <1>2, <1>3, Zenon DEF IDsOf, IDs

LEMMA CollisionsType ==
  ASSUME NEW list \in Seq(PluginMeta)
  PROVE  /\ DOMAIN GetExtensionCollisions(list) \subseteq Word
         /\ \A e \in DOMAIN GetExtensionCollisions(list) :
              /\ GetExtensionCollisions(list)[e] = IDsOf(e, list)
              /\ GetExtensionCollisions(list)[e] \in Seq(PluginID)
<1>1. \A i \in DOMAIN list : ToSet(list[i].Extensions) \subseteq Word
  <2>1. \A i \in DOMAIN list : list[i].Extensions \in Seq(Word)
    BY MetaParts
  <2> QED
    BY <2>1 DEF ToSet
<1>2. UNION {ToSet(list[i].Extensions) : i \in DOMAIN list} \subseteq Word
  BY <1>1
<1>3. \A e : IDsOf(e, list) \in Seq(PluginID)
  BY IDListsType
<1> QED
  BY <1>2, <1>3, CollisionsAre

(* What a container runs, and what it is told.                             *)
Parts(c, asked, env, volumes, ports) ==
  /\ c \in Container
  /\ c.Image = asked.Image /\ c.Commands = asked.Commands
  /\ c.Env = env /\ c.Volumes = volumes /\ c.Ports = ports

LEMMA PartsOfAny ==
  ASSUME NEW c \in Container
  PROVE  /\ c.Env \in Seq(EnvVar) /\ c.Volumes \in Seq(Volume) /\ c.Ports \in Seq(Word)
         /\ Parts(c, c, c.Env, c.Volumes, c.Ports)
BY DEF Container, Parts

LEMMA PartsEnv ==
  ASSUME NEW c, NEW asked, NEW env, NEW volumes, NEW ports, Parts(c, asked, env, volumes, ports),
         NEW more \in Seq(EnvVar)
  PROVE  /\ Parts([c EXCEPT !.Env = more], asked, more, volumes, ports)
         /\ [c EXCEPT !.Env = more].MountSources = c.MountSources
BY DEF Container, Parts

LEMMA PartsVolumes ==
  ASSUME NEW c, NEW asked, NEW env, NEW volumes, NEW ports, Parts(c, asked, env, volumes, ports),
         NEW more \in Seq(Volume)
  PROVE  /\ Parts([c EXCEPT !.Volumes = more], asked, env, more, ports)
         /\ [c EXCEPT !.Volumes = more].MountSources = c.MountSources
BY DEF Container, Parts

LEMMA PartsPorts ==
  ASSUME NEW c, NEW asked, NEW env, NEW volumes, NEW ports, Parts(c, asked, env, volumes, ports),
         NEW more \in Seq(Word)
  PROVE  /\ Parts([c EXCEPT !.Ports = more], asked, env, volumes, more)
         /\ [c EXCEPT !.Ports = more].MountSources = c.MountSources
BY DEF Container, Parts

LEMMA PartsMounted ==
  ASSUME NEW c, NEW asked, NEW env, NEW volumes, NEW ports, Parts(c, asked, env, volumes, ports)
  PROVE  /\ Parts([c EXCEPT !.MountSources = TRUE], asked, env, volumes, ports)
         /\ [c EXCEPT !.MountSources = TRUE].MountSources
BY DEF Container, Parts

(* What a remote plugin's container becomes.                               *)
Provisioned(meta, port) == InjectRemoteRuntime(RunnerContainer(meta, port))

(* Each list of a container that is provisioned grows at its end.          *)
PluginsEnv(meta) == [Name |-> "THEIA_PLUGINS", Value |-> PluginsPath[meta.Title]]
PortEnv(port) == [Name |-> "THEIA_PLUGIN_ENDPOINT_PORT", Value |-> port]

RunnerEnv(meta, port) ==
  IF flags.localhost THEN Append(Sidecar(meta).Env, PluginsEnv(meta))
  ELSE Append(Append(Sidecar(meta).Env, PortEnv(port)), PluginsEnv(meta))
RunnerVolumes(meta) == Append(Sidecar(meta).Volumes, PluginsVolume)
RunnerPorts(meta, port) ==
  IF flags.localhost THEN Sidecar(meta).Ports ELSE Append(Sidecar(meta).Ports, port)

WithInjected(list, entry) == IF injection = None THEN list ELSE Append(list, entry)

LEMMA RunnerParts ==
  ASSUME NEW meta, NEW port \in Word, Sidecar(meta) \in Container,
         PluginsEnv(meta) \in EnvVar, PortEnv(port) \in EnvVar, PluginsVolume \in Volume
  PROVE  /\ Parts(RunnerContainer(meta, port), Sidecar(meta),
                  RunnerEnv(meta, port), RunnerVolumes(meta), RunnerPorts(meta, port))
         /\ RunnerContainer(meta, port).MountSources
<1> DEFINE c == Sidecar(meta)
           with == [c EXCEPT !.Volumes = Append(c.Volumes, PluginsVolume)]
           mounted == [with EXCEPT !.MountSources = TRUE]
           provisioned == IF flags.localhost THEN mounted ELSE NonLocalHostContainer(mounted, port)
<1>1. RunnerContainer(meta, port) =
        [provisioned EXCEPT !.Env = Append(provisioned.Env, PluginsEnv(meta))]
  BY Zenon DEF RunnerContainer, PluginsVolume, PluginsEnv
<1>2. /\ c.Env \in Seq(EnvVar) /\ c.Volumes \in Seq(Volume) /\ c.Ports \in Seq(Word)
      /\ Parts(c, c, c.Env, c.Volumes, c.Ports)
  BY PartsOfAny
<1> HIDE DEF c
<1>3. /\ Append(c.Volumes, PluginsVolume) \in Seq(Volume)
      /\ Append(c.Volumes, PluginsVolume) = RunnerVolumes(meta)
      /\ Append(c.Ports, port) \in Seq(Word)
      /\ Append(c.Env, PortEnv(port)) \in Seq(EnvVar)
      /\ Append(c.Env, PluginsEnv(meta)) \in Seq(EnvVar)
  BY <1>2, AppendProperties DEF RunnerVolumes, c
<1>4. Parts(with, c, c.Env, RunnerVolumes(meta), c.Ports)
  BY <1>2, <1>3, PartsVolumes
<1> HIDE DEF with
<1>5. Parts(mounted, c, c.Env, RunnerVolumes(meta), c.Ports) /\ mounted.MountSources
  BY <1>4, PartsMounted
<1> HIDE DEF mounted
<1>6. CASE flags.localhost
  <2>1. provisioned = mounted /\ mounted.Env = c.Env
    BY <1>5, <1>6 DEF Parts
  <2>2. RunnerEnv(meta, port) = Append(c.Env, PluginsEnv(meta)) /\ RunnerPorts(meta, port) = c.Ports
    BY <1>6 DEF RunnerEnv, RunnerPorts, c
  <2> HIDE DEF provisioned
  <2>3. RunnerContainer(meta, port) = [mounted EXCEPT !.Env = Append(c.Env, PluginsEnv(meta))]
    BY <1>1, <2>1
  <2>4. /\ Parts([mounted EXCEPT !.Env = Append(c.Env, PluginsEnv(meta))], c,
                  Append(c.Env, PluginsEnv(meta)), RunnerVolumes(meta), c.Ports)
        /\ [mounted EXCEPT !.Env = Append(c.Env, PluginsEnv(meta))].MountSources
    BY <1>3, <1>5, PartsEnv
  <2> QED
    BY <2>2, <2>3, <2>4, Zenon DEF c
<1>7. CASE ~flags.localhost
  <2> DEFINE exposed == [mounted EXCEPT !.Ports = Append(mounted.Ports, port)]
             told == [exposed EXCEPT !.Env = Append(exposed.Env, PortEnv(port))]
             env == Append(c.Env, PortEnv(port))
  <2>1. provisioned = NonLocalHostContainer(mounted, port)
    BY <1>7
  <2>2. /\ RunnerEnv(meta, port) = Append(env, PluginsEnv(meta))
        /\ RunnerPorts(meta, port) = Append(c.Ports, port)
    BY <1>7, Zenon DEF RunnerEnv, RunnerPorts, c
  <2>3. mounted.Ports = c.Ports
    BY <1>5 DEF Parts
  <2>4. /\ Parts(exposed, c, c.Env, RunnerVolumes(meta), Append(c.Ports, port))
        /\ exposed.MountSources
    BY <1>3, <1>5, <2>3, PartsPorts
  <2>5. NonLocalHostContainer(mounted, port) =
          [[mounted EXCEPT !.Ports = Append(mounted.Ports, port)]
             EXCEPT !.Env = Append([mounted EXCEPT !.Ports = Append(mounted.Ports, port)].Env, PortEnv(port))]
    BY Zenon DEF NonLocalHostContainer, PortEnv
  <2>6. provisioned = told
    BY <2>1, <2>5, Zenon
  <2> HIDE DEF exposed, provisioned
  <2>7. exposed.Env = c.Env
    BY <2>4 DEF Parts
  <2>8. /\ Parts(told, c, env, RunnerVolumes(meta), Append(c.Ports, port))
        /\ told.MountSources
    BY <1>3, <2>4, <2>7, PartsEnv
  <2> HIDE DEF told, env
  <2>9. provisioned.Env = env /\ Append(env, PluginsEnv(meta)) \in Seq(EnvVar)
    BY <1>3, <2>6, <2>8, AppendProperties DEF Parts, env
  <2>10. RunnerContainer(meta, port) = [told EXCEPT !.Env = Append(env, PluginsEnv(meta))]
    BY <1>1, <2>6, <2>9
  <2>11. /\ Parts([told EXCEPT !.Env = Append(env, PluginsEnv(meta))], c,
                   Append(env, PluginsEnv(meta)), RunnerVolumes(meta), Append(c.Ports, port))
         /\ [told EXCEPT !.Env = Append(env, PluginsEnv(meta))].MountSources
    BY <2>8, <2>9, PartsEnv
  <2> QED
    BY <2>2, <2>10, <2>11, Zenon DEF c, env
<1> QED
  BY <1>6, <1>7

LEMMA ProvisionedParts ==
  ASSUME TypeOK, NEW meta \in PluginMeta, IsRemote(meta), NEW port \in RandomWord
  PROVE  /\ Sidecar(meta) \in Container
         /\ RunnerEnv(meta, port) \in Seq(EnvVar) /\ RunnerVolumes(meta) \in Seq(Volume)
         /\ PluginsEnv(meta) \in EnvVar /\ PortEnv(port) \in EnvVar /\ PluginsVolume \in Volume
         /\ injection # None => injection.Env \in EnvVar /\ injection.Volume \in Volume
         /\ Parts(Provisioned(meta, port), Sidecar(meta),
                  WithInjected(RunnerEnv(meta, port), injection.Env),
                  WithInjected(RunnerVolumes(meta), injection.Volume), RunnerPorts(meta, port))
         /\ Provisioned(meta, port).MountSources
<1>1. meta.Containers \in Seq(Container) /\ meta.Containers # <<>> /\ meta.Title \in Title
  BY DEF PluginMeta, MetaWith, IsRemote
<1>2. Sidecar(meta) \in Container
  BY <1>1 DEF Sidecar
<1>3. port \in Word
  BY MetadataAssumption
<1>4. PluginsEnv(meta) \in EnvVar /\ PortEnv(port) \in EnvVar /\ PluginsVolume \in Volume
  BY <1>1, MetadataAssumption DEF PluginsEnv, PortEnv, PluginsVolume, EnvVar, Volume
<1>5. injection # None => injection.Env \in EnvVar /\ injection.Volume \in Volume
  BY DEF TypeOK, RemotePluginInjection
<1>6. /\ Sidecar(meta).Env \in Seq(EnvVar) /\ Sidecar(meta).Volumes \in Seq(Volume)
      /\ Sidecar(meta).Ports \in Seq(Word)
  BY <1>2, PartsOfAny
<1>7. RunnerEnv(meta, port) \in Seq(EnvVar) /\ RunnerVolumes(meta) \in Seq(Volume)
  BY <1>4, <1>6, AppendProperties DEF RunnerEnv, RunnerVolumes
<1> DEFINE runner == RunnerContainer(meta, port)
           env == Append(runner.Env, injection.Env)
           volumes == Append(runner.Volumes, injection.Volume)
<1>8. /\ Parts(runner, Sidecar(meta), RunnerEnv(meta, port), RunnerVolumes(meta), RunnerPorts(meta, port))
      /\ runner.MountSources
  BY <1>2, <1>3, <1>4, RunnerParts
<1> HIDE DEF runner
<1>9. CASE injection = None
  <2>1. Provisioned(meta, port) = runner
    BY <1>9 DEF Provisioned, InjectRemoteRuntime, runner
  <2> QED
    BY <1>2, <1>4, <1>5, <1>7, <1>8, <1>9, <2>1 DEF WithInjected
<1>10. CASE injection # None
  <2> DEFINE told == [runner EXCEPT !.Env = env]
  <2>1. runner.Env = RunnerEnv(meta, port) /\ runner.Volumes = RunnerVolumes(meta)
    BY <1>8 DEF Parts
  <2>2. env \in Seq(EnvVar) /\ volumes \in Seq(Volume)
    BY <1>5, <1>7, <1>10, <2>1, AppendProperties
  <2>3. /\ env = WithInjected(RunnerEnv(meta, port), injection.Env)
        /\ volumes = WithInjected(RunnerVolumes(meta), injection.Volume)
    BY <1>10, <2>1 DEF WithInjected
  <2>4. Parts(told, Sidecar(meta), env, RunnerVolumes(meta), RunnerPorts(meta, port)) /\ told.MountSources
    BY <1>8, <2>2, PartsEnv
  <2>5. Provisioned(meta, port) =
          [[runner EXCEPT !.Env = Append(runner.Env, injection.Env)]
             EXCEPT !.Volumes = Append([runner EXCEPT !.Env = Append(runner.Env, injection.Env)].Volumes, injection.Volume)]
    BY <1>10, Zenon DEF Provisioned, InjectRemoteRuntime, runner
  <2>6. Provisioned(meta, port) = [told EXCEPT !.Volumes = Append(told.Volumes, injection.Volume)]
    BY <2>5, Zenon
  <2> HIDE DEF told
  <2>7. Append(told.Volumes, injection.Volume) = volumes
    BY <2>1, <2>4 DEF Parts
  <2>8. Provisioned(meta, port) = [told EXCEPT !.Volumes = volumes]
    BY <2>6, <2>7, Zenon
  <2> HIDE DEF env, volumes
  <2>9. /\ Parts(Provisioned(meta, port), Sidecar(meta), env, volumes, RunnerPorts(meta, port))
        /\ Provisioned(meta, port).MountSources
    BY <2>2, <2>4, <2>8, PartsVolumes
  <2> QED
    BY <1>2, <1>4, <1>5, <1>7, <2>3, <2>9
<1> QED
  BY <1>9, <1>10

(* Provisioning puts the container in place of the meta's own, and leaves  *)
(* the rest of the meta as it is.                                          *)
LEMMA ProvisionedType ==
  ASSUME TypeOK, NEW meta \in PluginMeta, IsRemote(meta), NEW port \in RandomWord
  PROVE  /\ ProvisionSidecar(meta, port) \in PluginMeta
         /\ ProvisionSidecar(meta, port).Containers = [meta.Containers EXCEPT ![1] = Provisioned(meta, port)]
         /\ ProvisionSidecar(meta, port).ID = meta.ID /\ ProvisionSidecar(meta, port).Title = meta.Title
         /\ ProvisionSidecar(meta, port).Type = meta.Type
         /\ ProvisionSidecar(meta, port).Endpoints = meta.Endpoints
         /\ ProvisionSidecar(meta, port).WorkspaceEnv = meta.WorkspaceEnv
<1>1. meta.Containers \in Seq(Container) /\ Provisioned(meta, port) \in Container
  BY ProvisionedParts DEF PluginMeta, MetaWith, Parts
<1> DEFINE containers == [meta.Containers EXCEPT ![1] = Provisioned(meta, port)]
<1>2. containers \in Seq(Container)
  <2>1. 1 \in 1 .. Len(meta.Containers)
    BY <1>1 DEF IsRemote
  <2> QED
    BY <1>1, <2>1, ExceptSeq
<1>3. ProvisionSidecar(meta, port) = [meta EXCEPT !.Containers = containers]
  BY Zenon DEF ProvisionSidecar, Provisioned
<1> HIDE DEF containers
<1>4. /\ [meta EXCEPT !.Containers = containers] \in PluginMeta
      /\ [meta EXCEPT !.Containers = containers].Containers = containers
  BY <1>2 DEF PluginMeta, MetaWith
<1>5. /\ [meta EXCEPT !.Containers = containers].ID = meta.ID
      /\ [meta EXCEPT !.Containers = containers].Title = meta.Title
      /\ [meta EXCEPT !.Containers = containers].Type = meta.Type
      /\ [meta EXCEPT !.Containers = containers].Endpoints = meta.Endpoints
      /\ [meta EXCEPT !.Containers = containers].WorkspaceEnv = meta.WorkspaceEnv
  BY DEF PluginMeta, MetaWith
<1> QED
  BY <1>3, <1>4, <1>5, Zenon DEF containers

LEMMA ConvertedType ==
  ASSUME NEW meta \in PluginMeta
  PROVE  ConvertMetaToPlugin(meta) \in ChePlugin
BY DEF ConvertMetaToPlugin, ChePlugin, PluginMeta, MetaWith

LEMMA ProcessedType ==
  ASSUME TypeOK, NEW meta \in PluginMeta, NEW plugin, ProcessedAs(meta, plugin)
  PROVE  plugin \in ChePlugin
BY ProvisionedType, ConvertedType DEF ProcessedAs

-----------------------------------------------------------------------------
(* The invariant holds when a start begins, and every step preserves it.   *)

LEMMA BeginsNext == (\A list \in Seq(PluginMeta) : BeginsWith(list) => MergeInv)'
<1>1. \A list \in Seq(PluginMeta) : BeginsWith(list) => MergeInv
  BY BeginsMergeInv
<1> QED
  BY <1>1, PTL

LEMMA StartHasInv ==
  ASSUME StartInit
  PROVE  MetadataInv
<1>1. MergeInv
  <2>1. <<>> \in Seq(PluginMeta) /\ BeginsWith(<<>>)
    BY DEF StartInit
  <2> QED
    BY <2>1, BeginsMergeInv
<1>2. TypeOK
  <2>1. flags \in Flags /\ request \in Seq(PluginFQN)
    BY MetadataAssumption DEF StartInit
  <2>2. metas \in Seq(PluginMeta) /\ metasToProcess \in Seq(PluginMeta) /\ tooling \in Seq(ChePlugin)
    BY DEF StartInit
  <2>3. DOMAIN collisions = {}
    BY DEF StartInit
  <2> QED
    BY <1>1, <2>1, <2>2, <2>3 DEF StartInit, TypeOK, MergeInv
<1>3. MetasChecked
  <2>1. Len(metas) = 0 /\ Len(request) \in Nat
    BY <1>2 DEF StartInit, TypeOK
  <2> QED
    BY <2>1 DEF StartInit, MetasChecked
<1>4. MetasMerged
  BY <1>1 DEF StartInit, MetasMerged
<1>5. MetasProcessed
  BY DEF StartInit, MetasProcessed
<1> QED
  BY <1>2, <1>3, <1>4, <1>5 DEF MetadataInv

(* A step that leaves the merge and the tooling alone, before the merge.   *)
LEMMA MergeUntouched ==
  ASSUME MetadataInv, pc \in {"fetch", "validate"},
         UNCHANGED <<flags, metasToProcess, tooling, mergeVars>>,
         pc' \in {"fetch", "validate", "failed"}
  PROVE  MetasMerged' /\ MetasProcessed' /\ MergeTypeOK'
<1>1. MergeInv' /\ BeginsWith(<<>>)'
  <2>1. MergeInv /\ BeginsWith(<<>>)
    BY DEF MetadataInv, MetasMerged
  <2>2. MergeInv'
    BY <2>1, RestKeepsMergeInv
  <2> QED
    BY <2>1, <2>2 DEF BeginsWith, mergeVars
<1>2. tooling = <<>> /\ metasToProcess \in Seq(PluginMeta)
  BY DEF MetadataInv, MetasProcessed, TypeOK
<1> QED
  BY <1>1, <1>2 DEF MetasMerged, MetasProcessed, MergeInv

LEMMA GetPluginMetaKeepsInv ==
  ASSUME MetadataInv, GetPluginMeta
  PROVE  MetadataInv'
<1> DEFINE fqn == request[Len(metas) + 1]
           meta == Identified(fqn, Served[fqn])
<1>1. /\ metas \in Seq(PluginMeta) /\ request \in Seq(PluginFQN) /\ Len(metas) < Len(request)
      /\ fqn \in DOMAIN Served /\ metas' = Append(metas, meta) /\ pc = "fetch"
      /\ UNCHANGED <<pc, flags, request, collisions, injection, metasToProcess, tooling, mergeVars>>
  BY DEF MetadataInv, TypeOK, GetPluginMeta
<1>2. meta \in PluginMeta
  <2>1. fqn \in PluginFQN /\ Served[fqn] \in MetaFile
    BY <1>1, MetadataAssumption
  <2> QED
    BY <2>1, IdentifiedType
<1> HIDE DEF meta
<1>3. metas' \in Seq(PluginMeta) /\ Len(metas') <= Len(request') /\ pc' = "fetch"
  <2>1. Append(metas, meta) \in Seq(PluginMeta) /\ Len(Append(metas, meta)) = Len(metas) + 1
        /\ Len(metas) \in Nat /\ Len(request) \in Nat
    BY <1>1, <1>2, AppendProperties
  <2> QED
    BY <1>1, <2>1
<1>4. MetasMerged' /\ MetasProcessed' /\ MergeTypeOK'
  BY <1>1, MergeUntouched
<1>5. TypeOK'
  BY <1>1, <1>3, <1>4 DEF MetadataInv, TypeOK
<1>6. ASSUME NEW i \in DOMAIN metas'
      PROVE  /\ request[i] \in DOMAIN Served
             /\ metas'[i] = Identified(request[i], Served[request[i]])
  <2> DEFINE n == Len(metas)
  <2>1. /\ DOMAIN Append(metas, meta) = 1 .. n + 1 /\ Append(metas, meta)[n + 1] = meta
        /\ \A k \in 1 .. n : Append(metas, meta)[k] = metas[k]
        /\ DOMAIN metas = 1 .. n /\ n \in Nat
    BY <1>1, <1>2, AppendProperties
  <2>2. CASE i = n + 1
    BY <1>1, <2>1, <2>2 DEF meta
  <2>3. CASE i \in 1 .. n
    BY <1>1, <2>1, <2>3 DEF MetadataInv, MetasChecked
  <2> QED
    BY <1>1, <2>1, <2>2, <2>3
<1>7. MetasChecked'
  <2>1. request \in Request
    BY DEF MetadataInv, MetasChecked
  <2>2. \A i \in DOMAIN metas' :
          /\ request'[i] \in DOMAIN Served
          /\ metas'[i] = Identified(request'[i], Served[request'[i]])
    BY <1>1, <1>6
  <2>3. (\A i \in DOMAIN metas : request[i] \in DOMAIN Served
                                  /\ metas[i] = Identified(request[i], Served[request[i]]))'
    BY <2>2 DEF Identified, WithID
  <2> QED
    BY <1>1, <1>3, <2>1, <2>3 DEF MetasChecked
<1> QED
  BY <1>4, <1>5, <1>7 DEF MetadataInv

(* A start that fails while it fetches or checks.                          *)
LEMMA FailureKeepsInv ==
  ASSUME MetadataInv, GetPluginMetaFails \/ ProcessPluginsFails
  PROVE  MetadataInv'
<1>1. /\ pc \in {"fetch", "validate"} /\ pc' = "failed"
      /\ UNCHANGED <<flags, request, metas, collisions, injection, metasToProcess, tooling, mergeVars>>
  BY DEF GetPluginMetaFails, ProcessPluginsFails
<1>2. MetasMerged' /\ MetasProcessed' /\ MergeTypeOK'
  BY <1>1, MergeUntouched
<1>3. TypeOK'
  BY <1>1, <1>2 DEF MetadataInv, TypeOK
<1>4. MetasChecked'
  BY <1>1 DEF MetadataInv, MetasChecked
<1> QED
  BY <1>2, <1>3, <1>4 DEF MetadataInv

LEMMA GetPluginMetasDoneKeepsInv ==
  ASSUME MetadataInv, GetPluginMetasDone
  PROVE  MetadataInv'
<1>1. /\ pc = "fetch" /\ pc' = "validate" /\ metas \in Seq(PluginMeta)
      /\ Len(metas) = Len(request)
      /\ collisions' = GetExtensionCollisions(metas)
      /\ UNCHANGED <<flags, request, metas, injection, metasToProcess, tooling, mergeVars>>
  BY DEF GetPluginMetasDone, MetadataInv, TypeOK
<1>2. MetasMerged' /\ MetasProcessed' /\ MergeTypeOK'
  BY <1>1, MergeUntouched
<1>3. DOMAIN collisions' \subseteq Word /\ \A e \in DOMAIN collisions' : collisions'[e] \in Seq(PluginID)
  BY <1>1, CollisionsType
<1>4. TypeOK'
  BY <1>1, <1>2, <1>3 DEF MetadataInv, TypeOK
<1>5. GetExtensionCollisions(metas)' = GetExtensionCollisions(metas)
  BY <1>1
<1>6. MetasChecked'
  BY <1>1, <1>5 DEF MetadataInv, MetasChecked
<1> QED
  BY <1>2, <1>4, <1>6 DEF MetadataInv

LEMMA BeginProcessPluginsKeepsInv ==
  ASSUME MetadataInv, BeginProcessPlugins
  PROVE  MetadataInv'
<1>1. /\ pc = "validate" /\ metas \in Seq(PluginMeta)
      /\ ValidateMetas(metas) /\ GetRuntimeInjection(metas) # Failure
      /\ injection' = GetRuntimeInjection(metas)
      /\ UNCHANGED <<flags, request, metas, collisions, tooling>>
  BY DEF BeginProcessPlugins, MetadataInv, TypeOK
<1>2. injection' \in RemotePluginInjection \union {None}
  BY <1>1, InjectionType
<1>3. /\ MergeInv /\ BeginsWith(<<>>) /\ tooling = <<>>
      /\ metasToProcess \in Seq(PluginMeta) /\ MetasChecked
      /\ collisions = GetExtensionCollisions(metas)
  BY <1>1 DEF MetadataInv, MetasMerged, MetasProcessed, MetasChecked, TypeOK
<1>4. (pc \in {"merge", "process", "done"})' => MetasChecked'
  BY <1>1, <1>3 DEF MetasChecked
<1>5. CASE flags.merge
  <2>1. /\ pc' = "merge" /\ plugins' = metas
        /\ UNCHANGED <<metasToProcess, sorted, toMerge, pending, unmodified, merged>>
    BY <1>5 DEF BeginProcessPlugins
  <2>2. MergeInv'
    <3>1. BeginsWith(metas)'
      BY <1>1, <1>3, <2>1 DEF BeginsWith
    <3>2. metas' \in Seq(PluginMeta)'
      BY <1>1 DEF PluginMeta
    <3> QED
      BY <3>1, <3>2, BeginsNext
  <2>3. TypeOK'
    BY <1>1, <1>2, <1>3, <2>1, <2>2 DEF MetadataInv, TypeOK, MergeInv
  <2>4. MetasMerged'
    BY <1>1, <1>5, <2>1, <2>2 DEF MetasMerged
  <2>5. MetasProcessed'
    BY <1>1, <1>3, <2>1 DEF MetasProcessed
  <2>6. MetasChecked'
    BY <1>4, <2>1
  <2> QED
    BY <2>3, <2>4, <2>5, <2>6 DEF MetadataInv
<1>6. CASE ~flags.merge
  <2>1. pc' = "process" /\ metasToProcess' = metas /\ UNCHANGED mergeVars
    BY <1>6 DEF BeginProcessPlugins
  <2>2. MergeInv'
    BY <1>3, <2>1, RestKeepsMergeInv
  <2>3. TypeOK'
    BY <1>1, <1>2, <1>3, <2>1, <2>2 DEF MetadataInv, TypeOK, MergeInv
  <2>4. MetasMerged'
    BY <1>1, <1>6, <2>1, <2>2 DEF MetasMerged
  <2>5. MetasProcessed'
    BY <1>1, <1>3, <2>1 DEF MetasProcessed
  <2>6. MetasChecked'
    BY <1>4, <2>1
  <2> QED
    BY <2>3, <2>4, <2>5, <2>6 DEF MetadataInv
<1> QED
  BY <1>5, <1>6

LEMMA MergePluginsStepKeepsInv ==
  ASSUME MetadataInv, MergePluginsStep
  PROVE  MetadataInv'
<1>1. pc = "merge" /\ MergeStep /\ UNCHANGED metadataVars
  BY DEF MergePluginsStep
<1>2. MergeInv'
  BY <1>1, MergeStepKeepsMergeInv DEF MetadataInv, MetasMerged
<1>3. plugins' = plugins
  BY <1>1 DEF MergeStep, SortPlugin, MergeImage
<1>4. TypeOK'
  BY <1>1, <1>2 DEF MetadataInv, TypeOK, MergeInv, metadataVars
<1>5. MetasMerged'
  BY <1>1, <1>2, <1>3 DEF MetadataInv, MetasMerged, metadataVars
<1>6. MetasProcessed'
  BY <1>1 DEF MetadataInv, MetasProcessed, metadataVars
<1>7. MetasChecked'
  BY <1>1 DEF MetadataInv, MetasChecked, metadataVars
<1> QED
  BY <1>4, <1>5, <1>6, <1>7 DEF MetadataInv

LEMMA MergePluginsReturnsKeepsInv ==
  ASSUME MetadataInv, MergePluginsReturns
  PROVE  MetadataInv'
<1>1. /\ pc = "merge" /\ MergeDone /\ pc' = "process" /\ metasToProcess' = MergeResult
      /\ UNCHANGED <<flags, request, metas, collisions, injection, tooling, mergeVars>>
  BY DEF MergePluginsReturns
<1>2. /\ MergeInv /\ flags.merge /\ plugins = metas /\ tooling = <<>> /\ metas \in Seq(PluginMeta)
      /\ unmodified \in Seq(PluginMeta) /\ merged \in Seq(PluginMeta)
  BY <1>1 DEF MetadataInv, MetasMerged, MetasProcessed, TypeOK, MergeTypeOK
<1>3. MergeInv'
  BY <1>1, <1>2, RestKeepsMergeInv
<1>4. metasToProcess' \in Seq(PluginMeta)
  <2>1. unmodified \o merged \in Seq(PluginMeta)
    BY <1>2, ConcatProperties
  <2> QED
    BY <1>1, <2>1 DEF MergeResult
<1>5. MergeDone' /\ MergeResult' = MergeResult /\ plugins' = metas'
  BY <1>1, <1>2 DEF MergeDone, MergeResult, mergeVars
<1>6. TypeOK'
  BY <1>1, <1>3, <1>4 DEF MetadataInv, TypeOK, MergeInv
<1>7. MetasMerged'
  BY <1>1, <1>2, <1>3, <1>5 DEF MetasMerged
<1>8. MetasProcessed'
  BY <1>1, <1>2, <1>4 DEF MetasProcessed
<1>9. MetasChecked'
  BY <1>1 DEF MetadataInv, MetasChecked
<1> QED
  BY <1>6, <1>7, <1>8, <1>9 DEF MetadataInv

LEMMA ProcessPluginKeepsInv ==
  ASSUME MetadataInv, ProcessPlugin
  PROVE  MetadataInv'
<1> DEFINE n == Len(tooling)
           meta == metasToProcess[n + 1]
<1>1. /\ pc = "process" /\ Len(tooling) < Len(metasToProcess)
      /\ UNCHANGED <<pc, flags, request, metas, collisions, injection, metasToProcess, mergeVars>>
      /\ TypeOK /\ metasToProcess \in Seq(PluginMeta) /\ tooling \in Seq(ChePlugin)
  BY DEF ProcessPlugin, MetadataInv, TypeOK
<1>2. n \in Nat /\ meta \in PluginMeta
  BY <1>1
<1>3. PICK plugin : ProcessedAs(meta, plugin) /\ tooling' = Append(tooling, plugin)
  BY DEF ProcessPlugin, ProcessedAs
<1>4. plugin \in ChePlugin
  BY <1>1, <1>2, <1>3, ProcessedType
<1>5. /\ tooling' \in Seq(ChePlugin) /\ Len(tooling') = n + 1 /\ DOMAIN tooling' = 1 .. n + 1
      /\ tooling'[n + 1] = plugin /\ \A i \in 1 .. n : tooling'[i] = tooling[i]
      /\ DOMAIN tooling = 1 .. n
  <2>1. /\ Append(tooling, plugin) \in Seq(ChePlugin) /\ Len(Append(tooling, plugin)) = n + 1
        /\ DOMAIN Append(tooling, plugin) = 1 .. n + 1 /\ Append(tooling, plugin)[n + 1] = plugin
        /\ \A i \in 1 .. n : Append(tooling, plugin)[i] = tooling[i]
        /\ DOMAIN tooling = 1 .. n
    BY <1>1, <1>4, AppendProperties
  <2> QED
    BY <1>3, <2>1
<1>6. MergeInv'
  BY <1>1, RestKeepsMergeInv DEF MetadataInv, MetasMerged
<1>7. TypeOK'
  BY <1>1, <1>5, <1>6 DEF TypeOK, MergeInv
<1>8. MetasMerged'
  <2>1. MergeDone' = MergeDone /\ MergeResult' = MergeResult /\ plugins' = plugins
    BY <1>1 DEF MergeDone, MergeResult, mergeVars
  <2> QED
    BY <1>1, <1>6, <2>1 DEF MetadataInv, MetasMerged
<1>9. MetasProcessed'
  <2>1. Len(tooling') <= Len(metasToProcess')
    <3>1. Len(metasToProcess) \in Nat
      BY <1>1
    <3> QED
      BY <1>1, <1>2, <1>5, <3>1
  <2>2. \A m, p : ProcessedAs(m, p)' <=> ProcessedAs(m, p)
    BY <1>1 DEF ProcessedAs, ProvisionSidecar, InjectRemoteRuntime, RunnerContainer
  <2>3. ASSUME NEW i \in DOMAIN tooling' PROVE ProcessedAs(metasToProcess[i], tooling'[i])
    <3>1. CASE i = n + 1
      BY <1>3, <1>5, <3>1
    <3>2. CASE i \in 1 .. n
      <4>1. ProcessedAs(metasToProcess[i], tooling[i])
        BY <1>5, <3>2 DEF MetadataInv, MetasProcessed
      <4> QED
        BY <1>5, <3>2, <4>1
    <3> QED
      BY <1>2, <1>5, <3>1, <3>2
  <2>4. \A i \in DOMAIN tooling' : ProcessedAs(metasToProcess[i], tooling[i])'
    BY <1>1, <2>2, <2>3
  <2> QED
    BY <1>1, <2>1, <2>4 DEF MetasProcessed
<1>10. MetasChecked'
  BY <1>1 DEF MetadataInv, MetasChecked
<1> QED
  BY <1>7, <1>8, <1>9, <1>10 DEF MetadataInv

(* Publishing the tooling, and steps that change nothing.                  *)
LEMMA RestKeepsInv ==
  ASSUME MetadataInv, PublishTooling \/ UNCHANGED vars
  PROVE  MetadataInv'
<1>1. /\ UNCHANGED <<flags, request, metas, collisions, injection, metasToProcess, tooling, mergeVars>>
      /\ \/ pc' = pc
         \/ pc = "process" /\ pc' = "done" /\ Len(tooling) = Len(metasToProcess)
  BY DEF PublishTooling, vars, metadataVars
<1>2. MergeInv'
  BY <1>1, RestKeepsMergeInv DEF MetadataInv, MetasMerged
<1>3. TypeOK'
  BY <1>1, <1>2 DEF MetadataInv, TypeOK, MergeInv
<1>4. MetasMerged'
  <2>1. /\ MergeDone' = MergeDone /\ MergeResult' = MergeResult /\ plugins' = plugins
        /\ BeginsWith(<<>>)' = BeginsWith(<<>>)
    BY <1>1 DEF MergeDone, MergeResult, BeginsWith, mergeVars
  <2> QED
    BY <1>1, <1>2, <2>1 DEF MetadataInv, MetasMerged
<1>5. MetasProcessed'
  <2>1. \A m, p : ProcessedAs(m, p)' <=> ProcessedAs(m, p)
    BY <1>1 DEF ProcessedAs, ProvisionSidecar, InjectRemoteRuntime, RunnerContainer
  <2>2. \A i \in DOMAIN tooling' : ProcessedAs(metasToProcess[i], tooling[i])'
    BY <1>1, <2>1 DEF MetadataInv, MetasProcessed
  <2> QED
    BY <1>1, <2>2 DEF MetadataInv, MetasProcessed
<1>6. MetasChecked'
  BY <1>1 DEF MetadataInv, MetasChecked
<1> QED
  BY <1>3, <1>4, <1>5, <1>6 DEF MetadataInv

(* The inductive invariant of a start.                                     *)
THEOREM MetadataInvariant == StartSpec => []MetadataInv
<1>1. StartInit => MetadataInv
  BY StartHasInv
<1>2. MetadataInv /\ [StartNext]_vars => MetadataInv'
  <2> SUFFICES ASSUME MetadataInv, [StartNext]_vars PROVE MetadataInv'
    OBVIOUS
  <2>1. CASE GetPluginMeta
    BY <2>1, GetPluginMetaKeepsInv
  <2>2. CASE GetPluginMetaFails \/ ProcessPluginsFails
    BY <2>2, FailureKeepsInv
  <2>3. CASE GetPluginMetasDone
    BY <2>3, GetPluginMetasDoneKeepsInv
  <2>4. CASE BeginProcessPlugins
    BY <2>4, BeginProcessPluginsKeepsInv
  <2>5. CASE MergePluginsStep
    BY <2>5, MergePluginsStepKeepsInv
  <2>6. CASE MergePluginsReturns
    BY <2>6, MergePluginsReturnsKeepsInv
  <2>7. CASE ProcessPlugin
    BY <2>7, ProcessPluginKeepsInv
  <2>8. CASE PublishTooling \/ UNCHANGED vars
    BY <2>8, RestKeepsInv
  <2> QED
    BY <2>1, <2>2, <2>3, <2>4, <2>5, <2>6, <2>7, <2>8 DEF StartNext, BrokerStep, Ended
<1> QED
  BY <1>1, <1>2, PTL DEF StartSpec

(* Whatever is served, the tooling is made of plugins, merged ones too,    *)
(* and an injection that was not found is never provisioned.               *)
THEOREM StartKeepsTypes == StartSpec => []TypeOK
<1>1. MetadataInv => TypeOK
  BY DEF MetadataInv
<1> QED
  BY <1>1, MetadataInvariant, PTL

-----------------------------------------------------------------------------
(* What becomes of a plugin *)

LEMMA CountHas ==
  ASSUME NEW S, NEW list \in Seq(S), NEW p
  PROVE  /\ Count(p, list) \in Nat
         /\ Has(list, p) <=> Count(p, list) # 0
<1> DEFINE at == {i \in DOMAIN list : list[i] = p}
<1>1. IsFiniteSet(at)
  <2>1. DOMAIN list = 1 .. Len(list) /\ Len(list) \in Int
    OBVIOUS
  <2>2. IsFiniteSet(DOMAIN list) /\ at \subseteq DOMAIN list
    BY <2>1, FS_Interval
  <2> QED
    BY <2>2, FS_Subset
<1>2. Cardinality(at) \in Nat /\ (Cardinality(at) = 0 <=> at = {})
  BY <1>1, FS_CardinalityType, FS_EmptySet
<1>3. Has(list, p) <=> at # {}
  BY DEF Has
<1>4. Count(p, list) = Cardinality(at)
  BY DEF Count
<1> QED
  BY <1>2, <1>3, <1>4

(* When the merge is done, a plugin is as it was, or in the merged plugin  *)
(* of its image.                                                           *)
LEMMA WhereItGoes ==
  ASSUME MergeInv, MergeDone, NEW p, Has(plugins, p)
  PROVE  /\ p \in PluginMeta
         /\ \/ Has(unmodified, p)
            \/ /\ pluginMergable(p)
               /\ Has(toMerge[Sidecar(p).Image], p)
               /\ \E m \in DOMAIN merged : Sidecar(merged[m]).Image = Sidecar(p).Image
<1>1. /\ plugins \in Seq(PluginMeta) /\ toMerge \in [Image -> Seq(PluginMeta)]
      /\ unmodified \in Seq(PluginMeta)
  BY DEF MergeInv, MergeTypeOK
<1>2. PICK i \in DOMAIN plugins : plugins[i] = p
  BY DEF Has
<1>3. p \in PluginMeta
  BY <1>1, <1>2
<1>4. SubSeq(plugins, 1, sorted) = plugins
  BY <1>1, WholePrefix DEF MergeDone
<1>5. Count(p, unmodified) + InGroups(p) = Count(p, plugins)
  BY <1>2, <1>4 DEF MergeInv, Accounted
<1>6. Count(p, plugins) # 0 /\ Count(p, plugins) \in Nat
  BY <1>1, CountHas
<1>7. ~Has(unmodified, p) => Count(p, unmodified) = 0
  BY <1>1, CountHas
<1>8. CASE ~Has(unmodified, p)
  <2>1. InGroups(p) # 0
    <3>1. 0 + InGroups(p) # 0
      BY <1>5, <1>6, <1>7, <1>8
    <3>2. InGroups(p) = 0 => 0 + InGroups(p) = 0
      OBVIOUS
    <3> QED
      BY <3>1, <3>2
  <2>2. /\ pluginMergable(p)
        /\ Sidecar(p).Image \in pending \/ WasMerged(Sidecar(p).Image)
        /\ Count(p, toMerge[Sidecar(p).Image]) # 0
    BY <2>1 DEF InGroups
  <2>3. pluginMergable(p) /\ WasMerged(Sidecar(p).Image)
    BY <2>1 DEF InGroups, MergeDone
  <2>4. toMerge[Sidecar(p).Image] \in Seq(PluginMeta)
    BY <1>1, <1>3, <2>3, SidecarType DEF Container
  <2>5. Has(toMerge[Sidecar(p).Image], p)
    BY <2>2, <2>4, CountHas
  <2> QED
    BY <1>3, <2>3, <2>5 DEF WasMerged
<1> QED
  BY <1>3, <1>8

(* One list is the beginning of another.                                   *)
Extends(more, list) == \A k \in DOMAIN list : k \in DOMAIN more /\ more[k] = list[k]

LEMMA AppendExtends ==
  ASSUME NEW S, NEW list \in Seq(S), NEW e \in S
  PROVE  Extends(Append(list, e), list)
<1>1. /\ DOMAIN Append(list, e) = 1 .. Len(list) + 1 /\ Len(list) \in Nat
      /\ DOMAIN list = 1 .. Len(list) /\ \A i \in 1 .. Len(list) : Append(list, e)[i] = list[i]
  BY AppendProperties
<1>2. \A i \in 1 .. Len(list) : i \in 1 .. Len(list) + 1
  BY <1>1
<1> QED
  BY <1>1, <1>2 DEF Extends

LEMMA ExtendedSays ==
  ASSUME NEW some, NEW list, NEW more, Extends(more, list)
  PROVE  /\ AllSaid(Equal, some, list) => AllSaid(Equal, some, more)
         /\ AllSaid(SameMount, some, list) => AllSaid(SameMount, some, more)
BY DEF Extends, AllSaid, Said

(* A sidecar that is provisioned still runs what it ran.                   *)
LEMMA ProvisionedRuns ==
  ASSUME TypeOK, NEW meta \in PluginMeta, IsRemote(meta), NEW port \in RandomWord,
         NEW asked, Runs(Sidecar(meta), asked)
  PROVE  Runs(Provisioned(meta, port), asked)
<1> DEFINE c == Sidecar(meta)
           env == RunnerEnv(meta, port)
           volumes == RunnerVolumes(meta)
<1>1. /\ c \in Container /\ env \in Seq(EnvVar) /\ volumes \in Seq(Volume)
      /\ PluginsEnv(meta) \in EnvVar /\ PortEnv(port) \in EnvVar /\ PluginsVolume \in Volume
      /\ injection # None => injection.Env \in EnvVar /\ injection.Volume \in Volume
      /\ Parts(Provisioned(meta, port), c, WithInjected(env, injection.Env),
               WithInjected(volumes, injection.Volume), RunnerPorts(meta, port))
  BY ProvisionedParts
<1>2. c.Env \in Seq(EnvVar) /\ c.Volumes \in Seq(Volume)
  BY <1>1, PartsOfAny
<1>3. Extends(env, c.Env)
  <2>1. CASE flags.localhost
    BY <1>1, <1>2, <2>1, AppendExtends DEF RunnerEnv
  <2>2. CASE ~flags.localhost
    <3> DEFINE told == Append(c.Env, PortEnv(port))
    <3>1. told \in Seq(EnvVar) /\ Extends(told, c.Env)
      BY <1>1, <1>2, AppendExtends, AppendProperties
    <3> HIDE DEF told
    <3>2. Extends(Append(told, PluginsEnv(meta)), told)
      BY <1>1, <3>1, AppendExtends
    <3>3. env = Append(told, PluginsEnv(meta))
      BY <2>2 DEF RunnerEnv, told
    <3> QED
      BY <3>1, <3>2, <3>3 DEF Extends
  <2> QED
    BY <2>1, <2>2
<1>4. Extends(volumes, c.Volumes)
  BY <1>1, <1>2, AppendExtends DEF RunnerVolumes
<1> HIDE DEF c, env, volumes
<1>5. Extends(WithInjected(env, injection.Env), env)
  <2>1. Extends(env, env)
    BY DEF Extends
  <2> QED
    BY <1>1, <2>1, AppendExtends DEF WithInjected
<1>6. Extends(WithInjected(volumes, injection.Volume), volumes)
  <2>1. Extends(volumes, volumes)
    BY DEF Extends
  <2> QED
    BY <1>1, <2>1, AppendExtends DEF WithInjected
<1>7. Runs(c, asked)
  BY DEF c
<1> QED
  BY <1>1, <1>3, <1>4, <1>5, <1>6, <1>7, ExtendedSays DEF Runs, Parts

(* A plugin of the tooling has everything but the sidecar from its meta.   *)
LEMMA ProcessedParts ==
  ASSUME TypeOK, NEW meta \in PluginMeta, NEW plugin, ProcessedAs(meta, plugin)
  PROVE  /\ plugin.ID = meta.ID /\ plugin.Title = meta.Title /\ plugin.Type = meta.Type
         /\ plugin.Endpoints = meta.Endpoints /\ plugin.WorkspaceEnv = meta.WorkspaceEnv
         /\ DOMAIN plugin.Containers = DOMAIN meta.Containers
         /\ \A k \in DOMAIN meta.Containers :
              k # 1 \/ ~IsRemote(meta) => plugin.Containers[k] = meta.Containers[k]
         /\ IsRemote(meta) =>
              \E port \in RandomWord : Sidecar(plugin) = Provisioned(meta, port)
<1>1. CASE ~IsRemote(meta)
  BY <1>1 DEF ProcessedAs, ConvertMetaToPlugin
<1>2. CASE IsRemote(meta)
  <2>1. PICK port \in RandomWord : plugin = ConvertMetaToPlugin(ProvisionSidecar(meta, port))
    BY <1>2 DEF ProcessedAs
  <2> DEFINE sidecared == ProvisionSidecar(meta, port)
  <2>2. /\ sidecared.Containers = [meta.Containers EXCEPT ![1] = Provisioned(meta, port)]
        /\ sidecared.ID = meta.ID /\ sidecared.Title = meta.Title /\ sidecared.Type = meta.Type
        /\ sidecared.Endpoints = meta.Endpoints /\ sidecared.WorkspaceEnv = meta.WorkspaceEnv
    BY <1>2, ProvisionedType
  <2> HIDE DEF sidecared
  <2>3. /\ plugin.Containers = sidecared.Containers
        /\ plugin.ID = meta.ID /\ plugin.Title = meta.Title /\ plugin.Type = meta.Type
        /\ plugin.Endpoints = meta.Endpoints /\ plugin.WorkspaceEnv = meta.WorkspaceEnv
    BY <2>1, <2>2 DEF ConvertMetaToPlugin, sidecared
  <2>4. 1 \in DOMAIN meta.Containers
    <3>1. meta.Containers \in Seq(Container) /\ meta.Containers # <<>>
      BY <1>2 DEF PluginMeta, MetaWith, IsRemote
    <3> QED
      BY <3>1
  <2>5. Sidecar(plugin) = Provisioned(meta, port)
    BY <2>2, <2>3, <2>4 DEF Sidecar
  <2>6. /\ DOMAIN plugin.Containers = DOMAIN meta.Containers
        /\ \A k \in DOMAIN meta.Containers : k # 1 => plugin.Containers[k] = meta.Containers[k]
    BY <2>2, <2>3
  <2> QED
    BY <1>2, <2>3, <2>5, <2>6
<1> QED
  BY <1>1, <1>2

(* The plugins of a published tooling are made of the list, one of each.   *)
LEMMA PublishedTooling ==
  ASSUME MetadataInv, pc = "done"
  PROVE  /\ TypeOK /\ metasToProcess \in Seq(PluginMeta)
         /\ DOMAIN tooling = DOMAIN metasToProcess
         /\ \A i \in DOMAIN tooling :
              metasToProcess[i] \in PluginMeta /\ ProcessedAs(metasToProcess[i], tooling[i])
<1>1. /\ TypeOK /\ metasToProcess \in Seq(PluginMeta) /\ tooling \in Seq(ChePlugin)
      /\ Len(tooling) = Len(metasToProcess)
      /\ \A i \in DOMAIN tooling : ProcessedAs(metasToProcess[i], tooling[i])
  BY DEF MetadataInv, TypeOK, MetasProcessed
<1> QED
  BY <1>1

(* Every plugin is among the plugins to process, or one is that provides   *)
(* for it.                                                                 *)
LEMMA EachIsProcessed ==
  ASSUME MetadataInv, pc = "done", NEW i \in DOMAIN metas
  PROVE  /\ metas[i] \in PluginMeta
         /\ \E j \in DOMAIN metasToProcess :
              \/ metasToProcess[j] = metas[i]
              \/ /\ flags.merge /\ pluginMergable(metas[i]) /\ pluginMergable(metasToProcess[j])
                 /\ Sidecar(metasToProcess[j]).Image = Sidecar(metas[i]).Image
                 /\ Provides(metasToProcess[j], metas[i])
<1>1. metas[i] \in PluginMeta
  BY DEF MetadataInv, TypeOK
<1>2. CASE ~flags.merge
  BY <1>1, <1>2 DEF MetadataInv, MetasMerged
<1>3. CASE flags.merge
  <2>1. /\ MergeInv /\ MergeDone /\ plugins = metas /\ metasToProcess = unmodified \o merged
        /\ unmodified \in Seq(PluginMeta) /\ merged \in Seq(PluginMeta)
    BY <1>3 DEF MetadataInv, MetasMerged, MergeResult, MergeInv, MergeTypeOK
  <2>2. Has(plugins, metas[i])
    BY <2>1 DEF Has
  <2>3. CASE Has(unmodified, metas[i])
    <3>1. Has(unmodified \o merged, metas[i])
      BY <2>1, <2>3, HasConcat
    <3> QED
      BY <1>1, <2>1, <3>1 DEF Has
  <2>4. CASE ~Has(unmodified, metas[i])
    <3>1. /\ pluginMergable(metas[i])
          /\ Has(toMerge[Sidecar(metas[i]).Image], metas[i])
          /\ \E m \in DOMAIN merged : Sidecar(merged[m]).Image = Sidecar(metas[i]).Image
      BY <2>1, <2>2, <2>4, WhereItGoes
    <3>2. PICK m \in DOMAIN merged : Sidecar(merged[m]).Image = Sidecar(metas[i]).Image
      BY <3>1
    <3>3. PICK image \in Grouped \ pending :
            /\ Sidecar(merged[m]).Image = image
            /\ GoodMerge(image, toMerge[image], merged[m])
      BY <2>1, MergedFrom
    <3>4. Provides(merged[m], metas[i]) /\ pluginMergable(merged[m])
      BY <3>1, <3>2, <3>3 DEF GoodMerge, Has
    <3>5. PICK j \in DOMAIN metasToProcess : metasToProcess[j] = merged[m]
      <4>1. Has(merged, merged[m])
        BY DEF Has
      <4>2. Has(unmodified \o merged, merged[m])
        BY <2>1, <4>1, HasConcat
      <4> QED
        BY <2>1, <4>2 DEF Has
    <3> QED
      BY <1>1, <1>3, <3>1, <3>2, <3>4, <3>5
  <2> QED
    BY <2>3, <2>4
<1> QED
  BY <1>2, <1>3

LEMMA MetaServed ==
  ASSUME MetadataInv, pc = "done", NEW i \in DOMAIN metas
  PROVE  InTooling(metas[i])
<1> SUFFICES \E j \in DOMAIN tooling :
               /\ AllSaid(Equal, metas[i].Endpoints, tooling[j].Endpoints)
               /\ AllSaid(Equal, metas[i].WorkspaceEnv, tooling[j].WorkspaceEnv)
               /\ \A k \in DOMAIN metas[i].Containers :
                    k \in DOMAIN tooling[j].Containers
                      /\ Runs(tooling[j].Containers[k], metas[i].Containers[k])
               /\ tooling[j].ID = metas[i].ID \/ (flags.merge /\ pluginMergable(metas[i]))
  BY Zenon DEF InTooling
<1> DEFINE meta == metas[i]
<1>1. PICK j \in DOMAIN metasToProcess :
        \/ metasToProcess[j] = meta
        \/ /\ flags.merge /\ pluginMergable(meta) /\ pluginMergable(metasToProcess[j])
           /\ Sidecar(metasToProcess[j]).Image = Sidecar(meta).Image
           /\ Provides(metasToProcess[j], meta)
  BY EachIsProcessed
<1> DEFINE source == metasToProcess[j]
           plugin == tooling[j]
<1>2. /\ TypeOK /\ j \in DOMAIN tooling /\ source \in PluginMeta /\ ProcessedAs(source, plugin)
      /\ meta \in PluginMeta
  BY PublishedTooling, EachIsProcessed
<1> HIDE DEF meta, source, plugin
<1>3. /\ plugin.ID = source.ID
      /\ plugin.Endpoints = source.Endpoints /\ plugin.WorkspaceEnv = source.WorkspaceEnv
      /\ DOMAIN plugin.Containers = DOMAIN source.Containers
      /\ \A k \in DOMAIN source.Containers :
           k # 1 \/ ~IsRemote(source) => plugin.Containers[k] = source.Containers[k]
      /\ IsRemote(source) => \E port \in RandomWord : Sidecar(plugin) = Provisioned(source, port)
  BY <1>2, ProcessedParts
<1>4. \A list : AllSaid(Equal, list, list) /\ AllSaid(SameMount, list, list)
  BY DEF AllSaid, Said, Equal, SameMount
<1>5. \A c : Runs(c, c)
  BY <1>4 DEF Runs
<1>6. ASSUME NEW k \in DOMAIN source.Containers, NEW asked, Runs(source.Containers[k], asked)
      PROVE  k \in DOMAIN plugin.Containers /\ Runs(plugin.Containers[k], asked)
  <2>1. CASE k = 1 /\ IsRemote(source)
    <3>1. PICK port \in RandomWord : Sidecar(plugin) = Provisioned(source, port)
      BY <1>3, <2>1
    <3>2. Runs(Sidecar(source), asked)
      BY <1>6, <2>1 DEF Sidecar
    <3>3. Runs(Provisioned(source, port), asked)
      BY <1>2, <2>1, <3>2, ProvisionedRuns
    <3> QED
      BY <1>3, <1>6, <2>1, <3>1, <3>3 DEF Sidecar
  <2>2. CASE k # 1 \/ ~IsRemote(source)
    BY <1>3, <1>6, <2>2
  <2> QED
    BY <2>1, <2>2
<1>7. CASE source = meta
  BY <1>2, <1>3, <1>4, <1>5, <1>6, <1>7 DEF meta, plugin
<1>8. CASE /\ flags.merge /\ pluginMergable(meta) /\ pluginMergable(source)
           /\ Sidecar(source).Image = Sidecar(meta).Image
           /\ Provides(source, meta)
  <2>1. Runs(Sidecar(source), Sidecar(meta))
    BY <1>8 DEF Provides, Runs
  <2>2. \A k \in DOMAIN meta.Containers : k = 1 /\ k \in DOMAIN source.Containers
    <3>1. /\ meta.Containers \in Seq(Container) /\ source.Containers \in Seq(Container)
          /\ Len(meta.Containers) = 1 /\ Len(source.Containers) = 1
      BY <1>2, <1>8 DEF PluginMeta, MetaWith, pluginMergable
    <3> QED
      BY <3>1
  <2>3. \A k \in DOMAIN meta.Containers :
          k \in DOMAIN plugin.Containers /\ Runs(plugin.Containers[k], meta.Containers[k])
    BY <1>6, <2>1, <2>2 DEF Sidecar
  <2>4. /\ AllSaid(Equal, meta.Endpoints, plugin.Endpoints)
        /\ AllSaid(Equal, meta.WorkspaceEnv, plugin.WorkspaceEnv)
    BY <1>3, <1>8 DEF Provides
  <2> QED
    BY <1>2, <1>8, <2>3, <2>4 DEF meta, plugin
<1> QED
  BY <1>1, <1>7, <1>8 DEF source, meta

(* DONE is published when all that was asked for has been fetched.         *)
LEMMA InvServed ==
  ASSUME MetadataInv
  PROVE  EveryPluginServed
<1> SUFFICES ASSUME pc = "done", NEW i \in DOMAIN request
             PROVE  /\ request[i] \in DOMAIN Served
                    /\ InTooling(Identified(request[i], Served[request[i]]))
  BY DEF EveryPluginServed
<1>1. /\ metas \in Seq(PluginMeta) /\ request \in Seq(PluginFQN) /\ Len(metas) = Len(request)
      /\ \A k \in DOMAIN metas :
           request[k] \in DOMAIN Served /\ metas[k] = Identified(request[k], Served[request[k]])
  BY DEF MetadataInv, MetasChecked, TypeOK
<1>2. i \in DOMAIN metas
  BY <1>1
<1>3. InTooling(metas[i])
  BY <1>2, MetaServed
<1> QED
  BY <1>1, <1>2, <1>3

(* Every plugin of the request has been fetched and is served by one of    *)
(* the tooling, whatever it was merged with and whatever was added to the  *)
(* sidecar.                                                                *)
THEOREM EveryPluginIsServed == StartSpec => []EveryPluginServed
<1>1. MetadataInv => EveryPluginServed
  BY InvServed
<1> QED
  BY <1>1, MetadataInvariant, PTL

-----------------------------------------------------------------------------
(* Extensions that several plugins bring *)

LEMMA HasType ==
  ASSUME NEW S, NEW list \in Seq(S), NEW p, Has(list, p)
  PROVE  p \in S
<1>1. PICK k \in DOMAIN list : list[k] = p
  BY DEF Has
<1> QED
  BY <1>1

LEMMA CountTwo ==
  ASSUME NEW S, NEW list \in Seq(S), NEW p
  PROVE  /\ \A i, j \in DOMAIN list : i # j /\ list[i] = p /\ list[j] = p => Count(p, list) \notin {0, 1}
         /\ Count(p, list) \notin {0, 1} => \E i, j \in DOMAIN list : i # j /\ list[i] = p /\ list[j] = p
<1> DEFINE at == {i \in DOMAIN list : list[i] = p}
<1>1. IsFiniteSet(at)
  <2>1. DOMAIN list = 1 .. Len(list) /\ Len(list) \in Int
    OBVIOUS
  <2>2. IsFiniteSet(DOMAIN list) /\ at \subseteq DOMAIN list
    BY <2>1, FS_Interval
  <2> QED
    BY <2>2, FS_Subset
<1>2. (Cardinality(at) = 0 <=> at = {}) /\ (Cardinality(at) = 1 <=> \E x : at = {x})
  BY <1>1, FS_EmptySet, FS_Singleton
<1>3. Count(p, list) = Cardinality(at)
  BY DEF Count
<1>4. ASSUME NEW i \in DOMAIN list, NEW j \in DOMAIN list, i # j, list[i] = p, list[j] = p
      PROVE  Count(p, list) \notin {0, 1}
  <2>1. i \in at /\ j \in at
    BY <1>4
  <2> HIDE DEF at
  <2> QED
    BY <1>2, <1>3, <1>4, <2>1
<1>5. ASSUME Count(p, list) \notin {0, 1} PROVE \E i, j \in at : i # j
  <2> HIDE DEF at
  <2>1. at # {} /\ ~\E x : at = {x}
    BY <1>2, <1>3, <1>5
  <2>2. PICK i \in at : TRUE
    BY <2>1
  <2>3. at # {i}
    BY <2>1
  <2> QED
    BY <2>2, <2>3
<1> QED
  BY <1>4, <1>5

(* The plugins left as they are: those that cannot be merged, in their     *)
(* order, and then some that can be.                                       *)
LEMMA UnmodifiedFrom ==
  ASSUME MergeInv, MergeDone
  PROVE  \E rest \in Seq(PluginMeta) :
           /\ unmodified = Others(plugins) \o rest
           /\ \A p : Has(rest, p) => Has(plugins, p) /\ pluginMergable(p)
<1>1. plugins \in Seq(PluginMeta) /\ SubSeq(plugins, 1, sorted) = plugins
  BY WholePrefix DEF MergeInv, MergeTypeOK, MergeDone
<1>2. PICK order \in SetToSeqs(Grouped \ pending) : unmodified = UnmodifiedOf(plugins, order)
  BY <1>1 DEF MergeInv, SomeOrder
<1>4. IsFiniteSet(Grouped \ pending)
  <2>1. \A image \in Image : toMerge[image] = GroupOf(image, plugins)
    BY <1>1 DEF MergeInv, GroupsSorted
  <2>2. Grouped = {image \in Image : GroupOf(image, plugins) # <<>>}
    BY <2>1 DEF Grouped
  <2>3. IsFiniteSet(Grouped) /\ Grouped \ pending \subseteq Grouped
    BY <1>1, <2>2, GroupedFinite
  <2> QED
    BY <2>3, FS_Subset
<1>5. order \in Seq(Image)
  <2>1. order \in [1 .. Cardinality(Grouped \ pending) -> Grouped \ pending]
    BY DEF SetToSeqs
  <2>2. Cardinality(Grouped \ pending) \in Nat /\ Grouped \ pending \subseteq Image
    BY <1>4, FS_CardinalityType DEF Grouped
  <2> DEFINE n == Cardinality(Grouped \ pending)
  <2>3. order \in [1 .. n -> Image] /\ n \in Nat
    BY <2>1, <2>2
  <2> HIDE DEF n
  <2> QED
    BY <2>3
<1> DEFINE alone(image) == LeftAlone(image, GroupOf(image, plugins))
           lists == [i \in DOMAIN order |-> alone(order[i])]
<1>6. UnmodifiedOf(plugins, order) = Others(plugins) \o FlattenSeq(lists)
  BY Zenon DEF UnmodifiedOf, Others, Of
<1>7. \A image \in Image : alone(image) \in Seq(PluginMeta)
  BY <1>1, GroupParts
<1>8. \A image, p : Has(alone(image), p) => Has(plugins, p) /\ pluginMergable(p)
  <2>1. \A image, p : Has(GroupOf(image, plugins), p) => Has(plugins, p) /\ pluginMergable(p)
    BY <1>1, GroupOfKeeps
  <2>2. \A image, p : Has(alone(image), p) => Has(GroupOf(image, plugins), p)
    BY DEF LeftAlone, Has
  <2> QED
    BY <2>1, <2>2
<1> HIDE DEF alone
<1>9. lists \in Seq(Seq(PluginMeta)) /\ DOMAIN lists = DOMAIN order
  <2>1. DOMAIN order = 1 .. Len(order) /\ Len(order) \in Nat
    BY <1>5
  <2>2. \A i \in DOMAIN order : alone(order[i]) \in Seq(PluginMeta)
    BY <1>5, <1>7
  <2>3. lists \in [1 .. Len(order) -> Seq(PluginMeta)]
    BY <2>1, <2>2
  <2> HIDE DEF lists
  <2>4. lists \in Seq(Seq(PluginMeta)) /\ DOMAIN lists = 1 .. Len(order)
    BY <2>1, <2>3
  <2> QED
    BY <2>1, <2>4
<1>10. FlattenSeq(lists) \in Seq(PluginMeta)
       /\ \A p : Has(FlattenSeq(lists), p) => \E i \in DOMAIN lists : Has(lists[i], p)
  BY <1>9, FlattenType, FlattenFrom
<1>11. \A p : Has(FlattenSeq(lists), p) => Has(plugins, p) /\ pluginMergable(p)
  <2>1. \A i \in DOMAIN lists : lists[i] = alone(order[i])
    OBVIOUS
  <2> HIDE DEF lists
  <2> QED
    BY <1>8, <1>10, <2>1
<1> HIDE DEF lists
<1> QED
  BY <1>2, <1>6, <1>10, <1>11

LEMMA UnmodifiedAsked ==
  ASSUME MergeInv, MergeDone
  PROVE  \A p : Has(unmodified, p) => Has(plugins, p)
<1>1. plugins \in Seq(PluginMeta)
  BY DEF MergeInv, MergeTypeOK
<1>2. PICK rest \in Seq(PluginMeta) :
        /\ unmodified = Others(plugins) \o rest
        /\ \A p : Has(rest, p) => Has(plugins, p) /\ pluginMergable(p)
  BY UnmodifiedFrom
<1>3. Others(plugins) \in Seq(PluginMeta) /\ \A p : Has(Others(plugins), p) => Has(plugins, p)
  BY <1>1, OthersKeeps
<1> QED
  BY <1>2, <1>3, HasConcat

(* An extension of a merged plugin is one of a plugin of its image.        *)
LEMMA MergedExtension ==
  ASSUME MergeInv, MergeDone, NEW m \in DOMAIN merged, NEW e, Has(merged[m].Extensions, e)
  PROVE  \E q : /\ Has(plugins, q) /\ Has(q.Extensions, e)
                /\ pluginMergable(q) /\ Sidecar(q).Image = Sidecar(merged[m]).Image
                /\ InGroups(q) # 0
<1>1. PICK image \in Grouped \ pending :
        /\ Sidecar(merged[m]).Image = image
        /\ GoodMerge(image, toMerge[image], merged[m])
  BY MergedFrom
<1>2. PICK j \in DOMAIN toMerge[image] : Has(toMerge[image][j].Extensions, e)
  BY <1>1 DEF GoodMerge, MadeOf, Has
<1> DEFINE q == toMerge[image][j]
<1>3. plugins \in Seq(PluginMeta) /\ SubSeq(plugins, 1, sorted) = plugins
  BY WholePrefix DEF MergeInv, MergeTypeOK, MergeDone
<1>4. toMerge[image] = GroupOf(image, plugins) /\ toMerge[image] \in Seq(PluginMeta)
  <2>1. \A im \in Image : toMerge[im] = GroupOf(im, plugins)
    BY <1>3 DEF MergeInv, GroupsSorted
  <2>2. image \in Image
    BY <1>1 DEF Grouped
  <2>3. toMerge \in [Image -> Seq(PluginMeta)]
    BY DEF MergeInv, MergeTypeOK
  <2> QED
    BY <2>1, <2>2, <2>3
<1>5. Has(toMerge[image], q)
  BY DEF Has
<1>6. Has(plugins, q) /\ pluginMergable(q) /\ Sidecar(q).Image = image
  BY <1>3, <1>4, <1>5, GroupOfKeeps
<1>7. Count(q, toMerge[image]) # 0
  BY <1>4, <1>5, CountHas
<1> HIDE DEF q
<1>8. InGroups(q) # 0
  BY <1>1, <1>6, <1>7 DEF InGroups, WasMerged
<1> QED
  BY <1>1, <1>2, <1>6, <1>8 DEF q

(* Two plugins of the list bring the extension.                            *)
BroughtTwice(list, e) ==
  \E k, l \in DOMAIN list : k # l /\ Has(list[k].Extensions, e) /\ Has(list[l].Extensions, e)

LEMMA TwoBring ==
  ASSUME NEW list \in Seq(PluginMeta), NEW e, NEW p, NEW q, Has(list, p), Has(list, q),
         Has(p.Extensions, e), Has(q.Extensions, e),
         p # q \/ Count(p, list) \notin {0, 1}
  PROVE  BroughtTwice(list, e)
<1>1. CASE p # q
  BY <1>1 DEF Has, BroughtTwice
<1>2. CASE Count(p, list) \notin {0, 1}
  <2>1. PICK i, j \in DOMAIN list : i # j /\ list[i] = p /\ list[j] = p
    BY <1>2, CountTwo
  <2> QED
    BY <2>1 DEF BroughtTwice
<1> QED
  BY <1>1, <1>2

(* An extension in two places of the result was in two places before.      *)
LEMMA ResultBrings ==
  ASSUME MergeInv, MergeDone, NEW e, BroughtTwice(MergeResult, e)
  PROVE  BroughtTwice(plugins, e)
<1>1. /\ unmodified \in Seq(PluginMeta) /\ merged \in Seq(PluginMeta) /\ plugins \in Seq(PluginMeta)
      /\ SubSeq(plugins, 1, sorted) = plugins /\ toMerge \in [Image -> Seq(PluginMeta)]
  BY WholePrefix DEF MergeInv, MergeTypeOK, MergeDone
<1> DEFINE u == Len(unmodified)
           whole == unmodified \o merged
<1>2. /\ u \in Nat /\ DOMAIN unmodified = 1 .. u /\ DOMAIN merged = 1 .. Len(merged) /\ Len(merged) \in Nat
      /\ DOMAIN whole = 1 .. u + Len(merged)
      /\ \A i \in 1 .. u + Len(merged) : whole[i] = IF i <= u THEN unmodified[i] ELSE merged[i - u]
  BY <1>1
<1> HIDE DEF u, whole
<1>3. PICK i, j \in DOMAIN whole : i # j /\ Has(whole[i].Extensions, e) /\ Has(whole[j].Extensions, e)
  BY DEF BroughtTwice, MergeResult, whole
<1>4. \A k \in DOMAIN whole :
        \/ k \in DOMAIN unmodified /\ whole[k] = unmodified[k]
        \/ k \notin DOMAIN unmodified /\ k - u \in DOMAIN merged /\ whole[k] = merged[k - u]
  BY <1>2
<1>5. \A p : Has(unmodified, p) => Has(plugins, p)
  BY UnmodifiedAsked
<1>6. \A p : Has(plugins, p) =>
        Count(p, unmodified) + InGroups(p) = Count(p, plugins)
  BY <1>1 DEF MergeInv, Accounted, Has
<1>7. ASSUME NEW p, Has(plugins, p)
      PROVE  Count(p, unmodified) \in Nat /\ InGroups(p) \in Nat
  <2>1. p \in PluginMeta
    BY <1>1, <1>7, HasType
  <2>2. pluginMergable(p) => toMerge[Sidecar(p).Image] \in Seq(PluginMeta)
    BY <1>1, <2>1, SidecarType DEF Container
  <2> QED
    BY <1>1, <2>2, CountHas DEF InGroups
<1>8. ASSUME NEW p, Has(plugins, p),
             Count(p, unmodified) \notin {0, 1} \/ (Count(p, unmodified) # 0 /\ InGroups(p) # 0)
      PROVE  Count(p, plugins) \notin {0, 1}
  <2> DEFINE a == Count(p, unmodified)
             b == InGroups(p)
             c == Count(p, plugins)
  <2>1. a \in Nat /\ b \in Nat /\ a + b = c
    BY <1>6, <1>7, <1>8
  <2>2. a \notin {0, 1} \/ (a # 0 /\ b # 0)
    BY <1>8
  <2> HIDE DEF a, b, c
  <2>3. c \notin {0, 1}
    BY <2>1, <2>2
  <2> QED
    BY <2>3 DEF c
(* One of them was left as it is.                                          *)
<1>9. ASSUME NEW p, Has(unmodified, p), Has(p.Extensions, e),
             NEW m \in DOMAIN merged, Has(merged[m].Extensions, e)
      PROVE  BroughtTwice(plugins, e)
  <2>1. PICK q : Has(plugins, q) /\ Has(q.Extensions, e) /\ InGroups(q) # 0
    BY <1>9, MergedExtension
  <2>2. Has(plugins, p) /\ Count(p, unmodified) # 0
    BY <1>1, <1>5, <1>9, CountHas
  <2>3. p = q => Count(p, plugins) \notin {0, 1}
    BY <1>8, <2>1, <2>2
  <2> QED
    BY <1>1, <1>9, <2>1, <2>2, <2>3, TwoBring
<1>10. CASE i \in DOMAIN unmodified /\ j \in DOMAIN unmodified
  <2> DEFINE p == unmodified[i]
             q == unmodified[j]
  <2>1. /\ Has(unmodified, p) /\ Has(unmodified, q)
        /\ Has(p.Extensions, e) /\ Has(q.Extensions, e)
    BY <1>3, <1>4, <1>10 DEF Has
  <2>2. Has(plugins, p) /\ Has(plugins, q)
    BY <1>5, <2>1
  <2>3. p = q => Count(p, unmodified) \notin {0, 1}
    BY <1>1, <1>3, <1>10, CountTwo
  <2> HIDE DEF p, q
  <2>4. p = q => Count(p, plugins) \notin {0, 1}
    BY <1>8, <2>2, <2>3
  <2> QED
    BY <1>1, <2>1, <2>2, <2>4, TwoBring
<1>11. CASE i \in DOMAIN unmodified /\ j \notin DOMAIN unmodified
  <2>1. Has(unmodified, unmodified[i]) /\ Has(unmodified[i].Extensions, e)
    BY <1>3, <1>4, <1>11 DEF Has
  <2> QED
    BY <1>3, <1>4, <1>9, <1>11, <2>1
<1>12. CASE i \notin DOMAIN unmodified /\ j \in DOMAIN unmodified
  <2>1. Has(unmodified, unmodified[j]) /\ Has(unmodified[j].Extensions, e)
    BY <1>3, <1>4, <1>12 DEF Has
  <2> QED
    BY <1>3, <1>4, <1>9, <1>12, <2>1
<1>13. CASE i \notin DOMAIN unmodified /\ j \notin DOMAIN unmodified
  <2> DEFINE m == i - u
             n == j - u
  <2>1. /\ m \in DOMAIN merged /\ n \in DOMAIN merged
        /\ Has(merged[m].Extensions, e) /\ Has(merged[n].Extensions, e)
    BY <1>3, <1>4, <1>13
  <2>2. m # n
    BY <1>2, <1>3
  <2> HIDE DEF m, n
  <2>3. Sidecar(merged[m]).Image # Sidecar(merged[n]).Image
    BY <2>1, <2>2 DEF MergeInv, GroupsMerged
  <2>4. PICK p : /\ Has(plugins, p) /\ Has(p.Extensions, e)
                 /\ Sidecar(p).Image = Sidecar(merged[m]).Image
    BY <2>1, MergedExtension
  <2>5. PICK q : /\ Has(plugins, q) /\ Has(q.Extensions, e)
                 /\ Sidecar(q).Image = Sidecar(merged[n]).Image
    BY <2>1, MergedExtension
  <2>6. p # q
    BY <2>3, <2>4, <2>5
  <2> QED
    BY <1>1, <2>4, <2>5, <2>6, TwoBring
<1> QED
  BY <1>10, <1>11, <1>12, <1>13

(* The ids of all who bring an extension, two at least when two bring it.  *)
LEMMA IDsNamed ==
  ASSUME NEW list \in Seq(PluginMeta), NEW e
  PROVE  /\ \A k \in DOMAIN list : Has(list[k].Extensions, e) => Has(IDsOf(e, list), list[k].ID)
         /\ BroughtTwice(list, e) => Len(IDsOf(e, list)) > 1
<1> DEFINE IDs(i) == [k \in DOMAIN Same(e, list[i].Extensions) |-> list[i].ID]
           lists == [i \in DOMAIN list |-> IDs(i)]
<1>1. lists \in Seq(Seq(PluginID)) /\ IDsOf(e, list) = FlattenSeq(lists)
  BY IDListsType DEF IDsOf
<1>2. DOMAIN lists = DOMAIN list
  OBVIOUS
<1>3. ASSUME NEW k \in DOMAIN list, Has(list[k].Extensions, e)
      PROVE  Has(lists[k], list[k].ID) /\ lists[k] # <<>>
  <2>1. list[k].Extensions \in Seq(Word)
    BY MetaParts
  <2>2. Has(Same(e, list[k].Extensions), e)
    BY <1>3, <2>1, SameKeeps
  <2>3. PICK a : a \in DOMAIN Same(e, list[k].Extensions)
    BY <2>2 DEF Has
  <2>4. a \in DOMAIN lists[k] /\ lists[k][a] = list[k].ID
    BY <2>3
  <2> QED
    BY <2>4 DEF Has
<1> HIDE DEF lists
<1>4. ASSUME NEW k \in DOMAIN list, Has(list[k].Extensions, e)
      PROVE  Has(FlattenSeq(lists), list[k].ID)
  <2>1. PICK a \in DOMAIN lists[k] : lists[k][a] = list[k].ID
    BY <1>3, <1>4 DEF Has
  <2> QED
    BY <1>1, <1>2, <2>1, FlattenHas
<1>5. BroughtTwice(list, e) => Len(FlattenSeq(lists)) > 1
  BY <1>1, <1>2, <1>3, FlattenLong DEF BroughtTwice
<1> QED
  BY <1>1, <1>4, <1>5

LEMMA InvAnnounced ==
  ASSUME MetadataInv
  PROVE  DuplicatesAnnounced
<1> SUFFICES ASSUME pc = "done", NEW i \in DOMAIN metasToProcess, NEW j \in DOMAIN metasToProcess,
                    i # j, NEW e \in ExtensionsOf(i) \intersect ExtensionsOf(j)
             PROVE  /\ e \in DOMAIN collisions
                    /\ \A k \in DOMAIN metas :
                         Contains(metas[k].Extensions, e) => Contains(collisions[e], metas[k].ID)
  BY DEF DuplicatesAnnounced
<1>1. /\ metas \in Seq(PluginMeta) /\ metasToProcess \in Seq(PluginMeta)
      /\ collisions = GetExtensionCollisions(metas)
  BY DEF MetadataInv, MetasChecked, TypeOK
<1>2. \A list, x : Contains(list, x) <=> Has(list, x)
  BY DEF Contains, Has
<1>3. \A k \in DOMAIN metasToProcess : e \in ExtensionsOf(k) => Has(metasToProcess[k].Extensions, e)
  BY DEF ExtensionsOf, ToSet, Has
<1>4. BroughtTwice(metasToProcess, e)
  BY <1>3 DEF BroughtTwice
<1>5. BroughtTwice(metas, e)
  <2>1. CASE flags.merge
    BY <1>4, <2>1, ResultBrings DEF MetadataInv, MetasMerged
  <2>2. CASE ~flags.merge
    BY <1>4, <2>2 DEF MetadataInv, MetasMerged
  <2> QED
    BY <2>1, <2>2
<1>6. Len(IDsOf(e, metas)) > 1
  BY <1>1, <1>5, IDsNamed
<1>7. e \in UNION {ToSet(metas[k].Extensions) : k \in DOMAIN metas}
  BY <1>5 DEF BroughtTwice, Has, ToSet
<1>8. e \in DOMAIN collisions /\ collisions[e] = IDsOf(e, metas)
  BY <1>1, <1>6, <1>7, CollisionsAre
<1>9. ASSUME NEW k \in DOMAIN metas, Contains(metas[k].Extensions, e)
      PROVE  Contains(collisions[e], metas[k].ID)
  <2>1. metas[k].Extensions \in Seq(Word) /\ IDsOf(e, metas) \in Seq(PluginID)
    <3>1. metas[k] \in PluginMeta
      BY <1>1
    <3>2. IDsOf(e, metas) \in Seq(PluginID)
      BY <1>1, IDListsType
    <3> QED
      BY <3>1, <3>2, MetaParts
  <2>2. Has(metas[k].Extensions, e)
    BY <1>2, <1>9, <2>1
  <2>3. Has(IDsOf(e, metas), metas[k].ID)
    BY <1>1, <2>2, IDsNamed
  <2> QED
    BY <1>2, <1>8, <2>1, <2>3
<1> QED
  BY <1>8, <1>9

(* No extension comes to the workspace twice without the log having named  *)
(* every plugin that asks for it.                                          *)
THEOREM DuplicatesAreAnnounced == StartSpec => []DuplicatesAnnounced
<1>1. MetadataInv => DuplicatesAnnounced
  BY InvAnnounced
<1> QED
  BY <1>1, MetadataInvariant, PTL

-----------------------------------------------------------------------------
(* Plugins that are left as they are *)

(* How often a plugin comes of a list.                                     *)
Converted(list) == [j \in DOMAIN list |-> ConvertMetaToPlugin(list[j])]
Times(plugin, list) == Cardinality({j \in DOMAIN list : ConvertMetaToPlugin(list[j]) = plugin})

LEMMA ConvertedList ==
  ASSUME NEW list \in Seq(PluginMeta)
  PROVE  /\ Converted(list) \in Seq(ChePlugin)
         /\ Len(Converted(list)) = Len(list) /\ Len(list) \in Nat
         /\ DOMAIN Converted(list) = 1 .. Len(list) /\ DOMAIN list = 1 .. Len(list)
         /\ \A j \in 1 .. Len(list) : Converted(list)[j] = ConvertMetaToPlugin(list[j])
<1>1. DOMAIN list = 1 .. Len(list) /\ Len(list) \in Nat
  OBVIOUS
<1>2. \A j \in DOMAIN list : ConvertMetaToPlugin(list[j]) \in ChePlugin
  BY ConvertedType
<1>3. Converted(list) \in [1 .. Len(list) -> ChePlugin]
  BY <1>1, <1>2 DEF Converted
<1>4. Converted(list) \in Seq(ChePlugin) /\ Len(Converted(list)) = Len(list)
  BY <1>1, <1>3
<1> QED
  BY <1>1, <1>4 DEF Converted

LEMMA TimesIsCount ==
  ASSUME NEW list \in Seq(PluginMeta), NEW plugin
  PROVE  /\ Times(plugin, list) = Count(plugin, Converted(list)) /\ Times(plugin, list) \in Nat
         /\ (\A p : Has(list, p) => ConvertMetaToPlugin(p) # plugin) => Times(plugin, list) = 0
<1>1. {j \in DOMAIN list : ConvertMetaToPlugin(list[j]) = plugin}
        = {j \in DOMAIN Converted(list) : Converted(list)[j] = plugin}
  BY DEF Converted
<1>2. Times(plugin, list) = Count(plugin, Converted(list))
  BY <1>1, Zenon DEF Times, Count
<1>3. Count(plugin, Converted(list)) \in Nat
      /\ (~Has(Converted(list), plugin) => Count(plugin, Converted(list)) = 0)
  BY ConvertedList, CountNone
<1>4. ASSUME \A p : Has(list, p) => ConvertMetaToPlugin(p) # plugin
      PROVE  ~Has(Converted(list), plugin)
  BY <1>4 DEF Has, Converted
<1> QED
  BY <1>2, <1>3, <1>4

LEMMA ConcatParts ==
  ASSUME NEW S, NEW s \in Seq(S), NEW t \in Seq(S)
  PROVE  /\ s \o t \in Seq(S) /\ Len(s \o t) = Len(s) + Len(t)
         /\ Len(s) \in Nat /\ Len(t) \in Nat
         /\ \A j \in 1 .. Len(s) + Len(t) : (s \o t)[j] = IF j <= Len(s) THEN s[j] ELSE t[j - Len(s)]
OBVIOUS

LEMMA TimesConcat ==
  ASSUME NEW s \in Seq(PluginMeta), NEW t \in Seq(PluginMeta), NEW plugin
  PROVE  Times(plugin, s \o t) = Times(plugin, s) + Times(plugin, t)
<1> DEFINE n == Len(s)
           m == Len(t)
           both == Converted(s) \o Converted(t)
<1>1. /\ s \o t \in Seq(PluginMeta) /\ Len(s \o t) = n + m /\ n \in Nat /\ m \in Nat
      /\ \A j \in 1 .. n + m : (s \o t)[j] = IF j <= n THEN s[j] ELSE t[j - n]
  OBVIOUS
<1>2. /\ both \in Seq(ChePlugin) /\ DOMAIN both = 1 .. n + m
      /\ \A j \in 1 .. n + m : both[j] = IF j <= n THEN Converted(s)[j] ELSE Converted(t)[j - n]
  <2> DEFINE cs == Converted(s)
             ct == Converted(t)
  <2>1. /\ cs \in Seq(ChePlugin) /\ Len(cs) = n /\ n \in Nat
        /\ ct \in Seq(ChePlugin) /\ Len(ct) = m /\ m \in Nat
    BY ConvertedList
  <2> HIDE DEF cs, ct, n, m
  <2>2. /\ cs \o ct \in Seq(ChePlugin) /\ Len(cs \o ct) = n + m
        /\ \A j \in 1 .. n + m : (cs \o ct)[j] = IF j <= n THEN cs[j] ELSE ct[j - n]
    BY <2>1, ConcatParts
  <2>3. DOMAIN (cs \o ct) = 1 .. n + m
    BY <2>1, <2>2
  <2> QED
    BY <2>2, <2>3 DEF cs, ct
<1>3. DOMAIN Converted(s \o t) = 1 .. n + m
      /\ \A j \in 1 .. n + m : Converted(s \o t)[j] = ConvertMetaToPlugin((s \o t)[j])
  BY <1>1, ConvertedList
<1>4. /\ \A j \in 1 .. n : Converted(s)[j] = ConvertMetaToPlugin(s[j])
      /\ \A j \in 1 .. m : Converted(t)[j] = ConvertMetaToPlugin(t[j])
  BY ConvertedList
<1>5. ASSUME NEW j \in 1 .. n + m PROVE Converted(s \o t)[j] = both[j]
  <2>1. CASE j <= n
    <3>1. j \in 1 .. n
      BY <1>1, <2>1
    <3> QED
      BY <1>1, <1>2, <1>3, <1>4, <2>1, <3>1
  <2>2. CASE ~(j <= n)
    <3>1. j - n \in 1 .. m
      BY <1>1, <2>2
    <3> QED
      BY <1>1, <1>2, <1>3, <1>4, <2>2, <3>1
  <2> QED
    BY <2>1, <2>2
<1> HIDE DEF both, n, m
<1>6. Converted(s \o t) = both
  <2>1. Converted(s \o t) \in Seq(ChePlugin)
    BY <1>1, ConvertedList
  <2>2. Len(Converted(s \o t)) = Len(both)
    BY <1>1, <1>2, <1>3, <2>1
  <2> QED
    BY <1>1, <1>2, <1>3, <1>5, <2>1, <2>2, SeqEqual
<1>7. Count(plugin, both) = Count(plugin, Converted(s)) + Count(plugin, Converted(t))
  BY ConvertedList, CountConcat DEF both
<1> QED
  BY <1>1, <1>6, <1>7, TimesIsCount

(* A plugin that is not mergable comes as often of those that are not.     *)
LEMMA TimesOthers ==
  ASSUME NEW list \in Seq(PluginMeta), NEW plugin,
         \A p \in PluginMeta : pluginMergable(p) => ConvertMetaToPlugin(p) # plugin
  PROVE  Times(plugin, Others(list)) = Times(plugin, list)
<1> DEFINE T == {s \in Seq(PluginMeta) : Times(plugin, Others(s)) = Times(plugin, s)}
<1>1. <<>> \in T
  <2>1. <<>> \in Seq(PluginMeta) /\ Others(<<>>) = <<>>
    BY OthersAppend
  <2> QED
    BY <2>1
<1>2. ASSUME NEW s \in Seq(PluginMeta), NEW e \in PluginMeta, s \in T PROVE Append(s, e) \in T
  <2> DEFINE one == <<e>>
  <2>1. /\ one \in Seq(PluginMeta) /\ Append(s, e) = s \o one /\ Append(s, e) \in Seq(PluginMeta)
        /\ \A p : Has(one, p) => p = e
    BY DEF Has
  <2>2. Times(plugin, Others(s)) = Times(plugin, s) /\ Others(s) \in Seq(PluginMeta)
    BY <1>2, OthersKeeps
  <2>3. Append(Others(s), e) = Others(s) \o one
    BY <2>2
  <2>4. Others(Append(s, e)) = IF ~pluginMergable(e) THEN Append(Others(s), e) ELSE Others(s)
    BY OthersAppend
  <2> HIDE DEF one
  <2>5. Times(plugin, Append(s, e)) = Times(plugin, s) + Times(plugin, one)
    BY <2>1, TimesConcat
  <2>6. Times(plugin, Others(s) \o one) = Times(plugin, Others(s)) + Times(plugin, one)
    BY <2>1, <2>2, TimesConcat
  <2>7. CASE ~pluginMergable(e)
    BY <2>1, <2>2, <2>3, <2>4, <2>5, <2>6, <2>7
  <2>8. CASE pluginMergable(e)
    <3>1. Times(plugin, one) = 0
      BY <2>1, <2>8, TimesIsCount
    <3>2. Times(plugin, s) \in Nat
      BY TimesIsCount
    <3> QED
      BY <2>1, <2>2, <2>4, <2>5, <2>8, <3>1, <3>2
  <2> QED
    BY <2>7, <2>8
<1> HIDE DEF T
<1>3. Seq(PluginMeta) \subseteq T
  BY <1>1, <1>2, SeqSetInduction
<1> QED
  BY <1>3 DEF T

(* The merge neither loses nor repeats a plugin it cannot merge.           *)
LEMMA TimesMerged ==
  ASSUME MergeInv, MergeDone, NEW plugin,
         \A p \in PluginMeta : pluginMergable(p) => ConvertMetaToPlugin(p) # plugin
  PROVE  Times(plugin, MergeResult) = Times(plugin, plugins)
<1>1. unmodified \in Seq(PluginMeta) /\ merged \in Seq(PluginMeta) /\ plugins \in Seq(PluginMeta)
  BY DEF MergeInv, MergeTypeOK
<1>2. PICK rest \in Seq(PluginMeta) :
        /\ unmodified = Others(plugins) \o rest
        /\ \A p : Has(rest, p) => Has(plugins, p) /\ pluginMergable(p)
  BY UnmodifiedFrom
<1>3. Times(plugin, rest) = 0
  <2>1. \A p : Has(rest, p) => p \in PluginMeta /\ pluginMergable(p)
    BY <1>2, HasType
  <2> QED
    BY <2>1, TimesIsCount
<1>4. Times(plugin, merged) = 0
  <2>1. \A m \in DOMAIN merged : merged[m] \in PluginMeta /\ pluginMergable(merged[m])
    BY MergedFrom DEF GoodMerge
  <2>2. \A p : Has(merged, p) => ConvertMetaToPlugin(p) # plugin
    BY <2>1 DEF Has
  <2> QED
    BY <1>1, <2>2, TimesIsCount
<1>5. /\ Others(plugins) \in Seq(PluginMeta) /\ Times(plugin, Others(plugins)) = Times(plugin, plugins)
      /\ Times(plugin, plugins) \in Nat
  BY <1>1, OthersKeeps, TimesOthers, TimesIsCount
<1>6. Times(plugin, unmodified) = Times(plugin, plugins)
  BY <1>2, <1>3, <1>5, TimesConcat
<1>7. Times(plugin, unmodified \o merged) = Times(plugin, unmodified) + Times(plugin, merged)
  BY <1>1, TimesConcat
<1> QED
  BY <1>4, <1>5, <1>6, <1>7 DEF MergeResult

LEMMA InvUntouched ==
  ASSUME MetadataInv
  PROVE  OthersUntouched
<1> SUFFICES ASSUME pc = "done", NEW i \in DOMAIN metas,
                    metas[i].Type \in CheTypes \/ metas[i].Containers = <<>>
             PROVE  Count(ConvertMetaToPlugin(metas[i]), tooling)
                      = Times(ConvertMetaToPlugin(metas[i]), metas)
  BY Zenon DEF OthersUntouched, Times
<1> DEFINE plugin == ConvertMetaToPlugin(metas[i])
<1>1. plugin.Type \in CheTypes \/ plugin.Containers = <<>>
  BY DEF ConvertMetaToPlugin
<1> HIDE DEF plugin
<1>2. CheTypes \intersect TheiaTypes = {}
  BY DEF CheTypes, TheiaTypes
<1>3. ASSUME NEW meta \in PluginMeta, IsRemote(meta), NEW other, ProcessedAs(meta, other)
      PROVE  other # plugin /\ ConvertMetaToPlugin(meta) # plugin
  <2>1. /\ other.Type = meta.Type
        /\ DOMAIN other.Containers = DOMAIN meta.Containers
    BY <1>3, PublishedTooling, ProcessedParts
  <2>2. meta.Containers \in Seq(Container) /\ meta.Containers # <<>> /\ meta.Type \in TheiaTypes
    BY <1>3 DEF IsRemote, IsTheiaOrVscodePlugin, PluginMeta, MetaWith
  <2>3. 1 \in DOMAIN other.Containers
    BY <2>1, <2>2
  <2>4. other.Containers # <<>>
    BY <2>3
  <2>5. ConvertMetaToPlugin(meta).Type = meta.Type
        /\ ConvertMetaToPlugin(meta).Containers = meta.Containers
    BY DEF ConvertMetaToPlugin
  <2> QED
    BY <1>1, <1>2, <2>1, <2>2, <2>4, <2>5
<1>4. Count(plugin, tooling) = Times(plugin, metasToProcess)
  <2>1. ASSUME NEW j \in DOMAIN tooling
        PROVE  tooling[j] = plugin <=> ConvertMetaToPlugin(metasToProcess[j]) = plugin
    <3>1. metasToProcess[j] \in PluginMeta /\ ProcessedAs(metasToProcess[j], tooling[j])
      BY PublishedTooling
    <3>2. CASE IsRemote(metasToProcess[j])
      BY <1>3, <3>1, <3>2
    <3>3. CASE ~IsRemote(metasToProcess[j])
      BY <3>1, <3>3 DEF ProcessedAs
    <3> QED
      BY <3>2, <3>3
  <2>2. DOMAIN tooling = DOMAIN metasToProcess
    BY PublishedTooling
  <2>3. {j \in DOMAIN tooling : tooling[j] = plugin}
          = {j \in DOMAIN metasToProcess : ConvertMetaToPlugin(metasToProcess[j]) = plugin}
    BY <2>1, <2>2
  <2> QED
    BY <2>3, Zenon DEF Count, Times
<1>5. Times(plugin, metasToProcess) = Times(plugin, metas)
  <2>1. CASE ~flags.merge
    BY <2>1 DEF MetadataInv, MetasMerged
  <2>2. CASE flags.merge
    <3>1. MergeInv /\ MergeDone /\ plugins = metas /\ metasToProcess = MergeResult
      BY <2>2 DEF MetadataInv, MetasMerged
    <3>2. ASSUME NEW p \in PluginMeta, pluginMergable(p) PROVE ConvertMetaToPlugin(p) # plugin
      <4>1. p.Type \in TheiaTypes /\ p.Containers # <<>>
        <5>1. p.Type \in TheiaTypes /\ Len(p.Containers) = 1
          BY <3>2 DEF pluginMergable, IsTheiaOrVscodePlugin
        <5>2. p.Containers = <<>> => Len(p.Containers) = 0
          OBVIOUS
        <5> QED
          BY <5>1, <5>2
      <4>2. ConvertMetaToPlugin(p).Type = p.Type
            /\ ConvertMetaToPlugin(p).Containers = p.Containers
        BY DEF ConvertMetaToPlugin
      <4> QED
        BY <1>1, <1>2, <4>1, <4>2
    <3> QED
      BY <3>1, <3>2, TimesMerged
  <2> QED
    BY <2>1, <2>2
<1> QED
  BY <1>4, <1>5 DEF plugin

(* What does not run in a sidecar of its own comes out as it was served,   *)
(* as often as it was asked for, whatever was merged around it.            *)
THEOREM OthersAreUntouched == StartSpec => []OthersUntouched
<1>1. MetadataInv => OthersUntouched
  BY InvUntouched
<1> QED
  BY <1>1, MetadataInvariant, PTL

-----------------------------------------------------------------------------
(* What the sidecars are equipped with *)

(* What a container says is said by a container that is served.            *)
SaidByServed(c) ==
  /\ \A k \in DOMAIN c.Env : \E fqn \in DOMAIN Served : \E a \in DOMAIN Served[fqn].Containers :
       Has(Served[fqn].Containers[a].Env, c.Env[k])
  /\ \A k \in DOMAIN c.Volumes : \E fqn \in DOMAIN Served : \E a \in DOMAIN Served[fqn].Containers :
       Has(Served[fqn].Containers[a].Volumes, c.Volumes[k])

(* A meta is what is served for its place in the request, but for the id.  *)
LEMMA ServedMeta ==
  ASSUME MetadataInv, NEW i \in DOMAIN metas
  PROVE  /\ metas[i] \in PluginMeta /\ i \in DOMAIN request /\ request \in Request
         /\ request[i] \in DOMAIN Served
         /\ metas[i].Containers = Served[request[i]].Containers
         /\ metas[i].InitContainers = Served[request[i]].InitContainers
         /\ metas[i].Type = Served[request[i]].Type /\ metas[i].Title = Served[request[i]].Title
<1>1. /\ metas \in Seq(PluginMeta) /\ request \in Seq(PluginFQN) /\ Len(metas) <= Len(request)
      /\ request \in Request /\ request[i] \in DOMAIN Served
      /\ metas[i] = Identified(request[i], Served[request[i]])
  BY DEF MetadataInv, TypeOK, MetasChecked
<1>2. Served[request[i]] \in MetaFile
  BY <1>1, MetadataAssumption
<1>3. ASSUME NEW raw \in MetaFile, NEW id
      PROVE  /\ WithID(raw, id).Containers = raw.Containers
             /\ WithID(raw, id).InitContainers = raw.InitContainers
             /\ WithID(raw, id).Type = raw.Type /\ WithID(raw, id).Title = raw.Title
  BY DEF WithID, MetaFile, MetaWith
<1>4. i \in DOMAIN request /\ metas[i] \in PluginMeta
  <2>1. /\ DOMAIN metas = 1 .. Len(metas) /\ DOMAIN request = 1 .. Len(request)
        /\ Len(metas) \in Nat /\ Len(request) \in Nat
    BY <1>1
  <2> QED
    BY <1>1, <2>1
<1> QED
  BY <1>1, <1>2, <1>3, <1>4 DEF Identified

LEMMA GroupAsked ==
  ASSUME MergeInv, MergeDone, NEW image \in Image, NEW p, Has(toMerge[image], p)
  PROVE  p \in PluginMeta /\ Has(plugins, p) /\ pluginMergable(p)
<1>1. plugins \in Seq(PluginMeta) /\ SubSeq(plugins, 1, sorted) = plugins
  BY WholePrefix DEF MergeInv, MergeTypeOK, MergeDone
<1>2. toMerge[image] = GroupOf(image, plugins)
  BY <1>1 DEF MergeInv, GroupsSorted
<1>3. Has(plugins, p) /\ pluginMergable(p)
  BY <1>1, <1>2, GroupOfKeeps
<1> QED
  BY <1>1, <1>3, HasType

(* The containers of a plugin to process say what containers that are      *)
(* served say, merged or not, and a sidecar is the only one of its plugin. *)
LEMMA ProcessedSays ==
  ASSUME MetadataInv, pc = "done", NEW j \in DOMAIN metasToProcess,
         NEW k \in DOMAIN metasToProcess[j].Containers
  PROVE  /\ SaidByServed(metasToProcess[j].Containers[k])
         /\ IsTheiaOrVscodePlugin(metasToProcess[j]) => k = 1
<1> DEFINE meta == metasToProcess[j]
<1>1. metasToProcess \in Seq(PluginMeta) /\ metas \in Seq(PluginMeta) /\ ValidateMetas(metas)
  BY DEF MetadataInv, TypeOK, MetasChecked
<1>2. ASSUME NEW p, Has(metas, p), NEW a \in DOMAIN p.Containers
      PROVE  /\ SaidByServed(p.Containers[a])
             /\ IsTheiaOrVscodePlugin(p) => a = 1
  <2>1. PICK i \in DOMAIN metas : metas[i] = p
    BY <1>2 DEF Has
  <2>2. p \in PluginMeta /\ request[i] \in DOMAIN Served /\ p.Containers = Served[request[i]].Containers
    BY <2>1, ServedMeta
  <2>3. SaidByServed(p.Containers[a])
    BY <1>2, <2>2 DEF SaidByServed, Has
  <2>4. ASSUME IsTheiaOrVscodePlugin(p) PROVE a = 1
    <3>1. ValidMeta(p) /\ p.Type \in TheiaTypes
      BY <1>1, <2>1, <2>4 DEF ValidateMetas, IsTheiaOrVscodePlugin
    <3>2. CheTypes \intersect TheiaTypes = {}
      BY DEF CheTypes, TheiaTypes
    <3>3. Len(p.Containers) <= 1
      BY <3>1, <3>2 DEF ValidMeta
    <3>4. p.Containers \in Seq(Container)
      BY <2>2 DEF PluginMeta, MetaWith
    <3> QED
      BY <1>2, <3>3, <3>4
  <2> QED
    BY <2>3, <2>4
<1>3. CASE Has(metas, meta)
  BY <1>2, <1>3
<1>4. CASE ~Has(metas, meta)
  <2>1. Has(metasToProcess, meta)
    BY DEF Has
  <2>2. /\ MergeInv /\ MergeDone /\ plugins = metas /\ metasToProcess = unmodified \o merged
        /\ unmodified \in Seq(PluginMeta) /\ merged \in Seq(PluginMeta)
    <3>1. flags.merge
      BY <1>4, <2>1 DEF MetadataInv, MetasMerged
    <3> QED
      BY <3>1 DEF MetadataInv, MetasMerged, MergeResult, MergeInv, MergeTypeOK
  <2>3. Has(merged, meta)
    BY <1>4, <2>1, <2>2, HasConcat, UnmodifiedAsked
  <2>4. PICK m \in DOMAIN merged : merged[m] = meta
    BY <2>3 DEF Has
  <2>5. PICK image \in Grouped \ pending : GoodMerge(image, toMerge[image], meta)
    BY <2>2, <2>4, MergedFrom
  <2>6. k = 1 /\ Sidecar(meta) = meta.Containers[k]
    <3>1. meta.Containers \in Seq(Container) /\ Len(meta.Containers) = 1
      BY <2>5 DEF GoodMerge, pluginMergable, PluginMeta, MetaWith
    <3> QED
      BY <3>1 DEF Sidecar
  <2> HIDE DEF meta
  <2>7. ASSUME NEW q, Has(toMerge[image], q) PROVE SaidByServed(Sidecar(q))
    <3>1. image \in Image
      BY DEF Grouped
    <3>2. q \in PluginMeta /\ Has(metas, q) /\ pluginMergable(q)
      BY <2>2, <2>7, <3>1, GroupAsked
    <3>3. 1 \in DOMAIN q.Containers
      <4>1. q.Containers \in Seq(Container) /\ Len(q.Containers) = 1
        BY <3>2 DEF pluginMergable, PluginMeta, MetaWith
      <4> QED
        BY <4>1
    <3> QED
      BY <1>2, <3>2, <3>3 DEF Sidecar
  <2>8. \A b \in DOMAIN toMerge[image] : SaidByServed(Sidecar(toMerge[image][b]))
    BY <2>7 DEF Has
  <2>9. SaidByServed(Sidecar(meta))
    <3>1. MadeOf(toMerge[image], meta)
      BY <2>5 DEF GoodMerge
    <3>2. ASSUME NEW c \in DOMAIN Sidecar(meta).Env
          PROVE  \E fqn \in DOMAIN Served : \E a \in DOMAIN Served[fqn].Containers :
                   Has(Served[fqn].Containers[a].Env, Sidecar(meta).Env[c])
      <4>1. PICK b \in DOMAIN toMerge[image] :
              Has(Sidecar(toMerge[image][b]).Env, Sidecar(meta).Env[c])
        BY <3>1 DEF MadeOf
      <4>2. PICK d \in DOMAIN Sidecar(toMerge[image][b]).Env :
              Sidecar(toMerge[image][b]).Env[d] = Sidecar(meta).Env[c]
        BY <4>1 DEF Has
      <4>3. SaidByServed(Sidecar(toMerge[image][b]))
        BY <2>8
      <4> QED
        BY <4>2, <4>3 DEF SaidByServed
    <3>3. ASSUME NEW c \in DOMAIN Sidecar(meta).Volumes
          PROVE  \E fqn \in DOMAIN Served : \E a \in DOMAIN Served[fqn].Containers :
                   Has(Served[fqn].Containers[a].Volumes, Sidecar(meta).Volumes[c])
      <4>1. PICK b \in DOMAIN toMerge[image] :
              Has(Sidecar(toMerge[image][b]).Volumes, Sidecar(meta).Volumes[c])
        BY <3>1 DEF MadeOf
      <4>2. PICK d \in DOMAIN Sidecar(toMerge[image][b]).Volumes :
              Sidecar(toMerge[image][b]).Volumes[d] = Sidecar(meta).Volumes[c]
        BY <4>1 DEF Has
      <4>3. SaidByServed(Sidecar(toMerge[image][b]))
        BY <2>8
      <4> QED
        BY <4>2, <4>3 DEF SaidByServed
    <3> QED
      BY <3>2, <3>3 DEF SaidByServed
  <2> QED
    BY <2>6, <2>9 DEF meta
<1> QED
  BY <1>3, <1>4

(* Entries of other names are no part of a filtered list.                  *)
LEMMA NamedQuiet ==
  ASSUME NEW S, NEW list \in Seq(S), NEW name, \A k \in DOMAIN list : list[k].Name # name
  PROVE  Named(name, list) = <<>>
<1>1. Named(name, list) \in Seq(S)
      /\ \A e : Has(Named(name, list), e) <=> Has(list, e) /\ e.Name = name
  BY NamedKeeps
<1>2. \A e : ~Has(Named(name, list), e)
  BY <1>1 DEF Has
<1> QED
  BY <1>1, <1>2 DEF Has

(* What is added to the variables and the volumes of a sidecar.            *)
LEMMA ProvisionedEnv ==
  ASSUME TypeOK, NEW meta \in PluginMeta, IsRemote(meta), NEW port \in RandomWord,
         injection # None => injection.Env.Name = "PLUGIN_REMOTE_ENDPOINT_EXECUTABLE",
         NEW name, Named(name, Sidecar(meta).Env) = <<>>
  PROVE  /\ name = "THEIA_PLUGINS" =>
              Named(name, Provisioned(meta, port).Env) = <<PluginsEnv(meta)>>
         /\ name = "THEIA_PLUGIN_ENDPOINT_PORT" =>
              Named(name, Provisioned(meta, port).Env)
                = IF flags.localhost THEN <<>> ELSE <<PortEnv(port)>>
         /\ name = "PLUGIN_REMOTE_ENDPOINT_EXECUTABLE" =>
              Len(Named(name, Provisioned(meta, port).Env)) = IF injection = None THEN 0 ELSE 1
<1> DEFINE c == Sidecar(meta)
           told == IF flags.localhost THEN c.Env ELSE Append(c.Env, PortEnv(port))
           env == Append(told, PluginsEnv(meta))
<1>1. /\ c \in Container /\ PluginsEnv(meta) \in EnvVar /\ PortEnv(port) \in EnvVar
      /\ injection # None => injection.Env \in EnvVar
      /\ Parts(Provisioned(meta, port), c, WithInjected(RunnerEnv(meta, port), injection.Env),
               WithInjected(RunnerVolumes(meta), injection.Volume), RunnerPorts(meta, port))
  BY ProvisionedParts
<1>2. Provisioned(meta, port).Env = WithInjected(env, injection.Env)
  BY <1>1 DEF Parts, RunnerEnv
<1>3. c.Env \in Seq(EnvVar) /\ Named(name, c.Env) = <<>>
  BY <1>1, PartsOfAny
<1>4. /\ PluginsEnv(meta).Name = "THEIA_PLUGINS"
      /\ PortEnv(port).Name = "THEIA_PLUGIN_ENDPOINT_PORT"
  BY DEF PluginsEnv, PortEnv
<1> DEFINE pluginsEnv == PluginsEnv(meta)
           portEnv == PortEnv(port)
<1> HIDE DEF c, pluginsEnv, portEnv
<1>5. /\ told \in Seq(EnvVar)
      /\ Named(name, told) =
           IF ~flags.localhost /\ name = "THEIA_PLUGIN_ENDPOINT_PORT" THEN <<portEnv>> ELSE <<>>
  <2>1. CASE flags.localhost
    BY <1>3, <2>1
  <2>2. CASE ~flags.localhost
    <3>1. told = Append(c.Env, portEnv) /\ portEnv \in EnvVar
          /\ portEnv.Name = "THEIA_PLUGIN_ENDPOINT_PORT"
      BY <1>1, <1>4, <2>2 DEF portEnv
    <3>2. Append(c.Env, portEnv) \in Seq(EnvVar) /\ Append(<<>>, portEnv) = <<portEnv>>
      BY <1>3, <3>1, AppendProperties
    <3>3. Named(name, Append(c.Env, portEnv)) =
            IF portEnv.Name = name THEN Append(Named(name, c.Env), portEnv) ELSE Named(name, c.Env)
      BY <1>3, <3>1, NamedAppend
    <3> HIDE DEF told
    <3> QED
      BY <1>3, <2>2, <3>1, <3>2, <3>3
  <2> QED
    BY <2>1, <2>2
<1> HIDE DEF told
<1>6. /\ env \in Seq(EnvVar)
      /\ Named(name, env) =
           IF name = "THEIA_PLUGINS" THEN Append(Named(name, told), pluginsEnv) ELSE Named(name, told)
  <2>1. pluginsEnv \in EnvVar /\ pluginsEnv.Name = "THEIA_PLUGINS" /\ env = Append(told, pluginsEnv)
    BY <1>1, <1>4 DEF pluginsEnv
  <2> HIDE DEF env
  <2>2. Append(told, pluginsEnv) \in Seq(EnvVar)
    BY <1>5, <2>1, AppendProperties
  <2>3. Named(name, Append(told, pluginsEnv)) =
          IF pluginsEnv.Name = name THEN Append(Named(name, told), pluginsEnv) ELSE Named(name, told)
    BY <1>5, <2>1, NamedAppend
  <2> QED
    BY <2>1, <2>2, <2>3
<1> HIDE DEF env
<1>7. Append(<<>>, pluginsEnv) = <<pluginsEnv>>
  OBVIOUS
<1>8. Named(name, env) =
        IF name = "THEIA_PLUGINS" THEN <<pluginsEnv>>
        ELSE IF ~flags.localhost /\ name = "THEIA_PLUGIN_ENDPOINT_PORT" THEN <<portEnv>>
        ELSE <<>>
  BY <1>5, <1>6, <1>7
<1>9. CASE injection = None
  <2>1. Provisioned(meta, port).Env = env
    BY <1>2, <1>9 DEF WithInjected
  <2> QED
    BY <1>8, <1>9, <2>1 DEF pluginsEnv, portEnv
<1>10. CASE injection # None
  <2> DEFINE more == injection.Env
  <2>1. more \in EnvVar /\ more.Name = "PLUGIN_REMOTE_ENDPOINT_EXECUTABLE"
        /\ Provisioned(meta, port).Env = Append(env, more)
    BY <1>1, <1>2, <1>10 DEF WithInjected
  <2> HIDE DEF more
  <2>2. Named(name, Append(env, more)) =
          IF more.Name = name THEN Append(Named(name, env), more) ELSE Named(name, env)
    BY <1>6, <2>1, NamedAppend
  <2>3. Len(Append(<<>>, more)) = 1
    OBVIOUS
  <2> QED
    BY <1>8, <1>10, <2>1, <2>2, <2>3 DEF pluginsEnv, portEnv
<1> QED
  BY <1>9, <1>10

LEMMA ProvisionedVolumes ==
  ASSUME TypeOK, NEW meta \in PluginMeta, IsRemote(meta), NEW port \in RandomWord,
         NEW volume, ~Has(Sidecar(meta).Volumes, volume)
  PROVE  Count(volume, Provisioned(meta, port).Volumes)
           = (IF volume = PluginsVolume THEN 1 ELSE 0)
               + (IF injection # None /\ injection.Volume = volume THEN 1 ELSE 0)
<1> DEFINE c == Sidecar(meta)
           mounted == Append(c.Volumes, PluginsVolume)
<1>1. /\ c \in Container /\ PluginsVolume \in Volume
      /\ injection # None => injection.Volume \in Volume
      /\ Parts(Provisioned(meta, port), c, WithInjected(RunnerEnv(meta, port), injection.Env),
               WithInjected(RunnerVolumes(meta), injection.Volume), RunnerPorts(meta, port))
  BY ProvisionedParts
<1>2. c.Volumes \in Seq(Volume) /\ ~Has(c.Volumes, volume)
  BY <1>1, PartsOfAny
<1>3. Provisioned(meta, port).Volumes = WithInjected(mounted, injection.Volume)
  BY <1>1 DEF Parts, RunnerVolumes
<1> HIDE DEF c
<1>4. /\ mounted \in Seq(Volume)
      /\ Count(volume, mounted) = Count(volume, c.Volumes) + (IF PluginsVolume = volume THEN 1 ELSE 0)
  BY <1>1, <1>2, AppendProperties, CountAppend
<1>5. Count(volume, c.Volumes) = 0
  BY <1>2, CountNone
<1> HIDE DEF mounted
<1>6. CASE injection = None
  BY <1>3, <1>4, <1>5, <1>6 DEF WithInjected
<1>7. CASE injection # None
  <2> DEFINE more == injection.Volume
  <2>1. more \in Volume /\ Provisioned(meta, port).Volumes = Append(mounted, more)
    BY <1>1, <1>3, <1>7 DEF WithInjected
  <2> HIDE DEF more
  <2>2. Count(volume, Append(mounted, more))
          = Count(volume, mounted) + (IF more = volume THEN 1 ELSE 0)
    BY <1>4, <2>1, CountAppend
  <2> QED
    BY <1>4, <1>5, <1>7, <2>1, <2>2 DEF more
<1> QED
  BY <1>6, <1>7

(* An injection is made of the first injector of the first editor.         *)
FirstEditor(list) == Editors(list)[1]
InjectorsOf(meta) == Named("remote-runtime-injector", meta.InitContainers)

LEMMA InjectionIs ==
  ASSUME NEW list \in Seq(PluginMeta), GetRuntimeInjection(list) # Failure
  PROVE  /\ GetRuntimeInjection(list) = None <=>
              Editors(list) = <<>> \/ InjectorsOf(FirstEditor(list)) = <<>>
         /\ GetRuntimeInjection(list) # None =>
              LET editor == FirstEditor(list)
                  injector == InjectorsOf(editor)[1]
                  found == GetRuntimeInjection(list)
              IN  /\ Has(list, editor) /\ IsEditor(editor)
                  /\ Has(editor.InitContainers, injector) /\ injector.Name = "remote-runtime-injector"
                  /\ found = InjectionOf(injector)
                  /\ Has(injector.Volumes, found.Volume)
                  /\ found.Env.Name = "PLUGIN_REMOTE_ENDPOINT_EXECUTABLE"
<1> DEFINE editor == FirstEditor(list)
           injectors == InjectorsOf(editor)
           injector == injectors[1]
           found == GetRuntimeInjection(list)
<1>1. found = IF Editors(list) = <<>> \/ injectors = <<>> THEN None ELSE InjectionOf(injector)
  BY Zenon DEF GetRuntimeInjection, Editors, FirstEditor, InjectorsOf
<1>2. CASE Editors(list) = <<>> \/ injectors = <<>>
  BY <1>1, <1>2
<1>3. CASE Editors(list) # <<>> /\ injectors # <<>>
  <2>1. Editors(list) \in Seq(PluginMeta)
        /\ \A m : Has(Editors(list), m) <=> Has(list, m) /\ IsEditor(m)
    BY EditorsKeeps
  <2>2. editor \in PluginMeta /\ Has(Editors(list), editor)
    BY <1>3, <2>1 DEF FirstEditor, Has
  <2>3. Has(list, editor) /\ IsEditor(editor)
    BY <2>1, <2>2
  <2> HIDE DEF editor
  <2>4. editor.InitContainers \in Seq(Container)
    BY <2>2 DEF PluginMeta, MetaWith
  <2>5. /\ injectors \in Seq(Container)
        /\ \A c : Has(injectors, c) <=> Has(editor.InitContainers, c) /\ c.Name = "remote-runtime-injector"
    BY <2>4, NamedKeeps DEF InjectorsOf
  <2> HIDE DEF injectors
  <2>6. injector \in Container /\ Has(injectors, injector)
    BY <1>3, <2>5 DEF Has
  <2>7. Has(editor.InitContainers, injector) /\ injector.Name = "remote-runtime-injector"
    BY <2>5, <2>6
  <2> HIDE DEF injector
  <2>8. found = InjectionOf(injector) /\ found # Failure
    BY <1>1, <1>3
  <2> HIDE DEF found
  <2> DEFINE executables == Named("PLUGIN_REMOTE_ENDPOINT_EXECUTABLE", injector.Env)
             volumes == Named(Named("REMOTE_ENDPOINT_VOLUME_NAME", injector.Env)[1].Value, injector.Volumes)
  <2>9. found = IF /\ FoundEnv("PLUGIN_REMOTE_ENDPOINT_EXECUTABLE", injector)
                   /\ FoundEnv("REMOTE_ENDPOINT_VOLUME_NAME", injector)
                   /\ volumes # <<>>
                THEN [Env |-> executables[1], Volume |-> volumes[1]]
                ELSE Failure
    BY <2>8, Zenon DEF InjectionOf
  <2>10. /\ injector.Env \in Seq(EnvVar) /\ injector.Volumes \in Seq(Volume)
    BY <2>6, PartsOfAny
  <2>11. /\ executables \in Seq(EnvVar)
         /\ \A e : Has(executables, e) => e.Name = "PLUGIN_REMOTE_ENDPOINT_EXECUTABLE"
    BY <2>10, NamedKeeps
  <2>12. volumes \in Seq(Volume) /\ \A v : Has(volumes, v) => Has(injector.Volumes, v)
    BY <2>10, NamedKeeps
  <2>13. FoundEnv("PLUGIN_REMOTE_ENDPOINT_EXECUTABLE", injector) => executables # <<>>
    BY DEF FoundEnv
  <2> HIDE DEF executables, volumes
  <2>14. executables # <<>> /\ volumes # <<>> /\ found = [Env |-> executables[1], Volume |-> volumes[1]]
    BY <2>8, <2>9, <2>13
  <2>15. /\ executables[1] \in EnvVar /\ volumes[1] \in Volume
         /\ Has(executables, executables[1]) /\ Has(volumes, volumes[1])
    BY <2>11, <2>12, <2>14 DEF Has
  <2>16. found \in RemotePluginInjection
    BY <2>14, <2>15 DEF RemotePluginInjection
  <2>17. found # None
    BY <2>16, MetadataAssumption
  <2>18. Has(injector.Volumes, found.Volume) /\ found.Env.Name = "PLUGIN_REMOTE_ENDPOINT_EXECUTABLE"
    BY <2>11, <2>12, <2>14, <2>15
  <2>19. Editors(list) # <<>> /\ InjectorsOf(FirstEditor(list)) # <<>>
    BY <1>3 DEF injectors, editor
  <2> QED
    BY <2>3, <2>7, <2>8, <2>17, <2>18, <2>19 DEF found, injector, injectors, editor
<1> QED
  BY <1>2, <1>3

(* No meta that is served takes a name the broker takes for the sidecars,  *)
(* and no editor's volume is that of the plugins.                          *)
NamesLeftFree ==
  \A fqn \in DOMAIN Served :
    /\ \A a \in DOMAIN Served[fqn].Containers :
         LET c == Served[fqn].Containers[a]
         IN  /\ ~Has(c.Volumes, PluginsVolume)
             /\ \A k \in DOMAIN c.Env :
                  c.Env[k].Name \notin {"THEIA_PLUGINS", "THEIA_PLUGIN_ENDPOINT_PORT"}
    /\ \A a \in DOMAIN Served[fqn].InitContainers :
         ~Has(Served[fqn].InitContainers[a].Volumes, PluginsVolume)

LEMMA DoneInjection ==
  ASSUME MetadataInv, pc = "done"
  PROVE  /\ metas \in Seq(PluginMeta) /\ injection = GetRuntimeInjection(metas) /\ injection # Failure
         /\ injection # None => injection.Env.Name = "PLUGIN_REMOTE_ENDPOINT_EXECUTABLE"
<1>1. metas \in Seq(PluginMeta) /\ injection = GetRuntimeInjection(metas) /\ injection # Failure
  BY DEF MetadataInv, TypeOK, MetasChecked
<1> QED
  BY <1>1, InjectionIs

(* A sidecar of the tooling is that of the plugin it comes of, provisioned. *)
LEMMA SidecarOf ==
  ASSUME MetadataInv, pc = "done", NEW i \in SidecarPlugins
  PROVE  /\ TypeOK /\ i \in DOMAIN metasToProcess /\ metasToProcess[i] \in PluginMeta
         /\ IsRemote(metasToProcess[i]) /\ tooling[i].Title = metasToProcess[i].Title
         /\ DOMAIN tooling[i].Containers = {1}
         /\ SaidByServed(Sidecar(metasToProcess[i])) /\ Sidecar(metasToProcess[i]) \in Container
         /\ \E port \in RandomWord : Sidecar(tooling[i]) = Provisioned(metasToProcess[i], port)
<1> DEFINE meta == metasToProcess[i]
<1>1. i \in DOMAIN tooling /\ tooling[i].Type \in TheiaTypes /\ tooling[i].Containers # <<>>
  BY DEF SidecarPlugins
<1>2. /\ TypeOK /\ i \in DOMAIN metasToProcess /\ meta \in PluginMeta /\ ProcessedAs(meta, tooling[i])
  BY <1>1, PublishedTooling
<1>3. meta.Containers \in Seq(Container) /\ tooling[i].Containers \in Seq(Container)
  <2>1. tooling[i] \in ChePlugin
    BY <1>1, <1>2 DEF TypeOK
  <2> QED
    BY <1>2, <2>1 DEF PluginMeta, MetaWith, ChePlugin
<1>4. \A k \in DOMAIN meta.Containers :
        /\ SaidByServed(meta.Containers[k])
        /\ IsTheiaOrVscodePlugin(meta) => k = 1
  BY <1>2, ProcessedSays
<1> HIDE DEF meta
<1>5. /\ tooling[i].Type = meta.Type /\ tooling[i].Title = meta.Title
      /\ DOMAIN tooling[i].Containers = DOMAIN meta.Containers
      /\ IsRemote(meta) => \E port \in RandomWord : Sidecar(tooling[i]) = Provisioned(meta, port)
  BY <1>2, ProcessedParts
<1>6. 1 \in DOMAIN meta.Containers
  BY <1>1, <1>3, <1>5
<1>7. IsTheiaOrVscodePlugin(meta) /\ meta.Containers # <<>>
  BY <1>1, <1>5, <1>6 DEF IsTheiaOrVscodePlugin
<1>8. IsRemote(meta) /\ DOMAIN meta.Containers = {1}
  BY <1>4, <1>6, <1>7 DEF IsRemote
<1>9. Sidecar(meta) \in Container /\ SaidByServed(Sidecar(meta))
  BY <1>3, <1>4, <1>6 DEF Sidecar
<1> QED
  BY <1>2, <1>5, <1>8, <1>9 DEF meta

LEMMA InvEquipped ==
  ASSUME MetadataInv, NamesLeftFree
  PROVE  SidecarsEquipped
<1> SUFFICES ASSUME pc = "done", NEW i \in SidecarPlugins
             PROVE  LET container == Sidecar(tooling[i])
                        ports == Named("THEIA_PLUGIN_ENDPOINT_PORT", container.Env)
                    IN  /\ Count(PluginsVolume, container.Volumes) = 1
                        /\ container.MountSources
                        /\ Named("THEIA_PLUGINS", container.Env) =
                             <<[Name |-> "THEIA_PLUGINS", Value |-> PluginsPath[tooling[i].Title]]>>
                        /\ IF flags.localhost THEN ports = <<>>
                           ELSE Len(ports) = 1 /\ Contains(container.Ports, ports[1].Value)
  BY DEF SidecarsEquipped
<1> DEFINE meta == metasToProcess[i]
           c == Sidecar(meta)
<1>1. /\ TypeOK /\ meta \in PluginMeta /\ IsRemote(meta) /\ tooling[i].Title = meta.Title
      /\ SaidByServed(c) /\ c \in Container
  BY SidecarOf
<1>2. PICK port \in RandomWord : Sidecar(tooling[i]) = Provisioned(meta, port)
  BY SidecarOf
<1> HIDE DEF meta
<1>3. /\ c.Env \in Seq(EnvVar) /\ c.Volumes \in Seq(Volume) /\ c.Ports \in Seq(Word)
  BY <1>1, PartsOfAny
<1>4. \A k \in DOMAIN c.Env : c.Env[k].Name \notin {"THEIA_PLUGINS", "THEIA_PLUGIN_ENDPOINT_PORT"}
  BY <1>1 DEF SaidByServed, NamesLeftFree, Has
<1>5. ~Has(c.Volumes, PluginsVolume)
  BY <1>1 DEF SaidByServed, NamesLeftFree, Has
<1>6. /\ Named("THEIA_PLUGINS", c.Env) = <<>>
      /\ Named("THEIA_PLUGIN_ENDPOINT_PORT", c.Env) = <<>>
  BY <1>3, <1>4, NamedQuiet
<1>7. /\ injection # None => injection.Env.Name = "PLUGIN_REMOTE_ENDPOINT_EXECUTABLE"
      /\ metas \in Seq(PluginMeta) /\ injection = GetRuntimeInjection(metas) /\ injection # Failure
  BY DoneInjection
<1>8. injection # None => injection.Volume # PluginsVolume
  <2> SUFFICES ASSUME injection # None PROVE injection.Volume # PluginsVolume
    OBVIOUS
  <2> DEFINE editor == FirstEditor(metas)
             injector == InjectorsOf(editor)[1]
  <2>1. Has(metas, editor) /\ Has(editor.InitContainers, injector) /\ Has(injector.Volumes, injection.Volume)
    BY <1>7, InjectionIs
  <2> HIDE DEF editor, injector
  <2>2. PICK j \in DOMAIN metas : metas[j] = editor
    BY <2>1 DEF Has
  <2>3. request[j] \in DOMAIN Served /\ editor.InitContainers = Served[request[j]].InitContainers
    BY <2>2, ServedMeta
  <2>4. ~Has(injector.Volumes, PluginsVolume)
    BY <2>1, <2>3 DEF NamesLeftFree, Has
  <2> QED
    BY <2>1, <2>4
<1> HIDE DEF c
<1> DEFINE container == Provisioned(meta, port)
           ports == Named("THEIA_PLUGIN_ENDPOINT_PORT", container.Env)
<1>9. /\ Named("THEIA_PLUGINS", container.Env) = <<PluginsEnv(meta)>>
      /\ ports = IF flags.localhost THEN <<>> ELSE <<PortEnv(port)>>
  BY <1>1, <1>6, <1>7, ProvisionedEnv DEF c
<1>10. Count(PluginsVolume, container.Volumes) = 1
  BY <1>1, <1>5, <1>8, ProvisionedVolumes DEF c
<1>11. container.MountSources /\ container.Ports = RunnerPorts(meta, port)
  BY <1>1, ProvisionedParts DEF Parts
<1>12. IF flags.localhost THEN ports = <<>>
       ELSE Len(ports) = 1 /\ Contains(container.Ports, ports[1].Value)
  <2>1. CASE flags.localhost
    BY <1>9, <2>1
  <2>2. CASE ~flags.localhost
    <3>1. Len(<<PortEnv(port)>>) = 1 /\ <<PortEnv(port)>>[1].Value = port
      BY DEF PortEnv
    <3>2. container.Ports = Append(c.Ports, port)
      BY <1>11, <2>2 DEF RunnerPorts, c
    <3>3. port \in Word
      BY MetadataAssumption
    <3>4. Has(Append(c.Ports, port), port)
      BY <1>3, <3>3, HasAppend
    <3> HIDE DEF container
    <3> QED
      BY <1>9, <2>2, <3>1, <3>2, <3>4 DEF Contains, Has
  <2> QED
    BY <2>1, <2>2
<1>13. <<PluginsEnv(meta)>> = <<[Name |-> "THEIA_PLUGINS", Value |-> PluginsPath[tooling[i].Title]]>>
  BY <1>1 DEF PluginsEnv
<1> QED
  BY <1>2, <1>9, <1>10, <1>11, <1>12, <1>13

(* Every sidecar of a tooling that is published is equipped, once, merged  *)
(* or not, whatever the order in which its parts were added.               *)
THEOREM SidecarsAreEquipped ==
  ASSUME NamesLeftFree
  PROVE  StartSpec => []SidecarsEquipped
<1>1. MetadataInv => SidecarsEquipped
  BY InvEquipped
<1> QED
  BY <1>1, MetadataInvariant, PTL

-----------------------------------------------------------------------------
(* What the editor brings to the sidecars *)

IsInjector(container) == container.Name = "remote-runtime-injector"

(* The che-theia editors of a request, if it has several, bring the same   *)
(* init containers; an editor has one injector, which names its first      *)
(* volume.                                                                 *)
EditorsAlike ==
  /\ \A list \in Request : \A i, j \in DOMAIN list :
       /\ list[i] \in DOMAIN Served /\ IsEditor(Served[list[i]])
       /\ list[j] \in DOMAIN Served /\ IsEditor(Served[list[j]])
       => Served[list[i]].InitContainers = Served[list[j]].InitContainers
  /\ \A fqn \in DOMAIN Served : IsEditor(Served[fqn]) =>
       \A a, b \in DOMAIN Served[fqn].InitContainers :
         LET c == Served[fqn].InitContainers[a]
             d == Served[fqn].InitContainers[b]
         IN  IsInjector(c) /\ IsInjector(d) =>
               c = d /\ (InjectionOf(c) # Failure => InjectionOf(c).Volume = c.Volumes[1])

(* No container that is served has of its own what an injector brings.     *)
InjectionLeftFree ==
  \A fqn \in DOMAIN Served : \A a \in DOMAIN Served[fqn].Containers :
    LET asked == Served[fqn].Containers[a]
    IN  /\ \A k \in DOMAIN asked.Env : asked.Env[k].Name # "PLUGIN_REMOTE_ENDPOINT_EXECUTABLE"
        /\ \A other \in DOMAIN Served : IsEditor(Served[other]) =>
             \A b \in DOMAIN Served[other].InitContainers :
               LET c == Served[other].InitContainers[b]
               IN  IsInjector(c) /\ c.Volumes # <<>> => ~Has(asked.Volumes, c.Volumes[1])

InjectedApart ==
  \A fqn \in DOMAIN Served : IsEditor(Served[fqn]) =>
    \A b \in DOMAIN Served[fqn].InitContainers :
      LET c == Served[fqn].InitContainers[b]
      IN  IsInjector(c) /\ c.Volumes # <<>> => c.Volumes[1] # PluginsVolume

LEMMA EditorServed ==
  ASSUME MetadataInv, NEW editor, Has(metas, editor), IsEditor(editor)
  PROVE  \E i \in DOMAIN request :
           /\ request \in Request /\ request[i] \in DOMAIN Served /\ IsEditor(Served[request[i]])
           /\ Served[request[i]].InitContainers = editor.InitContainers
<1>1. PICK i \in DOMAIN metas : metas[i] = editor
  BY DEF Has
<1>2. /\ i \in DOMAIN request /\ request \in Request /\ request[i] \in DOMAIN Served
      /\ editor.InitContainers = Served[request[i]].InitContainers
      /\ editor.Type = Served[request[i]].Type /\ editor.Title = Served[request[i]].Title
  BY <1>1, ServedMeta
<1> QED
  BY <1>2 DEF IsEditor

LEMMA InjectorIs ==
  ASSUME NEW c
  PROVE  c \in Injectors <=>
           \E editor : /\ Has(metas, editor) /\ IsEditor(editor)
                       /\ Has(editor.InitContainers, c) /\ IsInjector(c)
<1>1. \A list : Has(list, c) <=> c \in ToSet(list)
  BY DEF Has, ToSet
<1>2. \A list : Has(list, c) => list # <<>>
  BY DEF Has
<1>3. c \in Injectors <=>
        \E i \in DOMAIN metas :
          /\ metas[i].Type = "che editor" /\ metas[i].Title \in CheTheia
          /\ c \in ToSet(metas[i].InitContainers) /\ c.Name = "remote-runtime-injector"
  BY DEF Injectors
<1> QED
  BY <1>1, <1>2, <1>3 DEF IsEditor, IsInjector, Has

(* What is injected is what every injector of the request brings.          *)
LEMMA InjectorsInject ==
  ASSUME MetadataInv, pc = "done", EditorsAlike
  PROVE  /\ Injectors = {} <=> injection = None
         /\ \A c \in Injectors :
              /\ injection # None /\ c.Volumes # <<>> /\ injection.Volume = c.Volumes[1]
              /\ \E fqn \in DOMAIN Served :
                   IsEditor(Served[fqn]) /\ Has(Served[fqn].InitContainers, c) /\ IsInjector(c)
<1>1. metas \in Seq(PluginMeta) /\ injection = GetRuntimeInjection(metas) /\ injection # Failure
  BY DoneInjection
<1> DEFINE first == FirstEditor(metas)
           injector == InjectorsOf(first)[1]
<1>2. /\ injection = None <=> Editors(metas) = <<>> \/ InjectorsOf(first) = <<>>
      /\ injection # None =>
           /\ Has(metas, first) /\ IsEditor(first)
           /\ Has(first.InitContainers, injector) /\ injector.Name = "remote-runtime-injector"
           /\ injection = InjectionOf(injector) /\ Has(injector.Volumes, injection.Volume)
  BY <1>1, InjectionIs
<1>3. /\ Editors(metas) \in Seq(PluginMeta)
      /\ \A m : Has(Editors(metas), m) <=> Has(metas, m) /\ IsEditor(m)
  BY <1>1, EditorsKeeps
<1>4. Editors(metas) # <<>> => Has(metas, first) /\ IsEditor(first) /\ first \in PluginMeta
  <2> SUFFICES ASSUME Editors(metas) # <<>>
               PROVE  Has(metas, first) /\ IsEditor(first) /\ first \in PluginMeta
    OBVIOUS
  <2>1. first \in PluginMeta /\ Has(Editors(metas), first)
    BY <1>3 DEF FirstEditor, Has
  <2> QED
    BY <1>3, <2>1
<1> HIDE DEF first
<1>5. first \in PluginMeta =>
        \A c : Has(InjectorsOf(first), c) <=> Has(first.InitContainers, c) /\ IsInjector(c)
  <2>1. first \in PluginMeta => first.InitContainers \in Seq(Container)
    BY DEF PluginMeta, MetaWith
  <2> QED
    BY <2>1, NamedKeeps DEF InjectorsOf, IsInjector
<1> HIDE DEF injector
<1>6. injection # None => Injectors # {}
  BY <1>2, InjectorIs DEF IsInjector
<1>7. ASSUME NEW c \in Injectors
      PROVE  /\ injection # None /\ c.Volumes # <<>> /\ injection.Volume = c.Volumes[1]
             /\ \E fqn \in DOMAIN Served :
                  IsEditor(Served[fqn]) /\ Has(Served[fqn].InitContainers, c) /\ IsInjector(c)
  <2>1. PICK editor : /\ Has(metas, editor) /\ IsEditor(editor)
                      /\ Has(editor.InitContainers, c) /\ IsInjector(c)
    BY InjectorIs
  <2>2. Editors(metas) # <<>>
    BY <1>3, <2>1 DEF Has
  <2>3. Has(metas, first) /\ IsEditor(first) /\ first \in PluginMeta
    BY <1>4, <2>2
  <2>4. PICK i \in DOMAIN request :
          /\ request \in Request /\ request[i] \in DOMAIN Served /\ IsEditor(Served[request[i]])
          /\ Served[request[i]].InitContainers = editor.InitContainers
    BY <2>1, EditorServed
  <2>5. PICK j \in DOMAIN request :
          /\ request[j] \in DOMAIN Served /\ IsEditor(Served[request[j]])
          /\ Served[request[j]].InitContainers = first.InitContainers
    BY <2>3, EditorServed
  <2>6. first.InitContainers = editor.InitContainers
    BY <2>4, <2>5 DEF EditorsAlike
  <2>7. Has(InjectorsOf(first), c)
    BY <1>5, <2>1, <2>3, <2>6
  <2>8. injection # None
    BY <1>2, <2>2, <2>7 DEF Has
  <2>9. /\ Has(editor.InitContainers, injector) /\ IsInjector(injector)
        /\ injection = InjectionOf(injector) /\ injector.Volumes # <<>>
    BY <1>2, <2>6, <2>8 DEF IsInjector, Has
  <2>10. c = injector /\ (InjectionOf(c) # Failure => InjectionOf(c).Volume = c.Volumes[1])
    BY <2>1, <2>4, <2>9 DEF EditorsAlike, Has
  <2> QED
    BY <1>1, <2>1, <2>4, <2>8, <2>9, <2>10
<1> QED
  BY <1>6, <1>7

LEMMA InvInjected ==
  ASSUME MetadataInv, EditorsAlike, InjectionLeftFree, InjectedApart
  PROVE  RuntimeInjected
<1> DEFINE name == "PLUGIN_REMOTE_ENDPOINT_EXECUTABLE"
<1> SUFFICES ASSUME pc = "done", NEW i \in DOMAIN tooling, NEW k \in DOMAIN tooling[i].Containers
             PROVE  LET container == tooling[i].Containers[k]
                        times == IF Injectors # {} /\ i \in SidecarPlugins THEN 1 ELSE 0
                    IN  /\ Len(Named(name, container.Env)) = times
                        /\ \A c \in Injectors : Count(c.Volumes[1], container.Volumes) = times
  BY DEF RuntimeInjected
<1> DEFINE meta == metasToProcess[i]
           container == tooling[i].Containers[k]
           injected == injection # None /\ i \in SidecarPlugins
<1>1. /\ Injectors = {} <=> injection = None
      /\ \A c \in Injectors :
           /\ injection # None /\ c.Volumes # <<>> /\ injection.Volume = c.Volumes[1]
           /\ \E fqn \in DOMAIN Served :
                IsEditor(Served[fqn]) /\ Has(Served[fqn].InitContainers, c) /\ IsInjector(c)
  BY InjectorsInject
(* What a container that is served says is not what is injected.           *)
<1>2. ASSUME NEW asked \in Container, SaidByServed(asked)
      PROVE  /\ Named(name, asked.Env) = <<>>
             /\ \A c \in Injectors : ~Has(asked.Volumes, c.Volumes[1])
  <2>1. asked.Env \in Seq(EnvVar) /\ asked.Volumes \in Seq(Volume)
    BY PartsOfAny
  <2>2. \A b \in DOMAIN asked.Env : asked.Env[b].Name # name
    BY <1>2 DEF SaidByServed, InjectionLeftFree, Has
  <2>3. Named(name, asked.Env) = <<>>
    BY <2>1, <2>2, NamedQuiet
  <2>4. ASSUME NEW c \in Injectors, Has(asked.Volumes, c.Volumes[1]) PROVE FALSE
    <3>1. PICK b \in DOMAIN asked.Volumes : asked.Volumes[b] = c.Volumes[1]
      BY <2>4 DEF Has
    <3>2. PICK fqn \in DOMAIN Served : \E a \in DOMAIN Served[fqn].Containers :
            Has(Served[fqn].Containers[a].Volumes, c.Volumes[1])
      BY <1>2, <3>1 DEF SaidByServed
    <3>3. PICK other \in DOMAIN Served :
            IsEditor(Served[other]) /\ Has(Served[other].InitContainers, c) /\ IsInjector(c)
      BY <1>1
    <3>4. c.Volumes # <<>>
      BY <1>1
    <3> QED
      BY <3>2, <3>3, <3>4 DEF InjectionLeftFree, Has
  <2> QED
    BY <2>3, <2>4
<1>3. CASE i \in SidecarPlugins
  <2>1. /\ TypeOK /\ meta \in PluginMeta /\ IsRemote(meta) /\ DOMAIN tooling[i].Containers = {1}
        /\ SaidByServed(Sidecar(meta)) /\ Sidecar(meta) \in Container
    BY <1>3, SidecarOf
  <2>2. PICK port \in RandomWord : Sidecar(tooling[i]) = Provisioned(meta, port)
    BY <1>3, SidecarOf
  <2> HIDE DEF meta
  <2>3. container = Provisioned(meta, port)
    BY <2>1, <2>2 DEF Sidecar
  <2> HIDE DEF container
  <2>4. Named(name, Sidecar(meta).Env) = <<>>
    BY <1>2, <2>1
  <2>5. injection # None => injection.Env.Name = "PLUGIN_REMOTE_ENDPOINT_EXECUTABLE"
    BY DoneInjection
  <2>6. Len(Named(name, container.Env)) = IF injection = None THEN 0 ELSE 1
    BY <2>1, <2>3, <2>4, <2>5, ProvisionedEnv
  <2>7. ASSUME NEW c \in Injectors PROVE Count(c.Volumes[1], container.Volumes) = 1
    <3>1. ~Has(Sidecar(meta).Volumes, c.Volumes[1])
      BY <1>2, <2>1
    <3>2. c.Volumes[1] # PluginsVolume
      BY <1>1 DEF InjectedApart, Has
    <3>3. injection # None /\ injection.Volume = c.Volumes[1]
      BY <1>1
    <3> QED
      BY <2>1, <2>3, <3>1, <3>2, <3>3, ProvisionedVolumes
  <2> QED
    BY <1>1, <1>3, <2>6, <2>7 DEF container
<1>4. CASE i \notin SidecarPlugins
  <2>1. /\ TypeOK /\ i \in DOMAIN metasToProcess /\ meta \in PluginMeta /\ ProcessedAs(meta, tooling[i])
    BY PublishedTooling
  <2>2. meta.Containers \in Seq(Container) /\ tooling[i].Containers \in Seq(Container)
    <3>1. tooling[i] \in ChePlugin
      BY <2>1 DEF TypeOK
    <3> QED
      BY <2>1, <3>1 DEF PluginMeta, MetaWith, ChePlugin
  <2>3. \A a \in DOMAIN meta.Containers : SaidByServed(meta.Containers[a])
    BY <2>1, ProcessedSays
  <2> HIDE DEF meta
  <2>4. /\ tooling[i].Type = meta.Type
        /\ DOMAIN tooling[i].Containers = DOMAIN meta.Containers
        /\ \A a \in DOMAIN meta.Containers :
             a # 1 \/ ~IsRemote(meta) => tooling[i].Containers[a] = meta.Containers[a]
    BY <2>1, ProcessedParts
  <2>5. ~IsRemote(meta)
    BY <1>4, <2>4 DEF SidecarPlugins, IsRemote, IsTheiaOrVscodePlugin
  <2>6. container = meta.Containers[k] /\ container \in Container /\ SaidByServed(container)
    BY <2>2, <2>3, <2>4, <2>5
  <2> HIDE DEF container
  <2>7. Named(name, container.Env) = <<>> /\ \A c \in Injectors : ~Has(container.Volumes, c.Volumes[1])
    BY <1>2, <2>6
  <2>8. container.Volumes \in Seq(Volume)
    BY <2>6, PartsOfAny
  <2>9. \A c \in Injectors : Count(c.Volumes[1], container.Volumes) = 0
    BY <2>7, <2>8, CountNone
  <2>10. Len(<<>>) = 0
    OBVIOUS
  <2> QED
    BY <1>4, <2>7, <2>9, <2>10 DEF container
<1> QED
  BY <1>3, <1>4

(* The runtime an editor brings gets to every sidecar and to no other      *)
(* container, wherever the editor is in the request.                       *)
THEOREM RuntimeIsInjected ==
  ASSUME EditorsAlike, InjectionLeftFree, InjectedApart
  PROVE  StartSpec => []RuntimeInjected
<1>1. MetadataInv => RuntimeInjected
  BY InvInjected
<1> QED
  BY <1>1, MetadataInvariant, PTL
=============================================================================
