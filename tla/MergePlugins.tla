---------------------------- MODULE MergePlugins ----------------------------
(***************************************************************************)
(* src/utils/mergeplugins: plugins whose sidecar runs the same image become *)
(* one plugin with one container.  MergePlugins sorts the plugins by image *)
(* into a Go map and merges one image after the other, in the order of the *)
(* map iteration, which differs from run to run; both brokers call it, in  *)
(* processes of their own, on the same plugins.                            *)
(*                                                                         *)
(* A string (the name of a variable, a value, a mount path, a command line) *)
(* is a member of Word; a quantity of CPU or memory is a number.           *)
(***************************************************************************)
EXTENDS Naturals, Sequences, FiniteSets, SequencesExt

CONSTANTS
  PluginID,       \* plugin ids, among them "publisher/name/version" of Title
  Title,          \* publisher, name and version of a plugin, as one value
  Image,          \* container images
  Word,           \* strings
  PluginList,     \* the lists of plugins a call may be given
  Unset,          \* a quantity that is ""
  Malformed,      \* a quantity that resource.ParseQuantity rejects
  Conflict        \* the error result of a merge

TheiaTypes == {"theia plugin", "vs code extension"}
CheTypes == {"che plugin", "che editor"}
PluginType == TheiaTypes \union CheTypes \union {"", "unknown"}

ResourceKind == {"memLimit", "memRequest", "cpuLimit", "cpuRequest"}
Quantity == Nat \union {Unset, Malformed}

EnvVar == [Name : Word, Value : Word]
Endpoint == [Name : Word, Target : Word]
Command == [Name : Word, Line : Word]
Volume == [MountPath : Word, Name : Word, Ephemeral : BOOLEAN]

(* Custom: the container has a command, arguments or a lifecycle.          *)
Container ==
  [Name : Word, Image : Image, Env : Seq(EnvVar), Commands : Seq(Command),
   Volumes : Seq(Volume), Ports : Seq(Word), Resources : [ResourceKind -> Quantity],
   MountSources : BOOLEAN, Custom : BOOLEAN]

(* A meta whose id is one of the given.                                    *)
MetaWith(ids) ==
  [APIVersion : {"", "v2", "other"}, ID : ids, Title : Title, Type : PluginType,
   Containers : Seq(Container), InitContainers : Seq(Container),
   Endpoints : Seq(Endpoint), WorkspaceEnv : Seq(EnvVar), Extensions : Seq(Word)]

PluginMeta == MetaWith(PluginID)

ASSUME MergeAssumption ==
  /\ Title \subseteq PluginID
  /\ PluginList \subseteq Seq(PluginMeta)
  /\ "merged" \in Word
  /\ Unset # Malformed
  /\ {Unset, Malformed} \intersect Nat = {}
  /\ \A entries \in {EnvVar, Endpoint, Command, Volume, Word} : Conflict \notin Seq(entries)
  /\ Conflict \notin PluginMeta

-----------------------------------------------------------------------------
(* Merging the plugins of one image *)

IsTheiaOrVscodePlugin(meta) == meta.Type \in TheiaTypes

pluginMergable(plugin) ==
  /\ IsTheiaOrVscodePlugin(plugin)
  /\ Len(plugin.Containers) = 1
  /\ ~plugin.Containers[1].Custom
  /\ plugin.InitContainers = <<>>

(* Adding an entry to a list: the first entry it clashes with decides, by  *)
(* agreeing with it or not, whether it is already there or in conflict.    *)
Add(Clash(_, _), Agree(_, _), list, entry) ==
  LET clashing == {i \in DOMAIN list : Clash(list[i], entry)}
  IN  IF list = Conflict THEN Conflict
      ELSE IF clashing = {} THEN Append(list, entry)
      ELSE IF Agree(list[CHOOSE i \in clashing : \A j \in clashing : i <= j], entry) THEN list
      ELSE Conflict

AddAll(Clash(_, _), Agree(_, _), entries) ==
  FoldLeft(LAMBDA list, entry : Add(Clash, Agree, list, entry), <<>>, entries)

SameName(e, f) == e.Name = f.Name
Equal(e, f) == e = f

(* Volumes clash when they share a path or a name; one name must not be    *)
(* mounted at two paths, but two names at one path are taken for the same. *)
Overlap(v, w) == v.MountPath = w.MountPath \/ v.Name = w.Name
SameMount(v, w) == v.MountPath = w.MountPath /\ v.Ephemeral = w.Ephemeral

Of(plugins, Part(_)) ==
  FlattenSeq([i \in DOMAIN plugins |-> Part(plugins[i])])

(* The entries that pass a test, in their order.                           *)
Filter(list, Test(_)) ==
  LET kept[n \in 0 .. Len(list)] ==
        IF n = 0 THEN <<>>
        ELSE IF Test(list[n]) THEN Append(kept[n - 1], list[n])
        ELSE kept[n - 1]
  IN  kept[Len(list)]

Sidecar(plugin) == plugin.Containers[1]

(* Mutants: a variable is taken for another of its name, whatever their    *)
(* values; volumes of two names are never the same.                        *)
EnvsByName(plugins) == AddAll(SameName, SameName, Of(plugins, LAMBDA p : Sidecar(p).Env))
NamedVolumes(plugins) == AddAll(Overlap, Equal, Of(plugins, LAMBDA p : Sidecar(p).Volumes))

WorkspaceEnvs(plugins) == AddAll(SameName, Equal, Of(plugins, LAMBDA p : p.WorkspaceEnv))
Endpoints(plugins) == AddAll(SameName, Equal, Of(plugins, LAMBDA p : p.Endpoints))
Envs(plugins) == AddAll(SameName, Equal, Of(plugins, LAMBDA p : Sidecar(p).Env))
Commands(plugins) == AddAll(SameName, Equal, Of(plugins, LAMBDA p : Sidecar(p).Commands))
Volumes(plugins) == AddAll(Overlap, SameMount, Of(plugins, LAMBDA p : Sidecar(p).Volumes))
Extensions(plugins) == AddAll(Equal, Equal, Of(plugins, LAMBDA p : p.Extensions))
Ports(plugins) == Of(plugins, LAMBDA p : Sidecar(p).Ports)

Quantities(kind, plugins) ==
  Filter([i \in DOMAIN plugins |-> Sidecar(plugins[i]).Resources[kind]], LAMBDA q : q # Unset)

Sum(quantities) == FoldLeft(LAMBDA a, b : a + b, 0, quantities)

(* addResources and setContainerResources: a sum of zero is left out.      *)
Total(kind, plugins) ==
  IF Sum(Quantities(kind, plugins)) = 0 THEN Unset ELSE Sum(Quantities(kind, plugins))

mergePluginsForImage(image, plugins) ==
  IF \/ Conflict \in {WorkspaceEnvs(plugins), Endpoints(plugins)}
     \/ Conflict \in {Envs(plugins), Commands(plugins), Volumes(plugins)}
     \/ \E kind \in ResourceKind : Contains(Quantities(kind, plugins), Malformed)
  THEN Conflict
  ELSE [APIVersion |-> "v2", ID |-> plugins[1].Title, Title |-> plugins[1].Title,
        Type |-> "theia plugin", InitContainers |-> <<>>,
        Endpoints |-> Endpoints(plugins),
        WorkspaceEnv |-> WorkspaceEnvs(plugins),
        Extensions |-> Extensions(plugins),
        Containers |-> <<
          [Name |-> "merged", Image |-> image,
           Env |-> Envs(plugins), Commands |-> Commands(plugins),
           Volumes |-> Volumes(plugins), Ports |-> Ports(plugins),
           Resources |-> [kind \in ResourceKind |-> Total(kind, plugins)],
           MountSources |-> \E i \in DOMAIN plugins : Sidecar(plugins[i]).MountSources,
           Custom |-> FALSE]>>]

-----------------------------------------------------------------------------
VARIABLES
  plugins,        \* the argument
  sorted,         \* how many of them have been sorted
  toMerge,        \* the plugins to merge, by image
  pending,        \* the keys of toMerge the iteration has yet to visit
  unmodified,     \* plugins that stay as they are
  merged          \* merged plugins

mergeVars == <<plugins, sorted, toMerge, pending, unmodified, merged>>

MergeTypeOK ==
  /\ plugins \in Seq(PluginMeta)
  /\ sorted \in 0 .. Len(plugins)
  /\ toMerge \in [Image -> Seq(PluginMeta)]
  /\ pending \subseteq Image
  /\ unmodified \in Seq(PluginMeta)
  /\ merged \in Seq(PluginMeta)

(* The call begins.                                                        *)
BeginsWith(list) ==
  /\ plugins = list
  /\ sorted = 0
  /\ toMerge = [image \in Image |-> <<>>]
  /\ pending = {}
  /\ unmodified = <<>>
  /\ merged = <<>>

Init == \E list \in PluginList : BeginsWith(list)

(* The first loop.                                                         *)
SortPlugin ==
  /\ sorted < Len(plugins)
  /\ LET plugin == plugins[sorted + 1]
     IN  IF pluginMergable(plugin)
         THEN /\ toMerge' = [toMerge EXCEPT ![Sidecar(plugin).Image] = Append(@, plugin)]
              /\ pending' = pending \union {Sidecar(plugin).Image}
              /\ UNCHANGED unmodified
         ELSE /\ unmodified' = Append(unmodified, plugin)
              /\ UNCHANGED <<toMerge, pending>>
  /\ sorted' = sorted + 1
  /\ UNCHANGED <<plugins, merged>>

(* Mutants: the error of a merge is ignored; plugins that cannot be merged *)
(* are dropped.                                                            *)
MergeRegardless(image) ==
  /\ sorted = Len(plugins)
  /\ image \in pending
  /\ pending' = pending \ {image}
  /\ LET result == mergePluginsForImage(image, toMerge[image])
     IN  IF Len(toMerge[image]) < 2
         THEN unmodified' = unmodified \o toMerge[image] /\ UNCHANGED merged
         ELSE merged' = Append(merged, result) /\ UNCHANGED unmodified
  /\ UNCHANGED <<plugins, sorted, toMerge>>

DropUnmerged(image) ==
  /\ sorted = Len(plugins)
  /\ image \in pending
  /\ pending' = pending \ {image}
  /\ LET result == mergePluginsForImage(image, toMerge[image])
     IN  IF Len(toMerge[image]) < 2
         THEN unmodified' = unmodified \o toMerge[image] /\ UNCHANGED merged
         ELSE /\ merged' = IF result = Conflict THEN merged ELSE Append(merged, result)
              /\ UNCHANGED unmodified
  /\ UNCHANGED <<plugins, sorted, toMerge>>

(* The second loop: one image, whichever the iteration comes to next.      *)
MergeImage(image) ==
  /\ sorted = Len(plugins)
  /\ image \in pending
  /\ pending' = pending \ {image}
  /\ LET result == mergePluginsForImage(image, toMerge[image])
     IN  IF Len(toMerge[image]) < 2 \/ result = Conflict
         THEN unmodified' = unmodified \o toMerge[image] /\ UNCHANGED merged
         ELSE merged' = Append(merged, result) /\ UNCHANGED unmodified
  /\ UNCHANGED <<plugins, sorted, toMerge>>

MergeDone == sorted = Len(plugins) /\ pending = {}
MergeResult == unmodified \o merged

MergeStep == SortPlugin \/ \E image \in Image : MergeImage(image)

Next == MergeStep \/ (MergeDone /\ UNCHANGED mergeVars)

Spec == Init /\ [][Next]_mergeVars

-----------------------------------------------------------------------------
(* Properties *)

Count(plugin, list) == Cardinality({i \in DOMAIN list : list[i] = plugin})

WasMerged(image) ==
  \E i \in DOMAIN merged : Sidecar(merged[i]).Image = image

(* Plugins that wait for their image, or have been merged.                 *)
InGroups(plugin) ==
  IF /\ pluginMergable(plugin)
     /\ Sidecar(plugin).Image \in pending \/ WasMerged(Sidecar(plugin).Image)
  THEN Count(plugin, toMerge[Sidecar(plugin).Image])
  ELSE 0

(* Each of the plugins sorted so far is in exactly one place, as often as  *)
(* it was asked for: unmodified, waiting for its image, or merged.  None   *)
(* is lost and none comes out both merged and by itself, when merging its  *)
(* image fails half way too.                                               *)
Accounted ==
  \A i \in DOMAIN plugins :
    Count(plugins[i], unmodified) + InGroups(plugins[i])
      = Count(plugins[i], SubSeq(plugins, 1, sorted))

(* One of the entries says what the given one says.                        *)
Said(Agree(_, _), entry, entries) == \E i \in DOMAIN entries : Agree(entries[i], entry)
AllSaid(Agree(_, _), some, entries) ==
  \A i \in DOMAIN some : Said(Agree, some[i], entries)

(* The merged plugin gives every plugin what it would have had by itself.  *)
Provides(whole, plugin) ==
  /\ AllSaid(Equal, plugin.WorkspaceEnv, whole.WorkspaceEnv)
  /\ AllSaid(Equal, plugin.Endpoints, whole.Endpoints)
  /\ AllSaid(Equal, plugin.Extensions, whole.Extensions)
  /\ AllSaid(Equal, Sidecar(plugin).Env, Sidecar(whole).Env)
  /\ AllSaid(Equal, Sidecar(plugin).Commands, Sidecar(whole).Commands)
  /\ AllSaid(SameMount, Sidecar(plugin).Volumes, Sidecar(whole).Volumes)
  /\ AllSaid(Equal, Sidecar(plugin).Ports, Sidecar(whole).Ports)
  /\ Sidecar(plugin).MountSources => Sidecar(whole).MountSources

Amount(quantity) == IF quantity \in Nat THEN quantity ELSE 0

(* It has the CPU and the memory of all of them.                           *)
AddsUp(whole, group) ==
  \A kind \in ResourceKind :
    Amount(Sidecar(whole).Resources[kind])
      = Sum([j \in DOMAIN group |-> Amount(Sidecar(group[j]).Resources[kind])])

(* A name or a path stands for one thing only.                             *)
Unambiguous(Clash(_, _), entries) ==
  \A i, j \in DOMAIN entries : Clash(entries[i], entries[j]) => i = j

(* A merged plugin provides what each of the plugins merged into it asks   *)
(* for, though they were added one after the other and entries that look   *)
(* alike are left out, and nothing in it contradicts itself.               *)
MergedProvides ==
  \A i \in DOMAIN merged :
    LET whole == merged[i]
        group == toMerge[Sidecar(whole).Image]
    IN  /\ \A j \in DOMAIN group : Provides(whole, group[j])
        /\ AddsUp(whole, group)
        /\ Unambiguous(SameName, whole.WorkspaceEnv)
        /\ Unambiguous(SameName, whole.Endpoints)
        /\ Unambiguous(SameName, Sidecar(whole).Env)
        /\ Unambiguous(SameName, Sidecar(whole).Commands)
        /\ Unambiguous(Overlap, Sidecar(whole).Volumes)

GroupOf(image, list) ==
  Filter(list, LAMBDA p : pluginMergable(p) /\ Sidecar(p).Image = image)

Merges(image, group) == Len(group) > 1 /\ mergePluginsForImage(image, group) # Conflict

(* What comes of a group: its plugins as they are, or one in their place.  *)
LeftAlone(image, group) == IF Merges(image, group) THEN <<>> ELSE group
MergedInto(image, group) ==
  IF Merges(image, group) THEN <<mergePluginsForImage(image, group)>> ELSE <<>>

(* What the loops have made of the list, after the images of the order.    *)
UnmodifiedOf(list, order) ==
  Filter(list, LAMBDA p : ~pluginMergable(p))
    \o Of(order, LAMBDA image : LeftAlone(image, GroupOf(image, list)))
MergedOf(list, order) == Of(order, LAMBDA image : MergedInto(image, GroupOf(image, list)))

(* What a call may return, by the order in which it comes to the images.   *)
MergedLists(list) ==
  {UnmodifiedOf(list, order) \o MergedOf(list, order) :
     order \in SetToSeqs({image \in Image : GroupOf(image, list) # <<>>})}

(* The two loops return one of the lists they may return: the plugins that *)
(* stay as they are in the order they were asked for, then the others      *)
(* image by image, merged ones last; how an image comes out depends on its *)
(* own plugins only.  (Two processes that run the loops on the same list   *)
(* differ by the order of the result and nothing else.)                    *)
MergedAsListed == MergeDone => MergeResult \in MergedLists(plugins)

(* No two entries of a list disagree, whatever their order.                *)
Consistent(Clash(_, _), Agree(_, _), entries) ==
  \A i, j \in DOMAIN entries : Clash(entries[i], entries[j]) => Agree(entries[i], entries[j])

Compatible(group) ==
  /\ Consistent(SameName, Equal, Of(group, LAMBDA p : p.WorkspaceEnv))
  /\ Consistent(SameName, Equal, Of(group, LAMBDA p : p.Endpoints))
  /\ Consistent(SameName, Equal, Of(group, LAMBDA p : Sidecar(p).Env))
  /\ Consistent(SameName, Equal, Of(group, LAMBDA p : Sidecar(p).Commands))
  /\ Consistent(Overlap, SameMount, Of(group, LAMBDA p : Sidecar(p).Volumes))
  /\ \A i \in DOMAIN group : \A kind \in ResourceKind :
       Sidecar(group[i]).Resources[kind] # Malformed

(* Two plugins that share an image and do not contradict each other end up *)
(* in one container: the images are told apart by what the plugins say,    *)
(* not by the order in which they were asked for.                          *)
CompatibleMerged ==
  MergeDone =>
    \A image \in Image :
      Len(toMerge[image]) > 1 /\ Compatible(toMerge[image]) => WasMerged(image)

-----------------------------------------------------------------------------
(* The inductive invariant that these properties rest on.                  *)

Grouped == {image \in Image : toMerge[image] # <<>>}

(* The first loop has put the plugins it can merge with those of the image. *)
GroupsSorted ==
  /\ \A image \in Image : toMerge[image] = GroupOf(image, SubSeq(plugins, 1, sorted))
  /\ pending \subseteq Grouped
  /\ sorted < Len(plugins) => pending = Grouped /\ merged = <<>>

(* The second has merged the images it has been to, if they can be merged, *)
(* and each of them once.                                                  *)
GroupsMerged ==
  /\ \A i \in DOMAIN merged :
       \E image \in Grouped \ pending :
         /\ Merges(image, toMerge[image])
         /\ merged[i] = mergePluginsForImage(image, toMerge[image])
  /\ \A image \in Grouped \ pending : Merges(image, toMerge[image]) => WasMerged(image)
  /\ \A i, j \in DOMAIN merged : Sidecar(merged[i]).Image = Sidecar(merged[j]).Image => i = j

(* The lists it has made are those of some order of these images.          *)
SomeOrder ==
  \E order \in SetToSeqs(Grouped \ pending) :
    /\ unmodified = UnmodifiedOf(SubSeq(plugins, 1, sorted), order)
    /\ merged = MergedOf(SubSeq(plugins, 1, sorted), order)

MergeInv == MergeTypeOK /\ GroupsSorted /\ GroupsMerged /\ SomeOrder /\ Accounted
=============================================================================
