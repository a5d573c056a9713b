-------------------------- MODULE MCMetadataBroker --------------------------
(***************************************************************************)
(* Instances of MetadataBroker for TLC: an editor with, without and with a *)
(* broken runtime injector, plugins that run in sidecars of one image and  *)
(* agree or not, one without a sidecar, a Che plugin, and two metas that   *)
(* are not valid; with every combination of the settings.                  *)
(***************************************************************************)
EXTENDS MetadataBroker, TLC

CONSTANTS theia, java, go, lint, exec,   \* titles, and the ids made of them
          javaLatest,                    \* an id that is no title
          im1, im2                       \* images

Words ==
  {"", "merged", "a", "b", "x", "y", "4401", "4402", "plugins", "/plugins",
   "remote-runtime-injector", "PLUGIN_REMOTE_ENDPOINT_EXECUTABLE",
   "REMOTE_ENDPOINT_VOLUME_NAME", "THEIA_PLUGINS", "THEIA_PLUGIN_ENDPOINT_PORT",
   "theia_dir", "java_dir", "go_dir", "lint_dir", "exec_dir"}

Paths ==
  (theia :> "theia_dir") @@ (java :> "java_dir") @@ (go :> "go_dir")
    @@ (lint :> "lint_dir") @@ (exec :> "exec_dir")

NoQuantities == [kind \in ResourceKind |-> Unset]

Var(name, value) == [Name |-> name, Value |-> value]

PlainContainer ==
  [Name |-> "a", Image |-> im1, Env |-> <<Var("a", "x")>>, Commands |-> <<>>, Volumes |-> <<>>,
   Ports |-> <<>>, Resources |-> NoQuantities, MountSources |-> FALSE, Custom |-> FALSE]

InjectorContainer ==
  [PlainContainer EXCEPT
     !.Name = "remote-runtime-injector",
     !.Env = <<Var("PLUGIN_REMOTE_ENDPOINT_EXECUTABLE", "x"),
               Var("REMOTE_ENDPOINT_VOLUME_NAME", "b")>>,
     !.Volumes = <<[MountPath |-> "x", Name |-> "b", Ephemeral |-> TRUE]>>]

Editor ==
  [APIVersion |-> "v2", ID |-> theia, Title |-> theia, Type |-> "che editor",
   Containers |-> <<[PlainContainer EXCEPT !.Image = im2]>>,
   InitContainers |-> <<PlainContainer, InjectorContainer>>,
   Endpoints |-> <<>>, WorkspaceEnv |-> <<>>, Extensions |-> <<>>]
OldEditor == [Editor EXCEPT !.InitContainers = <<PlainContainer>>]
BrokenEditor ==
  [Editor EXCEPT !.InitContainers = <<[InjectorContainer EXCEPT !.Volumes = <<>>]>>]

JavaPlugin ==
  [APIVersion |-> "v2", ID |-> None, Title |-> java, Type |-> "vs code extension",
   Containers |-> <<PlainContainer>>, InitContainers |-> <<>>,
   Endpoints |-> <<[Name |-> "a", Target |-> "y"]>>,
   WorkspaceEnv |-> <<Var("b", "x")>>, Extensions |-> <<"x">>]
GoPlugin == [JavaPlugin EXCEPT !.Title = go, !.Type = "theia plugin", !.Extensions = <<"y", "x">>]
StubbornPlugin == [GoPlugin EXCEPT !.Containers = <<[PlainContainer EXCEPT !.Env = <<Var("a", "y")>>]>>]
LintPlugin == [JavaPlugin EXCEPT !.ID = lint, !.Title = lint, !.Containers = <<>>]
ExecPlugin ==
  [JavaPlugin EXCEPT !.ID = exec, !.Title = exec, !.Type = "che plugin", !.Extensions = <<>>]
OldPlugin == [JavaPlugin EXCEPT !.APIVersion = ""]
DoublePlugin == [JavaPlugin EXCEPT !.Containers = <<PlainContainer, PlainContainer>>]

(* Where the metas are found: by id in the default registry or in another, *)
(* or by a reference.                                                      *)
ByID(id) == [ID |-> id, Reference |-> FALSE, Registry |-> FALSE]
Elsewhere(id) == [ID |-> id, Reference |-> FALSE, Registry |-> TRUE]
Referred(id) == [ID |-> id, Reference |-> TRUE, Registry |-> FALSE]

Registries ==
  (ByID(theia) :> Editor) @@ (Elsewhere(theia) :> OldEditor) @@ (Referred(theia) :> BrokenEditor)
    @@ (ByID(java) :> JavaPlugin) @@ (ByID(javaLatest) :> JavaPlugin)
    @@ (Elsewhere(java) :> OldPlugin) @@ (Referred(java) :> DoublePlugin)
    @@ (Referred(None) :> GoPlugin) @@ (Elsewhere(go) :> StubbornPlugin)
    @@ (ByID(lint) :> LintPlugin) @@ (ByID(exec) :> ExecPlugin)

(* Lists of up to three of them, with at most one editor.                  *)
Requests ==
  {list \in UNION {[1 .. n -> DOMAIN Registries] : n \in 0 .. 3} :
     Cardinality({i \in DOMAIN list : list[i].ID = theia}) <= 1}

AllFlags == Flags
RemoteFlags == {[merge |-> FALSE, localhost |-> FALSE, registry |-> TRUE]}
MergingFlags == {[merge |-> TRUE, localhost |-> TRUE, registry |-> TRUE]}
NoLists == {}
=============================================================================
