---------------------------- MODULE MCWorkspace ----------------------------
(***************************************************************************)
(* Instances of Workspace for TLC: two plugins whose sidecars can be       *)
(* merged, one of the same image that contradicts them, one without a      *)
(* sidecar whose extension is relative, one whose extension is outside of  *)
(* the registry, and a Che plugin.  Ids are titles, but for one.           *)
(***************************************************************************)
EXTENDS Workspace, TLC

CONSTANTS java, go, cpp, lint, far, exec,   \* titles, and the ids made of them
          javaLatest,                       \* an id that is no title
          im1                               \* an image

Words ==
  {"", "merged", "a", "x", "y", "4401", "plugins", "/plugins", "THEIA_PLUGINS",
   "THEIA_PLUGIN_ENDPOINT_PORT", "java_dir", "latest_dir", "go_dir", "cpp_dir",
   "lint_dir", "far_dir", "exec_dir", "lint.vsix", "../far.vsix",
   "registry/lint.vsix", "registry/../far.vsix"}

TitlePaths ==
  (java :> "java_dir") @@ (go :> "go_dir") @@ (cpp :> "cpp_dir") @@ (lint :> "lint_dir")
    @@ (far :> "far_dir") @@ (exec :> "exec_dir")

IDPaths == TitlePaths @@ (javaLatest :> "latest_dir")

RelativeURLs == ("lint.vsix" :> "registry/lint.vsix") @@ ("../far.vsix" :> "registry/../far.vsix")

Var(name, value) == [Name |-> name, Value |-> value]

PlainContainer ==
  [Name |-> "a", Image |-> im1, Env |-> <<Var("a", "x")>>, Commands |-> <<>>, Volumes |-> <<>>,
   Ports |-> <<>>, Resources |-> [kind \in ResourceKind |-> Unset], MountSources |-> FALSE,
   Custom |-> FALSE]

JavaPlugin ==
  [APIVersion |-> "v2", ID |-> None, Title |-> java, Type |-> "vs code extension",
   Containers |-> <<PlainContainer>>, InitContainers |-> <<>>, Endpoints |-> <<>>,
   WorkspaceEnv |-> <<>>, Extensions |-> <<"x">>]
GoPlugin == [JavaPlugin EXCEPT !.ID = go, !.Title = go, !.Extensions = <<"y", "x">>]
CppPlugin ==
  [JavaPlugin EXCEPT !.ID = cpp, !.Title = cpp, !.Extensions = <<"y">>,
                     !.Containers = <<[PlainContainer EXCEPT !.Env = <<Var("a", "y")>>]>>]
LintPlugin ==
  [JavaPlugin EXCEPT !.ID = lint, !.Title = lint, !.Type = "theia plugin", !.Containers = <<>>,
                     !.Extensions = <<"lint.vsix">>]
FarPlugin == [LintPlugin EXCEPT !.ID = far, !.Title = far, !.Extensions = <<"../far.vsix">>]
ExecPlugin ==
  [JavaPlugin EXCEPT !.ID = exec, !.Title = exec, !.Type = "che plugin", !.Extensions = <<>>]

ByID(id) == [ID |-> id, Reference |-> FALSE, Registry |-> FALSE]
Elsewhere(id) == [ID |-> id, Reference |-> FALSE, Registry |-> TRUE]

Registries ==
  (ByID(java) :> JavaPlugin) @@ (ByID(javaLatest) :> JavaPlugin) @@ (ByID(go) :> GoPlugin)
    @@ (ByID(cpp) :> CppPlugin) @@ (Elsewhere(lint) :> LintPlugin)
    @@ (Elsewhere(far) :> FarPlugin) @@ (ByID(exec) :> ExecPlugin)

(* Lists that are merged, that are not, that the artifacts broker rejects, *)
(* and such as share a plugin with another.                                *)
TitledRequests ==
  {<<>>, <<ByID(java)>>, <<ByID(go), ByID(java)>>, <<ByID(java), Elsewhere(lint), ByID(go)>>,
   <<ByID(java), ByID(cpp)>>, <<ByID(exec), Elsewhere(lint)>>, <<Elsewhere(far), ByID(cpp)>>}
LatestRequests ==
  {<<ByID(javaLatest)>>, <<ByID(javaLatest), ByID(go)>>, <<ByID(javaLatest), ByID(cpp)>>}

LocalFlags == [merge : BOOLEAN, localhost : {TRUE}, registry : BOOLEAN]
LatestFlags == [merge : BOOLEAN, localhost : {TRUE}, registry : {TRUE}]
NoLists == {}
=============================================================================
