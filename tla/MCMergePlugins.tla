--------------------------- MODULE MCMergePlugins ---------------------------
(***************************************************************************)
(* Instances of MergePlugins for TLC: every list of up to three of eleven  *)
(* plugins, chosen so that any two agree, clash or overlap in one way.     *)
(***************************************************************************)
EXTENDS MergePlugins

CONSTANTS red, blue,      \* titles, and the ids made of them
          im1, im2        \* images

Words == {"merged", "a", "b", "x", "y"}

NoQuantities == [kind \in ResourceKind |-> Unset]

PlainContainer ==
  [Name |-> "a", Image |-> im1, Env |-> <<>>, Commands |-> <<>>, Volumes |-> <<>>,
   Ports |-> <<>>, Resources |-> NoQuantities, MountSources |-> FALSE, Custom |-> FALSE]

PlainPlugin ==
  [APIVersion |-> "v2", ID |-> red, Title |-> red, Type |-> "vs code extension",
   Containers |-> <<PlainContainer>>, InitContainers |-> <<>>, Endpoints |-> <<>>,
   WorkspaceEnv |-> <<>>, Extensions |-> <<"x">>]

Var(name, value) == [Name |-> name, Value |-> value]
Line(name, line) == [Name |-> name, Line |-> line]
Target(name, target) == [Name |-> name, Target |-> target]
Mount(path, name, ephemeral) == [MountPath |-> path, Name |-> name, Ephemeral |-> ephemeral]

In(container) == [PlainPlugin EXCEPT !.Containers = <<container>>]

VariablePlugin == In([PlainContainer EXCEPT !.Env = <<Var("a", "x"), Var("b", "x")>>,
                                            !.Ports = <<"a">>, !.MountSources = TRUE])
OtherValuePlugin ==
  [In([PlainContainer EXCEPT !.Env = <<Var("a", "y")>>, !.Volumes = <<Mount("a", "a", FALSE)>>])
     EXCEPT !.Title = blue, !.WorkspaceEnv = <<Var("a", "x")>>]
OtherPathPlugin ==
  In([PlainContainer EXCEPT !.Volumes = <<Mount("b", "a", FALSE)>>,
                            !.Commands = <<Line("a", "x")>>])
OtherNamePlugin ==
  [In([PlainContainer EXCEPT !.Volumes = <<Mount("a", "b", FALSE), Mount("b", "x", FALSE)>>])
     EXCEPT !.Endpoints = <<Target("a", "x")>>, !.Extensions = <<"y", "x">>]
EphemeralPlugin ==
  [In([PlainContainer EXCEPT !.Volumes = <<Mount("a", "a", TRUE)>>,
                             !.Commands = <<Line("a", "y")>>])
     EXCEPT !.Endpoints = <<Target("a", "y")>>, !.WorkspaceEnv = <<Var("a", "y")>>]
LimitedPlugin ==
  In([PlainContainer EXCEPT !.Resources =
        [kind \in ResourceKind |-> IF kind = "memLimit" THEN 2 ELSE 0],
                            !.Env = <<Var("b", "x")>>])
HungryPlugin ==
  In([PlainContainer EXCEPT !.Resources =
        [kind \in ResourceKind |-> IF kind = "memLimit" THEN 3 ELSE 1]])
MalformedPlugin ==
  In([PlainContainer EXCEPT !.Image = im2, !.Resources =
        [NoQuantities EXCEPT !["cpuLimit"] = Malformed]])
ElsewherePlugin == In([PlainContainer EXCEPT !.Image = im2])
CustomPlugin == In([PlainContainer EXCEPT !.Custom = TRUE])
ChePlugin == [PlainPlugin EXCEPT !.Type = "che plugin", !.Extensions = <<>>]

Samples ==
  {VariablePlugin, OtherValuePlugin, OtherPathPlugin, OtherNamePlugin, EphemeralPlugin,
   LimitedPlugin, HungryPlugin, MalformedPlugin, ElsewherePlugin, CustomPlugin, ChePlugin}

UpToThree == UNION {[1 .. n -> Samples] : n \in 0 .. 3}
=============================================================================
