------------------------- MODULE MCArtifactsBroker -------------------------
(***************************************************************************)
(* Instances of ArtifactsBroker for TLC: two plugin ids, three extensions, *)
(* and the lists of plugins that take the broker through every case of     *)
(* preparePluginsToInstall.                                                *)
(***************************************************************************)
EXTENDS ArtifactsBroker, TLC

CONSTANTS red, blue,        \* plugin ids
          x, y, z,          \* extension URLs
          f1, f2            \* archive names

OwnName == (red :> "red") @@ (blue :> "blue")

(* ConvertIDToUniqueName maps ids that differ in punctuation to one name.  *)
SharedName == (red :> "same") @@ (blue :> "same")

Plugin(id, remote, urls) ==
  [ID |-> id, IsRemote |-> remote,
   CachedExtensions |-> [url \in urls |-> NotDownloaded]]

(* A plugin that loses, gains or swaps extensions, moves in and out of a   *)
(* container, is joined by another, is asked for twice, or goes away.      *)
Lists ==
  { <<Plugin(red, FALSE, {x, y})>>,
    <<Plugin(red, FALSE, {y}), Plugin(blue, TRUE, {x, z})>>,
    <<Plugin(red, TRUE, {x}), Plugin(blue, TRUE, {z})>>,
    <<Plugin(red, FALSE, {y}), Plugin(red, FALSE, {y})>>,
    <<Plugin(blue, TRUE, {})>> }

(* No local plugin has more than one extension.                            *)
SingleLists ==
  { <<Plugin(red, FALSE, {x})>>,
    <<Plugin(red, FALSE, {y}), Plugin(blue, TRUE, {x, z})>>,
    <<Plugin(red, TRUE, {x, y}), Plugin(blue, FALSE, {z})>>,
    <<>> }

DoubleLists == {<<Plugin(red, FALSE, {x, y})>>, <<>>}

(* Plugins that leave files behind on a volume with room for two.          *)
LeakyLists ==
  DoubleLists \union {<<Plugin(red, FALSE, {x}), Plugin(red, FALSE, {x})>>}

RemoteLists ==
  { <<Plugin(red, TRUE, {x}), Plugin(blue, TRUE, {y})>>,
    <<Plugin(red, TRUE, {x})>> }

OldFiles == {[dir |-> Root, name |-> f1], [dir |-> UniqueName[blue], name |-> f2]}
NoFiles == {}

AllFaults == FaultKind

(* Calls that read the index or make room on the volume succeed.           *)
FillFaults == {"crash", "fetch", "download", "copy", "write"}
NoFaults == {}
=============================================================================
