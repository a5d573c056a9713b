----------------------------- MODULE PluginCache -----------------------------
(***************************************************************************)
(* What the artifacts broker (src/brokers/artifacts) promises of the       *)
(* /plugins volume, without its index, its files and their names: a set of *)
(* extensions, each whole and in a directory, that changes only while a    *)
(* start brings it in line with what the workspace asks for.               *)
(***************************************************************************)
CONSTANTS
  Directory,      \* directories the containers of a workspace look in
  Extension       \* extension URLs

VARIABLES
  available,      \* <<directory, extension>> that are on the volume, whole
  wanted,         \* those the current start has to provide
  phase           \* "idle", "starting", "syncing" or "ready"

cacheVars == <<available, wanted, phase>>

Place == Directory \X Extension

CacheTypeOK ==
  /\ available \subseteq Place
  /\ wanted \subseteq Place
  /\ phase \in {"idle", "starting", "syncing", "ready"}

CacheInit == available = {} /\ wanted = {} /\ phase = "idle"

(* A broker starts; it does not yet know what for.                         *)
Begin ==
  /\ phase \in {"idle", "ready"}
  /\ phase' = "starting"
  /\ wanted' = {}
  /\ UNCHANGED available

(* The plugins of the workspace are known, and so are their extensions.    *)
Want ==
  /\ phase = "starting"
  /\ phase' = "syncing"
  /\ wanted' \in SUBSET Place
  /\ UNCHANGED available

(* Something leaves the volume: out of date, or in the way of a new start. *)
Drop ==
  /\ phase = "syncing"
  /\ available' \in SUBSET available
  /\ UNCHANGED <<wanted, phase>>

(* An extension is complete, where it is wanted.                           *)
Provide(place) ==
  /\ phase = "syncing"
  /\ place \in wanted
  /\ available' = available \union {place}
  /\ UNCHANGED <<wanted, phase>>

Succeed ==
  /\ phase = "syncing"
  /\ wanted \subseteq available
  /\ phase' = "ready"
  /\ UNCHANGED <<available, wanted>>

(* The start fails, or its process dies.                                   *)
Fail ==
  /\ phase \in {"starting", "syncing"}
  /\ phase' = "idle"
  /\ wanted' = {}
  /\ UNCHANGED available

Sync == Drop \/ \E place \in wanted : Provide(place)

CacheNext ==
  \/ Begin
  \/ Want
  \/ Sync
  \/ Succeed
  \/ Fail

CacheSpec == CacheInit /\ [][CacheNext]_cacheVars
=============================================================================
