------------------------- MODULE MCCheckpointEngine -------------------------
(* Instances of CheckpointEngine for TLC.                                  *)
EXTENDS CheckpointEngine, TLC

CONSTANTS p1, p2, w1, w2

NoNames == {}

(* Nothing tells two processes apart.                                      *)
AnyProcess == Permutations(Procs)

(* Workspaces like "site" and "site.v3".                                   *)
DottedName == {<<w1, w2>>}

=============================================================================
