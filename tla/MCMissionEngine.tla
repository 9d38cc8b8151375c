-------------------------- MODULE MCMissionEngine --------------------------
(* Small instances of MissionEngine for TLC.                               *)
EXTENDS MissionEngine, TLC

OneWorkspace == [m \in Missions |-> CHOOSE w \in Workspaces : TRUE]

(* two missions, each in a workspace of its own                            *)
OwnWorkspaces ==
    LET w == CHOOSE x \in Workspaces : TRUE
    IN  [m \in Missions |-> IF m = 1 THEN w ELSE CHOOSE x \in Workspaces : x # w]

CliSymmetry == Permutations(Clis)
=============================================================================
