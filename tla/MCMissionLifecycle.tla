------------------------- MODULE MCMissionLifecycle -------------------------
(* Small instances of MissionLifecycle for TLC.                            *)
EXTENDS MissionLifecycle

TwoWorkspaces == [m \in Missions |-> IF m = 3 THEN "other" ELSE "shared"]
=============================================================================
