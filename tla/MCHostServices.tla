--------------------------- MODULE MCHostServices ---------------------------
(***************************************************************************)
(* The parts of the system that keep something for the machine's next run: *)
(* its roots, the record of its updates, what Ember Mode altered, the      *)
(* audit trail, the log of the MCP servers.  They share no state that      *)
(* these modules hold: a run explores each of those in Parts on its own,   *)
(* part says which one.                                                    *)
(***************************************************************************)
EXTENDS PhoenixRestore, UpdateRecord, EmberMode, AuditMirror, McpAudit, TLC

CONSTANT Parts
VARIABLE part

vars == <<part, phVars, upVars, emVars, amVars, maVars>>

MCPointKernels == "p1" :> {1} @@ "p2" :> {2, 3}

\* A part that is not explored is in one fixed state and stays there.
Init ==
  /\ part \in Parts
  /\ PhInit /\ (part # "phoenix" => point = "p1")
  /\ UpInit /\ EmInit /\ AmInit /\ MaInit

Phoenix   == part = "phoenix" /\ PhNext /\ UNCHANGED <<part, upVars, emVars, amVars, maVars>>
Fireproof == part = "update"  /\ UpNext /\ UNCHANGED <<part, phVars, emVars, amVars, maVars>>
Ember     == part = "ember"   /\ EmNext /\ UNCHANGED <<part, phVars, upVars, amVars, maVars>>
Mirror    == part = "mirror"  /\ AmNext /\ UNCHANGED <<part, phVars, upVars, emVars, maVars>>
Mcp       == part = "mcp"     /\ MaNext /\ UNCHANGED <<part, phVars, upVars, emVars, amVars>>

Next == Phoenix \/ Fireproof \/ Ember \/ Mirror \/ Mcp

\* UpFairness, for the part that is explored.
Fairness == WF_upVars(part = "update" /\ WorkerNextStep)

Spec == Init /\ [][Next]_vars /\ Fairness

TypeOK == PhTypeOK /\ UpTypeOK /\ EmTypeOK /\ AmTypeOK /\ MaTypeOK
=============================================================================
