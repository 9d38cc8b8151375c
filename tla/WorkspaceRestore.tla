-------------------------- MODULE WorkspaceRestore --------------------------
(***************************************************************************)
(* What the checkpoint engine promises about a workspace, with its store,  *)
(* staging directories, journal and crashes left out: a workspace changes  *)
(* by somebody's edit or, all of it in one step, into a tree that a        *)
(* checkpoint holds -- and only after the tree that this takes away has    *)
(* been put into a checkpoint too, so that an undo can itself be undone.   *)
(* CheckpointEngine is checked to implement this module.                   *)
(***************************************************************************)
EXTENDS Naturals

CONSTANT Workspaces

VARIABLES
    files,          \* the tree of each workspace: 0 at first, k after edit k
    saved,          \* the trees that its checkpoints can restore
    edits           \* how many edits there were, so that each is a new tree

restoreVars == <<files, saved, edits>>

Init ==
    /\ files = [w \in Workspaces |-> 0]
    /\ saved = [w \in Workspaces |-> {}]
    /\ edits = 0

Edit(w) ==
    /\ edits' = edits + 1
    /\ files' = [files EXCEPT ![w] = edits + 1]
    /\ UNCHANGED saved

(* A checkpoint is taken of the tree as it is.                             *)
Save(w) ==
    /\ saved' = [saved EXCEPT ![w] = @ \cup {files[w]}]
    /\ UNCHANGED <<files, edits>>

(* Retention drops checkpoints.                                            *)
Drop(w) ==
    /\ \E rest \in SUBSET saved[w] : saved' = [saved EXCEPT ![w] = rest]
    /\ UNCHANGED <<files, edits>>

Restore(w) ==
    /\ files[w] \in saved[w]
    /\ \E t \in saved[w] : files' = [files EXCEPT ![w] = t]
    /\ UNCHANGED <<saved, edits>>

Next == \E w \in Workspaces : Edit(w) \/ Save(w) \/ Drop(w) \/ Restore(w)

Spec == Init /\ [][Next]_restoreVars
=============================================================================
