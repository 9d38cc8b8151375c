-------------------------- MODULE CheckpointEngine --------------------------
(***************************************************************************)
(* The checkpoint engine of the Fireline MCP server: snapshot, undo, prune *)
(* and recover, as steps of processes that may die after each of them,     *)
(* while a person edits the workspace.  One file-system operation that     *)
(* others can see is one action.                                           *)
(*                                                                         *)
(* A tree stands for all the files of a directory: 0 is the first, and     *)
(* every edit makes a new one.  NoTree: the directory does not exist.      *)
(*                                                                         *)
(* Labels starting with s_ are _snapshot, u_ are _undo, r_ are recover.    *)
(***************************************************************************)
EXTENDS Naturals, FiniteSets

CONSTANTS
    Workspaces,
    Procs,          \* Mission Control, Firebreak, the MCP server, the CLI
    NameExtends,    \* <<v, w>>: w's name is v's, a dot and something more
    EditDuring,     \* when people edit besides while all is quiet: in an
                    \* "operation", between a crash and recover: "unfinished"
    Keep,           \* CKPT_KEEP, 12 unless configured
    Floor,          \* CKPT_KEEP_FLOOR, which is 2
    NoTree,         \* no directory of that name
    MaxSnapshots,   \* bound: checkpoints ever taken of a workspace
    MaxEdits,       \* bound: edits
    MaxCrashes      \* bound: processes that die

ASSUME CheckpointAssumption ==
    /\ Workspaces # {}
    /\ NameExtends \subseteq Workspaces \X Workspaces
    /\ \A w \in Workspaces : <<w, w>> \notin NameExtends
    /\ EditDuring \subseteq {"operation", "unfinished"}
    /\ Floor \in Nat \ {0, 1} /\ Keep \in Nat /\ Keep >= Floor
    /\ NoTree \notin Nat
    /\ MaxSnapshots \in Nat /\ MaxEdits \in Nat /\ MaxCrashes \in Nat

Tree == 0 .. MaxEdits

(* A checkpoint: its metadata file, its manifest, its archive.             *)
Checkpoint == [id : 1 .. MaxSnapshots, manifest : Tree, archive : Tree]

(* One that is being taken may not have its archive yet.                   *)
Taking == [id : 0 .. MaxSnapshots, manifest : Tree \cup {NoTree},
           archive : Tree \cup {NoTree}]

NoCheckpoint == [id |-> 0, manifest |-> NoTree, archive |-> NoTree]

VARIABLES
    (* on disk, of each workspace *)
    tree,           \* the directory of the workspace's name
    stage,          \* .sf-restore-<name>.<checkpoint>.<pid>
    displaced,      \* .sf-restore-<name>.displaced.<pid>
    store,          \* the checkpoints that have a metadata file
    journal,        \* undo.journal: {} or {<<target's id, safety's id>>}
    entries,        \* undo.entries.json: {} or {the tree it describes}
    holder,         \* flock on the store's lock file
    taken,          \* checkpoints ever taken; the next id is one more
    (* of each process *)
    pc, op, at,
    target,         \* undo: the checkpoint it restores
    snap,           \* the checkpoint it is taking, or last took
    (* bounds *)
    edits, crashes

treeVars == <<tree, stage, displaced>>
storeVars == <<store, taken>>
undoVars == <<journal, entries>>
diskVars == <<treeVars, storeVars, undoVars>>
localVars == <<op, at, target, snap>>
boundVars == <<edits, crashes>>
vars == <<diskVars, holder, pc, localVars, boundVars>>

Ops == {"none", "snapshot", "undo", "prune", "recover"}

SnapshotLabels == {"s_scan", "s_archive", "s_publish", "prune"}

UndoLabels == {"u_stage", "u_check", "u_entries", "u_journal", "u_swap",
               "u_second", "u_verify", "u_sweep"}

RecoverLabels == {"r_place", "r_verify", "r_sweep"}

ClearLabels == {"clear_entries", "clear_journal"}

AnyWorkspace == CHOOSE w \in Workspaces : TRUE

Settled(w) == journal[w] = {}

Ids(w) == {c.id : c \in store[w]}

Busy(p) == pc[p] # "idle"

-----------------------------------------------------------------------------
Goto(p, label) == pc' = [pc EXCEPT ![p] = label]

(* One more step of the same operation.                                    *)
Step(p, label) ==
    /\ Goto(p, label)
    /\ UNCHANGED <<holder, localVars, boundVars>>

Forget(p) ==
    /\ op' = [op EXCEPT ![p] = "none"]
    /\ target' = [target EXCEPT ![p] = NoCheckpoint]
    /\ snap' = [snap EXCEPT ![p] = NoCheckpoint]
    /\ at' = [at EXCEPT ![p] = AnyWorkspace]

Release(p) == holder' = [holder EXCEPT ![at[p]] = @ \ {p}]

(* The operation returns or raises; the lock goes with it.                 *)
Leave(p) ==
    /\ Goto(p, "idle")
    /\ Release(p)
    /\ Forget(p)
    /\ UNCHANGED boundVars

(* A process that does not get the lock within two minutes changes      *)
(* nothing, so a refused attempt is no step here.                          *)
LockFree(w) == holder[w] = {}

(* with _CkptLock(store)                                                   *)
Enter(p, w, operation, label) ==
    /\ pc[p] = "idle"
    /\ LockFree(w)
    /\ holder' = [holder EXCEPT ![w] = @ \cup {p}]
    /\ op' = [op EXCEPT ![p] = operation]
    /\ at' = [at EXCEPT ![p] = w]
    /\ Goto(p, label)
    /\ UNCHANGED <<snap, boundVars>>

DebrisClaimed(p, w) ==  \* variant: the journal is not asked
    {x \in Workspaces :
        /\ x = w \/ <<w, x>> \in NameExtends
        /\ ~(x = at[p] /\ op[p] = "undo" /\ pc[p] = "s_scan")}

(***************************************************************************)
(* _ckpt_reap: a restore directory is debris when this store's journal     *)
(* does not claim it.  The pid in its name spares the one this process     *)
(* holds.  What is looked for is the name's beginning, so directories of   *)
(* a workspace whose name only begins like this one match as well.         *)
(***************************************************************************)
Debris(p, w) ==
    {x \in Workspaces :
        /\ Settled(w)
        /\ x = w \/ <<w, x>> \in NameExtends
        /\ ~(x = at[p] /\ op[p] = "undo" /\ pc[p] = "s_scan")}

Without(dirs, gone) ==
    [w \in Workspaces |-> IF w \in gone THEN NoTree ELSE dirs[w]]

Reap(p, w) ==
    /\ stage' = Without(stage, Debris(p, w))
    /\ displaced' = Without(displaced, Debris(p, w))
    /\ UNCHANGED tree

-----------------------------------------------------------------------------
Init ==
    /\ tree = [w \in Workspaces |-> 0]
    /\ stage = [w \in Workspaces |-> NoTree]
    /\ displaced = [w \in Workspaces |-> NoTree]
    /\ store = [w \in Workspaces |-> {}]
    /\ journal = [w \in Workspaces |-> {}]
    /\ entries = [w \in Workspaces |-> {}]
    /\ holder = [w \in Workspaces |-> {}]
    /\ taken = [w \in Workspaces |-> 0]
    /\ pc = [p \in Procs |-> "idle"]
    /\ op = [p \in Procs |-> "none"]
    /\ at = [p \in Procs |-> AnyWorkspace]
    /\ target = [p \in Procs |-> NoCheckpoint]
    /\ snap = [p \in Procs |-> NoCheckpoint]
    /\ edits = 0
    /\ crashes = 0

-----------------------------------------------------------------------------
(* A person, or a program they run, changes files.  They need a directory  *)
(* to change them in; EditDuring says when they keep away.                 *)
UserEdit(w) ==
    /\ edits < MaxEdits
    /\ tree[w] # NoTree
    /\ holder[w] # {} => "operation" \in EditDuring
    /\ holder[w] = {} /\ ~Settled(w) => "unfinished" \in EditDuring
    /\ edits' = edits + 1
    /\ tree' = [tree EXCEPT ![w] = edits + 1]
    /\ UNCHANGED <<stage, displaced, storeVars, undoVars, holder, pc,
                   localVars, crashes>>

(* SIGKILL, power loss: no finally, no cleanup; the kernel drops the lock. *)
Crash(p) ==
    /\ crashes < MaxCrashes
    /\ Busy(p)
    /\ crashes' = crashes + 1
    /\ Goto(p, "idle")
    /\ Release(p)
    /\ Forget(p)
    /\ UNCHANGED <<diskVars, edits>>

FailSweeps(p) ==  \* variant: the staging directory goes in any case
    /\ Busy(p)
    /\ stage' = [stage EXCEPT ![at[p]] = NoTree]
    /\ Leave(p)
    /\ UNCHANGED <<tree, displaced, storeVars, undoVars>>

(* A full disk, a permission, Ctrl-C: undo's finally removes its staging   *)
(* directory while no journal claims it.                                   *)
Fail(p) ==
    /\ Busy(p)
    /\ stage' = IF op[p] = "undo" /\ Settled(at[p])
                THEN [stage EXCEPT ![at[p]] = NoTree]
                ELSE stage
    /\ Leave(p)
    /\ UNCHANGED <<tree, displaced, storeVars, undoVars>>

-----------------------------------------------------------------------------
(* snapshot(), and _snapshot() as the safety snapshot of an undo           *)

SnapshotUnsettled(p, w) ==  \* variant: a half-finished undo is no obstacle
    /\ Enter(p, w, "snapshot", "s_scan")
    /\ UNCHANGED <<diskVars, target>>

Snapshot(p, w) ==
    /\ Settled(w)
    /\ tree[w] # NoTree
    /\ Enter(p, w, "snapshot", "s_scan")
    /\ UNCHANGED <<diskVars, target>>

(* Reap, then the manifest: every path, mode, target and digest.           *)
SnapshotScan(p) ==
    LET w == at[p] IN
    /\ pc[p] = "s_scan"
    /\ taken[w] < MaxSnapshots
    /\ tree[w] # NoTree
    /\ Reap(p, w)
    /\ snap' = [snap EXCEPT ![p] = [id |-> taken[w] + 1, manifest |-> tree[w],
                                    archive |-> NoTree]]
    /\ Goto(p, "s_archive")
    /\ UNCHANGED <<storeVars, undoVars, holder, op, at, target, boundVars>>

(* A Btrfs snapshot or an archive of the tree as it is now; or a link to   *)
(* the archive of a checkpoint with the same manifest.                     *)
SnapshotArchive(p) ==
    LET w == at[p]
        twins == {c \in store[w] : c.manifest = snap[p].manifest}
    IN
    /\ pc[p] = "s_archive"
    /\ \E t \in {tree[w]} \cup {c.archive : c \in twins} :
        snap' = [snap EXCEPT ![p].archive = t]
    /\ Goto(p, "s_publish")
    /\ UNCHANGED <<diskVars, holder, op, at, target, boundVars>>

(* The metadata file is written last and makes the checkpoint exist.       *)
SnapshotPublish(p) ==
    LET w == at[p] IN
    /\ pc[p] = "s_publish"
    /\ store' = [store EXCEPT ![w] = @ \cup {snap[p]}]
    /\ taken' = [taken EXCEPT ![w] = snap[p].id]
    /\ Step(p, "prune")
    /\ UNCHANGED <<treeVars, undoVars>>

-----------------------------------------------------------------------------
(* Retention                                                               *)

ProtectedNewest(p) == {snap[p]}  \* variant: only what was just taken

Protected(p) ==
    CASE op[p] = "snapshot" -> {snap[p]}
      [] op[p] = "undo" -> {snap[p], target[p]}
      [] OTHER -> {c \in store[at[p]] : \A d \in store[at[p]] : d.id <= c.id}

Removable(p) == store[at[p]] \ Protected(p)

(* One _ckpt_drop: the oldest goes while there are more than Keep, and the *)
(* byte budget may ask for more of them down to the floor.                 *)
PruneDrop(p) ==
    LET w == at[p] IN
    /\ pc[p] = "prune"
    /\ Cardinality(store[w]) > Floor
    /\ \E c \in Removable(p) :
        /\ \A d \in Removable(p) : c.id <= d.id
        /\ store' = [store EXCEPT ![w] = @ \ {c}]
    /\ UNCHANGED <<treeVars, taken, undoVars, holder, pc, localVars, boundVars>>

PruneDone(p) ==
    /\ pc[p] = "prune"
    /\ Cardinality(store[at[p]]) <= Keep \/ Removable(p) = {}
    /\ IF op[p] = "undo" THEN Step(p, "u_entries") ELSE Leave(p)
    /\ UNCHANGED diskVars

(* prune() asks for no settled workspace.                                  *)
Prune(p, w) ==
    /\ tree[w] # NoTree
    /\ Enter(p, w, "prune", "prune")
    /\ Reap(p, w)
    /\ UNCHANGED <<storeVars, undoVars, target>>

-----------------------------------------------------------------------------
(* undo()                                                                  *)

Undo(p, w) ==
    /\ Settled(w)
    /\ tree[w] # NoTree
    /\ \E c \in store[w] : target' = [target EXCEPT ![p] = c]
    /\ Enter(p, w, "undo", "u_stage")
    /\ Reap(p, w)
    /\ UNCHANGED <<storeVars, undoVars>>

(* _ckpt_materialize, in a sibling of the workspace                        *)
UndoStage(p) ==
    /\ pc[p] = "u_stage"
    /\ stage' = [stage EXCEPT ![at[p]] = target[p].archive]
    /\ Step(p, "u_check")
    /\ UNCHANGED <<tree, displaced, storeVars, undoVars>>

UndoCheckNoSafety(p) ==  \* variant: the workspace itself is not saved
    /\ pc[p] = "u_check"
    /\ stage[at[p]] = target[p].manifest
    /\ Step(p, "u_entries")
    /\ UNCHANGED diskVars

UndoCheckNothing(p) ==  \* variant: what was staged is not verified
    /\ pc[p] = "u_check"
    /\ Step(p, "s_scan")
    /\ UNCHANGED diskVars

(* The staged tree is verified against the manifest; then the safety       *)
(* snapshot of the workspace is taken.                                     *)
UndoCheck(p) ==
    /\ pc[p] = "u_check"
    /\ stage[at[p]] = target[p].manifest
    /\ Step(p, "s_scan")
    /\ UNCHANGED diskVars

UndoEntries(p) ==
    /\ pc[p] = "u_entries"
    /\ entries' = [entries EXCEPT ![at[p]] = {target[p].manifest}]
    /\ Step(p, "u_journal")
    /\ UNCHANGED <<treeVars, storeVars, journal>>

UndoJournal(p) ==
    /\ pc[p] = "u_journal"
    /\ journal' = [journal EXCEPT ![at[p]] = {<<target[p].id, snap[p].id>>}]
    /\ Step(p, "u_swap")
    /\ UNCHANGED <<treeVars, storeVars, entries>>

(* RENAME_EXCHANGE, and the journal's second write, which tells recover    *)
(* nothing it does not see on the disk.                                    *)
UndoExchange(p) ==
    LET w == at[p] IN
    /\ pc[p] = "u_swap"
    /\ stage[w] # NoTree
    /\ tree' = [tree EXCEPT ![w] = stage[w]]
    /\ stage' = [stage EXCEPT ![w] = tree[w]]
    /\ Step(p, "u_verify")
    /\ UNCHANGED <<displaced, storeVars, undoVars>>

(* Where the kernel or the file system does not know that: the journal     *)
(* names both places, and the workspace has no directory between the first *)
(* rename and the second.                                                  *)
UndoMoveAway(p) ==
    LET w == at[p] IN
    /\ pc[p] = "u_swap"
    /\ tree' = [tree EXCEPT ![w] = NoTree]
    /\ displaced' = [displaced EXCEPT ![w] = tree[w]]
    /\ Step(p, "u_second")
    /\ UNCHANGED <<stage, storeVars, undoVars>>

UndoMoveIn(p) ==
    LET w == at[p] IN
    /\ pc[p] = "u_second"
    /\ stage[w] # NoTree
    /\ tree' = [tree EXCEPT ![w] = stage[w]]
    /\ stage' = [stage EXCEPT ![w] = NoTree]
    /\ Step(p, "u_verify")
    /\ UNCHANGED <<displaced, storeVars, undoVars>>

(* Anything else found in place raises RECOVERY REQUIRED (Fail).           *)
UndoVerify(p) ==
    /\ pc[p] = "u_verify"
    /\ tree[at[p]] = target[p].manifest
    /\ Step(p, "u_sweep")
    /\ UNCHANGED diskVars

(* Only now the previous contents are deleted.                             *)
UndoSweep(p) ==
    LET w == at[p] IN
    /\ pc[p] = "u_sweep"
    /\ stage' = [stage EXCEPT ![w] = NoTree]
    /\ displaced' = [displaced EXCEPT ![w] = NoTree]
    /\ Step(p, "clear_entries")
    /\ UNCHANGED <<tree, storeVars, undoVars>>

(* _ckpt_journal_clear, of undo and of recover                             *)
ClearEntries(p) ==
    /\ pc[p] = "clear_entries"
    /\ entries' = [entries EXCEPT ![at[p]] = {}]
    /\ Step(p, "clear_journal")
    /\ UNCHANGED <<treeVars, storeVars, journal>>

ClearJournal(p) ==
    /\ pc[p] = "clear_journal"
    /\ journal' = [journal EXCEPT ![at[p]] = {}]
    /\ Leave(p)
    /\ UNCHANGED <<treeVars, storeVars, entries>>

-----------------------------------------------------------------------------
(* recover()                                                               *)

(* No journal: there is nothing to repair, but staging to collect.         *)
RecoverNothing(p, w) ==
    /\ pc[p] = "idle"
    /\ LockFree(w)
    /\ Settled(w)
    /\ Reap(p, w)
    /\ UNCHANGED <<storeVars, undoVars, holder, pc, localVars, boundVars>>

(* A journal without entries is refused and left as it is.                 *)
Recover(p, w) ==
    /\ ~Settled(w)
    /\ entries[w] # {}
    /\ Enter(p, w, "recover", "r_place")
    /\ UNCHANGED <<diskVars, target>>

(* If the workspace has no directory, whichever tree is there becomes it;  *)
(* the staged one comes first.                                             *)
RecoverPlace(p) ==
    LET w == at[p] IN
    /\ pc[p] = "r_place"
    /\ \/ /\ tree[w] # NoTree
          /\ UNCHANGED treeVars
          /\ Step(p, "r_verify")
       \/ /\ tree[w] = NoTree /\ stage[w] # NoTree
          /\ tree' = [tree EXCEPT ![w] = stage[w]]
          /\ stage' = [stage EXCEPT ![w] = NoTree]
          /\ UNCHANGED displaced
          /\ Step(p, "r_verify")
       \/ /\ tree[w] = NoTree /\ stage[w] = NoTree /\ displaced[w] # NoTree
          /\ tree' = [tree EXCEPT ![w] = displaced[w]]
          /\ displaced' = [displaced EXCEPT ![w] = NoTree]
          /\ UNCHANGED stage
          /\ Step(p, "r_verify")
       \/ /\ tree[w] = NoTree /\ stage[w] = NoTree /\ displaced[w] = NoTree
          /\ UNCHANGED treeVars
          /\ Leave(p)
    /\ UNCHANGED <<storeVars, undoVars>>

(* The workspace is compared with the entries.  "completed" when it is the *)
(* checkpoint's tree, otherwise "rolled-back"; from here on both do the    *)
(* same.                                                                   *)
RolledBackSwapped(w) == entries[w] = {tree[w]}  \* variant: the wrong branch

RolledBack(w) == entries[w] # {tree[w]}

RecoverVerify(p) ==
    /\ pc[p] = "r_verify"
    /\ Step(p, "r_sweep")
    /\ UNCHANGED diskVars

(* The stage goes first, then the displaced tree.                          *)
RecoverSweep(p) ==
    LET w == at[p] IN
    /\ pc[p] = "r_sweep"
    /\ IF stage[w] # NoTree
       THEN /\ stage' = [stage EXCEPT ![w] = NoTree]
            /\ UNCHANGED <<displaced, pc>>
       ELSE /\ displaced' = [displaced EXCEPT ![w] = NoTree]
            /\ Goto(p, "clear_entries")
            /\ UNCHANGED stage
    /\ UNCHANGED <<tree, storeVars, undoVars, holder, localVars, boundVars>>

-----------------------------------------------------------------------------
Continue(p) ==
    \/ SnapshotScan(p) \/ SnapshotArchive(p) \/ SnapshotPublish(p)
    \/ PruneDrop(p) \/ PruneDone(p)
    \/ UndoStage(p) \/ UndoCheck(p) \/ UndoEntries(p) \/ UndoJournal(p)
    \/ UndoExchange(p) \/ UndoMoveAway(p) \/ UndoMoveIn(p)
    \/ UndoVerify(p) \/ UndoSweep(p)
    \/ ClearEntries(p) \/ ClearJournal(p)
    \/ RecoverPlace(p) \/ RecoverVerify(p) \/ RecoverSweep(p)

Call(p, w) ==
    \/ Snapshot(p, w) \/ Undo(p, w) \/ Prune(p, w)
    \/ RecoverNothing(p, w) \/ Recover(p, w)

Next ==
    \/ \E p \in Procs : Continue(p) \/ Fail(p) \/ Crash(p)
    \/ \E p \in Procs, w \in Workspaces : Call(p, w)
    \/ \E w \in Workspaces : UserEdit(w)

Spec == Init /\ [][Next]_vars

-----------------------------------------------------------------------------
(* Every directory, file, lock and local holds a value of its kind.        *)
TypeOK ==
    /\ tree \in [Workspaces -> Tree \cup {NoTree}]
    /\ stage \in [Workspaces -> Tree \cup {NoTree}]
    /\ displaced \in [Workspaces -> Tree \cup {NoTree}]
    /\ store \in [Workspaces -> SUBSET Checkpoint]
    /\ journal \in [Workspaces -> SUBSET (Nat \X Nat)]
    /\ entries \in [Workspaces -> SUBSET Tree]
    /\ holder \in [Workspaces -> SUBSET Procs]
    /\ taken \in [Workspaces -> 0 .. MaxSnapshots]
    /\ pc \in [Procs -> {"idle"} \cup SnapshotLabels \cup UndoLabels
                        \cup RecoverLabels \cup ClearLabels]
    /\ op \in [Procs -> Ops]
    /\ at \in [Procs -> Workspaces]
    /\ target \in [Procs -> Checkpoint \cup {NoCheckpoint}]
    /\ snap \in [Procs -> Taking]
    /\ edits \in 0 .. MaxEdits
    /\ crashes \in 0 .. MaxCrashes

(***************************************************************************)
(* The abstract restore: the workspace is what has its name or, while      *)
(* nothing has, the tree that recover would give it.                       *)
(***************************************************************************)
Restore ==
    INSTANCE WorkspaceRestore WITH
        files <- [w \in Workspaces |->
                    IF tree[w] # NoTree THEN tree[w] ELSE stage[w]],
        saved <- [w \in Workspaces |-> {c.archive : c \in store[w]}]

(* Undo, interrupted wherever it may be and recovered or not, is one step. *)
ImplementsRestore == Restore!Spec

(***************************************************************************)
(* "Undo can itself be undone": while an undo goes on, retention drops     *)
(* neither the checkpoint that it restores nor its safety snapshot.        *)
(***************************************************************************)
UndoKeepsItsCheckpoints ==
    \A p \in Procs :
        op[p] = "undo" /\ pc[p] \in UndoLabels \ {"u_stage", "u_check"} =>
            {target[p], snap[p]} \subseteq store[at[p]]

(* The journal's safety snapshot outlives a crash, whoever prunes then.    *)
SafetyOutlivesCrash ==
    \A w \in Workspaces : \A record \in journal[w] : record[2] \in Ids(w)

(***************************************************************************)
(* An operation only ever records or changes a workspace with no           *)
(* unfinished undo of another process: no checkpoint is taken of a         *)
(* workspace somewhere in the middle of a restore.                         *)
(***************************************************************************)
SettledOnlyStep == \A w \in Workspaces : taken'[w] # taken[w] => Settled(w)

SnapshotOfSettledOnly == [][SettledOnlyStep]_vars

(***************************************************************************)
(* Whatever happens to the archive or the staging directory, a workspace   *)
(* is only ever replaced by the tree that the checkpoint's manifest        *)
(* describes, or gets its own tree back.                                   *)
(***************************************************************************)
RecordedStep ==
    \A w \in Workspaces :
        tree'[w] \notin {tree[w], NoTree} /\ edits' = edits =>
            \/ entries[w] = {tree'[w]}
            \/ displaced[w] = tree'[w]

RestoresWhatWasRecorded == [][RecordedStep]_vars

(***************************************************************************)
(* A tree that is deleted is in a checkpoint, or is the copy of one that   *)
(* an undo made: nobody's work is gone.                                    *)
(***************************************************************************)
DeletedIsSaved ==
    [][\A w \in Workspaces :
        LET present == {tree[w], stage[w], displaced[w]} \ {NoTree}
            left == {tree'[w], stage'[w], displaced'[w]}
        IN  edits' = edits =>
                present \ left \subseteq
                    {c.archive : c \in store[w]} \cup entries[w]]_vars

(***************************************************************************)
(* What recover says is so, or somebody has edited the workspace since.    *)
(* "rolled-back: the workspace is as it was before it was attempted": the  *)
(* trees that it then deletes are only copies of the checkpoint, not the   *)
(* workspace's previous contents.  Of a workspace that was restored,       *)
(* interrupted and edited it says the same, and deletes the previous       *)
(* contents: then the safety snapshot that the journal names holds them.   *)
(***************************************************************************)
EditedSince(w) == tree[w] \notin entries[w] \cup {c.archive : c \in store[w]}

SaidAndSo(w) ==
    LET deleted == {stage[w], displaced[w]} \ {NoTree} IN
    \/ deleted \subseteq entries[w]
    \/ /\ EditedSince(w)
       /\ \A record \in journal[w] : \E c \in store[w] :
            c.id = record[2] /\ deleted \subseteq entries[w] \cup {c.archive}

RolledBackIsTrue ==
    \A p \in Procs :
        pc[p] = "r_verify" /\ RolledBack(at[p]) => SaidAndSo(at[p])

(***************************************************************************)
(* "A restore directory is left alone while a journal claims it": only the *)
(* undo or the recovery that the journal is for takes it away -- or a reap *)
(* of the workspace that the name extends, once that one is settled, which *)
(* asks its own journal only.                                              *)
(***************************************************************************)
TakenAway(w) ==
    \/ stage[w] # NoTree /\ stage'[w] = NoTree
    \/ displaced[w] # NoTree /\ displaced'[w] = NoTree

ByItsOwn(w) ==
    \E p \in holder[w] : pc[p] \in {"u_second", "u_sweep", "r_place", "r_sweep"}

ByNeighbour(w) ==
    \E v \in Workspaces :
        /\ <<v, w>> \in NameExtends
        /\ Settled(v)
        /\ \A p \in holder[v] : pc[p] = "s_scan"

ClaimedIsLeftAlone ==
    [][\A w \in Workspaces :
        ~Settled(w) /\ TakenAway(w) => ByItsOwn(w) \/ ByNeighbour(w)]_vars

=============================================================================
