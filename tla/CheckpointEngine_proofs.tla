----------------------- MODULE CheckpointEngine_proofs -----------------------
(***************************************************************************)
(* Proofs about the checkpoint engine, for any number of workspaces,       *)
(* processes, checkpoints, edits and crashes, with and without             *)
(* RENAME_EXCHANGE.                                                        *)
(*                                                                         *)
(* The first part holds whenever people edit and whatever the names of the *)
(* workspaces.  Its inductive invariant is IInv.  A process inside an      *)
(* operation is the only one that has the store's lock (LockHeld), so what *)
(* it has read or written there stays as it was; SettledBefore says that   *)
(* of the journal, Present of the workspace's directory, TargetKept and    *)
(* SafetyKept of the checkpoints it needs.  What outlives its crash is     *)
(* JournalNamesNewest and GoneIsStaged.                                    *)
(*                                                                         *)
(* The second part is about workspaces in which nobody edits while an      *)
(* operation is at work, "operation" \notin EditDuring; between a crash    *)
(* and recover they may.  It adds QuietInv: where an undo may stop, and    *)
(* that whatever lies beside the workspace is in a checkpoint or a copy of *)
(* one, whatever has been edited since.                                    *)
(*                                                                         *)
(* The last part needs that no workspace's name is another's, a dot and    *)
(* more, NameExtends = {}: then an undo, interrupted or not, is one step   *)
(* of WorkspaceRestore.                                                    *)
(***************************************************************************)
EXTENDS CheckpointEngine, TLAPS

USE CheckpointAssumption DEF Tree, Goto, Step, Forget, Release, Leave,
    LockFree, Enter, Busy, Settled, Ids, Ops, SnapshotLabels, UndoLabels,
    RecoverLabels, ClearLabels,
    localVars, boundVars, treeVars, storeVars, undoVars, diskVars

(* A process in an operation has the lock of its workspace, alone.         *)
LockHeld ==
    /\ \A p \in Procs : Busy(p) => holder[at[p]] = {p}
    /\ \A w \in Workspaces : \A p \in holder[w] : Busy(p) /\ at[p] = w

(* Which operation a label belongs to.                                     *)
LabelOfOp ==
    \A p \in Procs :
        /\ pc[p] \in {"s_scan", "s_archive", "s_publish"} =>
            op[p] \in {"snapshot", "undo"}
        /\ pc[p] = "prune" => op[p] \in {"snapshot", "undo", "prune"}
        /\ pc[p] \in UndoLabels => op[p] = "undo"
        /\ pc[p] \in RecoverLabels => op[p] = "recover"
        /\ pc[p] \in ClearLabels => op[p] \in {"undo", "recover"}
        /\ pc[p] = "idle" => op[p] = "none"

(* Before the journal is written there is none.                            *)
BeforeJournal(p) ==
    \/ pc[p] \in {"s_scan", "s_archive", "s_publish", "u_stage", "u_check",
                  "u_entries", "u_journal"}
    \/ pc[p] = "prune" /\ op[p] # "prune"

SettledBefore == \A p \in Procs : BeforeJournal(p) => Settled(at[p])

(* The workspace has a directory, except in the two-rename window.         *)
Present ==
    \A p \in Procs :
        Busy(p) /\ pc[p] \notin {"u_second", "r_place"} => tree[at[p]] # NoTree

(* An id is given to one checkpoint after the other.                       *)
IdsTaken ==
    /\ \A w \in Workspaces : \A c \in store[w] : c.id <= taken[w]
    /\ \A p \in Procs : pc[p] \in {"s_archive", "s_publish"} =>
        /\ snap[p].id = taken[at[p]] + 1
        /\ snap[p].manifest \in Tree
    /\ \A p \in Procs : pc[p] = "s_publish" => snap[p].archive \in Tree

(* An undo's checkpoints are in the store, its safety snapshot the newest. *)
TargetKept == \A p \in Procs : op[p] = "undo" => target[p] \in store[at[p]]

SafetyKept ==
    \A p \in Procs :
        \/ pc[p] \in UndoLabels \ {"u_stage", "u_check"}
        \/ pc[p] = "prune" /\ op[p] # "prune"
        => /\ snap[p] \in store[at[p]]
           /\ \A c \in store[at[p]] : c.id <= snap[p].id

(* So is the one an unfinished undo left behind.                           *)
JournalNamesNewest ==
    \A w \in Workspaces : \A record \in journal[w] :
        /\ record[2] \in Ids(w)
        /\ \A c \in store[w] : c.id <= record[2]

(* What is staged is what the manifest describes.                          *)
StagedVerified ==
    \A p \in Procs :
        /\ op[p] = "undo" /\ pc[p] \in {"s_scan", "s_archive", "s_publish",
                "prune", "u_entries", "u_journal", "u_swap", "u_second"} =>
            stage[at[p]] \in {target[p].manifest, NoTree}
        /\ pc[p] \in {"u_journal", "u_swap", "u_second"} =>
            entries[at[p]] = {target[p].manifest}

(* A workspace with no directory gets the recorded tree or its own.        *)
GoneIsStaged ==
    \A w \in Workspaces :
        tree[w] = NoTree /\ stage[w] # NoTree => entries[w] = {stage[w]}

IInv ==
    /\ TypeOK /\ LockHeld /\ LabelOfOp /\ SettledBefore /\ Present
    /\ IdsTaken /\ TargetKept /\ SafetyKept /\ JournalNamesNewest
    /\ StagedVerified /\ GoneIsStaged

(* There is a workspace for a process that is nowhere to be put at.        *)
LEMMA AnyWorkspaceIsOne == AnyWorkspace \in Workspaces
BY DEF AnyWorkspace

(* Who takes a free lock has it alone.                                     *)
LEMMA EnterLocks ==
    ASSUME TypeOK, LockHeld, NEW p \in Procs, NEW w \in Workspaces,
           NEW operation, NEW label, label # "idle",
           Enter(p, w, operation, label)
    PROVE  LockHeld'
<1> USE DEF TypeOK, LockHeld
<1>1. /\ holder[w] = {}
      /\ holder' = [holder EXCEPT ![w] = {p}]
      /\ at' = [at EXCEPT ![p] = w]
      /\ pc' = [pc EXCEPT ![p] = label]
  OBVIOUS
<1>2. ASSUME NEW q \in Procs, Busy(q)' PROVE holder'[at'[q]] = {q}
  <2>1. CASE q = p
    BY <1>1, <2>1
  <2>2. CASE q # p
    <3>1. Busy(q) /\ at'[q] = at[q]
      BY <1>1, <1>2, <2>2
    <3>2. holder[at[q]] = {q} /\ at[q] \in Workspaces
      BY <3>1
    <3>3. at[q] # w
      BY <1>1, <3>2
    <3> QED
      BY <1>1, <3>1, <3>2, <3>3
  <2> QED
    BY <2>1, <2>2
<1>3. ASSUME NEW v \in Workspaces, NEW q \in holder'[v]
      PROVE  Busy(q)' /\ at'[q] = v
  <2>1. CASE v = w
    BY <1>1, <2>1
  <2>2. CASE v # w
    <3>1. q \in holder[v] /\ q \in Procs /\ Busy(q) /\ at[q] = v
      BY <1>1, <1>3, <2>2
    <3>2. q # p
      BY <1>1, <3>1
    <3> QED
      BY <1>1, <3>1, <3>2
  <2> QED
    BY <2>1, <2>2
<1> QED
  BY <1>2, <1>3

(* Who gives it back leaves it free; others keep theirs.                   *)
LEMMA ReleaseUnlocks ==
    ASSUME TypeOK, LockHeld, NEW p \in Procs, Busy(p), Goto(p, "idle"),
           Release(p), Forget(p)
    PROVE  LockHeld'
<1> USE DEF TypeOK, LockHeld
<1>1. ASSUME NEW q \in Procs, Busy(q)' PROVE holder'[at'[q]] = {q}
  <2>1. q # p /\ Busy(q) /\ at'[q] = at[q] /\ holder[at[q]] = {q}
    BY <1>1
  <2> QED
    BY <2>1
<1>2. ASSUME NEW v \in Workspaces, NEW q \in holder'[v]
      PROVE  Busy(q)' /\ at'[q] = v
  <2>1. q \in Procs /\ q \in holder[v] /\ q # p /\ Busy(q) /\ at[q] = v
    BY <1>2
  <2> QED
    BY <2>1
<1> QED
  BY <1>1, <1>2

(* Inside an operation nobody's lock changes.                              *)
LEMMA StepKeepsLock ==
    ASSUME TypeOK, LockHeld, NEW p \in Procs, NEW label, label # "idle",
           Busy(p), Goto(p, label), UNCHANGED <<holder, at>>
    PROVE  LockHeld'
BY DEF TypeOK, LockHeld

(* The lock is exclusive: every operation starts with it and ends without. *)
LEMMA LockHeldStep == TypeOK /\ LockHeld /\ [Next]_vars => LockHeld'
<1> SUFFICES ASSUME TypeOK, LockHeld, [Next]_vars PROVE LockHeld'
  OBVIOUS
<1>1. ASSUME NEW p \in Procs, Continue(p) PROVE LockHeld'
  <2>1. CASE \/ PruneDone(p) /\ op[p] # "undo"
             \/ ClearJournal(p)
             \/ RecoverPlace(p) /\ pc'[p] = "idle"
    BY <2>1, ReleaseUnlocks DEF PruneDone, ClearJournal, RecoverPlace, TypeOK
  <2>2. CASE UNCHANGED <<pc, holder, at>>
    BY <2>2 DEF LockHeld
  <2>3. CASE \E label : /\ label # "idle" /\ Busy(p) /\ Goto(p, label)
                        /\ UNCHANGED <<holder, at>>
    BY <2>3, StepKeepsLock
  <2>4. \/ PruneDone(p) /\ op[p] # "undo"
        \/ ClearJournal(p)
        \/ RecoverPlace(p) /\ pc'[p] = "idle"
        \/ UNCHANGED <<pc, holder, at>>
        \/ \E label : /\ label # "idle" /\ Busy(p) /\ Goto(p, label)
                      /\ UNCHANGED <<holder, at>>
    <3>1. CASE SnapshotScan(p) \/ SnapshotArchive(p) \/ SnapshotPublish(p)
      BY <3>1 DEF SnapshotScan, SnapshotArchive, SnapshotPublish
    <3>2. CASE PruneDrop(p) \/ PruneDone(p)
      BY <3>2 DEF PruneDrop, PruneDone
    <3>3. CASE UndoStage(p) \/ UndoCheck(p) \/ UndoEntries(p) \/ UndoJournal(p)
      BY <3>3 DEF UndoStage, UndoCheck, UndoEntries, UndoJournal
    <3>4. CASE UndoExchange(p) \/ UndoMoveAway(p) \/ UndoMoveIn(p)
      BY <3>4 DEF UndoExchange, UndoMoveAway, UndoMoveIn
    <3>5. CASE UndoVerify(p) \/ UndoSweep(p) \/ ClearEntries(p)
               \/ ClearJournal(p)
      BY <3>5 DEF UndoVerify, UndoSweep, ClearEntries
    <3>6. CASE RecoverVerify(p) \/ RecoverSweep(p)
      BY <3>6 DEF RecoverVerify, RecoverSweep
    <3>7. CASE RecoverPlace(p)
      BY <3>7 DEF RecoverPlace, TypeOK
    <3> QED
      BY <1>1, <3>1, <3>2, <3>3, <3>4, <3>5, <3>6, <3>7 DEF Continue
  <2> QED
    BY <2>1, <2>2, <2>3, <2>4
<1>2. ASSUME NEW p \in Procs, Fail(p) \/ Crash(p) PROVE LockHeld'
  BY <1>2, ReleaseUnlocks DEF Fail, Crash
<1>3. ASSUME NEW p \in Procs, NEW w \in Workspaces, Call(p, w)
      PROVE  LockHeld'
  <2>1. CASE RecoverNothing(p, w)
    BY <2>1 DEF RecoverNothing, LockHeld
  <2>2. CASE ~RecoverNothing(p, w)
    <3>1. CASE Snapshot(p, w)
      BY <3>1, EnterLocks DEF Snapshot
    <3>2. CASE Undo(p, w)
      BY <3>2, EnterLocks DEF Undo
    <3>3. CASE Prune(p, w)
      BY <3>3, EnterLocks DEF Prune
    <3>4. CASE Recover(p, w)
      BY <3>4, EnterLocks DEF Recover
    <3> QED
      BY <1>3, <2>2, <3>1, <3>2, <3>3, <3>4 DEF Call
  <2> QED
    BY <2>1, <2>2
<1>4. CASE (\E w \in Workspaces : UserEdit(w)) \/ UNCHANGED vars
  BY <1>4 DEF UserEdit, vars, LockHeld
<1> QED
  BY <1>1, <1>2, <1>3, <1>4 DEF Next

-----------------------------------------------------------------------------
(* What the lock means to the other processes.                             *)
LEMMA Alone ==
    ASSUME TypeOK, LockHeld, NEW p \in Procs, NEW q \in Procs,
           Busy(p), Busy(q), q # p
    PROVE  at[q] # at[p]
<1>1. holder[at[p]] = {p} /\ holder[at[q]] = {q}
  BY DEF LockHeld
<1> QED
  BY <1>1

(* Where the lock is free nobody is in an operation.                       *)
LEMMA NobodyElse ==
    ASSUME TypeOK, LockHeld, NEW w \in Workspaces, LockFree(w),
           NEW q \in Procs, Busy(q)
    PROVE  at[q] # w
<1>1. holder[w] = {} /\ holder[at[q]] = {q}
  BY DEF LockHeld
<1> QED
  BY <1>1

(* An operation only reaches the labels of its own code.                   *)
LEMMA LabelOfOpStep == TypeOK /\ LabelOfOp /\ [Next]_vars => LabelOfOp'
<1> SUFFICES ASSUME TypeOK, LabelOfOp, [Next]_vars PROVE LabelOfOp'
  OBVIOUS
<1> USE DEF TypeOK, LabelOfOp
<1>1. ASSUME NEW p \in Procs, Continue(p) PROVE LabelOfOp'
  <2>1. CASE SnapshotScan(p) \/ SnapshotArchive(p) \/ SnapshotPublish(p)
    BY <2>1 DEF SnapshotScan, SnapshotArchive, SnapshotPublish
  <2>2. CASE PruneDrop(p) \/ PruneDone(p)
    BY <2>2 DEF PruneDrop, PruneDone
  <2>3. CASE UndoStage(p) \/ UndoCheck(p) \/ UndoEntries(p) \/ UndoJournal(p)
    BY <2>3 DEF UndoStage, UndoCheck, UndoEntries, UndoJournal
  <2>4. CASE UndoExchange(p) \/ UndoMoveAway(p) \/ UndoMoveIn(p)
    BY <2>4 DEF UndoExchange, UndoMoveAway, UndoMoveIn
  <2>5. CASE UndoVerify(p) \/ UndoSweep(p) \/ ClearEntries(p)
             \/ ClearJournal(p)
    BY <2>5 DEF UndoVerify, UndoSweep, ClearEntries, ClearJournal
  <2>6. CASE RecoverPlace(p) \/ RecoverVerify(p) \/ RecoverSweep(p)
    BY <2>6 DEF RecoverPlace, RecoverVerify, RecoverSweep
  <2> QED
    BY <1>1, <2>1, <2>2, <2>3, <2>4, <2>5, <2>6 DEF Continue
<1>2. ASSUME NEW p \in Procs, Fail(p) \/ Crash(p) PROVE LabelOfOp'
  BY <1>2 DEF Fail, Crash
<1>3. ASSUME NEW p \in Procs, NEW w \in Workspaces, Call(p, w)
      PROVE  LabelOfOp'
  BY <1>3 DEF Call, Snapshot, Undo, Prune, RecoverNothing, Recover
<1>4. CASE (\E w \in Workspaces : UserEdit(w)) \/ UNCHANGED vars
  BY <1>4 DEF UserEdit, vars
<1> QED
  BY <1>1, <1>2, <1>3, <1>4 DEF Next

(* Only the process with the lock writes or removes a journal.             *)
LEMMA SettledBeforeStep ==
    TypeOK /\ LockHeld /\ LabelOfOp /\ SettledBefore /\ [Next]_vars
        => SettledBefore'
<1> SUFFICES ASSUME TypeOK, LockHeld, LabelOfOp, SettledBefore, [Next]_vars
             PROVE  SettledBefore'
  OBVIOUS
<1> USE DEF TypeOK, LabelOfOp, SettledBefore, BeforeJournal
<1>1. ASSUME NEW p \in Procs, Continue(p) PROVE SettledBefore'
  <2>1. CASE SnapshotScan(p) \/ SnapshotArchive(p) \/ SnapshotPublish(p)
    BY <2>1 DEF SnapshotScan, SnapshotArchive, SnapshotPublish
  <2>2. CASE PruneDrop(p) \/ PruneDone(p)
    BY <2>2 DEF PruneDrop, PruneDone
  <2>3. CASE UndoStage(p) \/ UndoCheck(p) \/ UndoEntries(p)
    BY <2>3 DEF UndoStage, UndoCheck, UndoEntries
  <2>4. CASE UndoJournal(p)
    BY <2>4, Alone DEF UndoJournal
  <2>5. CASE UndoExchange(p) \/ UndoMoveAway(p) \/ UndoMoveIn(p)
    BY <2>5, SMTT(30) DEF UndoExchange, UndoMoveAway, UndoMoveIn
  <2>6. CASE UndoVerify(p) \/ UndoSweep(p) \/ ClearEntries(p)
             \/ ClearJournal(p)
    BY <2>6 DEF UndoVerify, UndoSweep, ClearEntries, ClearJournal
  <2>7. CASE RecoverPlace(p) \/ RecoverVerify(p) \/ RecoverSweep(p)
    BY <2>7 DEF RecoverPlace, RecoverVerify, RecoverSweep
  <2> QED
    BY <1>1, <2>1, <2>2, <2>3, <2>4, <2>5, <2>6, <2>7 DEF Continue
<1>2. ASSUME NEW p \in Procs, Fail(p) \/ Crash(p) PROVE SettledBefore'
  BY <1>2, SMTT(30) DEF Fail, Crash
<1>3. ASSUME NEW p \in Procs, NEW w \in Workspaces, Call(p, w)
      PROVE  SettledBefore'
  BY <1>3 DEF Call, Snapshot, Undo, Prune, RecoverNothing, Recover
<1>4. CASE (\E w \in Workspaces : UserEdit(w)) \/ UNCHANGED vars
  BY <1>4 DEF UserEdit, vars
<1> QED
  BY <1>1, <1>2, <1>3, <1>4 DEF Next

(* What somebody does elsewhere takes no directory away here.              *)
LEMMA PresentStep ==
    TypeOK /\ LockHeld /\ LabelOfOp /\ Present /\ [Next]_vars => Present'
<1> SUFFICES ASSUME TypeOK, LockHeld, LabelOfOp, Present, [Next]_vars
             PROVE  Present'
  OBVIOUS
<1> USE DEF TypeOK, LabelOfOp, Present
<1>1. ASSUME NEW p \in Procs, Continue(p) PROVE Present'
  <2>1. CASE SnapshotScan(p) \/ SnapshotArchive(p) \/ SnapshotPublish(p)
    <3>1. CASE SnapshotScan(p)
      BY <3>1 DEF SnapshotScan, Reap
    <3>2. CASE SnapshotArchive(p)
      BY <3>2 DEF SnapshotArchive
    <3>3. CASE SnapshotPublish(p)
      BY <3>3 DEF SnapshotPublish
    <3> QED
      BY <2>1, <3>1, <3>2, <3>3
  <2>2. CASE PruneDrop(p) \/ PruneDone(p)
    BY <2>2 DEF PruneDrop, PruneDone
  <2>3. CASE UndoStage(p) \/ UndoCheck(p) \/ UndoEntries(p) \/ UndoJournal(p)
    <3>1. CASE UndoStage(p)
      BY <3>1 DEF UndoStage
    <3>2. CASE UndoCheck(p)
      BY <3>2 DEF UndoCheck
    <3>3. CASE UndoEntries(p)
      BY <3>3 DEF UndoEntries
    <3>4. CASE UndoJournal(p)
      BY <3>4 DEF UndoJournal
    <3> QED
      BY <2>3, <3>1, <3>2, <3>3, <3>4
  <2>4. CASE UndoExchange(p) \/ UndoMoveIn(p)
    <3>1. CASE UndoExchange(p)
      BY <3>1, Alone DEF UndoExchange
    <3>2. CASE UndoMoveIn(p)
      BY <3>2, Alone DEF UndoMoveIn
    <3> QED
      BY <2>4, <3>1, <3>2
  <2>5. CASE UndoMoveAway(p)
    BY <2>5, Alone DEF UndoMoveAway
  <2>6. CASE UndoVerify(p) \/ UndoSweep(p) \/ ClearEntries(p)
    BY <2>6 DEF UndoVerify, UndoSweep, ClearEntries
  <2>6b. CASE ClearJournal(p)
    BY <2>6b DEF ClearJournal
  <2>7. CASE RecoverPlace(p)
    <3>1. /\ pc[p] = "r_place"
          /\ \A q \in Procs \ {p} : pc'[q] = pc[q] /\ at'[q] = at[q]
          /\ \A w \in Workspaces : tree[w] # NoTree => tree'[w] # NoTree
          /\ pc'[p] # "idle" => at'[p] = at[p] /\ tree'[at[p]] # NoTree
      BY <2>7 DEF RecoverPlace
    <3> QED
      BY <3>1, <2>7 DEF RecoverPlace
  <2>8. CASE RecoverVerify(p) \/ RecoverSweep(p)
    BY <2>8 DEF RecoverVerify, RecoverSweep
  <2> QED
    BY <1>1, <2>1, <2>2, <2>3, <2>4, <2>5, <2>6, <2>6b, <2>7, <2>8 DEF Continue
<1>2. ASSUME NEW p \in Procs, Fail(p) \/ Crash(p) PROVE Present'
  BY <1>2 DEF Fail, Crash
<1>3. ASSUME NEW p \in Procs, NEW w \in Workspaces, Call(p, w)
      PROVE  Present'
  <2>1. CASE RecoverNothing(p, w)
    BY <2>1 DEF RecoverNothing, Reap
  <2>2. CASE Recover(p, w)
    BY <2>2 DEF Recover
  <2>3. CASE Snapshot(p, w)
    BY <2>3 DEF Snapshot
  <2>4. CASE Undo(p, w)
    BY <2>4 DEF Undo, Reap
  <2>5. CASE Prune(p, w)
    BY <2>5 DEF Prune, Reap
  <2> QED
    BY <1>3, <2>1, <2>2, <2>3, <2>4, <2>5 DEF Call
<1>4. CASE (\E w \in Workspaces : UserEdit(w)) \/ UNCHANGED vars
  BY <1>4 DEF UserEdit, vars
<1> QED
  BY <1>1, <1>2, <1>3, <1>4 DEF Next

-----------------------------------------------------------------------------
LocalsTyped ==
    /\ pc \in [Procs -> {"idle"} \cup SnapshotLabels \cup UndoLabels
                        \cup RecoverLabels \cup ClearLabels]
    /\ op \in [Procs -> Ops]
    /\ at \in [Procs -> Workspaces]
    /\ target \in [Procs -> Checkpoint \cup {NoCheckpoint}]
    /\ snap \in [Procs -> Taking]
    /\ holder \in [Workspaces -> SUBSET Procs]

(* What a returning operation forgets has a value of its kind.             *)
LEMMA LeaveTyped ==
    ASSUME TypeOK, NEW p \in Procs, Leave(p) PROVE LocalsTyped'
BY AnyWorkspaceIsOne DEF TypeOK, LocalsTyped, Checkpoint, Taking, NoCheckpoint

\* The archive is of the workspace's tree, or a twin's.
ArchivedAs(p) ==
    \E t : /\ t = tree[at[p]] \/ \E c \in store[at[p]] : t = c.archive
           /\ snap' = [snap EXCEPT ![p].archive = t]

(* That is what the step of the archive makes of it.                       *)
LEMMA ArchiveTaken ==
    ASSUME NEW p \in Procs, SnapshotArchive(p)
    PROVE  pc[p] = "s_archive" /\ ArchivedAs(p)
BY DEF SnapshotArchive, ArchivedAs

(* A checkpoint that is given its archive is still one being taken.        *)
LEMMA ArchiveTyped ==
    ASSUME snap \in [Procs -> Taking], NEW p \in Procs, NEW t \in Tree
    PROVE  [snap EXCEPT ![p].archive = t] \in [Procs -> Taking]
BY DEF Taking

(* A step keeps the types: only complete checkpoints are published.        *)
LEMMA TypeOKStep ==
    TypeOK /\ LabelOfOp /\ Present /\ IdsTaken /\ TargetKept /\ [Next]_vars
        => TypeOK'
<1> SUFFICES ASSUME TypeOK, LabelOfOp, Present, IdsTaken, TargetKept,
                    [Next]_vars
             PROVE  TypeOK'
  OBVIOUS
<1> USE AnyWorkspaceIsOne DEF TypeOK, Checkpoint, Taking, NoCheckpoint
<1>1. ASSUME NEW p \in Procs, Continue(p) PROVE TypeOK'
  <2>1. CASE SnapshotScan(p)
    BY <2>1 DEF SnapshotScan, Reap, Without
  <2>2. CASE SnapshotArchive(p)
    <3>0. pc[p] = "s_archive" /\ ArchivedAs(p)
      BY <2>2, ArchiveTaken
    <3>1. PICK t : /\ \/ t = tree[at[p]]
                      \/ \E c \in store[at[p]] : t = c.archive
                   /\ snap' = [snap EXCEPT ![p].archive = t]
      BY <3>0 DEF ArchivedAs
    <3>2. t \in Tree
      <4>1. tree[at[p]] \in Tree
        BY <3>0 DEF Present
      <4>2. \A c \in store[at[p]] : c.archive \in Tree
        OBVIOUS
      <4> QED
        BY <3>1, <4>1, <4>2
    <3>3. snap' \in [Procs -> Taking]
      BY <3>1, <3>2, ArchiveTyped
    <3> QED
      BY <2>2, <3>3 DEF SnapshotArchive
  <2>3. CASE SnapshotPublish(p)
    BY <2>3 DEF SnapshotPublish, IdsTaken
  <2>4. CASE PruneDrop(p)
    BY <2>4 DEF PruneDrop
  <2>5. CASE PruneDone(p)
    <3>1. CASE op[p] = "undo"
      <4>1. pc' = [pc EXCEPT ![p] = "u_entries"]
        BY <2>5, <3>1 DEF PruneDone
      <4>2. UNCHANGED <<diskVars, op, at, holder, target, snap, boundVars>>
        BY <2>5, <3>1 DEF PruneDone
      <4> QED
        BY <4>1, <4>2
    <3>2. CASE op[p] # "undo"
      <4>1. Leave(p) /\ UNCHANGED diskVars
        BY <2>5, <3>2 DEF PruneDone
      <4> QED
        BY <4>1, LeaveTyped DEF LocalsTyped
    <3> QED
      BY <3>1, <3>2
  <2>6. CASE UndoStage(p) \/ UndoCheck(p)
    <3>1. CASE UndoStage(p)
      BY <3>1 DEF UndoStage
    <3>2. CASE UndoCheck(p)
      BY <3>2 DEF UndoCheck
    <3> QED
      BY <2>6, <3>1, <3>2
  <2>7. CASE UndoEntries(p)
    BY <2>7 DEF UndoEntries, LabelOfOp, TargetKept
  <2>8. CASE UndoJournal(p)
    BY <2>8 DEF UndoJournal, LabelOfOp, TargetKept
  <2>9. CASE UndoExchange(p) \/ UndoMoveAway(p) \/ UndoMoveIn(p)
    <3>1. CASE UndoExchange(p)
      BY <3>1 DEF UndoExchange
    <3>2. CASE UndoMoveAway(p)
      BY <3>2 DEF UndoMoveAway
    <3>3. CASE UndoMoveIn(p)
      BY <3>3 DEF UndoMoveIn
    <3> QED
      BY <2>9, <3>1, <3>2, <3>3
  <2>10. CASE UndoVerify(p) \/ UndoSweep(p) \/ ClearEntries(p)
    <3>1. CASE UndoVerify(p)
      BY <3>1 DEF UndoVerify
    <3>2. CASE UndoSweep(p)
      BY <3>2 DEF UndoSweep
    <3>3. CASE ClearEntries(p)
      BY <3>3 DEF ClearEntries
    <3> QED
      BY <2>10, <3>1, <3>2, <3>3
  <2>11. CASE ClearJournal(p)
    BY <2>11 DEF ClearJournal
  <2>12. CASE RecoverPlace(p)
    <3>1. CASE tree[at[p]] # NoTree
      <4>1. Step(p, "r_verify") /\ UNCHANGED diskVars
        BY <2>12, <3>1 DEF RecoverPlace
      <4> QED
        BY <4>1
    <3>2. CASE tree[at[p]] = NoTree /\ stage[at[p]] # NoTree
      <4>1. /\ tree' = [tree EXCEPT ![at[p]] = stage[at[p]]]
            /\ stage' = [stage EXCEPT ![at[p]] = NoTree]
            /\ Step(p, "r_verify")
            /\ UNCHANGED <<displaced, storeVars, undoVars>>
        BY <2>12, <3>2 DEF RecoverPlace
      <4> QED
        BY <4>1
    <3>3. CASE /\ tree[at[p]] = NoTree /\ stage[at[p]] = NoTree
               /\ displaced[at[p]] # NoTree
      <4>1. /\ tree' = [tree EXCEPT ![at[p]] = displaced[at[p]]]
            /\ displaced' = [displaced EXCEPT ![at[p]] = NoTree]
            /\ Step(p, "r_verify")
            /\ UNCHANGED <<stage, storeVars, undoVars>>
        BY <2>12, <3>3 DEF RecoverPlace
      <4> QED
        BY <4>1
    <3>4. CASE /\ tree[at[p]] = NoTree /\ stage[at[p]] = NoTree
               /\ displaced[at[p]] = NoTree
      <4>1. Leave(p) /\ UNCHANGED diskVars
        BY <2>12, <3>4 DEF RecoverPlace
      <4> QED
        BY <4>1, LeaveTyped DEF LocalsTyped
    <3> QED
      BY <3>1, <3>2, <3>3, <3>4
  <2>13. CASE RecoverVerify(p) \/ RecoverSweep(p)
    <3>1. CASE RecoverVerify(p)
      BY <3>1 DEF RecoverVerify
    <3>2. CASE RecoverSweep(p)
      BY <3>2 DEF RecoverSweep
    <3> QED
      BY <2>13, <3>1, <3>2
  <2> QED
    BY <1>1, <2>1, <2>2, <2>3, <2>4, <2>5, <2>6, <2>7, <2>8, <2>9, <2>10,
       <2>11, <2>12, <2>13 DEF Continue
<1>2. ASSUME NEW p \in Procs, Fail(p) \/ Crash(p) PROVE TypeOK'
  <2>1. CASE Fail(p)
    BY <2>1 DEF Fail
  <2>2. CASE Crash(p)
    BY <2>2 DEF Crash
  <2> QED
    BY <1>2, <2>1, <2>2
<1>3. ASSUME NEW p \in Procs, NEW w \in Workspaces, Call(p, w)
      PROVE  TypeOK'
  <2>1. CASE RecoverNothing(p, w)
    BY <2>1 DEF RecoverNothing, Reap, Without
  <2>2. CASE Recover(p, w)
    BY <2>2 DEF Recover
  <2>3. CASE Snapshot(p, w)
    BY <2>3 DEF Snapshot
  <2>4. CASE Undo(p, w)
    BY <2>4 DEF Undo, Reap, Without
  <2>5. CASE Prune(p, w)
    BY <2>5 DEF Prune, Reap, Without
  <2> QED
    BY <1>3, <2>1, <2>2, <2>3, <2>4, <2>5 DEF Call
<1>4. ASSUME NEW w \in Workspaces, UserEdit(w) PROVE TypeOK'
  BY <1>4 DEF UserEdit
<1>5. CASE UNCHANGED vars
  BY <1>5 DEF vars
<1> QED
  BY <1>1, <1>2, <1>3, <1>4, <1>5 DEF Next

-----------------------------------------------------------------------------
(* What the invariant of the store depends on does not change unless a     *)
(* checkpoint is taken or dropped.                                         *)
LEMMA IdsTakenStep ==
    TypeOK /\ LockHeld /\ Present /\ IdsTaken /\ [Next]_vars => IdsTaken'
<1> SUFFICES ASSUME TypeOK, LockHeld, Present, IdsTaken, [Next]_vars
             PROVE  IdsTaken'
  OBVIOUS
<1> USE DEF TypeOK, IdsTaken, Checkpoint, Taking
<1>1. ASSUME NEW p \in Procs, Continue(p) PROVE IdsTaken'
  <2>1. CASE SnapshotScan(p)
    BY <2>1 DEF SnapshotScan
  <2>2. CASE SnapshotArchive(p)
    <3>0. pc[p] = "s_archive" /\ ArchivedAs(p)
      BY <2>2, ArchiveTaken
    <3>1. PICK t : /\ \/ t = tree[at[p]]
                      \/ \E c \in store[at[p]] : t = c.archive
                   /\ snap' = [snap EXCEPT ![p].archive = t]
      BY <3>0 DEF ArchivedAs
    <3>2. t \in Tree
      <4>1. tree[at[p]] \in Tree
        BY <3>0 DEF Present
      <4>2. \A c \in store[at[p]] : c.archive \in Tree
        OBVIOUS
      <4> QED
        BY <3>1, <4>1, <4>2
    <3> QED
      BY <2>2, <3>1, <3>2 DEF SnapshotArchive
  <2>3. CASE SnapshotPublish(p)
    <3>1. \A q \in Procs : Busy(q) /\ q # p => at[q] # at[p]
      BY <2>3, Alone DEF SnapshotPublish
    <3> QED
      BY <2>3, <3>1 DEF SnapshotPublish
  <2>4. CASE PruneDrop(p) \/ PruneDone(p)
    <3>1. CASE PruneDrop(p)
      BY <3>1 DEF PruneDrop
    <3>2. CASE PruneDone(p)
      <4>1. /\ UNCHANGED storeVars /\ pc'[p] \in {"u_entries", "idle"}
            /\ \A q \in Procs \ {p} :
                pc'[q] = pc[q] /\ at'[q] = at[q] /\ snap'[q] = snap[q]
        BY <3>2 DEF PruneDone
      <4> QED
        BY <4>1
    <3> QED
      BY <2>4, <3>1, <3>2
  <2>5. CASE UndoStage(p) \/ UndoCheck(p) \/ UndoEntries(p) \/ UndoJournal(p)
    BY <2>5 DEF UndoStage, UndoCheck, UndoEntries, UndoJournal
  <2>6. CASE UndoExchange(p) \/ UndoMoveAway(p) \/ UndoMoveIn(p)
    BY <2>6 DEF UndoExchange, UndoMoveAway, UndoMoveIn
  <2>7. CASE UndoVerify(p) \/ UndoSweep(p) \/ ClearEntries(p)
             \/ ClearJournal(p)
    <3>1. CASE UndoVerify(p)
      BY <3>1 DEF UndoVerify
    <3>2. CASE UndoSweep(p)
      BY <3>2 DEF UndoSweep
    <3>3. CASE ClearEntries(p)
      BY <3>3 DEF ClearEntries
    <3>4. CASE ClearJournal(p)
      BY <3>4 DEF ClearJournal
    <3> QED
      BY <2>7, <3>1, <3>2, <3>3, <3>4
  <2>8. CASE RecoverPlace(p) \/ RecoverVerify(p) \/ RecoverSweep(p)
    <3>1. CASE RecoverPlace(p)
      <4>1. /\ UNCHANGED storeVars /\ pc'[p] \in {"r_verify", "idle"}
            /\ \A q \in Procs \ {p} :
                pc'[q] = pc[q] /\ at'[q] = at[q] /\ snap'[q] = snap[q]
        BY <3>1 DEF RecoverPlace
      <4> QED
        BY <4>1
    <3>2. CASE RecoverVerify(p)
      BY <3>2 DEF RecoverVerify
    <3>3. CASE RecoverSweep(p)
      BY <3>3 DEF RecoverSweep
    <3> QED
      BY <2>8, <3>1, <3>2, <3>3
  <2> QED
    BY <1>1, <2>1, <2>2, <2>3, <2>4, <2>5, <2>6, <2>7, <2>8 DEF Continue
<1>2. ASSUME NEW p \in Procs, Fail(p) \/ Crash(p) PROVE IdsTaken'
  <2>1. CASE Fail(p)
    BY <2>1 DEF Fail
  <2>2. CASE Crash(p)
    BY <2>2 DEF Crash
  <2> QED
    BY <1>2, <2>1, <2>2
<1>3. ASSUME NEW p \in Procs, NEW w \in Workspaces, Call(p, w)
      PROVE  IdsTaken'
  BY <1>3 DEF Call, Snapshot, Undo, Prune, RecoverNothing, Recover
<1>4. CASE (\E w \in Workspaces : UserEdit(w)) \/ UNCHANGED vars
  BY <1>4 DEF UserEdit, vars
<1> QED
  BY <1>1, <1>2, <1>3, <1>4 DEF Next

(* Retention protects an undo's target; other processes are elsewhere.     *)
LEMMA TargetKeptStep ==
    TypeOK /\ LockHeld /\ LabelOfOp /\ TargetKept /\ [Next]_vars
        => TargetKept'
<1> SUFFICES ASSUME TypeOK, LockHeld, LabelOfOp, TargetKept, [Next]_vars
             PROVE  TargetKept'
  OBVIOUS
<1> USE DEF TypeOK, LabelOfOp, TargetKept
<1>1. ASSUME NEW p \in Procs, Continue(p) PROVE TargetKept'
  <2>1. CASE SnapshotScan(p) \/ SnapshotArchive(p)
    BY <2>1 DEF SnapshotScan, SnapshotArchive
  <2>2. CASE SnapshotPublish(p)
    BY <2>2 DEF SnapshotPublish
  <2>3. CASE PruneDrop(p)
    <3>1. \A q \in Procs : op[q] = "undo" /\ q # p => at[q] # at[p]
      BY <2>3, Alone DEF PruneDrop
    <3>2. op[p] = "undo" => target[p] \notin Removable(p)
      BY DEF Removable, Protected
    <3> QED
      BY <2>3, <3>1, <3>2 DEF PruneDrop
  <2>4. CASE PruneDone(p)
    BY <2>4 DEF PruneDone
  <2>5. CASE UndoStage(p) \/ UndoCheck(p) \/ UndoEntries(p) \/ UndoJournal(p)
    BY <2>5 DEF UndoStage, UndoCheck, UndoEntries, UndoJournal
  <2>6. CASE UndoExchange(p) \/ UndoMoveAway(p) \/ UndoMoveIn(p)
    BY <2>6 DEF UndoExchange, UndoMoveAway, UndoMoveIn
  <2>7. CASE UndoVerify(p) \/ UndoSweep(p) \/ ClearEntries(p)
             \/ ClearJournal(p)
    BY <2>7 DEF UndoVerify, UndoSweep, ClearEntries, ClearJournal
  <2>8. CASE RecoverPlace(p) \/ RecoverVerify(p) \/ RecoverSweep(p)
    BY <2>8 DEF RecoverPlace, RecoverVerify, RecoverSweep
  <2> QED
    BY <1>1, <2>1, <2>2, <2>3, <2>4, <2>5, <2>6, <2>7, <2>8 DEF Continue
<1>2. ASSUME NEW p \in Procs, Fail(p) \/ Crash(p) PROVE TargetKept'
  <2>1. /\ UNCHANGED store /\ op'[p] # "undo"
        /\ \A q \in Procs \ {p} :
            /\ pc'[q] = pc[q] /\ at'[q] = at[q]
            /\ op'[q] = op[q] /\ target'[q] = target[q]
    <3>1. CASE Fail(p)
      BY <3>1 DEF Fail
    <3>2. CASE Crash(p)
      BY <3>2 DEF Crash
    <3> QED
      BY <1>2, <3>1, <3>2
  <2> QED
    BY <2>1
<1>3. ASSUME NEW p \in Procs, NEW w \in Workspaces, Call(p, w)
      PROVE  TargetKept'
  BY <1>3 DEF Call, Snapshot, Undo, Prune, RecoverNothing, Recover
<1>4. CASE (\E w \in Workspaces : UserEdit(w)) \/ UNCHANGED vars
  BY <1>4 DEF UserEdit, vars
<1> QED
  BY <1>1, <1>2, <1>3, <1>4 DEF Next

(* So it is with the safety snapshot, which is the newest when it is taken *)
(* and stays the newest while nobody else takes one.                       *)
LEMMA SafetyKeptStep ==
    TypeOK /\ LockHeld /\ LabelOfOp /\ IdsTaken /\ SafetyKept /\ [Next]_vars
        => SafetyKept'
<1> SUFFICES ASSUME TypeOK, LockHeld, LabelOfOp, IdsTaken, SafetyKept,
                    [Next]_vars
             PROVE  SafetyKept'
  OBVIOUS
<1> USE DEF TypeOK, LabelOfOp, SafetyKept, Checkpoint, Taking
<1>1. ASSUME NEW p \in Procs, Continue(p) PROVE SafetyKept'
  <2>1. CASE SnapshotScan(p) \/ SnapshotArchive(p)
    <3>1. CASE SnapshotScan(p)
      BY <3>1 DEF SnapshotScan
    <3>2. CASE SnapshotArchive(p)
      BY <3>2 DEF SnapshotArchive
    <3> QED
      BY <2>1, <3>1, <3>2
  <2>2. CASE SnapshotPublish(p)
    <3>1. \A q \in Procs : Busy(q) /\ q # p => at[q] # at[p]
      BY <2>2, Alone DEF SnapshotPublish
    <3>2. \A c \in store[at[p]] : c.id <= snap[p].id
      BY <2>2 DEF SnapshotPublish, IdsTaken
    <3> QED
      BY <2>2, <3>1, <3>2 DEF SnapshotPublish
  <2>3. CASE PruneDrop(p)
    <3>1. \A q \in Procs : Busy(q) /\ q # p => at[q] # at[p]
      BY <2>3, Alone DEF PruneDrop
    <3>2. op[p] # "prune" => snap[p] \notin Removable(p)
      BY <2>3 DEF PruneDrop, Removable, Protected
    <3> QED
      BY <2>3, <3>1, <3>2 DEF PruneDrop
  <2>4. CASE PruneDone(p)
    BY <2>4, SMTT(30) DEF PruneDone
  <2>5. CASE UndoStage(p) \/ UndoCheck(p) \/ UndoEntries(p) \/ UndoJournal(p)
    BY <2>5 DEF UndoStage, UndoCheck, UndoEntries, UndoJournal
  <2>6. CASE UndoExchange(p) \/ UndoMoveAway(p) \/ UndoMoveIn(p)
    <3>1. CASE UndoExchange(p)
      BY <3>1 DEF UndoExchange
    <3>2. CASE UndoMoveAway(p)
      BY <3>2 DEF UndoMoveAway
    <3>3. CASE UndoMoveIn(p)
      BY <3>3 DEF UndoMoveIn
    <3> QED
      BY <2>6, <3>1, <3>2, <3>3
  <2>7. CASE UndoVerify(p) \/ UndoSweep(p) \/ ClearEntries(p)
             \/ ClearJournal(p)
    <3>1. CASE UndoVerify(p)
      BY <3>1 DEF UndoVerify
    <3>2. CASE UndoSweep(p)
      BY <3>2 DEF UndoSweep
    <3>3. CASE ClearEntries(p)
      BY <3>3 DEF ClearEntries
    <3>4. CASE ClearJournal(p)
      BY <3>4 DEF ClearJournal
    <3> QED
      BY <2>7, <3>1, <3>2, <3>3, <3>4
  <2>8. CASE RecoverPlace(p) \/ RecoverVerify(p) \/ RecoverSweep(p)
    <3>1. CASE RecoverPlace(p)
      <4>1. /\ UNCHANGED store /\ pc'[p] \in {"r_verify", "idle"}
            /\ \A q \in Procs \ {p} :
                /\ pc'[q] = pc[q] /\ at'[q] = at[q]
                /\ op'[q] = op[q] /\ snap'[q] = snap[q]
        BY <3>1 DEF RecoverPlace
      <4> QED
        BY <4>1
    <3>2. CASE RecoverVerify(p)
      BY <3>2 DEF RecoverVerify
    <3>3. CASE RecoverSweep(p)
      <4>1. /\ UNCHANGED store /\ pc'[p] \in {"r_sweep", "clear_entries"}
            /\ \A q \in Procs \ {p} :
                /\ pc'[q] = pc[q] /\ at'[q] = at[q]
                /\ op'[q] = op[q] /\ snap'[q] = snap[q]
        BY <3>3 DEF RecoverSweep
      <4> QED
        BY <4>1
    <3> QED
      BY <2>8, <3>1, <3>2, <3>3
  <2> QED
    BY <1>1, <2>1, <2>2, <2>3, <2>4, <2>5, <2>6, <2>7, <2>8 DEF Continue
<1>2. ASSUME NEW p \in Procs, Fail(p) \/ Crash(p) PROVE SafetyKept'
  <2>1. CASE Fail(p)
    BY <2>1 DEF Fail
  <2>2. CASE Crash(p)
    BY <2>2 DEF Crash
  <2> QED
    BY <1>2, <2>1, <2>2
<1>3. ASSUME NEW p \in Procs, NEW w \in Workspaces, Call(p, w)
      PROVE  SafetyKept'
  BY <1>3 DEF Call, Snapshot, Undo, Prune, RecoverNothing, Recover
<1>4. CASE (\E w \in Workspaces : UserEdit(w)) \/ UNCHANGED vars
  BY <1>4 DEF UserEdit, vars
<1> QED
  BY <1>1, <1>2, <1>3, <1>4 DEF Next

(* The prune command protects the newest checkpoint, and every other       *)
(* retention runs without a journal.                                       *)
LEMMA JournalNamesNewestStep ==
    TypeOK /\ LockHeld /\ LabelOfOp /\ SettledBefore /\ IdsTaken
      /\ SafetyKept /\ JournalNamesNewest /\ [Next]_vars
        => JournalNamesNewest'
<1> SUFFICES ASSUME TypeOK, LockHeld, LabelOfOp, SettledBefore, IdsTaken,
                    SafetyKept, JournalNamesNewest, [Next]_vars
             PROVE  JournalNamesNewest'
  OBVIOUS
<1> USE DEF TypeOK, JournalNamesNewest
<1>1. ASSUME NEW p \in Procs, Continue(p) PROVE JournalNamesNewest'
  <2>1. CASE SnapshotScan(p) \/ SnapshotArchive(p)
    BY <2>1 DEF SnapshotScan, SnapshotArchive
  <2>2. CASE SnapshotPublish(p)
    <3>1. journal[at[p]] = {}
      BY <2>2 DEF SnapshotPublish, SettledBefore, BeforeJournal
    <3>2. /\ \A w \in Workspaces \ {at[p]} : store'[w] = store[w]
          /\ UNCHANGED journal
      BY <2>2 DEF SnapshotPublish
    <3> QED
      BY <3>1, <3>2
  <2>3. CASE PruneDrop(p)
    <3>1. PICK c \in Removable(p) :
            store' = [store EXCEPT ![at[p]] = @ \ {c}]
      BY <2>3 DEF PruneDrop
    <3>2. UNCHANGED journal
      BY <2>3 DEF PruneDrop
    <3>3. CASE op[p] # "prune"
      <4>1. journal[at[p]] = {}
        BY <2>3, <3>3 DEF PruneDrop, SettledBefore, BeforeJournal
      <4> QED
        BY <3>1, <3>2, <4>1
    <3>4. CASE op[p] = "prune"
      <4>1. c \in store[at[p]]
            /\ \E d \in store[at[p]] : ~(d.id <= c.id)
        BY <3>4 DEF Removable, Protected
      <4>2. \A record \in journal[at[p]] : c.id # record[2]
        BY <4>1 DEF Checkpoint
      <4> QED
        BY <3>1, <3>2, <4>2
    <3> QED
      BY <3>3, <3>4
  <2>4. CASE PruneDone(p)
    BY <2>4 DEF PruneDone
  <2>5. CASE UndoStage(p) \/ UndoCheck(p) \/ UndoEntries(p)
    BY <2>5 DEF UndoStage, UndoCheck, UndoEntries
  <2>6. CASE UndoJournal(p)
    <3>1. /\ snap[p] \in store[at[p]]
          /\ \A c \in store[at[p]] : c.id <= snap[p].id
      BY <2>6 DEF UndoJournal, SafetyKept
    <3>2. /\ \A w \in Workspaces \ {at[p]} : journal'[w] = journal[w]
          /\ journal'[at[p]] = {<<target[p].id, snap[p].id>>}
          /\ UNCHANGED store
      BY <2>6 DEF UndoJournal
    <3> QED
      BY <3>1, <3>2
  <2>7. CASE UndoExchange(p) \/ UndoMoveAway(p) \/ UndoMoveIn(p)
    BY <2>7 DEF UndoExchange, UndoMoveAway, UndoMoveIn
  <2>8. CASE UndoVerify(p) \/ UndoSweep(p) \/ ClearEntries(p)
             \/ ClearJournal(p)
    BY <2>8 DEF UndoVerify, UndoSweep, ClearEntries, ClearJournal
  <2>9. CASE RecoverPlace(p) \/ RecoverVerify(p) \/ RecoverSweep(p)
    BY <2>9 DEF RecoverPlace, RecoverVerify, RecoverSweep
  <2> QED
    BY <1>1, <2>1, <2>2, <2>3, <2>4, <2>5, <2>6, <2>7, <2>8, <2>9 DEF Continue
<1>2. ASSUME NEW p \in Procs, Fail(p) \/ Crash(p) PROVE JournalNamesNewest'
  BY <1>2 DEF Fail, Crash
<1>3. ASSUME NEW p \in Procs, NEW w \in Workspaces, Call(p, w)
      PROVE  JournalNamesNewest'
  BY <1>3 DEF Call, Snapshot, Undo, Prune, RecoverNothing, Recover
<1>4. CASE (\E w \in Workspaces : UserEdit(w)) \/ UNCHANGED vars
  BY <1>4 DEF UserEdit, vars
<1> QED
  BY <1>1, <1>2, <1>3, <1>4 DEF Next

-----------------------------------------------------------------------------
(* A staged tree that was compared with the manifest stays, unless it is   *)
(* taken for debris of another workspace and is gone.                      *)
LEMMA StagedVerifiedStep ==
    TypeOK /\ LockHeld /\ LabelOfOp /\ StagedVerified /\ [Next]_vars
        => StagedVerified'
<1> SUFFICES ASSUME TypeOK, LockHeld, LabelOfOp, StagedVerified, [Next]_vars
             PROVE  StagedVerified'
  OBVIOUS
<1> USE DEF TypeOK, LabelOfOp, StagedVerified
<1>1. ASSUME NEW p \in Procs, Continue(p) PROVE StagedVerified'
  <2>1. CASE SnapshotScan(p)
    BY <2>1 DEF SnapshotScan, Reap, Without
  <2>2. CASE SnapshotArchive(p) \/ SnapshotPublish(p)
    BY <2>2 DEF SnapshotArchive, SnapshotPublish
  <2>3. CASE PruneDrop(p) \/ PruneDone(p)
    <3>1. CASE PruneDrop(p)
      BY <3>1 DEF PruneDrop
    <3>2. CASE PruneDone(p)
      BY <3>2 DEF PruneDone
    <3> QED
      BY <2>3, <3>1, <3>2
  <2>4. CASE UndoStage(p)
    BY <2>4, Alone DEF UndoStage
  <2>5. CASE UndoCheck(p)
    BY <2>5 DEF UndoCheck
  <2>6. CASE UndoEntries(p)
    BY <2>6, Alone DEF UndoEntries
  <2>7. CASE UndoJournal(p)
    BY <2>7 DEF UndoJournal
  <2>8. CASE UndoExchange(p) \/ UndoMoveIn(p)
    <3>1. CASE UndoExchange(p)
      BY <3>1, Alone DEF UndoExchange
    <3>2. CASE UndoMoveIn(p)
      BY <3>2, Alone DEF UndoMoveIn
    <3> QED
      BY <2>8, <3>1, <3>2
  <2>9. CASE UndoMoveAway(p) \/ UndoVerify(p)
    BY <2>9 DEF UndoMoveAway, UndoVerify
  <2>10. CASE UndoSweep(p) \/ ClearEntries(p)
    <3>1. CASE UndoSweep(p)
      BY <3>1, Alone DEF UndoSweep
    <3>2. CASE ClearEntries(p)
      BY <3>2, Alone DEF ClearEntries
    <3> QED
      BY <2>10, <3>1, <3>2
  <2>11. CASE ClearJournal(p) \/ RecoverVerify(p)
    BY <2>11 DEF ClearJournal, RecoverVerify
  <2>12. CASE RecoverPlace(p)
    BY <2>12, Alone, SMTT(30) DEF RecoverPlace
  <2>13. CASE RecoverSweep(p)
    BY <2>13, Alone DEF RecoverSweep
  <2> QED
    BY <1>1, <2>1, <2>2, <2>3, <2>4, <2>5, <2>6, <2>7, <2>8, <2>9, <2>10,
       <2>11, <2>12, <2>13 DEF Continue
<1>2. ASSUME NEW p \in Procs, Fail(p) \/ Crash(p) PROVE StagedVerified'
  <2>1. CASE Fail(p)
    BY <2>1, Alone DEF Fail
  <2>2. CASE Crash(p)
    BY <2>2, Alone DEF Crash
  <2> QED
    BY <1>2, <2>1, <2>2
<1>3. ASSUME NEW p \in Procs, NEW w \in Workspaces, Call(p, w)
      PROVE  StagedVerified'
  <2>1. CASE Snapshot(p, w)
    BY <2>1 DEF Snapshot
  <2>2. CASE Undo(p, w)
    BY <2>2 DEF Undo, Reap, Without
  <2>3. CASE Prune(p, w)
    BY <2>3 DEF Prune, Reap, Without
  <2>4. CASE RecoverNothing(p, w)
    BY <2>4 DEF RecoverNothing, Reap, Without
  <2>5. CASE Recover(p, w)
    BY <2>5 DEF Recover
  <2> QED
    BY <1>3, <2>1, <2>2, <2>3, <2>4, <2>5 DEF Call
<1>4. CASE (\E w \in Workspaces : UserEdit(w)) \/ UNCHANGED vars
  BY <1>4 DEF UserEdit, vars
<1> QED
  BY <1>1, <1>2, <1>3, <1>4 DEF Next

(* A directory is only moved away when what is to take its place has been  *)
(* verified, and its entries are on disk.                                  *)
LEMMA GoneIsStagedStep ==
    TypeOK /\ LockHeld /\ LabelOfOp /\ Present /\ StagedVerified
      /\ GoneIsStaged /\ [Next]_vars => GoneIsStaged'
<1> SUFFICES ASSUME TypeOK, LockHeld, LabelOfOp, Present, StagedVerified,
                    GoneIsStaged, [Next]_vars
             PROVE  GoneIsStaged'
  OBVIOUS
<1> USE DEF TypeOK, GoneIsStaged
<1>1. ASSUME NEW p \in Procs, Continue(p) PROVE GoneIsStaged'
  <2>1. CASE SnapshotScan(p)
    BY <2>1 DEF SnapshotScan, Reap, Without
  <2>2. CASE SnapshotArchive(p) \/ SnapshotPublish(p)
    BY <2>2 DEF SnapshotArchive, SnapshotPublish
  <2>3. CASE PruneDrop(p) \/ PruneDone(p)
    BY <2>3 DEF PruneDrop, PruneDone
  <2>4. CASE UndoStage(p) \/ UndoEntries(p) \/ ClearEntries(p)
    <3>1. tree[at[p]] # NoTree
      BY <2>4 DEF Present, UndoStage, UndoEntries, ClearEntries
    <3> QED
      BY <2>4, <3>1 DEF UndoStage, UndoEntries, ClearEntries
  <2>5. CASE UndoCheck(p) \/ UndoJournal(p) \/ UndoVerify(p)
    BY <2>5 DEF UndoCheck, UndoJournal, UndoVerify
  <2>6. CASE UndoExchange(p) \/ UndoMoveIn(p)
    BY <2>6 DEF UndoExchange, UndoMoveIn
  <2>7. CASE UndoMoveAway(p)
    <3>1. /\ stage[at[p]] # NoTree => stage[at[p]] = target[p].manifest
          /\ entries[at[p]] = {target[p].manifest}
      BY <2>7 DEF UndoMoveAway, StagedVerified, LabelOfOp
    <3> QED
      BY <2>7, <3>1 DEF UndoMoveAway
  <2>8. CASE UndoSweep(p) \/ ClearJournal(p) \/ RecoverVerify(p)
    BY <2>8 DEF UndoSweep, ClearJournal, RecoverVerify
  <2>9. CASE RecoverPlace(p) \/ RecoverSweep(p)
    BY <2>9 DEF RecoverPlace, RecoverSweep
  <2> QED
    BY <1>1, <2>1, <2>2, <2>3, <2>4, <2>5, <2>6, <2>7, <2>8, <2>9 DEF Continue
<1>2. ASSUME NEW p \in Procs, Fail(p) \/ Crash(p) PROVE GoneIsStaged'
  <2>1. CASE Fail(p)
    BY <2>1 DEF Fail
  <2>2. CASE Crash(p)
    BY <2>2 DEF Crash
  <2> QED
    BY <1>2, <2>1, <2>2
<1>3. ASSUME NEW p \in Procs, NEW w \in Workspaces, Call(p, w)
      PROVE  GoneIsStaged'
  <2>1. CASE Snapshot(p, w)
    BY <2>1 DEF Snapshot
  <2>2. CASE Undo(p, w)
    BY <2>2 DEF Undo, Reap, Without
  <2>3. CASE Prune(p, w)
    BY <2>3 DEF Prune, Reap, Without
  <2>4. CASE RecoverNothing(p, w)
    BY <2>4 DEF RecoverNothing, Reap, Without
  <2>5. CASE Recover(p, w)
    BY <2>5 DEF Recover
  <2> QED
    BY <1>3, <2>1, <2>2, <2>3, <2>4, <2>5 DEF Call
<1>4. CASE (\E w \in Workspaces : UserEdit(w)) \/ UNCHANGED vars
  <2>1. ASSUME NEW w \in Workspaces, UserEdit(w) PROVE GoneIsStaged'
    BY <2>1 DEF UserEdit
  <2> QED
    BY <1>4, <2>1 DEF vars
<1> QED
  BY <1>1, <1>2, <1>3, <1>4 DEF Next

-----------------------------------------------------------------------------
(* Nothing is going on at first, and nothing is on disk.                   *)
LEMMA InitIInv == Init => IInv
<1> SUFFICES ASSUME Init PROVE IInv
  OBVIOUS
<1> USE DEF Init
<1>1. TypeOK
  BY AnyWorkspaceIsOne DEF TypeOK, Checkpoint, Taking, NoCheckpoint
<1>2. LockHeld /\ LabelOfOp /\ SettledBefore /\ Present
  BY DEF LockHeld, LabelOfOp, SettledBefore, BeforeJournal, Present
<1>3. IdsTaken /\ TargetKept /\ SafetyKept /\ JournalNamesNewest
  BY DEF IdsTaken, TargetKept, SafetyKept, JournalNamesNewest
<1>4. StagedVerified /\ GoneIsStaged
  BY DEF StagedVerified, GoneIsStaged
<1> QED
  BY <1>1, <1>2, <1>3, <1>4 DEF IInv

(* A step of anybody preserves the inductive invariant.                    *)
LEMMA IInvStep == IInv /\ [Next]_vars => IInv'
<1> SUFFICES ASSUME IInv, [Next]_vars PROVE IInv'
  OBVIOUS
<1> USE DEF IInv
<1>1. TypeOK' /\ LockHeld' /\ LabelOfOp'
  BY TypeOKStep, LockHeldStep, LabelOfOpStep
<1>2. SettledBefore' /\ Present' /\ IdsTaken'
  BY SettledBeforeStep, PresentStep, IdsTakenStep
<1>3. TargetKept' /\ SafetyKept' /\ JournalNamesNewest'
  BY TargetKeptStep, SafetyKeptStep, JournalNamesNewestStep
<1>4. StagedVerified' /\ GoneIsStaged'
  BY StagedVerifiedStep, GoneIsStagedStep
<1> QED
  BY <1>1, <1>2, <1>3, <1>4

(* The inductive invariant holds in every reachable state.                 *)
LEMMA IInvHolds == Spec => []IInv
BY InitIInv, IInvStep, PTL DEF Spec

-----------------------------------------------------------------------------
(* Every directory, file, lock and local holds a value of its kind: no     *)
(* checkpoint is published without its archive.                            *)
THEOREM CheckpointTypeCorrect == Spec => []TypeOK
<1>1. IInv => TypeOK
  BY DEF IInv
<1> QED
  BY <1>1, IInvHolds, PTL

(* "Undo can itself be undone": neither the checkpoint that an undo        *)
(* restores nor its safety snapshot is dropped while it goes on, whatever  *)
(* CKPT_KEEP and the byte budget ask for.                                  *)
THEOREM UndoKeepsItsCheckpointsHolds == Spec => []UndoKeepsItsCheckpoints
<1>1. IInv => UndoKeepsItsCheckpoints
  BY DEF IInv, TargetKept, SafetyKept, UndoKeepsItsCheckpoints
<1> QED
  BY <1>1, IInvHolds, PTL

(* After a crash anywhere in an undo, its safety snapshot stays until the  *)
(* undo is settled, whoever prunes in the meantime.                        *)
THEOREM SafetyOutlivesCrashHolds == Spec => []SafetyOutlivesCrash
<1>1. IInv => SafetyOutlivesCrash
  BY DEF IInv, JournalNamesNewest, SafetyOutlivesCrash
<1> QED
  BY <1>1, IInvHolds, PTL

(* No checkpoint is taken of a workspace in the middle of a restore: the   *)
(* only step that publishes one is of a process whose lock keeps the       *)
(* journal as empty as snapshot() and undo() found it.                     *)
THEOREM SnapshotOfSettledOnlyHolds == Spec => SnapshotOfSettledOnly
<1>1. IInv /\ [Next]_vars => SettledOnlyStep
  <2> SUFFICES ASSUME IInv, [Next]_vars PROVE SettledOnlyStep
    OBVIOUS
  <2> USE DEF IInv, TypeOK, SettledOnlyStep
  <2>1. ASSUME NEW p \in Procs, Continue(p) PROVE SettledOnlyStep
    <3>1. CASE SnapshotPublish(p)
      <4>1. Settled(at[p])
        BY <3>1 DEF SettledBefore, BeforeJournal, SnapshotPublish
      <4>2. \A w \in Workspaces \ {at[p]} : taken'[w] = taken[w]
        BY <3>1 DEF SnapshotPublish
      <4> QED
        BY <4>1, <4>2
    <3>2. CASE ~SnapshotPublish(p)
      <4>1. UNCHANGED taken
        BY <2>1, <3>2 DEF Continue, SnapshotScan, SnapshotArchive,
           PruneDrop, PruneDone, UndoStage, UndoCheck, UndoEntries,
           UndoJournal, UndoExchange, UndoMoveAway, UndoMoveIn, UndoVerify,
           UndoSweep, ClearEntries, ClearJournal, RecoverPlace,
           RecoverVerify, RecoverSweep
      <4> QED
        BY <4>1
    <3> QED
      BY <3>1, <3>2
  <2>2. CASE ~\E p \in Procs : Continue(p)
    <3>1. UNCHANGED taken
      BY <2>2 DEF Next, Fail, Crash, Call, Snapshot, Undo, Prune,
         RecoverNothing, Recover, UserEdit, vars
    <3> QED
      BY <3>1
  <2> QED
    BY <2>1, <2>2
<1> QED
  BY <1>1, IInvHolds, PTL DEF Spec, SnapshotOfSettledOnly

(* A workspace is only ever replaced by a tree that was compared with the  *)
(* manifest, or gets its own tree back: a torn archive, a failure or a     *)
(* crash never puts anything else in place.                                *)
THEOREM RestoresWhatWasRecordedHolds == Spec => RestoresWhatWasRecorded
<1>1. IInv /\ [Next]_vars => RecordedStep
  <2> SUFFICES ASSUME IInv, [Next]_vars PROVE RecordedStep
    OBVIOUS
  <2> USE DEF IInv, TypeOK, RecordedStep
  <2>1. ASSUME NEW p \in Procs, Continue(p) PROVE RecordedStep
    <3>1. CASE UndoExchange(p) \/ UndoMoveIn(p)
      <4>1. /\ entries[at[p]] = {target[p].manifest}
            /\ stage[at[p]] \in {target[p].manifest, NoTree}
        BY <3>1 DEF UndoExchange, UndoMoveIn, StagedVerified, LabelOfOp
      <4>2. /\ tree'[at[p]] = stage[at[p]] /\ stage[at[p]] # NoTree
            /\ \A w \in Workspaces \ {at[p]} : tree'[w] = tree[w]
        BY <3>1 DEF UndoExchange, UndoMoveIn
      <4> QED
        BY <4>1, <4>2
    <3>2. CASE RecoverPlace(p)
      BY <3>2 DEF RecoverPlace, GoneIsStaged
    <3>3. CASE UndoMoveAway(p)
      BY <3>3 DEF UndoMoveAway
    <3>4. CASE ~(UndoExchange(p) \/ UndoMoveIn(p) \/ RecoverPlace(p)
                 \/ UndoMoveAway(p))
      <4>1. UNCHANGED tree
        BY <2>1, <3>4 DEF Continue, SnapshotScan, SnapshotArchive,
           SnapshotPublish, PruneDrop, PruneDone, UndoStage, UndoCheck,
           UndoEntries, UndoJournal, UndoVerify, UndoSweep, ClearEntries,
           ClearJournal, RecoverVerify, RecoverSweep, Reap
      <4> QED
        BY <4>1
    <3> QED
      BY <3>1, <3>2, <3>3, <3>4
  <2>2. CASE \E w \in Workspaces : UserEdit(w)
    BY <2>2 DEF UserEdit
  <2>3. CASE /\ ~\E p \in Procs : Continue(p)
             /\ ~\E w \in Workspaces : UserEdit(w)
    <3>1. UNCHANGED tree
      BY <2>3 DEF Next, Fail, Crash, Call, Snapshot, Undo, Prune,
         RecoverNothing, Recover, Reap, vars
    <3> QED
      BY <3>1
  <2> QED
    BY <2>1, <2>2, <2>3
<1> QED
  BY <1>1, IInvHolds, PTL DEF Spec, RestoresWhatWasRecorded

-----------------------------------------------------------------------------
Archives(w) == {c.archive : c \in store[w]}

\* Nothing moves between the scan and the archive.
TakenWhole ==
    /\ \A w \in Workspaces : \A c \in store[w] : c.archive = c.manifest
    /\ \A p \in Procs :
        /\ pc[p] \in {"s_archive", "s_publish"} => snap[p].manifest = tree[at[p]]
        /\ pc[p] = "s_publish" => snap[p].archive = tree[at[p]]

\* Nor between the safety snapshot and the journal.
SafetyIsTheTree ==
    \A p \in Procs :
        op[p] = "undo" /\ pc[p] \in {"prune", "u_entries", "u_journal", "u_swap"} =>
            /\ snap[p].archive = tree[at[p]]
            /\ displaced[at[p]] = NoTree
            /\ pc[p] = "u_swap" => journal[at[p]] = {<<target[p].id, snap[p].id>>}

\* A settled workspace has its directory, and beside it at most a copy.
AtRest ==
    \A w \in Workspaces : Settled(w) =>
        /\ tree[w] # NoTree /\ displaced[w] = NoTree
        /\ stage[w] \in Archives(w) \cup {NoTree}

\* Whoever may drop the checkpoint of a copy has reaped the copy.
ReapedFirst ==
    \A p \in Procs :
        pc[p] \in {"s_archive", "s_publish", "prune"} /\ op[p] # "undo" /\ Settled(at[p])
            => stage[at[p]] = NoTree

\* What the labels behind the journal know.
BehindJournal ==
    \A p \in Procs :
        /\ pc[p] \in {"u_swap", "u_second", "u_verify", "u_sweep"} \cup RecoverLabels
                     \cup ClearLabels => ~Settled(at[p])
        /\ pc[p] = "u_second" => tree[at[p]] = NoTree
        /\ pc[p] \in ClearLabels => stage[at[p]] = NoTree /\ displaced[at[p]] = NoTree
        /\ pc[p] \in RecoverLabels => entries[at[p]] # {}

\* Where an undo may stop: own is the tree that it replaces, new the one that
\* it puts in its place.  Until somebody recovers, people may edit either.
Halfway(w, own, new) ==
    \/ EditedSince(w) /\ tree[w] # NoTree /\ {stage[w], displaced[w]} \subseteq {own, new, NoTree}
    \/ tree[w] = own /\ stage[w] \in {new, NoTree} /\ displaced[w] = NoTree
    \/ tree[w] = NoTree /\ stage[w] \in {new, NoTree} /\ displaced[w] \in {own, NoTree}
    \/ tree[w] = new /\ stage[w] \in {own, NoTree} /\ displaced[w] \in {own, NoTree}

\* What is there to settle: an undo that may have stopped anywhere, or nothing
\* but the journal.
Unfinished(w) ==
    \A record \in journal[w] :
        \/ /\ entries[w] = {} /\ tree[w] # NoTree
           /\ stage[w] = NoTree /\ displaced[w] = NoTree
        \/ \E c \in store[w], new \in Tree :
            c.id = record[2] /\ entries[w] = {new} /\ Halfway(w, c.archive, new)

\* Every tree is one that there has been: the next edit makes a new one.
Seen == (0 .. edits) \cup {NoTree}

SoFar ==
    /\ \A w \in Workspaces :
        /\ {tree[w], stage[w], displaced[w]} \subseteq Seen
        /\ entries[w] \subseteq Seen
        /\ \A c \in store[w] : {c.manifest, c.archive} \subseteq Seen
    /\ \A p \in Procs :
        {target[p].manifest, target[p].archive, snap[p].manifest, snap[p].archive} \subseteq Seen

QuietInv ==
    /\ SoFar
    /\ TakenWhole /\ SafetyIsTheTree /\ AtRest /\ ReapedFirst /\ BehindJournal
    /\ \A w \in Workspaces : Unfinished(w)

(* Nobody edits a workspace that is worked on.                             *)
LEMMA QuietEdits ==
    ASSUME "operation" \notin EditDuring, TypeOK, LockHeld, NEW w \in Workspaces, UserEdit(w)
    PROVE  \A q \in Procs : Busy(q) => at[q] # w
<1>1. holder[w] = {}
  BY DEF UserEdit
<1>2. ASSUME NEW q \in Procs, Busy(q) PROVE at[q] # w
  BY <1>1, <1>2 DEF LockHeld
<1> QED
  BY <1>1, <1>2

(* Trees are copied and renamed; only an edit makes one, and counts.       *)
LEMMA SoFarStep == TypeOK /\ SoFar /\ [Next]_vars => SoFar'
<1> SUFFICES ASSUME TypeOK, SoFar, [Next]_vars PROVE SoFar'
  OBVIOUS
<1> USE DEF TypeOK
<1> DEFINE Dirs == \A w \in Workspaces : {tree[w], stage[w], displaced[w]} \subseteq Seen
           Stored == \A w \in Workspaces :
                       /\ entries[w] \subseteq Seen
                       /\ \A c \in store[w] : {c.manifest, c.archive} \subseteq Seen
           Held == \A p \in Procs : {target[p].manifest, target[p].archive,
                                     snap[p].manifest, snap[p].archive} \subseteq Seen
<1>a. Dirs /\ Stored /\ Held /\ NoTree \in Seen
  BY DEF SoFar, Seen
<1>b. ASSUME Dirs', Stored', Held' PROVE SoFar'
  BY <1>b DEF SoFar
<1>c. UNCHANGED edits => Seen' = Seen
  BY DEF Seen
<1>d. UNCHANGED <<edits, store, entries>> => Stored'
  BY <1>a, <1>c
<1>e. UNCHANGED <<edits, target, snap>> => Held'
  BY <1>a, <1>c
<1>f. UNCHANGED <<edits, tree, stage, displaced>> => Dirs'
  BY <1>a, <1>c
<1> HIDE DEF Dirs, Stored, Held
<1>g. ASSUME UNCHANGED edits,
             \A q \in Procs : /\ target'[q] \in {target[q], NoCheckpoint}
                             /\ snap'[q] \in {snap[q], NoCheckpoint}
      PROVE  Held'
  <2>1. NoCheckpoint.manifest = NoTree /\ NoCheckpoint.archive = NoTree
    BY DEF NoCheckpoint
  <2>2. ASSUME NEW q \in Procs
        PROVE  {target'[q].manifest, target'[q].archive, snap'[q].manifest,
                snap'[q].archive} \subseteq Seen'
    <3>1. {target[q].manifest, target[q].archive, snap[q].manifest, snap[q].archive}
              \subseteq Seen /\ NoTree \in Seen /\ Seen' = Seen
      BY <1>a, <1>c, <1>g DEF Held
    <3>2. /\ target'[q] = target[q] \/ target'[q] = NoCheckpoint
          /\ snap'[q] = snap[q] \/ snap'[q] = NoCheckpoint
      BY <1>g
    <3> QED
      BY <2>1, <3>1, <3>2
  <2> QED
    BY <2>2 DEF Held
<1>h. ASSUME UNCHANGED <<edits, tree>>,
             \A v \in Workspaces : /\ stage'[v] \in {stage[v], NoTree}
                                  /\ displaced'[v] \in {displaced[v], NoTree}
      PROVE  Dirs'
  <2>1. ASSUME NEW v \in Workspaces
        PROVE  {tree'[v], stage'[v], displaced'[v]} \subseteq Seen'
    <3>1. {tree[v], stage[v], displaced[v], NoTree} \subseteq Seen /\ Seen' = Seen
      BY <1>a, <1>c, <1>h DEF Dirs
    <3> QED
      BY <1>h, <3>1
  <2> QED
    BY <2>1 DEF Dirs
<1>1. ASSUME NEW p \in Procs, Continue(p) PROVE SoFar'
  <2>1. CASE SnapshotScan(p)
    <3>1. Dirs'
      BY <2>1, <1>a, <1>c DEF SnapshotScan, Reap, Without, Dirs
    <3>2. Held'
      <4>1. snap'[p].manifest = tree[at[p]] /\ snap'[p].archive = NoTree
        BY <2>1 DEF SnapshotScan
      <4>2. \A q \in Procs \ {p} : snap'[q] = snap[q]
        BY <2>1 DEF SnapshotScan
      <4>3. UNCHANGED <<target, edits>>
        BY <2>1 DEF SnapshotScan
      <4>4. tree[at[p]] \in Seen
        BY <1>a DEF Dirs
      <4> QED
        BY <4>1, <4>2, <4>3, <4>4, <1>a, <1>c DEF Held
    <3> QED
      BY <2>1, <3>1, <3>2, <1>b, <1>d DEF SnapshotScan
  <2>2. CASE SnapshotArchive(p)
    <3>1. PICK t \in Seen : snap' = [snap EXCEPT ![p].archive = t]
      <4>1. PICK t \in {tree[at[p]]} \cup
                     {c.archive : c \in {d \in store[at[p]] : d.manifest = snap[p].manifest}} :
              snap' = [snap EXCEPT ![p].archive = t]
        BY <2>2 DEF SnapshotArchive
      <4>2. at[p] \in Workspaces
        OBVIOUS
      <4>3. t \in Seen
        BY <4>2, <1>a DEF Dirs, Stored
      <4> QED
        BY <4>1, <4>3
    <3>2. snap[p] \in Taking
      OBVIOUS
    <3>3. /\ snap'[p].manifest = snap[p].manifest /\ snap'[p].archive = t
          /\ \A q \in Procs \ {p} : snap'[q] = snap[q]
      BY <3>1, <3>2 DEF Taking
    <3>4. UNCHANGED <<target, edits, store, entries, tree, stage, displaced>>
      BY <2>2 DEF SnapshotArchive
    <3>5. Held'
      BY <3>3, <3>4, <1>a, <1>c DEF Held
    <3> QED
      BY <3>4, <3>5, <1>b, <1>d, <1>f
  <2>3. CASE SnapshotPublish(p) \/ PruneDrop(p) \/ UndoEntries(p) \/ ClearEntries(p)
    <3>1. /\ UNCHANGED <<target, snap, edits, tree, stage, displaced>>
          /\ \A w \in Workspaces : entries'[w] \subseteq entries[w] \cup {target[p].manifest}
          /\ \A w \in Workspaces : store'[w] \subseteq store[w] \cup {snap[p]}
      <4>1. CASE SnapshotPublish(p)
        BY <4>1 DEF SnapshotPublish
      <4>2. CASE PruneDrop(p)
        BY <4>2 DEF PruneDrop
      <4>3. CASE UndoEntries(p) \/ ClearEntries(p)
        BY <4>3 DEF UndoEntries, ClearEntries
      <4> QED
        BY <2>3, <4>1, <4>2, <4>3
    <3>2. Stored'
      <4>1. /\ {target[p].manifest, snap[p].manifest, snap[p].archive} \subseteq Seen
            /\ Seen' = Seen
        BY <3>1, <1>a, <1>c DEF Held
      <4>2. \A w \in Workspaces : entries'[w] \subseteq Seen
        BY <3>1, <4>1, <1>a DEF Stored
      <4>3. \A w \in Workspaces : \A c \in store'[w] : {c.manifest, c.archive} \subseteq Seen
        BY <3>1, <4>1, <1>a DEF Stored
      <4> QED
        BY <4>1, <4>2, <4>3 DEF Stored
    <3> QED
      BY <3>1, <3>2, <1>b, <1>e, <1>f
  <2>4. CASE PruneDone(p) \/ ClearJournal(p)
    <3>1. UNCHANGED <<edits, store, entries, tree, stage, displaced>>
      BY <2>4 DEF PruneDone, ClearJournal
    <3>2. \A q \in Procs : /\ target'[q] \in {target[q], NoCheckpoint}
                           /\ snap'[q] \in {snap[q], NoCheckpoint}
      BY <2>4 DEF PruneDone, ClearJournal
    <3>3. Held'
      BY <3>1, <3>2, <1>g
    <3> QED
      BY <3>1, <3>3, <1>b, <1>d, <1>f
  <2>5. CASE UndoCheck(p) \/ UndoJournal(p) \/ UndoVerify(p) \/ RecoverVerify(p)
    BY <2>5, <1>b, <1>d, <1>e, <1>f DEF UndoCheck, UndoJournal, UndoVerify, RecoverVerify
  <2>6. CASE UndoStage(p) \/ UndoExchange(p) \/ UndoMoveAway(p) \/ UndoMoveIn(p)
             \/ UndoSweep(p) \/ RecoverPlace(p) \/ RecoverSweep(p)
    <3>0. {tree[at[p]], stage[at[p]], displaced[at[p]], target[p].archive, NoTree} \subseteq Seen
      BY <1>a DEF Dirs, Held
    <3>1. /\ UNCHANGED <<edits, store, entries>>
          /\ \A w \in Workspaces \ {at[p]} :
               tree'[w] = tree[w] /\ stage'[w] = stage[w] /\ displaced'[w] = displaced[w]
      BY <2>6 DEF UndoStage, UndoExchange, UndoMoveAway, UndoMoveIn, UndoSweep, RecoverPlace,
         RecoverSweep
    <3>2. {tree'[at[p]], stage'[at[p]], displaced'[at[p]]} \subseteq
              {tree[at[p]], stage[at[p]], displaced[at[p]], target[p].archive, NoTree}
      BY <2>6 DEF UndoStage, UndoExchange, UndoMoveAway, UndoMoveIn, UndoSweep, RecoverPlace,
         RecoverSweep
    <3>3. Dirs'
      BY <3>0, <3>1, <3>2, <1>a, <1>c DEF Dirs
    <3>4. \A q \in Procs : /\ target'[q] \in {target[q], NoCheckpoint}
                           /\ snap'[q] \in {snap[q], NoCheckpoint}
      BY <2>6 DEF UndoStage, UndoExchange, UndoMoveAway, UndoMoveIn, UndoSweep, RecoverPlace,
         RecoverSweep
    <3>5. Held'
      BY <3>1, <3>4, <1>g
    <3> QED
      BY <3>1, <3>3, <3>5, <1>b, <1>d
  <2> QED
    BY <1>1, <2>1, <2>2, <2>3, <2>4, <2>5, <2>6 DEF Continue
<1>2. ASSUME NEW p \in Procs, Fail(p) \/ Crash(p) PROVE SoFar'
  <2>1. /\ UNCHANGED <<edits, store, entries, tree, displaced>>
        /\ \A w \in Workspaces : stage'[w] \in {stage[w], NoTree}
        /\ \A q \in Procs : /\ target'[q] \in {target[q], NoCheckpoint}
                             /\ snap'[q] \in {snap[q], NoCheckpoint}
    BY <1>2 DEF Fail, Crash
  <2>2. Dirs' /\ Held'
    BY <2>1, <1>g, <1>h
  <2> QED
    BY <2>1, <2>2, <1>b, <1>d
<1>3. ASSUME NEW p \in Procs, NEW w \in Workspaces, Call(p, w) PROVE SoFar'
  <2>1. /\ UNCHANGED <<edits, store, entries, tree, snap>>
        /\ \A v \in Workspaces : /\ stage'[v] \in {stage[v], NoTree}
                                 /\ displaced'[v] \in {displaced[v], NoTree}
        /\ \A q \in Procs : target'[q] = target[q] \/ target'[q] \in store[w]
    BY <1>3 DEF Call, Snapshot, Undo, Prune, RecoverNothing, Recover, Reap, Without
  <2>2. Dirs'
    BY <2>1, <1>h
  <2>3. Held'
    <3>1. ASSUME NEW q \in Procs
          PROVE  /\ {target'[q].manifest, target'[q].archive} \subseteq Seen
                 /\ {snap'[q].manifest, snap'[q].archive} \subseteq Seen
      <4>1. target'[q] = target[q] \/ target'[q] \in store[w]
        BY <2>1
      <4>2. {target'[q].manifest, target'[q].archive} \subseteq Seen
        BY <4>1, <1>a DEF Held, Stored
      <4>3. {snap'[q].manifest, snap'[q].archive} \subseteq Seen
        BY <2>1, <1>a DEF Held
      <4> QED
        BY <4>2, <4>3
    <3>2. Seen' = Seen
      BY <2>1, <1>c
    <3> QED
      BY <3>1, <3>2 DEF Held
  <2> QED
    BY <2>1, <2>2, <2>3, <1>b, <1>d
<1>4. ASSUME NEW w \in Workspaces, UserEdit(w) PROVE SoFar'
  <2>1. /\ edits' = edits + 1 /\ edits \in Nat
        /\ UNCHANGED <<store, entries, stage, displaced, target, snap>>
        /\ \A v \in Workspaces : tree'[v] \in {tree[v], edits + 1}
    BY <1>4 DEF UserEdit
  <2>2. Seen \subseteq Seen' /\ edits + 1 \in Seen'
    BY <2>1 DEF Seen
  <2>3. Dirs'
    BY <2>1, <2>2, <1>a DEF Dirs
  <2>4. Stored'
    BY <2>1, <2>2, <1>a DEF Stored
  <2>5. Held'
    <3>1. \A q \in Procs : {target[q].manifest, target[q].archive,
                            snap[q].manifest, snap[q].archive} \subseteq Seen'
      BY <2>2, <1>a DEF Held
    <3> QED
      BY <2>1, <3>1 DEF Held
  <2> QED
    BY <2>3, <2>4, <2>5, <1>b
<1>5. CASE UNCHANGED vars
  BY <1>5, <1>b, <1>d, <1>e, <1>f DEF vars
<1> QED
  BY <1>1, <1>2, <1>3, <1>4, <1>5 DEF Next

(* What is archived is what was scanned.                                   *)
LEMMA TakenWholeStep ==
    ASSUME "operation" \notin EditDuring
    PROVE  TypeOK /\ LockHeld /\ Present /\ TakenWhole /\ [Next]_vars => TakenWhole'
<1> SUFFICES ASSUME TypeOK, LockHeld, Present, TakenWhole, [Next]_vars PROVE TakenWhole'
  OBVIOUS
<1> USE DEF TypeOK, TakenWhole
<1>1. ASSUME NEW p \in Procs, Continue(p) PROVE TakenWhole'
  <2>1. CASE SnapshotScan(p)
    BY <2>1 DEF SnapshotScan, Reap
  <2>2. CASE SnapshotArchive(p)
    <3>1. snap'[p].archive = tree[at[p]] /\ snap'[p].manifest = snap[p].manifest
      <4>1. PICK t \in {tree[at[p]]} \cup
                     {c.archive : c \in {d \in store[at[p]] : d.manifest = snap[p].manifest}} :
              snap' = [snap EXCEPT ![p].archive = t]
        BY <2>2 DEF SnapshotArchive
      <4>2. t = tree[at[p]]
        BY <2>2, <4>1 DEF SnapshotArchive
      <4>3. snap[p] \in Taking
        OBVIOUS
      <4> QED
        BY <4>1, <4>2, <4>3 DEF Taking
    <3>2. /\ \A q \in Procs \ {p} : pc'[q] = pc[q] /\ snap'[q] = snap[q]
          /\ pc[p] = "s_archive" /\ UNCHANGED <<tree, store, at>>
      BY <2>2 DEF SnapshotArchive
    <3> QED
      BY <3>1, <3>2
  <2>3. CASE SnapshotPublish(p)
    BY <2>3 DEF SnapshotPublish
  <2>4. CASE PruneDrop(p) \/ PruneDone(p)
    <3>1. CASE PruneDrop(p)
      BY <3>1 DEF PruneDrop
    <3>2. CASE PruneDone(p)
      BY <3>2 DEF PruneDone
    <3> QED
      BY <2>4, <3>1, <3>2
  <2>5. CASE UndoStage(p) \/ UndoCheck(p) \/ UndoEntries(p) \/ UndoJournal(p)
    BY <2>5 DEF UndoStage, UndoCheck, UndoEntries, UndoJournal
  <2>6. CASE UndoExchange(p) \/ UndoMoveAway(p) \/ UndoMoveIn(p)
    <3>1. /\ Busy(p) /\ UNCHANGED <<store, at, snap>>
          /\ \A w \in Workspaces \ {at[p]} : tree'[w] = tree[w]
          /\ \A q \in Procs \ {p} : pc'[q] = pc[q]
          /\ pc'[p] \in {"u_verify", "u_second"}
      BY <2>6 DEF UndoExchange, UndoMoveAway, UndoMoveIn
    <3>2. \A q \in Procs \ {p} : Busy(q) => tree'[at[q]] = tree[at[q]]
      BY <3>1, Alone
    <3> QED
      BY <3>1, <3>2
  <2>7. CASE UndoVerify(p) \/ UndoSweep(p) \/ ClearEntries(p) \/ ClearJournal(p)
    <3>1. CASE UndoVerify(p)
      BY <3>1 DEF UndoVerify
    <3>2. CASE UndoSweep(p)
      BY <3>2 DEF UndoSweep
    <3>3. CASE ClearEntries(p)
      BY <3>3 DEF ClearEntries
    <3>4. CASE ClearJournal(p)
      BY <3>4 DEF ClearJournal
    <3> QED
      BY <2>7, <3>1, <3>2, <3>3, <3>4
  <2>8. CASE RecoverPlace(p)
    <3>1. /\ pc[p] = "r_place" /\ UNCHANGED store
          /\ \A q \in Procs \ {p} : pc'[q] = pc[q] /\ at'[q] = at[q] /\ snap'[q] = snap[q]
          /\ \A w \in Workspaces \ {at[p]} : tree'[w] = tree[w]
          /\ pc'[p] \in {"r_verify", "idle"}
      BY <2>8 DEF RecoverPlace
    <3>2. \A q \in Procs \ {p} : Busy(q) => tree'[at[q]] = tree[at[q]]
      BY <3>1, Alone
    <3> QED
      BY <3>1, <3>2, SMTT(30)
  <2>9. CASE RecoverVerify(p) \/ RecoverSweep(p)
    BY <2>9 DEF RecoverVerify, RecoverSweep
  <2> QED
    BY <1>1, <2>1, <2>2, <2>3, <2>4, <2>5, <2>6, <2>7, <2>8, <2>9 DEF Continue
<1>2. ASSUME NEW p \in Procs, Fail(p) \/ Crash(p) PROVE TakenWhole'
  <2>1. CASE Fail(p)
    BY <2>1 DEF Fail
  <2>2. CASE Crash(p)
    BY <2>2 DEF Crash
  <2> QED
    BY <1>2, <2>1, <2>2
<1>3. ASSUME NEW p \in Procs, NEW w \in Workspaces, Call(p, w) PROVE TakenWhole'
  BY <1>3 DEF Call, Snapshot, Undo, Prune, RecoverNothing, Recover, Reap
<1>4. ASSUME NEW w \in Workspaces, UserEdit(w) PROVE TakenWhole'
  <2>1. /\ \A v \in Workspaces \ {w} : tree'[v] = tree[v]
        /\ UNCHANGED <<store, journal, displaced, pc, op, at, snap, target>>
    BY <1>4 DEF UserEdit
  <2>2. \A q \in Procs : Busy(q) => at[q] \in Workspaces \ {w}
    BY <1>4, QuietEdits
  <2> QED
    BY <2>1, <2>2
<1>5. CASE UNCHANGED vars
  BY <1>5 DEF vars
<1> QED
  BY <1>1, <1>2, <1>3, <1>4, <1>5 DEF Next

(* From the archive on the safety snapshot is the tree that the undo       *)
(* replaces, whoever works elsewhere.                                      *)
LEMMA SafetyIsTheTreeStep ==
    ASSUME "operation" \notin EditDuring
    PROVE  TypeOK /\ LockHeld /\ LabelOfOp /\ SettledBefore /\ TakenWhole /\ AtRest
             /\ SafetyIsTheTree /\ [Next]_vars => SafetyIsTheTree'
<1> SUFFICES ASSUME TypeOK, LockHeld, LabelOfOp, SettledBefore, TakenWhole, AtRest,
                    SafetyIsTheTree, [Next]_vars
             PROVE  SafetyIsTheTree'
  OBVIOUS
<1> USE DEF TypeOK, SafetyIsTheTree
<1>1. ASSUME NEW p \in Procs, Continue(p) PROVE SafetyIsTheTree'
  <2>1. CASE SnapshotScan(p) \/ SnapshotArchive(p)
    BY <2>1 DEF SnapshotScan, SnapshotArchive, Reap, Without
  <2>2. CASE SnapshotPublish(p)
    <3>1. op[p] = "undo" => snap[p].archive = tree[at[p]] /\ displaced[at[p]] = NoTree
      BY <2>2 DEF SnapshotPublish, TakenWhole, SettledBefore, BeforeJournal, AtRest
    <3> QED
      BY <2>2, <3>1 DEF SnapshotPublish
  <2>3. CASE PruneDrop(p) \/ PruneDone(p)
    BY <2>3 DEF PruneDrop, PruneDone
  <2>4. CASE UndoStage(p) \/ UndoCheck(p) \/ UndoEntries(p)
    BY <2>4 DEF UndoStage, UndoCheck, UndoEntries
  <2>5. CASE UndoJournal(p)
    BY <2>5, Alone DEF UndoJournal, LabelOfOp
  <2>6. CASE UndoExchange(p)
    BY <2>6, Alone, SMTT(30) DEF UndoExchange
  <2>7. CASE UndoMoveAway(p)
    <3>1. /\ Busy(p) /\ UNCHANGED <<at, op, snap, target, journal>>
          /\ \A w \in Workspaces \ {at[p]} : tree'[w] = tree[w] /\ displaced'[w] = displaced[w]
          /\ \A q \in Procs \ {p} : pc'[q] = pc[q]
          /\ pc'[p] = "u_second"
      BY <2>7 DEF UndoMoveAway
    <3> QED
      BY <3>1, Alone
  <2>8. CASE UndoMoveIn(p)
    BY <2>8, Alone DEF UndoMoveIn
  <2>9. CASE UndoVerify(p) \/ UndoSweep(p) \/ ClearEntries(p)
    BY <2>9, Alone DEF UndoVerify, UndoSweep, ClearEntries
  <2>10. CASE ClearJournal(p)
    <3>1. /\ Busy(p) /\ UNCHANGED <<tree, displaced>> /\ pc'[p] = "idle"
          /\ \A q \in Procs \ {p} : /\ pc'[q] = pc[q] /\ at'[q] = at[q] /\ snap'[q] = snap[q]
                                    /\ op'[q] = op[q] /\ target'[q] = target[q]
          /\ \A w \in Workspaces \ {at[p]} : journal'[w] = journal[w]
      BY <2>10 DEF ClearJournal
    <3>2. \A q \in Procs \ {p} : Busy(q) => journal'[at[q]] = journal[at[q]]
      BY <3>1, Alone
    <3> QED
      BY <3>1, <3>2
  <2>11. CASE RecoverPlace(p)
    <3>1. /\ pc[p] = "r_place" /\ UNCHANGED <<store, journal>>
          /\ \A q \in Procs \ {p} : /\ pc'[q] = pc[q] /\ at'[q] = at[q] /\ snap'[q] = snap[q]
                                    /\ op'[q] = op[q] /\ target'[q] = target[q]
          /\ \A w \in Workspaces \ {at[p]} : tree'[w] = tree[w] /\ displaced'[w] = displaced[w]
          /\ pc'[p] \in {"r_verify", "idle"}
      BY <2>11 DEF RecoverPlace
    <3>2. \A q \in Procs \ {p} :
            Busy(q) => tree'[at[q]] = tree[at[q]] /\ displaced'[at[q]] = displaced[at[q]]
      BY <3>1, Alone
    <3> QED
      BY <3>1, <3>2
  <2>12. CASE RecoverVerify(p) \/ RecoverSweep(p)
    BY <2>12, Alone DEF RecoverVerify, RecoverSweep
  <2> QED
    BY <1>1, <2>1, <2>2, <2>3, <2>4, <2>5, <2>6, <2>7, <2>8, <2>9, <2>10, <2>11, <2>12
       DEF Continue
<1>2. ASSUME NEW p \in Procs, Fail(p) \/ Crash(p) PROVE SafetyIsTheTree'
  <2>1. CASE Fail(p)
    BY <2>1 DEF Fail
  <2>2. CASE Crash(p)
    BY <2>2 DEF Crash
  <2> QED
    BY <1>2, <2>1, <2>2
<1>3. ASSUME NEW p \in Procs, NEW w \in Workspaces, Call(p, w) PROVE SafetyIsTheTree'
  BY <1>3 DEF Call, Snapshot, Undo, Prune, RecoverNothing, Recover, Reap, Without
<1>4. ASSUME NEW w \in Workspaces, UserEdit(w) PROVE SafetyIsTheTree'
  <2>1. /\ \A v \in Workspaces \ {w} : tree'[v] = tree[v]
        /\ UNCHANGED <<store, journal, displaced, pc, op, at, snap, target>>
    BY <1>4 DEF UserEdit
  <2>2. \A q \in Procs : Busy(q) => at[q] \in Workspaces \ {w}
    BY <1>4, QuietEdits
  <2> QED
    BY <2>1, <2>2
<1>5. CASE UNCHANGED vars
  BY <1>5 DEF vars
<1> QED
  BY <1>1, <1>2, <1>3, <1>4, <1>5 DEF Next

(* Until its journal is cleared again the workspace of an operation is not *)
(* settled, and recover() finds the entries that it asked for.             *)
LEMMA BehindJournalStep ==
    ASSUME "operation" \notin EditDuring
    PROVE  TypeOK /\ LockHeld /\ LabelOfOp /\ BehindJournal /\ [Next]_vars => BehindJournal'
<1> SUFFICES ASSUME TypeOK, LockHeld, LabelOfOp, BehindJournal, [Next]_vars
             PROVE  BehindJournal'
  OBVIOUS
<1> USE DEF TypeOK, BehindJournal
<1>1. ASSUME NEW p \in Procs, Continue(p) PROVE BehindJournal'
  <2> DEFINE Alike(q) == /\ pc'[q] = pc[q] /\ at'[q] = at[q]
                         /\ journal'[at[q]] = journal[at[q]] /\ entries'[at[q]] = entries[at[q]]
                         /\ tree'[at[q]] = tree[at[q]]
                         /\ stage'[at[q]] \in {stage[at[q]], NoTree}
                         /\ displaced'[at[q]] \in {displaced[at[q]], NoTree}
             Own == /\ pc'[p] \in {"u_swap", "u_second", "u_verify", "u_sweep"} \cup RecoverLabels
                          \cup ClearLabels => journal'[at'[p]] # {}
                    /\ pc'[p] = "u_second" => tree'[at'[p]] = NoTree
                    /\ pc'[p] \in ClearLabels => /\ stage'[at'[p]] = NoTree
                                                 /\ displaced'[at'[p]] = NoTree
                    /\ pc'[p] \in RecoverLabels => entries'[at'[p]] # {}
  <2>0. ASSUME \A q \in Procs \ {p} : Busy(q) => Alike(q),
               \A q \in Procs \ {p} : pc'[q] = pc[q], Own
        PROVE  BehindJournal'
    <3> SUFFICES ASSUME NEW q \in Procs
                 PROVE  /\ pc'[q] \in {"u_swap", "u_second", "u_verify", "u_sweep"}
                              \cup RecoverLabels \cup ClearLabels => journal'[at'[q]] # {}
                        /\ pc'[q] = "u_second" => tree'[at'[q]] = NoTree
                        /\ pc'[q] \in ClearLabels => /\ stage'[at'[q]] = NoTree
                                                     /\ displaced'[at'[q]] = NoTree
                        /\ pc'[q] \in RecoverLabels => entries'[at'[q]] # {}
      OBVIOUS
    <3>1. CASE q = p
      BY <2>0, <3>1
    <3>2. CASE q # p /\ Busy(q)
      <4>1. Alike(q)
        BY <2>0, <3>2
      <4>2. /\ pc[q] \in {"u_swap", "u_second", "u_verify", "u_sweep"} \cup RecoverLabels
                       \cup ClearLabels => journal[at[q]] # {}
            /\ pc[q] = "u_second" => tree[at[q]] = NoTree
            /\ pc[q] \in ClearLabels => stage[at[q]] = NoTree /\ displaced[at[q]] = NoTree
            /\ pc[q] \in RecoverLabels => entries[at[q]] # {}
        OBVIOUS
      <4> QED
        BY <4>1, <4>2
    <3>3. CASE q # p /\ ~Busy(q)
      BY <2>0, <3>3
    <3> QED
      BY <3>1, <3>2, <3>3
  <2>1. CASE SnapshotScan(p)
    BY <2>0, <2>1 DEF SnapshotScan, Reap, Without
  <2>2. CASE SnapshotArchive(p) \/ SnapshotPublish(p)
    BY <2>0, <2>2 DEF SnapshotArchive, SnapshotPublish
  <2>4. CASE PruneDrop(p) \/ PruneDone(p)
    BY <2>0, <2>4 DEF PruneDrop, PruneDone
  <2>5. CASE UndoStage(p) \/ UndoEntries(p)
    <3>1. \A q \in Procs \ {p} : Busy(q) => Alike(q)
      BY <2>5, Alone DEF UndoStage, UndoEntries
    <3> QED
      BY <2>0, <2>5, <3>1 DEF UndoStage, UndoEntries
  <2>6. CASE UndoCheck(p) \/ UndoVerify(p)
    BY <2>0, <2>6 DEF UndoCheck, UndoVerify
  <2>7. CASE UndoJournal(p)
    <3>1. \A q \in Procs \ {p} : Busy(q) => Alike(q)
      BY <2>7, Alone DEF UndoJournal
    <3>2. pc'[p] = "u_swap" /\ at'[p] = at[p] /\ journal'[at[p]] # {}
      BY <2>7 DEF UndoJournal
    <3>3. \A q \in Procs \ {p} : pc'[q] = pc[q]
      BY <2>7 DEF UndoJournal
    <3> QED
      BY <2>0, <3>1, <3>2, <3>3
  <2>8. CASE UndoExchange(p) \/ UndoMoveIn(p)
    <3>1. \A q \in Procs \ {p} : Busy(q) => Alike(q)
      BY <2>8, Alone DEF UndoExchange, UndoMoveIn
    <3> QED
      BY <2>0, <2>8, <3>1 DEF UndoExchange, UndoMoveIn
  <2>9. CASE UndoMoveAway(p)
    <3>1. \A q \in Procs \ {p} : Busy(q) => Alike(q)
      BY <2>9, Alone DEF UndoMoveAway
    <3> QED
      BY <2>0, <2>9, <3>1 DEF UndoMoveAway
  <2>10. CASE UndoSweep(p)
    <3>1. \A q \in Procs \ {p} : Busy(q) => Alike(q)
      BY <2>10, Alone DEF UndoSweep
    <3> QED
      BY <2>0, <2>10, <3>1 DEF UndoSweep
  <2>11. CASE ClearEntries(p)
    <3>1. \A q \in Procs \ {p} : Busy(q) => Alike(q)
      BY <2>11, Alone DEF ClearEntries
    <3> QED
      BY <2>0, <2>11, <3>1 DEF ClearEntries
  <2>12. CASE ClearJournal(p)
    <3>1. \A q \in Procs \ {p} : Busy(q) => Alike(q)
      BY <2>12, Alone DEF ClearJournal
    <3> QED
      BY <2>0, <2>12, <3>1 DEF ClearJournal
  <2>13. CASE RecoverPlace(p)
    <3>1. \A q \in Procs \ {p} : Busy(q) => Alike(q)
      BY <2>13, Alone DEF RecoverPlace
    <3> QED
      BY <2>0, <2>13, <3>1 DEF RecoverPlace
  <2>14. CASE RecoverVerify(p)
    BY <2>0, <2>14 DEF RecoverVerify
  <2>15. CASE RecoverSweep(p)
    <3>1. \A q \in Procs \ {p} : Busy(q) => Alike(q)
      BY <2>15, Alone DEF RecoverSweep
    <3> QED
      BY <2>0, <2>15, <3>1 DEF RecoverSweep
  <2> QED
    BY <1>1, <2>1, <2>2, <2>4, <2>5, <2>6, <2>7, <2>8, <2>9, <2>10, <2>11, <2>12, <2>13,
       <2>14, <2>15 DEF Continue
<1>2. ASSUME NEW p \in Procs, Fail(p) \/ Crash(p) PROVE BehindJournal'
  <2>1. /\ UNCHANGED <<journal, entries, tree, displaced>>
        /\ \A w \in Workspaces : stage'[w] \in {stage[w], NoTree}
        /\ pc'[p] = "idle"
        /\ \A q \in Procs \ {p} : pc'[q] = pc[q] /\ at'[q] = at[q]
    BY <1>2 DEF Fail, Crash
  <2> QED
    BY <2>1
<1>3. ASSUME NEW p \in Procs, NEW w \in Workspaces, Call(p, w) PROVE BehindJournal'
  BY <1>3 DEF Call, Snapshot, Undo, Prune, RecoverNothing, Recover, Reap, Without
<1>4. ASSUME NEW w \in Workspaces, UserEdit(w) PROVE BehindJournal'
  <2>1. /\ \A v \in Workspaces \ {w} : tree'[v] = tree[v]
        /\ UNCHANGED <<journal, entries, displaced, stage, pc, at>>
    BY <1>4 DEF UserEdit
  <2>2. \A q \in Procs : Busy(q) => at[q] \in Workspaces \ {w}
    BY <1>4, QuietEdits
  <2> QED
    BY <2>1, <2>2
<1>5. CASE UNCHANGED vars
  BY <1>5 DEF vars
<1> QED
  BY <1>1, <1>2, <1>3, <1>4, <1>5 DEF Next

(* Who may drop a checkpoint of a settled workspace, except an undo of its *)
(* own, has just reaped what was staged there.                             *)
LEMMA ReapedFirstStep ==
    TypeOK /\ LockHeld /\ LabelOfOp /\ ReapedFirst /\ [Next]_vars => ReapedFirst'
<1> SUFFICES ASSUME TypeOK, LockHeld, LabelOfOp, ReapedFirst, [Next]_vars
             PROVE  ReapedFirst'
  OBVIOUS
<1> USE DEF TypeOK, ReapedFirst
<1>1. ASSUME NEW p \in Procs, Continue(p) PROVE ReapedFirst'
  <2> DEFINE Alike(q) == /\ pc'[q] = pc[q] /\ at'[q] = at[q] /\ op'[q] = op[q]
                         /\ journal'[at[q]] = journal[at[q]]
                         /\ stage'[at[q]] \in {stage[at[q]], NoTree}
             Own == /\ pc'[p] \in {"s_archive", "s_publish", "prune"} /\ op'[p] # "undo"
                         /\ journal'[at'[p]] = {} => stage'[at'[p]] = NoTree
  <2>0. ASSUME \A q \in Procs \ {p} : Busy(q) => Alike(q),
               \A q \in Procs \ {p} : pc'[q] = pc[q], Own
        PROVE  ReapedFirst'
    BY <2>0
  <2>1. CASE SnapshotScan(p)
    BY <2>0, <2>1 DEF SnapshotScan, Reap, Without, Debris
  <2>2. CASE SnapshotArchive(p) \/ SnapshotPublish(p)
    BY <2>0, <2>2 DEF SnapshotArchive, SnapshotPublish
  <2>4. CASE PruneDrop(p) \/ PruneDone(p)
    BY <2>0, <2>4 DEF PruneDrop, PruneDone
  <2>5. CASE UndoStage(p) \/ UndoEntries(p)
    <3>1. \A q \in Procs \ {p} : Busy(q) => Alike(q)
      BY <2>5, Alone DEF UndoStage, UndoEntries
    <3> QED
      BY <2>0, <2>5, <3>1 DEF UndoStage, UndoEntries
  <2>6. CASE UndoCheck(p) \/ UndoVerify(p) \/ UndoMoveAway(p)
    BY <2>0, <2>6 DEF UndoCheck, UndoVerify, UndoMoveAway
  <2>7. CASE UndoJournal(p) \/ ClearEntries(p)
    <3>1. \A q \in Procs \ {p} : Busy(q) => Alike(q)
      BY <2>7, Alone DEF UndoJournal, ClearEntries
    <3> QED
      BY <2>0, <2>7, <3>1 DEF UndoJournal, ClearEntries
  <2>8. CASE UndoExchange(p) \/ UndoMoveIn(p)
    <3>1. \A q \in Procs \ {p} : Busy(q) => Alike(q)
      BY <2>8, Alone DEF UndoExchange, UndoMoveIn
    <3> QED
      BY <2>0, <2>8, <3>1 DEF UndoExchange, UndoMoveIn
  <2>10. CASE UndoSweep(p)
    <3>1. \A q \in Procs \ {p} : Busy(q) => Alike(q)
      BY <2>10, Alone DEF UndoSweep
    <3> QED
      BY <2>0, <2>10, <3>1 DEF UndoSweep
  <2>12. CASE ClearJournal(p)
    <3>1. \A q \in Procs \ {p} : Busy(q) => Alike(q)
      BY <2>12, Alone DEF ClearJournal
    <3>2. pc'[p] = "idle" /\ \A q \in Procs \ {p} : pc'[q] = pc[q]
      BY <2>12 DEF ClearJournal
    <3> QED
      BY <2>0, <3>1, <3>2
  <2>13. CASE RecoverPlace(p)
    <3>1. \A q \in Procs \ {p} : Busy(q) => Alike(q)
      BY <2>13, Alone DEF RecoverPlace
    <3> QED
      BY <2>0, <2>13, <3>1 DEF RecoverPlace
  <2>14. CASE RecoverVerify(p) \/ RecoverSweep(p)
    BY <2>0, <2>14 DEF RecoverVerify, RecoverSweep
  <2> QED
    BY <1>1, <2>1, <2>2, <2>4, <2>5, <2>6, <2>7, <2>8, <2>10, <2>12, <2>13, <2>14 DEF Continue
<1>2. ASSUME NEW p \in Procs, Fail(p) \/ Crash(p) PROVE ReapedFirst'
  BY <1>2 DEF Fail, Crash
<1>3. ASSUME NEW p \in Procs, NEW w \in Workspaces, Call(p, w) PROVE ReapedFirst'
  <2>1. CASE Snapshot(p, w) \/ Recover(p, w)
    <3>1. /\ UNCHANGED <<stage, journal>> /\ at' = [at EXCEPT ![p] = w]
          /\ \A q \in Procs \ {p} : pc'[q] = pc[q] /\ op'[q] = op[q]
          /\ pc'[p] \in {"s_scan", "r_place"}
      BY <2>1 DEF Snapshot, Recover
    <3> QED
      BY <3>1
  <2>2. CASE Undo(p, w)
    <3>1. /\ \A v \in Workspaces : stage'[v] \in {stage[v], NoTree}
          /\ at' = [at EXCEPT ![p] = w] /\ UNCHANGED journal
          /\ pc[p] = "idle" /\ pc' = [pc EXCEPT ![p] = "u_stage"] /\ op' = [op EXCEPT ![p] = "undo"]
      BY <2>2 DEF Undo, Reap, Without
    <3> QED
      BY <3>1
  <2>4. CASE RecoverNothing(p, w)
    <3>1. /\ \A v \in Workspaces : stage'[v] \in {stage[v], NoTree}
          /\ UNCHANGED <<journal, pc, at, op>>
      BY <2>4 DEF RecoverNothing, Reap, Without
    <3> QED
      BY <3>1
  <2>3. CASE Prune(p, w)
    <3>1. /\ journal[w] = {} => stage'[w] = NoTree
          /\ \A v \in Workspaces : stage'[v] \in {stage[v], NoTree}
          /\ at' = [at EXCEPT ![p] = w] /\ UNCHANGED journal
          /\ pc[p] = "idle" /\ pc' = [pc EXCEPT ![p] = "prune"] /\ op' = [op EXCEPT ![p] = "prune"]
      BY <2>3 DEF Prune, Reap, Without, Debris
    <3> QED
      BY <3>1
  <2> QED
    BY <1>3, <2>1, <2>2, <2>3, <2>4 DEF Call
<1>4. ASSUME NEW w \in Workspaces, UserEdit(w) PROVE ReapedFirst'
  BY <1>4 DEF UserEdit
<1>5. CASE UNCHANGED vars
  BY <1>5 DEF vars
<1> QED
  BY <1>1, <1>2, <1>3, <1>4, <1>5 DEF Next

(* A settled workspace loses nothing: a copy is staged beside it only as   *)
(* long as the copied checkpoint is in the store.                          *)
LEMMA AtRestStep ==
    IInv /\ TakenWhole /\ AtRest /\ ReapedFirst /\ BehindJournal /\ [Next]_vars
             => AtRest'
<1> SUFFICES ASSUME IInv, TakenWhole, AtRest, ReapedFirst, BehindJournal, [Next]_vars
             PROVE  AtRest'
  OBVIOUS
<1> USE DEF IInv, TypeOK, AtRest, Archives
<1> DEFINE Alike(w) == /\ journal'[w] = journal[w]
                       /\ tree[w] # NoTree => tree'[w] # NoTree
                       /\ displaced'[w] \in {displaced[w], NoTree}
                       /\ stage'[w] \in {stage[w], NoTree} /\ store[w] \subseteq store'[w]
           Rests(w) == journal'[w] = {} =>
                         /\ tree'[w] # NoTree /\ displaced'[w] = NoTree
                         /\ stage'[w] \in {c.archive : c \in store'[w]} \cup {NoTree}
<1>0. ASSUME NEW w \in Workspaces, Alike(w) PROVE Rests(w)
  <2>1. {c.archive : c \in store[w]} \subseteq {c.archive : c \in store'[w]}
    BY <1>0
  <2> QED
    BY <1>0, <2>1
<1>1. ASSUME NEW p \in Procs, Continue(p) PROVE AtRest'
  <2> DEFINE w == at[p]
  <2>a. w \in Workspaces
    OBVIOUS
  <2>b. ASSUME \A v \in Workspaces \ {w} : Alike(v), Rests(w) PROVE AtRest'
    BY <1>0, <2>b
  <2>1. CASE SnapshotScan(p)
    <3>1. \A v \in Workspaces : Alike(v)
      BY <2>1 DEF SnapshotScan, Reap, Without
    <3> QED
      BY <1>0, <3>1
  <2>2. CASE SnapshotArchive(p) \/ PruneDone(p) \/ UndoCheck(p) \/ UndoEntries(p)
             \/ UndoVerify(p) \/ ClearEntries(p) \/ RecoverVerify(p)
    <3>1. \A v \in Workspaces : Alike(v)
      BY <2>2 DEF SnapshotArchive, PruneDone, UndoCheck, UndoEntries, UndoVerify,
         ClearEntries, RecoverVerify
    <3> QED
      BY <1>0, <3>1
  <2>3. CASE SnapshotPublish(p)
    <3>1. \A v \in Workspaces : Alike(v)
      BY <2>3 DEF SnapshotPublish
    <3> QED
      BY <1>0, <3>1
  <2>4. CASE PruneDrop(p)
    <3>1. PICK c \in Removable(p) : store' = [store EXCEPT ![w] = @ \ {c}]
      BY <2>4 DEF PruneDrop
    <3>2. /\ UNCHANGED <<tree, stage, displaced, journal>> /\ pc[p] = "prune"
          /\ op[p] \in {"snapshot", "undo", "prune"}
      BY <2>4 DEF PruneDrop, LabelOfOp
    <3>3. \A v \in Workspaces \ {w} : Alike(v)
      BY <3>1, <3>2
    <3>4. CASE op[p] = "undo"
      <4>1. /\ target[p] \in store[w] /\ stage[w] \in {target[p].manifest, NoTree}
            /\ target[p].archive = target[p].manifest
        BY <3>2, <3>4 DEF TargetKept, StagedVerified, TakenWhole
      <4>2. c # target[p]
        BY <3>4 DEF Removable, Protected
      <4>3. target[p] \in store'[w]
        BY <3>1, <4>1, <4>2
      <4>4. Rests(w)
        BY <3>2, <4>1, <4>3
      <4> QED
        BY <2>b, <3>3, <4>4
    <3>5. CASE op[p] # "undo"
      <4>1. journal[w] = {} => stage[w] = NoTree
        BY <3>2, <3>5 DEF ReapedFirst
      <4>2. Rests(w)
        BY <3>2, <4>1
      <4> QED
        BY <2>b, <3>3, <4>2
    <3> QED
      BY <3>4, <3>5
  <2>5. CASE UndoStage(p)
    <3>1. op[p] = "undo" /\ target[p] \in store[w]
      BY <2>5 DEF UndoStage, LabelOfOp, TargetKept
    <3>2. /\ stage' = [stage EXCEPT ![w] = target[p].archive]
          /\ UNCHANGED <<tree, displaced, store, journal>>
      BY <2>5 DEF UndoStage
    <3>3. stage'[w] \in {c.archive : c \in store'[w]}
      BY <3>1, <3>2
    <3>4. Rests(w) /\ \A v \in Workspaces \ {w} : Alike(v)
      BY <3>2, <3>3
    <3> QED
      BY <2>b, <3>4
  <2>6. CASE UndoJournal(p)
    <3>1. journal'[w] # {} /\ \A v \in Workspaces \ {w} : Alike(v)
      BY <2>6 DEF UndoJournal
    <3> QED
      BY <2>b, <3>1
  <2>7. CASE UndoExchange(p) \/ UndoMoveAway(p) \/ UndoMoveIn(p) \/ UndoSweep(p)
    <3>1. journal[w] # {}
      BY <2>7 DEF BehindJournal, UndoExchange, UndoMoveAway, UndoMoveIn, UndoSweep
    <3>2. journal'[w] = journal[w] /\ \A v \in Workspaces \ {w} : Alike(v)
      BY <2>7 DEF UndoExchange, UndoMoveAway, UndoMoveIn, UndoSweep
    <3> QED
      BY <2>b, <3>1, <3>2
  <2>8. CASE RecoverPlace(p) \/ RecoverSweep(p)
    <3>1. journal[w] # {}
      BY <2>8 DEF BehindJournal, RecoverPlace, RecoverSweep
    <3>2. journal'[w] = journal[w] /\ \A v \in Workspaces \ {w} : Alike(v)
      BY <2>8 DEF RecoverPlace, RecoverSweep
    <3> QED
      BY <2>b, <3>1, <3>2
  <2>9. CASE ClearJournal(p)
    <3>1. tree[w] # NoTree /\ stage[w] = NoTree /\ displaced[w] = NoTree
      BY <2>9 DEF ClearJournal, BehindJournal, Present
    <3>2. /\ UNCHANGED <<tree, stage, displaced, store>>
          /\ \A v \in Workspaces \ {w} : journal'[v] = journal[v]
      BY <2>9 DEF ClearJournal
    <3> QED
      BY <2>b, <3>1, <3>2
  <2> QED
    BY <1>1, <2>1, <2>2, <2>3, <2>4, <2>5, <2>6, <2>7, <2>8, <2>9 DEF Continue
<1>2. ASSUME NEW p \in Procs, Fail(p) \/ Crash(p) PROVE AtRest'
  <2>1. \A w \in Workspaces : Alike(w)
    BY <1>2 DEF Fail, Crash
  <2> QED
    BY <1>0, <2>1
<1>3. ASSUME NEW p \in Procs, NEW w \in Workspaces, Call(p, w) PROVE AtRest'
  <2>1. \A v \in Workspaces : Alike(v)
    BY <1>3 DEF Call, Snapshot, Undo, Prune, RecoverNothing, Recover, Reap, Without
  <2> QED
    BY <1>0, <2>1
<1>4. ASSUME NEW w \in Workspaces, UserEdit(w) PROVE AtRest'
  <2>1. \A v \in Workspaces : Alike(v)
    BY <1>4 DEF UserEdit
  <2> QED
    BY <1>0, <2>1
<1>5. CASE UNCHANGED vars
  BY <1>5 DEF vars
<1> QED
  BY <1>1, <1>2, <1>3, <1>4, <1>5 DEF Next

(* What is swept away leaves an undo where it was.                         *)
LEMMA SweptIsHalfway ==
    ASSUME NEW w \in Workspaces, NEW own, NEW new, Halfway(w, own, new),
           tree'[w] = tree[w], stage'[w] \in {stage[w], NoTree},
           displaced'[w] \in {displaced[w], NoTree},
           entries'[w] = entries[w], store'[w] \subseteq store[w]
    PROVE  Halfway(w, own, new)'
BY DEF Halfway, EditedSince

(* Wherever an undo stops, its workspace and the directories beside it are *)
(* the tree it replaces and the one it restores, or are gone.              *)
LEMMA UnfinishedStep ==
    ASSUME "operation" \notin EditDuring
    PROVE  IInv /\ QuietInv /\ [Next]_vars => \A w \in Workspaces : Unfinished(w)'
<1> SUFFICES ASSUME IInv, QuietInv, [Next]_vars
             PROVE  \A w \in Workspaces : Unfinished(w)'
  OBVIOUS
<1> USE DEF IInv, TypeOK, QuietInv
<1> DEFINE Alike(w) == /\ journal'[w] = journal[w] /\ entries'[w] = entries[w]
                       /\ tree'[w] = tree[w] /\ stage'[w] \in {stage[w], NoTree}
                       /\ displaced'[w] \in {displaced[w], NoTree}
                       /\ store'[w] \subseteq store[w]
                       /\ \A c \in store[w] : \A record \in journal[w] :
                            c.id = record[2] => c \in store'[w]
<1>0. ASSUME NEW w \in Workspaces, Alike(w) PROVE Unfinished(w)'
  <2> SUFFICES ASSUME NEW record \in journal[w]
               PROVE  \/ /\ entries'[w] = {} /\ tree'[w] # NoTree
                         /\ stage'[w] = NoTree /\ displaced'[w] = NoTree
                      \/ \E c \in store'[w], new \in Tree :
                          /\ c.id = record[2] /\ entries'[w] = {new}
                          /\ Halfway(w, c.archive, new)'
    BY <1>0 DEF Unfinished
  <2>1. CASE /\ entries[w] = {} /\ tree[w] # NoTree
             /\ stage[w] = NoTree /\ displaced[w] = NoTree
    BY <1>0, <2>1
  <2>2. CASE \E c \in store[w], new \in Tree :
               c.id = record[2] /\ entries[w] = {new} /\ Halfway(w, c.archive, new)
    <3>1. PICK c \in store[w], new \in Tree :
            c.id = record[2] /\ entries[w] = {new} /\ Halfway(w, c.archive, new)
      BY <2>2
    <3>2. Halfway(w, c.archive, new)'
      BY <1>0, <3>1, SweptIsHalfway
    <3> QED
      BY <1>0, <3>1, <3>2
  <2> QED
    BY <2>1, <2>2 DEF Unfinished
<1>1. ASSUME NEW p \in Procs, Continue(p) PROVE \A w \in Workspaces : Unfinished(w)'
  <2>a. PICK w \in Workspaces : w = at[p]
    OBVIOUS
  <2> USE <2>a
  <2>b. ASSUME \A v \in Workspaces \ {w} : Alike(v), Unfinished(w)'
        PROVE  \A v \in Workspaces : Unfinished(v)'
    BY <1>0, <2>b
  <2>1. CASE SnapshotScan(p)
    <3>1. \A v \in Workspaces : Alike(v)
      BY <2>1 DEF SnapshotScan, Reap, Without
    <3> QED
      BY <1>0, <3>1
  <2>2. CASE SnapshotArchive(p) \/ PruneDone(p) \/ UndoCheck(p) \/ UndoVerify(p)
             \/ RecoverVerify(p)
    <3>1. \A v \in Workspaces : Alike(v)
      BY <2>2 DEF SnapshotArchive, PruneDone, UndoCheck, UndoVerify, RecoverVerify
    <3> QED
      BY <1>0, <3>1
  <2>3. CASE SnapshotPublish(p)
    <3>1. journal[w] = {} /\ UNCHANGED journal
      BY <2>3 DEF SnapshotPublish, SettledBefore, BeforeJournal
    <3>2. \A v \in Workspaces \ {w} : Alike(v)
      BY <2>3 DEF SnapshotPublish
    <3> QED
      BY <2>b, <3>1, <3>2 DEF Unfinished
  <2>4. CASE PruneDrop(p)
    <3>1. PICK c \in Removable(p) : store' = [store EXCEPT ![w] = @ \ {c}]
      BY <2>4 DEF PruneDrop
    <3>2. /\ UNCHANGED <<tree, stage, displaced, journal, entries>> /\ pc[p] = "prune"
          /\ op[p] \in {"snapshot", "undo", "prune"}
      BY <2>4 DEF PruneDrop, LabelOfOp
    <3>3. \A v \in Workspaces \ {w} : Alike(v)
      BY <3>1, <3>2
    <3>4. CASE op[p] # "prune"
      <4>1. journal[w] = {}
        BY <3>2, <3>4 DEF SettledBefore, BeforeJournal
      <4> QED
        BY <2>b, <3>2, <3>3, <4>1 DEF Unfinished
    <3>5. CASE op[p] = "prune"
      <4>1. ~ \A d \in store[w] : d.id <= c.id
        BY <3>5 DEF Removable, Protected
      <4>2. \A record \in journal[w] : c.id # record[2]
        BY <4>1 DEF JournalNamesNewest
      <4>3. Alike(w)
        BY <3>1, <3>2, <4>2
      <4> QED
        BY <1>0, <3>3, <4>3
    <3> QED
      BY <3>4, <3>5
  <2>5. CASE UndoStage(p) \/ UndoEntries(p)
    <3>1. journal[w] = {}
      BY <2>5 DEF SettledBefore, BeforeJournal, UndoStage, UndoEntries
    <3>2. UNCHANGED journal /\ \A v \in Workspaces \ {w} : Alike(v)
      BY <2>5 DEF UndoStage, UndoEntries
    <3> QED
      BY <2>b, <3>1, <3>2 DEF Unfinished
  <2>6. CASE UndoJournal(p)
    <3>1. /\ pc[p] = "u_journal" /\ op[p] = "undo"
          /\ UNCHANGED <<tree, stage, displaced, entries, store>>
          /\ journal' = [journal EXCEPT ![w] = {<<target[p].id, snap[p].id>>}]
      BY <2>6 DEF UndoJournal, LabelOfOp
    <3>2. /\ snap[p] \in store[w] /\ target[p] \in store[w]
          /\ snap[p].archive = tree[w] /\ displaced[w] = NoTree
          /\ stage[w] \in {target[p].manifest, NoTree}
          /\ entries[w] = {target[p].manifest}
      BY <3>1 DEF SafetyKept, TargetKept, SafetyIsTheTree, StagedVerified
    <3>3. PICK c \in store[w], new \in Tree : c = snap[p] /\ new = target[p].manifest
      BY <3>2 DEF Checkpoint
    <3>4. Halfway(w, c.archive, new)'
      BY <3>1, <3>2, <3>3 DEF Halfway
    <3>5. Unfinished(w)'
      <4>1. \A record \in journal'[w] : record[2] = snap[p].id
        BY <3>1
      <4> QED
        BY <3>1, <3>2, <3>3, <3>4, <4>1 DEF Unfinished
    <3>6. \A v \in Workspaces \ {w} : Alike(v)
      BY <3>1
    <3> QED
      BY <2>b, <3>5, <3>6
  <2>7. CASE UndoExchange(p) \/ UndoMoveAway(p)
    <3>1. /\ pc[p] = "u_swap" /\ op[p] = "undo" /\ UNCHANGED <<journal, entries, store>>
          /\ \A v \in Workspaces \ {w} : /\ tree'[v] = tree[v] /\ stage'[v] = stage[v]
                                       /\ displaced'[v] = displaced[v]
          /\ \/ /\ stage[w] # NoTree /\ tree'[w] = stage[w] /\ stage'[w] = tree[w]
                /\ displaced'[w] = displaced[w]
             \/ tree'[w] = NoTree /\ displaced'[w] = tree[w] /\ stage'[w] = stage[w]
      BY <2>7 DEF UndoExchange, UndoMoveAway, LabelOfOp
    <3>2. /\ snap[p] \in store[w] /\ target[p] \in store[w]
          /\ snap[p].archive = tree[w] /\ displaced[w] = NoTree
          /\ journal[w] = {<<target[p].id, snap[p].id>>}
          /\ stage[w] \in {target[p].manifest, NoTree}
          /\ entries[w] = {target[p].manifest}
      BY <3>1 DEF SafetyKept, TargetKept, SafetyIsTheTree, StagedVerified
    <3>3. PICK c \in store[w], new \in Tree : c = snap[p] /\ new = target[p].manifest
      BY <3>2 DEF Checkpoint
    <3>4. Halfway(w, c.archive, new)'
      BY <3>1, <3>2, <3>3 DEF Halfway
    <3>5. Unfinished(w)'
      <4>1. \A record \in journal'[w] : record[2] = snap[p].id
        BY <3>1, <3>2
      <4>2. c \in store'[w] /\ entries'[w] = {new}
        BY <3>1, <3>2, <3>3
      <4>3. \A record \in journal'[w] :
              c.id = record[2] /\ entries'[w] = {new} /\ Halfway(w, c.archive, new)'
        BY <3>3, <3>4, <4>1, <4>2
      <4> QED
        BY <4>2, <4>3 DEF Unfinished
    <3>6. \A v \in Workspaces \ {w} : Alike(v)
      BY <3>1
    <3> QED
      BY <2>b, <3>5, <3>6
  <2>8. CASE UndoMoveIn(p) \/ RecoverPlace(p)
    <3>1. /\ UNCHANGED <<journal, entries, store>>
          /\ \A v \in Workspaces \ {w} : /\ tree'[v] = tree[v] /\ stage'[v] = stage[v]
                                       /\ displaced'[v] = displaced[v]
          /\ pc[p] = "u_second" \/ pc[p] = "r_place"
          /\ \/ tree'[w] = tree[w] /\ stage'[w] = stage[w] /\ displaced'[w] = displaced[w]
             \/ /\ tree[w] = NoTree /\ stage[w] # NoTree /\ tree'[w] = stage[w]
                /\ stage'[w] = NoTree /\ displaced'[w] = displaced[w]
             \/ /\ tree[w] = NoTree /\ stage[w] = NoTree /\ tree'[w] = displaced[w]
                /\ displaced[w] # NoTree /\ displaced'[w] = NoTree /\ stage'[w] = NoTree
      BY <2>8 DEF UndoMoveIn, RecoverPlace, BehindJournal
    <3>2. \A v \in Workspaces \ {w} : Alike(v)
      BY <3>1
    <3>3. ASSUME NEW own \in Tree, NEW new \in Tree, Halfway(w, own, new)
          PROVE  Halfway(w, own, new)'
      BY <3>1, <3>3 DEF Halfway, EditedSince
    <3>4. ASSUME NEW record \in journal[w]
          PROVE  \/ /\ entries'[w] = {} /\ tree'[w] # NoTree
                    /\ stage'[w] = NoTree /\ displaced'[w] = NoTree
                 \/ \E c \in store'[w], new \in Tree :
                      /\ c.id = record[2] /\ entries'[w] = {new}
                      /\ Halfway(w, c.archive, new)'
      <4>1. CASE /\ entries[w] = {} /\ tree[w] # NoTree
                 /\ stage[w] = NoTree /\ displaced[w] = NoTree
        BY <3>1, <4>1
      <4>2. CASE \E c \in store[w], new \in Tree :
                   c.id = record[2] /\ entries[w] = {new} /\ Halfway(w, c.archive, new)
        <5>1. PICK c \in store[w], new \in Tree :
                c.id = record[2] /\ entries[w] = {new} /\ Halfway(w, c.archive, new)
          BY <4>2
        <5>2. c.archive \in Tree
          BY DEF Checkpoint
        <5>3. Halfway(w, c.archive, new)'
          BY <3>3, <5>1, <5>2
        <5> QED
          BY <3>1, <5>1, <5>3
      <4> QED
        BY <4>1, <4>2 DEF Unfinished
    <3>5. Unfinished(w)'
      BY <3>1, <3>4 DEF Unfinished
    <3> QED
      BY <2>b, <3>2, <3>5
  <2>9. CASE UndoSweep(p) \/ RecoverSweep(p)
    <3>1. \A v \in Workspaces : Alike(v)
      BY <2>9 DEF UndoSweep, RecoverSweep
    <3> QED
      BY <1>0, <3>1
  <2>10. CASE ClearEntries(p)
    <3>1. /\ tree[w] # NoTree /\ stage[w] = NoTree /\ displaced[w] = NoTree
      BY <2>10 DEF ClearEntries, BehindJournal, Present
    <3>2. /\ UNCHANGED <<tree, stage, displaced, store, journal>> /\ entries'[w] = {}
          /\ \A v \in Workspaces \ {w} : Alike(v)
      BY <2>10 DEF ClearEntries
    <3> QED
      BY <2>b, <3>1, <3>2 DEF Unfinished
  <2>11. CASE ClearJournal(p)
    <3>1. journal'[w] = {} /\ \A v \in Workspaces \ {w} : Alike(v)
      BY <2>11 DEF ClearJournal
    <3> QED
      BY <2>b, <3>1 DEF Unfinished
  <2> QED
    BY <1>1, <2>1, <2>2, <2>3, <2>4, <2>5, <2>6, <2>7, <2>8, <2>9, <2>10, <2>11 DEF Continue
<1>2. ASSUME NEW p \in Procs, Fail(p) \/ Crash(p) PROVE \A w \in Workspaces : Unfinished(w)'
  <2>1. \A w \in Workspaces : Alike(w)
    BY <1>2 DEF Fail, Crash
  <2> QED
    BY <1>0, <2>1
<1>3. ASSUME NEW p \in Procs, NEW w \in Workspaces, Call(p, w)
      PROVE  \A v \in Workspaces : Unfinished(v)'
  <2>1. \A v \in Workspaces : Alike(v)
    BY <1>3 DEF Call, Snapshot, Undo, Prune, RecoverNothing, Recover, Reap, Without
  <2> QED
    BY <1>0, <2>1
<1>4. ASSUME NEW w \in Workspaces, UserEdit(w) PROVE \A v \in Workspaces : Unfinished(v)'
  <2>1. /\ tree' = [tree EXCEPT ![w] = edits + 1] /\ edits \in Nat
        /\ UNCHANGED <<stage, displaced, store, journal, entries>>
        /\ \A v \in Workspaces \ {w} : Alike(v)
    BY <1>4 DEF UserEdit
  <2>2. edits + 1 \notin Seen
    BY <2>1 DEF Seen
  <2>3. EditedSince(w)' /\ tree'[w] # NoTree
    BY <2>1, <2>2 DEF EditedSince, SoFar, Seen
  <2>4. ASSUME NEW own, NEW new, Halfway(w, own, new) PROVE Halfway(w, own, new)'
    BY <2>1, <2>3, <2>4 DEF Halfway
  <2>5. Unfinished(w)'
    <3> SUFFICES ASSUME NEW record \in journal[w]
                 PROVE  \/ /\ entries'[w] = {} /\ tree'[w] # NoTree
                           /\ stage'[w] = NoTree /\ displaced'[w] = NoTree
                        \/ \E c \in store'[w], new \in Tree :
                            /\ c.id = record[2] /\ entries'[w] = {new}
                            /\ Halfway(w, c.archive, new)'
      BY <2>1 DEF Unfinished
    <3> QED
      BY <2>1, <2>3, <2>4 DEF Unfinished
  <2> QED
    BY <1>0, <2>1, <2>5
<1>5. CASE UNCHANGED vars
  <2>1. \A w \in Workspaces : Alike(w)
    BY <1>5 DEF vars
  <2> QED
    BY <1>0, <2>1
<1> QED
  BY <1>1, <1>2, <1>3, <1>4, <1>5 DEF Next

(* Nothing is staged and nothing recorded at first.                        *)
LEMMA QuietInvInit == Init => QuietInv
BY DEF Init, QuietInv, SoFar, Seen, NoCheckpoint, TakenWhole, SafetyIsTheTree, AtRest, ReapedFirst, BehindJournal, Unfinished

(* Every step keeps what holds while nobody edits in the middle.           *)
LEMMA QuietInvHolds ==
    ASSUME "operation" \notin EditDuring
    PROVE  Spec => [](IInv /\ QuietInv)
<1>1. IInv /\ QuietInv /\ [Next]_vars => QuietInv'
  <2> SUFFICES ASSUME IInv, QuietInv, [Next]_vars PROVE QuietInv'
    OBVIOUS
  <2> USE DEF IInv, QuietInv
  <2>1. SoFar' /\ TakenWhole' /\ SafetyIsTheTree'
    BY SoFarStep, TakenWholeStep, SafetyIsTheTreeStep
  <2>2. AtRest' /\ ReapedFirst' /\ BehindJournal'
    BY AtRestStep, ReapedFirstStep, BehindJournalStep
  <2>3. \A w \in Workspaces : Unfinished(w)'
    BY UnfinishedStep
  <2> QED
    BY <2>1, <2>2, <2>3
<1> QED
  BY <1>1, InitIInv, IInvStep, QuietInvInit, PTL DEF Spec

-----------------------------------------------------------------------------
(* "rolled-back" is said of a workspace that is as it was, or that         *)
(* somebody has edited since: what recover then deletes is copies, or what *)
(* the safety snapshot holds.                                              *)
THEOREM RolledBackIsTrueQuiet ==
    ASSUME "operation" \notin EditDuring
    PROVE  Spec => []RolledBackIsTrue
<1>1. IInv /\ QuietInv => RolledBackIsTrue
  <2> SUFFICES ASSUME IInv, QuietInv, NEW p \in Procs,
                      pc[p] = "r_verify", RolledBack(at[p])
               PROVE  SaidAndSo(at[p])
    BY DEF RolledBackIsTrue
  <2>1. PICK w \in Workspaces : w = at[p]
    BY DEF IInv, TypeOK
  <2>2. /\ journal[w] # {} /\ entries[w] # {} /\ tree[w] # NoTree
        /\ entries[w] # {tree[w]}
    BY <2>1 DEF QuietInv, BehindJournal, IInv, Present, RolledBack
  <2>3. \A record \in journal[w] : \E c \in store[w], new \in Tree :
          c.id = record[2] /\ entries[w] = {new} /\ Halfway(w, c.archive, new)
    BY <2>2 DEF QuietInv, Unfinished
  <2>4. CASE EditedSince(w)
    <3>1. \A record \in journal[w] : \E c \in store[w] :
            /\ c.id = record[2]
            /\ {stage[w], displaced[w]} \ {NoTree} \subseteq entries[w] \cup {c.archive}
      BY <2>2, <2>3 DEF Halfway
    <3> QED
      BY <2>1, <2>4, <3>1 DEF SaidAndSo
  <2>5. CASE ~EditedSince(w)
    <3>1. PICK c \in store[w], new \in Tree :
            entries[w] = {new} /\ Halfway(w, c.archive, new)
      BY <2>2, <2>3
    <3>2. stage[w] \in {new, NoTree} /\ displaced[w] = NoTree
      BY <2>2, <2>5, <3>1 DEF Halfway
    <3> QED
      BY <2>1, <3>1, <3>2 DEF SaidAndSo
  <2> QED
    BY <2>4, <2>5
<1> QED
  BY <1>1, QuietInvHolds, PTL

(* What is staged or put aside is in a checkpoint, or is the recorded      *)
(* copy of one.                                                            *)
LEMMA BesideIsSaved ==
    ASSUME IInv, QuietInv, NEW w \in Workspaces
    PROVE  {stage[w], displaced[w]} \subseteq Archives(w) \cup entries[w] \cup {NoTree}
<1>1. CASE Settled(w)
  BY <1>1 DEF QuietInv, AtRest
<1>2. CASE ~Settled(w)
  <2>1. CASE stage[w] = NoTree /\ displaced[w] = NoTree
    BY <2>1
  <2>2. CASE \E c \in store[w], new \in Tree :
               entries[w] = {new} /\ Halfway(w, c.archive, new)
    BY <2>2 DEF Archives, Halfway
  <2> QED
    BY <1>2, <2>1, <2>2 DEF QuietInv, Unfinished
<1> QED
  BY <1>1, <1>2

(* No step takes a workspace's own tree away: it is renamed.               *)
LEMMA TreeIsKept ==
    ASSUME IInv, QuietInv, [Next]_vars, edits' = edits, NEW w \in Workspaces
    PROVE  tree[w] = NoTree \/ tree[w] \in {tree'[w], stage'[w], displaced'[w]}
<1> USE DEF IInv, TypeOK
<1>1. ASSUME NEW p \in Procs, Continue(p)
      PROVE  tree[w] = NoTree \/ tree[w] \in {tree'[w], stage'[w], displaced'[w]}
  <2>1. CASE UndoExchange(p) \/ UndoMoveAway(p)
    BY <2>1 DEF UndoExchange, UndoMoveAway
  <2>2. CASE UndoMoveIn(p)
    BY <2>2 DEF UndoMoveIn, QuietInv, BehindJournal
  <2>3. CASE RecoverPlace(p)
    BY <2>3 DEF RecoverPlace
  <2>4. CASE UNCHANGED tree
    BY <2>4
  <2>5. UNCHANGED tree \/ UndoExchange(p) \/ UndoMoveAway(p) \/ UndoMoveIn(p)
          \/ RecoverPlace(p)
    BY <1>1 DEF Continue, SnapshotScan, SnapshotArchive, SnapshotPublish, PruneDrop,
       PruneDone, UndoStage, UndoCheck, UndoEntries, UndoJournal, UndoVerify, UndoSweep,
       ClearEntries, ClearJournal, RecoverVerify, RecoverSweep, Reap
  <2> QED
    BY <2>1, <2>2, <2>3, <2>4, <2>5
<1>2. CASE ~\E p \in Procs : Continue(p)
  <2>1. UNCHANGED tree
    BY <1>2 DEF Next, Fail, Crash, Call, Snapshot, Undo, Prune, RecoverNothing, Recover,
       Reap, UserEdit, vars
  <2> QED
    BY <2>1
<1> QED
  BY <1>1, <1>2

(* Nobody's work is gone: with nobody editing in the middle, every tree    *)
(* that an undo, a recovery, a prune or a failure deletes is in a          *)
(* checkpoint, or is a copy that an undo made.                             *)
THEOREM DeletedIsSavedQuiet ==
    ASSUME "operation" \notin EditDuring
    PROVE  Spec => DeletedIsSaved
<1> DEFINE Kept(w) ==
      LET present == {tree[w], stage[w], displaced[w]} \ {NoTree}
          left == {tree'[w], stage'[w], displaced'[w]}
      IN  edits' = edits =>
              present \ left \subseteq
                  {c.archive : c \in store[w]} \cup entries[w]
<1>1. IInv /\ QuietInv /\ [Next]_vars => \A w \in Workspaces : Kept(w)
  <2> SUFFICES ASSUME IInv, QuietInv, [Next]_vars, NEW w \in Workspaces, edits' = edits
               PROVE  ({tree[w], stage[w], displaced[w]} \ {NoTree})
                          \ {tree'[w], stage'[w], displaced'[w]}
                          \subseteq {c.archive : c \in store[w]} \cup entries[w]
    OBVIOUS
  <2>1. {stage[w], displaced[w]} \subseteq
            {c.archive : c \in store[w]} \cup entries[w] \cup {NoTree}
    BY BesideIsSaved DEF Archives
  <2>2. tree[w] = NoTree \/ tree[w] \in {tree'[w], stage'[w], displaced'[w]}
    BY TreeIsKept
  <2> QED
    BY <2>1, <2>2
<1> QED
  BY <1>1, QuietInvHolds, PTL DEF Spec, DeletedIsSaved

(* A reap is of settled workspaces: one, and those whose names extend it.  *)
LEMMA ReapOfSettled ==
    ASSUME NEW p \in Procs, NEW w \in Workspaces, Reap(p, w), NEW v \in Workspaces,
           stage \in [Workspaces -> Tree \cup {NoTree}],
           displaced \in [Workspaces -> Tree \cup {NoTree}],
           stage'[v] # stage[v] \/ displaced'[v] # displaced[v]
    PROVE  /\ Settled(w) /\ (v = w \/ <<w, v>> \in NameExtends)
           /\ ~(v = at[p] /\ op[p] = "undo" /\ pc[p] = "s_scan")
BY DEF Reap, Debris, Without

(* While no name extends another, it is of one.                            *)
LEMMA ReapOfOne ==
    ASSUME NameExtends = {}, NEW p \in Procs, NEW w \in Workspaces, Reap(p, w),
           NEW v \in Workspaces,
           stage \in [Workspaces -> Tree \cup {NoTree}],
           displaced \in [Workspaces -> Tree \cup {NoTree}],
           stage'[v] # stage[v] \/ displaced'[v] # displaced[v]
    PROVE  v = w /\ Settled(w) /\ ~(v = at[p] /\ op[p] = "undo" /\ pc[p] = "s_scan")
BY ReapOfSettled

(* "A restore directory is left alone while a journal claims it", whoever  *)
(* edits, fails or dies and whatever the names: who else takes it away is  *)
(* a reap of a settled workspace whose name this one's extends.            *)
THEOREM ClaimedIsLeftAloneHolds == Spec => ClaimedIsLeftAlone
<1>1. IInv /\ [Next]_vars
        => \A w \in Workspaces : ~Settled(w) /\ TakenAway(w) => ByItsOwn(w) \/ ByNeighbour(w)
  <2> SUFFICES ASSUME IInv, [Next]_vars, NEW w \in Workspaces, ~Settled(w), TakenAway(w)
               PROVE  ByItsOwn(w) \/ ByNeighbour(w)
    OBVIOUS
  <2> USE DEF IInv, TypeOK
  <2>a. stage'[w] # stage[w] \/ displaced'[w] # displaced[w]
    BY DEF TakenAway
  <2>1. ASSUME NEW p \in Procs, Continue(p) PROVE ByItsOwn(w) \/ ByNeighbour(w)
    <3>1. CASE UndoMoveIn(p) \/ UndoSweep(p) \/ RecoverPlace(p) \/ RecoverSweep(p)
      <4>1. /\ pc[p] \in {"u_second", "u_sweep", "r_place", "r_sweep"}
            /\ \A v \in Workspaces \ {at[p]} : /\ stage'[v] = stage[v]
                                               /\ displaced'[v] = displaced[v]
        BY <3>1 DEF UndoMoveIn, UndoSweep, RecoverPlace, RecoverSweep
      <4>2. w = at[p]
        BY <2>a, <4>1
      <4>3. p \in holder[w]
        BY <4>1, <4>2 DEF LockHeld
      <4> QED
        BY <4>1, <4>3 DEF ByItsOwn
    <3>2. CASE SnapshotScan(p)
      <4>1. Reap(p, at[p]) /\ at[p] \in Workspaces /\ pc[p] = "s_scan"
        BY <3>2 DEF SnapshotScan
      <4>2. Settled(at[p]) /\ <<at[p], w>> \in NameExtends
        BY <2>a, <4>1, ReapOfSettled
      <4>3. holder[at[p]] = {p}
        BY <4>1 DEF LockHeld
      <4> QED
        BY <4>1, <4>2, <4>3 DEF ByNeighbour
    <3>3. CASE UndoStage(p)
      <4>1. pc[p] = "u_stage" /\ w # at[p]
        BY <3>3 DEF UndoStage, SettledBefore, BeforeJournal
      <4> QED
        BY <2>a, <3>3, <4>1 DEF UndoStage
    <3>4. CASE UndoExchange(p)
      <4>1. /\ stage'[at[p]] = tree[at[p]]
            /\ \A v \in Workspaces \ {at[p]} : stage'[v] = stage[v]
        BY <3>4 DEF UndoExchange
      <4>2. tree[at[p]] # NoTree /\ UNCHANGED displaced
        BY <3>4 DEF UndoExchange, Present
      <4> QED
        BY <4>1, <4>2 DEF TakenAway
    <3>5. CASE UndoMoveAway(p)
      <4>1. /\ displaced'[at[p]] = tree[at[p]]
            /\ \A v \in Workspaces \ {at[p]} : displaced'[v] = displaced[v]
        BY <3>5 DEF UndoMoveAway
      <4>2. tree[at[p]] # NoTree /\ UNCHANGED stage
        BY <3>5 DEF UndoMoveAway, Present
      <4> QED
        BY <4>1, <4>2 DEF TakenAway
    <3>6. CASE UNCHANGED <<stage, displaced>>
      BY <2>a, <3>6
    <3>7. \/ UNCHANGED <<stage, displaced>> \/ SnapshotScan(p) \/ UndoStage(p)
          \/ UndoExchange(p) \/ UndoMoveAway(p)
          \/ UndoMoveIn(p) \/ UndoSweep(p) \/ RecoverPlace(p) \/ RecoverSweep(p)
      BY <2>1 DEF Continue, SnapshotArchive, SnapshotPublish, PruneDrop, PruneDone,
         UndoCheck, UndoEntries, UndoJournal, UndoVerify, ClearEntries,
         ClearJournal, RecoverVerify
    <3> QED
      BY <3>1, <3>2, <3>3, <3>4, <3>5, <3>6, <3>7
  <2>2. ASSUME NEW p \in Procs, Fail(p) \/ Crash(p) PROVE ByItsOwn(w) \/ ByNeighbour(w)
    BY <2>a, <2>2 DEF Fail, Crash
  <2>3. ASSUME NEW p \in Procs, NEW v \in Workspaces, Call(p, v)
        PROVE  ByItsOwn(w) \/ ByNeighbour(w)
    <3>1. UNCHANGED <<stage, displaced>> \/ (Reap(p, v) /\ holder[v] = {})
      BY <2>3 DEF Call, Snapshot, Undo, Prune, RecoverNothing, Recover
    <3>2. Settled(v) /\ <<v, w>> \in NameExtends /\ holder[v] = {}
      BY <2>a, <3>1, ReapOfSettled
    <3> QED
      BY <3>2 DEF ByNeighbour
  <2>4. CASE (\E v \in Workspaces : UserEdit(v)) \/ UNCHANGED vars
    BY <2>a, <2>4 DEF UserEdit, vars
  <2> QED
    BY <2>1, <2>2, <2>3, <2>4 DEF Next
<1> QED
  BY <1>1, IInvHolds, PTL DEF Spec, ClaimedIsLeftAlone

-----------------------------------------------------------------------------
(* What an undo has staged stays until it is in place, so a workspace that *)
(* has no directory always has the one it will get.                        *)
Staged(p) ==
    op[p] = "undo" /\ pc[p] \in {"u_check", "s_scan", "s_archive", "s_publish", "prune",
                                 "u_entries", "u_journal", "u_swap", "u_second"}
        => stage[at[p]] # NoTree

Covered(w) == tree[w] = NoTree => stage[w] # NoTree

StagedStays ==
    /\ \A w \in Workspaces : Covered(w)
    /\ \A p \in Procs : Staged(p)

(* A process inside an operation touches its own workspace and itself.     *)
LEMMA ContinueIsLocal ==
    ASSUME NameExtends = {}, TypeOK, NEW p \in Procs, Continue(p)
    PROVE  /\ Busy(p)
           /\ \A w \in Workspaces \ {at[p]} : /\ tree'[w] = tree[w] /\ stage'[w] = stage[w]
                                              /\ displaced'[w] = displaced[w]
           /\ \A q \in Procs \ {p} : pc'[q] = pc[q] /\ op'[q] = op[q] /\ at'[q] = at[q]
           /\ Busy(p)' => op'[p] = op[p] /\ at'[p] = at[p]
<1> USE DEF TypeOK
<1>1. CASE SnapshotScan(p)
  <2>1. Reap(p, at[p]) /\ at[p] \in Workspaces
    BY <1>1 DEF SnapshotScan
  <2>2. \A w \in Workspaces \ {at[p]} : stage'[w] = stage[w] /\ displaced'[w] = displaced[w]
    BY <2>1, ReapOfOne
  <2> QED
    BY <1>1, <2>2 DEF SnapshotScan, Reap
<1>2. CASE SnapshotArchive(p) \/ SnapshotPublish(p) \/ PruneDrop(p) \/ PruneDone(p)
  BY <1>2 DEF SnapshotArchive, SnapshotPublish, PruneDrop, PruneDone
<1>3. CASE UndoStage(p) \/ UndoCheck(p) \/ UndoEntries(p) \/ UndoJournal(p)
  BY <1>3 DEF UndoStage, UndoCheck, UndoEntries, UndoJournal
<1>4. CASE UndoExchange(p) \/ UndoMoveAway(p) \/ UndoMoveIn(p)
  BY <1>4 DEF UndoExchange, UndoMoveAway, UndoMoveIn
<1>5. CASE UndoVerify(p) \/ UndoSweep(p) \/ ClearEntries(p) \/ ClearJournal(p)
  BY <1>5 DEF UndoVerify, UndoSweep, ClearEntries, ClearJournal
<1>6. CASE RecoverPlace(p)
  BY <1>6 DEF RecoverPlace
<1>7. CASE RecoverVerify(p) \/ RecoverSweep(p)
  BY <1>7 DEF RecoverVerify, RecoverSweep
<1> QED
  BY <1>1, <1>2, <1>3, <1>4, <1>5, <1>6, <1>7 DEF Continue

(* Only the undo itself takes what it staged away.                         *)
LEMMA StagedStep ==
    ASSUME NameExtends = {}
    PROVE  IInv /\ StagedStays /\ [Next]_vars => \A q \in Procs : Staged(q)'
<1> SUFFICES ASSUME IInv, StagedStays, [Next]_vars, NEW q \in Procs PROVE Staged(q)'
  OBVIOUS
<1> USE DEF IInv, TypeOK, StagedStays, Staged
<1>1. ASSUME NEW p \in Procs, Continue(p), p # q PROVE Staged(q)'
  <2>1. Staged(q) /\ Busy(p) /\ pc'[q] = pc[q] /\ op'[q] = op[q] /\ at'[q] = at[q]
    BY <1>1, ContinueIsLocal
  <2>2. Busy(q) => stage'[at[q]] = stage[at[q]]
    BY <1>1, <2>1, Alone, ContinueIsLocal
  <2> QED
    BY <2>1, <2>2
<1>2. ASSUME Continue(q) PROVE Staged(q)'
  <2>0. at[q] \in Workspaces
    OBVIOUS
  <2>1. CASE SnapshotScan(q)
    <3>1. Reap(q, at[q]) /\ pc[q] = "s_scan" /\ UNCHANGED <<op, at>>
      BY <2>1 DEF SnapshotScan
    <3>2. op[q] = "undo" => stage'[at[q]] = stage[at[q]]
      BY <2>0, <3>1, ReapOfOne, SMTT(30)
    <3> QED
      BY <3>1, <3>2
  <2>2. CASE SnapshotArchive(q) \/ SnapshotPublish(q) \/ PruneDrop(q)
    BY <2>2 DEF SnapshotArchive, SnapshotPublish, PruneDrop
  <2>3. CASE PruneDone(q)
    BY <2>3 DEF PruneDone
  <2>4. CASE UndoStage(q)
    <3>1. target[q] \in store[at[q]] /\ target[q].archive # NoTree
      BY <2>4 DEF UndoStage, LabelOfOp, TargetKept, Checkpoint
    <3> QED
      BY <2>4, <3>1 DEF UndoStage
  <2>5. CASE UndoCheck(q) \/ UndoEntries(q) \/ UndoJournal(q) \/ UndoMoveAway(q)
    BY <2>5 DEF UndoCheck, UndoEntries, UndoJournal, UndoMoveAway, LabelOfOp
  <2>6. CASE UndoExchange(q) \/ UndoMoveIn(q) \/ UndoVerify(q) \/ UndoSweep(q)
             \/ ClearEntries(q) \/ RecoverVerify(q) \/ RecoverSweep(q)
    BY <2>6 DEF UndoExchange, UndoMoveIn, UndoVerify, UndoSweep, ClearEntries, RecoverVerify,
       RecoverSweep
  <2>7. CASE ClearJournal(q) \/ RecoverPlace(q)
    BY <2>7 DEF ClearJournal, RecoverPlace
  <2> QED
    BY <1>2, <2>1, <2>2, <2>3, <2>4, <2>5, <2>6, <2>7 DEF Continue
<1>3. ASSUME NEW p \in Procs, Fail(p) \/ Crash(p) PROVE Staged(q)'
  <2>1. CASE p = q
    BY <1>3, <2>1 DEF Fail, Crash
  <2>2. CASE p # q
    <3>1. /\ Busy(p) /\ pc'[q] = pc[q] /\ op'[q] = op[q] /\ at'[q] = at[q]
          /\ \A w \in Workspaces \ {at[p]} : stage'[w] = stage[w]
      BY <1>3, <2>2 DEF Fail, Crash
    <3>2. Busy(q) => at[q] # at[p]
      BY <2>2, <3>1, Alone
    <3>3. Busy(q) => stage'[at[q]] = stage[at[q]]
      BY <3>1, <3>2
    <3>4. Busy(q)' = Busy(q) /\ Staged(q)
      BY <3>1
    <3>5. CASE Busy(q)
      BY <3>1, <3>3, <3>4, <3>5
    <3>6. CASE ~Busy(q)
      BY <3>1, <3>6
    <3> QED
      BY <3>5, <3>6
  <2> QED
    BY <2>1, <2>2
<1>4. ASSUME NEW p \in Procs, NEW w \in Workspaces, Call(p, w) PROVE Staged(q)'
  <2>1. LockFree(w) /\ (UNCHANGED stage \/ Reap(p, w))
    BY <1>4 DEF Call, Snapshot, Undo, Prune, RecoverNothing, Recover
  <2>2. \A v \in Workspaces \ {w} : stage'[v] = stage[v]
    BY <2>1, ReapOfOne
  <2>3. Busy(q) => at[q] # w
    BY <2>1, NobodyElse
  <2>4. \/ pc'[q] = pc[q] /\ op'[q] = op[q] /\ at'[q] = at[q]
        \/ pc'[q] = "u_stage"
        \/ op'[q] # "undo"
    BY <1>4 DEF Call, Snapshot, Undo, Prune, RecoverNothing, Recover
  <2> QED
    BY <2>2, <2>3, <2>4
<1>5. CASE (\E w \in Workspaces : UserEdit(w)) \/ UNCHANGED vars
  BY <1>5 DEF UserEdit, vars
<1> QED
  BY <1>1, <1>2, <1>3, <1>4, <1>5 DEF Next

(* A directory is renamed away only beside the one that takes its place.   *)
LEMMA CoveredStep ==
    ASSUME NameExtends = {}
    PROVE  IInv /\ QuietInv /\ StagedStays /\ [Next]_vars
             => \A w \in Workspaces : Covered(w)'
<1> SUFFICES ASSUME IInv, QuietInv, StagedStays, [Next]_vars, NEW w \in Workspaces
             PROVE  Covered(w)'
  OBVIOUS
<1> USE DEF IInv, TypeOK, Covered
<1>a. Covered(w)
  BY DEF StagedStays
<1>b. Settled(w) => tree[w] # NoTree
  BY DEF QuietInv, AtRest
<1>1. ASSUME NEW p \in Procs, Continue(p), w # at[p]
      PROVE  Covered(w)'
  BY <1>1, <1>a, ContinueIsLocal
<1>2. ASSUME NEW p \in Procs, Continue(p), w = at[p]
      PROVE  Covered(w)'
  <2>1. CASE SnapshotScan(p) \/ UndoStage(p) \/ UndoSweep(p) \/ RecoverSweep(p)
    <3>1. tree'[w] = tree[w] /\ tree[w] # NoTree
      BY <1>2, <2>1 DEF SnapshotScan, UndoStage, UndoSweep, RecoverSweep, Reap, Present
    <3> QED
      BY <3>1
  <2>2. CASE UNCHANGED <<tree, stage>>
    BY <2>2, <1>a
  <2>3. CASE UndoExchange(p) \/ UndoMoveIn(p) \/ RecoverPlace(p)
    BY <1>2, <1>a, <2>3 DEF UndoExchange, UndoMoveIn, RecoverPlace
  <2>4. CASE UndoMoveAway(p)
    BY <1>2, <2>4 DEF UndoMoveAway, StagedStays, Staged, LabelOfOp
  <2>5. \/ UNCHANGED <<tree, stage>> \/ SnapshotScan(p) \/ UndoStage(p) \/ UndoSweep(p)
        \/ RecoverSweep(p) \/ UndoExchange(p) \/ UndoMoveAway(p) \/ UndoMoveIn(p)
        \/ RecoverPlace(p)
    BY <1>2 DEF Continue, SnapshotArchive, SnapshotPublish, PruneDrop, PruneDone, UndoCheck,
       UndoEntries, UndoJournal, UndoVerify, ClearEntries, ClearJournal, RecoverVerify
  <2> QED
    BY <2>1, <2>2, <2>3, <2>4, <2>5
<1>3. ASSUME NEW p \in Procs, Fail(p) \/ Crash(p)
      PROVE  Covered(w)'
  <2>1. tree' = tree /\ (stage'[w] = stage[w] \/ Settled(w))
    BY <1>3 DEF Fail, Crash
  <2> QED
    BY <2>1, <1>a, <1>b
<1>4. ASSUME NEW p \in Procs, NEW v \in Workspaces, Call(p, v)
      PROVE  Covered(w)'
  <2>1. tree' = tree /\ (UNCHANGED stage \/ Reap(p, v))
    BY <1>4 DEF Call, Snapshot, Undo, Prune, RecoverNothing, Recover, Reap
  <2>2. stage'[w] = stage[w] \/ Settled(w)
    BY <2>1, ReapOfOne, SMTT(30)
  <2> QED
    BY <2>1, <2>2, <1>a, <1>b
<1>5. CASE (\E v \in Workspaces : UserEdit(v)) \/ UNCHANGED vars
  BY <1>5, <1>a DEF UserEdit, vars
<1> QED
  BY <1>1, <1>2, <1>3, <1>4, <1>5 DEF Next

(* Together.                                                               *)
LEMMA StagedInvHolds ==
    ASSUME "operation" \notin EditDuring, NameExtends = {}
    PROVE  Spec => [](IInv /\ QuietInv /\ StagedStays)
<1>1. Init => StagedStays
  BY DEF Init, StagedStays, Covered, Staged
<1>2. IInv /\ QuietInv /\ StagedStays /\ [Next]_vars => StagedStays'
  <2> SUFFICES ASSUME IInv, QuietInv, StagedStays, [Next]_vars PROVE StagedStays'
    OBVIOUS
  <2>1. \A q \in Procs : Staged(q)'
    BY StagedStep
  <2>2. \A w \in Workspaces : Covered(w)'
    BY CoveredStep
  <2> QED
    BY <2>1, <2>2 DEF StagedStays
<1> QED
  BY <1>1, <1>2, QuietInvHolds, PTL DEF Spec

-----------------------------------------------------------------------------
(* The tree of a workspace, and what its checkpoints hold.                 *)
FilesOf(w) == IF tree[w] # NoTree THEN tree[w] ELSE stage[w]

(* A step that leaves every workspace's tree and archives alone is none of *)
(* the abstract restore.                                                   *)
LEMMA Stutters ==
    ASSUME \A w \in Workspaces : FilesOf(w)' = FilesOf(w) /\ Archives(w)' = Archives(w),
           edits' = edits
    PROVE  UNCHANGED Restore!restoreVars
BY DEF FilesOf, Archives, Restore!restoreVars

(* A step that adds a workspace's tree to its archives is a Save.          *)
LEMMA IsSave ==
    ASSUME NEW w \in Workspaces, \A v \in Workspaces : FilesOf(v)' = FilesOf(v),
           \A v \in Workspaces \ {w} : Archives(v)' = Archives(v),
           Archives(w)' = Archives(w) \cup {FilesOf(w)}, edits' = edits
    PROVE  Restore!Next
<1>1. Restore!Save(w)
  BY DEF Restore!Save, FilesOf, Archives
<1> QED
  BY <1>1 DEF Restore!Next

(* One that takes archives away is a Drop.                                 *)
LEMMA IsDrop ==
    ASSUME NEW w \in Workspaces, \A v \in Workspaces : FilesOf(v)' = FilesOf(v),
           \A v \in Workspaces \ {w} : Archives(v)' = Archives(v),
           Archives(w)' \subseteq Archives(w), edits' = edits
    PROVE  Restore!Next
<1> DEFINE files == [v \in Workspaces |-> IF tree[v] # NoTree THEN tree[v] ELSE stage[v]]
           saved == [v \in Workspaces |-> {c.archive : c \in store[v]}]
<1>1. files' = files
  BY DEF FilesOf
<1>2. Archives(w)' \in SUBSET saved[w] /\ saved' = [saved EXCEPT ![w] = Archives(w)']
  BY DEF Archives
<1>3. Restore!Drop(w)
  <2>1. \E rest \in SUBSET saved[w] : saved' = [saved EXCEPT ![w] = rest]
    BY <1>2
  <2> QED
    BY <1>1, <2>1 DEF Restore!Drop
<1> QED
  BY <1>3 DEF Restore!Next

(* One that puts an archived tree in place of another is a Restore.        *)
LEMMA IsRestore ==
    ASSUME NEW w \in Workspaces, \A v \in Workspaces \ {w} : FilesOf(v)' = FilesOf(v),
           \A v \in Workspaces : Archives(v)' = Archives(v),
           FilesOf(w) \in Archives(w), FilesOf(w)' \in Archives(w), edits' = edits
    PROVE  Restore!Next
<1>1. PICK t \in Archives(w) : t = FilesOf(w)'
  OBVIOUS
<1> DEFINE files == [v \in Workspaces |-> IF tree[v] # NoTree THEN tree[v] ELSE stage[v]]
           saved == [v \in Workspaces |-> {c.archive : c \in store[v]}]
<1>2. files' = [files EXCEPT ![w] = t]
  BY <1>1 DEF FilesOf
<1>3. files[w] \in saved[w] /\ t \in saved[w] /\ saved' = saved
  BY <1>1 DEF FilesOf, Archives
<1>4. \E u \in saved[w] : files' = [files EXCEPT ![w] = u]
  BY <1>2, <1>3
<1>5. Restore!Restore(w)
  BY <1>3, <1>4 DEF Restore!Restore
<1> QED
  BY <1>5 DEF Restore!Next

(* What undo and recover do to a workspace: nothing, or the whole restore. *)
LEMMA RestoreOfContinue ==
    ASSUME "operation" \notin EditDuring, NameExtends = {}, IInv, QuietInv, StagedStays,
           NEW p \in Procs, Continue(p)
    PROVE  [Restore!Next]_(Restore!restoreVars)
<1> USE DEF IInv, TypeOK
<1>w. PICK w \in Workspaces : w = at[p]
  OBVIOUS
<1>0. edits' = edits
  BY DEF Continue, SnapshotScan, SnapshotArchive, SnapshotPublish, PruneDrop, PruneDone,
     UndoStage, UndoCheck, UndoEntries, UndoJournal, UndoExchange, UndoMoveAway, UndoMoveIn,
     UndoVerify, UndoSweep, ClearEntries, ClearJournal, RecoverPlace, RecoverVerify,
     RecoverSweep
<1>a. \A v \in Workspaces \ {w} : FilesOf(v)' = FilesOf(v)
  BY <1>w, ContinueIsLocal DEF FilesOf
<1>b. \A v \in Workspaces : store'[v] = store[v] => Archives(v)' = Archives(v)
  BY DEF Archives
<1>1. CASE UNCHANGED store /\ FilesOf(w)' = FilesOf(w)
  BY <1>0, <1>1, <1>a, <1>b, Stutters
<1>2. CASE SnapshotPublish(p)
  <2>1. /\ UNCHANGED <<tree, stage>> /\ store' = [store EXCEPT ![w] = @ \cup {snap[p]}]
        /\ snap[p].archive = tree[w] /\ tree[w] # NoTree
    BY <1>w, <1>2 DEF SnapshotPublish, Present, QuietInv, TakenWhole
  <2>2. \A v \in Workspaces : FilesOf(v)' = FilesOf(v)
    BY <2>1 DEF FilesOf
  <2>3. Archives(w)' = Archives(w) \cup {FilesOf(w)}
    <3>1. PICK c : c = snap[p]
      OBVIOUS
    <3>2. store'[w] = store[w] \cup {c} /\ c.archive = FilesOf(w)
      BY <2>1, <3>1 DEF FilesOf
    <3> QED
      BY <3>2 DEF Archives
  <2>4. \A v \in Workspaces \ {w} : Archives(v)' = Archives(v)
    BY <2>1, <1>b
  <2> QED
    BY <1>0, <2>2, <2>3, <2>4, IsSave
<1>3. CASE PruneDrop(p)
  <2>1. UNCHANGED <<tree, stage>> /\ \E c : store' = [store EXCEPT ![w] = @ \ {c}]
    BY <1>w, <1>3 DEF PruneDrop
  <2>2. \A v \in Workspaces : FilesOf(v)' = FilesOf(v)
    BY <2>1 DEF FilesOf
  <2>3. Archives(w)' \subseteq Archives(w)
    BY <2>1 DEF Archives
  <2>4. \A v \in Workspaces \ {w} : Archives(v)' = Archives(v)
    BY <2>1, <1>b
  <2> QED
    BY <1>0, <2>2, <2>3, <2>4, IsDrop
<1>4. CASE UndoExchange(p) \/ UndoMoveAway(p)
  <2>1. /\ pc[p] = "u_swap" /\ op[p] = "undo" /\ UNCHANGED store
        /\ \/ tree'[w] = stage[w]
           \/ tree'[w] = NoTree /\ stage'[w] = stage[w]
    <3>1. CASE UndoExchange(p)
      BY <1>w, <3>1 DEF UndoExchange, LabelOfOp
    <3>2. CASE UndoMoveAway(p)
      BY <1>w, <3>2 DEF UndoMoveAway, LabelOfOp
    <3> QED
      BY <1>4, <3>1, <3>2
  <2>2. snap[p] \in store[w] /\ snap[p].archive = tree[w] /\ tree[w] # NoTree
    BY <1>w, <2>1 DEF SafetyKept, Present, QuietInv, SafetyIsTheTree
  <2>3. /\ stage[w] # NoTree /\ stage[w] = target[p].manifest
        /\ target[p] \in store[w] /\ target[p].archive = target[p].manifest
    BY <1>w, <2>1 DEF StagedStays, Staged, StagedVerified, TargetKept, QuietInv, TakenWhole
  <2>4. FilesOf(w) = tree[w] /\ FilesOf(w)' = stage[w]
    BY <2>1, <2>2, <2>3 DEF FilesOf
  <2>5. FilesOf(w) \in Archives(w) /\ FilesOf(w)' \in Archives(w)
    BY <2>2, <2>3, <2>4 DEF Archives
  <2> QED
    BY <1>0, <1>a, <1>b, <2>1, <2>5, IsRestore
<1>5. CASE UndoMoveIn(p) \/ RecoverPlace(p)
  <2>1. UNCHANGED store /\ (tree[w] = NoTree => stage[w] # NoTree)
    BY <1>5 DEF UndoMoveIn, RecoverPlace, StagedStays, Covered
  <2>2. \/ tree[w] = NoTree /\ tree'[w] = stage[w]
        \/ tree'[w] = tree[w] /\ stage'[w] = stage[w]
    BY <1>w, <1>5, <2>1 DEF UndoMoveIn, RecoverPlace, QuietInv, BehindJournal
  <2>3. FilesOf(w)' = FilesOf(w)
    BY <2>1, <2>2 DEF FilesOf
  <2> QED
    BY <1>1, <2>1, <2>3
<1>6. CASE SnapshotScan(p) \/ UndoStage(p) \/ UndoSweep(p) \/ RecoverSweep(p)
  <2>1. UNCHANGED <<store, tree>> /\ tree[w] # NoTree
    BY <1>w, <1>6 DEF SnapshotScan, UndoStage, UndoSweep, RecoverSweep, Reap, Present
  <2>2. FilesOf(w)' = FilesOf(w)
    BY <2>1 DEF FilesOf
  <2> QED
    BY <1>1, <2>1, <2>2
<1>7. CASE UNCHANGED <<store, tree, stage>>
  BY <1>1, <1>7 DEF FilesOf
<1>8. \/ UNCHANGED <<store, tree, stage>>
      \/ SnapshotPublish(p) \/ PruneDrop(p) \/ UndoExchange(p) \/ UndoMoveAway(p)
      \/ UndoMoveIn(p) \/ RecoverPlace(p)
      \/ SnapshotScan(p) \/ UndoStage(p) \/ UndoSweep(p) \/ RecoverSweep(p)
  BY DEF Continue, SnapshotArchive, PruneDone, UndoCheck, UndoEntries, UndoJournal,
     UndoVerify, ClearEntries, ClearJournal, RecoverVerify
<1> QED
  BY <1>2, <1>3, <1>4, <1>5, <1>6, <1>7, <1>8

(* "Atomic, and undoable": an undo, with its renames, its crashes, its     *)
(* failures and its recovery, is one step of WorkspaceRestore, provided    *)
(* that nobody edits in the middle and no name extends another's.          *)
THEOREM CheckpointImplementsRestore ==
    ASSUME "operation" \notin EditDuring, NameExtends = {}
    PROVE  Spec => ImplementsRestore
<1>1. Init => Restore!Init
  BY DEF Init, Restore!Init
<1>2. IInv /\ QuietInv /\ StagedStays /\ [Next]_vars
        => [Restore!Next]_(Restore!restoreVars)
  <2> SUFFICES ASSUME IInv, QuietInv, StagedStays, [Next]_vars
               PROVE  [Restore!Next]_(Restore!restoreVars)
    OBVIOUS
  <2> USE DEF IInv, TypeOK
  <2>a. \A w \in Workspaces : Settled(w) => tree[w] # NoTree
    BY DEF QuietInv, AtRest
  <2>1. CASE \E p \in Procs : Continue(p)
    BY <2>1, RestoreOfContinue
  <2>2. CASE /\ UNCHANGED <<tree, store, edits>>
             /\ \A w \in Workspaces : stage'[w] # stage[w] => Settled(w)
    <3>1. \A w \in Workspaces : FilesOf(w)' = FilesOf(w)
      BY <2>2, <2>a DEF FilesOf
    <3>2. \A w \in Workspaces : Archives(w)' = Archives(w)
      BY <2>2 DEF Archives
    <3> QED
      BY <2>2, <3>1, <3>2, Stutters
  <2>3. ASSUME NEW p \in Procs, Fail(p) \/ Crash(p)
        PROVE  [Restore!Next]_(Restore!restoreVars)
    <3>1. /\ UNCHANGED <<tree, store, edits>>
          /\ \A w \in Workspaces : stage'[w] # stage[w] => Settled(w)
      BY <2>3 DEF Fail, Crash
    <3> QED
      BY <2>2, <3>1
  <2>4. ASSUME NEW p \in Procs, NEW w \in Workspaces, Call(p, w)
        PROVE  [Restore!Next]_(Restore!restoreVars)
    <3>1. UNCHANGED <<tree, store, edits>> /\ (UNCHANGED stage \/ Reap(p, w))
      BY <2>4 DEF Call, Snapshot, Undo, Prune, RecoverNothing, Recover, Reap
    <3>2. \A v \in Workspaces : stage'[v] # stage[v] => Settled(v)
      BY <3>1, ReapOfOne, SMTT(30)
    <3> QED
      BY <2>2, <3>1, <3>2
  <2>5. ASSUME NEW w \in Workspaces, UserEdit(w)
        PROVE  [Restore!Next]_(Restore!restoreVars)
    <3>1. /\ tree[w] # NoTree /\ edits' = edits + 1 /\ edits + 1 # NoTree
          /\ tree' = [tree EXCEPT ![w] = edits + 1] /\ UNCHANGED <<stage, store>>
      BY <2>5 DEF UserEdit
    <3>2. Restore!Edit(w)
      BY <3>1 DEF Restore!Edit
    <3> QED
      BY <3>2 DEF Restore!Next
  <2>6. CASE UNCHANGED vars
    BY <2>2, <2>6 DEF vars
  <2> QED
    BY <2>1, <2>3, <2>4, <2>5, <2>6 DEF Next
<1> QED
  BY <1>1, <1>2, StagedInvHolds, PTL DEF Spec, ImplementsRestore, Restore!Spec

=============================================================================
