------------------------ MODULE MissionEngine_proofs ------------------------
(***************************************************************************)
(* Proofs about the queue engine, for any number of missions, workspaces,  *)
(* processes, crashes and edits and any retry budget.                      *)
(*                                                                         *)
(* The inductive invariant is IInv.  LockHeld says who holds which flock   *)
(* at which label, VerbOfLabel which verb a label belongs to.  From these, *)
(* UnderWsLock: while a process has a workspace, all that anybody else can *)
(* do to a mission of it is to cancel a queued one.  That keeps what a     *)
(* process knows of its mission true between its transactions: CarryOf,    *)
(* ListOf, ReadsOf (what it read), AloneOf (what run_mission has checked). *)
(* UndoInv adds what is known about the files, TasksAlone and              *)
(* ReconcileListsAll what reconcile relies on.                             *)
(***************************************************************************)
EXTENDS MissionEngine, TLAPS

USE EngineAssumption DEF Procs, Ws, Goto, Step, SetState, LocksFor,
    ExecLabels, RunLabels, ReviewLabels, RetryLabels, LockLabels,
    CancelLabels, WorkerLabels, HoldsWs, Executing, Reconciling,
    missionVars, dbVars, fileVars, lockVars, localVars, boundVars

(* A task row is open where a step is going to settle one.                 *)
TaskIsOpen ==
    \A p \in Procs :
        pc[p] \in {"x_snapshot", "x_record", "x_work"} => openTasks[job[p]] # 0

-----------------------------------------------------------------------------
(* There is a mission for a process that has none to be given.             *)
LEMMA AnyMissionIsOne == AnyMission \in Missions
BY DEF AnyMission

(* What the process variables, the locks and the bounds may hold.          *)
ProcsTyped ==
    /\ exHolders \subseteq Procs
    /\ shHolders \subseteq Procs
    /\ wsHolders \in [Workspaces -> SUBSET Procs]
    /\ pc \in [Procs -> {"idle"} \cup LockLabels \cup RunLabels
                        \cup ReviewLabels \cup RetryLabels \cup CancelLabels
                        \cup WorkerLabels]
    /\ verb \in [Procs -> Verbs \cup {"none"}]
    /\ job \in [Procs -> Missions]
    /\ carry \in [Procs -> Lifecycle!MissionState \cup {"none"}]
    /\ snap \in [Procs -> SUBSET SUBSET Token]
    /\ stale \in [Procs -> SUBSET (Missions \X BOOLEAN)]
    /\ todo \in [Procs -> SUBSET Missions]
    /\ crashes \in 0 .. MaxCrashes
    /\ edits \in 0 .. MaxEdits

(* What the database and the files may hold.                               *)
DataTyped ==
    /\ Lifecycle!TypeOK
    /\ cancelReq \in [Missions -> BOOLEAN]
    /\ checkpoint \in [Missions -> SUBSET SUBSET Token]
    /\ openTasks \in [Missions -> Nat]
    /\ content \in [Workspaces -> SUBSET Token]
    /\ afterIndex \in [Missions -> SUBSET SUBSET Token]

(* The type invariant is those two, now and after a step.                  *)
LEMMA TypeSplit == TypeOK => ProcsTyped /\ DataTyped
BY DEF TypeOK, ProcsTyped, DataTyped

(* Both parts after a step make the type invariant after it.               *)
LEMMA TypeJoin == ProcsTyped' /\ DataTyped' => TypeOK'
BY DEF TypeOK, ProcsTyped, DataTyped

(* A process that leaves its verb is put back to where it waits.           *)
LEMMA UnlockForgetTyped ==
    ASSUME ProcsTyped, NEW p \in Procs, Unlock(p), Forget(p)
    PROVE  /\ exHolders' \subseteq Procs
           /\ shHolders' \subseteq Procs
           /\ wsHolders' \in [Workspaces -> SUBSET Procs]
           /\ verb' \in [Procs -> Verbs \cup {"none"}]
           /\ job' \in [Procs -> Missions]
           /\ carry' \in [Procs -> Lifecycle!MissionState \cup {"none"}]
           /\ snap' \in [Procs -> SUBSET SUBSET Token]
           /\ stale' \in [Procs -> SUBSET (Missions \X BOOLEAN)]
BY AnyMissionIsOne DEF ProcsTyped, Unlock, Forget

(* So the process is where a verb ends, with its types intact.             *)
LEMMA LeaveTyped ==
    ASSUME ProcsTyped, NEW p \in Procs, Leave(p)
    PROVE  ProcsTyped'
<1>1. Unlock(p) /\ Forget(p)
  BY DEF Leave
<1>2. pc' = [pc EXCEPT ![p] = Home(p)] /\ UNCHANGED <<todo, crashes, edits>>
  BY DEF Leave
<1> QED
  BY <1>1, <1>2, UnlockForgetTyped DEF ProcsTyped, Home

(* A refused verb leaves the data alone.                                   *)
LEMMA RefuseTyped ==
    ASSUME TypeOK, NEW p \in Procs, Refuse(p)
    PROVE  TypeOK'
<1>1. ProcsTyped'
  BY TypeSplit, LeaveTyped DEF Refuse
<1>2. DataTyped'
  BY TypeSplit DEF Refuse, DataTyped, Lifecycle!TypeOK
<1> QED
  BY <1>1, <1>2, TypeJoin

(* The data keeps its type if the columns a step writes do.                *)
LEMMA TaskOpensTyped ==
    ASSUME TypeOK, NEW m \in Missions, TaskOpens(m)
    PROVE  openTasks' \in [Missions -> Nat]
BY DEF TypeOK, TaskOpens

(* An open row can be settled.                                             *)
LEMMA TaskSettlesTyped ==
    ASSUME TypeOK, NEW m \in Missions, openTasks[m] # 0, TaskSettles(m)
    PROVE  openTasks' \in [Missions -> Nat]
BY DEF TypeOK, TaskSettles

(* A process's mission has a workspace, which holds files.                 *)
LEMMA WsTyped ==
    ASSUME TypeOK, NEW p \in Procs
    PROVE  /\ job[p] \in Missions
           /\ WsOf[job[p]] \in Workspaces
           /\ content[WsOf[job[p]]] \in SUBSET Token
<1>1. job[p] \in Missions
  BY DEF TypeOK
<1>2. content \in [Workspaces -> SUBSET Token]
  BY DEF TypeOK
<1> QED
  BY <1>1, <1>2

(* An outcome is kept with a move to a later label.                        *)
LEMMA OutcomeTyped ==
    ASSUME ProcsTyped, NEW p \in Procs, NEW o \in Lifecycle!MissionState,
           Outcome(p, o)
    PROVE  carry' \in [Procs -> Lifecycle!MissionState \cup {"none"}]
BY DEF ProcsTyped, Outcome

(* An exception carries its outcome to the receipt.                        *)
LEMMA RaiseTyped ==
    ASSUME ProcsTyped, NEW p \in Procs, NEW o \in Lifecycle!MissionState,
           Raise(p, o)
    PROVE  ProcsTyped'
<1>1. Outcome(p, o) /\ Step(p, "x_receipt")
      /\ UNCHANGED <<verb, job, snap, stale, todo>>
  BY DEF Raise
<1>2. carry' \in [Procs -> Lifecycle!MissionState \cup {"none"}]
  BY <1>1, OutcomeTyped
<1> QED
  BY <1>1, <1>2 DEF ProcsTyped

(* Locks, refusals and moves of one process.                               *)
LEMMA ProcsTypedStep ==
    TypeOK /\ [Next]_vars => ProcsTyped'
<1> SUFFICES ASSUME TypeOK, [Next]_vars PROVE ProcsTyped'
  OBVIOUS
<1>0. ProcsTyped
  BY TypeSplit
<1>00. /\ "failed" \in Lifecycle!MissionState
      /\ "cancelled" \in Lifecycle!MissionState
      /\ "waiting-review" \in Lifecycle!MissionState
  BY DEF Lifecycle!MissionState
<1> USE <1>0 DEF ProcsTyped
<1>1. ASSUME NEW p \in Procs, LockGlobal(p) PROVE ProcsTyped'
  BY <1>1 DEF LockGlobal
<1>2. ASSUME NEW p \in Procs, LockWs(p) PROVE ProcsTyped'
  BY <1>2 DEF LockWs, EntryOf
<1>3. ASSUME NEW p \in Procs, LockRefused(p) PROVE ProcsTyped'
  BY <1>3, LeaveTyped DEF LockRefused
<1>4. ASSUME NEW p \in Procs, RecoverList(p) PROVE ProcsTyped'
  <2>1. \A q \in Procs : {<<m, cancelReq[m]>> : m \in
            {n \in RecoverScope(q) : state[n] = "running"}}
          \in SUBSET (Missions \X BOOLEAN)
    BY DEF RecoverScope, TypeOK
  <2>2. stale' \in [Procs -> SUBSET (Missions \X BOOLEAN)]
    BY <1>4, <2>1 DEF RecoverList
  <2> QED
    BY <1>4, <2>2 DEF RecoverList
<1>5. ASSUME NEW p \in Procs, RecoverOne(p) PROVE ProcsTyped'
  BY <1>5 DEF RecoverOne
<1>6. ASSUME NEW p \in Procs, RecoverDone(p) PROVE ProcsTyped'
  BY <1>6, UnlockForgetTyped DEF RecoverDone
<1>7. ASSUME NEW p \in Procs, RunRead(p) PROVE ProcsTyped'
  BY <1>7, LeaveTyped DEF RunRead, Refuse
<1>8. ASSUME NEW p \in Procs, RunGate(p) PROVE ProcsTyped'
  BY <1>8, LeaveTyped DEF RunGate, Refuse
<1>9. ASSUME NEW p \in Procs, RunStart(p) PROVE ProcsTyped'
  BY <1>9, LeaveTyped DEF RunStart, Refuse
<1>10. ASSUME NEW p \in Procs, ExecBegin(p) PROVE ProcsTyped'
  BY <1>10, <1>00, RaiseTyped DEF ExecBegin
<1>11. ASSUME NEW p \in Procs, ExecSnapshot(p) PROVE ProcsTyped'
  <2>1. CASE Raise(p, "failed")
    BY <1>00, <2>1, RaiseTyped
  <2>2. CASE ~Raise(p, "failed")
    <3>1. {content[Ws(p)]} \in SUBSET SUBSET Token
      BY WsTyped
    <3>2. snap' \in [Procs -> SUBSET SUBSET Token]
      BY <1>11, <2>2, <3>1 DEF ExecSnapshot
    <3> QED
      BY <1>11, <2>2, <3>2 DEF ExecSnapshot
  <2> QED
    BY <2>1, <2>2
<1>12. ASSUME NEW p \in Procs, ExecRecord(p) PROVE ProcsTyped'
  BY <1>12 DEF ExecRecord
<1>13. ASSUME NEW p \in Procs, ExecTask(p) PROVE ProcsTyped'
  BY <1>13 DEF ExecTask
<1>14. ASSUME NEW p \in Procs, ExecWrite(p) PROVE ProcsTyped'
  BY <1>14 DEF ExecWrite
<1>15. ASSUME NEW p \in Procs, ExecWorkEnds(p) PROVE ProcsTyped'
  <2>1. CASE Raise(p, "failed") \/ Raise(p, "cancelled")
    BY <1>00, <2>1, RaiseTyped
  <2>2. CASE ~(Raise(p, "failed") \/ Raise(p, "cancelled"))
    BY <1>15, <2>2 DEF ExecWorkEnds
  <2> QED
    BY <2>1, <2>2
<1>16. ASSUME NEW p \in Procs, ExecFinalCheck(p) PROVE ProcsTyped'
  BY <1>16, <1>00, RaiseTyped DEF ExecFinalCheck
<1>17. ASSUME NEW p \in Procs, ExecReceipt(p) PROVE ProcsTyped'
  <2>1. carry' \in [Procs -> Lifecycle!MissionState \cup {"none"}]
    BY <1>00, <1>17 DEF ExecReceipt, Outcome
  <2> QED
    BY <1>17, <2>1 DEF ExecReceipt
<1>18. ASSUME NEW p \in Procs, ExecFinish(p) PROVE ProcsTyped'
  BY <1>18, LeaveTyped DEF ExecFinish
<1>19. ASSUME NEW p \in Procs, CancelQueued(p) PROVE ProcsTyped'
  BY <1>19, LeaveTyped DEF CancelQueued
<1>20. ASSUME NEW p \in Procs, CancelFlag(p) PROVE ProcsTyped'
  BY <1>20, LeaveTyped DEF CancelFlag
<1>21. ASSUME NEW p \in Procs, RetryRead(p) PROVE ProcsTyped'
  <2>1. CASE Refuse(p)
    BY <2>1, LeaveTyped DEF Refuse
  <2>2. CASE ~Refuse(p)
    <3>1. Outcome(p, state[job[p]])
      BY <1>21, <2>2 DEF RetryRead
    <3>2. state[job[p]] \in Lifecycle!MissionState
      BY <1>21, <2>2 DEF RetryRead, Lifecycle!MissionState
    <3>3. carry' \in [Procs -> Lifecycle!MissionState \cup {"none"}]
      BY <3>1, <3>2, OutcomeTyped
    <3> QED
      BY <1>21, <2>2, <3>3 DEF RetryRead
  <2> QED
    BY <2>1, <2>2
<1>22. ASSUME NEW p \in Procs, RetryCommit(p) PROVE ProcsTyped'
  BY <1>22, LeaveTyped DEF RetryCommit
<1>23. ASSUME NEW p \in Procs, ReviewRead(p) PROVE ProcsTyped'
  <2>1. CASE Refuse(p)
    BY <2>1, LeaveTyped DEF Refuse
  <2>2. CASE ~Refuse(p)
    <3>1. Outcome(p, state[job[p]])
      BY <1>23, <2>2 DEF ReviewRead
    <3>2. state[job[p]] \in Lifecycle!MissionState
      BY <1>23, <2>2 DEF ReviewRead, Lifecycle!MissionState
    <3>3. carry' \in [Procs -> Lifecycle!MissionState \cup {"none"}]
      BY <3>1, <3>2, OutcomeTyped
    <3> QED
      BY <1>23, <2>2, <3>3 DEF ReviewRead
  <2> QED
    BY <2>1, <2>2
<1>24. ASSUME NEW p \in Procs, ReviewAccept(p) PROVE ProcsTyped'
  BY <1>24, LeaveTyped DEF ReviewAccept
<1>25. ASSUME NEW p \in Procs, ReviewCheck(p) PROVE ProcsTyped'
  BY <1>25, LeaveTyped DEF ReviewCheck, Refuse
<1>26. ASSUME NEW p \in Procs, ReviewRestore(p) PROVE ProcsTyped'
  BY <1>26, LeaveTyped DEF ReviewRestore, Refuse
<1>27. ASSUME NEW p \in Procs, ReviewUndone(p) PROVE ProcsTyped'
  BY <1>27, LeaveTyped DEF ReviewUndone
<1>28. CASE WorkerLoop
  BY <1>28 DEF WorkerLoop, WorkerLockAll, WorkerSettleRecords, WorkerList, Queued, WorkerNext, Verbs
<1>29. ASSUME NEW p \in Clis, Command(p) PROVE ProcsTyped'
  BY <1>29 DEF Command, Begin, CancelRead, Verbs
<1>30. ASSUME NEW m \in Missions, Create(m) PROVE ProcsTyped'
  BY <1>30 DEF Create
<1>31. ASSUME NEW w \in Workspaces, UserEdit(w) PROVE ProcsTyped'
  BY <1>31 DEF UserEdit
<1>32. ASSUME NEW p \in Procs, Crash(p) PROVE ProcsTyped'
  BY <1>32, UnlockForgetTyped DEF Crash
<1>33. CASE UNCHANGED vars
  BY <1>33 DEF vars
<1> QED
  BY <1>1, <1>2, <1>3, <1>4, <1>5, <1>6, <1>7, <1>8, <1>9, <1>10, <1>11, <1>12, <1>13, <1>14, <1>15, <1>16, <1>17, <1>18, <1>19, <1>20, <1>21, <1>22, <1>23, <1>24, <1>25, <1>26, <1>27, <1>28, <1>29, <1>30, <1>31, <1>32, <1>33 DEF Next, Continue

(* The database and the files after each action.                           *)
LEMMA DataTypedStep ==
    TypeOK /\ TaskIsOpen /\ [Next]_vars => DataTyped'
<1> SUFFICES ASSUME TypeOK, TaskIsOpen, [Next]_vars PROVE DataTyped'
  OBVIOUS
<1> USE DEF TypeOK, DataTyped, Lifecycle!TypeOK, Lifecycle!MissionState
<1>1. ASSUME NEW p \in Procs, LockGlobal(p) \/ LockWs(p) \/ LockRefused(p) \/ Crash(p) PROVE DataTyped'
  BY <1>1 DEF LockGlobal, LockWs, LockRefused, Crash
<1>2. ASSUME NEW p \in Procs, RecoverList(p) \/ RecoverDone(p) PROVE DataTyped'
  BY <1>2 DEF RecoverList, RecoverDone
<1>3. ASSUME NEW p \in Procs, RecoverOne(p) PROVE DataTyped'
  BY <1>3 DEF RecoverOne, RecoverTarget
<1>4. ASSUME NEW p \in Procs, RunRead(p) \/ RunGate(p) PROVE DataTyped'
  BY <1>4 DEF RunRead, RunGate, Refuse
<1>5. ASSUME NEW p \in Procs, RunStart(p) PROVE DataTyped'
  BY <1>5 DEF RunStart, Refuse
<1>6. ASSUME NEW p \in Procs, ExecBegin(p) PROVE DataTyped'
  BY <1>6, TaskOpensTyped DEF ExecBegin, Raise
<1>7. ASSUME NEW p \in Procs, ExecSnapshot(p) PROVE DataTyped'
  <2>1. /\ UNCHANGED <<missionVars, cancelReq, checkpoint, fileVars>>
        /\ UNCHANGED openTasks \/ TaskSettles(job[p])
    BY <1>7 DEF ExecSnapshot, Raise
  <2>2. job[p] \in Missions /\ openTasks[job[p]] # 0
    BY <1>7, WsTyped DEF ExecSnapshot, TaskIsOpen
  <2> QED
    BY <2>1, <2>2, TaskSettlesTyped
<1>8. ASSUME NEW p \in Procs, ExecRecord(p) PROVE DataTyped'
  BY <1>8, TypeSplit, TaskSettlesTyped DEF ExecRecord, TaskIsOpen, ProcsTyped
<1>9. ASSUME NEW p \in Procs, ExecTask(p) PROVE DataTyped'
  BY <1>9, TaskOpensTyped DEF ExecTask
<1>10. ASSUME NEW p \in Procs, ExecWrite(p) PROVE DataTyped'
  <2>1. content[Ws(p)] \cup {<<"work", job[p]>>} \in SUBSET Token
    BY WsTyped DEF Token
  <2> HIDE DEF Ws
  <2>2. content' \in [Workspaces -> SUBSET Token]
    BY <1>10, <2>1 DEF ExecWrite
  <2> QED
    BY <1>10, <2>2 DEF ExecWrite
<1>11. ASSUME NEW p \in Procs, ExecWorkEnds(p) PROVE DataTyped'
  <2>1. /\ UNCHANGED <<missionVars, cancelReq, checkpoint, fileVars>>
        /\ TaskSettles(job[p])
    BY <1>11 DEF ExecWorkEnds, Raise
  <2>2. job[p] \in Missions /\ openTasks[job[p]] # 0
    BY <1>11, WsTyped DEF ExecWorkEnds, TaskIsOpen
  <2> QED
    BY <2>1, <2>2, TaskSettlesTyped
<1>12. ASSUME NEW p \in Procs, ExecFinalCheck(p) PROVE DataTyped'
  BY <1>12 DEF ExecFinalCheck, Raise
<1>13. ASSUME NEW p \in Procs, ExecReceipt(p) PROVE DataTyped'
  BY <1>13 DEF ExecReceipt, Outcome
<1>14. ASSUME NEW p \in Procs, ExecFinish(p) PROVE DataTyped'
  BY <1>14 DEF ExecFinish
<1>15. ASSUME NEW p \in Procs, CancelQueued(p) \/ CancelFlag(p) PROVE DataTyped'
  BY <1>15 DEF CancelQueued, CancelFlag
<1>16. ASSUME NEW p \in Procs, RetryRead(p) PROVE DataTyped'
  BY <1>16 DEF RetryRead, Refuse
<1>17. ASSUME NEW p \in Procs, RetryCommit(p) PROVE DataTyped'
  <2>1. requeues' \in [Missions -> Nat]
    BY <1>17 DEF RetryCommit
  <2>2. cancelReq' \in [Missions -> BOOLEAN]
    BY <1>17 DEF RetryCommit
  <2> QED
    BY <1>17, <2>1, <2>2 DEF RetryCommit
<1>18. ASSUME NEW p \in Procs, ReviewRead(p) \/ ReviewAccept(p) \/ ReviewCheck(p) PROVE DataTyped'
  BY <1>18 DEF ReviewRead, ReviewAccept, ReviewCheck, Refuse
<1>19. ASSUME NEW p \in Procs, ReviewRestore(p) PROVE DataTyped'
  <2>1. checkpoint[job[p]] \in SUBSET SUBSET Token
    BY WsTyped
  <2>2. content' \in [Workspaces -> SUBSET Token]
    BY <1>19, <2>1 DEF ReviewRestore, Refuse
  <2> QED
    BY <1>19, <2>2 DEF ReviewRestore, Refuse
<1>20. ASSUME NEW p \in Procs, ReviewUndone(p) PROVE DataTyped'
  BY <1>20 DEF ReviewUndone
<1>21. CASE WorkerLoop
  BY <1>21 DEF WorkerLoop, WorkerLockAll, WorkerSettleRecords, SettleRecords, WorkerList, WorkerNext
<1>22. ASSUME NEW p \in Clis, Command(p) PROVE DataTyped'
  BY <1>22 DEF Command, Begin, CancelRead
<1>23. ASSUME NEW m \in Missions, Create(m) PROVE DataTyped'
  BY <1>23 DEF Create
<1>24. ASSUME NEW w \in Workspaces, UserEdit(w) PROVE DataTyped'
  BY <1>24 DEF UserEdit, Token
<1>25. CASE UNCHANGED vars
  BY <1>25 DEF vars
<1> QED
  BY <1>1, <1>2, <1>3, <1>4, <1>5, <1>6, <1>7, <1>8, <1>9, <1>10, <1>11, <1>12, <1>13, <1>14, <1>15, <1>16, <1>17, <1>18, <1>19, <1>20, <1>21, <1>22, <1>23, <1>24, <1>25 DEF Next, Continue

(* Whatever the engine stores has its type.                                *)
LEMMA TypeOKStep == TypeOK /\ TaskIsOpen /\ [Next]_vars => TypeOK'
BY ProcsTypedStep, DataTypedStep, TypeJoin

-----------------------------------------------------------------------------
(* One process's step, and what it leaves alone.                           *)
ProcStep(p) ==
    \/ Continue(p)
    \/ p = Worker /\ WorkerLoop
    \/ p \in Clis /\ Command(p)
    \/ Crash(p)

Same(q) ==
    /\ pc'[q] = pc[q]
    /\ verb'[q] = verb[q]
    /\ job'[q] = job[q]
    /\ carry'[q] = carry[q]
    /\ snap'[q] = snap[q]
    /\ stale'[q] = stale[q]

(* A step is one process's, or the creation of a mission, or an edit.      *)
LEMMA NextSplit ==
    Next => \/ \E p \in Procs : ProcStep(p)
            \/ \E m \in Missions : Create(m)
            \/ \E w \in Workspaces : UserEdit(w)
BY DEF Next, ProcStep

(* A process that leaves touches no other one.                             *)
LEMMA LeaveIsLocal ==
    ASSUME TypeOK, NEW p \in Procs, Unlock(p) /\ Forget(p),
           NEW label, pc' = [pc EXCEPT ![p] = label],
           NEW q \in Procs, q # p
    PROVE  Same(q)
BY DEF TypeOK, Unlock, Forget, Same

(* The variables of a process are its own.                                 *)
LEMMA OthersStay ==
    ASSUME TypeOK, NEW p \in Procs, ProcStep(p), NEW q \in Procs, q # p
    PROVE  Same(q)
<1>0. Leave(p) => Same(q)
  BY LeaveIsLocal DEF Leave
<1> USE DEF TypeOK
<1>1. CASE LockGlobal(p) \/ LockWs(p) \/ LockRefused(p)
  BY <1>1, <1>0 DEF LockGlobal, LockWs, LockRefused, Same
<1>2. CASE RecoverList(p)
  BY <1>2 DEF RecoverList, Same
<1>3. CASE RecoverOne(p)
  BY <1>3 DEF RecoverOne, Same
<1>4. CASE RecoverDone(p)
  BY <1>4, LeaveIsLocal DEF RecoverDone, Same
<1>5. CASE RunRead(p) \/ RunGate(p) \/ RunStart(p)
  BY <1>5, <1>0 DEF RunRead, RunGate, RunStart, Refuse, Same
<1>6. CASE ExecBegin(p) \/ ExecSnapshot(p)
  BY <1>6 DEF ExecBegin, ExecSnapshot, Raise, Outcome, Same
<1>7. CASE ExecRecord(p) \/ ExecTask(p) \/ ExecWrite(p)
  BY <1>7 DEF ExecRecord, ExecTask, ExecWrite, Same
<1>8. CASE ExecWorkEnds(p) \/ ExecFinalCheck(p)
  BY <1>8 DEF ExecWorkEnds, ExecFinalCheck, Raise, Outcome, Same
<1>9. CASE ExecReceipt(p)
  BY <1>9 DEF ExecReceipt, Outcome, Same
<1>10. CASE ExecFinish(p) \/ CancelQueued(p) \/ CancelFlag(p)
  BY <1>10, <1>0 DEF ExecFinish, CancelQueued, CancelFlag
<1>11. CASE RetryRead(p) \/ RetryCommit(p)
  BY <1>11, <1>0 DEF RetryRead, RetryCommit, Refuse, Outcome, Same
<1>12. CASE ReviewRead(p) \/ ReviewAccept(p) \/ ReviewUndone(p)
  BY <1>12, <1>0 DEF ReviewRead, ReviewAccept, ReviewUndone, Refuse, Outcome, Same
<1>13. CASE ReviewCheck(p) \/ ReviewRestore(p)
  BY <1>13, <1>0 DEF ReviewCheck, ReviewRestore, Refuse, Same
<1>14. CASE p = Worker /\ WorkerLoop
  BY <1>14 DEF WorkerLoop, WorkerLockAll, WorkerSettleRecords, WorkerList, WorkerNext, Same
<1>15. CASE Command(p)
  BY <1>15 DEF Command, Begin, CancelRead, Same
<1>16. CASE Crash(p)
  BY <1>16, LeaveIsLocal DEF Crash
<1> QED
  BY <1>1, <1>2, <1>3, <1>4, <1>5, <1>6, <1>7, <1>8, <1>9, <1>10, <1>11, <1>12, <1>13, <1>14, <1>15, <1>16 DEF ProcStep, Continue

(* Which verb a label belongs to.                                          *)
VerbOf(p) ==
    /\ pc[p] \in LockLabels => verb[p] \in {"run", "retry", "accept", "undo"}
    /\ pc[p] \in {"idle"} \cup WorkerLabels => verb[p] = "none"
    /\ pc[p] \in ({"run_read", "run_gate", "run_start"} \cup ExecLabels) =>
        verb[p] = "run"
    /\ pc[p] \in {"recover_list", "recover_each"} => verb[p] \in {"run", "none"}

VerbOfLabel == \A p \in Procs : VerbOf(p)

(* A process that leaves has no verb.                                      *)
LEMMA LeaveVerb ==
    ASSUME TypeOK, NEW p \in Procs, Leave(p)
    PROVE  VerbOf(p)'
BY DEF TypeOK, Leave, Forget, Home, VerbOf

(* The label tells the verb after every step.                              *)
LEMMA VerbOfLabelStep == TypeOK /\ VerbOfLabel /\ [Next]_vars => VerbOfLabel'
<1> SUFFICES ASSUME TypeOK, VerbOfLabel, [Next]_vars, NEW q \in Procs
             PROVE  VerbOf(q)'
  BY DEF VerbOfLabel
<1>0. VerbOf(q)
  BY DEF VerbOfLabel
<1>1. ASSUME NEW p \in Procs, ProcStep(p), q # p PROVE VerbOf(q)'
  BY <1>0, <1>1, OthersStay DEF VerbOf, Same
<1>2. ASSUME ProcStep(q) PROVE VerbOf(q)'
  <2> USE <1>0 DEF TypeOK
  <2>1. CASE LockGlobal(q) \/ LockWs(q) \/ LockRefused(q)
    BY <2>1, LeaveVerb DEF LockGlobal, LockWs, LockRefused, EntryOf, VerbOf
  <2>2. CASE RecoverList(q) \/ RecoverOne(q)
    BY <2>2 DEF RecoverList, RecoverOne, VerbOf
  <2>3. CASE RecoverDone(q)
    BY <2>3 DEF RecoverDone, Forget, VerbOf
  <2>4. CASE RunRead(q) \/ RunGate(q) \/ RunStart(q)
    BY <2>4, LeaveVerb DEF RunRead, RunGate, RunStart, Refuse, VerbOf
  <2>5. CASE ExecBegin(q) \/ ExecSnapshot(q)
    BY <2>5 DEF ExecBegin, ExecSnapshot, Raise, VerbOf
  <2>6. CASE ExecRecord(q) \/ ExecTask(q) \/ ExecWrite(q)
    BY <2>6 DEF ExecRecord, ExecTask, ExecWrite, VerbOf
  <2>7. CASE ExecWorkEnds(q) \/ ExecFinalCheck(q)
    BY <2>7 DEF ExecWorkEnds, ExecFinalCheck, Raise, VerbOf
  <2>8. CASE ExecReceipt(q)
    BY <2>8 DEF ExecReceipt, VerbOf
  <2>9. CASE ExecFinish(q) \/ CancelQueued(q) \/ CancelFlag(q)
    BY <2>9, LeaveVerb DEF ExecFinish, CancelQueued, CancelFlag
  <2>10. CASE RetryRead(q) \/ RetryCommit(q)
    BY <2>10, LeaveVerb DEF RetryRead, RetryCommit, Refuse, VerbOf
  <2>11. CASE ReviewRead(q) \/ ReviewAccept(q) \/ ReviewUndone(q)
    BY <2>11, LeaveVerb DEF ReviewRead, ReviewAccept, ReviewUndone, Refuse, VerbOf
  <2>12. CASE ReviewCheck(q) \/ ReviewRestore(q)
    BY <2>12, LeaveVerb DEF ReviewCheck, ReviewRestore, Refuse, VerbOf
  <2>13. CASE q = Worker /\ WorkerLoop
    BY <2>13 DEF WorkerLoop, WorkerLockAll, WorkerSettleRecords, WorkerList, WorkerNext, VerbOf
  <2>14. CASE Command(q)
    BY <2>14 DEF Command, Begin, CancelRead, VerbOf
  <2>15. CASE Crash(q)
    BY <2>15 DEF Crash, Forget, VerbOf
  <2> QED
    BY <1>2, <2>1, <2>2, <2>3, <2>4, <2>5, <2>6, <2>7, <2>8, <2>9, <2>10, <2>11, <2>12, <2>13, <2>14, <2>15 DEF ProcStep, Continue
<1>3. CASE UNCHANGED <<pc, verb>>
  BY <1>0, <1>3 DEF VerbOf
<1> QED
  BY <1>1, <1>2, <1>3, NextSplit DEF Create, UserEdit, vars

-----------------------------------------------------------------------------
(* Who has which lock is told by the labels, and no two locks that exclude *)
(* each other are held.                                                    *)
Sharing(p) == pc[p] = "lock_ws" \/ HoldsWs(p)

LockHeld ==
    /\ \A p \in Procs : HoldsWs(p) => wsHolders[Ws(p)] = {p}
    /\ \A w \in Workspaces : \A p \in wsHolders[w] : HoldsWs(p) /\ Ws(p) = w
    /\ \A p \in Procs : p \in shHolders <=> Sharing(p)
    /\ \A p \in Procs : p \in exHolders <=> Reconciling(p)
    /\ \A p, q \in Procs :
        Reconciling(p) => ~Sharing(q) /\ (Reconciling(q) => p = q)

(* Moving on inside or outside the locks changes nothing about them.       *)
LEMMA MoveKeepsLocks ==
    ASSUME TypeOK, LockHeld, NEW p \in Procs,
           \A q \in Procs \ {p} : Same(q),
           UNCHANGED lockVars,
           HoldsWs(p)' <=> HoldsWs(p),
           Sharing(p)' <=> Sharing(p),
           Reconciling(p)' <=> Reconciling(p),
           HoldsWs(p) => job'[p] = job[p]
    PROVE  LockHeld'
<1>1. \A q \in Procs : /\ HoldsWs(q)' <=> HoldsWs(q)
                       /\ Sharing(q)' <=> Sharing(q)
                       /\ Reconciling(q)' <=> Reconciling(q)
                       /\ HoldsWs(q) => job'[q] = job[q]
  BY DEF Same, Sharing
<1>2. \A w \in Workspaces : wsHolders[w] \in SUBSET Procs
  BY DEF TypeOK
<1> HIDE DEF HoldsWs, Reconciling
<1> QED
  BY <1>1, <1>2 DEF LockHeld

(* Unlocking leaves the others theirs.                                     *)
LEMMA UnlockReleases ==
    ASSUME TypeOK, LockHeld, NEW p \in Procs,
           \A q \in Procs \ {p} : Same(q),
           Unlock(p), ~Sharing(p)', ~Reconciling(p)'
    PROVE  LockHeld'
<1>1. \A q \in Procs \ {p} : /\ HoldsWs(q)' <=> HoldsWs(q)
                             /\ Sharing(q)' <=> Sharing(q)
                             /\ Reconciling(q)' <=> Reconciling(q)
                             /\ job'[q] = job[q]
  BY DEF Same, Sharing
<1>2. \A w \in Workspaces : wsHolders[w] \in SUBSET Procs
  BY DEF TypeOK
<1>3. ~HoldsWs(p)'
  BY DEF Sharing
<1>4. \A w \in Workspaces : wsHolders'[w] = wsHolders[w] \ {p}
  BY DEF Unlock
<1>5. \A q \in Procs : Ws(q) \in Workspaces
  BY WsTyped
<1> HIDE DEF HoldsWs, Reconciling
<1>6. \A q \in Procs : HoldsWs(q)' => wsHolders'[Ws(q)'] = {q}
  <2> SUFFICES ASSUME NEW q \in Procs, HoldsWs(q)'
               PROVE  wsHolders'[Ws(q)'] = {q}
    OBVIOUS
  <2>1. q # p /\ HoldsWs(q) /\ Ws(q)' = Ws(q)
    BY <1>1, <1>3
  <2>2. wsHolders[Ws(q)] = {q}
    BY <2>1 DEF LockHeld
  <2> QED
    BY <2>1, <2>2, <1>4, <1>5
<1>7. \A w \in Workspaces : \A q \in wsHolders'[w] : HoldsWs(q)' /\ Ws(q)' = w
  BY <1>1, <1>2, <1>4 DEF LockHeld
<1> QED
  BY <1>1, <1>3, <1>6, <1>7 DEF LockHeld, Unlock

(* The first level is shared unless somebody has it exclusive.             *)
LEMMA LockGlobalLocks ==
    ASSUME TypeOK, LockHeld, NEW p \in Procs,
           \A q \in Procs \ {p} : Same(q), LockGlobal(p)
    PROVE  LockHeld'
<1>1. \A q \in Procs : /\ HoldsWs(q)' <=> HoldsWs(q)
                       /\ Sharing(q)' <=> Sharing(q) \/ q = p
                       /\ Reconciling(q)' <=> Reconciling(q)
                       /\ job'[q] = job[q]
  BY DEF LockGlobal, Same, Sharing, TypeOK
<1>2. \A w \in Workspaces : wsHolders[w] \in SUBSET Procs
  BY DEF TypeOK
<1>3. ~Reconciling(p) /\ pc[p] = "lock_global"
  BY DEF LockGlobal
<1> HIDE DEF HoldsWs, Reconciling
<1> QED
  BY <1>1, <1>2, <1>3 DEF LockHeld, LockGlobal, GlobalFree

(* The second is exclusive.                                                *)
LEMMA LockWsLocks ==
    ASSUME TypeOK, VerbOfLabel, LockHeld, NEW p \in Procs,
           \A q \in Procs \ {p} : Same(q), LockWs(p)
    PROVE  LockHeld'
<1>1. \A q \in Procs : /\ HoldsWs(q)' <=> HoldsWs(q) \/ q = p
                       /\ Sharing(q)' <=> Sharing(q)
                       /\ Reconciling(q)' <=> Reconciling(q)
                       /\ job'[q] = job[q]
  BY DEF LockWs, EntryOf, Same, Sharing, TypeOK, VerbOfLabel, VerbOf
<1>2. \A w \in Workspaces : wsHolders[w] \in SUBSET Procs
  BY DEF TypeOK
<1>3. ~HoldsWs(p)
  BY DEF LockWs
<1>4. \A q \in Procs : Ws(q) \in Workspaces
  BY WsTyped
<1> HIDE DEF HoldsWs, Reconciling
<1>5. wsHolders[Ws(p)] = {}
  BY <1>3, <1>4 DEF LockWs, WsFree, LockHeld
<1>6. wsHolders' = [wsHolders EXCEPT ![Ws(p)] = {p}]
  BY <1>5 DEF LockWs, TypeOK
<1>7. UNCHANGED <<exHolders, shHolders>>
  BY DEF LockWs
<1>8. \A q \in Procs : HoldsWs(q)' => wsHolders'[Ws(q)'] = {q}
  BY <1>1, <1>4, <1>5, <1>6, SMTT(30) DEF LockHeld, TypeOK
<1>9. \A w \in Workspaces : \A q \in wsHolders'[w] : HoldsWs(q)' /\ Ws(q)' = w
  BY <1>1, <1>2, <1>4, <1>5, <1>6 DEF LockHeld, TypeOK
<1>10. \A q \in Procs : /\ q \in shHolders' <=> Sharing(q)'
                        /\ q \in exHolders' <=> Reconciling(q)'
  BY <1>1, <1>7 DEF LockHeld
<1> QED
  BY <1>1, <1>8, <1>9, <1>10 DEF LockHeld

(* The worker takes the whole system only when nobody shares it.           *)
LEMMA WorkerLockAllLocks ==
    ASSUME TypeOK, VerbOfLabel, LockHeld,
           \A q \in Procs \ {Worker} : Same(q), WorkerLockAll
    PROVE  LockHeld'
<1>1. CASE exHolders = {} /\ shHolders = {}
  <2>1. \A q \in Procs : /\ HoldsWs(q)' <=> HoldsWs(q)
                         /\ Sharing(q)' <=> Sharing(q)
                         /\ Reconciling(q)' <=> Reconciling(q) \/ q = Worker
                         /\ job'[q] = job[q]
    BY <1>1 DEF WorkerLockAll, Same, Sharing, TypeOK, VerbOfLabel, VerbOf
  <2>2. \A w \in Workspaces : wsHolders[w] \in SUBSET Procs
    BY DEF TypeOK
  <2> HIDE DEF HoldsWs, Reconciling
  <2> QED
    BY <1>1, <2>1, <2>2 DEF LockHeld, WorkerLockAll
<1>2. CASE ~(exHolders = {} /\ shHolders = {})
  BY <1>2, MoveKeepsLocks DEF WorkerLockAll, Sharing, TypeOK
<1> QED
  BY <1>1, <1>2

(* Who leaves has no lock any more.                                        *)
LEMMA LeaveReleases ==
    ASSUME TypeOK, LockHeld, NEW p \in Procs,
           \A q \in Procs \ {p} : Same(q), Leave(p)
    PROVE  LockHeld'
<1>1. Unlock(p) /\ pc'[p] \in {"w_next", "idle"}
  BY DEF Leave, Home, TypeOK
<1>2. ~Sharing(p)' /\ ~Reconciling(p)'
  BY <1>1 DEF Sharing
<1> QED
  BY <1>1, <1>2, UnlockReleases

(* The locks are held where the labels say, after every step.              *)
LEMMA LockHeldStep ==
    TypeOK /\ VerbOfLabel /\ LockHeld /\ [Next]_vars => LockHeld'
<1> SUFFICES ASSUME TypeOK, VerbOfLabel, LockHeld, [Next]_vars PROVE LockHeld'
  OBVIOUS
<1>1. ASSUME NEW p \in Procs, ProcStep(p) PROVE LockHeld'
  <2>0. \A q \in Procs \ {p} : Same(q)
    BY <1>1, OthersStay
  <2>00. VerbOf(p)
    BY DEF VerbOfLabel
  <2>1. CASE LockGlobal(p) \/ LockWs(p) \/ LockRefused(p)
    BY <2>0, <2>1, LockGlobalLocks, LockWsLocks, LeaveReleases DEF LockRefused
  <2>2. CASE RecoverList(p)
    BY <2>0, <2>2, MoveKeepsLocks DEF RecoverList, Sharing, TypeOK
  <2>3. CASE RecoverOne(p)
    BY <2>0, <2>3, MoveKeepsLocks DEF RecoverOne, Sharing, TypeOK
  <2>4. CASE RecoverDone(p) /\ verb[p] = "run"
    BY <2>0, <2>4, MoveKeepsLocks DEF RecoverDone, Sharing, TypeOK
  <2>5. CASE RecoverDone(p) /\ verb[p] # "run"
    BY <2>0, <2>5, UnlockReleases DEF RecoverDone, Sharing, TypeOK
  <2>6. CASE RunRead(p)
    BY <2>0, <2>6, LeaveReleases, MoveKeepsLocks DEF RunRead, Refuse, Sharing, TypeOK
  <2>7. CASE RunGate(p)
    BY <2>0, <2>7, LeaveReleases, MoveKeepsLocks DEF RunGate, Refuse, Sharing, TypeOK
  <2>8. CASE RunStart(p)
    BY <2>0, <2>8, LeaveReleases, MoveKeepsLocks DEF RunStart, Refuse, Sharing, TypeOK
  <2>9. CASE ExecBegin(p)
    BY <2>0, <2>9, MoveKeepsLocks DEF ExecBegin, Raise, Sharing, TypeOK
  <2>10. CASE ExecSnapshot(p)
    BY <2>0, <2>10, MoveKeepsLocks DEF ExecSnapshot, Raise, Sharing, TypeOK
  <2>11. CASE ExecRecord(p)
    BY <2>0, <2>11, MoveKeepsLocks DEF ExecRecord, Sharing, TypeOK
  <2>12. CASE ExecTask(p)
    BY <2>0, <2>12, MoveKeepsLocks DEF ExecTask, Sharing, TypeOK
  <2>13. CASE ExecWrite(p)
    BY <2>0, <2>13, MoveKeepsLocks DEF ExecWrite, Sharing, TypeOK
  <2>14. CASE ExecWorkEnds(p)
    BY <2>0, <2>14, MoveKeepsLocks DEF ExecWorkEnds, Raise, Sharing, TypeOK
  <2>15. CASE ExecFinalCheck(p)
    BY <2>0, <2>15, MoveKeepsLocks DEF ExecFinalCheck, Raise, Sharing, TypeOK
  <2>16. CASE ExecReceipt(p)
    BY <2>0, <2>16, MoveKeepsLocks DEF ExecReceipt, Sharing, TypeOK
  <2>17. CASE ExecFinish(p) \/ CancelQueued(p) \/ CancelFlag(p)
    BY <2>0, <2>17, LeaveReleases DEF ExecFinish, CancelQueued, CancelFlag
  <2>18. CASE RetryRead(p) \/ RetryCommit(p)
    BY <2>0, <2>18, LeaveReleases, MoveKeepsLocks DEF RetryRead, RetryCommit, Refuse, Sharing, TypeOK
  <2>19. CASE ReviewRead(p)
    BY <2>0, <2>19, LeaveReleases, MoveKeepsLocks DEF ReviewRead, Refuse, Sharing, TypeOK
  <2>20. CASE ReviewAccept(p) \/ ReviewUndone(p)
    BY <2>0, <2>20, LeaveReleases DEF ReviewAccept, ReviewUndone
  <2>21. CASE ReviewCheck(p)
    BY <2>0, <2>21, LeaveReleases, MoveKeepsLocks DEF ReviewCheck, Refuse, Sharing, TypeOK
  <2>22. CASE ReviewRestore(p)
    BY <2>0, <2>22, LeaveReleases, MoveKeepsLocks DEF ReviewRestore, Refuse, Sharing, TypeOK
  <2>23. CASE p = Worker /\ WorkerLockAll
    BY <2>0, <2>23, WorkerLockAllLocks
  <2>24. CASE p = Worker /\ WorkerSettleRecords
    BY <2>0, <2>24, <2>00, MoveKeepsLocks DEF WorkerSettleRecords, VerbOf, Sharing, TypeOK
  <2>25. CASE p = Worker /\ WorkerList
    BY <2>0, <2>25, MoveKeepsLocks DEF WorkerList, Sharing, TypeOK
  <2>26. CASE p = Worker /\ WorkerNext
    BY <2>0, <2>26, MoveKeepsLocks, SMTT(30) DEF WorkerNext, Sharing, TypeOK
  <2>27. CASE p \in Clis /\ Command(p)
    BY <2>0, <2>27, MoveKeepsLocks DEF Command, Begin, CancelRead, Sharing, TypeOK
  <2>28. CASE Crash(p)
    BY <2>0, <2>28, UnlockReleases DEF Crash, Forget, Sharing, TypeOK
  <2> QED
    BY <1>1, <2>1, <2>2, <2>3, <2>4, <2>5, <2>6, <2>7, <2>8, <2>9, <2>10, <2>11, <2>12, <2>13, <2>14, <2>15, <2>16, <2>17, <2>18, <2>19, <2>20, <2>21, <2>22, <2>23, <2>24, <2>25, <2>26, <2>27, <2>28 DEF ProcStep, Continue, WorkerLoop
<1>2. CASE UNCHANGED <<pc, verb, job, lockVars>>
  BY <1>2 DEF LockHeld, Sharing
<1> QED
  BY <1>1, <1>2, NextSplit DEF Create, UserEdit, vars

(* So two processes are never inside the same workspace.                   *)
LEMMA LocksExclude == TypeOK /\ LockHeld => OneProcessPerWorkspace
<1> SUFFICES ASSUME TypeOK, LockHeld, NEW p \in Procs, NEW q \in Procs,
                    p # q, HoldsWs(p)
             PROVE  ~(HoldsWs(q) /\ Ws(p) = Ws(q)) /\ ~Reconciling(q)
  BY DEF OneProcessPerWorkspace
<1> HIDE DEF HoldsWs, Reconciling
<1> QED
  BY DEF LockHeld, Sharing

-----------------------------------------------------------------------------
(* What a process keeps of what it read.                                   *)
CarryOf(p) ==
    /\ pc[p] = "r_commit" => carry[p] \in {"failed", "cancelled"}
    /\ pc[p] = "v_accept" => carry[p] = "waiting-review"
    /\ pc[p] \in {"v_check", "v_restore", "v_undone"} =>
        carry[p] \in {"waiting-review", "failed", "cancelled", "completed"}
    /\ pc[p] \in {"x_receipt", "x_finish"} =>
        carry[p] \in {"waiting-review", "failed", "cancelled"}

CarryOfLabel == \A p \in Procs : CarryOf(p)

(* Recovery's list names missions of its scope, each once.                 *)
ListOf(p) ==
    /\ pc[p] # "recover_each" => stale[p] = {}
    /\ \A e \in stale[p] : e[1] \in RecoverScope(p)
    /\ \A e, f \in stale[p] : e[1] = f[1] => e = f

Listed == \A p \in Procs : ListOf(p)

(* Who leaves keeps nothing of what it read.                               *)
LEMMA LeaveForgets ==
    ASSUME TypeOK, NEW p \in Procs, Leave(p)
    PROVE  CarryOf(p)' /\ ListOf(p)'
BY DEF TypeOK, Leave, Forget, Home, CarryOf, ListOf

(* Each label is entered with a state, or an outcome, that fits it.        *)
LEMMA CarryOfLabelStep == TypeOK /\ CarryOfLabel /\ [Next]_vars => CarryOfLabel'
<1> SUFFICES ASSUME TypeOK, CarryOfLabel, [Next]_vars, NEW q \in Procs
             PROVE  CarryOf(q)'
  BY DEF CarryOfLabel
<1>0. CarryOf(q)
  BY DEF CarryOfLabel
<1>1. ASSUME NEW p \in Procs, ProcStep(p), q # p PROVE CarryOf(q)'
  BY <1>0, <1>1, OthersStay DEF CarryOf, Same
<1>2. ASSUME ProcStep(q) PROVE CarryOf(q)'
  <2> USE <1>0 DEF TypeOK
  <2>1. CASE LockGlobal(q) \/ LockWs(q) \/ LockRefused(q)
    BY <2>1, LeaveForgets DEF LockGlobal, LockWs, LockRefused, EntryOf, CarryOf
  <2>2. CASE RecoverList(q)
    BY <2>2 DEF RecoverList, CarryOf
  <2>3. CASE RecoverOne(q)
    BY <2>3 DEF RecoverOne, CarryOf
  <2>4. CASE RecoverDone(q)
    BY <2>4 DEF RecoverDone, Forget, CarryOf
  <2>5. CASE RunRead(q) \/ RunGate(q) \/ RunStart(q)
    BY <2>5, LeaveForgets DEF RunRead, RunGate, RunStart, Refuse, CarryOf
  <2>6. CASE ExecBegin(q) \/ ExecSnapshot(q)
    BY <2>6 DEF ExecBegin, ExecSnapshot, Raise, Outcome, CarryOf
  <2>7. CASE ExecRecord(q) \/ ExecTask(q) \/ ExecWrite(q)
    BY <2>7 DEF ExecRecord, ExecTask, ExecWrite, CarryOf
  <2>8. CASE ExecWorkEnds(q) \/ ExecFinalCheck(q)
    BY <2>8 DEF ExecWorkEnds, ExecFinalCheck, Raise, Outcome, CarryOf
  <2>9. CASE ExecReceipt(q)
    BY <2>9 DEF ExecReceipt, Outcome, CarryOf
  <2>10. CASE ExecFinish(q) \/ CancelQueued(q) \/ CancelFlag(q)
    BY <2>10, LeaveForgets DEF ExecFinish, CancelQueued, CancelFlag, CarryOf
  <2>11. CASE RetryRead(q) \/ RetryCommit(q)
    BY <2>11, LeaveForgets DEF RetryRead, RetryCommit, Refuse, Outcome, CarryOf
  <2>12. CASE ReviewRead(q) \/ ReviewAccept(q) \/ ReviewUndone(q)
    BY <2>12, LeaveForgets DEF ReviewRead, ReviewAccept, ReviewUndone, Refuse, Outcome, CarryOf
  <2>13. CASE ReviewCheck(q) \/ ReviewRestore(q)
    BY <2>13, LeaveForgets DEF ReviewCheck, ReviewRestore, Refuse, CarryOf
  <2>14. CASE q = Worker /\ WorkerLoop
    BY <2>14 DEF WorkerLoop, WorkerLockAll, WorkerSettleRecords, WorkerList, WorkerNext, CarryOf
  <2>15. CASE Command(q)
    BY <2>15 DEF Command, Begin, CancelRead, CarryOf
  <2>16. CASE Crash(q)
    BY <2>16 DEF Crash, Forget, CarryOf
  <2> QED
    BY <1>2, <2>1, <2>2, <2>3, <2>4, <2>5, <2>6, <2>7, <2>8, <2>9, <2>10, <2>11, <2>12, <2>13, <2>14, <2>15, <2>16 DEF ProcStep, Continue
<1>3. CASE UNCHANGED <<pc, carry>>
  BY <1>0, <1>3 DEF CarryOf
<1> QED
  BY <1>1, <1>2, <1>3, NextSplit DEF Create, UserEdit, vars

(* The list is made at once, for one scope, and only gets shorter.         *)
LEMMA ListedStep == TypeOK /\ Listed /\ [Next]_vars => Listed'
<1> SUFFICES ASSUME TypeOK, Listed, [Next]_vars, NEW q \in Procs
             PROVE  ListOf(q)'
  BY DEF Listed
<1>0. ListOf(q)
  BY DEF Listed
<1>1. ASSUME NEW p \in Procs, ProcStep(p), q # p PROVE ListOf(q)'
  BY <1>0, <1>1, OthersStay, SMTT(30) DEF ListOf, RecoverScope, Same
<1>2. ASSUME ProcStep(q) PROVE ListOf(q)'
  <2> USE <1>0 DEF TypeOK
  <2>1. CASE LockGlobal(q) \/ LockWs(q) \/ LockRefused(q)
    BY <2>1, LeaveForgets DEF LockGlobal, LockWs, LockRefused, EntryOf, ListOf, RecoverScope
  <2>2. CASE RecoverList(q)
    BY <2>2 DEF RecoverList, ListOf, RecoverScope
  <2>3. CASE RecoverOne(q)
    <3>1. stale'[q] \subseteq stale[q] /\ UNCHANGED <<pc, verb, job>>
      BY <2>3 DEF RecoverOne
    <3> QED
      BY <2>3, <3>1 DEF RecoverOne, ListOf, RecoverScope
  <2>4. CASE RecoverDone(q)
    BY <2>4 DEF RecoverDone, Forget, ListOf, RecoverScope
  <2>5. CASE RunRead(q) \/ RunGate(q) \/ RunStart(q)
    BY <2>5, LeaveForgets DEF RunRead, RunGate, RunStart, Refuse, ListOf, RecoverScope
  <2>6. CASE ExecBegin(q) \/ ExecSnapshot(q)
    BY <2>6 DEF ExecBegin, ExecSnapshot, Raise, Outcome, ListOf, RecoverScope
  <2>7. CASE ExecRecord(q) \/ ExecTask(q) \/ ExecWrite(q)
    BY <2>7 DEF ExecRecord, ExecTask, ExecWrite, ListOf, RecoverScope
  <2>8. CASE ExecWorkEnds(q) \/ ExecFinalCheck(q)
    BY <2>8 DEF ExecWorkEnds, ExecFinalCheck, Raise, Outcome, ListOf, RecoverScope
  <2>9. CASE ExecReceipt(q)
    BY <2>9 DEF ExecReceipt, Outcome, ListOf, RecoverScope
  <2>10. CASE ExecFinish(q) \/ CancelQueued(q) \/ CancelFlag(q)
    BY <2>10, LeaveForgets DEF ExecFinish, CancelQueued, CancelFlag, ListOf, RecoverScope
  <2>11. CASE RetryRead(q) \/ RetryCommit(q)
    BY <2>11, LeaveForgets DEF RetryRead, RetryCommit, Refuse, Outcome, ListOf, RecoverScope
  <2>12. CASE ReviewRead(q) \/ ReviewAccept(q) \/ ReviewUndone(q)
    BY <2>12, LeaveForgets DEF ReviewRead, ReviewAccept, ReviewUndone, Refuse, Outcome, ListOf, RecoverScope
  <2>13. CASE ReviewCheck(q) \/ ReviewRestore(q)
    BY <2>13, LeaveForgets DEF ReviewCheck, ReviewRestore, Refuse, ListOf, RecoverScope
  <2>14. CASE q = Worker /\ WorkerLoop
    BY <2>14 DEF WorkerLoop, WorkerLockAll, WorkerSettleRecords, WorkerList, WorkerNext, ListOf, RecoverScope
  <2>15. CASE Command(q)
    BY <2>15 DEF Command, Begin, CancelRead, ListOf, RecoverScope
  <2>16. CASE Crash(q)
    BY <2>16 DEF Crash, Forget, ListOf, RecoverScope
  <2> QED
    BY <1>2, <2>1, <2>2, <2>3, <2>4, <2>5, <2>6, <2>7, <2>8, <2>9, <2>10, <2>11, <2>12, <2>13, <2>14, <2>15, <2>16 DEF ProcStep, Continue
<1>3. CASE UNCHANGED <<pc, verb, job, stale>>
  BY <1>0, <1>3 DEF ListOf, RecoverScope
<1> QED
  BY <1>1, <1>2, <1>3, NextSplit DEF Create, UserEdit, vars

-----------------------------------------------------------------------------
(* How a step of p can change the state of a mission.                      *)
MovedBy(p, m) ==
    \/ /\ pc[p] = "run_start" /\ m = job[p] /\ pc'[p] = "x_begin"
       /\ state[m] = "queued" /\ state'[m] = "running"
    \/ /\ pc[p] = "recover_each"
       /\ \E e \in stale[p] :
            e[1] = m /\ stale' = [stale EXCEPT ![p] = @ \ {e}]
       /\ state[m] = "running" /\ state'[m] \in {"failed", "cancelled"}
    \/ /\ pc[p] = "x_finish" /\ m = job[p] /\ pc'[p] = Home(p)
       /\ state[m] = "running" /\ state'[m] = carry[p]
    \/ /\ pc[p] = "c_queued" /\ m = job[p]
       /\ state[m] = "queued" /\ state'[m] = "cancelled"
    \/ /\ pc[p] = "r_commit" /\ m = job[p] /\ pc'[p] = Home(p)
       /\ state[m] = carry[p] /\ state'[m] = "queued"
       /\ requeues'[m] = requeues[m] + 1
    \/ /\ pc[p] = "v_accept" /\ m = job[p] /\ pc'[p] = Home(p)
       /\ state[m] = carry[p] /\ state'[m] = "completed"
    \/ /\ pc[p] = "v_undone" /\ m = job[p] /\ pc'[p] = Home(p)
       /\ state[m] = carry[p] /\ state'[m] = "undone"

(* Every change of a mission's state is one of those.                      *)
LEMMA StateMoves ==
    ASSUME TypeOK, NEW p \in Procs, ProcStep(p), NEW m \in Missions,
           state'[m] # state[m]
    PROVE  MovedBy(p, m)
<1> USE DEF TypeOK, Lifecycle!TypeOK
<1>1. CASE RecoverOne(p)
  <2>1. PICK e \in stale[p] :
            /\ pc[p] = "recover_each" /\ state[e[1]] = "running"
            /\ state' = [state EXCEPT ![e[1]] = RecoverTarget(e[1], e[2])]
            /\ stale' = [stale EXCEPT ![p] = @ \ {e}]
    BY <1>1 DEF RecoverOne
  <2>2. e[1] = m /\ state'[m] = RecoverTarget(m, e[2])
    BY <2>1
  <2> QED
    BY <2>1, <2>2 DEF RecoverTarget, MovedBy
<1>2. CASE RunStart(p)
  BY <1>2 DEF RunStart, Refuse, MovedBy
<1>3. CASE ExecFinish(p)
  BY <1>3 DEF ExecFinish, Leave, MovedBy
<1>4. CASE CancelQueued(p)
  BY <1>4 DEF CancelQueued, MovedBy
<1>5. CASE RetryCommit(p)
  BY <1>5 DEF RetryCommit, Leave, MovedBy
<1>6. CASE ReviewAccept(p)
  BY <1>6 DEF ReviewAccept, Leave, MovedBy
<1>7. CASE ReviewUndone(p)
  BY <1>7 DEF ReviewUndone, Leave, MovedBy
<1>8. CASE LockGlobal(p) \/ LockWs(p) \/ LockRefused(p)
  BY <1>8 DEF LockGlobal, LockWs, LockRefused
<1>9. CASE RecoverList(p) \/ RecoverDone(p)
  BY <1>9 DEF RecoverList, RecoverDone
<1>10. CASE RunRead(p) \/ RunGate(p)
  BY <1>10 DEF RunRead, RunGate, Refuse
<1>11. CASE ExecBegin(p) \/ ExecSnapshot(p)
  BY <1>11 DEF ExecBegin, ExecSnapshot, Raise
<1>12. CASE ExecRecord(p) \/ ExecTask(p) \/ ExecWrite(p)
  BY <1>12 DEF ExecRecord, ExecTask, ExecWrite
<1>13. CASE ExecWorkEnds(p) \/ ExecFinalCheck(p) \/ ExecReceipt(p)
  BY <1>13 DEF ExecWorkEnds, ExecFinalCheck, ExecReceipt, Raise
<1>14. CASE CancelFlag(p) \/ RetryRead(p)
  BY <1>14 DEF CancelFlag, RetryRead, Refuse
<1>15. CASE ReviewRead(p) \/ ReviewCheck(p) \/ ReviewRestore(p)
  BY <1>15 DEF ReviewRead, ReviewCheck, ReviewRestore, Refuse
<1>16. CASE WorkerLoop
  BY <1>16 DEF WorkerLoop, WorkerLockAll, WorkerSettleRecords, WorkerList, WorkerNext
<1>17. CASE Command(p)
  BY <1>17 DEF Command, Begin, CancelRead
<1>18. CASE Crash(p)
  BY <1>18 DEF Crash
<1> QED
  BY <1>1, <1>2, <1>3, <1>4, <1>5, <1>6, <1>7, <1>8, <1>9, <1>10, <1>11, <1>12, <1>13, <1>14, <1>15, <1>16, <1>17, <1>18 DEF ProcStep, Continue

(* Under a workspace's lock nobody else moves its missions, except that a  *)
(* queued one may be cancelled.                                            *)
LEMMA UnderWsLock ==
    ASSUME TypeOK, VerbOfLabel, LockHeld, Listed,
           NEW p \in Procs, ProcStep(p), NEW q \in Procs, q # p, HoldsWs(q),
           NEW m \in Missions, WsOf[m] = Ws(q), state'[m] # state[m]
    PROVE  state[m] = "queued" /\ state'[m] = "cancelled"
<1>1. MovedBy(p, m)
  BY StateMoves
<1>2. ~(HoldsWs(p) /\ Ws(p) = Ws(q)) /\ ~Reconciling(p)
  BY LocksExclude DEF OneProcessPerWorkspace
<1>3. pc[p] = "recover_each" => ~\E e \in stale[p] : e[1] = m
  BY <1>2 DEF Listed, ListOf, RecoverScope
<1> QED
  BY <1>1, <1>2, <1>3 DEF MovedBy

(* Under the lock of the whole system nobody else starts or ends a run.    *)
LEMMA UnderGlobalLock ==
    ASSUME TypeOK, VerbOfLabel, LockHeld, Listed,
           NEW p \in Procs, ProcStep(p), NEW q \in Procs, q # p, Reconciling(q),
           NEW m \in Missions
    PROVE  state'[m] = "running" <=> state[m] = "running"
<1>1. state'[m] # state[m] => MovedBy(p, m)
  BY StateMoves
<1>2. ~HoldsWs(p) /\ ~Reconciling(p)
  BY DEF LockHeld, Sharing
<1> QED
  BY <1>1, <1>2 DEF MovedBy

(* Creating a mission moves no other one.                                  *)
LEMMA CreateMoves ==
    ASSUME TypeOK, NEW n \in Missions, Create(n),
           NEW m \in Missions, state'[m] # state[m]
    PROVE  state[m] = "none" /\ state'[m] = "queued"
BY DEF Create, TypeOK, Lifecycle!TypeOK

-----------------------------------------------------------------------------
(* What a process has read is still so.                                    *)
ReadsOf(p) ==
    /\ pc[p] \in {"v_accept", "v_check", "v_restore", "v_undone",
                  "r_commit"} => state[job[p]] = carry[p]
    /\ Executing(p) => state[job[p]] = "running"
    /\ \A entry \in stale[p] : state[entry[1]] = "running"

(* ReadsStayTrue, process by process, in a state and in the next one.      *)
LEMMA ReadsSplit == ReadsStayTrue <=> \A p \in Procs : ReadsOf(p)
BY DEF ReadsStayTrue, ReadsOf

(* The same of the state after a step.                                     *)
LEMMA ReadsJoin == (\A p \in Procs : ReadsOf(p)') => ReadsStayTrue'
BY DEF ReadsStayTrue, ReadsOf

(* It is under the lock that the reader holds.                             *)
LEMMA ReadsKept ==
    ASSUME TypeOK, VerbOfLabel, LockHeld, CarryOfLabel, Listed,
           NEW q \in Procs, ReadsOf(q), Same(q),
           \A m \in Missions : state'[m] # state[m] =>
                \/ state[m] = "none"
                \/ state[m] = "queued" /\ state'[m] = "cancelled"
                \/ ~(HoldsWs(q) /\ WsOf[m] = Ws(q)) /\ ~Reconciling(q)
                \/ Reconciling(q) /\ state[m] # "running"
    PROVE  ReadsOf(q)'
<1> USE DEF TypeOK
<1>1. job'[q] = job[q] /\ pc'[q] = pc[q] /\ carry'[q] = carry[q]
      /\ stale'[q] = stale[q] /\ job[q] \in Missions
  BY DEF Same
<1>2. pc[q] \in {"v_accept", "v_check", "v_restore", "v_undone", "r_commit"}
        => state'[job[q]] = carry[q]
  BY <1>1 DEF ReadsOf, CarryOfLabel, CarryOf
<1>3. Executing(q) => state'[job[q]] = "running"
  BY <1>1 DEF ReadsOf
<1>4. ASSUME NEW entry \in stale[q] PROVE state'[entry[1]] = "running"
  <2>1. pc[q] = "recover_each" /\ entry[1] \in RecoverScope(q)
    BY DEF Listed, ListOf
  <2>2. entry[1] \in Missions /\ state[entry[1]] = "running"
    BY <2>1 DEF RecoverScope, ReadsOf
  <2>3. \/ HoldsWs(q) /\ WsOf[entry[1]] = Ws(q)
        \/ Reconciling(q)
    BY <2>1 DEF RecoverScope
  <2> QED
    BY <2>2, <2>3
<1> QED
  BY <1>1, <1>2, <1>3, <1>4 DEF ReadsOf

(* Who leaves has nothing left to rely on.                                 *)
LEMMA LeaveReads ==
    ASSUME TypeOK, NEW p \in Procs, Leave(p)
    PROVE  ReadsOf(p)'
BY DEF TypeOK, Leave, Forget, Home, ReadsOf

(* What was read stays true: of others by the lock, of oneself by the code.*)
LEMMA ReadsStep ==
    TypeOK /\ VerbOfLabel /\ LockHeld /\ CarryOfLabel /\ Listed
        /\ ReadsStayTrue /\ [Next]_vars => ReadsStayTrue'
<1> SUFFICES ASSUME TypeOK, VerbOfLabel, LockHeld, CarryOfLabel, Listed,
                    ReadsStayTrue, [Next]_vars, NEW q \in Procs
             PROVE  ReadsOf(q)'
  BY ReadsJoin
<1>0. ReadsOf(q)
  BY ReadsSplit
<1>1. ASSUME NEW p \in Procs, ProcStep(p), q # p PROVE ReadsOf(q)'
  <2>1. Same(q)
    BY <1>1, OthersStay
  <2> QED
    BY <1>0, <1>1, <2>1, ReadsKept, UnderWsLock, UnderGlobalLock
<1>2. ASSUME ProcStep(q) PROVE ReadsOf(q)'
  <2> USE <1>0 DEF TypeOK
  <2>1. CASE LockGlobal(q) \/ LockWs(q) \/ LockRefused(q)
    BY <2>1, LeaveReads DEF LockGlobal, LockWs, LockRefused, EntryOf, Listed, ListOf, ReadsOf
  <2>2. CASE RecoverList(q)
    BY <2>2 DEF RecoverList, RecoverScope, ReadsOf
  <2>3. CASE RecoverDone(q)
    BY <2>3 DEF RecoverDone, Forget, ReadsOf
  <2>4. CASE RunRead(q) \/ RunGate(q)
    BY <2>4, LeaveReads DEF RunRead, RunGate, Refuse, ReadsOf, Listed, ListOf
  <2>5. CASE RunStart(q)
    BY <2>5, LeaveReads DEF RunStart, Refuse, ReadsOf, Listed, ListOf, Lifecycle!TypeOK
  <2>6. CASE ExecBegin(q) \/ ExecSnapshot(q)
    BY <2>6 DEF ExecBegin, ExecSnapshot, Raise, Outcome, ReadsOf
  <2>7. CASE ExecRecord(q) \/ ExecTask(q) \/ ExecWrite(q)
    BY <2>7 DEF ExecRecord, ExecTask, ExecWrite, ReadsOf
  <2>8. CASE ExecWorkEnds(q) \/ ExecFinalCheck(q)
    BY <2>8 DEF ExecWorkEnds, ExecFinalCheck, Raise, Outcome, ReadsOf
  <2>9. CASE ExecReceipt(q)
    BY <2>9 DEF ExecReceipt, Outcome, ReadsOf
  <2>10. CASE ExecFinish(q) \/ CancelQueued(q) \/ CancelFlag(q)
    BY <2>10, LeaveReads DEF ExecFinish, CancelQueued, CancelFlag
  <2>11. CASE RetryRead(q) \/ RetryCommit(q)
    BY <2>11, LeaveReads DEF RetryRead, RetryCommit, Refuse, Outcome, ReadsOf
  <2>12. CASE ReviewRead(q) \/ ReviewAccept(q) \/ ReviewUndone(q)
    BY <2>12, LeaveReads DEF ReviewRead, ReviewAccept, ReviewUndone, Refuse, Outcome, ReadsOf
  <2>13. CASE ReviewCheck(q) \/ ReviewRestore(q)
    BY <2>13, LeaveReads DEF ReviewCheck, ReviewRestore, Refuse, ReadsOf
  <2>14. CASE q = Worker /\ WorkerLoop
    BY <2>14 DEF WorkerLoop, WorkerLockAll, WorkerSettleRecords, WorkerList, WorkerNext, ReadsOf
  <2>15. CASE q \in Clis /\ Command(q)
    BY <2>15 DEF Command, Begin, CancelRead, ReadsOf
  <2>16. CASE Crash(q)
    BY <2>16 DEF Crash, Forget, ReadsOf
  <2>17. CASE RecoverOne(q)
    <3>1. PICK entry \in stale[q] :
            /\ state' = [state EXCEPT ![entry[1]] =
                            RecoverTarget(entry[1], entry[2])]
            /\ stale' = [stale EXCEPT ![q] = @ \ {entry}]
      BY <2>17 DEF RecoverOne
    <3>2. pc[q] = "recover_each" /\ UNCHANGED <<pc, job, carry>>
      BY <2>17 DEF RecoverOne
    <3>3. \A e \in stale'[q] : e \in stale[q] /\ e[1] # entry[1]
      BY <3>1 DEF Listed, ListOf
    <3>4. \A e \in stale'[q] : e[1] \in Missions /\ state[e[1]] = "running"
      BY <3>3 DEF ReadsOf
    <3>5. \A e \in stale'[q] : state'[e[1]] = "running"
      BY <3>1, <3>3, <3>4 DEF Lifecycle!TypeOK
    <3> QED
      BY <3>2, <3>5 DEF ReadsOf
  <2> QED
    BY <1>2, <2>1, <2>2, <2>3, <2>4, <2>5, <2>6, <2>7, <2>8, <2>9, <2>10, <2>11, <2>12, <2>13, <2>14, <2>15, <2>16, <2>17 DEF ProcStep, Continue
<1>3. ASSUME NEW n \in Missions, Create(n) PROVE ReadsOf(q)'
  BY <1>0, <1>3, CreateMoves, ReadsKept DEF Create, Same
<1>4. CASE UNCHANGED <<pc, job, carry, stale, state>>
  BY <1>0, <1>4 DEF ReadsOf
<1> QED
  BY <1>1, <1>2, <1>3, <1>4, NextSplit DEF UserEdit, vars

-----------------------------------------------------------------------------
(* What run_mission has made sure of on its way to the start: no mission   *)
(* of the workspace is running but those recovery is still going through,  *)
(* and behind the gate no other one awaits its review.                     *)
AloneOf(p) ==
    \A m \in Missions : WsOf[m] = Ws(p) =>
        /\ pc[p] \in {"run_read", "run_gate", "run_start"} =>
            state[m] # "running"
        /\ pc[p] = "recover_each" /\ state[m] = "running" =>
            \E e \in stale[p] : e[1] = m
        /\ pc[p] = "run_start" /\ m # job[p] => state[m] # "waiting-review"

NothingElseOpen ==
    \A p \in Procs : HoldsWs(p) => AloneOf(p)

(* run_mission's checks stay true: recovery empties its list before the    *)
(* mission is read, and the gate has looked at the others.                 *)
LEMMA AloneStep ==
    TypeOK /\ VerbOfLabel /\ LockHeld /\ Listed /\ NothingElseOpen
        /\ [Next]_vars => NothingElseOpen'
<1> SUFFICES ASSUME TypeOK, VerbOfLabel, LockHeld, Listed, NothingElseOpen,
                    [Next]_vars, NEW q \in Procs, HoldsWs(q)'
             PROVE  AloneOf(q)'
  BY DEF NothingElseOpen
<1>0. HoldsWs(q) => AloneOf(q)
  BY DEF NothingElseOpen
<1>1. ASSUME NEW p \in Procs, ProcStep(p), q # p PROVE AloneOf(q)'
  <2>1. Same(q)
    BY <1>1, OthersStay
  <2>2. HoldsWs(q)
    BY <2>1 DEF Same
  <2>3. \A m \in Missions : WsOf[m] = Ws(q) =>
            state'[m] = state[m] \/ state'[m] = "cancelled"
    BY <1>1, <2>2, UnderWsLock
  <2> QED
    BY <1>0, <2>1, <2>2, <2>3 DEF AloneOf, Same
<1>2. ASSUME ProcStep(q) PROVE AloneOf(q)'
  <2> USE <1>0 DEF TypeOK
  <2>0. Leave(q) => FALSE
    BY DEF Leave, Home
  <2>1. CASE RecoverList(q)
    <3>1. UNCHANGED <<verb, job, state>> /\ pc'[q] = "recover_each"
      BY <2>1 DEF RecoverList
    <3>2. RecoverScope(q) = {m \in Missions : WsOf[m] = Ws(q)}
      BY <3>1 DEF RecoverScope
    <3>3. stale'[q] = {<<m, cancelReq[m]>> : m \in
                        {n \in RecoverScope(q) : state[n] = "running"}}
      BY <2>1 DEF RecoverList
    <3>4. ASSUME NEW m \in Missions, WsOf[m] = Ws(q), state[m] = "running"
          PROVE  \E e \in stale'[q] : e[1] = m
      <4>1. <<m, cancelReq[m]>> \in stale'[q]
        BY <3>2, <3>3, <3>4
      <4> QED
        BY <4>1
    <3> QED
      BY <3>1, <3>4 DEF AloneOf
  <2>2. CASE RecoverOne(q)
    <3>1. PICK entry \in stale[q] :
            /\ state' = [state EXCEPT ![entry[1]] =
                            RecoverTarget(entry[1], entry[2])]
            /\ stale' = [stale EXCEPT ![q] = @ \ {entry}]
      BY <2>2 DEF RecoverOne
    <3>2. pc[q] = "recover_each" /\ UNCHANGED <<pc, job, verb>>
      BY <2>2 DEF RecoverOne
    <3>3. entry[1] \in Missions
      OBVIOUS
    <3>4. state'[entry[1]] # "running"
      BY <3>1, <3>3 DEF RecoverTarget, Lifecycle!TypeOK
    <3>5. \A m \in Missions : m # entry[1] => state'[m] = state[m]
      BY <3>1, <3>3 DEF Lifecycle!TypeOK
    <3>6. \A e \in stale[q] : e[1] # entry[1] => e \in stale'[q]
      BY <3>1
    <3>7. ASSUME NEW m \in Missions, WsOf[m] = Ws(q), state'[m] = "running"
          PROVE  \E e \in stale'[q] : e[1] = m
      <4>1. m # entry[1] /\ state[m] = "running"
        BY <3>4, <3>5, <3>7
      <4>2. HoldsWs(q)
        BY <3>2
      <4>3. PICK e \in stale[q] : e[1] = m
        BY <3>2, <3>7, <4>1, <4>2 DEF AloneOf
      <4> QED
        BY <3>6, <4>1, <4>3
    <3> QED
      BY <3>2, <3>7 DEF AloneOf
  <2>3. CASE RecoverDone(q)
    BY <2>3 DEF RecoverDone, Forget, AloneOf
  <2>4. CASE RunRead(q)
    BY <2>0, <2>4 DEF RunRead, Refuse, AloneOf
  <2>5. CASE RunGate(q)
    BY <2>0, <2>5 DEF RunGate, Refuse, OthersAwaitReview, AloneOf
  <2>6. CASE pc'[q] \notin {"recover_each", "run_read", "run_gate", "run_start"}
    BY <2>6 DEF AloneOf
  <2>7. \/ RecoverList(q) \/ RecoverOne(q) \/ RecoverDone(q)
        \/ RunRead(q) \/ RunGate(q)
        \/ pc'[q] \notin {"recover_each", "run_read", "run_gate", "run_start"}
    <3>1. CASE LockGlobal(q) \/ LockWs(q) \/ LockRefused(q) \/ RunStart(q)
      BY <2>0, <3>1 DEF LockGlobal, LockWs, LockRefused, EntryOf, RunStart, Refuse
    <3>2. CASE ExecBegin(q) \/ ExecSnapshot(q) \/ ExecRecord(q) \/ ExecTask(q)
      BY <3>2 DEF ExecBegin, ExecSnapshot, ExecRecord, ExecTask, Raise
    <3>3. CASE ExecWrite(q) \/ ExecWorkEnds(q) \/ ExecFinalCheck(q)
               \/ ExecReceipt(q) \/ ExecFinish(q)
      BY <2>0, <3>3 DEF ExecWrite, ExecWorkEnds, ExecFinalCheck, ExecReceipt,
                        ExecFinish, Raise
    <3>4. CASE CancelQueued(q) \/ CancelFlag(q) \/ RetryRead(q) \/ RetryCommit(q)
      BY <2>0, <3>4 DEF CancelQueued, CancelFlag, RetryRead, RetryCommit, Refuse
    <3>5. CASE ReviewRead(q) \/ ReviewAccept(q) \/ ReviewCheck(q)
               \/ ReviewRestore(q) \/ ReviewUndone(q)
      BY <2>0, <3>5 DEF ReviewRead, ReviewAccept, ReviewCheck, ReviewRestore,
                        ReviewUndone, Refuse
    <3>6. CASE q = Worker /\ WorkerLoop
      BY <3>6 DEF WorkerLoop, WorkerLockAll, WorkerSettleRecords, WorkerList,
                  WorkerNext
    <3>7. CASE (q \in Clis /\ Command(q)) \/ Crash(q)
      BY <3>7 DEF Command, Begin, CancelRead, Crash
    <3> QED
      BY <1>2, <3>1, <3>2, <3>3, <3>4, <3>5, <3>6, <3>7 DEF ProcStep, Continue
  <2> QED
    BY <2>1, <2>2, <2>3, <2>4, <2>5, <2>6, <2>7
<1>3. ASSUME NEW n \in Missions, Create(n) PROVE AloneOf(q)'
  <2>1. UNCHANGED <<pc, verb, job, stale>>
    BY <1>3 DEF Create
  <2>2. \A m \in Missions : state'[m] = state[m] \/ state'[m] = "queued"
    BY <1>3, CreateMoves
  <2> QED
    BY <1>0, <2>1, <2>2 DEF AloneOf
<1>4. CASE UNCHANGED <<pc, verb, job, stale, state>>
  BY <1>0, <1>4 DEF AloneOf
<1> QED
  BY <1>1, <1>2, <1>3, <1>4, NextSplit DEF UserEdit, vars

-----------------------------------------------------------------------------
(* Only the process that executes a mission, and reconcile for missions    *)
(* nobody executes, touch its task rows.                                   *)
LEMMA TasksOfOthers ==
    ASSUME TypeOK, VerbOfLabel, LockHeld,
           NEW p \in Procs, ProcStep(p), NEW q \in Procs, q # p, HoldsWs(q)
    PROVE  openTasks'[job[q]] = openTasks[job[q]]
<1>1. ~(HoldsWs(p) /\ job[p] = job[q]) /\ ~Reconciling(p)
  BY LocksExclude DEF OneProcessPerWorkspace
<1>2. job[p] \in Missions /\ job[q] \in Missions
  BY WsTyped
<1> USE DEF TypeOK
<1>3. CASE ExecBegin(p) \/ ExecSnapshot(p)
  BY <1>1, <1>2, <1>3 DEF ExecBegin, ExecSnapshot, TaskOpens, TaskSettles
<1>4. CASE ExecRecord(p) \/ ExecTask(p) \/ ExecWorkEnds(p)
  BY <1>1, <1>2, <1>4 DEF ExecRecord, ExecTask, ExecWorkEnds, TaskOpens, TaskSettles
<1>5. CASE WorkerLoop /\ p = Worker
  BY <1>1, <1>5 DEF WorkerLoop, WorkerLockAll, WorkerSettleRecords, WorkerList,
                    WorkerNext
<1>6. CASE UNCHANGED openTasks
  BY <1>6
<1>7. \/ ExecBegin(p) \/ ExecSnapshot(p) \/ ExecRecord(p) \/ ExecTask(p)
      \/ ExecWorkEnds(p) \/ (WorkerLoop /\ p = Worker)
      \/ UNCHANGED openTasks
  <2>1. CASE LockGlobal(p) \/ LockWs(p) \/ LockRefused(p) \/ Crash(p)
             \/ RecoverList(p) \/ RecoverOne(p) \/ RecoverDone(p)
    BY <2>1 DEF LockGlobal, LockWs, LockRefused, Crash, RecoverList, RecoverOne,
                RecoverDone
  <2>2. CASE RunRead(p) \/ RunGate(p) \/ RunStart(p)
    BY <2>2 DEF RunRead, RunGate, RunStart, Refuse
  <2>3. CASE ExecWrite(p) \/ ExecFinalCheck(p) \/ ExecReceipt(p) \/ ExecFinish(p)
    BY <2>3 DEF ExecWrite, ExecFinalCheck, ExecReceipt, ExecFinish
  <2>4. CASE CancelQueued(p) \/ CancelFlag(p) \/ RetryRead(p) \/ RetryCommit(p)
    BY <2>4 DEF CancelQueued, CancelFlag, RetryRead, RetryCommit, Refuse
  <2>5. CASE ReviewRead(p) \/ ReviewAccept(p) \/ ReviewCheck(p)
             \/ ReviewRestore(p) \/ ReviewUndone(p)
    BY <2>5 DEF ReviewRead, ReviewAccept, ReviewCheck, ReviewRestore,
                ReviewUndone, Refuse
  <2>6. CASE Command(p)
    BY <2>6 DEF Command, Begin, CancelRead
  <2> QED
    BY <2>1, <2>2, <2>3, <2>4, <2>5, <2>6 DEF ProcStep, Continue
<1> QED
  BY <1>3, <1>4, <1>5, <1>6, <1>7

(* A row that has been opened is there.                                    *)
LEMMA TaskOpensCounts ==
    ASSUME TypeOK, NEW m \in Missions, TaskOpens(m)
    PROVE  openTasks'[m] # 0
BY DEF TypeOK, TaskOpens

(* A row that a step will settle has been opened by one before it.         *)
LEMMA TaskIsOpenStep ==
    TypeOK /\ VerbOfLabel /\ LockHeld /\ TaskIsOpen /\ [Next]_vars => TaskIsOpen'
<1> SUFFICES ASSUME TypeOK, VerbOfLabel, LockHeld, TaskIsOpen, [Next]_vars,
                    NEW q \in Procs, pc'[q] \in {"x_snapshot", "x_record", "x_work"}
             PROVE  openTasks'[job'[q]] # 0
  BY DEF TaskIsOpen
<1>0. pc[q] \in {"x_snapshot", "x_record", "x_work"} => openTasks[job[q]] # 0
  BY DEF TaskIsOpen
<1>1. ASSUME NEW p \in Procs, ProcStep(p), q # p PROVE openTasks'[job'[q]] # 0
  <2>1. Same(q)
    BY <1>1, OthersStay
  <2> QED
    BY <1>0, <1>1, <2>1, TasksOfOthers DEF Same
<1>2. ASSUME ProcStep(q) PROVE openTasks'[job'[q]] # 0
  <2> USE DEF TypeOK
  <2>0. Leave(q) => FALSE
    BY DEF Leave, Home
  <2>1. CASE ExecBegin(q)
    BY <2>1, TaskOpensCounts DEF ExecBegin, Raise
  <2>2. CASE ExecTask(q)
    BY <2>2, TaskOpensCounts DEF ExecTask
  <2>3. CASE ExecSnapshot(q)
    BY <1>0, <2>3 DEF ExecSnapshot, Raise
  <2>4. CASE ExecWrite(q)
    BY <1>0, <2>4 DEF ExecWrite
  <2>5. pc'[q] \notin {"x_snapshot", "x_record", "x_work"}
        \/ ExecBegin(q) \/ ExecTask(q) \/ ExecSnapshot(q) \/ ExecWrite(q)
    <3>1. CASE LockGlobal(q) \/ LockWs(q) \/ LockRefused(q)
      BY <2>0, <3>1 DEF LockGlobal, LockWs, LockRefused, EntryOf
    <3>2. CASE RecoverList(q) \/ RecoverOne(q) \/ RecoverDone(q)
      BY <3>2 DEF RecoverList, RecoverOne, RecoverDone
    <3>3. CASE RunRead(q) \/ RunGate(q) \/ RunStart(q)
      BY <2>0, <3>3 DEF RunRead, RunGate, RunStart, Refuse
    <3>4. CASE ExecRecord(q) \/ ExecWorkEnds(q) \/ ExecFinalCheck(q)
               \/ ExecReceipt(q) \/ ExecFinish(q)
      BY <2>0, <3>4 DEF ExecRecord, ExecWorkEnds, ExecFinalCheck, ExecReceipt,
                        ExecFinish, Raise
    <3>5. CASE CancelQueued(q) \/ CancelFlag(q) \/ RetryRead(q) \/ RetryCommit(q)
      BY <2>0, <3>5 DEF CancelQueued, CancelFlag, RetryRead, RetryCommit, Refuse
    <3>6. CASE ReviewRead(q) \/ ReviewAccept(q) \/ ReviewCheck(q)
               \/ ReviewRestore(q) \/ ReviewUndone(q)
      BY <2>0, <3>6 DEF ReviewRead, ReviewAccept, ReviewCheck, ReviewRestore,
                        ReviewUndone, Refuse
    <3>7. CASE q = Worker /\ WorkerLoop
      BY <3>7 DEF WorkerLoop, WorkerLockAll, WorkerSettleRecords, WorkerList,
                  WorkerNext
    <3>8. CASE (q \in Clis /\ Command(q)) \/ Crash(q)
      BY <3>8 DEF Command, Begin, CancelRead, Crash
    <3> QED
      BY <1>2, <3>1, <3>2, <3>3, <3>4, <3>5, <3>6, <3>7, <3>8
         DEF ProcStep, Continue
  <2> QED
    BY <2>1, <2>2, <2>3, <2>4, <2>5
<1>3. CASE UNCHANGED <<pc, job, openTasks>>
  BY <1>0, <1>3
<1> QED
  BY <1>1, <1>2, <1>3, NextSplit DEF Create, UserEdit, vars

-----------------------------------------------------------------------------
(* Every step is a step of the mission life cycle, or none of it.          *)
LEMMA LifecycleProcStep ==
    ASSUME TypeOK, CarryOfLabel, Listed, ReadsStayTrue, NothingElseOpen,
           NEW p \in Procs, ProcStep(p)
    PROVE  Lifecycle!Next \/ UNCHANGED missionVars
<1>0. /\ job[p] \in Missions /\ CarryOf(p) /\ ReadsOf(p)
      /\ HoldsWs(p) => AloneOf(p)
  BY ReadsSplit DEF TypeOK, CarryOfLabel, NothingElseOpen
<1>1. CASE RunStart(p)
  <2>1. CASE state[job[p]] = "queued"
    <3>1. \A n \in Missions \ {job[p]} :
            Lifecycle!SameWs(job[p], n) => ~Lifecycle!Open(n)
      BY <1>0, <1>1 DEF RunStart, AloneOf, Lifecycle!SameWs, Lifecycle!Open
    <3>2. Lifecycle!Start(job[p])
      BY <1>1, <2>1, <3>1 DEF RunStart, Lifecycle!Start, Lifecycle!Move,
                              Lifecycle!Transitions
    <3> QED
      BY <1>0, <3>2 DEF Lifecycle!Next
  <2>2. CASE state[job[p]] # "queued"
    BY <1>1, <2>2 DEF RunStart, Refuse
  <2> QED
    BY <2>1, <2>2
<1>2. CASE RecoverOne(p)
  <2>1. PICK entry \in stale[p] :
          /\ state[entry[1]] = "running"
          /\ SetState(entry[1], RecoverTarget(entry[1], entry[2]))
    BY <1>2 DEF RecoverOne
  <2>2. entry[1] \in Missions /\ UNCHANGED <<attempt, requeues>>
    BY <1>2, <2>1 DEF TypeOK, RecoverOne
  <2>3. \E to \in {"failed", "cancelled"} : Lifecycle!Settle(entry[1], to)
    BY <2>1, <2>2 DEF RecoverTarget, Lifecycle!Settle, Lifecycle!Move,
                      Lifecycle!Transitions
  <2> QED
    BY <2>2, <2>3 DEF Lifecycle!Next
<1>3. CASE ExecFinish(p)
  <2>1. carry[p] \in {"waiting-review", "failed", "cancelled"}
    BY <1>0, <1>3 DEF ExecFinish, CarryOf
  <2>2. Lifecycle!Settle(job[p], carry[p])
    BY <1>3, <2>1 DEF ExecFinish, Lifecycle!Settle, Lifecycle!Move,
                      Lifecycle!Transitions
  <2> QED
    BY <1>0, <2>1, <2>2 DEF Lifecycle!Next
<1>4. CASE CancelQueued(p)
  <2>1. CASE state[job[p]] = "queued"
    <3>1. Lifecycle!CancelQueued(job[p])
      BY <1>4, <2>1 DEF CancelQueued, Lifecycle!CancelQueued, Lifecycle!Move,
                        Lifecycle!Transitions
    <3> QED
      BY <1>0, <3>1 DEF Lifecycle!Next
  <2>2. CASE state[job[p]] # "queued"
    BY <1>4, <2>2 DEF CancelQueued
  <2> QED
    BY <2>1, <2>2
<1>5. CASE RetryCommit(p)
  <2>1. CASE BudgetLeft(job[p])
    <3>1. carry[p] \in {"failed", "cancelled"} /\ state[job[p]] = carry[p]
      BY <1>0, <1>5 DEF RetryCommit, CarryOf
    <3>2. Lifecycle!Requeue(job[p])
      BY <1>5, <2>1, <3>1 DEF RetryCommit, BudgetLeft, Lifecycle!Requeue,
                              Lifecycle!Move, Lifecycle!Transitions
    <3> QED
      BY <1>0, <3>2 DEF Lifecycle!Next
  <2>2. CASE ~BudgetLeft(job[p])
    BY <1>5, <2>2 DEF RetryCommit
  <2> QED
    BY <2>1, <2>2
<1>6. CASE ReviewAccept(p)
  <2>1. Lifecycle!Accept(job[p])
    BY <1>0, <1>6 DEF ReviewAccept, CarryOf, Lifecycle!Accept, Lifecycle!Move,
                      Lifecycle!Transitions
  <2> QED
    BY <1>0, <2>1 DEF Lifecycle!Next
<1>7. CASE ReviewUndone(p)
  <2>1. carry[p] \in {"waiting-review", "failed", "cancelled", "completed"}
        /\ state[job[p]] = carry[p]
    BY <1>0, <1>7 DEF ReviewUndone, CarryOf
  <2>2. Lifecycle!Undo(job[p])
    BY <1>7, <2>1 DEF ReviewUndone, Lifecycle!Undo, Lifecycle!Move,
                      Lifecycle!Transitions
  <2> QED
    BY <1>0, <2>2 DEF Lifecycle!Next
<1>8. CASE UNCHANGED missionVars
  BY <1>8
<1>9. \/ RunStart(p) \/ RecoverOne(p) \/ ExecFinish(p) \/ CancelQueued(p)
      \/ RetryCommit(p) \/ ReviewAccept(p) \/ ReviewUndone(p)
      \/ UNCHANGED missionVars
  <2>1. CASE LockGlobal(p) \/ LockWs(p) \/ LockRefused(p) \/ Crash(p)
             \/ RecoverList(p) \/ RecoverDone(p)
    BY <2>1 DEF LockGlobal, LockWs, LockRefused, Crash, RecoverList, RecoverDone
  <2>2. CASE RunRead(p) \/ RunGate(p)
    BY <2>2 DEF RunRead, RunGate, Refuse
  <2>3. CASE ExecBegin(p) \/ ExecSnapshot(p) \/ ExecRecord(p) \/ ExecTask(p)
    BY <2>3 DEF ExecBegin, ExecSnapshot, ExecRecord, ExecTask, Raise
  <2>4. CASE ExecWrite(p) \/ ExecWorkEnds(p) \/ ExecFinalCheck(p) \/ ExecReceipt(p)
    BY <2>4 DEF ExecWrite, ExecWorkEnds, ExecFinalCheck, ExecReceipt, Raise
  <2>5. CASE CancelFlag(p) \/ RetryRead(p)
    BY <2>5 DEF CancelFlag, RetryRead, Refuse
  <2>6. CASE ReviewRead(p) \/ ReviewCheck(p) \/ ReviewRestore(p)
    BY <2>6 DEF ReviewRead, ReviewCheck, ReviewRestore, Refuse
  <2>7. CASE WorkerLoop \/ Command(p)
    BY <2>7 DEF WorkerLoop, WorkerLockAll, WorkerSettleRecords, WorkerList,
                WorkerNext, Command, Begin, CancelRead
  <2> QED
    BY <2>1, <2>2, <2>3, <2>4, <2>5, <2>6, <2>7 DEF ProcStep, Continue
<1> QED
  BY <1>1, <1>2, <1>3, <1>4, <1>5, <1>6, <1>7, <1>8, <1>9

(* The inductive invariant.                                                *)
IInv ==
    /\ TypeOK /\ TaskIsOpen /\ VerbOfLabel /\ LockHeld /\ CarryOfLabel
    /\ Listed /\ ReadsStayTrue /\ NothingElseOpen

(* So the engine refines the life cycle, step by step.                     *)
LEMMA LifecycleStep == IInv /\ [Next]_vars => [Lifecycle!Next]_missionVars
<1> SUFFICES ASSUME IInv, [Next]_vars
             PROVE  Lifecycle!Next \/ UNCHANGED missionVars
  OBVIOUS
<1>1. ASSUME NEW p \in Procs, ProcStep(p)
      PROVE  Lifecycle!Next \/ UNCHANGED missionVars
  BY <1>1, LifecycleProcStep DEF IInv
<1>2. ASSUME NEW m \in Missions, Create(m) PROVE Lifecycle!Next
  BY <1>2 DEF Create, Lifecycle!Create, Lifecycle!Next
<1>3. CASE UNCHANGED missionVars
  BY <1>3
<1> QED
  BY <1>1, <1>2, <1>3, NextSplit DEF UserEdit, vars

(* A new system: nothing is stored and nobody is doing anything.           *)
LEMMA IInvInit == Init => IInv
<1> SUFFICES ASSUME Init PROVE IInv
  OBVIOUS
<1>1. TypeOK
  BY AnyMissionIsOne DEF Init, TypeOK, Lifecycle!Init, Lifecycle!TypeOK,
                         Lifecycle!MissionState
<1>2. /\ \A p \in Procs : /\ pc[p] \in {"w_start", "idle"}
                          /\ verb[p] = "none" /\ stale[p] = {}
      /\ exHolders = {} /\ shHolders = {}
      /\ wsHolders = [w \in Workspaces |-> {}]
  BY DEF Init
<1>3. TaskIsOpen /\ VerbOfLabel /\ CarryOfLabel /\ Listed
  BY <1>2 DEF TaskIsOpen, VerbOfLabel, VerbOf, CarryOfLabel, CarryOf, Listed, ListOf
<1>4. LockHeld
  BY <1>2 DEF LockHeld, Sharing
<1>5. ReadsStayTrue /\ NothingElseOpen
  BY <1>2 DEF ReadsStayTrue, NothingElseOpen
<1> QED
  BY <1>1, <1>3, <1>4, <1>5 DEF IInv

(* Every part of it is kept by every step.                                 *)
LEMMA IInvStep == IInv /\ [Next]_vars => IInv'
BY TypeOKStep, TaskIsOpenStep, VerbOfLabelStep, LockHeldStep, CarryOfLabelStep,
   ListedStep, ReadsStep, AloneStep DEF IInv

(* It holds of every state the engine reaches.                             *)
THEOREM EngineInvariant == Spec => []IInv
BY IInvInit, IInvStep, PTL DEF Spec

(* Every row, file, lock and local of the engine keeps its type.           *)
THEOREM EngineTypeCorrect == Spec => []TypeOK
<1>1. IInv => TypeOK
  BY DEF IInv
<1> QED
  BY <1>1, EngineInvariant, PTL

(* The two levels of flock exclude what they are meant to exclude.         *)
THEOREM OneProcessPerWorkspaceHolds == Spec => []OneProcessPerWorkspace
<1>1. IInv => OneProcessPerWorkspace
  BY LocksExclude DEF IInv
<1> QED
  BY <1>1, EngineInvariant, PTL

(* What a verb read under its lock is true until its last transaction.     *)
THEOREM ReadsStayTrueHolds == Spec => []ReadsStayTrue
<1>1. IInv => ReadsStayTrue
  BY DEF IInv
<1> QED
  BY <1>1, EngineInvariant, PTL

(* The engine implements the mission life cycle.                           *)
THEOREM EngineImplementsLifecycle == Spec => ImplementsLifecycle
<1>1. Init => Lifecycle!Init
  BY DEF Init
<1>2. IInv /\ [Next]_vars => [Lifecycle!Next]_(Lifecycle!lifecycleVars)
  BY LifecycleStep DEF Lifecycle!lifecycleVars
<1> QED
  BY <1>1, <1>2, EngineInvariant, PTL
     DEF Spec, ImplementsLifecycle, Lifecycle!Spec

-----------------------------------------------------------------------------
(* A start finds no open mission in the workspace, and nothing else opens. *)
LEMMA OneOpenStep ==
    TypeOK /\ OneOpenMission /\ [Lifecycle!Next]_missionVars => OneOpenMission'
<1> SUFFICES ASSUME TypeOK, OneOpenMission, [Lifecycle!Next]_missionVars
             PROVE  OneOpenMission'
  OBVIOUS
<1> USE DEF TypeOK, Lifecycle!TypeOK
<1>1. ASSUME NEW m \in Missions, Lifecycle!Start(m) PROVE OneOpenMission'
  <2>1. \A n \in Missions : Lifecycle!Open(n)' => n = m \/ Lifecycle!Open(n)
    BY <1>1 DEF Lifecycle!Start, Lifecycle!Move, Lifecycle!Open
  <2>2. \A n \in Missions \ {m} : WsOf[m] = WsOf[n] => ~Lifecycle!Open(n)'
    BY <1>1, <2>1 DEF Lifecycle!Start, Lifecycle!SameWs
  <2> QED
    BY <2>1, <2>2 DEF OneOpenMission, Lifecycle!OneOpenMission, Lifecycle!SameWs
<1>2. CASE \A n \in Missions : Lifecycle!Open(n)' => Lifecycle!Open(n)
  BY <1>2 DEF OneOpenMission, Lifecycle!OneOpenMission, Lifecycle!SameWs
<1>3. (\E m \in Missions : Lifecycle!Start(m))
      \/ \A n \in Missions : Lifecycle!Open(n)' => Lifecycle!Open(n)
  BY DEF Lifecycle!Next, Lifecycle!Create, Lifecycle!Settle, Lifecycle!Accept,
         Lifecycle!CancelQueued, Lifecycle!Undo, Lifecycle!Requeue,
         Lifecycle!Move, Lifecycle!Transitions, Lifecycle!Open
<1> QED
  BY <1>1, <1>2, <1>3

(* Of the missions of a workspace at most one is running or unreviewed.    *)
THEOREM EngineOneOpenMission == Spec => []OneOpenMission
<1>1. Init => OneOpenMission
  BY DEF Init, Lifecycle!Init, OneOpenMission, Lifecycle!OneOpenMission,
         Lifecycle!Open
<1>2. IInv /\ OneOpenMission /\ [Next]_vars => OneOpenMission'
  BY LifecycleStep, OneOpenStep DEF IInv
<1> QED
  BY <1>1, <1>2, EngineInvariant, PTL DEF Spec

-----------------------------------------------------------------------------
(* The retry budget and the final states, through the refinement.          *)

(* Started at most once more often than requeued, and not once more while  *)
(* it waits; requeued less often than the budget.                          *)
WithinBudget ==
    \A m \in Missions :
        /\ requeues[m] < MaxAttempts
        /\ attempt[m] <= requeues[m] + 1
        /\ state[m] \in {"none", "queued"} => attempt[m] <= requeues[m]

(* Starting needs a queued mission, and requeueing one under the budget.   *)
LEMMA WithinBudgetStep ==
    TypeOK /\ WithinBudget /\ [Lifecycle!Next]_missionVars => WithinBudget'
<1> SUFFICES ASSUME TypeOK, WithinBudget, [Lifecycle!Next]_missionVars
             PROVE  WithinBudget'
  OBVIOUS
<1>0. /\ state \in [Missions -> Lifecycle!MissionState \cup {"none"}]
      /\ attempt \in [Missions -> Nat] /\ requeues \in [Missions -> Nat]
      /\ MaxAttempts \in Nat
  BY DEF TypeOK, Lifecycle!TypeOK
<1> USE <1>0 DEF WithinBudget, Lifecycle!Move, Lifecycle!Transitions
<1>1. CASE UNCHANGED missionVars
  BY <1>1
<1>2. ASSUME NEW m \in Missions, Lifecycle!Create(m) PROVE WithinBudget'
  BY <1>2 DEF Lifecycle!Create
<1>3. ASSUME NEW m \in Missions, Lifecycle!Start(m) PROVE WithinBudget'
  BY <1>3 DEF Lifecycle!Start
<1>4. ASSUME NEW m \in Missions,
             NEW to \in {"waiting-review", "failed", "cancelled"},
             Lifecycle!Settle(m, to)
      PROVE WithinBudget'
  BY <1>4 DEF Lifecycle!Settle
<1>5. ASSUME NEW m \in Missions,
             Lifecycle!CancelQueued(m) \/ Lifecycle!Accept(m) \/ Lifecycle!Undo(m)
      PROVE WithinBudget'
  BY <1>5 DEF Lifecycle!CancelQueued, Lifecycle!Accept, Lifecycle!Undo
<1>6. ASSUME NEW m \in Missions, Lifecycle!Requeue(m) PROVE WithinBudget'
  <2>1. requeues[m] + 1 < MaxAttempts
    BY <1>6 DEF Lifecycle!Requeue, Lifecycle!RequeueAllowed, Lifecycle!AttemptsTaken,
                Lifecycle!Max2
  <2> QED
    BY <1>6, <2>1 DEF Lifecycle!Requeue
<1> QED
  BY <1>1, <1>2, <1>3, <1>4, <1>5, <1>6 DEF Lifecycle!Next

(* No sequence of runs, refusals, crashes, recoveries and retries executes *)
(* a mission of the engine more often than MAX_ATTEMPTS.                   *)
THEOREM EngineAttemptBudget == Spec => []Lifecycle!AttemptBudget
<1>1. Init => WithinBudget
  BY DEF Init, Lifecycle!Init, WithinBudget
<1>2. IInv /\ WithinBudget /\ [Next]_vars => WithinBudget'
  BY LifecycleStep, WithinBudgetStep DEF IInv
<1>3. IInv /\ WithinBudget => Lifecycle!AttemptBudget
  <2> SUFFICES ASSUME IInv, WithinBudget, NEW m \in Missions
               PROVE  attempt[m] <= MaxAttempts
    BY DEF Lifecycle!AttemptBudget
  <2>1. attempt[m] \in Nat /\ requeues[m] \in Nat /\ MaxAttempts \in Nat
    BY DEF IInv, TypeOK, Lifecycle!TypeOK
  <2> QED
    BY <2>1 DEF WithinBudget
<1> QED
  BY <1>1, <1>2, <1>3, EngineInvariant, PTL DEF Spec

(* Whoever recovers, retries or undoes, and whoever crashes: an undone     *)
(* mission stays undone, and an accepted one can only be undone.           *)
THEOREM EngineFinalStays == Spec => [][Lifecycle!FinalStep]_missionVars
<1>1. ASSUME TypeOK, NEW m \in Missions, NEW to, Lifecycle!Move(m, to)
      PROVE  Lifecycle!FinalStep
  BY <1>1 DEF TypeOK, Lifecycle!TypeOK, Lifecycle!Move, Lifecycle!Transitions,
              Lifecycle!FinalStep
<1>2. ASSUME TypeOK, NEW m \in Missions, Lifecycle!Create(m) PROVE Lifecycle!FinalStep
  BY <1>2 DEF TypeOK, Lifecycle!TypeOK, Lifecycle!Create, Lifecycle!FinalStep
<1>3. TypeOK /\ [Lifecycle!Next]_missionVars => [Lifecycle!FinalStep]_missionVars
  <2> SUFFICES ASSUME TypeOK, Lifecycle!Next PROVE Lifecycle!FinalStep
    OBVIOUS
  <2> QED
    BY <1>1, <1>2 DEF Lifecycle!Next, Lifecycle!Start, Lifecycle!Settle,
       Lifecycle!CancelQueued, Lifecycle!Accept, Lifecycle!Undo, Lifecycle!Requeue
<1>4. IInv /\ [Next]_vars => [Lifecycle!FinalStep]_missionVars
  BY <1>3, LifecycleStep DEF IInv
<1> QED
  BY <1>4, EngineInvariant, PTL DEF Spec

-----------------------------------------------------------------------------
(* No step but the executor's last one ends a mission that is executed.    *)
LEMMA OnlyExecutorEnds ==
    ASSUME IInv, Next, NEW m \in Missions, NEW q \in Procs,
           state[m] = "running", state'[m] # "running",
           Executing(q), job[q] = m
    PROVE  pc[q] = "x_finish" /\ pc'[q] # "x_finish"
<1>1. ASSUME NEW p \in Procs, ProcStep(p), p # q PROVE FALSE
  BY <1>1, UnderWsLock DEF IInv
<1>2. ASSUME ProcStep(q) PROVE pc[q] = "x_finish" /\ pc'[q] # "x_finish"
  BY <1>2, StateMoves DEF IInv, MovedBy, Home
<1>3. ASSUME NEW n \in Missions, Create(n) PROVE FALSE
  BY <1>3, CreateMoves DEF IInv
<1>4. CASE UNCHANGED state
  BY <1>4
<1> QED
  BY <1>1, <1>2, <1>3, <1>4, NextSplit DEF UserEdit

(* Recovery never ends a mission that somebody is executing.               *)
THEOREM LiveMissionNotRecoveredHolds == Spec => LiveMissionNotRecovered
<1> DEFINE LiveStep ==
        \A m \in Missions, p \in Procs :
            /\ state[m] = "running" /\ state'[m] # "running"
            /\ Executing(p) /\ job[p] = m
            => pc[p] = "x_finish" /\ pc'[p] # "x_finish"
<1>1. IInv /\ [Next]_vars => [LiveStep]_vars
  <2> SUFFICES ASSUME IInv, Next PROVE LiveStep
    OBVIOUS
  <2> QED
    BY OnlyExecutorEnds
<1> QED
  BY <1>1, EngineInvariant, PTL DEF Spec, LiveMissionNotRecovered

-----------------------------------------------------------------------------
(* Undo.  Which work is in the first set of files and not in the second.   *)
AddedWork(files, base) == MissionWork(files) \ MissionWork(base)

(* A step that is not q's.                                                 *)
OtherStep(q) ==
    \/ \E p \in Procs \ {q} : ProcStep(p)
    \/ \E m \in Missions : Create(m)
    \/ \E w \in Workspaces : UserEdit(w)
    \/ UNCHANGED vars

(* Steps that write neither the files nor what is recorded about them.     *)
FilesStay == UNCHANGED <<content, checkpoint, afterIndex>>

(* Four actions write files, checkpoints or indexes.                       *)
LEMMA FilesWritten ==
    ASSUME NEW p \in Procs, ProcStep(p)
    PROVE  \/ ExecWrite(p) \/ ExecRecord(p) \/ ExecReceipt(p)
           \/ ReviewRestore(p)
           \/ FilesStay
<1> USE DEF FilesStay
<1>1. CASE LockGlobal(p) \/ LockWs(p) \/ LockRefused(p) \/ Crash(p)
           \/ RecoverList(p) \/ RecoverOne(p) \/ RecoverDone(p)
  BY <1>1 DEF LockGlobal, LockWs, LockRefused, Crash, RecoverList, RecoverOne,
              RecoverDone
<1>2. CASE RunRead(p) \/ RunGate(p) \/ RunStart(p)
  BY <1>2 DEF RunRead, RunGate, RunStart, Refuse
<1>3. CASE ExecBegin(p) \/ ExecSnapshot(p) \/ ExecTask(p)
  BY <1>3 DEF ExecBegin, ExecSnapshot, ExecTask, Raise
<1>4. CASE ExecWorkEnds(p) \/ ExecFinalCheck(p) \/ ExecFinish(p)
  BY <1>4 DEF ExecWorkEnds, ExecFinalCheck, ExecFinish, Raise
<1>5. CASE CancelQueued(p) \/ CancelFlag(p) \/ RetryRead(p) \/ RetryCommit(p)
  BY <1>5 DEF CancelQueued, CancelFlag, RetryRead, RetryCommit, Refuse
<1>6. CASE ReviewRead(p) \/ ReviewAccept(p) \/ ReviewCheck(p) \/ ReviewUndone(p)
  BY <1>6 DEF ReviewRead, ReviewAccept, ReviewCheck, ReviewUndone, Refuse
<1>7. CASE WorkerLoop \/ Command(p)
  BY <1>7 DEF WorkerLoop, WorkerLockAll, WorkerSettleRecords, WorkerList,
              WorkerNext, Command, Begin, CancelRead
<1> QED
  BY <1>1, <1>2, <1>3, <1>4, <1>5, <1>6, <1>7 DEF ProcStep, Continue

(* Under a workspace's lock nobody else writes a mission's work there, nor *)
(* what is recorded about the locked mission; a person's edits are no work.*)
LEMMA FilesUnderLock ==
    ASSUME TypeOK, VerbOfLabel, LockHeld,
           NEW q \in Procs, HoldsWs(q), OtherStep(q)
    PROVE  /\ Same(q)
           /\ MissionWork(content'[Ws(q)]) = MissionWork(content[Ws(q)])
           /\ checkpoint'[job[q]] = checkpoint[job[q]]
           /\ afterIndex'[job[q]] = afterIndex[job[q]]
<1>0. job[q] \in Missions /\ Ws(q) \in Workspaces
  BY WsTyped
<1> USE DEF TypeOK
<1>1. ASSUME NEW p \in Procs \ {q}, ProcStep(p)
      PROVE  /\ content'[Ws(q)] = content[Ws(q)]
             /\ checkpoint'[job[q]] = checkpoint[job[q]]
             /\ afterIndex'[job[q]] = afterIndex[job[q]]
  <2>1. ~(HoldsWs(p) /\ Ws(p) = Ws(q))
    BY LocksExclude DEF OneProcessPerWorkspace
  <2>2. CASE ExecWrite(p)
    BY <1>0, <2>1, <2>2 DEF ExecWrite
  <2>3. CASE ExecRecord(p)
    BY <1>0, <2>1, <2>3 DEF ExecRecord
  <2>4. CASE ExecReceipt(p)
    BY <1>0, <2>1, <2>4 DEF ExecReceipt
  <2>5. CASE ReviewRestore(p)
    BY <1>0, <2>1, <2>5 DEF ReviewRestore, Refuse
  <2>6. CASE FilesStay
    BY <2>6 DEF FilesStay
  <2> QED
    BY <1>1, <2>2, <2>3, <2>4, <2>5, <2>6, FilesWritten
<1>2. ASSUME NEW w \in Workspaces, UserEdit(w)
      PROVE  MissionWork(content'[Ws(q)]) = MissionWork(content[Ws(q)])
  <2>1. PICK kind \in {"live", "edit"} :
          content' = [content EXCEPT ![w] = @ \cup {<<kind, edits + 1>>}]
    BY <1>2 DEF UserEdit
  <2> QED
    BY <1>0, <2>1 DEF MissionWork
<1>3. Same(q)
  BY OthersStay DEF OtherStep, Create, UserEdit, Same, vars
<1> QED
  BY <1>1, <1>2, <1>3 DEF OtherStep, Create, UserEdit, vars

(* What a restore left is what the checkpoint records.                     *)
RestoredOf(p) ==
    pc[p] = "v_undone" =>
        \E files \in checkpoint[job[p]] :
            MissionWork(content[Ws(p)]) = MissionWork(files)

(* A snapshot not yet recorded has all the work there is.                  *)
SnapOf(p) ==
    pc[p] = "x_record" =>
        \A files \in snap[p] : AddedWork(content[Ws(p)], files) = {}

(* A mission that was never requeued has no checkpoint before it takes its *)
(* own, and adds no work but its own to that.                              *)
FreshOf(p) ==
    requeues[job[p]] = 0 /\ pc[p] \in {"x_begin", "x_snapshot", "x_record"} =>
        checkpoint[job[p]] = {} /\ afterIndex[job[p]] = {}

SparedOf(p) ==
    requeues[job[p]] = 0
    /\ pc[p] \in {"x_task", "x_work", "x_final", "x_receipt", "x_finish",
                  "v_restore"} =>
        \A files \in checkpoint[job[p]] :
            AddedWork(content[Ws(p)], files) \subseteq {<<"work", job[p]>>}

UndoOf(p) == RestoredOf(p) /\ SnapOf(p) /\ FreshOf(p) /\ SparedOf(p)

FirstRunOf(m) ==
    requeues[m] = 0 =>
        /\ state[m] \in {"none", "queued"} =>
            checkpoint[m] = {} /\ afterIndex[m] = {}
        /\ \A files \in checkpoint[m], index \in afterIndex[m] :
            AddedWork(index, files) \subseteq {<<"work", m>>}

UndoInv == (\A p \in Procs : UndoOf(p)) /\ (\A m \in Missions : FirstRunOf(m))

(* The count of requeues only grows.                                       *)
LEMMA RequeuesGrow ==
    ASSUME IInv, [Next]_vars, NEW m \in Missions, requeues'[m] = 0
    PROVE  /\ requeues[m] = 0
           /\ state'[m] \in {"none", "queued"} => state[m] \in {"none", "queued"}
<1>1. [Lifecycle!Next]_missionVars
  BY LifecycleStep
<1> USE DEF IInv, TypeOK, Lifecycle!TypeOK
<1>2. CASE UNCHANGED missionVars
  BY <1>2
<1>3. CASE \E n \in Missions : Lifecycle!Requeue(n)
  <2>1. PICK n \in Missions : Lifecycle!Requeue(n)
    BY <1>3
  <2>2. requeues'[n] = requeues[n] + 1 /\ requeues[n] \in Nat
    BY <2>1 DEF Lifecycle!Requeue
  <2>3. m # n
    BY <2>2
  <2> QED
    BY <2>1, <2>3 DEF Lifecycle!Requeue, Lifecycle!Move
<1>4. ASSUME NEW n \in Missions, Lifecycle!Create(n) \/ Lifecycle!Start(n)
      PROVE  requeues'[m] = requeues[m]
             /\ (state'[m] \in {"none", "queued"} => state[m] \in {"none", "queued"})
  BY <1>4 DEF Lifecycle!Create, Lifecycle!Start, Lifecycle!Move
<1>5. ASSUME NEW n \in Missions, NEW to,
             to \in {"waiting-review", "failed", "cancelled", "completed", "undone"},
             Lifecycle!Move(n, to), UNCHANGED requeues
      PROVE  requeues'[m] = requeues[m]
             /\ (state'[m] \in {"none", "queued"} => state[m] \in {"none", "queued"})
  BY <1>5 DEF Lifecycle!Move
<1>6. Lifecycle!Next =>
        \/ \E n \in Missions : \/ Lifecycle!Requeue(n)
                               \/ Lifecycle!Create(n) \/ Lifecycle!Start(n)
        \/ \E n \in Missions,
              to \in {"waiting-review", "failed", "cancelled", "completed", "undone"} :
                Lifecycle!Move(n, to) /\ UNCHANGED requeues
  BY DEF Lifecycle!Next, Lifecycle!Settle, Lifecycle!Accept,
         Lifecycle!CancelQueued, Lifecycle!Undo
<1> QED
  BY <1>1, <1>2, <1>3, <1>4, <1>5, <1>6

(* Other steps do not disturb what a process knows about its files.        *)
LEMMA UndoOthers ==
    ASSUME IInv, [Next]_vars, NEW q \in Procs, OtherStep(q), UndoOf(q)
    PROVE  UndoOf(q)'
<1>0. Same(q)
  BY OthersStay DEF IInv, OtherStep, Create, UserEdit, Same, vars
<1>1. CASE HoldsWs(q)
  <2>1. /\ MissionWork(content'[Ws(q)]) = MissionWork(content[Ws(q)])
        /\ checkpoint'[job[q]] = checkpoint[job[q]]
        /\ afterIndex'[job[q]] = afterIndex[job[q]]
    BY <1>1, FilesUnderLock DEF IInv
  <2>2. /\ pc'[q] = pc[q] /\ job'[q] = job[q] /\ snap'[q] = snap[q]
        /\ Ws(q)' = Ws(q)
    BY <1>0 DEF Same
  <2>3. requeues'[job[q]] = 0 => requeues[job[q]] = 0
    BY RequeuesGrow, WsTyped DEF IInv
  <2> HIDE DEF Ws
  <2>4. \A files : AddedWork(content'[Ws(q)], files) = AddedWork(content[Ws(q)], files)
    BY <2>1 DEF AddedWork
  <2> QED
    BY <2>1, <2>2, <2>3, <2>4 DEF UndoOf, RestoredOf, SnapOf, FreshOf, SparedOf
<1>2. CASE ~HoldsWs(q)
  BY <1>0, <1>2 DEF Same, UndoOf, RestoredOf, SnapOf, FreshOf, SparedOf
<1> QED
  BY <1>1, <1>2

(* Which steps lead to the labels these statements are about.              *)
LEMMA IntoUndoLabels ==
    ASSUME TypeOK, NEW q \in Procs, ProcStep(q),
           pc'[q] \in ExecLabels \cup {"v_restore", "v_undone"}
    PROVE  \/ RunStart(q) \/ ExecBegin(q) \/ ExecSnapshot(q) \/ ExecRecord(q)
           \/ ExecTask(q) \/ ExecWrite(q) \/ ExecWorkEnds(q)
           \/ ExecFinalCheck(q) \/ ExecReceipt(q)
           \/ ReviewCheck(q) \/ ReviewRestore(q)
<1> USE DEF TypeOK
<1>0. Leave(q) => FALSE
  BY DEF Leave, Home
<1>1. CASE LockGlobal(q) \/ LockWs(q) \/ LockRefused(q)
  BY <1>0, <1>1 DEF LockGlobal, LockWs, LockRefused, EntryOf
<1>2. CASE RecoverList(q) \/ RecoverOne(q) \/ RecoverDone(q)
  BY <1>2 DEF RecoverList, RecoverOne, RecoverDone
<1>3. CASE RunRead(q) \/ RunGate(q) \/ ExecFinish(q)
  BY <1>0, <1>3 DEF RunRead, RunGate, Refuse, ExecFinish
<1>4. CASE CancelQueued(q) \/ CancelFlag(q) \/ RetryRead(q) \/ RetryCommit(q)
  BY <1>0, <1>4 DEF CancelQueued, CancelFlag, RetryRead, RetryCommit, Refuse
<1>5. CASE ReviewRead(q) \/ ReviewAccept(q) \/ ReviewUndone(q)
  BY <1>0, <1>5 DEF ReviewRead, ReviewAccept, ReviewUndone, Refuse
<1>6. CASE q = Worker /\ WorkerLoop
  BY <1>6 DEF WorkerLoop, WorkerLockAll, WorkerSettleRecords, WorkerList,
              WorkerNext
<1>7. CASE (q \in Clis /\ Command(q)) \/ Crash(q)
  BY <1>7 DEF Command, Begin, CancelRead, Crash
<1> QED
  BY <1>1, <1>2, <1>3, <1>4, <1>5, <1>6, <1>7 DEF ProcStep, Continue

(* A process's own steps: the start of a first run finds neither checkpoint*)
(* nor index; snapshot and record come before the work; the check of an    *)
(* undo finds what the run's receipt described; the restore puts back what *)
(* the checkpoint holds.                                                   *)
LEMMA UndoOwn ==
    ASSUME IInv, UndoInv, [Next]_vars, NEW q \in Procs, ProcStep(q)
    PROVE  UndoOf(q)'
<1>0. /\ TypeOK /\ UndoOf(q) /\ job[q] \in Missions /\ FirstRunOf(job[q])
      /\ Ws(q) \in Workspaces /\ requeues[job[q]] \in Nat
  BY WsTyped DEF IInv, UndoInv, TypeOK, Lifecycle!TypeOK
<1>1. requeues'[job[q]] = 0 => requeues[job[q]] = 0
  BY <1>0, RequeuesGrow
<1>2. Leave(q) => pc'[q] \notin ExecLabels \cup {"v_restore", "v_undone"}
  BY <1>0 DEF Leave, Home, TypeOK
<1>3. CASE pc'[q] \notin ExecLabels \cup {"v_restore", "v_undone"}
  BY <1>3 DEF UndoOf, RestoredOf, SnapOf, FreshOf, SparedOf
<1> USE DEF UndoOf, RestoredOf, SnapOf, FreshOf, SparedOf
<1>4. CASE RunStart(q) /\ pc'[q] \in ExecLabels \cup {"v_restore", "v_undone"}
  <2>1. state[job[q]] = "queued"
    BY <1>2, <1>4 DEF RunStart, Refuse
  <2>2. pc'[q] = "x_begin" /\ UNCHANGED <<job, checkpoint, afterIndex>>
    BY <1>0, <1>4, <2>1 DEF RunStart, TypeOK
  <2>3. requeues[job[q]] = 0 => checkpoint[job[q]] = {} /\ afterIndex[job[q]] = {}
    BY <1>0, <2>1 DEF FirstRunOf
  <2> QED
    BY <1>1, <2>2, <2>3
<1>5. CASE ExecBegin(q)
  <2>1. pc[q] = "x_begin" /\ pc'[q] \in {"x_snapshot", "x_task", "x_receipt"}
        /\ UNCHANGED <<job, checkpoint, afterIndex, content>>
    BY <1>0, <1>5 DEF ExecBegin, Raise, TypeOK
  <2>2. requeues[job[q]] = 0 => checkpoint[job[q]] = {} /\ afterIndex[job[q]] = {}
    BY <1>0, <2>1
  <2> QED
    BY <1>1, <2>1, <2>2
<1>6. CASE ExecSnapshot(q)
  <2>1. pc[q] = "x_snapshot" /\ UNCHANGED <<job, checkpoint, afterIndex, content>>
        /\ \/ pc'[q] = "x_receipt"
           \/ pc'[q] = "x_record" /\ snap'[q] = {content[Ws(q)]}
    BY <1>0, <1>6 DEF ExecSnapshot, Raise, TypeOK
  <2>2. requeues[job[q]] = 0 => checkpoint[job[q]] = {} /\ afterIndex[job[q]] = {}
    BY <1>0, <2>1
  <2>3. AddedWork(content[Ws(q)], content[Ws(q)]) = {}
    BY DEF AddedWork
  <2> QED
    BY <1>1, <2>1, <2>2, <2>3
<1>7. CASE ExecRecord(q)
  <2>1. pc[q] = "x_record" /\ pc'[q] = "x_task"
        /\ UNCHANGED <<job, afterIndex, content>>
        /\ checkpoint'[job[q]] = snap[q]
    BY <1>0, <1>7 DEF ExecRecord, TypeOK
  <2> QED
    BY <1>0, <1>1, <2>1
<1>8. CASE ExecTask(q) \/ ExecWorkEnds(q) \/ ExecFinalCheck(q) \/ ExecReceipt(q)
  <2>1. /\ pc[q] \in {"x_task", "x_work", "x_final", "x_receipt"}
        /\ pc'[q] \in {"x_work", "x_final", "x_receipt", "x_finish"}
        /\ UNCHANGED <<job, checkpoint, content>>
    BY <1>0, <1>8 DEF ExecTask, ExecWorkEnds, ExecFinalCheck, ExecReceipt, Raise,
                      TypeOK
  <2> QED
    BY <1>0, <1>1, <2>1
<1>9. CASE ExecWrite(q)
  <2>1. /\ pc[q] = "x_work" /\ pc'[q] = "x_work"
        /\ UNCHANGED <<job, checkpoint>>
        /\ content'[Ws(q)] = content[Ws(q)] \cup {<<"work", job[q]>>}
    BY <1>0, <1>9 DEF ExecWrite, TypeOK
  <2>2. \A files : AddedWork(content'[Ws(q)], files)
                    \subseteq AddedWork(content[Ws(q)], files) \cup {<<"work", job[q]>>}
    BY <2>1 DEF AddedWork, MissionWork
  <2>3. Ws(q)' = Ws(q)
    BY <2>1
  <2> QED
    BY <1>0, <1>1, <2>1, <2>2, <2>3
<1>10. CASE ReviewCheck(q) /\ pc'[q] \in ExecLabels \cup {"v_restore", "v_undone"}
  <2>1. pc'[q] = "v_restore" /\ UNCHANGED <<job, checkpoint, content>>
        /\ IndexMatches(job[q])
    BY <1>0, <1>2, <1>10 DEF ReviewCheck, Refuse, TypeOK
  <2>2. content[Ws(q)] \in afterIndex[job[q]]
    BY <2>1 DEF IndexMatches
  <2>3. requeues[job[q]] = 0 =>
            \A files \in checkpoint[job[q]] :
                AddedWork(content[Ws(q)], files) \subseteq {<<"work", job[q]>>}
    BY <1>0, <2>2 DEF FirstRunOf
  <2> QED
    BY <1>1, <2>1, <2>3
<1>11. CASE ReviewRestore(q) /\ pc'[q] \in ExecLabels \cup {"v_restore", "v_undone"}
  <2>1. PICK files \in checkpoint[job[q]] :
            /\ content' = [content EXCEPT ![Ws(q)] = files]
            /\ Step(q, "v_undone")
            /\ UNCHANGED <<checkpoint, job>>
    BY <1>2, <1>11 DEF ReviewRestore, Refuse
  <2>2. content'[Ws(q)] = files /\ pc'[q] = "v_undone"
    BY <1>0, <2>1 DEF TypeOK
  <2> QED
    BY <2>1, <2>2
<1> QED
  BY <1>0, <1>3, <1>4, <1>5, <1>6, <1>7, <1>8, <1>9, <1>10, <1>11, IntoUndoLabels

(* What is recorded about a mission that was never requeued.               *)
LEMMA FirstRunStep ==
    ASSUME IInv, UndoInv, [Next]_vars, NEW m \in Missions
    PROVE  FirstRunOf(m)'
<1> SUFFICES ASSUME requeues'[m] = 0 PROVE FirstRunOf(m)'
  BY DEF FirstRunOf
<1>0. /\ requeues[m] = 0 /\ FirstRunOf(m)
      /\ state'[m] \in {"none", "queued"} => state[m] \in {"none", "queued"}
  BY RequeuesGrow DEF UndoInv
<1>1. CASE UNCHANGED <<checkpoint, afterIndex>>
  BY <1>0, <1>1 DEF FirstRunOf
<1>2. ASSUME NEW p \in Procs, ExecRecord(p) PROVE FirstRunOf(m)'
  <2>1. CASE job[p] = m
    <3>1. FreshOf(p) /\ pc[p] = "x_record" /\ UNCHANGED <<afterIndex, state>>
      BY <1>2 DEF UndoInv, UndoOf, ExecRecord
    <3>2. state[m] = "running" /\ afterIndex'[m] = {}
      BY <1>0, <2>1, <3>1 DEF FreshOf, IInv, ReadsStayTrue
    <3> QED
      BY <3>1, <3>2 DEF FirstRunOf
  <2>2. CASE job[p] # m
    BY <1>0, <1>2, <2>2 DEF ExecRecord, FirstRunOf, IInv, TypeOK
  <2> QED
    BY <2>1, <2>2
<1>3. ASSUME NEW p \in Procs, ExecReceipt(p) PROVE FirstRunOf(m)'
  <2>1. CASE job[p] = m
    <3>1. SparedOf(p) /\ pc[p] = "x_receipt" /\ UNCHANGED <<checkpoint, state>>
      BY <1>3 DEF UndoInv, UndoOf, ExecReceipt
    <3>2. state[m] = "running"
      BY <2>1, <3>1 DEF IInv, ReadsStayTrue
    <3>3. afterIndex'[m] = afterIndex[m] \/ afterIndex'[m] = {content[Ws(p)]}
      BY <1>3, <2>1 DEF ExecReceipt, IInv, TypeOK
    <3> QED
      BY <1>0, <2>1, <3>1, <3>2, <3>3 DEF FirstRunOf, SparedOf
  <2>2. CASE job[p] # m
    BY <1>0, <1>3, <2>2 DEF ExecReceipt, FirstRunOf, IInv, TypeOK
  <2> QED
    BY <2>1, <2>2
<1>4. ASSUME NEW p \in Procs, ProcStep(p)
      PROVE  ExecRecord(p) \/ ExecReceipt(p) \/ UNCHANGED <<checkpoint, afterIndex>>
  BY <1>4, FilesWritten DEF ExecWrite, ReviewRestore, Refuse, FilesStay
<1> QED
  BY <1>1, <1>2, <1>3, <1>4, NextSplit DEF Create, UserEdit, vars

(* What is known about the files stays known.                              *)
LEMMA UndoInvStep == IInv /\ UndoInv /\ [Next]_vars => UndoInv'
<1> SUFFICES ASSUME IInv, UndoInv, [Next]_vars PROVE UndoInv'
  OBVIOUS
<1>1. ASSUME NEW q \in Procs PROVE UndoOf(q)'
  <2>1. CASE ProcStep(q)
    BY <2>1, UndoOwn
  <2>2. CASE OtherStep(q)
    BY <2>2, UndoOthers DEF UndoInv
  <2> QED
    BY <2>1, <2>2, NextSplit DEF OtherStep
<1>2. ASSUME NEW m \in Missions PROVE FirstRunOf(m)'
  BY FirstRunStep
<1> QED
  BY <1>1, <1>2 DEF UndoInv

(* No file and no record at first.                                         *)
LEMMA UndoInvInit == Init => UndoInv
BY DEF Init, UndoInv, UndoOf, RestoredOf, SnapOf, FreshOf, SparedOf, FirstRunOf

(* It is what every reachable state satisfies.                             *)
THEOREM UndoInvariant == Spec => [](IInv /\ UndoInv)
<1>1. IInv /\ UndoInv /\ [Next]_vars => UndoInv'
  BY UndoInvStep
<1> QED
  BY <1>1, UndoInvInit, IInvInit, IInvStep, PTL DEF Spec

-----------------------------------------------------------------------------
(* A mission is recorded as undone only over its checkpoint's content.     *)
THEOREM UndoneMeansRestoredHolds == Spec => UndoneMeansRestored
<1> DEFINE RestoredStep ==
        \A m \in Missions : state[m] # "undone" /\ state'[m] = "undone" =>
            checkpoint[m] = {} \/
            \E files \in checkpoint[m] :
                MissionWork(content'[WsOf[m]]) = MissionWork(files)
<1>1. IInv /\ UndoInv /\ [Next]_vars => [RestoredStep]_vars
  <2> SUFFICES ASSUME IInv, UndoInv, Next, NEW m \in Missions,
                      state[m] # "undone", state'[m] = "undone"
               PROVE  \E files \in checkpoint[m] :
                        MissionWork(content'[WsOf[m]]) = MissionWork(files)
    OBVIOUS
  <2>1. PICK p \in Procs : ProcStep(p)
    BY NextSplit, CreateMoves DEF IInv, UserEdit
  <2>2. MovedBy(p, m)
    BY <2>1, StateMoves DEF IInv
  <2>3. pc[p] = "v_undone" /\ job[p] = m /\ pc'[p] = Home(p)
    BY <2>2 DEF MovedBy, IInv, CarryOfLabel, CarryOf
  <2>4. RestoredOf(p)
    BY DEF UndoInv, UndoOf
  <2>5. UNCHANGED content
    BY <2>1, <2>3, FilesWritten
       DEF ExecWrite, ExecRecord, ExecReceipt, ReviewRestore, FilesStay
  <2> QED
    BY <2>3, <2>4, <2>5 DEF RestoredOf
<1> QED
  BY <1>1, UndoInvariant, PTL DEF Spec, UndoneMeansRestored

(* The Undo of a mission that was never requeued takes away no work but    *)
(* its own, whatever the other missions of the workspace went through.     *)
SparedStep ==
    \A p \in Procs : pc[p] = "v_restore" /\ requeues[job[p]] = 0 =>
        MissionWork(content[Ws(p)]) \ MissionWork(content'[Ws(p)])
            \subseteq {<<"work", job[p]>>}

(* Only the restore itself takes work away, down to the checkpoint.        *)
LEMMA SparedSteps == IInv /\ UndoInv /\ [Next]_vars => SparedStep
<1> SUFFICES ASSUME IInv, UndoInv, [Next]_vars, NEW p \in Procs,
                    pc[p] = "v_restore", requeues[job[p]] = 0
             PROVE  MissionWork(content[Ws(p)]) \ MissionWork(content'[Ws(p)])
                        \subseteq {<<"work", job[p]>>}
  BY DEF SparedStep
<1>1. CASE OtherStep(p)
  BY <1>1, FilesUnderLock DEF IInv
<1>2. CASE ProcStep(p)
  <2>1. ReviewRestore(p) \/ UNCHANGED content
    BY <1>2, FilesWritten DEF ExecWrite, ExecRecord, ExecReceipt, FilesStay
  <2>2. CASE UNCHANGED content
    BY <2>2
  <2>3. CASE ReviewRestore(p) /\ ~UNCHANGED content
    <3>1. PICK files \in checkpoint[job[p]] :
            content' = [content EXCEPT ![Ws(p)] = files]
      BY <2>3 DEF ReviewRestore, Refuse
    <3>2. content'[Ws(p)] = files
      BY <3>1, WsTyped DEF IInv, TypeOK
    <3>3. AddedWork(content[Ws(p)], files) \subseteq {<<"work", job[p]>>}
      BY DEF UndoInv, UndoOf, SparedOf
    <3> QED
      BY <3>2, <3>3 DEF AddedWork
  <2> QED
    BY <2>1, <2>2, <2>3
<1> QED
  BY <1>1, <1>2, NextSplit DEF OtherStep

(* True of every step.                                                     *)
THEOREM FirstUndoSparesOthers == Spec => [][SparedStep]_vars
<1>1. IInv /\ UndoInv /\ [Next]_vars => [SparedStep]_vars
  BY SparedSteps
<1> QED
  BY <1>1, UndoInvariant, PTL DEF Spec

-----------------------------------------------------------------------------
(* Reconcile's list has every mission that is still recorded as running.   *)
ListsAllOf(p) ==
    Reconciling(p) /\ pc[p] = "recover_each" =>
        \A m \in Missions : state[m] = "running" =>
            \E e \in stale[p] : e[1] = m

ReconcileListsAll == \A p \in Procs : ListsAllOf(p)

(* Only recovery takes a mission from the list, and ends it with that.     *)
LEMMA ListsAllStep ==
    IInv /\ ReconcileListsAll /\ [Next]_vars => ReconcileListsAll'
<1> SUFFICES ASSUME IInv, ReconcileListsAll, [Next]_vars, NEW q \in Procs,
                    Reconciling(q)', pc'[q] = "recover_each",
                    NEW m \in Missions, state'[m] = "running"
             PROVE  \E e \in stale'[q] : e[1] = m
  BY DEF ReconcileListsAll, ListsAllOf
<1>0. ListsAllOf(q) /\ TypeOK
  BY DEF ReconcileListsAll, IInv
<1> USE DEF TypeOK
<1>1. ASSUME NEW p \in Procs, ProcStep(p), q # p PROVE \E e \in stale'[q] : e[1] = m
  <2>1. Same(q)
    BY <1>0, <1>1, OthersStay
  <2>2. Reconciling(q) /\ stale'[q] = stale[q] /\ pc[q] = "recover_each"
    BY <2>1 DEF Same
  <2>3. state[m] = "running"
    BY <1>1, <2>2, UnderGlobalLock DEF IInv
  <2> QED
    BY <1>0, <2>2, <2>3 DEF ListsAllOf
<1>2. ASSUME ProcStep(q) PROVE \E e \in stale'[q] : e[1] = m
  <2>1. CASE RecoverList(q)
    <3>1. UNCHANGED <<verb, state>> /\ verb[q] # "run"
      BY <2>1 DEF RecoverList
    <3>2. stale'[q] = {<<n, cancelReq[n]>> : n \in
                        {k \in RecoverScope(q) : state[k] = "running"}}
      BY <1>0, <2>1 DEF RecoverList
    <3>3. RecoverScope(q) = Missions
      BY <3>1 DEF RecoverScope
    <3>4. <<m, cancelReq[m]>> \in stale'[q]
      BY <3>1, <3>2, <3>3
    <3> QED
      BY <3>4
  <2>2. CASE RecoverOne(q)
    <3>1. PICK entry \in stale[q] :
            /\ state' = [state EXCEPT ![entry[1]] =
                            RecoverTarget(entry[1], entry[2])]
            /\ stale' = [stale EXCEPT ![q] = @ \ {entry}]
      BY <2>2 DEF RecoverOne
    <3>2. pc[q] = "recover_each" /\ UNCHANGED <<pc, job, verb>>
      BY <2>2 DEF RecoverOne
    <3>3. entry[1] \in Missions /\ state \in [Missions -> Lifecycle!MissionState \cup {"none"}]
      BY <1>0, <3>1 DEF Lifecycle!TypeOK
    <3>4. m # entry[1] /\ state[m] = "running"
      BY <3>1, <3>3 DEF RecoverTarget
    <3>5. PICK e \in stale[q] : e[1] = m
      BY <1>0, <3>2, <3>4 DEF ListsAllOf
    <3>6. e \in stale'[q]
      BY <1>0, <3>1, <3>4, <3>5
    <3> QED
      BY <3>5, <3>6
  <2>3. CASE pc'[q] # "recover_each"
    BY <2>3
  <2>4. RecoverList(q) \/ RecoverOne(q) \/ pc'[q] # "recover_each"
    <3>0. Leave(q) => pc'[q] # "recover_each"
      BY <1>0 DEF Leave, Home
    <3>1. CASE LockGlobal(q) \/ LockWs(q) \/ LockRefused(q) \/ RecoverDone(q)
      BY <1>0, <3>0, <3>1 DEF LockGlobal, LockWs, LockRefused, EntryOf, RecoverDone
    <3>2. CASE RunRead(q) \/ RunGate(q) \/ RunStart(q)
      BY <1>0, <3>0, <3>2 DEF RunRead, RunGate, RunStart, Refuse
    <3>3. CASE ExecBegin(q) \/ ExecSnapshot(q) \/ ExecRecord(q) \/ ExecTask(q)
      BY <1>0, <3>3 DEF ExecBegin, ExecSnapshot, ExecRecord, ExecTask, Raise
    <3>4. CASE ExecWrite(q) \/ ExecWorkEnds(q) \/ ExecFinalCheck(q)
               \/ ExecReceipt(q) \/ ExecFinish(q)
      BY <1>0, <3>0, <3>4 DEF ExecWrite, ExecWorkEnds, ExecFinalCheck,
                              ExecReceipt, ExecFinish, Raise
    <3>5. CASE CancelQueued(q) \/ CancelFlag(q) \/ RetryRead(q) \/ RetryCommit(q)
      BY <1>0, <3>0, <3>5 DEF CancelQueued, CancelFlag, RetryRead, RetryCommit, Refuse
    <3>6. CASE ReviewRead(q) \/ ReviewAccept(q) \/ ReviewCheck(q)
               \/ ReviewRestore(q) \/ ReviewUndone(q)
      BY <1>0, <3>0, <3>6 DEF ReviewRead, ReviewAccept, ReviewCheck,
                              ReviewRestore, ReviewUndone, Refuse
    <3>7. CASE q = Worker /\ WorkerLoop
      BY <1>0, <3>7 DEF WorkerLoop, WorkerLockAll, WorkerSettleRecords,
                        WorkerList, WorkerNext
    <3>8. CASE (q \in Clis /\ Command(q)) \/ Crash(q)
      BY <1>0, <3>8 DEF Command, Begin, CancelRead, Crash
    <3> QED
      BY <1>2, <3>1, <3>2, <3>3, <3>4, <3>5, <3>6, <3>7, <3>8
         DEF ProcStep, Continue
  <2> QED
    BY <2>1, <2>2, <2>3, <2>4
<1>3. ASSUME NEW n \in Missions, Create(n) PROVE \E e \in stale'[q] : e[1] = m
  <2>1. state[m] = "running" /\ UNCHANGED <<pc, verb, stale>>
    BY <1>0, <1>3, CreateMoves DEF Create
  <2> QED
    BY <1>0, <2>1 DEF ListsAllOf
<1>4. CASE UNCHANGED <<pc, verb, stale, state>>
  BY <1>0, <1>4 DEF ListsAllOf
<1> QED
  BY <1>1, <1>2, <1>3, <1>4, NextSplit DEF UserEdit, vars

(* Nobody reconciles at first.                                             *)
LEMMA ListsAllInit == Init => ReconcileListsAll
BY DEF Init, ReconcileListsAll, ListsAllOf

(* With no other process than the worker, a task row is open only while    *)
(* the worker executes that task, or between its crash and its next        *)
(* reconcile, when the mission is recorded as running.                     *)
TasksAlone ==
    \A m \in Missions : openTasks[m] # 0 =>
        \/ pc[Worker] \in {"w_start", "w_records"} /\ state[m] = "running"
        \/ /\ pc[Worker] \in {"x_snapshot", "x_record", "x_work"}
           /\ job[Worker] = m
           /\ openTasks[m] = 1

(* Opening the only row, and settling it.                                  *)
LEMMA OpensOne ==
    ASSUME TypeOK, NEW m \in Missions, openTasks[m] = 0, TaskOpens(m),
           NEW n \in Missions
    PROVE  openTasks'[n] = IF n = m THEN 1 ELSE openTasks[n]
BY DEF TypeOK, TaskOpens

(* The row is gone again.                                                  *)
LEMMA SettlesOne ==
    ASSUME TypeOK, NEW m \in Missions, openTasks[m] = 1, TaskSettles(m),
           NEW n \in Missions
    PROVE  openTasks'[n] = IF n = m THEN 0 ELSE openTasks[n]
BY DEF TypeOK, TaskSettles

(* The worker's crash leaves an open row only to its own reconcile.        *)
LEMMA TasksAloneStep ==
    ASSUME Clis = {}, IInv, TasksAlone, [Next]_vars
    PROVE  TasksAlone'
<1>0. /\ TypeOK /\ Worker \in Procs /\ job[Worker] \in Missions
      /\ Procs = {Worker}
  BY DEF IInv, TypeOK
<1>00. openTasks \in [Missions -> Nat] /\ pc[Worker] = pc[Worker]
  BY DEF IInv, TypeOK
<1> USE DEF TasksAlone
<1>1. CASE ProcStep(Worker)
  <2>0. Leave(Worker) => pc'[Worker] = "w_next"
    BY <1>0 DEF Leave, Home, TypeOK
  <2>1. CASE /\ UNCHANGED openTasks
             /\ pc[Worker] \notin {"w_start", "w_records", "x_snapshot",
                                   "x_record", "x_work"}
    BY <2>1
  <2>2. CASE ExecBegin(Worker) \/ ExecTask(Worker)
    <3>1. \A m \in Missions : openTasks[m] = 0
      BY <2>2 DEF ExecBegin, ExecTask
    <3>2. job'[Worker] = job[Worker]
      BY <2>2 DEF ExecBegin, ExecTask, Raise
    <3>3. \/ UNCHANGED openTasks
          \/ /\ TaskOpens(job[Worker])
             /\ pc'[Worker] \in {"x_snapshot", "x_work"}
      BY <1>0, <2>2 DEF ExecBegin, ExecTask, Raise, TypeOK
    <3> QED
      BY <1>0, <3>1, <3>2, <3>3, OpensOne
  <2>3. CASE TaskSettles(job[Worker])
             /\ pc[Worker] \in {"x_snapshot", "x_record", "x_work"}
    <3>1. \A m \in Missions : openTasks[m] # 0 => m = job[Worker] /\ openTasks[m] = 1
      BY <2>3
    <3>2. openTasks[job[Worker]] = 1
      BY <1>0, <2>3 DEF IInv, TaskIsOpen
    <3>3. \A m \in Missions : openTasks'[m] = 0
      BY <1>0, <2>3, <3>1, <3>2, SettlesOne
    <3> QED
      BY <3>3
  <2>4. CASE ExecSnapshot(Worker) /\ ~TaskSettles(job[Worker])
    BY <1>0, <2>4 DEF ExecSnapshot, Raise, TypeOK
  <2>5. CASE ExecWrite(Worker)
    BY <2>5 DEF ExecWrite
  <2>6. CASE WorkerLockAll
    <3>1. exHolders = {} /\ shHolders = {}
      <4>1. pc[Worker] = "w_start"
        BY <2>6 DEF WorkerLockAll
      <4>2. ~Sharing(Worker) /\ ~Reconciling(Worker)
        BY <4>1 DEF Sharing
      <4> QED
        BY <1>0, <4>2 DEF IInv, LockHeld, TypeOK
    <3>2. pc'[Worker] = "w_records" /\ UNCHANGED <<openTasks, state>>
          /\ pc[Worker] = "w_start"
      BY <1>0, <2>6, <3>1 DEF WorkerLockAll, TypeOK
    <3> QED
      BY <3>2
  <2>7. CASE WorkerSettleRecords
    <3>1. pc[Worker] = "w_records" /\ SettleRecords
      BY <2>7 DEF WorkerSettleRecords
    <3>2. \A m \in Missions : openTasks'[m] = 0
      BY <1>00, <3>1 DEF SettleRecords
    <3> QED
      BY <3>2
  <2>8. CASE Crash(Worker)
    <3>1. pc'[Worker] = "w_start" /\ UNCHANGED <<openTasks, state>>
      BY <1>0, <2>8 DEF Crash, TypeOK
    <3>2. pc[Worker] \in {"x_snapshot", "x_record", "x_work"} =>
            state[job[Worker]] = "running"
      BY <1>0 DEF IInv, ReadsStayTrue
    <3> QED
      BY <3>1, <3>2
  <2>9. \/ /\ UNCHANGED openTasks
           /\ pc[Worker] \notin {"w_start", "w_records", "x_snapshot",
                                 "x_record", "x_work"}
        \/ ExecBegin(Worker) \/ ExecTask(Worker)
        \/ TaskSettles(job[Worker])
           /\ pc[Worker] \in {"x_snapshot", "x_record", "x_work"}
        \/ ExecSnapshot(Worker) /\ ~TaskSettles(job[Worker])
        \/ ExecWrite(Worker) \/ WorkerLockAll \/ WorkerSettleRecords
        \/ Crash(Worker)
    <3> DEFINE p == Worker
    <3>1. CASE LockGlobal(p) \/ LockWs(p) \/ LockRefused(p)
               \/ RecoverList(p) \/ RecoverOne(p) \/ RecoverDone(p)
      BY <3>1 DEF LockGlobal, LockWs, LockRefused, RecoverList, RecoverOne,
                  RecoverDone
    <3>2. CASE RunRead(p) \/ RunGate(p) \/ RunStart(p)
      BY <3>2 DEF RunRead, RunGate, RunStart, Refuse
    <3>3. CASE ExecSnapshot(p) \/ ExecRecord(p) \/ ExecWorkEnds(p)
      BY <3>3 DEF ExecSnapshot, ExecRecord, ExecWorkEnds
    <3>4. CASE ExecFinalCheck(p) \/ ExecReceipt(p) \/ ExecFinish(p)
      BY <3>4 DEF ExecFinalCheck, ExecReceipt, ExecFinish
    <3>5. CASE CancelQueued(p) \/ CancelFlag(p) \/ RetryRead(p) \/ RetryCommit(p)
      BY <3>5 DEF CancelQueued, CancelFlag, RetryRead, RetryCommit, Refuse
    <3>6. CASE ReviewRead(p) \/ ReviewAccept(p) \/ ReviewCheck(p)
               \/ ReviewRestore(p) \/ ReviewUndone(p)
      BY <3>6 DEF ReviewRead, ReviewAccept, ReviewCheck, ReviewRestore,
                  ReviewUndone, Refuse
    <3>7. CASE WorkerList \/ WorkerNext
      BY <3>7 DEF WorkerList, WorkerNext
    <3> QED
      BY <1>1, <3>1, <3>2, <3>3, <3>4, <3>5, <3>6, <3>7
         DEF ProcStep, Continue, WorkerLoop
  <2> QED
    BY <2>1, <2>2, <2>3, <2>4, <2>5, <2>6, <2>7, <2>8, <2>9
<1>2. ASSUME NEW n \in Missions, Create(n) PROVE TasksAlone'
  <2>1. UNCHANGED <<pc, job, openTasks>>
    BY <1>2 DEF Create
  <2>2. \A m \in Missions : state[m] = "running" => state'[m] = "running"
    BY <1>0, <1>2, CreateMoves
  <2> QED
    BY <2>1, <2>2
<1>3. CASE UNCHANGED <<pc, job, openTasks, state>>
  BY <1>3
<1> QED
  BY <1>0, <1>1, <1>2, <1>3, NextSplit DEF UserEdit, vars

(* A worker that is the only process settles every record: no task row     *)
(* stays RUNNING once its mission is not.                                  *)
THEOREM RecordsSettledAlone ==
    ASSUME Clis = {}
    PROVE  Spec => []RecordsSettled
<1>1. Init => TasksAlone
  BY DEF Init, TasksAlone
<1>2. IInv /\ TasksAlone /\ [Next]_vars => TasksAlone'
  BY TasksAloneStep
<1>3. IInv /\ TasksAlone => RecordsSettled
  BY DEF IInv, ReadsStayTrue, TasksAlone, RecordsSettled
<1> QED
  BY <1>1, <1>2, <1>3, EngineInvariant, PTL DEF Spec

-----------------------------------------------------------------------------
(* Whoever else is at work: when the worker comes out of reconcile, nothing*)
(* at all is recorded as running.                                          *)
CleanStep ==
    pc[Worker] = "recover_each" /\ verb[Worker] = "none" /\ pc'[Worker] = "w_list"
        => \A m \in Missions : state'[m] # "running"

(* Reconcile is left only when its list is empty.                          *)
LEMMA CleanSteps == IInv /\ ReconcileListsAll /\ [Next]_vars => CleanStep
<1> SUFFICES ASSUME IInv, ReconcileListsAll, [Next]_vars,
                    pc[Worker] = "recover_each", verb[Worker] = "none",
                    pc'[Worker] = "w_list", NEW m \in Missions
             PROVE  state'[m] # "running"
  BY DEF CleanStep
<1>0. Worker \in Procs /\ TypeOK
  BY DEF IInv
<1>1. ASSUME NEW p \in Procs, ProcStep(p), p # Worker PROVE FALSE
  BY <1>0, <1>1, OthersStay DEF Same
<1>2. ASSUME ProcStep(Worker) PROVE RecoverDone(Worker)
  <2> DEFINE p == Worker
  <2>1. CASE LockGlobal(p) \/ LockWs(p) \/ LockRefused(p)
             \/ RecoverList(p) \/ RecoverOne(p)
    BY <1>0, <2>1 DEF LockGlobal, LockWs, LockRefused, RecoverList, RecoverOne, TypeOK
  <2>2. CASE RunRead(p) \/ RunGate(p) \/ RunStart(p) \/ ExecBegin(p)
             \/ ExecSnapshot(p) \/ ExecRecord(p) \/ ExecTask(p)
    BY <2>2 DEF RunRead, RunGate, RunStart, ExecBegin, ExecSnapshot, ExecRecord,
                ExecTask
  <2>3. CASE ExecWrite(p) \/ ExecWorkEnds(p) \/ ExecFinalCheck(p)
             \/ ExecReceipt(p) \/ ExecFinish(p)
    BY <2>3 DEF ExecWrite, ExecWorkEnds, ExecFinalCheck, ExecReceipt, ExecFinish
  <2>4. CASE CancelQueued(p) \/ CancelFlag(p) \/ RetryRead(p) \/ RetryCommit(p)
    BY <2>4 DEF CancelQueued, CancelFlag, RetryRead, RetryCommit
  <2>5. CASE ReviewRead(p) \/ ReviewAccept(p) \/ ReviewCheck(p)
             \/ ReviewRestore(p) \/ ReviewUndone(p)
    BY <2>5 DEF ReviewRead, ReviewAccept, ReviewCheck, ReviewRestore, ReviewUndone
  <2>6. CASE WorkerLoop
    BY <2>6 DEF WorkerLoop, WorkerLockAll, WorkerSettleRecords, WorkerList, WorkerNext
  <2>7. CASE Crash(p)
    BY <1>0, <2>7 DEF Crash, TypeOK
  <2> QED
    BY <1>2, <2>1, <2>2, <2>3, <2>4, <2>5, <2>6, <2>7 DEF ProcStep, Continue
<1>3. RecoverDone(Worker)
  BY <1>0, <1>1, <1>2, NextSplit DEF Create, UserEdit, vars
<1>4. stale[Worker] = {} /\ UNCHANGED state
  BY <1>3 DEF RecoverDone
<1>5. ListsAllOf(Worker) /\ Reconciling(Worker)
  BY <1>0 DEF ReconcileListsAll
<1> QED
  BY <1>4, <1>5 DEF ListsAllOf

(* The list that recovery works off was complete, and nobody starts.       *)
THEOREM ReconcileLeavesNothingRunning == Spec => [][CleanStep]_vars
<1>1. IInv /\ ReconcileListsAll /\ [Next]_vars => [CleanStep]_vars
  BY CleanSteps
<1> QED
  BY <1>1, ListsAllInit, ListsAllStep, EngineInvariant, PTL DEF Spec

(* A worker that is the only process always gets the lock and reconciles:  *)
(* it never starts to serve the queue over a mission an earlier crash left.*)
THEOREM StartupLeavesNoOrphanAlone ==
    ASSUME Clis = {}
    PROVE  Spec => StartupLeavesNoOrphan
<1> DEFINE NoOrphanStep ==
        /\ pc[Worker] \in {"w_start", "recover_each"} /\ verb[Worker] = "none"
        /\ pc'[Worker] = "w_list"
        => \A m \in Missions : state'[m] = "running" =>
             \E p \in Procs : Executing(p) /\ job[p] = m
<1>1. IInv /\ ReconcileListsAll /\ [Next]_vars => [NoOrphanStep]_vars
  <2> SUFFICES ASSUME IInv, ReconcileListsAll, [Next]_vars,
                      pc[Worker] = "w_start", pc'[Worker] = "w_list"
               PROVE  FALSE
    BY CleanSteps DEF CleanStep
  <2>0. Worker \in Procs /\ TypeOK /\ Procs = {Worker}
    BY DEF IInv
  <2>1. ~Sharing(Worker) /\ ~Reconciling(Worker)
    BY DEF Sharing
  <2>2. exHolders = {} /\ shHolders = {}
    BY <2>0, <2>1 DEF IInv, LockHeld, TypeOK
  <2>3. ProcStep(Worker)
    BY <2>0, NextSplit DEF Create, UserEdit, vars
  <2>4. ~WorkerLockAll
    BY <2>0, <2>2 DEF WorkerLockAll, TypeOK
  <2>5. ~WorkerLoop /\ ~Crash(Worker)
    BY <2>4 DEF WorkerLoop, WorkerSettleRecords, WorkerList, WorkerNext, Crash
  <2>6. Continue(Worker)
    BY <2>0, <2>3, <2>5 DEF ProcStep
  <2> QED
    BY <2>6 DEF Continue, LockGlobal, LockWs, LockRefused, RecoverList, RecoverOne,
         RecoverDone, RunRead, RunGate, RunStart, ExecBegin, ExecSnapshot,
         ExecRecord, ExecTask, ExecWrite, ExecWorkEnds, ExecFinalCheck,
         ExecReceipt, ExecFinish, CancelQueued, CancelFlag, RetryRead,
         RetryCommit, ReviewRead, ReviewAccept, ReviewCheck, ReviewRestore,
         ReviewUndone
<1> QED
  BY <1>1, ListsAllInit, ListsAllStep, EngineInvariant, PTL
     DEF Spec, StartupLeavesNoOrphan
====
