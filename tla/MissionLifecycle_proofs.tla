----------------------- MODULE MissionLifecycle_proofs -----------------------
(***************************************************************************)
(* Proofs about the mission life cycle, for any set of missions, any       *)
(* workspaces and any retry budget.                                        *)
(***************************************************************************)
EXTENDS MissionLifecycle, TLAPS

(* Type correctness: each column keeps a value of its kind.                *)
LEMMA TypeOKStep == TypeOK /\ [Next]_lifecycleVars => TypeOK'
<1>. SUFFICES ASSUME TypeOK, [Next]_lifecycleVars PROVE TypeOK'
  OBVIOUS
<1>. USE LifecycleAssumption DEF TypeOK, MissionState
<1>1. CASE UNCHANGED lifecycleVars
  BY <1>1 DEF lifecycleVars
<1>2. ASSUME NEW m \in Missions, Create(m) PROVE TypeOK'
  BY <1>2 DEF Create
<1>3. ASSUME NEW m \in Missions, Start(m) PROVE TypeOK'
  BY <1>3 DEF Start, Move, Transitions
<1>4. ASSUME NEW m \in Missions,
             NEW to \in {"waiting-review", "failed", "cancelled"}, Settle(m, to)
      PROVE TypeOK'
  BY <1>4 DEF Settle, Move, Transitions
<1>5. ASSUME NEW m \in Missions, CancelQueued(m) PROVE TypeOK'
  BY <1>5 DEF CancelQueued, Move, Transitions
<1>6. ASSUME NEW m \in Missions, Accept(m) PROVE TypeOK'
  BY <1>6 DEF Accept, Move, Transitions
<1>7. ASSUME NEW m \in Missions, Undo(m) PROVE TypeOK'
  BY <1>7 DEF Undo, Move, Transitions
<1>8. ASSUME NEW m \in Missions, Requeue(m) PROVE TypeOK'
  BY <1>8 DEF Requeue, Move, Transitions
<1>. QED
  BY <1>1, <1>2, <1>3, <1>4, <1>5, <1>6, <1>7, <1>8 DEF Next

(* The columns of a new database.                                          *)
LEMMA TypeOKInit == Init => TypeOK
  BY LifecycleAssumption DEF Init, TypeOK, MissionState

(* Every column of every mission keeps a value of its kind.                *)
THEOREM LifecycleTypeCorrect == Spec => []TypeOK
  BY TypeOKInit, TypeOKStep, PTL DEF Spec

-----------------------------------------------------------------------------
(***************************************************************************)
(* The retry budget.  What is inductive is that a mission has started at   *)
(* most once more often than it was requeued, and not even once more while *)
(* it waits in the queue, and that the requeues stay below the budget.     *)
(***************************************************************************)
BudgetOf(m) ==
    /\ requeues[m] < MaxAttempts
    /\ attempt[m] <= requeues[m] + 1
    /\ state[m] \in {"none", "queued"} => attempt[m] <= requeues[m]

BudgetInv == \A m \in Missions : BudgetOf(m)

(* Nothing has been started or requeued yet.                               *)
LEMMA BudgetInit == Init => BudgetInv
<1>. SUFFICES ASSUME Init, NEW m \in Missions PROVE BudgetOf(m)
  BY DEF BudgetInv
<1>1. requeues[m] = 0 /\ attempt[m] = 0
  BY DEF Init
<1>2. 0 < MaxAttempts
  BY LifecycleAssumption
<1>. QED
  BY <1>1, <1>2 DEF BudgetOf

(* Starting needs a queued mission, and requeueing one under the budget.   *)
LEMMA BudgetStep == TypeOK /\ BudgetInv /\ [Next]_lifecycleVars => BudgetInv'
<1>. SUFFICES ASSUME TypeOK, BudgetInv, [Next]_lifecycleVars,
                     NEW n \in Missions
              PROVE  BudgetOf(n)'
  BY DEF BudgetInv
<1>0. BudgetOf(n)
  BY DEF BudgetInv
<1>. USE LifecycleAssumption, <1>0 DEF TypeOK, BudgetOf
<1>1. CASE UNCHANGED lifecycleVars
  BY <1>1 DEF lifecycleVars
<1>2. ASSUME NEW m \in Missions, Create(m) PROVE BudgetOf(n)'
  BY <1>2 DEF Create
<1>3. ASSUME NEW m \in Missions, Start(m) PROVE BudgetOf(n)'
  BY <1>3 DEF Start, Move, Transitions
<1>4. ASSUME NEW m \in Missions,
             NEW to \in {"waiting-review", "failed", "cancelled"}, Settle(m, to)
      PROVE BudgetOf(n)'
  BY <1>4 DEF Settle, Move
<1>5. ASSUME NEW m \in Missions, CancelQueued(m) PROVE BudgetOf(n)'
  BY <1>5 DEF CancelQueued, Move
<1>6. ASSUME NEW m \in Missions, Accept(m) PROVE BudgetOf(n)'
  BY <1>6 DEF Accept, Move
<1>7. ASSUME NEW m \in Missions, Undo(m) PROVE BudgetOf(n)'
  BY <1>7 DEF Undo, Move
<1>8. ASSUME NEW m \in Missions, Requeue(m) PROVE BudgetOf(n)'
  <2>1. requeues[m] + 1 < MaxAttempts
    BY <1>8 DEF Requeue, RequeueAllowed, AttemptsTaken, Max2
  <2>. QED
    BY <1>8, <2>1 DEF Requeue, Move
<1>. QED
  BY <1>1, <1>2, <1>3, <1>4, <1>5, <1>6, <1>7, <1>8 DEF Next

(* The counts of the inductive invariant stay within the budget.           *)
LEMMA BudgetImplies == TypeOK /\ BudgetInv => AttemptBudget
<1>. SUFFICES ASSUME TypeOK, BudgetInv, NEW m \in Missions
              PROVE  attempt[m] <= MaxAttempts
  BY DEF AttemptBudget
<1>. QED
  BY LifecycleAssumption DEF TypeOK, BudgetInv, BudgetOf

(* No mission is executed more often than the budget allows, although only *)
(* the requeue edge, never the start, asks for the budget.                 *)
THEOREM AttemptBudgetHolds == Spec => []AttemptBudget
<1>1. Spec => [](TypeOK /\ BudgetInv)
  BY TypeOKInit, TypeOKStep, BudgetInit, BudgetStep, PTL DEF Spec
<1>. QED
  BY <1>1, BudgetImplies, PTL

-----------------------------------------------------------------------------
(* No mission is open at first.                                            *)
LEMMA OneOpenInit == Init => OneOpenMission
  BY DEF Init, OneOpenMission, Open

(* A step that opens no mission cannot make two open ones.                 *)
LEMMA NothingOpens ==
    ASSUME OneOpenMission, \A k \in Missions : Open(k)' => Open(k)
    PROVE  OneOpenMission'
  BY DEF OneOpenMission, SameWs

(* Only a start opens a mission, and it finds no other one open.           *)
LEMMA OneOpenStep == TypeOK /\ OneOpenMission /\ [Next]_lifecycleVars => OneOpenMission'
<1>. SUFFICES ASSUME TypeOK, OneOpenMission, [Next]_lifecycleVars
              PROVE  OneOpenMission'
  OBVIOUS
<1>. USE LifecycleAssumption DEF TypeOK
<1>1. CASE UNCHANGED lifecycleVars
  BY <1>1, NothingOpens DEF lifecycleVars, Open
<1>2. ASSUME NEW m \in Missions, Create(m) PROVE OneOpenMission'
  BY <1>2, NothingOpens DEF Create, Open
<1>3. ASSUME NEW m \in Missions, Start(m) PROVE OneOpenMission'
  <2>1. \A n \in Missions \ {m} : Open(n)' <=> Open(n)
    BY <1>3 DEF Start, Move, Open
  <2>. QED
    BY <1>3, <2>1 DEF Start, OneOpenMission, SameWs
<1>4. ASSUME NEW m \in Missions,
             NEW to \in {"waiting-review", "failed", "cancelled"}, Settle(m, to)
      PROVE OneOpenMission'
  BY <1>4, NothingOpens DEF Settle, Move, Open
<1>5. ASSUME NEW m \in Missions, CancelQueued(m) PROVE OneOpenMission'
  BY <1>5, NothingOpens DEF CancelQueued, Move, Open
<1>6. ASSUME NEW m \in Missions, Accept(m) PROVE OneOpenMission'
  BY <1>6, NothingOpens DEF Accept, Move, Open
<1>7. ASSUME NEW m \in Missions, Undo(m) PROVE OneOpenMission'
  BY <1>7, NothingOpens DEF Undo, Move, Open
<1>8. ASSUME NEW m \in Missions, Requeue(m) PROVE OneOpenMission'
  BY <1>8, NothingOpens DEF Requeue, Move, Open
<1>. QED
  BY <1>1, <1>2, <1>3, <1>4, <1>5, <1>6, <1>7, <1>8 DEF Next

(* Never two missions of one workspace between their start and review.     *)
THEOREM OneOpenMissionHolds == Spec => []OneOpenMission
<1>1. Spec => [](TypeOK /\ OneOpenMission)
  BY TypeOKInit, TypeOKStep, OneOpenInit, OneOpenStep, PTL DEF Spec
<1>. QED
  BY <1>1, PTL

-----------------------------------------------------------------------------
(* A tabulated move of one mission breaks no mission's final state.        *)
LEMMA MoveKeepsFinal ==
    ASSUME TypeOK, NEW m \in Missions, NEW to, Move(m, to)
    PROVE  FinalStep
<1>. SUFFICES ASSUME NEW k \in Missions
              PROVE  /\ state[k] = "undone" => state'[k] = "undone"
                     /\ state[k] = "completed" =>
                            state'[k] \in {"completed", "undone"}
  BY DEF FinalStep
<1>1. CASE k = m
  BY <1>1 DEF TypeOK, Move, Transitions
<1>2. CASE k # m
  BY <1>2 DEF TypeOK, Move
<1>. QED
  BY <1>1, <1>2

(* FINAL holds of every step: undone is the end, and completed leads only  *)
(* to undone.                                                              *)
THEOREM FinalStaysHolds == Spec => FinalStays
<1>1. TypeOK /\ [Next]_lifecycleVars => [FinalStep]_lifecycleVars
  <2>. SUFFICES ASSUME TypeOK, Next PROVE FinalStep
    OBVIOUS
  <2>1. PICK m \in Missions :
          Create(m) \/ (\E to \in MissionState : Move(m, to))
    BY DEF Next, Start, Settle, CancelQueued, Accept, Undo, Requeue, MissionState
  <2>2. CASE Create(m)
    BY <2>2 DEF Create, TypeOK, FinalStep
  <2>3. CASE \E to \in MissionState : Move(m, to)
    BY <2>3, MoveKeepsFinal
  <2>. QED
    BY <2>1, <2>2, <2>3
<1>. QED
  BY <1>1, LifecycleTypeCorrect, PTL DEF Spec, FinalStays
=============================================================================
