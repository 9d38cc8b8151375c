--------------------------- MODULE MissionEngine ---------------------------
(***************************************************************************)
(* Mission Control's queue engine: Store, Executor, run_mission, review,   *)
(* retry, cancel and the worker's startup, as processes that interleave    *)
(* between one SQLite transaction (or one file operation) and the next.    *)
(* Every process may die at any point, which drops its flocks.             *)
(*                                                                         *)
(* A process is at a program counter pc[p].  Labels starting with x_ are   *)
(* Executor and the rest of run_mission after the mission started, v_ is   *)
(* review, r_ retry, c_ cancel, w_ the worker outside run_mission.         *)
(*                                                                         *)
(* Files of a workspace are a set of tokens: <<"work", m>> what mission m  *)
(* wrote, <<"edit", k>> what a person wrote while no mission was executing *)
(* there and <<"live", k>> what a person wrote while one was.              *)
(***************************************************************************)
EXTENDS Naturals, FiniteSets

CONSTANTS
    Missions, Workspaces, WsOf, MaxAttempts,    \* as in MissionLifecycle
    Clis,           \* processes a person starts: one verb each, then gone
    Worker,         \* the queue worker of the systemd unit
    Gated,          \* missions whose policy decision may refuse the start
    MaxCrashes,     \* bound: how many times a process dies
    MaxEdits        \* bound: how many edits the person makes

Procs == Clis \cup {Worker}

ASSUME EngineAssumption ==
    /\ Missions \subseteq Nat /\ Missions # {}
    /\ WsOf \in [Missions -> Workspaces]
    /\ MaxAttempts \in Nat \ {0}
    /\ Worker \notin Clis
    /\ Gated \subseteq Missions
    /\ MaxCrashes \in Nat /\ MaxEdits \in Nat

VARIABLES
    (* the database *)
    state, attempt, requeues,
    cancelReq,      \* missions.cancel_requested
    checkpoint,     \* missions.checkpoint: {} or {the content it restores}
    openTasks,      \* rows of tasks that are RUNNING
    (* the file system *)
    content,        \* what is in a workspace
    afterIndex,     \* after-index.json: {} or {the content it describes}
    exHolders,      \* flock on execution.lock, exclusive
    shHolders,      \* flock on execution.lock, shared
    wsHolders,      \* flock on execution-<digest>.lock
    (* processes *)
    pc,
    verb,           \* what the process was asked to do
    job,            \* the mission it does it to
    carry,          \* a state read earlier (expect=) or a run's outcome
    snap,           \* a recovery id not yet recorded: {} or {content}
    stale,          \* recover's list: <<mission, cancel_requested>>
    todo,           \* the worker's list of queued missions
    (* bounds *)
    crashes, edits

missionVars == <<state, attempt, requeues>>
dbVars == <<missionVars, cancelReq, checkpoint, openTasks>>
fileVars == <<content, afterIndex>>
lockVars == <<exHolders, shHolders, wsHolders>>
localVars == <<verb, job, carry, snap, stale, todo>>
boundVars == <<crashes, edits>>
vars == <<dbVars, fileVars, lockVars, pc, localVars, boundVars>>

Lifecycle == INSTANCE MissionLifecycle

AnyMission == CHOOSE m \in Missions : TRUE

Ws(p) == WsOf[job[p]]

Token ==
    ({"work"} \X Missions) \cup ({"edit", "live"} \X (1 .. MaxEdits))

Verbs == {"run", "retry", "accept", "undo", "cancel"}

ExecLabels ==
    {"x_begin", "x_snapshot", "x_record", "x_task", "x_work", "x_final",
     "x_receipt", "x_finish"}

RunLabels == {"recover_list", "recover_each", "run_read", "run_gate",
              "run_start"} \cup ExecLabels

ReviewLabels == {"v_read", "v_accept", "v_check", "v_restore", "v_undone"}

RetryLabels == {"r_read", "r_commit"}

LockLabels == {"lock_global", "lock_ws"}

CancelLabels == {"c_queued", "c_flag"}

WorkerLabels == {"w_start", "w_records", "w_list", "w_next"}

(* where a process holds the lock of its mission's workspace               *)
HoldsWs(p) ==
    \/ pc[p] \in {"run_read", "run_gate", "run_start"}
    \/ pc[p] \in ExecLabels \cup ReviewLabels \cup RetryLabels
    \/ pc[p] \in {"recover_list", "recover_each"} /\ verb[p] = "run"

Executing(p) == pc[p] \in ExecLabels

Reconciling(p) ==
    \/ pc[p] = "w_records"
    \/ pc[p] \in {"recover_list", "recover_each"} /\ verb[p] # "run"

-----------------------------------------------------------------------------
(* Moves of one process                                                    *)

Goto(p, label) == pc' = [pc EXCEPT ![p] = label]

Home(p) == IF p = Worker THEN "w_next" ELSE "idle"

Unlock(p) ==
    /\ exHolders' = exHolders \ {p}
    /\ shHolders' = shHolders \ {p}
    /\ wsHolders' = [w \in Workspaces |-> wsHolders[w] \ {p}]

Forget(p) ==
    /\ verb' = [verb EXCEPT ![p] = "none"]
    /\ job' = [job EXCEPT ![p] = AnyMission]
    /\ carry' = [carry EXCEPT ![p] = "none"]
    /\ snap' = [snap EXCEPT ![p] = {}]
    /\ stale' = [stale EXCEPT ![p] = {}]

(* The verb returns or raises: its with-blocks release the locks, a CLI    *)
(* exits and the worker goes on with its list.                             *)
Leave(p) ==
    /\ Goto(p, Home(p))
    /\ Unlock(p)
    /\ Forget(p)
    /\ UNCHANGED <<todo, boundVars>>

(* One more step of the same verb.                                         *)
Step(p, label) ==
    /\ Goto(p, label)
    /\ UNCHANGED <<lockVars, boundVars>>

SetState(m, to) == state' = [state EXCEPT ![m] = to]

-----------------------------------------------------------------------------
Init ==
    /\ Lifecycle!Init
    /\ cancelReq = [m \in Missions |-> FALSE]
    /\ checkpoint = [m \in Missions |-> {}]
    /\ openTasks = [m \in Missions |-> 0]
    /\ content = [w \in Workspaces |-> {}]
    /\ afterIndex = [m \in Missions |-> {}]
    /\ exHolders = {}
    /\ shHolders = {}
    /\ wsHolders = [w \in Workspaces |-> {}]
    /\ pc = [p \in Procs |-> IF p = Worker THEN "w_start" ELSE "idle"]
    /\ verb = [p \in Procs |-> "none"]
    /\ job = [p \in Procs |-> AnyMission]
    /\ carry = [p \in Procs |-> "none"]
    /\ snap = [p \in Procs |-> {}]
    /\ stale = [p \in Procs |-> {}]
    /\ todo = [p \in Procs |-> {}]
    /\ crashes = 0
    /\ edits = 0

-----------------------------------------------------------------------------
(* Store.create: row and first event in one transaction; created_at orders *)
(* the missions.                                                           *)
Create(m) ==
    /\ state[m] = "none"
    /\ \A n \in Missions : n < m => state[n] # "none"
    /\ SetState(m, "queued")
    /\ UNCHANGED <<attempt, requeues, cancelReq, checkpoint, openTasks,
                   fileVars, lockVars, pc, localVars, boundVars>>

(* A person works in the workspace; nothing locks them out.                *)
UserEdit(w) ==
    /\ edits < MaxEdits
    /\ edits' = edits + 1
    /\ LET kind == IF \E m \in Missions : WsOf[m] = w /\ state[m] = "running"
                   THEN "live" ELSE "edit"
       IN  content' = [content EXCEPT ![w] = @ \cup {<<kind, edits + 1>>}]
    /\ UNCHANGED <<dbVars, afterIndex, lockVars, pc, localVars, crashes>>

(* SIGKILL, power loss, OOM.  The kernel drops the flocks, and prctl and   *)
(* bwrap take the provider down with its parent; systemd starts the worker *)
(* again (w_start).                                                        *)
Crash(p) ==
    /\ crashes < MaxCrashes
    /\ pc[p] \notin {"idle", "w_start"}
    /\ crashes' = crashes + 1
    /\ Goto(p, IF p = Worker THEN "w_start" ELSE "idle")
    /\ Unlock(p)
    /\ Forget(p)
    /\ todo' = [todo EXCEPT ![p] = {}]
    /\ UNCHANGED <<dbVars, fileVars, edits>>

-----------------------------------------------------------------------------
(* Store.lock(workspace=...): execution.lock shared, then the workspace's  *)
(* own file exclusive.                                                     *)

LocksFor(p, v, m) ==
    /\ verb' = [verb EXCEPT ![p] = v]
    /\ job' = [job EXCEPT ![p] = m]

Begin(p, v, m) ==
    /\ pc[p] = "idle"
    /\ state[m] # "none"
    /\ LocksFor(p, v, m)
    /\ Step(p, "lock_global")
    /\ UNCHANGED <<dbVars, fileVars, carry, snap, stale, todo>>

GlobalFreeUnshared(p) == p \in Procs  \* variant: no shared level

GlobalFree(p) == exHolders \ {p} = {}

WsFreeNoKey(p) == p \in Procs  \* variant: one file per spelling

WsFree(p) == wsHolders[Ws(p)] \ {p} = {}

EntryOf(v) ==
    CASE v = "run" -> "recover_list"
      [] v = "retry" -> "r_read"
      [] OTHER -> "v_read"

LockGlobal(p) ==
    /\ pc[p] = "lock_global"
    /\ GlobalFree(p)
    /\ shHolders' = shHolders \cup {p}
    /\ Goto(p, "lock_ws")
    /\ UNCHANGED <<dbVars, fileVars, exHolders, wsHolders, localVars,
                   boundVars>>

LockWs(p) ==
    /\ pc[p] = "lock_ws"
    /\ WsFree(p)
    /\ wsHolders' = [wsHolders EXCEPT ![Ws(p)] = @ \cup {p}]
    /\ Goto(p, EntryOf(verb[p]))
    /\ UNCHANGED <<dbVars, fileVars, exHolders, shHolders, localVars,
                   boundVars>>

(* run and retry have wait_seconds=0 and refuse at once; a review retries  *)
(* for ten seconds, holding what it already has, before it gives up.       *)
LockRefused(p) ==
    /\ \/ pc[p] = "lock_global" /\ ~GlobalFree(p)
       \/ pc[p] = "lock_ws" /\ ~WsFree(p)
    /\ Leave(p)
    /\ UNCHANGED <<dbVars, fileVars>>

-----------------------------------------------------------------------------
(* Store.recover.  run_mission calls it for the workspace it holds, the    *)
(* worker's reconcile for all of them under the exclusive global lock.     *)

RecoverScopeAll(p) ==  \* variant: a workspace filter that filters nothing
    IF p \in Procs THEN Missions ELSE {}

RecoverScope(p) ==
    IF verb[p] = "run" THEN {m \in Missions : WsOf[m] = Ws(p)} ELSE Missions

RecoverList(p) ==
    /\ pc[p] = "recover_list"
    /\ stale' = [stale EXCEPT ![p] =
                    {<<m, cancelReq[m]>> : m \in
                        {n \in RecoverScope(p) : state[n] = "running"}}]
    /\ Step(p, "recover_each")
    /\ UNCHANGED <<dbVars, fileVars, verb, job, carry, snap, todo>>

RecoverTarget(m, asked) == IF asked THEN "cancelled" ELSE "failed"

(* The decision uses the cancel_requested that the list read.              *)
RecoverOne(p) ==
    /\ pc[p] = "recover_each"
    /\ \E entry \in stale[p] :
        LET m == entry[1] IN
        /\ state[m] = "running"
        /\ SetState(m, RecoverTarget(m, entry[2]))
        /\ stale' = [stale EXCEPT ![p] = @ \ {entry}]
    /\ UNCHANGED <<attempt, requeues, cancelReq, checkpoint, openTasks,
                   fileVars, lockVars, pc, verb, job, carry, snap, todo,
                   boundVars>>

RecoverDone(p) ==
    /\ pc[p] = "recover_each"
    /\ stale[p] = {}
    /\ IF verb[p] = "run"
       THEN Step(p, "run_read") /\ UNCHANGED <<verb, job, carry, snap, stale>>
       ELSE /\ Goto(p, "w_list")
            /\ Unlock(p)
            /\ Forget(p)
            /\ UNCHANGED boundVars
    /\ UNCHANGED <<dbVars, fileVars, todo>>

-----------------------------------------------------------------------------
(* worker(): reconcile once at startup, then serve the queue.              *)

WorkerLockAllNever ==  \* variant: the worker starts with its queue
    /\ pc[Worker] = "w_start"
    /\ Step(Worker, "w_list")
    /\ UNCHANGED <<dbVars, fileVars, localVars>>

(* with store.lock(): reconcile -- or, on MissionError, go on without.     *)
WorkerLockAll ==
    /\ pc[Worker] = "w_start"
    /\ IF exHolders = {} /\ shHolders = {}
       THEN /\ exHolders' = {Worker}
            /\ Goto(Worker, "w_records")
            /\ UNCHANGED <<shHolders, wsHolders, boundVars>>
       ELSE Step(Worker, "w_list")
    /\ UNCHANGED <<dbVars, fileVars, localVars>>

SettleRecordsLater == UNCHANGED openTasks  \* variant: recover() alone

(* reconcile, part 1: the task (and session) rows of the stale missions.   *)
SettleRecords ==
    openTasks' = [m \in Missions |->
                     IF state[m] = "running" THEN 0 ELSE openTasks[m]]

WorkerSettleRecords ==
    /\ pc[Worker] = "w_records"
    /\ SettleRecords
    /\ Step(Worker, "recover_list")
    /\ UNCHANGED <<missionVars, cancelReq, checkpoint, fileVars, localVars>>

Queued == {m \in Missions : state[m] = "queued"}

WorkerList ==
    /\ pc[Worker] = "w_list"
    /\ Queued # {}
    /\ todo' = [todo EXCEPT ![Worker] = Queued]
    /\ Step(Worker, "w_next")
    /\ UNCHANGED <<dbVars, fileVars, verb, job, carry, snap, stale>>

(* The oldest first; run_mission reads the mission again.                  *)
WorkerNext ==
    /\ pc[Worker] = "w_next"
    /\ IF todo[Worker] = {}
       THEN Step(Worker, "w_list") /\ UNCHANGED localVars
       ELSE \E m \in todo[Worker] :
            /\ \A n \in todo[Worker] : m <= n
            /\ todo' = [todo EXCEPT ![Worker] = @ \ {m}]
            /\ LocksFor(Worker, "run", m)
            /\ Step(Worker, "lock_global")
            /\ UNCHANGED <<carry, snap, stale>>
    /\ UNCHANGED <<dbVars, fileVars>>

-----------------------------------------------------------------------------
(* run_mission up to the start                                             *)

Refuse(p) == Leave(p) /\ UNCHANGED <<dbVars, fileVars>>

(* Re-read under the lock, then require_approval.                          *)
RunRead(p) ==
    /\ pc[p] = "run_read"
    /\ \/ state[job[p]] # "queued" /\ Refuse(p)
       \/ job[p] \in Gated /\ Refuse(p)
       \/ /\ state[job[p]] = "queued"
          /\ Step(p, "run_gate")
          /\ UNCHANGED <<dbVars, fileVars, localVars>>

OthersAwaitNothing(p) == p \notin Procs  \* variant: no review gate

OthersAwaitReview(p) ==
    \E n \in Missions \ {job[p]} :
        WsOf[n] = Ws(p) /\ state[n] = "waiting-review"

RunGate(p) ==
    /\ pc[p] = "run_gate"
    /\ IF OthersAwaitReview(p)
       THEN Refuse(p)
       ELSE Step(p, "run_start") /\ UNCHANGED <<dbVars, fileVars, localVars>>

(* transition(RUNNING, expect=QUEUED, attempt + 1); a mission cancelled    *)
(* since it was read is refused.                                           *)
RunStart(p) ==
    /\ pc[p] = "run_start"
    /\ IF state[job[p]] = "queued"
       THEN /\ SetState(job[p], "running")
            /\ attempt' = [attempt EXCEPT ![job[p]] = @ + 1]
            /\ Step(p, "x_begin")
            /\ UNCHANGED <<requeues, cancelReq, checkpoint, openTasks,
                           fileVars, localVars>>
       ELSE Refuse(p)

-----------------------------------------------------------------------------
(* Executor.execute: an optional checkpoint task, then the capability's    *)
(* own task.  Executor.task() opens a row and settles it on every way out. *)

TaskOpensPending(m) ==  \* variant: a step settled without having begun
    m \in Missions /\ UNCHANGED openTasks

TaskOpens(m) == openTasks' = [openTasks EXCEPT ![m] = @ + 1]

TaskSettles(m) == openTasks' = [openTasks EXCEPT ![m] = @ - 1]

Outcome(p, o) == carry' = [carry EXCEPT ![p] = o]

(* an exception reaches run_mission's except clauses                       *)
Raise(p, o) ==
    /\ Outcome(p, o)
    /\ Step(p, "x_receipt")
    /\ UNCHANGED <<missionVars, cancelReq, checkpoint, fileVars,
                   verb, job, snap, stale, todo>>

ExecBegin(p) ==
    /\ pc[p] = "x_begin"
    /\ \/ Raise(p, "failed") /\ UNCHANGED openTasks
       \/ /\ IF checkpoint[job[p]] = {}
             THEN TaskOpens(job[p]) /\ Step(p, "x_snapshot")
             ELSE Step(p, "x_task") /\ UNCHANGED openTasks
          /\ UNCHANGED <<missionVars, cancelReq, checkpoint, fileVars,
                         localVars>>

ExecSnapshot(p) ==
    /\ pc[p] = "x_snapshot"
    /\ \/ TaskSettles(job[p]) /\ Raise(p, "failed")
       \/ /\ snap' = [snap EXCEPT ![p] = {content[Ws(p)]}]
          /\ Step(p, "x_record")
          /\ UNCHANGED <<dbVars, fileVars, verb, job, carry, stale, todo>>

ExecRecord(p) ==
    /\ pc[p] = "x_record"
    /\ checkpoint' = [checkpoint EXCEPT ![job[p]] = snap[p]]
    /\ snap' = [snap EXCEPT ![p] = {}]
    /\ TaskSettles(job[p])
    /\ Step(p, "x_task")
    /\ UNCHANGED <<missionVars, cancelReq, fileVars, verb, job, carry,
                   stale, todo>>

ExecTask(p) ==
    /\ pc[p] = "x_task"
    /\ TaskOpens(job[p])
    /\ Step(p, "x_work")
    /\ UNCHANGED <<missionVars, cancelReq, checkpoint, fileVars, localVars>>

(* The provider writes into the workspace.                                 *)
ExecWrite(p) ==
    /\ pc[p] = "x_work"
    /\ <<"work", job[p]>> \notin content[Ws(p)]
    /\ content' = [content EXCEPT ![Ws(p)] = @ \cup {<<"work", job[p]>>}]
    /\ UNCHANGED <<dbVars, afterIndex, lockVars, pc, localVars, boundVars>>

(* The turn ends: normally, by check() seeing the flag, or by an error or  *)
(* the deadline.  Each way out settles the task (and session) row.         *)
ExecWorkEnds(p) ==
    /\ pc[p] = "x_work"
    /\ TaskSettles(job[p])
    /\ \/ /\ Step(p, "x_final")
          /\ UNCHANGED <<missionVars, cancelReq, checkpoint, fileVars,
                         localVars>>
       \/ cancelReq[job[p]] /\ Raise(p, "cancelled")
       \/ Raise(p, "failed")

(* execute()'s last check().                                               *)
ExecFinalCheck(p) ==
    /\ pc[p] = "x_final"
    /\ \/ Raise(p, IF cancelReq[job[p]] THEN "cancelled" ELSE "waiting-review")
       \/ ~cancelReq[job[p]] /\ Raise(p, "failed")
    /\ UNCHANGED openTasks

(* receipt(): after-index.json is written unless the diff failed or a      *)
(* report resume asked to keep the old one; a receipt that cannot be       *)
(* persisted fails the run.                                                *)
ExecReceipt(p) ==
    /\ pc[p] = "x_receipt"
    /\ \/ UNCHANGED afterIndex
       \/ afterIndex' = [afterIndex EXCEPT ![job[p]] = {content[Ws(p)]}]
    /\ \E o \in {carry[p], "failed"} :
        /\ Outcome(p, o)
        /\ Step(p, "x_finish")
    /\ UNCHANGED <<dbVars, content, verb, job, snap, stale, todo>>

(* open_review_for adds a row nothing here reads and swallows its own      *)
(* failure; then finish_execution publishes the outcome.                   *)
ExecFinish(p) ==
    /\ pc[p] = "x_finish"
    /\ state[job[p]] = "running"
    /\ SetState(job[p], carry[p])
    /\ Leave(p)
    /\ UNCHANGED <<attempt, requeues, cancelReq, checkpoint, openTasks,
                   fileVars>>

-----------------------------------------------------------------------------
(* Store.cancel takes no lock: it reads the row, then acts on what it read *)

CancelRead(p, m) ==
    /\ pc[p] = "idle"
    /\ state[m] \in Lifecycle!Active
    /\ ~cancelReq[m]
    /\ LocksFor(p, "cancel", m)
    /\ Step(p, IF state[m] = "queued" THEN "c_queued" ELSE "c_flag")
    /\ UNCHANGED <<dbVars, fileVars, carry, snap, stale, todo>>

(* transition(CANCELLED, expect=QUEUED, cancel_requested=1)                *)
CancelQueued(p) ==
    /\ pc[p] = "c_queued"
    /\ IF state[job[p]] = "queued"
       THEN /\ SetState(job[p], "cancelled")
            /\ cancelReq' = [cancelReq EXCEPT ![job[p]] = TRUE]
       ELSE UNCHANGED <<state, cancelReq>>
    /\ Leave(p)
    /\ UNCHANGED <<attempt, requeues, checkpoint, openTasks, fileVars>>

(* The transaction reads state and flag again.                             *)
FlagAllowed(m) == state[m] \in Lifecycle!Active /\ ~cancelReq[m]

CancelFlag(p) ==
    /\ pc[p] = "c_flag"
    /\ IF FlagAllowed(job[p])
       THEN cancelReq' = [cancelReq EXCEPT ![job[p]] = TRUE]
       ELSE UNCHANGED cancelReq
    /\ Leave(p)
    /\ UNCHANGED <<missionVars, checkpoint, openTasks, fileVars>>

-----------------------------------------------------------------------------
(* Store.retry                                                             *)

RetryRead(p) ==
    /\ pc[p] = "r_read"
    /\ IF state[job[p]] \in {"failed", "cancelled"} /\ attempt[job[p]] < MaxAttempts
       THEN /\ Outcome(p, state[job[p]])
            /\ Step(p, "r_commit")
            /\ UNCHANGED <<dbVars, fileVars, verb, job, snap, stale, todo>>
       ELSE Refuse(p)

BudgetOfColumn(m) == attempt[m] < MaxAttempts  \* variant: no chain

(* requeue_refusal on attempts_taken: not the column alone                 *)
BudgetLeft(m) == Lifecycle!RequeueAllowed(m)

(* transition(QUEUED, expect=state) asks the budget of the chain again.    *)
RetryCommit(p) ==
    /\ pc[p] = "r_commit"
    /\ state[job[p]] = carry[p]
    /\ IF BudgetLeft(job[p])
       THEN /\ SetState(job[p], "queued")
            /\ requeues' = [requeues EXCEPT ![job[p]] = @ + 1]
            /\ cancelReq' = [cancelReq EXCEPT ![job[p]] = FALSE]
       ELSE UNCHANGED <<state, requeues, cancelReq>>
    /\ Leave(p)
    /\ UNCHANGED <<attempt, checkpoint, openTasks, fileVars>>

-----------------------------------------------------------------------------
(* review(): Accept or Undo                                                *)

ReviewRead(p) ==
    LET s == state[job[p]] IN
    /\ pc[p] = "v_read"
    /\ \/ /\ verb[p] = "accept" /\ s = "waiting-review"
          /\ Step(p, "v_accept")
          /\ Outcome(p, s)
          /\ UNCHANGED <<dbVars, fileVars, verb, job, snap, stale, todo>>
       \/ /\ verb[p] = "undo"
          /\ s \in {"waiting-review", "failed", "cancelled", "completed"}
          /\ checkpoint[job[p]] # {}
          /\ Step(p, "v_check")
          /\ Outcome(p, s)
          /\ UNCHANGED <<dbVars, fileVars, verb, job, snap, stale, todo>>
       \/ /\ \/ verb[p] = "accept" /\ s # "waiting-review"
             \/ s \notin {"waiting-review", "failed", "cancelled", "completed"}
             \/ verb[p] = "undo" /\ checkpoint[job[p]] = {}
          /\ Refuse(p)

(* transition(COMPLETED); decide_review then stamps the review row.        *)
ReviewAccept(p) ==
    /\ pc[p] = "v_accept"
    /\ state[job[p]] = carry[p]
    /\ SetState(job[p], "completed")
    /\ Leave(p)
    /\ UNCHANGED <<attempt, requeues, cancelReq, checkpoint, openTasks,
                   fileVars>>

(* created later, has a recovery point, not undone                         *)
NewerMission(m) ==
    \E n \in Missions :
        /\ n > m
        /\ WsOf[n] = WsOf[m]
        /\ checkpoint[n] # {}
        /\ state[n] # "undone"

IndexExists(m) == afterIndex[m] # {}  \* variant: existence is enough

(* after-index.json exists and describes the workspace as it is now        *)
IndexMatches(m) == afterIndex[m] = {content[WsOf[m]]}

ReviewCheck(p) ==
    /\ pc[p] = "v_check"
    /\ IF NewerMission(job[p]) \/ ~IndexMatches(job[p])
       THEN Refuse(p)
       ELSE Step(p, "v_restore") /\ UNCHANGED <<dbVars, fileVars, localVars>>

ReviewRestoreUnchecked(p) ==  \* variant: a refused restore is not noticed
    /\ pc[p] = "v_restore"
    /\ \/ \E files \in checkpoint[job[p]] :
            content' = [content EXCEPT ![Ws(p)] = files]
       \/ UNCHANGED content
    /\ Step(p, "v_undone")
    /\ UNCHANGED <<dbVars, afterIndex, localVars>>

(* checkpoint_call("undo"), which either restores all of it or raises;     *)
(* CheckpointEngine is about what happens inside.                          *)
ReviewRestore(p) ==
    /\ pc[p] = "v_restore"
    /\ \/ \E files \in checkpoint[job[p]] :
            /\ content' = [content EXCEPT ![Ws(p)] = files]
            /\ Step(p, "v_undone")
            /\ UNCHANGED <<dbVars, afterIndex, localVars>>
       \/ Refuse(p)

ReviewUndone(p) ==
    /\ pc[p] = "v_undone"
    /\ state[job[p]] = carry[p]
    /\ SetState(job[p], "undone")
    /\ Leave(p)
    /\ UNCHANGED <<attempt, requeues, cancelReq, checkpoint, openTasks,
                   fileVars>>

-----------------------------------------------------------------------------
(* What a process does by itself once it has been asked to.                *)
Continue(p) ==
    \/ LockGlobal(p) \/ LockWs(p) \/ LockRefused(p)
    \/ RecoverList(p) \/ RecoverOne(p) \/ RecoverDone(p)
    \/ RunRead(p) \/ RunGate(p) \/ RunStart(p)
    \/ ExecBegin(p) \/ ExecSnapshot(p) \/ ExecRecord(p)
    \/ ExecTask(p) \/ ExecWrite(p) \/ ExecWorkEnds(p)
    \/ ExecFinalCheck(p) \/ ExecReceipt(p) \/ ExecFinish(p)
    \/ CancelQueued(p) \/ CancelFlag(p)
    \/ RetryRead(p) \/ RetryCommit(p)
    \/ ReviewRead(p) \/ ReviewAccept(p) \/ ReviewCheck(p)
    \/ ReviewRestore(p) \/ ReviewUndone(p)

WorkerLoop ==
    WorkerLockAll \/ WorkerSettleRecords \/ WorkerList \/ WorkerNext

(* What a person, or an accident, does.                                    *)
Command(p) ==
    \E m \in Missions :
        \/ \E v \in {"run", "retry", "accept", "undo"} : Begin(p, v, m)
        \/ CancelRead(p, m)

Next ==
    \/ \E p \in Procs : Continue(p)
    \/ WorkerLoop
    \/ \E p \in Clis : Command(p)
    \/ \E m \in Missions : Create(m)
    \/ \E w \in Workspaces : UserEdit(w)
    \/ \E p \in Procs : Crash(p)

Spec == Init /\ [][Next]_vars

(***************************************************************************)
(* A live process goes on (an execution has a deadline, a lock attempt is  *)
(* refused or times out) and systemd restarts the worker.  Nothing obliges *)
(* a person to give a command, nor a process to die.                       *)
(***************************************************************************)
Fairness ==
    /\ \A p \in Procs : WF_vars(Continue(p))
    /\ WF_vars(WorkerLoop)

FairSpec == Spec /\ Fairness

-----------------------------------------------------------------------------
(* Every row, file, lock and local holds a value of its kind.              *)
TypeOK ==
    /\ Lifecycle!TypeOK
    /\ cancelReq \in [Missions -> BOOLEAN]
    /\ checkpoint \in [Missions -> SUBSET SUBSET Token]
    /\ openTasks \in [Missions -> Nat]
    /\ content \in [Workspaces -> SUBSET Token]
    /\ afterIndex \in [Missions -> SUBSET SUBSET Token]
    /\ exHolders \subseteq Procs
    /\ shHolders \subseteq Procs
    /\ wsHolders \in [Workspaces -> SUBSET Procs]
    /\ pc \in [Procs -> {"idle"} \cup LockLabels \cup RunLabels
                        \cup ReviewLabels \cup RetryLabels \cup CancelLabels
                        \cup WorkerLabels]
    /\ verb \in [Procs -> Verbs \cup {"none"}]
    /\ job \in [Procs -> Missions]
    /\ carry \in [Procs -> Lifecycle!MissionState \cup {"none"}]
    /\ snap \in [Procs -> SUBSET SUBSET Token]
    /\ stale \in [Procs -> SUBSET (Missions \X BOOLEAN)]
    /\ todo \in [Procs -> SUBSET Missions]
    /\ crashes \in 0 .. MaxCrashes
    /\ edits \in 0 .. MaxEdits

(***************************************************************************)
(* The two-level lock does its work: at most one process is inside a run,  *)
(* a retry or a review of a workspace, and none is while the worker        *)
(* reconciles the whole system.                                            *)
(***************************************************************************)
OneProcessPerWorkspace ==
    \A p, q \in Procs : p # q /\ HoldsWs(p) =>
        /\ ~(HoldsWs(q) /\ Ws(p) = Ws(q))
        /\ ~Reconciling(q)

(***************************************************************************)
(* What a verb read before its last transaction is still true in it: under *)
(* the lock transition(expect=...) never has to refuse, a finishing run    *)
(* finds its mission running, and recovery finds each listed row running.  *)
(***************************************************************************)
ReadsStayTrue ==
    \A p \in Procs :
        /\ pc[p] \in {"v_accept", "v_check", "v_restore", "v_undone",
                      "r_commit"} => state[job[p]] = carry[p]
        /\ Executing(p) => state[job[p]] = "running"
        /\ \A entry \in stale[p] : state[entry[1]] = "running"

(* Of the missions of a workspace at most one is running or unreviewed.    *)
OneOpenMission == Lifecycle!OneOpenMission

(* The engine takes no step the mission life cycle does not allow.         *)
ImplementsLifecycle == Lifecycle!Spec

(***************************************************************************)
(* Recovery never ends a mission somebody is executing ("would mark a LIVE *)
(* mission failed"): only its own executor's last step does.               *)
(***************************************************************************)
LiveMissionNotRecovered ==
    [][\A m \in Missions, p \in Procs :
        /\ state[m] = "running" /\ state'[m] # "running"
        /\ Executing(p) /\ job[p] = m
        => pc[p] = "x_finish" /\ pc'[p] # "x_finish"]_vars

(***************************************************************************)
(* An Undo takes away no work of another mission.  True of the code only   *)
(* while no mission is retried; the README tells what a retry breaks.      *)
(***************************************************************************)
MissionWork(files) == {token \in files : token[1] = "work"}

UndoSparesOtherMissions ==
    [][\A p \in Procs : pc[p] = "v_restore" =>
        MissionWork(content[Ws(p)]) \ MissionWork(content'[Ws(p)])
            \subseteq {<<"work", job[p]>>}]_vars

(***************************************************************************)
(* "Undo checks for newer edits": when its check passes, the workspace has *)
(* no edit, made while no mission was executing, that is not also in the   *)
(* checkpoint about to be restored.                                        *)
(***************************************************************************)
UndoChecksForEdits ==
    [][\A p \in Procs : pc[p] = "v_check" /\ pc'[p] = "v_restore" =>
        \A files \in checkpoint[job[p]], token \in content[Ws(p)] :
            token[1] = "edit" => token \in files]_vars

(***************************************************************************)
(* A mission is recorded as undone only when no mission's work is in the   *)
(* workspace but what its checkpoint holds.                                *)
(***************************************************************************)
UndoneMeansRestored ==
    [][\A m \in Missions : state[m] # "undone" /\ state'[m] = "undone" =>
        checkpoint[m] = {} \/
        \E files \in checkpoint[m] :
            MissionWork(content'[WsOf[m]]) = MissionWork(files)]_vars

(* A step that did not finish says so: no task row stays RUNNING once its  *)
(* mission is not.                                                         *)
RecordsSettled ==
    \A m \in Missions : state[m] # "running" => openTasks[m] = 0

(* Once the worker has started, whoever is running is really executing:    *)
(* nothing an earlier crash left behind is still recorded as running.      *)
StartupLeavesNoOrphan ==
    [][/\ pc[Worker] \in {"w_start", "recover_each"} /\ verb[Worker] = "none"
       /\ pc'[Worker] = "w_list"
       => \A m \in Missions : state'[m] = "running" =>
            \E p \in Procs : Executing(p) /\ job[p] = m]_vars

(* A running mission comes to rest even if the process that runs it dies.  *)
RunsSettle ==
    \A m \in Missions : state[m] = "running" ~> state[m] # "running"

=============================================================================
