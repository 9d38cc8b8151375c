-------------------------- MODULE MissionLifecycle --------------------------
(***************************************************************************)
(* What Mission Control promises about a mission's life, with processes,   *)
(* locks, crashes and the workspace left out: which edges of the state     *)
(* machine exist (MISSION_TRANSITIONS), how many attempts the retry budget *)
(* allows, and that two missions of one workspace are never at the same    *)
(* time between "started" and "reviewed", which is what gives Undo its     *)
(* meaning.  MissionEngine is checked to implement this module.            *)
(***************************************************************************)
EXTENDS Naturals

CONSTANTS
    Missions,       \* mission ids; a smaller id was created earlier
    Workspaces,     \* workspace directories
    WsOf,           \* the workspace each mission was created for
    MaxAttempts     \* MAX_ATTEMPTS in the code, where it is 3

ASSUME LifecycleAssumption ==
    /\ Missions \subseteq Nat
    /\ Missions # {}
    /\ WsOf \in [Missions -> Workspaces]
    /\ MaxAttempts \in Nat \ {0}

VARIABLES
    state,          \* the missions.state column; "none" before creation
    attempt,        \* the missions.attempt column: executions started
    requeues        \* how many retry-queued events the mission's log holds

lifecycleVars == <<state, attempt, requeues>>

MissionState ==
    {"queued", "running", "waiting-review", "completed", "failed",
     "cancelled", "undone"}

Active == {"queued", "running"}

Max2(a, b) == IF a >= b THEN a ELSE b

(***************************************************************************)
(* The tabulated edges, without the one that creates a mission.            *)
(***************************************************************************)
Transitions ==
    {<<"queued", "running">>, <<"queued", "cancelled">>,
     <<"running", "waiting-review">>, <<"running", "failed">>,
     <<"running", "cancelled">>,
     <<"waiting-review", "completed">>, <<"waiting-review", "undone">>,
     <<"failed", "undone">>, <<"cancelled", "undone">>,
     <<"completed", "undone">>,
     <<"failed", "queued">>, <<"cancelled", "queued">>}

AttemptsRequeued(m) == requeues[m]  \* variant: the first run is not counted

(* attempts_taken: the stored column or the count in the chain, the higher *)
AttemptsTaken(m) == Max2(attempt[m], requeues[m] + 1)

RequeueAllowed(m) == AttemptsTaken(m) < MaxAttempts

SameWs(m, n) == WsOf[m] = WsOf[n]

(* Between its start and its review a mission holds the workspace.         *)
Open(m) == state[m] \in {"running", "waiting-review"}

-----------------------------------------------------------------------------
Init ==
    /\ state = [m \in Missions |-> "none"]
    /\ attempt = [m \in Missions |-> 0]
    /\ requeues = [m \in Missions |-> 0]

Move(m, to) ==
    /\ <<state[m], to>> \in Transitions
    /\ state' = [state EXCEPT ![m] = to]

Create(m) ==
    /\ state[m] = "none"
    /\ state' = [state EXCEPT ![m] = "queued"]
    /\ UNCHANGED <<attempt, requeues>>

Start(m) ==
    /\ \A n \in Missions \ {m} : SameWs(m, n) => ~Open(n)
    /\ Move(m, "running")
    /\ attempt' = [attempt EXCEPT ![m] = @ + 1]
    /\ UNCHANGED requeues

(* A run ends, or recovery ends it for a process that died.                *)
Settle(m, to) ==
    /\ state[m] = "running"
    /\ Move(m, to)
    /\ UNCHANGED <<attempt, requeues>>

CancelQueued(m) ==
    /\ state[m] = "queued"
    /\ Move(m, "cancelled")
    /\ UNCHANGED <<attempt, requeues>>

Accept(m) ==
    /\ Move(m, "completed")
    /\ UNCHANGED <<attempt, requeues>>

Undo(m) ==
    /\ Move(m, "undone")
    /\ UNCHANGED <<attempt, requeues>>

Requeue(m) ==
    /\ RequeueAllowed(m)
    /\ Move(m, "queued")
    /\ requeues' = [requeues EXCEPT ![m] = @ + 1]
    /\ UNCHANGED attempt

Next ==
    \E m \in Missions :
        \/ Create(m)
        \/ Start(m)
        \/ \E to \in {"waiting-review", "failed", "cancelled"} : Settle(m, to)
        \/ CancelQueued(m)
        \/ Accept(m)
        \/ Undo(m)
        \/ Requeue(m)

Spec == Init /\ [][Next]_lifecycleVars

-----------------------------------------------------------------------------
(* Every column holds a value of its kind.                                 *)
TypeOK ==
    /\ state \in [Missions -> MissionState \cup {"none"}]
    /\ attempt \in [Missions -> Nat]
    /\ requeues \in [Missions -> Nat]

(***************************************************************************)
(* Nothing checks the budget when a mission starts: it is only the requeue *)
(* edge that is refused.  No mission is nevertheless executed more often   *)
(* than MAX_ATTEMPTS times, whatever mix of runs, cancellations before the *)
(* run and retries it goes through.                                        *)
(***************************************************************************)
AttemptBudget == \A m \in Missions : attempt[m] <= MaxAttempts

(***************************************************************************)
(* Of the missions of one workspace at most one is running or waiting for  *)
(* its review: the boundary that an Undo restores to.                      *)
(***************************************************************************)
OneOpenMission ==
    \A m, n \in Missions :
        m # n /\ SameWs(m, n) /\ Open(m) => ~Open(n)

(***************************************************************************)
(* FINAL: an undone mission never moves again, and an accepted one can     *)
(* only be undone.                                                         *)
(***************************************************************************)
FinalStep ==
    \A m \in Missions :
        /\ state[m] = "undone" => state'[m] = "undone"
        /\ state[m] = "completed" => state'[m] \in {"completed", "undone"}

FinalStays == [][FinalStep]_lifecycleVars
=============================================================================
