---------------------------- MODULE ApprovalGate ----------------------------
(***************************************************************************)
(* How a mission that needs a person's approval comes to run: the policy   *)
(* (sf_policy.py), the approvals and their chained events (grant_approval, *)
(* revoke_approval, find_approval), the gate (require_approval) in the     *)
(* middle of run_mission, and the queue worker that sleeps on inotify      *)
(* between two scans (Wakeup, worker).                                     *)
(*                                                                         *)
(* One mission that is not retried, in a workspace where no other one      *)
(* waits for a review.  A runner is the worker or a command-line `run`.  A *)
(* scope is its network posture, its credential identities and its         *)
(* destinations; of the audit chain the events about approvals are kept.   *)
(* A transaction is one step.  A process reads the provider's manifest     *)
(* once (registry): after an upgrade of its package the worker, started    *)
(* before it, and a command-line run, started after it, differ in what     *)
(* they hold the mission to ask for.                                       *)
(***************************************************************************)
EXTENDS Naturals, Sequences, FiniteSets

CONSTANTS
  Aps,          \* approval ids
  Scopes,       \* the scopes a person grants or a mission asks for
  Everywhere,   \* the destination "*"
  Runner,       \* the queue worker
  Clients,      \* command-line runs, one each
  Credentials, Hosts

ASSUME GateAssumption ==
  /\ Scopes \subseteq [network : 0..2, credentials : SUBSET Credentials,
                       hosts : SUBSET (Hosts \cup {Everywhere})]
  /\ Runner \notin Clients
  /\ "none" \notin Aps

Runners == Clients \cup {Runner}
Nothing == [ap |-> "none"]
Approval(a) == [ap |-> a]

VARIABLES
  approvals,    \* the table: whether the row exists, revoked_at, expires_at, scope
  trail,        \* the approval events of the chain, in order
  declared,     \* the scope in the manifest of the mission's provider, on disk
  asked,        \* the scope each runner has read there
  task,         \* the mission's state
  usedBy,       \* missions.approval_id
  at,           \* where each runner is
  rows,         \* the rows find_approval read that stood, to be asked of the chain
  found,        \* the row it returned
  workspace,    \* the runner that holds the workspace lock, as a set
  inbox         \* whether inotify events are queued for the worker

gate   == <<trail, usedBy>>
scopes == <<declared, asked>>
table  == <<approvals>>
runner == <<at, rows, found, workspace>>
apVars == <<approvals, trail, declared, asked, task, usedBy, at, rows, found,
            workspace, inbox>>

ApTypeOK ==
  /\ approvals \in [Aps -> [there : BOOLEAN, revoked : BOOLEAN,
                            expired : BOOLEAN, scope : Scopes]]
  /\ trail \in Seq({"granted", "revoked", "used"} \X Aps)
  /\ declared \in Scopes /\ asked \in [Runners -> Scopes]
  /\ task \in {"queued", "running", "ended"}
  /\ usedBy \in {Nothing} \cup {Approval(a) : a \in Aps}
  /\ \A r \in Runners :
       at[r] \in {"idle", "enter", "gate", "check", "use", "start",
                  "drain", "asleep", "done"}
  /\ \A r \in Runners : rows[r] \subseteq Aps /\ found[r] \in {Nothing} \cup {Approval(a) : a \in Aps}
  /\ Cardinality(workspace) <= 1 /\ inbox \in BOOLEAN

ApInit ==
  /\ declared \in Scopes /\ asked = [r \in Runners |-> declared]
  /\ approvals = [a \in Aps |-> [there |-> FALSE, revoked |-> FALSE,
                                 expired |-> FALSE, scope |-> declared]]
  /\ trail = <<>> /\ task = "queued" /\ usedBy = Nothing
  /\ at = [r \in Runners |-> "idle"]
  /\ rows = [r \in Runners |-> {}] /\ found = [r \in Runners |-> Nothing]
  /\ workspace = {} /\ inbox = FALSE

-----------------------------------------------------------------------------
(* The policy.                                                             *)

\* variant: an approval that overlaps the request is taken for one that covers
CoversOverlap(granted, wanted) ==
  /\ wanted.network <= granted.network
  /\ wanted.credentials \subseteq granted.credentials
  /\ Everywhere \in granted.hosts \/ wanted.hosts \cap granted.hosts # {}

\* approval_covers: the request, or a legitimate superset of it.
Covers(granted, wanted) ==
  /\ wanted.network <= granted.network
  /\ wanted.credentials \subseteq granted.credentials
  /\ Everywhere \in granted.hosts \/ wanted.hosts \subseteq granted.hosts

\* evaluate: the network or a credential needs a person.
Escalates(wanted) == wanted.network > 0 \/ wanted.credentials # {}

-----------------------------------------------------------------------------
(* The approvals.                                                          *)

Chained(kind, a) == \E i \in DOMAIN trail : trail[i] = <<kind, a>>

\* ORDER BY granted_at DESC
Newer(a, b) ==
  \E i, j \in DOMAIN trail : trail[i] = <<"granted", a>> /\ trail[j] = <<"granted", b>> /\ j < i

\* What find_approval asks of a row by itself.
Standing(r, a) ==
  /\ approvals[a].there /\ ~approvals[a].revoked /\ ~approvals[a].expired
  /\ Covers(approvals[a].scope, asked[r])

\* Every write goes to the directory the worker watches.
Written == inbox' = TRUE

GrantApproval(a, s) ==
  /\ ~approvals[a].there
  /\ approvals' = [approvals EXCEPT ![a].there = TRUE, ![a].scope = s]
  /\ trail' = Append(trail, <<"granted", a>>)
  /\ Written
  /\ UNCHANGED <<scopes, task, usedBy, runner>>

RevokeApproval(a) ==
  /\ approvals[a].there /\ ~approvals[a].revoked
  /\ approvals' = [approvals EXCEPT ![a].revoked = TRUE]
  /\ trail' = Append(trail, <<"revoked", a>>)
  /\ Written
  /\ UNCHANGED <<scopes, task, usedBy, runner>>

ExpiryPasses(a) ==
  /\ approvals[a].there /\ ~approvals[a].expired
  /\ approvals' = [approvals EXCEPT ![a].expired = TRUE]
  /\ UNCHANGED <<trail, scopes, task, usedBy, runner, inbox>>

-----------------------------------------------------------------------------
(* run_mission, up to the transition to running.                           *)

Leave(r) ==
  /\ workspace' = workspace \ {r}
  /\ at' = [at EXCEPT ![r] = IF r = Runner THEN "drain" ELSE "done"]

Goto(r, where) == at' = [at EXCEPT ![r] = where] /\ UNCHANGED workspace

\* The workspace lock is not waited for, and the state is read under it.
Enter(r) ==
  /\ at[r] = "enter"
  /\ IF workspace = {} /\ task = "queued"
     THEN workspace' = {r} /\ at' = [at EXCEPT ![r] = "gate"]
     ELSE Leave(r)
  /\ UNCHANGED <<table, gate, scopes, task, rows, found, inbox>>

\* The decision, and find_approval's read of the rows.
ReadRows(r) ==
  /\ at[r] = "gate"
  /\ IF ~Escalates(asked[r])
     THEN Goto(r, "start") /\ UNCHANGED rows
     ELSE /\ Goto(r, "check")
          /\ rows' = [rows EXCEPT ![r] = {a \in Aps : Standing(r, a)}]
  /\ found' = [found EXCEPT ![r] = Nothing]
  /\ UNCHANGED <<table, gate, scopes, task, inbox>>

\* The chain is asked, row by row, on connections of their own: the newest row
\* it does not contradict is the one.  With none, the mission stays queued and
\* an approval-required event is written.
CheckChain(r) ==
  LET good == {a \in rows[r] : ~Chained("revoked", a)} IN
  /\ at[r] = "check"
  /\ rows' = [rows EXCEPT ![r] = {}]
  /\ \/ good = {} /\ Leave(r) /\ Written /\ UNCHANGED found
     \/ \E a \in good :
          /\ \A b \in good \ {a} : Newer(a, b)
          /\ Goto(r, "use") /\ found' = [found EXCEPT ![r] = Approval(a)]
          /\ UNCHANGED inbox
  /\ UNCHANGED <<table, gate, scopes, task>>

\* variant: the row is used as it was found
UseUnread(r) ==
  /\ at[r] = "use"
  /\ trail' = Append(trail, <<"used", found[r].ap>>)
  /\ usedBy' = found[r] /\ Written
  /\ Goto(r, "start")
  /\ UNCHANGED <<table, scopes, task, rows, found>>

\* The one transaction: revoked_at is read again, the use is chained and the
\* mission names its approval; expires_at is read and compared with nothing.
Use(r) ==
  /\ at[r] = "use"
  /\ Written
  /\ IF approvals[found[r].ap].revoked
     THEN Leave(r) /\ UNCHANGED gate
     ELSE /\ trail' = Append(trail, <<"used", found[r].ap>>)
          /\ usedBy' = found[r]
          /\ Goto(r, "start")
  /\ found' = [found EXCEPT ![r] = Nothing]
  /\ UNCHANGED <<table, scopes, task, rows>>

\* The transition to running, the execution and finish_execution.
Start(r) ==
  /\ at[r] = "start" /\ task = "queued"
  /\ task' = "running"
  /\ Written
  /\ UNCHANGED <<table, gate, scopes, runner>>

Finish(r) ==
  /\ at[r] = "start" /\ task = "running"
  /\ task' = "ended"
  /\ Leave(r) /\ Written
  /\ UNCHANGED <<table, gate, scopes, rows, found>>

\* The provider's package is upgraded, under whoever runs.
Upgrade(s) ==
  /\ s # declared
  /\ declared' = s
  /\ UNCHANGED <<table, gate, asked, task, usedBy, runner, inbox>>

\* The command line's run; its process reads the manifests.
Call(r) ==
  /\ r \in Clients /\ at[r] = "idle"
  /\ at' = [at EXCEPT ![r] = "enter"]
  /\ asked' = [asked EXCEPT ![r] = declared]
  /\ UNCHANGED <<table, gate, declared, task, rows, found, workspace, inbox>>

-----------------------------------------------------------------------------
(* The worker.                                                             *)

Scan ==
  /\ at[Runner] = "idle"
  /\ Goto(Runner, IF task = "queued" THEN "enter" ELSE "drain")
  /\ UNCHANGED <<table, gate, scopes, task, rows, found, inbox>>

\* wait(): what accumulated up to now is consumed first, the worker's own
\* writes with it, and whatever else came meanwhile.
DrainInbox ==
  /\ at[Runner] = "drain"
  /\ inbox' = FALSE
  /\ Goto(Runner, "asleep")
  /\ UNCHANGED <<table, gate, scopes, task, rows, found>>

\* variant: the worker sleeps until something is written
SelectForever ==
  /\ at[Runner] = "asleep" /\ inbox
  /\ inbox' = FALSE
  /\ Goto(Runner, "idle")
  /\ UNCHANGED <<table, gate, scopes, task, rows, found>>

\* select(): an event, or the fallback of WAKE_FALLBACK_SECONDS.
Select30 ==
  /\ at[Runner] = "asleep"
  /\ inbox' = FALSE
  /\ Goto(Runner, "idle")
  /\ UNCHANGED <<table, gate, scopes, task, rows, found>>

-----------------------------------------------------------------------------
RunStep(r) ==
  Enter(r) \/ ReadRows(r) \/ CheckChain(r) \/ Use(r) \/ Start(r) \/ Finish(r)

WorkerLoop == Scan \/ DrainInbox \/ Select30 \/ RunStep(Runner)

ApNext ==
  \/ \E a \in Aps : RevokeApproval(a) \/ ExpiryPasses(a)
  \/ \E a \in Aps, s \in Scopes : GrantApproval(a, s)
  \/ \E s \in Scopes : Upgrade(s)
  \/ \E r \in Clients : Call(r) \/ RunStep(r)
  \/ WorkerLoop

\* The worker is a service that runs; a command-line run that has begun goes
\* on.  Nobody is obliged to grant or to revoke.
ApFairness ==
  WF_apVars(WorkerLoop) /\ WF_apVars(\E r \in Clients : RunStep(r))

ApSpec == ApInit /\ [][ApNext]_apVars /\ ApFairness

-----------------------------------------------------------------------------
\* In the order of the audit chain no approval is used after it was revoked,
\* however the revocation races the gate (sf_missions.py:1521-1524, :4368).
UsedWhileStanding ==
  \A i, j \in DOMAIN trail :
    trail[i][1] = "revoked" /\ trail[j] = <<"used", trail[i][2]>> => j < i

\* What runs is what was approved: a runner that needs a person for what the
\* manifest it has read declares runs the mission under an approval that covers
\* all of that, whatever another runner, with another manifest, has found.
WhatRunsWasApproved ==
  \A r \in Runners : task = "running" /\ at[r] = "start" /\ Escalates(asked[r]) =>
    /\ usedBy # Nothing
    /\ LET s == approvals[usedBy.ap].scope IN
       /\ asked[r].network <= s.network /\ asked[r].credentials \subseteq s.credentials
       /\ asked[r].hosts \subseteq s.hosts \/ Everywhere \in s.hosts

\* A queued mission whose approval stands, for the worker, is started, also when
\* the wake-up for the approval was one the worker threw away with its own.
ApprovedMissionRuns ==
  task = "queued" /\ (\E a \in Aps : Standing(Runner, a))
    ~> task # "queued" \/ \A a \in Aps : ~Standing(Runner, a)
=============================================================================
