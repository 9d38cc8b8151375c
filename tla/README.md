# TLA+ verification of Shadowfetch Linux

This directory models the parts of Shadowfetch Linux that have a protocol in TLA+, checks them with
TLC on small instances and proves theorems about them with TLAPS. The core is Mission Control,
the queue of supervised agent runs, and the checkpoint engine, which gives those runs their Undo.
Around it are the services of a mission (credential broker, approvals, the provider's turn, the sandbox
session, the blast radius) and those of the machine (restore of a snapshot, updates, Ember Mode, the
audit trail, the log of the MCP servers).

Short names used below, all under `src/packages/`:

- `sf_missions.py`: `shadowfetch-missions/data/usr/lib/shadowfetch/missions/sf_missions.py`
- `sf_mcp.py`: `shadowfetch-fireline/data/usr/lib/shadowfetch/mcp/sf_mcp.py`
- `shadowfetch-firebreak`: in `shadowfetch-fireline/data/usr/bin/`
- `sf_audit.py`, `sf_blast.py`, `sf_broker.py`, `sf_policy.py`, `sf_provider_localmodel.py`: beside `sf_missions.py`
- `phoenix-restore`, `phoenix-recover`: in `shadowfetch-phoenix/usr/libexec/`; `transaction.py`, `gc.py`,
  `journal.py`: in its `usr/lib/shadowfetch/phoenix/`
- `fireproofd`, `fireproof-postboot`: in `shadowfetch-fireproof/data/usr/libexec/`; `snapshots.py`: in its
  `usr/lib/shadowfetch/sfupdate/`; `bundle-install`: `shadowfetch-bundle-install` of `shadowfetch-welcome`
- `emberd`, `ember-restore`: in `shadowfetch-ember/usr/libexec/`

## 1. Inventory

### Parts with a protocol

**Mission engine** (`sf_missions.py`: `Store`, `Executor`, `run_mission`, `review`, `worker`).

- State: one SQLite database (missions with `state`, `attempt`, `cancel_requested`, `checkpoint`;
  tasks, sessions, reviews, artifacts, approvals, audit events), a directory per mission with
  its output and its `after-index.json`, two levels of `flock` (`execution.lock`, shared or
  exclusive, and one file per workspace), the workspace itself.
- Operations: create, run, cancel, retry, review (accept, undo), recover and reconcile, and
  the worker's startup and queue loop.
- Callers: the systemd worker and any number of command-line processes (the Control Center
  calls the command line). They share nothing but the database, the locks and the files.
- Hard: every verb is several transactions; reads are used after other processes have run; any
  process may be killed; recovery must tell the dead from the living.
- Correct when: no two processes work in one workspace; nobody's live mission is recovered; a
  workspace has at most one unreviewed result; the retry budget cannot be exceeded; Undo takes
  away one mission's work and no newer edit; a crash leaves no row that stays `running`.

**Checkpoint engine** (`sf_mcp.py`: `_CkptLock` .. `CheckpointEngine`).

- State, per workspace: the directory, its staging and displaced siblings, the store of
  checkpoints (metadata, manifest, archive), `undo.journal`, `undo.entries.json`, a lock file.
- Operations: snapshot, list, diff, verify, undo, prune, recover.
- Callers: Mission Control (before a run, and for Undo), Firebreak, the MCP server, the
  `shadowfetch-checkpoint` command.
- Hard: undo is a sequence of renames and writes that a crash may cut anywhere; people edit the
  workspace the whole time; retention deletes checkpoints; `recover` decides from what it sees.
- Correct when: an undo is all or nothing; what it takes away can be restored; retention never
  drops what an undo needs; only the recorded tree is put in place; recovery tells the truth.

**Audit chain and mirror** (`sf_audit.py`; `_append`, `verify_chain`, `verify_states` of `sf_missions.py`).

- State: hash-chained rows in the database, a line per row in the system journal, a bookmark of the last
  failure beside the database.
- Hard: a row is committed with the record it is about, and mirrored afterwards by a process that may die
  first; the verifier reads the chain, the journal and the tables one after the other.
- Correct when: damage to the database is reported; an honest history is not accused.

**Approvals and policy** (`grant_approval`, `revoke_approval`, `require_approval` of `sf_missions.py`,
`approval_covers` of `sf_policy.py`, the worker's wake-up).

- State: the approval rows (decision, revocation, expiry, scope), the mission's run gate, the wake-up socket.
- Hard: expiry and revocation race the use; the scope that a run asks for is computed again at the run, from the
  manifest that its process has read, which an upgrade makes another than that of the worker; a wake-up may be drained before the mission it was sent for is queued.
- Correct when: what runs was approved, an approval standing at its use; an approved mission is run.

**Credential broker** (`sf_broker.py`).

- State: grants with a count of values issued, two bounded queues, decision slots, a socket per session.
- Hard: three kinds of thread, one lock, deadlines, full queues, revocation and close at any time; brokers
  of several missions in one directory, which sweep each other's dead sockets.
- Correct when: a value is given out at most as often as was granted, each time with a record; every caller
  gets an answer or a closed connection; a live endpoint is left alone.
- "NOT WIRED YET" (`sf_broker.py:164`): no shipped manifest asks for this delivery, so that what is checked here
  is the package and its tests, not yet a part of a mission's run.

**Provider turn** (`sf_provider_localmodel.py`, `local-model-bridge`, `shadowfetch-firebreak`, `run_process`).

- State: the event stream in a pipe, the session history, two records of the sandbox, the log kept of it.
- Hard: four processes, and the pipe may be cut at any piece by limits, signals or a crash.
- Correct when: what counts as a complete turn is one that its source ended, with all its tokens.

**Sandbox session** (`shadowfetch-firebreak`).

- State: the launcher, the tree it spawned, slirp4netns; a scratch directory with a pid file and a FIFO; the
  session's file of records.
- Hard: three processes that hand over by files and pipes; each may die and the launcher be told to stop
  anywhere, also while it stops; the disk may be full.
- Correct when: no payload starts without the NAT, allowlist, checkpoint and record that were asked for; an
  ended session leaves nothing running.

**Blast radius** (`sf_blast.py`).

- State: none; a traversal's readings, which may be incomplete, and the levels derived from them.
- Hard: what was not read must not pass for what is not there, and what was read and is harmless must not alarm.
- Correct when: an axis called contained is contained, and a contained mission is called so.

**MCP audit log** (`Server.call`, `AuditLog`, `verify_audit` of `sf_mcp.py`).

- State: one chained file that every server process appends to under a lock.
- Hard: servers die, rows are torn by a full disk or a power cut, the chain's head is read from the tail.
- Correct when: whatever changed something is on the disk as a request; honest writing verifies.

**Phoenix restore** (`phoenix-restore`, `phoenix-recover`, `transaction.py`, `gc.py`).

- State: the subvolumes `@`, `@new`, `@_prev_*`, an external `/boot` with archives of kernels, a journal.
- Hard: power cuts between any two steps; the next boot decides by the journal and a flag in the subvolume.
- Correct when: the previous root is never lost; the root that boots has its kernels.

**Fireproof updates** (`fireproofd`, `snapshots.py`, `fireproof-postboot`, `bundle-install`).

- State: the update record, the flag for the next boot, snapshots of apt runs, what was reviewed.
- Hard: other apt runs and the bundle installer write the same record and take snapshots; snapper may fail to list
  them; the worker waits for locks it does not own; the daemon is stopped while it works.
- Correct when: what is committed is what the person reviewed; the way back is the update's own snapshot;
  every update ends.

**Ember Mode** (`emberd`, `ember-restore`, the unit file).

- State: governors, stopped services and a slice weight that were changed; the files that say what to undo.
- Hard: the daemon or the restore may be killed between any two changes.
- Correct when: whatever was changed is on record until it is put back.

### Parts without a protocol, or outside this development

Redaction, the adapters of other providers, the other MCP tools, Firewatch, the hardware
scan, Control Center, the welcome wizard, the desktop scripts, vendored code, themes and release tools: pure
functions, one-shot scripts, views or I/O. `PROJECT.json` lists each with the reason why it is not modelled.

### How the parts interact

```
 Control Center / CLI ---verbs---> Store (SQLite, flocks) <---queue--- worker
                                     |  run_mission, review
                                     v
                     Executor ---- snapshot / undo ----> CheckpointEngine
                        |                                   |  renames, journal
                        v                                   v
                     Firebreak sandbox ----writes----> workspace <---edits--- person
                        |     |
        event stream <--+     +--> credential broker (ticket of a grant -> value)

 Store --after the commit--> journal <--compared-- verify
 require_approval <--- approvals <--- person (grant, revoke), clock (expiry)

 fireproofd --apt--> snapshots --> phoenix-restore --reboot--> phoenix-recover, fireproof-postboot
```

## 2. Modules

| Module | What it is | Code |
| --- | --- | --- |
| `MissionLifecycle` | abstract: which edges a mission's state takes, budget, review gate | transition table, `attempts_taken`, `requeue_refusal` |
| `MissionEngine` | detailed: processes between one transaction or file operation and the next | `Store`, `Executor`, `run_mission`, `review`, `worker` |
| `WorkspaceRestore` | abstract: edit, save, drop, restore of whole trees | what `snapshot` and `undo` promise |
| `CheckpointEngine` | detailed: file-system steps, lock, journal, crash, failure | `_CkptLock`, `_ckpt_*`, `CheckpointEngine` |
| `AuditMirror` | append, mirror, damage, verify | `_append`, `verify_chain`, `verify_states`, `sf_audit.py` |
| `ApprovalGate` | approvals, the run's two readings of them, the worker's wake-ups | approvals of `sf_missions.py`, `approval_covers` |
| `CredentialBroker` | grants, queues, slots, deadlines, decisions | `CredentialBroker` of `sf_broker.py` |
| `BrokerEndpoints` | sockets of several brokers in one directory | `_listen`, `_sweep_stale_endpoints`, `_drop_listener` |
| `ProviderTurn` | one turn: bridge, Firebreak, `run_process`, parser | the four files named above |
| `FirebreakSession` | launcher, namespace helper, NAT, records, signals | `run`, `_run`, `EGRESS_HELPER` of `shadowfetch-firebreak` |
| `BlastRadius` | the classifier, over worlds with hidden parts | `classify` and the `_*_findings` of `sf_blast.py` |
| `PhoenixRestore` | restore, power cut, recovery, garbage collection | `phoenix-restore`, `transaction.py`, `gc.py`, `journal.py` |
| `UpdateRecord` | update, bundle, other apt runs, post-boot check | `fireproofd`, `snapshots.py`, `bundle-install`, `fireproof-postboot` |
| `EmberMode` | arm, change, disarm, kill, restore | `emberd`, `ember-restore`, the unit |
| `McpAudit` | a tool call, the log, kill, full disk, power cut, verification | `Server.call`, `AuditLog`, `verify_audit` |
| `MCMissionLifecycle`, `MCMissionEngine`, `MCCheckpointEngine` | instances for TLC | |
| `MCMissionServices`, `MCHostServices` | compositions of the last eleven, see the end of this section | |
| `MissionLifecycle_proofs`, `MissionEngine_proofs`, `CheckpointEngine_proofs` | theorems about the core | |
| `ApprovalGate_proofs`, `CredentialBroker_proofs` | theorems about the module of that name, the second also about `BrokerEndpoints` | |
| `MissionServices_proofs` | theorems about `ProviderTurn`, `BlastRadius`, `FirebreakSession`, and about `MCMissionServices` | |
| `HostServices_proofs` | theorems about `PhoenixRestore`, `UpdateRecord`, `EmberMode`, and about `MCHostServices` | |
| `AuditTrail_proofs` | theorems about `AuditMirror` and `McpAudit` | |

### MissionLifecycle

`state`, `attempt` and `requeues` are the columns and the count of `retry-queued` events. An action is
a committed change of one mission's row: `Create`, `Start`, `Settle`, `CancelQueued`, `Accept`,
`Undo`, `Requeue`. `AttemptsTaken` is, as in the code, the larger of the column and what the log of
events says, because the column is advisory.

### MissionEngine

A process has a program counter; a label is the code between two points where another process can
be seen. The prefixes: `x_` Executor and the end of `run_mission`, `v_` review, `r_` retry, `c_` cancel,
`w_` worker. One SQLite transaction is one action, and so is one checkpoint call, one file write,
one lock. Both levels of lock are modelled: `LockGlobal` takes `execution.lock` shared, `LockWs` the
workspace's file, `WorkerLockAll` the global one exclusively. They do not wait (`LOCK_NB`): a
process that is refused leaves (`LockRefused`).

What a verb reads before a transaction and uses in it is carried in a local: `carry` (the state for
`expect=`), `stale` (`recover`'s list with its `cancel_requested`), `todo` (the worker's list), `snap` (a
recovery id not yet in the database). The content of a workspace is a set of tokens: what each
mission wrote, and each edit, marked by whether a mission was executing at the time. A checkpoint
is the content it restores, an after-index the content it describes. `Crash` puts a process back to
its start without locks or locals. A failure of any kind (a budget, a broken provider, a full
disk) is the nondeterministic `Raise` or a failing outcome. The policy decision is a gate that may
refuse the missions in `Gated`.

### CheckpointEngine

A tree is a number: 0 at first, a new one with each edit; equal numbers are equal trees, which is
what the manifests' digests decide. The actions are named after the operation and the step. The
order is the code's: `Undo` (reap, choose), `UndoStage`, `UndoCheck`, the safety snapshot
(`SnapshotScan`, `SnapshotArchive`, `SnapshotPublish`, `PruneDrop` .. `PruneDone`), `UndoEntries`,
`UndoJournal`, then `UndoExchange` or, without RENAME_EXCHANGE, `UndoMoveAway` and `UndoMoveIn`,
`UndoVerify`, `UndoSweep`, `ClearEntries`, `ClearJournal`. Whether the exchange is supported is a free
choice at each undo. `Crash` may happen between any two of them; `Fail` stands for every exception
(a full disk, Ctrl-C, a refused verification) and does what the `finally` blocks do.

`EditDuring` says when people edit apart from quiet times: while an operation runs, or between a
crash and `recover`. `NameExtends` are the pairs of workspaces of which one name begins with the
other's followed by a dot, since the reaper finds directories by the beginning of their name.

Byte accounting is reduced to a choice (the budget may or may not ask for one drop more, never
below the floor). The deduplicating archive is a choice between the tree and the archive of a
checkpoint with the same manifest.

### The services of a mission

**CredentialBroker.** The actions are those of three kinds of thread. The owner: `OpenGrant`,
`CloseGrant`, `CloseSession`, `CloseBroker` and, after the join, `CloseQueues`. The serving thread, which has a
program counter `loop` and the batch `events` that select returned: `Select`, `Accept` (which evicts
the stalest connection), `Readable` (which promotes or refuses), `Expire`, `Drain`. One decision thread per
slot: `Decide` under the lock, `RecordIssue` and `Reply` outside it. A caller is one connection; a
deadline is a flag, `late`, that passes in the order of arrival. Each refusal by the serving thread writes a row first:
`Told` says whether that succeeds, and `LoopAfter` what becomes of the thread when it does not (`"died"`).

**BrokerEndpoints.** A session's socket goes through `MakeDirectory`, `Bind`, `Listen`, `Drop`; a
broker that starts lists the directory (`BeginSweep`), connects (`Probe`) and removes what refused (`Sweep`),
with other brokers in between. A broker may die at any step and be started again.

**ApprovalGate.** A runner, the worker or a command-line run, goes through `Enter`, `ReadRows` (the
query of `find_approval`), `CheckChain` (its events), `Use` (the transaction that reads the approval again and
writes the "used" event), `Start`, `Finish`. Grant, revocation and the passing of an expiry interleave
with all of them. `declared` is the scope in the provider's manifest on disk, which `Upgrade` changes, and `asked`
what each runner has read of it: the worker at its start, a command-line run at its own. `inbox` is whether inotify has something for the worker: `Scan`, `DrainInbox`, `Select30`.

**ProviderTurn.** The pipe is a sequence of pieces, two to a line, so that a read, a kill or the
bound of the log can fall in the middle of one. The bridge asks, reads tokens, saves the history, ends
the turn; Firebreak records, spawns, waits, records; `run_process` reads, keeps, flushes, kills the tree;
`Flush` keeps the first `MaxMessage` tokens of an answer, as the code its first MAX_MESSAGE_CHARS characters;
`ParseStream` is what the parser makes of the log it kept: `After` is one turn of its loop, and `Reading(pieces)[n]`
what it has made of the first `n` pieces.

**FirebreakSession.** The launcher's steps in the order of `_run`; the helper's (`ReportPid`, `OpenFifo`,
`Released`, `Filter`) and the NAT's go on beside them. A fork and the assignment of what it returns are two steps
(`SpawnTree` and `HoldTree`, `AttachNetwork` and `HoldNat`), because the cleanup knows only what is assigned: `holds`. `Terminate` is SIGTERM: the end of the process before its
handler is there, an exception afterwards, wherever the launcher is, also in the cleanup. `LauncherKilled` is
the end without any cleanup. `Write` is `append_record`: the line, a cut line, or an exception. `cut` is a history
variable: the launcher was stopped where nothing cleans up after it. `SessionIsSafe` is the conjunction of
`PayloadIsFenced` and `NothingIsLeft`.

**BlastRadius.** One step: a `world` is classified. A world says what there is and what the traversal does not
get to; `Findings` is the sum of the code's findings, each kept as its axis and level, and uses only what is in
sight. `Really` says, from the ceiling and the whole world, which of the four questions has an answer that is not
harmless. `ContainedIsTrue` compares the two in both directions; `Overlooked` names the worlds where the code
reassures without having looked, or has misread a remote (`Misread`), see 3.2.

### The services of the machine

**PhoenixRestore.** One action per command of `phoenix-restore` between two journal entries, the EXIT
trap (`Cleanup`, `RollbackKernel`, `RolledBackBoot`), a signal, a power cut or reboot, and the pass at the next
boot: `Inspect` reads everything and decides as `plan_recovery` and `gc.py` do, the `Resume*` and
`Collect*` actions carry it out one file at a time. A subvolume carries the flag written into it before
the exchange. `lived`, `previous` are history variables: the roots that ran, the one last replaced.

**UpdateRecord.** `fireproofd`'s worker goes through the lock, re-validation, download, the NEWS
gate, the commit, the choice of its Point, the record; the bundle installer and any other apt front end
take the same dpkg lock and the same Points. The record exists three times: the file, the copy that the
daemon loaded at its start, and the pending flag for the next boot. A list of Points that snapper does not give
is read as an empty one: `MaxNumbers` are the two answers to "the highest number now". `unread` is a history variable,
the updates whose baseline was such an answer.

**EmberMode.** `emberd` writes a line before each change; `ember-restore` claims the file by a
rename, undoes it line by line and removes it. Both are killed anywhere; systemd runs the restore before the
start and after the stop. The files are on a tmpfs, and so is what they describe: a reboot clears both.

**AuditMirror.** Appending and mirroring are two steps of each writer, and the second may never
come. The database can be put back from a copy, or a row of it rewritten and chained again. The
verifier's four reads are four steps.

**McpAudit.** The file is a sequence of pieces, what one write left of a row; a line is what stands between two
newlines. A call goes through `Call` (the gate), `LockLog`, `Genesis`, `WriteRow`, `SyncRow`, `Handle` and again from
the lock for its outcome. `platter` is how much is on the disk: `PowerLost` keeps that and any prefix, down to
the byte, of the rest. `WriteFails` leaves nothing, a part, or all of a row.

### Why unrelated parts share a run

`MCMissionServices` and `MCHostServices` put six and five of these modules side by side. Their parts share
no state that the modules hold, so that interleaving them would multiply states and show nothing. The
variable `part` says which one a behaviour explores; the others are in one fixed initial state and stay
there, and every invariant of theirs holds in it. The fairness of a module is restated for its part.

## 3. What TLC checks

All bounds are in the `.cfg` files. They were chosen so that the smallest instance of each hazard
occurs; the mutants in `PROJECT.json` show for each property that the run would see the bug.

| Run | Question | Instance |
| --- | --- | --- |
| `lifecycle` | Does no order of retries and cancellations exceed the attempt budget? | 3 missions, 2 workspaces, 2 attempts |
| `engine_boundary` | Do locks, gate and Undo's checks keep one mission's work apart from another's? | 2 missions in one workspace, worker and one CLI, 1 crash, no retry |
| `engine_retry` | Does the engine implement `MissionLifecycle`; do reads stay true? | 1 mission, 2 attempts, worker and 2 CLIs (symmetric), 1 crash |
| `engine_workspaces` | Does recovery in one workspace spare a live mission in another? | 2 missions in 2 workspaces, one of them gated, 1 crash |
| `engine_worker_alone` | Does everything settle after crashes? Liveness. | 2 missions, worker only, 2 crashes, 1 edit |
| `checkpoint_quiet` | Is undo one abstract restore, is all that is deleted saved, is what recovery says so, does retention leave what it needs? | 2 processes, 5 checkpoints, keep 2, 2 crashes, 2 edits while no operation runs, also between a crash and `recover` |
| `checkpoint_edits` | Is the tree put in place the recorded one whatever people do, and who takes away what an undo claims? | 2 workspaces, the name of one the other's, a dot and more; 2 processes (symmetric), 2 checkpoints in each, 2 crashes, 2 edits at any time |
| `mission_services` | Are values, approvals, answers, levels and sandboxes what was granted, approved, said, seen and asked for; are callers answered and approved missions run? Liveness. | 3 callers, queues of 1, 1 slot, 1 value; 2 brokers, 1 death; 2 approvals, worker and one CLI, upgrades between two scopes; 3 tokens, an answer cut at 2, a log of 14 pieces; every world of `Worlds`; one session, told twice to stop |
| `host_services` | Do roots, kernels, updates, Ember Mode and both audit logs survive power cuts, kills, races and damage? Liveness of updates. | 2 restores of 2 Points over 3 kernels, 2 power cuts; 2 transactions, 1 other apt run, 1 stop; 2 arms, 2 kills; 4 rows, 1 damage; 2 MCP servers, 2 calls, 1 failing write, 1 stop |

Why these are enough to be interesting: two missions are what one workspace needs for a boundary to
be crossed; two command-line processes and the worker are three actors in the lock protocol, which
has two levels; one crash in a verb is followed by all that recovery does, and two crashes cover a
crash in recovery. Five checkpoints with a keep of two make retention drop during an undo. Two
neighbours are the least for a reap that crosses a name. Two
processes are enough for the checkpoint engine because its lock is exclusive: a third could only be
a second one waiting.

Three callers overflow queues of one place twice: one is decided, one waits, one makes them evict. Two
restores are the least for a leftover of the first to meet the second, and two power cuts for one of
them to fall into the recovery from the other. The Points differ in kernels from each other and from
the root, so that archives are needed. Two transactions are an update and a bundle, or two updates. A log of 14
pieces holds every whole turn of the instance; see 3.2 for what happens when it does not.

Type correctness of the life cycle and of the checkpoint engine, and the life cycle's review gate, are
theorems (section 5), so that their runs leave them out; the gate is checked on the engine.

In `BlastRadius` sockets, repositories, and grants with masks do not meet in one world, because the code reads
each by a function that looks at nothing of the others; the theorem `LevelsAreTrue` covers the worlds in which they do. A second SIGTERM is the one that arrives in the
cleanup of the first. Two calls of two servers are enough for a genesis race, for an interleaved
request and outcome, and for a row after a torn one.

An edit multiplies the states of the engine by what is left of it to interleave with, so the runs about
locks and states leave it out: nothing in the engine reads the workspace except the after-index and
the comparison before Undo, and `undo_retry_edits` is about those.

`CHECK_DEADLOCK FALSE` stands where a system really may stop: all missions final or out of attempts
and no process left. The checkpoint runs check deadlock.

### 3.1 Runs that show a disagreement

| Run | What the code does | What is said |
| --- | --- | --- |
| `undo_retry_edits` | an edit between a failed attempt and its retry is in the retry's after-index, so Undo overwrites it | "Undo checks for newer edits before restoring" |
| `discard_root` | a first restore is cut after the exchange and before `@new` is parked; the next boot is an overlay session, where no recovery runs, and a second restore requested there is cut at once: the phase now read is from before an exchange, and `@new`, the user's previous root, is deleted | "park it, never delete blind (if the crash was after the exchange, @new IS the previous root)" |
| `endpoint_swept` | a broker that starts connects to a socket that another broker has bound and does not listen on yet, is refused, and unlinks it | "A LIVE endpoint is left strictly alone -- another mission's broker may be running" |

### 3.2 Counterexamples seen that no run keeps

They are behaviours of the same modules. Where a property and constants are named, give the run's
instance these constants and the property; for the others a reader states the invariant in the sentence.

Missions:

- `UndoSparesOtherMissions` fails in `engine_boundary` with `MaxAttempts = 2` and no crash: a mission fails, an older
  one runs and is accepted, the first is retried with its old checkpoint and undone. The cause is
  that of `undo_retry_edits`: a retry keeps the checkpoint of its first attempt.
- `StartupLeavesNoOrphan` fails in `engine_worker_alone` with one CLI: a process that holds `execution.lock` shared
  makes the worker skip its only reconciliation, though it does not reconcile in its stead
  (`sf_missions.py:4863`; docs/MISSION_ORCHESTRATION.md:561 says "that process is already
  reconciling"). The mission is settled when something next runs in its workspace.
- `RecordsSettled` fails in `engine_worker_alone` with one CLI: `run_mission` (`sf_missions.py:4525`) recovers the
  mission row only, `reconcile()` visits only running missions, so the crashed attempt's task row stays
  RUNNING. `sf_missions.py:3409` says a task is "settled on the way out", docs/SESSION_LIFECYCLE.md:385
  "settled later by `reconcile()`".
- `cancel()` that read `running` sets its flag on a mission that failed and was requeued meanwhile
  (`MaxAttempts = 2`, two CLIs); it is then cancelled only after it has been started again.
- A cancellation that commits after `recover()` has listed a mission is recorded as `failed`
  (`sf_missions.py:2917`), where docs/SESSION_LIFECYCLE.md:455 says `cancelled`.

Checkpoints:

- After a completed exchange, a crash and one edit, `recover` (`sf_mcp.py:2079`) reports "the undo did not take effect;
  the workspace is as it was before it was attempted" (2088) and deletes the previous contents. `RolledBackIsTrue` has
  this as its second case, and says that the safety snapshot which the journal names holds them; that the deleted
  trees are copies (its first case alone) fails in `checkpoint_quiet`.
- A crash between the two unlinks of `_ckpt_journal_clear` (`sf_mcp.py:1592`) leaves a journal without
  entries, which `recover` refuses for ever, while everything else asks for `recover` first.
  `sf_mcp.py:2000` and `tests/test_checkpoint_hardening.py:267` say that a kill leaves one coherent state.
- Reaping for `site` (`sf_mcp.py:1507`) removes the claimed restore directory of `site.v3`, which "is left alone while
  a journal claims it" (1467): it asks the journal of `site` only. `ClaimedIsLeftAlone` allows a neighbour of that
  kind (`ByNeighbour`) and nobody else; without it the property fails in `checkpoint_edits`.
- `DeletedIsSaved` and `RolledBackIsTrue` fail in `checkpoint_quiet` with `EditDuring = {"operation"}`: what is written between the safety snapshot and
  the exchange is in the displaced tree only, which undo deletes.
- A checkpoint whose archive is not the manifest's tree, with the same constant: an edit between
  scan and archive. Undo then refuses that checkpoint (`RestoresWhatWasRecorded` still holds).

Services:

- `AnswerIsWhole`, that is `TurnIsReadWhole` without `kept < MaxOutput`: once the output fills the log, the parser reads the head
  and a tail of it, and an answer with a gap counts as complete (`sf_provider_localmodel.py:510`).
- The bridge saves the session history before the event that ends the turn: a turn cancelled or killed in
  between has failed, and is in the history of its retry. An orderly end of the stream without the
  service's own last line counts as a finished one.
- An approval that expires after it was found is used (`sf_missions.py:4385` reads `expires_at` and compares it
  with nothing), and it may be used again by another mission: approvals are not single-use. A
  revocation after the use does not stop the run.
- Two honest writers whose lines reach the journal in the other order make the verifier report a gap; rows
  appended between its reads make it report a truncation or a state written without an event. A mirror
  failure is forgotten at the next success. `AlarmsAreExplained` names these cases.
- An answer longer than MAX_MESSAGE_CHARS (200000, `sf_provider_localmodel.py:137`) is cut there (535), a tenth of what the
  log holds, and nothing says so: the turn is complete. `TurnIsReadWhole` asks for the tokens up to that cut.
- The serving thread of the broker writes the audit row of a refusal before the answer (`sf_broker.py:1676-1691`), and
  nothing in `_serve` (1476-1497) catches what that raises, on a full disk: the thread ends, whoever waits in a queue is
  neither answered nor closed until `close()`, and whoever connects waits in the backlog. `_expire` says that a
  request "is answered rather than left hanging" (1608), and `_handle`, of its own thread, that nothing from a
  caller "may take the thread down" (1657). `CallersAreAnswered` without `Unserved` fails in `mission_services`.
- An audit row that cannot be written after `Decide` spends the grant's issue without an answer.
  A row `credential-issued` may follow the row that closed its grant.
- `PreviousRootKept` fails in `host_services` with `RestoreAgain = TRUE`: a second restore before the reboot makes the retained root
  one that never ran, and garbage collection keeps one.
- A signal during the rollback of a failed `update-grub` (`phoenix-restore:244`) leaves the kernels in the archive
  until the next boot's pass, which moves them back but does not rebuild the menu. A power cut in
  the pass after its record "resume" makes the next one park what it should discard. A Point whose kernel is
  only in an archive is refused the first time and accepted the second (`phoenix-restore:155`, `:319`).
- The daemon's copy of the update record was loaded when it started: it overwrites what the bundle
  installer writes to the file (`fireproofd:804`). A rollback saves its record into the root that is
  being replaced. A power cut while apt commits leaves no record of the update.
- Where `snapper list` fails, is not trusted or takes more than twenty seconds, `max_number` is 0 (`snapshots.py:123`), and the
  daemon (`fireproofd:1057`) takes that for the baseline: if snapper answers again after the commit, `first_pre_after(0)`
  (`fireproofd:1137`) is the oldest "pre" Point of the machine, anybody's, and is recorded and offered as the update's way
  back, when its own hook took none, or even though it did. The bundle installer does the same (`bundle-install:523`).
  `snapshots.py:29` says that such a snapper yields `"unavailable", never a fabricated number`, and 108 that no caller may
  turn the empty list into a Point. `UpdatePointIsItsOwn` names the case (`unread`), and fails without it.
- A remote written `host:path`, without a user, is a network address to git and a relative path to
  `_remote_reachability` (`sf_blast.py:872-883`), which calls it unreachable: with a network, `destructible` is then
  "contained" though a push gets out (`exfiltratable` and `durable` are raised by the network itself). A relative
  remote to a repository inside the workspace can be reached, and is called unreachable on all three axes. `Misread`
  names the two. Of a masked file with another name outside the mounts the code knows only the count (1310)
  and calls it bounded, as if the name were inside: the careful side.
- With the network off, a workspace or a grant that was read only in part leaves `exfiltratable` at "none" and
  `destructible` at "contained", though the rest may hold a socket, or a repository with a remote that can be reached
  (`ContainedIsTrue` without `Overlooked`). `sf_blast.py:58` says that a place that was not looked at "must produce
  UNKNOWN". Repositories past the 64th, and a `.git` file that cannot be parsed, are said on `durable` only; a mask
  that cannot be examined counts as absent.
- A record of a session may be cut: `os.write` may write less than it was given, and `append_record` does not look
  (`shadowfetch-firebreak:358`). The session then runs, though one "that cannot be recorded is not executed" (1673).
- A helper that dies before it opens the FIFO leaves the launcher in its own open of it (1745) until it
  is told to stop; a launcher that gives up before leaves the helper there for ever. A SIGTERM that arrives in the cleanup
  leaves the NAT running, and one in the wait for the tree records "ended" while that may still run.
- The same is so of a SIGTERM between a fork and the assignment of what it returns: of slirp4netns (1381 and 1737), because
  `terminate_nat(None)` returns (1391), though "the NAT dies with the session" (1389); of the tree (1711, 1752), which goes on
  while the session is recorded as cancelled. `NothingIsLeft` names the two windows by what the launcher `holds`.
- A row of the MCP log that lacks only its newline counts as the tail, and the next row is glued to it: one
  line, which `verify_audit` cannot read, holds the request of a call that took effect, and every later call that
  changes something is refused because the tail is not a record.
- A second `emberd` started by hand runs `ember-restore` over the first one's live state before it finds
  the bus name taken.

## 4. Fairness

Three runs have liveness properties. For `engine_worker_alone`, `FairSpec` asks for weak fairness of
each process inside a verb (a process that can take its next step is scheduled) and of the worker's
loop: systemd restarts the worker (`Restart=on-failure` in its unit), and the wake-up has a fallback poll, so
the queue is read again sooner or later. No fairness is assumed of people, crashes, failures or
command-line calls. Weak fairness is enough because locks are never waited for: a step that a lock
refuses is a step (`LockRefused`). `RunsSettle` says that a mission does not stay running, though its
process may die twice; it depends on the worker's reconciliation at startup, and its mutant removes
exactly that.

In `mission_services` the broker's serving thread, its decision threads and the passing of deadlines are
weakly fair (`CbFairness`): they are threads and a clock, and no step of theirs waits for a caller. The serving thread
may die of a row that it cannot write; fairness then asks nothing of it, and `CallersAreAnswered` says that
callers are answered unless it did. Callers owe
nothing: they may connect and say nothing, and `CallersAreAnswered` holds because of the deadlines, which its
mutant takes away. The worker's loop and a command-line run that has begun are weakly fair (`ApFairness`); nobody is
obliged to grant or to revoke. `ApprovedMissionRuns` depends on the fallback of thirty seconds, as its mutant
shows: wake-ups alone do not suffice. In `host_services` the commit worker of `fireproofd` is a thread (`UpFairness`) with a deadline on its wait for the lock
(`fireproofd:1019`) and on the NEWS gate (1105); whoever holds the dpkg lock may keep it for ever. The download (1065)
and the commit (1124) have no deadline: that they end is an assumption about apt and dpkg.

## 5. What is proved

TLAPS checks the theorems below for every value of the constants that the named assumption of the model allows
(`LifecycleAssumption`, `EngineAssumption`, `CheckpointAssumption`, `GateAssumption`, `BrokerAssumption`,
`EndpointsAssumption`, `TurnAssumption`, `FirebreakAssumption`, `PhoenixAssumption`, `UpdateAssumption`, `EmberAssumption`,
`MirrorAssumption`, `McpAssumption`). They give the constants their kinds, and say what the code's own tables
and checks say: a floor of at least two checkpoints, a slot and a place in each queue, a set of cpus that is
finite. All bounds of section 3 are parameters here: a theorem holds for any number of crashes, edits, retries,
processes and callers. The callers of the broker need not even be finitely many. A theorem that needs more has
it in the column "if".

| Theorem | Property | If |
| --- | --- | --- |
| `LifecycleTypeCorrect` | `TypeOK` of `MissionLifecycle`, which no run needs to check | |
| `AttemptBudgetHolds` | `AttemptBudget` | |
| `OneOpenMissionHolds` | `OneOpenMission` of the abstract life cycle | |
| `FinalStaysHolds` | `FinalStays`, which no run checks: it follows the table | |
| `EngineTypeCorrect` | `TypeOK` of `MissionEngine` | |
| `OneProcessPerWorkspaceHolds` | `OneProcessPerWorkspace` | |
| `ReadsStayTrueHolds` | `ReadsStayTrue` | |
| `EngineImplementsLifecycle` | `ImplementsLifecycle`: `MissionEngine` refines `MissionLifecycle` | |
| `EngineOneOpenMission` | `OneOpenMission`, of the engine, through the refinement | |
| `EngineAttemptBudget` | the same of `AttemptBudget` | |
| `EngineFinalStays` | the same of `FinalStays` | |
| `LiveMissionNotRecoveredHolds` | `LiveMissionNotRecovered` | |
| `UndoneMeansRestoredHolds` | `UndoneMeansRestored` | |
| `FirstUndoSparesOthers` | the undo of a mission that was never requeued takes away no work but its own | |
| `RecordsSettledAlone` | `RecordsSettled` | `Clis = {}` |
| `ReconcileLeavesNothingRunning` | after `reconcile`, what is recorded as running is being executed | |
| `StartupLeavesNoOrphanAlone` | `StartupLeavesNoOrphan` | `Clis = {}` |
| `CheckpointTypeCorrect` | `TypeOK` of `CheckpointEngine` | |
| `UndoKeepsItsCheckpointsHolds` | `UndoKeepsItsCheckpoints` | |
| `SafetyOutlivesCrashHolds` | `SafetyOutlivesCrash` | |
| `SnapshotOfSettledOnlyHolds` | `SnapshotOfSettledOnly` | |
| `RestoresWhatWasRecordedHolds` | `RestoresWhatWasRecorded` | |
| `RolledBackIsTrueQuiet` | `RolledBackIsTrue` | `"operation" \notin EditDuring` |
| `DeletedIsSavedQuiet` | `DeletedIsSaved` | the same |
| `ClaimedIsLeftAloneHolds` | `ClaimedIsLeftAlone` | |
| `CheckpointImplementsRestore` | `ImplementsRestore`: `CheckpointEngine` refines `WorkspaceRestore` | the same, and `NameExtends = {}` |
| `UsedWhileStandingHolds` | `UsedWhileStanding` | |
| `WhatRunsWasApprovedHolds` | `WhatRunsWasApproved` | |
| `ApprovalIsUsedOnce` | one runner at a time is inside the gate, and one use of one approval is chained | |
| `ValuesAreAccountedForHolds` | `ValuesAreAccountedFor` | |
| `PlacesKeptHolds` | `PlacesKept` | |
| `SlotsAreReturned` | decision threads and free slots are `MaxSlots` together | |
| `OnlyAnotherSweeps` | a live endpoint that goes without being dropped is taken by another broker's sweep | |
| `LiveEndpointsAreLeftAlone` | a socket that listens, and of which no broker holds an older refusal, is taken by none: what `endpoint_swept` shows needs a probe before the listen | |
| `CompleteIsEnded` | what a turn that counts as complete has done | |
| `TurnIsReadWholeHolds` | `TurnIsReadWhole` | |
| `ContainedIsTrueHolds` | `ContainedIsTrue` | |
| `LevelsAreTrue` | the same of worlds in which sockets, repositories, grants and masks meet | |
| `SessionIsSafeHolds` | `SessionIsSafe` | |
| `BootMatchesRootHolds` | `BootMatchesRoot` | |
| `PreviousRootKeptHolds` | `PreviousRootKept` | `OverlayBoots = FALSE`, `RestoreAgain = FALSE` |
| `DiscardedIsACopyAlone` | `DiscardedIsACopy`, which `discard_root` shows violated otherwise | the same |
| `UpdatePointIsItsOwnHolds` | `UpdatePointIsItsOwn` | |
| `CommitsWhatWasReviewedHolds` | `CommitsWhatWasReviewed` | |
| `AlteredIsRecordedHolds` | `AlteredIsRecorded` | |
| `RestoreIsWhole` | when `ember-restore` ends, nothing stays altered | |
| `DamageIsFoundHolds` | `DamageIsFound` | |
| `AlarmsAreExplainedHolds` | `AlarmsAreExplained` | |
| `LogKeepsUpHolds` | `LogKeepsUp` | |
| `ServicesStayApart`, `PartsStayApart` | a behaviour of a composition is one of each of its parts | |
| `ServicesTypeCorrect`, `HostServicesTypeCorrect` | `TypeOK` of `MCMissionServices` and of `MCHostServices` | |
| `ServicesAreSafe`, `HostServicesAreSafe` | the safety properties of the two runs, on their own `Spec` | |

No hypothesis is there to make a proof pass; each one is what a counterexample asks for. `Clis = {}`: a
command-line process keeps the worker from reconciling, and leaves task rows open (3.2). `"operation" \notin EditDuring`: what
people write while an undo runs, between its safety snapshot and the exchange, is deleted; what they write before and after,
also between a crash and `recover`, is covered. `NameExtends = {}`: a neighbour that reaps what was staged makes the undo fail, or
find nothing to put in place. The two of Phoenix: `discard_root`, and 3.2. These hypotheses hold in the instances of the
passing runs that check the property. `UndoSparesOtherMissions` is not a theorem as it stands: a retry keeps the
checkpoint of its first attempt, and it fails (`undo_retry_edits`, and the first entry of 3.2). The run checks it with one
attempt per mission; what is proved, without a hypothesis, is `FirstUndoSparesOthers`, which says it of each mission that was
never requeued, whatever the others went through.

### The arguments

**MissionLifecycle.** The budget is not inductive: what is, `BudgetInv`, says that a mission was
started at most once more often than it was requeued, not even once more while it is queued, and
that requeues stay below the budget. The one-open-mission boundary is inductive with the types.

**MissionEngine.** Processes read a row, do something else, and act on what they read. `LockHeld` says who holds which
of the two flocks at which label and `VerbOfLabel` which verb a label belongs to. From these follows the lemma
`UnderWsLock`, on which the rest depends: while a process has a workspace, all that another process can do to a
mission of it is to cancel a queued one. So what a process read stays so (`ReadsStayTrue`), what it
carries is what its next transaction compares with (`CarryOfLabel`), recovery's list names missions of its
scope (`Listed`), and behind the gate the workspace has no open mission but the process's own (`NothingElseOpen`). Their
conjunction with the types and `TaskIsOpen` is `IInv`. The refinement (`EngineImplementsLifecycle`) has one
step per action: a transaction that moves a row maps to the life cycle's edge of that name, where `NothingElseOpen` gives the
guard of `Start` and `ReadsStayTrue` those of the others; all else stutters. Through it the engine has what the life
cycle has: one open mission, the attempt budget (`WithinBudget` is `BudgetInv` again) and the final states. `UndoInv` adds the files: what a process in
`review` has restored and not yet recorded (`RestoredOf`), and that the checkpoint and the after-index of a
mission that was never requeued differ in its own work only (`FirstRunOf`). `TasksAlone` and `ReconcileListsAll` are for
the two theorems about the worker's startup.

**CheckpointEngine, whoever edits when.** None of the first four properties is inductive. `IInv` adds, with the types:

1. `LockHeld`: a process in an operation is the only holder of its workspace's lock. From it follows
   lemma `Alone`: what others do, they do in other workspaces.
2. `LabelOfOp`: which operation a label belongs to. The same snapshot code runs in `snapshot` and `undo`.
3. `SettledBefore`: until its journal is written, the workspace of an undo or snapshot has none. That is
   why a check of the journal that is done before several steps is still good after them.
4. `Present`: the workspace has a directory except in the two-rename window.
5. `IdsTaken`: ids grow, so that "newest" means something.
6. `TargetKept`, `SafetyKept`: the checkpoints an undo needs are in the store, the safety snapshot being
   the newest; `JournalNamesNewest`: after a crash it still is, because nobody can take a checkpoint
   until the undo is settled and `prune`, which may run, protects the newest one. This is the
   argument for `SafetyOutlivesCrash`, and the reason why `prune` protects just that one.
7. `StagedVerified`, `GoneIsStaged`: what is staged after the check is the manifest's tree or gone (a
   neighbour may have reaped it), so that what `recover` finds for a missing directory is described
   by the entries on disk.

Each conjunct has a lemma that every step of anybody preserves it; `IInvStep` puts them together. TLC
has checked `IInv` as an invariant of both passing checkpoint runs before it was proved.

`ClaimedIsLeftAloneHolds` needs little more: what a process in an operation takes away is of its own workspace, or is
debris, and the debris of an unsettled workspace is seen by a reap of a shorter name only (`ReapOfSettled`).

**CheckpointEngine, with nobody in the middle.** `QuietInv` is what `"operation" \notin EditDuring` adds. An archive is its manifest's tree
(`TakenWhole`), the safety snapshot is the tree that the undo replaces (`SafetyIsTheTree`), and a settled
workspace has beside it at most a copy of a checkpoint in the store (`AtRest`), because whoever may drop that
checkpoint reaps the copy first (`ReapedFirst`). `Unfinished` is the heart of it: wherever an undo was
cut, the workspace, the staging directory and the displaced one hold the old tree and the new one in one of the four
ways of `Halfway`, whatever was renamed or swept, and the old tree is the archive that the journal names. The fourth way
is an edited workspace: `EditedSince` stays true of it, because trees are numbered as they come (`Seen`, `SoFar`), and the other
two directories hold what they held. So what `recover` deletes is the one tree or the other, and both are kept.

For the refinement, `NameExtends = {}` gives `StagedStays`: nobody but the undo itself reaps what it staged, so
that its exchange does put the manifest's tree in place. An undo is the abstract `Restore` in the one step that puts its tree in place: the exchange, or the first of the two
renames, because the refinement mapping takes a workspace without a directory for what is staged beside it. A
published checkpoint is `Save`, one that retention drops is `Drop`, all else stutters.

**ApprovalGate.** `Use` reads `revoked_at` in the transaction that writes the event, and an approval whose
revocation is in the chain has `revoked_at` set: so in the chain's order none is used after it was revoked, though
`ReadRows` and `CheckChain` have read older states. `LockInv` is about the workspace lock: whoever is inside the gate
holds it alone and looks at a mission that is still
queued (`LockHeld`), and a use is in the chain only of a mission that starts or has started (`UsedIsStarting`). So
there is one. A row that covers what a runner has read goes on covering it (`FitsStays`), and the approval that the mission
names at a runner's start is the one this runner used, because no other, with another manifest, is past the lock
(`UsedFits`): so the two invariants need each other.

**CredentialBroker.** An issue is counted in the step that decides, under the lock. `CbInv` says that the callers that
hold a value of a grant, or will be handed one, are not more than its issues, and that rows precede answers. All the
steps that only move connections between the queues share one lemma (`Quiet`): nobody new has a value. `PlacesKept` is
an action property and needs the queues' types only. `QueueInv` is about the slots: one is taken only for the head of
the ready queue, which holds every connection once and only such as have no thread yet (`ReadyOnce`), so that the
threads that run and the free slots are `MaxSlots` together (`SlotsCounted`).

**BrokerEndpoints.** A broker makes sessions only after its own sweep, and one that has swept sweeps no more
(`SweptFirst`): so what it takes is never its own. A refusal is of a socket that does not listen, so that once
one listens, and the refusals of before are used up, nobody takes it (`Secure`).

**ProviderTurn.** `PtInv` says that the bridge's exit is "ok" only behind its last event (`EndedWell`), that the loop of
`run_process` ends when nobody is left to write and the pipe is empty (`ReadOut`), and that the verdict is from the log
of that moment (`Judged`). `WholeInv` adds what is in the pipe, piece by piece: the lines of the start, two pieces for
each token that was sent (`Generated`), the end (`Concluded`), and what may come after it (`Reported`); and that the log, until it is
full, is what was read of the pipe without what the redactor holds back. `Reading` makes the parser a function of the number of
pieces it has read, defined step by step; a step of the loop is a lemma (`HalfALine`, `AWholeLine`), and `Stepwise`, that a set
of numbers which contains 0 and with each number the next is all of them, takes the place of an induction. So a
turn that was told reads as complete with its tokens in order, up to the cut of `Flush` (`ToldIsComplete`), and one that was not does not.

**BlastRadius.** There is no state to speak of. A lemma for each thing that a world may hold says that, unread, it
raises "not read" on its axis, and read, it raises its finding; the theorem is their conjunction over the four axes, for
`Worlds` and for the larger `AllWorlds`, which is too many for a run.

**FirebreakSession.** `FbInv` says for each stage of the launcher, and separately for each of the tree, what has
happened before. The tree outlives the launcher: what proves the fence to it is that its FIFO was opened for
writing, which only a launcher with an attached NAT does, whoever of the two is still alive. What the cleanup stops is what
the launcher holds: `holds` grows only after the fork, and a launcher that ends without it was told to stop before.

**PhoenixRestore.** `PhInv` gives `BootMatchesRoot`: at most one run has an archive of kernels (`OneDirectory`), every kernel is in `/boot` or
archived (`NoneIsLost`), and the pass at the next boot plans to bring back just what `/boot` lacks (`PlanFits`). `RootsInv` gives
the other two: between the exchange and the rename the replaced root is in `@new`, and neither the flag nor the journal
tells `phoenix-recover` to discard it (`Swapped`); otherwise it is retained under a name that no later step
gives again (`Settled`).

**UpdateRecord.** From its re-validation to its record the worker holds the lock (`Secured`), so that nobody
else's Points lie behind the mark it took, if it could read one (`WorkersOwned`), and a record that names a
transaction names a Point of it (`RecordsOwned`). Behind a mark that it could not read lies the first Point of all.

**EmberMode.** `emberd` and `ember-restore` share two files and systemd never runs both (`Apart`). A line precedes each
change (`RecordedAhead`); what the restore has not undone is still in its list (`UndoneFirst`). The second file is what a
killed restore leaves, and the first thing that the next one takes up.

**AuditMirror.** While nothing was damaged or lost, the lines in the journal and those on their way to it are prefixes of the
chain, one for each row, and the tables say what the chain says (`Witnessed`). The verifier reads one
after the other (`ReadInOrder`): it has read the chain, or can see that it was overtaken (`ReadWhole`).

**McpAudit.** A row links to the piece before it, whoever wrote that and whatever was left of it (`Linked`); a server behind its
gate has its request on the platter (`Intent`), and so does every effect (`EffectsRequested`).

**The types.** For each module around the core the type invariant that its run checks is a theorem of its own
specification. Mostly it follows from the inductive invariant of the safety proof. Where it is bounded by more than
that, it has an invariant beside it: no transaction, Point, call or row has a number that was not given yet
(`Numbered` of `UpdateRecord`, `CallsNumbered` and `RowsNumbered` of `McpAudit`), and the free slots of the broker are
what the running threads leave.

**The compositions.** An action of `MCMissionServices` or `MCHostServices` is an action of one part and leaves the variables
of all others alone, and a part that is not explored stands in an initial state of its own. So a behaviour of the
composition is one of each part (`ServicesStayApart`, `PartsStayApart`), and every theorem of a part that does not
depend on fairness, which is all of them, holds beside the others. `ServicesAreSafe` and `HostServicesAreSafe` say so
of the properties that the two runs check. `PreviousRootKept` is not in the second, because it has hypotheses.

### What is only model-checked

- Liveness (`RunsSettle`, `CallersAreAnswered`, `ApprovedMissionRuns`, `UpdatesFinish`): fairness is beyond the
  prover.
- `UndoSparesOtherMissions`, but for missions that were never requeued (`FirstUndoSparesOthers`).

Every other safety property of the passing runs is a theorem, though some of them under the hypotheses in the column "if",
which are those of their runs. The runs still say what the theorems do not: that the interesting cases happen, and,
by the mutants, that the properties depend on the code.

## 6. Not modelled

- Of the mission engine: sessions, reviews, artifacts and the signal handler. `WorkerList` may run at any
  time, which is more than the wake-up of `ApprovalGate` gives.
- Of the checkpoint engine: `list`, `diff` and `verify` change nothing; the debris of a store (`.part`
  files, manifests without metadata); torn writes of single files, which the code rules out by
  write, fsync and rename; a lock wait that times out, which changes nothing.
- An edit in the middle of a scan or an archive: one edit is one step, and a scan sees one tree.
- Mission and checkpoint engine are not composed: for `MissionEngine` a checkpoint call is one step. The
  composition of a mission's life with retention is a hazard without a property.
- Of the broker: the wire format, the descriptions of grants, the text of the rows and the counting of bursts. Of
  the approvals: more than one mission, retries, the wording of requests; of what an approval is compared by, the
  scope is kept, while capability, provider, workspace and paths are taken to match. Of a provider's turn: the adapters of
  Codex and Claude, whose streams differ in shape, and what the sandbox confines.
- Of a sandbox session: the argv and what the kernel makes of it, `enforcement()`, grants and credentials. Of the
  blast radius: which git keys and test commands are dangerous is a property of a world, not computed. Of the MCP
  servers: the JSON-RPC framing, the tools, and the anchor in the journal, which never gates a call.
- Of Phoenix: two concurrent `phoenix-restore` (nothing in the code excludes them), a `/boot` inside `@`, sets of
  kernel files that are incomplete, the creation of snapshots; collecting the kernels is one step, while the code
  moves and unlinks file by file. Of Fireproof: the reports and the client; a Point is never deleted, and a
  change set is what the lists and the installed set make of it, while its hash covers the versions that would
  change (`fireproofd:322`): a package that changes without changing those is not seen, and need not be. Of
  Ember: two concurrent `ember-restore`, the profile marker, a failing undo. Of the audit trail: the rotation of the
  journal, and the text of the reports.

## 7. Plan

Done: the core (both state machines and their abstractions), the eleven modules around it, and the theorems of
section 5. What is left, in the order of what it would add:

1. Records of a mission in `MissionEngine`: reviews and sessions, for the crash between a state change and
   `decide_review`.
2. Composition of missions and retention: does the checkpoint of a mission that may still be undone
   outlive twelve later snapshots?
3. The views: Control Center's pages, which act on answers that may be stale, and Firewatch's caches.
4. Proofs: `UndoSparesOtherMissions` of missions that were retried, restricted to those between whose attempts no
   other ran; `PreviousRootKept` with a second restore, restricted to roots that ran.
