---------------------------- MODULE UpdateRecord ----------------------------
(***************************************************************************)
(* What the machine knows of its last package transaction.  fireproofd     *)
(* commits updates, shadowfetch-bundle-install installs bundles, any other *)
(* apt front end may run between them; dpkg's frontend lock serialises the *)
(* three, and snapper's apt hook takes a "pre" Point per dpkg run.  Each   *)
(* program finds its Point as the first one above a baseline, and records  *)
(* it: in fireproof-pending until the next good boot, and in the state     *)
(* file, of which the daemon keeps a copy that it loaded when it started.  *)
(* Any reading of snapper's list may fail or run out of time: the rows are *)
(* then none, the highest number 0, and there is no first Point.           *)
(*                                                                         *)
(* A Point is its number, the place in points; 0 is "no Point".  What is   *)
(* offered as an update is a pair: the package lists and what is installed.*)
(* Updates are numbered from 1, bundle installs from MaxTxns + 1.          *)
(***************************************************************************)
EXTENDS Integers, Sequences

CONSTANTS MaxTxns,      \* bound on the updates and bundle installs
          Bundles,      \* TRUE: bundles are installed too
          MaxOthers,    \* bound on other apt runs and on list refreshes
          MaxPre,       \* bound on the dpkg runs of one transaction
          MaxStops      \* bound on stops of the daemon and on reboots

ASSUME UpdateAssumption ==
    /\ MaxTxns \in Nat /\ MaxOthers \in Nat /\ MaxPre \in Nat /\ MaxStops \in Nat
    /\ Bundles \in BOOLEAN

VARIABLES
    points,              \* per Point: whose it is, and the record inside it
    lists, base,         \* versions of the package lists, of what is installed
    unread,              \* history: the updates whose baseline could not be read
    dlock,               \* who holds dpkg's frontend lock
    file, cached, pending,                       \* the three records
    wpc, wtxn, whash, wbase, wpoint, wok,        \* fireproofd's commit worker
    decision, cancel, quitting,                  \* what D-Bus calls and SIGTERM left
    bpc, btxn, bbase,                            \* shadowfetch-bundle-install
    ppc, rpc, target,                            \* fireproof-postboot, a rollback
    txns, others, stops                          \* counters
upVars == <<points, lists, base, unread, dlock, file, cached, pending,
            wpc, wtxn, whash, wbase, wpoint, wok, decision, cancel, quitting,
            bpc, btxn, bbase, ppc, rpc, target, txns, others, stops>>
system == <<points, lists, base, unread>>
recordFiles == <<file, cached, pending>>
worker == <<wpc, wtxn, whash, wbase, wpoint, wok>>
calls == <<decision, cancel, quitting>>
bundle == <<bpc, btxn, bbase>>
clients == <<ppc, rpc, target>>
counters == <<txns, others, stops>>

Nothing == [txn |-> 0, point |-> 0]
Txn(t, p) == [txn |-> t, point |-> p]

\* rollback_target: the Point of the pending update if there is one, and
\* always the transaction of the record.
RollbackTarget ==
    Txn(cached.last.txn, IF pending.point # 0 THEN pending.point ELSE cached.last.point)

\* variant: a Point with the baseline's own number counts
FirstPreAfterInclusive(n) ==
    IF n # 0 THEN n ELSE IF Len(points) > 0 THEN 1 ELSE 0
\* variant: the number that the next Point will get, when there is none yet
FirstPreAfterGuessed(n) == n + 1
\* Of a list that was read: every Point here is a "pre".
FirstPreAfter(n) == IF Len(points) > n THEN n + 1 ELSE 0
\* max_number: the rows are none when snapper fails, and the highest is then 0.
MaxNumbers == {Len(points), 0}

\* snapper's hook: no Point when it is disabled or fails, one per dpkg run.
TakePoints(t) ==
    \E n \in 0..MaxPre :
      /\ points' = points \o [i \in 1..n |-> [owner |-> t, file |-> file, pending |-> pending]]

UpInit ==
    /\ points = <<>> /\ lists = 0 /\ base = 0 /\ unread = {} /\ dlock = "free"
    /\ file = [last |-> Nothing, failed |-> {}] /\ cached = file /\ pending = Nothing
    /\ wpc = "idle" /\ wtxn = 0 /\ whash = <<0, 0>> /\ wbase = 0 /\ wpoint = 0 /\ wok = TRUE
    /\ decision = "none" /\ cancel = FALSE /\ quitting = FALSE
    /\ bpc = "idle" /\ btxn = 0 /\ bbase = 0
    /\ ppc = "idle" /\ rpc = "idle" /\ target = Nothing
    /\ txns = 0 /\ others = 0 /\ stops = 0

(***************************************************************************)
(* fireproofd: Update and its commit worker                                *)
(***************************************************************************)
Update ==
    /\ wpc = "idle" /\ txns < MaxTxns
    /\ txns' = txns + 1 /\ wtxn' = txns + 1
    /\ whash' = <<lists, base>>
    /\ decision' = "none" /\ cancel' = FALSE
    /\ wpc' = "locking"
    /\ UNCHANGED <<system, dlock, recordFiles, wbase, wpoint, wok, quitting, bundle,
                   clients, others, stops>>

\* ProceedCommit, AbortCommit and CancelDownload are accepted in every phase, and
\* remembered: only what comes before the gate can matter to it.
Steer ==
    /\ \/ decision' \in {"yes", "no"} /\ UNCHANGED cancel
       \/ cancel' = TRUE /\ UNCHANGED decision
    /\ wpc \in {"locking", "revalidating", "downloading", "news"}
    /\ UNCHANGED <<system, dlock, recordFiles, worker, quitting, bundle, clients, counters>>

WorkerMoves(from, to) ==
    /\ wpc = from /\ wpc' = to
    /\ UNCHANGED <<lists, calls, bundle, clients, counters>>
WorkerStep(from, to) == WorkerMoves(from, to) /\ UNCHANGED unread

LockTaken ==
    /\ WorkerStep("locking", "revalidating")
    /\ dlock = "free" /\ dlock' = "update"
    /\ UNCHANGED <<points, base, recordFiles, wtxn, whash, wbase, wpoint, wok>>

\* variant: the wait for the lock has no deadline
LockTimeoutNever == FALSE
LockTimeout ==
    /\ WorkerStep("locking", "finish")
    /\ dlock # "free"
    /\ UNCHANGED <<points, base, dlock, recordFiles, wtxn, whash, wbase, wpoint, wok>>

\* variant: only the package lists are compared
DriftedLists == whash[1] # lists
Drifted == whash # <<lists, base>>

\* The change set is computed again under the lock, then the baseline is read.
Revalidate ==
    /\ \/ WorkerStep("revalidating", "finish") /\ Drifted /\ UNCHANGED wbase
       \/ /\ WorkerMoves("revalidating", "downloading") /\ ~Drifted
          /\ wbase' \in MaxNumbers
          /\ unread' = IF wbase' = Len(points) THEN unread ELSE unread \cup {wtxn}
    /\ UNCHANGED <<points, base, dlock, recordFiles, wtxn, whash, wpoint, wok>>

\* A download is cancelled, fails, or succeeds; NEWS may then ask for a decision.
Download ==
    /\ \/ WorkerStep("downloading", "finish")
       \/ WorkerStep("downloading", "news") /\ ~cancel
       \/ WorkerStep("downloading", "committing") /\ ~cancel
    /\ UNCHANGED <<points, base, dlock, recordFiles, wtxn, whash, wbase, wpoint, wok>>

\* The gate is answered, or nobody answers for ten minutes.
NewsGate ==
    /\ \/ WorkerStep("news", "committing") /\ decision = "yes"
       \/ WorkerStep("news", "finish") /\ decision # "yes"
    /\ UNCHANGED <<points, base, dlock, recordFiles, wtxn, whash, wbase, wpoint, wok>>

Commit ==
    /\ WorkerStep("committing", "naming")
    /\ TakePoints(wtxn) /\ wok' \in BOOLEAN /\ base' = base + 1
    /\ UNCHANGED <<dlock, recordFiles, wtxn, whash, wbase, wpoint>>

\* The Point is named and labelled, and the pending flag is written.
NamePoint ==
    /\ WorkerStep("naming", "verifying")
    /\ wpoint' \in {FirstPreAfter(wbase), 0}
    /\ pending' = Txn(wtxn, wpoint')
    /\ UNCHANGED <<points, base, dlock, file, cached, wtxn, whash, wbase, wok>>

\* The battery's verdict, and the record saved from the daemon's own copy.
VerifyAndSave ==
    /\ WorkerStep("verifying", "finish")
    /\ \E bad \in BOOLEAN :
         /\ ~wok => bad
         /\ cached' = [last |-> Txn(wtxn, wpoint),
                       failed |-> IF bad THEN cached.failed \cup {wtxn} ELSE cached.failed]
    /\ file' = cached'
    /\ UNCHANGED <<points, base, dlock, pending, wtxn, whash, wbase, wpoint, wok>>

DaemonStarts == cached' = file' /\ quitting' = FALSE

\* The worker's locals are gone; what was asked of it is cleared by the next Update.
WorkerGone ==
    /\ wpc' = "idle" /\ wtxn' = 0 /\ whash' = <<0, 0>>
    /\ wbase' = 0 /\ wpoint' = 0 /\ wok' = TRUE
    /\ decision' = "none" /\ cancel' = FALSE

\* The finally block: the lock is dropped and a deferred stop is carried out.
Finish ==
    /\ wpc = "finish" /\ WorkerGone
    /\ dlock' = IF dlock = "update" THEN "free" ELSE dlock
    /\ UNCHANGED file
    /\ IF quitting THEN DaemonStarts ELSE UNCHANGED <<cached, quitting>>
    /\ UNCHANGED <<system, pending, bundle, clients, counters>>

\* SIGTERM: deferred while the phase is "committing", else the daemon stops at
\* once with its worker; the bus starts it again.
Stop ==
    /\ stops < MaxStops /\ stops' = stops + 1
    /\ UNCHANGED file
    /\ IF wpc \in {"committing", "naming"}
         THEN quitting' = TRUE /\ UNCHANGED <<cached, worker, decision, cancel, dlock>>
         ELSE /\ DaemonStarts /\ WorkerGone
              /\ dlock' = IF dlock = "update" THEN "free" ELSE dlock
    /\ UNCHANGED <<system, pending, bundle, clients, txns, others>>

(***************************************************************************)
(* A rollback by fireproof or its window: RollbackTarget, phoenix-restore, *)
(* RecordRollback.                                                         *)
(***************************************************************************)
AskTarget ==
    /\ rpc = "idle" /\ RollbackTarget.point # 0
    /\ target' = RollbackTarget /\ rpc' = "asked"
    /\ UNCHANGED <<system, dlock, recordFiles, worker, calls, bundle, ppc, counters>>

RecordRollback ==
    /\ rpc = "asked" /\ rpc' = "restored"
    /\ IF cached.last.txn = target.txn /\ target.txn # 0
         THEN cached' = [cached EXCEPT !.failed = @ \cup {target.txn}] /\ file' = cached'
         ELSE UNCHANGED <<cached, file>>
    /\ UNCHANGED <<system, dlock, pending, worker, calls, bundle, ppc, target, counters>>

\* A boot: after a rollback the root, records included, is the Point's.
NextBoot ==
    /\ stops < MaxStops /\ stops' = stops + 1
    /\ IF rpc = "restored"
         THEN /\ file' = points[target.point].file
              /\ pending' = points[target.point].pending
              /\ base' = base + 1
         ELSE UNCHANGED <<file, pending, base>>
    /\ DaemonStarts
    /\ dlock' = "free" /\ WorkerGone
    /\ bpc' = "idle" /\ btxn' = 0 /\ bbase' = 0
    /\ rpc' = "idle" /\ target' = Nothing
    /\ ppc' = IF pending' # Nothing THEN "waiting" ELSE "idle"
    /\ UNCHANGED <<points, lists, unread, txns, others>>

\* fireproof-postboot clears the flag after a good boot, or marks a failure.
Postboot ==
    /\ ppc = "waiting" /\ ppc' = "idle"
    /\ pending' \in {pending, Nothing}
    /\ UNCHANGED <<system, dlock, file, cached, worker, calls, bundle, rpc, target,
                   counters>>

(***************************************************************************)
(* shadowfetch-bundle-install and other users of apt                       *)
(***************************************************************************)
BundleStep(from, to) ==
    /\ bpc = from /\ bpc' = to
    /\ UNCHANGED <<lists, unread, pending, cached, worker, calls, clients, others, stops>>

\* wait_for_locks, the repair and the download leave nothing behind.
BundleInstall ==
    /\ Bundles /\ txns < MaxTxns /\ dlock = "free"
    /\ BundleStep("idle", "baseline")
    /\ txns' = txns + 1 /\ btxn' = MaxTxns + txns + 1
    /\ UNCHANGED <<points, base, dlock, file, bbase>>

\* phoenix_baseline: taken without the lock.
BundleBaseline ==
    /\ BundleStep("baseline", "install")
    /\ bbase' \in MaxNumbers
    /\ UNCHANGED <<points, base, dlock, file, btxn, txns>>

\* apt-get waits two minutes for the lock, then fails; either way what follows
\* is the same.
BundleCommit ==
    /\ BundleStep("install", "record")
    /\ \/ dlock = "free" /\ TakePoints(btxn) /\ base' = base + 1
       \/ dlock # "free" /\ UNCHANGED <<points, base>>
    /\ UNCHANGED <<dlock, file, btxn, bbase, txns>>

\* record_transaction: nothing without a Point or when the list is not read,
\* nothing while an update pends.
BundleCheck ==
    /\ \/ BundleStep("record", "write") /\ FirstPreAfter(bbase) # 0 /\ pending = Nothing
          /\ UNCHANGED <<btxn, bbase>>
       \/ BundleStep("record", "idle") /\ btxn' = 0 /\ bbase' = 0
    /\ UNCHANGED <<points, base, dlock, file, txns>>

BundleRecord ==
    /\ BundleStep("write", "idle")
    /\ file' = [file EXCEPT !.last = Txn(btxn, FirstPreAfter(bbase))]
    /\ btxn' = 0 /\ bbase' = 0
    /\ UNCHANGED <<points, base, dlock, txns>>

\* Discover or a terminal: takes the lock, may keep it for ever, may commit.
OtherApt ==
    /\ \/ dlock = "free" /\ others < MaxOthers /\ dlock' = "other" /\ others' = others + 1
          /\ UNCHANGED <<points, base>>
       \/ dlock = "other" /\ dlock' = "free" /\ TakePoints(0) /\ base' = base + 1
          /\ UNCHANGED others
    /\ UNCHANGED <<lists, unread, recordFiles, worker, calls, bundle, clients, txns, stops>>

\* apt's periodic refresh does not take the frontend lock.
ListsRefresh ==
    /\ others < MaxOthers /\ others' = others + 1
    /\ lists' = lists + 1
    /\ UNCHANGED <<points, base, unread, dlock, recordFiles, worker, calls, bundle,
                   clients, txns, stops>>

WorkerNextStep ==
    \/ LockTaken \/ LockTimeout \/ Revalidate \/ Download \/ NewsGate \/ Commit
    \/ NamePoint \/ VerifyAndSave \/ Finish

UpNext ==
    \/ Update \/ Steer \/ WorkerNextStep \/ Stop
    \/ AskTarget \/ RecordRollback \/ NextBoot \/ Postboot
    \/ BundleInstall \/ BundleBaseline \/ BundleCommit \/ BundleCheck \/ BundleRecord
    \/ OtherApt \/ ListsRefresh

\* The worker is a thread, and its waits have deadlines.
UpFairness == WF_upVars(WorkerNextStep)
UpSpec == UpInit /\ [][UpNext]_upVars /\ UpFairness

-----------------------------------------------------------------------------
UpRecords == [txn : 0..2 * MaxTxns, point : 0..Len(points)]

\* Every record names a transaction and a Point that exist, or none.
UpTypeOK ==
    /\ \A r \in {file.last, cached.last, pending, target} : r \in UpRecords
    /\ file.failed \cup cached.failed \cup unread \subseteq 1..2 * MaxTxns
    /\ dlock \in {"free", "update", "other"}

\* A Point that fireproofd recorded for an update was taken by that update's own
\* transaction, whatever other package manager ran before or after it: the
\* baseline and the commit are under one lock.  Only an update whose baseline
\* could not be read may name another's Point, and then the oldest there is.
UpdatePointIsItsOwn ==
    \A r \in {file.last, cached.last, pending} :
      r.txn <= MaxTxns /\ r.point # 0 =>
        points[r.point].owner = r.txn \/ (r.txn \in unread /\ r.point = 1)

\* What is about to be committed is the change set that was reviewed: it was
\* computed for the packages that are installed now, even if another package
\* manager ran since.
CommitsWhatWasReviewed == wpc = "committing" => whash[2] = base

\* An update ends and frees the daemon for the next one, even when another
\* package manager keeps the lock and nobody answers the NEWS gate.
UpdatesFinish == (wpc # "idle") ~> (wpc = "idle")
=============================================================================
