--------------------------- MODULE FirebreakSession ---------------------------
(***************************************************************************)
(* One session of shadowfetch-firebreak: run, _run, the namespace helper   *)
(* (EGRESS_HELPER), the NAT, and the session's file of records.            *)
(*                                                                         *)
(* The launcher, the tree that it spawned and slirp4netns are three        *)
(* processes.  With a network the tree begins as the helper, which owns    *)
(* the namespace: it says its pid, waits at a FIFO until the NAT is        *)
(* attached, installs the allowlist itself and becomes the payload.  The   *)
(* launcher may be killed at any step, told to stop at any step, and told  *)
(* again while it stops.                                                   *)
(***************************************************************************)
EXTENDS Naturals, Sequences, SequencesExt

CONSTANT MaxSignals    \* how often the launcher is told to stop, a bound

ASSUME FirebreakAssumption == MaxSignals \in Nat

VARIABLES
  want,         \* what the caller asked for
  pc,           \* where the launcher is
  tree,         \* the launched tree
  nat,          \* slirp4netns
  scratch,      \* the directory of resolver, pid file and FIFO
  fifo,         \* what the helper can read from the FIFO
  pidFile,      \* whether the helper has written its pid
  attached,     \* whether the NAT has said that it is configured
  rules,        \* whether the allowlist is installed in the namespace
  checkpoint,   \* whether there is a checkpoint of this session
  entries,        \* the records of the session's file
  outcome,      \* how the launcher ends: "return", "error", "cancelled"
  signals,      \* how often it was told to stop
  cut,          \* whether it was stopped where nothing cleans up after it
  holds         \* which of its variables, process and nat, name what it started

fbVars == <<want, pc, tree, nat, scratch, fifo, pidFile, attached, rules,
            checkpoint, entries, outcome, signals, cut, holds>>

Networked == want.network # "none"

\* While SIGTERM has its handler, and while the tree is waited for.
Handled == {"spawn", "forked", "pid", "attach", "slirp", "ready", "release", "wait",
            "clean", "kill", "end"}

FbTypeOK ==
  /\ want \in [network : {"none", "listed", "open"}, checkpoint : BOOLEAN]
  /\ pc \in {"arguments", "checkpoint", "launch", "record", "gone"} \cup Handled
  /\ tree \in {"none", "booting", "reported", "blocked", "filtering", "payload", "dead"}
  /\ nat \in {"none", "starting", "up", "dead"}
  /\ scratch \in {"none", "there", "removed"}
  /\ fifo \in {"closed", "open", "go"}
  /\ {pidFile, attached, rules, checkpoint, cut} \subseteq BOOLEAN
  /\ \A r \in Range(entries) : r \in {"refused", "started", "ended"} \X BOOLEAN
  /\ outcome \in {"none", "return", "error", "cancelled"}
  /\ signals \in 0..MaxSignals
  /\ holds \in SUBSET {"process", "nat"}

FbInit ==
  /\ want \in [network : {"none", "listed", "open"}, checkpoint : BOOLEAN]
  /\ pc = "arguments" /\ tree = "none" /\ nat = "none"
  /\ scratch = (IF Networked THEN "there" ELSE "none")
  /\ fifo = "closed" /\ pidFile = FALSE /\ attached = FALSE /\ rules = FALSE
  /\ checkpoint = FALSE /\ entries = <<>> /\ outcome = "none"
  /\ signals = 0 /\ cut = FALSE /\ holds = {}

outside == <<tree, nat, fifo, pidFile, attached, rules>>
\* how it was stopped, and what it would stop itself
stopping == <<signals, cut, holds>>

\* append_record: the line, whole or, on a full disk, without its end, which
\* os.write does not raise; or an exception and no line.
Write(record) == entries' \in {Append(entries, <<record, whole>>) : whole \in BOOLEAN}

\* run's finally.
RemoveScratch == scratch' = IF scratch = "there" THEN "removed" ELSE scratch
LeaveRun(how) == pc' = "gone" /\ outcome' = how /\ RemoveScratch

-----------------------------------------------------------------------------
(* The launcher, until there is a tree.                                    *)

\* A kernel that will not take the syscall filter is a refusal on record.
Arguments ==
  /\ pc = "arguments"
  /\ \/ pc' = "checkpoint" /\ UNCHANGED <<scratch, entries, outcome>>
     \/ LeaveRun("error") /\ (Write("refused") \/ UNCHANGED entries)
  /\ UNCHANGED <<want, outside, checkpoint, stopping>>

TakeCheckpoint ==
  /\ pc = "checkpoint"
  /\ \/ /\ checkpoint' = want.checkpoint /\ pc' = "launch"
        /\ UNCHANGED <<scratch, outcome>>
     \/ want.checkpoint /\ LeaveRun("error") /\ UNCHANGED checkpoint
  /\ UNCHANGED <<want, outside, entries, stopping>>

\* The FIFO, the addresses of the allowlist, the argv; a name that does not
\* resolve is a refusal on record.
BuildLaunch ==
  /\ pc = "launch"
  /\ \/ pc' = "record" /\ UNCHANGED <<scratch, entries, outcome>>
     \/ Networked /\ LeaveRun("error") /\ (Write("refused") \/ UNCHANGED entries)
  /\ UNCHANGED <<want, outside, checkpoint, stopping>>

\* A session that cannot be recorded is not executed.
RecordStarted ==
  /\ pc = "record"
  /\ \/ Write("started") /\ pc' = "spawn" /\ UNCHANGED <<scratch, outcome>>
     \/ LeaveRun("error") /\ UNCHANGED entries
  /\ UNCHANGED <<want, outside, checkpoint, stopping>>

\* Popen starts the tree, or raises.  The inner try is not entered yet.
SpawnTree ==
  /\ pc = "spawn"
  /\ \/ /\ tree' = (IF Networked THEN "booting" ELSE "payload")
        /\ pc' = "forked" /\ UNCHANGED outcome
     \/ /\ outcome' = "error" /\ UNCHANGED tree
        /\ pc' = "end"
  /\ UNCHANGED <<want, nat, scratch, fifo, pidFile, attached, rules, checkpoint,
                 entries, stopping>>

\* Only then is there a `process` for the cleanup and the handler to look at.
HoldTree ==
  /\ pc = "forked"
  /\ holds' = holds \cup {"process"}
  /\ pc' = (IF Networked THEN "pid" ELSE "wait")
  /\ UNCHANGED <<want, outside, scratch, checkpoint, entries, outcome, signals, cut>>

-----------------------------------------------------------------------------
(* The helper, and what it becomes.                                        *)

HelperVars == <<want, pc, nat, scratch, fifo, attached, checkpoint, entries, outcome,
                stopping>>

\* Its files are in the scratch directory, and it ends where that is gone.
ReportPid ==
  /\ tree = "booting"
  /\ IF scratch = "there" THEN tree' = "reported" /\ pidFile' = TRUE
                          ELSE tree' = "dead" /\ UNCHANGED pidFile
  /\ UNCHANGED <<HelperVars, rules>>

OpenFifo ==
  /\ tree = "reported"
  /\ tree' = IF scratch = "there" THEN "blocked" ELSE "dead"
  /\ UNCHANGED <<HelperVars, pidFile, rules>>

\* The read returns a byte, or nothing because the launcher is gone that had
\* opened the other end.
Released ==
  /\ tree = "blocked"
  /\ fifo = "go" \/ (fifo = "open" /\ pc \notin {"release"})
  /\ tree' = "filtering"
  /\ UNCHANGED <<HelperVars, pidFile, rules>>

\* variant: a ruleset that nft refuses does not stop the payload
FilterAnyway ==
  /\ tree = "filtering"
  /\ tree' = "payload" /\ rules' \in BOOLEAN
  /\ UNCHANGED <<HelperVars, pidFile>>

Filter ==
  /\ tree = "filtering"
  /\ \/ tree' = "payload" /\ rules' = (want.network = "listed")
     \/ want.network = "listed" /\ tree' = "dead" /\ UNCHANGED rules
  /\ UNCHANGED <<HelperVars, pidFile>>

TreeEnds ==
  /\ tree \notin {"none", "dead"}
  /\ tree' = "dead"
  /\ UNCHANGED <<HelperVars, pidFile, rules>>

NatVars == <<want, pc, tree, scratch, fifo, pidFile, rules, checkpoint, entries,
             outcome, stopping>>

NatConfigures == nat = "starting" /\ nat' = "up" /\ attached' = TRUE /\ UNCHANGED NatVars
NatDies == nat \in {"starting", "up"} /\ nat' = "dead" /\ UNCHANGED <<NatVars, attached>>

-----------------------------------------------------------------------------
(* The launcher, while there is a tree.                                    *)

Raise == pc' = "clean" /\ outcome' = "error"

\* Until the pid is there, the tree has ended, or 20 seconds are over.
AwaitPid ==
  /\ pc = "pid"
  /\ \/ pidFile /\ pc' = "attach" /\ UNCHANGED outcome
     \/ ~pidFile /\ Raise
  /\ UNCHANGED <<want, outside, scratch, checkpoint, entries, stopping>>

AttachNetwork ==
  /\ pc = "attach"
  /\ \/ nat' = "starting" /\ pc' = "slirp" /\ UNCHANGED outcome
     \/ Raise /\ UNCHANGED nat
  /\ UNCHANGED <<want, tree, scratch, fifo, pidFile, attached, rules, checkpoint,
                 entries, stopping>>

\* The same of `nat`, once attach_network has returned.
HoldNat ==
  /\ pc = "slirp"
  /\ holds' = holds \cup {"nat"} /\ pc' = "ready"
  /\ UNCHANGED <<want, outside, scratch, checkpoint, entries, outcome, signals, cut>>

AwaitNat ==
  /\ pc = "ready"
  /\ \/ attached /\ pc' = "release" /\ UNCHANGED outcome
     \/ ~attached /\ nat = "dead" /\ Raise
  /\ UNCHANGED <<want, outside, scratch, checkpoint, entries, stopping>>

\* Opening the FIFO waits for the helper to have opened it.
Release ==
  /\ pc = "release"
  /\ \/ fifo = "closed" /\ tree = "blocked" /\ fifo' = "open" /\ UNCHANGED pc
     \/ fifo = "open" /\ fifo' = "go" /\ pc' = "wait"
  /\ UNCHANGED <<want, tree, nat, scratch, pidFile, attached, rules, checkpoint,
                 entries, outcome, stopping>>

Wait ==
  /\ pc = "wait" /\ tree = "dead"
  /\ outcome' = "return"
  /\ pc' = (IF Networked THEN "clean" ELSE "end")
  /\ UNCHANGED <<want, outside, scratch, checkpoint, entries, stopping>>

\* terminate_nat, which does nothing where there is no `nat`, and the removal
\* of the scratch directory.
Clean ==
  /\ pc = "clean"
  /\ nat' = (IF "nat" \in holds THEN "dead" ELSE nat)
  /\ RemoveScratch
  /\ pc' = (IF outcome = "cancelled" THEN "kill" ELSE "end")
  /\ UNCHANGED <<want, tree, fifo, pidFile, attached, rules, checkpoint, entries,
                 outcome, stopping>>

\* The `process` that there is, is terminated and then killed.  The payload dies
\* with it; a helper is unshare's child and need not.
Kill ==
  /\ pc = "kill"
  /\ IF "process" \in holds
     THEN tree' \in {tree, "dead"} /\ tree' # "payload"
     ELSE UNCHANGED tree
  /\ pc' = "end"
  /\ UNCHANGED <<want, nat, scratch, fifo, pidFile, attached, rules, checkpoint,
                 entries, outcome, stopping>>

RecordEnded ==
  /\ pc = "end"
  /\ Write("ended") \/ UNCHANGED entries
  /\ LeaveRun(outcome)
  /\ UNCHANGED <<want, outside, checkpoint, stopping>>

-----------------------------------------------------------------------------
\* SIGTERM.  Where it has no handler, or has none any more, it ends the process.
\* Else it is an exception wherever the launcher is, also in the cleanup, whose
\* rest is then skipped, and in the wait for a tree that is being killed.
Terminate ==
  /\ pc # "gone" /\ signals < MaxSignals
  /\ signals' = signals + 1
  /\ \/ /\ pc \notin Handled \ {"end"}
        /\ pc' = "gone" /\ cut' = TRUE /\ UNCHANGED <<tree, outcome>>
     \/ /\ pc \in Handled
        /\ outcome' = "cancelled"
        /\ tree' \in {tree} \cup IF "process" \in holds THEN {"dead"} ELSE {}
        /\ pc' = CASE pc \in {"kill", "end"} -> "end"
                   [] pc \in {"spawn", "forked", "clean"} \/ ~Networked -> "kill"
                   [] OTHER -> "clean"
        /\ cut' = (cut \/ pc = "clean")
  /\ UNCHANGED <<want, nat, scratch, fifo, pidFile, attached, rules, checkpoint,
                 entries, holds>>

\* SIGKILL, or the power.
LauncherKilled ==
  /\ pc # "gone" /\ pc' = "gone" /\ cut' = TRUE
  /\ UNCHANGED <<want, outside, scratch, checkpoint, entries, outcome, signals, holds>>

FbNext ==
  \/ Arguments \/ TakeCheckpoint \/ BuildLaunch \/ RecordStarted
  \/ SpawnTree \/ HoldTree
  \/ ReportPid \/ OpenFifo \/ Released \/ Filter \/ TreeEnds
  \/ NatConfigures \/ NatDies
  \/ AwaitPid \/ AttachNetwork \/ HoldNat \/ AwaitNat \/ Release \/ Wait
  \/ Clean \/ Kill \/ RecordEnded \/ Terminate \/ LauncherKilled

FbSpec == FbInit /\ [][FbNext]_fbVars

-----------------------------------------------------------------------------
\* "A payload that ran before this point would run on an unconfigured
\* interface" (shadowfetch-firebreak:1337), "a session that cannot be recorded
\* is not executed" (1673): whoever dies, refuses or is stopped, and in whatever
\* order the three processes go on, a payload runs behind a NAT that was
\* attached and an allowlist that was installed, after a checkpoint if one was
\* asked for, and there is a line about it.
PayloadIsFenced ==
  tree = "payload" =>
    /\ Networked => attached
    /\ want.network = "listed" => rules
    /\ want.checkpoint => checkpoint
    /\ \E r \in Range(entries) : r[1] = "started"
    /\ \A r \in Range(entries) : r[1] # "refused"

\* A launcher that was not cut short leaves no scratch directory, and of the
\* NAT, of which "leaving it running would leave a namespace and a helper behind
\* per run" (1390), none but one that it was told to stop before it had it in
\* `nat`; nor, told once and without a network, a payload but one that it did not
\* have in `process`.
NothingIsLeft ==
  pc = "gone" /\ ~cut =>
    /\ scratch # "there"
    /\ nat \in {"starting", "up"} => "nat" \notin holds /\ outcome = "cancelled"
    /\ tree = "payload" /\ ~Networked /\ signals <= 1 =>
         "process" \notin holds /\ outcome = "cancelled"

\* Both of them: what bin/shadowfetch-firebreak owes for the session it starts.
SessionIsSafe == PayloadIsFenced /\ NothingIsLeft
=============================================================================
