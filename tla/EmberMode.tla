------------------------------ MODULE EmberMode ------------------------------
(***************************************************************************)
(* Ember Mode: emberd puts the machine in performance mode and writes a    *)
(* line to /run/shadowfetch/ember.state before each thing it changes;      *)
(* ember-restore, run by systemd before emberd starts and after it ends,   *)
(* claims that file by renaming it to ember.state.restoring and undoes it  *)
(* line by line.  emberd and ember-restore can be killed at any step: by   *)
(* the watchdog, a start or stop timeout, a crash.                         *)
(***************************************************************************)
EXTENDS Naturals, FiniteSets

CONSTANTS
  Cpus,         \* the cpus with a scaling governor
  Services,     \* the services of the pause list
  Slice,        \* the CPU weight of system.slice
  MaxArms,      \* how many times the unit is started, a bound
  MaxKills      \* how many restores are killed, a bound

ASSUME EmberAssumption ==
  /\ IsFiniteSet(Cpus \cup Services)
  /\ Cpus \cap Services = {} /\ Slice \notin Cpus \cup Services
  /\ {MaxArms, MaxKills} \subseteq Nat

VARIABLES
  altered,      \* what is not as the user left it
  stateFile,    \* the items with a line in ember.state
  restoring,    \* the items with a line in ember.state.restoring
  hold,         \* power-profiles-daemon holds "performance" for emberd
  unit,         \* "inactive", "pre", "start", "active", "post"
  step,         \* where emberd is while the unit is starting or active
  todo,         \* what is left of emberd's or of ember-restore's loop
  restore,      \* where ember-restore is: "off", "work", "claim", "state", "end"
  limit,        \* the RuntimeMaxSec drop-in exists
  arms, kills

machine == <<altered, hold>>
files == <<stateFile, restoring, limit>>
emVars == <<altered, stateFile, restoring, hold, unit, step, todo, restore, limit,
            arms, kills>>

Things == Cpus \cup Services \cup {Slice}

EmTypeOK ==
  /\ {altered, stateFile, restoring, todo} \subseteq SUBSET Things
  /\ {hold, limit} \subseteq BOOLEAN
  /\ unit \in {"inactive", "pre", "start", "active", "post"}
  /\ step \in {"off", "hold", "governor", "set", "pause", "stop", "weigh",
               "weight", "armed", "quit"}
  /\ restore \in {"off", "work", "claim", "state", "end"}
  /\ arms \in 0..MaxArms /\ kills \in 0..MaxKills

EmInit ==
  /\ altered = {} /\ stateFile = {} /\ restoring = {} /\ todo = {}
  /\ hold = FALSE /\ limit = FALSE
  /\ unit = "inactive" /\ step = "off" /\ restore = "off"
  /\ arms = 0 /\ kills = 0

-----------------------------------------------------------------------------
(* The unit: systemd and the person at the switch. *)

\* The duration picker writes the drop-in, or takes it away, at any time.
Duration ==
  /\ arms < MaxArms
  /\ limit' = ~limit
  /\ UNCHANGED <<machine, stateFile, restoring, unit, step, todo, restore, arms, kills>>

\* variant: ember-restore goes straight for ember.state, renaming it over what is left
FirstFileClaim == "claim"

\* Where ember-restore begins: with what an earlier run left half undone.
FirstFile == "work"

RunRestore == restore' = FirstFile /\ todo' = restoring

Arm ==
  /\ unit = "inactive" /\ arms < MaxArms
  /\ unit' = "pre" /\ arms' = arms + 1
  /\ RunRestore
  /\ UNCHANGED <<machine, files, step, kills>>

\* emberd is gone: its hold goes with its bus connection, and systemd runs
\* ExecStopPost.
Ended ==
  /\ unit' = "post" /\ step' = "off" /\ hold' = FALSE
  /\ RunRestore

\* SIGTERM before the handler is installed, the watchdog, the start timeout, a
\* crash.
Killed ==
  /\ unit \in {"start", "active"}
  /\ Ended
  /\ UNCHANGED <<altered, files, arms, kills>>

-----------------------------------------------------------------------------
(* emberd *)

Running(s) == unit = "start" /\ step = s

\* The hold, or the governors when power-profiles-daemon does not give one.
TryHold ==
  /\ Running("hold")
  /\ \/ hold' = TRUE /\ step' = "pause" /\ todo' = Services
     \/ hold' = FALSE /\ step' = "governor" /\ todo' = Cpus
  /\ UNCHANGED <<altered, files, unit, restore, arms, kills>>

\* One line per cpu that is not on the performance governor already.
RecordGovernor(c) ==
  /\ Running("governor") /\ c \in todo
  /\ todo' = todo \ {c}
  /\ stateFile' = IF c \in altered THEN stateFile ELSE stateFile \cup {c}
  /\ UNCHANGED <<machine, restoring, unit, step, restore, limit, arms, kills>>

\* cpupower sets every cpu, one after the other, if any line was written.
StartGovernors ==
  /\ Running("governor") /\ todo = {}
  /\ IF stateFile = {} THEN step' = "pause" /\ todo' = Services
                   ELSE step' = "set" /\ todo' = Cpus
  /\ UNCHANGED <<machine, files, unit, restore, arms, kills>>

SetGovernor(c) ==
  /\ Running("set") /\ c \in todo
  /\ todo' = todo \ {c} /\ altered' = altered \cup {c}
  /\ UNCHANGED <<files, hold, unit, step, restore, arms, kills>>

GovernorsSet ==
  /\ Running("set") /\ todo = {}
  /\ step' = "pause" /\ todo' = Services
  /\ UNCHANGED <<machine, files, unit, restore, arms, kills>>

\* A service that is active and whose gate is open gets a line, and is stopped
\* after it; any other is skipped.
RecordStop(s) ==
  /\ Running("pause") /\ s \in todo
  /\ \/ s \notin altered /\ stateFile' = stateFile \cup {s} /\ step' = "stop"
        /\ todo' = todo
     \/ todo' = todo \ {s} /\ UNCHANGED <<stateFile, step>>
  /\ UNCHANGED <<machine, restoring, unit, restore, limit, arms, kills>>

\* StopUnit for the service the last line names; it may fail.
StopUnit(s) ==
  /\ Running("stop") /\ s \in todo \cap stateFile
  /\ step' = "pause" /\ todo' = todo \ {s}
  /\ \/ altered' = altered \cup {s}
     \/ UNCHANGED altered
  /\ UNCHANGED <<files, hold, unit, restore, arms, kills>>

Paused ==
  /\ Running("pause") /\ todo = {}
  /\ step' = "weigh"
  /\ UNCHANGED <<machine, files, unit, todo, restore, arms, kills>>

RecordWeight ==
  /\ Running("weigh")
  /\ stateFile' = stateFile \cup {Slice} /\ step' = "weight"
  /\ UNCHANGED <<machine, restoring, unit, todo, restore, limit, arms, kills>>

\* systemctl set-property, which may fail; then READY=1.
SetWeight ==
  /\ Running("weight")
  /\ \/ altered' = altered \cup {Slice}
     \/ UNCHANGED altered
  /\ unit' = "active" /\ step' = "armed"
  /\ UNCHANGED <<files, hold, todo, restore, arms, kills>>

\* power-profiles-daemon leaves the bus: emberd stays armed without its hold.
HoldLost ==
  /\ step = "armed" /\ hold
  /\ hold' = FALSE
  /\ UNCHANGED <<altered, files, unit, step, todo, restore, arms, kills>>

\* SIGTERM, ten idle minutes, or another profile chosen in the applet.
Extinguish ==
  /\ step = "armed"
  /\ step' = "quit" /\ hold' = FALSE
  /\ UNCHANGED <<altered, files, unit, todo, restore, arms, kills>>

Quit ==
  /\ step = "quit"
  /\ Ended
  /\ UNCHANGED <<altered, files, arms, kills>>

-----------------------------------------------------------------------------
(* ember-restore *)

\* undo_line for one line of ember.state.restoring.
Undo(i) ==
  /\ restore \in {"work", "state"} /\ i \in todo
  /\ todo' = todo \ {i} /\ altered' = altered \ {i}
  /\ UNCHANGED <<files, hold, unit, step, restore, arms, kills>>

\* The file goes when every line of it has been undone.
Undone ==
  /\ restore \in {"work", "state"} /\ todo = {}
  /\ restoring' = {}
  /\ restore' = IF restore = "work" THEN "claim" ELSE "end"
  /\ UNCHANGED <<machine, stateFile, unit, step, todo, limit, arms, kills>>

\* mv ember.state ember.state.restoring: nothing to do without an ember.state.
Claim ==
  /\ restore = "claim"
  /\ IF stateFile = {}
     THEN restore' = "end" /\ todo' = {} /\ UNCHANGED <<stateFile, restoring>>
     ELSE /\ restoring' = stateFile /\ stateFile' = {} /\ todo' = stateFile
          /\ restore' = "state"
  /\ UNCHANGED <<machine, unit, step, limit, arms, kills>>

\* The time limit goes on the stop path only; then systemd takes the next step.
RestoreEnds ==
  /\ restore = "end"
  /\ restore' = "off"
  /\ IF unit = "pre" THEN unit' = "start" /\ step' = "hold" /\ limit' = limit
                     ELSE unit' = "inactive" /\ step' = "off" /\ limit' = FALSE
  /\ UNCHANGED <<machine, stateFile, restoring, todo, arms, kills>>

\* systemd kills a restore that takes too long: before the start it ends in
\* ExecStopPost, after the stop the unit has failed.
RestoreKilled ==
  /\ restore # "off" /\ kills < MaxKills
  /\ kills' = kills + 1
  /\ IF unit = "pre" THEN Ended
                     ELSE /\ unit' = "inactive" /\ restore' = "off" /\ todo' = {}
                          /\ UNCHANGED <<hold, step>>
  /\ UNCHANGED <<altered, files, arms>>

EmNext ==
  \/ Duration \/ Arm \/ Killed
  \/ TryHold \/ StartGovernors \/ GovernorsSet \/ Paused
  \/ RecordWeight \/ SetWeight \/ HoldLost \/ Extinguish \/ Quit
  \/ Undone \/ Claim \/ RestoreEnds \/ RestoreKilled
  \/ \E c \in Cpus : RecordGovernor(c) \/ SetGovernor(c)
  \/ \E s \in Services : RecordStop(s) \/ StopUnit(s)
  \/ \E i \in Things : Undo(i)

EmSpec == EmInit /\ [][EmNext]_emVars

-----------------------------------------------------------------------------
\* Everything emberd changed and nobody put back has a line in ember.state or
\* in ember.state.restoring, whatever was killed and when: the next run of
\* ember-restore still returns the machine to Balanced (record before the
\* change, claim by rename, remove after the last line).
AlteredIsRecorded == altered \subseteq stateFile \cup restoring

=============================================================================
