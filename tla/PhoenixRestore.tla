--------------------------- MODULE PhoenixRestore ---------------------------
(***************************************************************************)
(* phoenix-restore makes a Phoenix Point the root of the machine: it       *)
(* copies the Point to @new, prepares an external /boot for it, exchanges  *)
(* @new with @ and keeps the root it replaced as @_prev_<run>.  Each step  *)
(* is journalled first.  phoenix-postboot runs phoenix-recover at the next *)
(* boot, which reads the journal and the flag inside each subvolume to     *)
(* finish or to undo what a power cut interrupted, and collects leftovers. *)
(*                                                                         *)
(* A subvolume is [id, mods, flag]: which copy it is (0 is the root that   *)
(* was installed, r the copy made by run r), the kernels it has modules    *)
(* for, and the run named by its update-grub flag.  Runs are numbered in   *)
(* the order of their time stamps.  /boot is a file system of its own; one *)
(* that is inside @ travels with the exchange and needs none of this.      *)
(***************************************************************************)
EXTENDS Integers, FiniteSets, FiniteSetsExt

CONSTANTS
    Kernels,        \* numbers, in the order of sort -V
    PointKernels,   \* Point |-> the kernels that it has modules for
    RootKernels,    \* the same of the installed root
    MaxRuns,        \* bound on the runs of phoenix-restore
    MaxCrashes,     \* bound on power cuts
    OverlayBoots,   \* TRUE: an overlay session may be booted, which skips the pass
    RestoreAgain    \* TRUE: another restore may be asked for before the reboot

ASSUME PhoenixAssumption ==
    /\ Kernels \subseteq Nat /\ IsFiniteSet(Kernels)
    /\ RootKernels \subseteq Kernels /\ RootKernels # {}
    /\ \A p \in DOMAIN PointKernels : PointKernels[p] \subseteq Kernels
    /\ MaxRuns \in Nat /\ MaxCrashes \in Nat
    /\ OverlayBoots \in BOOLEAN /\ RestoreAgain \in BOOLEAN

VARIABLES
    root, staging, prevs,          \* @, @new, and the set of @_prev_*
    lastRun, phase,                \* the journal: newest run, last phase of each
    bootk, archived, menu, pin,    \* /boot: kernels, backups, grub.cfg, next_entry
    pc, run, point, touched, moved, back,   \* phoenix-restore and phoenix-recover
    plan,                          \* what phoenix-recover read and decided
    lived, previous, crashes       \* history: roots that ran, the last one replaced
phVars == <<root, staging, prevs, lastRun, phase, bootk, archived, menu, pin,
            pc, run, point, touched, moved, back, plan, lived, previous, crashes>>
volume == <<root, staging, prevs>>
journal == <<lastRun, phase>>
bootfs == <<bootk, archived, menu, pin>>
script == <<run, point, touched, moved, back>>
history == <<lived, previous, crashes>>

PhRuns == 0..MaxRuns               \* 0 stands for the run "unknown"
NoSub == [id |-> -1, mods |-> {}, flag |-> 0]
NoPlan == [decision |-> "none"]
NoDir == {-1}                      \* no such backup directory
Stamp(r) == 2 * r                  \* a run's time stamp; odd ones lie in between

\* journal.py: what a phase proves about the exchange.
PreExchange == {"requested", "leftover-parked", "staging-created",
                "boot-unarchived", "boot-staged", "rolled-back", "aborted"}
PostExchange == {"exchange-complete", "previous-parked", "complete"}
Terminal == {"complete", "rolled-back", "aborted"}
Journalled(r, ph) == lastRun' = r /\ phase' = [phase EXCEPT ![r] = ph]

Dirs == {r \in PhRuns : archived[r] # NoDir}
Ids == {root.id, staging.id} \cup {p.sub.id : p \in prevs}

PhInit ==
    /\ root = [id |-> 0, mods |-> RootKernels, flag |-> 0]
    /\ staging = NoSub /\ prevs = {}
    /\ lastRun = 0 /\ phase = [r \in PhRuns |-> "complete"]
    /\ bootk = Kernels /\ archived = [r \in PhRuns |-> NoDir]
    /\ menu = Kernels /\ pin = 0
    /\ pc = "idle" /\ run = 0 /\ point \in DOMAIN PointKernels
    /\ touched = FALSE /\ moved = FALSE /\ back = "swept"
    /\ plan = NoPlan
    /\ lived = {0} /\ previous = 0 /\ crashes = 0

(***************************************************************************)
(* phoenix-restore                                                         *)
(***************************************************************************)
Request(p) ==
    /\ pc = "idle" /\ run < MaxRuns
    /\ RestoreAgain \/ root.id \in lived
    /\ run' = run + 1 /\ point' = p
    /\ touched' = FALSE /\ moved' = FALSE
    /\ Journalled(run + 1, "requested")
    /\ pc' = "leftover"
    /\ UNCHANGED <<volume, bootfs, back, plan, history>>

LeftoverNone ==
    /\ pc = "leftover" /\ staging = NoSub
    /\ Journalled(run, "staging-created") /\ pc' = "copy"
    /\ UNCHANGED <<volume, bootfs, script, plan, history>>

LeftoverFound ==
    /\ pc = "leftover" /\ staging # NoSub
    /\ Journalled(run, "leftover-parked") /\ pc' = "leftover_mv"
    /\ UNCHANGED <<volume, bootfs, script, plan, history>>

LeftoverPark ==
    /\ pc = "leftover_mv"
    /\ prevs' = prevs \cup {[stamp |-> Stamp(run), recovered |-> TRUE, sub |-> staging]}
    /\ staging' = NoSub /\ pc' = "leftover"
    /\ UNCHANGED <<root, journal, bootfs, script, plan, history>>

CopyPoint ==
    /\ pc = "copy"
    /\ \/ staging' = [id |-> run, mods |-> PointKernels[point], flag |-> 0] /\ pc' = "boot"
       \/ UNCHANGED staging /\ pc' = "exit"
    /\ UNCHANGED <<root, prevs, journal, bootfs, script, plan, history>>

\* unarchive_kernels: earlier backups are folded back before a kernel is chosen.
Unarchive ==
    /\ pc = "boot" /\ Dirs # {} /\ ~touched
    /\ touched' = TRUE
    /\ Journalled(run, "boot-unarchived")
    /\ UNCHANGED <<volume, bootfs, pc, run, point, moved, back, plan, history>>

FoldBack ==
    /\ pc = "boot" /\ Dirs # {} /\ touched
    /\ \E r \in Dirs : /\ bootk' = bootk \cup archived[r]
                       /\ archived' = [archived EXCEPT ![r] = NoDir]
    /\ UNCHANGED <<volume, journal, menu, pin, pc, script, plan, history>>

Shared == PointKernels[point] \cap bootk

\* A kernel that the Point and /boot share, and that the menu has an entry for.
ChooseKernel ==
    /\ pc = "boot" /\ Dirs = {}
    /\ IF Shared # {} /\ Max(Shared) \in menu
         THEN pin' = Max(Shared) /\ pc' = "pinned"
         ELSE UNCHANGED pin /\ pc' = "refused"
    /\ UNCHANGED <<volume, journal, bootk, archived, menu, script, plan, history>>

StageBoot ==
    /\ pc = "pinned"
    /\ touched' = TRUE /\ moved' = TRUE
    /\ Journalled(run, "boot-staged") /\ pc' = "mkdir"
    /\ UNCHANGED <<volume, bootfs, run, point, back, plan, history>>

MakeArchive ==
    /\ pc = "mkdir"
    /\ archived' = [archived EXCEPT ![run] = {}] /\ pc' = "archive"
    /\ UNCHANGED <<volume, journal, bootk, menu, pin, script, plan, history>>

ArchiveKernel ==
    /\ pc = "archive"
    /\ \E k \in bootk \ PointKernels[point] :
         /\ bootk' = bootk \ {k}
         /\ archived' = [archived EXCEPT ![run] = @ \cup {k}]
    /\ UNCHANGED <<volume, journal, menu, pin, pc, script, plan, history>>

Archived ==
    /\ pc = "archive" /\ bootk \subseteq PointKernels[point]
    /\ \/ /\ menu' = bootk /\ pc' = "flag" /\ UNCHANGED <<touched, back>>
       \/ /\ pc' = "rollback" /\ touched' = FALSE /\ back' = "refused"
          /\ UNCHANGED menu
    /\ UNCHANGED <<volume, journal, bootk, archived, pin, run, point, moved, plan, history>>

Refused ==
    /\ pc = "refused"
    /\ staging' = NoSub
    /\ Journalled(run, "aborted") /\ pc' = "exit"
    /\ UNCHANGED <<root, prevs, bootfs, script, plan, history>>

\* The flag is written into @new before the exchange: it is the evidence.
WriteFlag ==
    /\ pc = "flag"
    /\ staging' = [staging EXCEPT !.flag = run] /\ pc' = "begin"
    /\ UNCHANGED <<root, prevs, journal, bootfs, script, plan, history>>

ExchangeBegin ==
    /\ pc = "begin"
    /\ Journalled(run, "exchange-begin") /\ pc' = "exchange"
    /\ UNCHANGED <<volume, bootfs, script, plan, history>>

Exchange ==
    /\ pc = "exchange"
    /\ root' = staging /\ staging' = root
    /\ previous' = IF root.id \in lived THEN root.id ELSE previous
    /\ pc' = "exchanged"
    /\ UNCHANGED <<prevs, journal, bootfs, script, plan, lived, crashes>>

ExchangeFails ==
    /\ pc = "exchange"
    /\ staging' = NoSub
    /\ pc' = "rollback" /\ touched' = FALSE /\ back' = "swept"
    /\ UNCHANGED <<root, prevs, journal, bootfs, run, point, moved, plan, history>>

ExchangeComplete ==
    /\ pc = "exchanged"
    /\ Journalled(run, "exchange-complete") /\ pc' = "park"
    /\ UNCHANGED <<volume, bootfs, script, plan, history>>

ParkPrevious ==
    /\ pc = "park"
    /\ prevs' = prevs \cup {[stamp |-> Stamp(run), recovered |-> FALSE, sub |-> staging]}
    /\ staging' = NoSub /\ pc' = "parked"
    /\ UNCHANGED <<root, journal, bootfs, script, plan, history>>

PreviousParked ==
    /\ pc = "parked"
    /\ Journalled(run, "previous-parked") /\ pc' = "complete"
    /\ UNCHANGED <<volume, bootfs, script, plan, history>>

\* The closing record is written whether or not the rename succeeded.
Complete ==
    /\ pc \in {"park", "complete"}
    /\ Journalled(run, "complete") /\ pc' = "idle"
    /\ UNCHANGED <<volume, bootfs, script, plan, history>>

\* SIGINT or SIGTERM; both are ignored from the exchange on, and in the trap.
Interrupt ==
    /\ \/ pc \in {"leftover", "leftover_mv", "copy", "boot", "pinned", "mkdir",
                  "archive", "refused", "flag", "begin"}
       \/ pc = "rollback" /\ back = "refused"
    /\ pc' = "exit"
    /\ UNCHANGED <<volume, journal, bootfs, script, plan, history>>

\* cleanup(), the EXIT trap.
Cleanup ==
    /\ pc = "exit"
    /\ IF touched
         THEN /\ Journalled(run, "aborted")
              /\ touched' = FALSE /\ back' = "swept" /\ pc' = "rollback"
         ELSE UNCHANGED <<journal, touched, back>> /\ pc' = "idle"
    /\ UNCHANGED <<volume, bootfs, run, point, moved, plan, history>>

\* rollback_external_boot: kernels back one by one, then the menu and the pin.
RollbackKernel ==
    /\ pc = "rollback" /\ moved /\ archived[run] # NoDir
    /\ \E k \in archived[run] :
         /\ bootk' = bootk \cup {k}
         /\ archived' = [archived EXCEPT ![run] = @ \ {k}]
    /\ UNCHANGED <<volume, journal, menu, pin, pc, script, plan, history>>

RolledBackBoot ==
    /\ pc = "rollback" /\ (moved => archived[run] \in {NoDir, {}})
    /\ moved' = FALSE
    /\ archived' = [archived EXCEPT ![run] = NoDir]
    /\ menu' = bootk /\ pin' = 0
    /\ pc' = back
    /\ UNCHANGED <<volume, journal, bootk, run, point, touched, back, plan, history>>

Swept ==
    /\ pc = "swept"
    /\ Journalled(run, "rolled-back") /\ pc' = "idle"
    /\ UNCHANGED <<volume, bootfs, script, plan, history>>

(***************************************************************************)
(* Power cuts and reboots.  An overlay session skips phoenix-postboot.     *)
(***************************************************************************)
Boot ==
    /\ pin' = 0
    /\ touched' = FALSE /\ moved' = FALSE
    /\ plan' = NoPlan
    /\ \/ pc' = "inspect" /\ lived' = lived \cup {root.id}
       \/ OverlayBoots /\ pc' = "idle" /\ UNCHANGED lived
    /\ UNCHANGED <<volume, journal, bootk, archived, menu, run, point, back, previous>>

PowerCut == pc # "idle" /\ crashes < MaxCrashes /\ crashes' = crashes + 1 /\ Boot
Reboot == pc = "idle" /\ UNCHANGED crashes /\ Boot

(***************************************************************************)
(* phoenix-recover resume                                                  *)
(***************************************************************************)
InFlight == phase[lastRun] \notin Terminal

\* RestoreTransaction.inspect: did the exchange of the newest run happen?
Exchanged ==
    LET NamedBy(sub) == sub.flag = lastRun /\ lastRun # 0
    IN  IF InFlight
          THEN IF phase[lastRun] \in PostExchange \/ NamedBy(root) THEN "yes"
               ELSE IF phase[lastRun] \in PreExchange \/ NamedBy(staging) THEN "no"
               ELSE "unknown"
          ELSE IF root.flag > staging.flag THEN "yes"
               ELSE IF staging.flag > root.flag THEN "no"
               ELSE "unknown"

Decision ==
    IF staging = NoSub THEN "nothing"
    ELSE IF Exchanged = "yes" THEN "finish"
    ELSE IF Exchanged = "no" THEN "discard"
    ELSE "park"

\* variant: a kernel that @ needs is not looked for in the backups
RescuesNone == {}

\* plan_kernel_archives: the newest backup that holds a kernel @ needs, and all
\* directories but the newest one.
Rescues == {x \in Kernels \X Dirs :
              /\ x[1] \in root.mods \ bootk /\ x[1] \in archived[x[2]]
              /\ \A q \in Dirs : x[1] \in archived[q] => q <= x[2]}
Superseded == {r \in Dirs : r # Max(Dirs)}

Inspect ==
    /\ pc = "inspect"
    /\ plan' = [decision |-> Decision, run |-> lastRun, inflight |-> InFlight,
                rollback |-> InFlight /\ Exchanged = "no" /\ archived[lastRun] # NoDir,
                rescues |-> Rescues, superseded |-> Superseded]
    /\ pc' = "resume"
    /\ UNCHANGED <<volume, journal, bootfs, script, history>>

\* _rollback_boot comes first: kernels, pin, menu, and the record "resume".
ResumeKernel ==
    /\ pc = "resume" /\ plan.rollback
    /\ \E k \in archived[plan.run] :
         /\ bootk' = bootk \cup {k}
         /\ archived' = [archived EXCEPT ![plan.run] = @ \ {k}]
    /\ UNCHANGED <<volume, journal, menu, pin, pc, script, plan, history>>

ResumeBoot ==
    /\ pc = "resume"
    /\ IF plan.rollback
         THEN /\ archived[plan.run] = {}
              /\ archived' = [archived EXCEPT ![plan.run] = NoDir]
              /\ pin' = 0 /\ menu' = bootk
              /\ Journalled(plan.run, "resume")
         ELSE UNCHANGED <<archived, pin, menu, journal>>
    /\ pc' = "resume_staging"
    /\ UNCHANGED <<volume, bootk, script, plan, history>>

\* The run that a record about the staging names.
Named == IF plan.inflight THEN plan.run ELSE 0

ResumeNothing ==
    /\ pc = "resume_staging" /\ plan.decision = "nothing"
    /\ IF plan.rollback THEN Journalled(plan.run, "rolled-back") ELSE UNCHANGED journal
    /\ pc' = "gc"
    /\ UNCHANGED <<volume, bootfs, script, plan, history>>

\* The delete may fail; then @new stays for the next boot.
ResumeDiscard ==
    /\ pc = "resume_staging" /\ plan.decision = "discard"
    /\ \/ staging' = NoSub /\ pc' = "resume_record"
       \/ UNCHANGED staging /\ pc' = "gc"
    /\ UNCHANGED <<root, prevs, journal, bootfs, script, plan, history>>

TakenNames == {<<p.stamp, p.recovered>> : p \in prevs}

\* The name comes from the flag in @, and gains _recovered when it is taken.
ResumePark ==
    /\ pc = "resume_staging" /\ plan.decision \in {"finish", "park"}
    /\ LET stamp == IF plan.decision = "park" THEN Stamp(run) + 1
                    ELSE Stamp(IF root.flag # 0 THEN root.flag ELSE Named)
           taken == plan.decision = "park" \/ <<stamp, FALSE>> \in TakenNames
       IN prevs' = prevs \cup {[stamp |-> stamp, recovered |-> taken, sub |-> staging]}
    /\ staging' = NoSub /\ pc' = "resume_record"
    /\ UNCHANGED <<root, journal, bootfs, script, plan, history>>

ResumeRecord ==
    /\ pc = "resume_record"
    /\ Journalled(Named, CASE plan.decision = "discard" -> "rolled-back"
                           [] plan.decision = "finish" -> "complete"
                           [] plan.decision = "park" -> "resume")
    /\ pc' = "gc"
    /\ UNCHANGED <<volume, bootfs, script, plan, history>>

\* variant: the newest time stamp wins, whatever it is the name of
OutranksByTime(p, q) == p.stamp > q.stamp \/ (p.stamp = q.stamp /\ p.recovered /\ ~q.recovered)

\* PreviousRoot.sort_key: known provenance before recency.
Outranks(p, q) ==
    IF p.recovered # q.recovered THEN ~p.recovered ELSE p.stamp > q.stamp

CollectPrevious ==
    /\ pc = "gc"
    /\ prevs' = {p \in prevs : \A q \in prevs \ {p} : Outranks(p, q)}
    /\ pc' = "gc_kernels"
    /\ UNCHANGED <<root, staging, journal, bootfs, script, plan, history>>

\* apply_kernel_archives, with the plan made before the resume: a source that
\* has moved since is skipped, a superseded directory loses what it holds now.
CollectKernels ==
    /\ pc = "gc_kernels"
    /\ LET found == {x \in plan.rescues : x[1] \in archived[x[2]]}
       IN /\ bootk' = bootk \cup {x[1] : x \in found}
          /\ archived' = [r \in PhRuns |->
               IF r \in plan.superseded \/ archived[r] = NoDir THEN NoDir
               ELSE archived[r] \ {x[1] : x \in {y \in found : y[2] = r}}]
    /\ pc' = "postboot"
    /\ UNCHANGED <<volume, journal, menu, pin, script, plan, history>>

\* phoenix-postboot consumes the flag last; update-grub may fail and keep it.
PostbootFlag ==
    /\ pc = "postboot"
    /\ \/ root.flag # 0 /\ menu' = bootk /\ root' = [root EXCEPT !.flag = 0]
       \/ UNCHANGED <<menu, root>>
    /\ pc' = "idle" /\ plan' = NoPlan
    /\ UNCHANGED <<staging, prevs, journal, bootk, archived, pin, script, history>>

PhNext ==
    \/ \E p \in DOMAIN PointKernels : Request(p)
    \/ LeftoverNone \/ LeftoverFound \/ LeftoverPark \/ CopyPoint
    \/ Unarchive \/ FoldBack \/ ChooseKernel \/ StageBoot \/ MakeArchive
    \/ ArchiveKernel \/ Archived \/ Refused \/ WriteFlag \/ ExchangeBegin
    \/ Exchange \/ ExchangeFails \/ ExchangeComplete \/ ParkPrevious
    \/ PreviousParked \/ Complete \/ Interrupt \/ Cleanup
    \/ RollbackKernel \/ RolledBackBoot \/ Swept
    \/ PowerCut \/ Reboot
    \/ Inspect \/ ResumeKernel \/ ResumeBoot \/ ResumeNothing \/ ResumeDiscard
    \/ ResumePark \/ ResumeRecord \/ CollectPrevious \/ CollectKernels \/ PostbootFlag

PhSpec == PhInit /\ [][PhNext]_phVars

-----------------------------------------------------------------------------
Subvolumes == [id : {-1} \cup PhRuns, mods : SUBSET Kernels, flag : PhRuns]

\* Every subvolume, journal record and kernel is of its kind; the menu and the
\* backups never hold a kernel that does not exist.
PhTypeOK ==
    /\ root \in Subvolumes /\ staging \in Subvolumes
    /\ \A p \in prevs : p.sub \in Subvolumes /\ p.stamp \in 0..2 * MaxRuns + 1
    /\ lastRun \in PhRuns
    /\ \A r \in PhRuns : phase[r] \in PreExchange \cup PostExchange \cup {"exchange-begin", "resume"}
    /\ bootk \subseteq Kernels /\ menu \subseteq Kernels /\ pin \in Kernels \cup {0}
    /\ \A r \in PhRuns : archived[r] \subseteq Kernels \cup NoDir

\* A subvolume that has been the running root leaves @new only under another
\* name: the restore and phoenix-recover delete nothing but copies of a Point.
DiscardedIsACopy ==
    [][staging.id \in lived /\ staging' # staging => staging.id \in Ids']_phVars

\* The root that the last completed exchange took from the user is still on the
\* volume, as @, @new or a retained @_prev_*.
PreviousRootKept == previous \in Ids

\* Once phoenix-recover has collected, /boot holds every kernel of @ that is on
\* the machine: whatever was interrupted, and whichever way it was settled,
\* /boot and @ are of one generation.
BootMatchesRoot == pc = "postboot" => root.mods \subseteq bootk
=============================================================================
