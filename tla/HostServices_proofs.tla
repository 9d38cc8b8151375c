------------------------ MODULE HostServices_proofs -------------------------
(***************************************************************************)
(* Proofs about what is kept for the machine's next run: its roots and     *)
(* kernels (PhoenixRestore), the record of its updates (UpdateRecord) and  *)
(* what Ember Mode altered (EmberMode); for any number of runs,            *)
(* transactions, cpus and services, and of power cuts and kills.           *)
(*                                                                         *)
(* The roots.  BootMatchesRoot needs only what each step of a restore has  *)
(* secured in /boot (PlanFits).  PreviousRootKept needs more: between the  *)
(* exchange and the rename the replaced root is in @new and nothing that   *)
(* phoenix-recover can read there makes it discard it (Swapped); before    *)
(* and after, it is retained under a name that no later step gives again   *)
(* (Settled).  That argument holds when the root is booted before the next *)
(* restore and no overlay session skips the boot's pass; runs show what    *)
(* happens otherwise.                                                      *)
(*                                                                         *)
(* The updates.  From its revalidation to its record the worker holds the  *)
(* dpkg lock (Secured), so the Points behind wbase are its own, or wbase   *)
(* could not be read, is 0, and the Point is the oldest; a record that     *)
(* names a transaction names such a Point (RecordsOwned, WorkersOwned).    *)
(*                                                                         *)
(* Ember Mode.  emberd and ember-restore share two files and never run     *)
(* together (Apart).  emberd has a line for what it is about to alter      *)
(* (RecordedAhead); what ember-restore has still to undo is still in its   *)
(* list, and the name that it renames to is free (UndoneFirst).            *)
(*                                                                         *)
(* The last section is about the five parts of MCHostServices together:    *)
(* none of them touches another (PartsStayApart), so that everything has   *)
(* its type, and the safety properties hold, on the specification that the *)
(* run explores.                                                           *)
(***************************************************************************)
EXTENDS MCHostServices, AuditTrail_proofs, FiniteSetTheorems, SequenceTheorems,
        TLAPS

-----------------------------------------------------------------------------
(* The roots of the machine and its /boot.                                 *)

RecoverPcs == {"resume", "resume_staging", "resume_record", "gc", "gc_kernels"}
Phases == PreExchange \cup PostExchange \cup {"exchange-begin", "resume"}
KeptRoots == [stamp : 0..2 * MaxRuns + 1, recovered : BOOLEAN, sub : Subvolumes]

PhTyped ==
  /\ root \in Subvolumes /\ staging \in Subvolumes /\ prevs \subseteq KeptRoots
  /\ lastRun \in PhRuns /\ run \in PhRuns /\ phase \in [PhRuns -> Phases]
  /\ bootk \subseteq Kernels /\ menu \subseteq Kernels /\ pin \in Kernels \cup {0}
  /\ archived \in [PhRuns -> (SUBSET Kernels) \cup {NoDir}]
  /\ point \in DOMAIN PointKernels /\ back \in {"swept", "refused"}
  /\ pc \in RecoverPcs =>
       /\ plan.run \in PhRuns /\ plan.inflight \in BOOLEAN /\ plan.rollback \in BOOLEAN
       /\ plan.decision \in {"nothing", "finish", "discard", "park"}
       /\ plan.rescues \subseteq Kernels \X PhRuns
  /\ pc = "resume" /\ plan.rollback => archived[plan.run] # NoDir
  /\ pc = "archive" => archived[run] # NoDir
  /\ pc = "resume_record" => plan.decision # "nothing"

(* What the numbers and subvolumes of the model are.                       *)
LEMMA SubvolumeFacts ==
  /\ NoSub \in Subvolumes
  /\ \A s \in Subvolumes : s.id \in Int /\ s.flag \in PhRuns /\ s.mods \subseteq Kernels
  /\ PhRuns \subseteq Int /\ 0 \in PhRuns
  /\ \A p \in DOMAIN PointKernels : PointKernels[p] \subseteq Kernels
  /\ MaxRuns \in Nat /\ -1 \notin Kernels /\ NoDir \notin SUBSET Kernels
BY PhoenixAssumption DEF NoSub, Subvolumes, PhRuns, NoDir

(* A retained root of any run, under its name or the next one.             *)
LEMMA KeptTyped ==
  ASSUME PhTyped
  PROVE  /\ \A r \in PhRuns : Stamp(r) \in 0..2 * MaxRuns + 1 /\ Stamp(r) + 1 \in 0..2 * MaxRuns + 1
         /\ \A n \in 0..2 * MaxRuns + 1, b \in BOOLEAN :
              [stamp |-> n, recovered |-> b, sub |-> staging] \in KeptRoots
BY SubvolumeFacts DEF PhTyped, KeptRoots, Stamp, PhRuns

(* Writing the update-grub flag leaves a subvolume.                        *)
LEMMA FlagTyped == \A v \in Subvolumes, r \in PhRuns : [v EXCEPT !.flag = r] \in Subvolumes
BY DEF Subvolumes

(* The installed machine is typed.                                         *)
LEMMA PhTypedInit == PhInit => PhTyped
BY PhoenixAssumption DEF PhInit, PhTyped, Subvolumes, PhRuns, NoSub, Phases, PreExchange, PostExchange,
   RecoverPcs

(* Every step of a restore, a boot and a recovery keeps the types.         *)
LEMMA PhTypedStep == PhTyped /\ [PhNext]_phVars => PhTyped'
<1> SUFFICES ASSUME PhTyped, [PhNext]_phVars PROVE PhTyped'
  OBVIOUS
<1> USE SubvolumeFacts DEF volume, journal, bootfs, script, history, Journalled
<1>0. CASE UNCHANGED phVars
  BY <1>0 DEF phVars, PhTyped
<1>r. ASSUME NEW p \in DOMAIN PointKernels, Request(p) PROVE PhTyped'
  BY <1>r DEF Request, PhTyped, PhRuns, RecoverPcs, Phases, PreExchange
<1>1. CASE LeftoverNone \/ LeftoverFound \/ Unarchive \/ StageBoot
  BY <1>1 DEF LeftoverNone, LeftoverFound, Unarchive, StageBoot, PhTyped, RecoverPcs,
              Phases, PreExchange, PostExchange
<1>2. CASE ChooseKernel
  BY <1>2 DEF ChooseKernel, PhTyped, RecoverPcs,
              Phases, PreExchange, PostExchange
<1>3. CASE MakeArchive
  BY <1>3 DEF MakeArchive, PhTyped, RecoverPcs,
              Phases, PreExchange, PostExchange
<1>4. CASE ArchiveKernel
  BY <1>4 DEF ArchiveKernel, PhTyped, RecoverPcs,
              Phases, PreExchange, PostExchange
<1>5. CASE Archived \/ Refused \/ ExchangeBegin
  BY <1>5 DEF Archived, Refused, ExchangeBegin, PhTyped, RecoverPcs,
              Phases, PreExchange, PostExchange
<1>6. CASE Exchange \/ ExchangeFails \/ ExchangeComplete
  BY <1>6 DEF Exchange, ExchangeFails, ExchangeComplete, PhTyped, RecoverPcs,
              Phases, PreExchange, PostExchange
<1>7. CASE PreviousParked \/ Complete \/ Interrupt
  BY <1>7 DEF PreviousParked, Complete, Interrupt, PhTyped, RecoverPcs,
              Phases, PreExchange, PostExchange
<1>8. CASE Cleanup \/ Swept
  BY <1>8 DEF Cleanup, Swept, PhTyped, RecoverPcs,
              Phases, PreExchange, PostExchange
<1>9. CASE RollbackKernel
  BY <1>9 DEF RollbackKernel, PhTyped, RecoverPcs,
              Phases, PreExchange, PostExchange
<1>10. CASE ResumeBoot
  BY <1>10 DEF ResumeBoot, PhTyped, RecoverPcs,
              Phases, PreExchange, PostExchange
<1>11. CASE ResumeNothing \/ ResumeDiscard \/ CollectPrevious
  BY <1>11 DEF ResumeNothing, ResumeDiscard, CollectPrevious, PhTyped, RecoverPcs,
              Phases, PreExchange, PostExchange
<1>12. CASE LeftoverPark
  BY <1>12, KeptTyped DEF LeftoverPark, PhTyped, RecoverPcs
<1>13. CASE ParkPrevious
  BY <1>13, KeptTyped DEF ParkPrevious, PhTyped, RecoverPcs
<1>14. CASE CopyPoint
  <2>1. [id |-> run, mods |-> PointKernels[point], flag |-> 0] \in Subvolumes
    BY DEF PhTyped, Subvolumes
  <2> QED
    BY <1>14, <2>1 DEF CopyPoint, PhTyped, RecoverPcs
<1>15. CASE FoldBack
  <2>1. PICK r \in Dirs : /\ bootk' = bootk \cup archived[r]
                          /\ archived' = [archived EXCEPT ![r] = NoDir]
    BY <1>15 DEF FoldBack
  <2>2. r \in PhRuns /\ archived[r] \subseteq Kernels
    BY DEF Dirs, PhTyped
  <2>3. bootk' \subseteq Kernels /\ archived' \in [PhRuns -> (SUBSET Kernels) \cup {NoDir}]
    BY <2>1, <2>2 DEF PhTyped
  <2> QED
    BY <1>15, <2>3 DEF FoldBack, PhTyped, RecoverPcs
<1>16. CASE WriteFlag
  BY <1>16, FlagTyped DEF WriteFlag, PhTyped, RecoverPcs
<1>17. CASE RolledBackBoot
  <2>1. archived' \in [PhRuns -> (SUBSET Kernels) \cup {NoDir}]
    BY <1>17 DEF RolledBackBoot, PhTyped
  <2> QED
    BY <1>17, <2>1 DEF RolledBackBoot, PhTyped, RecoverPcs
<1>18. CASE PowerCut
  BY <1>18 DEF PowerCut, Boot, PhTyped, RecoverPcs
<1>19. CASE Reboot
  BY <1>19 DEF Reboot, Boot, PhTyped, RecoverPcs
<1>20. CASE Inspect
  <2>1. /\ plan'.run = lastRun /\ plan'.inflight = InFlight /\ plan'.decision = Decision
        /\ plan'.rollback = (InFlight /\ Exchanged = "no" /\ archived[lastRun] # NoDir)
        /\ pc' = "resume"
    BY <1>20 DEF Inspect
  <2>2. Decision \in {"nothing", "finish", "discard", "park"}
    BY DEF Decision
  <2>4. plan'.rescues \subseteq Kernels \X PhRuns
    BY <1>20 DEF Inspect, Rescues, Dirs
  <2>3. InFlight \in BOOLEAN /\ plan'.rollback \in BOOLEAN
    BY <2>1 DEF InFlight
  <2> QED
    BY <1>20, <2>1, <2>2, <2>3, <2>4 DEF Inspect, PhTyped, RecoverPcs
<1>21. CASE ResumeKernel
  <2>1. PICK k \in archived[plan.run] :
          /\ bootk' = bootk \cup {k}
          /\ archived' = [archived EXCEPT ![plan.run] = @ \ {k}]
    BY <1>21 DEF ResumeKernel
  <2>2. plan.run \in PhRuns /\ archived[plan.run] \subseteq Kernels
    BY <1>21 DEF ResumeKernel, PhTyped, RecoverPcs
  <2>3. /\ bootk' \subseteq Kernels /\ archived' \in [PhRuns -> (SUBSET Kernels) \cup {NoDir}]
        /\ archived'[plan.run] # NoDir
    BY <2>1, <2>2 DEF PhTyped
  <2> QED
    BY <1>21, <2>3 DEF ResumeKernel, PhTyped, RecoverPcs
<1>22. CASE ResumePark
  <2> DEFINE stamp == IF plan.decision = "park" THEN Stamp(run) + 1
                      ELSE Stamp(IF root.flag # 0 THEN root.flag ELSE Named)
             taken == plan.decision = "park" \/ <<stamp, FALSE>> \in TakenNames
             kept == [stamp |-> stamp, recovered |-> taken, sub |-> staging]
  <2>1. prevs' = prevs \cup {kept} /\ staging' = NoSub /\ pc' = "resume_record"
        /\ UNCHANGED <<root, journal, bootfs, script, plan, history>>
    BY <1>22 DEF ResumePark
  <2>2. Named \in PhRuns /\ root.flag \in PhRuns /\ run \in PhRuns
    BY <1>22 DEF ResumePark, Named, PhTyped, RecoverPcs
  <2>3. stamp \in 0..2 * MaxRuns + 1 /\ taken \in BOOLEAN
    BY <2>2, KeptTyped
  <2> HIDE DEF stamp, taken
  <2>4. kept \in KeptRoots
    BY <2>3, KeptTyped
  <2> HIDE DEF kept
  <2> QED
    BY <1>22, <2>1, <2>4 DEF ResumePark, PhTyped, RecoverPcs
<1>23. CASE ResumeRecord
  <2>1. Named \in PhRuns
    BY <1>23 DEF ResumeRecord, Named, PhTyped, RecoverPcs
  <2>2. (CASE plan.decision = "discard" -> "rolled-back"
           [] plan.decision = "finish" -> "complete"
           [] plan.decision = "park" -> "resume") \in Phases
    BY <1>23 DEF ResumeRecord, PhTyped, RecoverPcs, Phases, PreExchange, PostExchange
  <2> QED
    BY <1>23, <2>1, <2>2 DEF ResumeRecord, PhTyped, RecoverPcs
<1>24. CASE CollectKernels
  <2> DEFINE found == {x \in plan.rescues : x[1] \in archived[x[2]]}
  <2>1. /\ bootk' = bootk \cup {x[1] : x \in found}
        /\ archived' = [r \in PhRuns |->
               IF r \in plan.superseded \/ archived[r] = NoDir THEN NoDir
               ELSE archived[r] \ {x[1] : x \in {y \in found : y[2] = r}}]
    BY <1>24 DEF CollectKernels
  <2>2. {x[1] : x \in found} \subseteq Kernels
    BY <1>24 DEF CollectKernels, PhTyped, RecoverPcs
  <2> HIDE DEF found
  <2>3. archived' \in [PhRuns -> (SUBSET Kernels) \cup {NoDir}]
    BY <2>1 DEF PhTyped
  <2> QED
    BY <1>24, <2>1, <2>2, <2>3 DEF CollectKernels, PhTyped, RecoverPcs
<1>25. CASE PostbootFlag
  BY <1>25, FlagTyped DEF PostbootFlag, PhTyped, RecoverPcs
<1> QED
  BY <1>0, <1>r, <1>1, <1>2, <1>3, <1>4, <1>5, <1>6, <1>7, <1>8, <1>9, <1>10, <1>11, <1>12, <1>13, <1>14, <1>15, <1>16, <1>17, <1>18, <1>19, <1>20, <1>21, <1>22, <1>23, <1>24, <1>25 DEF PhNext

BeforeExchange == {"leftover", "leftover_mv", "copy", "boot", "pinned", "mkdir", "archive",
                   "refused", "flag", "begin", "exchange", "exit", "rollback", "swept"}

\* There is one directory of backups at most, and a kernel is in /boot or there.
OneDirectory ==
  /\ \A r, q \in PhRuns : archived[r] # NoDir /\ archived[q] # NoDir => r = q
  /\ \A r \in PhRuns : archived[r] # NoDir => r <= run
  /\ pc \in {"pinned", "mkdir"} => \A r \in PhRuns : archived[r] = NoDir
  /\ pc \in BeforeExchange => moved \/ archived[run] = NoDir
  /\ pc \in {"mkdir", "archive"} => moved
NoneIsLost == \A k \in Kernels : k \in bootk \/ \E r \in PhRuns : k \in archived[r]

\* What phoenix-recover will bring back is what is missing.
PlanFits ==
  pc \in RecoverPcs =>
    /\ plan.superseded = {}
    /\ \A r \in PhRuns : \A k \in archived[r] :
         k \in root.mods /\ k \notin bootk => <<k, r>> \in plan.rescues

PhInv == PhTyped /\ OneDirectory /\ NoneIsLost /\ PlanFits /\ BootMatchesRoot

(* The installed machine has the invariant of /boot.                       *)
LEMMA PhInvInit == PhInit => PhInv
<1> SUFFICES ASSUME PhInit PROVE PhInv
  OBVIOUS
<1>1. PhTyped
  BY PhTypedInit
<1>2. OneDirectory /\ NoneIsLost /\ PlanFits /\ BootMatchesRoot
  BY DEF PhInit, OneDirectory, NoneIsLost, PlanFits, BootMatchesRoot, BeforeExchange, RecoverPcs
<1> QED
  BY <1>1, <1>2 DEF PhInv

(* A step that moves no kernel.                                            *)
LEMMA KernelsStay ==
  ASSUME PhInv, PhTyped', UNCHANGED <<bootk, archived>>, run <= run',
         pc' \in {"pinned", "mkdir"} => \A r \in PhRuns : archived[r] = NoDir,
         pc' \in BeforeExchange => moved' \/ archived[run'] = NoDir,
         pc' \in {"mkdir", "archive"} => moved',
         pc' \in RecoverPcs => pc \in RecoverPcs /\ UNCHANGED <<plan, root>>,
         pc' # "postboot"
  PROVE  PhInv'
<1>1. OneDirectory'
  BY SubvolumeFacts DEF PhInv, PhTyped, OneDirectory, PhRuns
<1>2. NoneIsLost' /\ PlanFits' /\ BootMatchesRoot'
  BY DEF PhInv, NoneIsLost, PlanFits, BootMatchesRoot
<1> QED
  BY <1>1, <1>2 DEF PhInv

(* Every step keeps the invariant of /boot.                                *)
LEMMA PhInvStep == PhInv /\ [PhNext]_phVars => PhInv'
<1> SUFFICES ASSUME PhInv, [PhNext]_phVars PROVE PhInv'
  OBVIOUS
<1>t. PhTyped /\ PhTyped'
  BY PhTypedStep DEF PhInv
<1> USE DEF volume, journal, bootfs, script, history
<1>i. run \in Nat /\ run <= run
  BY <1>t, SubvolumeFacts DEF PhTyped, PhRuns
<1>0. CASE UNCHANGED phVars
  BY <1>0 DEF phVars, PhInv, PhTyped, OneDirectory, NoneIsLost, PlanFits, BootMatchesRoot
<1>1. ASSUME NEW p \in DOMAIN PointKernels, Request(p) PROVE PhInv'
  <2>1. run' = run + 1 /\ pc' = "leftover" /\ UNCHANGED <<bootk, archived>>
    BY <1>1 DEF Request
  <2>2. archived[run'] = NoDir
    <3>1. run' \in PhRuns /\ run < run'
      BY <1>i, <1>t, <2>1 DEF PhTyped
    <3> QED
      BY <1>i, <2>1, <3>1 DEF PhInv, OneDirectory
  <2> QED
    BY <1>i, <1>t, <2>1, <2>2, KernelsStay DEF RecoverPcs
<1>2. CASE LeftoverNone \/ LeftoverFound \/ LeftoverPark \/ CopyPoint \/ Unarchive
  BY <1>2, <1>t, <1>i, KernelsStay DEF LeftoverNone, LeftoverFound, LeftoverPark, CopyPoint,
     Unarchive, PhInv, OneDirectory, BeforeExchange, RecoverPcs
<1>3. CASE ChooseKernel
  BY <1>3, <1>t, <1>i, KernelsStay DEF ChooseKernel, Dirs, PhInv, OneDirectory, BeforeExchange,
     RecoverPcs
<1>4. CASE StageBoot \/ Archived \/ Refused \/ WriteFlag \/ ExchangeBegin
  BY <1>4, <1>t, <1>i, KernelsStay DEF StageBoot, Archived, Refused, WriteFlag, ExchangeBegin,
     PhInv, OneDirectory, BeforeExchange, RecoverPcs
<1>5. CASE Exchange \/ ExchangeFails \/ ExchangeComplete \/ ParkPrevious \/ PreviousParked \/ Complete
  BY <1>5, <1>t, <1>i, KernelsStay DEF Exchange, ExchangeFails, ExchangeComplete, ParkPrevious,
     PreviousParked, Complete, PhInv, OneDirectory, BeforeExchange, RecoverPcs
<1>6. CASE Interrupt \/ Cleanup \/ Swept
  BY <1>6, <1>t, <1>i, KernelsStay DEF Interrupt, Cleanup, Swept, PhInv, OneDirectory,
     BeforeExchange, RecoverPcs
<1>7. CASE PowerCut \/ Reboot
  BY <1>7, <1>t, <1>i, KernelsStay DEF PowerCut, Reboot, Boot, BeforeExchange, RecoverPcs
<1>8. CASE ResumeNothing \/ ResumeDiscard \/ ResumePark \/ ResumeRecord
  BY <1>8, <1>t, <1>i, KernelsStay DEF ResumeNothing, ResumeDiscard, ResumePark, ResumeRecord,
     BeforeExchange, RecoverPcs
<1>9. CASE CollectPrevious \/ PostbootFlag
  BY <1>9, <1>t, <1>i, KernelsStay DEF CollectPrevious, PostbootFlag, BeforeExchange, RecoverPcs
<1>10. CASE FoldBack
  <2>1. PICK r \in Dirs : /\ bootk' = bootk \cup archived[r]
                          /\ archived' = [archived EXCEPT ![r] = NoDir]
    BY <1>10 DEF FoldBack
  <2>2. /\ pc = "boot" /\ pc' = pc /\ run' = run /\ moved' = moved
        /\ r \in PhRuns /\ archived \in [PhRuns -> (SUBSET Kernels) \cup {NoDir}]
        /\ run \in PhRuns
    BY <1>10, <1>t DEF FoldBack, Dirs, PhTyped
  <2>3. /\ archived'[r] = NoDir
        /\ \A q \in PhRuns : q # r => archived'[q] = archived[q]
    BY <2>1, <2>2
  <2>4. OneDirectory'
    BY <2>2, <2>3 DEF PhInv, OneDirectory
  <2>5. NoneIsLost'
    BY <2>1, <2>2, <2>3 DEF PhInv, NoneIsLost
  <2>6. PlanFits' /\ BootMatchesRoot'
    BY <2>2 DEF PlanFits, BootMatchesRoot, RecoverPcs
  <2> QED
    BY <1>t, <2>4, <2>5, <2>6 DEF PhInv
<1>11. CASE MakeArchive
  <2>1. /\ pc = "mkdir" /\ pc' = "archive" /\ run' = run /\ moved' = moved /\ bootk' = bootk
        /\ archived' = [archived EXCEPT ![run] = {}]
        /\ run \in PhRuns /\ archived \in [PhRuns -> (SUBSET Kernels) \cup {NoDir}]
    BY <1>11, <1>t DEF MakeArchive, PhTyped
  <2>2. \A r \in PhRuns : archived[r] = NoDir
    BY <2>1 DEF PhInv, OneDirectory
  <2>3. /\ \A q \in PhRuns : q # run => archived'[q] = NoDir
    BY <2>1, <2>2
  <2>4. OneDirectory'
    BY <1>i, <2>1, <2>3 DEF PhInv, OneDirectory, BeforeExchange
  <2>5. NoneIsLost'
    BY <2>1, <2>2, SubvolumeFacts DEF PhInv, NoneIsLost, NoDir
  <2>6. PlanFits' /\ BootMatchesRoot'
    BY <2>1 DEF PlanFits, BootMatchesRoot, RecoverPcs
  <2> QED
    BY <1>t, <2>4, <2>5, <2>6 DEF PhInv
<1>12. CASE ArchiveKernel
  <2>1. PICK k \in bootk \ PointKernels[point] :
          /\ bootk' = bootk \ {k}
          /\ archived' = [archived EXCEPT ![run] = @ \cup {k}]
    BY <1>12 DEF ArchiveKernel
  <2>2. /\ pc = "archive" /\ pc' = pc /\ run' = run /\ moved' = moved
        /\ run \in PhRuns /\ archived \in [PhRuns -> (SUBSET Kernels) \cup {NoDir}]
        /\ archived[run] # NoDir
    BY <1>12, <1>t DEF ArchiveKernel, PhTyped
  <2>3. /\ archived'[run] = archived[run] \cup {k}
        /\ \A q \in PhRuns : q # run => archived'[q] = archived[q]
    BY <2>1, <2>2
  <2>4. OneDirectory'
    BY <2>2, <2>3 DEF PhInv, OneDirectory
  <2>5. NoneIsLost'
    BY <2>1, <2>2, <2>3 DEF PhInv, NoneIsLost
  <2>6. PlanFits' /\ BootMatchesRoot'
    BY <2>2 DEF PlanFits, BootMatchesRoot, RecoverPcs
  <2> QED
    BY <1>t, <2>4, <2>5, <2>6 DEF PhInv
<1>13. CASE RollbackKernel
  <2>1. PICK k \in archived[run] :
          /\ bootk' = bootk \cup {k}
          /\ archived' = [archived EXCEPT ![run] = @ \ {k}]
    BY <1>13 DEF RollbackKernel
  <2>2. /\ pc = "rollback" /\ pc' = pc /\ run' = run /\ moved' = moved /\ moved
        /\ run \in PhRuns /\ archived \in [PhRuns -> (SUBSET Kernels) \cup {NoDir}]
        /\ archived[run] # NoDir
    BY <1>13, <1>t DEF RollbackKernel, PhTyped
  <2>3. /\ archived'[run] = archived[run] \ {k}
        /\ \A q \in PhRuns : q # run => archived'[q] = archived[q]
    BY <2>1, <2>2
  <2>4. OneDirectory'
    BY <2>2, <2>3 DEF PhInv, OneDirectory
  <2>5. NoneIsLost'
    BY <2>1, <2>2, <2>3 DEF PhInv, NoneIsLost
  <2>6. PlanFits' /\ BootMatchesRoot'
    BY <2>2 DEF PlanFits, BootMatchesRoot, RecoverPcs
  <2> QED
    BY <1>t, <2>4, <2>5, <2>6 DEF PhInv
<1>14. CASE RolledBackBoot
  <2>1. /\ pc = "rollback" /\ pc' \in {"swept", "refused"} /\ run' = run /\ bootk' = bootk
        /\ archived' = [archived EXCEPT ![run] = NoDir]
        /\ run \in PhRuns /\ archived \in [PhRuns -> (SUBSET Kernels) \cup {NoDir}]
        /\ archived[run] \in {NoDir, {}}
    BY <1>14, <1>t DEF RolledBackBoot, PhTyped, PhInv, OneDirectory, BeforeExchange
  <2>2. /\ archived'[run] = NoDir
        /\ \A q \in PhRuns : q # run => archived'[q] = archived[q]
    BY <2>1
  <2>3. OneDirectory'
    BY <2>1, <2>2 DEF PhInv, OneDirectory
  <2>4. NoneIsLost'
    BY <2>1, <2>2 DEF PhInv, NoneIsLost
  <2>5. PlanFits' /\ BootMatchesRoot'
    BY <2>1 DEF PlanFits, BootMatchesRoot, RecoverPcs
  <2> QED
    BY <1>t, <2>3, <2>4, <2>5 DEF PhInv
<1>15. CASE Inspect
  <2>1. /\ pc' = "resume" /\ UNCHANGED <<bootk, archived, run, moved, root>>
        /\ plan'.rescues = Rescues /\ plan'.superseded = Superseded
    BY <1>15 DEF Inspect
  <2>2. OneDirectory' /\ NoneIsLost' /\ BootMatchesRoot'
    BY <2>1 DEF PhInv, OneDirectory, NoneIsLost, BootMatchesRoot, BeforeExchange
  <2>3. \A r, q \in Dirs : r = q
    BY DEF Dirs, PhInv, OneDirectory
  <2>4. ASSUME NEW r \in Dirs PROVE r = Max(Dirs)
    <3>1. Dirs = {r}
      BY <2>3
    <3>2. Max({r}) = r
      BY <1>t, SubvolumeFacts DEF Max, Dirs, PhTyped, PhRuns
    <3> QED
      BY <3>1, <3>2
  <2>5. Superseded = {}
    BY <2>4 DEF Superseded
  <2>6. ASSUME NEW r \in PhRuns, NEW k \in archived[r], k \in root.mods, k \notin bootk
        PROVE  <<k, r>> \in Rescues
    <3>1. k \in Kernels /\ r \in Dirs
      BY <1>t, <2>6, SubvolumeFacts DEF PhTyped, NoDir, Dirs
    <3>2. \A q \in Dirs : q <= r
      BY <2>3, <3>1, SubvolumeFacts DEF PhRuns
    <3> QED
      BY <2>6, <3>1, <3>2 DEF Rescues
  <2>7. PlanFits'
    BY <2>1, <2>5, <2>6 DEF PlanFits
  <2> QED
    BY <1>t, <2>2, <2>7 DEF PhInv
<1>16. CASE ResumeKernel
  <2>1. PICK k \in archived[plan.run] :
          /\ bootk' = bootk \cup {k}
          /\ archived' = [archived EXCEPT ![plan.run] = @ \ {k}]
    BY <1>16 DEF ResumeKernel
  <2> DEFINE d == plan.run
  <2>2. /\ pc = "resume" /\ pc' = pc /\ UNCHANGED <<run, moved, plan, root>>
        /\ d \in PhRuns /\ archived \in [PhRuns -> (SUBSET Kernels) \cup {NoDir}]
        /\ archived[d] # NoDir
    BY <1>16, <1>t DEF ResumeKernel, PhTyped, RecoverPcs
  <2> HIDE DEF d
  <2>3. /\ archived'[d] = archived[d] \ {k}
        /\ \A q \in PhRuns : q # d => archived'[q] = archived[q]
    BY <2>1, <2>2 DEF d
  <2>4. OneDirectory'
    BY <2>2, <2>3 DEF PhInv, OneDirectory, BeforeExchange
  <2>5. NoneIsLost'
    BY <2>1, <2>2, <2>3 DEF PhInv, NoneIsLost, d
  <2>6. PlanFits' /\ BootMatchesRoot'
    BY <2>1, <2>2, <2>3 DEF PhInv, PlanFits, BootMatchesRoot, RecoverPcs, d
  <2> QED
    BY <1>t, <2>4, <2>5, <2>6 DEF PhInv
<1>17. CASE ResumeBoot /\ ~plan.rollback
  BY <1>17, <1>t, <1>i, KernelsStay DEF ResumeBoot, BeforeExchange, RecoverPcs
<1>18. CASE ResumeBoot /\ plan.rollback
  <2> DEFINE d == plan.run
  <2>1. /\ pc = "resume" /\ pc' = "resume_staging" /\ UNCHANGED <<run, moved, plan, root, bootk>>
        /\ archived[d] = {} /\ archived' = [archived EXCEPT ![d] = NoDir]
        /\ d \in PhRuns /\ archived \in [PhRuns -> (SUBSET Kernels) \cup {NoDir}]
    BY <1>18, <1>t DEF ResumeBoot, PhTyped, RecoverPcs
  <2> HIDE DEF d
  <2>2. /\ archived'[d] = NoDir
        /\ \A q \in PhRuns : q # d => archived'[q] = archived[q]
    BY <2>1
  <2>3. OneDirectory'
    BY <2>1, <2>2 DEF PhInv, OneDirectory, BeforeExchange
  <2>4. NoneIsLost'
    BY <2>1, <2>2 DEF PhInv, NoneIsLost
  <2>5. PlanFits'
    <3> SUFFICES ASSUME NEW r \in PhRuns, NEW k \in archived'[r], k \in root.mods, k \notin bootk
                 PROVE  <<k, r>> \in plan.rescues
      BY <2>1 DEF PhInv, PlanFits, RecoverPcs
    <3>1. k # -1
      BY <1>t, SubvolumeFacts DEF PhTyped
    <3>2. r # d
      BY <2>2, <3>1 DEF NoDir
    <3> QED
      BY <2>1, <2>2, <3>2 DEF PhInv, PlanFits, RecoverPcs
  <2>6. BootMatchesRoot'
    BY <2>1 DEF BootMatchesRoot
  <2> QED
    BY <1>t, <2>3, <2>4, <2>5, <2>6 DEF PhInv
<1>19. CASE CollectKernels
  <2> DEFINE found == {x \in plan.rescues : x[1] \in archived[x[2]]}
             rescued(r) == {x[1] : x \in {y \in found : y[2] = r}}
  <2>1. /\ pc = "gc_kernels" /\ pc' = "postboot" /\ UNCHANGED <<run, moved, root>>
        /\ plan.superseded = {}
        /\ bootk' = bootk \cup {x[1] : x \in found}
        /\ archived' = [r \in PhRuns |->
               IF r \in plan.superseded \/ archived[r] = NoDir THEN NoDir ELSE archived[r] \ rescued(r)]
    BY <1>19 DEF CollectKernels, PhInv, PlanFits, RecoverPcs
  <2>2. /\ \A r \in PhRuns : archived'[r] = IF archived[r] = NoDir THEN NoDir ELSE archived[r] \ rescued(r)
    BY <2>1
  <2>3. \A r \in PhRuns : \A k \in rescued(r) : k \in bootk'
    BY <2>1
  <2> HIDE DEF rescued
  <2>4. OneDirectory'
    BY <2>1, <2>2 DEF PhInv, OneDirectory, BeforeExchange
  <2>5. NoneIsLost'
    <3> SUFFICES ASSUME NEW k \in Kernels, k \notin bootk' PROVE \E r \in PhRuns : k \in archived'[r]
      BY DEF NoneIsLost
    <3>1. k \notin bootk
      BY <2>1
    <3>2. PICK r \in PhRuns : k \in archived[r]
      BY <3>1 DEF PhInv, NoneIsLost
    <3> QED
      BY <2>2, <2>3, <3>2
  <2>6. BootMatchesRoot'
    <3> SUFFICES ASSUME NEW k \in root.mods PROVE k \in bootk'
      BY <2>1 DEF BootMatchesRoot
    <3>1. CASE k \in bootk
      BY <2>1, <3>1
    <3>2. CASE k \notin bootk
      <4>1. k \in Kernels
        BY <1>t, SubvolumeFacts DEF PhTyped
      <4>2. PICK r \in PhRuns : k \in archived[r]
        BY <3>2, <4>1 DEF PhInv, NoneIsLost
      <4>3. <<k, r>> \in plan.rescues
        BY <2>1, <3>2, <4>2 DEF PhInv, PlanFits, RecoverPcs
      <4>4. <<k, r>> \in found
        BY <4>2, <4>3
      <4>5. k \in {x[1] : x \in found}
        BY <4>4
      <4> QED
        BY <2>1, <4>5
    <3> QED
      BY <3>1, <3>2
  <2>7. PlanFits'
    BY <2>1 DEF PlanFits, RecoverPcs
  <2> QED
    BY <1>t, <2>4, <2>5, <2>6, <2>7 DEF PhInv
<1> QED
  BY <1>0, <1>1, <1>2, <1>3, <1>4, <1>5, <1>6, <1>7, <1>8, <1>9, <1>10, <1>11, <1>12, <1>13, <1>14,
     <1>15, <1>16, <1>17, <1>18, <1>19 DEF PhNext

-----------------------------------------------------------------------------
(* The roots, when no overlay session is booted and no second restore is   *)
(* asked for before the reboot.                                            *)

Staged == {"boot", "pinned", "mkdir", "archive", "flag", "begin", "exchange"}
Late == {"exchange-complete", "previous-parked"}

\* The name that the last exchange gives is the newest one, and given once.
NamesInOrder ==
  /\ root.id \in 0..run /\ root.flag \in {0, root.id} /\ lived \subseteq 0..run
  /\ \A p \in prevs : ~p.recovered => p.stamp <= Stamp(root.id)
  /\ \A p, q \in prevs :
       ~p.recovered /\ ~q.recovered /\ p.stamp = Stamp(root.id) /\ q.stamp = Stamp(root.id)
         => p = q
  /\ pc = "parked" => staging = NoSub

\* Up to the exchange @new is a copy that has not been the root.
RunIsNew ==
  /\ pc \in BeforeExchange =>
       /\ root.id \in lived /\ root.id < run /\ run \notin lived /\ lastRun = run
       /\ phase[run] \notin Late
  /\ pc \in Staged => staging.id = run
  /\ pc \in {"begin", "exchange"} => staging.flag = run
  /\ pc = "exchange" => phase[run] = "exchange-begin"

\* The root that was replaced is @new, and what is on record makes the next boot
\* finish the exchange.
Swapped ==
  /\ staging # NoSub /\ staging.id = previous /\ staging.id \in lived
  /\ root.flag = root.id /\ root.id = lastRun /\ root.id >= 1
  /\ phase[lastRun] \in {"exchange-begin", "exchange-complete", "complete"}
  /\ staging.flag < root.id
  /\ \A p \in prevs : ~p.recovered => p.stamp < Stamp(root.id)
  /\ \/ pc \in {"exchanged", "park"} /\ run = root.id /\ root.id \notin lived
     \/ pc = "idle" /\ root.id \notin lived
     \/ pc = "inspect"
     \/ pc \in {"resume", "resume_staging"} /\ plan.decision = "finish" /\ ~plan.rollback

\* It is kept under its name, or nothing was replaced; @new is nobody's root.
Held == \E p \in prevs : ~p.recovered /\ p.stamp = Stamp(root.id) /\ p.sub.id = previous
Settled ==
  /\ (previous = root.id /\ root.id = 0) \/ Held
  /\ staging # NoSub => staging.id \notin lived /\ staging.id # root.id
  /\ phase[lastRun] \in Late => staging = NoSub
  /\ pc \notin {"exchanged", "park"}
  /\ pc \in {"resume", "resume_staging"} /\ plan.decision = "finish" => root.flag # 0

RootsInv == PhTyped /\ NamesInOrder /\ RunIsNew /\ (Swapped \/ Settled)

(* The installed machine has the invariant of the roots.                   *)
LEMMA RootsInvInit == PhInit => RootsInv
<1> SUFFICES ASSUME PhInit PROVE RootsInv
  OBVIOUS
<1>1. PhTyped
  BY PhTypedInit
<1>2. NamesInOrder /\ RunIsNew /\ Settled
  BY SubvolumeFacts DEF PhInit, NamesInOrder, RunIsNew, Settled, BeforeExchange, Staged, Late, PhRuns
<1> QED
  BY <1>1, <1>2 DEF RootsInv

\* A step of phoenix-restore before the exchange.
RunGoesOn ==
  /\ pc \in BeforeExchange /\ pc' \in BeforeExchange \cup {"idle"}
  /\ UNCHANGED <<root, prevs, previous, lived, run>>
  /\ lastRun' = run /\ phase'[run] \notin Late
  /\ staging' # NoSub => staging'.id \notin lived /\ staging'.id # root.id
  /\ pc' \in Staged => staging'.id = run
  /\ pc' \in {"begin", "exchange"} => staging'.flag = run
  /\ pc' = "exchange" => phase'[run] = "exchange-begin"

(* A step inside a run, before the exchange, touches @new only.            *)
LEMMA RunGoesOnKeeps ==
  ASSUME RootsInv, PhTyped', RunGoesOn
  PROVE  RootsInv'
<1>1. NamesInOrder'
  BY DEF RootsInv, NamesInOrder, RunGoesOn, BeforeExchange
<1>2. RunIsNew'
  BY DEF RootsInv, RunIsNew, RunGoesOn
<1>3. Settled
  BY DEF RootsInv, Swapped, RunGoesOn, BeforeExchange
<1>4. Settled'
  BY <1>3 DEF Settled, Held, RunGoesOn, BeforeExchange
<1> QED
  BY <1>1, <1>2, <1>4 DEF RootsInv

(* Those are the steps of phoenix-restore before the exchange.             *)
LEMMA RunSteps ==
  ASSUME RootsInv,
         \/ LeftoverNone \/ LeftoverFound \/ CopyPoint \/ Unarchive \/ FoldBack
         \/ ChooseKernel \/ StageBoot \/ MakeArchive \/ ArchiveKernel \/ Archived
         \/ Refused \/ WriteFlag \/ ExchangeBegin \/ ExchangeFails \/ Interrupt \/ Cleanup
         \/ RollbackKernel \/ RolledBackBoot \/ Swept
  PROVE  RunGoesOn
<1> USE DEF volume, journal, bootfs, script, history
<1>1. pc \in BeforeExchange
  BY DEF LeftoverNone, LeftoverFound, CopyPoint, Unarchive, FoldBack, ChooseKernel, StageBoot,
     MakeArchive, ArchiveKernel, Archived, Refused, WriteFlag, ExchangeBegin, ExchangeFails,
     Interrupt, Cleanup, RollbackKernel, RolledBackBoot, Swept, BeforeExchange
<1>2. /\ root.id \in lived /\ root.id < run /\ run \notin lived /\ lastRun = run
      /\ phase[run] \notin Late
      /\ pc \in Staged => staging.id = run
      /\ pc \in {"begin", "exchange"} => staging.flag = run
      /\ pc = "exchange" => phase[run] = "exchange-begin"
      /\ run \in PhRuns /\ phase \in [PhRuns -> Phases] /\ back \in {"swept", "refused"}
      /\ staging # NoSub => staging.id \notin lived /\ staging.id # root.id
      /\ root.id \in Int /\ run \in Int /\ staging \in Subvolumes
  BY <1>1, SubvolumeFacts DEF RootsInv, RunIsNew, PhTyped, Swapped, Settled, BeforeExchange
<1>3. CASE LeftoverNone
  BY <1>3, <1>2 DEF LeftoverNone, Journalled, RunGoesOn, BeforeExchange, Staged, Late
<1>4. CASE LeftoverFound
  BY <1>4, <1>2 DEF LeftoverFound, Journalled, RunGoesOn, BeforeExchange, Staged, Late
<1>5. CASE CopyPoint
  BY <1>5, <1>2 DEF CopyPoint, Journalled, RunGoesOn, BeforeExchange, Staged, Late, NoSub
<1>6. CASE Unarchive
  BY <1>6, <1>2 DEF Unarchive, Journalled, RunGoesOn, BeforeExchange, Staged, Late
<1>7. CASE FoldBack
  BY <1>7, <1>2 DEF FoldBack, Journalled, RunGoesOn, BeforeExchange, Staged, Late
<1>8. CASE ChooseKernel
  BY <1>8, <1>2 DEF ChooseKernel, Journalled, RunGoesOn, BeforeExchange, Staged, Late
<1>9. CASE StageBoot
  BY <1>9, <1>2 DEF StageBoot, Journalled, RunGoesOn, BeforeExchange, Staged, Late
<1>10. CASE MakeArchive
  BY <1>10, <1>2 DEF MakeArchive, Journalled, RunGoesOn, BeforeExchange, Staged, Late
<1>11. CASE ArchiveKernel
  BY <1>11, <1>2 DEF ArchiveKernel, Journalled, RunGoesOn, BeforeExchange, Staged, Late
<1>12. CASE Archived
  BY <1>12, <1>2 DEF Archived, Journalled, RunGoesOn, BeforeExchange, Staged, Late
<1>13. CASE Refused
  BY <1>13, <1>2 DEF Refused, Journalled, RunGoesOn, BeforeExchange, Staged, Late
<1>14. CASE WriteFlag
  BY <1>14, <1>2 DEF WriteFlag, Journalled, RunGoesOn, BeforeExchange, Staged, Late, Subvolumes
<1>15. CASE ExchangeBegin
  BY <1>15, <1>2 DEF ExchangeBegin, Journalled, RunGoesOn, BeforeExchange, Staged, Late
<1>16. CASE ExchangeFails
  BY <1>16, <1>2 DEF ExchangeFails, Journalled, RunGoesOn, BeforeExchange, Staged, Late
<1>17. CASE Interrupt
  BY <1>17, <1>2 DEF Interrupt, Journalled, RunGoesOn, BeforeExchange, Staged, Late
<1>18. CASE Cleanup
  BY <1>18, <1>2 DEF Cleanup, Journalled, RunGoesOn, BeforeExchange, Staged, Late
<1>19. CASE RollbackKernel
  BY <1>19, <1>2 DEF RollbackKernel, Journalled, RunGoesOn, BeforeExchange, Staged, Late
<1>20. CASE RolledBackBoot
  BY <1>20, <1>2 DEF RolledBackBoot, Journalled, RunGoesOn, BeforeExchange, Staged, Late
<1>21. CASE Swept
  BY <1>21, <1>2 DEF Swept, Journalled, RunGoesOn, BeforeExchange, Staged, Late
<1> QED
  BY <1>3, <1>4, <1>5, <1>6, <1>7, <1>8, <1>9, <1>10, <1>11, <1>12, <1>13, <1>14, <1>15, <1>16, <1>17, <1>18, <1>19, <1>20, <1>21

(* A run is only asked for when the last exchange has been booted.         *)
LEMMA RequestKeeps ==
  ASSUME RestoreAgain = FALSE, RootsInv, PhTyped', NEW p \in DOMAIN PointKernels, Request(p)
  PROVE  RootsInv'
<1>1. /\ pc = "idle" /\ pc' = "leftover" /\ run' = run + 1 /\ root.id \in lived
      /\ lastRun' = run + 1 /\ phase' = [phase EXCEPT ![run + 1] = "requested"]
      /\ UNCHANGED <<root, staging, prevs, previous, lived>>
  BY DEF Request, Journalled, volume, history
<1>2. /\ run \in Int /\ run >= 0 /\ run + 1 \in PhRuns /\ phase \in [PhRuns -> Phases]
      /\ lived \subseteq 0..run /\ root.id \in 0..run
  BY <1>1, SubvolumeFacts DEF RootsInv, PhTyped, NamesInOrder, PhRuns
<1>3. phase'[run'] = "requested"
  BY <1>1, <1>2
<1>4. Settled
  BY <1>1 DEF RootsInv, Swapped
<1>5. NamesInOrder'
  BY <1>1, <1>2 DEF RootsInv, NamesInOrder
<1>6. RunIsNew'
  BY <1>1, <1>2, <1>3 DEF RunIsNew, Staged, Late
<1>7. Settled'
  BY <1>1, <1>3, <1>4 DEF Settled, Held, Late
<1> QED
  BY <1>5, <1>6, <1>7 DEF RootsInv

(* With the last replaced root retained, a step that keeps @ and what is   *)
(* retained leaves it so.                                                  *)
LEMMA SettledStays ==
  ASSUME RootsInv, PhTyped', Settled, UNCHANGED <<root, previous, lived, run>>,
         pc' \notin BeforeExchange \cup {"exchanged", "park", "parked"},
         staging' \in {staging, NoSub}, Held => Held',
         \A p \in prevs' : p.recovered \/ p \in prevs,
         phase'[lastRun'] \in Late => staging' = NoSub,
         pc' \in {"resume", "resume_staging"} /\ plan'.decision = "finish" => root.flag # 0
  PROVE  RootsInv'
<1>1. NamesInOrder'
  BY DEF RootsInv, NamesInOrder
<1>2. RunIsNew'
  BY DEF RunIsNew, BeforeExchange, Staged
<1>3. Settled'
  BY DEF Settled
<1> QED
  BY <1>1, <1>2, <1>3 DEF RootsInv

(* The exchange itself: the run is the newest, so its name will be too.    *)
LEMMA ExchangeKeeps ==
  ASSUME RootsInv, PhTyped', Exchange
  PROVE  RootsInv'
<1>1. /\ pc = "exchange" /\ pc' = "exchanged" /\ root' = staging /\ staging' = root
      /\ UNCHANGED <<prevs, lived, run, lastRun, phase>>
      /\ previous' = (IF root.id \in lived THEN root.id ELSE previous)
  BY DEF Exchange, journal, script
<1>2. /\ root.id \in lived /\ root.id < run /\ run \notin lived /\ lastRun = run
      /\ staging.id = run /\ staging.flag = run /\ phase[run] = "exchange-begin"
  BY <1>1 DEF RootsInv, RunIsNew, BeforeExchange, Staged
<1>3. /\ root.id \in Int /\ run \in Int /\ root.id >= 0 /\ root.flag \in {0, root.id}
      /\ lived \subseteq 0..run /\ run > 0
      /\ \A p \in prevs : ~p.recovered => p.stamp <= Stamp(root.id)
      /\ \A p \in prevs : p.stamp \in Int
  BY <1>2, SubvolumeFacts DEF RootsInv, PhTyped, NamesInOrder, PhRuns, KeptRoots
<1>4. \A p \in prevs : ~p.recovered => p.stamp < Stamp(run)
  BY <1>2, <1>3 DEF Stamp
<1>5. NamesInOrder'
  BY <1>1, <1>2, <1>3, <1>4 DEF NamesInOrder, Stamp
<1>6. RunIsNew'
  BY <1>1 DEF RunIsNew, BeforeExchange, Staged
<1>7. staging' # NoSub
  BY <1>1, <1>3 DEF NoSub
<1>8. Swapped'
  BY <1>1, <1>2, <1>3, <1>4, <1>7 DEF Swapped
<1> QED
  BY <1>5, <1>6, <1>8 DEF RootsInv

(* The replaced root leaves @new under the name of the exchange.           *)
LEMMA ParkedIsHeld ==
  ASSUME RootsInv, PhTyped', Swapped,
         prevs' = prevs \cup {[stamp |-> Stamp(root.id), recovered |-> FALSE, sub |-> staging]},
         staging' = NoSub, UNCHANGED <<root, previous, lived, run>>,
         pc' \in {"parked", "resume_record"}
  PROVE  RootsInv'
<1> DEFINE k == [stamp |-> Stamp(root.id), recovered |-> FALSE, sub |-> staging]
<1>1. /\ k \in prevs' /\ ~k.recovered /\ k.stamp = Stamp(root.id) /\ k.sub.id = previous
      /\ \A p \in prevs' : p \in prevs \/ p = k
  BY DEF Swapped
<1> HIDE DEF k
<1>2. \A p \in prevs : ~p.recovered => p.stamp < Stamp(root.id) /\ p.stamp \in Int
  BY SubvolumeFacts DEF Swapped, RootsInv, PhTyped, KeptRoots
<1>3. Stamp(root.id) \in Int
  BY DEF RootsInv, NamesInOrder, Stamp
<1>4. NamesInOrder'
  BY <1>1, <1>2, <1>3 DEF RootsInv, NamesInOrder
<1>5. RunIsNew'
  BY DEF RunIsNew, BeforeExchange, Staged
<1>6. Settled'
  BY <1>1 DEF Settled, Held
<1> QED
  BY <1>4, <1>5, <1>6 DEF RootsInv

(* phoenix-restore after the exchange.                                     *)
LEMMA AfterExchangeKeeps ==
  ASSUME RootsInv, PhTyped',
         ExchangeComplete \/ ParkPrevious \/ PreviousParked \/ Complete
  PROVE  RootsInv'
<1> USE DEF volume, journal, bootfs, script, history
<1>t. run \in PhRuns /\ phase \in [PhRuns -> Phases]
  BY DEF RootsInv, PhTyped
<1>1. CASE ExchangeComplete
  <2>1. /\ pc = "exchanged" /\ pc' = "park" /\ lastRun' = run
        /\ phase'[run] = "exchange-complete"
        /\ UNCHANGED <<root, staging, prevs, previous, lived, run>>
    BY <1>1, <1>t DEF ExchangeComplete, Journalled
  <2>2. Swapped
    BY <2>1 DEF RootsInv, Settled
  <2>3. Swapped'
    BY <2>1, <2>2 DEF Swapped
  <2>4. NamesInOrder' /\ RunIsNew'
    BY <2>1 DEF RootsInv, NamesInOrder, RunIsNew, BeforeExchange, Staged
  <2> QED
    BY <2>3, <2>4 DEF RootsInv
<1>2. CASE ParkPrevious
  <2>1. /\ pc = "park" /\ pc' = "parked" /\ staging' = NoSub
        /\ prevs' = prevs \cup {[stamp |-> Stamp(run), recovered |-> FALSE, sub |-> staging]}
        /\ UNCHANGED <<root, previous, lived, run>>
    BY <1>2 DEF ParkPrevious
  <2>2. Swapped /\ run = root.id
    BY <2>1 DEF RootsInv, Settled, Swapped
  <2> QED
    BY <2>1, <2>2, ParkedIsHeld
<1>3. CASE PreviousParked
  <2>1. /\ pc = "parked" /\ pc' = "complete" /\ lastRun' = run
        /\ UNCHANGED <<root, staging, prevs, previous, lived, run>>
    BY <1>3 DEF PreviousParked, Journalled
  <2>2. Settled /\ staging = NoSub
    BY <2>1 DEF RootsInv, Swapped, NamesInOrder
  <2> QED
    BY <2>1, <2>2, SettledStays DEF BeforeExchange, Held
<1>4. CASE Complete
  <2>1. /\ pc \in {"park", "complete"} /\ pc' = "idle" /\ lastRun' = run
        /\ phase'[run] = "complete"
        /\ UNCHANGED <<root, staging, prevs, previous, lived, run>>
    BY <1>4, <1>t DEF Complete, Journalled
  <2>2. NamesInOrder' /\ RunIsNew'
    BY <2>1 DEF RootsInv, NamesInOrder, RunIsNew, BeforeExchange, Staged
  <2>3. CASE Swapped
    <3>1. Swapped'
      BY <2>1, <2>3 DEF Swapped
    <3> QED
      BY <2>2, <3>1 DEF RootsInv
  <2>4. CASE Settled
    BY <2>1, <2>4, SettledStays DEF BeforeExchange, Held, Late
  <2> QED
    BY <2>3, <2>4 DEF RootsInv
<1> QED
  BY <1>1, <1>2, <1>3, <1>4

(* What is parked before the copy never ran: it is not the replaced root.  *)
LEMMA LeftoverParkKeeps ==
  ASSUME RootsInv, PhTyped', LeftoverPark
  PROVE  RootsInv'
<1>1. /\ pc = "leftover_mv" /\ pc' = "leftover" /\ staging' = NoSub
      /\ \A p \in prevs' : p.recovered \/ p \in prevs
      /\ prevs \subseteq prevs'
      /\ UNCHANGED <<root, previous, lived, run, lastRun, phase>>
  BY DEF LeftoverPark, journal, script, history
<1>2. Settled
  BY <1>1 DEF RootsInv, Swapped
<1>3. NamesInOrder'
  BY <1>1 DEF RootsInv, NamesInOrder
<1>4. RunIsNew'
  BY <1>1 DEF RootsInv, RunIsNew, BeforeExchange, Staged
<1>5. Settled'
  BY <1>1, <1>2 DEF Settled, Held
<1> QED
  BY <1>3, <1>4, <1>5 DEF RootsInv

(* A power cut or a reboot: the machine comes up in phoenix-recover.       *)
LEMMA BootKeeps ==
  ASSUME OverlayBoots = FALSE, RootsInv, PhTyped', PowerCut \/ Reboot
  PROVE  RootsInv'
<1>1. /\ pc' = "inspect" /\ lived' = lived \cup {root.id}
      /\ UNCHANGED <<root, staging, prevs, lastRun, phase, run, previous>>
  BY DEF PowerCut, Reboot, Boot, volume, journal
<1>2. NamesInOrder' /\ RunIsNew'
  BY <1>1 DEF RootsInv, NamesInOrder, RunIsNew, BeforeExchange, Staged
<1>3. Swapped => Swapped'
  BY <1>1 DEF Swapped
<1>4. Settled => Settled'
  BY <1>1 DEF Settled, Held
<1> QED
  BY <1>2, <1>3, <1>4 DEF RootsInv

(* What phoenix-recover reads makes it finish an exchange that happened.   *)
LEMMA InspectKeeps ==
  ASSUME RootsInv, PhTyped', Inspect
  PROVE  RootsInv'
<1>1. /\ pc = "inspect" /\ pc' = "resume" /\ plan'.decision = Decision
      /\ plan'.rollback = (InFlight /\ Exchanged = "no" /\ archived[lastRun] # NoDir)
      /\ UNCHANGED <<root, staging, prevs, lastRun, phase, run, previous, lived>>
  BY DEF Inspect, volume, journal, script, history
<1>2. /\ root.id \in Int /\ staging.flag \in Int /\ staging.flag >= 0
      /\ root.flag \in Int /\ root.flag >= 0
  BY SubvolumeFacts DEF RootsInv, PhTyped, PhRuns, NamesInOrder
<1>3. NamesInOrder' /\ RunIsNew'
  BY <1>1 DEF RootsInv, NamesInOrder, RunIsNew, BeforeExchange, Staged
<1>4. CASE Swapped
  <2>1. /\ staging # NoSub /\ root.flag = lastRun /\ lastRun # 0 /\ staging.flag < root.flag
        /\ phase[lastRun] \in {"exchange-begin", "exchange-complete", "complete"}
    BY <1>2, <1>4 DEF Swapped
  <2>2. Exchanged = "yes"
    <3>1. CASE InFlight
      BY <2>1, <3>1 DEF Exchanged, InFlight, PreExchange, PostExchange, Terminal
    <3>2. CASE ~InFlight
      BY <2>1, <3>2 DEF Exchanged
    <3> QED
      BY <3>1, <3>2
  <2>3. Decision = "finish"
    BY <2>1, <2>2 DEF Decision
  <2>4. Swapped'
    BY <1>1, <1>4, <2>2, <2>3 DEF Swapped
  <2> QED
    BY <1>3, <2>4 DEF RootsInv
<1>5. CASE Settled
  <2>1. ASSUME Decision = "finish" PROVE root.flag # 0
    <3>1. staging # NoSub /\ Exchanged = "yes"
      BY <2>1 DEF Decision
    <3>2. phase[lastRun] \notin Late
      BY <1>5, <3>1 DEF Settled
    <3>3. CASE InFlight
      <4>1. phase[lastRun] \notin PostExchange
        BY <3>2, <3>3 DEF InFlight, Late, PostExchange, Terminal
      <4> QED
        BY <3>1, <3>3, <4>1 DEF Exchanged
    <3>4. CASE ~InFlight
      BY <1>2, <3>1, <3>4 DEF Exchanged
    <3> QED
      BY <3>3, <3>4
  <2>2. Settled'
    BY <1>1, <1>5, <2>1 DEF Settled, Held
  <2> QED
    BY <1>3, <2>2 DEF RootsInv
<1> QED
  BY <1>4, <1>5 DEF RootsInv

(* phoenix-recover's other steps: it discards @new only when the exchange  *)
(* has not happened.                                                       *)
LEMMA RecoverKeeps ==
  ASSUME RootsInv, PhTyped',
         \/ ResumeKernel \/ ResumeBoot \/ ResumeNothing \/ ResumeDiscard \/ ResumeRecord
         \/ CollectKernels
  PROVE  RootsInv'
<1> USE DEF volume, journal, bootfs, script, history
<1>t. /\ phase \in [PhRuns -> Phases] /\ lastRun \in PhRuns
      /\ pc \in RecoverPcs => plan.run \in PhRuns
  BY DEF RootsInv, PhTyped
<1>0. 0 \in PhRuns
  BY SubvolumeFacts
<1>1. CASE Swapped
  <2>1. /\ pc \in {"resume", "resume_staging"} /\ plan.decision = "finish" /\ ~plan.rollback
    BY <1>1 DEF Swapped, ResumeKernel, ResumeBoot, ResumeNothing, ResumeDiscard, ResumeRecord,
       CollectKernels
  <2>2. /\ pc' = "resume_staging" /\ plan' = plan
        /\ UNCHANGED <<root, staging, prevs, lastRun, phase, run, previous, lived>>
    BY <2>1 DEF ResumeKernel, ResumeBoot, ResumeNothing, ResumeDiscard, ResumeRecord,
       CollectKernels
  <2>3. NamesInOrder' /\ RunIsNew'
    BY <2>2 DEF RootsInv, NamesInOrder, RunIsNew, BeforeExchange, Staged
  <2>4. Swapped'
    BY <1>1, <2>1, <2>2 DEF Swapped
  <2> QED
    BY <2>3, <2>4 DEF RootsInv
<1>2. CASE Settled
  <2>1. /\ UNCHANGED <<root, prevs, previous, lived, run>>
        /\ staging' \in {staging, NoSub}
        /\ pc' \in RecoverPcs \cup {"postboot"}
    BY DEF ResumeKernel, ResumeBoot, ResumeNothing, ResumeDiscard, ResumeRecord, CollectKernels,
       RecoverPcs
  <2>2. phase'[lastRun'] \in Late => staging' = NoSub
    <3>1. CASE UNCHANGED journal
      BY <1>2, <2>1, <3>1 DEF Settled
    <3>2. CASE ResumeBoot /\ plan.rollback
      BY <1>t, <3>2 DEF ResumeBoot, Journalled, Late, RecoverPcs
    <3>3. CASE ResumeNothing /\ plan.rollback
      BY <1>t, <3>3 DEF ResumeNothing, Journalled, Late, RecoverPcs
    <3>4. CASE ResumeRecord
      <4> DEFINE d == CASE plan.decision = "discard" -> "rolled-back"
                        [] plan.decision = "finish" -> "complete"
                        [] plan.decision = "park" -> "resume"
      <4>1. d \in {"rolled-back", "complete", "resume"}
        BY <3>4 DEF ResumeRecord, RootsInv, PhTyped, RecoverPcs
      <4>2. Named \in PhRuns
        BY <1>t, <1>0, <3>4 DEF ResumeRecord, Named, RecoverPcs
      <4>3. lastRun' = Named /\ phase' = [phase EXCEPT ![Named] = d]
        BY <3>4 DEF ResumeRecord, Journalled
      <4> HIDE DEF d
      <4> QED
        BY <1>t, <4>1, <4>2, <4>3 DEF Late
    <3> QED
      BY <3>1, <3>2, <3>3, <3>4 DEF ResumeKernel, ResumeBoot, ResumeNothing, ResumeDiscard,
         CollectKernels
  <2>3. pc' \in {"resume", "resume_staging"} => pc \in {"resume", "resume_staging"} /\ plan' = plan
    BY DEF ResumeKernel, ResumeBoot, ResumeNothing, ResumeDiscard, ResumeRecord, CollectKernels
  <2> QED
    BY <1>2, <2>1, <2>2, <2>3, SettledStays DEF Settled, Held, RecoverPcs, BeforeExchange
<1> QED
  BY <1>1, <1>2 DEF RootsInv

(* phoenix-recover parks the replaced root under its own name, which is    *)
(* still free; what it parks besides goes under a recovered name.          *)
LEMMA ResumeParkKeeps ==
  ASSUME RootsInv, PhTyped', ResumePark
  PROVE  RootsInv'
<1> DEFINE stamp == IF plan.decision = "park" THEN Stamp(run) + 1
                    ELSE Stamp(IF root.flag # 0 THEN root.flag ELSE Named)
           taken == plan.decision = "park" \/ <<stamp, FALSE>> \in TakenNames
<1>1. /\ pc = "resume_staging" /\ pc' = "resume_record" /\ staging' = NoSub
      /\ plan.decision \in {"finish", "park"}
      /\ prevs' = prevs \cup {[stamp |-> stamp, recovered |-> taken, sub |-> staging]}
      /\ UNCHANGED <<root, previous, lived, run, lastRun, phase>>
  BY DEF ResumePark, journal, script, history
<1>2. plan.decision = "finish" /\ root.flag # 0 => stamp = Stamp(root.id)
  BY DEF RootsInv, NamesInOrder
<1>3. CASE Swapped
  <2>1. plan.decision = "finish" /\ stamp = Stamp(root.id)
    BY <1>1, <1>2, <1>3 DEF Swapped
  <2>2. <<stamp, FALSE>> \notin TakenNames
    <3> SUFFICES ASSUME NEW p \in prevs, p.stamp = Stamp(root.id), p.recovered = FALSE
                 PROVE FALSE
      BY <2>1 DEF TakenNames
    <3> QED
      BY <1>3 DEF Swapped, RootsInv, NamesInOrder, Stamp
  <2>3. taken = FALSE
    BY <2>1, <2>2
  <2> HIDE DEF stamp, taken
  <2> QED
    BY <1>1, <1>3, <2>1, <2>3, ParkedIsHeld
<1>4. CASE Settled
  <2>1. taken = TRUE
    <3>1. CASE plan.decision = "park"
      BY <3>1
    <3>2. CASE plan.decision = "finish"
      <4>1. root.flag # 0 /\ root.flag = root.id /\ stamp = Stamp(root.id)
        BY <1>1, <1>2, <1>4, <3>2 DEF Settled, RootsInv, NamesInOrder
      <4>2. PICK p \in prevs : ~p.recovered /\ p.stamp = Stamp(root.id)
        BY <1>4, <4>1 DEF Settled, Held
      <4>3. p.recovered = FALSE
        BY <4>2 DEF RootsInv, PhTyped, KeptRoots
      <4>4. <<stamp, FALSE>> \in TakenNames
        BY <4>1, <4>2, <4>3 DEF TakenNames
      <4> QED
        BY <4>4
    <3> QED
      BY <1>1, <3>1, <3>2
  <2> HIDE DEF stamp, taken
  <2>2. prevs \subseteq prevs' /\ \A p \in prevs' : p.recovered \/ p \in prevs
    <3> DEFINE kept == [stamp |-> stamp, recovered |-> taken, sub |-> staging]
    <3>1. kept.recovered
      BY <2>1
    <3>2. prevs' = prevs \cup {kept}
      BY <1>1
    <3> HIDE DEF kept
    <3> QED
      BY <3>1, <3>2
  <2> QED
    BY <1>1, <1>4, <2>2, SettledStays DEF Held, BeforeExchange
<1> QED
  BY <1>3, <1>4 DEF RootsInv

(* The collection keeps the one root that is held.                         *)
LEMMA CollectKeeps ==
  ASSUME RootsInv, PhTyped', CollectPrevious
  PROVE  RootsInv'
<1>1. /\ pc = "gc" /\ pc' = "gc_kernels"
      /\ prevs' = {p \in prevs : \A q \in prevs \ {p} : Outranks(p, q)}
      /\ UNCHANGED <<root, staging, previous, lived, run, lastRun, phase>>
  BY DEF CollectPrevious, journal, script, history
<1>2. Settled
  BY <1>1 DEF RootsInv, Swapped
<1>3. ASSUME Held PROVE Held'
  <2>1. PICK p \in prevs : ~p.recovered /\ p.stamp = Stamp(root.id) /\ p.sub.id = previous
    BY <1>3 DEF Held
  <2>2. ASSUME NEW q \in prevs \ {p} PROVE Outranks(p, q)
    <3>1. /\ p.recovered \in BOOLEAN /\ q.recovered \in BOOLEAN /\ q.stamp \in Int
          /\ p.stamp \in Int
      BY SubvolumeFacts DEF RootsInv, PhTyped, KeptRoots
    <3>2. CASE q.recovered
      BY <2>1, <3>1, <3>2 DEF Outranks
    <3>3. CASE ~q.recovered
      <4>1. q.stamp <= p.stamp /\ q.stamp # p.stamp
        BY <2>1, <3>3 DEF RootsInv, NamesInOrder
      <4> QED
        BY <2>1, <3>1, <3>3, <4>1 DEF Outranks
    <3> QED
      BY <3>2, <3>3
  <2>3. p \in prevs'
    BY <1>1, <2>2
  <2> QED
    BY <1>1, <2>1, <2>3 DEF Held
<1> QED
  BY <1>1, <1>2, <1>3, SettledStays DEF Settled, BeforeExchange

(* The boot clears the flag of the root that it has made the menu for.     *)
LEMMA PostbootFlagKeeps ==
  ASSUME RootsInv, PhTyped', PostbootFlag
  PROVE  RootsInv'
<1>1. /\ pc = "postboot" /\ pc' = "idle"
      /\ UNCHANGED <<staging, prevs, previous, lived, run, lastRun, phase>>
      /\ root' = root \/ root' = [root EXCEPT !.flag = 0]
  BY DEF PostbootFlag, journal, script, history
<1>2. root'.id = root.id /\ root'.flag \in {0, root.id} /\ Settled
  BY <1>1 DEF RootsInv, PhTyped, Subvolumes, NamesInOrder, Swapped
<1>3. NamesInOrder' /\ RunIsNew'
  BY <1>1, <1>2 DEF RootsInv, NamesInOrder, RunIsNew, BeforeExchange, Staged
<1>4. Settled'
  BY <1>1, <1>2 DEF Settled, Held
<1> QED
  BY <1>3, <1>4 DEF RootsInv

(* Every step keeps the invariant of the roots.                            *)
LEMMA RootsInvStep ==
  ASSUME OverlayBoots = FALSE, RestoreAgain = FALSE
  PROVE  RootsInv /\ [PhNext]_phVars => RootsInv'
<1> SUFFICES ASSUME RootsInv, [PhNext]_phVars PROVE RootsInv'
  OBVIOUS
<1>1. PhTyped'
  BY PhTypedStep DEF RootsInv
<1>2. CASE UNCHANGED phVars
  <2>1. UNCHANGED <<root, staging, prevs, lastRun, phase, run, previous, lived, pc, plan>>
    BY <1>2 DEF phVars
  <2>2. NamesInOrder' /\ RunIsNew'
    BY <2>1 DEF RootsInv, NamesInOrder, RunIsNew
  <2>3. (Swapped \/ Settled)'
    BY <2>1 DEF RootsInv, Swapped, Settled, Held
  <2> QED
    BY <1>1, <2>2, <2>3 DEF RootsInv
<1>3. CASE PhNext
  BY <1>1, <1>3, RequestKeeps, RunSteps, RunGoesOnKeeps, ExchangeKeeps, AfterExchangeKeeps,
     LeftoverParkKeeps, BootKeeps, InspectKeeps, RecoverKeeps, ResumeParkKeeps, CollectKeeps,
     PostbootFlagKeeps DEF PhNext
<1> QED
  BY <1>2, <1>3

(* /boot and what backs it up are, after any steps, as PhInv says.         *)
THEOREM PhoenixInvariant == PhSpec => []PhInv
BY PhInvInit, PhInvStep, PTL DEF PhSpec

(* After phoenix-recover /boot has every kernel of @: for any Points, any  *)
(* number of runs and power cuts, with overlay sessions too.               *)
THEOREM BootMatchesRootHolds == PhSpec => []BootMatchesRoot
BY PhoenixInvariant, PTL DEF PhInv

(* Without overlay sessions and second restores the roots are as RootsInv  *)
(* says.                                                                   *)
THEOREM RootsInvariant ==
  ASSUME OverlayBoots = FALSE, RestoreAgain = FALSE
  PROVE  PhSpec => []RootsInv
BY RootsInvInit, RootsInvStep, PTL DEF PhSpec

(* The root that the last exchange replaced is still there, whatever was   *)
(* interrupted: for any number of runs and power cuts.                     *)
THEOREM PreviousRootKeptHolds ==
  ASSUME OverlayBoots = FALSE, RestoreAgain = FALSE
  PROVE  PhSpec => []PreviousRootKept
<1>1. RootsInv => PreviousRootKept
  BY DEF RootsInv, Swapped, Settled, Held, PreviousRootKept, Ids
<1> QED
  BY <1>1, RootsInvariant, PTL

(* And nothing but copies of a Point is deleted from @new: what an overlay *)
(* session breaks, as the run discard_root shows, holds without one.       *)
THEOREM DiscardedIsACopyAlone ==
  ASSUME OverlayBoots = FALSE, RestoreAgain = FALSE
  PROVE  PhSpec => DiscardedIsACopy
<1>1. ASSUME RootsInv, [PhNext]_phVars, staging.id \in lived, staging' # staging
      PROVE  staging.id \in Ids'
  <2>1. Swapped
    <3>1. staging # NoSub
      BY <1>1 DEF NoSub, RootsInv, NamesInOrder
    <3> QED
      BY <1>1, <3>1 DEF RootsInv, Settled
  <2>2. /\ pc \notin BeforeExchange /\ ~(pc = "resume_staging" /\ plan.decision = "discard")
    BY <2>1 DEF Swapped, BeforeExchange
  <2>3. \E p \in prevs' : p.sub = staging
    <3>1. CASE ParkPrevious
      <4> DEFINE kept == [stamp |-> Stamp(run), recovered |-> FALSE, sub |-> staging]
      <4>1. kept \in prevs'
        BY <3>1 DEF ParkPrevious
      <4>2. kept.sub = staging
        OBVIOUS
      <4> QED
        BY <4>1, <4>2
    <3>2. CASE ResumePark
      <4> DEFINE stamp == IF plan.decision = "park" THEN Stamp(run) + 1
                          ELSE Stamp(IF root.flag # 0 THEN root.flag ELSE Named)
                 taken == plan.decision = "park" \/ <<stamp, FALSE>> \in TakenNames
                 kept == [stamp |-> stamp, recovered |-> taken, sub |-> staging]
      <4>1. kept \in prevs'
        BY <3>2 DEF ResumePark
      <4>2. kept.sub = staging
        OBVIOUS
      <4> QED
        BY <4>1, <4>2
    <3>3. ~ \/ LeftoverPark \/ CopyPoint \/ Refused \/ WriteFlag \/ Exchange \/ ExchangeFails
            \/ ResumeDiscard
      BY <2>2 DEF LeftoverPark, CopyPoint, Refused, WriteFlag, Exchange, ExchangeFails,
         ResumeDiscard, BeforeExchange
    <3>4. ~ \E p \in DOMAIN PointKernels : Request(p)
      BY <1>1 DEF Request, volume
    <3>5. ~ \/ LeftoverNone \/ LeftoverFound \/ Unarchive \/ FoldBack \/ ChooseKernel
            \/ StageBoot \/ MakeArchive \/ ArchiveKernel \/ Archived \/ ExchangeBegin
            \/ ExchangeComplete \/ PreviousParked \/ Complete \/ Interrupt \/ Cleanup
      BY <1>1 DEF LeftoverNone, LeftoverFound, Unarchive, FoldBack, ChooseKernel, StageBoot,
         MakeArchive, ArchiveKernel, Archived, ExchangeBegin, ExchangeComplete, PreviousParked,
         Complete, Interrupt, Cleanup, volume
    <3>6. ~ \/ RollbackKernel \/ RolledBackBoot \/ Swept \/ PowerCut \/ Reboot \/ Inspect
            \/ ResumeKernel \/ ResumeBoot \/ ResumeNothing \/ ResumeRecord \/ CollectPrevious
            \/ CollectKernels \/ PostbootFlag
      BY <1>1 DEF RollbackKernel, RolledBackBoot, Swept, PowerCut, Reboot, Boot, Inspect,
         ResumeKernel, ResumeBoot, ResumeNothing, ResumeRecord, CollectPrevious, CollectKernels,
         PostbootFlag, volume
    <3>7. ~UNCHANGED phVars
      BY <1>1 DEF phVars
    <3> QED
      BY <1>1, <3>1, <3>2, <3>3, <3>4, <3>5, <3>6, <3>7 DEF PhNext
  <2> QED
    BY <2>3 DEF Ids
<1>2. RootsInv /\ [PhNext]_phVars
        => [staging.id \in lived /\ staging' # staging => staging.id \in Ids']_phVars
  BY <1>1
<1> QED
  BY <1>2, RootsInvariant, PTL DEF PhSpec, DiscardedIsACopy

-----------------------------------------------------------------------------
(* What the machine knows of its last package transaction.                 *)

Records == [txn : Nat, point : Nat]
States == [last : Records, failed : SUBSET Nat]
Points == [owner : Nat, file : States, pending : Records]

UpTyped ==
  /\ points \in Seq(Points)
  /\ file \in States /\ cached \in States /\ pending \in Records /\ target \in Records
  /\ wtxn \in Nat /\ wbase \in Nat /\ wpoint \in Nat
  /\ btxn \in Nat /\ bbase \in Nat /\ txns \in Nat /\ unread \subseteq Nat

\* The worker's baseline could not be read.
Unread == wbase = 0 /\ wtxn \in unread

\* From the revalidation to the end of the record the worker holds the lock,
\* and what it computed is of the system that is there.
Secured ==
  /\ wpc \in {"revalidating", "downloading", "news", "committing", "naming", "verifying"}
       => dlock = "update"
  /\ wpc \in {"downloading", "news", "committing"} =>
       whash[2] = base /\ (wbase = Len(points) \/ Unread)

\* A record's Point exists, and is an update's own if an update is on record,
\* or the oldest if the update's baseline could not be read.
Owned(r) ==
  /\ r.point <= Len(points)
  /\ r.txn <= MaxTxns /\ r.point # 0 =>
       points[r.point].owner = r.txn \/ (r.txn \in unread /\ r.point = 1)

RecordsOwned ==
  /\ Owned(file.last) /\ Owned(cached.last) /\ Owned(pending)
  /\ \A i \in 1..Len(points) : Owned(points[i].file.last) /\ Owned(points[i].pending)

\* What the worker takes for its Point is its own, and a bundle's record is not
\* taken for an update's.
WorkersOwned ==
  /\ wpc = "naming" =>
       /\ wbase <= Len(points)
       /\ Unread \/ \A i \in (wbase + 1)..Len(points) : points[i].owner = wtxn
  /\ wpc = "verifying" => Owned(Txn(wtxn, wpoint))
  /\ bpc # "idle" => btxn > MaxTxns
  /\ rpc # "idle" => target.point \in 1..Len(points)

UpInv == UpTyped /\ Secured /\ RecordsOwned /\ WorkersOwned

(* A transaction adds its own Points behind the others, with the records   *)
(* as they are.                                                            *)
LEMMA PointsTaken ==
  ASSUME UpInv, NEW t \in Nat, TakePoints(t)
  PROVE  /\ points' \in Seq(Points) /\ Len(points') >= Len(points)
         /\ Len(points') \in Nat /\ Len(points) \in Nat
         /\ \A i \in 1..Len(points) : points'[i] = points[i]
         /\ \A i \in (Len(points) + 1)..Len(points') :
              points'[i] = [owner |-> t, file |-> file, pending |-> pending]
<1>1. PICK n \in 0..MaxPre :
        points' = points \o [i \in 1..n |-> [owner |-> t, file |-> file, pending |-> pending]]
  BY DEF TakePoints
<1> DEFINE p == [owner |-> t, file |-> file, pending |-> pending]
           s == [i \in 1..n |-> p]
<1>2. p \in Points /\ points \in Seq(Points)
  BY DEF UpInv, UpTyped, Points
<1>3. n \in Nat
  BY UpdateAssumption
<1> HIDE DEF p
<1>4. s \in Seq(Points) /\ Len(s) = n /\ \A i \in 1..n : s[i] = p
  BY <1>2, <1>3
<1>5. points' = points \o s
  BY <1>1 DEF p
<1> HIDE DEF s
<1> DEFINE q == points
<1>6. q \in Seq(Points) /\ s \in Seq(Points)
  BY <1>2, <1>4
<1> HIDE DEF q
<1>7. /\ q \o s \in Seq(Points) /\ Len(q \o s) = Len(q) + Len(s)
      /\ \A i \in 1..(Len(q) + Len(s)) :
           (q \o s)[i] = IF i <= Len(q) THEN q[i] ELSE s[i - Len(q)]
  BY <1>6, ConcatProperties
<1>8. /\ points' \in Seq(Points) /\ Len(points') = Len(points) + n
      /\ Len(points) \in Nat
      /\ \A i \in 1..(Len(points) + n) :
           points'[i] = IF i <= Len(points) THEN points[i] ELSE s[i - Len(points)]
  BY <1>2, <1>4, <1>5, <1>7 DEF q
<1>9. \A i \in (Len(points) + 1)..(Len(points) + n) : i - Len(points) \in 1..n
  BY <1>3, <1>8
<1> QED
  BY <1>3, <1>4, <1>8, <1>9 DEF p

(* A record that was right stays right: Points are only added.             *)
LEMMA OwnedStays ==
  ASSUME UpInv, points' = points \/ (\E t \in Nat : TakePoints(t)), unread' = unread
  PROVE  \A r \in Records : Owned(r) => Owned(r)'
<1> SUFFICES ASSUME NEW r \in Records, Owned(r) PROVE Owned(r)'
  OBVIOUS
<1>1. r.point \in Nat /\ r.txn \in Nat /\ Len(points) \in Nat
  BY DEF Records, UpInv, UpTyped
<1>2. CASE points' = points
  BY <1>2 DEF Owned
<1>3. ASSUME NEW t \in Nat, TakePoints(t) PROVE Owned(r)'
  <2>1. Len(points') \in Nat /\ Len(points') >= Len(points)
        /\ \A i \in 1..Len(points) : points'[i] = points[i]
    BY <1>3, PointsTaken
  <2>2. r.point # 0 => points'[r.point] = points[r.point]
    BY <1>1, <2>1 DEF Owned
  <2> QED
    BY <1>1, <2>1, <2>2 DEF Owned
<1> QED
  BY <1>2, <1>3

(* The first Point above a baseline exists, and is above it.               *)
LEMMA FirstPreAfterFacts ==
  ASSUME UpInv, NEW n \in Nat
  PROVE  /\ FirstPreAfter(n) \in Nat /\ FirstPreAfter(n) <= Len(points)
         /\ FirstPreAfter(n) # 0 => FirstPreAfter(n) = n + 1
BY DEF FirstPreAfter, UpInv, UpTyped

(* The initial states have the invariant.                                  *)
LEMMA UpInvInit == UpInit => UpInv
<1> SUFFICES ASSUME UpInit PROVE UpInv
  OBVIOUS
<1>1. Nothing \in Records /\ Nothing.point = 0 /\ file \in States /\ file.last = Nothing
  BY DEF UpInit, Nothing, Records, States
<1>2. points = <<>> /\ Len(points) = 0 /\ points \in Seq(Points)
  BY DEF UpInit
<1>3. UpTyped
  BY <1>1, <1>2 DEF UpInit, UpTyped
<1>4. Secured /\ WorkersOwned
  BY DEF UpInit, Secured, WorkersOwned
<1>5. RecordsOwned
  BY <1>1, <1>2 DEF UpInit, RecordsOwned, Owned
<1> QED
  BY <1>3, <1>4, <1>5 DEF UpInv

(* Taking Points leaves every record on a Point of its own: the new Points *)
(* hold the records that the machine has.                                  *)
LEMMA PointsOwned ==
  ASSUME UpInv, NEW t \in Nat, TakePoints(t), UNCHANGED <<unread, file, cached, pending>>
  PROVE  RecordsOwned'
<1> USE DEF UpInv
<1>1. \A r \in Records : Owned(r) => Owned(r)'
  BY OwnedStays
<1>2. /\ file.last \in Records /\ cached.last \in Records /\ pending \in Records
      /\ \A i \in 1..Len(points) : points[i].file.last \in Records /\ points[i].pending \in Records
  <2>1. file.last \in Records /\ cached.last \in Records /\ pending \in Records
    BY DEF UpTyped, States
  <2>2. \A i \in 1..Len(points) : points[i] \in Points
    BY DEF UpTyped
  <2>3. \A p \in Points : p.file.last \in Records /\ p.pending \in Records
    BY DEF Points, States
  <2> QED
    BY <2>1, <2>2, <2>3
<1>3. Owned(file.last)' /\ Owned(cached.last)' /\ Owned(pending)'
  BY <1>1, <1>2 DEF RecordsOwned, Owned
<1>4. ASSUME NEW i \in 1..Len(points')
      PROVE  (Owned(points[i].file.last) /\ Owned(points[i].pending))'
  <2>1. CASE i \in 1..Len(points)
    <3>1. points'[i] = points[i]
      BY <2>1, PointsTaken
    <3>2. Owned(points[i].file.last) /\ Owned(points[i].pending)
      BY <2>1 DEF RecordsOwned
    <3> QED
      BY <1>1, <1>2, <2>1, <3>1, <3>2 DEF Owned
  <2>2. CASE i \notin 1..Len(points)
    <3>1. i \in (Len(points) + 1)..Len(points')
      BY <2>2, PointsTaken
    <3>2. points'[i] = [owner |-> t, file |-> file, pending |-> pending]
      BY <3>1, PointsTaken
    <3>3. points'[i].file.last = file'.last /\ points'[i].pending = pending'
      BY <3>2
    <3> QED
      BY <1>3, <3>3 DEF Owned
  <2> QED
    BY <2>1, <2>2
<1> QED
  BY <1>3, <1>4 DEF RecordsOwned

(* A worker that ends or is stopped leaves nothing to keep but the records.*)
LEMMA WorkerLost ==
  ASSUME UpInv, WorkerGone, dlock' = IF dlock = "update" THEN "free" ELSE dlock,
         cached' \in {cached, file}, UNCHANGED <<system, file, pending, bundle, clients, txns>>
  PROVE  UpInv'
<1> USE DEF UpInv
<1>1. UNCHANGED <<points, unread, file, pending, bpc, btxn, bbase, rpc, target, txns>>
  BY DEF system, bundle, clients
<1>2. UpTyped'
  BY <1>1 DEF UpTyped, WorkerGone
<1>3. Secured'
  BY DEF Secured, WorkerGone, Unread
<1>4. RecordsOwned'
  BY <1>1 DEF RecordsOwned, Owned
<1>5. WorkersOwned'
  BY <1>1 DEF WorkersOwned, WorkerGone, Unread
<1> QED
  BY <1>2, <1>3, <1>4, <1>5

(* Every step keeps the invariant, the steps of the worker first.          *)
LEMMA WorkerStepsKeep ==
  UpInv /\ WorkerNextStep => UpInv'
<1> SUFFICES ASSUME UpInv, WorkerNextStep PROVE UpInv'
  OBVIOUS
<1> USE DEF UpInv
<1>c. Len(points) \in Nat
  BY DEF UpTyped
<1>1. CASE LockTaken \/ LockTimeout
  <2>1. UpTyped'
    BY <1>1 DEF LockTaken, LockTimeout, WorkerStep, WorkerMoves, UpTyped, clients, counters, bundle, recordFiles
  <2>2. Secured'
    BY <1>1 DEF LockTaken, LockTimeout, WorkerStep, WorkerMoves, Secured, Unread
  <2>3. RecordsOwned'
    BY <1>1 DEF LockTaken, LockTimeout, WorkerStep, WorkerMoves, RecordsOwned, Owned, recordFiles
  <2>4. WorkersOwned'
    BY <1>1 DEF LockTaken, LockTimeout, WorkerStep, WorkerMoves, WorkersOwned, Unread, Owned, bundle, clients
  <2> QED
    BY <2>1, <2>2, <2>3, <2>4
<1>2. CASE Revalidate
  <2>1. /\ UNCHANGED <<points, base, dlock, file, cached, pending, target, wtxn, whash, wpoint,
                       bpc, btxn, bbase, rpc, txns>>
        /\ wpc = "revalidating" /\ wtxn \in Nat /\ unread \subseteq Nat
    <3>1. UNCHANGED <<points, base, dlock, recordFiles, wtxn, whash, wpoint>>
      BY <1>2 DEF Revalidate
    <3>2. wpc = "revalidating" /\ UNCHANGED <<bundle, clients, counters>>
      BY <1>2 DEF Revalidate, WorkerStep, WorkerMoves
    <3>3. UNCHANGED <<file, cached, pending, target, bpc, btxn, bbase, rpc, txns>>
      BY <3>1, <3>2 DEF recordFiles, bundle, clients, counters
    <3> QED
      BY <3>1, <3>2, <3>3 DEF UpTyped
  <2>2. \/ wpc' = "finish" /\ UNCHANGED <<unread, wbase>>
        \/ /\ wpc' = "downloading" /\ ~Drifted /\ wbase' \in {Len(points), 0}
           /\ unread' = IF wbase' = Len(points) THEN unread ELSE unread \cup {wtxn}
    BY <1>2 DEF Revalidate, WorkerStep, WorkerMoves, MaxNumbers
  <2>3. unread \subseteq unread' /\ unread' \subseteq Nat /\ wbase' \in Nat
    <3>1. unread' = unread \/ unread' = unread \cup {wtxn}
      BY <2>2
    <3>2. wbase \in Nat /\ wbase' \in {wbase, Len(points), 0}
      BY <2>2 DEF UpTyped
    <3>3. unread \subseteq Nat /\ wtxn \in Nat
      BY <2>1
    <3>4. unread \subseteq unread' /\ unread' \subseteq Nat
      BY <3>1, <3>3
    <3> QED
      BY <1>c, <3>2, <3>4
  <2>4. wpc' = "downloading" => wbase' = Len(points) \/ Unread'
    <3>1. CASE wpc' = "downloading" /\ wbase' # Len(points)
      <4>1. wbase' = 0 /\ unread' = unread \cup {wtxn} /\ wtxn' = wtxn
        BY <2>1, <2>2, <3>1
      <4> QED
        BY <4>1 DEF Unread
    <3> QED
      BY <3>1
  <2>5. UpTyped'
    BY <2>1, <2>3 DEF UpTyped
  <2>6. Secured'
    BY <2>1, <2>2, <2>4 DEF Secured, Drifted
  <2>7. RecordsOwned'
    BY <2>1, <2>3 DEF RecordsOwned, Owned
  <2>8. WorkersOwned'
    BY <2>1, <2>2 DEF WorkersOwned, Unread
  <2> QED
    BY <2>5, <2>6, <2>7, <2>8
<1>3. CASE Download \/ NewsGate
  <2>1. UpTyped'
    BY <1>3 DEF Download, NewsGate, WorkerStep, WorkerMoves, UpTyped, clients, counters, bundle, recordFiles
  <2>2. Secured'
    BY <1>3 DEF Download, NewsGate, WorkerStep, WorkerMoves, Secured, Unread
  <2>3. RecordsOwned'
    BY <1>3 DEF Download, NewsGate, WorkerStep, WorkerMoves, RecordsOwned, Owned, recordFiles
  <2>4. WorkersOwned'
    BY <1>3 DEF Download, NewsGate, WorkerStep, WorkerMoves, WorkersOwned, Unread, Owned, bundle, clients
  <2> QED
    BY <2>1, <2>2, <2>3, <2>4
<1>4. CASE Commit
  <2>1. /\ TakePoints(wtxn) /\ wtxn \in Nat /\ wtxn' = wtxn /\ wbase' = wbase
        /\ wpc = "committing" /\ wpc' = "naming" /\ dlock' = dlock
        /\ UNCHANGED <<unread, file, cached, pending, target, bpc, btxn, bbase, rpc, txns, wpoint>>
    BY <1>4 DEF Commit, WorkerStep, WorkerMoves, UpTyped, recordFiles, bundle, clients, counters
  <2>2. UpTyped'
    BY <2>1, PointsTaken DEF UpTyped
  <2>3. Secured'
    BY <2>1 DEF Secured, Unread
  <2>4. RecordsOwned'
    BY <2>1, PointsOwned
  <2>5. wbase = Len(points) \/ Unread
    BY <2>1 DEF Secured, Unread
  <2>6. /\ Len(points') \in Nat /\ Len(points') >= Len(points)
        /\ \A i \in (Len(points) + 1)..Len(points') :
             points'[i] = [owner |-> wtxn, file |-> file, pending |-> pending]
    BY <2>1, PointsTaken
  <2>7. wbase = Len(points) => \A i \in (wbase + 1)..Len(points') : points'[i].owner = wtxn
    BY <2>6
  <2>8. /\ wbase' <= Len(points')
        /\ Unread' \/ \A i \in (wbase' + 1)..Len(points') : points'[i].owner = wtxn'
    BY <2>1, <2>5, <2>6, <2>7, <1>c DEF Unread
  <2>9. (bpc # "idle" => btxn > MaxTxns)' /\ (rpc # "idle" => target.point \in 1..Len(points))'
    BY <2>1, <2>6, <1>c DEF WorkersOwned, Unread
  <2>10. WorkersOwned'
    BY <2>1, <2>8, <2>9 DEF WorkersOwned, Unread
  <2> QED
    BY <2>2, <2>3, <2>4, <2>10
<1>5. CASE NamePoint
  <2>1. /\ wpc = "naming" /\ wpc' = "verifying" /\ wtxn \in Nat /\ wbase \in Nat
        /\ wpoint' \in {FirstPreAfter(wbase), 0} /\ pending' = Txn(wtxn, wpoint')
        /\ points' = points /\ dlock' = dlock
        /\ UNCHANGED <<unread, file, cached, target, wtxn, wbase, bpc, btxn, bbase, rpc, txns>>
    BY <1>5 DEF NamePoint, WorkerStep, WorkerMoves, UpTyped, bundle, clients, counters
  <2> DEFINE f == wpoint'
  <2>2. f \in Nat /\ f <= Len(points) /\ (f # 0 => f = wbase + 1)
    BY <1>c, <2>1, FirstPreAfterFacts
  <2>3. Txn(wtxn, f) \in Records /\ Txn(wtxn, f).txn = wtxn /\ Txn(wtxn, f).point = f
    BY <2>1, <2>2 DEF Txn, Records
  <2>4. f # 0 => points[f].owner = wtxn \/ (wtxn \in unread /\ f = 1)
    BY <2>1, <2>2, <1>c DEF WorkersOwned, Unread
  <2>5. Owned(Txn(wtxn, f))
    BY <2>2, <2>3, <2>4 DEF Owned
  <2>6. UpTyped'
    BY <2>1, <2>2, <2>3 DEF UpTyped
  <2>7. Secured'
    BY <2>1 DEF Secured, Unread
  <2>8. RecordsOwned'
    BY <2>1, <2>5 DEF RecordsOwned, Owned
  <2>9. WorkersOwned'
    BY <2>1, <2>5 DEF WorkersOwned, Owned, Unread
  <2> QED
    BY <2>6, <2>7, <2>8, <2>9
<1>6. CASE VerifyAndSave
  <2>1. /\ wpc = "verifying" /\ wpc' = "finish"
        /\ UNCHANGED <<points, unread, dlock, pending, target, wtxn, wbase, wpoint, bpc, btxn, bbase,
                       rpc, txns>>
        /\ file' = cached' /\ cached'.last = Txn(wtxn, wpoint) /\ cached' \in States
    <3>1. PICK bad \in BOOLEAN :
            cached' = [last |-> Txn(wtxn, wpoint),
                       failed |-> IF bad THEN cached.failed \cup {wtxn} ELSE cached.failed]
      BY <1>6 DEF VerifyAndSave
    <3>2. Txn(wtxn, wpoint) \in Records /\ cached.failed \subseteq Nat /\ wtxn \in Nat
      BY DEF UpTyped, Txn, Records, States
    <3>3. cached' \in States /\ cached'.last = Txn(wtxn, wpoint)
      BY <3>1, <3>2 DEF States
    <3> QED
      BY <1>6, <3>3 DEF VerifyAndSave, WorkerStep, WorkerMoves, bundle, clients, counters
  <2>2. UpTyped'
    BY <2>1 DEF UpTyped
  <2>3. Secured'
    BY <2>1 DEF Secured, Unread
  <2>4. Owned(Txn(wtxn, wpoint))
    BY <2>1 DEF WorkersOwned, Unread
  <2>5. RecordsOwned'
    BY <2>1, <2>4 DEF RecordsOwned, Owned
  <2>6. WorkersOwned'
    BY <2>1 DEF WorkersOwned, Unread
  <2> QED
    BY <2>2, <2>3, <2>5, <2>6
<1>7. CASE Finish
  <2>1. cached' \in {cached, file} /\ UNCHANGED <<system, file, pending, bundle, clients, txns>>
    BY <1>7 DEF Finish, DaemonStarts, counters
  <2> QED
    BY <1>7, <2>1, WorkerLost DEF Finish
<1> QED
  BY <1>1, <1>2, <1>3, <1>4, <1>5, <1>6, <1>7 DEF WorkerNextStep

(* When somebody else commits, with the lock free or held by himself, the  *)
(* worker has nothing that could be lost.                                  *)
LEMMA OthersTakePoints ==
  ASSUME UpInv, dlock # "update", NEW t \in Nat, TakePoints(t),
         UNCHANGED <<unread, file, cached, pending, worker, clients, btxn, bbase, txns>>,
         bpc = "idle" => bpc' = "idle"
  PROVE  UpInv'
<1> USE DEF UpInv
<1>1. Len(points) \in Nat /\ UNCHANGED <<wpc, wtxn, wbase, wpoint, whash, rpc, target>>
  BY DEF UpTyped, worker, clients
<1>2. /\ points' \in Seq(Points) /\ Len(points') \in Nat /\ Len(points') >= Len(points)
  BY PointsTaken
<1>3. wpc \notin {"revalidating", "downloading", "news", "committing", "naming", "verifying"}
  BY DEF Secured, Unread
<1>4. UpTyped'
  BY <1>1, <1>2 DEF UpTyped
<1>5. Secured'
  BY <1>1, <1>3 DEF Secured, Unread
<1>6. RecordsOwned'
  BY PointsOwned
<1>7. WorkersOwned'
  BY <1>1, <1>2, <1>3 DEF WorkersOwned, Unread
<1> QED
  BY <1>4, <1>5, <1>6, <1>7

(* A bundle's transaction, which does not go through the worker.           *)
LEMMA BundleStepsKeep ==
  UpInv /\ (BundleInstall \/ BundleBaseline \/ BundleCommit \/ BundleCheck \/ BundleRecord)
    => UpInv'
<1> SUFFICES ASSUME UpInv, BundleInstall \/ BundleBaseline \/ BundleCommit
                            \/ BundleCheck \/ BundleRecord
             PROVE UpInv'
  OBVIOUS
<1> USE DEF UpInv
<1>c. Len(points) \in Nat /\ MaxTxns \in Nat /\ txns \in Nat
  BY UpdateAssumption DEF UpTyped
<1>1. CASE BundleInstall \/ BundleBaseline \/ BundleCheck
  <2>1. /\ UNCHANGED <<points, base, unread, dlock, file, cached, pending, worker, clients>>
        /\ btxn' \in Nat /\ bbase' \in Nat /\ txns' \in Nat
        /\ bpc' # "idle" => btxn' > MaxTxns
    BY <1>1, <1>c DEF BundleInstall, BundleBaseline, BundleCheck, BundleStep, MaxNumbers, UpTyped,
                      WorkersOwned
  <2>2. UNCHANGED <<wpc, wtxn, wbase, wpoint, whash, rpc, target>>
    BY <2>1 DEF worker, clients
  <2>3. UpTyped'
    BY <2>1, <2>2 DEF UpTyped
  <2>4. Secured'
    BY <2>1, <2>2 DEF Secured, Unread
  <2>5. RecordsOwned'
    BY <2>1 DEF RecordsOwned, Owned
  <2>6. WorkersOwned'
    BY <2>1, <2>2 DEF WorkersOwned, Owned, Unread
  <2> QED
    BY <2>3, <2>4, <2>5, <2>6
<1>2. CASE BundleCommit
  <2>1. /\ UNCHANGED <<unread, dlock, file, cached, pending, worker, clients, btxn, bbase, txns>>
        /\ bpc # "idle" /\ bpc' # "idle" /\ btxn \in Nat
    BY <1>2 DEF BundleCommit, BundleStep, UpTyped
  <2>2. CASE dlock = "free" /\ TakePoints(btxn)
    BY <2>1, <2>2, OthersTakePoints
  <2>3. CASE UNCHANGED <<points, base>>
    <3>1. UNCHANGED <<wpc, wtxn, wbase, wpoint, whash, rpc, target>>
      BY <2>1 DEF worker, clients
    <3>2. UpTyped'
      BY <2>1, <2>3, <3>1 DEF UpTyped
    <3>3. Secured'
      BY <2>1, <2>3, <3>1 DEF Secured, Unread
    <3>4. RecordsOwned'
      BY <2>1, <2>3 DEF RecordsOwned, Owned
    <3>5. WorkersOwned'
      BY <2>1, <2>3, <3>1 DEF WorkersOwned, Owned, Unread
    <3> QED
      BY <3>2, <3>3, <3>4, <3>5
  <2> QED
    BY <1>2, <2>2, <2>3 DEF BundleCommit
<1>3. CASE BundleRecord
  <2> DEFINE r == Txn(btxn, FirstPreAfter(bbase))
  <2>1. FirstPreAfter(bbase) \in Nat /\ FirstPreAfter(bbase) <= Len(points) /\ btxn \in Nat
    BY FirstPreAfterFacts DEF UpTyped
  <2>2. r \in Records /\ r.txn = btxn /\ r.point <= Len(points)
    BY <2>1 DEF Txn, Records
  <2>3. btxn > MaxTxns
    BY <1>3 DEF BundleRecord, BundleStep, WorkersOwned
  <2>4. Owned(r)
    BY <1>c, <2>1, <2>2, <2>3 DEF Owned
  <2> HIDE DEF r
  <2>5. /\ UNCHANGED <<points, base, unread, dlock, cached, pending, worker, clients, txns>>
        /\ bpc' = "idle" /\ btxn' = 0 /\ bbase' = 0 /\ file' = [file EXCEPT !.last = r]
    BY <1>3 DEF BundleRecord, BundleStep, r
  <2>6. file' \in States /\ file'.last = r
    BY <2>2, <2>5 DEF UpTyped, States
  <2>7. UNCHANGED <<wpc, wtxn, wbase, wpoint, whash, rpc, target>>
    BY <2>5 DEF worker, clients
  <2>8. UpTyped'
    BY <2>5, <2>6, <2>7 DEF UpTyped
  <2>9. Secured'
    BY <2>5, <2>7 DEF Secured, Unread
  <2>10. RecordsOwned'
    BY <2>4, <2>5, <2>6 DEF RecordsOwned, Owned
  <2>11. WorkersOwned'
    BY <2>5, <2>7 DEF WorkersOwned, Owned, Unread
  <2> QED
    BY <2>8, <2>9, <2>10, <2>11
<1> QED
  BY <1>1, <1>2, <1>3

(* The rollback, the boot and the health check.                            *)
LEMMA ClientStepsKeep ==
  UpInv /\ (AskTarget \/ RecordRollback \/ NextBoot \/ Postboot) => UpInv'
<1> SUFFICES ASSUME UpInv, AskTarget \/ RecordRollback \/ NextBoot \/ Postboot PROVE UpInv'
  OBVIOUS
<1> USE DEF UpInv
<1>c. Len(points) \in Nat
  BY DEF UpTyped
<1>1. CASE AskTarget
  <2> DEFINE r == RollbackTarget
  <2>1. /\ UNCHANGED <<points, base, unread, dlock, file, cached, pending, worker, bpc, btxn, bbase, txns>>
        /\ r.point # 0 /\ target' = r
    BY <1>1 DEF AskTarget, system, recordFiles, bundle, counters
  <2>2. /\ cached.last \in Records /\ pending \in Records
        /\ cached.last.point <= Len(points) /\ pending.point <= Len(points)
    BY DEF UpTyped, States, RecordsOwned, Owned
  <2>3. r \in Records /\ r.point \in 1..Len(points)
    BY <1>c, <2>1, <2>2 DEF RollbackTarget, Txn, Records
  <2> HIDE DEF r
  <2>4. UNCHANGED <<wpc, wtxn, wbase, wpoint, whash>>
    BY <2>1 DEF worker
  <2>5. UpTyped'
    BY <2>1, <2>3, <2>4 DEF UpTyped
  <2>6. Secured'
    BY <2>1, <2>4 DEF Secured, Unread
  <2>7. RecordsOwned'
    BY <2>1 DEF RecordsOwned, Owned
  <2>8. WorkersOwned'
    BY <2>1, <2>3, <2>4 DEF WorkersOwned, Owned, Unread
  <2> QED
    BY <2>5, <2>6, <2>7, <2>8
<1>2. CASE RecordRollback
  <2>1. /\ UNCHANGED <<points, base, unread, dlock, pending, target, worker, bpc, btxn, bbase, txns>>
        /\ rpc = "asked"
    BY <1>2 DEF RecordRollback, system, bundle, counters
  <2>2. /\ file' \in States /\ cached' \in States /\ cached'.last = cached.last
        /\ file'.last \in {file.last, cached.last}
    <3>1. file \in States /\ cached \in States /\ target \in Records
      BY DEF UpTyped
    <3>2. CASE UNCHANGED <<cached, file>>
      BY <3>1, <3>2
    <3>3. CASE cached' = [cached EXCEPT !.failed = @ \cup {target.txn}] /\ file' = cached'
      <4>1. target.txn \in Nat /\ cached.failed \subseteq Nat /\ cached.last \in Records
        BY <3>1 DEF Records, States
      <4>2. cached' = [last |-> cached.last, failed |-> cached.failed \cup {target.txn}]
        BY <3>1, <3>3 DEF States
      <4> QED
        BY <3>3, <4>1, <4>2 DEF States
    <3> QED
      BY <1>2, <3>2, <3>3 DEF RecordRollback
  <2>3. UNCHANGED <<wpc, wtxn, wbase, wpoint, whash>>
    BY <2>1 DEF worker
  <2>4. UpTyped'
    BY <2>1, <2>2, <2>3 DEF UpTyped
  <2>5. Secured'
    BY <2>1, <2>3 DEF Secured, Unread
  <2>6. RecordsOwned'
    BY <2>1, <2>2 DEF RecordsOwned, Owned
  <2>7. WorkersOwned'
    BY <2>1, <2>3 DEF WorkersOwned, Owned, Unread
  <2> QED
    BY <2>4, <2>5, <2>6, <2>7
<1>3. CASE NextBoot
  <2>1. /\ UNCHANGED <<points, unread, txns>> /\ WorkerGone /\ cached' = file'
        /\ bpc' = "idle" /\ btxn' = 0 /\ bbase' = 0 /\ rpc' = "idle" /\ target' = Nothing
    BY <1>3 DEF NextBoot, DaemonStarts
  <2>2. /\ file' \in States /\ pending' \in Records
        /\ Owned(file'.last) /\ Owned(pending')
    <3>1. CASE rpc = "restored"
      <4>1. target.point \in 1..Len(points)
        BY <3>1 DEF WorkersOwned, Unread
      <4>2. file' = points[target.point].file /\ pending' = points[target.point].pending
        BY <1>3, <3>1 DEF NextBoot
      <4>3. points[target.point] \in Points
        BY <4>1 DEF UpTyped
      <4> QED
        BY <4>1, <4>2, <4>3 DEF RecordsOwned, Points
    <3>2. CASE rpc # "restored"
      BY <1>3, <3>2 DEF NextBoot, RecordsOwned, UpTyped
    <3> QED
      BY <3>1, <3>2
  <2>3. Nothing \in Records
    BY DEF Nothing, Records
  <2>4. UpTyped'
    BY <2>1, <2>2, <2>3 DEF UpTyped, WorkerGone
  <2>5. Secured'
    BY <2>1 DEF Secured, WorkerGone, Unread
  <2>6. RecordsOwned'
    BY <2>1, <2>2 DEF RecordsOwned, Owned
  <2>7. WorkersOwned'
    BY <2>1 DEF WorkersOwned, WorkerGone, Unread
  <2> QED
    BY <2>4, <2>5, <2>6, <2>7
<1>4. CASE Postboot
  <2>1. /\ UNCHANGED <<points, base, unread, dlock, file, cached, target, worker, rpc, bpc, btxn, bbase, txns>>
        /\ pending' \in {pending, Nothing}
    BY <1>4 DEF Postboot, system, bundle, counters
  <2>2. Nothing \in Records /\ Owned(Nothing)
    BY <1>c DEF Nothing, Records, Owned
  <2>3. UNCHANGED <<wpc, wtxn, wbase, wpoint, whash>>
    BY <2>1 DEF worker
  <2>4. UpTyped'
    BY <2>1, <2>2, <2>3 DEF UpTyped
  <2>5. Secured'
    BY <2>1, <2>3 DEF Secured, Unread
  <2>6. RecordsOwned'
    BY <2>1, <2>2 DEF RecordsOwned, Owned
  <2>7. WorkersOwned'
    BY <2>1, <2>3 DEF WorkersOwned, Owned, Unread
  <2> QED
    BY <2>4, <2>5, <2>6, <2>7
<1> QED
  BY <1>1, <1>2, <1>3, <1>4

(* A step that leaves the records and those who write them alone.          *)
LEMMA RecordsAlone ==
  ASSUME UpInv,
         UNCHANGED <<points, base, unread, file, cached, pending, target, wpc, wtxn, whash,
                     wbase, wpoint, bpc, btxn, bbase, rpc, txns>>,
         dlock' = dlock \/ dlock # "update"
  PROVE  UpInv'
<1> USE DEF UpInv
<1>1. UpTyped'
  BY DEF UpTyped
<1>2. Secured'
  BY DEF Secured, Unread
<1>3. RecordsOwned'
  BY DEF RecordsOwned, Owned
<1>4. WorkersOwned'
  BY DEF WorkersOwned, Owned, Unread
<1> QED
  BY <1>1, <1>2, <1>3, <1>4

(* The D-Bus calls, the stop of the daemon and what others do with apt.    *)
LEMMA OtherStepsKeep ==
  UpInv /\ (Update \/ Steer \/ Stop \/ OtherApt \/ ListsRefresh \/ UNCHANGED upVars) => UpInv'
<1> SUFFICES ASSUME UpInv, Update \/ Steer \/ Stop \/ OtherApt \/ ListsRefresh \/ UNCHANGED upVars
             PROVE UpInv'
  OBVIOUS
<1> USE DEF UpInv
<1>1. CASE Update
  <2>1. /\ UNCHANGED <<points, base, unread, dlock, file, cached, pending, target, wbase, wpoint,
                       bpc, btxn, bbase, rpc>>
        /\ wpc' = "locking" /\ wtxn' \in Nat /\ txns' \in Nat
    BY <1>1 DEF Update, system, recordFiles, bundle, clients, UpTyped
  <2>2. UpTyped'
    BY <2>1 DEF UpTyped
  <2>3. Secured'
    BY <2>1 DEF Secured, Unread
  <2>4. RecordsOwned'
    BY <2>1 DEF RecordsOwned, Owned
  <2>5. WorkersOwned'
    BY <2>1 DEF WorkersOwned, Owned, Unread
  <2> QED
    BY <2>2, <2>3, <2>4, <2>5
<1>2. CASE Stop
  <2>1. UNCHANGED <<system, file, pending, bundle, clients, txns>>
    BY <1>2 DEF Stop
  <2>2. CASE wpc \in {"committing", "naming"}
    <3>1. UNCHANGED <<points, base, unread, dlock, file, cached, pending, target, wpc, wtxn, whash,
                      wbase, wpoint, bpc, btxn, bbase, rpc, txns>>
      BY <1>2, <2>1, <2>2 DEF Stop, system, bundle, clients, worker
    <3> QED
      BY <3>1, RecordsAlone
  <2>3. CASE wpc \notin {"committing", "naming"}
    <3>1. /\ WorkerGone /\ dlock' = (IF dlock = "update" THEN "free" ELSE dlock)
          /\ cached' \in {cached, file}
      BY <1>2, <2>3 DEF Stop, DaemonStarts
    <3> QED
      BY <2>1, <3>1, WorkerLost
  <2> QED
    BY <2>2, <2>3
<1>3. CASE OtherApt /\ dlock = "other"
  <2>1. /\ UNCHANGED <<unread, file, cached, pending, worker, clients, bpc, btxn, bbase, txns>>
        /\ TakePoints(0)
    BY <1>3 DEF OtherApt, recordFiles, bundle
  <2> QED
    BY <1>3, <2>1, OthersTakePoints
<1>4. CASE OtherApt /\ dlock = "free"
  <2>1. UNCHANGED <<points, base, unread, file, cached, pending, target, wpc, wtxn, whash,
                    wbase, wpoint, bpc, btxn, bbase, rpc, txns>>
    BY <1>4 DEF OtherApt, recordFiles, bundle, clients, worker
  <2> QED
    BY <1>4, <2>1, RecordsAlone
<1>5. CASE Steer \/ ListsRefresh \/ UNCHANGED upVars
  <2>1. UNCHANGED <<points, base, unread, dlock, file, cached, pending, target, wpc, wtxn, whash,
                    wbase, wpoint, bpc, btxn, bbase, rpc, txns>>
    BY <1>5 DEF Steer, ListsRefresh, upVars, system, recordFiles, bundle, clients, worker, counters
  <2> QED
    BY <2>1, RecordsAlone
<1> QED
  BY <1>1, <1>2, <1>3, <1>4, <1>5 DEF OtherApt

(* Every step keeps the invariant.                                         *)
LEMMA UpInvStep == UpInv /\ [UpNext]_upVars => UpInv'
BY WorkerStepsKeep, BundleStepsKeep, ClientStepsKeep, OtherStepsKeep DEF UpNext

(* Every Point, record and worker of a reachable state is as UpInv says.   *)
THEOREM UpdateInvariant == UpSpec => []UpInv
BY UpInvInit, UpInvStep, PTL DEF UpSpec

(* A Point that an update's record names was taken by that update: for any *)
(* number of updates, bundles and dpkg runs, with any other apt between,   *)
(* stopped or rebooted anywhere and rolled back any number of times.       *)
THEOREM UpdatePointIsItsOwnHolds == UpSpec => []UpdatePointIsItsOwn
<1>1. UpInv => UpdatePointIsItsOwn
  BY DEF UpInv, RecordsOwned, Owned, UpdatePointIsItsOwn
<1> QED
  BY <1>1, UpdateInvariant, PTL

(* What fireproofd is about to commit was computed for what is installed.  *)
THEOREM CommitsWhatWasReviewedHolds == UpSpec => []CommitsWhatWasReviewed
<1>1. UpInv => CommitsWhatWasReviewed
  BY DEF UpInv, Secured, CommitsWhatWasReviewed
<1> QED
  BY <1>1, UpdateInvariant, PTL

-----------------------------------------------------------------------------
(* What Ember Mode altered.                                                *)

USE DEF machine, files, Ended, RunRestore, FirstFile, Running

\* ember-restore works only while emberd does not run.
Apart ==
  /\ restore # "off" => unit \in {"pre", "post"}
  /\ step # "off" => unit \in {"start", "active"}

Lines == stateFile \cup restoring

\* A line before each change.
RecordedAhead ==
  /\ step = "governor" => Cpus \ todo \subseteq Lines
  /\ step = "set" => Cpus \subseteq Lines
  /\ step = "weight" => Slice \in Lines

\* What ember-restore has not undone is still in its list; the file it renames
\* ember.state to is not there; at its end neither file is.
UndoneFirst ==
  /\ restore \in {"work", "state"} => altered \cap restoring \subseteq todo \cup stateFile
  /\ restore = "claim" => restoring = {}
  /\ restore = "state" => stateFile = {}
  /\ restore = "end" => stateFile = {} /\ restoring = {}

EmInv == Apart /\ RecordedAhead /\ UndoneFirst /\ AlteredIsRecorded

(* The initial states have it.                                             *)
LEMMA EmInvInit == EmInit => EmInv
BY DEF EmInit, EmInv, Apart, RecordedAhead, UndoneFirst, AlteredIsRecorded

(* The unit starts emberd when ember-restore has ended, and the other way  *)
(* round.                                                                  *)
LEMMA ApartStep == EmInv /\ [EmNext]_emVars => Apart'
<1> SUFFICES ASSUME EmInv, [EmNext]_emVars PROVE Apart'
  OBVIOUS
<1> USE DEF EmInv, Apart
<1>1. ASSUME Duration PROVE Apart'
  BY <1>1 DEF Duration
<1>2. ASSUME Arm PROVE Apart'
  BY <1>2 DEF Arm
<1>3. ASSUME Killed PROVE Apart'
  BY <1>3 DEF Killed
<1>4. ASSUME TryHold PROVE Apart'
  BY <1>4 DEF TryHold
<1>5. ASSUME StartGovernors PROVE Apart'
  BY <1>5 DEF StartGovernors
<1>6. ASSUME GovernorsSet PROVE Apart'
  BY <1>6 DEF GovernorsSet
<1>7. ASSUME Paused PROVE Apart'
  BY <1>7 DEF Paused
<1>8. ASSUME RecordWeight PROVE Apart'
  BY <1>8 DEF RecordWeight
<1>9. ASSUME SetWeight PROVE Apart'
  BY <1>9 DEF SetWeight
<1>10. ASSUME HoldLost PROVE Apart'
  BY <1>10 DEF HoldLost
<1>11. ASSUME Extinguish PROVE Apart'
  BY <1>11 DEF Extinguish
<1>12. ASSUME Quit PROVE Apart'
  BY <1>12 DEF Quit
<1>13. ASSUME Undone PROVE Apart'
  BY <1>13 DEF Undone
<1>14. ASSUME Claim PROVE Apart'
  BY <1>14 DEF Claim
<1>15. ASSUME RestoreEnds PROVE Apart'
  BY <1>15 DEF RestoreEnds
<1>16. ASSUME RestoreKilled PROVE Apart'
  BY <1>16 DEF RestoreKilled
<1>17. ASSUME NEW c \in Cpus, RecordGovernor(c) PROVE Apart'
  BY <1>17 DEF RecordGovernor
<1>18. ASSUME NEW c \in Cpus, SetGovernor(c) PROVE Apart'
  BY <1>18 DEF SetGovernor
<1>19. ASSUME NEW s \in Services, RecordStop(s) PROVE Apart'
  BY <1>19 DEF RecordStop
<1>20. ASSUME NEW s \in Services, StopUnit(s) PROVE Apart'
  BY <1>20 DEF StopUnit
<1>21. ASSUME NEW i \in Things, Undo(i) PROVE Apart'
  BY <1>21 DEF Undo
<1>22. CASE UNCHANGED emVars
  BY <1>22 DEF emVars
<1> QED
  BY <1>1, <1>2, <1>3, <1>4, <1>5, <1>6, <1>7, <1>8, <1>9, <1>10, <1>11,
     <1>12, <1>13, <1>14, <1>15, <1>16, <1>17, <1>18, <1>19, <1>20, <1>21,
     <1>22 DEF EmNext

(* No change is reached without its line: while emberd runs, nobody else    *)
(* touches the files.                                                      *)
LEMMA RecordedAheadStep == EmInv /\ [EmNext]_emVars => RecordedAhead'
<1> SUFFICES ASSUME EmInv, [EmNext]_emVars PROVE RecordedAhead'
  OBVIOUS
<1> USE DEF EmInv, Apart, RecordedAhead, AlteredIsRecorded, Lines
<1>1. ASSUME Duration PROVE RecordedAhead'
  BY <1>1 DEF Duration
<1>2. ASSUME Arm PROVE RecordedAhead'
  BY <1>2 DEF Arm
<1>3. ASSUME Killed PROVE RecordedAhead'
  BY <1>3 DEF Killed
<1>4. ASSUME TryHold PROVE RecordedAhead'
  BY <1>4 DEF TryHold
<1>5. ASSUME StartGovernors PROVE RecordedAhead'
  BY <1>5 DEF StartGovernors
<1>6. ASSUME GovernorsSet PROVE RecordedAhead'
  BY <1>6 DEF GovernorsSet
<1>7. ASSUME Paused PROVE RecordedAhead'
  BY <1>7 DEF Paused
<1>8. ASSUME RecordWeight PROVE RecordedAhead'
  BY <1>8 DEF RecordWeight
<1>9. ASSUME SetWeight PROVE RecordedAhead'
  BY <1>9 DEF SetWeight
<1>10. ASSUME HoldLost PROVE RecordedAhead'
  BY <1>10 DEF HoldLost
<1>11. ASSUME Extinguish PROVE RecordedAhead'
  BY <1>11 DEF Extinguish
<1>12. ASSUME Quit PROVE RecordedAhead'
  BY <1>12 DEF Quit
<1>13. ASSUME Undone PROVE RecordedAhead'
  BY <1>13 DEF Undone
<1>14. ASSUME Claim PROVE RecordedAhead'
  BY <1>14 DEF Claim
<1>15. ASSUME RestoreEnds PROVE RecordedAhead'
  BY <1>15 DEF RestoreEnds
<1>16. ASSUME RestoreKilled PROVE RecordedAhead'
  BY <1>16 DEF RestoreKilled
<1>17. ASSUME NEW c \in Cpus, RecordGovernor(c) PROVE RecordedAhead'
  BY <1>17 DEF RecordGovernor
<1>18. ASSUME NEW c \in Cpus, SetGovernor(c) PROVE RecordedAhead'
  BY <1>18 DEF SetGovernor
<1>19. ASSUME NEW s \in Services, RecordStop(s) PROVE RecordedAhead'
  BY <1>19 DEF RecordStop
<1>20. ASSUME NEW s \in Services, StopUnit(s) PROVE RecordedAhead'
  BY <1>20 DEF StopUnit
<1>21. ASSUME NEW i \in Things, Undo(i) PROVE RecordedAhead'
  BY <1>21 DEF Undo
<1>22. CASE UNCHANGED emVars
  BY <1>22 DEF emVars
<1> QED
  BY <1>1, <1>2, <1>3, <1>4, <1>5, <1>6, <1>7, <1>8, <1>9, <1>10, <1>11,
     <1>12, <1>13, <1>14, <1>15, <1>16, <1>17, <1>18, <1>19, <1>20, <1>21,
     <1>22 DEF EmNext

(* ember-restore loses no line before it is undone, wherever it is killed. *)
LEMMA UndoneFirstStep == EmInv /\ [EmNext]_emVars => UndoneFirst'
<1> SUFFICES ASSUME EmInv, [EmNext]_emVars PROVE UndoneFirst'
  OBVIOUS
<1> USE DEF EmInv, Apart, UndoneFirst, AlteredIsRecorded
<1>1. ASSUME Duration PROVE UndoneFirst'
  BY <1>1 DEF Duration
<1>2. ASSUME Arm PROVE UndoneFirst'
  BY <1>2 DEF Arm
<1>3. ASSUME Killed PROVE UndoneFirst'
  BY <1>3 DEF Killed
<1>4. ASSUME TryHold PROVE UndoneFirst'
  BY <1>4 DEF TryHold
<1>5. ASSUME StartGovernors PROVE UndoneFirst'
  BY <1>5 DEF StartGovernors
<1>6. ASSUME GovernorsSet PROVE UndoneFirst'
  BY <1>6 DEF GovernorsSet
<1>7. ASSUME Paused PROVE UndoneFirst'
  BY <1>7 DEF Paused
<1>8. ASSUME RecordWeight PROVE UndoneFirst'
  BY <1>8 DEF RecordWeight
<1>9. ASSUME SetWeight PROVE UndoneFirst'
  BY <1>9 DEF SetWeight
<1>10. ASSUME HoldLost PROVE UndoneFirst'
  BY <1>10 DEF HoldLost
<1>11. ASSUME Extinguish PROVE UndoneFirst'
  BY <1>11 DEF Extinguish
<1>12. ASSUME Quit PROVE UndoneFirst'
  BY <1>12 DEF Quit
<1>13. ASSUME Undone PROVE UndoneFirst'
  BY <1>13 DEF Undone
<1>14. ASSUME Claim PROVE UndoneFirst'
  BY <1>14 DEF Claim
<1>15. ASSUME RestoreEnds PROVE UndoneFirst'
  BY <1>15 DEF RestoreEnds
<1>16. ASSUME RestoreKilled PROVE UndoneFirst'
  BY <1>16 DEF RestoreKilled
<1>17. ASSUME NEW c \in Cpus, RecordGovernor(c) PROVE UndoneFirst'
  BY <1>17 DEF RecordGovernor
<1>18. ASSUME NEW c \in Cpus, SetGovernor(c) PROVE UndoneFirst'
  BY <1>18 DEF SetGovernor
<1>19. ASSUME NEW s \in Services, RecordStop(s) PROVE UndoneFirst'
  BY <1>19 DEF RecordStop
<1>20. ASSUME NEW s \in Services, StopUnit(s) PROVE UndoneFirst'
  BY <1>20 DEF StopUnit
<1>21. ASSUME NEW i \in Things, Undo(i) PROVE UndoneFirst'
  BY <1>21 DEF Undo
<1>22. CASE UNCHANGED emVars
  BY <1>22 DEF emVars
<1> QED
  BY <1>1, <1>2, <1>3, <1>4, <1>5, <1>6, <1>7, <1>8, <1>9, <1>10, <1>11,
     <1>12, <1>13, <1>14, <1>15, <1>16, <1>17, <1>18, <1>19, <1>20, <1>21,
     <1>22 DEF EmNext

(* What is altered keeps its line through every step.                      *)
LEMMA AlteredStep == EmInv /\ [EmNext]_emVars => AlteredIsRecorded'
<1> SUFFICES ASSUME EmInv, [EmNext]_emVars PROVE AlteredIsRecorded'
  OBVIOUS
<1> USE DEF EmInv, Apart, RecordedAhead, UndoneFirst, AlteredIsRecorded, Lines
<1>1. ASSUME Duration PROVE AlteredIsRecorded'
  BY <1>1 DEF Duration
<1>2. ASSUME Arm PROVE AlteredIsRecorded'
  BY <1>2 DEF Arm
<1>3. ASSUME Killed PROVE AlteredIsRecorded'
  BY <1>3 DEF Killed
<1>4. ASSUME TryHold PROVE AlteredIsRecorded'
  BY <1>4 DEF TryHold
<1>5. ASSUME StartGovernors PROVE AlteredIsRecorded'
  BY <1>5 DEF StartGovernors
<1>6. ASSUME GovernorsSet PROVE AlteredIsRecorded'
  BY <1>6 DEF GovernorsSet
<1>7. ASSUME Paused PROVE AlteredIsRecorded'
  BY <1>7 DEF Paused
<1>8. ASSUME RecordWeight PROVE AlteredIsRecorded'
  BY <1>8 DEF RecordWeight
<1>9. ASSUME SetWeight PROVE AlteredIsRecorded'
  BY <1>9 DEF SetWeight
<1>10. ASSUME HoldLost PROVE AlteredIsRecorded'
  BY <1>10 DEF HoldLost
<1>11. ASSUME Extinguish PROVE AlteredIsRecorded'
  BY <1>11 DEF Extinguish
<1>12. ASSUME Quit PROVE AlteredIsRecorded'
  BY <1>12 DEF Quit
<1>13. ASSUME Undone PROVE AlteredIsRecorded'
  BY <1>13 DEF Undone
<1>14. ASSUME Claim PROVE AlteredIsRecorded'
  BY <1>14 DEF Claim
<1>15. ASSUME RestoreEnds PROVE AlteredIsRecorded'
  BY <1>15 DEF RestoreEnds
<1>16. ASSUME RestoreKilled PROVE AlteredIsRecorded'
  BY <1>16 DEF RestoreKilled
<1>17. ASSUME NEW c \in Cpus, RecordGovernor(c) PROVE AlteredIsRecorded'
  BY <1>17 DEF RecordGovernor
<1>18. ASSUME NEW c \in Cpus, SetGovernor(c) PROVE AlteredIsRecorded'
  BY <1>18 DEF SetGovernor
<1>19. ASSUME NEW s \in Services, RecordStop(s) PROVE AlteredIsRecorded'
  BY <1>19 DEF RecordStop
<1>20. ASSUME NEW s \in Services, StopUnit(s) PROVE AlteredIsRecorded'
  BY <1>20 DEF StopUnit
<1>21. ASSUME NEW i \in Things, Undo(i) PROVE AlteredIsRecorded'
  BY <1>21 DEF Undo
<1>22. CASE UNCHANGED emVars
  BY <1>22 DEF emVars
<1> QED
  BY <1>1, <1>2, <1>3, <1>4, <1>5, <1>6, <1>7, <1>8, <1>9, <1>10, <1>11,
     <1>12, <1>13, <1>14, <1>15, <1>16, <1>17, <1>18, <1>19, <1>20, <1>21,
     <1>22 DEF EmNext

(* Every step keeps the inductive invariant.                               *)
LEMMA EmInvStep == EmInv /\ [EmNext]_emVars => EmInv'
BY ApartStep, RecordedAheadStep, UndoneFirstStep, AlteredStep DEF EmInv

(* The inductive invariant holds in every state.                           *)
THEOREM EmberInvariant == EmSpec => []EmInv
BY EmInvInit, EmInvStep, PTL DEF EmSpec

(* Whatever emberd changed and nobody put back has a line in one of the    *)
(* two files, whichever of them was killed and when.                       *)
THEOREM AlteredIsRecordedHolds == EmSpec => []AlteredIsRecorded
<1>1. EmInv => AlteredIsRecorded
  BY DEF EmInv
<1> QED
  BY <1>1, EmberInvariant, PTL

(* An ember-restore that comes to its end has put back all that any emberd *)
(* before it changed, also what earlier restores that were killed left.    *)
THEOREM RestoreIsWhole == EmSpec => [](restore = "end" => altered = {})
<1>1. EmInv => (restore = "end" => altered = {})
  BY DEF EmInv, UndoneFirst, AlteredIsRecorded
<1> QED
  BY <1>1, EmberInvariant, PTL

-----------------------------------------------------------------------------
(* The types, the numbers of transactions and Points included.             *)

\* What PhoenixRestore holds is of its kind, whatever was cut and when.
THEOREM PhoenixTypeCorrect == PhSpec => []PhTypeOK
<1>1. PhTyped => PhTypeOK
  BY DEF PhTyped, PhTypeOK, KeptRoots, Phases
<1> QED
  BY <1>1, PhTypedInit, PhTypedStep, PTL DEF PhSpec

\* A transaction that runs has a number of its own kind, and the lock is free or
\* held by one of the three.
Numbers == 0..2 * MaxTxns

TxnsNumbered ==
  /\ txns <= MaxTxns /\ wtxn <= MaxTxns /\ btxn <= 2 * MaxTxns
  /\ wpc # "idle" => wtxn # 0
  /\ dlock \in {"free", "update", "other"}
  /\ unread \subseteq 1..2 * MaxTxns

Numbered(r) == r.last.txn \in Numbers /\ r.failed \subseteq 1..2 * MaxTxns

\* Every record names a transaction, those inside the Points included: a
\* rollback makes them the machine's.
RecordsNumbered ==
  /\ Numbered(file) /\ Numbered(cached) /\ pending.txn \in Numbers
  /\ target.txn \in Numbers /\ target.point <= Len(points)
  /\ \A i \in 1..Len(points) : Numbered(points[i].file) /\ points[i].pending.txn \in Numbers

(* The initial states have these numbers.                                  *)
LEMMA NumbersInit == UpInit => TxnsNumbered /\ RecordsNumbered
<1> SUFFICES ASSUME UpInit PROVE TxnsNumbered /\ RecordsNumbered
  OBVIOUS
<1>1. MaxTxns \in Nat
  BY UpdateAssumption
<1>2. TxnsNumbered
  BY <1>1 DEF UpInit, TxnsNumbered
<1>3. points = <<>> /\ Len(points) = 0 /\ Nothing.txn = 0 /\ Nothing.point = 0
  BY DEF UpInit, Nothing
<1>4. file.last = Nothing /\ file.failed = {} /\ cached = file /\ pending = Nothing
      /\ target = Nothing
  BY DEF UpInit
<1> QED
  BY <1>1, <1>2, <1>3, <1>4 DEF RecordsNumbered, Numbered, Numbers

(* Numbers are handed out within their bounds.                             *)
LEMMA TxnsNumberedStep == UpInv /\ TxnsNumbered /\ [UpNext]_upVars => TxnsNumbered'
<1> SUFFICES ASSUME UpInv, TxnsNumbered, [UpNext]_upVars PROVE TxnsNumbered'
  OBVIOUS
<1> USE DEF TxnsNumbered
<1>c. MaxTxns \in Nat /\ txns \in Nat /\ wtxn \in Nat /\ btxn \in Nat
  BY UpdateAssumption DEF UpInv, UpTyped
<1>0. CASE Revalidate
  <2>1. UNCHANGED <<wtxn, btxn, txns, dlock>> /\ wpc = "revalidating"
    BY <1>0 DEF Revalidate, WorkerStep, WorkerMoves, counters, bundle
  <2>2. unread' \subseteq unread \cup {wtxn}
    BY <1>0 DEF Revalidate, WorkerStep
  <2> QED
    BY <1>c, <2>1, <2>2
<1>1. CASE LockTaken \/ LockTimeout \/ Download \/ NewsGate
  BY <1>1 DEF LockTaken, LockTimeout, Download, NewsGate, WorkerStep, WorkerMoves, counters,
     bundle
<1>2. CASE Commit \/ NamePoint \/ VerifyAndSave
  BY <1>2 DEF Commit, NamePoint, VerifyAndSave, WorkerStep, WorkerMoves, counters, bundle
<1>3. CASE Finish \/ Stop
  <2>1. /\ unread' = unread /\ btxn' = btxn /\ txns' = txns
        /\ dlock' \in {dlock, "free"} /\ ((wtxn' = wtxn /\ wpc' = wpc) \/ (wtxn' = 0 /\ wpc' = "idle"))
    BY <1>3 DEF Finish, Stop, WorkerGone, system, counters, bundle, worker
  <2> QED
    BY <1>c, <2>1
<1>4. CASE Update \/ Steer
  <2>1. UNCHANGED <<unread, btxn, dlock>>
    BY <1>4 DEF Update, Steer, system, bundle
  <2>2. /\ txns' <= MaxTxns /\ wtxn' <= MaxTxns
        /\ wpc' # "idle" => wtxn' # 0
    BY <1>4, <1>c DEF Update, Steer, worker, counters
  <2> QED
    BY <1>c, <2>1, <2>2
<1>5. CASE AskTarget \/ RecordRollback \/ Postboot
  <2>1. UNCHANGED <<unread, txns, wtxn, btxn, wpc, dlock>>
    BY <1>5 DEF AskTarget, RecordRollback, Postboot, system, worker, counters, bundle
  <2> QED
    BY <2>1
<1>6. CASE NextBoot
  BY <1>6, <1>c DEF NextBoot, WorkerGone
<1>7. CASE BundleInstall \/ BundleBaseline
  <2>1. UNCHANGED <<unread, wtxn, wpc, dlock>>
    BY <1>7 DEF BundleInstall, BundleBaseline, BundleStep, worker
  <2>2. txns' <= MaxTxns /\ btxn' <= 2 * MaxTxns
    BY <1>7, <1>c DEF BundleInstall, BundleBaseline
  <2> QED
    BY <1>c, <2>1, <2>2
<1>8. CASE BundleCommit \/ BundleCheck \/ BundleRecord
  <2>1. UNCHANGED <<unread, txns, wtxn, wpc, dlock>> /\ btxn' \in {btxn, 0}
    BY <1>8 DEF BundleCommit, BundleCheck, BundleRecord, BundleStep, worker
  <2> QED
    BY <1>c, <2>1
<1>9. CASE OtherApt \/ ListsRefresh
  BY <1>9 DEF OtherApt, ListsRefresh, worker, bundle
<1>10. CASE UNCHANGED upVars
  BY <1>10 DEF upVars
<1> QED
  BY <1>1, <1>2, <1>3, <1>4, <1>5, <1>6, <1>7, <1>8, <1>9, <1>10, <1>0 DEF UpNext, WorkerNextStep

(* The records inside the Points are those that the machine had.           *)
LEMMA PointsNumbered ==
  ASSUME UpInv, RecordsNumbered, NEW t \in Nat, TakePoints(t),
         UNCHANGED <<file, cached, pending, target>>
  PROVE  RecordsNumbered'
<1>1. /\ Len(points) \in Nat /\ Len(points') \in Nat /\ Len(points') >= Len(points)
      /\ \A i \in 1..Len(points) : points'[i] = points[i]
      /\ \A i \in (Len(points) + 1)..Len(points') :
           points'[i] = [owner |-> t, file |-> file, pending |-> pending]
  BY PointsTaken
<1>2. ASSUME NEW i \in 1..Len(points')
      PROVE  Numbered(points'[i].file) /\ points'[i].pending.txn \in Numbers
  <2>1. CASE i \in 1..Len(points)
    BY <1>1, <2>1 DEF RecordsNumbered
  <2>2. CASE i \notin 1..Len(points)
    <3>1. points'[i].file = file /\ points'[i].pending = pending
      BY <1>1, <2>2
    <3> QED
      BY <3>1 DEF RecordsNumbered
  <2> QED
    BY <2>1, <2>2
<1>3. target.point <= Len(points')
  BY <1>1 DEF RecordsNumbered, UpInv, UpTyped, Records
<1> QED
  BY <1>1, <1>2, <1>3 DEF RecordsNumbered, Numbered

(* A record is made of a number that is a transaction's.                   *)
LEMMA RecordsNumberedStep ==
  UpInv /\ TxnsNumbered /\ RecordsNumbered /\ [UpNext]_upVars => RecordsNumbered'
<1> SUFFICES ASSUME UpInv, TxnsNumbered, RecordsNumbered, [UpNext]_upVars
             PROVE  RecordsNumbered'
  OBVIOUS
<1>c. /\ MaxTxns \in Nat /\ txns \in Nat /\ wtxn \in Nat /\ btxn \in Nat /\ Len(points) \in Nat
      /\ cached.last.point \in Nat /\ pending.point \in Nat /\ target.point \in Nat
  BY UpdateAssumption DEF UpInv, UpTyped, States, Records
<1>1. CASE LockTaken \/ LockTimeout \/ Revalidate \/ Download \/ NewsGate
  BY <1>1 DEF LockTaken, LockTimeout, Revalidate, Download, NewsGate, WorkerStep, WorkerMoves, clients,
     recordFiles, RecordsNumbered, Numbered
<1>2. CASE Commit
  BY <1>2, <1>c, PointsNumbered DEF Commit, WorkerStep, WorkerMoves, clients, recordFiles
<1>3. CASE NamePoint
  <2>1. /\ pending' = Txn(wtxn, wpoint')
        /\ UNCHANGED <<points, file, cached, target>>
    BY <1>3 DEF NamePoint, WorkerStep, WorkerMoves, clients
  <2>2. pending'.txn \in Numbers
    BY <1>c, <2>1 DEF Txn, Numbers, TxnsNumbered
  <2> QED
    BY <2>1, <2>2 DEF RecordsNumbered, Numbered
<1>4. CASE VerifyAndSave
  <2>1. PICK bad \in BOOLEAN :
          cached' = [last |-> Txn(wtxn, wpoint),
                     failed |-> IF bad THEN cached.failed \cup {wtxn} ELSE cached.failed]
    BY <1>4 DEF VerifyAndSave
  <2>2. cached'.last.txn = wtxn /\ cached'.failed \subseteq cached.failed \cup {wtxn}
    BY <2>1 DEF Txn
  <2>3. wtxn \in 1..2 * MaxTxns
    BY <1>4, <1>c DEF VerifyAndSave, WorkerStep, WorkerMoves, TxnsNumbered
  <2>4. Numbered(cached')
    BY <2>2, <2>3 DEF RecordsNumbered, Numbered, Numbers
  <2>5. file' = cached' /\ UNCHANGED <<points, pending, target>>
    BY <1>4 DEF VerifyAndSave, WorkerStep, WorkerMoves, clients
  <2> QED
    BY <2>4, <2>5 DEF RecordsNumbered, Numbered
<1>5. CASE Finish \/ Stop
  <2>1. cached' \in {cached, file} /\ UNCHANGED <<points, file, pending, target>>
    BY <1>5 DEF Finish, Stop, DaemonStarts, system, clients
  <2> QED
    BY <2>1 DEF RecordsNumbered, Numbered
<1>6. CASE Update \/ Steer \/ Postboot
  <2>1. UNCHANGED <<points, file, cached, target>> /\ pending' \in {pending, Nothing}
    BY <1>6 DEF Update, Steer, Postboot, system, recordFiles, clients
  <2> QED
    BY <1>c, <2>1 DEF RecordsNumbered, Numbered, Numbers, Nothing
<1>7. CASE AskTarget
  <2>1. UNCHANGED <<points, file, cached, pending>> /\ target' = RollbackTarget
    BY <1>7 DEF AskTarget, system, recordFiles
  <2>2. target'.txn = cached.last.txn /\ target'.point \in {pending.point, cached.last.point}
    BY <2>1 DEF RollbackTarget, Txn
  <2>3. pending.point <= Len(points) /\ cached.last.point <= Len(points)
    BY DEF UpInv, RecordsOwned, Owned
  <2> QED
    BY <1>c, <2>1, <2>2, <2>3 DEF RecordsNumbered, Numbered
<1>8. CASE RecordRollback
  <2>1. /\ UNCHANGED <<points, pending, target>>
        /\ \/ UNCHANGED <<file, cached>>
           \/ /\ target.txn # 0 /\ file' = cached'
              /\ cached' = [cached EXCEPT !.failed = @ \cup {target.txn}]
    BY <1>8 DEF RecordRollback, system
  <2>2. CASE UNCHANGED <<file, cached>>
    BY <2>1, <2>2 DEF RecordsNumbered, Numbered
  <2>3. CASE /\ target.txn # 0 /\ file' = cached'
             /\ cached' = [cached EXCEPT !.failed = @ \cup {target.txn}]
    <3>1. cached'.last = cached.last /\ cached'.failed = cached.failed \cup {target.txn}
      BY <2>3 DEF UpInv, UpTyped, States
    <3>2. target.txn \in 1..2 * MaxTxns
      BY <1>c, <2>3 DEF RecordsNumbered, Numbers
    <3>3. Numbered(cached')
      BY <3>1, <3>2 DEF RecordsNumbered, Numbered
    <3> QED
      BY <2>1, <2>3, <3>3 DEF RecordsNumbered, Numbered
  <2> QED
    BY <2>1, <2>2, <2>3
<1>9. CASE NextBoot
  <2>1. Numbered(file') /\ pending'.txn \in Numbers
    <3>1. CASE rpc = "restored"
      <4>1. target.point \in 1..Len(points)
        BY <3>1 DEF UpInv, WorkersOwned
      <4> QED
        BY <1>9, <3>1, <4>1 DEF NextBoot, RecordsNumbered
    <3>2. CASE rpc # "restored"
      BY <1>9, <3>2 DEF NextBoot, RecordsNumbered
    <3> QED
      BY <3>1, <3>2
  <2>2. points' = points /\ cached' = file' /\ target'.txn = 0 /\ target'.point = 0
    BY <1>9 DEF NextBoot, DaemonStarts, Nothing
  <2>3. Numbered(cached') /\ target'.txn \in Numbers /\ target'.point <= Len(points')
    BY <1>c, <2>1, <2>2 DEF Numbers
  <2> QED
    BY <2>1, <2>2, <2>3 DEF RecordsNumbered, Numbered
<1>10. CASE BundleInstall \/ BundleBaseline \/ BundleCheck
  BY <1>10 DEF BundleInstall, BundleBaseline, BundleCheck, BundleStep, clients,
     RecordsNumbered, Numbered
<1>11. CASE BundleCommit
  <2>1. UNCHANGED <<file, cached, pending, target>>
    BY <1>11 DEF BundleCommit, BundleStep, clients
  <2>2. TakePoints(btxn) \/ points' = points
    BY <1>11 DEF BundleCommit
  <2>3. CASE points' = points
    BY <2>1, <2>3 DEF RecordsNumbered, Numbered
  <2> QED
    BY <1>c, <2>1, <2>2, <2>3, PointsNumbered
<1>12. CASE BundleRecord
  <2>1. /\ file' = [file EXCEPT !.last = Txn(btxn, FirstPreAfter(bbase))]
        /\ UNCHANGED <<points, cached, pending, target>>
    BY <1>12 DEF BundleRecord, BundleStep, clients
  <2>2. file'.last = Txn(btxn, FirstPreAfter(bbase)) /\ file'.failed = file.failed
    BY <2>1 DEF UpInv, UpTyped, States
  <2>3. Numbered(file')
    BY <1>c, <2>2 DEF RecordsNumbered, Numbered, Numbers, Txn, TxnsNumbered
  <2> QED
    BY <2>1, <2>3 DEF RecordsNumbered, Numbered
<1>13. CASE OtherApt
  <2>1. UNCHANGED <<file, cached, pending, target>>
    BY <1>13 DEF OtherApt, recordFiles, clients
  <2>2. TakePoints(0) \/ points' = points
    BY <1>13 DEF OtherApt
  <2>3. CASE points' = points
    BY <2>1, <2>3 DEF RecordsNumbered, Numbered
  <2> QED
    BY <1>c, <2>1, <2>2, <2>3, PointsNumbered
<1>14. CASE ListsRefresh \/ UNCHANGED upVars
  BY <1>14 DEF ListsRefresh, upVars, recordFiles, clients, RecordsNumbered, Numbered
<1> QED
  BY <1>1, <1>2, <1>3, <1>4, <1>5, <1>6, <1>7, <1>8, <1>9, <1>10, <1>11, <1>12, <1>13, <1>14
  DEF UpNext, WorkerNextStep

(* The records are of their kind: the Points are those that Owned bounds.  *)
LEMMA UpdateTypes == UpInv /\ TxnsNumbered /\ RecordsNumbered => UpTypeOK
<1> SUFFICES ASSUME UpInv, TxnsNumbered, RecordsNumbered PROVE UpTypeOK
  OBVIOUS
<1>1. \A r \in {file.last, cached.last, pending, target} :
        r \in Records /\ r.txn \in Numbers /\ r.point <= Len(points)
  BY DEF UpInv, UpTyped, States, RecordsOwned, Owned, RecordsNumbered, Numbered
<1>2. Len(points) \in Nat
  BY DEF UpInv, UpTyped
<1>3. \A r \in Records : r.txn \in Numbers /\ r.point <= Len(points) => r \in UpRecords
  BY <1>2 DEF Records, UpRecords, Numbers
<1>4. file.failed \cup cached.failed \cup unread \subseteq 1..2 * MaxTxns
  BY DEF RecordsNumbered, Numbered, TxnsNumbered
<1> QED
  BY <1>1, <1>3, <1>4 DEF UpTypeOK, TxnsNumbered

(* They are, with or without the worker's fairness.                        *)
LEMMA UpdateTypesHold == UpInit /\ [][UpNext]_upVars => []UpTypeOK
<1>1. UpInit => UpInv /\ TxnsNumbered /\ RecordsNumbered
  BY UpInvInit, NumbersInit
<1>2. UpInv /\ TxnsNumbered /\ RecordsNumbered /\ [UpNext]_upVars
        => (UpInv /\ TxnsNumbered /\ RecordsNumbered)'
  BY UpInvStep, TxnsNumberedStep, RecordsNumberedStep
<1> QED
  BY <1>1, <1>2, UpdateTypes, PTL

\* Every record of the machine names a transaction and a Point that exist, after
\* a rollback to the records inside a Point too.
THEOREM UpdateTypeCorrect == UpSpec => []UpTypeOK
BY UpdateTypesHold DEF UpSpec

(* Ember Mode keeps what it holds of its kind.                             *)
LEMMA EmberTypesStep == Apart /\ EmTypeOK /\ [EmNext]_emVars => EmTypeOK'
<1> SUFFICES ASSUME Apart, EmTypeOK, [EmNext]_emVars PROVE EmTypeOK'
  OBVIOUS
<1> USE DEF EmTypeOK
<1>c. MaxArms \in Nat /\ MaxKills \in Nat
  BY EmberAssumption
<1>d. Cpus \subseteq Things /\ Services \subseteq Things /\ Slice \in Things
  BY DEF Things
<1>0. CASE Duration
  <2>1. limit' \in BOOLEAN
    BY <1>0 DEF Duration
  <2>2. UNCHANGED <<altered, stateFile, restoring, hold, unit, step, todo, restore, arms, kills>>
    BY <1>0 DEF Duration
  <2> QED
    BY <2>1, <2>2
<1>1. CASE Arm
  <2>1. arms < MaxArms /\ arms' = arms + 1 /\ unit' = "pre" /\ restore' = "work"
        /\ todo' = restoring
        /\ UNCHANGED <<altered, hold, stateFile, restoring, limit, step, kills>>
    BY <1>1 DEF Arm
  <2>2. arms' \in 0..MaxArms
    BY <1>c, <2>1
  <2> QED
    BY <2>1, <2>2
<1>2. CASE Killed \/ Quit
  <2>1. /\ UNCHANGED <<altered, stateFile, restoring, limit, arms, kills>>
        /\ unit' = "post" /\ step' = "off" /\ restore' = "work"
        /\ hold' = FALSE /\ todo' = restoring
    BY <1>2 DEF Killed, Quit
  <2> QED
    BY <2>1
<1>3. CASE TryHold \/ StartGovernors \/ GovernorsSet
  BY <1>3, <1>d DEF TryHold, StartGovernors, GovernorsSet
<1>4. CASE Paused \/ HoldLost \/ Extinguish
  BY <1>4 DEF Paused, HoldLost, Extinguish
<1>5. CASE RecordWeight \/ SetWeight
  BY <1>5, <1>d DEF RecordWeight, SetWeight
<1>6. CASE Undone \/ Claim
  BY <1>6 DEF Undone, Claim
<1>7. CASE RestoreEnds
  BY <1>7 DEF RestoreEnds
<1>8. CASE RestoreKilled
  <2>1. /\ UNCHANGED <<altered, stateFile, restoring, limit, arms>>
        /\ unit' \in {"post", "inactive"} /\ step' \in {"off", step}
        /\ restore' \in {"work", "off"} /\ hold' \in {FALSE, hold}
        /\ todo' \in {restoring, {}} /\ kills < MaxKills /\ kills' = kills + 1
    BY <1>8 DEF RestoreKilled
  <2>2. kills' \in 0..MaxKills
    BY <1>c, <2>1
  <2> QED
    BY <2>1, <2>2
<1>9. ASSUME NEW c \in Cpus, RecordGovernor(c) \/ SetGovernor(c) PROVE EmTypeOK'
  BY <1>9, <1>d DEF RecordGovernor, SetGovernor
<1>10. ASSUME NEW s \in Services, RecordStop(s) \/ StopUnit(s) PROVE EmTypeOK'
  BY <1>10, <1>d DEF RecordStop, StopUnit
<1>11. ASSUME NEW i \in Things, Undo(i) PROVE EmTypeOK'
  BY <1>11 DEF Undo
<1>12. CASE UNCHANGED emVars
  BY <1>12 DEF emVars
<1> QED
  BY <1>0, <1>1, <1>2, <1>3, <1>4, <1>5, <1>6, <1>7, <1>8, <1>9, <1>10, <1>11, <1>12 DEF EmNext

\* Every line is of a thing that Ember Mode alters, and the unit, emberd and
\* ember-restore are where they can be.
THEOREM EmberTypeCorrect == EmSpec => []EmTypeOK
<1>1. EmInit => EmInv /\ EmTypeOK
  <2>1. EmInit => EmTypeOK
    <3> SUFFICES ASSUME EmInit PROVE EmTypeOK
      OBVIOUS
    <3>1. arms \in 0..MaxArms /\ kills \in 0..MaxKills
      BY EmberAssumption DEF EmInit
    <3> QED
      BY <3>1 DEF EmInit, EmTypeOK
  <2> QED
    BY <2>1, EmInvInit
<1>2. EmInv /\ EmTypeOK /\ [EmNext]_emVars => (EmInv /\ EmTypeOK)'
  BY EmInvStep, EmberTypesStep DEF EmInv
<1> QED
  BY <1>1, <1>2, PTL DEF EmSpec

-----------------------------------------------------------------------------
(* The parts together, as the run explores them.                           *)

\* No part's step touches another part: each behaviour of the five together is
\* one of each of them, so what is proved of one holds beside the others.
THEOREM PartsStayApart ==
  Spec => /\ PhSpec /\ EmSpec /\ AmSpec /\ MaSpec
          /\ UpInit /\ [][UpNext]_upVars
<1>1. Init => PhInit /\ UpInit /\ EmInit /\ AmInit /\ MaInit
  BY DEF Init
<1>2. [Next]_vars => /\ [PhNext]_phVars /\ [UpNext]_upVars /\ [EmNext]_emVars
                     /\ [AmNext]_amVars /\ [MaNext]_maVars
  BY DEF Next, Phoenix, Fireproof, Ember, Mirror, Mcp, vars
<1> QED
  BY <1>1, <1>2, PTL DEF Spec, PhSpec, EmSpec, AmSpec, MaSpec

\* Everything that is kept for the machine's next run is of its kind, whichever
\* parts are explored.
THEOREM HostServicesTypeCorrect == Spec => []TypeOK
BY PartsStayApart, PhoenixTypeCorrect, UpdateTypesHold, EmberTypeCorrect, MirrorTypeCorrect,
   McpTypeCorrect, PTL DEF TypeOK

\* What the run checks of them, on its own specification and for every value of
\* the constants: the kernels, the update record, Ember Mode and both audit logs.
THEOREM HostServicesAreSafe ==
  Spec => /\ [](BootMatchesRoot /\ UpdatePointIsItsOwn /\ CommitsWhatWasReviewed)
          /\ [](AlteredIsRecorded /\ DamageIsFound /\ AlarmsAreExplained /\ LogKeepsUp)
<1>1. UpInit /\ [][UpNext]_upVars => [](UpdatePointIsItsOwn /\ CommitsWhatWasReviewed)
  <2>1. UpInv => UpdatePointIsItsOwn /\ CommitsWhatWasReviewed
    BY DEF UpInv, RecordsOwned, Owned, Secured, UpdatePointIsItsOwn, CommitsWhatWasReviewed
  <2> QED
    BY <2>1, UpInvInit, UpInvStep, PTL
<1> QED
  BY <1>1, PartsStayApart, BootMatchesRootHolds, AlteredIsRecordedHolds, DamageIsFoundHolds,
     AlarmsAreExplainedHolds, LogKeepsUpHolds, PTL
=============================================================================
