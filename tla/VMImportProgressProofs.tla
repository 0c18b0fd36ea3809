------------------------ MODULE VMImportProgressProofs ------------------------
(***************************************************************************)
(* The rest of the inductive invariant of VMImport, and what follows from   *)
(* it: the controller implements ImportLifecycle, leaves an exported source *)
(* VM alone, serves the files it still needs and loses no wake-up.         *)
(*                                                                         *)
(* The many actions of the worker are first reduced to the few things they  *)
(* can do to its copy of the import (WorkerEffects); the preservation of    *)
(* every part of the invariant then has one case for each of these.        *)
(***************************************************************************)
EXTENDS VMImportSafetyProofs, FiniteSetTheorems

-----------------------------------------------------------------------------
(***************************************************************************)
(* What a step of the worker does to its copy                              *)
(***************************************************************************)
\* The handler returns; it is called again unless it cleaned up or is waiting
\* for the images.
Returned ==
    /\ UNCHANGED server /\ pc' = "idle" /\ w' = NewImport /\ wfresh' = FALSE
    /\ queued => queued'
    /\ \/ queued' \/ timer'
       \/ pc = "cleanup" /\ images' = images
       \/ /\ pc = "poll" /\ k = Len(w.disks) /\ images' = images
          /\ evaluateDiskImportStatus(w.disks) = "none"

\* UpdateStatus is accepted.
Written ==
    /\ pc \in UpdateSteps /\ wfresh /\ Write /\ UNCHANGED <<target, power, files>>
    /\ pc' = "idle" /\ w' = NewImport /\ wfresh' = FALSE
    /\ queued => queued'
    /\ timer' = timer
    /\ pc = "updateErr" => queued'

\* The finalizer is removed.
Removed ==
    /\ pc = "finalize" /\ wfresh /\ imp' = [imp EXCEPT !.phase = "gone"] /\ fresh' = FALSE
    /\ UNCHANGED <<conf, cache, icache, target, power, files>>
    /\ pc' = "idle" /\ w' = NewImport /\ wfresh' = FALSE

\* The reconcile goes on.
Goes(p, o) ==
    /\ UNCHANGED server /\ pc' = p /\ w' = o /\ wfresh' = wfresh
    /\ queued' = queued
    /\ timer => timer'

\* ... having decided on the next status,
Decided ==
    \E s \in Statuses :
        /\ pc \in DOMAIN StepStatus \ {"exporting", "cleanup"} /\ images' = images
        /\ Goes("update", WithStatus(s))
        /\ s \in Arrows[w.status] /\ s # w.status
        /\ pc = "submit" => s = "DiskImagesSubmitted" \/ w.disks = <<>>
        /\ s = "DiskImagesFailed" => \E j \in DOMAIN w.disks : "Failed" \in w.disks[j].conds
        /\ s = "VMCreated" => vm' \in {"created", "ready"}
        /\ s = "VMRunning" => vm' = "ready"

\* ... with an error after some of the disks were submitted,
Saved == pc = "submit" /\ Unsubmitted # {} /\ Goes("updateErr", w)

\* ... with one more step of the export,
Stopping ==
    /\ pc = "export" /\ images' = images /\ Goes("update", w')
    /\ w'.phase = w.phase /\ w'.disks = w.disks
    /\ w'.status \in {"SourceReady", "DisksExported", "MigrationFailed"}
    /\ \/ w' = w /\ timer'
       \/ \E c \in {"PoweringOff", "ShutdownGuest", "PoweredOff"} \ w.conds :
             w'.conds = w.conds \cup {c}
       \/ ExportDone(w) /\ w'.conds = w.conds /\ w'.status # w.status

ExportStarts ==
    pc = "export" /\ images' = images /\ Goes("exporting", w) /\ Stopped(w) /\ ~ExportDone(w)

ExportEnds ==
    /\ pc = "exporting" /\ images' = images /\ Goes("update", w')
    /\ w'.phase = w.phase /\ w'.status \in {"DisksExported", "MigrationFailed"}
    /\ \E c \in {"Exported", "ExportFailed"} : w'.conds = w.conds \cup {c}
    /\ \E n \in Nat : w'.disks = w.disks \o ExportedDisks(n)

\* ... having changed the entry of a disk,
Marked ==
    \E j \in DOMAIN w.disks : \E d \in DiskInfo :
        /\ pc \in {"submit", "poll", "resubmit"} /\ Goes(pc, WithDisk(j, d))
        /\ d.conds # {}
        /\ pc # "submit" => d.image = w.disks[j].image
        /\ pc = "poll" => reconcileVMIStatus

\* ... or not having changed it.
Moved ==
    /\ Goes(pc', w) /\ images' = images
    /\ \/ pc = "poll" /\ pc' = "poll" /\ reconcileVMIStatus
       \/ <<pc, pc'>> \in {<<"build", "pvc">>, <<"pvc", "pvc">>, <<"remove", "finalize">>}
Tidied == Goes(pc', w) /\ pc = "tidy" /\ pc' \in {"tidy", "cleanup"}

LEMMA ReturnReturns ==
    ASSUME UNCHANGED server, Return(TRUE) \/ \E err : ReturnAfter(err), TypeOK
    PROVE  Returned
<1>1. pc' = "idle" /\ w' = NewImport /\ wfresh' = FALSE
  BY Zenon DEF Return, ReturnAfter
<1>2. (queued => queued') /\ (queued' \/ timer')
  BY Zenon DEF Return, ReturnAfter, TypeOK
<1> QED  BY <1>1, <1>2 DEF Returned

LEMMA ContinueGoes ==
    ASSUME UNCHANGED server, NEW p, NEW o, NEW n, Continue(p, o, n)
    PROVE  Goes(p, o)
BY Zenon DEF Continue, Goes

LEMMA UpdateGoes ==
    ASSUME UNCHANGED server, NEW o, Update(o)
    PROVE  Goes("update", o)
BY ContinueGoes DEF Update

\* An action of the worker that only decides on the status.
LEMMA DecidedEffect ==
    ASSUME DataInv, NEW s \in Statuses, Update(WithStatus(s)),
           UNCHANGED server, images' = images,
           pc \in DOMAIN StepStatus \ {"exporting", "cleanup"},
           s \in Arrows[w.status], s # w.status,
           pc = "submit" => s = "DiskImagesSubmitted" \/ w.disks = <<>>,
           s = "DiskImagesFailed" => \E j \in DOMAIN w.disks : "Failed" \in w.disks[j].conds,
           s = "VMCreated" => vm' \in {"created", "ready"},
           s = "VMRunning" => vm' = "ready"
    PROVE  Decided
<1>1. Goes("update", WithStatus(s))
  BY UpdateGoes
<1> QED  BY <1>1 DEF Decided

LEMMA ArrowFacts ==
    /\ Arrows["New"] = {"ImportValid", "ImportInvalid"}
    /\ Arrows["ImportValid"] = {"SourceReady", "ImportInvalid"}
    /\ Arrows["SourceReady"] = {"SourceReady", "DisksExported", "MigrationFailed"}
    /\ Arrows["DisksExported"] = {"DisksExported", "DiskImagesSubmitted", "ImportInvalid"}
    /\ Arrows["DiskImagesSubmitted"] = {"DiskImagesReady", "DiskImagesFailed"}
    /\ Arrows["DiskImagesFailed"] = {"SourceReady"}
    /\ Arrows["DiskImagesReady"] = {"VMCreated", "MigrationFailed"}
    /\ Arrows["VMCreated"] = {"VMRunning"}
    /\ \A s \in Terminal : Arrows[s] = {}
BY DEF Arrows, Statuses, Terminal

LEMMA DecisionEffects ==
    ASSUME DataInv,
           reconcilePreFlightChecks \/ sanitizeVirtualMachineImport \/ abortMigration
               \/ reconcileDiskImageStatus \/ triggerResubmit \/ reconcileVirtualMachineStatus
    PROVE  Returned \/ Restart \/ Decided
<1> USE DEF StepStatus
<1>1. pc \in DOMAIN StepStatus \ {"exporting", "cleanup"}
  BY DEF reconcilePreFlightChecks, sanitizeVirtualMachineImport, abortMigration,
         reconcileDiskImageStatus, triggerResubmit, reconcileVirtualMachineStatus
<1>2. w.status \in StepStatus[pc] /\ w \in Import /\ TypeOK
  BY <1>1, CopyFacts DEF DataInv
<1>3. CASE reconcilePreFlightChecks
  <2>1. pc = "preflight" /\ UNCHANGED server /\ images' = images
    BY <1>3 DEF reconcilePreFlightChecks, target
  <2>2. ASSUME NEW s \in {"ImportValid", "ImportInvalid"}, Update(WithStatus(s)) PROVE Decided
    BY <1>1, <1>2, <2>1, <2>2, ArrowFacts, DecidedEffect DEF Statuses
  <2> QED  BY <1>2, <1>3, <2>1, <2>2, ReturnReturns DEF reconcilePreFlightChecks
<1>4. CASE sanitizeVirtualMachineImport
  <2>1. CASE Restart
    BY <2>1
  <2>2. CASE UNCHANGED <<server, target, world>> /\ pc = "sanitize"
             /\ \E s \in {"SourceReady", "ImportInvalid"} : Update(WithStatus(s))
    <3>1. UNCHANGED server /\ images' = images
      BY <2>2 DEF target
    <3> QED  BY <1>1, <1>2, <2>2, <3>1, ArrowFacts, DecidedEffect DEF Statuses
  <2> QED  BY <1>4, <2>1, <2>2 DEF sanitizeVirtualMachineImport
<1>5. CASE abortMigration
  <2>1. /\ pc \in {"export", "build"} /\ UNCHANGED server /\ images' = images
        /\ Update(WithStatus("MigrationFailed"))
    BY <1>5 DEF abortMigration, target
  <2> QED  BY <1>1, <1>2, <2>1, ArrowFacts, DecidedEffect DEF Statuses
<1>6. CASE reconcileDiskImageStatus
  <2>1. /\ pc = "submit" /\ UNCHANGED server /\ images' = images
        /\ \/ w.disks = <<>> /\ Update(WithStatus("ImportInvalid"))
           \/ Update(WithStatus("DiskImagesSubmitted"))
    BY <1>6 DEF reconcileDiskImageStatus, target
  <2> QED  BY <1>1, <1>2, <2>1, ArrowFacts, DecidedEffect DEF Statuses
<1>7. CASE triggerResubmit
  <2>1. /\ pc = "resubmit" /\ UNCHANGED server /\ images' = images
        /\ Update(WithStatus("SourceReady"))
    BY <1>7 DEF triggerResubmit, target
  <2> QED  BY <1>1, <1>2, <2>1, ArrowFacts, DecidedEffect DEF Statuses
<1>8. CASE reconcileVirtualMachineStatus
  <2>1. /\ pc = "check" /\ UNCHANGED server /\ images' = images /\ vm' = vm
        /\ \/ vm = "ready" /\ Update(WithStatus("VMRunning"))
           \/ ReturnAfter(FALSE)
    BY <1>8 DEF reconcileVirtualMachineStatus, target
  <2> QED  BY <1>1, <1>2, <2>1, ArrowFacts, DecidedEffect, ReturnReturns DEF Statuses
<1> QED  BY <1>3, <1>4, <1>5, <1>6, <1>7, <1>8

LEMMA ExportEffects ==
    ASSUME DataInv,
           triggerStop \/ seesPoweredOff \/ powerOffAfterTimeout \/ waitForPowerOff
               \/ triggerExport \/ exportSucceeds \/ exportFails
    PROVE  Returned \/ Stopping \/ ExportStarts \/ ExportEnds
<1>1. /\ pc \in {"export", "exporting"} /\ pc \in DOMAIN StepStatus /\ UNCHANGED server
      /\ images' = images
  BY DEF triggerStop, seesPoweredOff, powerOffAfterTimeout, waitForPowerOff, WaitPoweredOff,
         triggerExport, exportSucceeds, exportFails, RequestStop, StepStatus, target
<1>2. w \in Import /\ w.status = "SourceReady" /\ TypeOK
  BY <1>1, CopyFacts DEF StepStatus, DataInv
<1>3. ASSUME NEW obj \in Import, obj.status = "SourceReady", obj.phase = w.phase, ExportUpdate(obj)
      PROVE  /\ Goes("update", w') /\ w'.phase = w.phase
             /\ w'.conds = obj.conds /\ w'.disks = obj.disks
             /\ w'.status \in {"SourceReady", "DisksExported", "MigrationFailed"}
             /\ ExportDone(obj) => w'.status # "SourceReady"
  <2>1. PICK s \in {"SourceReady", "MigrationFailed", "DisksExported"} :
            /\ Update([obj EXCEPT !.status = s])
            /\ ExportDone(obj) => s # "SourceReady"
    BY <1>3 DEF ExportUpdate, ExportDone
  <2>2. Goes("update", [obj EXCEPT !.status = s])
    BY <1>1, <2>1, UpdateGoes
  <2>3. w' = [obj EXCEPT !.status = s]
    BY <2>2 DEF Goes
  <2> QED  BY <1>3, <2>1, <2>2, <2>3 DEF Import
<1>4. \A cs \in SUBSET ImportConds :
         /\ WithConds(cs) \in Import /\ WithConds(cs).status = "SourceReady"
         /\ WithConds(cs).phase = w.phase /\ WithConds(cs).conds = w.conds \cup cs
         /\ WithConds(cs).disks = w.disks
  BY <1>2 DEF WithConds, Import
<1>5. ASSUME pc = "export", NEW c \in {"PoweringOff", "ShutdownGuest", "PoweredOff"} \ w.conds,
             ExportUpdate(WithConds({c}))
      PROVE  Stopping
  <2>1. {c} \in SUBSET ImportConds
    BY DEF ImportConds
  <2>2. /\ Goes("update", w') /\ w'.phase = w.phase /\ w'.disks = w.disks
        /\ w'.conds = w.conds \cup {c}
        /\ w'.status \in {"SourceReady", "DisksExported", "MigrationFailed"}
    BY <1>3, <1>4, <1>5, <2>1
  <2> QED  BY <1>1, <1>5, <2>2 DEF Stopping
<1>6. CASE triggerStop
  <2>1. PICK c \in {"PoweringOff", "ShutdownGuest"} \ w.conds : RequestStop(c)
    BY <1>6 DEF triggerStop, MustRequestStop
  <2> QED  BY <1>1, <1>2, <1>5, <1>6, <2>1, ReturnReturns DEF triggerStop, RequestStop
<1>7. CASE seesPoweredOff
  BY <1>5, <1>7 DEF seesPoweredOff, WaitPoweredOff
<1>8. CASE powerOffAfterTimeout
  <2>1. RequestStop("PoweringOff") /\ "PoweringOff" \notin w.conds /\ pc = "export"
    BY <1>8 DEF powerOffAfterTimeout, WaitPoweredOff, GracePassed
  <2> QED  BY <1>1, <1>2, <1>5, <2>1, ReturnReturns DEF RequestStop
<1>9. CASE waitForPowerOff
  BY <1>1, <1>2, <1>9 DEF waitForPowerOff, WaitPoweredOff, Stopping, Goes
<1>10. CASE triggerExport
  <2>1. pc = "export" /\ Stopped(w)
    BY <1>10 DEF triggerExport, MustRequestStop, Stopped, StopRequest
  <2>2. CASE Continue("exporting", w, 0) /\ ~ExportDone(w)
    BY <1>1, <2>1, <2>2, ContinueGoes DEF ExportStarts
  <2>3. CASE ExportUpdate(w) /\ ExportDone(w)
    <3>1. /\ Goes("update", w') /\ w'.phase = w.phase /\ w'.disks = w.disks /\ w'.conds = w.conds
          /\ w'.status \in {"DisksExported", "MigrationFailed"}
      BY <1>2, <1>3, <2>3
    <3> QED  BY <1>1, <1>2, <2>1, <2>3, <3>1 DEF Stopping
  <2> QED  BY <1>10, <2>2, <2>3 DEF triggerExport, ExportDone
<1>11. ASSUME pc = "exporting", NEW c \in {"Exported", "ExportFailed"}, NEW n \in Nat,
              ExportUpdate([WithConds({c}) EXCEPT !.disks = @ \o ExportedDisks(n)])
       PROVE  ExportEnds
  <2> DEFINE obj == [WithConds({c}) EXCEPT !.disks = @ \o ExportedDisks(n)]
  <2>1. {c} \in SUBSET ImportConds
    BY DEF ImportConds
  <2>2. /\ obj \in Import /\ obj.status = "SourceReady" /\ obj.phase = w.phase
        /\ obj.conds = w.conds \cup {c} /\ obj.disks = w.disks \o ExportedDisks(n)
    <3>1. obj \in Import
      BY <1>4, <2>1, DisksType, WithType
    <3> QED  BY <1>4, <2>1, <3>1 DEF Import
  <2>3. ExportUpdate(obj)
    BY <1>11
  <2> HIDE DEF obj
  <2>4. /\ Goes("update", w') /\ w'.phase = w.phase /\ w'.conds = w.conds \cup {c}
        /\ w'.disks = w.disks \o ExportedDisks(n)
        /\ w'.status \in {"DisksExported", "MigrationFailed"}
    BY <1>3, <2>2, <2>3 DEF ExportDone
  <2> QED  BY <1>1, <1>11, <2>4 DEF ExportEnds
<1>12. CASE exportSucceeds \/ exportFails
  <2>1. PICK n \in Nat, c \in {"Exported", "ExportFailed"} :
            ExportUpdate([WithConds({c}) EXCEPT !.disks = @ \o ExportedDisks(n)])
    <3>1. 0..MaxDisks \subseteq Nat
      BY BoundsAssumption
    <3> QED  BY <1>12, <3>1 DEF exportSucceeds, exportFails
  <2>2. pc = "exporting"
    BY <1>12 DEF exportSucceeds, exportFails
  <2> QED  BY <1>11, <2>1, <2>2
<1> QED  BY <1>6, <1>7, <1>8, <1>9, <1>10, <1>12

\* A loop over the disks has changed the entry of one.
LEMMA MarkEffect ==
    ASSUME UNCHANGED server, pc \in {"submit", "poll", "resubmit"},
           NEW j \in DOMAIN w.disks, NEW d \in DiskInfo, NEW n, Continue(pc, WithDisk(j, d), n),
           d.conds # {}, pc # "submit" => d.image = w.disks[j].image,
           pc = "poll" => reconcileVMIStatus
    PROVE  Marked
<1>1. Goes(pc, WithDisk(j, d))
  BY ContinueGoes
<1> QED  BY <1>1 DEF Marked

LEMMA SubmitEffects ==
    ASSUME DataInv, NEW j \in First(Unsubmitted),
           findVirtualMachineImage(j) \/ createVirtualMachineImage(j)
    PROVE  Returned \/ Saved \/ Marked
<1>1. pc = "submit" /\ pc \in DOMAIN StepStatus /\ UNCHANGED server
  BY DEF findVirtualMachineImage, createVirtualMachineImage, StepStatus
<1>2. w \in Import /\ TypeOK
  BY <1>1, CopyFacts DEF DataInv
<1>3. j \in DOMAIN w.disks /\ Unsubmitted # {}
  BY DEF First, Unsubmitted
<1>4. ASSUME SubmitError PROVE Returned \/ Saved
  <2>1. CASE Continue("updateErr", w, 0)
    BY <1>1, <1>3, <2>1, ContinueGoes DEF Saved
  <2> QED  BY <1>1, <1>2, <1>4, <2>1, ReturnReturns DEF SubmitError
<1>5. ASSUME NEW i \in Image, Attach(j, i) PROVE Marked
  <2> DEFINE d == [image |-> i, conds |-> w.disks[j].conds \cup {"Submitted"}]
  <2>1. w.disks[j] \in DiskInfo
    BY <1>2, <1>3 DEF Import
  <2>2. d \in DiskInfo /\ d.conds # {}
    BY <2>1 DEF DiskInfo, DiskConds
  <2>3. Continue("submit", WithDisk(j, d), j)
    BY <1>5 DEF Attach
  <2> HIDE DEF d
  <2> QED  BY <1>1, <1>3, <2>2, <2>3, MarkEffect
<1>6. CASE findVirtualMachineImage(j)
  BY <1>4, <1>5, <1>6 DEF findVirtualMachineImage, Labelled
<1>7. CASE createVirtualMachineImage(j)
  BY <1>4, <1>5, <1>7 DEF createVirtualMachineImage, FreshImages
<1> QED  BY <1>6, <1>7

LEMMA PollEffects ==
    ASSUME DataInv, reconcileVMIStatus \/ EvaluateDisks
    PROVE  Returned \/ Decided \/ Marked \/ Moved
<1>1. pc = "poll" /\ pc \in DOMAIN StepStatus /\ UNCHANGED server /\ images' = images
  BY DEF reconcileVMIStatus, EvaluateDisks, StepStatus, target
<1>2. w \in Import /\ TypeOK /\ w.status = "DiskImagesSubmitted"
  BY <1>1, CopyFacts DEF DataInv, StepStatus
<1>3. CASE reconcileVMIStatus
  <2>1. /\ k + 1 \in DOMAIN w.disks /\ w.disks[k + 1] \in DiskInfo
    BY <1>2, <1>3 DEF reconcileVMIStatus, Import, TypeOK
  <2>2. ASSUME NEW c \in {"Ready", "Failed"},
               Continue("poll", SetDiskConds(k + 1, w.disks[k + 1].conds \cup {c}), k + 1)
        PROVE  Marked
    <3> DEFINE d == [w.disks[k + 1] EXCEPT !.conds = w.disks[k + 1].conds \cup {c}]
    <3>1. d \in DiskInfo /\ d.conds # {} /\ d.image = w.disks[k + 1].image
      BY <2>1 DEF DiskInfo, DiskConds
    <3>2. Continue("poll", WithDisk(k + 1, d), k + 1)
      BY <2>2 DEF SetDiskConds
    <3> HIDE DEF d
    <3> QED  BY <1>1, <1>3, <2>1, <3>1, <3>2, MarkEffect
  <2>3. ASSUME Continue("poll", w, k + 1) PROVE Moved
    <3>1. Goes("poll", w)
      BY <1>1, <2>3, ContinueGoes
    <3> QED  BY <1>1, <1>3, <3>1 DEF Moved, Goes
  <2>4. HasImage(k + 1) => ImageOf(k + 1).st \in {"importing", "imported", "failed"}
    <3>1. HasImage(k + 1) => ImageOf(k + 1) \in ImageObject
      BY <1>2 DEF HasImage, ImageOf, TypeOK
    <3> QED  BY <3>1 DEF HasImage, Exists, ImageObject, ImageState
  <2> QED  BY <1>1, <1>2, <1>3, <2>2, <2>3, <2>4, ReturnReturns DEF reconcileVMIStatus
<1>4. CASE EvaluateDisks
  <2> DEFINE s == evaluateDiskImportStatus(w.disks)
  <2>1. CASE s = "none" /\ Return(FALSE)
    <3>1. pc' = "idle" /\ w' = NewImport /\ wfresh' = FALSE /\ queued' = queued
      BY <2>1, Zenon DEF Return
    <3> QED  BY <1>1, <1>4, <2>1, <3>1 DEF Returned, EvaluateDisks
  <2>2. CASE Update(WithStatus(s)) /\ s # "none"
    <3>1. /\ s \in {"DiskImagesReady", "DiskImagesFailed"}
          /\ s = "DiskImagesFailed" => \E j \in 1..Len(w.disks) : "Failed" \in w.disks[j].conds
      BY <2>2 DEF evaluateDiskImportStatus
    <3>2. DOMAIN w.disks = 1..Len(w.disks)
      BY <1>2 DEF Import
    <3> HIDE DEF s
    <3>3. Update(WithStatus(s))
      BY <2>2
    <3> QED  BY <1>1, <1>2, <3>1, <3>2, <3>3, ArrowFacts, DecidedEffect DEF Statuses
  <2> QED  BY <1>4, <2>1, <2>2 DEF EvaluateDisks
<1> QED  BY <1>3, <1>4

LEMMA ResubmitEffects ==
    ASSUME DataInv, NEW j \in First(FailedDisks), cleanupAndResubmit(j)
    PROVE  Returned \/ Marked
<1>1. pc = "resubmit" /\ pc \in DOMAIN StepStatus /\ UNCHANGED server
  BY DEF cleanupAndResubmit, StepStatus
<1>2. w \in Import /\ TypeOK /\ Fits(w, images, imp.phase)
  BY <1>1, CopyFacts DEF DataInv
<1>3. j \in DOMAIN w.disks /\ "Failed" \in w.disks[j].conds
  BY DEF First, FailedDisks
<1> DEFINE d == [w.disks[j] EXCEPT !.conds = w.disks[j].conds \ {"Failed"}]
<1>4. d \in DiskInfo /\ d.conds # {} /\ d.image = w.disks[j].image
  <2>1. "Submitted" \in w.disks[j].conds
    BY <1>2, <1>3 DEF Fits, DiskFits
  <2>2. w.disks[j] \in DiskInfo
    BY <1>2, <1>3 DEF Import
  <2> QED  BY <2>1, <2>2 DEF DiskInfo, DiskConds
<1>5. Continue("resubmit", SetDiskConds(j, w.disks[j].conds \ {"Failed"}), j)
        => Continue("resubmit", WithDisk(j, d), j)
  BY DEF SetDiskConds
<1> HIDE DEF d
<1>6. Continue("resubmit", SetDiskConds(j, w.disks[j].conds \ {"Failed"}), j) => Marked
  BY <1>1, <1>3, <1>4, <1>5, MarkEffect
<1> QED  BY <1>1, <1>2, <1>6, ReturnReturns DEF cleanupAndResubmit

LEMMA BuildEffects ==
    ASSUME DataInv, createVirtualMachine \/ findAndCreatePVC \/ ensureVM
    PROVE  Returned \/ Decided \/ Moved
<1>1. /\ pc \in {"build", "pvc"} /\ pc \in DOMAIN StepStatus /\ UNCHANGED server
      /\ images' = images
  BY DEF createVirtualMachine, findAndCreatePVC, ensureVM, StepStatus, target
<1>2. w \in Import /\ TypeOK /\ w.status = "DiskImagesReady"
  BY <1>1, CopyFacts DEF DataInv, StepStatus
<1>3. ASSUME NEW n, Continue("pvc", w, n) PROVE Moved
  <2>1. Goes("pvc", w)
    BY <1>1, <1>3, ContinueGoes
  <2> QED  BY <1>1, <2>1 DEF Moved, Goes
<1>4. ASSUME Update(WithStatus("VMCreated")), vm' \in {"created", "ready"} PROVE Decided
  BY <1>1, <1>2, <1>4, ArrowFacts, DecidedEffect DEF Statuses
<1>5. CASE createVirtualMachine
  BY <1>1, <1>2, <1>3, <1>5, ReturnReturns DEF createVirtualMachine
<1>6. CASE findAndCreatePVC
  BY <1>1, <1>2, <1>3, <1>6, ReturnReturns DEF findAndCreatePVC
<1>7. CASE ensureVM
  BY <1>1, <1>2, <1>4, <1>7, ReturnReturns DEF ensureVM
<1> QED  BY <1>5, <1>6, <1>7

LEMMA EndEffects ==
    ASSUME DataInv, tidyUpObjects \/ triggerCleanup \/ OnVirtualMachineRemove \/ RemoveFinalizer
    PROVE  Returned \/ Moved \/ Tidied \/ Removed
<1>1. TypeOK
  BY DEF DataInv
<1>2. CASE tidyUpObjects
  <2>1. UNCHANGED server /\ pc = "tidy"
    BY <1>2 DEF tidyUpObjects
  <2>2. ASSUME NEW p \in {"tidy", "cleanup"}, NEW n, Continue(p, w, n) PROVE Tidied
    <3>1. Goes(p, w)
      BY <2>1, <2>2, ContinueGoes
    <3> QED  BY <2>1, <3>1 DEF Tidied, Goes
  <2> QED  BY <1>1, <1>2, <2>1, <2>2, ReturnReturns DEF tidyUpObjects
<1>3. CASE triggerCleanup
  <2>1. UNCHANGED server /\ pc = "cleanup" /\ images' = images /\ Return(FALSE)
    BY <1>3 DEF triggerCleanup, CleanupThen, target
  <2>2. pc' = "idle" /\ w' = NewImport /\ wfresh' = FALSE /\ queued' = queued
    BY <2>1, Zenon DEF Return
  <2> QED  BY <2>1, <2>2 DEF Returned
<1>4. CASE OnVirtualMachineRemove
  <2>1. /\ UNCHANGED server /\ pc = "remove" /\ images' = images
        /\ Continue("finalize", w, 0)
    BY <1>4 DEF OnVirtualMachineRemove, CleanupThen, target
  <2>2. Goes("finalize", w)
    BY <2>1, ContinueGoes
  <2> QED  BY <2>1, <2>2 DEF Moved, Goes
<1>5. CASE RemoveFinalizer
  <2>1. CASE UNCHANGED server /\ Return(TRUE)
    BY <1>1, <2>1, ReturnReturns
  <2>2. CASE /\ wfresh /\ imp' = [imp EXCEPT !.phase = "gone"] /\ fresh' = FALSE
             /\ Return(FALSE) /\ UNCHANGED <<conf, cache, icache>>
    <3>1. pc' = "idle" /\ w' = NewImport /\ wfresh' = FALSE
      BY <2>2, Zenon DEF Return
    <3> QED  BY <1>5, <2>2, <3>1 DEF RemoveFinalizer, Removed, world
  <2> QED  BY <1>5, <2>1, <2>2 DEF RemoveFinalizer
<1> QED  BY <1>2, <1>3, <1>4, <1>5

LEMMA UpdateStatusEffects == ASSUME DataInv, UpdateStatus PROVE Returned \/ Written
<1>1. TypeOK /\ pc \in UpdateSteps /\ UNCHANGED <<target, world>>
  BY DEF DataInv, UpdateStatus, UpdateSteps
<1>2. CASE UNCHANGED server /\ Return(TRUE)
  BY <1>1, <1>2, ReturnReturns
<1>3. CASE wfresh /\ Write /\ (Return(TRUE) \/ Return(pc = "updateErr"))
  <2>1. /\ pc' = "idle" /\ w' = NewImport /\ wfresh' = FALSE /\ (queued => queued')
        /\ timer' = timer /\ (pc = "updateErr" => queued')
    BY <1>3, Zenon DEF Return
  <2> QED  BY <1>1, <1>3, <2>1 DEF Written, target, world
<1> QED  BY <1>2, <1>3 DEF UpdateStatus

WorkerEffect ==
    \/ Reconcile \/ Restart \/ Returned \/ Written \/ Removed
    \/ Decided \/ Saved \/ Stopping \/ ExportStarts \/ ExportEnds
    \/ Marked \/ Moved \/ Tidied

LEMMA WorkerEffects == ASSUME DataInv, Worker PROVE WorkerEffect
<1>1. CASE RequestFails
  BY <1>1, ReturnReturns DEF RequestFails, DataInv, WorkerEffect
<1>2. CASE sanitizeVirtualMachineImport \/ reconcilePreFlightChecks \/ abortMigration
           \/ reconcileDiskImageStatus \/ triggerResubmit \/ reconcileVirtualMachineStatus
  BY <1>2, DecisionEffects DEF WorkerEffect
<1>3. CASE triggerStop \/ seesPoweredOff \/ powerOffAfterTimeout \/ waitForPowerOff
               \/ triggerExport \/ exportSucceeds \/ exportFails
  BY <1>3, ExportEffects DEF WorkerEffect
<1>4. CASE \/ \E j \in First(Unsubmitted) :
                 findVirtualMachineImage(j) \/ createVirtualMachineImage(j)
           \/ \E j \in First(FailedDisks) : cleanupAndResubmit(j)
  BY <1>4, SubmitEffects, ResubmitEffects DEF WorkerEffect
<1>5. CASE reconcileVMIStatus \/ EvaluateDisks
  BY <1>5, PollEffects DEF WorkerEffect
<1>6. CASE createVirtualMachine \/ findAndCreatePVC \/ ensureVM
  BY <1>6, BuildEffects DEF WorkerEffect
<1>7. CASE tidyUpObjects \/ triggerCleanup \/ OnVirtualMachineRemove \/ RemoveFinalizer
  BY <1>7, EndEffects DEF WorkerEffect
<1>8. CASE Reconcile \/ UpdateStatus
  BY <1>8, UpdateStatusEffects DEF WorkerEffect
<1> QED  BY <1>1, <1>2, <1>3, <1>4, <1>5, <1>6, <1>7, <1>8 DEF Worker

-----------------------------------------------------------------------------
(***************************************************************************)
(* What a step of the cluster does to the copies                           *)
(***************************************************************************)
\* The object and its copies do not move, and no wake-up is lost.
Around ==
    /\ UNCHANGED <<conf, imp, cache, fresh, worker>>
    /\ queued => queued'
    /\ timer => timer' \/ queued'
    /\ \/ UNCHANGED <<images, icache>>
       \/ \E i \in Image : ReconcileVMI(i) \/ DownloadImage(i) \/ CollectImage(i)

LEMMA EnvironmentEffects ==
    ASSUME TypeOK, Environment
    PROVE  WatchImport \/ TouchImport \/ DeleteImport \/ Restart \/ Around
<1>1. CASE TimerFires \/ VMBoots \/ SourceBecomesReady \/ SourceDeleted \/ PowersOff \/ PoweredOn
           \/ GraceElapses
  BY <1>1 DEF TimerFires, VMBoots, SourceBecomesReady, SourceDeleted, PowersOff, PoweredOn,
              GraceElapses, Around, server, wakeups, target, TypeOK
<1>2. CASE \E i \in Image : ReconcileVMI(i) \/ DownloadImage(i) \/ CollectImage(i)
  BY <1>2 DEF ReconcileVMI, DownloadImage, CollectImage, Around, server, wakeups, TypeOK
<1>3. CASE Crash
  BY <1>3 DEF Crash
<1> QED  BY <1>1, <1>2, <1>3 DEF Environment

\* The specification of the import is immutable, a VM is not unmade.
LEMMA ConfStays == ASSUME [Next]_vars PROVE conf' = conf
BY DEF Next, Worker, Environment, vars, Reconcile, RequestFails, UpdateStatus, Write,
       reconcilePreFlightChecks, sanitizeVirtualMachineImport, Restart, abortMigration, triggerStop,
       seesPoweredOff, powerOffAfterTimeout, RequestStop, waitForPowerOff, triggerExport,
       exportSucceeds, exportFails, reconcileDiskImageStatus, findVirtualMachineImage,
       createVirtualMachineImage, reconcileVMIStatus, EvaluateDisks, cleanupAndResubmit,
       triggerResubmit, createVirtualMachine, findAndCreatePVC, ensureVM,
       reconcileVirtualMachineStatus, tidyUpObjects, triggerCleanup, OnVirtualMachineRemove,
       RemoveFinalizer, WatchImport, TimerFires, VMBoots, SourceBecomesReady, SourceDeleted,
       PowersOff, PoweredOn, GraceElapses, TouchImport, DeleteImport, Crash, ReconcileVMI,
       DownloadImage, CollectImage, server

LEMMA VMSteps ==
    ASSUME [Next]_vars
    PROVE  \/ vm' = vm
           \/ ensureVM /\ vm = "none" /\ vm' = "created"
           \/ VMBoots
BY DEF Next, Worker, Environment, vars, Reconcile, RequestFails, UpdateStatus,
       reconcilePreFlightChecks, sanitizeVirtualMachineImport, Restart, abortMigration, triggerStop,
       seesPoweredOff, powerOffAfterTimeout, RequestStop, waitForPowerOff, triggerExport,
       exportSucceeds, exportFails, reconcileDiskImageStatus, findVirtualMachineImage,
       createVirtualMachineImage, reconcileVMIStatus, EvaluateDisks, cleanupAndResubmit,
       triggerResubmit, createVirtualMachine, findAndCreatePVC, ensureVM,
       reconcileVirtualMachineStatus, tidyUpObjects, triggerCleanup, OnVirtualMachineRemove,
       RemoveFinalizer, WatchImport, TimerFires, VMBoots, SourceBecomesReady, SourceDeleted,
       PowersOff, PoweredOn, GraceElapses, TouchImport, DeleteImport, Crash, ReconcileVMI,
       DownloadImage, CollectImage, target

-----------------------------------------------------------------------------
(***************************************************************************)
(* The phases and the conditions of the copies                             *)
(***************************************************************************)
LEMMA BranchSteps ==
    \A s \in Statuses \ {"ImportInvalid"} :
        /\ Branch[s] \in DOMAIN StepStatus \ {"exporting", "pvc"}
        /\ s \in StepStatus[Branch[s]]
BY DEF Branch, Statuses, StepStatus

\* A worker takes a copy of the object it has in its cache.
LEMMA ReconcileTakes ==
    ASSUME DataInv, Reconcile, w' # w \/ pc' # pc \/ wfresh' # wfresh \/ k' # k
    PROVE  /\ cache.phase # "gone" /\ w' = cache /\ wfresh' = fresh /\ k' = 0
           /\ cache.phase = "deleting" => pc' = "remove"
           /\ cache.phase = "live" => pc' = Branch[cache.status] /\ cache.status # "ImportInvalid"
           /\ pc' \notin UpdateSteps \cup {"idle", "exporting", "finalize", "pvc"}
           /\ cache.phase = "live" => pc' # "remove" /\ cache.status \in StepStatus[pc']
<1>1. cache \in Import
  BY DEF DataInv, TypeOK
<1>2. /\ cache.phase # "gone" /\ w' = cache /\ wfresh' = fresh /\ k' = 0
      /\ cache.phase = "deleting" => pc' = "remove"
      /\ cache.phase = "live" => pc' = Branch[cache.status] /\ cache.status # "ImportInvalid"
  BY <1>1 DEF Reconcile, Import
<1> QED  BY <1>1, <1>2, BranchSteps DEF Import, UpdateSteps, StepStatus

\* What every effect of the worker that goes on has in common.
LEMMA GoingOn ==
    ASSUME DataInv,
           Decided \/ Saved \/ Stopping \/ ExportStarts \/ ExportEnds \/ Marked \/ Moved \/ Tidied
    PROVE  /\ UNCHANGED server /\ wfresh' = wfresh /\ queued' = queued /\ (timer => timer')
           /\ pc \notin UpdateSteps \cup {"idle", "finalize"} /\ pc' # "idle"
           /\ w'.phase = w.phase /\ w.conds \subseteq w'.conds
           /\ pc = "remove" <=> pc' \in {"remove", "finalize"}
           /\ pc' \notin UpdateSteps => w'.conds = w.conds
           /\ ExportDone(w') => ExportDone(w) \/ pc = "exporting"
           /\ pc' = "exporting" => ExportStarts
<1>1. w \in Import
  BY DEF DataInv, TypeOK
<1>2. CASE Decided
  BY <1>1, <1>2 DEF Decided, Goes, WithStatus, Import, ExportDone, UpdateSteps, StepStatus
<1>3. CASE Saved \/ Moved \/ Tidied \/ ExportStarts
  BY <1>3 DEF Saved, Moved, Tidied, ExportStarts, Goes, UpdateSteps
<1>4. CASE Stopping
  <2>1. w.conds \subseteq w'.conds /\ (ExportDone(w') => ExportDone(w))
    BY <1>4 DEF Stopping, ExportDone
  <2> QED  BY <1>4, <2>1 DEF Stopping, Goes, UpdateSteps
<1>5. CASE ExportEnds
  BY <1>5 DEF ExportEnds, Goes, UpdateSteps
<1>6. CASE Marked
  <2>1. PICK j \in DOMAIN w.disks, d \in DiskInfo : w' = WithDisk(j, d)
    BY <1>6 DEF Marked, Goes
  <2>2. w'.conds = w.conds /\ w'.phase = w.phase
    BY <1>1, <2>1 DEF WithDisk, Import
  <2> QED  BY <1>6, <2>2 DEF Marked, Goes, UpdateSteps, ExportDone
<1> QED  BY <1>2, <1>3, <1>4, <1>5, <1>6

\* UpdateStatus keeps the phase and adds conditions.
LEMMA WrittenKeeps ==
    ASSUME DataInv, CondsOK, Written
    PROVE  /\ imp' = w /\ w.phase = imp.phase /\ imp.conds \subseteq w.conds
           /\ cache' = cache /\ icache' = icache /\ conf' = conf
BY DEF DataInv, WorkerOK, CopyAt, UpToDate, CondsOK, Written, Write

LEMMA PhaseSteps ==
    ASSUME DataInv, PhaseOK, CondsOK, [Next]_vars
    PROVE  PhaseOK'
<1>1. imp \in Import /\ cache \in Import /\ w \in Import
  BY DEF DataInv, TypeOK
<1>2. CASE Reconcile
  <2>1. UNCHANGED <<imp, cache, fresh>> /\ pc = "idle" /\ w = NewImport /\ ~wfresh
    BY <1>2 DEF Reconcile, server, PhaseOK
  <2>2. CASE w' # w \/ pc' # pc \/ wfresh' # wfresh \/ k' # k
    BY <1>1, <1>2, <2>1, <2>2, ReconcileTakes DEF PhaseOK, Import
  <2>3. CASE UNCHANGED <<pc, w, wfresh, k>>
    BY <2>1, <2>3 DEF PhaseOK
  <2> QED  BY <2>2, <2>3
<1>3. CASE Restart
  BY <1>3 DEF Restart, PhaseOK
<1>4. CASE Returned
  BY <1>4 DEF Returned, PhaseOK, server
<1>5. CASE Written
  BY <1>5, WrittenKeeps DEF Written, PhaseOK
<1>6. CASE Removed
  <2>1. imp'.phase = "gone" /\ cache' = cache
    BY <1>1, <1>6 DEF Removed, Import
  <2> QED  BY <1>6, <2>1 DEF Removed, PhaseOK
<1>7. CASE Decided \/ Saved \/ Stopping \/ ExportStarts \/ ExportEnds \/ Marked \/ Moved \/ Tidied
  BY <1>7, GoingOn DEF PhaseOK, server
<1>8. CASE WatchImport
  BY <1>8 DEF WatchImport, PhaseOK, worker
<1>9. CASE TouchImport
  BY <1>9 DEF TouchImport, PhaseOK
<1>10. CASE DeleteImport
  <2>1. imp.phase = "live" /\ imp'.phase = "deleting" /\ cache' = cache /\ UNCHANGED <<pc, w>>
        /\ wfresh' = FALSE
    BY <1>1, <1>10 DEF DeleteImport, Import
  <2> QED  BY <2>1 DEF PhaseOK
<1>11. CASE Around \/ UNCHANGED vars
  BY <1>11 DEF Around, PhaseOK, worker, vars, server
<1>12. TypeOK
  BY DEF DataInv
<1> QED  BY <1>2, <1>3, <1>4, <1>5, <1>6, <1>7, <1>8, <1>9, <1>10, <1>11, <1>12,
            WorkerEffects, EnvironmentEffects DEF Next, WorkerEffect

LEMMA CondSteps ==
    ASSUME DataInv, PhaseOK, CondsOK, [Next]_vars
    PROVE  CondsOK'
<1>1. imp \in Import /\ cache \in Import /\ w \in Import
  BY DEF DataInv, TypeOK
<1>2. StopRequest' = StopRequest
  BY ConfStays DEF StopRequest, ForceStop, IsPowerOffSupported
<1>3. NewImport.conds = {} /\ "idle" \notin UpdateSteps /\ "exporting" \notin UpdateSteps
  BY DEF NewImport, UpdateSteps
<1> USE DEF CondsOK, Stopped, ExportDone
<1>4. CASE Reconcile
  <2>1. UNCHANGED <<imp, cache, fresh>> /\ pc = "idle" /\ w = NewImport /\ ~wfresh
        /\ (fresh => cache = imp)
    BY <1>4 DEF Reconcile, server, PhaseOK, DataInv, ServerOK
  <2>2. CASE w' # w \/ pc' # pc \/ wfresh' # wfresh \/ k' # k
    BY <1>2, <1>4, <2>1, <2>2, ReconcileTakes
  <2>3. CASE UNCHANGED <<pc, w, wfresh, k>>
    BY <1>2, <1>3, <2>1, <2>3
  <2> QED  BY <2>2, <2>3
<1>5. CASE Restart
  BY <1>2, <1>3, <1>5 DEF Restart
<1>6. CASE Returned
  BY <1>2, <1>3, <1>6 DEF Returned, server
<1>7. CASE Written
  BY <1>2, <1>3, <1>7, WrittenKeeps DEF Written
<1>8. CASE Removed
  <2>1. imp'.conds = imp.conds /\ cache' = cache
    BY <1>1, <1>8 DEF Removed, Import
  <2> QED  BY <1>2, <1>3, <1>8, <2>1 DEF Removed
<1>9. CASE Decided \/ Saved \/ Stopping \/ ExportStarts \/ ExportEnds \/ Marked \/ Moved \/ Tidied
  <2>1. UNCHANGED <<imp, cache>>
    BY <1>9, GoingOn DEF server
  <2>2. w.conds \subseteq cache.conds /\ cache.conds \subseteq imp.conds
    BY <1>9, GoingOn
  <2>3. ExportDone(w) => Stopped(w)
    BY <1>9, <2>2, GoingOn
  <2>4. pc = "exporting" => Stopped(w)
    OBVIOUS
  <2>5. pc' = "exporting" => Stopped(w) /\ ~ExportDone(w)
    BY <1>9, GoingOn DEF ExportStarts
  <2> QED  BY <1>2, <1>3, <1>9, <2>1, <2>2, <2>3, <2>4, <2>5, GoingOn
<1>10. CASE WatchImport
  <2>1. imp' = imp /\ cache' = imp /\ UNCHANGED <<pc, w, wfresh>>
    BY <1>10 DEF WatchImport, worker
  <2> QED  BY <1>2, <2>1
<1>11. CASE TouchImport
  BY <1>2, <1>11 DEF TouchImport
<1>12. CASE DeleteImport
  <2>1. imp'.conds = imp.conds /\ UNCHANGED <<cache, pc, w>> /\ wfresh' = FALSE
    BY <1>1, <1>12 DEF DeleteImport, Import
  <2> QED  BY <1>2, <2>1
<1>13. CASE Around \/ UNCHANGED vars
  <2>1. UNCHANGED <<imp, cache, pc, w, wfresh>>
    BY <1>13 DEF Around, worker, vars, server
  <2> QED  BY <1>2, <2>1
<1>14. TypeOK
  BY DEF DataInv
<1> QED  BY <1>4, <1>5, <1>6, <1>7, <1>8, <1>9, <1>10, <1>11, <1>12, <1>13, <1>14,
            WorkerEffects, EnvironmentEffects DEF Next, WorkerEffect

-----------------------------------------------------------------------------
(***************************************************************************)
(* What a step does to the images                                          *)
(***************************************************************************)
Created(i) ==
    /\ pc = "submit" /\ UNCHANGED server /\ images[i].st = "none"
    /\ \E j \in Nat : images' = [images EXCEPT ![i] = [st |-> "importing", disk |-> j, owned |-> TRUE]]
Dropped(i) ==
    /\ pc = "resubmit" /\ UNCHANGED server /\ images[i].st = "failed"
    /\ images' = [images EXCEPT ![i].st = "gone"]
Disowned(i) ==
    /\ pc = "tidy" /\ UNCHANGED server /\ images[i].st # "none"
    /\ images' = [images EXCEPT ![i].owned = FALSE]

LEMMA ImageEffects ==
    ASSUME DataInv, [Next]_vars
    PROVE  \/ images' = images
           \/ \E i \in Image : \/ Created(i) \/ Dropped(i) \/ Disowned(i)
                               \/ DownloadImage(i) \/ CollectImage(i)
<1>1. CASE \E j \in First(FailedDisks) : cleanupAndResubmit(j)
  <2>1. PICK j \in First(FailedDisks) : cleanupAndResubmit(j)
    BY <1>1
  <2>2. CASE images' = images
    BY <2>2
  <2>3. CASE HasImage(j) /\ images' = [images EXCEPT ![w.disks[j].image].st = "gone"]
    <3>1. pc = "resubmit" /\ UNCHANGED server /\ j \in DOMAIN w.disks
          /\ "Failed" \in w.disks[j].conds
      BY <2>1 DEF cleanupAndResubmit, First, FailedDisks
    <3>2. DiskFits(w.disks[j], j, images, imp.phase)
      BY <3>1 DEF DataInv, WorkerOK, Fits
    <3>3. w.disks[j].image \in Image /\ images[w.disks[j].image].st = "failed"
      BY <2>3, <3>1, <3>2 DEF HasImage, ImageOf, Exists, DiskFits
    <3> QED  BY <2>3, <3>1, <3>3 DEF Dropped
  <2> QED  BY <2>1, <2>2, <2>3 DEF cleanupAndResubmit
<1>2. CASE \E j \in First(Unsubmitted) : createVirtualMachineImage(j)
  <2>1. PICK j \in First(Unsubmitted) : createVirtualMachineImage(j)
    BY <1>2
  <2>2. j \in Nat
    <3>1. w.disks \in Seq(DiskInfo) /\ j \in DOMAIN w.disks
      BY DEF First, Unsubmitted, DataInv, TypeOK, Import
    <3> QED  BY <3>1
  <2> QED  BY <2>1, <2>2 DEF createVirtualMachineImage, FreshImages, Created
<1>3. CASE tidyUpObjects
  BY <1>3 DEF tidyUpObjects, HasImage, ImageOf, Exists, Disowned
<1>4. CASE \E i \in Image : DownloadImage(i) \/ CollectImage(i)
  BY <1>4
<1>5. CASE /\ Worker /\ ~tidyUpObjects
           /\ ~\E j \in First(Unsubmitted) : createVirtualMachineImage(j)
           /\ ~\E j \in First(FailedDisks) : cleanupAndResubmit(j)
  BY <1>5 DEF Worker, Reconcile, RequestFails, UpdateStatus, reconcilePreFlightChecks,
       sanitizeVirtualMachineImport, Restart, abortMigration, triggerStop, seesPoweredOff,
       powerOffAfterTimeout, RequestStop, waitForPowerOff, triggerExport, exportSucceeds,
       exportFails, reconcileDiskImageStatus, findVirtualMachineImage,
       reconcileVMIStatus, EvaluateDisks, triggerResubmit,
       createVirtualMachine, findAndCreatePVC, ensureVM, reconcileVirtualMachineStatus,
       triggerCleanup, OnVirtualMachineRemove, RemoveFinalizer, target
<1>6. CASE Environment /\ ~\E d \in Image : DownloadImage(d) \/ CollectImage(d)
  BY <1>6 DEF Environment, WatchImport, TimerFires, VMBoots, SourceBecomesReady, SourceDeleted,
       PowersOff, PoweredOn, GraceElapses, TouchImport, DeleteImport, Crash, Restart,
       ReconcileVMI, target
<1>7. CASE UNCHANGED vars
  BY <1>7 DEF vars, target
<1> QED  BY <1>1, <1>2, <1>3, <1>4, <1>5, <1>6, <1>7 DEF Next

\* An image that failed or is gone stays so, and one that was imported stays so
\* as long as the import.
LEMMA ImageStates ==
    ASSUME DataInv, [Next]_vars, NEW i \in Image
    PROVE  /\ images[i].st \in {"failed", "gone"} => images'[i].st \in {"failed", "gone"}
           /\ images[i].st = "imported" => images'[i].st = "imported" \/ imp.phase = "gone"
           /\ images[i].st # "none" => images'[i].st # "none" /\ images'[i].disk = images[i].disk
           /\ images'[i].st = "imported" => images[i].st = "imported" \/ DownloadImage(i)
           /\ images'[i].st \in {"none", "importing"} => images[i].st \in {"none", images'[i].st}
           /\ images[i] # images'[i] => \/ Created(i) \/ Dropped(i) \/ Disowned(i)
                                        \/ DownloadImage(i) \/ CollectImage(i)
<1>1. images \in [Image -> ImageObject]
  BY DEF DataInv, TypeOK
<1>2. CASE images' = images
  BY <1>2
<1>3. ASSUME NEW d \in Image, Created(d) \/ Dropped(d) \/ Disowned(d)
      PROVE  /\ d # i => images'[i] = images[i]
             /\ d = i => /\ images'[i].st # "none"
                         /\ images[i].st # "none" => images'[i].disk = images[i].disk
                         /\ \/ images[i].st = "none" /\ images'[i].st = "importing"
                            \/ images[i].st = "failed" /\ images'[i].st = "gone"
                            \/ images'[i].st = images[i].st
  BY <1>1, <1>3 DEF Created, Dropped, Disowned, ImageObject
<1>4. ASSUME NEW d \in Image, DownloadImage(d) \/ CollectImage(d)
      PROVE  /\ d # i => images'[i] = images[i]
             /\ d = i => /\ images'[i].disk = images[i].disk
                         /\ \/ /\ DownloadImage(i)
                               /\ images[i].st = "importing" /\ images'[i].st \in {"imported", "failed"}
                            \/ imp.phase = "gone" /\ images'[i].st = "gone" /\ images[i].st # "none"
  BY <1>1, <1>4 DEF DownloadImage, CollectImage, ImageObject, Exists
<1>5. CASE \E d \in Image : Created(d) \/ Dropped(d) \/ Disowned(d) \/ DownloadImage(d) \/ CollectImage(d)
  <2>1. PICK d \in Image : Created(d) \/ Dropped(d) \/ Disowned(d) \/ DownloadImage(d) \/ CollectImage(d)
    BY <1>5
  <2>2. CASE d # i
    BY <1>3, <1>4, <2>1, <2>2
  <2>3. CASE d = i
    BY <1>3, <1>4, <2>1, <2>3
  <2> QED  BY <2>2, <2>3
<1> QED  BY <1>2, <1>5, ImageEffects

-----------------------------------------------------------------------------
(***************************************************************************)
(* The progress of the import                                              *)
(***************************************************************************)
\* A VM that was seen stays, a disk that was lost stays lost.
LEMMA SeenStays ==
    ASSUME [Next]_vars
    PROVE  \A o : VMSeen(o, vm) => VMSeen(o, vm')
BY VMSteps DEF VMSeen, VMBoots

LEMMA VerdictStays ==
    ASSUME DataInv, [Next]_vars
    PROVE  \A o : VerdictOK(o, images) => VerdictOK(o, images')
<1>1. \A i \in Image : images[i].st \in {"failed", "gone"} => images'[i].st \in {"failed", "gone"}
  BY ImageStates
<1> QED  BY <1>1 DEF VerdictOK, Incomplete

\* Nothing is known of an object nobody has touched.
LEMMA NewImportOK ==
    /\ ListOK(NewImport)
    /\ \A v : VMSeen(NewImport, v)
    /\ \A imgs : VerdictOK(NewImport, imgs)
<1>1. NewImport.status = "New" /\ NewImport.disks = <<>> /\ NewImport.conds = {}
      /\ DOMAIN NewImport.disks = {}
  BY DEF NewImport
<1> QED  BY <1>1 DEF ListOK, VMSeen, VerdictOK

\* The status of a copy that goes on, and its disks.
LEMMA DecidedOK ==
    ASSUME DataInv, ProgressOK, [Next]_vars, Decided
    PROVE  /\ ListOK(w') /\ VMSeen(w', vm') /\ VerdictOK(w', images')
           /\ WriteOK'
<1>1. PICK s \in Statuses :
        /\ pc \in DOMAIN StepStatus \ {"exporting", "cleanup"} /\ images' = images
        /\ Goes("update", WithStatus(s))
        /\ s \in Arrows[w.status] /\ s # w.status
        /\ pc = "submit" => s = "DiskImagesSubmitted" \/ w.disks = <<>>
        /\ s = "DiskImagesFailed" => \E j \in DOMAIN w.disks : "Failed" \in w.disks[j].conds
        /\ s = "VMCreated" => vm' \in {"created", "ready"}
        /\ s = "VMRunning" => vm' = "ready"
  BY DEF Decided
<1>2. /\ w \in Import /\ StatusOK(w) /\ Fits(w, images, imp.phase)
      /\ w.status \in StepStatus[pc]
      /\ wfresh => UpToDate(pc, w, imp)
  BY <1>1, CopyFacts
<1>3. /\ w'.status = s /\ w'.disks = w.disks /\ w'.conds = w.conds
      /\ imp' = imp /\ pc' = "update" /\ wfresh' = wfresh
  BY <1>1, <1>2 DEF Goes, WithStatus, Import, server
<1>4. ListOK(w')
  BY <1>3 DEF ProgressOK, ListOK, ExportDone
<1>5. VMSeen(w', vm')
  BY <1>1, <1>3 DEF VMSeen
<1>6. VerdictOK(w', images')
  <2>1. CASE w.status \in Built
    <3>1. s \in Built \cup {"MigrationFailed"}
      BY <1>1, <2>1, ArrowFacts DEF Built, Terminal
    <3>2. AllReady(w')
      BY <1>2, <1>3, <2>1 DEF StatusOK, AllReady
    <3> QED  BY <1>3, <3>1, <3>2 DEF VerdictOK, MayComplete
  <2>2. CASE w.status = "DiskImagesSubmitted"
    <3>1. CASE s = "DiskImagesReady"
      BY <1>3, <3>1 DEF VerdictOK, MayComplete, Built
    <3>2. CASE s = "DiskImagesFailed"
      <4>1. PICK j \in DOMAIN w.disks : "Failed" \in w.disks[j].conds
        BY <1>1, <3>2
      <4>2. DiskFits(w.disks[j], j, images, imp.phase)
        BY <1>2 DEF Fits
      <4>3. Incomplete(w', images')
        BY <1>1, <1>3, <4>1, <4>2 DEF DiskFits, Incomplete
      <4> QED  BY <4>3 DEF VerdictOK
    <3> QED  BY <1>1, <2>2, <3>1, <3>2, ArrowFacts
  <2>3. CASE pc = "submit"
    BY <1>1, <1>3, <2>3 DEF VerdictOK, MayComplete
  <2>4. CASE w.status \notin {"DiskImagesSubmitted"} \cup Built /\ pc # "submit"
    <3>1. w.status # "MigrationFailed"
      BY <1>1, ArrowFacts DEF Terminal
    <3>2. w.disks = <<>> \/ Incomplete(w, images)
      BY <2>4, <3>1 DEF ProgressOK, VerdictOK, MayComplete
    <3> QED  BY <1>1, <1>3, <3>2 DEF VerdictOK, Incomplete
  <2> QED  BY <2>1, <2>2, <2>3, <2>4
<1>7. WriteOK'
  <2> SUFFICES ASSUME wfresh
               PROVE  /\ w'.status \in Arrows[imp'.status]
                      /\ imp'.status # "DisksExported" => SameImages(w', imp')
    BY <1>3 DEF WriteOK
  <2>1. pc \notin UpdateSteps
    BY <1>1 DEF StepStatus, UpdateSteps
  <2>2. w.status = imp.status
    BY <1>2, <2>1 DEF UpToDate
  <2>3. imp.status # "DisksExported" => pc # "submit"
    BY <1>2, <2>2 DEF StepStatus
  <2>4. imp.status # "DisksExported" => SameImages(w, imp)
    BY <2>3 DEF ProgressOK, WriteOK
  <2> QED  BY <1>1, <1>3, <2>2, <2>4 DEF SameImages, ImagesOf
<1> QED  BY <1>4, <1>5, <1>6, <1>7

\* What a copy shows of the export, the VM and the images.
Shows(o, imgs, machine) == ListOK(o) /\ VMSeen(o, machine) /\ VerdictOK(o, imgs)

LEMMA ShowsStays ==
    ASSUME DataInv, [Next]_vars
    PROVE  \A o : Shows(o, images, vm) => Shows(o, images', vm')
BY SeenStays, VerdictStays DEF Shows

\* The reconcile goes on with the export, ...
LEMMA ExportOK ==
    ASSUME DataInv, CondsOK, ProgressOK, [Next]_vars, Saved \/ Stopping \/ ExportStarts \/ ExportEnds
    PROVE  Shows(w', images', vm') /\ WriteOK'
<1>1. pc \in DOMAIN StepStatus /\ pc \notin UpdateSteps
  BY DEF Saved, Stopping, ExportStarts, ExportEnds, StepStatus, UpdateSteps
<1>2. /\ w \in Import /\ imp \in Import /\ StatusOK(w) /\ Fits(w, images, imp.phase)
      /\ w.status \in StepStatus[pc]
      /\ wfresh => UpToDate(pc, w, imp)
  BY <1>1, CopyFacts
<1>3. ListOK(w) /\ VMSeen(w, vm) /\ WriteOK
  BY DEF ProgressOK
<1>4. UNCHANGED imp /\ wfresh' = wfresh
  BY GoingOn DEF server
<1>5. wfresh => imp.status = w.status
  BY <1>1, <1>2 DEF UpToDate
<1>6. CASE Saved
  <2>1. w' = w /\ pc = "submit" /\ w.status = "DisksExported"
    BY <1>2, <1>6 DEF Saved, Goes, StepStatus
  <2>2. PICK j \in DOMAIN w.disks : "Submitted" \notin w.disks[j].conds
    BY <1>6 DEF Saved, Unsubmitted
  <2>3. w.disks[j].image = NoImage
    BY <1>2, <1>3, <2>2 DEF Fits, DiskFits, ListOK
  <2>4. VerdictOK(w, images)
    BY <2>2, <2>3 DEF VerdictOK, Incomplete
  <2>5. Shows(w', images', vm')
    BY <1>3, <2>1, <2>4, ShowsStays DEF Shows
  <2>6. WriteOK'
    BY <1>4, <1>5, <2>1, ArrowFacts DEF WriteOK
  <2> QED  BY <2>5, <2>6
<1>7. CASE Stopping \/ ExportStarts
  <2>1. /\ w.status = "SourceReady" /\ pc = "export"
        /\ w'.status \in {"SourceReady", "DisksExported", "MigrationFailed"}
        /\ w'.disks = w.disks
    BY <1>2, <1>7 DEF Stopping, ExportStarts, Goes, StepStatus
  <2>2. w.disks = <<>> \/ Incomplete(w, images)
    BY <2>1 DEF ProgressOK, VerdictOK, MayComplete, Built
  <2>3. VerdictOK(w', images)
    BY <2>1, <2>2 DEF VerdictOK, Incomplete
  <2>4. ListOK(w')
    <3>1. ExportDone(w) => ExportDone(w')
      BY <1>7, GoingOn DEF ExportDone
    <3> QED  BY <1>3, <2>1, <3>1 DEF ListOK
  <2>5. VMSeen(w', vm)
    BY <2>1 DEF VMSeen
  <2>6. Shows(w', images', vm')
    BY <2>3, <2>4, <2>5, ShowsStays DEF Shows
  <2>7. wfresh => SameImages(w', imp)
    BY <1>2, <1>3, <2>1 DEF WriteOK, UpToDate, UpdateSteps, SameImages, ImagesOf
  <2>8. WriteOK'
    BY <1>4, <1>5, <2>1, <2>7, ArrowFacts DEF WriteOK
  <2> QED  BY <2>6, <2>8
<1>8. CASE ExportEnds
  <2>1. PICK n \in Nat : w'.disks = w.disks \o ExportedDisks(n)
    BY <1>8 DEF ExportEnds
  <2>2. w.disks = <<>> /\ pc = "exporting"
    BY <1>3, <1>8 DEF ExportEnds, CondsOK, ListOK
  <2>3. w'.disks = ExportedDisks(n)
    BY <2>1, <2>2, DisksType
  <2>4. /\ \A j \in DOMAIN w'.disks : w'.disks[j].image = NoImage
        /\ n = 0 => w'.disks = <<>>
        /\ n # 0 => 1 \in DOMAIN w'.disks
    BY <2>3 DEF ExportedDisks
  <2>5. ExportDone(w') /\ w'.status \in {"DisksExported", "MigrationFailed"}
    BY <1>8 DEF ExportEnds, ExportDone
  <2>6. Shows(w', images', vm')
    BY <2>4, <2>5 DEF Shows, ListOK, VMSeen, VerdictOK, Incomplete
  <2>7. wfresh => imp.disks = <<>>
    BY <1>1, <1>2, <2>2 DEF UpToDate
  <2>8. w.status = "SourceReady"
    BY <1>2, <2>2 DEF StepStatus
  <2>9. WriteOK'
    BY <1>4, <1>5, <2>4, <2>5, <2>7, <2>8, ArrowFacts DEF WriteOK, SameImages
  <2> QED  BY <2>6, <2>9
<1> QED  BY <1>6, <1>7, <1>8

\* ... with the images, or with the VM.
LEMMA LoopsOK ==
    ASSUME DataInv, ProgressOK, [Next]_vars, Marked \/ Moved \/ Tidied
    PROVE  /\ ListOK(w') /\ VMSeen(w', vm')
           /\ pc' # "submit" => VerdictOK(w', images')
           /\ WriteOK'
<1>1. w \in Import
  BY DEF DataInv, TypeOK
<1>2. UNCHANGED imp /\ wfresh' = wfresh
  BY GoingOn DEF server
<1>3. CASE Moved \/ Tidied
  <2>1. w' = w /\ pc # "submit" /\ pc' # "submit" /\ pc' \notin UpdateSteps
    BY <1>3 DEF Moved, Tidied, Goes, UpdateSteps
  <2>2. Shows(w', images', vm')
    BY <2>1, ShowsStays DEF ProgressOK, Shows
  <2>3. WriteOK'
    BY <1>2, <2>1 DEF ProgressOK, WriteOK
  <2> QED  BY <2>2, <2>3 DEF Shows
<1>4. CASE Marked
  <2>1. PICK j \in DOMAIN w.disks, d \in DiskInfo :
            /\ pc \in {"submit", "poll", "resubmit"} /\ Goes(pc, WithDisk(j, d))
            /\ d.conds # {}
            /\ pc # "submit" => d.image = w.disks[j].image
    BY <1>4 DEF Marked
  <2>2. /\ w'.status = w.status /\ w'.conds = w.conds /\ DOMAIN w'.disks = DOMAIN w.disks
        /\ w'.disks[j] = d /\ \A i \in DOMAIN w.disks \ {j} : w'.disks[i] = w.disks[i]
        /\ pc' = pc
    BY <1>1, <2>1 DEF Goes, WithDisk, Import
  <2>3. w.disks # <<>>
    OBVIOUS
  <2>4. ListOK(w') /\ VMSeen(w', vm')
    BY <2>1, <2>2, <2>3, SeenStays DEF ProgressOK, ListOK, ExportDone, VMSeen
  <2>5. pc # "submit" => ImagesOf(w') = ImagesOf(w)
    BY <2>1, <2>2 DEF ImagesOf
  <2>6. pc # "submit" => VerdictOK(w', images')
    <3>1. CASE pc = "poll"
      <4>1. w.status = "DiskImagesSubmitted"
        BY <3>1, CopyFacts DEF StepStatus
      <4> QED  BY <2>2, <4>1 DEF VerdictOK, MayComplete
    <3>2. CASE pc = "resubmit"
      <4>1. w.status = "DiskImagesFailed"
        BY <3>2, CopyFacts DEF StepStatus
      <4>2. Incomplete(w, images)
        BY <2>3, <3>2, <4>1 DEF ProgressOK, VerdictOK, MayComplete, Built
      <4>3. Incomplete(w', images)
        BY <2>1, <2>2, <3>2, <4>2 DEF Incomplete
      <4> QED  BY <4>3, VerdictStays DEF VerdictOK
    <3> QED  BY <2>1, <3>1, <3>2
  <2>7. WriteOK'
    <3>1. pc \notin UpdateSteps
      BY <2>1 DEF UpdateSteps
    <3> QED  BY <1>2, <2>2, <2>5, <3>1 DEF ProgressOK, WriteOK, SameImages, ImagesOf
  <2> QED  BY <2>2, <2>4, <2>6, <2>7
<1> QED  BY <1>3, <1>4

LEMMA ProgressSteps ==
    ASSUME DataInv, PhaseOK, CondsOK, ProgressOK, [Next]_vars
    PROVE  ProgressOK'
<1>1. imp \in Import /\ cache \in Import /\ w \in Import /\ TypeOK /\ "idle" \notin UpdateSteps
  BY DEF DataInv, TypeOK, UpdateSteps
<1>2. Shows(imp, images', vm') /\ Shows(cache, images', vm')
  BY ShowsStays DEF ProgressOK, Shows
<1>3. pc # "submit" => Shows(w, images', vm')
  BY ShowsStays DEF ProgressOK, Shows
<1>4. ListOK(w) /\ VMSeen(w, vm')
  BY SeenStays DEF ProgressOK
<1>5. Shows(NewImport, images', vm')
  BY NewImportOK DEF Shows
<1>6. \A o, p : o.status = p.status /\ o.conds = p.conds /\ o.disks = p.disks =>
         (Shows(o, images', vm') <=> Shows(p, images', vm'))
  BY DEF Shows, ListOK, VMSeen, VerdictOK, MayComplete, AllReady, Incomplete, ExportDone
<1> USE DEF ProgressOK
<1>7. ASSUME w' = NewImport, ~wfresh', Shows(imp', images', vm'), Shows(cache', images', vm')
      PROVE  ProgressOK'
  BY <1>5, <1>7 DEF Shows, WriteOK
<1>8. CASE Reconcile
  <2>1. UNCHANGED <<imp, cache, fresh>> /\ (fresh => cache = imp) /\ pc = "idle"
    BY <1>8 DEF Reconcile, server, DataInv, ServerOK
  <2>2. CASE w' # w \/ pc' # pc \/ wfresh' # wfresh \/ k' # k
    <3>1. w' = cache /\ wfresh' = fresh /\ pc' \notin UpdateSteps
      BY <1>8, <2>2, ReconcileTakes
    <3>2. WriteOK'
      BY <2>1, <3>1 DEF WriteOK, SameImages
    <3> QED  BY <1>2, <2>1, <3>1, <3>2 DEF Shows
  <2>3. CASE UNCHANGED <<pc, w, wfresh, k>>
    <3>1. WriteOK'
      BY <2>1, <2>3 DEF WriteOK
    <3> QED  BY <1>2, <1>3, <2>1, <2>3, <3>1 DEF Shows
  <2> QED  BY <2>2, <2>3
<1>9. CASE Restart
  BY <1>2, <1>7, <1>9 DEF Restart
<1>10. CASE Returned
  BY <1>2, <1>7, <1>10 DEF Returned, server
<1>11. CASE Written
  <2>1. imp' = w /\ cache' = cache /\ pc # "submit"
    BY <1>11, WrittenKeeps DEF Written, UpdateSteps
  <2> QED  BY <1>2, <1>3, <1>7, <1>11, <2>1 DEF Written
<1>12. CASE Removed
  <2>1. imp'.status = imp.status /\ imp'.conds = imp.conds /\ imp'.disks = imp.disks
        /\ cache' = cache
    BY <1>1, <1>12 DEF Removed, Import
  <2>2. Shows(imp', images', vm')
    BY <1>2, <1>6, <2>1
  <2> QED  BY <1>2, <1>7, <1>12, <2>1, <2>2 DEF Removed
<1>13. ASSUME UNCHANGED <<imp, cache>>, ListOK(w'), VMSeen(w', vm'),
              pc' # "submit" => VerdictOK(w', images'), WriteOK'
       PROVE  ProgressOK'
  BY <1>2, <1>13 DEF Shows
<1>14. CASE Decided
  BY <1>13, <1>14, DecidedOK, GoingOn DEF server
<1>15. CASE Saved \/ Stopping \/ ExportStarts \/ ExportEnds
  BY <1>13, <1>15, ExportOK, GoingOn DEF server, Shows
<1>16. CASE Marked \/ Moved \/ Tidied
  BY <1>13, <1>16, LoopsOK, GoingOn DEF server
<1>17. ASSUME UNCHANGED <<pc, w>>, Shows(imp', images', vm'), Shows(cache', images', vm'),
              ~wfresh' \/ UNCHANGED <<wfresh, imp>>
       PROVE  ProgressOK'
  <2>1. WriteOK'
    BY <1>17 DEF WriteOK
  <2> QED  BY <1>3, <1>4, <1>17, <2>1 DEF Shows
<1>18. CASE WatchImport
  BY <1>2, <1>17, <1>18 DEF WatchImport, worker
<1>19. CASE TouchImport
  BY <1>2, <1>17, <1>19 DEF TouchImport
<1>20. CASE DeleteImport
  <2>1. imp'.status = imp.status /\ imp'.conds = imp.conds /\ imp'.disks = imp.disks
        /\ UNCHANGED <<cache, pc, w>> /\ ~wfresh'
    BY <1>1, <1>20 DEF DeleteImport, Import
  <2>2. Shows(imp', images', vm')
    BY <1>2, <1>6, <2>1
  <2> QED  BY <1>2, <1>17, <2>1, <2>2
<1>21. CASE Around \/ UNCHANGED vars
  <2>1. UNCHANGED <<imp, cache, pc, w, wfresh>>
    BY <1>21 DEF Around, worker, vars, server
  <2> QED  BY <1>2, <1>17, <2>1
<1> QED  BY <1>1, <1>8, <1>9, <1>10, <1>11, <1>12, <1>14, <1>15, <1>16, <1>18, <1>19, <1>20, <1>21,
            WorkerEffects, EnvironmentEffects DEF Next, WorkerEffect

\* A copy that shows an import that has ended shows it as it is.
LEMMA EndedSteps ==
    ASSUME DataInv, PhaseOK, EndOK, [Next]_vars
    PROVE  EndOK'
<1>1. w \in Import /\ TypeOK
  BY DEF DataInv, TypeOK
<1>2. imp.status \in Terminal => imp'.status = imp.status
  BY StatusSteps
<1>3. NewImport.status \notin Terminal
  BY DEF NewImport, Terminal
<1>4. Ended(cache, imp') /\ (pc \notin UpdateSteps => Ended(w, imp'))
  BY <1>2 DEF EndOK, Ended
<1> USE DEF EndOK
<1>5. CASE Reconcile
  <2>1. cache' = cache /\ pc = "idle"
    BY <1>5 DEF Reconcile, server
  <2>2. w' = cache \/ UNCHANGED <<pc, w>>
    BY <1>5, ReconcileTakes
  <2> QED  BY <1>4, <2>1, <2>2 DEF Ended
<1>6. ASSUME w' = NewImport, cache' = cache \/ (cache' = imp /\ imp' = imp) PROVE EndOK'
  BY <1>3, <1>4, <1>6 DEF Ended
<1>7. CASE Restart \/ Returned \/ Written \/ Removed
  <2>1. w' = NewImport /\ (cache' = cache \/ (cache' = imp /\ imp' = imp))
    BY <1>7 DEF Restart, Returned, Written, Write, Removed, server
  <2> QED  BY <1>6, <2>1
<1>8. CASE Decided \/ Saved \/ Stopping \/ ExportEnds
  <2>1. cache' = cache /\ pc' \in UpdateSteps
    BY <1>8, GoingOn DEF server, Decided, Saved, Stopping, ExportEnds, Goes, UpdateSteps
  <2> QED  BY <1>4, <2>1
<1>9. CASE ExportStarts \/ Marked \/ Moved \/ Tidied
  <2>1. w'.status = w.status
    <3>1. \A j, d : WithDisk(j, d).status = w.status
      BY <1>1 DEF WithDisk, Import
    <3> QED  BY <1>9, <3>1 DEF ExportStarts, Marked, Moved, Tidied, Goes
  <2>2. cache' = cache /\ pc \notin UpdateSteps
    BY <1>9, GoingOn DEF server
  <2> QED  BY <1>4, <2>1, <2>2 DEF Ended
<1>10. CASE WatchImport
  BY <1>4, <1>10 DEF WatchImport, worker, Ended
<1>11. CASE TouchImport \/ DeleteImport \/ Around \/ UNCHANGED vars
  <2>1. UNCHANGED <<cache, pc, w>>
    BY <1>11 DEF TouchImport, DeleteImport, Around, worker, vars, server
  <2> QED  BY <1>4, <2>1
<1> QED  BY <1>1, <1>5, <1>7, <1>8, <1>9, <1>10, <1>11, WorkerEffects, EnvironmentEffects
         DEF Next, WorkerEffect

-----------------------------------------------------------------------------
(***************************************************************************)
(* The images, and what wakes the controller up for them                   *)
(***************************************************************************)
LEMMA SettledStays ==
    ASSUME DataInv, [Next]_vars, imp.status \in Settled
    PROVE  imp'.status \in Settled
<1>1. imp \in Import /\ TypeOK
  BY DEF DataInv, TypeOK
<1>2. CASE Written
  BY <1>2 DEF Written, Write, DataInv, WorkerOK, CopyAt, UpToDate
<1>3. CASE Removed \/ DeleteImport
  BY <1>1, <1>3 DEF Removed, DeleteImport, Import
<1>4. CASE imp' = imp
  BY <1>4
<1>5. CASE Decided \/ Saved \/ Stopping \/ ExportStarts \/ ExportEnds \/ Marked \/ Moved \/ Tidied
  BY <1>4, <1>5, GoingOn DEF server
<1>6. CASE Reconcile \/ Restart \/ Returned \/ WatchImport \/ TouchImport \/ Around \/ UNCHANGED vars
  BY <1>4, <1>6 DEF Reconcile, Restart, Returned, WatchImport, TouchImport, Around, vars, server
<1> QED  BY <1>1, <1>2, <1>3, <1>5, <1>6, WorkerEffects, EnvironmentEffects DEF Next, WorkerEffect

LEMMA ImageCacheSteps ==
    ASSUME DataInv, [Next]_vars
    PROVE  \/ icache' = icache
           \/ icache' = images /\ images' = images
           \/ \E i \in Image : ReconcileVMI(i)
<1>1. TypeOK
  BY DEF DataInv
<1>2. CASE Decided \/ Saved \/ Stopping \/ ExportStarts \/ ExportEnds \/ Marked \/ Moved \/ Tidied
  BY <1>2, GoingOn DEF server
<1>3. CASE \/ Reconcile \/ Restart \/ Returned \/ Written \/ Removed \/ WatchImport
           \/ TouchImport \/ DeleteImport \/ UNCHANGED vars
  BY <1>3 DEF Reconcile, Restart, Returned, Written, Write, Removed, WatchImport, TouchImport,
              DeleteImport, vars, server, target
<1>4. CASE Around
  BY <1>4 DEF Around, DownloadImage, CollectImage, server
<1> QED  BY <1>1, <1>2, <1>3, <1>4, WorkerEffects, EnvironmentEffects DEF Next, WorkerEffect

LEMMA ImagesSteps ==
    ASSUME DataInv, ImagesOK, [Next]_vars
    PROVE  ImagesOK'
<1> SUFFICES ASSUME NEW i \in Image
             PROVE  /\ Exists(images'[i]) /\ ~images'[i].owned => imp'.status \in Settled
                    /\ images'[i].st \in {"none", "importing"} =>
                         icache'[i].st \in {"none", images'[i].st}
  BY DEF ImagesOK
<1>1. /\ images \in [Image -> ImageObject] /\ icache \in [Image -> ImageObject]
  BY DEF DataInv, TypeOK
<1>2. /\ Exists(images[i]) /\ ~images[i].owned => imp.status \in Settled
      /\ images[i].st \in {"none", "importing"} => icache[i].st \in {"none", images[i].st}
  BY DEF ImagesOK
<1>3. ASSUME Exists(images'[i]), ~images'[i].owned PROVE imp'.status \in Settled
  <2>1. CASE images[i] = images'[i]
    BY <1>2, <1>3, <2>1, SettledStays
  <2>2. CASE Disowned(i)
    <3>1. w.status = "VMRunning" /\ Agrees(w, imp)
      BY <2>2, CopyFacts DEF Disowned, StepStatus
    <3>2. imp.status \in Settled
      BY <3>1 DEF Agrees, Built
    <3> QED  BY <3>2, SettledStays
  <2>3. CASE Created(i) \/ Dropped(i) \/ CollectImage(i)
    BY <1>1, <1>3, <2>3 DEF Created, Dropped, CollectImage, Exists, ImageObject
  <2>4. CASE DownloadImage(i)
    <3>1. Exists(images[i]) /\ ~images[i].owned
      BY <1>1, <1>3, <2>4 DEF DownloadImage, Exists, ImageObject
    <3> QED  BY <1>2, <3>1, SettledStays
  <2> QED  BY <2>1, <2>2, <2>3, <2>4, ImageStates
<1>4. ASSUME images'[i].st \in {"none", "importing"}
      PROVE  icache'[i].st \in {"none", images'[i].st}
  <2>1. images[i].st \in {"none", images'[i].st}
    BY <1>4, ImageStates
  <2>2. icache[i].st \in {"none", images'[i].st}
    BY <1>2, <1>4, <2>1
  <2>3. CASE icache' = icache \/ (icache' = images /\ images' = images)
    BY <2>1, <2>2, <2>3
  <2>4. CASE \E d \in Image : ReconcileVMI(d)
    BY <1>1, <2>1, <2>2, <2>4 DEF ReconcileVMI
  <2> QED  BY <2>3, <2>4, ImageCacheSteps
<1> QED  BY <1>3, <1>4

\* Disks that have all reported get a verdict (evaluateDiskImportStatus).
LEMMA AllReported ==
    ASSUME NEW disks \in Seq(DiskInfo),
           \A j \in DOMAIN disks : "Ready" \in disks[j].conds <=> "Failed" \notin disks[j].conds
    PROVE  evaluateDiskImportStatus(disks) # "none"
<1> DEFINE n         == Len(disks)
           okAt(j)     == \A i \in 1..j : "Ready" \in disks[i].conds
           failedAt(j) == \E i \in 1..j : "Failed" \in disks[i].conds
           Passed    == {j \in 1..n : okAt(j)}
           Failing   == {j \in 1..n : failedAt(j)}
<1>1. n \in Nat /\ DOMAIN disks = 1..n
  OBVIOUS
<1>2. \A j \in 0..n : okAt(j) <=> ~failedAt(j)
  BY <1>1
<1>3. Passed \cap Failing = {} /\ Passed \cup Failing = 1..n
  BY <1>2
<1>4. Cardinality(Failing) + Cardinality(Passed) = n
  <2>1. IsFiniteSet(1..n) /\ Cardinality(1..n) = n
    BY <1>1, FS_Interval
  <2>2. IsFiniteSet(Passed) /\ IsFiniteSet(Failing)
    BY <2>1, <1>3, FS_Subset
  <2>3. Cardinality(Passed \cup Failing)
            = Cardinality(Passed) + Cardinality(Failing) - Cardinality(Passed \cap Failing)
    BY <2>2, FS_Union
  <2>4. Cardinality({}) = 0 /\ Cardinality(Passed) \in Nat /\ Cardinality(Failing) \in Nat
    BY <2>2, FS_EmptySet, FS_CardinalityType
  <2>5. Cardinality(Passed \cap Failing) = 0 /\ Cardinality(Passed \cup Failing) = n
    BY <1>3, <2>1, <2>4
  <2> HIDE DEF Passed, Failing
  <2> QED  BY <1>1, <2>3, <2>4, <2>5
<1>5. okAt(n) \/ failedAt(n)
  BY <1>1, <1>2
<1>6. evaluateDiskImportStatus(disks) =
        IF n # Cardinality(Failing) + Cardinality(Passed) THEN "none"
        ELSE IF okAt(n) THEN "DiskImagesReady" ELSE IF failedAt(n) THEN "DiskImagesFailed" ELSE "none"
  BY <1>1 DEF evaluateDiskImportStatus
<1> QED
  <2> HIDE DEF Passed, Failing, okAt, failedAt
  <2> QED  BY <1>4, <1>5, <1>6

\* What is waited for is still to come, or has put the import in the queue.
LEMMA WaitingStays ==
    ASSUME DataInv, ImagesOK, Around, [Next]_vars, imp.phase # "gone", NEW i, Waiting(i)
    PROVE  Waiting(i)' \/ queued'
<1>1. /\ images \in [Image -> ImageObject] /\ icache \in [Image -> ImageObject]
      /\ i \in Image /\ Exists(images[i]) /\ images[i].owned
      /\ images[i].st = "importing" \/ icache[i] # images[i]
  BY DEF DataInv, TypeOK, Waiting
<1>2. CASE UNCHANGED <<images, icache>>
  BY <1>1, <1>2 DEF Waiting
<1>3. CASE \E d \in Image : ReconcileVMI(d)
  <2>1. PICK d \in Image : ReconcileVMI(d)
    BY <1>3
  <2>2. images' = images
    BY <2>1 DEF ReconcileVMI, target
  <2>3. CASE d = i
    BY <1>1, <2>1, <2>3 DEF ReconcileVMI
  <2>4. CASE d # i
    <3>1. icache'[i] = icache[i]
      BY <1>1, <2>1, <2>4 DEF ReconcileVMI
    <3> QED  BY <1>1, <2>2, <3>1 DEF Waiting
  <2> QED  BY <2>3, <2>4
<1>4. CASE \E d \in Image : DownloadImage(d)
  <2>1. PICK d \in Image : DownloadImage(d)
    BY <1>4
  <2>2. icache' = icache
    BY <2>1 DEF DownloadImage, server
  <2>3. CASE d = i
    <3>1. /\ images[i].st = "importing"
          /\ images'[i].st \in {"imported", "failed"} /\ images'[i].owned = images[i].owned
      <4>1. DownloadImage(i) /\ images[i] \in ImageObject
        BY <1>1, <2>1, <2>3
      <4>2. PICK s \in {"imported", "failed"} : images' = [images EXCEPT ![i].st = s]
        BY <4>1 DEF DownloadImage
      <4> QED  BY <1>1, <4>1, <4>2 DEF DownloadImage, ImageObject
    <3>2. icache[i].st \in {"none", "importing"}
      BY <1>1, <3>1 DEF ImagesOK
    <3> QED  BY <1>1, <2>2, <3>1, <3>2 DEF Waiting, Exists
  <2>4. CASE d # i
    <3>1. images'[i] = images[i]
      BY <1>1, <2>1, <2>4 DEF DownloadImage
    <3> QED  BY <1>1, <2>2, <3>1 DEF Waiting
  <2> QED  BY <2>3, <2>4
<1> QED  BY <1>2, <1>3, <1>4 DEF Around, CollectImage

\* The worker has looked at one more disk, and knows how its image stands or
\* will be woken up for it.
LEMMA PollWakes ==
    ASSUME DataInv, ImagesOK, WakeOK, reconcileVMIStatus, pc' = "poll", wfresh
    PROVE  \/ queued
           \/ \A j \in 1..k' : \/ w'.disks[j].conds \cap {"Ready", "Failed"} # {}
                               \/ Waiting(w'.disks[j].image)
<1>1. pc = "poll" /\ k + 1 \in 1..Len(w.disks) /\ k \in Nat /\ pc \notin UpdateSteps
  BY DEF reconcileVMIStatus, DataInv, TypeOK, UpdateSteps
<1>2. w \in Import /\ imp.status = "DiskImagesSubmitted" /\ images \in [Image -> ImageObject]
  BY <1>1, CopyFacts DEF UpToDate, StepStatus, DataInv, TypeOK
<1>3. DOMAIN w.disks = 1..Len(w.disks) /\ w.disks[k + 1] \in DiskInfo /\ Len(w.disks) \in Nat
  BY <1>1, <1>2 DEF Import
<1>4. 1..k + 1 = 1..k \cup {k + 1}
  BY <1>1
<1>5. ASSUME ~queued, NEW j \in 1..k
      PROVE  w.disks[j].conds \cap {"Ready", "Failed"} # {} \/ Waiting(w.disks[j].image)
  BY <1>1, <1>5 DEF WakeOK, Scanned
<1>6. ASSUME Continue("poll", w, k + 1),
             "Ready" \in w.disks[k + 1].conds \/ Waiting(w.disks[k + 1].image)
      PROVE  \/ queued
             \/ \A j \in 1..k' : \/ w'.disks[j].conds \cap {"Ready", "Failed"} # {}
                                 \/ Waiting(w'.disks[j].image)
  <2>1. w' = w /\ k' = k + 1
    BY <1>6, Zenon DEF Continue
  <2> QED  BY <1>4, <1>5, <1>6, <2>1
<1>7. ASSUME NEW c \in {"Ready", "Failed"},
             Continue("poll", SetDiskConds(k + 1, w.disks[k + 1].conds \cup {c}), k + 1)
      PROVE  \/ queued
             \/ \A j \in 1..k' : \/ w'.disks[j].conds \cap {"Ready", "Failed"} # {}
                                 \/ Waiting(w'.disks[j].image)
  <2>1. w' = SetDiskConds(k + 1, w.disks[k + 1].conds \cup {c}) /\ k' = k + 1
    BY <1>7, Zenon DEF Continue
  <2>2. /\ c \in w'.disks[k + 1].conds
        /\ \A j \in 1..k : w'.disks[j] = w.disks[j]
    BY <1>1, <1>2, <1>3, <2>1 DEF SetDiskConds, WithDisk, Import, DiskInfo
  <2> QED  BY <1>4, <1>5, <2>1, <2>2
<1>8. CASE "Ready" \in w.disks[k + 1].conds
  <2>1. Continue("poll", w, k + 1)
    BY <1>8 DEF reconcileVMIStatus
  <2> QED  BY <1>6, <1>8, <2>1
<1>9. CASE "Ready" \notin w.disks[k + 1].conds
  <2>1. HasImage(k + 1)
    <3>1. ~Return(TRUE)
      BY <1>1, Zenon DEF Return
    <3> QED  BY <1>9, <3>1 DEF reconcileVMIStatus
  <2>2. ImageOf(k + 1).st \in {"importing", "imported", "failed"} /\ ImageOf(k + 1) \in ImageObject
    BY <1>2, <2>1 DEF HasImage, ImageOf, Exists, ImageObject, ImageState
  <2>3. CASE ImageOf(k + 1).st = "importing"
    <3>1. Waiting(w.disks[k + 1].image)
      BY <1>2, <2>1, <2>3 DEF HasImage, ImageOf, ImagesOK, Waiting, Settled, Built
    <3>2. Continue("poll", w, k + 1)
      BY <1>9, <2>1, <2>3 DEF reconcileVMIStatus
    <3> QED  BY <1>6, <3>1, <3>2
  <2>4. CASE ImageOf(k + 1).st = "imported"
    <3>1. Continue("poll", SetDiskConds(k + 1, w.disks[k + 1].conds \cup {"Ready"}), k + 1)
      BY <1>9, <2>1, <2>4 DEF reconcileVMIStatus
    <3> QED  BY <1>7, <3>1
  <2>5. CASE ImageOf(k + 1).st = "failed"
    <3>1. Continue("poll", SetDiskConds(k + 1, w.disks[k + 1].conds \cup {"Failed"}), k + 1)
      BY <1>9, <2>1, <2>5 DEF reconcileVMIStatus
    <3> QED  BY <1>7, <3>1
  <2> QED  BY <2>2, <2>3, <2>4, <2>5
<1> QED  BY <1>8, <1>9

\* A reconcile that returned without a verdict will be woken up by an image.
LEMMA UndecidedWakes ==
    ASSUME DataInv, PhaseOK, ProgressOK, WakeOK, pc = "poll", k = Len(w.disks),
           evaluateDiskImportStatus(w.disks) = "none"
    PROVE  \/ queued \/ ~fresh
           \/ /\ imp.status = "DiskImagesSubmitted"
              /\ \E j \in DOMAIN imp.disks : Waiting(imp.disks[j].image)
<1>1. pc \notin UpdateSteps /\ pc \in DOMAIN StepStatus
  BY DEF UpdateSteps, StepStatus
<1>2. w \in Import /\ Fits(w, images, imp.phase) /\ (wfresh => imp.status = "DiskImagesSubmitted")
  BY <1>1, CopyFacts DEF UpToDate, StepStatus
<1>3. w.disks \in Seq(DiskInfo) /\ DOMAIN w.disks = 1..Len(w.disks)
  BY <1>2 DEF Import
<1>4. PICK j \in DOMAIN w.disks : ~("Ready" \in w.disks[j].conds <=> "Failed" \notin w.disks[j].conds)
  BY <1>3, AllReported
<1>5. w.disks[j].conds \cap {"Ready", "Failed"} = {}
  <2>1. DiskFits(w.disks[j], j, images, imp.phase) /\ imp.phase # "gone"
    BY <1>2 DEF Fits, PhaseOK
  <2> QED  BY <1>4, <2>1 DEF DiskFits
<1>6. CASE ~wfresh
  BY <1>6 DEF WakeOK
<1>7. CASE wfresh /\ ~queued
  <2>1. Waiting(w.disks[j].image)
    BY <1>3, <1>5, <1>7 DEF WakeOK, Scanned
  <2>2. SameImages(w, imp)
    BY <1>2, <1>7 DEF ProgressOK, WriteOK
  <2>3. w.disks[j].image # NoImage
    BY <2>1, ImageAssumption DEF Waiting
  <2>4. ImagesOf(w) = ImagesOf(imp)
    BY <2>2, <2>3 DEF SameImages
  <2>5. j \in DOMAIN imp.disks /\ imp.disks[j].image = w.disks[j].image
    BY <2>4 DEF ImagesOf
  <2> QED  BY <1>2, <1>7, <2>1, <2>5
<1> QED  BY <1>6, <1>7

LEMMA WakeSteps ==
    ASSUME IInv, [Next]_vars
    PROVE  WakeOK'
<1>1. /\ DataInv /\ PhaseOK /\ CondsOK /\ EndOK /\ ProgressOK /\ ImagesOK /\ WakeOK
      /\ imp \in Import /\ cache \in Import /\ w \in Import /\ TypeOK
      /\ "idle" \notin UpdateSteps
  BY DEF IInv, DataInv, TypeOK, UpdateSteps
<1>2. \A i : UNCHANGED <<images, icache>> => (Waiting(i) => Waiting(i)')
  BY DEF Waiting
<1>3. ASSUME queued' PROVE WakeOK'
  BY <1>3 DEF WakeOK
<1>4. ASSUME pc' = "idle",
             timer' \/ ~fresh' \/ imp'.phase = "gone" \/ imp'.status \in Terminal
      PROVE  WakeOK'
  BY <1>4 DEF WakeOK
<1>5. CASE Reconcile
  <2>1. UNCHANGED <<imp, cache, fresh, images, icache>> /\ (fresh => cache = imp) /\ pc = "idle"
    BY <1>1, <1>5 DEF Reconcile, server, target, DataInv, ServerOK
  <2>2. CASE pc' = "idle"
    <3>1. cache.phase = "gone" \/ cache.status = "ImportInvalid"
      <4>1. cache.status # "ImportInvalid" => Branch[cache.status] # "idle"
        BY <1>1, BranchSteps DEF Import, StepStatus
      <4> QED  BY <1>1, <1>5, <2>2, <4>1 DEF Reconcile, Import
    <3> QED  BY <1>4, <2>1, <2>2, <3>1 DEF Terminal
  <2>3. CASE pc' # "idle"
    <3>1. wfresh' = fresh /\ k' = 0 /\ pc' # "update"
      BY <1>1, <1>5, <2>1, <2>3, ReconcileTakes DEF UpdateSteps
    <3> QED  BY <2>1, <2>3, <3>1 DEF WakeOK, Scanned
  <2> QED  BY <2>2, <2>3
<1>6. CASE Restart
  BY <1>3, <1>6 DEF Restart
<1>7. CASE Returned
  <2>1. pc' = "idle" /\ UNCHANGED <<imp, fresh, icache>> /\ (queued => queued')
    BY <1>7 DEF Returned, server
  <2>2. CASE queued' \/ timer'
    BY <1>3, <1>4, <2>1, <2>2
  <2>3. CASE pc = "cleanup"
    <3>1. w.status \in Terminal /\ pc \notin UpdateSteps
      BY <1>1, <2>3, CopyFacts DEF StepStatus, Terminal, UpdateSteps
    <3> QED  BY <1>1, <1>4, <2>1, <3>1 DEF EndOK, Ended
  <2>4. CASE /\ pc = "poll" /\ k = Len(w.disks) /\ images' = images
             /\ evaluateDiskImportStatus(w.disks) = "none"
    <3>1. \/ queued \/ ~fresh
          \/ /\ imp.status = "DiskImagesSubmitted"
             /\ \E j \in DOMAIN imp.disks : Waiting(imp.disks[j].image)
      BY <1>1, <2>4, UndecidedWakes
    <3>2. CASE queued \/ ~fresh
      BY <1>3, <1>4, <2>1, <3>2
    <3>3. CASE /\ imp.status = "DiskImagesSubmitted"
               /\ \E j \in DOMAIN imp.disks : Waiting(imp.disks[j].image)
      <4>1. PICK j \in DOMAIN imp.disks : Waiting(imp.disks[j].image)'
        BY <1>2, <2>1, <2>4, <3>3
      <4> QED  BY <2>1, <3>3, <4>1 DEF WakeOK
    <3> QED  BY <3>1, <3>2, <3>3
  <2> QED  BY <1>7, <2>2, <2>3, <2>4 DEF Returned
<1>8. CASE Written
  <2>1. /\ pc \in {"update", "updateErr"} /\ wfresh /\ pc' = "idle" /\ (queued => queued')
        /\ (pc = "updateErr" => queued') /\ timer' = timer
        /\ w # imp => ~fresh'
    BY <1>8 DEF Written, Write, UpdateSteps
  <2> QED  BY <1>1, <1>3, <1>4, <2>1 DEF WakeOK
<1>9. CASE Removed
  BY <1>1, <1>4, <1>9 DEF Removed
<1>10. CASE Decided \/ Saved \/ Stopping \/ ExportStarts \/ ExportEnds \/ Marked \/ Moved \/ Tidied
  <2>1. /\ UNCHANGED <<imp, fresh, icache>> /\ wfresh' = wfresh /\ queued' = queued
        /\ pc \notin UpdateSteps /\ pc # "idle" /\ pc' # "idle"
    BY <1>1, <1>10, GoingOn DEF server
  <2>2. pc' # "idle" /\ ~wfresh' => ~fresh' \/ queued'
    BY <1>1, <2>1 DEF WakeOK
  <2>3. ASSUME pc' = "update", wfresh', w' = imp' PROVE timer' \/ queued'
    <3>1. wfresh => imp.status = w.status
      BY <1>1, <2>1 DEF DataInv, WorkerOK, CopyAt, UpToDate
    <3>2. wfresh => imp.conds \subseteq w.conds
      BY <1>1 DEF CondsOK
    <3>3. CASE Decided
      BY <1>1, <2>1, <2>3, <3>1, <3>3 DEF Decided, Goes, WithStatus, Import
    <3>4. CASE Stopping
      <4>1. w' = imp
        BY <2>1, <2>3
      <4>2. ~\E c \in {"PoweringOff", "ShutdownGuest", "PoweredOff"} \ w.conds :
                w'.conds = w.conds \cup {c}
        BY <2>1, <2>3, <3>2, <4>1
      <4>3. w'.status = w.status
        BY <2>1, <2>3, <3>1, <4>1
      <4> QED  BY <3>4, <4>2, <4>3 DEF Stopping
    <3>5. CASE ExportEnds
      <4>1. w.status = "SourceReady"
        BY <1>1, <3>5, CopyFacts DEF ExportEnds, StepStatus
      <4> QED  BY <2>1, <2>3, <3>1, <3>5, <4>1 DEF ExportEnds
    <3>6. CASE Saved \/ ExportStarts \/ Marked \/ Moved \/ Tidied
      BY <2>1, <2>3, <3>6 DEF Saved, ExportStarts, Marked, Moved, Tidied, Goes
    <3> QED  BY <1>10, <3>3, <3>4, <3>5, <3>6
  <2>4. ASSUME pc' = "poll", wfresh' PROVE queued' \/ Scanned'
    <3>1. reconcileVMIStatus
      BY <1>10, <2>4 DEF Decided, Saved, Stopping, ExportStarts, ExportEnds, Marked, Moved, Tidied, Goes
    <3>2. UNCHANGED images
      BY <3>1 DEF reconcileVMIStatus, target
    <3>3. \/ queued
          \/ \A j \in 1..k' : \/ w'.disks[j].conds \cap {"Ready", "Failed"} # {}
                              \/ Waiting(w'.disks[j].image)
      BY <1>1, <2>1, <2>4, <3>1, PollWakes
    <3> QED  BY <2>1, <3>2, <3>3 DEF Waiting, Scanned
  <2> QED  BY <2>1, <2>2, <2>3, <2>4 DEF WakeOK
<1>11. CASE WatchImport
  BY <1>3, <1>11 DEF WatchImport
<1>12. CASE TouchImport \/ DeleteImport
  <2>1. ~fresh' /\ ~wfresh'
    BY <1>12 DEF TouchImport, DeleteImport
  <2> QED  BY <2>1 DEF WakeOK
<1>13. CASE Around \/ UNCHANGED vars
  <2>1. UNCHANGED <<imp, cache, fresh, pc, w, wfresh, k>>
    BY <1>13 DEF Around, worker, vars, server
  <2>2. (queued => queued') /\ (timer => timer' \/ queued')
    BY <1>13 DEF Around, vars, wakeups
  <2>3. ASSUME ~queued', imp.phase # "gone" PROVE \A i : Waiting(i) => Waiting(i)'
    <3>1. CASE UNCHANGED vars
      BY <1>2, <3>1 DEF vars, server, target
    <3> QED  BY <1>1, <1>13, <2>3, <3>1, WaitingStays
  <2>4. CASE ~queued' /\ pc = "poll"
    <3>1. imp.phase # "gone"
      BY <1>1, <2>4 DEF PhaseOK
    <3>2. wfresh => Scanned
      BY <1>1, <2>2, <2>4 DEF WakeOK
    <3>3. Scanned => Scanned'
      BY <2>1, <2>3, <2>4, <3>1 DEF Scanned, Waiting
    <3> QED  BY <1>1, <2>1, <2>2, <2>4, <3>2, <3>3 DEF WakeOK
  <2>5. CASE ~queued' /\ pc = "idle"
    <3>1. CASE timer \/ ~fresh \/ imp.phase = "gone" \/ imp.status \in Terminal
      BY <1>4, <2>1, <2>2, <2>5, <3>1
    <3>2. CASE /\ imp.status = "DiskImagesSubmitted" /\ imp.phase # "gone"
               /\ \E j \in DOMAIN imp.disks : Waiting(imp.disks[j].image)
      <4>1. PICK j \in DOMAIN imp.disks : Waiting(imp.disks[j].image)'
        BY <2>3, <2>1, <2>5, <3>2
      <4> QED  BY <2>1, <2>5, <3>2, <4>1 DEF WakeOK
    <3> QED  BY <1>1, <2>2, <2>5, <3>1, <3>2 DEF WakeOK
  <2>6. CASE ~queued' /\ pc \notin {"poll", "idle"}
    BY <1>1, <2>1, <2>2, <2>6 DEF WakeOK
  <2> QED  BY <1>3, <2>4, <2>5, <2>6
<1> QED  BY <1>1, <1>5, <1>6, <1>7, <1>8, <1>9, <1>10, <1>11, <1>12, <1>13,
            WorkerEffects, EnvironmentEffects DEF Next, WorkerEffect

LEMMA InitProgress == Init => IInv
<1> SUFFICES ASSUME Init PROVE IInv
  OBVIOUS
<1>1. DataInv
  BY InitInv
<1>2. /\ imp = NewImport /\ cache = NewImport /\ w = NewImport /\ fresh /\ ~wfresh
      /\ pc = "idle" /\ queued /\ images = [i \in Image |-> NoObject] /\ icache = images
  BY DEF Init
<1>3. NewImport.phase = "live" /\ NewImport.status = "New" /\ NewImport.conds = {}
  BY DEF NewImport
<1>4. PhaseOK /\ EndOK
  BY <1>2, <1>3 DEF PhaseOK, EndOK, Ended, Terminal
<1>5. CondsOK
  BY <1>2, <1>3 DEF CondsOK, ExportDone, UpdateSteps
<1>6. ProgressOK
  BY <1>2, NewImportOK DEF ProgressOK, WriteOK
<1>7. ImagesOK
  BY <1>2 DEF ImagesOK, NoObject, Exists
<1>8. WakeOK
  BY <1>2 DEF WakeOK
<1> QED  BY <1>1, <1>4, <1>5, <1>6, <1>7, <1>8 DEF IInv

-----------------------------------------------------------------------------
(***************************************************************************)
(* The theorems                                                            *)
(***************************************************************************)
\* The whole invariant, for any disks, faults, crashes and specifications: the
\* three copies, the images, the worker and the wake-ups of the controller fit
\* together after every step (OnVirtualMachineChange, OnVirtualMachineRemove).
THEOREM Inductive == Spec => []IInv
<1>1. IInv /\ DataInv' /\ [Next]_vars => IInv'
  BY PhaseSteps, CondSteps, EndedSteps, ProgressSteps, ImagesSteps, WakeSteps DEF IInv
<1> QED  BY <1>1, InitProgress, CopiesTellTheTruth, PTL DEF Spec

\* The controller never rests on an import that still needs it: whenever nothing
\* is queued, due or unseen, the import has ended or Harvester is at work on one
\* of its disks (reconcileVMIStatus, ReconcileVMI, EnqueueAfter).
THEOREM NoWakeUpIsLost == Spec => []RestsOnlyWhenDone
<1>1. IInv => RestsOnlyWhenDone
  <2> SUFFICES ASSUME IInv, Resting
               PROVE  \/ imp.phase = "gone" \/ imp.status \in Terminal
                      \/ /\ imp.status = "DiskImagesSubmitted"
                         /\ \E j \in DOMAIN imp.disks :
                               /\ imp.disks[j].image \in Image
                               /\ images[imp.disks[j].image].st = "importing"
    BY DEF RestsOnlyWhenDone
  <2>1. \/ imp.phase = "gone" \/ imp.status \in Terminal
        \/ /\ imp.status = "DiskImagesSubmitted"
           /\ \E j \in DOMAIN imp.disks : Waiting(imp.disks[j].image)
    BY DEF IInv, WakeOK, Resting
  <2> QED  BY <2>1 DEF Waiting, Resting
<1> QED  BY <1>1, Inductive, PTL

\* A source VM whose disks are exported, or whose export has failed, is neither
\* shut down nor powered off again, however old the copy is that a reconcile
\* works on (triggerStop, powerOffAfterTimeout).
LEMMA PowerSteps ==
    IInv /\ [Next]_vars => (imp.conds \cap {"Exported", "ExportFailed"} # {} /\ power = "on"
                                => power' = "on")
<1> SUFFICES ASSUME IInv, [Next]_vars, ExportDone(imp), power = "on" PROVE power' = "on"
  BY DEF ExportDone
<1>1. CASE triggerStop \/ powerOffAfterTimeout
  <2>1. pc = "export" /\ ~Stopped(w)
    <3>1. CASE triggerStop
      BY <3>1 DEF triggerStop, MustRequestStop, Stopped, StopRequest
    <3>2. CASE powerOffAfterTimeout
      BY <3>2 DEF powerOffAfterTimeout, WaitPoweredOff, Stopped, StopRequest
    <3> QED  BY <1>1, <3>1, <3>2
  <2> QED  BY <2>1 DEF IInv, CondsOK, UpdateSteps
<1>2. CASE Worker /\ ~triggerStop /\ ~powerOffAfterTimeout
  BY <1>2 DEF Worker, Reconcile, RequestFails, UpdateStatus, reconcilePreFlightChecks,
       sanitizeVirtualMachineImport, Restart, abortMigration, seesPoweredOff,
       waitForPowerOff, triggerExport, exportSucceeds,
       exportFails, reconcileDiskImageStatus, findVirtualMachineImage, createVirtualMachineImage,
       reconcileVMIStatus, EvaluateDisks, cleanupAndResubmit, triggerResubmit,
       createVirtualMachine, findAndCreatePVC, ensureVM, reconcileVirtualMachineStatus,
       tidyUpObjects, triggerCleanup, OnVirtualMachineRemove, RemoveFinalizer, world
<1>3. CASE Environment
  BY <1>3 DEF Environment, WatchImport, TimerFires, VMBoots, SourceBecomesReady, SourceDeleted,
       PowersOff, PoweredOn, GraceElapses, TouchImport, DeleteImport, Crash, Restart,
       ReconcileVMI, DownloadImage, CollectImage, world
<1>4. CASE UNCHANGED vars
  BY <1>4 DEF vars, world
<1> QED  BY <1>1, <1>2, <1>3, <1>4 DEF Next

THEOREM ExportedVMLeftAlone == Spec => LeavesExportedVMAlone
<1> QED  BY PowerSteps, Inductive, PTL DEF Spec, LeavesExportedVMAlone

\* A temporary file is served as long as an image of the import needs it: the
\* clean-up, which may work on an old copy, takes none away but when the import
\* has its images, is given up or is deleted (triggerCleanup,
\* OnVirtualMachineRemove).
LEMMA FileSteps ==
    ASSUME [Next]_vars
    PROVE  \/ files \subseteq files'
           \/ Restart
           \/ triggerCleanup
           \/ OnVirtualMachineRemove
<1>1. CASE Worker /\ ~triggerCleanup /\ ~OnVirtualMachineRemove
  BY <1>1 DEF Worker, Reconcile, RequestFails, UpdateStatus, reconcilePreFlightChecks,
       sanitizeVirtualMachineImport, abortMigration, triggerStop, seesPoweredOff,
       powerOffAfterTimeout, RequestStop, waitForPowerOff, triggerExport, exportSucceeds,
       exportFails, reconcileDiskImageStatus, findVirtualMachineImage, createVirtualMachineImage,
       reconcileVMIStatus, EvaluateDisks, cleanupAndResubmit, triggerResubmit,
       createVirtualMachine, findAndCreatePVC, ensureVM, reconcileVirtualMachineStatus,
       tidyUpObjects, RemoveFinalizer, world
<1>2. CASE Environment
  BY <1>2 DEF Environment, WatchImport, TimerFires, VMBoots, SourceBecomesReady, SourceDeleted,
       PowersOff, PoweredOn, GraceElapses, TouchImport, DeleteImport, Crash,
       ReconcileVMI, DownloadImage, CollectImage, world
<1>3. CASE UNCHANGED vars
  BY <1>3 DEF vars, world
<1>4. Worker \/ Environment \/ UNCHANGED vars
  BY DEF Next
<1> QED  BY <1>1, <1>2, <1>3, <1>4

LEMMA ServingSteps ==
    IInv /\ [Next]_vars =>
        \A i \in Image : \A j \in files :
            ServedFor(i, j) => j \in files' \/ ~ServedFor(i, j)' \/ Restart
<1> SUFFICES ASSUME IInv, [Next]_vars, NEW i \in Image, NEW j \in files, ServedFor(i, j)
             PROVE  j \in files' \/ Restart
  OBVIOUS
<1>1. /\ imp.phase = "live" /\ imp.status # "MigrationFailed" /\ j \in DOMAIN imp.disks
      /\ imp.disks[j].image = i /\ images[i].st = "importing"
  BY DEF ServedFor
<1>2. CASE triggerCleanup
  <2>1. pc = "cleanup" /\ pc \in DOMAIN StepStatus /\ pc \notin UpdateSteps
    BY <1>2 DEF triggerCleanup, StepStatus, UpdateSteps
  <2>2. /\ w.status \in {"VMRunning", "MigrationFailed"} /\ StatusOK(w) /\ Agrees(w, imp)
        /\ Fits(w, images, imp.phase)
    BY <2>1, CopyFacts DEF IInv, StepStatus
  <2>3. w.status = "VMRunning"
    BY <1>1, <2>1, <2>2 DEF IInv, EndOK, Ended, Terminal
  <2>4. imp.disks = w.disks /\ "Ready" \in w.disks[j].conds
    BY <1>1, <2>2, <2>3 DEF Agrees, StatusOK, Built
  <2> QED  BY <1>1, <2>2, <2>4 DEF Fits, DiskFits
<1>3. CASE OnVirtualMachineRemove
  BY <1>1, <1>3 DEF OnVirtualMachineRemove, IInv, PhaseOK
<1> QED  BY <1>2, <1>3, FileSteps

THEOREM FilesStayServed == Spec => FilesServedUntilImported
<1> QED  BY ServingSteps, Inductive, PTL DEF Spec, FilesServedUntilImported

-----------------------------------------------------------------------------
(***************************************************************************)
(* VMImport implements ImportLifecycle                                     *)
(***************************************************************************)
\* The copy o is complete: what the lifecycle calls so of the object.
Complete(o, imgs) ==
    /\ o.disks # <<>>
    /\ \A j \in DOMAIN o.disks :
          /\ o.disks[j].image \in Image
          /\ imgs[o.disks[j].image].st = "imported"
          /\ imgs[o.disks[j].image].disk = j

LEMMA LifecycleState ==
    /\ (imp.disks # <<>> /\ AllImported(imp)) = Complete(imp, images)
    /\ (imp.disks # <<>> /\ AllImported(imp))' = Complete(imp', images')
BY DEF AllImported, Imported, Complete

\* Two copies that refer to the same images are complete together.
LEMMA SameComplete ==
    ASSUME NEW o \in Import, NEW p \in Import, SameImages(o, p), NEW imgs
    PROVE  Complete(o, imgs) <=> Complete(p, imgs)
<1>1. o.disks \in Seq(DiskInfo) /\ p.disks \in Seq(DiskInfo)
  BY DEF Import
<1>2. CASE ImagesOf(o) = ImagesOf(p)
  <2>1. DOMAIN o.disks = DOMAIN p.disks
        /\ \A j \in DOMAIN o.disks : o.disks[j].image = p.disks[j].image
    BY <1>2 DEF ImagesOf
  <2>2. o.disks = <<>> <=> p.disks = <<>>
    BY <1>1, <2>1
  <2> QED  BY <2>1, <2>2 DEF Complete
<1>3. CASE p.disks = <<>> /\ \A j \in DOMAIN o.disks : o.disks[j].image = NoImage
  <2>1. o.disks # <<>> => 1 \in DOMAIN o.disks
    BY <1>1
  <2> QED  BY <1>3, <2>1, ImageAssumption DEF Complete
<1> QED  BY <1>2, <1>3 DEF SameImages

\* Only Harvester completes an import, and only the garbage collector undoes it.
LEMMA ImageWorkComplete ==
    ASSUME DataInv, NEW i \in Image, Created(i) \/ Dropped(i) \/ Disowned(i), NEW o
    PROVE  Complete(o, images') <=> Complete(o, images)
<1>1. images \in [Image -> ImageObject]
  BY DEF DataInv, TypeOK
<1>2. \A d \in Image : \/ images'[d].st = images[d].st /\ images'[d].disk = images[d].disk
                       \/ images'[d].st # "imported" /\ images[d].st # "imported"
  BY <1>1 DEF Created, Dropped, Disowned, ImageObject
<1> QED  BY <1>2 DEF Complete

\* A copy whose disks are all found Ready is complete.
LEMMA ReadyComplete ==
    ASSUME NEW o, NEW imgs, o.disks # <<>>, AllReady(o), NEW phase, phase # "gone", Fits(o, imgs, phase)
    PROVE  Complete(o, imgs)
BY DEF AllReady, Fits, DiskFits, Complete

\* The data of the last disk arrives only while the verdict is awaited.
LEMMA LastDisk ==
    ASSUME DataInv, ProgressOK, NEW i \in Image, DownloadImage(i), [Next]_vars,
           Complete(imp, images') # Complete(imp, images)
    PROVE  ~Complete(imp, images) /\ Complete(imp, images')
           /\ (imp.status = "DiskImagesSubmitted" \/ imp.phase = "gone")
<1>1. images \in [Image -> ImageObject] /\ imp \in Import
  BY DEF DataInv, TypeOK
<1>2. \A d \in Image : images[d].st = "imported" =>
        images'[d].st = "imported" /\ images'[d].disk = images[d].disk
  BY <1>1 DEF DownloadImage, ImageObject
<1>3. ~Complete(imp, images) /\ Complete(imp, images')
  BY <1>2 DEF Complete
<1>4. ~Incomplete(imp, images)
  <2>1. ~Incomplete(imp, images')
    <3> SUFFICES ASSUME NEW j \in DOMAIN imp.disks
                 PROVE  /\ imp.disks[j].image # NoImage
                        /\ images'[imp.disks[j].image].st \notin {"failed", "gone"}
      BY DEF Incomplete
    <3>1. imp.disks[j].image \in Image /\ images'[imp.disks[j].image].st = "imported"
      BY <1>3 DEF Complete
    <3> QED  BY <3>1, ImageAssumption
  <2>2. \A d \in Image : images[d].st \in {"failed", "gone"} => images'[d].st \in {"failed", "gone"}
    BY ImageStates
  <2>3. ASSUME NEW j \in DOMAIN imp.disks
        PROVE  /\ imp.disks[j].image # NoImage
               /\ imp.disks[j].image \in Image => images[imp.disks[j].image].st \notin {"failed", "gone"}
    <3> DEFINE d == imp.disks[j].image
    <3>1. d # NoImage /\ (d \in Image => images'[d].st \notin {"failed", "gone"})
      BY <2>1 DEF Incomplete
    <3> HIDE DEF d
    <3>2. d \in Image => images[d].st \notin {"failed", "gone"}
      BY <2>2, <3>1
    <3> QED  BY <3>1, <3>2 DEF d
  <2> QED  BY <2>3 DEF Incomplete
<1>5. imp.disks # <<>> /\ MayComplete(imp)
  BY <1>3, <1>4 DEF ProgressOK, VerdictOK, Complete
<1>6. CASE imp.status # "DiskImagesSubmitted"
  <2>1. AllReady(imp)
    BY <1>5, <1>6 DEF MayComplete, DataInv, ServerOK, StatusOK, AllReady
  <2> QED  BY <1>3, <1>5, <2>1, ReadyComplete DEF DataInv, ServerOK
<1> QED  BY <1>3, <1>6

LEMMA ObjectSteps ==
    ASSUME DataInv, [Next]_vars
    PROVE  imp' = imp \/ Written \/ Removed \/ DeleteImport
<1>1. TypeOK
  BY DEF DataInv
<1>2. CASE Decided \/ Saved \/ Stopping \/ ExportStarts \/ ExportEnds \/ Marked \/ Moved \/ Tidied
  BY <1>2, GoingOn DEF server
<1>3. CASE Reconcile \/ Restart \/ Returned \/ WatchImport \/ TouchImport \/ Around \/ UNCHANGED vars
  BY <1>3 DEF Reconcile, Restart, Returned, WatchImport, TouchImport, Around, vars, server
<1> QED  BY <1>1, <1>2, <1>3, WorkerEffects, EnvironmentEffects DEF Next, WorkerEffect

LEMMA LifecycleInit == Init => Lifecycle!Init
<1> SUFFICES ASSUME Init PROVE Lifecycle!Init
  OBVIOUS
<1>1. /\ imp.status = "New" /\ imp.phase = "live" /\ imp.disks = <<>>
      /\ vm \in {"none", "foreign"}
  BY DEF Init, NewImport
<1> QED  BY <1>1 DEF Lifecycle!Init

\* UpdateStatus takes the import along an arrow of the lifecycle.
LEMMA WrittenMoves ==
    ASSUME IInv, IInv', Written
    PROVE  [Lifecycle!Next]_Lifecycle!vars
<1>1. /\ DataInv /\ PhaseOK /\ CondsOK /\ ProgressOK
      /\ imp \in Import /\ w \in Import
  BY DEF IInv, DataInv, TypeOK
<1>2. /\ imp' = w /\ w.phase = imp.phase /\ UNCHANGED <<images, vm>>
      /\ pc \in UpdateSteps /\ wfresh /\ pc # "submit"
  BY <1>1, WrittenKeeps DEF Written, target, UpdateSteps
<1>3. w.status \in Arrows[imp.status] /\ imp.phase # "gone"
  BY <1>1, <1>2 DEF ProgressOK, WriteOK, PhaseOK, UpdateSteps
<1>4. /\ StatusOK(w) /\ Fits(w, images, imp.phase) /\ VMSeen(w, vm)
  BY <1>1 DEF DataInv, WorkerOK, CopyAt, ProgressOK
<1>5. imp.status # "DisksExported" => (Complete(imp', images') <=> Complete(imp, images))
  BY <1>1, <1>2, SameComplete DEF ProgressOK, WriteOK
<1>6. w.status = "DiskImagesReady" => Complete(imp', images')
  BY <1>2, <1>3, <1>4, ReadyComplete DEF StatusOK, Built, AllReady
<1>7. CASE imp.status = "DisksExported"
  <2>1. Lifecycle!Submit
    BY <1>2, <1>3, <1>7, ArrowFacts DEF Lifecycle!Submit, Lifecycle!Move
  <2> QED  BY <2>1 DEF Lifecycle!Next
<1>8. CASE imp.status # "DisksExported" /\ w.status = imp.status
  BY <1>2, <1>5, <1>8, LifecycleState DEF Lifecycle!vars
<1>9. CASE imp.status # "DisksExported" /\ w.status # imp.status
  <2>1. UNCHANGED (imp.disks # <<>> /\ AllImported(imp))
    BY <1>5, <1>9, LifecycleState
  <2>2. w.status = "DiskImagesReady" => imp.disks # <<>> /\ AllImported(imp)
    BY <1>5, <1>6, <1>9, LifecycleState
  <2>3. /\ w.status = "VMCreated" => vm \in {"created", "ready"}
        /\ w.status = "VMRunning" => vm = "ready"
    BY <1>4 DEF VMSeen
  <2>4. \/ Lifecycle!CheckSpec \/ Lifecycle!Sanitize \/ Lifecycle!Export \/ Lifecycle!Judge
        \/ Lifecycle!Resubmit \/ Lifecycle!RecordVM \/ Lifecycle!Abort \/ Lifecycle!ReportRunning
    BY <1>1, <1>2, <1>3, <1>9, <2>1, <2>2, <2>3, ArrowFacts
       DEF Import, Statuses, Terminal, Lifecycle!CheckSpec, Lifecycle!Sanitize, Lifecycle!Export,
           Lifecycle!Judge, Lifecycle!Resubmit, Lifecycle!RecordVM, Lifecycle!Abort,
           Lifecycle!ReportRunning, Lifecycle!Move
  <2> QED  BY <2>4 DEF Lifecycle!Next
<1> QED  BY <1>7, <1>8, <1>9

LEMMA LifecycleStep ==
    ASSUME IInv, IInv', [Next]_vars
    PROVE  [Lifecycle!Next]_Lifecycle!vars
<1>1. /\ DataInv /\ PhaseOK /\ ProgressOK
      /\ imp \in Import /\ w \in Import /\ images \in [Image -> ImageObject]
  BY DEF IInv, DataInv, TypeOK
<1>2. CASE Written
  BY <1>2, WrittenMoves
<1>3. CASE Removed \/ DeleteImport
  <2>1. /\ UNCHANGED <<images, vm>> /\ imp.phase # "gone"
        /\ imp'.status = imp.status /\ imp'.disks = imp.disks
    <3>1. CASE Removed
      <4>1. imp.phase = w.phase /\ w.phase = "deleting"
        BY <1>1, <3>1 DEF Removed, DataInv, WorkerOK, CopyAt, UpToDate, PhaseOK
      <4> QED  BY <1>1, <3>1, <4>1 DEF Removed, Import, target
    <3>2. CASE DeleteImport
      BY <1>1, <3>2 DEF DeleteImport, Import, target
    <3> QED  BY <1>3, <3>1, <3>2
  <2>2. UNCHANGED (imp.disks # <<>> /\ AllImported(imp))
    <3>1. Complete(imp', images') = Complete(imp, images)
      BY <2>1 DEF Complete
    <3> QED  BY <3>1, LifecycleState
  <2>3. CASE imp'.phase = "gone"
    <3>1. Lifecycle!Remove
      BY <2>1, <2>2, <2>3 DEF Lifecycle!Remove
    <3> QED  BY <3>1 DEF Lifecycle!Next
  <2>4. CASE imp'.phase # "gone"
    BY <2>1, <2>2, <2>4 DEF Lifecycle!vars
  <2> QED  BY <2>3, <2>4
<1>4. CASE imp' = imp /\ images' = images
  <2>1. UNCHANGED (imp.disks # <<>> /\ AllImported(imp))
    BY <1>4, LifecycleState
  <2>2. CASE vm' = vm
    BY <1>4, <2>1, <2>2 DEF Lifecycle!vars
  <2>3. CASE VMBoots
    <3>1. Lifecycle!Boot
      BY <1>4, <2>1, <2>3 DEF VMBoots, Lifecycle!Boot
    <3> QED  BY <3>1 DEF Lifecycle!Next
  <2>4. CASE ensureVM /\ vm = "none" /\ vm' = "created"
    <3>1. /\ pc = "pvc" /\ w.status = "DiskImagesReady" /\ imp.phase # "gone"
          /\ Agrees(w, imp) /\ StatusOK(w) /\ Fits(w, images, imp.phase)
      BY <1>1, <2>4, CopyFacts DEF ensureVM, StepStatus, PhaseOK
    <3>2. imp.status \in Settled /\ imp.disks = w.disks
      BY <3>1 DEF Agrees, Built
    <3>3. imp.status \in {"DiskImagesReady", "MigrationFailed"}
      BY <1>1, <2>4, <3>2 DEF ProgressOK, VMSeen, Settled, Built
    <3>4. Complete(w, images)
      BY <3>1, ReadyComplete DEF StatusOK, Built, AllReady
    <3>5. Complete(imp, images)
      BY <3>2, <3>4 DEF Complete
    <3>6. Lifecycle!CreateVM
      BY <1>4, <2>1, <2>4, <3>3, <3>5, LifecycleState DEF Lifecycle!CreateVM
    <3> QED  BY <3>6 DEF Lifecycle!Next
  <2> QED  BY <2>2, <2>3, <2>4, VMSteps
<1>5. CASE imp' = imp /\ images' # images
  <2>1. PICK i \in Image : Created(i) \/ Dropped(i) \/ Disowned(i) \/ DownloadImage(i) \/ CollectImage(i)
    BY <1>1, <1>5, ImageEffects
  <2>2. vm' = vm
    BY <1>5, VMSteps DEF ensureVM, VMBoots
  <2>3. CASE Complete(imp, images') = Complete(imp, images)
    BY <1>5, <2>2, <2>3, LifecycleState DEF Lifecycle!vars
  <2>4. CASE CollectImage(i)
    <3>1. Lifecycle!Collect
      BY <1>5, <2>2, <2>4 DEF CollectImage, Lifecycle!Collect
    <3> QED  BY <3>1 DEF Lifecycle!Next
  <2>5. CASE Complete(imp, images') # Complete(imp, images) /\ DownloadImage(i)
    <3>1. /\ Complete(imp, images')
          /\ imp.status = "DiskImagesSubmitted" \/ imp.phase = "gone"
      BY <1>1, <2>5, LastDisk
    <3>2. Lifecycle!ImportData \/ Lifecycle!Collect
      BY <1>5, <2>2, <3>1, LifecycleState DEF Lifecycle!ImportData, Lifecycle!Collect
    <3> QED  BY <3>2 DEF Lifecycle!Next
  <2>6. CASE Created(i) \/ Dropped(i) \/ Disowned(i)
    <3>1. Complete(imp, images') = Complete(imp, images)
      BY <1>1, <2>6, ImageWorkComplete DEF Complete
    <3> QED  BY <2>3, <3>1
  <2> QED  BY <2>1, <2>3, <2>4, <2>5, <2>6
<1> QED  BY <1>1, <1>2, <1>3, <1>4, <1>5, ObjectSteps

\* The controller, its stale caches, retries, faults and crashes included, does
\* what ImportLifecycle promises: the status moves along the arrows of
\* OnVirtualMachineChange, the data of a VM is complete before the VM is
\* created, and an import is reported Running only when its VM runs.
THEOREM ControllerImplementsLifecycle == Spec => ImplementsLifecycle
<1>1. ASSUME IInv, IInv', [Next]_vars
      PROVE  [Lifecycle!Next]_Lifecycle!vars
  BY <1>1, LifecycleStep
<1> QED  BY <1>1, LifecycleInit, Inductive, PTL DEF Spec, ImplementsLifecycle, Lifecycle!Spec
=============================================================================
