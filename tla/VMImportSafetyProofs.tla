------------------------- MODULE VMImportSafetyProofs -------------------------
(***************************************************************************)
(* Safety theorems of VMImport for every number of disks and images, every *)
(* import specification and every kind and number of faults: the types;    *)
(* DataInv, and with it that the VM has its disks, that an import that has *)
(* ended stays, and that a source VM is off while it is exported.          *)
(***************************************************************************)
EXTENDS VMImportInvariant, TLAPS

-----------------------------------------------------------------------------
(***************************************************************************)
(* What the helpers return                                                 *)
(***************************************************************************)
\* A copy stays a VirtualMachineImport when its status, conditions or list change.
LEMMA WithType ==
    ASSUME NEW o \in Import
    PROVE  /\ \A s \in Statuses : [o EXCEPT !.status = s] \in Import
           /\ \A cs \in SUBSET ImportConds : [o EXCEPT !.conds = @ \cup cs] \in Import
           /\ \A ds \in Seq(DiskInfo) : [o EXCEPT !.disks = @ \o ds] \in Import
<1>1. \A ds \in Seq(DiskInfo) : o.disks \o ds \in Seq(DiskInfo)
  <2>1. o.disks \in Seq(DiskInfo)
    BY DEF Import
  <2> QED  BY <2>1
<1>2. \A ds \in Seq(DiskInfo) : [o EXCEPT !.disks = @ \o ds] \in Import
  BY <1>1 DEF Import
<1>3. \A s \in Statuses : [o EXCEPT !.status = s] \in Import
  BY DEF Import
<1>4. \A cs \in SUBSET ImportConds : [o EXCEPT !.conds = @ \cup cs] \in Import
  BY DEF Import
<1> QED  BY <1>2, <1>3, <1>4

\* ... and when one of its disks does.
LEMMA DiskType ==
    ASSUME NEW o \in Import, NEW j \in DOMAIN o.disks, NEW d \in DiskInfo
    PROVE  /\ [o EXCEPT !.disks[j] = d] \in Import
           /\ [o EXCEPT !.disks[j] = d].disks = [o.disks EXCEPT ![j] = d]
           /\ DOMAIN [o.disks EXCEPT ![j] = d] = DOMAIN o.disks
           /\ [o.disks EXCEPT ![j] = d] \in Seq(DiskInfo)
           /\ o.disks[j] \in DiskInfo
<1>1. o.disks \in Seq(DiskInfo) /\ o.disks[j] \in DiskInfo
  BY DEF Import
<1>2. /\ [o.disks EXCEPT ![j] = d] \in Seq(DiskInfo)
      /\ DOMAIN [o.disks EXCEPT ![j] = d] = DOMAIN o.disks
  BY <1>1
<1>3. [o EXCEPT !.disks[j] = d].disks = [o.disks EXCEPT ![j] = d]
  BY DEF Import
<1>4. [o EXCEPT !.disks[j] = d] \in Import
  BY <1>2 DEF Import
<1> QED  BY <1>1, <1>2, <1>3, <1>4

\* An image stays one when its state or its owner changes.
LEMMA ImageType ==
    ASSUME NEW f \in [Image -> ImageObject], NEW i \in Image, NEW g,
           \/ \E s \in {"imported", "failed", "gone"} : g = [f EXCEPT ![i].st = s]
           \/ g = [f EXCEPT ![i].owned = FALSE]
    PROVE  g \in [Image -> ImageObject]
<1>1. \A s \in {"imported", "failed", "gone"} : [f[i] EXCEPT !.st = s] \in ImageObject
  BY DEF ImageObject, ImageState
<1>2. [f[i] EXCEPT !.owned = FALSE] \in ImageObject
  BY DEF ImageObject
<1> QED  BY <1>1, <1>2

LEMMA DisksType == \A n \in Nat : ExportedDisks(n) \in Seq(DiskInfo)
BY DEF ExportedDisks, DiskInfo, DiskConds

LEMMA NewImportType == NewImport \in Import /\ NewImport.disks = <<>>
BY DEF NewImport, Import, Statuses

-----------------------------------------------------------------------------
(***************************************************************************)
(* Type correctness                                                        *)
(***************************************************************************)
\* The types of the worker, and those of everything else.
WorkerType == pc \in PCs /\ w \in Import /\ wfresh \in BOOLEAN /\ k \in Nat
WakeupType == queued \in BOOLEAN /\ timer \in BOOLEAN
ServerType == /\ conf \in Confs /\ imp \in Import /\ cache \in Import /\ fresh \in BOOLEAN
              /\ icache \in [Image -> ImageObject]
TargetType == /\ images \in [Image -> ImageObject] /\ pvcs \subseteq Image
              /\ vm \in {"none", "foreign", "created", "ready"}
WorldType == /\ source \in {"notReady", "ClusterReady", "gone"}
             /\ power \in {"on", "shutting", "forced", "off"} /\ late \in BOOLEAN
             /\ files \subseteq Nat

LEMMA TypeParts ==
    ServerType' /\ WorkerType' /\ WakeupType' /\ TargetType' /\ WorldType' /\ faults' \in Nat
        => TypeOK'
BY DEF TypeOK, ServerType, WorkerType, WakeupType, TargetType, WorldType

\* A step that leaves a part alone keeps its type.
LEMMA UnchangedType ==
    ASSUME TypeOK
    PROVE  /\ UNCHANGED server => ServerType'
           /\ UNCHANGED worker => WorkerType'
           /\ UNCHANGED wakeups => WakeupType'
           /\ UNCHANGED target => TargetType'
           /\ UNCHANGED world => WorldType'
           /\ UNCHANGED faults => faults' \in Nat
<1>1. UNCHANGED server => ServerType'
  BY DEF TypeOK, server, ServerType
<1>2. /\ UNCHANGED worker => WorkerType'
      /\ UNCHANGED wakeups => WakeupType'
  BY DEF TypeOK, worker, wakeups, WorkerType, WakeupType
<1>3. UNCHANGED target => TargetType'
  BY DEF TypeOK, target, TargetType
<1>4. UNCHANGED world => WorldType'
  BY DEF TypeOK, world, WorldType
<1>5. UNCHANGED faults => faults' \in Nat
  BY DEF TypeOK
<1> QED  BY <1>1, <1>2, <1>3, <1>4, <1>5

LEMMA ReturnType ==
    ASSUME TypeOK, NEW err \in BOOLEAN, Return(err) \/ ReturnAfter(err)
    PROVE  WorkerType' /\ WakeupType'
<1>1. pc' = "idle" /\ w' = NewImport /\ wfresh' = FALSE /\ k' = 0
  BY Zenon DEF Return, ReturnAfter
<1>2. WorkerType'
  BY <1>1, NewImportType DEF WorkerType, PCs
<1>3. queued' \in BOOLEAN
  <2>1. CASE err
    BY <2>1, Zenon DEF Return, ReturnAfter
  <2>2. CASE ~err
    BY <2>2, Zenon DEF TypeOK, Return, ReturnAfter
  <2> QED  BY <2>1, <2>2
<1>4. timer' \in BOOLEAN
  BY Zenon DEF TypeOK, Return, ReturnAfter
<1> QED  BY <1>2, <1>3, <1>4 DEF WakeupType

LEMMA ContinueType ==
    ASSUME TypeOK, NEW p \in PCs, NEW obj \in Import, NEW n \in Nat, Continue(p, obj, n)
    PROVE  WorkerType' /\ WakeupType'
BY DEF TypeOK, Continue, WorkerType, WakeupType

LEMMA UpdateType ==
    ASSUME TypeOK, NEW obj \in Import, Update(obj)
    PROVE  WorkerType' /\ WakeupType'
BY ContinueType DEF Update, PCs

LEMMA ExportUpdateType ==
    ASSUME TypeOK, NEW obj \in Import, ExportUpdate(obj)
    PROVE  WorkerType' /\ WakeupType'
<1>1. /\ [obj EXCEPT !.status = "MigrationFailed"] \in Import
      /\ [obj EXCEPT !.status = "DisksExported"] \in Import
      /\ [obj EXCEPT !.status = obj.status] \in Import
  BY DEF Import, Statuses
<1>2. PICK s \in {"MigrationFailed", "DisksExported", obj.status} : Update([obj EXCEPT !.status = s])
  BY DEF ExportUpdate
<1> QED  BY <1>1, <1>2, UpdateType

LEMMA RestartType ==
    ASSUME TypeOK, Restart
    PROVE  /\ WorkerType' /\ WakeupType'
           /\ conf' \in Confs /\ imp' \in Import /\ cache' \in Import /\ fresh' \in BOOLEAN
           /\ images' \in [Image -> ImageObject] /\ icache' \in [Image -> ImageObject]
           /\ pvcs' \subseteq Image /\ vm' \in {"none", "foreign", "created", "ready"}
           /\ source' = source /\ power' = power /\ late' = late /\ files' = {}
BY NewImportType DEF TypeOK, Restart, WorkerType, WakeupType, PCs, target

LEMMA FaultType ==
    ASSUME TypeOK
    PROVE  /\ NoFault => faults' \in Nat
           /\ \A kind : Fault(kind) => faults' \in Nat
BY DEF TypeOK, NoFault, Fault

LEMMA InitType == Init => TypeOK
<1> SUFFICES ASSUME Init PROVE TypeOK
  OBVIOUS
<1>1. NoObject \in ImageObject
  BY DEF NoObject, ImageObject, ImageState
<1> QED  BY <1>1, NewImportType DEF Init, TypeOK, PCs

\* Each step of the worker, of the cluster and of the users keeps the types.
LEMMA WorkerStepType == ASSUME TypeOK, Worker PROVE TypeOK'
<1> USE DEF PCs
<1>w. w \in Import /\ cache \in Import /\ imp \in Import
  BY DEF TypeOK
<1>s. \A s \in Statuses : WithStatus(s) \in Import
  BY <1>w, WithType DEF WithStatus
<1>c. \A cs \in SUBSET ImportConds : WithConds(cs) \in Import
  BY <1>w, WithType DEF WithConds
<1>d. \A j \in DOMAIN w.disks : j \in Nat /\ w.disks[j] \in DiskInfo
  BY <1>w DEF Import
<1>k. ASSUME NEW j \in DOMAIN w.disks, NEW cs \in SUBSET DiskConds
      PROVE  SetDiskConds(j, cs) \in Import
  <2>1. [w.disks[j] EXCEPT !.conds = cs] \in DiskInfo
    BY <1>d DEF DiskInfo
  <2> QED  BY <2>1, <1>w, DiskType DEF SetDiskConds, WithDisk
<1>1. CASE Reconcile
  <2>1. WorkerType'
    <3>1. CASE cache.phase = "gone" \/ (cache.phase = "live" /\ cache.status = "ImportInvalid")
      BY <1>1, <3>1 DEF Reconcile, TypeOK, WorkerType
    <3>2. CASE ~(cache.phase = "gone" \/ (cache.phase = "live" /\ cache.status = "ImportInvalid"))
      <4>1. /\ pc' = IF cache.phase = "deleting" THEN "remove" ELSE Branch[cache.status]
            /\ w' = cache /\ wfresh' = fresh /\ k' = 0
        BY <1>1, <3>2 DEF Reconcile
      <4>2. cache.phase = "deleting" \/ cache.status \in Statuses \ {"ImportInvalid"}
        BY <3>2, <1>w DEF Import
      <4>3. \A s \in Statuses \ {"ImportInvalid"} : Branch[s] \in PCs
        BY DEF Branch, Statuses
      <4> QED  BY <4>1, <4>2, <4>3 DEF TypeOK, WorkerType
    <3> QED  BY <3>1, <3>2
  <2>2. WakeupType' /\ UNCHANGED <<server, target, world, faults>>
    BY <1>1 DEF Reconcile, TypeOK, WakeupType
  <2> QED  BY <2>1, <2>2, TypeParts, UnchangedType
<1>2. CASE RequestFails
  BY <1>2, ReturnType, TypeParts, UnchangedType, FaultType DEF RequestFails
<1>3. CASE UpdateStatus
  <2>1. \E err \in BOOLEAN : Return(err)
    BY <1>3, Zenon DEF UpdateStatus
  <2>2. ServerType'
    <3>1. CASE Write
      BY <3>1 DEF Write, TypeOK, ServerType
    <3>2. CASE UNCHANGED server
      BY <3>2, UnchangedType
    <3> QED  BY <3>1, <3>2, <1>3 DEF UpdateStatus
  <2>3. UNCHANGED <<target, world>> /\ faults' \in Nat
    BY <1>3, FaultType DEF UpdateStatus
  <2> QED  BY <2>1, <2>2, <2>3, ReturnType, TypeParts, UnchangedType
<1>4. CASE reconcilePreFlightChecks
  <2>1. WorkerType' /\ WakeupType'
    BY <1>4, <1>s, ReturnType, UpdateType DEF reconcilePreFlightChecks, Statuses
  <2> QED  BY <1>4, <2>1, TypeParts, UnchangedType DEF reconcilePreFlightChecks
<1>5. CASE sanitizeVirtualMachineImport
  <2>1. CASE SourceFails /\ Restart
    <3>1. faults' \in Nat
      BY <2>1, FaultType, UnchangedType DEF SourceFails
    <3> QED  BY <2>1, <3>1, RestartType, TypeParts DEF ServerType, TargetType, WorldType, TypeOK
  <2>2. CASE /\ NoFault /\ \E s \in {"SourceReady", "ImportInvalid"} : Update(WithStatus(s))
             /\ UNCHANGED <<server, target, world>>
    <3>1. WorkerType' /\ WakeupType'
      BY <2>2, <1>s, UpdateType DEF Statuses
    <3> QED  BY <2>2, <3>1, FaultType, TypeParts, UnchangedType
  <2> QED  BY <1>5, <2>1, <2>2 DEF sanitizeVirtualMachineImport
<1>6. CASE abortMigration
  <2>1. WorkerType' /\ WakeupType' /\ faults' \in Nat
    BY <1>6, <1>s, UpdateType, FaultType DEF abortMigration, SourceFails, Statuses
  <2> QED  BY <1>6, <2>1, TypeParts, UnchangedType DEF abortMigration
<1>7. ASSUME NEW request \in {"PoweringOff", "ShutdownGuest"}, RequestStop(request)
      PROVE  TypeOK'
  <2>1. WorkerType' /\ WakeupType' /\ faults' \in Nat
    BY <1>7, <1>c, ExportUpdateType, ReturnType, FaultType DEF RequestStop, ImportConds
  <2>2. WorldType'
    BY <1>7 DEF RequestStop, powerAfter, TypeOK, WorldType
  <2> QED  BY <1>7, <2>1, <2>2, TypeParts, UnchangedType DEF RequestStop
<1>8. CASE triggerStop \/ powerOffAfterTimeout
  BY <1>8, <1>7 DEF triggerStop, powerOffAfterTimeout
<1>9. CASE seesPoweredOff
  <2>1. WorkerType' /\ WakeupType'
    BY <1>9, <1>c, ExportUpdateType DEF seesPoweredOff, ImportConds
  <2> QED  BY <1>9, <2>1, TypeParts, UnchangedType DEF seesPoweredOff
<1>10. CASE waitForPowerOff
  <2>1. WorkerType' /\ WakeupType'
    BY <1>10 DEF waitForPowerOff, TypeOK, WorkerType, WakeupType
  <2> QED  BY <1>10, <2>1, TypeParts, UnchangedType DEF waitForPowerOff
<1>11. CASE triggerExport
  <2>1. WorkerType' /\ WakeupType'
    BY <1>11, <1>w, ContinueType, ExportUpdateType DEF triggerExport
  <2> QED  BY <1>11, <2>1, TypeParts, UnchangedType DEF triggerExport
<1>12. CASE exportSucceeds
  <2>1. PICK n \in 0..MaxDisks :
            /\ files' = files \cup 1..n \cup Archive
            /\ ExportUpdate([WithConds({"Exported"}) EXCEPT !.disks = @ \o ExportedDisks(n)])
    BY <1>12 DEF exportSucceeds
  <2>2. [WithConds({"Exported"}) EXCEPT !.disks = @ \o ExportedDisks(n)] \in Import
    <3>1. n \in Nat
      BY BoundsAssumption
    <3>2. WithConds({"Exported"}) \in Import
      BY <1>c DEF ImportConds
    <3> QED  BY <3>1, <3>2, DisksType, WithType
  <2>3. WorkerType' /\ WakeupType'
    BY <2>1, <2>2, ExportUpdateType
  <2>4. WorldType'
    BY <1>12, <2>1 DEF exportSucceeds, Archive, TypeOK, WorldType
  <2> QED  BY <1>12, <2>3, <2>4, TypeParts, UnchangedType DEF exportSucceeds
<1>13. CASE exportFails
  <2>1. PICK n \in 0..MaxDisks, left \in SUBSET (1..MaxDisks \cup Archive) :
            /\ files' = files \cup left
            /\ ExportUpdate([WithConds({"ExportFailed"}) EXCEPT !.disks = @ \o ExportedDisks(n)])
    BY <1>13 DEF exportFails
  <2>2. [WithConds({"ExportFailed"}) EXCEPT !.disks = @ \o ExportedDisks(n)] \in Import
    <3>1. n \in Nat
      BY BoundsAssumption
    <3>2. WithConds({"ExportFailed"}) \in Import
      BY <1>c DEF ImportConds
    <3> QED  BY <3>1, <3>2, DisksType, WithType
  <2>3. WorkerType' /\ WakeupType'
    BY <2>1, <2>2, ExportUpdateType
  <2>4. WorldType'
    <3>1. left \subseteq Nat
      BY BoundsAssumption DEF Archive
    <3> QED  BY <1>13, <2>1, <3>1 DEF exportFails, TypeOK, WorldType
  <2> QED  BY <1>13, <2>3, <2>4, TypeParts, UnchangedType DEF exportFails
<1>14. CASE reconcileDiskImageStatus
  <2>1. WorkerType' /\ WakeupType'
    BY <1>14, <1>s, UpdateType DEF reconcileDiskImageStatus, Statuses
  <2> QED  BY <1>14, <2>1, TypeParts, UnchangedType DEF reconcileDiskImageStatus
<1>a. ASSUME NEW j \in DOMAIN w.disks, NEW i \in Image, Attach(j, i)
      PROVE  WorkerType' /\ WakeupType'
  <2>1. [image |-> i, conds |-> w.disks[j].conds \cup {"Submitted"}] \in DiskInfo
    BY <1>d DEF DiskInfo, DiskConds
  <2>2. WithDisk(j, [image |-> i, conds |-> w.disks[j].conds \cup {"Submitted"}]) \in Import
    BY <1>w, <2>1, DiskType DEF WithDisk
  <2> QED  BY <1>a, <1>d, <2>2, ContinueType DEF Attach
<1>e. SubmitError => WorkerType' /\ WakeupType'
  BY <1>w, ContinueType, ReturnType DEF SubmitError
<1>15. CASE \E j \in First(Unsubmitted) : findVirtualMachineImage(j)
  <2>1. PICK j \in DOMAIN w.disks : findVirtualMachineImage(j)
    BY <1>15 DEF First, Unsubmitted
  <2>2. WorkerType' /\ WakeupType'
    BY <2>1, <1>a, <1>e DEF findVirtualMachineImage, Labelled
  <2> QED  BY <2>1, <2>2, TypeParts, UnchangedType DEF findVirtualMachineImage
<1>16. CASE \E j \in First(Unsubmitted) : createVirtualMachineImage(j)
  <2>1. PICK j \in DOMAIN w.disks : createVirtualMachineImage(j)
    BY <1>16 DEF First, Unsubmitted
  <2>2. WorkerType' /\ WakeupType' /\ faults' \in Nat
    BY <2>1, <1>a, <1>e, FaultType, UnchangedType DEF createVirtualMachineImage, FreshImages
  <2>3. TargetType'
    <3>1. \A i \in Image : [st |-> "importing", disk |-> j, owned |-> TRUE] \in ImageObject
      BY <1>d DEF ImageObject, ImageState
    <3>2. images' \in [Image -> ImageObject]
      BY <2>1, <3>1 DEF createVirtualMachineImage, FreshImages, TypeOK
    <3> QED  BY <2>1, <3>2 DEF createVirtualMachineImage, TypeOK, TargetType
  <2> QED  BY <2>1, <2>2, <2>3, TypeParts, UnchangedType DEF createVirtualMachineImage
<1>17. CASE reconcileVMIStatus
  <2>1. k + 1 \in DOMAIN w.disks /\ k + 1 \in Nat
    BY <1>17, <1>w DEF reconcileVMIStatus, Import, TypeOK
  <2>2. \A c \in {"Ready", "Failed"} :
            SetDiskConds(k + 1, w.disks[k + 1].conds \cup {c}) \in Import
    BY <2>1, <1>d, <1>k DEF DiskInfo, DiskConds
  <2>3. \/ Continue("poll", w, k + 1) \/ Return(TRUE)
        \/ \E c \in {"Ready", "Failed"} :
              Continue("poll", SetDiskConds(k + 1, w.disks[k + 1].conds \cup {c}), k + 1)
    <3> HIDE DEF PCs
    <3>1. HasImage(k + 1) => ImageOf(k + 1).st \in {"importing", "imported", "failed"}
      BY DEF HasImage, ImageOf, Exists, TypeOK, ImageObject, ImageState
    <3> QED  BY <1>17, <3>1 DEF reconcileVMIStatus
  <2>4. WorkerType' /\ WakeupType'
    BY <2>1, <2>2, <2>3, <1>w, ContinueType, ReturnType
  <2> QED  BY <1>17, <2>4, TypeParts, UnchangedType DEF reconcileVMIStatus
<1>18. CASE EvaluateDisks
  <2>1. evaluateDiskImportStatus(w.disks) \in {"none", "DiskImagesReady", "DiskImagesFailed"}
    BY DEF evaluateDiskImportStatus
  <2>2. Return(FALSE) \/ \E s \in Statuses : Update(WithStatus(s))
    BY <1>18, <2>1 DEF EvaluateDisks, Statuses
  <2>3. WorkerType' /\ WakeupType'
    BY <2>2, <1>s, UpdateType, ReturnType
  <2> QED  BY <1>18, <2>3, TypeParts, UnchangedType DEF EvaluateDisks
<1>19. CASE \E j \in First(FailedDisks) : cleanupAndResubmit(j)
  <2>1. PICK j \in DOMAIN w.disks : cleanupAndResubmit(j)
    BY <1>19 DEF First, FailedDisks
  <2>2. SetDiskConds(j, w.disks[j].conds \ {"Failed"}) \in Import /\ j \in Nat
    BY <1>d, <1>k DEF DiskInfo
  <2>3. WorkerType' /\ WakeupType' /\ faults' \in Nat
    BY <2>1, <2>2, ContinueType, ReturnType, FaultType DEF cleanupAndResubmit
  <2>4. TargetType'
    <3>1. images' \in [Image -> ImageObject]
      <4>1. images \in [Image -> ImageObject]
        BY DEF TypeOK
      <4>2. \/ images' = images
            \/ /\ w.disks[j].image \in Image
               /\ images' = [images EXCEPT ![w.disks[j].image].st = "gone"]
        BY <2>1 DEF cleanupAndResubmit, HasImage
      <4> QED  BY <4>1, <4>2, ImageType
    <3> QED  BY <2>1, <3>1 DEF cleanupAndResubmit, TypeOK, TargetType
  <2> QED  BY <2>1, <2>3, <2>4, TypeParts, UnchangedType DEF cleanupAndResubmit
<1>20. CASE triggerResubmit
  <2>1. WorkerType' /\ WakeupType'
    BY <1>20, <1>s, UpdateType DEF triggerResubmit, Statuses
  <2> QED  BY <1>20, <2>1, TypeParts, UnchangedType DEF triggerResubmit
<1>21. CASE createVirtualMachine
  <2>1. WorkerType' /\ WakeupType'
    BY <1>21, <1>w, ContinueType, ReturnType DEF createVirtualMachine
  <2> QED  BY <1>21, <2>1, TypeParts, UnchangedType DEF createVirtualMachine
<1>22. CASE findAndCreatePVC
  <2>1. WorkerType' /\ WakeupType' /\ faults' \in Nat
    <3>1. k + 1 \in Nat
      BY DEF TypeOK
    <3> QED  BY <1>22, <3>1, <1>w, ContinueType, ReturnType, FaultType DEF findAndCreatePVC
  <2>2. TargetType'
    BY <1>22 DEF findAndCreatePVC, HasImage, TypeOK, TargetType
  <2> QED  BY <1>22, <2>1, <2>2, TypeParts, UnchangedType DEF findAndCreatePVC
<1>23. CASE ensureVM
  <2>1. WorkerType' /\ WakeupType' /\ faults' \in Nat
    BY <1>23, <1>s, UpdateType, ReturnType, FaultType DEF ensureVM, Statuses
  <2>2. TargetType'
    BY <1>23 DEF ensureVM, TypeOK, TargetType
  <2> QED  BY <1>23, <2>1, <2>2, TypeParts, UnchangedType DEF ensureVM
<1>24. CASE reconcileVirtualMachineStatus
  <2>1. WorkerType' /\ WakeupType'
    BY <1>24, <1>s, UpdateType, ReturnType DEF reconcileVirtualMachineStatus, Statuses
  <2> QED  BY <1>24, <2>1, TypeParts, UnchangedType DEF reconcileVirtualMachineStatus
<1>25. CASE tidyUpObjects
  <2>1. WorkerType' /\ WakeupType'
    <3>1. k + 1 \in Nat
      BY DEF TypeOK
    <3> QED  BY <1>25, <3>1, <1>w, ContinueType, ReturnType DEF tidyUpObjects
  <2>2. images' \in [Image -> ImageObject]
    <3>1. images \in [Image -> ImageObject]
      BY DEF TypeOK
    <3>2. images' = images \/ \E i \in Image : images' = [images EXCEPT ![i].owned = FALSE]
      BY <1>25 DEF tidyUpObjects, HasImage
    <3> QED  BY <3>1, <3>2, ImageType
  <2>3. TargetType'
    BY <1>25, <2>2 DEF tidyUpObjects, TypeOK, TargetType
  <2> QED  BY <1>25, <2>1, <2>3, TypeParts, UnchangedType DEF tidyUpObjects
<1>26. CASE triggerCleanup \/ OnVirtualMachineRemove
  <2>1. WorkerType' /\ WakeupType' /\ faults' \in Nat
    BY <1>26, <1>w, ContinueType, ReturnType, FaultType
    DEF triggerCleanup, OnVirtualMachineRemove, CleanupThen, SourceFails
  <2>2. WorldType'
    BY <1>26 DEF triggerCleanup, OnVirtualMachineRemove, CleanupThen, TypeOK, WorldType
  <2> QED  BY <1>26, <2>1, <2>2, TypeParts, UnchangedType
           DEF triggerCleanup, OnVirtualMachineRemove
<1>27. CASE RemoveFinalizer
  <2>1. WorkerType' /\ WakeupType'
    BY <1>27, ReturnType DEF RemoveFinalizer
  <2>2. ServerType'
    BY <1>27, <1>w, UnchangedType DEF RemoveFinalizer, TypeOK, ServerType, Import
  <2> QED  BY <1>27, <2>1, <2>2, TypeParts, UnchangedType DEF RemoveFinalizer
<1> QED  BY <1>1, <1>2, <1>3, <1>4, <1>5, <1>6, <1>8, <1>9, <1>10, <1>11, <1>12, <1>13, <1>14,
            <1>15, <1>16, <1>17, <1>18, <1>19, <1>20, <1>21, <1>22, <1>23, <1>24, <1>25, <1>26,
            <1>27 DEF Worker

LEMMA EnvironmentStepType == ASSUME TypeOK, Environment PROVE TypeOK'
<1>1. CASE WatchImport
  BY <1>1, TypeParts, UnchangedType DEF WatchImport, TypeOK, ServerType, WakeupType
<1>2. CASE TimerFires
  BY <1>2, TypeParts, UnchangedType DEF TimerFires, WakeupType
<1>3. CASE VMBoots
  BY <1>3, TypeParts, UnchangedType DEF VMBoots, TypeOK, TargetType
<1>4. CASE SourceBecomesReady \/ SourceDeleted
  BY <1>4, TypeParts, UnchangedType, FaultType
  DEF SourceBecomesReady, SourceDeleted, TypeOK, WorldType
<1>5. CASE PowersOff \/ PoweredOn
  BY <1>5, TypeParts, UnchangedType, FaultType DEF PowersOff, PoweredOn, TypeOK, WorldType
<1>6. CASE GraceElapses
  BY <1>6, TypeParts, UnchangedType DEF GraceElapses, TypeOK, WorldType
<1>7. CASE TouchImport \/ DeleteImport
  <2>1. ServerType'
    BY <1>7 DEF TouchImport, DeleteImport, TypeOK, ServerType, Import
  <2>2. WorkerType'
    BY <1>7 DEF TouchImport, DeleteImport, TypeOK, WorkerType
  <2> QED  BY <1>7, <2>1, <2>2, TypeParts, UnchangedType, FaultType DEF TouchImport, DeleteImport
<1>8. CASE Crash
  BY <1>8, RestartType, FaultType, TypeParts
  DEF Crash, ServerType, TargetType, WorldType, TypeOK
<1>9. ASSUME NEW i \in Image, ReconcileVMI(i) PROVE TypeOK'
  <2>1. ServerType'
    BY <1>9 DEF ReconcileVMI, TypeOK, ServerType
  <2>2. queued' \in BOOLEAN /\ timer' \in BOOLEAN
    <3>1. CASE Exists(images[i]) /\ images[i].owned
      BY <1>9, <3>1, Zenon DEF ReconcileVMI, TypeOK
    <3>2. CASE ~(Exists(images[i]) /\ images[i].owned)
      BY <1>9, <3>2, Zenon DEF ReconcileVMI, TypeOK
    <3>3. timer' = timer
      BY <1>9 DEF ReconcileVMI
    <3> QED  BY <3>1, <3>2, <3>3 DEF TypeOK
  <2> QED  BY <1>9, <2>1, <2>2, TypeParts, UnchangedType DEF ReconcileVMI, WakeupType
<1>10. ASSUME NEW i \in Image, DownloadImage(i) \/ CollectImage(i) PROVE TypeOK'
  <2>1. TargetType'
    <3>1. images \in [Image -> ImageObject]
      BY DEF TypeOK
    <3>2. \E s \in {"imported", "failed", "gone"} : images' = [images EXCEPT ![i].st = s]
      BY <1>10 DEF DownloadImage, CollectImage
    <3>3. images' \in [Image -> ImageObject]
      BY <3>1, <3>2, ImageType
    <3> QED  BY <1>10, <3>3 DEF DownloadImage, CollectImage, TypeOK, TargetType
  <2> QED  BY <1>10, <2>1, TypeParts, UnchangedType, FaultType DEF DownloadImage, CollectImage
<1> QED  BY <1>1, <1>2, <1>3, <1>4, <1>5, <1>6, <1>7, <1>8, <1>9, <1>10 DEF Environment

LEMMA StutterType == ASSUME TypeOK, UNCHANGED vars PROVE TypeOK'
BY TypeParts, UnchangedType DEF vars

\* The objects, their cached and working copies, the images, the queue and the
\* files have their types in every reachable state (OnVirtualMachineChange).
THEOREM TypeCorrect == Spec => []TypeOK
<1>1. TypeOK /\ [Next]_vars => TypeOK'
  BY WorkerStepType, EnvironmentStepType, StutterType DEF Next
<1> QED  BY <1>1, InitType, PTL DEF Spec

-----------------------------------------------------------------------------
(***************************************************************************)
(* What may happen to the images                                           *)
(***************************************************************************)
\* An image keeps its disk; one that is imported goes only with the import,
\* one that failed never becomes good.
Evolve(imgs, imgs2, phase) ==
    \A i \in Image :
        /\ imgs[i].st # "none" => imgs2[i].st # "none" /\ imgs2[i].disk = imgs[i].disk
        /\ imgs[i].st = "imported" => imgs2[i].st = "imported" \/ phase = "gone"
        /\ imgs[i].st \in {"failed", "gone"} => imgs2[i].st \in {"failed", "gone"}

LEMMA NothingEvolves == \A imgs, phase : Evolve(imgs, imgs, phase)
BY DEF Evolve

\* What the conditions of a copy say stays true.
LEMMA FitsStays ==
    ASSUME NEW o \in Import, NEW imgs, NEW imgs2, NEW phase, NEW phase2,
           Evolve(imgs, imgs2, phase2), phase = "gone" => phase2 = "gone",
           Fits(o, imgs, phase)
    PROVE  Fits(o, imgs2, phase2)
<1> SUFFICES ASSUME NEW j \in DOMAIN o.disks PROVE DiskFits(o.disks[j], j, imgs2, phase2)
  BY DEF Fits
<1>1. DiskFits(o.disks[j], j, imgs, phase)
  BY DEF Fits
<1> QED  BY <1>1 DEF DiskFits, Evolve

LEMMA SetStateEvolves ==
    ASSUME NEW imgs \in [Image -> ImageObject], NEW i \in Image, NEW s, NEW phase, NEW g,
           g = [imgs EXCEPT ![i].st = s],
           s \in {"imported", "failed", "gone"},
           \/ imgs[i].st = "importing"
           \/ imgs[i].st \in {"failed", "gone"} /\ s = "gone"
           \/ phase = "gone" /\ s = "gone" /\ Exists(imgs[i])
    PROVE  Evolve(imgs, g, phase)
BY DEF Evolve, Exists, ImageObject

-----------------------------------------------------------------------------
(***************************************************************************)
(* Steps that leave the object and the caches alone                        *)
(***************************************************************************)
LEMMA ServerStays ==
    ASSUME DataInv, UNCHANGED server, Evolve(images, images', imp.phase)
    PROVE  ServerOK'
<1>1. imp \in Import /\ cache \in Import
  BY DEF DataInv, TypeOK
<1>2. Fits(imp, images', imp.phase) /\ Fits(cache, images', imp.phase)
  BY <1>1, FitsStays DEF DataInv, ServerOK
<1>3. imp' = imp /\ cache' = cache /\ fresh' = fresh /\ icache' = icache
  BY DEF server
<1>4. ImageCacheOK'
  BY <1>3 DEF DataInv, ServerOK, ImageCacheOK, Evolve
<1> QED  BY <1>2, <1>3, <1>4 DEF DataInv, ServerOK

\* A reconcile that has returned has no copy.
LEMMA IdleOK ==
    ASSUME pc' = "idle", w' = NewImport, wfresh' = FALSE
    PROVE  WorkerOK' /\ w'.conds = {}
<1>1. /\ w'.status = "New" /\ w'.disks = <<>> /\ w'.conds = {} /\ DOMAIN w'.disks = {}
  BY DEF NewImport
<1>2. Fits(w', images', imp'.phase) /\ StatusOK(w') /\ Agrees(w', imp')
  BY <1>1 DEF Fits, StatusOK, Agrees, Built
<1>3. pc' \notin DOMAIN StepStatus
  BY DEF StepStatus
<1> QED  BY <1>1, <1>2, <1>3 DEF WorkerOK, CopyAt

\* The source VM stays off once it was seen off.
LEMMA PowerStays ==
    ASSUME DataInv, power = "off" => power' = "off" \/ "poweron" \in FaultKinds,
           SeenOff' => SeenOff \/ power' = "off"
    PROVE  PowerOK'
BY DEF DataInv, PowerOK

LEMMA VMStays == ASSUME DataInv, imp' = imp, vm' = vm PROVE VMOK'
BY DEF DataInv, VMOK

\* The handler returns.
LEMMA QuietReturn ==
    ASSUME DataInv, TypeOK', UNCHANGED server, vm' = vm \/ VMOK', power = "off" => power' = "off",
           Evolve(images, images', imp.phase),
           NEW err, Return(err) \/ ReturnAfter(err)
    PROVE  DataInv'
<1>1. pc' = "idle" /\ w' = NewImport /\ wfresh' = FALSE
  BY Zenon DEF Return, ReturnAfter
<1>2. WorkerOK' /\ w'.conds = {}
  BY <1>1, IdleOK
<1>3. imp' = imp /\ cache' = cache
  BY DEF server
<1>4. PowerOK'
  BY <1>1, <1>2, <1>3, PowerStays DEF SeenOff
<1> QED  BY <1>2, <1>3, <1>4, ServerStays, VMStays DEF DataInv

\* The reconcile goes on with a copy that fits.
LEMMA QuietContinue ==
    ASSUME DataInv, TypeOK', UNCHANGED server, vm' = vm \/ VMOK', power = "off" => power' = "off",
           Evolve(images, images', imp.phase),
           NEW p, NEW obj \in Import, NEW n, Continue(p, obj, n),
           Fits(obj, images', imp.phase), CopyAt(p, obj),
           "PoweredOff" \in obj.conds \/ p = "exporting" => SeenOff \/ power' = "off"
    PROVE  DataInv'
<1>1. pc' = p /\ w' = obj /\ wfresh' = wfresh
  BY Zenon DEF Continue
<1>2. imp' = imp /\ cache' = cache
  BY DEF server
<1>3. WorkerOK'
  BY <1>1, <1>2 DEF WorkerOK, CopyAt
<1>4. PowerOK'
  BY <1>1, <1>2, PowerStays DEF SeenOff
<1> QED  BY <1>2, <1>3, <1>4, ServerStays, VMStays DEF DataInv

\* The reconcile is about to write its copy, with another status.
LEMMA QuietUpdate ==
    ASSUME DataInv, TypeOK', UNCHANGED server, vm' = vm \/ VMOK', power = "off" => power' = "off",
           Evolve(images, images', imp.phase),
           NEW s \in Statuses, NEW p \in UpdateSteps, NEW n, Continue(p, WithStatus(s), n),
           pc \in DOMAIN StepStatus, w.status \notin Terminal,
           w.status \in Settled => s \in Settled /\ pc \notin {"submit", "poll", "resubmit"},
           StatusOK(WithStatus(s))
    PROVE  DataInv'
<1>1. w \in Import /\ pc \notin UpdateSteps /\ p \notin DOMAIN StepStatus
  BY DEF DataInv, TypeOK, StepStatus, UpdateSteps
<1>2. /\ WithStatus(s) \in Import /\ WithStatus(s).status = s
      /\ WithStatus(s).disks = w.disks /\ WithStatus(s).conds = w.conds
      /\ WithStatus(s).phase = w.phase
  BY <1>1, WithType DEF WithStatus, Import
<1>3. Fits(w, images', imp.phase)
  BY <1>1, FitsStays DEF DataInv, WorkerOK
<1>4. Fits(WithStatus(s), images', imp.phase)
  BY <1>2, <1>3 DEF Fits
<1>5. CopyAt(p, WithStatus(s))
  BY <1>1, <1>2 DEF DataInv, WorkerOK, CopyAt, UpToDate
<1>6. "PoweredOff" \in WithStatus(s).conds \/ p = "exporting" => SeenOff \/ power' = "off"
  BY <1>2 DEF SeenOff, UpdateSteps
<1> QED  BY <1>2, <1>4, <1>5, <1>6, QuietContinue

\* ... or the one runVirtualMachineExport decides on, with more conditions and
\* more disks.
LEMMA QuietExport ==
    ASSUME DataInv, TypeOK', UNCHANGED <<server, vm, images>>, power = "off" => power' = "off",
           pc \in {"export", "exporting"},
           NEW obj \in Import, ExportUpdate(obj),
           obj.phase = w.phase, obj.status = w.status, Fits(obj, images, imp.phase),
           "PoweredOff" \in obj.conds => SeenOff \/ power' = "off"
    PROVE  DataInv'
<1>1. w.status = "SourceReady"
  BY DEF DataInv, WorkerOK, CopyAt, StepStatus
<1>2. PICK s \in {"SourceReady", "MigrationFailed", "DisksExported"} :
          Update([obj EXCEPT !.status = s])
  BY <1>1 DEF ExportUpdate
<1> DEFINE o == [obj EXCEPT !.status = s]
<1>3. /\ o \in Import /\ o.status = s /\ o.disks = obj.disks /\ o.conds = obj.conds
      /\ o.phase = w.phase
  <2>1. s \in Statuses
    BY DEF Statuses
  <2>2. o \in Import
    BY <2>1, WithType
  <2>3. o.status = s /\ o.disks = obj.disks /\ o.conds = obj.conds /\ o.phase = obj.phase
    BY DEF Import
  <2> QED  BY <2>2, <2>3
<1>4. Fits(o, images, imp.phase)
  BY <1>3 DEF Fits
<1>5. CopyAt("update", o)
  <2>1. StatusOK(o)
    BY <1>3 DEF StatusOK, Built
  <2>2. "update" \in UpdateSteps /\ "update" \notin DOMAIN StepStatus /\ pc \notin UpdateSteps
    BY DEF UpdateSteps, StepStatus
  <2>3. wfresh => UpToDate(pc, w, imp)
    BY DEF DataInv, WorkerOK, CopyAt
  <2>4. wfresh => UpToDate("update", o, imp)
    BY <1>1, <1>3, <2>2, <2>3 DEF UpToDate, Terminal, Settled, Built
  <2> QED  BY <2>1, <2>2, <2>4 DEF CopyAt
<1>6. Evolve(images, images', imp.phase)
  BY NothingEvolves
<1>7. Continue("update", o, 0)
  BY <1>2 DEF Update
<1> QED  BY <1>3, <1>4, <1>5, <1>6, <1>7, QuietContinue

-----------------------------------------------------------------------------
(***************************************************************************)
(* The steps of a reconcile                                                *)
(***************************************************************************)
\* What a step may take from the invariant about the copy it works on.
LEMMA CopyFacts ==
    ASSUME DataInv, pc \in DOMAIN StepStatus
    PROVE  /\ w \in Import /\ imp \in Import /\ cache \in Import
           /\ w.status \in StepStatus[pc] /\ StatusOK(w) /\ Agrees(w, imp)
           /\ Fits(w, images, imp.phase)
           /\ wfresh => UpToDate(pc, w, imp)
<1>1. pc \notin UpdateSteps
  BY DEF StepStatus, UpdateSteps
<1> QED  BY <1>1 DEF DataInv, TypeOK, WorkerOK, CopyAt

LEMMA ReconcileInv == ASSUME DataInv, TypeOK', Reconcile PROVE DataInv'
<1>1. UNCHANGED <<server, target, world>>
  BY DEF Reconcile
<1>2. ServerOK' /\ VMOK'
  BY <1>1, NothingEvolves, ServerStays, VMStays DEF server, target
<1>3. CASE UNCHANGED <<pc, w, wfresh, k>>
  <2>1. WorkerOK'
    BY <1>1, <1>3 DEF DataInv, WorkerOK, CopyAt, server, target
  <2>2. PowerOK'
    BY <1>1, <1>3, PowerStays DEF SeenOff, server, world
  <2> QED  BY <1>2, <2>1, <2>2 DEF DataInv
<1>4. CASE /\ cache.phase = "deleting" \/ cache.status # "ImportInvalid"
           /\ pc' = IF cache.phase = "deleting" THEN "remove" ELSE Branch[cache.status]
           /\ w' = cache /\ wfresh' = fresh
  <2>1. cache \in Import
    BY DEF DataInv, TypeOK
  <2>2. \A s \in Statuses \ {"ImportInvalid"} :
            /\ Branch[s] \notin UpdateSteps /\ Branch[s] # "exporting"
            /\ Branch[s] \in DOMAIN StepStatus => s \in StepStatus[Branch[s]]
    <3>1. \A s \in Statuses \ {"ImportInvalid"} :
              Branch[s] \notin UpdateSteps /\ Branch[s] # "exporting"
      BY DEF Branch, Statuses, UpdateSteps
    <3>2. \A s \in Statuses \ {"ImportInvalid"} :
              Branch[s] \in DOMAIN StepStatus => s \in StepStatus[Branch[s]]
      BY DEF Branch, Statuses, StepStatus
    <3> QED  BY <3>1, <3>2
  <2>3. /\ pc' \notin UpdateSteps /\ pc' # "exporting"
        /\ pc' \in DOMAIN StepStatus => cache.status \in StepStatus[pc']
    BY <1>4, <2>1, <2>2 DEF Import, UpdateSteps, StepStatus
  <2>4. WorkerOK'
    BY <1>1, <1>4, <2>3 DEF DataInv, ServerOK, WorkerOK, CopyAt, UpToDate, server, target
  <2>5. PowerOK'
    BY <1>1, <1>4, <2>3, PowerStays DEF SeenOff, server, world
  <2> QED  BY <1>2, <2>4, <2>5 DEF DataInv
<1>5. cache.phase \in {"live", "deleting", "gone"}
  BY DEF DataInv, TypeOK, Import
<1> QED  BY <1>3, <1>4, <1>5 DEF Reconcile

LEMMA UpdateStatusInv == ASSUME DataInv, TypeOK', UpdateStatus PROVE DataInv'
<1>1. UNCHANGED <<target, world>> /\ pc \in UpdateSteps
  BY DEF UpdateStatus, UpdateSteps
<1>2. PICK err : Return(err)
  BY Zenon DEF UpdateStatus
<1>3. CASE UNCHANGED server
  BY <1>1, <1>2, <1>3, NothingEvolves, QuietReturn DEF target, world
<1>4. CASE wfresh /\ Write
  <2>1. imp' = w /\ (fresh' => fresh /\ w = imp) /\ cache' = cache /\ icache' = icache
    BY <1>4 DEF Write, DataInv, TypeOK
  <2>2. /\ w.phase = imp.phase
        /\ imp.status \in Settled => w.status \in Settled /\ w.disks = imp.disks
        /\ StatusOK(w) /\ Fits(w, images, imp.phase)
    BY <1>1, <1>4 DEF DataInv, WorkerOK, CopyAt, UpToDate
  <2>3. images' = images /\ vm' = vm /\ power' = power
    BY <1>1 DEF target, world
  <2>4. ServerOK'
    BY <2>1, <2>2, <2>3 DEF DataInv, ServerOK, Agrees, ImageCacheOK
  <2>5. pc' = "idle" /\ w' = NewImport /\ wfresh' = FALSE
    BY <1>2, Zenon DEF Return
  <2>6. WorkerOK' /\ w'.conds = {}
    BY <2>5, IdleOK
  <2>7. VMOK'
    BY <2>1, <2>2, <2>3 DEF DataInv, VMOK
  <2>8. PowerOK'
    BY <2>1, <2>3, <2>5, <2>6, PowerStays DEF SeenOff
  <2> QED  BY <2>4, <2>6, <2>7, <2>8 DEF DataInv
<1> QED  BY <1>3, <1>4 DEF UpdateStatus

\* The steps that only decide the next status.
LEMMA StatusStepInv ==
    ASSUME DataInv, TypeOK',
           reconcilePreFlightChecks \/ abortMigration \/ reconcileDiskImageStatus
               \/ triggerResubmit \/ reconcileVirtualMachineStatus
    PROVE  DataInv'
<1> USE DEF StepStatus
<1>1. /\ pc \in DOMAIN StepStatus /\ pc \notin {"poll", "pvc"}
      /\ UNCHANGED <<server, vm, images, power>> /\ UNCHANGED <<server, vm>>
      /\ power = "off" => power' = "off"
  BY DEF reconcilePreFlightChecks, abortMigration, reconcileDiskImageStatus, triggerResubmit,
         reconcileVirtualMachineStatus, target, world
<1>2. Evolve(images, images', imp.phase)
  BY <1>1, NothingEvolves
<1>3. /\ w \in Import /\ w.status \in StepStatus[pc] /\ StatusOK(w)
  BY <1>1, CopyFacts
<1>4. \A s \in Statuses : /\ WithStatus(s).status = s /\ WithStatus(s).disks = w.disks
  BY <1>3 DEF WithStatus, Import
<1>5. ASSUME NEW s \in Statuses, Update(WithStatus(s)), w.status \notin Terminal,
             w.status \in Settled => s \in Settled /\ pc \notin {"submit", "poll", "resubmit"},
             StatusOK(WithStatus(s))
      PROVE  DataInv'
  <2>1. Continue("update", WithStatus(s), 0) /\ "update" \in UpdateSteps
    BY <1>5 DEF Update, UpdateSteps
  <2> QED  BY <1>1, <1>2, <1>5, <2>1, QuietUpdate
<1>6. \A err : Return(err) \/ ReturnAfter(err) => DataInv'
  BY <1>1, <1>2, QuietReturn
<1>7. CASE reconcilePreFlightChecks
  <2>1. \A s \in {"ImportValid", "ImportInvalid"} : s \in Statuses /\ StatusOK(WithStatus(s))
    BY <1>4 DEF StatusOK, Statuses, Built
  <2>2. w.status = "New"
    BY <1>3, <1>7 DEF reconcilePreFlightChecks
  <2> QED  BY <1>5, <1>6, <1>7, <2>1, <2>2 DEF reconcilePreFlightChecks, Terminal, Settled, Built
<1>8. CASE abortMigration
  <2>1. "MigrationFailed" \in Statuses /\ StatusOK(WithStatus("MigrationFailed"))
    BY <1>4 DEF StatusOK, Statuses, Built
  <2>2. w.status \in {"SourceReady", "DiskImagesReady"} /\ pc \notin {"submit", "poll", "resubmit"}
    BY <1>3, <1>8 DEF abortMigration
  <2> QED  BY <1>5, <1>8, <2>1, <2>2 DEF abortMigration, Terminal, Settled, Built
<1>9. CASE reconcileDiskImageStatus
  <2>1. w.status = "DisksExported"
    BY <1>3, <1>9 DEF reconcileDiskImageStatus
  <2>2. /\ "ImportInvalid" \in Statuses /\ "DiskImagesSubmitted" \in Statuses
        /\ StatusOK(WithStatus("ImportInvalid"))
    BY <1>4 DEF StatusOK, Statuses, Built
  <2>3. w.disks # <<>> => StatusOK(WithStatus("DiskImagesSubmitted"))
    <3>1. \A j \in DOMAIN w.disks : w.disks[j].conds # {}
      BY <1>9 DEF reconcileDiskImageStatus, Unsubmitted
    <3> QED  BY <1>4, <2>2, <3>1 DEF StatusOK, Built
  <2>4. \/ w.disks = <<>> /\ Update(WithStatus("ImportInvalid"))
        \/ w.disks # <<>> /\ Update(WithStatus("DiskImagesSubmitted"))
    BY <1>9 DEF reconcileDiskImageStatus
  <2> QED  BY <1>5, <2>1, <2>2, <2>3, <2>4 DEF Terminal, Settled, Built
<1>10. CASE triggerResubmit
  <2>1. "SourceReady" \in Statuses /\ StatusOK(WithStatus("SourceReady"))
    BY <1>4 DEF StatusOK, Statuses, Built
  <2>2. w.status = "DiskImagesFailed"
    BY <1>3, <1>10 DEF triggerResubmit
  <2> QED  BY <1>5, <1>10, <2>1, <2>2 DEF triggerResubmit, Terminal, Settled, Built
<1>11. CASE reconcileVirtualMachineStatus
  <2>1. w.status = "VMCreated" /\ pc = "check"
    BY <1>3, <1>11 DEF reconcileVirtualMachineStatus
  <2>2. "VMRunning" \in Statuses /\ StatusOK(WithStatus("VMRunning"))
    BY <1>3, <1>4, <2>1 DEF StatusOK, Statuses, Built
  <2> QED  BY <1>5, <1>6, <1>11, <2>1, <2>2
           DEF reconcileVirtualMachineStatus, Terminal, Settled, Built
<1> QED  BY <1>7, <1>8, <1>9, <1>10, <1>11

\* A restart lists the caches anew.
LEMMA RestartInv == ASSUME DataInv, TypeOK', Restart PROVE DataInv'
<1>1. /\ pc' = "idle" /\ w' = NewImport /\ wfresh' = FALSE
      /\ cache' = imp /\ imp' = imp /\ icache' = images /\ images' = images
      /\ vm' = vm /\ power' = power
  BY DEF Restart, target
<1>2. WorkerOK' /\ w'.conds = {}
  BY <1>1, IdleOK
<1>3. ServerOK'
  <2>1. StatusOK(imp) /\ Fits(imp, images, imp.phase)
    BY DEF DataInv, ServerOK
  <2>2. StatusOK(imp') /\ Fits(imp', images', imp'.phase)
    BY <1>1, <2>1
  <2>3. Agrees(cache', imp')
    BY <1>1 DEF Agrees, Settled
  <2>4. ImageCacheOK'
    BY <1>1 DEF ImageCacheOK, Exists
  <2> QED  BY <1>1, <2>2, <2>3, <2>4 DEF ServerOK
<1>4. PowerOK'
  BY <1>1, <1>2, PowerStays DEF SeenOff
<1> QED  BY <1>1, <1>2, <1>3, <1>4, VMStays DEF DataInv

LEMMA SanitizeInv == ASSUME DataInv, TypeOK', sanitizeVirtualMachineImport PROVE DataInv'
<1>1. CASE Restart
  BY <1>1, RestartInv
<1>2. CASE /\ \E s \in {"SourceReady", "ImportInvalid"} : Update(WithStatus(s))
           /\ UNCHANGED <<server, target, world>>
  <2>1. PICK s \in {"SourceReady", "ImportInvalid"} : Update(WithStatus(s))
    BY <1>2
  <2>2. pc = "sanitize" /\ pc \in DOMAIN StepStatus
    BY DEF sanitizeVirtualMachineImport, StepStatus
  <2>3. w \in Import /\ w.status = "ImportValid"
    BY <2>2, CopyFacts DEF StepStatus
  <2>4. s \in Statuses /\ StatusOK(WithStatus(s))
    <3>1. WithStatus(s).status = s
      BY <2>3 DEF WithStatus, Import
    <3> QED  BY <3>1 DEF StatusOK, Built, Statuses
  <2>5. Continue("update", WithStatus(s), 0) /\ "update" \in UpdateSteps
    BY <2>1 DEF Update, UpdateSteps
  <2>6. UNCHANGED <<server, vm>> /\ images' = images /\ power' = power
    BY <1>2 DEF target, world
  <2> QED  BY <2>2, <2>3, <2>4, <2>5, <2>6, NothingEvolves, QuietUpdate
           DEF Terminal, Settled, Built
<1> QED  BY <1>1, <1>2 DEF sanitizeVirtualMachineImport

-----------------------------------------------------------------------------
\* The reconcile goes on with the copy it has.
LEMMA QuietSame ==
    ASSUME DataInv, TypeOK', UNCHANGED server, vm' = vm \/ VMOK', power = "off" => power' = "off",
           Evolve(images, images', imp.phase),
           NEW p, NEW n, Continue(p, w, n), CopyAt(p, w), p = "exporting" => SeenOff
    PROVE  DataInv'
<1>1. w \in Import /\ Fits(w, images, imp.phase)
  BY DEF DataInv, TypeOK, WorkerOK
<1>2. Fits(w, images', imp.phase)
  BY <1>1, FitsStays
<1>3. "PoweredOff" \in w.conds \/ p = "exporting" => SeenOff \/ power' = "off"
  BY DEF SeenOff
<1> QED  BY <1>1, <1>2, <1>3, QuietContinue

\* The copy fits at the step after pc as well.
LEMMA CopyMoves ==
    ASSUME DataInv, pc \notin UpdateSteps, NEW p,
           \/ p = pc
           \/ pc = "export" /\ p = "exporting"
           \/ pc = "build" /\ p = "pvc"
           \/ pc = "tidy" /\ p = "cleanup"
           \/ pc = "remove" /\ p = "finalize"
           \/ pc \in {"export", "submit"} /\ p \in UpdateSteps
    PROVE  CopyAt(p, w)
<1>1. /\ StatusOK(w) /\ Agrees(w, imp)
      /\ wfresh => UpToDate(pc, w, imp)
      /\ pc \in DOMAIN StepStatus => w.status \in StepStatus[pc]
  BY DEF DataInv, WorkerOK, CopyAt
<1>2. p \in DOMAIN StepStatus => w.status \in StepStatus[p]
  BY <1>1 DEF StepStatus, UpdateSteps
<1>3. ASSUME wfresh PROVE UpToDate(p, w, imp)
  <2>1. UpToDate(pc, w, imp)
    BY <1>1, <1>3
  <2>2. CASE p \in UpdateSteps
    <3>1. p # pc /\ p \notin {"exporting", "pvc", "cleanup", "finalize"}
      BY <2>2 DEF UpdateSteps
    <3>2. pc \in {"export", "submit"}
      BY <3>1
    <3>3. w.status \in {"SourceReady", "DisksExported"}
      BY <1>1, <3>2 DEF StepStatus
    <3> QED  BY <2>1, <2>2, <3>3 DEF UpToDate, Terminal, Settled, Built
  <2>3. CASE p \notin UpdateSteps
    BY <2>1, <2>3 DEF UpToDate
  <2> QED  BY <2>2, <2>3
<1> QED  BY <1>1, <1>2, <1>3, Zenon DEF CopyAt

\* A loop over the disks has changed one of them.
LEMMA QuietDisk ==
    ASSUME DataInv, TypeOK', UNCHANGED server, vm' = vm \/ VMOK', power = "off" => power' = "off",
           Evolve(images, images', imp.phase), pc \in {"submit", "poll", "resubmit"},
           NEW j \in DOMAIN w.disks, NEW d \in DiskInfo, NEW n, Continue(pc, WithDisk(j, d), n),
           DiskFits(d, j, images', imp.phase), d.conds # {}
    PROVE  DataInv'
<1> DEFINE o == WithDisk(j, d)
<1>1. pc \in DOMAIN StepStatus /\ pc # "exporting" /\ pc \notin UpdateSteps
  BY DEF StepStatus, UpdateSteps
<1>2. /\ w \in Import /\ w.status \in StepStatus[pc] /\ StatusOK(w)
      /\ Fits(w, images, imp.phase)
      /\ wfresh => UpToDate(pc, w, imp)
  BY <1>1, CopyFacts
<1>3. /\ o \in Import /\ o.disks = [w.disks EXCEPT ![j] = d] /\ DOMAIN o.disks = DOMAIN w.disks
  BY <1>2, DiskType DEF WithDisk
<1>4. /\ o.status = w.status /\ o.conds = w.conds /\ o.phase = w.phase
  BY <1>2 DEF WithDisk, Import
<1>5. \A i \in DOMAIN o.disks : o.disks[i] = IF i = j THEN d ELSE w.disks[i]
  BY <1>3
<1>6. Fits(o, images', imp.phase)
  <2>1. Fits(w, images', imp.phase)
    BY <1>2, FitsStays
  <2>2. \A i \in DOMAIN w.disks : DiskFits(w.disks[i], i, images', imp.phase)
    BY <2>1 DEF Fits
  <2> QED  BY <1>3, <1>5, <2>2 DEF Fits
<1>7. o.status \notin Built /\ StatusOK(o)
  <2>1. o.status \notin Built
    BY <1>2, <1>4 DEF StepStatus, Built
  <2>2. o.disks # <<>>
    BY <1>3
  <2>3. (\A i \in DOMAIN w.disks : w.disks[i].conds # {})
          => \A i \in DOMAIN o.disks : o.disks[i].conds # {}
    BY <1>3, <1>5
  <2> QED  BY <1>2, <1>4, <2>1, <2>2, <2>3 DEF StatusOK
<1>8. CopyAt(pc, o)
  <2>1. UpToDate(pc, w, imp) => UpToDate(pc, o, imp)
    BY <1>1, <1>4 DEF UpToDate
  <2>2. Agrees(o, imp)
    BY <1>7 DEF Agrees
  <2>3. o.status \in StepStatus[pc]
    BY <1>2, <1>4
  <2> QED  BY <1>2, <1>7, <2>1, <2>2, <2>3, Zenon DEF CopyAt
<1>9. "PoweredOff" \in o.conds \/ pc = "exporting" => SeenOff \/ power' = "off"
  BY <1>1, <1>4 DEF SeenOff
<1> HIDE DEF o
<1>10. Continue(pc, o, n)
  BY DEF o
<1> QED  BY <1>3, <1>6, <1>8, <1>9, <1>10, QuietContinue

-----------------------------------------------------------------------------
\* SourceReady: the source VM is stopped and exported.
LEMMA ExportInv ==
    ASSUME DataInv, TypeOK',
           triggerStop \/ seesPoweredOff \/ powerOffAfterTimeout \/ waitForPowerOff
               \/ triggerExport \/ exportSucceeds \/ exportFails
    PROVE  DataInv'
<1>1. pc \in {"export", "exporting"} /\ pc \in DOMAIN StepStatus /\ pc \notin UpdateSteps
  BY DEF triggerStop, seesPoweredOff, powerOffAfterTimeout, waitForPowerOff, WaitPoweredOff,
         triggerExport, exportSucceeds, exportFails, StepStatus, UpdateSteps
<1>2. UNCHANGED <<server, vm, images>> /\ UNCHANGED server /\ vm' = vm /\ images' = images
  BY DEF triggerStop, seesPoweredOff, powerOffAfterTimeout, waitForPowerOff, RequestStop,
         triggerExport, exportSucceeds, exportFails, target
<1>3. power = "off" => power' = "off"
  BY DEF triggerStop, seesPoweredOff, powerOffAfterTimeout, waitForPowerOff, RequestStop,
         powerAfter, triggerExport, exportSucceeds, exportFails, world
<1>4. w \in Import /\ Fits(w, images, imp.phase)
  BY <1>1, CopyFacts
<1>5. \A err : Return(err) => DataInv'
  BY <1>2, <1>3, NothingEvolves, QuietReturn
<1>6. ASSUME NEW cs \in SUBSET ImportConds, "PoweredOff" \in cs => power' = "off",
             ExportUpdate(WithConds(cs))
      PROVE  DataInv'
  <2>1. /\ WithConds(cs) \in Import /\ WithConds(cs).conds = w.conds \cup cs
        /\ WithConds(cs).status = w.status /\ WithConds(cs).phase = w.phase
        /\ WithConds(cs).disks = w.disks
    BY <1>4, WithType DEF WithConds, Import
  <2>2. Fits(WithConds(cs), images, imp.phase)
    BY <1>4, <2>1 DEF Fits
  <2>3. "PoweredOff" \in WithConds(cs).conds => SeenOff \/ power' = "off"
    BY <1>6, <2>1 DEF SeenOff
  <2> QED  BY <1>1, <1>2, <1>3, <1>6, <2>1, <2>2, <2>3, QuietExport
<1>7. CASE triggerStop \/ powerOffAfterTimeout
  <2>1. PICK request \in {"PoweringOff", "ShutdownGuest"} : RequestStop(request)
    BY <1>7 DEF triggerStop, powerOffAfterTimeout
  <2>2. {request} \in SUBSET ImportConds /\ "PoweredOff" \notin {request}
    BY DEF ImportConds
  <2> QED  BY <1>5, <1>6, <2>1, <2>2 DEF RequestStop
<1>8. CASE seesPoweredOff
  <2>1. power' = "off" /\ ExportUpdate(WithConds({"PoweredOff"}))
    BY <1>8 DEF seesPoweredOff, world
  <2> QED  BY <1>6, <2>1 DEF ImportConds
<1>9. CASE waitForPowerOff
  <2>1. /\ pc = "export" /\ pc' = "update" /\ w' = w /\ wfresh' = wfresh /\ power' = power
        /\ imp' = imp /\ cache' = cache
    BY <1>9 DEF waitForPowerOff, WaitPoweredOff, world, server
  <2>2. CopyAt("update", w)
    BY <1>1, <2>1, CopyMoves DEF UpdateSteps
  <2>3. WorkerOK'
    BY <1>2, <1>4, <2>1, <2>2 DEF WorkerOK, CopyAt
  <2>4. PowerOK'
    BY <2>1, PowerStays DEF SeenOff
  <2> QED  BY <1>2, <2>1, <2>3, <2>4, NothingEvolves, ServerStays, VMStays DEF DataInv
<1>10. CASE triggerExport
  <2>1. "PoweredOff" \in w.conds /\ pc = "export"
    BY <1>10 DEF triggerExport
  <2>2. CASE Continue("exporting", w, 0)
    <3>1. CopyAt("exporting", w)
      BY <1>1, <2>1, CopyMoves
    <3> QED  BY <1>2, <1>3, <2>1, <2>2, <3>1, NothingEvolves, QuietSame DEF SeenOff
  <2>3. CASE ExportUpdate(w)
    BY <1>1, <1>2, <1>3, <1>4, <2>3, QuietExport DEF SeenOff
  <2> QED  BY <1>10, <2>2, <2>3 DEF triggerExport
<1>11. CASE exportSucceeds \/ exportFails
  <2>1. PICK n \in Nat, c \in {"Exported", "ExportFailed"} :
            ExportUpdate([WithConds({c}) EXCEPT !.disks = @ \o ExportedDisks(n)])
    <3>1. 0..MaxDisks \subseteq Nat
      BY BoundsAssumption
    <3> QED  BY <1>11, <3>1 DEF exportSucceeds, exportFails
  <2> DEFINE o == [WithConds({c}) EXCEPT !.disks = @ \o ExportedDisks(n)]
  <2>2. /\ WithConds({c}) \in Import /\ WithConds({c}).conds = w.conds \cup {c}
        /\ WithConds({c}).status = w.status /\ WithConds({c}).phase = w.phase
        /\ WithConds({c}).disks = w.disks
    <3>1. {c} \in SUBSET ImportConds
      BY DEF ImportConds
    <3> QED  BY <1>4, <3>1, WithType DEF WithConds, Import
  <2>3. /\ o \in Import /\ o.conds = w.conds \cup {c} /\ o.status = w.status
        /\ o.phase = w.phase /\ o.disks = w.disks \o ExportedDisks(n)
    <3>1. o \in Import
      BY <2>2, DisksType, WithType
    <3> QED  BY <2>2, <3>1 DEF Import
  <2>4. Fits(o, images, imp.phase)
    <3>1. w.disks \in Seq(DiskInfo) /\ ExportedDisks(n) \in Seq(DiskInfo)
      BY <1>4, DisksType DEF Import
    <3>2. \A j \in DOMAIN o.disks :
              \/ j \in DOMAIN w.disks /\ o.disks[j] = w.disks[j]
              \/ o.disks[j].conds = {}
      <4>1. \A j \in DOMAIN ExportedDisks(n) : ExportedDisks(n)[j].conds = {}
        BY DEF ExportedDisks
      <4> HIDE DEF o
      <4> QED  BY <2>3, <3>1, <4>1
    <3> HIDE DEF o
    <3> QED  BY <1>4, <3>2 DEF Fits, DiskFits
  <2>5. "PoweredOff" \in o.conds => SeenOff
    BY <2>3 DEF SeenOff
  <2> HIDE DEF o
  <2>6. ExportUpdate(o)
    BY <2>1 DEF o
  <2> QED  BY <1>1, <1>2, <1>3, <2>3, <2>4, <2>5, <2>6, QuietExport
<1> QED  BY <1>7, <1>8, <1>9, <1>10, <1>11

\* DisksExported: an image is found or created for each disk.
LEMMA SubmitInv ==
    ASSUME DataInv, TypeOK', NEW j \in First(Unsubmitted),
           findVirtualMachineImage(j) \/ createVirtualMachineImage(j)
    PROVE  DataInv'
<1>1. /\ pc = "submit" /\ pc \in DOMAIN StepStatus /\ pc \notin UpdateSteps
      /\ UNCHANGED server /\ vm' = vm /\ power' = power
  BY DEF findVirtualMachineImage, createVirtualMachineImage, StepStatus, UpdateSteps, target, world
<1>2. w \in Import /\ Fits(w, images, imp.phase)
  BY <1>1, CopyFacts
<1>3. j \in DOMAIN w.disks /\ w.disks[j].conds = {}
  <2>1. j \in DOMAIN w.disks /\ "Submitted" \notin w.disks[j].conds
    BY DEF First, Unsubmitted
  <2> QED  BY <1>2, <2>1 DEF Fits, DiskFits
<1>4. Evolve(images, images', imp.phase)
  <2>1. CASE images' = images
    BY <2>1, NothingEvolves
  <2>2. CASE \E i \in FreshImages : images' = [images EXCEPT ![i] =
                    [st |-> "importing", disk |-> j, owned |-> TRUE]]
    BY <2>2 DEF FreshImages, Evolve, DataInv, TypeOK
  <2> QED  BY <2>1, <2>2 DEF findVirtualMachineImage, createVirtualMachineImage, target
<1>5. SubmitError => DataInv'
  <2>1. CopyAt("updateErr", w)
    BY <1>1, CopyMoves DEF UpdateSteps
  <2>2. Continue("updateErr", w, 0) => DataInv'
    BY <1>1, <1>4, <2>1, QuietSame
  <2>3. Return(TRUE) => DataInv'
    BY <1>1, <1>4, QuietReturn
  <2> QED  BY <2>2, <2>3 DEF SubmitError
<1>6. ASSUME NEW i \in Image, images'[i].st # "none", images'[i].disk = j, Attach(j, i)
      PROVE  DataInv'
  <2> DEFINE d == [image |-> i, conds |-> {"Submitted"}]
  <2>1. d \in DiskInfo /\ DiskFits(d, j, images', imp.phase)
    BY <1>6 DEF DiskInfo, DiskConds, DiskFits
  <2>2. Continue(pc, WithDisk(j, d), j)
    BY <1>1, <1>3, <1>6 DEF Attach
  <2>3. d.conds # {}
    OBVIOUS
  <2> HIDE DEF d
  <2> QED  BY <1>1, <1>3, <1>4, <2>1, <2>2, <2>3, QuietDisk
<1>7. CASE findVirtualMachineImage(j)
  <2>1. images' = images
    BY <1>7 DEF findVirtualMachineImage, target
  <2>2. \A i \in Labelled(j) : i \in Image /\ images'[i].st # "none" /\ images'[i].disk = j
    BY <2>1 DEF Labelled, DataInv, ServerOK, ImageCacheOK
  <2> QED  BY <1>5, <1>6, <1>7, <2>2 DEF findVirtualMachineImage
<1>8. CASE createVirtualMachineImage(j)
  <2>1. ASSUME NEW i \in FreshImages, images' = [images EXCEPT ![i] =
                    [st |-> "importing", disk |-> j, owned |-> TRUE]], Attach(j, i)
        PROVE  DataInv'
    <3>1. i \in Image /\ images'[i].st # "none" /\ images'[i].disk = j
      BY <2>1 DEF FreshImages, DataInv, TypeOK
    <3> QED  BY <1>6, <2>1, <3>1
  <2> QED  BY <1>5, <1>8, <2>1 DEF createVirtualMachineImage
<1> QED  BY <1>7, <1>8

\* DiskImagesSubmitted: the images are looked at and judged.
LEMMA PollInv == ASSUME DataInv, TypeOK', reconcileVMIStatus \/ EvaluateDisks PROVE DataInv'
<1>1. /\ pc = "poll" /\ pc \in DOMAIN StepStatus /\ pc \notin UpdateSteps
      /\ UNCHANGED server /\ vm' = vm /\ images' = images /\ power' = power
  BY DEF reconcileVMIStatus, EvaluateDisks, StepStatus, UpdateSteps, target, world
<1>2. /\ w \in Import /\ Fits(w, images, imp.phase) /\ StatusOK(w)
      /\ w.status = "DiskImagesSubmitted"
  BY <1>1, CopyFacts DEF StepStatus
<1>3. Evolve(images, images', imp.phase)
  BY <1>1, NothingEvolves
<1>4. w.disks # <<>> /\ \A j \in DOMAIN w.disks : w.disks[j].conds # {}
  BY <1>2 DEF StatusOK
<1>5. \A err : Return(err) => DataInv'
  BY <1>1, <1>3, QuietReturn
<1>6. CASE reconcileVMIStatus
  <2> DEFINE j == k + 1
  <2>1. j \in DOMAIN w.disks
    BY <1>2, <1>6 DEF reconcileVMIStatus, Import, DataInv, TypeOK
  <2>2. CASE Continue("poll", w, j)
    BY <1>1, <1>3, <2>2, CopyMoves, QuietSame
  <2>3. CASE \E c \in {"Ready", "Failed"} :
                /\ HasImage(j) /\ ImageOf(j).st = IF c = "Ready" THEN "imported" ELSE "failed"
                /\ Continue("poll", SetDiskConds(j, w.disks[j].conds \cup {c}), j)
    <3>1. PICK c \in {"Ready", "Failed"} :
                /\ HasImage(j) /\ ImageOf(j).st = IF c = "Ready" THEN "imported" ELSE "failed"
                /\ Continue("poll", SetDiskConds(j, w.disks[j].conds \cup {c}), j)
      BY <2>3
    <3> HIDE DEF j
    <3> DEFINE d == [w.disks[j] EXCEPT !.conds = w.disks[j].conds \cup {c}]
    <3>2. w.disks[j] \in DiskInfo
      BY <1>2, <2>1 DEF Import
    <3>3. /\ d \in DiskInfo /\ d.image = w.disks[j].image
          /\ d.conds = w.disks[j].conds \cup {c} /\ d.conds # {}
      BY <3>2 DEF DiskInfo, DiskConds
    <3>4. DiskFits(w.disks[j], j, images, imp.phase)
      BY <1>2, <2>1 DEF Fits
    <3>5. DiskFits(d, j, images', imp.phase)
      BY <1>1, <1>4, <2>1, <3>1, <3>3, <3>4 DEF DiskFits, ImageOf
    <3>6. Continue(pc, WithDisk(j, d), j)
      BY <1>1, <3>1 DEF SetDiskConds
    <3> HIDE DEF d
    <3> QED  BY <1>1, <1>3, <2>1, <3>3, <3>5, <3>6, QuietDisk
  <2>4. HasImage(j) => ImageOf(j).st \in {"importing", "imported", "failed"}
    BY DEF HasImage, ImageOf, Exists, DataInv, TypeOK, ImageObject, ImageState
  <2> QED  BY <1>5, <1>6, <2>2, <2>3, <2>4 DEF reconcileVMIStatus
<1>7. CASE EvaluateDisks
  <2> DEFINE s == evaluateDiskImportStatus(w.disks)
  <2>1. s \in {"none", "DiskImagesReady", "DiskImagesFailed"}
    BY DEF evaluateDiskImportStatus
  <2>2. s = "DiskImagesReady" => \A j \in DOMAIN w.disks : "Ready" \in w.disks[j].conds
    <3>1. DOMAIN w.disks = 1..Len(w.disks)
      BY <1>2 DEF Import
    <3> QED  BY <3>1 DEF evaluateDiskImportStatus
  <2> HIDE DEF s
  <2>3. CASE s = "none"
    BY <1>5, <1>7, <2>3 DEF EvaluateDisks, s
  <2>4. CASE s # "none"
    <3>1. Continue("update", WithStatus(s), 0) /\ "update" \in UpdateSteps
      BY <1>7, <2>4 DEF EvaluateDisks, Update, s, UpdateSteps
    <3>2. WithStatus(s).status = s /\ WithStatus(s).disks = w.disks
      BY <1>2 DEF WithStatus, Import
    <3>3. StatusOK(WithStatus(s))
      BY <1>4, <2>1, <2>2, <2>4, <3>2 DEF StatusOK, Built
    <3>4. s \in Statuses /\ w.status \notin Terminal /\ w.status \notin Settled
      BY <1>2, <2>1, <2>4 DEF Statuses, Terminal, Settled, Built
    <3> QED  BY <1>1, <1>3, <3>1, <3>3, <3>4, QuietUpdate
  <2> QED  BY <2>3, <2>4
<1> QED  BY <1>6, <1>7

\* DiskImagesFailed: the failed images are deleted.
LEMMA CleanupFailedInv ==
    ASSUME DataInv, TypeOK', NEW j \in First(FailedDisks), cleanupAndResubmit(j)
    PROVE  DataInv'
<1>1. /\ pc = "resubmit" /\ pc \in DOMAIN StepStatus /\ pc \notin UpdateSteps
      /\ UNCHANGED server /\ vm' = vm /\ power' = power
  BY DEF cleanupAndResubmit, StepStatus, UpdateSteps, world
<1>2. w \in Import /\ Fits(w, images, imp.phase) /\ images \in [Image -> ImageObject]
  BY <1>1, CopyFacts DEF DataInv, TypeOK
<1>3. j \in DOMAIN w.disks /\ "Failed" \in w.disks[j].conds
  BY DEF First, FailedDisks
<1>4. DiskFits(w.disks[j], j, images, imp.phase)
  BY <1>2, <1>3 DEF Fits
<1>5. CASE ~HasImage(j)
  BY <1>1, <1>5, NothingEvolves, QuietReturn DEF cleanupAndResubmit
<1>6. CASE HasImage(j)
  <2> DEFINE i == w.disks[j].image
             d == [w.disks[j] EXCEPT !.conds = w.disks[j].conds \ {"Failed"}]
  <2>1. /\ i \in Image /\ images[i].st = "failed" /\ images[i].disk = j
        /\ images' = [images EXCEPT ![i].st = "gone"]
    BY <1>3, <1>4, <1>6 DEF DiskFits, HasImage, ImageOf, Exists, cleanupAndResubmit
  <2>2. Evolve(images, images', imp.phase) /\ images'[i].st = "gone"
    <3> HIDE DEF i
    <3>1. Evolve(images, images', imp.phase)
      BY <1>2, <2>1, SetStateEvolves
    <3>2. [images EXCEPT ![i].st = "gone"][i].st = "gone"
      BY <1>2, <2>1 DEF ImageObject
    <3> QED  BY <2>1, <3>1, <3>2
  <2>3. CASE Return(TRUE)
    BY <1>1, <2>2, <2>3, QuietReturn
  <2>4. CASE Continue("resubmit", SetDiskConds(j, w.disks[j].conds \ {"Failed"}), j)
    <3>1. w.disks[j] \in DiskInfo
      BY <1>2, <1>3 DEF Import
    <3>2. /\ d \in DiskInfo /\ d.image = i /\ d.conds = w.disks[j].conds \ {"Failed"}
          /\ "Submitted" \in d.conds /\ d.conds # {}
      BY <1>3, <1>4, <3>1 DEF DiskInfo, DiskFits
    <3>3. images'[i].disk = j
      <4> HIDE DEF i
      <4> QED  BY <2>1, <2>2 DEF Evolve
    <3>4. DiskFits(d, j, images', imp.phase)
      BY <1>4, <2>1, <2>2, <3>2, <3>3 DEF DiskFits
    <3>5. Continue(pc, WithDisk(j, d), j)
      BY <1>1, <2>4 DEF SetDiskConds
    <3> HIDE DEF d, i
    <3> QED  BY <1>1, <1>3, <2>2, <3>2, <3>4, <3>5, QuietDisk
  <2> QED  BY <1>6, <2>3, <2>4 DEF cleanupAndResubmit
<1> QED  BY <1>5, <1>6

\* DiskImagesReady: the VM is built of the disks the import has.
LEMMA BuildInv ==
    ASSUME DataInv, TypeOK', createVirtualMachine \/ findAndCreatePVC \/ ensureVM
    PROVE  DataInv'
<1>1. /\ pc \in {"build", "pvc"} /\ pc \in DOMAIN StepStatus /\ pc \notin UpdateSteps
      /\ UNCHANGED server /\ images' = images /\ power' = power
  BY DEF createVirtualMachine, findAndCreatePVC, ensureVM, StepStatus, UpdateSteps, target, world
<1>2. /\ w \in Import /\ Fits(w, images, imp.phase) /\ StatusOK(w) /\ Agrees(w, imp)
      /\ w.status = "DiskImagesReady"
  BY <1>1, CopyFacts DEF StepStatus
<1>3. VMOK'
  <2>1. /\ imp.status \in Settled /\ imp.disks = w.disks /\ w.disks # <<>>
        /\ \A j \in DOMAIN w.disks : "Ready" \in w.disks[j].conds
    BY <1>2 DEF Agrees, StatusOK, Built
  <2>2. imp' = imp
    BY <1>1 DEF server
  <2> QED  BY <2>1, <2>2 DEF VMOK
<1>4. Evolve(images, images', imp.phase)
  BY <1>1, NothingEvolves
<1>5. \A err : Return(err) => DataInv'
  BY <1>1, <1>3, <1>4, QuietReturn
<1>6. \A n : Continue("pvc", w, n) => DataInv'
  <2>1. CopyAt("pvc", w)
    BY <1>1, CopyMoves
  <2> QED  BY <1>1, <1>3, <1>4, <2>1, QuietSame
<1>7. Update(WithStatus("VMCreated")) => DataInv'
  <2> SUFFICES ASSUME Update(WithStatus("VMCreated")) PROVE DataInv'
    OBVIOUS
  <2>1. Continue("update", WithStatus("VMCreated"), 0) /\ "update" \in UpdateSteps
    BY DEF Update, UpdateSteps
  <2>2. WithStatus("VMCreated").status = "VMCreated" /\ WithStatus("VMCreated").disks = w.disks
    BY <1>2 DEF WithStatus, Import, Statuses
  <2>3. StatusOK(WithStatus("VMCreated"))
    BY <1>2, <2>2 DEF StatusOK, Built
  <2>4. /\ "VMCreated" \in Statuses /\ "VMCreated" \in Settled
        /\ pc \notin {"submit", "poll", "resubmit"} /\ w.status \notin Terminal
    BY <1>1, <1>2 DEF Statuses, Settled, Built, Terminal
  <2> QED  BY <1>1, <1>3, <1>4, <2>1, <2>3, <2>4, QuietUpdate
<1> QED  BY <1>5, <1>6, <1>7 DEF createVirtualMachine, findAndCreatePVC, ensureVM

\* VMRunning and MigrationFailed: images are disowned and files removed; a
\* removed import loses its finalizer.
LEMMA EndInv ==
    ASSUME DataInv, TypeOK', tidyUpObjects \/ triggerCleanup \/ OnVirtualMachineRemove
    PROVE  DataInv'
<1>1. /\ pc \in {"tidy", "cleanup", "remove"} /\ pc \notin UpdateSteps
      /\ UNCHANGED server /\ vm' = vm /\ power' = power
  BY DEF tidyUpObjects, triggerCleanup, OnVirtualMachineRemove, UpdateSteps, target, world
<1>2. Evolve(images, images', imp.phase)
  <2>1. images \in [Image -> ImageObject]
    BY DEF DataInv, TypeOK
  <2>2. images' = images \/ \E i \in Image : images' = [images EXCEPT ![i].owned = FALSE]
    BY DEF tidyUpObjects, triggerCleanup, OnVirtualMachineRemove, HasImage, target
  <2>3. \A i \in Image : Evolve(images, [images EXCEPT ![i].owned = FALSE], imp.phase)
    BY <2>1 DEF Evolve, ImageObject
  <2> QED  BY <2>2, <2>3, NothingEvolves
<1>3. \A err : Return(err) => DataInv'
  BY <1>1, <1>2, QuietReturn
<1>4. ASSUME NEW p \in {"tidy", "cleanup", "finalize"}, NEW n, Continue(p, w, n),
             \/ p = pc
             \/ pc = "tidy" /\ p = "cleanup"
             \/ pc = "remove" /\ p = "finalize"
      PROVE  DataInv'
  <2>1. CopyAt(p, w)
    BY <1>1, <1>4, CopyMoves
  <2>2. p # "exporting"
    OBVIOUS
  <2> QED  BY <1>1, <1>2, <1>4, <2>1, <2>2, QuietSame
<1>5. CASE tidyUpObjects
  BY <1>3, <1>4, <1>5 DEF tidyUpObjects
<1>6. CASE triggerCleanup
  BY <1>3, <1>6 DEF triggerCleanup, CleanupThen
<1>7. CASE OnVirtualMachineRemove
  BY <1>4, <1>7 DEF OnVirtualMachineRemove, CleanupThen
<1> QED  BY <1>5, <1>6, <1>7

\* The object leaves one phase for a later one and keeps its status.
LEMMA PhaseMoves ==
    ASSUME DataInv, NEW ph \in {"deleting", "gone"}, imp.phase = "gone" => ph = "gone",
           imp' = [imp EXCEPT !.phase = ph], fresh' = FALSE, cache' = cache, icache' = icache,
           images' = images, vm' = vm, power' = power
    PROVE  /\ imp'.status = imp.status /\ imp'.disks = imp.disks /\ imp'.conds = imp.conds
           /\ imp'.phase = ph
           /\ ServerOK' /\ VMOK'
           /\ \A o \in Import : Fits(o, images, imp.phase) => Fits(o, images', imp'.phase)
<1>1. imp \in Import /\ cache \in Import
  BY DEF DataInv, TypeOK
<1>2. /\ imp'.status = imp.status /\ imp'.disks = imp.disks /\ imp'.conds = imp.conds
      /\ imp'.phase = ph
  BY <1>1 DEF Import
<1>3. \A o \in Import : Fits(o, images, imp.phase) => Fits(o, images', imp'.phase)
  <2>1. Evolve(images, images', imp'.phase)
    BY NothingEvolves
  <2> QED  BY <1>2, <2>1, FitsStays
<1>4. StatusOK(imp') /\ Fits(imp', images', imp'.phase)
  BY <1>1, <1>2, <1>3 DEF DataInv, ServerOK, StatusOK, Fits
<1>5. Fits(cache', images', imp'.phase) /\ StatusOK(cache') /\ Agrees(cache', imp')
  BY <1>1, <1>2, <1>3 DEF DataInv, ServerOK, Agrees
<1>6. ImageCacheOK'
  BY DEF DataInv, ServerOK, ImageCacheOK
<1>7. VMOK'
  BY <1>2 DEF DataInv, VMOK
<1> QED  BY <1>2, <1>3, <1>4, <1>5, <1>6, <1>7 DEF ServerOK

LEMMA RemoveFinalizerInv == ASSUME DataInv, TypeOK', RemoveFinalizer PROVE DataInv'
<1>1. UNCHANGED <<target, world>> /\ images' = images /\ vm' = vm /\ power' = power
  BY DEF RemoveFinalizer, target, world
<1>2. CASE UNCHANGED server /\ Return(TRUE)
  BY <1>1, <1>2, NothingEvolves, QuietReturn
<1>3. CASE /\ imp' = [imp EXCEPT !.phase = "gone"] /\ fresh' = FALSE
           /\ Return(FALSE) /\ UNCHANGED <<conf, cache, icache>>
  <2>1. pc' = "idle" /\ w' = NewImport /\ wfresh' = FALSE
    BY <1>3, Zenon DEF Return
  <2>2. WorkerOK' /\ w'.conds = {}
    BY <2>1, IdleOK
  <2>3. imp'.conds = imp.conds /\ ServerOK' /\ VMOK'
    BY <1>1, <1>3, PhaseMoves
  <2>4. PowerOK'
    BY <1>1, <1>3, <2>1, <2>2, <2>3, PowerStays DEF SeenOff
  <2> QED  BY <2>2, <2>3, <2>4 DEF DataInv
<1> QED  BY <1>2, <1>3 DEF RemoveFinalizer

LEMMA WorkerInv == ASSUME DataInv, TypeOK', Worker PROVE DataInv'
<1>1. CASE RequestFails
  BY <1>1, NothingEvolves, QuietReturn DEF RequestFails, target, world
<1> QED  BY <1>1, ReconcileInv, UpdateStatusInv, StatusStepInv, SanitizeInv, ExportInv, SubmitInv,
            PollInv, CleanupFailedInv, BuildInv, EndInv, RemoveFinalizerInv DEF Worker

-----------------------------------------------------------------------------
(***************************************************************************)
(* The steps of the cluster and the users                                  *)
(***************************************************************************)
\* The worker does not move, and what its copy says stays true.
LEMMA WorkerStays ==
    ASSUME DataInv, imp' = imp, pc' = pc, w' = w, wfresh' = wfresh,
           Evolve(images, images', imp.phase)
    PROVE  WorkerOK'
<1>1. w \in Import /\ Fits(w, images, imp.phase) /\ CopyAt(pc, w)
  BY DEF DataInv, TypeOK, WorkerOK
<1>2. Fits(w', images', imp'.phase)
  BY <1>1, FitsStays
<1>3. CopyAt(pc, w)'
  BY <1>1 DEF CopyAt
<1> QED  BY <1>2, <1>3 DEF WorkerOK

\* Neither the object nor the caches nor the worker move.
LEMMA QuietWorld ==
    ASSUME DataInv, TypeOK', UNCHANGED <<server, worker>>, Evolve(images, images', imp.phase), VMOK',
           power = "off" => power' = "off" \/ "poweron" \in FaultKinds
    PROVE  DataInv'
<1>1. imp' = imp /\ cache' = cache /\ pc' = pc /\ w' = w /\ wfresh' = wfresh /\ UNCHANGED server
  BY DEF server, worker
<1>2. ServerOK' /\ WorkerOK'
  BY <1>1, ServerStays, WorkerStays
<1>3. PowerOK'
  BY <1>1, PowerStays DEF SeenOff
<1> QED  BY <1>2, <1>3 DEF DataInv

LEMMA EnvironmentInv == ASSUME DataInv, TypeOK', Environment PROVE DataInv'
<1>1. CASE WatchImport
  <2>1. /\ cache' = imp /\ imp' = imp /\ icache' = icache /\ pc' = pc /\ w' = w /\ wfresh' = wfresh
        /\ images' = images /\ vm' = vm /\ power' = power
    BY <1>1 DEF WatchImport, worker, target, world
  <2>2. StatusOK(imp') /\ Fits(imp', images', imp'.phase)
    BY <2>1 DEF DataInv, ServerOK
  <2>3. Agrees(cache', imp')
    BY <2>1 DEF Agrees, Settled
  <2>4. ImageCacheOK'
    BY <2>1 DEF DataInv, ServerOK, ImageCacheOK
  <2>5. ServerOK'
    BY <2>1, <2>2, <2>3, <2>4 DEF ServerOK
  <2>6. PowerOK'
    BY <2>1, PowerStays DEF SeenOff
  <2> QED  BY <2>1, <2>5, <2>6, NothingEvolves, WorkerStays, VMStays DEF DataInv
<1>2. CASE \E i \in Image : ReconcileVMI(i)
  <2>1. PICK i \in Image : icache' = [icache EXCEPT ![i] = images[i]]
    BY <1>2 DEF ReconcileVMI
  <2>2. /\ cache' = cache /\ imp' = imp /\ fresh' = fresh /\ pc' = pc /\ w' = w
        /\ wfresh' = wfresh /\ images' = images /\ vm' = vm /\ power' = power
    BY <1>2 DEF ReconcileVMI, worker, target, world
  <2>3. ImageCacheOK'
    <3>1. icache \in [Image -> ImageObject]
      BY DEF DataInv, TypeOK
    <3> QED  BY <2>1, <2>2, <3>1 DEF DataInv, ServerOK, ImageCacheOK, Exists
  <2>4. ServerOK'
    BY <2>2, <2>3 DEF DataInv, ServerOK
  <2>5. PowerOK'
    BY <2>2, PowerStays DEF SeenOff
  <2> QED  BY <2>2, <2>4, <2>5, NothingEvolves, WorkerStays, VMStays DEF DataInv
<1>3. CASE TimerFires \/ SourceBecomesReady \/ SourceDeleted \/ PowersOff \/ PoweredOn
           \/ GraceElapses
  <2>1. UNCHANGED <<server, worker>> /\ images' = images /\ imp' = imp /\ vm' = vm
    BY <1>3 DEF TimerFires, SourceBecomesReady, SourceDeleted, PowersOff, PoweredOn, GraceElapses,
                target, server
  <2>2. power = "off" => power' = "off" \/ "poweron" \in FaultKinds
    BY <1>3 DEF TimerFires, SourceBecomesReady, SourceDeleted, PowersOff, PoweredOn, GraceElapses,
                world, Fault
  <2> QED  BY <2>1, <2>2, NothingEvolves, VMStays, QuietWorld
<1>4. CASE VMBoots
  <2>1. UNCHANGED <<server, worker>> /\ images' = images /\ power' = power /\ imp' = imp
    BY <1>4 DEF VMBoots, world, server
  <2>2. VMOK'
    BY <1>4, <2>1 DEF VMBoots, DataInv, VMOK
  <2> QED  BY <2>1, <2>2, NothingEvolves, QuietWorld
<1>5. CASE \E i \in Image : DownloadImage(i) \/ CollectImage(i)
  <2>1. PICK i \in Image : DownloadImage(i) \/ CollectImage(i)
    BY <1>5
  <2>2. UNCHANGED <<server, worker>> /\ power' = power /\ imp' = imp /\ vm' = vm
    BY <2>1 DEF DownloadImage, CollectImage, server, world
  <2>3. images \in [Image -> ImageObject]
    BY DEF DataInv, TypeOK
  <2>4. \E s \in {"imported", "failed", "gone"} :
            /\ images' = [images EXCEPT ![i].st = s]
            /\ \/ images[i].st = "importing"
               \/ imp.phase = "gone" /\ s = "gone" /\ Exists(images[i])
    BY <2>1 DEF DownloadImage, CollectImage
  <2>5. Evolve(images, images', imp.phase)
    BY <2>3, <2>4, SetStateEvolves
  <2> QED  BY <2>2, <2>5, VMStays, QuietWorld
<1>6. CASE TouchImport \/ DeleteImport
  <2>1. /\ fresh' = FALSE /\ wfresh' = FALSE /\ cache' = cache /\ icache' = icache /\ pc' = pc
        /\ w' = w /\ images' = images /\ vm' = vm /\ power' = power
    BY <1>6 DEF TouchImport, DeleteImport, target, world
  <2>2. /\ ServerOK' /\ VMOK' /\ imp'.conds = imp.conds
        /\ imp'.status = imp.status /\ imp'.disks = imp.disks
        /\ Fits(w, images', imp'.phase)
    <3>1. w \in Import /\ Fits(w, images, imp.phase)
      BY DEF DataInv, TypeOK, WorkerOK
    <3>2. CASE TouchImport
      <4>1. imp' = imp
        BY <3>2 DEF TouchImport
      <4>2. ServerOK'
        BY <2>1, <4>1 DEF DataInv, ServerOK, ImageCacheOK
      <4> QED  BY <2>1, <3>1, <4>1, <4>2, VMStays
    <3>3. CASE DeleteImport
      <4>1. imp.phase = "live" /\ imp' = [imp EXCEPT !.phase = "deleting"]
        BY <3>3 DEF DeleteImport
      <4> QED  BY <2>1, <3>1, <4>1, PhaseMoves
    <3> QED  BY <1>6, <3>2, <3>3
  <2>3. WorkerOK'
    <3>1. CopyAt(pc, w)
      BY DEF DataInv, WorkerOK
    <3>2. pc' \notin UpdateSteps => Agrees(w', imp')
      BY <2>1, <2>2, <3>1 DEF CopyAt, Agrees
    <3> QED  BY <2>1, <2>2, <3>1, <3>2 DEF WorkerOK, CopyAt
  <2>4. PowerOK'
    BY <2>1, <2>2, PowerStays DEF SeenOff
  <2> QED  BY <2>2, <2>3, <2>4 DEF DataInv
<1>7. CASE Crash
  BY <1>7, RestartInv DEF Crash
<1> QED  BY <1>1, <1>2, <1>3, <1>4, <1>5, <1>6, <1>7 DEF Environment

LEMMA StutterInv == ASSUME DataInv, TypeOK', UNCHANGED vars PROVE DataInv'
<1>1. UNCHANGED <<server, worker>> /\ images' = images /\ imp' = imp /\ vm' = vm /\ power' = power
  BY DEF vars, server, target, world
<1> QED  BY <1>1, NothingEvolves, VMStays, QuietWorld

LEMMA InitInv == Init => DataInv
<1> SUFFICES ASSUME Init PROVE DataInv
  OBVIOUS
<1>1. /\ imp = NewImport /\ cache = NewImport /\ w = NewImport /\ wfresh = FALSE /\ pc = "idle"
      /\ icache = images /\ vm \in {"none", "foreign"}
  BY DEF Init
<1>2. /\ NewImport.status = "New" /\ NewImport.disks = <<>> /\ NewImport.conds = {}
      /\ DOMAIN NewImport.disks = {}
  BY DEF NewImport
<1>3. /\ StatusOK(NewImport) /\ Agrees(NewImport, NewImport)
      /\ \A imgs, phase : Fits(NewImport, imgs, phase)
  BY <1>2 DEF StatusOK, Agrees, Fits, Built
<1>4. ImageCacheOK
  BY <1>1 DEF ImageCacheOK, Exists
<1>5. CopyAt("idle", NewImport)
  BY <1>1, <1>3 DEF CopyAt, StepStatus
<1>6. VMOK /\ PowerOK
  BY <1>1, <1>2 DEF VMOK, PowerOK, SeenOff
<1> QED  BY <1>1, <1>3, <1>4, <1>5, <1>6, InitType DEF DataInv, ServerOK, WorkerOK

-----------------------------------------------------------------------------
(***************************************************************************)
(* The theorems                                                            *)
(***************************************************************************)
\* Whatever is read from stale caches, lost, retried or repeated after a crash,
\* every copy of the import tells the truth about the images, and the object
\* is never behind a copy that UpdateStatus would accept.
THEOREM CopiesTellTheTruth == Spec => []DataInv
<1>1. DataInv /\ TypeOK' /\ [Next]_vars => DataInv'
  BY WorkerInv, EnvironmentInv, StutterInv DEF Next
<1> QED  BY <1>1, InitInv, TypeCorrect, PTL DEF Spec

\* As long as the import exists, the VM that createVirtualMachine has built has
\* all of its disks, each imported into an image of its own.
THEOREM VMKeepsItsDisks == Spec => []VMHasItsDisks
<1>1. DataInv => VMHasItsDisks
  <2> SUFFICES ASSUME DataInv, vm \in {"created", "ready"}, imp.phase # "gone"
               PROVE  imp.disks # <<>> /\ AllImported(imp)
    BY DEF VMHasItsDisks
  <2>1. imp.disks # <<>> /\ \A j \in DOMAIN imp.disks : "Ready" \in imp.disks[j].conds
    BY DEF DataInv, VMOK
  <2>2. \A j \in DOMAIN imp.disks : DiskFits(imp.disks[j], j, images, imp.phase)
    BY DEF DataInv, ServerOK, Fits
  <2>3. \A j \in DOMAIN imp.disks : Imported(imp, j)
    BY <2>1, <2>2 DEF DiskFits, Imported
  <2> QED  BY <2>1, <2>3 DEF AllImported
<1> QED  BY <1>1, CopiesTellTheTruth, PTL

\* Only UpdateStatus changes the status, and only that of an import that has
\* not ended (the copy it writes is of the newest resourceVersion).
LEMMA StatusSteps == DataInv /\ [Next]_vars => (imp.status \in Terminal => imp'.status = imp.status)
<1> SUFFICES ASSUME DataInv, [Next]_vars, imp.status \in Terminal PROVE imp'.status = imp.status
  OBVIOUS
<1>1. CASE UpdateStatus
  <2>1. CASE UNCHANGED server
    BY <2>1 DEF server
  <2>2. CASE wfresh /\ Write
    <3>1. UpToDate(pc, w, imp) /\ pc \in UpdateSteps
      BY <1>1, <2>2 DEF UpdateStatus, UpdateSteps, DataInv, WorkerOK, CopyAt
    <3> QED  BY <3>1 DEF UpToDate
  <2> QED  BY <1>1, <2>1, <2>2 DEF UpdateStatus
<1>2. CASE RemoveFinalizer \/ DeleteImport
  <2>1. imp \in Import
    BY DEF DataInv, TypeOK
  <2>2. imp' = imp \/ \E ph \in {"deleting", "gone"} : imp' = [imp EXCEPT !.phase = ph]
    BY <1>2 DEF RemoveFinalizer, DeleteImport, server
  <2> QED  BY <2>1, <2>2 DEF Import
<1>3. CASE Worker /\ ~UpdateStatus /\ ~RemoveFinalizer
  <2>1. imp' = imp
    BY <1>3 DEF Worker, Reconcile, RequestFails, reconcilePreFlightChecks,
       sanitizeVirtualMachineImport, Restart, abortMigration, triggerStop, seesPoweredOff,
       powerOffAfterTimeout, RequestStop, waitForPowerOff, triggerExport, exportSucceeds,
       exportFails, reconcileDiskImageStatus, findVirtualMachineImage, createVirtualMachineImage,
       reconcileVMIStatus, EvaluateDisks, cleanupAndResubmit, triggerResubmit,
       createVirtualMachine, findAndCreatePVC, ensureVM, reconcileVirtualMachineStatus,
       tidyUpObjects, triggerCleanup, OnVirtualMachineRemove, server
  <2> QED  BY <2>1
<1>4. CASE Environment /\ ~DeleteImport
  <2>1. imp' = imp
    BY <1>4 DEF Environment, WatchImport, TimerFires, VMBoots, SourceBecomesReady, SourceDeleted,
       PowersOff, PoweredOn, GraceElapses, TouchImport, Crash, Restart, ReconcileVMI,
       DownloadImage, CollectImage, server
  <2> QED  BY <2>1
<1>5. CASE UNCHANGED vars
  BY <1>5 DEF vars, server
<1> QED  BY <1>1, <1>2, <1>3, <1>4, <1>5 DEF Next

\* An import that has ended stays as it is: no reconcile that began before its
\* end can write an older status over it (UpdateStatus).
THEOREM EndedImportStays == Spec => TerminalStays
<1> QED  BY StatusSteps, CopiesTellTheTruth, PTL DEF Spec, TerminalStays

\* The source VM is off while it is exported (triggerExport), although the copy
\* the export works on may be an old one, if nobody powers it on again.
THEOREM StoppedWhileExported ==
    ASSUME "poweron" \notin FaultKinds PROVE Spec => []ExportsOnlyStopped
<1>1. DataInv => ExportsOnlyStopped
  BY DEF DataInv, PowerOK, SeenOff, ExportsOnlyStopped
<1> QED  BY <1>1, CopiesTellTheTruth, PTL

\* An image that was imported is deleted with its import and never before: not
\* when another disk of the VM has failed (cleanupAndResubmit).
LEMMA ImageSteps ==
    DataInv /\ [Next]_vars =>
        \A i \in Image : images[i].st = "imported" /\ images'[i].st # "imported"
                            => imp.phase = "gone"
<1> SUFFICES ASSUME DataInv, [Next]_vars, NEW i \in Image,
                    images[i].st = "imported", images'[i].st # "imported"
             PROVE  imp.phase = "gone"
  OBVIOUS
<1>1. images \in [Image -> ImageObject]
  BY DEF DataInv, TypeOK
<1>2. CASE \E j \in First(FailedDisks) : cleanupAndResubmit(j)
  <2>1. PICK j \in First(FailedDisks) : cleanupAndResubmit(j)
    BY <1>2
  <2>2. w.disks[j].image = i /\ HasImage(j)
    BY <1>1, <2>1 DEF cleanupAndResubmit, HasImage
  <2>3. pc = "resubmit" /\ j \in DOMAIN w.disks /\ "Failed" \in w.disks[j].conds
    BY <2>1 DEF cleanupAndResubmit, First, FailedDisks
  <2>4. DiskFits(w.disks[j], j, images, imp.phase)
    BY <2>3 DEF DataInv, WorkerOK, Fits
  <2> QED  BY <2>2, <2>3, <2>4 DEF DiskFits
<1>3. CASE \E j \in First(Unsubmitted) : createVirtualMachineImage(j)
  BY <1>1, <1>3 DEF createVirtualMachineImage, FreshImages
<1>4. CASE tidyUpObjects
  <2>1. images' = images \/ \E d \in Image : images' = [images EXCEPT ![d].owned = FALSE]
    BY <1>4 DEF tidyUpObjects, HasImage
  <2>2. \A d \in Image : [images EXCEPT ![d].owned = FALSE][i].st = images[i].st
    BY <1>1 DEF ImageObject
  <2> QED  BY <2>1, <2>2
<1>5. CASE \E d \in Image : DownloadImage(d) \/ CollectImage(d)
  BY <1>1, <1>5 DEF DownloadImage, CollectImage, ImageObject
<1>6. CASE /\ Worker /\ ~tidyUpObjects
           /\ ~\E j \in First(Unsubmitted) : createVirtualMachineImage(j)
           /\ ~\E j \in First(FailedDisks) : cleanupAndResubmit(j)
  <2>1. images' = images
    BY <1>6 DEF Worker, Reconcile, RequestFails, UpdateStatus, reconcilePreFlightChecks,
       sanitizeVirtualMachineImport, Restart, abortMigration, triggerStop, seesPoweredOff,
       powerOffAfterTimeout, RequestStop, waitForPowerOff, triggerExport, exportSucceeds,
       exportFails, reconcileDiskImageStatus, findVirtualMachineImage,
       reconcileVMIStatus, EvaluateDisks, triggerResubmit,
       createVirtualMachine, findAndCreatePVC, ensureVM, reconcileVirtualMachineStatus,
       triggerCleanup, OnVirtualMachineRemove, RemoveFinalizer, target
  <2> QED  BY <2>1
<1>7. CASE Environment /\ ~\E d \in Image : DownloadImage(d) \/ CollectImage(d)
  <2>1. images' = images
    BY <1>7 DEF Environment, WatchImport, TimerFires, VMBoots, SourceBecomesReady, SourceDeleted,
       PowersOff, PoweredOn, GraceElapses, TouchImport, DeleteImport, Crash, Restart,
       ReconcileVMI, target
  <2> QED  BY <2>1
<1>8. CASE UNCHANGED vars
  BY <1>8 DEF vars, target
<1> QED  BY <1>2, <1>3, <1>4, <1>5, <1>6, <1>7, <1>8 DEF Next

\* The controller keeps what it has imported (cleanupAndResubmit deletes failed
\* images only), however old the copy is that names the image.
THEOREM ImportedDataStays == Spec => ImportedImagesKept
<1> QED  BY ImageSteps, CopiesTellTheTruth, PTL DEF Spec, ImportedImagesKept
=============================================================================
