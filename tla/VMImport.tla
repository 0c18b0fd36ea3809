------------------------------- MODULE VMImport -------------------------------
(***************************************************************************)
(* One VirtualMachineImport object and the controller that reconciles it:  *)
(* virtualMachineHandler of pkg/controllers/migration/virtualmachine.go    *)
(* and helper.go, over the API server, the informer caches, the work       *)
(* queue, the source cluster and the controller's own temporary files.     *)
(*                                                                         *)
(* A reconcile is not atomic.  It starts from the object in the informer   *)
(* cache, makes one request after another, and ends with UpdateStatus,     *)
(* which the API server refuses when the object has changed since.  Every  *)
(* request is a step of its own, and between two of them the source VM,    *)
(* the images, the caches and the users of the cluster may move, and the   *)
(* controller may crash.                                                   *)
(*                                                                         *)
(* Operators that drop a condition and say so in their name (LabelledAny,  *)
(* waitWithoutTimer, ...) are not part of the model: they are variants the *)
(* mutation runs put in the place of the definition that follows them.     *)
(*                                                                         *)
(* Covered: the whole of OnVirtualMachineChange and OnVirtualMachineRemove *)
(* with every error path, wake-ups (status updates, owned images,          *)
(* EnqueueAfter, retries), stale caches, crashes.                          *)
(* Not covered here: what an export does to the source cluster, the names  *)
(* and networks of the VM, two imports that share a name, how a source     *)
(* becomes ready.                                                          *)
(***************************************************************************)
EXTENDS ImportStatus

CONSTANTS
    Image,       \* names the API server may generate for VirtualMachineImages
    NoImage,     \* the empty VirtualMachineImage field of a disk
    MaxDisks,    \* a source VM has 0 to MaxDisks disks
    Confs,       \* import specifications: [kind, force, backing]
    FaultKinds,  \* the faults this instance allows
    MaxFaults    \* ... and how many of them

ASSUME ConfsAssumption ==
    Confs \subseteq [kind : {"vmware", "openstack", "ova"}, force : BOOLEAN, backing : BOOLEAN]
ASSUME ImageAssumption == NoImage \notin Image /\ IsFiniteSet(Image)
ASSUME BoundsAssumption == MaxDisks \in Nat \ {0} /\ MaxFaults \in Nat

VARIABLES
    conf,    \* the immutable spec of the import
    imp,     \* the import in the API server: [phase, status, conds, disks]
    cache,   \* the import in the informer cache
    fresh,   \* cache holds the newest resourceVersion of imp
    images,  \* the VirtualMachineImages in the API server
    icache,  \* the VirtualMachineImages in the informer cache
    pvcs,    \* the images a PersistentVolumeClaim of the same name exists for
    vm,      \* the target KubeVirt VM
    source,  \* the source object: "notReady", "ClusterReady" or "gone"
    power,   \* the source VM: "on", "shutting" (guest asked), "forced", "off"
    late,    \* the graceful shutdown timeout has passed since ShutdownGuest was recorded
    files,   \* temporary files of the import: disk numbers, 0 for the OVA archive
    pc,      \* where the worker stands in its reconcile
    w,       \* the worker's copy of the import
    wfresh,  \* ... is of the newest resourceVersion
    k,       \* the last disk the current loop has handled
    queued,  \* the import's key is in the work queue
    timer,   \* an EnqueueAfter is pending
    faults   \* number of faults so far

server  == <<conf, imp, fresh, cache, icache>>
worker  == <<pc, w, wfresh, k>>
wakeups == <<queued, timer>>
target  == <<images, pvcs, vm>>
world   == <<source, power, late, files>>
vars    == <<server, worker, wakeups, target, world, faults>>

-----------------------------------------------------------------------------
(***************************************************************************)
(* State                                                                   *)
(***************************************************************************)
DiskInfo == [image : Image \cup {NoImage}, conds : SUBSET DiskConds]
Import == [phase : {"live", "deleting", "gone"}, status : Statuses,
           conds : SUBSET ImportConds, disks : Seq(DiskInfo)]
ImageState == {"none", "importing", "imported", "failed", "gone"}
ImageObject == [st : ImageState, disk : Nat, owned : BOOLEAN]

NewImport == [phase |-> "live", status |-> "New", conds |-> {}, disks |-> <<>>]
NoObject  == [st |-> "none", disk |-> 0, owned |-> FALSE]
Exists(obj) == obj.st \notin {"none", "gone"}

Init ==
    /\ conf \in Confs
    /\ imp = NewImport /\ cache = NewImport /\ fresh = TRUE
    /\ images = [i \in Image |-> NoObject] /\ icache = images
    /\ pvcs = {} /\ vm \in {"none", "foreign"}
    /\ source \in {"notReady", "ClusterReady"}
    /\ power \in IF conf.kind = "ova" THEN {"off"} ELSE {"on", "off"}
    /\ late = FALSE /\ files = {}
    /\ pc = "idle" /\ w = NewImport /\ wfresh = FALSE /\ k = 0
    /\ queued = TRUE /\ timer = FALSE
    /\ faults = 0

\* A fault of the given kind happens in this step.
Fault(kind) == kind \in FaultKinds /\ faults < MaxFaults /\ faults' = faults + 1
NoFault == UNCHANGED faults

-----------------------------------------------------------------------------
(***************************************************************************)
(* How a reconcile moves                                                   *)
(***************************************************************************)
\* The reconcile goes on at p with the copy obj, having handled disk n.
Continue(p, obj, n) ==
    /\ pc' = p /\ w' = obj /\ k' = n
    /\ UNCHANGED <<wfresh, queued, timer>>

\* The handler returns; an error puts the key back, rate limited.
Return(err) ==
    /\ pc' = "idle" /\ w' = NewImport /\ wfresh' = FALSE /\ k' = 0
    /\ queued' = IF err THEN TRUE ELSE queued
    /\ UNCHANGED timer

\* EnqueueAfter, then return.
ReturnAfter(err) ==
    /\ pc' = "idle" /\ w' = NewImport /\ wfresh' = FALSE /\ k' = 0
    /\ queued' = IF err THEN TRUE ELSE queued
    /\ timer' = TRUE

\* The disk a loop over the disks S handles next.
First(S) == {j \in S : \A i \in S : j <= i}

WithStatus(s) == [w EXCEPT !.status = s]
WithConds(cs) == [w EXCEPT !.conds = @ \cup cs]
WithDisk(j, d) == [w EXCEPT !.disks[j] = d]
Update(obj) == Continue("update", obj, 0)

\* OnVirtualMachineChange: where a status takes the reconcile.
Branch ==
    [s \in Statuses \ {"ImportInvalid"} |->
        CASE s = "New"                 -> "preflight"
          [] s = "ImportValid"         -> "sanitize"
          [] s = "SourceReady"         -> "export"
          [] s = "DisksExported"       -> "submit"
          [] s = "DiskImagesSubmitted" -> "poll"
          [] s = "DiskImagesFailed"    -> "resubmit"
          [] s = "DiskImagesReady"     -> "build"
          [] s = "VMCreated"           -> "check"
          [] s = "VMRunning"           -> "tidy"
          [] s = "MigrationFailed"     -> "cleanup"]

\* A worker takes the key.  OnVirtualMachineChange ignores an object that is
\* being deleted; the finalizer then runs OnVirtualMachineRemove.
Reconcile ==
    /\ pc = "idle" /\ queued
    /\ queued' = FALSE
    /\ IF cache.phase = "gone" \/ (cache.phase = "live" /\ cache.status = "ImportInvalid")
       THEN UNCHANGED <<pc, w, wfresh, k>>
       ELSE /\ pc' = IF cache.phase = "deleting" THEN "remove" ELSE Branch[cache.status]
            /\ w' = cache /\ wfresh' = fresh /\ k' = 0
    /\ UNCHANGED <<server, timer, target, world, faults>>

\* The process dies and is restarted: the pod has no volume, so its files are
\* lost, its caches are listed anew and every object is enqueued.
Restart ==
    /\ files' = {}
    /\ pc' = "idle" /\ w' = NewImport /\ wfresh' = FALSE /\ k' = 0
    /\ cache' = imp /\ fresh' = TRUE /\ icache' = images
    /\ queued' = TRUE /\ timer' = FALSE
    /\ UNCHANGED <<conf, imp, target, source, power, late>>

\* generateVMO fails to fetch the source object.
SourceFails == \/ source = "gone" /\ NoFault
               \/ source # "gone" /\ Fault("api")

\* Any other request of the handler fails with an error that is retried.
RequestFails ==
    /\ pc \in {"sanitize", "export", "poll", "resubmit", "build", "pvc",
               "check", "tidy", "finalize"}
    /\ Fault("api")
    /\ Return(TRUE)
    /\ UNCHANGED <<server, target, world>>

-----------------------------------------------------------------------------
(***************************************************************************)
(* UpdateStatus                                                            *)
(***************************************************************************)
\* The copy becomes the object; nothing is sent to the watchers when they
\* are equal already.
Write ==
    /\ imp' = w /\ fresh' = IF w = imp THEN fresh ELSE FALSE
    /\ UNCHANGED <<conf, cache, icache>>

UpdateStatusUnchecked ==
    /\ pc \in {"update", "updateErr"}
    /\ Write /\ Return(pc = "updateErr") /\ NoFault
    /\ UNCHANGED <<target, world>>

\* The update is refused when the copy is not of the newest resourceVersion,
\* may fail on the way, and may be carried out without the answer arriving.
\* The "updateErr" reconcile returns an error whatever comes of the update.
UpdateStatus ==
    /\ pc \in {"update", "updateErr"}
    /\ \/ wfresh /\ Write /\ Return(pc = "updateErr") /\ NoFault
       \/ wfresh /\ Write /\ Return(TRUE) /\ Fault("lost")
       \/ ~wfresh /\ Return(TRUE) /\ NoFault /\ UNCHANGED server
       \/ wfresh /\ Return(TRUE) /\ Fault("api") /\ UNCHANGED server
    /\ UNCHANGED <<target, world>>

-----------------------------------------------------------------------------
(***************************************************************************)
(* New: reconcilePreFlightChecks, and ImportValid: sanitize                *)
(***************************************************************************)
\* Every error of preFlightChecks but ErrClusterNotReady ends the import.
reconcilePreFlightChecks ==
    /\ pc = "preflight"
    /\ \/ source = "notReady" /\ ReturnAfter(TRUE)
       \/ source = "ClusterReady" /\ Update(WithStatus("ImportValid"))
       \/ Update(WithStatus("ImportInvalid"))
    /\ UNCHANGED <<server, target, world, faults>>

\* The name of the new VM is RFC 1123 compliant or it is not.  Without its
\* source, sanitizeVirtualMachineImport hands abortMigrationIfNecessary a nil
\* object, whose status it sets: the process panics.
sanitizeVirtualMachineImport ==
    /\ pc = "sanitize"
    /\ \/ /\ source # "gone" /\ NoFault
          /\ \E s \in {"SourceReady", "ImportInvalid"} : Update(WithStatus(s))
          /\ UNCHANGED <<server, target, world>>
       \/ SourceFails /\ Restart

\* abortMigrationIfNecessary with ErrGenerateSourceInterface.
abortMigration ==
    /\ pc \in {"export", "build"}
    /\ SourceFails
    /\ Update(WithStatus("MigrationFailed"))
    /\ UNCHANGED <<server, target, world>>

-----------------------------------------------------------------------------
(***************************************************************************)
(* SourceReady : runVirtualMachineExport, one thing per reconcile          *)
(***************************************************************************)
IsPowerOffSupported == conf.kind = "vmware"
ForceStop == IsPowerOffSupported /\ conf.force
StopRequested == w.conds \cap {"PoweringOff", "ShutdownGuest"} # {}
MustRequestRunningStop == power = "on"
MustRequestStop == (IF ForceStop THEN "PoweringOff" ELSE "ShutdownGuest") \notin w.conds

\* The end of runVirtualMachineExport: conditions decide the status.
ExportUpdate(obj) ==
    Update([obj EXCEPT !.status = CASE "ExportFailed" \in obj.conds -> "MigrationFailed"
                                    [] "Exported" \in obj.conds     -> "DisksExported"
                                    [] OTHER                         -> @])

\* A stop request does nothing to a VM that is powered off already.
powerAfter(request) == IF power = "off" THEN "off"
                       ELSE IF request = "PoweringOff" \/ power = "forced" THEN "forced"
                       ELSE "shutting"

\* PowerOff or ShutdownGuest is called and its condition is added.
RequestStop(request) ==
    /\ power' = powerAfter(request)
    /\ \/ ExportUpdate(WithConds({request})) /\ NoFault
       \/ Return(TRUE) /\ Fault("lost")
    /\ UNCHANGED <<server, target, source, late, files>>

triggerStop ==
    /\ pc = "export" /\ source # "gone"
    /\ MustRequestStop
    /\ RequestStop(IF ForceStop THEN "PoweringOff" ELSE "ShutdownGuest")

WaitPoweredOff ==
    /\ pc = "export" /\ source # "gone"
    /\ ~MustRequestStop /\ StopRequested /\ "PoweredOff" \notin w.conds

seesStopRequested ==
    /\ WaitPoweredOff
    /\ ExportUpdate(WithConds({"PoweredOff"}))
    /\ UNCHANGED <<server, target, world, faults>>

seesPoweredOff ==
    /\ WaitPoweredOff /\ power = "off"
    /\ ExportUpdate(WithConds({"PoweredOff"}))
    /\ UNCHANGED <<server, target, world, faults>>

\* The guest did not shut down in time: one forced power off.
GracePassed == /\ "ShutdownGuest" \in w.conds /\ IsPowerOffSupported /\ ~conf.force
               /\ "PoweringOff" \notin w.conds
               /\ late
powerOffAfterTimeout ==
    /\ WaitPoweredOff /\ power # "off" /\ GracePassed
    /\ RequestStop("PoweringOff")

waitWithoutTimer ==
    /\ WaitPoweredOff /\ power # "off" /\ ~GracePassed
    /\ pc' = "update"
    /\ UNCHANGED <<w, wfresh, k, wakeups, server, target, world, faults>>

\* Look again in five seconds; the unchanged status is written all the same.
waitForPowerOff ==
    /\ WaitPoweredOff /\ power # "off" /\ ~GracePassed
    /\ pc' = "update" /\ timer' = TRUE
    /\ UNCHANGED <<w, wfresh, k, queued, server, target, world, faults>>

\* ExportVirtualMachine runs, for hours, in the "exporting" step.
triggerExport ==
    /\ pc = "export" /\ source # "gone"
    /\ ~MustRequestStop /\ "PoweredOff" \in w.conds
    /\ IF w.conds \cap {"Exported", "ExportFailed"} = {}
       THEN Continue("exporting", w, 0)
       ELSE ExportUpdate(w)
    /\ UNCHANGED <<server, target, world, faults>>

ExportedDisks(n) == [j \in 1..n |-> [image |-> NoImage, conds |-> {}]]
Archive == IF conf.kind = "ova" THEN {0} ELSE {}

exportSucceeds ==
    /\ pc = "exporting"
    /\ \E n \in 0..MaxDisks :
          /\ files' = files \cup 1..n \cup Archive
          /\ ExportUpdate([WithConds({"Exported"}) EXCEPT !.disks = @ \o ExportedDisks(n)])
    /\ UNCHANGED <<server, target, source, power, late, faults>>

\* VMware lists every disk before it converts the first: when the export fails any
\* disks may be listed, and any files, listed or not, are left behind.
exportFails ==
    /\ pc = "exporting"
    /\ \E n \in 0..MaxDisks, left \in SUBSET (1..MaxDisks \cup Archive) :
          /\ files' = files \cup left
          /\ ExportUpdate([WithConds({"ExportFailed"}) EXCEPT !.disks = @ \o ExportedDisks(n)])
    /\ UNCHANGED <<server, target, source, power, late, faults>>

-----------------------------------------------------------------------------
(***************************************************************************)
(* DisksExported : reconcileDiskImageStatus                                *)
(***************************************************************************)
Unsubmitted == {j \in DOMAIN w.disks : "Submitted" \notin w.disks[j].conds}
LabelledAny(j) == {i \in Image : Exists(icache[i])}
Labelled(j) == {i \in Image : Exists(icache[i]) /\ icache[i].disk = j}
FreshImages == {i \in Image : images[i].st = "none"}

\* reconcileDiskImageStatus saves the disks it has submitted and returns the
\* error; without any it only returns the error.
SubmitError == IF k > 0 THEN Continue("updateErr", w, 0) ELSE Return(TRUE)

reconcileDiskImageStatus ==
    /\ pc = "submit" /\ Unsubmitted = {}
    /\ Update(WithStatus(IF w.disks = <<>> THEN "ImportInvalid" ELSE "DiskImagesSubmitted"))
    /\ UNCHANGED <<server, target, world, faults>>

AttachToImport(j, i) ==
    Continue("submit", [WithDisk(j, [image |-> i, conds |-> {"Submitted"}])
                            EXCEPT !.conds = @ \cup {"Submitted"}], j)
Attach(j, i) ==
    Continue("submit",
             WithDisk(j, [image |-> i, conds |-> w.disks[j].conds \cup {"Submitted"}]), j)

\* checkAndCreateVirtualMachineImage finds the disk's image in the cache by
\* its label ...
findVirtualMachineImage(j) ==
    /\ pc = "submit"
    /\ Labelled(j) # {}
    /\ IF Cardinality(Labelled(j)) > 1
       THEN SubmitError
       ELSE \E i \in Labelled(j) : Attach(j, i)
    /\ UNCHANGED <<server, target, world, faults>>

\* ... or creates it, owned by the import.  No name left (FreshImages) is the
\* bound of the instance, and one more way for a Create to fail.
createVirtualMachineImage(j) ==
    /\ pc = "submit"
    /\ Labelled(j) = {}
    /\ \/ \E i \in FreshImages :
             /\ images' = [images EXCEPT ![i] =
                    [st |-> "importing", disk |-> j, owned |-> TRUE]]
             /\ \/ Attach(j, i) /\ NoFault
                \/ SubmitError /\ Fault("lost")
       \/ SubmitError /\ Fault("api") /\ UNCHANGED images
       \/ FreshImages = {} /\ SubmitError /\ UNCHANGED <<images, faults>>
    /\ UNCHANGED <<server, pvcs, vm, world>>

-----------------------------------------------------------------------------
(***************************************************************************)
(* DiskImagesSubmitted : reconcileVMIStatus, then the evaluation           *)
(***************************************************************************)
\* The object a disk refers to, as a Get from the API server returns it.
ImageOf(j) == images[w.disks[j].image]
HasImage(j) == w.disks[j].image \in Image /\ Exists(ImageOf(j))

SetDiskConds(j, cs) == WithDisk(j, [w.disks[j] EXCEPT !.conds = cs])

reconcileVMIStatus ==
    /\ pc = "poll" /\ k < Len(w.disks)
    /\ LET j == k + 1 IN
       IF "Ready" \in w.disks[j].conds THEN Continue("poll", w, j)
       ELSE IF ~HasImage(j) THEN Return(TRUE)
       ELSE CASE ImageOf(j).st = "importing" -> Continue("poll", w, j)
              [] ImageOf(j).st = "imported"  ->
                    Continue("poll", SetDiskConds(j, w.disks[j].conds \cup {"Ready"}), j)
              [] ImageOf(j).st = "failed"    ->
                    Continue("poll", SetDiskConds(j, w.disks[j].conds \cup {"Failed"}), j)
    /\ UNCHANGED <<server, target, world, faults>>

\* Without a verdict nothing is written, the conditions just set are dropped.
EvaluateDisks ==
    /\ pc = "poll" /\ k = Len(w.disks)
    /\ LET newStatus == evaluateDiskImportStatus(w.disks)
       IN  IF newStatus = "none" THEN Return(FALSE) ELSE Update(WithStatus(newStatus))
    /\ UNCHANGED <<server, target, world, faults>>

-----------------------------------------------------------------------------
(***************************************************************************)
(* DiskImagesFailed : triggerResubmit                                      *)
(***************************************************************************)
AllDisksOnceOneFailed ==
    IF \E j \in DOMAIN w.disks : "Failed" \in w.disks[j].conds THEN DOMAIN w.disks ELSE {}
FailedDisks == {j \in DOMAIN w.disks : "Failed" \in w.disks[j].conds}

\* The image of a failed disk is deleted and its Failed condition removed;
\* an image that is gone already is an error.
cleanupAndResubmit(j) ==
    /\ pc = "resubmit"
    /\ IF ~HasImage(j) THEN Return(TRUE) /\ NoFault /\ UNCHANGED images
       ELSE /\ images' = [images EXCEPT ![w.disks[j].image].st = "gone"]
            /\ \/ Continue("resubmit", SetDiskConds(j, w.disks[j].conds \ {"Failed"}), j) /\ NoFault
               \/ Return(TRUE) /\ Fault("lost")
    /\ UNCHANGED <<server, pvcs, vm, world>>

triggerResubmit ==
    /\ pc = "resubmit" /\ FailedDisks = {}
    /\ Update(WithStatus("SourceReady"))
    /\ UNCHANGED <<server, target, world, faults>>

-----------------------------------------------------------------------------
(***************************************************************************)
(* DiskImagesReady : createVirtualMachine                                  *)
(***************************************************************************)
\* generateVMO and GenerateVirtualMachine; the one of an OVA import reads the
\* downloaded archive again.
createVirtualMachine ==
    /\ pc = "build" /\ source # "gone"
    /\ IF Archive \subseteq files THEN Continue("pvc", w, 0) ELSE Return(TRUE)
    /\ UNCHANGED <<server, target, world, faults>>

\* Only images on the backing image backend need a claim of their own.
findAndCreatePVC ==
    /\ pc = "pvc" /\ k < Len(w.disks)
    /\ LET j == k + 1
           new == IF conf.backing THEN {w.disks[j].image} \ pvcs ELSE {} IN
       IF ~HasImage(j) THEN Return(TRUE) /\ NoFault /\ UNCHANGED pvcs
       ELSE /\ pvcs' = pvcs \cup new
            /\ \/ Continue("pvc", w, j) /\ NoFault
               \/ new # {} /\ Return(TRUE) /\ Fault("lost")
    /\ UNCHANGED <<server, images, vm, world>>

\* A VM of that name without the imported label ("foreign") is not taken for
\* the import's: the Create fails.
ensureVM ==
    /\ pc = "pvc" /\ k = Len(w.disks)
    /\ \/ vm \in {"created", "ready"} /\ Update(WithStatus("VMCreated")) /\ NoFault /\ UNCHANGED vm
       \/ vm = "none" /\ vm' = "created" /\ Update(WithStatus("VMCreated")) /\ NoFault
       \/ vm = "none" /\ vm' = "created" /\ Return(TRUE) /\ Fault("lost")
       \/ vm = "foreign" /\ Return(TRUE) /\ NoFault /\ UNCHANGED vm
    /\ UNCHANGED <<server, images, pvcs, world>>

-----------------------------------------------------------------------------
(***************************************************************************)
(* VMCreated, VMRunning, MigrationFailed and removal                       *)
(***************************************************************************)
reconcileVirtualMachineStatus ==
    /\ pc = "check"
    /\ IF vm = "ready" THEN Update(WithStatus("VMRunning")) ELSE ReturnAfter(FALSE)
    /\ UNCHANGED <<server, target, world, faults>>

\* The images outlive the import: its owner reference is removed from each.
tidyUpObjects ==
    /\ pc = "tidy"
    /\ IF k = Len(w.disks) THEN Continue("cleanup", w, 0) /\ UNCHANGED images
       ELSE IF ~HasImage(k + 1) THEN Return(TRUE) /\ UNCHANGED images
       ELSE /\ images' = [images EXCEPT ![w.disks[k + 1].image].owned = FALSE]
            /\ Continue("tidy", w, k + 1)
    /\ UNCHANGED <<server, pvcs, vm, world, faults>>

\* An error of the clean-up is logged and dropped.
CleanupThen(next) ==
    \/ source # "gone" /\ files' = files \ (DOMAIN w.disks \cup Archive) /\ NoFault /\ next
    \/ SourceFails /\ next /\ UNCHANGED files

triggerCleanup ==
    /\ pc = "cleanup"
    /\ CleanupThen(Return(FALSE))
    /\ UNCHANGED <<server, target, source, power, late>>

OnVirtualMachineRemove ==
    /\ pc = "remove"
    /\ CleanupThen(Continue("finalize", w, 0))
    /\ UNCHANGED <<server, target, source, power, late>>

\* The finalizer is removed with an update like any other.
RemoveFinalizer ==
    /\ pc = "finalize"
    /\ IF wfresh THEN /\ imp' = [imp EXCEPT !.phase = "gone"] /\ fresh' = FALSE
                      /\ Return(FALSE) /\ UNCHANGED <<conf, cache, icache>>
                 ELSE Return(TRUE) /\ UNCHANGED server
    /\ UNCHANGED <<target, world, faults>>

-----------------------------------------------------------------------------
(***************************************************************************)
(* The cluster, the source and the users                                   *)
(***************************************************************************)
WatchImport ==
    /\ ~fresh
    /\ cache' = imp /\ fresh' = TRUE /\ queued' = TRUE
    /\ UNCHANGED <<conf, imp, icache, worker, timer, target, world, faults>>

WatchImageWithoutEnqueue(i) ==
    /\ icache[i] # images[i]
    /\ icache' = [icache EXCEPT ![i] = images[i]]
    /\ UNCHANGED <<conf, imp, fresh, cache, worker, wakeups, target, world, faults>>

\* ReconcileVMI enqueues the import that owns the image.
ReconcileVMI(i) ==
    /\ icache[i] # images[i]
    /\ icache' = [icache EXCEPT ![i] = images[i]]
    /\ queued' = IF Exists(images[i]) /\ images[i].owned THEN TRUE ELSE queued
    /\ UNCHANGED <<conf, imp, fresh, cache, worker, timer, target, world, faults>>

TimerFires ==
    /\ timer /\ timer' = FALSE /\ queued' = TRUE
    /\ UNCHANGED <<server, worker, target, world, faults>>

\* Harvester downloads the file of the disk from the controller.
DownloadImage(i) ==
    /\ images[i].st = "importing"
    /\ \/ images[i].disk \in files /\ NoFault
          /\ images' = [images EXCEPT ![i].st = "imported"]
       \/ images[i].disk \notin files /\ NoFault
          /\ images' = [images EXCEPT ![i].st = "failed"]
       \/ images[i].disk \in files /\ Fault("importfail")
          /\ images' = [images EXCEPT ![i].st = "failed"]
    /\ UNCHANGED <<server, worker, wakeups, pvcs, vm, world>>

\* The garbage collector, once the owner is gone.
CollectImage(i) ==
    /\ imp.phase = "gone" /\ images[i].owned /\ Exists(images[i])
    /\ images' = [images EXCEPT ![i].st = "gone"]
    /\ UNCHANGED <<server, worker, wakeups, pvcs, vm, world, faults>>

VMBoots ==
    /\ vm = "created" /\ vm' = "ready"
    /\ UNCHANGED <<server, worker, wakeups, images, pvcs, world, faults>>

SourceBecomesReady ==
    /\ source = "notReady" /\ source' = "ClusterReady"
    /\ UNCHANGED <<server, worker, wakeups, target, power, late, files, faults>>

SourceDeleted ==
    /\ source # "gone" /\ Fault("sourcegone") /\ source' = "gone"
    /\ UNCHANGED <<server, worker, wakeups, target, power, late, files>>

\* A guest may ignore the request of vCenter; a forced power off, and a stop
\* of OpenStack, come through.
PowersOff ==
    /\ power \in {"shutting", "forced"} /\ power' = "off"
    /\ UNCHANGED <<server, worker, wakeups, target, source, late, files, faults>>

PoweredOn ==
    /\ conf.kind # "ova" /\ power \in {"off", "shutting"} /\ Fault("poweron")
    /\ power' = "on"
    /\ UNCHANGED <<server, worker, wakeups, target, source, late, files>>

\* Only imports from VMware look at the time.
GraceElapses ==
    /\ IsPowerOffSupported /\ "ShutdownGuest" \in imp.conds /\ ~late /\ late' = TRUE
    /\ UNCHANGED <<server, worker, wakeups, target, source, power, files, faults>>

\* Somebody edits the metadata of the import, or deletes it.
TouchImport ==
    /\ imp.phase # "gone" /\ Fault("touch")
    /\ fresh' = FALSE /\ wfresh' = FALSE
    /\ UNCHANGED <<conf, imp, cache, icache, pc, w, k, wakeups, target, world>>

DeleteImport ==
    /\ imp.phase = "live" /\ Fault("delete")
    /\ imp' = [imp EXCEPT !.phase = "deleting"] /\ fresh' = FALSE /\ wfresh' = FALSE
    /\ UNCHANGED <<conf, cache, icache, pc, w, k, wakeups, target, world>>

Crash == Fault("crash") /\ Restart

-----------------------------------------------------------------------------
Worker ==
    \/ Reconcile \/ RequestFails \/ UpdateStatus
    \/ reconcilePreFlightChecks \/ sanitizeVirtualMachineImport \/ abortMigration
    \/ triggerStop \/ seesPoweredOff \/ powerOffAfterTimeout \/ waitForPowerOff
    \/ triggerExport \/ exportSucceeds \/ exportFails
    \/ reconcileDiskImageStatus
    \/ \E j \in First(Unsubmitted) : findVirtualMachineImage(j) \/ createVirtualMachineImage(j)
    \/ reconcileVMIStatus \/ EvaluateDisks
    \/ \E j \in First(FailedDisks) : cleanupAndResubmit(j)
    \/ triggerResubmit
    \/ createVirtualMachine \/ findAndCreatePVC \/ ensureVM
    \/ reconcileVirtualMachineStatus \/ tidyUpObjects \/ triggerCleanup
    \/ OnVirtualMachineRemove \/ RemoveFinalizer

Environment ==
    \/ WatchImport \/ TimerFires \/ VMBoots \/ SourceBecomesReady \/ SourceDeleted
    \/ PowersOff \/ PoweredOn \/ GraceElapses \/ TouchImport \/ DeleteImport \/ Crash
    \/ \E i \in Image : ReconcileVMI(i) \/ DownloadImage(i) \/ CollectImage(i)

Next == Worker \/ Environment

Spec == Init /\ [][Next]_vars

\* Workers and watches run, timers fire, time passes; Harvester finishes its
\* downloads and boots the VM; a source becomes ready; a machine that cannot
\* refuse to stop, stops.
Fairness ==
    /\ WF_vars(Worker) /\ WF_vars(WatchImport) /\ WF_vars(TimerFires)
    /\ \A i \in Image : WF_vars(ReconcileVMI(i)) /\ WF_vars(DownloadImage(i))
    /\ WF_vars(VMBoots) /\ WF_vars(SourceBecomesReady) /\ WF_vars(GraceElapses)
    /\ WF_vars(PowersOff /\ (power = "forced" \/ conf.kind = "openstack"))

FairSpec == Spec /\ Fairness

-----------------------------------------------------------------------------
(***************************************************************************)
(* Properties                                                              *)
(***************************************************************************)
PCs == {"idle", "preflight", "sanitize", "export", "exporting", "submit", "poll",
        "resubmit", "build", "pvc", "check", "tidy", "cleanup", "remove", "finalize",
        "update", "updateErr"}

\* Every variable has its type: the object, its cached and its working copy are
\* VirtualMachineImports, the images are VirtualMachineImages.
TypeOK ==
    /\ conf \in Confs
    /\ imp \in Import /\ cache \in Import /\ w \in Import
    /\ fresh \in BOOLEAN /\ wfresh \in BOOLEAN /\ queued \in BOOLEAN /\ timer \in BOOLEAN
    /\ images \in [Image -> ImageObject] /\ icache \in [Image -> ImageObject]
    /\ pvcs \subseteq Image /\ vm \in {"none", "foreign", "created", "ready"}
    /\ source \in {"notReady", "ClusterReady", "gone"}
    /\ power \in {"on", "shutting", "forced", "off"} /\ late \in BOOLEAN
    /\ files \subseteq Nat
    /\ pc \in PCs /\ k \in Nat /\ faults \in Nat

\* A disk of the object o has an image of its own that holds its whole data.
Imported(o, j) ==
    /\ o.disks[j].image \in Image
    /\ images[o.disks[j].image].st = "imported"
    /\ images[o.disks[j].image].disk = j
AllImported(o) == \A j \in DOMAIN o.disks : Imported(o, j)

\* The VM is created (createVirtualMachine) only when every disk of the import
\* has been imported into an image of its own, whatever was read from stale
\* caches, retried or repeated after a crash on the way: as long as the import
\* exists its VM has all of its disks.
VMHasItsDisks ==
    vm \in {"created", "ready"} /\ imp.phase # "gone" => imp.disks # <<>> /\ AllImported(imp)

\* The source VM is powered off while it is exported (triggerExport), although
\* the export starts in a later reconcile than the one that saw it powered off.
\* The operator of the source is assumed not to power it on again.
ExportsOnlyStopped == pc = "exporting" => power = "off"

\* Once its disks are exported, or their export has failed, the source VM is
\* left alone: no reconcile, however stale the copy it works on, shuts it down
\* or powers it off again (triggerExport).
LeavesExportedVMAlone ==
    [][imp.conds \cap {"Exported", "ExportFailed"} # {} /\ power = "on"
         => power' = "on"]_vars

\* An import that is Running, Invalid or MigrationFailed stays what it is: a
\* reconcile that started before the end cannot bring the import back to life
\* (the UpdateStatus of a stale copy is refused).
TerminalStays ==
    [][imp.status \in Terminal => imp'.status = imp.status]_vars

\* The controller never deletes an image that was imported, in particular not
\* when another disk of the VM failed (cleanupAndResubmit): only the garbage
\* collector does, when the import is deleted.
ImportedImagesKept ==
    [][\A i \in Image : images[i].st = "imported" /\ images'[i].st # "imported"
         => imp.phase = "gone"]_vars

\* The temporary file of a disk is served until its image has been downloaded
\* (triggerCleanup runs after reconcileVMIStatus saw it Ready) or the import is
\* given up: only a restart of the pod, which loses every file, takes it away
\* from an image that needs it.
ServedFor(i, j) ==
    /\ imp.phase = "live" /\ imp.status # "MigrationFailed" /\ j \in DOMAIN imp.disks
    /\ imp.disks[j].image = i /\ images[i].st = "importing"
FilesServedUntilImported ==
    [][\A i \in Image : \A j \in files : ServedFor(i, j) =>
          j \in files' \/ ~ServedFor(i, j)' \/ Restart]_vars

\* When the controller rests, it has nothing left to wait for but Harvester: no
\* wake-up is lost between the reconcile that found an image importing, the
\* watch on the images (ReconcileVMI) and EnqueueAfter.
Resting == pc = "idle" /\ ~queued /\ ~timer /\ fresh /\ icache = images
RestsOnlyWhenDone ==
    Resting => \/ imp.phase = "gone" \/ imp.status \in Terminal
               \/ /\ imp.status = "DiskImagesSubmitted"
                  /\ \E j \in DOMAIN imp.disks :
                        imp.disks[j].image \in Image /\ images[imp.disks[j].image].st = "importing"

\* An import ends: its VM runs, or it is marked Invalid or MigrationFailed.
\* Every status has a reconcile that moves it on (OnVirtualMachineChange).  The
\* name of the new VM must not be taken by a VM that is not the import's.
ReachesTerminal ==
    (vm = "none") => <>(imp.status \in Terminal \/ imp.phase # "live")

\* The controller, its stale caches, retries and crashes included, does what
\* ImportLifecycle promises.
Lifecycle == INSTANCE ImportLifecycle WITH
    status   <- imp.status,
    complete <- imp.disks # <<>> /\ AllImported(imp),
    vm       <- IF vm = "foreign" THEN "none" ELSE vm,
    removed  <- imp.phase = "gone"
ImplementsLifecycle == Lifecycle!Spec

\* What the code says of itself and does not do, see the findings.

\* "handle disk failures once we have had watches triggered for all disks"
\* (helper.go:31), "need to wait for all VMI's to be complete or failed before
\* we cleanup failed objects" (virtualmachine.go:755).
FailuresHandledOnceAllReported ==
    imp.status = "DiskImagesFailed" =>
        \A j \in DOMAIN imp.disks : imp.disks[j].conds \cap {"Ready", "Failed"} # {}

\* "re-export VM and trigger re-import again" (helper.go:149): an import whose
\* image failed gets its images in the end, or is given up.
FailedImportIsRetried ==
    imp.status = "DiskImagesFailed"
        ~> imp.status \in {"DiskImagesReady", "VMCreated"} \cup Terminal

\* "If the migration should be aborted, the status of the VirtualMachineImport
\* resource is updated accordingly" (helper.go:161).
MissingSourceIsRecorded ==
    source = "gone" ~> imp.status \in Terminal

\* "found %d Harvester VirtualMachineImages with label, only expected to find
\* one" (virtualmachine.go:886).
AtMostOneImagePerDisk ==
    \A i, j \in Image : Exists(images[i]) /\ Exists(images[j]) /\ images[i].disk = images[j].disk
                        => i = j
=============================================================================
