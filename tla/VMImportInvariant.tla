-------------------------- MODULE VMImportInvariant --------------------------
(***************************************************************************)
(* The inductive invariant behind the theorems of VMImport.  It ties the    *)
(* three copies of the import (the object, the cached one, the worker's     *)
(* one) to the images and to each other, the worker's step to the status it *)
(* works on, and the rest of the controller to what will wake it up.        *)
(***************************************************************************)
EXTENDS VMImport

\* Every disk has been found to be imported ...
Built == {"DiskImagesReady", "VMCreated", "VMRunning"}
\* ... once and for all, although the import may still be given up.
Settled == Built \cup {"MigrationFailed"}

-----------------------------------------------------------------------------
\* What the conditions of the disk d, the j-th, say holds of its image.
DiskFits(d, j, imgs, phase) ==
    /\ d.conds # {} => /\ "Submitted" \in d.conds /\ d.image \in Image
                       /\ imgs[d.image].st # "none" /\ imgs[d.image].disk = j
    /\ "Ready" \in d.conds => imgs[d.image].st = "imported" \/ phase = "gone"
    /\ "Failed" \in d.conds => imgs[d.image].st \in {"failed", "gone"}
Fits(o, imgs, phase) == \A j \in DOMAIN o.disks : DiskFits(o.disks[j], j, imgs, phase)

\* What the status of a copy says holds of its disks.
StatusOK(o) ==
    /\ o.status \in {"DiskImagesSubmitted", "DiskImagesFailed"} \cup Built => o.disks # <<>>
    /\ o.status \in {"DiskImagesSubmitted", "DiskImagesFailed"} =>
         \A j \in DOMAIN o.disks : o.disks[j].conds # {}
    /\ o.status \in Built => \A j \in DOMAIN o.disks : "Ready" \in o.disks[j].conds

\* A copy that was taken after the verdict shows the disks the object has.
Agrees(o, object) == o.status \in Built => object.status \in Settled /\ object.disks = o.disks

\* The images in the cache are images of the cluster, perhaps older ones.
ImageCacheOK ==
    \A i \in Image : Exists(icache[i]) => images[i].st # "none" /\ images[i].disk = icache[i].disk

\* The object and the caches tell the truth about the images.
ServerOK ==
    /\ StatusOK(imp) /\ Fits(imp, images, imp.phase)
    /\ StatusOK(cache) /\ Fits(cache, images, imp.phase)
    /\ Agrees(cache, imp) /\ (fresh => cache = imp)
    /\ ImageCacheOK

-----------------------------------------------------------------------------
UpdateSteps == {"update", "updateErr"}

\* The status of the worker's copy at each step before the update.
StepStatus ==
    [preflight |-> {"New"}, sanitize |-> {"ImportValid"}, export |-> {"SourceReady"},
     exporting |-> {"SourceReady"}, submit |-> {"DisksExported"},
     poll |-> {"DiskImagesSubmitted"}, resubmit |-> {"DiskImagesFailed"},
     build |-> {"DiskImagesReady"}, pvc |-> {"DiskImagesReady"}, check |-> {"VMCreated"},
     tidy |-> {"VMRunning"}, cleanup |-> {"VMRunning", "MigrationFailed"}]

\* A copy o of the newest resourceVersion, at step p, is the object but for
\* what this reconcile has changed; an update never touches an import that
\* has ended, and leaves the disks of a settled one as they are.
UpToDate(p, o, object) ==
    /\ o.phase = object.phase
    /\ p \notin UpdateSteps =>
         /\ o.status = object.status
         /\ p \notin {"submit", "poll", "resubmit"} => o.disks = object.disks
    /\ p \in UpdateSteps =>
         /\ object.status \notin Terminal
         /\ object.status \in Settled => o.status \in Settled /\ o.disks = object.disks

\* The copy o is one the worker may have at step p.
CopyAt(p, o) ==
    /\ StatusOK(o)
    /\ p \notin UpdateSteps => Agrees(o, imp)
    /\ p \in DOMAIN StepStatus => o.status \in StepStatus[p]
    /\ wfresh => UpToDate(p, o, imp)

WorkerOK == Fits(w, images, imp.phase) /\ CopyAt(pc, w)

\* The VM was built from disks that are the import's for good.
VMOK ==
    vm \in {"created", "ready"} =>
        /\ imp.status \in Settled /\ imp.disks # <<>>
        /\ \A j \in DOMAIN imp.disks : "Ready" \in imp.disks[j].conds

\* Whoever has seen the source VM powered off can rely on it, unless somebody
\* powers it on again.
SeenOff == \/ "PoweredOff" \in imp.conds \cup cache.conds \cup w.conds
           \/ pc = "exporting"
PowerOK == "poweron" \notin FaultKinds /\ SeenOff => power = "off"

\* What the cache, the queue and the retries can never undo: every copy tells
\* the truth about the images, and the object only moves ahead of its copies
\* (OnVirtualMachineChange over the informer cache).  VMHasItsDisks and
\* TerminalStays follow from it, and it is inductive where they are not.
DataInv == TypeOK /\ ServerOK /\ WorkerOK /\ VMOK /\ PowerOK

-----------------------------------------------------------------------------
\* The cache never falls behind the worker: an object that is being deleted is
\* only ever handed to OnVirtualMachineRemove.
PhaseOK ==
    /\ imp.phase = "live" => cache.phase = "live"
    /\ imp.phase # "gone" => cache.phase # "gone"
    /\ imp.phase = "gone" => cache.phase # "live"
    /\ pc = "idle" => w = NewImport /\ ~wfresh
    /\ pc \in {"remove", "finalize"} => w.phase = "deleting" /\ cache.phase # "live"
    /\ pc \notin {"idle", "remove", "finalize"} => w.phase = "live" /\ imp.phase # "gone"

\* What triggerStop asks for, and what the copy o says of the export.
StopRequest == IF ForceStop THEN "PoweringOff" ELSE "ShutdownGuest"
Stopped(o) == {StopRequest, "PoweredOff"} \subseteq o.conds
ExportDone(o) == o.conds \cap {"Exported", "ExportFailed"} # {}

\* Conditions are only added, and an export is recorded by a worker whose cache
\* held the stop request and the power off already.
CondsOK ==
    /\ cache.conds \subseteq imp.conds
    /\ wfresh => imp.conds \subseteq w.conds
    /\ pc \notin UpdateSteps => w.conds \subseteq cache.conds
    /\ ExportDone(imp) => Stopped(cache)
    /\ pc \notin UpdateSteps \cup {"idle"} /\ ExportDone(imp) => Stopped(w)
    /\ pc \in UpdateSteps /\ ExportDone(w) => Stopped(w) /\ Stopped(cache)
    /\ pc = "exporting" => Stopped(w) /\ ~ExportDone(w)

\* A copy that shows an import that has ended shows it as it is.
Ended(o, object) == o.status \in Terminal => object.status = o.status
EndOK == Ended(cache, imp) /\ (pc \notin UpdateSteps => Ended(w, imp))

-----------------------------------------------------------------------------
\* Some disk of o will never be in an image, unless the disk is submitted.
Incomplete(o, imgs) ==
    \E j \in DOMAIN o.disks :
        \/ o.disks[j].image = NoImage
        \/ o.disks[j].image \in Image /\ imgs[o.disks[j].image].st \in {"failed", "gone"}
AllReady(o) == \A j \in DOMAIN o.disks : "Ready" \in o.disks[j].conds

\* The disks of o can become complete only while the verdict is awaited, and
\* are complete after it.
MayComplete(o) == \/ o.status \in {"DiskImagesSubmitted"} \cup Built
                  \/ o.status = "MigrationFailed" /\ AllReady(o)
ListOK(o) ==
    /\ \A j \in DOMAIN o.disks : o.disks[j].conds = {} => o.disks[j].image = NoImage
    /\ o.disks # <<>> => ExportDone(o)
VerdictOK(o, imgs) == MayComplete(o) \/ o.disks = <<>> \/ Incomplete(o, imgs)
VMSeen(o, machine) == /\ o.status = "VMCreated" => machine \in {"created", "ready"}
                      /\ o.status = "VMRunning" => machine = "ready"

\* The disks of both refer to the same images.
ImagesOf(o) == [j \in DOMAIN o.disks |-> o.disks[j].image]
SameImages(o, object) ==
    \/ ImagesOf(o) = ImagesOf(object)
    \/ object.disks = <<>> /\ \A j \in DOMAIN o.disks : o.disks[j].image = NoImage

\* Where an update may take an import of the given status.
Arrows ==
    [s \in Statuses |->
        CASE s = "New"                 -> {"ImportValid", "ImportInvalid"}
          [] s = "ImportValid"         -> {"SourceReady", "ImportInvalid"}
          [] s = "SourceReady"         -> {"SourceReady", "DisksExported", "MigrationFailed"}
          [] s = "DisksExported"       -> {"DisksExported", "DiskImagesSubmitted", "ImportInvalid"}
          [] s = "DiskImagesSubmitted" -> {"DiskImagesReady", "DiskImagesFailed"}
          [] s = "DiskImagesFailed"    -> {"SourceReady"}
          [] s = "DiskImagesReady"     -> {"VMCreated", "MigrationFailed"}
          [] s = "VMCreated"           -> {"VMRunning"}
          [] s \in Terminal            -> {}]

\* What a copy of the newest resourceVersion will do to the object.
WriteOK ==
    wfresh =>
        /\ pc \in UpdateSteps => w.status \in Arrows[imp.status]
        /\ pc # "submit" /\ imp.status # "DisksExported" => SameImages(w, imp)

\* A disk that waits for a verdict is the only thing that completes an import,
\* and what the VM was seen to be it is (ImportLifecycle).
ProgressOK ==
    /\ ListOK(imp) /\ ListOK(cache) /\ ListOK(w)
    /\ VMSeen(imp, vm) /\ VMSeen(cache, vm) /\ VMSeen(w, vm)
    /\ VerdictOK(imp, images) /\ VerdictOK(cache, images)
    /\ pc # "submit" => VerdictOK(w, images)
    /\ WriteOK

-----------------------------------------------------------------------------
\* The watch on the image i is still to come, or Harvester is still at work.
Waiting(i) == /\ i \in Image /\ Exists(images[i]) /\ images[i].owned
              /\ images[i].st = "importing" \/ icache[i] # images[i]

\* The controller gives an image up only when the import no longer needs it,
\* and has not seen more of an image than there is.
ImagesOK ==
    \A i \in Image :
        /\ Exists(images[i]) /\ ~images[i].owned => imp.status \in Settled
        /\ images[i].st \in {"none", "importing"} => icache[i].st \in {"none", images[i].st}

\* The verdict on each disk the scan has passed is known or still to come.
Scanned ==
    \A j \in 1..k : w.disks[j].conds \cap {"Ready", "Failed"} # {} \/ Waiting(w.disks[j].image)

\* Whatever the worker does not do itself, something will wake it up for.
WakeOK ==
    /\ pc # "idle" /\ ~wfresh => ~fresh \/ queued
    /\ pc = "update" /\ wfresh /\ w = imp => timer \/ queued
    /\ pc = "poll" /\ wfresh => queued \/ Scanned
    /\ pc = "idle" =>
         \/ queued \/ timer \/ ~fresh \/ imp.phase = "gone" \/ imp.status \in Terminal
         \/ /\ imp.status = "DiskImagesSubmitted"
            /\ \E j \in DOMAIN imp.disks : Waiting(imp.disks[j].image)

\* The whole of it: with the phases and the conditions the other action
\* properties follow, with the progress the lifecycle, with the wake-ups
\* RestsOnlyWhenDone.
IInv == DataInv /\ PhaseOK /\ CondsOK /\ EndOK /\ ProgressOK /\ ImagesOK /\ WakeOK
=============================================================================
