--------------------------- MODULE ImportLifecycle ---------------------------
(***************************************************************************)
(* What a VirtualMachineImport promises its user, without reconciles,      *)
(* caches or retries: the status moves along the arrows of                 *)
(* OnVirtualMachineChange and no others, a disk verdict of Ready means the *)
(* data of every disk is in the cluster and stays there, the VM is created *)
(* once and only from such disks, and the import is reported Running only  *)
(* when the VM is.                                                         *)
(***************************************************************************)
VARIABLES
    status,    \* status.importStatus
    complete,  \* every disk of the VM is in an imported image of its own
    vm,        \* the target VM: "none", "created" or "ready"
    removed    \* the object is gone from the API server

vars == <<status, complete, vm, removed>>

Init == status = "New" /\ complete = FALSE /\ vm = "none" /\ removed = FALSE

Move(from, to) == status = from /\ status' \in to /\ UNCHANGED <<vm, removed>>

CheckSpec == Move("New", {"ImportValid", "ImportInvalid"}) /\ UNCHANGED complete
Sanitize  == Move("ImportValid", {"SourceReady", "ImportInvalid"}) /\ UNCHANGED complete

\* The disk list is written, and after a resubmit kept.
Export == Move("SourceReady", {"DisksExported", "MigrationFailed"}) /\ UNCHANGED complete

\* The images are recorded; some or all may have been imported already.
Submit == Move("DisksExported", {"DisksExported", "DiskImagesSubmitted", "ImportInvalid"})
          /\ complete' \in BOOLEAN

\* Harvester imports the last image.
ImportData == status = "DiskImagesSubmitted" /\ complete' = TRUE /\ UNCHANGED <<status, vm, removed>>

Judge == /\ Move("DiskImagesSubmitted", {"DiskImagesReady", "DiskImagesFailed"})
         /\ status' = "DiskImagesReady" => complete
         /\ UNCHANGED complete
Resubmit == Move("DiskImagesFailed", {"SourceReady"}) /\ UNCHANGED complete

\* An import given up at the last moment may still get its VM: a reconcile
\* that works on the copy from before does not know.
CreateVM == /\ status \in {"DiskImagesReady", "MigrationFailed"}
            /\ complete /\ vm = "none" /\ vm' = "created"
            /\ UNCHANGED <<status, complete, removed>>
RecordVM == Move("DiskImagesReady", {"VMCreated"}) /\ vm # "none" /\ UNCHANGED complete
Abort    == Move("DiskImagesReady", {"MigrationFailed"}) /\ UNCHANGED complete

Boot == vm = "created" /\ vm' = "ready" /\ UNCHANGED <<status, complete, removed>>
ReportRunning == Move("VMCreated", {"VMRunning"}) /\ vm = "ready" /\ UNCHANGED complete

\* Once the import is removed its images may be collected.
Remove  == ~removed /\ removed' = TRUE /\ UNCHANGED <<status, complete, vm>>
Collect == removed /\ complete' \in BOOLEAN /\ UNCHANGED <<status, vm, removed>>

Next == CheckSpec \/ Sanitize \/ Export \/ Submit \/ ImportData \/ Judge \/ Resubmit
        \/ CreateVM \/ RecordVM \/ Abort \/ Boot \/ ReportRunning \/ Remove \/ Collect

Spec == Init /\ [][Next]_vars
=============================================================================
