---------------------------- MODULE ImportStatus ----------------------------
(***************************************************************************)
(* The values a VirtualMachineImport is made of, and the pure function     *)
(* that decides what its disks say: the status, the conditions and the     *)
(* disk list of pkg/apis/.../virtualmachines.go, and                       *)
(* evaluateDiskImportStatus of pkg/controllers/migration/helper.go.        *)
(*                                                                         *)
(* Abstracted: condition timestamps, messages and the False and Unknown    *)
(* condition values.  The controller only ever writes and tests conditions *)
(* whose value is True, so a list of conditions is the set of their types, *)
(* and MergeConditions and RemoveCondition are union and difference.       *)
(***************************************************************************)
EXTENDS Naturals, Sequences, FiniteSets

\* ImportStatus; "New" is the empty string of an object the controller has
\* not touched yet.
Statuses == {"New", "ImportValid", "ImportInvalid", "SourceReady",
             "DisksExported", "DiskImagesSubmitted", "DiskImagesFailed",
             "DiskImagesReady", "VMCreated", "VMRunning", "MigrationFailed"}

\* Types of the conditions of an import and of one of its disks.
ImportConds == {"ShutdownGuest", "PoweringOff", "PoweredOff", "Exported", "ExportFailed"}
DiskConds == {"Submitted", "Ready", "Failed"}

\* No further reconcile changes the status of an import that has one of these.
Terminal == {"ImportInvalid", "VMRunning", "MigrationFailed"}

-----------------------------------------------------------------------------
\* A variant of evaluateDiskImportStatus for the mutation runs.
EvaluateLastDiskOnly(disks) ==
    LET ok == "Ready" \in disks[Len(disks)].conds
        failed == \E j \in DOMAIN disks : "Failed" \in disks[j].conds
    IN  IF ok THEN "DiskImagesReady" ELSE IF failed THEN "DiskImagesFailed" ELSE "none"

\* The loop keeps two flags: ok is lost at the first disk that is not ready
\* and failed is set at the first one that failed, both for good.  So a disk
\* counts as passed when it and every disk before it are ready, and as failed
\* when it or any disk before it failed.  "none" is the nil result.
evaluateDiskImportStatus(disks) ==
    LET okAt(j)     == \A i \in 1..j : "Ready" \in disks[i].conds
        failedAt(j) == \E i \in 1..j : "Failed" \in disks[i].conds
        passedCount == Cardinality({j \in DOMAIN disks : okAt(j)})
        failedCount == Cardinality({j \in DOMAIN disks : failedAt(j)})
    IN  IF Len(disks) # failedCount + passedCount THEN "none"
        ELSE IF okAt(Len(disks)) THEN "DiskImagesReady"
        ELSE IF failedAt(Len(disks)) THEN "DiskImagesFailed"
        ELSE "none"
=============================================================================
