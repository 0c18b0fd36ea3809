----------------------------- MODULE VmwareExport -----------------------------
(***************************************************************************)
(* ExportVirtualMachine of the VMware client (pkg/source/vmware/client.go) *)
(* and the removal of what it leaves in the served directory               *)
(* (Cleanup, RemoveTempImageFiles of pkg/source/helper.go).                *)
(*                                                                         *)
(* The export takes an NFC lease on the VM, which an updater keeps alive,  *)
(* downloads the VMDK items of the lease into a temporary directory and    *)
(* converts them into the served directory.  The disk list is appended to  *)
(* while downloading and names the file each disk has at that moment.      *)
(*                                                                         *)
(* When an export has failed its import ends; somebody may create another  *)
(* import of the same VM, which the same process works on.                 *)
(*                                                                         *)
(* ReturnKeepingDir, downloadOrSkip and convertRenameLast are variants for *)
(* the mutation runs.                                                      *)
(***************************************************************************)
EXTENDS Naturals, Sequences, FiniteSets

CONSTANTS
    Items,       \* the lease has the items 1..Items
    Skipped,     \* the ones among them that are not VMDKs
    MaxRuns,     \* exports of this VM
    FaultKinds,  \* the faults this instance allows
    MaxFaults    \* ... and how many of them

Disks == (1..Items) \ Skipped

VARIABLES
    pc,        \* where the export stands
    item,      \* the lease item, then the disk, the loops have handled last
    attempt,   \* how often an export of the VM has been started
    lease,     \* the lease of each attempt
    updater,   \* the attempts whose lease is kept alive
    tmp,       \* the attempts whose temporary directory exists
    vmdks,     \* the items downloaded into the directory of this attempt
    disks,     \* DiskImportStatus: [item, suffix], suffix ".vmdk" or ".img"
    images,    \* images in the served directory: "none", "partial" or "whole"
    run,       \* "running", "ok" or "failed"
    cleaned,   \* Cleanup has run
    undeleted, \* history: the items whose image could not be removed
    faults     \* number of faults so far

vars == <<pc, item, attempt, lease, updater, tmp, vmdks, disks, images, run, cleaned, undeleted, faults>>

LeaseState == {"none", "ready", "completed", "aborted"}

Init ==
    /\ pc = "mkdir" /\ item = 0 /\ attempt = 1
    /\ lease = [a \in 1..MaxRuns |-> "none"] /\ updater = {} /\ tmp = {}
    /\ vmdks = {} /\ disks = <<>> /\ images = [j \in 1..Items |-> "none"]
    /\ run = "running" /\ cleaned = FALSE /\ undeleted = {} /\ faults = 0

Fault(f) == f \in FaultKinds /\ faults < MaxFaults /\ faults' = faults + 1
NoFault == UNCHANGED faults

source == <<lease, updater>>
result == <<disks, images>>
ending == <<cleaned, undeleted>>

\* The export goes on at p, having handled item n.
Goto(p, n) == pc' = p /\ item' = n /\ UNCHANGED <<attempt, run, ending>>

ReturnKeepingDir(r, deferred) ==
    /\ pc' = "end" /\ run' = r /\ item' = 0 /\ vmdks' = {}
    /\ UNCHANGED <<tmp, attempt, ending>>

\* ExportVirtualMachine returns; the deferred removal is registered or not.
Return(r, deferred) ==
    /\ pc' = "end" /\ run' = r /\ item' = 0 /\ vmdks' = {}
    /\ tmp' = IF deferred THEN tmp \ {attempt} ELSE tmp
    /\ UNCHANGED <<attempt, ending>>

-----------------------------------------------------------------------------
(***************************************************************************)
(* Directory, lease, updater                                               *)
(***************************************************************************)
mkdirTemp ==
    /\ pc = "mkdir"
    /\ \/ tmp' = tmp \cup {attempt} /\ Goto("lease", 0) /\ UNCHANGED vmdks
       \/ Return("failed", FALSE)
    /\ UNCHANGED <<source, result, faults>>

\* findVM and Export: vSphere grants no lease while another one is held.
exportLease ==
    /\ pc = "lease"
    /\ \/ /\ \A a \in 1..MaxRuns : lease[a] # "ready"
          /\ lease' = [lease EXCEPT ![attempt] = "ready"]
          /\ Goto("wait", 0) /\ UNCHANGED <<tmp, vmdks>>
       \/ Return("failed", FALSE) /\ UNCHANGED lease
    /\ UNCHANGED <<updater, result, faults>>

waitLease ==
    /\ pc = "wait"
    /\ \/ updater' = updater \cup {attempt} /\ Goto("download", 0) /\ UNCHANGED <<tmp, vmdks>>
       \/ Return("failed", FALSE) /\ UNCHANGED updater
    /\ UNCHANGED <<lease, result, faults>>

-----------------------------------------------------------------------------
(***************************************************************************)
(* Download                                                                *)
(***************************************************************************)
\* A lease item that is not a VMDK is skipped.
skipItem ==
    /\ pc = "download" /\ item < Items /\ item + 1 \in Skipped
    /\ Goto("download", item + 1)
    /\ UNCHANGED <<source, tmp, vmdks, result, faults>>

downloadOrSkip ==
    /\ pc = "download" /\ item < Items /\ item + 1 \notin Skipped
    /\ \/ /\ vmdks' = vmdks \cup {item + 1}
          /\ disks' = Append(disks, [item |-> item + 1, suffix |-> ".vmdk"])
       \/ UNCHANGED <<vmdks, disks>>
    /\ Goto("download", item + 1)
    /\ UNCHANGED <<source, tmp, images, faults>>

\* The disk is listed under the name of the VMDK.  A failure, of the request
\* for the hardware devices before the first item too, ends the export: the
\* updater is not stopped and the lease neither completed nor aborted.
downloadFile ==
    /\ pc = "download" /\ item < Items /\ item + 1 \notin Skipped
    /\ \/ /\ vmdks' = vmdks \cup {item + 1}
          /\ disks' = Append(disks, [item |-> item + 1, suffix |-> ".vmdk"])
          /\ Goto("download", item + 1) /\ UNCHANGED tmp
       \/ Return("failed", TRUE) /\ UNCHANGED disks
    /\ UNCHANGED <<source, images, faults>>

\* The updater is stopped; an error of Complete is ignored.
completeLease ==
    /\ pc = "download" /\ item = Items
    /\ updater' = updater \ {attempt}
    /\ \/ lease' = [lease EXCEPT ![attempt] = IF @ = "ready" THEN "completed" ELSE @] /\ NoFault
       \/ Fault("api") /\ UNCHANGED lease
    /\ Goto("convert", 0)
    /\ UNCHANGED <<tmp, vmdks, result>>

-----------------------------------------------------------------------------
(***************************************************************************)
(* Conversion                                                              *)
(***************************************************************************)
convertRenameLast ==
    /\ pc = "convert" /\ item < Len(disks)
    /\ LET d == disks[item + 1] IN
          \/ /\ images' = [images EXCEPT ![d.item] = "whole"]
             /\ disks' = IF item + 1 = Len(disks)
                         THEN [j \in 1..Len(disks) |-> [disks[j] EXCEPT !.suffix = ".img"]]
                         ELSE disks
             /\ Goto("convert", item + 1) /\ UNCHANGED <<tmp, vmdks>>
          \/ /\ images' = [images EXCEPT ![d.item] = "partial"]
             /\ Return("failed", TRUE) /\ UNCHANGED disks
    /\ UNCHANGED <<source, faults>>

\* ConvertVMDKtoRAW: the entry gets the name of the image when it is complete
\* and the VMDK is removed.  A failed conversion may leave a part of an image.
convertToRAW ==
    /\ pc = "convert" /\ item < Len(disks)
    /\ LET d == disks[item + 1] IN
          \/ /\ images' = [images EXCEPT ![d.item] = "whole"]
             /\ disks' = [disks EXCEPT ![item + 1].suffix = ".img"]
             /\ vmdks' = vmdks \ {d.item}
             /\ Goto("convert", item + 1) /\ UNCHANGED tmp
          \/ /\ images' \in {images, [images EXCEPT ![d.item] = "partial"]}
             /\ Return("failed", TRUE) /\ UNCHANGED disks
    /\ UNCHANGED <<source, faults>>

exportDone ==
    /\ pc = "convert" /\ item = Len(disks)
    /\ Return("ok", TRUE)
    /\ UNCHANGED <<source, result, faults>>

ExportVirtualMachine ==
    \/ mkdirTemp \/ exportLease \/ waitLease
    \/ skipItem \/ downloadFile \/ completeLease
    \/ convertToRAW \/ exportDone

-----------------------------------------------------------------------------
(***************************************************************************)
(* After the export, and around it                                         *)
(***************************************************************************)
Named == {disks[j].item : j \in {i \in 1..Len(disks) : disks[i].suffix = ".img"}}
Present == {j \in 1..Items : images[j] # "none"}

\* RemoveTempImageFiles: a file that is missing is no error, and the removal
\* goes on with the next file after one that fails.
Removed(failing) == Named \ failing

\* Cleanup: the files the list names are removed.  It may be called again.
Cleanup ==
    /\ run # "running"
    /\ \E failing \in SUBSET (Named \cap Present) :
          /\ IF failing = {} THEN NoFault ELSE Fault("remove")
          /\ images' = [j \in 1..Items |-> IF j \in Removed(failing) THEN "none" ELSE images[j]]
          /\ undeleted' = failing
    /\ cleaned' = TRUE
    /\ UNCHANGED <<pc, item, attempt, source, tmp, vmdks, disks, run>>

\* A lease nobody keeps alive runs out after some minutes.
LeaseExpires ==
    /\ \E a \in 1..MaxRuns : /\ lease[a] = "ready" /\ a \notin updater
                             /\ ~(a = attempt /\ pc \in {"wait", "download"})
                             /\ lease' = [lease EXCEPT ![a] = "aborted"]
    /\ UNCHANGED <<pc, item, attempt, updater, tmp, vmdks, disks, images, run, ending, faults>>

\* Another import of the VM is created after one has failed and was cleaned up.
ImportAgain ==
    /\ run = "failed" /\ cleaned /\ attempt < MaxRuns
    /\ pc' = "mkdir" /\ item' = 0 /\ attempt' = attempt + 1
    /\ vmdks' = {} /\ disks' = <<>> /\ images' = [j \in 1..Items |-> "none"]
    /\ run' = "running" /\ cleaned' = FALSE /\ undeleted' = {}
    /\ UNCHANGED <<source, tmp, faults>>

\* The process stops: only the leases remain, and nobody keeps them alive.
Crash ==
    /\ Fault("crash") /\ run = "running" /\ attempt < MaxRuns
    /\ pc' = "mkdir" /\ item' = 0 /\ attempt' = attempt + 1
    /\ updater' = {} /\ tmp' = {} /\ vmdks' = {} /\ disks' = <<>>
    /\ images' = [j \in 1..Items |-> "none"]
    /\ UNCHANGED <<lease, run, ending>>

Next == ExportVirtualMachine \/ Cleanup \/ LeaseExpires \/ ImportAgain \/ Crash

Spec == Init /\ [][Next]_vars

-----------------------------------------------------------------------------
(***************************************************************************)
(* Properties                                                              *)
(***************************************************************************)
TypeOK ==
    /\ pc \in {"mkdir", "lease", "wait", "download", "convert", "end"}
    /\ item \in 0..Items /\ attempt \in 1..MaxRuns
    /\ lease \in [1..MaxRuns -> LeaseState]
    /\ updater \subseteq 1..MaxRuns /\ tmp \subseteq 1..MaxRuns
    /\ vmdks \subseteq Disks
    /\ disks \in Seq([item : Disks, suffix : {".vmdk", ".img"}])
    /\ images \in [1..Items -> {"none", "partial", "whole"}]
    /\ run \in {"running", "ok", "failed"} /\ cleaned \in BOOLEAN
    /\ undeleted \subseteq Disks /\ faults \in 0..MaxFaults

\* The two loops over one list: whatever the export converted before it failed
\* is under its image name in the list, so the clean-up finds it, also when it
\* cannot remove another file; at most the one image that was being written
\* when the export failed is left for good.
AtMostOneImageLost ==
    LET lost == Present \ (undeleted \cup IF cleaned THEN {} ELSE Named)
    IN  /\ run = "failed" => Cardinality(lost) <= 1
        /\ run = "ok" => lost = {}

\* An export that has ended keeps neither directory nor lease: a directory stays
\* only of an export that got no lease it could use, and an updater keeps a lease
\* only of an export that failed while it downloaded.
ExportTidiesUp ==
    /\ \A a \in tmp : \/ (a = attempt /\ run = "running")
                     \/ (a \notin updater /\ lease[a] # "completed")
    /\ run = "ok" => attempt \notin updater

\* The outcome is one the import controller is prepared for.
DiskNumber(j) == Cardinality({i \in Disks : i <= j})
Contract == INSTANCE ExportContract WITH
    N      <- Cardinality(Disks),
    listed <- IF run = "running" THEN 0 ELSE Len(disks),
    files  <- {DiskNumber(j) : j \in {i \in Disks : images[i] = "whole"}}
              \cup (IF \E i \in Disks : images[i] = "partial" THEN {0} ELSE {})
ImplementsContract == Contract!Spec
=============================================================================
