------------------------------ MODULE OvaExport ------------------------------
(***************************************************************************)
(* ExportVirtualMachine, GenerateVirtualMachine and Cleanup of the OVA     *)
(* client (pkg/source/ova/client.go), for several imports that the         *)
(* controller works on at the same time over one directory.                *)
(*                                                                         *)
(* The archive is downloaded; each VMDK in it is extracted under the name  *)
(* it has in the archive, hashed on the way, converted into an image whose *)
(* name starts with the name of the VM, and removed.  The archive stays,   *)
(* since the VM is generated from it after the images were imported.       *)
(*                                                                         *)
(* A file is the set of imports whose data it has, {} if there is no such  *)
(* file; Partial is in it when it is not complete.  os.Create truncates a  *)
(* file of that name, and whoever else has it open goes on writing to it;  *)
(* one who has a removed file open writes to no file.                      *)
(*                                                                         *)
(* archivePathFixed, removeUnlessFailed and CleanupImagesOfVM are variants *)
(* for the mutation runs.                                                  *)
(***************************************************************************)
EXTENDS Naturals, Sequences, FiniteSets

CONSTANTS
    Imports,     \* the imports; "partial" is none of them
    VMName,      \* VMName[i]: the name of the VM import i creates
    Href,        \* Href[i]: the names of the VMDKs in the archive of import i
    FaultKinds,  \* the faults this instance allows
    MaxFaults    \* ... and how many of them

Partial == "partial"
NoFile  == <<>>

VARIABLES
    pc,        \* where each import stands
    disk,      \* the disk an export works on
    err,       \* an export is about to fail
    file,      \* the served directory
    writing,   \* the file an export has open for writing
    disks,     \* DiskImportStatus of each import: disk numbers
    run,       \* "running", "ok" or "failed" for each export
    faults     \* number of faults so far

vars == <<pc, disk, err, file, writing, disks, run, faults>>

-----------------------------------------------------------------------------
(***************************************************************************)
(* File names and files                                                    *)
(***************************************************************************)
archivePathFixed(i) == <<"archive">>
generateArchivePath(i) == <<"ova", VMName[i]>>
vmdkPath(i, j) == <<"vmdk", Href[i][j]>>
generateImagePath(i, j) == <<"img", VMName[i], Href[i][j]>>

DiskNumbers(i) == 1..Len(Href[i])
Images(i) == {generateImagePath(i, j) : j \in DiskNumbers(i)}
Path == UNION {{generateArchivePath(i)} \cup Images(i)
               \cup {vmdkPath(i, j) : j \in DiskNumbers(i)} : i \in Imports}

Writers(p) == {i \in Imports : writing[i] = p}
IsWhole(p) == file[p] # {} /\ Partial \notin file[p] /\ Writers(p) = {}

\* os.Create: the file has the data of this import and of those who still write.
Create(i, p) ==
    /\ writing' = [writing EXCEPT ![i] = p]
    /\ file' = [file EXCEPT ![p] = {i} \cup Writers(p)]

RemoveAll(P) ==
    /\ file' = [p \in Path |-> IF p \in P THEN {} ELSE file[p]]
    /\ writing' = [i \in Imports |-> IF writing[i] \in P THEN NoFile ELSE writing[i]]

Init ==
    /\ pc = [i \in Imports |-> "download"] /\ disk = [i \in Imports |-> 0]
    /\ err = [i \in Imports |-> FALSE]
    /\ file = [p \in Path |-> {}] /\ writing = [i \in Imports |-> NoFile]
    /\ disks = [i \in Imports |-> <<>>]
    /\ run = [i \in Imports |-> "running"] /\ faults = 0

Fault(f) == f \in FaultKinds /\ faults < MaxFaults /\ faults' = faults + 1
NoFault == UNCHANGED faults
Files == <<file, writing>>
Result == <<disks, run>>

Goto(i, p) == pc' = [pc EXCEPT ![i] = p]

\* ExportVirtualMachine returns an error.
Fail(i) == Goto(i, "end") /\ run' = [run EXCEPT ![i] = "failed"] /\ UNCHANGED disks

-----------------------------------------------------------------------------
(***************************************************************************)
(* ExportVirtualMachine                                                    *)
(***************************************************************************)
\* downloadArchive: the request fails, or the file is created ...
downloadArchive(i) ==
    /\ pc[i] = "download"
    /\ \/ Create(i, generateArchivePath(i)) /\ Goto(i, "downloading") /\ UNCHANGED Result
       \/ Fail(i) /\ UNCHANGED Files
    /\ UNCHANGED <<disk, err, faults>>

\* ... and written, or written in part.
downloadEnds(i) ==
    /\ pc[i] = "downloading"
    /\ writing' = [writing EXCEPT ![i] = NoFile]
    /\ \/ Goto(i, "envelope") /\ UNCHANGED <<file, Result>>
       \/ /\ file' = IF writing[i] = NoFile THEN file
                     ELSE [file EXCEPT ![writing[i]] = @ \cup {Partial}]
          /\ Fail(i)
    /\ UNCHANGED <<disk, err, faults>>

NextDisk(i, n) ==
    IF n = Len(Href[i])
    THEN /\ Goto(i, "end") /\ run' = [run EXCEPT ![i] = "ok"] /\ UNCHANGED disk
    ELSE /\ Goto(i, "extract") /\ disk' = [disk EXCEPT ![i] = n + 1] /\ UNCHANGED run

\* readEnvelope and parseEnvelope.
readEnvelope(i) ==
    /\ pc[i] = "envelope"
    /\ \/ IsWhole(generateArchivePath(i)) /\ NextDisk(i, 0) /\ UNCHANGED disks
       \/ Fail(i) /\ UNCHANGED disk
    /\ UNCHANGED <<err, Files, faults>>

\* extractAndConvertVMDKToRAW: VMDK, manifest and its entry are found in the
\* archive and the VMDK file is created; or it returns before.
openVMDK(i) ==
    /\ pc[i] = "extract"
    /\ \/ /\ file[generateArchivePath(i)] # {}
          /\ Create(i, vmdkPath(i, disk[i])) /\ Goto(i, "copy") /\ UNCHANGED Result
       \/ Fail(i) /\ UNCHANGED Files
    /\ UNCHANGED <<disk, err, faults>>

\* The VMDK is copied and hashed on the way; the checksum is that of the bytes
\* that came out of the archive.
copyVMDK(i) ==
    /\ pc[i] = "copy"
    /\ \/ /\ writing' = [writing EXCEPT ![i] = NoFile]
          /\ Goto(i, "convert") /\ UNCHANGED <<err, file>>
       \/ /\ err' = [err EXCEPT ![i] = TRUE]
          /\ Goto(i, "remove") /\ UNCHANGED Files
    /\ UNCHANGED <<disk, Result, faults>>

\* ConvertVMDKtoRAW reads the file of that name.
convertToRAW(i) ==
    LET vmdk == vmdkPath(i, disk[i])  img == generateImagePath(i, disk[i]) IN
    /\ pc[i] = "convert"
    /\ \/ /\ file[vmdk] # {} /\ Partial \notin file[vmdk]
          /\ file' = [file EXCEPT ![img] = file[vmdk]] /\ UNCHANGED err
       \/ /\ file' \in {file, [file EXCEPT ![img] = {i, Partial}]}
          /\ err' = [err EXCEPT ![i] = TRUE]
    /\ Goto(i, "remove")
    /\ UNCHANGED <<disk, writing, Result, faults>>

removeUnlessFailed(i) ==
    /\ pc[i] = "remove"
    /\ IF err[i] THEN UNCHANGED Files ELSE RemoveAll({vmdkPath(i, disk[i])})
    /\ IF err[i] THEN Fail(i) /\ UNCHANGED disk
       ELSE /\ disks' = [disks EXCEPT ![i] = Append(@, disk[i])]
            /\ NextDisk(i, disk[i])
    /\ err' = [err EXCEPT ![i] = FALSE]
    /\ UNCHANGED faults

\* The deferred removal of the VMDK; then the disk is listed.
removeVMDK(i) ==
    /\ pc[i] = "remove"
    /\ RemoveAll({vmdkPath(i, disk[i])})
    /\ IF err[i] THEN Fail(i) /\ UNCHANGED disk
       ELSE /\ disks' = [disks EXCEPT ![i] = Append(@, disk[i])]
            /\ NextDisk(i, disk[i])
    /\ err' = [err EXCEPT ![i] = FALSE]
    /\ UNCHANGED faults

ExportVirtualMachine(i) ==
    \/ downloadArchive(i) \/ downloadEnds(i) \/ readEnvelope(i)
    \/ openVMDK(i) \/ copyVMDK(i) \/ convertToRAW(i) \/ removeVMDK(i)

-----------------------------------------------------------------------------
(***************************************************************************)
(* After the export                                                        *)
(***************************************************************************)
\* The images were imported and the VM is generated from the archive; without
\* the archive the import tries again and again.
GenerateVirtualMachine(i) ==
    /\ pc[i] = "end" /\ run[i] = "ok"
    /\ IsWhole(generateArchivePath(i))
    /\ Goto(i, "generated")
    /\ UNCHANGED <<disk, err, Files, Result, faults>>

Listed(i) == {generateImagePath(i, disks[i][n]) : n \in 1..Len(disks[i])}
CleanupImagesOfVM(i) == {generateArchivePath(i)} \cup {p \in Path : p[1] \in {"img", "vmdk"}}
CleanupPaths(i) == {generateArchivePath(i)} \cup Listed(i)

\* The archive and the images the list names are removed, each of them whether
\* or not the removal of another one fails.
Cleanup(i) ==
    /\ pc[i] = "generated" \/ (pc[i] = "end" /\ run[i] = "failed")
    /\ \E failing \in SUBSET {p \in CleanupPaths(i) : file[p] # {}} :
          /\ IF failing = {} THEN NoFault ELSE Fault("remove")
          /\ RemoveAll(CleanupPaths(i) \ failing)
          /\ Goto(i, IF failing = {} THEN "cleaned" ELSE "done")
    /\ UNCHANGED <<disk, err, Result>>

\* The process stops: the files are lost, and exports under way start again.
Crash ==
    /\ Fault("crash")
    /\ LET again == {i \in Imports : run[i] = "running"} IN
       /\ pc' = [i \in Imports |-> IF i \in again THEN "download" ELSE pc[i]]
       /\ disk' = [i \in Imports |-> IF i \in again THEN 0 ELSE disk[i]]
       /\ disks' = [i \in Imports |-> IF i \in again THEN <<>> ELSE disks[i]]
    /\ err' = [i \in Imports |-> FALSE]
    /\ RemoveAll(Path)
    /\ UNCHANGED run

Next == Crash \/ \E i \in Imports :
            ExportVirtualMachine(i) \/ GenerateVirtualMachine(i) \/ Cleanup(i)

Spec == Init /\ [][Next]_vars

-----------------------------------------------------------------------------
(***************************************************************************)
(* Properties                                                              *)
(***************************************************************************)
TypeOK ==
    /\ pc \in [Imports -> {"download", "downloading", "envelope", "extract", "copy", "convert",
                           "remove", "end", "generated", "cleaned", "done"}]
    /\ \A i \in Imports : disk[i] \in 0..Len(Href[i])
    /\ err \in [Imports -> BOOLEAN]
    /\ file \in [Path -> SUBSET (Imports \cup {Partial})]
    /\ writing \in [Imports -> Path \cup {NoFile}]
    /\ \A i \in Imports : disks[i] \in Seq(1..Len(Href[i]))
    /\ run \in [Imports -> {"running", "ok", "failed"}] /\ faults \in 0..MaxFaults

\* The VM of an import can be generated after its images were imported: until
\* then nothing but a restart, in particular no clean-up of another import, takes
\* its archive.
HasArchive(i) == pc[i] = "end" /\ run[i] = "ok" => IsWhole(generateArchivePath(i))
ArchiveKept == [][\A i \in Imports : HasArchive(i) => HasArchive(i)' \/ Crash]_vars

\* What the clean-up of one import removes, no other import still needs.
HasImages(i) == pc[i] \in {"end", "generated"} => \A p \in Listed(i) : file[p] # {}
ListedImagesKept == [][\A i \in Imports : HasImages(i) => HasImages(i)' \/ Crash]_vars

\* No VMDK is left in the directory once no export is under way, although the
\* exports create, truncate and remove files of the same name.
VMDKsRemoved ==
    (\A i \in Imports : run[i] # "running") => \A p \in Path : p[1] = "vmdk" => file[p] = {}

\* The outcome of each export is one the import controller is prepared for.
ContractOf(i) == INSTANCE ExportContract WITH
    N      <- Len(Href[i]),
    run    <- run[i],
    listed <- IF run[i] = "running" THEN 0 ELSE Len(disks[i]),
    files  <- {j \in DiskNumbers(i) : IsWhole(generateImagePath(i, j))}
              \cup (IF \E p \in {generateArchivePath(i)} \cup Images(i) :
                          file[p] # {} /\ ~IsWhole(p) THEN {0} ELSE {})
ImplementsContract ==
    [][\A i \in Imports : ContractOf(i)!Next \/ UNCHANGED ContractOf(i)!vars]_vars
=============================================================================
