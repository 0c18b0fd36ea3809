------------------------------- MODULE Exports -------------------------------
(***************************************************************************)
(* ExportVirtualMachine of the interface VirtualMachineOperations          *)
(* (pkg/controllers/migration/virtualmachine.go) by whichever client the   *)
(* source of an import asks for.  The clients share no state but the       *)
(* directory, in which the names of their files differ, so one client is   *)
(* at work here: OpenstackExport, whose variables keep their names, or     *)
(* VMware (V) or OVA (A).                                                  *)
(***************************************************************************)
EXTENDS OpenstackExport

CONSTANTS
    Items, Skipped,  \* VMware: the items of the lease, those that are no VMDK
    VmwareRuns,      \* VMware: exports of the VM
    Imports,         \* OVA: the imports at work at the same time
    VMName, Href,    \* OVA: the VM and the VMDKs of each import
    OtherFaults      \* the number of faults at VMware or OVA

VARIABLES
    client,  \* the client at work
    vpc, item, vattempt, lease, updater, tmp, vmdks, vdisks, images, vrun,
    cleaned, undeleted, vfaults,
    apc, adisk, aerr, file, writing, adisks, arun, afaults

vmware == <<vpc, item, vattempt, lease, updater, tmp, vmdks, vdisks, images, vrun,
            cleaned, undeleted, vfaults>>
ova == <<apc, adisk, aerr, file, writing, adisks, arun, afaults>>

V == INSTANCE VmwareExport WITH
    MaxRuns <- VmwareRuns, MaxFaults <- OtherFaults,
    pc <- vpc, attempt <- vattempt, disks <- vdisks, run <- vrun, faults <- vfaults

A == INSTANCE OvaExport WITH
    MaxFaults <- OtherFaults,
    pc <- apc, disk <- adisk, err <- aerr, disks <- adisks, run <- arun, faults <- afaults

\* The VMs that imports create over one directory have different names.
ASSUME ExportsAssumption ==
    /\ Items \in Nat /\ VmwareRuns \in Nat \ {0} /\ OtherFaults \in Nat
    /\ A!Partial \notin Imports
    /\ \A i \in Imports : Len(Href[i]) \in Nat
    /\ \A i, k \in Imports : VMName[i] = VMName[k] => i = k

allVars == <<vars, vmware, ova, client>>

ExportsInit == /\ client \in {"openstack", "vmware", "ova"}
               /\ Init /\ V!Init /\ A!Init

ExportsNext ==
    /\ UNCHANGED client
    /\ \/ client = "openstack" /\ Next   /\ UNCHANGED <<vmware, ova>>
       \/ client = "vmware"    /\ V!Next /\ UNCHANGED <<vars, ova>>
       \/ client = "ova"       /\ A!Next /\ UNCHANGED <<vars, vmware>>

\* The goroutine of an export runs.  Nothing is assumed of OpenStack.
ExportsSpec ==
    /\ ExportsInit /\ [][ExportsNext]_allVars
    /\ WF_allVars(client = "openstack" /\ ExportVirtualMachine /\ UNCHANGED <<client, vmware, ova>>)

-----------------------------------------------------------------------------
\* An export from OpenStack ends, whatever OpenStack does: every wait is bounded.
ExportEnds == (client = "openstack") => <>[](run # "running")

\* VMware: an export that has ended keeps neither directory nor lease, but for
\* what an early return leaves.
ExportTidiesUp == V!ExportTidiesUp

\* VMware: a failed conversion leaves at most the image that was being written.
AtMostOneImageLost == V!AtMostOneImageLost

\* OVA: only a restart takes the archive before the VM was generated from it.
ArchiveKept == A!ArchiveKept

\* OVA: no clean-up removes an image that another import has listed.
ListedImagesKept == A!ListedImagesKept

\* OVA: exports of archives with the same names leave no VMDK behind.
VMDKsRemoved == A!VMDKsRemoved

\* VMware and OVA: each export ends as the import controller expects.
OthersImplementContract == V!ImplementsContract /\ A!ImplementsContract
=============================================================================
