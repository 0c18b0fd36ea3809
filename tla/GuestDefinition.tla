--------------------------- MODULE GuestDefinition ---------------------------
(***************************************************************************)
(* What a source VM is turned into, without its networks: firmware, CPUs   *)
(* and, for an OVA, the list of disks.  GenerateVirtualMachine and         *)
(* getFirmwareSettings of the three source clients, parseEnvelope of       *)
(* pkg/source/ova/client.go, NewVirtualMachineSpec and                     *)
(* ApplyFirmwareSettings of pkg/source/helper.go.                          *)
(*                                                                         *)
(* The network adapters of an envelope are in NetworkMapping.  An envelope *)
(* has one hardware section here.                                          *)
(*                                                                         *)
(* lastItemOfID, lastVolume and applyWithoutSMM are variants for the       *)
(* mutation runs.                                                          *)
(***************************************************************************)
EXTENDS Orders, Sequences

CONSTANTS
    VmwareGuests,     \* [efi, secureBoot, tpm, cpus, cores]
    OpenstackGuests,  \* [volumes, image, cpus]: volumes is a sequence of [bootable, image],
                      \* image[i] the properties of image i, [efi, secureBoot, tpm]
    OvaGuests         \* [items, storage, config, disks, references]

VARIABLES
    kind,     \* the kind of the source
    guest,    \* the VM at the source, one of the guests of the kind
    pc,       \* where GenerateVirtualMachine stands
    next,     \* the volume or item handled last
    imageID,  \* the image found so far (OpenStack)
    fw,       \* Firmware
    hw,       \* Hardware
    dis,      \* the disks found so far: [name, size, bus]
    spec      \* the guest generated

vars == <<kind, guest, pc, next, imageID, fw, hw, dis, spec>>
input == <<kind, guest>>

NewFirmware == [UEFI |-> FALSE, TPM |-> FALSE, SecureBoot |-> FALSE]
NewHardware == [NumCPU |-> 0, NumCoresPerSocket |-> 0]
NoSpec == [cores |-> 0, sockets |-> 0, limit |-> 0,
           efi |-> FALSE, secureBoot |-> FALSE, tpm |-> FALSE, smm |-> FALSE]

Init ==
    /\ \/ kind = "vmware" /\ guest \in VmwareGuests
       \/ kind = "openstack" /\ guest \in OpenstackGuests
       \/ kind = "ova" /\ guest \in OvaGuests
    /\ pc = "parse" /\ next = 0 /\ imageID = "none"
    /\ fw = NewFirmware /\ hw = NewHardware /\ dis = <<>> /\ spec = NoSpec

-----------------------------------------------------------------------------
(***************************************************************************)
(* VMware and OpenStack                                                    *)
(***************************************************************************)
vmwareGetFirmwareSettings ==
    /\ kind = "vmware" /\ pc = "parse"
    /\ fw' = [UEFI |-> guest.efi, TPM |-> guest.tpm, SecureBoot |-> guest.secureBoot]
    /\ hw' = [NumCPU |-> guest.cpus, NumCoresPerSocket |-> guest.cores]
    /\ pc' = "apply"
    /\ UNCHANGED <<input, next, imageID, dis, spec>>

lastVolume ==
    /\ kind = "openstack" /\ pc = "parse" /\ next < Len(guest.volumes)
    /\ imageID' = guest.volumes[next + 1].image
    /\ next' = next + 1
    /\ UNCHANGED <<input, pc, fw, hw, dis, spec>>

\* A bootable volume names the image the server was made of.
nextVolume ==
    /\ kind = "openstack" /\ pc = "parse" /\ next < Len(guest.volumes)
    /\ imageID' = IF guest.volumes[next + 1].bootable THEN guest.volumes[next + 1].image
                  ELSE imageID
    /\ next' = next + 1
    /\ UNCHANGED <<input, pc, fw, hw, dis, spec>>

openstackGetFirmwareSettings ==
    /\ kind = "openstack" /\ pc = "parse" /\ next = Len(guest.volumes)
    /\ hw' = [NumCPU |-> guest.cpus, NumCoresPerSocket |-> 1]
    /\ \/ /\ imageID \in DOMAIN guest.image
          /\ fw' = [UEFI |-> guest.image[imageID].efi, TPM |-> guest.image[imageID].tpm,
                    SecureBoot |-> guest.image[imageID].secureBoot]
          /\ pc' = "apply"
       \/ imageID \notin DOMAIN guest.image /\ pc' = "error" /\ UNCHANGED fw
       \* Without a bootable volume the ID is empty, and the image service may
       \* answer with something that has no properties.
       \/ imageID = "none" /\ pc' = "apply" /\ UNCHANGED fw
    /\ UNCHANGED <<input, next, imageID, dis, spec>>

-----------------------------------------------------------------------------
(***************************************************************************)
(* parseEnvelope                                                           *)
(***************************************************************************)
\* A capacity is given in bytes, in a power or a multiple of bytes, or in a
\* unit that is known by its name; anything else is passed over.
parseCapacity(d) ==
    CASE d.units.form = "power"   -> d.capacity * d.units.x ^ d.units.y
      [] d.units.form = "product" -> d.capacity * d.units.x
      [] d.units.form = "name"    -> d.capacity * d.units.x
      [] d.units.form = "other"   -> d.capacity

resolveReference(ref) == ref \in guest.references

lastItemOfID(id) ==
    LET hits == {k \in 1..Len(guest.items) : guest.items[k].id = id}
    IN IF hits = {} THEN {} ELSE {guest.items[CHOOSE k \in hits : \A m \in hits : m <= k]}

\* The first item with this ID, if there is one.
findResourceAllocationSettingData(id) ==
    LET hits == {k \in 1..Len(guest.items) : guest.items[k].id = id}
    IN IF hits = {} THEN {} ELSE {guest.items[CHOOSE k \in hits : \A m \in hits : k <= m]}

Named(words) == CASE words \cap {"scsi", "buslogic", "lsilogic"} # {} -> "scsi"
                  [] words \cap {"ahci", "sata", "ide"} # {} -> "sata"
                  [] words \cap {"virtio", "nvme"} # {} -> "virtio"
                  [] words \cap {"usb"} # {} -> "usb"
                  [] OTHER -> "none"

\* The words of the subtype, or else the resource type of a controller.
detectDiskBusType(item) ==
    CASE item.subtype # {} -> Named(item.subtype)
      [] item.subtype = {} /\ item.type = "IdeController" -> "sata"
      [] item.subtype = {} /\ item.type = "ParallelScsiHba" -> "scsi"
      [] item.subtype = {} /\ item.type \in {"OtherStorage", "UsbController"} -> "virtio"
      [] OTHER -> "none"

BusOf(drive) ==
    LET found == {detectDiskBusType(i) : i \in findResourceAllocationSettingData(drive.parent)}
    IN IF found \subseteq {"none"} THEN "default" ELSE CHOOSE b \in found : TRUE

\* The disks the drive names, by their places in the disk section.
Described(drive) == {k \in 1..Len(guest.disks) : guest.disks[k].id = drive.disk}
Usable(drive) == {k \in Described(drive) : resolveReference(guest.disks[k].ref)}
DiskInfo(drive, d) == [name |-> d.ref, size |-> parseCapacity(d), bus |-> BusOf(drive)]
DiskInfos(drive) ==
    {[k \in DOMAIN o |-> DiskInfo(drive, guest.disks[o[k]])] : o \in Ordered(Usable(drive))}

\* The reference of a disk without a file is used all the same.
Panics(drive) == \E k \in Described(drive) : guest.disks[k].ref = "none"
addDrive(drive) ==
    IF Panics(drive) THEN pc' = "panic" /\ UNCHANGED dis
    ELSE (\E infos \in DiskInfos(drive) : dis' = dis \o infos) /\ UNCHANGED pc

\* The settings are read again after each item, in their order.
Setting(f, cfg) ==
    CASE cfg.key = "bootOptions.efiSecureBootEnabled" -> [f EXCEPT !.SecureBoot = cfg.value]
      [] cfg.key = "firmware" -> [f EXCEPT !.UEFI = @ \/ cfg.value]
      [] cfg.key \in {"tpm.present", "tpm20.enabled"} -> [f EXCEPT !.TPM = cfg.value]
      [] OTHER -> f
Configured(f) ==
    LET after[k \in 0..Len(guest.config)] ==
          IF k = 0 THEN f ELSE Setting(after[k - 1], guest.config[k])
    IN after[Len(guest.config)]

\* OVF 1.0: Item.
nextItem ==
    /\ kind = "ova" /\ pc = "parse" /\ next < Len(guest.items)
    /\ LET item == guest.items[next + 1] IN
       /\ hw' = IF item.type = "Processor" THEN [hw EXCEPT !.NumCPU = item.quantity] ELSE hw
       /\ IF item.type = "DiskDrive" THEN addDrive(item) ELSE UNCHANGED <<pc, dis>>
       /\ fw' = Configured(IF item.subtype = {"vmware.vtpm"} THEN [fw EXCEPT !.TPM = TRUE]
                           ELSE fw)
    /\ next' = next + 1
    /\ UNCHANGED <<input, imageID, spec>>

Handled == next - Len(guest.items)

\* OVF 2.0: StorageItem.
nextStorageItem ==
    /\ kind = "ova" /\ pc = "parse" /\ next >= Len(guest.items) /\ Handled < Len(guest.storage)
    /\ addDrive(guest.storage[Handled + 1])
    /\ next' = next + 1
    /\ UNCHANGED <<input, imageID, fw, hw, spec>>

\* An envelope says nothing about sockets.
envelopeDone ==
    /\ kind = "ova" /\ pc = "parse" /\ next = Len(guest.items) + Len(guest.storage)
    /\ hw' = [hw EXCEPT !.NumCoresPerSocket = 1]
    /\ pc' = "apply"
    /\ UNCHANGED <<input, next, imageID, fw, dis, spec>>

-----------------------------------------------------------------------------
(***************************************************************************)
(* The generated guest                                                     *)
(***************************************************************************)
NewVirtualMachineSpec ==
    [NoSpec EXCEPT !.cores = hw.NumCPU, !.sockets = hw.NumCoresPerSocket, !.limit = hw.NumCPU]

applyWithoutSMM(s) ==
    IF ~fw.UEFI THEN s
    ELSE [s EXCEPT !.efi = TRUE, !.secureBoot = fw.SecureBoot, !.tpm = fw.TPM, !.smm = fw.TPM]

\* A guest with a BIOS gets neither secure boot nor TPM.
ApplyFirmwareSettings(s) ==
    IF ~fw.UEFI THEN s
    ELSE [s EXCEPT !.efi = TRUE, !.secureBoot = fw.SecureBoot, !.tpm = fw.TPM,
                   !.smm = fw.SecureBoot \/ fw.TPM]

GenerateVirtualMachine ==
    /\ pc = "apply"
    /\ spec' = ApplyFirmwareSettings(NewVirtualMachineSpec)
    /\ pc' = "done"
    /\ UNCHANGED <<input, next, imageID, fw, hw, dis>>

Next == vmwareGetFirmwareSettings \/ nextVolume \/ openstackGetFirmwareSettings
        \/ nextItem \/ nextStorageItem \/ envelopeDone \/ GenerateVirtualMachine

Spec == Init /\ [][Next]_vars

-----------------------------------------------------------------------------
(***************************************************************************)
(* Properties                                                              *)
(***************************************************************************)
\* KubeVirt starts a guest with secure boot only with EFI and SMM: whatever
\* combination a source reports, each of the three, no other is generated.
GuestCanStart == pc = "done" =>
    /\ spec.secureBoot => spec.efi /\ spec.smm
    /\ spec.tpm => spec.efi

\* The firmware of an OpenStack guest is that of one image, the one of the last
\* bootable volume: no setting comes from a data volume that is attached too, or
\* from another volume the server can boot from.
BootVolumes == {k \in 1..Len(guest.volumes) : guest.volumes[k].bootable}
FirmwareOfBootImage == kind = "openstack" /\ pc = "done" =>
    \/ BootVolumes = {} /\ ~spec.efi
    \/ \E k \in BootVolumes :
          /\ \A m \in BootVolumes : m <= k
          /\ guest.volumes[k].image \in DOMAIN guest.image
          /\ LET image == guest.image[guest.volumes[k].image] IN
             /\ spec.efi = image.efi
             /\ spec.efi => spec.secureBoot = image.secureBoot /\ spec.tpm = image.tpm

\* The controller of a drive is found by its ID wherever it is in the list,
\* and decides on the bus of the drive's disk; the disk has its own capacity.
Drives == {guest.items[k] : k \in {m \in 1..Len(guest.items) : guest.items[m].type = "DiskDrive"}}
          \cup {guest.storage[k] : k \in 1..Len(guest.storage)}
FirstOf(k) == \A m \in 1..(k - 1) : guest.items[m].id # guest.items[k].id
BusOfTheController == kind = "ova" /\ pc = "done" =>
    \A drive \in Drives, k \in 1..Len(guest.items), d \in 1..Len(guest.disks) :
        (/\ guest.items[k].id = drive.parent /\ FirstOf(k)
         /\ guest.items[k].type = "ParallelScsiHba" /\ guest.items[k].subtype = {}
         /\ guest.disks[d].id = drive.disk /\ guest.disks[d].ref \in guest.references)
        => \E n \in 1..Len(dis) :
              /\ dis[n].name = guest.disks[d].ref /\ dis[n].bus = "scsi"
              /\ dis[n].size = parseCapacity(guest.disks[d])
=============================================================================
