---------------------------- MODULE MCTranslation ----------------------------
(***************************************************************************)
(* An instance of Translation for TLC.                                     *)
(***************************************************************************)
EXTENDS Translation

AllKinds == {"vmware", "openstack", "ova"}
TwoNames == {"a", "b"}

\* Two SCSI controllers, and one of another type on the bus 0 like the first.
Controller(t, b) == [type |-> t, bus |-> b]
ThreeControllers == <<Controller("ParaVirtualSCSIController", 0),
                      Controller("VirtualLsiLogicController", 1),
                      Controller("VirtualAHCIController", 0)>>
Words == [ParaVirtualSCSIController |-> {"paravirtualscsi", "scsi"},
          VirtualLsiLogicController |-> {"lsilogic"},
          VirtualAHCIController     |-> {"ahci"}]

VmwareVMs == [efi : BOOLEAN, secureBoot : BOOLEAN, tpm : BOOLEAN, cpus : {1, 4}, cores : {1, 2}]

\* Up to two volumes of the images i1 and i2, or of one that was deleted.
Volumes == [bootable : BOOLEAN, image : {"i1", "i2", "deleted"}]
Images  == [{"i1", "i2"} -> [efi : BOOLEAN, secureBoot : BOOLEAN, tpm : BOOLEAN]]
Servers == [volumes : SeqUpTo(Volumes, 2), image : Images, cpus : {2}]

\* Items of an OVF: three controllers share an ID, as nothing forbids.
Item(t, id, p, s, d) == [type |-> t, id |-> id, parent |-> p, subtype |-> s, disk |-> d, quantity |-> 2]
Items == {Item("Processor", "1", "none", {}, "none"),
          Item("ParallelScsiHba", "2", "none", {}, "none"),
          Item("ParallelScsiHba", "2", "none", {"lsilogic"}, "none"),
          Item("OtherStorage", "2", "none", {"ahci"}, "none"),
          Item("Other", "3", "none", {"vmware.vtpm"}, "none"),
          Item("DiskDrive", "4", "2", {}, "d1"),
          Item("DiskDrive", "5", "none", {}, "d2")}
StorageItems == {Item("DiskDrive", "6", "2", {}, "d2")}
Settings == [key : {"bootOptions.efiSecureBootEnabled", "firmware", "tpm.present"}, value : BOOLEAN]
Units == {[form |-> "power", x |-> 2, y |-> 3], [form |-> "other", x |-> 0, y |-> 0]}
VirtualDisk(id, r, c, u) == [id |-> id, ref |-> r, capacity |-> c, units |-> u]
DiskLists == {<<>>} \cup {<<VirtualDisk("d1", "f1", 3, u), VirtualDisk("d2", r, 5, u)>> :
                             u \in Units, r \in {"f2", "none"}}
Envelopes(n, c, s) == [items : SeqUpTo(Items, n), storage : SeqUpTo(StorageItems, s),
                       config : SeqUpTo(Settings, c), disks : DiskLists,
                       references : {{"f1", "f2"}, {"f1"}}]
Archives == Envelopes(3, 1, 0) \cup Envelopes(2, 2, 2)
=============================================================================
