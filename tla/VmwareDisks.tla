----------------------------- MODULE VmwareDisks -----------------------------
(***************************************************************************)
(* Size and bus of the disks of a VMware VM: how ExportVirtualMachine of   *)
(* pkg/source/vmware/client.go finds the VirtualDisk of each item of the   *)
(* export lease, with parseDeviceId and detectDiskBusType.                 *)
(*                                                                         *)
(* Controller c is the hardware device Controllers[c]; the disks are       *)
(* numbered, and disk d has the capacity d.  The size in the lease is not  *)
(* the capacity; it is 0 here.  Item d of the lease is about disk d.       *)
(*                                                                         *)
(* firstDiskStays and lastRuleWins are variants for the mutation runs.     *)
(***************************************************************************)
EXTENDS Naturals, Sequences

CONSTANTS
    Controllers,  \* Controllers[c] = [type, bus]
    Contains,     \* Contains[t]: the words of detectDiskBusType in the name of type t
    MaxUnit,      \* units of a controller
    MaxDisks      \* disks of the VM

VARIABLES
    hardware,       \* the disks in the order of the device list: [disk, controller, unit]
    readable,       \* the disks whose device ID in the lease can be parsed
    pc,             \* where the export stands
    next,           \* the device or item handled last
    controllerBus,  \* controllerBus[c]
    diskByBusUnit,  \* set of [bus, unit, disk], one disk for each bus and unit
    listed          \* DiskImportStatus: [disk, size, bus]

vars == <<hardware, readable, pc, next, controllerBus, diskByBusUnit, listed>>

Disk == [disk : 1..MaxDisks, controller : DOMAIN Controllers, unit : 0..MaxUnit]
N == Len(hardware)
Of(d) == CHOOSE h \in {hardware[k] : k \in 1..N} : h.disk = d

\* Every disk is at a place of its own, and the devices come in any order.
Init ==
    /\ hardware \in UNION {[1..m -> Disk] : m \in 0..MaxDisks}
    /\ \A a, b \in 1..N : a # b =>
          /\ hardware[a].disk # hardware[b].disk
          /\ <<hardware[a].controller, hardware[a].unit>>
                # <<hardware[b].controller, hardware[b].unit>>
    /\ \A a \in 1..N : hardware[a].disk <= N
    /\ readable \in SUBSET (1..N)
    /\ pc = "controllers" /\ next = 0
    /\ controllerBus = <<>> /\ diskByBusUnit = {} /\ listed = <<>>

-----------------------------------------------------------------------------
\* The first loop over the devices.
mapControllers ==
    /\ pc = "controllers"
    /\ controllerBus' = [c \in DOMAIN Controllers |-> Controllers[c].bus]
    /\ pc' = "devices"
    /\ UNCHANGED <<hardware, readable, next, diskByBusUnit, listed>>

diskKey(h) == [bus |-> controllerBus[h.controller], unit |-> h.unit]
HasKey(e, key) == e.bus = key.bus /\ e.unit = key.unit

firstDiskStays ==
    /\ pc = "devices" /\ next < N
    /\ LET h == hardware[next + 1]  key == diskKey(h) IN
       diskByBusUnit' = IF \E e \in diskByBusUnit : e.unit = key.unit THEN diskByBusUnit
                        ELSE diskByBusUnit \cup {[bus |-> key.bus, unit |-> key.unit, disk |-> h.disk]}
    /\ next' = next + 1
    /\ UNCHANGED <<hardware, readable, pc, controllerBus, listed>>

\* The second loop: a disk replaces another one of the same bus and unit.
nextDevice ==
    /\ pc = "devices" /\ next < N
    /\ LET h == hardware[next + 1]  key == diskKey(h) IN
       diskByBusUnit' = {e \in diskByBusUnit : ~HasKey(e, key)}
                        \cup {[bus |-> key.bus, unit |-> key.unit, disk |-> h.disk]}
    /\ next' = next + 1
    /\ UNCHANGED <<hardware, readable, pc, controllerBus, listed>>

devicesDone ==
    /\ pc = "devices" /\ next = N
    /\ pc' = "items" /\ next' = 0
    /\ UNCHANGED <<hardware, readable, controllerBus, diskByBusUnit, listed>>

-----------------------------------------------------------------------------
\* The device ID of an item has the type, the bus and the unit; the type is
\* passed over.
parseDeviceId(d) ==
    [ok  |-> d \in readable,
     key |-> [bus |-> Controllers[Of(d).controller].bus, unit |-> Of(d).unit]]

Rule(words, bus) == [words |-> words, bus |-> bus]
BusRules == <<Rule({"paravirtualscsi"}, "sata"),
              Rule({"scsi", "buslogic", "lsilogic"}, "scsi"),
              Rule({"ahci", "sata", "ide"}, "sata"),
              Rule({"nvme"}, "virtio"),
              Rule({"usb"}, "usb")>>
Hits(words) == {k \in DOMAIN BusRules : BusRules[k].words \cap words # {}}

lastRuleWins(words) ==
    IF Hits(words) = {} THEN "default"
    ELSE BusRules[CHOOSE k \in Hits(words) : \A m \in Hits(words) : m <= k].bus

\* The first rule decides that has a word which the device ID contains, whether
\* or not its bus and unit can be parsed.
detectDiskBusType(words) ==
    IF Hits(words) = {} THEN "default"
    ELSE BusRules[CHOOSE k \in Hits(words) : \A m \in Hits(words) : k <= m].bus

BusOf(d) == detectDiskBusType(Contains[Controllers[Of(d).controller].type])

\* The capacity of the disk that was found, or else the size in the lease.
diskSize(d) ==
    LET id    == parseDeviceId(d)
        found == {e \in diskByBusUnit : id.ok /\ HasKey(e, id.key)}
    IN  IF found = {} THEN 0 ELSE (CHOOSE e \in found : TRUE).disk

nextItem ==
    /\ pc = "items" /\ next < N
    /\ LET d == next + 1 IN
       listed' = Append(listed, [disk |-> d, size |-> diskSize(d), bus |-> BusOf(d)])
    /\ next' = next + 1
    /\ UNCHANGED <<hardware, readable, pc, controllerBus, diskByBusUnit>>

Next == mapControllers \/ nextDevice \/ devicesDone \/ nextItem

Spec == Init /\ [][Next]_vars

-----------------------------------------------------------------------------
(***************************************************************************)
(* Properties                                                              *)
(***************************************************************************)

\* Two disks that differ in bus or unit are never mixed up, in whichever order
\* the devices come and whatever else is attached at the same controllers.
Address(d) == <<Controllers[Of(d).controller].bus, Of(d).unit>>
SizedByAddress == \A k \in 1..Len(listed) :
    (\A d \in 1..N : d # listed[k].disk => Address(d) # Address(listed[k].disk)) =>
        listed[k].size = IF listed[k].disk \in readable THEN listed[k].disk ELSE 0

\* "Attempting to map pvscsi to SCSI prevents the VM from booting."
\* (client.go:599): whatever words its device ID has besides.
NoParavirtualOnSCSI == \A k \in 1..Len(listed) :
    "paravirtualscsi" \in Contains[Controllers[Of(listed[k].disk).controller].type] =>
        listed[k].bus # "scsi"
=============================================================================
