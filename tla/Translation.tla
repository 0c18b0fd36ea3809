----------------------------- MODULE Translation ------------------------------
(***************************************************************************)
(* How a source VM is translated into a VM of KubeVirt: its network cards  *)
(* (NetworkMapping, whose variables keep their names), the disks of a      *)
(* VMware VM (VmwareDisks, D) and firmware, CPUs and the disks of an OVA   *)
(* (GuestDefinition, G).  No part reads what another one computes, so a    *)
(* behaviour goes through one part.                                        *)
(***************************************************************************)
EXTENDS NetworkMapping

CONSTANTS
    Controllers, Contains, MaxUnit, MaxDisks,     \* of VmwareDisks
    VmwareGuests, OpenstackGuests, OvaGuests      \* of GuestDefinition

\* The lists of a guest are finite, and no image has the ID that stands for none.
ASSUME TranslationAssumption ==
    /\ MaxDisks \in Nat
    /\ \A g \in OpenstackGuests :
          /\ Len(g.volumes) \in Nat /\ \A k \in 1..Len(g.volumes) : g.volumes[k].image # "none"
          /\ "none" \notin DOMAIN g.image
          /\ \A m \in DOMAIN g.image : g.image[m].efi \in BOOLEAN
    /\ \A g \in OvaGuests :
          Len(g.items) \in Nat /\ Len(g.storage) \in Nat /\ Len(g.disks) \in Nat

VARIABLES
    part,  \* the part at work
    hardware, readable, dpc, dnext, controllerBus, diskByBusUnit, listed,
    gkind, guest, gpc, gnext, imageID, fw, hw, dis, spec

disksVars == <<hardware, readable, dpc, dnext, controllerBus, diskByBusUnit, listed>>
guestVars == <<gkind, guest, gpc, gnext, imageID, fw, hw, dis, spec>>
allVars   == <<part, vars, disksVars, guestVars>>

D == INSTANCE VmwareDisks WITH pc <- dpc, next <- dnext
G == INSTANCE GuestDefinition WITH kind <- gkind, pc <- gpc, next <- gnext

NoCards == kind = "ova" /\ inventory = {} /\ cards = <<>> /\ mapping = <<>> /\ skip = FALSE
NoDisks == hardware = <<>>
AnyVM   == gkind = "vmware" /\ guest = CHOOSE g \in VmwareGuests : TRUE

TranslationInit ==
    \/ part = "networks" /\ NoDisks /\ AnyVM /\ D!Init /\ G!Init /\ Init
    \/ part = "disks" /\ NoCards /\ AnyVM /\ Init /\ G!Init /\ D!Init
    \/ part = "guest" /\ NoCards /\ NoDisks /\ Init /\ D!Init /\ G!Init

TranslationNext ==
    /\ UNCHANGED part
    /\ \/ part = "networks" /\ Next   /\ UNCHANGED <<disksVars, guestVars>>
       \/ part = "disks"    /\ D!Next /\ UNCHANGED <<vars, guestVars>>
       \/ part = "guest"    /\ G!Next /\ UNCHANGED <<vars, disksVars>>

TranslationSpec == TranslationInit /\ [][TranslationNext]_allVars

-----------------------------------------------------------------------------
\* The size of a lease item is that of the disk at its bus and unit, for disks
\* that share these with no other.
SizedByAddress == D!SizedByAddress

\* A paravirtual SCSI disk is not put on a SCSI bus.
NoParavirtualOnSCSI == D!NoParavirtualOnSCSI

\* Secure boot and TPM come only with the EFI and SMM that KubeVirt asks for.
GuestCanStart == G!GuestCanStart

\* The firmware of an OpenStack guest is that of the image of its last bootable
\* volume.
FirmwareOfBootImage == G!FirmwareOfBootImage

\* The first item with the ID a drive refers to decides on the bus of its disk,
\* which has its own capacity.
BusOfTheController == G!BusOfTheController
=============================================================================
