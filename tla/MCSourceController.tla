-------------------------- MODULE MCSourceController --------------------------
(* Instances of SourceController for TLC. *)
EXTENDS SourceController

AllKinds == {"vmware", "openstack", "ova"}
Vmware == {"vmware"}
AllFaults == {"api", "lost", "crash"}
RequestFaults == {"api"}
=============================================================================
