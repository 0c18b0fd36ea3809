------------------------------ MODULE MCVMImport ------------------------------
(***************************************************************************)
(* Small instances of VMImport for TLC.                                    *)
(***************************************************************************)
EXTENDS VMImportInvariant, TLC

Conf(kinds, forces, backings) == [kind : kinds, force : forces, backing : backings]
VmwareConfs    == Conf({"vmware"}, BOOLEAN, {TRUE})
OpenstackConfs == Conf({"openstack"}, {FALSE}, {TRUE})
GracefulConfs == Conf({"vmware"}, {FALSE}, {TRUE})
DataConfs == GracefulConfs \cup Conf({"ova"}, {FALSE}, {FALSE})
AllConfs == VmwareConfs \cup OpenstackConfs \cup Conf({"ova"}, {FALSE}, {FALSE})

ImageSymmetry == Permutations(Image)
=============================================================================
