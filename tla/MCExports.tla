------------------------------ MODULE MCExports ------------------------------
(***************************************************************************)
(* An instance of Exports for TLC.                                         *)
(***************************************************************************)
EXTENDS Exports

AllFaults == {"api", "lost", "remove", "crash"}

\* Of the four lease items the second is the nvram of the VM.
TheNvram == {2}

\* Two imports at the same time; both archives have a VMDK "disk1", as archives
\* of the same tool do.
TwoImports == {"one", "two"}
OwnNames   == [i \in TwoImports |-> i]
SameVMDK   == [i \in TwoImports |-> IF i = "one" THEN <<"disk1", "disk2">> ELSE <<"disk1">>]
=============================================================================
