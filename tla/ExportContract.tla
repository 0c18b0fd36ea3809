---------------------------- MODULE ExportContract ----------------------------
(***************************************************************************)
(* What the import controller may rely on when it calls the operation      *)
(* ExportVirtualMachine of a source client: the steps exportSucceeds and   *)
(* exportFails of VMImport, without the rest of the import.                *)
(*                                                                         *)
(* Disk j has the file j, complete; anything else in the directory is 0.   *)
(* The disk list is in the memory of the worker until the export ends, so  *)
(* nothing is listed while it runs.                                        *)
(***************************************************************************)
EXTENDS Naturals, FiniteSets

CONSTANT N  \* the number of disks of the source VM

VARIABLES
    run,     \* "running", "ok" or "failed"
    listed,  \* the number of disks in the list when the export has ended
    files    \* the files in the served directory

vars == <<run, listed, files>>

Init == run = "running" /\ listed = 0 /\ files = {}

\* Files come and go while the export runs.
Work ==
    /\ run = "running"
    /\ files' \in SUBSET (0..N)
    /\ UNCHANGED <<run, listed>>

\* Every disk is listed and its file is complete.
Succeed ==
    /\ run = "running"
    /\ run' = "ok" /\ listed' = N
    /\ files' \in {S \in SUBSET (0..N) : 1..N \subseteq S}

\* Some of the disks are listed.
Fail ==
    /\ run = "running"
    /\ run' = "failed" /\ listed' \in 0..N
    /\ files' \in SUBSET (0..N)

\* The process stops and the export starts again in an empty directory.
Restart ==
    /\ run' = "running" /\ listed' = 0 /\ files' = {}

\* Files are removed when the import has no more use for them.
Clean ==
    /\ run # "running"
    /\ files' \in SUBSET files
    /\ UNCHANGED <<run, listed>>

Next == Work \/ Succeed \/ Fail \/ Restart \/ Clean

Spec == Init /\ [][Next]_vars
=============================================================================
