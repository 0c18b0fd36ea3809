--------------------------- MODULE OpenstackExport ---------------------------
(***************************************************************************)
(* ExportVirtualMachine of the OpenStack client                            *)
(* (pkg/source/openstack/client.go): for each attached volume a snapshot,  *)
(* a volume made of the snapshot and an image uploaded from that volume,   *)
(* which is polled, downloaded into the served directory and removed, with *)
(* the volume and the snapshot, by a deferred function.                    *)
(*                                                                         *)
(* OpenStack works asynchronously: what was created is busy for a while,   *)
(* it may end in an error, and something busy cannot be deleted.  Every    *)
(* request is a step.  The process may stop at any time; the import has    *)
(* not recorded anything then and the export starts again.                 *)
(*                                                                         *)
(* pollOneMore, pollForever, exportFnGoesOn, downloadAppendFirst and       *)
(* DeleteUnlessFailed are variants for the mutation runs.                  *)
(***************************************************************************)
EXTENDS Naturals, Sequences, FiniteSets

CONSTANTS
    N,           \* the number of volumes attached to the server
    RetryCount,  \* UploadImageRetryCount
    MaxRuns,     \* the export is started at most this often
    FaultKinds,  \* the faults this instance allows
    MaxFaults    \* ... and how many of them

ASSUME OpenstackAssumption ==
    N \in Nat /\ RetryCount \in Nat \ {0} /\ MaxRuns \in Nat \ {0} /\ MaxFaults \in Nat

VARIABLES
    pc,        \* where the export stands
    index,     \* the volume exportFn works on
    attempt,   \* how often the export has been started
    known,     \* local variables: the kinds of object exportFn has an ID of
    err,       \* exportFn is about to return an error
    polls,     \* the loop variable of the image polling
    cloud,     \* the objects the export has created in OpenStack
    disks,     \* DiskImportStatus: volumes in the order they were appended
    files,     \* the served directory: "none", "partial" or "whole" per volume
    run,       \* "running", "ok" or "failed"
    excused,   \* history: objects whose ID was lost or whose deletion was refused
    faults     \* number of faults so far

vars == <<pc, index, attempt, known, err, polls, cloud, disks, files, run, excused, faults>>

Kind == {"snapshot", "volume", "image"}
Object == [kind : Kind, attempt : 1..MaxRuns, index : 1..N]
The(k) == [kind |-> k, attempt |-> attempt, index |-> index]
State(k) == cloud[The(k)]

Init ==
    /\ pc = "find" /\ index = 0 /\ attempt = 1
    /\ known = {} /\ err = FALSE /\ polls = 0
    /\ cloud = [o \in Object |-> "none"]
    /\ disks = <<>> /\ files = [j \in 1..N |-> "none"]
    /\ run = "running" /\ excused = {} /\ faults = 0

Fault(f) == f \in FaultKinds /\ faults < MaxFaults /\ faults' = faults + 1
NoFault == UNCHANGED faults

Goto(p) == pc' = p /\ UNCHANGED <<index, attempt, run>>

\* exportFn returns an error: the deferred function runs.
Fails == /\ err' = TRUE /\ Goto("deleteImage")
Locals == <<known, polls>>
Result == <<disks, files>>
Remote == <<cloud, excused>>

-----------------------------------------------------------------------------
(***************************************************************************)
(* The loop over the attached volumes                                      *)
(***************************************************************************)
NextVolume ==
    IF index = N
    THEN pc' = "end" /\ run' = "ok" /\ UNCHANGED index
    ELSE pc' = "snapshot" /\ index' = index + 1 /\ UNCHANGED run

findVM ==
    /\ pc = "find"
    /\ \/ NextVolume
       \/ pc' = "end" /\ run' = "failed" /\ UNCHANGED index
    /\ UNCHANGED <<attempt, err, Locals, Result, Remote, faults>>

exportFnGoesOn ==
    /\ pc = "return"
    /\ NextVolume
    /\ known' = {} /\ err' = FALSE /\ polls' = 0
    /\ UNCHANGED <<attempt, Result, Remote, faults>>

\* exportFn has returned; the first error ends the export.
exportFnReturns ==
    /\ pc = "return"
    /\ IF err THEN pc' = "end" /\ run' = "failed" /\ UNCHANGED index ELSE NextVolume
    /\ known' = {} /\ err' = FALSE /\ polls' = 0
    /\ UNCHANGED <<attempt, Result, Remote, faults>>

-----------------------------------------------------------------------------
(***************************************************************************)
(* Snapshot, volume, image                                                 *)
(***************************************************************************)
\* A request to create k: accepted; refused; or accepted, the answer lost and
\* its ID unknown.
Create(k, next, effect) ==
    /\ \/ /\ cloud' = effect /\ known' = known \cup {k}
          /\ Goto(next) /\ NoFault /\ UNCHANGED <<err, excused>>
       \/ Fails /\ NoFault /\ UNCHANGED <<known, Remote>>
       \/ /\ cloud' = effect /\ excused' = excused \cup {The(k)}
          /\ Fails /\ Fault("lost") /\ UNCHANGED known
    /\ UNCHANGED <<polls, Result>>

\* WaitForStatus: until the object is available, or two hours, or an error.
WaitForStatus(k, next) ==
    /\ \/ State(k) = "available" /\ Goto(next) /\ NoFault /\ UNCHANGED err
       \/ State(k) # "available" /\ Fails /\ NoFault
       \/ Fails /\ Fault("api")
    /\ UNCHANGED <<Locals, Result, Remote>>

createSnapshot == /\ pc = "snapshot"
                  /\ Create("snapshot", "waitSnapshot", [cloud EXCEPT ![The("snapshot")] = "busy"])
waitSnapshot   == pc = "waitSnapshot" /\ WaitForStatus("snapshot", "volume")

createVolume   == /\ pc = "volume"
                  /\ Create("volume", "waitVolume", [cloud EXCEPT ![The("volume")] = "busy"])
waitVolume     == pc = "waitVolume" /\ WaitForStatus("volume", "upload")

\* The volume is busy while it is uploaded.
uploadImage ==
    /\ pc = "upload"
    /\ Create("image", "poll",
              [cloud EXCEPT ![The("image")] = "busy", ![The("volume")] = "busy"])

pollOneMore ==
    /\ pc = "poll"
    /\ IF polls > RetryCount THEN Fails /\ UNCHANGED polls
       ELSE polls' = polls + 1 /\ Goto("poll") /\ UNCHANGED err
    /\ UNCHANGED <<known, Result, Remote, faults>>

pollForever ==
    /\ pc = "poll"
    /\ IF State("image") = "available" THEN Goto("download") ELSE Goto("poll")
    /\ UNCHANGED <<err, Locals, Result, Remote, faults>>

\* An error of the request counts as an image that is not active.
pollImage ==
    /\ pc = "poll"
    /\ IF polls = RetryCount THEN Fails /\ NoFault /\ UNCHANGED polls
       ELSE \/ State("image") = "available" /\ Goto("download") /\ NoFault /\ UNCHANGED <<err, polls>>
            \/ /\ \/ State("image") # "available" /\ NoFault
                  \/ Fault("api")
               /\ polls' = polls + 1 /\ Goto("poll") /\ UNCHANGED err
    /\ UNCHANGED <<known, Result, Remote>>

downloadAppendFirst ==
    /\ pc = "download"
    /\ disks' = Append(disks, index)
    /\ \/ files' = [files EXCEPT ![index] = "whole"] /\ Goto("deleteImage") /\ UNCHANGED err
       \/ files' = [files EXCEPT ![index] = "partial"] /\ Fails
    /\ UNCHANGED <<Locals, Remote, faults>>

\* imagedata.Download, writeRawImageFile and the new entry of the disk list:
\* the file may not be created, or stay incomplete.
downloadImage ==
    /\ pc = "download"
    /\ \/ /\ files' = [files EXCEPT ![index] = "whole"]
          /\ disks' = Append(disks, index)
          /\ Goto("deleteImage") /\ UNCHANGED err
       \/ /\ files' \in {files, [files EXCEPT ![index] = "partial"]}
          /\ Fails /\ UNCHANGED disks
    /\ UNCHANGED <<Locals, Remote, faults>>

-----------------------------------------------------------------------------
(***************************************************************************)
(* The deferred function: image, volume, snapshot.  Errors are only logged *)
(***************************************************************************)
\* OpenStack refuses to delete what is busy, and may refuse a snapshot while
\* the volume made of it is there.
MustRefuse(k) == k # "image" /\ State(k) = "busy"
MayRefuse(k)  == MustRefuse(k) \/ (k = "snapshot" /\ State("volume") # "none")

Refused(k) == excused' = excused \cup {The(k)} /\ UNCHANGED cloud

DeleteUnlessFailed(k, next) ==
    /\ IF k \in known /\ ~err /\ ~MustRefuse(k)
       THEN cloud' = [cloud EXCEPT ![The(k)] = "none"] /\ UNCHANGED excused
       ELSE UNCHANGED Remote
    /\ NoFault /\ Goto(next)
    /\ UNCHANGED <<err, Locals, Result>>

Delete(k, next) ==
    /\ IF k \notin known THEN UNCHANGED Remote /\ NoFault
       ELSE \/ ~MustRefuse(k) /\ cloud' = [cloud EXCEPT ![The(k)] = "none"] /\ UNCHANGED excused /\ NoFault
            \/ MayRefuse(k) /\ Refused(k) /\ NoFault
            \/ Refused(k) /\ Fault("api")
    /\ Goto(next)
    /\ UNCHANGED <<err, Locals, Result>>

deleteImage    == pc = "deleteImage" /\ Delete("image", "deleteVolume")
deleteVolume   == pc = "deleteVolume" /\ Delete("volume", "deleteSnapshot")
deleteSnapshot == pc = "deleteSnapshot" /\ Delete("snapshot", "return")

ExportVirtualMachine ==
    \/ findVM \/ createSnapshot \/ waitSnapshot \/ createVolume \/ waitVolume
    \/ uploadImage \/ pollImage \/ downloadImage
    \/ deleteImage \/ deleteVolume \/ deleteSnapshot \/ exportFnReturns

-----------------------------------------------------------------------------
(***************************************************************************)
(* OpenStack and the process                                               *)
(***************************************************************************)
\* OpenStack finishes what it was asked for, or fails to.
CloudWorks ==
    /\ \E o \in Object : /\ cloud[o] = "busy"
                         /\ \E s \in {"available", "error"} : cloud' = [cloud EXCEPT ![o] = s]
    /\ UNCHANGED <<pc, index, attempt, run, err, Locals, Result, excused, faults>>

\* The process stops: its files and variables are lost, the objects are not.
Crash ==
    /\ attempt < MaxRuns /\ Fault("crash")
    /\ excused' = excused \cup {o \in Object : cloud[o] # "none"}
    /\ pc' = "find" /\ index' = 0 /\ attempt' = attempt + 1
    /\ known' = {} /\ err' = FALSE /\ polls' = 0
    /\ disks' = <<>> /\ files' = [j \in 1..N |-> "none"] /\ run' = "running"
    /\ UNCHANGED cloud

Next == ExportVirtualMachine \/ CloudWorks \/ Crash

Spec == Init /\ [][Next]_vars

-----------------------------------------------------------------------------
(***************************************************************************)
(* Properties                                                              *)
(***************************************************************************)
TypeOK ==
    /\ pc \in {"find", "snapshot", "waitSnapshot", "volume", "waitVolume", "upload", "poll",
               "download", "deleteImage", "deleteVolume", "deleteSnapshot", "return", "end"}
    /\ index \in 0..N /\ attempt \in 1..MaxRuns
    /\ known \subseteq Kind /\ err \in BOOLEAN /\ polls \in 0..RetryCount
    /\ cloud \in [Object -> {"none", "busy", "available", "error"}]
    /\ disks \in Seq(1..N) /\ files \in [1..N -> {"none", "partial", "whole"}]
    /\ run \in {"running", "ok", "failed"}
    /\ excused \subseteq Object /\ faults \in 0..MaxFaults

\* The deferred clean-up of exportFn leaves nothing of an earlier volume at
\* the source, and nothing at all when the export has ended, whichever early
\* return it took: but for what OpenStack refused to delete, and for objects
\* whose ID went with a lost answer or a crash.
NothingLeftUnnoticed ==
    \A o \in Object \ excused :
        cloud[o] # "none" => /\ run = "running"
                             /\ o.attempt = attempt /\ o.index = index

\* A disk is in the list only with a complete image, each disk once and in the
\* order of the volumes: what the controller goes on with after a success.
ListedInOrder ==
    /\ \A j \in 1..Len(disks) : disks[j] = j /\ files[j] = "whole"
    /\ run = "ok" => Len(disks) = N

\* The outcome is one the import controller is prepared for.
Whole == {j \in 1..N : files[j] = "whole"}
Contract == INSTANCE ExportContract WITH
    listed <- IF run = "running" THEN 0 ELSE Len(disks),
    files  <- Whole \cup (IF \E j \in 1..N : files[j] = "partial" THEN {0} ELSE {})
ImplementsContract == Contract!Spec
-----------------------------------------------------------------------------
(***************************************************************************)
(* What the properties rest on                                             *)
(***************************************************************************)
Working  == {"snapshot", "waitSnapshot", "volume", "waitVolume", "upload", "poll", "download"}
Deleting == {"deleteImage", "deleteVolume", "deleteSnapshot", "return"}

\* exportFn is at work on a volume until it goes to the deferred function.
ControlOK ==
    /\ pc = "end" <=> run # "running"
    /\ pc \in Working \cup Deleting => index \in 1..N
    /\ pc \in Working \cup {"find", "end"} => err = FALSE
    /\ pc = "find" => index = 0

\* exportFn has the ID of what it waits for and will delete.
KnownOK ==
    /\ pc \in {"waitVolume", "upload", "poll", "download"} => "volume" \in known
    /\ pc \in {"poll", "download"} => "image" \in known

\* What is there is of the volume exportFn works on, its ID is known, and its
\* turn in the deferred function is still to come.
ToBeDeleted(k) ==
    CASE k = "image"    -> pc \in Working \cup {"deleteImage"}
      [] k = "volume"   -> pc \in Working \cup {"deleteImage", "deleteVolume"}
      [] k = "snapshot" -> pc \in Working \cup {"deleteImage", "deleteVolume", "deleteSnapshot"}
RemoteOK ==
    \A o \in Object \ excused :
        cloud[o] # "none" => /\ o.attempt = attempt /\ o.index = index
                             /\ o.kind \in known /\ ToBeDeleted(o.kind)

\* How many disks are listed says how far the loop is.
ListOK ==
    /\ \A j \in 1..Len(disks) : disks[j] = j /\ files[j] = "whole"
    /\ pc = "find" => Len(disks) = 0
    /\ pc \in Working => Len(disks) = index - 1
    /\ pc \in Deleting => Len(disks) = IF err THEN index - 1 ELSE index
    /\ pc = "end" => Len(disks) \in 0..N
    /\ run = "ok" => Len(disks) = N

ExportInvariant == TypeOK /\ ControlOK /\ KnownOK /\ RemoteOK /\ ListOK
=============================================================================
