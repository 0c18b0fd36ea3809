----------------------------- MODULE ExportsProofs -----------------------------
(***************************************************************************)
(* Safety theorems of OpenstackExport, and that it implements              *)
(* ExportContract, for every number of volumes, retries, starts and faults;*)
(* and that the theorems of VmwareExport and OvaExport hold whichever      *)
(* client works.                                                           *)
(***************************************************************************)
EXTENDS Exports, TLAPS

USE OpenstackAssumption

ObjectState == {"none", "busy", "available", "error"}

-----------------------------------------------------------------------------
(***************************************************************************)
(* Objects and faults                                                      *)
(***************************************************************************)
LEMMA TheType ==
    ASSUME TypeOK, index \in 1..N, NEW k \in Kind
    PROVE  /\ The(k) \in Object
           /\ The(k).kind = k /\ The(k).attempt = attempt /\ The(k).index = index
BY DEF TypeOK, The, Object

\* An object is known by its kind, its attempt and its volume.
LEMMA TheOnly ==
    ASSUME TypeOK, NEW o \in Object, o.attempt = attempt, o.index = index
    PROVE  o = The(o.kind)
BY DEF The, Object

LEMMA FaultType ==
    ASSUME faults \in 0..MaxFaults, NoFault \/ \E f \in {"api", "lost", "crash"} : Fault(f)
    PROVE  faults' \in 0..MaxFaults
BY DEF NoFault, Fault

\* What a step does that only creates, waits or deletes.
Elsewhere == UNCHANGED <<attempt, disks, files>>
RemoteType == /\ cloud' \in [Object -> ObjectState]
              /\ excused' \subseteq Object /\ excused \subseteq excused'
              /\ faults' \in 0..MaxFaults

-----------------------------------------------------------------------------
(***************************************************************************)
(* The loop                                                                *)
(***************************************************************************)
LEMMA InitInvariant == Init => ExportInvariant
<1> SUFFICES ASSUME Init PROVE ExportInvariant
  OBVIOUS
<1>1. TypeOK
  <2>1. cloud \in [Object -> ObjectState] /\ files \in [1..N -> {"none", "partial", "whole"}]
    BY DEF Init, ObjectState
  <2>2. attempt \in 1..MaxRuns /\ index \in 0..N /\ polls \in 0..RetryCount /\ faults \in 0..MaxFaults
    BY DEF Init
  <2>3. disks \in Seq(1..N) /\ known \subseteq Kind /\ excused \subseteq Object
    BY DEF Init
  <2>4. err \in BOOLEAN /\ run = "running" /\ pc = "find"
    BY DEF Init
  <2> QED  BY <2>1, <2>2, <2>3, <2>4 DEF TypeOK, ObjectState
<1>2. ControlOK /\ KnownOK
  BY DEF Init, ControlOK, KnownOK, Working, Deleting
<1>3. RemoteOK
  BY DEF Init, RemoteOK
<1>4. ListOK
  BY DEF Init, ListOK, Working, Deleting
<1> QED  BY <1>1, <1>2, <1>3, <1>4 DEF ExportInvariant

\* The loop goes to the next volume when nothing is left of the last one.
LEMMA LoopKeeps ==
    ASSUME ExportInvariant, findVM \/ exportFnReturns
    PROVE  ExportInvariant'
<1> USE DEF ExportInvariant, NextVolume, Result, Remote, Locals
<1>1. /\ UNCHANGED <<attempt, disks, files, cloud, excused, faults>>
      /\ pc \in {"find", "return"} /\ pc' \in {"snapshot", "end"}
  BY DEF findVM, exportFnReturns
<1>2. err' = FALSE
  BY DEF findVM, exportFnReturns, ControlOK
<1>3. /\ known' \subseteq Kind /\ polls' \in 0..RetryCount
      /\ index' \in 0..N /\ (pc' = "snapshot" => index' \in 1..N)
      /\ run' \in {"running", "ok", "failed"} /\ (pc' = "end" <=> run' # "running")
  BY DEF findVM, exportFnReturns, TypeOK, ControlOK
<1>4. TypeOK'
  BY <1>1, <1>2, <1>3 DEF TypeOK
<1>5. ControlOK' /\ KnownOK'
  BY <1>1, <1>2, <1>3 DEF ControlOK, KnownOK, Working, Deleting
<1>6. RemoteOK'
  <2>1. \A o \in Object \ excused : cloud[o] = "none"
    BY <1>1 DEF RemoteOK, ToBeDeleted, Object, Kind, Working, Deleting, findVM
  <2> QED  BY <1>1, <2>1 DEF RemoteOK
<1>7. ListOK'
  <2>1. \A j \in 1..Len(disks) : disks[j] = j /\ files[j] = "whole"
    BY DEF ListOK
  <2>2. Len(disks) \in 0..N
    BY DEF ListOK, TypeOK, ControlOK, findVM, exportFnReturns, Deleting
  <2>3. pc' = "snapshot" => Len(disks) = index' - 1
    BY DEF ListOK, TypeOK, ControlOK, findVM, exportFnReturns, Deleting
  <2>4. run' = "ok" => Len(disks) = N
    BY DEF ListOK, TypeOK, ControlOK, findVM, exportFnReturns, Deleting
  <2> QED  BY <1>1, <2>1, <2>2, <2>3, <2>4 DEF ListOK, Working, Deleting
<1> QED  BY <1>4, <1>5, <1>6, <1>7

-----------------------------------------------------------------------------
(***************************************************************************)
(* Snapshot, volume, image                                                 *)
(***************************************************************************)
\* An object that was asked for is known, or its answer was lost.
LEMMA CreateFacts ==
    ASSUME ExportInvariant, pc \in Working, NEW k \in Kind, NEW next \in Working,
           NEW effect \in [Object -> ObjectState],
           \A o \in Object : effect[o] # "none" => cloud[o] # "none" \/ o = The(k) \/ o.kind \in known,
           \A o \in Object : effect[o] # cloud[o] => o.attempt = attempt /\ o.index = index,
           Create(k, next, effect)
    PROVE  /\ Elsewhere /\ RemoteType /\ UNCHANGED <<index, run, polls>>
           /\ known' \subseteq Kind /\ known \subseteq known'
           /\ \/ pc' = next /\ err' = FALSE /\ k \in known'
              \/ pc' = "deleteImage" /\ err' = TRUE
           /\ \A o \in Object \ excused' :
                 cloud'[o] # "none" => o.attempt = attempt /\ o.index = index /\ o.kind \in known'
<1> USE DEF ExportInvariant, Elsewhere, RemoteType, Result, Remote, Goto
<1>1. The(k) \in Object /\ The(k).kind = k
  BY TheType DEF ControlOK
<1>2. faults' \in 0..MaxFaults
  BY FaultType DEF Create, TypeOK
<1>3. CASE cloud' = effect /\ known' = known \cup {k} /\ Goto(next) /\ UNCHANGED <<err, excused>>
  <2>1. \A o \in Object \ excused :
           effect[o] # "none" => o.attempt = attempt /\ o.index = index /\ o.kind \in known \cup {k}
    BY <1>1 DEF RemoteOK
  <2>2. err' = FALSE
    BY <1>3 DEF ControlOK
  <2> QED  BY <1>2, <1>3, <2>1, <2>2 DEF Create, TypeOK, ObjectState
<1>4. CASE Fails /\ UNCHANGED <<known, cloud, excused>>
  BY <1>2, <1>4 DEF Create, Fails, TypeOK, ObjectState, RemoteOK
<1>5. CASE cloud' = effect /\ excused' = excused \cup {The(k)} /\ Fails /\ UNCHANGED known
  <2>1. \A o \in Object \ excused' :
           effect[o] # "none" => o.attempt = attempt /\ o.index = index /\ o.kind \in known
    BY <1>5 DEF RemoteOK
  <2> QED  BY <1>1, <1>2, <1>5, <2>1 DEF Create, Fails, TypeOK, ObjectState
<1> QED  BY <1>3, <1>4, <1>5 DEF Create

\* The list and the place in the loop do not change while exportFn works.
LEMMA WorkKeeps ==
    ASSUME ExportInvariant, pc \in Working, Elsewhere, RemoteType,
           UNCHANGED <<index, run>>, polls' \in 0..RetryCount,
           known' \subseteq Kind, known \subseteq known',
           \/ pc' \in Working /\ err' = FALSE /\ KnownOK'
           \/ pc' = "deleteImage" /\ err' = TRUE,
           \A o \in Object \ excused' :
               cloud'[o] # "none" => o.attempt = attempt /\ o.index = index /\ o.kind \in known'
    PROVE  ExportInvariant'
<1> USE DEF ExportInvariant, Elsewhere, RemoteType
<1>1. TypeOK'
  BY DEF TypeOK, Working, ObjectState
<1>2. ControlOK' /\ KnownOK'
  BY DEF ControlOK, KnownOK, Working, Deleting
<1>3. RemoteOK'
  BY DEF RemoteOK, ToBeDeleted, Object, Kind, Working
<1>4. ListOK'
  BY DEF ListOK, ControlOK, TypeOK, Working, Deleting
<1> QED  BY <1>1, <1>2, <1>3, <1>4

LEMMA CreateKeeps ==
    ASSUME ExportInvariant, createSnapshot \/ createVolume \/ uploadImage
    PROVE  ExportInvariant'
<1>1. ASSUME NEW k \in Kind, NEW next \in Working, NEW effect \in [Object -> ObjectState],
             pc \in Working, Create(k, next, effect),
             \A o \in Object : effect[o] # "none" => cloud[o] # "none" \/ o = The(k) \/ o.kind \in known,
             \A o \in Object : effect[o] # cloud[o] => o.attempt = attempt /\ o.index = index,
             \A known2 : k \in known2 /\ known \subseteq known2 =>
                 /\ next \in {"waitVolume", "upload", "poll", "download"} => "volume" \in known2
                 /\ next \in {"poll", "download"} => "image" \in known2
      PROVE  ExportInvariant'
  <2>1. /\ Elsewhere /\ RemoteType /\ UNCHANGED <<index, run, polls>>
        /\ known' \subseteq Kind /\ known \subseteq known'
        /\ \/ pc' = next /\ err' = FALSE /\ k \in known'
           \/ pc' = "deleteImage" /\ err' = TRUE
        /\ \A o \in Object \ excused' :
              cloud'[o] # "none" => o.attempt = attempt /\ o.index = index /\ o.kind \in known'
    BY <1>1, CreateFacts
  <2>2. pc' = next /\ k \in known' => KnownOK'
    BY <1>1, <2>1 DEF KnownOK
  <2>3. polls' \in 0..RetryCount
    BY <2>1 DEF ExportInvariant, TypeOK
  <2> QED  BY <1>1, <2>1, <2>2, <2>3, WorkKeeps
<1>2. CASE createSnapshot
  <2> DEFINE effect == [cloud EXCEPT ![The("snapshot")] = "busy"]
  <2>1. The("snapshot") \in Object /\ The("snapshot").attempt = attempt /\ The("snapshot").index = index
    BY <1>2, TheType DEF createSnapshot, ExportInvariant, ControlOK, Working, Kind
  <2>2. effect \in [Object -> ObjectState]
    BY DEF ExportInvariant, TypeOK, ObjectState
  <2>3. \A o \in Object : effect[o] # "none" => cloud[o] # "none" \/ o = The("snapshot")
    BY DEF ExportInvariant, TypeOK
  <2>4. \A o \in Object : effect[o] # cloud[o] => o.attempt = attempt /\ o.index = index
    BY <2>1 DEF ExportInvariant, TypeOK
  <2>5. "snapshot" \in Kind /\ "waitSnapshot" \in Working /\ pc \in Working /\ Create("snapshot", "waitSnapshot", effect)
    BY <1>2 DEF createSnapshot, Kind, Working
  <2>6. ASSUME NEW known2, "snapshot" \in known2, known \subseteq known2
        PROVE  /\ "waitSnapshot" \in {"waitVolume", "upload", "poll", "download"} => "volume" \in known2
               /\ "waitSnapshot" \in {"poll", "download"} => "image" \in known2
    BY <2>6
  <2> HIDE DEF effect
  <2> QED  BY <1>1, <2>2, <2>3, <2>4, <2>5, <2>6
<1>3. CASE createVolume
  <2> DEFINE effect == [cloud EXCEPT ![The("volume")] = "busy"]
  <2>1. The("volume") \in Object /\ The("volume").attempt = attempt /\ The("volume").index = index
    BY <1>3, TheType DEF createVolume, ExportInvariant, ControlOK, Working, Kind
  <2>2. effect \in [Object -> ObjectState]
    BY DEF ExportInvariant, TypeOK, ObjectState
  <2>3. \A o \in Object : effect[o] # "none" => cloud[o] # "none" \/ o = The("volume")
    BY DEF ExportInvariant, TypeOK
  <2>4. \A o \in Object : effect[o] # cloud[o] => o.attempt = attempt /\ o.index = index
    BY <2>1 DEF ExportInvariant, TypeOK
  <2>5. "volume" \in Kind /\ "waitVolume" \in Working /\ pc \in Working /\ Create("volume", "waitVolume", effect)
    BY <1>3 DEF createVolume, Kind, Working
  <2>6. ASSUME NEW known2, "volume" \in known2, known \subseteq known2
        PROVE  /\ "waitVolume" \in {"waitVolume", "upload", "poll", "download"} => "volume" \in known2
               /\ "waitVolume" \in {"poll", "download"} => "image" \in known2
    BY <2>6
  <2> HIDE DEF effect
  <2> QED  BY <1>1, <2>2, <2>3, <2>4, <2>5, <2>6
<1>4. CASE uploadImage
  <2> DEFINE effect == [cloud EXCEPT ![The("image")] = "busy", ![The("volume")] = "busy"]
  <2>1. \A k \in {"image", "volume"} :
           The(k) \in Object /\ The(k).kind = k /\ The(k).attempt = attempt /\ The(k).index = index
    BY <1>4, TheType DEF uploadImage, ExportInvariant, ControlOK, Working, Kind
  <2>2. effect \in [Object -> ObjectState]
    BY DEF ExportInvariant, TypeOK, ObjectState
  <2>3. "volume" \in known
    BY <1>4 DEF uploadImage, ExportInvariant, KnownOK
  <2>4. \A o \in Object : effect[o] # "none" => cloud[o] # "none" \/ o = The("image") \/ o.kind \in known
    BY <2>1, <2>3 DEF ExportInvariant, TypeOK
  <2>5. \A o \in Object : effect[o] # cloud[o] => o.attempt = attempt /\ o.index = index
    BY <2>1 DEF ExportInvariant, TypeOK
  <2>6. "image" \in Kind /\ "poll" \in Working /\ pc \in Working /\ Create("image", "poll", effect)
    BY <1>4 DEF uploadImage, Kind, Working
  <2>7. ASSUME NEW known2, "image" \in known2, known \subseteq known2
        PROVE  /\ "poll" \in {"waitVolume", "upload", "poll", "download"} => "volume" \in known2
               /\ "poll" \in {"poll", "download"} => "image" \in known2
    BY <2>7, <2>3
  <2> HIDE DEF effect
  <2> QED  BY <1>1, <2>2, <2>3, <2>4, <2>5, <2>6, <2>7
<1> QED  BY <1>2, <1>3, <1>4

LEMMA WaitKeeps ==
    ASSUME ExportInvariant, waitSnapshot \/ waitVolume
    PROVE  ExportInvariant'
<1> USE DEF ExportInvariant, waitSnapshot, waitVolume, WaitForStatus, Fails, Goto, Locals, Result, Remote
<1>1. pc \in Working
  BY DEF Working
<1>2. RemoteType
  <2>1. faults' \in 0..MaxFaults
    BY FaultType DEF TypeOK
  <2> QED  BY <2>1 DEF RemoteType, TypeOK, ObjectState
<1>3. Elsewhere /\ UNCHANGED <<index, run, known, polls, cloud, excused>>
  BY DEF Elsewhere
<1>4. \/ pc' \in Working /\ err' = FALSE /\ KnownOK'
      \/ pc' = "deleteImage" /\ err' = TRUE
  BY <1>1, <1>3 DEF ControlOK, KnownOK, Working
<1>5. \A o \in Object \ excused' :
          cloud'[o] # "none" => o.attempt = attempt /\ o.index = index /\ o.kind \in known'
  BY <1>3 DEF RemoteOK
<1>6. polls' \in 0..RetryCount /\ known' \subseteq Kind /\ known \subseteq known'
  BY <1>3 DEF TypeOK
<1> HIDE DEF ExportInvariant
<1> QED  BY <1>1, <1>2, <1>3, <1>4, <1>5, <1>6, WorkKeeps

LEMMA PollKeeps == ASSUME ExportInvariant, pollImage PROVE ExportInvariant'
<1> USE DEF ExportInvariant, pollImage, Fails, Goto, Result, Remote
<1>1. pc \in Working /\ pc = "poll"
  BY DEF Working
<1>2. RemoteType
  <2>1. faults' \in 0..MaxFaults
    BY FaultType DEF TypeOK
  <2> QED  BY <2>1 DEF RemoteType, TypeOK, ObjectState
<1>3. Elsewhere /\ UNCHANGED <<index, run, known, cloud, excused>>
  BY DEF Elsewhere
<1>4. \/ pc' \in Working /\ err' = FALSE /\ KnownOK'
      \/ pc' = "deleteImage" /\ err' = TRUE
  BY <1>1, <1>3 DEF ControlOK, KnownOK, Working
<1>5. \A o \in Object \ excused' :
          cloud'[o] # "none" => o.attempt = attempt /\ o.index = index /\ o.kind \in known'
  BY <1>3 DEF RemoteOK
<1>6. polls' \in 0..RetryCount
  BY DEF TypeOK
<1>7. known' \subseteq Kind /\ known \subseteq known'
  BY <1>3 DEF TypeOK
<1> HIDE DEF ExportInvariant
<1> QED  BY <1>1, <1>2, <1>3, <1>4, <1>5, <1>6, <1>7, WorkKeeps

\* The disk is listed with its file, or the file is left as it got.
LEMMA DownloadKeeps == ASSUME ExportInvariant, downloadImage PROVE ExportInvariant'
<1> USE DEF ExportInvariant, downloadImage, Fails, Goto, Locals, Remote
<1>1. /\ pc = "download" /\ pc' = "deleteImage" /\ err = FALSE
      /\ UNCHANGED <<index, attempt, run, known, polls, cloud, excused, faults>>
      /\ index \in 1..N /\ Len(disks) = index - 1 /\ disks \in Seq(1..N)
      /\ run = "running"
  BY DEF ControlOK, ListOK, TypeOK, Working, Deleting
<1>2. files' \in [1..N -> {"none", "partial", "whole"}]
  BY DEF TypeOK
<1>3. \/ /\ err' = FALSE /\ disks' = Append(disks, index)
         /\ files' = [files EXCEPT ![index] = "whole"]
      \/ /\ err' = TRUE /\ disks' = disks
         /\ files' \in {files, [files EXCEPT ![index] = "partial"]}
  BY <1>1
<1>4. disks' \in Seq(1..N)
  <2>1. Append(disks, index) \in Seq(1..N)
    BY <1>1
  <2> QED  BY <1>1, <1>3, <2>1
<1>5. TypeOK'
  <2>1. err' \in BOOLEAN
    BY <1>3
  <2> QED  BY <1>1, <1>2, <1>4, <2>1 DEF TypeOK
<1>6. ControlOK' /\ KnownOK'
  BY <1>1 DEF ControlOK, KnownOK, Working, Deleting
<1>7. RemoteOK'
  BY <1>1 DEF RemoteOK, ToBeDeleted, Object, Kind, Working
<1>8. ListOK'
  <2>1. \A j \in 1..Len(disks) : disks[j] = j /\ files[j] = "whole"
    BY DEF ListOK
  <2>2. CASE disks' = Append(disks, index) /\ files' = [files EXCEPT ![index] = "whole"] /\ err' = FALSE
    <3>1. Len(disks') = index
      BY <1>1, <2>2
    <3>2. \A j \in 1..Len(disks') : disks'[j] = j /\ files'[j] = "whole"
      BY <1>1, <2>1, <2>2, <3>1 DEF TypeOK
    <3> QED  BY <1>1, <2>2, <3>1, <3>2 DEF ListOK, Working, Deleting
  <2>3. CASE disks' = disks /\ files' \in {files, [files EXCEPT ![index] = "partial"]} /\ err' = TRUE
    <3>1. \A j \in 1..Len(disks') : disks'[j] = j /\ files'[j] = "whole"
      BY <1>1, <2>1, <2>3 DEF TypeOK
    <3> QED  BY <1>1, <2>3, <3>1 DEF ListOK, Working, Deleting
  <2> QED  BY <1>3, <2>2, <2>3
<1> QED  BY <1>5, <1>6, <1>7, <1>8

-----------------------------------------------------------------------------
(***************************************************************************)
(* The deferred function, OpenStack, a restart                             *)
(***************************************************************************)
\* Deleting something leaves it only when the deletion was refused.
LEMMA DeleteFacts ==
    ASSUME ExportInvariant, index \in 1..N, NEW k \in Kind, NEW next, Delete(k, next)
    PROVE  /\ pc' = next /\ RemoteType
           /\ UNCHANGED <<index, attempt, run, err, known, polls, disks, files>>
           /\ \A o \in Object \ excused' :
                 cloud'[o] # "none" => cloud[o] # "none" /\ o.kind # k
<1> USE DEF ExportInvariant, Delete, Refused, Goto, Locals, Result, Remote
<1>1. The(k) \in Object
  BY TheType
<1>2. faults' \in 0..MaxFaults
  BY FaultType DEF TypeOK
<1>3. pc' = next /\ UNCHANGED <<index, attempt, run, err, known, polls, disks, files>>
  OBVIOUS
<1>4. \A o \in Object \ excused : cloud[o] # "none" /\ o.kind = k => o = The(k) /\ k \in known
  BY TheOnly DEF RemoteOK
<1>5. CASE k \notin known /\ UNCHANGED <<cloud, excused>>
  BY <1>2, <1>3, <1>4, <1>5 DEF RemoteType, TypeOK, ObjectState
<1>6. CASE cloud' = [cloud EXCEPT ![The(k)] = "none"] /\ UNCHANGED excused
  BY <1>1, <1>2, <1>3, <1>4, <1>6 DEF RemoteType, TypeOK, ObjectState
<1>7. CASE excused' = excused \cup {The(k)} /\ UNCHANGED cloud
  BY <1>1, <1>2, <1>3, <1>4, <1>7 DEF RemoteType, TypeOK, ObjectState
<1> QED  BY <1>5, <1>6, <1>7

LEMMA DeleteKeeps ==
    ASSUME ExportInvariant, deleteImage \/ deleteVolume \/ deleteSnapshot
    PROVE  ExportInvariant'
<1> USE DEF Deleting, Kind
<1>1. PICK k \in Kind, next \in {"deleteVolume", "deleteSnapshot", "return"} :
         /\ Delete(k, next)
         /\ <<k, pc, next>> \in {<<"image", "deleteImage", "deleteVolume">>,
                                <<"volume", "deleteVolume", "deleteSnapshot">>,
                                <<"snapshot", "deleteSnapshot", "return">>}
  BY DEF deleteImage, deleteVolume, deleteSnapshot
<1>2. pc \in Deleting /\ index \in 1..N
  BY <1>1 DEF ExportInvariant, ControlOK
<1>3. /\ pc' = next /\ RemoteType
      /\ UNCHANGED <<index, attempt, run, err, known, polls, disks, files>>
      /\ \A o \in Object \ excused' :
            cloud'[o] # "none" => cloud[o] # "none" /\ o.kind # k
  BY <1>1, <1>2, DeleteFacts
<1>4. TypeOK'
  BY <1>3 DEF ExportInvariant, TypeOK, RemoteType, ObjectState
<1>5. ControlOK' /\ KnownOK'
  BY <1>1, <1>2, <1>3 DEF ExportInvariant, ControlOK, KnownOK, Working
<1>6. RemoteOK'
  BY <1>1, <1>3 DEF ExportInvariant, RemoteOK, RemoteType, ToBeDeleted, Object, Working
<1>7. ListOK'
  BY <1>1, <1>2, <1>3 DEF ExportInvariant, ListOK, Working
<1> QED  BY <1>4, <1>5, <1>6, <1>7 DEF ExportInvariant

LEMMA CloudKeeps == ASSUME ExportInvariant, CloudWorks PROVE ExportInvariant'
<1> USE DEF ExportInvariant, CloudWorks, Locals, Result
<1>1. UNCHANGED <<pc, index, attempt, run, err, known, polls, disks, files, excused, faults>>
  OBVIOUS
<1>2. cloud' \in [Object -> ObjectState]
  BY DEF TypeOK, ObjectState
<1>3. \A o \in Object : cloud'[o] # "none" => cloud[o] # "none"
  BY DEF TypeOK
<1>4. TypeOK' /\ ControlOK' /\ KnownOK' /\ ListOK'
  BY <1>1, <1>2 DEF TypeOK, ObjectState, ControlOK, KnownOK, ListOK
<1>5. RemoteOK'
  BY <1>1, <1>3 DEF RemoteOK, ToBeDeleted
<1> QED  BY <1>4, <1>5

\* Whatever is there at a crash is excused.
LEMMA CrashKeeps == ASSUME ExportInvariant, Crash PROVE ExportInvariant'
<1> USE DEF ExportInvariant, Crash
<1>1. TypeOK'
  <2>1. faults' \in 0..MaxFaults
    BY FaultType DEF TypeOK
  <2>2. files' \in [1..N -> {"none", "partial", "whole"}]
    OBVIOUS
  <2>3. disks' \in Seq(1..N) /\ polls' \in 0..RetryCount /\ attempt' \in 1..MaxRuns
    BY DEF TypeOK
  <2>4. err' \in BOOLEAN
    OBVIOUS
  <2> QED  BY <2>1, <2>2, <2>3, <2>4 DEF TypeOK
<1>2. ControlOK' /\ KnownOK'
  BY DEF ControlOK, KnownOK, Working, Deleting
<1>3. RemoteOK'
  BY DEF RemoteOK
<1>4. ListOK'
  BY DEF ListOK, Working, Deleting
<1> QED  BY <1>1, <1>2, <1>3, <1>4

LEMMA ExportInductive == Spec => []ExportInvariant
<1>1. ASSUME ExportInvariant, [Next]_vars PROVE ExportInvariant'
  <2>1. CASE UNCHANGED vars
    <3>1. TypeOK'
      BY <1>1, <2>1 DEF ExportInvariant, TypeOK, vars
    <3>2. ControlOK' /\ KnownOK' /\ ListOK'
      BY <1>1, <2>1 DEF ExportInvariant, ControlOK, KnownOK, ListOK, vars
    <3>3. RemoteOK'
      BY <1>1, <2>1 DEF ExportInvariant, RemoteOK, ToBeDeleted, vars
    <3> QED  BY <3>1, <3>2, <3>3 DEF ExportInvariant
  <2>2. CASE Next
    BY <1>1, <2>2, LoopKeeps, CreateKeeps, WaitKeeps, PollKeeps, DownloadKeeps, DeleteKeeps,
       CloudKeeps, CrashKeeps DEF Next, ExportVirtualMachine
  <2> QED  BY <1>1, <2>1, <2>2
<1> QED  BY <1>1, InitInvariant, PTL DEF Spec

-----------------------------------------------------------------------------
(***************************************************************************)
(* The theorems                                                            *)
(***************************************************************************)
\* The variables of the export keep their types.
THEOREM OpenstackTypeCorrect == Spec => []TypeOK
<1>1. ExportInvariant => TypeOK
  BY DEF ExportInvariant
<1> QED  BY <1>1, ExportInductive, PTL

\* The deferred function of exportFn forgets nothing, by whichever return the
\* export ended, however many volumes there are and however often it polls.
THEOREM NothingIsForgotten == Spec => []NothingLeftUnnoticed
<1>1. ExportInvariant => NothingLeftUnnoticed
  <2> SUFFICES ASSUME ExportInvariant, NEW o \in Object \ excused, cloud[o] # "none"
               PROVE  run = "running" /\ o.attempt = attempt /\ o.index = index
    BY DEF NothingLeftUnnoticed
  <2>1. o.attempt = attempt /\ o.index = index /\ ToBeDeleted(o.kind)
    BY DEF ExportInvariant, RemoteOK
  <2>2. pc # "end"
    BY <2>1 DEF ToBeDeleted, Object, Kind, Working
  <2> QED  BY <2>1, <2>2 DEF ExportInvariant, ControlOK, TypeOK
<1> QED  BY <1>1, ExportInductive, PTL

\* The list names complete images only, one for each volume, in their order.
THEOREM DisksAreListedInOrder == Spec => []ListedInOrder
<1>1. ExportInvariant => ListedInOrder
  BY DEF ExportInvariant, ListOK, ListedInOrder
<1> QED  BY <1>1, ExportInductive, PTL

-----------------------------------------------------------------------------
(***************************************************************************)
(* OpenstackExport implements ExportContract                               *)
(***************************************************************************)
Served == Whole \cup (IF \E j \in 1..N : files[j] = "partial" THEN {0} ELSE {})
Listed == IF run = "running" THEN 0 ELSE Len(disks)

LEMMA ContractInit == Init => Contract!Init
<1> SUFFICES ASSUME Init PROVE Contract!Init
  OBVIOUS
<1>1. run = "running" /\ Listed = 0
  BY DEF Init, Listed
<1>2. \A j \in 1..N : files[j] = "none"
  BY DEF Init
<1>3. Served = {}
  BY <1>2 DEF Served, Whole
<1> QED  BY <1>1, <1>3 DEF Contract!Init, Listed, Served

\* A step that goes on is work, the last one succeeds or fails.
LEMMA ContractStep ==
    ASSUME ExportInvariant, ExportInvariant', [Next]_vars
    PROVE  [Contract!Next]_Contract!vars
<1> USE DEF Listed, Served
<1>1. Served' \in SUBSET (0..N)
  BY DEF Whole
<1>2. CASE run = "running" /\ run' = "running"
  <2>1. Contract!Work
    BY <1>1, <1>2 DEF Contract!Work
  <2> QED  BY <2>1 DEF Contract!Next
<1>3. CASE run = "running" /\ run' = "ok"
  <2>1. disks' \in Seq(1..N) /\ Len(disks') = N
    BY <1>3 DEF ExportInvariant, ListOK, TypeOK
  <2>2. 1..N \subseteq Served'
    BY <1>3, <2>1 DEF ExportInvariant, ListOK, Whole
  <2>3. Contract!Succeed
    BY <1>1, <1>3, <2>1, <2>2 DEF Contract!Succeed
  <2> QED  BY <2>3 DEF Contract!Next
<1>4. CASE run = "running" /\ run' = "failed"
  <2>1. pc' = "end"
    BY <1>4 DEF ExportInvariant, ControlOK
  <2>2. Len(disks') \in 0..N
    BY <2>1 DEF ExportInvariant, ListOK
  <2>3. Contract!Fail
    BY <1>1, <1>4, <2>2 DEF Contract!Fail
  <2> QED  BY <2>3 DEF Contract!Next
<1>5. CASE run # "running"
  <2>1. pc = "end"
    BY <1>5 DEF ExportInvariant, ControlOK
  <2>2. CASE Crash
    <3>1. \A j \in 1..N : files'[j] = "none"
      BY <2>2 DEF Crash
    <3>2. Served' = {}
      BY <3>1 DEF Whole
    <3>3. Contract!Restart
      BY <2>2, <3>2 DEF Crash, Contract!Restart
    <3> QED  BY <3>3 DEF Contract!Next
  <2>3. CASE CloudWorks \/ UNCHANGED vars
    <3>1. UNCHANGED <<run, disks, files>>
      BY <2>3 DEF CloudWorks, vars, Result
    <3> QED  BY <3>1 DEF Contract!vars, Whole
  <2>4. ~ExportVirtualMachine
    BY <2>1 DEF ExportVirtualMachine, findVM, createSnapshot, waitSnapshot, createVolume,
       waitVolume, uploadImage, pollImage, downloadImage, deleteImage, deleteVolume,
       deleteSnapshot, exportFnReturns
  <2> QED  BY <2>2, <2>3, <2>4 DEF Next
<1>6. run \in {"running", "ok", "failed"} /\ run' \in {"running", "ok", "failed"}
  BY DEF ExportInvariant, TypeOK
<1> QED  BY <1>2, <1>3, <1>4, <1>5, <1>6

\* What the import controller relies on when it calls ExportVirtualMachine is
\* what the OpenStack client does, with all its requests, polls and clean-ups.
THEOREM OpenstackImplementsContract == Spec => ImplementsContract
<1>1. ASSUME ExportInvariant, ExportInvariant', [Next]_vars
      PROVE  [Contract!Next]_Contract!vars
  BY <1>1, ContractStep
<1> QED  BY <1>1, ContractInit, ExportInductive, PTL DEF Spec, ImplementsContract, Contract!Spec

-----------------------------------------------------------------------------
(***************************************************************************)
(* The exports of the other clients                                        *)
(***************************************************************************)
VP == INSTANCE VmwareExportProofs WITH
    MaxRuns <- VmwareRuns, MaxFaults <- OtherFaults,
    pc <- vpc, attempt <- vattempt, disks <- vdisks, run <- vrun, faults <- vfaults

AP == INSTANCE OvaExportProofs WITH
    MaxFaults <- OtherFaults,
    pc <- apc, disk <- adisk, err <- aerr, disks <- adisks, run <- arun, faults <- afaults

USE ExportsAssumption

LEMMA VmwareAssumption == VP!Bounds
BY DEF VP!Bounds

LEMMA OvaAssumption == AP!VMNamesDiffer
BY DEF AP!VMNamesDiffer, A!Partial, AP!Partial

\* VP has the definitions of V once more, and AP those of A.
LEMMA SameVmware ==
    /\ V!Init <=> VP!Init
    /\ V!vars = VP!vars
    /\ V!Next <=> VP!Next
<1>1. V!Init <=> VP!Init
  BY DEF V!Init, VP!Init
<1>2. V!vars = VP!vars
  BY DEF V!vars, VP!vars
<1>3. V!Next <=> VP!Next
  BY Zenon DEF
       V!Fault, VP!Fault, V!NoFault, VP!NoFault, V!source, VP!source, V!result, VP!result,
       V!ending, VP!ending, V!Goto, VP!Goto, V!Return, VP!Return, V!mkdirTemp, VP!mkdirTemp,
       V!exportLease, VP!exportLease, V!waitLease, VP!waitLease, V!skipItem, VP!skipItem,
       V!downloadFile, VP!downloadFile, V!completeLease, VP!completeLease, V!convertToRAW,
       VP!convertToRAW, V!exportDone, VP!exportDone, V!ExportVirtualMachine,
       VP!ExportVirtualMachine, V!Named, VP!Named, V!Present, VP!Present, V!Disks, VP!Disks,
       V!Removed, VP!Removed, V!Cleanup, VP!Cleanup, V!LeaseExpires, VP!LeaseExpires,
       V!ImportAgain, VP!ImportAgain, V!Crash, VP!Crash, V!Next, VP!Next, V!vars, VP!vars
<1> QED  BY <1>1, <1>2, <1>3

LEMMA SameOva ==
    /\ A!Init <=> AP!Init
    /\ A!vars = AP!vars
    /\ A!Next <=> AP!Next
    /\ A!Crash <=> AP!Crash
<1>1. A!Init <=> AP!Init
  BY Zenon DEF A!Init, AP!Init, A!NoFile, AP!NoFile, A!generateArchivePath, AP!generateArchivePath, A!vmdkPath, AP!vmdkPath,
     A!generateImagePath, AP!generateImagePath, A!DiskNumbers, AP!DiskNumbers, A!Images,
     AP!Images, A!Path, AP!Path
<1>2. A!vars = AP!vars
  BY DEF A!vars, AP!vars
<1>3. A!Next <=> AP!Next
  BY Zenon DEF
       A!NoFile, AP!NoFile, A!Partial, AP!Partial, A!generateArchivePath, AP!generateArchivePath,
       A!vmdkPath, AP!vmdkPath, A!generateImagePath, AP!generateImagePath, A!DiskNumbers,
       AP!DiskNumbers, A!Images, AP!Images, A!Path, AP!Path, A!Writers, AP!Writers,
       A!IsWhole, AP!IsWhole, A!Create, AP!Create, A!RemoveAll, AP!RemoveAll, A!Fault,
       AP!Fault, A!NoFault, AP!NoFault, A!Files, AP!Files, A!Result, AP!Result, A!Goto,
       AP!Goto, A!Fail, AP!Fail, A!downloadArchive, AP!downloadArchive, A!downloadEnds,
       AP!downloadEnds, A!NextDisk, AP!NextDisk, A!readEnvelope, AP!readEnvelope,
       A!openVMDK, AP!openVMDK, A!copyVMDK, AP!copyVMDK, A!convertToRAW, AP!convertToRAW,
       A!removeVMDK, AP!removeVMDK, A!ExportVirtualMachine, AP!ExportVirtualMachine,
       A!GenerateVirtualMachine, AP!GenerateVirtualMachine, A!Listed, AP!Listed,
       A!CleanupPaths, AP!CleanupPaths, A!Cleanup, AP!Cleanup, A!Crash, AP!Crash, A!Next,
       AP!Next, A!vars, AP!vars
<1>4. A!Crash <=> AP!Crash
  BY Zenon DEF A!Crash, AP!Crash, A!Fault, AP!Fault, A!RemoveAll, AP!RemoveAll, A!NoFile, AP!NoFile,
               A!generateArchivePath, AP!generateArchivePath, A!vmdkPath, AP!vmdkPath,
               A!generateImagePath, AP!generateImagePath, A!DiskNumbers, AP!DiskNumbers, A!Images,
               AP!Images, A!Path, AP!Path
<1> QED  BY <1>1, <1>2, <1>3, <1>4

\* What one client does is nothing to the others.
LEMMA OneClientWorks ==
    /\ ExportsSpec => VP!Spec
    /\ ExportsSpec => AP!Spec
<1>1. ExportsInit => VP!Init /\ AP!Init
  BY SameVmware, SameOva DEF ExportsInit
<1>2. [ExportsNext]_allVars => [VP!Next]_VP!vars
  BY SameVmware DEF ExportsNext, allVars, vmware, VP!vars
<1>3. [ExportsNext]_allVars => [AP!Next]_AP!vars
  BY SameOva DEF ExportsNext, allVars, ova, AP!vars
<1> QED  BY <1>1, <1>2, <1>3, PTL DEF ExportsSpec, VP!Spec, AP!Spec

\* An export from VMware that has ended keeps neither directory nor lease, but
\* for what an early return leaves; for any lease and any number of exports.
THEOREM ExportsTidyUp == ExportsSpec => []ExportTidiesUp
<1>1. VP!ExportTidiesUp => ExportTidiesUp
  BY Zenon DEF ExportTidiesUp, V!ExportTidiesUp, VP!ExportTidiesUp
<1> QED  BY <1>1, OneClientWorks, VmwareAssumption, VP!VmwareTidiesUp, PTL

\* A failed conversion of a VMware disk leaves at most the image that was being
\* written, however often the export was made again.
THEOREM OneImageIsLostAtMost == ExportsSpec => []AtMostOneImageLost
<1>1. V!Present = VP!Present /\ V!Named = VP!Named
  BY DEF V!Present, VP!Present, V!Named, VP!Named, V!Disks, VP!Disks
<1>2. VP!AtMostOneImageLost => AtMostOneImageLost
  BY Zenon, <1>1 DEF AtMostOneImageLost, V!AtMostOneImageLost, VP!AtMostOneImageLost,
                     V!Cardinality, VP!Cardinality
<1> QED  BY <1>2, OneClientWorks, VmwareAssumption, VP!AtMostOneImageIsLost, PTL

\* The deferred removal of the OVA client leaves no VMDK once no export is under
\* way, for any imports and archives with any names in common.
THEOREM NoVMDKStays == ExportsSpec => []VMDKsRemoved
<1>1. AP!VMDKsRemoved => VMDKsRemoved
  BY Zenon DEF VMDKsRemoved, A!VMDKsRemoved, AP!VMDKsRemoved, A!Path, AP!Path, A!Images, AP!Images,
               A!generateArchivePath, AP!generateArchivePath, A!generateImagePath, AP!generateImagePath,
               A!vmdkPath, AP!vmdkPath, A!DiskNumbers, AP!DiskNumbers
<1> QED  BY <1>1, OneClientWorks, OvaAssumption, AP!VMDKsAreRemoved, PTL

\* Only a restart takes the archive of a finished OVA export before the VM was
\* generated from it.
THEOREM ArchivesStay == ExportsSpec => ArchiveKept
<1>1. \A i \in Imports : /\ A!HasArchive(i) <=> AP!HasArchive(i)
                         /\ A!HasArchive(i)' <=> AP!HasArchive(i)'
  BY Zenon DEF A!HasArchive, AP!HasArchive, A!IsWhole, AP!IsWhole, A!Writers, AP!Writers, A!Partial,
               AP!Partial, A!generateArchivePath, AP!generateArchivePath
<1>2. [\A i \in Imports : AP!HasArchive(i) => AP!HasArchive(i)' \/ AP!Crash]_AP!vars
      => [\A i \in Imports : A!HasArchive(i) => A!HasArchive(i)' \/ A!Crash]_A!vars
  BY <1>1, SameOva DEF A!vars, AP!vars
<1> QED  BY <1>2, OneClientWorks, OvaAssumption, AP!ArchiveIsKept, PTL
            DEF ArchiveKept, A!ArchiveKept, AP!ArchiveKept

\* The images an import has listed stay until its own clean-up or a restart takes
\* them.
THEOREM ListedImagesStay == ExportsSpec => ListedImagesKept
<1>1. \A i \in Imports : /\ A!HasImages(i) <=> AP!HasImages(i)
                         /\ A!HasImages(i)' <=> AP!HasImages(i)'
  BY Zenon DEF A!HasImages, AP!HasImages, A!Listed, AP!Listed, A!generateImagePath,
               AP!generateImagePath
<1>2. [\A i \in Imports : AP!HasImages(i) => AP!HasImages(i)' \/ AP!Crash]_AP!vars
      => [\A i \in Imports : A!HasImages(i) => A!HasImages(i)' \/ A!Crash]_A!vars
  BY <1>1, SameOva DEF A!vars, AP!vars
<1> QED  BY <1>2, OneClientWorks, OvaAssumption, AP!ListedImagesAreKept, PTL
            DEF ListedImagesKept, A!ListedImagesKept, AP!ListedImagesKept

LEMMA VmwareContractSame ==
    /\ VP!Contract!Init => V!Contract!Init
    /\ [VP!Contract!Next]_VP!Contract!vars => [V!Contract!Next]_V!Contract!vars
<1>1. VP!Contract!Init => V!Contract!Init
  BY Zenon DEF V!Contract!Init, VP!Contract!Init, V!DiskNumber, VP!DiskNumber, V!Disks, VP!Disks,
               V!Cardinality, VP!Cardinality
<1>2. [VP!Contract!Next]_VP!Contract!vars => [V!Contract!Next]_V!Contract!vars
  BY Zenon DEF V!Contract!Next, VP!Contract!Next, V!Contract!vars, VP!Contract!vars,
               V!Contract!Work, VP!Contract!Work, V!Contract!Succeed, VP!Contract!Succeed,
               V!Contract!Fail, VP!Contract!Fail, V!Contract!Restart, VP!Contract!Restart,
               V!Contract!Clean, VP!Contract!Clean, V!DiskNumber, VP!DiskNumber, V!Disks, VP!Disks,
               V!Cardinality, VP!Cardinality
<1> QED  BY <1>1, <1>2

LEMMA OvaContractSame ==
    [\A i \in Imports : AP!ContractOf(i)!Next \/ UNCHANGED AP!ContractOf(i)!vars]_AP!vars
    => [\A i \in Imports : A!ContractOf(i)!Next \/ UNCHANGED A!ContractOf(i)!vars]_A!vars
BY Zenon DEF
   A!ContractOf!Next, AP!ContractOf!Next, A!ContractOf!vars, AP!ContractOf!vars,
   A!ContractOf!Work, AP!ContractOf!Work, A!ContractOf!Succeed, AP!ContractOf!Succeed,
   A!ContractOf!Fail, AP!ContractOf!Fail, A!ContractOf!Restart, AP!ContractOf!Restart,
   A!ContractOf!Clean, AP!ContractOf!Clean, A!IsWhole, AP!IsWhole, A!Writers, AP!Writers,
   A!Partial, AP!Partial, A!DiskNumbers, AP!DiskNumbers, A!Images, AP!Images,
   A!generateArchivePath, AP!generateArchivePath, A!generateImagePath, AP!generateImagePath, A!vars, AP!vars

\* Whichever client works, an export ends as the import controller expects.
THEOREM OthersKeepTheContract == ExportsSpec => OthersImplementContract
<1>1. ExportsSpec => V!ImplementsContract
  BY VmwareContractSame, OneClientWorks, VmwareAssumption, VP!VmwareImplementsContract, PTL
     DEF V!ImplementsContract, VP!ImplementsContract, V!Contract!Spec, VP!Contract!Spec
<1>2. ExportsSpec => A!ImplementsContract
  BY OvaContractSame, OneClientWorks, OvaAssumption, AP!OvaImplementsContract, PTL
     DEF A!ImplementsContract, AP!ImplementsContract
<1> QED  BY <1>1, <1>2 DEF OthersImplementContract
=============================================================================
