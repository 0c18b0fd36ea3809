--------------------------- MODULE OvaExportProofs ---------------------------
(***************************************************************************)
(* Safety theorems of OvaExport, and that each of its exports implements   *)
(* ExportContract, for any imports and archives and any number of faults:  *)
(* the names of the VMs differ, those of the VMDKs need not.               *)
(***************************************************************************)
EXTENDS OvaExport, TLAPS, SequenceTheorems

\* What the theorems assume of the constants.
VMNamesDiffer ==
    /\ Partial \notin Imports /\ MaxFaults \in Nat
    /\ \A i \in Imports : Len(Href[i]) \in Nat
    /\ \A i, k \in Imports : VMName[i] = VMName[k] => i = k

-----------------------------------------------------------------------------
(***************************************************************************)
(* The inductive invariant                                                 *)
(***************************************************************************)
Beginning == {"download", "downloading", "envelope"}
Holding   == {"copy", "convert", "remove"}  \* an export has a VMDK in the directory
Exporting == {"extract"} \cup Holding

\* The files no other import reads or writes.
Own(i) == {generateArchivePath(i)} \cup Images(i)

Shape == disk \in [Imports -> Nat] /\ disks \in [Imports -> Seq(Nat)]

ControlOK(i) ==
    /\ run[i] = "running" <=> pc[i] \in Beginning \cup Exporting
    /\ pc[i] \in Exporting => disk[i] \in DiskNumbers(i)
    /\ err[i] => pc[i] = "remove"
    /\ writing[i] # NoFile => \/ pc[i] = "downloading" /\ writing[i] = generateArchivePath(i)
                              \/ pc[i] \in {"copy", "remove"} /\ writing[i] = vmdkPath(i, disk[i])

\* The disks are listed in the order of the archive.
ListOK(i) ==
    /\ pc[i] \in Beginning => disks[i] = <<>>
    /\ pc[i] \in Exporting => Len(disks[i]) = disk[i] - 1
    /\ run[i] = "ok" => Len(disks[i]) = Len(Href[i])
    /\ Len(disks[i]) <= Len(Href[i])
    /\ \A n \in 1..Len(disks[i]) : disks[i][n] = n

Complete(p) == file[p] # {} /\ Partial \notin file[p]

\* Archive and listed images are there while an export runs; its last image is
\* incomplete only if the export fails.
FilesOK(i) ==
    /\ pc[i] \in Exporting => Complete(generateArchivePath(i))
    /\ run[i] = "running" => \A n \in 1..Len(disks[i]) : /\ file[generateImagePath(i, n)] # {}
                                                         /\ err[i] \/ Complete(generateImagePath(i, n))
    /\ pc[i] = "remove" /\ ~err[i] => Complete(generateImagePath(i, disk[i]))

\* A VMDK in the directory is that of an export that will remove it.
VMDKsOK ==
    \A p \in Path : p[1] = "vmdk" /\ file[p] # {} =>
        \E i \in Imports : pc[i] \in Holding /\ p = vmdkPath(i, disk[i])

ImportOK(i) == ControlOK(i) /\ ListOK(i) /\ FilesOK(i)
ExportInvariant == TypeOK /\ Shape /\ (\A i \in Imports : ImportOK(i)) /\ VMDKsOK

-----------------------------------------------------------------------------
(***************************************************************************)
(* Paths                                                                   *)
(***************************************************************************)
LEMMA PathsExist ==
    ASSUME NEW i \in Imports
    PROVE  /\ generateArchivePath(i) \in Path /\ Own(i) \subseteq Path
           /\ \A j \in DiskNumbers(i) : /\ generateImagePath(i, j) \in Images(i)
                                        /\ generateImagePath(i, j) \in Path
                                        /\ vmdkPath(i, j) \in Path
BY DEF Path, Own, Images

LEMMA PathKinds ==
    ASSUME NEW i, NEW j
    PROVE  /\ generateArchivePath(i)[1] = "ova" /\ generateImagePath(i, j)[1] = "img"
           /\ vmdkPath(i, j)[1] = "vmdk"
           /\ generateArchivePath(i) # NoFile /\ generateImagePath(i, j) # NoFile
           /\ vmdkPath(i, j) # NoFile
BY DEF generateArchivePath, generateImagePath, vmdkPath, NoFile

\* The imports have files of their own, the VMDKs apart.
LEMMA OwnFiles ==
    ASSUME VMNamesDiffer, NEW i \in Imports, NEW k \in Imports
    PROVE  /\ \A p \in Own(i) : p # NoFile /\ p[1] # "vmdk"
           /\ \A p \in Own(i) : p \in Own(k) => i = k
           /\ \A p \in Images(i) : p # generateArchivePath(k)
<1>1. generateArchivePath(i) = generateArchivePath(k) => i = k
  BY DEF generateArchivePath, VMNamesDiffer
<1>2. \A j, m : generateImagePath(i, j) = generateImagePath(k, m) => i = k
  BY DEF generateImagePath, VMNamesDiffer
<1> QED  BY <1>1, <1>2, PathKinds DEF Own, Images

LEMMA NoFileIsNoPath == NoFile \notin Path
BY PathKinds DEF Path, Images

\* While nobody writes it, a file is whole if it is complete.
WholeOK == \A i \in Imports :
    /\ \A p \in Images(i) : IsWhole(p) <=> Complete(p)
    /\ IsWhole(generateArchivePath(i)) <=>
          Complete(generateArchivePath(i)) /\ writing[i] # generateArchivePath(i)

LEMMA WholeFiles ==
    ASSUME VMNamesDiffer, ExportInvariant
    PROVE  WholeOK
<1> SUFFICES ASSUME NEW i \in Imports
             PROVE  /\ \A p \in Images(i) : IsWhole(p) <=> Complete(p)
                    /\ IsWhole(generateArchivePath(i)) <=>
                          Complete(generateArchivePath(i)) /\ writing[i] # generateArchivePath(i)
  BY DEF WholeOK
<1>1. \A k \in Imports : writing[k] \in Own(i) => k = i /\ writing[k] = generateArchivePath(i)
  <2> TAKE k \in Imports
  <2>1. ControlOK(k)
    BY DEF ExportInvariant, ImportOK
  <2>2. /\ \A p \in Own(i) : p # NoFile /\ p[1] # "vmdk"
        /\ generateArchivePath(k) \in Own(i) => i = k
        /\ \A j : vmdkPath(k, j)[1] = "vmdk"
    BY OwnFiles, PathKinds DEF Own
  <2> QED  BY <2>1, <2>2 DEF ControlOK
<1>2. \A p \in Images(i) : p \in Own(i) /\ p # generateArchivePath(i)
  BY OwnFiles DEF Own
<1> QED  BY <1>1, <1>2 DEF IsWhole, Complete, Writers, Own

-----------------------------------------------------------------------------
(***************************************************************************)
(* The steps of one import                                                 *)
(***************************************************************************)
PCs == {"download", "downloading", "envelope", "extract", "copy", "convert",
        "remove", "end", "generated", "cleaned", "done"}

LEMMA InitInvariant ==
    ASSUME VMNamesDiffer, Init
    PROVE  ExportInvariant
<1>1. TypeOK /\ Shape
  <2>1. /\ file \in [Path -> SUBSET (Imports \cup {Partial})] /\ disk \in [Imports -> Nat]
        /\ disks \in [Imports -> Seq(Nat)] /\ faults \in 0..MaxFaults
        /\ \A i \in Imports : disk[i] \in 0..Len(Href[i]) /\ disks[i] \in Seq(1..Len(Href[i]))
    BY DEF Init, VMNamesDiffer
  <2> QED  BY <2>1 DEF Init, TypeOK, Shape
<1>2. \A i \in Imports : ImportOK(i)
  BY DEF Init, ImportOK, ControlOK, ListOK, FilesOK, Beginning, Exporting, Holding, VMNamesDiffer
<1>3. VMDKsOK
  BY DEF Init, VMDKsOK
<1> QED  BY <1>1, <1>2, <1>3 DEF ExportInvariant

\* A step of import i leaves the files of the others alone; an open file of
\* another import it may remove.
LocalStep(i) ==
    \A k \in Imports \ {i} :
        /\ pc'[k] = pc[k] /\ disk'[k] = disk[k] /\ err'[k] = err[k]
        /\ disks'[k] = disks[k] /\ run'[k] = run[k]
        /\ writing'[k] \in {writing[k], NoFile}
        /\ \A p \in Own(k) : file'[p] = file[p]

LEMMA LocalKeeps ==
    ASSUME VMNamesDiffer, ExportInvariant, NEW i \in Imports, LocalStep(i),
           TypeOK', Shape', ImportOK(i)', VMDKsOK'
    PROVE  ExportInvariant'
<1>1. ASSUME NEW k \in Imports \ {i} PROVE ImportOK(k)'
  <2>1. ImportOK(k)
    BY DEF ExportInvariant
  <2>2. /\ pc'[k] = pc[k] /\ disk'[k] = disk[k] /\ err'[k] = err[k]
        /\ disks'[k] = disks[k] /\ run'[k] = run[k]
        /\ writing'[k] \in {writing[k], NoFile}
        /\ \A p \in Own(k) : file'[p] = file[p]
    BY DEF LocalStep
  <2>3. ControlOK(k)' /\ ListOK(k)'
    BY <2>1, <2>2 DEF ImportOK, ControlOK, ListOK
  <2>4. FilesOK(k)'
    <3>1. \A n \in 1..Len(disks[k]) : n \in DiskNumbers(k)
      BY <2>1 DEF ImportOK, ListOK, DiskNumbers, ExportInvariant, TypeOK, VMNamesDiffer
    <3>2. pc[k] = "remove" => disk[k] \in DiskNumbers(k)
      BY <2>1 DEF ImportOK, ControlOK, Exporting, Holding
    <3>3. /\ \A n \in DiskNumbers(k) : file'[generateImagePath(k, n)] = file[generateImagePath(k, n)]
          /\ file'[generateArchivePath(k)] = file[generateArchivePath(k)]
      BY <2>2, PathsExist DEF Own
    <3> QED  BY <2>1, <2>2, <3>1, <3>2, <3>3 DEF ImportOK, FilesOK, Complete
  <2> QED  BY <2>3, <2>4 DEF ImportOK
<1> QED  BY <1>1 DEF ExportInvariant

\* What the invariant gives for the import at work.
LEMMA OwnFacts ==
    ASSUME VMNamesDiffer, ExportInvariant, NEW i \in Imports
    PROVE  /\ ControlOK(i) /\ ListOK(i) /\ FilesOK(i)
           /\ Len(Href[i]) \in Nat /\ DiskNumbers(i) = 1..Len(Href[i])
           /\ disk[i] \in Nat /\ disk[i] \in 0..Len(Href[i])
           /\ disks[i] \in Seq(Nat) /\ disks[i] \in Seq(1..Len(Href[i])) /\ Len(disks[i]) \in Nat
BY DEF ExportInvariant, ImportOK, TypeOK, Shape, VMNamesDiffer, DiskNumbers

\* An export that fails beside its disks: it holds no VMDK, or removes it.
LEMMA FailKeeps ==
    ASSUME VMNamesDiffer, ExportInvariant, NEW i \in Imports, Fail(i), UNCHANGED <<disk, faults>>,
           pc[i] \in Beginning \cup {"extract", "remove"},
           err' = [err EXCEPT ![i] = FALSE], writing' \in [Imports -> Path \cup {NoFile}],
           writing'[i] = NoFile, \A k \in Imports \ {i} : writing'[k] \in {writing[k], NoFile},
           file' \in [Path -> SUBSET (Imports \cup {Partial})],
           \A k \in Imports \ {i} : \A p \in Own(k) : file'[p] = file[p],
           VMDKsOK'
    PROVE  ExportInvariant'
<1>1. /\ pc'[i] = "end" /\ run'[i] = "failed" /\ disks' = disks /\ disk' = disk /\ ~err'[i]
      /\ \A k \in Imports \ {i} : pc'[k] = pc[k] /\ run'[k] = run[k] /\ err'[k] = err[k]
      /\ pc' \in [Imports -> PCs] /\ run' \in [Imports -> {"running", "ok", "failed"}]
      /\ err' \in [Imports -> BOOLEAN]
  BY DEF Fail, Goto, ExportInvariant, TypeOK, PCs
<1>2. TypeOK' /\ Shape'
  BY <1>1 DEF ExportInvariant, TypeOK, Shape, PCs
<1>3. LocalStep(i)
  BY <1>1 DEF LocalStep
<1>4. ImportOK(i)'
  BY <1>1, OwnFacts DEF ImportOK, ControlOK, ListOK, FilesOK, Beginning, Exporting, Holding
<1> QED  BY <1>2, <1>3, <1>4, LocalKeeps

LEMMA VMDKsStay ==
    ASSUME ExportInvariant,
           \A p \in Path : p[1] = "vmdk" /\ file'[p] # {} => file[p] # {},
           \A k \in Imports : pc[k] \in Holding => pc'[k] \in Holding /\ disk'[k] = disk[k]
    PROVE  VMDKsOK'
<1>1. ASSUME NEW p \in Path, p[1] = "vmdk", file'[p] # {}
      PROVE  \E k \in Imports : pc'[k] \in Holding /\ p = vmdkPath(k, disk'[k])
  <2>1. PICK k \in Imports : pc[k] \in Holding /\ p = vmdkPath(k, disk[k])
    BY <1>1 DEF ExportInvariant, VMDKsOK
  <2> QED  BY <2>1
<1> QED  BY <1>1 DEF VMDKsOK, vmdkPath

\* os.Create: only this file changes.
LEMMA CreateFacts ==
    ASSUME ExportInvariant, NEW i \in Imports, NEW q \in Path, Create(i, q)
    PROVE  /\ writing' \in [Imports -> Path \cup {NoFile}] /\ writing'[i] = q
           /\ \A k \in Imports \ {i} : writing'[k] = writing[k]
           /\ file' \in [Path -> SUBSET (Imports \cup {Partial})]
           /\ \A p \in Path : p # q => file'[p] = file[p]
BY DEF Create, Writers, ExportInvariant, TypeOK

LEMMA RemoveFacts ==
    ASSUME ExportInvariant, NEW P, RemoveAll(P)
    PROVE  /\ writing' \in [Imports -> Path \cup {NoFile}]
           /\ \A k \in Imports : writing'[k] = IF writing[k] \in P THEN NoFile ELSE writing[k]
           /\ file' \in [Path -> SUBSET (Imports \cup {Partial})]
           /\ \A p \in Path : file'[p] = IF p \in P THEN {} ELSE file[p]
BY DEF RemoveAll, ExportInvariant, TypeOK

LEMMA DownloadKeeps ==
    ASSUME VMNamesDiffer, ExportInvariant, NEW i \in Imports, downloadArchive(i) \/ downloadEnds(i)
    PROVE  ExportInvariant'
<1> DEFINE a == generateArchivePath(i)
<1>1. /\ a \in Path /\ a[1] = "ova" /\ a # NoFile
      /\ \A k \in Imports \ {i} : a \notin Own(k)
      /\ \A k \in Imports : Own(k) \subseteq Path
  BY PathsExist, PathKinds, OwnFiles DEF Own
<1>2. /\ ControlOK(i) /\ ListOK(i) /\ FilesOK(i)
      /\ file \in [Path -> SUBSET (Imports \cup {Partial})] /\ writing \in [Imports -> Path \cup {NoFile}]
      /\ err \in [Imports -> BOOLEAN]
  BY OwnFacts DEF ExportInvariant, TypeOK
<1>3. /\ pc[i] \in Beginning /\ UNCHANGED <<disk, err, faults>> /\ ~err[i]
      /\ writing[i] \in {a, NoFile} /\ (pc[i] = "download" => writing[i] = NoFile)
  BY <1>2 DEF downloadArchive, downloadEnds, Beginning, ControlOK
<1> HIDE DEF a
<1>4. err' = [err EXCEPT ![i] = FALSE]
  BY <1>2, <1>3
<1>5. ASSUME NEW p \in {"downloading", "envelope"}, Goto(i, p), UNCHANGED Result,
             writing' \in [Imports -> Path \cup {NoFile}],
             p = "downloading" => writing'[i] = a, p = "envelope" => writing'[i] = NoFile,
             \A k \in Imports \ {i} : writing'[k] = writing[k],
             file' \in [Path -> SUBSET (Imports \cup {Partial})], \A q \in Path : q # a => file'[q] = file[q]
      PROVE  ExportInvariant'
  <2>1. /\ pc'[i] = p /\ pc' \in [Imports -> PCs] /\ \A k \in Imports \ {i} : pc'[k] = pc[k]
    BY <1>5 DEF Goto, ExportInvariant, TypeOK, PCs
  <2>2. TypeOK' /\ Shape'
    BY <1>3, <1>5, <2>1 DEF ExportInvariant, TypeOK, Shape, PCs, Result
  <2>3. LocalStep(i)
    BY <1>1, <1>3, <1>5, <2>1 DEF LocalStep, Result
  <2>4. ImportOK(i)'
    BY <1>2, <1>3, <1>5, <2>1, OwnFacts
       DEF ImportOK, ControlOK, ListOK, FilesOK, Beginning, Exporting, Holding, Result, a
  <2>5. VMDKsOK'
    BY <1>1, <1>3, <1>5, <2>1, VMDKsStay DEF Beginning, Holding
  <2> QED  BY <2>2, <2>3, <2>4, <2>5, LocalKeeps
<1>6. ASSUME Fail(i), writing' \in [Imports -> Path \cup {NoFile}], writing'[i] = NoFile,
             \A k \in Imports \ {i} : writing'[k] = writing[k],
             file' \in [Path -> SUBSET (Imports \cup {Partial})], \A q \in Path : q # a => file'[q] = file[q]
      PROVE  ExportInvariant'
  <2>1. \A k \in Imports \ {i} : pc'[k] = pc[k]
    BY <1>6 DEF Fail, Goto, ExportInvariant, TypeOK
  <2>2. VMDKsOK'
    BY <1>1, <1>3, <1>6, <2>1, VMDKsStay DEF Beginning, Holding
  <2>3. \A k \in Imports \ {i} : \A q \in Own(k) : file'[q] = file[q]
    BY <1>1, <1>6
  <2> QED  BY <1>3, <1>4, <1>6, <2>2, <2>3, FailKeeps
<1>7. CASE downloadArchive(i)
  <2>1. CASE Create(i, a) /\ Goto(i, "downloading") /\ UNCHANGED Result
    BY <1>1, <1>5, <2>1, CreateFacts
  <2>2. CASE Fail(i) /\ UNCHANGED Files
    BY <1>2, <1>3, <1>6, <1>7, <2>2 DEF Files, downloadArchive
  <2> QED  BY <1>7, <2>1, <2>2 DEF downloadArchive, a
<1>8. CASE downloadEnds(i)
  <2>1. /\ writing' \in [Imports -> Path \cup {NoFile}] /\ writing'[i] = NoFile
        /\ \A k \in Imports \ {i} : writing'[k] = writing[k]
    BY <1>2, <1>8 DEF downloadEnds
  <2>2. CASE Goto(i, "envelope") /\ UNCHANGED <<file, Result>>
    BY <1>2, <1>5, <2>1, <2>2
  <2>3. CASE Fail(i) /\ file' = IF writing[i] = NoFile THEN file
                                ELSE [file EXCEPT ![writing[i]] = @ \cup {Partial}]
    <3>1. /\ file' \in [Path -> SUBSET (Imports \cup {Partial})]
          /\ \A q \in Path : q # a => file'[q] = file[q]
      BY <1>1, <1>2, <1>3, <2>3
    <3> QED  BY <1>6, <2>1, <2>3, <3>1
  <2> QED  BY <1>8, <2>2, <2>3 DEF downloadEnds
<1> QED  BY <1>7, <1>8

LEMMA NextDiskFacts ==
    ASSUME VMNamesDiffer, ExportInvariant, NEW i \in Imports, NEW n \in 0..Len(Href[i]), NextDisk(i, n)
    PROVE  /\ \/ n = Len(Href[i]) /\ pc'[i] = "end" /\ run'[i] = "ok"
              \/ n < Len(Href[i]) /\ pc'[i] = "extract" /\ run'[i] = run[i] /\ disk'[i] = n + 1
           /\ \A k \in Imports \ {i} : pc'[k] = pc[k] /\ disk'[k] = disk[k] /\ run'[k] = run[k]
           /\ pc' \in [Imports -> PCs] /\ run' \in [Imports -> {"running", "ok", "failed"}]
           /\ disk' \in [Imports -> Nat] /\ disk'[i] \in 0..Len(Href[i])
<1>1. /\ pc \in [Imports -> PCs] /\ run \in [Imports -> {"running", "ok", "failed"}]
      /\ disk \in [Imports -> Nat] /\ disk[i] \in 0..Len(Href[i]) /\ Len(Href[i]) \in Nat
  BY OwnFacts DEF ExportInvariant, TypeOK, PCs, Shape
<1>2. CASE n = Len(Href[i])
  BY <1>1, <1>2 DEF NextDisk, Goto, PCs
<1>3. CASE n # Len(Href[i])
  <2>1. n + 1 \in Nat /\ n + 1 \in 0..Len(Href[i]) /\ n < Len(Href[i])
    BY <1>1, <1>3
  <2> QED  BY <1>1, <1>3, <2>1 DEF NextDisk, Goto, PCs
<1> QED  BY <1>2, <1>3

\* The loop goes to disk n + 1, or the export succeeds, once n disks are listed
\* and their images complete.
LEMMA NextDiskKeeps ==
    ASSUME VMNamesDiffer, ExportInvariant, NEW i \in Imports, NEW n \in 0..Len(Href[i]), NextDisk(i, n),
           UNCHANGED faults, err' \in [Imports -> BOOLEAN], ~err'[i], run[i] = "running",
           disks' \in [Imports -> Seq(Nat)], disks'[i] \in Seq(1..Len(Href[i])), Len(disks'[i]) = n,
           \A m \in 1..n : disks'[i][m] = m,
           \A k \in Imports \ {i} : disks'[k] = disks[k] /\ err'[k] = err[k],
           writing' \in [Imports -> Path \cup {NoFile}], writing'[i] = NoFile,
           \A k \in Imports \ {i} : writing'[k] \in {writing[k], NoFile},
           file' \in [Path -> SUBSET (Imports \cup {Partial})],
           \A k \in Imports \ {i} : \A p \in Own(k) : file'[p] = file[p],
           Complete(generateArchivePath(i))',
           \A m \in 1..n : /\ file'[generateImagePath(i, m)] # {}
                            /\ Partial \notin file'[generateImagePath(i, m)],
           VMDKsOK'
    PROVE  ExportInvariant'
<1>1. /\ \/ n = Len(Href[i]) /\ pc'[i] = "end" /\ run'[i] = "ok"
         \/ n < Len(Href[i]) /\ pc'[i] = "extract" /\ run'[i] = "running" /\ disk'[i] = n + 1
      /\ \A k \in Imports \ {i} : pc'[k] = pc[k] /\ disk'[k] = disk[k] /\ run'[k] = run[k]
      /\ pc' \in [Imports -> PCs] /\ run' \in [Imports -> {"running", "ok", "failed"}]
      /\ disk' \in [Imports -> Nat] /\ disk'[i] \in 0..Len(Href[i])
  BY NextDiskFacts
<1>2. TypeOK' /\ Shape'
  <2>1. /\ \A k \in Imports : disk'[k] \in 0..Len(Href[k])
        /\ \A k \in Imports : disks'[k] \in Seq(1..Len(Href[k]))
    BY <1>1 DEF ExportInvariant, TypeOK
  <2> QED  BY <1>1, <2>1 DEF ExportInvariant, TypeOK, Shape, PCs
<1>3. LocalStep(i)
  BY <1>1 DEF LocalStep
<1>4. Len(Href[i]) \in Nat /\ n \in Nat
  BY OwnFacts
<1>5. ControlOK(i)'
  BY <1>1, <1>4 DEF ControlOK, Beginning, Exporting, Holding, DiskNumbers
<1>6. ListOK(i)'
  BY <1>1, <1>4 DEF ListOK, Beginning, Exporting, Holding
<1>7. FilesOK(i)'
  BY <1>1, <1>4 DEF FilesOK, Exporting, Holding, Complete
<1> QED  BY <1>2, <1>3, <1>5, <1>6, <1>7, LocalKeeps DEF ImportOK

LEMMA EnvelopeKeeps ==
    ASSUME VMNamesDiffer, ExportInvariant, NEW i \in Imports, readEnvelope(i)
    PROVE  ExportInvariant'
<1>1. /\ pc[i] = "envelope" /\ run[i] = "running" /\ disks[i] = <<>> /\ writing[i] = NoFile /\ ~err[i]
      /\ UNCHANGED <<err, file, writing, faults>> /\ Len(Href[i]) \in Nat
  BY OwnFacts DEF readEnvelope, ControlOK, ListOK, Beginning, Files
<1>2. /\ file \in [Path -> SUBSET (Imports \cup {Partial})] /\ writing \in [Imports -> Path \cup {NoFile}]
      /\ err \in [Imports -> BOOLEAN] /\ disks \in [Imports -> Seq(Nat)]
      /\ disks[i] \in Seq(1..Len(Href[i]))
  BY DEF ExportInvariant, TypeOK, Shape
<1>3. err' = [err EXCEPT ![i] = FALSE]
  BY <1>1, <1>2
<1>4. CASE IsWhole(generateArchivePath(i)) /\ NextDisk(i, 0) /\ UNCHANGED disks
  <2>1. 0 \in 0..Len(Href[i])
    BY <1>1
  <2>2. VMDKsOK'
    <3>1. \A k \in Imports : pc[k] \in Holding => pc'[k] \in Holding /\ disk'[k] = disk[k]
      BY <1>1, <1>4, <2>1, NextDiskFacts DEF Holding
    <3> QED  BY <1>1, <3>1, VMDKsStay
  <2>3. Complete(generateArchivePath(i))'
    BY <1>1, <1>4 DEF IsWhole, Complete, generateArchivePath
  <2>4. Len(disks'[i]) = 0 /\ \A m \in 1..0 : FALSE
    BY <1>1, <1>4
  <2> QED  BY <1>1, <1>2, <1>4, <2>1, <2>2, <2>3, <2>4, NextDiskKeeps
<1>5. CASE Fail(i) /\ UNCHANGED disk
  <2>1. VMDKsOK'
    <3>1. \A k \in Imports : pc[k] \in Holding => pc'[k] \in Holding /\ disk'[k] = disk[k]
      BY <1>1, <1>5 DEF Holding, Fail, Goto, ExportInvariant, TypeOK
    <3> QED  BY <1>1, <3>1, VMDKsStay
  <2> QED  BY <1>1, <1>2, <1>3, <1>5, <2>1, FailKeeps DEF Beginning
<1> QED  BY <1>4, <1>5 DEF readEnvelope

\* An export goes on with its disk; it touches that VMDK and its own images.
LEMMA AdvanceKeeps ==
    ASSUME VMNamesDiffer, ExportInvariant, NEW i \in Imports, NEW p \in Holding, Goto(i, p),
           pc[i] \in {"extract", "copy", "convert"}, UNCHANGED <<disk, disks, run, faults>>,
           err' \in [Imports -> BOOLEAN], err'[i] => p = "remove",
           \A k \in Imports \ {i} : err'[k] = err[k] /\ writing'[k] = writing[k],
           writing' \in [Imports -> Path \cup {NoFile}],
           writing'[i] \in {NoFile, vmdkPath(i, disk[i])}, p = "convert" => writing'[i] = NoFile,
           file' \in [Path -> SUBSET (Imports \cup {Partial})],
           \A q \in Path : q \notin Images(i) /\ q # vmdkPath(i, disk[i]) => file'[q] = file[q],
           \A q \in Images(i) : Complete(q) => file'[q] # {} /\ (err'[i] \/ Complete(q)'),
           p = "remove" /\ ~err'[i] => Complete(generateImagePath(i, disk[i]))'
    PROVE  ExportInvariant'
<1>1. /\ pc'[i] = p /\ pc' \in [Imports -> PCs] /\ \A k \in Imports \ {i} : pc'[k] = pc[k]
  BY DEF Goto, ExportInvariant, TypeOK, PCs, Holding
<1>2. /\ disk[i] \in DiskNumbers(i) /\ run[i] = "running" /\ ~err[i]
      /\ \A n \in 1..Len(disks[i]) : n \in DiskNumbers(i)
  BY OwnFacts DEF ControlOK, ListOK, Exporting, Holding, DiskNumbers
<1>3. TypeOK' /\ Shape'
  BY <1>1 DEF ExportInvariant, TypeOK, Shape, PCs
<1>4. LocalStep(i)
  <2>1. \A k \in Imports \ {i} : \A q \in Own(k) : q \in Path /\ q \notin Images(i) /\ q # vmdkPath(i, disk[i])
    BY PathsExist, OwnFiles, PathKinds DEF Own
  <2> QED  BY <1>1, <2>1 DEF LocalStep
<1>5. ControlOK(i)'
  BY <1>1, OwnFacts DEF ControlOK, Exporting, Holding, Beginning, vmdkPath, DiskNumbers
<1>6. ListOK(i)'
  BY <1>1, OwnFacts DEF ListOK, Exporting, Holding, Beginning
<1>7. FilesOK(i)'
  <2>1. Complete(generateArchivePath(i))'
    <3>1. /\ generateArchivePath(i) \in Path /\ generateArchivePath(i) \notin Images(i)
          /\ generateArchivePath(i) # vmdkPath(i, disk[i])
      BY PathsExist, OwnFiles, PathKinds
    <3>2. Complete(generateArchivePath(i))
      BY OwnFacts DEF FilesOK, Exporting, Holding
    <3> QED  BY <3>1, <3>2 DEF Complete, generateArchivePath
  <2>2. ASSUME NEW n \in 1..Len(disks[i])
        PROVE  file'[generateImagePath(i, n)] # {} /\ (err'[i] \/ Complete(generateImagePath(i, n))')
    <3>1. generateImagePath(i, n) \in Images(i)
      BY <1>2, PathsExist
    <3>2. Complete(generateImagePath(i, n))
      BY <1>2, OwnFacts DEF FilesOK
    <3> QED  BY <3>1, <3>2 DEF Complete
  <2> QED  BY <1>1, <2>1, <2>2 DEF FilesOK, Complete
<1>8. VMDKsOK'
  <2>1. ASSUME NEW q \in Path, q[1] = "vmdk", file'[q] # {}
        PROVE  \E k \in Imports : pc'[k] \in Holding /\ q = vmdkPath(k, disk[k])
    <3>1. CASE q = vmdkPath(i, disk[i])
      BY <1>1, <3>1
    <3>2. CASE q # vmdkPath(i, disk[i])
      <4>1. q \notin Images(i)
        BY <2>1, OwnFiles DEF Own
      <4>2. PICK k \in Imports : pc[k] \in Holding /\ q = vmdkPath(k, disk[k])
        BY <2>1, <3>2, <4>1 DEF ExportInvariant, VMDKsOK
      <4> QED  BY <1>1, <4>2
    <3> QED  BY <3>1, <3>2
  <2> QED  BY <2>1 DEF VMDKsOK, vmdkPath
<1> QED  BY <1>3, <1>4, <1>5, <1>6, <1>7, <1>8, LocalKeeps DEF ImportOK

LEMMA DiskKeeps ==
    ASSUME VMNamesDiffer, ExportInvariant, NEW i \in Imports, openVMDK(i) \/ copyVMDK(i) \/ convertToRAW(i)
    PROVE  ExportInvariant'
<1> DEFINE q == vmdkPath(i, disk[i])
           img == generateImagePath(i, disk[i])
<1>1. /\ pc[i] \in {"extract", "copy", "convert"} /\ disk[i] \in DiskNumbers(i) /\ ~err[i]
      /\ writing[i] \in {NoFile, q} /\ (pc[i] \in {"extract", "convert"} => writing[i] = NoFile)
  BY OwnFacts DEF openVMDK, copyVMDK, convertToRAW, ControlOK, Exporting, Holding
<1>2. /\ q \in Path /\ q \notin Images(i) /\ img \in Images(i) /\ img \in Path
  BY <1>1, PathsExist, PathKinds, OwnFiles DEF Own
<1>3. /\ file \in [Path -> SUBSET (Imports \cup {Partial})] /\ writing \in [Imports -> Path \cup {NoFile}]
      /\ err \in [Imports -> BOOLEAN] /\ Images(i) \subseteq Path
  BY PathsExist DEF ExportInvariant, TypeOK, Own
<1>5. ASSUME openVMDK(i), Create(i, q), Goto(i, "copy"), UNCHANGED Result
      PROVE  ExportInvariant'
  <2>1. UNCHANGED <<disk, disks, run, faults, err>>
    BY <1>5 DEF openVMDK, Result
  <2>2. /\ writing' \in [Imports -> Path \cup {NoFile}] /\ writing'[i] = q
        /\ \A k \in Imports \ {i} : writing'[k] = writing[k]
        /\ file' \in [Path -> SUBSET (Imports \cup {Partial})]
        /\ \A p \in Path : p # q => file'[p] = file[p]
    BY <1>2, <1>5, CreateFacts
  <2>3. \A p \in Images(i) : Complete(p) => file'[p] # {} /\ Complete(p)'
    BY <1>2, <1>3, <2>2 DEF Complete
  <2>4. "copy" \in Holding
    BY DEF Holding
  <2> QED  BY <1>1, <1>3, <1>5, <2>1, <2>2, <2>3, <2>4, AdvanceKeeps
<1>6. ASSUME openVMDK(i), Fail(i), UNCHANGED Files
      PROVE  ExportInvariant'
  <2>1. UNCHANGED <<disk, faults, err, file, writing>> /\ pc[i] = "extract"
    BY <1>6 DEF openVMDK, Files
  <2>2. VMDKsOK'
    <3>1. \A k \in Imports : pc[k] \in Holding => pc'[k] \in Holding /\ disk'[k] = disk[k]
      BY <1>6, <2>1 DEF Holding, Fail, Goto, ExportInvariant, TypeOK
    <3> QED  BY <2>1, <3>1, VMDKsStay
  <2>3. err' = [err EXCEPT ![i] = FALSE]
    BY <1>1, <1>3, <2>1
  <2> QED  BY <1>1, <1>3, <1>6, <2>1, <2>2, <2>3, FailKeeps
<1>7. ASSUME copyVMDK(i) PROVE ExportInvariant'
  <2>1. /\ UNCHANGED <<disk, disks, run, faults, file>> /\ pc[i] = "copy"
        /\ \/ writing' = [writing EXCEPT ![i] = NoFile] /\ Goto(i, "convert") /\ UNCHANGED err
           \/ err' = [err EXCEPT ![i] = TRUE] /\ Goto(i, "remove") /\ UNCHANGED writing
    BY <1>7 DEF copyVMDK, Result, Files
  <2>2. \A p \in Images(i) : Complete(p) => file'[p] # {} /\ Complete(p)'
    BY <2>1 DEF Complete
  <2>3. "convert" \in Holding /\ "remove" \in Holding
    BY DEF Holding
  <2>4. CASE writing' = [writing EXCEPT ![i] = NoFile] /\ Goto(i, "convert") /\ UNCHANGED err
    BY <1>1, <1>3, <2>1, <2>2, <2>3, <2>4, AdvanceKeeps
  <2>5. CASE err' = [err EXCEPT ![i] = TRUE] /\ Goto(i, "remove") /\ UNCHANGED writing
    BY <1>1, <1>3, <2>1, <2>2, <2>3, <2>5, AdvanceKeeps
  <2> QED  BY <2>1, <2>4, <2>5
<1>8. ASSUME convertToRAW(i) PROVE ExportInvariant'
  <2>1. /\ UNCHANGED <<disk, disks, run, faults, writing>> /\ pc[i] = "convert" /\ Goto(i, "remove")
        /\ \/ /\ file[q] # {} /\ Partial \notin file[q]
              /\ file' = [file EXCEPT ![img] = file[q]] /\ UNCHANGED err
           \/ /\ file' \in {file, [file EXCEPT ![img] = {i, Partial}]}
              /\ err' = [err EXCEPT ![i] = TRUE]
    BY <1>8 DEF convertToRAW, Result
  <2>2. "remove" \in Holding
    BY DEF Holding
  <2>3. CASE file[q] # {} /\ Partial \notin file[q] /\ file' = [file EXCEPT ![img] = file[q]] /\ UNCHANGED err
    <3>1. /\ file' \in [Path -> SUBSET (Imports \cup {Partial})] /\ file'[img] = file[q]
          /\ \A p \in Path : p # img => file'[p] = file[p]
      BY <1>2, <1>3, <2>3
    <3>2. \A p \in Images(i) : Complete(p) => file'[p] # {} /\ Complete(p)'
      BY <1>3, <2>3, <3>1 DEF Complete
    <3>3. Complete(generateImagePath(i, disk[i]))'
      BY <2>1, <2>3, <3>1 DEF Complete, generateImagePath
    <3> QED  BY <1>1, <1>2, <1>3, <2>1, <2>2, <2>3, <3>1, <3>2, <3>3, AdvanceKeeps
  <2>4. CASE file' \in {file, [file EXCEPT ![img] = {i, Partial}]} /\ err' = [err EXCEPT ![i] = TRUE]
    <3>1. /\ file' \in [Path -> SUBSET (Imports \cup {Partial})] /\ file'[img] \in {file[img], {i, Partial}}
          /\ \A p \in Path : p # img => file'[p] = file[p]
      BY <1>2, <1>3, <2>4
    <3>2. \A p \in Images(i) : Complete(p) => file'[p] # {}
      BY <1>3, <3>1 DEF Complete
    <3>3. err' \in [Imports -> BOOLEAN] /\ err'[i] /\ \A k \in Imports \ {i} : err'[k] = err[k]
      BY <1>3, <2>4
    <3> QED  BY <1>1, <1>2, <1>3, <2>1, <2>2, <3>1, <3>2, <3>3, AdvanceKeeps
  <2> QED  BY <2>1, <2>3, <2>4
<1> QED  BY <1>5, <1>6, <1>7, <1>8 DEF openVMDK

\* The VMDK of this disk goes, whoever else has it open; that of another name
\* stays with the export that will remove it.
LEMMA RemoveKeeps ==
    ASSUME VMNamesDiffer, ExportInvariant, NEW i \in Imports, removeVMDK(i)
    PROVE  ExportInvariant'
<1> DEFINE q == vmdkPath(i, disk[i])
<1>1. /\ pc[i] = "remove" /\ run[i] = "running" /\ disk[i] \in DiskNumbers(i)
      /\ disk[i] \in 1..Len(Href[i]) /\ writing[i] \in {NoFile, q}
      /\ Len(disks[i]) = disk[i] - 1 /\ disks[i] \in Seq(1..Len(Href[i])) /\ disks[i] \in Seq(Nat)
      /\ \A n \in 1..Len(disks[i]) : disks[i][n] = n
      /\ FilesOK(i) /\ Len(Href[i]) \in Nat
  BY OwnFacts DEF removeVMDK, ControlOK, ListOK, Exporting, Holding, Beginning
<1>2. /\ RemoveAll({q}) /\ err' = [err EXCEPT ![i] = FALSE] /\ UNCHANGED faults
  BY DEF removeVMDK
<1>3. /\ err \in [Imports -> BOOLEAN] /\ disks \in [Imports -> Seq(Nat)]
      /\ pc \in [Imports -> PCs] /\ err' \in [Imports -> BOOLEAN] /\ ~err'[i]
      /\ \A k \in Imports \ {i} : err'[k] = err[k]
  BY <1>2 DEF ExportInvariant, TypeOK, Shape, PCs
<1>4. /\ writing' \in [Imports -> Path \cup {NoFile}] /\ writing'[i] = NoFile
      /\ \A k \in Imports \ {i} : writing'[k] \in {writing[k], NoFile}
      /\ file' \in [Path -> SUBSET (Imports \cup {Partial})]
      /\ \A p \in Path : file'[p] = IF p = q THEN {} ELSE file[p]
  BY <1>1, <1>2, RemoveFacts
<1>5. \A k \in Imports : \A p \in Own(k) : p # q /\ file'[p] = file[p]
  BY <1>4, PathsExist, PathKinds, OwnFiles
<1> HIDE DEF q
<1>6. ASSUME \A k \in Imports \ {i} : pc'[k] = pc[k] /\ disk'[k] = disk[k]
      PROVE  VMDKsOK'
  <2>1. ASSUME NEW p \in Path, p[1] = "vmdk", file'[p] # {}
        PROVE  \E k \in Imports : pc'[k] \in Holding /\ p = vmdkPath(k, disk'[k])
    <3>1. p # q /\ file[p] # {}
      BY <1>4, <2>1
    <3>2. PICK k \in Imports : pc[k] \in Holding /\ p = vmdkPath(k, disk[k])
      BY <2>1, <3>1 DEF ExportInvariant, VMDKsOK
    <3>3. k # i
      BY <3>1, <3>2 DEF q
    <3> QED  BY <1>6, <3>2, <3>3
  <2> QED  BY <2>1 DEF VMDKsOK, vmdkPath
<1>7. CASE err[i]
  <2>1. Fail(i) /\ UNCHANGED disk
    BY <1>7 DEF removeVMDK
  <2>2. VMDKsOK'
    BY <1>3, <1>6, <2>1 DEF Fail, Goto
  <2> QED  BY <1>1, <1>2, <1>4, <1>5, <2>1, <2>2, FailKeeps
<1>8. CASE ~err[i]
  <2>1. disks' = [disks EXCEPT ![i] = Append(@, disk[i])] /\ NextDisk(i, disk[i])
    BY <1>8 DEF removeVMDK
  <2>2. disk[i] \in Nat /\ disk[i] \in 0..Len(Href[i])
    BY <1>1
  <2>3. /\ disks' \in [Imports -> Seq(Nat)] /\ disks'[i] = Append(disks[i], disk[i])
        /\ \A k \in Imports \ {i} : disks'[k] = disks[k]
    <3>1. Append(disks[i], disk[i]) \in Seq(Nat)
      BY <1>1, <2>2
    <3> QED  BY <1>3, <2>1, <3>1
  <2>4. /\ disks'[i] \in Seq(1..Len(Href[i])) /\ Len(disks'[i]) = disk[i]
        /\ \A m \in 1..disk[i] : disks'[i][m] = m
    <3> DEFINE s == disks[i]  d == disk[i]
    <3>1. s \in Seq(1..Len(Href[i])) /\ d \in 1..Len(Href[i]) /\ Len(s) = d - 1
          /\ \A m \in 1..Len(s) : s[m] = m
      BY <1>1
    <3> HIDE DEF s, d
    <3>2. Append(s, d) \in Seq(1..Len(Href[i])) /\ Len(Append(s, d)) = d
      BY <1>1, <3>1
    <3>3. \A m \in 1..d : Append(s, d)[m] = m
      BY <1>1, <3>1
    <3> QED  BY <2>3, <3>2, <3>3 DEF s, d
  <2>5. \A k \in Imports \ {i} : pc'[k] = pc[k] /\ disk'[k] = disk[k]
    BY <2>1, <2>2, NextDiskFacts
  <2>6. VMDKsOK'
    BY <1>6, <2>5
  <2>7. Complete(generateArchivePath(i))'
    <3>1. Complete(generateArchivePath(i)) /\ generateArchivePath(i) \in Own(i)
      BY <1>1 DEF FilesOK, Exporting, Holding, Own
    <3> QED  BY <1>5, <3>1 DEF Complete, generateArchivePath
  <2>8. ASSUME NEW m \in 1..disk[i]
        PROVE  file'[generateImagePath(i, m)] # {} /\ Partial \notin file'[generateImagePath(i, m)]
    <3>1. m \in DiskNumbers(i) /\ (m = disk[i] \/ m \in 1..Len(disks[i]))
      BY <1>1, <2>2 DEF DiskNumbers
    <3>2. generateImagePath(i, m) \in Own(i)
      BY <3>1, PathsExist DEF Own
    <3>3. Complete(generateImagePath(i, m))
      BY <1>1, <1>8, <3>1 DEF FilesOK
    <3> QED  BY <1>5, <3>2, <3>3 DEF Complete
  <2>9. /\ \A k \in Imports \ {i} : disks'[k] = disks[k] /\ err'[k] = err[k]
        /\ \A k \in Imports \ {i} : \A p \in Own(k) : file'[p] = file[p]
    BY <1>3, <1>5, <2>3
  <2>10. \A m \in 1..disk[i] : disks'[i][m] = m
    BY <2>4
  <2> QED  BY <1>1, <1>2, <1>3, <1>4, <2>1, <2>2, <2>3, <2>4, <2>6, <2>7, <2>8, <2>9, <2>10, NextDiskKeeps
<1> QED  BY <1>7, <1>8

LEMMA FaultType ==
    ASSUME VMNamesDiffer, ExportInvariant, NoFault \/ \E f \in {"remove", "crash"} : Fault(f)
    PROVE  faults' \in 0..MaxFaults
BY DEF NoFault, Fault, ExportInvariant, TypeOK, VMNamesDiffer

\* The clean-up removes files of its own import only.
LEMMA CleanupPathsOwn ==
    ASSUME VMNamesDiffer, ExportInvariant, NEW i \in Imports
    PROVE  CleanupPaths(i) \subseteq Own(i)
<1>1. \A n \in 1..Len(disks[i]) : disks[i][n] \in DiskNumbers(i)
  BY OwnFacts
<1> QED  BY <1>1, PathsExist DEF CleanupPaths, Listed, Own

LEMMA EndedKeeps ==
    ASSUME VMNamesDiffer, ExportInvariant, NEW i \in Imports, GenerateVirtualMachine(i) \/ Cleanup(i)
    PROVE  ExportInvariant'
<1>1. /\ pc[i] \in {"end", "generated"} /\ UNCHANGED <<disk, err, disks, run>>
      /\ \E p \in {"generated", "cleaned", "done"} : Goto(i, p)
  BY DEF GenerateVirtualMachine, Cleanup, Result
<1>2. /\ pc'[i] \in {"generated", "cleaned", "done"} /\ pc' \in [Imports -> PCs]
      /\ \A k \in Imports \ {i} : pc'[k] = pc[k]
  BY <1>1 DEF Goto, ExportInvariant, TypeOK, PCs
<1>3. /\ writing' \in [Imports -> Path \cup {NoFile}]
      /\ \A k \in Imports : writing'[k] \in {writing[k], NoFile}
      /\ file' \in [Path -> SUBSET (Imports \cup {Partial})]
      /\ \A q \in Path : file'[q] \in {{}, file[q]} /\ (q \notin Own(i) => file'[q] = file[q])
      /\ faults' \in 0..MaxFaults
  <2>1. CASE GenerateVirtualMachine(i)
    BY <2>1 DEF GenerateVirtualMachine, Files, ExportInvariant, TypeOK
  <2>2. CASE Cleanup(i)
    <3>1. PICK failing : /\ IF failing = {} THEN NoFault ELSE Fault("remove")
                         /\ RemoveAll(CleanupPaths(i) \ failing)
      BY <2>2 DEF Cleanup
    <3> QED  BY <3>1, RemoveFacts, CleanupPathsOwn, FaultType
  <2> QED  BY <2>1, <2>2
<1>4. run[i] # "running" /\ ~err[i] /\ writing[i] = NoFile
  BY <1>1, OwnFacts DEF ControlOK, Beginning, Exporting, Holding
<1>5. TypeOK' /\ Shape'
  BY <1>1, <1>2, <1>3 DEF ExportInvariant, TypeOK, Shape, PCs
<1>6. LocalStep(i)
  <2>1. \A k \in Imports \ {i} : \A q \in Own(k) : q \in Path /\ q \notin Own(i)
    BY PathsExist, OwnFiles
  <2> QED  BY <1>1, <1>2, <1>3, <2>1 DEF LocalStep
<1>7. ImportOK(i)'
  BY <1>1, <1>2, <1>3, <1>4, OwnFacts
     DEF ImportOK, ControlOK, ListOK, FilesOK, Beginning, Exporting, Holding
<1>8. VMDKsOK'
  BY <1>1, <1>2, <1>3, VMDKsStay DEF Holding
<1> QED  BY <1>5, <1>6, <1>7, <1>8, LocalKeeps

\* All files are lost, and what was under way starts again.
LEMMA CrashKeeps ==
    ASSUME VMNamesDiffer, ExportInvariant, Crash
    PROVE  ExportInvariant'
<1>1. /\ \A i \in Imports : run[i] = "running" => pc'[i] = "download" /\ disk'[i] = 0 /\ disks'[i] = <<>>
      /\ \A i \in Imports : run[i] # "running" => /\ pc'[i] = pc[i] /\ disk'[i] = disk[i]
                                                  /\ disks'[i] = disks[i]
      /\ err' = [i \in Imports |-> FALSE] /\ RemoveAll(Path) /\ run' = run /\ Fault("crash")
  BY DEF Crash
<1>2. /\ writing' \in [Imports -> Path \cup {NoFile}] /\ \A i \in Imports : writing'[i] = NoFile
      /\ file' \in [Path -> SUBSET (Imports \cup {Partial})] /\ \A p \in Path : file'[p] = {}
  BY <1>1, RemoveFacts, NoFileIsNoPath DEF ExportInvariant, TypeOK
<1>3. faults' \in 0..MaxFaults
  BY <1>1, FaultType
<1>4. TypeOK' /\ Shape'
  <2>1. pc' \in [Imports -> PCs]
    BY DEF Crash, ExportInvariant, TypeOK, PCs
  <2>2. disk' \in [Imports -> Nat] /\ disks' \in [Imports -> Seq(Nat)]
    <3>1. disk \in [Imports -> Nat] /\ disks \in [Imports -> Seq(Nat)] /\ <<>> \in Seq(Nat) /\ 0 \in Nat
      BY DEF ExportInvariant, Shape
    <3> QED  BY <3>1 DEF Crash
  <2>3. \A i \in Imports : disk'[i] \in 0..Len(Href[i]) /\ disks'[i] \in Seq(1..Len(Href[i]))
    <3> TAKE i \in Imports
    <3>1. /\ Len(Href[i]) \in Nat /\ disk[i] \in 0..Len(Href[i]) /\ disks[i] \in Seq(1..Len(Href[i]))
          /\ <<>> \in Seq(1..Len(Href[i])) /\ 0 \in 0..Len(Href[i])
      BY OwnFacts
    <3> QED  BY <1>1, <3>1
  <2> QED  BY <1>1, <1>2, <1>3, <2>1, <2>2, <2>3 DEF ExportInvariant, TypeOK, Shape, PCs
<1>5. ASSUME NEW i \in Imports PROVE ImportOK(i)'
  <2>1. CASE run[i] = "running"
    <3>1. Len(disks'[i]) = 0 /\ Len(Href[i]) \in Nat
      BY <1>1, <2>1, OwnFacts
    <3> QED  BY <1>1, <1>2, <2>1, <3>1
             DEF ImportOK, ControlOK, ListOK, FilesOK, Beginning, Exporting, Holding
  <2>2. CASE run[i] # "running"
    BY <1>1, <1>2, <2>2, OwnFacts
       DEF ImportOK, ControlOK, ListOK, FilesOK, Beginning, Exporting, Holding
  <2> QED  BY <2>1, <2>2
<1>6. VMDKsOK'
  BY <1>2 DEF VMDKsOK
<1> QED  BY <1>4, <1>5, <1>6 DEF ExportInvariant

LEMMA ExportInductive ==
    ASSUME VMNamesDiffer, ExportInvariant, [Next]_vars
    PROVE  ExportInvariant'
<1>1. CASE UNCHANGED vars
  <2>1. UNCHANGED <<pc, disk, err, file, writing, disks, run, faults>>
    BY <1>1 DEF vars
  <2>2. TypeOK' /\ Shape'
    BY <2>1 DEF ExportInvariant, TypeOK, Shape
  <2>3. ASSUME NEW i \in Imports PROVE ImportOK(i)'
    <3>1. ImportOK(i)
      BY DEF ExportInvariant
    <3>2. ControlOK(i)'
      BY <2>1, <3>1 DEF ImportOK, ControlOK
    <3>3. ListOK(i)'
      BY <2>1, <3>1 DEF ImportOK, ListOK
    <3>4. FilesOK(i)'
      BY <2>1, <3>1 DEF ImportOK, FilesOK, Complete
    <3> QED  BY <3>2, <3>3, <3>4 DEF ImportOK
  <2>4. VMDKsOK'
    <3>1. VMDKsOK
      BY DEF ExportInvariant
    <3> QED  BY <2>1, <3>1 DEF VMDKsOK, vmdkPath
  <2> QED  BY <2>2, <2>3, <2>4 DEF ExportInvariant
<1>2. ASSUME NEW i \in Imports, ExportVirtualMachine(i) PROVE ExportInvariant'
  BY <1>2, DownloadKeeps, EnvelopeKeeps, DiskKeeps, RemoveKeeps DEF ExportVirtualMachine
<1> QED  BY <1>1, <1>2, EndedKeeps, CrashKeeps DEF Next

-----------------------------------------------------------------------------
(***************************************************************************)
(* What a step does to the files of an import                              *)
(***************************************************************************)
\* The other imports keep their archive and images, and their place.
LEMMA OthersUntouched ==
    ASSUME VMNamesDiffer, ExportInvariant, NEW k \in Imports,
           ExportVirtualMachine(k) \/ GenerateVirtualMachine(k) \/ Cleanup(k), NEW i \in Imports \ {k}
    PROVE  /\ pc'[i] = pc[i] /\ run'[i] = run[i] /\ disks'[i] = disks[i]
           /\ \A p \in Own(i) : file'[p] = file[p]
           /\ writing'[i] = generateArchivePath(i) <=> writing[i] = generateArchivePath(i)
<1>1. /\ pc \in [Imports -> PCs] /\ run \in [Imports -> {"running", "ok", "failed"}]
      /\ disks \in [Imports -> Seq(Nat)]
      /\ file \in [Path -> SUBSET (Imports \cup {Partial})] /\ writing \in [Imports -> Path \cup {NoFile}]
  BY DEF ExportInvariant, TypeOK, Shape, PCs
<1>2. pc'[i] = pc[i] /\ run'[i] = run[i] /\ disks'[i] = disks[i]
  BY <1>1 DEF ExportVirtualMachine, downloadArchive, downloadEnds, readEnvelope, openVMDK, copyVMDK, convertToRAW,
              removeVMDK, GenerateVirtualMachine, Cleanup, Goto, Fail, NextDisk, Result
<1>3. /\ \A p \in Own(i) : p \in Path /\ p # NoFile /\ p[1] # "vmdk" /\ p \notin Own(k)
      /\ generateArchivePath(i) \in Own(i) /\ generateArchivePath(k) \in Own(k)
      /\ \A j : vmdkPath(k, j)[1] = "vmdk"
  BY PathsExist, OwnFiles, PathKinds DEF Own
<1>4. ControlOK(k)
  BY OwnFacts
<1>5. CASE downloadArchive(k) \/ downloadEnds(k)
  BY <1>1, <1>2, <1>3, <1>4, <1>5 DEF downloadArchive, downloadEnds, Create, Files, ControlOK
<1>6. CASE readEnvelope(k) \/ copyVMDK(k) \/ GenerateVirtualMachine(k)
  BY <1>1, <1>2, <1>6 DEF readEnvelope, copyVMDK, GenerateVirtualMachine, Files
<1>7. CASE openVMDK(k)
  <2>1. CASE Create(k, vmdkPath(k, disk[k]))
    <3>1. /\ writing'[i] = writing[i]
          /\ \A p \in Path : p # vmdkPath(k, disk[k]) => file'[p] = file[p]
      BY <1>1, <2>1 DEF Create
    <3>2. \A p \in Own(i) : p \in Path /\ p # vmdkPath(k, disk[k])
      BY <1>3
    <3> QED  BY <1>2, <3>1, <3>2
  <2>2. CASE UNCHANGED Files
    BY <1>2, <2>2 DEF Files
  <2> QED  BY <1>7, <2>1, <2>2 DEF openVMDK
<1>8. CASE convertToRAW(k)
  <2>1. disk[k] \in DiskNumbers(k)
    BY <1>4, <1>8 DEF convertToRAW, ControlOK, Exporting, Holding
  <2>2. generateImagePath(k, disk[k]) \in Own(k)
    BY <2>1, PathsExist DEF Own
  <2> QED  BY <1>1, <1>2, <1>3, <1>8, <2>2 DEF convertToRAW
<1>9. CASE removeVMDK(k)
  <2>1. RemoveAll({vmdkPath(k, disk[k])})
    BY <1>9 DEF removeVMDK
  <2> QED  BY <1>2, <1>3, <2>1, RemoveFacts
<1>10. CASE Cleanup(k)
  <2>1. PICK failing : RemoveAll(CleanupPaths(k) \ failing)
    BY <1>10 DEF Cleanup
  <2>2. \A p \in Own(i) : p \notin CleanupPaths(k) \ failing
    BY <1>3, CleanupPathsOwn
  <2> QED  BY <1>2, <1>3, <2>1, <2>2, RemoveFacts
<1> QED  BY <1>2, <1>5, <1>6, <1>7, <1>8, <1>9, <1>10 DEF ExportVirtualMachine

\* When an export ends, what it has listed is there, and complete if it succeeded.
LEMMA EndsWithImages ==
    ASSUME VMNamesDiffer, ExportInvariant, NEW i \in Imports, ExportVirtualMachine(i), run'[i] # "running"
    PROVE  /\ pc'[i] = "end"
           /\ \A n \in 1..Len(disks'[i]) : /\ file'[generateImagePath(i, n)] # {}
                                           /\ run'[i] = "ok" => Partial \notin file'[generateImagePath(i, n)]
           /\ run'[i] = "ok" => file'[generateArchivePath(i)] # {} /\ Partial \notin file'[generateArchivePath(i)]
<1>1. /\ pc \in [Imports -> PCs] /\ run \in [Imports -> {"running", "ok", "failed"}]
      /\ disks \in [Imports -> Seq(Nat)] /\ disks[i] \in Seq(Nat)
      /\ ControlOK(i) /\ ListOK(i) /\ FilesOK(i) /\ Len(Href[i]) \in Nat
  BY OwnFacts DEF ExportInvariant, TypeOK, Shape, PCs
<1>2. run[i] = "running" /\ pc[i] \in Beginning \cup Exporting
  BY <1>1 DEF ExportVirtualMachine, downloadArchive, downloadEnds, readEnvelope, openVMDK, copyVMDK, convertToRAW,
              removeVMDK, ControlOK, Beginning, Exporting, Holding
<1>3. CASE downloadArchive(i) \/ downloadEnds(i)
  <2>1. disks'[i] = <<>> /\ pc'[i] = "end" /\ run'[i] = "failed"
    BY <1>1, <1>2, <1>3
       DEF downloadArchive, downloadEnds, Fail, Goto, Result, ListOK, Beginning, Exporting, Holding
  <2> QED  BY <2>1
<1>4. CASE readEnvelope(i)
  <2>1. disks'[i] = <<>> /\ pc'[i] = "end" /\ file' = file
    BY <1>1, <1>2, <1>4
       DEF readEnvelope, Fail, Goto, NextDisk, Files, ListOK, Beginning, Exporting, Holding
  <2>2. run'[i] = "ok" => IsWhole(generateArchivePath(i))
    BY <1>1, <1>4 DEF readEnvelope, Fail
  <2> QED  BY <2>1, <2>2 DEF IsWhole
<1>5. CASE openVMDK(i) \/ copyVMDK(i) \/ convertToRAW(i)
  <2>1. openVMDK(i) /\ Fail(i) /\ UNCHANGED <<file, err>>
    BY <1>2, <1>5 DEF openVMDK, copyVMDK, convertToRAW, Result, Files
  <2>2. disks'[i] = disks[i] /\ pc'[i] = "end" /\ run'[i] = "failed"
    BY <1>1, <2>1 DEF Fail, Goto
  <2> QED  BY <1>1, <1>2, <2>1, <2>2 DEF FilesOK
<1>6. CASE removeVMDK(i)
  <2>1. /\ pc[i] = "remove" /\ disk[i] \in 1..Len(Href[i]) /\ disk[i] \in Nat /\ Len(disks[i]) = disk[i] - 1
        /\ RemoveAll({vmdkPath(i, disk[i])})
    BY <1>1, <1>6, OwnFacts DEF removeVMDK, ControlOK, ListOK, Exporting, Holding, DiskNumbers
  <2>2. \A p \in Own(i) : file'[p] = file[p]
    BY <2>1, RemoveFacts, PathsExist, PathKinds, OwnFiles
  <2>3. \A n \in DiskNumbers(i) : file'[generateImagePath(i, n)] = file[generateImagePath(i, n)]
    BY <2>2, PathsExist DEF Own
  <2>4. file'[generateArchivePath(i)] = file[generateArchivePath(i)] /\ Complete(generateArchivePath(i))
    BY <1>1, <2>1, <2>2 DEF Own, FilesOK, Exporting, Holding
  <2>5. CASE err[i]
    <3>1. disks'[i] = disks[i] /\ pc'[i] = "end" /\ run'[i] = "failed"
      BY <1>1, <1>6, <2>5 DEF removeVMDK, Fail, Goto
    <3>2. \A n \in 1..Len(disks[i]) : n \in DiskNumbers(i)
      BY <2>1, OwnFacts
    <3> QED  BY <1>1, <1>2, <2>3, <3>1, <3>2 DEF FilesOK
  <2>6. CASE ~err[i]
    <3>1. /\ disks' = [disks EXCEPT ![i] = Append(@, disk[i])] /\ NextDisk(i, disk[i])
      BY <1>6, <2>6 DEF removeVMDK
    <3>2. Len(disks'[i]) = disk[i] /\ pc'[i] = "end"
      BY <1>1, <1>2, <2>1, <3>1 DEF NextDisk, Goto
    <3>3. \A n \in 1..disk[i] : n \in DiskNumbers(i) /\ (n = disk[i] \/ n \in 1..Len(disks[i]))
      BY <2>1, OwnFacts
    <3>4. \A n \in 1..disk[i] : Complete(generateImagePath(i, n))
      BY <1>1, <1>2, <2>1, <2>6, <3>3 DEF FilesOK
    <3> QED  BY <2>3, <2>4, <3>2, <3>3, <3>4 DEF Complete
  <2> QED  BY <2>5, <2>6
<1> QED  BY <1>3, <1>4, <1>5, <1>6 DEF ExportVirtualMachine

-----------------------------------------------------------------------------
(***************************************************************************)
(* Safety                                                                  *)
(***************************************************************************)
\* The invariant of OVA exports that share a directory, for any imports of VMs
\* with different names, any archives and faults.
THEOREM OvaInductive ==
    ASSUME VMNamesDiffer
    PROVE  Spec => [](ExportInvariant /\ WholeOK)
<1>1. Init => ExportInvariant
  BY InitInvariant
<1>2. ExportInvariant /\ [Next]_vars => ExportInvariant'
  BY ExportInductive
<1>3. ExportInvariant => WholeOK
  BY WholeFiles
<1> QED  BY <1>1, <1>2, <1>3, PTL DEF Spec

\* Every reachable state of the exports (ExportVirtualMachine,
\* GenerateVirtualMachine, Cleanup) is well typed.
THEOREM OvaTypeCorrect ==
    ASSUME VMNamesDiffer
    PROVE  Spec => []TypeOK
<1>1. ExportInvariant => TypeOK
  BY DEF ExportInvariant
<1> QED  BY <1>1, OvaInductive, PTL

\* The deferred removal leaves no VMDK once no export is under way, whichever
\* exports create, truncate and remove VMDKs of the same name.
THEOREM VMDKsAreRemoved ==
    ASSUME VMNamesDiffer
    PROVE  Spec => []VMDKsRemoved
<1>1. ASSUME ExportInvariant PROVE VMDKsRemoved
  <2>1. \A i \in Imports : pc[i] \in Holding => run[i] = "running"
    BY <1>1, OwnFacts DEF ExportInvariant, ImportOK, ControlOK, Exporting
  <2> QED  BY <1>1, <2>1 DEF ExportInvariant, VMDKsOK, VMDKsRemoved
<1> QED  BY <1>1, OvaInductive, PTL

\* Until the VM was generated from it only a restart takes the archive of a
\* finished export, in particular no clean-up of another import.
THEOREM ArchiveIsKept ==
    ASSUME VMNamesDiffer
    PROVE  Spec => ArchiveKept
<1>1. ASSUME ExportInvariant, WholeOK, ExportInvariant', WholeOK', [Next]_vars
      PROVE  [\A i \in Imports : HasArchive(i) => HasArchive(i)' \/ Crash]_vars
  <2>1. SUFFICES ASSUME Next, ~Crash, NEW i \in Imports, HasArchive(i), pc'[i] = "end", run'[i] = "ok"
                 PROVE  IsWhole(generateArchivePath(i))'
    BY <1>1 DEF HasArchive
  <2>2. /\ writing'[i] # generateArchivePath(i)
        /\ IsWhole(generateArchivePath(i))' <=>
              Complete(generateArchivePath(i))' /\ writing'[i] # generateArchivePath(i)'
        /\ generateArchivePath(i)' = generateArchivePath(i)
    <3>1. generateArchivePath(i)' = generateArchivePath(i)
      BY DEF generateArchivePath
    <3>2. ControlOK(i)'
      BY <1>1 DEF ExportInvariant, ImportOK
    <3>3. writing'[i] # generateArchivePath(i)
      BY <2>1, <3>2, PathKinds DEF ControlOK, generateArchivePath
    <3> QED  BY <1>1, <3>1, <3>3 DEF WholeOK
  <2>3. file'[generateArchivePath(i)] # {} /\ Partial \notin file'[generateArchivePath(i)]
    <3>1. PICK k \in Imports : ExportVirtualMachine(k) \/ GenerateVirtualMachine(k) \/ Cleanup(k)
      BY <2>1 DEF Next
    <3>2. CASE k # i
      <4>1. /\ pc[i] = "end" /\ run[i] = "ok"
            /\ file'[generateArchivePath(i)] = file[generateArchivePath(i)]
        BY <1>1, <2>1, <3>1, <3>2, OthersUntouched DEF Own
      <4> QED  BY <1>1, <2>1, <4>1 DEF HasArchive, WholeOK, Complete
    <3>3. CASE k = i /\ ExportVirtualMachine(i)
      BY <1>1, <2>1, <3>3, EndsWithImages
    <3>4. CASE k = i /\ (GenerateVirtualMachine(i) \/ Cleanup(i))
      <4>1. pc'[i] # "end"
        BY <1>1, <3>4 DEF GenerateVirtualMachine, Cleanup, Goto, ExportInvariant, TypeOK
      <4> QED  BY <2>1, <4>1
    <3> QED  BY <3>1, <3>2, <3>3, <3>4
  <2> QED  BY <2>2, <2>3 DEF Complete
<1> QED  BY <1>1, OvaInductive, PTL DEF Spec, ArchiveKept

\* The images an import has listed stay until its own clean-up (Cleanup,
\* RemoveTempImageFiles) or a restart takes them.
THEOREM ListedImagesAreKept ==
    ASSUME VMNamesDiffer
    PROVE  Spec => ListedImagesKept
<1>1. ASSUME ExportInvariant, ExportInvariant', [Next]_vars
      PROVE  [\A i \in Imports : HasImages(i) => HasImages(i)' \/ Crash]_vars
  <2>1. SUFFICES ASSUME Next, ~Crash, NEW i \in Imports, HasImages(i), pc'[i] \in {"end", "generated"}
                 PROVE  \A n \in 1..Len(disks'[i]) : file'[generateImagePath(i, disks'[i][n])] # {}
    BY <1>1 DEF HasImages, Listed, generateImagePath
  <2>2. PICK k \in Imports : ExportVirtualMachine(k) \/ GenerateVirtualMachine(k) \/ Cleanup(k)
    BY <2>1 DEF Next
  <2>3. \A n \in 1..Len(disks[i]) : generateImagePath(i, disks[i][n]) \in Own(i)
    <3>1. \A n \in 1..Len(disks[i]) : disks[i][n] \in DiskNumbers(i)
      BY <1>1, OwnFacts
    <3> QED  BY <3>1, PathsExist DEF Own
  <2>4. CASE k # i
    <3>1. pc[i] = pc'[i] /\ disks'[i] = disks[i] /\ \A p \in Own(i) : file'[p] = file[p]
      BY <1>1, <2>2, <2>4, OthersUntouched
    <3> QED  BY <2>1, <2>3, <3>1 DEF HasImages, Listed
  <2>5. CASE k = i /\ ExportVirtualMachine(i)
    <3>1. run'[i] # "running"
      BY <1>1, <2>1 DEF ExportInvariant, ImportOK, ControlOK, Beginning, Exporting, Holding
    <3>2. \A n \in 1..Len(disks'[i]) : disks'[i][n] = n
      BY <1>1 DEF ExportInvariant, ImportOK, ListOK
    <3> QED  BY <1>1, <2>5, <3>1, <3>2, EndsWithImages
  <2>6. CASE k = i /\ GenerateVirtualMachine(i)
    <3>1. pc[i] = "end" /\ disks' = disks /\ file' = file
      BY <2>6 DEF GenerateVirtualMachine, Files, Result
    <3> QED  BY <2>1, <3>1 DEF HasImages, Listed
  <2>7. CASE k = i /\ Cleanup(i)
    <3>1. pc'[i] \notin {"end", "generated"}
      BY <1>1, <2>7 DEF Cleanup, Goto, ExportInvariant, TypeOK
    <3> QED  BY <2>1, <3>1
  <2> QED  BY <2>2, <2>4, <2>5, <2>6, <2>7
<1> QED  BY <1>1, OvaInductive, PTL DEF Spec, ListedImagesKept

-----------------------------------------------------------------------------
(***************************************************************************)
(* The contract of ExportVirtualMachine                                    *)
(***************************************************************************)
\* The files of import i as the refinement mapping gives them.
ContractFiles(i) ==
    {j \in DiskNumbers(i) : IsWhole(generateImagePath(i, j))}
    \cup (IF \E p \in {generateArchivePath(i)} \cup Images(i) : file[p] # {} /\ ~IsWhole(p)
          THEN {0} ELSE {})

LEMMA FilesAreOfDisks ==
    ASSUME VMNamesDiffer, NEW i \in Imports
    PROVE  /\ ContractFiles(i) \subseteq 0..Len(Href[i])
           /\ ContractFiles(i)' \subseteq 0..Len(Href[i])
<1>1. Len(Href[i]) \in Nat /\ DiskNumbers(i) \subseteq 0..Len(Href[i]) /\ 0 \in 0..Len(Href[i])
  BY DEF DiskNumbers, VMNamesDiffer
<1>2. ContractFiles(i) \subseteq DiskNumbers(i) \cup {0}
  BY DEF ContractFiles
<1>3. ContractFiles(i)' \subseteq DiskNumbers(i) \cup {0}
  BY DEF ContractFiles, DiskNumbers
<1> QED  BY <1>1, <1>2, <1>3

\* The same, of the files f of which the import has w open.
FilesIn(i, f, w) ==
    {j \in DiskNumbers(i) : f[generateImagePath(i, j)] # {} /\ Partial \notin f[generateImagePath(i, j)]}
    \cup (IF \/ \E p \in Images(i) : f[p] # {} /\ Partial \in f[p]
             \/ /\ f[generateArchivePath(i)] # {}
                /\ Partial \in f[generateArchivePath(i)] \/ w = generateArchivePath(i)
          THEN {0} ELSE {})

LEMMA FilesBefore ==
    ASSUME WholeOK, NEW i \in Imports
    PROVE  ContractFiles(i) = FilesIn(i, file, writing[i])
<1>1. /\ \A p \in Images(i) : IsWhole(p) <=> file[p] # {} /\ Partial \notin file[p]
      /\ \A j \in DiskNumbers(i) : generateImagePath(i, j) \in Images(i)
      /\ IsWhole(generateArchivePath(i)) <=>
            /\ file[generateArchivePath(i)] # {} /\ Partial \notin file[generateArchivePath(i)]
            /\ writing[i] # generateArchivePath(i)
  BY PathsExist DEF WholeOK, Complete
<1> QED  BY <1>1 DEF ContractFiles, FilesIn

LEMMA FilesAfter ==
    ASSUME WholeOK', NEW i \in Imports
    PROVE  ContractFiles(i)' = FilesIn(i, file', writing'[i])
<1>1. /\ \A p \in Images(i) : IsWhole(p)' <=> file'[p] # {} /\ Partial \notin file'[p]
      /\ \A j \in DiskNumbers(i) : generateImagePath(i, j) \in Images(i)
      /\ IsWhole(generateArchivePath(i))' <=>
            /\ file'[generateArchivePath(i)] # {} /\ Partial \notin file'[generateArchivePath(i)]
            /\ writing'[i] # generateArchivePath(i)
  BY PathsExist DEF WholeOK, Complete, Images, DiskNumbers, generateImagePath, generateArchivePath
<1>2. /\ \A j \in DiskNumbers(i) : IsWhole(generateImagePath(i, j))' <=>
            /\ file'[generateImagePath(i, j)] # {} /\ Partial \notin file'[generateImagePath(i, j)]
      /\ ContractFiles(i)' =
            {j \in DiskNumbers(i) : IsWhole(generateImagePath(i, j))'}
            \cup (IF \E p \in {generateArchivePath(i)} \cup Images(i) : file'[p] # {} /\ ~IsWhole(p)'
                  THEN {0} ELSE {})
  BY <1>1 DEF ContractFiles, Images, DiskNumbers, generateImagePath, generateArchivePath
<1> QED  BY <1>1, <1>2 DEF FilesIn

\* Removing files of an import only takes files away from its export.
LEMMA FewerFiles ==
    ASSUME VMNamesDiffer, ExportInvariant, WholeOK, WholeOK', NEW i \in Imports,
           writing[i] # generateArchivePath(i),
           \A p \in Own(i) : file'[p] \in {file[p], {}},
           writing'[i] \in {writing[i], NoFile}
    PROVE  ContractFiles(i)' \subseteq ContractFiles(i)
<1>1. /\ \A p \in Images(i) : file'[p] \in {file[p], {}}
      /\ file'[generateArchivePath(i)] \in {file[generateArchivePath(i)], {}}
      /\ \A j \in DiskNumbers(i) : generateImagePath(i, j) \in Images(i)
      /\ writing'[i] # generateArchivePath(i)
  BY PathsExist, PathKinds DEF Own
<1> QED  BY <1>1, FilesBefore, FilesAfter DEF FilesIn

\* What the mapping of the disk list gives.
Ended(i) == IF run[i] = "running" THEN 0 ELSE Len(disks[i])

\* Steps of the contract, by what they do to run, list and files.
LEMMA ContractSteps ==
    ASSUME VMNamesDiffer, NEW i \in Imports,
           \/ run[i] = "running" /\ run'[i] = "running"
           \/ /\ run[i] = "running" /\ run'[i] = "failed" /\ Ended(i)' \in 0..Len(Href[i])
           \/ /\ run[i] = "running" /\ run'[i] = "ok" /\ Ended(i)' = Len(Href[i])
              /\ 1..Len(Href[i]) \subseteq ContractFiles(i)'
           \/ /\ run[i] # "running" /\ run'[i] = run[i] /\ Ended(i)' = Ended(i)
              /\ ContractFiles(i)' \subseteq ContractFiles(i)
           \/ run'[i] = run[i] /\ Ended(i)' = Ended(i) /\ ContractFiles(i)' = ContractFiles(i)
    PROVE  ContractOf(i)!Next \/ UNCHANGED ContractOf(i)!vars
<1>1. ContractFiles(i)' \subseteq 0..Len(Href[i])
  BY FilesAreOfDisks
<1>2. CASE run[i] = "running" /\ run'[i] = "running"
  BY <1>1, <1>2 DEF ContractOf!Next, ContractOf!Work, ContractFiles
<1>3. CASE /\ run[i] = "running" /\ run'[i] = "failed" /\ Ended(i)' \in 0..Len(Href[i])
  BY <1>1, <1>3 DEF ContractOf!Next, ContractOf!Fail, ContractFiles, Ended
<1>4. CASE /\ run[i] = "running" /\ run'[i] = "ok" /\ Ended(i)' = Len(Href[i])
           /\ 1..Len(Href[i]) \subseteq ContractFiles(i)'
  BY <1>1, <1>4 DEF ContractOf!Next, ContractOf!Succeed, ContractFiles, Ended
<1>5. CASE /\ run[i] # "running" /\ run'[i] = run[i] /\ Ended(i)' = Ended(i)
           /\ ContractFiles(i)' \subseteq ContractFiles(i)
  BY <1>5 DEF ContractOf!Next, ContractOf!Clean, ContractFiles, Ended
<1>6. CASE run'[i] = run[i] /\ Ended(i)' = Ended(i) /\ ContractFiles(i)' = ContractFiles(i)
  BY <1>6 DEF ContractOf!vars, ContractFiles, Ended
<1> QED  BY <1>2, <1>3, <1>4, <1>5, <1>6

LEMMA ExportStep ==
    ASSUME VMNamesDiffer, ExportInvariant, ExportInvariant', WholeOK', NEW i \in Imports,
           ExportVirtualMachine(i)
    PROVE  ContractOf(i)!Next \/ UNCHANGED ContractOf(i)!vars
<1>1. /\ run \in [Imports -> {"running", "ok", "failed"}] /\ run'[i] \in {"running", "ok", "failed"}
      /\ run[i] = "running" /\ Len(Href[i]) \in Nat /\ DiskNumbers(i) = 1..Len(Href[i])
      /\ Len(disks'[i]) \in Nat /\ Len(disks'[i]) <= Len(Href[i])
      /\ run'[i] = "ok" => Len(disks'[i]) = Len(Href[i])
  <2>1. ControlOK(i) /\ Len(Href[i]) \in Nat /\ DiskNumbers(i) = 1..Len(Href[i])
    BY OwnFacts
  <2>2. run[i] = "running"
    BY <2>1 DEF ExportVirtualMachine, downloadArchive, downloadEnds, readEnvelope, openVMDK, copyVMDK,
                convertToRAW, removeVMDK, ControlOK, Beginning, Exporting, Holding
  <2>3. disks'[i] \in Seq(Nat) /\ Len(disks'[i]) \in Nat
    BY DEF ExportInvariant, Shape
  <2>4. ListOK(i)' /\ run' \in [Imports -> {"running", "ok", "failed"}]
    BY DEF ExportInvariant, ImportOK, TypeOK
  <2> QED  BY <2>1, <2>2, <2>3, <2>4 DEF ListOK, ExportInvariant, TypeOK
<1>2. CASE run'[i] = "running"
  BY <1>1, <1>2, ContractSteps
<1>3. CASE run'[i] = "failed"
  <2>1. Ended(i)' \in 0..Len(Href[i])
    BY <1>1, <1>3 DEF Ended
  <2> QED  BY <1>1, <1>3, <2>1, ContractSteps
<1>4. CASE run'[i] = "ok"
  <2>1. Ended(i)' = Len(Href[i])
    BY <1>1, <1>4 DEF Ended
  <2>2. \A j \in 1..Len(Href[i]) : /\ file'[generateImagePath(i, j)] # {}
                                   /\ Partial \notin file'[generateImagePath(i, j)]
    BY <1>1, <1>4, EndsWithImages
  <2>3. 1..Len(Href[i]) \subseteq ContractFiles(i)'
    BY <1>1, <2>2, FilesAfter DEF FilesIn
  <2> QED  BY <1>1, <1>4, <2>1, <2>3, ContractSteps
<1> QED  BY <1>1, <1>2, <1>3, <1>4

LEMMA OthersStep ==
    ASSUME VMNamesDiffer, ExportInvariant, WholeOK, WholeOK', NEW k \in Imports, NEW i \in Imports \ {k},
           ExportVirtualMachine(k) \/ GenerateVirtualMachine(k) \/ Cleanup(k)
    PROVE  ContractOf(i)!Next \/ UNCHANGED ContractOf(i)!vars
<1>1. /\ run'[i] = run[i] /\ disks'[i] = disks[i]
      /\ \A p \in Own(i) : file'[p] = file[p]
      /\ writing'[i] = generateArchivePath(i) <=> writing[i] = generateArchivePath(i)
  BY OthersUntouched
<1>2. /\ \A p \in Images(i) : file'[p] = file[p]
      /\ file'[generateArchivePath(i)] = file[generateArchivePath(i)]
      /\ \A j \in DiskNumbers(i) : generateImagePath(i, j) \in Images(i)
  BY <1>1, PathsExist DEF Own
<1>3. ContractFiles(i)' = ContractFiles(i)
  <2>1. FilesIn(i, file', writing'[i]) = FilesIn(i, file, writing[i])
    BY <1>1, <1>2 DEF FilesIn
  <2> QED  BY <2>1, FilesBefore, FilesAfter
<1>4. Ended(i)' = Ended(i)
  BY <1>1 DEF Ended
<1> QED  BY <1>1, <1>3, <1>4, ContractSteps

LEMMA CleanupStep ==
    ASSUME VMNamesDiffer, ExportInvariant, WholeOK, WholeOK', NEW i \in Imports, Cleanup(i)
    PROVE  ContractOf(i)!Next \/ UNCHANGED ContractOf(i)!vars
<1>1. PICK failing : RemoveAll(CleanupPaths(i) \ failing)
  BY DEF Cleanup
<1>2. /\ pc[i] \in {"end", "generated"} /\ run' = run /\ disks' = disks
      /\ ControlOK(i)
  BY OwnFacts DEF Cleanup, Result
<1>3. run[i] # "running" /\ writing[i] # generateArchivePath(i)
  <2>1. generateArchivePath(i) # NoFile
    BY PathKinds
  <2> QED  BY <1>2, <2>1 DEF ControlOK, Beginning, Exporting, Holding
<1>4. (\A p \in Own(i) : file'[p] \in {file[p], {}}) /\ writing'[i] \in {writing[i], NoFile}
  BY <1>1, RemoveFacts, PathsExist
<1>5. ContractFiles(i)' \subseteq ContractFiles(i)
  BY <1>3, <1>4, FewerFiles
<1> QED  BY <1>2, <1>3, <1>5, ContractSteps DEF Ended

\* A restart takes all files; an export under way starts again.
LEMMA CrashStep ==
    ASSUME VMNamesDiffer, ExportInvariant, WholeOK, WholeOK', NEW i \in Imports, Crash
    PROVE  ContractOf(i)!Next \/ UNCHANGED ContractOf(i)!vars
<1>1. RemoveAll(Path) /\ run' = run /\ (run[i] # "running" => disks'[i] = disks[i])
  BY DEF Crash
<1>2. CASE run[i] = "running"
  BY <1>1, <1>2, ContractSteps
<1>3. CASE run[i] # "running"
  <2>1. writing[i] # generateArchivePath(i)
    <3>1. generateArchivePath(i) # NoFile /\ ControlOK(i)
      BY PathKinds, OwnFacts
    <3> QED  BY <1>3, <3>1 DEF ControlOK, Beginning, Exporting, Holding
  <2>2. (\A p \in Own(i) : file'[p] \in {file[p], {}}) /\ writing'[i] \in {writing[i], NoFile}
    BY <1>1, RemoveFacts, PathsExist
  <2>3. ContractFiles(i)' \subseteq ContractFiles(i)
    BY <2>1, <2>2, FewerFiles
  <2>4. Ended(i)' = Ended(i)
    BY <1>1, <1>3 DEF Ended
  <2> QED  BY <1>1, <1>3, <2>3, <2>4, ContractSteps
<1> QED  BY <1>2, <1>3

\* Each export keeps the contract the import controller relies on: when
\* ExportVirtualMachine succeeds, every disk is listed and its image complete,
\* however the exports of other imports and their clean-ups interleave.
THEOREM OvaImplementsContract ==
    ASSUME VMNamesDiffer
    PROVE  Spec => (\A i \in Imports : ContractOf(i)!Init) /\ ImplementsContract
<1>1. ASSUME Init PROVE \A i \in Imports : ContractOf(i)!Init
  <2>1. ASSUME NEW i \in Imports
        PROVE  run[i] = "running" /\ ContractFiles(i) = {}
    <3>1. WholeOK /\ \A p \in Path : file[p] = {}
      BY <1>1, InitInvariant, WholeFiles DEF Init
    <3>2. run[i] = "running" /\ FilesIn(i, file, writing[i]) = {}
      BY <1>1, <3>1, PathsExist DEF Init, FilesIn, Own
    <3> QED  BY <3>1, <3>2, FilesBefore
  <2> QED  BY <2>1 DEF ContractOf!Init, ContractFiles
<1>2. ASSUME ExportInvariant, WholeOK, ExportInvariant', WholeOK', [Next]_vars
      PROVE  [\A i \in Imports : ContractOf(i)!Next \/ UNCHANGED ContractOf(i)!vars]_vars
  <2>1. SUFFICES ASSUME Next, NEW i \in Imports
                 PROVE  ContractOf(i)!Next \/ UNCHANGED ContractOf(i)!vars
    BY <1>2
  <2>2. CASE Crash
    BY <1>2, <2>2, CrashStep
  <2>3. ASSUME NEW k \in Imports, ExportVirtualMachine(k) \/ GenerateVirtualMachine(k) \/ Cleanup(k)
        PROVE  ContractOf(i)!Next \/ UNCHANGED ContractOf(i)!vars
    <3>1. CASE k # i
      BY <1>2, <2>3, <3>1, OthersStep
    <3>2. CASE k = i /\ ExportVirtualMachine(i)
      BY <1>2, <3>2, ExportStep
    <3>3. CASE k = i /\ GenerateVirtualMachine(i)
      <4>1. UNCHANGED <<file, writing, disks, run>>
        BY <3>3 DEF GenerateVirtualMachine, Files, Result
      <4>2. ContractFiles(i)' = ContractFiles(i)
        BY <1>2, <4>1, FilesBefore, FilesAfter
      <4> QED  BY <4>1, <4>2, ContractSteps DEF Ended
    <3>4. CASE k = i /\ Cleanup(i)
      BY <1>2, <3>4, CleanupStep
    <3> QED  BY <2>3, <3>1, <3>2, <3>3, <3>4
  <2> QED  BY <2>1, <2>2, <2>3 DEF Next
<1> QED  BY <1>1, <1>2, OvaInductive, PTL DEF Spec, ImplementsContract
=============================================================================
