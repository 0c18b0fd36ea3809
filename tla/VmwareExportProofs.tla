------------------------- MODULE VmwareExportProofs -------------------------
(***************************************************************************)
(* Safety theorems of VmwareExport, and that it implements ExportContract, *)
(* for every number of lease items, exports and faults, whichever items    *)
(* are skipped.                                                            *)
(***************************************************************************)
EXTENDS VmwareExport, TLAPS, FiniteSetTheorems, SequenceTheorems

\* What the theorems assume of the constants; nothing is assumed of Skipped.
Bounds == Items \in Nat /\ MaxRuns \in Nat \ {0} /\ MaxFaults \in Nat

-----------------------------------------------------------------------------
(***************************************************************************)
(* The inductive invariant                                                 *)
(***************************************************************************)
Preparing == {"mkdir", "lease", "wait"}

ControlOK ==
    /\ pc = "end" <=> run # "running"
    /\ run = "running" => ~cleaned /\ undeleted = {}

\* A directory that an ended export has left is of an export that got no lease
\* it could use; what lies ahead is untouched.
DirectoriesOK ==
    /\ \A a \in tmp : /\ a <= attempt
                      /\ a < attempt \/ run # "running" => a \notin updater /\ lease[a] # "completed"
    /\ \A a \in 1..MaxRuns : a > attempt => a \notin updater /\ a \notin tmp /\ lease[a] = "none"
    /\ pc \in Preparing => attempt \notin updater /\ lease[attempt] # "completed"
    /\ pc = "mkdir" => attempt \notin tmp
    /\ pc = "convert" \/ run = "ok" => attempt \notin updater

\* The disks among the first n items of the lease.
Upto(n) == {i \in Disks : i <= n}
ListedItems == {disks[j].item : j \in 1..Len(disks)}

\* The list grows with the items; the conversion then goes through the list.
ListOK ==
    /\ pc \in Preparing => disks = <<>>
    /\ pc = "download" => Len(disks) = Cardinality(Upto(item)) /\ ListedItems = Upto(item)
    /\ pc = "convert" => /\ item <= Len(disks)
                         /\ Len(disks) = Cardinality(Disks) /\ ListedItems = Disks
                         /\ \A j \in 1..item : /\ disks[j].suffix = ".img"
                                               /\ images[disks[j].item] = "whole"
    /\ run = "ok" => Len(disks) = Cardinality(Disks)
    /\ run = "failed" => Len(disks) <= Cardinality(Disks)

\* At most one image is in the directory without its name in the list.
ImagesOK ==
    /\ pc \in Preparing \cup {"download"} => Present = {}
    /\ pc = "convert" \/ run = "ok" => Present \subseteq Named
    /\ run = "failed" => \A x, y \in Present \ Named : x = y
    /\ cleaned => Present \cap Named \subseteq undeleted

ExportInvariant == TypeOK /\ ControlOK /\ DirectoriesOK /\ ListOK /\ ImagesOK

-----------------------------------------------------------------------------
(***************************************************************************)
(* The disks among the items                                               *)
(***************************************************************************)
LEMMA DisksFinite ==
    ASSUME Bounds
    PROVE  /\ IsFiniteSet(Disks) /\ Cardinality(Disks) \in Nat /\ Cardinality(Disks) <= Items
           /\ \A n \in Nat : /\ IsFiniteSet(Upto(n)) /\ Cardinality(Upto(n)) \in Nat
                             /\ Cardinality(Upto(n)) <= Cardinality(Disks)
<1>1. IsFiniteSet(1..Items) /\ Cardinality(1..Items) = Items
  BY FS_Interval, SMT DEF Bounds
<1>2. IsFiniteSet(Disks) /\ Cardinality(Disks) <= Items
  BY <1>1, FS_Subset DEF Disks
<1>3. ASSUME NEW n \in Nat
      PROVE  IsFiniteSet(Upto(n)) /\ Cardinality(Upto(n)) <= Cardinality(Disks)
  BY <1>2, FS_Subset DEF Upto
<1> QED  BY <1>2, <1>3, FS_CardinalityType

\* One item more is one disk more, unless it is skipped.
LEMMA NextItem ==
    ASSUME Bounds, NEW n \in Nat, n < Items
    PROVE  /\ n + 1 \in Skipped => Upto(n + 1) = Upto(n)
           /\ n + 1 \notin Skipped => /\ Upto(n + 1) = Upto(n) \cup {n + 1}
                                      /\ Cardinality(Upto(n + 1)) = Cardinality(Upto(n)) + 1
<1>1. n + 1 \in Skipped => Upto(n + 1) = Upto(n)
  BY DEF Upto, Disks, Bounds
<1>2. n + 1 \notin Skipped => Upto(n + 1) = Upto(n) \cup {n + 1}
  BY DEF Upto, Disks, Bounds
<1>3. n + 1 \notin Upto(n)
  BY DEF Upto
<1> QED  BY <1>1, <1>2, <1>3, DisksFinite, FS_AddElement

LEMMA FirstAndLast ==
    ASSUME Bounds
    PROVE  /\ Upto(0) = {} /\ Cardinality(Upto(0)) = 0
           /\ Upto(Items) = Disks
<1>1. Upto(0) = {} /\ Upto(Items) = Disks
  BY DEF Upto, Disks, Bounds
<1> QED  BY <1>1, FS_EmptySet

\* The numbers of the disks are 1..Cardinality(Disks), each used once.
LEMMA DiskNumbers ==
    ASSUME Bounds
    PROVE  {DiskNumber(j) : j \in Disks} = 1..Cardinality(Disks)
<1> DEFINE T == 1..Cardinality(Disks)
           f == [j \in Disks |-> DiskNumber(j)]
<1>1. \A j \in Disks : j \in Nat /\ DiskNumber(j) = Cardinality(Upto(j)) /\ j \in Upto(j)
  BY DEF Disks, DiskNumber, Upto
<1>2. ASSUME NEW j \in Disks PROVE DiskNumber(j) \in T
  <2>1. Cardinality(Upto(j)) # 0
    BY <1>1, DisksFinite, FS_EmptySet
  <2> QED  BY <1>1, <2>1, DisksFinite
<1>3. ASSUME NEW i \in Disks, NEW j \in Disks, i < j PROVE DiskNumber(i) # DiskNumber(j)
  <2>1. i \in Nat /\ j \in Nat /\ \A k \in Disks : k \in Nat
    BY DEF Disks
  <2>2. \A k \in Disks : k <= i => k <= j
    BY <1>3, <2>1
  <2>3. ~(j <= i)
    BY <1>3, <2>1
  <2>4. Upto(i) \subseteq Upto(j) /\ j \notin Upto(i)
    BY <2>2, <2>3 DEF Upto
  <2> QED  BY <1>1, <2>1, <2>4, DisksFinite, FS_Subset
<1>4. f \in Injection(Disks, T)
  BY <1>1, <1>2, <1>3 DEF Injection, IsInjective
<1>5. IsFiniteSet(T) /\ Cardinality(T) = Cardinality(Disks)
  BY DisksFinite, FS_Interval
<1>6. f \in Surjection(Disks, T)
  BY <1>4, <1>5, FS_Injection
<1> QED  BY <1>2, <1>6 DEF Surjection

-----------------------------------------------------------------------------
(***************************************************************************)
(* The invariant holds throughout                                          *)
(***************************************************************************)
Entry == [item : Disks, suffix : {".vmdk", ".img"}]
ImageState == {"none", "partial", "whole"}

LEMMA EntryAt ==
    ASSUME TypeOK, NEW j \in 1..Len(disks)
    PROVE  disks[j] \in Entry
<1>1. disks \in Seq(Entry)
  BY DEF TypeOK, Entry
<1> QED  BY <1>1

LEMMA NamedTypes == TypeOK => Named \subseteq Disks /\ ListedItems \subseteq Disks
BY EntryAt DEF Named, ListedItems, Entry

\* Nothing is present exactly when every image is absent.
LEMMA NothingPresent ==
    ASSUME TypeOK
    PROVE  Present = {} <=> \A j \in 1..Items : images[j] = "none"
BY DEF Present

LEMMA FaultType ==
    ASSUME faults \in 0..MaxFaults, MaxFaults \in Nat, UNCHANGED faults \/ \E f \in {"api", "remove", "crash"} : Fault(f)
    PROVE  faults' \in 0..MaxFaults
BY DEF Fault

LEMMA InitInvariant ==
    ASSUME Bounds, Init
    PROVE  ExportInvariant
<1>1. TypeOK
  <2>1. lease \in [1..MaxRuns -> LeaseState] /\ images \in [1..Items -> ImageState]
    BY DEF Init, LeaseState, ImageState
  <2>2. item \in 0..Items /\ attempt \in 1..MaxRuns /\ faults \in 0..MaxFaults /\ disks \in Seq(Entry)
    BY DEF Init, Bounds
  <2> QED  BY <2>1, <2>2 DEF Init, TypeOK, ImageState, Entry
<1>2. Present = {}
  BY DEF Init, Present
<1> QED  BY <1>1, <1>2 DEF Init, ExportInvariant, ControlOK, DirectoriesOK, ListOK, ImagesOK, Preparing, Bounds

\* An export that fails with its directory removed, or before it had a lease.
LEMMA FailureKeeps ==
    ASSUME Bounds, ExportInvariant, run = "running",
           Return("failed", TRUE) \/ (Return("failed", FALSE) /\ pc \in Preparing), Len(disks) <= Cardinality(Disks), UNCHANGED <<source, disks, faults>>,
           images' \in [1..Items -> ImageState], \A x, y \in Present' \ Named' : x = y
    PROVE  ExportInvariant'
<1> USE DEF ExportInvariant
<1>1. /\ pc' = "end" /\ run' = "failed" /\ item' = 0 /\ vmdks' = {}
      /\ UNCHANGED <<attempt, lease, updater, disks, faults, cleaned, undeleted>>
      /\ tmp' = tmp \ {attempt} \/ (tmp' = tmp /\ pc \in Preparing)
  BY DEF Return, source, ending
<1>2. TypeOK'
  <2>1. item' \in 0..Items
    BY <1>1 DEF Bounds
  <2>2. tmp' \subseteq 1..MaxRuns /\ vmdks' \subseteq Disks /\ undeleted' \subseteq Disks
    BY <1>1 DEF TypeOK
  <2> QED  BY <1>1, <2>1, <2>2 DEF TypeOK, ImageState
<1>3. ControlOK'
  BY <1>1 DEF ControlOK
<1>4. DirectoriesOK'
  <2>1. ASSUME NEW a \in tmp' PROVE a <= attempt /\ a \notin updater /\ lease[a] # "completed"
    <3>1. a \in tmp /\ a <= attempt /\ (a = attempt => pc \in Preparing)
      BY <1>1, <2>1 DEF DirectoriesOK
    <3>2. a \in Nat /\ attempt \in Nat
      BY <3>1 DEF TypeOK, Bounds
    <3> QED  BY <3>1, <3>2 DEF DirectoriesOK
  <2> QED  BY <1>1, <2>1 DEF DirectoriesOK, Preparing
<1>5. ListOK' /\ ImagesOK'
  BY <1>1 DEF ListOK, ImagesOK, ControlOK, Preparing
<1> QED  BY <1>2, <1>3, <1>4, <1>5

\* The directory, the lease, the updater.
LEMMA PreparingKeeps ==
    ASSUME Bounds, ExportInvariant, mkdirTemp \/ exportLease \/ waitLease
    PROVE  ExportInvariant'
<1> USE DEF ExportInvariant, source, result, ending
<1>1. /\ pc \in Preparing /\ run = "running" /\ disks = <<>> /\ Present = {}
      /\ UNCHANGED <<disks, images, faults>>
  BY DEF mkdirTemp, exportLease, waitLease, Preparing, ControlOK, ListOK, ImagesOK
<1>2. /\ Present' = {} /\ Len(disks) = 0 /\ Cardinality(Disks) \in Nat
      /\ images' \in [1..Items -> ImageState]
  BY <1>1, DisksFinite DEF Present, TypeOK, ImageState
<1>3. ASSUME Return("failed", FALSE), UNCHANGED source PROVE ExportInvariant'
  <2>1. Len(disks) <= Cardinality(Disks) /\ \A x, y \in Present' \ Named' : x = y
    BY <1>2
  <2> QED  BY <1>1, <1>2, <1>3, <2>1, FailureKeeps DEF ExportInvariant
<1>4. ASSUME NEW p \in {"lease", "wait", "download"}, Goto(p, 0), UNCHANGED vmdks,
             tmp' \subseteq 1..MaxRuns, updater' \subseteq 1..MaxRuns,
             lease' \in [1..MaxRuns -> LeaseState], DirectoriesOK'
      PROVE  ExportInvariant'
  <2>1. TypeOK'
    BY <1>1, <1>4 DEF TypeOK, Goto, Bounds
  <2>2. ControlOK'
    BY <1>1, <1>4 DEF ControlOK, Goto
  <2>3. ListOK'
    <3>1. ListedItems' = {}
      BY <1>1, <1>2 DEF ListedItems
    <3> QED  BY <1>1, <1>2, <1>4, <3>1, FirstAndLast DEF ListOK, Goto, Upto
  <2>4. ImagesOK'
    BY <1>1, <1>2, <1>4 DEF ImagesOK, Goto, ControlOK
  <2> QED  BY <1>4, <2>1, <2>2, <2>3, <2>4
<1>5. ASSUME mkdirTemp, tmp' = tmp \cup {attempt}, Goto("lease", 0), UNCHANGED vmdks PROVE ExportInvariant'
  <2>1. DirectoriesOK'
    BY <1>1, <1>5 DEF mkdirTemp, DirectoriesOK, Goto, Preparing, TypeOK, Bounds
  <2> QED  BY <1>4, <1>5, <2>1 DEF mkdirTemp, TypeOK
<1>6. ASSUME exportLease, lease' = [lease EXCEPT ![attempt] = "ready"], Goto("wait", 0), UNCHANGED <<tmp, vmdks>>
      PROVE  ExportInvariant'
  <2>1. DirectoriesOK'
    BY <1>1, <1>6 DEF exportLease, DirectoriesOK, Goto, Preparing, TypeOK, Bounds
  <2>2. lease' \in [1..MaxRuns -> LeaseState]
    BY <1>6 DEF TypeOK, LeaseState
  <2> QED  BY <1>4, <1>6, <2>1, <2>2 DEF exportLease, TypeOK
<1>7. ASSUME waitLease, updater' = updater \cup {attempt}, Goto("download", 0), UNCHANGED <<tmp, vmdks>>
      PROVE  ExportInvariant'
  <2>1. DirectoriesOK'
    BY <1>1, <1>7 DEF waitLease, DirectoriesOK, Goto, Preparing, TypeOK, Bounds
  <2> QED  BY <1>4, <1>7, <2>1 DEF waitLease, TypeOK
<1> QED  BY <1>3, <1>5, <1>6, <1>7 DEF mkdirTemp, exportLease, waitLease

\* The download lists every disk once, in the order of the lease.
LEMMA DownloadKeeps ==
    ASSUME Bounds, ExportInvariant, skipItem \/ downloadFile
    PROVE  ExportInvariant'
<1> USE DEF ExportInvariant
<1> DEFINE entry == [item |-> item + 1, suffix |-> ".vmdk"]
<1>1. /\ pc = "download" /\ run = "running" /\ Present = {} /\ item \in 0..Items /\ item < Items
      /\ Len(disks) = Cardinality(Upto(item)) /\ ListedItems = Upto(item)
      /\ UNCHANGED <<lease, updater, images, faults>>
  BY DEF skipItem, downloadFile, ControlOK, ListOK, ImagesOK, TypeOK, source, result
<1>2. Present' = {} /\ images' \in [1..Items -> ImageState] /\ item \in Nat /\ item + 1 \in 0..Items
  BY <1>1 DEF Present, TypeOK, ImageState, Bounds
<1>3. ASSUME Return("failed", TRUE), UNCHANGED disks PROVE ExportInvariant'
  <2>1. Len(disks) <= Cardinality(Disks) /\ \A x, y \in Present' \ Named' : x = y
    BY <1>1, <1>2, DisksFinite
  <2> QED  BY <1>1, <1>2, <1>3, <2>1, FailureKeeps DEF source
<1>4. ASSUME Goto("download", item + 1), UNCHANGED tmp, vmdks' \subseteq Disks, disks' \in Seq(Entry),
             Len(disks') = Cardinality(Upto(item + 1)), ListedItems' = Upto(item + 1)
      PROVE  ExportInvariant'
  <2>1. TypeOK'
    BY <1>1, <1>2, <1>4 DEF TypeOK, Goto, Entry, ending
  <2>2. ControlOK' /\ DirectoriesOK'
    BY <1>1, <1>4 DEF ControlOK, DirectoriesOK, Goto, ending, Preparing
  <2>3. ListOK' /\ ImagesOK'
    BY <1>1, <1>2, <1>4 DEF ListOK, ImagesOK, Goto, Preparing, ending, ControlOK, Upto
  <2> QED  BY <2>1, <2>2, <2>3
<1>5. CASE skipItem
  <2>1. Upto(item + 1) = Upto(item)
    BY <1>1, <1>2, <1>5, NextItem DEF skipItem
  <2>2. /\ Goto("download", item + 1) /\ UNCHANGED <<tmp, vmdks, disks>>
    BY <1>5 DEF skipItem, result
  <2>3. ListedItems' = ListedItems /\ vmdks' \subseteq Disks /\ disks' \in Seq(Entry)
    BY <2>2 DEF ListedItems, TypeOK, Entry
  <2> QED  BY <1>1, <1>4, <2>1, <2>2, <2>3
<1>6. ASSUME downloadFile, vmdks' = vmdks \cup {item + 1}, disks' = Append(disks, entry),
             Goto("download", item + 1), UNCHANGED tmp
      PROVE  ExportInvariant'
  <2>1. item + 1 \notin Skipped /\ item + 1 \in Disks
    BY <1>1, <1>2, <1>6 DEF downloadFile, Disks
  <2>2. disks \in Seq(Entry) /\ entry \in Entry
    BY <2>1 DEF TypeOK, Entry
  <2>3. /\ disks' \in Seq(Entry) /\ Len(disks') = Len(disks) + 1 /\ Len(disks) \in Nat
        /\ \A j \in 1..Len(disks) : disks'[j] = disks[j]
        /\ disks'[Len(disks) + 1] = entry
    BY <1>6, <2>2
  <2>4. ListedItems' = ListedItems \cup {item + 1}
    <3>1. 1..Len(disks') = (1..Len(disks)) \cup {Len(disks) + 1}
      BY <2>3
    <3> QED  BY <2>3, <3>1 DEF ListedItems
  <2>5. Upto(item + 1) = Upto(item) \cup {item + 1} /\ Cardinality(Upto(item + 1)) = Cardinality(Upto(item)) + 1
    BY <1>1, <1>2, <2>1, NextItem
  <2>6. vmdks' \subseteq Disks
    BY <1>6, <2>1 DEF TypeOK
  <2> HIDE DEF entry
  <2> QED  BY <1>1, <1>4, <1>6, <2>3, <2>4, <2>5, <2>6
<1> QED  BY <1>3, <1>5, <1>6 DEF downloadFile

\* The updater is stopped before the conversion begins.
LEMMA CompleteKeeps ==
    ASSUME Bounds, ExportInvariant, completeLease
    PROVE  ExportInvariant'
<1> USE DEF ExportInvariant
<1>1. /\ pc = "download" /\ run = "running" /\ Present = {} /\ item = Items
      /\ updater' = updater \ {attempt} /\ Goto("convert", 0)
      /\ UNCHANGED <<tmp, vmdks, disks, images>>
  BY DEF completeLease, ControlOK, ImagesOK, result
<1>2. Len(disks) = Cardinality(Disks) /\ ListedItems = Disks
  BY <1>1, FirstAndLast DEF ListOK
<1>3. /\ lease' \in [1..MaxRuns -> LeaseState]
      /\ \A a \in 1..MaxRuns : lease'[a] = lease[a] \/ a = attempt
  BY DEF completeLease, TypeOK, LeaseState
<1>4. faults' \in 0..MaxFaults
  BY FaultType DEF completeLease, NoFault, TypeOK, Bounds
<1>5. TypeOK'
  <2>1. 0 \in 0..Items
    BY DEF Bounds
  <2> QED  BY <1>1, <1>3, <1>4, <2>1 DEF TypeOK, Goto, ending
<1>6. ControlOK'
  BY <1>1 DEF ControlOK, Goto, ending
<1>7. DirectoriesOK'
  <2>1. attempt \in 1..MaxRuns /\ tmp \subseteq 1..MaxRuns /\ 1..MaxRuns \subseteq Nat
    BY DEF TypeOK, Bounds
  <2> QED  BY <1>1, <1>3, <2>1 DEF DirectoriesOK, Goto, ending, Preparing
<1>8. ListOK'
  <2>1. ListedItems' = ListedItems
    BY <1>1 DEF ListedItems
  <2> QED  BY <1>1, <1>2, <2>1, DisksFinite DEF ListOK, Goto, ending, Preparing
<1>9. ImagesOK'
  <2>1. Present' = {}
    BY <1>1 DEF Present
  <2> QED  BY <1>1, <2>1 DEF ImagesOK, Goto, ending, ControlOK
<1> QED  BY <1>5, <1>6, <1>7, <1>8, <1>9

\* A converted disk is renamed in the list.
LEMMA RenameOne ==
    ASSUME TypeOK, NEW k \in 1..Len(disks), disks' = [disks EXCEPT ![k].suffix = ".img"]
    PROVE  /\ disks' \in Seq(Entry) /\ Len(disks') = Len(disks)
           /\ \A j \in 1..Len(disks) : /\ disks'[j].item = disks[j].item
                                       /\ disks'[j].suffix = IF j = k THEN ".img" ELSE disks[j].suffix
<1> DEFINE e == [disks[k] EXCEPT !.suffix = ".img"]
<1>1. disks \in Seq(Entry)
  BY DEF TypeOK, Entry
<1>2. e \in Entry /\ e.item = disks[k].item /\ e.suffix = ".img"
  BY EntryAt DEF Entry
<1>3. disks' = [disks EXCEPT ![k] = e]
  OBVIOUS
<1> HIDE DEF e
<1>4. /\ disks' \in Seq(Entry) /\ Len(disks') = Len(disks)
      /\ \A j \in 1..Len(disks) : disks'[j] = IF j = k THEN e ELSE disks[j]
  BY <1>1, <1>2, <1>3, ExceptSeq
<1> QED  BY <1>2, <1>4

\* What is converted is named; only the image in work may be present unnamed.
LEMMA ConvertKeeps ==
    ASSUME Bounds, ExportInvariant, convertToRAW
    PROVE  ExportInvariant'
<1> USE DEF ExportInvariant
<1> DEFINE d == disks[item + 1]
<1>1. /\ pc = "convert" /\ run = "running" /\ item < Len(disks) /\ item \in 0..Items
      /\ Len(disks) = Cardinality(Disks) /\ ListedItems = Disks /\ Present \subseteq Named
      /\ UNCHANGED <<lease, updater, faults>>
  BY DEF convertToRAW, ControlOK, ListOK, ImagesOK, TypeOK, source
<1>2. Len(disks) \in Nat /\ Len(disks) <= Items /\ item + 1 \in 1..Len(disks) /\ item \in Nat
  BY <1>1, DisksFinite DEF Bounds
<1>3. d \in Entry /\ d.item \in Disks /\ d.item \in 1..Items
  BY <1>2, EntryAt DEF Entry, Disks
<1>4. ASSUME images' \in {images, [images EXCEPT ![d.item] = "partial"]}, Return("failed", TRUE), UNCHANGED disks
      PROVE  ExportInvariant'
  <2>1. images' \in [1..Items -> ImageState] /\ Present' \subseteq Present \cup {d.item}
    BY <1>3, <1>4 DEF TypeOK, ImageState, Present
  <2>2. Named' = Named
    BY <1>4 DEF Named
  <2>3. Len(disks) <= Cardinality(Disks) /\ \A x, y \in Present' \ Named' : x = y
    BY <1>1, <1>2, <2>1, <2>2
  <2> QED  BY <1>1, <1>4, <2>1, <2>3, FailureKeeps DEF source
<1>5. ASSUME images' = [images EXCEPT ![d.item] = "whole"], disks' = [disks EXCEPT ![item + 1].suffix = ".img"],
             vmdks' = vmdks \ {d.item}, Goto("convert", item + 1), UNCHANGED tmp
      PROVE  ExportInvariant'
  <2>1. /\ disks' \in Seq(Entry) /\ Len(disks') = Len(disks)
        /\ \A j \in 1..Len(disks) : /\ disks'[j].item = disks[j].item
                                    /\ disks'[j].suffix = IF j = item + 1 THEN ".img" ELSE disks[j].suffix
    BY <1>2, <1>5, RenameOne
  <2>2. /\ images' \in [1..Items -> ImageState] /\ Present' = Present \cup {d.item}
        /\ \A i \in 1..Items : images[i] = "whole" \/ i = d.item => images'[i] = "whole"
    BY <1>3, <1>5 DEF TypeOK, ImageState, Present
  <2>3. Named \subseteq Named' /\ d.item \in Named'
    BY <1>2, <2>1 DEF Named
  <2>4. ListedItems' = ListedItems
    BY <2>1 DEF ListedItems
  <2>5. TypeOK'
    <3>1. item + 1 \in 0..Items
      BY <1>2 DEF Bounds
    <3> QED  BY <1>1, <1>5, <2>1, <2>2, <3>1 DEF TypeOK, Goto, ending, Entry, ImageState
  <2>6. ControlOK' /\ DirectoriesOK'
    BY <1>1, <1>5 DEF ControlOK, DirectoriesOK, Goto, ending, Preparing
  <2>7. ListOK'
    <3>1. ASSUME NEW j \in 1..(item + 1)
          PROVE  disks'[j].suffix = ".img" /\ images'[disks'[j].item] = "whole"
      <4>1. j \in 1..Len(disks) /\ (j = item + 1 \/ j \in 1..item)
        BY <1>2
      <4>2. disks[j].item \in 1..Items
        BY <4>1, EntryAt DEF Entry, Disks
      <4> QED  BY <1>1, <2>1, <2>2, <4>1, <4>2 DEF ListOK
    <3> QED  BY <1>1, <1>2, <1>5, <2>1, <2>4, <3>1 DEF ListOK, Goto, ending, Preparing
  <2>8. ImagesOK'
    BY <1>1, <1>5, <2>2, <2>3 DEF ImagesOK, Goto, ending, ControlOK, Preparing
  <2> QED  BY <2>5, <2>6, <2>7, <2>8
<1> QED  BY <1>4, <1>5 DEF convertToRAW

\* An export that succeeds has named everything it has written.
LEMMA DoneKeeps ==
    ASSUME Bounds, ExportInvariant, exportDone
    PROVE  ExportInvariant'
<1> USE DEF ExportInvariant
<1>1. /\ pc = "convert" /\ run = "running" /\ item = Len(disks)
      /\ Len(disks) = Cardinality(Disks) /\ Present \subseteq Named
      /\ pc' = "end" /\ run' = "ok" /\ item' = 0 /\ vmdks' = {} /\ tmp' = tmp \ {attempt}
      /\ UNCHANGED <<lease, updater, disks, images, faults, attempt, cleaned, undeleted>>
  BY DEF exportDone, ControlOK, ListOK, ImagesOK, source, result, Return, ending
<1>2. TypeOK'
  <2>1. item' \in 0..Items /\ tmp' \subseteq 1..MaxRuns
    BY <1>1 DEF TypeOK, Bounds
  <2> QED  BY <1>1, <2>1 DEF TypeOK
<1>3. ControlOK' /\ ListOK'
  BY <1>1 DEF ControlOK, ListOK, Preparing
<1>4. DirectoriesOK'
  <2>1. ASSUME NEW a \in tmp' PROVE a <= attempt /\ a < attempt
    BY <1>1 DEF DirectoriesOK, TypeOK, Bounds
  <2> QED  BY <1>1, <2>1 DEF DirectoriesOK, Preparing
<1>5. ImagesOK'
  BY <1>1 DEF ImagesOK, ControlOK, Preparing, Present, Named
<1> QED  BY <1>2, <1>3, <1>4, <1>5

\* What the clean-up cannot remove is among the images named in the list.
LEMMA CleanupKeeps ==
    ASSUME Bounds, ExportInvariant, Cleanup
    PROVE  ExportInvariant'
<1> USE DEF ExportInvariant
<1>1. PICK failing \in SUBSET (Named \cap Present) :
         /\ IF failing = {} THEN NoFault ELSE Fault("remove")
         /\ images' = [j \in 1..Items |-> IF j \in Removed(failing) THEN "none" ELSE images[j]]
         /\ undeleted' = failing
  BY DEF Cleanup
<1>2. /\ run # "running" /\ cleaned' = TRUE
      /\ UNCHANGED <<pc, item, attempt, lease, updater, tmp, vmdks, disks, run>>
  BY DEF Cleanup, source
<1>3. Named' = Named /\ Present' \subseteq Present /\ Present' \cap Named \subseteq failing
  BY <1>1, <1>2 DEF Named, Present, Removed
<1>4. TypeOK'
  <2>1. faults' \in 0..MaxFaults
    BY <1>1, FaultType DEF NoFault, TypeOK, Bounds
  <2>2. failing \subseteq Disks
    BY NamedTypes
  <2>3. images' \in [1..Items -> ImageState]
    BY <1>1 DEF TypeOK, ImageState
  <2> QED  BY <1>1, <1>2, <2>1, <2>2, <2>3 DEF TypeOK, ImageState
<1>5. ControlOK' /\ DirectoriesOK'
  BY <1>2 DEF ControlOK, DirectoriesOK
<1>6. ListOK'
  BY <1>2 DEF ListOK, ControlOK, Preparing
<1>7. ImagesOK'
  BY <1>1, <1>2, <1>3 DEF ImagesOK, ControlOK, Preparing
<1> QED  BY <1>4, <1>5, <1>6, <1>7

\* Only a lease that was granted runs out.
LEMMA LeaseKeeps ==
    ASSUME Bounds, ExportInvariant, LeaseExpires
    PROVE  ExportInvariant'
<1> USE DEF ExportInvariant
<1>1. /\ lease' \in [1..MaxRuns -> LeaseState]
      /\ \A a \in 1..MaxRuns : lease'[a] = lease[a] \/ (lease[a] = "ready" /\ lease'[a] = "aborted")
      /\ UNCHANGED <<pc, item, attempt, updater, tmp, vmdks, disks, images, run, cleaned, undeleted, faults>>
  BY DEF LeaseExpires, TypeOK, LeaseState, ending
<1>2. TypeOK' /\ ControlOK'
  BY <1>1 DEF TypeOK, ControlOK
<1>3. DirectoriesOK'
  <2>1. attempt \in 1..MaxRuns /\ tmp \subseteq 1..MaxRuns
    BY DEF TypeOK
  <2> QED  BY <1>1, <2>1 DEF DirectoriesOK
<1>4. ListedItems' = ListedItems /\ Present' = Present /\ Named' = Named
  BY <1>1 DEF ListedItems, Present, Named
<1>5. ListOK' /\ ImagesOK'
  BY <1>1, <1>4 DEF ListOK, ImagesOK
<1> QED  BY <1>2, <1>3, <1>5

\* A new attempt begins with a lease number nobody has used; it may find the
\* directories of those before it, never one of its own.
LEMMA RestartKeeps ==
    ASSUME Bounds, ExportInvariant, ImportAgain \/ Crash
    PROVE  ExportInvariant'
<1> USE DEF ExportInvariant
<1>1. /\ pc' = "mkdir" /\ item' = 0 /\ attempt < MaxRuns /\ attempt' = attempt + 1
      /\ vmdks' = {} /\ disks' = <<>> /\ images' = [j \in 1..Items |-> "none"]
      /\ run' = "running" /\ cleaned' = FALSE /\ undeleted' = {}
      /\ lease' = lease
      /\ \/ run = "failed" /\ UNCHANGED <<updater, tmp>>
         \/ updater' = {} /\ tmp' = {}
  BY DEF ImportAgain, Crash, source, ending, ControlOK
<1>2. faults' \in 0..MaxFaults
  BY FaultType DEF ImportAgain, Crash, TypeOK, Bounds
<1>3. Present' = {} /\ images' \in [1..Items -> ImageState]
  BY <1>1 DEF Present, ImageState
<1>4. attempt \in Nat /\ attempt + 1 \in 1..MaxRuns
  BY <1>1 DEF TypeOK, Bounds
<1>5. TypeOK'
  <2>1. disks' \in Seq(Entry) /\ item' \in 0..Items
    BY <1>1 DEF Bounds
  <2> QED  BY <1>1, <1>2, <1>3, <1>4, <2>1 DEF TypeOK, Entry, ImageState
<1>6. ControlOK' /\ ListOK' /\ ImagesOK'
  BY <1>1, <1>3 DEF ControlOK, ListOK, ImagesOK, Preparing
<1>7. DirectoriesOK'
  <2>1. attempt + 1 \notin updater /\ attempt + 1 \notin tmp /\ lease[attempt + 1] = "none"
    BY <1>4 DEF DirectoriesOK
  <2>2. ASSUME NEW a \in tmp' PROVE a \in tmp /\ a <= attempt + 1 /\ a \notin updater' /\ lease[a] # "completed"
    <3>1. a \in tmp /\ run = "failed" /\ updater' = updater
      BY <1>1, <2>2
    <3>2. a \in Nat
      BY <3>1 DEF TypeOK, Bounds
    <3> QED  BY <1>4, <3>1, <3>2 DEF DirectoriesOK
  <2>3. ASSUME NEW a \in 1..MaxRuns, a > attempt + 1 PROVE a \notin updater' /\ a \notin tmp' /\ lease[a] = "none"
    BY <1>1, <1>4, <2>3 DEF DirectoriesOK
  <2> QED  BY <1>1, <2>1, <2>2, <2>3 DEF DirectoriesOK, Preparing
<1> QED  BY <1>5, <1>6, <1>7

LEMMA ExportInductive ==
    ASSUME Bounds, ExportInvariant, [Next]_vars
    PROVE  ExportInvariant'
<1>1. CASE UNCHANGED vars
  BY <1>1 DEF vars, ExportInvariant, TypeOK, ControlOK, DirectoriesOK, ListOK, ImagesOK, Preparing, ListedItems,
              Upto, Present, Named
<1>2. CASE ExportVirtualMachine
  BY <1>2, PreparingKeeps, DownloadKeeps, CompleteKeeps, ConvertKeeps, DoneKeeps DEF ExportVirtualMachine
<1> QED  BY <1>1, <1>2, CleanupKeeps, LeaseKeeps, RestartKeeps DEF Next

\* The invariant of VMware exports, for any lease, number of exports and faults.
THEOREM VmwareInductive ==
    ASSUME Bounds
    PROVE  Spec => []ExportInvariant
<1>1. Init => ExportInvariant
  BY InitInvariant
<1>2. ExportInvariant /\ [Next]_vars => ExportInvariant'
  BY ExportInductive
<1> QED  BY <1>1, <1>2, PTL DEF Spec

\* Every reachable state of the export (ExportVirtualMachine, Cleanup) is well typed.
THEOREM VmwareTypeCorrect ==
    ASSUME Bounds
    PROVE  Spec => []TypeOK
<1>1. ExportInvariant => TypeOK
  BY DEF ExportInvariant
<1> QED  BY <1>1, VmwareInductive, PTL

\* An export that has ended keeps no directory but one for which it got no
\* lease it could use, and after a success nobody keeps its lease alive.
THEOREM VmwareTidiesUp ==
    ASSUME Bounds
    PROVE  Spec => []ExportTidiesUp
<1>1. ASSUME ExportInvariant PROVE ExportTidiesUp
  <2>1. \A a \in tmp : a < attempt \/ a = attempt
    BY <1>1 DEF ExportInvariant, DirectoriesOK, TypeOK, Bounds
  <2> QED  BY <1>1, <2>1 DEF ExportInvariant, DirectoriesOK, ExportTidiesUp
<1> QED  BY <1>1, VmwareInductive, PTL

\* What the export wrote is in the list under its name, so the clean-up finds
\* all of it but the one image whose conversion failed.
THEOREM AtMostOneImageIsLost ==
    ASSUME Bounds
    PROVE  Spec => []AtMostOneImageLost
<1>1. ASSUME ExportInvariant PROVE AtMostOneImageLost
  <2> DEFINE lost == Present \ (undeleted \cup IF cleaned THEN {} ELSE Named)
  <2>1. lost \subseteq Present \ Named
    BY <1>1 DEF ExportInvariant, ImagesOK
  <2>2. ASSUME run = "failed" PROVE Cardinality(lost) <= 1
    <3>1. \A x, y \in lost : x = y
      BY <1>1, <2>1, <2>2 DEF ExportInvariant, ImagesOK
    <3>2. CASE lost = {}
      BY <3>2, FS_EmptySet
    <3>3. CASE \E x : x \in lost
      <4> PICK x : x \in lost
        BY <3>3
      <4>1. lost = {x}
        BY <3>1
      <4> HIDE DEF lost
      <4> QED  BY <4>1, FS_Singleton
    <3> QED  BY <3>2, <3>3
  <2>3. run = "ok" => lost = {}
    BY <1>1, <2>1 DEF ExportInvariant, ImagesOK
  <2> QED  BY <2>2, <2>3 DEF AtMostOneImageLost
<1> QED  BY <1>1, VmwareInductive, PTL

-----------------------------------------------------------------------------
(***************************************************************************)
(* The contract of ExportVirtualMachine                                    *)
(***************************************************************************)
\* The variables of the contract as the refinement mapping gives them.
ContractFiles == {DiskNumber(j) : j \in {i \in Disks : images[i] = "whole"}}
                 \cup (IF \E i \in Disks : images[i] = "partial" THEN {0} ELSE {})
ContractListed == IF run = "running" THEN 0 ELSE Len(disks)

LEMMA FilesAreOfDisks ==
    ASSUME Bounds
    PROVE  /\ ContractFiles \subseteq 0..Cardinality(Disks)
           /\ ContractFiles' \subseteq 0..Cardinality(Disks)
<1>1. \A j \in Disks : DiskNumber(j) \in 0..Cardinality(Disks)
  BY DiskNumbers
<1>2. 0 \in 0..Cardinality(Disks)
  BY DisksFinite
<1> QED  BY <1>1, <1>2 DEF ContractFiles

\* While the export runs nothing is listed, and files come and go.
LEMMA WorkRefines ==
    ASSUME Bounds, run = "running", run' = "running"
    PROVE  Contract!Work
BY FilesAreOfDisks DEF Contract!Work, ContractFiles, ContractListed

LEMMA FailRefines ==
    ASSUME Bounds, ExportInvariant, ExportInvariant', run = "running", run' = "failed"
    PROVE  Contract!Fail
<1>1. Len(disks') \in 0..Cardinality(Disks)
  <2>1. disks' \in Seq(Entry) /\ Len(disks') <= Cardinality(Disks)
    BY DEF ExportInvariant, ListOK, TypeOK, Entry
  <2> QED  BY <2>1, DisksFinite
<1> QED  BY <1>1, FilesAreOfDisks DEF Contract!Fail, ContractFiles

\* After the last conversion every disk has its file.
LEMMA SucceedRefines ==
    ASSUME Bounds, ExportInvariant, exportDone
    PROVE  Contract!Succeed
<1>1. /\ run = "running" /\ run' = "ok" /\ UNCHANGED <<disks, images>>
      /\ Len(disks) = Cardinality(Disks) /\ ListedItems = Disks
      /\ \A j \in 1..Len(disks) : images[disks[j].item] = "whole"
  BY DEF exportDone, Return, result, ExportInvariant, ControlOK, ListOK
<1>2. \A i \in Disks : images[i] = "whole"
  BY <1>1 DEF ListedItems
<1>3. 1..Cardinality(Disks) \subseteq ContractFiles'
  BY <1>1, <1>2, DiskNumbers DEF ContractFiles
<1> QED  BY <1>1, <1>3, FilesAreOfDisks DEF Contract!Succeed, ContractFiles

LEMMA CleanRefines ==
    ASSUME Bounds, ExportInvariant, Cleanup
    PROVE  Contract!Clean
<1>1. \A i \in Disks : i \in 1..Items
  BY DEF Disks
<1>2. run # "running" /\ UNCHANGED <<run, disks>>
  BY DEF Cleanup
<1>3. \A i \in Disks : images'[i] # "none" => images'[i] = images[i]
  BY <1>1 DEF Cleanup
<1>4. ContractFiles' \subseteq ContractFiles
  BY <1>3 DEF ContractFiles
<1> QED  BY <1>2, <1>4 DEF Contract!Clean, ContractFiles

LEMMA RestartRefines ==
    ASSUME Bounds, ImportAgain \/ Crash
    PROVE  Contract!Restart
<1>1. run' = "running" /\ images' = [j \in 1..Items |-> "none"]
  BY DEF ImportAgain, Crash
<1>2. \A i \in Disks : images'[i] = "none"
  BY <1>1 DEF Disks
<1> QED  BY <1>1, <1>2 DEF Contract!Restart

\* Every step of the VMware export is one the import controller is prepared
\* for, or none that it sees.
LEMMA StepRefines ==
    ASSUME Bounds, ExportInvariant, ExportInvariant', [Next]_vars
    PROVE  [Contract!Next]_Contract!vars
<1>1. CASE UNCHANGED vars \/ LeaseExpires
  <2>1. UNCHANGED <<run, disks, images>>
    BY <1>1 DEF vars, LeaseExpires
  <2> QED  BY <2>1 DEF Contract!vars
<1>2. CASE exportDone
  BY <1>2, SucceedRefines DEF Contract!Next
<1>3. CASE ExportVirtualMachine /\ ~exportDone
  <2>1. run = "running" /\ (run' = "running" \/ run' = "failed")
    BY <1>3 DEF ExportVirtualMachine, mkdirTemp, exportLease, waitLease, skipItem, downloadFile, completeLease,
                convertToRAW, Return, Goto, ExportInvariant, ControlOK
  <2> QED  BY <2>1, WorkRefines, FailRefines DEF Contract!Next
<1>4. CASE Cleanup
  BY <1>4, CleanRefines DEF Contract!Next
<1>5. CASE ImportAgain \/ Crash
  BY <1>5, RestartRefines DEF Contract!Next
<1> QED  BY <1>1, <1>2, <1>3, <1>4, <1>5 DEF Next

\* The VMware export (ExportVirtualMachine, Cleanup) implements ExportContract.
THEOREM VmwareImplementsContract ==
    ASSUME Bounds
    PROVE  Spec => ImplementsContract
<1>1. Init => Contract!Init
  <2>1. Init => \A i \in Disks : images[i] = "none"
    BY DEF Init, Disks
  <2> QED  BY <2>1 DEF Init, Contract!Init
<1>2. ExportInvariant /\ ExportInvariant' /\ [Next]_vars => [Contract!Next]_Contract!vars
  BY StepRefines
<1> QED  BY <1>1, <1>2, VmwareInductive, PTL DEF Spec, ImplementsContract, Contract!Spec
=============================================================================
