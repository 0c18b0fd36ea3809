------------------------ MODULE OpenstackServersProofs ------------------------
(***************************************************************************)
(* Safety theorems of OpenstackServers, for any imports, servers, names    *)
(* and patterns, and any number of moves of OpenStack's users.             *)
(***************************************************************************)
EXTENDS OpenstackServers, TLAPS, FiniteSetTheorems

USE ServersAssumption

-----------------------------------------------------------------------------
(***************************************************************************)
(* The inductive invariant                                                 *)
(***************************************************************************)
\* An import that has written its file exports no more.
Written == {"import", "build", "done", "cleaned"}

PlaceOK(i) ==
    /\ pc[i] = "stopping" => uuid[i] \in Servers
    /\ pc[i] \notin {"sanitize", "invalid"} => target[i] \in Names
    /\ pc[i] \in Written \cup {"download"} => exported[i] # NoServer
    /\ pc[i] \notin {"build", "done", "cleaned"} => imported[i] = NoServer
    /\ pc[i] \notin {"done", "cleaned"} => built[i] = NoServer

\* A server that once was the one r is about; by name, until it gives that up.
Meant(r, s) ==
    /\ s \in Servers /\ name[s] # NoName
    /\ r.by = "id" => s = r.to
    /\ r.by = "name" => s \in left \/ name[s] = r.to

\* When the export begins the server was found shut off.
StoppedOK(i) == pc[i] \in {"export", "download"} => \E s \in off : Meant(ref[i], s)

ExportedOK(i) ==
    /\ exported[i] # NoServer => /\ Meant(ref[i], exported[i])
                                 /\ exported[i] \in off \/ (ref[i].by = "name" /\ left \ {exported[i]} # {})
    /\ built[i] \in {NoServer, exported[i]} \/ (ref[i].by = "name" /\ exported[i] \in left)

ImportOK(i) == PlaceOK(i) /\ StoppedOK(i) /\ ExportedOK(i)

\* The data of s was written to the file n, by an import that still has them.
Wrote(s, n, p, t, e) == \E k \in Imports : p[k] \in Written /\ t[k] = n /\ e[k] = s

DataOK ==
    /\ \A n \in Names : file[n] # NoServer => Wrote(file[n], n, pc, target, exported)
    /\ \A i \in Imports : imported[i] # NoServer => Wrote(imported[i], target[i], pc, target, exported)

ServersInvariant == TypeOK /\ (\A i \in Imports : ImportOK(i)) /\ DataOK

-----------------------------------------------------------------------------
(***************************************************************************)
(* Lookups                                                                 *)
(***************************************************************************)
LEMMA RefTypes ==
    ASSUME TypeOK, NEW i \in Imports
    PROVE  \/ ref[i].by = "id" /\ ref[i].to \in Servers
           \/ ref[i].by = "name" /\ ref[i].to \in Names
BY DEF TypeOK

LEMMA LookupFacts ==
    ASSUME TypeOK, NEW r, r.by = "name", r.to \in Names, checkOrGetUUID(r).is = "found"
    PROVE  LET u == checkOrGetUUID(r).id
           IN  /\ u \in Servers /\ name[u] = r.to
               /\ \A s \in Servers : name[s] = r.to => s = u
<1> DEFINE all   == {s \in Existing : name[s] \in Finds[r.to]}
           exact == {s \in all : name[s] = r.to}
<1>1. /\ Cardinality(exact) <= 1 \/ ~(Cardinality(exact) \in Nat)
      /\ exact # {} /\ checkOrGetUUID(r) = Found(CHOOSE s \in exact : TRUE)
  BY DEF checkOrGetUUID, Found, Refused, Panics
<1>2. checkOrGetUUID(r).id \in exact
  BY <1>1 DEF Found
<1>3. exact = {s \in Servers : name[s] = r.to}
  BY DEF Existing
<1>4. IsFiniteSet(exact)
  BY <1>3, FS_Subset
<1>5. Cardinality(exact) = 1
  <2>1. Cardinality(exact) \in Nat
    BY <1>4, FS_CardinalityType
  <2>2. Cardinality(exact) # 0
    BY <1>1, <1>4, FS_EmptySet
  <2> QED  BY <1>1, <2>1, <2>2
<1>6. PICK x : exact = {x}
  BY <1>4, <1>5, FS_Singleton
<1> HIDE DEF exact
<1> QED  BY <1>2, <1>3, <1>6

LEMMA GetUUIDFacts ==
    ASSUME TypeOK, NEW i \in Imports, checkOrGetUUID(ref[i]).is = "found"
    PROVE  checkOrGetUUID(ref[i]).id \in Servers
<1>1. CASE ref[i].by = "id" /\ ref[i].to \in Servers
  BY <1>1 DEF checkOrGetUUID, Found
<1>2. CASE ref[i].by = "name" /\ ref[i].to \in Names
  BY <1>2, LookupFacts
<1> QED  BY <1>1, <1>2, RefTypes

\* A server that is found is the only one meant, by its ID, or by its name
\* as long as no server gave that name up.
LEMMA FindFacts ==
    ASSUME TypeOK, NEW i \in Imports, findVM(ref[i]).is = "found"
    PROVE  LET u == findVM(ref[i]).id
           IN  /\ u \in Existing /\ u \in Servers /\ name[u] \in Names /\ Meant(ref[i], u)
               /\ \A s \in Servers : Meant(ref[i], s) => s = u \/ (ref[i].by = "name" /\ s \in left)
<1> DEFINE u == checkOrGetUUID(ref[i])
<1>1. u.is = "found" /\ u.id \in Existing /\ findVM(ref[i]) = u
  BY DEF findVM, Refused
<1>2. u.id \in Servers /\ name[u.id] \in Names /\ name[u.id] # NoName
  BY <1>1 DEF Existing
<1>3. CASE ref[i].by = "id" /\ ref[i].to \in Servers
  <2>1. u.id = ref[i].to
    BY <1>3 DEF checkOrGetUUID, Found
  <2> QED  BY <1>1, <1>2, <1>3, <2>1 DEF Meant
<1>4. CASE ref[i].by = "name" /\ ref[i].to \in Names
  <2>1. name[u.id] = ref[i].to /\ \A s \in Servers : name[s] = ref[i].to => s = u.id
    BY <1>1, <1>4, LookupFacts
  <2> HIDE DEF u
  <2> QED  BY <1>1, <1>2, <1>4, <2>1 DEF Meant
<1> QED  BY <1>3, <1>4, RefTypes

-----------------------------------------------------------------------------
(***************************************************************************)
(* The steps of one import                                                 *)
(***************************************************************************)
LEMMA InitInvariant == Init => ServersInvariant
<1> SUFFICES ASSUME Init PROVE ServersInvariant
  OBVIOUS
<1>1. TypeOK
  BY DEF Init, TypeOK, PCs
<1>2. \A i \in Imports : ImportOK(i)
  BY DEF Init, ImportOK, PlaceOK, StoppedOK, ExportedOK, Written
<1>3. DataOK
  BY DEF Init, DataOK
<1> QED  BY <1>1, <1>2, <1>3 DEF ServersInvariant

\* What OpenStack has does not change, nor does any import but i.
LocalStep(i) ==
    /\ UNCHANGED <<name, off, left, ref>>
    /\ \A k \in Imports \ {i} : /\ pc'[k] = pc[k] /\ uuid'[k] = uuid[k] /\ target'[k] = target[k]
                                /\ exported'[k] = exported[k] /\ imported'[k] = imported[k]
                                /\ built'[k] = built[k]

\* A file once written keeps an import that wrote it and stands by its data.
WritersStay ==
    \A k \in Imports : pc[k] \in Written => /\ pc'[k] \in Written /\ target'[k] = target[k]
                                            /\ exported'[k] = exported[k]

LEMMA WroteStays ==
    ASSUME WritersStay, NEW s, NEW n, Wrote(s, n, pc, target, exported)
    PROVE  Wrote(s, n, pc', target', exported')
BY DEF WritersStay, Wrote

\* The images' data outlast a step that fetches none.
LEMMA DataStays ==
    ASSUME ServersInvariant, WritersStay, UNCHANGED imported,
           \A n \in Names : file'[n] \in {NoServer, file[n]}
    PROVE  DataOK'
<1> USE DEF ServersInvariant, DataOK
<1>1. ASSUME NEW n \in Names, file'[n] # NoServer PROVE Wrote(file'[n], n, pc', target', exported')
  <2>1. file'[n] = file[n] /\ Wrote(file[n], n, pc, target, exported)
    BY <1>1
  <2> QED  BY <2>1, WroteStays
<1>2. ASSUME NEW i \in Imports, imported'[i] # NoServer
      PROVE  Wrote(imported'[i], target'[i], pc', target', exported')
  <2>1. Wrote(imported[i], target[i], pc, target, exported)
    BY <1>2
  <2>2. pc[i] \in Written
    BY <1>2 DEF ImportOK, PlaceOK, Written
  <2>3. target'[i] = target[i]
    BY <2>2 DEF WritersStay
  <2> QED  BY <2>1, <2>3, WroteStays
<1> QED  BY <1>1, <1>2

LEMMA LocalKeeps ==
    ASSUME ServersInvariant, NEW i \in Imports, LocalStep(i), TypeOK', ImportOK(i)', DataOK'
    PROVE  ServersInvariant'
<1>1. ASSUME NEW k \in Imports \ {i} PROVE ImportOK(k)'
  <2>1. ImportOK(k)
    BY DEF ServersInvariant
  <2>2. /\ UNCHANGED <<name, off, left, ref>>
        /\ pc'[k] = pc[k] /\ uuid'[k] = uuid[k] /\ target'[k] = target[k]
        /\ exported'[k] = exported[k] /\ imported'[k] = imported[k] /\ built'[k] = built[k]
    BY DEF LocalStep
  <2> QED  BY <2>1, <2>2 DEF ImportOK, PlaceOK, StoppedOK, ExportedOK, Meant
<1> QED  BY <1>1 DEF ServersInvariant

\* The process stops: every import starts over what was under way.
LEMMA PanicKeeps ==
    ASSUME ServersInvariant, Panic
    PROVE  ServersInvariant'
<1> USE DEF ServersInvariant
<1>1. /\ UNCHANGED <<name, off, asked, left, ref, target, exported, imported, built, moves>>
      /\ file' = [n \in Names |-> NoServer] /\ uuid' = [i \in Imports |-> NoServer]
  BY DEF Panic, cloud, result
<1>2. \A i \in Imports : \/ pc'[i] = pc[i] /\ pc[i] \notin {"download", "stopping"}
                         \/ pc[i] = "download" /\ pc'[i] = "export"
                         \/ pc[i] = "stopping" /\ pc'[i] = "stop"
  BY DEF Panic
<1>3. TypeOK'
  <2>1. pc' \in [Imports -> PCs]
    BY DEF Panic, TypeOK, PCs
  <2> QED  BY <1>1, <2>1 DEF TypeOK
<1>4. ASSUME NEW i \in Imports PROVE ImportOK(i)'
  <2>1. ImportOK(i)
    OBVIOUS
  <2> QED  BY <1>1, <1>2, <2>1 DEF ImportOK, PlaceOK, StoppedOK, ExportedOK, Meant, Written
<1>5. DataOK'
  BY <1>1, <1>2, DataStays DEF WritersStay, Written
<1> QED  BY <1>3, <1>4, <1>5

\* An import goes on without writing or fetching.
LEMMA AdvanceKeeps ==
    ASSUME ServersInvariant, NEW i \in Imports, NEW p \in PCs, Goto(i, p), TypeOK',
           UNCHANGED <<name, off, left, ref, target, exported, imported, built, file>>,
           \A k \in Imports \ {i} : uuid'[k] = uuid[k],
           p = "stopping" => uuid'[i] \in Servers,
           \/ pc[i] \in {"stop", "stopping"} /\ p \in {"stop", "stopping", "wait"}
           \/ pc[i] = "wait" /\ p = "export" /\ \E s \in off : Meant(ref[i], s)
           \/ pc[i] = "export" /\ p = "failed"
    PROVE  ServersInvariant'
<1> USE DEF ServersInvariant
<1>1. /\ pc'[i] = p /\ pc[i] \notin Written /\ p \notin Written
      /\ \A k \in Imports \ {i} : pc'[k] = pc[k]
  BY DEF Goto, TypeOK, Written
<1>2. LocalStep(i)
  BY <1>1 DEF LocalStep
<1>3. ImportOK(i)'
  <2>1. ImportOK(i)
    OBVIOUS
  <2>2. PlaceOK(i)'
    BY <1>1, <2>1 DEF ImportOK, PlaceOK, Written
  <2>3. StoppedOK(i)'
    BY <1>1, <2>1 DEF ImportOK, StoppedOK, Meant
  <2>4. ExportedOK(i)'
    BY <1>1, <2>1 DEF ImportOK, ExportedOK, Meant
  <2> QED  BY <2>2, <2>3, <2>4 DEF ImportOK
<1>4. DataOK'
  BY <1>1, DataStays DEF WritersStay
<1> QED  BY <1>2, <1>3, <1>4, LocalKeeps

LEMMA SanitizeKeeps ==
    ASSUME ServersInvariant, NEW i \in Imports, SanitizeVirtualMachineImport(i)
    PROVE  ServersInvariant'
<1> USE DEF ServersInvariant
<1>1. /\ pc[i] = "sanitize"
      /\ UNCHANGED <<name, off, asked, left, ref, uuid, file, exported, imported, built, moves>>
  BY DEF SanitizeVirtualMachineImport, cloud
<1>2. \/ \E n \in Names : target' = [target EXCEPT ![i] = n] /\ Goto(i, "stop")
      \/ target' = target /\ Goto(i, "invalid")
  <2>1. CASE ref[i].by = "name" /\ ref[i].to \in Names
    BY <2>1 DEF SanitizeVirtualMachineImport
  <2>2. CASE ref[i].by = "id"
    <3>1. findVM(ref[i]).is = "found" => name[findVM(ref[i]).id] \in Names
      BY FindFacts
    <3> QED  BY <2>2, <3>1 DEF SanitizeVirtualMachineImport
  <2> QED  BY <2>1, <2>2, RefTypes
<1>3. /\ \A k \in Imports \ {i} : pc'[k] = pc[k] /\ target'[k] = target[k]
      /\ target' \in [Imports -> Names \cup {NoName}] /\ pc' \in [Imports -> PCs]
      /\ (pc'[i] = "stop" /\ target'[i] \in Names) \/ pc'[i] = "invalid"
  BY <1>2 DEF Goto, TypeOK, PCs
<1>4. TypeOK'
  BY <1>1, <1>3 DEF TypeOK
<1>5. LocalStep(i)
  BY <1>1, <1>3 DEF LocalStep
<1>6. ImportOK(i)'
  <2>1. ImportOK(i)
    OBVIOUS
  <2> QED  BY <1>1, <1>3, <2>1 DEF ImportOK, PlaceOK, StoppedOK, ExportedOK, Meant, Written
<1>7. DataOK'
  <2>1. WritersStay
    BY <1>1, <1>3 DEF WritersStay, Written
  <2> QED  BY <1>1, <2>1, DataStays
<1> QED  BY <1>4, <1>5, <1>6, <1>7, LocalKeeps

\* Stopping and waiting: the server that is found shut off is one that is meant.
LEMMA StoppingKeeps ==
    ASSUME ServersInvariant, NEW i \in Imports, lookupServer(i) \/ ShutdownGuest(i) \/ IsPoweredOff(i)
    PROVE  ServersInvariant'
<1> USE DEF ServersInvariant
<1>1. ASSUME NEW p \in {"stop", "stopping", "wait", "export"}, Goto(i, p), asked' \subseteq Servers,
             UNCHANGED <<name, off, left, ref, file, target, exported, imported, built, moves>>,
             uuid' \in [Imports -> Servers \cup {NoServer}], \A k \in Imports \ {i} : uuid'[k] = uuid[k],
             p = "stopping" => uuid'[i] \in Servers,
             \/ pc[i] \in {"stop", "stopping"} /\ p \in {"stop", "stopping", "wait"}
             \/ pc[i] = "wait" /\ p = "export" /\ \E s \in off : Meant(ref[i], s)
      PROVE  ServersInvariant'
  <2>1. p \in PCs /\ TypeOK'
    BY <1>1 DEF TypeOK, Goto, PCs
  <2> QED  BY <1>1, <2>1, AdvanceKeeps
<1>2. CASE lookupServer(i)
  <2>1. CASE checkOrGetUUID(ref[i]).is = "panic" /\ Panic
    BY <2>1, PanicKeeps
  <2>2. ASSUME checkOrGetUUID(ref[i]).is = "found", uuid' = [uuid EXCEPT ![i] = checkOrGetUUID(ref[i]).id],
               Goto(i, "stopping"), UNCHANGED <<cloud, ref, file, result, moves>>
        PROVE  ServersInvariant'
    <3>1. checkOrGetUUID(ref[i]).id \in Servers
      BY <2>2, GetUUIDFacts
    <3>2. /\ uuid' \in [Imports -> Servers \cup {NoServer}] /\ uuid'[i] \in Servers
          /\ \A k \in Imports \ {i} : uuid'[k] = uuid[k]
      BY <2>2, <3>1 DEF TypeOK
    <3>3. asked' \subseteq Servers /\ pc[i] = "stop"
      BY <1>2, <2>2 DEF TypeOK, cloud, lookupServer
    <3> QED  BY <1>1, <2>2, <3>2, <3>3 DEF cloud, result
  <2> QED  BY <1>2, <2>1, <2>2 DEF lookupServer
<1>3. CASE ShutdownGuest(i)
  <2>1. CASE findVM(ref[i]).is = "panic" /\ Panic
    BY <2>1, PanicKeeps
  <2>2. ASSUME ~(findVM(ref[i]).is = "panic" /\ Panic) PROVE ServersInvariant'
    <3>1. /\ pc[i] = "stopping" /\ UNCHANGED <<name, off, left, ref, uuid, file, result, moves>>
          /\ asked' \in {asked, asked \cup {uuid[i]}}
          /\ Goto(i, "wait") \/ Goto(i, "stop")
      BY <1>3, <2>2 DEF ShutdownGuest, cloud
    <3>2. uuid[i] \in Servers
      BY <3>1 DEF ImportOK, PlaceOK
    <3>3. asked' \subseteq Servers /\ uuid' \in [Imports -> Servers \cup {NoServer}]
      BY <3>1, <3>2 DEF TypeOK
    <3> QED  BY <1>1, <3>1, <3>3 DEF result
  <2> QED  BY <2>1, <2>2
<1>4. CASE IsPoweredOff(i)
  <2>1. CASE findVM(ref[i]).is = "panic" /\ Panic
    BY <2>1, PanicKeeps
  <2>2. ASSUME ~(findVM(ref[i]).is = "panic" /\ Panic) PROVE ServersInvariant'
    <3>1. /\ pc[i] = "wait" /\ UNCHANGED <<cloud, ref, uuid, file, result, moves>> /\ Goto(i, "export")
          /\ findVM(ref[i]).is = "found" /\ findVM(ref[i]).id \in off
      BY <1>4, <2>2 DEF IsPoweredOff
    <3>2. \E s \in off : Meant(ref[i], s)
      BY <3>1, FindFacts
    <3>3. asked' \subseteq Servers /\ uuid' \in [Imports -> Servers \cup {NoServer}]
      BY <3>1 DEF TypeOK, cloud
    <3> QED  BY <1>1, <3>1, <3>2, <3>3 DEF result, cloud
  <2> QED  BY <2>1, <2>2
<1> QED  BY <1>2, <1>3, <1>4

\* The server that is exported is the one found shut off, unless that one has
\* given up its name.
LEMMA ExportKeeps ==
    ASSUME ServersInvariant, NEW i \in Imports, ExportVirtualMachine(i)
    PROVE  ServersInvariant'
<1> USE DEF ServersInvariant
<1> DEFINE u == findVM(ref[i])
<1>1. pc[i] = "export"
  BY DEF ExportVirtualMachine
<1>2. CASE u.is = "panic" /\ Panic
  BY <1>2, PanicKeeps
<1>3. ASSUME u.is = "error", Goto(i, "failed"), UNCHANGED <<cloud, ref, uuid, file, result, moves>>
      PROVE  ServersInvariant'
  <2>1. "failed" \in PCs /\ TypeOK'
    BY <1>3 DEF TypeOK, Goto, PCs, cloud, result
  <2> QED  BY <1>1, <1>3, <2>1, AdvanceKeeps DEF cloud, result
<1>4. ASSUME u.is = "found", exported' = [exported EXCEPT ![i] = u.id], Goto(i, "download"),
             UNCHANGED <<cloud, ref, uuid, file, target, imported, built, moves>>
      PROVE  ServersInvariant'
  <2>1. /\ u.id \in Servers /\ Meant(ref[i], u.id)
        /\ \A s \in Servers : Meant(ref[i], s) => s = u.id \/ (ref[i].by = "name" /\ s \in left)
    BY <1>4, FindFacts
  <2> HIDE DEF u
  <2>2. /\ pc'[i] = "download" /\ exported'[i] = u.id
        /\ \A k \in Imports \ {i} : pc'[k] = pc[k] /\ exported'[k] = exported[k]
        /\ pc' \in [Imports -> PCs] /\ exported' \in [Imports -> Servers \cup {NoServer}]
    BY <1>4, <2>1 DEF Goto, TypeOK, PCs
  <2>3. UNCHANGED <<name, off, asked, left, ref, uuid, file, target, imported, built, moves>>
    BY <1>4 DEF cloud
  <2>4. TypeOK'
    BY <2>2, <2>3 DEF TypeOK
  <2>5. LocalStep(i)
    BY <2>2, <2>3 DEF LocalStep
  <2>6. u.id \in off \/ (ref[i].by = "name" /\ left \ {u.id} # {})
    <3>1. PICK s \in off : Meant(ref[i], s)
      BY <1>1 DEF ImportOK, StoppedOK
    <3> QED  BY <2>1, <3>1 DEF Meant
  <2>7. ImportOK(i)'
    <3>1. ImportOK(i)
      OBVIOUS
    <3>2. PlaceOK(i)'
      BY <1>1, <2>1, <2>2, <2>3, <3>1 DEF ImportOK, PlaceOK, Written
    <3>3. StoppedOK(i)'
      BY <1>1, <2>3, <3>1 DEF ImportOK, StoppedOK, Meant
    <3>4. ExportedOK(i)'
      BY <1>1, <2>1, <2>2, <2>3, <2>6, <3>1 DEF ImportOK, PlaceOK, ExportedOK, Meant
    <3> QED  BY <3>2, <3>3, <3>4 DEF ImportOK
  <2>8. DataOK'
    <3>1. WritersStay
      BY <1>1, <2>2, <2>3 DEF WritersStay, Written
    <3> QED  BY <2>3, <3>1, DataStays
  <2> QED  BY <2>4, <2>5, <2>7, <2>8, LocalKeeps
<1> QED  BY <1>2, <1>3, <1>4 DEF ExportVirtualMachine

LEMMA WriteKeeps ==
    ASSUME ServersInvariant, NEW i \in Imports, writeRawImageFile(i)
    PROVE  ServersInvariant'
<1> USE DEF ServersInvariant
<1>1. /\ pc[i] = "download" /\ target[i] \in Names /\ exported[i] \in Servers
      /\ file' = [file EXCEPT ![target[i]] = exported[i]]
      /\ UNCHANGED <<name, off, asked, left, ref, uuid, target, exported, imported, built, moves>>
      /\ pc'[i] = "import" /\ pc' \in [Imports -> PCs]
      /\ \A k \in Imports \ {i} : pc'[k] = pc[k]
  BY DEF writeRawImageFile, generateRawImageFileName, Goto, cloud, result, ImportOK, PlaceOK, TypeOK, PCs
<1>2. TypeOK'
  <2>1. file' \in [Names -> Servers \cup {NoServer}]
    BY <1>1 DEF TypeOK
  <2> QED  BY <1>1, <2>1 DEF TypeOK
<1>3. LocalStep(i)
  BY <1>1 DEF LocalStep
<1>4. ImportOK(i)'
  <2>1. ImportOK(i)
    OBVIOUS
  <2> QED  BY <1>1, <2>1 DEF ImportOK, PlaceOK, StoppedOK, ExportedOK, Meant, Written
<1>5. DataOK'
  <2>1. WritersStay
    BY <1>1 DEF WritersStay, Written
  <2>2. ASSUME NEW n \in Names, file'[n] # NoServer PROVE Wrote(file'[n], n, pc', target', exported')
    <3>1. CASE n = target[i]
      BY <1>1, <3>1 DEF Wrote, Written, TypeOK
    <3>2. CASE n # target[i]
      <4>1. file'[n] = file[n]
        BY <1>1, <3>2 DEF TypeOK
      <4> QED  BY <2>1, <2>2, <4>1, WroteStays DEF DataOK
    <3> QED  BY <3>1, <3>2
  <2>3. ASSUME NEW k \in Imports, imported'[k] # NoServer
        PROVE  Wrote(imported'[k], target'[k], pc', target', exported')
    BY <1>1, <2>1, <2>3, WroteStays DEF DataOK
  <2> QED  BY <2>2, <2>3 DEF DataOK
<1> QED  BY <1>2, <1>3, <1>4, <1>5, LocalKeeps

\* The image gets the data of whoever wrote the file of that name last.
LEMMA FetchKeeps ==
    ASSUME ServersInvariant, NEW i \in Imports, FetchImage(i)
    PROVE  ServersInvariant'
<1> USE DEF ServersInvariant
<1>1. /\ pc[i] = "import" /\ target[i] \in Names /\ file[target[i]] # NoServer
      /\ file[target[i]] \in Servers
      /\ imported' = [imported EXCEPT ![i] = file[target[i]]]
      /\ UNCHANGED <<name, off, asked, left, ref, uuid, file, target, exported, built, moves>>
      /\ pc'[i] = "build" /\ pc' \in [Imports -> PCs]
      /\ \A k \in Imports \ {i} : pc'[k] = pc[k]
  BY DEF FetchImage, generateRawImageFileName, Goto, cloud, result, ImportOK, PlaceOK, TypeOK, PCs
<1>2. /\ imported' \in [Imports -> Servers \cup {NoServer}] /\ imported'[i] = file[target[i]]
      /\ \A k \in Imports \ {i} : imported'[k] = imported[k]
  BY <1>1 DEF TypeOK
<1>3. TypeOK'
  BY <1>1, <1>2 DEF TypeOK
<1>4. LocalStep(i)
  BY <1>1, <1>2 DEF LocalStep
<1>5. ImportOK(i)'
  <2>1. ImportOK(i)
    OBVIOUS
  <2> QED  BY <1>1, <2>1 DEF ImportOK, PlaceOK, StoppedOK, ExportedOK, Meant, Written
<1>6. DataOK'
  <2>1. WritersStay
    BY <1>1 DEF WritersStay, Written
  <2>2. ASSUME NEW n \in Names, file'[n] # NoServer PROVE Wrote(file'[n], n, pc', target', exported')
    BY <1>1, <2>1, <2>2, WroteStays DEF DataOK
  <2>3. ASSUME NEW k \in Imports, imported'[k] # NoServer
        PROVE  Wrote(imported'[k], target'[k], pc', target', exported')
    <3>1. Wrote(imported'[k], target[k], pc, target, exported)
      BY <1>1, <1>2, <2>3 DEF DataOK
    <3> QED  BY <1>1, <2>1, <3>1, WroteStays
  <2> QED  BY <2>2, <2>3 DEF DataOK
<1> QED  BY <1>3, <1>4, <1>5, <1>6, LocalKeeps

\* The new VM is built after the server that was exported, unless that one has
\* given up its name.
LEMMA GenerateKeeps ==
    ASSUME ServersInvariant, NEW i \in Imports, GenerateVirtualMachine(i)
    PROVE  ServersInvariant'
<1> USE DEF ServersInvariant
<1> DEFINE u == findVM(ref[i])
<1>1. CASE u.is = "panic" /\ Panic
  BY <1>1, PanicKeeps
<1>2. ASSUME u.is = "found", built' = [built EXCEPT ![i] = u.id], Goto(i, "done"), pc[i] = "build",
             UNCHANGED <<cloud, ref, uuid, file, target, exported, imported, moves>>
      PROVE  ServersInvariant'
  <2>1. /\ u.id \in Servers
        /\ \A s \in Servers : Meant(ref[i], s) => s = u.id \/ (ref[i].by = "name" /\ s \in left)
    BY <1>2, FindFacts
  <2> HIDE DEF u
  <2>2. /\ pc'[i] = "done" /\ built'[i] = u.id
        /\ \A k \in Imports \ {i} : pc'[k] = pc[k] /\ built'[k] = built[k]
        /\ pc' \in [Imports -> PCs] /\ built' \in [Imports -> Servers \cup {NoServer}]
    BY <1>2, <2>1 DEF Goto, TypeOK, PCs
  <2>3. UNCHANGED <<name, off, asked, left, ref, uuid, file, target, exported, imported, moves>>
    BY <1>2 DEF cloud
  <2>4. TypeOK'
    BY <2>2, <2>3 DEF TypeOK
  <2>5. LocalStep(i)
    BY <2>2, <2>3 DEF LocalStep
  <2>6. u.id = exported[i] \/ (ref[i].by = "name" /\ exported[i] \in left)
    <3>1. Meant(ref[i], exported[i])
      BY <1>2 DEF ImportOK, PlaceOK, ExportedOK, Written
    <3> QED  BY <2>1, <3>1 DEF Meant
  <2>7. ImportOK(i)'
    <3>1. ImportOK(i)
      OBVIOUS
    <3> QED  BY <1>2, <2>2, <2>3, <2>6, <3>1 DEF ImportOK, PlaceOK, StoppedOK, ExportedOK, Meant, Written
  <2>8. DataOK'
    <3>1. WritersStay
      BY <1>2, <2>2, <2>3 DEF WritersStay, Written
    <3> QED  BY <2>3, <3>1, DataStays
  <2> QED  BY <2>4, <2>5, <2>7, <2>8, LocalKeeps
<1> QED  BY <1>1, <1>2 DEF GenerateVirtualMachine

LEMMA CleanupKeeps ==
    ASSUME ServersInvariant, NEW i \in Imports, Cleanup(i)
    PROVE  ServersInvariant'
<1> USE DEF ServersInvariant
<1>1. /\ pc[i] = "done" /\ file' = [file EXCEPT ![target[i]] = NoServer]
      /\ UNCHANGED <<name, off, asked, left, ref, uuid, target, exported, imported, built, moves>>
      /\ pc'[i] = "cleaned" /\ pc' \in [Imports -> PCs]
      /\ \A k \in Imports \ {i} : pc'[k] = pc[k]
  BY DEF Cleanup, generateRawImageFileName, Goto, cloud, result, TypeOK, PCs
<1>2. /\ file' \in [Names -> Servers \cup {NoServer}]
      /\ \A n \in Names : file'[n] \in {NoServer, file[n]}
  BY <1>1 DEF TypeOK
<1>3. TypeOK'
  BY <1>1, <1>2 DEF TypeOK
<1>4. LocalStep(i)
  BY <1>1 DEF LocalStep
<1>5. ImportOK(i)'
  <2>1. ImportOK(i)
    OBVIOUS
  <2> QED  BY <1>1, <2>1 DEF ImportOK, PlaceOK, StoppedOK, ExportedOK, Meant, Written
<1>6. DataOK'
  <2>1. WritersStay
    BY <1>1 DEF WritersStay, Written
  <2> QED  BY <1>1, <1>2, <2>1, DataStays
<1> QED  BY <1>3, <1>4, <1>5, <1>6, LocalKeeps

-----------------------------------------------------------------------------
(***************************************************************************)
(* OpenStack, and the theorems                                             *)
(***************************************************************************)
\* A server starts its life running, is shut off at most, and leaves its name
\* for good when it is renamed or deleted.
LEMMA CloudKeeps ==
    ASSUME ServersInvariant, StopServer \/ CreateServer \/ RenameServer \/ DeleteServer
    PROVE  ServersInvariant'
<1> USE DEF ServersInvariant
<1>1. UNCHANGED <<ref, pc, uuid, file, target, exported, imported, built>>
  BY DEF StopServer, CreateServer, RenameServer, DeleteServer, Move, result
<1>2. /\ name' \in [Servers -> Names \cup {NoName, Gone}] /\ off' \subseteq Servers /\ asked' \subseteq Servers
      /\ left' \subseteq Servers /\ left \subseteq left' /\ moves' \in 0..MaxMoves
  BY DEF StopServer, CreateServer, RenameServer, DeleteServer, Move, TypeOK, Existing
<1>3. /\ \A s \in Servers : name[s] # NoName => name'[s] # NoName /\ (name'[s] = name[s] \/ s \in left')
      /\ \A s \in off : name[s] # NoName => s \in off'
  <2>1. CASE StopServer
    BY <2>1 DEF StopServer
  <2>2. CASE CreateServer
    BY <2>2 DEF CreateServer, TypeOK
  <2>3. CASE RenameServer \/ DeleteServer
    <3>1. PICK s \in Servers, n \in Names \cup {Gone} :
             name' = [name EXCEPT ![s] = n] /\ left' = left \cup {s} /\ UNCHANGED off
      BY <2>3 DEF RenameServer, DeleteServer, Existing
    <3>2. n # NoName
      BY DEF NoName, Gone
    <3> QED  BY <3>1, <3>2 DEF TypeOK
  <2> QED  BY <2>1, <2>2, <2>3
<1>4. TypeOK'
  BY <1>1, <1>2 DEF TypeOK
<1>5. ASSUME NEW i \in Imports PROVE ImportOK(i)'
  <2>1. ImportOK(i)
    OBVIOUS
  <2>2. \A s \in Servers : Meant(ref[i], s) => Meant(ref[i], s)'
    BY <1>1, <1>2, <1>3 DEF Meant
  <2>3. PlaceOK(i)'
    BY <1>1, <2>1 DEF ImportOK, PlaceOK
  <2>4. StoppedOK(i)'
    BY <1>1, <1>3, <2>1, <2>2 DEF ImportOK, StoppedOK, Meant
  <2>5. ExportedOK(i)'
    BY <1>1, <1>2, <1>3, <2>1, <2>2 DEF ImportOK, ExportedOK, Meant
  <2> QED  BY <2>3, <2>4, <2>5 DEF ImportOK
<1>6. DataOK'
  BY <1>1, DataStays DEF WritersStay
<1> QED  BY <1>4, <1>5, <1>6

LEMMA ServersInductive ==
    ASSUME ServersInvariant, [Next]_vars
    PROVE  ServersInvariant'
<1>1. CASE UNCHANGED vars
  BY <1>1 DEF vars, cloud, result, ServersInvariant, TypeOK, ImportOK, PlaceOK, StoppedOK, ExportedOK, Meant, DataOK
<1>2. ASSUME NEW i \in Imports, Operations(i) PROVE ServersInvariant'
  BY <1>2, SanitizeKeeps, StoppingKeeps, ExportKeeps, WriteKeeps, FetchKeeps, GenerateKeeps, CleanupKeeps
     DEF Operations
<1> QED  BY <1>1, <1>2, CloudKeeps DEF Next

\* Each import is at one server, the files and the images have the data of an
\* import that still stands by them, for any imports, servers, names and moves.
THEOREM ServersAreKnown == Spec => []ServersInvariant
<1>1. ServersInvariant /\ [Next]_vars => ServersInvariant'
  BY ServersInductive
<1> QED  BY <1>1, InitInvariant, PTL DEF Spec

\* Every reachable state of the imports and of OpenStack is well typed; a
\* lookup of the client (checkOrGetUUID, findVM) that finds one finds a server.
THEOREM ServersTypeCorrect == Spec => []TypeOK
<1>1. ServersInvariant => TypeOK
  BY DEF ServersInvariant
<1> QED  BY <1>1, ServersAreKnown, PTL

\* The lookups of ShutdownGuest, IsPoweredOff, ExportVirtualMachine and
\* GenerateVirtualMachine agree on one server, unless it gives up its name.
THEOREM OneServerIsImported == Spec => []OneServerThroughout
<1>1. ServersInvariant => OneServerThroughout
  BY DEF ServersInvariant, ImportOK, ExportedOK, OneServerThroughout
<1> QED  BY <1>1, ServersAreKnown, PTL

\* An import whose new VM has a name of its own gets the data it exported
\* (generateRawImageFileName).
THEOREM ImportsGetTheirData == Spec => []OwnDataIfNamesDiffer
<1>1. ServersInvariant => OwnDataIfNamesDiffer
  BY DEF ServersInvariant, DataOK, Wrote, OwnDataIfNamesDiffer
<1> QED  BY <1>1, ServersAreKnown, PTL
=============================================================================
