--------------------------- MODULE OpenstackServers ---------------------------
(***************************************************************************)
(* Which server of OpenStack an import works on: checkOrGetUUID and findVM *)
(* of pkg/source/openstack/client.go, called anew by each of the           *)
(* operations SanitizeVirtualMachineImport, ShutdownGuest, IsPoweredOff,   *)
(* ExportVirtualMachine and GenerateVirtualMachine, for several imports    *)
(* while the users of OpenStack create, rename and delete servers; and the *)
(* file an exported disk passes through, named after the new VM.           *)
(*                                                                         *)
(* Each server has one volume.  What an export does inside is              *)
(* OpenstackExport, and the life of an import is VMImport.                 *)
(*                                                                         *)
(* firstOfName, sanitizeKeepsSpec and fileOfIndex are variants for the     *)
(* mutation runs.                                                          *)
(***************************************************************************)
EXTENDS FiniteSets, Naturals

CONSTANTS
    Imports,   \* the imports, in namespaces of their own
    Servers,   \* the IDs of servers
    Names,     \* the names of servers
    Finds,     \* Finds[n]: the names the server list with the filter n matches
    Refs,      \* what spec.virtualMachineName may be: [by, to]
    MoveKinds, \* what users of OpenStack do in this instance
    MaxMoves   \* ... and how often

NoServer == "no server"
NoName   == "no name"
Gone     == "deleted"
ASSUME ServersAssumption ==
    /\ IsFiniteSet(Servers) /\ NoServer \notin Servers /\ {NoName, Gone} \cap Names = {}
    /\ \A n \in Names : n \in Finds[n] /\ Finds[n] \subseteq Names
    /\ Refs \subseteq [by : {"id"}, to : Servers] \cup [by : {"name"}, to : Names]
    /\ MaxMoves \in Nat

VARIABLES
    name,      \* the name of each server, NoName before and Gone after its life
    off,       \* the servers that are shut off
    asked,     \* the servers OpenStack was asked to stop
    ref,       \* spec.virtualMachineName of each import
    pc,        \* where each import stands
    uuid,      \* the server ShutdownGuest is about to stop
    target,    \* ImportedVirtualMachineName
    file,      \* the served directory: the server whose data a file has
    exported,  \* the server whose volume was exported
    imported,  \* the server whose data the new image has
    built,     \* the server whose CPUs, memory and networks the new VM has
    left,      \* history: the servers that gave up a name, renamed or deleted
    moves      \* what the users of OpenStack have done so far

cloud  == <<name, off, asked, left>>
result == <<target, exported, imported, built>>
vars   == <<cloud, ref, pc, uuid, file, result, moves>>

Existing == {s \in Servers : name[s] \in Names}

Init ==
    /\ name \in [Servers -> Names \cup {NoName}]
    /\ off \in SUBSET Servers /\ asked = {}
    /\ ref \in [Imports -> Refs]
    /\ pc = [i \in Imports |-> "sanitize"] /\ uuid = [i \in Imports |-> NoServer]
    /\ target = [i \in Imports |-> NoName] /\ file = [n \in Names |-> NoServer]
    /\ exported = [i \in Imports |-> NoServer] /\ imported = [i \in Imports |-> NoServer]
    /\ built = [i \in Imports |-> NoServer]
    /\ left = {} /\ moves = 0

Goto(i, p) == pc' = [pc EXCEPT ![i] = p]

-----------------------------------------------------------------------------
(***************************************************************************)
(* Lookups                                                                 *)
(***************************************************************************)
Found(s) == [is |-> "found", id |-> s]
Refused  == [is |-> "error", id |-> NoServer]
Panics   == [is |-> "panic", id |-> NoServer]

firstOfName(r) ==
    IF r.by = "id" THEN Found(r.to)
    ELSE LET exact == {s \in Existing : name[s] = r.to}
         IN  IF exact = {} THEN Refused ELSE Found(CHOOSE s \in exact : TRUE)

\* An ID is taken as it is.  The list of servers is filtered by a pattern; the
\* name is compared afterwards, and the first of the rest is taken without
\* looking whether there is one.
checkOrGetUUID(r) ==
    IF r.by = "id" THEN Found(r.to)
    ELSE LET all   == {s \in Existing : name[s] \in Finds[r.to]}
             exact == {s \in all : name[s] = r.to}
         IN  IF all = {} \/ Cardinality(exact) > 1 THEN Refused
             ELSE IF exact = {} THEN Panics
             ELSE Found(CHOOSE s \in exact : TRUE)

findVM(r) ==
    LET u == checkOrGetUUID(r)
    IN  IF u.is = "found" /\ u.id \notin Existing THEN Refused ELSE u

\* The process stops and starts again: files and exports under way are lost.
Panic ==
    /\ file' = [n \in Names |-> NoServer]
    /\ pc' = [i \in Imports |-> CASE pc[i] = "download" -> "export"
                                  [] pc[i] = "stopping" -> "stop"
                                  [] OTHER -> pc[i]]
    /\ uuid' = [i \in Imports |-> NoServer]
    /\ UNCHANGED <<cloud, ref, result, moves>>

-----------------------------------------------------------------------------
(***************************************************************************)
(* The operations of the client                                            *)
(***************************************************************************)
sanitizeKeepsSpec(i) ==
    /\ pc[i] = "sanitize"
    /\ target' = [target EXCEPT ![i] = ref[i].to] /\ Goto(i, "stop")
    /\ UNCHANGED <<cloud, ref, uuid, file, exported, imported, built, moves>>

\* The name of the new VM is that of the server.
SanitizeVirtualMachineImport(i) ==
    LET s == findVM(ref[i]) IN
    /\ pc[i] = "sanitize"
    /\ \/ /\ ref[i].by = "name"
          /\ target' = [target EXCEPT ![i] = ref[i].to] /\ Goto(i, "stop")
       \/ /\ ref[i].by = "id" /\ s.is = "found"
          /\ target' = [target EXCEPT ![i] = name[s.id]] /\ Goto(i, "stop")
       \/ /\ ref[i].by = "id" /\ s.is = "error"
          /\ Goto(i, "invalid") /\ UNCHANGED target
    /\ UNCHANGED <<cloud, ref, uuid, file, exported, imported, built, moves>>

\* ShutdownGuest looks up whom to stop ...
lookupServer(i) ==
    LET s == checkOrGetUUID(ref[i]) IN
    /\ pc[i] = "stop"
    /\ \/ /\ s.is = "found"
          /\ uuid' = [uuid EXCEPT ![i] = s.id] /\ Goto(i, "stopping")
          /\ UNCHANGED <<cloud, ref, file, result, moves>>
       \/ s.is = "panic" /\ Panic

\* ... and again whether it runs; after an error it starts over.
ShutdownGuest(i) ==
    LET s == findVM(ref[i]) IN
    /\ pc[i] = "stopping"
    /\ \/ /\ s.is = "found"
          /\ asked' = IF s.id \in off THEN asked ELSE asked \cup {uuid[i]}
          /\ Goto(i, "wait")
          /\ UNCHANGED <<name, off, left, ref, uuid, file, result, moves>>
       \/ s.is = "error" /\ Goto(i, "stop")
          /\ UNCHANGED <<cloud, ref, uuid, file, result, moves>>
       \/ s.is = "panic" /\ Panic

IsPoweredOff(i) ==
    LET s == findVM(ref[i]) IN
    /\ pc[i] = "wait"
    /\ \/ /\ s.is = "found" /\ s.id \in off /\ Goto(i, "export")
          /\ UNCHANGED <<cloud, ref, uuid, file, result, moves>>
       \/ s.is = "panic" /\ Panic

\* ExportVirtualMachine, up to the disk file ...
ExportVirtualMachine(i) ==
    LET s == findVM(ref[i]) IN
    /\ pc[i] = "export"
    /\ \/ /\ s.is = "found"
          /\ exported' = [exported EXCEPT ![i] = s.id] /\ Goto(i, "download")
          /\ UNCHANGED <<cloud, ref, uuid, file, target, imported, built, moves>>
       \/ /\ s.is = "error" /\ Goto(i, "failed")
          /\ UNCHANGED <<cloud, ref, uuid, file, result, moves>>
       \/ s.is = "panic" /\ Panic

fileOfIndex(i) == CHOOSE n \in Names : TRUE

\* The name of the new VM and the number of the volume, which is 0 here.
generateRawImageFileName(i) == target[i]

\* ... which it writes, or replaces if there is one.
writeRawImageFile(i) ==
    /\ pc[i] = "download"
    /\ file' = [file EXCEPT ![generateRawImageFileName(i)] = exported[i]]
    /\ Goto(i, "import")
    /\ UNCHANGED <<cloud, ref, uuid, result, moves>>

\* Harvester fetches the file over HTTP.
FetchImage(i) ==
    /\ pc[i] = "import" /\ file[generateRawImageFileName(i)] # NoServer
    /\ imported' = [imported EXCEPT ![i] = file[generateRawImageFileName(i)]]
    /\ Goto(i, "build")
    /\ UNCHANGED <<cloud, ref, uuid, file, target, exported, built, moves>>

\* After an error the import tries again.
GenerateVirtualMachine(i) ==
    LET s == findVM(ref[i]) IN
    /\ pc[i] = "build"
    /\ \/ /\ s.is = "found"
          /\ built' = [built EXCEPT ![i] = s.id] /\ Goto(i, "done")
          /\ UNCHANGED <<cloud, ref, uuid, file, target, exported, imported, moves>>
       \/ s.is = "panic" /\ Panic

Cleanup(i) ==
    /\ pc[i] = "done"
    /\ file' = [file EXCEPT ![generateRawImageFileName(i)] = NoServer]
    /\ Goto(i, "cleaned")
    /\ UNCHANGED <<cloud, ref, uuid, result, moves>>

-----------------------------------------------------------------------------
(***************************************************************************)
(* OpenStack                                                               *)
(***************************************************************************)
StopServer ==
    /\ \E s \in asked \cap Existing : off' = off \cup {s} /\ asked' = asked \ {s}
    /\ UNCHANGED <<name, left, ref, pc, uuid, file, result, moves>>

Move(kind) == /\ kind \in MoveKinds /\ moves < MaxMoves /\ moves' = moves + 1
              /\ UNCHANGED <<ref, pc, uuid, file, result>>

\* A new server runs.
CreateServer ==
    /\ Move("create")
    /\ \E s \in {x \in Servers : name[x] = NoName}, n \in Names :
          name' = [name EXCEPT ![s] = n] /\ off' = off \ {s}
    /\ UNCHANGED <<asked, left>>

RenameServer ==
    /\ Move("rename")
    /\ \E s \in Existing, n \in Names : name[s] # n /\ name' = [name EXCEPT ![s] = n]
                                      /\ left' = left \cup {s}
    /\ UNCHANGED <<off, asked>>

\* The ID of a deleted server is not used again.
DeleteServer ==
    /\ Move("delete")
    /\ \E s \in Existing : name' = [name EXCEPT ![s] = Gone] /\ left' = left \cup {s}
    /\ UNCHANGED <<off, asked>>

Operations(i) ==
    \/ SanitizeVirtualMachineImport(i) \/ lookupServer(i) \/ ShutdownGuest(i)
    \/ IsPoweredOff(i) \/ ExportVirtualMachine(i) \/ writeRawImageFile(i)
    \/ FetchImage(i) \/ GenerateVirtualMachine(i) \/ Cleanup(i)

Next == (\E i \in Imports : Operations(i))
        \/ StopServer \/ CreateServer \/ RenameServer \/ DeleteServer

Spec == Init /\ [][Next]_vars

-----------------------------------------------------------------------------
(***************************************************************************)
(* Properties                                                              *)
(***************************************************************************)
PCs == {"sanitize", "stop", "stopping", "wait", "export", "download", "import", "build",
        "done", "cleaned", "invalid", "failed"}

TypeOK ==
    /\ name \in [Servers -> Names \cup {NoName, Gone}]
    /\ off \subseteq Servers /\ asked \subseteq Servers
    /\ ref \in [Imports -> Refs] /\ pc \in [Imports -> PCs]
    /\ uuid \in [Imports -> Servers \cup {NoServer}]
    /\ target \in [Imports -> Names \cup {NoName}]
    /\ file \in [Names -> Servers \cup {NoServer}]
    /\ \A r \in {exported, imported, built} : r \in [Imports -> Servers \cup {NoServer}]
    /\ left \subseteq Servers /\ moves \in 0..MaxMoves

\* Although every operation looks the server up again, all of them work on one
\* server: the one that is exported was shut down, and the new VM has the
\* hardware of the server its disk is from.  An import by name can only be led
\* astray when the server gives up its name.
OneServerThroughout == \A i \in Imports :
    /\ exported[i] # NoServer => \/ exported[i] \in off
                                 \/ ref[i].by = "name" /\ left \ {exported[i]} # {}
    /\ built[i] # NoServer => \/ built[i] = exported[i]
                              \/ ref[i].by = "name" /\ exported[i] \in left

\* The image has the data of the server that was exported, if no other import
\* creates a VM of the same name.
OwnDataIfNamesDiffer == \A i \in Imports :
    (\A k \in Imports \ {i} : target[k] # target[i]) =>
        imported[i] \in {NoServer, exported[i]}
=============================================================================
