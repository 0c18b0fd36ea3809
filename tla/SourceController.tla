--------------------------- MODULE SourceController ---------------------------
(***************************************************************************)
(* One source object (VmwareSource, OpenstackSource or OvaSource) and its  *)
(* controller: OnSourceChange of pkg/controllers/migration/vmware.go,      *)
(* openstack.go and ova.go, with NewClient and Verify of the three source  *)
(* clients, over API server, informer cache and work queue; and an import  *)
(* whose preflight check waits for the source.                             *)
(*                                                                         *)
(* The handler works on the object in the informer cache itself, not on a  *)
(* copy: v is that object while held is TRUE, and what the handler writes  *)
(* into it is in the cache whether or not the status update succeeds.      *)
(*                                                                         *)
(* Definitions whose name says what they leave out (ReconcileUnsetOnly,    *)
(* UpdateStatusUnchecked, ...) are variants for the mutation runs.         *)
(***************************************************************************)
EXTENDS Naturals

CONSTANTS
    Kinds,       \* the kinds of source of this instance
    Config,      \* what a source specification may hold: endpoint, datacenter, options
    MaxMoves,    \* how often users and source clusters change something
    FaultKinds,  \* the faults this instance allows
    MaxFaults    \* ... and how many of them

ASSUME KindsAssumption == Kinds \subseteq {"vmware", "openstack", "ova"}
ASSUME SourceBoundsAssumption == MaxMoves \in Nat /\ MaxFaults \in Nat

VARIABLES
    kind,       \* the kind of the source
    hasSecret,  \* the specification refers to a secret
    src,        \* the source in the API server
    cache,      \* the source in the informer cache
    fresh,      \* cache is of the newest resourceVersion of src
    secret,     \* the secret exists
    answer,     \* what the cluster or server a configuration names does
    pc,         \* where the worker stands in OnSourceChange
    v,          \* the object the worker holds
    held,       \* v is the object in the cache
    vfresh,     \* v is of the newest resourceVersion of src
    queued,     \* the key is in the work queue
    import,     \* status of an import that names this source
    unsaved,    \* history: the write of a verdict failed, and the cache was not renewed since
    passed,     \* history: the configurations a check has passed for
    moves,      \* number of changes by users and clusters so far
    faults      \* number of faults so far

object == <<src, cache, fresh, unsaved>>
worker == <<pc, v, held, vfresh>>
fixed  == <<kind, hasSecret>>
world  == <<secret, answer, moves>>
vars   == <<fixed, object, world, worker, queued, import, passed, faults>>

CondType == {"Ready", "Error"}
Conditions == [CondType -> {"unset", "True", "False"}]
Source == [phase : {"live", "deleting", "gone"}, spec : Config,
           status : {"unset", "clusterReady", "clusterNotReady"}, conds : Conditions]

NewSource(c) == [phase |-> "live", spec |-> c, status |-> "unset",
                 conds |-> [t \in CondType |-> "unset"]]

Init ==
    /\ kind \in Kinds
    /\ hasSecret \in IF kind = "ova" THEN BOOLEAN ELSE {TRUE}
    /\ \E c \in Config : src = NewSource(c)
    /\ cache = src /\ fresh = TRUE /\ unsaved = FALSE
    /\ secret \in BOOLEAN
    /\ answer \in [Config -> {"down", "refuses", "serves"}]
    /\ pc = "idle" /\ v = src /\ held = FALSE /\ vfresh = FALSE
    /\ queued = TRUE
    /\ import = "new"
    /\ passed = {} /\ moves = 0 /\ faults = 0

Fault(f) == f \in FaultKinds /\ faults < MaxFaults /\ faults' = faults + 1
NoFault == UNCHANGED faults

-----------------------------------------------------------------------------
(***************************************************************************)
(* The source clients                                                      *)
(***************************************************************************)
\* NewClient talks to the cluster: it logs in and lists networks.
vmwareNewClient(c) == answer[c] # "down"

\* NewClient authenticates and asks for the supported microversions.
openstackNewClient(c) == answer[c] # "down"

\* NewClient only builds an HTTP client.
ovaNewClient(c) == TRUE

\* The datacenter is found.
vmwareVerify(c) == answer[c] = "serves"

\* The servers of the project can be listed.
openstackVerify(c) == answer[c] = "serves"

\* HEAD answers with a status of 200 to 399.
ovaVerify(c) == answer[c] = "serves"

NewClient(c) == CASE kind = "vmware"    -> vmwareNewClient(c)
                  [] kind = "openstack" -> openstackNewClient(c)
                  [] kind = "ova"       -> ovaNewClient(c)
Verify(c) == CASE kind = "vmware"    -> vmwareVerify(c)
               [] kind = "openstack" -> openstackVerify(c)
               [] kind = "ova"       -> ovaVerify(c)

-----------------------------------------------------------------------------
(***************************************************************************)
(* OnSourceChange                                                          *)
(***************************************************************************)
Return(err) ==
    /\ pc' = "idle" /\ held' = FALSE /\ vfresh' = FALSE /\ v' = src
    /\ queued' = IF err THEN TRUE ELSE queued

MergeConditionsFound(conds, new) ==
    [t \in {c \in DOMAIN new : conds[c] # "unset"} |-> new[t]]

\* A new condition replaces the one of its type or is appended.
MergeConditions(conds, new) ==
    [t \in CondType |-> IF t \in DOMAIN new THEN new[t] ELSE conds[t]]

\* Variant: a source that was found not ready is not looked at again.
ReconcileUnsetOnly ==
    /\ pc = "idle" /\ queued
    /\ queued' = FALSE
    /\ IF cache.phase # "live" \/ cache.status # "unset"
       THEN UNCHANGED worker
       ELSE /\ pc' = IF hasSecret THEN "secret" ELSE "verify"
            /\ v' = cache /\ held' = TRUE /\ vfresh' = fresh
    /\ UNCHANGED <<fixed, object, world, import, passed, faults>>

\* The handler does nothing for a source that is ready or being deleted.
Reconcile ==
    /\ pc = "idle" /\ queued
    /\ queued' = FALSE
    /\ IF cache.phase # "live" \/ cache.status = "clusterReady"
       THEN UNCHANGED worker
       ELSE /\ pc' = IF hasSecret THEN "secret" ELSE "verify"
            /\ v' = cache /\ held' = TRUE /\ vfresh' = fresh
    /\ UNCHANGED <<fixed, object, world, import, passed, faults>>

LookupSecret ==
    /\ pc = "secret"
    /\ \/ secret /\ NoFault /\ pc' = "verify" /\ UNCHANGED <<v, held, vfresh, queued>>
       \/ ~secret /\ NoFault /\ Return(TRUE)
       \/ Fault("api") /\ Return(TRUE)
    /\ UNCHANGED <<fixed, object, world, import, passed>>

\* Status and conditions are written into the object the worker holds.
Judge(ok) ==
    LET conds == IF ok THEN [Ready |-> "True", Error |-> "False"]
                       ELSE [Error |-> "True", Ready |-> "False"]
        judged == [v EXCEPT !.status = IF ok THEN "clusterReady" ELSE "clusterNotReady",
                            !.conds = MergeConditions(@, conds)]
    IN /\ v' = judged
       /\ cache' = IF held THEN judged ELSE cache
       /\ passed' = IF ok THEN passed \cup {v.spec} ELSE passed
       /\ pc' = "update"
       /\ UNCHANGED <<held, vfresh, queued, src, fresh, unsaved>>

\* Variant: ready as soon as a client could be made.
CheckClientOnly ==
    /\ pc = "verify"
    /\ \/ ~NewClient(v.spec) /\ Return(TRUE) /\ UNCHANGED <<object, passed>>
       \/ /\ NewClient(v.spec)
          /\ v' = [v EXCEPT !.status = "clusterReady"] /\ pc' = "update"
          /\ UNCHANGED <<object, passed, held, vfresh, queued>>
    /\ UNCHANGED <<fixed, world, import, faults>>

Check ==
    /\ pc = "verify"
    /\ \/ ~NewClient(v.spec) /\ Return(TRUE) /\ UNCHANGED <<object, passed>>
       \/ NewClient(v.spec) /\ Judge(Verify(v.spec))
    /\ UNCHANGED <<fixed, world, import, faults>>

\* Nothing is sent to the watchers when the write changes nothing: the time
\* stamps of the conditions have a resolution of a second, so the verdict of
\* the same second is the same object.
Write ==
    /\ src' = [src EXCEPT !.status = v.status, !.conds = v.conds]
    /\ UNCHANGED <<cache, unsaved>>
    /\ \/ fresh' = FALSE
       \/ src' = src /\ fresh' = fresh

UpdateStatusWhenReady ==
    /\ pc = "update"
    /\ IF v.status = "clusterReady" THEN vfresh /\ Write ELSE UNCHANGED object
    /\ Return(~vfresh) /\ NoFault
    /\ UNCHANGED <<fixed, world, import, passed>>

UpdateStatusUnchecked ==
    /\ pc = "update"
    /\ IF src.phase = "gone" THEN Return(TRUE) /\ UNCHANGED object
       ELSE Write /\ Return(FALSE)
    /\ NoFault
    /\ UNCHANGED <<fixed, world, import, passed>>

\* UpdateStatus: refused when v is not of the newest resourceVersion, and it
\* may fail or be carried out without an answer.
UpdateStatus ==
    /\ pc = "update"
    /\ \/ vfresh /\ Write /\ Return(FALSE) /\ NoFault
       \/ vfresh /\ Write /\ Return(TRUE) /\ Fault("lost")
       \/ ~vfresh /\ Return(TRUE) /\ NoFault /\ UNCHANGED object
       \/ /\ vfresh /\ Return(TRUE) /\ Fault("api")
          /\ unsaved' = TRUE /\ UNCHANGED <<src, cache, fresh>>
    /\ UNCHANGED <<fixed, world, import, passed>>

OnSourceChange == Reconcile \/ LookupSecret \/ Check \/ UpdateStatus

\* The handlers of the three kinds differ in the client they make, and in
\* that an OVA source needs no secret.
vmwareOnSourceChange    == kind = "vmware" /\ OnSourceChange
openstackOnSourceChange == kind = "openstack" /\ OnSourceChange
ovaOnSourceChange       == kind = "ova" /\ OnSourceChange

-----------------------------------------------------------------------------
(***************************************************************************)
(* What happens around the handler                                         *)
(***************************************************************************)
\* The watch replaces the object in the cache; the worker keeps the old one.
Watch ==
    /\ ~fresh
    /\ cache' = src /\ fresh' = TRUE /\ held' = FALSE /\ queued' = TRUE /\ unsaved' = FALSE
    /\ UNCHANGED <<fixed, src, world, pc, v, vfresh, import, passed, faults>>

\* The informer enqueues what is in the cache from time to time.
Resync ==
    /\ ~queued /\ queued' = TRUE
    /\ UNCHANGED <<fixed, object, world, worker, import, passed, faults>>

\* The process stops and starts again with a new cache.
Restart ==
    /\ Fault("crash")
    /\ pc' = "idle" /\ v' = src /\ held' = FALSE /\ vfresh' = FALSE
    /\ cache' = src /\ fresh' = TRUE /\ queued' = TRUE /\ unsaved' = FALSE
    /\ UNCHANGED <<fixed, src, world, import, passed>>

\* preFlightChecks of an import gets its source from the API server, waits
\* while it is not ready, and gives up on any other error.
preFlightChecks ==
    /\ import = "new"
    /\ \/ src.phase # "gone" /\ src.status = "clusterReady" /\ import' = "valid" /\ NoFault
       \/ src.phase = "gone" /\ import' = "invalid" /\ NoFault
       \/ Fault("api") /\ import' = "invalid"
    /\ UNCHANGED <<fixed, object, world, worker, queued, passed>>

Moved == moves < MaxMoves /\ moves' = moves + 1
Changed(obj) ==
    /\ src.phase # "gone" /\ obj # src
    /\ src' = obj /\ fresh' = FALSE /\ vfresh' = FALSE
    /\ Moved
    /\ UNCHANGED <<fixed, cache, unsaved, secret, answer, pc, v, held, queued, import, passed, faults>>

\* A user edits the specification or deletes the source.
Edit == \E c \in Config : Changed([src EXCEPT !.spec = c])
Delete == \E p \in {"deleting", "gone"} : Changed([src EXCEPT !.phase = p])

\* The cluster starts or stops to answer; the secret is created or deleted.
Cluster ==
    /\ Moved
    /\ \/ secret' = ~secret /\ UNCHANGED answer
       \/ /\ \E c \in Config, a \in {"down", "refuses", "serves"} :
                answer' = [answer EXCEPT ![c] = a]
          /\ UNCHANGED secret
    /\ UNCHANGED <<fixed, object, worker, queued, import, passed, faults>>

Handlers == vmwareOnSourceChange \/ openstackOnSourceChange \/ ovaOnSourceChange

Next == Handlers \/ Watch \/ Resync \/ Restart \/ preFlightChecks
        \/ Edit \/ Delete \/ Cluster

Spec == Init /\ [][Next]_vars

(***************************************************************************)
(* The workers run, rate limited but always again; the watch delivers; the *)
(* informer resyncs; a waiting import looks again every five seconds.      *)
(* Nothing is assumed of users, clusters and faults.                       *)
(***************************************************************************)
FairSpec ==
    /\ Spec
    /\ WF_vars(Handlers) /\ WF_vars(Watch) /\ WF_vars(Resync) /\ WF_vars(preFlightChecks)

-----------------------------------------------------------------------------
(***************************************************************************)
(* Properties                                                              *)
(***************************************************************************)
TypeOK ==
    /\ kind \in Kinds /\ hasSecret \in BOOLEAN
    /\ src \in Source /\ cache \in Source /\ v \in Source
    /\ fresh \in BOOLEAN /\ unsaved \in BOOLEAN /\ held \in BOOLEAN /\ vfresh \in BOOLEAN
    /\ secret \in BOOLEAN /\ queued \in BOOLEAN
    /\ answer \in [Config -> {"down", "refuses", "serves"}]
    /\ pc \in {"idle", "secret", "verify", "update"}
    /\ import \in {"new", "valid", "invalid"}
    /\ passed \subseteq Config
    /\ moves \in 0..MaxMoves /\ faults \in 0..MaxFaults

\* A source becomes ready only when the check has passed for the specification
\* it has at that moment, although the handler works on an object that may be
\* old and although users edit the source while the check is on its way.
ReadyOnlyWhenChecked ==
    [][src.status # "clusterReady" /\ src'.status = "clusterReady" => src.spec \in passed]_vars

\* What imports rely on is not taken back: no late verdict of an older check
\* replaces clusterReady.
ReadyStays == [][src.status = "clusterReady" => src'.status = "clusterReady"]_vars

\* The object in the cache differs from the one of the same resourceVersion in
\* the API server only while the handler that wrote into it is at work, or
\* after a status update that failed.
CacheAgrees == pc = "idle" /\ fresh /\ ~unsaved => cache = src

Answering == /\ src.phase = "live" /\ answer[src.spec] = "serves"
             /\ (hasSecret => secret)

\* A source whose cluster answers is taken into use by the import that waits
\* for it, whatever the order in which secret, cluster and source get ready: only
\* a status update that failed (see CheckedSourceIsMarkedReady) can prevent it.
AnsweringSourceIsUsed == Answering ~> (import # "new" \/ ~Answering \/ unsaved)

\* "Once this check is passed, the source is marked ready, and can be used for
\* vm migrations" (README.md).
CheckedSourceIsMarkedReady ==
    (src.spec \in passed /\ Answering) ~> (src.status = "clusterReady" \/ ~Answering)
-----------------------------------------------------------------------------
(***************************************************************************)
(* What the properties rest on                                             *)
(***************************************************************************)
\* A source that is ready is not looked at again, so an object of the newest
\* resourceVersion in the worker's hands is of one that is not ready.
NoVerdictOnReady ==
    /\ (fresh /\ src.status = "clusterReady") => cache.status = "clusterReady"
    /\ vfresh => src.status # "clusterReady"

\* The newest resourceVersion has the specification of the source, and the
\* worker shares only the newest object with the cache.
NewestIsCurrent ==
    /\ (held /\ fresh) => vfresh
    /\ fresh => (cache.spec = src.spec /\ cache.phase = src.phase)
    /\ vfresh => (v.spec = src.spec /\ v.phase = src.phase)

\* The verdict the worker is about to write is of a check that has passed.
VerdictPassed == (pc = "update" /\ v.status = "clusterReady") => v.spec \in passed

SourceInvariant == TypeOK /\ NoVerdictOnReady /\ NewestIsCurrent /\ VerdictPassed

\* What the handler wrote into the cache is there until it is written into the
\* API server too, or the worker has lost the object to the watch.
CacheInvariant == fresh /\ ~unsaved => \/ cache = src
                                       \/ pc = "update" /\ held /\ cache = v
=============================================================================
