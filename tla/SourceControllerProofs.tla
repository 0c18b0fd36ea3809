------------------------ MODULE SourceControllerProofs ------------------------
(***************************************************************************)
(* Safety theorems of SourceController for every set of configurations and *)
(* every number of changes, faults and restarts.                           *)
(***************************************************************************)
EXTENDS SourceController, TLAPS

USE KindsAssumption, SourceBoundsAssumption

Statuses == {"unset", "clusterReady", "clusterNotReady"}

-----------------------------------------------------------------------------
(***************************************************************************)
(* What the helpers return                                                 *)
(***************************************************************************)
\* What the status of a source may hold.
LEMMA FieldTypes ==
    ASSUME NEW o \in Source
    PROVE  o.status \in Statuses /\ o.conds \in Conditions /\ o.spec \in Config
BY DEF Source, Statuses

\* Both verdicts are conditions, and merging keeps conditions what they are.
LEMMA MergeType ==
    ASSUME NEW cs \in Conditions, NEW new \in [{"Ready", "Error"} -> {"True", "False"}]
    PROVE  MergeConditions(cs, new) \in Conditions
BY DEF MergeConditions, Conditions, CondType

LEMMA FaultType ==
    ASSUME faults \in 0..MaxFaults, NoFault \/ \E f \in {"api", "lost", "crash"} : Fault(f)
    PROVE  faults' \in 0..MaxFaults
BY DEF NoFault, Fault

LEMMA MoveType == ASSUME moves \in 0..MaxMoves, Moved PROVE moves' \in 0..MaxMoves
BY DEF Moved

LEMMA NewSourceType == \A c \in Config : NewSource(c) \in Source /\ NewSource(c).status = "unset"
BY DEF NewSource, Source, Conditions

-----------------------------------------------------------------------------
(***************************************************************************)
(* The actions keep the invariant                                          *)
(***************************************************************************)
LEMMA InitInvariant == Init => SourceInvariant
<1> SUFFICES ASSUME Init PROVE SourceInvariant
  OBVIOUS
<1>1. PICK c \in Config : src = NewSource(c)
  BY DEF Init
<1>2. src \in Source /\ src.status = "unset" /\ cache = src /\ v = src
  BY <1>1, NewSourceType DEF Init
<1>3. TypeOK
  <2>1. hasSecret \in BOOLEAN /\ secret \in BOOLEAN
    BY DEF Init
  <2>2. moves \in 0..MaxMoves /\ faults \in 0..MaxFaults
    BY DEF Init
  <2> QED  BY <1>2, <2>1, <2>2 DEF Init, TypeOK
<1>4. NoVerdictOnReady /\ NewestIsCurrent /\ VerdictPassed
  BY <1>2 DEF Init, NoVerdictOnReady, NewestIsCurrent, VerdictPassed
<1> QED  BY <1>3, <1>4 DEF SourceInvariant

LEMMA ReconcileKeeps == SourceInvariant /\ Reconcile => SourceInvariant'
<1> SUFFICES ASSUME SourceInvariant, Reconcile PROVE SourceInvariant'
  OBVIOUS
<1> USE DEF SourceInvariant, Reconcile, fixed, object, world, worker
<1>1. TypeOK'
  BY DEF TypeOK
<1>2. NoVerdictOnReady' /\ NewestIsCurrent'
  BY DEF TypeOK, NoVerdictOnReady, NewestIsCurrent
<1>3. VerdictPassed'
  BY DEF VerdictPassed
<1> QED  BY <1>1, <1>2, <1>3

LEMMA LookupSecretKeeps == SourceInvariant /\ LookupSecret => SourceInvariant'
<1> SUFFICES ASSUME SourceInvariant, LookupSecret PROVE SourceInvariant'
  OBVIOUS
<1>1. faults' \in 0..MaxFaults
  BY FaultType DEF LookupSecret, SourceInvariant, TypeOK
<1>2. /\ UNCHANGED <<fixed, object, world, import, passed>>
      /\ \/ pc' = "verify" /\ UNCHANGED <<v, held, vfresh, queued>>
         \/ Return(TRUE)
  BY DEF LookupSecret
<1> USE <1>1, <1>2 DEF SourceInvariant, fixed, object, world
<1>3. CASE pc' = "verify" /\ UNCHANGED <<v, held, vfresh, queued>>
  BY <1>3 DEF TypeOK, NoVerdictOnReady, NewestIsCurrent, VerdictPassed
<1>4. CASE Return(TRUE)
  BY <1>4 DEF TypeOK, NoVerdictOnReady, NewestIsCurrent, VerdictPassed, Return
<1> QED  BY <1>3, <1>4

\* The verdict goes into the object, and into the cache if that is the same one.
LEMMA JudgeFacts ==
    ASSUME SourceInvariant, NEW ok \in BOOLEAN, Judge(ok)
    PROVE  /\ v' \in Source /\ v'.spec = v.spec /\ v'.phase = v.phase
           /\ v'.status = "clusterReady" => v.spec \in passed'
           /\ cache' = IF held THEN v' ELSE cache
           /\ passed' \subseteq Config
           /\ pc' = "update" /\ UNCHANGED <<held, vfresh, queued, src, fresh, unsaved>>
<1> DEFINE conds == IF ok THEN [Ready |-> "True", Error |-> "False"]
                          ELSE [Error |-> "True", Ready |-> "False"]
           st == IF ok THEN "clusterReady" ELSE "clusterNotReady"
           merged == MergeConditions(v.conds, conds)
<1>1. v \in Source /\ passed \subseteq Config
  BY DEF SourceInvariant, TypeOK
<1>2. conds \in [{"Ready", "Error"} -> {"True", "False"}]
  OBVIOUS
<1>3. merged \in Conditions /\ st \in Statuses
  BY <1>1, <1>2, FieldTypes, MergeType DEF Statuses
<1>4. v' = [v EXCEPT !.status = st, !.conds = merged]
  BY DEF Judge
<1>5. v' \in Source /\ v'.status = st /\ v'.spec = v.spec /\ v'.phase = v.phase
  <2> HIDE DEF merged, st
  <2> QED  BY <1>1, <1>3, <1>4 DEF Source, Statuses
<1>6. passed' = IF ok THEN passed \cup {v.spec} ELSE passed
  BY DEF Judge
<1>7. passed' \subseteq Config /\ (v'.status = "clusterReady" => v.spec \in passed')
  BY <1>1, <1>5, <1>6, FieldTypes
<1>8. /\ cache' = IF held THEN v' ELSE cache
      /\ pc' = "update" /\ UNCHANGED <<held, vfresh, queued, src, fresh, unsaved>>
  BY DEF Judge
<1> QED  BY <1>5, <1>7, <1>8

LEMMA CheckKeeps == SourceInvariant /\ Check => SourceInvariant'
<1> SUFFICES ASSUME SourceInvariant, Check PROVE SourceInvariant'
  OBVIOUS
<1>1. CASE Return(TRUE) /\ UNCHANGED <<object, passed>>
  <2> USE <1>1 DEF SourceInvariant, Check, fixed, object, world, Return
  <2>1. TypeOK'
    BY DEF TypeOK
  <2>2. NoVerdictOnReady' /\ NewestIsCurrent' /\ VerdictPassed'
    BY DEF TypeOK, NoVerdictOnReady, NewestIsCurrent, VerdictPassed
  <2> QED  BY <2>1, <2>2
<1>2. ASSUME NEW ok \in BOOLEAN, Judge(ok) PROVE SourceInvariant'
  <2>1. /\ v' \in Source /\ v'.spec = v.spec /\ v'.phase = v.phase
        /\ v'.status = "clusterReady" => v.spec \in passed'
        /\ cache' = IF held THEN v' ELSE cache
        /\ passed' \subseteq Config
        /\ pc' = "update" /\ UNCHANGED <<held, vfresh, queued, src, fresh, unsaved>>
    BY <1>2, JudgeFacts
  <2>2. TypeOK'
    BY <2>1 DEF SourceInvariant, TypeOK, Check, fixed, world
  <2>3. NoVerdictOnReady' /\ NewestIsCurrent' /\ VerdictPassed'
    BY <2>1 DEF SourceInvariant, TypeOK, NoVerdictOnReady, NewestIsCurrent, VerdictPassed
  <2> QED  BY <2>2, <2>3 DEF SourceInvariant
<1>3. Verify(v.spec) \in BOOLEAN
  BY DEF SourceInvariant, TypeOK, Verify, vmwareVerify, openstackVerify, ovaVerify
<1> QED  BY <1>1, <1>2, <1>3 DEF Check

\* What is written is the status of the worker's object; the rest stays.
LEMMA WriteFacts ==
    ASSUME SourceInvariant, Write
    PROVE  /\ src' \in Source /\ src'.status = v.status
           /\ src'.spec = src.spec /\ src'.phase = src.phase
           /\ cache' = cache /\ unsaved' = unsaved /\ fresh' \in BOOLEAN
           /\ fresh' => (fresh /\ src' = src)
<1>1. src \in Source /\ v \in Source /\ fresh \in BOOLEAN
  BY DEF SourceInvariant, TypeOK
<1>2. src' = [src EXCEPT !.status = v.status, !.conds = v.conds]
  BY DEF Write
<1>3. v.status \in Statuses /\ v.conds \in Conditions
  BY <1>1, FieldTypes
<1>4. /\ src' \in Source /\ src'.status = v.status
      /\ src'.spec = src.spec /\ src'.phase = src.phase
  BY <1>1, <1>2, <1>3 DEF Source, Statuses
<1>5. /\ cache' = cache /\ unsaved' = unsaved
      /\ fresh' = FALSE \/ (src' = src /\ fresh' = fresh)
  BY DEF Write
<1>6. fresh' \in BOOLEAN
  BY <1>1, <1>5
<1>7. fresh' => (fresh /\ src' = src)
  BY <1>5
<1> QED  BY <1>4, <1>5, <1>6, <1>7

LEMMA UpdateStatusKeeps == SourceInvariant /\ UpdateStatus => SourceInvariant'
<1> SUFFICES ASSUME SourceInvariant, UpdateStatus PROVE SourceInvariant'
  OBVIOUS
<1>1. PICK err \in BOOLEAN : Return(err)
  BY DEF UpdateStatus
<1>2. pc' = "idle" /\ held' = FALSE /\ vfresh' = FALSE /\ v' = src'
      => VerdictPassed'
  BY DEF VerdictPassed
<1>3. /\ src' \in Source /\ src'.spec = src.spec /\ src'.phase = src.phase
      /\ cache' = cache /\ unsaved' \in BOOLEAN /\ fresh' \in BOOLEAN
      /\ fresh' => (fresh /\ src' = src)
  <2>1. CASE Write
    BY <2>1, WriteFacts DEF SourceInvariant, TypeOK
  <2>2. CASE UNCHANGED object
    BY <2>2 DEF SourceInvariant, TypeOK, object
  <2>3. CASE unsaved' = TRUE /\ UNCHANGED <<src, cache, fresh>>
    BY <2>3 DEF SourceInvariant, TypeOK
  <2> QED  BY <2>1, <2>2, <2>3 DEF UpdateStatus
<1>4. faults' \in 0..MaxFaults
  BY FaultType DEF UpdateStatus, SourceInvariant, TypeOK
<1>5. TypeOK'
  BY <1>1, <1>3, <1>4 DEF SourceInvariant, TypeOK, UpdateStatus, Return, fixed, world
<1>6. NoVerdictOnReady' /\ NewestIsCurrent' /\ VerdictPassed'
  BY <1>1, <1>3 DEF SourceInvariant, TypeOK, NoVerdictOnReady, NewestIsCurrent, VerdictPassed, Return
<1> QED  BY <1>5, <1>6 DEF SourceInvariant

LEMMA AroundKeeps ==
    SourceInvariant /\ (Watch \/ Resync \/ Restart \/ preFlightChecks \/ Cluster) => SourceInvariant'
<1> SUFFICES ASSUME SourceInvariant, Watch \/ Resync \/ Restart \/ preFlightChecks \/ Cluster
             PROVE  SourceInvariant'
  OBVIOUS
<1> USE DEF SourceInvariant, fixed, object, world, worker
<1>1. TypeOK'
  <2>1. CASE Watch
    BY <2>1 DEF TypeOK, Watch
  <2>2. CASE Resync
    BY <2>2 DEF TypeOK, Resync
  <2>3. CASE Restart
    BY <2>3, FaultType DEF TypeOK, Restart
  <2>4. CASE preFlightChecks
    BY <2>4, FaultType DEF TypeOK, preFlightChecks
  <2>5. CASE Cluster
    <3>1. moves' \in 0..MaxMoves
      BY <2>5, MoveType DEF TypeOK, Cluster
    <3>2. secret' \in BOOLEAN /\ answer' \in [Config -> {"down", "refuses", "serves"}]
      BY <2>5 DEF TypeOK, Cluster
    <3> QED  BY <2>5, <3>1, <3>2 DEF TypeOK, Cluster
  <2> QED  BY <2>1, <2>2, <2>3, <2>4, <2>5
<1>2. NoVerdictOnReady' /\ NewestIsCurrent' /\ VerdictPassed'
  BY DEF TypeOK, NoVerdictOnReady, NewestIsCurrent, VerdictPassed,
         Watch, Resync, Restart, preFlightChecks, Cluster
<1> QED  BY <1>1, <1>2

\* Users change the specification or the phase, never the status.
LEMMA UserFacts ==
    ASSUME TypeOK, Edit \/ Delete
    PROVE  /\ src' \in Source /\ src'.status = src.status
           /\ fresh' = FALSE /\ vfresh' = FALSE
           /\ moves' \in 0..MaxMoves
           /\ UNCHANGED <<fixed, cache, unsaved, secret, answer, pc, v, held, queued, import, passed, faults>>
<1>1. \A c \in Config : [src EXCEPT !.spec = c] \in Source /\ [src EXCEPT !.spec = c].status = src.status
  BY DEF TypeOK, Source
<1>2. \A p \in {"deleting", "gone"} :
        [src EXCEPT !.phase = p] \in Source /\ [src EXCEPT !.phase = p].status = src.status
  BY DEF TypeOK, Source
<1>3. PICK obj : Changed(obj) /\ obj \in Source /\ obj.status = src.status
  <2>1. CASE Edit
    <3>1. PICK c \in Config : Changed([src EXCEPT !.spec = c])
      BY <2>1 DEF Edit
    <3> DEFINE obj == [src EXCEPT !.spec = c]
    <3>2. Changed(obj) /\ obj \in Source /\ obj.status = src.status
      BY <1>1, <3>1
    <3> HIDE DEF obj
    <3> QED  BY <3>2
  <2>2. CASE Delete
    <3>1. PICK p \in {"deleting", "gone"} : Changed([src EXCEPT !.phase = p])
      BY <2>2 DEF Delete
    <3> DEFINE obj == [src EXCEPT !.phase = p]
    <3>2. Changed(obj) /\ obj \in Source /\ obj.status = src.status
      BY <1>2, <3>1
    <3> HIDE DEF obj
    <3> QED  BY <3>2
  <2> QED  BY <2>1, <2>2
<1> QED  BY <1>3 DEF Changed, Moved, TypeOK

LEMMA UserKeeps == SourceInvariant /\ (Edit \/ Delete) => SourceInvariant'
<1> SUFFICES ASSUME SourceInvariant, Edit \/ Delete PROVE SourceInvariant'
  OBVIOUS
<1>1. /\ src' \in Source /\ src'.status = src.status
      /\ fresh' = FALSE /\ vfresh' = FALSE
      /\ moves' \in 0..MaxMoves
      /\ UNCHANGED <<fixed, cache, unsaved, secret, answer, pc, v, held, queued, import, passed, faults>>
  BY UserFacts DEF SourceInvariant
<1>2. TypeOK'
  BY <1>1 DEF SourceInvariant, TypeOK, fixed
<1>3. NoVerdictOnReady' /\ NewestIsCurrent' /\ VerdictPassed'
  BY <1>1 DEF SourceInvariant, NoVerdictOnReady, NewestIsCurrent, VerdictPassed
<1> QED  BY <1>2, <1>3 DEF SourceInvariant

LEMMA Stutters == SourceInvariant /\ UNCHANGED vars => SourceInvariant'
BY DEF SourceInvariant, TypeOK, NoVerdictOnReady, NewestIsCurrent, VerdictPassed,
       vars, fixed, object, world, worker

\* Every step is one of the handler's, of its surroundings or of a user.
LEMMA StepKinds ==
    Next => \/ Reconcile \/ LookupSecret \/ Check \/ UpdateStatus
            \/ Watch \/ Resync \/ Restart \/ preFlightChecks \/ Cluster
            \/ Edit \/ Delete
BY DEF Next, Handlers, vmwareOnSourceChange, openstackOnSourceChange, ovaOnSourceChange,
       OnSourceChange

LEMMA SourceStep == SourceInvariant /\ [Next]_vars => SourceInvariant'
BY StepKinds, ReconcileKeeps, LookupSecretKeeps, CheckKeeps, UpdateStatusKeeps, AroundKeeps,
   UserKeeps, Stutters

LEMMA SourceInductive == Spec => []SourceInvariant
<1> QED  BY InitInvariant, SourceStep, PTL DEF Spec

-----------------------------------------------------------------------------
(***************************************************************************)
(* The theorems                                                            *)
(***************************************************************************)
\* The variables of the source controller keep their types.
THEOREM SourceTypeCorrect == Spec => []TypeOK
<1>1. SourceInvariant => TypeOK
  BY DEF SourceInvariant
<1> QED  BY <1>1, SourceInductive, PTL

\* Only the write of the handler changes the status, and it is of the newest
\* resourceVersion.
LEMMA StatusSteps ==
    ASSUME SourceInvariant, Next, src'.status # src.status
    PROVE  UpdateStatus /\ vfresh /\ Write
<1>1. ~(Reconcile \/ LookupSecret \/ Check \/ Watch \/ Resync \/ Restart \/ preFlightChecks \/ Cluster)
  BY DEF Reconcile, LookupSecret, Check, Judge, Watch, Resync, Restart, preFlightChecks, Cluster, object
<1>2. ~(Edit \/ Delete)
  BY UserFacts DEF SourceInvariant
<1>3. UpdateStatus
  BY <1>1, <1>2, StepKinds
<1> QED  BY <1>3 DEF UpdateStatus, object

\* A source becomes ready only by a verdict on the specification it has.
THEOREM ReadyIsChecked == Spec => ReadyOnlyWhenChecked
<1>1. ASSUME SourceInvariant, [Next]_vars
      PROVE  src.status # "clusterReady" /\ src'.status = "clusterReady" => src.spec \in passed
  <2> SUFFICES ASSUME src.status # "clusterReady", src'.status = "clusterReady"
               PROVE  src.spec \in passed
    OBVIOUS
  <2>1. Next
    BY <1>1 DEF vars, object
  <2>2. UpdateStatus /\ vfresh /\ Write
    BY <1>1, <2>1, StatusSteps
  <2>3. v.status = "clusterReady"
    BY <1>1, <2>2, WriteFacts
  <2> QED  BY <1>1, <2>2, <2>3 DEF SourceInvariant, NewestIsCurrent, VerdictPassed, UpdateStatus
<1> QED  BY <1>1, SourceInductive, PTL DEF Spec, ReadyOnlyWhenChecked

\* No step takes clusterReady back.
THEOREM ReadySourceStays == Spec => ReadyStays
<1>1. ASSUME SourceInvariant, [Next]_vars
      PROVE  src.status = "clusterReady" => src'.status = "clusterReady"
  <2> SUFFICES ASSUME src.status = "clusterReady", src'.status # "clusterReady" PROVE FALSE
    OBVIOUS
  <2>1. Next
    BY <1>1 DEF vars, object
  <2>2. vfresh
    BY <1>1, <2>1, StatusSteps
  <2> QED  BY <1>1, <2>2 DEF SourceInvariant, NoVerdictOnReady
<1> QED  BY <1>1, SourceInductive, PTL DEF Spec, ReadyStays

-----------------------------------------------------------------------------
(***************************************************************************)
(* The cache, unless the write of a verdict has failed                     *)
(***************************************************************************)
\* The newest object the worker shares with the cache is the source but for
\* what the verdict writes; writing that too makes them equal.
LEMMA CacheInit == Init => CacheInvariant
BY DEF Init, CacheInvariant

LEMMA CacheHandler ==
    ASSUME SourceInvariant, CacheInvariant,
           Reconcile \/ LookupSecret \/ Check \/ UpdateStatus
    PROVE  CacheInvariant'
<1>1. CASE Reconcile
  BY <1>1 DEF CacheInvariant, Reconcile, object, worker
<1>2. CASE LookupSecret
  BY <1>2 DEF CacheInvariant, LookupSecret, object
<1>3. CASE Check
  <2>1. CASE UNCHANGED <<object, passed>>
    BY <1>3, <2>1 DEF CacheInvariant, Check, object
  <2>2. ASSUME NEW ok \in BOOLEAN, Judge(ok) PROVE CacheInvariant'
    <3>1. /\ cache' = IF held THEN v' ELSE cache
          /\ pc' = "update" /\ UNCHANGED <<held, src, fresh, unsaved>>
      BY <2>2, JudgeFacts
    <3> QED  BY <1>3, <3>1 DEF CacheInvariant, Check
  <2>3. Verify(v.spec) \in BOOLEAN
    BY DEF SourceInvariant, TypeOK, Verify, vmwareVerify, openstackVerify, ovaVerify
  <2> QED  BY <1>3, <2>1, <2>2, <2>3 DEF Check
<1>4. CASE UpdateStatus
  <2>1. CASE vfresh /\ Write
    <3> SUFFICES ASSUME fresh', ~unsaved' PROVE cache' = src'
      BY DEF CacheInvariant
    <3>1. fresh /\ ~unsaved /\ src' = src /\ cache' = cache /\ src.status = v.status
      BY <2>1, WriteFacts
    <3>2. src.conds = v.conds
      <4>1. src' = [src EXCEPT !.status = v.status, !.conds = v.conds]
        BY <2>1 DEF Write
      <4> QED  BY <3>1, <4>1 DEF SourceInvariant, TypeOK, Source
    <3>3. src.spec = v.spec /\ src.phase = v.phase
      BY <2>1 DEF SourceInvariant, NewestIsCurrent
    <3>4. v = src
      BY <3>1, <3>2, <3>3 DEF SourceInvariant, TypeOK, Source
    <3> QED  BY <3>1, <3>4 DEF CacheInvariant
  <2>2. CASE ~vfresh /\ UNCHANGED object
    BY <2>2 DEF CacheInvariant, SourceInvariant, NewestIsCurrent, object
  <2>3. CASE unsaved' = TRUE
    BY <2>3 DEF CacheInvariant
  <2> QED  BY <1>4, <2>1, <2>2, <2>3 DEF UpdateStatus
<1> QED  BY <1>1, <1>2, <1>3, <1>4

LEMMA CacheAround ==
    ASSUME SourceInvariant, CacheInvariant,
           Watch \/ Resync \/ Restart \/ preFlightChecks \/ Cluster \/ Edit \/ Delete
    PROVE  CacheInvariant'
<1>1. CASE Edit \/ Delete
  BY <1>1, UserFacts DEF SourceInvariant, CacheInvariant
<1>2. CASE Watch \/ Resync \/ Restart \/ preFlightChecks \/ Cluster
  BY <1>2 DEF CacheInvariant, Watch, Resync, Restart, preFlightChecks, Cluster, object, worker
<1> QED  BY <1>1, <1>2

\* Unless the status update has failed, what the handler wrote into the object of
\* the cache is also in the API server when the handler returns.
THEOREM CacheAgreesUnlessRequestFails == Spec => []CacheAgrees
<1>1. ASSUME SourceInvariant, CacheInvariant, [Next]_vars PROVE CacheInvariant'
  <2>1. CASE UNCHANGED vars
    BY <1>1, <2>1 DEF CacheInvariant, vars, object, worker
  <2>2. CASE Next
    BY <1>1, <2>2, StepKinds, CacheHandler, CacheAround
  <2> QED  BY <1>1, <2>1, <2>2
<1>2. CacheInvariant => CacheAgrees
  BY DEF CacheInvariant, CacheAgrees
<1> QED  BY <1>1, <1>2, CacheInit, SourceInductive, PTL DEF Spec
=============================================================================
