------------------------- MODULE ReleaseStatusProofs -------------------------
(***************************************************************************)
(* What the status of a Release remembers of the revision that is deployed: *)
(* proofs that the Release controller judges by the truth, although it     *)
(* compares patches and digest with the status and not with Helm.          *)
(***************************************************************************)
EXTENDS ReleaseLifeProofs

(* What the status remembers of a revision: the patches, and the digest if  *)
(* specs name one.                                                          *)
Digestless == \A s \in Specs : s.chart.digest = ""

Tells(status, rev) ==
    /\ status.sha = rev.cfg.patch
    /\ status.digest \in {"", rev.cfg.chart.digest}
    /\ status.digest = "" <=> Digestless

(* An object that asks for what was deployed does as well. *)
AskedFor(spec, rev) ==
    rev.cfg.patch = spec.patch /\ spec.chart.digest \in {"", rev.cfg.chart.digest}

Serves(o, rev) == Tells(o.status, rev) \/ AskedFor(o.spec, rev)

Blank(status) == status.sha = NoPatch /\ status.digest = ""

SameMemory(s, t) == s.sha = t.sha /\ s.digest = t.digest

SameDemand(s, t) == s.patch = t.patch /\ s.chart.digest = t.chart.digest

Known(o) == o.spec.chart.digest = "" <=> Digestless

DeployedNow == hist # <<>> /\ Last(hist).status = "deployed"

(* Of the operation that runs: it deploys what the worker's spec asks for,  *)
(* and with no rollback limit it is an install, an upgrade or a deletion.   *)
OperationInv ==
    /\ pc = "missing" => ~mem.deleted
    /\ pc \in {"installing", "upgrading"} => AskedFor(mem.spec, Last(hist))
    /\ pc # "rollingback" /\ (pc = "uninstalling" => cr.deleted)
    /\ pc = "update" /\ mem.spec.vals # FromSource =>
          ~isUpToDate(mem.spec, Last(hist), mem.status, source)

(* Where the memory is: in the stored status, except between a deployment   *)
(* that succeeded and the write that stores it.                             *)
MemoryInv ==
    /\ Known(cr) /\ Known(cache) /\ Known(mem)
    /\ DeployedNow /\ pc \notin {"created", "publish"} => Tells(cr.status, Last(hist))
    /\ DeployedNow /\ pc \in {"created", "publish"} /\ memFresh => Tells(mem.status, Last(hist))
    /\ pc \in {"create", "installing", "created"} => Blank(cr.status)
    /\ hist = <<>> /\ ~cr.deleted => Blank(cr.status) /\ (memFresh => Blank(mem.status))
    /\ memFresh /\ pc \notin {"created", "publish"} => SameMemory(mem.status, cr.status)
    /\ DeployedNow /\ (pc \in {"created", "publish"} => memFresh) =>
          Serves(cr, Last(hist)) /\ Serves(cache, Last(hist))
    /\ DeployedNow /\ pc = "connected" => Serves(mem, Last(hist))
    /\ memFresh => SameDemand(cache.spec, mem.spec)

StatusInv == Remembered => OperationInv /\ MemoryInv
-----------------------------------------------------------------------------
(* The operators on statuses and specs. *)
LEMMA StatusOf ==
    ASSUME NEW o \in ObjectType
    PROVE  o.status \in StatusType /\ o.spec \in SpecType
BY DEF ObjectType

LEMMA LateInitDemand ==
    ASSUME NEW spec \in SpecType, NEW c
    PROVE  SameDemand(lateInitialized(spec, c), spec)
BY DEF SameDemand, lateInitialized, SpecType

LEMMA ObservationMemory ==
    ASSUME NEW st \in StatusType, NEW r
    PROVE  SameMemory(generateObservation(st, r, st.digest), st)
BY DEF SameMemory, generateObservation, StatusType

(* A response decoded over a status that remembers the same forgets nothing. *)
LEMMA DecodedMemory ==
    ASSUME NEW old \in StatusType, NEW new \in StatusType
    PROVE  /\ SameMemory(new, old) => SameMemory(Decoded(old, new), new)
           /\ Blank(old) => SameMemory(Decoded(old, new), new)
BY DEF SameMemory, Decoded, Blank

LEMMA SpecsDigests ==
    ASSUME Remembered, NEW s \in Specs
    PROVE  s.chart.digest = "" <=> Digestless
BY DEF Remembered, Digestless

LEMMA Unlimited ==
    ASSUME TypeInv, BudgetInv, Remembered
    PROVE  /\ ~Retrying /\ Limits = {}
           /\ mem.spec.limit = NoLimit
           /\ \A st : ~shouldRollBack(mem.spec, st)
BY NothingRolledBack DEF Remembered, BudgetInv, Capped, shouldRollBack, rollBackEnabled

(* A write that fills in name and version brings the same demand and the    *)
(* same memory back.                                                        *)
LEMMA LateInitializeMemory ==
    ASSUME TypeInv, LifeInv, MemoryInv, NEW c \in Charts, LateInitialize(c),
           pc \in {"create", "update"}, UNCHANGED <<cache, memFresh>>
    PROVE  /\ cr'.status = cr.status /\ cr'.deleted = cr.deleted
           /\ SameDemand(cr'.spec, cr.spec) /\ SameDemand(mem'.spec, mem.spec)
           /\ SameMemory(mem'.status, mem.status)
<1> DEFINE spec == lateInitialized(mem.spec, c)
<1>1. /\ mem \in ObjectType /\ cr \in ObjectType /\ mem.spec \in SpecType
      /\ cr.status \in StatusType /\ mem.status \in StatusType
  BY StatusOf DEF TypeInv, TypeOK
<1>2. SameDemand(spec, mem.spec) BY <1>1, LateInitDemand
<1> HIDE DEF spec
<1>3. CASE spec = mem.spec BY <1>3 DEF LateInitialize, spec, SameDemand, SameMemory
<1>4. CASE spec # mem.spec
  <2>1. /\ memFresh /\ cr' = [cr EXCEPT !.spec = spec]
        /\ mem' = [cr' EXCEPT !.status = Decoded(cr.status, mem.status)]
    BY <1>4 DEF LateInitialize, spec
  <2>2. cr'.spec = spec /\ cr'.status = cr.status /\ cr'.deleted = cr.deleted
    BY <1>1, <2>1 DEF ObjectType
  <2>3. cr' \in ObjectType BY LateInitializeType
  <2>4. mem'.spec = spec /\ mem'.status = Decoded(cr.status, mem.status)
    BY <2>1, <2>2, <2>3, ObjectFields
  <2>5. mem.spec = cr.spec BY <2>1 DEF LifeInv, Agrees
  <2>6. SameMemory(mem.status, cr.status) BY <2>1 DEF MemoryInv
  <2>7. SameMemory(mem'.status, mem.status) BY <1>1, <2>4, <2>6, DecodedMemory
  <2> QED BY <1>2, <2>2, <2>4, <2>5, <2>7
<1> QED BY <1>3, <1>4
-----------------------------------------------------------------------------
(* Steps of a reconcile that leave the stored object and the history alone  *)
(* and nothing else in the worker's memory.                                 *)
Moves ==
    /\ UNCHANGED <<cr, cache, memFresh, hist>>
    /\ mem'.spec = mem.spec
    /\ memFresh => SameMemory(mem'.status, mem.status)
    /\ pc \in {"created", "publish"} => pc' \in {"created", "publish"}
    /\ pc' \in {"create", "installing", "created"} =>
          pc \in {"create", "installing", "created"}
    /\ pc' # "connected"

LEMMA MovesKeepMemory == ASSUME MemoryInv, Moves PROVE MemoryInv'
<1> USE DEF MemoryInv, Moves
<1>1. Known(cr)' /\ Known(cache)' /\ Known(mem)' BY DEF Known
<1>2. DeployedNow' = DeployedNow /\ Last(hist)' = Last(hist) BY DEF DeployedNow, Last
<1>3. DeployedNow' /\ pc' \notin {"created", "publish"} => Tells(cr.status, Last(hist))'
  BY <1>2 DEF Tells
<1>4. DeployedNow' /\ pc' \in {"created", "publish"} /\ memFresh' => Tells(mem.status, Last(hist))'
  BY <1>2 DEF Tells, SameMemory
<1>5. pc' \in {"create", "installing", "created"} => Blank(cr.status)' BY DEF Blank
<1>6. hist' = <<>> /\ ~cr'.deleted => Blank(cr.status)' /\ (memFresh' => Blank(mem.status)')
  BY DEF Blank, SameMemory
<1>7. memFresh' /\ pc' \notin {"created", "publish"} => SameMemory(mem.status, cr.status)'
  BY DEF SameMemory
<1>8. DeployedNow' /\ (pc' \in {"created", "publish"} => memFresh')
        => Serves(cr, Last(hist))' /\ Serves(cache, Last(hist))'
  BY <1>2 DEF Serves, Tells, AskedFor
<1>9. memFresh' => SameDemand(cache.spec, mem.spec)' BY DEF SameDemand
<1> QED BY <1>1, <1>2, <1>3, <1>4, <1>5, <1>6, <1>7, <1>8, <1>9

-----------------------------------------------------------------------------
(* The user, the cluster and the informer: the memory stays where it is.    *)
LEMMA EnvironmentStatus ==
    ASSUME TypeInv, LifeInv, Remembered, OperationInv, MemoryInv, Environment \/ SyncCache
    PROVE  OperationInv' /\ MemoryInv'
<1> USE DEF stored, work, world, bounds, ghosts
<1>0. cr \in ObjectType BY DEF TypeInv, TypeOK
<1>1. CASE EditSpec \/ DeleteCR
  <2>1. /\ cr'.status = cr.status /\ (cr.deleted => cr'.deleted)
        /\ Known(cr') /\ memFresh' = FALSE /\ UNCHANGED <<cache, pc, mem, hist, source>>
    <3>1. CASE EditSpec
      <4>1. PICK s \in Specs : ChangedByOthers([cr EXCEPT !.spec = s]) BY <3>1 DEF EditSpec
      <4>2. /\ cr'.status = cr.status /\ cr'.deleted = cr.deleted /\ cr'.spec = s
            /\ memFresh' = FALSE
        BY <1>0, <4>1 DEF ChangedByOthers, ObjectType
      <4> QED BY <3>1, <4>2, SpecsDigests DEF EditSpec, Known
    <3>2. CASE DeleteCR
      <4>1. /\ cr'.status = cr.status /\ cr'.deleted = TRUE /\ cr'.spec = cr.spec
            /\ memFresh' = FALSE
        BY <1>0, <3>2 DEF DeleteCR, ChangedByOthers, ObjectType
      <4> QED BY <3>2, <4>1 DEF DeleteCR, Known, MemoryInv
    <3> QED BY <1>1, <3>1, <3>2
  <2>2. DeployedNow' = DeployedNow /\ Last(hist)' = Last(hist) BY <2>1 DEF DeployedNow, Last
  <2>3. OperationInv' BY <2>1, <2>2 DEF OperationInv
  <2>4. MemoryInv'
    BY <2>1, <2>2 DEF MemoryInv, Known, Tells, Blank, Serves, AskedFor
  <2> QED BY <2>3, <2>4
<1>2. CASE EditSource
  <2>1. UNCHANGED <<cr, cache, pc, mem, memFresh, hist>> BY <1>2 DEF EditSource
  <2>2. mem.spec.vals # FromSource =>
           isUpToDate(mem.spec, Last(hist), mem.status, source')
              = isUpToDate(mem.spec, Last(hist), mem.status, source)
    BY DEF isUpToDate, composeValuesFromSpec
  <2>3. OperationInv' BY <2>1, <2>2 DEF OperationInv, Last, AskedFor
  <2>4. MemoryInv'
    BY <2>1 DEF MemoryInv, DeployedNow, Last, Known, Tells, Blank, Serves, AskedFor,
                SameMemory, SameDemand
  <2> QED BY <2>3, <2>4
<1>3. CASE SyncCache
  <2>1. UNCHANGED <<cr, pc, mem, memFresh, hist, source>> /\ cache' = cr
    BY <1>3 DEF SyncCache
  <2>2. OperationInv' BY <2>1 DEF OperationInv, Last, AskedFor
  <2>3. memFresh => mem.spec = cr.spec BY DEF LifeInv, Agrees
  <2>4. MemoryInv'
    BY <2>1, <2>3 DEF MemoryInv, DeployedNow, Last, Known, Tells, Blank, Serves, AskedFor,
                SameMemory, SameDemand
  <2> QED BY <2>2, <2>4
<1> QED BY <1>1, <1>2, <1>3 DEF Environment

(* Connect and Observe. *)
LEMMA ObserveStatus ==
    ASSUME TypeInv, LifeInv, BudgetInv, Remembered, OperationInv, MemoryInv,
           Connect \/ Observe \/ ObserveFails \/ ObserveDetailsFail
    PROVE  OperationInv' /\ MemoryInv'
<1> USE DEF stored, work, world, bounds, ghosts
<1>0. mem \in ObjectType /\ mem.status \in StatusType BY StatusOf DEF TypeInv, TypeOK
<1>1. CASE Connect
  <2>1. /\ UNCHANGED <<cr, cache, hist>> /\ mem' = cache /\ memFresh' = cacheFresh
        /\ pc = "idle" /\ pc' \in {"connected", "finalize"}
    BY <1>1 DEF Connect
  <2>2. cacheFresh => cache = cr BY DEF LifeInv
  <2>3. OperationInv' BY <2>1 DEF OperationInv
  <2>4. MemoryInv'
    BY <2>1, <2>2 DEF MemoryInv, DeployedNow, Last, Known, Tells, Blank, Serves, AskedFor,
                SameMemory, SameDemand
  <2> QED BY <2>3, <2>4
<1>2. SUFFICES ASSUME Observe \/ ObserveFails \/ ObserveDetailsFail
               PROVE  OperationInv' /\ MemoryInv'
  BY <1>1
<1>3. SameMemory(Observation, mem.status)
  BY <1>0, ObservationMemory DEF Observation
<1>4. CASE ObserveFails \/ ObserveMissing
  <2>1. /\ UNCHANGED <<cr, cache, mem, memFresh, hist>> /\ pc = "connected"
        /\ pc' \in {"publish", "finalize", "missing"}
        /\ pc' = "missing" => ~mem.deleted
    BY <1>4 DEF ObserveFails, ObserveMissing
  <2>2. OperationInv' BY <2>1 DEF OperationInv
  <2>3. Moves BY <2>1 DEF Moves, SameMemory
  <2> QED BY <2>2, <2>3, MovesKeepMemory
<1>5. CASE ObserveDeleting \/ ObserveError
  <2>1. /\ UNCHANGED <<cr, cache, memFresh, hist>> /\ pc = "connected"
        /\ pc' \in {"delete", "publish"} /\ mem' = [mem EXCEPT !.status = Observation]
    BY <1>5 DEF ObserveDeleting, ObserveError
  <2>2. mem'.spec = mem.spec /\ mem'.status = Observation BY <1>0, <2>1, ObjectFields
  <2>3. OperationInv' BY <2>1 DEF OperationInv
  <2>4. Moves BY <1>3, <2>1, <2>2 DEF Moves
  <2> QED BY <2>3, <2>4, MovesKeepMemory
<1>6. CASE ObserveHealthy \/ ObserveDetailsFail
  <2> DEFINE healthy == [Observation EXCEPT !.synced = TRUE, !.failed = 0, !.ready = "Available",
                            !.digest = IF @ = "" THEN mem.spec.chart.digest ELSE @]
             noDetails == [Observation EXCEPT !.synced = TRUE, !.failed = 0]
  <2>1. /\ UNCHANGED <<cr, cache, memFresh, hist>> /\ pc = "connected" /\ pc' = "publish"
        /\ hist # <<>> /\ Last(hist).status = "deployed"
    BY <1>6 DEF ObserveHealthy, ObserveDetailsFail, Observed, Healthy
  <2>2. Observation \in StatusType BY <2>1, ObservedType
  <2>3. memFresh /\ mem.status.digest = "" => mem.spec.chart.digest = ""
    BY <2>1 DEF MemoryInv, Known, DeployedNow, Tells, SameMemory
  <2>4. SameMemory(noDetails, mem.status) /\ (memFresh => SameMemory(healthy, mem.status))
    BY <1>3, <2>2, <2>3 DEF SameMemory, StatusType
  <2>5. \/ mem' = [mem EXCEPT !.status = healthy]
        \/ mem' = [mem EXCEPT !.status = noDetails]
    BY <1>6 DEF ObserveHealthy, ObserveDetailsFail
  <2> HIDE DEF healthy, noDetails
  <2>6. mem'.spec = mem.spec /\ (memFresh => SameMemory(mem'.status, mem.status))
    <3>1. PICK st : /\ mem' = [mem EXCEPT !.status = st]
                    /\ memFresh => SameMemory(st, mem.status)
      BY <2>4, <2>5, Zenon
    <3> QED BY <1>0, <3>1, ObjectFields
  <2>7. OperationInv' BY <2>1 DEF OperationInv
  <2>8. Moves BY <2>1, <2>6 DEF Moves
  <2> QED BY <2>7, <2>8, MovesKeepMemory
<1>7. CASE ObserveUnhealthy
  <2> DEFINE st == [Observation EXCEPT !.synced = InSync, !.ready = "Unavailable"]
  <2>1. /\ UNCHANGED <<cr, cache, memFresh, hist, source>> /\ pc = "connected"
        /\ pc' \in {"update", "publish"} /\ hist # <<>>
        /\ mem' = [mem EXCEPT !.status = st]
        /\ pc' = "update" => ~ResourceUpToDate(mem.spec, st)
    BY <1>7, Zenon DEF ObserveUnhealthy, Observed
  <2>2. Observation \in StatusType BY <2>1, ObservedType
  <2>3. SameMemory(st, mem.status) /\ SameMemory(st, Observation) /\ st.synced = InSync
    BY <1>3, <2>2 DEF SameMemory, StatusType
  <2> HIDE DEF st
  <2>4. mem'.spec = mem.spec /\ mem'.status = st BY <1>0, <2>1, ObjectFields
  <2>5. pc' = "update" => ~InSync BY <2>1, <2>3, Unlimited DEF ResourceUpToDate
  <2>6. isUpToDate(mem.spec, Last(hist), st, source) = InSync
    BY <2>3 DEF isUpToDate, InSync, SameChart, hasUpdates, SameMemory
  <2>7. OperationInv' BY <2>1, <2>4, <2>5, <2>6 DEF OperationInv, Last
  <2>8. Moves BY <2>1, <2>3, <2>4 DEF Moves
  <2> QED BY <2>7, <2>8, MovesKeepMemory
<1> QED BY <1>2, <1>4, <1>5, <1>6, <1>7, Zenon DEF Observe

(* The end of a reconcile: what the worker knows better is stored, or lost. *)
LEMMA EndStatus ==
    ASSUME TypeInv, LifeInv, HistInv, Remembered, lost' = 0, OperationInv, MemoryInv,
           \/ Crash \/ PublishStatus \/ PublishConflicts \/ PublishFails
           \/ Conflicts \/ Finalize
    PROVE  OperationInv' /\ MemoryInv'
<1> USE DEF stored, work, world, bounds, ghosts
<1>0. cr \in ObjectType BY DEF TypeInv, TypeOK
<1>1. ~(Crash \/ PublishConflicts \/ PublishFails)
  <2>1. Crash \/ PublishConflicts \/ PublishFails => lost' = lost + 1
    BY DEF Crash, PublishConflicts, PublishFails
  <2>2. lost = 0 BY DEF Remembered
  <2> QED BY <2>1, <2>2
<1>2. Idle /\ UNCHANGED <<cache, hist>>
  BY <1>1 DEF PublishStatus, Conflicts, Finalize
<1>3. pc' = "idle" /\ memFresh' = FALSE /\ Known(mem)'
  <2>1. (CHOOSE s \in Specs : TRUE) \in Specs BY SpecsAssumption
  <2>2. mem'.spec \in Specs BY <1>2, <2>1 DEF Idle, NoObject, New
  <2> QED BY <1>2, <2>2, SpecsDigests DEF Idle, Known
<1>4. OperationInv' BY <1>3 DEF OperationInv
<1>5. CASE PublishStatus
  <2>1. /\ cr'.spec = cr.spec /\ cr'.status = mem.status /\ cr'.deleted = cr.deleted
        /\ pc = "publish" /\ memFresh
    BY <1>0, <1>5, ObjectFields DEF PublishStatus
  <2>2. MemoryInv'
    BY <1>2, <1>3, <2>1 DEF MemoryInv, DeployedNow, Last, Known, Tells, Blank, Serves, AskedFor
  <2> QED BY <1>4, <2>2
<1>6. CASE Conflicts \/ Finalize
  <2>1. /\ cr'.spec = cr.spec /\ cr'.status = cr.status /\ cr'.deleted = cr.deleted
        /\ pc \notin {"created", "publish"}
    BY <1>0, <1>6 DEF Conflicts, Finalize, ObjectType
  <2>2. MemoryInv'
    BY <1>2, <1>3, <2>1 DEF MemoryInv, DeployedNow, Last, Known, Tells, Blank, Serves, AskedFor
  <2> QED BY <1>4, <2>2
<1> QED BY <1>1, <1>5, <1>6

(* What Helm begins to deploy is what the worker's spec asks for. *)
LEMMA BegunConfig ==
    ASSUME TypeInv, NEW c \in Pulled(mem.spec.chart), NEW h \in Seq(RevisionType), h # <<>>,
           ~Unprepared, NEW own \in BOOLEAN
    PROVE  LET g == InstallBegun(Config(c), own)
               u == UpgradeBegun(h, Config(c), own, UpgradeMaxHistory)
           IN  /\ g # <<>> /\ Last(g).status # "deployed" /\ AskedFor(mem.spec, Last(g))
               /\ u # <<>> /\ Last(u).status # "deployed" /\ AskedFor(mem.spec, Last(u))
<1>1. /\ Config(c).chart = c /\ Config(c).patch = mem.spec.patch
      /\ mem.spec.chart.digest \in {"", c.digest}
  BY DEF Config, Pulled
<1>2. Config(c) \in ConfigType BY ConfigIsType, PulledCharts
<1>3. UpgradeMaxHistory \in Nat BY BoundsAssumption DEF UpgradeMaxHistory
<1> DEFINE first == Revision(1, "pending-install", Config(c), own)
           next  == Revision(Last(h).rev + 1, "pending-upgrade", Config(c), own)
           p     == Pruned(h, UpgradeMaxHistory)
<1>4. first.cfg = Config(c) /\ next.cfg = Config(c)
      /\ first.status # "deployed" /\ next.status # "deployed"
  BY DEF Revision
<1>5. Last(InstallBegun(Config(c), own)) = first /\ InstallBegun(Config(c), own) # <<>>
  BY DEF InstallBegun, Last
<1>6. UpgradeBegun(h, Config(c), own, UpgradeMaxHistory) = Append(p, next)
  BY DEF UpgradeBegun
<1>7. p \in Seq(RevisionType) BY <1>3, PrunedType
<1>8. next \in RevisionType
  <2>1. Last(h).rev \in Nat \ {0} BY LastType DEF RevisionType
  <2> QED BY <1>2, <2>1 DEF Revision, RevisionType, Statuses, PendingStatuses
<1> HIDE DEF first, next, p
<1>9. Last(Append(p, next)) = next /\ Append(p, next) # <<>>
  BY <1>7, <1>8, AppendProperties, LenProperties, EmptySeq DEF Last
<1> QED BY <1>1, <1>4, <1>5, <1>6, <1>9 DEF AskedFor

(* An operation on the last revision leaves its configuration alone. *)
LEMMA EndedConfig ==
    ASSUME NEW h \in Seq(RevisionType), h # <<>>
    PROVE  /\ \A s \in {"failed", "deployed", "uninstalling"} :
                 /\ WithLast(h, s) # <<>>
                 /\ Last(WithLast(h, s)).cfg = Last(h).cfg
                 /\ Last(WithLast(h, s)).status = s
           /\ UpgradeSucceeded(h) # <<>>
           /\ Last(UpgradeSucceeded(h)).cfg = Last(h).cfg
<1>1. /\ Len(h) \in Nat \ {0} /\ Len(h) \in DOMAIN h /\ Last(h) \in RevisionType
  BY LastType
<1>2. ASSUME NEW s \in {"failed", "deployed", "uninstalling"}
      PROVE  /\ WithLast(h, s) # <<>>
             /\ Last(WithLast(h, s)).cfg = Last(h).cfg
             /\ Last(WithLast(h, s)).status = s
  <2>1. s \in Statuses BY DEF Statuses
  <2>2. Len(WithLast(h, s)) = Len(h) /\ WithLast(h, s) # <<>> BY <2>1, WithLastType
  <2>3. WithLast(h, s)[Len(h)] = [h[Len(h)] EXCEPT !.status = s] BY <1>1 DEF WithLast
  <2> QED BY <1>1, <2>2, <2>3 DEF Last, RevisionType
<1>3. UpgradeSucceeded(h) # <<>> /\ Last(UpgradeSucceeded(h)).cfg = Last(h).cfg
  <2>1. Len(UpgradeSucceeded(h)) = Len(h) /\ UpgradeSucceeded(h) # <<>> BY UpgradeSucceededType
  <2>2. UpgradeSucceeded(h)[Len(h)] = [h[Len(h)] EXCEPT !.status = "deployed"]
    BY <1>1 DEF UpgradeSucceeded
  <2> QED BY <1>1, <2>1, <2>2 DEF Last, RevisionType
<1> QED BY <1>2, <1>3

(* While an operation runs nothing is deployed that the memory is about. *)
LEMMA BegunMemory ==
    ASSUME MemoryInv, hist' # <<>>, ~DeployedNow', UNCHANGED <<cache, memFresh>>,
           cr'.status = cr.status, SameDemand(cr'.spec, cr.spec),
           SameDemand(mem'.spec, mem.spec),
           pc \notin {"created", "publish"} /\ memFresh =>
               SameMemory(mem'.status, mem.status),
           pc \in {"created", "publish"} => pc' \in {"created", "publish"},
           pc' \in {"create", "installing", "created"} =>
               pc \in {"create", "installing", "created"}
    PROVE  MemoryInv'
<1> USE DEF MemoryInv
<1>1. Known(cr)' /\ Known(cache)' /\ Known(mem)' BY DEF Known, SameDemand
<1>2. pc' \in {"create", "installing", "created"} => Blank(cr.status)' BY DEF Blank
<1>3. memFresh' /\ pc' \notin {"created", "publish"} => SameMemory(mem.status, cr.status)'
  BY DEF SameMemory
<1>4. memFresh' => SameDemand(cache.spec, mem.spec)' BY DEF SameDemand
<1> QED BY <1>1, <1>2, <1>3, <1>4

LEMMA DeployStatus ==
    ASSUME TypeInv, LifeInv, HistInv, BudgetInv, Remembered, OperationInv, MemoryInv, Deploy
    PROVE  OperationInv' /\ MemoryInv'
<1> USE DEF stored, work, world, bounds, ghosts
<1>0. /\ mem \in ObjectType /\ mem.status \in StatusType /\ mem.spec \in SpecType
      /\ hist \in Seq(RevisionType) /\ takeOwnership \in BOOLEAN
  BY StatusOf DEF TypeInv, TypeOK
<1>1. CASE DeployCannotStart
  <2>1. /\ UNCHANGED <<cr, cache, mem, memFresh, hist>> /\ pc \in {"create", "update"}
        /\ pc' = IF pc = "create" THEN "created" ELSE "publish"
    BY <1>1 DEF DeployCannotStart, Deploying, AfterDeploy
  <2>2. OperationInv' BY <2>1 DEF OperationInv
  <2>3. Moves BY <2>1 DEF Moves, SameMemory
  <2> QED BY <2>2, <2>3, MovesKeepMemory
<1>2. CASE StartInstall \/ StartUpgrade
  <2>1. PICK c \in Pulled(mem.spec.chart) :
          /\ LateInitialize(c)
          /\ \/ /\ pc = "create" /\ pc' = "installing"
                /\ hist' = InstallBegun(Config(c), takeOwnership)
             \/ /\ pc = "update" /\ pc' = "upgrading"
                /\ hist' = UpgradeBegun(hist, Config(c), takeOwnership, UpgradeMaxHistory)
    BY <1>2 DEF StartInstall, StartUpgrade
  <2>2. ~Unprepared /\ UNCHANGED <<cache, memFresh>> BY <1>2 DEF StartInstall, StartUpgrade
  <2>3. /\ cr'.status = cr.status /\ SameDemand(cr'.spec, cr.spec)
        /\ SameDemand(mem'.spec, mem.spec) /\ SameMemory(mem'.status, mem.status)
    BY <2>1, <2>2, PulledCharts, LateInitializeMemory
  <2>4. hist' # <<>> /\ Last(hist').status # "deployed" /\ AskedFor(mem.spec, Last(hist'))
    <3>1. CASE pc = "create"
      <4> DEFINE h == InstallBegun(Config(c), takeOwnership)
      <4>1. hist' = h BY <2>1, <3>1
      <4>2. h \in Seq(RevisionType) /\ h # <<>>
        BY <2>2, <1>0, PulledCharts, ConfigIsType, InstallBegunType
      <4>3. Last(h).status # "deployed" /\ AskedFor(mem.spec, Last(h))
        BY <1>0, <2>2, <4>2, BegunConfig
      <4> QED BY <4>1, <4>2, <4>3
    <3>2. CASE pc = "update"
      <4>1. hist # <<>> BY <3>2 DEF TypeInv, NonEmpty
      <4>2. hist' = UpgradeBegun(hist, Config(c), takeOwnership, UpgradeMaxHistory)
        BY <2>1, <3>2
      <4> QED BY <1>0, <2>2, <4>1, <4>2, BegunConfig
    <3> QED BY <2>1, <3>1, <3>2
  <2>5. ~DeployedNow' BY <2>4 DEF DeployedNow
  <2>6. OperationInv'
    BY <2>1, <2>3, <2>4 DEF OperationInv, AskedFor, SameDemand
  <2>7. MemoryInv' BY <2>1, <2>2, <2>3, <2>4, <2>5, BegunMemory
  <2> QED BY <2>6, <2>7
<1>3. CASE UpgradeIsRefused
  <2>1. PICK c \in Pulled(mem.spec.chart) : LateInitialize(c) BY <1>3 DEF UpgradeIsRefused
  <2>2. pc = "update" /\ pc' = "publish" /\ UNCHANGED <<cache, memFresh, hist>>
    BY <1>3, Zenon DEF UpgradeIsRefused
  <2>3. /\ cr'.status = cr.status /\ cr'.deleted = cr.deleted
        /\ SameDemand(cr'.spec, cr.spec)
        /\ SameDemand(mem'.spec, mem.spec) /\ SameMemory(mem'.status, mem.status)
    BY <2>1, <2>2, PulledCharts, LateInitializeMemory
  <2>4. OperationInv' BY <2>2 DEF OperationInv
  <2>5. MemoryInv'
    BY <2>2, <2>3 DEF MemoryInv, DeployedNow, Last, Known, Tells, Blank, Serves, AskedFor,
                SameMemory, SameDemand
  <2> QED BY <2>4, <2>5
<1>4. CASE FinishDeploy
  <2>1. /\ pc \in {"installing", "upgrading"} /\ UNCHANGED <<cr, cache, memFresh>>
        /\ pc' = IF pc = "installing" THEN "created" ELSE "publish"
        /\ mem' = [mem EXCEPT !.status = Deployed(hist')]
        /\ hist' \in {WithLast(hist, "deployed"), UpgradeSucceeded(hist)}
    BY <1>4 DEF FinishDeploy, AfterDeploy
  <2>2. hist # <<>> BY <2>1 DEF TypeInv, NonEmpty
  <2>3. hist' # <<>> /\ Last(hist').cfg = Last(hist).cfg
    BY <1>0, <2>1, <2>2, EndedConfig
  <2>4. AskedFor(mem.spec, Last(hist')) BY <2>1, <2>3 DEF OperationInv, AskedFor
  <2>5. /\ Deployed(hist').sha = mem.spec.patch
        /\ Deployed(hist').digest = mem.spec.chart.digest
    BY <1>0 DEF Deployed, generateObservation, StatusType
  <2>6. mem'.spec = mem.spec /\ mem'.status = Deployed(hist') BY <1>0, <2>1, ObjectFields
  <2>7. Tells(mem'.status, Last(hist'))
    BY <2>4, <2>5, <2>6 DEF Tells, AskedFor, MemoryInv, Known
  <2>8. OperationInv' BY <2>1 DEF OperationInv
  <2>9. memFresh => AskedFor(cr.spec, Last(hist')) /\ AskedFor(cache.spec, Last(hist'))
    BY <2>4 DEF LifeInv, Agrees, MemoryInv, SameDemand, AskedFor
  <2>10. MemoryInv'
    BY <2>1, <2>3, <2>6, <2>7, <2>9 DEF MemoryInv, Known, Blank, Serves, SameDemand
  <2> QED BY <2>8, <2>10
<1>5. CASE FailDeploy
  <2>1. /\ pc \in {"installing", "upgrading"} /\ UNCHANGED <<cr, cache, mem, memFresh>>
        /\ pc' = IF pc = "installing" THEN "created" ELSE "publish"
        /\ hist' = WithLast(hist, "failed")
    BY <1>5 DEF FailDeploy, AfterDeploy
  <2>2. hist # <<>> BY <2>1 DEF TypeInv, NonEmpty
  <2>3. hist' # <<>> /\ ~DeployedNow' BY <1>0, <2>1, <2>2, EndedConfig DEF DeployedNow
  <2>4. OperationInv' BY <2>1 DEF OperationInv
  <2>5. MemoryInv' BY <2>1, <2>3, BegunMemory DEF SameMemory, SameDemand
  <2> QED BY <2>4, <2>5
<1> QED BY <1>1, <1>2, <1>3, <1>4, <1>5, Zenon DEF Deploy

(* What Create puts into the status survives the two writes around it,      *)
(* because the stored status is blank until then.                           *)
LEMMA CreateStatus ==
    ASSUME TypeInv, LifeInv, HistInv, Remembered, lost' = 0, OperationInv, MemoryInv,
           StartCreate \/ RecordCreate \/ RecordCreateConflicts
    PROVE  OperationInv' /\ MemoryInv'
<1> USE DEF stored, work, world, bounds, ghosts
<1>0. /\ mem \in ObjectType /\ cr \in ObjectType
      /\ mem.status \in StatusType /\ cr.status \in StatusType
  BY StatusOf DEF TypeInv, TypeOK
<1>1. CASE StartCreate
  <2>1. /\ cr'.status = cr.status /\ cr'.deleted = cr.deleted /\ cr'.spec = cr.spec
        /\ mem'.status = mem.status /\ mem'.spec = mem.spec
        /\ pc = "missing" /\ pc' \in {"create", "publish"} /\ memFresh
        /\ UNCHANGED <<cache, memFresh, hist>>
    BY <1>0, <1>1 DEF StartCreate, ObjectType
  <2>2. hist = <<>> /\ ~cr.deleted BY <2>1 DEF HistInv, OperationInv, LifeInv, Agrees
  <2>3. Blank(cr.status) BY <2>2 DEF MemoryInv
  <2>4. OperationInv' BY <2>1 DEF OperationInv
  <2>5. MemoryInv'
    BY <2>1, <2>2, <2>3 DEF MemoryInv, DeployedNow, Known, Blank, SameMemory, SameDemand
  <2> QED BY <2>4, <2>5
<1>2. CASE RecordCreate
  <2> DEFINE st == [Decoded(cr.status, mem.status) EXCEPT !.ready = "Creating"]
  <2>1. /\ UNCHANGED <<cr, cache, memFresh, hist>> /\ pc = "created" /\ pc' = "publish"
        /\ mem' = [mem EXCEPT !.status = st]
    BY <1>2 DEF RecordCreate
  <2>2. SameMemory(st, mem.status)
    <3>1. SameMemory(Decoded(cr.status, mem.status), mem.status)
      BY <1>0, <2>1, DecodedMemory DEF MemoryInv
    <3> QED BY <1>0, <3>1, DecodedType DEF SameMemory, StatusType
  <2> HIDE DEF st
  <2>3. mem'.spec = mem.spec /\ mem'.status = st BY <1>0, <2>1, ObjectFields
  <2>4. OperationInv' BY <2>1 DEF OperationInv
  <2>5. Moves BY <2>1, <2>2, <2>3 DEF Moves
  <2> QED BY <2>4, <2>5, MovesKeepMemory
<1>3. ~RecordCreateConflicts
  <2>1. RecordCreateConflicts => lost' = lost + 1 BY DEF RecordCreateConflicts
  <2>2. lost = 0 BY DEF Remembered
  <2> QED BY <2>1, <2>2
<1> QED BY <1>1, <1>2, <1>3

LEMMA NoRetries ==
    ASSUME TypeInv, BudgetInv, Remembered, OperationInv PROVE ~Retry
BY Unlimited
DEF Retry, RetryByUninstall, RetryByRollback, RetryFails, RetriesExhausted,
    FinishRollback, FailRollback, OperationInv

LEMMA DeleteStatus ==
    ASSUME TypeInv, LifeInv, HistInv, Remembered, OperationInv, MemoryInv,
           StartDelete \/ DeleteFails \/ FinishUninstall \/ FailUninstall
    PROVE  OperationInv' /\ MemoryInv'
<1> USE DEF stored, work, world, bounds, ghosts
<1>0. /\ mem \in ObjectType /\ mem.status \in StatusType /\ hist \in Seq(RevisionType)
  BY StatusOf DEF TypeInv, TypeOK
<1>1. Deleting.spec = mem.spec /\ SameMemory(Deleting.status, mem.status)
  BY <1>0 DEF Deleting, ObjectType, StatusType, SameMemory
<1>2. CASE StartDelete
  <2>1. /\ UNCHANGED <<cr, cache, mem, memFresh>> /\ pc = "delete" /\ pc' = "uninstalling"
        /\ hist' = WithLast(hist, "uninstalling")
    BY <1>2 DEF StartDelete
  <2>2. hist # <<>> /\ cr.deleted BY <2>1 DEF TypeInv, NonEmpty, HistInv
  <2>3. hist' # <<>> /\ ~DeployedNow' BY <1>0, <2>1, <2>2, EndedConfig DEF DeployedNow
  <2>4. OperationInv' BY <2>1, <2>2 DEF OperationInv
  <2>5. MemoryInv' BY <2>1, <2>3, BegunMemory DEF SameMemory, SameDemand
  <2> QED BY <2>4, <2>5
<1>3. CASE ~StartDelete
  <2>1. /\ UNCHANGED <<cr, cache, memFresh>> /\ pc \in {"delete", "uninstalling"}
        /\ pc' = "publish" /\ mem' = Deleting
        /\ \/ hist' = hist
           \/ hist' = <<>> /\ pc = "uninstalling"
    BY <1>3 DEF DeleteFails, FinishUninstall, FailUninstall
  <2>2. OperationInv' BY <2>1 DEF OperationInv
  <2>3. CASE hist' = hist
    <3>1. Moves BY <1>1, <2>1, <2>3 DEF Moves
    <3> QED BY <2>2, <3>1, MovesKeepMemory
  <2>4. CASE hist' = <<>> /\ pc = "uninstalling"
    <3>1. cr.deleted BY <2>4 DEF OperationInv
    <3>2. MemoryInv'
      BY <1>1, <2>1, <2>4, <3>1 DEF MemoryInv, DeployedNow, Known, SameDemand
    <3> QED BY <2>2, <3>2
  <2> QED BY <2>1, <2>3, <2>4
<1> QED BY <1>2, <1>3

(* A lost status stays counted. *)
LEMMA LostCounts == ASSUME TypeInv, [Next]_vars PROVE lost' \in {lost, lost + 1}
<1> USE DEF world, stored, work, bounds, ghosts
<1>1. CASE Environment \/ SyncCache
  BY <1>1 DEF Environment, EditSpec, DeleteCR, EditSource, SyncCache
<1>2. CASE Connect \/ Observe \/ ObserveFails \/ ObserveDetailsFail
  BY <1>2 DEF Connect, Observe, ObserveFails, ObserveDetailsFail, ObserveMissing,
     ObserveDeleting, ObserveError, ObserveHealthy, ObserveUnhealthy
<1>3. CASE Crash \/ PublishStatus \/ PublishConflicts \/ PublishFails \/ Conflicts \/ Finalize
  BY <1>3 DEF Crash, PublishStatus, PublishConflicts, PublishFails, Conflicts, Finalize
<1>4. CASE Deploy
  BY <1>4 DEF Deploy, DeployCannotStart, StartInstall, StartUpgrade, UpgradeIsRefused,
     FinishDeploy, FailDeploy
<1>5. CASE StartCreate \/ RecordCreate \/ RecordCreateConflicts
  BY <1>5 DEF StartCreate, RecordCreate, RecordCreateConflicts
<1>6. CASE Retry
  BY <1>6 DEF Retry, RetryByUninstall, RetryByRollback, RetryFails, RetriesExhausted,
     FinishRollback, FailRollback
<1>7. CASE StartDelete \/ DeleteFails \/ FinishUninstall \/ FailUninstall
  BY <1>7 DEF StartDelete, DeleteFails, FinishUninstall, FailUninstall
<1>8. CASE UNCHANGED vars BY <1>8 DEF vars
<1> QED BY <1>1, <1>2, <1>3, <1>4, <1>5, <1>6, <1>7, <1>8, Zenon DEF Next, Worker, Faults

LEMMA StatusInit == Init => StatusInv
<1> SUFFICES ASSUME Init, Remembered PROVE OperationInv /\ MemoryInv BY DEF StatusInv
<1>1. PICK s \in Specs : cr = New(s) BY DEF Init
<1>2. /\ pc = "idle" /\ memFresh = FALSE /\ hist = <<>> /\ cache = cr /\ mem = NoObject
  BY DEF Init
<1>3. cr.spec = s /\ Blank(cr.status) BY <1>1 DEF New, NoStatus, Blank
<1>4. mem.spec \in Specs
  <2>1. (CHOOSE t \in Specs : TRUE) \in Specs BY SpecsAssumption
  <2> QED BY <1>2, <2>1 DEF NoObject, New
<1>5. Known(cr) /\ Known(cache) /\ Known(mem) BY <1>2, <1>3, <1>4, SpecsDigests DEF Known
<1>6. OperationInv BY <1>2 DEF OperationInv
<1> QED BY <1>2, <1>3, <1>5, <1>6 DEF MemoryInv, DeployedNow

AllInv == TypeInv /\ LifeInv /\ HistInv /\ BudgetInv /\ StatusInv

LEMMA StatusStep == AllInv /\ [Next]_vars => AllInv'
<1> SUFFICES ASSUME AllInv, [Next]_vars PROVE AllInv' OBVIOUS
<1>1. TypeInv' /\ LifeInv' /\ HistInv' /\ BudgetInv'
  BY TypeStep, LifeStep, HistStep, BudgetStep DEF AllInv
<1> SUFFICES ASSUME Remembered' PROVE OperationInv' /\ MemoryInv'
  BY <1>1 DEF AllInv, StatusInv
<1>2. Remembered /\ lost' = 0
  <2>1. lost' = 0 /\ lost \in Nat BY DEF Remembered, AllInv, TypeInv, TypeOK
  <2>2. lost = 0 BY <2>1, LostCounts DEF AllInv
  <2> QED BY <2>1, <2>2 DEF Remembered, Limits
<1>3. TypeInv /\ LifeInv /\ HistInv /\ BudgetInv /\ OperationInv /\ MemoryInv
  BY <1>2 DEF AllInv, StatusInv
<1>4. CASE UNCHANGED vars
  <2>1. UNCHANGED <<cr, cache, pc, mem, memFresh, hist, source>>
    BY <1>4 DEF vars, stored, work, world
  <2>2. OperationInv' BY <1>3, <2>1 DEF OperationInv, Last, AskedFor
  <2>3. MemoryInv'
    BY <1>3, <2>1 DEF MemoryInv, DeployedNow, Last, Known, Tells, Blank, Serves, AskedFor,
                SameMemory, SameDemand
  <2> QED BY <2>2, <2>3
<1>5. CASE Next
  BY <1>2, <1>3, <1>5, EnvironmentStatus, ObserveStatus, EndStatus, DeployStatus, CreateStatus,
     NoRetries, DeleteStatus, Zenon DEF Next, Worker, Faults
<1> QED BY <1>4, <1>5

LEMMA AllInit == Init => AllInv
BY TypeInit, LifeInit, HistInit, BudgetInit, StatusInit DEF AllInv

(* A release that is judged up to date and deployed by an object that tells *)
(* of the deployed revision, or asks for it, is what the object asks for.   *)
LEMMA JudgedByTruth ==
    ASSUME TypeInv, Remembered, MemoryInv, ObserveHealthy,
           mem.spec.chart.url = NoURL, "Update" \in mem.spec.policies
    PROVE  Matches(mem.spec, Last(hist))
<1> DEFINE spec == mem.spec
           rev == Last(hist)
<1>1. /\ pc = "connected" /\ DeployedNow /\ rev \in RevisionType
      /\ mem.status \in StatusType
  BY ObservedType, StatusOf
  DEF ObserveHealthy, Observed, Healthy, DeployedNow, TypeInv, TypeOK
<1>2. isUpToDate(spec, rev, Observation, source)
  BY DEF ObserveHealthy, Healthy, InSync
<1>3. /\ spec.chart.name = rev.cfg.chart.name
      /\ spec.chart.version \in {"", devel, rev.cfg.chart.version}
      /\ spec.chart.digest = "" \/ Observation.digest \in {"", spec.chart.digest}
      /\ composeValuesFromSpec(spec, source) = rev.cfg.vals
      /\ spec.patch = Observation.sha
  BY <1>2 DEF isUpToDate, Comparable, SameChart, hasUpdates
<1>4. Observation.digest = mem.status.digest /\ Observation.sha = mem.status.sha
  BY <1>1, ObservationMemory DEF Observation, SameMemory
<1>5. rev.cfg.patch = spec.patch /\ spec.chart.digest \in {"", rev.cfg.chart.digest}
  <2>1. CASE Tells(mem.status, rev)
    BY <1>3, <1>4, <2>1 DEF Tells, MemoryInv, Known
  <2>2. CASE AskedFor(spec, rev) BY <2>2 DEF AskedFor
  <2> QED BY <1>1, <2>1, <2>2 DEF MemoryInv, Serves
<1>6. rev.cfg.chart \in Charts BY <1>1 DEF RevisionType, ConfigType
<1>7. rev.cfg.chart \in Pulled(spec.chart) BY <1>3, <1>5, <1>6 DEF Pulled
<1> QED BY <1>3, <1>5, <1>7 DEF Matches

(* An upgrade is only begun for what the last observation found different,  *)
(* and with the object still fresh that cannot be the deployed revision.    *)
LEMMA UpgradesWhatDiffers ==
    ASSUME TypeInv, Remembered, OperationInv, MemoryInv, StartUpgrade, memFresh,
           mem.spec.chart.url = NoURL, mem.spec.vals # FromSource,
           mem.spec.chart.digest = "" \/ mem.spec.chart.version \in {"", devel},
           Last(hist).status = "deployed", Matches(mem.spec, Last(hist))
    PROVE  FALSE
<1> DEFINE spec == mem.spec
           rev == Last(hist)
<1>1. pc = "update" /\ hist # <<>> BY DEF StartUpgrade, TypeInv, NonEmpty
<1>2. ~isUpToDate(spec, rev, mem.status, source) BY <1>1 DEF OperationInv
<1>3. /\ rev.cfg.chart \in Pulled(spec.chart) /\ rev.cfg.patch = spec.patch
      /\ rev.cfg.vals = composeValuesFromSpec(spec, source)
  BY DEF Matches
<1>4. /\ spec.chart.name = rev.cfg.chart.name
      /\ spec.chart.version \in {"", devel, rev.cfg.chart.version}
      /\ spec.chart.digest \in {"", rev.cfg.chart.digest}
  BY <1>3 DEF Pulled
<1>5. Tells(mem.status, rev) BY <1>1 DEF MemoryInv, DeployedNow, Tells, SameMemory
<1>6. isUpToDate(spec, rev, mem.status, source)
  BY <1>3, <1>4, <1>5
  DEF isUpToDate, Comparable, isPending, SameChart, hasUpdates, Tells
<1> QED BY <1>2, <1>6

(* Whatever the specs, the faults and the moments at which the object and   *)
(* its sources are edited: as long as the status can remember, Available is *)
(* said of a deployed revision with the chart, values and patches asked for. *)
THEOREM JudgedAvailable == Spec => AvailableIsTrue
<1>1. AllInv /\ ObserveHealthy /\ Remembered /\ mem.spec.chart.url = NoURL
         /\ "Update" \in mem.spec.policies
        => Matches(mem.spec, Last(hist))
  BY JudgedByTruth DEF AllInv, StatusInv
<1> QED BY <1>1, AllInit, StatusStep, PTL DEF Spec, AvailableIsTrue

(* And a deployed revision that is what the spec asks for is not deployed   *)
(* over again.                                                              *)
THEOREM UpgradedWhenNeeded == Spec => NoNeedlessUpgrade
<1>1. AllInv /\ StartUpgrade /\ Remembered /\ memFresh
         /\ mem.spec.chart.url = NoURL /\ mem.spec.vals # FromSource
         /\ (mem.spec.chart.digest = "" \/ mem.spec.chart.version \in {"", devel})
        => ~(Last(hist).status = "deployed" /\ Matches(mem.spec, Last(hist)))
  BY UpgradesWhatDiffers DEF AllInv, StatusInv
<1> QED BY <1>1, AllInit, StatusStep, PTL DEF Spec, NoNeedlessUpgrade
=============================================================================
