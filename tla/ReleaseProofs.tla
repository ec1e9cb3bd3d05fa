----------------------------- MODULE ReleaseProofs -----------------------------
(***************************************************************************)
(* Theorems about the Release controller for every choice of charts,       *)
(* specs, faults and bounds.                                               *)
(***************************************************************************)
EXTENDS ReleaseProperties, SequenceTheorems, WellFoundedInduction, TLAPS

(* The history: every operation of Helm leaves a history of revisions.     *)
LEMMA LastType ==
    ASSUME NEW h \in Seq(RevisionType), h # <<>>
    PROVE  /\ Len(h) \in Nat \ {0} /\ DOMAIN h = 1..Len(h)
           /\ Len(h) \in DOMAIN h
           /\ Last(h) \in RevisionType
BY LenProperties, EmptySeq, ElementOfSeq DEF Last

LEMMA MapType ==
    ASSUME NEW h \in Seq(RevisionType), NEW g,
           g = [i \in DOMAIN h |-> g[i]],
           \A i \in DOMAIN h : g[i] \in RevisionType
    PROVE  g \in Seq(RevisionType) /\ Len(g) = Len(h)
<1>1. Len(h) \in Nat /\ DOMAIN h = 1..Len(h) BY LenProperties
<1>2. g \in [1..Len(h) -> RevisionType] BY <1>1
<1> QED BY <1>1, <1>2, SeqDef

LEMMA StatusChange ==
    ASSUME NEW r \in RevisionType, NEW s \in Statuses
    PROVE  [r EXCEPT !.status = s] \in RevisionType
BY DEF RevisionType

LEMMA WithLastType ==
    ASSUME NEW h \in Seq(RevisionType), h # <<>>, NEW s \in Statuses
    PROVE  /\ WithLast(h, s) \in Seq(RevisionType) /\ WithLast(h, s) # <<>>
           /\ Len(WithLast(h, s)) = Len(h)
<1>1. /\ Len(h) \in 1..Len(h) /\ h[Len(h)] \in RevisionType
  BY LastType DEF Last
<1>2. [h[Len(h)] EXCEPT !.status = s] \in RevisionType BY <1>1, StatusChange
<1>3. WithLast(h, s) = [h EXCEPT ![Len(h)] = [h[Len(h)] EXCEPT !.status = s]]
  BY DEF WithLast
<1>4. /\ WithLast(h, s) \in Seq(RevisionType)
      /\ Len(WithLast(h, s)) = Len(h)
  BY <1>1, <1>2, <1>3, ExceptSeq
<1> QED BY <1>1, <1>4, EmptySeq

(* Whatever is deployed has a last one: indexes counted from the end are    *)
(* natural numbers, and one of them is the least.                           *)
LEMMA LastDeployedIndex ==
    ASSUME NEW h \in Seq(RevisionType), DeployedAt(h) # {}
    PROVE  LastDeployed(h) \in DeployedAt(h) /\ LastDeployed(h) \in 1..Len(h)
<1> DEFINE fromEnd == {n \in Nat : \E i \in DeployedAt(h) : n = Len(h) - i}
           less == OpToRel(<, Nat)
<1>1. Len(h) \in Nat /\ DeployedAt(h) \subseteq 1..Len(h) BY LenProperties DEF DeployedAt
<1>2. fromEnd \subseteq Nat /\ fromEnd # {}
  <2>1. PICK i \in DeployedAt(h) : TRUE OBVIOUS
  <2>2. Len(h) - i \in Nat BY <1>1, <2>1
  <2> QED BY <2>1, <2>2
<1>3. IsWellFoundedOn(less, Nat) BY NatLessThanWellFounded
<1>4. less = {ss \in Nat \X Nat : ss[1] < ss[2]} BY DEF OpToRel
<1> HIDE DEF less
<1>5. PICK m \in fromEnd : \A n \in fromEnd : <<n, m>> \notin less
  BY <1>2, <1>3, WFMin, Zenon
<1>6. \A n \in fromEnd : m <= n
  <2> SUFFICES ASSUME NEW n \in fromEnd PROVE m <= n OBVIOUS
  <2>1. n \in Nat /\ m \in Nat BY <1>2, <1>5
  <2>2. <<n, m>> \notin less BY <1>5
  <2>3. ~(n < m) BY <1>4, <2>1, <2>2
  <2> QED BY <2>1, <2>3
<1>7. PICK i \in DeployedAt(h) : m = Len(h) - i BY <1>1
<1>8. \A j \in DeployedAt(h) : j <= i
  <2> SUFFICES ASSUME NEW j \in DeployedAt(h) PROVE j <= i OBVIOUS
  <2>1. Len(h) - j \in fromEnd BY <1>1
  <2> QED BY <1>1, <1>6, <1>7, <2>1
<1>9. LastDeployed(h) \in DeployedAt(h)
  BY <1>7, <1>8 DEF LastDeployed
<1> QED BY <1>1, <1>9

LEMMA PrunedType ==
    ASSUME NEW h \in Seq(RevisionType), NEW n \in Nat
    PROVE  Pruned(h, n) \in Seq(RevisionType)
<1> DEFINE excess == Len(h) - (n - 1)
           d == LastDeployed(h)
<1>1. Len(h) \in Nat /\ DOMAIN h = 1..Len(h) /\ \A i \in 1..Len(h) : h[i] \in RevisionType
  BY LenProperties, ElementOfSeq
<1>2. CASE n = 0 \/ excess <= 0
  BY <1>2 DEF Pruned
<1>3. CASE ~(n = 0 \/ excess <= 0) /\ (d = 0 \/ d > excess)
  <2>1. SubSeq(h, excess + 1, Len(h)) \in Seq(RevisionType)
    BY <1>1, <1>3, SubSeqProperties
  <2> QED BY <1>3, <2>1 DEF Pruned
<1>4. CASE ~(n = 0 \/ excess <= 0) /\ ~(d = 0 \/ d > excess)
  <2>1. d \in 1..Len(h)
    <3>1. DeployedAt(h) # {} BY <1>4 DEF LastDeployed
    <3> QED BY <3>1, LastDeployedIndex
  <2>2. SubSeq(h, excess + 2, Len(h)) \in Seq(RevisionType)
    BY <1>1, <1>4, SubSeqProperties
  <2>3. <<h[d]>> \in Seq(RevisionType) BY <1>1, <2>1
  <2> QED BY <1>4, <2>2, <2>3, ConcatProperties DEF Pruned
<1> QED BY <1>2, <1>3, <1>4

(* Helm makes room for one more revision, except for the deployed one.      *)
LEMMA PrunedLength ==
    ASSUME NEW h \in Seq(RevisionType), NEW n \in Nat \ {0}
    PROVE  Len(Pruned(h, n)) <= IF n = 1 THEN 1 ELSE n - 1
<1> DEFINE excess == Len(h) - (n - 1)
           d == LastDeployed(h)
<1>1. Len(h) \in Nat /\ DOMAIN h = 1..Len(h) /\ \A i \in 1..Len(h) : h[i] \in RevisionType
  BY LenProperties, ElementOfSeq
<1>2. CASE excess <= 0
  BY <1>1, <1>2 DEF Pruned
<1>3. CASE excess > 0 /\ (d = 0 \/ d > excess)
  <2>1. Pruned(h, n) = SubSeq(h, excess + 1, Len(h)) BY <1>3 DEF Pruned
  <2>2. Len(SubSeq(h, excess + 1, Len(h))) = n - 1 BY <1>1, <1>3, SubSeqProperties
  <2> QED BY <2>1, <2>2
<1>4. CASE excess > 0 /\ ~(d = 0 \/ d > excess)
  <2> DEFINE rest == SubSeq(h, excess + 2, Len(h))
  <2>1. Pruned(h, n) = <<h[d]>> \o rest BY <1>4 DEF Pruned
  <2>2. rest \in Seq(RevisionType) /\ Len(rest) = IF n = 1 THEN 0 ELSE n - 2
    BY <1>1, <1>4, SubSeqProperties
  <2>3. DeployedAt(h) # {} BY <1>4 DEF LastDeployed
  <2>4. d \in 1..Len(h) BY <2>3, LastDeployedIndex
  <2>5. <<h[d]>> \in Seq(RevisionType) /\ Len(<<h[d]>>) = 1 BY <1>1, <2>4
  <2> HIDE DEF rest
  <2>6. Len(<<h[d]>> \o rest) = 1 + Len(rest) BY <2>2, <2>5, ConcatProperties
  <2> QED BY <2>1, <2>2, <2>6
<1> QED BY <1>1, <1>2, <1>3, <1>4

LEMMA InstallBegunType ==
    ASSUME NEW cfg \in ConfigType, NEW own \in BOOLEAN
    PROVE  InstallBegun(cfg, own) \in Seq(RevisionType) /\ InstallBegun(cfg, own) # <<>>
<1>1. Revision(1, "pending-install", cfg, own) \in RevisionType
  BY DEF Revision, RevisionType, Statuses, PendingStatuses
<1> QED BY <1>1 DEF InstallBegun

LEMMA AppendType ==
    ASSUME NEW h \in Seq(RevisionType), NEW r \in RevisionType
    PROVE  Append(h, r) \in Seq(RevisionType) /\ Append(h, r) # <<>>
BY AppendProperties, EmptySeq, LenProperties

LEMMA UpgradeBegunType ==
    ASSUME NEW h \in Seq(RevisionType), h # <<>>,
           NEW cfg \in ConfigType, NEW own \in BOOLEAN, NEW n \in Nat
    PROVE  /\ UpgradeBegun(h, cfg, own, n) \in Seq(RevisionType)
           /\ UpgradeBegun(h, cfg, own, n) # <<>>
<1>1. Last(h).rev \in Nat \ {0} BY LastType DEF RevisionType
<1>2. Revision(Last(h).rev + 1, "pending-upgrade", cfg, own) \in RevisionType
  BY <1>1 DEF Revision, RevisionType, Statuses, PendingStatuses
<1> QED BY <1>2, PrunedType, AppendType DEF UpgradeBegun

LEMMA UpgradeSucceededType ==
    ASSUME NEW h \in Seq(RevisionType), h # <<>>
    PROVE  /\ UpgradeSucceeded(h) \in Seq(RevisionType) /\ UpgradeSucceeded(h) # <<>>
           /\ Len(UpgradeSucceeded(h)) = Len(h)
<1> DEFINE g == UpgradeSucceeded(h)
           base == IF DeployedAt(h) = {} THEN Len(h) - 1 ELSE LastDeployed(h)
           val(i) == IF i = Len(h) THEN [h[i] EXCEPT !.status = "deployed"]
                     ELSE IF i = base THEN [h[i] EXCEPT !.status = "superseded"]
                     ELSE h[i]
<1>1. g = [i \in DOMAIN h |-> val(i)] BY DEF UpgradeSucceeded
<1>2. \A i \in DOMAIN h : h[i] \in RevisionType BY LenProperties, ElementOfSeq
<1>3. \A i \in DOMAIN h : val(i) \in RevisionType
  BY <1>2, StatusChange DEF Statuses
<1> HIDE DEF g, val
<1>4. g \in Seq(RevisionType) /\ Len(g) = Len(h)
  BY <1>1, <1>3, MapType
<1> QED BY <1>4, EmptySeq DEF g

LEMMA RollbackBegunType ==
    ASSUME NEW h \in Seq(RevisionType), h # <<>>, NEW i \in RollbackTargets(h)
    PROVE  RollbackBegun(h, i) \in Seq(RevisionType) /\ RollbackBegun(h, i) # <<>>
<1>1. Last(h).rev \in Nat \ {0} BY LastType DEF RevisionType
<1>2. h[i].cfg \in ConfigType
  <2>1. i \in DOMAIN h BY DEF RollbackTargets
  <2>2. h[i] \in RevisionType BY <2>1, LenProperties, ElementOfSeq
  <2> QED BY <2>2 DEF RevisionType
<1>3. Revision(Last(h).rev + 1, "pending-rollback", h[i].cfg, FALSE) \in RevisionType
  BY <1>1, <1>2 DEF Revision, RevisionType, Statuses, PendingStatuses
<1> QED BY <1>3, AppendType DEF RollbackBegun

LEMMA RollbackDoneType ==
    ASSUME NEW h \in Seq(RevisionType), h # <<>>
    PROVE  /\ RollbackSucceeded(h) \in Seq(RevisionType) /\ RollbackSucceeded(h) # <<>>
           /\ RollbackFailed(h) \in Seq(RevisionType) /\ RollbackFailed(h) # <<>>
           /\ Len(RollbackSucceeded(h)) = Len(h) /\ Len(RollbackFailed(h)) = Len(h)
<1> DEFINE s(i) == IF i = Len(h) THEN [h[i] EXCEPT !.status = "deployed"]
                   ELSE IF h[i].status = "deployed" THEN [h[i] EXCEPT !.status = "superseded"]
                   ELSE h[i]
           f(i) == IF i = Len(h) THEN [h[i] EXCEPT !.status = "failed"]
                   ELSE IF i = Len(h) - 1 THEN [h[i] EXCEPT !.status = "superseded"]
                   ELSE h[i]
           S == RollbackSucceeded(h)
           F == RollbackFailed(h)
<1>1. S = [i \in DOMAIN h |-> s(i)] BY DEF RollbackSucceeded
<1>2. F = [i \in DOMAIN h |-> f(i)] BY DEF RollbackFailed
<1>3. \A i \in DOMAIN h : h[i] \in RevisionType BY LenProperties, ElementOfSeq
<1>4. \A i \in DOMAIN h : s(i) \in RevisionType /\ f(i) \in RevisionType
  BY <1>3, StatusChange DEF Statuses
<1> HIDE DEF s, f, S, F
<1>5. S \in Seq(RevisionType) /\ Len(S) = Len(h) BY <1>1, <1>4, MapType
<1>6. F \in Seq(RevisionType) /\ Len(F) = Len(h) BY <1>2, <1>4, MapType
<1> QED BY <1>5, <1>6, EmptySeq DEF S, F
-----------------------------------------------------------------------------
(* Specs, observations and the decoded status.                             *)
LEMMA LateInitType ==
    ASSUME NEW spec \in SpecType, NEW c \in Charts
    PROVE  /\ lateInitialized(spec, c) \in SpecType
           /\ lateInitialized(spec, c).limit = spec.limit
           /\ lateInitialized(spec, c).policies = spec.policies
<1>1. c.name \in STRING /\ c.version \in STRING BY ChartsAssumption
<1> QED BY <1>1 DEF lateInitialized, SpecType

LEMMA ObservationType ==
    ASSUME NEW st \in StatusType, NEW r \in RevisionType, NEW d \in STRING
    PROVE  /\ generateObservation(st, r, d) \in StatusType
           /\ generateObservation(st, r, d).failed = st.failed
BY DEF generateObservation, StatusType, RevisionType

LEMMA DecodedType ==
    ASSUME NEW old \in StatusType, NEW new \in StatusType
    PROVE  Decoded(old, new) \in StatusType
BY DEF Decoded, StatusType

LEMMA StatusFields ==
    ASSUME NEW o \in ObjectType, NEW st \in StatusType
    PROVE  [o EXCEPT !.status = st] \in ObjectType
BY DEF ObjectType

LEMMA BlankType == NoObject \in ObjectType
<1>1. (CHOOSE s \in Specs : TRUE) \in SpecType BY SpecsAssumption
<1>2. NoStatus \in StatusType BY EmptyStringAssumption DEF NoStatus, StatusType
<1> QED BY <1>1, <1>2 DEF NoObject, New, ObjectType
-----------------------------------------------------------------------------
(* Type correctness, strengthened by where the history cannot be empty.    *)
NonEmpty ==
    pc \in {"installing", "update", "upgrading", "rollingback", "uninstalling", "delete"}
        => hist # <<>>

TypeInv == TypeOK /\ NonEmpty

LEMMA TypeInit == Init => TypeInv
<1> SUFFICES ASSUME Init PROVE TypeInv OBVIOUS
<1>1. cr \in ObjectType
  <2>1. PICK s \in Specs : cr = New(s) BY DEF Init
  <2>2. NoStatus \in StatusType
    BY EmptyStringAssumption DEF NoStatus, StatusType
  <2> QED BY <2>1, <2>2, SpecsAssumption DEF New, ObjectType
<1>2. mem \in ObjectType BY BlankType DEF Init
<1> QED BY <1>1, <1>2, EmptySeq DEF Init, TypeInv, TypeOK, NonEmpty, Labels

LEMMA IdleType == ASSUME Idle PROVE mem' \in ObjectType /\ memFresh' \in BOOLEAN
                                   /\ takeOwnership' \in BOOLEAN /\ pc' = "idle"
BY BlankType DEF Idle

LEMMA FaultType == ASSUME faults \in Nat, NEW k, Fault(k) PROVE faults' \in Nat
BY DEF Fault

LEMMA ObservedType ==
    ASSUME TypeInv, hist # <<>>
    PROVE  /\ Last(hist) \in RevisionType
           /\ Observation \in StatusType /\ Observation.failed = mem.status.failed
<1>1. Last(hist) \in RevisionType BY LastType DEF TypeInv, TypeOK
<1>2. mem.status \in StatusType /\ mem.status.digest \in STRING
  BY DEF TypeInv, TypeOK, ObjectType, StatusType
<1> QED BY <1>1, <1>2, ObservationType DEF Observation

LEMMA EnvironmentType ==
    ASSUME TypeInv, Environment \/ SyncCache PROVE TypeInv'
<1> USE DEF TypeInv, TypeOK, NonEmpty, stored, work, world, bounds, ghosts
<1>1. CASE EditSpec
  <2>1. PICK s \in Specs : ChangedByOthers([cr EXCEPT !.spec = s]) BY <1>1 DEF EditSpec
  <2>2. cr' \in ObjectType BY <2>1, SpecsAssumption DEF ChangedByOthers, ObjectType
  <2>3. edits' \in Nat /\ UNCHANGED <<cache, pc, mem, takeOwnership, world, faults, ghosts>>
    BY <1>1 DEF EditSpec
  <2> QED BY <2>1, <2>2, <2>3 DEF ChangedByOthers
<1>2. CASE DeleteCR
  <2>1. cr' \in ObjectType BY <1>2 DEF DeleteCR, ChangedByOthers, ObjectType
  <2> QED BY <1>2, <2>1 DEF DeleteCR, ChangedByOthers
<1>3. CASE EditSource BY <1>3 DEF EditSource
<1>4. CASE SyncCache BY <1>4 DEF SyncCache
<1> QED BY <1>1, <1>2, <1>3, <1>4 DEF Environment

LEMMA ObserveTypes ==
    ASSUME TypeInv,
           Connect \/ Observe \/ ObserveFails \/ ObserveDetailsFail
    PROVE  TypeInv'
<1> USE DEF TypeInv, TypeOK, NonEmpty, stored, work, world, bounds, ghosts, Labels
<1>1. CASE Connect
  <2>1. withRelease(cache.spec, cache.status) \in BOOLEAN
    BY DEF withRelease, ObjectType, SpecType, StatusType
  <2> QED BY <1>1, <2>1, FaultType DEF Connect
<1>2. CASE ObserveFails BY <1>2, FaultType DEF ObserveFails
<1>3. CASE ObserveMissing BY <1>3 DEF ObserveMissing
<1>4. CASE ObserveDeleting
  BY <1>4, ObservedType, StatusFields DEF ObserveDeleting
<1>5. CASE ObserveError
  BY <1>5, ObservedType, StatusFields DEF ObserveError
<1>6. CASE ObserveHealthy
  <2> DEFINE st == [Observation EXCEPT !.synced = TRUE, !.failed = 0, !.ready = "Available",
                      !.digest = IF @ = "" THEN mem.spec.chart.digest ELSE @]
  <2>1. Observation \in StatusType BY <1>6, ObservedType DEF ObserveHealthy, Observed
  <2>2. mem.spec.chart.digest \in STRING BY DEF ObjectType, SpecType
  <2>3. st \in StatusType BY <2>1, <2>2 DEF StatusType
  <2>4. mem' = [mem EXCEPT !.status = st] BY <1>6 DEF ObserveHealthy
  <2>5. mem' \in ObjectType BY <2>3, <2>4, StatusFields
  <2> QED BY <1>6, <2>5 DEF ObserveHealthy
<1>7. CASE ObserveDetailsFail
  <2> DEFINE st == [Observation EXCEPT !.synced = TRUE, !.failed = 0]
  <2>1. Observation \in StatusType BY <1>7, ObservedType DEF ObserveDetailsFail, Observed
  <2>3. st \in StatusType BY <2>1 DEF StatusType
  <2>4. mem' = [mem EXCEPT !.status = st] BY <1>7 DEF ObserveDetailsFail
  <2>5. mem' \in ObjectType BY <2>3, <2>4, StatusFields
  <2> QED BY <1>7, <2>5, FaultType DEF ObserveDetailsFail
<1>8. CASE ObserveUnhealthy
  <2> DEFINE st == [Observation EXCEPT !.synced = InSync, !.ready = "Unavailable"]
  <2>1. Observation \in StatusType BY <1>8, ObservedType DEF ObserveUnhealthy, Observed
  <2>2. InSync \in BOOLEAN BY DEF InSync, isUpToDate, Comparable
  <2>3. st \in StatusType BY <2>1, <2>2 DEF StatusType
  <2>4. mem' = [mem EXCEPT !.status = st] BY <1>8 DEF ObserveUnhealthy
  <2>5. mem' \in ObjectType BY <2>3, <2>4, StatusFields
  <2>6. hist # <<>> BY <1>8 DEF ObserveUnhealthy, Observed
  <2> QED BY <1>8, <2>5, <2>6 DEF ObserveUnhealthy
<1> QED BY <1>1, <1>2, <1>3, <1>4, <1>5, <1>6, <1>7, <1>8, Zenon DEF Observe

LEMMA EndTypes ==
    ASSUME TypeInv,
           \/ Crash \/ PublishStatus \/ PublishConflicts \/ PublishFails
           \/ Conflicts \/ Finalize
    PROVE  TypeInv'
<1> USE DEF TypeInv, TypeOK, NonEmpty, stored, work, world, bounds, ghosts, Labels
<1>1. CASE Crash BY <1>1, IdleType, FaultType DEF Crash
<1>2. CASE PublishStatus
  <2>1. cr' = [cr EXCEPT !.status = mem.status] /\ Idle BY <1>2 DEF PublishStatus
  <2>2. cr' \in ObjectType BY <2>1, StatusFields DEF ObjectType
  <2>3. cacheFresh' \in BOOLEAN BY <1>2 DEF PublishStatus
  <2> QED BY <1>2, <2>1, <2>2, <2>3, IdleType DEF PublishStatus
<1>3. CASE PublishConflicts BY <1>3, IdleType DEF PublishConflicts
<1>4. CASE PublishFails BY <1>4, IdleType, FaultType DEF PublishFails
<1>5. CASE Conflicts BY <1>5, IdleType DEF Conflicts
<1>6. CASE Finalize
  <2>1. cr' \in ObjectType BY <1>6 DEF Finalize, ObjectType
  <2> QED BY <1>6, <2>1, IdleType DEF Finalize
<1> QED BY <1>1, <1>2, <1>3, <1>4, <1>5, <1>6

LEMMA LateInitializeType ==
    ASSUME TypeInv, NEW c \in Charts, LateInitialize(c)
    PROVE  cr' \in ObjectType /\ mem' \in ObjectType /\ cacheFresh' \in BOOLEAN
<1> DEFINE spec == lateInitialized(mem.spec, c)
<1> USE DEF TypeInv, TypeOK
<1>1. CASE spec = mem.spec BY <1>1 DEF LateInitialize
<1>2. CASE spec # mem.spec
  <2>1. mem.spec \in SpecType /\ cr.status \in StatusType /\ mem.status \in StatusType
    BY DEF ObjectType
  <2>2. spec \in SpecType BY <2>1, LateInitType
  <2>3. Decoded(cr.status, mem.status) \in StatusType BY <2>1, DecodedType
  <2> HIDE DEF spec
  <2>4. cr' = [cr EXCEPT !.spec = spec] BY <1>2 DEF LateInitialize, spec
  <2>5. cr' \in ObjectType BY <2>2, <2>4 DEF ObjectType
  <2>6. mem' = [cr' EXCEPT !.status = Decoded(cr.status, mem.status)] /\ cacheFresh' = FALSE
    BY <1>2 DEF LateInitialize, spec
  <2> QED BY <2>3, <2>5, <2>6, StatusFields
<1> QED BY <1>1, <1>2

LEMMA PulledCharts == \A ref : Pulled(ref) \subseteq Charts
BY DEF Pulled

LEMMA ConfigIsType ==
    ASSUME TypeInv, NEW c \in Charts, ~Unprepared
    PROVE  Config(c) \in ConfigType
<1>1. mem.spec.vals \in Values \cup {FromSource} /\ mem.spec.patch \in Patches \cup {NoPatch}
  BY DEF TypeInv, TypeOK, ObjectType, SpecType
<1>2. composeValuesFromSpec(mem.spec, source) \in Values
  BY <1>1 DEF TypeInv, TypeOK, Unprepared, ValuesUnreadable, composeValuesFromSpec
<1> QED BY <1>1, <1>2 DEF Config, ConfigType

LEMMA DeployTypes == ASSUME TypeInv, Deploy PROVE TypeInv'
<1> USE DEF TypeInv, TypeOK, NonEmpty, stored, work, world, bounds, ghosts, Labels
<1>1. CASE DeployCannotStart
  BY <1>1, FaultType DEF DeployCannotStart, AfterDeploy
<1>2. CASE StartInstall
  <2>1. PICK c \in Charts :
          LateInitialize(c) /\ hist' = InstallBegun(Config(c), takeOwnership)
    BY <1>2, PulledCharts DEF StartInstall
  <2>2. hist' \in Seq(RevisionType) /\ hist' # <<>>
    BY <1>2, <2>1, ConfigIsType, InstallBegunType DEF StartInstall
  <2>3. cr' \in ObjectType /\ mem' \in ObjectType /\ cacheFresh' \in BOOLEAN
    BY <2>1, LateInitializeType
  <2> QED BY <1>2, <2>2, <2>3 DEF StartInstall
<1>3. CASE StartUpgrade
  <2>1. PICK c \in Charts :
          /\ LateInitialize(c)
          /\ hist' = UpgradeBegun(hist, Config(c), takeOwnership, UpgradeMaxHistory)
    BY <1>3, PulledCharts DEF StartUpgrade
  <2>2. UpgradeMaxHistory \in Nat BY BoundsAssumption DEF UpgradeMaxHistory
  <2>3. hist # <<>> BY <1>3 DEF StartUpgrade
  <2>4. hist' \in Seq(RevisionType) /\ hist' # <<>>
    <3>1. Config(c) \in ConfigType BY <1>3, ConfigIsType DEF StartUpgrade
    <3> QED BY <2>1, <2>2, <2>3, <3>1, UpgradeBegunType
  <2>5. cr' \in ObjectType /\ mem' \in ObjectType /\ cacheFresh' \in BOOLEAN
    BY <2>1, LateInitializeType
  <2>6. /\ pc' = "upgrading"
        /\ UNCHANGED <<cache, memFresh, takeOwnership, source, bounds, ghosts>>
    BY <1>3 DEF StartUpgrade
  <2> QED BY <2>4, <2>5, <2>6
<1>4. CASE UpgradeIsRefused
  <2>1. PICK c \in Charts : LateInitialize(c)
    BY <1>4, PulledCharts DEF UpgradeIsRefused
  <2>2. cr' \in ObjectType /\ mem' \in ObjectType /\ cacheFresh' \in BOOLEAN
    BY <2>1, LateInitializeType
  <2> QED BY <1>4, <2>2 DEF UpgradeIsRefused
<1>5. CASE FinishDeploy
  <2>1. hist # <<>> BY <1>5 DEF FinishDeploy
  <2>2. hist' \in Seq(RevisionType) /\ hist' # <<>>
    BY <1>5, <2>1, WithLastType, UpgradeSucceededType DEF FinishDeploy, Statuses
  <2>3. Last(hist') \in RevisionType BY <2>2, LastType
  <2>4. /\ mem.status \in StatusType /\ mem.spec.chart.digest \in STRING
        /\ mem.spec.patch \in Patches \cup {NoPatch} /\ mem.spec.take \in BOOLEAN
    BY DEF ObjectType, SpecType
  <2>5. generateObservation(mem.status, Last(hist'), mem.spec.chart.digest) \in StatusType
    BY <2>3, <2>4, ObservationType
  <2>6. Deployed(hist') \in StatusType BY <2>4, <2>5 DEF Deployed, StatusType
  <2>7. mem' = [mem EXCEPT !.status = Deployed(hist')] BY <1>5 DEF FinishDeploy
  <2>8. mem' \in ObjectType BY <2>6, <2>7, StatusFields
  <2> QED BY <1>5, <2>2, <2>8 DEF FinishDeploy, AfterDeploy
<1>6. CASE FailDeploy
  <2>1. hist' \in Seq(RevisionType) /\ hist' # <<>>
    BY <1>6, WithLastType DEF FailDeploy, Statuses
  <2> QED BY <1>6, <2>1, FaultType DEF FailDeploy, AfterDeploy
<1> QED BY <1>1, <1>2, <1>3, <1>4, <1>5, <1>6, Zenon DEF Deploy

LEMMA CreateTypes ==
    ASSUME TypeInv, StartCreate \/ RecordCreate \/ RecordCreateConflicts
    PROVE  TypeInv'
<1> USE DEF TypeInv, TypeOK, NonEmpty, stored, work, world, bounds, ghosts, Labels
<1>1. CASE StartCreate
  <2>1. cr' \in ObjectType /\ mem' \in ObjectType BY <1>1 DEF StartCreate, ObjectType
  <2> QED BY <1>1, <2>1 DEF StartCreate
<1>2. CASE RecordCreate
  <2>1. Decoded(cr.status, mem.status) \in StatusType BY DecodedType DEF ObjectType
  <2>2. [Decoded(cr.status, mem.status) EXCEPT !.ready = "Creating"] \in StatusType
    BY <2>1 DEF StatusType
  <2>3. mem' \in ObjectType BY <1>2, <2>2, StatusFields DEF RecordCreate
  <2> QED BY <1>2, <2>3 DEF RecordCreate
<1>3. CASE RecordCreateConflicts
  <2>1. mem' \in ObjectType BY <1>3 DEF RecordCreateConflicts, ObjectType, StatusType
  <2>2. memFresh' \in BOOLEAN /\ cacheFresh' \in BOOLEAN
    BY <1>3, Zenon DEF RecordCreateConflicts
  <2>3. /\ lost' = lost + 1 /\ pc' = "publish"
        /\ UNCHANGED <<cr, cache, takeOwnership, world, bounds, tries>>
    BY <1>3 DEF RecordCreateConflicts
  <2> QED BY <2>1, <2>2, <2>3
<1> QED BY <1>1, <1>2, <1>3

LEMMA RetryingType ==
    ASSUME TypeInv, Retrying PROVE mem' \in ObjectType /\ tries' \in Nat /\ hist # <<>>
<1>1. hist # <<>> BY DEF TypeInv, NonEmpty, Retrying
<1>2. tries' \in Nat BY DEF TypeInv, TypeOK, Retrying
<1>3. mem.status \in StatusType BY DEF TypeInv, TypeOK, ObjectType
<1>4. [mem.status EXCEPT !.failed = @ + 1] \in StatusType
  <2>1. mem.status.failed \in Nat BY <1>3 DEF StatusType
  <2>2. mem.status.failed + 1 \in Nat BY <2>1
  <2> QED BY <1>3, <2>2 DEF StatusType
<1>5. mem' = [mem EXCEPT !.status = [mem.status EXCEPT !.failed = @ + 1]]
  BY DEF TypeInv, TypeOK, ObjectType, StatusType, Retrying
<1>6. mem' \in ObjectType BY <1>4, <1>5, StatusFields DEF TypeInv, TypeOK
<1> QED BY <1>1, <1>2, <1>6

LEMMA RetryTypes == ASSUME TypeInv, Retry PROVE TypeInv'
<1> USE DEF TypeInv, TypeOK, NonEmpty, stored, work, world, bounds, ghosts, Labels
<1>1. CASE RetryByUninstall
  <2>1. hist' \in Seq(RevisionType) /\ hist' # <<>>
    BY <1>1, RetryingType, WithLastType DEF RetryByUninstall, Statuses
  <2> QED BY <1>1, <2>1, RetryingType DEF RetryByUninstall
<1>2. CASE RetryByRollback
  <2>1. hist' \in Seq(RevisionType) /\ hist' # <<>>
    BY <1>2, RetryingType, RollbackBegunType DEF RetryByRollback
  <2> QED BY <1>2, <2>1, RetryingType DEF RetryByRollback
<1>3. CASE RetryFails BY <1>3, RetryingType, FaultType DEF RetryFails
<1>4. CASE RetriesExhausted BY <1>4 DEF RetriesExhausted
<1>5. CASE FinishRollback BY <1>5, RollbackDoneType DEF FinishRollback
<1>6. CASE FailRollback BY <1>6, RollbackDoneType, FaultType DEF FailRollback
<1> QED BY <1>1, <1>2, <1>3, <1>4, <1>5, <1>6, Zenon DEF Retry

LEMMA DeleteTypes ==
    ASSUME TypeInv, StartDelete \/ DeleteFails \/ FinishUninstall \/ FailUninstall
    PROVE  TypeInv'
<1> USE DEF TypeInv, TypeOK, NonEmpty, stored, work, world, bounds, ghosts, Labels
<1>1. Deleting \in ObjectType BY DEF Deleting, ObjectType, StatusType
<1>2. CASE StartDelete BY <1>2, WithLastType DEF StartDelete, Statuses
<1>3. CASE DeleteFails BY <1>1, <1>3, FaultType DEF DeleteFails
<1>4. CASE FinishUninstall BY <1>1, <1>4, EmptySeq DEF FinishUninstall
<1>5. CASE FailUninstall BY <1>1, <1>5, EmptySeq, FaultType DEF FailUninstall
<1> QED BY <1>2, <1>3, <1>4, <1>5

LEMMA TypeStep == TypeInv /\ [Next]_vars => TypeInv'
<1> SUFFICES ASSUME TypeInv, [Next]_vars PROVE TypeInv' OBVIOUS
<1>1. CASE UNCHANGED vars
  BY <1>1 DEF vars, stored, work, world, bounds, ghosts, TypeInv, TypeOK, NonEmpty
<1>2. CASE Next
  BY <1>2, EnvironmentType, ObserveTypes, EndTypes, DeployTypes, CreateTypes,
     RetryTypes, DeleteTypes, Zenon
  DEF Next, Worker, Faults
<1> QED BY <1>1, <1>2

(* Every state of the specification is well-typed: in particular the        *)
(* history is a sequence of revisions after every operation of Helm, and    *)
(* the status one the API server accepts after every decoding.              *)
THEOREM TypeCorrect == Spec => []TypeOK
<1>1. TypeInv => TypeOK BY DEF TypeInv
<1> QED BY <1>1, TypeInit, TypeStep, PTL DEF Spec
-----------------------------------------------------------------------------
(* The finalizer.  What is fresh agrees with the stored object; where the   *)
(* controller may finalize, Helm holds nothing or the policies keep it; and  *)
(* as long as Helm holds something, or is about to, the finalizer is there.  *)
Kept == cr.gone /\ "Delete" \notin cr.spec.policies

Agrees == /\ mem.spec = cr.spec /\ mem.deleted = cr.deleted
          /\ mem.finalizer = cr.finalizer /\ mem.gone = cr.gone

LifeInv ==
    /\ cacheFresh => cache = cr
    /\ memFresh => Agrees
    /\ pc \notin {"idle", "publish"} => ~mem.gone
    /\ pc = "missing" => hist = <<>>
    /\ pc = "finalize" => hist = <<>> \/ "Delete" \notin mem.spec.policies
    /\ hist # <<>> \/ pc \in {"create", "installing"} => (cr.finalizer /\ ~cr.gone) \/ Kept

(* The retry counter.  Every count is within some spec's limit; retries that *)
(* the stored counter misses are lost or about to be stored.                 *)
Capped(o) ==
    /\ o.spec.limit \in Limits \cup {NoLimit}
    /\ o.status.failed = 0 \/ \E n \in Limits : o.status.failed <= n

BudgetInv ==
    /\ Capped(cr) /\ Capped(cache) /\ Capped(mem)
    /\ tries <= cr.status.failed + lost + 1
    /\ pc \notin {"rollingback", "uninstalling", "publish"} => tries <= cr.status.failed + lost
    /\ memFresh => tries <= mem.status.failed + lost

LEMMA ObjectFields ==
    ASSUME NEW o \in ObjectType, NEW st
    PROVE  LET p == [o EXCEPT !.status = st]
           IN  /\ p.spec = o.spec /\ p.deleted = o.deleted /\ p.finalizer = o.finalizer
               /\ p.gone = o.gone /\ p.status = st
BY DEF ObjectType

(* A late-initializing write changes name and version only. *)
LEMMA LateInitializeLife ==
    ASSUME TypeInv, NEW c \in Charts, LateInitialize(c),
           memFresh => Agrees, cacheFresh => cache = cr, UNCHANGED <<cache, memFresh>>
    PROVE  /\ cacheFresh' => cache' = cr'
           /\ memFresh' => Agrees'
           /\ mem'.gone = mem.gone
           /\ cr'.gone = cr.gone /\ cr'.finalizer = cr.finalizer
           /\ cr'.spec.policies = cr.spec.policies
<1> DEFINE spec == lateInitialized(mem.spec, c)
<1> USE DEF Agrees
<1>1. CASE spec = mem.spec BY <1>1 DEF LateInitialize
<1>2. CASE spec # mem.spec
  <2>1. mem.spec \in SpecType BY DEF TypeInv, TypeOK, ObjectType
  <2>2. spec.policies = mem.spec.policies BY <2>1, LateInitType
  <2> HIDE DEF spec
  <2>3. memFresh /\ cr' = [cr EXCEPT !.spec = spec] /\ cacheFresh' = FALSE
    BY <1>2 DEF LateInitialize, spec
  <2>4. mem' = [cr' EXCEPT !.status = Decoded(cr.status, mem.status)]
    BY <1>2 DEF LateInitialize, spec
  <2>5. cr' \in ObjectType BY LateInitializeType
  <2>6. mem'.spec = cr'.spec /\ mem'.deleted = cr'.deleted
        /\ mem'.finalizer = cr'.finalizer /\ mem'.gone = cr'.gone
    BY <2>4, <2>5, ObjectFields
  <2>7. cr'.gone = cr.gone /\ cr'.finalizer = cr.finalizer /\ cr'.spec = spec
    BY <2>3 DEF TypeInv, TypeOK, ObjectType
  <2> QED BY <2>2, <2>3, <2>6, <2>7
<1> QED BY <1>1, <1>2

LEMMA LifeInit == Init => LifeInv
<1> SUFFICES ASSUME Init PROVE LifeInv OBVIOUS
<1>1. PICK s \in Specs : cr = New(s) BY DEF Init
<1> QED BY <1>1 DEF Init, LifeInv, New, NoObject

LEMMA EnvironmentLife ==
    ASSUME TypeInv, LifeInv, Environment \/ SyncCache PROVE LifeInv'
<1> USE DEF LifeInv, Agrees, Kept, stored, work, world, bounds, ghosts
<1>0. cr \in ObjectType BY DEF TypeInv, TypeOK
<1>1. CASE EditSpec
  <2>1. PICK s \in Specs : ChangedByOthers([cr EXCEPT !.spec = s]) BY <1>1 DEF EditSpec
  <2>2. /\ cr' = [cr EXCEPT !.spec = s] /\ cacheFresh' = FALSE /\ memFresh' = FALSE
    BY <2>1 DEF ChangedByOthers
  <2>3. cr'.finalizer = cr.finalizer /\ cr'.gone = cr.gone BY <1>0, <2>2 DEF ObjectType
  <2>4. ~cr.gone /\ UNCHANGED <<cache, pc, mem, takeOwnership, world, faults, ghosts>>
    BY <1>1 DEF EditSpec
  <2> QED BY <2>2, <2>3, <2>4
<1>2. CASE DeleteCR
  <2>1. cr'.finalizer = cr.finalizer /\ cr'.gone = ~cr.finalizer /\ cr'.spec = cr.spec
    BY <1>0, <1>2 DEF DeleteCR, ChangedByOthers, ObjectType
  <2>2. /\ ~cr.gone /\ cacheFresh' = FALSE /\ memFresh' = FALSE
        /\ UNCHANGED <<cache, pc, mem, takeOwnership, world, bounds, ghosts>>
    BY <1>2 DEF DeleteCR, ChangedByOthers
  <2> QED BY <2>1, <2>2
<1>3. CASE EditSource BY <1>3 DEF EditSource
<1>4. CASE SyncCache BY <1>4 DEF SyncCache
<1> QED BY <1>1, <1>2, <1>3, <1>4 DEF Environment

LEMMA ObserveLife ==
    ASSUME TypeInv, LifeInv,
           Connect \/ Observe \/ ObserveFails \/ ObserveDetailsFail
    PROVE  LifeInv'
<1> USE DEF LifeInv, Agrees, Kept, stored, work, world, bounds, ghosts
<1>0. mem \in ObjectType BY DEF TypeInv, TypeOK
<1>1. CASE Connect BY <1>1 DEF Connect
<1>2. CASE ObserveFails BY <1>2 DEF ObserveFails
<1>3. CASE ObserveMissing BY <1>3 DEF ObserveMissing
<1>4. CASE ObserveDeleting BY <1>0, <1>4, ObjectFields DEF ObserveDeleting
<1>5. CASE ObserveError BY <1>0, <1>5, ObjectFields DEF ObserveError
<1>6. CASE ObserveHealthy BY <1>0, <1>6, ObjectFields DEF ObserveHealthy, Observed
<1>7. CASE ObserveDetailsFail BY <1>0, <1>7, ObjectFields DEF ObserveDetailsFail, Observed
<1>8. CASE ObserveUnhealthy
  <2>1. PICK st : mem' = [mem EXCEPT !.status = st] BY <1>8 DEF ObserveUnhealthy
  <2>2. pc = "connected" /\ hist # <<>> /\ pc' \in {"publish", "update"}
        /\ UNCHANGED <<stored, memFresh, takeOwnership, world, bounds, ghosts>>
    BY <1>8 DEF ObserveUnhealthy, Observed
  <2> QED BY <1>0, <2>1, <2>2, ObjectFields
<1> QED BY <1>1, <1>2, <1>3, <1>4, <1>5, <1>6, <1>7, <1>8, Zenon DEF Observe

LEMMA EndLife ==
    ASSUME TypeInv, LifeInv,
           \/ Crash \/ PublishStatus \/ PublishConflicts \/ PublishFails
           \/ Conflicts \/ Finalize
    PROVE  LifeInv'
<1> USE DEF LifeInv, Agrees, Kept, stored, work, world, bounds, ghosts, Idle
<1>0. cr \in ObjectType BY DEF TypeInv, TypeOK
<1>1. CASE Crash BY <1>1 DEF Crash
<1>2. CASE PublishStatus
  <2>1. cr'.finalizer = cr.finalizer /\ cr'.gone = cr.gone /\ cr'.spec = cr.spec
    BY <1>0, <1>2, ObjectFields DEF PublishStatus
  <2>2. cacheFresh' => cacheFresh /\ cr' = cr BY <1>2 DEF PublishStatus
  <2>3. Idle /\ UNCHANGED <<cache, world>> BY <1>2 DEF PublishStatus
  <2> QED BY <2>1, <2>2, <2>3
<1>3. CASE PublishConflicts BY <1>3 DEF PublishConflicts
<1>4. CASE PublishFails BY <1>4 DEF PublishFails
<1>5. CASE Conflicts BY <1>5 DEF Conflicts
<1>6. CASE Finalize
  <2>1. cr'.gone = TRUE /\ cr'.spec = cr.spec BY <1>0, <1>6 DEF Finalize, ObjectType
  <2>2. hist = <<>> \/ "Delete" \notin cr.spec.policies BY <1>6 DEF Finalize
  <2>3. Idle /\ cacheFresh' = FALSE /\ UNCHANGED <<cache, world>> BY <1>6 DEF Finalize
  <2> QED BY <2>1, <2>2, <2>3
<1> QED BY <1>1, <1>2, <1>3, <1>4, <1>5, <1>6

LEMMA DeployLife == ASSUME TypeInv, LifeInv, Deploy PROVE LifeInv'
<1> USE DEF LifeInv, Kept, stored, work, world, bounds, ghosts
<1>0. mem \in ObjectType BY DEF TypeInv, TypeOK
<1>1. CASE DeployCannotStart
  BY <1>1 DEF DeployCannotStart, AfterDeploy, Deploying, Agrees
<1>2. CASE StartInstall
  <2>1. PICK c \in Charts : LateInitialize(c) BY <1>2, PulledCharts DEF StartInstall
  <2>2. pc = "create" /\ pc' = "installing" /\ UNCHANGED <<cache, memFresh>>
    BY <1>2 DEF StartInstall
  <2> QED BY <2>1, <2>2, LateInitializeLife
<1>3. CASE StartUpgrade
  <2>1. PICK c \in Charts : LateInitialize(c) BY <1>3, PulledCharts DEF StartUpgrade
  <2>2. pc = "update" /\ pc' = "upgrading" /\ UNCHANGED <<cache, memFresh>>
    BY <1>3 DEF StartUpgrade
  <2> QED BY <2>1, <2>2, LateInitializeLife DEF TypeInv, NonEmpty
<1>4. CASE UpgradeIsRefused
  <2>1. PICK c \in Charts : LateInitialize(c) BY <1>4, PulledCharts DEF UpgradeIsRefused
  <2>2. pc = "update" /\ pc' = "publish" /\ UNCHANGED <<cache, memFresh, hist>>
    BY <1>4 DEF UpgradeIsRefused
  <2> QED BY <2>1, <2>2, LateInitializeLife
<1>5. CASE FinishDeploy
  <2>1. PICK st : mem' = [mem EXCEPT !.status = st] BY <1>5 DEF FinishDeploy
  <2>2. pc \in {"installing", "upgrading"} /\ pc' \in {"created", "publish"}
        /\ UNCHANGED <<stored, memFresh>>
    BY <1>5 DEF FinishDeploy, AfterDeploy
  <2>3. hist # <<>> BY <2>2 DEF TypeInv, NonEmpty
  <2> QED BY <1>0, <2>1, <2>2, <2>3, ObjectFields DEF Agrees
<1>6. CASE FailDeploy
  <2>1. pc \in {"installing", "upgrading"} /\ pc' \in {"created", "publish"}
        /\ UNCHANGED <<stored, work>>
    BY <1>6 DEF FailDeploy, AfterDeploy
  <2>2. hist # <<>> BY <2>1 DEF TypeInv, NonEmpty
  <2> QED BY <2>1, <2>2 DEF Agrees
<1> QED BY <1>1, <1>2, <1>3, <1>4, <1>5, <1>6, Zenon DEF Deploy

LEMMA CreateLife ==
    ASSUME TypeInv, LifeInv, StartCreate \/ RecordCreate \/ RecordCreateConflicts
    PROVE  LifeInv'
<1> USE DEF LifeInv, Kept, Agrees, stored, work, world, bounds, ghosts
<1>0. mem \in ObjectType /\ cr \in ObjectType /\ cache \in ObjectType
  BY DEF TypeInv, TypeOK
<1>1. CASE StartCreate
  <2>1. /\ cr'.finalizer = TRUE /\ mem'.finalizer = TRUE
        /\ cr'.gone = cr.gone /\ mem'.gone = mem.gone
        /\ cr'.spec = cr.spec /\ mem'.spec = mem.spec
        /\ cr'.deleted = cr.deleted /\ mem'.deleted = mem.deleted
    BY <1>0, <1>1 DEF StartCreate, ObjectType
  <2>2. pc = "missing" /\ memFresh /\ pc' \in {"create", "publish"} /\ cacheFresh' = FALSE
        /\ UNCHANGED <<cache, memFresh, world>>
    BY <1>1 DEF StartCreate
  <2> QED BY <2>1, <2>2
<1>2. CASE RecordCreate
  <2>1. PICK st : mem' = [mem EXCEPT !.status = st] BY <1>2 DEF RecordCreate
  <2>2. pc' = "publish" /\ cacheFresh' = FALSE /\ UNCHANGED <<cr, cache, memFresh, hist>>
    BY <1>2 DEF RecordCreate
  <2> QED BY <1>0, <2>1, <2>2, ObjectFields
<1>3. CASE RecordCreateConflicts
  <2>1. mem'.spec = cache.spec /\ mem'.deleted = cache.deleted
        /\ mem'.finalizer = cache.finalizer /\ mem'.gone = cache.gone
    BY <1>0, <1>3 DEF RecordCreateConflicts, ObjectType
  <2>2. /\ pc' = "publish" /\ cacheFresh' = FALSE /\ (memFresh' => cacheFresh)
        /\ UNCHANGED <<cr, cache, hist>>
    BY <1>3 DEF RecordCreateConflicts, world
  <2> QED BY <2>1, <2>2
<1> QED BY <1>1, <1>2, <1>3

LEMMA RetryLife == ASSUME TypeInv, LifeInv, Retry PROVE LifeInv'
<1> USE DEF LifeInv, Kept, stored, work, world, bounds, ghosts
<1>1. CASE Retrying /\ pc' \in {"uninstalling", "rollingback", "publish"}
           /\ UNCHANGED <<stored, memFresh>>
  <2>1. hist # <<>> BY <1>1, RetryingType
  <2>2. mem'.spec = mem.spec /\ mem'.deleted = mem.deleted
        /\ mem'.finalizer = mem.finalizer /\ mem'.gone = mem.gone
    BY <1>1 DEF Retrying, TypeInv, TypeOK, ObjectType
  <2> QED BY <1>1, <2>1, <2>2 DEF Agrees, Retrying
<1>2. CASE RetriesExhausted BY <1>2 DEF RetriesExhausted, Agrees
<1>3. CASE FinishRollback \/ FailRollback
  BY <1>3 DEF FinishRollback, FailRollback, Agrees, TypeInv, NonEmpty
<1> QED
  BY <1>1, <1>2, <1>3 DEF Retry, RetryByUninstall, RetryByRollback, RetryFails

LEMMA DeleteLife ==
    ASSUME TypeInv, LifeInv, StartDelete \/ DeleteFails \/ FinishUninstall \/ FailUninstall
    PROVE  LifeInv'
<1> USE DEF LifeInv, Kept, Agrees, stored, work, world, bounds, ghosts
<1>1. Deleting.spec = mem.spec /\ Deleting.deleted = mem.deleted
      /\ Deleting.finalizer = mem.finalizer /\ Deleting.gone = mem.gone
  BY DEF Deleting, TypeInv, TypeOK, ObjectType
<1>2. CASE StartDelete BY <1>2 DEF StartDelete, TypeInv, NonEmpty
<1>3. CASE DeleteFails BY <1>1, <1>3 DEF DeleteFails
<1>4. CASE FinishUninstall BY <1>1, <1>4 DEF FinishUninstall
<1>5. CASE FailUninstall BY <1>1, <1>5 DEF FailUninstall, TypeInv, NonEmpty
<1> QED BY <1>2, <1>3, <1>4, <1>5

LEMMA LifeStep == TypeInv /\ LifeInv /\ [Next]_vars => LifeInv'
<1> SUFFICES ASSUME TypeInv, LifeInv, [Next]_vars PROVE LifeInv' OBVIOUS
<1>1. CASE UNCHANGED vars
  BY <1>1 DEF vars, stored, work, world, bounds, ghosts, LifeInv, Agrees, Kept
<1>2. CASE Next
  BY <1>2, EnvironmentLife, ObserveLife, EndLife, DeployLife, CreateLife,
     RetryLife, DeleteLife, Zenon
  DEF Next, Worker, Faults
<1> QED BY <1>1, <1>2

(* The object is never let go while Helm holds a release the policies would  *)
(* have deleted.                                                            *)
THEOREM NothingOrphaned == Spec => []NoOrphan
<1>1. LifeInv => NoOrphan BY DEF LifeInv, NoOrphan, Kept
<1> QED BY <1>1, TypeInit, TypeStep, LifeInit, LifeStep, PTL DEF Spec
-----------------------------------------------------------------------------
(* The budget of retries.  Only numbers matter: the counter of an object and *)
(* the limit of its spec.                                                    *)
LEMMA LimitNat == ASSUME NEW n \in Limits PROVE n \in Nat
<1>1. PICK s \in Specs : n = s.limit /\ n # NoLimit BY DEF Limits
<1>2. s \in SpecType BY SpecsAssumption
<1> QED BY <1>1, <1>2 DEF SpecType

LEMMA Numbers ==
    ASSUME TypeInv
    PROVE  /\ tries \in Nat /\ lost \in Nat
           /\ cr.status.failed \in Nat /\ cache.status.failed \in Nat
           /\ mem.status.failed \in Nat
           /\ cr \in ObjectType /\ cache \in ObjectType /\ mem \in ObjectType
BY DEF TypeInv, TypeOK, ObjectType, StatusType

LEMMA SpecCapped == \A s \in Specs : s.limit \in Limits \cup {NoLimit}
BY DEF Limits

(* What an object keeps of its limit and counter keeps it within the limits. *)
LEMMA CappedKept ==
    ASSUME NEW o, NEW p, NEW q, Capped(o), Capped(p),
           q.spec.limit = o.spec.limit,
           \/ q.status.failed = o.status.failed
           \/ q.status.failed = p.status.failed
           \/ q.status.failed = 0
    PROVE  Capped(q)
BY DEF Capped

LEMMA BlankCapped == Capped(NoObject)
<1>1. (CHOOSE s \in Specs : TRUE) \in Specs BY SpecsAssumption
<1>2. NoObject.spec.limit \in Limits \cup {NoLimit} BY <1>1, SpecCapped DEF NoObject, New
<1>3. NoObject.status.failed = 0 BY DEF NoObject, New, NoStatus
<1> QED BY <1>2, <1>3 DEF Capped

LEMMA BudgetInit == Init => BudgetInv
<1> SUFFICES ASSUME Init PROVE BudgetInv OBVIOUS
<1>1. PICK s \in Specs : cr = New(s) BY DEF Init
<1>2. cr.status.failed = 0 /\ cr.spec = s BY <1>1 DEF New, NoStatus
<1>3. Capped(cr) BY <1>2, SpecCapped DEF Capped
<1>4. cache = cr /\ mem = NoObject /\ memFresh = FALSE /\ tries = 0 /\ lost = 0
  BY DEF Init
<1> QED BY <1>2, <1>3, <1>4, BlankCapped DEF BudgetInv

(* Most steps leave the stored object and the bookkeeping alone, move the    *)
(* worker on, and change of its object at most what is not counted.          *)
LEMMA UncountedBudget ==
    ASSUME TypeInv, BudgetInv,
           UNCHANGED <<cr, cache, memFresh, tries, lost>>,
           mem'.spec.limit = mem.spec.limit,
           mem'.status.failed = mem.status.failed,
           \/ pc' \in {"rollingback", "uninstalling", "publish"}
           \/ pc \notin {"rollingback", "uninstalling", "publish"}
    PROVE  BudgetInv'
<1>1. Capped(mem)' BY CappedKept DEF BudgetInv, Capped
<1> QED BY <1>1 DEF BudgetInv, Capped

LEMMA EnvironmentBudget ==
    ASSUME TypeInv, BudgetInv, Environment \/ SyncCache PROVE BudgetInv'
<1> USE DEF stored, work, world, bounds, ghosts
<1>1. CASE EditSpec
  <2>1. PICK s \in Specs : ChangedByOthers([cr EXCEPT !.spec = s]) BY <1>1 DEF EditSpec
  <2>2. cr' = [cr EXCEPT !.spec = s] /\ memFresh' = FALSE BY <2>1 DEF ChangedByOthers
  <2>3. cr'.spec = s /\ cr'.status = cr.status BY <2>2, Numbers DEF ObjectType
  <2>4. Capped(cr)' BY <2>3, SpecCapped DEF BudgetInv, Capped
  <2>5. UNCHANGED <<cache, pc, mem, tries, lost>> BY <1>1 DEF EditSpec
  <2> QED BY <2>2, <2>3, <2>4, <2>5 DEF BudgetInv, Capped
<1>2. CASE DeleteCR
  <2>1. cr'.spec = cr.spec /\ cr'.status = cr.status
    BY <1>2, Numbers DEF DeleteCR, ChangedByOthers, ObjectType
  <2>2. memFresh' = FALSE /\ UNCHANGED <<cache, pc, mem, tries, lost>>
    BY <1>2 DEF DeleteCR, ChangedByOthers
  <2> QED BY <2>1, <2>2 DEF BudgetInv, Capped
<1>3. CASE EditSource BY <1>3 DEF EditSource, BudgetInv, Capped
<1>4. CASE SyncCache BY <1>4 DEF SyncCache, BudgetInv, Capped
<1> QED BY <1>1, <1>2, <1>3, <1>4 DEF Environment

LEMMA ObserveBudget ==
    ASSUME TypeInv, LifeInv, BudgetInv,
           Connect \/ Observe \/ ObserveFails \/ ObserveDetailsFail
    PROVE  BudgetInv'
<1> USE DEF stored, work, world, bounds, ghosts
<1>1. CASE Connect
  <2>1. /\ pc = "idle" /\ pc' \in {"connected", "finalize"} /\ mem' = cache /\ memFresh' = cacheFresh
        /\ UNCHANGED <<cr, cache, tries, lost>>
    BY <1>1 DEF Connect
  <2>2. cacheFresh => cache = cr BY DEF LifeInv
  <2> QED BY <2>1, <2>2 DEF BudgetInv, Capped
<1>2. CASE ObserveFails \/ ObserveMissing
  <2>1. pc = "connected" /\ UNCHANGED <<cr, cache, mem, memFresh, tries, lost>>
    BY <1>2 DEF ObserveFails, ObserveMissing
  <2> QED BY <2>1, UncountedBudget
<1>3. CASE ObserveDeleting \/ ObserveError \/ ObserveUnhealthy
  <2>1. hist # <<>> /\ pc = "connected" /\ UNCHANGED <<cr, cache, memFresh, tries, lost>>
    BY <1>3 DEF ObserveDeleting, ObserveError, ObserveUnhealthy, Observed
  <2>2. Observation \in StatusType /\ Observation.failed = mem.status.failed
    BY <2>1, ObservedType
  <2> DEFINE unhealthy == [Observation EXCEPT !.synced = InSync, !.ready = "Unavailable"]
  <2>3. PICK st : mem' = [mem EXCEPT !.status = st] /\ st.failed = mem.status.failed
    <3>1. unhealthy.failed = mem.status.failed BY <2>2 DEF StatusType
    <3>2. \/ mem' = [mem EXCEPT !.status = Observation]
          \/ mem' = [mem EXCEPT !.status = unhealthy]
      BY <1>3 DEF ObserveDeleting, ObserveError, ObserveUnhealthy
    <3> QED BY <2>2, <3>1, <3>2, Zenon
  <2>4. mem'.spec = mem.spec /\ mem'.status = st BY <2>3, Numbers, ObjectFields
  <2> QED BY <2>1, <2>3, <2>4, UncountedBudget
<1>4. CASE ObserveHealthy \/ ObserveDetailsFail
  <2>1. hist # <<>> /\ tries' = 0 /\ pc' = "publish" /\ UNCHANGED <<cr, cache, memFresh, lost>>
    BY <1>4 DEF ObserveHealthy, ObserveDetailsFail, Observed
  <2>2. Observation \in StatusType BY <2>1, ObservedType
  <2> DEFINE healthy == [Observation EXCEPT !.synced = TRUE, !.failed = 0, !.ready = "Available",
                            !.digest = IF @ = "" THEN mem.spec.chart.digest ELSE @]
             noDetails == [Observation EXCEPT !.synced = TRUE, !.failed = 0]
  <2>3. PICK st : mem' = [mem EXCEPT !.status = st] /\ st.failed = 0
    <3>1. healthy.failed = 0 /\ noDetails.failed = 0 BY <2>2 DEF StatusType
    <3>2. \/ mem' = [mem EXCEPT !.status = healthy]
          \/ mem' = [mem EXCEPT !.status = noDetails]
      BY <1>4 DEF ObserveHealthy, ObserveDetailsFail
    <3> QED BY <3>1, <3>2, Zenon
  <2>4. mem'.spec = mem.spec /\ mem'.status.failed = 0 BY <2>3, Numbers, ObjectFields
  <2>5. Capped(mem)' BY <2>4 DEF BudgetInv, Capped
  <2> QED BY <2>1, <2>4, <2>5, Numbers DEF BudgetInv, Capped
<1> QED BY <1>1, <1>2, <1>3, <1>4, Zenon DEF Observe

LEMMA EndBudget ==
    ASSUME TypeInv, BudgetInv,
           \/ Crash \/ PublishStatus \/ PublishConflicts \/ PublishFails
           \/ Conflicts \/ Finalize
    PROVE  BudgetInv'
<1> USE DEF stored, work, world, bounds, ghosts
<1>1. ASSUME Idle PROVE Capped(mem)' /\ pc' = "idle" /\ memFresh' = FALSE
  BY <1>1, BlankCapped DEF Idle, Capped
<1>2. CASE Crash \/ PublishConflicts \/ PublishFails
  <2>1. Idle /\ lost' = lost + 1 /\ UNCHANGED <<cr, cache, tries>>
    BY <1>2 DEF Crash, PublishConflicts, PublishFails
  <2> QED BY <1>1, <2>1, Numbers DEF BudgetInv, Capped
<1>3. CASE PublishStatus
  <2>1. /\ memFresh /\ cr' = [cr EXCEPT !.status = mem.status]
        /\ Idle /\ UNCHANGED <<cache, tries, lost>>
    BY <1>3 DEF PublishStatus
  <2>2. cr'.spec = cr.spec /\ cr'.status = mem.status BY <2>1, Numbers, ObjectFields
  <2>3. Capped(cr)' BY <2>2 DEF BudgetInv, Capped
  <2> QED BY <1>1, <2>1, <2>2, <2>3, Numbers DEF BudgetInv, Capped
<1>4. CASE Conflicts
  <2>1. pc \in {"missing", "finalize", "update"} /\ Idle /\ UNCHANGED <<cr, cache, tries, lost>>
    BY <1>4 DEF Conflicts
  <2> QED BY <1>1, <2>1 DEF BudgetInv, Capped
<1>5. CASE Finalize
  <2>1. pc = "finalize" /\ Idle /\ UNCHANGED <<cache, tries, lost>> BY <1>5 DEF Finalize
  <2>2. cr'.spec = cr.spec /\ cr'.status = cr.status
    BY <1>5, Numbers DEF Finalize, ObjectType
  <2> QED BY <1>1, <2>1, <2>2 DEF BudgetInv, Capped
<1> QED BY <1>2, <1>3, <1>4, <1>5

(* A response decoded over the worker's object forgets no retry: where the   *)
(* stored counter is zero, no retry is waiting to be stored.                 *)
LEMMA DecodedBudget ==
    ASSUME TypeInv, BudgetInv, pc \notin {"rollingback", "uninstalling", "publish"}
    PROVE  LET st == Decoded(cr.status, mem.status)
           IN  /\ tries <= st.failed + lost
               /\ st.failed = cr.status.failed \/ st.failed = mem.status.failed
BY Numbers DEF Decoded, BudgetInv

LEMMA LateInitializeBudget ==
    ASSUME TypeInv, BudgetInv, NEW c \in Charts, LateInitialize(c),
           memFresh => Agrees,
           pc \in {"create", "update"},
           UNCHANGED <<cache, memFresh, tries, lost>>
    PROVE  BudgetInv'
<1> DEFINE spec == lateInitialized(mem.spec, c)
<1>1. CASE spec = mem.spec
  <2>1. UNCHANGED <<cr, mem>> BY <1>1 DEF LateInitialize
  <2> QED BY <2>1, UncountedBudget
<1>2. CASE spec # mem.spec
  <2>1. mem.spec \in SpecType BY Numbers DEF ObjectType
  <2>2. spec.limit = mem.spec.limit BY <2>1, LateInitType
  <2> HIDE DEF spec
  <2>3. memFresh /\ cr' = [cr EXCEPT !.spec = spec] BY <1>2 DEF LateInitialize, spec
  <2>4. mem' = [cr' EXCEPT !.status = Decoded(cr.status, mem.status)]
    BY <1>2 DEF LateInitialize, spec
  <2>5. cr' \in ObjectType BY LateInitializeType
  <2>6. mem'.spec = cr'.spec /\ mem'.status = Decoded(cr.status, mem.status)
    BY <2>4, <2>5, ObjectFields
  <2>7. cr'.spec = spec /\ cr'.status = cr.status BY <2>3, Numbers DEF ObjectType
  <2>8. Capped(cr)' /\ Capped(mem)'
    BY <2>2, <2>6, <2>7, DecodedBudget DEF BudgetInv, Capped
  <2> QED BY <2>6, <2>7, <2>8, DecodedBudget DEF BudgetInv, Capped
<1> QED BY <1>1, <1>2

LEMMA DeployBudget == ASSUME TypeInv, LifeInv, BudgetInv, Deploy PROVE BudgetInv'
<1> USE DEF stored, work, world, bounds, ghosts
<1>1. CASE DeployCannotStart
  <2>1. pc \in {"create", "update"} /\ UNCHANGED <<cr, cache, mem, memFresh, tries, lost>>
    BY <1>1 DEF DeployCannotStart, Deploying
  <2> QED BY <2>1, UncountedBudget
<1>2. CASE StartInstall \/ StartUpgrade \/ UpgradeIsRefused
  <2>1. PICK c \in Charts : LateInitialize(c)
    BY <1>2, PulledCharts DEF StartInstall, StartUpgrade, UpgradeIsRefused
  <2>2. pc \in {"create", "update"} /\ UNCHANGED <<cache, memFresh, tries, lost>>
    BY <1>2 DEF StartInstall, StartUpgrade, UpgradeIsRefused, Deploying
  <2> QED BY <2>1, <2>2, LateInitializeBudget DEF LifeInv
<1>3. CASE FinishDeploy
  <2>1. pc \in {"installing", "upgrading"} /\ UNCHANGED <<cr, cache, memFresh, tries, lost>>
        /\ mem' = [mem EXCEPT !.status = Deployed(hist')]
    BY <1>3 DEF FinishDeploy
  <2>2. Deployed(hist').failed = mem.status.failed
    BY Numbers DEF Deployed, generateObservation, ObjectType, StatusType
  <2>3. mem'.spec = mem.spec /\ mem'.status = Deployed(hist')
    BY <2>1, Numbers, ObjectFields
  <2> QED BY <2>1, <2>2, <2>3, UncountedBudget
<1>4. CASE FailDeploy
  <2>1. pc \in {"installing", "upgrading"} /\ UNCHANGED <<cr, cache, mem, memFresh, tries, lost>>
    BY <1>4 DEF FailDeploy
  <2> QED BY <2>1, UncountedBudget
<1> QED BY <1>1, <1>2, <1>3, <1>4, Zenon DEF Deploy

LEMMA CreateBudget ==
    ASSUME TypeInv, LifeInv, BudgetInv, StartCreate \/ RecordCreate \/ RecordCreateConflicts
    PROVE  BudgetInv'
<1> USE DEF stored, work, world, bounds, ghosts
<1>1. CASE StartCreate
  <2>1. /\ cr'.spec = cr.spec /\ cr'.status = cr.status
        /\ mem'.spec = mem.spec /\ mem'.status = mem.status
    BY <1>1, Numbers DEF StartCreate, ObjectType
  <2>2. pc = "missing" /\ UNCHANGED <<cache, memFresh, tries, lost>> BY <1>1 DEF StartCreate
  <2> QED BY <2>1, <2>2 DEF BudgetInv, Capped
<1>2. CASE RecordCreate
  <2> DEFINE st == [Decoded(cr.status, mem.status) EXCEPT !.ready = "Creating"]
  <2>1. pc = "created" /\ mem' = [mem EXCEPT !.status = st]
        /\ UNCHANGED <<cr, cache, memFresh, tries, lost>>
    BY <1>2 DEF RecordCreate
  <2>2. st.failed = Decoded(cr.status, mem.status).failed BY DEF Decoded
  <2> HIDE DEF st
  <2>3. mem'.spec = mem.spec /\ mem'.status = st BY <2>1, Numbers, ObjectFields
  <2>4. Capped(mem)' BY <2>1, <2>2, <2>3, DecodedBudget DEF BudgetInv, Capped
  <2> QED BY <2>1, <2>2, <2>3, <2>4, DecodedBudget DEF BudgetInv, Capped
<1>3. CASE RecordCreateConflicts
  <2>1. /\ pc = "created" /\ mem' = [cache EXCEPT !.status.ready = "Creating"]
        /\ memFresh' = cacheFresh /\ lost' = lost + 1 /\ UNCHANGED <<cr, cache, tries>>
    BY <1>3 DEF RecordCreateConflicts
  <2>2. mem'.spec = cache.spec /\ mem'.status.failed = cache.status.failed
    BY <2>1, Numbers DEF ObjectType, StatusType
  <2>3. cacheFresh => cache = cr BY DEF LifeInv
  <2> QED BY <2>1, <2>2, <2>3, Numbers DEF BudgetInv, Capped
<1> QED BY <1>1, <1>2, <1>3

LEMMA RetryBudgetStep == ASSUME TypeInv, BudgetInv, Retry PROVE BudgetInv'
<1> USE DEF stored, work, world, bounds, ghosts
<1>1. CASE Retrying /\ pc' \in {"uninstalling", "rollingback", "publish"}
           /\ UNCHANGED <<cr, cache, memFresh, lost>>
  <2>1. /\ pc = "update" /\ tries' = tries + 1
        /\ mem.spec.limit # NoLimit /\ ~(mem.status.failed >= mem.spec.limit)
    BY <1>1 DEF Retrying, shouldRollBack, rollBackEnabled, rollBackLimitReached
  <2>2. mem'.spec = mem.spec /\ mem'.status.failed = mem.status.failed + 1
    BY <1>1, Numbers DEF Retrying, ObjectType, StatusType
  <2>3. mem.spec.limit \in Limits BY <2>1 DEF BudgetInv, Capped
  <2>4. mem'.status.failed <= mem.spec.limit BY <2>1, <2>2, <2>3, LimitNat, Numbers
  <2>5. Capped(mem)' BY <2>2, <2>3, <2>4 DEF Capped
  <2> QED BY <1>1, <2>1, <2>2, <2>5, Numbers DEF BudgetInv, Capped
<1>2. CASE RetriesExhausted \/ FinishRollback \/ FailRollback
  <2>1. pc' = "publish" /\ UNCHANGED <<cr, cache, mem, memFresh, tries, lost>>
    BY <1>2 DEF RetriesExhausted, FinishRollback, FailRollback
  <2> QED BY <2>1, UncountedBudget
<1> QED BY <1>1, <1>2 DEF Retry, RetryByUninstall, RetryByRollback, RetryFails

LEMMA DeleteBudget ==
    ASSUME TypeInv, BudgetInv, StartDelete \/ DeleteFails \/ FinishUninstall \/ FailUninstall
    PROVE  BudgetInv'
<1> USE DEF stored, work, world, bounds, ghosts
<1>1. Deleting.spec = mem.spec /\ Deleting.status.failed = mem.status.failed
  BY Numbers DEF Deleting, ObjectType, StatusType
<1>2. /\ mem' \in {mem, Deleting} /\ UNCHANGED <<cr, cache, memFresh, tries, lost>>
      /\ pc' \in {"uninstalling", "publish"}
  BY DEF StartDelete, DeleteFails, FinishUninstall, FailUninstall
<1> QED BY <1>1, <1>2, UncountedBudget

LEMMA BudgetStep == TypeInv /\ LifeInv /\ BudgetInv /\ [Next]_vars => BudgetInv'
<1> SUFFICES ASSUME TypeInv, LifeInv, BudgetInv, [Next]_vars PROVE BudgetInv' OBVIOUS
<1>1. CASE UNCHANGED vars
  BY <1>1 DEF vars, stored, work, world, bounds, ghosts, BudgetInv, Capped
<1>2. CASE Next
  BY <1>2, EnvironmentBudget, ObserveBudget, EndBudget, DeployBudget, CreateBudget,
     RetryBudgetStep, DeleteBudget, Zenon
  DEF Next, Worker, Faults
<1> QED BY <1>1, <1>2

(* Between reconciles no more retries were made than some spec's rollback   *)
(* limit, plus one for every status that was not stored, however the worker *)
(* is interrupted and whatever the API server refuses.                      *)
THEOREM RetriesWithinBudget == Spec => []RetryBudget
<1>1. ASSUME TypeInv, BudgetInv PROVE RetryBudget
  <2> SUFFICES ASSUME pc = "idle", tries > lost
               PROVE  \E n \in Limits : tries <= n + lost
    BY DEF RetryBudget
  <2>1. tries <= cr.status.failed + lost BY <1>1 DEF BudgetInv
  <2>2. PICK n \in Limits : cr.status.failed <= n BY <1>1, <2>1, Numbers DEF BudgetInv, Capped
  <2> QED BY <1>1, <2>1, <2>2, LimitNat, Numbers
<1> QED
  BY <1>1, TypeInit, TypeStep, LifeInit, LifeStep, BudgetInit, BudgetStep, PTL DEF Spec
-----------------------------------------------------------------------------
(* The length of the history.  Without a rollback limit nothing is rolled   *)
(* back, and every other operation that adds a revision prunes.             *)
LEMMA NothingRolledBack ==
    ASSUME TypeInv, BudgetInv, Limits = {} PROVE ~Retrying
BY DEF BudgetInv, Capped, Retrying, shouldRollBack, rollBackEnabled

LEMMA HistoryStep ==
    ASSUME TypeInv, BudgetInv, HistoryBounded, [Next]_vars PROVE HistoryBounded'
<1> SUFFICES ASSUME MaxHistory > 0, Limits = {}
             PROVE  Len(hist') <= IF MaxHistory = 1 THEN 2 ELSE MaxHistory
  BY DEF HistoryBounded, Limits
<1> DEFINE Bounded(h) == Len(h) <= IF MaxHistory = 1 THEN 2 ELSE MaxHistory
<1>0. /\ hist \in Seq(RevisionType) /\ MaxHistory \in Nat \ {0} /\ Bounded(hist)
      /\ Len(hist) \in Nat /\ ~Retrying
  BY BoundsAssumption, NothingRolledBack, LenProperties DEF TypeInv, TypeOK, HistoryBounded
<1>1. CASE hist' = hist BY <1>0, <1>1
<1>2. CASE hist' = <<>> BY <1>0, <1>2
<1>3. CASE StartInstall
  <2>1. Len(hist') = 1 BY <1>3 DEF StartInstall, InstallBegun
  <2> QED BY <1>0, <2>1
<1>4. CASE StartUpgrade
  <2>1. hist # <<>> BY <1>4 DEF StartUpgrade, TypeInv, NonEmpty
  <2>2. PICK r : hist' = Append(Pruned(hist, MaxHistory), r)
    BY <1>4 DEF StartUpgrade, UpgradeBegun, UpgradeMaxHistory
  <2>3. Pruned(hist, MaxHistory) \in Seq(RevisionType) BY <1>0, PrunedType
  <2>4. Len(hist') = Len(Pruned(hist, MaxHistory)) + 1 BY <2>2, <2>3, LenProperties
  <2>5. Len(Pruned(hist, MaxHistory)) \in Nat BY <2>3, LenProperties
  <2> QED BY <1>0, <2>4, <2>5, PrunedLength
<1>5. CASE FinishDeploy \/ FailDeploy \/ FinishRollback \/ FailRollback \/ StartDelete
  <2>1. hist # <<>>
    BY <1>5 DEF FinishDeploy, FailDeploy, FinishRollback, FailRollback, StartDelete,
                TypeInv, NonEmpty
  <2>2. \/ \E s \in Statuses : hist' = WithLast(hist, s)
        \/ hist' \in {UpgradeSucceeded(hist), RollbackSucceeded(hist), RollbackFailed(hist)}
    <3>1. {"deployed", "failed", "uninstalling"} \subseteq Statuses BY DEF Statuses
    <3> QED BY <1>5, <3>1 DEF FinishDeploy, FailDeploy, FinishRollback, FailRollback, StartDelete
  <2> QED
    BY <1>0, <2>1, <2>2, WithLastType, UpgradeSucceededType, RollbackDoneType
<1>6. ASSUME Next PROVE \/ hist' \in {hist, <<>>} \/ StartInstall \/ StartUpgrade
                        \/ FinishDeploy \/ FailDeploy \/ FinishRollback \/ FailRollback
                        \/ StartDelete
  <2> USE DEF world, stored, work, bounds, ghosts
  <2>1. CASE Environment \/ SyncCache
    BY <2>1 DEF Environment, EditSpec, DeleteCR, EditSource, SyncCache
  <2>2. CASE Connect \/ Observe \/ ObserveFails \/ ObserveDetailsFail
    BY <2>2 DEF Connect, Observe, ObserveFails, ObserveDetailsFail, ObserveMissing,
       ObserveDeleting, ObserveError, ObserveHealthy, ObserveUnhealthy
  <2>3. CASE Crash \/ PublishStatus \/ PublishConflicts \/ PublishFails \/ Conflicts \/ Finalize
    BY <2>3 DEF Crash, PublishStatus, PublishConflicts, PublishFails, Conflicts, Finalize
  <2>4. CASE Deploy BY <2>4 DEF Deploy, DeployCannotStart, UpgradeIsRefused
  <2>5. CASE StartCreate \/ RecordCreate \/ RecordCreateConflicts
    BY <2>5 DEF StartCreate, RecordCreate, RecordCreateConflicts
  <2>6. CASE Retry
    BY <1>0, <2>6 DEF Retry, RetryByUninstall, RetryByRollback, RetryFails, RetriesExhausted
  <2>7. CASE StartDelete \/ DeleteFails \/ FinishUninstall \/ FailUninstall
    BY <2>7 DEF DeleteFails, FinishUninstall, FailUninstall
  <2> QED BY <1>6, <2>1, <2>2, <2>3, <2>4, <2>5, <2>6, <2>7, Zenon DEF Next, Worker, Faults
<1>7. CASE UNCHANGED vars BY <1>1, <1>7 DEF vars, world
<1> QED BY <1>1, <1>2, <1>3, <1>4, <1>5, <1>6, <1>7

(* maxHistory is kept by installs and upgrades, for every limit and however *)
(* many of them fail, as long as nothing is rolled back.                    *)
THEOREM HistoryStaysBounded == Spec => []HistoryBounded
<1>1. Init => HistoryBounded
  <2> SUFFICES ASSUME Init, MaxHistory > 0
               PROVE  Len(hist) <= IF MaxHistory = 1 THEN 2 ELSE MaxHistory
    BY DEF HistoryBounded
  <2>1. Len(hist) = 0 BY DEF Init
  <2> QED BY <2>1, BoundsAssumption
<1> QED
  BY <1>1, TypeInit, TypeStep, LifeInit, LifeStep, BudgetInit, BudgetStep, HistoryStep, PTL
  DEF Spec
=============================================================================
