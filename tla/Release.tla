------------------------------- MODULE Release -------------------------------
(***************************************************************************)
(* One Release custom resource and its controller: a user who edits and    *)
(* deletes it, the API server that stores it, the informer cache that      *)
(* lags behind, the worker that runs the managed reconciler with the       *)
(* external client of pkg/controller/*/release/release.go, and the history *)
(* Helm keeps.                                                             *)
(*                                                                         *)
(* Reconciles of one object never overlap, but everything else happens     *)
(* between the steps of one: edits while Helm runs, a worker that dies     *)
(* with its results unsaved, a final status write that is refused because  *)
(* the object changed meanwhile.  A Helm operation is two steps, the       *)
(* pending revision it writes first and the outcome it writes last.        *)
(***************************************************************************)
EXTENDS ReleaseRules

CONSTANTS Specs,        \* the specs a user may ask for
          Broken,       \* charts whose deployment always fails
          MaxHistory,   \* spec.forProvider.maxHistory
          FaultKinds,   \* which faults may happen
          MaxFaults,    \* bound: how many of them
          MaxEdits,     \* bound: edits of the spec and of the source
          MaxRevision   \* bound: revisions Helm writes

AllFaults == {"StaleRead", "Crash", "Publish", "Helm", "Deploy", "Uninstall", "Details"}

ASSUME SpecsAssumption == Specs # {} /\ Specs \subseteq SpecType
ASSUME BrokenAssumption == Broken \subseteq Charts
ASSUME BoundsAssumption ==
    /\ MaxHistory \in Nat /\ MaxFaults \in Nat /\ MaxEdits \in Nat
    /\ MaxRevision \in Nat \ {0}
    /\ FaultKinds \subseteq AllFaults

VARIABLES
    cr,            \* the object in the API server
    cache,         \* the informer's copy
    cacheFresh,    \* the copy has the object's resourceVersion
    pc,            \* where the worker is in a reconcile
    mem,           \* the worker's object
    memFresh,      \* a write of it would not conflict
    takeOwnership, \* the argument the Helm client was made with
    hist,          \* Helm's history of the release
    source,        \* content of the ConfigMap or Secret specs refer to
    faults, edits, \* how much of the bounds is used
    tries,         \* observation: retries since the release was last healthy
    lost           \* observation: reconciles whose status was never stored

stored  == <<cr, cache, cacheFresh>>
work    == <<mem, memFresh, takeOwnership>>
world   == <<hist, source>>
bounds  == <<faults, edits>>
ghosts  == <<tries, lost>>
vars    == <<stored, pc, work, world, bounds, ghosts>>

ObjectType ==
    [spec: SpecType, status: StatusType,
     deleted: BOOLEAN, finalizer: BOOLEAN, gone: BOOLEAN]

Labels == {"idle", "connected", "missing", "create", "installing", "created",
           "update", "upgrading", "rollingback", "uninstalling",
           "delete", "finalize", "publish"}

TypeOK ==
    /\ cr \in ObjectType /\ cache \in ObjectType /\ mem \in ObjectType
    /\ cacheFresh \in BOOLEAN /\ memFresh \in BOOLEAN /\ takeOwnership \in BOOLEAN
    /\ pc \in Labels
    /\ hist \in Seq(RevisionType)
    /\ source \in Values \cup {NoSource}
    /\ faults \in Nat /\ edits \in Nat /\ tries \in Nat /\ lost \in Nat

New(spec) == [spec |-> spec, status |-> NoStatus,
              deleted |-> FALSE, finalizer |-> FALSE, gone |-> FALSE]

NoObject == New(CHOOSE s \in Specs : TRUE)

Init ==
    /\ \E s \in Specs : cr = New(s)
    /\ cache = cr /\ cacheFresh = TRUE
    /\ pc = "idle" /\ mem = NoObject /\ memFresh = FALSE /\ takeOwnership = FALSE
    /\ hist = <<>> /\ source \in Values
    /\ faults = 0 /\ edits = 0 /\ tries = 0 /\ lost = 0

Fault(kind) == kind \in FaultKinds /\ faults < MaxFaults /\ faults' = faults + 1
-----------------------------------------------------------------------------
(* The user, the cluster and the informer.                                 *)

(* Whatever is written by others makes the worker's object stale. *)
ChangedByOthers(obj) == cr' = obj /\ cacheFresh' = FALSE /\ memFresh' = FALSE

EditSpec ==
    /\ ~cr.gone /\ edits < MaxEdits /\ edits' = edits + 1
    /\ \E s \in Specs \ {cr.spec} : ChangedByOthers([cr EXCEPT !.spec = s])
    /\ UNCHANGED <<cache, pc, mem, takeOwnership, world, faults, ghosts>>

(* Without a finalizer the API server removes the object at once. *)
DeleteCR ==
    /\ ~cr.gone /\ ~cr.deleted
    /\ ChangedByOthers([cr EXCEPT !.deleted = TRUE, !.gone = ~cr.finalizer])
    /\ UNCHANGED <<cache, pc, mem, takeOwnership, world, bounds, ghosts>>

EditSource ==
    /\ edits < MaxEdits /\ edits' = edits + 1
    /\ source' \in (Values \cup {NoSource}) \ {source}
    /\ UNCHANGED <<stored, pc, work, hist, faults, ghosts>>

SyncCache ==
    /\ ~cacheFresh
    /\ cache' = cr /\ cacheFresh' = TRUE
    /\ UNCHANGED <<cr, pc, work, world, bounds, ghosts>>

(* The worker forgets its object when a reconcile ends, however it ends. *)
Idle ==
    pc' = "idle" /\ mem' = NoObject /\ memFresh' = FALSE /\ takeOwnership' = FALSE

Crash ==
    /\ pc # "idle" /\ Fault("Crash")
    /\ Idle /\ lost' = lost + 1
    /\ UNCHANGED <<stored, world, edits, tries>>
-----------------------------------------------------------------------------
(* Connect and Observe.                                                    *)

(* A release that is to be kept is not even looked at on deletion. *)
Connect ==
    /\ pc = "idle" /\ ~cache.gone
    /\ IF cacheFresh THEN UNCHANGED faults ELSE Fault("StaleRead")
    /\ pc' = IF cache.deleted /\ "Delete" \notin cache.spec.policies THEN "finalize" ELSE "connected"
    /\ mem' = cache /\ memFresh' = cacheFresh
    /\ takeOwnership' = withRelease(cache.spec, cache.status)
    /\ UNCHANGED <<stored, world, edits, ghosts>>

(* GetLastRelease fails for another reason than "not found". *)
ObserveFails ==
    /\ pc = "connected" /\ Fault("Helm") /\ pc' = "publish"
    /\ UNCHANGED <<stored, work, world, edits, ghosts>>

(* Mutant: every error of GetLastRelease counts as "not found". *)
ObserveMissing_AnyError ==
    /\ pc = "connected"
    /\ pc' = IF mem.deleted THEN "finalize"
             ELSE IF "Create" \in mem.spec.policies \/ ~mem.finalizer THEN "missing" ELSE "publish"
    /\ UNCHANGED <<stored, work, world, bounds, ghosts>>

ObserveMissing ==
    /\ pc = "connected" /\ hist = <<>>
    /\ pc' = IF mem.deleted THEN "finalize"
             ELSE IF "Create" \in mem.spec.policies \/ ~mem.finalizer THEN "missing" ELSE "publish"
    /\ UNCHANGED <<stored, work, world, bounds, ghosts>>

Observation == generateObservation(mem.status, Last(hist), mem.status.digest)

(* Mutant: a deleted object is compared like any other. *)
ObserveDeleting_Compared ==
    /\ pc = "connected" /\ hist # <<>> /\ mem.deleted
    /\ mem' = [mem EXCEPT !.status = Observation]
    /\ pc' = IF isUpToDateFails(mem.spec, Last(hist), Observation, source) THEN "publish" ELSE "delete"
    /\ UNCHANGED <<stored, memFresh, takeOwnership, world, bounds, ghosts>>

(* A deleted object is not compared: its sources may be gone already. *)
ObserveDeleting ==
    /\ pc = "connected" /\ hist # <<>> /\ mem.deleted
    /\ mem' = [mem EXCEPT !.status = Observation]
    /\ pc' = "delete"
    /\ UNCHANGED <<stored, memFresh, takeOwnership, world, bounds, ghosts>>

ObserveError ==
    /\ pc = "connected" /\ hist # <<>> /\ ~mem.deleted
    /\ isUpToDateFails(mem.spec, Last(hist), Observation, source)
    /\ mem' = [mem EXCEPT !.status = Observation]
    /\ pc' = "publish"
    /\ UNCHANGED <<stored, memFresh, takeOwnership, world, bounds, ghosts>>

InSync == isUpToDate(mem.spec, Last(hist), Observation, source)

Observed == pc = "connected" /\ hist # <<>> /\ ~mem.deleted
            /\ ~isUpToDateFails(mem.spec, Last(hist), Observation, source)

Healthy == InSync /\ Last(hist).status = "deployed"

(* In sync and deployed: the failure counter starts over, and a digest the *)
(* status does not know yet is taken from the spec.                        *)
ObserveHealthy ==
    /\ Observed /\ Healthy
    /\ mem' = [mem EXCEPT !.status =
                  [Observation EXCEPT !.synced = TRUE, !.failed = 0, !.ready = "Available",
                      !.digest = IF @ = "" THEN mem.spec.chart.digest ELSE @]]
    /\ pc' = "publish" /\ tries' = 0
    /\ UNCHANGED <<stored, memFresh, takeOwnership, world, bounds, lost>>

(* The connection details are read after the counter is reset and before   *)
(* the condition is set.                                                   *)
ObserveDetailsFail ==
    /\ Observed /\ Healthy /\ Fault("Details")
    /\ mem' = [mem EXCEPT !.status = [Observation EXCEPT !.synced = TRUE, !.failed = 0]]
    /\ pc' = "publish" /\ tries' = 0
    /\ UNCHANGED <<stored, memFresh, takeOwnership, world, edits, lost>>

ObserveUnhealthy ==
    /\ Observed /\ ~Healthy
    /\ LET status == [Observation EXCEPT !.synced = InSync, !.ready = "Unavailable"]
       IN  /\ mem' = [mem EXCEPT !.status = status]
           /\ pc' = IF \/ ResourceUpToDate(mem.spec, status)
                       \/ "Update" \notin mem.spec.policies
                    THEN "publish" ELSE "update"
    /\ UNCHANGED <<stored, memFresh, takeOwnership, world, bounds, ghosts>>
-----------------------------------------------------------------------------
(* The end of a reconcile.                                                 *)

(* The status is written last, all of it, and only if nothing else changed *)
(* the object since it was read.                                           *)
PublishStatus ==
    /\ pc = "publish" /\ memFresh
    /\ cr' = [cr EXCEPT !.status = mem.status]
    /\ cacheFresh' = (cacheFresh /\ cr' = cr)
    /\ Idle
    /\ UNCHANGED <<cache, world, bounds, ghosts>>

PublishConflicts ==
    /\ pc = "publish" /\ ~memFresh
    /\ Idle /\ lost' = lost + 1
    /\ UNCHANGED <<stored, world, bounds, tries>>

PublishFails ==
    /\ pc = "publish" /\ Fault("Publish")
    /\ Idle /\ lost' = lost + 1
    /\ UNCHANGED <<stored, world, edits, tries>>

(* Writes on the way to Helm that the API server refuses end the reconcile. *)
Conflicts ==
    /\ ~memFresh
    /\ \/ pc \in {"missing", "finalize"}
       \/ pc = "update" /\ ~mem.finalizer
    /\ Idle
    /\ UNCHANGED <<stored, world, bounds, ghosts>>

(* The finalizer goes once Helm knows nothing of the release any more, or   *)
(* when the release is to be kept.                                          *)
Finalize ==
    /\ pc = "finalize" /\ memFresh
    /\ cr' = [cr EXCEPT !.finalizer = FALSE, !.gone = TRUE]
    /\ cacheFresh' = FALSE
    /\ Idle
    /\ UNCHANGED <<cache, world, bounds, ghosts>>
-----------------------------------------------------------------------------
(* deploy, shared by Create and Update.                                    *)

(* A response of the API server is decoded into the worker's object: what  *)
(* the stored status leaves out keeps the worker's value.                  *)
Decoded(old, new) ==
    [state    |-> IF old.state = "" THEN new.state ELSE old.state,
     revision |-> IF old.revision = 0 THEN new.revision ELSE old.revision,
     digest   |-> IF old.digest = "" THEN new.digest ELSE old.digest,
     own      |-> old.own \/ new.own,
     sha      |-> IF old.sha = NoPatch THEN new.sha ELSE old.sha,
     failed   |-> IF old.failed = 0 THEN new.failed ELSE old.failed,
     synced   |-> old.synced \/ new.synced,
     ready    |-> IF old.ready = "" THEN new.ready ELSE old.ready]

(* What deploy stops at before it asks for the chart. *)
Unprepared ==
    \/ ValuesUnreadable(mem.spec, source) \/ PatchesUnreadable(mem.spec, source)
    \/ CredsUnresolvable(mem.spec)

(* The name and version of the chart are late-initialized by an update of   *)
(* the object, which brings the stored status back.                         *)
LateInitialize(chart) ==
    LET spec == lateInitialized(mem.spec, chart)
    IN  IF spec = mem.spec THEN UNCHANGED <<cr, cacheFresh, mem>>
        ELSE /\ memFresh
             /\ cr' = [cr EXCEPT !.spec = spec]
             /\ mem' = [cr' EXCEPT !.status = Decoded(cr.status, mem.status)]
             /\ cacheFresh' = FALSE

Config(chart) ==
    [chart |-> chart, vals |-> composeValuesFromSpec(mem.spec, source),
     patch |-> mem.spec.patch]

Deploying ==
    \/ pc = "create"
    \/ pc = "update" /\ mem.finalizer /\ ~shouldRollBack(mem.spec, mem.status)

AfterDeploy == IF pc \in {"create", "installing"} THEN "created" ELSE "publish"

DeployCannotStart ==
    /\ Deploying
    /\ \/ /\ \/ Unprepared
             \/ Pulled(mem.spec.chart) = {}
             \/ /\ ~memFresh
                /\ \E c \in Pulled(mem.spec.chart) : lateInitialized(mem.spec, c) # mem.spec
          /\ UNCHANGED faults
       \/ Fault("Helm")
    /\ pc' = AfterDeploy
    /\ UNCHANGED <<stored, work, world, edits, ghosts>>

StartInstall ==
    /\ pc = "create" /\ ~Unprepared
    /\ \E c \in Pulled(mem.spec.chart) :
          LateInitialize(c) /\ hist' = InstallBegun(Config(c), takeOwnership)
    /\ pc' = "installing"
    /\ UNCHANGED <<cache, memFresh, takeOwnership, source, bounds, ghosts>>

(* The Helm client for upgrades gets maxHistory, the one for rollbacks does *)
(* not.  Mutant: neither does.                                              *)
UpgradeMaxHistory_Unset == 0

UpgradeMaxHistory == MaxHistory

StartUpgrade ==
    /\ Deploying /\ pc = "update" /\ ~Unprepared
    /\ ~UpgradeRefused(hist) /\ Last(hist).rev < MaxRevision
    /\ \E c \in Pulled(mem.spec.chart) :
          LateInitialize(c) /\ hist' = UpgradeBegun(hist, Config(c), takeOwnership, UpgradeMaxHistory)
    /\ pc' = "upgrading"
    /\ UNCHANGED <<cache, memFresh, takeOwnership, source, bounds, ghosts>>

UpgradeIsRefused ==
    /\ Deploying /\ pc = "update" /\ ~Unprepared
    /\ UpgradeRefused(hist)
    /\ \E c \in Pulled(mem.spec.chart) : LateInitialize(c)
    /\ pc' = "publish"
    /\ UNCHANGED <<cache, memFresh, takeOwnership, world, bounds, ghosts>>

(* Mutants: the hash is taken of the values; it is not recorded at all. *)
Deployed_HashOfValues(h) ==
    [generateObservation(mem.status, Last(h), mem.spec.chart.digest) EXCEPT
        !.sha = mem.spec.vals, !.own = mem.spec.take]

Deployed_NoHash(h) ==
    [generateObservation(mem.status, Last(h), mem.spec.chart.digest) EXCEPT
        !.own = mem.spec.take]

(* What deploy writes into the status when Helm is done. *)
Deployed(h) ==
    [generateObservation(mem.status, Last(h), mem.spec.chart.digest) EXCEPT
        !.sha = mem.spec.patch, !.own = mem.spec.take]

FinishDeploy ==
    /\ pc \in {"installing", "upgrading"}
    /\ Last(hist).cfg.chart \notin Broken
    /\ hist' = IF pc = "installing" THEN WithLast(hist, "deployed") ELSE UpgradeSucceeded(hist)
    /\ mem' = [mem EXCEPT !.status = Deployed(hist')]
    /\ pc' = AfterDeploy
    /\ UNCHANGED <<stored, memFresh, takeOwnership, source, bounds, ghosts>>

FailDeploy ==
    /\ pc \in {"installing", "upgrading"}
    /\ IF Last(hist).cfg.chart \in Broken THEN UNCHANGED faults ELSE Fault("Deploy")
    /\ hist' = WithLast(hist, "failed")
    /\ pc' = AfterDeploy
    /\ UNCHANGED <<stored, work, source, edits, ghosts>>
-----------------------------------------------------------------------------
(* Create: the finalizer, which every object gets, and the pending           *)
(* annotation are written first, by updates that insist on the latest       *)
(* version of the object.                                                   *)
StartCreate ==
    /\ pc = "missing" /\ memFresh
    /\ cr' = [cr EXCEPT !.finalizer = TRUE] /\ mem' = [mem EXCEPT !.finalizer = TRUE]
    /\ cacheFresh' = FALSE
    /\ pc' = IF "Create" \in mem.spec.policies THEN "create" ELSE "publish"
    /\ UNCHANGED <<cache, memFresh, takeOwnership, world, bounds, ghosts>>

(* The outcome is recorded in annotations, whether Create failed or not. *)
RecordCreate ==
    /\ pc = "created" /\ memFresh
    /\ mem' = [mem EXCEPT !.status = [Decoded(cr.status, mem.status) EXCEPT !.ready = "Creating"]]
    /\ cacheFresh' = FALSE
    /\ pc' = "publish"
    /\ UNCHANGED <<cr, cache, memFresh, takeOwnership, world, bounds, ghosts>>

(* On a conflict the object is read again, and with it goes all that Create *)
(* put into its status.                                                     *)
RecordCreateConflicts ==
    /\ pc = "created" /\ ~memFresh
    /\ mem' = [cache EXCEPT !.status.ready = "Creating"] /\ memFresh' = cacheFresh
    /\ cacheFresh' = FALSE
    /\ lost' = lost + 1
    /\ pc' = "publish"
    /\ UNCHANGED <<cr, cache, takeOwnership, world, bounds, tries>>
-----------------------------------------------------------------------------
(* Update on a failed release: rollback, or uninstall of a first revision.  *)

Retrying ==
    /\ pc = "update" /\ mem.finalizer
    /\ shouldRollBack(mem.spec, mem.status)
    /\ ~rollBackLimitReached(mem.spec, mem.status)
    /\ mem' = [mem EXCEPT !.status.failed = @ + 1]
    /\ tries' = tries + 1

(* Mutant: every retry uninstalls. *)
RetryByUninstall_Always ==
    /\ Retrying
    /\ hist' = WithLast(hist, "uninstalling") /\ pc' = "uninstalling"
    /\ UNCHANGED <<stored, memFresh, takeOwnership, source, bounds, lost>>

RetryByUninstall ==
    /\ Retrying /\ mem.status.revision = 1
    /\ hist' = WithLast(hist, "uninstalling") /\ pc' = "uninstalling"
    /\ UNCHANGED <<stored, memFresh, takeOwnership, source, bounds, lost>>

RetryByRollback ==
    /\ Retrying /\ mem.status.revision # 1
    /\ Last(hist).rev < MaxRevision
    /\ \E i \in RollbackTargets(hist) : hist' = RollbackBegun(hist, i)
    /\ pc' = "rollingback"
    /\ UNCHANGED <<stored, memFresh, takeOwnership, source, bounds, lost>>

(* Helm has no such revision, or cannot be asked: the attempt counts. *)
RetryFails ==
    /\ Retrying
    /\ \/ mem.status.revision # 1 /\ RollbackTargets(hist) = {} /\ UNCHANGED faults
       \/ Fault("Helm")
    /\ pc' = "publish"
    /\ UNCHANGED <<stored, memFresh, takeOwnership, world, edits, lost>>

RetriesExhausted ==
    /\ pc = "update" /\ mem.finalizer
    /\ shouldRollBack(mem.spec, mem.status)
    /\ rollBackLimitReached(mem.spec, mem.status)
    /\ pc' = "publish"
    /\ UNCHANGED <<stored, work, world, bounds, ghosts>>

FinishRollback ==
    /\ pc = "rollingback" /\ Last(hist).cfg.chart \notin Broken
    /\ hist' = RollbackSucceeded(hist) /\ pc' = "publish"
    /\ UNCHANGED <<stored, work, source, bounds, ghosts>>

FailRollback ==
    /\ pc = "rollingback"
    /\ IF Last(hist).cfg.chart \in Broken THEN UNCHANGED faults ELSE Fault("Deploy")
    /\ hist' = RollbackFailed(hist) /\ pc' = "publish"
    /\ UNCHANGED <<stored, work, source, edits, ghosts>>
-----------------------------------------------------------------------------
(* Delete, and the end of every uninstall. *)

Deleting ==
    IF mem.deleted THEN [mem EXCEPT !.status.ready = "Deleting"] ELSE mem

StartDelete ==
    /\ pc = "delete"
    /\ hist' = WithLast(hist, "uninstalling") /\ pc' = "uninstalling"
    /\ UNCHANGED <<stored, work, source, bounds, ghosts>>

DeleteFails ==
    /\ pc = "delete" /\ Fault("Helm")
    /\ mem' = Deleting /\ pc' = "publish"
    /\ UNCHANGED <<stored, memFresh, takeOwnership, world, edits, ghosts>>

FinishUninstall ==
    /\ pc = "uninstalling"
    /\ hist' = <<>> /\ mem' = Deleting /\ pc' = "publish"
    /\ UNCHANGED <<stored, memFresh, takeOwnership, source, bounds, ghosts>>

(* A hook or a deletion that fails leaves the revision as it is; an error  *)
(* while waiting for the objects to go is reported after the history went.  *)
FailUninstall ==
    /\ pc = "uninstalling" /\ Fault("Uninstall")
    /\ hist' \in {hist, <<>>} /\ mem' = Deleting /\ pc' = "publish"
    /\ UNCHANGED <<stored, memFresh, takeOwnership, source, edits, ghosts>>
-----------------------------------------------------------------------------
Environment == EditSpec \/ DeleteCR \/ EditSource

Observe ==
    \/ ObserveMissing \/ ObserveDeleting \/ ObserveError
    \/ ObserveHealthy \/ ObserveUnhealthy

Deploy ==
    \/ DeployCannotStart \/ StartInstall \/ StartUpgrade \/ UpgradeIsRefused
    \/ FinishDeploy \/ FailDeploy

Retry ==
    \/ RetryByUninstall \/ RetryByRollback \/ RetryFails \/ RetriesExhausted
    \/ FinishRollback \/ FailRollback

Worker ==
    \/ Connect \/ Observe \/ StartCreate \/ Deploy \/ RecordCreate \/ RecordCreateConflicts
    \/ Retry \/ StartDelete \/ FinishUninstall
    \/ Finalize \/ Conflicts \/ PublishStatus \/ PublishConflicts

Faults ==
    \/ Crash \/ ObserveFails \/ ObserveDetailsFail \/ PublishFails
    \/ DeleteFails \/ FailUninstall

Next == Environment \/ SyncCache \/ Worker \/ Faults

(* The informer delivers what it watches, and the work queue runs the       *)
(* worker again after every poll interval; users and faults owe nothing.    *)
Spec == Init /\ [][Next]_vars /\ WF_vars(SyncCache) /\ WF_vars(Worker)
=============================================================================
