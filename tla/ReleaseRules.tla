----------------------------- MODULE ReleaseRules -----------------------------
(***************************************************************************)
(* The decisions of the Release controller, as operators on a spec, a      *)
(* status and the revision Helm reports: pkg/controller/*/release/         *)
(* observe.go, patch.go and the helpers of release.go.  The namespaced and *)
(* the cluster-scoped controller decide alike.                             *)
(*                                                                         *)
(* A spec is a record                                                      *)
(*   chart     [url, name, version, digest]; url is a published chart or   *)
(*             NoURL, the others are strings, "" when unset                *)
(*   vals      an inline value set, or FromSource: read from a ConfigMap   *)
(*             or Secret                                                   *)
(*   patch     the patch set a ConfigMap holds, or NoPatch                 *)
(*   take      takeOwnership                                               *)
(*   limit     rollbackLimit, NoLimit when unset                           *)
(*   policies  the actions managementPolicies allow; an empty list and "*" *)
(*             allow all of them                                           *)
(* Every reference of a spec is to one source, whose content (NoSource     *)
(* when it does not exist) is the argument "source" below.                 *)
(***************************************************************************)
EXTENDS HelmStore

CONSTANTS Charts,      \* published charts, records [name, version, digest]
          Values,      \* contents of inline values and of sources
          Patches,     \* patch sets
          Tagged,      \* charts at OCI URLs that end in a tag
          NoURL, FromSource, NoSource, NoPatch, NoLimit

ASSUME ChartsAssumption ==
    Charts # {} /\ Charts \subseteq [name: STRING, version: STRING, digest: STRING]

(* True of every string; the provers have to be told. *)
ASSUME EmptyStringAssumption == "" \in STRING

ASSUME UnsetAssumption ==
    /\ NoURL \notin Charts
    /\ FromSource \notin Values /\ NoSource \notin Values
    /\ NoPatch \notin Patches
    /\ NoLimit \notin Nat

Actions == {"Create", "Update", "Delete", "LateInitialize"}

SpecType ==
    [chart: [url: Charts \cup {NoURL}, name: STRING, version: STRING, digest: STRING],
     vals: Values \cup {FromSource}, patch: Patches \cup {NoPatch},
     take: BOOLEAN, limit: Nat \cup {NoLimit}, policies: SUBSET Actions]

ConfigType ==
    [chart: Charts, vals: Values, patch: Patches \cup {NoPatch}]

RevisionType ==
    [rev: Nat \ {0}, status: Statuses, cfg: ConfigType, own: BOOLEAN]

(* The fields of status.atProvider, patchesSha, failed, synced and the      *)
(* Ready condition.  sha is the patch set it is the hash of.                *)
StatusType ==
    [state: Statuses \cup {""}, revision: Nat, digest: STRING, own: BOOLEAN,
     sha: Patches \cup {NoPatch}, failed: Nat, synced: BOOLEAN,
     ready: {"", "Creating", "Available", "Unavailable", "Deleting"}]

NoStatus == [state |-> "", revision |-> 0, digest |-> "", own |-> FALSE,
             sha |-> NoPatch, failed |-> 0, synced |-> FALSE, ready |-> ""]

devel == ">0.0.0-0"
-----------------------------------------------------------------------------
(* What a chart reference may resolve to: the chart at the URL, else the    *)
(* one with the digest, else any with the name and the version, where "no   *)
(* version" and devel stand for the latest at the time of the pull.         *)
Pulled(ref) ==
    {c \in Charts :
        /\ ref.url # NoURL => c.name = ref.url.name
        /\ ref.url # NoURL /\ ref.digest = "" => c = ref.url
        /\ ref.url = NoURL => c.name = ref.name
        /\ ref.digest # "" => c.digest = ref.digest
        /\ ref.url = NoURL /\ ref.digest = "" => ref.version \in {"", devel, c.version}}

composeValuesFromSpec(spec, source) ==
    IF spec.vals = FromSource THEN source ELSE spec.vals

ValuesUnreadable(spec, source) == spec.vals = FromSource /\ source = NoSource

PatchesUnreadable(spec, source) == spec.patch # NoPatch /\ source = NoSource

(* A registry reference: its path and the segment a tag follows, 0 if none. *)
RegistryURL(chart) ==
    [path |-> <<"registry", chart.name>>, tag |-> IF chart \in Tagged THEN 2 ELSE 0]

EndsIn(ref, name) == ref.tag # Len(ref.path) /\ Last(ref.path) = name

fullRepoURL(ref, name) ==
    IF name = "" \/ EndsIn(ref, name) THEN ref ELSE [ref EXCEPT !.path = Append(@, name)]

(* Only a tag behind the last segment is cut off. *)
normalizeRegistryURL(ref) == [ref EXCEPT !.tag = IF @ = Len(ref.path) THEN 0 ELSE @]

(* Without a pull secret, credentials are looked up for the URL and the name *)
(* together, and what still has a tag inside is not a registry reference.   *)
CredsUnresolvable(spec) ==
    /\ spec.chart.url # NoURL
    /\ normalizeRegistryURL(fullRepoURL(RegistryURL(spec.chart.url), spec.chart.name)).tag # 0

(* takeOwnership is passed on unless the status says it was already used. *)
withRelease(spec, status) == spec.take /\ ~status.own

lateInitialized(spec, chart) ==
    IF "LateInitialize" \notin spec.policies THEN spec
    ELSE [spec EXCEPT
            !.chart.name    = IF @ = "" THEN chart.name ELSE @,
            !.chart.version = IF @ = "" /\ spec.chart.digest = "" THEN chart.version ELSE @]
-----------------------------------------------------------------------------
(* The status as the observation of a revision leaves it: the observation   *)
(* is built anew, ownershipTaken included; the digest is put in by callers. *)
generateObservation(status, rel, digest) ==
    [status EXCEPT !.state = rel.status, !.revision = rel.rev,
                   !.digest = digest, !.own = FALSE]

isPending(state) == state \in {"pending-install", "pending-upgrade", "pending-rollback"}

(* Mutant: patches that were removed are not noticed. *)
hasUpdates_OnlyAdded(spec, status) == spec.patch # NoPatch /\ spec.patch # status.sha

hasUpdates(spec, status) == spec.patch # status.sha

Comparable(spec, rel) ==
    ~isPending(rel.status) /\ spec.chart.name = rel.cfg.chart.name

SameChart(spec, rel, status) ==
    /\ spec.chart.version \in {"", devel, rel.cfg.chart.version}
    /\ spec.chart.digest = "" \/ status.digest \in {"", spec.chart.digest}

(* isUpToDate stops with an error at the first source it needs and cannot   *)
(* read; whatever is decided earlier is decided without it.                 *)
isUpToDateFails(spec, rel, status, source) ==
    /\ Comparable(spec, rel)
    /\ "Update" \in spec.policies
    /\ SameChart(spec, rel, status)
    /\ \/ ValuesUnreadable(spec, source)
       \/ /\ composeValuesFromSpec(spec, source) = rel.cfg.vals
          /\ PatchesUnreadable(spec, source)

isUpToDate(spec, rel, status, source) ==
    /\ Comparable(spec, rel)
    /\ "Update" \in spec.policies =>
          /\ SameChart(spec, rel, status)
          /\ composeValuesFromSpec(spec, source) = rel.cfg.vals
          /\ ~hasUpdates(spec, status)
-----------------------------------------------------------------------------
rollBackEnabled(spec) == spec.limit # NoLimit

(* Mutant: a failed release is rolled back even if the spec changed. *)
shouldRollBack_EvenIfChanged(spec, status) ==
    rollBackEnabled(spec) /\ status.state \in {"failed", "pending-install", "pending-upgrade"}

shouldRollBack(spec, status) ==
    /\ rollBackEnabled(spec)
    /\ \/ status.synced /\ status.state = "failed"
       \/ status.state = "pending-install"
       \/ status.state = "pending-upgrade"

(* Mutant: one attempt too many. *)
rollBackLimitReached_OffByOne(spec, status) == status.failed > spec.limit

rollBackLimitReached(spec, status) == status.failed >= spec.limit

(* Observe's verdict: in sync, and not a failure that may still be retried. *)
ResourceUpToDate(spec, status) ==
    /\ status.synced
    /\ ~(shouldRollBack(spec, status) /\ ~rollBackLimitReached(spec, status))
=============================================================================
