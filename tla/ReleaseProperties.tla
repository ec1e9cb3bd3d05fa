-------------------------- MODULE ReleaseProperties --------------------------
(***************************************************************************)
(* What the Release controller is to guarantee, over its spec, its status  *)
(* and the history Helm keeps.                                             *)
(***************************************************************************)
EXTENDS Release, FiniteSets

(* The object is only let go when Helm holds nothing of the release, or its *)
(* managementPolicies keep the release: no write order, crash or stale read *)
(* between Create, Delete and the finalizer leaves an orphan.               *)
NoOrphan == cr.gone => hist = <<>> \/ "Delete" \notin cr.spec.policies

Limits == {s.limit : s \in Specs} \ {NoLimit}

(* status.failed survives restarts only by being stored: between reconciles *)
(* the release was rolled back or uninstalled to retry no more often than   *)
(* rollbackLimit allows, plus once for each status that was never stored.   *)
RetryBudget == pc = "idle" /\ tries > lost => \E n \in Limits : tries <= n + lost

(* The uninstall that stands in for a rollback is taken on the word of the  *)
(* observed revision number; it never removes a release of which some       *)
(* revision was deployed.                                                   *)
RetryKeepsDeployed ==
    [][RetryByUninstall =>
          \A i \in DOMAIN hist : hist[i].status \notin {"deployed", "superseded"}]_vars

(* What the controller does to the release, seen without the controller:    *)
(* the object goes last, one configuration is deployed at a time, and what  *)
(* runs is replaced by a success or removed with the object, never by a     *)
(* failure, a retry or a crash in between.                                  *)
Tried(h) == {h[i].cfg : i \in DOMAIN h}

Running(h) == {h[i].cfg : i \in DeployedAt(h)}

Attempt(h) ==
    {h[i].cfg : i \in {j \in DOMAIN h : j = Len(h) /\ h[j].status \in PendingStatuses}}

LifeOf(o) == IF o.gone THEN "gone" ELSE IF o.deleted THEN "deleted" ELSE "live"

Life == INSTANCE ReleaseLife WITH
    Configurations <- ConfigType,
    life    <- LifeOf(cr), keep <- "Delete" \notin cr.spec.policies,
    tried   <- Tried(hist), attempt <- Attempt(hist), running <- Running(hist)

LifeSpec == Life!Spec

(* Whether a revision is what the spec asks for, by what Helm was given.    *)
Matches(spec, rev) ==
    /\ rev.cfg.chart \in Pulled(spec.chart)
    /\ rev.cfg.vals = composeValuesFromSpec(spec, source)
    /\ rev.cfg.patch = spec.patch

(* Patches and digest are compared with what the status remembers of the    *)
(* last deploy, not with Helm.  The status remembers the deployed revision  *)
(* when every status was stored, nothing is rolled back, and specs either   *)
(* all name a digest or none does: one that is added later is recorded for  *)
(* what was deployed without it.                                            *)
Remembered ==
    /\ lost = 0 /\ Limits = {}
    /\ \A s, t \in Specs : s.chart.digest = "" <=> t.chart.digest = ""

(* Then a release is judged Available, be it from a stale copy, only when   *)
(* the deployed revision has the chart, the values and the patches of the   *)
(* spec.  A URL that was edited is not compared, and without Update nothing *)
(* is.                                                                      *)
AvailableIsTrue ==
    [][/\ ObserveHealthy /\ Remembered /\ mem.spec.chart.url = NoURL
       /\ "Update" \in mem.spec.policies
       => Matches(mem.spec, Last(hist))]_vars

(* Nor does the controller upgrade a deployed release that already is what  *)
(* the spec asks for, unless the object was stale, the values' source may   *)
(* have come back since the observation, or a digest is given beside a      *)
(* version that is not the chart's.                                         *)
NoNeedlessUpgrade ==
    [][/\ StartUpgrade /\ Remembered /\ memFresh
       /\ mem.spec.chart.url = NoURL /\ mem.spec.vals # FromSource
       /\ mem.spec.chart.digest = "" \/ mem.spec.chart.version \in {"", devel}
       => ~(Last(hist).status = "deployed" /\ Matches(mem.spec, Last(hist)))]_vars

(* maxHistory bounds the revisions Helm keeps, the one being written         *)
(* included, as long as nothing is rolled back.  The deployed revision is   *)
(* never removed for it, which makes two when maxHistory is 1.              *)
HistoryBounded ==
    MaxHistory > 0 /\ Limits = {} =>
        Len(hist) <= IF MaxHistory = 1 THEN 2 ELSE MaxHistory

(* Deleting a Release ends with the object gone, whatever became of the     *)
(* sources its spec refers to and in whatever state Helm left the release.  *)
DeletionCompletes == cr.deleted ~> cr.gone

GivenUp ==
    /\ Last(hist).status = "failed"
    /\ Matches(cr.spec, Last(hist))
    /\ ~rollBackEnabled(cr.spec) \/ rollBackLimitReached(cr.spec, cr.status)

Settled ==
    \/ cr.gone
    \/ ValuesUnreadable(cr.spec, source) \/ PatchesUnreadable(cr.spec, source)
    \/ /\ hist # <<>>
       /\ \/ /\ Last(hist).status = "deployed"
             /\ Matches(cr.spec, Last(hist)) /\ cr.status.ready = "Available"
          \/ GivenUp

(* When the edits end, the release ends up as the last spec asks for and is *)
(* reported Available, or its deployment was given up as failed, or it waits *)
(* for a source, or the object is gone.                                     *)
Settles == <>[]Settled
-----------------------------------------------------------------------------
(* What the API documentation and the comments say and the code does not do *)

(* takeOwnership "is a ONE-TIME operation: after the first successful       *)
(* deployment ... subsequent reconciles use normal Helm validation", at     *)
(* least when every status was stored, the one that records it included.    *)
OwnershipTakenOnce ==
    [][StartUpgrade /\ lost = 0 /\ memFresh
       /\ (\E i \in DOMAIN hist :
              hist[i].own /\ hist[i].status \in {"deployed", "superseded"})
          => ~Last(hist').own]_vars

(* The URL of a chart "overrides others fields in the spec": where it offers *)
(* a chart, no other field but patches and values keeps it from being        *)
(* deployed.                                                                *)
URLOverrides ==
    [][DeployCannotStart /\ faults' = faults /\ memFresh /\ mem.spec.chart.url # NoURL =>
          \/ ValuesUnreadable(mem.spec, source) \/ PatchesUnreadable(mem.spec, source)
          \/ Pulled([mem.spec.chart EXCEPT !.name = "", !.version = ""]) = {}]_vars

(* isUpToDate "checks whether desired spec up to date with the observed     *)
(* state": no release is judged Available with other patches, also when the *)
(* spec was edited during an upgrade.                                       *)
UpToDateMeansDeployed ==
    [][ObserveHealthy => Last(hist).cfg.patch = mem.spec.patch]_vars

(* rollbackLimit is the "max number of attempts to retry Helm deployment":  *)
(* besides the first deployment at most that many fail.                     *)
RetriesLimited ==
    \A n \in Limits :
        Cardinality({i \in DOMAIN hist : hist[i].status = "failed"}) <= n + 1

(* "We need to uninstall to retry": after the uninstall of a failed first   *)
(* revision the release is installed again, or the object goes.             *)
UninstallRetries ==
    pc = "uninstalling" /\ ~cr.deleted ~> pc = "installing" \/ cr.deleted
=============================================================================
