------------------------------ MODULE HelmStore ------------------------------
(***************************************************************************)
(* The release history that Helm keeps in the target cluster, as the       *)
(* provider meets it through pkg/clients/helm: what one Helm action writes *)
(* first, and what it writes when it ends.  Helm itself is a dependency;   *)
(* these operators are external, taken from how the code uses them.        *)
(*                                                                         *)
(* A history is a sequence of revisions, oldest first.  A revision records *)
(* the configuration it was rendered from (chart, values and post-render   *)
(* patches) and whether it was deployed with TakeOwnership.                *)
(***************************************************************************)
EXTENDS Integers, Sequences

PendingStatuses == {"pending-install", "pending-upgrade", "pending-rollback"}

Statuses == PendingStatuses \cup {"deployed", "failed", "superseded", "uninstalling"}

Revision(rev, status, cfg, own) ==
    [rev |-> rev, status |-> status, cfg |-> cfg, own |-> own]

Last(h) == h[Len(h)]

WithLast(h, status) == [h EXCEPT ![Len(h)].status = status]

DeployedAt(h) == {i \in DOMAIN h : h[i].status = "deployed"}

(* The index of the last deployed revision, 0 when none is deployed. *)
LastDeployed(h) ==
    IF DeployedAt(h) = {} THEN 0
    ELSE CHOOSE i \in DeployedAt(h) : \A j \in DeployedAt(h) : j <= i

(* The oldest revisions go until room for one more is left; the last       *)
(* deployed one is never removed.  maxHistory = 0 keeps everything.        *)
Pruned(h, maxHistory) ==
    LET excess == Len(h) - (maxHistory - 1)
        d      == LastDeployed(h)
    IN  IF maxHistory = 0 \/ excess <= 0 THEN h
        ELSE IF d = 0 \/ d > excess THEN SubSeq(h, excess + 1, Len(h))
        ELSE <<h[d]>> \o SubSeq(h, excess + 2, Len(h))

-----------------------------------------------------------------------------
(* Install runs only on an empty history. *)
InstallBegun(cfg, own) == <<Revision(1, "pending-install", cfg, own)>>

(* Upgrade refuses while another operation is pending, and when nothing was *)
(* ever deployed unless the last revision failed or was superseded.         *)
UpgradeRefused(h) ==
    \/ Last(h).status \in PendingStatuses
    \/ /\ DeployedAt(h) = {}
       /\ Last(h).status \notin {"failed", "superseded"}

UpgradeBegun(h, cfg, own, maxHistory) ==
    Append(Pruned(h, maxHistory), Revision(Last(h).rev + 1, "pending-upgrade", cfg, own))

(* The revision an upgrade replaces: the deployed one, or the failed one    *)
(* it started from.                                                         *)
UpgradeSucceeded(h) ==
    LET base == IF DeployedAt(h) = {} THEN Len(h) - 1 ELSE LastDeployed(h)
    IN  [i \in DOMAIN h |->
            IF i = Len(h) THEN [h[i] EXCEPT !.status = "deployed"]
            ELSE IF i = base THEN [h[i] EXCEPT !.status = "superseded"]
            ELSE h[i]]

(* Rollback without an explicit revision goes to the one before the last.   *)
RollbackTargets(h) == {i \in DOMAIN h : h[i].rev = Last(h).rev - 1}

RollbackBegun(h, i) ==
    Append(h, Revision(Last(h).rev + 1, "pending-rollback", h[i].cfg, FALSE))

RollbackSucceeded(h) ==
    [i \in DOMAIN h |->
        IF i = Len(h) THEN [h[i] EXCEPT !.status = "deployed"]
        ELSE IF h[i].status = "deployed" THEN [h[i] EXCEPT !.status = "superseded"]
        ELSE h[i]]

RollbackFailed(h) ==
    [i \in DOMAIN h |->
        IF i = Len(h) THEN [h[i] EXCEPT !.status = "failed"]
        ELSE IF i = Len(h) - 1 THEN [h[i] EXCEPT !.status = "superseded"]
        ELSE h[i]]
=============================================================================
