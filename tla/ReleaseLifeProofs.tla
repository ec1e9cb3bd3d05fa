-------------------------- MODULE ReleaseLifeProofs --------------------------
(***************************************************************************)
(* The Release controller implements ReleaseLife: proofs about what each   *)
(* operation of Helm leaves of the history, and from them the refinement   *)
(* and the safety of the uninstall that stands in for a rollback.          *)
(***************************************************************************)
EXTENDS ReleaseProofs

(* A history as Helm leaves it: revisions count up, one is deployed at most. *)
Sane(h) ==
    /\ \A i, j \in DOMAIN h : i < j => h[i].rev < h[j].rev
    /\ \A i, j \in DeployedAt(h) : i = j

(* What the worker knows of the history while it acts on it.                *)
HistInv ==
    /\ Sane(hist)
    /\ pc \in {"create", "missing"} => hist = <<>>
    /\ pc \in {"installing", "upgrading", "rollingback"} => Last(hist).status \in PendingStatuses
    /\ pc = "update" => /\ mem.status.state = Last(hist).status
                        /\ mem.status.revision = Last(hist).rev
    /\ pc = "rollingback" => /\ Len(hist) > 1
                             /\ hist[Len(hist) - 1].status # "deployed"
    /\ pc = "installing" => DeployedAt(hist) = {}
    /\ pc = "uninstalling" => cr.deleted \/ DeployedAt(hist) = {}
    /\ pc \in {"delete", "finalize"} => mem.deleted
    /\ pc = "update" => ~mem.deleted
    /\ pc = "create" => cr.finalizer /\ ~cr.gone
    /\ mem.deleted => cache.deleted
    /\ cache.deleted \/ cr.gone => cr.deleted
    /\ cr.gone /\ hist # <<>> => cache.deleted /\ (pc = "idle" \/ mem.deleted)
-----------------------------------------------------------------------------
(* The operations of Helm, on a sane history.                              *)

(* An operation that changes no number and no configuration. *)
LEMMA Relabelled ==
    ASSUME NEW h \in Seq(RevisionType), NEW g \in Seq(RevisionType), Sane(h),
           DOMAIN g = DOMAIN h,
           \A i \in DOMAIN h : g[i].rev = h[i].rev /\ g[i].cfg = h[i].cfg,
           \A i, j \in DeployedAt(g) : i = j
    PROVE  Sane(g) /\ Tried(g) = Tried(h)
           /\ Running(g) = {h[i].cfg : i \in DeployedAt(g)}
<1>1. Sane(g) BY DEF Sane
<1>2. Tried(g) = Tried(h) BY DEF Tried
<1>3. Running(g) = {h[i].cfg : i \in DeployedAt(g)} BY DEF Running, DeployedAt
<1> QED BY <1>1, <1>2, <1>3

(* What is tried, and what runs, are members of the history. *)
LEMMA AttemptIsLast ==
    ASSUME NEW h \in Seq(RevisionType), h # <<>>
    PROVE  /\ Last(h).status \in PendingStatuses => Attempt(h) = {Last(h).cfg}
           /\ Last(h).status \notin PendingStatuses => Attempt(h) = {}
           /\ Tried(h) # {} /\ Last(h).cfg \in Tried(h)
BY LastType DEF Attempt, Last, Tried

LEMMA NothingTried == Tried(<<>>) = {} /\ Running(<<>>) = {} /\ Attempt(<<>>) = {} /\ Sane(<<>>)
BY DEF Tried, Running, Attempt, DeployedAt, Sane

LEMMA WithLastLife ==
    ASSUME NEW h \in Seq(RevisionType), h # <<>>, Sane(h),
           NEW s \in {"failed", "uninstalling"}
    PROVE  LET g == WithLast(h, s)
           IN  /\ Sane(g) /\ Tried(g) = Tried(h) /\ Attempt(g) = {}
               /\ DeployedAt(g) = DeployedAt(h) \ {Len(h)}
               /\ Running(g) = {h[i].cfg : i \in DeployedAt(g)}
               /\ Running(g) \subseteq Tried(g)
               /\ Last(h).status # "deployed" => Running(g) = Running(h)
<1> DEFINE g == WithLast(h, s)
<1>1. /\ g \in Seq(RevisionType) /\ g # <<>> /\ Len(g) = Len(h)
      /\ DOMAIN g = DOMAIN h /\ Len(h) \in DOMAIN h
      /\ \A i \in DOMAIN h : h[i] \in RevisionType
  BY WithLastType, LastType, LenProperties, ElementOfSeq DEF Statuses
<1>2. /\ \A i \in DOMAIN h : i # Len(h) => g[i] = h[i]
      /\ g[Len(h)] = [h[Len(h)] EXCEPT !.status = s]
  BY <1>1 DEF WithLast
<1>3. /\ \A i \in DOMAIN h : g[i].rev = h[i].rev /\ g[i].cfg = h[i].cfg
      /\ g[Len(h)].status = s
  BY <1>1, <1>2 DEF RevisionType
<1> HIDE DEF g
<1>4. DeployedAt(g) = DeployedAt(h) \ {Len(h)} BY <1>1, <1>2, <1>3 DEF DeployedAt
<1>5. Sane(g) /\ Tried(g) = Tried(h) /\ Running(g) = {h[i].cfg : i \in DeployedAt(g)}
  <2>1. \A i, j \in DeployedAt(g) : i = j BY <1>4 DEF Sane
  <2> QED BY <1>1, <1>3, <2>1, Relabelled
<1>6. Attempt(g) = {}
  BY <1>1, <1>3, AttemptIsLast DEF Last, PendingStatuses
<1>7. Running(g) \subseteq Tried(g) BY DEF Running, Tried, DeployedAt
<1>8. ASSUME Last(h).status # "deployed" PROVE Running(g) = Running(h)
  <2>1. DeployedAt(g) = DeployedAt(h) BY <1>4, <1>8 DEF DeployedAt, Last
  <2> QED BY <1>5, <2>1 DEF Running
<1> QED BY <1>4, <1>5, <1>6, <1>7, <1>8 DEF g

(* What an operation that succeeds leaves: the last revision is deployed,   *)
(* alone.                                                                   *)
LEMMA SucceededLife ==
    ASSUME NEW h \in Seq(RevisionType), h # <<>>, Sane(h),
           NEW g \in Seq(RevisionType), Len(g) = Len(h),
           \A i \in DOMAIN h : g[i].rev = h[i].rev /\ g[i].cfg = h[i].cfg,
           DeployedAt(g) = {Len(h)}
    PROVE  /\ Sane(g) /\ Tried(g) = Tried(h) /\ Attempt(g) = {}
           /\ Running(g) = {Last(h).cfg}
<1>1. /\ DOMAIN g = DOMAIN h /\ Len(h) \in DOMAIN h /\ g # <<>>
      /\ Last(g).status = "deployed"
  BY LastType, LenProperties, EmptySeq DEF DeployedAt, Last
<1>2. Sane(g) /\ Tried(g) = Tried(h) /\ Running(g) = {h[i].cfg : i \in DeployedAt(g)}
  BY <1>1, Relabelled
<1>3. Attempt(g) = {} BY <1>1, AttemptIsLast DEF PendingStatuses
<1> QED BY <1>2, <1>3 DEF Last

LEMMA InstallSucceededLife ==
    ASSUME NEW h \in Seq(RevisionType), h # <<>>, Sane(h), DeployedAt(h) = {}
    PROVE  LET g == WithLast(h, "deployed")
           IN  /\ Sane(g) /\ Tried(g) = Tried(h) /\ Attempt(g) = {}
               /\ Running(g) = {Last(h).cfg}
<1> DEFINE g == WithLast(h, "deployed")
<1>1. /\ g \in Seq(RevisionType) /\ Len(g) = Len(h) /\ DOMAIN g = DOMAIN h /\ Len(h) \in DOMAIN h
      /\ \A i \in DOMAIN h : h[i] \in RevisionType
  BY WithLastType, LastType, LenProperties, ElementOfSeq DEF Statuses
<1>2. /\ \A i \in DOMAIN h : i # Len(h) => g[i] = h[i]
      /\ g[Len(h)] = [h[Len(h)] EXCEPT !.status = "deployed"]
  BY <1>1 DEF WithLast
<1>3. /\ \A i \in DOMAIN h : g[i].rev = h[i].rev /\ g[i].cfg = h[i].cfg
      /\ g[Len(h)].status = "deployed"
  BY <1>1, <1>2 DEF RevisionType
<1> HIDE DEF g
<1>4. \A i \in DOMAIN h : g[i].status = "deployed" <=> i = Len(h)
  BY <1>1, <1>2, <1>3 DEF DeployedAt
<1>5. DeployedAt(g) = {Len(h)} BY <1>1, <1>4 DEF DeployedAt
<1> QED BY <1>1, <1>3, <1>5, SucceededLife DEF g

LEMMA UpgradeSucceededLife ==
    ASSUME NEW h \in Seq(RevisionType), h # <<>>, Sane(h), Last(h).status # "deployed"
    PROVE  LET g == UpgradeSucceeded(h)
           IN  /\ Sane(g) /\ Tried(g) = Tried(h) /\ Attempt(g) = {}
               /\ Running(g) = {Last(h).cfg}
<1> DEFINE g == UpgradeSucceeded(h)
           base == IF DeployedAt(h) = {} THEN Len(h) - 1 ELSE LastDeployed(h)
<1>1. /\ g \in Seq(RevisionType) /\ Len(g) = Len(h) /\ DOMAIN g = DOMAIN h /\ Len(h) \in DOMAIN h
      /\ \A i \in DOMAIN h : h[i] \in RevisionType
  BY UpgradeSucceededType, LastType, LenProperties, ElementOfSeq
<1>2. \A i \in DOMAIN h :
         g[i] = IF i = Len(h) THEN [h[i] EXCEPT !.status = "deployed"]
                ELSE IF i = base THEN [h[i] EXCEPT !.status = "superseded"]
                ELSE h[i]
  BY DEF UpgradeSucceeded
<1>3. \A i \in DOMAIN h : i # Len(h) /\ h[i].status = "deployed" => i = base
  BY LastDeployedIndex DEF Sane, DeployedAt
<1> HIDE DEF g, base
<1>4. \A i \in DOMAIN h : g[i].rev = h[i].rev /\ g[i].cfg = h[i].cfg
  BY <1>1, <1>2 DEF RevisionType
<1>5. \A i \in DOMAIN h : g[i].status = "deployed" <=> i = Len(h)
  BY <1>1, <1>2, <1>3 DEF RevisionType
<1>6. DeployedAt(g) = {Len(h)} BY <1>1, <1>5 DEF DeployedAt
<1> QED BY <1>1, <1>4, <1>6, SucceededLife DEF g

LEMMA RollbackSucceededLife ==
    ASSUME NEW h \in Seq(RevisionType), h # <<>>, Sane(h)
    PROVE  LET g == RollbackSucceeded(h)
           IN  /\ Sane(g) /\ Tried(g) = Tried(h) /\ Attempt(g) = {}
               /\ Running(g) = {Last(h).cfg}
<1> DEFINE g == RollbackSucceeded(h)
<1>1. /\ g \in Seq(RevisionType) /\ Len(g) = Len(h) /\ DOMAIN g = DOMAIN h /\ Len(h) \in DOMAIN h
      /\ \A i \in DOMAIN h : h[i] \in RevisionType
  BY RollbackDoneType, LastType, LenProperties, ElementOfSeq
<1>2. \A i \in DOMAIN h :
         g[i] = IF i = Len(h) THEN [h[i] EXCEPT !.status = "deployed"]
                ELSE IF h[i].status = "deployed" THEN [h[i] EXCEPT !.status = "superseded"]
                ELSE h[i]
  BY DEF RollbackSucceeded
<1> HIDE DEF g
<1>3. \A i \in DOMAIN h : g[i].rev = h[i].rev /\ g[i].cfg = h[i].cfg
  BY <1>1, <1>2 DEF RevisionType
<1>4. \A i \in DOMAIN h : g[i].status = "deployed" <=> i = Len(h)
  BY <1>1, <1>2 DEF RevisionType
<1>5. DeployedAt(g) = {Len(h)} BY <1>1, <1>4 DEF DeployedAt
<1> QED BY <1>1, <1>3, <1>5, SucceededLife DEF g

(* A rollback that fails supersedes the revision before it, which was not   *)
(* the deployed one.                                                        *)
LEMMA RollbackFailedLife ==
    ASSUME NEW h \in Seq(RevisionType), h # <<>>, Sane(h), Last(h).status # "deployed",
           Len(h) > 1, h[Len(h) - 1].status # "deployed"
    PROVE  LET g == RollbackFailed(h)
           IN  /\ Sane(g) /\ Tried(g) = Tried(h) /\ Attempt(g) = {}
               /\ Running(g) = Running(h)
<1> DEFINE g == RollbackFailed(h)
<1>1. /\ g \in Seq(RevisionType) /\ Len(g) = Len(h) /\ DOMAIN g = DOMAIN h /\ Len(h) \in DOMAIN h
      /\ g # <<>> /\ \A i \in DOMAIN h : h[i] \in RevisionType
  BY RollbackDoneType, LastType, LenProperties, ElementOfSeq
<1>2. \A i \in DOMAIN h :
         g[i] = IF i = Len(h) THEN [h[i] EXCEPT !.status = "failed"]
                ELSE IF i = Len(h) - 1 THEN [h[i] EXCEPT !.status = "superseded"]
                ELSE h[i]
  BY DEF RollbackFailed
<1> HIDE DEF g
<1>3. \A i \in DOMAIN h : g[i].rev = h[i].rev /\ g[i].cfg = h[i].cfg
  BY <1>1, <1>2 DEF RevisionType
<1>4. \A i \in DOMAIN h : g[i].status = "deployed" <=> h[i].status = "deployed"
  BY <1>1, <1>2 DEF RevisionType, Last
<1>5. Last(g).status = "failed" BY <1>1, <1>2 DEF Last, RevisionType
<1>6. DeployedAt(g) = DeployedAt(h) BY <1>1, <1>4 DEF DeployedAt
<1>7. Sane(g) /\ Tried(g) = Tried(h) /\ Running(g) = {h[i].cfg : i \in DeployedAt(g)}
  <2>1. \A i, j \in DeployedAt(g) : i = j BY <1>6 DEF Sane
  <2> QED BY <1>1, <1>3, <2>1, Relabelled
<1>8. Attempt(g) = {} BY <1>1, <1>5, AttemptIsLast DEF PendingStatuses
<1> QED BY <1>6, <1>7, <1>8 DEF g, Running
-----------------------------------------------------------------------------
(* New revisions. *)
LEMMA AppendLife ==
    ASSUME NEW g \in Seq(RevisionType), Sane(g), NEW r \in RevisionType,
           r.status \in PendingStatuses, \A i \in DOMAIN g : g[i].rev < r.rev
    PROVE  LET f == Append(g, r)
           IN  /\ Sane(f) /\ Tried(f) = Tried(g) \cup {r.cfg} /\ Attempt(f) = {r.cfg}
               /\ Running(f) = Running(g) /\ Last(f) = r
               /\ Len(f) = Len(g) + 1 /\ \A i \in DOMAIN g : f[i] = g[i]
<1> DEFINE f == Append(g, r)
<1>1. /\ f \in Seq(RevisionType) /\ Len(f) = Len(g) + 1 /\ Len(g) \in Nat
      /\ DOMAIN g = 1..Len(g) /\ DOMAIN f = 1..(Len(g) + 1)
      /\ \A i \in 1..Len(g) : f[i] = g[i]
      /\ f[Len(g) + 1] = r /\ f # <<>>
  BY AppendProperties, LenProperties, EmptySeq
<1> HIDE DEF f
<1>2. Last(f) = r BY <1>1 DEF Last
<1>3. r.status # "deployed" BY DEF PendingStatuses
<1>4. DeployedAt(f) = DeployedAt(g) BY <1>1, <1>3 DEF DeployedAt
<1>5. \A i, j \in DOMAIN f : i < j => f[i].rev < f[j].rev
  <2> SUFFICES ASSUME NEW i \in 1..(Len(g) + 1), NEW j \in 1..(Len(g) + 1), i < j
               PROVE  f[i].rev < f[j].rev
    BY <1>1
  <2>1. i \in DOMAIN g /\ f[i] = g[i] BY <1>1
  <2>2. CASE j = Len(g) + 1 BY <1>1, <2>1, <2>2
  <2>3. CASE j # Len(g) + 1 BY <1>1, <2>1, <2>3 DEF Sane
  <2> QED BY <2>2, <2>3
<1>6. Sane(f) BY <1>4, <1>5 DEF Sane
<1>7. Running(f) = Running(g) BY <1>1, <1>4 DEF Running, DeployedAt
<1>8. Attempt(f) = {r.cfg} BY <1>1, <1>2, AttemptIsLast
<1>9. Tried(f) = Tried(g) \cup {r.cfg} BY <1>1 DEF Tried
<1> QED BY <1>1, <1>2, <1>6, <1>7, <1>8, <1>9 DEF f

(* A part of a history that has its deployed revision. *)
LEMMA SelectedLife ==
    ASSUME NEW h \in Seq(RevisionType), h # <<>>, Sane(h), NEW p \in Seq(RevisionType),
           NEW k \in [1..Len(p) -> 1..Len(h)],
           \A i \in 1..Len(p) : p[i] = h[k[i]],
           \A i, j \in 1..Len(p) : i < j => k[i] < k[j],
           \A e \in DeployedAt(h) : \E i \in 1..Len(p) : k[i] = e
    PROVE  /\ Sane(p) /\ Tried(p) \subseteq Tried(h) /\ Running(p) = Running(h)
           /\ \A i \in DOMAIN p : p[i].rev <= Last(h).rev
<1>1. /\ DOMAIN p = 1..Len(p) /\ DOMAIN h = 1..Len(h) /\ Len(p) \in Nat /\ Len(h) \in Nat \ {0}
      /\ \A i \in 1..Len(h) : h[i] \in RevisionType
  BY LastType, LenProperties, ElementOfSeq
<1>2. \A i \in 1..Len(p) : k[i] \in 1..Len(h) OBVIOUS
<1>3. \A i, j \in DOMAIN p : i < j => p[i].rev < p[j].rev BY <1>1, <1>2 DEF Sane
<1>4. \A i \in DOMAIN p : i \in DeployedAt(p) <=> k[i] \in DeployedAt(h)
  BY <1>1, <1>2 DEF DeployedAt
<1>5. \A i, j \in DeployedAt(p) : i = j
  <2> SUFFICES ASSUME NEW i \in DeployedAt(p), NEW j \in DeployedAt(p), i # j PROVE FALSE
    OBVIOUS
  <2>1. i \in 1..Len(p) /\ j \in 1..Len(p) BY <1>1 DEF DeployedAt
  <2>2. k[i] = k[j] BY <1>1, <1>4, <2>1 DEF Sane
  <2>3. i < j \/ j < i BY <2>1
  <2>4. k[i] \in Nat BY <1>1, <1>2, <2>1
  <2> QED BY <2>1, <2>2, <2>3, <2>4
<1>6. Running(p) = Running(h)
  <2>1. \A i \in DeployedAt(p) : p[i].cfg \in Running(h)
    BY <1>1, <1>4 DEF DeployedAt, Running
  <2>2. \A e \in DeployedAt(h) : h[e].cfg \in Running(p)
    <3> SUFFICES ASSUME NEW e \in DeployedAt(h) PROVE h[e].cfg \in Running(p) OBVIOUS
    <3>1. PICK i \in 1..Len(p) : k[i] = e OBVIOUS
    <3> QED BY <1>1, <1>4, <3>1 DEF Running
  <2> QED BY <2>1, <2>2 DEF Running
<1>7. Tried(p) \subseteq Tried(h) BY <1>1, <1>2 DEF Tried
<1>8. \A i \in DOMAIN p : p[i].rev <= Last(h).rev
  <2> SUFFICES ASSUME NEW i \in 1..Len(p) PROVE h[k[i]].rev <= h[Len(h)].rev
    BY <1>1 DEF Last
  <2>1. h[k[i]].rev \in Nat /\ h[Len(h)].rev \in Nat BY <1>1, <1>2 DEF RevisionType
  <2>2. CASE k[i] = Len(h) BY <2>1, <2>2
  <2>3. CASE k[i] < Len(h)
    <3>1. h[k[i]].rev < h[Len(h)].rev BY <1>1, <1>2, <2>3 DEF Sane
    <3> QED BY <2>1, <3>1
  <2> QED BY <1>1, <1>2, <2>2, <2>3
<1> QED BY <1>3, <1>5, <1>6, <1>7, <1>8 DEF Sane

LEMMA Suffix ==
    ASSUME NEW h \in Seq(RevisionType), NEW m \in Nat, m <= Len(h)
    PROVE  LET p == SubSeq(h, m + 1, Len(h))
           IN  /\ p \in Seq(RevisionType) /\ Len(p) = Len(h) - m /\ Len(p) \in Nat
               /\ \A i \in 1..Len(p) : p[i] = h[m + i]
<1> DEFINE p == SubSeq(h, m + 1, Len(h))
<1>1. Len(h) \in Nat /\ \A i \in (m + 1)..Len(h) : h[i] \in RevisionType
  BY LenProperties, ElementOfSeq
<1>2. /\ p \in Seq(RevisionType)
      /\ Len(p) = IF m + 1 <= Len(h) THEN Len(h) - (m + 1) + 1 ELSE 0
      /\ \A i \in 1..(Len(h) - (m + 1) + 1) : p[i] = h[(m + 1) + i - 1]
  BY <1>1, SubSeqProperties
<1> HIDE DEF p
<1>3. Len(p) = Len(h) - m BY <1>1, <1>2
<1>4. Len(h) - (m + 1) + 1 = Len(h) - m BY <1>1
<1>5. ASSUME NEW i \in 1..Len(p) PROVE p[i] = h[m + i]
  <2>1. (m + 1) + i - 1 = m + i OBVIOUS
  <2> QED BY <1>2, <1>3, <1>4, <2>1
<1> QED BY <1>1, <1>2, <1>3, <1>5 DEF p

(* Pruning for maxHistory forgets old configurations, never the one that runs. *)
LEMMA PrunedLife ==
    ASSUME NEW h \in Seq(RevisionType), h # <<>>, Sane(h), NEW n \in Nat
    PROVE  LET p == Pruned(h, n)
           IN  /\ Sane(p) /\ Tried(p) \subseteq Tried(h) /\ Running(p) = Running(h)
               /\ \A i \in DOMAIN p : p[i].rev <= Last(h).rev
<1> DEFINE p == Pruned(h, n)
           excess == Len(h) - (n - 1)
           d == LastDeployed(h)
<1>1. /\ Len(h) \in Nat \ {0} /\ DOMAIN h = 1..Len(h) /\ \A i \in 1..Len(h) : h[i] \in RevisionType
      /\ p \in Seq(RevisionType)
  BY LastType, LenProperties, ElementOfSeq, PrunedType
<1>2. /\ DeployedAt(h) # {} => d \in 1..Len(h)
      /\ DeployedAt(h) = {} => d = 0
      /\ \A e \in DeployedAt(h) : e = d
      /\ DeployedAt(h) \subseteq 1..Len(h)
  BY <1>1, LastDeployedIndex DEF Sane, LastDeployed, DeployedAt
<1>3. CASE n = 0 \/ excess <= 0
  <2>1. p = h BY <1>3 DEF Pruned
  <2> DEFINE k == [i \in 1..Len(h) |-> i]
  <2>2. k \in [1..Len(h) -> 1..Len(h)] /\ \A i \in 1..Len(h) : k[i] = i OBVIOUS
  <2> HIDE DEF k, p
  <2> QED BY <1>1, <1>2, <2>1, <2>2, SelectedLife DEF p
<1>4. CASE ~(n = 0 \/ excess <= 0) /\ (d = 0 \/ d > excess)
  <2>1. p = SubSeq(h, excess + 1, Len(h)) BY <1>4 DEF Pruned
  <2>2. /\ Len(p) = Len(h) - excess /\ Len(p) \in Nat /\ excess \in Nat
        /\ \A i \in 1..Len(p) : p[i] = h[excess + i]
    <3>1. excess \in Nat /\ excess <= Len(h) BY <1>1, <1>4
    <3> HIDE DEF excess
    <3> QED BY <2>1, <3>1, Suffix
  <2> DEFINE k == [i \in 1..Len(p) |-> excess + i]
  <2> HIDE DEF p, excess
  <2>3. k \in [1..Len(p) -> 1..Len(h)] /\ \A i \in 1..Len(p) : k[i] = excess + i
    BY <1>1, <2>2
  <2>4. \A e \in DeployedAt(h) : \E i \in 1..Len(p) : k[i] = e
    <3> SUFFICES ASSUME NEW e \in DeployedAt(h) PROVE \E i \in 1..Len(p) : k[i] = e OBVIOUS
    <3>1. e = d /\ d \in 1..Len(h) /\ d > excess BY <1>1, <1>2, <1>4
    <3>2. d - excess \in 1..Len(p) BY <1>1, <2>2, <3>1
    <3>3. k[d - excess] = d BY <2>2, <2>3, <3>1, <3>2
    <3> QED BY <3>1, <3>2, <3>3
  <2>5. \A i, j \in 1..Len(p) : i < j => k[i] < k[j] BY <2>2, <2>3
  <2>6. \A i \in 1..Len(p) : p[i] = h[k[i]] BY <2>2, <2>3
  <2> HIDE DEF k
  <2> QED BY <1>1, <2>3, <2>4, <2>5, <2>6, SelectedLife DEF p
<1>5. CASE ~(n = 0 \/ excess <= 0) /\ ~(d = 0 \/ d > excess)
  <2> DEFINE rest == SubSeq(h, excess + 2, Len(h))
  <2>1. p = <<h[d]>> \o rest BY <1>5 DEF Pruned
  <2>2. d \in 1..Len(h) /\ d <= excess /\ excess \in Nat \ {0} BY <1>1, <1>2, <1>5
  <2>3. /\ rest \in Seq(RevisionType)
        /\ Len(rest) = IF n = 1 THEN 0 ELSE n - 2
        /\ \A i \in 1..Len(rest) : rest[i] = h[excess + 1 + i]
    BY <1>1, <1>5, <2>2, SubSeqProperties
  <2>4. <<h[d]>> \in Seq(RevisionType) /\ Len(<<h[d]>>) = 1 /\ <<h[d]>>[1] = h[d]
    BY <1>1, <2>2
  <2> HIDE DEF rest
  <2>5. /\ Len(p) = 1 + Len(rest)
        /\ \A i \in 1..Len(p) : p[i] = IF i <= 1 THEN <<h[d]>>[i] ELSE rest[i - 1]
    BY <2>1, <2>3, <2>4, ConcatProperties
  <2> DEFINE k == [i \in 1..Len(p) |-> IF i = 1 THEN d ELSE excess + i]
  <2>6. \A i \in 1..Len(p) : p[i] = h[IF i = 1 THEN d ELSE excess + i]
    <3> SUFFICES ASSUME NEW i \in 1..Len(p), i # 1 PROVE p[i] = h[excess + i]
      BY <2>4, <2>5
    <3>1. i - 1 \in 1..Len(rest) /\ excess + 1 + (i - 1) = excess + i
      BY <1>5, <2>2, <2>3, <2>5
    <3>2. p[i] = rest[i - 1] BY <2>5, <3>1
    <3> QED BY <2>3, <3>1, <3>2
  <2>7. Len(p) \in Nat /\ (excess + Len(p) <= Len(h) \/ Len(p) = 1)
    BY <1>1, <1>5, <2>3, <2>5
  <2> HIDE DEF p, excess, d
  <2>8. \A i \in 1..Len(p) : (IF i = 1 THEN d ELSE excess + i) \in 1..Len(h)
    <3> SUFFICES ASSUME NEW i \in 1..Len(p), i # 1 PROVE excess + i \in 1..Len(h)
      BY <2>2
    <3>0. \A m \in Nat : \A j \in 1..m : j # 1 => m # 1 /\ j \in Nat /\ 1 < j /\ j <= m
      OBVIOUS
    <3>1. Len(p) \in Nat /\ Len(p) # 1 /\ i \in Nat /\ 1 < i /\ i <= Len(p) BY <2>7, <3>0
    <3>2. excess + Len(p) <= Len(h) BY <2>7, <3>1
    <3> QED BY <1>1, <2>2, <3>1, <3>2
  <2>9. k \in [1..Len(p) -> 1..Len(h)] /\ \A i \in 1..Len(p) : k[i] = IF i = 1 THEN d ELSE excess + i
    BY <2>8
  <2>10. \A i, j \in 1..Len(p) : i < j => k[i] < k[j] BY <1>1, <2>2, <2>7, <2>9
  <2>11. \A e \in DeployedAt(h) : \E i \in 1..Len(p) : k[i] = e
    <3>1. 1 \in 1..Len(p) BY <2>3, <2>5, <1>5
    <3> QED BY <1>2, <2>9, <3>1
  <2>12. \A i \in 1..Len(p) : p[i] = h[k[i]] BY <2>6, <2>9
  <2> HIDE DEF k
  <2> QED BY <1>1, <2>9, <2>10, <2>11, <2>12, SelectedLife DEF p
<1> QED BY <1>3, <1>4, <1>5

LEMMA InstallBegunLife ==
    ASSUME NEW cfg \in ConfigType, NEW own \in BOOLEAN
    PROVE  LET g == InstallBegun(cfg, own)
           IN  /\ Sane(g) /\ Tried(g) = {cfg} /\ Attempt(g) = {cfg} /\ Running(g) = {}
               /\ Last(g).status \in PendingStatuses /\ DeployedAt(g) = {}
<1> DEFINE r == Revision(1, "pending-install", cfg, own)
           g == InstallBegun(cfg, own)
<1>1. g = <<r>> /\ Len(g) = 1 /\ DOMAIN g = {1} /\ g[1] = r BY DEF InstallBegun
<1>2. r.status = "pending-install" /\ r.cfg = cfg BY DEF Revision
<1> HIDE DEF r, g
<1>3. DeployedAt(g) = {} BY <1>1, <1>2 DEF DeployedAt
<1>4. Sane(g) BY <1>1, <1>3 DEF Sane
<1>5. Tried(g) = {cfg} /\ Running(g) = {} BY <1>1, <1>2, <1>3 DEF Tried, Running
<1>6. Attempt(g) = {cfg} BY <1>1, <1>2 DEF Attempt, PendingStatuses
<1> QED BY <1>1, <1>2, <1>3, <1>4, <1>5, <1>6 DEF Last, PendingStatuses, g

LEMMA UpgradeBegunLife ==
    ASSUME NEW h \in Seq(RevisionType), h # <<>>, Sane(h),
           NEW cfg \in ConfigType, NEW own \in BOOLEAN, NEW n \in Nat
    PROVE  LET g == UpgradeBegun(h, cfg, own, n)
           IN  /\ Sane(g) /\ Tried(g) \subseteq Tried(h) \cup {cfg} /\ cfg \in Tried(g)
               /\ Attempt(g) = {cfg} /\ Running(g) = Running(h) /\ Running(g) \subseteq Tried(g)
               /\ Last(g).status \in PendingStatuses
<1> DEFINE p == Pruned(h, n)
           r == Revision(Last(h).rev + 1, "pending-upgrade", cfg, own)
           g == UpgradeBegun(h, cfg, own, n)
<1>1. p \in Seq(RevisionType) BY PrunedType
<1>2. /\ Sane(p) /\ Tried(p) \subseteq Tried(h) /\ Running(p) = Running(h)
      /\ \A i \in DOMAIN p : p[i].rev <= Last(h).rev
  BY PrunedLife
<1>3. Last(h).rev \in Nat \ {0} BY LastType DEF RevisionType
<1>4. /\ r \in RevisionType /\ r.rev = Last(h).rev + 1 /\ r.cfg = cfg
      /\ r.status \in PendingStatuses
  BY <1>3 DEF Revision, RevisionType, Statuses, PendingStatuses
<1>5. g = Append(p, r) BY DEF UpgradeBegun
<1> HIDE DEF p, r, g
<1>6. \A i \in DOMAIN p : p[i].rev < r.rev
  <2> SUFFICES ASSUME NEW i \in DOMAIN p PROVE p[i].rev < r.rev OBVIOUS
  <2>1. p[i] \in RevisionType BY <1>1, LenProperties, ElementOfSeq
  <2>2. p[i].rev \in Nat BY <2>1 DEF RevisionType
  <2> QED BY <1>2, <1>3, <1>4, <2>2
<1>7. /\ Sane(g) /\ Tried(g) = Tried(p) \cup {cfg} /\ Attempt(g) = {cfg}
      /\ Running(g) = Running(p) /\ Last(g) = r
  BY <1>1, <1>2, <1>4, <1>5, <1>6, AppendLife
<1>8. Running(g) \subseteq Tried(g) BY DEF Running, Tried, DeployedAt
<1> QED BY <1>2, <1>4, <1>7, <1>8 DEF g

LEMMA RollbackBegunLife ==
    ASSUME NEW h \in Seq(RevisionType), h # <<>>, Sane(h), Last(h).status # "deployed",
           NEW t \in RollbackTargets(h)
    PROVE  LET g == RollbackBegun(h, t)
           IN  /\ Sane(g) /\ Tried(g) = Tried(h)
               /\ \E c \in Tried(h) : c \in ConfigType /\ Attempt(g) = {c}
               /\ Running(g) = Running(h)
               /\ Last(g).status \in PendingStatuses
               /\ Len(g) > 1 /\ g[Len(g) - 1].status # "deployed"
<1> DEFINE r == Revision(Last(h).rev + 1, "pending-rollback", h[t].cfg, FALSE)
           g == RollbackBegun(h, t)
<1>1. /\ Len(h) \in Nat \ {0} /\ DOMAIN h = 1..Len(h) /\ \A i \in DOMAIN h : h[i] \in RevisionType
  BY LastType, LenProperties, ElementOfSeq
<1>2. t \in DOMAIN h BY DEF RollbackTargets
<1>3. h[t].cfg \in ConfigType /\ h[t].cfg \in Tried(h) BY <1>1, <1>2 DEF RevisionType, Tried
<1>4. Last(h).rev \in Nat \ {0} BY LastType DEF RevisionType
<1>5. /\ r \in RevisionType /\ r.rev = Last(h).rev + 1 /\ r.cfg = h[t].cfg
      /\ r.status \in PendingStatuses
  BY <1>3, <1>4 DEF Revision, RevisionType, Statuses, PendingStatuses
<1>6. g = Append(h, r) BY DEF RollbackBegun
<1> HIDE DEF r, g
<1>7. \A i \in DOMAIN h : h[i].rev < r.rev
  <2> SUFFICES ASSUME NEW i \in DOMAIN h PROVE h[i].rev < r.rev OBVIOUS
  <2>1. h[i].rev \in Nat BY <1>1 DEF RevisionType
  <2>2. i < Len(h) => h[i].rev < Last(h).rev BY <1>1 DEF Sane, Last
  <2>3. i = Len(h) => h[i].rev = Last(h).rev BY DEF Last
  <2>4. i < Len(h) \/ i = Len(h) BY <1>1
  <2> QED BY <1>4, <1>5, <2>1, <2>2, <2>3, <2>4
<1>8. /\ Sane(g) /\ Tried(g) = Tried(h) \cup {r.cfg} /\ Attempt(g) = {r.cfg}
      /\ Running(g) = Running(h) /\ Last(g) = r
      /\ Len(g) = Len(h) + 1 /\ \A i \in DOMAIN h : g[i] = h[i]
  BY <1>5, <1>6, <1>7, AppendLife
<1>9. Len(g) > 1 /\ g[Len(g) - 1].status # "deployed"
  BY <1>1, <1>8 DEF Last
<1> QED BY <1>3, <1>5, <1>8, <1>9 DEF g
-----------------------------------------------------------------------------
(* The steps of the controller: each keeps HistInv and is a step of         *)
(* ReleaseLife, or none that it sees.                                       *)
ImplementsLife == [Life!Next]_(Life!vars)

(* The object is as it was, for all that ReleaseLife sees of it. *)
SameObject ==
    /\ cr'.gone = cr.gone /\ cr'.deleted = cr.deleted
    /\ cr'.spec.policies = cr.spec.policies

LEMMA SameLife ==
    ASSUME SameObject
    PROVE  LifeOf(cr') = LifeOf(cr)
           /\ ("Delete" \notin cr'.spec.policies) = ("Delete" \notin cr.spec.policies)
BY DEF SameObject, LifeOf

LEMMA Unseen ==
    ASSUME SameObject, hist' = hist
    PROVE  ImplementsLife
BY SameLife DEF ImplementsLife, Life!vars

LEMMA HistInit == Init => HistInv /\ Life!Init
<1> SUFFICES ASSUME Init PROVE HistInv /\ Life!Init OBVIOUS
<1>1. PICK s \in Specs : cr = New(s) BY DEF Init
<1>2. /\ cr.gone = FALSE /\ cr.deleted = FALSE /\ mem.deleted = FALSE /\ cache.deleted = FALSE
      /\ hist = <<>> /\ pc = "idle"
  BY <1>1 DEF Init, New, NoObject
<1>3. HistInv BY <1>2, NothingTried DEF HistInv
<1>4. LifeOf(cr) = "live" BY <1>2 DEF LifeOf
<1>5. Life!Init BY <1>2, <1>4, NothingTried, Zenon DEF Life!Init
<1> QED BY <1>3, <1>5

LEMMA EnvironmentHist ==
    ASSUME TypeInv, LifeInv, HistInv, Environment \/ SyncCache
    PROVE  HistInv' /\ ImplementsLife
<1> USE DEF stored, work, world, bounds, ghosts
<1>0. cr \in ObjectType BY DEF TypeInv, TypeOK
<1>1. CASE EditSpec
  <2>1. PICK s \in Specs : ChangedByOthers([cr EXCEPT !.spec = s]) BY <1>1 DEF EditSpec
  <2>2. cr'.deleted = cr.deleted /\ cr'.gone = cr.gone /\ cr'.finalizer = cr.finalizer
    BY <1>0, <2>1 DEF ChangedByOthers, ObjectType
  <2>3. ~cr.gone /\ UNCHANGED <<cache, pc, mem, hist>> BY <1>1 DEF EditSpec
  <2>4. HistInv' BY <2>2, <2>3 DEF HistInv
  <2>5. LifeOf(cr') = LifeOf(cr) /\ LifeOf(cr) # "gone" BY <2>2, <2>3 DEF LifeOf
  <2>6. ("Delete" \notin cr'.spec.policies) \in BOOLEAN OBVIOUS
  <2>7. Life!Edit BY <2>3, <2>5, <2>6, Zenon DEF Life!Edit
  <2> QED BY <2>4, <2>7 DEF ImplementsLife, Life!Next
<1>2. CASE DeleteCR
  <2>1. /\ cr'.deleted = TRUE /\ cr'.gone = ~cr.finalizer /\ cr'.spec = cr.spec
        /\ cr'.finalizer = cr.finalizer /\ ~cr.gone /\ ~cr.deleted
        /\ UNCHANGED <<cache, pc, mem, hist>>
    BY <1>0, <1>2 DEF DeleteCR, ChangedByOthers, ObjectType
  <2>2. HistInv'
    <3>1. cr'.gone => hist = <<>> BY <2>1 DEF LifeInv, Kept
    <3> QED BY <2>1, <3>1 DEF HistInv
  <2>3. LifeOf(cr) = "live" /\ LifeOf(cr') \in {"deleted", "gone"} BY <2>1 DEF LifeOf
  <2>4. LifeOf(cr') = "gone" => Tried(hist) = {}
    BY <2>1, NothingTried DEF LifeOf, LifeInv, Kept
  <2>5. Life!Delete BY <2>1, <2>3, <2>4, Zenon DEF Life!Delete
  <2> QED BY <2>2, <2>5 DEF ImplementsLife, Life!Next
<1>3. CASE EditSource \/ SyncCache
  <2>1. SameObject /\ hist' = hist BY <1>3 DEF EditSource, SyncCache, SameObject
  <2>2. HistInv'
    BY <1>3 DEF EditSource, SyncCache, HistInv
  <2> QED BY <2>1, <2>2, Unseen
<1> QED BY <1>1, <1>2, <1>3 DEF Environment

LEMMA ObserveHist ==
    ASSUME TypeInv, LifeInv, HistInv, Connect \/ Observe \/ ObserveFails \/ ObserveDetailsFail
    PROVE  HistInv' /\ ImplementsLife
<1> USE DEF stored, work, world, bounds, ghosts
<1>0. mem \in ObjectType BY DEF TypeInv, TypeOK
<1>1. SameObject /\ hist' = hist /\ cr' = cr /\ cache' = cache
  BY DEF SameObject, Connect, Observe, ObserveFails, ObserveDetailsFail, ObserveMissing,
         ObserveDeleting, ObserveError, ObserveHealthy, ObserveUnhealthy
<1> SUFFICES HistInv' BY <1>1, Unseen
<1>2. CASE Connect BY <1>1, <1>2 DEF Connect, HistInv
<1>3. CASE ObserveFails \/ ObserveMissing
  BY <1>1, <1>3 DEF ObserveFails, ObserveMissing, HistInv
<1>4. CASE ObserveDeleting
  <2>1. mem'.deleted = mem.deleted /\ mem.deleted /\ pc' = "delete"
    BY <1>0, <1>4, ObjectFields DEF ObserveDeleting
  <2> QED BY <1>1, <2>1 DEF HistInv
<1>5. CASE ObserveError \/ ObserveHealthy \/ ObserveDetailsFail
  <2>1. PICK st : mem' = [mem EXCEPT !.status = st]
    BY <1>5 DEF ObserveError, ObserveHealthy, ObserveDetailsFail
  <2>2. mem'.deleted = mem.deleted BY <1>0, <2>1, ObjectFields
  <2>3. pc = "connected" /\ pc' = "publish"
    BY <1>5 DEF ObserveError, ObserveHealthy, ObserveDetailsFail, Observed
  <2> QED BY <1>1, <2>2, <2>3 DEF HistInv
<1>6. CASE ObserveUnhealthy
  <2> DEFINE st == [Observation EXCEPT !.synced = InSync, !.ready = "Unavailable"]
  <2>1. /\ hist # <<>> /\ pc = "connected" /\ ~mem.deleted /\ pc' \in {"publish", "update"}
        /\ mem' = [mem EXCEPT !.status = st]
    BY <1>6 DEF ObserveUnhealthy, Observed
  <2>2. Observation \in StatusType BY <2>1, ObservedType
  <2>3. st.state = Last(hist).status /\ st.revision = Last(hist).rev
    <3>1. mem.status \in StatusType BY <1>0 DEF ObjectType
    <3>2. Observation.state = Last(hist).status /\ Observation.revision = Last(hist).rev
      BY <3>1 DEF Observation, generateObservation, StatusType
    <3> QED BY <2>2, <3>2 DEF StatusType
  <2> HIDE DEF st
  <2>4. mem'.status = st /\ mem'.deleted = mem.deleted BY <1>0, <2>1, ObjectFields
  <2> QED BY <1>1, <2>1, <2>3, <2>4 DEF HistInv
<1> QED BY <1>1, <1>2, <1>3, <1>4, <1>5, <1>6, Zenon DEF Observe

LEMMA EndHist ==
    ASSUME TypeInv, LifeInv, HistInv,
           \/ Crash \/ PublishStatus \/ PublishConflicts \/ PublishFails
           \/ Conflicts \/ Finalize
    PROVE  HistInv' /\ ImplementsLife
<1> USE DEF stored, work, world, bounds, ghosts
<1>0. cr \in ObjectType BY DEF TypeInv, TypeOK
<1>1. pc' = "idle" /\ mem'.deleted = FALSE /\ UNCHANGED <<hist, cache>>
  BY DEF Crash, PublishStatus, PublishConflicts, PublishFails, Conflicts, Finalize,
         Idle, NoObject, New
<1>2. CASE Crash \/ PublishConflicts \/ PublishFails \/ Conflicts
  <2>1. cr' = cr BY <1>2 DEF Crash, PublishConflicts, PublishFails, Conflicts
  <2> QED BY <1>1, <2>1, Unseen DEF HistInv, SameObject
<1>3. CASE PublishStatus
  <2>1. SameObject BY <1>0, <1>3, ObjectFields DEF PublishStatus, SameObject
  <2> QED BY <1>1, <2>1, Unseen DEF HistInv, SameObject
<1>4. CASE Finalize
  <2>1. cr'.gone = TRUE /\ cr'.spec = cr.spec /\ cr'.deleted = cr.deleted
    BY <1>0, <1>4 DEF Finalize, ObjectType
  <2>2. /\ hist = <<>> \/ "Delete" \notin cr.spec.policies
        /\ ~cr.gone /\ cr.deleted /\ cache.deleted
    BY <1>4 DEF Finalize, LifeInv, HistInv, Agrees
  <2>3. HistInv' BY <1>1, <2>1, <2>2 DEF HistInv
  <2>4. LifeOf(cr) = "deleted" /\ LifeOf(cr') = "gone" BY <2>1, <2>2 DEF LifeOf
  <2>5. Tried(hist) = {} \/ "Delete" \notin cr.spec.policies BY <2>2, NothingTried
  <2>6. Life!LetGo BY <1>1, <2>1, <2>4, <2>5, Zenon DEF Life!LetGo
  <2> QED BY <2>3, <2>6 DEF ImplementsLife, Life!Next
<1> QED BY <1>2, <1>3, <1>4

LEMMA LateInitializeHist ==
    ASSUME TypeInv, LifeInv, HistInv, NEW c \in Charts, LateInitialize(c)
    PROVE  /\ SameObject /\ cr'.finalizer = cr.finalizer
           /\ mem'.deleted = mem.deleted
<1> DEFINE spec == lateInitialized(mem.spec, c)
<1>1. mem.spec \in SpecType /\ mem \in ObjectType /\ cr \in ObjectType
  BY DEF TypeInv, TypeOK, ObjectType
<1>2. spec.policies = mem.spec.policies BY <1>1, LateInitType
<1> HIDE DEF spec
<1>3. CASE spec = mem.spec BY <1>3 DEF LateInitialize, spec, SameObject
<1>4. CASE spec # mem.spec
  <2>1. /\ memFresh /\ cr' = [cr EXCEPT !.spec = spec]
        /\ mem' = [cr' EXCEPT !.status = Decoded(cr.status, mem.status)]
    BY <1>4 DEF LateInitialize, spec
  <2>2. /\ mem.spec = cr.spec /\ mem.deleted = cr.deleted BY <2>1 DEF LifeInv, Agrees
  <2>3. /\ cr'.spec = spec /\ cr'.gone = cr.gone /\ cr'.deleted = cr.deleted
        /\ cr'.finalizer = cr.finalizer
    BY <1>1, <2>1 DEF ObjectType
  <2>4. mem'.deleted = cr'.deleted
    <3> DEFINE o == [cr EXCEPT !.spec = spec]
    <3>1. o.deleted = cr.deleted BY <1>1 DEF ObjectType
    <3>2. [o EXCEPT !.status = Decoded(cr.status, mem.status)].deleted = o.deleted
      BY <1>1 DEF ObjectType
    <3> QED BY <2>1, <3>2
  <2> QED BY <1>2, <2>2, <2>3, <2>4 DEF SameObject
<1> QED BY <1>3, <1>4

LEMMA DeployHist ==
    ASSUME TypeInv, LifeInv, HistInv, Deploy
    PROVE  HistInv' /\ ImplementsLife
<1> USE DEF stored, work, world, bounds, ghosts
<1>0. hist \in Seq(RevisionType) /\ mem \in ObjectType /\ takeOwnership \in BOOLEAN /\ Sane(hist)
  BY DEF TypeInv, TypeOK, HistInv
<1>1. CASE DeployCannotStart
  <2>1. SameObject /\ UNCHANGED <<cr, cache, mem, hist>> /\ pc' \in {"created", "publish"}
        /\ pc # "idle"
    BY <1>1 DEF DeployCannotStart, AfterDeploy, SameObject, Deploying
  <2> QED BY <2>1, Unseen DEF HistInv
<1>2. CASE StartInstall
  <2>1. PICK c \in Charts :
          LateInitialize(c) /\ hist' = InstallBegun(Config(c), takeOwnership)
    BY <1>2, PulledCharts DEF StartInstall
  <2>2. pc = "create" /\ pc' = "installing" /\ UNCHANGED cache BY <1>2 DEF StartInstall
  <2>3. Config(c) \in ConfigType BY <1>2, ConfigIsType DEF StartInstall
  <2>4. /\ Sane(hist') /\ Tried(hist') = {Config(c)} /\ Attempt(hist') = {Config(c)}
        /\ Running(hist') = {} /\ Last(hist').status \in PendingStatuses
        /\ DeployedAt(hist') = {}
    BY <1>0, <2>1, <2>3, InstallBegunLife
  <2>5. SameObject /\ mem'.deleted = mem.deleted BY <2>1, LateInitializeHist
  <2>6. hist = <<>> /\ ~cr.gone BY <2>2 DEF HistInv
  <2>7. HistInv' BY <2>2, <2>4, <2>5, <2>6 DEF HistInv, SameObject
  <2>8. LifeOf(cr) # "gone" BY <2>6 DEF LifeOf
  <2>9. Life!Try(Config(c))
    BY <2>4, <2>5, <2>6, <2>8, SameLife, NothingTried DEF Life!Try
  <2> QED BY <2>3, <2>7, <2>9 DEF ImplementsLife, Life!Next
<1>3. CASE StartUpgrade
  <2>1. PICK c \in Charts :
          /\ LateInitialize(c)
          /\ hist' = UpgradeBegun(hist, Config(c), takeOwnership, UpgradeMaxHistory)
    BY <1>3, PulledCharts DEF StartUpgrade
  <2>2. pc = "update" /\ pc' = "upgrading" /\ UNCHANGED cache /\ ~UpgradeRefused(hist)
    BY <1>3 DEF StartUpgrade
  <2>3. Config(c) \in ConfigType BY <1>3, ConfigIsType DEF StartUpgrade
  <2>4. hist # <<>> BY <2>2 DEF TypeInv, NonEmpty
  <2>5. UpgradeMaxHistory \in Nat BY BoundsAssumption DEF UpgradeMaxHistory
  <2>6. /\ Sane(hist') /\ Tried(hist') \subseteq Tried(hist) \cup {Config(c)}
        /\ Config(c) \in Tried(hist') /\ Attempt(hist') = {Config(c)}
        /\ Running(hist') = Running(hist) /\ Running(hist') \subseteq Tried(hist')
        /\ Last(hist').status \in PendingStatuses
    BY <1>0, <2>1, <2>3, <2>4, <2>5, UpgradeBegunLife
  <2>7. SameObject /\ mem'.deleted = mem.deleted BY <2>1, LateInitializeHist
  <2>8. ~mem.deleted /\ ~cr.gone BY <2>2, <2>4 DEF HistInv
  <2>9. HistInv' BY <2>2, <2>6, <2>7, <2>8 DEF HistInv, SameObject
  <2>10. LifeOf(cr) # "gone" BY <2>8 DEF LifeOf
  <2>11. Attempt(hist) = {}
    <3>1. Last(hist).status \notin PendingStatuses BY <2>2 DEF UpgradeRefused
    <3> QED BY <1>0, <2>4, <3>1, AttemptIsLast
  <2>12. Life!Try(Config(c))
    BY <2>6, <2>7, <2>10, <2>11, SameLife DEF Life!Try
  <2> QED BY <2>3, <2>9, <2>12 DEF ImplementsLife, Life!Next
<1>4. CASE UpgradeIsRefused
  <2>1. PICK c \in Charts : LateInitialize(c) BY <1>4, PulledCharts DEF UpgradeIsRefused
  <2>2. pc = "update" /\ pc' = "publish" /\ UNCHANGED <<cache, hist>>
    BY <1>4 DEF UpgradeIsRefused
  <2>3. SameObject /\ mem'.deleted = mem.deleted BY <2>1, LateInitializeHist
  <2> QED BY <2>2, <2>3, Unseen DEF HistInv, SameObject
<1>5. CASE FinishDeploy
  <2>1. /\ pc \in {"installing", "upgrading"} /\ pc' \in {"created", "publish"}
        /\ UNCHANGED <<cr, cache>>
        /\ hist' = IF pc = "installing" THEN WithLast(hist, "deployed") ELSE UpgradeSucceeded(hist)
    BY <1>5 DEF FinishDeploy, AfterDeploy
  <2>2. PICK st : mem' = [mem EXCEPT !.status = st] BY <1>5 DEF FinishDeploy
  <2>3. mem'.deleted = mem.deleted BY <1>0, <2>2, ObjectFields
  <2>4. hist # <<>> /\ Last(hist).status \in PendingStatuses
    BY <2>1 DEF TypeInv, NonEmpty, HistInv
  <2>5. Last(hist).status # "deployed" BY <2>4 DEF PendingStatuses
  <2>6. /\ Sane(hist') /\ Tried(hist') = Tried(hist) /\ Attempt(hist') = {}
        /\ Running(hist') = {Last(hist).cfg}
    <3>1. CASE pc = "installing"
      BY <1>0, <2>1, <2>4, <3>1, InstallSucceededLife DEF HistInv
    <3>2. CASE pc = "upgrading"
      BY <1>0, <2>1, <2>4, <2>5, <3>2, UpgradeSucceededLife
    <3> QED BY <2>1, <3>1, <3>2
  <2>7. HistInv' BY <2>1, <2>3, <2>4, <2>6 DEF HistInv
  <2>8. Attempt(hist) = {Last(hist).cfg} BY <1>0, <2>4, AttemptIsLast
  <2>9. Life!Succeed BY <2>1, <2>6, <2>8 DEF Life!Succeed
  <2> QED BY <2>7, <2>9 DEF ImplementsLife, Life!Next
<1>6. CASE FailDeploy
  <2>1. /\ pc \in {"installing", "upgrading"} /\ pc' \in {"created", "publish"}
        /\ UNCHANGED <<cr, cache, mem>> /\ hist' = WithLast(hist, "failed")
    BY <1>6 DEF FailDeploy, AfterDeploy
  <2>2. hist # <<>> /\ Last(hist).status \in PendingStatuses
    BY <2>1 DEF TypeInv, NonEmpty, HistInv
  <2>3. Last(hist).status # "deployed" BY <2>2 DEF PendingStatuses
  <2>4. /\ Sane(hist') /\ Tried(hist') = Tried(hist) /\ Attempt(hist') = {}
        /\ Running(hist') = Running(hist)
    BY <1>0, <2>1, <2>2, <2>3, WithLastLife
  <2>5. HistInv' BY <2>1, <2>2, <2>4 DEF HistInv
  <2>6. Attempt(hist) # {} BY <1>0, <2>2, AttemptIsLast
  <2>7. Life!Fail BY <2>1, <2>4, <2>6 DEF Life!Fail
  <2> QED BY <2>5, <2>7 DEF ImplementsLife, Life!Next
<1> QED BY <1>1, <1>2, <1>3, <1>4, <1>5, <1>6, Zenon DEF Deploy

LEMMA CreateHist ==
    ASSUME TypeInv, LifeInv, HistInv, StartCreate \/ RecordCreate \/ RecordCreateConflicts
    PROVE  HistInv' /\ ImplementsLife
<1> USE DEF stored, work, world, bounds, ghosts
<1>0. mem \in ObjectType /\ cr \in ObjectType /\ cache \in ObjectType BY DEF TypeInv, TypeOK
<1>1. CASE StartCreate
  <2>1. /\ cr'.finalizer = TRUE /\ cr'.spec = cr.spec /\ cr'.deleted = cr.deleted
        /\ cr'.gone = cr.gone /\ mem'.deleted = mem.deleted
    BY <1>0, <1>1 DEF StartCreate, ObjectType
  <2>2. /\ pc = "missing" /\ pc' \in {"create", "publish"} /\ UNCHANGED <<cache, hist>>
        /\ hist = <<>> /\ ~cr.gone
    BY <1>1 DEF StartCreate, LifeInv, Agrees
  <2> QED BY <2>1, <2>2, Unseen DEF HistInv, SameObject
<1>2. CASE RecordCreate
  <2>1. mem'.deleted = mem.deleted BY <1>0, <1>2, ObjectFields DEF RecordCreate
  <2>2. pc' = "publish" /\ pc # "idle" /\ UNCHANGED <<cr, cache, hist>> BY <1>2 DEF RecordCreate
  <2> QED BY <2>1, <2>2, Unseen DEF HistInv, SameObject
<1>3. CASE RecordCreateConflicts
  <2>1. mem'.deleted = cache.deleted
    BY <1>0, <1>3 DEF RecordCreateConflicts, ObjectType
  <2>2. pc' = "publish" /\ UNCHANGED <<cr, cache, hist>> BY <1>3 DEF RecordCreateConflicts
  <2> QED BY <2>1, <2>2, Unseen DEF HistInv, SameObject
<1> QED BY <1>1, <1>2, <1>3

(* A retry starts from a release that is not deployed, and an uninstall     *)
(* from one of which no revision ever was.                                  *)
LEMMA RetriedRelease ==
    ASSUME TypeInv, HistInv, Retrying
    PROVE  /\ pc = "update" /\ hist \in Seq(RevisionType) /\ hist # <<>>
           /\ Last(hist).status \in {"failed", "pending-install", "pending-upgrade"}
           /\ mem'.deleted = mem.deleted /\ ~mem.deleted
           /\ mem.status.revision = 1 => DOMAIN hist = {Len(hist)} /\ DeployedAt(hist) = {}
<1>1. /\ pc = "update" /\ hist \in Seq(RevisionType) /\ hist # <<>> /\ mem \in ObjectType
      /\ ~mem.deleted /\ mem.status.state = Last(hist).status
      /\ mem.status.revision = Last(hist).rev
  BY DEF Retrying, TypeInv, TypeOK, NonEmpty, HistInv
<1>2. Last(hist).status \in {"failed", "pending-install", "pending-upgrade"}
  BY <1>1 DEF Retrying, shouldRollBack
<1>3. mem'.deleted = mem.deleted BY <1>1 DEF Retrying, ObjectType
<1>4. ASSUME mem.status.revision = 1 PROVE DOMAIN hist = {Len(hist)} /\ DeployedAt(hist) = {}
  <2>1. /\ Len(hist) \in Nat \ {0} /\ DOMAIN hist = 1..Len(hist) /\ Len(hist) \in DOMAIN hist
        /\ \A i \in DOMAIN hist : hist[i] \in RevisionType
    BY <1>1, LastType, LenProperties, ElementOfSeq
  <2>2. Last(hist).rev = 1 BY <1>1, <1>4
  <2>3. \A i \in DOMAIN hist : ~(i < Len(hist))
    <3> SUFFICES ASSUME NEW i \in DOMAIN hist, i < Len(hist) PROVE FALSE OBVIOUS
    <3>1. hist[i].rev \in Nat \ {0} BY <2>1 DEF RevisionType
    <3>2. hist[i].rev < 1 BY <2>1, <2>2 DEF HistInv, Sane, Last
    <3> QED BY <3>1, <3>2
  <2>4. DOMAIN hist = {Len(hist)} BY <2>1, <2>3
  <2> QED BY <1>2, <2>4 DEF DeployedAt, Last
<1> QED BY <1>1, <1>2, <1>3, <1>4

LEMMA RetryHist ==
    ASSUME TypeInv, LifeInv, HistInv, Retry
    PROVE  HistInv' /\ ImplementsLife
<1> USE DEF stored, work, world, bounds, ghosts
<1>0. hist \in Seq(RevisionType) /\ mem \in ObjectType /\ Sane(hist)
  BY DEF TypeInv, TypeOK, HistInv
<1>1. CASE RetryByUninstall
  <2>1. /\ Retrying /\ mem.status.revision = 1 /\ hist' = WithLast(hist, "uninstalling")
        /\ pc' = "uninstalling" /\ UNCHANGED <<cr, cache>>
    BY <1>1 DEF RetryByUninstall
  <2>2. /\ hist # <<>> /\ DeployedAt(hist) = {} /\ mem'.deleted = mem.deleted /\ ~mem.deleted
        /\ pc = "update"
    BY <2>1, RetriedRelease
  <2>3. /\ Sane(hist') /\ Tried(hist') = Tried(hist) /\ Attempt(hist') = {}
        /\ DeployedAt(hist') = DeployedAt(hist) \ {Len(hist)}
        /\ Running(hist') = {hist[i].cfg : i \in DeployedAt(hist')}
        /\ Running(hist') \subseteq Tried(hist')
    BY <1>0, <2>1, <2>2, WithLastLife
  <2>4. DeployedAt(hist') = {} /\ Running(hist') = {} /\ Running(hist) = {}
    BY <2>2, <2>3 DEF Running
  <2>5. HistInv' BY <2>1, <2>2, <2>3, <2>4 DEF HistInv
  <2>6. Life!Remove BY <2>1, <2>3, <2>4 DEF Life!Remove
  <2> QED BY <2>5, <2>6 DEF ImplementsLife, Life!Next
<1>2. CASE RetryByRollback
  <2>1. PICK t \in RollbackTargets(hist) : hist' = RollbackBegun(hist, t)
    BY <1>2 DEF RetryByRollback
  <2>2. Retrying /\ pc' = "rollingback" /\ UNCHANGED <<cr, cache>> BY <1>2 DEF RetryByRollback
  <2>3. /\ hist # <<>> /\ mem'.deleted = mem.deleted /\ ~mem.deleted /\ pc = "update"
        /\ Last(hist).status # "deployed"
    BY <2>2, RetriedRelease
  <2>4. /\ Sane(hist') /\ Tried(hist') = Tried(hist)
        /\ \E c \in Tried(hist) : c \in ConfigType /\ Attempt(hist') = {c}
        /\ Running(hist') = Running(hist)
        /\ Last(hist').status \in PendingStatuses
        /\ Len(hist') > 1 /\ hist'[Len(hist') - 1].status # "deployed"
    BY <1>0, <2>1, <2>3, RollbackBegunLife
  <2>5. ~cr.gone BY <2>3 DEF HistInv
  <2>6. HistInv' BY <2>2, <2>3, <2>4, <2>5 DEF HistInv
  <2>7. PICK c \in Tried(hist) : c \in ConfigType /\ Attempt(hist') = {c} BY <2>4
  <2>8. LifeOf(cr) # "gone" BY <2>5 DEF LifeOf
  <2>9. Life!GoBack(c) BY <2>2, <2>4, <2>7, <2>8 DEF Life!GoBack
  <2> QED BY <2>6, <2>7, <2>9 DEF ImplementsLife, Life!Next
<1>3. CASE RetryFails \/ RetriesExhausted
  <2>1. SameObject /\ UNCHANGED <<cr, cache, hist>> /\ pc = "update" /\ pc' = "publish"
    BY <1>3 DEF RetryFails, RetriesExhausted, Retrying, SameObject
  <2>2. mem'.deleted = mem.deleted
    BY <1>3, RetriedRelease DEF RetryFails, RetriesExhausted
  <2> QED BY <2>1, <2>2, Unseen DEF HistInv
<1>4. CASE FinishRollback
  <2>1. /\ pc = "rollingback" /\ pc' = "publish" /\ UNCHANGED <<cr, cache, mem>>
        /\ hist' = RollbackSucceeded(hist)
    BY <1>4 DEF FinishRollback
  <2>2. hist # <<>> /\ Last(hist).status \in PendingStatuses
    BY <2>1 DEF TypeInv, NonEmpty, HistInv
  <2>3. /\ Sane(hist') /\ Tried(hist') = Tried(hist) /\ Attempt(hist') = {}
        /\ Running(hist') = {Last(hist).cfg}
    BY <1>0, <2>1, <2>2, RollbackSucceededLife
  <2>4. HistInv' BY <2>1, <2>2, <2>3 DEF HistInv
  <2>5. Attempt(hist) = {Last(hist).cfg} BY <1>0, <2>2, AttemptIsLast
  <2>6. Life!Succeed BY <2>1, <2>3, <2>5 DEF Life!Succeed
  <2> QED BY <2>4, <2>6 DEF ImplementsLife, Life!Next
<1>5. CASE FailRollback
  <2>1. /\ pc = "rollingback" /\ pc' = "publish" /\ UNCHANGED <<cr, cache, mem>>
        /\ hist' = RollbackFailed(hist)
    BY <1>5 DEF FailRollback
  <2>2. /\ hist # <<>> /\ Last(hist).status \in PendingStatuses
        /\ Len(hist) > 1 /\ hist[Len(hist) - 1].status # "deployed"
    BY <2>1 DEF TypeInv, NonEmpty, HistInv
  <2>3. Last(hist).status # "deployed" BY <2>2 DEF PendingStatuses
  <2>4. /\ Sane(hist') /\ Tried(hist') = Tried(hist) /\ Attempt(hist') = {}
        /\ Running(hist') = Running(hist)
    BY <1>0, <2>1, <2>2, <2>3, RollbackFailedLife
  <2>5. HistInv' BY <2>1, <2>2, <2>4 DEF HistInv
  <2>6. Attempt(hist) # {} BY <1>0, <2>2, AttemptIsLast
  <2>7. Life!Fail BY <2>1, <2>4, <2>6 DEF Life!Fail
  <2> QED BY <2>5, <2>7 DEF ImplementsLife, Life!Next
<1> QED BY <1>1, <1>2, <1>3, <1>4, <1>5, Zenon DEF Retry

LEMMA DeletingKeeps == ASSUME mem \in ObjectType PROVE Deleting.deleted = mem.deleted
BY DEF Deleting, ObjectType

LEMMA DeleteHist ==
    ASSUME TypeInv, LifeInv, HistInv,
           StartDelete \/ DeleteFails \/ FinishUninstall \/ FailUninstall
    PROVE  HistInv' /\ ImplementsLife
<1> USE DEF stored, work, world, bounds, ghosts
<1>0. hist \in Seq(RevisionType) /\ mem \in ObjectType /\ Sane(hist)
  BY DEF TypeInv, TypeOK, HistInv
<1>1. CASE StartDelete
  <2>1. /\ pc = "delete" /\ pc' = "uninstalling" /\ UNCHANGED <<cr, cache, mem>>
        /\ hist' = WithLast(hist, "uninstalling")
    BY <1>1 DEF StartDelete
  <2>2. hist # <<>> /\ mem.deleted /\ cache.deleted /\ cr.deleted
    BY <2>1 DEF TypeInv, NonEmpty, HistInv
  <2>3. /\ Sane(hist') /\ Tried(hist') = Tried(hist) /\ Attempt(hist') = {}
        /\ DeployedAt(hist') = DeployedAt(hist) \ {Len(hist)}
        /\ Running(hist') = {hist[i].cfg : i \in DeployedAt(hist')}
        /\ Running(hist') \subseteq Tried(hist')
    BY <1>0, <2>1, <2>2, WithLastLife
  <2>4. Running(hist') \in {Running(hist), {}}
    <3>1. DeployedAt(hist') \in {DeployedAt(hist), {}} BY <2>3 DEF HistInv, Sane
    <3> QED BY <2>3, <3>1 DEF Running
  <2>5. HistInv' BY <2>1, <2>2, <2>3 DEF HistInv
  <2>6. LifeOf(cr) # "live" BY <2>2 DEF LifeOf
  <2>7. Life!Remove BY <2>1, <2>3, <2>4, <2>6 DEF Life!Remove
  <2> QED BY <2>5, <2>7 DEF ImplementsLife, Life!Next
<1>2. ASSUME hist' = hist, DeleteFails \/ FailUninstall PROVE HistInv' /\ ImplementsLife
  <2>1. /\ pc \in {"delete", "uninstalling"} /\ pc' = "publish" /\ UNCHANGED <<cr, cache>>
        /\ mem' = Deleting
    BY <1>2 DEF DeleteFails, FailUninstall
  <2>2. mem'.deleted = mem.deleted BY <1>0, <2>1, DeletingKeeps
  <2> QED BY <1>2, <2>1, <2>2, Unseen DEF HistInv, SameObject
<1>3. ASSUME hist' = <<>>, FinishUninstall \/ FailUninstall PROVE HistInv' /\ ImplementsLife
  <2>1. /\ pc = "uninstalling" /\ pc' = "publish" /\ UNCHANGED <<cr, cache>>
        /\ mem' = Deleting
    BY <1>3 DEF FinishUninstall, FailUninstall
  <2>2. mem'.deleted = mem.deleted BY <1>0, <2>1, DeletingKeeps
  <2>3. HistInv' BY <1>3, <2>1, <2>2, NothingTried DEF HistInv
  <2>4. LifeOf(cr) = "live" => Running(hist) = {}
    BY <2>1 DEF HistInv, LifeOf, Running
  <2>5. Life!Remove BY <1>3, <2>1, <2>4, NothingTried DEF Life!Remove
  <2> QED BY <2>3, <2>5 DEF ImplementsLife, Life!Next
<1> QED BY <1>1, <1>2, <1>3 DEF FinishUninstall, FailUninstall, DeleteFails

LEMMA HistStep ==
    TypeInv /\ LifeInv /\ HistInv /\ [Next]_vars => HistInv' /\ ImplementsLife
<1> SUFFICES ASSUME TypeInv, LifeInv, HistInv, [Next]_vars PROVE HistInv' /\ ImplementsLife
  OBVIOUS
<1>1. CASE UNCHANGED vars
  <2>1. UNCHANGED <<cr, cache, mem, pc, hist>> BY <1>1 DEF vars, stored, work, world
  <2> QED BY <2>1, Unseen DEF HistInv, SameObject
<1>2. CASE Next
  BY <1>2, EnvironmentHist, ObserveHist, EndHist, DeployHist, CreateHist, RetryHist,
     DeleteHist, Zenon DEF Next, Worker, Faults
<1> QED BY <1>1, <1>2

(* The controller keeps what ReleaseLife promises, whatever the charts, the *)
(* specs, the faults and their number: an object goes only when nothing is  *)
(* installed or it was to be kept, one configuration is tried at a time,    *)
(* and what runs gives way to nothing but a success or a deletion.          *)
THEOREM LifeImplemented == Spec => LifeSpec
<1>1. Init => TypeInv /\ LifeInv /\ HistInv /\ Life!Init BY TypeInit, LifeInit, HistInit
<1>2. TypeInv /\ LifeInv /\ HistInv /\ [Next]_vars =>
         TypeInv' /\ LifeInv' /\ HistInv' /\ [Life!Next]_(Life!vars)
  BY TypeStep, LifeStep, HistStep DEF ImplementsLife
<1> QED BY <1>1, <1>2, PTL DEF Spec, LifeSpec, Life!Spec

(* The uninstall that replaces the rollback of a first revision meets only  *)
(* releases of which nothing was deployed, although it goes by the revision *)
(* number in the status: no stale status brings it to the wrong release.    *)
THEOREM DeployedSurvivesRetries == Spec => RetryKeepsDeployed
<1>1. TypeInv /\ HistInv /\ RetryByUninstall =>
         \A i \in DOMAIN hist : hist[i].status \notin {"deployed", "superseded"}
  <2> SUFFICES ASSUME TypeInv, HistInv, RetryByUninstall
               PROVE  \A i \in DOMAIN hist : hist[i].status \notin {"deployed", "superseded"}
    OBVIOUS
  <2>1. /\ DOMAIN hist = {Len(hist)}
        /\ Last(hist).status \in {"failed", "pending-install", "pending-upgrade"}
    BY RetriedRelease DEF RetryByUninstall
  <2> QED BY <2>1 DEF Last
<1>2. Init => TypeInv /\ LifeInv /\ HistInv BY TypeInit, LifeInit, HistInit
<1>3. TypeInv /\ LifeInv /\ HistInv /\ [Next]_vars => TypeInv' /\ LifeInv' /\ HistInv'
  BY TypeStep, LifeStep, HistStep
<1> QED BY <1>1, <1>2, <1>3, PTL DEF Spec, RetryKeepsDeployed
=============================================================================
