------------------------------ MODULE ChartCache ------------------------------
(***************************************************************************)
(* The directory of pulled charts that all reconciles of the provider      *)
(* share, without a lock: NewClient makes it, PullAndLoadChart looks for   *)
(* the file of a reference, pulls into a directory of its own if there is  *)
(* none, renames the file into the cache and loads it by name.  Files are  *)
(* replaced but never removed.                                             *)
(***************************************************************************)
EXTENDS ChartRefs

CONSTANTS Workers,   \* the reconciles that run at once
          NoRef, NoChart,
          Partial,   \* a file that is still being written
          MaxCalls   \* bound: calls of PullAndLoadChart

ASSUME CacheBounds == MaxCalls \in Nat /\ NoRef \notin Refs /\ NoChart \notin Charts
                      /\ Partial \notin Charts \cup {NoChart}

VARIABLES
    published, want, since, got, \* as in ChartSource; since is observation only
    dir,    \* whether the cache directory exists
    cache,  \* its files: a chart, or NoChart where there is none
    pc,     \* where each worker is
    path,   \* the file a worker is about to look for or to load
    tmp,    \* what is in the worker's own directory
    calls   \* calls so far

shared == <<dir, cache, calls>>
vars == <<published, want, since, got, shared, pc, path, tmp>>

Source == INSTANCE ChartSource

Files == {CachePath(r) : r \in Refs} \cup {File(c.name, c.version, "") : c \in Charts}

NoFile == File("", 0, "")

TypeOK ==
    /\ published \subseteq Charts
    /\ want \in [Workers -> Refs \cup {NoRef}] /\ since \in [Workers -> SUBSET Charts]
    /\ got \in [Workers -> Charts \cup {NoChart}]
    /\ dir \in BOOLEAN /\ cache \in [Files -> Charts \cup {NoChart}]
    /\ pc \in [Workers -> {"start", "mkdir", "ready", "stat", "pull", "pulling", "pulled", "load"}]
    /\ path \in [Workers -> Files \cup {NoFile}]
    /\ tmp \in [Workers -> Charts \cup {NoChart}]
    /\ calls \in Nat

Init ==
    /\ Source!Init
    /\ dir = FALSE /\ cache = [f \in Files |-> NoChart] /\ calls = 0
    /\ pc = [w \in Workers |-> "start"] /\ path = [w \in Workers |-> NoFile]
    /\ tmp = [w \in Workers |-> NoChart]

Goto(w, label) == pc' = [pc EXCEPT ![w] = label]

Publish == Source!Publish /\ UNCHANGED <<shared, pc, path, tmp>>
-----------------------------------------------------------------------------
(* NewClient: the directory is made unless it is there.  Somebody else may   *)
(* make it in between, and then the reconcile fails.                        *)

(* Mutant: the directory is made without looking. *)
StatDir_Never(w) ==
    /\ pc[w] = "start" /\ Goto(w, "mkdir")
    /\ UNCHANGED <<published, want, since, got, shared, path, tmp>>

StatDir(w) ==
    /\ pc[w] = "start" /\ Goto(w, IF dir THEN "ready" ELSE "mkdir")
    /\ UNCHANGED <<published, want, since, got, shared, path, tmp>>

MakeDir(w) ==
    /\ pc[w] = "mkdir" /\ dir' = TRUE
    /\ Goto(w, IF dir THEN "start" ELSE "ready")
    /\ UNCHANGED <<published, want, since, got, cache, calls, path, tmp>>
-----------------------------------------------------------------------------
(* PullAndLoadChart. *)
Location(w) == Resolved(want[w])

(* What belongs to a call ends with it. *)
Returns(w) ==
    /\ want' = [want EXCEPT ![w] = NoRef] /\ since' = [since EXCEPT ![w] = {}]
    /\ path' = [path EXCEPT ![w] = NoFile]

Call(w) ==
    /\ pc[w] = "ready" /\ calls < MaxCalls /\ calls' = calls + 1
    /\ \E ref \in Refs :
          /\ ~Rejected(ref)
          /\ want' = [want EXCEPT ![w] = ref]
          /\ IF Latest(ref)
             THEN Goto(w, "pull") /\ UNCHANGED path
             ELSE Goto(w, "stat") /\ path' = [path EXCEPT ![w] = CachePath(ref)]
    /\ since' = [since EXCEPT ![w] = published]
    /\ got' = [got EXCEPT ![w] = NoChart]
    /\ UNCHANGED <<published, dir, cache, tmp>>

CallRejected(w) ==
    /\ pc[w] = "ready" /\ calls < MaxCalls /\ calls' = calls + 1
    /\ \E ref \in Refs : Rejected(ref)
    /\ Goto(w, "start")
    /\ UNCHANGED <<published, want, since, got, dir, cache, path, tmp>>

(* ensureChartCached *)
Stat(w) ==
    /\ pc[w] = "stat"
    /\ Goto(w, IF cache[path[w]] # NoChart THEN "load" ELSE "pull")
    /\ UNCHANGED <<published, want, since, got, shared, path, tmp>>

(* Mutant: the chart is pulled straight into the cache. *)
StartPull_InPlace(w) ==
    /\ pc[w] = "pull" /\ Goto(w, "pulling")
    /\ \E c \in Pulls(Location(w), published) :
          /\ tmp' = [tmp EXCEPT ![w] = c]
          /\ cache' = [cache EXCEPT ![PulledName(want[w], c)] = Partial]
    /\ UNCHANGED <<published, want, since, got, dir, calls, path>>

(* Which chart it will be is settled by the registry's answer, the download *)
(* goes on in a directory no one else looks into.                           *)
StartPull(w) ==
    /\ pc[w] = "pull" /\ Goto(w, "pulling")
    /\ \E c \in Pulls(Location(w), published) : tmp' = [tmp EXCEPT ![w] = c]
    /\ UNCHANGED <<published, want, since, got, shared, path>>

FinishPull(w) ==
    /\ pc[w] = "pulling" /\ Goto(w, "pulled")
    /\ UNCHANGED <<published, want, since, got, shared, path, tmp>>

(* The caller gets an error, and the worker's directory is removed. *)
PullFails(w) ==
    /\ pc[w] \in {"pull", "pulling"} /\ Goto(w, "start")
    /\ Returns(w) /\ tmp' = [tmp EXCEPT ![w] = NoChart]
    /\ UNCHANGED <<published, got, shared>>

(* Without a version the file is looked for once more, by the name it got. *)
Rename(w) ==
    /\ pc[w] = "pulled"
    /\ LET file == PulledName(want[w], tmp[w])
       IN  cache' = [cache EXCEPT ![file] = tmp[w]] /\ path' = [path EXCEPT ![w] = file]
    /\ Goto(w, IF Latest(want[w]) THEN "stat" ELSE "load")
    /\ tmp' = [tmp EXCEPT ![w] = NoChart]
    /\ UNCHANGED <<published, want, since, got, dir, calls>>

Load(w) ==
    /\ pc[w] = "load" /\ Goto(w, "start")
    /\ got' = [got EXCEPT ![w] = cache[path[w]]]
    /\ Returns(w)
    /\ UNCHANGED <<published, shared, tmp>>
-----------------------------------------------------------------------------
Step(w) ==
    \/ StatDir(w) \/ MakeDir(w) \/ Call(w) \/ CallRejected(w) \/ Stat(w)
    \/ StartPull(w) \/ FinishPull(w) \/ PullFails(w) \/ Rename(w) \/ Load(w)

Next == Publish \/ \E w \in Workers : Step(w)

(* The scheduler runs every worker that can go on. *)
Spec == Init /\ [][Next]_vars /\ \A w \in Workers : WF_vars(Step(w))
-----------------------------------------------------------------------------
(* The shared directory cannot be told from a source that answers each call  *)
(* by itself: between the look, the rename and the load of one reconcile    *)
(* others may pull, rename and load the same names.                         *)
SourceSpec == Source!Spec

(* No reconcile loads a file that is missing or not yet complete.           *)
LoadsWholeFiles == \A w \in Workers : pc[w] = "load" => cache[path[w]] \in Charts

(* A client that lost the race for the directory is made up for later.      *)
DirRaceEnds == \A w \in Workers : pc[w] = "mkdir" ~> pc[w] = "ready"

(* "ensureChartCached verifies a chart exists in the cache": a reconcile     *)
(* never loads a chart of another repository than its reference names.      *)
RepositoryHonoured ==
    [][\A w \in Workers : Load(w) => cache[path[w]].repo = Location(w).repo]_vars
=============================================================================
