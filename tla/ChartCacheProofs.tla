--------------------------- MODULE ChartCacheProofs ---------------------------
(***************************************************************************)
(* Theorems about the chart cache, for any number of workers, references   *)
(* and charts.                                                             *)
(***************************************************************************)
EXTENDS ChartCache, TLAPS

LEMMA FilesOfRefs == ASSUME NEW ref \in Refs PROVE CachePath(ref) \in Files
BY DEF Files

(* What a reference may bring, as far as names, versions and digests go.    *)
Suits(ref, c) ==
    LET loc == Resolved(ref)
    IN  /\ c.name = loc.name
        /\ IF loc.digest = "" THEN loc.version # 0 => c.version = loc.version
                              ELSE c.digest = loc.digest

(* What a pull brings is saved under one of the names the cache knows.      *)
LEMMA PulledFile ==
    ASSUME NEW ref \in Refs, NEW c \in Charts, Suits(ref, c)
    PROVE  PulledName(ref, c) \in Files
<1>1. CASE ByHTTP(ref)
  <2>1. PulledName(ref, c) = CachePath(ref) BY <1>1 DEF PulledName, CachePath
  <2> QED BY <2>1, FilesOfRefs
<1>2. CASE ~ByHTTP(ref) /\ Resolved(ref).digest = ""
  <2>1. PulledName(ref, c) = File(c.name, c.version, "")
    BY <1>2 DEF PulledName
  <2> QED BY <2>1 DEF Files
<1>3. CASE ~ByHTTP(ref) /\ Resolved(ref).digest # ""
  <2>1. PulledName(ref, c) = CachePath(ref)
    BY <1>3 DEF PulledName, CachePath, File, Suits
  <2> QED BY <2>1, FilesOfRefs
<1> QED BY <1>1, <1>2, <1>3
-----------------------------------------------------------------------------
(* Every file was saved for a reference, and holds a chart that suits it;    *)
(* what a worker has pulled suits its own reference; and the file it looks   *)
(* for is the one of the reference, or named after a version new enough.    *)
Named(file, c) == \E ref \in Refs : Suits(ref, c) /\ file = PulledName(ref, c)

NotOlder(ref, version, before) ==
    LET loc == Resolved(ref)
    IN  Latest(ref) => \A d \in before :
                          d.repo = loc.repo /\ d.name = loc.name => d.version <= version

Brought(w, c) ==
    /\ c \in published /\ Suits(want[w], c)
    /\ NotOlder(want[w], c.version, since[w])

Leads(w, file) ==
    /\ file \in Files
    /\ IF Latest(want[w])
       THEN /\ file.name = Location(w).name /\ file.digest = "" /\ file.version # 0
            /\ NotOlder(want[w], file.version, since[w])
       ELSE file = CachePath(want[w])

CallInv(w) ==
    /\ pc[w] \in {"start", "mkdir", "ready"} <=> want[w] = NoRef
    /\ want[w] # NoRef => ~Rejected(want[w])
    /\ since[w] \subseteq published
    /\ pc[w] \in {"pulling", "pulled"} => Brought(w, tmp[w])
    /\ pc[w] \in {"stat", "load"} => Leads(w, path[w])
    /\ pc[w] = "load" => cache[path[w]] # NoChart

CacheInv ==
    /\ TypeOK
    /\ \A f \in Files : cache[f] # NoChart => cache[f] \in published /\ Named(f, cache[f])
    /\ \A w \in Workers : CallInv(w)

LEMMA CacheInit == Init => CacheInv
<1> SUFFICES ASSUME Init PROVE CacheInv OBVIOUS
<1> USE DEF Init, Source!Init
<1>1. TypeOK BY DEF TypeOK
<1>2. \A w \in Workers : CallInv(w) BY DEF CallInv
<1> QED BY <1>1, <1>2 DEF CacheInv

LEMMA PublishCache == ASSUME CacheInv, Publish PROVE CacheInv'
<1>1. PICK c \in Charts : published' = published \cup {c}
  BY DEF Publish, Source!Publish
<1>2. UNCHANGED <<want, since, got, shared, pc, path, tmp>> BY DEF Publish, Source!Publish
<1>3. TypeOK' BY <1>1, <1>2 DEF CacheInv, TypeOK, shared
<1>4. ASSUME NEW w \in Workers PROVE CallInv(w)'
  BY <1>1, <1>2 DEF CacheInv, CallInv, Brought, Leads, Location, shared
<1> QED BY <1>1, <1>2, <1>3, <1>4 DEF CacheInv, shared, Named

(* A worker's step leaves the others' part of the invariant alone as long as *)
(* the cache keeps the files it has.                                        *)
LEMMA OtherWorkers ==
    ASSUME CacheInv, NEW w \in Workers, NEW v \in Workers, v # w,
           published' = published,
           want'[v] = want[v], since'[v] = since[v], pc'[v] = pc[v],
           path'[v] = path[v], tmp'[v] = tmp[v],
           \A f \in Files : cache[f] # NoChart => cache'[f] # NoChart
    PROVE  CallInv(v)'
<1>1. CallInv(v) BY DEF CacheInv
<1> QED BY <1>1 DEF CallInv, Brought, Leads, Location

LEMMA NothingKept ==
    ASSUME CacheInv, NEW w \in Workers, UNCHANGED <<published, cache>>, TypeOK',
           \A v \in Workers \ {w} :
               /\ want'[v] = want[v] /\ since'[v] = since[v] /\ pc'[v] = pc[v]
               /\ path'[v] = path[v] /\ tmp'[v] = tmp[v],
           CallInv(w)'
    PROVE  CacheInv'
<1>1. \A v \in Workers \ {w} : CallInv(v)' BY OtherWorkers
<1> QED BY <1>1 DEF CacheInv, Named

LEMMA StepCache == ASSUME CacheInv, NEW w \in Workers, Step(w) PROVE CacheInv'
<1> USE DEF Goto, shared
<1>0. TypeOK /\ CallInv(w) BY DEF CacheInv
<1>a. want[w] # NoRef => want[w] \in Refs BY <1>0 DEF TypeOK
<1>1. CASE StatDir(w) \/ MakeDir(w) \/ CallRejected(w)
  <2>0. /\ UNCHANGED <<published, cache, want, since, got, path, tmp>>
        /\ pc[w] \in {"start", "mkdir", "ready"}
        /\ dir' \in {dir, TRUE} /\ calls' \in {calls, calls + 1}
        /\ \E label \in {"start", "mkdir", "ready"} : pc' = [pc EXCEPT ![w] = label]
    BY <1>1 DEF StatDir, MakeDir, CallRejected
  <2>1. PICK label \in {"start", "mkdir", "ready"} : pc' = [pc EXCEPT ![w] = label]
    BY <2>0
  <2>2. pc'[w] \in {"start", "mkdir", "ready"} /\ \A v \in Workers \ {w} : pc'[v] = pc[v]
    BY <1>0, <2>1 DEF TypeOK
  <2>3. dir' \in BOOLEAN BY <1>0, <2>0, Zenon DEF TypeOK
  <2>4. calls' \in Nat BY <1>0, <2>0 DEF TypeOK
  <2>5. TypeOK' BY <1>0, <2>0, <2>1, <2>3, <2>4 DEF TypeOK
  <2>6. CallInv(w)' BY <1>0, <2>0, <2>2 DEF CallInv
  <2> QED BY <2>0, <2>2, <2>5, <2>6, NothingKept
<1>2. CASE Call(w)
  <2>1. PICK ref \in Refs :
            /\ ~Rejected(ref) /\ want' = [want EXCEPT ![w] = ref]
            /\ IF Latest(ref)
               THEN Goto(w, "pull") /\ UNCHANGED path
               ELSE Goto(w, "stat") /\ path' = [path EXCEPT ![w] = CachePath(ref)]
    BY <1>2 DEF Call
  <2>2. /\ pc[w] = "ready" /\ since' = [since EXCEPT ![w] = published]
        /\ got' = [got EXCEPT ![w] = NoChart] /\ calls' = calls + 1
        /\ UNCHANGED <<published, dir, cache, tmp>>
    BY <1>2 DEF Call
  <2>3. TypeOK' BY <1>0, <2>1, <2>2, FilesOfRefs DEF TypeOK
  <2>4. want'[w] = ref /\ since'[w] = published /\ ref # NoRef /\ ~Rejected(ref)
    BY <1>0, <2>1, <2>2, CacheBounds DEF TypeOK
  <2>5. ASSUME Latest(ref) PROVE CallInv(w)'
    <3>1. pc'[w] = "pull" BY <1>0, <2>1, <2>5 DEF TypeOK
    <3> QED BY <2>2, <2>4, <3>1 DEF CallInv
  <2>6. ASSUME ~Latest(ref) PROVE CallInv(w)'
    <3>1. pc'[w] = "stat" /\ path'[w] = CachePath(ref)
      BY <1>0, <2>1, <2>6 DEF TypeOK
    <3>2. Leads(w, path[w])'
      BY <2>4, <2>6, <3>1, FilesOfRefs DEF Leads
    <3> QED BY <2>2, <2>4, <3>1, <3>2 DEF CallInv
  <2>7. CallInv(w)' BY <2>5, <2>6
  <2>8. \A v \in Workers \ {w} :
            /\ want'[v] = want[v] /\ since'[v] = since[v] /\ pc'[v] = pc[v]
            /\ path'[v] = path[v] /\ tmp'[v] = tmp[v]
    BY <1>0, <2>1, <2>2 DEF TypeOK
  <2> QED BY <2>2, <2>3, <2>7, <2>8, NothingKept
<1>3. CASE Stat(w)
  <2>1. /\ TypeOK' /\ UNCHANGED <<published, cache, want, since, path, tmp>>
        /\ pc[w] = "stat" /\ pc'[w] = IF cache[path[w]] # NoChart THEN "load" ELSE "pull"
        /\ \A v \in Workers \ {w} : pc'[v] = pc[v]
    BY <1>0, <1>3 DEF TypeOK, Stat
  <2>2. CallInv(w)' BY <1>0, <2>1 DEF CallInv, Leads, Location
  <2> QED BY <2>1, <2>2, NothingKept
<1>4. CASE StartPull(w)
  <2>1. PICK c \in Pulls(Location(w), published) : tmp' = [tmp EXCEPT ![w] = c]
    BY <1>4 DEF StartPull
  <2>2. /\ pc[w] = "pull" /\ pc' = [pc EXCEPT ![w] = "pulling"]
        /\ UNCHANGED <<published, want, since, got, dir, cache, calls, path>>
    BY <1>4 DEF StartPull
  <2>3. c \in published BY <2>1 DEF Pulls
  <2>4. TypeOK' BY <1>0, <2>1, <2>2, <2>3 DEF TypeOK
  <2>5. tmp'[w] = c /\ pc'[w] = "pulling" BY <1>0, <2>1, <2>2 DEF TypeOK
  <2>6. since[w] \subseteq published BY <1>0 DEF CallInv
  <2>7. Brought(w, c)
    <3> DEFINE loc == Resolved(want[w])
    <3>1. /\ c.name = loc.name
          /\ loc.digest # "" => c.digest = loc.digest
          /\ loc.digest = "" /\ loc.version # 0 => c.version = loc.version
          /\ Versionless(loc) => \A d \in published :
                                    d.repo = loc.repo /\ d.name = loc.name => d.version <= c.version
      BY <2>1 DEF Pulls, Location
    <3>2. Suits(want[w], c) BY <3>1 DEF Suits
    <3>3. NotOlder(want[w], c.version, since[w]) BY <2>6, <3>1 DEF NotOlder, Latest
    <3> QED BY <2>3, <3>2, <3>3 DEF Brought
  <2>8. CallInv(w)' BY <1>0, <2>2, <2>5, <2>7 DEF CallInv, Brought, Location
  <2> QED BY <1>0, <2>1, <2>2, <2>4, <2>8, NothingKept DEF TypeOK
<1>5. CASE FinishPull(w)
  <2>1. /\ TypeOK' /\ UNCHANGED <<published, cache, want, since, path, tmp>>
        /\ pc[w] = "pulling" /\ pc'[w] = "pulled"
        /\ \A v \in Workers \ {w} : pc'[v] = pc[v]
    BY <1>0, <1>5 DEF TypeOK, FinishPull
  <2>2. CallInv(w)' BY <1>0, <2>1 DEF CallInv, Brought, Location
  <2> QED BY <2>1, <2>2, NothingKept
<1>6. CASE PullFails(w) \/ Load(w)
  <2>1. /\ pc' = [pc EXCEPT ![w] = "start"] /\ UNCHANGED <<published, dir, cache, calls>>
        /\ Returns(w)
        /\ tmp' \in {tmp, [tmp EXCEPT ![w] = NoChart]}
        /\ got' \in {got, [got EXCEPT ![w] = cache[path[w]]]}
    BY <1>6 DEF PullFails, Load
  <2>2. Load(w) => cache[path[w]] \in Charts \cup {NoChart}
    BY <1>0 DEF Load, CallInv, Leads, TypeOK
  <2>3. TypeOK'
    <3>1. got' \in [Workers -> Charts \cup {NoChart}]
      BY <1>0, <1>6, <2>2 DEF TypeOK, PullFails, Load
    <3> QED BY <1>0, <2>1, <3>1 DEF TypeOK, Returns
  <2>4. pc'[w] = "start" /\ want'[w] = NoRef /\ since'[w] = {}
    BY <1>0, <2>1 DEF TypeOK, Returns
  <2>5. CallInv(w)' BY <2>4 DEF CallInv
  <2>6. \A v \in Workers \ {w} :
            /\ want'[v] = want[v] /\ since'[v] = since[v] /\ pc'[v] = pc[v]
            /\ path'[v] = path[v] /\ tmp'[v] = tmp[v]
    BY <1>0, <2>1 DEF TypeOK, Returns
  <2> QED BY <2>1, <2>3, <2>5, <2>6, NothingKept
<1>7. CASE Rename(w)
  <2> DEFINE c == tmp[w]
             ref == want[w]
             file == PulledName(ref, c)
  <2>1. /\ pc[w] = "pulled" /\ cache' = [cache EXCEPT ![file] = c]
        /\ path' = [path EXCEPT ![w] = file]
        /\ pc' = [pc EXCEPT ![w] = IF Latest(ref) THEN "stat" ELSE "load"]
        /\ tmp' = [tmp EXCEPT ![w] = NoChart]
        /\ UNCHANGED <<published, want, since, got, dir, calls>>
    BY <1>7 DEF Rename
  <2>2. Brought(w, c) /\ ref \in Refs BY <1>0, <1>a, <2>1 DEF CallInv
  <2>3. c \in Charts /\ c \in published /\ c # NoChart
    BY <1>0, <2>2, CacheBounds DEF Brought, TypeOK
  <2>4. file \in Files BY <2>2, <2>3, PulledFile DEF Brought
  <2>5. TypeOK' BY <1>0, <2>1, <2>3, <2>4 DEF TypeOK
  <2>7. Named(file, c) BY <2>2 DEF Named, Brought
  <2>8. Leads(w, file)
    <3>1. CASE Latest(ref)
      <4>1. ~ByHTTP(ref) /\ Resolved(ref).digest = "" BY <3>1 DEF Latest, Versionless
      <4>2. file = [name |-> c.name, version |-> c.version, digest |-> ""]
        BY <4>1 DEF PulledName, File
      <4>3. c.version # 0 BY <2>3, ChartsAreTyped DEF ChartType
      <4>4. file.name = c.name /\ file.version = c.version /\ file.digest = ""
        <5> HIDE DEF file
        <5> QED BY <4>2
      <4>5. c.name = Location(w).name /\ NotOlder(ref, c.version, since[w])
        BY <2>2 DEF Brought, Suits, Location
      <4> HIDE DEF file
      <4> QED BY <2>4, <3>1, <4>3, <4>4, <4>5 DEF Leads
    <3>2. CASE ~Latest(ref)
      <4>1. file = CachePath(ref)
        <5>1. CASE ByHTTP(ref) BY <5>1 DEF PulledName, CachePath
        <5>2. CASE ~ByHTTP(ref)
          <6>1. c.name = Resolved(ref).name
                /\ (Resolved(ref).digest = "" => c.version = Resolved(ref).version)
            BY <2>2, <3>2, <5>2 DEF Brought, Suits, Latest, Versionless
          <6> QED BY <5>2, <6>1 DEF PulledName, CachePath, File
        <5> QED BY <5>1, <5>2
      <4> QED BY <2>4, <3>2, <4>1 DEF Leads
    <3> QED BY <3>1, <3>2
  <2> HIDE DEF c, ref, file
  <2>9. cache'[file] = c /\ path'[w] = file /\ pc'[w] \in {"stat", "load"}
        /\ \A f \in Files \ {file} : cache'[f] = cache[f]
    BY <1>0, <2>1, <2>4 DEF TypeOK
  <2>10. Leads(w, path[w])' BY <2>1, <2>8, <2>9 DEF Leads, Location
  <2>11. CallInv(w)'
    <3>1. want'[w] # NoRef /\ ~Rejected(want'[w]) /\ since'[w] \subseteq published'
      BY <1>0, <2>1 DEF CallInv
    <3> QED BY <2>3, <2>9, <2>10, <3>1 DEF CallInv
  <2>12. \A v \in Workers \ {w} : CallInv(v)'
    BY <1>0, <2>1, <2>3, <2>9, OtherWorkers DEF TypeOK
  <2>13. \A f \in Files : cache'[f] # NoChart => cache'[f] \in published' /\ Named(f, cache'[f])
    BY <2>1, <2>3, <2>7, <2>9 DEF CacheInv
  <2> QED BY <2>5, <2>11, <2>12, <2>13 DEF CacheInv, Named
<1> QED BY <1>1, <1>2, <1>3, <1>4, <1>5, <1>6, <1>7 DEF Step

LEMMA CacheStep == CacheInv /\ [Next]_vars => CacheInv'
<1> SUFFICES ASSUME CacheInv, [Next]_vars PROVE CacheInv' OBVIOUS
<1>1. CASE UNCHANGED vars
  BY <1>1 DEF vars, shared, CacheInv, TypeOK, CallInv, Brought, Leads, Location, Named
<1>2. CASE Next BY <1>2, PublishCache, StepCache DEF Next
<1> QED BY <1>1, <1>2

(* The cache maps known file names to charts or nothing at every moment, and *)
(* every worker holds what its place in the call says.                      *)
THEOREM CacheTyped == Spec => []TypeOK
<1>1. CacheInv => TypeOK BY DEF CacheInv
<1> QED BY <1>1, CacheInit, CacheStep, PTL DEF Spec

(* No reconcile, among any number of them, loads a missing or partial file. *)
THEOREM WholeFilesLoaded == Spec => []LoadsWholeFiles
<1>1. ASSUME CacheInv PROVE LoadsWholeFiles
  BY <1>1 DEF CacheInv, CallInv, Leads, TypeOK, LoadsWholeFiles
<1> QED BY <1>1, CacheInit, CacheStep, PTL DEF Spec
-----------------------------------------------------------------------------
(* The conditions under which the cache keeps the promise of ChartSource:    *)
(* no two repositories offer charts of the same name, a digest is specified  *)
(* only for what is pulled from a registry, and a file at a URL that is no   *)
(* registry's has a name of its own: one that tells the chart's name and    *)
(* version, or one that no other URL ends in.                               *)
OneHome ==
    \A ref \in Refs, c \in Charts : c.name = Resolved(ref).name => c.repo = Resolved(ref).repo

DigestUsed ==
    \A ref \in Refs : ref.digest # "" => Resolved(ref).digest = ref.digest \/ Rejected(ref)

Serves(url) == <<url.name, url.version>>

OwnFiles ==
    \A ref \in Refs : ByHTTP(ref) =>
        /\ ref.url.file.digest = ""
        /\ ref.url.file.version # 0 => Serves(ref.url.file) = Serves(ref.url)
        /\ \A other \in Refs :
              ByHTTP(other) /\ other.url.file = ref.url.file => Serves(other.url) = Serves(ref.url)

(* ChartSource reads references as the cache does. *)
LEMMA SameReading ==
    \A ref, c, before : /\ Source!Meets(ref, c) <=> Meets(ref, c)
                        /\ Source!Fresh(ref, c, before) <=> Fresh(ref, c, before)
BY DEF Source!Meets, Source!Fresh, Source!Resolved, Source!Latest, Source!Versionless,
       Source!ByHTTP, Meets, Fresh, Resolved, Latest, Versionless, ByHTTP

LEMMA LocationByHTTP ==
    ASSUME NEW ref \in Refs, ByHTTP(ref)
    PROVE  /\ Resolved(ref).name = ref.url.name /\ Resolved(ref).version = ref.url.version
           /\ Resolved(ref).digest = ""
BY DEF ByHTTP, Resolved

(* A file of the name a reference is looked for under was saved for it, or   *)
(* for a reference that brings the same.                                    *)
LEMMA NamesSuit ==
    ASSUME OwnFiles, NEW ref \in Refs, NEW c \in Charts, Named(CachePath(ref), c), ~Latest(ref)
    PROVE  Suits(ref, c)
<1>1. PICK saved \in Refs : Suits(saved, c) /\ CachePath(ref) = PulledName(saved, c)
  BY DEF Named
<1> DEFINE loc == Resolved(ref)
<1>2. c.version # 0 BY ChartsAreTyped DEF ChartType
<1>3. CASE ByHTTP(ref) /\ ByHTTP(saved)
  <2>1. ref.url.file = saved.url.file BY <1>1, <1>3 DEF CachePath, PulledName
  <2>2. ref.url.name = saved.url.name /\ ref.url.version = saved.url.version
    BY <1>3, <2>1 DEF OwnFiles, Serves
  <2> QED BY <1>1, <1>3, <2>2, LocationByHTTP DEF Suits
<1>4. CASE ByHTTP(ref) /\ ~ByHTTP(saved)
  <2>1. PICK file : file = ref.url.file OBVIOUS
  <2>2. PICK name, version, digest :
            name = c.name /\ version = c.version /\ digest = Resolved(saved).digest
    OBVIOUS
  <2>3. file = File(name, version, digest)
    BY <1>1, <1>4, <2>1, <2>2 DEF CachePath, PulledName
  <2>4. file.digest = "" BY <1>4, <2>1 DEF OwnFiles
  <2>5. file.name = name /\ file.version = version BY <2>3, <2>4 DEF File
  <2>6. ref.url.name = c.name /\ ref.url.version = c.version
    BY <1>2, <1>4, <2>1, <2>2, <2>5 DEF OwnFiles, Serves
  <2> QED BY <1>4, <2>6, LocationByHTTP DEF Suits
<1>5. CASE ~ByHTTP(ref) /\ ByHTTP(saved)
  <2>1. PICK file : file = saved.url.file OBVIOUS
  <2>2. PICK name, version, digest :
            name = loc.name /\ version = loc.version /\ digest = loc.digest
    OBVIOUS
  <2>3. file = File(name, version, digest)
    BY <1>1, <1>5, <2>1, <2>2 DEF CachePath, PulledName
  <2>4. file.digest = "" BY <1>5, <2>1 DEF OwnFiles
  <2>5. digest = "" /\ file.name = name /\ file.version = version BY <2>3, <2>4 DEF File
  <2>6. loc.digest = "" /\ loc.version # 0
    BY <1>5, <2>2, <2>5 DEF Latest, Versionless
  <2>7. saved.url.name = loc.name /\ saved.url.version = loc.version
    BY <1>5, <2>1, <2>2, <2>5, <2>6 DEF OwnFiles, Serves
  <2>8. c.name = loc.name /\ c.version = loc.version
    BY <1>1, <1>5, <2>6, <2>7, LocationByHTTP DEF Suits
  <2> QED BY <2>6, <2>8 DEF Suits
<1>6. CASE ~ByHTTP(ref) /\ ~ByHTTP(saved)
  <2>1. File(loc.name, loc.version, loc.digest) = File(c.name, c.version, Resolved(saved).digest)
    BY <1>1, <1>6 DEF CachePath, PulledName
  <2>2. loc.name = c.name /\ loc.digest = Resolved(saved).digest
        /\ (loc.digest = "" => c.version = loc.version)
    BY <2>1 DEF File
  <2> QED BY <1>1, <2>2 DEF Suits
<1> QED BY <1>3, <1>4, <1>5, <1>6

(* So was a file named after a chart's name and version alone.              *)
LEMMA VersionsSuit ==
    ASSUME OwnFiles, NEW file \in Files, NEW c \in Charts, Named(file, c),
           file.digest = "", file.version # 0
    PROVE  c.name = file.name /\ c.version = file.version
<1>1. PICK saved \in Refs : Suits(saved, c) /\ file = PulledName(saved, c) BY DEF Named
<1>2. CASE ByHTTP(saved)
  <2>1. file = saved.url.file BY <1>1, <1>2 DEF PulledName
  <2>2. saved.url.name = file.name /\ saved.url.version = file.version
    BY <1>2, <2>1 DEF OwnFiles, Serves
  <2> QED BY <1>1, <1>2, <2>2, LocationByHTTP DEF Suits
<1>3. CASE ~ByHTTP(saved)
  <2>1. file = File(c.name, c.version, Resolved(saved).digest) BY <1>1, <1>3 DEF PulledName
  <2> QED BY <2>1 DEF File
<1> QED BY <1>2, <1>3

LEMMA LoadAnswers ==
    ASSUME OneHome, DigestUsed, OwnFiles, CacheInv, NEW w \in Workers, Load(w)
    PROVE  Source!Answer(w)
<1> DEFINE c == cache[path[w]]
           ref == want[w]
           loc == Resolved(ref)
<1>1. CallInv(w) /\ TypeOK BY DEF CacheInv
<1>2. pc[w] = "load" /\ Leads(w, path[w]) /\ c # NoChart BY <1>1 DEF Load, CallInv
<1>3. path[w] \in Files /\ c \in published /\ Named(path[w], c)
  BY <1>2 DEF CacheInv, Leads
<1>4. ref # NoRef /\ ref \in Refs /\ c \in Charts
  BY <1>1, <1>2, <1>3 DEF CallInv, TypeOK
<1>5. Suits(ref, c) /\ Fresh(ref, c, since[w])
  <2>1. CASE Latest(ref)
    <3>1. /\ path[w].name = loc.name /\ path[w].digest = "" /\ path[w].version # 0
          /\ NotOlder(ref, path[w].version, since[w])
      BY <1>2, <2>1 DEF Leads, Location
    <3>2. c.name = loc.name /\ c.version = path[w].version
      BY <1>3, <1>4, <3>1, VersionsSuit
    <3>3. loc.version = 0 /\ loc.digest = "" BY <2>1 DEF Latest, Versionless
    <3> QED BY <3>1, <3>2, <3>3 DEF Suits, Fresh, NotOlder
  <2>2. CASE ~Latest(ref)
    <3>1. path[w] = CachePath(ref) BY <1>2, <2>2 DEF Leads
    <3>2. Suits(ref, c) BY <1>3, <1>4, <2>2, <3>1, NamesSuit
    <3> QED BY <2>2, <3>2 DEF Fresh
  <2> QED BY <2>1, <2>2
<1>6. c.name = loc.name /\ c.repo = loc.repo BY <1>4, <1>5 DEF Suits, OneHome
<1>7. ref.digest # "" => loc.digest = ref.digest
  BY <1>1, <1>4 DEF DigestUsed, CallInv
<1>8. Meets(ref, c) BY <1>5, <1>6, <1>7 DEF Meets, Suits
<1> HIDE DEF c, ref, loc
<1>11. /\ got' = [got EXCEPT ![w] = c] /\ want' = [want EXCEPT ![w] = NoRef]
       /\ since' = [since EXCEPT ![w] = {}] /\ published' = published
  BY DEF Load, Returns, c
<1>12. /\ Source!Meets(want[w], c) /\ Source!Fresh(want[w], c, since[w])
  BY <1>5, <1>8, SameReading, Zenon DEF ref
<1> QED BY <1>3, <1>4, <1>11, <1>12, Zenon DEF Source!Answer, Source!Over, ref

LEMMA StepOfSource ==
    ASSUME OneHome, DigestUsed, OwnFiles, CacheInv, [Next]_vars
    PROVE  [Source!Next]_<<published, want, since, got>>
<1> DEFINE Same == UNCHANGED <<published, want, since, got>>
<1>1. CASE UNCHANGED vars BY <1>1 DEF vars
<1>2. CASE Publish BY <1>2 DEF Publish, Source!Next
<1>3. ASSUME NEW w \in Workers, Step(w) PROVE Source!Next \/ Same
  <2>1. CASE Call(w)
    <3>1. want[w] = NoRef BY <2>1 DEF Call, CacheInv, CallInv
    <3>2. Source!Ask(w) BY <2>1, <3>1 DEF Call, Source!Ask
    <3> QED BY <3>2, Zenon DEF Source!Next
  <2>2. CASE PullFails(w)
    <3>1. want[w] # NoRef BY <2>2 DEF PullFails, CacheInv, CallInv
    <3>2. Source!Refuse(w)
      BY <2>2, <3>1 DEF PullFails, Returns, Source!Refuse, Source!Over
    <3> QED BY <3>2, Zenon DEF Source!Next
  <2>3. CASE Load(w)
    <3>1. Source!Answer(w) BY <2>3, LoadAnswers
    <3> QED BY <3>1, Zenon DEF Source!Next
  <2>4. CASE ~Call(w) /\ ~PullFails(w) /\ ~Load(w)
    BY <1>3, <2>4 DEF Step, StatDir, MakeDir, CallRejected, Stat, StartPull, FinishPull, Rename
  <2> QED BY <2>1, <2>2, <2>3, <2>4
<1> QED BY <1>1, <1>2, <1>3, Zenon DEF Next

(* Where names are unique, digests are used and files at plain URLs are not  *)
(* named alike, concurrent reconciles see in the shared directory nothing   *)
(* but a source that answers each by itself.                                *)
THEOREM CacheIsSource ==
    ASSUME OneHome, DigestUsed, OwnFiles
    PROVE  Spec => SourceSpec
<1>1. Init => Source!Init BY DEF Init
<1>2. CacheInv /\ [Next]_vars => [Source!Next]_<<published, want, since, got>>
  BY StepOfSource
<1> QED
  BY <1>1, <1>2, CacheInit, CacheStep, PTL
  DEF Spec, SourceSpec, Source!Spec, Source!sourceVars
=============================================================================
