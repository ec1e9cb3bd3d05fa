---------------------------- MODULE ReleaseInputs ----------------------------
(***************************************************************************)
(* What a deployment is made of: the worker of one Release reads its       *)
(* values, credentials and patches out of Secrets and ConfigMaps, one Get  *)
(* at a time, while others edit them.  It does so twice, in Observe to     *)
(* compare (isUpToDate) and in deploy to install or upgrade, after Create  *)
(* made the namespace; any error ends the reconcile, and the next begins   *)
(* from nothing.  A release found in sync is read for connection details   *)
(* in the same way.                                                        *)
(*                                                                         *)
(* The chart stays the same here and every deployment succeeds; Release    *)
(* has what happens otherwise.  An object is named with its namespace,     *)
(* which for a namespaced Release is always its own.                       *)
(*                                                                         *)
(* A spec is [scope, namespace, skipCreateNamespace, valuesFrom, values,   *)
(* set, patchesFrom, chart, pullSecret, pullNamespace, details], a source  *)
(* [secret, configMap, optional], a --set value [path, value, from], a     *)
(* connection detail [object, skip, key].                                  *)
(***************************************************************************)
EXTENDS ReleaseValues, ChartURLs

CONSTANTS Specs,
          Objects,    \* Secrets, ConfigMaps, and objects of the release
          Holds,      \* what each of them may hold under the key that is read
          Start,      \* what it holds at first
          Missing,    \* there is no such object
          NoData,     \* it has no data at all
          NoKey,      \* it has no such key
          Blank,      \* the key has an empty text
          Garbled,    \* the text cannot be parsed
          Anonymous,  \* no credentials
          None,
          MaxEdits,   \* bound: edits of objects
          MaxFaults   \* bound: errors of the API server

VARIABLES
    spec,       \* of the Release, which is not edited here
    objects,    \* what each object holds
    nsExists,   \* the namespace to deploy into exists
    pc, purpose, i,
    base,       \* the values composed so far
    creds,      \* the credentials for the chart
    patches,    \* the patches read so far
    details,    \* the connection details read so far
    deployed,   \* values and patches of the deployed revision, none or one
    published,  \* the connection secret
    sha,        \* status.patchesSha as stored: the patches it is the hash of
    seen,       \* status.patchesSha in the informer's copy of the Release
    cacheFresh, \* that copy is what is stored
    hash,       \* status.patchesSha in the worker's copy
    memFresh,   \* that copy is what is stored, but for what the worker changed
    layers,     \* observation: what base was composed of
    dirty,      \* observation: an object changed since the deployed revision began to be read
    during,     \* observation: an object changed since the current deployment began
    stored,     \* observation: the status was stored after the last deployment
    edits, faults

config == <<spec, objects, nsExists>>
read   == <<base, layers, creds, patches, details>>
copy   == <<hash, memFresh>>
result == <<deployed, sha, seen, cacheFresh, published>>
ghosts == <<dirty, during, stored>>
bounds == <<edits, faults>>
vars   == <<config, pc, purpose, i, read, copy, result, ghosts, bounds>>

Sources(s) ==
    {s.valuesFrom[n] : n \in DOMAIN s.valuesFrom}
    \cup {s.patchesFrom[n] : n \in DOMAIN s.patchesFrom}
    \cup ({s.set[n].from : n \in DOMAIN s.set} \ {None})

(* The Secret is read if both are given. *)
SourceOf(ref) == IF ref.secret # None THEN ref.secret ELSE ref.configMap

ReferredTo(s) ==
    (({SourceOf(ref) : ref \in Sources(s)} \cup {s.pullSecret}) \ {None})
    \cup {s.details[n].object : n \in DOMAIN s.details}

Source == [secret : Objects \cup {None}, configMap : Objects \cup {None}, optional : BOOLEAN]

(* A --set takes what its source holds as one scalar, whatever the text is. *)
SetsText == Scalars \cup {Missing, NoData, NoKey, Blank}

ASSUME ObjectsAssumption == DOMAIN Start = Objects /\ \A o \in Objects : Start[o] \in Holds[o]

ASSUME SpecsAssumption ==
    \A s \in Specs :
        /\ WellFormed(s.chart)
        /\ s.valuesFrom \in Seq(Source) /\ s.patchesFrom \in Seq(Source)
        /\ s.set = SubSeq(s.set, 1, Len(s.set)) /\ Len(s.set) \in Nat
        /\ \A n \in DOMAIN s.set :
               /\ s.set[n].value \in Scalars \cup {None}
               /\ s.set[n].from \in Source \cup {None}
               /\ s.set[n].from # None /\ SourceOf(s.set[n].from) # None =>
                      Holds[SourceOf(s.set[n].from)] \subseteq SetsText
-----------------------------------------------------------------------------
(* getDataValueFromSource: what is optional may be missing, an object with  *)
(* no data at all may not.                                                  *)
Text(ref) == objects[SourceOf(ref)]

Unavailable(ref) ==
    \/ SourceOf(ref) = None
    \/ Text(ref) = NoData
    \/ Text(ref) \in {Missing, NoKey} /\ ~ref.optional

getDataValueFromSource(ref) ==
    IF Text(ref) \in {Missing, NoKey} THEN Blank ELSE Text(ref)

Parseable(ref) == ~Unavailable(ref) /\ getDataValueFromSource(ref) # Garbled

Layer(ref) ==
    IF getDataValueFromSource(ref) = Blank THEN EmptyMap ELSE getDataValueFromSource(ref)

(* The value of a --set: that of its source if it has one. *)
SetValue(set) ==
    IF set.from # None THEN getDataValueFromSource(set.from)
    ELSE IF set.value = None THEN Blank
    ELSE set.value

(* Mutant: an empty value is set. *)
Settable_Blank(set, vals) ==
    /\ set.from # None => ~Unavailable(set.from)
    /\ ~ScalarAbove(vals, set.path)

Settable(set, vals) ==
    /\ set.from # None => ~Unavailable(set.from)
    /\ SetValue(set) # Blank
    /\ ~ScalarAbove(vals, set.path)

PatchesOf(ref) ==
    IF getDataValueFromSource(ref) = Blank THEN <<>> ELSE getDataValueFromSource(ref)

(* A namespaced Release may leave its namespace out, and Create then asks   *)
(* for one without a name.                                                  *)
Nameless == spec.namespace = "" /\ ~spec.skipCreateNamespace

(* What credentials are looked up for without a pull secret.  That the      *)
(* keychain has none to give, or fails, is not an error.                    *)
Lookup(chart) == normalizeRegistryURL(fullRepoURL(chart))

FromKeychain(chart) == {Lookup(chart), Anonymous}

(* An object of the release holds whether it is marked as part of it, and a *)
(* value.                                                                   *)
Undetailed(detail) ==
    LET held == objects[detail.object]
    IN  IF held \in {Missing, NoKey, Garbled} THEN TRUE ELSE ~(detail.skip \/ held.part)

WithDetail(all, detail) ==
    [k \in (DOMAIN all) \cup {detail.key} |->
        IF k = detail.key THEN objects[detail.object].value ELSE all[k]]

CredsUnresolvable ==
    IF spec.pullSecret = None THEN \E ref \in {Lookup(spec.chart)} : parseFails(ref)
    ELSE \/ spec.scope = "cluster" /\ ~spec.pullNamespace
         \/ objects[spec.pullSecret] \in {Missing, NoData, NoKey, Blank}
-----------------------------------------------------------------------------
Init ==
    /\ spec \in Specs
    /\ objects = Start
    /\ nsExists \in BOOLEAN
    /\ pc = "idle" /\ purpose = "none" /\ i = 1
    /\ base = EmptyMap /\ layers = <<>> /\ creds = None /\ patches = <<>> /\ details = EmptyMap
    /\ hash = <<>> /\ memFresh = FALSE
    /\ deployed = {} /\ sha = <<>> /\ seen = <<>> /\ cacheFresh = TRUE /\ published = EmptyMap
    /\ dirty = FALSE /\ during = FALSE /\ stored = TRUE
    /\ edits = 0 /\ faults = 0

Forget ==
    base' = EmptyMap /\ layers' = <<>> /\ creds' = None /\ patches' = <<>> /\ details' = EmptyMap

Goto(label) == pc' = label /\ i' = 1

(* The reconcile is over, in error or not, and what it read is forgotten. *)
Idle == Goto("idle") /\ purpose' = "none" /\ Forget /\ hash' = <<>> /\ memFresh' = FALSE

EditObject ==
    /\ edits < MaxEdits /\ edits' = edits + 1
    /\ \E o \in ReferredTo(spec) : \E text \in Holds[o] \ {objects[o]} :
           objects' = [objects EXCEPT ![o] = text]
    /\ dirty' = TRUE /\ during' = TRUE
    /\ UNCHANGED <<spec, nsExists, pc, purpose, i, read, copy, result, stored, faults>>

(* The API server does not answer, or the process dies. *)
Interrupted ==
    /\ pc # "idle" /\ faults < MaxFaults /\ faults' = faults + 1
    /\ Idle
    /\ UNCHANGED <<config, result, ghosts, edits>>

(* The Release is read from the informer's copy, which may lag behind. *)
Begin ==
    /\ pc = "idle"
    /\ hash' = seen /\ memFresh' = cacheFresh
    /\ IF deployed = {}
       THEN Goto("namespace") /\ purpose' = "create" /\ during' = FALSE
       ELSE Goto("values") /\ purpose' = "observe" /\ UNCHANGED during
    /\ UNCHANGED <<config, read, result, dirty, stored, bounds>>

(* That it exists already is not an error. *)
createNamespace ==
    /\ pc = "namespace" /\ ~Nameless
    /\ nsExists' = (nsExists \/ ~spec.skipCreateNamespace)
    /\ Goto("values")
    /\ UNCHANGED <<spec, objects, purpose, read, copy, result, ghosts, bounds>>

ReadValues ==
    /\ pc = "values" /\ i <= Len(spec.valuesFrom) /\ Parseable(spec.valuesFrom[i])
    /\ base' = mergeMaps(base, Layer(spec.valuesFrom[i]))
    /\ layers' = Append(layers, Layer(spec.valuesFrom[i]))
    /\ i' = i + 1
    /\ UNCHANGED <<config, pc, purpose, creds, patches, details, copy, result, ghosts, bounds>>

(* Mutant: the values of the spec do not count more than those of sources. *)
InlineValues_Below ==
    /\ pc = "values" /\ i > Len(spec.valuesFrom)
    /\ base' = mergeMaps(spec.values, base)
    /\ layers' = Append(layers, spec.values)
    /\ Goto("set")
    /\ UNCHANGED <<config, purpose, creds, patches, details, copy, result, ghosts, bounds>>

InlineValues ==
    /\ pc = "values" /\ i > Len(spec.valuesFrom)
    /\ base' = mergeMaps(base, spec.values)
    /\ layers' = Append(layers, spec.values)
    /\ Goto("set")
    /\ UNCHANGED <<config, purpose, creds, patches, details, copy, result, ghosts, bounds>>

SetOne ==
    /\ pc = "set" /\ i <= Len(spec.set) /\ Settable(spec.set[i], base)
    /\ base' = ParseInto(spec.set[i].path, SetValue(spec.set[i]), base)
    /\ layers' = Append(layers, Nested(spec.set[i].path, SetValue(spec.set[i])))
    /\ i' = i + 1
    /\ UNCHANGED <<config, pc, purpose, creds, patches, details, copy, result, ghosts, bounds>>

Composed == pc = "set" /\ i > Len(spec.set)

(* Both are compared as they read in JSON, where an integer and the same    *)
(* number with a point are one.                                             *)
SameValues == \E d \in deployed : d.values = base

(* Observe goes on to the patches only if the values are those deployed. *)
ValuesInSync ==
    /\ Composed /\ purpose = "observe" /\ SameValues
    /\ Goto("patches")
    /\ UNCHANGED <<config, purpose, read, copy, result, ghosts, bounds>>

ResolveCreds ==
    /\ Composed /\ purpose # "observe" /\ ~CredsUnresolvable
    /\ creds' \in IF spec.pullSecret # None THEN {objects[spec.pullSecret]}
                 ELSE FromKeychain(spec.chart)
    /\ Goto("patches")
    /\ UNCHANGED <<config, purpose, base, layers, patches, details, copy, result, ghosts, bounds>>

ReadPatches ==
    /\ pc = "patches" /\ i <= Len(spec.patchesFrom) /\ Parseable(spec.patchesFrom[i])
    /\ patches' = patches \o PatchesOf(spec.patchesFrom[i])
    /\ i' = i + 1
    /\ UNCHANGED <<config, pc, purpose, base, layers, creds, details, copy, result, ghosts, bounds>>

AllRead == pc = "patches" /\ i > Len(spec.patchesFrom)

hasUpdates == patches # hash

InSync ==
    /\ AllRead /\ purpose = "observe" /\ ~hasUpdates
    /\ Goto("details")
    /\ UNCHANGED <<config, purpose, read, copy, result, ghosts, bounds>>

connectionDetails ==
    /\ pc = "details" /\ i <= Len(spec.details) /\ ~Undetailed(spec.details[i])
    /\ details' = WithDetail(details, spec.details[i])
    /\ i' = i + 1
    /\ UNCHANGED <<config, pc, purpose, base, layers, creds, patches, copy, result, ghosts, bounds>>

(* Observe returns what it read, and the secret is written. *)
PublishConnection ==
    /\ pc = "details" /\ i > Len(spec.details)
    /\ published' = details
    /\ Idle
    /\ UNCHANGED <<config, deployed, sha, seen, cacheFresh, ghosts, bounds>>

(* Update calls deploy, which reads everything again. *)
StartUpdate ==
    /\ purpose = "observe"
    /\ \/ Composed /\ ~SameValues
       \/ AllRead /\ hasUpdates
    /\ Goto("values") /\ purpose' = "update" /\ Forget
    /\ during' = FALSE
    /\ UNCHANGED <<config, copy, result, dirty, stored, bounds>>

(* Mutant: no hash is recorded when a release is created. *)
Recorded_OnUpdate == IF purpose = "create" THEN hash ELSE patches

(* Mutant: the patches are read again to take their hash. *)
Recorded_ReadAgain ==
    FoldLeft(LAMBDA all, ref : IF Parseable(ref) THEN all \o PatchesOf(ref) ELSE all,
             <<>>, spec.patchesFrom)

(* The patches whose hash the status gets. *)
Recorded == patches

(* Helm is told to forget the values of the revision before.  The hash is   *)
(* only in the worker's copy yet.                                           *)
Deploy ==
    /\ AllRead /\ purpose # "observe"
    /\ nsExists
    /\ deployed' = {[values |-> base, patches |-> patches]}
    /\ hash' = Recorded
    /\ dirty' = during /\ stored' = FALSE
    /\ Goto("publish") /\ purpose' = "none" /\ Forget
    /\ UNCHANGED <<config, memFresh, sha, seen, cacheFresh, published, during, bounds>>

(* The reconcile ends with the status being stored, which is refused if the *)
(* worker began with a copy that was out of date.                           *)
PublishStatus ==
    /\ pc = "publish" /\ memFresh
    /\ sha' = hash /\ cacheFresh' = FALSE /\ stored' = TRUE
    /\ Idle
    /\ UNCHANGED <<config, deployed, seen, published, dirty, during, bounds>>

PublishConflicts ==
    /\ pc = "publish" /\ ~memFresh
    /\ Idle
    /\ UNCHANGED <<config, result, ghosts, bounds>>

(* The informer is told what was stored. *)
SyncCache ==
    /\ ~cacheFresh
    /\ seen' = sha /\ cacheFresh' = TRUE
    /\ UNCHANGED <<config, pc, purpose, i, read, copy, deployed, sha, published, ghosts, bounds>>

(* The first thing that cannot be read, parsed or made ends the reconcile. *)
Failing ==
    \/ pc = "namespace" /\ Nameless
    \/ pc = "values" /\ i <= Len(spec.valuesFrom) /\ ~Parseable(spec.valuesFrom[i])
    \/ pc = "set" /\ i <= Len(spec.set) /\ ~Settable(spec.set[i], base)
    \/ Composed /\ purpose # "observe" /\ CredsUnresolvable
    \/ pc = "patches" /\ i <= Len(spec.patchesFrom) /\ ~Parseable(spec.patchesFrom[i])
    \/ AllRead /\ purpose # "observe" /\ ~nsExists
    \/ pc = "details" /\ i <= Len(spec.details) /\ Undetailed(spec.details[i])

Fail ==
    /\ Failing /\ Idle
    /\ UNCHANGED <<config, result, ghosts, bounds>>

composeValuesFromSpec == ReadValues \/ InlineValues \/ SetOne

Worker ==
    \/ Begin \/ createNamespace \/ composeValuesFromSpec \/ ValuesInSync \/ ResolveCreds
    \/ ReadPatches \/ InSync \/ StartUpdate \/ Deploy
    \/ PublishStatus \/ PublishConflicts \/ connectionDetails \/ PublishConnection \/ Fail

Next == EditObject \/ Interrupted \/ SyncCache \/ Worker

(* The worker is run again after every reconcile, and watches deliver. *)
Spec == Init /\ [][Next]_vars /\ WF_vars(Worker) /\ WF_vars(SyncCache)
-----------------------------------------------------------------------------
(* What is right about it.                                                  *)

Layers ==
    {EmptyMap, spec.values}
    \cup {v \in UNION {Holds[SourceOf(spec.valuesFrom[n])] : n \in DOMAIN spec.valuesFrom} :
             v \notin {Missing, NoData, NoKey, Blank, Garbled}}
    \cup {Nested(spec.set[n].path, v) : n \in DOMAIN spec.set, v \in Scalars}

Purposes == {"none", "create", "observe", "update"}

(* Nothing is ever composed of an empty or an unparsed text, and nothing    *)
(* that was read outlives its reconcile.                                    *)
TypeOK ==
    /\ spec \in Specs /\ (\A o \in Objects : objects[o] \in Holds[o]) /\ nsExists \in BOOLEAN
    /\ pc \in {"idle", "namespace", "values", "set", "patches", "publish", "details"}
    /\ purpose \in Purposes
    /\ i \in Nat \ {0}
    /\ \A n \in DOMAIN layers : layers[n] \in Layers
    /\ pc \in {"idle", "publish"} => purpose = "none" /\ read = <<EmptyMap, <<>>, None, <<>>, EmptyMap>>
    /\ deployed = {} => pc # "publish" /\ sha = <<>>
    /\ \A d, e \in deployed : d = e
    /\ cacheFresh \in BOOLEAN /\ memFresh \in BOOLEAN
    /\ dirty \in BOOLEAN /\ during \in BOOLEAN /\ stored \in BOOLEAN
    /\ edits \in Nat /\ faults \in Nat

(* What is elsewhere in no layer is not in base either. *)
Paths == DOMAIN base \cup UNION {DOMAIN layers[n] : n \in DOMAIN layers}

(* The precedence users rely on: valuesFrom in order, then values, then set *)
(* in order; whatever maps are replaced by scalars and the other way round, *)
(* each path ends up with what the last of them says about it.              *)
LastLayerWins == \A path \in Paths : Kind(base, path) = LastWord(layers, path)

(* Two parsers read where a chart is.  Without a pull secret, credentials   *)
(* are looked up for the very repository that the Helm client pulls the     *)
(* chart from, with or without a port, a tag, a digest or a trailing slash; *)
(* not when both locations are given, nor when the repository already ends  *)
(* in the name, which is then not looked up behind it, nor when a URL ends  *)
(* in another name, behind which one is.                                    *)
CredentialsFit ==
    /\ pc = "patches" /\ purpose # "observe" /\ spec.pullSecret = None
    /\ location(spec.chart).oci
    /\ \/ /\ spec.chart.repo = NoLocation
          /\ spec.chart.name = "" \/ EndsIn(pulledFrom(spec.chart), spec.chart.name)
       \/ spec.chart.url = NoLocation /\ ~EndsIn(spec.chart.repo.ref, spec.chart.name)
    => creds \in {pulledFrom(spec.chart), Anonymous}

(* What is deployed is read again and compared at every poll.  As long as   *)
(* the status of the deployed revision was stored, and the Release is not   *)
(* read from before that, a Release none of whose objects changed since     *)
(* that revision began to be read is never upgraded, even if they changed   *)
(* before or were optional and missing.  (Without that status the hash is   *)
(* an older one, and it may be.)                                            *)
UpgradeHasCause == [][StartUpdate /\ stored /\ memFresh => dirty]_vars

(* The layers of the values that are wanted, with the first n of --set. *)
WantedLayers(n) ==
    [m \in DOMAIN spec.valuesFrom |-> Layer(spec.valuesFrom[m])]
    \o <<spec.values>>
    \o [m \in 1..n |-> Nested(spec.set[m].path, SetValue(spec.set[m]))]

WantedValues == Composition(WantedLayers(Len(spec.set)))

WantedPatches == FoldLeft(LAMBDA all, ref : all \o PatchesOf(ref), <<>>, spec.patchesFrom)

WantedDetails == FoldLeft(WithDetail, EmptyMap, spec.details)

Blocked ==
    \/ \E n \in DOMAIN spec.valuesFrom : ~Parseable(spec.valuesFrom[n])
    \/ \E n \in DOMAIN spec.patchesFrom : ~Parseable(spec.patchesFrom[n])
    \/ \E n \in DOMAIN spec.set :
           ~Settable(spec.set[n], Composition(WantedLayers(n - 1)))
    \/ CredsUnresolvable
    \/ deployed = {} /\ Nameless
    \/ deployed = {} /\ spec.skipCreateNamespace /\ ~nsExists

(* The status of the deployed revision was lost, and its hash is that of    *)
(* the patches that the objects hold: as if these had been edited back.     *)
EditedBack == ~stored /\ sha = WantedPatches

(* Whatever was edited while Observe or deploy read one object after the    *)
(* other, and although statuses are lost or refused, in the end the         *)
(* deployed revision has the values and the patches that the objects hold,  *)
(* and the connection secret the details, unless one of them cannot be     *)
(* read.  For the patches alone a lost status may stand in the way.         *)
Delivered ==
    /\ \E d \in deployed :
          d.values = WantedValues /\ (d.patches = WantedPatches \/ EditedBack)
    /\ \/ \E n \in DOMAIN spec.details : Undetailed(spec.details[n])
       \/ published = WantedDetails

InputsSettle == <>[](Blocked \/ Delivered)
=============================================================================
