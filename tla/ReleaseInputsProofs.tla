------------------------ MODULE ReleaseInputsProofs --------------------------
(***************************************************************************)
(* Proofs about ReleaseInputs: that the last layer of values wins, that an *)
(* upgrade has a cause, and that credentials are looked up for what the    *)
(* chart is pulled from.                                                   *)
(***************************************************************************)
EXTENDS ReleaseInputs, SequenceTheorems, WellFoundedInduction, TLAPS

(***************************************************************************)
(* Sets of numbers                                                         *)
(***************************************************************************)
LessThan == OpToRel(<, Nat)

LEMMA LeastOf ==
    ASSUME NEW S, S \subseteq Nat, S # {}
    PROVE  \E n \in S : \A m \in S : n <= m
<1>1. IsWellFoundedOn(LessThan, Nat)
  BY NatLessThanWellFounded DEF LessThan
<1>2. PICK n \in S : \A m \in S : <<m, n>> \notin LessThan
  BY <1>1, WFMin
<1>3. \A m \in S : m \in Nat /\ n \in Nat /\ ~(m < n)
  BY <1>2 DEF LessThan, OpToRel
<1> QED BY <1>3

LEMMA GreatestOf ==
    ASSUME NEW last \in Nat, NEW S, S \subseteq 1..last, S # {}
    PROVE  \E n \in S : \A m \in S : m <= n
<1> DEFINE fromEnd == {d \in Nat : last - d \in S}
<1>1. fromEnd # {} /\ fromEnd \subseteq Nat
  <2>1. PICK n \in S : n \in 1..last
    OBVIOUS
  <2>2. last - n \in Nat /\ last - (last - n) = n
    BY <2>1
  <2> QED BY <2>1, <2>2
<1>2. PICK d \in fromEnd : \A e \in fromEnd : d <= e
  BY <1>1, LeastOf
<1>3. ASSUME NEW m \in S PROVE m <= last - d
  <2>1. m \in 1..last
    OBVIOUS
  <2>2. last - m \in Nat /\ last - (last - m) = m
    BY <2>1
  <2>3. last - m \in fromEnd
    BY <2>2
  <2> QED BY <1>2, <2>1, <2>3
<1> QED BY <1>2, <1>3

(***************************************************************************)
(* Types                                                                   *)
(***************************************************************************)
TypeInv ==
    /\ TypeOK
    /\ DOMAIN objects = Objects
    /\ layers \in Seq(Layers)

(* What is merged of a source is empty, or a text that the source holds.    *)
LEMMA LayerType ==
    ASSUME TypeInv, NEW n \in 1..Len(spec.valuesFrom), Parseable(spec.valuesFrom[n])
    PROVE  Layer(spec.valuesFrom[n]) \in Layers
<1> DEFINE ref == spec.valuesFrom[n]
<1>1. ref \in Source /\ n \in DOMAIN spec.valuesFrom
  BY SpecsAssumption DEF TypeInv, TypeOK
<1>2. SourceOf(ref) \in Objects
  BY <1>1 DEF Source, SourceOf, Parseable, Unavailable
<1>3. Text(ref) \in Holds[SourceOf(ref)]
  BY <1>2 DEF Text, TypeInv, TypeOK
<1>4. CASE getDataValueFromSource(ref) = Blank
  BY <1>4 DEF Layer, Layers
<1>5. CASE getDataValueFromSource(ref) # Blank
  <2>1. Text(ref) \notin {Missing, NoData, NoKey, Blank, Garbled} /\ Layer(ref) = Text(ref)
    BY <1>5 DEF getDataValueFromSource, Parseable, Unavailable, Layer
  <2> QED BY <2>1, <1>1, <1>3 DEF Layers
<1> QED BY <1>4, <1>5

(* What --set sets is a scalar.                                             *)
LEMMA SetType ==
    ASSUME TypeInv, NEW n \in 1..Len(spec.set), Settable(spec.set[n], base)
    PROVE  Nested(spec.set[n].path, SetValue(spec.set[n])) \in Layers
<1> DEFINE set == spec.set[n]
<1>1. n \in DOMAIN spec.set /\ spec \in Specs
  BY SpecsAssumption DEF TypeInv, TypeOK
<1>2. SetValue(set) \in Scalars
  <2>1. CASE set.from = None
    BY <1>1, <2>1, SpecsAssumption DEF SetValue, Settable
  <2>2. CASE set.from # None
    <3>1. set.from \in Source /\ ~Unavailable(set.from)
      BY <1>1, <2>2, SpecsAssumption DEF Settable
    <3>2. SourceOf(set.from) # None /\ SourceOf(set.from) \in Objects
      BY <3>1 DEF Source, SourceOf, Unavailable
    <3>3. Text(set.from) \in SetsText
      BY <1>1, <2>2, <3>2, SpecsAssumption DEF Text, TypeInv, TypeOK
    <3> QED BY <3>1, <3>3, <2>2 DEF SetsText, Settable, SetValue, getDataValueFromSource, Unavailable
  <2> QED BY <2>1, <2>2
<1> QED BY <1>1, <1>2 DEF Layers

LEMMA InitTypes == Init => TypeInv
<1> SUFFICES ASSUME Init PROVE TypeInv
  OBVIOUS
<1>1. layers \in Seq(Layers) /\ \A n \in DOMAIN layers : layers[n] \in Layers
  BY DEF Init
<1>2. DOMAIN objects = Objects /\ \A o \in Objects : objects[o] \in Holds[o]
  BY ObjectsAssumption DEF Init
<1>3. read = <<EmptyMap, <<>>, None, <<>>, EmptyMap>>
  BY DEF Init, read
<1>4. /\ spec \in Specs /\ nsExists \in BOOLEAN /\ pc = "idle" /\ purpose = "none" /\ i = 1
      /\ sha = <<>> /\ edits = 0 /\ faults = 0
  BY DEF Init
<1>5. /\ deployed = {} /\ dirty = FALSE /\ during = FALSE /\ stored = TRUE
      /\ cacheFresh = TRUE /\ memFresh = FALSE
  BY Zenon DEF Init
<1>6. /\ \A d, e \in deployed : d = e
      /\ dirty \in BOOLEAN /\ during \in BOOLEAN /\ stored \in BOOLEAN
      /\ cacheFresh \in BOOLEAN /\ memFresh \in BOOLEAN
  BY <1>5
<1>7. i \in Nat \ {0} /\ edits \in Nat /\ faults \in Nat /\ purpose \in Purposes
  BY <1>4 DEF Purposes
<1>8. TypeOK
  BY <1>1, <1>2, <1>3, <1>4, <1>6, <1>7 DEF TypeOK
<1> QED BY <1>1, <1>2, <1>8 DEF TypeInv

Booleans ==
    /\ cacheFresh \in BOOLEAN /\ memFresh \in BOOLEAN
    /\ dirty \in BOOLEAN /\ during \in BOOLEAN /\ stored \in BOOLEAN

LEMMA NextBooleans == ASSUME Booleans, [Next]_vars PROVE Booleans'
<1> USE DEF Booleans, config, read, copy, result, ghosts, bounds
<1>1. CASE EditObject BY <1>1 DEF EditObject
<1>2. CASE Begin \/ StartUpdate BY <1>2 DEF Begin, StartUpdate
<1>3. CASE Deploy BY <1>3 DEF Deploy
<1>4. CASE Interrupted \/ Fail \/ PublishConflicts
  BY <1>4 DEF Interrupted, Fail, PublishConflicts, Idle
<1>5. CASE PublishConnection BY <1>5 DEF PublishConnection, Idle
<1>6. CASE PublishStatus BY <1>6 DEF PublishStatus, Idle
<1>7. CASE SyncCache BY <1>7 DEF SyncCache
<1>8. CASE UNCHANGED <<copy, ghosts, cacheFresh>> BY <1>8
<1>9. \/ EditObject \/ Begin \/ StartUpdate \/ Deploy \/ Interrupted \/ Fail \/ PublishConflicts
      \/ PublishConnection \/ PublishStatus \/ SyncCache \/ UNCHANGED <<copy, ghosts, cacheFresh>>
  BY DEF Next, Worker, composeValuesFromSpec, createNamespace, ReadValues, InlineValues, SetOne,
         ValuesInSync, ResolveCreds, ReadPatches, InSync, connectionDetails, vars
<1> QED BY <1>1, <1>2, <1>3, <1>4, <1>5, <1>6, <1>7, <1>8, <1>9

LEMMA NextTypes == TypeInv /\ [Next]_vars => TypeInv'
<1> SUFFICES ASSUME TypeInv, [Next]_vars PROVE TypeInv'
  OBVIOUS
<1> USE DEF TypeInv, TypeOK, Booleans, config, read, copy, result, ghosts, bounds
<1>b. Booleans'
  BY NextBooleans DEF Booleans
<1>0. ASSUME spec' = spec, layers' = layers PROVE Layers' = Layers
  BY <1>0 DEF Layers, SourceOf
<1>1. CASE EditObject
  <2>1. PICK o \in ReferredTo(spec) : \E text \in Holds[o] \ {objects[o]} :
            objects' = [objects EXCEPT ![o] = text]
    BY <1>1 DEF EditObject
  <2>2. PICK text \in Holds[o] : objects' = [objects EXCEPT ![o] = text]
    BY <2>1
  <2>3. \A p \in Objects : objects'[p] \in Holds[p]
    BY <2>2
  <2> QED BY <1>1, <1>b, <2>2, <2>3 DEF EditObject, Layers, SourceOf
<1>2. CASE ReadValues
  <2>1. i \in 1..Len(spec.valuesFrom) /\ spec \in Specs /\ Len(spec.valuesFrom) \in Nat
    BY <1>2, SpecsAssumption DEF ReadValues
  <2>2. Layer(spec.valuesFrom[i]) \in Layers
    BY <1>2, <2>1, LayerType DEF ReadValues
  <2>3. layers' \in Seq(Layers)
    BY <1>2, <2>2 DEF ReadValues
  <2>4. Layers' = Layers
    BY <1>2 DEF ReadValues, Layers, SourceOf
  <2> QED BY <1>2, <1>b, <2>3, <2>4 DEF ReadValues
<1>3. CASE InlineValues
  <2>1. layers' \in Seq(Layers)
    BY <1>3 DEF InlineValues, Layers
  <2>2. Layers' = Layers
    BY <1>3 DEF InlineValues, Layers, SourceOf
  <2> QED BY <1>3, <1>b, <2>1, <2>2 DEF InlineValues, Goto
<1>4. CASE SetOne
  <2>1. i \in 1..Len(spec.set) /\ spec \in Specs
    BY <1>4, SpecsAssumption DEF SetOne
  <2>2. Nested(spec.set[i].path, SetValue(spec.set[i])) \in Layers
    BY <1>4, <2>1, SetType DEF SetOne
  <2>3. layers' \in Seq(Layers)
    BY <1>4, <2>2 DEF SetOne
  <2>4. Layers' = Layers
    BY <1>4 DEF SetOne, Layers, SourceOf
  <2> QED BY <1>4, <1>b, <2>3, <2>4 DEF SetOne
<1>5. CASE Interrupted \/ Fail \/ PublishConnection \/ Deploy \/ PublishStatus \/ PublishConflicts
  <2>1. /\ Forget /\ UNCHANGED config /\ purpose' = "none" /\ i' = 1
        /\ pc' \in {"idle", "publish"}
    BY <1>5
    DEF Interrupted, Fail, PublishConnection, Deploy, PublishStatus, PublishConflicts, Idle, Goto
  <2>2. read' = <<EmptyMap, <<>>, None, <<>>, EmptyMap>> /\ layers' = <<>>
    BY <2>1 DEF Forget
  <2>3. (layers \in Seq(Layers))' /\ \A n \in DOMAIN layers' : layers'[n] \in Layers'
    BY <2>2
  <2>4. CASE Deploy
    <3> DEFINE record == [values |-> base, patches |-> patches]
    <3> HIDE DEF record
    <3>1. deployed' = {record}
      BY <2>4 DEF Deploy, record
    <3>2. edits' \in Nat /\ faults' \in Nat
      BY <2>4 DEF Deploy
    <3> QED BY <1>b, <3>1, <3>2, <2>1, <2>2, <2>3 DEF Purposes
  <2>5. CASE Interrupted \/ Fail \/ PublishConnection \/ PublishStatus \/ PublishConflicts
    <3>1. deployed' = deployed /\ pc' = "idle" /\ edits' \in Nat /\ faults' \in Nat
      BY <2>5
      DEF Interrupted, Fail, PublishConnection, PublishStatus, PublishConflicts, Idle, Goto
    <3>2. deployed = {} => sha' = sha
      BY <2>5 DEF Interrupted, Fail, PublishConnection, PublishStatus, PublishConflicts
    <3> QED BY <1>b, <3>1, <3>2, <2>1, <2>2, <2>3 DEF Purposes
  <2> QED BY <1>5, <2>4, <2>5
<1>6. CASE Begin \/ createNamespace \/ ValuesInSync \/ ResolveCreds \/ ReadPatches \/ InSync
           \/ connectionDetails \/ StartUpdate
  <2>1. /\ spec' = spec /\ objects' = objects /\ (layers' = layers \/ layers' = <<>>)
        /\ edits' \in Nat /\ faults' \in Nat
        /\ deployed' = deployed /\ sha' = sha
        /\ nsExists' \in BOOLEAN
    BY <1>6
    DEF Begin, createNamespace, ValuesInSync, ResolveCreds, ReadPatches, InSync,
        connectionDetails, StartUpdate, Forget
  <2>2. /\ pc' \in {"namespace", "values", "patches", "details"} /\ purpose' \in Purposes
        /\ i' \in Nat \ {0}
    BY <1>6
    DEF Begin, createNamespace, ValuesInSync, ResolveCreds, ReadPatches, InSync,
        connectionDetails, StartUpdate, Goto, Purposes
  <2>3. Layers' = Layers
    BY <2>1 DEF Layers, SourceOf
  <2>4. CASE layers' = layers
    BY <1>b, <2>1, <2>2, <2>3, <2>4
  <2>5. CASE layers' = <<>>
    BY <1>b, <2>1, <2>2, <2>3, <2>5
  <2> QED BY <2>1, <2>4, <2>5
<1>7. CASE SyncCache \/ UNCHANGED vars
  <2>1. UNCHANGED <<config, pc, purpose, i, read, deployed, sha, bounds>>
    BY <1>7 DEF SyncCache, vars
  <2> QED BY <1>b, <2>1 DEF Layers, SourceOf
<1> QED
  BY <1>1, <1>2, <1>3, <1>4, <1>5, <1>6, <1>7 DEF Next, Worker, composeValuesFromSpec

(* Values are composed of texts that were there, could be parsed and were   *)
(* not empty, and nothing that was read outlives its reconcile.             *)
THEOREM TypesHold == Spec => []TypeOK
<1>1. TypeInv => TypeOK
  BY DEF TypeInv
<1> QED BY InitTypes, NextTypes, <1>1, PTL DEF Spec

(***************************************************************************)
(* The last layer wins                                                     *)
(***************************************************************************)

(* What mergeMaps puts at a path: what the second map says of it, be it     *)
(* nothing below a scalar, or else what the first says.                     *)
LEMMA MergedKind ==
    ASSUME NEW a, NEW b, NEW path
    PROVE  Kind(mergeMaps(a, b), path) = IF SpeaksOf(b, path) THEN Kind(b, path) ELSE Kind(a, path)
  BY DEF Kind, mergeMaps, SpeaksOf

(* The last word after one more layer is that of the layer, if it speaks.   *)
LEMMA LastWordAppended ==
    ASSUME NEW S, NEW all \in Seq(S), NEW one \in S, NEW path
    PROVE  LastWord(Append(all, one), path) =
               IF SpeaksOf(one, path) THEN Kind(one, path) ELSE LastWord(all, path)
<1> DEFINE more  == Append(all, one)
           whoM  == Speaking(more, path)
           whoA  == Speaking(all, path)
           lastM == CHOOSE n \in whoM : \A m \in whoM : m <= n
           lastA == CHOOSE n \in whoA : \A m \in whoA : m <= n
<1>1. /\ DOMAIN all = 1..Len(all) /\ DOMAIN more = 1..(Len(all) + 1)
      /\ Len(all) \in Nat
      /\ more[Len(all) + 1] = one /\ \A n \in 1..Len(all) : more[n] = all[n]
  OBVIOUS
<1>2. whoA = {n \in 1..Len(all) : SpeaksOf(all[n], path)}
  BY <1>1 DEF Speaking
<1>3. whoM = {n \in 1..(Len(all) + 1) : SpeaksOf(more[n], path)}
  BY <1>1 DEF Speaking
<1>4. CASE SpeaksOf(one, path)
  <2>1. Len(all) + 1 \in whoM /\ \A m \in whoM : m <= Len(all) + 1
    BY <1>1, <1>3, <1>4
  <2>2. lastM \in whoM /\ \A m \in whoM : m <= lastM
    BY <2>1
  <2>3. lastM = Len(all) + 1
    BY <2>1, <2>2, <1>1, <1>3
  <2>4. LastWord(more, path) = Kind(more[lastM], path)
    BY <2>1 DEF LastWord
  <2> QED BY <1>1, <1>4, <2>3, <2>4
<1>5. CASE ~SpeaksOf(one, path)
  <2>1. whoM = whoA
    BY <1>1, <1>2, <1>3, <1>5
  <2>2. CASE whoA = {}
    BY <2>1, <2>2, <1>5 DEF LastWord
  <2>3. CASE whoA # {}
    <3>1. LastWord(more, path) = Kind(more[lastM], path) /\ LastWord(all, path) = Kind(all[lastA], path)
      BY <2>1, <2>3 DEF LastWord
    <3>2. lastM = lastA
      BY <2>1
    <3>3. lastA \in whoA
      <4>1. PICK top \in whoA : \A m \in whoA : m <= top
        BY <2>3, <1>2, <1>1, GreatestOf
      <4> QED BY <4>1
    <3> QED BY <3>1, <3>2, <3>3, <1>1, <1>2, <1>5
  <2> QED BY <2>2, <2>3
<1> QED BY <1>4, <1>5

WordInv == \A path : Kind(base, path) = LastWord(layers, path)

(* Every layer that is merged into base is put behind those before it.      *)
LEMMA MergedWord ==
    ASSUME TypeInv, WordInv, NEW one \in Layers,
           base' = mergeMaps(base, one), layers' = Append(layers, one)
    PROVE  WordInv'
<1> SUFFICES ASSUME NEW path PROVE Kind(base', path) = LastWord(layers', path)
  BY DEF WordInv
<1>1. Kind(base', path) = IF SpeaksOf(one, path) THEN Kind(one, path) ELSE Kind(base, path)
  BY MergedKind
<1>2. LastWord(layers', path) = IF SpeaksOf(one, path) THEN Kind(one, path) ELSE LastWord(layers, path)
  BY LastWordAppended DEF TypeInv
<1> QED BY <1>1, <1>2 DEF WordInv

LEMMA NothingSaid == ASSUME NEW path PROVE Kind(EmptyMap, path) = LastWord(<<>>, path)
<1>1. DOMAIN EmptyMap = {}
  BY DEF EmptyMap
<1>2. Speaking(<<>>, path) = {}
  BY DEF Speaking
<1> QED BY <1>1, <1>2 DEF Kind, LastWord

LEMMA NextWord == TypeInv /\ WordInv /\ [Next]_vars => WordInv'
<1> SUFFICES ASSUME TypeInv, WordInv, [Next]_vars PROVE WordInv'
  OBVIOUS
<1>1. CASE ReadValues
  <2>1. i \in 1..Len(spec.valuesFrom)
    BY <1>1, SpecsAssumption DEF ReadValues, TypeInv, TypeOK
  <2>2. Layer(spec.valuesFrom[i]) \in Layers
    BY <1>1, <2>1, LayerType DEF ReadValues
  <2> QED BY <1>1, <2>2, MergedWord DEF ReadValues
<1>2. CASE InlineValues
  <2>1. spec.values \in Layers
    BY DEF Layers
  <2> QED BY <1>2, <2>1, MergedWord DEF InlineValues
<1>3. CASE SetOne
  <2>1. i \in 1..Len(spec.set)
    BY <1>3, SpecsAssumption DEF SetOne, TypeInv, TypeOK
  <2>2. Nested(spec.set[i].path, SetValue(spec.set[i])) \in Layers
    BY <1>3, <2>1, SetType DEF SetOne
  <2> QED BY <1>3, <2>2, MergedWord DEF SetOne, ParseInto
<1>4. CASE base' = EmptyMap /\ layers' = <<>>
  BY <1>4, NothingSaid DEF WordInv
<1>5. CASE UNCHANGED <<base, layers>>
  BY <1>5 DEF WordInv
<1>6. ReadValues \/ InlineValues \/ SetOne \/ (base' = EmptyMap /\ layers' = <<>>) \/ UNCHANGED <<base, layers>>
  BY DEF Next, Worker, composeValuesFromSpec, EditObject, Interrupted, Begin, createNamespace,
         ValuesInSync, ResolveCreds, ReadPatches, InSync, StartUpdate, Deploy, connectionDetails,
         PublishConnection, PublishStatus, PublishConflicts, SyncCache, Fail, Idle, Forget, vars, read
<1> QED BY <1>1, <1>2, <1>3, <1>4, <1>5, <1>6

(* At each path the values have what the last of valuesFrom, values and set *)
(* that says something about it says (mergeMaps, --set), however maps and   *)
(* scalars replace one another.                                             *)
THEOREM LastWins == Spec => []LastLayerWins
<1>1. Init => WordInv
  BY NothingSaid DEF Init, WordInv
<1>2. WordInv => LastLayerWins
  BY DEF WordInv, LastLayerWins
<1> QED BY InitTypes, NextTypes, <1>1, NextWord, <1>2, PTL DEF Spec

(***************************************************************************)
(* An upgrade has a cause                                                  *)
(*                                                                         *)
(* A trace is what base, or patches, was after each of the objects that    *)
(* hold what they hold now.  While no object changes, the deployment and   *)
(* the Observe that reads the same again go along one trace, so they end   *)
(* with the same values and patches.                                       *)
(***************************************************************************)
InlineAt == Len(spec.valuesFrom) + 1

Total == InlineAt + Len(spec.set)

(* The layer that is merged as the m-th, from what the objects hold now.    *)
Wanted(m) ==
    IF m < InlineAt THEN Layer(spec.valuesFrom[m])
    ELSE IF m = InlineAt THEN spec.values
    ELSE Nested(spec.set[m - InlineAt].path, SetValue(spec.set[m - InlineAt]))

ValuesTrace(t, last) ==
    t[0] = EmptyMap /\ \A m \in 1..last : t[m] = mergeMaps(t[m - 1], Wanted(m))

PatchesTrace(u, last) ==
    u[0] = <<>> /\ \A m \in 1..last : u[m] = u[m - 1] \o PatchesOf(spec.patchesFrom[m])

(* How many layers and how many lists of patches have been read. *)
Position ==
    IF pc = "namespace" THEN 0
    ELSE IF pc = "values" THEN i - 1
    ELSE IF pc = "set" THEN InlineAt + (i - 1)
    ELSE Total

PatchPosition ==
    IF pc = "patches" THEN i - 1
    ELSE IF pc = "details" THEN Len(spec.patchesFrom)
    ELSE 0

On(t, u) == base = t[Position] /\ patches = u[PatchPosition]

PlaceInv ==
    /\ pc = "values" => i \in 1..InlineAt
    /\ pc = "set" => i \in 1..(Len(spec.set) + 1)
    /\ pc = "patches" => i \in 1..(Len(spec.patchesFrom) + 1)
    /\ pc \in {"namespace", "values", "set"} => patches = <<>>
    /\ pc = "namespace" => purpose = "create"
    /\ pc = "details" => purpose = "observe"
    /\ pc = "namespace" => base = EmptyMap
    /\ pc \in {"idle", "publish"} <=> purpose = "none"
    /\ purpose = "observe" => deployed # {}
    /\ pc = "publish" => \A d \in deployed : d.patches = hash
    /\ stored => \A d \in deployed : d.patches = sha
    /\ cacheFresh => seen = sha
    /\ purpose = "observe" /\ memFresh => hash = sha

(* A deployment has read what the objects hold, unless one changed. *)
FreshInv ==
    purpose \in {"create", "update"} /\ ~during =>
        \E t, u : ValuesTrace(t, Position) /\ PatchesTrace(u, PatchPosition) /\ On(t, u)

(* So has the deployed revision, which Observe reads again. *)
CurrentInv ==
    ~dirty /\ deployed # {} =>
        \E t, u :
            /\ ValuesTrace(t, Total) /\ PatchesTrace(u, Len(spec.patchesFrom))
            /\ \A d \in deployed : d.values = t[Total] /\ d.patches = u[Len(spec.patchesFrom)]
            /\ purpose = "observe" => On(t, u)

LEMMA Lengths ==
    ASSUME TypeInv
    PROVE  /\ Len(spec.valuesFrom) \in Nat /\ Len(spec.set) \in Nat /\ Len(spec.patchesFrom) \in Nat
           /\ InlineAt \in Nat /\ Total \in Nat /\ i \in Nat
<1>1. spec \in Specs /\ i \in Nat
  BY DEF TypeInv, TypeOK
<1>2. Len(spec.valuesFrom) \in Nat /\ Len(spec.set) \in Nat /\ Len(spec.patchesFrom) \in Nat
  BY <1>1, SpecsAssumption
<1>3. InlineAt \in Nat
  BY <1>2 DEF InlineAt
<1>4. Total \in Nat
  BY <1>2, <1>3 DEF Total
<1> QED BY <1>1, <1>2, <1>3, <1>4

LEMMA SameTraces ==
    ASSUME spec' = spec, objects' = objects
    PROVE  /\ InlineAt' = InlineAt /\ Total' = Total
           /\ \A t, last : ValuesTrace(t, last) => ValuesTrace(t, last)'
           /\ \A t, last : PatchesTrace(t, last) => PatchesTrace(t, last)'
<1>1. InlineAt' = InlineAt /\ Total' = Total
  BY DEF InlineAt, Total
<1>2. ASSUME NEW m PROVE Wanted(m)' = Wanted(m)
  BY <1>1 DEF Wanted, Layer, getDataValueFromSource, SetValue, Text, SourceOf
<1>3. ASSUME NEW ref PROVE PatchesOf(ref)' = PatchesOf(ref)
  BY DEF PatchesOf, getDataValueFromSource, Text, SourceOf
<1> QED BY <1>1, <1>2, <1>3 DEF ValuesTrace, PatchesTrace

LEMMA ValuesTraceOn ==
    ASSUME NEW t, NEW last \in Nat, ValuesTrace(t, last)
    PROVE  \E s : ValuesTrace(s, last + 1) /\ s[last + 1] = mergeMaps(t[last], Wanted(last + 1))
<1> DEFINE s == [m \in 0..(last + 1) |-> IF m <= last THEN t[m] ELSE mergeMaps(t[last], Wanted(last + 1))]
<1>1. s[0] = EmptyMap
  BY DEF ValuesTrace
<1>2. ASSUME NEW m \in 1..(last + 1) PROVE s[m] = mergeMaps(s[m - 1], Wanted(m))
  <2>1. CASE m <= last
    <3>1. m \in 1..last /\ m \in 0..(last + 1) /\ m - 1 \in 0..(last + 1) /\ m - 1 <= last
      BY <2>1
    <3> QED BY <3>1, <2>1 DEF ValuesTrace
  <2>2. CASE m = last + 1
    BY <2>2
  <2> QED BY <2>1, <2>2
<1>3. s[last + 1] = mergeMaps(t[last], Wanted(last + 1))
  OBVIOUS
<1> HIDE DEF s
<1>4. ValuesTrace(s, last + 1)
  BY <1>1, <1>2 DEF ValuesTrace
<1> QED BY <1>3, <1>4

LEMMA PatchesTraceOn ==
    ASSUME NEW u, NEW last \in Nat, PatchesTrace(u, last)
    PROVE  \E s : /\ PatchesTrace(s, last + 1)
                  /\ s[last + 1] = u[last] \o PatchesOf(spec.patchesFrom[last + 1])
<1> DEFINE new == u[last] \o PatchesOf(spec.patchesFrom[last + 1])
           s   == [m \in 0..(last + 1) |-> IF m <= last THEN u[m] ELSE new]
<1>1. s[0] = <<>>
  BY DEF PatchesTrace
<1>2. ASSUME NEW m \in 1..(last + 1) PROVE s[m] = s[m - 1] \o PatchesOf(spec.patchesFrom[m])
  <2>1. CASE m <= last
    <3>1. m \in 1..last /\ m \in 0..(last + 1) /\ m - 1 \in 0..(last + 1) /\ m - 1 <= last
      BY <2>1
    <3> QED BY <3>1, <2>1 DEF PatchesTrace
  <2>2. CASE m = last + 1
    BY <2>2
  <2> QED BY <2>1, <2>2
<1>3. s[last + 1] = new
  OBVIOUS
<1> HIDE DEF s
<1>4. PatchesTrace(s, last + 1)
  BY <1>1, <1>2 DEF PatchesTrace
<1> QED BY <1>3, <1>4

LEMMA NextPlace == TypeInv /\ PlaceInv /\ [Next]_vars => PlaceInv'
<1> SUFFICES ASSUME TypeInv, PlaceInv, [Next]_vars PROVE PlaceInv'
  OBVIOUS
<1> USE Lengths DEF PlaceInv, config, read, copy, result, ghosts, bounds
<1>1. CASE EditObject \/ UNCHANGED vars
  BY <1>1 DEF EditObject, vars, InlineAt
<1>2. CASE Interrupted \/ Fail \/ PublishConnection \/ PublishConflicts
  <2>1. /\ UNCHANGED <<deployed, sha, seen, cacheFresh, stored>>
        /\ pc' = "idle" /\ purpose' = "none"
    BY <1>2 DEF Interrupted, Fail, PublishConnection, PublishConflicts, Idle, Goto
  <2> QED BY <2>1
<1>3. CASE Deploy
  <2>1. /\ deployed' = {[values |-> base, patches |-> patches]} /\ hash' = patches
        /\ pc' = "publish" /\ purpose' = "none" /\ patches' = <<>> /\ base' = EmptyMap
        /\ stored' = FALSE /\ seen' = seen /\ sha' = sha /\ cacheFresh' = cacheFresh
    BY <1>3 DEF Deploy, Goto, Recorded, Forget
  <2> QED BY <2>1
<1>13. CASE PublishStatus
  <2>1. /\ deployed' = deployed /\ sha' = hash /\ cacheFresh' = FALSE
        /\ pc = "publish" /\ pc' = "idle" /\ purpose' = "none"
    BY <1>13 DEF PublishStatus, Idle, Goto
  <2> QED BY <2>1
<1>14. CASE SyncCache
  BY <1>14 DEF SyncCache, InlineAt
<1>4. CASE Begin
  <2>1. patches = <<>> /\ base = EmptyMap
    BY <1>4 DEF Begin, TypeInv, TypeOK
  <2> QED BY <1>4, <2>1 DEF Begin, Goto, InlineAt
<1>5. CASE createNamespace
  BY <1>5 DEF createNamespace, Goto, InlineAt
<1>6. CASE ReadValues
  BY <1>6 DEF ReadValues, InlineAt
<1>7. CASE InlineValues
  BY <1>7 DEF InlineValues, Goto
<1>8. CASE SetOne
  BY <1>8 DEF SetOne
<1>9. CASE ValuesInSync \/ ResolveCreds
  BY <1>9 DEF ValuesInSync, ResolveCreds, Goto, Composed
<1>10. CASE ReadPatches
  BY <1>10 DEF ReadPatches
<1>11. CASE InSync \/ connectionDetails
  BY <1>11 DEF InSync, connectionDetails, Goto, AllRead
<1>12. CASE StartUpdate
  BY <1>12 DEF StartUpdate, Goto, Forget, InlineAt
<1> QED
  BY <1>1, <1>2, <1>3, <1>4, <1>5, <1>6, <1>7, <1>8, <1>9, <1>10, <1>11, <1>12, <1>13, <1>14
  DEF Next, Worker, composeValuesFromSpec

(* The next layer and the next patches are those wanted. *)
LEMMA Merging ==
    ASSUME TypeInv, PlaceInv, ReadValues \/ InlineValues \/ SetOne
    PROVE  /\ Position \in Nat /\ Position + 1 <= Total /\ Position' = Position + 1
           /\ PatchPosition = 0 /\ PatchPosition' = 0
           /\ base' = mergeMaps(base, Wanted(Position + 1))
<1> USE Lengths DEF config
<1>1. CASE ReadValues
  <2>1. /\ pc = "values" /\ pc' = "values" /\ i \in 1..Len(spec.valuesFrom) /\ i' = i + 1
        /\ base' = mergeMaps(base, Layer(spec.valuesFrom[i]))
    BY <1>1 DEF ReadValues, TypeInv, TypeOK
  <2>2. Position = i - 1 /\ Position' = i /\ PatchPosition = 0 /\ PatchPosition' = 0
    BY <2>1 DEF Position, PatchPosition
  <2>3. InlineAt <= Total
    BY DEF Total
  <2>4. i < InlineAt
    BY <2>1 DEF InlineAt
  <2>5. Wanted(i) = Layer(spec.valuesFrom[i])
    BY <2>4 DEF Wanted
  <2> QED BY <2>1, <2>2, <2>3, <2>4, <2>5
<1>2. CASE InlineValues
  <2>1. /\ pc = "values" /\ pc' = "set" /\ i = InlineAt /\ i' = 1 /\ spec' = spec
        /\ base' = mergeMaps(base, spec.values)
    BY <1>2 DEF InlineValues, Goto, PlaceInv, InlineAt
  <2>2. Position = i - 1 /\ Position' = i /\ PatchPosition = 0 /\ PatchPosition' = 0
    BY <2>1 DEF Position, PatchPosition, InlineAt
  <2>3. ~(InlineAt < InlineAt) /\ InlineAt <= Total
    BY DEF Total
  <2>4. Wanted(i) = spec.values
    BY <2>1, <2>3 DEF Wanted
  <2>5. i \in Nat \ {0} /\ (i - 1) + 1 = i
    BY DEF TypeInv, TypeOK
  <2>6. Position \in Nat /\ Position + 1 = i
    BY <2>2, <2>5
  <2> QED BY <2>1, <2>2, <2>3, <2>4, <2>6
<1>3. CASE SetOne
  <2>1. /\ pc = "set" /\ pc' = "set" /\ i \in 1..Len(spec.set) /\ i' = i + 1 /\ spec' = spec
        /\ base' = mergeMaps(base, Nested(spec.set[i].path, SetValue(spec.set[i])))
    BY <1>3 DEF SetOne, ParseInto, TypeInv, TypeOK
  <2>2. Position = InlineAt + (i - 1) /\ Position' = InlineAt + i /\ PatchPosition = 0 /\ PatchPosition' = 0
    BY <2>1 DEF Position, PatchPosition, InlineAt
  <2>3. /\ Wanted(InlineAt + i) = Nested(spec.set[i].path, SetValue(spec.set[i]))
        /\ InlineAt + i <= Total
    <3>1. (InlineAt + i) - InlineAt = i /\ ~(InlineAt + i < InlineAt) /\ InlineAt + i # InlineAt
      BY <2>1
    <3> QED BY <2>1, <3>1 DEF Wanted, Total
  <2> QED BY <2>1, <2>2, <2>3
<1> QED BY <1>1, <1>2, <1>3

LEMMA PatchReading ==
    ASSUME TypeInv, PlaceInv, ReadPatches
    PROVE  /\ Position' = Position /\ PatchPosition \in Nat /\ PatchPosition' = PatchPosition + 1
           /\ PatchPosition + 1 <= Len(spec.patchesFrom)
           /\ patches' = patches \o PatchesOf(spec.patchesFrom[PatchPosition + 1])
<1>1. /\ pc = "patches" /\ pc' = "patches" /\ i \in 1..Len(spec.patchesFrom) /\ i' = i + 1 /\ spec' = spec
      /\ patches' = patches \o PatchesOf(spec.patchesFrom[i])
  BY Lengths DEF ReadPatches, TypeInv, TypeOK, config
<1>2. Position' = Position
  BY <1>1 DEF Position, Total, InlineAt
<1>3. PatchPosition = i - 1 /\ PatchPosition' = i
  BY <1>1, Lengths DEF PatchPosition
<1> QED BY <1>1, <1>2, <1>3, Lengths

(* A deployment goes on along a trace. *)
LEMMA NextFresh == TypeInv /\ PlaceInv /\ FreshInv /\ [Next]_vars => FreshInv'
<1> SUFFICES ASSUME TypeInv, PlaceInv, FreshInv, [Next]_vars,
                    purpose' \in {"create", "update"}, ~during'
             PROVE  \E t, u : ValuesTrace(t, Position)' /\ PatchesTrace(u, PatchPosition)' /\ On(t, u)'
  BY DEF FreshInv
<1> USE DEF config, read, copy, result, ghosts, bounds
<1>1. CASE EditObject
  BY <1>1 DEF EditObject
<1>2. CASE Idle \/ Deploy
  BY <1>2 DEF Idle, Deploy
<1>3. CASE Begin \/ StartUpdate
  <2>1. /\ base' = EmptyMap /\ patches' = <<>> /\ i' = 1 /\ pc' \in {"namespace", "values"}
        /\ spec' = spec /\ objects' = objects
    BY <1>3 DEF Begin, StartUpdate, Goto, Forget, TypeInv, TypeOK
  <2>2. Position' = 0 /\ PatchPosition' = 0
    BY <2>1 DEF Position, PatchPosition
  <2> DEFINE t == [m \in {0} |-> EmptyMap]
             u == [m \in {0} |-> <<>>]
  <2>3. ValuesTrace(t, Position)' /\ PatchesTrace(u, PatchPosition)' /\ On(t, u)'
    BY <2>1, <2>2 DEF ValuesTrace, PatchesTrace, On
  <2> QED BY <2>3
<1>4. CASE ReadValues \/ InlineValues \/ SetOne
  <2>1. /\ purpose \in {"create", "update"} /\ ~during /\ spec' = spec /\ objects' = objects
        /\ patches' = patches
    BY <1>4 DEF ReadValues, InlineValues, SetOne
  <2>2. PICK t, u : ValuesTrace(t, Position) /\ PatchesTrace(u, PatchPosition) /\ On(t, u)
    BY <2>1 DEF FreshInv
  <2>3. /\ Position \in Nat /\ Position' = Position + 1 /\ PatchPosition = 0 /\ PatchPosition' = 0
        /\ base' = mergeMaps(base, Wanted(Position + 1))
    BY <1>4, Merging
  <2>4. PICK n \in Nat : n = Position
    BY <2>3
  <2>5. PICK s : ValuesTrace(s, n + 1) /\ s[n + 1] = mergeMaps(t[n], Wanted(n + 1))
    BY <2>2, <2>4, ValuesTraceOn
  <2>6. ValuesTrace(s, n + 1)' /\ PatchesTrace(u, 0)'
    BY <2>1, <2>2, <2>3, <2>5, SameTraces
  <2>7. Position' = n + 1 /\ PatchPosition' = 0
    BY <2>3, <2>4
  <2>8. On(s, u)'
    BY <2>1, <2>2, <2>3, <2>4, <2>5, <2>7 DEF On
  <2>9. ValuesTrace(s, Position)' /\ PatchesTrace(u, PatchPosition)'
    BY <2>6, <2>7 DEF ValuesTrace, PatchesTrace
  <2> QED BY <2>8, <2>9
<1>5. CASE createNamespace \/ ResolveCreds
  <2>1. /\ purpose \in {"create", "update"} /\ ~during /\ spec' = spec /\ objects' = objects
        /\ patches' = patches /\ base' = base
    BY <1>5 DEF createNamespace, ResolveCreds
  <2>2. PICK t, u : ValuesTrace(t, Position) /\ PatchesTrace(u, PatchPosition) /\ On(t, u)
    BY <2>1 DEF FreshInv
  <2>3. Position' = Position /\ PatchPosition' = PatchPosition
    BY <1>5, Lengths, SameTraces DEF createNamespace, ResolveCreds, Composed, PlaceInv, Goto, Position, PatchPosition, Total
  <2> QED BY <2>1, <2>2, <2>3, SameTraces DEF On
<1>6. CASE ReadPatches
  <2>1. /\ purpose \in {"create", "update"} /\ ~during /\ spec' = spec /\ objects' = objects
        /\ base' = base
    BY <1>6 DEF ReadPatches
  <2>2. PICK t, u : ValuesTrace(t, Position) /\ PatchesTrace(u, PatchPosition) /\ On(t, u)
    BY <2>1 DEF FreshInv
  <2>3. /\ Position' = Position /\ PatchPosition \in Nat /\ PatchPosition' = PatchPosition + 1
        /\ patches' = patches \o PatchesOf(spec.patchesFrom[PatchPosition + 1])
    BY <1>6, PatchReading
  <2>4. PICK n \in Nat : n = PatchPosition
    BY <2>3
  <2>5. PICK m : m = Position
    OBVIOUS
  <2>6. PICK s : PatchesTrace(s, n + 1) /\ s[n + 1] = u[n] \o PatchesOf(spec.patchesFrom[n + 1])
    BY <2>2, <2>4, PatchesTraceOn
  <2>7. ValuesTrace(t, m)' /\ PatchesTrace(s, n + 1)'
    BY <2>1, <2>2, <2>5, <2>6, SameTraces
  <2>8. Position' = m /\ PatchPosition' = n + 1
    BY <2>3, <2>4, <2>5
  <2>9. On(t, s)'
    BY <2>1, <2>2, <2>3, <2>4, <2>5, <2>6, <2>8 DEF On
  <2>10. ValuesTrace(t, Position)' /\ PatchesTrace(s, PatchPosition)'
    BY <2>7, <2>8 DEF ValuesTrace, PatchesTrace
  <2> QED BY <2>9, <2>10
<1>7. CASE ValuesInSync \/ InSync \/ connectionDetails
  <2>1. purpose' = "observe"
    BY <1>7 DEF ValuesInSync, InSync, connectionDetails, PlaceInv
  <2> QED BY <2>1
<1>8. CASE SyncCache \/ UNCHANGED vars
  <2>1. /\ purpose \in {"create", "update"} /\ ~during /\ spec' = spec /\ objects' = objects
        /\ base' = base /\ patches' = patches
    BY <1>8 DEF SyncCache, vars
  <2>2. PICK t, u : ValuesTrace(t, Position) /\ PatchesTrace(u, PatchPosition) /\ On(t, u)
    BY <2>1 DEF FreshInv
  <2>3. Position' = Position /\ PatchPosition' = PatchPosition
    BY <1>8, SameTraces DEF SyncCache, vars, Position, PatchPosition
  <2> QED BY <2>1, <2>2, <2>3, SameTraces DEF On
<1> QED
  BY <1>1, <1>2, <1>3, <1>4, <1>5, <1>6, <1>7, <1>8
  DEF Next, Worker, composeValuesFromSpec, Interrupted, Fail, PublishConnection, PublishStatus,
      PublishConflicts

(* While nothing changes, what is deployed is the end of the trace that     *)
(* Observe goes along.                                                      *)
LEMMA NextCurrent == TypeInv /\ PlaceInv /\ FreshInv /\ CurrentInv /\ [Next]_vars => CurrentInv'
<1> DEFINE Deployed(t, u) == \A d \in deployed : d.values = t[Total] /\ d.patches = u[Len(spec.patchesFrom)]
<1> SUFFICES ASSUME TypeInv, PlaceInv, FreshInv, CurrentInv, [Next]_vars, ~dirty', deployed' # {}
             PROVE  \E t, u :
                        /\ ValuesTrace(t, Total)' /\ PatchesTrace(u, Len(spec.patchesFrom))'
                        /\ Deployed(t, u)'
                        /\ (purpose = "observe" => On(t, u))'
  BY DEF CurrentInv
<1> USE DEF config, read, copy, result, ghosts, bounds
<1>1. CASE EditObject
  BY <1>1 DEF EditObject
<1>2. CASE Deploy
  <2>1. /\ purpose \in {"create", "update"} /\ ~during /\ spec' = spec /\ objects' = objects
        /\ purpose' = "none" /\ deployed' = {[values |-> base, patches |-> patches]}
        /\ pc = "patches" /\ i = Len(spec.patchesFrom) + 1
    <3>1. purpose # "none" /\ pc = "patches" /\ i > Len(spec.patchesFrom)
      BY <1>2 DEF Deploy, AllRead, PlaceInv
    <3>2. i = Len(spec.patchesFrom) + 1
      BY <3>1, Lengths DEF PlaceInv
    <3> QED BY <1>2, <3>1, <3>2 DEF Deploy, TypeInv, TypeOK, Purposes
  <2>2. PICK t, u : ValuesTrace(t, Position) /\ PatchesTrace(u, PatchPosition) /\ On(t, u)
    BY <2>1 DEF FreshInv
  <2>3. PICK n : n = Total
    OBVIOUS
  <2>4. PICK m : m = Len(spec.patchesFrom)
    OBVIOUS
  <2>5. Position = n /\ PatchPosition = m
    BY <2>1, <2>3, <2>4, Lengths DEF Position, PatchPosition
  <2>6. ValuesTrace(t, n)' /\ PatchesTrace(u, m)'
    BY <2>1, <2>2, <2>5, SameTraces
  <2>7. Total' = n /\ Len(spec.patchesFrom)' = m
    BY <2>1, <2>3, <2>4, SameTraces
  <2>8. Deployed(t, u)'
    BY <2>1, <2>2, <2>5, <2>7 DEF On
  <2>9. ValuesTrace(t, Total)' /\ PatchesTrace(u, Len(spec.patchesFrom))'
    BY <2>6, <2>7 DEF ValuesTrace, PatchesTrace
  <2> QED BY <2>1, <2>8, <2>9
<1>3. CASE ~EditObject /\ ~Deploy
  <2>1. spec' = spec /\ objects' = objects /\ dirty' = dirty /\ deployed' = deployed
    BY <1>3
    DEF Next, Worker, composeValuesFromSpec, Interrupted, Begin, createNamespace, ReadValues,
        InlineValues, SetOne, ValuesInSync, ResolveCreds, ReadPatches, InSync, StartUpdate,
        connectionDetails, PublishConnection, PublishStatus, PublishConflicts, SyncCache, Fail, vars
  <2>2. PICK t, u :
            /\ ValuesTrace(t, Total) /\ PatchesTrace(u, Len(spec.patchesFrom))
            /\ Deployed(t, u)
            /\ purpose = "observe" => On(t, u)
    BY <2>1 DEF CurrentInv
  <2>3. ValuesTrace(t, Total)' /\ PatchesTrace(u, Len(spec.patchesFrom))' /\ Deployed(t, u)'
    <3>1. PICK n : n = Total
      OBVIOUS
    <3>2. PICK m : m = Len(spec.patchesFrom)
      OBVIOUS
    <3>3. ValuesTrace(t, n)' /\ PatchesTrace(u, m)' /\ Total' = n /\ Len(spec.patchesFrom)' = m
      BY <2>1, <2>2, <3>1, <3>2, SameTraces
    <3> QED BY <2>1, <2>2, <3>1, <3>2, <3>3 DEF ValuesTrace, PatchesTrace
  <2>4. ASSUME purpose' = "observe" PROVE On(t, u)'
    <3>1. CASE Begin
      <4>1. base' = EmptyMap /\ patches' = <<>> /\ pc' = "values" /\ i' = 1
        BY <2>4, <3>1 DEF Begin, Goto, TypeInv, TypeOK
      <4>2. Position' = 0 /\ PatchPosition' = 0
        BY <4>1 DEF Position, PatchPosition
      <4> QED BY <2>2, <4>1, <4>2 DEF On, ValuesTrace, PatchesTrace
    <3>2. CASE ReadValues \/ InlineValues \/ SetOne
      <4>1. On(t, u) /\ patches' = patches
        BY <2>2, <2>4, <3>2 DEF ReadValues, InlineValues, SetOne
      <4>2. /\ Position \in Nat /\ Position + 1 <= Total /\ Position' = Position + 1
            /\ PatchPosition = 0 /\ PatchPosition' = 0
            /\ base' = mergeMaps(base, Wanted(Position + 1))
        BY <3>2, Merging
      <4>3. /\ Position + 1 \in 1..Total /\ (Position + 1) - 1 = Position
        BY <4>2, Lengths
      <4>4. t[Position + 1] = mergeMaps(t[Position], Wanted(Position + 1))
        BY <2>2, <4>3 DEF ValuesTrace
      <4> QED BY <4>1, <4>2, <4>4 DEF On
    <3>3. CASE ReadPatches
      <4>1. On(t, u) /\ base' = base
        BY <2>2, <2>4, <3>3 DEF ReadPatches
      <4>2. /\ Position' = Position /\ PatchPosition \in Nat /\ PatchPosition' = PatchPosition + 1
            /\ PatchPosition + 1 <= Len(spec.patchesFrom)
            /\ patches' = patches \o PatchesOf(spec.patchesFrom[PatchPosition + 1])
        BY <3>3, PatchReading
      <4>3. PatchPosition + 1 \in 1..Len(spec.patchesFrom) /\ (PatchPosition + 1) - 1 = PatchPosition
        BY <4>2, Lengths
      <4>4. u[PatchPosition + 1] = u[PatchPosition] \o PatchesOf(spec.patchesFrom[PatchPosition + 1])
        BY <2>2, <4>3 DEF PatchesTrace
      <4> QED BY <4>1, <4>2, <4>4 DEF On
    <3>4. CASE ValuesInSync \/ InSync \/ connectionDetails \/ SyncCache \/ UNCHANGED vars
      <4>1. On(t, u) /\ base' = base /\ patches' = patches
        BY <2>2, <2>4, <3>4 DEF ValuesInSync, InSync, connectionDetails, SyncCache, vars
      <4>2. Position' = Position /\ PatchPosition' = PatchPosition
        <5>1. CASE ValuesInSync
          <6>1. /\ pc = "set" /\ i = Len(spec.set) + 1 /\ pc' = "patches" /\ i' = 1
            BY <5>1, Lengths DEF ValuesInSync, Composed, PlaceInv, Goto
          <6>2. Position = Total
            BY <6>1, Lengths DEF Position, Total
          <6> QED BY <2>1, <6>1, <6>2, SameTraces DEF Position, PatchPosition
        <5>2. CASE InSync
          <6>1. /\ pc = "patches" /\ i = Len(spec.patchesFrom) + 1 /\ pc' = "details" /\ spec' = spec
            BY <5>2, Lengths DEF InSync, AllRead, PlaceInv, Goto
          <6> QED BY <2>1, <6>1, SameTraces, Lengths DEF Position, PatchPosition
        <5>3. CASE connectionDetails
          BY <2>1, <5>3, SameTraces DEF connectionDetails, Position, PatchPosition
        <5>4. CASE SyncCache \/ UNCHANGED vars
          BY <2>1, <5>4, SameTraces DEF SyncCache, vars, Position, PatchPosition
        <5> QED BY <3>4, <5>1, <5>2, <5>3, <5>4
      <4> QED BY <4>1, <4>2 DEF On
    <3>5. ~(createNamespace \/ ResolveCreds \/ StartUpdate \/ Interrupted \/ Fail \/ PublishConnection
             \/ PublishStatus \/ PublishConflicts)
      BY <2>4
      DEF createNamespace, PlaceInv, ResolveCreds, StartUpdate, Interrupted, Fail, PublishConnection,
          PublishStatus, PublishConflicts, Idle
    <3> QED
      BY <1>3, <3>1, <3>2, <3>3, <3>4, <3>5 DEF Next, Worker, composeValuesFromSpec
  <2> QED BY <2>3, <2>4
<1> QED BY <1>2, <1>1, <1>3

CauseInv == TypeInv /\ PlaceInv /\ FreshInv /\ CurrentInv

LEMMA CauseOfUpgrade == CauseInv /\ StartUpdate /\ stored /\ memFresh => dirty
<1> SUFFICES ASSUME CauseInv, StartUpdate, stored, memFresh, ~dirty PROVE FALSE
  OBVIOUS
<1> USE DEF CauseInv
<1>1. purpose = "observe" /\ deployed # {} /\ \A d \in deployed : d.patches = hash
  BY DEF StartUpdate, PlaceInv
<1>2. PICK t, u :
          /\ \A d \in deployed : d.values = t[Total] /\ d.patches = u[Len(spec.patchesFrom)]
          /\ On(t, u)
  BY <1>1 DEF CurrentInv
<1>3. CASE Composed /\ ~SameValues
  <2>1. pc = "set" /\ i = Len(spec.set) + 1
    BY <1>3, Lengths DEF Composed, PlaceInv
  <2>2. Position = Total
    BY <2>1, Lengths DEF Position, Total
  <2> QED BY <1>1, <1>2, <1>3, <2>2 DEF On, SameValues
<1>4. CASE AllRead /\ hasUpdates
  <2>1. pc = "patches" /\ i = Len(spec.patchesFrom) + 1
    BY <1>4, Lengths DEF AllRead, PlaceInv
  <2>2. PatchPosition = Len(spec.patchesFrom)
    BY <2>1, Lengths DEF PatchPosition
  <2> QED BY <1>1, <1>2, <1>4, <2>2 DEF On, hasUpdates
<1> QED BY <1>3, <1>4 DEF StartUpdate

LEMMA InitCause == Init => CauseInv
<1> SUFFICES ASSUME Init PROVE PlaceInv /\ FreshInv /\ CurrentInv
  BY InitTypes DEF CauseInv
<1>1. pc = "idle" /\ purpose = "none" /\ deployed = {} /\ seen = <<>> /\ sha = <<>>
  BY DEF Init
<1> QED BY <1>1 DEF PlaceInv, FreshInv, CurrentInv

LEMMA NextCause == CauseInv /\ [Next]_vars => CauseInv'
  BY NextTypes, NextPlace, NextFresh, NextCurrent DEF CauseInv

(* Once the status of a deployed revision is stored, and Observe reads it,   *)
(* the release is sent to Update only if an object that it is made of        *)
(* changed since that revision began to be read: deploy and Observe read the *)
(* same objects in the same way (composeValuesFromSpec, patchGet), and the   *)
(* hash stored is that of the patches deployed.                             *)
THEOREM UpgradesHaveCause == Spec => UpgradeHasCause
<1>1. CauseInv /\ [Next]_vars => [StartUpdate /\ stored /\ memFresh => dirty]_vars
  BY CauseOfUpgrade
<1> QED BY InitCause, NextCause, <1>1, PTL DEF Spec, UpgradeHasCause

(***************************************************************************)
(* Credentials fit                                                         *)
(*                                                                         *)
(* Both readers of an OCI URL drop the digest and then the tag; they only  *)
(* look for the colon of the tag in different places.                      *)
(***************************************************************************)
WithoutDigest(s) == IF IndexOf("@", s) = 0 THEN s ELSE Before(s, IndexOf("@", s))

(* registryauth: a colon behind the last slash. *)
WithoutTag(s) ==
    IF LastIndexOf("/", s) > 1 /\ LastIndexOf(":", s) > LastIndexOf("/", s)
    THEN Before(s, LastIndexOf(":", s)) ELSE s

(* The Helm client: the last colon behind the first slash. *)
WithoutVersion(s) ==
    IF LastIndexOf(":", s) > IndexOf("/", s) THEN Before(s, LastIndexOf(":", s)) ELSE s

(* A registry and a repository, perhaps with a tag. *)
Named(s) ==
    /\ s \in Seq(Tokens)
    /\ \E n \in 1..Len(s) : s[n] = "/"
    /\ s[1] # "/"
    /\ \A n \in 1..Len(s) : s[n] = "/" => n < Len(s) /\ s[n + 1] # "/" /\ s[n + 1] # ":"

LEMMA FirstOf ==
    ASSUME NEW s \in Seq(Tokens), NEW token
    PROVE  \/ IndexOf(token, s) = 0 /\ \A n \in 1..Len(s) : s[n] # token
           \/ /\ IndexOf(token, s) \in 1..Len(s) /\ s[IndexOf(token, s)] = token
              /\ \A n \in 1..Len(s) : n < IndexOf(token, s) => s[n] # token
<1> DEFINE there == {n \in 1..Len(s) : s[n] = token}
<1>1. IndexOf(token, s) = IF there # {} THEN Min(there) ELSE 0
  BY DEF IndexOf, SelectInSeq
<1>2. CASE there = {}
  BY <1>1, <1>2
<1>3. CASE there # {}
  <2>1. there \subseteq Nat
    OBVIOUS
  <2>2. PICK n \in there : \A m \in there : n <= m
    BY <1>3, <2>1, LeastOf
  <2>3. Min(there) \in there /\ \A m \in there : Min(there) <= m
    BY <2>2 DEF Min
  <2>4. ASSUME NEW m \in 1..Len(s), m < Min(there) PROVE s[m] # token
    BY <2>3, <2>4
  <2> QED BY <1>1, <1>3, <2>3, <2>4
<1> QED BY <1>2, <1>3

LEMMA LastOf ==
    ASSUME NEW s \in Seq(Tokens), NEW token
    PROVE  \/ LastIndexOf(token, s) = 0 /\ \A n \in 1..Len(s) : s[n] # token
           \/ /\ LastIndexOf(token, s) \in 1..Len(s) /\ s[LastIndexOf(token, s)] = token
              /\ \A n \in 1..Len(s) : n > LastIndexOf(token, s) => s[n] # token
<1> DEFINE there == {n \in 1..Len(s) : s[n] = token}
<1>1. LastIndexOf(token, s) = IF there # {} THEN Max(there) ELSE 0
  BY DEF LastIndexOf, SelectLastInSeq
<1>2. CASE there = {}
  BY <1>1, <1>2
<1>3. CASE there # {}
  <2>1. there \subseteq 1..Len(s) /\ Len(s) \in Nat
    OBVIOUS
  <2>2. PICK n \in there : \A m \in there : m <= n
    BY <1>3, <2>1, GreatestOf
  <2>3. Max(there) \in there /\ \A m \in there : Max(there) >= m
    BY <2>2 DEF Max
  <2>4. ASSUME NEW m \in 1..Len(s), m > Max(there) PROVE s[m] # token
    BY <2>3, <2>4
  <2> QED BY <1>1, <1>3, <2>3, <2>4
<1> QED BY <1>2, <1>3

LEMMA BeforeOf ==
    ASSUME NEW s \in Seq(Tokens), NEW n \in 1..Len(s)
    PROVE  /\ Before(s, n) \in Seq(Tokens) /\ Len(Before(s, n)) = n - 1
           /\ \A m \in 1..(n - 1) : Before(s, n)[m] = s[m]
  BY SubSeqProperties DEF Before

LEMMA NotTrimmed ==
    ASSUME NEW s \in Seq(Tokens), Len(s) > 0, s[Len(s)] # "/"
    PROVE  TrimSlash(s) = s
  BY DEF TrimSlash, Last

LEMMA DigestDropped ==
    ASSUME NEW s \in Seq(Tokens), WellFormedURL(s)
    PROVE  Named(WithoutDigest(s)) /\ IndexOf("/", WithoutDigest(s)) = IndexOf("/", s)
<1> DEFINE r == WithoutDigest(s)
           a == IndexOf("@", s)
<1>1. /\ \E n \in 1..Len(s) : s[n] = "/"
      /\ s[1] # "/"
      /\ \A n \in 1..Len(s) : s[n] = "/" => n < Len(s) /\ s[n + 1] \notin Separators
      /\ \A n \in 1..Len(s) : s[n] = "@" => \E m \in 1..(n - 1) : s[m] = "/"
      /\ \A n \in 1..Len(s) : s[n] = "@" => \A m \in (n + 1)..Len(s) : s[m] # "/"
  <2>1. DOMAIN s = 1..Len(s)
    OBVIOUS
  <2>2. ASSUME NEW n \in 1..Len(s), s[n] = "@"
        PROVE  /\ \E m \in 1..(n - 1) : s[m] = "/"
               /\ \A m \in (n + 1)..Len(s) : s[m] # "/"
    BY <2>1, <2>2 DEF WellFormedURL
  <2>3. /\ \E n \in 1..Len(s) : s[n] = "/"
        /\ s[1] # "/"
        /\ \A n \in 1..Len(s) : s[n] = "/" => n < Len(s) /\ s[n + 1] \notin Separators
    BY <2>1 DEF WellFormedURL
  <2> QED BY <2>2, <2>3
<1>2. CASE a = 0
  BY <1>1, <1>2 DEF WithoutDigest, Named, Separators
<1>3. CASE a # 0
  <2>1. a \in 1..Len(s) /\ s[a] = "@"
    BY <1>3, FirstOf
  <2>2. r \in Seq(Tokens) /\ Len(r) = a - 1 /\ \A m \in 1..(a - 1) : r[m] = s[m]
    BY <1>3, <2>1, BeforeOf DEF WithoutDigest
  <2>3. \E m \in 1..(a - 1) : s[m] = "/"
    BY <1>1, <2>1
  <2>4. \E n \in 1..Len(r) : r[n] = "/"
    BY <2>2, <2>3
  <2>5. r[1] # "/"
    BY <1>1, <2>1, <2>2, <2>3
  <2>6. ASSUME NEW n \in 1..Len(r), r[n] = "/"
        PROVE  n < Len(r) /\ r[n + 1] # "/" /\ r[n + 1] # ":"
    <3>1. n \in 1..Len(s) /\ s[n] = "/" /\ n <= a - 1
      BY <2>1, <2>2, <2>6
    <3>2. n < Len(s) /\ s[n + 1] # "/" /\ s[n + 1] # ":" /\ s[n + 1] # "@"
      BY <1>1, <3>1 DEF Separators
    <3>3. n + 1 # a
      BY <2>1, <3>2
    <3>4. n + 1 \in 1..(a - 1)
      BY <3>1, <3>3, <2>1
    <3> QED BY <3>2, <3>4, <2>2
  <2>7. Named(r)
    BY <2>2, <2>4, <2>5, <2>6 DEF Named
  <2>8. IndexOf("/", r) = IndexOf("/", s)
    <3> DEFINE k == IndexOf("/", s)
               j == IndexOf("/", r)
    <3> HIDE DEF r, k, j
    <3>1. k \in 1..Len(s) /\ s[k] = "/" /\ \A n \in 1..Len(s) : n < k => s[n] # "/"
      BY <1>1, FirstOf DEF k
    <3>2. j \in 1..Len(r) /\ r[j] = "/" /\ \A n \in 1..Len(r) : n < j => r[n] # "/"
      BY <2>2, <2>4, FirstOf DEF j
    <3>3. j \in 1..Len(s) /\ s[j] = "/" /\ j <= a - 1
      BY <2>1, <2>2, <3>2
    <3>4. k <= j
      BY <3>1, <3>3
    <3>5. k \in 1..Len(r) /\ r[k] = "/"
      BY <2>2, <3>1, <3>2, <3>4
    <3> QED BY <3>1, <3>2, <3>4, <3>5 DEF j, k
  <2> QED BY <2>7, <2>8
<1> QED BY <1>2, <1>3

LEMMA Joined ==
    ASSUME NEW s \in Seq(Tokens), NEW t \in Seq(Tokens), NEW whole \in Seq(Tokens),
           Len(whole) = Len(s) + Len(t),
           \A n \in 1..Len(s) : s[n] = whole[n],
           \A n \in 1..Len(t) : t[n] = whole[n + Len(s)]
    PROVE  s \o t = whole
<1>1. /\ s \o t \in Seq(Tokens) /\ Len(s \o t) = Len(whole)
      /\ \A n \in 1..Len(whole) : (s \o t)[n] = IF n <= Len(s) THEN s[n] ELSE t[n - Len(s)]
  BY ConcatProperties
<1>2. ASSUME NEW n \in 1..Len(whole) PROVE (s \o t)[n] = whole[n]
  <2>1. CASE n <= Len(s)
    BY <1>1, <2>1
  <2>2. CASE n > Len(s)
    <3>1. n - Len(s) \in 1..Len(t) /\ (n - Len(s)) + Len(s) = n
      BY <2>2
    <3> QED BY <1>1, <2>2, <3>1
  <2> QED BY <2>1, <2>2
<1> QED BY <1>1, <1>2, SeqEqual

(* The Helm client pulls from what is left without digest and version. *)
LEMMA PulledFromURL ==
    ASSUME NEW s \in Seq(Tokens), WellFormedURL(s)
    PROVE  resolveOCIChartVersionAndDigest(s).base = WithoutVersion(WithoutDigest(s))
<1> DEFINE r     == WithoutDigest(s)
           a     == IndexOf("@", s)
           k     == IndexOf("/", s)
           path  == SubSeq(s, k, Len(s))
           at    == LastIndexOf("@", path)
           named == IF at = 0 THEN path ELSE Before(path, at)
           host  == Before(s, k)
           colon == LastIndexOf(":", named)
           c     == LastIndexOf(":", r)
<1>1. Named(r) /\ IndexOf("/", r) = k
  BY DigestDropped
<1>2. /\ r \in Seq(Tokens) /\ k \in 1..Len(r) /\ r[k] = "/" /\ k > 1
      /\ \A n \in 1..Len(r) : n < k => r[n] # "/"
  <2>1. r \in Seq(Tokens) /\ (\E n \in 1..Len(r) : r[n] = "/") /\ r[1] # "/"
    BY <1>1 DEF Named
  <2> HIDE DEF r, k
  <2>2. k \in 1..Len(r) /\ r[k] = "/" /\ \A n \in 1..Len(r) : n < k => r[n] # "/"
    BY <1>1, <2>1, FirstOf
  <2>3. k # 1
    BY <2>1, <2>2
  <2> QED BY <2>1, <2>2, <2>3
<1>3. k \in 1..Len(s) /\ Len(s) \in Nat
  <2>1. Len(r) <= Len(s)
    <3>1. CASE a = 0
      BY <3>1 DEF WithoutDigest
    <3>2. CASE a # 0
      BY <3>2, FirstOf, BeforeOf DEF WithoutDigest
    <3> QED BY <3>1, <3>2
  <2> QED BY <1>2, <2>1
<1>4. /\ path \in Seq(Tokens) /\ Len(path) = Len(s) - k + 1
      /\ \A n \in 1..Len(path) : path[n] = s[n + k - 1]
  BY <1>3, SubSeqProperties
<1>5. named \in Seq(Tokens) /\ Len(named) = Len(r) - k + 1 /\ \A n \in 1..Len(named) : named[n] = r[n + k - 1]
  <2>1. CASE a = 0
    <3>1. r = s /\ \A n \in 1..Len(s) : s[n] # "@"
      BY <2>1, FirstOf DEF WithoutDigest
    <3>2. at = 0
      <4> HIDE DEF path
      <4>1. SUFFICES ASSUME at # 0 PROVE FALSE
        OBVIOUS
      <4>2. at \in 1..Len(path) /\ path[at] = "@"
        BY <1>4, <4>1, LastOf
      <4> HIDE DEF at, k
      <4>3. at + k - 1 \in 1..Len(s) /\ s[at + k - 1] = "@"
        BY <1>3, <1>4, <4>2
      <4> QED BY <3>1, <4>3
    <3> QED BY <3>1, <3>2, <1>4
  <2>2. CASE a # 0
    <3>1. a \in 1..Len(s) /\ s[a] = "@" /\ \A n \in 1..Len(s) : n < a => s[n] # "@"
      BY <2>2, FirstOf
    <3>2. Len(r) = a - 1 /\ \A n \in 1..(a - 1) : r[n] = s[n]
      BY <2>2, <3>1, BeforeOf DEF WithoutDigest
    <3>3. \A n \in (a + 1)..Len(s) : s[n] # "@"
      BY <3>1 DEF WellFormedURL
    <3> HIDE DEF a, k, path, r
    <3>4. a - k + 1 \in 1..Len(path) /\ path[a - k + 1] = "@"
      BY <1>2, <1>3, <1>4, <3>1, <3>2
    <3>5. at \in 1..Len(path) /\ path[at] = "@" /\ \A n \in 1..Len(path) : n > at => path[n] # "@"
      BY <1>4, <3>4, LastOf
    <3> HIDE DEF at
    <3>6. at + k - 1 \in 1..Len(s) /\ s[at + k - 1] = "@" /\ at >= a - k + 1
      BY <1>3, <1>4, <3>4, <3>5
    <3>7. at = a - k + 1
      <4>1. at + k - 1 \notin (a + 1)..Len(s)
        BY <3>3, <3>6
      <4>2. at \in Nat /\ k \in Nat /\ a \in Nat
        BY <1>3, <3>1, <3>5, <1>4
      <4> QED BY <4>1, <4>2, <3>6, <1>3
    <3>8. named = Before(path, at) /\ at \in 1..Len(path)
      BY <3>5
    <3>9. named \in Seq(Tokens) /\ Len(named) = at - 1 /\ \A n \in 1..(at - 1) : named[n] = path[n]
      BY <1>4, <3>8, BeforeOf
    <3> HIDE DEF named
    <3>10. ASSUME NEW n \in 1..Len(named) PROVE named[n] = r[n + k - 1]
      <4>1. n \in 1..(at - 1) /\ n \in 1..Len(path) /\ n + k - 1 \in 1..(a - 1)
        BY <1>3, <3>1, <3>5, <3>7, <3>9
      <4> QED BY <4>1, <1>4, <3>2, <3>9
    <3> QED BY <1>3, <3>1, <3>2, <3>7, <3>9, <3>10
  <2> QED BY <2>1, <2>2
<1>6. /\ host \in Seq(Tokens) /\ Len(host) = k - 1
      /\ \A n \in 1..(k - 1) : host[n] = r[n]
  <2>1. \A n \in 1..Len(r) : r[n] = s[n]
    <3>1. CASE a = 0
      BY <3>1 DEF WithoutDigest
    <3>2. CASE a # 0
      BY <3>2, FirstOf, BeforeOf DEF WithoutDigest
    <3> QED BY <3>1, <3>2
  <2> HIDE DEF r, k
  <2>2. host \in Seq(Tokens) /\ Len(host) = k - 1 /\ \A n \in 1..(k - 1) : host[n] = s[n]
    BY <1>3, BeforeOf
  <2> QED BY <2>1, <2>2, <1>2
<1>7. resolveOCIChartVersionAndDigest(s).base = host \o (IF colon = 0 THEN named ELSE Before(named, colon))
  <2>1. k # 0
    BY <1>3
  <2> QED BY <2>1 DEF resolveOCIChartVersionAndDigest
<1> HIDE DEF r, k, a, path, at, named, host
<1>8. CASE c > k
  <2>1. c \in 1..Len(r) /\ r[c] = ":" /\ \A n \in 1..Len(r) : n > c => r[n] # ":"
    BY <1>2, <1>8, LastOf
  <2> HIDE DEF c
  <2>2. c - k + 1 \in 1..Len(named) /\ named[c - k + 1] = ":"
    BY <1>2, <1>5, <1>8, <2>1
  <2>3. colon \in 1..Len(named) /\ named[colon] = ":" /\ \A n \in 1..Len(named) : n > colon => named[n] # ":"
    BY <1>5, <2>2, LastOf
  <2> HIDE DEF colon
  <2>4. colon + k - 1 \in 1..Len(r) /\ r[colon + k - 1] = ":"
    BY <1>2, <1>5, <2>3
  <2>5. colon = c - k + 1
    BY <1>2, <2>1, <2>2, <2>3, <2>4
  <2> DEFINE tail == Before(named, colon)
             whole == Before(r, c)
  <2>6. tail \in Seq(Tokens) /\ Len(tail) = c - k /\ \A n \in 1..(c - k) : tail[n] = r[n + k - 1]
    <3>1. tail \in Seq(Tokens) /\ Len(tail) = colon - 1 /\ \A n \in 1..(colon - 1) : tail[n] = named[n]
      BY <1>5, <2>3, BeforeOf
    <3> HIDE DEF tail
    <3>2. \A n \in 1..(colon - 1) : n \in 1..Len(named)
      BY <2>3, <1>5, <1>2
    <3> QED BY <1>2, <1>5, <2>1, <2>5, <3>1, <3>2
  <2>7. whole \in Seq(Tokens) /\ Len(whole) = c - 1 /\ \A n \in 1..(c - 1) : whole[n] = r[n]
    BY <1>2, <2>1, BeforeOf
  <2> HIDE DEF tail, whole
  <2>8. host \o tail = whole
    <3>1. Len(whole) = Len(host) + Len(tail)
      BY <1>2, <1>6, <2>1, <2>6, <2>7
    <3>2. \A n \in 1..Len(host) : host[n] = whole[n]
      BY <1>2, <1>6, <1>8, <2>1, <2>7
    <3>3. ASSUME NEW n \in 1..Len(tail) PROVE tail[n] = whole[n + Len(host)]
      <4>1. n \in 1..(c - k) /\ n + Len(host) = n + k - 1 /\ n + k - 1 \in 1..(c - 1)
        BY <1>2, <1>6, <1>8, <2>1, <2>6
      <4> QED BY <4>1, <2>6, <2>7
    <3> QED BY <3>1, <3>2, <3>3, <1>6, <2>6, <2>7, Joined
  <2>9. colon # 0 /\ WithoutVersion(r) = whole
    BY <1>1, <1>8, <2>3 DEF WithoutVersion, whole, c
  <2> QED BY <1>7, <2>8, <2>9 DEF tail, r
<1>9. CASE ~(c > k)
  <2>1. \A n \in 1..Len(r) : n > k => r[n] # ":"
    <3>1. \/ c = 0 /\ \A n \in 1..Len(r) : r[n] # ":"
          \/ c \in 1..Len(r) /\ \A n \in 1..Len(r) : n > c => r[n] # ":"
      BY <1>2, LastOf
    <3> HIDE DEF c
    <3> QED BY <1>2, <1>9, <3>1
  <2>2. colon = 0
    <3>1. SUFFICES ASSUME colon # 0 PROVE FALSE
      OBVIOUS
    <3>2. colon \in 1..Len(named) /\ named[colon] = ":"
      BY <1>5, <3>1, LastOf
    <3> HIDE DEF colon
    <3>3. colon + k - 1 \in 1..Len(r) /\ r[colon + k - 1] = ":" /\ colon + k - 1 >= k
      BY <1>2, <1>5, <3>2
    <3>4. colon + k - 1 # k
      BY <1>2, <3>3
    <3> QED BY <1>2, <2>1, <3>2, <3>3, <3>4
  <2>3. host \o named = r
    <3>1. Len(r) = Len(host) + Len(named) /\ \A n \in 1..Len(host) : host[n] = r[n]
      BY <1>2, <1>5, <1>6
    <3>2. ASSUME NEW n \in 1..Len(named) PROVE named[n] = r[n + Len(host)]
      <4>1. n + Len(host) = n + k - 1
        BY <1>2, <1>6
      <4> QED BY <4>1, <1>5
    <3> QED BY <3>1, <3>2, <1>2, <1>5, <1>6, Joined
  <2>4. WithoutVersion(r) = r
    BY <1>1, <1>9 DEF WithoutVersion, c
  <2> QED BY <1>7, <2>2, <2>3, <2>4 DEF r
<1> QED BY <1>8, <1>9

LEMMA Normalized ==
    ASSUME NEW s
    PROVE  normalizeRegistryURL(s) = TrimSlash(WithoutTag(WithoutDigest(s)))
  BY DEF normalizeRegistryURL, WithoutTag, WithoutDigest

(* registryauth looks credentials up for the same, if it can parse it. *)
LEMMA TagDropped ==
    ASSUME NEW r, Named(r), ~parseFails(TrimSlash(WithoutTag(r)))
    PROVE  TrimSlash(WithoutTag(r)) = WithoutVersion(r)
<1> DEFINE k     == IndexOf("/", r)
           slash == LastIndexOf("/", r)
           colon == LastIndexOf(":", r)
<1>1. /\ r \in Seq(Tokens) /\ Len(r) \in Nat
      /\ \E n \in 1..Len(r) : r[n] = "/"
      /\ r[1] # "/"
      /\ \A n \in 1..Len(r) : r[n] = "/" => n < Len(r) /\ r[n + 1] # "/" /\ r[n + 1] # ":"
  BY DEF Named
<1>2. /\ k \in 1..Len(r) /\ slash \in 1..Len(r) /\ r[k] = "/" /\ r[slash] = "/"
      /\ \A n \in 1..Len(r) : n > slash => r[n] # "/"
  BY <1>1, FirstOf, LastOf
<1>3. \/ colon = 0
      \/ colon \in 1..Len(r) /\ r[colon] = ":"
  BY <1>1, LastOf
<1>4. /\ WithoutTag(r) = IF slash > 1 /\ colon > slash THEN Before(r, colon) ELSE r
      /\ WithoutVersion(r) = IF colon > k THEN Before(r, colon) ELSE r
  BY DEF WithoutTag, WithoutVersion
<1>5. parseFails(r) \/ ~(colon \in 1..Len(r) /\ k < colon)
  <2>1. SUFFICES ASSUME colon \in 1..Len(r), k < colon PROVE parseFails(r)
    OBVIOUS
  <2>2. r[colon] = ":" /\ colon \in DOMAIN r
    BY <1>1, <1>2, <1>3, <2>1
  <2> HIDE DEF colon
  <2> QED BY <2>1, <2>2 DEF parseFails
<1> HIDE DEF k, slash, colon
<1>6. slash >= k /\ slash > 1
  BY <1>1, <1>2
<1>7. CASE colon > slash
  <2>1. colon \in 1..Len(r) /\ r[colon] = ":"
    BY <1>2, <1>3, <1>7
  <2>2. WithoutTag(r) = Before(r, colon) /\ WithoutVersion(r) = Before(r, colon)
    BY <1>2, <1>4, <1>6, <1>7, <2>1
  <2>3. /\ Before(r, colon) \in Seq(Tokens) /\ Len(Before(r, colon)) = colon - 1
        /\ Before(r, colon)[colon - 1] = r[colon - 1]
    BY <1>1, <1>2, <1>6, <1>7, <2>1, BeforeOf
  <2>4. r[colon - 1] # "/"
    <3>1. CASE colon - 1 = slash
      <4>1. slash + 1 = colon
        BY <1>2, <2>1, <3>1
      <4> QED BY <1>1, <1>2, <2>1, <4>1
    <3>2. CASE colon - 1 > slash
      BY <1>2, <2>1, <3>2
    <3> QED BY <1>2, <1>7, <2>1, <3>1, <3>2
  <2>5. Len(Before(r, colon)) > 0
    BY <1>2, <1>7, <2>1, <2>3
  <2> QED BY <2>2, <2>3, <2>4, <2>5, NotTrimmed
<1>8. CASE ~(colon > slash)
  <2>1. WithoutTag(r) = r
    BY <1>4, <1>8
  <2>2. r[Len(r)] # "/" /\ Len(r) > 0
    BY <1>1, <1>2
  <2>3. TrimSlash(WithoutTag(r)) = r
    BY <1>1, <2>1, <2>2, NotTrimmed
  <2>4. ~(colon > k)
    BY <1>2, <1>3, <1>5, <2>3
  <2> QED BY <1>4, <2>3, <2>4
<1> QED BY <1>7, <1>8

LEMMA Behind ==
    ASSUME NEW r \in Seq(Tokens), NEW t \in Seq(Tokens), Len(t) = 2
    PROVE  /\ r \o t \in Seq(Tokens) /\ Len(r \o t) = Len(r) + 2 /\ Len(r) \in Nat
           /\ \A n \in 1..Len(r) : (r \o t)[n] = r[n]
           /\ (r \o t)[Len(r) + 1] = t[1] /\ (r \o t)[Len(r) + 2] = t[2]
<1>1. /\ r \o t \in Seq(Tokens) /\ Len(r \o t) = Len(r) + Len(t)
      /\ \A n \in 1..(Len(r) + Len(t)) : (r \o t)[n] = IF n <= Len(r) THEN r[n] ELSE t[n - Len(r)]
  BY ConcatProperties
<1>2. Len(r) \in Nat
  OBVIOUS
<1>3. ASSUME NEW n \in 1..Len(r) PROVE (r \o t)[n] = r[n]
  BY <1>1, <1>2
<1>4. ASSUME NEW n \in 1..2 PROVE (r \o t)[Len(r) + n] = t[n]
  <2>1. /\ Len(r) + n \in 1..(Len(r) + Len(t)) /\ ~(Len(r) + n <= Len(r))
        /\ (Len(r) + n) - Len(r) = n
    BY <1>2
  <2> QED BY <1>1, <2>1
<1>5. (r \o t)[Len(r) + 1] = t[1] /\ (r \o t)[Len(r) + 2] = t[2]
  <2>1. 1 \in 1..2 /\ 2 \in 1..2
    OBVIOUS
  <2> QED BY <1>4, <2>1, Zenon
<1> QED BY <1>1, <1>2, <1>3, <1>5

LEMMA NameBehind ==
    ASSUME NEW r \in Seq(Tokens), NEW name \in Tokens \ Separators
    PROVE  LET s == r \o <<"/", name>>
           IN  /\ s \in Seq(Tokens) /\ Len(s) = Len(r) + 2 /\ Len(r) \in Nat
               /\ \A n \in 1..Len(r) : s[n] = r[n]
               /\ s[Len(r) + 1] = "/" /\ s[Len(r) + 2] = name
               /\ <<"/", name>> \in Seq(Tokens)
<1>1. /\ <<"/", name>> \in Seq(Tokens) /\ Len(<<"/", name>>) = 2
      /\ <<"/", name>>[1] = "/" /\ <<"/", name>>[2] = name
  BY TokensAssumption DEF Separators
<1> QED BY <1>1, Behind

(* A name behind a reference stays there: it is neither tag nor digest. *)
LEMMA NameKept ==
    ASSUME NEW r \in Seq(Tokens), NEW name \in Tokens \ Separators
    PROVE  LET s == r \o <<"/", name>> IN TrimSlash(WithoutTag(s)) = s
<1> DEFINE s == r \o <<"/", name>>
           slash == LastIndexOf("/", s)
           colon == LastIndexOf(":", s)
<1>1. /\ s \in Seq(Tokens) /\ Len(s) = Len(r) + 2 /\ Len(r) \in Nat
      /\ s[Len(r) + 1] = "/" /\ s[Len(r) + 2] = name
  BY NameBehind
<1> HIDE DEF s
<1>2. slash \in 1..Len(s) /\ slash >= Len(r) + 1
  <2>1. Len(r) + 1 \in 1..Len(s)
    BY <1>1
  <2>2. slash \in 1..Len(s) /\ \A n \in 1..Len(s) : n > slash => s[n] # "/"
    BY <1>1, <2>1, LastOf
  <2> QED BY <1>1, <2>1, <2>2
<1>3. colon = 0 \/ (colon \in 1..Len(s) /\ s[colon] = ":")
  BY <1>1, LastOf
<1> HIDE DEF colon, slash
<1>4. ~(colon > slash)
  <2>1. SUFFICES ASSUME colon > slash PROVE FALSE
    OBVIOUS
  <2>2. colon = Len(r) + 2
    BY <1>1, <1>2, <1>3, <2>1
  <2> QED BY <1>1, <1>2, <1>3, <2>1, <2>2 DEF Separators
<1>5. WithoutTag(s) = s
  BY <1>4 DEF WithoutTag, slash, colon
<1>6. s[Len(s)] # "/" /\ Len(s) > 0
  BY <1>1 DEF Separators
<1> QED BY <1>1, <1>5, <1>6, NotTrimmed DEF s

(* Neither is taken for a digest. *)
LEMMA NoDigest ==
    ASSUME NEW s \in Seq(Tokens), \A n \in 1..Len(s) : s[n] # "@"
    PROVE  WithoutDigest(s) = s
  BY FirstOf DEF WithoutDigest

LEMMA DigestBeforeName ==
    ASSUME NEW s \in Seq(Tokens), NEW t \in Seq(Tokens), IndexOf("@", s) # 0
    PROVE  WithoutDigest(s \o t) = WithoutDigest(s)
<1> DEFINE a == IndexOf("@", s)
           b == IndexOf("@", s \o t)
<1>1. /\ s \o t \in Seq(Tokens) /\ Len(s \o t) = Len(s) + Len(t) /\ Len(s) \in Nat /\ Len(t) \in Nat
      /\ \A n \in 1..Len(s) : (s \o t)[n] = s[n]
  BY ConcatProperties
<1>2. a \in 1..Len(s) /\ s[a] = "@" /\ \A n \in 1..Len(s) : n < a => s[n] # "@"
  BY FirstOf
<1>3. a \in 1..Len(s \o t) /\ (s \o t)[a] = "@"
  BY <1>1, <1>2
<1>4. b \in 1..Len(s \o t) /\ (s \o t)[b] = "@" /\ \A n \in 1..Len(s \o t) : n < b => (s \o t)[n] # "@"
  BY <1>1, <1>3, FirstOf
<1>5. b = a
  <2> HIDE DEF a, b
  <2>1. b <= a
    BY <1>1, <1>2, <1>3, <1>4
  <2>2. b \in 1..Len(s) /\ s[b] = "@"
    BY <1>1, <1>2, <1>4, <2>1
  <2> QED BY <1>2, <2>1, <2>2
<1>6. Before(s \o t, a) = Before(s, a)
  <2>1. /\ Before(s \o t, a) \in Seq(Tokens) /\ Len(Before(s \o t, a)) = a - 1
        /\ \A n \in 1..(a - 1) : Before(s \o t, a)[n] = (s \o t)[n]
    BY <1>1, <1>3, BeforeOf
  <2>2. /\ Before(s, a) \in Seq(Tokens) /\ Len(Before(s, a)) = a - 1
        /\ \A n \in 1..(a - 1) : Before(s, a)[n] = s[n]
    BY <1>2, BeforeOf
  <2> HIDE DEF a
  <2>3. \A n \in 1..(a - 1) : Before(s \o t, a)[n] = Before(s, a)[n]
    BY <1>1, <1>2, <2>1, <2>2
  <2> QED BY <2>1, <2>2, <2>3, SeqEqual
<1> QED BY <1>2, <1>5, <1>6 DEF WithoutDigest

LEMMA NameNoDigest ==
    ASSUME NEW r \in Seq(Tokens), NEW name \in Tokens \ Separators,
           \A n \in 1..Len(r) : r[n] # "@"
    PROVE  WithoutDigest(r \o <<"/", name>>) = r \o <<"/", name>>
<1> DEFINE s == r \o <<"/", name>>
<1>1. /\ s \in Seq(Tokens) /\ Len(s) = Len(r) + 2 /\ Len(r) \in Nat
      /\ \A n \in 1..Len(r) : s[n] = r[n]
      /\ s[Len(r) + 1] = "/" /\ s[Len(r) + 2] = name
  BY NameBehind
<1> HIDE DEF s
<1>2. ASSUME NEW n \in 1..Len(s) PROVE s[n] # "@"
  <2>1. n \in 1..Len(r) \/ n = Len(r) + 1 \/ n = Len(r) + 2
    BY <1>1
  <2>2. "/" # "@" /\ name # "@"
    BY DEF Separators
  <2> QED BY <1>1, <2>1, <2>2
<1> QED BY <1>1, <1>2, NoDigest DEF s

(* A name behind a URL with a tag cannot be parsed. *)
LEMMA NameBehindTag ==
    ASSUME NEW s \in Seq(Tokens), WellFormedURL(s), NEW name \in Tokens \ Separators,
           ~parseFails(s \o <<"/", name>>)
    PROVE  WithoutVersion(s) = s
<1> DEFINE full == s \o <<"/", name>>
           k == IndexOf("/", s)
           j == IndexOf("/", full)
           c == LastIndexOf(":", s)
<1>1. SUFFICES ASSUME c > k PROVE FALSE
  BY DEF WithoutVersion
<1>2. /\ full \in Seq(Tokens) /\ Len(full) = Len(s) + 2 /\ Len(s) \in Nat
      /\ \A n \in 1..Len(s) : full[n] = s[n]
  BY NameBehind
<1>3. ~parseFails(full)
  OBVIOUS
<1> HIDE DEF full
<1>4. \E n \in 1..Len(s) : s[n] = "/"
  BY DEF WellFormedURL
<1>5. k \in 1..Len(s) /\ s[k] = "/"
  BY <1>4, FirstOf
<1>6. c \in 1..Len(s) /\ s[c] = ":"
  BY <1>1, <1>5, LastOf
<1> HIDE DEF k, c
<1>7. k \in 1..Len(full) /\ full[k] = "/" /\ c \in DOMAIN full /\ full[c] = ":"
  BY <1>2, <1>5, <1>6
<1>8. j \in 1..Len(full) /\ \A n \in 1..Len(full) : n < j => full[n] # "/"
  BY <1>2, <1>7, FirstOf
<1>9. j < c
  <2> HIDE DEF j
  <2>1. ~(k < j)
    BY <1>7, <1>8
  <2> QED BY <1>1, <1>2, <1>5, <1>6, <1>8, <2>1
<1> QED BY <1>3, <1>7, <1>9 DEF parseFails

(* What registryauth parses is what the Helm client pulls from. *)
LEMMA URLParsed ==
    ASSUME NEW s \in Seq(Tokens), WellFormedURL(s),
           ~parseFails(normalizeRegistryURL(s))
    PROVE  normalizeRegistryURL(s) = WithoutVersion(WithoutDigest(s))
  BY DigestDropped, TagDropped, Normalized

LEMMA NamedURLParsed ==
    ASSUME NEW s \in Seq(Tokens), WellFormedURL(s), NEW name \in Tokens \ Separators,
           ~EndsIn(s, name), EndsIn(WithoutVersion(WithoutDigest(s)), name),
           ~parseFails(normalizeRegistryURL(s \o <<"/", name>>))
    PROVE  normalizeRegistryURL(s \o <<"/", name>>) = WithoutVersion(WithoutDigest(s))
<1> DEFINE full == s \o <<"/", name>>
<1>1. CASE IndexOf("@", s) # 0
  <2>1. <<"/", name>> \in Seq(Tokens)
    BY NameBehind
  <2>2. WithoutDigest(full) = WithoutDigest(s)
    BY <1>1, <2>1, DigestBeforeName
  <2> HIDE DEF full
  <2>3. normalizeRegistryURL(full) = normalizeRegistryURL(s)
    BY <2>2, Normalized
  <2> QED BY <2>3, URLParsed DEF full
<1>2. CASE IndexOf("@", s) = 0
  <2>1. \A n \in 1..Len(s) : s[n] # "@"
    BY <1>2, FirstOf
  <2>2. WithoutDigest(full) = full /\ WithoutDigest(s) = s
    BY <2>1, NoDigest, NameNoDigest
  <2>3. normalizeRegistryURL(full) = full
    BY <2>2, NameKept, Normalized
  <2>4. WithoutVersion(s) = s
    BY <2>3, NameBehindTag
  <2> QED BY <2>2, <2>4
<1> QED BY <1>1, <1>2

LEMMA NoSlashAtEnd ==
    ASSUME NEW s \in Seq(Tokens), WellFormedURL(s)
    PROVE  TrimSlash(s) = s
<1>1. DOMAIN s = 1..Len(s) /\ Len(s) \in Nat
  OBVIOUS
<1>2. \E n \in DOMAIN s : s[n] = "/"
  BY DEF WellFormedURL
<1>3. \A n \in DOMAIN s : s[n] = "/" => n < Len(s)
  BY DEF WellFormedURL
<1>4. Len(s) > 0 /\ Len(s) \in DOMAIN s
  BY <1>1, <1>2
<1>5. s[Len(s)] # "/"
  BY <1>1, <1>3, <1>4
<1> QED BY <1>4, <1>5, NotTrimmed

LEMMA URLLookup ==
    ASSUME NEW chart, WellFormed(chart), chart.url # NoLocation, chart.url.oci,
           chart.repo = NoLocation, ~parseFails(Lookup(chart)),
           chart.name = "" \/ EndsIn(pulledFrom(chart), chart.name)
    PROVE  Lookup(chart) = pulledFrom(chart)
<1>1. PICK s : s = chart.url.ref
  OBVIOUS
<1>2. PICK name : name = chart.name
  OBVIOUS
<1>3. s \in Seq(Tokens) /\ WellFormedURL(s) /\ name \in Tokens \ Separators
  BY <1>1, <1>2 DEF WellFormed
<1>4. pulledFrom(chart) = WithoutVersion(WithoutDigest(s))
  BY <1>1, <1>3, PulledFromURL DEF pulledFrom
<1>5. CASE name = "" \/ EndsIn(s, name)
  <2>1. fullRepoURL(chart) = s
    BY <1>1, <1>2, <1>5 DEF fullRepoURL
  <2> QED BY <1>3, <1>4, <2>1, URLParsed DEF Lookup
<1>6. CASE ~(name = "" \/ EndsIn(s, name))
  <2>1. TrimSlash(s) = s
    BY <1>3, NoSlashAtEnd
  <2>2. fullRepoURL(chart) = s \o <<"/", name>>
    BY <1>1, <1>2, <1>6, <2>1 DEF fullRepoURL
  <2> QED BY <1>2, <1>3, <1>4, <1>6, <2>2, NamedURLParsed DEF Lookup
<1> QED BY <1>5, <1>6

LEMMA TrimmedIn ==
    ASSUME NEW s \in Seq(Tokens), \A n \in 1..Len(s) : s[n] # "@"
    PROVE  TrimSlash(s) \in Seq(Tokens) /\ \A n \in 1..Len(TrimSlash(s)) : TrimSlash(s)[n] # "@"
<1>1. CASE TrimSlash(s) = s
  BY <1>1
<1>2. CASE TrimSlash(s) # s
  <2>1. s # <<>> /\ TrimSlash(s) = Before(s, Len(s))
    BY <1>2 DEF TrimSlash, Front, Before
  <2>2. Len(s) \in Nat /\ Len(s) \in 1..Len(s)
    BY <2>1
  <2>3. /\ Before(s, Len(s)) \in Seq(Tokens) /\ Len(Before(s, Len(s))) = Len(s) - 1
        /\ \A n \in 1..(Len(s) - 1) : Before(s, Len(s))[n] = s[n]
    BY <2>2, BeforeOf
  <2>4. PICK b : b = Before(s, Len(s))
    OBVIOUS
  <2>5. b \in Seq(Tokens) /\ \A n \in 1..Len(b) : b[n] # "@"
    BY <2>2, <2>3, <2>4
  <2> QED BY <2>1, <2>4, <2>5
<1> QED BY <1>1, <1>2

LEMMA RepositoryLookup ==
    ASSUME NEW chart, WellFormed(chart), chart.url = NoLocation, chart.repo.oci,
           ~EndsIn(chart.repo.ref, chart.name)
    PROVE  Lookup(chart) = pulledFrom(chart)
<1>1. PICK s : s = chart.repo.ref
  OBVIOUS
<1>2. PICK name : name = chart.name
  OBVIOUS
<1>3. /\ s \in Seq(Tokens) /\ name \in Tokens \ Separators /\ name # "" /\ chart.repo # NoLocation
      /\ \A n \in 1..Len(s) : s[n] # "@"
  <2>1. name \in Tokens \ Separators
    BY <1>2 DEF WellFormed
  <2>2. name # "" /\ chart.repo # NoLocation
    BY <1>2 DEF WellFormed
  <2>3. s \in Seq(Tokens) /\ \A n \in DOMAIN s : s[n] # "@"
    BY <1>1, <2>2 DEF WellFormed
  <2>4. DOMAIN s = 1..Len(s)
    BY <2>3
  <2> QED BY <2>1, <2>2, <2>3, <2>4
<1>4. PICK r : r = TrimSlash(s)
  OBVIOUS
<1>5. pulledFrom(chart) = r \o <<"/", name>> /\ fullRepoURL(chart) = r \o <<"/", name>>
  BY <1>1, <1>2, <1>3, <1>4 DEF pulledFrom, resolveOCIChartRef, fullRepoURL
<1>6. r \in Seq(Tokens) /\ \A n \in 1..Len(r) : r[n] # "@"
  BY <1>3, <1>4, TrimmedIn
<1>7. normalizeRegistryURL(r \o <<"/", name>>) = r \o <<"/", name>>
  BY <1>3, <1>6, NameKept, NameNoDigest, Normalized
<1> QED BY <1>5, <1>7 DEF Lookup

(* A deployment that reads patches has parsed what it looked up. *)
CredsInv ==
    pc = "patches" /\ purpose # "observe" /\ spec.pullSecret = None =>
        creds \in FromKeychain(spec.chart) /\ ~parseFails(Lookup(spec.chart))

LEMMA NextCreds == PlaceInv /\ CredsInv /\ [Next]_vars => CredsInv'
<1> SUFFICES ASSUME PlaceInv, CredsInv, [Next]_vars,
                    pc' = "patches", purpose' # "observe", spec'.pullSecret = None
             PROVE  creds' \in FromKeychain(spec'.chart) /\ ~parseFails(Lookup(spec'.chart))
  BY DEF CredsInv, FromKeychain, Lookup
<1> USE DEF config, read, copy
<1>1. CASE ResolveCreds
  BY <1>1 DEF ResolveCreds, CredsUnresolvable
<1>2. CASE EditObject \/ ReadPatches \/ SyncCache \/ UNCHANGED vars
  <2>1. pc = "patches" /\ purpose' = purpose /\ spec' = spec /\ creds' = creds
    BY <1>2 DEF EditObject, ReadPatches, SyncCache, vars
  <2> QED BY <2>1 DEF CredsInv
<1>3. ResolveCreds \/ EditObject \/ ReadPatches \/ SyncCache \/ UNCHANGED vars
  BY DEF Next, Worker, composeValuesFromSpec, Interrupted, Begin, createNamespace, ReadValues,
         InlineValues, SetOne, ValuesInSync, InSync, StartUpdate, Deploy, connectionDetails,
         PublishConnection, PublishStatus, PublishConflicts, Fail, Idle, Goto
<1> QED BY <1>1, <1>2, <1>3

LEMMA CredsOfChart == TypeInv /\ CredsInv => CredentialsFit
<1> SUFFICES ASSUME TypeInv, CredsInv,
                    pc = "patches", purpose # "observe", spec.pullSecret = None,
                    location(spec.chart).oci,
                    \/ /\ spec.chart.repo = NoLocation
                       /\ spec.chart.name = "" \/ EndsIn(pulledFrom(spec.chart), spec.chart.name)
                    \/ spec.chart.url = NoLocation /\ ~EndsIn(spec.chart.repo.ref, spec.chart.name)
             PROVE  creds \in {pulledFrom(spec.chart), Anonymous}
  BY DEF CredentialsFit
<1>1. WellFormed(spec.chart)
  BY SpecsAssumption DEF TypeInv, TypeOK
<1>2. creds \in FromKeychain(spec.chart) /\ ~parseFails(Lookup(spec.chart))
  BY DEF CredsInv
<1>3. Lookup(spec.chart) = pulledFrom(spec.chart)
  <2>1. CASE spec.chart.url = NoLocation
    <3>1. spec.chart.repo # NoLocation
      BY <1>1, <2>1 DEF WellFormed
    <3>2. spec.chart.repo.oci /\ ~EndsIn(spec.chart.repo.ref, spec.chart.name)
      BY <2>1, <3>1 DEF location
    <3> QED BY <1>1, <2>1, <3>2, RepositoryLookup
  <2>2. CASE spec.chart.url # NoLocation
    <3>1. spec.chart.url.oci
      BY <2>2 DEF location
    <3> QED BY <1>1, <1>2, <2>2, <3>1, URLLookup
  <2> QED BY <2>1, <2>2
<1> QED BY <1>2, <1>3 DEF FromKeychain

(* Without a pull secret, what credentials are looked up for                *)
(* (ResolveNamespaced, ResolveCluster, normalizeRegistryURL) is what the    *)
(* chart is pulled from (pullChart), for every OCI location: ports, tags,   *)
(* digests, trailing slashes and any depth of repository.                   *)
THEOREM CredentialsForChart == Spec => []CredentialsFit
<1>1. Init => CauseInv /\ CredsInv
  BY InitCause DEF Init, CredsInv
<1>2. CauseInv /\ CredsInv /\ [Next]_vars => CauseInv' /\ CredsInv'
  BY NextCause, NextCreds DEF CauseInv
<1>3. CauseInv /\ CredsInv => CredentialsFit
  BY CredsOfChart DEF CauseInv
<1> QED BY <1>1, <1>2, <1>3, PTL DEF Spec
=============================================================================
