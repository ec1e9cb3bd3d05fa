---------------------------- MODULE ReleaseValues ----------------------------
(***************************************************************************)
(* How the values of a Release are put together: mergeMaps and --set of    *)
(* pkg/controller/*/release/values.go, and a reference they are compared   *)
(* with.  Values are a map from keys to scalars and maps.                  *)
(*                                                                         *)
(* They are written down flat: what is at each path, a scalar or Map, a    *)
(* path being the keys on the way from the root, which is always a map.    *)
(* ValueTrees has the maps nested in one another that the code works on,   *)
(* and compares the two.                                                   *)
(***************************************************************************)
EXTENDS Integers, SequencesExt

CONSTANTS Scalars,   \* values that are not maps
          Map        \* a map, whatever it holds

EmptyMap == [p \in {} |-> p]

ScalarAbove(v, path) == \E p \in DOMAIN v : IsStrictPrefix(p, path) /\ v[p] # Map

(* What is in b counts, and a keeps what no scalar of b hides. *)
mergeMaps(a, b) ==
    [p \in DOMAIN b \cup {q \in DOMAIN a : ~ScalarAbove(b, q)} |->
        IF p \in DOMAIN b THEN b[p] ELSE a[p]]

(* name=value, where the name may have dots: maps are made on the way, but  *)
(* a scalar on the way is an error.                                         *)
Nested(path, v) == [p \in Prefixes(path) \ {<<>>} |-> IF p = path THEN v ELSE Map]

ParseInto(path, v, base) == mergeMaps(base, Nested(path, v))
-----------------------------------------------------------------------------
(* The reference: at each path the last layer counts that has something to  *)
(* say about it, a value there or a scalar above it.                        *)
Kind(v, path) == IF path \in DOMAIN v THEN v[path] ELSE "absent"

SpeaksOf(v, path) == path \in DOMAIN v \/ ScalarAbove(v, path)

Speaking(layers, path) == {n \in DOMAIN layers : SpeaksOf(layers[n], path)}

LastWord(layers, path) ==
    LET who == Speaking(layers, path)
    IN  IF who = {} THEN "absent"
        ELSE Kind(layers[CHOOSE n \in who : \A m \in who : m <= n], path)

(* The values that have the last word everywhere. *)
Composition(layers) ==
    LET said == UNION {DOMAIN layers[n] : n \in DOMAIN layers}
    IN  [p \in {q \in said : LastWord(layers, q) # "absent"} |-> LastWord(layers, p)]
=============================================================================
