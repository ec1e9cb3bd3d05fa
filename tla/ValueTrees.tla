----------------------------- MODULE ValueTrees ------------------------------
(***************************************************************************)
(* mergeMaps and --set as pkg/controller/*/release/values.go and strvals   *)
(* have them, on maps nested in one another, and the check that            *)
(* ReleaseValues, which does without recursion, computes the same.         *)
(***************************************************************************)
EXTENDS ReleaseValues

CONSTANTS Keys, Depth   \* bounds: the trees that are compared

IsMap(v) == v \notin Scalars

RECURSIVE mergeTrees(_, _)
mergeTrees(a, b) ==
    [k \in DOMAIN a \cup DOMAIN b |->
        IF k \notin DOMAIN b THEN a[k]
        ELSE IF k \in DOMAIN a /\ IsMap(a[k]) /\ IsMap(b[k]) THEN mergeTrees(a[k], b[k])
        ELSE b[k]]

(* What --set makes of a map; the code stops at a scalar on the way. *)
RECURSIVE SetInTree(_, _, _)
SetInTree(path, v, tree) ==
    LET k     == Head(path)
        below == IF k \in DOMAIN tree THEN tree[k] ELSE EmptyMap
    IN  [j \in DOMAIN tree \cup {k} |->
            IF j # k THEN tree[j]
            ELSE IF Len(path) = 1 THEN v
            ELSE SetInTree(Tail(path), v, below)]

RECURSIVE Flat(_)
Flat(tree) ==
    LET Below(k) == Flat(tree[k])
        maps == {k \in DOMAIN tree : IsMap(tree[k])}
    IN  [p \in {<<k>> : k \in DOMAIN tree}
                \cup UNION {{<<k>> \o q : q \in DOMAIN Below(k)} : k \in maps} |->
            IF Len(p) > 1 THEN Below(p[1])[Tail(p)]
            ELSE IF p[1] \in maps THEN Map
            ELSE tree[p[1]]]

RECURSIVE Trees(_)
Trees(depth) ==
    UNION {[keys -> Scalars \cup (IF depth = 1 THEN {} ELSE Trees(depth - 1))] :
              keys \in SUBSET Keys}

FlatPaths == UNION {[1..n -> Keys] : n \in 1..Depth}

ASSUME MergesAgree ==
    \A a, b \in Trees(Depth) : Flat(mergeTrees(a, b)) = mergeMaps(Flat(a), Flat(b))

ASSUME SetsAgree ==
    \A tree \in Trees(Depth), path \in FlatPaths, v \in Scalars :
        ~ScalarAbove(Flat(tree), path) =>
            Flat(SetInTree(path, v, tree)) = ParseInto(path, v, Flat(tree))
=============================================================================
