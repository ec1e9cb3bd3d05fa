----------------------------- MODULE ChartSource -----------------------------
(***************************************************************************)
(* What the chart cache promises to concurrent reconciles: each asks for   *)
(* the chart of a reference and is given, in one step, a published chart   *)
(* that meets it, or an error.  There are no files here, and no worker     *)
(* notices another.                                                        *)
(***************************************************************************)
EXTENDS ChartRefs

CONSTANTS Workers, NoRef, NoChart

VARIABLES published, \* the charts there are, so far
          want,      \* the reference a worker waits for
          since,     \* the charts there were when it asked
          got        \* the chart it was given last

sourceVars == <<published, want, since, got>>

Init ==
    /\ published \in SUBSET Charts
    /\ want = [w \in Workers |-> NoRef] /\ since = [w \in Workers |-> {}]
    /\ got = [w \in Workers |-> NoChart]

Publish ==
    /\ \E c \in Charts \ published : published' = published \cup {c}
    /\ UNCHANGED <<want, since, got>>

Ask(w) ==
    /\ want[w] = NoRef
    /\ \E ref \in Refs : want' = [want EXCEPT ![w] = ref]
    /\ since' = [since EXCEPT ![w] = published]
    /\ got' = [got EXCEPT ![w] = NoChart]
    /\ UNCHANGED published

Over(w) ==
    want' = [want EXCEPT ![w] = NoRef] /\ since' = [since EXCEPT ![w] = {}]

Answer(w) ==
    /\ want[w] # NoRef
    /\ \E c \in published :
          /\ Meets(want[w], c) /\ Fresh(want[w], c, since[w])
          /\ got' = [got EXCEPT ![w] = c]
    /\ Over(w)
    /\ UNCHANGED published

Refuse(w) ==
    /\ want[w] # NoRef
    /\ Over(w)
    /\ UNCHANGED <<published, got>>

Next == Publish \/ \E w \in Workers : Ask(w) \/ Answer(w) \/ Refuse(w)

Spec == Init /\ [][Next]_sourceVars
=============================================================================
