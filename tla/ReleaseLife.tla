----------------------------- MODULE ReleaseLife -----------------------------
(***************************************************************************)
(* What a Release promises about the thing it deploys, without the         *)
(* controller, its caches and its status: an object lives until it is      *)
(* deleted and let go, configurations are tried for it one at a time, and  *)
(* what runs is replaced only by an attempt that succeeded or removed      *)
(* because the object was deleted.                                         *)
(***************************************************************************)
CONSTANT Configurations

VARIABLES
    life,     \* of the object: "live", "deleted" or "gone"
    keep,     \* what is installed is to be kept when the object goes
    tried,    \* configurations Helm knows of; none when nothing is installed
    attempt,  \* the one being deployed, if any, as a set
    running   \* the one that is deployed, if any, as a set

vars == <<life, keep, tried, attempt, running>>

Init ==
    /\ life = "live" /\ keep \in BOOLEAN
    /\ tried = {} /\ attempt = {} /\ running = {}

(* The user.  An object that nothing was deployed for may go at once.       *)
Edit ==
    /\ life # "gone" /\ keep' \in BOOLEAN
    /\ UNCHANGED <<life, tried, attempt, running>>

Delete ==
    /\ life = "live"
    /\ life' \in {"deleted", "gone"} /\ (life' = "gone" => tried = {})
    /\ UNCHANGED <<keep, tried, attempt, running>>

(* A new configuration is tried when nothing else is; old ones may be       *)
(* forgotten for it, but not the one that runs.                             *)
Try(c) ==
    /\ life # "gone" /\ attempt = {}
    /\ attempt' = {c}
    /\ tried' \subseteq tried \cup {c} /\ c \in tried' /\ running \subseteq tried'
    /\ UNCHANGED <<life, keep, running>>

(* Going back to an earlier one gives up what is being tried.               *)
GoBack(c) ==
    /\ life # "gone" /\ c \in tried
    /\ attempt' = {c}
    /\ UNCHANGED <<life, keep, tried, running>>

Succeed ==
    /\ attempt # {}
    /\ running' = attempt /\ attempt' = {}
    /\ UNCHANGED <<life, keep, tried>>

Fail ==
    /\ attempt # {} /\ attempt' = {}
    /\ UNCHANGED <<life, keep, tried, running>>

(* What runs is only removed from a deleted object.                         *)
Remove ==
    /\ life = "live" => running = {}
    /\ running' \in {running, {}} /\ attempt' = {} /\ tried' \in {tried, {}}
    /\ running' \subseteq tried'
    /\ UNCHANGED <<life, keep>>

LetGo ==
    /\ life = "deleted" /\ (tried = {} \/ keep)
    /\ life' = "gone"
    /\ UNCHANGED <<keep, tried, attempt, running>>

Next ==
    \/ Edit \/ Delete \/ Succeed \/ Fail \/ Remove \/ LetGo
    \/ \E c \in Configurations : Try(c) \/ GoBack(c)

Spec == Init /\ [][Next]_vars
=============================================================================
