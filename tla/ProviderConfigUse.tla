-------------------------- MODULE ProviderConfigUse --------------------------
(***************************************************************************)
(* Provider configurations and the Releases that are deployed through      *)
(* them.  Connect reads the configuration a Release refers to, records the *)
(* use in a ProviderConfigUsage of its own, and only then makes a client   *)
(* with the credentials it read; a controller of crossplane-runtime lets a *)
(* deleted configuration go when it sees no usage of it.  Both read from   *)
(* informers that lag behind, and nothing orders one after the other.      *)
(*                                                                         *)
(* Each of the two controllers starts when the kinds it works with are     *)
(* established, in either order, and with it the process that runs both    *)
(* may be restarted.  ProviderConfigs of either scope and                  *)
(* ClusterProviderConfigs are treated alike, and so are the namespaced and *)
(* the cluster-scoped Release.                                             *)
(***************************************************************************)
EXTENDS Integers

CONSTANTS Releases, Configs, None,
          MaxEdits,  \* bound: edits of references
          MaxFaults  \* bound: reconciles and setups that fail, restarts

ASSUME NoneAssumption == None \notin Configs
ASSUME BoundsAssumption == MaxEdits \in Nat /\ MaxFaults \in Nat

VARIABLES
    setup,       \* of the controllers: how far each of them is
    config,      \* the configurations in the API server
    seenConfig,  \* the informer's copies of them
    usage,       \* the configuration a Release's ProviderConfigUsage names
    seenUsage,   \* the informer's copy of it
    release,     \* whether a Release is live, deleted or gone
    ref,         \* its providerConfigRef
    pc,          \* where its reconcile is
    using,       \* the configuration whose credentials the reconcile has
    deployed,    \* whether it was deployed, and holds a finalizer since
    edits, faults,
    care         \* observation: how long the user waited, see below

stored == <<config, seenConfig>>
uses   == <<usage, seenUsage>>
work   == <<pc, using>>
vars   == <<setup, stored, uses, release, ref, work, deployed, edits, faults, care>>

Controllers == {"config", "release"}

(* A controller is waiting until its kinds are established, and the gate is *)
(* then open for it.                                                        *)
Stages == {"waiting", "open", "running", "failed"}

ConfigType == [deleted: BOOLEAN, held: BOOLEAN, gone: BOOLEAN]

(* The state is well typed; only a deleted configuration is gone, and        *)
(* credentials are held by a reconcile and never between two of them.       *)
TypeOK ==
    /\ setup \in [Controllers -> Stages]
    /\ config \in [Configs -> ConfigType] /\ seenConfig \in [Configs -> ConfigType]
    /\ usage \in [Releases -> Configs \cup {None}]
    /\ seenUsage \in [Releases -> Configs \cup {None}]
    /\ release \in [Releases -> {"live", "deleted", "gone"}]
    /\ ref \in [Releases -> Configs]
    /\ pc \in [Releases -> {"idle", "resolved", "connected"}]
    /\ using \in [Releases -> Configs \cup {None}]
    /\ deployed \in [Releases -> BOOLEAN]
    /\ edits \in Nat /\ faults \in Nat
    /\ care \in [Releases -> {"none", "fresh", "served", "covered"}]
    /\ \A c \in Configs : config[c].gone => config[c].deleted
    /\ \A r \in Releases : pc[r] = "idle" <=> using[r] = None

Created == [deleted |-> FALSE, held |-> FALSE, gone |-> FALSE]

Init ==
    /\ setup = [k \in Controllers |-> "waiting"]
    /\ config = [c \in Configs |-> Created] /\ seenConfig = config
    /\ usage = [r \in Releases |-> None] /\ seenUsage = usage
    /\ release = [r \in Releases |-> "live"] /\ ref \in [Releases -> Configs]
    /\ pc = [r \in Releases |-> "idle"] /\ using = [r \in Releases |-> None]
    /\ deployed = [r \in Releases |-> FALSE]
    /\ edits = 0 /\ faults = 0 /\ care = [r \in Releases |-> "none"]

Goto(r, label) == pc' = [pc EXCEPT ![r] = label]

(* Connect reads before it records, so a configuration can be let go under  *)
(* the reconcile that just read it.  A user avoids that who waits for the   *)
(* informer to have seen the usage when a reconcile starts (fresh), for it  *)
(* to deploy through the configuration (served) and for the informer again  *)
(* (covered) before the configuration is deleted.                           *)
Waited(r, label) == care' = [care EXCEPT ![r] = label]
-----------------------------------------------------------------------------
(* The process. *)
Others == <<stored, uses, release, ref, deployed, edits, care>>

Establish(k) ==
    /\ setup[k] = "waiting" /\ setup' = [setup EXCEPT ![k] = "open"]
    /\ UNCHANGED <<Others, work, faults>>

(* With the right to watch CRDs, each controller starts by itself. *)
SetupGated(k) ==
    /\ setup[k] = "open" /\ setup' = [setup EXCEPT ![k] = "running"]
    /\ UNCHANGED <<Others, work, faults>>

(* Without it both start at once, or the process exits and is restarted     *)
(* until all kinds are there.                                               *)
Setup ==
    /\ \A k \in Controllers : setup[k] = "open"
    /\ setup' = [k \in Controllers |-> "running"]
    /\ UNCHANGED <<Others, work, faults>>

(* Behind the gate an error is only logged, and setup is not tried again.   *)
SetupFails(k) ==
    /\ setup[k] = "open" /\ faults < MaxFaults /\ faults' = faults + 1
    /\ setup' = [setup EXCEPT ![k] = "failed"]
    /\ UNCHANGED <<Others, work>>

(* What the informers list anew need not be newer than what they had. *)
Restart ==
    /\ \E k \in Controllers : setup[k] \in {"running", "failed"}
    /\ faults < MaxFaults /\ faults' = faults + 1
    /\ setup' = [k \in Controllers |-> IF setup[k] = "waiting" THEN "waiting" ELSE "open"]
    /\ pc' = [r \in Releases |-> "idle"] /\ using' = [r \in Releases |-> None]
    /\ UNCHANGED Others
-----------------------------------------------------------------------------
(* The users, who can make and change nothing before its kind is there.     *)

(* Only what is held by a finalizer outlives its deletion. *)
DeleteConfig(c) ==
    /\ setup["config"] # "waiting" /\ ~config[c].deleted
    /\ config' = [config EXCEPT ![c].deleted = TRUE, ![c].gone = ~config[c].held]
    /\ care' = [r \in Releases |->
                   IF ref[r] = c /\ care[r] # "covered" THEN "none" ELSE care[r]]
    /\ UNCHANGED <<setup, seenConfig, uses, release, ref, work, deployed, edits, faults>>

(* A Release gets its finalizer when it is first deployed. *)
DeleteRelease(r) ==
    /\ setup["release"] # "waiting" /\ release[r] = "live"
    /\ release' = [release EXCEPT ![r] = IF deployed[r] THEN "deleted" ELSE "gone"]
    /\ UNCHANGED <<setup, stored, uses, ref, work, deployed, edits, faults, care>>

EditRef(r) ==
    /\ setup["release"] # "waiting" /\ release[r] # "gone" /\ edits < MaxEdits /\ edits' = edits + 1
    /\ \E c \in Configs \ {ref[r]} : ref' = [ref EXCEPT ![r] = c]
    /\ Waited(r, "none")
    /\ UNCHANGED <<setup, stored, uses, release, work, deployed, faults>>
-----------------------------------------------------------------------------
(* The informers, and the garbage collector: a usage is owned by its Release. *)
SyncConfig(c) ==
    /\ seenConfig' = [seenConfig EXCEPT ![c] = config[c]]
    /\ UNCHANGED <<setup, config, uses, release, ref, work, deployed, edits, faults, care>>

SyncUsage(r) ==
    /\ seenUsage' = [seenUsage EXCEPT ![r] = usage[r]]
    /\ Waited(r, IF care[r] = "served" THEN "covered" ELSE care[r])
    /\ UNCHANGED <<setup, stored, usage, release, ref, work, deployed, edits, faults>>

Collect(r) ==
    /\ release[r] = "gone" /\ usage' = [usage EXCEPT ![r] = None]
    /\ UNCHANGED <<setup, stored, seenUsage, release, ref, work, deployed, edits, faults, care>>
-----------------------------------------------------------------------------
(* The controller of configurations. *)
HoldConfig(c) ==
    /\ ~seenConfig[c].deleted /\ ~seenConfig[c].held /\ seenConfig[c] = config[c]
    /\ config' = [config EXCEPT ![c].held = TRUE]
    /\ UNCHANGED <<setup, seenConfig, uses, release, ref, work, deployed, edits, faults, care>>

LetGo(c) ==
    /\ seenConfig[c].deleted /\ ~seenConfig[c].gone /\ seenConfig[c] = config[c]
    /\ \A r \in Releases : seenUsage[r] # c
    /\ config' = [config EXCEPT ![c].gone = TRUE]
    /\ UNCHANGED <<setup, seenConfig, uses, release, ref, work, deployed, edits, faults, care>>
-----------------------------------------------------------------------------
(* A reconcile of a Release. *)

(* A deleted configuration is as good as any, as long as it is there; of a  *)
(* kind that is not established there is none.                              *)
Resolve(r) ==
    /\ pc[r] = "idle" /\ release[r] # "gone"
    /\ setup["config"] # "waiting" /\ ~seenConfig[ref[r]].gone
    /\ Goto(r, "resolved") /\ using' = [using EXCEPT ![r] = ref[r]]
    /\ Waited(r, IF care[r] \in {"served", "covered"} THEN care[r]
                 ELSE IF seenUsage[r] = usage[r] THEN "fresh" ELSE "none")
    /\ UNCHANGED <<setup, stored, uses, release, ref, deployed, edits, faults>>

(* Mutants: the use is not recorded; it is recorded once and for all. *)
Track_Never(r) ==
    /\ pc[r] = "resolved" /\ Goto(r, "connected")
    /\ UNCHANGED <<setup, stored, uses, release, ref, using, deployed, edits, faults, care>>

Track_Once(r) ==
    /\ pc[r] = "resolved" /\ Goto(r, "connected")
    /\ IF seenUsage[r] = None /\ usage[r] = None
       THEN usage' = [usage EXCEPT ![r] = using[r]] ELSE UNCHANGED usage
    /\ UNCHANGED <<setup, stored, seenUsage, release, ref, using, deployed, edits, faults, care>>

(* A usage that names the configuration already, as far as the informer     *)
(* knows, is left alone; another one is written unless it changed since.    *)
Track(r) ==
    /\ pc[r] = "resolved" /\ Goto(r, "connected")
    /\ \/ seenUsage[r] = using[r] /\ UNCHANGED usage
       \/ /\ seenUsage[r] # using[r] /\ seenUsage[r] = usage[r]
          /\ usage' = [usage EXCEPT ![r] = using[r]]
    /\ UNCHANGED <<setup, stored, seenUsage, release, ref, using, deployed, edits, faults, care>>

(* Mutant: a client outlives its reconcile. *)
Ends_KeepsClient(r) == Goto(r, "idle") /\ UNCHANGED using

Ends(r) == Goto(r, "idle") /\ using' = [using EXCEPT ![r] = None]

TrackConflicts(r) ==
    /\ pc[r] = "resolved" /\ seenUsage[r] \notin {using[r], usage[r]}
    /\ Ends(r)
    /\ UNCHANGED <<setup, stored, uses, release, ref, deployed, edits, faults, care>>

Fails(r) ==
    /\ pc[r] # "idle" /\ faults < MaxFaults /\ faults' = faults + 1
    /\ Ends(r)
    /\ UNCHANGED <<setup, stored, uses, release, ref, deployed, edits, care>>

Deploy(r) ==
    /\ pc[r] = "connected" /\ release[r] = "live"
    /\ deployed' = [deployed EXCEPT ![r] = TRUE]
    /\ Waited(r, IF care[r] = "fresh" /\ config[using[r]].held /\ ~config[using[r]].deleted
                 THEN "served" ELSE care[r])
    /\ Ends(r)
    /\ UNCHANGED <<setup, stored, uses, release, ref, edits, faults>>

(* Once Helm has uninstalled through these credentials, or holds nothing    *)
(* where they lead to, the finalizer of the Release goes.                   *)
Uninstall(r) ==
    /\ pc[r] = "connected" /\ release[r] # "live"
    /\ release' = [release EXCEPT ![r] = "gone"]
    /\ Ends(r)
    /\ UNCHANGED <<setup, stored, uses, ref, deployed, edits, faults, care>>
-----------------------------------------------------------------------------
Reconcile(r) ==
    /\ setup["release"] = "running"
    /\ Resolve(r) \/ Track(r) \/ TrackConflicts(r) \/ Deploy(r) \/ Uninstall(r)

ReconcileConfig(c) == setup["config"] = "running" /\ (HoldConfig(c) \/ LetGo(c))

Start(k) == Establish(k) \/ SetupGated(k)

Next ==
    \/ \E k \in Controllers : Start(k) \/ SetupFails(k)
    \/ Setup \/ Restart
    \/ \E c \in Configs : DeleteConfig(c) \/ SyncConfig(c) \/ ReconcileConfig(c)
    \/ \E r \in Releases :
          DeleteRelease(r) \/ EditRef(r) \/ SyncUsage(r) \/ Collect(r) \/ Reconcile(r) \/ Fails(r)

(* The kinds come with the provider, informers deliver and the garbage       *)
(* collector collects; Releases are polled and configurations                *)
(* resynchronized, whatever events there are.                                *)
Spec ==
    /\ Init /\ [][Next]_vars
    /\ \A k \in Controllers : WF_vars(Start(k))
    /\ \A c \in Configs : WF_vars(SyncConfig(c)) /\ WF_vars(ReconcileConfig(c))
    /\ \A r \in Releases :
          WF_vars(SyncUsage(r)) /\ WF_vars(Collect(r)) /\ WF_vars(Reconcile(r))
-----------------------------------------------------------------------------
(* The configuration a Release was deployed through is not let go before    *)
(* the Release, if the user waited as above: neither another reconcile nor  *)
(* a change of reference back and forth loses the record of its use.        *)
UseIsKept ==
    \A r \in Releases :
        care[r] = "covered" /\ release[r] # "gone" => ~config[ref[r]].gone

(* So a deleted Release finds the credentials to uninstall with, and goes,  *)
(* also across a restart; but not while its controller was not set up.      *)
DeletedReleasesGo ==
    \A r \in Releases :
        release[r] = "deleted" /\ care[r] = "covered"
            ~> release[r] = "gone" \/ care[r] # "covered" \/ setup["release"] = "failed"

Abandoned(c) ==
    /\ config[c].deleted
    /\ \A r \in Releases : release[r] = "gone" \/ (ref[r] # c /\ ~config[ref[r]].gone)

(* A deleted configuration that no Release refers to any more is let go,    *)
(* unless the controllers were not set up.                                  *)
SetUp == \A k \in Controllers : setup[k] # "failed"

ConfigsGo == \A c \in Configs : <>[](Abandoned(c) /\ SetUp) => <>(config[c].gone)
=============================================================================
