----------------------- MODULE ProviderConfigUseProofs -----------------------
(***************************************************************************)
(* Theorems about the use of provider configurations, for any Releases,    *)
(* configurations and bounds.                                              *)
(***************************************************************************)
EXTENDS ProviderConfigUse, TLAPS

(* What the user's waiting has established so far: while a reconcile is     *)
(* fresh, the informer knows all of the usage it reads; once a deployment   *)
(* is over, the usage names the configuration, which is held; and once the  *)
(* informer has seen that too, its controller knows as well.                *)
Fresh(r) ==
    /\ pc[r] # "idle" => using[r] = ref[r]
    /\ pc[r] = "resolved" => seenUsage[r] = usage[r]
    /\ pc[r] = "connected" => usage[r] = ref[r]

Served(r) ==
    /\ pc[r] # "idle" => using[r] = ref[r]
    /\ usage[r] = ref[r]
    /\ config[ref[r]].held

Waiting(r) ==
    CASE care[r] = "fresh"   -> Fresh(r)
      [] care[r] = "served"  -> Served(r) /\ ~config[ref[r]].deleted
      [] care[r] = "covered" -> Served(r) /\ seenUsage[r] = ref[r] /\ ~config[ref[r]].gone
      [] OTHER -> TRUE

UseInv == TypeOK /\ \A r \in Releases : release[r] # "gone" => Waiting(r)
-----------------------------------------------------------------------------
(* No step makes the state ill-typed, lets an undeleted configuration go or *)
(* leaves credentials behind a reconcile.                                   *)
LEMMA TypeStep == TypeOK /\ [Next]_vars => TypeOK'
<1> SUFFICES ASSUME TypeOK, [Next]_vars PROVE TypeOK' OBVIOUS
<1> USE NoneAssumption, BoundsAssumption
<1>1. ASSUME NEW c \in Configs, DeleteConfig(c) PROVE TypeOK'
  <2> DEFINE new == [config[c] EXCEPT !.deleted = TRUE, !.gone = ~config[c].held]
  <2>1. config[c] \in ConfigType BY DEF TypeOK
  <2>2. new \in ConfigType BY <2>1 DEF ConfigType
  <2>3. new.gone => new.deleted BY <1>1, <2>1 DEF DeleteConfig, TypeOK, ConfigType
  <2>4. config' = [config EXCEPT ![c] = new] BY <1>1 DEF DeleteConfig
  <2> HIDE DEF new
  <2>5. /\ config' \in [Configs -> ConfigType]
         /\ \A d \in Configs : config'[d].gone => config'[d].deleted
    BY <2>2, <2>3, <2>4 DEF TypeOK
  <2> QED BY <1>1, <2>5 DEF TypeOK, DeleteConfig, uses, work, stored
<1>2. ASSUME NEW c \in Configs, SyncConfig(c) PROVE TypeOK'
  BY <1>2 DEF TypeOK, SyncConfig, stored, uses, work
<1>3. ASSUME NEW c \in Configs, HoldConfig(c) PROVE TypeOK'
  <2> DEFINE new == [config[c] EXCEPT !.held = TRUE]
  <2>1. config[c] \in ConfigType BY DEF TypeOK
  <2>2. new \in ConfigType BY <2>1 DEF ConfigType
  <2>3. new.gone => new.deleted BY <1>3, <2>1 DEF HoldConfig, TypeOK, ConfigType
  <2>4. config' = [config EXCEPT ![c] = new] BY <1>3 DEF HoldConfig
  <2> HIDE DEF new
  <2>5. /\ config' \in [Configs -> ConfigType]
         /\ \A d \in Configs : config'[d].gone => config'[d].deleted
    BY <2>2, <2>3, <2>4 DEF TypeOK
  <2> QED BY <1>3, <2>5 DEF TypeOK, HoldConfig, uses, work, stored
<1>4. ASSUME NEW c \in Configs, LetGo(c) PROVE TypeOK'
  <2> DEFINE new == [config[c] EXCEPT !.gone = TRUE]
  <2>1. config[c] \in ConfigType BY DEF TypeOK
  <2>2. new \in ConfigType BY <2>1 DEF ConfigType
  <2>3. new.gone => new.deleted BY <1>4, <2>1 DEF LetGo, TypeOK, ConfigType
  <2>4. config' = [config EXCEPT ![c] = new] BY <1>4 DEF LetGo
  <2> HIDE DEF new
  <2>5. /\ config' \in [Configs -> ConfigType]
         /\ \A d \in Configs : config'[d].gone => config'[d].deleted
    BY <2>2, <2>3, <2>4 DEF TypeOK
  <2> QED BY <1>4, <2>5 DEF TypeOK, LetGo, uses, work, stored
<1>5. ASSUME NEW r \in Releases, DeleteRelease(r) PROVE TypeOK'
  BY <1>5 DEF TypeOK, DeleteRelease, stored, uses, work
<1>6. ASSUME NEW r \in Releases, EditRef(r) PROVE TypeOK'
  BY <1>6 DEF TypeOK, EditRef, Waited, stored, uses, work
<1>7. ASSUME NEW r \in Releases, SyncUsage(r) PROVE TypeOK'
  BY <1>7 DEF TypeOK, SyncUsage, Waited, stored, uses, work
<1>8. ASSUME NEW r \in Releases, Collect(r) PROVE TypeOK'
  BY <1>8 DEF TypeOK, Collect, stored, uses, work
<1>9. ASSUME NEW r \in Releases, Resolve(r) PROVE TypeOK'
  BY <1>9 DEF TypeOK, Resolve, Waited, Goto, stored, uses, work
<1>10. ASSUME NEW r \in Releases, Track(r) PROVE TypeOK'
  BY <1>10 DEF TypeOK, Track, Goto, stored, uses, work
<1>11. ASSUME NEW r \in Releases, TrackConflicts(r) PROVE TypeOK'
  BY <1>11 DEF TypeOK, TrackConflicts, Ends, Goto, stored, uses, work
<1>12. ASSUME NEW r \in Releases, Fails(r) PROVE TypeOK'
  BY <1>12 DEF TypeOK, Fails, Ends, Goto, stored, uses, work
<1>13. ASSUME NEW r \in Releases, Deploy(r) PROVE TypeOK'
  BY <1>13 DEF TypeOK, Deploy, Ends, Goto, Waited, stored, uses, work
<1>14. ASSUME NEW r \in Releases, Uninstall(r) PROVE TypeOK'
  BY <1>14 DEF TypeOK, Uninstall, Ends, Goto, stored, uses, work
<1>15. ASSUME NEW k \in Controllers, Start(k) \/ SetupFails(k) PROVE TypeOK'
  <2> DEFINE To(stage) == setup' = [setup EXCEPT ![k] = stage]
  <2>1. To("open") \/ To("running") \/ To("failed")
    BY <1>15 DEF Start, Establish, SetupGated, SetupFails
  <2>2. setup' \in [Controllers -> Stages] BY <2>1 DEF TypeOK, Stages
  <2>3. faults' \in Nat BY <1>15 DEF TypeOK, Start, Establish, SetupGated, SetupFails
  <2> QED BY <1>15, <2>2, <2>3
    DEF TypeOK, Start, Establish, SetupGated, SetupFails, Others, stored, uses, work
<1>16. CASE Setup
  BY <1>16 DEF TypeOK, Setup, Stages, Others, stored, uses, work
<1>17. CASE Restart
  <2>1. setup' \in [Controllers -> Stages] BY <1>17 DEF Restart, Stages
  <2> QED BY <1>17, <2>1 DEF TypeOK, Restart, Others, stored, uses
<1>18. CASE UNCHANGED vars
  BY <1>18 DEF TypeOK, vars, stored, uses, work
<1> QED BY <1>1, <1>2, <1>3, <1>4, <1>5, <1>6, <1>7, <1>8, <1>9, <1>10, <1>11, <1>12, <1>13, <1>14, <1>15,
           <1>16, <1>17, <1>18
  DEF Next, Reconcile, ReconcileConfig

(* Every state is well typed: only deleted configurations are let go, and   *)
(* no reconcile leaves its credentials behind.                              *)
THEOREM TypeCorrect == Spec => []TypeOK
<1>1. Init => TypeOK
  BY NoneAssumption, BoundsAssumption DEF Init, TypeOK, Created, ConfigType, Stages
<1> QED BY <1>1, TypeStep, PTL DEF Spec
-----------------------------------------------------------------------------
(* What waiting has established is kept by every step of anyone.            *)
LEMMA UseStep == UseInv /\ [Next]_vars => UseInv'
<1> SUFFICES ASSUME UseInv, [Next]_vars PROVE UseInv' OBVIOUS
<1>1. TypeOK /\ TypeOK' BY TypeStep DEF UseInv
<1> SUFFICES ASSUME NEW s \in Releases, release'[s] # "gone" PROVE Waiting(s)'
  BY <1>1 DEF UseInv
<1> USE NoneAssumption
<1>2. ASSUME NEW c \in Configs, DeleteConfig(c) PROVE Waiting(s)'
  BY <1>1, <1>2 DEF UseInv, TypeOK, Waiting, Fresh, Served, DeleteConfig, ConfigType, stored, uses, work
<1>3. ASSUME NEW c \in Configs, SyncConfig(c) PROVE Waiting(s)'
  BY <1>1, <1>3 DEF UseInv, TypeOK, Waiting, Fresh, Served, SyncConfig, stored, uses, work
<1>4. ASSUME NEW c \in Configs, HoldConfig(c) PROVE Waiting(s)'
  BY <1>1, <1>4 DEF UseInv, TypeOK, Waiting, Fresh, Served, HoldConfig, ConfigType, stored, uses, work
<1>5. ASSUME NEW c \in Configs, LetGo(c) PROVE Waiting(s)'
  BY <1>1, <1>5 DEF UseInv, TypeOK, Waiting, Fresh, Served, LetGo, ConfigType, stored, uses, work
<1>6. ASSUME NEW r \in Releases, DeleteRelease(r) PROVE Waiting(s)'
  BY <1>1, <1>6 DEF UseInv, TypeOK, Waiting, Fresh, Served, DeleteRelease, stored, uses, work
<1>7. ASSUME NEW r \in Releases, EditRef(r) PROVE Waiting(s)'
  BY <1>1, <1>7 DEF UseInv, TypeOK, Waiting, Fresh, Served, EditRef, Waited, stored, uses, work
<1>8. ASSUME NEW r \in Releases, SyncUsage(r) PROVE Waiting(s)'
  BY <1>1, <1>8 DEF UseInv, TypeOK, Waiting, Fresh, Served, SyncUsage, Waited, stored, uses, work
<1>9. ASSUME NEW r \in Releases, Collect(r) PROVE Waiting(s)'
  BY <1>1, <1>9 DEF UseInv, TypeOK, Waiting, Fresh, Served, Collect, stored, uses, work
<1>10. ASSUME NEW r \in Releases, Resolve(r) PROVE Waiting(s)'
  BY <1>1, <1>10 DEF UseInv, TypeOK, Waiting, Fresh, Served, Resolve, Waited, Goto, stored, uses, work
<1>11. ASSUME NEW r \in Releases, Track(r) PROVE Waiting(s)'
  BY <1>1, <1>11 DEF UseInv, TypeOK, Waiting, Fresh, Served, Track, Goto, stored, uses, work
<1>12. ASSUME NEW r \in Releases, TrackConflicts(r) PROVE Waiting(s)'
  BY <1>1, <1>12 DEF UseInv, TypeOK, Waiting, Fresh, Served, TrackConflicts, Ends, Goto, stored, uses, work
<1>13. ASSUME NEW r \in Releases, Fails(r) PROVE Waiting(s)'
  BY <1>1, <1>13 DEF UseInv, TypeOK, Waiting, Fresh, Served, Fails, Ends, Goto, stored, uses, work
<1>14. ASSUME NEW r \in Releases, Deploy(r) PROVE Waiting(s)'
  BY <1>1, <1>14 DEF UseInv, TypeOK, Waiting, Fresh, Served, Deploy, Ends, Goto, Waited, stored, uses, work
<1>15. ASSUME NEW r \in Releases, Uninstall(r) PROVE Waiting(s)'
  BY <1>1, <1>15 DEF UseInv, TypeOK, Waiting, Fresh, Served, Uninstall, Ends, Goto, stored, uses, work
<1>16. ASSUME NEW k \in Controllers, Start(k) \/ SetupFails(k) PROVE Waiting(s)'
  BY <1>16 DEF UseInv, Waiting, Fresh, Served, Start, Establish, SetupGated, SetupFails,
               Others, stored, uses, work
<1>17. CASE Setup
  BY <1>17 DEF UseInv, Waiting, Fresh, Served, Setup, Others, stored, uses, work
<1>18. CASE Restart
  BY <1>18 DEF UseInv, Waiting, Fresh, Served, Restart, Others, stored, uses
<1>19. CASE UNCHANGED vars
  BY <1>19 DEF UseInv, Waiting, Fresh, Served, vars, stored, uses, work
<1> QED BY <1>2, <1>3, <1>4, <1>5, <1>6, <1>7, <1>8, <1>9, <1>10, <1>11, <1>12, <1>13, <1>14, <1>15, <1>16,
           <1>17, <1>18, <1>19
  DEF Next, Reconcile, ReconcileConfig

(* Whoever waits for the use of a configuration to be seen keeps the        *)
(* configuration for as long as the Release is there: the order in which    *)
(* Connect reads and records then does no harm.                             *)
THEOREM UsesKept == Spec => []UseIsKept
<1>1. Init => UseInv
  BY NoneAssumption, BoundsAssumption
  DEF Init, UseInv, TypeOK, Waiting, Created, ConfigType, Stages
<1>2. UseInv => UseIsKept BY DEF UseInv, Waiting, UseIsKept
<1> QED BY <1>1, <1>2, UseStep, PTL DEF Spec
=============================================================================
