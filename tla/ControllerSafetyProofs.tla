----------------------- MODULE ControllerSafetyProofs -----------------------
(***************************************************************************)
(* The controller's safety properties hold in every cluster, whatever the  *)
(* components, charts, versions, tags and the number of disturbances.      *)
(*                                                                         *)
(* SnapshotInv is about one HelmChartConfig: what a pass holds is what the *)
(* API server has, unless the resource version differs.  VersionInv and    *)
(* OwnerInv relate a pass to the other HelmChartConfigs and to the         *)
(* ImagePatch it works for: the finalizer outlives the managed values, and *)
(* the marker of AutoRevert precedes the revert.  With that, the           *)
(* controller implements PatchLifecycle.                                   *)
(***************************************************************************)
EXTENDS ImagePatchControllerProofs

\* The steps of a pass that hold a HelmChartConfig.
ConfigSteps == {"clearMarker", "mark", "revert", "revertedOutcome", "images", "stalePatches",
                "validate", "window", "apply", "finalizeRevert", "removeFinalizer"}

\* An absent HelmChartConfig sets nothing.
AbsentEmpty(cfg) == ~cfg.exists => cfg = NoConfig(cfg.rv)

SnapshotInv ==
    /\ \A h \in Chart : AbsentEmpty(hcc[h])
    /\ worker.step \in ConfigSteps =>
         /\ current.rv <= hcc[chart].rv
         /\ current.rv = hcc[chart].rv => current = hcc[chart]
         /\ AbsentEmpty(current)
    /\ worker.step \in {"mark", "revert", "finalizeRevert"} => managed
    /\ At("apply") => managed \/ current.value[this] \in {None, copy.tag}

\* A write of somebody leaves a HelmChartConfig alone or gives it a new resource version.
Written(h) == /\ hcc'[h].rv = hcc[h].rv + 1
              /\ AbsentEmpty(hcc'[h])

-----------------------------------------------------------------------------
(* What a write of the controller leaves alone                             *)

LEMMA ContentWritten ==
    ASSUME TInv, this \in Component, NEW new \in HelmChartConfig,
           hcc' = [hcc EXCEPT ![chart] = [new EXCEPT !.rv = hcc[chart].rv + 1]]
    PROVE  /\ hcc'[chart].rv = hcc[chart].rv + 1
           /\ hcc'[chart].exists = new.exists /\ hcc'[chart].value = new.value
           /\ hcc'[chart].managedOn = new.managedOn /\ hcc'[chart].other = new.other
           /\ \A h \in Chart : h # chart => hcc'[h] = hcc[h]
<1>1. chart \in Chart
  BY ChartOfAssumption DEF chart
<1>2. hcc'[chart] = [new EXCEPT !.rv = hcc[chart].rv + 1]
  BY <1>1 DEF TInv, TypeOK
<1>3. \A h \in Chart : h # chart => hcc'[h] = hcc[h]
  BY <1>1 DEF TInv, TypeOK
<1> QED BY <1>2, <1>3 DEF HelmChartConfig

LEMMA MergedContent ==
    ASSUME TInv, this \in Component
    PROVE  /\ Merged.exists /\ Merged.other = current.other
           /\ Merged.value[this] = copy.tag /\ Merged.managedOn[this] = worker.clusterVersion
           /\ \A d \in Component \ {this} :
                Merged.value[d] = current.value[d] /\ Merged.managedOn[d] = current.managedOn[d]
BY DEF TInv, Pass, Worker, HelmChartConfig, Merged, current

LEMMA SubtractedContent ==
    ASSUME TInv, this \in Component
    PROVE  /\ Subtracted.exists = current.exists /\ Subtracted.other = current.other
           /\ Subtracted.value[this] = None /\ Subtracted.managedOn[this] = None
           /\ \A d \in Component \ {this} :
                /\ Subtracted.value[d] = current.value[d]
                /\ Subtracted.managedOn[d] = current.managedOn[d]
BY DEF TInv, Pass, Worker, HelmChartConfig, Subtracted, current

\* A HelmChartConfig that accepts the write has the content the pass holds.
LEMMA WriteIsCurrent ==
    ASSUME TInv, SnapshotInv, worker.step \in ConfigSteps, ApplySucceeds
    PROVE  /\ hcc[chart].value = current.value /\ hcc[chart].managedOn = current.managedOn
           /\ hcc[chart].other = current.other /\ hcc[chart].exists = current.exists
<1>1. this \in Component /\ chart \in Chart /\ current \in HelmChartConfig
  BY PassTypes DEF At, ConfigSteps
<1>2. CASE current.exists
  BY <1>2 DEF SnapshotInv, ApplySucceeds
<1>3. CASE ~current.exists
  <2>1. current = NoConfig(current.rv) /\ hcc[chart] = NoConfig(hcc[chart].rv)
    BY <1>1, <1>3 DEF SnapshotInv, AbsentEmpty, ApplySucceeds
  <2>2. \A n \in Nat, m \in Nat :
           /\ NoConfig(n).value = NoConfig(m).value /\ NoConfig(n).managedOn = NoConfig(m).managedOn
           /\ NoConfig(n).other = NoConfig(m).other /\ NoConfig(n).exists = NoConfig(m).exists
    BY DEF NoConfig
  <2>3. current.rv \in Nat /\ hcc[chart].rv \in Nat
    BY <1>1 DEF HelmChartConfig, TInv, TypeOK
  <2> HIDE DEF current
  <2> QED BY <2>1, <2>2, <2>3
<1> QED BY <1>2, <1>3

\* Who patches a component owns it: a pass that holds a managed component holds one that exists.
LEMMA ManagedExists ==
    ASSUME TInv, SnapshotInv, worker.step \in ConfigSteps, managed
    PROVE  current.exists
<1>1. this \in Component
  BY PassTypes DEF At, ConfigSteps
<1> QED BY <1>1 DEF SnapshotInv, AbsentEmpty, NoConfig, managed

\* The writes of a pass.
ControllerWrites ==
    \/ UNCHANGED hcc
    \/ /\ ApplySucceeds /\ worker.step \in {"revert", "finalizeRevert"}
       /\ hcc' = [hcc EXCEPT ![chart] = [Subtracted EXCEPT !.rv = hcc[chart].rv + 1]]
    \/ /\ ApplySucceeds /\ At("apply")
       /\ hcc' = [hcc EXCEPT ![chart] = [Merged EXCEPT !.rv = hcc[chart].rv + 1]]

LEMMA ControllerStepWrites == ASSUME TInv, ControllerStep PROVE ControllerWrites
<1>1. CASE Revert
  BY <1>1, RevertStep DEF ControllerWrites, WriteConfig, Revert, At
<1>2. CASE Apply
  BY <1>2, ApplyStep DEF ControllerWrites, WriteConfig, Apply, At
<1>3. CASE FinalizeRevert
  BY <1>3, FinalizeRevertStep DEF ControllerWrites, WriteConfig, FinalizeRevert, At
<1>4. CASE AnswerLost
  BY <1>4, AnswerLostStep DEF ControllerWrites
<1>5. CASE WorkerStep /\ ~(Revert \/ Apply \/ FinalizeRevert)
  BY <1>5 DEF WorkerStep, ControllerWrites, AddFinalizer, WriteStatus, PrimeEnabled,
     LoadCLIState, ClusterVersion, BundledImageTag, GetHelmChartConfig, ClearMarker,
     MarkReverted, RevertedOutcome, RunningImages, StalePatches, ValidateTarget, CheckWindow,
     FinalizeRead, RemoveFinalizer
<1> QED BY <1>1, <1>2, <1>3, <1>4, <1>5 DEF ControllerStep

\* What a write of the controller changes of the components.
LEMMA WriteEffect ==
    ASSUME TInv, SnapshotInv, ControllerWrites
    PROVE  /\ \A h \in Chart : hcc'[h] = hcc[h] \/ Written(h)
           /\ \A h \in Chart : /\ hcc'[h].other = hcc[h].other
                               /\ \A d \in Component \ {this} :
                                    /\ hcc'[h].value[d] = hcc[h].value[d]
                                    /\ hcc'[h].managedOn[d] = hcc[h].managedOn[d]
<1>1. CASE UNCHANGED hcc
  BY <1>1
<1>2. CASE /\ ApplySucceeds /\ worker.step \in {"revert", "finalizeRevert"}
           /\ hcc' = [hcc EXCEPT ![chart] = [Subtracted EXCEPT !.rv = hcc[chart].rv + 1]]
  <2>1. this \in Component /\ chart \in Chart
    BY <1>2, PassTypes DEF At
  <2>2. worker.step \in ConfigSteps /\ managed
    BY <1>2 DEF ConfigSteps, SnapshotInv
  <2>3. /\ hcc[chart].value = current.value /\ hcc[chart].managedOn = current.managedOn
        /\ hcc[chart].other = current.other /\ current.exists
    BY <1>2, <2>2, WriteIsCurrent, ManagedExists
  <2>4. /\ hcc'[chart].rv = hcc[chart].rv + 1
        /\ hcc'[chart].exists = Subtracted.exists /\ hcc'[chart].value = Subtracted.value
        /\ hcc'[chart].managedOn = Subtracted.managedOn /\ hcc'[chart].other = Subtracted.other
        /\ \A h \in Chart : h # chart => hcc'[h] = hcc[h]
    BY <1>2, <2>1, SubtractedType, ContentWritten
  <2>5. Written(chart)
    BY <2>1, <2>3, <2>4, SubtractedContent DEF Written, AbsentEmpty
  <2> QED BY <2>1, <2>3, <2>4, <2>5, SubtractedContent
<1>3. CASE /\ ApplySucceeds /\ At("apply")
           /\ hcc' = [hcc EXCEPT ![chart] = [Merged EXCEPT !.rv = hcc[chart].rv + 1]]
  <2>1. this \in Component /\ chart \in Chart
    BY <1>3, PassTypes DEF At
  <2>2. worker.step \in ConfigSteps
    BY <1>3 DEF ConfigSteps, At
  <2>3. /\ hcc[chart].value = current.value /\ hcc[chart].managedOn = current.managedOn
        /\ hcc[chart].other = current.other
    BY <1>3, <2>2, WriteIsCurrent
  <2>4. /\ hcc'[chart].rv = hcc[chart].rv + 1
        /\ hcc'[chart].exists = Merged.exists /\ hcc'[chart].value = Merged.value
        /\ hcc'[chart].managedOn = Merged.managedOn /\ hcc'[chart].other = Merged.other
        /\ \A h \in Chart : h # chart => hcc'[h] = hcc[h]
    BY <1>3, <2>1, MergedType, ContentWritten
  <2>5. Written(chart)
    BY <2>1, <2>4, MergedContent DEF Written, AbsentEmpty
  <2> QED BY <2>1, <2>3, <2>4, <2>5, MergedContent
<1> QED BY <1>1, <1>2, <1>3 DEF ControllerWrites

-----------------------------------------------------------------------------
(* The snapshot of a pass                                                  *)

\* The steps of everybody but the worker.
Outside ==
    \/ Follow
    \/ \E c \in Component :
         \/ \E tag \in UserTags, policy \in UserPolicies :
              CreatePatch(c, tag, policy) \/ EditPatch(c, tag, policy)
         \/ DeletePatch(c) \/ RemoveMarker(c)
         \/ \E value \in UserTags \cup {None} : EditValue(c, value)
    \/ \E h \in Chart : EditOther(h) \/ DeleteConfig(h) \/ SetPrime(h)
    \/ \E v \in Version : Upgrade(v)
    \/ \E entries \in SUBSET Component : ChangeCLIState(entries)
    \/ UNCHANGED vars

LEMMA NextCases ==
    [Next]_vars => \/ \E c \in Component : Reconcile(c)
                   \/ ControllerStep \/ CallFails \/ Crash \/ Outside
BY DEF Next, Disturbance, ControllerStep, Outside

LEMMA OutsideLeavesPass == Outside => UNCHANGED worker
<1>1. Follow => UNCHANGED worker
  BY DEF Follow, ReplaceChart, RollOut, Observe
<1>2. \A c, tag, policy : CreatePatch(c, tag, policy) \/ EditPatch(c, tag, policy) => UNCHANGED worker
  BY DEF CreatePatch, EditPatch
<1>3. \A c : DeletePatch(c) \/ RemoveMarker(c) => UNCHANGED worker
  BY DEF DeletePatch, RemoveMarker
<1>4. \A c, value : EditValue(c, value) => UNCHANGED worker
  BY DEF EditValue, EditConfig
<1>5. \A h : EditOther(h) \/ DeleteConfig(h) \/ SetPrime(h) => UNCHANGED worker
  BY DEF EditOther, EditConfig, DeleteConfig, SetPrime
<1>6. \A v : Upgrade(v) \/ ChangeCLIState(v) => UNCHANGED worker
  BY DEF Upgrade, ChangeCLIState
<1> QED BY <1>1, <1>2, <1>3, <1>4, <1>5, <1>6 DEF Outside, vars

LEMMA EditWrites ==
    ASSUME TInv, NEW h \in Chart, NEW new \in HelmChartConfig, EditConfig(h, new)
    PROVE  /\ Written(h) /\ \A g \in Chart : g # h => hcc'[g] = hcc[g]
           /\ hcc'[h].managedOn = new.managedOn
<1>1. hcc'[h] = [new EXCEPT !.exists = TRUE, !.rv = hcc[h].rv + 1]
  BY DEF EditConfig, TInv, TypeOK
<1>2. hcc'[h].rv = hcc[h].rv + 1 /\ hcc'[h].exists /\ hcc'[h].managedOn = new.managedOn
  BY <1>1 DEF HelmChartConfig
<1> QED BY <1>2 DEF Written, AbsentEmpty, EditConfig, TInv, TypeOK

\* Everybody else who writes a HelmChartConfig leaves the annotations or removes them all.
LEMMA OutsideWrites ==
    ASSUME TInv, Outside
    PROVE  /\ \A h \in Chart : hcc'[h] = hcc[h] \/ Written(h)
           /\ \A h \in Chart, d \in Component :
                hcc'[h].managedOn[d] \in {None, hcc[h].managedOn[d]}
<1>1. ASSUME NEW c \in Component, NEW value \in UserTags \cup {None}, EditValue(c, value)
      PROVE  /\ \A h \in Chart : hcc'[h] = hcc[h] \/ Written(h)
             /\ \A h \in Chart : hcc'[h].managedOn = hcc[h].managedOn
  <2> DEFINE h == ChartOf[c]
             cfg == hcc[h]
             new == [cfg EXCEPT !.value[c] = value]
  <2>1. h \in Chart /\ cfg \in HelmChartConfig
    BY ChartOfAssumption DEF TInv, TypeOK
  <2> HIDE DEF cfg
  <2>2. new \in HelmChartConfig /\ new.managedOn = cfg.managedOn
    BY <2>1, UserAssumption DEF HelmChartConfig
  <2>3. EditConfig(h, new)
    BY <1>1 DEF EditValue, cfg
  <2> HIDE DEF new
  <2> QED BY <2>1, <2>2, <2>3, EditWrites DEF cfg
<1>2. ASSUME NEW g \in Chart, EditOther(g)
      PROVE  /\ \A h \in Chart : hcc'[h] = hcc[h] \/ Written(h)
             /\ \A h \in Chart : hcc'[h].managedOn = hcc[h].managedOn
  <2> DEFINE cfg == hcc[g]
             n == cfg.other + 1
             new == [cfg EXCEPT !.other = n]
  <2>1. cfg \in HelmChartConfig /\ n \in Nat
    BY DEF TInv, TypeOK, HelmChartConfig
  <2>2. EditConfig(g, new)
    BY <1>2 DEF EditOther
  <2> HIDE DEF cfg, n
  <2>3. new \in HelmChartConfig /\ new.managedOn = cfg.managedOn
    BY <2>1 DEF HelmChartConfig
  <2> HIDE DEF new
  <2> QED BY <2>2, <2>3, EditWrites DEF cfg
<1>3. ASSUME NEW g \in Chart, DeleteConfig(g)
      PROVE  /\ \A h \in Chart : hcc'[h] = hcc[h] \/ Written(h)
             /\ \A h \in Chart, d \in Component :
                  hcc'[h].managedOn[d] \in {None, hcc[h].managedOn[d]}
  <2>1. /\ hcc'[g] = NoConfig(hcc[g].rv + 1)
        /\ \A h \in Chart : h # g => hcc'[h] = hcc[h]
    BY <1>3 DEF DeleteConfig, TInv, TypeOK
  <2>2. Written(g) /\ \A d \in Component : hcc'[g].managedOn[d] = None
    BY <2>1 DEF NoConfig, Written, AbsentEmpty
  <2> QED BY <2>1, <2>2
<1>4. CASE UNCHANGED hcc
  BY <1>4
<1>5. \/ UNCHANGED hcc
      \/ \E c \in Component, value \in UserTags \cup {None} : EditValue(c, value)
      \/ \E g \in Chart : EditOther(g) \/ DeleteConfig(g)
  <2>1. Follow => UNCHANGED hcc
    BY DEF Follow, ReplaceChart, RollOut, Observe
  <2>2. \A c, tag, policy : CreatePatch(c, tag, policy) \/ EditPatch(c, tag, policy) => UNCHANGED hcc
    BY DEF CreatePatch, EditPatch
  <2>3. \A c : DeletePatch(c) \/ RemoveMarker(c) => UNCHANGED hcc
    BY DEF DeletePatch, RemoveMarker
  <2>4. \A h : SetPrime(h) \/ Upgrade(h) \/ ChangeCLIState(h) => UNCHANGED hcc
    BY DEF SetPrime, Upgrade, ChangeCLIState
  <2> QED BY <2>1, <2>2, <2>3, <2>4 DEF Outside, vars
<1> QED BY <1>1, <1>2, <1>3, <1>4, <1>5

LEMMA ConfigsWritten ==
    ASSUME TInv, SnapshotInv, [Next]_vars
    PROVE  \A h \in Chart : hcc'[h] = hcc[h] \/ Written(h)
BY NextCases, ControllerStepWrites, WriteEffect, OutsideWrites
DEF Reconcile, CallFails, Crash

\* A pass holds on to the HelmChartConfig it has read, or has just read it.
LEMMA PassHoldsConfig ==
    ASSUME TInv, [Next]_vars
    PROVE  \/ worker'.step \notin ConfigSteps
           \/ worker.step \in ConfigSteps /\ UNCHANGED <<worker.component, worker.current>>
           \/ /\ ~At("idle") /\ UNCHANGED <<hcc, worker.component>>
              /\ worker'.current = hcc[chart]
<1>1. CASE Leaves
  BY <1>1 DEF Leaves, ConfigSteps
<1>2. CASE \E c \in Component : Reconcile(c)
  BY <1>2, ReconcileStep DEF Leaves, ConfigSteps
<1>3. CASE CallFails \/ Crash \/ AnswerLost
  BY <1>1, <1>3, CallFailsStep, CrashStep, AnswerLostStep
<1>4. CASE Outside
  BY <1>4, OutsideLeavesPass
<1>5. CASE WorkerStep
  <2>1. CASE AddFinalizer \/ WriteStatus
    BY <1>1, <2>1, AddFinalizerStep, DoneLeaves DEF WriteStatus, ConfigSteps
  <2>2. CASE PrimeEnabled \/ LoadCLIState \/ BundledImageTag \/ ValidateTarget \/ CheckWindow
             \/ RevertedOutcome
    BY <1>1, <2>2, ReadStep DEF Holds, Continues, ConfigSteps, At
  <2>3. CASE ClusterVersion
    BY <2>3, ClusterVersionStep DEF ConfigSteps
  <2>4. CASE GetHelmChartConfig
    BY <1>1, <2>4, GetHelmChartConfigStep DEF Continues, GetHelmChartConfig, At
  <2>5. CASE ClearMarker
    BY <1>1, <2>5, ClearMarkerStep DEF ClearMarker, At, ConfigSteps, this, current
  <2>6. CASE MarkReverted
    BY <1>1, <2>6, MarkRevertedStep DEF MarkReverted, At, ConfigSteps, this, current
  <2>7. CASE Revert
    BY <1>1, <2>7, RevertStep DEF Revert, At, ConfigSteps, Holds, Continues
  <2>8. CASE RunningImages
    BY <1>1, <2>8, RunningImagesStep DEF RunningImages, At, ConfigSteps, Holds, Continues
  <2>9. CASE StalePatches
    BY <1>1, <2>9, StalePatchesStep DEF StalePatches, At, ConfigSteps, Holds, Continues
  <2>10. CASE Apply
    BY <1>1, <2>10, ApplyStep
  <2>11. CASE FinalizeRead
    BY <2>11, FinalizeStep DEF FinalizeRead, At, Continues
  <2>12. CASE FinalizeRevert
    BY <1>1, <2>12, FinalizeRevertStep DEF FinalizeRevert, At, ConfigSteps, Holds, Continues
  <2>13. CASE RemoveFinalizer
    BY <1>1, <2>13, DoneLeaves DEF RemoveFinalizer
  <2> QED BY <1>5, <2>1, <2>2, <2>3, <2>4, <2>5, <2>6, <2>7, <2>8, <2>9, <2>10, <2>11, <2>12,
             <2>13 DEF WorkerStep
<1> QED BY <1>2, <1>3, <1>4, <1>5, NextCases DEF ControllerStep

\* A pass reverts what is managed, and applies what is managed or not set by somebody else.
LEMMA PassHoldsManaged ==
    ASSUME TInv, SnapshotInv, [Next]_vars
    PROVE  /\ worker'.step \in {"mark", "revert", "finalizeRevert"} => managed'
           /\ At("apply")' => managed' \/ current'.value[this'] \in {None, copy'.tag}
<1> USE DEF managed, this, current, copy, At
<1>1. CASE Leaves
  BY <1>1 DEF Leaves
<1>2. CASE \E c \in Component : Reconcile(c)
  BY <1>1, <1>2, ReconcileStep
<1>3. CASE CallFails \/ Crash \/ AnswerLost
  BY <1>1, <1>3, CallFailsStep, CrashStep, AnswerLostStep
<1>4. CASE Outside
  BY <1>4, OutsideLeavesPass DEF SnapshotInv
<1>5. CASE WorkerStep
  <2>1. CASE AddFinalizer \/ WriteStatus
    BY <1>1, <2>1, AddFinalizerStep, DoneLeaves DEF WriteStatus
  <2>2. CASE PrimeEnabled \/ LoadCLIState \/ BundledImageTag \/ ValidateTarget \/ CheckWindow
             \/ RevertedOutcome
    BY <1>1, <2>2, ReadStep DEF Holds, Continues, SameObject
  <2>3. CASE ClusterVersion
    BY <2>3, ClusterVersionStep
  <2>4. CASE GetHelmChartConfig
    BY <1>1, <2>4, GetHelmChartConfigStep DEF Continues
  <2>5. CASE ClearMarker
    BY <1>1, <2>5, ClearMarkerStep
  <2>6. CASE MarkReverted
    BY <1>1, <2>6, MarkRevertedStep DEF MarkReverted, SnapshotInv
  <2>7. CASE Revert
    BY <1>1, <2>7, RevertStep
  <2>8. CASE RunningImages
    BY <1>1, <2>8, RunningImagesStep DEF Holds, Continues
  <2>9. CASE StalePatches
    BY <1>1, <2>9, StalePatchesStep
  <2>10. CASE Apply
    BY <1>1, <2>10, ApplyStep
  <2>11. CASE FinalizeRead
    BY <2>11, FinalizeStep DEF Continues
  <2>12. CASE FinalizeRevert
    BY <1>1, <2>12, FinalizeRevertStep
  <2>13. CASE RemoveFinalizer
    BY <1>1, <2>13, DoneLeaves DEF RemoveFinalizer
  <2> QED BY <1>5, <2>1, <2>2, <2>3, <2>4, <2>5, <2>6, <2>7, <2>8, <2>9, <2>10, <2>11, <2>12,
             <2>13 DEF WorkerStep
<1> QED BY <1>2, <1>3, <1>4, <1>5, NextCases DEF ControllerStep

LEMMA NextSnapshot == TInv /\ SnapshotInv /\ [Next]_vars => SnapshotInv'
<1> SUFFICES ASSUME TInv, SnapshotInv, [Next]_vars PROVE SnapshotInv'
  OBVIOUS
<1>0. TInv'
  BY NextTypes
<1>1. \A h \in Chart : hcc'[h] = hcc[h] \/ Written(h)
  BY ConfigsWritten
<1>2. \A h \in Chart : AbsentEmpty(hcc'[h])
  BY <1>1 DEF Written, SnapshotInv
<1>3. ASSUME worker'.step \in ConfigSteps
      PROVE  /\ current'.rv <= hcc'[chart'].rv
             /\ current'.rv = hcc'[chart'].rv => current' = hcc'[chart']
             /\ AbsentEmpty(current')
  <2>1. CASE worker.step \in ConfigSteps /\ UNCHANGED <<worker.component, worker.current>>
    <3>1. /\ current.rv <= hcc[chart].rv
          /\ current.rv = hcc[chart].rv => current = hcc[chart]
          /\ AbsentEmpty(current)
      BY <2>1 DEF SnapshotInv
    <3>2. current' = current /\ chart' = chart
      BY <2>1 DEF current, chart, this
    <3>3. chart \in Chart /\ current \in HelmChartConfig
      BY <2>1, PassTypes DEF At, ConfigSteps
    <3>4. current.rv \in Nat /\ hcc[chart].rv \in Nat
      BY <3>3 DEF TInv, TypeOK, HelmChartConfig
    <3>5. hcc'[chart] = hcc[chart] \/ hcc'[chart].rv = hcc[chart].rv + 1
      BY <1>1, <3>3 DEF Written
    <3> QED BY <3>1, <3>2, <3>4, <3>5
  <2>2. CASE /\ ~At("idle") /\ UNCHANGED <<hcc, worker.component>>
             /\ worker'.current = hcc[chart]
    <3>1. chart \in Chart /\ chart' = chart /\ current' = hcc[chart] /\ hcc' = hcc
      BY <2>2, PassTypes DEF At, chart, this, current
    <3>2. hcc[chart].rv \in Nat
      BY <3>1 DEF TInv, TypeOK, HelmChartConfig
    <3> QED BY <3>1, <3>2 DEF SnapshotInv
  <2> QED BY <1>3, <2>1, <2>2, PassHoldsConfig
<1> QED BY <1>2, <1>3, PassHoldsManaged DEF SnapshotInv

LEMMA InitSnapshot == Init => SnapshotInv
<1> SUFFICES ASSUME Init PROVE SnapshotInv
  OBVIOUS
<1>1. worker.step = "idle"
  BY DEF Init, Idle
<1>2. \A h \in Chart : hcc[h] = NoConfig(0) /\ hcc[h].rv = 0
  BY DEF Init, NoConfig
<1> QED BY <1>1, <1>2 DEF SnapshotInv, AbsentEmpty, ConfigSteps, At

LEMMA SnapshotInvariant == Spec => [](TInv /\ SnapshotInv)
<1>1. Init => TInv /\ SnapshotInv
  BY InitTypes, InitSnapshot
<1>2. TInv /\ SnapshotInv /\ [Next]_vars => (TInv /\ SnapshotInv)'
  BY NextTypes, NextSnapshot
<1> QED BY <1>1, <1>2, PTL DEF Spec

\* The controller never undoes what others write, other components of the chart included:
\* the read-modify-write of ApplyHelmChartConfig loses no update.
THEOREM NoUpdateLost == Spec => NoLostUpdate
<1>1. TInv /\ SnapshotInv /\ [Next]_vars =>
        [ControllerStep =>
           \A h \in Chart :
              /\ hcc'[h].other = hcc[h].other
              /\ \A d \in Component \ {this} :
                   /\ hcc'[h].value[d] = hcc[h].value[d]
                   /\ hcc'[h].managedOn[d] = hcc[h].managedOn[d]]_vars
  BY ControllerStepWrites, WriteEffect
<1> QED BY <1>1, SnapshotInvariant, PTL DEF Spec, NoLostUpdate

\* Values nobody marked as managed are neither modified nor reverted.
THEOREM ForeignValuesSurvive == Spec => ForeignValuesKept
<1>1. TInv /\ SnapshotInv /\ [Next]_vars =>
        [ControllerStep =>
           \A c \in Component : ManagedOn(c) = None /\ Value(c) # None => Value(c)' = Value(c)]_vars
  <2> SUFFICES ASSUME TInv, SnapshotInv, ControllerStep,
                      NEW c \in Component, ManagedOn(c) = None, Value(c) # None
               PROVE  Value(c)' = Value(c)
    OBVIOUS
  <2>0. ChartOf[c] \in Chart
    BY ChartOfAssumption
  <2>1. ControllerWrites
    BY ControllerStepWrites
  <2>2. CASE c # this \/ UNCHANGED hcc
    BY <2>0, <2>1, <2>2, WriteEffect DEF Value
  <2>3. CASE c = this /\ ~UNCHANGED hcc
    <3>1. /\ ApplySucceeds /\ worker.step \in {"revert", "finalizeRevert", "apply"}
      BY <2>1, <2>3 DEF ControllerWrites, At
    <3>2. hcc[chart].value = current.value /\ hcc[chart].managedOn = current.managedOn
      BY <3>1, WriteIsCurrent DEF ConfigSteps
    <3>3. ~managed /\ current.value[this] # None
      BY <2>3, <3>2 DEF managed, ManagedOn, Value, chart
    <3>4. At("apply") /\ current.value[this] = copy.tag
      BY <3>1, <3>3 DEF SnapshotInv, At
    <3>5. hcc' = [hcc EXCEPT ![chart] = [Merged EXCEPT !.rv = hcc[chart].rv + 1]]
      BY <2>1, <2>3, <3>4 DEF ControllerWrites, At
    <3>6. hcc'[chart].value = Merged.value
      BY <2>3, <3>5, MergedType, ContentWritten
    <3>7. Merged.value[this] = copy.tag
      BY <2>3, MergedContent
    <3> QED BY <2>3, <3>2, <3>4, <3>6, <3>7 DEF Value, chart
  <2> QED BY <2>2, <2>3
<1> QED BY <1>1, SnapshotInvariant, PTL DEF Spec, ForeignValuesKept

-----------------------------------------------------------------------------
(* One version                                                             *)

\* d holds no patch of another version than the one the pass works for.
NotStale(d) == ManagedOn(d) \in {None, worker.clusterVersion}

\* What the pass has looked at so far stays as it is: only this pass could apply a patch.
VersionInv ==
    /\ OneVersion
    /\ At("stalePatches") => \A d \in Component \ {this} : d \in worker.unchecked \/ NotStale(d)
    /\ worker.step \in {"validate", "window", "apply"} => \A d \in Component \ {this} : NotStale(d)

\* A component becomes managed by the pass that works for it only, on the version the pass read.
LEMMA ManagedOnWritten ==
    ASSUME TInv, SnapshotInv, [Next]_vars, NEW d \in Component
    PROVE  \/ ManagedOn(d)' \in {None, ManagedOn(d)}
           \/ /\ d = this /\ At("apply") /\ ControllerStep
              /\ ManagedOn(d)' = worker.clusterVersion
<1>0. ChartOf[d] \in Chart
  BY ChartOfAssumption
<1>1. CASE ControllerStep
  <2>1. ControllerWrites
    BY <1>1, ControllerStepWrites
  <2>2. CASE d # this \/ UNCHANGED hcc
    BY <1>0, <2>1, <2>2, WriteEffect DEF ManagedOn
  <2>3. CASE /\ d = this /\ worker.step \in {"revert", "finalizeRevert"}
             /\ hcc' = [hcc EXCEPT ![chart] = [Subtracted EXCEPT !.rv = hcc[chart].rv + 1]]
    <3>1. hcc'[chart].managedOn = Subtracted.managedOn
      BY <2>3, SubtractedType, ContentWritten
    <3>2. Subtracted.managedOn[this] = None
      BY <2>3, SubtractedContent
    <3> QED BY <2>3, <3>1, <3>2 DEF ManagedOn, chart
  <2>4. CASE /\ d = this /\ At("apply")
             /\ hcc' = [hcc EXCEPT ![chart] = [Merged EXCEPT !.rv = hcc[chart].rv + 1]]
    <3>1. hcc'[chart].managedOn = Merged.managedOn
      BY <2>4, MergedType, ContentWritten
    <3>2. Merged.managedOn[this] = worker.clusterVersion
      BY <2>4, MergedContent
    <3> QED BY <1>1, <2>4, <3>1, <3>2 DEF ManagedOn, chart
  <2> QED BY <2>1, <2>2, <2>3, <2>4 DEF ControllerWrites
<1>2. CASE Outside
  BY <1>0, <1>2, OutsideWrites DEF ManagedOn
<1>3. CASE CallFails \/ Crash \/ \E c \in Component : Reconcile(c)
  BY <1>3 DEF CallFails, Crash, Reconcile, ManagedOn
<1> QED BY <1>1, <1>2, <1>3, NextCases

\* Towards the write a pass moves on only after it has looked at every other component.
LEMMA PassChecksVersions ==
    ASSUME TInv, [Next]_vars
    PROVE  \/ worker'.step \notin {"stalePatches", "validate", "window", "apply"}
           \/ worker'.step = "stalePatches" /\ worker'.unchecked = Component \ {this'}
           \/ /\ UNCHANGED <<worker.component, worker.clusterVersion>>
              /\ \/ worker' = worker
                 \/ /\ At("stalePatches") /\ worker'.step = "validate" /\ worker.unchecked = {}
                 \/ /\ At("stalePatches") /\ worker'.step = "stalePatches"
                    /\ \E d \in worker.unchecked :
                          NotStale(d) /\ worker'.unchecked = worker.unchecked \ {d}
                 \/ /\ worker.step \in {"validate", "window"}
                    /\ worker'.step \in {"window", "apply"}
<1> USE DEF At, this
<1>1. CASE Leaves
  BY <1>1 DEF Leaves
<1>2. CASE \E c \in Component : Reconcile(c)
  BY <1>1, <1>2, ReconcileStep
<1>3. CASE CallFails \/ Crash \/ AnswerLost
  BY <1>1, <1>3, CallFailsStep, CrashStep, AnswerLostStep
<1>4. CASE Outside
  BY <1>4, OutsideLeavesPass
<1>5. CASE WorkerStep
  <2>1. CASE AddFinalizer \/ WriteStatus
    BY <1>1, <2>1, AddFinalizerStep, DoneLeaves DEF WriteStatus
  <2>2. CASE PrimeEnabled \/ LoadCLIState \/ BundledImageTag \/ ValidateTarget \/ CheckWindow
             \/ RevertedOutcome
    BY <1>1, <2>2, ReadStep DEF Holds, Continues
  <2>3. CASE ClusterVersion
    BY <2>3, ClusterVersionStep
  <2>4. CASE GetHelmChartConfig
    BY <1>1, <2>4, GetHelmChartConfigStep
  <2>5. CASE ClearMarker
    BY <1>1, <2>5, ClearMarkerStep
  <2>6. CASE MarkReverted
    BY <1>1, <2>6, MarkRevertedStep
  <2>7. CASE Revert
    BY <1>1, <2>7, RevertStep
  <2>8. CASE RunningImages
    BY <1>1, <2>8, RunningImagesStep DEF Holds, Continues
  <2>9. CASE StalePatches
    BY <1>1, <2>9, StalePatchesStep DEF StalePatches, Holds, Continues, NotStale, ManagedOn
  <2>10. CASE Apply
    BY <1>1, <2>10, ApplyStep
  <2>11. CASE FinalizeRead
    BY <2>11, FinalizeStep
  <2>12. CASE FinalizeRevert
    BY <1>1, <2>12, FinalizeRevertStep
  <2>13. CASE RemoveFinalizer
    BY <1>1, <2>13, DoneLeaves DEF RemoveFinalizer
  <2> QED BY <1>5, <2>1, <2>2, <2>3, <2>4, <2>5, <2>6, <2>7, <2>8, <2>9, <2>10, <2>11, <2>12,
             <2>13 DEF WorkerStep
<1> QED BY <1>2, <1>3, <1>4, <1>5, NextCases DEF ControllerStep

LEMMA NextVersion == TInv /\ SnapshotInv /\ VersionInv /\ [Next]_vars => VersionInv'
<1> SUFFICES ASSUME TInv, SnapshotInv, VersionInv, [Next]_vars PROVE VersionInv'
  OBVIOUS
<1>1. OneVersion'
  <2>1. CASE At("apply") /\ ControllerStep
    <3>1. \A d \in Component \ {this} : ManagedOn(d)' \in {None, worker.clusterVersion}
      BY <2>1, ManagedOnWritten DEF VersionInv, NotStale, At
    <3>2. PICK t \in Component : t = this
      BY <2>1, PassTypes DEF At
    <3>3. CASE ManagedOn(t)' \in {None, worker.clusterVersion}
      <4>1. \A d \in Component : ManagedOn(d)' \in {None, worker.clusterVersion}
        BY <3>1, <3>2, <3>3
      <4> QED BY <4>1 DEF OneVersion, ManagedOn
    \* The write did not happen: every annotation is what it was, or gone.
    <3>4. CASE ManagedOn(t)' \notin {None, worker.clusterVersion}
      <4>1. \A d \in Component : ManagedOn(d)' \in {None, ManagedOn(d)}
        BY <3>2, <3>4, ManagedOnWritten
      <4> QED BY <4>1 DEF VersionInv, OneVersion, ManagedOn
    <3> QED BY <3>3, <3>4
  <2>2. CASE ~(At("apply") /\ ControllerStep)
    <3>1. \A d \in Component : ManagedOn(d)' \in {None, ManagedOn(d)}
      BY <2>2, ManagedOnWritten
    <3> QED BY <3>1 DEF VersionInv, OneVersion, ManagedOn
  <2> QED BY <2>1, <2>2
<1>2. /\ At("stalePatches")' => \A d \in Component \ {this'} : d \in worker'.unchecked \/ NotStale(d)'
      /\ worker'.step \in {"validate", "window", "apply"}
           => \A d \in Component \ {this'} : NotStale(d)'
  <2>1. CASE worker'.step \notin {"stalePatches", "validate", "window", "apply"}
    BY <2>1 DEF At
  <2>2. CASE worker'.step = "stalePatches" /\ worker'.unchecked = Component \ {this'}
    BY <2>2 DEF At
  <2>3. CASE /\ UNCHANGED <<worker.component, worker.clusterVersion>>
             /\ worker'.step \in {"stalePatches", "validate", "window", "apply"}
             /\ ~(worker'.step = "stalePatches" /\ worker'.unchecked = Component \ {this'})
    <3>1. this' = this
      BY <2>3 DEF this
    <3>2. \A d \in Component \ {this} : NotStale(d) => NotStale(d)'
      BY <2>3, ManagedOnWritten DEF NotStale
    <3>3. \/ worker' = worker
          \/ /\ At("stalePatches") /\ worker'.step = "validate" /\ worker.unchecked = {}
          \/ /\ At("stalePatches") /\ worker'.step = "stalePatches"
             /\ \E d \in worker.unchecked :
                   NotStale(d) /\ worker'.unchecked = worker.unchecked \ {d}
          \/ worker.step \in {"validate", "window"} /\ worker'.step \in {"window", "apply"}
      BY <2>3, PassChecksVersions
    <3> QED BY <3>1, <3>2, <3>3 DEF VersionInv, At
  <2> QED BY <2>1, <2>2, <2>3, PassChecksVersions
<1> QED BY <1>1, <1>2 DEF VersionInv

LEMMA InitVersion == Init => VersionInv
<1> SUFFICES ASSUME Init PROVE VersionInv
  OBVIOUS
<1>1. worker.step = "idle"
  BY DEF Init, Idle
<1>2. \A d \in Component : ManagedOn(d) = None
  BY ChartOfAssumption DEF Init, NoConfig, ManagedOn
<1> QED BY <1>1, <1>2 DEF VersionInv, OneVersion, At

\* All managed values were applied on one RKE2 version, although a pass reads the other
\* HelmChartConfigs one by one and well before it writes its own.
THEOREM OneVersionHolds == Spec => []OneVersion
<1>1. Init => TInv /\ SnapshotInv /\ VersionInv
  BY InitTypes, InitSnapshot, InitVersion
<1>2. TInv /\ SnapshotInv /\ VersionInv /\ [Next]_vars => (TInv /\ SnapshotInv /\ VersionInv)'
  BY NextTypes, NextSnapshot, NextVersion
<1>3. VersionInv => OneVersion
  BY DEF VersionInv
<1> QED BY <1>1, <1>2, <1>3, PTL DEF Spec

-----------------------------------------------------------------------------
(* A pass and the ImagePatch it works for                                  *)

PassSteps == ReadSteps \cup WriteSteps
FinalizeSteps == {"finalizeRead", "finalizeRevert", "removeFinalizer"}
CheckedSteps == {"images", "stalePatches", "validate", "window", "apply"}

\* An older state of an ImagePatch has a smaller resource version.
OlderOrSame(p, q) == p.rv <= q.rv /\ (p.rv = q.rv => SameObject(p, q))

Finalized(p) == p.exists /\ p.finalizer

\* The cache is behind the API server, but an ImagePatch it shows with a finalizer still has
\* it, unless it shows that it is being deleted.
CacheInv ==
    \A c \in Component :
        /\ OlderOrSame(cache[c], patches[c])
        /\ Finalized(cache[c]) /\ ~cache[c].deleting => Finalized(patches[c])

\* What a pass knows of its ImagePatch.
CopyInv ==
    /\ At("addFinalizer") => copy.exists /\ ~copy.deleting
    /\ worker.step \in PassSteps =>
         /\ Finalized(copy) /\ ~copy.deleting
         /\ OlderOrSame(copy, patches[this]) /\ Finalized(patches[this])
    /\ worker.step \in FinalizeSteps =>
         Finalized(copy) /\ copy.deleting /\ OlderOrSame(copy, cache[this])

\* The finalizer is removed from an unmanaged component only.
OwnerInv ==
    /\ NoOrphan
    /\ CacheInv
    /\ CopyInv
    /\ At("removeFinalizer") => ManagedOn(this) = None

\* A pass that found a patch of another version goes on to revert it only with the marker set.
MarkerInv ==
    /\ worker.step \in CheckedSteps => current.managedOn[this] \in {None, worker.clusterVersion}
    /\ At("revert") => \/ current.managedOn[this] = worker.clusterVersion
                       \/ copy.reverted = copy.generation

-----------------------------------------------------------------------------
(* Who writes an ImagePatch                                                *)

LEMMA FreshEqual ==
    ASSUME TInv, OwnerInv, worker.step \in FinalizeSteps, Fresh
    PROVE  SameObject(copy, patches[this]) /\ SameObject(copy, cache[this])
<1>1. this \in Component /\ copy \in ImagePatch
  BY PassTypes DEF At, FinalizeSteps
<1>2. cache[this] \in ImagePatch /\ patches[this] \in ImagePatch
  BY <1>1 DEF TInv, TypeOK
<1>3. copy.rv \in Nat /\ cache[this].rv \in Nat /\ patches[this].rv \in Nat
  BY <1>1, <1>2 DEF ImagePatch
<1>4. OlderOrSame(copy, cache[this]) /\ OlderOrSame(cache[this], patches[this])
  BY <1>1 DEF OwnerInv, CopyInv, CacheInv
<1>5. copy.rv = cache[this].rv /\ cache[this].rv = patches[this].rv
  BY <1>3, <1>4 DEF OlderOrSame, Fresh
<1>6. SameObject(copy, cache[this]) /\ SameObject(cache[this], patches[this])
  BY <1>4, <1>5 DEF OlderOrSame
<1> QED BY <1>6 DEF SameObject

\* Updates that keep the object.
LEMMA UpdatedKept ==
    ASSUME TInv, this \in Component, NEW new \in ImagePatch, ~new.deleting \/ new.finalizer
    PROVE  /\ Updated(new).rv = new.rv + 1
           /\ Updated(new).exists = new.exists /\ Updated(new).deleting = new.deleting
           /\ Updated(new).finalizer = new.finalizer /\ Updated(new).generation = new.generation
           /\ Updated(new).reverted = new.reverted /\ Updated(new).tag = new.tag
BY DEF Updated, ImagePatch

LEMMA AddFinalizerWrites ==
    ASSUME TInv, OwnerInv, AddFinalizer, Fresh
    PROVE  /\ patches' = [patches EXCEPT ![this] = worker'.imgPatch]
           /\ worker'.step = "prime" /\ worker'.component = this
           /\ worker'.imgPatch.rv = patches[this].rv + 1
           /\ Finalized(worker'.imgPatch) /\ ~worker'.imgPatch.deleting
<1> DEFINE new == [copy EXCEPT !.finalizer = TRUE]
<1>1. this \in Component /\ copy \in ImagePatch
  BY PassTypes DEF AddFinalizer
<1>2. new \in ImagePatch /\ new.finalizer = TRUE /\ new.exists = copy.exists
      /\ new.deleting = copy.deleting /\ new.rv = copy.rv
  BY <1>1 DEF ImagePatch
<1>3. copy.exists /\ ~copy.deleting
  BY DEF AddFinalizer, OwnerInv, CopyInv
<1>4. worker' = [worker EXCEPT !.step = "prime", !.imgPatch = Updated(new)]
      /\ patches' = [patches EXCEPT ![this] = Updated(new)]
  BY DEF AddFinalizer
<1> HIDE DEF new
<1>5. worker'.step = "prime" /\ worker'.component = this /\ worker'.imgPatch = Updated(new)
  BY <1>4 DEF TInv, Pass, Worker, this
<1>6. /\ Updated(new).rv = copy.rv + 1 /\ Updated(new).exists /\ Updated(new).finalizer
      /\ ~Updated(new).deleting
  BY <1>1, <1>2, <1>3, UpdatedKept
<1> QED BY <1>4, <1>5, <1>6 DEF Fresh, Finalized

LEMMA MarkerWrites ==
    ASSUME TInv, OwnerInv, worker.step \in PassSteps, Fresh, NEW n \in Nat,
           patches' = [patches EXCEPT ![this] = Rewritten(n)]
    PROVE  /\ patches'[this].rv = patches[this].rv + 1
           /\ Finalized(patches'[this])
           /\ \A c \in Component : c # this => patches'[c] = patches[c]
           /\ LET ip == [copy EXCEPT !.reverted = n, !.rv = @ + 1]
              IN  /\ Finalized(ip) /\ ~ip.deleting /\ ip.rv = patches'[this].rv
                  /\ SameObject(ip, patches'[this]) /\ ip.reverted = n
                  /\ ip.generation = copy.generation
<1> DEFINE new == [copy EXCEPT !.reverted = n]
<1>1. this \in Component /\ copy \in ImagePatch
  BY PassTypes DEF At, PassSteps, ReadSteps, WriteSteps
<1>2. /\ new \in ImagePatch /\ new.finalizer = copy.finalizer /\ new.exists = copy.exists
      /\ new.deleting = copy.deleting /\ new.rv = copy.rv /\ new.reverted = n
      /\ new.generation = copy.generation /\ new.tag = copy.tag
  BY <1>1 DEF ImagePatch
<1>3. Finalized(copy) /\ ~copy.deleting
  BY DEF OwnerInv, CopyInv
<1> HIDE DEF new
<1>4. /\ Updated(new).rv = copy.rv + 1 /\ Updated(new).exists = copy.exists
      /\ Updated(new).finalizer = copy.finalizer /\ Updated(new).deleting = copy.deleting
      /\ Updated(new).generation = copy.generation /\ Updated(new).reverted = n
      /\ Updated(new).tag = copy.tag
  BY <1>1, <1>2, <1>3, UpdatedKept DEF Finalized
<1>5. /\ patches'[this] = Updated(new)
      /\ \A c \in Component : c # this => patches'[c] = patches[c]
  BY <1>1 DEF TInv, TypeOK, Rewritten, new
<1> DEFINE ip == [copy EXCEPT !.reverted = n, !.rv = @ + 1]
<1>6. /\ ip.exists = copy.exists /\ ip.finalizer = copy.finalizer /\ ip.deleting = copy.deleting
      /\ ip.rv = copy.rv + 1 /\ ip.reverted = n /\ ip.generation = copy.generation
      /\ ip.tag = copy.tag
  BY <1>1 DEF ImagePatch
<1> HIDE DEF ip
<1>7. copy.rv = patches[this].rv
  BY DEF Fresh
<1>8. /\ Finalized(ip) /\ ~ip.deleting /\ ip.rv = patches'[this].rv
      /\ SameObject(ip, patches'[this]) /\ ip.reverted = n /\ ip.generation = copy.generation
  BY <1>3, <1>4, <1>5, <1>6 DEF Finalized, SameObject
<1>9. patches'[this].rv = patches[this].rv + 1 /\ Finalized(patches'[this])
  BY <1>3, <1>4, <1>5, <1>7 DEF Finalized
<1> QED BY <1>5, <1>8, <1>9 DEF ip

LEMMA RemoveFinalizerWrites ==
    ASSUME TInv, OwnerInv, RemoveFinalizer, Fresh
    PROVE  /\ patches'[this].rv = patches[this].rv + 1
           /\ \A c \in Component : c # this => patches'[c] = patches[c]
<1> DEFINE new == [copy EXCEPT !.finalizer = FALSE]
<1>1. this \in Component /\ copy \in ImagePatch
  BY PassTypes DEF RemoveFinalizer
<1>2. copy.deleting
  BY DEF OwnerInv, CopyInv, RemoveFinalizer, At, FinalizeSteps
<1>3. new \in ImagePatch /\ new.deleting /\ ~new.finalizer /\ new.rv = copy.rv
  BY <1>1, <1>2 DEF ImagePatch
<1>4. patches' = [patches EXCEPT ![this] = Updated(new)]
  BY DEF RemoveFinalizer
<1> HIDE DEF new
<1>5. Updated(new).rv = copy.rv + 1
  BY <1>3 DEF Updated, NoPatch
<1> QED BY <1>1, <1>4, <1>5 DEF Fresh, TInv, TypeOK

\* Every write of an ImagePatch increments its resource version, and only finalize takes the
\* finalizer from it.
LEMMA PatchWritten ==
    ASSUME TInv, OwnerInv, [Next]_vars, NEW c \in Component
    PROVE  /\ patches'[c] = patches[c] \/ patches'[c].rv = patches[c].rv + 1
           /\ \/ Finalized(patches[c]) => Finalized(patches'[c])
              \/ RemoveFinalizer /\ Fresh /\ c = this
<1>0. patches[c] \in ImagePatch /\ patches \in [Component -> ImagePatch]
  BY DEF TInv, TypeOK
<1>1. CASE UNCHANGED patches
  BY <1>1
<1>2. CASE AddFinalizer
  <2>1. CASE Fresh
    <3>1. /\ patches' = [patches EXCEPT ![this] = worker'.imgPatch]
          /\ worker'.imgPatch.rv = patches[this].rv + 1 /\ Finalized(worker'.imgPatch)
      BY <1>2, <2>1, AddFinalizerWrites
    <3> HIDE DEF this
    <3> QED BY <1>0, <3>1
  <2> QED BY <1>1, <1>2, <2>1 DEF AddFinalizer
<1>3. CASE WriteStatus /\ ~UNCHANGED patches
  <2>1. patches' = [patches EXCEPT ![this].status = [copy.status EXCEPT !.observedGeneration = copy.generation],
                                   ![this].rv = @ + 1]
    BY <1>3 DEF WriteStatus
  <2> DEFINE s == [copy.status EXCEPT !.observedGeneration = copy.generation]
  <2> HIDE DEF s
  <2>2. c = this => /\ patches'[c].rv = patches[c].rv + 1 /\ patches'[c].exists = patches[c].exists
                    /\ patches'[c].finalizer = patches[c].finalizer
    BY <1>0, <2>1 DEF ImagePatch, s
  <2>3. c # this => patches'[c] = patches[c]
    BY <1>0, <2>1
  <2> QED BY <2>2, <2>3 DEF Finalized
<1>4. CASE (ClearMarker \/ MarkReverted) /\ ~UNCHANGED patches
  <2>1. \E n \in Nat : Fresh /\ patches' = [patches EXCEPT ![this] = Rewritten(n)]
    BY <1>4, ClearMarkerStep, MarkRevertedStep, PassTypes DEF MarkReverted
  <2>2. worker.step \in PassSteps
    BY <1>4 DEF ClearMarker, MarkReverted, At, PassSteps, WriteSteps
  <2> QED BY <2>1, <2>2, MarkerWrites
<1>5. CASE RemoveFinalizer
  BY <1>1, <1>5, RemoveFinalizerWrites DEF RemoveFinalizer
<1>6. ASSUME NEW d \in Component, NEW tag \in UserTags, NEW policy \in UserPolicies,
             CreatePatch(d, tag, policy)
      PROVE  /\ patches'[c] = patches[c] \/ patches'[c].rv = patches[c].rv + 1
             /\ Finalized(patches[c]) => Finalized(patches'[c])
  <2>1. c # d => patches'[c] = patches[c]
    BY <1>0, <1>6 DEF CreatePatch
  <2>2. c = d => patches'[c] = NewPatch(patches[c].rv + 1, tag, policy) /\ ~patches[c].exists
    BY <1>0, <1>6 DEF CreatePatch
  <2>3. \A n \in Nat : NewPatch(n, tag, policy).rv = n
    BY DEF NewPatch, NoPatch
  <2>4. patches[c].rv + 1 \in Nat
    BY <1>0 DEF ImagePatch
  <2> QED BY <2>1, <2>2, <2>3, <2>4 DEF Finalized
<1>7. ASSUME NEW d \in Component, NEW tag \in UserTags, NEW policy \in UserPolicies,
             EditPatch(d, tag, policy)
      PROVE  /\ patches'[c] = patches[c] \/ patches'[c].rv = patches[c].rv + 1
             /\ Finalized(patches[c]) => Finalized(patches'[c])
  BY <1>0, <1>7 DEF EditPatch, ImagePatch, Finalized
<1>8. ASSUME NEW d \in Component, DeletePatch(d)
      PROVE  /\ patches'[c] = patches[c] \/ patches'[c].rv = patches[c].rv + 1
             /\ Finalized(patches[c]) => Finalized(patches'[c])
  <2>1. c # d => patches'[c] = patches[c]
    BY <1>0, <1>8 DEF DeletePatch
  <2>2. c = d => patches'[c] = Deleted(patches[c])
    BY <1>0, <1>8 DEF DeletePatch
  <2>3. \A p \in ImagePatch : /\ Deleted(p).rv = p.rv + 1
                              /\ Finalized(p) => Finalized(Deleted(p))
    BY DEF Deleted, NoPatch, ImagePatch, Finalized
  <2> QED BY <1>0, <2>1, <2>2, <2>3
<1>9. ASSUME NEW d \in Component, RemoveMarker(d)
      PROVE  /\ patches'[c] = patches[c] \/ patches'[c].rv = patches[c].rv + 1
             /\ Finalized(patches[c]) => Finalized(patches'[c])
  BY <1>0, <1>9 DEF RemoveMarker, ImagePatch, Finalized
<1>10. \/ UNCHANGED patches
       \/ AddFinalizer \/ WriteStatus \/ ClearMarker \/ MarkReverted \/ RemoveFinalizer
       \/ \E d \in Component :
            \/ \E tag \in UserTags, policy \in UserPolicies :
                 CreatePatch(d, tag, policy) \/ EditPatch(d, tag, policy)
            \/ DeletePatch(d) \/ RemoveMarker(d)
  <2>1. Follow => UNCHANGED patches
    BY DEF Follow, ReplaceChart, RollOut, Observe
  <2>2. \A d, value : EditValue(d, value) => UNCHANGED patches
    BY DEF EditValue, EditConfig
  <2>3. \A h : EditOther(h) \/ DeleteConfig(h) \/ SetPrime(h) => UNCHANGED patches
    BY DEF EditOther, EditConfig, DeleteConfig, SetPrime
  <2>4. \A v : Upgrade(v) \/ ChangeCLIState(v) => UNCHANGED patches
    BY DEF Upgrade, ChangeCLIState
  <2>5. \A d : Reconcile(d) => UNCHANGED patches
    BY DEF Reconcile
  <2>6. CallFails \/ AnswerLost \/ Crash => UNCHANGED patches
    BY DEF CallFails, AnswerLost, Crash
  <2>7. PrimeEnabled \/ LoadCLIState \/ ClusterVersion \/ BundledImageTag \/ GetHelmChartConfig
          => UNCHANGED patches
    BY DEF PrimeEnabled, LoadCLIState, ClusterVersion, BundledImageTag, GetHelmChartConfig
  <2>8. Revert \/ RevertedOutcome \/ RunningImages \/ StalePatches \/ ValidateTarget \/ CheckWindow
          \/ Apply \/ FinalizeRead \/ FinalizeRevert => UNCHANGED patches
    BY DEF Revert, RevertedOutcome, RunningImages, StalePatches, ValidateTarget, CheckWindow, Apply,
       FinalizeRead, FinalizeRevert
  <2> QED BY <2>1, <2>2, <2>3, <2>4, <2>5, <2>6, <2>7, <2>8 DEF Next, WorkerStep, Disturbance, vars
<1> QED BY <1>1, <1>2, <1>3, <1>4, <1>5, <1>6, <1>7, <1>8, <1>9, <1>10

LEMMA OlderTransitive ==
    ASSUME NEW p \in ImagePatch, NEW q \in ImagePatch, NEW r \in ImagePatch,
           OlderOrSame(p, q), OlderOrSame(q, r)
    PROVE  OlderOrSame(p, r)
BY DEF OlderOrSame, SameObject, ImagePatch

LEMMA WrittenIsNewer ==
    ASSUME TInv, OwnerInv, [Next]_vars, NEW c \in Component, NEW p \in ImagePatch,
           OlderOrSame(p, patches[c])
    PROVE  OlderOrSame(p, patches'[c])
<1>1. patches[c] \in ImagePatch
  BY DEF TInv, TypeOK
<1> QED BY <1>1, PatchWritten DEF OlderOrSame, SameObject, ImagePatch

-----------------------------------------------------------------------------
(* The pass and its copy                                                   *)

LEMMA CacheWritten ==
    ASSUME TInv, [Next]_vars, NEW c \in Component
    PROVE  \/ cache'[c] = cache[c]
           \/ cache'[c] = patches[c] /\ UNCHANGED <<patches, hcc>>
<1>1. CASE Crash
  BY <1>1 DEF Crash
<1>2. ASSUME NEW d \in Component, Observe(d)
      PROVE  cache'[c] = cache[c] \/ (cache'[c] = patches[c] /\ UNCHANGED <<patches, hcc>>)
  BY <1>2 DEF Observe, TInv, TypeOK
<1>3. \/ UNCHANGED cache \/ Crash \/ \E d \in Component : Observe(d)
  <2>1. (\E h \in Chart : ReplaceChart(h)) \/ (\E d \in Component : RollOut(d)) => UNCHANGED cache
    BY DEF ReplaceChart, RollOut
  <2>2. \A d, value : EditValue(d, value) => UNCHANGED cache
    BY DEF EditValue, EditConfig
  <2>3. \A h : EditOther(h) \/ DeleteConfig(h) \/ SetPrime(h) => UNCHANGED cache
    BY DEF EditOther, EditConfig, DeleteConfig, SetPrime
  <2>4. \A v : Upgrade(v) \/ ChangeCLIState(v) => UNCHANGED cache
    BY DEF Upgrade, ChangeCLIState
  <2>5. \A d : Reconcile(d) \/ DeletePatch(d) \/ RemoveMarker(d) => UNCHANGED cache
    BY DEF Reconcile, DeletePatch, RemoveMarker
  <2>6. \A d, tag, policy : CreatePatch(d, tag, policy) \/ EditPatch(d, tag, policy) => UNCHANGED cache
    BY DEF CreatePatch, EditPatch
  <2>7. CallFails \/ AnswerLost => UNCHANGED cache
    BY DEF CallFails, AnswerLost
  <2>8. PrimeEnabled \/ LoadCLIState \/ ClusterVersion \/ BundledImageTag \/ GetHelmChartConfig
          \/ ClearMarker \/ MarkReverted \/ AddFinalizer \/ WriteStatus \/ RemoveFinalizer
          => UNCHANGED cache
    BY DEF PrimeEnabled, LoadCLIState, ClusterVersion, BundledImageTag, GetHelmChartConfig,
       ClearMarker, MarkReverted, AddFinalizer, WriteStatus, RemoveFinalizer
  <2>9. Revert \/ RevertedOutcome \/ RunningImages \/ StalePatches \/ ValidateTarget \/ CheckWindow
          \/ Apply \/ FinalizeRead \/ FinalizeRevert => UNCHANGED cache
    BY DEF Revert, RevertedOutcome, RunningImages, StalePatches, ValidateTarget, CheckWindow, Apply,
       FinalizeRead, FinalizeRevert
  <2> QED BY <2>1, <2>2, <2>3, <2>4, <2>5, <2>6, <2>7, <2>8, <2>9
          DEF Next, Follow, WorkerStep, Disturbance, vars
<1> QED BY <1>1, <1>2, <1>3

\* Where the pass of the next state comes from.
Started(c) ==
    /\ Reconcile(c) /\ worker'.component = c /\ worker'.imgPatch = cache[c] /\ cache[c].exists
    /\ \/ cache[c].deleting /\ cache[c].finalizer /\ worker'.step = "finalizeRead"
       \/ ~cache[c].deleting /\ cache[c].finalizer /\ worker'.step = "prime"
       \/ ~cache[c].deleting /\ worker'.step = "addFinalizer"

Advanced ==
    /\ worker.step \in PassSteps /\ worker'.step \in PassSteps
    /\ Continues \/ (At("clusterVersion") /\ worker'.component = this /\ SameObject(worker'.imgPatch, copy))
    /\ UNCHANGED <<patches, cache>>

MarkerWritten ==
    /\ worker.step \in PassSteps /\ worker'.step \in PassSteps
    /\ Fresh /\ worker'.component = this /\ UNCHANGED cache
    /\ \E n \in Nat : /\ patches' = [patches EXCEPT ![this] = Rewritten(n)]
                     /\ worker'.imgPatch = [copy EXCEPT !.reverted = n, !.rv = @ + 1]

Finalizing ==
    /\ FinalizeRead \/ FinalizeRevert
    /\ worker.step \in FinalizeSteps /\ worker'.step \in {"finalizeRevert", "removeFinalizer"}
    /\ Continues /\ UNCHANGED <<patches, cache>>

LEMMA PassOrigin ==
    ASSUME TInv, [Next]_vars
    PROVE  \/ Leaves
           \/ UNCHANGED worker
           \/ \E c \in Component : Started(c)
           \/ AddFinalizer /\ Fresh
           \/ Advanced \/ MarkerWritten \/ Finalizing
<1> USE DEF At, PassSteps, ReadSteps, WriteSteps, FinalizeSteps
<1>1. CASE \E c \in Component : Reconcile(c)
  BY <1>1, ReconcileStep DEF Started
<1>2. CASE CallFails \/ Crash \/ AnswerLost
  BY <1>2, CallFailsStep, CrashStep, AnswerLostStep
<1>3. CASE Outside
  BY <1>3, OutsideLeavesPass
<1>4. CASE WorkerStep
  <2>1. CASE AddFinalizer \/ WriteStatus
    BY <2>1, AddFinalizerStep, DoneLeaves DEF WriteStatus
  <2>2. CASE PrimeEnabled \/ LoadCLIState \/ BundledImageTag \/ ValidateTarget \/ CheckWindow
             \/ RevertedOutcome
    BY <2>2, ReadStep DEF Holds, Advanced, PrimeEnabled, LoadCLIState, BundledImageTag,
       ValidateTarget, CheckWindow, RevertedOutcome
  <2>3. CASE ClusterVersion
    BY <2>3, ClusterVersionStep DEF Advanced, ClusterVersion
  <2>4. CASE GetHelmChartConfig
    BY <2>4, GetHelmChartConfigStep DEF Advanced, GetHelmChartConfig
  <2>5. CASE ClearMarker
    BY <2>5, ClearMarkerStep DEF ClearMarker, MarkerWritten
  <2>6. CASE MarkReverted
    <3>1. copy.generation \in Nat
      BY <2>6, PassTypes DEF MarkReverted
    <3> QED BY <2>6, <3>1, MarkRevertedStep DEF MarkReverted, MarkerWritten
  <2>7. CASE Revert
    BY <2>7, RevertStep DEF Holds, Advanced, Revert
  <2>8. CASE RunningImages
    BY <2>8, RunningImagesStep DEF Holds, Advanced, RunningImages
  <2>9. CASE StalePatches
    BY <2>9, StalePatchesStep DEF Holds, Advanced, StalePatches
  <2>10. CASE Apply
    BY <2>10, ApplyStep
  <2>11. CASE FinalizeRead
    BY <2>11, FinalizeStep DEF Finalizing, FinalizeRead
  <2>12. CASE FinalizeRevert
    BY <2>12, FinalizeRevertStep DEF Holds, Finalizing, FinalizeRevert
  <2>13. CASE RemoveFinalizer
    BY <2>13, DoneLeaves DEF RemoveFinalizer
  <2> QED BY <1>4, <2>1, <2>2, <2>3, <2>4, <2>5, <2>6, <2>7, <2>8, <2>9, <2>10, <2>11, <2>12,
             <2>13 DEF WorkerStep
<1> QED BY <1>1, <1>2, <1>3, <1>4, NextCases DEF ControllerStep

LEMMA NextCache == ASSUME TInv, OwnerInv, [Next]_vars PROVE CacheInv'
<1> SUFFICES ASSUME NEW c \in Component
             PROVE  /\ OlderOrSame(cache'[c], patches'[c])
                    /\ Finalized(cache'[c]) /\ ~cache'[c].deleting => Finalized(patches'[c])
  BY DEF CacheInv
<1>1. patches[c] \in ImagePatch /\ cache[c] \in ImagePatch
  BY DEF TInv, TypeOK
<1>2. CASE cache'[c] = patches[c] /\ UNCHANGED patches
  BY <1>1, <1>2 DEF OlderOrSame, SameObject, ImagePatch
<1>3. CASE cache'[c] = cache[c]
  <2>1. OlderOrSame(cache[c], patches[c])
    BY DEF OwnerInv, CacheInv
  <2>2. OlderOrSame(cache[c], patches'[c])
    BY <1>1, <2>1, WrittenIsNewer
  <2>3. ASSUME Finalized(cache[c]), ~cache[c].deleting PROVE Finalized(patches'[c])
    <3>1. Finalized(patches[c])
      BY <2>3 DEF OwnerInv, CacheInv
    <3>2. ~(RemoveFinalizer /\ Fresh /\ c = this)
      <4> SUFFICES ASSUME RemoveFinalizer, Fresh, c = this PROVE FALSE
        OBVIOUS
      <4>1. worker.step \in FinalizeSteps
        BY DEF RemoveFinalizer, At, FinalizeSteps
      <4>2. SameObject(copy, cache[c]) /\ copy.deleting
        BY <4>1, FreshEqual DEF OwnerInv, CopyInv
      <4> QED BY <2>3, <4>2 DEF SameObject
    <3> QED BY <3>1, <3>2, PatchWritten
  <2> QED BY <1>3, <2>2, <2>3
<1> QED BY <1>2, <1>3, CacheWritten

LEMMA NextCopy == ASSUME TInv, OwnerInv, [Next]_vars PROVE CopyInv'
<1> USE DEF this, copy
<1>1. CASE Leaves
  BY <1>1 DEF CopyInv, Leaves, At, PassSteps, ReadSteps, WriteSteps, FinalizeSteps
<1>2. CASE UNCHANGED worker
  <2>1. CASE At("addFinalizer")
    BY <1>2, <2>1 DEF OwnerInv, CopyInv, At, PassSteps, ReadSteps, WriteSteps, FinalizeSteps
  <2>2. CASE worker.step \in PassSteps
    <3>1. this \in Component /\ copy \in ImagePatch
      BY <2>2, PassTypes DEF At, PassSteps, ReadSteps, WriteSteps
    <3>2. /\ Finalized(copy) /\ ~copy.deleting
          /\ OlderOrSame(copy, patches[this]) /\ Finalized(patches[this])
      BY <2>2 DEF OwnerInv, CopyInv
    <3>3. OlderOrSame(copy, patches'[this])
      BY <3>1, <3>2, WrittenIsNewer
    <3>4. Finalized(patches'[this])
      BY <2>2, <3>1, <3>2, PatchWritten DEF RemoveFinalizer, At, PassSteps, ReadSteps, WriteSteps
    <3> QED BY <1>2, <2>2, <3>2, <3>3, <3>4
            DEF CopyInv, At, PassSteps, ReadSteps, WriteSteps, FinalizeSteps
  <2>3. CASE worker.step \in FinalizeSteps
    <3>1. this \in Component /\ copy \in ImagePatch
      BY <2>3, PassTypes DEF At, FinalizeSteps
    <3>2. Finalized(copy) /\ copy.deleting /\ OlderOrSame(copy, cache[this])
      BY <2>3 DEF OwnerInv, CopyInv
    <3>3. OlderOrSame(copy, patches[this])
      <4>1. OlderOrSame(cache[this], patches[this]) /\ cache[this] \in ImagePatch
            /\ patches[this] \in ImagePatch
        BY <3>1 DEF OwnerInv, CacheInv, TInv, TypeOK
      <4> QED BY <3>1, <3>2, <4>1, OlderTransitive
    <3>4. OlderOrSame(copy, cache'[this])
      BY <3>1, <3>2, <3>3, CacheWritten
    <3> QED BY <1>2, <2>3, <3>2, <3>4
            DEF CopyInv, At, PassSteps, ReadSteps, WriteSteps, FinalizeSteps
  <2>4. CASE ~At("addFinalizer") /\ worker.step \notin PassSteps /\ worker.step \notin FinalizeSteps
    BY <1>2, <2>4 DEF CopyInv, At
  <2> QED BY <2>1, <2>2, <2>3, <2>4
<1>3. ASSUME NEW c \in Component, Started(c) PROVE CopyInv'
  <2>1. /\ UNCHANGED <<patches, cache>> /\ worker'.component = c /\ worker'.imgPatch = cache[c]
        /\ cache[c].exists /\ cache[c] \in ImagePatch
    BY <1>3 DEF Started, Reconcile, TInv, TypeOK
  <2>2. OlderOrSame(cache[c], patches[c]) /\ OlderOrSame(cache[c], cache[c])
    <3>1. OlderOrSame(cache[c], patches[c])
      BY DEF OwnerInv, CacheInv
    <3>2. OlderOrSame(cache[c], cache[c])
      BY <2>1 DEF OlderOrSame, SameObject, ImagePatch
    <3> QED BY <3>1, <3>2
  <2>3. Finalized(cache[c]) /\ ~cache[c].deleting => Finalized(patches[c])
    BY DEF OwnerInv, CacheInv
  <2>4. \/ cache[c].deleting /\ cache[c].finalizer /\ worker'.step = "finalizeRead"
        \/ ~cache[c].deleting /\ cache[c].finalizer /\ worker'.step = "prime"
        \/ ~cache[c].deleting /\ worker'.step = "addFinalizer"
    BY <1>3 DEF Started
  <2> QED BY <2>1, <2>2, <2>3, <2>4
          DEF CopyInv, Finalized, At, PassSteps, ReadSteps, WriteSteps, FinalizeSteps
<1>4. CASE AddFinalizer /\ Fresh
  <2>1. this \in Component
    BY <1>4, PassTypes DEF AddFinalizer
  <2>2. /\ patches' = [patches EXCEPT ![this] = worker'.imgPatch]
        /\ worker'.step = "prime" /\ worker'.component = this
        /\ Finalized(worker'.imgPatch) /\ ~worker'.imgPatch.deleting
    BY <1>4, AddFinalizerWrites
  <2>3. patches'[this] = worker'.imgPatch
    BY <2>1, <2>2 DEF TInv, TypeOK
  <2>4. worker'.imgPatch \in ImagePatch
    BY NextTypes, <2>1, <2>3 DEF TInv, TypeOK
  <2> QED BY <2>1, <2>2, <2>3, <2>4
          DEF CopyInv, OlderOrSame, SameObject, ImagePatch, At, PassSteps, ReadSteps, WriteSteps, FinalizeSteps
<1>5. CASE Advanced
  <2>1. /\ Finalized(copy) /\ ~copy.deleting
        /\ OlderOrSame(copy, patches[this]) /\ Finalized(patches[this])
    BY <1>5 DEF OwnerInv, CopyInv, Advanced
  <2>2. worker'.component = this /\ SameObject(worker'.imgPatch, copy) /\ UNCHANGED patches
        /\ worker'.step \in PassSteps
    BY <1>5 DEF Advanced, Continues
  <2> QED BY <2>1, <2>2
          DEF CopyInv, OlderOrSame, SameObject, Finalized, At, PassSteps, ReadSteps, WriteSteps, FinalizeSteps
<1>6. CASE MarkerWritten
  <2> HIDE DEF this, copy
  <2>1. this \in Component
    BY <1>6, PassTypes DEF MarkerWritten, At, PassSteps, ReadSteps, WriteSteps
  <2>2. PICK n \in Nat : /\ patches' = [patches EXCEPT ![this] = Rewritten(n)]
                         /\ worker'.imgPatch = [copy EXCEPT !.reverted = n, !.rv = @ + 1]
    BY <1>6 DEF MarkerWritten
  <2>3. /\ Finalized(patches'[this]) /\ Finalized(worker'.imgPatch) /\ ~worker'.imgPatch.deleting
        /\ worker'.imgPatch.rv = patches'[this].rv /\ SameObject(worker'.imgPatch, patches'[this])
    <3> DEFINE ip == [copy EXCEPT !.reverted = n, !.rv = @ + 1]
    <3>1. /\ Finalized(patches'[this]) /\ Finalized(ip) /\ ~ip.deleting
          /\ ip.rv = patches'[this].rv /\ SameObject(ip, patches'[this])
      BY <1>6, <2>2, MarkerWrites DEF MarkerWritten
    <3>2. worker'.imgPatch = ip
      BY <2>2
    <3> HIDE DEF ip
    <3> QED BY <3>1, <3>2
  <2>4. patches'[this] \in ImagePatch
    BY <2>1, NextTypes DEF TInv, TypeOK
  <2>5. OlderOrSame(worker'.imgPatch, patches'[this])
    BY <2>3, <2>4 DEF OlderOrSame, ImagePatch
  <2>6. worker'.component = this /\ worker'.step \in PassSteps
    BY <1>6 DEF MarkerWritten
  <2> QED BY <2>3, <2>5, <2>6
          DEF this, copy, CopyInv, At, PassSteps, ReadSteps, WriteSteps, FinalizeSteps
<1>7. CASE Finalizing
  <2>1. Finalized(copy) /\ copy.deleting /\ OlderOrSame(copy, cache[this])
    BY <1>7 DEF OwnerInv, CopyInv, Finalizing
  <2>2. worker'.component = this /\ SameObject(worker'.imgPatch, copy) /\ UNCHANGED cache
        /\ worker'.step \in {"finalizeRevert", "removeFinalizer"}
    BY <1>7 DEF Finalizing, Continues
  <2> QED BY <2>1, <2>2
          DEF CopyInv, OlderOrSame, SameObject, Finalized, At, PassSteps, ReadSteps, WriteSteps, FinalizeSteps
<1> QED BY <1>1, <1>2, <1>3, <1>4, <1>5, <1>6, <1>7, PassOrigin

-----------------------------------------------------------------------------
(* The owner                                                               *)

LEMMA NextOrphan == ASSUME TInv, SnapshotInv, OwnerInv, [Next]_vars PROVE NoOrphan'
<1> SUFFICES ASSUME NEW c \in Component, ManagedOn(c)' # None
             PROVE  Finalized(patches'[c])
  BY DEF NoOrphan, Finalized
<1>1. CASE ManagedOn(c) # None
  <2>1. Finalized(patches[c])
    BY <1>1 DEF OwnerInv, NoOrphan, Finalized
  <2>2. ~(RemoveFinalizer /\ Fresh /\ c = this)
    BY <1>1 DEF OwnerInv, RemoveFinalizer
  <2> QED BY <2>1, <2>2, PatchWritten
<1>2. CASE ManagedOn(c) = None
  <2>1. c = this /\ At("apply") /\ ControllerStep
    BY <1>2, ManagedOnWritten
  <2>2. Finalized(patches[c])
    BY <2>1 DEF OwnerInv, CopyInv, At, PassSteps, WriteSteps
  <2>3. ~RemoveFinalizer
    BY <2>1 DEF RemoveFinalizer, At
  <2> QED BY <2>2, <2>3, PatchWritten
<1> QED BY <1>1, <1>2

\* After the revert nothing manages the component again before the finalizer is gone.
LEMMA NextRemoval ==
    ASSUME TInv, TInv', SnapshotInv, OwnerInv, [Next]_vars, At("removeFinalizer")'
    PROVE  hcc'[ChartOf[this']].managedOn[this'] = None
<1>0. PICK t \in Component : t = this'
  BY DEF TInv, TypeOK, Pass, Worker, At, this
<1> SUFFICES hcc'[ChartOf[t]].managedOn[t] = None
  BY <1>0
<1>1. CASE UNCHANGED worker
  <2>1. ManagedOn(t) = None /\ At("removeFinalizer")
    BY <1>0, <1>1 DEF OwnerInv, At, this
  <2>2. ManagedOn(t)' = None
    BY <2>1, ManagedOnWritten DEF At
  <2> QED BY <2>2 DEF ManagedOn
<1>2. CASE Finalizing
  <2>1. t = this
    BY <1>0, <1>2 DEF Finalizing, Continues, this
  <2>2. CASE FinalizeRead
    <3>1. worker'.current = hcc[chart] /\ worker'.current.managedOn[this] = None /\ UNCHANGED hcc
      BY <2>2, FinalizeStep DEF At, FinalizeRead
    <3> QED BY <2>1, <3>1 DEF chart
  <2>3. CASE FinalizeRevert
    <3>1. hcc' = [hcc EXCEPT ![chart] = [Subtracted EXCEPT !.rv = hcc[chart].rv + 1]]
      BY <2>3, FinalizeRevertStep DEF Leaves, At, WriteConfig
    <3>2. hcc'[chart].managedOn = Subtracted.managedOn /\ Subtracted.managedOn[this] = None
      BY <2>1, <3>1, SubtractedType, ContentWritten, SubtractedContent
    <3> QED BY <2>1, <3>2 DEF chart
  <2> QED BY <1>2, <2>2, <2>3 DEF Finalizing
<1>3. ~Leaves /\ ~Advanced /\ ~MarkerWritten
  BY DEF Leaves, Advanced, MarkerWritten, At, PassSteps, ReadSteps, WriteSteps
<1>4. ~(AddFinalizer /\ Fresh) /\ ~\E c \in Component : Started(c)
  BY AddFinalizerWrites DEF Started, At
<1> QED BY <1>1, <1>2, <1>3, <1>4, PassOrigin

LEMMA NextOwner == TInv /\ SnapshotInv /\ OwnerInv /\ [Next]_vars => OwnerInv'
<1> SUFFICES ASSUME TInv, SnapshotInv, OwnerInv, [Next]_vars PROVE OwnerInv'
  OBVIOUS
<1>1. TInv'
  BY NextTypes
<1>2. NoOrphan' /\ CacheInv' /\ CopyInv'
  BY NextOrphan, NextCache, NextCopy
<1>3. At("removeFinalizer")' => hcc'[ChartOf[this']].managedOn[this'] = None
  BY <1>1, NextRemoval
<1> QED BY <1>2, <1>3 DEF OwnerInv, ManagedOn

LEMMA InitOwner == Init => OwnerInv
<1> SUFFICES ASSUME Init PROVE OwnerInv
  OBVIOUS
<1>0. TInv
  BY InitTypes
<1>1. worker.step = "idle"
  BY DEF Init, Idle
<1>2. \A c \in Component : ManagedOn(c) = None
  BY ChartOfAssumption DEF Init, NoConfig, ManagedOn
<1>3. CacheInv
  BY <1>0 DEF Init, CacheInv, OlderOrSame, SameObject, TInv, TypeOK, ImagePatch
<1>4. CopyInv
  BY <1>1 DEF CopyInv, At, PassSteps, ReadSteps, WriteSteps, FinalizeSteps
<1> QED BY <1>1, <1>2, <1>3, <1>4 DEF OwnerInv, NoOrphan, At

\* Managed values always have an ImagePatch with a finalizer that will revert them, whatever
\* the cache shows and whatever crash, lost answer or conflict interrupts a pass.
THEOREM NoOrphanHolds == Spec => []NoOrphan
<1>1. Init => TInv /\ SnapshotInv /\ OwnerInv
  BY InitTypes, InitSnapshot, InitOwner
<1>2. TInv /\ SnapshotInv /\ OwnerInv /\ [Next]_vars => (TInv /\ SnapshotInv /\ OwnerInv)'
  BY NextTypes, NextSnapshot, NextOwner
<1>3. OwnerInv => NoOrphan
  BY DEF OwnerInv
<1> QED BY <1>1, <1>2, <1>3, PTL DEF Spec

-----------------------------------------------------------------------------
(* The marker                                                              *)

LEMMA NextMarker == TInv /\ SnapshotInv /\ MarkerInv /\ [Next]_vars => MarkerInv'
<1> SUFFICES ASSUME TInv, SnapshotInv, MarkerInv, [Next]_vars PROVE MarkerInv'
  OBVIOUS
<1> USE DEF At, this, copy, current, CheckedSteps, MarkerInv
<1>1. CASE Leaves
  BY <1>1 DEF Leaves
<1>2. CASE \E c \in Component : Reconcile(c)
  BY <1>1, <1>2, ReconcileStep
<1>3. CASE CallFails \/ Crash \/ AnswerLost
  BY <1>1, <1>3, CallFailsStep, CrashStep, AnswerLostStep
<1>4. CASE Outside
  BY <1>4, OutsideLeavesPass
<1>5. CASE WorkerStep
  <2>1. CASE AddFinalizer \/ WriteStatus
    BY <1>1, <2>1, AddFinalizerStep, DoneLeaves DEF WriteStatus
  <2>2. CASE PrimeEnabled \/ LoadCLIState \/ BundledImageTag \/ ValidateTarget \/ CheckWindow
             \/ RevertedOutcome
    BY <1>1, <2>2, ReadStep DEF Holds, Continues
  <2>3. CASE ClusterVersion
    BY <2>3, ClusterVersionStep
  <2>4. CASE GetHelmChartConfig
    BY <1>1, <2>4, GetHelmChartConfigStep DEF Continues, SameObject
  <2>5. CASE ClearMarker
    BY <1>1, <2>5, ClearMarkerStep
  <2>6. CASE MarkReverted
    <3>1. copy \in ImagePatch
      BY <2>6, PassTypes DEF MarkReverted
    <3>2. LET ip == [copy EXCEPT !.reverted = copy.generation, !.rv = @ + 1]
          IN  ip.reverted = ip.generation
      BY <3>1 DEF ImagePatch
    <3> QED BY <1>1, <2>6, <3>2, MarkRevertedStep
  <2>7. CASE Revert
    BY <1>1, <2>7, RevertStep
  <2>8. CASE RunningImages
    BY <1>1, <2>8, RunningImagesStep DEF RunningImages, Holds, Continues, managed
  <2>9. CASE StalePatches
    BY <1>1, <2>9, StalePatchesStep DEF StalePatches, Holds, Continues
  <2>10. CASE Apply
    BY <1>1, <2>10, ApplyStep
  <2>11. CASE FinalizeRead
    BY <2>11, FinalizeStep
  <2>12. CASE FinalizeRevert
    BY <1>1, <2>12, FinalizeRevertStep
  <2>13. CASE RemoveFinalizer
    BY <1>1, <2>13, DoneLeaves DEF RemoveFinalizer
  <2> QED BY <1>5, <2>1, <2>2, <2>3, <2>4, <2>5, <2>6, <2>7, <2>8, <2>9, <2>10, <2>11, <2>12,
             <2>13 DEF WorkerStep
<1> QED BY <1>2, <1>3, <1>4, <1>5, NextCases DEF ControllerStep

LEMMA InitMarker == Init => MarkerInv
<1> SUFFICES ASSUME Init PROVE MarkerInv
  OBVIOUS
<1>1. worker.step = "idle"
  BY DEF Init, Idle
<1> QED BY <1>1 DEF MarkerInv, CheckedSteps, At

\* AutoRevert marks the spec before it reverts it, so that an interrupted revert is finished
\* and the spec not applied again: values of another version than the pass read are stripped
\* only from a component whose ImagePatch carries the marker of its generation.
THEOREM MarkedFirst == Spec => MarkedBeforeReverted
<1>1. TInv /\ SnapshotInv /\ OwnerInv /\ MarkerInv /\ [Next]_vars =>
        [ControllerStep =>
           \A c \in Component :
              /\ ManagedOn(c) \notin {None, worker.clusterVersion}
              /\ ManagedOn(c)' = None
              /\ ~copy.deleting /\ Fresh
              => patches[c].reverted = patches[c].generation]_vars
  <2> SUFFICES ASSUME TInv, SnapshotInv, OwnerInv, MarkerInv, ControllerStep, NEW c \in Component,
                      ManagedOn(c) \notin {None, worker.clusterVersion}, ManagedOn(c)' = None,
                      ~copy.deleting, Fresh
               PROVE  patches[c].reverted = patches[c].generation
    OBVIOUS
  <2>1. ControllerWrites
    BY ControllerStepWrites
  <2>2. ChartOf[c] \in Chart
    BY ChartOfAssumption
  <2>3. c = this /\ ~UNCHANGED hcc
    BY <2>1, <2>2, WriteEffect DEF ManagedOn
  <2>4. ApplySucceeds /\ worker.step \in {"revert", "finalizeRevert", "apply"}
    BY <2>1, <2>3 DEF ControllerWrites, At
  <2>5. hcc[chart].managedOn = current.managedOn
    BY <2>4, WriteIsCurrent DEF ConfigSteps
  <2>6. current.managedOn[this] \notin {None, worker.clusterVersion}
    BY <2>3, <2>5 DEF ManagedOn, chart
  <2>7. At("revert")
    BY <2>4, <2>6 DEF MarkerInv, CheckedSteps, OwnerInv, CopyInv, FinalizeSteps, At
  <2>8. copy.reverted = copy.generation
    BY <2>6, <2>7 DEF MarkerInv
  <2>9. SameObject(copy, patches[this])
    BY <2>7 DEF Fresh, OwnerInv, CopyInv, OlderOrSame, PassSteps, WriteSteps, At
  <2> QED BY <2>3, <2>8, <2>9 DEF SameObject
<1>2. Init => TInv /\ SnapshotInv /\ OwnerInv /\ MarkerInv
  BY InitTypes, InitSnapshot, InitOwner, InitMarker
<1>3. TInv /\ SnapshotInv /\ OwnerInv /\ MarkerInv /\ [Next]_vars
        => (TInv /\ SnapshotInv /\ OwnerInv /\ MarkerInv)'
  BY NextTypes, NextSnapshot, NextOwner, NextMarker
<1> QED BY <1>1, <1>2, <1>3, PTL DEF Spec, MarkedBeforeReverted

-----------------------------------------------------------------------------
(* ImagePatchController implements PatchLifecycle: every step of a pass,   *)
(* of an informer and of the rest of the cluster claims components, strips *)
(* patches, applies one, releases one, or changes nothing of either.       *)

LifeInv == TInv /\ SnapshotInv /\ OwnerInv /\ VersionInv /\ MarkerInv

-----------------------------------------------------------------------------
(* The state seen by PatchLifecycle                                        *)

LEMMA ClaimedIff ==
    /\ claimed \subseteq Component
    /\ \A c \in Component : c \in claimed <=> Finalized(patches[c])
BY DEF claimed, Finalized

LEMMA ClaimedIffNext ==
    /\ claimed' \subseteq Component
    /\ \A c \in Component : c \in claimed' <=> Finalized(patches'[c])
BY DEF claimed, Finalized

LEMMA AppliedIs ==
    /\ appliedOn = [c \in Component |-> ManagedOn(c)]
    /\ appliedOn' = [c \in Component |-> ManagedOn(c)']
BY DEF appliedOn

\* No step writes an ImagePatch and a HelmChartConfig.
LEMMA OneObjectWritten == [Next]_vars => UNCHANGED patches \/ UNCHANGED hcc
<1>1. WorkerStep => UNCHANGED patches \/ UNCHANGED hcc
  BY DEF WorkerStep, AddFinalizer, WriteStatus, PrimeEnabled, LoadCLIState, ClusterVersion,
     BundledImageTag, GetHelmChartConfig, ClearMarker, MarkReverted, Revert, RevertedOutcome,
     RunningImages, StalePatches, ValidateTarget, CheckWindow, Apply, FinalizeRead,
     FinalizeRevert, RemoveFinalizer
<1>2. Follow \/ CallFails \/ AnswerLost \/ Crash => UNCHANGED patches \/ UNCHANGED hcc
  BY DEF Follow, ReplaceChart, RollOut, Observe, CallFails, AnswerLost, Crash
<1>3. \A c, tag, policy : CreatePatch(c, tag, policy) \/ EditPatch(c, tag, policy) => UNCHANGED hcc
  BY DEF CreatePatch, EditPatch
<1>4. \A c : DeletePatch(c) \/ RemoveMarker(c) \/ Reconcile(c) => UNCHANGED hcc
  BY DEF DeletePatch, RemoveMarker, Reconcile
<1>5. \A c, value : EditValue(c, value) => UNCHANGED patches
  BY DEF EditValue, EditConfig
<1>6. \A h : EditOther(h) \/ DeleteConfig(h) \/ SetPrime(h) \/ Upgrade(h) \/ ChangeCLIState(h)
               => UNCHANGED patches
  BY DEF EditOther, EditConfig, DeleteConfig, SetPrime, Upgrade, ChangeCLIState
<1> QED BY <1>1, <1>2, <1>3, <1>4, <1>5, <1>6 DEF Next, Disturbance, vars

-----------------------------------------------------------------------------
(* The steps                                                               *)

\* A write of an ImagePatch claims components or releases one.
LEMMA PatchStepImplements ==
    ASSUME LifeInv, [Next]_vars, UNCHANGED hcc
    PROVE  [Lifecycle!LifecycleNext]_Lifecycle!lifecycleVars
<1>1. UNCHANGED appliedOn
  BY DEF appliedOn, ManagedOn
<1>2. CASE \A c \in Component : Finalized(patches[c]) => Finalized(patches'[c])
  <2> DEFINE cs == claimed'
  <2>1. cs \in SUBSET Component /\ claimed' = claimed \cup cs
    BY <1>2, ClaimedIff, ClaimedIffNext
  <2>2. Lifecycle!Claim(cs)
    BY <1>1, <2>1 DEF Lifecycle!Claim
  <2> QED BY <2>1, <2>2 DEF Lifecycle!LifecycleNext
<1>3. CASE ~\A c \in Component : Finalized(patches[c]) => Finalized(patches'[c])
  <2>1. PICK c \in Component : Finalized(patches[c]) /\ ~Finalized(patches'[c])
    BY <1>3
  <2>2. RemoveFinalizer /\ Fresh /\ c = this
    BY <2>1, PatchWritten DEF LifeInv
  <2>3. \A d \in Component : d # c => patches'[d] = patches[d]
    BY <2>2, RemoveFinalizerWrites DEF LifeInv
  <2>4. claimed' = claimed \ {c} /\ c \in claimed
    BY <2>1, <2>3, ClaimedIff, ClaimedIffNext
  <2>5. appliedOn[c] = None
    BY <2>2, AppliedIs DEF LifeInv, OwnerInv, RemoveFinalizer
  <2>6. Lifecycle!Release(c)
    BY <1>1, <2>4, <2>5 DEF Lifecycle!Release
  <2> QED BY <2>6 DEF Lifecycle!LifecycleNext
<1> QED BY <1>2, <1>3

\* A write of a HelmChartConfig strips patches or applies the one of the pass, which has checked
\* the others and holds the finalizer.
LEMMA ConfigStepImplements ==
    ASSUME LifeInv, [Next]_vars, UNCHANGED patches
    PROVE  [Lifecycle!LifecycleNext]_Lifecycle!lifecycleVars
<1>1. UNCHANGED claimed
  BY DEF claimed
<1>2. CASE \A c \in Component : ManagedOn(c)' \in {None, ManagedOn(c)}
  <2> DEFINE cs == {c \in Component : ManagedOn(c)' = None}
  <2>1. appliedOn' = [c \in Component |-> IF c \in cs THEN None ELSE appliedOn[c]]
    BY <1>2, AppliedIs
  <2>2. Lifecycle!Strip(cs)
    BY <1>1, <2>1 DEF Lifecycle!Strip
  <2>3. cs \in SUBSET Component
    OBVIOUS
  <2> QED BY <2>2, <2>3 DEF Lifecycle!LifecycleNext
<1>3. CASE ~\A c \in Component : ManagedOn(c)' \in {None, ManagedOn(c)}
  <2>1. PICK c \in Component : ManagedOn(c)' \notin {None, ManagedOn(c)}
    BY <1>3
  <2> DEFINE v == worker.clusterVersion
  <2>2. c = this /\ At("apply") /\ ControllerStep /\ ManagedOn(c)' = v
    BY <2>1, ManagedOnWritten DEF LifeInv
  <2>3. v \in Version
    BY <2>1, <2>2 DEF LifeInv, TInv, TypeOK, Worker
  <2>4. \A d \in Component \ {c} : ManagedOn(d) \in {None, v} /\ ManagedOn(d)' = ManagedOn(d)
    <3>1. \A d \in Component \ {c} : ManagedOn(d) \in {None, v}
      BY <2>2 DEF LifeInv, VersionInv, NotStale, At
    <3>2. \A d \in Component \ {c} : ManagedOn(d)' = ManagedOn(d)
      BY <2>2, ControllerStepWrites, WriteEffect, ChartOfAssumption DEF LifeInv, ManagedOn
    <3> QED BY <3>1, <3>2
  \* The pass has found its own component on no other version.
  <2>5. ManagedOn(c) \in {None, v}
    <3>1. ApplySucceeds
      BY <2>1, <2>2, ControllerStepWrites DEF LifeInv, ControllerWrites, ManagedOn, At
    <3>2. hcc[chart].managedOn = current.managedOn
      BY <2>2, <3>1, WriteIsCurrent DEF LifeInv, ConfigSteps, At
    <3>3. current.managedOn[this] \in {None, v}
      BY <2>2 DEF LifeInv, MarkerInv, CheckedSteps, At
    <3> QED BY <2>2, <3>2, <3>3 DEF ManagedOn, chart
  \* It is applied by a pass that has the finalizer.
  <2>6. c \in claimed
    BY <2>2, ClaimedIff DEF LifeInv, OwnerInv, CopyInv, PassSteps, WriteSteps, At
  <2> HIDE DEF v
  <2>7. appliedOn' = [appliedOn EXCEPT ![c] = v]
    BY <2>2, <2>4, AppliedIs
  <2>8. \A d \in Component : appliedOn[d] \in {None, v}
    BY <2>4, <2>5, AppliedIs
  <2>9. Lifecycle!ApplyOn(c, v)
    BY <1>1, <2>6, <2>7, <2>8 DEF Lifecycle!ApplyOn
  <2> QED BY <2>3, <2>9 DEF Lifecycle!LifecycleNext
<1> QED BY <1>2, <1>3

LEMMA InitImplements == Init => Lifecycle!LifecycleInit
<1> SUFFICES ASSUME Init PROVE claimed = {} /\ appliedOn = [c \in Component |-> None]
  BY DEF Lifecycle!LifecycleInit
<1>1. \A c \in Component : ~patches[c].finalizer
  <2>1. ~NoPatch(0).finalizer
    BY DEF NoPatch
  <2>2. \A tag \in UserTags, policy \in UserPolicies : ~NewPatch(1, tag, policy).finalizer
    BY DEF NewPatch, NoPatch
  <2> QED BY <2>1, <2>2 DEF Init
<1>2. \A c \in Component : ManagedOn(c) = None
  BY ChartOfAssumption DEF Init, NoConfig, ManagedOn
<1> QED BY <1>1, <1>2 DEF claimed, appliedOn

\* What the controller does in its calls, between those of everybody else and across crashes
\* and lost answers, is what PatchLifecycle allows: a patch is applied on a claimed component,
\* while no component has one of another version, and only a component without a patch is
\* released.
THEOREM ControllerImplementsLifecycle == Spec => ImplementsLifecycle
<1>1. Init => LifeInv /\ Lifecycle!LifecycleInit
  BY InitTypes, InitSnapshot, InitOwner, InitVersion, InitMarker, InitImplements DEF LifeInv
<1>2. LifeInv /\ [Next]_vars => LifeInv'
  BY NextTypes, NextSnapshot, NextOwner, NextVersion, NextMarker DEF LifeInv
<1>3. LifeInv /\ [Next]_vars => [Lifecycle!LifecycleNext]_Lifecycle!lifecycleVars
  BY OneObjectWritten, PatchStepImplements, ConfigStepImplements
<1> QED BY <1>1, <1>2, <1>3, PTL DEF Spec, ImplementsLifecycle, Lifecycle!LifecycleSpec
=============================================================================
