--------------------- MODULE ImagePatchControllerProofs ---------------------
(***************************************************************************)
(* Theorems about ImagePatchController.                                    *)
(***************************************************************************)
EXTENDS ImagePatchController, TLAPS

-----------------------------------------------------------------------------
(* The types of the objects and of what is written into them               *)

\* A pass has a component.
Pass == {w \in Worker : w.step # "idle" => w.component \in Component}

TInv == TypeOK /\ worker \in Pass

LEMMA NoStatusType == NoStatus \in ImagePatchStatus
BY DEF NoStatus, ImagePatchStatus, Reasons, SilentReasons, ReadyReasons, Reason

LEMMA NoPatchType == ASSUME NEW rv \in Nat PROVE NoPatch(rv) \in ImagePatch
BY NoStatusType DEF NoPatch, ImagePatch, Policies

LEMMA NoConfigType == ASSUME NEW rv \in Nat PROVE NoConfig(rv) \in HelmChartConfig
BY DEF NoConfig, HelmChartConfig

LEMMA IdleType == Idle \in Pass
BY NoStatusType, NoPatchType, NoConfigType DEF Idle, Pass, Worker, AfterRevert, Steps

LEMMA NewPatchType ==
    ASSUME NEW rv \in Nat, NEW tag \in UserTags, NEW policy \in UserPolicies
    PROVE  NewPatch(rv, tag, policy) \in ImagePatch
<1> DEFINE p == NoPatch(rv)
<1>1. p \in ImagePatch
  BY NoPatchType
<1> HIDE DEF p
<1>2. [p EXCEPT !.exists = TRUE, !.uid = rv, !.generation = 1, !.tag = tag,
                !.upgradePolicy = policy] \in ImagePatch
  BY <1>1, UserAssumption DEF ImagePatch
<1> QED BY <1>2 DEF NewPatch, p

LEMMA PatchUpdates ==
    ASSUME NEW p \in ImagePatch, NEW b \in BOOLEAN, NEW n \in Nat, NEW s \in ImagePatchStatus
    PROVE  /\ [p EXCEPT !.finalizer = b] \in ImagePatch
           /\ [p EXCEPT !.reverted = n] \in ImagePatch
           /\ [p EXCEPT !.status = s] \in ImagePatch
           /\ [p EXCEPT !.rv = n] \in ImagePatch
           /\ p.rv \in Nat /\ p.generation \in Nat /\ p.reverted \in Nat
           /\ p.tag \in TagName \cup {None} /\ p.status \in ImagePatchStatus
BY DEF ImagePatch

LEMMA StatusUpdates ==
    ASSUME NEW s \in ImagePatchStatus, NEW n \in Nat, NEW v \in Version \cup {None},
           NEW t \in TagName \cup {None}, NEW r \in Reasons
    PROVE  /\ [s EXCEPT !.observedGeneration = n] \in ImagePatchStatus
           /\ [s EXCEPT !.clusterVersion = v] \in ImagePatchStatus
           /\ [s EXCEPT !.baselineTag = t] \in ImagePatchStatus
           /\ [s EXCEPT !.appliedTag = t] \in ImagePatchStatus
           /\ [s EXCEPT !.runningImage = t] \in ImagePatchStatus
           /\ [s EXCEPT !.reason = r] \in ImagePatchStatus
           /\ s.appliedTag \in TagName \cup {None}
BY DEF ImagePatchStatus

LEMMA ConfigUpdates ==
    ASSUME NEW h \in HelmChartConfig, NEW c \in Component, NEW n \in Nat,
           NEW t \in TagName \cup {None}, NEW v \in Version \cup {None}
    PROVE  /\ [h EXCEPT !.exists = TRUE] \in HelmChartConfig
           /\ [h EXCEPT !.rv = n] \in HelmChartConfig
           /\ [h EXCEPT !.other = n] \in HelmChartConfig
           /\ [h EXCEPT !.value[c] = t] \in HelmChartConfig
           /\ [h EXCEPT !.managedOn[c] = v] \in HelmChartConfig
           /\ h.rv \in Nat /\ h.other \in Nat
           /\ h.value[c] \in TagName \cup {None} /\ h.managedOn[c] \in Version \cup {None}
BY DEF HelmChartConfig

LEMMA PassUpdates ==
    ASSUME NEW w \in Pass, w.component \in Component, NEW s \in Steps, NEW p \in ImagePatch,
           NEW t \in AfterRevert
    PROVE  /\ [w EXCEPT !.step = s] \in Pass
           /\ [w EXCEPT !.imgPatch = p] \in Pass
           /\ [w EXCEPT !.then = t] \in Pass
           /\ w.imgPatch \in ImagePatch /\ w.current \in HelmChartConfig
           /\ w.clusterVersion \in Version \cup {None} /\ w.baseline \in TagName \cup {None}
           /\ w.previous \in ImagePatchStatus
BY DEF Pass, Worker

LEMMA ReturnedType ==
    ASSUME NEW w \in Pass, w.component \in Component, NEW s \in ImagePatchStatus,
           NEW reason \in Reasons
    PROVE  Returned(w, s, reason) \in Pass
<1> DEFINE st == [s EXCEPT !.reason = reason]
           p == [w.imgPatch EXCEPT !.status = st]
           i == Idle
<1>1. p \in ImagePatch
  BY PassUpdates, PatchUpdates, StatusUpdates DEF Pass, Worker
<1>2. i \in Pass
  BY IdleType
<1> HIDE DEF p, i
<1>3. [i EXCEPT !.step = "status", !.component = w.component, !.previous = w.previous,
                !.imgPatch = p] \in Pass
  BY <1>1, <1>2 DEF Pass, Worker, Steps
<1> QED BY <1>3 DEF Returned, p, i

\* The verdicts of the policy are reasons.
LEMMA VerdictTypes ==
    /\ \A b, t : ValidateAgainstBaseline(b, t) \in Reason
    /\ \A b, t, a : ValidateExplicitTarget(b, t, a) \in Reason
    /\ \A b, t : ValidateNotOlderThanCurrent(b, t) \in Reason
    /\ \A c, t, z : ValidatePatchWindow(c, t, z) \in Reason
<1>1. \A b, t : ValidateAgainstBaseline(b, t) \in Reason
  BY DEF ValidateAgainstBaseline, Reason
<1>2. \A b, t, a : ValidateExplicitTarget(b, t, a) \in Reason
  BY <1>1 DEF ValidateExplicitTarget, Reason
<1>3. \A b, t : ValidateNotOlderThanCurrent(b, t) \in Reason
  BY DEF ValidateNotOlderThanCurrent, Reason
<1>4. \A c, t, z : ValidatePatchWindow(c, t, z) \in Reason
  BY DEF ValidatePatchWindow, Reason
<1> QED BY <1>1, <1>2, <1>3, <1>4

LEMMA RolloutTypes ==
    ASSUME NEW s, NEW t, NEW r \in ReadyReasons
    PROVE  RolloutReason(s, t, r) \in Reasons
BY DEF RolloutReason, Reasons, ReadyReasons

LEMMA UpdatedType ==
    ASSUME TInv, this \in Component, NEW new \in ImagePatch
    PROVE  Updated(new) \in ImagePatch
<1> DEFINE s == patches[this].status
<1>1. new.rv + 1 \in Nat /\ s \in ImagePatchStatus
  BY PatchUpdates DEF TInv, TypeOK, ImagePatch
<1>2. NoPatch(new.rv + 1) \in ImagePatch
  BY <1>1, NoPatchType
<1> DEFINE n == new.rv + 1
<1> HIDE DEF s, n
<1>3. [new EXCEPT !.rv = n, !.status = s] \in ImagePatch
  BY <1>1 DEF ImagePatch, n
<1> QED BY <1>2, <1>3 DEF Updated, s, n

LEMMA DoneTypes ==
    ASSUME TInv, this \in Component, NEW b \in BOOLEAN, Done(b)
    PROVE  worker' \in Pass /\ queue' \in SUBSET Component
BY IdleType DEF Done, TInv, TypeOK

LEMMA UpgradeCheckType ==
    ASSUME NEW w \in Pass, this \in Component, w.component = this
    PROVE  UpgradeCheck(w) \in Pass
<1> DEFINE managedOn == w.current.managedOn[this]
           s == [w.imgPatch.status EXCEPT !.clusterVersion = managedOn]
<1>1. managedOn \in Version \cup {None}
  BY PassUpdates, ConfigUpdates DEF Pass, Worker, HelmChartConfig
<1>2. w.imgPatch.status \in ImagePatchStatus
  BY DEF Pass, Worker, ImagePatch
<1>3. s \in ImagePatchStatus
  BY <1>1, <1>2 DEF ImagePatchStatus
<1>4. Returned(w, s, "RKE2Upgraded") \in Pass
  BY <1>3, ReturnedType DEF Reasons, SilentReasons
<1>5. [w EXCEPT !.step = "images"] \in Pass /\ [w EXCEPT !.step = "mark"] \in Pass
  BY DEF Pass, Worker, Steps
<1> QED BY <1>4, <1>5 DEF UpgradeCheck

LEMMA SubtractedType ==
    ASSUME TInv, this \in Component PROVE Subtracted \in HelmChartConfig
BY DEF TInv, Pass, Worker, HelmChartConfig, Subtracted, current

LEMMA MergedType ==
    ASSUME TInv, this \in Component PROVE Merged \in HelmChartConfig
BY DEF TInv, Pass, Worker, HelmChartConfig, ImagePatch, Merged, current, copy

LEMMA WriteConfigTypes ==
    ASSUME TInv, this \in Component, NEW new \in HelmChartConfig, WriteConfig(new)
    PROVE  hcc' \in [Chart -> HelmChartConfig] /\ queue' \in SUBSET Component
<1>1. chart \in Chart
  BY ChartOfAssumption DEF chart
<1> DEFINE n == hcc[chart].rv + 1
<1>2. n \in Nat
  BY <1>1 DEF TInv, TypeOK, HelmChartConfig
<1> HIDE DEF n
<1>3. [new EXCEPT !.rv = n] \in HelmChartConfig
  BY <1>2, ConfigUpdates DEF HelmChartConfig
<1> QED BY <1>1, <1>3 DEF WriteConfig, TInv, TypeOK, all, n

\* A step that reads only leaves the types of what it does not write.
LEMMA ReadTypes ==
    ASSUME TInv, worker' \in Pass,
           UNCHANGED <<patches, cache, hcc, clusterVars, queue, disturbances>>
    PROVE  TInv'
BY DEF TInv, TypeOK, clusterVars, Pass

LEMMA ReturnTypes ==
    ASSUME TInv, this \in Component, NEW s \in ImagePatchStatus, NEW r \in Reasons, Return(s, r)
    PROVE  worker' \in Pass
BY ReturnedType DEF Return, TInv, this

LEMMA GoToTypes ==
    ASSUME TInv, this \in Component, NEW s \in Steps, GoTo(s)
    PROVE  worker' \in Pass
BY DEF GoTo, TInv, this, Pass, Worker

-----------------------------------------------------------------------------
(* Type correctness of every action                                        *)

LEMMA InitTypes == Init => TInv
<1> SUFFICES ASSUME Init PROVE TInv
  OBVIOUS
<1>1. patches \in [Component -> ImagePatch]
  <2>1. {NoPatch(0)} \cup {NewPatch(1, tag, policy) : tag \in UserTags, policy \in UserPolicies}
           \subseteq ImagePatch
    BY NoPatchType, NewPatchType
  <2> QED BY <2>1 DEF Init
<1>2. hcc \in [Chart -> HelmChartConfig]
  BY NoConfigType DEF Init
<1>3. running \in [Component -> TagName \cup {None}]
  BY BundledTagAssumption, InitialVersionAssumption DEF Init
<1>4. worker \in Pass
  BY IdleType DEF Init
<1> QED
  BY <1>1, <1>2, <1>3, <1>4, InitialVersionAssumption, MaxDisturbancesAssumption
  DEF Init, TInv, TypeOK, Pass

\* What a pass may rely on.
LEMMA PassTypes ==
    ASSUME TInv, NEW s, At(s), s # "idle"
    PROVE  /\ this \in Component /\ chart \in Chart
           /\ copy \in ImagePatch /\ copy.status \in ImagePatchStatus
           /\ copy.tag \in TagName \cup {None} /\ copy.generation \in Nat /\ copy.rv \in Nat
           /\ current \in HelmChartConfig
           /\ worker.clusterVersion \in Version \cup {None}
           /\ worker.baseline \in TagName \cup {None}
<1>1. this \in Component /\ copy \in ImagePatch /\ current \in HelmChartConfig
  BY DEF TInv, Pass, Worker, At, this, copy, current
<1>2. chart \in Chart
  BY <1>1, ChartOfAssumption DEF chart
<1> QED BY <1>1, <1>2 DEF TInv, Pass, Worker, ImagePatch

LEMMA ReconcileTypes ==
    ASSUME TInv, NEW c \in Component, Reconcile(c) PROVE TInv'
<1> DEFINE ip == cache[c]
           i == Idle
<1>1. ip \in ImagePatch /\ ip.status \in ImagePatchStatus
  BY DEF TInv, TypeOK, ImagePatch
<1>2. i \in Pass
  BY IdleType
<1> HIDE DEF ip, i
<1>3. \A first \in Steps :
        [i EXCEPT !.step = first, !.component = c, !.imgPatch = ip, !.previous = ip.status] \in Pass
  BY <1>1, <1>2 DEF Pass, Worker
<1>4. worker' \in Pass
  BY <1>2, <1>3 DEF Reconcile, Steps, i, ip
<1>5. queue' \in SUBSET Component
  BY DEF Reconcile, TInv, TypeOK
<1> QED BY <1>4, <1>5 DEF Reconcile, TInv, TypeOK, clusterVars, Pass

LEMMA AddFinalizerTypes == ASSUME TInv, AddFinalizer PROVE TInv'
<1> DEFINE new == Updated([copy EXCEPT !.finalizer = TRUE])
<1>0. this \in Component /\ copy \in ImagePatch
  BY PassTypes DEF AddFinalizer
<1>1. new \in ImagePatch
  <2>1. [copy EXCEPT !.finalizer = TRUE] \in ImagePatch
    BY <1>0 DEF ImagePatch
  <2> QED BY <2>1, <1>0, UpdatedType
<1> HIDE DEF new
<1>2. CASE Fresh
  <2>1. worker' \in Pass
    <3>1. worker' = [worker EXCEPT !.step = "prime", !.imgPatch = new]
      BY <1>2 DEF AddFinalizer, new
    <3> QED BY <3>1, <1>0, <1>1 DEF TInv, Pass, Worker, Steps, this
  <2>2. patches' \in [Component -> ImagePatch]
    <3>1. patches' = [patches EXCEPT ![this] = new]
      BY <1>2 DEF AddFinalizer, new
    <3> QED BY <3>1, <1>1 DEF TInv, TypeOK
  <2> QED BY <1>2, <2>1, <2>2 DEF AddFinalizer, TInv, TypeOK, clusterVars, Pass
<1>3. CASE ~Fresh
  <2>1. worker' \in Pass /\ queue' \in SUBSET Component
    BY <1>0, <1>3, DoneTypes DEF AddFinalizer
  <2> QED BY <1>3, <2>1 DEF AddFinalizer, TInv, TypeOK, clusterVars, Pass
<1> QED BY <1>2, <1>3

LEMMA WriteStatusTypes == ASSUME TInv, WriteStatus PROVE TInv'
<1> DEFINE status == [copy.status EXCEPT !.observedGeneration = copy.generation]
<1>0. this \in Component /\ copy \in ImagePatch
  BY PassTypes DEF WriteStatus
<1>1. status \in ImagePatchStatus
  BY <1>0 DEF ImagePatch, ImagePatchStatus
<1> HIDE DEF status
<1>2. \E b \in BOOLEAN : Done(b)
  BY DEF WriteStatus, Requeued
<1>3. worker' \in Pass /\ queue' \in SUBSET Component
  BY <1>0, <1>2, DoneTypes
<1>4. patches' \in [Component -> ImagePatch]
  <2>1. CASE UNCHANGED patches
    BY <2>1 DEF TInv, TypeOK
  <2>2. CASE patches' = [patches EXCEPT ![this].status = status, ![this].rv = @ + 1]
    <3> DEFINE p == patches[this]
               n == p.rv + 1
    <3>1. p \in ImagePatch /\ n \in Nat
      BY <1>0 DEF TInv, TypeOK, ImagePatch
    <3>2. patches' = [patches EXCEPT ![this] = [p EXCEPT !.status = status, !.rv = n]]
      BY <2>2, <1>0, <3>1 DEF TInv, TypeOK, ImagePatch
    <3> HIDE DEF n, p
    <3>3. [p EXCEPT !.status = status, !.rv = n] \in ImagePatch
      BY <3>1, <1>1 DEF ImagePatch
    <3> QED BY <3>2, <3>3 DEF TInv, TypeOK
  <2> QED BY <2>1, <2>2 DEF WriteStatus, status
<1> QED BY <1>3, <1>4 DEF WriteStatus, TInv, TypeOK, clusterVars, Pass

LEMMA PrimeEnabledTypes == ASSUME TInv, PrimeEnabled PROVE TInv'
<1>1. this \in Component /\ copy.status \in ImagePatchStatus
  BY PassTypes DEF PrimeEnabled
<1>2. worker' \in Pass
  BY <1>1, ReturnTypes, GoToTypes DEF PrimeEnabled, Reasons, Steps
<1> QED BY <1>2, ReadTypes DEF PrimeEnabled

LEMMA LoadCLIStateTypes == ASSUME TInv, LoadCLIState PROVE TInv'
<1>1. this \in Component /\ copy.status \in ImagePatchStatus
  BY PassTypes DEF LoadCLIState
<1>2. worker' \in Pass
  BY <1>1, ReturnTypes, GoToTypes DEF LoadCLIState, Reasons, Steps
<1> QED BY <1>2, ReadTypes DEF LoadCLIState

LEMMA ClusterVersionTypes == ASSUME TInv, ClusterVersion PROVE TInv'
<1>1. this \in Component
  BY PassTypes DEF ClusterVersion
<1>2. worker' \in Pass
  BY <1>1 DEF ClusterVersion, TInv, TypeOK, Pass, Worker, Steps, this
<1> QED BY <1>2, ReadTypes DEF ClusterVersion

LEMMA BundledImageTagTypes == ASSUME TInv, BundledImageTag PROVE TInv'
<1> DEFINE baseline == BundledTag[charts[chart].release][this]
           st == [copy.status EXCEPT !.baselineTag = baseline]
           ip == [copy EXCEPT !.status = st]
<1>1. this \in Component /\ chart \in Chart /\ copy \in ImagePatch /\ copy.status \in ImagePatchStatus
  BY PassTypes DEF BundledImageTag
<1>2. baseline \in TagName \cup {None}
  BY <1>1, BundledTagAssumption DEF TInv, TypeOK
<1> HIDE DEF baseline
<1>3. st \in ImagePatchStatus
  BY <1>1, <1>2 DEF ImagePatchStatus
<1> HIDE DEF st
<1>4. ip \in ImagePatch
  BY <1>1, <1>3 DEF ImagePatch
<1>5. CASE baseline = None
  <2>1. worker' \in Pass
    BY <1>1, <1>5, ReturnTypes DEF BundledImageTag, baseline, Reasons, SilentReasons
  <2> QED BY <2>1, ReadTypes DEF BundledImageTag
<1>6. CASE baseline # None
  <2>1. worker' = [worker EXCEPT !.step = "helmChartConfig", !.baseline = baseline, !.imgPatch = ip]
    BY <1>6 DEF BundledImageTag, baseline, ip, st, copy, TInv, Pass, Worker
  <2> HIDE DEF ip
  <2>2. worker' \in Pass
    BY <2>1, <1>1, <1>2, <1>4 DEF TInv, Pass, Worker, Steps, this
  <2> QED BY <2>2, ReadTypes DEF BundledImageTag
<1> QED BY <1>5, <1>6

LEMMA GetHelmChartConfigTypes == ASSUME TInv, GetHelmChartConfig PROVE TInv'
<1> DEFINE w == [worker EXCEPT !.current = hcc[chart]]
<1>1. this \in Component /\ chart \in Chart
  BY PassTypes DEF GetHelmChartConfig
<1>2. w \in Pass /\ w.component = this
  BY <1>1 DEF TInv, TypeOK, Pass, Worker, this
<1> HIDE DEF w
<1>3. UpgradeCheck(w) \in Pass
  BY <1>1, <1>2, UpgradeCheckType
<1>4. /\ [w EXCEPT !.step = "clearMarker"] \in Pass
      /\ [w EXCEPT !.step = "revert", !.then = "revertedOutcome"] \in Pass
      /\ [w EXCEPT !.step = "revertedOutcome"] \in Pass
  BY <1>1, <1>2 DEF Pass, Worker, Steps, AfterRevert
<1>5. worker' \in Pass
  BY <1>3, <1>4 DEF GetHelmChartConfig, w
<1> QED BY <1>5, ReadTypes DEF GetHelmChartConfig

LEMMA MarkedTypes ==
    ASSUME TInv, this \in Component, NEW n \in Nat
    PROVE  Marked(n) \in Pass /\ Marked(n).component = this
<1> DEFINE m == copy.rv + 1
           ip == [copy EXCEPT !.reverted = n, !.rv = m]
<1>1. copy \in ImagePatch
  BY DEF copy, TInv, Pass, Worker
<1>2. m \in Nat
  BY <1>1 DEF ImagePatch
<1>3. Marked(n) = [worker EXCEPT !.imgPatch = ip]
  BY <1>1 DEF Marked, copy, TInv, Pass, Worker, ImagePatch
<1> HIDE DEF m
<1>4. ip \in ImagePatch
  BY <1>1, <1>2 DEF ImagePatch
<1> QED BY <1>3, <1>4 DEF TInv, Pass, Worker, this, ip

LEMMA SetRevertedGenerationTypes ==
    ASSUME TInv, this \in Component, NEW n \in Nat, NEW next \in Pass,
           SetRevertedGeneration(n, next),
           UNCHANGED <<cache, hcc, clusterVars, queue, disturbances>>
    PROVE  TInv'
<1>1. copy \in ImagePatch /\ copy.status \in ImagePatchStatus
  BY DEF copy, TInv, Pass, Worker, ImagePatch
<1>2. [copy EXCEPT !.reverted = n] \in ImagePatch
  BY <1>1 DEF ImagePatch
<1>3. Updated([copy EXCEPT !.reverted = n]) \in ImagePatch
  BY <1>2, UpdatedType
<1>4. patches' \in [Component -> ImagePatch]
  BY <1>3 DEF SetRevertedGeneration, TInv, TypeOK
<1>5. worker' \in Pass
  BY <1>1, ReturnTypes DEF SetRevertedGeneration, Reasons
<1> QED BY <1>4, <1>5 DEF TInv, TypeOK, clusterVars, Pass

LEMMA ClearMarkerTypes == ASSUME TInv, ClearMarker PROVE TInv'
<1>1. this \in Component
  BY PassTypes DEF ClearMarker
<1>2. UpgradeCheck(Marked(0)) \in Pass
  BY <1>1, MarkedTypes, UpgradeCheckType
<1> QED BY <1>1, <1>2, SetRevertedGenerationTypes DEF ClearMarker

LEMMA MarkRevertedTypes == ASSUME TInv, MarkReverted PROVE TInv'
<1> DEFINE m == Marked(copy.generation)
<1>1. this \in Component /\ copy.generation \in Nat
  BY PassTypes DEF MarkReverted
<1>2. m \in Pass /\ m.component = this
  BY <1>1, MarkedTypes
<1> HIDE DEF m
<1>3. [m EXCEPT !.step = "revert", !.then = "revertedOutcome"] \in Pass
  BY <1>1, <1>2 DEF Pass, Worker, Steps, AfterRevert
<1> QED BY <1>1, <1>3, SetRevertedGenerationTypes DEF MarkReverted, m

LEMMA UnpatchedType == ASSUME copy.status \in ImagePatchStatus PROVE Unpatched \in ImagePatchStatus
BY DEF Unpatched, ImagePatchStatus

LEMMA RevertTypes == ASSUME TInv, Revert PROVE TInv'
<1>1. this \in Component /\ copy.status \in ImagePatchStatus
  BY PassTypes DEF Revert
<1>2. Unpatched \in ImagePatchStatus /\ worker.then \in AfterRevert
  BY <1>1, UnpatchedType DEF TInv, Pass, Worker
<1>3. CASE ApplySucceeds
  <2>1. hcc' \in [Chart -> HelmChartConfig] /\ queue' \in SUBSET Component
    BY <1>1, <1>3, SubtractedType, WriteConfigTypes DEF Revert
  <2>2. AfterReverted(worker.then)
    BY <1>3 DEF Revert
  <2>3. worker' \in Pass
    <3>1. CASE worker.then = "revertedOutcome"
      BY <3>1, <2>2, <1>1, GoToTypes DEF AfterReverted, Steps
    <3>2. CASE worker.then = "AtBaseline"
      <4>1. RolloutReason(copy.status, worker.baseline, "AtBaseline") \in Reasons
        BY RolloutTypes DEF ReadyReasons
      <4> QED BY <3>2, <4>1, <2>2, <1>1, <1>2, ReturnTypes DEF AfterReverted
    <3>3. CASE worker.then \notin {"revertedOutcome", "AtBaseline"}
      <4>1. worker.then \in Reasons
        BY <3>3, <1>2 DEF AfterRevert, Reasons, Reason
      <4> QED BY <3>3, <4>1, <2>2, <1>1, <1>2, ReturnTypes DEF AfterReverted
    <3> QED BY <3>1, <3>2, <3>3
  <2> QED BY <1>3, <2>1, <2>3 DEF Revert, TInv, TypeOK, clusterVars, Pass
<1>4. CASE ~ApplySucceeds
  <2>1. worker' \in Pass
    BY <1>1, <1>4, ReturnTypes DEF Revert, Reasons
  <2> QED BY <1>4, <2>1, ReadTypes DEF Revert
<1> QED BY <1>3, <1>4

LEMMA RevertedOutcomeTypes == ASSUME TInv, RevertedOutcome PROVE TInv'
<1> DEFINE s == [Unpatched EXCEPT !.runningImage = running[this]]
<1>1. this \in Component /\ copy.status \in ImagePatchStatus
  BY PassTypes DEF RevertedOutcome
<1>2. running[this] \in TagName \cup {None}
  BY <1>1 DEF TInv, TypeOK
<1>3. s \in ImagePatchStatus
  BY <1>1, <1>2, UnpatchedType DEF ImagePatchStatus
<1>4. worker' \in Pass
  BY <1>1, <1>3, ReturnTypes DEF RevertedOutcome, Reasons, SilentReasons
<1> QED BY <1>4, ReadTypes DEF RevertedOutcome

LEMMA RunningImagesTypes == ASSUME TInv, RunningImages PROVE TInv'
<1> DEFINE status == [copy.status EXCEPT !.runningImage = running[this]]
           ip == [copy EXCEPT !.status = status]
           revertTo(then) == [worker EXCEPT !.step = "revert", !.then = then, !.imgPatch = ip]
           unpatched == [status EXCEPT !.appliedTag = None, !.clusterVersion = None]
           patched == [status EXCEPT !.appliedTag = copy.tag,
                                     !.clusterVersion = current.managedOn[this]]
           next == [worker EXCEPT !.step = "stalePatches", !.imgPatch = ip,
                                  !.unchecked = Component \ {this}]
<1>1. /\ this \in Component /\ copy \in ImagePatch /\ copy.status \in ImagePatchStatus
      /\ copy.tag \in TagName \cup {None} /\ current \in HelmChartConfig
  BY PassTypes DEF RunningImages
<1>2. running[this] \in TagName \cup {None}
  BY <1>1 DEF TInv, TypeOK
<1>3. status \in ImagePatchStatus
  BY <1>1, <1>2 DEF ImagePatchStatus
<1>4. worker.imgPatch = copy
  BY DEF copy
<1>5. \/ worker' = revertTo("AtBaseline")
      \/ worker' = revertTo(Recheck) /\ Recheck # "OK"
      \/ Return(unpatched, RolloutReason(status, worker.baseline, "AtBaseline"))
      \/ Return(patched, RolloutReason(status, copy.tag, "Patched"))
      \/ worker' = next
  BY <1>4 DEF RunningImages, TInv, Pass, Worker
<1> HIDE DEF status
<1>6. ip \in ImagePatch
  BY <1>1, <1>3 DEF ImagePatch
<1>7. unpatched \in ImagePatchStatus
  BY <1>3 DEF ImagePatchStatus
<1>8. patched \in ImagePatchStatus
  <2> DEFINE m == current.managedOn[this]
             t == copy.tag
  <2>1. m \in Version \cup {None} /\ t \in TagName \cup {None}
    BY <1>1 DEF HelmChartConfig
  <2> HIDE DEF m, t
  <2>2. [status EXCEPT !.appliedTag = t, !.clusterVersion = m] \in ImagePatchStatus
    BY <1>3, <2>1 DEF ImagePatchStatus
  <2> QED BY <2>2 DEF m, t
<1>9. /\ RolloutReason(status, worker.baseline, "AtBaseline") \in Reasons
      /\ RolloutReason(status, copy.tag, "Patched") \in Reasons
  BY RolloutTypes DEF ReadyReasons
<1> HIDE DEF ip, unpatched, patched
<1>10. \A then \in AfterRevert : revertTo(then) \in Pass
  BY <1>1, <1>6 DEF TInv, Pass, Worker, Steps, this
<1>11. next \in Pass
  BY <1>1, <1>6 DEF TInv, Pass, Worker, Steps, this
<1>12. "AtBaseline" \in AfterRevert /\ (Recheck # "OK" => Recheck \in AfterRevert)
  BY VerdictTypes DEF AfterRevert, Recheck
<1>13. worker' \in Pass
  <2>1. CASE worker' \in {revertTo(then) : then \in AfterRevert}
    BY <2>1, <1>10
  <2>2. CASE Return(unpatched, RolloutReason(status, worker.baseline, "AtBaseline"))
    BY <2>2, <1>1, <1>7, <1>9, ReturnTypes
  <2>3. CASE Return(patched, RolloutReason(status, copy.tag, "Patched"))
    BY <2>3, <1>1, <1>8, <1>9, ReturnTypes
  <2> HIDE DEF next, revertTo
  <2> QED BY <2>1, <2>2, <2>3, <1>5, <1>11, <1>12
<1> QED BY <1>13, ReadTypes DEF RunningImages

LEMMA StalePatchesTypes == ASSUME TInv, StalePatches PROVE TInv'
<1>1. this \in Component /\ copy.status \in ImagePatchStatus
  BY PassTypes DEF StalePatches
<1>2. \A d : [worker EXCEPT !.unchecked = worker.unchecked \ {d}] \in Pass
  BY DEF TInv, Pass, Worker
<1>3. worker' \in Pass
  BY <1>1, <1>2, ReturnTypes, GoToTypes DEF StalePatches, Reasons, Steps
<1> QED BY <1>3, ReadTypes DEF StalePatches

LEMMA ValidateTargetTypes == ASSUME TInv, ValidateTarget PROVE TInv'
<1>1. this \in Component /\ copy.status \in ImagePatchStatus
  BY PassTypes DEF ValidateTarget
<1>2. \A r \in Reason : r # "OK" => r \in Reasons
  BY DEF Reasons
<1>3. \/ \E r \in Reason : r # "OK" /\ Return(copy.status, r)
      \/ GoTo("window")
  BY VerdictTypes DEF ValidateTarget, Reason
<1>4. worker' \in Pass
  BY <1>1, <1>2, <1>3, ReturnTypes, GoToTypes DEF Steps
<1> QED BY <1>4, ReadTypes DEF ValidateTarget

LEMMA CheckWindowTypes == ASSUME TInv, CheckWindow PROVE TInv'
<1>1. this \in Component /\ copy.status \in ImagePatchStatus
  BY PassTypes DEF CheckWindow
<1>2. \A r \in Reason : r # "OK" => r \in Reasons
  BY DEF Reasons
<1>3. \/ \E r \in Reason : r # "OK" /\ Return(copy.status, r)
      \/ Return(copy.status, "ConflictingOverride")
      \/ GoTo("apply")
  BY VerdictTypes DEF CheckWindow
<1>4. worker' \in Pass
  BY <1>1, <1>2, <1>3, ReturnTypes, GoToTypes DEF Steps, Reasons, SilentReasons
<1> QED BY <1>4, ReadTypes DEF CheckWindow

LEMMA ApplyTypes == ASSUME TInv, Apply PROVE TInv'
<1> DEFINE t == copy.tag
           v == worker.clusterVersion
           st == copy.status
           s == [st EXCEPT !.appliedTag = t, !.clusterVersion = v]
<1>1. /\ this \in Component /\ st \in ImagePatchStatus
      /\ t \in TagName \cup {None} /\ v \in Version \cup {None}
  BY PassTypes DEF Apply
<1>2. RolloutReason(copy.status, copy.tag, "Patched") \in Reasons
  BY RolloutTypes DEF ReadyReasons
<1>3. CASE ApplySucceeds
  <2>1. hcc' \in [Chart -> HelmChartConfig] /\ queue' \in SUBSET Component
    BY <1>1, <1>3, MergedType, WriteConfigTypes DEF Apply
  <2>2. Return(s, RolloutReason(copy.status, copy.tag, "Patched"))
    BY <1>3 DEF Apply
  <2> HIDE DEF t, v, st
  <2>3. s \in ImagePatchStatus
    BY <1>1 DEF ImagePatchStatus
  <2>4. worker' \in Pass
    BY <1>1, <1>2, <2>2, <2>3, ReturnTypes
  <2> QED BY <1>3, <2>1, <2>4 DEF Apply, TInv, TypeOK, clusterVars, Pass
<1>4. CASE ~ApplySucceeds
  <2>1. worker' \in Pass
    BY <1>1, <1>4, ReturnTypes DEF Apply, Reasons
  <2> QED BY <1>4, <2>1, ReadTypes DEF Apply
<1> QED BY <1>3, <1>4

LEMMA FinalizeReadTypes == ASSUME TInv, FinalizeRead PROVE TInv'
<1>1. this \in Component /\ chart \in Chart
  BY PassTypes DEF FinalizeRead
<1>2. \A s \in Steps : [worker EXCEPT !.current = hcc[chart], !.step = s] \in Pass
  BY <1>1 DEF TInv, TypeOK, Pass, Worker, this
<1>3. worker' \in Pass
  BY <1>2 DEF FinalizeRead, Steps
<1> QED BY <1>3, ReadTypes DEF FinalizeRead

LEMMA FinalizeRevertTypes == ASSUME TInv, FinalizeRevert PROVE TInv'
<1>1. this \in Component
  BY PassTypes DEF FinalizeRevert
<1>2. CASE ApplySucceeds
  <2>1. hcc' \in [Chart -> HelmChartConfig] /\ queue' \in SUBSET Component
    BY <1>1, <1>2, SubtractedType, WriteConfigTypes DEF FinalizeRevert
  <2>2. worker' \in Pass
    BY <1>1, <1>2, GoToTypes DEF FinalizeRevert, Steps
  <2> QED BY <1>2, <2>1, <2>2 DEF FinalizeRevert, TInv, TypeOK, clusterVars, Pass
<1>3. CASE ~ApplySucceeds
  <2>1. worker' \in Pass /\ queue' \in SUBSET Component
    BY <1>1, <1>3, DoneTypes DEF FinalizeRevert
  <2> QED BY <1>3, <2>1 DEF FinalizeRevert, TInv, TypeOK, clusterVars, Pass
<1> QED BY <1>2, <1>3

LEMMA RemoveFinalizerTypes == ASSUME TInv, RemoveFinalizer PROVE TInv'
<1>1. this \in Component /\ copy \in ImagePatch
  BY PassTypes DEF RemoveFinalizer
<1>2. [copy EXCEPT !.finalizer = FALSE] \in ImagePatch
  BY <1>1 DEF ImagePatch
<1>3. Updated([copy EXCEPT !.finalizer = FALSE]) \in ImagePatch
  BY <1>1, <1>2, UpdatedType
<1>4. patches' \in [Component -> ImagePatch]
  BY <1>3 DEF RemoveFinalizer, TInv, TypeOK
<1>5. worker' \in Pass /\ queue' \in SUBSET Component
  BY <1>1, DoneTypes DEF RemoveFinalizer
<1> QED BY <1>4, <1>5 DEF RemoveFinalizer, TInv, TypeOK, clusterVars, Pass

LEMMA ObserveTypes == ASSUME TInv, NEW c \in Component, Observe(c) PROVE TInv'
BY DEF Observe, TInv, TypeOK, clusterVars, Pass

LEMMA DisturbTypes == ASSUME TInv, NEW kind, Disturb(kind) PROVE disturbances' \in 0..MaxDisturbances
BY MaxDisturbancesAssumption DEF Disturb, TInv, TypeOK

LEMMA CallFailsTypes == ASSUME TInv, CallFails PROVE TInv'
<1>1. ~At("idle")
  BY DEF CallFails, At, ReadSteps, WriteSteps, ReturnSteps
<1>2. this \in Component /\ copy.status \in ImagePatchStatus
  BY <1>1, PassTypes DEF At
<1>3. worker' \in Pass /\ queue' \in SUBSET Component
  <2>1. CASE Return(copy.status, "Error") /\ UNCHANGED queue
    BY <2>1, <1>2, ReturnTypes DEF Reasons, TInv, TypeOK
  <2>2. CASE Done(TRUE)
    BY <2>2, <1>2, DoneTypes
  <2> QED BY <2>1, <2>2 DEF CallFails
<1>4. disturbances' \in 0..MaxDisturbances
  BY DisturbTypes DEF CallFails
<1> QED BY <1>3, <1>4 DEF CallFails, TInv, TypeOK, clusterVars, Pass

LEMMA AnswerLostTypes == ASSUME TInv, AnswerLost PROVE TInv'
<1>1. ~At("idle")
  BY DEF AnswerLost, At
<1>2. this \in Component /\ copy.status \in ImagePatchStatus
  BY <1>1, PassTypes DEF At
<1>3. Subtracted \in HelmChartConfig /\ Merged \in HelmChartConfig
  BY <1>2, SubtractedType, MergedType
<1>4. disturbances' \in 0..MaxDisturbances
  BY DisturbTypes DEF AnswerLost
<1>5. /\ worker' \in Pass /\ queue' \in SUBSET Component
      /\ hcc' \in [Chart -> HelmChartConfig]
  <2>1. CASE \E new \in HelmChartConfig : WriteConfig(new) /\ Return(copy.status, "Error")
    BY <2>1, <1>2, WriteConfigTypes, ReturnTypes DEF Reasons
  <2>2. CASE At("finalizeRevert") /\ ~\E new \in HelmChartConfig : WriteConfig(new) /\ Return(copy.status, "Error")
    <3>1. /\ hcc' = [hcc EXCEPT ![chart] = [Subtracted EXCEPT !.rv = hcc[chart].rv + 1]]
          /\ worker' = Idle
          /\ queue' = queue \cup all \cup {this}
      BY <2>2, <1>3 DEF AnswerLost
    <3> DEFINE n == hcc[chart].rv + 1
               new == Subtracted
    <3>2. n \in Nat
      BY <1>2, ChartOfAssumption DEF TInv, TypeOK, HelmChartConfig, chart
    <3> HIDE DEF n, new
    <3>3. [new EXCEPT !.rv = n] \in HelmChartConfig
      BY <3>2, <1>3 DEF HelmChartConfig, new
    <3> QED BY <3>1, <3>3, <1>2, IdleType DEF n, new, TInv, TypeOK, all
  <2> QED BY <2>1, <2>2, <1>3 DEF AnswerLost
<1> QED BY <1>4, <1>5 DEF AnswerLost, TInv, TypeOK, clusterVars, Pass

LEMMA CrashTypes == ASSUME TInv, Crash PROVE TInv'
BY IdleType, DisturbTypes DEF Crash, TInv, TypeOK, clusterVars, Pass

LEMMA CreatePatchTypes ==
    ASSUME TInv, NEW c \in Component, NEW tag \in UserTags, NEW policy \in UserPolicies,
           CreatePatch(c, tag, policy)
    PROVE  TInv'
<1> DEFINE n == patches[c].rv + 1
<1>1. n \in Nat
  BY DEF TInv, TypeOK, ImagePatch
<1>2. NewPatch(n, tag, policy) \in ImagePatch
  BY <1>1, NewPatchType
<1>3. patches' \in [Component -> ImagePatch]
  BY <1>2 DEF CreatePatch, TInv, TypeOK
<1>4. disturbances' \in 0..MaxDisturbances
  BY DisturbTypes DEF CreatePatch
<1> QED BY <1>3, <1>4 DEF CreatePatch, TInv, TypeOK, clusterVars, Pass

LEMMA EditPatchTypes ==
    ASSUME TInv, NEW c \in Component, NEW tag \in UserTags, NEW policy \in UserPolicies,
           EditPatch(c, tag, policy)
    PROVE  TInv'
<1> DEFINE p == patches[c]
           g == p.generation + 1
           n == p.rv + 1
           new == [p EXCEPT !.tag = tag, !.upgradePolicy = policy, !.generation = g, !.rv = n]
<1>1. p \in ImagePatch /\ g \in Nat /\ n \in Nat
  BY DEF TInv, TypeOK, ImagePatch
<1>2. patches' = [patches EXCEPT ![c] = new]
  BY <1>1 DEF EditPatch, TInv, TypeOK, ImagePatch
<1> HIDE DEF p, g, n
<1>3. new \in ImagePatch
  BY <1>1, UserAssumption DEF ImagePatch
<1>4. patches' \in [Component -> ImagePatch]
  BY <1>2, <1>3 DEF TInv, TypeOK
<1>5. disturbances' \in 0..MaxDisturbances
  BY DisturbTypes DEF EditPatch
<1> QED BY <1>4, <1>5 DEF EditPatch, TInv, TypeOK, clusterVars, Pass

LEMMA DeletedType == ASSUME NEW p \in ImagePatch PROVE Deleted(p) \in ImagePatch
<1> DEFINE g == p.generation + 1
           n == p.rv + 1
<1>1. g \in Nat /\ n \in Nat
  BY DEF ImagePatch
<1>2. [p EXCEPT !.deleting = TRUE, !.generation = @ + 1, !.rv = @ + 1]
        = [p EXCEPT !.deleting = TRUE, !.generation = g, !.rv = n]
  BY DEF ImagePatch
<1> HIDE DEF g
<1>3. [p EXCEPT !.deleting = TRUE, !.generation = g, !.rv = n] \in ImagePatch
  BY <1>1 DEF ImagePatch
<1>4. NoPatch(n) \in ImagePatch
  BY <1>1, NoPatchType
<1> QED BY <1>2, <1>3, <1>4 DEF Deleted

LEMMA DeletePatchTypes == ASSUME TInv, NEW c \in Component, DeletePatch(c) PROVE TInv'
<1>1. patches' \in [Component -> ImagePatch]
  BY DeletedType DEF DeletePatch, TInv, TypeOK
<1>2. disturbances' \in 0..MaxDisturbances
  BY DisturbTypes DEF DeletePatch
<1> QED BY <1>1, <1>2 DEF DeletePatch, TInv, TypeOK, clusterVars, Pass

LEMMA RemoveMarkerTypes == ASSUME TInv, NEW c \in Component, RemoveMarker(c) PROVE TInv'
<1> DEFINE p == patches[c]
           n == p.rv + 1
           new == [p EXCEPT !.reverted = 0, !.rv = n]
<1>1. p \in ImagePatch /\ n \in Nat
  BY DEF TInv, TypeOK, ImagePatch
<1>2. patches' = [patches EXCEPT ![c] = new]
  BY <1>1 DEF RemoveMarker, TInv, TypeOK, ImagePatch
<1> HIDE DEF p, n
<1>3. new \in ImagePatch
  BY <1>1 DEF ImagePatch
<1>4. patches' \in [Component -> ImagePatch]
  BY <1>2, <1>3 DEF TInv, TypeOK
<1>5. disturbances' \in 0..MaxDisturbances
  BY DisturbTypes DEF RemoveMarker
<1> QED BY <1>4, <1>5 DEF RemoveMarker, TInv, TypeOK, clusterVars, Pass

LEMMA EditConfigTypes ==
    ASSUME TInv, NEW h \in Chart, NEW new \in HelmChartConfig, EditConfig(h, new),
           disturbances' \in 0..MaxDisturbances
    PROVE  TInv'
<1> DEFINE n == hcc[h].rv + 1
<1>1. n \in Nat
  BY DEF TInv, TypeOK, HelmChartConfig
<1> HIDE DEF n
<1>2. [new EXCEPT !.exists = TRUE, !.rv = n] \in HelmChartConfig
  BY <1>1 DEF HelmChartConfig
<1>3. hcc' \in [Chart -> HelmChartConfig]
  BY <1>2 DEF EditConfig, TInv, TypeOK, n
<1> QED BY <1>3 DEF EditConfig, TInv, TypeOK, clusterVars, Pass, all

LEMMA EditValueTypes ==
    ASSUME TInv, NEW c \in Component, NEW value \in UserTags \cup {None}, EditValue(c, value)
    PROVE  TInv'
<1> DEFINE h == ChartOf[c]
           cfg == hcc[h]
<1>1. h \in Chart
  BY ChartOfAssumption
<1>2. cfg \in HelmChartConfig
  BY <1>1 DEF TInv, TypeOK
<1> HIDE DEF cfg
<1>3. [cfg EXCEPT !.value[c] = value] \in HelmChartConfig
  BY <1>2, UserAssumption DEF HelmChartConfig
<1>4. disturbances' \in 0..MaxDisturbances
  BY DisturbTypes DEF EditValue
<1> QED BY <1>1, <1>3, <1>4, EditConfigTypes DEF EditValue, cfg

LEMMA EditOtherTypes == ASSUME TInv, NEW h \in Chart, EditOther(h) PROVE TInv'
<1> DEFINE cfg == hcc[h]
           n == cfg.other + 1
<1>1. cfg \in HelmChartConfig /\ n \in Nat
  BY DEF TInv, TypeOK, HelmChartConfig
<1>2. EditConfig(h, [cfg EXCEPT !.other = n])
  BY DEF EditOther
<1> HIDE DEF cfg, n
<1>3. [cfg EXCEPT !.other = n] \in HelmChartConfig
  BY <1>1 DEF HelmChartConfig
<1>4. disturbances' \in 0..MaxDisturbances
  BY DisturbTypes DEF EditOther
<1> QED BY <1>2, <1>3, <1>4, EditConfigTypes

LEMMA DeleteConfigTypes == ASSUME TInv, NEW h \in Chart, DeleteConfig(h) PROVE TInv'
<1> DEFINE n == hcc[h].rv + 1
<1>1. n \in Nat
  BY DEF TInv, TypeOK, HelmChartConfig
<1>2. NoConfig(n) \in HelmChartConfig
  BY <1>1, NoConfigType
<1>3. hcc' \in [Chart -> HelmChartConfig]
  BY <1>2 DEF DeleteConfig, TInv, TypeOK
<1>4. disturbances' \in 0..MaxDisturbances
  BY DisturbTypes DEF DeleteConfig
<1> QED BY <1>3, <1>4 DEF DeleteConfig, TInv, TypeOK, clusterVars, Pass, all

LEMMA ClusterTypes ==
    ASSUME TInv,
           \/ \E v \in Version : Upgrade(v)
           \/ \E h \in Chart : SetPrime(h)
           \/ \E entries \in SUBSET Component : ChangeCLIState(entries)
    PROVE  TInv'
<1>1. ASSUME NEW v \in Version, Upgrade(v) PROVE TInv'
  BY <1>1, DisturbTypes DEF Upgrade, TInv, TypeOK, Pass, all
<1>2. ASSUME NEW h \in Chart, SetPrime(h) PROVE TInv'
  <2>1. charts' \in [Chart -> [release : Version, prime : BOOLEAN]]
    BY <1>2 DEF SetPrime, TInv, TypeOK
  <2> QED BY <1>2, <2>1, DisturbTypes DEF SetPrime, TInv, TypeOK, Pass, all, forChart
<1>3. ASSUME NEW entries \in SUBSET Component, ChangeCLIState(entries) PROVE TInv'
  BY <1>3, DisturbTypes DEF ChangeCLIState, TInv, TypeOK, Pass, all
<1> QED BY <1>1, <1>2, <1>3

LEMMA ReplaceChartTypes == ASSUME TInv, NEW h \in Chart, ReplaceChart(h) PROVE TInv'
<1>1. charts' \in [Chart -> [release : Version, prime : BOOLEAN]]
  BY DEF ReplaceChart, TInv, TypeOK
<1> QED BY <1>1 DEF ReplaceChart, TInv, TypeOK, Pass, all, forChart

LEMMA RollOutTypes == ASSUME TInv, NEW c \in Component, RollOut(c) PROVE TInv'
<1>1. ChartOf[c] \in Chart
  BY ChartOfAssumption
<1>2. hcc[ChartOf[c]].value[c] \in TagName \cup {None}
  BY <1>1 DEF TInv, TypeOK, HelmChartConfig
<1>3. BundledTag[charts[ChartOf[c]].release][c] \in TagName \cup {None}
  BY <1>1, BundledTagAssumption DEF TInv, TypeOK
<1>4. Rendered(c) \in TagName \cup {None}
  BY <1>2, <1>3 DEF Rendered
<1>5. running' \in [Component -> TagName \cup {None}]
  BY <1>4 DEF RollOut, TInv, TypeOK
<1> QED BY <1>5 DEF RollOut, TInv, TypeOK, Pass, all

LEMMA NextTypes == TInv /\ [Next]_vars => TInv'
<1> SUFFICES ASSUME TInv, [Next]_vars PROVE TInv'
  OBVIOUS
<1>1. CASE WorkerStep
  BY <1>1, AddFinalizerTypes, WriteStatusTypes, PrimeEnabledTypes, LoadCLIStateTypes,
     ClusterVersionTypes, BundledImageTagTypes, GetHelmChartConfigTypes, ClearMarkerTypes,
     MarkRevertedTypes, RevertTypes, RevertedOutcomeTypes, RunningImagesTypes,
     StalePatchesTypes, ValidateTargetTypes, CheckWindowTypes, ApplyTypes,
     FinalizeReadTypes, FinalizeRevertTypes, RemoveFinalizerTypes
  DEF WorkerStep
<1>2. CASE \E c \in Component : Reconcile(c)
  BY <1>2, ReconcileTypes
<1>3. CASE Follow
  BY <1>3, ReplaceChartTypes, RollOutTypes, ObserveTypes DEF Follow
<1>4. CASE Disturbance
  BY <1>4, CallFailsTypes, AnswerLostTypes, CrashTypes, CreatePatchTypes, EditPatchTypes,
     DeletePatchTypes, RemoveMarkerTypes, EditValueTypes, EditOtherTypes, DeleteConfigTypes,
     ClusterTypes
  DEF Disturbance
<1>5. CASE UNCHANGED vars
  BY <1>5 DEF vars, TInv, TypeOK, Pass
<1> QED BY <1>1, <1>2, <1>3, <1>4, <1>5 DEF Next

\* Every state has the types of the API: outcomes only use the documented reasons, and a pass
\* under way always has a component.
THEOREM TypeCorrect == Spec => []TypeOK
<1>1. Spec => []TInv
  BY InitTypes, NextTypes, PTL DEF Spec
<1>2. TInv => TypeOK
  BY DEF TInv
<1> QED BY <1>1, <1>2, PTL

-----------------------------------------------------------------------------
(* What every step of a reconcile pass does to the pass: the step it goes  *)
(* to and what it still holds of what the pass has read.  The invariants   *)
(* of the passes are proved from these lemmas.                             *)

\* Two states of one ImagePatch that differ in the status at most.
SameObject(p, q) ==
    /\ p.exists = q.exists /\ p.deleting = q.deleting /\ p.finalizer = q.finalizer
    /\ p.rv = q.rv /\ p.generation = q.generation /\ p.reverted = q.reverted
    /\ p.tag = q.tag

\* The pass is over, or has only its status to write.
Leaves == worker'.step \in {"idle", "status"}

\* The pass goes on with the same component, the same ImagePatch and the same version.
Continues == /\ worker'.component = worker.component
             /\ SameObject(worker'.imgPatch, worker.imgPatch)
             /\ worker'.clusterVersion = worker.clusterVersion

\* ... and with the HelmChartConfig it has read.
Holds == Continues /\ worker'.current = worker.current

LEMMA ReturnLeaves == ASSUME NEW s, NEW r, Return(s, r) PROVE Leaves
BY DEF Return, Returned, Idle, Leaves

LEMMA DoneLeaves == ASSUME NEW b, Done(b) PROVE Leaves
BY DEF Done, Idle, Leaves

LEMMA GoToHolds ==
    ASSUME TInv, NEW s, GoTo(s)
    PROVE  worker'.step = s /\ Holds /\ worker'.unchecked = worker.unchecked
BY DEF GoTo, TInv, Pass, Worker, Holds, Continues, SameObject

LEMMA ReconcileStep ==
    ASSUME TInv, NEW c \in Component, Reconcile(c)
    PROVE  \/ Leaves
           \/ /\ worker'.component = c /\ worker'.imgPatch = cache[c] /\ cache[c].exists
              /\ \/ cache[c].deleting /\ cache[c].finalizer /\ worker'.step = "finalizeRead"
                 \/ ~cache[c].deleting /\ cache[c].finalizer /\ worker'.step = "prime"
                 \/ ~cache[c].deleting /\ worker'.step = "addFinalizer"
<1> DEFINE ip == cache[c]
           first == IF ip.deleting THEN IF ip.finalizer THEN "finalizeRead" ELSE "idle"
                    ELSE IF ip.finalizer THEN "prime" ELSE "addFinalizer"
<1>1. CASE ip.exists /\ first # "idle"
  <2>1. worker' = [Idle EXCEPT !.step = first, !.component = c, !.imgPatch = ip,
                               !.previous = ip.status]
    BY <1>1 DEF Reconcile
  <2>2. worker'.step = first /\ worker'.component = c /\ worker'.imgPatch = ip
    BY <2>1 DEF Idle
  <2> QED BY <1>1, <2>2
<1>2. CASE ~(ip.exists /\ first # "idle")
  <2>1. worker' = Idle
    BY <1>2 DEF Reconcile
  <2> QED BY <2>1 DEF Leaves, Idle
<1> QED BY <1>1, <1>2

LEMMA AddFinalizerStep ==
    ASSUME TInv, AddFinalizer
    PROVE  \/ Leaves /\ UNCHANGED patches
           \/ /\ Fresh /\ worker'.step = "prime" /\ worker'.component = this
              /\ worker'.imgPatch = Updated([copy EXCEPT !.finalizer = TRUE])
              /\ patches' = [patches EXCEPT ![this] = Updated([copy EXCEPT !.finalizer = TRUE])]
<1>1. CASE Fresh
  BY <1>1 DEF AddFinalizer, TInv, Pass, Worker, this
<1>2. CASE ~Fresh
  BY <1>2, DoneLeaves DEF AddFinalizer
<1> QED BY <1>1, <1>2

LEMMA ReadStep ==
    ASSUME TInv, PrimeEnabled \/ LoadCLIState \/ BundledImageTag \/ ValidateTarget \/ CheckWindow
                 \/ RevertedOutcome
    PROVE  \/ Leaves
           \/ /\ Holds
              /\ \/ At("prime") /\ worker'.step = "cliState"
                 \/ At("cliState") /\ worker'.step = "clusterVersion"
                 \/ At("bundled") /\ worker'.step = "helmChartConfig"
                 \/ At("validate") /\ worker'.step = "window"
                 \/ /\ At("window") /\ worker'.step = "apply"
                    /\ managed \/ current.value[this] \in {None, copy.tag}
<1>1. CASE PrimeEnabled
  BY <1>1, ReturnLeaves, GoToHolds DEF PrimeEnabled
<1>2. CASE LoadCLIState
  BY <1>2, ReturnLeaves, GoToHolds DEF LoadCLIState
<1>3. CASE BundledImageTag
  <2> DEFINE baseline == BundledTag[charts[chart].release][this]
             next == [worker EXCEPT !.step = "helmChartConfig", !.baseline = baseline,
                                    !.imgPatch.status.baselineTag = baseline]
  <2>1. CASE worker' = next
    BY <2>1, <1>3 DEF BundledImageTag, TInv, Pass, Worker, ImagePatch, Holds, Continues, SameObject
  <2> QED BY <2>1, <1>3, ReturnLeaves DEF BundledImageTag
<1>4. CASE ValidateTarget
  BY <1>4, ReturnLeaves, GoToHolds DEF ValidateTarget
<1>5. CASE CheckWindow
  BY <1>5, ReturnLeaves, GoToHolds DEF CheckWindow
<1>6. CASE RevertedOutcome
  BY <1>6, ReturnLeaves DEF RevertedOutcome
<1> QED BY <1>1, <1>2, <1>3, <1>4, <1>5, <1>6

LEMMA ClusterVersionStep ==
    ASSUME TInv, ClusterVersion
    PROVE  /\ worker'.step = "bundled" /\ worker'.component = this
           /\ SameObject(worker'.imgPatch, copy)
BY DEF ClusterVersion, TInv, Pass, Worker, SameObject, this, copy

LEMMA UpgradeCheckStep ==
    ASSUME NEW w \in Pass
    PROVE  \/ UpgradeCheck(w).step = "status"
           \/ /\ w.current.managedOn[this] \in {None, w.clusterVersion}
              /\ UpgradeCheck(w) = [w EXCEPT !.step = "images"]
           \/ /\ w.current.managedOn[this] \notin {None, w.clusterVersion}
              /\ UpgradeCheck(w) = [w EXCEPT !.step = "mark"]
BY DEF UpgradeCheck, Returned, Idle

LEMMA GetHelmChartConfigStep ==
    ASSUME TInv, GetHelmChartConfig
    PROVE  \/ Leaves
           \/ /\ Continues /\ worker'.current = hcc[chart]
              /\ \/ worker'.step \in {"clearMarker", "revertedOutcome"}
                 \/ /\ worker'.step = "images"
                    /\ worker'.current.managedOn[this] \in {None, worker.clusterVersion}
                 \/ /\ worker'.step = "mark"
                    /\ worker'.current.managedOn[this] # None
                 \/ /\ worker'.step = "revert" /\ worker'.current.managedOn[this] # None
                    /\ copy.reverted = copy.generation
<1> DEFINE w == [worker EXCEPT !.current = hcc[chart]]
<1>1. this \in Component /\ chart \in Chart
  BY PassTypes DEF GetHelmChartConfig
<1>2. /\ w \in Pass /\ w.component = worker.component /\ w.imgPatch = worker.imgPatch
      /\ w.clusterVersion = worker.clusterVersion /\ w.current = hcc[chart]
  BY <1>1 DEF TInv, TypeOK, Pass, Worker, this
<1>3. \/ worker' = UpgradeCheck(w)
      \/ worker' = [w EXCEPT !.step = "clearMarker"]
      \/ /\ worker' = [w EXCEPT !.step = "revert", !.then = "revertedOutcome"]
         /\ RevertUnfinished /\ copy.reverted = copy.generation
      \/ worker' = [w EXCEPT !.step = "revertedOutcome"]
  BY DEF GetHelmChartConfig
<1> HIDE DEF w
<1>4. ASSUME NEW s, worker' = [w EXCEPT !.step = s]
      PROVE  worker'.step = s /\ Continues /\ worker'.current = hcc[chart]
  BY <1>2, <1>4 DEF Pass, Worker, Continues, SameObject
<1>5. CASE worker' = UpgradeCheck(w)
  BY <1>2, <1>4, <1>5, UpgradeCheckStep DEF Leaves
<1>6. CASE worker' = [w EXCEPT !.step = "clearMarker"] \/ worker' = [w EXCEPT !.step = "revertedOutcome"]
  BY <1>4, <1>6
<1>7. CASE /\ worker' = [w EXCEPT !.step = "revert", !.then = "revertedOutcome"]
           /\ RevertUnfinished /\ copy.reverted = copy.generation
  BY <1>2, <1>7 DEF Continues, SameObject, Pass, Worker, RevertUnfinished
<1> QED BY <1>3, <1>5, <1>6, <1>7

\* The ImagePatch of the pass after the pass has written its marker.
Rewritten(value) == Updated([copy EXCEPT !.reverted = value])

LEMMA ClearMarkerStep ==
    ASSUME TInv, ClearMarker
    PROVE  \/ Leaves /\ UNCHANGED patches
           \/ /\ Fresh
              /\ patches' = [patches EXCEPT ![this] = Rewritten(0)]
              /\ \/ Leaves
                 \/ /\ worker'.component = this
                    /\ worker'.imgPatch = [copy EXCEPT !.reverted = 0, !.rv = @ + 1]
                    /\ worker'.clusterVersion = worker.clusterVersion
                    /\ worker'.current = current
                    /\ \/ /\ worker'.step = "images"
                          /\ current.managedOn[this] \in {None, worker.clusterVersion}
                       \/ worker'.step = "mark" /\ managed
<1> DEFINE m == Marked(0)
<1>1. this \in Component /\ copy \in ImagePatch
  BY PassTypes DEF ClearMarker
<1>2. /\ m \in Pass /\ m.component = this
      /\ m.imgPatch = [copy EXCEPT !.reverted = 0, !.rv = @ + 1]
      /\ m.clusterVersion = worker.clusterVersion /\ m.current = current
  BY <1>1, MarkedTypes DEF Marked, TInv, Pass, Worker, ImagePatch, this, current, copy
<1> HIDE DEF m
<1>3. ASSUME NEW s, worker' = [m EXCEPT !.step = s]
      PROVE  /\ worker'.step = s /\ worker'.component = this /\ worker'.imgPatch = m.imgPatch
             /\ worker'.clusterVersion = m.clusterVersion /\ worker'.current = m.current
  BY <1>2, <1>3 DEF Pass, Worker
<1>4. CASE Fresh
  <2>1. /\ patches' = [patches EXCEPT ![this] = Rewritten(0)]
        /\ worker' = UpgradeCheck(m)
    BY <1>4 DEF ClearMarker, SetRevertedGeneration, Rewritten, m
  <2> QED BY <1>2, <1>3, <1>4, <2>1, UpgradeCheckStep DEF Leaves, managed
<1>5. CASE ~Fresh
  BY <1>5, ReturnLeaves DEF ClearMarker, SetRevertedGeneration
<1> QED BY <1>4, <1>5

LEMMA MarkRevertedStep ==
    ASSUME TInv, MarkReverted
    PROVE  \/ Leaves /\ UNCHANGED patches
           \/ /\ Fresh
              /\ patches' = [patches EXCEPT ![this] = Rewritten(copy.generation)]
              /\ worker'.step = "revert" /\ worker'.component = this
              /\ worker'.imgPatch = [copy EXCEPT !.reverted = copy.generation, !.rv = @ + 1]
              /\ worker'.clusterVersion = worker.clusterVersion
              /\ worker'.current = current
<1> DEFINE m == Marked(copy.generation)
<1>1. this \in Component /\ copy \in ImagePatch /\ copy.generation \in Nat
  BY PassTypes DEF MarkReverted
<1>2. /\ m \in Pass /\ m.component = this
      /\ m.imgPatch = [copy EXCEPT !.reverted = copy.generation, !.rv = @ + 1]
      /\ m.clusterVersion = worker.clusterVersion /\ m.current = current
  BY <1>1, MarkedTypes DEF Marked, TInv, Pass, Worker, ImagePatch, this, current, copy
<1> HIDE DEF m
<1>3. CASE Fresh
  <2>1. /\ patches' = [patches EXCEPT ![this] = Rewritten(copy.generation)]
        /\ worker' = [m EXCEPT !.step = "revert", !.then = "revertedOutcome"]
    BY <1>3 DEF MarkReverted, SetRevertedGeneration, Rewritten, m
  <2>2. /\ worker'.step = "revert" /\ worker'.component = this /\ worker'.imgPatch = m.imgPatch
        /\ worker'.clusterVersion = m.clusterVersion /\ worker'.current = m.current
    BY <1>2, <2>1 DEF Pass, Worker
  <2> QED BY <1>2, <1>3, <2>1, <2>2
<1>4. CASE ~Fresh
  BY <1>4, ReturnLeaves DEF MarkReverted, SetRevertedGeneration
<1> QED BY <1>3, <1>4

LEMMA RevertStep ==
    ASSUME TInv, Revert
    PROVE  /\ Leaves \/ (Holds /\ worker'.step = "revertedOutcome")
           /\ \/ UNCHANGED hcc
              \/ ApplySucceeds /\ WriteConfig(Subtracted)
<1>1. AfterReverted(worker.then) => Leaves \/ (Holds /\ worker'.step = "revertedOutcome")
  BY ReturnLeaves, GoToHolds DEF AfterReverted
<1> QED BY <1>1, ReturnLeaves DEF Revert

LEMMA RunningImagesStep ==
    ASSUME TInv, RunningImages
    PROVE  \/ Leaves
           \/ Holds /\ worker'.step = "revert" /\ managed
           \/ /\ Holds /\ worker'.step = "stalePatches"
              /\ worker'.unchecked = Component \ {this}
<1> DEFINE status == [copy.status EXCEPT !.runningImage = running[this]]
           unpatched == [status EXCEPT !.appliedTag = None, !.clusterVersion = None]
           patched == [status EXCEPT !.appliedTag = copy.tag,
                                     !.clusterVersion = current.managedOn[this]]
           revertTo(then) == [worker EXCEPT !.step = "revert", !.then = then,
                                            !.imgPatch.status = status]
           next == [worker EXCEPT !.step = "stalePatches", !.imgPatch.status = status,
                                  !.unchecked = Component \ {this}]
<1>1. \/ worker' = revertTo("AtBaseline") /\ managed
      \/ worker' = revertTo(Recheck) /\ managed
      \/ Return(unpatched, RolloutReason(status, worker.baseline, "AtBaseline"))
      \/ Return(patched, RolloutReason(status, copy.tag, "Patched"))
      \/ worker' = next
  BY DEF RunningImages
<1>2. ASSUME NEW then, worker' = revertTo(then) PROVE Holds /\ worker'.step = "revert"
  BY <1>2 DEF TInv, Pass, Worker, ImagePatch, Holds, Continues, SameObject
<1>3. ASSUME worker' = next
      PROVE  Holds /\ worker'.step = "stalePatches" /\ worker'.unchecked = Component \ {this}
  BY <1>3 DEF TInv, Pass, Worker, ImagePatch, Holds, Continues, SameObject
<1> HIDE DEF revertTo, next, patched, unpatched, status
<1> QED BY <1>1, <1>2, <1>3, ReturnLeaves

LEMMA StalePatchesStep ==
    ASSUME TInv, StalePatches
    PROVE  \/ Leaves
           \/ Holds /\ worker.unchecked = {} /\ worker'.step = "validate"
           \/ /\ Holds /\ worker'.step = "stalePatches"
              /\ \E d \in worker.unchecked :
                    /\ hcc[ChartOf[d]].managedOn[d] \in {None, worker.clusterVersion}
                    /\ worker'.unchecked = worker.unchecked \ {d}
<1>1. CASE worker.unchecked = {} /\ GoTo("validate")
  BY <1>1, GoToHolds
<1>2. ASSUME NEW d \in worker.unchecked,
             hcc[ChartOf[d]].managedOn[d] \in {None, worker.clusterVersion},
             worker' = [worker EXCEPT !.unchecked = @ \ {d}]
      PROVE  /\ Holds /\ worker'.step = "stalePatches"
             /\ worker'.unchecked = worker.unchecked \ {d}
  BY <1>2 DEF StalePatches, At, TInv, Pass, Worker, Holds, Continues, SameObject
<1> QED BY <1>1, <1>2, ReturnLeaves DEF StalePatches

LEMMA ApplyStep ==
    ASSUME TInv, Apply
    PROVE  /\ Leaves
           /\ \/ UNCHANGED hcc
              \/ ApplySucceeds /\ WriteConfig(Merged)
BY ReturnLeaves DEF Apply

LEMMA FinalizeStep ==
    ASSUME TInv, FinalizeRead
    PROVE  /\ Continues /\ worker'.current = hcc[chart]
           /\ \/ worker'.step = "finalizeRevert" /\ worker'.current.managedOn[this] # None
              \/ worker'.step = "removeFinalizer" /\ worker'.current.managedOn[this] = None
BY DEF FinalizeRead, TInv, Pass, Worker, Continues, SameObject

LEMMA FinalizeRevertStep ==
    ASSUME TInv, FinalizeRevert
    PROVE  \/ Leaves /\ UNCHANGED hcc
           \/ /\ Holds /\ worker'.step = "removeFinalizer"
              /\ ApplySucceeds /\ WriteConfig(Subtracted)
BY DoneLeaves, GoToHolds DEF FinalizeRevert

LEMMA CallFailsStep == ASSUME TInv, CallFails PROVE Leaves
BY ReturnLeaves, DoneLeaves DEF CallFails

LEMMA AnswerLostStep ==
    ASSUME TInv, AnswerLost
    PROVE  /\ Leaves /\ ApplySucceeds
           /\ \/ At("apply") /\ hcc' = [hcc EXCEPT ![chart] = [Merged EXCEPT !.rv = hcc[chart].rv + 1]]
              \/ /\ worker.step \in {"revert", "finalizeRevert"}
                 /\ hcc' = [hcc EXCEPT ![chart] = [Subtracted EXCEPT !.rv = hcc[chart].rv + 1]]
<1>1. CASE /\ worker.step \in {"revert", "apply"}
           /\ WriteConfig(IF At("apply") THEN Merged ELSE Subtracted)
           /\ Return(copy.status, "Error")
  BY <1>1, ReturnLeaves DEF AnswerLost, WriteConfig, At
<1>2. CASE At("finalizeRevert") /\ worker' = Idle
           /\ hcc' = [hcc EXCEPT ![chart] = [Subtracted EXCEPT !.rv = hcc[chart].rv + 1]]
  BY <1>2 DEF AnswerLost, At, Idle, Leaves
<1> QED BY <1>1, <1>2 DEF AnswerLost

LEMMA CrashStep == ASSUME Crash PROVE Leaves
BY DEF Crash, Idle, Leaves
=============================================================================
