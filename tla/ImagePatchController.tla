------------------------ MODULE ImagePatchController ------------------------
(***************************************************************************)
(* The ImagePatch controller (internal/controller): one worker reconciles  *)
(* ImagePatch objects by writing a component's image values and a managed  *)
(* annotation into the HelmChartConfig of the component's chart.           *)
(*                                                                         *)
(* A reconcile pass is a sequence of API calls, and everything else in the *)
(* cluster (users, an RKE2 upgrade, the CLI, a crash) may run between two  *)
(* of them, so every call is an action of its own and "worker" holds what  *)
(* the pass has read so far.  The pass starts from the informer cache of   *)
(* ImagePatches, which lags behind the API server; all other reads go to   *)
(* the API server.  Writes carry the resource version they are based on.   *)
(***************************************************************************)
EXTENDS Policy

CONSTANTS
    Component,          \* the supported components
    Chart,              \* the Helm charts
    ChartOf,            \* Component -> Chart: HelmChartConfigName
    Version,            \* RKE2 versions
    InitialVersion,     \* the one the cluster runs when the controller starts
    BundledTag,         \* Version -> (Component -> tag its chart bundles, or None)
    Published,          \* Component -> tags registry.ListTags returns
    ZeroDay,            \* Version -> build day of the kube-apiserver image
    None,               \* an absent tag, version or annotation
    UserTags,           \* bound: the tags users write into specs and HelmChartConfigs
    UserPolicies,       \* bound: the upgrade policies users choose
    Kinds,              \* bound: the kinds of disturbance that happen, and "rollout"
    MaxDisturbances     \* bound: how many disturbances happen

Policies == {"Manual", "AutoRevert"}

ASSUME ChartOfAssumption == ChartOf \in [Component -> Chart]
ASSUME BundledTagAssumption ==
    BundledTag \in [Version -> [Component -> TagName \cup {None}]]
ASSUME PublishedAssumption == Published \in [Component -> SUBSET TagName]
ASSUME ZeroDayAssumption == ZeroDay \in [Version -> Int]
ASSUME NoneAssumption == None \notin TagName /\ None \notin Version
ASSUME InitialVersionAssumption == InitialVersion \in Version
ASSUME UserAssumption == UserTags \subseteq TagName /\ UserPolicies \subseteq Policies
ASSUME MaxDisturbancesAssumption == MaxDisturbances \in Nat

VARIABLES
    patches,        \* Component -> the ImagePatch object of that name in the API server
    cache,          \* Component -> that object in the controller's informer cache
    hcc,            \* Chart -> its HelmChartConfig
    version,        \* the RKE2 version the API server reports
    charts,         \* Chart -> the HelmChart RKE2 embeds: its release and prime.enabled
    running,        \* Component -> the tag its pods run
    cliEntries,     \* the components with an entry in the CLI state ConfigMap
    queue,          \* the workqueue: names waiting to be reconciled
    worker,         \* the reconcile pass under way
    disturbances    \* how many disturbances have happened

clusterVars == <<version, charts, running, cliEntries>>
vars == <<patches, cache, hcc, version, charts, running, cliEntries, queue, worker, disturbances>>

-----------------------------------------------------------------------------
(* Objects                                                                 *)

\* Ready/Blocked/Stale are determined by the reason of the outcome.
ReadyReasons == {"Patched", "AtBaseline"}
SilentReasons == {"ChartLayoutMismatch", "ConflictingOverride", "RKE2Upgraded",
                  "RevertedAfterUpgrade"}
Reasons == ReadyReasons \cup SilentReasons \cup (Reason \ {"OK"}) \cup
           {"", "Error", "NotPrime", "CLIPatchesExist", "StalePatchesExist", "Retrying",
            "RolloutInProgress"}

\* Outcomes with a zero requeue wait for a watch event; every other one is requeued, after
\* a delay or, for an error, with the back-off of the queue.
Requeued(reason) == reason \notin SilentReasons

ImagePatchStatus ==
    [observedGeneration : Nat, clusterVersion : Version \cup {None},
     baselineTag : TagName \cup {None}, appliedTag : TagName \cup {None},
     runningImage : TagName \cup {None}, reason : Reasons]

NoStatus == [observedGeneration |-> 0, clusterVersion |-> None, baselineTag |-> None,
             appliedTag |-> None, runningImage |-> None, reason |-> ""]

\* rv is the resource version of the last write of the object, its removal included; uid
\* the one of its creation; reverted the reverted-generation annotation, 0 without one.
ImagePatch ==
    [exists : BOOLEAN, rv : Nat, uid : Nat, generation : Nat, tag : TagName \cup {None},
     upgradePolicy : Policies, deleting : BOOLEAN, finalizer : BOOLEAN, reverted : Nat,
     status : ImagePatchStatus]

NoPatch(rv) ==
    [exists |-> FALSE, rv |-> rv, uid |-> 0, generation |-> 0, tag |-> None,
     upgradePolicy |-> "Manual", deleting |-> FALSE, finalizer |-> FALSE, reverted |-> 0,
     status |-> NoStatus]

NewPatch(rv, tag, policy) ==
    [NoPatch(rv) EXCEPT !.exists = TRUE, !.uid = rv, !.generation = 1, !.tag = tag,
                        !.upgradePolicy = policy]

\* value is the tag a HelmChartConfig sets for a component and managedOn the annotation of
\* the component; other stands for everything else in the object.
HelmChartConfig ==
    [exists : BOOLEAN, rv : Nat, value : [Component -> TagName \cup {None}],
     managedOn : [Component -> Version \cup {None}], other : Nat]

NoConfig(rv) == [exists |-> FALSE, rv |-> rv, value |-> [d \in Component |-> None],
                 managedOn |-> [d \in Component |-> None], other |-> 0]

Steps == {"idle", "addFinalizer", "prime", "cliState", "clusterVersion", "bundled",
          "helmChartConfig", "clearMarker", "mark", "revert", "revertedOutcome", "images",
          "stalePatches", "validate", "window", "apply", "status",
          "finalizeRead", "finalizeRevert", "removeFinalizer"}

\* What follows a revert: the outcomes of reconcilePatch that revert first.
AfterRevert == {"", "revertedOutcome", "AtBaseline"} \cup (Reason \ {"OK"})

Worker ==
    [step : Steps, component : Component \cup {None}, imgPatch : ImagePatch,
     previous : ImagePatchStatus, clusterVersion : Version \cup {None},
     baseline : TagName \cup {None}, current : HelmChartConfig, then : AfterRevert,
     unchecked : SUBSET Component]

Idle == [step |-> "idle", component |-> None, imgPatch |-> NoPatch(0), previous |-> NoStatus,
         clusterVersion |-> None, baseline |-> None, current |-> NoConfig(0), then |-> "",
         unchecked |-> {}]

\* One type invariant for all variables.
TypeOK ==
    /\ patches \in [Component -> ImagePatch]
    /\ cache \in [Component -> ImagePatch]
    /\ hcc \in [Chart -> HelmChartConfig]
    /\ version \in Version
    /\ charts \in [Chart -> [release : Version, prime : BOOLEAN]]
    /\ running \in [Component -> TagName \cup {None}]
    /\ cliEntries \in SUBSET Component
    /\ queue \in SUBSET Component
    /\ worker \in Worker
    /\ disturbances \in 0..MaxDisturbances

\* The controller starts: some ImagePatches exist, none has been reconciled yet.
Init ==
    /\ patches \in [Component -> {NoPatch(0)} \cup
                     {NewPatch(1, tag, policy) : tag \in UserTags, policy \in UserPolicies}]
    /\ cache = patches
    /\ hcc = [h \in Chart |-> NoConfig(0)]
    /\ version = InitialVersion
    /\ charts = [h \in Chart |-> [release |-> version, prime |-> TRUE]]
    /\ running = [c \in Component |-> BundledTag[version][c]]
    /\ cliEntries = {}
    /\ queue = {c \in Component : patches[c].exists}
    /\ worker = Idle
    /\ disturbances = 0

-----------------------------------------------------------------------------
(* Shorthands for a pass                                                   *)

this == worker.component
chart == ChartOf[this]
copy == worker.imgPatch
current == worker.current

managed == current.managedOn[this] # None

At(step) == worker.step = step

\* Mutant: an ImagePatch that waits is not queued again.
allBusy == {c \in Component : cache[c].exists /\ cache[c].status.reason \notin SilentReasons}

\* The requests setup.go maps an event to.
all == {c \in Component : cache[c].exists}
forChart(h) == {c \in all : ChartOf[c] = h}

GoTo(step) == worker' = [worker EXCEPT !.step = step]

\* reconcilePatch returns: its locals are gone, the copy with its status goes to writeStatus.
Returned(w, status, reason) ==
    [Idle EXCEPT !.step = "status", !.component = w.component, !.previous = w.previous,
                 !.imgPatch = [w.imgPatch EXCEPT !.status = [status EXCEPT !.reason = reason]]]

Return(status, reason) == worker' = Returned(worker, status, reason)

\* Reconcile returns.
Done(requeue) ==
    /\ worker' = Idle
    /\ queue' = IF requeue THEN queue \cup {this} ELSE queue

\* No write of the object since the pass got its copy.
Fresh == patches[this].exists /\ patches[this].rv = copy.rv

\* client.Update: the API server keeps the status and, once a deleted object has no
\* finalizer left, removes it.
Updated(new) ==
    IF new.deleting /\ ~new.finalizer THEN NoPatch(new.rv + 1)
    ELSE [new EXCEPT !.rv = @ + 1, !.status = patches[this].status]

\* Mutant: the update does not carry the resource version.
ApplyUnguarded == hcc[chart].exists = current.exists

\* kube.ApplyHelmChartConfig: create without a resource version, update with it.
ApplySucceeds ==
    IF current.exists THEN hcc[chart].exists /\ hcc[chart].rv = current.rv
    ELSE ~hcc[chart].exists

\* The write and its watch event, which queues every ImagePatch.
WriteConfig(new) ==
    /\ hcc' = [hcc EXCEPT ![chart] = [new EXCEPT !.rv = hcc[chart].rv + 1]]
    /\ queue' = queue \cup all

\* patcher.MergeHelmChartConfigWithContent and the managed annotation.
Merged ==
    [current EXCEPT !.exists = TRUE, !.value[this] = copy.tag,
                    !.managedOn[this] = worker.clusterVersion]

\* patcher.SubtractPatcherValuesContent and the removal of the annotation.
Subtracted == [current EXCEPT !.value[this] = None, !.managedOn[this] = None]

\* The outcome once the values are in place: are the pods there yet?
RolloutReason(status, wantTag, readyReason) ==
    IF status.runningImage = wantTag THEN readyReason ELSE "RolloutInProgress"

-----------------------------------------------------------------------------
(* Reconcile: the frame around reconcilePatch                              *)

Reconcile(c) ==
    /\ At("idle") /\ c \in queue
    /\ queue' = queue \ {c}
    /\ LET ip == cache[c]
           first == IF ip.deleting THEN IF ip.finalizer THEN "finalizeRead" ELSE "idle"
                    ELSE IF ip.finalizer THEN "prime" ELSE "addFinalizer"
       IN  worker' = IF ip.exists /\ first # "idle"
                     THEN [Idle EXCEPT !.step = first, !.component = c, !.imgPatch = ip,
                                       !.previous = ip.status]
                     ELSE Idle
    /\ UNCHANGED <<patches, cache, hcc, clusterVars, disturbances>>

\* Mutant: a conflict does not end the pass.
AddFinalizerLater ==
    /\ At("addFinalizer")
    /\ LET new == Updated([copy EXCEPT !.finalizer = TRUE])
       IN  IF Fresh
           THEN /\ patches' = [patches EXCEPT ![this] = new]
                /\ worker' = [worker EXCEPT !.step = "prime", !.imgPatch = new]
                /\ UNCHANGED queue
           ELSE GoTo("prime") /\ UNCHANGED <<patches, queue>>
    /\ UNCHANGED <<cache, hcc, clusterVars, disturbances>>

AddFinalizer ==
    /\ At("addFinalizer")
    /\ LET new == Updated([copy EXCEPT !.finalizer = TRUE])
       IN  IF Fresh
           THEN /\ patches' = [patches EXCEPT ![this] = new]
                /\ worker' = [worker EXCEPT !.step = "prime", !.imgPatch = new]
                /\ UNCHANGED queue
           ELSE Done(TRUE) /\ UNCHANGED patches
    /\ UNCHANGED <<cache, hcc, clusterVars, disturbances>>

WriteStatus ==
    /\ At("status")
    /\ LET status == [copy.status EXCEPT !.observedGeneration = copy.generation]
       IN  IF status = worker.previous
           THEN Done(Requeued(status.reason)) /\ UNCHANGED patches
           ELSE IF Fresh
           THEN /\ patches' = [patches EXCEPT ![this].status = status, ![this].rv = @ + 1]
                /\ Done(Requeued(status.reason))
           ELSE Done(TRUE) /\ UNCHANGED patches
    /\ UNCHANGED <<cache, hcc, clusterVars, disturbances>>

-----------------------------------------------------------------------------
(* reconcilePatch, one action per call                                     *)

PrimeEnabled ==
    /\ At("prime")
    /\ IF charts[chart].prime THEN GoTo("cliState") ELSE Return(copy.status, "NotPrime")
    /\ UNCHANGED <<patches, cache, hcc, clusterVars, queue, disturbances>>

LoadCLIState ==
    /\ At("cliState")
    /\ IF cliEntries = {} THEN GoTo("clusterVersion")
       ELSE Return(copy.status, "CLIPatchesExist")
    /\ UNCHANGED <<patches, cache, hcc, clusterVars, queue, disturbances>>

ClusterVersion ==
    /\ At("clusterVersion")
    /\ worker' = [worker EXCEPT !.step = "bundled", !.clusterVersion = version]
    /\ UNCHANGED <<patches, cache, hcc, clusterVars, queue, disturbances>>

BundledImageTag ==
    /\ At("bundled")
    /\ LET baseline == BundledTag[charts[chart].release][this]
       IN  IF baseline = None THEN Return(copy.status, "ChartLayoutMismatch")
           ELSE worker' = [worker EXCEPT !.step = "helmChartConfig", !.baseline = baseline,
                                         !.imgPatch.status.baselineTag = baseline]
    /\ UNCHANGED <<patches, cache, hcc, clusterVars, queue, disturbances>>

\* Mutant: reverted before it is marked.
UpgradeCheckUnmarked(w) ==
    LET managedOn == w.current.managedOn[this]
    IN  IF managedOn \in {None, w.clusterVersion} THEN [w EXCEPT !.step = "images"]
        ELSE [w EXCEPT !.step = "revert", !.then = "revertedOutcome"]

\* Mutant: the outcome is named after the condition.
UpgradeCheckStale(w) ==
    LET managedOn == w.current.managedOn[this]
    IN  IF managedOn \in {None, w.clusterVersion} THEN [w EXCEPT !.step = "images"]
        ELSE Returned(w, w.imgPatch.status, "Stale")

\* A patch applied on another RKE2 version is stale: left alone or marked for the revert.
UpgradeCheck(w) ==
    LET managedOn == w.current.managedOn[this]
    IN  IF managedOn \in {None, w.clusterVersion} THEN [w EXCEPT !.step = "images"]
        ELSE IF w.imgPatch.upgradePolicy = "AutoRevert" THEN [w EXCEPT !.step = "mark"]
        ELSE Returned(w, [w.imgPatch.status EXCEPT !.clusterVersion = managedOn], "RKE2Upgraded")

\* Mutant: the marker means that the revert is done.
RevertDone == FALSE

\* A marked ImagePatch still managed: the revert was interrupted after the marker was written.
RevertUnfinished == hcc[chart].managedOn[this] # None

GetHelmChartConfig ==
    /\ At("helmChartConfig")
    /\ LET w == [worker EXCEPT !.current = hcc[chart]]
       IN  worker' =
             IF copy.reverted = 0 THEN UpgradeCheck(w)
             ELSE IF copy.reverted # copy.generation THEN [w EXCEPT !.step = "clearMarker"]
             ELSE IF RevertUnfinished THEN [w EXCEPT !.step = "revert", !.then = "revertedOutcome"]
             ELSE [w EXCEPT !.step = "revertedOutcome"]
    /\ UNCHANGED <<patches, cache, hcc, clusterVars, queue, disturbances>>

\* setRevertedGeneration: the annotation is written, the status computed so far kept.
SetRevertedGeneration(value, next) ==
    IF Fresh
    THEN /\ patches' = [patches EXCEPT ![this] = Updated([copy EXCEPT !.reverted = value])]
         /\ worker' = next
    ELSE Return(copy.status, "Error") /\ UNCHANGED patches

Marked(value) == [worker EXCEPT !.imgPatch.reverted = value, !.imgPatch.rv = @ + 1]

ClearMarker ==
    /\ At("clearMarker")
    /\ SetRevertedGeneration(0, UpgradeCheck(Marked(0)))
    /\ UNCHANGED <<cache, hcc, clusterVars, queue, disturbances>>

\* Marked first, so that an interrupted revert is finished and the spec not applied again.
MarkReverted ==
    /\ At("mark")
    /\ SetRevertedGeneration(copy.generation, [Marked(copy.generation) EXCEPT
                                !.step = "revert", !.then = "revertedOutcome"])
    /\ UNCHANGED <<cache, hcc, clusterVars, queue, disturbances>>

\* The status of a pass that found or left the component without a patch.
Unpatched == [copy.status EXCEPT !.appliedTag = None, !.clusterVersion = None]

AfterReverted(then) ==
    CASE then = "revertedOutcome" -> GoTo("revertedOutcome")
      [] then = "AtBaseline" -> Return(Unpatched, RolloutReason(copy.status, worker.baseline, "AtBaseline"))
      [] OTHER -> Return(Unpatched, then)

Revert ==
    /\ At("revert")
    /\ IF ApplySucceeds
       THEN WriteConfig(Subtracted) /\ AfterReverted(worker.then)
       ELSE Return(copy.status, "Error") /\ UNCHANGED <<hcc, queue>>
    /\ UNCHANGED <<patches, cache, clusterVars, disturbances>>

RevertedOutcome ==
    /\ At("revertedOutcome")
    /\ Return([Unpatched EXCEPT !.runningImage = running[this]], "RevertedAfterUpgrade")
    /\ UNCHANGED <<patches, cache, hcc, clusterVars, queue, disturbances>>

\* Mutant: values that are in place are right.
RecheckSkipped == "OK"

\* The rule that can change without a new spec: the bundled tag moves past spec.tag.
Recheck == ValidateAgainstBaseline(worker.baseline, copy.tag)

\* RunningImages, then the decisions that need no further call: spec.tag is the bundled tag,
\* or it is applied already and only the baseline can have moved.
RunningImages ==
    /\ At("images")
    /\ LET status == [copy.status EXCEPT !.runningImage = running[this]]
           revertTo(then) == worker' = [worker EXCEPT !.step = "revert", !.then = then,
                                                      !.imgPatch.status = status]
       IN  IF copy.tag = worker.baseline
           THEN IF managed THEN revertTo("AtBaseline")
                ELSE Return([status EXCEPT !.appliedTag = None, !.clusterVersion = None],
                            RolloutReason(status, worker.baseline, "AtBaseline"))
           ELSE IF managed /\ current.value[this] = copy.tag
           THEN IF Recheck # "OK" THEN revertTo(Recheck)
                ELSE Return([status EXCEPT !.appliedTag = copy.tag,
                                           !.clusterVersion = current.managedOn[this]],
                            RolloutReason(status, copy.tag, "Patched"))
           ELSE worker' = [worker EXCEPT !.step = "stalePatches", !.imgPatch.status = status,
                                         !.unchecked = Component \ {this}]
    /\ UNCHANGED <<patches, cache, hcc, clusterVars, queue, disturbances>>

\* Mutant: only the components of the same chart are looked at.
StalePatchesOfChart ==
    /\ At("stalePatches")
    /\ LET stale == {d \in worker.unchecked : ChartOf[d] = chart /\
                       hcc[chart].managedOn[d] \notin {None, worker.clusterVersion}}
       IN  IF stale = {} THEN GoTo("validate") ELSE Return(copy.status, "StalePatchesExist")
    /\ UNCHANGED <<patches, cache, hcc, clusterVars, queue, disturbances>>

\* stalePatches reads the HelmChartConfig of one other component after the other.
StalePatches ==
    /\ At("stalePatches")
    /\ \/ /\ worker.unchecked = {}
          /\ GoTo("validate")
       \/ \E d \in worker.unchecked :
            IF hcc[ChartOf[d]].managedOn[d] \in {None, worker.clusterVersion}
            THEN worker' = [worker EXCEPT !.unchecked = @ \ {d}]
            ELSE Return(copy.status, "StalePatchesExist")
    /\ UNCHANGED <<patches, cache, hcc, clusterVars, queue, disturbances>>

\* The rollback guard, then ListTags and the rules on the target.
ValidateTarget ==
    /\ At("validate")
    /\ LET applied == copy.status.appliedTag
           older == IF applied = None THEN "OK" ELSE ValidateNotOlderThanCurrent(applied, copy.tag)
           target == ValidateExplicitTarget(worker.baseline, copy.tag, Published[this])
       IN  IF older # "OK" THEN Return(copy.status, older)
           ELSE IF target # "OK" THEN Return(copy.status, target)
           ELSE GoTo("window")
    /\ UNCHANGED <<patches, cache, hcc, clusterVars, queue, disturbances>>

\* Mutant: values set by somebody else are overwritten.
CheckWindowOnly ==
    /\ At("window")
    /\ LET verdict == ValidatePatchWindow(this, copy.tag, ZeroDay[version])
       IN  IF verdict # "OK" THEN Return(copy.status, verdict) ELSE GoTo("apply")
    /\ UNCHANGED <<patches, cache, hcc, clusterVars, queue, disturbances>>

\* ClusterZeroDay and the patch window, then the values somebody else has set.
CheckWindow ==
    /\ At("window")
    /\ LET verdict == ValidatePatchWindow(this, copy.tag, ZeroDay[version])
       IN  IF verdict # "OK" THEN Return(copy.status, verdict)
           ELSE IF ~managed /\ current.value[this] \notin {None, copy.tag}
           THEN Return(copy.status, "ConflictingOverride")
           ELSE GoTo("apply")
    /\ UNCHANGED <<patches, cache, hcc, clusterVars, queue, disturbances>>

Apply ==
    /\ At("apply")
    /\ IF ApplySucceeds
       THEN /\ WriteConfig(Merged)
            /\ Return([copy.status EXCEPT !.appliedTag = copy.tag,
                                          !.clusterVersion = worker.clusterVersion],
                      RolloutReason(copy.status, copy.tag, "Patched"))
       ELSE Return(copy.status, "Retrying") /\ UNCHANGED <<hcc, queue>>
    /\ UNCHANGED <<patches, cache, clusterVars, disturbances>>

-----------------------------------------------------------------------------
(* finalize                                                                *)

\* Mutant: a stale patch is left for the upgrade to clean up.
FinalizeReadCurrent ==
    /\ At("finalizeRead")
    /\ IF hcc[chart].managedOn[this] \notin {None, version}
       THEN Done(FALSE)
       ELSE /\ worker' = [worker EXCEPT !.current = hcc[chart],
                                        !.step = IF hcc[chart].managedOn[this] # None
                                                 THEN "finalizeRevert" ELSE "removeFinalizer"]
            /\ UNCHANGED queue
    /\ UNCHANGED <<patches, cache, hcc, clusterVars, disturbances>>

FinalizeRead ==
    /\ At("finalizeRead")
    /\ worker' = [worker EXCEPT !.current = hcc[chart],
                                !.step = IF hcc[chart].managedOn[this] # None
                                         THEN "finalizeRevert" ELSE "removeFinalizer"]
    /\ UNCHANGED <<patches, cache, hcc, clusterVars, queue, disturbances>>

\* Mutant: a failed revert does not keep the finalizer.
FinalizeRevertAnyway ==
    /\ At("finalizeRevert")
    /\ GoTo("removeFinalizer")
    /\ IF ApplySucceeds THEN WriteConfig(Subtracted) ELSE UNCHANGED <<hcc, queue>>
    /\ UNCHANGED <<patches, cache, clusterVars, disturbances>>

FinalizeRevert ==
    /\ At("finalizeRevert")
    /\ IF ApplySucceeds
       THEN WriteConfig(Subtracted) /\ GoTo("removeFinalizer")
       ELSE Done(TRUE) /\ UNCHANGED hcc
    /\ UNCHANGED <<patches, cache, clusterVars, disturbances>>

RemoveFinalizer ==
    /\ At("removeFinalizer")
    /\ IF Fresh
       THEN /\ patches' = [patches EXCEPT ![this] = Updated([copy EXCEPT !.finalizer = FALSE])]
            /\ Done(FALSE)
       ELSE Done(TRUE) /\ UNCHANGED patches
    /\ UNCHANGED <<cache, hcc, clusterVars, disturbances>>

WorkerStep ==
    \/ AddFinalizer \/ WriteStatus
    \/ PrimeEnabled \/ LoadCLIState \/ ClusterVersion \/ BundledImageTag
    \/ GetHelmChartConfig \/ ClearMarker \/ MarkReverted \/ Revert \/ RevertedOutcome
    \/ RunningImages \/ StalePatches \/ ValidateTarget \/ CheckWindow \/ Apply
    \/ FinalizeRead \/ FinalizeRevert \/ RemoveFinalizer

-----------------------------------------------------------------------------
(* The informers                                                           *)

\* The cache catches up with an ImagePatch.  Creation, deletion and a changed generation or
\* annotation queue it; a status write alone does not.
Observe(c) ==
    /\ cache[c] # patches[c]
    /\ cache' = [cache EXCEPT ![c] = patches[c]]
    /\ queue' = IF \/ cache[c].uid # patches[c].uid
                   \/ cache[c].generation # patches[c].generation
                   \/ cache[c].reverted # patches[c].reverted
                THEN queue \cup {c} ELSE queue
    /\ UNCHANGED <<patches, hcc, clusterVars, worker, disturbances>>

-----------------------------------------------------------------------------
(* Disturbances: users, RKE2, the CLI and failures, MaxDisturbances in all  *)

Disturb(kind) ==
    /\ kind \in Kinds
    /\ disturbances < MaxDisturbances
    /\ disturbances' = disturbances + 1

\* Calls of the worker that write nothing, and calls of finalize.
ReadSteps == {"prime", "cliState", "clusterVersion", "bundled", "helmChartConfig",
              "revertedOutcome", "images", "stalePatches", "validate", "window"}
WriteSteps == {"clearMarker", "mark", "revert", "apply"}
ReturnSteps == {"addFinalizer", "status", "finalizeRead", "finalizeRevert", "removeFinalizer"}

\* A call fails: reconcilePatch reports the error in the status, the frame returns it.
CallFails ==
    /\ Disturb("fail")
    /\ \/ worker.step \in ReadSteps \cup WriteSteps
          /\ Return(copy.status, "Error") /\ UNCHANGED queue
       \/ worker.step \in ReturnSteps /\ Done(TRUE)
    /\ UNCHANGED <<patches, cache, hcc, clusterVars>>

\* The HelmChartConfig is written but the answer is lost.
AnswerLost ==
    /\ Disturb("lost")
    /\ worker.step \in {"revert", "apply", "finalizeRevert"}
    /\ ApplySucceeds
    /\ \/ /\ worker.step \in {"revert", "apply"}
          /\ WriteConfig(IF At("apply") THEN Merged ELSE Subtracted)
          /\ Return(copy.status, "Error")
       \/ /\ At("finalizeRevert")
          /\ hcc' = [hcc EXCEPT ![chart] = [Subtracted EXCEPT !.rv = hcc[chart].rv + 1]]
          /\ worker' = Idle
          /\ queue' = queue \cup all \cup {this}
    /\ UNCHANGED <<patches, cache, clusterVars>>

\* The leader dies; its successor lists every ImagePatch and queues it.
Crash ==
    /\ Disturb("crash")
    /\ ~At("idle")
    /\ worker' = Idle
    /\ cache' = patches
    /\ queue' = {c \in Component : patches[c].exists}
    /\ UNCHANGED <<patches, hcc, clusterVars>>

CreatePatch(c, tag, upgradePolicy) ==
    /\ Disturb("create")
    /\ ~patches[c].exists
    /\ patches' = [patches EXCEPT ![c] = NewPatch(@.rv + 1, tag, upgradePolicy)]
    /\ UNCHANGED <<cache, hcc, clusterVars, queue, worker>>

\* A changed spec increments the generation.
EditPatch(c, tag, upgradePolicy) ==
    /\ Disturb("edit")
    /\ patches[c].exists /\ ~patches[c].deleting
    /\ <<tag, upgradePolicy>> # <<patches[c].tag, patches[c].upgradePolicy>>
    /\ patches' = [patches EXCEPT ![c].tag = tag, ![c].upgradePolicy = upgradePolicy,
                                  ![c].generation = @ + 1, ![c].rv = @ + 1]
    /\ UNCHANGED <<cache, hcc, clusterVars, queue, worker>>

\* With a finalizer the object stays, marked as being deleted (which increments its generation).
Deleted(p) ==
    IF p.finalizer THEN [p EXCEPT !.deleting = TRUE, !.generation = @ + 1, !.rv = @ + 1]
    ELSE NoPatch(p.rv + 1)

DeletePatch(c) ==
    /\ Disturb("delete")
    /\ patches[c].exists /\ ~patches[c].deleting
    /\ patches' = [patches EXCEPT ![c] = Deleted(@)]
    /\ UNCHANGED <<cache, hcc, clusterVars, queue, worker>>

\* kubectl annotate imagepatch <name> patcher.rke2.cattle.io/reverted-generation-
RemoveMarker(c) ==
    /\ Disturb("marker")
    /\ patches[c].exists /\ patches[c].reverted # 0
    /\ patches' = [patches EXCEPT ![c].reverted = 0, ![c].rv = @ + 1]
    /\ UNCHANGED <<cache, hcc, clusterVars, queue, worker>>

\* Somebody edits a HelmChartConfig, creating it if need be: an image value, or anything else.
EditConfig(h, new) ==
    /\ hcc' = [hcc EXCEPT ![h] = [new EXCEPT !.exists = TRUE, !.rv = hcc[h].rv + 1]]
    /\ queue' = queue \cup all
    /\ UNCHANGED <<patches, cache, clusterVars, worker>>

EditValue(c, value) ==
    /\ Disturb("value")
    /\ value # hcc[ChartOf[c]].value[c]
    /\ EditConfig(ChartOf[c], [hcc[ChartOf[c]] EXCEPT !.value[c] = value])

EditOther(h) ==
    /\ Disturb("other")
    /\ EditConfig(h, [hcc[h] EXCEPT !.other = @ + 1])

DeleteConfig(h) ==
    /\ Disturb("deleteConfig")
    /\ hcc[h].exists
    /\ hcc' = [hcc EXCEPT ![h] = NoConfig(@.rv + 1)]
    /\ queue' = queue \cup all
    /\ UNCHANGED <<patches, cache, clusterVars, worker>>

\* RKE2 is upgraded; the embedded charts follow, one after the other.
Upgrade(v) ==
    /\ Disturb("upgrade")
    /\ v # version
    /\ version' = v
    /\ queue' = queue \cup all
    /\ UNCHANGED <<patches, cache, hcc, charts, running, cliEntries, worker>>

SetPrime(h) ==
    /\ Disturb("prime")
    /\ charts' = [charts EXCEPT ![h].prime = ~@]
    /\ queue' = queue \cup forChart(h)
    /\ UNCHANGED <<patches, cache, hcc, version, running, cliEntries, worker>>

\* The CLI records or removes an entry (its own runs are not part of this module).
ChangeCLIState(entries) ==
    /\ Disturb("cli")
    /\ entries # cliEntries
    /\ cliEntries' = entries
    /\ queue' = queue \cup all
    /\ UNCHANGED <<patches, cache, hcc, version, charts, running, worker>>

Disturbance ==
    \/ CallFails \/ AnswerLost \/ Crash
    \/ \E c \in Component :
         \/ \E tag \in UserTags, upgradePolicy \in UserPolicies :
              CreatePatch(c, tag, upgradePolicy) \/ EditPatch(c, tag, upgradePolicy)
         \/ DeletePatch(c) \/ RemoveMarker(c)
         \/ \E value \in UserTags \cup {None} : EditValue(c, value)
    \/ \E h \in Chart : EditOther(h) \/ DeleteConfig(h) \/ SetPrime(h)
    \/ \E v \in Version : Upgrade(v)
    \/ \E entries \in SUBSET Component : ChangeCLIState(entries)

-----------------------------------------------------------------------------
(* What follows by itself in the cluster                                   *)

ReplaceChart(h) ==
    /\ charts[h].release # version
    /\ charts' = [charts EXCEPT ![h].release = version]
    /\ queue' = queue \cup forChart(h)
    /\ UNCHANGED <<patches, cache, hcc, version, running, cliEntries, worker, disturbances>>

\* The tag the chart renders: the HelmChartConfig over the bundled values.
Rendered(c) ==
    LET value == hcc[ChartOf[c]].value[c]
    IN  IF value # None THEN value ELSE BundledTag[charts[ChartOf[c]].release][c]

\* helm-controller rolls the rendered tag out; the workload's watch event queues its component.
RollOut(c) ==
    /\ "rollout" \in Kinds
    /\ running[c] # Rendered(c)
    /\ running' = [running EXCEPT ![c] = Rendered(c)]
    /\ queue' = queue \cup ({c} \cap all)
    /\ UNCHANGED <<patches, cache, hcc, version, charts, cliEntries, worker, disturbances>>

Follow ==
    \/ \E h \in Chart : ReplaceChart(h)
    \/ \E c \in Component : RollOut(c) \/ Observe(c)

Next == WorkerStep \/ (\E c \in Component : Reconcile(c)) \/ Follow \/ Disturbance

Spec == Init /\ [][Next]_vars

\* The process runs, its informers deliver, RKE2 and helm-controller finish what they began.
\* The queue hands out every name in turn.
Fairness ==
    /\ WF_vars(WorkerStep)
    /\ \A c \in Component : SF_vars(Reconcile(c)) /\ WF_vars(Observe(c)) /\ WF_vars(RollOut(c))
    /\ \A h \in Chart : WF_vars(ReplaceChart(h))

FairSpec == Spec /\ Fairness

-----------------------------------------------------------------------------
(* Properties                                                              *)

ManagedOn(c) == hcc[ChartOf[c]].managedOn[c]
Value(c) == hcc[ChartOf[c]].value[c]
Baseline(c) == BundledTag[charts[ChartOf[c]].release][c]

\* Values the controller manages always have an ImagePatch whose finalizer will revert them:
\* AddFinalizer precedes the first write, and finalize reverts before it removes the finalizer,
\* whatever is lost, repeated or interrupted in between.
NoOrphan ==
    \A c \in Component : ManagedOn(c) # None => patches[c].exists /\ patches[c].finalizer

\* All managed values were applied on one RKE2 version: a new patch is refused while another
\* component holds a stale one (stalePatches), although the other HelmChartConfigs are read
\* well before the write.
OneVersion ==
    \A c, d \in Component :
        ManagedOn(c) # None /\ ManagedOn(d) # None => ManagedOn(c) = ManagedOn(d)

\* PatchLifecycle, seen in the finalizers and the managed annotations: between any two calls of
\* a pass, and whatever others do meanwhile, the controller's patches are as that module says.
claimed == {c \in Component : patches[c].exists /\ patches[c].finalizer}
appliedOn == [c \in Component |-> ManagedOn(c)]
Lifecycle == INSTANCE PatchLifecycle
ImplementsLifecycle == Lifecycle!LifecycleSpec

\* A HelmChartConfig that still has the resource version the pass read has the content it read:
\* what Merge and Subtract are computed from is not out of date when the write succeeds.
SnapshotCurrent ==
    worker.step \in {"images", "stalePatches", "validate", "window", "apply", "mark", "revert",
                     "clearMarker", "finalizeRevert"} /\ ApplySucceeds
    => current = [hcc[chart] EXCEPT !.rv = current.rv]

ControllerStep == WorkerStep \/ AnswerLost

\* The controller never undoes what others write into a HelmChartConfig, other components of
\* the chart included: its read-modify-write is guarded by the resource version.
NoLostUpdate ==
    [][ControllerStep =>
         \A h \in Chart :
            /\ hcc'[h].other = hcc[h].other
            /\ \A d \in Component \ {this} :
                 /\ hcc'[h].value[d] = hcc[h].value[d]
                 /\ hcc'[h].managedOn[d] = hcc[h].managedOn[d]]_vars

\* "Values without [the annotation] are never modified or reverted": the value of an unmanaged
\* component survives every step of the controller.
ForeignValuesKept ==
    [][ControllerStep =>
         \A c \in Component : ManagedOn(c) = None /\ Value(c) # None => Value(c)' = Value(c)]_vars

\* AutoRevert marks the spec before it reverts it: when a pass strips values applied on another
\* version than it read, the ImagePatch carries the marker of its generation, unless somebody
\* wrote the ImagePatch meanwhile or is deleting it.
MarkedBeforeReverted ==
    [][ControllerStep =>
         \A c \in Component :
            /\ ManagedOn(c) \notin {None, worker.clusterVersion}
            /\ ManagedOn(c)' = None
            /\ ~copy.deleting /\ Fresh
            => patches[c].reverted = patches[c].generation]_vars

\* A deleted ImagePatch goes away, its values reverted (NoOrphan) whatever mode, version or
\* release the cluster is in.
DeletionCompletes == \A c \in Component : patches[c].deleting ~> ~patches[c].deleting

\* Once a spec carries the marker of its own generation the component ends up unmanaged for
\* good, also when the revert was interrupted or a pass ran from an outdated cache.
RevertedStaysReverted ==
    <>[](\A c \in Component :
            patches[c].exists /\ ~patches[c].deleting
            /\ patches[c].reverted = patches[c].generation => ManagedOn(c) = None)

\* "If the bundled tag ever becomes newer than the applied spec.tag, the patch is reverted
\* instead of keeping an older image": a spec that stays applied on the running release is newer
\* than the bundled tag.
NoOlderImageKept ==
    <>[](\A c \in Component :
            ManagedOn(c) = version /\ Value(c) = patches[c].tag
            => ValidateAgainstBaseline(Baseline(c), Value(c)) = "OK")

\* What the reason of an outcome claims about the cluster.
Claim(c) ==
    LET p == patches[c]
        reason == p.status.reason
    IN  /\ reason \notin {"", "Error", "Retrying"}
        /\ reason = "Patched" => /\ ManagedOn(c) = version
                                 /\ Value(c) = p.tag /\ running[c] = p.tag
        /\ reason = "AtBaseline" => ManagedOn(c) = None /\ running[c] = p.tag
        /\ reason = "RKE2Upgraded" => /\ ManagedOn(c) \notin {None, version}
                                      /\ p.upgradePolicy = "Manual"
        /\ reason = "RevertedAfterUpgrade" => /\ ManagedOn(c) = None
                                              /\ p.reverted = p.generation
        /\ reason = "RolloutInProgress" => running[c] # p.tag
        /\ reason = "NotPrime" => ~charts[ChartOf[c]].prime
        /\ reason = "CLIPatchesExist" => cliEntries # {}
        /\ reason = "StalePatchesExist" =>
             \E d \in Component \ {c} : ManagedOn(d) \notin {None, version}
        /\ reason = "ConflictingOverride" => ManagedOn(c) = None /\ Value(c) \notin {None, p.tag}

\* When the disturbances are over, every ImagePatch has its current generation observed and a
\* status that stays true: the watches and requeues miss no event that matters.  Stated for runs
\* in which no call fails: writeStatus compares with the status of a copy that may be stale, so
\* that the pass after a failed one, which still sees the status before "Error", can take it for
\* written; "Error" then stays until something other than a status changes.
StatusSettles ==
    <>[](\A c \in Component :
            patches[c].exists /\ ~patches[c].deleting
            => /\ patches[c].status.observedGeneration = patches[c].generation
               /\ Claim(c))

-----------------------------------------------------------------------------
(* What the documentation says and the code does not do                    *)

\* "no moving back below the previously applied tag": while a component stays managed, the
\* controller replaces its tag by no older one.
NoRollback ==
    [][ControllerStep =>
         \A c \in Component :
            ManagedOn(c) # None /\ ManagedOn(c)' # None /\ Value(c) # None
            => ValidateNotOlderThanCurrent(Value(c), Value(c)') = "OK"]_vars

\* The reverted-generation annotation "records the generation of the spec that was reverted":
\* when it is set, the tag of that generation is the one that is about to be reverted.
MarkerNamesRevertedSpec ==
    [][\A c \in Component :
         /\ patches[c].exists /\ patches'[c].reverted # 0
         /\ patches'[c].reverted # patches[c].reverted
         => Value(c) = patches[c].tag]_vars
=============================================================================
