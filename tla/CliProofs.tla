------------------------------ MODULE CliProofs ------------------------------
(***************************************************************************)
(* Runs of the CLI at the same time, for any number of runs, components,   *)
(* charts, versions and disturbances.  The argument is that of optimistic  *)
(* concurrency: an object that still has the resource version a run has    *)
(* read has the content it has read (Fresh), so that a write that succeeds *)
(* changes what the run meant to change and nothing else.                  *)
(***************************************************************************)
EXTENDS CliMode, TLAPS

HoldsConfig == {"version", "eligible", "apply", "revertApply"}
HoldsTarget == {"window", "get", "version", "eligible", "apply"}
HoldsVersion == {"eligible", "apply", "namespace", "prompt", "reconcileState"}
HoldsEntry == {"apply", "namespace", "prompt"}
Updates == {"load", "save"}

\* An object that does not exist is empty.
ProperConfig(config) ==
    config \in HelmChartConfig /\ (~config.exists => config = NoConfig(config.rv))
ProperState(map) ==
    map \in ConfigMap /\ (~map.exists => map.entries = NoEntries)

\* What a run holds at each of its steps.
Sound(x) ==
    /\ x \in Sessions
    /\ x.step \notin {"new", "over"} => x.component \in Component
    /\ x.step \in HoldsTarget => x.runningTag \in TagName /\ x.target \in TagName
    /\ x.step \in HoldsVersion => x.clusterVersion \in Version
    /\ x.step \in HoldsEntry => x.entry \in Entry
    /\ x.step \in Updates /\ x.reverted = {} => x.clusterVersion \in Version /\ x.entry \in Entry
    /\ x.step \in HoldsConfig => ProperConfig(x.current)
    /\ x.step = "save" => ProperState(x.read) /\ x.updated = Mutated(x.read.entries, x)

SameOrOlder(old, new) == old.rv <= new.rv /\ (old.rv = new.rv => old = new)

Fresh(x, configs, map) ==
    /\ x.step \in HoldsConfig => SameOrOlder(x.current, configs[ChartOf[x.component]])
    /\ x.step = "save" => SameOrOlder(x.read, map)

CliInv ==
    /\ TypeOK
    /\ \A h \in Chart : ProperConfig(hcc[h])
    /\ ProperState(configMap)
    /\ \A s \in Session : Sound(sessions[s]) /\ Fresh(sessions[s], hcc, configMap)

\* The record of a run is written, and nothing else that others look at.
Puts(s, x) == sessions' = [sessions EXCEPT ![s] = x] /\ Sound(x) /\ Fresh(x, hcc, configMap)

Quiet == UNCHANGED <<hcc, configMap>>

-----------------------------------------------------------------------------
(* What is written of a record                                             *)

LEMMA NewSound ==
    ASSUME NEW step \in {"new", "over"}
    PROVE  Sound([NewSession EXCEPT !.step = step])
<1> DEFINE x == [NewSession EXCEPT !.step = step]
<1>1. 0 \in 0..updateAttempts - 1
  BY CliAssumption
<1>2. x \in Sessions /\ x.step = step
  BY <1>1 DEF NewSession, Sessions, Steps
<1> HIDE DEF x
<1>3. Sound(x)
  BY <1>2 DEF Sound, HoldsConfig, HoldsTarget, HoldsVersion, HoldsEntry, Updates
<1> QED BY <1>3 DEF x

LEMMA EndPuts ==
    ASSUME NEW s \in Session, End(s)
    PROVE  \E x \in Sessions : Puts(s, x)
<1> DEFINE x == [NewSession EXCEPT !.step = "over"]
<1>1. Sound(x)
  BY NewSound
<1>2. x.step = "over"
  BY DEF NewSession
<1>3. sessions' = [sessions EXCEPT ![s] = x]
  BY DEF End, Continue
<1> HIDE DEF x
<1> QED BY <1>1, <1>2, <1>3 DEF Puts, Fresh, Sound, HoldsConfig

LEMMA GoToPuts ==
    ASSUME CliInv, NEW s \in Session, NEW step \in Steps, GoTo(s, step),
           sessions[s].step \notin {"new", "over"},
           step \in HoldsTarget => sessions[s].step \in HoldsTarget,
           step \in HoldsVersion => sessions[s].step \in HoldsVersion,
           step \in HoldsEntry => sessions[s].step \in HoldsEntry,
           step \notin HoldsConfig, step # "save",
           step = "load" => sessions[s].reverted # {} \/ sessions[s].step \in HoldsEntry
    PROVE  \E x \in Sessions : Puts(s, x)
<1> DEFINE r == sessions[s]
           x == [r EXCEPT !.step = step]
<1>1. Sound(r)
  BY DEF CliInv
<1>2. /\ x \in Sessions /\ x.step = step /\ x.component = r.component
      /\ x.runningTag = r.runningTag /\ x.target = r.target /\ x.entry = r.entry
      /\ x.clusterVersion = r.clusterVersion /\ x.reverted = r.reverted
  BY <1>1 DEF Sound, Sessions
<1>3. sessions' = [sessions EXCEPT ![s] = x]
  BY DEF GoTo, Continue
<1>4. step \in Updates => step = "load"
  BY DEF Updates
<1>5. r.step \in HoldsEntry => r.step \in HoldsVersion
  BY DEF HoldsEntry, HoldsVersion
<1> HIDE DEF x
<1>6. Sound(x)
  BY <1>1, <1>2, <1>4, <1>5 DEF Sound
<1> QED BY <1>2, <1>3, <1>6 DEF Puts, Fresh

LEMMA StartPuts ==
    ASSUME NEW s \in Session, NEW c \in Component, NEW tag \in UserTags \cup {None},
           StartPatch(s, c, tag) \/ StartReconcile(s, c)
    PROVE  \E x \in Sessions : Puts(s, x)
<1>1. 0 \in 0..updateAttempts - 1 /\ tag \in TagName \cup {None}
  BY CliAssumption, CliModeAssumption
<1>2. CASE StartPatch(s, c, tag)
  <2> DEFINE x == [NewSession EXCEPT !.step = "refuse", !.component = c, !.requested = tag]
  <2>1. x \in Sessions /\ x.step = "refuse" /\ x.component = c
    BY <1>1 DEF NewSession, Sessions, Steps
  <2>2. sessions' = [sessions EXCEPT ![s] = x]
    BY <1>2 DEF StartPatch, Continue
  <2> HIDE DEF x
  <2> QED BY <2>1, <2>2 DEF Puts, Sound, Fresh, HoldsConfig, HoldsTarget, HoldsVersion,
                            HoldsEntry, Updates
<1>3. CASE StartReconcile(s, c)
  <2> DEFINE x == [NewSession EXCEPT !.step = "reconcileVersion", !.component = c]
  <2>1. x \in Sessions /\ x.step = "reconcileVersion" /\ x.component = c
    BY <1>1 DEF NewSession, Sessions, Steps
  <2>2. sessions' = [sessions EXCEPT ![s] = x]
    BY <1>3 DEF StartReconcile, Continue
  <2> HIDE DEF x
  <2> QED BY <2>1, <2>2 DEF Puts, Sound, Fresh, HoldsConfig, HoldsTarget, HoldsVersion,
                            HoldsEntry, Updates
<1> QED BY <1>2, <1>3

LEMMA FieldsTyped ==
    ASSUME NEW r \in Sessions, NEW step \in Steps
    PROVE  /\ \A v \in Version : [r EXCEPT !.step = step, !.clusterVersion = v] \in Sessions
           /\ \A keys \in SUBSET Version : [r EXCEPT !.step = step, !.keys = keys] \in Sessions
           /\ \A config \in HelmChartConfig : [r EXCEPT !.step = step, !.current = config] \in Sessions
           /\ \A map \in ConfigMap, updated \in Entries :
                 [r EXCEPT !.step = step, !.read = map, !.updated = updated] \in Sessions
<1>1. ASSUME NEW v \in Version
      PROVE  [r EXCEPT !.step = step, !.clusterVersion = v] \in Sessions
  BY DEF Sessions
<1>2. ASSUME NEW keys \in SUBSET Version
      PROVE  [r EXCEPT !.step = step, !.keys = keys] \in Sessions
  BY DEF Sessions
<1>3. ASSUME NEW config \in HelmChartConfig
      PROVE  [r EXCEPT !.step = step, !.current = config] \in Sessions
  BY DEF Sessions
<1>4. ASSUME NEW map \in ConfigMap, NEW updated \in Entries
      PROVE  [r EXCEPT !.step = step, !.read = map, !.updated = updated] \in Sessions
  BY DEF Sessions
<1> QED BY <1>1, <1>2, <1>3, <1>4

-----------------------------------------------------------------------------
(* The steps that only read                                                *)

LEMMA RefusePuts ==
    ASSUME CliInv, NEW s \in Session, RefuseInControllerMode(s)
    PROVE  \E x \in Sessions : Puts(s, x)
<1>1. sessions[s].step = "refuse"
  BY DEF RefuseInControllerMode, At
<1>2. GoTo(s, "images") \/ End(s)
  BY DEF RefuseInControllerMode
<1>3. "images" \in Steps
  BY DEF Steps
<1>4. "images" \notin HoldsTarget \cup HoldsVersion \cup HoldsEntry \cup HoldsConfig
  BY DEF HoldsTarget, HoldsVersion, HoldsEntry, HoldsConfig
<1> QED BY <1>1, <1>2, <1>3, <1>4, EndPuts, GoToPuts

LEMMA RunningPuts ==
    ASSUME CliInv, NEW s \in Session, RunningImages(s)
    PROVE  \E x \in Sessions : Puts(s, x)
<1> DEFINE r == sessions[s]
           runningTag == running[r.component]
           targets == Targets(r.component, runningTag, r.requested)
           target == CHOOSE t \in targets : TRUE
           x == [r EXCEPT !.step = "window", !.runningTag = runningTag, !.target = target]
<1>1. Sound(r) /\ r.step = "images"
  BY DEF CliInv, RunningImages, At
<1>2. r \in Sessions /\ r.component \in Component /\ r.requested \in TagName \cup {None}
  BY <1>1 DEF Sound, Sessions
<1>3. runningTag \in TagName
  BY <1>2 DEF CliInv, TypeOK
<1>4. targets \in SUBSET TagName
  BY <1>2, CliAssumption DEF Targets
<1>5. CASE targets = {}
  BY <1>5, EndPuts DEF RunningImages
<1>6. CASE targets # {}
  <2>1. target \in TagName
    BY <1>4, <1>6
  <2>2. sessions' = [sessions EXCEPT ![s] = x]
    BY <1>6 DEF RunningImages, Continue
  <2> HIDE DEF runningTag, targets, target
  <2>3. /\ x \in Sessions /\ x.step = "window" /\ x.component = r.component
        /\ x.runningTag = runningTag /\ x.target = target
    BY <1>2, <1>3, <2>1 DEF Sessions, Steps
  <2> HIDE DEF x
  <2> QED BY <1>2, <1>3, <2>1, <2>2, <2>3
          DEF Puts, Sound, Fresh, HoldsConfig, HoldsTarget, HoldsVersion, HoldsEntry, Updates
<1> QED BY <1>5, <1>6

LEMMA WindowPuts ==
    ASSUME CliInv, NEW s \in Session, CheckWindow(s)
    PROVE  \E x \in Sessions : Puts(s, x)
<1>1. sessions[s].step = "window"
  BY DEF CheckWindow, At
<1>2. GoTo(s, "get") \/ End(s)
  BY DEF CheckWindow
<1>3. "get" \in Steps
  BY DEF Steps
<1>4. "get" \notin HoldsVersion \cup HoldsEntry \cup HoldsConfig /\ "window" \in HoldsTarget
  BY DEF HoldsTarget, HoldsVersion, HoldsEntry, HoldsConfig
<1> QED BY <1>1, <1>2, <1>3, <1>4, EndPuts, GoToPuts

LEMMA GetPuts ==
    ASSUME CliInv, NEW s \in Session, GetHelmChartConfig(s)
    PROVE  \E x \in Sessions : Puts(s, x)
<1> DEFINE r == sessions[s]
           x == [r EXCEPT !.step = "version", !.current = hcc[chartOf(s)]]
<1>1. Sound(r) /\ r.step = "get"
  BY DEF CliInv, GetHelmChartConfig, At
<1>2. r \in Sessions /\ r.component \in Component /\ r.runningTag \in TagName /\ r.target \in TagName
  BY <1>1 DEF Sound, HoldsTarget
<1>3. chartOf(s) = ChartOf[r.component] /\ ChartOf[r.component] \in Chart
  BY <1>2, CliAssumption DEF chartOf
<1>4. ProperConfig(hcc[chartOf(s)])
  BY <1>3 DEF CliInv
<1>5. hcc[chartOf(s)] \in HelmChartConfig /\ hcc[chartOf(s)].rv \in Nat
  BY <1>4 DEF ProperConfig, HelmChartConfig
<1>6. /\ x \in Sessions /\ x.step = "version" /\ x.component = r.component
      /\ x.runningTag = r.runningTag /\ x.target = r.target /\ x.current = hcc[chartOf(s)]
  BY <1>2, <1>5 DEF Sessions, Steps
<1>7. sessions' = [sessions EXCEPT ![s] = x]
  BY DEF GetHelmChartConfig, Continue
<1> HIDE DEF x
<1>8. Sound(x)
  BY <1>2, <1>4, <1>6 DEF Sound, HoldsConfig, HoldsTarget, HoldsVersion, HoldsEntry, Updates
<1>9. Fresh(x, hcc, configMap)
  BY <1>3, <1>5, <1>6 DEF Fresh, SameOrOlder
<1> QED BY <1>6, <1>7, <1>8, <1>9 DEF Puts

LEMMA VersionPuts ==
    ASSUME CliInv, NEW s \in Session, ClusterVersion(s)
    PROVE  \E x \in Sessions : Puts(s, x)
<1> DEFINE r == sessions[s]
           x == [r EXCEPT !.step = "eligible", !.clusterVersion = version]
<1>1. Sound(r) /\ Fresh(r, hcc, configMap) /\ r.step = "version" /\ version \in Version
  BY DEF CliInv, TypeOK, ClusterVersion, At
<1>2. /\ r \in Sessions /\ r.component \in Component /\ r.runningTag \in TagName
      /\ r.target \in TagName /\ ProperConfig(r.current)
      /\ SameOrOlder(r.current, hcc[ChartOf[r.component]])
  BY <1>1 DEF Sound, Fresh, HoldsTarget, HoldsConfig
<1>3. /\ x \in Sessions /\ x.step = "eligible" /\ x.component = r.component
      /\ x.runningTag = r.runningTag /\ x.target = r.target /\ x.current = r.current
      /\ x.clusterVersion = version
  BY <1>1, <1>2 DEF Sessions, Steps
<1>4. sessions' = [sessions EXCEPT ![s] = x]
  BY DEF ClusterVersion, Continue
<1> HIDE DEF x
<1>5. Sound(x)
  BY <1>1, <1>2, <1>3 DEF Sound, HoldsConfig, HoldsTarget, HoldsVersion, HoldsEntry, Updates
<1> QED BY <1>2, <1>3, <1>4, <1>5 DEF Puts, Fresh

LEMMA EligiblePuts ==
    ASSUME CliInv, NEW s \in Session, GenerateStateWrite(s)
    PROVE  \E x \in Sessions : Puts(s, x)
<1> DEFINE r == sessions[s]
           existing == configMap.entries[r.component][r.clusterVersion]
           baseline == IF existing # NoEntry THEN existing.baselineTag ELSE r.runningTag
           entry == [baselineTag |-> baseline, patchedToTag |-> r.target]
           x == [r EXCEPT !.step = "apply", !.entry = entry]
<1>1. Sound(r) /\ Fresh(r, hcc, configMap) /\ r.step = "eligible" /\ configMap \in ConfigMap
  BY DEF CliInv, TypeOK, GenerateStateWrite, At
<1>2. /\ r \in Sessions /\ r.component \in Component /\ r.runningTag \in TagName
      /\ r.target \in TagName /\ r.clusterVersion \in Version /\ ProperConfig(r.current)
      /\ SameOrOlder(r.current, hcc[ChartOf[r.component]])
  BY <1>1 DEF Sound, Fresh, HoldsTarget, HoldsVersion, HoldsConfig
<1>3. existing \in Entry \cup {NoEntry}
  BY <1>1, <1>2 DEF ConfigMap, Entries
<1>4. baseline \in TagName
  BY <1>2, <1>3 DEF Entry
<1>5. entry \in Entry
  BY <1>2, <1>4 DEF Entry
<1>6. End(s) \/ sessions' = [sessions EXCEPT ![s] = x]
  BY DEF GenerateStateWrite, Continue
<1> HIDE DEF entry
<1>7. /\ x \in Sessions /\ x.step = "apply" /\ x.component = r.component
      /\ x.runningTag = r.runningTag /\ x.target = r.target /\ x.current = r.current
      /\ x.clusterVersion = r.clusterVersion /\ x.entry = entry
  BY <1>2, <1>5 DEF Sessions, Steps
<1> HIDE DEF x
<1>8. Sound(x)
  BY <1>2, <1>5, <1>7 DEF Sound, HoldsConfig, HoldsTarget, HoldsVersion, HoldsEntry, Updates
<1>9. Fresh(x, hcc, configMap)
  BY <1>2, <1>7 DEF Fresh
<1> QED BY <1>6, <1>7, <1>8, <1>9, EndPuts DEF Puts

LEMMA NamespacePuts ==
    ASSUME CliInv, NEW s \in Session, EnsureNamespace(s) \/ PromptYesNo(s)
    PROVE  \E x \in Sessions : Puts(s, x)
<1>1. sessions[s].step \in {"namespace", "prompt"}
  BY DEF EnsureNamespace, PromptYesNo, At
<1>2. GoTo(s, "load") \/ GoTo(s, "prompt") \/ End(s)
  BY DEF EnsureNamespace, PromptYesNo
<1>3. "load" \in Steps /\ "prompt" \in Steps
  BY DEF Steps
<1>4. /\ {"load", "prompt"} \cap (HoldsTarget \cup HoldsConfig) = {}
      /\ "load" \notin HoldsVersion \cup HoldsEntry
      /\ {"namespace", "prompt"} \subseteq HoldsVersion \cap HoldsEntry
  BY DEF HoldsTarget, HoldsVersion, HoldsEntry, HoldsConfig
<1> QED BY <1>1, <1>2, <1>3, <1>4, EndPuts, GoToPuts

LEMMA ReconcileVersionPuts ==
    ASSUME CliInv, NEW s \in Session, ReconcileVersion(s)
    PROVE  \E x \in Sessions : Puts(s, x)
<1> DEFINE r == sessions[s]
           x == [r EXCEPT !.step = "reconcileState", !.clusterVersion = version]
<1>1. Sound(r) /\ r.step = "reconcileVersion" /\ version \in Version
  BY DEF CliInv, TypeOK, ReconcileVersion, At
<1>2. r \in Sessions /\ r.component \in Component
  BY <1>1 DEF Sound
<1>3. /\ x \in Sessions /\ x.step = "reconcileState" /\ x.component = r.component
      /\ x.clusterVersion = version
  <2>1. x \in Sessions
    BY <1>1, <1>2, FieldsTyped DEF Steps
  <2> QED BY <1>2, <2>1 DEF Sessions
<1>4. sessions' = [sessions EXCEPT ![s] = x]
  BY DEF ReconcileVersion, Continue
<1> HIDE DEF x
<1> QED BY <1>1, <1>2, <1>3, <1>4
        DEF Puts, Sound, Fresh, HoldsConfig, HoldsTarget, HoldsVersion, HoldsEntry, Updates

LEMMA ReconcileStatePuts ==
    ASSUME CliInv, NEW s \in Session, ReconcileState(s)
    PROVE  \E x \in Sessions : Puts(s, x)
<1> DEFINE r == sessions[s]
           keys == keysOf(configMap.entries, r.component)
           stale == keys \ {r.clusterVersion}
           chosen == IF stale # {} THEN stale ELSE keys
           x == [r EXCEPT !.step = "revertGet", !.keys = chosen]
<1>1. Sound(r) /\ r.step = "reconcileState"
  BY DEF CliInv, ReconcileState, At
<1>2. r \in Sessions /\ r.component \in Component
  BY <1>1 DEF Sound
<1>3. chosen \in SUBSET Version
  BY DEF keysOf
<1>4. End(s) \/ sessions' = [sessions EXCEPT ![s] = x]
  BY DEF ReconcileState, Continue
<1> HIDE DEF chosen
<1>5. x \in Sessions /\ x.step = "revertGet" /\ x.component = r.component
  <2>1. x \in Sessions
    BY <1>2, <1>3, FieldsTyped DEF Steps
  <2> QED BY <1>2, <2>1 DEF Sessions
<1> HIDE DEF x
<1>6. Sound(x) /\ Fresh(x, hcc, configMap)
  BY <1>2, <1>5 DEF Sound, Fresh, HoldsConfig, HoldsTarget, HoldsVersion, HoldsEntry, Updates
<1> QED BY <1>4, <1>5, <1>6, EndPuts DEF Puts

LEMMA RevertGetPuts ==
    ASSUME CliInv, NEW s \in Session, RevertGet(s)
    PROVE  \E x \in Sessions : Puts(s, x)
<1> DEFINE r == sessions[s]
           config == hcc[chartOf(s)]
<1>1. Sound(r) /\ r.step = "revertGet"
  BY DEF CliInv, RevertGet, At
<1>2. r \in Sessions /\ r.component \in Component
  BY <1>1 DEF Sound
<1>3. config = hcc[ChartOf[r.component]] /\ ChartOf[r.component] \in Chart
  BY <1>2, CliAssumption DEF chartOf
<1>4. ProperConfig(config) /\ config \in HelmChartConfig /\ config.rv \in Nat
  BY <1>3 DEF CliInv, ProperConfig, HelmChartConfig
<1>5. CASE End(s)
  BY <1>5, EndPuts
<1>6. CASE r.reverted # {} /\ GoTo(s, "load")
  <2>1. "load" \in Steps
    BY DEF Steps
  <2>2. "load" \notin HoldsTarget \cup HoldsVersion \cup HoldsEntry \cup HoldsConfig
    BY DEF HoldsTarget, HoldsVersion, HoldsEntry, HoldsConfig
  <2> QED BY <1>1, <1>6, <2>1, <2>2, GoToPuts
<1>7. CASE Continue(s, [r EXCEPT !.step = "revertApply", !.current = config])
  <2> DEFINE x == [r EXCEPT !.step = "revertApply", !.current = config]
  <2>1. sessions' = [sessions EXCEPT ![s] = x]
    BY <1>7 DEF Continue
  <2> HIDE DEF config
  <2>2. /\ x \in Sessions /\ x.step = "revertApply" /\ x.component = r.component
        /\ x.current = config
    <3>1. x \in Sessions
      BY <1>2, <1>4, FieldsTyped DEF Steps
    <3> QED BY <1>2, <3>1 DEF Sessions
  <2> HIDE DEF x
  <2>3. Sound(x)
    BY <1>2, <1>4, <2>2 DEF Sound, HoldsConfig, HoldsTarget, HoldsVersion, HoldsEntry, Updates
  <2>4. Fresh(x, hcc, configMap)
    BY <1>3, <1>4, <2>2 DEF Fresh, SameOrOlder
  <2> QED BY <2>1, <2>2, <2>3, <2>4 DEF Puts
<1>8. ASSUME NEW v \in Version, Continue(s, [r EXCEPT !.keys = @ \ {v}])
      PROVE  \E x \in Sessions : Puts(s, x)
  <2> DEFINE x == [r EXCEPT !.keys = @ \ {v}]
  <2>1. sessions' = [sessions EXCEPT ![s] = x]
    BY <1>8 DEF Continue
  <2>2. x \in Sessions /\ x.step = "revertGet" /\ x.component = r.component
    BY <1>1, <1>2 DEF Sessions
  <2> HIDE DEF x
  <2>3. Sound(x) /\ Fresh(x, hcc, configMap)
    BY <1>2, <2>2 DEF Sound, Fresh, HoldsConfig, HoldsTarget, HoldsVersion, HoldsEntry, Updates
  <2> QED BY <2>1, <2>2, <2>3 DEF Puts
<1>9. r.keys \in SUBSET Version
  BY <1>2 DEF Sessions
<1> QED BY <1>5, <1>6, <1>7, <1>8, <1>9 DEF RevertGet

-----------------------------------------------------------------------------
(* The update loop                                                         *)

\* What the code reads and writes of a record in the mutation.
SameDecision(x, r) ==
    /\ x.component = r.component /\ x.clusterVersion = r.clusterVersion
    /\ x.entry = r.entry /\ x.reverted = r.reverted

LEMMA MutatedTyped ==
    ASSUME NEW entries \in Entries, NEW x, x.component \in Component,
           x.reverted = {} => x.clusterVersion \in Version /\ x.entry \in Entry
    PROVE  Mutated(entries, x) \in Entries
<1>1. CASE x.reverted # {}
  BY <1>1 DEF Mutated, Removed, Entries
<1>2. CASE x.reverted = {}
  <2> DEFINE existing == entries[x.component][x.clusterVersion]
             new == IF existing = NoEntry THEN x.entry
                    ELSE [x.entry EXCEPT !.baselineTag = existing.baselineTag]
  <2>1. existing \in Entry \cup {NoEntry}
    BY <1>2 DEF Entries
  <2>2. new \in Entry
    BY <1>2, <2>1 DEF Entry
  <2>3. Mutated(entries, x) = [entries EXCEPT ![x.component][x.clusterVersion] = new]
    BY <1>2 DEF Mutated, Persisted
  <2> HIDE DEF new
  <2> QED BY <1>2, <2>2, <2>3 DEF Entries
<1> QED BY <1>1, <1>2

LEMMA LoadPuts ==
    ASSUME CliInv, NEW s \in Session, Load(s)
    PROVE  \E x \in Sessions : Puts(s, x)
<1> DEFINE r == sessions[s]
           updated == Mutated(configMap.entries, r)
           x == [r EXCEPT !.step = "save", !.read = configMap, !.updated = updated]
<1>1. Sound(r) /\ r.step = "load" /\ ProperState(configMap)
  BY DEF CliInv, Load, At
<1>2. /\ r \in Sessions /\ r.component \in Component /\ configMap \in ConfigMap
      /\ r.reverted = {} => r.clusterVersion \in Version /\ r.entry \in Entry
  BY <1>1 DEF Sound, Updates, ProperState
<1>3. updated \in Entries /\ configMap.rv \in Nat
  BY <1>2, MutatedTyped DEF ConfigMap
<1>4. End(s) \/ sessions' = [sessions EXCEPT ![s] = x]
  BY DEF Load, Continue
<1> HIDE DEF updated
<1>5. /\ x \in Sessions /\ x.step = "save" /\ x.read = configMap /\ x.updated = updated
      /\ SameDecision(x, r)
  <2>1. x \in Sessions
    BY <1>2, <1>3, FieldsTyped DEF Steps
  <2> QED BY <1>2, <2>1 DEF Sessions, SameDecision
<1> HIDE DEF x
<1>6. x.updated = Mutated(x.read.entries, x)
  BY <1>5 DEF updated, SameDecision, Mutated, Removed, Persisted
<1>7. Sound(x)
  BY <1>1, <1>2, <1>5, <1>6
     DEF Sound, SameDecision, HoldsConfig, HoldsTarget, HoldsVersion, HoldsEntry, Updates
<1>8. Fresh(x, hcc, configMap)
  BY <1>3, <1>5 DEF Fresh, SameOrOlder, HoldsConfig
<1> QED BY <1>4, <1>5, <1>7, <1>8, EndPuts DEF Puts
-----------------------------------------------------------------------------
(* What the writes change                                                  *)

\* A run writes the HelmChartConfig of its chart, and the value of its component only.
WritesConfig(s) ==
    \E new \in HelmChartConfig :
        LET old == hcc[chartOf(s)]
        IN  /\ hcc' = [hcc EXCEPT ![chartOf(s)] = new]
            /\ ProperConfig(new) /\ new.rv = old.rv + 1 /\ new.other = old.other
            /\ \A c \in Component \ {sessions[s].component} : new.value[c] = old.value[c]

\* A run writes the state, and entries of its component only.
WritesState(s) ==
    \E map \in ConfigMap :
        /\ configMap' = map
        /\ ProperState(map) /\ map.rv = configMap.rv + 1
        /\ \A c \in Component \ {sessions[s].component} : map.entries[c] = configMap.entries[c]
        /\ \A c \in Component, v \in Version :
              LET old == configMap.entries[c][v]
              IN  old # NoEntry /\ map.entries[c][v] # NoEntry =>
                     map.entries[c][v].baselineTag = old.baselineTag

\* The record of a run after a write: nothing read is left in it.
Leaves(s, x) ==
    /\ sessions' = [sessions EXCEPT ![s] = x]
    /\ Sound(x) /\ x.step \notin HoldsConfig \cup {"save"}

LEMMA EndLeaves ==
    ASSUME NEW s \in Session, End(s)
    PROVE  \E x \in Sessions : Leaves(s, x)
<1> DEFINE x == [NewSession EXCEPT !.step = "over"]
<1>1. Sound(x)
  BY NewSound
<1>2. x.step = "over"
  BY DEF NewSession
<1>3. sessions' = [sessions EXCEPT ![s] = x]
  BY DEF End, Continue
<1> HIDE DEF x
<1> QED BY <1>1, <1>2, <1>3 DEF Leaves, Sound, HoldsConfig

\* A HelmChartConfig that may be written is the one that was read.
LEMMA SameContent ==
    ASSUME CliInv, NEW s \in Session, sessions[s].step \in {"apply", "revertApply"},
           ApplySucceeds(s)
    PROVE  LET current == sessions[s].current
               old == hcc[chartOf(s)]
           IN  /\ current \in HelmChartConfig /\ old \in HelmChartConfig /\ chartOf(s) \in Chart
               /\ current.value = old.value /\ current.other = old.other
<1> DEFINE r == sessions[s]
           current == r.current
           old == hcc[chartOf(s)]
<1>1. Sound(r) /\ Fresh(r, hcc, configMap)
  BY DEF CliInv
<1>2. r.component \in Component /\ ProperConfig(current)
      /\ SameOrOlder(current, hcc[ChartOf[r.component]])
  BY <1>1 DEF Sound, Fresh, HoldsConfig
<1>3. chartOf(s) = ChartOf[r.component] /\ chartOf(s) \in Chart
  BY <1>2, CliAssumption DEF chartOf
<1>4. ProperConfig(old)
  BY <1>3 DEF CliInv
<1>5. CASE current.exists
  <2>1. old.rv = current.rv
    BY <1>5 DEF ApplySucceeds
  <2>2. old = current
    BY <1>2, <1>3, <2>1 DEF SameOrOlder
  <2> QED BY <1>2, <1>3, <1>4, <2>2 DEF ProperConfig
<1>6. CASE ~current.exists
  <2>1. ~old.exists
    BY <1>6 DEF ApplySucceeds
  <2>2. current = NoConfig(current.rv) /\ old = NoConfig(old.rv)
    BY <1>2, <1>4, <1>6, <2>1 DEF ProperConfig
  <2>3. \A rv : NoConfig(rv).value = [c \in Component |-> None] /\ NoConfig(rv).other = 0
    BY DEF NoConfig
  <2> QED BY <1>2, <1>3, <1>4, <2>2, <2>3 DEF ProperConfig
<1> QED BY <1>5, <1>6

\* A write of one value into what was read.
LEMMA WriteValue ==
    ASSUME CliInv, NEW s \in Session, sessions[s].step \in {"apply", "revertApply"},
           ApplySucceeds(s), NEW value \in TagName \cup {None},
           Write(s, [sessions[s].current EXCEPT !.value[sessions[s].component] = value])
    PROVE  WritesConfig(s)
<1> DEFINE r == sessions[s]
           current == r.current
           old == hcc[chartOf(s)]
           values == [current.value EXCEPT ![r.component] = value]
           merged == [current EXCEPT !.value[r.component] = value]
           new == [merged EXCEPT !.exists = TRUE, !.rv = old.rv + 1]
<1>1. /\ current \in HelmChartConfig /\ old \in HelmChartConfig
      /\ current.value = old.value /\ current.other = old.other
  BY SameContent
<1>2. r.component \in Component
  BY DEF CliInv, Sound
<1>3. merged = [current EXCEPT !.value = values]
  BY <1>1 DEF HelmChartConfig
<1>4. values \in [Component -> TagName \cup {None}]
  BY <1>1 DEF HelmChartConfig
<1>5. \A c \in Component \ {r.component} : values[c] = old.value[c]
  BY <1>1 DEF HelmChartConfig
<1>6. hcc' = [hcc EXCEPT ![chartOf(s)] = new]
  BY DEF Write
<1> HIDE DEF values
<1>7. old.rv + 1 \in Nat
  BY <1>1 DEF HelmChartConfig
<1>8. /\ new \in HelmChartConfig /\ new.exists /\ new.rv = old.rv + 1
      /\ new.other = old.other /\ new.value = values
  BY <1>1, <1>3, <1>4, <1>7 DEF HelmChartConfig
<1> HIDE DEF new, merged
<1>9. ProperConfig(new)
  BY <1>8 DEF ProperConfig
<1> QED BY <1>5, <1>6, <1>8, <1>9 DEF WritesConfig

LEMMA ApplyWrites ==
    ASSUME CliInv, NEW s \in Session, Apply(s)
    PROVE  /\ \E x \in Sessions : Leaves(s, x)
           /\ UNCHANGED hcc \/ WritesConfig(s)
<1> DEFINE r == sessions[s]
           x == [r EXCEPT !.step = "namespace"]
<1>1. Sound(r) /\ r.step = "apply"
  BY DEF CliInv, Apply, At
<1>2. /\ r \in Sessions /\ r.component \in Component /\ r.target \in TagName
      /\ r.clusterVersion \in Version /\ r.entry \in Entry
  BY <1>1 DEF Sound, HoldsTarget, HoldsVersion, HoldsEntry
<1>3. CASE ApplySucceeds(s)
  <2>1. WritesConfig(s)
    BY <1>1, <1>2, <1>3, WriteValue DEF Apply
  <2>2. sessions' = [sessions EXCEPT ![s] = x]
    BY <1>3 DEF Apply, GoTo, Continue
  <2>3. /\ x \in Sessions /\ x.step = "namespace" /\ x.component = r.component
        /\ x.clusterVersion = r.clusterVersion /\ x.entry = r.entry
    BY <1>2 DEF Sessions, Steps
  <2> HIDE DEF x
  <2>4. Sound(x) /\ x.step \notin HoldsConfig \cup {"save"}
    BY <1>2, <2>3 DEF Sound, HoldsConfig, HoldsTarget, HoldsVersion, HoldsEntry, Updates
  <2> QED BY <2>1, <2>2, <2>3, <2>4 DEF Leaves
<1>4. CASE ~ApplySucceeds(s)
  BY <1>4, EndLeaves DEF Apply
<1> QED BY <1>3, <1>4

LEMMA RevertApplyWrites ==
    ASSUME CliInv, NEW s \in Session, RevertApply(s)
    PROVE  /\ \E x \in Sessions : Leaves(s, x)
           /\ UNCHANGED hcc \/ WritesConfig(s)
<1> DEFINE r == sessions[s]
<1>1. Sound(r) /\ r.step = "revertApply"
  BY DEF CliInv, RevertApply, At
<1>2. r \in Sessions /\ r.component \in Component
  BY <1>1 DEF Sound
<1>3. CASE ApplySucceeds(s)
  <2>1. WritesConfig(s)
    BY <1>1, <1>3, WriteValue DEF RevertApply
  <2>2. r.keys \in SUBSET Version /\ r.reverted \in SUBSET Version
    BY <1>2 DEF Sessions
  <2>3. PICK v \in r.keys :
           Continue(s, [r EXCEPT !.step = "revertGet", !.keys = @ \ {v},
                                 !.reverted = @ \cup {v}, !.current = None])
    BY <1>3 DEF RevertApply
  <2> DEFINE x == [r EXCEPT !.step = "revertGet", !.keys = @ \ {v},
                            !.reverted = @ \cup {v}, !.current = None]
  <2>4. x \in Sessions
    BY <1>2, <2>2 DEF Sessions, Steps
  <2>5. x.step = "revertGet" /\ x.component = r.component
    BY <1>2 DEF Sessions
  <2>6. sessions' = [sessions EXCEPT ![s] = x]
    BY <2>3 DEF Continue
  <2> HIDE DEF x
  <2>7. Sound(x) /\ x.step \notin HoldsConfig \cup {"save"}
    BY <1>2, <2>4, <2>5 DEF Sound, HoldsConfig, HoldsTarget, HoldsVersion, HoldsEntry, Updates
  <2> QED BY <2>1, <2>4, <2>6, <2>7 DEF Leaves
<1>4. CASE ~ApplySucceeds(s)
  BY <1>4, EndLeaves DEF RevertApply
<1> QED BY <1>3, <1>4

\* A state that may be saved is the one that was loaded.
LEMMA SameState ==
    ASSUME CliInv, NEW s \in Session, sessions[s].step = "save", SaveSucceeds(s)
    PROVE  sessions[s].read.entries = configMap.entries
<1> DEFINE read == sessions[s].read
<1>1. ProperState(read) /\ SameOrOlder(read, configMap) /\ ProperState(configMap)
  BY DEF CliInv, Sound, Fresh
<1>2. CASE read.exists
  BY <1>1, <1>2 DEF SaveSucceeds, SameOrOlder
<1>3. CASE ~read.exists
  BY <1>1, <1>3 DEF SaveSucceeds, ProperState
<1> QED BY <1>2, <1>3

\* A mutation concerns one component, and keeps the baseline of an entry it keeps.
LEMMA MutatedKeeps ==
    ASSUME NEW entries \in Entries, NEW x, x.component \in Component,
           x.reverted = {} => x.clusterVersion \in Version /\ x.entry \in Entry
    PROVE  LET new == Mutated(entries, x)
           IN  /\ \A c \in Component \ {x.component} : new[c] = entries[c]
               /\ \A c \in Component, v \in Version :
                     entries[c][v] # NoEntry /\ new[c][v] # NoEntry =>
                        new[c][v].baselineTag = entries[c][v].baselineTag
<1> DEFINE new == Mutated(entries, x)
<1>1. CASE x.reverted # {}
  <2>1. new = [entries EXCEPT ![x.component] =
                  [v \in Version |-> IF v \in x.reverted THEN NoEntry ELSE @[v]]]
    BY <1>1 DEF Mutated, Removed
  <2> HIDE DEF new
  <2>2. \A c \in Component \ {x.component} : new[c] = entries[c]
    BY <2>1 DEF Entries
  <2>3. \A v \in Version : new[x.component][v] \in {NoEntry, entries[x.component][v]}
    BY <2>1 DEF Entries
  <2> QED BY <2>2, <2>3 DEF new
<1>2. CASE x.reverted = {}
  <2> DEFINE existing == entries[x.component][x.clusterVersion]
             entry == IF existing = NoEntry THEN x.entry
                      ELSE [x.entry EXCEPT !.baselineTag = existing.baselineTag]
  <2>1. new = [entries EXCEPT ![x.component][x.clusterVersion] = entry]
    BY <1>2 DEF Mutated, Persisted
  <2>2. existing # NoEntry => entry.baselineTag = existing.baselineTag
    BY <1>2 DEF Entry
  <2> HIDE DEF new, entry
  <2>3. \A c \in Component \ {x.component} : new[c] = entries[c]
    BY <2>1 DEF Entries
  <2>4. \A v \in Version \ {x.clusterVersion} : new[x.component][v] = entries[x.component][v]
    BY <2>1 DEF Entries
  <2>5. new[x.component][x.clusterVersion] = entry
    BY <1>2, <2>1 DEF Entries
  <2> QED BY <2>2, <2>3, <2>4, <2>5 DEF new
<1> QED BY <1>1, <1>2

LEMMA SaveWrites ==
    ASSUME CliInv, NEW s \in Session, Save(s)
    PROVE  /\ \E x \in Sessions : Leaves(s, x)
           /\ UNCHANGED configMap \/ WritesState(s)
<1> DEFINE r == sessions[s]
<1>1. Sound(r) /\ r.step = "save" /\ configMap \in ConfigMap
  BY DEF CliInv, TypeOK, Save, At
<1>2. /\ r \in Sessions /\ r.component \in Component
      /\ r.reverted = {} => r.clusterVersion \in Version /\ r.entry \in Entry
      /\ r.updated = Mutated(r.read.entries, r)
  BY <1>1 DEF Sound, Updates
<1>3. CASE SaveSucceeds(s)
  <2> DEFINE map == [exists |-> TRUE, rv |-> configMap.rv + 1, entries |-> r.updated]
  <2>1. configMap.entries \in Entries /\ configMap.rv + 1 \in Nat
    BY <1>1 DEF ConfigMap
  <2>2. r.updated = Mutated(configMap.entries, r)
    BY <1>1, <1>2, <1>3, SameState
  <2>3. r.updated \in Entries
    BY <1>2, <2>1, <2>2, MutatedTyped
  <2>4. map \in ConfigMap /\ ProperState(map)
    BY <2>1, <2>3 DEF ConfigMap, ProperState
  <2>5. configMap' = map
    BY <1>3 DEF Save
  <2>6. WritesState(s)
    BY <1>2, <2>1, <2>2, <2>4, <2>5, MutatedKeeps DEF WritesState
  <2> QED BY <1>3, <2>6, EndLeaves DEF Save
<1>4. CASE ~SaveSucceeds(s) /\ AttemptsLeft(s)
  <2> DEFINE x == [r EXCEPT !.step = "load", !.attempts = @ + 1, !.read = None, !.updated = None]
  <2>1. r.attempts + 1 \in 0..updateAttempts - 1
    BY <1>2, <1>4, CliAssumption DEF AttemptsLeft, Sessions
  <2>2. x \in Sessions
    BY <1>2, <2>1 DEF Sessions, Steps
  <2>3. /\ x.step = "load" /\ x.component = r.component /\ x.reverted = r.reverted
        /\ x.clusterVersion = r.clusterVersion /\ x.entry = r.entry
    BY <1>2 DEF Sessions
  <2>4. sessions' = [sessions EXCEPT ![s] = x]
    BY <1>4 DEF Save, Continue
  <2> HIDE DEF x
  <2>5. Sound(x) /\ x.step \notin HoldsConfig \cup {"save"}
    BY <1>2, <2>2, <2>3 DEF Sound, HoldsConfig, HoldsTarget, HoldsVersion, HoldsEntry, Updates
  <2> QED BY <1>4, <2>2, <2>4, <2>5 DEF Leaves, Save
<1>5. CASE ~SaveSucceeds(s) /\ ~AttemptsLeft(s)
  BY <1>5, EndLeaves DEF Save
<1> QED BY <1>3, <1>4, <1>5

-----------------------------------------------------------------------------
(* Steps of a run                                                          *)

RunEffect(s) ==
    /\ \E x \in Sessions : /\ sessions' = [sessions EXCEPT ![s] = x]
                           /\ Sound(x) /\ Fresh(x, hcc', configMap')
    /\ hcc' = hcc \/ WritesConfig(s)
    /\ configMap' = configMap \/ WritesState(s)
    /\ UNCHANGED <<imagePatches, version, running>>
    /\ stateNamespace' \in BOOLEAN

LEMMA PutsEffect ==
    ASSUME CliInv, NEW s \in Session, \E x \in Sessions : Puts(s, x), Quiet,
           UNCHANGED <<imagePatches, version, running>>, stateNamespace' \in BOOLEAN
    PROVE  RunEffect(s)
<1>1. hcc' = hcc /\ configMap' = configMap
  BY DEF Quiet
<1>2. PICK x \in Sessions : Puts(s, x)
  OBVIOUS
<1>3. Fresh(x, hcc', configMap')
  BY <1>1, <1>2, Zenon DEF Puts
<1> QED BY <1>1, <1>2, <1>3 DEF Puts, RunEffect

LEMMA LeavesEffect ==
    ASSUME CliInv, NEW s \in Session, \E x \in Sessions : Leaves(s, x),
           hcc' = hcc \/ WritesConfig(s), configMap' = configMap \/ WritesState(s),
           UNCHANGED clusterVars
    PROVE  RunEffect(s)
<1>1. PICK x \in Sessions : Leaves(s, x)
  OBVIOUS
<1>2. Fresh(x, hcc', configMap')
  BY <1>1 DEF Leaves, Fresh
<1>3. stateNamespace' \in BOOLEAN
  BY DEF CliInv, TypeOK, clusterVars
<1> QED BY <1>1, <1>2, <1>3 DEF Leaves, RunEffect, clusterVars

LEMMA RunStep ==
    ASSUME CliInv, NEW s \in Session, Run(s)
    PROVE  RunEffect(s)
<1>1. stateNamespace \in BOOLEAN
  BY DEF CliInv, TypeOK
<1>2. CASE RefuseInControllerMode(s)
  BY <1>1, <1>2, RefusePuts, PutsEffect DEF RefuseInControllerMode, Quiet, clusterVars
<1>3. CASE RunningImages(s)
  BY <1>1, <1>3, RunningPuts, PutsEffect DEF RunningImages, Quiet, clusterVars
<1>4. CASE CheckWindow(s)
  BY <1>1, <1>4, WindowPuts, PutsEffect DEF CheckWindow, Quiet, clusterVars
<1>5. CASE GetHelmChartConfig(s)
  BY <1>1, <1>5, GetPuts, PutsEffect DEF GetHelmChartConfig, Quiet, clusterVars
<1>6. CASE Decline(s)
  BY <1>1, <1>6, EndPuts, PutsEffect DEF Decline, Quiet, clusterVars
<1>7. CASE ClusterVersion(s)
  BY <1>1, <1>7, VersionPuts, PutsEffect DEF ClusterVersion, Quiet, clusterVars
<1>8. CASE GenerateStateWrite(s)
  BY <1>1, <1>8, EligiblePuts, PutsEffect DEF GenerateStateWrite, Quiet, clusterVars
<1>9. CASE Apply(s)
  BY <1>9, ApplyWrites, LeavesEffect DEF Apply
<1>10. CASE EnsureNamespace(s)
  BY <1>1, <1>10, NamespacePuts, PutsEffect DEF EnsureNamespace, Quiet, clusterVars
<1>11. CASE PromptYesNo(s)
  BY <1>1, <1>11, NamespacePuts, PutsEffect DEF PromptYesNo, Quiet
<1>12. CASE ReconcileVersion(s)
  BY <1>1, <1>12, ReconcileVersionPuts, PutsEffect DEF ReconcileVersion, Quiet, clusterVars
<1>13. CASE ReconcileState(s)
  BY <1>1, <1>13, ReconcileStatePuts, PutsEffect DEF ReconcileState, Quiet, clusterVars
<1>14. CASE RevertGet(s)
  BY <1>1, <1>14, RevertGetPuts, PutsEffect DEF RevertGet, Quiet, clusterVars
<1>15. CASE RevertApply(s)
  BY <1>15, RevertApplyWrites, LeavesEffect DEF RevertApply
<1>16. CASE Load(s)
  BY <1>1, <1>16, LoadPuts, PutsEffect DEF Load, Quiet, clusterVars
<1>17. CASE Save(s)
  BY <1>17, SaveWrites, LeavesEffect DEF Save
<1> QED BY <1>2, <1>3, <1>4, <1>5, <1>6, <1>7, <1>8, <1>9, <1>10, <1>11, <1>12, <1>13,
           <1>14, <1>15, <1>16, <1>17 DEF Run

LEMMA CommandStep ==
    ASSUME CliInv, NEW s \in Session, Command(s) \/ RunFails(s)
    PROVE  RunEffect(s) /\ disturbances' \in 0..MaxDisturbances
<1>1. disturbances' \in 0..MaxDisturbances
  BY CliModeAssumption DEF CliInv, TypeOK, Command, RunFails, Disturb
<1>2. CASE Run(s)
  BY <1>1, <1>2, RunStep
<1>3. stateNamespace \in BOOLEAN
  BY DEF CliInv, TypeOK
<1>4. ASSUME NEW c \in Component, NEW tag \in UserTags \cup {None},
             StartReconcile(s, c) \/ StartPatch(s, c, tag)
      PROVE  RunEffect(s)
  BY <1>3, <1>4, StartPuts, PutsEffect DEF StartReconcile, StartPatch, Quiet, clusterVars
<1>5. CASE Fail(s)
  BY <1>1, <1>3, <1>5, EndPuts, PutsEffect DEF Fail, Quiet, clusterVars
<1>6. Run(s) \/ Fail(s) \/ \E c \in Component :
         StartReconcile(s, c) \/ \E tag \in UserTags \cup {None} : StartPatch(s, c, tag)
  BY Zenon DEF Command, RunFails
<1>7. RunEffect(s)
  BY <1>2, <1>4, <1>5, <1>6, Zenon
<1> QED BY <1>1, <1>7, Zenon

-----------------------------------------------------------------------------
(* Steps of others                                                         *)

\* Whatever a step does to an object, it is another version of it afterwards.
Moves ==
    /\ hcc' \in [Chart -> HelmChartConfig]
    /\ \A h \in Chart : ProperConfig(hcc'[h]) /\ (hcc'[h] = hcc[h] \/ hcc'[h].rv > hcc[h].rv)
    /\ ProperState(configMap') /\ (configMap' = configMap \/ configMap'.rv > configMap.rv)

OthersEffect ==
    /\ sessions' = sessions
    /\ Moves
    /\ configMap' = configMap \/ configMap'.entries = NoEntries
    /\ imagePatches' \in SUBSET Component /\ version' \in Version
    /\ running' \in [Component -> TagName] /\ stateNamespace' \in BOOLEAN

OthersStep ==
    \/ \E c \in Component : RollOut(c) \/ (\E value \in UserTags \cup {None} : EditValue(c, value))
    \/ \E h \in Chart : EditOther(h) \/ DeleteConfig(h)
    \/ \E v \in Version : Upgrade(v)
    \/ \E names \in SUBSET Component : ChangeImagePatches(names)
    \/ DeleteState

LEMMA NoMoves ==
    ASSUME CliInv, UNCHANGED <<hcc, configMap>>
    PROVE  Moves
BY DEF CliInv, TypeOK, Moves

LEMMA EditMoves ==
    ASSUME CliInv, NEW h \in Chart, NEW config \in HelmChartConfig,
           config.exists \/ config = NoConfig(0), EditConfig(h, config)
    PROVE  OthersEffect
<1> DEFINE new == [config EXCEPT !.rv = hcc[h].rv + 1]
<1>1. hcc[h].rv \in Nat /\ hcc[h].rv + 1 \in Nat /\ hcc[h].rv + 1 > hcc[h].rv
  BY DEF CliInv, TypeOK, HelmChartConfig
<1>2. new \in HelmChartConfig /\ new.rv = hcc[h].rv + 1 /\ new.exists = config.exists
  BY <1>1 DEF HelmChartConfig
<1>3. config = NoConfig(0) => new = NoConfig(new.rv)
  <2>1. new.value = config.value /\ new.other = config.other
    BY DEF HelmChartConfig
  <2>2. NoConfig(0).exists = FALSE /\ NoConfig(0).value = [c \in Component |-> None]
        /\ NoConfig(0).other = 0
    BY DEF NoConfig
  <2> HIDE DEF new
  <2> QED BY <1>2, <2>1, <2>2 DEF HelmChartConfig, NoConfig
<1>4. hcc' = [hcc EXCEPT ![h] = new] /\ UNCHANGED <<configMap, clusterVars, sessions>>
  BY DEF EditConfig
<1> HIDE DEF new
<1>5. ProperConfig(new)
  BY <1>2, <1>3 DEF ProperConfig
<1>6. Moves
  BY <1>1, <1>2, <1>4, <1>5 DEF Moves, CliInv, TypeOK
<1> QED BY <1>4, <1>6 DEF OthersEffect, CliInv, TypeOK, clusterVars

LEMMA OthersStepEffect ==
    ASSUME CliInv, OthersStep
    PROVE  OthersEffect
<1>1. TypeOK
  BY DEF CliInv
<1>2. ASSUME NEW c \in Component, RollOut(c)
      PROVE  OthersEffect
  <2>1. hcc[ChartOf[c]].value[c] \in TagName \cup {None} /\ BundledTag[version][c] \in TagName
    BY <1>1, CliAssumption, CliModeAssumption DEF TypeOK, HelmChartConfig
  <2>2. Rendered(c) \in TagName
    BY <2>1 DEF Rendered
  <2> QED BY <1>1, <1>2, <2>2, NoMoves DEF RollOut, OthersEffect, TypeOK
<1>3. ASSUME NEW c \in Component, NEW value \in UserTags \cup {None}, EditValue(c, value)
      PROVE  OthersEffect
  <2> DEFINE old == hcc[ChartOf[c]]
             values == [old.value EXCEPT ![c] = value]
             config == [old EXCEPT !.exists = TRUE, !.value[c] = value]
  <2>1. ChartOf[c] \in Chart /\ value \in TagName \cup {None}
    BY CliAssumption, CliModeAssumption
  <2>2. old \in HelmChartConfig
    BY <1>1, <2>1 DEF TypeOK
  <2>3. values \in [Component -> TagName \cup {None}]
    BY <2>1, <2>2 DEF HelmChartConfig
  <2>4. config = [old EXCEPT !.exists = TRUE, !.value = values]
    BY <2>2 DEF HelmChartConfig
  <2>5. EditConfig(ChartOf[c], config)
    BY <1>3 DEF EditValue
  <2> HIDE DEF values, old
  <2>6. config \in HelmChartConfig /\ config.exists
    BY <2>2, <2>3, <2>4 DEF HelmChartConfig
  <2> QED BY <2>1, <2>5, <2>6, EditMoves
<1>4. ASSUME NEW h \in Chart, EditOther(h)
      PROVE  OthersEffect
  <2> DEFINE config == [hcc[h] EXCEPT !.exists = TRUE, !.other = @ + 1]
  <2>1. hcc[h] \in HelmChartConfig
    BY <1>1 DEF TypeOK
  <2>2. hcc[h].other + 1 \in Nat
    BY <2>1 DEF HelmChartConfig
  <2>3. config \in HelmChartConfig
    BY <2>1, <2>2 DEF HelmChartConfig
  <2>4. config.exists
    BY <2>1 DEF HelmChartConfig
  <2> QED BY <1>4, <2>3, <2>4, EditMoves DEF EditOther
<1>5. ASSUME NEW h \in Chart, DeleteConfig(h)
      PROVE  OthersEffect
  <2>1. NoConfig(0) \in HelmChartConfig
    BY DEF NoConfig, HelmChartConfig
  <2> QED BY <1>5, <2>1, EditMoves DEF DeleteConfig
<1>6. ASSUME NEW v \in Version, Upgrade(v)
      PROVE  OthersEffect
  BY <1>1, <1>6, NoMoves DEF Upgrade, OthersEffect, TypeOK
<1>7. ASSUME NEW names \in SUBSET Component, ChangeImagePatches(names)
      PROVE  OthersEffect
  BY <1>1, <1>7, NoMoves DEF ChangeImagePatches, OthersEffect, TypeOK
<1>8. CASE DeleteState
  <2> DEFINE map == [exists |-> FALSE, rv |-> configMap.rv + 1, entries |-> NoEntries]
  <2>1. configMap.rv \in Nat /\ configMap.rv + 1 \in Nat /\ configMap.rv + 1 > configMap.rv
    BY <1>1 DEF TypeOK, ConfigMap
  <2>2. NoEntries \in Entries
    BY DEF NoEntries, Entries
  <2>3. ProperState(map) /\ map.rv > configMap.rv /\ map.entries = NoEntries
    BY <2>1, <2>2 DEF ProperState, ConfigMap
  <2>4. configMap' = map /\ UNCHANGED <<hcc, clusterVars, sessions>>
    BY <1>8 DEF DeleteState
  <2> HIDE DEF map
  <2>5. Moves
    BY <2>3, <2>4 DEF Moves, CliInv, TypeOK
  <2> QED BY <1>1, <2>3, <2>4, <2>5 DEF OthersEffect, TypeOK, clusterVars
<1> QED BY <1>2, <1>3, <1>4, <1>5, <1>6, <1>7, <1>8 DEF OthersStep

-----------------------------------------------------------------------------
(* The invariant                                                           *)

LEMMA WritesMove ==
    ASSUME CliInv, NEW s \in Session, RunEffect(s), sessions[s].component \in Component \/ Quiet
    PROVE  Moves
<1>1. /\ hcc \in [Chart -> HelmChartConfig] /\ \A h \in Chart : ProperConfig(hcc[h])
      /\ configMap.rv \in Nat /\ ProperState(configMap) /\ \A h \in Chart : hcc[h].rv \in Nat
  BY DEF CliInv, TypeOK, ConfigMap, HelmChartConfig
<1>2. /\ hcc' \in [Chart -> HelmChartConfig]
      /\ \A h \in Chart : ProperConfig(hcc'[h]) /\ (hcc'[h] = hcc[h] \/ hcc'[h].rv > hcc[h].rv)
  <2>1. CASE hcc' = hcc
    BY <1>1, <2>1
  <2>2. CASE hcc' # hcc
    <3>1. chartOf(s) \in Chart
      BY <2>2, CliAssumption DEF chartOf, Quiet
    <3>2. PICK new \in HelmChartConfig :
             /\ hcc' = [hcc EXCEPT ![chartOf(s)] = new]
             /\ ProperConfig(new) /\ new.rv = hcc[chartOf(s)].rv + 1
      BY <2>2 DEF RunEffect, WritesConfig
    <3> QED BY <1>1, <3>1, <3>2
  <2> QED BY <2>1, <2>2
<1>3. ProperState(configMap') /\ (configMap' = configMap \/ configMap'.rv > configMap.rv)
  <2>1. CASE configMap' = configMap
    BY <1>1, <2>1
  <2>2. CASE WritesState(s)
    BY <1>1, <2>2 DEF WritesState
  <2> QED BY <2>1, <2>2 DEF RunEffect
<1> QED BY <1>2, <1>3 DEF Moves

\* What a run has read stays the object or becomes an older version of it.
LEMMA FreshKept ==
    ASSUME CliInv, Moves, NEW t \in Session
    PROVE  Fresh(sessions[t], hcc', configMap')
<1> DEFINE r == sessions[t]
           h == ChartOf[r.component]
<1>1. Sound(r) /\ Fresh(r, hcc, configMap)
  BY DEF CliInv
<1>2. r.step \in HoldsConfig => SameOrOlder(r.current, hcc'[h])
  <2> SUFFICES ASSUME r.step \in HoldsConfig
               PROVE  SameOrOlder(r.current, hcc'[h])
    OBVIOUS
  <2>1. h \in Chart /\ ProperConfig(r.current) /\ SameOrOlder(r.current, hcc[h])
    BY <1>1, CliAssumption DEF Sound, Fresh, HoldsConfig
  <2>2. r.current.rv \in Nat /\ hcc[h].rv \in Nat /\ hcc'[h].rv \in Nat
    BY <2>1 DEF CliInv, Moves, ProperConfig, HelmChartConfig
  <2>3. hcc'[h] = hcc[h] \/ hcc'[h].rv > hcc[h].rv
    BY <2>1 DEF Moves
  <2> QED BY <2>1, <2>2, <2>3 DEF SameOrOlder
<1>3. r.step = "save" => SameOrOlder(r.read, configMap')
  <2> SUFFICES ASSUME r.step = "save"
               PROVE  SameOrOlder(r.read, configMap')
    OBVIOUS
  <2>1. ProperState(r.read) /\ SameOrOlder(r.read, configMap)
    BY <1>1 DEF Sound, Fresh
  <2>2. r.read.rv \in Nat /\ configMap.rv \in Nat /\ configMap'.rv \in Nat
    BY <2>1 DEF CliInv, Moves, ProperState, ConfigMap
  <2> QED BY <2>1, <2>2 DEF SameOrOlder, Moves
<1> QED BY <1>2, <1>3 DEF Fresh

LEMMA InitInv == Init => CliInv
<1> SUFFICES ASSUME Init PROVE CliInv
  OBVIOUS
<1>1. \A rv \in Nat : NoConfig(rv) \in HelmChartConfig /\ NoConfig(rv).rv = rv
  BY DEF NoConfig, HelmChartConfig
<1>2. NoEntries \in Entries
  BY DEF NoEntries, Entries
<1>3. hcc \in [Chart -> HelmChartConfig] /\ \A h \in Chart : ProperConfig(hcc[h])
  BY <1>1 DEF Init, ProperConfig
<1>4. ProperState(configMap) /\ configMap \in ConfigMap
  BY <1>2 DEF Init, ProperState, ConfigMap
<1>5. Sound(NewSession) /\ NewSession.step = "new"
  <2>1. [NewSession EXCEPT !.step = "new"] = NewSession
    BY DEF NewSession
  <2>2. Sound([NewSession EXCEPT !.step = "new"])
    BY NewSound
  <2> QED BY <2>1, <2>2 DEF NewSession
<1>6. \A s \in Session : Sound(sessions[s]) /\ Fresh(sessions[s], hcc, configMap)
  BY <1>5 DEF Init, Fresh, HoldsConfig
<1>7. sessions \in [Session -> Sessions]
  BY <1>5 DEF Init, Sound
<1>8. /\ imagePatches \in SUBSET Component /\ version \in Version
      /\ running \in [Component -> TagName] /\ stateNamespace \in BOOLEAN
      /\ disturbances \in 0..MaxDisturbances
  BY CliModeAssumption DEF Init
<1> QED BY <1>3, <1>4, <1>6, <1>7, <1>8 DEF CliInv, TypeOK

LEMMA EffectInv ==
    ASSUME CliInv, NEW s \in Session, RunEffect(s), Moves, disturbances' \in 0..MaxDisturbances
    PROVE  CliInv'
<1>1. PICK x \in Sessions : /\ sessions' = [sessions EXCEPT ![s] = x]
                            /\ Sound(x) /\ Fresh(x, hcc', configMap')
  BY DEF RunEffect
<1>2. sessions \in [Session -> Sessions] /\ sessions' \in [Session -> Sessions]
  BY <1>1 DEF CliInv, TypeOK
<1>3. ASSUME NEW t \in Session
      PROVE  Sound(sessions'[t]) /\ Fresh(sessions'[t], hcc', configMap')
  <2>1. CASE t = s
    BY <1>1, <1>2, <2>1
  <2>2. CASE t # s
    <3>1. sessions'[t] = sessions[t]
      BY <1>1, <1>2, <2>2
    <3>2. Sound(sessions[t])
      BY DEF CliInv
    <3> QED BY <3>1, <3>2, FreshKept
  <2> QED BY <2>1, <2>2
<1>4. configMap' \in ConfigMap
  BY DEF Moves, ProperState
<1>5. TypeOK'
  BY <1>2, <1>4 DEF CliInv, TypeOK, RunEffect, Moves
<1> QED BY <1>3, <1>5 DEF CliInv, Moves

LEMMA OthersInv ==
    ASSUME CliInv, OthersEffect, disturbances' \in 0..MaxDisturbances
    PROVE  CliInv'
<1>1. sessions' = sessions /\ Moves
  BY DEF OthersEffect
<1>2. \A t \in Session : Sound(sessions'[t]) /\ Fresh(sessions'[t], hcc', configMap')
  BY <1>1, FreshKept DEF CliInv
<1>3. configMap' \in ConfigMap
  BY <1>1 DEF Moves, ProperState
<1>4. TypeOK'
  BY <1>1, <1>3 DEF CliInv, TypeOK, OthersEffect, Moves
<1> QED BY <1>1, <1>2, <1>4 DEF CliInv, Moves

\* A run that does not know its component yet writes nothing.
LEMMA CommandMoves ==
    ASSUME CliInv, NEW s \in Session, Command(s) \/ RunFails(s)
    PROVE  Moves
<1>1. RunEffect(s)
  BY CommandStep
<1>2. sessions[s].step \in {"new", "over"} => Quiet
  BY DEF Command, RunFails, Run, At, Quiet, Fail, StartPatch, StartReconcile,
         RefuseInControllerMode, RunningImages, CheckWindow, GetHelmChartConfig, Decline,
         ClusterVersion, GenerateStateWrite, Apply, EnsureNamespace, PromptYesNo,
         ReconcileVersion, ReconcileState, RevertGet, RevertApply, Load, Save
<1>3. sessions[s].step \notin {"new", "over"} => sessions[s].component \in Component
  BY DEF CliInv, Sound
<1> QED BY <1>1, <1>2, <1>3, WritesMove

LEMMA OthersTurn ==
    ASSUME CliInv, OthersStep
    PROVE  disturbances' \in 0..MaxDisturbances
<1>1. disturbances \in 0..MaxDisturbances
  BY DEF CliInv, TypeOK
<1> DEFINE Turn == \/ UNCHANGED disturbances
                   \/ disturbances < MaxDisturbances /\ disturbances' = disturbances + 1
<1>2. ASSUME NEW c \in Component,
             RollOut(c) \/ (\E value \in UserTags \cup {None} : EditValue(c, value))
      PROVE  Turn
  BY <1>2 DEF RollOut, EditValue, Disturb
<1>3. ASSUME NEW h \in Chart, EditOther(h) \/ DeleteConfig(h) PROVE Turn
  BY <1>3 DEF EditOther, DeleteConfig, Disturb
<1>4. ASSUME NEW v \in Version, Upgrade(v) PROVE Turn
  BY <1>4 DEF Upgrade, Disturb
<1>5. ASSUME NEW names \in SUBSET Component, ChangeImagePatches(names) PROVE Turn
  BY <1>5 DEF ChangeImagePatches, Disturb
<1>6. ASSUME DeleteState PROVE Turn
  BY <1>6 DEF DeleteState, Disturb
<1>7. Turn
  <2> HIDE DEF Turn
  <2> QED BY <1>2, <1>3, <1>4, <1>5, <1>6 DEF OthersStep
<1> QED BY <1>1, <1>7, CliModeAssumption

LEMMA InvNext == CliInv /\ [Next]_vars => CliInv'
<1> SUFFICES ASSUME CliInv, [Next]_vars PROVE CliInv'
  OBVIOUS
<1>1. ASSUME NEW s \in Session, Command(s) \/ RunFails(s) PROVE CliInv'
  BY <1>1, CommandStep, CommandMoves, EffectInv
<1>2. ASSUME OthersStep PROVE CliInv'
  BY <1>2, OthersStepEffect, OthersTurn, OthersInv
<1>3. ASSUME UNCHANGED vars PROVE CliInv'
  BY <1>3 DEF vars, clusterVars, CliInv, TypeOK
<1> QED BY <1>1, <1>2, <1>3 DEF Next, OthersStep

-----------------------------------------------------------------------------
(* The theorems                                                            *)

LEMMA CliInvariant == Spec => []CliInv
BY InitInv, InvNext, PTL DEF Spec

\* Whatever the runs, the users and the upgrades do, every object and every run is what the code
\* takes it for; in particular no run tries the update of the state more often than it may.
THEOREM CliTypes == Spec => []TypeOK
<1>1. CliInv => TypeOK
  BY DEF CliInv
<1> QED BY <1>1, CliInvariant, PTL

\* One step of a run or of the others, as the properties see it.
LEMMA StepEffect ==
    ASSUME CliInv, Next
    PROVE  (\E s \in Session : RunEffect(s)) \/ OthersEffect
BY CommandStep, OthersStepEffect DEF Next, OthersStep

\* Only the record of the run that acts is written.
LEMMA OnlyOneActs ==
    ASSUME CliInv, NEW s \in Session, RunEffect(s), NEW t \in Session, Acts(t)
    PROVE  t = s
BY DEF RunEffect, Acts, CliInv, TypeOK

\* clistate.Update: a run changes no entry but those of its component, however many runs save
\* the whole state at the same time.
THEOREM EntriesOfOthersKept == Spec => OthersEntriesKept
<1>1. CliInv /\ [Next]_vars =>
        [\A s \in Session, c \in Component :
           Acts(s) /\ configMap'.entries[c] # configMap.entries[c] => c = sessions[s].component]_vars
  <2> SUFFICES ASSUME CliInv, Next, NEW t \in Session, NEW c \in Component, Acts(t),
                      configMap'.entries[c] # configMap.entries[c]
               PROVE  c = sessions[t].component
    OBVIOUS
  <2>1. ~OthersEffect
    BY DEF OthersEffect, Acts
  <2>2. PICK s \in Session : RunEffect(s)
    BY <2>1, StepEffect
  <2>3. t = s
    BY <2>2, OnlyOneActs
  <2>4. WritesState(s)
    BY <2>2 DEF RunEffect
  <2> QED BY <2>3, <2>4 DEF WritesState
<1> QED BY <1>1, CliInvariant, PTL DEF Spec, OthersEntriesKept

\* Persist: the first observed baseline of an entry is kept as long as the entry is.
THEOREM FirstBaselineKept == Spec => BaselineKept
<1>1. CliInv /\ [Next]_vars =>
        [\A c \in Component, v \in Version :
           LET old == configMap.entries[c][v]
               new == configMap'.entries[c][v]
           IN  old # NoEntry /\ new # NoEntry => new.baselineTag = old.baselineTag]_vars
  <2> SUFFICES ASSUME CliInv, Next, NEW c \in Component, NEW v \in Version,
                      configMap.entries[c][v] # NoEntry, configMap'.entries[c][v] # NoEntry
               PROVE  configMap'.entries[c][v].baselineTag = configMap.entries[c][v].baselineTag
    OBVIOUS
  <2>1. CASE OthersEffect
    BY <2>1 DEF OthersEffect, NoEntries
  <2>2. ASSUME NEW s \in Session, RunEffect(s)
        PROVE  configMap'.entries[c][v].baselineTag = configMap.entries[c][v].baselineTag
    BY <2>2 DEF RunEffect, WritesState
  <2> QED BY <2>1, <2>2, StepEffect
<1> QED BY <1>1, CliInvariant, PTL DEF Spec, BaselineKept

\* ApplyHelmChartConfig with the resource version that was read: a run that waited for its user
\* undoes no write of others in the HelmChartConfig of its chart, or of any other.
THEOREM ValuesOfOthersKept == Spec => OthersValuesKept
<1>1. CliInv /\ [Next]_vars =>
        [\A s \in Session, h \in Chart :
           Acts(s) => /\ hcc'[h].other = hcc[h].other
                      /\ \A c \in Component \ {sessions[s].component} :
                           hcc'[h].value[c] = hcc[h].value[c]]_vars
  <2> SUFFICES ASSUME CliInv, Next, NEW t \in Session, NEW h \in Chart, Acts(t)
               PROVE  /\ hcc'[h].other = hcc[h].other
                      /\ \A c \in Component \ {sessions[t].component} :
                           hcc'[h].value[c] = hcc[h].value[c]
    OBVIOUS
  <2>1. ~OthersEffect
    BY DEF OthersEffect, Acts
  <2>2. PICK s \in Session : RunEffect(s)
    BY <2>1, StepEffect
  <2>3. t = s
    BY <2>2, OnlyOneActs
  <2>4. CASE hcc' = hcc
    BY <2>4
  <2>5. CASE WritesConfig(s)
    <3>1. hcc \in [Chart -> HelmChartConfig]
      BY DEF CliInv, TypeOK
    <3> QED BY <2>3, <2>5, <3>1 DEF WritesConfig
  <2> QED BY <2>2, <2>4, <2>5 DEF RunEffect
<1> QED BY <1>1, CliInvariant, PTL DEF Spec, OthersValuesKept
=============================================================================
