-------------------------------- MODULE Cli ---------------------------------
(***************************************************************************)
(* The CLI mode (internal/cmd, internal/clistate): runs of image-patch and *)
(* image-reconcile, each a process of its own that nothing serialises.     *)
(* image-patch writes a component's value into the HelmChartConfig of its  *)
(* chart and then records the patch in the state ConfigMap;                *)
(* image-reconcile strips the value and then removes the record.  Every    *)
(* call to the API server is an action, and both objects are written only  *)
(* if they still have the resource version that was read.                  *)
(***************************************************************************)
EXTENDS Policy

CONSTANTS
    Component, Chart, ChartOf, Version, Published, ZeroDay, None,
    Session,            \* the runs of the CLI
    updateAttempts      \* how often a conflicting write of the state is tried, 5 in the code

ASSUME CliAssumption ==
    /\ ChartOf \in [Component -> Chart]
    /\ Published \in [Component -> SUBSET TagName]
    /\ ZeroDay \in [Version -> Int]
    /\ None \notin TagName /\ None \notin Version /\ None \notin Component
    /\ updateAttempts \in Nat \ {0}

VARIABLES
    hcc,            \* Chart -> its HelmChartConfig
    configMap,      \* the state ConfigMap
    imagePatches,   \* the components that have an ImagePatch object
    version,        \* the RKE2 version the API server reports
    running,        \* Component -> the tag its pods run
    stateNamespace, \* whether the namespace of the state exists
    sessions        \* Session -> how far the run has got

clusterVars == <<imagePatches, version, running, stateNamespace>>

-----------------------------------------------------------------------------
(* Objects                                                                 *)

\* An entry of the state under the key <version>|<component>; NoEntry when the key is absent.
Entry == [baselineTag : TagName, patchedToTag : TagName]
NoEntry == [baselineTag |-> None, patchedToTag |-> None]

Entries == [Component -> [Version -> Entry \cup {NoEntry}]]
NoEntries == [c \in Component |-> [v \in Version |-> NoEntry]]

\* rv also counts the removals of the object, so that no resource version comes back.
ConfigMap == [exists : BOOLEAN, rv : Nat, entries : Entries]

keysOf(entries, c) == {v \in Version : entries[c][v] # NoEntry}

Steps == {"new", "refuse", "images", "window", "get", "version", "eligible", "apply",
          "reconcileVersion", "reconcileState", "revertGet", "revertApply", "namespace", "prompt", "load", "save", "over"}

\* keys are the entries an image-reconcile still has to revert, reverted those it has; read is
\* the ConfigMap as the update loop loaded it and updated what the loop is about to save.
NewSession == [step |-> "new", component |-> None, requested |-> None, runningTag |-> None,
               target |-> None, current |-> None, clusterVersion |-> None, entry |-> NoEntry,
               keys |-> {}, reverted |-> {}, read |-> None, updated |-> None, attempts |-> 0]

-----------------------------------------------------------------------------
(* Shorthands for a run                                                    *)

At(s, step) == sessions[s].step = step
chartOf(s) == ChartOf[sessions[s].component]

Continue(s, session) == sessions' = [sessions EXCEPT ![s] = session]
GoTo(s, step) == Continue(s, [sessions[s] EXCEPT !.step = step])

\* The process exits and takes its memory with it.
End(s) == Continue(s, [NewSession EXCEPT !.step = "over"])

\* Mutant: a HelmChartConfig is written whatever its resource version.
ApplyUnguarded(s) == hcc[chartOf(s)].exists = sessions[s].current.exists

\* kube.ApplyHelmChartConfig: create without a resource version, update with it.
ApplySucceeds(s) ==
    LET current == sessions[s].current
        h == chartOf(s)
    IN  IF current.exists THEN hcc[h].exists /\ hcc[h].rv = current.rv ELSE ~hcc[h].exists

Write(s, new) ==
    hcc' = [hcc EXCEPT ![chartOf(s)] = [new EXCEPT !.exists = TRUE, !.rv = hcc[chartOf(s)].rv + 1]]

-----------------------------------------------------------------------------
(* image-patch                                                             *)

StartPatch(s, c, tag) ==
    /\ At(s, "new")
    /\ Continue(s, [NewSession EXCEPT !.step = "refuse", !.component = c, !.requested = tag])
    /\ UNCHANGED <<hcc, configMap, clusterVars>>

\* The modes are exclusive: no patch while ImagePatch objects exist.
RefuseInControllerMode(s) ==
    /\ At(s, "refuse")
    /\ IF imagePatches = {} THEN GoTo(s, "images") ELSE End(s)
    /\ UNCHANGED <<hcc, configMap, clusterVars>>

\* The target tag, if there is one: the requested tag or the next newer one, and none if the
\* registry does not list the running tag.
Targets(c, runningTag, requested) ==
    LET newer(t, u) == CompareTags(ParseTag[t], ParseTag[u]) > 0
        candidates == {t \in Published[c] : ParseTag[t].ok /\ newer(t, runningTag)}
        next == {t \in candidates : \A u \in candidates : ~newer(t, u)}
    IN  IF runningTag \notin Published[c] \/ ~ParseTag[runningTag].ok THEN {}
        ELSE IF requested # None
        THEN {t \in {requested} : ValidateExplicitTarget(runningTag, t, Published[c]) = "OK"}
        ELSE {t \in next : ~IsNewerMinorRelease(ParseTag[runningTag], ParseTag[t])}

RunningImages(s) ==
    /\ At(s, "images")
    /\ LET session == sessions[s]
           runningTag == running[session.component]
           targets == Targets(session.component, runningTag, session.requested)
       IN  IF targets = {} THEN End(s)
           ELSE Continue(s, [session EXCEPT !.step = "window", !.runningTag = runningTag,
                                            !.target = CHOOSE t \in targets : TRUE])
    /\ UNCHANGED <<hcc, configMap, clusterVars>>

CheckWindow(s) ==
    /\ At(s, "window")
    /\ IF ValidatePatchWindow(sessions[s].component, sessions[s].target, ZeroDay[version]) = "OK"
       THEN GoTo(s, "get") ELSE End(s)
    /\ UNCHANGED <<hcc, configMap, clusterVars>>

GetHelmChartConfig(s) ==
    /\ At(s, "get")
    /\ Continue(s, [sessions[s] EXCEPT !.step = "version", !.current = hcc[chartOf(s)]])
    /\ UNCHANGED <<hcc, configMap, clusterVars>>

\* A dry run ends here, and so does a run whose merge the user declines.
Decline(s) ==
    /\ At(s, "version")
    /\ End(s)
    /\ UNCHANGED <<hcc, configMap, clusterVars>>

\* generateStateWrite, its two calls.
ClusterVersion(s) ==
    /\ At(s, "version")
    /\ Continue(s, [sessions[s] EXCEPT !.step = "eligible", !.clusterVersion = version])
    /\ UNCHANGED <<hcc, configMap, clusterVars>>

\* No patch while any component has an entry of another version; the first baseline is kept.
GenerateStateWrite(s) ==
    /\ At(s, "eligible")
    /\ LET session == sessions[s]
           existing == configMap.entries[session.component][session.clusterVersion]
           baseline == IF existing # NoEntry THEN existing.baselineTag ELSE session.runningTag
       IN  IF \E c \in Component : keysOf(configMap.entries, c) \ {session.clusterVersion} # {}
           THEN End(s)
           ELSE Continue(s, [session EXCEPT !.step = "apply",
                               !.entry = [baselineTag |-> baseline, patchedToTag |-> session.target]])
    /\ UNCHANGED <<hcc, configMap, clusterVars>>

Apply(s) ==
    /\ At(s, "apply")
    /\ IF ApplySucceeds(s)
       THEN /\ Write(s, [sessions[s].current EXCEPT !.value[sessions[s].component] =
                                                       sessions[s].target])
            /\ GoTo(s, "namespace")
       ELSE End(s) /\ UNCHANGED hcc
    /\ UNCHANGED <<configMap, clusterVars>>

\* persistPatchDecision comes after the write, and may have to ask the user before it records.
EnsureNamespace(s) ==
    /\ At(s, "namespace")
    /\ GoTo(s, IF stateNamespace THEN "load" ELSE "prompt")
    /\ UNCHANGED <<hcc, configMap, clusterVars>>

\* A user who does not want the namespace leaves the value without its entry.
PromptYesNo(s) ==
    /\ At(s, "prompt")
    /\ \/ GoTo(s, "load") /\ stateNamespace' = TRUE
       \/ End(s) /\ UNCHANGED stateNamespace
    /\ UNCHANGED <<hcc, configMap, imagePatches, version, running>>

-----------------------------------------------------------------------------
(* image-reconcile                                                         *)

StartReconcile(s, c) ==
    /\ At(s, "new")
    /\ Continue(s, [NewSession EXCEPT !.step = "reconcileVersion", !.component = c])
    /\ UNCHANGED <<hcc, configMap, clusterVars>>

ReconcileVersion(s) ==
    /\ At(s, "reconcileVersion")
    /\ Continue(s, [sessions[s] EXCEPT !.step = "reconcileState", !.clusterVersion = version])
    /\ UNCHANGED <<hcc, configMap, clusterVars>>

\* The stale entries of the component, or if there are none the current one, when the user
\* agrees to revert it.
ReconcileState(s) ==
    /\ At(s, "reconcileState")
    /\ LET session == sessions[s]
           keys == keysOf(configMap.entries, session.component)
           stale == keys \ {session.clusterVersion}
       IN  \/ /\ keys # {}
              /\ Continue(s, [session EXCEPT !.step = "revertGet",
                                             !.keys = IF stale # {} THEN stale ELSE keys])
           \/ stale = {} /\ End(s)
    /\ UNCHANGED <<hcc, configMap, clusterVars>>

\* RevertEntry: an entry whose HelmChartConfig is gone is skipped and stays in the state.
RevertGet(s) ==
    /\ At(s, "revertGet")
    /\ LET session == sessions[s]
           current == hcc[chartOf(s)]
       IN  \/ /\ session.keys = {}
              /\ IF session.reverted = {} THEN End(s) ELSE GoTo(s, "load")
           \/ \E v \in session.keys :
                IF current.exists
                THEN Continue(s, [session EXCEPT !.step = "revertApply", !.current = current])
                ELSE Continue(s, [session EXCEPT !.keys = @ \ {v}])
    /\ UNCHANGED <<hcc, configMap, clusterVars>>

\* The values depend on the component only, so every entry strips the same ones.
RevertApply(s) ==
    /\ At(s, "revertApply")
    /\ LET session == sessions[s]
       IN  IF ApplySucceeds(s)
           THEN /\ Write(s, [session.current EXCEPT !.value[session.component] = None])
                /\ \E v \in session.keys :
                     Continue(s, [session EXCEPT !.step = "revertGet", !.keys = @ \ {v},
                                                 !.reverted = @ \cup {v}, !.current = None])
           ELSE End(s) /\ UNCHANGED hcc
    /\ UNCHANGED <<configMap, clusterVars>>

-----------------------------------------------------------------------------
(* clistate.Update: load, mutate and save, again after a conflict          *)

\* Mutant: the baseline of the decision replaces the one in the state.
PersistedAnew(entries, session) ==
    [entries EXCEPT ![session.component][session.clusterVersion] = session.entry]

\* The entry of an image-patch is recorded; the first observed baseline is kept.
Persisted(entries, session) ==
    LET existing == entries[session.component][session.clusterVersion]
        new == IF existing = NoEntry THEN session.entry
               ELSE [session.entry EXCEPT !.baselineTag = existing.baselineTag]
    IN  [entries EXCEPT ![session.component][session.clusterVersion] = new]

\* The entries an image-reconcile has reverted are removed, by their keys.
Removed(entries, session) ==
    [entries EXCEPT ![session.component] =
        [v \in Version |-> IF v \in session.reverted THEN NoEntry ELSE @[v]]]

Mutated(entries, session) ==
    IF session.reverted # {} THEN Removed(entries, session) ELSE Persisted(entries, session)

Load(s) ==
    /\ At(s, "load")
    /\ LET updated == Mutated(configMap.entries, sessions[s])
       IN  IF updated = configMap.entries THEN End(s)
           ELSE Continue(s, [sessions[s] EXCEPT !.step = "save", !.read = configMap,
                                                !.updated = updated])
    /\ UNCHANGED <<hcc, configMap, clusterVars>>

\* Mutant: the state is saved whatever its resource version.
SaveUnguarded(s) == TRUE

\* SaveStateConfigMapDataWithResourceVersion: create without a resource version, update with it.
SaveSucceeds(s) ==
    LET read == sessions[s].read
    IN  IF read.exists THEN configMap.exists /\ configMap.rv = read.rv ELSE ~configMap.exists

\* Mutant: one attempt too many.
OneMoreAttempt(s) == sessions[s].attempts < updateAttempts

AttemptsLeft(s) == sessions[s].attempts + 1 < updateAttempts

Save(s) ==
    /\ At(s, "save")
    /\ LET session == sessions[s]
       IN  IF SaveSucceeds(s)
           THEN /\ configMap' = [exists |-> TRUE, rv |-> configMap.rv + 1,
                                 entries |-> session.updated]
                /\ End(s)
           ELSE /\ IF AttemptsLeft(s)
                   THEN Continue(s, [session EXCEPT !.step = "load", !.attempts = @ + 1,
                                                    !.read = None, !.updated = None])
                   ELSE End(s)
                /\ UNCHANGED configMap
    /\ UNCHANGED <<hcc, clusterVars>>

\* A call fails, or the user interrupts the run.
Fail(s) ==
    /\ ~At(s, "new") /\ ~At(s, "over")
    /\ End(s)
    /\ UNCHANGED <<hcc, configMap, clusterVars>>

Run(s) ==
    \/ RefuseInControllerMode(s) \/ RunningImages(s) \/ CheckWindow(s) \/ GetHelmChartConfig(s)
    \/ Decline(s) \/ ClusterVersion(s) \/ GenerateStateWrite(s) \/ Apply(s)
    \/ EnsureNamespace(s) \/ PromptYesNo(s)
    \/ ReconcileVersion(s) \/ ReconcileState(s) \/ RevertGet(s) \/ RevertApply(s)
    \/ Load(s) \/ Save(s)
=============================================================================
