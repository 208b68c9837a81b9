------------------------------ MODULE CliMode -------------------------------
(***************************************************************************)
(* A cluster patched with the CLI alone: the runs of Cli beside an RKE2    *)
(* upgrade, the roll-out of what is written, users who edit and delete     *)
(* HelmChartConfigs, and ImagePatch objects that come and go.              *)
(***************************************************************************)
EXTENDS Cli

CONSTANTS
    BundledTag,         \* Version -> (Component -> the tag its chart bundles)
    InitialVersion,
    UserTags,           \* bound: the tags users ask for or write themselves
    Kinds,              \* bound: the kinds of disturbance that happen
    MaxDisturbances     \* bound: how many disturbances happen

ASSUME CliModeAssumption ==
    /\ BundledTag \in [Version -> [Component -> TagName]]
    /\ InitialVersion \in Version
    /\ UserTags \subseteq TagName
    /\ MaxDisturbances \in Nat

VARIABLE disturbances

vars == <<hcc, configMap, clusterVars, sessions, disturbances>>

\* other stands for everything in a HelmChartConfig that is no image value.
NoConfig(rv) == [exists |-> FALSE, rv |-> rv, value |-> [c \in Component |-> None], other |-> 0]

HelmChartConfig == [exists : BOOLEAN, rv : Nat, value : [Component -> TagName \cup {None}],
                    other : Nat]

Sessions ==
    [step : Steps, component : Component \cup {None}, requested : TagName \cup {None},
     runningTag : TagName \cup {None}, target : TagName \cup {None},
     current : HelmChartConfig \cup {None}, clusterVersion : Version \cup {None},
     entry : Entry \cup {NoEntry}, keys : SUBSET Version, reverted : SUBSET Version,
     read : ConfigMap \cup {None}, updated : Entries \cup {None}, attempts : 0..updateAttempts - 1]

Init ==
    /\ hcc = [h \in Chart |-> NoConfig(0)]
    /\ configMap = [exists |-> FALSE, rv |-> 0, entries |-> NoEntries]
    /\ imagePatches = {}
    /\ version = InitialVersion
    /\ running = BundledTag[version]
    /\ stateNamespace \in BOOLEAN
    /\ sessions = [s \in Session |-> NewSession]
    /\ disturbances = 0

Command(s) ==
    /\ \/ \E c \in Component :
            StartReconcile(s, c) \/ (\E tag \in UserTags \cup {None} : StartPatch(s, c, tag))
       \/ Run(s)
    /\ UNCHANGED disturbances

Disturb(kind) ==
    /\ kind \in Kinds
    /\ disturbances < MaxDisturbances
    /\ disturbances' = disturbances + 1

RunFails(s) == Disturb("fail") /\ Fail(s)

Upgrade(v) ==
    /\ Disturb("upgrade")
    /\ v # version
    /\ version' = v
    /\ UNCHANGED <<hcc, configMap, imagePatches, running, stateNamespace, sessions>>

EditConfig(h, new) ==
    /\ hcc' = [hcc EXCEPT ![h] = [new EXCEPT !.rv = hcc[h].rv + 1]]
    /\ UNCHANGED <<configMap, clusterVars, sessions>>

EditOther(h) ==
    /\ Disturb("other")
    /\ EditConfig(h, [hcc[h] EXCEPT !.exists = TRUE, !.other = @ + 1])

EditValue(c, value) ==
    /\ Disturb("value")
    /\ value # hcc[ChartOf[c]].value[c]
    /\ EditConfig(ChartOf[c], [hcc[ChartOf[c]] EXCEPT !.exists = TRUE, !.value[c] = value])

DeleteConfig(h) ==
    /\ Disturb("deleteConfig")
    /\ hcc[h].exists
    /\ EditConfig(h, NoConfig(0))

DeleteState ==
    /\ Disturb("deleteState")
    /\ configMap.exists
    /\ configMap' = [exists |-> FALSE, rv |-> configMap.rv + 1, entries |-> NoEntries]
    /\ UNCHANGED <<hcc, clusterVars, sessions>>

ChangeImagePatches(names) ==
    /\ Disturb("imagePatch")
    /\ imagePatches' = names
    /\ UNCHANGED <<hcc, configMap, version, running, stateNamespace, sessions>>

Rendered(c) ==
    LET value == hcc[ChartOf[c]].value[c] IN IF value # None THEN value ELSE BundledTag[version][c]

RollOut(c) ==
    /\ running[c] # Rendered(c)
    /\ running' = [running EXCEPT ![c] = Rendered(c)]
    /\ UNCHANGED <<hcc, configMap, imagePatches, version, stateNamespace, sessions, disturbances>>

Next ==
    \/ \E s \in Session : Command(s) \/ RunFails(s)
    \/ \E c \in Component : RollOut(c) \/ (\E value \in UserTags \cup {None} : EditValue(c, value))
    \/ \E h \in Chart : EditOther(h) \/ DeleteConfig(h)
    \/ \E v \in Version : Upgrade(v)
    \/ \E names \in SUBSET Component : ChangeImagePatches(names)
    \/ DeleteState

Spec == Init /\ [][Next]_vars

-----------------------------------------------------------------------------
(* Properties                                                              *)

TypeOK ==
    /\ hcc \in [Chart -> HelmChartConfig]
    /\ configMap \in ConfigMap
    /\ imagePatches \in SUBSET Component
    /\ version \in Version
    /\ running \in [Component -> TagName]
    /\ stateNamespace \in BOOLEAN
    /\ sessions \in [Session -> Sessions]
    /\ disturbances \in 0..MaxDisturbances

Acts(s) == sessions[s] # sessions'[s]

\* "retrying on conflicts to handle concurrent updates": a run changes no entry but those of its
\* own component, however many runs save the whole state at the same time.
OthersEntriesKept ==
    [][\A s \in Session, c \in Component :
         Acts(s) /\ configMap'.entries[c] # configMap.entries[c] => c = sessions[s].component]_vars

\* "The first observed baseline tag for an entry is kept": a second run that started from pods
\* already patched does not turn the tag of the first patch into the baseline.
BaselineKept ==
    [][\A c \in Component, v \in Version :
         LET old == configMap.entries[c][v]
             new == configMap'.entries[c][v]
         IN  old # NoEntry /\ new # NoEntry => new.baselineTag = old.baselineTag]_vars

\* A run of the CLI writes no value but its component's into a HelmChartConfig, and undoes no
\* write of others, although it may wait for the user between reading and writing it.
OthersValuesKept ==
    [][\A s \in Session, h \in Chart :
         Acts(s) => /\ hcc'[h].other = hcc[h].other
                    /\ \A c \in Component \ {sessions[s].component} :
                         hcc'[h].value[c] = hcc[h].value[c]]_vars

Recording(c) ==
    \E s \in Session : /\ sessions[s].component = c
                       /\ sessions[s].step \in {"namespace", "prompt", "load", "save"}

\* "patches are tracked in the rke2-patcher-state ConfigMap": a value that a run wrote has an
\* entry, or the run is about to record it.
PatchesTracked ==
    \A c \in Component :
        hcc[ChartOf[c]].value[c] # None => keysOf(configMap.entries, c) # {} \/ Recording(c)
=============================================================================
