----------------------------- MODULE PatchModes -----------------------------
(***************************************************************************)
(* Both modes in one cluster: the ImagePatch controller and runs of the    *)
(* CLI share the HelmChartConfigs.  Each mode looks for the other before   *)
(* it writes: the controller for entries in the state ConfigMap, and       *)
(* image-patch for ImagePatch objects.                                     *)
(***************************************************************************)
EXTENDS ImagePatchController

CONSTANTS Session, updateAttempts

VARIABLES
    configMap,      \* the state ConfigMap, of which the controller sees cliEntries
    stateNamespace, \* whether its namespace exists
    sessions        \* Session -> how far the run of the CLI has got

modesVars == <<vars, configMap, stateNamespace, sessions>>

\* Cli itself, on the ImagePatch objects of the controller.
CLI == INSTANCE Cli WITH imagePatches <- {c \in Component : patches[c].exists}

ModesInit ==
    /\ Init
    /\ configMap = [exists |-> FALSE, rv |-> 0, entries |-> CLI!NoEntries]
    /\ stateNamespace \in BOOLEAN
    /\ sessions = [s \in Session |-> CLI!NewSession]

Command(s) ==
    \/ \E c \in Component :
         CLI!StartReconcile(s, c) \/ (\E tag \in UserTags \cup {None} : CLI!StartPatch(s, c, tag))
    \/ CLI!Run(s)

\* What a run writes reaches the controller as a watch event.
CLIStep ==
    /\ UNCHANGED <<patches, cache, charts, worker, disturbances>>
    /\ \E s \in Session : Command(s)
    /\ cliEntries' = {c \in Component : CLI!keysOf(configMap'.entries, c) # {}}
    /\ queue' = IF hcc' # hcc \/ configMap' # configMap THEN queue \cup all ELSE queue

ModesNext == (Next /\ UNCHANGED <<configMap, stateNamespace, sessions>>) \/ CLIStep

ModesSpec == ModesInit /\ [][ModesNext]_modesVars

-----------------------------------------------------------------------------
(* Properties                                                              *)

\* "The two modes are exclusive": managed values and entries of the CLI are never there at the
\* same time.
ModesExclusive == cliEntries # {} => \A c \in Component : ManagedOn(c) = None
=============================================================================
