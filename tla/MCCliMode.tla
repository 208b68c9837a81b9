------------------------------ MODULE MCCliMode -----------------------------
(***************************************************************************)
(* Instances of CliMode for TLC.  Tags are named by their rank: 1 is       *)
(* bundled with RKE2 version 1, 2 with version 2, 3 is newer than both and *)
(* 4 belongs to the next minor release.                                    *)
(***************************************************************************)
EXTENDS CliMode, TLC

MCBuild == <<20250101, 20250110, 20250125, 20250210>>

MCParseTag == [t \in TagName |->
    [ok |-> TRUE, name |-> t, build |-> MCBuild[t], major |-> 1,
     minor |-> IF t = 4 THEN 3 ELSE 2, patch |-> 3,
     flavorBase |-> 0, flavorNumber |-> 0, flavor |-> 0]]

MCBundledTag == [v \in Version |-> [c \in Component |-> v]]
MCPublished == [c \in Component |-> TagName]
MCZeroDay == [v \in Version |-> DayNumber(2025, 1, 1)]

\* All components share one chart.
MCSharedChart == [c \in Component |-> CHOOSE h \in Chart : TRUE]

\* The namespace of the state is there from the start, or the first run has to ask for it.
MCInit == Init /\ stateNamespace = TRUE
MCSpec == MCInit /\ [][Next]_vars
MCFirstInit == Init /\ stateNamespace = FALSE
MCFirstSpec == MCFirstInit /\ [][Next]_vars

\* The runs of the CLI are interchangeable.
MCSymmetry == Permutations(Session)
=============================================================================
