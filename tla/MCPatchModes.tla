---------------------------- MODULE MCPatchModes ----------------------------
(***************************************************************************)
(* Instances of PatchModes for TLC, with tags named by their rank: 1 is    *)
(* bundled with the only RKE2 version and the others are newer.            *)
(***************************************************************************)
EXTENDS PatchModes

MCBuild == <<20250101, 20250110, 20250125>>

MCParseTag == [t \in TagName |->
    [ok |-> TRUE, name |-> t, build |-> MCBuild[t], major |-> 1, minor |-> 2, patch |-> 3,
     flavorBase |-> 0, flavorNumber |-> 0, flavor |-> 0]]

MCBundledTag == [v \in Version |-> [c \in Component |-> 1]]
MCPublished == [c \in Component |-> TagName]
MCZeroDay == [v \in Version |-> DayNumber(2025, 1, 1)]
MCSharedChart == [c \in Component |-> CHOOSE h \in Chart : TRUE]
=============================================================================
