---------------------------- MODULE MCController ----------------------------
(***************************************************************************)
(* Instances of ImagePatchController for TLC.  Tags are named by their     *)
(* rank.  1 is bundled with RKE2 version 1 and 3 with version 2, so the    *)
(* upgrade overtakes 2.  4 may be applied on both versions; 5 is built 59  *)
(* days after the zero-day of version 1 and 40 after that of version 2.    *)
(* 6 belongs to the next minor release and 7 has no version in it.         *)
(***************************************************************************)
EXTENDS ImagePatchController, TLC

MCBuild == <<20250101, 20250110, 20250125, 20250210, 20250301, 20250215, 0>>

MCParseTag == [t \in TagName |->
    [ok |-> t # 7, name |-> t, build |-> MCBuild[t], major |-> 1,
     minor |-> IF t = 6 THEN 3 ELSE 2, patch |-> 3,
     flavorBase |-> 0, flavorNumber |-> 0, flavor |-> 0]]

MCBundledTag == [v \in Version |-> [c \in Component |-> IF v = 1 THEN 1 ELSE 3]]

\* Every tag is published; ListTags drops those it cannot parse.
MCPublished == [c \in Component |-> {t \in TagName : MCParseTag[t].ok}]

MCZeroDay == [v \in Version |-> IF v = 1 THEN DayNumber(2025, 1, 1) ELSE DayNumber(2025, 1, 20)]

\* All components share one chart, or each has a chart of its own.
MCSharedChart == [c \in Component |-> CHOOSE h \in Chart : TRUE]
MCOwnChart == CHOOSE f \in [Component -> Chart] : \A c, d \in Component : c # d => f[c] # f[d]

\* Components with a chart each are interchangeable, each together with its chart.
MCOwner(h) == CHOOSE c \in Component : MCOwnChart[c] = h
MCSymmetry ==
    {p @@ [h \in Chart |-> MCOwnChart[p[MCOwner(h)]]] : p \in Permutations(Component)}

=============================================================================
