--------------------------- MODULE PatchLifecycle ---------------------------
(***************************************************************************)
(* What the ImagePatch controller promises of the patches of a cluster,    *)
(* without the API calls it takes: a component is claimed (its ImagePatch  *)
(* has the finalizer) before its patch is applied and stays claimed until  *)
(* the patch is gone, and patches are applied on one RKE2 version at a     *)
(* time.  ImagePatchController implements it.                              *)
(***************************************************************************)
CONSTANTS Component, Version, None

VARIABLES
    claimed,        \* the components whose ImagePatch has the finalizer
    appliedOn       \* Component -> the version its patch was applied on, or None

lifecycleVars == <<claimed, appliedOn>>

LifecycleInit == claimed = {} /\ appliedOn = [c \in Component |-> None]

Claim(cs) ==
    /\ claimed' = claimed \cup cs
    /\ UNCHANGED appliedOn

\* No component has a patch of another version.
ApplyOn(c, v) ==
    /\ c \in claimed
    /\ \A d \in Component : appliedOn[d] \in {None, v}
    /\ appliedOn' = [appliedOn EXCEPT ![c] = v]
    /\ UNCHANGED claimed

\* Reverted by the controller, or deleted with the HelmChartConfig of the chart.
Strip(cs) ==
    /\ appliedOn' = [c \in Component |-> IF c \in cs THEN None ELSE appliedOn[c]]
    /\ UNCHANGED claimed

Release(c) ==
    /\ c \in claimed /\ appliedOn[c] = None
    /\ claimed' = claimed \ {c}
    /\ UNCHANGED appliedOn

LifecycleNext ==
    \/ \E cs \in SUBSET Component : Claim(cs) \/ Strip(cs)
    \/ \E c \in Component : Release(c) \/ (\E v \in Version : ApplyOn(c, v))

LifecycleSpec == LifecycleInit /\ [][LifecycleNext]_lifecycleVars
=============================================================================
