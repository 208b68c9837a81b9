------------------------------- MODULE MCRules ------------------------------
(***************************************************************************)
(* The rules of internal/policy and internal/patcher in one instance: the  *)
(* tags of MCPolicyRules and the values of MCPatchValues.  The two have no *)
(* state in common, so each is explored while the other one rests: values  *)
(* are written before anything is published, and tags are listed and days  *)
(* walked while one of the charts has no values of its own.                *)
(***************************************************************************)
EXTENDS MCPolicyRules, MCPatchValues

MCRulesInit == MCInit /\ Init

NoTagsYet == published = <<>> /\ step = "idle" /\ access = "public" /\ start = 0

NoValuesYet == chart = "ingressNginx" /\ values = <<>> /\ managed = {} /\ edits = 0

Tagging == NoValuesYet /\ (Listing \/ Walking) /\ UNCHANGED vars

Writing == NoTagsYet /\ Next /\ UNCHANGED <<registryVars, listVars, windowVars>>

MCRulesSpec ==
    MCRulesInit /\ [][Tagging \/ Writing]_<<registryVars, listVars, windowVars, vars>>
=============================================================================
