---------------------------- MODULE MCPolicyRules ---------------------------
(***************************************************************************)
(* Instances of Policy and TagSelection for TLC.  Either the registry      *)
(* publishes tags or, while it has published none, a calendar is walked    *)
(* day by day from a zero-day, and every number that looks like a date of  *)
(* the years around it is a tag built on it.  The names that are listed, in *)
(* their string order:                                                     *)
(*   0  latest                           1  sha256-4f1c.sig                *)
(*   2  v1.13.9-build20260511            3  v1.14.1-hardened10-build20260206 *)
(*   4  v1.14.1-hardened2-build20260206  5  v1.14.2-build20260207          *)
(*   6  v1.14.2-build20260401            7  v1.15.0-build20260208          *)
(*   8  vnext                                                              *)
(* hardened2 comes after hardened10 as a name, before it as a flavor.      *)
(***************************************************************************)
EXTENDS TagSelection, PatchWindow

MCMinor == <<0, 13, 14, 14, 14, 14, 15, 0>>
MCPatch == <<0, 9, 1, 1, 2, 2, 0, 0>>
MCBuild == <<0, 20260511, 20260206, 20260206, 20260207, 20260401, 20260208, 0>>
MCFlavorNumber == <<0, 0, 10, 2, 0, 0, 0, 0>>
MCFlavor == <<0, 0, 1, 2, 0, 0, 0, 0>>

MCName == 0..8

MCYears == {2000, 2001, 2023, 2024, 2025, 2026, 2100}

MCDates == {Date(y, m, d) : y \in MCYears, m \in 0..13, d \in 0..32}

MCTagName == 2..8 \cup MCDates

MCParseTag == [t \in MCTagName |->
    IF t \in MCName
    THEN [ok |-> t # 8, name |-> t, build |-> MCBuild[t], major |-> IF t = 8 THEN 0 ELSE 1,
          minor |-> MCMinor[t], patch |-> MCPatch[t],
          flavorBase |-> IF MCFlavor[t] = 0 THEN 0 ELSE 1,
          flavorNumber |-> MCFlavorNumber[t], flavor |-> MCFlavor[t]]
    ELSE [ok |-> TRUE, name |-> t, build |-> t, major |-> 1, minor |-> 2, patch |-> 3,
          flavorBase |-> 0, flavorNumber |-> 0, flavor |-> 0]]

MCZeroDay == DayNumber(2026, 2, 1)

MCStartDays == {20231231, 20240116, 20250116, 21000116, 20000131, 20251117}

MCInit == InitListing /\ WindowInit

Listing == start = 0 /\ NextListing /\ UNCHANGED windowVars

Walking ==
    /\ published = <<>> /\ step = "idle" /\ access = "public"
    /\ WalkStarts \/ Tomorrow
    /\ UNCHANGED <<registryVars, listVars>>
=============================================================================
