------------------------------- MODULE Policy -------------------------------
(***************************************************************************)
(* The rules that decide which tags a component may be patched to          *)
(* (internal/policy), shared by the CLI and the controller.                *)
(*                                                                         *)
(* A tag name is its rank in the string order of all names, so strings.Compare *)
(* on names is < on numbers; what ParseTag reads out of the characters of a *)
(* name is the constant function ParseTag, whose "ok" field is the second  *)
(* result of the Go function.                                              *)
(***************************************************************************)
EXTENDS Integers

CONSTANTS
    TagName,            \* the tag names
    ParseTag,           \* TagName -> Tag
    PatchWindowExempt   \* the components exempt from the patch window

\* The parsed, comparable form of a tag; flavorBase and flavor are ranks in string order.
Tag == [ok : BOOLEAN, name : Nat, build : Int, major : Nat, minor : Nat, patch : Nat,
        flavorBase : Nat, flavorNumber : Nat, flavor : Nat]

ASSUME TagNameAssumption == TagName \subseteq Nat
ASSUME ParseTagAssumption ==
    /\ ParseTag \in [TagName -> Tag]
    /\ \A t \in TagName : ParseTag[t].name = t

PatchWindowDays == 45

-----------------------------------------------------------------------------
(* Ordering of tags                                                        *)

\* The fields in the order in which CompareTags looks at them.
TagKey(tag) == <<tag.build, tag.major, tag.minor, tag.patch,
                 tag.flavorBase, tag.flavorNumber, tag.flavor, tag.name>>

compareInt(left, right) == IF left > right THEN 1 ELSE IF left < right THEN -1 ELSE 0

CompareTags(left, right) ==
    LET l == TagKey(left)
        r == TagKey(right)
        differ == {i \in 1..8 : l[i] # r[i]}
        first == CHOOSE i \in differ : \A j \in differ : i <= j
    IN  IF differ = {} THEN 0 ELSE compareInt(l[first], r[first])

IsNewerMinorRelease(current, target) ==
    \/ target.major > current.major
    \/ target.major = current.major /\ target.minor > current.minor

-----------------------------------------------------------------------------
(* Build dates: the build number of a tag read as yyyymmdd                 *)

LeapYear(y) == y % 4 = 0 /\ (y % 100 # 0 \/ y % 400 = 0)

\* Mutant: no month is shorter than another.
LongMonths(y, m) == 31

DaysInMonth(y, m) == IF m = 2 THEN (IF LeapYear(y) THEN 29 ELSE 28)
                     ELSE IF m \in {4, 6, 9, 11} THEN 30 ELSE 31

\* Mutant: every fourth year is a leap year.
DayNumberJulian(y, m, d) ==
    LET yy == IF m <= 2 THEN y - 1 ELSE y
        mm == (m + 9) % 12
    IN  365 * yy + yy \div 4 + (153 * mm + 2) \div 5 + d

\* The days of the calendar in order, for 0 < m <= 12: differences count days.
DayNumber(y, m, d) ==
    LET yy == IF m <= 2 THEN y - 1 ELSE y
        mm == (m + 9) % 12
    IN  365 * yy + yy \div 4 - yy \div 100 + yy \div 400 + (153 * mm + 2) \div 5 + d

\* Whether the eight digits of a build number are a calendar date.
IsBuildDate(build) ==
    LET m == (build \div 100) % 100
        d == build % 100
    IN  /\ build > 0 /\ build < 100000000
        /\ m \in 1..12
        /\ d >= 1 /\ d <= DaysInMonth(build \div 10000, m)

HasBuildDate(name) == ParseTag[name].ok /\ IsBuildDate(ParseTag[name].build)

BuildDate(name) ==
    LET b == ParseTag[name].build IN DayNumber(b \div 10000, (b \div 100) % 100, b % 100)

-----------------------------------------------------------------------------
(* Validation of a target tag: "OK" or the reason of the violation         *)

Reason == {"OK", "TagNotFound", "UnparsableTag", "NotNewer", "MinorVersionChange",
           "OutsidePatchWindow"}

ValidateAgainstBaseline(baselineTag, targetTag) ==
    LET baseline == ParseTag[baselineTag]
        target == ParseTag[targetTag]
    IN  IF ~baseline.ok \/ ~target.ok THEN "UnparsableTag"
        ELSE IF CompareTags(target, baseline) <= 0 THEN "NotNewer"
        ELSE IF target.major # baseline.major \/ target.minor # baseline.minor
             THEN "MinorVersionChange" ELSE "OK"

ValidateExplicitTarget(baselineTag, targetTag, availableTags) ==
    IF targetTag \notin availableTags THEN "TagNotFound"
    ELSE ValidateAgainstBaseline(baselineTag, targetTag)

ValidateNotOlderThanCurrent(currentTag, targetTag) ==
    LET current == ParseTag[currentTag]
        target == ParseTag[targetTag]
    IN  IF current.ok /\ target.ok /\ CompareTags(target, current) < 0
        THEN "NotNewer" ELSE "OK"

IsPatchWindowExempt(component) == component \in PatchWindowExempt

ValidatePatchWindow(component, targetTag, zeroDay) ==
    IF IsPatchWindowExempt(component) THEN "OK"
    ELSE IF ~HasBuildDate(targetTag) THEN "UnparsableTag"
    ELSE IF BuildDate(targetTag) > zeroDay + PatchWindowDays THEN "OutsidePatchWindow"
    ELSE "OK"
=============================================================================
