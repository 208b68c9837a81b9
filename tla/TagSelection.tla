---------------------------- MODULE TagSelection ----------------------------
(***************************************************************************)
(* How the tags a registry lists are ordered (policy.OrderTags) and how    *)
(* the CLI selects among them: the target of image-patch                   *)
(* (resolvePatchTargetTagForTarget) and the tags image-list shows          *)
(* (selectTagsForCVEListing, splitTagsByPatchWindow).  "names" is what     *)
(* ListTags has returned, see TagListing.                                  *)
(***************************************************************************)
EXTENDS Policy, TagListing

CONSTANTS
    NoTag,          \* the empty tag name
    ListedFor,      \* the component whose tags are listed
    ZeroDay         \* the zero-day of the cluster, a build day

ASSUME NoTagAssumption == NoTag \in Nat \ TagName /\ Name \ Skipped \subseteq TagName

-----------------------------------------------------------------------------
(* Ordering                                                                *)

\* Mutant: only the build decides.
NewerBuild(t, u) == ParseTag[t].build > ParseTag[u].build

Newer(t, u) == CompareTags(ParseTag[t], ParseTag[u]) > 0

\* A version that is not listed yet goes behind the tags that are newer.
Insert(ordered, t) ==
    IF ~ParseTag[t].ok \/ Contains(ordered, t) THEN ordered
    ELSE LET k == Cardinality({i \in DOMAIN ordered : Newer(ordered[i], t)})
         IN  SubSeq(ordered, 1, k) \o <<t>> \o SubSeq(ordered, k + 1, Len(ordered))

\* Newest first, without the names that are no versions and without duplicates.
OrderTags(all) == FoldLeft(Insert, <<>>, all)

\* 0 when the tag is not listed.
IndexOf(ordered, tag) == SelectInSeq(ordered, LAMBDA t : t = tag)

-----------------------------------------------------------------------------
(* image-patch                                                             *)

Refused(reason) == [tag |-> NoTag, reason |-> reason]

SameLine(t, u) == ParseTag[t].major = ParseTag[u].major /\ ParseTag[t].minor = ParseTag[u].minor

\* Mutant: only a newer minor release is refused for an explicit tag.
CheckLineNewerOnly(currentTag, target, explicit) ==
    IF IsNewerMinorRelease(ParseTag[currentTag], ParseTag[target])
    THEN Refused("newer minor") ELSE [tag |-> target, reason |-> "OK"]

\* The release line of the target: a newer one is refused, for an explicit tag any other one.
CheckLine(currentTag, target, explicit) ==
    IF IsNewerMinorRelease(ParseTag[currentTag], ParseTag[target]) THEN Refused("newer minor")
    ELSE IF explicit /\ ~SameLine(currentTag, target) THEN Refused("other line")
    ELSE [tag |-> target, reason |-> "OK"]

\* Mutant: the newest tag instead of the next one.
NextTag(ordered, index) == ordered[1]

\* The next newer tag.
DefaultTarget(ordered, index) == ordered[index - 1]

resolvePatchTargetTag(currentTag, requested) ==
    LET ordered == OrderTags(names)
        index == IndexOf(ordered, currentTag)
        target == IndexOf(ordered, requested)
    IN  CASE ordered = <<>> -> Refused("no tags")
          [] ordered # <<>> /\ index = 0 -> Refused("current not found")
          [] index > 0 /\ requested = NoTag ->
               IF index = 1 THEN Refused("already the latest")
               ELSE CheckLine(currentTag, DefaultTarget(ordered, index), FALSE)
          [] index > 0 /\ requested # NoTag ->
               IF target = 0 THEN Refused("not found")
               ELSE IF target = index THEN Refused("already running")
               ELSE IF target > index THEN Refused("older")
               ELSE CheckLine(currentTag, requested, TRUE)

-----------------------------------------------------------------------------
(* image-list                                                              *)

\* The newer tags, the current one and the one before it; nothing if the current one is unknown.
selectTagsForCVEListing(currentTag) ==
    LET ordered == OrderTags(names)
        index == IndexOf(ordered, currentTag)
    IN  IF index = 0 THEN [tags |-> <<>>, previous |-> NoTag]
        ELSE IF index = Len(ordered) THEN [tags |-> ordered, previous |-> NoTag]
        ELSE [tags |-> SubSeq(ordered, 1, index + 1), previous |-> ordered[index + 1]]

\* Mutant: the current tag is subject to the window.
EligibleByWindow(tag, currentTag, previousTag) ==
    tag = previousTag \/ ValidatePatchWindow(ListedFor, tag, ZeroDay) = "OK"

Eligible(tag, currentTag, previousTag) ==
    \/ tag \in {currentTag, previousTag}
    \/ ValidatePatchWindow(ListedFor, tag, ZeroDay) = "OK"

\* The tags of both lists, which keep the order of the tags that are shown.
splitTagsByPatchWindow(shown, currentTag, previousTag) ==
    LET eligible == {t \in ToSet(shown) : \/ IsPatchWindowExempt(ListedFor)
                                          \/ Eligible(t, currentTag, previousTag)}
    IN  [eligible |-> eligible, blocked |-> ToSet(shown) \ eligible]

-----------------------------------------------------------------------------
(* Properties                                                              *)

\* OrderTags lists every version once, and no later tag compares as newer: the comparison is a
\* total order although it mixes build, version and flavor, so the listing does not depend on
\* the order in which the registry answers.
OrderedNewestFirst ==
    LET ordered == OrderTags(names)
    IN  /\ ToSet(ordered) = {t \in ToSet(names) : ParseTag[t].ok}
        /\ \A i, j \in DOMAIN ordered : i < j => Newer(ordered[i], ordered[j])

\* The CLI refuses an explicit target exactly when the rules of the controller do, with the
\* running tag in the place of the bundled one ("enforcing the same guardrails as the CLI").
CLIAgreesWithPolicy ==
    \A currentTag \in {t \in ToSet(names) : ParseTag[t].ok}, requested \in Name \ Skipped :
        resolvePatchTargetTag(currentTag, requested).reason = "OK"
        <=> ValidateExplicitTarget(currentTag, requested, ToSet(OrderTags(names))) = "OK"

\* Without --tag the CLI moves to the closest newer tag: nothing listed lies between.
NextNewerTag ==
    \A currentTag \in Name \ Skipped :
        LET target == resolvePatchTargetTag(currentTag, NoTag)
        IN  target.reason = "OK" =>
              /\ Newer(target.tag, currentTag)
              /\ \A t \in ToSet(OrderTags(names)) :
                    ~(Newer(t, currentTag) /\ Newer(target.tag, t))

\* What image-list shows next to what image-patch --tag does.  Eligible are the running tag, the
\* one before it and the newer tags inside the window; image-patch accepts of them exactly the
\* newer tags of the running release line, although "eligible tags: can be patched on the
\* current cluster" (README.md:131).  Blocked are exactly the newer tags outside the window, of
\* any line.
ListingMatchesPatching ==
    \A currentTag \in {t \in ToSet(names) : ParseTag[t].ok} :
        LET listing == selectTagsForCVEListing(currentTag)
            split == splitTagsByPatchWindow(listing.tags, currentTag, listing.previous)
            newer == {t \in ToSet(names) : ParseTag[t].ok /\ Newer(t, currentTag)}
            inWindow(t) == ValidatePatchWindow(ListedFor, t, ZeroDay) = "OK"
            accepted(t) == resolvePatchTargetTag(currentTag, t).reason = "OK" /\ inWindow(t)
        IN  /\ split.eligible = {currentTag} \cup ({listing.previous} \ {NoTag})
                                \cup {t \in newer : inWindow(t)}
            /\ split.blocked = {t \in newer : ~inWindow(t)}
            /\ \A t \in Name \ Skipped :
                 accepted(t) <=> t \in split.eligible \cap newer /\ SameLine(currentTag, t)
=============================================================================
