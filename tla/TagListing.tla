----------------------------- MODULE TagListing -----------------------------
(***************************************************************************)
(* registry.ListTags: the names of a repository's tags, page by page, with *)
(* a bearer token that is fetched when the registry asks for one and       *)
(* fetched again when it has run out.                                      *)
(*                                                                         *)
(* The registry is external.  It keeps names in an order of its own, counts *)
(* pages from the front of it, and may get a new name in front while it is *)
(* being listed, so a name may appear on two pages.  A token may run out   *)
(* between two pages but outlives the request it was fetched for.          *)
(***************************************************************************)
EXTENDS Integers, SequencesExt

CONSTANTS
    Name,           \* what a registry may hold: tag names, and
    Skipped,        \* "latest" and the names of signatures and attestations
    limit,          \* how many tags the caller asks for
    defaultPage,
    MaxNames        \* bound: how many names the registry holds

ASSUME ListingAssumption == /\ Skipped \subseteq Name
                            /\ limit \in Nat \ {0} /\ defaultPage \in Nat \ {0}

VARIABLES
    published,      \* the registry's names, in its order
    access,         \* whether it wants a token: "public", "token", or "denied" to any token
    tokenOK,        \* whether it accepts the token ListTags holds
    step,           \* what ListTags does next
    next,           \* the position the next page starts at, 0 if there is none
    bearerToken,    \* whether ListTags holds a token
    tags,           \* what it has listed
    outcome,        \* how it ended
    atStart         \* history: what was published when it started

registryVars == <<published, access>>
listVars == <<tokenOK, step, next, bearerToken, tags, outcome, atStart>>

InitListing ==
    /\ published = <<>> /\ access \in {"public", "token", "denied"}
    /\ tokenOK = FALSE /\ step = "idle" /\ next = 0 /\ bearerToken = FALSE
    /\ tags = <<>> /\ outcome = "" /\ atStart = {}

-----------------------------------------------------------------------------
(* The registry                                                            *)

Publish(n) ==
    /\ step # "done" /\ Len(published) < MaxNames
    /\ n \notin ToSet(published)
    /\ published' = <<n>> \o published
    /\ UNCHANGED <<access, listVars>>

TokenExpires ==
    /\ step = "page" /\ tokenOK
    /\ tokenOK' = FALSE
    /\ UNCHANGED <<registryVars, step, next, bearerToken, tags, outcome, atStart>>

Authorized == access = "public" \/ tokenOK

-----------------------------------------------------------------------------
(* ListTags                                                                *)

pageSize == IF limit < defaultPage THEN limit ELSE defaultPage

Ended(reason) == step' = "done" /\ outcome' = reason

\* A name of a page is added if it is a tag that is not listed yet and the limit allows it.
AddName(all, n) ==
    IF n \in Skipped \/ Contains(all, n) \/ Len(all) = limit THEN all ELSE Append(all, n)

Listed(page) == FoldLeft(AddName, tags, page)

\* Mutant: a page with no new tag is taken for the last one.
ContinuesWhileNew(nextURL, all) == nextURL # 0 /\ Len(all) < limit /\ all # tags

Continues(nextURL, all) == nextURL # 0 /\ Len(all) < limit

ListTags ==
    /\ step = "idle"
    /\ step' = "page" /\ next' = 1
    /\ atStart' = ToSet(published)
    /\ UNCHANGED <<registryVars, tokenOK, bearerToken, tags, outcome>>

\* A page is answered, with the link to the next one unless it is the last.
getTagsPage ==
    /\ step \in {"page", "retry"} /\ Authorized
    /\ LET last == Min({next + pageSize - 1, Len(published)})
           nextURL == IF last < Len(published) THEN last + 1 ELSE 0
           all == Listed(SubSeq(published, next, last))
       IN  /\ tags' = all /\ next' = nextURL
           /\ IF Continues(nextURL, all) THEN step' = "page" /\ UNCHANGED outcome
              ELSE Ended(IF all = <<>> THEN "no tags found" ELSE "OK")
    /\ UNCHANGED <<registryVars, tokenOK, bearerToken, atStart>>

\* Mutant: a token is only fetched when there is none yet.
UnauthorizedOnce ==
    /\ step \in {"page", "retry"} /\ ~Authorized
    /\ IF bearerToken THEN Ended("unauthorized") ELSE step' = "token" /\ UNCHANGED outcome
    /\ UNCHANGED <<registryVars, tokenOK, next, bearerToken, tags, atStart>>

\* The first refusal of a request asks for a new token, whatever token was held; the second
\* ends the listing.
Unauthorized ==
    /\ step \in {"page", "retry"} /\ ~Authorized
    /\ IF step = "page" THEN step' = "token" /\ UNCHANGED outcome ELSE Ended("unauthorized")
    /\ UNCHANGED <<registryVars, tokenOK, next, bearerToken, tags, atStart>>

\* The realm of the challenge hands out a token for the repository.
fetchBearerToken ==
    /\ step = "token"
    /\ step' = "retry" /\ bearerToken' = TRUE
    /\ tokenOK' = (access = "token")
    /\ UNCHANGED <<registryVars, next, tags, outcome, atStart>>

\* A request or the token's fails otherwise: no connection, another status, no usable
\* challenge, a link that is no URL, a token that must not be sent without TLS.
RequestFails ==
    /\ step \in {"page", "token", "retry"}
    /\ Ended("failed") /\ tags' = <<>>
    /\ UNCHANGED <<registryVars, tokenOK, next, bearerToken, atStart>>

NextListing ==
    \/ \E n \in Name : Publish(n)
    \/ TokenExpires \/ ListTags \/ getTagsPage
    \/ Unauthorized \/ fetchBearerToken \/ RequestFails

ListingSpec == InitListing /\ [][NextListing]_<<registryVars, listVars>>

\* What the caller gets: nothing unless the listing succeeds.
names == IF outcome = "OK" THEN tags ELSE <<>>

-----------------------------------------------------------------------------
(* Properties                                                              *)

\* A listing that ends below its limit holds every tag that was published when it started, once:
\* pages of nothing but signatures or repeated names do not end it, and a name pushed to the
\* front in between repeats names but hides none.
NothingSkipped ==
    (outcome \in {"OK", "no tags found"} /\ Len(tags) < limit) =>
        /\ atStart \ Skipped \subseteq ToSet(tags)
        /\ Len(tags) = Cardinality(ToSet(tags))

\* A token that runs out between two pages is fetched again: no listing ends unauthorized at a
\* registry that accepts the tokens it hands out.
TokenRenewed == outcome = "unauthorized" => access = "denied"
=============================================================================
