----------------------------- MODULE CveCommand -----------------------------
(***************************************************************************)
(* What the scans of the cluster (ScanJob) and of the local machine        *)
(* (VexFile) share: the commands that ask for one, image-cve for the       *)
(* running image and image-list --with-cves for the selected tags, and     *)
(* the bound on what goes wrong.                                           *)
(***************************************************************************)
EXTENDS Integers, Sequences

CONSTANTS
    Command,            \* the processes, each one image-cve or image-list --with-cves
    Image,              \* the images they scan
    Requests,           \* what they are asked to scan
    None,               \* an absent name, output or file
    Kinds,              \* bound: the kinds of disturbance that happen
    MaxDisturbances     \* bound: how many disturbances happen

ASSUME CveCommandAssumption ==
    /\ None \notin Image
    /\ Requests \subseteq [images : Seq(Image), batch : BOOLEAN]
    /\ \A request \in Requests :
         /\ request.images # <<>> /\ (request.batch \/ Len(request.images) = 1)
         /\ \A k, m \in DOMAIN request.images : request.images[k] = request.images[m] => k = m
    /\ MaxDisturbances \in Nat

VARIABLES
    mode,               \* Command -> where it scans, by RKE2_PATCHER_SCANNER_MODE
    disturbances        \* how many disturbances have happened

\* Of any other value of the variable the command ends before it does anything.
Modes == {"cluster", "local"}

\* image-cve scans one image; image-list a batch of images, of tags that are all different.
imagesOf(request) == {request.images[k] : k \in DOMAIN request.images}

Disturb(kind) ==
    /\ kind \in Kinds
    /\ disturbances < MaxDisturbances
    /\ disturbances' = disturbances + 1

\* How trivy ends for an image: with a report, with a report between messages on stderr, with a
\* line beyond what bufio.Scanner takes, or with a non-zero code and a message or none.
Outcome == {"ok", "mixed", "long", "failed", "silent"}
ExitCode(outcome) == IF outcome \in {"failed", "silent"} THEN 1 ELSE 0
=============================================================================
