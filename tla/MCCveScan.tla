------------------------------ MODULE MCCveScan ------------------------------
(***************************************************************************)
(* Two commands, two images, and scanners that meet with one or two        *)
(* difficulties.                                                           *)
(***************************************************************************)
EXTENDS CveScan

CONSTANTS p1, p2, i1, i2

MCRequests == {[images |-> <<i1>>, batch |-> FALSE], [images |-> <<i1, i2>>, batch |-> TRUE]}
MCOnlyTag == {[images |-> <<i1>>, batch |-> TRUE]}
MCOneImage == {[images |-> <<i1>>, batch |-> FALSE]}

\* One image ends in any way, the download leaves messages, which may be lost again, or the log
\* begins at any line.
MCOutputs ==
    {[AllWell EXCEPT !.of[i] = outcome] : i \in Image, outcome \in Outcome}
    \cup {[AllWell EXCEPT !.noise = TRUE, !.dropped = dropped] : dropped \in 0..2}
    \cup {[AllWell EXCEPT !.of[i1] = outcome, !.dropped = dropped] :
             outcome \in {"ok", "long"}, dropped \in 1..6}

\* The download goes wrong once and well the second time.
MCRetried == {[AllWell EXCEPT !.noise = TRUE]}

\* Scans in the cluster and on the local machine share nothing: those of one kind at a time.
MCInit ==
    /\ Init
    /\ \/ /\ mode = [p \in Command |-> "cluster"]
          /\ vexFile = [exists |-> FALSE, old |-> FALSE, whole |-> TRUE]
          /\ online /\ installed = {}
       \/ mode = [p \in Command |-> "local"] /\ namespace

MCSpec == MCInit /\ [][Next]_cveVars /\ Fairness
=============================================================================
