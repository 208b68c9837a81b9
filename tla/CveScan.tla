------------------------------- MODULE CveScan -------------------------------
(***************************************************************************)
(* Commands that look for vulnerabilities (runCVE and                      *)
(* runImageListWithCVEs, internal/cmd/run.go), in the cluster (ScanJob,    *)
(* whose logs BatchLog reads) or on the local machine (VexFile), at the    *)
(* same time.                                                              *)
(***************************************************************************)
EXTENDS ScanJob, VexFile, BatchLog

cveVars == <<namespace, jobs, scans, vexFile, installed, online, locals, mode, disturbances>>

CveTypeOK == ScanTypeOK /\ VexTypeOK

Init == ScanInit /\ VexInit

Next ==
    \/ ScanNext /\ UNCHANGED <<vexFile, installed, online, locals>>
    \/ VexNext /\ UNCHANGED <<namespace, jobs, scans>>

Cluster(step) == step /\ UNCHANGED <<vexFile, installed, online, locals>>
Local(step) == step /\ UNCHANGED <<namespace, jobs, scans>>

\* Calls return and time passes; nothing makes a user answer, and nothing makes a pod end.
Fairness ==
    \A p \in Command :
        /\ WF_cveVars(Cluster(ScanStep(p)))
        /\ WF_cveVars(Cluster(Expire(p)))
        /\ WF_cveVars(Local(LocalStep(p)))

Spec == Init /\ [][Next]_cveVars /\ Fairness

-----------------------------------------------------------------------------
(* Properties                                                              *)

reported(p) == Findings(scans[p].request, scans[p].logs)

\* The log has lost nothing of what was printed for an image: not its begin marker, which comes
\* first, or, of a scan without markers, no more than the messages of the download.
Complete(p, i) ==
    LET request == scans[p].request
        output == scans[p].logs
    IN  IF request.batch THEN Contains(PodLog(request.images, output), Line("begin", i, 0))
        ELSE output.dropped <= Len(Download(output))

\* What the reader trips over is not in the log: of a batch, a line of any image beyond what
\* bufio.Scanner takes; of one image, a message before the report, since all of the log is JSON.
Clean(p) ==
    LET request == scans[p].request
        output == scans[p].logs
        log == PodLog(request.images, output)
    IN  IF request.batch THEN \A k \in DOMAIN log : ~log[k].long
        ELSE output.dropped >= Len(Download(output))

\* An image is reported with its own findings or not at all, and only if its scan ended well and
\* the log has the whole of its report: neither an image that fails, nor messages or a log that
\* begins in the middle of another one, makes the findings of an image those of the next.  And
\* a report by itself, in a log that has all of it and nothing that the reader trips over, is
\* reported, whatever has become of the other images of the batch.  Batches of one image are
\* left out: for them see EverySelectedTagReported.
FindingsReported ==
    \A p \in Command :
        scans[p].result = "reported" /\ (scans[p].request.batch => Len(scans[p].request.images) > 1) =>
            \A i \in Image :
                LET requested == i \in imagesOf(scans[p].request)
                    outcome == scans[p].logs.of[i]
                IN  /\ reported(p)[i] # None =>
                         reported(p)[i] = i /\ requested /\ ExitCode(outcome) = 0 /\ Complete(p, i)
                    /\ requested /\ outcome = "ok" /\ Complete(p, i) /\ Clean(p) => reported(p)[i] = i

\* FindingsReported without its conditions on messages and on other images: "scans the given image
\* with the cluster scanner and returns the CVEs found", of every scan that ended well.
GoodScansReported ==
    \A p \in Command :
        scans[p].result = "reported" =>
            \A i \in imagesOf(scans[p].request) :
                ExitCode(scans[p].logs.of[i]) = 0 /\ Complete(p, i) => reported(p)[i] = i

\* When all goes well image-list --with-cves reports the findings of every tag it has selected.
EverySelectedTagReported ==
    \A p \in Command :
        scans[p].result = "reported" /\ scans[p].request.batch /\ scans[p].logs = AllWell =>
            \A i \in imagesOf(scans[p].request) : reported(p)[i] = i

\* A command ends, by the timeout if need be, unless it waits for an answer of its user: neither
\* a Job whose pod never starts nor a registry that is never reached keeps it for ever.
ScansEnd ==
    \A p \in Command :
        /\ scans[p].step \notin {"new", "namespace", "prompt"} ~> scans[p].step = "over"
        /\ locals[p].step # "new" ~> locals[p].step = "over"
=============================================================================
