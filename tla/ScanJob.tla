------------------------------- MODULE ScanJob -------------------------------
(***************************************************************************)
(* A scan in the cluster (internal/kube/cve_job.go): a command creates a   *)
(* Job, polls it until it has ended or the timeout has passed, reads the   *)
(* logs of its pod and deletes it.  Every call to the API server is an     *)
(* action.  The Job controller, the kubelet and the scanner go their own   *)
(* way in between: a pod may never start, end at the moment of the         *)
(* timeout, or be gone before its logs are read.                           *)
(***************************************************************************)
EXTENDS CveCommand

CONSTANTS
    Stamp,              \* what the clock may read when a command names its Job
    Outputs             \* bound: the outputs of a scanner that meets with difficulties

VARIABLES
    namespace,          \* whether the scan namespace exists
    jobs,               \* JobName -> the Job of that name
    scans               \* Command -> how far its scan in the cluster has got

scanVars == <<namespace, jobs, scans, mode, disturbances>>

-----------------------------------------------------------------------------
(* Objects                                                                 *)

\* rke2-patcher-cve-<time> and rke2-patcher-cve-batch-<time>.
JobName == BOOLEAN \X Stamp

\* noise: the download of the VEX report was tried again and has left messages; dropped: the
\* lines the kubelet has rotated away.
Output == [of : [Image -> Outcome], noise : BOOLEAN, dropped : Nat]

AllWell == [of |-> [i \in Image |-> "ok"], noise |-> FALSE, dropped |-> 0]

ASSUME ScanJobAssumption == Outputs \subseteq Output /\ None \notin Output

\* owner is the command that created the Job; pod is the phase of the only pod, which has a
\* backoffLimit of 0 and is never restarted; status is what the Job reports.
Job == [exists : BOOLEAN, owner : Command \cup {None}, request : Requests \cup {None},
        pod : {"waiting", "running", "succeeded", "failed", "gone"},
        status : {"active", "succeeded", "failed"}, output : Output \cup {None}]

NoJob == [exists |-> FALSE, owner |-> None, request |-> None, pod |-> "waiting",
          status |-> "active", output |-> None]

ScanSteps == {"new", "namespace", "prompt", "createNamespace", "create", "poll", "logs",
              "delete", "over"}

\* left says why the command left a Job behind that it may have created.
Results == {"none", "refused", "error", "timedOut", "failed", "reported"}
Left == {"nothing", "killed", "answerLost", "deleteFailed"}

ScanRecord ==
    [step : ScanSteps, request : Requests \cup {None}, name : JobName \cup {None},
     expired : BOOLEAN, logs : Output \cup {None}, result : Results, left : Left]

NoScan == [step |-> "new", request |-> None, name |-> None, expired |-> FALSE, logs |-> None,
           result |-> "none", left |-> "nothing"]

ScanTypeOK ==
    /\ namespace \in BOOLEAN
    /\ jobs \in [JobName -> Job]
    /\ scans \in [Command -> ScanRecord]
    /\ mode \in [Command -> Modes]
    /\ disturbances \in 0..MaxDisturbances

ScanInit ==
    /\ namespace \in BOOLEAN
    /\ jobs = [n \in JobName |-> NoJob]
    /\ scans = [p \in Command |-> NoScan]
    /\ mode \in [Command -> Modes]
    /\ disturbances = 0

-----------------------------------------------------------------------------
(* runScanJob                                                              *)

AtScan(p, step) == scans[p].step = step
job(p) == jobs[scans[p].name]

ToScan(p, step) == scans' = [scans EXCEPT ![p].step = step]
EndScan(p, result) == scans' = [scans EXCEPT ![p].step = "over", ![p].result = result]

\* Mutant: the Job is deleted once its logs were read, and not deferred.
DeletedOnSuccess(p, result) ==
    scans' = [scans EXCEPT ![p].step = "over", ![p].result = result]

\* The deferred deletion follows whatever waitForScanJobCompletion returns.
Return(p, result) == scans' = [scans EXCEPT ![p].step = "delete", ![p].result = result]

StartScan(p, request, stamp) ==
    /\ mode[p] = "cluster" /\ AtScan(p, "new")
    /\ scans' = [scans EXCEPT ![p].step = "namespace", ![p].request = request,
                              ![p].name = <<request.batch, stamp>>]
    /\ UNCHANGED <<namespace, jobs, mode, disturbances>>

NamespaceExists(p) ==
    /\ AtScan(p, "namespace")
    /\ ToScan(p, IF namespace THEN "create" ELSE "prompt")
    /\ UNCHANGED <<namespace, jobs, mode, disturbances>>

\* The user may never answer; without a terminal the answer is an error.
PromptYesNo(p) ==
    /\ AtScan(p, "prompt")
    /\ ToScan(p, "createNamespace") \/ EndScan(p, "refused")
    /\ UNCHANGED <<namespace, jobs, mode, disturbances>>

\* AlreadyExists is as good as created.
CreateNamespace(p) ==
    /\ AtScan(p, "createNamespace")
    /\ namespace' = TRUE
    /\ ToScan(p, "create")
    /\ UNCHANGED <<jobs, mode, disturbances>>

NewJob(p) == [NoJob EXCEPT !.exists = TRUE, !.owner = p, !.request = scans[p].request]

\* Mutant: the deletion is deferred before the Job is created.
CreateOrDelete(p) ==
    /\ AtScan(p, "create")
    /\ IF job(p).exists
       THEN Return(p, "error") /\ UNCHANGED jobs
       ELSE ToScan(p, "poll") /\ jobs' = [jobs EXCEPT ![scans[p].name] = NewJob(p)]
    /\ UNCHANGED <<namespace, mode, disturbances>>

\* A Job of the same name, of a command started at the same time, is an error.
CreateScanJob(p) ==
    /\ AtScan(p, "create")
    /\ IF job(p).exists
       THEN EndScan(p, "error") /\ UNCHANGED jobs
       ELSE ToScan(p, "poll") /\ jobs' = [jobs EXCEPT ![scans[p].name] = NewJob(p)]
    /\ UNCHANGED <<namespace, mode, disturbances>>

\* The deadline of the context passes.
Expire(p) ==
    /\ AtScan(p, "poll") /\ ~scans[p].expired
    /\ scans' = [scans EXCEPT ![p].expired = TRUE]
    /\ UNCHANGED <<namespace, jobs, mode, disturbances>>

\* Mutant: the loop does not look at the deadline.
WaitForever(p) ==
    /\ AtScan(p, "poll")
    /\ \/ job(p).status = "succeeded" /\ ToScan(p, "logs")
       \/ job(p).status = "failed" /\ Return(p, "failed")
    /\ UNCHANGED <<namespace, jobs, mode, disturbances>>

\* Mutant: the logs read at the timeout are taken for the result.
PartialLogsReported(p) ==
    /\ AtScan(p, "poll")
    /\ \/ /\ scans[p].expired
          /\ scans' = [scans EXCEPT ![p].step = "delete", ![p].result = "reported",
                                    ![p].logs = job(p).output]
       \/ ~scans[p].expired /\ job(p).status = "succeeded" /\ ToScan(p, "logs")
       \/ ~scans[p].expired /\ job(p).status = "failed" /\ Return(p, "failed")
    /\ UNCHANGED <<namespace, jobs, mode, disturbances>>

\* waitForScanJobCompletion, one round of the loop: a Job that is active is asked again until
\* the deadline; partial logs go into the message of a timeout or a failure only.
GetScanJobStatus(p) ==
    /\ AtScan(p, "poll")
    /\ \/ scans[p].expired /\ Return(p, "timedOut")
       \/ ~scans[p].expired /\ job(p).status = "succeeded" /\ ToScan(p, "logs")
       \/ ~scans[p].expired /\ job(p).status = "failed" /\ Return(p, "failed")
    /\ UNCHANGED <<namespace, jobs, mode, disturbances>>

\* waitForJobLogs: a pod that is running or has ended has logs.
ReadLogs(p) ==
    /\ AtScan(p, "logs")
    /\ job(p).pod \in {"running", "succeeded", "failed"}
    /\ scans' = [scans EXCEPT ![p].step = "delete", ![p].result = "reported",
                              ![p].logs = job(p).output]
    /\ UNCHANGED <<namespace, jobs, mode, disturbances>>

LogsUnavailable(p) ==
    /\ AtScan(p, "logs")
    /\ job(p).pod \in {"waiting", "gone"}
    /\ Return(p, "error")
    /\ UNCHANGED <<namespace, jobs, mode, disturbances>>

DeleteJob(p) ==
    /\ AtScan(p, "delete")
    /\ jobs' = [jobs EXCEPT ![scans[p].name] = NoJob]
    /\ ToScan(p, "over")
    /\ UNCHANGED <<namespace, mode, disturbances>>

ScanStep(p) ==
    \/ NamespaceExists(p) \/ CreateNamespace(p) \/ CreateScanJob(p) \/ GetScanJobStatus(p)
    \/ ReadLogs(p) \/ LogsUnavailable(p) \/ DeleteJob(p)

\* A call fails.  One failed poll ends the scan; an error of the deletion is ignored.
ScanCallFails(p) ==
    /\ Disturb("fail")
    /\ \/ scans[p].step \in {"namespace", "createNamespace", "create"} /\ EndScan(p, "error")
       \/ scans[p].step \in {"poll", "logs"} /\ Return(p, "error")
       \/ /\ AtScan(p, "delete")
          /\ scans' = [scans EXCEPT ![p].step = "over", ![p].left = "deleteFailed"]
    /\ UNCHANGED <<namespace, jobs, mode>>

\* The Job is created but the answer is lost: runScanJob returns before it defers the deletion.
CreateAnswerLost(p) ==
    /\ Disturb("lost")
    /\ AtScan(p, "create") /\ ~job(p).exists
    /\ jobs' = [jobs EXCEPT ![scans[p].name] = NewJob(p)]
    /\ scans' = [scans EXCEPT ![p].step = "over", ![p].result = "error", ![p].left = "answerLost"]
    /\ UNCHANGED <<namespace, mode>>

\* The process is killed, its deferred calls with it.
KillScan(p) ==
    /\ Disturb("kill")
    /\ scans[p].step \notin {"new", "over"}
    /\ scans' = [scans EXCEPT ![p].step = "over", ![p].result = "error", ![p].left = "killed"]
    /\ UNCHANGED <<namespace, jobs, mode>>

-----------------------------------------------------------------------------
(* The Job controller, the kubelet and the scanner                         *)

PodStarts(n) ==
    /\ jobs[n].exists /\ jobs[n].pod = "waiting"
    /\ jobs' = [jobs EXCEPT ![n].pod = "running"]
    /\ UNCHANGED <<namespace, scans, mode, disturbances>>

\* The exit code of the script is trivy's for one image and that of the last echo for a batch,
\* unless no download of the VEX report succeeds.
PodSucceeds(request, output) ==
    Len(request.images) = 1 => ExitCode(output.of[request.images[1]]) = 0

PodEnds(n) ==
    /\ jobs[n].exists /\ jobs[n].pod = "running"
    /\ jobs' = [jobs EXCEPT ![n].pod = "succeeded", ![n].output = AllWell]
    /\ UNCHANGED <<namespace, scans, mode, disturbances>>

\* The pod ends after a scan that failed, a download that was tried again, or with a log too
\* large to be kept.
PodEndsBadly(n, output) ==
    /\ Disturb("scanner")
    /\ jobs[n].exists /\ jobs[n].pod = "running"
    /\ jobs' = [jobs EXCEPT ![n].output = output,
                            ![n].pod = IF PodSucceeds(jobs[n].request, output)
                                       THEN "succeeded" ELSE "failed"]
    /\ UNCHANGED <<namespace, scans, mode>>

\* Every download failed, or the pod was evicted.
PodFails(n) ==
    /\ Disturb("pod")
    /\ jobs[n].exists /\ jobs[n].pod \in {"waiting", "running"}
    /\ \E pod \in {"failed", "gone"} : jobs' = [jobs EXCEPT ![n].pod = pod]
    /\ UNCHANGED <<namespace, scans, mode>>

\* The pod is removed with its logs once the Job has counted it.
PodRemoved(n) ==
    /\ Disturb("pod")
    /\ jobs[n].exists /\ jobs[n].status = "succeeded" /\ jobs[n].pod = "succeeded"
    /\ jobs' = [jobs EXCEPT ![n].pod = "gone"]
    /\ UNCHANGED <<namespace, scans, mode>>

\* The Job reports what has become of its pod.
CountPod(n) ==
    /\ jobs[n].exists /\ jobs[n].status = "active"
    /\ jobs[n].pod \in {"succeeded", "failed", "gone"}
    /\ jobs' = [jobs EXCEPT ![n].status = IF jobs[n].pod = "succeeded" THEN "succeeded" ELSE "failed"]
    /\ UNCHANGED <<namespace, scans, mode, disturbances>>

\* What a command, and what the cluster, does when nothing goes wrong, the answer to a prompt and
\* the passing of time apart.
JobStep(n) == PodStarts(n) \/ PodEnds(n) \/ CountPod(n)

ScanNext ==
    \/ \E p \in Command :
          \/ \E request \in Requests, stamp \in Stamp : StartScan(p, request, stamp)
          \/ ScanStep(p) \/ PromptYesNo(p) \/ Expire(p)
          \/ ScanCallFails(p) \/ CreateAnswerLost(p) \/ KillScan(p)
    \/ \E n \in JobName :
          \/ JobStep(n) \/ PodFails(n) \/ PodRemoved(n)
          \/ \E output \in Outputs : PodEndsBadly(n, output)

-----------------------------------------------------------------------------
(* Properties                                                              *)

\* A Job is deleted on every way out of runScanJob, whatever was reported: one is left behind by
\* a command that was killed, or whose own call to create or delete it failed, and no other.
JobsRemoved ==
    \A n \in JobName :
        jobs[n].exists =>
            LET scan == scans[jobs[n].owner]
            IN  scan.name = n /\ (scan.step \in {"poll", "logs", "delete"} \/ scan.left # "nothing")

\* Names are taken from the clock: a command whose name is taken neither waits for nor deletes
\* the Job of the other one.
ForeignJobsKept ==
    [][\A n \in JobName :
         jobs[n].exists /\ ~jobs'[n].exists =>
            AtScan(jobs[n].owner, "delete") /\ scans'[jobs[n].owner].step = "over"]_<<jobs, scans>>

\* What is reported was read from a pod that had ended, although the status is polled from the
\* Job and the logs are read from whichever pod is found afterwards.
OnlyFinishedReported == \A p \in Command : scans[p].result = "reported" => scans[p].logs # None
=============================================================================
