------------------------------ MODULE CveProofs ------------------------------
(***************************************************************************)
(* The scans for vulnerabilities, for any number of commands, images,      *)
(* attempts and disturbances.                                              *)
(*                                                                         *)
(* That a Job is deleted by its own command and by no other, although      *)
(* commands may choose the same name, follows from Holding: a command that *)
(* has got past the creation is the owner of the Job of its name.  That    *)
(* what is reported comes from a pod that has ended follows from Counted:  *)
(* a Job that has succeeded has an output.  That nobody opens a part of    *)
(* the VEX report follows from Sound: what is about to be renamed has been *)
(* copied to its end.  The cluster and the local machine share the bound   *)
(* on disturbances alone, so each invariant outlives the other's steps.    *)
(***************************************************************************)
EXTENDS CveScan, LogProofs

-----------------------------------------------------------------------------
(* The cluster: the invariant                                              *)

HoldSteps == {"poll", "logs", "delete"}

Named == \A p \in Command : ~AtScan(p, "new") => scans[p].name \in JobName

Holding ==
    \A p \in Command :
        /\ scans[p].step \in HoldSteps => job(p).exists /\ job(p).owner = p
        /\ scans[p].left # "nothing" => AtScan(p, "over")

Counted ==
    /\ \A n \in JobName :
         /\ jobs[n].exists => jobs[n].owner \in Command
         /\ jobs[n].pod = "succeeded" \/ jobs[n].status = "succeeded" => jobs[n].output # None
    /\ \A p \in Command : AtScan(p, "logs") => job(p).status = "succeeded"

JobInv == ScanTypeOK /\ Named /\ Holding /\ Counted /\ JobsRemoved /\ OnlyFinishedReported

-----------------------------------------------------------------------------
(* The cluster: types                                                                   *)

LEMMA AllWellType == AllWell \in Output
BY DEF AllWell, Output, Outcome

LEMMA NoJobType == NoJob \in Job
BY DEF NoJob, Job

LEMMA NoScanType == NoScan \in ScanRecord
BY DEF NoScan, ScanRecord, ScanSteps, Results, Left

\* The Job of a pod that has moved on.
JobMoved(n, j) ==
    /\ j \in Job /\ j.exists /\ j.owner = jobs[n].owner
    /\ j.status = jobs[n].status \/ jobs[n].status = "active"
    /\ j.pod = "succeeded" \/ j.status = "succeeded" => j.output # None

LEMMA JobUpdates ==
    ASSUME NEW n \in JobName, jobs[n] \in Job, jobs[n].exists,
           jobs[n].pod = "succeeded" \/ jobs[n].status = "succeeded" => jobs[n].output # None,
           NEW output \in Output
    PROVE  /\ jobs[n].pod = "waiting" => JobMoved(n, [jobs[n] EXCEPT !.pod = "running"])
           /\ \A pod \in {"failed", "gone"} : JobMoved(n, [jobs[n] EXCEPT !.pod = pod])
           /\ \A pod \in {"succeeded", "failed"} :
                JobMoved(n, [jobs[n] EXCEPT !.pod = pod, !.output = output])
           /\ \A pod \in {"succeeded", "failed"} :
                JobMoved(n, [jobs[n] EXCEPT !.output = output, !.pod = pod])
           /\ jobs[n].status = "active" /\ jobs[n].pod = "succeeded" =>
                JobMoved(n, [jobs[n] EXCEPT !.status = "succeeded"])
           /\ jobs[n].status = "active" => JobMoved(n, [jobs[n] EXCEPT !.status = "failed"])
<1>1. output # None
  BY ScanJobAssumption
<1> QED BY <1>1 DEF JobMoved, Job

-----------------------------------------------------------------------------
(* The cluster: what a step does                                                  *)

\* The record s follows r in a step that leaves the Jobs alone.
Follows(r, s) ==
    /\ s \in ScanRecord /\ s.name \in JobName /\ s.step # "new" /\ r.step # "over"
    /\ s.name = r.name \/ (r.step = "new" /\ s.step = "namespace")
    /\ s.step \in HoldSteps => r.step \in HoldSteps
    /\ r.step \in HoldSteps => s.step \in HoldSteps \/ s.left # "nothing"
    /\ s.left # "nothing" => s.step = "over"
    /\ s.result = "reported" => s.logs # None

\* A command moves on.
Advances(p, s) ==
    /\ UNCHANGED jobs
    /\ scans' = [scans EXCEPT ![p] = s]
    /\ Follows(scans[p], s)
    /\ s.step = "logs" => job(p).status = "succeeded"

\* It creates its Job, or may have, or deletes it.
Creates(p, s) ==
    /\ AtScan(p, "create") /\ ~job(p).exists
    /\ jobs' = [jobs EXCEPT ![scans[p].name] = NewJob(p)]
    /\ scans' = [scans EXCEPT ![p] = s]
    /\ s \in ScanRecord /\ s.name = scans[p].name
    /\ \/ s.step = "poll" /\ s.left = "nothing"
       \/ s.step = "over" /\ s.left # "nothing"
    /\ s.result = "reported" => s.logs # None

Deletes(p, s) ==
    /\ AtScan(p, "delete")
    /\ jobs' = [jobs EXCEPT ![scans[p].name] = NoJob]
    /\ scans' = [scans EXCEPT ![p] = s]
    /\ s \in ScanRecord /\ s.name = scans[p].name
    /\ s.step = "over" /\ s.left = "nothing"
    /\ s.result = "reported" => s.logs # None

\* The cluster moves on.
Moves(n, j) ==
    /\ jobs[n].exists
    /\ jobs' = [jobs EXCEPT ![n] = j]
    /\ UNCHANGED scans
    /\ JobMoved(n, j)

\* The ways in which a record is written.
Writes(p, step, result, left, logs) ==
    \E s \in ScanRecord :
        /\ scans' = [scans EXCEPT ![p] = s]
        /\ s.name = scans[p].name
        /\ s.step = step /\ s.result = result /\ s.left = left /\ s.logs = logs

LEMMA RecordWritten ==
    ASSUME ScanTypeOK, NEW p \in Command, NEW step \in ScanSteps, NEW result \in Results,
           NEW left \in Left, NEW logs \in Output \cup {None}
    PROVE  LET r == scans[p]
           IN  /\ ToScan(p, step) => Writes(p, step, r.result, r.left, r.logs)
               /\ EndScan(p, result) => Writes(p, "over", result, r.left, r.logs)
               /\ Return(p, result) => Writes(p, "delete", result, r.left, r.logs)
               /\ scans' = [scans EXCEPT ![p].expired = TRUE]
                    => Writes(p, r.step, r.result, r.left, r.logs)
               /\ scans' = [scans EXCEPT ![p].step = "delete", ![p].result = "reported",
                                         ![p].logs = logs]
                    => Writes(p, "delete", "reported", r.left, logs)
               /\ scans' = [scans EXCEPT ![p].step = "over", ![p].left = left]
                    => Writes(p, "over", r.result, left, r.logs)
               /\ scans' = [scans EXCEPT ![p].step = "over", ![p].result = "error", ![p].left = left]
                    => Writes(p, "over", "error", left, r.logs)
<1> DEFINE r == scans[p]
<1>1. r \in ScanRecord /\ scans \in [Command -> ScanRecord]
  BY DEF ScanTypeOK
<1>2. ToScan(p, step) => Writes(p, step, r.result, r.left, r.logs)
  <2> DEFINE s == [r EXCEPT !.step = step]
  <2>1. [scans EXCEPT ![p].step = step] = [scans EXCEPT ![p] = s]
    BY <1>1
  <2>2. s \in ScanRecord /\ s.step = step /\ s.name = r.name /\ s.left = r.left
        /\ s.result = r.result /\ s.logs = r.logs
    BY <1>1 DEF ScanRecord
  <2> QED BY <2>1, <2>2 DEF ToScan, Writes
<1>3. \A to \in {"over", "delete"} :
        scans' = [scans EXCEPT ![p].step = to, ![p].result = result]
          => Writes(p, to, result, r.left, r.logs)
  <2> SUFFICES ASSUME NEW to \in {"over", "delete"},
                      scans' = [scans EXCEPT ![p].step = to, ![p].result = result]
               PROVE  Writes(p, to, result, r.left, r.logs)
    OBVIOUS
  <2> DEFINE s == [r EXCEPT !.step = to, !.result = result]
  <2>1. scans' = [scans EXCEPT ![p] = s]
    BY <1>1
  <2>2. s \in ScanRecord /\ s.step = to /\ s.name = r.name /\ s.left = r.left
        /\ s.result = result /\ s.logs = r.logs
    BY <1>1 DEF ScanRecord, ScanSteps
  <2> QED BY <2>1, <2>2 DEF Writes
<1>4. scans' = [scans EXCEPT ![p].expired = TRUE] => Writes(p, r.step, r.result, r.left, r.logs)
  <2> DEFINE s == [r EXCEPT !.expired = TRUE]
  <2>1. [scans EXCEPT ![p].expired = TRUE] = [scans EXCEPT ![p] = s]
    BY <1>1
  <2>2. s \in ScanRecord /\ s.step = r.step /\ s.name = r.name /\ s.left = r.left
        /\ s.result = r.result /\ s.logs = r.logs
    BY <1>1 DEF ScanRecord
  <2> QED BY <2>1, <2>2 DEF Writes
<1>5. scans' = [scans EXCEPT ![p].step = "delete", ![p].result = "reported", ![p].logs = logs]
        => Writes(p, "delete", "reported", r.left, logs)
  <2> DEFINE s == [r EXCEPT !.step = "delete", !.result = "reported", !.logs = logs]
  <2>1. [scans EXCEPT ![p].step = "delete", ![p].result = "reported", ![p].logs = logs]
           = [scans EXCEPT ![p] = s]
    BY <1>1
  <2>2. s \in ScanRecord /\ s.step = "delete" /\ s.name = r.name /\ s.left = r.left
        /\ s.result = "reported" /\ s.logs = logs
    BY <1>1 DEF ScanRecord, ScanSteps, Results
  <2> QED BY <2>1, <2>2 DEF Writes
<1>6. scans' = [scans EXCEPT ![p].step = "over", ![p].left = left]
        => Writes(p, "over", r.result, left, r.logs)
  <2> DEFINE s == [r EXCEPT !.step = "over", !.left = left]
  <2>1. [scans EXCEPT ![p].step = "over", ![p].left = left] = [scans EXCEPT ![p] = s]
    BY <1>1
  <2>2. s \in ScanRecord /\ s.step = "over" /\ s.name = r.name /\ s.left = left
        /\ s.result = r.result /\ s.logs = r.logs
    BY <1>1 DEF ScanRecord, ScanSteps
  <2> QED BY <2>1, <2>2 DEF Writes
<1>7. scans' = [scans EXCEPT ![p].step = "over", ![p].result = "error", ![p].left = left]
        => Writes(p, "over", "error", left, r.logs)
  <2> DEFINE s == [r EXCEPT !.step = "over", !.result = "error", !.left = left]
  <2>1. [scans EXCEPT ![p].step = "over", ![p].result = "error", ![p].left = left]
           = [scans EXCEPT ![p] = s]
    BY <1>1
  <2>2. s \in ScanRecord /\ s.step = "over" /\ s.name = r.name /\ s.left = left
        /\ s.result = "error" /\ s.logs = r.logs
    BY <1>1 DEF ScanRecord, ScanSteps, Results
  <2> QED BY <2>1, <2>2 DEF Writes
<1> QED BY <1>2, <1>3, <1>4, <1>5, <1>6, <1>7 DEF EndScan, Return

-----------------------------------------------------------------------------
(* The steps of a command                                                  *)

LEMMA WritesAdvance ==
    ASSUME JobInv, NEW p \in Command, UNCHANGED jobs, scans[p].step \notin {"new", "over"},
           NEW step, NEW result, NEW left, NEW logs, Writes(p, step, result, left, logs),
           step # "new",
           step \in HoldSteps => scans[p].step \in HoldSteps,
           scans[p].step \in HoldSteps => step \in HoldSteps \/ left # "nothing",
           left # "nothing" => step = "over",
           step = "logs" => job(p).status = "succeeded",
           result = "reported" => logs # None
    PROVE  \E s \in ScanRecord : Advances(p, s)
<1>1. scans[p].name \in JobName
  BY DEF JobInv, Named, AtScan
<1>2. PICK s \in ScanRecord :
         /\ scans' = [scans EXCEPT ![p] = s]
         /\ s.name = scans[p].name
         /\ s.step = step /\ s.result = result /\ s.left = left /\ s.logs = logs
  BY DEF Writes
<1>3. Follows(scans[p], s)
  BY <1>1, <1>2 DEF Follows
<1>4. Advances(p, s)
  BY <1>2, <1>3 DEF Advances
<1> QED BY <1>4

\* What is known of the record of a command under way.
LEMMA Underway ==
    ASSUME JobInv, NEW p \in Command
    PROVE  /\ scans[p] \in ScanRecord
           /\ scans[p].step \in ScanSteps /\ scans[p].result \in Results
           /\ scans[p].left \in Left /\ scans[p].logs \in Output \cup {None}
           /\ scans[p].step # "over" => scans[p].left = "nothing"
           /\ scans[p].result = "reported" => scans[p].logs # None
<1>1. scans[p] \in ScanRecord
  BY DEF JobInv, ScanTypeOK
<1>2. scans[p].step # "over" => scans[p].left = "nothing"
  BY DEF JobInv, Holding, AtScan
<1>3. scans[p].result = "reported" => scans[p].logs # None
  BY DEF JobInv, OnlyFinishedReported
<1> QED BY <1>1, <1>2, <1>3 DEF ScanRecord

LEMMA StartStep ==
    ASSUME JobInv, NEW p \in Command, NEW request \in Requests, NEW stamp \in Stamp,
           StartScan(p, request, stamp)
    PROVE  \E s \in ScanRecord : Advances(p, s)
<1> DEFINE r == scans[p]
           name == <<request.batch, stamp>>
           s == [r EXCEPT !.step = "namespace", !.request = request, !.name = name]
<1>1. name \in JobName
  BY CveCommandAssumption DEF JobName
<1>2. r \in ScanRecord /\ scans \in [Command -> ScanRecord]
  BY DEF JobInv, ScanTypeOK
<1>3. s \in ScanRecord /\ scans' = [scans EXCEPT ![p] = s]
  BY <1>1, <1>2 DEF StartScan, ScanRecord, ScanSteps
<1>4. s.step = "namespace" /\ s.name = name /\ s.left = r.left /\ s.result = r.result /\ s.logs = r.logs
  BY <1>2 DEF ScanRecord
<1>5. r.step = "new" /\ UNCHANGED jobs
  BY DEF StartScan, AtScan
<1>6. r.left = "nothing" /\ (r.result = "reported" => r.logs # None)
  BY <1>5, Underway
<1> HIDE DEF name, s
<1>7. Follows(r, s)
  BY <1>1, <1>3, <1>4, <1>5, <1>6 DEF Follows, HoldSteps
<1>8. Advances(p, s)
  BY <1>3, <1>4, <1>5, <1>7 DEF Advances
<1> QED BY <1>3, <1>8

\* Before the Job is created.
LEMMA EarlyStep ==
    ASSUME JobInv, NEW p \in Command,
           NamespaceExists(p) \/ PromptYesNo(p) \/ CreateNamespace(p)
    PROVE  \E s \in ScanRecord : Advances(p, s)
<1> DEFINE r == scans[p]
<1>1. UNCHANGED jobs /\ r.step \in {"namespace", "prompt", "createNamespace"}
  BY DEF NamespaceExists, PromptYesNo, CreateNamespace, AtScan
<1>2. \/ \E step \in {"create", "prompt", "createNamespace"} : ToScan(p, step)
      \/ EndScan(p, "refused")
  BY DEF NamespaceExists, PromptYesNo, CreateNamespace
<1>3. CASE \E step \in {"create", "prompt", "createNamespace"} : ToScan(p, step)
  <2>1. PICK step \in {"create", "prompt", "createNamespace"} : ToScan(p, step)
    BY <1>3
  <2>2. step \in ScanSteps
    BY DEF ScanSteps
  <2>3. Writes(p, step, r.result, r.left, r.logs)
    BY <2>1, <2>2, Underway, RecordWritten DEF JobInv
  <2> QED BY <1>1, <2>3, Underway, WritesAdvance DEF HoldSteps
<1>4. CASE EndScan(p, "refused")
  <2>1. "refused" \in Results
    BY DEF Results
  <2>2. Writes(p, "over", "refused", r.left, r.logs)
    BY <1>4, <2>1, Underway, RecordWritten DEF JobInv
  <2> QED BY <1>1, <2>2, Underway, WritesAdvance DEF HoldSteps
<1> QED BY <1>2, <1>3, <1>4

\* While the command waits for its Job.
LEMMA PollStep ==
    ASSUME JobInv, NEW p \in Command, GetScanJobStatus(p) \/ LogsUnavailable(p) \/ Expire(p)
    PROVE  \E s \in ScanRecord : Advances(p, s)
<1> DEFINE r == scans[p]
<1>1. UNCHANGED jobs /\ r.step \in {"poll", "logs"}
  BY DEF GetScanJobStatus, LogsUnavailable, Expire, AtScan
<1>2. \/ job(p).status = "succeeded" /\ ToScan(p, "logs")
      \/ \E result \in {"timedOut", "failed", "error"} : Return(p, result)
      \/ r.step = "poll" /\ scans' = [scans EXCEPT ![p].expired = TRUE]
  BY DEF GetScanJobStatus, LogsUnavailable, Expire, AtScan
<1>3. CASE job(p).status = "succeeded" /\ ToScan(p, "logs")
  <2>1. "logs" \in ScanSteps
    BY DEF ScanSteps
  <2>2. Writes(p, "logs", r.result, r.left, r.logs)
    BY <1>3, <2>1, Underway, RecordWritten DEF JobInv
  <2> QED BY <1>1, <1>3, <2>2, Underway, WritesAdvance DEF HoldSteps
<1>4. CASE \E result \in {"timedOut", "failed", "error"} : Return(p, result)
  <2>1. PICK result \in {"timedOut", "failed", "error"} : Return(p, result)
    BY <1>4
  <2>2. result \in Results
    BY DEF Results
  <2>3. Writes(p, "delete", result, r.left, r.logs)
    BY <2>1, <2>2, Underway, RecordWritten DEF JobInv
  <2> QED BY <1>1, <2>3, Underway, WritesAdvance DEF HoldSteps
<1>5. CASE r.step = "poll" /\ scans' = [scans EXCEPT ![p].expired = TRUE]
  <2>1. Writes(p, r.step, r.result, r.left, r.logs)
    BY <1>5, Underway, RecordWritten DEF JobInv
  <2> QED BY <1>1, <1>5, <2>1, Underway, WritesAdvance DEF HoldSteps
<1> QED BY <1>2, <1>3, <1>4, <1>5

\* What is read is the output of the pod that the Job has counted.
LEMMA ReadStep ==
    ASSUME JobInv, NEW p \in Command, ReadLogs(p)
    PROVE  \E s \in ScanRecord : Advances(p, s)
<1> DEFINE r == scans[p]
           logs == job(p).output
<1>1. UNCHANGED jobs /\ r.step = "logs" /\ AtScan(p, "logs")
  BY DEF ReadLogs, AtScan
<1>2. scans[p].name \in JobName /\ job(p) \in Job
  BY <1>1 DEF JobInv, Named, AtScan, ScanTypeOK, job
<1>3. logs # None /\ logs \in Output \cup {None}
  BY <1>1, <1>2 DEF JobInv, Counted, job, Job
<1> HIDE DEF logs
<1>4. Writes(p, "delete", "reported", r.left, logs)
  BY <1>3, Underway, RecordWritten DEF JobInv, ReadLogs, logs
<1> QED BY <1>1, <1>3, <1>4, Underway, WritesAdvance DEF HoldSteps

LEMMA CreateStep ==
    ASSUME JobInv, NEW p \in Command, CreateScanJob(p) \/ CreateAnswerLost(p)
    PROVE  \E s \in ScanRecord : Advances(p, s) \/ Creates(p, s)
<1> DEFINE r == scans[p]
<1>1. AtScan(p, "create") /\ r.step = "create" /\ r.left = "nothing"
  BY Underway DEF CreateScanJob, CreateAnswerLost, AtScan
<1>2. CASE job(p).exists
  <2>1. EndScan(p, "error") /\ UNCHANGED jobs
    BY <1>2 DEF CreateScanJob, CreateAnswerLost
  <2>2. "error" \in Results
    BY DEF Results
  <2>3. Writes(p, "over", "error", r.left, r.logs)
    BY <2>1, <2>2, Underway, RecordWritten DEF JobInv
  <2> QED BY <1>1, <2>1, <2>3, Underway, WritesAdvance DEF HoldSteps
<1>3. CASE ~job(p).exists
  <2>1. jobs' = [jobs EXCEPT ![scans[p].name] = NewJob(p)]
    BY <1>3 DEF CreateScanJob, CreateAnswerLost
  <2>2. \/ ToScan(p, "poll")
        \/ scans' = [scans EXCEPT ![p].step = "over", ![p].result = "error", ![p].left = "answerLost"]
    BY <1>3 DEF CreateScanJob, CreateAnswerLost
  <2>3. "poll" \in ScanSteps /\ "answerLost" \in Left
    BY DEF ScanSteps, Left
  <2>4. \/ Writes(p, "poll", r.result, r.left, r.logs)
        \/ Writes(p, "over", "error", "answerLost", r.logs)
    BY <2>2, <2>3, Underway, RecordWritten DEF JobInv
  <2>5. PICK s \in ScanRecord :
           /\ scans' = [scans EXCEPT ![p] = s]
           /\ s.name = r.name /\ s.logs = r.logs
           /\ \/ s.step = "poll" /\ s.left = r.left /\ s.result = r.result
              \/ s.step = "over" /\ s.left = "answerLost" /\ s.result = "error"
    BY <2>4 DEF Writes
  <2>6. s.result = "reported" => s.logs # None
    BY <2>5, Underway
  <2>7. Creates(p, s)
    BY <1>1, <1>3, <2>1, <2>5, <2>6 DEF Creates
  <2> QED BY <2>7
<1> QED BY <1>2, <1>3

LEMMA DeleteStep ==
    ASSUME JobInv, NEW p \in Command, DeleteJob(p)
    PROVE  \E s \in ScanRecord : Deletes(p, s)
<1> DEFINE r == scans[p]
<1>1. AtScan(p, "delete") /\ r.step = "delete" /\ r.left = "nothing"
  BY Underway DEF DeleteJob, AtScan
<1>2. "over" \in ScanSteps
  BY DEF ScanSteps
<1>3. Writes(p, "over", r.result, r.left, r.logs)
  BY <1>2, Underway, RecordWritten DEF JobInv, DeleteJob
<1>4. PICK s \in ScanRecord :
         /\ scans' = [scans EXCEPT ![p] = s]
         /\ s.name = r.name /\ s.logs = r.logs /\ s.step = "over" /\ s.left = r.left
         /\ s.result = r.result
  BY <1>3 DEF Writes
<1>5. s.result = "reported" => s.logs # None
  BY <1>4, Underway
<1>6. Deletes(p, s)
  BY <1>1, <1>4, <1>5 DEF Deletes, DeleteJob
<1> QED BY <1>6

\* Failures and kills.
LEMMA BrokenStep ==
    ASSUME JobInv, NEW p \in Command, ScanCallFails(p) \/ KillScan(p)
    PROVE  \E s \in ScanRecord : Advances(p, s)
<1> DEFINE r == scans[p]
<1>1. UNCHANGED jobs /\ r.step \notin {"new", "over"}
  BY DEF ScanCallFails, KillScan, AtScan
<1>2. "error" \in Results /\ "deleteFailed" \in Left /\ "killed" \in Left
  BY DEF Results, Left
<1>3. \/ r.step \in {"namespace", "createNamespace", "create"} /\ EndScan(p, "error")
      \/ r.step \in {"poll", "logs"} /\ Return(p, "error")
      \/ scans' = [scans EXCEPT ![p].step = "over", ![p].left = "deleteFailed"]
      \/ scans' = [scans EXCEPT ![p].step = "over", ![p].result = "error", ![p].left = "killed"]
  BY DEF ScanCallFails, KillScan, AtScan
<1>4. \/ r.step \in {"namespace", "createNamespace", "create"}
         /\ Writes(p, "over", "error", r.left, r.logs)
      \/ r.step \in {"poll", "logs"} /\ Writes(p, "delete", "error", r.left, r.logs)
      \/ Writes(p, "over", r.result, "deleteFailed", r.logs)
      \/ Writes(p, "over", "error", "killed", r.logs)
  BY <1>2, <1>3, Underway, RecordWritten DEF JobInv
<1>5. CASE r.step \in {"namespace", "createNamespace", "create"}
           /\ Writes(p, "over", "error", r.left, r.logs)
  BY <1>1, <1>5, Underway, WritesAdvance DEF HoldSteps
<1>6. CASE r.step \in {"poll", "logs"} /\ Writes(p, "delete", "error", r.left, r.logs)
  BY <1>1, <1>6, Underway, WritesAdvance DEF HoldSteps
<1>7. CASE Writes(p, "over", r.result, "deleteFailed", r.logs)
  BY <1>1, <1>7, Underway, WritesAdvance DEF HoldSteps
<1>8. CASE Writes(p, "over", "error", "killed", r.logs)
  BY <1>1, <1>8, Underway, WritesAdvance DEF HoldSteps
<1> QED BY <1>4, <1>5, <1>6, <1>7, <1>8

LEMMA ClusterStep ==
    ASSUME JobInv, NEW n \in JobName,
           \/ JobStep(n) \/ PodFails(n) \/ PodRemoved(n)
           \/ \E output \in Outputs : PodEndsBadly(n, output)
    PROVE  \E j \in Job : Moves(n, j)
<1>1. jobs[n] \in Job /\ jobs \in [JobName -> Job]
  BY DEF JobInv, ScanTypeOK
<1>2. jobs[n].pod = "succeeded" \/ jobs[n].status = "succeeded" => jobs[n].output # None
  BY DEF JobInv, Counted
<1>3. jobs[n].exists /\ UNCHANGED scans
  BY DEF JobStep, PodStarts, PodEnds, CountPod, PodFails, PodRemoved, PodEndsBadly
<1>4. \E j \in Job : jobs' = [jobs EXCEPT ![n] = j] /\ JobMoved(n, j)
  <2>1. CASE PodStarts(n)
    <3>1. jobs' = [jobs EXCEPT ![n] = [jobs[n] EXCEPT !.pod = "running"]]
      BY <1>1, <2>1 DEF PodStarts
    <3>2. JobMoved(n, [jobs[n] EXCEPT !.pod = "running"])
      BY <1>1, <1>2, <1>3, <2>1, AllWellType, JobUpdates DEF PodStarts
    <3> QED BY <3>1, <3>2 DEF JobMoved
  <2>2. CASE PodEnds(n)
    <3>1. jobs' = [jobs EXCEPT ![n] = [jobs[n] EXCEPT !.pod = "succeeded", !.output = AllWell]]
      BY <1>1, <2>2 DEF PodEnds
    <3>2. JobMoved(n, [jobs[n] EXCEPT !.pod = "succeeded", !.output = AllWell])
      BY <1>1, <1>2, <1>3, AllWellType, JobUpdates
    <3> QED BY <3>1, <3>2 DEF JobMoved
  <2>3. CASE \E output \in Outputs : PodEndsBadly(n, output)
    <3>1. PICK output \in Outputs : PodEndsBadly(n, output)
      BY <2>3
    <3>2. PICK pod \in {"succeeded", "failed"} :
             jobs' = [jobs EXCEPT ![n] = [jobs[n] EXCEPT !.output = output, !.pod = pod]]
      BY <1>1, <3>1 DEF PodEndsBadly
    <3>3. output \in Output
      BY ScanJobAssumption
    <3>4. JobMoved(n, [jobs[n] EXCEPT !.output = output, !.pod = pod])
      BY <1>1, <1>2, <1>3, <3>3, JobUpdates
    <3> QED BY <3>2, <3>4 DEF JobMoved
  <2>4. CASE PodFails(n) \/ PodRemoved(n)
    <3>1. PICK pod \in {"failed", "gone"} : jobs' = [jobs EXCEPT ![n] = [jobs[n] EXCEPT !.pod = pod]]
      BY <1>1, <2>4 DEF PodFails, PodRemoved
    <3>2. JobMoved(n, [jobs[n] EXCEPT !.pod = pod])
      BY <1>1, <1>2, <1>3, AllWellType, JobUpdates
    <3> QED BY <3>1, <3>2 DEF JobMoved
  <2>5. CASE CountPod(n)
    <3>1. /\ jobs[n].status = "active"
          /\ \/ /\ jobs[n].pod = "succeeded"
                /\ jobs' = [jobs EXCEPT ![n] = [jobs[n] EXCEPT !.status = "succeeded"]]
             \/ jobs' = [jobs EXCEPT ![n] = [jobs[n] EXCEPT !.status = "failed"]]
      BY <1>1, <2>5 DEF CountPod
    <3>2. /\ jobs[n].pod = "succeeded" => JobMoved(n, [jobs[n] EXCEPT !.status = "succeeded"])
          /\ JobMoved(n, [jobs[n] EXCEPT !.status = "failed"])
      BY <1>1, <1>2, <1>3, <3>1, AllWellType, JobUpdates
    <3> QED BY <3>1, <3>2 DEF JobMoved
  <2> QED BY <2>1, <2>2, <2>3, <2>4, <2>5 DEF JobStep
<1> QED BY <1>3, <1>4 DEF Moves

LEMMA Steps ==
    ASSUME JobInv, [ScanNext]_scanVars
    PROVE  \/ \E p \in Command, s \in ScanRecord : Advances(p, s) \/ Creates(p, s) \/ Deletes(p, s)
           \/ \E n \in JobName, j \in Job : Moves(n, j)
           \/ UNCHANGED <<jobs, scans>>
<1>1. CASE UNCHANGED scanVars
  BY <1>1 DEF scanVars
<1>2. ASSUME NEW p \in Command,
             \/ \E request \in Requests, stamp \in Stamp : StartScan(p, request, stamp)
             \/ ScanStep(p) \/ PromptYesNo(p) \/ Expire(p)
             \/ ScanCallFails(p) \/ CreateAnswerLost(p) \/ KillScan(p)
      PROVE  \E s \in ScanRecord : Advances(p, s) \/ Creates(p, s) \/ Deletes(p, s)
  BY <1>2, StartStep, EarlyStep, PollStep, ReadStep, CreateStep, DeleteStep, BrokenStep DEF ScanStep
<1>3. ASSUME NEW n \in JobName,
             \/ JobStep(n) \/ PodFails(n) \/ PodRemoved(n)
             \/ \E output \in Outputs : PodEndsBadly(n, output)
      PROVE  \E j \in Job : Moves(n, j)
  BY <1>3, ClusterStep
<1> QED BY <1>1, <1>2, <1>3 DEF ScanNext

-----------------------------------------------------------------------------
(* The cluster: the invariant                                                  *)

LEMMA NewJobFields ==
    ASSUME JobInv, NEW p \in Command, scans[p].request \in Requests \cup {None}
    PROVE  /\ NewJob(p) \in Job /\ NewJob(p).exists /\ NewJob(p).owner = p
           /\ NewJob(p).pod = "waiting" /\ NewJob(p).status = "active"
BY DEF NewJob, NoJob, Job

\* The writes of a step, one command and one Job at most.
LEMMA NextTypes == ASSUME JobInv, [ScanNext]_scanVars PROVE ScanTypeOK' /\ Named'
<1>1. /\ jobs' \in [JobName -> Job] /\ scans' \in [Command -> ScanRecord] /\ Named'
  <2>0. jobs \in [JobName -> Job] /\ scans \in [Command -> ScanRecord]
    BY DEF JobInv, ScanTypeOK
  <2>1. ASSUME NEW p \in Command, NEW s \in ScanRecord, Advances(p, s)
        PROVE  jobs' \in [JobName -> Job] /\ scans' \in [Command -> ScanRecord] /\ Named'
    BY <2>0, <2>1 DEF Advances, Follows, JobInv, Named, AtScan
  <2>2. ASSUME NEW p \in Command, NEW s \in ScanRecord, Creates(p, s)
        PROVE  jobs' \in [JobName -> Job] /\ scans' \in [Command -> ScanRecord] /\ Named'
    <3>1. NewJob(p) \in Job
      BY <2>0, NewJobFields DEF ScanRecord
    <3>2. scans[p].name \in JobName
      BY <2>2 DEF Creates, JobInv, Named, AtScan
    <3> QED BY <2>0, <2>2, <3>1, <3>2 DEF Creates, JobInv, Named, AtScan
  <2>3. ASSUME NEW p \in Command, NEW s \in ScanRecord, Deletes(p, s)
        PROVE  jobs' \in [JobName -> Job] /\ scans' \in [Command -> ScanRecord] /\ Named'
    <3>1. scans[p].name \in JobName
      BY <2>3 DEF Deletes, JobInv, Named, AtScan
    <3> QED BY <2>0, <2>3, <3>1, NoJobType DEF Deletes, JobInv, Named, AtScan
  <2>4. ASSUME NEW n \in JobName, NEW j \in Job, Moves(n, j)
        PROVE  jobs' \in [JobName -> Job] /\ scans' \in [Command -> ScanRecord] /\ Named'
    BY <2>0, <2>4 DEF Moves, JobInv, Named, AtScan
  <2>5. CASE UNCHANGED <<jobs, scans>>
    BY <2>0, <2>5 DEF JobInv, Named, AtScan
  <2> QED BY <2>1, <2>2, <2>3, <2>4, <2>5, Steps
<1>2. namespace' \in BOOLEAN /\ mode' \in [Command -> Modes] /\ disturbances' \in 0..MaxDisturbances
  <2>0. /\ namespace \in BOOLEAN /\ mode \in [Command -> Modes]
        /\ disturbances \in 0..MaxDisturbances /\ MaxDisturbances \in Nat
    BY CveCommandAssumption DEF JobInv, ScanTypeOK
  <2>1. \A kind : Disturb(kind) => disturbances' \in 0..MaxDisturbances
    BY <2>0 DEF Disturb
  <2>2. UNCHANGED mode /\ namespace' \in {namespace, TRUE}
    BY DEF scanVars, ScanNext, StartScan, ScanStep, NamespaceExists, PromptYesNo, CreateNamespace,
       CreateScanJob, Expire, GetScanJobStatus, ReadLogs, LogsUnavailable, DeleteJob,
       ScanCallFails, CreateAnswerLost, KillScan, JobStep, PodStarts, PodEnds, PodEndsBadly,
       PodFails, PodRemoved, CountPod
  <2>3. UNCHANGED disturbances \/ \E kind \in Kinds : Disturb(kind)
    BY DEF scanVars, ScanNext, StartScan, ScanStep, NamespaceExists, PromptYesNo, CreateNamespace,
       CreateScanJob, Expire, GetScanJobStatus, ReadLogs, LogsUnavailable, DeleteJob,
       ScanCallFails, CreateAnswerLost, KillScan, JobStep, PodStarts, PodEnds, PodEndsBadly,
       PodFails, PodRemoved, CountPod, Disturb
  <2> QED BY <2>0, <2>1, <2>2, <2>3
<1> QED BY <1>1, <1>2 DEF ScanTypeOK

\* What the invariant says of the Jobs and the commands.
OwnInv == Holding /\ Counted /\ JobsRemoved /\ OnlyFinishedReported

\* The record of one command changes: the others are what they were.
LEMMA OtherScans ==
    ASSUME JobInv, NEW p \in Command, NEW s \in ScanRecord, scans' = [scans EXCEPT ![p] = s]
    PROVE  scans'[p] = s /\ \A q \in Command \ {p} : scans'[q] = scans[q]
BY DEF JobInv, ScanTypeOK

LEMMA AdvanceKeeps ==
    ASSUME JobInv, NEW p \in Command, NEW s \in ScanRecord, Advances(p, s)
    PROVE  OwnInv'
<1>1. /\ UNCHANGED jobs /\ Follows(scans[p], s)
      /\ scans'[p] = s /\ \A q \in Command \ {p} : scans'[q] = scans[q]
  BY OtherScans DEF Advances
<1>2. s.step \in HoldSteps => s.name = scans[p].name
  BY <1>1 DEF Follows, HoldSteps
<1>3. Holding'
  BY <1>1, <1>2 DEF Follows, JobInv, Holding, AtScan, job
<1>4. Counted'
  BY <1>1, <1>2 DEF Advances, Follows, JobInv, Counted, AtScan, job, HoldSteps
<1>5. JobsRemoved'
  <2> SUFFICES ASSUME NEW n \in JobName, jobs[n].exists
               PROVE  LET scan == scans'[jobs[n].owner]
                      IN  scan.name = n /\ (scan.step \in HoldSteps \/ scan.left # "nothing")
    BY <1>1 DEF JobsRemoved, HoldSteps
  <2>1. jobs[n].owner \in Command
    BY DEF JobInv, Counted
  <2>2. LET scan == scans[jobs[n].owner]
        IN  scan.name = n /\ (scan.step \in HoldSteps \/ scan.left # "nothing")
    BY DEF JobInv, JobsRemoved, HoldSteps
  <2>3. CASE jobs[n].owner # p
    BY <1>1, <2>1, <2>2, <2>3
  <2>4. CASE jobs[n].owner = p
    <3>1. scans[p].step \in HoldSteps
      BY <1>1, <2>2, <2>4 DEF Follows, JobInv, Holding, AtScan
    <3>2. s.name = n /\ (s.step \in HoldSteps \/ s.left # "nothing")
      BY <1>1, <2>2, <2>4, <3>1 DEF Follows, HoldSteps
    <3> QED BY <1>1, <2>4, <3>2
  <2> QED BY <2>3, <2>4
<1>6. OnlyFinishedReported'
  BY <1>1 DEF Follows, JobInv, OnlyFinishedReported
<1> QED BY <1>3, <1>4, <1>5, <1>6 DEF OwnInv

LEMMA CreateKeeps ==
    ASSUME JobInv, NEW p \in Command, NEW s \in ScanRecord, Creates(p, s)
    PROVE  OwnInv'
<1> DEFINE m == scans[p].name
<1>1. scans'[p] = s /\ s.name = m /\ \A q \in Command \ {p} : scans'[q] = scans[q]
  BY OtherScans DEF Creates
<1>2. m \in JobName /\ ~jobs[m].exists
  BY DEF Creates, JobInv, Named, AtScan, job
<1>3. /\ jobs'[m].exists /\ jobs'[m].owner = p
      /\ jobs'[m].pod = "waiting" /\ jobs'[m].status = "active"
      /\ \A n \in JobName \ {m} : jobs'[n] = jobs[n]
  BY <1>2, NewJobFields DEF Creates, JobInv, ScanTypeOK, ScanRecord
\* Nobody waits for a Job that does not exist.
<1>4. \A q \in Command : scans[q].step \in HoldSteps => scans[q].name # m
  BY <1>2 DEF JobInv, Holding, job
<1>5. \A q \in Command : scans[q].step \in HoldSteps => scans[q].name \in JobName
  BY DEF JobInv, Named, AtScan, HoldSteps
<1>6. \/ s.step = "poll" /\ s.left = "nothing"
      \/ s.step = "over" /\ s.left # "nothing"
  BY DEF Creates
<1>7. Holding'
  <2> SUFFICES ASSUME NEW q \in Command
               PROVE  /\ scans'[q].step \in HoldSteps =>
                           jobs'[scans'[q].name].exists /\ jobs'[scans'[q].name].owner = q
                      /\ scans'[q].left # "nothing" => scans'[q].step = "over"
    BY DEF Holding, AtScan, job
  <2>1. CASE q = p
    BY <1>1, <1>3, <1>6, <2>1 DEF HoldSteps
  <2>2. CASE q # p
    BY <1>1, <1>3, <1>4, <1>5, <2>2 DEF JobInv, Holding, AtScan, job
  <2> QED BY <2>1, <2>2
<1>8. Counted'
  <2>1. \A n \in JobName :
           /\ jobs'[n].exists => jobs'[n].owner \in Command
           /\ jobs'[n].pod = "succeeded" \/ jobs'[n].status = "succeeded" => jobs'[n].output # None
    BY <1>3 DEF JobInv, Counted
  <2>2. ASSUME NEW q \in Command, scans'[q].step = "logs"
        PROVE  jobs'[scans'[q].name].status = "succeeded"
    <3>1. q # p
      BY <1>1, <1>6, <2>2
    <3>2. scans[q].name \in JobName \ {m} /\ scans'[q] = scans[q]
      BY <1>1, <1>4, <1>5, <2>2, <3>1 DEF HoldSteps
    <3> QED BY <1>3, <2>2, <3>2 DEF JobInv, Counted, AtScan, job
  <2> QED BY <2>1, <2>2 DEF Counted, AtScan, job
<1>9. JobsRemoved'
  <2> SUFFICES ASSUME NEW n \in JobName, jobs'[n].exists
               PROVE  LET scan == scans'[jobs'[n].owner]
                      IN  scan.name = n /\ (scan.step \in HoldSteps \/ scan.left # "nothing")
    BY DEF JobsRemoved, HoldSteps
  <2>1. CASE n = m
    BY <1>1, <1>3, <1>6, <2>1 DEF HoldSteps
  <2>2. CASE n # m
    <3>1. jobs'[n] = jobs[n] /\ jobs[n].owner \in Command
      BY <1>3, <2>2 DEF JobInv, Counted
    <3>2. LET scan == scans[jobs[n].owner]
          IN  scan.name = n /\ (scan.step \in HoldSteps \/ scan.left # "nothing")
      BY <3>1 DEF JobInv, JobsRemoved, HoldSteps
    <3>3. jobs[n].owner # p
      BY <2>2, <3>2
    <3> QED BY <1>1, <3>1, <3>2, <3>3
  <2> QED BY <2>1, <2>2
<1>10. OnlyFinishedReported'
  BY <1>1 DEF Creates, JobInv, OnlyFinishedReported
<1> QED BY <1>7, <1>8, <1>9, <1>10 DEF OwnInv

LEMMA DeleteKeeps ==
    ASSUME JobInv, NEW p \in Command, NEW s \in ScanRecord, Deletes(p, s)
    PROVE  OwnInv'
<1> DEFINE m == scans[p].name
<1>1. scans'[p] = s /\ s.step = "over" /\ s.left = "nothing"
      /\ \A q \in Command \ {p} : scans'[q] = scans[q]
  BY OtherScans DEF Deletes
<1>2. m \in JobName /\ jobs[m].owner = p
  BY DEF Deletes, JobInv, Named, Holding, HoldSteps, AtScan, job
<1>3. jobs'[m] = NoJob /\ \A n \in JobName \ {m} : jobs'[n] = jobs[n]
  BY <1>2 DEF Deletes, JobInv, ScanTypeOK
<1>4. ~NoJob.exists /\ NoJob.pod # "succeeded" /\ NoJob.status # "succeeded"
  BY DEF NoJob
\* The other commands wait for Jobs of their own.
<1>5. \A q \in Command \ {p} :
         scans[q].step \in HoldSteps => scans[q].name \in JobName \ {m}
  BY <1>2 DEF JobInv, Named, Holding, HoldSteps, AtScan, job
<1>6. Holding'
  <2> SUFFICES ASSUME NEW q \in Command
               PROVE  /\ scans'[q].step \in HoldSteps =>
                           jobs'[scans'[q].name].exists /\ jobs'[scans'[q].name].owner = q
                      /\ scans'[q].left # "nothing" => scans'[q].step = "over"
    BY DEF Holding, AtScan, job
  <2>1. CASE q = p
    BY <1>1, <2>1 DEF HoldSteps
  <2>2. CASE q # p
    BY <1>1, <1>3, <1>5, <2>2 DEF JobInv, Holding, AtScan, job
  <2> QED BY <2>1, <2>2
<1>7. Counted'
  <2>1. \A n \in JobName :
           /\ jobs'[n].exists => jobs'[n].owner \in Command
           /\ jobs'[n].pod = "succeeded" \/ jobs'[n].status = "succeeded" => jobs'[n].output # None
    BY <1>3, <1>4 DEF JobInv, Counted
  <2>2. ASSUME NEW q \in Command, scans'[q].step = "logs"
        PROVE  jobs'[scans'[q].name].status = "succeeded"
    <3>1. q # p
      BY <1>1, <2>2
    <3>2. scans[q].name \in JobName \ {m} /\ scans'[q] = scans[q]
      BY <1>1, <1>5, <2>2, <3>1 DEF HoldSteps
    <3> QED BY <1>3, <2>2, <3>2 DEF JobInv, Counted, AtScan, job
  <2> QED BY <2>1, <2>2 DEF Counted, AtScan, job
<1>8. JobsRemoved'
  <2> SUFFICES ASSUME NEW n \in JobName, jobs'[n].exists
               PROVE  LET scan == scans'[jobs'[n].owner]
                      IN  scan.name = n /\ (scan.step \in HoldSteps \/ scan.left # "nothing")
    BY DEF JobsRemoved, HoldSteps
  <2>1. n # m /\ jobs'[n] = jobs[n] /\ jobs[n].owner \in Command
    BY <1>3, <1>4 DEF JobInv, Counted
  <2>2. LET scan == scans[jobs[n].owner]
        IN  scan.name = n /\ (scan.step \in HoldSteps \/ scan.left # "nothing")
    BY <2>1 DEF JobInv, JobsRemoved, HoldSteps
  <2>3. jobs[n].owner # p
    BY <2>1, <2>2
  <2> QED BY <1>1, <2>1, <2>2, <2>3
<1>9. OnlyFinishedReported'
  BY <1>1 DEF Deletes, JobInv, OnlyFinishedReported
<1> QED BY <1>6, <1>7, <1>8, <1>9 DEF OwnInv

LEMMA MoveKeeps ==
    ASSUME JobInv, NEW n \in JobName, NEW j \in Job, Moves(n, j)
    PROVE  OwnInv'
<1>1. /\ UNCHANGED scans /\ jobs[n].exists /\ JobMoved(n, j)
      /\ jobs'[n] = j /\ \A m \in JobName \ {n} : jobs'[m] = jobs[m]
  BY DEF Moves, JobInv, ScanTypeOK
<1>2. \A m \in JobName : /\ jobs'[m].exists <=> jobs[m].exists
                         /\ jobs'[m].owner = jobs[m].owner
                         /\ jobs[m].status = "succeeded" => jobs'[m].status = "succeeded"
  BY <1>1 DEF JobMoved
<1>3. \A q \in Command : scans[q].step \in HoldSteps => scans[q].name \in JobName
  BY DEF JobInv, Named, AtScan, HoldSteps
<1>4. Holding'
  BY <1>1, <1>2, <1>3 DEF JobInv, Holding, AtScan, job
<1>5. Counted'
  <2>1. \A m \in JobName :
           /\ jobs'[m].exists => jobs'[m].owner \in Command
           /\ jobs'[m].pod = "succeeded" \/ jobs'[m].status = "succeeded" => jobs'[m].output # None
    BY <1>1, <1>2 DEF JobInv, Counted, JobMoved
  <2>2. \A q \in Command : AtScan(q, "logs") => jobs'[scans[q].name].status = "succeeded"
    BY <1>2, <1>3 DEF JobInv, Counted, AtScan, job, HoldSteps
  <2> QED BY <1>1, <2>1, <2>2 DEF Counted, AtScan, job
<1>6. JobsRemoved'
  BY <1>1, <1>2 DEF JobInv, JobsRemoved
<1>7. OnlyFinishedReported'
  BY <1>1 DEF JobInv, OnlyFinishedReported
<1> QED BY <1>4, <1>5, <1>6, <1>7 DEF OwnInv

LEMMA JobNextInv == JobInv /\ [ScanNext]_scanVars => JobInv'
<1> SUFFICES ASSUME JobInv, [ScanNext]_scanVars PROVE JobInv'
  OBVIOUS
<1>1. UNCHANGED <<jobs, scans>> => OwnInv'
  BY DEF JobInv, OwnInv, Holding, Counted, JobsRemoved, OnlyFinishedReported, AtScan, job
<1>2. ASSUME NEW p \in Command, NEW s \in ScanRecord, Advances(p, s) \/ Creates(p, s) \/ Deletes(p, s)
      PROVE  OwnInv'
  BY <1>2, AdvanceKeeps, CreateKeeps, DeleteKeeps
<1>3. ASSUME NEW n \in JobName, NEW j \in Job, Moves(n, j)
      PROVE  OwnInv'
  BY <1>3, MoveKeeps
<1>4. OwnInv'
  BY <1>1, <1>2, <1>3, Steps
<1> QED BY <1>4, NextTypes DEF JobInv, OwnInv

LEMMA JobInitInv == ScanInit => JobInv
<1> SUFFICES ASSUME ScanInit PROVE JobInv
  OBVIOUS
<1>1. \A p \in Command : scans[p] = NoScan
  BY DEF ScanInit
<1>2. \A n \in JobName : jobs[n] = NoJob
  BY DEF ScanInit
<1>3. ScanTypeOK
  BY NoJobType, NoScanType, CveCommandAssumption DEF ScanInit, ScanTypeOK
<1>4. /\ NoScan.step = "new" /\ NoScan.left = "nothing" /\ NoScan.result = "none"
      /\ ~NoJob.exists /\ NoJob.pod = "waiting" /\ NoJob.status = "active"
  BY DEF NoScan, NoJob
<1>5. Named /\ Holding /\ OnlyFinishedReported
  BY <1>1, <1>4 DEF Named, Holding, OnlyFinishedReported, AtScan, HoldSteps
<1>6. Counted /\ JobsRemoved
  BY <1>1, <1>2, <1>4 DEF Counted, JobsRemoved, AtScan
<1> QED BY <1>3, <1>5, <1>6 DEF JobInv

-----------------------------------------------------------------------------
(* The local machine                                                       *)

Sound(r) ==
    /\ r \in LocalRecord
    /\ r.step \notin {"new", "over"} => r.left # <<>>
    /\ r.step = "rename" => r.temp = "whole"
    /\ r.temp # "none" => r.step \in {"copy", "rename"} \/ r.killed
    /\ r.killed => r.step = "over"
    /\ r.step = "request" => r.requests < vexDownloadAttempts

VexInv == VexTypeOK /\ WholeFileOnly /\ \A p \in Command : Sound(locals[p])

-----------------------------------------------------------------------------
(* What is written of a record                                             *)

\* A download that ends with the old report was the last one.
LastResort(r, s) ==
    r.step \in {"request", "copy"} /\ s.step = "run" =>
        r.hadFile /\ s.requests = vexDownloadAttempts

\* The record of one command is written.
Rewrites(p, s) ==
    /\ locals' = [locals EXCEPT ![p] = s]
    /\ Sound(s) /\ LastResort(locals[p], s)

LEMMA NoLocalSound == Sound(NoLocal)
BY VexFileAssumption DEF NoLocal, Sound, LocalRecord, LocalSteps

LEMMA StartWrites ==
    ASSUME VexInv, NEW p \in Command, NEW request \in Requests, StartLocal(p, request)
    PROVE  \E s \in LocalRecord : Rewrites(p, s)
<1> DEFINE r == locals[p]
           s == [r EXCEPT !.step = "lookPath", !.left = request.images, !.tools = installed]
<1>1. r \in LocalRecord /\ r.step = "new" /\ Sound(r) /\ locals \in [Command -> LocalRecord]
      /\ installed \in SUBSET Tools
  BY DEF VexInv, VexTypeOK, StartLocal, AtLocal
<1>2. request.images \in Seq(Image) /\ request.images # <<>>
  BY CveCommandAssumption
<1>3. s \in LocalRecord /\ s.step = "lookPath" /\ s.left = request.images /\ s.temp = r.temp
      /\ s.killed = r.killed
  BY <1>1, <1>2 DEF LocalRecord, LocalSteps
<1>4. locals' = [locals EXCEPT ![p] = s]
  BY <1>1 DEF StartLocal
<1> HIDE DEF s
<1>5. Sound(s)
  BY <1>1, <1>2, <1>3 DEF Sound
<1> QED BY <1>1, <1>3, <1>4, <1>5 DEF Rewrites, LastResort

LEMMA NextImageWrites ==
    ASSUME VexInv, NEW p \in Command, NEW scanned \in SUBSET Image,
           locals[p].step \in {"lookPath", "run"}, NextImage(p, scanned)
    PROVE  \E s \in LocalRecord : Rewrites(p, s)
<1> DEFINE r == locals[p]
           step == IF Len(r.left) = 1 THEN "over" ELSE "lookPath"
           s == [r EXCEPT !.step = step, !.left = Tail(@), !.tools = installed,
                          !.scanned = @ \cup scanned]
<1>1. r \in LocalRecord /\ Sound(r) /\ locals \in [Command -> LocalRecord]
      /\ installed \in SUBSET Tools
  BY DEF VexInv, VexTypeOK
<1>2. r.left \in Seq(Image) /\ r.left # <<>> /\ r.scanned \in SUBSET Image
  BY <1>1 DEF Sound, LocalRecord
<1>3. Tail(r.left) \in Seq(Image) /\ (Len(r.left) # 1 => Tail(r.left) # <<>>)
  <2>1. Tail(r.left) \in Seq(Image) /\ Len(Tail(r.left)) = Len(r.left) - 1
    BY <1>2, HeadTailProperties
  <2>2. Len(<<>>) = 0 /\ Len(r.left) \in Nat \ {0}
    BY <1>2, EmptySeq
  <2>3. Len(r.left) # 1 => Len(Tail(r.left)) # 0
    BY <2>1, <2>2
  <2> QED BY <2>1, <2>2, <2>3, Zenon
<1>4. s \in LocalRecord /\ s.step = step /\ s.left = Tail(r.left) /\ s.temp = r.temp
      /\ s.killed = r.killed
  BY <1>1, <1>2, <1>3 DEF LocalRecord, LocalSteps
<1>5. locals' = [locals EXCEPT ![p] = s]
  BY <1>1 DEF NextImage
<1> HIDE DEF s
<1>6. Sound(s)
  BY <1>1, <1>3, <1>4 DEF Sound
<1> QED BY <1>4, <1>5, <1>6 DEF Rewrites, LastResort

LEMMA ToolFailsWrites ==
    ASSUME VexInv, NEW p \in Command, locals[p].step \notin {"new", "over"}, ToolFails(p)
    PROVE  \E s \in LocalRecord : Rewrites(p, s)
<1> DEFINE r == locals[p]
           s == [r EXCEPT !.step = "lookPath", !.tools = @ \ {toolOf(p)}, !.temp = "none"]
<1>1. r \in LocalRecord /\ Sound(r) /\ locals \in [Command -> LocalRecord]
  BY DEF VexInv, VexTypeOK
<1>2. s \in LocalRecord /\ s.step = "lookPath" /\ s.left = r.left /\ s.temp = "none"
      /\ s.killed = r.killed
  BY <1>1 DEF LocalRecord, LocalSteps
<1>3. locals' = [locals EXCEPT ![p] = s]
  BY <1>1 DEF ToolFails
<1> HIDE DEF s
<1>4. Sound(s)
  BY <1>1, <1>2 DEF Sound
<1> QED BY <1>2, <1>3, <1>4 DEF Rewrites, LastResort

LEMMA DownloadFailsWrites ==
    ASSUME VexInv, NEW p \in Command, locals[p].step \notin {"new", "over"},
           NEW requests \in 0..vexDownloadAttempts, DownloadFails(p, requests)
    PROVE  \E s \in LocalRecord : Rewrites(p, s)
<1> DEFINE r == locals[p]
           step == IF requests < vexDownloadAttempts THEN "request"
                   ELSE IF r.hadFile THEN "run" ELSE "lookPath"
           tools == IF step = "lookPath" THEN r.tools \ {toolOf(p)} ELSE r.tools
           s == [r EXCEPT !.step = step, !.requests = requests, !.temp = "none", !.tools = tools]
<1>1. r \in LocalRecord /\ Sound(r) /\ locals \in [Command -> LocalRecord]
  BY DEF VexInv, VexTypeOK
<1>2. step \in LocalSteps /\ tools \in SUBSET Tools
  BY <1>1 DEF LocalRecord, LocalSteps
<1>3. s \in LocalRecord /\ s.step = step /\ s.left = r.left /\ s.temp = "none"
      /\ s.killed = r.killed /\ s.requests = requests
  BY <1>1, <1>2 DEF LocalRecord
<1>4. locals' = [locals EXCEPT ![p] = s]
  BY <1>1 DEF DownloadFails
<1>5. /\ step = "request" => requests < vexDownloadAttempts
      /\ step \in {"request", "run", "lookPath"}
      /\ step = "run" => r.hadFile /\ requests = vexDownloadAttempts
  BY VexFileAssumption
<1> HIDE DEF s, step
<1>6. Sound(s)
  BY <1>1, <1>3, <1>5 DEF Sound
<1> QED BY <1>3, <1>4, <1>5, <1>6 DEF Rewrites, LastResort

LEMMA StatWrites ==
    ASSUME VexInv, NEW p \in Command, StatFile(p)
    PROVE  \E s \in LocalRecord : Rewrites(p, s)
<1> DEFINE r == locals[p]
           step == IF vexFile.exists /\ ~vexFile.old THEN "run" ELSE "request"
           s == [r EXCEPT !.step = step, !.hadFile = vexFile.exists, !.requests = 0]
<1>1. r \in LocalRecord /\ Sound(r) /\ r.step = "stat" /\ locals \in [Command -> LocalRecord]
      /\ vexFile.exists \in BOOLEAN
  BY DEF VexInv, VexTypeOK, StatFile, AtLocal, File
<1>2. 0 \in 0..vexDownloadAttempts /\ 0 < vexDownloadAttempts
  BY VexFileAssumption
<1>3. s \in LocalRecord /\ s.step = step /\ s.left = r.left /\ s.temp = r.temp
      /\ s.killed = r.killed /\ s.requests = 0
  BY <1>1, <1>2 DEF LocalRecord, LocalSteps
<1>4. locals' = [locals EXCEPT ![p] = s]
  BY <1>1 DEF StatFile
<1> HIDE DEF s
<1>5. Sound(s)
  BY <1>1, <1>2, <1>3 DEF Sound
<1> QED BY <1>1, <1>3, <1>4, <1>5 DEF Rewrites, LastResort

LEMMA RequestWrites ==
    ASSUME VexInv, NEW p \in Command, RequestReport(p)
    PROVE  \E s \in LocalRecord : Rewrites(p, s)
<1> DEFINE r == locals[p]
           s == [r EXCEPT !.step = "copy", !.requests = @ + 1, !.temp = "part"]
<1>1. r \in LocalRecord /\ Sound(r) /\ r.step = "request" /\ locals \in [Command -> LocalRecord]
  BY DEF VexInv, VexTypeOK, RequestReport, AtLocal
<1>2. r.requests + 1 \in 0..vexDownloadAttempts
  BY <1>1, VexFileAssumption DEF Sound, LocalRecord
<1>3. CASE ~online
  BY <1>1, <1>2, <1>3, DownloadFailsWrites DEF RequestReport
<1>4. CASE online
  <2>1. s \in LocalRecord /\ s.step = "copy" /\ s.left = r.left /\ s.killed = r.killed
    BY <1>1, <1>2 DEF LocalRecord, LocalSteps
  <2>2. locals' = [locals EXCEPT ![p] = s]
    BY <1>1, <1>4 DEF RequestReport
  <2> HIDE DEF s
  <2>3. Sound(s)
    BY <1>1, <2>1 DEF Sound
  <2> QED BY <2>1, <2>2, <2>3 DEF Rewrites, LastResort
<1> QED BY <1>3, <1>4

LEMMA CopyWrites ==
    ASSUME VexInv, NEW p \in Command, CopyReport(p)
    PROVE  \E s \in LocalRecord : Rewrites(p, s)
<1> DEFINE r == locals[p]
           s == [r EXCEPT !.step = "rename", !.temp = "whole"]
<1>1. r \in LocalRecord /\ Sound(r) /\ r.step = "copy" /\ locals \in [Command -> LocalRecord]
  BY DEF VexInv, VexTypeOK, CopyReport, AtLocal
<1>2. r.requests \in 0..vexDownloadAttempts
  BY <1>1 DEF LocalRecord
<1>3. CASE ~online
  BY <1>1, <1>2, <1>3, DownloadFailsWrites DEF CopyReport
<1>4. CASE online
  <2>1. s \in LocalRecord /\ s.step = "rename" /\ s.temp = "whole" /\ s.left = r.left
        /\ s.killed = r.killed
    BY <1>1 DEF LocalRecord, LocalSteps
  <2>2. locals' = [locals EXCEPT ![p] = s]
    BY <1>1, <1>4 DEF CopyReport
  <2> HIDE DEF s
  <2>3. Sound(s)
    BY <1>1, <2>1 DEF Sound
  <2> QED BY <2>1, <2>2, <2>3 DEF Rewrites, LastResort
<1> QED BY <1>3, <1>4

LEMMA RenameWrites ==
    ASSUME VexInv, NEW p \in Command, RenameReport(p)
    PROVE  \E s \in LocalRecord : Rewrites(p, s)
<1> DEFINE r == locals[p]
           s == [r EXCEPT !.step = "run", !.temp = "none"]
<1>1. r \in LocalRecord /\ Sound(r) /\ r.step = "rename" /\ locals \in [Command -> LocalRecord]
  BY DEF VexInv, VexTypeOK, RenameReport, AtLocal
<1>2. s \in LocalRecord /\ s.step = "run" /\ s.temp = "none" /\ s.left = r.left
      /\ s.killed = r.killed
  BY <1>1 DEF LocalRecord, LocalSteps
<1>3. locals' = [locals EXCEPT ![p] = s]
  BY <1>1 DEF RenameReport
<1> HIDE DEF s
<1>4. Sound(s)
  BY <1>1, <1>2 DEF Sound
<1> QED BY <1>1, <1>2, <1>3, <1>4 DEF Rewrites, LastResort

LEMMA LookWrites ==
    ASSUME VexInv, NEW p \in Command, LookPath(p)
    PROVE  \E s \in LocalRecord : Rewrites(p, s)
<1> DEFINE r == locals[p]
           s == [r EXCEPT !.step = "stat"]
<1>1. r \in LocalRecord /\ Sound(r) /\ r.step = "lookPath" /\ locals \in [Command -> LocalRecord]
  BY DEF VexInv, VexTypeOK, LookPath, AtLocal
<1>2. CASE NextImage(p, {})
  BY <1>1, <1>2, NextImageWrites
<1>3. CASE ToLocal(p, "stat")
  <2>1. s \in LocalRecord /\ s.step = "stat" /\ s.left = r.left /\ s.temp = r.temp
        /\ s.killed = r.killed
    BY <1>1 DEF LocalRecord, LocalSteps
  <2>2. locals' = [locals EXCEPT ![p] = s]
    BY <1>1, <1>3 DEF ToLocal
  <2> HIDE DEF s
  <2>3. Sound(s)
    BY <1>1, <2>1 DEF Sound
  <2> QED BY <2>1, <2>2, <2>3 DEF Rewrites, LastResort
<1> QED BY <1>2, <1>3 DEF LookPath

\* The scanner is run, or it or a system call fails.
LEMMA ToolWrites ==
    ASSUME VexInv, NEW p \in Command, RunTool(p) \/ FileCallFails(p) \/ ToolExits(p)
    PROVE  \E s \in LocalRecord : Rewrites(p, s)
<1> DEFINE r == locals[p]
<1>1. r \in LocalRecord /\ Sound(r) /\ r.step \in {"run", "stat", "copy", "rename"}
  BY DEF VexInv, VexTypeOK, RunTool, FileCallFails, ToolExits, AtLocal
<1>2. r.left \in Seq(Image) /\ r.left # <<>> /\ r.requests \in 0..vexDownloadAttempts
  BY <1>1 DEF Sound, LocalRecord
<1>3. {Head(r.left)} \in SUBSET Image
  BY <1>2, HeadTailProperties
<1>4. \/ ToolFails(p) \/ DownloadFails(p, r.requests)
      \/ r.step = "run" /\ NextImage(p, {Head(r.left)})
  BY DEF RunTool, FileCallFails, ToolExits, AtLocal
<1> QED BY <1>1, <1>2, <1>3, <1>4, ToolFailsWrites, DownloadFailsWrites, NextImageWrites

LEMMA KillWrites ==
    ASSUME VexInv, NEW p \in Command, KillLocal(p)
    PROVE  \E s \in LocalRecord : Rewrites(p, s)
<1> DEFINE r == locals[p]
           s == [r EXCEPT !.step = "over", !.killed = TRUE]
<1>1. r \in LocalRecord /\ Sound(r) /\ locals \in [Command -> LocalRecord]
  BY DEF VexInv, VexTypeOK
<1>2. s \in LocalRecord /\ s.step = "over" /\ s.killed
  BY <1>1 DEF LocalRecord, LocalSteps
<1>3. locals' = [locals EXCEPT ![p] = s]
  BY <1>1 DEF KillLocal
<1> HIDE DEF s
<1>4. Sound(s)
  BY <1>2 DEF Sound
<1> QED BY <1>2, <1>3, <1>4 DEF Rewrites, LastResort

-----------------------------------------------------------------------------
(* The invariant and the theorems                                          *)

LEMMA StepWrites ==
    ASSUME VexInv, [VexNext]_vexVars
    PROVE  \/ UNCHANGED locals
           \/ \E p \in Command, s \in LocalRecord : Rewrites(p, s)
<1>1. \/ UNCHANGED locals
      \/ \E p \in Command :
           \/ \E request \in Requests : StartLocal(p, request)
           \/ LocalStep(p) \/ FileCallFails(p) \/ ToolExits(p) \/ KillLocal(p)
  BY DEF VexNext, vexVars, NetworkChanges, FileAges, FileRemoved
<1>2. ASSUME NEW p \in Command,
             \/ \E request \in Requests : StartLocal(p, request)
             \/ LocalStep(p) \/ FileCallFails(p) \/ ToolExits(p) \/ KillLocal(p)
      PROVE  \E s \in LocalRecord : Rewrites(p, s)
  BY <1>2, StartWrites, LookWrites, StatWrites, RequestWrites, CopyWrites, RenameWrites,
     ToolWrites, KillWrites DEF LocalStep
<1> QED BY <1>1, <1>2

LEMMA VexInitInv == VexInit => VexInv
<1> SUFFICES ASSUME VexInit PROVE VexInv
  OBVIOUS
<1>1. \A p \in Command : locals[p] = NoLocal
  BY DEF VexInit
<1>2. VexTypeOK
  <2>1. vexFile \in File
    BY DEF VexInit, File
  <2>2. locals \in [Command -> LocalRecord]
    BY NoLocalSound DEF VexInit, Sound
  <2>3. disturbances \in 0..MaxDisturbances
    BY CveCommandAssumption DEF VexInit
  <2> QED BY <2>1, <2>2, <2>3 DEF VexInit, VexTypeOK
<1> QED BY <1>1, <1>2, NoLocalSound DEF VexInit, VexInv, WholeFileOnly

LEMMA VexNextInv == VexInv /\ [VexNext]_vexVars => VexInv'
<1> SUFFICES ASSUME VexInv, [VexNext]_vexVars PROVE VexInv'
  OBVIOUS
<1>0. locals \in [Command -> LocalRecord] /\ vexFile \in File
  BY DEF VexInv, VexTypeOK
<1>1. locals' \in [Command -> LocalRecord] /\ \A p \in Command : Sound(locals'[p])
  BY <1>0, StepWrites DEF VexInv, Rewrites
<1>2. vexFile' \in File /\ WholeFileOnly'
  <2>1. ASSUME NEW p \in Command, RenameReport(p)
        PROVE  vexFile' \in File /\ WholeFileOnly'
    <3>1. locals[p].temp = "whole"
      BY <2>1 DEF RenameReport, AtLocal, VexInv, Sound
    <3> QED BY <2>1, <3>1 DEF RenameReport, File, WholeFileOnly
  <2>2. CASE FileAges \/ FileRemoved
    BY <1>0, <2>2 DEF FileAges, FileRemoved, File, VexInv, WholeFileOnly
  <2>3. UNCHANGED vexFile \/ FileAges \/ FileRemoved \/ \E p \in Command : RenameReport(p)
    BY DEF VexNext, vexVars, StartLocal, LocalStep, LookPath, StatFile, RequestReport, CopyReport,
       RunTool, FileCallFails, ToolExits, KillLocal, NetworkChanges
  <2> QED BY <1>0, <2>1, <2>2, <2>3 DEF VexInv, WholeFileOnly
<1>3. /\ installed' \in SUBSET Tools /\ online' \in BOOLEAN /\ mode' \in [Command -> Modes]
      /\ disturbances' \in 0..MaxDisturbances
  <2>0. /\ installed \in SUBSET Tools /\ online \in BOOLEAN /\ mode \in [Command -> Modes]
        /\ disturbances \in 0..MaxDisturbances /\ MaxDisturbances \in Nat
    BY CveCommandAssumption, SMTT(30) DEF VexInv, VexTypeOK
  <2>1. UNCHANGED installed /\ UNCHANGED mode /\ online' \in {online, ~online}
    BY DEF VexNext, vexVars, StartLocal, LocalStep, LookPath, StatFile, RequestReport, CopyReport,
       RenameReport, RunTool, FileCallFails, ToolExits, KillLocal, NetworkChanges, FileAges,
       FileRemoved
  <2>2. UNCHANGED disturbances \/ \E kind \in Kinds : Disturb(kind)
    BY DEF VexNext, vexVars, StartLocal, LocalStep, LookPath, StatFile, RequestReport, CopyReport,
       RenameReport, RunTool, FileCallFails, ToolExits, KillLocal, NetworkChanges, FileAges,
       FileRemoved, Disturb
  <2>3. \A kind : Disturb(kind) => disturbances' \in 0..MaxDisturbances
    BY <2>0 DEF Disturb
  <2> QED BY <2>0, <2>1, <2>2, <2>3
<1> QED BY <1>1, <1>2, <1>3 DEF VexInv, VexTypeOK

-----------------------------------------------------------------------------
(* Both                                                                    *)

CveInv == JobInv /\ VexInv

\* A step of one of them leaves the other with other disturbances at most.
LEMMA ScanNextKeeps ==
    ASSUME CveInv, ScanNext, UNCHANGED <<vexFile, installed, online, locals>>
    PROVE  CveInv'
<1>1. JobInv'
  BY JobNextInv DEF CveInv
<1>2. VexTypeOK'
  BY <1>1 DEF CveInv, JobInv, ScanTypeOK, VexInv, VexTypeOK
<1>3. WholeFileOnly' /\ \A p \in Command : Sound(locals[p])'
  BY DEF CveInv, VexInv, WholeFileOnly, Sound
<1> QED BY <1>1, <1>2, <1>3 DEF CveInv, VexInv

LEMMA VexNextKeeps ==
    ASSUME CveInv, VexNext, UNCHANGED <<namespace, jobs, scans>>
    PROVE  CveInv'
<1>1. VexInv'
  BY VexNextInv DEF CveInv
<1>2. ScanTypeOK' /\ Named'
  BY <1>1 DEF CveInv, VexInv, VexTypeOK, JobInv, ScanTypeOK, Named, AtScan
<1>3. Holding' /\ Counted' /\ JobsRemoved' /\ OnlyFinishedReported'
  BY DEF CveInv, JobInv, Holding, Counted, JobsRemoved, OnlyFinishedReported, AtScan, job
<1> QED BY <1>1, <1>2, <1>3 DEF CveInv, JobInv

LEMMA CveInvariant == Spec => []CveInv
<1>1. Init => CveInv
  BY JobInitInv, VexInitInv DEF Init, CveInv
<1>2. CveInv /\ [Next]_cveVars => CveInv'
  <2> SUFFICES ASSUME CveInv, [Next]_cveVars PROVE CveInv'
    OBVIOUS
  <2>1. CASE UNCHANGED cveVars
    <3>1. JobInv'
      BY <2>1, JobNextInv DEF CveInv, cveVars, scanVars
    <3>2. VexInv'
      BY <2>1, VexNextInv DEF CveInv, cveVars, vexVars
    <3> QED BY <3>1, <3>2 DEF CveInv
  <2> QED BY <2>1, ScanNextKeeps, VexNextKeeps DEF Next
<1> QED BY <1>1, <1>2, PTL DEF Spec

-----------------------------------------------------------------------------
(* The findings                                                            *)

\* A command that has reported has been asked for something.
Asked(r) == r.request \in Requests \/ (r.step = "new" /\ r.result = "none")

\* The request of a command is set when it starts, and never changed.
Asks(r, s) ==
    \/ s = r
    \/ s.request \in Requests
    \/ r.step # "new" /\ s.request = r.request

LEMMA RecordAsks ==
    ASSUME ScanTypeOK, NEW p \in Command, scans[p].step # "new", NEW step, NEW result, NEW left,
           NEW logs,
           \/ ToScan(p, step) \/ EndScan(p, result) \/ Return(p, result)
           \/ scans' = [scans EXCEPT ![p].expired = TRUE]
           \/ scans' = [scans EXCEPT ![p].step = "delete", ![p].result = "reported",
                                     ![p].logs = logs]
           \/ scans' = [scans EXCEPT ![p].step = "over", ![p].left = left]
           \/ scans' = [scans EXCEPT ![p].step = "over", ![p].result = "error", ![p].left = left]
    PROVE  \A q \in Command : Asks(scans[q], scans'[q])
<1>1. scans \in [Command -> ScanRecord] /\ scans[p] \in ScanRecord
  BY DEF ScanTypeOK
<1>2. scans'[p].request = scans[p].request /\ \A q \in Command \ {p} : scans'[q] = scans[q]
  <2>1. CASE ToScan(p, step)
    BY <1>1, <2>1 DEF ToScan, ScanRecord
  <2>2. CASE EndScan(p, result)
    BY <1>1, <2>2 DEF EndScan, ScanRecord
  <2>3. CASE Return(p, result)
    BY <1>1, <2>3 DEF Return, ScanRecord
  <2>4. CASE scans' = [scans EXCEPT ![p].expired = TRUE]
    BY <1>1, <2>4 DEF ScanRecord
  <2>5. CASE scans' = [scans EXCEPT ![p].step = "delete", ![p].result = "reported", ![p].logs = logs]
    BY <1>1, <2>5 DEF ScanRecord
  <2>6. CASE scans' = [scans EXCEPT ![p].step = "over", ![p].left = left]
    BY <1>1, <2>6 DEF ScanRecord
  <2>7. CASE scans' = [scans EXCEPT ![p].step = "over", ![p].result = "error", ![p].left = left]
    BY <1>1, <2>7 DEF ScanRecord
  <2> QED BY <2>1, <2>2, <2>3, <2>4, <2>5, <2>6, <2>7
<1> QED BY <1>2 DEF Asks

LEMMA StepAsks ==
    ASSUME ScanTypeOK, [ScanNext]_scanVars
    PROVE  \A q \in Command : Asks(scans[q], scans'[q])
<1>1. CASE UNCHANGED scans
  BY <1>1 DEF Asks
<1>2. ASSUME NEW p \in Command, NEW request \in Requests, NEW stamp \in Stamp,
             StartScan(p, request, stamp)
      PROVE  \A q \in Command : Asks(scans[q], scans'[q])
  <2>1. scans \in [Command -> ScanRecord] /\ scans[p] \in ScanRecord
    BY DEF ScanTypeOK
  <2>2. scans'[p].request = request /\ \A q \in Command \ {p} : scans'[q] = scans[q]
    BY <1>2, <2>1 DEF StartScan, ScanRecord
  <2> QED BY <2>2 DEF Asks
<1>3. ASSUME NEW p \in Command, NamespaceExists(p) \/ PromptYesNo(p) \/ CreateNamespace(p)
      PROVE  \A q \in Command : Asks(scans[q], scans'[q])
  <2>1. scans[p].step # "new"
    BY <1>3 DEF NamespaceExists, PromptYesNo, CreateNamespace, AtScan
  <2>2. \/ \E step \in ScanSteps : ToScan(p, step)
        \/ EndScan(p, "refused")
    BY <1>3 DEF NamespaceExists, PromptYesNo, CreateNamespace, ScanSteps
  <2> QED BY <2>1, <2>2, RecordAsks
<1>4. ASSUME NEW p \in Command, GetScanJobStatus(p) \/ LogsUnavailable(p) \/ Expire(p) \/ ReadLogs(p)
      PROVE  \A q \in Command : Asks(scans[q], scans'[q])
  <2>1. scans[p].step # "new"
    BY <1>4 DEF GetScanJobStatus, LogsUnavailable, Expire, ReadLogs, AtScan
  <2>2. \/ ToScan(p, "logs")
        \/ \E result \in Results : Return(p, result)
        \/ scans' = [scans EXCEPT ![p].expired = TRUE]
        \/ \E logs : scans' = [scans EXCEPT ![p].step = "delete", ![p].result = "reported",
                                            ![p].logs = logs]
    BY <1>4 DEF GetScanJobStatus, LogsUnavailable, Expire, ReadLogs, Results
  <2> QED BY <2>1, <2>2, RecordAsks
<1>5. ASSUME NEW p \in Command, CreateScanJob(p) \/ CreateAnswerLost(p) \/ DeleteJob(p)
      PROVE  \A q \in Command : Asks(scans[q], scans'[q])
  <2>1. scans[p].step # "new"
    BY <1>5 DEF CreateScanJob, CreateAnswerLost, DeleteJob, AtScan
  <2>2. \/ ToScan(p, "poll") \/ ToScan(p, "over") \/ EndScan(p, "error")
        \/ scans' = [scans EXCEPT ![p].step = "over", ![p].result = "error", ![p].left = "answerLost"]
    BY <1>5 DEF CreateScanJob, CreateAnswerLost, DeleteJob
  <2> QED BY <2>1, <2>2, RecordAsks
<1>6. ASSUME NEW p \in Command, ScanCallFails(p) \/ KillScan(p)
      PROVE  \A q \in Command : Asks(scans[q], scans'[q])
  <2>1. scans[p].step # "new"
    BY <1>6 DEF ScanCallFails, KillScan, AtScan
  <2>2. \/ EndScan(p, "error") \/ Return(p, "error")
        \/ scans' = [scans EXCEPT ![p].step = "over", ![p].left = "deleteFailed"]
        \/ scans' = [scans EXCEPT ![p].step = "over", ![p].result = "error", ![p].left = "killed"]
    BY <1>6 DEF ScanCallFails, KillScan
  <2> QED BY <2>1, <2>2, RecordAsks
<1>7. ASSUME NEW n \in JobName,
             \/ JobStep(n) \/ PodFails(n) \/ PodRemoved(n)
             \/ \E output \in Outputs : PodEndsBadly(n, output)
      PROVE  UNCHANGED scans
  BY <1>7 DEF JobStep, PodStarts, PodEnds, CountPod, PodFails, PodRemoved, PodEndsBadly
<1>8. CASE ScanNext
  BY <1>1, <1>2, <1>3, <1>4, <1>5, <1>6, <1>7, <1>8 DEF ScanNext, ScanStep
<1> QED BY <1>1, <1>8 DEF scanVars

LEMMA AskedInvariant == Spec => [](CveInv /\ \A p \in Command : Asked(scans[p]))
<1>1. Init => \A p \in Command : Asked(scans[p])
  <2>1. NoScan.step = "new" /\ NoScan.result = "none"
    BY DEF NoScan
  <2> QED BY <2>1 DEF Init, ScanInit, Asked
<1>2. CveInv /\ (\A p \in Command : Asked(scans[p])) /\ [Next]_cveVars
        => (\A p \in Command : Asked(scans[p]))'
  <2> SUFFICES ASSUME CveInv, \A p \in Command : Asked(scans[p]), [Next]_cveVars
               PROVE  \A p \in Command : Asked(scans'[p])
    OBVIOUS
  <2>1. ScanTypeOK
    BY DEF CveInv, JobInv
  <2>2. \A q \in Command : Asks(scans[q], scans'[q])
    <3>1. CASE ScanNext
      BY <2>1, <3>1, StepAsks
    <3>2. CASE UNCHANGED scans
      BY <3>2 DEF Asks
    <3> QED BY <3>1, <3>2 DEF Next, cveVars
  <2> QED BY <2>2 DEF Asks, Asked
<1> QED BY <1>1, <1>2, CveInvariant, PTL DEF Spec

-----------------------------------------------------------------------------
(* The theorems                                                            *)

\* The variables of all scans keep their types.
THEOREM CveTypes == Spec => []CveTypeOK
<1>1. CveInv => CveTypeOK
  BY DEF CveInv, JobInv, VexInv, CveTypeOK
<1> QED BY <1>1, CveInvariant, PTL

\* No way out of runScanJob leaves a Job behind, whatever the Job, its pod and the other commands
\* do: it takes a kill, or a failed answer to the call that creates or deletes it.
THEOREM JobsAreRemoved == Spec => []JobsRemoved
<1>1. CveInv => JobsRemoved
  BY DEF CveInv, JobInv
<1> QED BY <1>1, CveInvariant, PTL

\* What a command reports was read from a pod that had ended.
THEOREM FinishedIsReported == Spec => []OnlyFinishedReported
<1>1. CveInv => OnlyFinishedReported
  BY DEF CveInv, JobInv
<1> QED BY <1>1, CveInvariant, PTL

\* FindingsReported: what a command reports for an image is taken from the report of this image,
\* whole and of a scan that ended well, and such a report is reported unless there is a message
\* in it or before it, or a line too long in the log of a batch; for any number of images and
\* whatever becomes of the scan of each.
THEOREM FindingsAreReported == Spec => []FindingsReported
<1>1. CveInv /\ (\A p \in Command : Asked(scans[p])) => FindingsReported
  <2> SUFFICES ASSUME CveInv, \A p \in Command : Asked(scans[p]), NEW p \in Command,
                      scans[p].result = "reported",
                      scans[p].request.batch => Len(scans[p].request.images) > 1,
                      NEW i \in Image
               PROVE  LET requested == i \in imagesOf(scans[p].request)
                          outcome == scans[p].logs.of[i]
                      IN  /\ reported(p)[i] # None =>
                               /\ reported(p)[i] = i /\ requested
                               /\ ExitCode(outcome) = 0 /\ Complete(p, i)
                          /\ requested /\ outcome = "ok" /\ Complete(p, i) /\ Clean(p)
                             => reported(p)[i] = i
    BY DEF FindingsReported
  <2> DEFINE request == scans[p].request
             output == scans[p].logs
  <2>1. request \in Requests
    BY DEF Asked
  <2>2. output \in Output
    BY DEF CveInv, JobInv, ScanTypeOK, ScanRecord, OnlyFinishedReported
  <2>3. /\ request.images \in Seq(Image) /\ request.batch \in BOOLEAN
        /\ request.batch \/ Len(request.images) = 1
        /\ \A k, m \in DOMAIN request.images : request.images[k] = request.images[m] => k = m
    BY <2>1, CveCommandAssumption
  <2>4. output.of \in [Image -> Outcome] /\ output.dropped \in Nat
    BY <2>2 DEF Output
  <2>5. request.batch => Len(request.images) > 1
    OBVIOUS
  <2>6. reported(p) = Findings(request, output)
    BY DEF reported
  <2> DEFINE log == PodLog(request.images, output)
             complete == Complete(p, i)
             clean == Clean(p)
  <2>7. /\ complete <=> IF request.batch THEN Contains(log, Line("begin", i, 0))
                        ELSE output.dropped <= Len(Download(output))
        /\ clean <=> IF request.batch THEN \A k \in DOMAIN log : ~log[k].long
                     ELSE output.dropped >= Len(Download(output))
    BY DEF Complete, Clean
  <2>8. i # None /\ ExitCode("ok") = 0 /\ ExitCode("long") = 0
    BY CveCommandAssumption DEF ExitCode
  <2> HIDE DEF request, output, complete, clean
  <2>9. CASE request.batch
    <3>1. Findings(request, output)[i] =
             IF /\ i \in imagesOf(request) /\ output.of[i] = "ok" /\ Contains(log, Line("begin", i, 0))
                /\ \A k \in DOMAIN log : ~log[k].long
             THEN i ELSE None
      BY <2>3, <2>4, <2>5, <2>9, BatchFindings
    <3> HIDE DEF log
    <3> QED BY <2>6, <2>7, <2>8, <2>9, <3>1 DEF request, output, complete, clean
  <2>10. CASE ~request.batch
    <3>1. Findings(request, output)[i] =
             IF /\ i \in imagesOf(request) /\ output.of[i] \in {"ok", "long"}
                /\ output.dropped = Len(Download(output))
             THEN i ELSE None
      BY <2>3, <2>4, <2>10, SingleFindings
    <3>2. Len(Download(output)) \in Nat
      BY DownloadLines
    <3>3. output.dropped = Len(Download(output)) <=> complete /\ clean
      BY <2>4, <2>7, <2>10, <3>2
    <3> QED BY <2>6, <2>8, <3>1, <3>3 DEF request, output, complete, clean
  <2> QED BY <2>9, <2>10
<1> QED BY <1>1, AskedInvariant, PTL

\* A Job is deleted by the command that created it, also when others, whose clocks read the same,
\* have chosen its name.
THEOREM OwnJobDeleted == Spec => ForeignJobsKept
<1>1. CveInv /\ [Next]_cveVars =>
        [\A n \in JobName :
           jobs[n].exists /\ ~jobs'[n].exists =>
              AtScan(jobs[n].owner, "delete") /\ scans'[jobs[n].owner].step = "over"]_<<jobs, scans>>
  <2> SUFFICES ASSUME CveInv, [Next]_cveVars, ~UNCHANGED <<jobs, scans>>, NEW n \in JobName,
                      jobs[n].exists, ~jobs'[n].exists
               PROVE  AtScan(jobs[n].owner, "delete") /\ scans'[jobs[n].owner].step = "over"
    OBVIOUS
  <2> JobInv /\ [ScanNext]_scanVars
    BY DEF CveInv, Next, cveVars, scanVars
  <2>0. jobs \in [JobName -> Job]
    BY DEF JobInv, ScanTypeOK
  <2>1. ASSUME NEW p \in Command, NEW s \in ScanRecord, Creates(p, s)
        PROVE  FALSE
    <3>1. NewJob(p).exists
      BY DEF NewJob, NoJob
    <3>2. scans[p].name \in JobName
      BY <2>1 DEF Creates, JobInv, Named, AtScan
    <3> QED BY <2>0, <2>1, <3>1, <3>2 DEF Creates
  <2>2. ASSUME NEW m \in JobName, NEW j \in Job, Moves(m, j)
        PROVE  FALSE
    BY <2>0, <2>2 DEF Moves, JobMoved
  <2>3. PICK p \in Command, s \in ScanRecord : Deletes(p, s)
    BY <2>1, <2>2, Steps DEF Advances
  <2>4. scans[p].name = n
    BY <2>0, <2>3 DEF Deletes
  <2>5. jobs[n].owner = p
    BY <2>3, <2>4 DEF Deletes, JobInv, Holding, HoldSteps, AtScan, job
  <2>6. scans'[p] = s
    BY <2>3, OtherScans DEF Deletes
  <2> QED BY <2>3, <2>5, <2>6 DEF Deletes
<1> QED BY <1>1, CveInvariant, PTL DEF Spec, ForeignJobsKept

\* Every scanner that opens the cached report finds the whole of it, with any number of commands
\* that replace it, break off or are killed.
THEOREM WholeFile == Spec => []WholeFileOnly
<1>1. CveInv => WholeFileOnly
  BY DEF CveInv, VexInv
<1> QED BY <1>1, CveInvariant, PTL

\* A temporary file outlives its download only when the command is killed.
THEOREM TempsAreRemoved == Spec => []TempsRemoved
<1>1. CveInv => TempsRemoved
  BY DEF CveInv, VexInv, Sound, TempsRemoved
<1> QED BY <1>1, CveInvariant, PTL

\* The report of an earlier day is used when the last of the attempts has failed, not before.
THEOREM OldFileIsLastResort == Spec => StaleAsLastResort
<1>1. CveInv /\ [Next]_cveVars =>
        [\A p \in Command :
           locals[p].step \in {"request", "copy"} /\ locals'[p].step = "run" =>
              locals[p].hadFile /\ locals'[p].requests = vexDownloadAttempts]_locals
  <2> SUFFICES ASSUME CveInv, [Next]_cveVars, ~UNCHANGED locals, NEW p \in Command,
                      locals[p].step \in {"request", "copy"}, locals'[p].step = "run"
               PROVE  locals[p].hadFile /\ locals'[p].requests = vexDownloadAttempts
    OBVIOUS
  <2> VexInv /\ [VexNext]_vexVars
    BY DEF CveInv, Next, cveVars, vexVars
  <2>1. PICK q \in Command, s \in LocalRecord : Rewrites(q, s)
    BY StepWrites
  <2>2. locals'[q] = s /\ (q # p => locals'[p] = locals[p])
    BY <2>1 DEF VexInv, VexTypeOK, Rewrites
  <2>3. q = p
    BY <2>2
  <2> QED BY <2>1, <2>2, <2>3 DEF Rewrites, LastResort
<1> QED BY <1>1, CveInvariant, PTL DEF Spec, StaleAsLastResort
=============================================================================
