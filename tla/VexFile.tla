------------------------------- MODULE VexFile -------------------------------
(***************************************************************************)
(* A scan on the local machine (internal/cve/scanner.go): for every image  *)
(* trivy, and grype when trivy has failed, after the cached VEX report has *)
(* been brought up to date.  The report lies under the home directory of   *)
(* the user: every command of the user reads and replaces the same file,   *)
(* without a lock.  Every system call on it is an action.                  *)
(***************************************************************************)
EXTENDS CveCommand

CONSTANT vexDownloadAttempts

ASSUME VexFileAssumption == vexDownloadAttempts \in Nat \ {0}

VARIABLES
    vexFile,            \* rancher.openvex.json in the cache
    installed,          \* the scanners found in the PATH
    online,             \* whether the report can be downloaded
    locals              \* Command -> how far its local scans have got

vexVars == <<vexFile, installed, online, locals, mode, disturbances>>

-----------------------------------------------------------------------------
(* Objects                                                                 *)

\* old: written more than vexMaxFileAge ago; whole: all of the report, and not a part of it.
File == [exists : BOOLEAN, old : BOOLEAN, whole : BOOLEAN]

Tools == {"trivy", "grype"}
LocalSteps == {"new", "lookPath", "stat", "request", "copy", "rename", "run", "over"}

\* left are the images not scanned yet, the first of them being scanned; tools the
\* installed ones not tried for it yet.  temp is the temporary file; requests how many downloads
\* were asked for since the last look at the cached file, which was there if hadFile.
LocalRecord ==
    [step : LocalSteps, left : Seq(Image), tools : SUBSET Tools,
     hadFile : BOOLEAN, requests : 0..vexDownloadAttempts, temp : {"none", "part", "whole"},
     scanned : SUBSET Image, killed : BOOLEAN]

NoLocal == [step |-> "new", left |-> <<>>, tools |-> {}, hadFile |-> FALSE,
            requests |-> 0, temp |-> "none", scanned |-> {}, killed |-> FALSE]

VexTypeOK ==
    /\ vexFile \in File
    /\ installed \in SUBSET Tools
    /\ online \in BOOLEAN
    /\ locals \in [Command -> LocalRecord]
    /\ mode \in [Command -> Modes]
    /\ disturbances \in 0..MaxDisturbances

VexInit ==
    /\ vexFile \in [exists : BOOLEAN, old : BOOLEAN, whole : {TRUE}]
    /\ installed \in SUBSET Tools
    /\ online \in BOOLEAN
    /\ locals = [p \in Command |-> NoLocal]
    /\ mode \in [Command -> Modes]
    /\ disturbances = 0

-----------------------------------------------------------------------------
(* scanImageLocally                                                        *)

AtLocal(p, step) == locals[p].step = step

ToLocal(p, step) == locals' = [locals EXCEPT ![p].step = step]

\* The tool that is tried: trivy before grype.
toolOf(p) == IF "trivy" \in locals[p].tools THEN "trivy" ELSE "grype"

StartLocal(p, request) ==
    /\ mode[p] = "local" /\ AtLocal(p, "new")
    /\ locals' = [locals EXCEPT ![p].step = "lookPath", ![p].left = request.images,
                                ![p].tools = installed]
    /\ UNCHANGED <<vexFile, installed, online, mode, disturbances>>

\* listCVEsForImagesLocal: an image that cannot be scanned does not keep the next from it.
NextImage(p, scanned) ==
    locals' = [locals EXCEPT ![p].step = IF Len(locals[p].left) = 1 THEN "over" ELSE "lookPath",
                             ![p].left = Tail(@), ![p].tools = installed,
                             ![p].scanned = @ \cup scanned]

LookPath(p) ==
    /\ AtLocal(p, "lookPath")
    /\ IF locals[p].tools = {} THEN NextImage(p, {}) ELSE ToLocal(p, "stat")
    /\ UNCHANGED <<vexFile, installed, online, mode, disturbances>>

-----------------------------------------------------------------------------
(* ensureLocalVEXFile and downloadVEXFileOnce                              *)

\* The tool has failed, or has no report to be run with.
ToolFails(p) ==
    locals' = [locals EXCEPT ![p].step = "lookPath", ![p].tools = @ \ {toolOf(p)},
                             ![p].temp = "none"]

StatFile(p) ==
    /\ AtLocal(p, "stat")
    /\ locals' = [locals EXCEPT ![p].step = IF vexFile.exists /\ ~vexFile.old THEN "run" ELSE "request",
                                ![p].hadFile = vexFile.exists, ![p].requests = 0]
    /\ UNCHANGED <<vexFile, installed, online, mode, disturbances>>

\* Mutant: an old file is taken as soon as a download fails.
OldFileAtOnce(p, requests) ==
    LET step == IF locals[p].hadFile THEN "run"
                ELSE IF requests < vexDownloadAttempts THEN "request" ELSE "lookPath"
    IN  locals' = [locals EXCEPT ![p].step = step, ![p].requests = requests, ![p].temp = "none",
                                 ![p].tools = IF step = "lookPath" THEN @ \ {toolOf(p)} ELSE @]

\* Mutant: one attempt more.
OneAttemptMore(p, requests) ==
    LET step == IF requests <= vexDownloadAttempts THEN "request"
                ELSE IF locals[p].hadFile THEN "run" ELSE "lookPath"
    IN  locals' = [locals EXCEPT ![p].step = step, ![p].requests = requests, ![p].temp = "none",
                                 ![p].tools = IF step = "lookPath" THEN @ \ {toolOf(p)} ELSE @]

\* Mutant: the temporary file is removed after it was renamed, and not when the copy fails.
TemporaryFileKept(p, requests) ==
    LET step == IF requests < vexDownloadAttempts THEN "request"
                ELSE IF locals[p].hadFile THEN "run" ELSE "lookPath"
    IN  locals' = [locals EXCEPT ![p].step = step, ![p].requests = requests,
                                 ![p].tools = IF step = "lookPath" THEN @ \ {toolOf(p)} ELSE @]

\* A download has failed, its temporary file is removed: the next attempt, the old file if there
\* was one, or an error.
DownloadFails(p, requests) ==
    LET step == IF requests < vexDownloadAttempts THEN "request"
                ELSE IF locals[p].hadFile THEN "run" ELSE "lookPath"
    IN  locals' = [locals EXCEPT ![p].step = step, ![p].requests = requests, ![p].temp = "none",
                                 ![p].tools = IF step = "lookPath" THEN @ \ {toolOf(p)} ELSE @]

RequestReport(p) ==
    /\ AtLocal(p, "request")
    /\ IF online
       THEN locals' = [locals EXCEPT ![p].step = "copy", ![p].requests = @ + 1, ![p].temp = "part"]
       ELSE DownloadFails(p, locals[p].requests + 1)
    /\ UNCHANGED <<vexFile, installed, online, mode, disturbances>>

\* Mutant: an archive that ends early is taken for the whole of it.
CopyUnchecked(p) ==
    /\ AtLocal(p, "copy")
    /\ IF online
       THEN locals' = [locals EXCEPT ![p].step = "rename", ![p].temp = "whole"]
       ELSE ToLocal(p, "rename")
    /\ UNCHANGED <<vexFile, installed, online, mode, disturbances>>

\* The download may break off in the middle of the archive.
CopyReport(p) ==
    /\ AtLocal(p, "copy")
    /\ IF online
       THEN locals' = [locals EXCEPT ![p].step = "rename", ![p].temp = "whole"]
       ELSE DownloadFails(p, locals[p].requests)
    /\ UNCHANGED <<vexFile, installed, online, mode, disturbances>>

RenameReport(p) ==
    /\ AtLocal(p, "rename")
    /\ vexFile' = [exists |-> TRUE, old |-> FALSE, whole |-> locals[p].temp = "whole"]
    /\ locals' = [locals EXCEPT ![p].step = "run", ![p].temp = "none"]
    /\ UNCHANGED <<installed, online, mode, disturbances>>

\* trivyCVEs and grypeCVEs: the tool opens the file that is there now.
RunTool(p) ==
    /\ AtLocal(p, "run")
    /\ IF vexFile.exists /\ vexFile.whole
       THEN NextImage(p, {Head(locals[p].left)})
       ELSE ToolFails(p)
    /\ UNCHANGED <<vexFile, installed, online, mode, disturbances>>

LocalStep(p) ==
    \/ LookPath(p) \/ StatFile(p) \/ RequestReport(p) \/ CopyReport(p)
    \/ RenameReport(p) \/ RunTool(p)

-----------------------------------------------------------------------------
(* What goes wrong                                                         *)

\* Any system call on the cache fails.
FileCallFails(p) ==
    /\ Disturb("file")
    /\ \/ AtLocal(p, "stat") /\ ToolFails(p)
       \/ locals[p].step \in {"copy", "rename"} /\ DownloadFails(p, locals[p].requests)
    /\ UNCHANGED <<vexFile, installed, online, mode>>

\* trivy or grype exits with an error or prints what is no report.
ToolExits(p) ==
    /\ Disturb("tool")
    /\ AtLocal(p, "run")
    /\ ToolFails(p)
    /\ UNCHANGED <<vexFile, installed, online, mode>>

KillLocal(p) ==
    /\ Disturb("kill")
    /\ locals[p].step \notin {"new", "over"}
    /\ locals' = [locals EXCEPT ![p].step = "over", ![p].killed = TRUE]
    /\ UNCHANGED <<vexFile, installed, online, mode>>

\* Before a command starts anything may have happened to the cache: see VexInit.
ScanningLocally == \E p \in Command : locals[p].step \notin {"new", "over"}

NetworkChanges ==
    /\ Disturb("network") /\ ScanningLocally
    /\ online' = ~online
    /\ UNCHANGED <<vexFile, installed, locals, mode>>

FileAges ==
    /\ Disturb("age") /\ ScanningLocally
    /\ vexFile.exists /\ ~vexFile.old
    /\ vexFile' = [vexFile EXCEPT !.old = TRUE]
    /\ UNCHANGED <<installed, online, locals, mode>>

\* The user empties the cache.
FileRemoved ==
    /\ Disturb("remove") /\ ScanningLocally
    /\ vexFile.exists
    /\ vexFile' = [vexFile EXCEPT !.exists = FALSE]
    /\ UNCHANGED <<installed, online, locals, mode>>

VexNext ==
    \/ \E p \in Command :
          \/ \E request \in Requests : StartLocal(p, request)
          \/ LocalStep(p) \/ FileCallFails(p) \/ ToolExits(p) \/ KillLocal(p)
    \/ NetworkChanges \/ FileAges \/ FileRemoved

-----------------------------------------------------------------------------
(* Properties                                                              *)

\* Every scanner that opens the cached report finds the whole of it, while other commands
\* download and replace it, break off in the middle or are killed: what is put in its place was
\* copied to the end elsewhere.
WholeFileOnly == vexFile.exists => vexFile.whole

\* A temporary file in the cache belongs to a download that is under way, or was left by a
\* command that was killed: attempts that fail leave none behind, however many there are.
TempsRemoved ==
    \A p \in Command :
        locals[p].temp # "none" => locals[p].step \in {"copy", "rename"} \/ locals[p].killed

\* A command goes on with a report that it has found to be older than a day only when every one
\* of its attempts to download another was made and failed.
StaleAsLastResort ==
    [][\A p \in Command :
         locals[p].step \in {"request", "copy"} /\ locals'[p].step = "run" =>
            locals[p].hadFile /\ locals'[p].requests = vexDownloadAttempts]_locals
=============================================================================
