------------------------------ MODULE BatchLog ------------------------------
(***************************************************************************)
(* What a pod of a scan Job prints (the script of createScanJob,           *)
(* internal/kube/cve_job.go) and what the command makes of it              *)
(* (listCVEsForImageInCluster and listCVEsForImagesInCluster,              *)
(* internal/cve/scanner.go).  The two agree on the lines that frame the    *)
(* report of every image of a batch, and on nothing else: a log may have   *)
(* lost its first lines, and hold messages between those of a report.      *)
(***************************************************************************)
EXTENDS CveCommand, SequencesExt

-----------------------------------------------------------------------------
(* The script                                                              *)

\* A line: a marker of an image, with trivy's exit code on that of kind "rc"; a line of its
\* report, which has two; or a message.  A long one is beyond what bufio.Scanner takes.
Line(kind, image, value) == [kind |-> kind, image |-> image, value |-> value, long |-> FALSE]

\* trivy, with its stderr in the same log.
Report(image, outcome) ==
    LET first == Line("report", image, 1)
        last == Line("report", image, 2)
        message == Line("message", image, 0)
    IN  CASE outcome = "ok" -> <<first, last>>
          [] outcome = "mixed" -> <<first, message, last>>
          [] outcome = "long" -> <<first, [last EXCEPT !.long = TRUE]>>
          [] outcome = "failed" -> <<message>>
          [] outcome = "silent" -> <<>>

Frame(image, outcome) ==
    <<Line("begin", image, 0)>> \o Report(image, outcome)
        \o <<Line("rc", image, ExitCode(outcome)), Line("end", image, 0)>>

\* Messages of the download come before everything else.
Download(output) == IF output.noise THEN <<Line("message", None, 0)>> ELSE <<>>

\* One image is scanned without markers, as the request of image-cve and as a batch of one.
Printed(images, output) ==
    Download(output) \o
        IF Len(images) = 1
        THEN Report(images[1], output.of[images[1]])
        ELSE FlattenSeq([k \in DOMAIN images |-> Frame(images[k], output.of[images[k]])])

Kept(lines, dropped) == SubSeq(lines, dropped + 1, Len(lines))

\* What GetLogs returns.
PodLog(images, output) == Kept(Printed(images, output), output.dropped)

-----------------------------------------------------------------------------
(* The parser                                                              *)

\* trivyCVEsFromJSON: the image whose report the lines are, when they are one and nothing more.
\* Of nothing, or of a part of a report, it makes an error.
trivyCVEsFromJSON(lines) ==
    IF /\ Len(lines) = 2
       /\ \A k \in 1..2 : lines[k].kind = "report" /\ lines[k].value = k
       /\ lines[1].image = lines[2].image
    THEN lines[1].image
    ELSE None

listCVEsForImageInCluster(log) == trivyCVEsFromJSON(log)

\* The state of the loop: the image whose frame is open, the lines collected and the exit code
\* read for every image.
Unparsed == [current |-> None, chunks |-> [i \in Image |-> <<>>], rc |-> [i \in Image |-> None]]

\* Mutant: an image is taken for the current one at the wrong end of its frame.
OpenedAtEnd(parsed, line) ==
    CASE line.kind = "end" -> [parsed EXCEPT !.current = line.image]
      [] line.kind = "rc" -> [parsed EXCEPT !.rc[line.image] = line.value]
      [] line.kind = "begin" -> IF parsed.current = line.image
                                THEN [parsed EXCEPT !.current = None] ELSE parsed
      [] OTHER -> IF parsed.current = None THEN parsed
                  ELSE [parsed EXCEPT !.chunks[parsed.current] = Append(@, line)]

ParseLine(parsed, line) ==
    CASE line.kind = "begin" -> [parsed EXCEPT !.current = line.image]
      [] line.kind = "rc" -> [parsed EXCEPT !.rc[line.image] = line.value]
      [] line.kind = "end" -> IF parsed.current = line.image
                              THEN [parsed EXCEPT !.current = None] ELSE parsed
      [] OTHER -> IF parsed.current = None THEN parsed
                  ELSE [parsed EXCEPT !.chunks[parsed.current] = Append(@, line)]

\* The image whose findings are reported as those of image; None is an error of this image.
ResultOf(parsed, image) ==
    IF parsed.rc[image] = 0 THEN trivyCVEsFromJSON(parsed.chunks[image]) ELSE None

\* A line that is too long ends the scan of the log and with it the whole command.
listCVEsForImagesInCluster(images, log) ==
    IF \E k \in DOMAIN log : log[k].long
    THEN [i \in Image |-> None]
    ELSE LET parsed == FoldLeft(ParseLine, Unparsed, log)
         IN  [i \in Image |-> IF Contains(images, i) THEN ResultOf(parsed, i) ELSE None]

\* What a command reports for every image, of the log of the pod of its Job.
Findings(request, output) ==
    LET log == PodLog(request.images, output)
    IN  IF request.batch THEN listCVEsForImagesInCluster(request.images, log)
        ELSE [[i \in Image |-> None] EXCEPT ![request.images[1]] = listCVEsForImageInCluster(log)]
=============================================================================
