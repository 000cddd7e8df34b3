---------------------------- MODULE ReleaseNotes ----------------------------
(***************************************************************************)
(* src/docs/release-notes/form-release-notes-html.js: load release-notes.xml *)
(* and release-notes.xsl into two MSXML documents, transform the first by  *)
(* the second, and write the result over release-notes.html.               *)
(*                                                                         *)
(* pc is the statement the script is at; status says whether it is still   *)
(* running there, finished, stopped there on an exception (WSH ends the    *)
(* script), or was killed there.  A document is the file it holds; an      *)
(* output is the page it holds.  Whether the two input files parse (and    *)
(* pass validateOnParse) is chosen at the start of each run.               *)
(*                                                                         *)
(* The script is run again (by hand or by a build) after it stops, up to   *)
(* MaxRuns runs; release-notes.html is what survives from run to run, and  *)
(* the input files may have been edited in between.                        *)
(***************************************************************************)
EXTENDS Naturals

CONSTANT MaxRuns   \* bound on the number of runs of the script

VARIABLES
    pc,          \* the statement to run next
    status,      \* "running", "done", "error" or "killed"
    xmlOk,       \* release-notes.xml parses and validates
    xslOk,       \* release-notes.xsl parses and validates
    xmlSource,   \* what the source document holds
    xmlXForm,    \* what the stylesheet document holds
    html,        \* the transform's result
    out,         \* the content of release-notes.html
    before,      \* the content of release-notes.html when this run began
    runs         \* runs started so far

vars == <<pc, status, xmlOk, xslOk, xmlSource, xmlXForm, html, out, before, runs>>

Steps == {"create", "loadSource", "loadXForm", "transform", "createFile",
          "write", "close"}
Docs == {"empty", "xml", "xsl"}
Pages == {"notes", "skeleton", "other"}

\* "old": the page a previous run left (or no file); "empty": just created
\* or truncated; "partial": a prefix of a page.
Outputs == {"old", "empty", "partial"} \cup Pages

TypeOK ==
    /\ pc \in Steps
    /\ status \in {"running", "done", "error", "killed"}
    /\ xmlOk \in BOOLEAN /\ xslOk \in BOOLEAN
    /\ xmlSource \in Docs /\ xmlXForm \in Docs
    /\ html \in Pages \cup {"none"}
    /\ out \in Outputs /\ before \in Outputs
    /\ runs \in 1 .. MaxRuns

\* The first run: the script's variables are fresh, the files as found.
Init ==
    /\ pc = "create" /\ status = "running"
    /\ xmlOk \in BOOLEAN /\ xslOk \in BOOLEAN
    /\ xmlSource = "empty" /\ xmlXForm = "empty" /\ html = "none"
    /\ out = "old" /\ before = "old" /\ runs = 1

Running(step) == status = "running" /\ pc = step

\* The statement throws: WSH reports the error and ends the script.
Throw == status' = "error" /\ UNCHANGED <<pc, xmlSource, xmlXForm, html, out>>

Goto(step) == pc' = step /\ UNCHANGED status

\* DOMDocument.load(file): on a parse or validation error it returns false
\* and leaves the document empty; it does not throw.
Loaded(file, ok) == IF ok THEN file ELSE "empty"

\* Mutant of CreateObjects: the output file is created with the objects.
CreateObjectsWithOutput ==
    /\ Running("create")
    /\ \/ Goto("loadSource") /\ out' = "empty" /\ UNCHANGED <<xmlSource, xmlXForm, html>>
       \/ Throw
    /\ UNCHANGED <<xmlOk, xslOk>>

\* Two new ActiveXObject("MSXML2.DOMDocument") (throws when MSXML is not
\* registered), then the parser options, which change nothing modelled.
CreateObjects ==
    /\ Running("create")
    /\ \/ Goto("loadSource") /\ UNCHANGED <<xmlSource, xmlXForm, html, out>>
       \/ Throw
    /\ UNCHANGED <<xmlOk, xslOk>>

\* xmlSource.load("release-notes.xml"); the result is not checked.
LoadSource ==
    /\ Running("loadSource")
    /\ xmlSource' = Loaded("xml", xmlOk)
    /\ Goto("loadXForm")
    /\ UNCHANGED <<xmlOk, xslOk, xmlXForm, html, out>>

\* xmlXForm.load("release-notes.xsl"); the result is not checked.
LoadXForm ==
    /\ Running("loadXForm")
    /\ xmlXForm' = Loaded("xsl", xslOk)
    /\ Goto("transform")
    /\ UNCHANGED <<xmlOk, xslOk, xmlSource, html, out>>

\* What xmlSource.transformNode(xmlXForm) may return: an empty or non-XSLT
\* stylesheet throws; an empty source may throw or give the page with no
\* notes; a stylesheet as the source gives some other page.
TransformResults(src, xsl) ==
    IF xsl # "xsl" THEN {}
    ELSE CASE src = "xml" -> {"notes"}
           [] src = "xsl" -> {"other"}
           [] OTHER -> {"skeleton"}

TransformThrows(src, xsl) == xsl # "xsl" \/ src = "empty"

\* var html = xmlSource.transformNode(xmlXForm)
Transform ==
    /\ Running("transform")
    /\ \/ \E page \in TransformResults(xmlSource, xmlXForm) :
             html' = page /\ Goto("createFile") /\ UNCHANGED out
       \/ TransformThrows(xmlSource, xmlXForm) /\ Throw
    /\ UNCHANGED <<xmlOk, xslOk, xmlSource, xmlXForm>>

\* fso.CreateTextFile("release-notes.html", true): overwrites, i.e. the
\* file is truncated at once; throws (file unchanged) when it is locked,
\* read-only or the folder is not writable.
CreateFile ==
    /\ Running("createFile")
    /\ \/ out' = "empty" /\ Goto("write")
       \/ Throw
    /\ UNCHANGED <<xmlOk, xslOk, xmlSource, xmlXForm, html>>

\* out.Write(html): the ASCII TextStream throws on a character outside the
\* code page (nothing written) or on a full disk (a prefix written).
Write ==
    /\ Running("write")
    /\ \/ out' = html /\ Goto("close")
       \/ out' \in {"empty", "partial"} /\ status' = "error" /\ UNCHANGED pc
    /\ UNCHANGED <<xmlOk, xslOk, xmlSource, xmlXForm, html>>

\* out.Close(); the script ends.
Close ==
    /\ Running("close")
    /\ status' = "done"
    /\ UNCHANGED <<pc, xmlOk, xslOk, xmlSource, xmlXForm, html, out>>

\* The script is killed (build cancelled, machine down) before its current
\* statement; a page written but not yet closed may not all reach the disk.
Kill ==
    /\ status = "running"
    /\ status' = "killed"
    /\ out' \in IF pc = "close" THEN {out, "partial"} ELSE {out}
    /\ UNCHANGED <<pc, xmlOk, xslOk, xmlSource, xmlXForm, html>>

\* The script is started again, with fresh variables, once the previous
\* run has stopped.
Rerun ==
    /\ status # "running"
    /\ runs < MaxRuns
    /\ pc' = "create" /\ status' = "running"
    /\ xmlOk' \in BOOLEAN /\ xslOk' \in BOOLEAN
    /\ xmlSource' = "empty" /\ xmlXForm' = "empty" /\ html' = "none"
    /\ before' = out
    /\ runs' = runs + 1
    /\ UNCHANGED out

Step ==
    \/ CreateObjects \/ LoadSource \/ LoadXForm \/ Transform
    \/ CreateFile \/ Write \/ Close \/ Kill

Next == (Step /\ UNCHANGED <<before, runs>>) \/ Rerun

Spec == Init /\ [][Next]_vars

-----------------------------------------------------------------------------
(* Properties *)

\* A run that stops (on an exception or killed) before the write window
\* leaves release-notes.html exactly as the previous run left it: the
\* output is opened, and so truncated, only after the page has been built.
DamageOnlyInWriteWindow ==
    status \in {"error", "killed"} /\ pc \notin {"write", "close"} => out = before
=============================================================================
