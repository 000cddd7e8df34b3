------------------------------- MODULE Logger -------------------------------
(***************************************************************************)
(* The Logger of src/test/StartCourier.js: leveled messages filtered by a  *)
(* severity threshold, written to a log file that is rotated between two   *)
(* names (logName and logName + "-2") once it holds maxLines lines, and    *)
(* severe messages also mailed.                                            *)
(*                                                                         *)
(* A line is identified by its number in the order it was written; a      *)
(* file's content is the sequence of those numbers.  A message may span    *)
(* several lines.  The message text, the time stamp and the echo to the    *)
(* console are left out.                                                   *)
(***************************************************************************)
EXTENDS Naturals, Sequences

CONSTANTS
    MaxLines,        \* this.maxLines
    Severity,        \* this.severity, the configured threshold
    MailActive,      \* this.mailActive
    MailConfigured,  \* smtpHost and to are both defined
    MaxMsgLines,     \* bound on the lines of one message
    MaxWrites        \* bound on the number of lines the model writes

LogName == "log"
LogName2 == "log-2"
FileNames == {LogName, LogName2}

\* debug, info, warning, severe
Levels == {500, 800, 900, 1000}

VARIABLES
    stream,          \* the file this.stream writes to
    fileSwitcher,    \* this.fileSwitcher
    files,           \* the content of each log file
    written,         \* lines written so far
    mailed           \* severe messages handed to the mail server

vars == <<stream, fileSwitcher, files, written, mailed>>

TypeOK ==
    /\ stream \in FileNames
    /\ fileSwitcher \in BOOLEAN
    /\ files \in [FileNames -> Seq(1 .. MaxWrites)]
    /\ written \in 0 .. MaxWrites
    /\ mailed \in 0 .. MaxWrites

\* A logger state as writeLn sees it.
State == [stream |-> stream, fileSwitcher |-> fileSwitcher, files |-> files]

\* Mutant of CreateStream: fileSwitcher is not flipped.
CreateStreamNoSwitch(s) ==
    LET name == IF s.fileSwitcher THEN LogName2 ELSE LogName
    IN  [s EXCEPT !.stream = name, !.files[name] = <<>>]

\* createStream(): CreateTextFile(logName + (fileSwitcher ? "-2" : ""), true)
\* truncates that file; then fileSwitcher flips.
CreateStream(s) ==
    LET name == IF s.fileSwitcher THEN LogName2 ELSE LogName
    IN  [s EXCEPT !.stream = name, !.files[name] = <<>>,
                  !.fileSwitcher = ~@]

\* The lines first + 1 .. first + k, in order.
Block(first, k) == [n \in 1 .. k |-> first + n]

\* Mutant of WriteLn: the line count is taken as 0-based.
WriteLnOffByOne(s, first, k) ==
    LET t == IF Len(s.files[s.stream]) > MaxLines THEN CreateStream(s) ELSE s
    IN  [t EXCEPT !.files[t.stream] = @ \o Block(first, k)]

\* writeLn(message): when this.stream.Line > this.maxLines the stream is
\* closed (a failing Close is only echoed) and a new one created; then
\* stream.WriteLine(message) writes the message's k lines at once.
\* stream.Line is the 1-based number of the next line.
WriteLn(s, first, k) ==
    LET t == IF Len(s.files[s.stream]) + 1 > MaxLines THEN CreateStream(s) ELSE s
    IN  [t EXCEPT !.files[t.stream] = @ \o Block(first, k)]

\* new Logger(...): this.fileSwitcher = false; this.createStream().
Init ==
    LET s == CreateStream([stream |-> LogName, fileSwitcher |-> FALSE,
                           files |-> [f \in FileNames |-> <<>>]])
    IN  /\ stream = s.stream
        /\ fileSwitcher = s.fileSwitcher
        /\ files = s.files
        /\ written = 0
        /\ mailed = 0

Apply(s) ==
    /\ stream' = s.stream
    /\ fileSwitcher' = s.fileSwitcher
    /\ files' = s.files

\* The number of lines a message of level sev may span: the debug message
\* "Exec string:\n" + execStr and the severe "handleTimeSlice failed: " of
\* an Exec error ("...starting process with string:\n" + execStr) hold a
\* line break; every other message is one line.
MessageLines(sev) == IF sev \in {500, 1000} THEN 1 .. MaxMsgLines ELSE {1}

\* logMessage(severity, text) for a message that passes the threshold
\* (a message below it changes nothing).  A severe message with mail active
\* goes to sendMail: without smtpHost or to it writes a warning line; a
\* failing send writes an error line; a good send writes nothing.
LogMessage(sev) ==
    /\ sev >= Severity
    /\ written + MaxMsgLines + 1 <= MaxWrites
    /\ \E k \in MessageLines(sev) :
         LET msg == WriteLn(State, written, k)
             note == WriteLn(msg, written + k, 1)
             mail == MailActive /\ sev >= 1000
         IN  IF ~mail
             THEN Apply(msg) /\ written' = written + k /\ UNCHANGED mailed
             ELSE IF ~MailConfigured
             THEN Apply(note) /\ written' = written + k + 1
                  /\ UNCHANGED mailed
             ELSE \/ Apply(msg) /\ written' = written + k
                     /\ mailed' = mailed + 1
                  \/ Apply(note) /\ written' = written + k + 1
                     /\ UNCHANGED mailed

Next == \E sev \in Levels : LogMessage(sev)

Spec == Init /\ [][Next]_vars

-----------------------------------------------------------------------------
(* Properties *)

Lines(f) == {files[f][k] : k \in 1 .. Len(files[f])}

\* Rotation never loses recent history: the last maxLines lines written are
\* all still in one of the two log files (createStream alternates the file
\* names, so it truncates the older file, never the one just filled).
RecentLinesKept ==
    LET keep == IF written < MaxLines THEN written ELSE MaxLines
    IN  \A n \in written - keep + 1 .. written :
            \E f \in FileNames : n \in Lines(f)

\* The log stays bounded, though not at maxLines: writeLn tests stream.Line
\* only before a message, so a file that has maxLines - 1 lines takes a
\* whole message more; no file ever holds more than maxLines lines plus the
\* line breaks of one message.
LogSizeBounded ==
    \A f \in FileNames : Len(files[f]) <= MaxLines + MaxMsgLines - 1
=============================================================================
