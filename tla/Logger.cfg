\* Files of three lines and sixteen lines in all: several rotations, each
\* file truncated and refilled at least once.  Info threshold, mail active
\* and configured, so severe messages take both the mailed and the
\* failed-send path; a severe message may span two lines.  The logger is
\* passive: it may simply receive no more messages.
CONSTANTS
    MaxLines = 3
    Severity = 800
    MailActive = TRUE
    MailConfigured = TRUE
    MaxMsgLines = 2
    MaxWrites = 16

SPECIFICATION Spec
CHECK_DEADLOCK FALSE

INVARIANT RecentLinesKept
INVARIANT LogSizeBounded
