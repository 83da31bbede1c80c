-------------------------------- MODULE Log --------------------------------
(***************************************************************************)
(* log.c: where the logger's descriptor points while others open files and *)
(* accept connections, and how a line is put together in its buffer.       *)
(* A piece of a line is its length.                                        *)
(***************************************************************************)
EXTENDS Integers

CONSTANTS LOG_MAX_LEN,
          PieceLengths,   \* of the time, the prefix and the message
          MaxFd,          \* the highest descriptor
          MaxErrors       \* bound on nerror

ASSUME LogAssumption ==
    /\ LOG_MAX_LEN \in Nat /\ LOG_MAX_LEN > 1
    /\ PieceLengths \subseteq Nat
    /\ MaxFd \in Nat /\ MaxFd >= 2
    /\ MaxErrors \in Nat

VARIABLES fd, named, nerror,   \* the logger; named: it has the name of a file
          opened,     \* what each descriptor is
          told,       \* what the logger was last told, or left, to write to
          line,       \* [level, len, pieces] of the line being written, or NoLine
          stray,      \* a line went to somebody else's descriptor
          loosened,   \* log_deinit, or log_reopen of a standard descriptor, ran
          returned,   \* a FATAL call returned
          openFailed  \* a log file could not be opened

logVars == <<fd, named, nerror, opened, told, line, stray, loosened,
             returned, openFailed>>

Fds == 0 .. MaxFd
LOG_FATAL == 0
Levels == {LOG_FATAL, 3}
NoLine == [level |-> -1, len |-> 0, pieces |-> 0]

\* The descriptor the system gives next.
IsLowest(d, o) == o[d] = "closed" /\ \A e \in 0 .. d - 1 : o[e] # "closed"

Idle == line = NoLine

\* The logger is a static variable and main never calls log_init: it writes to
\* descriptor 0.
LogInit ==
    /\ fd = 0 /\ named = FALSE /\ nerror = 0
    /\ opened = [d \in Fds |-> CASE d = 0 -> "stdin" [] d = 1 -> "stdout"
                                 [] d = 2 -> "stderr" [] OTHER -> "closed"]
    /\ told = "stdin"
    /\ line = NoLine
    /\ stray = FALSE /\ loosened = FALSE /\ returned = FALSE /\ openFailed = FALSE

UnchangedHistory == UNCHANGED <<stray, returned>>

\* log_init to a standard stream, or to a file without a name.
InitStandard ==
    /\ Idle
    /\ \E d \in {1, 2} :
          /\ fd' = d
          /\ told' = IF d = 1 THEN "stdout" ELSE "stderr"
    /\ named' \in BOOLEAN
    /\ UNCHANGED <<nerror, opened, line, loosened, openFailed>>
    /\ UnchangedHistory

\* The log file is opened at the lowest free descriptor of o, or is not; without
\* a name it is not.
Opens(o) ==
    \/ \E d \in Fds :
          /\ named'
          /\ IsLowest(d, o)
          /\ fd' = d
          /\ opened' = [o EXCEPT ![d] = "log"]
          /\ told' = "log"
          /\ UNCHANGED openFailed
    \/ /\ fd' = -1
       /\ opened' = o
       /\ told' = "nothing"
       /\ openFailed' = TRUE

\* log_init to a file; the descriptor there was is forgotten.
InitFile ==
    /\ Idle
    /\ named' = TRUE
    /\ Opens(opened)
    /\ UNCHANGED <<nerror, line, loosened>>
    /\ UnchangedHistory

\* log_init with a type it does not know sets the name only.
InitUnknown ==
    /\ Idle
    /\ named' \in BOOLEAN
    /\ UNCHANGED <<fd, nerror, opened, told, line, loosened, openFailed>>
    /\ UnchangedHistory

Closed == IF fd < 0 THEN opened ELSE [opened EXCEPT ![fd] = "closed"]

\* The descriptor keeps its number.
log_deinit ==
    /\ Idle
    /\ fd \notin {-1, 2}
    /\ opened' = Closed
    /\ loosened' = TRUE
    /\ UNCHANGED <<fd, named, nerror, told, line, openFailed>>
    /\ UnchangedHistory

\* A plausible bug: a file that cannot be reopened leaves the old number.
Reopens_Keeps(o) ==
    Opens(o) \/ (opened' = o /\ openFailed' = TRUE /\ UNCHANGED <<fd, told>>)

Reopens(o) == Opens(o)

\* Descriptor 0 or 1 is closed too, when it is the logger's.
log_reopen ==
    /\ Idle
    /\ fd # 2
    /\ UNCHANGED named
    /\ Reopens(Closed)
    /\ loosened' = (loosened \/ fd \in {0, 1})
    /\ UNCHANGED <<nerror, line>>
    /\ UnchangedHistory

\* The process accepts a connection, or opens a file.
OtherOpens ==
    /\ \E d \in Fds : IsLowest(d, opened) /\ opened' = [opened EXCEPT ![d] = "other"]
    /\ UNCHANGED <<fd, named, nerror, told, line, loosened, openFailed>>
    /\ UnchangedHistory

\* _log or _log_safe without a descriptor returns, whatever the level.
CallReturns ==
    /\ Idle
    /\ fd < 0
    /\ \E level \in Levels : returned' = (returned \/ level = LOG_FATAL)
    /\ UNCHANGED <<fd, named, nerror, opened, told, line, stray, loosened, openFailed>>

\* The '[' that starts a line.
LineStarts ==
    /\ Idle
    /\ fd >= 0
    /\ \E level \in Levels : line' = [level |-> level, len |-> 1, pieces |-> 0]
    /\ UNCHANGED <<fd, named, nerror, opened, told, loosened, openFailed>>
    /\ UnchangedHistory

Room == LOG_MAX_LEN - line.len

\* A plausible bug: the end of the text is not counted.
Fits_NoEnd(n) == IF n <= Room THEN n ELSE Room

\* _vscnprintf and _safe_vsnprintf: what fits before the final zero.
Fits(n) == IF n < Room THEN n ELSE Room - 1

\* The time (strftime writes all or nothing that counts), the milliseconds, the
\* prefix and the message.
Piece ==
    /\ line.pieces \in 0 .. 3 /\ ~Idle
    /\ \E n \in PieceLengths :
          LET m == IF line.pieces = 0 /\ n >= Room THEN 0 ELSE Fits(n)
          IN  line' = [line EXCEPT !.len = @ + m, !.pieces = @ + 1]
    /\ UNCHANGED <<fd, named, nerror, opened, told, loosened, openFailed>>
    /\ UnchangedHistory

\* The newline goes over the final zero, and the line to the descriptor.
LineEnds ==
    /\ line.pieces = 4
    /\ nerror' = IF opened[fd] = "closed" /\ nerror < MaxErrors THEN nerror + 1 ELSE nerror
    /\ stray' = (stray \/ opened[fd] \notin {"closed", told})
    /\ line' = IF line.level = LOG_FATAL THEN [NoLine EXCEPT !.pieces = 5] ELSE NoLine
    /\ UNCHANGED <<fd, named, opened, told, loosened, returned, openFailed>>

LogNext ==
    \/ InitStandard \/ InitFile \/ InitUnknown \/ log_deinit \/ log_reopen
    \/ OtherOpens \/ CallReturns \/ LineStarts \/ Piece \/ LineEnds

LogSpec == LogInit /\ [][LogNext]_logVars

-----------------------------------------------------------------------------
(* Properties.                                                             *)

\* However long the pieces are, the next index is inside the buffer: a final
\* zero is written there after each piece, and the newline at the end.
LineInBuffer == line.len < LOG_MAX_LEN

\* A line goes where the logger was told, or nowhere.  It takes log_deinit, or
\* log_reopen on a standard stream, for the number to become a connection's or
\* a data file's; and a FATAL call returns, where its callers count on the
\* end of the process, only after a log file could not be opened.
LinesReachTheLog ==
    /\ stray => loosened
    /\ returned => openFailed
=============================================================================
