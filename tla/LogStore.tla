------------------------------ MODULE LogStore ------------------------------
(***************************************************************************)
(* The event log of internal/logstore/logstore.go: a file of JSON lines    *)
(* that handlers append to, that the console reads (newest first, filtered *)
(* and limited) and clears.  One mutex is held for each of Append, Read    *)
(* and Clear.                                                              *)
(*                                                                         *)
(* Record swallows the error of a write.  What a write that fails half way *)
(* leaves behind (a full disk, a dead process) has no newline, and the     *)
(* next line continues it.                                                 *)
(*                                                                         *)
(* Abstracted: an event is its number, the field the query filters by (of  *)
(* kind, level and platform one stands for all three) and the length of    *)
(* its JSON, which Length gives by kind.                                   *)
(***************************************************************************)
EXTENDS Naturals, Sequences, SequencesExt

CONSTANTS
    Readers,        \* concurrent GETs of the log endpoint
    Admins,         \* concurrent DELETEs
    Kinds,          \* kinds of event
    AdminKind,      \* the kind that recordAdmin writes
    AnyKind,        \* the query without a filter
    Length,         \* bytes of an event's JSON, without the newline
    MaxToken,       \* bufio.MaxScanTokenSize
    AskedLimits,    \* limits that requests ask for, 0 for none
    ReadLimit,      \* management.log_read_limit, which validation makes positive
    MaxEvents,      \* bound: events recorded
    MaxFailures     \* bound: writes that fail

ASSUME LogAssumption ==
    /\ AdminKind \in Kinds /\ AnyKind \notin Kinds
    /\ Length \in [Kinds -> Nat \ {0}]
    /\ MaxToken \in Nat \ {0}
    /\ AskedLimits \subseteq Nat
    /\ ReadLimit \in Nat \ {0}
    /\ MaxEvents \in Nat
    /\ MaxFailures \in Nat

VARIABLES
    lines,     \* the file, line by line
    open,      \* its last line has no newline
    reader,    \* where each read is: its query, its position, its window, its answer
    clearing,  \* DELETEs that have cleared and not yet recorded it
    count,     \* events recorded so far
    failures,  \* writes that failed so far
    written    \* history: the events written since the file was cleared, and how it went

vars == <<lines, open, reader, clearing, count, failures, written>>
-----------------------------------------------------------------------------
Events == [id : Nat, kind : Kinds]

\* An event that does not parse stands for whatever its line holds.
Lines == [event : Events, length : Nat, parses : BOOLEAN]

Smaller(m, n) == IF m <= n THEN m ELSE n

\* Mutant: no limit is a limit of zero.
LimitUnchecked(asked) == Smaller(asked, ReadLimit)

\* handleLogs: no limit, or one above the configured limit, is that limit.
LimitOf(asked) == IF asked = 0 THEN ReadLimit ELSE Smaller(asked, ReadLimit)

Matches(e, kind) == kind = AnyKind \/ e.kind = kind

\* Mutant: a line that just fits is refused.
TooLongByOne(line) == line.length + 1 >= MaxToken

\* bufio.Scanner gives up on a line that fills its buffer.
TooLong(line) == line.length >= MaxToken

\* The lock, which a read keeps while it scans.
Held == \E r \in Readers : reader[r].pc = "scan"

Idle == [pc |-> "idle", limit |-> 1, kind |-> AnyKind, at |-> 1,
         window |-> <<>>, answer |-> <<>>]

Init ==
    /\ lines = <<>>
    /\ open = FALSE
    /\ reader = [r \in Readers |-> Idle]
    /\ clearing = {}
    /\ count = 0
    /\ failures = 0
    /\ written = <<>>
-----------------------------------------------------------------------------
(* Append: n bytes of the line reach the file, the last of them its newline. *)

LineOf(e, n) ==
    [event |-> e, length |-> Smaller(n, Length[e.kind]), parses |-> n >= Length[e.kind]]

\* What is left of a line without its newline when more follows: no JSON.
Joined(line, more) ==
    [event |-> more.event, length |-> line.length + more.length, parses |-> FALSE]

\* Mutant: the file is opened without O_APPEND, and written from its start.
LinesOverwritten(e, n) ==
    IF n = 0 THEN lines ELSE <<LineOf(e, n)>> \o SubSeq(lines, 2, Len(lines))

LinesWith(e, n) ==
    IF n = 0 THEN lines
    ELSE IF open THEN Append(Front(lines), Joined(Last(lines), LineOf(e, n)))
    ELSE Append(lines, LineOf(e, n))

NewEvent(kind) == [id |-> count + 1, kind |-> kind]

\* Append by a handler or the admin API, under the lock; all of it arrives or
\* the first n bytes do.
Write(kind, whole) ==
    /\ ~Held
    /\ count < MaxEvents
    /\ count' = count + 1
    /\ written' = Append(written, [event |-> NewEvent(kind), whole |-> whole])
    /\ \/ /\ whole
          /\ lines' = LinesWith(NewEvent(kind), Length[kind] + 1)
          /\ open' = FALSE
          /\ UNCHANGED failures
       \/ /\ ~whole
          /\ failures < MaxFailures
          /\ failures' = failures + 1
          /\ \E n \in 0..Length[kind] :
                /\ lines' = LinesWith(NewEvent(kind), n)
                /\ open' = (open \/ n > 0)

\* The handler of a proxied request records what happened.
Record(kind, whole) ==
    /\ Write(kind, whole)
    /\ UNCHANGED <<reader, clearing>>

(* DELETE: Clear, and then an event of its own under a second lock. *)

Clear(a) ==
    /\ ~Held
    /\ a \notin clearing
    /\ lines' = <<>>
    /\ open' = FALSE
    /\ clearing' = clearing \cup {a}
    /\ written' = <<>>
    /\ UNCHANGED <<reader, count, failures>>

RecordClear(a, whole) ==
    /\ a \in clearing
    /\ Write(AdminKind, whole)
    /\ clearing' = clearing \ {a}
    /\ UNCHANGED reader
-----------------------------------------------------------------------------
(* Read: the lock is held while the file is scanned line by line. *)

StartRead(r, asked, kind) ==
    /\ ~Held
    /\ reader[r].pc = "idle"
    /\ reader' = [reader EXCEPT ![r] =
          [Idle EXCEPT !.pc = "scan", !.limit = LimitOf(asked), !.kind = kind]]
    /\ UNCHANGED <<lines, open, clearing, count, failures, written>>

LastOf(s, n) == SubSeq(s, Len(s) - Smaller(n, Len(s)) + 1, Len(s))

\* Mutant: the window is cut to its oldest events.
TrimmedToOldest(window, limit) ==
    IF Len(window) > 3 * limit THEN SubSeq(window, 1, limit) ELSE window

\* Three times the limit are kept before the window is cut.
Trimmed(window, limit) ==
    IF Len(window) > 3 * limit THEN LastOf(window, limit) ELSE window

\* One turn of the loop.  Empty lines, which the code skips, are never written.
ScanLine(r) ==
    /\ reader[r].pc = "scan"
    /\ reader[r].at <= Len(lines)
    /\ LET line == lines[reader[r].at]
           q    == reader[r]
       IN  IF TooLong(line)
           THEN reader' = [reader EXCEPT ![r].pc = "failed", ![r].window = <<>>]
           ELSE reader' = [reader EXCEPT
                   ![r].at = @ + 1,
                   ![r].window =
                      IF line.parses /\ Matches(line.event, q.kind)
                      THEN Trimmed(Append(q.window, line.event), q.limit)
                      ELSE @]
    /\ UNCHANGED <<lines, open, clearing, count, failures, written>>

\* Newest first, at most limit.
Shown(window, limit) == SubSeq(Reverse(window), 1, Smaller(limit, Len(window)))

\* After the loop.
Answer(r) ==
    /\ reader[r].pc = "scan"
    /\ reader[r].at > Len(lines)
    /\ reader' = [reader EXCEPT ![r].pc = "done", ![r].window = <<>>,
          ![r].answer = Shown(reader[r].window, reader[r].limit)]
    /\ UNCHANGED <<lines, open, clearing, count, failures, written>>

\* The response, with the events or with the error.
Respond(r) ==
    /\ reader[r].pc \in {"done", "failed"}
    /\ reader' = [reader EXCEPT ![r] = Idle]
    /\ UNCHANGED <<lines, open, clearing, count, failures, written>>

Next ==
    \/ \E kind \in Kinds, whole \in BOOLEAN : Record(kind, whole)
    \/ \E a \in Admins : Clear(a) \/ \E whole \in BOOLEAN : RecordClear(a, whole)
    \/ \E r \in Readers :
          \/ \E asked \in AskedLimits, kind \in Kinds \cup {AnyKind} : StartRead(r, asked, kind)
          \/ ScanLine(r) \/ Answer(r) \/ Respond(r)

Spec == Init /\ [][Next]_vars
-----------------------------------------------------------------------------
(* Properties. *)

ReaderStates ==
    [pc : {"idle", "scan", "done", "failed"}, limit : Nat \ {0}, kind : Kinds \cup {AnyKind},
     at : Nat \ {0}, window : Seq(Events), answer : Seq(Events)]

LogTypeOK ==
    /\ lines \in Seq(Lines)
    /\ open \in BOOLEAN
    /\ reader \in [Readers -> ReaderStates]
    /\ clearing \subseteq Admins
    /\ count \in Nat
    /\ failures \in Nat
    /\ written \in Seq([event : Events, whole : BOOLEAN])

\* The events that answer a query, among the first n of these lines.
HeldIn(ls, n, kind) ==
    {ls[j].event : j \in {i \in 1..n : ls[i].parses /\ Matches(ls[i].event, kind)}}

\* The newest of these events, newest first and no more than limit; what is left
\* out is older than what is there.
NewestOf(answer, held, limit) ==
    /\ Range(answer) \subseteq held
    /\ Len(answer) <= limit
    /\ \A i, j \in DOMAIN answer : i < j => answer[i].id > answer[j].id
    /\ \A e \in held \ Range(answer) :
          Len(answer) = limit /\ \A i \in DOMAIN answer : answer[i].id > e.id

\* logstore.go:103, Read returns the newest matching events, newest first: all that
\* the file holds at that moment, or as many as the limit allows and nothing older
\* than what is left out, whatever the window has thrown away on the way.
AnswerIsNewest ==
    [][\A r \in Readers :
          (reader[r].pc = "scan" /\ reader'[r].pc = "done") =>
             NewestOf(reader'[r].answer,
                      HeldIn(lines, Len(lines), reader[r].kind), reader[r].limit)]_vars

\* A write that fails costs at most its own event and the next one: every other
\* event since the log was cleared is on a line of its own that parses.
FailureCostsAtMostNext ==
    \A i \in DOMAIN written :
       (written[i].whole /\ (i > 1 => written[i-1].whole)) =>
          \E j \in DOMAIN lines : lines[j].parses /\ lines[j].event = written[i].event

LongWritten ==
    \E i \in DOMAIN written : written[i].whole /\ Length[written[i].event.kind] >= MaxToken

WriteFailed == \E i \in DOMAIN written : ~written[i].whole

\* An event as long as the scanner's buffer makes every read fail until the log
\* is cleared; apart from that only a failed write can, by joining two lines.
LongEventBlocksReading ==
    [][\A r \in Readers : reader[r].pc = "scan" =>
          /\ reader'[r].pc = "done" => ~LongWritten
          /\ reader'[r].pc = "failed" => LongWritten \/ WriteFailed]_vars
=============================================================================
