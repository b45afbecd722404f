--------------------------- MODULE LogStoreProofs ---------------------------
(***************************************************************************)
(* What holds of the event log for any number of readers, writers, kinds,  *)
(* lengths, limits and failures.  The inductive invariant says how the     *)
(* file follows from what was written (LinesInOrder, FileKeepsWritten,     *)
(* LengthsFromWritten) and what a scan knows half way (ScanIsNewest).      *)
(***************************************************************************)
EXTENDS LogStore, TLAPS, SequenceTheorems

\* Events are numbered in the order in which their lines begin.
LinesInOrder ==
    /\ \A i \in DOMAIN lines : lines[i].event.id <= count
    /\ \A i, j \in DOMAIN lines : i < j => lines[i].event.id < lines[j].event.id

\* An event is safe if neither it nor the one before it was cut short.
Safe(w, i) == w[i].whole /\ (i > 1 => w[i-1].whole)

\* Its line is one that nothing will be joined to.
FileKeepsWritten ==
    /\ open => lines # <<>>
    /\ open => written # <<>> /\ ~written[Len(written)].whole
    /\ \A i \in DOMAIN written : Safe(written, i) =>
          \E j \in DOMAIN lines :
             lines[j].parses /\ lines[j].event = written[i].event /\ (open => j < Len(lines))

\* What makes a line too long: an event written whole is in some line, and without
\* a failure every line is one such event.
LengthsFromWritten ==
    /\ \A i \in DOMAIN written : written[i].whole =>
          \E j \in DOMAIN lines : lines[j].length >= Length[written[i].event.kind]
    /\ ~WriteFailed => \A j \in DOMAIN lines :
          \E i \in DOMAIN written :
             written[i].whole /\ lines[j].length = Length[written[i].event.kind]

\* The window w has the newest of the events seen: all of them, or at least limit.
Newest(w, seen, limit) ==
    /\ \A i \in DOMAIN w : w[i] \in seen
    /\ \A i, j \in DOMAIN w : i < j => w[i].id < w[j].id
    /\ \A e \in seen :
          \/ \E i \in DOMAIN w : w[i] = e
          \/ Len(w) >= limit /\ \A i \in DOMAIN w : e.id < w[i].id

\* A read half way through these lines.
ScanOf(ls, q) ==
    /\ q.at <= Len(ls) + 1
    /\ \A j \in 1..(q.at - 1) : ~TooLong(ls[j])
    /\ Newest(q.window, HeldIn(ls, q.at - 1, q.kind), q.limit)

ScanIsNewest == \A r \in Readers : reader[r].pc = "scan" => ScanOf(lines, reader[r])

LogInv == LogTypeOK /\ LinesInOrder /\ FileKeepsWritten /\ LengthsFromWritten /\ ScanIsNewest
-----------------------------------------------------------------------------
(* The lines. *)

LEMMA PartFacts ==
    ASSUME NEW S, NEW s \in Seq(S), NEW m \in Int, NEW n \in Int, NEW part,
           1 <= m, m <= n + 1, n <= Len(s), part = SubSeq(s, m, n)
    PROVE  /\ part \in Seq(S) /\ Len(part) = n - m + 1
           /\ DOMAIN part = 1..(n - m + 1)
           /\ \A i \in 1..(n - m + 1) : part[i] = s[m + i - 1]
<1>1. \A i \in m..n : s[i] \in S
  OBVIOUS
<1>2. /\ part \in Seq(S)
      /\ Len(part) = IF m <= n THEN n - m + 1 ELSE 0
      /\ \A i \in 1..(n - m + 1) : part[i] = s[m + i - 1]
  BY <1>1, SubSeqProperties
<1>. QED
  BY <1>2, LenProperties

LEMMA PrefixFacts ==
    ASSUME NEW S, NEW s \in Seq(S), NEW n \in Nat, n <= Len(s)
    PROVE  /\ SubSeq(s, 1, n) \in Seq(S) /\ Len(SubSeq(s, 1, n)) = n
           /\ DOMAIN SubSeq(s, 1, n) = 1..n
           /\ \A i \in 1..n : SubSeq(s, 1, n)[i] = s[i]
<1>1. 1 \in Int /\ n \in Int /\ 1 <= 1 /\ 1 <= n + 1 /\ SubSeq(s, 1, n) = SubSeq(s, 1, n)
  OBVIOUS
<1>2. /\ SubSeq(s, 1, n) \in Seq(S) /\ Len(SubSeq(s, 1, n)) = n - 1 + 1
      /\ DOMAIN SubSeq(s, 1, n) = 1..(n - 1 + 1)
      /\ \A i \in 1..(n - 1 + 1) : SubSeq(s, 1, n)[i] = s[1 + i - 1]
  BY <1>1, PartFacts
<1>3. n - 1 + 1 = n /\ \A i \in 1..n : 1 + i - 1 = i
  OBVIOUS
<1>. QED
  BY <1>2, <1>3

LEMMA FrontFacts ==
    ASSUME NEW S, NEW s \in Seq(S), s # <<>>
    PROVE  /\ Len(s) \in Nat /\ Len(s) > 0
           /\ Front(s) \in Seq(S) /\ Len(Front(s)) = Len(s) - 1
           /\ \A i \in 1..(Len(s) - 1) : Front(s)[i] = s[i]
<1>1. Len(s) \in Nat /\ Len(s) > 0
  OBVIOUS
<1>2. PICK n \in Int : n = Len(s) - 1
  BY <1>1
<1>3. 1 \in Int /\ 1 <= 1 /\ 1 <= n + 1 /\ n <= Len(s) /\ Front(s) = SubSeq(s, 1, n)
  BY <1>1, <1>2 DEF Front
<1>4. /\ Front(s) \in Seq(S) /\ Len(Front(s)) = n - 1 + 1
      /\ \A i \in 1..(n - 1 + 1) : Front(s)[i] = s[1 + i - 1]
  BY <1>3, PartFacts
<1>5. n - 1 + 1 = n /\ \A i \in 1..n : 1 + i - 1 = i
  OBVIOUS
<1>6. Len(Front(s)) = n /\ \A i \in 1..n : Front(s)[i] = s[i]
  BY <1>4, <1>5
<1>. QED
  BY <1>1, <1>2, <1>4, <1>6

LEMMA LengthFacts ==
    ASSUME NEW kind \in Kinds
    PROVE  Length[kind] \in Nat /\ Length[kind] > 0
BY LogAssumption

LEMMA SmallerFacts ==
    ASSUME NEW m \in Nat, NEW n \in Nat
    PROVE  /\ Smaller(m, n) \in Nat /\ Smaller(m, n) <= m /\ Smaller(m, n) <= n
           /\ Smaller(m, n) \in {m, n}
BY DEF Smaller

LEMMA LineFacts ==
    ASSUME NEW e \in Events, NEW n \in Nat, n > 0
    PROVE  /\ LineOf(e, n) \in Lines
           /\ LineOf(e, n).event = e
           /\ LineOf(e, n).parses <=> n >= Length[e.kind]
           /\ n >= Length[e.kind] => LineOf(e, n).length = Length[e.kind]
<1>1. Length[e.kind] \in Nat
  BY LengthFacts DEF Events
<1>2. /\ LineOf(e, n).event = e /\ LineOf(e, n).length = Smaller(n, Length[e.kind])
      /\ LineOf(e, n).parses = (n >= Length[e.kind])
  BY DEF LineOf
<1>3. Smaller(n, Length[e.kind]) \in Nat /\ (n >= Length[e.kind] => Smaller(n, Length[e.kind]) = Length[e.kind])
  BY <1>1 DEF Smaller
<1>4. LineOf(e, n) \in Lines
  <2>1. (n >= Length[e.kind]) \in BOOLEAN
    OBVIOUS
  <2>. QED
    BY <1>3, <2>1, Zenon DEF LineOf, Lines
<1>. QED
  BY <1>2, <1>3, <1>4

LEMMA JoinedFacts ==
    ASSUME NEW line \in Lines, NEW more \in Lines
    PROVE  /\ Joined(line, more) \in Lines
           /\ Joined(line, more).event = more.event
           /\ ~Joined(line, more).parses
           /\ Joined(line, more).length = line.length + more.length
<1>1. more.event \in Events /\ line.length + more.length \in Nat
  BY DEF Lines
<1>. QED
  BY <1>1 DEF Joined, Lines

\* What arrives is a line of its own, or continues the one that has no newline.
LEMMA LinesWithFacts ==
    ASSUME lines \in Seq(Lines), open \in BOOLEAN, open => lines # <<>>,
           NEW e \in Events, NEW n \in Nat
    PROVE  /\ LinesWith(e, n) \in Seq(Lines)
           /\ n = 0 => LinesWith(e, n) = lines
           /\ n > 0 /\ ~open =>
                 /\ Len(LinesWith(e, n)) = Len(lines) + 1
                 /\ \A j \in 1..Len(lines) : LinesWith(e, n)[j] = lines[j]
                 /\ LinesWith(e, n)[Len(lines) + 1] = LineOf(e, n)
           /\ n > 0 /\ open =>
                 /\ Len(LinesWith(e, n)) = Len(lines) /\ Len(lines) > 0
                 /\ \A j \in 1..(Len(lines) - 1) : LinesWith(e, n)[j] = lines[j]
                 /\ LinesWith(e, n)[Len(lines)] = Joined(lines[Len(lines)], LineOf(e, n))
<1>1. CASE n = 0
  BY <1>1 DEF LinesWith
<1>2. CASE n > 0 /\ ~open
  <2>1. LinesWith(e, n) = Append(lines, LineOf(e, n)) /\ LineOf(e, n) \in Lines
    BY <1>2, LineFacts DEF LinesWith
  <2>. QED
    BY <1>2, <2>1, AppendProperties
<1>3. CASE n > 0 /\ open
  <2>. DEFINE front == Front(lines)
              line == Joined(lines[Len(lines)], LineOf(e, n))
  <2>1. /\ Len(lines) \in Nat /\ Len(lines) > 0
        /\ front \in Seq(Lines) /\ Len(front) = Len(lines) - 1
        /\ \A j \in 1..(Len(lines) - 1) : front[j] = lines[j]
    BY <1>3, FrontFacts
  <2>2. line \in Lines
    <3>1. lines[Len(lines)] \in Lines
      BY <2>1
    <3>. QED
      BY <1>3, <3>1, LineFacts, JoinedFacts
  <2>4. LinesWith(e, n) = Append(front, line)
    BY <1>3 DEF LinesWith, Last
  <2>. HIDE DEF front, line
  <2>5. /\ Append(front, line) \in Seq(Lines) /\ Len(Append(front, line)) = Len(lines)
        /\ \A j \in 1..(Len(lines) - 1) : Append(front, line)[j] = lines[j]
        /\ Append(front, line)[Len(lines)] = line
    BY <2>1, <2>2, AppendProperties
  <2>. QED
    BY <1>3, <2>1, <2>4, <2>5 DEF line
<1>. QED
  BY <1>1, <1>2, <1>3

\* One write, whole or cut short after m bytes.
LEMMA WriteFacts ==
    ASSUME LogTypeOK, NEW kind \in Kinds, NEW whole \in BOOLEAN, Write(kind, whole)
    PROVE  /\ NewEvent(kind) \in Events /\ ~Held /\ count' = count + 1 /\ failures' \in Nat
           /\ written' = Append(written, [event |-> NewEvent(kind), whole |-> whole])
           /\ \E n \in Nat :
                 /\ lines' = LinesWith(NewEvent(kind), n)
                 /\ whole => n = Length[kind] + 1 /\ open' = FALSE
                 /\ ~whole => n <= Length[kind] /\ open' = (open \/ n > 0)
<1>1. NewEvent(kind) \in Events
  BY DEF Events, LogTypeOK, NewEvent
<1>2. Length[kind] \in Nat
  BY LengthFacts
<1>3. failures' \in Nat
  BY DEF Write, LogTypeOK
<1>4. CASE whole
  <2>1. lines' = LinesWith(NewEvent(kind), Length[kind] + 1) /\ open' = FALSE
    BY <1>4, Zenon DEF Write
  <2>2. Length[kind] + 1 \in Nat
    BY <1>2
  <2>. QED
    BY <1>1, <1>3, <1>4, <2>1, <2>2, Zenon DEF Write
<1>5. CASE ~whole
  <2>1. PICK n \in 0..Length[kind] :
           lines' = LinesWith(NewEvent(kind), n) /\ open' = (open \/ n > 0)
    BY <1>5, Zenon DEF Write
  <2>2. n \in Nat /\ n <= Length[kind]
    BY <1>2
  <2>. QED
    BY <1>1, <1>3, <1>5, <2>1, <2>2, Zenon DEF Write
<1>. QED
  BY <1>4, <1>5
-----------------------------------------------------------------------------
(* What a write does to the file. *)

FileTypes ==
    /\ lines \in Seq(Lines)
    /\ open \in BOOLEAN
    /\ count \in Nat
    /\ failures \in Nat
    /\ written \in Seq([event : Events, whole : BOOLEAN])

FileInv == FileTypes /\ LinesInOrder /\ FileKeepsWritten /\ LengthsFromWritten

\* A write of n bytes leaves the file as it was, begins a line or ends one.
WriteShape(e, n, whole) ==
    \/ n = 0 /\ ~whole /\ lines' = lines /\ open' = open
    \/ /\ n > 0 /\ ~open /\ (open' => ~whole)
       /\ Len(lines') = Len(lines) + 1
       /\ \A j \in 1..Len(lines) : lines'[j] = lines[j]
       /\ lines'[Len(lines) + 1] = LineOf(e, n)
    \/ /\ n > 0 /\ open /\ (open' => ~whole)
       /\ Len(lines') = Len(lines) /\ Len(lines) > 0
       /\ \A j \in 1..(Len(lines) - 1) : lines'[j] = lines[j]
       /\ lines'[Len(lines)] = Joined(lines[Len(lines)], LineOf(e, n))

LEMMA WriteShapes ==
    ASSUME LogTypeOK, open => lines # <<>>, NEW kind \in Kinds, NEW whole \in BOOLEAN, Write(kind, whole)
    PROVE  /\ NewEvent(kind) \in Events /\ NewEvent(kind).id = count + 1 /\ NewEvent(kind).kind = kind
           /\ ~Held /\ count' = count + 1 /\ failures' \in Nat
           /\ written' = Append(written, [event |-> NewEvent(kind), whole |-> whole])
           /\ lines' \in Seq(Lines)
           /\ \E n \in Nat : /\ WriteShape(NewEvent(kind), n, whole)
                             /\ whole => n >= Length[kind]
<1>1. PICK n \in Nat :
         /\ lines' = LinesWith(NewEvent(kind), n)
         /\ whole => n = Length[kind] + 1 /\ open' = FALSE
         /\ ~whole => n <= Length[kind] /\ open' = (open \/ n > 0)
  BY WriteFacts
<1>2. NewEvent(kind) \in Events /\ lines \in Seq(Lines) /\ open \in BOOLEAN /\ Length[kind] \in Nat
  BY WriteFacts, LengthFacts DEF LogTypeOK
<1>. DEFINE e == NewEvent(kind)
<1>. HIDE DEF e
<1>3. /\ lines' \in Seq(Lines)
      /\ n = 0 => lines' = lines
      /\ n > 0 /\ ~open =>
            /\ Len(lines') = Len(lines) + 1
            /\ \A j \in 1..Len(lines) : lines'[j] = lines[j]
            /\ lines'[Len(lines) + 1] = LineOf(e, n)
      /\ n > 0 /\ open =>
            /\ Len(lines') = Len(lines) /\ Len(lines) > 0
            /\ \A j \in 1..(Len(lines) - 1) : lines'[j] = lines[j]
            /\ lines'[Len(lines)] = Joined(lines[Len(lines)], LineOf(e, n))
  BY <1>1, <1>2, LinesWithFacts, Zenon DEF e
<1>4. n = 0 => ~whole /\ open' = open
  BY <1>1, <1>2
<1>5. n # 0 => n > 0 /\ (open' => ~whole)
  BY <1>1, <1>2
<1>6. WriteShape(e, n, whole)
  BY <1>3, <1>4, <1>5, Zenon DEF WriteShape
<1>7. whole => n >= Length[kind]
  BY <1>1, <1>2
<1>8. NewEvent(kind).id = count + 1 /\ NewEvent(kind).kind = kind
  BY DEF NewEvent
<1>. QED
  BY <1>3, <1>6, <1>7, <1>8, WriteFacts, Zenon DEF e

\* Where the lines of the file are after a write.
LEMMA ShapeFacts ==
    ASSUME NEW e \in Events, NEW n \in Nat, NEW whole \in BOOLEAN, WriteShape(e, n, whole),
           NEW L \in Nat, L = Len(lines), open => L > 0
    PROVE  /\ whole => ~open'
           /\ open' => Len(lines') > 0
           /\ \A j \in 1..L :
                 \/ n > 0 /\ open /\ j = L
                 \/ j \in 1..Len(lines') /\ lines'[j] = lines[j]
           /\ \A j \in 1..L : (open => j < L) =>
                 j \in 1..Len(lines') /\ lines'[j] = lines[j] /\ (open' => j < Len(lines'))
           /\ n > 0 /\ ~open => Len(lines') = L + 1 /\ lines'[L + 1] = LineOf(e, n)
           /\ n > 0 /\ open => Len(lines') = L /\ lines'[L] = Joined(lines[L], LineOf(e, n))
<1>1. CASE n = 0 /\ ~whole /\ lines' = lines /\ open' = open
  BY <1>1
<1>2. CASE /\ n > 0 /\ ~open /\ (open' => ~whole)
           /\ Len(lines') = Len(lines) + 1
           /\ \A j \in 1..Len(lines) : lines'[j] = lines[j]
           /\ lines'[Len(lines) + 1] = LineOf(e, n)
  <2>1. Len(lines') = L + 1 /\ \A j \in 1..L : lines'[j] = lines[j] /\ j \in 1..Len(lines') /\ j < Len(lines')
    BY <1>2
  <2>. QED
    BY <1>2, <2>1
<1>3. CASE /\ n > 0 /\ open /\ (open' => ~whole)
           /\ Len(lines') = Len(lines) /\ Len(lines) > 0
           /\ \A j \in 1..(Len(lines) - 1) : lines'[j] = lines[j]
           /\ lines'[Len(lines)] = Joined(lines[Len(lines)], LineOf(e, n))
  <2>1. Len(lines') = L /\ \A j \in 1..L : j \in 1..Len(lines') /\ (j < L => j \in 1..(L - 1) /\ lines'[j] = lines[j])
    BY <1>3
  <2>2. \A j \in 1..L : j = L \/ j < L
    OBVIOUS
  <2>. QED
    BY <1>3, <2>1, <2>2
<1>. QED
  BY <1>1, <1>2, <1>3 DEF WriteShape

\* Events keep their place, and what was written grows by one.
LEMMA WrittenGrows ==
    ASSUME FileTypes, NEW e \in Events, NEW whole \in BOOLEAN,
           written' = Append(written, [event |-> e, whole |-> whole])
    PROVE  /\ Len(written) \in Nat /\ Len(written') = Len(written) + 1
           /\ written' \in Seq([event : Events, whole : BOOLEAN])
           /\ \A i \in 1..Len(written) : written'[i] = written[i]
           /\ written'[Len(written) + 1].event = e
           /\ written'[Len(written) + 1].whole = whole
           /\ \A i \in DOMAIN written' : i \in DOMAIN written \/ i = Len(written) + 1
<1>1. [event |-> e, whole |-> whole] \in [event : Events, whole : BOOLEAN]
  BY Zenon
<1>2. /\ written' \in Seq([event : Events, whole : BOOLEAN])
      /\ Len(written') = Len(written) + 1
      /\ \A i \in 1..Len(written) : written'[i] = written[i]
      /\ written'[Len(written) + 1] = [event |-> e, whole |-> whole]
  BY <1>1, AppendProperties DEF FileTypes
<1>3. Len(written) \in Nat /\ DOMAIN written = 1..Len(written) /\ DOMAIN written' = 1..Len(written')
  BY <1>2, LenProperties DEF FileTypes
<1>4. \A i \in DOMAIN written' : i \in DOMAIN written \/ i = Len(written) + 1
  BY <1>2, <1>3
<1>. QED
  BY <1>2, <1>3, <1>4

LEMMA OrderAfterWrite ==
    ASSUME FileInv, NEW e \in Events, e.id = count + 1, NEW n \in Nat, NEW whole \in BOOLEAN,
           WriteShape(e, n, whole), lines' \in Seq(Lines), count' = count + 1
    PROVE  LinesInOrder'
<1>1. /\ count \in Nat /\ Len(lines) \in Nat /\ DOMAIN lines = 1..Len(lines) /\ DOMAIN lines' = 1..Len(lines')
      /\ \A j \in 1..Len(lines) : lines[j] \in Lines /\ lines[j].event.id \in Nat
  <2>1. lines \in Seq(Lines) /\ count \in Nat
    BY DEF FileInv, FileTypes
  <2>2. \A j \in 1..Len(lines) : lines[j] \in Lines
    BY <2>1
  <2>3. ASSUME NEW line \in Lines PROVE line.event.id \in Nat
    BY DEF Lines, Events
  <2>. QED
    BY <2>1, <2>2, <2>3, LenProperties
<1>2. /\ \A i \in 1..Len(lines) : lines[i].event.id <= count
      /\ \A i, j \in 1..Len(lines) : i < j => lines[i].event.id < lines[j].event.id
  BY <1>1 DEF FileInv, LinesInOrder
<1>3. CASE lines' = lines
  BY <1>1, <1>2, <1>3 DEF LinesInOrder
<1>4. ASSUME NEW m \in Nat, m <= Len(lines), Len(lines') = m + 1,
             \A j \in 1..m : lines'[j] = lines[j],
             lines'[m + 1].event = e
      PROVE  LinesInOrder'
  <2>1. \A j \in 1..m : lines'[j].event.id \in Nat /\ lines'[j].event.id <= count
    BY <1>1, <1>2, <1>4
  <2>2. lines'[m + 1].event.id = count + 1
    BY <1>4
  <2>3. \A i \in 1..(m + 1) : i \in 1..m \/ i = m + 1
    OBVIOUS
  <2>4. \A i \in 1..(m + 1) : lines'[i].event.id <= count + 1
    BY <1>1, <2>1, <2>2, <2>3
  <2>5. ASSUME NEW i \in 1..(m + 1), NEW j \in 1..(m + 1), i < j
        PROVE  lines'[i].event.id < lines'[j].event.id
    <3>1. i \in 1..m
      BY <2>5
    <3>2. CASE j = m + 1
      BY <1>1, <2>1, <2>2, <3>1, <3>2
    <3>3. CASE j \in 1..m
      BY <1>1, <1>2, <1>4, <2>5, <3>1, <3>3
    <3>. QED
      BY <2>3, <3>2, <3>3
  <2>. QED
    BY <1>1, <1>4, <2>4, <2>5 DEF LinesInOrder
<1>5. CASE n > 0 /\ ~open /\ Len(lines') = Len(lines) + 1
           /\ (\A j \in 1..Len(lines) : lines'[j] = lines[j]) /\ lines'[Len(lines) + 1] = LineOf(e, n)
  <2>1. LineOf(e, n).event = e
    BY <1>5, LineFacts
  <2>2. /\ Len(lines) \in Nat /\ Len(lines) <= Len(lines) /\ Len(lines') = Len(lines) + 1
        /\ \A j \in 1..Len(lines) : lines'[j] = lines[j]
        /\ lines'[Len(lines) + 1].event = e
    BY <1>1, <1>5, <2>1
  <2>. QED
    BY <1>4, <2>2
<1>6. CASE n > 0 /\ open /\ Len(lines') = Len(lines) /\ Len(lines) > 0
           /\ (\A j \in 1..(Len(lines) - 1) : lines'[j] = lines[j])
           /\ lines'[Len(lines)] = Joined(lines[Len(lines)], LineOf(e, n))
  <2>1. LineOf(e, n) \in Lines /\ LineOf(e, n).event = e /\ lines[Len(lines)] \in Lines
    BY <1>1, <1>6, LineFacts
  <2>2. Joined(lines[Len(lines)], LineOf(e, n)).event = e
    BY <2>1, JoinedFacts
  <2>. DEFINE m == Len(lines) - 1
  <2>3. /\ m \in Nat /\ m <= Len(lines) /\ Len(lines') = m + 1
        /\ \A j \in 1..m : lines'[j] = lines[j]
    BY <1>1, <1>6
  <2>4. lines'[m + 1].event = e
    <3>1. m + 1 = Len(lines)
      BY <1>1
    <3>. QED
      BY <1>6, <2>2, <3>1
  <2>. HIDE DEF m
  <2>. QED
    BY <1>4, <2>3, <2>4
<1>. QED
  BY <1>3, <1>5, <1>6 DEF WriteShape

LEMMA KeptAfterWrite ==
    ASSUME FileInv, NEW e \in Events, NEW n \in Nat, NEW whole \in BOOLEAN,
           WriteShape(e, n, whole), whole => n >= Length[e.kind], lines' \in Seq(Lines),
           written' = Append(written, [event |-> e, whole |-> whole])
    PROVE  FileKeepsWritten'
<1>. DEFINE N == Len(written)
            L == Len(lines)
<1>1. /\ N \in Nat /\ Len(written') = N + 1 /\ DOMAIN written = 1..N /\ DOMAIN written' = 1..(N + 1)
      /\ \A i \in 1..N : written'[i] = written[i]
      /\ written'[N + 1].event = e
      /\ written'[N + 1].whole = whole
  BY WrittenGrows, LenProperties DEF FileInv, FileTypes
<1>2. L \in Nat /\ L = Len(lines) /\ DOMAIN lines = 1..L /\ DOMAIN lines' = 1..Len(lines')
  BY LenProperties DEF FileInv, FileTypes
<1>3. /\ open => L > 0
      /\ open => N > 0 /\ ~written[N].whole
      /\ \A i \in 1..N : Safe(written, i) =>
            \E j \in 1..L : lines[j].parses /\ lines[j].event = written[i].event /\ (open => j < L)
  <2>1. written # <<>> => N > 0
    BY DEF FileInv, FileTypes
  <2>2. lines # <<>> => L > 0
    BY DEF FileInv, FileTypes
  <2>. QED
    BY <1>1, <1>2, <2>1, <2>2 DEF FileInv, FileKeepsWritten
<1>4. whole => ~open'
  BY <1>2, <1>3, ShapeFacts
<1>5. open' => Len(lines') > 0
  BY <1>2, <1>3, ShapeFacts
<1>. HIDE DEF N, L
<1>6. ASSUME NEW i \in 1..N, Safe(written', i)
      PROVE  \E j \in 1..Len(lines') :
                lines'[j].parses /\ lines'[j].event = written'[i].event /\ (open' => j < Len(lines'))
  <2>1. Safe(written, i)
    <3>1. i > 1 => i - 1 \in 1..N
      BY <1>1
    <3>. QED
      BY <1>1, <1>6, <3>1 DEF Safe
  <2>2. PICK j \in 1..L : lines[j].parses /\ lines[j].event = written[i].event /\ (open => j < L)
    BY <1>3, <2>1
  <2>3. j \in 1..Len(lines') /\ lines'[j] = lines[j] /\ (open' => j < Len(lines'))
    BY <1>2, <1>3, <2>2, ShapeFacts
  <2>. QED
    BY <1>1, <2>2, <2>3
<1>7. ASSUME Safe(written', N + 1)
      PROVE  \E j \in 1..Len(lines') :
                lines'[j].parses /\ lines'[j].event = written'[N + 1].event /\ (open' => j < Len(lines'))
  <2>1. whole
    BY <1>1, <1>7, Zenon DEF Safe
  <2>2. ~open
    <3>1. N + 1 - 1 = N /\ (N > 0 => N \in 1..N /\ N + 1 > 1)
      BY <1>1
    <3>2. Safe(written', N + 1) /\ N + 1 \in Nat
      BY <1>1, <1>7
    <3>3. N > 0 => written[N].whole
      BY <1>1, <3>1, <3>2 DEF Safe
    <3>. QED
      BY <1>3, <3>3
  <2>3. n > 0 /\ n >= Length[e.kind]
    BY <2>1, LengthFacts DEF Events
  <2>4. Len(lines') = L + 1 /\ lines'[L + 1] = LineOf(e, n)
    <3>1. L \in Nat /\ L = Len(lines) /\ (open => L > 0) /\ n > 0 /\ ~open
      BY <1>2, <1>3, <2>2, <2>3
    <3>2. n > 0 /\ ~open => Len(lines') = L + 1 /\ lines'[L + 1] = LineOf(e, n)
      BY <3>1, ShapeFacts, Zenon
    <3>. QED
      BY <3>1, <3>2
  <2>5. lines'[L + 1].parses /\ lines'[L + 1].event = e /\ L + 1 \in 1..Len(lines')
    BY <1>2, <2>3, <2>4, LineFacts
  <2>. QED
    BY <1>1, <1>4, <2>1, <2>5
<1>8. \A i \in 1..(N + 1) : Safe(written', i) =>
         \E j \in 1..Len(lines') :
            lines'[j].parses /\ lines'[j].event = written'[i].event /\ (open' => j < Len(lines'))
  <2>1. \A i \in 1..(N + 1) : i \in 1..N \/ i = N + 1
    BY <1>1
  <2>. QED
    BY <1>6, <1>7, <2>1
<1>9. open' => lines' # <<>> /\ written' # <<>> /\ ~written'[Len(written')].whole
  BY <1>1, <1>4, <1>5
<1>. QED
  BY <1>1, <1>2, <1>8, <1>9 DEF FileKeepsWritten

LEMMA LengthsAfterWrite ==
    ASSUME FileInv, NEW e \in Events, NEW n \in Nat, NEW whole \in BOOLEAN,
           WriteShape(e, n, whole), whole => n >= Length[e.kind], lines' \in Seq(Lines),
           written' = Append(written, [event |-> e, whole |-> whole])
    PROVE  LengthsFromWritten'
<1>. DEFINE N == Len(written)
            L == Len(lines)
<1>1. /\ N \in Nat /\ Len(written') = N + 1 /\ DOMAIN written = 1..N /\ DOMAIN written' = 1..(N + 1)
      /\ \A i \in 1..N : written'[i] = written[i] /\ written[i].event \in Events
      /\ written'[N + 1].event = e
      /\ written'[N + 1].whole = whole
  <2>1. \A i \in 1..N : written[i] \in [event : Events, whole : BOOLEAN]
    BY ElementOfSeq DEF FileInv, FileTypes
  <2>2. \A i \in 1..N : written[i].event \in Events
    BY <2>1
  <2>. QED
    BY <2>2, WrittenGrows, LenProperties DEF FileInv, FileTypes
<1>2. /\ L \in Nat /\ L = Len(lines) /\ DOMAIN lines = 1..L /\ DOMAIN lines' = 1..Len(lines')
      /\ \A j \in 1..L : lines[j] \in Lines /\ lines[j].length \in Nat
  <2>1. L \in Nat /\ DOMAIN lines = 1..L /\ \A j \in 1..L : lines[j] \in Lines
    BY LenProperties DEF FileInv, FileTypes
  <2>2. ASSUME NEW line \in Lines PROVE line.length \in Nat
    BY DEF Lines
  <2>. QED
    BY <2>1, <2>2, LenProperties
<1>3. /\ \A i \in 1..N : written[i].whole =>
            \E j \in 1..L : lines[j].length >= Length[written[i].event.kind]
      /\ ~WriteFailed => \A j \in 1..L :
            \E i \in 1..N : written[i].whole /\ lines[j].length = Length[written[i].event.kind]
  BY <1>1, <1>2 DEF FileInv, LengthsFromWritten
<1>4. open => L > 0 /\ WriteFailed
  <2>1. lines # <<>> => L > 0
    BY DEF FileInv, FileTypes
  <2>2. written # <<>> => N \in 1..N
    BY <1>1 DEF FileInv, FileTypes
  <2>. QED
    BY <1>1, <2>1, <2>2 DEF FileInv, FileKeepsWritten, WriteFailed
<1>. HIDE DEF N, L
<1>11. /\ n > 0 /\ ~open => Len(lines') = L + 1 /\ lines'[L + 1] = LineOf(e, n)
       /\ n > 0 /\ open => Len(lines') = L
       /\ \A j \in 1..L :
             \/ n > 0 /\ open /\ j = L
             \/ j \in 1..Len(lines') /\ lines'[j] = lines[j]
  <2>1. L \in Nat /\ L = Len(lines) /\ (open => L > 0)
    BY <1>2, <1>4
  <2>2. n > 0 /\ ~open => Len(lines') = L + 1 /\ lines'[L + 1] = LineOf(e, n)
    BY <2>1, ShapeFacts, Zenon
  <2>3. n > 0 /\ open => Len(lines') = L
    BY <2>1, ShapeFacts, Zenon
  <2>4. \A j \in 1..L : (n > 0 /\ open /\ j = L) \/ (j \in 1..Len(lines') /\ lines'[j] = lines[j])
    BY <2>1, ShapeFacts, Zenon
  <2>. QED
    BY <2>2, <2>3, <2>4, Zenon
<1>5. n > 0 => /\ LineOf(e, n) \in Lines /\ LineOf(e, n).length \in Nat
               /\ (n >= Length[e.kind] => LineOf(e, n).length = Length[e.kind])
  <2>1. ASSUME NEW line \in Lines PROVE line.length \in Nat
    BY DEF Lines
  <2>. QED
    BY <2>1, LineFacts
<1>6. n > 0 /\ open => lines'[L].length = lines[L].length + LineOf(e, n).length
  <2>. SUFFICES ASSUME n > 0, open PROVE lines'[L].length = lines[L].length + LineOf(e, n).length
    OBVIOUS
  <2>1. lines'[L] = Joined(lines[L], LineOf(e, n))
    BY <1>2, <1>4, ShapeFacts
  <2>2. lines[L] \in Lines
    BY <1>2, <1>4
  <2>. QED
    BY <1>5, <2>1, <2>2, JoinedFacts
<1>7. ASSUME NEW i \in 1..N, written[i].whole
      PROVE  \E j \in 1..Len(lines') : lines'[j].length >= Length[written[i].event.kind]
  <2>1. PICK j \in 1..L : lines[j].length >= Length[written[i].event.kind]
    BY <1>3, <1>7
  <2>2. Length[written[i].event.kind] \in Nat
    BY <1>1, LengthFacts DEF Events
  <2>3. CASE lines'[j] = lines[j] /\ j \in 1..Len(lines')
    BY <2>1, <2>3
  <2>4. CASE n > 0 /\ open /\ j = L
    <3>1. L \in 1..Len(lines')
      BY <1>2, <1>4, <2>4, <1>11
    <3>. QED
      BY <1>2, <1>5, <1>6, <2>1, <2>2, <2>4, <3>1
  <2>5. (lines'[j] = lines[j] /\ j \in 1..Len(lines')) \/ (n > 0 /\ open /\ j = L)
    BY <1>2, <1>11, <2>1
  <2>. QED
    BY <2>3, <2>4, <2>5
<1>8. ASSUME whole
      PROVE  \E j \in 1..Len(lines') : lines'[j].length >= Length[e.kind]
  <2>1. n > 0 /\ n >= Length[e.kind] /\ Length[e.kind] \in Nat
    BY <1>8, LengthFacts DEF Events
  <2>2. CASE open
    <3>1. L \in 1..Len(lines') /\ lines[L].length \in Nat
      BY <1>2, <1>4, <2>1, <2>2, <1>11
    <3>. QED
      BY <1>5, <1>6, <2>1, <2>2, <3>1
  <2>3. CASE ~open
    <3>1. L + 1 \in 1..Len(lines') /\ lines'[L + 1] = LineOf(e, n)
      <4>1. L \in Nat
        BY <1>2
      <4>2. Len(lines') = L + 1 /\ lines'[L + 1] = LineOf(e, n)
        BY <1>11, <2>1, <2>3
      <4>. QED
        BY <4>1, <4>2
    <3>. QED
      BY <1>5, <2>1, <3>1
  <2>. QED
    BY <2>2, <2>3
<1>9. \A i \in 1..(N + 1) : written'[i].whole =>
         \E j \in 1..Len(lines') : lines'[j].length >= Length[written'[i].event.kind]
  <2>1. \A i \in 1..(N + 1) : i \in 1..N \/ i = N + 1
    BY <1>1
  <2>. QED
    BY <1>1, <1>7, <1>8, <2>1
<1>10. ASSUME ~WriteFailed', NEW j \in 1..Len(lines')
       PROVE  \E i \in 1..(N + 1) :
                 written'[i].whole /\ lines'[j].length = Length[written'[i].event.kind]
  <2>1. N + 1 \in 1..(N + 1) /\ \A i \in 1..N : i \in 1..(N + 1)
    BY <1>1
  <2>2. ~WriteFailed /\ whole
    BY <1>1, <1>10, <2>1 DEF WriteFailed
  <2>3. n > 0 /\ ~open /\ n >= Length[e.kind]
    BY <1>4, <2>2, LengthFacts DEF Events
  <2>4. j \in 1..L \/ j = L + 1
    <3>1. L \in Nat
      BY <1>2
    <3>2. Len(lines') = L + 1
      BY <1>11, <2>3
    <3>. QED
      BY <3>1, <3>2
  <2>5. CASE j \in 1..L
    <3>1. lines'[j] = lines[j]
      BY <1>2, <1>11, <2>3, <2>5
    <3>2. PICK i \in 1..N : written[i].whole /\ lines[j].length = Length[written[i].event.kind]
      BY <1>3, <2>2, <2>5
    <3>. QED
      BY <1>1, <2>1, <3>1, <3>2
  <2>6. CASE j = L + 1
    <3>1. lines'[j] = LineOf(e, n)
      BY <1>2, <1>11, <2>3, <2>6
    <3>. QED
      BY <1>1, <1>5, <2>1, <2>2, <2>3, <3>1
  <2>. QED
    BY <2>4, <2>5, <2>6
<1>12. ~WriteFailed' => \A j \in 1..Len(lines') :
          \E i \in 1..(N + 1) : written'[i].whole /\ lines'[j].length = Length[written'[i].event.kind]
  BY <1>10
<1>13. \A i \in DOMAIN written' : written'[i].whole =>
          \E j \in DOMAIN lines' : lines'[j].length >= Length[written'[i].event.kind]
  BY <1>1, <1>2, <1>9
<1>14. ~WriteFailed' => \A j \in DOMAIN lines' :
          \E i \in DOMAIN written' : written'[i].whole /\ lines'[j].length = Length[written'[i].event.kind]
  BY <1>1, <1>2, <1>12
<1>. QED
  BY <1>13, <1>14, Zenon DEF LengthsFromWritten

LEMMA FileAfterWrite ==
    ASSUME LogTypeOK, FileInv, NEW kind \in Kinds, NEW whole \in BOOLEAN, Write(kind, whole)
    PROVE  FileInv' /\ ~Held
<1>1. open => lines # <<>>
  BY DEF FileInv, FileKeepsWritten
<1>. DEFINE e == NewEvent(kind)
<1>2. /\ e \in Events /\ e.id = count + 1 /\ e.kind = kind
      /\ ~Held /\ count' = count + 1 /\ failures' \in Nat
      /\ written' = Append(written, [event |-> e, whole |-> whole])
      /\ lines' \in Seq(Lines)
      /\ \E n \in Nat : WriteShape(e, n, whole) /\ (whole => n >= Length[kind])
  BY <1>1, WriteShapes, Zenon
<1>. HIDE DEF e
<1>3. PICK n \in Nat : WriteShape(e, n, whole) /\ (whole => n >= Length[kind])
  BY <1>2
<1>4. written' \in Seq([event : Events, whole : BOOLEAN])
  BY <1>2, WrittenGrows DEF FileInv
<1>5. open' \in BOOLEAN /\ count' \in Nat
  <2>1. count' \in Nat
    BY <1>2 DEF FileInv, FileTypes
  <2>2. ASSUME NEW m \in Nat PROVE (open \/ m > 0) \in BOOLEAN
    OBVIOUS
  <2>3. \A m \in 0..Length[kind] : m \in Nat
    OBVIOUS
  <2>. QED
    BY <2>1, <2>2, <2>3, Zenon DEF Write
<1>6. LinesInOrder'
  BY <1>2, <1>3, OrderAfterWrite
<1>7. FileKeepsWritten'
  BY <1>2, <1>3, KeptAfterWrite
<1>8. LengthsFromWritten'
  BY <1>2, <1>3, LengthsAfterWrite
<1>. QED
  BY <1>2, <1>4, <1>5, <1>6, <1>7, <1>8 DEF FileInv, FileTypes

LEMMA EmptyFile ==
    ASSUME lines = <<>>, open = FALSE, written = <<>>, count \in Nat, failures \in Nat
    PROVE  FileInv
<1>1. FileTypes
  BY EmptySeq, Zenon DEF FileTypes
<1>2. LinesInOrder /\ FileKeepsWritten /\ LengthsFromWritten
  BY DEF LinesInOrder, FileKeepsWritten, LengthsFromWritten
<1>. QED
  BY <1>1, <1>2 DEF FileInv

LEMMA ClearedFile ==
    ASSUME FileInv, NEW a \in Admins, Clear(a)
    PROVE  FileInv' /\ ~Held
<1>1. lines' = <<>> /\ open' = FALSE /\ written' = <<>> /\ count' \in Nat /\ failures' \in Nat /\ ~Held
  BY DEF Clear, FileInv, FileTypes
<1>2. FileTypes'
  BY <1>1, EmptySeq, Zenon DEF FileTypes
<1>3. LinesInOrder' /\ FileKeepsWritten' /\ LengthsFromWritten'
  BY <1>1 DEF LinesInOrder, FileKeepsWritten, LengthsFromWritten
<1>. QED
  BY <1>1, <1>2, <1>3 DEF FileInv

LEMMA FileUntouched ==
    ASSUME FileInv, UNCHANGED <<lines, open, count, failures, written>>
    PROVE  FileInv'
BY DEF FileInv, FileTypes, LinesInOrder, FileKeepsWritten, LengthsFromWritten, WriteFailed
-----------------------------------------------------------------------------
(* What a scan does to its window. *)

LEMMA NewestAppended ==
    ASSUME NEW w \in Seq(Events), NEW seen \in SUBSET Events, NEW limit \in Nat, Newest(w, seen, limit),
           NEW e \in Events, \A x \in seen : x.id < e.id
    PROVE  Newest(Append(w, e), seen \cup {e}, limit)
<1>. DEFINE v == Append(w, e)
            n == Len(w)
<1>1. /\ n \in Nat /\ Len(v) = n + 1 /\ DOMAIN w = 1..n /\ DOMAIN v = 1..(n + 1)
      /\ \A i \in 1..n : v[i] = w[i]
      /\ v[n + 1] = e
  BY AppendProperties, LenProperties
<1>2. /\ \A i \in 1..n : w[i] \in seen
      /\ \A i, j \in 1..n : i < j => w[i].id < w[j].id
      /\ \A x \in seen : (\E i \in 1..n : w[i] = x) \/ (n >= limit /\ \A i \in 1..n : x.id < w[i].id)
  BY <1>1, Zenon DEF Newest
<1>. HIDE DEF v, n
<1>3. \A i \in 1..(n + 1) : i \in 1..n \/ i = n + 1
  BY <1>1
<1>4. \A i \in 1..n : i \in 1..(n + 1)
  BY <1>1
<1>5. \A i \in 1..(n + 1) : v[i] \in seen \cup {e}
  BY <1>1, <1>2, <1>3
<1>6. ASSUME NEW i \in 1..(n + 1), NEW j \in 1..(n + 1), i < j
      PROVE  v[i].id < v[j].id
  <2>1. i \in 1..n
    BY <1>1, <1>6
  <2>2. CASE j = n + 1
    BY <1>1, <1>2, <2>1, <2>2
  <2>3. CASE j \in 1..n
    BY <1>1, <1>2, <1>6, <2>1, <2>3
  <2>. QED
    BY <1>3, <2>2, <2>3
<1>7. ASSUME NEW x \in seen \cup {e}
      PROVE  (\E i \in 1..(n + 1) : v[i] = x) \/ (n + 1 >= limit /\ \A i \in 1..(n + 1) : x.id < v[i].id)
  <2>1. CASE x = e
    <3>1. n + 1 \in 1..(n + 1)
      BY <1>1
    <3>. QED
      BY <1>1, <2>1, <3>1
  <2>2. CASE \E i \in 1..n : w[i] = x
    BY <1>1, <1>4, <2>2
  <2>3. CASE x \in seen /\ n >= limit /\ \A i \in 1..n : x.id < w[i].id
    <3>1. n + 1 >= limit
      BY <1>1, <2>3
    <3>2. \A i \in 1..(n + 1) : x.id < v[i].id
      BY <1>1, <1>3, <2>3
    <3>. QED
      BY <3>1, <3>2
  <2>. QED
    BY <1>2, <2>1, <2>2, <2>3
<1>. QED
  BY <1>1, <1>5, <1>6, <1>7, Zenon DEF Newest, v

\* The last n of w are the newest n.
LEMMA NewestCut ==
    ASSUME NEW w \in Seq(Events), NEW seen \in SUBSET Events, NEW limit \in Nat, Newest(w, seen, limit),
           NEW m \in Nat, m + limit = Len(w)
    PROVE  LET v == SubSeq(w, m + 1, Len(w)) IN
           /\ v \in Seq(Events) /\ Len(v) = limit
           /\ Newest(v, seen, limit)
<1>. DEFINE v == SubSeq(w, m + 1, Len(w))
            n == Len(w)
<1>1. n \in Nat /\ DOMAIN w = 1..n /\ n = m + limit
  BY LenProperties
<1>2. /\ v \in Seq(Events) /\ Len(v) = limit /\ DOMAIN v = 1..limit
      /\ \A i \in 1..limit : v[i] = w[m + i]
  <2>1. /\ m + 1 \in Int /\ n \in Int /\ 1 <= m + 1 /\ m + 1 <= n + 1 /\ n <= Len(w)
        /\ n - (m + 1) + 1 = limit /\ \A i \in 1..limit : m + 1 + i - 1 = m + i
    BY <1>1
  <2>2. /\ v \in Seq(Events) /\ Len(v) = n - (m + 1) + 1 /\ DOMAIN v = 1..(n - (m + 1) + 1)
        /\ \A i \in 1..(n - (m + 1) + 1) : v[i] = w[m + 1 + i - 1]
    BY <2>1, PartFacts
  <2>. QED
    BY <2>1, <2>2
<1>3. /\ \A i \in 1..n : w[i] \in seen
      /\ \A i, j \in 1..n : i < j => w[i].id < w[j].id
      /\ \A x \in seen : (\E i \in 1..n : w[i] = x) \/ (n >= limit /\ \A i \in 1..n : x.id < w[i].id)
  BY <1>1, Zenon DEF Newest
<1>. HIDE DEF v, n
<1>4. \A i \in 1..limit : m + i \in 1..n
  BY <1>1
<1>5. \A i \in 1..limit : v[i] \in seen
  BY <1>2, <1>3, <1>4
<1>6. \A i, j \in 1..limit : i < j => v[i].id < v[j].id
  <2>1. \A i, j \in 1..limit : i < j => m + i < m + j
    OBVIOUS
  <2>. QED
    BY <1>2, <1>3, <1>4, <2>1
<1>7. ASSUME NEW x \in seen
      PROVE  (\E i \in 1..limit : v[i] = x) \/ (limit >= limit /\ \A i \in 1..limit : x.id < v[i].id)
  <2>1. CASE \A i \in 1..n : x.id < w[i].id
    BY <1>2, <1>4, <2>1
  <2>2. ASSUME NEW k \in 1..n, w[k] = x
        PROVE  (\E i \in 1..limit : v[i] = x) \/ (\A i \in 1..limit : x.id < v[i].id)
    <3>1. CASE k > m
      <4>1. k - m \in 1..limit /\ m + (k - m) = k
        BY <1>1, <3>1
      <4>. QED
        BY <1>2, <2>2, <4>1
    <3>2. CASE k <= m
      <4>1. \A i \in 1..limit : k < m + i
        BY <1>1, <3>2
      <4>. QED
        BY <1>2, <1>3, <1>4, <2>2, <4>1
    <3>. QED
      BY <1>1, <3>1, <3>2
  <2>. QED
    BY <1>3, <2>1, <2>2
<1>. QED
  BY <1>2, <1>5, <1>6, <1>7, Zenon DEF Newest, v, n

LEMMA NewestTrimmed ==
    ASSUME NEW w \in Seq(Events), NEW seen \in SUBSET Events, NEW limit \in Nat, Newest(w, seen, limit)
    PROVE  Trimmed(w, limit) \in Seq(Events) /\ Newest(Trimmed(w, limit), seen, limit)
<1>1. CASE Len(w) > 3 * limit
  <2>. DEFINE m == Len(w) - limit
  <2>1. m \in Nat /\ m + limit = Len(w) /\ limit <= Len(w)
    BY <1>1
  <2>2. Trimmed(w, limit) = SubSeq(w, m + 1, Len(w))
    BY <1>1, <2>1 DEF Trimmed, LastOf, Smaller
  <2>. HIDE DEF m
  <2>. QED
    BY <2>1, <2>2, NewestCut
<1>2. CASE ~(Len(w) > 3 * limit)
  BY <1>2 DEF Trimmed
<1>. QED
  BY <1>1, <1>2
-----------------------------------------------------------------------------
(* The reads. *)

ReadInv ==
    /\ reader \in [Readers -> ReaderStates]
    /\ ScanIsNewest

LEMMA IdleFacts ==
    /\ Idle \in ReaderStates
    /\ Idle.pc = "idle" /\ Idle.at = 1 /\ Idle.window = <<>> /\ Idle.answer = <<>>
<1>1. <<>> \in Seq(Events)
  BY EmptySeq
<1>. QED
  BY <1>1 DEF Idle, ReaderStates

LEMMA LimitFacts ==
    ASSUME NEW asked \in AskedLimits
    PROVE  LimitOf(asked) \in Nat \ {0}
BY LogAssumption DEF LimitOf, Smaller

LEMMA HeldInLines ==
    ASSUME NEW ls \in Seq(Lines), NEW n \in Nat, n <= Len(ls), NEW kind
    PROVE  HeldIn(ls, n, kind) \in SUBSET Events
<1>1. \A j \in 1..n : ls[j] \in Lines
  BY ElementOfSeq
<1>2. ASSUME NEW line \in Lines PROVE line.event \in Events
  BY DEF Lines
<1>. QED
  BY <1>1, <1>2 DEF HeldIn

\* One line more.
LEMMA HeldInMore ==
    ASSUME NEW ls \in Seq(Lines), NEW n \in Nat, n + 1 <= Len(ls), NEW kind
    PROVE  HeldIn(ls, n + 1, kind) =
              IF ls[n + 1].parses /\ Matches(ls[n + 1].event, kind)
              THEN HeldIn(ls, n, kind) \cup {ls[n + 1].event}
              ELSE HeldIn(ls, n, kind)
<1>1. \A j \in 1..(n + 1) : j \in 1..n \/ j = n + 1
  OBVIOUS
<1>2. n + 1 \in 1..(n + 1) /\ \A j \in 1..n : j \in 1..(n + 1)
  OBVIOUS
<1>. QED
  BY <1>1, <1>2 DEF HeldIn

\* The read of r goes on to q, and the other reads are where they were.
LEMMA OneReadMoves ==
    ASSUME ReadInv, lines' = lines, NEW r \in Readers, NEW q \in ReaderStates,
           reader' = [reader EXCEPT ![r] = q],
           q.pc = "scan" => ScanOf(lines, q)
    PROVE  ReadInv'
<1>1. reader' \in [Readers -> ReaderStates]
  BY DEF ReadInv
<1>2. ASSUME NEW s \in Readers, reader'[s].pc = "scan" PROVE ScanOf(lines', reader'[s])
  <2>1. CASE s = r
    BY <1>2, <2>1 DEF ReadInv
  <2>2. CASE s # r
    BY <1>2, <2>2 DEF ReadInv, ScanIsNewest
  <2>. QED
    BY <2>1, <2>2
<1>. QED
  BY <1>1, <1>2 DEF ReadInv, ScanIsNewest

LEMMA ReadStarts ==
    ASSUME FileInv, ReadInv, NEW r \in Readers, NEW asked \in AskedLimits,
           NEW kind \in Kinds \cup {AnyKind}, StartRead(r, asked, kind)
    PROVE  ReadInv'
<1>. DEFINE q == [Idle EXCEPT !.pc = "scan", !.limit = LimitOf(asked), !.kind = kind]
<1>1. reader' = [reader EXCEPT ![r] = q] /\ lines' = lines
  BY DEF StartRead
<1>2. q \in ReaderStates /\ q.at = 1 /\ q.window = <<>>
  BY IdleFacts, LimitFacts, Zenon DEF Idle, ReaderStates
<1>3. Len(lines) \in Nat
  BY DEF FileInv, FileTypes
<1>. HIDE DEF q
<1>4. ScanOf(lines, q)
  <2>1. HeldIn(lines, 0, q.kind) = {}
    BY DEF HeldIn
  <2>2. Newest(<<>>, {}, q.limit)
    BY DEF Newest
  <2>3. 1 - 1 = 0 /\ 1 <= Len(lines) + 1 /\ 1..0 = {}
    BY <1>3
  <2>. QED
    BY <1>2, <2>1, <2>2, <2>3 DEF ScanOf
<1>. QED
  BY <1>1, <1>2, <1>4, OneReadMoves

\* The window after one more line.
LEMMA ScanGoesOn ==
    ASSUME FileInv, NEW q \in ReaderStates, ScanOf(lines, q), q.at <= Len(lines), ~TooLong(lines[q.at]),
           NEW line, line = lines[q.at],
           NEW w, w = IF line.parses /\ Matches(line.event, q.kind)
                      THEN Trimmed(Append(q.window, line.event), q.limit)
                      ELSE q.window
    PROVE  /\ w \in Seq(Events)
           /\ q.at + 1 <= Len(lines) + 1
           /\ \A j \in 1..q.at : ~TooLong(lines[j])
           /\ Newest(w, HeldIn(lines, q.at, q.kind), q.limit)
<1>1. /\ lines \in Seq(Lines) /\ Len(lines) \in Nat /\ DOMAIN lines = 1..Len(lines)
      /\ q.at \in Nat /\ q.at >= 1 /\ q.limit \in Nat /\ q.window \in Seq(Events)
  BY LenProperties DEF FileInv, FileTypes, ReaderStates
<1>2. PICK n \in Nat : n = q.at - 1
  BY <1>1
<1>3. q.at = n + 1 /\ n <= Len(lines) /\ n + 1 <= Len(lines) /\ n + 1 \in 1..Len(lines)
  BY <1>1, <1>2
<1>. DEFINE before == HeldIn(lines, n, q.kind)
<1>4. before \in SUBSET Events /\ Newest(q.window, before, q.limit)
  BY <1>1, <1>2, <1>3, HeldInLines DEF ScanOf
<1>5. line.event \in Events
  <2>1. lines[n + 1] \in Lines
    BY <1>1, <1>3, ElementOfSeq
  <2>2. ASSUME NEW l \in Lines PROVE l.event \in Events
    BY DEF Lines
  <2>. QED
    BY <1>3, <2>1, <2>2
<1>6. \A x \in before : x.id < line.event.id
  <2>1. \A j \in 1..n : j \in 1..Len(lines) /\ j < n + 1
    BY <1>1, <1>3
  <2>. QED
    BY <1>1, <1>3, <2>1 DEF HeldIn, FileInv, LinesInOrder
<1>7. HeldIn(lines, q.at, q.kind) = IF line.parses /\ Matches(line.event, q.kind)
                                     THEN before \cup {line.event} ELSE before
  <2>. HIDE DEF before
  <2>1. HeldIn(lines, n + 1, q.kind) = IF lines[n + 1].parses /\ Matches(lines[n + 1].event, q.kind)
                                       THEN before \cup {lines[n + 1].event} ELSE before
    BY <1>1, <1>3, HeldInMore, Zenon DEF before
  <2>. QED
    BY <1>3, <2>1
<1>. HIDE DEF before
<1>8. /\ w \in Seq(Events)
      /\ Newest(w, HeldIn(lines, q.at, q.kind), q.limit)
  <2>1. CASE line.parses /\ Matches(line.event, q.kind)
    <3>. DEFINE v == Append(q.window, line.event)
    <3>1. v \in Seq(Events)
      BY <1>1, <1>5, AppendProperties
    <3>2. Newest(v, before \cup {line.event}, q.limit)
      BY <1>1, <1>4, <1>5, <1>6, NewestAppended
    <3>3. before \cup {line.event} \in SUBSET Events
      BY <1>4, <1>5
    <3>4. w = Trimmed(v, q.limit) /\ HeldIn(lines, q.at, q.kind) = before \cup {line.event}
      BY <1>7, <2>1
    <3>. HIDE DEF v
    <3>. QED
      BY <1>1, <3>1, <3>2, <3>3, <3>4, NewestTrimmed
  <2>2. CASE ~(line.parses /\ Matches(line.event, q.kind))
    BY <1>1, <1>4, <1>7, <2>2
  <2>. QED
    BY <2>1, <2>2
<1>9. \A j \in 1..q.at : ~TooLong(lines[j])
  <2>1. \A j \in 1..q.at : j \in 1..(q.at - 1) \/ j = q.at
    BY <1>1
  <2>. QED
    BY <2>1 DEF ScanOf
<1>. QED
  BY <1>1, <1>8, <1>9

LEMMA ReadScans ==
    ASSUME FileInv, ReadInv, NEW r \in Readers, ScanLine(r)
    PROVE  ReadInv'
<1>. DEFINE q == reader[r]
            line == lines[q.at]
            w == IF line.parses /\ Matches(line.event, q.kind)
                 THEN Trimmed(Append(q.window, line.event), q.limit)
                 ELSE q.window
<1>1. q \in ReaderStates /\ ScanOf(lines, q) /\ q.pc = "scan" /\ q.at <= Len(lines) /\ lines' = lines
  BY DEF ReadInv, ScanIsNewest, ScanLine
<1>2. CASE TooLong(line)
  <2>. DEFINE p == [q EXCEPT !.pc = "failed", !.window = <<>>]
  <2>1. reader' = [reader EXCEPT ![r].pc = "failed", ![r].window = <<>>]
    BY <1>2 DEF ScanLine
  <2>2. reader' = [reader EXCEPT ![r] = p]
    BY <2>1 DEF ReadInv
  <2>3. p \in ReaderStates /\ p.pc # "scan"
    BY <1>1, EmptySeq DEF ReaderStates
  <2>. HIDE DEF p
  <2>. QED
    BY <1>1, <2>2, <2>3, OneReadMoves
<1>3. CASE ~TooLong(line)
  <2>. DEFINE p == [q EXCEPT !.at = @ + 1, !.window = w]
  <2>1. reader' = [reader EXCEPT ![r].at = @ + 1, ![r].window =
                      IF line.parses /\ Matches(line.event, q.kind)
                      THEN Trimmed(Append(q.window, line.event), q.limit) ELSE @]
    BY <1>3 DEF ScanLine
  <2>2. reader' = [reader EXCEPT ![r] = p]
    BY <2>1 DEF ReadInv
  <2>3. /\ w \in Seq(Events)
        /\ q.at + 1 <= Len(lines) + 1
        /\ \A j \in 1..q.at : ~TooLong(lines[j])
        /\ Newest(w, HeldIn(lines, q.at, q.kind), q.limit)
    BY <1>1, <1>3, ScanGoesOn
  <2>. HIDE DEF w
  <2>4. /\ p \in ReaderStates
        /\ p.at = q.at + 1 /\ p.window = w /\ p.kind = q.kind /\ p.limit = q.limit
    <3>1. q.at + 1 \in Nat \ {0}
      BY <1>1 DEF ReaderStates
    <3>. HIDE DEF q
    <3>. QED
      BY <1>1, <2>3, <3>1 DEF ReaderStates
  <2>5. q.at \in Nat /\ p.at - 1 = q.at
    BY <1>1, <2>4 DEF ReaderStates
  <2>. HIDE DEF p
  <2>6. ScanOf(lines, p)
    BY <2>3, <2>4, <2>5 DEF ScanOf
  <2>. QED
    BY <1>1, <2>2, <2>4, <2>6, OneReadMoves
<1>. QED
  BY <1>2, <1>3

\* The answer is the window from its end, as far as the limit.
LEMMA ShownFacts ==
    ASSUME NEW w \in Seq(Events), NEW limit \in Nat,
           NEW k, k = Smaller(limit, Len(w))
    PROVE  /\ k \in Nat /\ k <= limit /\ k <= Len(w)
           /\ Shown(w, limit) \in Seq(Events) /\ Len(Shown(w, limit)) = k
           /\ DOMAIN Shown(w, limit) = 1..k
           /\ \A i \in 1..k : /\ Len(w) - i + 1 \in 1..Len(w)
                              /\ Shown(w, limit)[i] = w[Len(w) - i + 1]
<1>. DEFINE n == Len(w)
            back == Reverse(w)
<1>1. n \in Nat /\ \A i \in 1..n : n - i + 1 \in 1..n /\ w[n - i + 1] \in Events
  <2>1. n \in Nat /\ \A i \in 1..n : w[i] \in Events
    BY ElementOfSeq
  <2>2. \A i \in 1..n : n - i + 1 \in 1..n
    BY <2>1
  <2>. QED
    BY <2>1, <2>2
<1>2. back \in Seq(Events) /\ Len(back) = n /\ \A i \in 1..n : back[i] = w[n - i + 1]
  <2>1. back = [i \in 1..n |-> w[n - i + 1]]
    BY DEF Reverse
  <2>2. back \in [1..n -> Events]
    BY <1>1, <2>1
  <2>3. back \in Seq(Events)
    BY <1>1, <2>2, IsASeq
  <2>. QED
    BY <1>1, <2>1, <2>3, LenProperties
<1>3. k \in Nat /\ k <= limit /\ k <= n
  BY <1>1, SmallerFacts
<1>4. Shown(w, limit) = SubSeq(back, 1, k)
  BY DEF Shown
<1>. HIDE DEF n, back
<1>5. k <= Len(back) /\ \A i \in 1..k : i \in 1..n
  BY <1>1, <1>2, <1>3
<1>6. /\ SubSeq(back, 1, k) \in Seq(Events) /\ Len(SubSeq(back, 1, k)) = k
      /\ DOMAIN SubSeq(back, 1, k) = 1..k
      /\ \A i \in 1..k : SubSeq(back, 1, k)[i] = back[i]
  BY <1>2, <1>3, <1>5, PrefixFacts
<1>7. \A i \in 1..k : Shown(w, limit)[i] = w[n - i + 1] /\ n - i + 1 \in 1..n
  BY <1>1, <1>2, <1>4, <1>5, <1>6
<1>. QED
  BY <1>3, <1>4, <1>6, <1>7 DEF n

LEMMA ReadAnswers ==
    ASSUME ReadInv, NEW r \in Readers, Answer(r)
    PROVE  ReadInv'
<1>. DEFINE q == reader[r]
            answer == Shown(q.window, q.limit)
            p == [q EXCEPT !.pc = "done", !.window = <<>>, !.answer = answer]
<1>1. q \in ReaderStates /\ lines' = lines
  BY DEF ReadInv, Answer
<1>2. reader' = [reader EXCEPT ![r].pc = "done", ![r].window = <<>>, ![r].answer = answer]
  BY DEF Answer
<1>3. reader' = [reader EXCEPT ![r] = p]
  BY <1>2 DEF ReadInv
<1>4. answer \in Seq(Events)
  <2>1. q.window \in Seq(Events) /\ q.limit \in Nat
    BY <1>1 DEF ReaderStates
  <2>. QED
    BY <2>1, ShownFacts
<1>. HIDE DEF answer
<1>5. p \in ReaderStates /\ p.pc # "scan"
  BY <1>1, <1>4, EmptySeq DEF ReaderStates
<1>. HIDE DEF p
<1>. QED
  BY <1>1, <1>3, <1>5, OneReadMoves

LEMMA ReadResponds ==
    ASSUME ReadInv, NEW r \in Readers, Respond(r)
    PROVE  ReadInv'
<1>1. reader' = [reader EXCEPT ![r] = Idle] /\ lines' = lines
  BY DEF Respond
<1>. QED
  BY <1>1, IdleFacts, OneReadMoves

\* Nothing is written while a read scans.
LEMMA ReadUntouched ==
    ASSUME ReadInv, ~Held, reader' = reader
    PROVE  ReadInv'
BY DEF ReadInv, ScanIsNewest, Held
-----------------------------------------------------------------------------
(* The theorems. *)

LEMMA LogInvParts ==
    LogInv <=> FileInv /\ ReadInv /\ clearing \subseteq Admins
BY Zenon DEF LogInv, LogTypeOK, FileInv, FileTypes, ReadInv, ReaderStates

LEMMA LogInit == Init => LogInv
<1>. SUFFICES ASSUME Init PROVE LogInv
  OBVIOUS
<1>1. FileInv
  BY EmptyFile DEF Init
<1>2. reader \in [Readers -> ReaderStates] /\ \A r \in Readers : reader[r].pc = "idle"
  BY IdleFacts DEF Init
<1>. QED
  BY <1>1, <1>2, LogInvParts DEF Init, ReadInv, ScanIsNewest

\* Every step keeps the invariant: a write and a clearing move the file and find
\* no read half way, a read moves on alone.
LEMMA LogStep == LogInv /\ [Next]_vars => LogInv'
<1>. SUFFICES ASSUME LogInv, [Next]_vars PROVE LogInv'
  OBVIOUS
<1>0. FileInv /\ ReadInv /\ clearing \subseteq Admins /\ LogTypeOK
  BY LogInvParts, Zenon DEF LogInv
<1>. SUFFICES FileInv' /\ ReadInv' /\ clearing' \subseteq Admins
  <2>1. LogInv' <=> FileInv' /\ ReadInv' /\ clearing' \subseteq Admins
    BY Zenon DEF LogInv, LogTypeOK, FileInv, FileTypes, ReadInv, ReaderStates
  <2>. QED
    BY <2>1
<1>1. ASSUME NEW kind \in Kinds, NEW whole \in BOOLEAN, Record(kind, whole)
      PROVE  FileInv' /\ ReadInv' /\ clearing' \subseteq Admins
  <2>1. FileInv' /\ ~Held
    BY <1>0, <1>1, FileAfterWrite DEF Record
  <2>. QED
    BY <1>0, <1>1, <2>1, ReadUntouched DEF Record
<1>2. ASSUME NEW a \in Admins, Clear(a)
      PROVE  FileInv' /\ ReadInv' /\ clearing' \subseteq Admins
  <2>1. FileInv' /\ ~Held
    BY <1>0, <1>2, ClearedFile
  <2>. QED
    BY <1>0, <1>2, <2>1, ReadUntouched DEF Clear
<1>3. ASSUME NEW a \in Admins, NEW whole \in BOOLEAN, RecordClear(a, whole)
      PROVE  FileInv' /\ ReadInv' /\ clearing' \subseteq Admins
  <2>1. FileInv' /\ ~Held
    BY <1>0, <1>3, FileAfterWrite, LogAssumption DEF RecordClear
  <2>. QED
    BY <1>0, <1>3, <2>1, ReadUntouched DEF RecordClear
<1>4. ASSUME NEW r \in Readers,
             \/ \E asked \in AskedLimits, kind \in Kinds \cup {AnyKind} : StartRead(r, asked, kind)
             \/ ScanLine(r) \/ Answer(r) \/ Respond(r)
      PROVE  FileInv' /\ ReadInv' /\ clearing' \subseteq Admins
  <2>1. UNCHANGED <<lines, open, clearing, count, failures, written>>
    BY <1>4 DEF StartRead, ScanLine, Answer, Respond
  <2>2. FileInv' /\ clearing' \subseteq Admins
    BY <1>0, <2>1, FileUntouched
  <2>. QED
    BY <1>0, <1>4, <2>2, ReadStarts, ReadScans, ReadAnswers, ReadResponds
<1>5. ASSUME UNCHANGED vars
      PROVE  FileInv' /\ ReadInv' /\ clearing' \subseteq Admins
  BY <1>0, <1>5, FileUntouched DEF vars, ReadInv, ScanIsNewest
<1>. QED
  BY <1>1, <1>2, <1>3, <1>4, <1>5 DEF Next

\* The inductive invariant holds in every behaviour of the log.
THEOREM LogInvariant == Spec => []LogInv
BY LogInit, LogStep, PTL DEF Spec

\* The types of the log store's state, whatever is written, read and cleared.
THEOREM LogTypesAlwaysOK == Spec => []LogTypeOK
<1>1. LogInv => LogTypeOK
  BY DEF LogInv
<1>. QED
  BY <1>1, LogInvariant, PTL

\* logstore.go:75 Append and the Record that swallows its error: a write that
\* fails costs its own event and at most the next one.
THEOREM FailureAlwaysCostsAtMostNext == Spec => []FailureCostsAtMostNext
<1>1. LogInv => FailureCostsAtMostNext
  BY DEF LogInv, FileKeepsWritten, Safe, FailureCostsAtMostNext
<1>. QED
  BY <1>1, LogInvariant, PTL

\* How a scan ends.
LEMMA ScanEnds ==
    ASSUME LogInv, [Next]_vars, NEW r \in Readers, reader[r].pc = "scan"
    PROVE  /\ reader'[r].pc = "done" => Answer(r)
           /\ reader'[r].pc = "failed" => ScanLine(r) /\ TooLong(lines[reader[r].at])
<1>0. reader \in [Readers -> ReaderStates]
  BY LogInvParts DEF ReadInv
<1>1. CASE reader' = reader
  BY <1>1
<1>2. ASSUME NEW s \in Readers, s # r,
             \E q : reader' = [reader EXCEPT ![s] = q]
      PROVE  reader'[r].pc = "scan"
  BY <1>0, <1>2
<1>3. ASSUME NEW s \in Readers, s # r,
             \/ \E asked \in AskedLimits, kind \in Kinds \cup {AnyKind} : StartRead(s, asked, kind)
             \/ ScanLine(s) \/ Answer(s) \/ Respond(s)
      PROVE  reader'[r] = reader[r]
  <2>1. CASE \E asked \in AskedLimits, kind \in Kinds \cup {AnyKind} : StartRead(s, asked, kind)
    BY <1>0, <1>3, <2>1 DEF StartRead
  <2>2. CASE ScanLine(s)
    BY <1>0, <1>3, <2>2 DEF ScanLine
  <2>3. CASE Answer(s)
    BY <1>0, <1>3, <2>3 DEF Answer
  <2>4. CASE Respond(s)
    BY <1>0, <1>3, <2>4 DEF Respond
  <2>. QED
    BY <1>3, <2>1, <2>2, <2>3, <2>4
<1>4. CASE ScanLine(r)
  <2>1. CASE TooLong(lines[reader[r].at])
    <3>1. reader' = [reader EXCEPT ![r].pc = "failed", ![r].window = <<>>]
      BY <1>4, <2>1 DEF ScanLine
    <3>2. reader'[r].pc = "failed"
      BY <1>0, <3>1 DEF ReaderStates
    <3>. QED
      BY <1>4, <2>1, <3>2
  <2>2. CASE ~TooLong(lines[reader[r].at])
    <3>1. \E w : reader' = [reader EXCEPT ![r].at = @ + 1, ![r].window = w]
      BY <1>0, <1>4, <2>2 DEF ScanLine
    <3>2. reader'[r].pc = "scan"
      BY <1>0, <3>1 DEF ReaderStates
    <3>. QED
      BY <3>2
  <2>. QED
    BY <2>1, <2>2
<1>5. CASE Answer(r)
  <2>1. \E a : reader' = [reader EXCEPT ![r].pc = "done", ![r].window = <<>>, ![r].answer = a]
    BY <1>5 DEF Answer
  <2>2. reader'[r].pc = "done"
    BY <1>0, <2>1 DEF ReaderStates
  <2>. QED
    BY <1>5, <2>2
<1>6. ~Respond(r) /\ \A asked, kind : ~StartRead(r, asked, kind)
  BY DEF Respond, StartRead
<1>7. \/ reader' = reader
      \/ \E s \in Readers :
            \/ \E asked \in AskedLimits, kind \in Kinds \cup {AnyKind} : StartRead(s, asked, kind)
            \/ ScanLine(s) \/ Answer(s) \/ Respond(s)
  BY DEF Next, vars, Record, Clear, RecordClear
<1>. QED
  BY <1>1, <1>3, <1>4, <1>5, <1>6, <1>7

LEMMA AnswerLeavesOutOlder ==
    ASSUME NEW w \in Seq(Events), NEW held, NEW limit \in Nat, Newest(w, held, limit),
           NEW answer, answer = Shown(w, limit)
    PROVE  NewestOf(answer, held, limit)
<1>. DEFINE n == Len(w)
            k == Smaller(limit, n)
<1>0. k = Smaller(limit, Len(w))
  OBVIOUS
<1>1. /\ n \in Nat /\ DOMAIN w = 1..n /\ k \in Nat /\ k <= limit /\ k <= n
      /\ Len(answer) = k /\ DOMAIN answer = 1..k
      /\ \A i \in 1..k : n - i + 1 \in 1..n /\ answer[i] = w[n - i + 1]
  <2>1. n \in Nat /\ DOMAIN w = 1..n
    BY LenProperties
  <2>. HIDE DEF k
  <2>2. /\ k \in Nat /\ k <= limit /\ k <= Len(w)
        /\ Shown(w, limit) \in Seq(Events) /\ Len(Shown(w, limit)) = k
        /\ DOMAIN Shown(w, limit) = 1..k
        /\ \A i \in 1..k : Len(w) - i + 1 \in 1..Len(w) /\ Shown(w, limit)[i] = w[Len(w) - i + 1]
    BY <1>0, ShownFacts
  <2>. QED
    BY <2>1, <2>2
<1>2. (k = limit \/ k = n) /\ (n >= limit => k = limit)
  BY <1>1 DEF Smaller
<1>3. /\ \A i \in 1..n : w[i] \in held /\ w[i] \in Events /\ w[i].id \in Nat
      /\ \A i, j \in 1..n : i < j => w[i].id < w[j].id
      /\ \A x \in held : (\E i \in 1..n : w[i] = x) \/ (n >= limit /\ \A i \in 1..n : x.id < w[i].id)
  <2>1. \A i \in 1..n : w[i] \in Events
    BY ElementOfSeq
  <2>2. ASSUME NEW e \in Events PROVE e.id \in Nat
    BY DEF Events
  <2>. QED
    BY <1>1, <2>1, <2>2 DEF Newest
<1>. HIDE DEF n, k
<1>4. \A i \in 1..k : answer[i] \in held
  BY <1>1, <1>3
<1>5. ASSUME NEW i \in 1..k, NEW j \in 1..k, i < j PROVE answer[i].id > answer[j].id
  <2>1. n - j + 1 < n - i + 1 /\ n - j + 1 \in 1..n /\ n - i + 1 \in 1..n
    BY <1>1, <1>5
  <2>2. w[n - j + 1].id < w[n - i + 1].id /\ w[n - j + 1].id \in Nat /\ w[n - i + 1].id \in Nat
    BY <1>3, <2>1
  <2>. QED
    BY <1>1, <2>2
<1>6. ASSUME NEW e \in held, \A i \in 1..k : answer[i] # e
      PROVE  k = limit /\ \A i \in 1..k : answer[i].id > e.id
  <2>1. CASE n >= limit /\ \A i \in 1..n : e.id < w[i].id
    <3>1. \A i \in 1..k : e.id < answer[i].id
      BY <1>1, <2>1
    <3>2. ASSUME NEW i \in 1..k PROVE answer[i].id > e.id
      BY <3>1
    <3>. QED
      BY <1>2, <2>1, <3>2
  <2>2. ASSUME NEW m \in 1..n, w[m] = e
        PROVE  k = limit /\ \A i \in 1..k : answer[i].id > e.id
    <3>1. m <= n - k
      <4>1. CASE m > n - k
        <5>1. n - m + 1 \in 1..k /\ n - (n - m + 1) + 1 = m
          BY <1>1, <4>1
        <5>2. answer[n - m + 1] = w[m]
          BY <1>1, <5>1
        <5>. QED
          BY <1>6, <2>2, <5>1, <5>2
      <4>. QED
        BY <1>1, <4>1
    <3>2. k = limit
      BY <1>1, <1>2, <3>1
    <3>3. ASSUME NEW i \in 1..k PROVE answer[i].id > e.id
      <4>1. m < n - i + 1 /\ n - i + 1 \in 1..n
        BY <1>1, <3>1
      <4>2. w[m].id < w[n - i + 1].id /\ w[m].id \in Nat /\ w[n - i + 1].id \in Nat
        BY <1>3, <4>1
      <4>. QED
        BY <1>1, <2>2, <4>2
    <3>. QED
      BY <3>2, <3>3
  <2>. QED
    BY <1>3, <2>1, <2>2
<1>7. Range(answer) = {answer[i] : i \in 1..k}
  BY <1>1 DEF Range
<1>8. Range(answer) \subseteq held
  BY <1>4, <1>7
<1>9. \A e \in held \ Range(answer) : \A i \in 1..k : answer[i] # e
  BY <1>7
<1>10. \A e \in held \ Range(answer) : k = limit /\ \A i \in 1..k : answer[i].id > e.id
  BY <1>6, <1>9
<1>. QED
  BY <1>1, <1>5, <1>8, <1>10, Zenon DEF NewestOf

LEMMA ScanAtEnd ==
    ASSUME LogInv, NEW r \in Readers, Answer(r)
    PROVE  /\ reader[r] \in ReaderStates /\ reader[r].at - 1 = Len(lines)
           /\ ScanOf(lines, reader[r])
<1>1. FileInv /\ ReadInv
  BY LogInvParts
<1>2. reader[r] \in ReaderStates /\ ScanOf(lines, reader[r]) /\ reader[r].at > Len(lines)
  BY <1>1 DEF ReadInv, ScanIsNewest, Answer
<1>3. Len(lines) \in Nat /\ reader[r].at \in Nat /\ reader[r].at <= Len(lines) + 1
  BY <1>1, <1>2 DEF FileInv, FileTypes, ReaderStates, ScanOf
<1>. QED
  BY <1>2, <1>3

\* logstore.go:103 Read: whatever the file holds, however often the window was
\* cut, the answer is the newest of the matching events, newest first.
THEOREM AnswerIsAlwaysNewest == Spec => AnswerIsNewest
<1>1. ASSUME LogInv, [Next]_vars, NEW r \in Readers, reader[r].pc = "scan", reader'[r].pc = "done"
      PROVE  NewestOf(reader'[r].answer,
                      HeldIn(lines, Len(lines), reader[r].kind), reader[r].limit)
  <2>. DEFINE q == reader[r]
              answer == Shown(q.window, q.limit)
              held == HeldIn(lines, Len(lines), q.kind)
  <2>1. Answer(r)
    BY <1>1, ScanEnds
  <2>2. q \in ReaderStates /\ q.at - 1 = Len(lines) /\ ScanOf(lines, q)
    BY <1>1, <2>1, ScanAtEnd
  <2>3. reader'[r].answer = answer
    <3>1. reader' = [reader EXCEPT ![r].pc = "done", ![r].window = <<>>, ![r].answer = answer]
      BY <2>1 DEF Answer
    <3>2. reader \in [Readers -> ReaderStates]
      BY <1>1, LogInvParts DEF ReadInv
    <3>. HIDE DEF answer
    <3>. QED
      BY <3>1, <3>2 DEF ReaderStates
  <2>4. q.window \in Seq(Events) /\ q.limit \in Nat /\ Newest(q.window, held, q.limit)
    BY <2>2 DEF ReaderStates, ScanOf
  <2>5. NewestOf(answer, held, q.limit)
    <3>1. answer = Shown(q.window, q.limit)
      OBVIOUS
    <3>. HIDE DEF held, answer
    <3>. QED
      BY <2>4, <3>1, AnswerLeavesOutOlder
  <2>. HIDE DEF answer, held
  <2>. QED
    BY <2>3, <2>5 DEF held
<1>2. LogInv /\ [Next]_vars =>
         [\A r \in Readers :
             (reader[r].pc = "scan" /\ reader'[r].pc = "done") =>
                NewestOf(reader'[r].answer,
                         HeldIn(lines, Len(lines), reader[r].kind), reader[r].limit)]_vars
  BY <1>1
<1>. QED
  BY <1>2, LogInvariant, PTL DEF Spec, AnswerIsNewest

\* bufio.Scanner's limit on a line: an event that reaches it makes every read
\* fail, and without a failed write nothing else does.
THEOREM LongEventAlwaysBlocksReading == Spec => LongEventBlocksReading
<1>1. ASSUME LogInv, [Next]_vars, NEW r \in Readers, reader[r].pc = "scan"
      PROVE  /\ reader'[r].pc = "done" => ~LongWritten
             /\ reader'[r].pc = "failed" => LongWritten \/ WriteFailed
  <2>1. FileInv /\ ReadInv /\ MaxToken \in Nat
    BY <1>1, LogInvParts, LogAssumption
  <2>2. lines \in Seq(Lines) /\ Len(lines) \in Nat /\ DOMAIN lines = 1..Len(lines)
    BY <2>1, LenProperties DEF FileInv, FileTypes
  <2>3. \A i \in DOMAIN written : Length[written[i].event.kind] \in Nat
    <3>1. \A i \in DOMAIN written : written[i] \in [event : Events, whole : BOOLEAN]
      BY <2>1, ElementOfSeq, LenProperties DEF FileInv, FileTypes
    <3>2. ASSUME NEW x \in [event : Events, whole : BOOLEAN] PROVE x.event.kind \in Kinds
      BY DEF Events
    <3>. QED
      BY <3>1, <3>2, LengthFacts
  <2>4. \A j \in DOMAIN lines : lines[j].length \in Nat
    <3>1. \A j \in DOMAIN lines : lines[j] \in Lines
      BY <2>2, ElementOfSeq
    <3>2. ASSUME NEW l \in Lines PROVE l.length \in Nat
      BY DEF Lines
    <3>. QED
      BY <3>1, <3>2
  <2>5. ASSUME reader'[r].pc = "done", LongWritten PROVE FALSE
    <3>1. \A j \in DOMAIN lines : ~TooLong(lines[j])
      <4>1. reader[r].at - 1 = Len(lines) /\ ScanOf(lines, reader[r])
        BY <1>1, <2>5, ScanEnds, ScanAtEnd
      <4>. QED
        BY <2>2, <4>1 DEF ScanOf
    <3>2. PICK i \in DOMAIN written : written[i].whole /\ Length[written[i].event.kind] >= MaxToken
      BY <2>5 DEF LongWritten
    <3>3. PICK j \in DOMAIN lines : lines[j].length >= Length[written[i].event.kind]
      BY <2>1, <3>2 DEF FileInv, LengthsFromWritten
    <3>. QED
      BY <2>1, <2>3, <2>4, <3>1, <3>2, <3>3 DEF TooLong
  <2>6. ASSUME reader'[r].pc = "failed", ~WriteFailed PROVE LongWritten
    <3>. DEFINE j == reader[r].at
    <3>1. ScanLine(r) /\ TooLong(lines[j])
      BY <1>1, <2>6, ScanEnds
    <3>2. j \in DOMAIN lines
      <4>1. j \in Nat \ {0} /\ j <= Len(lines)
        BY <2>1, <3>1 DEF ScanLine, ReadInv, ReaderStates
      <4>. QED
        BY <2>2, <4>1
    <3>. HIDE DEF j
    <3>3. PICK i \in DOMAIN written : written[i].whole /\ lines[j].length = Length[written[i].event.kind]
      BY <2>1, <2>6, <3>2 DEF FileInv, LengthsFromWritten
    <3>. QED
      BY <3>1, <3>3 DEF TooLong, LongWritten
  <2>. QED
    BY <2>5, <2>6
<1>2. LogInv /\ [Next]_vars =>
         [\A r \in Readers : reader[r].pc = "scan" =>
             /\ reader'[r].pc = "done" => ~LongWritten
             /\ reader'[r].pc = "failed" => LongWritten \/ WriteFailed]_vars
  BY <1>1
<1>. QED
  BY <1>2, LogInvariant, PTL DEF Spec, LongEventBlocksReading
=============================================================================
