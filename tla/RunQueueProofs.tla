--------------------------- MODULE RunQueueProofs ---------------------------
(***************************************************************************)
(* What RunQueue promises for every set of runs and every line length.     *)
(*                                                                         *)
(* The inductive invariant is about the geometry of the two files: lines   *)
(* lie end to end, everything the cursor has passed is retired or was      *)
(* appended behind a stale cursor, and unless the cursor is stale it stands *)
(* at the start of a line or at the end, outside the two windows in which  *)
(* the log is gone and the cursor not yet rewound.                         *)
(***************************************************************************)
EXTENDS RunQueue, FiniteSetTheorems, TLAPS

LinesEndToEnd ==
  /\ log # <<>> => log[1].at = 0
  /\ \A i \in 1..(Len(log) - 1) : log[i + 1].at = EndOf(log[i])
  /\ \A i, j \in 1..Len(log) : i < j => EndOf(log[i]) <= log[j].at

CursorAtLine == cursor = LogSize \/ \E i \in 1..Len(log) : log[i].at = cursor

CursorPlaced ==
  ~stale => CursorAtLine \/ (host \in {"compacting", "wiping"} /\ log = <<>>)

PassedIsRetired ==
  ~stale => \A i \in 1..Len(log) : log[i].at < cursor => log[i].run \in acked \cup wiped

PassedIsLost ==
  \A i \in 1..Len(log) : log[i].at < cursor => log[i].run \in acked \cup wiped \cup hidden

Logged == {log[i].run : i \in 1..Len(log)}

ReportedIsLogged == reported \ unsynced \subseteq Logged \cup acked \cup wiped \cup hidden

IInv ==
  /\ TypeOK
  /\ LinesEndToEnd
  /\ CursorPlaced
  /\ PassedIsRetired
  /\ PassedIsLost
  /\ ReportedIsLogged

-----------------------------------------------------------------------------
LEMMA EndOfType ==
  ASSUME NEW e \in Lines
  PROVE  EndOf(e) \in Nat /\ EndOf(e) > e.at
BY ConstantsAssumption DEF EndOf, Lines

LEMMA LineFields ==
  ASSUME log \in Seq(Lines), NEW i \in DOMAIN log
  PROVE  log[i].run \in Runs /\ log[i].at \in Nat
<1>1. log[i] \in Lines
  OBVIOUS
<1>2. QED
  BY <1>1 DEF Lines

LEMMA LogSizeType ==
  ASSUME TypeOK
  PROVE  LogSize \in Nat
<1>1. CASE log = <<>>
  BY <1>1 DEF LogSize
<1>2. CASE log # <<>>
  <2>1. Len(log) \in 1..Len(log)
    BY <1>2 DEF TypeOK
  <2>2. log[Len(log)] \in Lines
    BY <2>1 DEF TypeOK
  <2>3. QED
    BY <1>2, <2>2, EndOfType DEF LogSize
<1>3. QED
  BY <1>1, <1>2

(* No line reaches past the end of the file. *)
LEMMA LinesWithinLog ==
  ASSUME TypeOK, LinesEndToEnd, NEW i \in 1..Len(log)
  PROVE  log[i] \in Lines /\ EndOf(log[i]) <= LogSize
<1>1. log[i] \in Lines /\ log # <<>> /\ log[Len(log)] \in Lines /\ Len(log) \in 1..Len(log)
  BY DEF TypeOK
<1>2. LogSize = EndOf(log[Len(log)])
  BY <1>1 DEF LogSize
<1>3. CASE i = Len(log)
  BY <1>1, <1>2, <1>3, EndOfType
<1>4. CASE i < Len(log)
  <2>1. EndOf(log[i]) <= log[Len(log)].at
    BY <1>1, <1>4 DEF LinesEndToEnd
  <2>2. log[Len(log)].at < EndOf(log[Len(log)])
    BY <1>1, EndOfType
  <2>3. QED
    BY <1>1, <1>2, <2>1, <2>2, EndOfType DEF Lines
<1>5. QED
  BY <1>3, <1>4 DEF TypeOK

LEMMA TypeInit == Init => TypeOK
<1> SUFFICES ASSUME Init PROVE TypeOK
  OBVIOUS
<1>1. kept \in BOOLEAN /\ stale \in BOOLEAN
  BY DEF Init
<1>2. /\ log \in Seq(Lines) /\ cursor \in Nat /\ writing \in Runs \cup {NoRun}
      /\ host \in HostPoints
  BY DEF Init, HostPoints
<1>3. QED
  BY <1>1, <1>2 DEF Init, TypeOK

LEMMA TypeStep == TypeOK /\ [Next]_vars => TypeOK'
<1> SUFFICES ASSUME TypeOK, [Next]_vars PROVE TypeOK'
  OBVIOUS
<1> USE ConstantsAssumption DEF TypeOK, files, history
<1>1. ASSUME NEW r \in Runs, AppendOpen(r) PROVE TypeOK'
  BY <1>1 DEF AppendOpen
<1>2. CASE AppendSynced
  <2>1. writing \in Runs /\ Line(writing, LogSize) \in Lines
    BY <1>2, LogSizeType DEF AppendSynced, LogOpen, Line, Lines
  <2>2. log' \in Seq(Lines)
    BY <1>2, <2>1 DEF AppendSynced
  <2>3. QED
    BY <1>2, <2>1, <2>2 DEF AppendSynced
<1>3. CASE AppendShortWrite
  BY <1>3 DEF AppendShortWrite
<1>4. CASE AppendNotFlushed
  BY <1>4 DEF AppendNotFlushed, LogOpen
<1>5. ASSUME NEW id \in Runs, AckHead(id) PROVE TypeOK'
  BY <1>5 DEF AckHead, NextHead, HostPoints
<1>6. CASE UNCHANGED vars
  BY <1>6 DEF vars
<1>13. CASE \E id \in Runs : AckIgnored(id) \/ AckNotStored(id)
  BY <1>6, <1>13 DEF AckIgnored, AckNotStored
<1>14. Unlink => log' \in Seq(Lines) /\ kept' \in BOOLEAN
  <2>1. Unlink => (log' = log \/ log' = <<>>) /\ kept' \in BOOLEAN
    BY DEF Unlink
  <2>2. <<>> \in Seq(Lines)
    OBVIOUS
  <2>3. QED
    BY <2>1, <2>2
<1>7. CASE CompactUnlink
  BY <1>7, <1>14 DEF CompactUnlink, HostPoints
<1>8. CASE CompactNotDrained
  BY <1>8 DEF CompactNotDrained, HostPoints
<1>9. CASE CompactRewind
  BY <1>9 DEF CompactRewind, Rewind, HostPoints
<1>10. CASE WipeLog
  <2>1. Pending \subseteq Runs
    BY LineFields DEF Pending, Unacked
  <2>2. log' \in Seq(Lines) /\ kept' \in BOOLEAN
    BY <1>10, <1>14 DEF WipeLog
  <2>3. QED
    BY <1>10, <2>1, <2>2 DEF WipeLog, HostPoints
<1>11. CASE WipeCursor
  BY <1>11 DEF WipeCursor, HostPoints
<1>12. CASE CompactRewindFails \/ WipeCursorFails \/ PowerLoss
  BY <1>12 DEF CompactRewindFails, WipeCursorFails, PowerLoss, OffsetStays, HostPoints
<1>15. QED
  BY <1>1, <1>2, <1>3, <1>4, <1>5, <1>6, <1>7, <1>8, <1>9, <1>10, <1>11, <1>12, <1>13 DEF Next

(* Type correctness, whatever may fail. *)
THEOREM TypeCorrect == Spec => []TypeOK
BY TypeInit, TypeStep, PTL DEF Spec

-----------------------------------------------------------------------------
(* Appending a line at the end of the file keeps the geometry. *)
LEMMA AppendLine ==
  ASSUME TypeOK, LinesEndToEnd, NEW r \in Runs,
         log' = Append(log, Line(r, LogSize))
  PROVE  /\ Len(log') = Len(log) + 1
         /\ \A i \in 1..Len(log) : log'[i] = log[i]
         /\ log'[Len(log) + 1] = Line(r, LogSize)
         /\ LogSize' = EndOf(Line(r, LogSize))
         /\ LinesEndToEnd'
<1>1. Line(r, LogSize) \in Lines /\ Line(r, LogSize).at = LogSize
  BY LogSizeType DEF Line, Lines
<1>2. log \in Seq(Lines) /\ Len(log) \in Nat
  BY DEF TypeOK
<1>3. /\ Len(log') = Len(log) + 1
      /\ \A i \in 1..Len(log) : log'[i] = log[i]
      /\ log'[Len(log) + 1] = Line(r, LogSize)
  BY <1>1, <1>2
<1>4. log' # <<>>
  BY <1>2, <1>3
<1>5. LogSize' = EndOf(Line(r, LogSize))
  BY <1>3, <1>4 DEF LogSize, EndOf
<1>6. log'[1].at = 0
  <2>1. CASE log = <<>>
    BY <2>1, <1>1, <1>3 DEF LogSize
  <2>2. CASE log # <<>>
    <3>1. 1 \in 1..Len(log)
      BY <2>2, <1>2
    <3>2. QED
      BY <2>2, <3>1, <1>3 DEF LinesEndToEnd
  <2>3. QED
    BY <2>1, <2>2
<1>7. \A i \in 1..Len(log) : EndOf(log'[i]) = EndOf(log[i]) /\ EndOf(log[i]) <= LogSize
  BY <1>3, LinesWithinLog
<1>8. ASSUME NEW i \in 1..(Len(log') - 1)
      PROVE  log'[i + 1].at = EndOf(log'[i])
  <2>1. CASE i = Len(log)
    <3>1. log # <<>> /\ LogSize = EndOf(log[i])
      BY <2>1, <1>2 DEF LogSize
    <3>2. QED
      BY <2>1, <3>1, <1>1, <1>3, <1>7
  <2>2. CASE i < Len(log)
    <3>1. i \in 1..(Len(log) - 1) /\ i \in 1..Len(log) /\ i + 1 \in 1..Len(log)
      BY <2>2, <1>2
    <3>2. log[i + 1].at = EndOf(log[i])
      BY <3>1 DEF LinesEndToEnd
    <3>3. QED
      BY <3>1, <3>2, <1>3, <1>7
  <2>3. QED
    BY <2>1, <2>2, <1>2, <1>3
<1>9. ASSUME NEW i \in 1..Len(log'), NEW j \in 1..Len(log'), i < j
      PROVE  EndOf(log'[i]) <= log'[j].at
  <2>1. i \in 1..Len(log)
    BY <1>2, <1>3, <1>9
  <2>2. CASE j = Len(log) + 1
    BY <2>1, <2>2, <1>1, <1>3, <1>7
  <2>3. CASE j \in 1..Len(log)
    BY <2>1, <2>3, <1>3, <1>7, <1>9 DEF LinesEndToEnd
  <2>4. QED
    BY <2>2, <2>3, <1>2, <1>3
<1>10. LinesEndToEnd'
  <2>1. \A i \in 1..(Len(log') - 1) : log'[i + 1].at = (EndOf(log[i]))'
    BY <1>8 DEF EndOf
  <2>2. \A i, j \in 1..Len(log') : i < j => (EndOf(log[i]))' <= log'[j].at
    BY <1>9 DEF EndOf
  <2>3. QED
    BY <1>6, <2>1, <2>2 DEF LinesEndToEnd
<1>11. QED
  BY <1>3, <1>5, <1>10

-----------------------------------------------------------------------------
LEMMA IInvInit == Init => IInv
<1> SUFFICES ASSUME Init PROVE IInv
  OBVIOUS
<1>1. log = <<>> /\ Len(log) = 0 /\ cursor = 0 /\ reported = {}
  BY DEF Init
<1>2. LogSize = 0
  BY <1>1 DEF LogSize
<1>3. LinesEndToEnd /\ CursorPlaced /\ PassedIsRetired /\ PassedIsLost /\ ReportedIsLogged
  BY <1>1, <1>2 DEF LinesEndToEnd, CursorPlaced, CursorAtLine, PassedIsRetired, PassedIsLost, ReportedIsLogged
<1>4. QED
  BY <1>3, TypeInit DEF IInv

(* A step that leaves the log alone keeps what is only about the log. *)
LEMMA SameLog ==
  ASSUME LinesEndToEnd, log' = log
  PROVE  LinesEndToEnd' /\ LogSize' = LogSize
BY DEF LinesEndToEnd, LogSize, EndOf

LEMMA CursorWithinLog ==
  ASSUME TypeOK, LinesEndToEnd, CursorAtLine
  PROVE  cursor <= LogSize
<1>1. CASE cursor = LogSize
  BY <1>1, LogSizeType
<1>2. CASE \E i \in 1..Len(log) : log[i].at = cursor
  <2>1. PICK i \in 1..Len(log) : log[i].at = cursor
    BY <1>2
  <2>2. log[i] \in Lines /\ EndOf(log[i]) <= LogSize /\ EndOf(log[i]) > log[i].at
    BY LinesWithinLog, EndOfType
  <2> QED
    BY <2>1, <2>2, LogSizeType, EndOfType DEF Lines
<1> QED
  BY <1>1, <1>2 DEF CursorAtLine

LEMMA KeepAppend ==
  ASSUME IInv, TypeOK', AppendSynced
  PROVE  IInv'
<1> USE DEF IInv
<1>1. writing \in Runs /\ log' = Append(log, Line(writing, LogSize))
  BY DEF AppendSynced, LogOpen, TypeOK
<1>2. /\ Len(log') = Len(log) + 1
      /\ \A i \in 1..Len(log) : log'[i] = log[i]
      /\ log'[Len(log) + 1] = Line(writing, LogSize)
      /\ LogSize' = EndOf(Line(writing, LogSize))
      /\ LinesEndToEnd'
  BY <1>1, AppendLine
<1>3. /\ Len(log) \in Nat /\ cursor \in Nat
      /\ host' = host /\ host = "idle" /\ cursor' = cursor /\ stale' = stale
      /\ acked' = acked /\ wiped' = wiped /\ unsynced' = unsynced
      /\ reported' = reported \cup {writing}
      /\ hidden' = IF stale /\ LogSize < cursor THEN hidden \cup {writing} ELSE hidden
  BY DEF TypeOK, AppendSynced
<1>4. log'[Len(log) + 1].at = LogSize /\ log'[Len(log) + 1].run = writing
  BY <1>2 DEF Line
<1>5. ~stale => CursorAtLine
  BY <1>3 DEF CursorPlaced
<1>6. CursorPlaced'
  <2> SUFFICES ASSUME ~stale PROVE CursorAtLine'
    BY <1>3 DEF CursorPlaced
  <2>1. CASE cursor = LogSize
    <3>1. Len(log) + 1 \in 1..Len(log')
      BY <1>2, <1>3
    <3>2. QED
      BY <2>1, <3>1, <1>2, <1>3, <1>4 DEF CursorAtLine
  <2>2. CASE \E i \in 1..Len(log) : log[i].at = cursor
    <3>1. PICK i \in 1..Len(log) : log[i].at = cursor
      BY <2>2
    <3>2. i \in 1..Len(log') /\ log'[i].at = cursor'
      BY <3>1, <1>2, <1>3
    <3>3. QED
      BY <3>2 DEF CursorAtLine
  <2>3. QED
    BY <2>1, <2>2, <1>5 DEF CursorAtLine
<1>7. ~stale => cursor <= LogSize
  BY <1>5, CursorWithinLog
<1>8. PassedIsRetired' /\ PassedIsLost'
  <2> SUFFICES ASSUME NEW i \in 1..Len(log'), log'[i].at < cursor'
               PROVE  /\ ~stale => log'[i].run \in acked' \cup wiped'
                      /\ log'[i].run \in acked' \cup wiped' \cup hidden'
    BY <1>3 DEF PassedIsRetired, PassedIsLost
  <2>1. CASE i = Len(log) + 1
    <3>1. LogSize < cursor /\ log'[i].run = writing
      BY <2>1, <1>3, <1>4
    <3>2. stale
      BY <3>1, <1>3, <1>7, LogSizeType
    <3>3. QED
      BY <3>1, <3>2, <1>3
  <2>2. CASE i \in 1..Len(log)
    BY <2>2, <1>2, <1>3 DEF PassedIsRetired, PassedIsLost
  <2>3. QED
    BY <2>1, <2>2, <1>2, <1>3
<1>9. Logged \cup {writing} \subseteq Logged'
  <2>1. Len(log) + 1 \in 1..Len(log')
    BY <1>2, <1>3
  <2>2. writing \in Logged'
    BY <2>1, <1>4 DEF Logged
  <2>3. ASSUME NEW i \in 1..Len(log) PROVE log[i].run \in Logged'
    <3>1. i \in 1..Len(log') /\ log'[i] = log[i]
      BY <1>2, <1>3
    <3>2. QED
      BY <3>1 DEF Logged
  <2>4. QED
    BY <2>2, <2>3 DEF Logged
<1>10. ReportedIsLogged'
  BY <1>3, <1>9 DEF ReportedIsLogged
<1>11. QED
  BY <1>2, <1>6, <1>8, <1>10

LEMMA KeepAck ==
  ASSUME IInv, TypeOK', NEW id \in Runs, AckHead(id)
  PROVE  IInv'
<1> USE DEF IInv
<1>1. PICK i \in 1..Len(log) : log[i] = Line(id, cursor)
  BY DEF AckHead, HeadIs, TypeOK
<1>2. /\ log' = log /\ wiped' = wiped /\ reported' = reported /\ unsynced' = unsynced
      /\ stale' = stale /\ hidden' = hidden
      /\ cursor' = cursor + Bytes[id] /\ acked' = acked \cup {id}
  BY DEF AckHead, NextHead
<1>3. cursor' = EndOf(log[i]) /\ log[i].at = cursor /\ log[i].run = id
  BY <1>1, <1>2 DEF EndOf, Line
<1>4. Len(log) \in Nat /\ \A j \in 1..Len(log) : log[j] \in Lines
  BY DEF TypeOK
<1>5. LinesEndToEnd' /\ LogSize' = LogSize
  BY <1>2, SameLog
<1>6. CursorAtLine'
  <2>1. CASE i = Len(log)
    <3>1. log # <<>>
      BY <1>4
    <3>2. LogSize = EndOf(log[i])
      BY <2>1, <3>1 DEF LogSize
    <3>3. QED
      BY <3>2, <1>3, <1>5 DEF CursorAtLine
  <2>2. CASE i < Len(log)
    <3>1. i \in 1..(Len(log) - 1) /\ i + 1 \in 1..Len(log)
      BY <2>2, <1>4
    <3>. log[i + 1].at = EndOf(log[i])
      BY <3>1 DEF LinesEndToEnd
    <3>2. i + 1 \in 1..Len(log') /\ log'[i + 1].at = cursor'
      BY <3>1, <1>2, <1>3
    <3>3. QED
      BY <3>2 DEF CursorAtLine
  <2>3. QED
    BY <2>1, <2>2, <1>4
<1>7. PassedIsRetired' /\ PassedIsLost'
  <2> SUFFICES ASSUME NEW j \in 1..Len(log), log[j].at < cursor'
               PROVE  /\ ~stale => log[j].run \in acked' \cup wiped'
                      /\ log[j].run \in acked' \cup wiped' \cup hidden'
    BY <1>2 DEF PassedIsRetired, PassedIsLost
  <2>1. CASE j = i
    BY <2>1, <1>2, <1>3
  <2>2. CASE j < i
    <3>1. EndOf(log[j]) <= cursor /\ EndOf(log[j]) > log[j].at
      BY <2>2, <1>3, <1>4, EndOfType DEF LinesEndToEnd
    <3>2. log[j].at < cursor
      BY <3>1, <1>4, EndOfType DEF Lines, TypeOK
    <3>3. QED
      BY <3>2, <1>2 DEF PassedIsRetired, PassedIsLost
  <2>3. CASE i < j
    <3>1. cursor' <= log[j].at
      BY <2>3, <1>3 DEF LinesEndToEnd
    <3>2. log[j].at \in Nat /\ cursor' \in Nat
      BY <1>4 DEF Lines, TypeOK
    <3>3. QED
      BY <3>1, <3>2
  <2>4. QED
    BY <2>1, <2>2, <2>3, <1>4
<1>8. ReportedIsLogged'
  BY <1>2 DEF ReportedIsLogged, Logged
<1>9. QED
  BY <1>5, <1>6, <1>7, <1>8 DEF CursorPlaced

(* Unlinking the log forgets only lines that are retired, discarded or     *)
(* were behind a stale cursor.                                             *)
LEMMA KeepUnlink ==
  ASSUME IInv, TypeOK', CompactUnlink \/ WipeLog
  PROVE  IInv'
<1> USE DEF IInv
<1>1. /\ cursor' = cursor /\ reported' = reported /\ acked' = acked /\ unsynced' = unsynced
      /\ stale' = stale /\ hidden' = hidden
      /\ wiped \subseteq wiped' /\ host' \in {"compacting", "wiping"} /\ host \in {"idle", "acked"}
      /\ log' = log \/ log' = <<>>
  BY DEF CompactUnlink, WipeLog, Unlink, history
<1>2. CASE log' = log
  <2>1. PassedIsRetired' /\ PassedIsLost' /\ ReportedIsLogged'
    BY <1>1, <1>2 DEF PassedIsRetired, PassedIsLost, ReportedIsLogged, Logged
  <2>2. CursorPlaced'
    BY <1>1, <1>2, SameLog DEF CursorPlaced, CursorAtLine
  <2>3. QED
    BY <1>1, <1>2, <2>1, <2>2, SameLog
<1>3. CASE log' = <<>> /\ log' # log
  <2>1. log' = <<>> /\ Len(log') = 0
    BY <1>3
  <2>2. Logged \subseteq acked' \cup wiped' \cup hidden'
    <3> SUFFICES ASSUME NEW i \in 1..Len(log) PROVE log[i].run \in acked' \cup wiped' \cup hidden'
      BY DEF Logged
    <3>1. CASE log[i].at < cursor
      BY <3>1, <1>1 DEF PassedIsLost
    <3>2. CASE WipeLog /\ ~(log[i].at < cursor)
      <4>1. i \in DOMAIN log /\ log[i].at \in Nat /\ cursor \in Nat
        BY LineFields DEF TypeOK
      <4>2. log[i].run \in Pending
        BY <4>1, <3>2 DEF Pending, Unacked
      <4>3. QED
        BY <4>2, <3>2, <1>3 DEF WipeLog
    <3>3. CASE CompactUnlink
      <4>1. EndOf(log[i]) <= LogSize /\ EndOf(log[i]) > log[i].at /\ log[i] \in Lines
        BY LinesWithinLog, EndOfType
      <4>2. LogSize <= cursor
        BY <3>3 DEF CompactUnlink, Drained
      <4>3. log[i].at < cursor
        BY <4>1, <4>2, EndOfType, LogSizeType DEF Lines, TypeOK
      <4>4. QED
        BY <4>3, <1>1 DEF PassedIsLost
    <3>4. QED
      BY <3>1, <3>2, <3>3
  <2>3. LinesEndToEnd' /\ PassedIsRetired' /\ PassedIsLost' /\ CursorPlaced'
    BY <2>1, <1>1 DEF LinesEndToEnd, PassedIsRetired, PassedIsLost, CursorPlaced
  <2>4. ReportedIsLogged'
    BY <1>1, <2>2 DEF ReportedIsLogged
  <2>5. QED
    BY <2>3, <2>4
<1>4. QED
  BY <1>1, <1>2, <1>3

(* Rewinding the cursor is safe, with the log gone or with it still there. *)
LEMMA KeepRewind ==
  ASSUME IInv, TypeOK', CompactRewind \/ WipeCursor
  PROVE  IInv'
<1> USE DEF IInv
<1>1. /\ cursor' = 0 /\ log' = log /\ reported' = reported
      /\ acked' = acked /\ wiped' = wiped /\ unsynced' = unsynced /\ hidden' = hidden
  BY DEF CompactRewind, WipeCursor, Rewind, history
<1>2. LinesEndToEnd' /\ LogSize' = LogSize
  BY <1>1, SameLog
<1>3. CursorAtLine'
  <2>1. CASE log = <<>>
    BY <2>1, <1>1, <1>2 DEF LogSize, CursorAtLine
  <2>2. CASE log # <<>>
    <3>1. 1 \in 1..Len(log') /\ log'[1].at = cursor'
      BY <2>2, <1>1 DEF LinesEndToEnd, TypeOK
    <3>2. QED
      BY <3>1 DEF CursorAtLine
  <2>3. QED
    BY <2>1, <2>2
<1>4. PassedIsRetired' /\ PassedIsLost'
  BY <1>1, LineFields DEF PassedIsRetired, PassedIsLost, TypeOK
<1>5. ReportedIsLogged'
  BY <1>1 DEF ReportedIsLogged, Logged
<1>6. QED
  BY <1>2, <1>3, <1>4, <1>5 DEF CursorPlaced

(* A rewind that fails, and power that is lost, leave both files alone; the *)
(* cursor is stale if the log it was measured in is gone.                  *)
LEMMA KeepOffset ==
  ASSUME IInv, TypeOK', CompactRewindFails \/ WipeCursorFails \/ PowerLoss
  PROVE  IInv'
<1> USE DEF IInv
<1>1. /\ cursor' = cursor /\ log' = log /\ reported' = reported
      /\ acked' = acked /\ wiped' = wiped /\ unsynced' = unsynced /\ hidden' = hidden
      /\ stale' = (stale \/ (log = <<>> /\ cursor > 0))
  BY DEF CompactRewindFails, WipeCursorFails, PowerLoss, OffsetStays, history
<1>2. LinesEndToEnd' /\ LogSize' = LogSize
  BY <1>1, SameLog
<1>3. CursorPlaced'
  <2> SUFFICES ASSUME ~stale, ~(log = <<>> /\ cursor > 0) PROVE CursorAtLine'
    BY <1>1 DEF CursorPlaced
  <2>1. CASE log = <<>>
    BY <2>1, <1>1, <1>2 DEF LogSize, CursorAtLine, TypeOK
  <2>2. CASE log # <<>>
    BY <2>2, <1>1, <1>2 DEF CursorPlaced, CursorAtLine
  <2>3. QED
    BY <2>1, <2>2
<1>4. PassedIsRetired' /\ PassedIsLost' /\ ReportedIsLogged'
  BY <1>1 DEF PassedIsRetired, PassedIsLost, ReportedIsLogged, Logged
<1>5. QED
  BY <1>2, <1>3, <1>4

LEMMA IInvStep == IInv /\ [Next]_vars => IInv'
<1> SUFFICES ASSUME IInv, [Next]_vars PROVE IInv'
  OBVIOUS
<1>1. TypeOK'
  BY TypeStep DEF IInv
<1>2. ASSUME host' \in {"compacting", "wiping"} \/ host \in {"idle", "acked"},
             UNCHANGED <<log, cursor, acked, wiped, stale, hidden>>,
             reported' \ unsynced' \subseteq reported \ unsynced
      PROVE  IInv'
  BY <1>1, <1>2, SameLog
     DEF IInv, CursorPlaced, CursorAtLine, PassedIsRetired, PassedIsLost, ReportedIsLogged, Logged
<1>3. ASSUME NEW r \in Runs, AppendOpen(r) PROVE IInv'
  BY <1>2, <1>3 DEF AppendOpen, files, history
<1>4. CASE AppendSynced
  BY <1>1, <1>4, KeepAppend
<1>5. CASE AppendShortWrite
  BY <1>2, <1>5 DEF AppendShortWrite, files, history
<1>6. CASE AppendNotFlushed
  BY <1>2, <1>6 DEF AppendNotFlushed, files
<1>7. ASSUME NEW id \in Runs, AckHead(id) PROVE IInv'
  BY <1>1, <1>7, KeepAck
<1>8. CASE UNCHANGED vars
  BY <1>8, <1>1, SameLog
     DEF IInv, CursorPlaced, CursorAtLine, PassedIsRetired, PassedIsLost, ReportedIsLogged, Logged, vars
<1>9. CASE \E id \in Runs : AckIgnored(id) \/ AckNotStored(id)
  BY <1>8, <1>9 DEF AckIgnored, AckNotStored
<1>10. CASE CompactUnlink \/ WipeLog
  BY <1>1, <1>10, KeepUnlink
<1>11. CASE CompactNotDrained
  BY <1>2, <1>11 DEF CompactNotDrained, files, history
<1>12. CASE CompactRewind \/ WipeCursor
  BY <1>1, <1>12, KeepRewind
<1>13. CASE CompactRewindFails \/ WipeCursorFails \/ PowerLoss
  BY <1>1, <1>13, KeepOffset
<1>14. QED
  BY <1>3, <1>4, <1>5, <1>6, <1>7, <1>8, <1>9, <1>10, <1>11, <1>12, <1>13 DEF Next

-----------------------------------------------------------------------------
(* Whatever fails, a run that rr_queue_append accepted and flushed leaves  *)
(* the queue only by its own ack or a factory reset, or it was appended    *)
(* behind an offset left over from an unlinked log: for every set of runs  *)
(* and every line length.                                                  *)
THEOREM NothingElseLost == Spec => []LostOnlyBehindStaleCursor
<1>1. IInv => LostOnlyBehindStaleCursor
  <2> SUFFICES ASSUME IInv, NEW r \in reported \ unsynced
               PROVE  r \in Pending \cup acked \cup wiped \cup hidden
    BY DEF LostOnlyBehindStaleCursor
  <2>1. CASE r \in Logged
    <3>1. PICK i \in 1..Len(log) : log[i].run = r
      BY <2>1 DEF Logged
    <3>2. i \in DOMAIN log /\ log[i].at \in Nat /\ cursor \in Nat
      BY LineFields DEF IInv, TypeOK
    <3>3. QED
      BY <3>1, <3>2 DEF IInv, PassedIsLost, Pending, Unacked
  <2>2. CASE r \notin Logged
    BY <2>2 DEF IInv, ReportedIsLogged
  <2>3. QED
    BY <2>1, <2>2
<1>2. QED
  BY <1>1, IInvInit, IInvStep, PTL DEF Spec

(* Between handlers the cursor is at a line unless a rewind failed, so the *)
(* count the phone is told is the number of runs it can read.              *)
THEOREM StatusTruthful == Spec => []CountIsPending
<1>1. ASSUME IInv, host = "idle", ~stale, NEW i \in 1..Len(log)
      PROVE  EndOf(log[i]) > cursor <=> log[i].at >= cursor
  <2> USE <1>1 DEF IInv
  <2>1. /\ log[i] \in Lines /\ EndOf(log[i]) \in Nat /\ cursor \in Nat
        /\ EndOf(log[i]) > log[i].at /\ EndOf(log[i]) <= LogSize
    BY LinesWithinLog, EndOfType DEF TypeOK
  <2>2. CASE cursor = LogSize
    BY <2>1, <2>2 DEF Lines
  <2>3. CASE \E j \in 1..Len(log) : log[j].at = cursor
    <3>1. PICK j \in 1..Len(log) : log[j].at = cursor
      BY <2>3
    <3>2. i < j => EndOf(log[i]) <= cursor
      BY <3>1 DEF LinesEndToEnd
    <3>3. j < i => cursor < log[i].at
      <4>1. log[j] \in Lines /\ EndOf(log[j]) > cursor /\ EndOf(log[j]) \in Nat
        BY <3>1, LinesWithinLog, EndOfType
      <4>2. j < i => EndOf(log[j]) <= log[i].at
        BY DEF LinesEndToEnd
      <4>3. QED
        BY <4>1, <4>2, <2>1 DEF Lines
    <3>4. i = j => log[i].at = cursor
      BY <3>1
    <3>5. i < j \/ j < i \/ i = j
      OBVIOUS
    <3>6. QED
      BY <2>1, <3>2, <3>3, <3>4, <3>5 DEF Lines
  <2>4. QED
    BY <1>1, <2>2, <2>3 DEF CursorPlaced, CursorAtLine
<1>2. IInv => CountIsPending
  <2> SUFFICES ASSUME IInv, host = "idle", ~stale PROVE QueueCount = Cardinality(Unacked)
    BY DEF CountIsPending
  <2>1. DOMAIN log = 1..Len(log)
    BY DEF IInv, TypeOK
  <2>2. {i \in DOMAIN log : EndOf(log[i]) > cursor} = Unacked
    BY <1>1, <2>1 DEF Unacked
  <2>3. QED
    BY <2>2 DEF QueueCount
<1>3. QED
  BY <1>2, IInvInit, IInvStep, PTL DEF Spec

-----------------------------------------------------------------------------
(* The geometry of the log survives every step, faults included. *)
LEMMA GeometryStep == TypeOK /\ LinesEndToEnd /\ [Next]_vars => LinesEndToEnd'
<1> SUFFICES ASSUME TypeOK, LinesEndToEnd, [Next]_vars PROVE LinesEndToEnd'
  OBVIOUS
<1>1. CASE AppendSynced
  BY <1>1, AppendLine DEF AppendSynced, LogOpen, TypeOK
<1>2. CASE log' = <<>>
  BY <1>2 DEF LinesEndToEnd
<1>3. CASE log' = log
  BY <1>3, SameLog
<1>4. QED
  BY <1>1, <1>2, <1>3
     DEF Next, vars, AppendOpen, AppendShortWrite, AppendNotFlushed, AckHead,
         AckIgnored, AckNotStored, CompactUnlink, CompactNotDrained, CompactRewind, WipeLog,
         WipeCursor, CompactRewindFails, WipeCursorFails, PowerLoss, OffsetStays, Rewind,
         Unlink, files

(* Whatever power loss and failing syncs do to the files, a run the phone  *)
(* can pull disappears only through its own ack or a factory reset.        *)
THEOREM RetiredByItsAck == Spec => OnlyItsAckRetiresARun
<1> DEFINE Retires == Pending \ Pending' \subseteq acked' \cup wiped'
<1>1. Init => LinesEndToEnd
  BY DEF Init, LinesEndToEnd
<1>2. TypeOK /\ LinesEndToEnd /\ [Next]_vars => [Retires]_vars
  <2> SUFFICES ASSUME TypeOK, LinesEndToEnd, Next,
                      NEW i \in DOMAIN log, log[i].at >= cursor, log[i].run \notin Pending'
               PROVE  log[i].run \in acked' \cup wiped'
    BY DEF Pending, Unacked
  <2>1. ASSUME log' = log, cursor' <= cursor, cursor' \in Nat PROVE FALSE
    <3>1. log'[i].at >= cursor'
      BY <2>1, LineFields DEF TypeOK
    <3>2. QED
      BY <3>1, <2>1 DEF Pending, Unacked
  <2>2. ASSUME AppendSynced PROVE FALSE
    <3>1. i \in 1..Len(log) /\ writing \in Runs
      BY <2>2 DEF AppendSynced, LogOpen, TypeOK
    <3>2. i \in DOMAIN log' /\ log'[i] = log[i] /\ cursor' = cursor
      BY <2>2, <3>1 DEF AppendSynced, TypeOK
    <3>3. QED
      BY <3>2 DEF Pending, Unacked
  <2>3. ASSUME NEW id \in Runs, AckHead(id) PROVE log[i].run \in acked'
    <3>1. PICK h \in 1..Len(log) : log[h] = Line(id, cursor)
      BY <2>3 DEF AckHead, HeadIs, TypeOK
    <3>2. log' = log /\ cursor' = EndOf(log[h]) /\ log[h].at = cursor /\ log[h].run = id
      BY <2>3, <3>1 DEF AckHead, NextHead, EndOf, Line
    <3>3. i \in 1..Len(log) /\ log[i].at \in Nat /\ cursor \in Nat
      BY LineFields DEF TypeOK
    <3>4. log[h] \in Lines /\ EndOf(log[h]) \in Nat /\ EndOf(log[h]) > cursor
      BY <3>2, LinesWithinLog, EndOfType
    <3>5. log[i].at < cursor'
      BY <3>2, <3>3, <3>4 DEF Pending, Unacked
    <3>6. ~(h < i)
      BY <3>2, <3>3, <3>4, <3>5 DEF LinesEndToEnd
    <3>7. ~(i < h)
      <4>1. log[i] \in Lines /\ EndOf(log[i]) > log[i].at /\ EndOf(log[i]) \in Nat
        BY <3>3, LinesWithinLog, EndOfType
      <4>2. i < h => EndOf(log[i]) <= cursor
        BY <3>2, <3>3 DEF LinesEndToEnd
      <4>3. QED
        BY <4>1, <4>2, <3>3
    <3>8. i = h
      BY <3>3, <3>6, <3>7
    <3>9. QED
      BY <3>2, <3>8, <2>3 DEF AckHead
  <2>4. ASSUME CompactUnlink PROVE FALSE
    <3>1. CASE log' = log
      BY <2>1, <2>4, <3>1 DEF CompactUnlink, TypeOK
    <3>2. CASE log' = <<>>
      <4>1. i \in 1..Len(log)
        BY DEF TypeOK
      <4>2. EndOf(log[i]) <= LogSize /\ EndOf(log[i]) > log[i].at /\ log[i] \in Lines
        BY <4>1, LinesWithinLog, EndOfType
      <4>3. LogSize <= cursor
        BY <2>4 DEF CompactUnlink, Drained
      <4>4. QED
        BY <4>2, <4>3, EndOfType, LogSizeType DEF Lines, TypeOK
    <3>3. QED
      BY <2>4, <3>1, <3>2 DEF CompactUnlink, Unlink
  <2>5. CASE WipeLog
    <3>1. log[i].run \in Pending
      BY DEF Pending, Unacked
    <3>2. CASE log' = log
      BY <2>1, <2>5, <3>2 DEF WipeLog, TypeOK
    <3>3. QED
      BY <2>5, <3>1, <3>2 DEF WipeLog
  <2>6. CASE CompactRewind \/ WipeCursor
    BY <2>1, <2>6 DEF CompactRewind, Rewind, WipeCursor, TypeOK
  <2>7. CASE UNCHANGED <<log, cursor>>
    BY <2>1, <2>7 DEF TypeOK
  <2>8. QED
    BY <2>2, <2>3, <2>4, <2>5, <2>6, <2>7
       DEF Next, vars, AppendOpen, AppendShortWrite, AppendNotFlushed,
           AckIgnored, AckNotStored, CompactNotDrained, CompactRewindFails, WipeCursorFails,
           PowerLoss, OffsetStays, files
<1>3. QED
  BY <1>1, <1>2, TypeInit, TypeStep, GeometryStep, PTL DEF Spec, OnlyItsAckRetiresARun

-----------------------------------------------------------------------------
(* The refinement.  The lines at and behind the cursor are a suffix of the *)
(* log, since lines lie in the order of their offsets; Cut is the number   *)
(* of lines before it.                                                     *)

Cut(k) == k \in 0..Len(log) /\ Unacked = (k + 1)..Len(log)

LEMMA IntervalCard ==
  ASSUME NEW k \in Nat, NEW n \in Nat, k <= n
  PROVE  Cardinality((k + 1)..n) = n - k
<1> DEFINE a == k + 1
<1>1. a \in Int /\ n \in Int /\ n - a + 1 = n - k /\ (a > n => n - k = 0)
  OBVIOUS
<1> HIDE DEF a
<1>2. Cardinality(a..n) = IF a > n THEN 0 ELSE n - a + 1
  BY <1>1, FS_Interval
<1>3. Cardinality(a..n) = n - k
  BY <1>1, <1>2
<1> QED
  BY <1>3 DEF a

(* How a sequence one element longer is an Append. *)
LEMMA AppendIs ==
  ASSUME NEW S, NEW q \in Seq(S), NEW e \in S, NEW n \in Nat, Len(q) = n,
         NEW t \in [1..(n + 1) -> S],
         \A i \in 1..n : t[i] = q[i], t[n + 1] = e
  PROVE  t = Append(q, e)
<1>1. Append(q, e) \in Seq(S) /\ Len(Append(q, e)) = n + 1
  OBVIOUS
<1>2. Append(q, e)[n + 1] = e /\ \A i \in 1..n : Append(q, e)[i] = q[i]
  OBVIOUS
<1>3. \A i \in 1..(n + 1) : t[i] = Append(q, e)[i]
  BY <1>2
<1> DEFINE a == Append(q, e)
<1>a. a \in Seq(S) /\ Len(a) = n + 1
  BY <1>1
<1> HIDE DEF a
<1>4. a = [i \in DOMAIN a |-> a[i]] /\ DOMAIN a = 1..(n + 1)
  BY <1>a
<1>5. a = [i \in 1..(n + 1) |-> a[i]]
  BY <1>4
<1>6. \A i \in 1..(n + 1) : a[i] = t[i]
  BY <1>3 DEF a
<1> QED
  BY <1>5, <1>6 DEF a

LEMMA CutVisible ==
  ASSUME TypeOK, NEW k, Cut(k)
  PROVE  Visible = VisibleFrom(k)
<1>1. Len(log) \in Nat /\ k \in Nat /\ k <= Len(log)
  BY DEF Cut, TypeOK
<1>2. Cardinality((k + 1)..Len(log)) = Len(log) - k
  BY <1>1, IntervalCard
<1>3. Len(log) - Cardinality(Unacked) = k
  BY <1>1, <1>2 DEF Cut
<1> QED
  BY <1>3 DEF Visible

LEMMA CutVisiblePrimed ==
  ASSUME TypeOK', NEW k, Cut(k)'
  PROVE  Visible' = VisibleFrom(k)'
<1>1. Len(log') \in Nat /\ k \in Nat /\ k <= Len(log')
  BY DEF Cut, TypeOK
<1>2. Cardinality((k + 1)..Len(log')) = Len(log') - k
  BY <1>1, IntervalCard
<1>3. Len(log') - Cardinality(Unacked') = k
  BY <1>1, <1>2 DEF Cut
<1> QED
  BY <1>3 DEF Visible

(* A later line starts later. *)
LEMMA Ascending ==
  ASSUME TypeOK, LinesEndToEnd, NEW i \in 1..Len(log), NEW j \in 1..Len(log), i < j
  PROVE  log[i].at < log[j].at
<1>1. log[i] \in Lines /\ log[j].at \in Nat /\ log[i].at \in Nat
  BY LineFields DEF TypeOK
<1>2. EndOf(log[i]) <= log[j].at
  BY DEF LinesEndToEnd
<1> QED
  BY <1>1, <1>2, EndOfType

LEMMA CutExists ==
  ASSUME TypeOK, LinesEndToEnd
  PROVE  \E k : Cut(k)
<1>0. Len(log) \in Nat /\ DOMAIN log = 1..Len(log) /\ cursor \in Nat
      /\ \A i \in 1..Len(log) : log[i].at \in Nat
  BY LineFields DEF TypeOK
<1>1. CASE Unacked = {}
  <2>1. Cut(Len(log))
    BY <1>0, <1>1 DEF Cut
  <2> QED
    BY <2>1
<1>2. CASE Unacked # {}
  <2>1. Unacked \subseteq Nat
    BY <1>0 DEF Unacked
  <2>2. PICK h \in Unacked : \A i \in Unacked : ~(<<i, h>> \in OpToRel(<, Nat))
    BY <1>2, <2>1, NatLessThanWellFounded, WFMin
  <2>a. \A i \in Unacked : ~(i < h)
    BY <2>1, <2>2 DEF OpToRel
  <2>3. h \in 1..Len(log) /\ log[h].at >= cursor /\ \A i \in Unacked : i >= h
    BY <1>0, <2>1, <2>a DEF Unacked
  <2>4. ASSUME NEW i \in h..Len(log) PROVE i \in Unacked
    <3>1. i = h \/ log[h].at < log[i].at
      BY <1>0, <2>3, Ascending
    <3> QED
      BY <1>0, <2>3, <3>1 DEF Unacked
  <2>5. Unacked = h..Len(log)
    BY <1>0, <2>3, <2>4 DEF Unacked
  <2>6. Cut(h - 1)
    BY <1>0, <2>3, <2>5 DEF Cut
  <2> QED
    BY <2>6
<1> QED
  BY <1>1, <1>2

(* What is visible is a sequence of runs, one for every line behind the    *)
(* cut.                                                                    *)
LEMMA VisibleType ==
  ASSUME TypeOK, NEW k \in 0..Len(log)
  PROVE  /\ VisibleFrom(k) \in Seq(Runs) /\ Len(VisibleFrom(k)) = Len(log) - k
         /\ \A i \in 1..(Len(log) - k) : VisibleFrom(k)[i] = log[i + k].run
<1>1. Len(log) \in Nat /\ k \in Nat /\ Len(log) - k \in Nat
  BY DEF TypeOK
<1>2. \A i \in 1..(Len(log) - k) : i + k \in DOMAIN log
  BY <1>1 DEF TypeOK
<1>3. \A i \in 1..(Len(log) - k) : log[i + k].run \in Runs
  BY <1>2, LineFields DEF TypeOK
<1> QED
  BY <1>1, <1>3 DEF VisibleFrom

-----------------------------------------------------------------------------
LEMMA RefineAppend ==
  ASSUME IInv, ~stale, TypeOK', AppendSynced
  PROVE  FIFO!Enqueue(writing) /\ writing \in Runs
<1>0. /\ TypeOK /\ LinesEndToEnd /\ CursorAtLine /\ writing \in Runs
      /\ log' = Append(log, Line(writing, LogSize))
      /\ UNCHANGED <<cursor, acked, wiped>>
  BY DEF IInv, CursorPlaced, AppendSynced, LogOpen, TypeOK
<1>1. PICK k : Cut(k)
  BY <1>0, CutExists
<1>2. /\ Len(log) \in Nat /\ Len(log') = Len(log) + 1 /\ k \in 0..Len(log) /\ k \in Nat
      /\ \A i \in 1..Len(log) : log'[i] = log[i]
      /\ log'[Len(log) + 1] = Line(writing, LogSize)
  BY <1>0, <1>1, AppendLine DEF TypeOK, Cut
<1>3. cursor <= LogSize /\ cursor \in Nat /\ LogSize \in Nat
  BY <1>0, CursorWithinLog, LogSizeType DEF TypeOK
<1>4. Cut(k)'
  <2>1. DOMAIN log = 1..Len(log) /\ DOMAIN log' = 1..(Len(log) + 1)
    BY <1>0, <1>2 DEF TypeOK
  <2>2. \A i \in 1..Len(log) : log[i].at >= cursor <=> i \in (k + 1)..Len(log)
    BY <1>1, <2>1 DEF Cut, Unacked
  <2>3. log'[Len(log) + 1].at >= cursor
    BY <1>2, <1>3 DEF Line
  <2>4. \A i \in 1..(Len(log) + 1) : log'[i].at >= cursor <=> i \in (k + 1)..(Len(log) + 1)
    BY <1>2, <2>2, <2>3
  <2>5. Unacked' = (k + 1)..(Len(log) + 1)
    BY <1>0, <1>2, <2>1, <2>4 DEF Unacked
  <2> QED
    BY <1>2, <2>5 DEF Cut
<1>5. Visible = VisibleFrom(k) /\ Visible' = VisibleFrom(k)'
  BY <1>0, <1>1, <1>4, CutVisible, CutVisiblePrimed
<1>6. VisibleFrom(k)' = Append(VisibleFrom(k), writing)
  <2>1. Len(log) - k \in Nat /\ Len(log') - k = (Len(log) - k) + 1
    BY <1>2
  <2>2. VisibleFrom(k)' = [i \in 1..((Len(log) - k) + 1) |-> log'[i + k].run]
    BY <2>1 DEF VisibleFrom
  <2>3. VisibleFrom(k) \in Seq(Runs) /\ Len(VisibleFrom(k)) = Len(log) - k
        /\ \A i \in 1..(Len(log) - k) : VisibleFrom(k)[i] = log[i + k].run
    BY <1>0, <1>2, VisibleType
  <2> DEFINE n == Len(log) - k
             t == VisibleFrom(k)'
  <2>4. ASSUME NEW i \in 1..n PROVE t[i] = VisibleFrom(k)[i]
    <3>1. i \in 1..(n + 1) /\ i + k \in 1..Len(log)
      BY <1>2, <2>1
    <3> QED
      BY <1>2, <2>2, <2>3, <3>1
  <2>5. t[n + 1] = writing
    <3>1. (n + 1) + k = Len(log) + 1 /\ n + 1 \in 1..(n + 1)
      BY <1>2, <2>1
    <3> QED
      BY <1>2, <2>2, <3>1 DEF Line
  <2>6. t = [i \in 1..(n + 1) |-> t[i]]
    BY <2>2
  <2> HIDE DEF n, t
  <2>7. n \in Nat /\ Len(VisibleFrom(k)) = n
    BY <2>1, <2>3 DEF n
  <2>8. \A i \in 1..n : t[i] = VisibleFrom(k)[i]
    BY <2>4
  <2>9. writing \in Runs /\ VisibleFrom(k) \in Seq(Runs)
    BY <1>0, <2>3
  <2> DEFINE q == VisibleFrom(k)
  <2>b. /\ q \in Seq(Runs) /\ Len(q) = n /\ n \in Nat /\ writing \in Runs
        /\ t \in [1..(n + 1) -> Runs] /\ t[n + 1] = writing
        /\ \A i \in 1..n : t[i] = q[i]
    <3>1. VisibleFrom(k) \in [1..n -> Runs]
      BY <2>7, <2>9
    <3>2. \A i \in 1..(n + 1) : t[i] \in Runs
      BY <2>5, <2>7, <2>8, <2>9, <3>1
    <3> QED
      BY <2>5, <2>6, <2>7, <2>8, <2>9, <3>2
  <2> HIDE DEF q
  <2>10. t = Append(q, writing)
    BY <2>b, AppendIs
  <2> QED
    BY <2>10 DEF t, q
<1> QED
  BY <1>0, <1>5, <1>6 DEF FIFO!Enqueue

LEMMA TailIs ==
  ASSUME NEW S, NEW n \in Nat, NEW q \in Seq(S), Len(q) = n + 1,
         NEW t \in [1..n -> S], \A i \in 1..n : t[i] = q[i + 1]
  PROVE  t = Tail(q)
<1> DEFINE a == Tail(q)
<1>1. a \in Seq(S) /\ Len(a) = n /\ \A i \in 1..n : a[i] = q[i + 1]
  OBVIOUS
<1> HIDE DEF a
<1>2. a = [i \in DOMAIN a |-> a[i]] /\ DOMAIN a = 1..n
  BY <1>1
<1>3. \A i \in 1..n : a[i] = t[i]
  BY <1>1
<1> QED
  BY <1>2, <1>3 DEF a

LEMMA RefineAck ==
  ASSUME IInv, TypeOK', NEW id \in Runs, AckHead(id)
  PROVE  FIFO!RetireHead
<1>0. /\ TypeOK /\ LinesEndToEnd
      /\ log' = log /\ wiped' = wiped /\ acked' = acked \cup {id}
      /\ cursor' = cursor + Bytes[id]
  BY DEF IInv, AckHead, NextHead
<1>1. PICK h \in 1..Len(log) : log[h] = Line(id, cursor)
  BY <1>0 DEF AckHead, HeadIs, TypeOK
<1>2. log[h].at = cursor /\ log[h].run = id /\ cursor' = EndOf(log[h])
  BY <1>0, <1>1 DEF Line, EndOf
<1>3. /\ Len(log) \in Nat /\ DOMAIN log = 1..Len(log) /\ cursor \in Nat /\ cursor' \in Nat
      /\ cursor' > cursor /\ \A i \in 1..Len(log) : log[i].at \in Nat
  BY <1>0, <1>2, LineFields, LinesWithinLog, EndOfType DEF TypeOK
<1>4. ASSUME NEW i \in 1..Len(log)
      PROVE  /\ log[i].at >= cursor <=> i \in h..Len(log)
             /\ log[i].at >= cursor' <=> i \in (h + 1)..Len(log)
  <2>1. CASE i < h
    <3>1. log[i].at < cursor
      BY <1>0, <1>2, <2>1, Ascending
    <3> QED
      BY <1>3, <2>1, <3>1
  <2>2. CASE i = h
    BY <1>2, <1>3, <2>2
  <2>3. CASE i > h
    <3>1. cursor' <= log[i].at
      BY <1>0, <1>2, <2>3 DEF LinesEndToEnd
    <3> QED
      BY <1>3, <2>3, <3>1
  <2> QED
    BY <1>3, <2>1, <2>2, <2>3
<1>5. Cut(h - 1)
  BY <1>3, <1>4 DEF Cut, Unacked
<1>6. Cut(h)'
  BY <1>0, <1>3, <1>4 DEF Cut, Unacked
<1>7. Visible = VisibleFrom(h - 1) /\ Visible' = VisibleFrom(h)'
  BY <1>0, <1>5, <1>6, CutVisible, CutVisiblePrimed
<1>8. VisibleFrom(h)' = VisibleFrom(h)
  BY <1>0 DEF VisibleFrom
<1> DEFINE n == Len(log) - h
           q == VisibleFrom(h - 1)
           t == VisibleFrom(h)
<1>9. /\ n \in Nat /\ q \in Seq(Runs) /\ Len(q) = n + 1 /\ t \in Seq(Runs) /\ Len(t) = n
      /\ \A i \in 1..n : t[i] = log[i + h].run
      /\ \A i \in 1..(n + 1) : q[i] = log[i + (h - 1)].run
  <2>1. h - 1 \in 0..Len(log) /\ h \in 0..Len(log) /\ Len(log) - (h - 1) = n + 1
    BY <1>3
  <2>2. /\ q \in Seq(Runs) /\ Len(q) = Len(log) - (h - 1)
        /\ \A i \in 1..(Len(log) - (h - 1)) : q[i] = log[i + (h - 1)].run
    BY <1>0, <2>1, VisibleType
  <2>3. /\ t \in Seq(Runs) /\ Len(t) = n
        /\ \A i \in 1..n : t[i] = log[i + h].run
    BY <1>0, <2>1, VisibleType
  <2>4. n \in Nat
    BY <1>3
  <2> HIDE DEF n, q, t
  <2> QED
    BY <2>1, <2>2, <2>3, <2>4
<1>10. t \in [1..n -> Runs]
  BY <1>9
<1>11. ASSUME NEW i \in 1..n PROVE t[i] = q[i + 1]
  <2>1. i + 1 \in 1..(n + 1) /\ (i + 1) + (h - 1) = i + h
    BY <1>3, <1>9
  <2> QED
    BY <1>9, <2>1
<1>12. q # <<>> /\ Head(q) = id
  <2>1. 1 \in 1..(n + 1) /\ 1 + (h - 1) = h
    BY <1>3, <1>9
  <2>2. q[1] = id
    BY <1>2, <1>9, <2>1
  <2> QED
    BY <1>9, <2>2
<1> HIDE DEF n, q, t
<1>13. t = Tail(q)
  BY <1>9, <1>10, <1>11, TailIs
<1>14. Visible = q /\ Visible' = t
  BY <1>7, <1>8 DEF q, t
<1> QED
  BY <1>0, <1>12, <1>13, <1>14 DEF FIFO!RetireHead

(* Nothing is visible in a drained log, nor in one that was unlinked. *)
LEMMA NothingVisible ==
  ASSUME TypeOK, Unacked = {}
  PROVE  Visible = <<>>
<1>1. Len(log) \in Nat
  BY DEF TypeOK
<1>2. Cut(Len(log))
  BY <1>1 DEF Cut
<1>3. Visible = VisibleFrom(Len(log))
  BY <1>2, CutVisible
<1> QED
  BY <1>1, <1>3 DEF VisibleFrom

LEMMA EmptyLog ==
  ASSUME log' = <<>>
  PROVE  Visible' = <<>>
<1>1. Unacked' = {}
  BY DEF Unacked
<1>2. Cardinality({}) = 0
  BY FS_EmptySet
<1>3. Visible' = VisibleFrom(0)'
  BY <1>1, <1>2 DEF Visible
<1> QED
  BY <1>3 DEF VisibleFrom

LEMMA SameFiles ==
  ASSUME UNCHANGED <<log, cursor>>
  PROVE  Visible' = Visible
BY DEF Visible, VisibleFrom, Unacked

LEMMA RefineCompact ==
  ASSUME IInv, CompactUnlink
  PROVE  UNCHANGED FIFO!vars
<1>0. TypeOK /\ UNCHANGED <<cursor, acked, wiped>> /\ (log' = log \/ log' = <<>>)
  BY DEF IInv, CompactUnlink, Unlink, history
<1>1. Unacked = {}
  <2> SUFFICES ASSUME NEW i \in 1..Len(log), log[i].at >= cursor PROVE FALSE
    BY <1>0 DEF Unacked, TypeOK
  <2>1. /\ EndOf(log[i]) <= LogSize /\ EndOf(log[i]) > log[i].at /\ log[i] \in Lines
        /\ EndOf(log[i]) \in Nat
    BY <1>0, LinesWithinLog, EndOfType DEF IInv
  <2>2. LogSize <= cursor /\ LogSize \in Nat /\ cursor \in Nat
    BY <1>0, LogSizeType DEF CompactUnlink, Drained, TypeOK
  <2> QED
    BY <2>1, <2>2 DEF Lines
<1>2. Visible = <<>>
  BY <1>0, <1>1, NothingVisible
<1>3. Visible' = <<>>
  BY <1>0, <1>2, EmptyLog, SameFiles
<1> QED
  BY <1>0, <1>2, <1>3 DEF FIFO!vars

LEMMA RefineWipe ==
  ASSUME IInv, WipeLog
  PROVE  FIFO!Discard \/ UNCHANGED FIFO!vars
<1>0. TypeOK /\ LinesEndToEnd /\ UNCHANGED <<cursor, acked>>
  BY DEF IInv, WipeLog
<1>1. CASE log' = log
  <2>1. UNCHANGED <<log, cursor, acked, wiped>>
    BY <1>0, <1>1 DEF WipeLog
  <2> QED
    BY <2>1, SameFiles DEF FIFO!vars
<1>2. CASE log' # log
  <2>1. log' = <<>> /\ wiped' = wiped \cup Pending
    BY <1>2 DEF WipeLog, Unlink
  <2>2. PICK k : Cut(k)
    BY <1>0, CutExists
  <2>3. Visible = VisibleFrom(k)
    BY <1>0, <2>2, CutVisible
  <2>4. /\ Len(log) \in Nat /\ k \in Nat /\ k <= Len(log) /\ DOMAIN log = 1..Len(log)
        /\ Unacked = (k + 1)..Len(log)
    BY <1>0, <2>2 DEF Cut, TypeOK
  <2>5. DOMAIN Visible = 1..(Len(log) - k)
        /\ \A i \in 1..(Len(log) - k) : Visible[i] = log[i + k].run
    BY <2>3 DEF VisibleFrom
  <2>6. ASSUME NEW i \in DOMAIN Visible PROVE Visible[i] \in Pending
    <3>1. i + k \in Unacked
      BY <2>4, <2>5
    <3> QED
      BY <2>5, <3>1 DEF Pending
  <2>7. ASSUME NEW j \in Unacked PROVE log[j].run \in {Visible[i] : i \in DOMAIN Visible}
    <3>1. j - k \in DOMAIN Visible /\ (j - k) + k = j
      BY <2>4, <2>5
    <3> QED
      BY <2>5, <3>1
  <2>8. Pending = {Visible[i] : i \in DOMAIN Visible}
    BY <2>6, <2>7 DEF Pending
  <2>9. Visible' = <<>>
    BY <2>1, EmptyLog
  <2> QED
    BY <1>0, <2>1, <2>8, <2>9 DEF FIFO!Discard
<1> QED
  BY <1>1, <1>2

LEMMA SubSeqIs ==
  ASSUME NEW S, NEW q \in Seq(S), NEW m \in Nat, NEW n \in Nat, m <= n, n <= Len(q)
  PROVE  /\ SubSeq(q, m + 1, n) = [i \in 1..(n - m) |-> q[i + m]]
<1> DEFINE a == SubSeq(q, m + 1, n)
<1>1. a = [i \in 1..(1 + n - (m + 1)) |-> q[i + (m + 1) - 1]]
  OBVIOUS
<1>2. 1 + n - (m + 1) = n - m /\ \A i \in 1..(n - m) : i + (m + 1) - 1 = i + m
  OBVIOUS
<1> QED
  BY <1>1, <1>2

(* Rewinding the cursor under a log that could not be unlinked shows the   *)
(* lines it had passed again.                                              *)
LEMMA RefineRewind ==
  ASSUME IInv, ~stale, TypeOK', CompactRewind \/ WipeCursor
  PROVE  FIFO!Redeliver \/ UNCHANGED FIFO!vars
<1>0. TypeOK /\ LinesEndToEnd /\ PassedIsRetired
      /\ log' = log /\ cursor' = 0 /\ UNCHANGED <<acked, wiped>>
  BY DEF IInv, CompactRewind, WipeCursor, Rewind, history
<1>1. PICK k : Cut(k)
  BY <1>0, CutExists
<1>2. /\ Len(log) \in Nat /\ k \in Nat /\ k <= Len(log) /\ DOMAIN log = 1..Len(log)
      /\ Unacked = (k + 1)..Len(log) /\ cursor \in Nat
      /\ \A i \in 1..Len(log) : log[i].at \in Nat
  BY <1>0, <1>1, LineFields DEF Cut, TypeOK
<1>3. Cut(0)'
  BY <1>0, <1>2 DEF Cut, Unacked
<1>4. Visible = VisibleFrom(k) /\ Visible' = VisibleFrom(0)' /\ VisibleFrom(0)' = VisibleFrom(0)
  BY <1>0, <1>1, <1>3, CutVisible, CutVisiblePrimed DEF VisibleFrom
<1> DEFINE all == VisibleFrom(0)
<1>5. all \in Seq(Runs) /\ Len(all) = Len(log) /\ \A i \in 1..Len(log) : all[i] = log[i].run
  <2>1. 0 \in 0..Len(log) /\ Len(log) - 0 = Len(log) /\ \A i \in 1..Len(log) : i + 0 = i
    BY <1>2
  <2>2. /\ all \in Seq(Runs) /\ Len(all) = Len(log) - 0
        /\ \A i \in 1..(Len(log) - 0) : all[i] = log[i + 0].run
    BY <1>0, <2>1, VisibleType
  <2> HIDE DEF all
  <2> QED
    BY <2>1, <2>2
<1>6. CASE k = 0
  BY <1>0, <1>4, <1>6 DEF FIFO!vars
<1>7. CASE k # 0
  <2> HIDE DEF all
  <2>1. k \in 1..Len(all)
    BY <1>2, <1>5, <1>7
  <2>2. SubSeq(all, 1, k) \in Seq(acked \cup wiped)
    <3>1. ASSUME NEW i \in 1..k PROVE all[i] \in acked \cup wiped
      <4>1. i \in 1..Len(log) /\ i \notin Unacked
        BY <1>2
      <4>2. log[i].at < cursor
        BY <1>2, <4>1 DEF Unacked
      <4> QED
        BY <1>0, <1>5, <4>1, <4>2 DEF PassedIsRetired
    <3>2. SubSeq(all, 0 + 1, k) = [i \in 1..(k - 0) |-> all[i + 0]]
      BY <1>2, <1>5, SubSeqIs
    <3>3. SubSeq(all, 1, k) = [i \in 1..k |-> all[i]]
      BY <1>2, <3>2
    <3> QED
      BY <1>2, <3>1, <3>3
  <2>3. SubSeq(all, k + 1, Len(all)) = VisibleFrom(k)
    <3>1. SubSeq(all, k + 1, Len(all)) = [i \in 1..(Len(all) - k) |-> all[i + k]]
      BY <1>2, <1>5, SubSeqIs
    <3>2. \A i \in 1..(Len(log) - k) : all[i + k] = log[i + k].run
      BY <1>2, <1>5
    <3> QED
      BY <1>5, <3>1, <3>2 DEF VisibleFrom
  <2>4. Visible' = all /\ Visible = VisibleFrom(k)
    BY <1>4 DEF all
  <2> QED
    BY <1>0, <2>1, <2>2, <2>3, <2>4 DEF FIFO!Redeliver
<1> QED
  BY <1>6, <1>7

\* The two files implement an at-least-once queue with no files in it: the
\* runs the phone can pull are taken from the head, in order, and come back
\* only ahead of the others and only if they were retired before.  Whatever
\* fails, as long as the cursor is not one left over from an unlinked log.
THEOREM FilesImplementQueue == Spec => ImplementsFIFO
<1>1. Init => FIFO!Init
  <2> SUFFICES ASSUME Init PROVE FIFO!Init
    OBVIOUS
  <2>1. TypeOK /\ Unacked = {} /\ acked \cup wiped = {}
    BY TypeInit DEF Init, Unacked
  <2> QED
    BY <2>1, NothingVisible DEF FIFO!Init
<1>2. IInv /\ [Next]_vars => [stale \/ FIFO!Next]_(FIFO!vars)
  <2> SUFFICES ASSUME IInv, ~stale, [Next]_vars PROVE FIFO!Next \/ UNCHANGED FIFO!vars
    OBVIOUS
  <2>0. TypeOK'
    BY TypeStep DEF IInv
  <2>1. ASSUME UNCHANGED <<log, cursor, acked, wiped>> PROVE UNCHANGED FIFO!vars
    BY <2>1, SameFiles DEF FIFO!vars
  <2>2. ASSUME AppendSynced PROVE FIFO!Next
    BY <2>0, <2>2, RefineAppend DEF FIFO!Next
  <2>3. ASSUME NEW id \in Runs, AckHead(id) PROVE FIFO!Next
    BY <2>0, <2>3, RefineAck DEF FIFO!Next
  <2>4. ASSUME CompactUnlink PROVE UNCHANGED FIFO!vars
    BY <2>4, RefineCompact
  <2>5. ASSUME WipeLog PROVE FIFO!Next \/ UNCHANGED FIFO!vars
    BY <2>5, RefineWipe DEF FIFO!Next
  <2>6. ASSUME CompactRewind \/ WipeCursor PROVE FIFO!Next \/ UNCHANGED FIFO!vars
    BY <2>0, <2>6, RefineRewind DEF FIFO!Next
  <2> QED
    BY <2>1, <2>2, <2>3, <2>4, <2>5, <2>6
       DEF Next, vars, AppendOpen, AppendShortWrite, AppendNotFlushed, AckIgnored,
           AckNotStored, CompactNotDrained, CompactRewindFails, WipeCursorFails,
           PowerLoss, OffsetStays, files, history
<1> QED
  BY <1>1, <1>2, IInvInit, IInvStep, PTL DEF Spec, ImplementsFIFO

-----------------------------------------------------------------------------
(* While a handler has unlinked the log and not yet rewound the cursor, no *)
(* append can begin, so there is nothing to show again unless one was      *)
(* already under way or the unlink failed.                                 *)
UnlinkedOrKept == host \in {"compacting", "wiping"} => log = <<>> \/ LogOpen \/ kept

LEMMA UnlinkedStep == UnlinkedOrKept /\ [Next]_vars => UnlinkedOrKept'
BY DEF UnlinkedOrKept, LogOpen, Next, vars, AppendOpen, AppendSynced, AppendShortWrite,
       AppendNotFlushed, AckHead, AckIgnored, AckNotStored, CompactUnlink, CompactNotDrained,
       CompactRewind, WipeLog, WipeCursor, CompactRewindFails, WipeCursorFails, PowerLoss,
       Unlink, OffsetStays, Rewind, files, history

\* Whatever fails, a retired run is pulled a second time only because a
\* compaction or a reset could not unlink the log: an append had it open, or
\* the flash refused.
THEOREM ReturnsOnlyIfTheLogStays == Spec => RetiredComesBackOnlyIfTheLogStays
<1> DEFINE Returns == \A r \in acked : r \notin Pending /\ r \in Pending' => LogOpen \/ kept
<1>1. Init => UnlinkedOrKept
  BY DEF Init, UnlinkedOrKept
<1>2. TypeOK /\ UnlinkedOrKept /\ [Next]_vars => [Returns]_vars
  <2> SUFFICES ASSUME TypeOK, UnlinkedOrKept, Next, NEW r, r \notin Pending, r \in Pending',
                      ~LogOpen, ~kept
               PROVE  FALSE
    OBVIOUS
  <2>1. PICK i \in DOMAIN log' : log'[i].at >= cursor' /\ log'[i].run = r
    BY DEF Pending, Unacked
  <2>2. ASSUME log' = log, cursor <= cursor', cursor' \in Nat PROVE FALSE
    <3>1. log[i].at \in Nat /\ cursor \in Nat /\ i \in DOMAIN log
      BY <2>1, <2>2, LineFields DEF TypeOK
    <3>2. log[i].at >= cursor
      BY <2>1, <2>2, <3>1
    <3> QED
      BY <2>1, <2>2, <3>1, <3>2 DEF Pending, Unacked
  <2>3. ASSUME NEW id \in Runs, AckHead(id) PROVE FALSE
    <3>1. log' = log /\ cursor' = cursor + Bytes[id] /\ Bytes[id] \in Nat
      BY <2>3, ConstantsAssumption DEF AckHead, NextHead
    <3> QED
      BY <2>2, <3>1 DEF TypeOK
  <2>4. ASSUME log' = <<>> PROVE FALSE
    BY <2>1, <2>4
  <2>5. ASSUME CompactRewind \/ WipeCursor PROVE FALSE
    BY <2>4, <2>5 DEF CompactRewind, WipeCursor, UnlinkedOrKept
  <2>6. ASSUME UNCHANGED <<log, cursor>> PROVE FALSE
    BY <2>2, <2>6 DEF TypeOK
  <2>7. ASSUME CompactUnlink \/ WipeLog PROVE FALSE
    BY <2>4, <2>6, <2>7 DEF CompactUnlink, WipeLog, Unlink
  <2> QED
    BY <2>3, <2>5, <2>6, <2>7
       DEF Next, vars, LogOpen, AppendOpen, AppendSynced, AppendShortWrite, AppendNotFlushed,
           AckIgnored, AckNotStored, CompactNotDrained, CompactRewindFails, WipeCursorFails,
           PowerLoss, OffsetStays, files
<1> QED
  BY <1>1, <1>2, TypeInit, TypeStep, UnlinkedStep, PTL DEF Spec, RetiredComesBackOnlyIfTheLogStays

=============================================================================
