------------------------------ MODULE RunQueue ------------------------------
(***************************************************************************)
(* The durable completion queue of components/rr_store/src/rr_store.c:     *)
(* runs.log, an append-only file with one line per completed routine, and  *)
(* cursor.json, the byte offset of the first line the phone has not yet    *)
(* acknowledged.                                                           *)
(*                                                                         *)
(* Two tasks use it.  The LVGL task appends a run when a routine ends; the *)
(* NimBLE host task acknowledges the head when RUN_ACK arrives, compacts a *)
(* drained log, and wipes it on a factory reset.  The host task has the    *)
(* higher priority, so one of its handlers may start while an append has   *)
(* the log open, but an append never runs inside a handler.  Power may     *)
(* fail between any two writes, and any operation on a file may fail.      *)
(*                                                                         *)
(* Files are LittleFS files: a write is visible, and survives power loss,  *)
(* once it is synced and not before; a write whose sync failed leaves the  *)
(* file as it was; a file that is open cannot be unlinked.                 *)
(*                                                                         *)
(* A definition introduced by "Mutant:" is not part of the model: it is a  *)
(* plausible bug in the definition that follows it, and the properties are *)
(* checked to find it.                                                     *)
(***************************************************************************)
EXTENDS Naturals, Sequences, FiniteSets

CONSTANTS
  Runs,    \* the completed runs, each queued at most once (its local_id)
  NoRun,   \* no append is in progress
  Bytes,   \* length of each run's line in the log, newline included
  Faults   \* what may go wrong: "power" is lost, the "flash" fails a call

HostPoints == {"idle", "acked", "compacting", "wiping"}

ASSUME ConstantsAssumption ==
  /\ NoRun \notin Runs
  /\ Bytes \in [Runs -> Nat \ {0}]
  /\ Faults \subseteq {"power", "flash"}

VARIABLES
  log,       \* runs.log: the lines in file order, each with its byte offset
  cursor,    \* cursor.json: byte offset of the head of the unacked region
  writing,   \* the run whose append has the log open, or NoRun
  host,      \* how far the host task is in the handler it is running
  reported,  \* runs whose rr_queue_append returned ESP_OK
  unsynced,  \* those of them whose flush failed unnoticed
  acked,     \* runs whose own RUN_ACK moved the cursor past them
  wiped,     \* runs a factory reset removed
  kept,      \* the last unlink of the log failed with no append to blame
  stale,     \* cursor.json still has the offset it had in an unlinked log
  hidden     \* runs appended behind such an offset

vars == <<log, cursor, writing, host, reported, unsynced, acked, wiped, kept, stale, hidden>>

(* What the code keeps, and what only the properties speak of. *)
files == <<log, cursor, kept, stale>>
history == <<reported, unsynced, acked, wiped, hidden>>

(***************************************************************************)
(* File geometry.                                                          *)
(***************************************************************************)
Lines == [run : Runs, at : Nat]

Line(r, at) == [run |-> r, at |-> at]

EndOf(line) == line.at + Bytes[line.run]

\* st_size of runs.log; an absent file reads as an empty one.
LogSize == IF log = <<>> THEN 0 ELSE EndOf(log[Len(log)])

\* The lines a reader that seeks to the cursor finds whole.
Unacked == {i \in DOMAIN log : log[i].at >= cursor}

Pending == {log[i].run : i \in Unacked}

\* rr_queue_count: newlines from the cursor to the end of the file.
QueueCount == Cardinality({i \in DOMAIN log : EndOf(log[i]) > cursor})

\* Mutant: local_id is not compared.
HeadAnyId(id) == \E i \in DOMAIN log : log[i].at = cursor

\* The line read_line_at() returns at the cursor parses and carries this id.
\* A cursor inside a line reads a fragment, which never does.
HeadIs(id) == \E i \in DOMAIN log : log[i] = Line(id, cursor)

\* Mutant: the newline of the retired line is forgotten.
NextHeadShort(id) == cursor + Bytes[id] - 1

NextHead(id) == cursor + Bytes[id]

LogOpen == writing # NoRun

-----------------------------------------------------------------------------
Init ==
  /\ log = <<>>
  /\ cursor = 0
  /\ writing = NoRun
  /\ host = "idle"
  /\ reported = {}
  /\ unsynced = {}
  /\ acked = {}
  /\ wiped = {}
  /\ kept = FALSE
  /\ stale = FALSE
  /\ hidden = {}

(***************************************************************************)
(* rr_queue_append, on the LVGL task: open the log and write the line, then *)
(* sync and close it.  A failed fwrite is reported and stores nothing; a   *)
(* failed fflush or fsync stores nothing either, and is not looked at.     *)
(***************************************************************************)
AppendOpen(r) ==
  /\ host = "idle"
  /\ ~LogOpen
  /\ r \notin reported
  /\ writing' = r
  /\ UNCHANGED <<files, host, history>>

AppendSynced ==
  /\ host = "idle"
  /\ LogOpen
  /\ log' = Append(log, Line(writing, LogSize))
  /\ reported' = reported \cup {writing}
  /\ hidden' = IF stale /\ LogSize < cursor THEN hidden \cup {writing} ELSE hidden
  /\ writing' = NoRun
  /\ UNCHANGED <<cursor, host, unsynced, acked, wiped, kept, stale>>

AppendShortWrite ==
  /\ host = "idle"
  /\ LogOpen
  /\ "flash" \in Faults
  /\ writing' = NoRun
  /\ UNCHANGED <<files, host, history>>

AppendNotFlushed ==
  /\ host = "idle"
  /\ LogOpen
  /\ "flash" \in Faults
  /\ reported' = reported \cup {writing}
  /\ unsynced' = unsynced \cup {writing}
  /\ writing' = NoRun
  /\ UNCHANGED <<files, host, acked, wiped, hidden>>

(***************************************************************************)
(* rr_queue_ack, on the host task: an ack of the head moves the cursor past *)
(* it and goes on to compact_if_drained; any other ack, and any ack of a   *)
(* drained queue, changes nothing.  Nor does an ack whose cursor_set could *)
(* not store the offset, whether or not it noticed.                        *)
(***************************************************************************)
AckHead(id) ==
  /\ host = "idle"
  /\ cursor < LogSize
  /\ HeadIs(id)
  /\ cursor' = NextHead(id)
  /\ acked' = acked \cup {id}
  /\ host' = "acked"
  /\ UNCHANGED <<log, writing, reported, unsynced, wiped, kept, stale, hidden>>

AckNotStored(id) ==
  /\ host = "idle"
  /\ cursor < LogSize
  /\ HeadIs(id)
  /\ "flash" \in Faults
  /\ UNCHANGED vars

AckIgnored(id) ==
  /\ host = "idle"
  /\ cursor >= LogSize \/ ~HeadIs(id)
  /\ UNCHANGED vars

\* Mutant: the log is compacted as soon as anything was acknowledged.
DrainedEarly == log # <<>> /\ cursor > 0

Drained == log # <<>> /\ cursor >= LogSize

\* Mutant: compaction rewinds the cursor and leaves the log.
UnlinkNothing == log' = log /\ kept' = FALSE

\* unlink(RUNS_PATH) fails while an append has the log open, and may fail of
\* itself; compaction does not look at its result, and a reset goes on.
Unlink ==
  \/ ~LogOpen /\ log' = <<>> /\ kept' = FALSE
  \/ LogOpen /\ log' = log /\ kept' = FALSE
  \/ ~LogOpen /\ "flash" \in Faults /\ log' = log /\ kept' = TRUE

CompactUnlink ==
  /\ host = "acked"
  /\ Drained
  /\ Unlink
  /\ host' = "compacting"
  /\ UNCHANGED <<cursor, writing, stale, history>>

CompactNotDrained ==
  /\ host = "acked"
  /\ ~Drained
  /\ host' = "idle"
  /\ UNCHANGED <<files, writing, history>>

\* Mutant: a compaction leaves the cursor where it was.
RewindForgotten == UNCHANGED <<cursor, stale>>

Rewind == cursor' = 0 /\ stale' = FALSE

CompactRewind ==
  /\ host = "compacting"
  /\ Rewind
  /\ host' = "idle"
  /\ UNCHANGED <<log, writing, kept, history>>

\* The offset stays while the log it was measured in is gone.
OffsetStays == stale' = (stale \/ (log = <<>> /\ cursor > 0)) /\ UNCHANGED cursor

\* cursor_set(0) could not open or sync the file: its result is not looked at.
CompactRewindFails ==
  /\ host = "compacting"
  /\ "flash" \in Faults
  /\ OffsetStays
  /\ host' = "idle"
  /\ UNCHANGED <<log, writing, kept, history>>

(***************************************************************************)
(* The queue's part of rr_store_factory_reset: the log is unlinked, then   *)
(* the cursor; an unlink that fails is logged, and the reset goes on.      *)
(***************************************************************************)
WipeLog ==
  /\ host = "idle"
  /\ Unlink
  /\ wiped' = IF log' = log THEN wiped ELSE wiped \cup Pending
  /\ host' = "wiping"
  /\ UNCHANGED <<cursor, writing, stale, reported, unsynced, acked, hidden>>

WipeCursor ==
  /\ host = "wiping"
  /\ cursor' = 0
  /\ stale' = FALSE
  /\ host' = "idle"
  /\ UNCHANGED <<log, writing, kept, history>>

WipeCursorFails ==
  /\ host = "wiping"
  /\ "flash" \in Faults
  /\ OffsetStays
  /\ host' = "idle"
  /\ UNCHANGED <<log, writing, kept, history>>

\* Power fails: what was not synced is gone, and the next boot starts idle.
PowerLoss ==
  /\ "power" \in Faults
  /\ OffsetStays
  /\ writing' = NoRun
  /\ host' = "idle"
  /\ UNCHANGED <<log, kept, history>>

Next ==
  \/ \E r \in Runs : AppendOpen(r)
  \/ AppendSynced
  \/ AppendShortWrite
  \/ AppendNotFlushed
  \/ \E id \in Runs : AckHead(id)
  \/ \E id \in Runs : AckNotStored(id)
  \/ \E id \in Runs : AckIgnored(id)
  \/ CompactUnlink
  \/ CompactNotDrained
  \/ CompactRewind
  \/ CompactRewindFails
  \/ WipeLog
  \/ WipeCursor
  \/ WipeCursorFails
  \/ PowerLoss

Spec == Init /\ [][Next]_vars

-----------------------------------------------------------------------------
(* The type invariant. *)
TypeOK ==
  /\ log \in Seq(Lines)
  /\ cursor \in Nat
  /\ writing \in Runs \cup {NoRun}
  /\ host \in HostPoints
  /\ reported \subseteq Runs
  /\ unsynced \subseteq Runs
  /\ acked \subseteq Runs
  /\ wiped \subseteq Runs
  /\ kept \in BOOLEAN
  /\ stale \in BOOLEAN
  /\ hidden \subseteq Runs

(* A run rr_queue_append accepted is still there for the phone to pull,    *)
(* until the phone acknowledges that very run or a factory reset discards  *)
(* it.  ("Queue a run for relay. Durable on return": rr_store.h.)  A run   *)
(* whose flush failed is the exception the code does not notice.           *)
NoReportedRunLost == reported \ unsynced \subseteq Pending \cup acked \cup wiped

(* Whatever fails, the only flushed runs that are lost are those appended  *)
(* behind an offset left over from an unlinked log: no ack, compaction,    *)
(* reset or power loss takes a run the cursor had not been left in front   *)
(* of.                                                                     *)
LostOnlyBehindStaleCursor ==
  reported \ unsynced \subseteq Pending \cup acked \cup wiped \cup hidden

(* Between handlers the count that QUEUE_STATUS reports is the number of   *)
(* runs that can be read whole from the cursor, unless the cursor is left  *)
(* over from an unlinked log: otherwise it never points inside a line,     *)
(* where every read would start with a fragment that no ack can retire.    *)
CountIsPending == host = "idle" /\ ~stale => QueueCount = Cardinality(Unacked)

(* Whatever power loss and failing flushes do to the files, a run the      *)
(* phone can pull disappears only through its own ack or a factory reset.  *)
OnlyItsAckRetiresARun ==
  [][Pending \ Pending' \subseteq acked' \cup wiped']_vars

(* A retired run comes back only when a compaction or a reset could not    *)
(* unlink the log, because an append had it open or the flash refused:     *)
(* that is the only source of a second delivery inside the watch.          *)
RetiredComesBackOnlyIfTheLogStays ==
  [][\A r \in acked : r \notin Pending /\ r \in Pending' => LogOpen \/ kept]_vars

(* The abstract promise: an at-least-once FIFO queue.                      *)
VisibleFrom(k) == [i \in 1..(Len(log) - k) |-> log[i + k].run]

Visible == VisibleFrom(Len(log) - Cardinality(Unacked))

FIFO == INSTANCE AtLeastOnceQueue WITH
          queue <- Visible, delivered <- acked \cup wiped

(* Every step of the two files is a step of that queue or none, as long as *)
(* the cursor is not one left over from an unlinked log.                   *)
ImplementsFIFO == FIFO!Init /\ [][stale \/ FIFO!Next]_(FIFO!vars)

=============================================================================
