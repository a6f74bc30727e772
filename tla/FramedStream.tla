---------------------------- MODULE FramedStream ----------------------------
(***************************************************************************)
(* One QUEUE_PULL read: queue_pull_access_cb of components/rr_ble/src/     *)
(* rr_ble.c sizing a page to the connection, and rr_queue_read_framed of   *)
(* components/rr_store/src/rr_store.c filling it.                          *)
(*                                                                         *)
(* The log holds a line per run; the wire carries a two byte length and    *)
(* then the line, so neither the frames nor their bytes are where they are *)
(* in the file.  read_framed builds a page by walking the lines without    *)
(* ever holding the stream; here one step is one turn of its loop, and the *)
(* page it ends with is compared with the slice of the whole stream.       *)
(*                                                                         *)
(* A byte is the pair of its record and its place in the frame.            *)
(***************************************************************************)
EXTENDS Integers, Sequences, SequencesExt

CONSTANTS
  MaxRecords, MaxLen, \* bounds: records in the unacked region, bytes in a record
  RecordMax,          \* QUEUE_RECORD_MAX: line_len_at gives up on longer lines
  Prefix,             \* RR_QUEUE_FRAME_PREFIX_BYTES
  Header,             \* RR_QUEUE_PULL_HEADER_SIZE
  MaxValue,           \* RR_QUEUE_PULL_MAX_VALUE, the ceiling on an ATT value
  MTUs,               \* the MTUs a connection may have
  PreExisting         \* bytes the buffer may hold before the handler runs

ASSUME FramedStreamAssumption ==
  /\ {MaxRecords, MaxLen, RecordMax, Prefix, Header, MaxValue} \subseteq Nat
  /\ Header < MaxValue
  /\ MTUs \subseteq Nat \ {0}
  /\ PreExisting \subseteq Nat

VARIABLES
  lens,   \* the lengths of the unacked lines
  seek,   \* s_pull_offset, as queue_seek left it
  mtu,    \* the connection's MTU
  pre,    \* bytes already in the response buffer
  rec,    \* the record whose line starts at `off`
  base,   \* framed_base: wire offset of that record's frame
  out,    \* the bytes written so far
  walking \* the loop has not ended

args == <<lens, seek, mtu, pre>>
readVars == <<lens, seek, mtu, pre, rec, base, out, walking>>

(***************************************************************************)
(* The stream as the contract defines it: every frame, end to end.         *)
(***************************************************************************)
FrameSize(r) == lens[r] + Prefix

WireFrame(r) == [k \in 1..FrameSize(r) |-> <<r, k>>]

\* Records the line scanner can measure: all of them, up to the first one
\* that is too long.
Measurable == {r \in DOMAIN lens : \A q \in 1..r : lens[q] <= RecordMax}

Measured == Cardinality(Measurable)

Wire == FlattenSeq([r \in 1..Measured |-> WireFrame(r)])

\* rr_queue_framed_size: the lines are added up until one cannot be measured.
EndOf[r \in 0..Len(lens)] == IF r = 0 THEN 0 ELSE EndOf[r - 1] + FrameSize(r)

FramedSize == EndOf[Measured]

(***************************************************************************)
(* queue_pull_access_cb: where the page starts and how much it may hold.   *)
(***************************************************************************)
AtLeast0(n) == IF n < 0 THEN 0 ELSE n

AtMost(n, cap) == IF n > cap THEN cap ELSE n

PageOffset == AtMost(seek, FramedSize)

PageCap == AtMost(AtLeast0(mtu - 1 - Header), MaxValue - Header)

\* Mutant: the ceiling forgets what the buffer already holds.
MaxPayloadOfEmpty == AtLeast0(MaxValue - Header)

MaxPayload == AtLeast0(MaxValue - pre - Header)

Payload == SubSeq(out, 1, AtMost(Len(out), MaxPayload))

\* Mutant: MORE is set whenever the page is full.
MoreWhenFull == Len(Payload) = PageCap

More == PageOffset + Len(Payload) < FramedSize

-----------------------------------------------------------------------------
ReadInit ==
  /\ lens \in SeqOf(1..MaxLen, MaxRecords)
  /\ seek \in 0..(MaxRecords * (MaxLen + Prefix) + 1)
  /\ mtu \in MTUs
  /\ pre \in PreExisting
  /\ rec = 1
  /\ base = 0
  /\ out = <<>>
  /\ walking = (PageOffset < FramedSize /\ PageCap > 0)

Room == PageCap - Len(out)

\* The loop condition, and line_len_at finding a line it can measure.
AtFrame == walking /\ rec \in DOMAIN lens /\ Room > 0 /\ lens[rec] <= RecordMax

\* Mutant: a frame the page starts inside is skipped whole.
BeforeWindowAny == PageOffset > base

BeforeWindow == PageOffset >= base + FrameSize(rec)

\* Where the copy starts inside the frame.
Within == AtLeast0(PageOffset - base)

PrefixPart ==
  [k \in 1..AtMost(AtLeast0(Prefix - Within), Room) |-> <<rec, Within + k>>]

\* Mutant: the body is copied from its start whatever the offset.
BodyFromStart ==
  LET skipped == Within + Len(PrefixPart)
      want    == AtMost(lens[rec], Room - Len(PrefixPart))
  IN  IF skipped < Prefix THEN <<>> ELSE [k \in 1..want |-> <<rec, Prefix + k>>]

BodyPart ==
  LET skipped == Within + Len(PrefixPart)
      want    == AtMost(FrameSize(rec) - skipped, Room - Len(PrefixPart))
  IN  IF skipped < Prefix THEN <<>> ELSE [k \in 1..want |-> <<rec, skipped + k>>]

NextFrame == base' = base + FrameSize(rec) /\ rec' = rec + 1

SkipFrame ==
  /\ AtFrame
  /\ BeforeWindow
  /\ NextFrame
  /\ UNCHANGED <<out, walking, args>>

CopyFrame ==
  /\ AtFrame
  /\ ~BeforeWindow
  /\ out' = out \o PrefixPart \o BodyPart
  /\ NextFrame
  /\ UNCHANGED <<walking, args>>

EndWalk ==
  /\ walking
  /\ ~AtFrame
  /\ walking' = FALSE
  /\ UNCHANGED <<rec, base, out, args>>

ReadNext == SkipFrame \/ CopyFrame \/ EndWalk

ReadSpec == ReadInit /\ [][ReadNext]_readVars

-----------------------------------------------------------------------------
(* The type invariant. *)
ReadTypeOK ==
  /\ base \in Nat
  /\ rec \in 1..(Len(lens) + 1)
  /\ Len(out) <= PageCap
  /\ walking \in BOOLEAN

(* The page a read serves is exactly the slice of the framed stream that   *)
(* starts at the offset it echoes, whatever frame or length prefix the     *)
(* page boundaries cut through, so pages sought end to end reassemble.     *)
PageIsSlice ==
  ~walking =>
    Payload = SubSeq(Wire, PageOffset + 1,
                     AtMost(PageOffset + AtMost(PageCap, MaxPayload), FramedSize))

(* MORE is set exactly when bytes of the stream remain behind the page:    *)
(* the phone's only way to know that a drain is complete.                  *)
MoreIsTruthful ==
  ~walking => (More <=> \E n \in 1..Len(Wire) : n > PageOffset + Len(Payload))

(* The value never exceeds the ceiling on an attribute, even when the      *)
(* buffer was not empty: over it, the packet is dropped and the drain      *)
(* stalls.                                                                 *)
ValueFits == ~walking => pre + Header + Len(Payload) <= MaxValue \/ Payload = <<>>

=============================================================================
