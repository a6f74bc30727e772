----------------------------- MODULE QueueDrain -----------------------------
(***************************************************************************)
(* Draining the completion queue over the air: queue_seek, QUEUE_PULL,     *)
(* RUN_ACK and QUEUE_STATUS of components/rr_ble/src/rr_ble.c, and the     *)
(* phone that uses them.                                                   *)
(*                                                                         *)
(* The queue is that of RunQueue without its files, and without the power  *)
(* losses studied there; what a page holds, byte for byte, is the subject  *)
(* of FramedStream, so here a page is the slice of the stream it was       *)
(* checked to be.  A byte is the pair of its run and its place in the      *)
(* frame.                                                                  *)
(*                                                                         *)
(* The phone is not in this repository: its actions are the contract of    *)
(* tools/watchProtocol.ts.  It keeps the read position, seeks before a     *)
(* page, drops a pass whose page does not echo that position, relays a run *)
(* once its frame is whole, and acknowledges it only after that.  Its      *)
(* reads may reach the watch more than once, its acknowledgements may be   *)
(* executed and never answered, its seeks may be forgotten or go past the  *)
(* end, and its link drops.                                                *)
(***************************************************************************)
EXTENDS Naturals, Sequences, SequencesExt

CONSTANTS
  Runs,            \* the completed runs
  Size,            \* bytes of each run's frame, length prefix included
  Caps,            \* what a page may hold; the MTU can change between reads
  Spliced, NoPage, \* a frame that is no run's; no read has been served
  FarOffset,       \* an offset past the end of any stream
  MaxInbox, MaxDrops, MaxStrays, MaxRedeliveries \* bounds

ASSUME QueueDrainAssumption ==
  /\ Size \in [Runs -> Nat \ {0, 1}]
  /\ Caps \subseteq Nat \ {0}
  /\ Spliced \notin Runs
  /\ {FarOffset, MaxInbox, MaxDrops, MaxStrays, MaxRedeliveries} \subseteq Nat

VARIABLES
  queue,    \* the unacknowledged runs, in order
  retired,  \* the runs whose RUN_ACK moved the cursor
  passed,   \* retired runs the log still holds, ahead of the cursor
  pull,     \* s_pull_offset: where the next QUEUE_PULL page starts
  link,     \* a phone is connected, encrypted and subscribed
  page,     \* the page served to the outstanding read, the last one if several
  phone,    \* see Phones
  relayed,  \* runs the phone has handed to the server
  spent     \* drops, stray seeks and redeliveries so far

vars == <<queue, retired, passed, pull, link, page, phone, relayed, spent>>

store == <<queue, retired, passed>>

Bytes == Runs \X Nat

Phones ==
  [at    : {"idle", "sought", "reading", "decoding"},
   sought : BOOLEAN,                 \* the outstanding read was sought
   want  : Nat,                      \* the offset of the next page
   tail  : Seq(Bytes),               \* bytes not yet part of a whole frame
   inbox : Seq(Runs \cup {Spliced}), \* decoded, not yet acknowledged
   told  : Nat]                      \* the depth QUEUE_STATUS last reported

\* The phone gives up the pass and will start the next one at the head.
Restart(p) ==
  [p EXCEPT !.at = "idle", !.sought = FALSE, !.want = 0, !.tail = <<>>]

-----------------------------------------------------------------------------
Frame(r) == [k \in 1..Size[r] |-> <<r, k>>]

Stream == FlattenSeq([i \in DOMAIN queue |-> Frame(queue[i])])

Total == Len(Stream)

Offset == IF pull > Total THEN Total ELSE pull

\* Mutant: the payload starts at the frame the offset falls in.
PageFromFrame(cap) ==
  LET start == CHOOSE s \in 0..Offset :
                 /\ s = Total \/ Stream[s + 1][2] = 1
                 /\ \A n \in (s + 1)..Offset : n # Total /\ Stream[n + 1][2] # 1
      end == IF start + cap > Total THEN Total ELSE start + cap
  IN  [offset |-> Offset, bytes |-> SubSeq(Stream, start + 1, end),
       more   |-> end < Total]

Page(cap) ==
  LET end == IF Offset + cap > Total THEN Total ELSE Offset + cap
  IN  [offset |-> Offset, bytes |-> SubSeq(Stream, Offset + 1, end),
       more   |-> end < Total]

\* Mutant: a read advances the position, as before contract v3.
PullAfterPage(p) == p.offset + Len(p.bytes)

PullAfter(p) == pull

AcksHead(r) == queue # <<>> /\ Head(queue) = r

-----------------------------------------------------------------------------
Init ==
  /\ queue = <<>>
  /\ retired = {}
  /\ passed = <<>>
  /\ pull = 0
  /\ link = FALSE
  /\ page = NoPage
  /\ phone = [at |-> "idle", sought |-> FALSE, want |-> 0, tail |-> <<>>,
              inbox |-> <<>>, told |-> 0]
  /\ relayed = {}
  /\ spent = [drops |-> 0, strays |-> 0, redeliveries |-> 0]

\* A routine ends.  The append tells the face and the advertiser; nothing
\* tells a connected phone.
RoutineEnds(r) ==
  /\ r \notin retired \cup ToSet(queue)
  /\ queue' = Append(queue, r)
  /\ UNCHANGED <<retired, passed, pull, link, page, phone, relayed, spent>>

\* The phone connects and subscribes, and is told the depth of the queue.
Connect ==
  /\ ~link
  /\ link' = TRUE
  /\ pull' = 0
  /\ phone' = [Restart(phone) EXCEPT !.told = Len(queue)]
  /\ UNCHANGED <<store, page, relayed, spent>>

LinkLost(inbox) ==
  /\ link' = FALSE
  /\ pull' = 0
  /\ page' = NoPage
  /\ phone' = [Restart(phone) EXCEPT !.told = 0, !.inbox = inbox]

\* The link drops, or the watch restarts, in the middle of whatever they were
\* doing.  The phone may or may not keep the runs it has not acknowledged.
Drop ==
  /\ link
  /\ spent.drops < MaxDrops
  /\ \E kept \in {phone.inbox, <<>>} : LinkLost(kept)
  /\ spent' = [spent EXCEPT !.drops = @ + 1]
  /\ UNCHANGED <<store, relayed>>

\* The phone ends a session in which it has nothing left to do.
HangUp ==
  /\ link
  /\ phone.at = "idle" /\ phone.told = 0 /\ phone.inbox = <<>>
  /\ LinkLost(<<>>)
  /\ UNCHANGED <<store, relayed, spent>>

-----------------------------------------------------------------------------
(* queue_seek and QUEUE_PULL. *)
WantsPage ==
  link /\ phone.at = "idle" /\ phone.told > 0 /\ Len(phone.inbox) < MaxInbox

Seek ==
  /\ WantsPage
  /\ pull' = phone.want
  /\ phone' = [phone EXCEPT !.at = "sought", !.sought = TRUE]
  /\ UNCHANGED <<store, link, page, relayed, spent>>

\* The seek is forgotten, or goes past the end, which is not an error.
StraySeek ==
  /\ WantsPage
  /\ spent.strays < MaxStrays
  /\ pull' \in {pull, FarOffset}
  /\ phone' = [phone EXCEPT !.at = "sought", !.sought = FALSE]
  /\ spent' = [spent EXCEPT !.strays = @ + 1]
  /\ UNCHANGED <<store, link, page, relayed>>

\* One read of the phone may be served any number of times; it sees the last.
Serve(cap) ==
  /\ link
  /\ phone.at \in {"sought", "reading"}
  /\ page' = Page(cap)
  /\ pull' = PullAfter(page')
  /\ phone' = [phone EXCEPT !.at = "reading"]
  /\ UNCHANGED <<store, link, relayed, spent>>

Accept ==
  /\ link
  /\ phone.at = "reading"
  /\ page.offset = phone.want
  /\ phone' = [phone EXCEPT !.at = "decoding", !.want = @ + Len(page.bytes),
                            !.tail = @ \o page.bytes]
  /\ UNCHANGED <<store, pull, link, page, relayed, spent>>

Desync ==
  /\ link
  /\ phone.at = "reading"
  /\ page.offset # phone.want
  /\ phone' = Restart(phone)
  /\ page' = NoPage
  /\ UNCHANGED <<store, pull, link, relayed, spent>>

-----------------------------------------------------------------------------
(* decodeQueuePull: the two length bytes say how long the frame is. *)
Length == Size[phone.tail[1][1]]

HasFrame == Len(phone.tail) >= 2 /\ Len(phone.tail) >= Length

Decode ==
  /\ phone.at = "decoding"
  /\ HasFrame
  /\ LET taken == SubSeq(phone.tail, 1, Length)
         run   == taken[1][1]
     IN  phone' = [phone EXCEPT
           !.inbox = Append(@, IF taken = Frame(run) THEN run ELSE Spliced),
           !.tail  = SubSeq(@, Length + 1, Len(@))]
  /\ UNCHANGED <<store, pull, link, page, relayed, spent>>

PageDone ==
  /\ phone.at = "decoding"
  /\ ~HasFrame
  /\ phone' = IF page.more THEN [phone EXCEPT !.at = "idle"]
              ELSE [Restart(phone) EXCEPT !.told = 0]
  /\ page' = NoPage
  /\ UNCHANGED <<store, pull, link, relayed, spent>>

RelayHead ==
  /\ phone.inbox # <<>>
  /\ Head(phone.inbox) \in Runs \ relayed
  /\ relayed' = relayed \cup {Head(phone.inbox)}
  /\ UNCHANGED <<store, pull, link, page, phone, spent>>

-----------------------------------------------------------------------------
(* RUN_ACK.  The run at the head is retired; the run that drains the log   *)
(* compacts it, unless an append has it open: then the cursor goes back to *)
(* the start of a log that is still there.  Any other ack retires nothing. *)
Retire(charged) ==
  /\ retired' = retired \cup {Head(queue)}
  /\ \/ /\ Len(queue) > 1
        /\ queue' = Tail(queue)
        /\ passed' = Append(passed, Head(queue))
        /\ spent' = charged
     \/ /\ Len(queue) = 1
        /\ queue' = <<>>
        /\ passed' = <<>>
        /\ spent' = charged
     \/ /\ Len(queue) = 1
        /\ spent.redeliveries < MaxRedeliveries
        /\ queue' = Append(passed, Head(queue))
        /\ passed' = <<>>
        /\ spent' = [charged EXCEPT !.redeliveries = @ + 1]

RunAck(r, charged) ==
  \/ AcksHead(r) /\ Retire(charged)
  \/ ~AcksHead(r) /\ spent' = charged /\ UNCHANGED store

CanAck ==
  /\ link
  /\ phone.at \in {"idle", "sought"}
  /\ phone.inbox # <<>>
  /\ Head(phone.inbox) \in relayed

\* The handler ends by resetting the offset and notifying QUEUE_STATUS.
Ack ==
  /\ CanAck
  /\ RunAck(Head(phone.inbox), spent)
  /\ pull' = 0
  /\ phone' = [Restart(phone) EXCEPT !.inbox = Tail(@), !.told = Len(queue')]
  /\ UNCHANGED <<link, page, relayed>>

\* The watch executes the ack, and the link drops before it is answered.
AckUnanswered ==
  /\ CanAck
  /\ spent.drops < MaxDrops
  /\ RunAck(Head(phone.inbox), [spent EXCEPT !.drops = @ + 1])
  /\ LinkLost(phone.inbox)
  /\ UNCHANGED relayed

Next ==
  \/ \E r \in Runs : RoutineEnds(r)
  \/ Connect \/ Drop \/ HangUp
  \/ Seek \/ StraySeek
  \/ \E cap \in Caps : Serve(cap)
  \/ Accept \/ Desync \/ Decode \/ PageDone
  \/ RelayHead \/ Ack \/ AckUnanswered

(* A phone that is near reconnects, keeps draining and ends its sessions,  *)
(* and the watch answers what it is asked.                                 *)
Fairness ==
  /\ WF_vars(Connect) /\ WF_vars(HangUp)
  /\ WF_vars(Seek) /\ WF_vars(\E cap \in Caps : Serve(cap))
  /\ WF_vars(Accept) /\ WF_vars(Desync) /\ WF_vars(Decode) /\ WF_vars(PageDone)
  /\ WF_vars(RelayHead) /\ WF_vars(Ack)

Spec == Init /\ [][Next]_vars /\ Fairness

-----------------------------------------------------------------------------
(* The type invariant. *)
TypeOK ==
  /\ queue \in Seq(Runs) /\ passed \in Seq(Runs)
  /\ retired \subseteq Runs /\ relayed \subseteq Runs
  /\ pull \in Nat
  /\ link \in BOOLEAN
  /\ page = NoPage \/ page.offset \in 0..Total
  /\ phone \in Phones

(* A page that was asked for with a seek is the page that was sought, and  *)
(* not one a repeated read, an earlier ack or an append moved it to: a     *)
(* drain that follows the contract is never turned away.                   *)
SoughtPageIsServed ==
  phone.at = "reading" /\ phone.sought => page.offset = phone.want

(* Every frame the phone takes out of the stream is a whole run, however   *)
(* the pages cut it and whatever happened between two of them: runs queued, *)
(* links dropped, reads repeated, seeks gone astray, acks of other runs.   *)
NothingSpliced == Spliced \notin ToSet(phone.inbox)

(* With a phone near, every completed run is retired sooner or later: not  *)
(* announcing a run that ends during a session delays it to the next one.  *)
EveryRunIsRetired == \A r \in Runs : r \in ToSet(queue) ~> r \in retired

(* The queue the phone drains keeps the promise that the watch's files     *)
(* were shown to keep: whatever is read, sought, acknowledged, cut off or  *)
(* queued in between, runs are taken from the head, in order, and come     *)
(* back only ahead of the others and only if they were retired before.     *)
FIFO == INSTANCE AtLeastOnceQueue WITH delivered <- retired

ImplementsFIFO == FIFO!Spec

=============================================================================
