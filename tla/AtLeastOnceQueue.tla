-------------------------- MODULE AtLeastOnceQueue --------------------------
(***************************************************************************)
(* What the completion queue promises the phone, with no files in it: runs *)
(* leave in the order they were completed, one at a time and only from the *)
(* head; a run that left may be delivered again, ahead of those that did   *)
(* not; a factory reset discards everything.                               *)
(***************************************************************************)
EXTENDS Naturals, Sequences

CONSTANT Runs

VARIABLES
  queue,     \* the runs the phone can pull, in order
  delivered  \* the runs that were retired, or discarded by a factory reset

vars == <<queue, delivered>>

Init == queue = <<>> /\ delivered = {}

Enqueue(r) ==
  /\ queue' = Append(queue, r)
  /\ UNCHANGED delivered

RetireHead ==
  /\ queue # <<>>
  /\ queue' = Tail(queue)
  /\ delivered' = delivered \cup {Head(queue)}

Redeliver ==
  /\ \E n \in 1..Len(queue') :
       /\ SubSeq(queue', 1, n) \in Seq(delivered)
       /\ SubSeq(queue', n + 1, Len(queue')) = queue
  /\ UNCHANGED delivered

\* A run that leaves may be back at once, with others that left before it.
RetireAndRedeliver ==
  /\ queue # <<>>
  /\ delivered' = delivered \cup {Head(queue)}
  /\ \E n \in 1..Len(queue') :
       /\ SubSeq(queue', 1, n) \in Seq(delivered')
       /\ SubSeq(queue', n + 1, Len(queue')) = Tail(queue)

Discard ==
  /\ queue' = <<>>
  /\ delivered' = delivered \cup {queue[i] : i \in DOMAIN queue}

Next ==
  \/ \E r \in Runs : Enqueue(r)
  \/ RetireHead
  \/ Redeliver
  \/ RetireAndRedeliver
  \/ Discard

Spec == Init /\ [][Next]_vars

=============================================================================
