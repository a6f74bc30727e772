---------------------------- MODULE MCQueueDrain ----------------------------
(* Frames of two to four bytes and pages of two and three, so that page  *)
(* boundaries fall on frame boundaries, inside bodies and inside length    *)
(* prefixes.                                                               *)
EXTENDS QueueDrain, TLC

CONSTANTS a, b, c

FrameSizes == a :> 3 @@ b :> 4 @@ c :> 2

=============================================================================
