----------------------------- MODULE MCRunQueue -----------------------------
(* Three runs whose lines have different lengths, so that a byte offset    *)
(* left over from one log falls inside a line of the next.                 *)
EXTENDS RunQueue, TLC

CONSTANTS r1, r2, r3

MCRuns == {r1, r2, r3}

MCBytes == r1 :> 2 @@ r2 :> 3 @@ r3 :> 5

AnyFault == {"power", "flash"}

OnlyPowerLoss == {"power"}

=============================================================================
