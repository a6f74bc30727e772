---------------------------- MODULE MCScheduler ----------------------------
(* Two routines that share two minutes, and a push that swaps them and     *)
(* takes the first of these away.                                          *)
EXTENDS Scheduler

CONSTANTS a, b

Entry(id, moments) == [id |-> id, moments |-> moments]

Daily   == <<Entry(a, {2, 4}), Entry(b, {2, 4})>>
Swapped == <<Entry(b, {4}), Entry(a, {4})>>

MCRoutines == {a, b}

TwoCaches == {Daily, Swapped}

=============================================================================
