------------------------------ MODULE MCGlass ------------------------------
(* Two routines, so that an offer can replace another and an index can be  *)
(* wrong; a push changes the number of their steps, or moves one to the    *)
(* other's place.                                                          *)
EXTENDS Glass

CONSTANTS a, b

Entry(id, steps) == [id |-> id, steps |-> steps]

MCRoutines == {a, b}

MCCaches == {<<Entry(a, 1), Entry(b, 2)>>, <<Entry(b, 1)>>}

\* The watch boots paired; a factory reset takes it to the QR code.
PairedInit == Init /\ childKnown

BootsPaired == PairedInit /\ [][Next]_vars /\ Fairness

=============================================================================
