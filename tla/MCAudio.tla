------------------------------- MODULE MCAudio -------------------------------
(* A day of three minutes with a window that wraps midnight, one that does  *)
(* not and none at all.                                                    *)
EXTENDS Audio

CONSTANT NoWindow

MCWindows == {<<2, 1>>, <<1, 2>>, NoWindow}

MCDefault == [volume |-> 2, quiet |-> 0, window |-> <<2, 1>>]

=============================================================================
