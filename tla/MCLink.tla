------------------------------- MODULE MCLink -------------------------------
(* The phone and two strangers on a bond store of two, two connections at  *)
(* a time.                                                                 *)
EXTENDS Link

CONSTANTS s1, s2, h1, h2

NotBumped == HostPoints \ {"bumped"}

=============================================================================
