--------------------------- MODULE MCFramedStream ---------------------------
(* Every log of up to three lines, every offset, MTUs from one that leaves *)
(* no room for a payload to one beyond the ceiling on a value.             *)
EXTENDS FramedStream

=============================================================================
