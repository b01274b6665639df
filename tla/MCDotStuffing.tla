--------------------------- MODULE MCDotStuffing ---------------------------
(* A small instance of DotStuffing for TLC. *)
EXTENDS DotStuffing
=============================================================================
