------------------------------- MODULE MCText -------------------------------
(* A small instance of Text for TLC. *)
EXTENDS Text

CharSet == {"a", "u", ".", "-", "@", "\"", "\\", "[", "]", "_"}
=============================================================================
