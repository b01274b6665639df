------------------------------ MODULE MCClient ------------------------------
(* Small instances of Client for TLC. *)
EXTENDS ClientClaims

OneRecipient == {<<"x">>}
ShortBodies == {[n |-> 1, fails |-> FALSE], [n |-> 1, fails |-> TRUE]}
OneChunk == {[n |-> 1, last |-> FALSE]}
=============================================================================
