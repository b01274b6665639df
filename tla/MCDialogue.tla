----------------------------- MODULE MCDialogue -----------------------------
(* A small instance of Dialogue for TLC. *)
EXTENDS Dialogue

TwoRecipients == {<<"x", "y">>}
Readers == {[n |-> 1, fails |-> FALSE], [n |-> 1, fails |-> TRUE]}
OneChunk == {[n |-> 1, last |-> TRUE]}
SenderSet == {"a"}
RecipientSet == {"x", "y"}
=============================================================================
