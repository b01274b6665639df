------------------------------ MODULE MCServer ------------------------------
(* Instances of Server for TLC; what is in them is in the configurations. *)
EXTENDS ServerClaims
=============================================================================
