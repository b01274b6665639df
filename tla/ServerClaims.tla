---------------------------- MODULE ServerClaims ----------------------------
(***************************************************************************)
(* What the comments of smtpserver/server.go promise of Shutdown and       *)
(* ListenAndServe, and the code does not keep.  README, "Findings".        *)
(***************************************************************************)
EXTENDS Server

\* "It blocks until the server is shut down": ListenAndServe returns once it is.
ServeEndsOnShutdown == quit ~> serve = "returned" \/ crashed
=============================================================================
