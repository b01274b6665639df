--------------------------- MODULE SessionClaims ---------------------------
(***************************************************************************)
(* Statements of the repository's documentation, comments and bundled RFCs *)
(* about a session that the code does not keep.  Each is the property of   *)
(* one run that TLC must refute; README.md, "Findings", tells the stories. *)
(***************************************************************************)
EXTENDS Session

\* docs/explanation/security.md:69: after STARTTLS "any prior authentication
\* or transaction state is cleared".
AuthClearedByTLS == [][~tls /\ tls' => ~authenticated']_vars

\* smtpserver/handler.go:33: OnData "is called when the DATA body has been
\* fully received": no accepted message is a cut one shown as complete.
BodyComplete == accepted.end # "cut"
=============================================================================
