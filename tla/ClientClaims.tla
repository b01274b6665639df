---------------------------- MODULE ClientClaims ----------------------------
(* What the documentation says of the client and the code does not do;     *)
(* README.md, "Findings".                                                   *)
EXTENDS Client

\* docs/explanation/security.md:19: "always upgrade to TLS before
\* authenticating. SubmitMessage does this automatically": SubmitMessage has
\* sent no AUTH in plaintext.
SubmitAuthOverTLS ==
    api = "SubmitMessage" /\ at = "reply" /\ Doing("AUTH") => tls
=============================================================================
