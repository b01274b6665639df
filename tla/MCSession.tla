----------------------------- MODULE MCSession -----------------------------
(* Small instances of Session for TLC. *)
EXTENDS SessionClaims

Bare(v) == [verb |-> v, arg |-> Empty, opt |-> Empty, n |-> 0]
With(v, a) == [Bare(v) EXCEPT !.arg = a]
Plain(resp) == [With("AUTH", "PLAIN") EXCEPT !.opt = resp]
Bdat(size, opt) == [With("BDAT", "size") EXCEPT !.n = size, !.opt = opt]

MailLines ==
    {With("EHLO", "h"), With("MAIL", "a"), With("MAIL", "junk"),
     With("RCPT", "x"), With("RCPT", "y"), With("RCPT", "junk"),
     Bare("DATA"), Bare("."), Bare("TEXT"),
     Bare("RSET")}

ChunkLines ==
    {Bdat(1, Empty), Bdat(1, "LAST"),
     Bdat(0, "LAST"), With("BDAT", "junk")}

GreetingLines ==
    {With("EHLO", "h"), Bare("EHLO"), With("HELO", "h"),
     Bare("HELO")}

OtherLines ==
    {Bare("NOOP"), With("VRFY", "u"), With("EXPN", "l"),
     Bare("QUIT"), Bare("NUL")}

AuthLines ==
    {With("AUTH", "PLAIN"), Plain("good"),
     Plain("malformed"), With("AUTH", "LOGIN"),
     With("AUTH", "CRAM-MD5"), With("AUTH", "GSSAPI"),
     With("b64", "good"), Bare("*")}

SenderSet == {"a"}
RecipientSet == {"x", "y"}

\* One transaction after another, by DATA and by BDAT; no AUTH, no TLS.
TransactionInput == MailLines \cup ChunkLines
    \cup {Bare("STARTTLS"), With("AUTH", "PLAIN")}

\* STARTTLS with commands pipelined around it.
PipelineInput ==
    {With("EHLO", "h"), With("MAIL", "a"), With("RCPT", "x"),
     Bare("DATA"), Bare("."), Plain("good"),
     With("HELO", "h"), Bare("STARTTLS")}

\* Every AUTH exchange, every stateless command and every malformed line.
SubmissionInput == GreetingLines \cup AuthLines \cup OtherLines
    \cup {Bare("LONG"), With("MAIL", "a"), With("RCPT", "x"),
          Bare("DATA"), Bare("."),
          Bdat(1, "LAST"), Bare("STARTTLS")}

\* Enough to complete one message each way.
ClaimInput ==
    {With("EHLO", "h"), With("MAIL", "a"), With("RCPT", "x"),
     Bare("DATA"), Bare("."), Bare("TEXT"),
     Bdat(1, Empty), Bdat(1, "LAST"),
     With("AUTH", "PLAIN"), With("b64", "good"),
     Bare("STARTTLS")}
=============================================================================
