-------------------------------- MODULE Text --------------------------------
(***************************************************************************)
(* The text the two ends exchange: an address an application hands to the  *)
(* client, and an error a callback returns to the server.  A behaviour     *)
(* spells one of them, a character or a word at a time; the properties     *)
(* say of each what its way through the wire makes of it.                  *)
(***************************************************************************)
EXTENDS Address, ReplyCodec

CONSTANTS
    Chars, Words,    \* what addresses and messages are spelt with
    MaxChars,        \* bound: characters of an address
    MaxWords         \* bound: words of a message

VARIABLES
    address,         \* the argument of Mail or Rcpt
    message          \* the Message of an SMTPError

vars == <<address, message>>

Init == address = <<>> /\ message = <<>>

spellAddress(c) ==
    /\ message = <<>> /\ Len(address) < MaxChars
    /\ address' = Append(address, c) /\ UNCHANGED message

spellMessage(w) ==
    /\ address = <<>> /\ Len(message) < MaxWords
    /\ message' = Append(message, w) /\ UNCHANGED address

Spelt == (Len(address) = MaxChars \/ Len(message) = MaxWords) /\ UNCHANGED vars

Next == \/ \E c \in Chars : spellAddress(c)
        \/ \E w \in Words : spellMessage(w)
        \/ Spelt

Spec == Init /\ [][Next]_vars
----------------------------------------------------------------------------
(* Properties *)

\* The places where the grammar allows an address to be split.
Splits == {i \in DOMAIN address :
              /\ address[i] = "@"
              /\ LocalPart(Local(address, i)) /\ DomainPart(Domain(address, i))}

\* ParseMailbox, which validates by scanning and splits at the last "@",
\* accepts what the grammar does when no "@" follows the split, and an address
\* it accepts can be read in no other way.
MailboxGrammar ==
    LET parsed == ParseMailbox(address)
        last == {i \in Splits : ~Occurs("@", Domain(address, i))}
    IN /\ parsed.ok <=> last # {}
       /\ parsed.ok => \A i \in Splits :
             parsed = Mailbox(Local(address, i), Domain(address, i))

\* An address without spaces that the client sends in MAIL or RCPT is, for the
\* server, the mailbox it is for the parser, and is spelt the same again; an
\* address with a space in it is cut at the space and never taken for another.
PathRoundTrip ==
    LET parsed == ParseMailbox(address)
        from == ParseReversePath(Received(address))
        to == ParseForwardPath(Received(address))
    IN IF address = <<>> THEN from = NullPath /\ to = Error
       ELSE IF Occurs("_", address) THEN from = Error /\ to = Error
       ELSE /\ from = parsed /\ to = parsed
            /\ ParseForwardPath(address) = parsed
            /\ parsed.ok => String(parsed) = address

\* An error a callback returns is the error the client's call returns, if its
\* message is one line and does not itself begin with an enhanced code; a
\* newline in the message leaves lines in the stream for the next command.
\* WireLines would leave none: every line of the message gets its code.
ErrorRoundTrip ==
    \A enhanced \in EnhancedCodes \cup {Zero} :
        LET e == SMTPError(550, enhanced, message)
            r == ReadReply(reply(e))
            w == ReadReply(WireLines(e))
            oneLine == ~Occurs("NL", message)
        IN /\ r.ok /\ (r.left = <<>> <=> oneLine)
           /\ oneLine /\ (enhanced = Zero => ParseEnhancedCode(message).code = Zero)
                 => replyToError(r) = e
           /\ w.ok /\ w.code = 550 /\ w.left = <<>>
           /\ oneLine /\ message # <<>> => w = r
           /\ enhanced # Zero => replyToError(w).enhanced = enhanced
=============================================================================
