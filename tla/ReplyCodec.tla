----------------------------- MODULE ReplyCodec -----------------------------
(***************************************************************************)
(* How an SMTPError that a callback of the server returns becomes reply    *)
(* lines, and an error of the client again: session.reply and WriteReply   *)
(* on one side, ReadReply and replyToError on the other; and WireLines,    *)
(* the formatting SMTPError offers by itself.                              *)
(* Sources: session.go, textproto/conn.go, error.go, client.go.            *)
(*                                                                         *)
(* A text is a sequence of words that are separated by spaces.  "NL" is a  *)
(* newline, and a member of EnhancedCodes a word that reads as one.        *)
(*                                                                         *)
(* The definitions named Mut* are plausible slips in the definition that   *)
(* follows them; no behaviour uses them (README, "Mutants").               *)
(***************************************************************************)
EXTENDS Integers, Sequences
LOCAL INSTANCE SequencesExt

CONSTANT EnhancedCodes

Zero == "0.0.0"
ASSUME EnhancedAssumption == EnhancedCodes \cap {Zero, "NL", "Error"} = {}

SMTPError(code, enhanced, message) ==
    [code |-> code, enhanced |-> enhanced, message |-> message]

\* strings.Split(s, "\n")
Split(s) ==
    LET split[k \in 0..Len(s)] ==
            IF k = 0 THEN <<<<>>>>
            ELSE LET before == split[k - 1] IN
                 IF s[k] = "NL" THEN Append(before, <<>>)
                 ELSE [before EXCEPT ![Len(before)] = Append(@, s[k])]
    IN split[Len(s)]

----------------------------------------------------------------------------
(* Writing *)

Line(code, sep, text) == [code |-> code, sep |-> sep, text |-> text]

\* Every text but the last is marked as continued.
Numbered(code, texts) ==
    [i \in DOMAIN texts |-> Line(code, IF i < Len(texts) THEN "-" ELSE " ", texts[i])]

\* What the peer reads: a newline inside a text breaks the line, and what
\* follows the newline has no code.
OnTheWire(line) ==
    LET parts == Split(line.text)
    IN [i \in DOMAIN parts |->
           IF i = 1 THEN Line(line.code, line.sep, parts[1])
           ELSE Line("none", "none", parts[i])]

WriteReply(code, texts) ==
    LET lines == Numbered(code, IF texts = <<>> THEN <<<<>>>> ELSE texts)
    IN FlattenSeq([i \in DOMAIN lines |-> OnTheWire(lines[i])])

Prefixed(enhanced, text) == IF enhanced = Zero THEN text ELSE <<enhanced>> \o text

\* session.reply: one line, the message as it is.
reply(e) == WriteReply(e.code, <<Prefixed(e.enhanced, e.message)>>)

\* SMTPError.WireLines: one line for each line of the message.
WireLines(e) ==
    LET texts == Split(IF e.message = <<>> THEN <<"Error">> ELSE e.message)
    IN Numbered(e.code, [i \in DOMAIN texts |-> Prefixed(e.enhanced, texts[i])])

----------------------------------------------------------------------------
(* Reading *)

\* Lines are taken up to the first that is not continued; the code is the one
\* of that line, and a line without code or separator is an error.
ReadReply(wire) ==
    LET last == CHOOSE i \in DOMAIN wire :
                    wire[i].sep # "-" /\ \A j \in 1..(i - 1) : wire[j].sep = "-"
    IN [ok |-> wire[last].sep = " ", code |-> wire[last].code,
        lines |-> [i \in 1..last |-> wire[i].text],
        left |-> SubSeq(wire, last + 1, Len(wire))]

MutKeepCode(text) ==
    IF text # <<>> /\ Head(text) \in EnhancedCodes
    THEN [code |-> Head(text), rest |-> text]
    ELSE [code |-> Zero, rest |-> text]

ParseEnhancedCode(text) ==
    IF text # <<>> /\ Head(text) \in EnhancedCodes
    THEN [code |-> Head(text), rest |-> Tail(text)]
    ELSE [code |-> Zero, rest |-> text]

\* strings.Join(lines, "\n")
Join(lines) ==
    FlattenSeq([i \in DOMAIN lines |-> IF i = 1 THEN lines[1] ELSE <<"NL">> \o lines[i]])

\* The enhanced code is cut off the message of a one-line reply only.
replyToError(r) ==
    LET parsed == ParseEnhancedCode(r.lines[1])
    IN SMTPError(r.code, parsed.code,
                 IF Len(r.lines) = 1 THEN parsed.rest ELSE Join(r.lines))
=============================================================================
