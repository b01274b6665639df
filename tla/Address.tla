------------------------------ MODULE Address ------------------------------
(***************************************************************************)
(* The parsers of mailboxes and paths (address.go) and what the two ends   *)
(* do with them: the client formats MAIL and RCPT with an address, the     *)
(* server cuts the path out of the command and parses it.                  *)
(*                                                                         *)
(* A string is a sequence of characters.  A character is itself where the  *)
(* code looks at it; "a" stands for the letters, digits and other atext,   *)
(* "u" for a rune above 127 and "_" for a space.  An error is the record   *)
(* Error, whatever its wording.                                            *)
(*                                                                         *)
(* The definitions named Mut* are plausible slips in the definition that   *)
(* follows them; no behaviour uses them (README, "Mutants").               *)
(***************************************************************************)
EXTENDS Integers, Sequences, FiniteSets

CONSTANTS
    MaxLocal, MaxDomain, MaxLabel    \* 64, 255 and 63 octets in address.go

ASSUME LengthAssumption == {MaxLocal, MaxDomain, MaxLabel} \subseteq Nat \ {0}

First(s) == s[1]
Final(s) == s[Len(s)]
Inside(s) == SubSeq(s, 2, Len(s) - 1)
Occurs(c, s) == \E i \in DOMAIN s : s[i] = c

\* len(s): a rune above 127 takes two bytes, or more.
Size(s) == Len(s) + Cardinality({i \in DOMAIN s : s[i] = "u"})

Error == [ok |-> FALSE]
Mailbox(local, domain) == [ok |-> TRUE, local |-> local, domain |-> domain]
NullPath == [ok |-> TRUE, null |-> TRUE]

----------------------------------------------------------------------------
(* Validators *)

isAtext(c) == c \in {"a", "-"}
isDotAtomChar(c) == c = "." \/ isAtext(c)

validateDotAtom(s) ==
    /\ s # <<>> /\ First(s) # "." /\ Final(s) # "."
    /\ ~\E i \in 1..(Len(s) - 1) : s[i] = "." /\ s[i + 1] = "."
    /\ \A i \in DOMAIN s : isDotAtomChar(s[i])

\* The scan: a backslash takes the next character with it.
validateQuotedLocalPart(s) ==
    LET valid[i \in 1..(Len(s) + 2)] ==
            \/ i > Len(s)
            \/ s[i] = "\\" /\ i + 1 <= Len(s) /\ valid[i + 2]
            \/ s[i] \notin {"\\", "\""} /\ valid[i + 1]
    IN valid[1]

validateLocalPart(s) ==
    /\ s # <<>> /\ Size(s) <= MaxLocal
    /\ IF Len(s) >= 2 /\ First(s) = "\"" /\ Final(s) = "\""
       THEN validateQuotedLocalPart(Inside(s))
       ELSE validateDotAtom(s)

isDomainChar(c) == c \in {"a", "-", "u"}

\* strings.Split(domain, "."): the stretches between dots and the two ends.
Labels(s) ==
    LET cuts == {0, Len(s) + 1} \cup {i \in DOMAIN s : s[i] = "."}
    IN {SubSeq(s, i + 1, j - 1) : <<i, j>> \in
           {p \in cuts \X cuts : p[1] < p[2] /\ ~\E k \in cuts : p[1] < k /\ k < p[2]}}

validateLabel(label) ==
    /\ label # <<>> /\ Size(label) <= MaxLabel
    /\ First(label) # "-" /\ Final(label) # "-"
    /\ \A i \in DOMAIN label : isDomainChar(label[i])

\* The text of an address literal is not looked at.
validateDomain(s) ==
    /\ s # <<>> /\ Size(s) <= MaxDomain
    /\ IF First(s) = "[" THEN Final(s) = "]"
       ELSE /\ First(s) # "." /\ Final(s) # "."
            /\ \A label \in Labels(s) : validateLabel(label)

----------------------------------------------------------------------------
(* Parsers *)

MutFirstAt(s) == {i \in DOMAIN s : s[i] = "@" /\ ~Occurs("@", SubSeq(s, 1, i - 1))}

\* strings.LastIndexByte(s, '@'), as a set with at most one member.
LastAt(s) == {i \in DOMAIN s : s[i] = "@" /\ ~Occurs("@", SubSeq(s, i + 1, Len(s)))}

Local(s, i) == SubSeq(s, 1, i - 1)
Domain(s, i) == SubSeq(s, i + 1, Len(s))

ParseMailbox(s) ==
    IF \E i \in LastAt(s) : validateLocalPart(Local(s, i)) /\ validateDomain(Domain(s, i))
    THEN LET at == CHOOSE i \in LastAt(s) : TRUE
         IN Mailbox(Local(s, at), Domain(s, at))
    ELSE Error

TrimSpace(s) ==
    LET text == {i \in DOMAIN s : s[i] # "_"}
    IN IF text = {} THEN <<>>
       ELSE LET from == CHOOSE i \in text : \A j \in text : i <= j
                to == CHOOSE i \in text : \A j \in text : i >= j
            IN SubSeq(s, from, to)

MutStripRight(s) ==
    IF s # <<>> /\ First(s) = "<" THEN SubSeq(s, 2, Len(s)) ELSE s

StripBrackets(s) ==
    IF Len(s) >= 2 /\ First(s) = "<" /\ Final(s) = ">" THEN Inside(s) ELSE s

ParseReversePath(s) ==
    LET inner == StripBrackets(TrimSpace(s))
    IN IF inner = <<>> THEN NullPath ELSE ParseMailbox(inner)

ParseForwardPath(s) ==
    LET inner == StripBrackets(TrimSpace(s))
    IN IF inner = <<>> THEN Error ELSE ParseMailbox(inner)

----------------------------------------------------------------------------
(* Formatting, and the way of a path from the client to the server *)

String(m) == m.local \o <<"@">> \o m.domain

\* "MAIL FROM:<%s>" and "RCPT TO:<%s>", after the colon, with one parameter.
PathAndParams(from) == <<"<">> \o from \o <<">", "_", "a">>

\* pathStr, _, _ := strings.Cut(pathAndParams, " ")
Cut(s) ==
    LET spaces == {i \in DOMAIN s : s[i] = "_"}
    IN IF spaces = {} THEN s
       ELSE SubSeq(s, 1, (CHOOSE i \in spaces : \A j \in spaces : i <= j) - 1)

Received(from) == TrimSpace(Cut(PathAndParams(from)))

----------------------------------------------------------------------------
(* What the grammar of RFC 5321 says, read off without scanning *)

\* The number of backslashes that end s.
Backslashes(s) ==
    Len(s) - (CHOOSE i \in 0..Len(s) :
                 /\ \A j \in (i + 1)..Len(s) : s[j] = "\\"
                 /\ i = 0 \/ s[i] # "\\")

\* Every quote is escaped, and no escape is left open at the end.
QuotedContent(s) ==
    /\ \A i \in DOMAIN s :
          s[i] = "\"" => Backslashes(SubSeq(s, 1, i - 1)) % 2 = 1
    /\ Backslashes(s) % 2 = 0

\* Non-empty runs of atext, separated by single dots.
DotAtom(s) == \A atom \in Labels(s) :
    atom # <<>> /\ \A i \in DOMAIN atom : isAtext(atom[i])

LocalPart(s) ==
    /\ Size(s) <= MaxLocal
    /\ \/ DotAtom(s)
       \/ /\ Len(s) >= 2 /\ First(s) = "\"" /\ Final(s) = "\""
          /\ QuotedContent(Inside(s))

\* A literal of the grammar that contains no further "@", or labels that begin
\* and end with a letter, a digit or a rune above 127.
HostName(s) == \A label \in Labels(s) :
    /\ Size(label) \in 1..MaxLabel
    /\ {First(label), Final(label)} \subseteq {"a", "u"}
    /\ \A i \in DOMAIN label : label[i] \in {"a", "u", "-"}
Literal(s) == /\ s # <<>> /\ First(s) = "[" /\ Final(s) = "]"
DomainPart(s) == Size(s) <= MaxDomain /\ (HostName(s) \/ Literal(s))
=============================================================================
