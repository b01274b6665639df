---------------------------- MODULE Transaction ----------------------------
(***************************************************************************)
(* What the session promises about mail transactions, with no protocol:    *)
(* at most one transaction is open; it is begun once, by an authorised     *)
(* client; it collects the recipients it accepted, in order and within the *)
(* limit; and it ends aborted, or delivered once with exactly the envelope *)
(* it collected, and the delivery is reported before anything else starts. *)
(* docs/reference/server.md, "Session State Machine", documents as much.   *)
(***************************************************************************)
EXTENDS Naturals, Sequences

CONSTANTS Senders, Recipients, MaxRecipients, SubmissionMode, NoPath

VARIABLES
    open, from, to,  \* the current transaction
    authorised,      \* the client has authenticated
    delivered        \* the delivery being reported, or Nothing

vars == <<open, from, to, authorised, delivered>>

Nothing == [from |-> NoPath, to |-> <<>>]

Init ==
    /\ open = FALSE /\ from = NoPath /\ to = <<>>
    /\ authorised = FALSE /\ delivered = Nothing

Authorise ==
    /\ ~open /\ delivered = Nothing /\ authorised' = TRUE
    /\ UNCHANGED <<open, from, to, delivered>>

Begin(s) ==
    /\ ~open /\ delivered = Nothing /\ (SubmissionMode => authorised)
    /\ open' = TRUE /\ from' = s /\ to' = <<>>
    /\ UNCHANGED <<authorised, delivered>>

AddRecipient(r) ==
    /\ open /\ Len(to) < MaxRecipients
    /\ to' = Append(to, r)
    /\ UNCHANGED <<open, from, authorised, delivered>>

End == open /\ open' = FALSE /\ from' = NoPath /\ to' = <<>> /\ UNCHANGED authorised

Abort == End /\ UNCHANGED delivered

Deliver ==
    /\ to # <<>> /\ End
    /\ delivered' = [from |-> from, to |-> to]

Report ==
    /\ delivered' = Nothing
    /\ UNCHANGED <<open, from, to, authorised>>

Next ==
    \/ Authorise \/ Abort \/ Deliver \/ Report
    \/ \E s \in Senders : Begin(s)
    \/ \E r \in Recipients : AddRecipient(r)

Spec == Init /\ [][Next]_vars
=============================================================================
