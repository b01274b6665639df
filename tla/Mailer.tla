------------------------------- MODULE Mailer -------------------------------
(***************************************************************************)
(* What SendMail and SubmitMessage promise over one connection: as long as *)
(* the connection is intact, a call returns nil exactly when its message   *)
(* has been delivered, once, to its own recipients and with its whole      *)
(* body; a call that fails has delivered nothing.  When an I/O error       *)
(* breaks the connection the fate of the message in hand is unknown.       *)
(***************************************************************************)
EXTENDS Sequences

CONSTANT Mails       \* [from, to, size, end]

VARIABLES
    sending,         \* the message of the call in progress: at most one
    delivered,       \* what has been delivered since the call began
    told,            \* what the last call returned: "nil", "error", or "none"
                     \* when it was not one of these
    intact           \* no call has ended on an I/O error

vars == <<sending, delivered, told, intact>>

Init == sending = {} /\ delivered = <<>> /\ told = "none" /\ intact = TRUE

Submit(m) ==
    /\ intact /\ sending = {} /\ sending' = {m} /\ told' = "none"
    /\ UNCHANGED <<delivered, intact>>

Deliver(m) ==
    /\ intact /\ sending = {m} /\ delivered = <<>>
    /\ delivered' = <<m>> /\ UNCHANGED <<sending, told, intact>>

Succeed(m) ==
    /\ intact /\ sending = {m} /\ delivered = <<m>> /\ told' = "nil"
    /\ sending' = {} /\ delivered' = <<>> /\ UNCHANGED intact

Fail ==
    /\ intact /\ sending # {} /\ delivered = <<>> /\ told' = "error"
    /\ sending' = {} /\ UNCHANGED <<delivered, intact>>

\* The application makes a call that sends no message.
Other ==
    /\ intact /\ sending = {} /\ told' = "none"
    /\ UNCHANGED <<sending, delivered, intact>>

\* The connection breaks, and stays broken.
Break == intact /\ intact' = FALSE
Broken == ~intact /\ ~intact'

Next == \/ \E m \in Mails : Submit(m) \/ Deliver(m) \/ Succeed(m)
        \/ Fail \/ Other \/ Break \/ Broken

Spec == Init /\ [][Next]_vars
=============================================================================
