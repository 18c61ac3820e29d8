--------------------------- MODULE SignedMessage ---------------------------
(***************************************************************************)
(* What a signature promises: a signed message that arrives as it was sent *)
(* is accepted, a message that nobody signed is not, and the receiver      *)
(* always gets an answer.  What happens to a damaged signature over the    *)
(* right message is left open.                                             *)
(***************************************************************************)
EXTENDS Naturals

CONSTANTS Messages, None

VARIABLES
    signed,   \* the message that was signed, or None
    arrived,  \* [m, intact] as it came out of the channel, or None
    verdict   \* "accept", "reject", or None
vars == <<signed, arrived, verdict>>

Init == signed = None /\ arrived = None /\ verdict = None

Sign == signed = None /\ signed' \in Messages /\ UNCHANGED <<arrived, verdict>>

Arrive ==
    /\ signed # None /\ arrived = None
    /\ arrived' \in [m : Messages, intact : BOOLEAN]
    /\ arrived'.intact => arrived'.m = signed
    /\ UNCHANGED <<signed, verdict>>

Judge ==
    /\ arrived # None /\ verdict = None
    /\ verdict' \in {"accept", "reject"}
    /\ verdict' = "accept" => arrived.m = signed
    /\ arrived.intact => verdict' = "accept"
    /\ UNCHANGED <<signed, arrived>>

Next == Sign \/ Arrive \/ Judge

Safety == Init /\ [][Next]_vars

Spec == Safety /\ WF_vars(Next)
=============================================================================
