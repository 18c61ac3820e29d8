----------------------------- MODULE SeedReveal -----------------------------
(* What path and tree promise: once the hidden seeds are chosen the verifier *)
(* comes to know all the others, some at a time, and nothing else.           *)
CONSTANT Seeds
VARIABLES hidden, known

Init == hidden = Seeds /\ known = {}

\* The challenge is drawn.
Choose ==
    /\ hidden = Seeds /\ known = {}
    /\ hidden' \in SUBSET Seeds
    /\ UNCHANGED known

Reveal ==
    /\ \E more \in SUBSET ((Seeds \ hidden) \ known) :
           more # {} /\ known' = known \cup more
    /\ UNCHANGED hidden

Next == Choose \/ Reveal

Safety == Init /\ [][Next]_<<hidden, known>>

Spec == Safety /\ WF_<<hidden, known>>(Reveal)
=============================================================================
