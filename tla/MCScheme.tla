------------------------------ MODULE MCScheme ------------------------------
(* A small instance of Scheme for TLC. *)
EXTENDS Scheme

Mat(a, b, c, d) ==
    CHOOSE X \in [0..1 -> [0..1 -> 0..2]] : X[0][0] = a /\ X[0][1] = b /\ X[1][0] = c /\ X[1][1] = d

\* One of the draws does not lead to a systematic form.
MCTilde == {[A |-> Mat(0, 1, 2, 1), B |-> Mat(1, 1, 0, 1)],
            [A |-> Mat(1, 1, 2, 1), B |-> Mat(1, 1, 0, 1)],
            [A |-> Mat(1, 1, 2, 1), B |-> Mat(0, 1, 1, 0)]}

\* A singular matrix, and a regular one that some key takes to a code without a
\* systematic form.
MCDamaged == {Mat(1, 1, 1, 1), Mat(1, 1, 0, 1)}

MCSysDraws == {[r \in 0..1 |-> [c \in 2..3 |-> r + 1]]}

MCKeyDraws(r) ==
    IF r = 1 THEN {[Ti |-> Mat(0, 1, 1, 0), Amm |-> 1]} ELSE {[Ti |-> Mat(1, 0, 2, 1), Amm |-> 2]}
=============================================================================
