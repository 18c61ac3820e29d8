----------------------------- MODULE MCKeyPair -----------------------------
(* A small instance of KeyPair for TLC. *)
EXTENDS KeyPair

\* The primes of params.h.
MCFields == {8191, 4093, 2039}

\* Samples of the draws modulo 3, with regular and singular matrices and with
\* zero pivots that the next row repairs, a later one, or none.
MCValues == {[k \in 0..2 |-> [j \in 3..8 |-> ((17 * k + 5 * j * j * j + 11 * j * k * k + a) % 31) % 3]] :
                a \in {1, 2, 7}}

MCDraws == {[r \in 0..2 |-> [c \in 0..2 |->
                IF r = c THEN f ELSE (a * r * r + b * r * c + d * c * c * r + r + 2 * e * c) % 3]] :
                a \in 0..2, b \in 0..2, d \in 0..1, e \in 0..1, f \in 0..2}
=============================================================================
