---------------------------- MODULE MCStreamSign ----------------------------
(* Small instances of StreamSign for TLC. *)
EXTENDS StreamSign, FiniteSets

\* What parse_hash may return with MEDS_w = w: w indices are not 0.
Weight(w) == {c \in [Rounds -> 0..(S - 1)] : Cardinality({i \in Rounds : c[i] > 0}) = w}

\* The challenges of consecutive signatures differ.
Turned(c, k) == [i \in Rounds |-> c[(i + k) % T]]
Digests(w)   == {[k \in Keys |-> Turned(c, k)] : c \in Weight(w)}

\* The rounds of the signatures in ks take these attempts, all others one.
Retried(ks) ==
    {[k \in Keys |-> [i \in Rounds |-> IF k \in ks THEN t[i] ELSE 1]] :
        t \in [Rounds -> 1..MaxTry]}

Of(b, t, c) == [build : {b}, tries : t, ch : c]

\* Key 1, whose count line is a prefix of that of key 10, comes after one that
\* retries.
InStep == Of("small", Retried({0, 1}), Digests(2)) \cup Of("big", Retried({}), Digests(2))

BigRetry == Of("big", Retried({0}), Digests(1))
=============================================================================
