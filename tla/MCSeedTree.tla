----------------------------- MODULE MCSeedTree -----------------------------
(* Small instances of SeedTree for TLC. *)
EXTENDS SeedTree

Powers == [n \in 0..H |-> 2^n]

\* parse_hash with MEDS_w = W, the challenged leaves listed in order.
AllChallenges ==
    LET up[n \in 1..W] ==
            IF n = 1 THEN {<<leaf>> : leaf \in Leaves}
            ELSE UNION {{Append(s, leaf) : leaf \in (s[n - 1] + 1)..(T - 1)} : s \in up[n - 1]}
    IN  {[n \in 0..(W - 1) |-> s[n + 1]] : s \in up[W]}
=============================================================================
