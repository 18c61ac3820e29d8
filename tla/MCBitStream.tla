---------------------------- MODULE MCBitStream ----------------------------
(* The three widths of params.h with their primes, in one block that meets  *)
(* every position in a byte, and in blocks that end within a byte.          *)
EXTENDS BitStream

MCShapes == {[bits |-> w, fields |-> s[1], blocks |-> s[2]] :
                w \in {11, 12, 13}, s \in {<<8, 1>>, <<3, 2>>}}

MCFills == {{}, Byte}

Bits(n) == {b \in 0..12 : (n \div 2^b) % 2 = 1}
MEDS_p(bits) == CASE bits = 11 -> 2039 [] bits = 12 -> 4093 [] bits = 13 -> 8191

MCValues(s) == {Bits(1), Bits(MEDS_p(s.bits) - 1)}
=============================================================================
