----------------------------- MODULE KatService -----------------------------
(***************************************************************************)
(* What the streaming programs promise to the request file: one after the  *)
(* other, and for every test vector, the answer (key pair, signature) that *)
(* the reference implementation gives from the same seed.                  *)
(***************************************************************************)
EXTENDS Naturals, Sequences

CONSTANT Counts   \* test vectors of the request file

VARIABLES answer, \* answer[k]: the reference's answer to test vector k
          rsp     \* the answers written to the .rsp file

Init == answer = [k \in 0..(Counts - 1) |-> answer[k]] /\ rsp = <<>>

Answer == /\ Len(rsp) < Counts
          /\ rsp' = Append(rsp, answer[Len(rsp)])
          /\ UNCHANGED answer

Safety == Init /\ [][Answer]_<<answer, rsp>>

Spec == Safety /\ WF_<<answer, rsp>>(Answer)
=============================================================================
