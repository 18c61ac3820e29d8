--------------------------- MODULE MCStreamKeygen ---------------------------
(* Small instances of StreamKeygen for TLC. *)
EXTENDS StreamKeygen

\* The seeds of which every attempt succeeds.
AllOk == [k \in Keys |-> [a \in Attempts |-> "ok"]]

\* The seeds of the keys in ks, all alike, fail in these ways.
Failing(ks, outcomes) ==
    {[k \in Keys |-> IF k \in ks THEN outs ELSE AllOk[k]] :
        outs \in {outs \in [Attempts -> outcomes \cup {"ok"}] : Lucky(outs)}}

Of(b, chains) == [build : {b}, chain : chains]

\* Attempts fail, if at all, before the device has told the host of them.
\* Key 1, whose count line is a prefix of that of key 10, comes after one and
\* key 10 by itself.
BeforeReady == {"ok", "noInvA"}
InStep == Of("small", Failing({0, 1}, BeforeReady) \cup Failing({10}, BeforeReady))
          \cup Of("big", {AllOk})

NotSyst      == {"ok", "notSyst"}
BigNotSyst   == Of("big", Failing({0}, NotSyst))

OkOrNoSol    == {"ok", "noSol"}
BigNoSol     == Of("big", Failing({0}, OkOrNoSol))
=============================================================================
