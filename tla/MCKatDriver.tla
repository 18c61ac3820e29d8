---------------------------- MODULE MCKatDriver ----------------------------
(* Small instances of KatDriver for TLC. *)
EXTENDS KatDriver

FreeReturns == {"returns"}
FreeAny     == {"returns", "faults"}
Both        == {"1.0", "1.1"}
Streaming   == {"1.1"}
Serial      == {"1.0"}
KeyTyped    == {TRUE}
NothingTyped == {FALSE}
=============================================================================
