------------------------- MODULE MCProcessorSystem -------------------------
(* Small instances of ProcessorSystem for TLC. *)
EXTENDS ProcessorSystem, TLC

CONSTANTS prod, t1, t2, t3, t4

\* Two callers with two tasks each.
ScriptOfFour == (Main :> <<t1, t4>>) @@ (prod :> <<t2, t3>>)

\* Two callers with one task each.
ScriptOfTwo == (Main :> <<t1>>) @@ (prod :> <<t2>>)
=============================================================================
