----------------------------- MODULE MCNvFlash -----------------------------
(* NvFlash with a table of two double words (so a cut can separate them),    *)
(* one table beside the nominal one, and commands that change the last two   *)
(* words of the network settings. Nothing else needs a bound: every variable *)
(* has a finite range.                                                       *)
EXTENDS NvFlash

CONSTANT n1

MCNetInputs == {<<1, n1>>, <<2, DefaultPart>>}
=============================================================================
