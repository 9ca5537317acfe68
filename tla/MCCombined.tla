----------------------------- MODULE MCCombined -----------------------------
(* One tuner reads in the reader's chunks, the other in shorter blocks. *)
EXTENDS Combined

MCBlockLen == <<2, 1>>
MCOnes == <<1, 1>>
MCUnits == <<4, 2>>
MCEight == <<8, 8>>
MCOwn == <<2, 0>>
MCNone == <<0, 0>>
MCSlips == <<{0}, {-1, 0, 1}>>
MCExact == <<{0}, {0}>>
=============================================================================
