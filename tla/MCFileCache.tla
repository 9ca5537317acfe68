----------------------------- MODULE MCFileCache -----------------------------
(* Three versions, the last as long as the first; the second is a complaint. *)
EXTENDS FileCache

MCSize == <<2, 1, 2>>
=============================================================================
