------------------------------- MODULE MCSpool -------------------------------
(* Nothing wrong, answers lost, a kill on top of it, a failing disc, and two *)
(* receivers in one second.                                                  *)
EXTENDS Spool

MCWorlds == {{}, {"answer", "kill"}, {"disc"}, {"brisk"}}
MCBrisk == {{"brisk"}}
MCKill == {{"kill"}}
=============================================================================
