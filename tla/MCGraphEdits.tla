---------------------------- MODULE MCGraphEdits ----------------------------
(* A front end that is always drawn, one only the home dial holds, one stage *)
(* of the operator's.                                                        *)
EXTENDS GraphEdits

CONSTANTS f, g, o

MCInSpan  == [d \in {1, 2} |-> IF d = 1 THEN {f, g} ELSE {f}]
MCAwkward == [d \in {1, 2} |-> IF d = 1 THEN {g} ELSE {}]

\* The troubles the code gets right, and those only KeptByRebuild is about.
MCWorlds  == {{"draws", "undoes", "restarts"}, {"tweaks", "restarts"},
              {"tweaks", "roams"}, {"draws", "tweaks"}, {"draws", "breaks"},
              {"tweaks", "refuses"}, {"draws", "reopens", "fails"}, {"draws", "full"},
              {"draws", "tweaks", "returns"}, {"tweaks", "wanders"},
              {"tweaks", "roams", "hasty"}}

\* Each of these breaks what its configuration checks.
EchoWorlds   == {{"draws", "roams"}}
HastyWorlds  == {{"draws", "hasty"}}
ReopenWorlds == {{"tweaks", "reopens", "fails"}}
RefusedWorlds == {{"tweaks", "refuses"}}
AwayWorlds   == {{"tweaks", "roams", "restarts"}}
=============================================================================
