---------------------------- MODULE MCFlowGraph ----------------------------
(* FlowGraph on three nodes, one of them a merge: every drawing of them,   *)
(* chains, fans, merges, cycles and unfed inputs.  Node 1 detects and takes *)
(* nothing but samples, node 2 passes on the first thing it hears, node 3  *)
(* sends: what it makes of bits is on its way to the air.                  *)
EXTENDS FlowGraph
MCInPorts == [k \in 1 .. Size |-> IF k = 2 THEN 2 ELSE 1]
MCSpecs == {"iq", "bits", "air", "silence"}
MCFlow == [s \in MCSpecs |-> IF s = "air" THEN "transmit" ELSE "receive"]
Given(k, ins) ==
    CASE k = 1 -> IF ins[1] \in {"iq", "air"} THEN "bits" ELSE "none"
      [] k = 2 -> IF ins[1] = "silence" THEN ins[2] ELSE ins[1]
      [] k = 3 -> IF ins[1] = "bits" THEN "air" ELSE ins[1]
MCMakes ==
    [k \in 1 .. Size |-> [ins \in [1 .. MCInPorts[k] -> MCSpecs] |-> Given(k, ins)]]
=============================================================================
