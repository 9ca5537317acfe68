------------------------------ MODULE FlowGraph ------------------------------
(***************************************************************************)
(* pipeline/src/graph.rs: the flow graph every receiver runs on.  A        *)
(* builder is wired port by port, the wiring is ordered by Kahn's          *)
(* algorithm and cut into levels, every node is asked what it makes of the *)
(* streams it is fed, and a block is run level by level: the               *)
(* nodes of one level run together on a pool, each on its own entry, and   *)
(* the arena of buffers is written only between levels.  Stages and the    *)
(* graph's input can be switched off between blocks.                       *)
(*                                                                         *)
(* Node k of the model is NodeId(k - 1) of the code, and k is also the     *)
(* slot it writes: slot 0 is the graph's input, and Silent stands for the  *)
(* slots nothing writes.  A node's output ports are written, cleared and   *)
(* switched together, so one slot stands for them.  A buffer's content is  *)
(* the number of the block it was last written or cleared in.              *)
(***************************************************************************)
EXTENDS Naturals

CONSTANTS Size,        \* how many nodes the builder was given
          InPorts,     \* InPorts[k]: Node::num_inputs
          Optional,    \* the nodes that read an unfed input as silence
          Specs,       \* StreamSpec: the streams the nodes tell apart
          InSpec,      \* the one the graph is fed with
          Silence,     \* StreamSpec::silence
          Flow,        \* Flow[s]: received, or on its way to the air
          Joins,       \* Node::joins_flows
          Refusal,     \* the error of Node::negotiate
          Makes,       \* Makes[k]: what node k makes of its inputs' specs
          MaxBlocks    \* bound: blocks run on one built graph

Nodes == 1 .. Size
Input == 0
Silent == Size + 1
Slots == 0 .. Size + 1
Absent == Size + 2     \* an id no node of this builder has

ASSUME GraphAssumption ==
    /\ Size \in Nat \ {0}
    /\ InPorts \in [Nodes -> Nat]
    /\ Optional \subseteq Nodes
    /\ MaxBlocks \in Nat

(* A node's answer hangs on nothing but the node and what it is fed, and   *)
(* is one spec, as its output ports are one slot here.                     *)
ASSUME SpecAssumption ==
    /\ InSpec \in Specs /\ Silence \in Specs /\ Refusal \notin Specs
    /\ \A k \in Nodes :
          Makes[k] \in [[1 .. InPorts[k] -> Specs] -> Specs \cup {Refusal}]

Ports == UNION {{<<k, p>> : p \in 1 .. InPorts[k]} : k \in Nodes}

VARIABLES phase,       \* draw, sort, negotiate, refused, ready, settle, run
          edges,       \* GraphBuilder::edges, pairs of input port and node
          feeds,       \* GraphBuilder::input_consumers
          wires,       \* in_slots: the slot each input port reads
          placed,      \* the nodes already in the order
          waits,       \* the edges still counted in a node's in-degree
          level,       \* level_of
          spec,        \* specs: the stream of each slot
          off, inputOff, idle,
          block,       \* how many blocks were started
          at,          \* the level negotiation, the walk or the run is at
          todo,        \* nodes of that level staged and not run; {} between
          staged,      \* whether that level's buffers are out of the arena
          stamp,       \* the block a slot's buffer is from
          produced,    \* blocks counted on each slot
          base,        \* base_index, NodeCtx::sample_index
          err,         \* the block an error parked on an entry is from, or 0
          verdict,     \* the block of the error run() returned last, or 0
          twin         \* history: two nodes of a level failed in one block

drawing == <<edges, feeds, wires, placed, waits, level>>
built == <<drawing, spec>>
switches == <<off, inputOff, idle>>
arena == <<stamp, produced, base, err, verdict, twin>>
vars == <<phase, built, switches, block, at, todo, staged, arena>>

Prods(k) == {wires[<<k, p>>] : p \in 1 .. InPorts[k]} \cap Nodes
Level(l) == {k \in Nodes : level[k] = l}
Top(l) == \A k \in Nodes : level[k] <= l

-----------------------------------------------------------------------------
(* A builder with its nodes added and nothing wired.  A refused drawing,  *)
(* and a graph taken into its parts, is followed by a builder like it.     *)
Init ==
    /\ phase = "draw"
    /\ edges = {} /\ feeds = {}
    /\ wires = [q \in Ports |-> Silent]
    /\ placed = {}
    /\ waits = [k \in Nodes |-> {}]
    /\ level = [k \in Nodes |-> 0]
    /\ spec = [s \in Slots |-> IF s = Silent THEN Silence ELSE InSpec]
    /\ off = {} /\ inputOff = FALSE /\ idle = {}
    /\ block = 0 /\ at = 0 /\ todo = {} /\ staged = FALSE
    /\ stamp = [s \in Slots |-> 0]
    /\ produced = [s \in Slots |-> 0]
    /\ base = [k \in Nodes |-> 0]
    /\ err = [k \in Nodes |-> 0]
    /\ verdict = 0 /\ twin = FALSE

(* GraphBuilder::connect and source: one producer for an input port, so    *)
(* whichever of the two tables held the old edge is cleared.  Whether the  *)
(* producer is one of the builder's nodes is not asked yet.                *)
Connect(from, to) ==
    /\ phase = "draw"
    /\ edges' = {e \in edges : e[1] # to}
                  \cup (IF from = Input THEN {} ELSE {<<to, from>>})
    /\ feeds' = (feeds \ {to}) \cup (IF from = Input THEN {to} ELSE {})
    /\ UNCHANGED <<phase, wires, placed, waits, level, spec, switches, block,
                   at, todo, staged, arena>>

(* Wiring::resolve's answer for one port, with the input's list first. *)
Feeders(q) == {e[2] : e \in {x \in edges : x[1] = q}}
SlotOf(q) ==
    IF q \in feeds THEN Input
    ELSE IF Feeders(q) # {} THEN CHOOSE k \in Feeders(q) : TRUE ELSE Silent

Unfed == {q \in Ports : SlotOf(q) = Silent /\ q[1] \notin Optional}
Dangling == {q \in Ports : SlotOf(q) = Absent}

(* GraphBuilder::build: an input nothing feeds is refused, and so is one   *)
(* fed by a node that does not exist; otherwise every edge from a node is  *)
(* counted in its consumer's in-degree.                                    *)
Resolve ==
    /\ phase = "draw"
    /\ IF Unfed # {} \/ Dangling # {}
       THEN phase' = "refused" /\ UNCHANGED <<wires, waits>>
       ELSE /\ phase' = "sort"
            /\ wires' = [q \in Ports |-> SlotOf(q)]
            /\ waits' = [k \in Nodes |->
                  {p \in 1 .. InPorts[k] : SlotOf(<<k, p>>) \in Nodes}]
    /\ UNCHANGED <<edges, feeds, placed, level, spec, switches, block, at,
                   todo, staged, arena>>

(* Mutant of the cut into levels: one past any producer. *)
OnePastOneProducer(k, l) ==
    IF Prods(k) = {} THEN l = 0 ELSE \E p \in Prods(k) : l = level[p] + 1

(* levels: one past the deepest of a node's producers, or 0. *)
OnePastProducers(k, l) ==
    IF Prods(k) = {} THEN l = 0
    ELSE /\ \E p \in Prods(k) : l = level[p] + 1
         /\ \A p \in Prods(k) : level[p] < l

(* Mutant of the sort: a node is counted down once per producer, whatever   *)
(* the number of its inputs that producer feeds.                           *)
PlaceOnce(k, l) ==
    /\ phase = "sort"
    /\ k \notin placed /\ waits[k] = {}
    /\ OnePastProducers(k, l)
    /\ placed' = placed \cup {k}
    /\ waits' = [s \in Nodes |->
          LET fed == {p \in waits[s] : wires[<<s, p>>] = k}
          IN  waits[s] \ {p \in fed : \A o \in fed : p <= o}]
    /\ level' = [level EXCEPT ![k] = l]
    /\ UNCHANGED <<phase, edges, feeds, wires, spec, switches, block, at,
                   todo, staged, arena>>

(* One turn of toposort's loop, and of the loop of levels over the order   *)
(* it makes.  The order among nodes that are ready together is left open:  *)
(* only which nodes come before a node is read afterwards.                 *)
Place(k, l) ==
    /\ phase = "sort"
    /\ k \notin placed /\ waits[k] = {}
    /\ OnePastProducers(k, l)
    /\ placed' = placed \cup {k}
    /\ waits' = [s \in Nodes |-> {p \in waits[s] : wires[<<s, p>>] # k}]
    /\ level' = [level EXCEPT ![k] = l]
    /\ UNCHANGED <<phase, edges, feeds, wires, spec, switches, block, at,
                   todo, staged, arena>>

(* The queue has run dry: an order to negotiate in, or a cycle's error. *)
Sorted ==
    /\ phase = "sort"
    /\ \A k \in Nodes \ placed : waits[k] # {}
    /\ phase' = IF placed = Nodes THEN "negotiate" ELSE "refused"
    /\ UNCHANGED <<built, switches, block, at, todo, staged, arena>>

-----------------------------------------------------------------------------
(* What negotiate gets of node k when the slots carry the specs of f: the  *)
(* graph's own refusal of a node fed from both directions, silence aside,  *)
(* unless it joins them, and otherwise the node's answer.                  *)
Heard(k, f) == [p \in 1 .. InPorts[k] |-> f[wires[<<k, p>>]]]
BothWays(ins) ==
    \E p, q \in DOMAIN ins :
        Silence \notin {ins[p], ins[q]} /\ Flow[ins[p]] # Flow[ins[q]]
Reply(k, f) ==
    IF k \notin Joins /\ BothWays(Heard(k, f)) THEN Refusal
    ELSE Makes[k][Heard(k, f)]

(* Mutant of negotiation: every node is asked before any has answered. *)
NegotiateAtOnce ==
    /\ phase = "negotiate"
    /\ \A k \in Nodes : Reply(k, spec) # Refusal
    /\ spec' = [s \in Slots |-> IF s \in Nodes THEN Reply(s, spec) ELSE spec[s]]
    /\ phase' = "ready" /\ at' = 0
    /\ UNCHANGED <<drawing, switches, block, todo, staged, arena>>

(* Graph::negotiate, a level of its order at a time: each answer is        *)
(* written to the slot the nodes below read. *)
Negotiate ==
    /\ phase = "negotiate"
    /\ \A k \in Level(at) : Reply(k, spec) # Refusal
    /\ spec' = [s \in Slots |->
          IF s \in Level(at) THEN Reply(s, spec) ELSE spec[s]]
    /\ at' = IF Top(at) THEN 0 ELSE at + 1
    /\ phase' = IF Top(at) THEN "ready" ELSE "negotiate"
    /\ UNCHANGED <<drawing, switches, block, todo, staged, arena>>

(* The first refusal ends it, and build returns the parts. *)
Refuse ==
    /\ phase = "negotiate"
    /\ \E k \in Level(at) : Reply(k, spec) = Refusal
    /\ phase' = "refused" /\ at' = 0
    /\ UNCHANGED <<built, switches, block, todo, staged, arena>>

-----------------------------------------------------------------------------
(* Graph::set_off and set_input_off: the switch, then the walk below, all  *)
(* under the caller's exclusive borrow of the graph.                       *)
SetOff(k, on) ==
    /\ phase = "ready"
    /\ off' = IF on THEN off \cup {k} ELSE off \ {k}
    /\ phase' = "settle" /\ at' = 0
    /\ UNCHANGED <<built, inputOff, idle, block, todo, staged, arena>>

SetInputOff(on) ==
    /\ phase = "ready"
    /\ inputOff' = on
    /\ phase' = "settle" /\ at' = 0
    /\ UNCHANGED <<built, off, idle, block, todo, staged, arena>>

(* settle_idle's test of one node: every input that is fed is dead. *)
Wired(k) == {wires[<<k, p>>] : p \in 1 .. InPorts[k]} \ {Silent}
Dead(s) == IF s = Input THEN inputOff ELSE s \in idle
Starved(k) == Wired(k) # {} /\ \A s \in Wired(k) : Dead(s)

(* Mutant of the walk: what was stopped is never let run again. *)
SettleLevelSticks ==
    /\ phase = "settle"
    /\ idle' = idle \cup {k \in Level(at) : k \in off \/ Starved(k)}
    /\ at' = IF Top(at) THEN 0 ELSE at + 1
    /\ phase' = IF Top(at) THEN "ready" ELSE "settle"
    /\ UNCHANGED <<built, off, inputOff, block, todo, staged, arena>>

(* settle_idle, a level of its order at a time. *)
SettleLevel ==
    /\ phase = "settle"
    /\ idle' = (idle \ Level(at))
                 \cup {k \in Level(at) : k \in off \/ Starved(k)}
    /\ at' = IF Top(at) THEN 0 ELSE at + 1
    /\ phase' = IF Top(at) THEN "ready" ELSE "settle"
    /\ UNCHANGED <<built, off, inputOff, block, todo, staged, arena>>

(* Graph::reset: buffers and counters, and not the errors on the entries. *)
Reset ==
    /\ phase = "ready"
    /\ stamp' = [s \in Slots |-> 0]
    /\ produced' = [s \in Slots |-> 0]
    /\ UNCHANGED <<phase, built, switches, block, at, todo, staged, base, err,
                   verdict, twin>>

-----------------------------------------------------------------------------
(* Graph::run is called with the block in the input's buffer. *)
StartRun ==
    /\ phase = "ready" /\ block < MaxBlocks
    /\ phase' = "run" /\ at' = 0 /\ block' = block + 1
    /\ stamp' = [stamp EXCEPT ![Input] = block + 1, ![Silent] = block + 1]
    /\ UNCHANGED <<built, switches, todo, staged, produced, base, err, verdict,
                   twin>>

(* The pre-pass over a level: what each node reads is noted, its own       *)
(* buffers leave the arena and are cleared.                                *)
Stage ==
    /\ phase = "run" /\ ~staged
    /\ staged' = TRUE /\ todo' = Level(at)
    /\ base' = [k \in Nodes |->
          IF k \in Level(at) /\ InPorts[k] > 0
          THEN produced[wires[<<k, 1>>]] ELSE base[k]]
    /\ stamp' = [s \in Slots |-> IF s \in Level(at) THEN 0 ELSE stamp[s]]
    /\ UNCHANGED <<phase, built, switches, block, at, produced, err, verdict,
                   twin>>

(* Entry::run on the pool or inline: an idle node does nothing, a failure  *)
(* is parked on the entry.  An error already parked is left alone.         *)
Process(k, ok) ==
    /\ phase = "run" /\ staged /\ k \in todo
    /\ todo' = todo \ {k}
    /\ err' = IF ok \/ k \in idle THEN err ELSE [err EXCEPT ![k] = block]
    /\ twin' = (twin \/ \E i, j \in Level(at) :
                            i # j /\ err'[i] # 0 /\ err'[j] # 0)
    /\ UNCHANGED <<phase, built, switches, block, at, staged, stamp, produced,
                   base, verdict>>

Failed == {k \in Level(at) : err[k] # 0}

(* Mutant of the post-pass: an idle node's buffers stay out. *)
PutBackWorking ==
    /\ phase = "run" /\ staged /\ todo = {}
    /\ staged' = FALSE
    /\ stamp' = [s \in Slots |->
          IF s \in Level(at) \ idle THEN block ELSE stamp[s]]

(* The post-pass puts every buffer of the level back. *)
PutBack ==
    /\ phase = "run" /\ staged /\ todo = {}
    /\ staged' = FALSE
    /\ stamp' = [s \in Slots |-> IF s \in Level(at) THEN block ELSE stamp[s]]

Count(slots) ==
    produced' = [s \in Slots |->
        IF s \in slots THEN produced[s] + 1 ELSE produced[s]]

(* No error on the level: its samples are counted, and after the last      *)
(* level the input's too.                                                  *)
Unstage ==
    /\ PutBack /\ Failed = {}
    /\ Count((Level(at) \ idle) \cup (IF Top(at) THEN {Input} ELSE {}))
    /\ phase' = IF Top(at) THEN "ready" ELSE "run"
    /\ at' = IF Top(at) THEN 0 ELSE at + 1
    /\ verdict' = IF Top(at) THEN 0 ELSE verdict
    /\ UNCHANGED <<built, switches, block, todo, base, err, twin>>

(* Mutant of the error's way out: it is read and not taken. *)
AbortKeepsError(k) ==
    /\ PutBack /\ k \in Failed /\ \A j \in Failed : k <= j
    /\ Count({j \in Level(at) \ idle : j < k})
    /\ verdict' = err[k]
    /\ phase' = "ready" /\ at' = 0
    /\ UNCHANGED <<built, switches, block, todo, base, err, twin>>

(* The nodes are gone through in order and the first error found is taken  *)
(* and ends the run: what comes after it, on its level and below, and the  *)
(* input, is not counted.                                                  *)
Abort(k) ==
    /\ PutBack /\ k \in Failed /\ \A j \in Failed : k <= j
    /\ Count({j \in Level(at) \ idle : j < k})
    /\ err' = [err EXCEPT ![k] = 0]
    /\ verdict' = err[k]
    /\ phase' = "ready" /\ at' = 0
    /\ UNCHANGED <<built, switches, block, todo, base, twin>>

Next ==
    \/ \E from \in Nodes \cup {Input, Absent}, to \in Ports : Connect(from, to)
    \/ Resolve \/ Sorted \/ Negotiate \/ Refuse
    \/ \E k \in Nodes, l \in 0 .. Size : Place(k, l)
    \/ \E k \in Nodes, on \in BOOLEAN : SetOff(k, on)
    \/ \E on \in BOOLEAN : SetInputOff(on)
    \/ SettleLevel \/ Reset
    \/ StartRun \/ Stage \/ Unstage \/ \E k \in Nodes : Abort(k)
    \/ \E k \in Nodes, ok \in BOOLEAN : Process(k, ok)

Spec == Init /\ [][Next]_vars

-----------------------------------------------------------------------------
(* A set of nodes each of which is fed by one of the set. *)
Knot(S) == S # {} /\ \A k \in S : Prods(k) \cap S # {}

(* Streams the whole drawing agrees on: each node takes what it is fed and *)
(* gives what the nodes below it are fed.                                  *)
Agreed(f) ==
    /\ f[Input] = InSpec /\ f[Silent] = Silence
    /\ \A k \in Nodes : f[k] = Reply(k, f)

(* A drawing is built exactly when every input that has to be fed is, and  *)
(* by a node that exists, no nodes feed each other in a circle ("A cycle   *)
(* is a build-time error rather than a runtime hang"), and there are       *)
(* streams the whole of it agrees on, which are then the ones its ports    *)
(* have: however the wires were drawn and redrawn, and in whatever order   *)
(* the sort comes to ask.  A node fed twice by the same producer is not a  *)
(* cycle, and an input port has one producer however often it was          *)
(* connected.                                                              *)
BuildDecides ==
    /\ phase \in {"ready", "settle", "run"} =>
          /\ Unfed = {} /\ Dangling = {}
          /\ \A S \in SUBSET Nodes : ~Knot(S)
          /\ Agreed(spec)
    /\ phase = "refused" =>
          \/ Unfed # {} \/ Dangling # {}
          \/ \E S \in SUBSET Nodes : Knot(S)
          \/ ~\E f \in [Slots -> Specs] : Agreed(f)
    /\ \A d, e \in edges : d[1] = e[1] => d = e
    /\ \A e \in edges : e[1] \notin feeds

(* Every input of a node that is about to run, or running beside others of *)
(* its level, holds this block and is in the arena: nothing it reads is    *)
(* being written beside it or left over from the block before.             *)
ReadsThisBlock ==
    phase = "run" =>
        \A k \in Level(at) : \A p \in 1 .. InPorts[k] :
            stamp[wires[<<k, p>>]] = block

(* A caller that reads the ports after a run that did not fail (the bank   *)
(* reads its pulse taps, the receiver its channels) reads what that block  *)
(* wrote.                                                                  *)
TapsAreOfThisBlock ==
    [][(phase = "run" /\ phase' = "ready" /\ verdict' = 0)
          => \A k \in Nodes : stamp'[k] = block]_vars

(* What can get no samples: a set of nodes each of them off, or with its   *)
(* fed inputs all from the set or from an input that is off.               *)
Starving(S) ==
    \A k \in S :
        k \in off \/ (Wired(k) # {} /\ \A s \in Wired(k) :
                          s \in S \/ (s = Input /\ inputOff))

(* After any sequence of switching, exactly the nodes that can get no      *)
(* samples are idle: a stage is stopped as soon as all it was fed by is    *)
(* stopped, however far upstream, one with a live input is not, and a      *)
(* switch thrown back brings back everything it stopped.                   *)
IdleIsCutOff ==
    phase \in {"ready", "run"} =>
        idle = UNION {S \in SUBSET Nodes : Starving(S)}

(* run() returns an error only for a block in which a node failed, as long *)
(* as no two nodes of one level ever failed in one block: the second       *)
(* error stays parked on its entry behind the first.                       *)
ErrorIsOfThisBlock ==
    [][(phase = "run" /\ phase' = "ready" /\ ~twin)
          => verdict' \in {0, block}]_vars

(* What a run leaves and what it says are of its own block: the ports of one *)
(* that did not fail, and the error of one that did (Graph::run puts every   *)
(* node and buffer back before it returns, also on its way out of an error). *)
RunSpeaksOfThisBlock == TapsAreOfThisBlock /\ ErrorIsOfThisBlock

(* NodeCtx::sample_index: "Index of the first input sample in this call,   *)
(* from stream start": fewer blocks than were started came before the      *)
(* first sample of this one, whatever node is asked.                       *)
SampleIndexIsFirst ==
    \A k \in todo : base[k] < block
=============================================================================
