---------------------------- MODULE GraphProofs -----------------------------
(***************************************************************************)
(* Proofs about the graph: the flow graph, for any number of nodes with    *)
(* any number of inputs, wired, switched and run in any order for any      *)
(* number of blocks; and the operator's edits to it, for any stages, dials *)
(* and spans and any number of changes.                                    *)
(***************************************************************************)
EXTENDS FlowGraph, GraphEdits, SequenceTheorems, FiniteSetTheorems, TLAPS

-----------------------------------------------------------------------------
(***************************************************************************)
(* The flow graph.                                                         *)
(***************************************************************************)
TypeOK ==
  /\ phase \in {"draw", "sort", "negotiate", "refused", "ready", "settle", "run"}
  /\ edges \subseteq Ports \X (Nodes \cup {Absent}) /\ feeds \subseteq Ports
  /\ wires \in [Ports -> Slots]
  /\ placed \subseteq Nodes
  /\ level \in [Nodes -> Nat]
  /\ spec \in [Slots -> Specs]
  /\ off \subseteq Nodes /\ idle \subseteq Nodes
  /\ inputOff \in BOOLEAN /\ staged \in BOOLEAN /\ twin \in BOOLEAN
  /\ block \in Nat /\ at \in Nat /\ verdict \in Nat
  /\ todo \subseteq Nodes
  /\ stamp \in [Slots -> Nat] /\ produced \in [Slots -> Nat]
  /\ base \in [Nodes -> Nat] /\ err \in [Nodes -> Nat]

(* The two tables of the builder never both feed a port. *)
OneFeeder ==
  /\ \A d, e \in edges : d[1] = e[1] => d = e
  /\ \A e \in edges : e[1] \notin feeds

(* What is in the order has its producers in it, on lower levels; what is  *)
(* not waits for those that are not.  No knot has a node in the order,     *)
(* which is what the walk over levels rests on later.                      *)
Ordered ==
  \A k \in placed : \A p \in Prods(k) : p \in placed /\ level[p] < level[k]

Counted ==
  phase = "sort" =>
    \A k \in Nodes \ placed :
      waits[k] = {p \in 1 .. InPorts[k] : wires[<<k, p>>] \in Nodes \ placed}

NoKnot == \A S \in SUBSET Nodes : Knot(S) => S \cap placed = {}

Complete ==
  /\ phase = "draw" => placed = {}
  /\ phase \in {"negotiate", "ready", "settle", "run"} => placed = Nodes
  /\ phase \notin {"draw", "refused"} => Unfed = {} /\ Dangling = {}
  /\ phase = "refused" =>
       \/ Unfed # {} \/ Dangling # {}
       \/ \E S \in SUBSET Nodes : Knot(S)
       \/ ~\E f \in [Slots -> Specs] : Agreed(f)

Sorting == OneFeeder /\ Ordered /\ Counted /\ NoKnot /\ Complete

(* The nodes that have been asked gave what their slots carry, and any     *)
(* streams the whole drawing agrees on are the same up to there: what is   *)
(* asked next hears in both the same.                                      *)
Asked(k) == phase \in {"ready", "settle", "run"}
              \/ (phase = "negotiate" /\ level[k] < at)
Negotiated ==
  /\ spec[Input] = InSpec /\ spec[Silent] = Silence
  /\ phase \in {"draw", "sort"} => at = 0
  /\ \A k \in Nodes : Asked(k) => spec[k] = Reply(k, spec)
  /\ \A f \in [Slots -> Specs] : Agreed(f) =>
       \A k \in Nodes : Asked(k) => f[k] = spec[k]

(* The levels above the one the run has come to hold this block. *)
Above ==
  phase = "run" =>
    /\ stamp[Input] = block /\ stamp[Silent] = block
    /\ \A k \in Nodes : level[k] < at => stamp[k] = block

(* The nodes the walk has been past agree with the nodes that feed them. *)
Walked(k) == phase \in {"ready", "run"} \/ (phase = "settle" /\ level[k] < at)
Settled ==
  /\ phase \in {"draw", "sort", "negotiate"} =>
       idle = {} /\ off = {} /\ inputOff = FALSE
  /\ \A k \in Nodes : Walked(k) => (k \in idle <=> k \in off \/ Starved(k))

(* At most one error is parked, on the level that is out of the arena. *)
Parked ==
  /\ todo # {} => phase = "run" /\ staged
  /\ todo \subseteq Level(at)
  /\ phase = "run" => block > 0
  /\ ~twin =>
       /\ \A k \in Nodes : err[k] # 0 =>
            phase = "run" /\ staged /\ level[k] = at /\ err[k] = block
       /\ \A j, k \in Nodes : err[j] # 0 /\ err[k] # 0 => j = k

IInv == TypeOK /\ Sorting /\ Negotiated /\ Above /\ Settled /\ Parked

-----------------------------------------------------------------------------
LEMMA PortsOf ==
  ASSUME NEW k \in Nodes, NEW p \in 1 .. InPorts[k]
  PROVE  <<k, p>> \in Ports
BY DEF Ports

(* A level of the walk reads only slots that are written. *)
LEMMA SlotKinds ==
  ASSUME TypeOK, NEW k \in Nodes, NEW p \in 1 .. InPorts[k]
  PROVE  /\ wires[<<k, p>>] \in Slots
         /\ \/ wires[<<k, p>>] = Input
            \/ wires[<<k, p>>] = Silent
            \/ wires[<<k, p>>] \in Prods(k)
<1>1. wires[<<k, p>>] \in Slots  BY PortsOf DEF TypeOK
<1>2. Slots = Nodes \cup {Input, Silent}
  BY GraphAssumption DEF Slots, Nodes, Input, Silent
<1>3. QED  BY <1>1, <1>2 DEF Prods

LEMMA SlotSets ==
  /\ Slots = Nodes \cup {Input, Silent}
  /\ Input \notin Nodes /\ Silent \notin Nodes
  /\ Input # Silent
BY GraphAssumption DEF Slots, Nodes, Input, Silent

(* The wiring of a port is a slot, and the producers of a node are nodes. *)
LEMMA SlotOfType ==
  ASSUME TypeOK, Dangling = {}, NEW q \in Ports
  PROVE  SlotOf(q) \in Slots
<1>1. CASE q \in feeds  BY <1>1, SlotSets DEF SlotOf
<1>2. CASE q \notin feeds /\ Feeders(q) = {}  BY <1>2, SlotSets DEF SlotOf
<1>3. CASE q \notin feeds /\ Feeders(q) # {}
  <2>1. Feeders(q) \subseteq Nodes \cup {Absent}  BY DEF Feeders, TypeOK
  <2>2. (CHOOSE k \in Feeders(q) : TRUE) \in Feeders(q)  BY <1>3
  <2>3. SlotOf(q) = CHOOSE k \in Feeders(q) : TRUE  BY <1>3 DEF SlotOf
  <2>4. SlotOf(q) # Absent  BY DEF Dangling
  <2>5. QED  BY <2>1, <2>2, <2>3, <2>4, SlotSets
<1>4. QED  BY <1>1, <1>2, <1>3

(* What a node hears is specs, so it answers with one or refuses. *)
LEMMA Replies ==
  ASSUME TypeOK, NEW k \in Nodes, NEW f \in [Slots -> Specs]
  PROVE  Reply(k, f) \in Specs \cup {Refusal}
<1>1. \A p \in 1 .. InPorts[k] : f[wires[<<k, p>>]] \in Specs  BY SlotKinds
<1>2. Heard(k, f) \in [1 .. InPorts[k] -> Specs]  BY <1>1 DEF Heard
<1>3. Makes[k][Heard(k, f)] \in Specs \cup {Refusal}
  BY <1>2, SpecAssumption
<1>4. QED  BY <1>3 DEF Reply

LEMMA InitTypes == Init => TypeOK
<1> SUFFICES ASSUME Init PROVE TypeOK
  OBVIOUS
<1>1. wires \in [Ports -> Slots]  BY SlotSets DEF Init
<1>2. spec \in [Slots -> Specs]  BY SpecAssumption DEF Init
<1>3. QED  BY <1>1, <1>2 DEF Init, TypeOK

LEMMA StepTypes ==
  ASSUME TypeOK, [Next]_vars
  PROVE  TypeOK'
<1>a. CASE \E from \in Nodes \cup {Input, Absent}, to \in Ports : Connect(from, to)
  BY <1>a DEF TypeOK, Connect, switches, arena
<1>b. CASE Resolve
  <2>1. wires' \in [Ports -> Slots]
    <3>1. CASE Unfed # {} \/ Dangling # {}  BY <1>b, <3>1 DEF Resolve, TypeOK
    <3>2. CASE Unfed = {} /\ Dangling = {}
      BY <1>b, <3>2, SlotOfType DEF Resolve
    <3>3. QED  BY <3>1, <3>2
  <2>2. QED  BY <1>b, <2>1 DEF TypeOK, Resolve, switches, arena
<1>c. CASE Sorted  BY <1>c DEF TypeOK, Sorted, built, drawing, switches, arena
<1>o. CASE Negotiate
  <2>1. \A k \in Level(at) : Reply(k, spec) \in Specs
    BY <1>o, Replies DEF Negotiate, Level, TypeOK
  <2>2. spec' \in [Slots -> Specs]  BY <1>o, <2>1 DEF Negotiate, TypeOK
  <2>3. at' \in Nat /\ phase' \in {"ready", "negotiate"}
    BY <1>o DEF Negotiate, TypeOK
  <2>4. QED
    BY <1>o, <2>2, <2>3 DEF TypeOK, Negotiate, drawing, switches, arena
<1>p. CASE Refuse  BY <1>p DEF TypeOK, Refuse, built, drawing, switches, arena
<1>d. CASE \E k \in Nodes, l \in 0 .. Size : Place(k, l)
  BY <1>d, GraphAssumption DEF TypeOK, Place, switches, arena
<1>e. CASE \E k \in Nodes, on \in BOOLEAN : SetOff(k, on)
  BY <1>e DEF TypeOK, SetOff, built, drawing, arena
<1>f. CASE \E on \in BOOLEAN : SetInputOff(on)
  BY <1>f DEF TypeOK, SetInputOff, built, drawing, arena
<1>g. CASE SettleLevel  BY <1>g DEF TypeOK, SettleLevel, built, drawing, arena, Level
<1>h. CASE Reset  BY <1>h DEF TypeOK, Reset, built, drawing, switches
<1>i. CASE StartRun  BY <1>i, SlotSets DEF TypeOK, StartRun, built, drawing, switches
<1>j. CASE Stage
  <2>1. base' \in [Nodes -> Nat]
    <3>1. \A k \in Nodes : InPorts[k] > 0 => wires[<<k, 1>>] \in Slots
      <4> TAKE k \in Nodes
      <4> HAVE InPorts[k] > 0
      <4>1. 1 \in 1 .. InPorts[k]  BY GraphAssumption
      <4>2. QED  BY <4>1, SlotKinds
    <3>2. QED  BY <1>j, <3>1 DEF TypeOK, Stage
  <2>2. stamp' \in [Slots -> Nat]  BY <1>j DEF TypeOK, Stage
  <2>3. todo' \subseteq Nodes  BY <1>j DEF Stage, Level
  <2>4. QED  BY <1>j, <2>1, <2>2, <2>3 DEF TypeOK, Stage, built, drawing, switches
<1>k. CASE \E k \in Nodes, ok \in BOOLEAN : Process(k, ok)
  BY <1>k DEF TypeOK, Process, built, drawing, switches
<1>l. CASE Unstage
  <2>1. stamp' \in [Slots -> Nat]  BY <1>l DEF TypeOK, Unstage, PutBack
  <2>2. produced' \in [Slots -> Nat]
    BY <1>l DEF TypeOK, Unstage, Count
  <2>3. at' \in Nat /\ verdict' \in Nat /\ phase' \in {"ready", "run"}
    BY <1>l DEF TypeOK, Unstage
  <2>4. QED
    BY <1>l, <2>1, <2>2, <2>3 DEF TypeOK, Unstage, PutBack, built, drawing, switches
<1>m. CASE \E k \in Nodes : Abort(k)
  <2>0. PICK k \in Nodes : Abort(k)  BY <1>m
  <2>1. stamp' \in [Slots -> Nat]  BY <2>0 DEF TypeOK, Abort, PutBack
  <2>2. produced' \in [Slots -> Nat]  BY <2>0 DEF TypeOK, Abort, Count
  <2>3. verdict' \in Nat /\ err' \in [Nodes -> Nat]
    BY <2>0 DEF TypeOK, Abort
  <2>4. QED
    BY <2>0, <2>1, <2>2, <2>3 DEF TypeOK, Abort, PutBack, built, drawing, switches
<1>n. CASE UNCHANGED vars
  BY <1>n DEF TypeOK, vars, built, drawing, switches, arena
<1>z. QED
  BY <1>a, <1>b, <1>c, <1>d, <1>e, <1>f, <1>g, <1>h, <1>i, <1>j, <1>k, <1>l,
     <1>m, <1>n, <1>o, <1>p DEF Next

-----------------------------------------------------------------------------
(* What is read of the wiring and the order stays while they stay. *)
LEMMA SortingKept ==
  ASSUME Sorting, UNCHANGED drawing,
         phase' = phase
           \/ (phase \in {"negotiate", "ready", "settle", "run"}
                 /\ phase' \in {"negotiate", "ready", "settle", "run"})
  PROVE  Sorting'
<1> USE DEF drawing
<1>1. OneFeeder'  BY DEF Sorting, OneFeeder
<1>2. \A k : Prods(k)' = Prods(k)  BY DEF Prods
<1>3. Ordered'  BY <1>2 DEF Sorting, Ordered
<1>4. Counted'  BY DEF Sorting, Counted
<1>5. \A S : Knot(S)' = Knot(S)  BY <1>2 DEF Knot
<1>6. NoKnot'  BY <1>5 DEF Sorting, NoKnot
<1>7. Unfed' = Unfed /\ Dangling' = Dangling
  BY DEF Unfed, Dangling, SlotOf, Feeders
<1>8. \A f : Agreed(f)' = Agreed(f)  BY DEF Agreed, Reply, Heard
<1>9. Complete'  BY <1>5, <1>7, <1>8 DEF Sorting, Complete
<1>10. QED  BY <1>1, <1>3, <1>4, <1>6, <1>9 DEF Sorting

LEMMA ConnectSorting ==
  ASSUME TypeOK, Sorting, NEW from \in Nodes \cup {Input, Absent}, NEW to \in Ports,
         Connect(from, to)
  PROVE  Sorting'
<1>1. OneFeeder'
  <2>1. edges' \subseteq {e \in edges : e[1] # to} \cup {<<to, from>>}
    BY DEF Connect
  <2>2. \A d, e \in edges' : d[1] = e[1] => d = e
    BY <2>1 DEF Sorting, OneFeeder
  <2>3. \A e \in edges' : e[1] \notin feeds'
    <3>1. CASE from = Input
      BY <3>1 DEF Connect, Sorting, OneFeeder
    <3>2. CASE from # Input
      BY <3>2 DEF Connect, Sorting, OneFeeder
    <3>3. QED  BY <3>1, <3>2
  <2>4. QED  BY <2>2, <2>3 DEF OneFeeder
<1>2. placed = {} /\ placed' = {} /\ phase = "draw" /\ phase' = "draw"
  BY DEF Connect, Sorting, Complete
<1>3. QED
  BY <1>1, <1>2 DEF Sorting, Ordered, Counted, NoKnot, Complete

LEMMA ResolveSorting ==
  ASSUME TypeOK, Sorting, Resolve
  PROVE  Sorting'
<1>1. placed = {} /\ placed' = {} /\ UNCHANGED <<edges, feeds>>
  BY DEF Resolve, Sorting, Complete
<1>2. OneFeeder'  BY <1>1 DEF Sorting, OneFeeder
<1>3. Ordered' /\ NoKnot'  BY <1>1 DEF Ordered, NoKnot
<1>4. Unfed' = Unfed /\ Dangling' = Dangling
  BY <1>1 DEF Unfed, Dangling, SlotOf, Feeders
<1>5. CASE Unfed # {} \/ Dangling # {}
  <2>1. phase' = "refused"  BY <1>5 DEF Resolve
  <2>2. QED
    BY <1>1, <1>2, <1>3, <1>4, <1>5, <2>1 DEF Sorting, Counted, Complete
<1>6. CASE Unfed = {} /\ Dangling = {}
  <2>1. /\ phase' = "sort"
        /\ wires' = [q \in Ports |-> SlotOf(q)]
        /\ waits' = [k \in Nodes |->
              {p \in 1 .. InPorts[k] : SlotOf(<<k, p>>) \in Nodes}]
    BY <1>6 DEF Resolve
  <2>2. ASSUME NEW k \in Nodes
        PROVE  waits'[k] = {p \in 1 .. InPorts[k] : wires'[<<k, p>>] \in Nodes}
    BY <2>1, PortsOf
  <2>3. Counted'  BY <1>1, <2>2 DEF Counted
  <2>4. QED
    BY <1>1, <1>2, <1>3, <1>4, <1>6, <2>1, <2>3 DEF Sorting, Complete
<1>7. QED  BY <1>5, <1>6

LEMMA PlaceSorting ==
  ASSUME TypeOK, Sorting, NEW k \in Nodes, NEW l \in 0 .. Size, Place(k, l)
  PROVE  Sorting'
<1>1. /\ phase = "sort" /\ phase' = "sort" /\ k \notin placed /\ waits[k] = {}
      /\ placed' = placed \cup {k}
      /\ waits' = [s \in Nodes |-> {p \in waits[s] : wires[<<s, p>>] # k}]
      /\ level' = [level EXCEPT ![k] = l]
      /\ wires' = wires
      /\ edges' = edges /\ feeds' = feeds
  BY DEF Place
<1>2. \A j : Prods(j)' = Prods(j)  BY <1>1 DEF Prods
<1>3. Prods(k) \subseteq placed
  BY <1>1 DEF Sorting, Counted, Prods
<1>4. \A p \in Prods(k) : level[p] < l
  BY DEF Place, OnePastProducers
<1>5. OneFeeder'  BY <1>1 DEF Sorting, OneFeeder
<1>6. Ordered'
  <2> SUFFICES ASSUME NEW j \in placed', NEW p \in Prods(j)
               PROVE  p \in placed' /\ level'[p] < level'[j]
    BY <1>2 DEF Ordered
  <2>1. CASE j = k
    <3>1. p \in placed /\ p # k /\ p \in Nodes
      BY <1>1, <1>3, <2>1 DEF TypeOK
    <3>2. level'[p] = level[p] /\ level'[k] = l
      BY <1>1, <3>1 DEF TypeOK
    <3>3. QED  BY <1>1, <1>4, <2>1, <3>1, <3>2
  <2>2. CASE j # k
    <3>1. j \in placed /\ j \in Nodes  BY <1>1, <2>2 DEF TypeOK
    <3>2. p \in placed /\ level[p] < level[j]
      BY <3>1 DEF Sorting, Ordered
    <3>3. p \in Nodes /\ p # k  BY <1>1, <3>2 DEF TypeOK
    <3>4. level'[p] = level[p] /\ level'[j] = level[j]
      BY <1>1, <2>2, <3>1, <3>3 DEF TypeOK
    <3>5. QED  BY <1>1, <3>2, <3>4
  <2>3. QED  BY <2>1, <2>2
<1>7. Counted'
  <2> SUFFICES ASSUME NEW j \in Nodes \ placed'
               PROVE  waits'[j] = {p \in 1 .. InPorts[j] :
                                     wires'[<<j, p>>] \in Nodes \ placed'}
    BY DEF Counted
  <2>1. waits[j] = {p \in 1 .. InPorts[j] : wires[<<j, p>>] \in Nodes \ placed}
    BY <1>1 DEF Sorting, Counted
  <2>2. waits'[j] = {p \in waits[j] : wires[<<j, p>>] # k}  BY <1>1
  <2>3. QED  BY <1>1, <2>1, <2>2
<1>8. NoKnot'
  <2> SUFFICES ASSUME NEW S \in SUBSET Nodes, Knot(S) PROVE S \cap placed' = {}
    BY <1>2 DEF NoKnot, Knot
  <2>1. S \cap placed = {}  BY DEF Sorting, NoKnot
  <2>2. k \notin S  BY <1>3, <2>1 DEF Knot
  <2>3. QED  BY <1>1, <2>1, <2>2
<1>9. Unfed' = Unfed /\ Dangling' = Dangling
  BY <1>1 DEF Unfed, Dangling, SlotOf, Feeders
<1>10. QED
  BY <1>1, <1>5, <1>6, <1>7, <1>8, <1>9 DEF Sorting, Complete

LEMMA SortedSorting ==
  ASSUME TypeOK, Sorting, Sorted
  PROVE  Sorting'
<1>1. UNCHANGED drawing /\ phase = "sort" /\ phase' \in {"negotiate", "refused"}
  BY DEF Sorted, built
<1>2. OneFeeder' /\ Ordered' /\ NoKnot'
  <2>1. OneFeeder'  BY <1>1 DEF Sorting, OneFeeder, drawing
  <2>2. \A k : Prods(k)' = Prods(k)  BY <1>1 DEF Prods, drawing
  <2>3. Ordered'  BY <1>1, <2>2 DEF Sorting, Ordered, drawing
  <2>4. NoKnot'  BY <1>1, <2>2 DEF Sorting, NoKnot, Knot, drawing
  <2>5. QED  BY <2>1, <2>3, <2>4
<1>3. CASE placed = Nodes
  <2>1. Unfed' = Unfed /\ Dangling' = Dangling
    BY <1>1 DEF Unfed, Dangling, SlotOf, Feeders, drawing
  <2>2. phase' = "negotiate"  BY <1>3 DEF Sorted
  <2>3. QED
    BY <1>1, <1>2, <1>3, <2>1, <2>2 DEF Sorting, Counted, Complete, drawing
<1>4. CASE placed # Nodes
  <2> DEFINE S == Nodes \ placed
  <2>1. S # {} /\ S \in SUBSET Nodes  BY <1>4 DEF TypeOK
  <2>2. ASSUME NEW k \in S PROVE Prods(k) \cap S # {}
    <3>1. waits[k] # {}  BY DEF Sorted
    <3>2. PICK p \in 1 .. InPorts[k] : wires[<<k, p>>] \in S
      BY <1>1, <3>1 DEF Sorting, Counted
    <3>3. QED  BY <3>2 DEF Prods
  <2>3. Knot(S)  BY <2>1, <2>2 DEF Knot
  <2>4. Knot(S)'  BY <1>1, <2>3 DEF Knot, Prods, drawing
  <2>5. phase' = "refused"  BY <1>4 DEF Sorted
  <2>6. QED
    BY <1>2, <2>1, <2>4, <2>5 DEF Sorting, Counted, Complete
<1>5. QED  BY <1>3, <1>4

(* A node replies to the streams of the levels above it. *)
LEMMA SameReply ==
  ASSUME TypeOK, Ordered, placed = Nodes, NEW k \in Nodes, NEW f, NEW g,
         f[Input] = g[Input], f[Silent] = g[Silent],
         \A j \in Nodes : level[j] < level[k] => f[j] = g[j]
  PROVE  Reply(k, f) = Reply(k, g)
<1>1. ASSUME NEW p \in 1 .. InPorts[k]
      PROVE  f[wires[<<k, p>>]] = g[wires[<<k, p>>]]
  <2>1. CASE wires[<<k, p>>] \in Prods(k)
    BY <2>1 DEF Ordered, Prods
  <2>2. QED  BY <2>1, SlotKinds
<1>2. Heard(k, f) = Heard(k, g)  BY <1>1 DEF Heard
<1>3. QED  BY <1>2 DEF Reply

(* What no streams can agree on is refused in negotiation and not before:  *)
(* whatever they are, they are those on the slots as far as it has come.   *)
LEMMA RefuseSorting ==
  ASSUME TypeOK, Sorting, Negotiated, Refuse
  PROVE  Sorting'
<1>1. /\ phase = "negotiate" /\ phase' = "refused" /\ UNCHANGED drawing
  BY DEF Refuse, built
<1>2. PICK k \in Level(at) : Reply(k, spec) = Refusal  BY DEF Refuse
<1>3. k \in Nodes /\ level[k] = at /\ placed = Nodes
  BY <1>1 DEF Level, Sorting, Complete
<1>4. ASSUME NEW f \in [Slots -> Specs], Agreed(f) PROVE FALSE
  <2>1. \A j \in Nodes : level[j] < level[k] => f[j] = spec[j]
    BY <1>1, <1>3, <1>4 DEF Negotiated, Asked
  <2>2. f[Input] = spec[Input] /\ f[Silent] = spec[Silent]
    BY <1>4 DEF Agreed, Negotiated
  <2>3. Reply(k, f) = Reply(k, spec)
    BY <1>3, <2>1, <2>2, SameReply DEF Sorting
  <2>4. f[k] = Refusal  BY <1>2, <1>3, <1>4, <2>3 DEF Agreed
  <2>5. f[k] \in Specs  BY <1>3, SlotSets
  <2>6. QED  BY <2>4, <2>5, SpecAssumption
<1>5. \A f : Agreed(f)' = Agreed(f)
  BY <1>1 DEF Agreed, Reply, Heard, drawing
<1>6. Complete'  BY <1>1, <1>4, <1>5 DEF Complete
<1>7. \A j : Prods(j)' = Prods(j)  BY <1>1 DEF Prods, drawing
<1>8. OneFeeder'  BY <1>1 DEF Sorting, OneFeeder, drawing
<1>9. Ordered'  BY <1>1, <1>7 DEF Sorting, Ordered, drawing
<1>10. NoKnot'  BY <1>1, <1>7 DEF Sorting, NoKnot, Knot, drawing
<1>11. Counted'  BY <1>1 DEF Counted
<1>12. QED  BY <1>6, <1>8, <1>9, <1>10, <1>11 DEF Sorting

LEMMA StepSorting ==
  ASSUME TypeOK, Sorting, Negotiated, [Next]_vars
  PROVE  Sorting'
<1>a. CASE \E from \in Nodes \cup {Input, Absent}, to \in Ports : Connect(from, to)
  BY <1>a, ConnectSorting
<1>b. CASE Resolve  BY <1>b, ResolveSorting
<1>c. CASE Sorted  BY <1>c, SortedSorting
<1>i. CASE Negotiate  BY <1>i, SortingKept DEF Negotiate
<1>j. CASE Refuse  BY <1>j, RefuseSorting
<1>d. CASE \E k \in Nodes, l \in 0 .. Size : Place(k, l)
  BY <1>d, PlaceSorting
<1>e. CASE UNCHANGED vars  BY <1>e, SortingKept DEF vars, built
<1>f. CASE SettleLevel  BY <1>f, SortingKept DEF SettleLevel, built
<1>g. CASE Unstage  BY <1>g, SortingKept DEF Unstage, PutBack, built
<1>h. CASE \/ \E k \in Nodes, on \in BOOLEAN : SetOff(k, on)
           \/ \E on \in BOOLEAN : SetInputOff(on)
           \/ Reset \/ StartRun \/ Stage
           \/ \E k \in Nodes : Abort(k)
           \/ \E k \in Nodes, ok \in BOOLEAN : Process(k, ok)
  BY <1>h, SortingKept
     DEF SetOff, SetInputOff, Reset, StartRun, Stage, Abort, PutBack, Process, built
<1>z. QED
  BY <1>a, <1>b, <1>c, <1>d, <1>e, <1>f, <1>g, <1>h, <1>i, <1>j DEF Next

-----------------------------------------------------------------------------
(* A level's answers are the only ones its nodes can give: they hear the   *)
(* levels above, on which all agreed streams are the same already.         *)
LEMMA NegotiateNegotiated ==
  ASSUME TypeOK, Sorting, Negotiated, Negotiate
  PROVE  Negotiated'
<1>1. /\ phase = "negotiate" /\ UNCHANGED drawing /\ placed = Nodes /\ Ordered
      /\ phase' \in {"ready", "negotiate"}
      /\ spec' = [s \in Slots |->
            IF s \in Level(at) THEN Reply(s, spec) ELSE spec[s]]
  BY DEF Negotiate, Sorting, Complete
<1>2. Input \notin Level(at) /\ Silent \notin Level(at)
  BY SlotSets DEF Level
<1>3. spec'[Input] = spec[Input] /\ spec'[Silent] = spec[Silent]
  BY <1>1, <1>2, SlotSets
<1>4. \A k \in Nodes : spec'[k] = IF k \in Level(at) THEN Reply(k, spec) ELSE spec[k]
  BY <1>1, SlotSets
<1>5. ASSUME NEW k \in Nodes, Asked(k)'
      PROVE  level[k] < at \/ k \in Level(at)
  <2>1. level[k] \in Nat /\ at \in Nat  BY DEF TypeOK
  <2>2. CASE Top(at)  BY <2>1, <2>2 DEF Top, Level
  <2>3. CASE ~Top(at)
    <3>1. phase' = "negotiate" /\ at' = at + 1  BY <2>3 DEF Negotiate
    <3>2. level[k] < at + 1  BY <1>1, <1>5, <3>1 DEF Asked, drawing
    <3>3. QED  BY <2>1, <3>2 DEF Level
  <2>4. QED  BY <2>2, <2>3
<1>6. \A k \in Nodes : Reply(k, spec)' = Reply(k, spec')
  BY <1>1 DEF Reply, Heard, drawing
<1>7. ASSUME NEW k \in Nodes, level[k] < at \/ k \in Level(at)
      PROVE  Reply(k, spec') = Reply(k, spec)
  <2>1. ASSUME NEW j \in Nodes, level[j] < level[k] PROVE spec'[j] = spec[j]
    <3>1. level[j] \in Nat /\ level[k] \in Nat /\ at \in Nat  BY DEF TypeOK
    <3>2. j \notin Level(at)  BY <1>7, <2>1, <3>1 DEF Level
    <3>3. QED  BY <1>4, <3>2
  <2>2. QED  BY <1>1, <1>3, <2>1, SameReply
<1>8. ASSUME NEW k \in Nodes, Asked(k)'
      PROVE  spec'[k] = Reply(k, spec)
  <2>1. CASE k \in Level(at)  BY <1>4, <2>1
  <2>2. CASE k \notin Level(at)
    <3>1. level[k] < at  BY <1>5, <1>8, <2>2
    <3>2. spec[k] = Reply(k, spec)  BY <1>1, <3>1 DEF Negotiated, Asked
    <3>3. QED  BY <1>4, <2>2, <3>2
  <2>3. QED  BY <2>1, <2>2
<1>9. ASSUME NEW k \in Nodes, Asked(k)'
      PROVE  spec'[k] = Reply(k, spec)'
  BY <1>5, <1>6, <1>7, <1>8, <1>9
<1>10. ASSUME NEW f \in [Slots -> Specs], Agreed(f), NEW k \in Nodes, Asked(k)'
       PROVE  f[k] = spec'[k]
  <2>1. level[k] < at \/ k \in Level(at)  BY <1>5, <1>10
  <2>2. ASSUME NEW j \in Nodes, level[j] < level[k] PROVE f[j] = spec[j]
    <3>1. level[j] \in Nat /\ level[k] \in Nat /\ at \in Nat  BY DEF TypeOK
    <3>2. level[j] < at  BY <2>1, <2>2, <3>1 DEF Level
    <3>3. QED  BY <1>1, <1>10, <3>2 DEF Negotiated, Asked
  <2>3. f[Input] = spec[Input] /\ f[Silent] = spec[Silent]
    BY <1>10 DEF Agreed, Negotiated
  <2>4. Reply(k, f) = Reply(k, spec)  BY <1>1, <2>2, <2>3, SameReply
  <2>5. QED  BY <1>8, <1>10, <2>4 DEF Agreed
<1>12. phase' \notin {"draw", "sort"}  BY <1>1
<1>13. \A f \in [Slots -> Specs] : (Agreed(f) =>
          \A k \in Nodes : Asked(k) => f[k] = spec[k])'
  <2> TAKE f \in [Slots -> Specs]
  <2>1. Agreed(f)' => Agreed(f)  BY <1>1 DEF Agreed, Reply, Heard, drawing
  <2>2. QED  BY <1>10, <2>1
<1>14. QED  BY <1>3, <1>9, <1>12, <1>13 DEF Negotiated

(* What negotiation settled is not touched afterwards. *)
LEMMA NegotiatedKept ==
  ASSUME Negotiated, UNCHANGED built,
         \/ phase' = phase /\ at' = at
         \/ phase \in {"ready", "settle", "run"}
              /\ phase' \in {"ready", "settle", "run"}
         \/ phase' = "refused"
  PROVE  Negotiated'
<1> USE DEF built, drawing
<1>3. \A k \in Nodes : Asked(k)' => Asked(k)  BY DEF Asked
<1>4. \A k \in Nodes : Reply(k, spec)' = Reply(k, spec)
  BY DEF Reply, Heard
<1>5. ASSUME NEW f, Agreed(f)' PROVE Agreed(f)
  BY <1>5 DEF Agreed, Reply, Heard
<1>6. QED  BY <1>3, <1>4, <1>5 DEF Negotiated

(* Before negotiation nothing has been asked. *)
LEMMA NotYetNegotiated ==
  ASSUME TypeOK', Negotiated, spec' = spec, at' = 0,
         phase' \in {"draw", "sort", "negotiate", "refused"}
  PROVE  Negotiated'
<1>1. \A k \in Nodes : ~(level'[k] < 0)  BY DEF TypeOK
<1>2. \A k \in Nodes : ~Asked(k)'  BY <1>1 DEF Asked
<1>3. QED  BY <1>2 DEF Negotiated

LEMMA StepNegotiated ==
  ASSUME TypeOK, Sorting, Negotiated, [Next]_vars
  PROVE  Negotiated'
<1>a. CASE \/ \E from \in Nodes \cup {Input, Absent}, to \in Ports : Connect(from, to)
           \/ Resolve \/ Sorted
           \/ \E k \in Nodes, l \in 0 .. Size : Place(k, l)
  <2>1. TypeOK'  BY StepTypes
  <2>2. /\ phase \in {"draw", "sort"} /\ spec' = spec /\ at' = at
        /\ phase' \in {"draw", "sort", "negotiate", "refused"}
    BY <1>a DEF Connect, Resolve, Sorted, Place, built
  <2>3. at' = 0  BY <2>2 DEF Negotiated
  <2>4. QED  BY <2>1, <2>2, <2>3, NotYetNegotiated
<1>c. CASE Negotiate  BY <1>c, NegotiateNegotiated
<1>d. CASE Refuse  BY <1>d, NegotiatedKept DEF Refuse
<1>e. CASE \/ \E k \in Nodes, on \in BOOLEAN : SetOff(k, on)
           \/ \E on \in BOOLEAN : SetInputOff(on)
           \/ SettleLevel \/ Reset \/ StartRun \/ Stage \/ Unstage
           \/ \E k \in Nodes : Abort(k)
           \/ \E k \in Nodes, ok \in BOOLEAN : Process(k, ok)
  <2>1. /\ UNCHANGED built /\ phase \in {"ready", "settle", "run"}
        /\ phase' \in {"ready", "settle", "run"}
    BY <1>e DEF SetOff, SetInputOff, SettleLevel, Reset, StartRun, Stage,
                Unstage, Abort, PutBack, Process
  <2>2. QED  BY <2>1, NegotiatedKept
<1>f. CASE UNCHANGED vars  BY <1>f, NegotiatedKept DEF vars
<1>z. QED
  BY <1>a, <1>c, <1>d, <1>e, <1>f DEF Next

-----------------------------------------------------------------------------
(* The level just put back joins those above the run. *)
LEMMA UnstageAbove ==
  ASSUME TypeOK, Above, Unstage
  PROVE  Above'
<1>1. /\ phase = "run" /\ level' = level /\ block' = block
      /\ stamp' = [s \in Slots |-> IF s \in Level(at) THEN block ELSE stamp[s]]
  BY DEF Unstage, PutBack, built, drawing
<1>2. SUFFICES ASSUME phase' = "run" PROVE Above'
  BY DEF Above
<1>3. at' = at + 1  BY <1>2 DEF Unstage
<1>4. Input \notin Level(at) /\ Silent \notin Level(at)
  BY SlotSets DEF Level
<1>5. stamp'[Input] = block /\ stamp'[Silent] = block
  BY <1>1, <1>4, SlotSets DEF Above
<1>6. ASSUME NEW k \in Nodes, level[k] < at + 1 PROVE stamp'[k] = block
  <2>1. level[k] \in Nat /\ at \in Nat  BY DEF TypeOK
  <2>2. CASE level[k] = at  BY <1>1, <2>2, SlotSets DEF Level
  <2>3. CASE level[k] < at  BY <1>1, <2>3, SlotSets DEF Level, Above
  <2>4. QED  BY <1>6, <2>1, <2>2, <2>3
<1>7. QED  BY <1>1, <1>3, <1>5, <1>6 DEF Above

LEMMA StageAbove ==
  ASSUME TypeOK, Above, Stage
  PROVE  Above'
<1>1. /\ phase = "run" /\ level' = level /\ block' = block /\ at' = at
      /\ stamp' = [s \in Slots |-> IF s \in Level(at) THEN 0 ELSE stamp[s]]
  BY DEF Stage, built, drawing
<1>2. Input \notin Level(at) /\ Silent \notin Level(at)
  BY SlotSets DEF Level
<1>3. stamp'[Input] = block /\ stamp'[Silent] = block
  BY <1>1, <1>2, SlotSets DEF Above
<1>4. ASSUME NEW k \in Nodes, level[k] < at PROVE stamp'[k] = block
  BY <1>1, <1>4, SlotSets DEF Level, Above, TypeOK
<1>5. QED  BY <1>1, <1>3, <1>4 DEF Above

LEMMA StepAbove ==
  ASSUME TypeOK, Above, [Next]_vars
  PROVE  Above'
<1>a. CASE Unstage  BY <1>a, UnstageAbove
<1>b. CASE Stage  BY <1>b, StageAbove
<1>c. CASE StartRun
  <2>1. /\ phase' = "run" /\ at' = 0 /\ block' = block + 1
        /\ stamp' = [stamp EXCEPT ![Input] = block + 1, ![Silent] = block + 1]
        /\ level' = level
    BY <1>c DEF StartRun, built, drawing
  <2>2. stamp'[Input] = block' /\ stamp'[Silent] = block'
    BY <2>1, SlotSets DEF TypeOK
  <2>3. \A k \in Nodes : ~(level[k] < 0)  BY DEF TypeOK
  <2>4. QED  BY <2>1, <2>2, <2>3 DEF Above
<1>d. CASE \E k \in Nodes, ok \in BOOLEAN : Process(k, ok)
  BY <1>d DEF Process, Above, built, drawing
<1>e. CASE UNCHANGED vars  BY <1>e DEF vars, Above, built, drawing, arena
<1>f. CASE phase' # "run"  BY <1>f DEF Above
<1>z. QED
  BY <1>a, <1>b, <1>c, <1>d, <1>e, <1>f
     DEF Next, Connect, Resolve, Sorted, Negotiate, Refuse, Place, SetOff, SetInputOff,
         SettleLevel, Reset, Abort

-----------------------------------------------------------------------------
LEMMA SameStarved ==
  ASSUME NEW k, wires' = wires, inputOff' = inputOff, idle' = idle
  PROVE  Starved(k)' = Starved(k)
BY DEF Starved, Wired, Dead

(* The walk decides a level from the levels it has decided already. *)
LEMMA SettleSettled ==
  ASSUME TypeOK, Ordered, Complete, Settled, SettleLevel
  PROVE  Settled'
<1>1. /\ phase = "settle" /\ placed = Nodes
      /\ idle' = (idle \ Level(at)) \cup {k \in Level(at) : k \in off \/ Starved(k)}
      /\ wires' = wires /\ level' = level /\ off' = off /\ inputOff' = inputOff
      /\ phase' \in {"ready", "settle"}
  BY DEF SettleLevel, built, drawing, Complete
<1>2. ASSUME NEW k \in Nodes, Walked(k)' PROVE level[k] < at \/ level[k] = at
  <2>0. level[k] \in Nat /\ at \in Nat  BY DEF TypeOK
  <2>1. CASE Top(at)  BY <2>0, <2>1 DEF Top
  <2>2. CASE ~Top(at)
    <3>1. phase' = "settle" /\ at' = at + 1  BY <2>2 DEF SettleLevel
    <3>2. level[k] < at + 1  BY <1>1, <1>2, <3>1 DEF Walked
    <3>3. QED  BY <2>0, <3>2
  <2>3. QED  BY <2>1, <2>2
<1>3. ASSUME NEW k \in Nodes, level[k] < at \/ level[k] = at
      PROVE  Starved(k)' = Starved(k)
  <2>1. Wired(k)' = Wired(k)  BY <1>1 DEF Wired
  <2>2. ASSUME NEW s \in Wired(k) PROVE Dead(s)' = Dead(s)
    <3>1. CASE s = Input  BY <1>1, <3>1 DEF Dead
    <3>2. CASE s # Input
      <4>1. PICK p \in 1 .. InPorts[k] : s = wires[<<k, p>>] /\ s # Silent
        BY DEF Wired
      <4>2. s \in Prods(k)  BY <3>2, <4>1, SlotKinds
      <4>3. s \in Nodes /\ level[s] < level[k]
        BY <1>1, <4>2 DEF Ordered, Prods
      <4>4. level[s] \in Nat /\ level[k] \in Nat /\ at \in Nat
        BY <4>3 DEF TypeOK
      <4>5. s \notin Level(at)  BY <1>3, <4>3, <4>4 DEF Level
      <4>6. s \in idle' <=> s \in idle  BY <1>1, <4>5
      <4>7. QED  BY <3>2, <4>6 DEF Dead
    <3>3. QED  BY <3>1, <3>2
  <2>3. QED  BY <2>1, <2>2 DEF Starved
<1>4. ASSUME NEW k \in Nodes, Walked(k)'
      PROVE  (k \in idle <=> k \in off \/ Starved(k))'
  <2>1. level[k] \in Nat /\ at \in Nat  BY DEF TypeOK
  <2>2. level[k] < at \/ level[k] = at  BY <1>2, <1>4
  <2>3. Starved(k)' = Starved(k)  BY <1>3, <2>2
  <2>4. CASE level[k] = at
    <3>1. k \in idle' <=> k \in off \/ Starved(k)  BY <1>1, <2>4 DEF Level
    <3>2. QED  BY <1>1, <2>3, <3>1
  <2>5. CASE level[k] < at
    <3>1. k \in idle <=> k \in off \/ Starved(k)
      BY <1>1, <2>5 DEF Settled, Walked
    <3>2. k \in idle' <=> k \in idle  BY <1>1, <2>1, <2>5 DEF Level
    <3>3. QED  BY <1>1, <2>3, <3>1, <3>2
  <2>6. QED  BY <2>2, <2>4, <2>5
<1>5. QED  BY <1>1, <1>4 DEF Settled

(* Nothing is off before the first switch, so nothing is starved. *)
LEMMA NegotiateSettled ==
  ASSUME TypeOK, Settled, Negotiate, Top(at)
  PROVE  Settled'
<1>1. /\ phase = "negotiate" /\ idle = {} /\ off = {} /\ inputOff = FALSE
      /\ idle' = {} /\ off' = {} /\ inputOff' = FALSE
      /\ phase' = "ready"
  BY DEF Negotiate, Settled, switches
<1>2. \A s : ~Dead(s)'  BY <1>1 DEF Dead
<1>3. \A k \in Nodes : ~Starved(k)'  BY <1>2 DEF Starved
<1>4. QED  BY <1>1, <1>3 DEF Settled

LEMMA SettledKept ==
  ASSUME Settled, UNCHANGED <<wires, level, switches>>, phase' = phase,
         phase = "settle" => at' = at
  PROVE  Settled'
<1> USE DEF switches
<1>1. \A k : Starved(k)' = Starved(k)  BY SameStarved
<1>2. \A k \in Nodes : Walked(k)' = Walked(k)  BY DEF Walked
<1>3. QED  BY <1>1, <1>2 DEF Settled

LEMMA SettledRun ==
  ASSUME Settled, UNCHANGED <<wires, level, switches>>,
         phase \in {"ready", "run"}, phase' \in {"ready", "run"}
  PROVE  Settled'
<1> USE DEF switches
<1>1. \A k : Starved(k)' = Starved(k)  BY SameStarved
<1>2. \A k \in Nodes : Walked(k)  BY DEF Walked
<1>3. QED  BY <1>1, <1>2 DEF Settled

LEMMA StepSettled ==
  ASSUME TypeOK, Sorting, Settled, [Next]_vars
  PROVE  Settled'
<1>a. CASE SettleLevel  BY <1>a, SettleSettled DEF Sorting
<1>b. CASE Negotiate /\ Top(at)  BY <1>b, NegotiateSettled
<1>c. CASE \/ \E k \in Nodes, on \in BOOLEAN : SetOff(k, on)
           \/ \E on \in BOOLEAN : SetInputOff(on)
  <2>1. phase' = "settle" /\ at' = 0 /\ level' = level
    BY <1>c DEF SetOff, SetInputOff, built, drawing
  <2>2. \A k \in Nodes : ~(level[k] < 0)  BY DEF TypeOK
  <2>3. \A k \in Nodes : ~Walked(k)'  BY <2>1, <2>2 DEF Walked
  <2>4. QED  BY <2>1, <2>3 DEF Settled
<1>d. CASE \/ Resolve \/ Sorted \/ Refuse \/ (Negotiate /\ ~Top(at))
           \/ \E k \in Nodes, l \in 0 .. Size : Place(k, l)
           \/ \E from \in Nodes \cup {Input, Absent}, to \in Ports : Connect(from, to)
  <2>1. /\ phase \in {"draw", "sort", "negotiate"} /\ UNCHANGED switches
        /\ phase' \in {"draw", "sort", "negotiate", "refused"}
    BY <1>d DEF Resolve, Sorted, Refuse, Negotiate, Place, Connect
  <2>2. QED  BY <2>1 DEF Settled, Walked, switches
<1>e. CASE Reset \/ Stage \/ \E k \in Nodes, ok \in BOOLEAN : Process(k, ok)
  BY <1>e, SettledKept DEF Reset, Stage, Process, built, drawing
<1>f. CASE StartRun \/ Unstage \/ \E k \in Nodes : Abort(k)
  BY <1>f, SettledRun DEF StartRun, Unstage, Abort, PutBack, built, drawing
<1>g. CASE UNCHANGED vars
  BY <1>g, SettledKept DEF vars, built, drawing
<1>z. QED
  BY <1>a, <1>b, <1>c, <1>d, <1>e, <1>f, <1>g DEF Next

-----------------------------------------------------------------------------
LEMMA ProcessParked ==
  ASSUME TypeOK, Parked, NEW k \in Nodes, NEW ok \in BOOLEAN, Process(k, ok)
  PROVE  Parked'
<1>1. /\ phase = "run" /\ phase' = "run" /\ staged /\ staged'
      /\ k \in todo /\ todo' = todo \ {k}
      /\ at' = at /\ block' = block /\ level' = level
      /\ err' = err \/ err' = [err EXCEPT ![k] = block]
  BY DEF Process, built, drawing
<1>2. Level(at)' = Level(at)  BY <1>1 DEF Level
<1>3. twin' = (twin \/ \E i, j \in Level(at) :
                         i # j /\ err'[i] # 0 /\ err'[j] # 0)
  BY DEF Process
<1>4. todo' \subseteq Level(at)' /\ block' > 0
  BY <1>1, <1>2 DEF Parked
<1>5. ASSUME ~twin'
      PROVE  /\ \A j \in Nodes : err'[j] # 0 =>
                  phase' = "run" /\ staged' /\ level'[j] = at' /\ err'[j] = block'
             /\ \A i, j \in Nodes : err'[i] # 0 /\ err'[j] # 0 => i = j
  <2>1. ~twin  BY <1>3, <1>5 DEF TypeOK
  <2>2. level[k] = at  BY <1>1 DEF Parked, Level
  <2>3. ASSUME NEW j \in Nodes, err'[j] # 0
        PROVE  level[j] = at /\ err'[j] = block
    <3>1. CASE err' = err  BY <2>1, <2>3, <3>1 DEF Parked
    <3>2. CASE err' = [err EXCEPT ![k] = block] /\ j = k
      BY <2>2, <3>2 DEF TypeOK
    <3>3. CASE err' = [err EXCEPT ![k] = block] /\ j # k
      BY <2>1, <2>3, <3>3 DEF Parked, TypeOK
    <3>4. QED  BY <1>1, <3>1, <3>2, <3>3
  <2>4. \A j \in Nodes : err'[j] # 0 => j \in Level(at)  BY <2>3 DEF Level
  <2>5. \A i, j \in Nodes : err'[i] # 0 /\ err'[j] # 0 => i = j
    BY <1>3, <1>5, <2>4
  <2>6. QED  BY <1>1, <2>3, <2>5
<1>6. QED  BY <1>1, <1>4, <1>5 DEF Parked

LEMMA StepParked ==
  ASSUME TypeOK, Parked, [Next]_vars
  PROVE  Parked'
<1>a. CASE \E k \in Nodes, ok \in BOOLEAN : Process(k, ok)
  BY <1>a, ProcessParked
<1>b. CASE StartRun
  <2>1. /\ phase = "ready" /\ phase' = "run" /\ err' = err /\ twin' = twin
        /\ todo = {} /\ todo' = todo /\ block' = block + 1
    BY <1>b DEF StartRun, Parked
  <2>2. block' > 0  BY <2>1 DEF TypeOK
  <2>3. ~twin => \A k \in Nodes : err[k] = 0  BY <2>1 DEF Parked
  <2>4. QED  BY <2>1, <2>2, <2>3 DEF Parked
<1>c. CASE Stage
  <2>1. /\ phase = "run" /\ phase' = "run" /\ ~staged /\ block' = block
        /\ err' = err /\ twin' = twin /\ staged' /\ at' = at /\ level' = level
        /\ todo' = Level(at)
    BY <1>c DEF Stage, built, drawing
  <2>2. Level(at)' = Level(at)  BY <2>1 DEF Level
  <2>3. QED  BY <2>1, <2>2 DEF Parked
<1>d. CASE Unstage
  <2>1. /\ phase = "run" /\ phase' \in {"ready", "run"} /\ block' = block
        /\ err' = err /\ twin' = twin /\ todo = {} /\ todo' = {} /\ Failed = {}
    BY <1>d DEF Unstage, PutBack
  <2>2. ~twin => \A k \in Nodes : err[k] = 0
    BY <2>1 DEF Parked, Failed, Level
  <2>3. QED  BY <2>1, <2>2 DEF Parked
<1>e. CASE \E k \in Nodes : Abort(k)
  <2>0. PICK k \in Nodes : Abort(k)  BY <1>e
  <2>1. /\ phase = "run" /\ phase' = "ready" /\ block' = block /\ twin' = twin
        /\ err' = [err EXCEPT ![k] = 0] /\ todo = {} /\ todo' = {} /\ err[k] # 0
    BY <2>0 DEF Abort, PutBack, Failed
  <2>2. ~twin => \A j \in Nodes : err'[j] = 0
    BY <2>1 DEF Parked, TypeOK
  <2>3. QED  BY <2>1, <2>2 DEF Parked
<1>f. CASE UNCHANGED vars
  BY <1>f DEF vars, Parked, Level, built, drawing, arena
<1>g. CASE \/ \E from \in Nodes \cup {Input, Absent}, to \in Ports : Connect(from, to)
           \/ Resolve \/ Sorted \/ Negotiate \/ Refuse
           \/ \E k \in Nodes, l \in 0 .. Size : Place(k, l)
           \/ \E k \in Nodes, on \in BOOLEAN : SetOff(k, on)
           \/ \E on \in BOOLEAN : SetInputOff(on)
           \/ SettleLevel \/ Reset
  <2>1. /\ phase # "run" /\ phase' # "run" /\ todo' = todo /\ err' = err
        /\ twin' = twin
    BY <1>g DEF Connect, Resolve, Sorted, Negotiate, Refuse, Place, SetOff, SetInputOff,
                SettleLevel, Reset, arena
  <2>2. QED  BY <2>1 DEF Parked
<1>z. QED
  BY <1>a, <1>b, <1>c, <1>d, <1>e, <1>f, <1>g DEF Next

-----------------------------------------------------------------------------
LEMMA InitIInv == Init => IInv
<1> SUFFICES ASSUME Init PROVE IInv
  OBVIOUS
<1>1. TypeOK  BY InitTypes
<1>2. Sorting
  BY DEF Init, Sorting, OneFeeder, Ordered, Counted, NoKnot, Complete
<1>7. Negotiated  BY SlotSets DEF Init, Negotiated, Asked
<1>3. Above  BY DEF Init, Above
<1>4. Settled  BY DEF Init, Settled, Walked
<1>5. Parked  BY DEF Init, Parked
<1>6. QED  BY <1>1, <1>2, <1>3, <1>4, <1>5, <1>7 DEF IInv

LEMMA NextIInv == IInv /\ [Next]_vars => IInv'
BY StepTypes, StepSorting, StepNegotiated, StepAbove, StepSettled, StepParked DEF IInv

THEOREM GraphInvariant == Spec => []IInv
BY InitIInv, NextIInv, PTL DEF Spec

-----------------------------------------------------------------------------
(* build() accepts exactly the drawings whose inputs are fed by nodes that *)
(* exist, that have no cycle and that some streams would suit from end to  *)
(* end, for every wiring of any number of nodes and whatever each makes of *)
(* what it is fed: Kahn's walk leaves a node out only when some nodes feed *)
(* each other in a circle, and negotiation finds the only streams there    *)
(* can be.                                                                 *)
THEOREM BuildIsRight == Spec => []BuildDecides
<1>1. IInv => BuildDecides
  <2> SUFFICES ASSUME IInv PROVE BuildDecides
    OBVIOUS
  <2>1. ASSUME phase \in {"ready", "settle", "run"}, NEW S \in SUBSET Nodes
        PROVE  ~Knot(S)
    <3>1. placed = Nodes  BY <2>1 DEF IInv, Sorting, Complete
    <3>2. Knot(S) => S \cap Nodes = {}  BY <3>1 DEF IInv, Sorting, NoKnot
    <3>3. QED  BY <3>2 DEF Knot
  <2>2. phase \in {"ready", "settle", "run"} => Agreed(spec)
    BY DEF IInv, Negotiated, Asked, Agreed
  <2>3. phase \in {"ready", "settle", "run"} => Unfed = {} /\ Dangling = {}
    BY DEF IInv, Sorting, Complete
  <2>4. QED
    BY <2>1, <2>2, <2>3
       DEF IInv, Sorting, Complete, OneFeeder, BuildDecides
<1>2. QED  BY <1>1, GraphInvariant, PTL

(* No node reads a buffer that is being written beside it, or one left     *)
(* over from an earlier block: the levels and the arena together.          *)
THEOREM InputsAreCurrent == Spec => []ReadsThisBlock
<1>1. IInv => ReadsThisBlock
  <2> SUFFICES ASSUME IInv, phase = "run", NEW k \in Level(at),
                      NEW p \in 1 .. InPorts[k]
               PROVE  stamp[wires[<<k, p>>]] = block
    BY DEF ReadsThisBlock
  <2>1. k \in Nodes /\ level[k] = at /\ placed = Nodes
    BY DEF Level, IInv, Sorting, Complete
  <2>2. CASE wires[<<k, p>>] \in Prods(k)
    <3>1. wires[<<k, p>>] \in Nodes /\ level[wires[<<k, p>>]] < at
      BY <2>1, <2>2 DEF IInv, Sorting, Ordered, Prods
    <3>2. QED  BY <3>1 DEF IInv, Above
  <2>3. CASE wires[<<k, p>>] \in {Input, Silent}
    BY <2>3 DEF IInv, Above
  <2>4. QED  BY <2>1, <2>2, <2>3, SlotKinds DEF IInv
<1>2. QED  BY <1>1, GraphInvariant, PTL

(* The nodes that idle are the largest set none of which can get samples.  *)
(* One inclusion is the walk's own rule; for the other, nodes of a starving *)
(* set that did not idle would feed each other in a circle.                *)
THEOREM IdleIsRight == Spec => []IdleIsCutOff
<1>1. IInv => IdleIsCutOff
  <2> SUFFICES ASSUME IInv, phase \in {"ready", "run"}
               PROVE  idle = UNION {S \in SUBSET Nodes : Starving(S)}
    BY DEF IdleIsCutOff
  <2>0. /\ idle \subseteq Nodes /\ placed = Nodes
        /\ \A k \in Nodes : k \in idle <=> k \in off \/ Starved(k)
    BY DEF IInv, TypeOK, Sorting, Complete, Settled, Walked
  <2>1. Starving(idle)
    <3> SUFFICES ASSUME NEW k \in idle, k \notin off
                 PROVE  Wired(k) # {} /\ \A s \in Wired(k) :
                            s \in idle \/ (s = Input /\ inputOff)
      BY DEF Starving
    <3>1. Starved(k)  BY <2>0
    <3>2. QED  BY <3>1 DEF Starved, Dead
  <2>2. ASSUME NEW S \in SUBSET Nodes, Starving(S)
        PROVE  S \subseteq idle
    <3>1. ASSUME NEW k \in S \ idle
          PROVE  Prods(k) \cap (S \ idle) # {}
      <4>1. k \notin off /\ ~Starved(k)  BY <2>0
      <4>2. Wired(k) # {} /\ \A s \in Wired(k) :
                                s \in S \/ (s = Input /\ inputOff)
        BY <2>2, <4>1 DEF Starving
      <4>3. PICK s \in Wired(k) : ~Dead(s)  BY <4>1, <4>2 DEF Starved
      <4>4. s \in S \/ (s = Input /\ inputOff)  BY <4>2
      <4>5. s # Input  BY <4>3, <4>4, SlotSets DEF Dead
      <4>6. s \in S \ idle  BY <4>3, <4>4, <4>5 DEF Dead
      <4>7. s \in Prods(k)  BY <4>6 DEF Wired, Prods
      <4>8. QED  BY <4>6, <4>7
    <3>2. S \ idle # {} => Knot(S \ idle)  BY <3>1 DEF Knot
    <3>3. Knot(S \ idle) => (S \ idle) \cap Nodes = {}
      BY <2>0 DEF IInv, Sorting, NoKnot
    <3>4. QED  BY <3>2, <3>3
  <2>3. QED  BY <2>0, <2>1, <2>2
<1>2. QED  BY <1>1, GraphInvariant, PTL

-----------------------------------------------------------------------------
(* A run that does not fail has rewritten every node's buffers. *)
THEOREM TapsAreCurrent == Spec => TapsAreOfThisBlock
<1>1. IInv /\ [Next]_vars
        => [(phase = "run" /\ phase' = "ready" /\ verdict' = 0)
               => \A k \in Nodes : stamp'[k] = block]_vars
  <2> SUFFICES ASSUME IInv, Next, phase = "run", phase' = "ready", verdict' = 0,
                      NEW k \in Nodes
               PROVE  stamp'[k] = block
    OBVIOUS
  <2>1. Unstage
    <3>1. ASSUME NEW j \in Nodes, Abort(j) PROVE FALSE
      BY <3>1 DEF Abort, Failed
    <3>2. QED
      BY <3>1 DEF Next, Connect, Resolve, Sorted, Negotiate, Refuse, Place, SetOff, SetInputOff,
             SettleLevel, Reset, StartRun, Stage, Process
  <2>2. /\ stamp' = [s \in Slots |-> IF s \in Level(at) THEN block ELSE stamp[s]]
        /\ Top(at)
    BY <2>1 DEF Unstage, PutBack
  <2>3. level[k] \in Nat /\ at \in Nat /\ level[k] <= at
    BY <2>2 DEF IInv, TypeOK, Top
  <2>4. CASE level[k] = at  BY <2>2, <2>4, SlotSets DEF Level
  <2>5. CASE level[k] < at
    BY <2>2, <2>5, SlotSets DEF Level, IInv, Above
  <2>6. QED  BY <2>3, <2>4, <2>5
<1>2. QED  BY <1>1, GraphInvariant, PTL DEF Spec, TapsAreOfThisBlock

(* While no two nodes of one level ever failed together, an error is only  *)
(* returned for a block in which a node failed.                            *)
THEOREM ErrorsAreCurrent == Spec => ErrorIsOfThisBlock
<1>1. IInv /\ [Next]_vars
        => [(phase = "run" /\ phase' = "ready" /\ ~twin)
               => verdict' \in {0, block}]_vars
  <2> SUFFICES ASSUME IInv, Next, phase = "run", phase' = "ready", ~twin
               PROVE  verdict' \in {0, block}
    OBVIOUS
  <2>1. CASE Unstage  BY <2>1 DEF Unstage
  <2>2. CASE \E k \in Nodes : Abort(k)
    <3>1. PICK k \in Nodes : Abort(k)  BY <2>2
    <3>2. err[k] # 0 /\ verdict' = err[k]  BY <3>1 DEF Abort, Failed
    <3>3. QED  BY <3>2 DEF IInv, Parked
  <2>3. QED
    BY <2>1, <2>2 DEF Next, Connect, Resolve, Sorted, Negotiate, Refuse, Place, SetOff,
       SetInputOff, SettleLevel, Reset, StartRun, Stage, Process
<1>2. QED  BY <1>1, GraphInvariant, PTL DEF Spec, ErrorIsOfThisBlock

(* What a run leaves in the ports and what it returns are of its own block. *)
THEOREM RunsAreCurrent == Spec => RunSpeaksOfThisBlock
  BY TapsAreCurrent, ErrorsAreCurrent, PTL DEF RunSpeaksOfThisBlock

-----------------------------------------------------------------------------
(***************************************************************************)
(* The operator's edits.  What a graph, a base and a set of edits are made of, *)
(* what is read off a graph and what it comes to when it is drawn again.   *)
(***************************************************************************)

Ids == Front \cup Own
Stages == [set : Values, from : Values]
Maps(S, V) == UNION {[T -> V] : T \in SUBSET S}
Graphs == [at : Maps(Ids, Stages), off : SUBSET Ids, askew : BOOLEAN]
Bases == {EmptyPatch} \cup {Base(d) : d \in Dials}
EditSet == [stages : Maps(Own, Values), removed : SUBSET Front,
            settings : Maps(Front, Values), links : Maps(Ids, Values),
            off : SUBSET Ids]

(* A function on some of the keys is one of the maps. *)
LEMMA InMaps ==
  ASSUME NEW S, NEW V, NEW T \in SUBSET S, NEW f \in [T -> V]
  PROVE  f \in Maps(S, V)
  BY DEF Maps

(* What a map from some of the keys is. *)
LEMMA MapsDef ==
  ASSUME NEW S, NEW V, NEW f \in Maps(S, V)
  PROVE  /\ DOMAIN f \subseteq S
         /\ \A s \in DOMAIN f : f[s] \in V
         /\ f = [s \in DOMAIN f |-> f[s]]
  BY DEF Maps

(* The values everything starts from. *)
LEMMA Small == /\ AsDrawn \in Values /\ Broken \in Values
               /\ Plain \in Stages /\ Plain.from # Broken
               /\ AsDrawn # Broken
  BY EditsAssumption DEF AsDrawn, Broken, Values, Plain, Stages

(* What the receiver draws for itself at a dial: every stage as drawn, none off. *)
LEMMA BaseAt ==
  ASSUME NEW d \in Dials
  PROVE  /\ Base(d).at = [s \in InSpan[d] |-> Plain]
         /\ DOMAIN Base(d).at = InSpan[d]
         /\ Base(d).off = {} /\ Base(d).askew = FALSE
         /\ Base(d) \in Graphs /\ Base(d) \in Bases
         /\ InSpan[d] \subseteq Front /\ Awkward[d] \subseteq Front
         /\ \A s \in InSpan[d] : /\ Base(d).at[s] = Plain
                                /\ Base(d).at[s].set = AsDrawn /\ Base(d).at[s].from = AsDrawn
<1>1. InSpan[d] \subseteq Front /\ Awkward[d] \subseteq Front
  BY EditsAssumption
<1>2. [s \in InSpan[d] |-> Plain] \in Maps(Ids, Stages)
  <2>1. InSpan[d] \in SUBSET Ids
    BY <1>1 DEF Ids
  <2>2. [s \in InSpan[d] |-> Plain] \in [InSpan[d] -> Stages]
    BY Small
  <2> QED  BY <2>1, <2>2, InMaps
<1>3. \A s \in InSpan[d] : Base(d).at[s] = Plain
  BY DEF Base, Patch
<1>4. \A s \in InSpan[d] : Base(d).at[s].set = AsDrawn /\ Base(d).at[s].from = AsDrawn
  BY <1>3 DEF Plain
<1>5. Base(d) \in Graphs
  BY <1>1, <1>2 DEF Base, Patch, Graphs
<1> QED  BY <1>1, <1>3, <1>4, <1>5 DEF Base, Patch, Bases

(* The graph nobody has drawn. *)
LEMMA EmptyAt ==
  /\ DOMAIN EmptyPatch.at = {} /\ EmptyPatch.off = {} /\ EmptyPatch.askew = FALSE
  /\ EmptyPatch \in Graphs /\ EmptyPatch \in Bases
<1>1. [s \in {} |-> Plain] \in Maps(Ids, Stages)
  <2>1. [s \in {} |-> Plain] \in [{} -> Stages]
    OBVIOUS
  <2> QED  BY <2>1, InMaps
<1> QED  BY <1>1 DEF EmptyPatch, Patch, Graphs, Bases

(* A base holds the receiver's own stages, each as drawn. *)
LEMMA BasesAreGraphs ==
  ASSUME NEW b \in Bases
  PROVE  b \in Graphs /\ DOMAIN b.at \subseteq Front /\ b.off = {} /\ b.askew = FALSE
         /\ \A s \in DOMAIN b.at : b.at[s] = Plain
<1>1. CASE b = EmptyPatch
  BY <1>1, EmptyAt
<1>2. CASE \E d \in Dials : b = Base(d)
  <2>1. PICK d \in Dials : b = Base(d)
    BY <1>2
  <2> QED  BY <2>1, BaseAt
<1> QED  BY <1>1, <1>2 DEF Bases

(* What a graph is made of. *)
LEMMA GraphParts ==
  ASSUME NEW p \in Graphs
  PROVE  /\ p.at \in Maps(Ids, Stages) /\ DOMAIN p.at \subseteq Ids
         /\ \A s \in DOMAIN p.at : /\ p.at[s] \in Stages
                                   /\ p.at[s].set \in Values /\ p.at[s].from \in Values
                                   /\ p.at[s] = [set |-> p.at[s].set, from |-> p.at[s].from]
         /\ p.off \subseteq Ids /\ p.askew \in BOOLEAN
         /\ p = [at |-> p.at, off |-> p.off, askew |-> p.askew]
<1>1. p.at \in Maps(Ids, Stages)
  BY DEF Graphs
<1>2. DOMAIN p.at \subseteq Ids /\ \A s \in DOMAIN p.at : p.at[s] \in Stages
  BY <1>1, MapsDef
<1>3. \A s \in DOMAIN p.at : /\ p.at[s].set \in Values /\ p.at[s].from \in Values
                             /\ p.at[s] = [set |-> p.at[s].set, from |-> p.at[s].from]
  BY <1>2 DEF Stages
<1>4. p.off \subseteq Ids /\ p.askew \in BOOLEAN
      /\ p = [at |-> p.at, off |-> p.off, askew |-> p.askew]
  BY DEF Graphs
<1> QED  BY <1>1, <1>2, <1>3, <1>4

(* What a set of edits is made of. *)
LEMMA EditParts ==
  ASSUME NEW e \in EditSet
  PROVE  /\ e.stages \in Maps(Own, Values) /\ DOMAIN e.stages \subseteq Own
         /\ \A s \in DOMAIN e.stages : e.stages[s] \in Values
         /\ e.removed \subseteq Front
         /\ DOMAIN e.settings \subseteq Front
         /\ \A s \in DOMAIN e.settings : e.settings[s] \in Values
         /\ DOMAIN e.links \subseteq Ids
         /\ \A s \in DOMAIN e.links : e.links[s] \in Values
         /\ e.off \subseteq Ids
  BY MapsDef DEF EditSet

(* What is read off a graph is a set of edits. *)
LEMMA DiffType ==
  ASSUME NEW p \in Graphs, NEW b \in Bases
  PROVE  Diff(p, b) \in EditSet
<1> DEFINE mine == DOMAIN p.at \cap Own
           common == DOMAIN p.at \cap DOMAIN b.at
           told == {t \in common : p.at[t].set # b.at[t].set}
           wired == {t \in common : p.at[t].from # b.at[t].from}
                      \cup {t \in mine : p.at[t].from # AsDrawn}
<1>1. DOMAIN b.at \subseteq Front /\ DOMAIN p.at \subseteq Ids
  BY BasesAreGraphs, GraphParts
<1>2. \A s \in DOMAIN p.at : p.at[s].set \in Values /\ p.at[s].from \in Values
  BY GraphParts
<1>3. [s \in mine |-> p.at[s].set] \in Maps(Own, Values)
  <2>1. [s \in mine |-> p.at[s].set] \in [mine -> Values]
    BY <1>2
  <2> QED  BY <2>1, InMaps, mine \in SUBSET Own
<1>4. [s \in told |-> p.at[s].set] \in Maps(Front, Values)
  <2>1. [s \in told |-> p.at[s].set] \in [told -> Values]
    BY <1>2
  <2> QED  BY <2>1, InMaps, <1>1, told \in SUBSET Front
<1>5. [s \in wired |-> p.at[s].from] \in Maps(Ids, Values)
  <2>1. [s \in wired |-> p.at[s].from] \in [wired -> Values]
    BY <1>2
  <2> QED  BY <2>1, InMaps, <1>1, wired \in SUBSET Ids
<1>6. p.off \ b.off \in SUBSET Ids
  BY GraphParts
<1>7. DOMAIN b.at \ DOMAIN p.at \in SUBSET Front
  BY <1>1
<1>8. Diff(p, b) = [stages |-> [s \in mine |-> p.at[s].set],
                    removed |-> DOMAIN b.at \ DOMAIN p.at,
                    settings |-> [s \in told |-> p.at[s].set],
                    links |-> [s \in wired |-> p.at[s].from],
                    off |-> p.off \ b.off]
  BY DEF Diff
<1> QED  BY <1>3, <1>4, <1>5, <1>6, <1>7, <1>8 DEF EditSet

(* What a drawing with edits on it comes to, stage by stage. *)
SetOf(e, s)  == IF s \in DOMAIN e.settings THEN e.settings[s]
                ELSE IF s \in DOMAIN e.stages THEN e.stages[s] ELSE AsDrawn
FromOf(e, s) == IF s \in DOMAIN e.links THEN e.links[s] ELSE AsDrawn
Refused(d)   == IF "refuses" \in world THEN Awkward[d] ELSE {}
DrawnBy(e, d) == (DOMAIN e.stages \cup (InSpan[d] \ e.removed)) \ Refused(d)

(* What edits put on a base come to, written out. *)
LEMMA AssembledIs ==
  ASSUME NEW e \in EditSet, NEW d \in Dials
  PROVE  Assembled(e, d) = [at |-> [s \in DrawnBy(e, d) |-> [set |-> SetOf(e, s), from |-> FromOf(e, s)]],
                            off |-> e.off \ Refused(d), askew |-> FALSE]
<1> DEFINE left == [at |-> [s \in InSpan[d] \ e.removed |-> Plain], off |-> {}, askew |-> FALSE]
           all == Apply(e, Base(d))
<1>1. Without(Base(d), e.removed) = left
  BY DEF Without, Restrict, Base, Patch
<1>2. all = [at |-> [s \in DOMAIN e.stages \cup (InSpan[d] \ e.removed) |->
                        [set |-> SetOf(e, s), from |-> FromOf(e, s)]],
             off |-> e.off, askew |-> FALSE]
  <2>1. \A s \in DOMAIN e.stages \cup (InSpan[d] \ e.removed) :
          /\ (IF s \in DOMAIN e.settings THEN e.settings[s]
              ELSE (IF s \in DOMAIN e.stages THEN [set |-> e.stages[s], from |-> AsDrawn]
                    ELSE left.at[s]).set) = SetOf(e, s)
          /\ (IF s \in DOMAIN e.links THEN e.links[s]
              ELSE (IF s \in DOMAIN e.stages THEN [set |-> e.stages[s], from |-> AsDrawn]
                    ELSE left.at[s]).from) = FromOf(e, s)
    BY DEF SetOf, FromOf, Plain
  <2>2. DOMAIN left.at = InSpan[d] \ e.removed /\ left.off \cup e.off = e.off
    OBVIOUS
  <2> HIDE DEF left
  <2> QED  BY <1>1, <2>1, <2>2 DEF Apply, Patch
<1>3. Assembled(e, d) = Without(all, Refused(d))
  BY DEF Assembled, Refused
<1> HIDE DEF all
<1>4. Without(all, Refused(d)) = [at |-> Restrict(all.at, DOMAIN all.at \ Refused(d)),
                                  off |-> all.off \ Refused(d), askew |-> FALSE]
  BY <1>2 DEF Without
<1>5. all.off = e.off /\ all.at = [s \in DOMAIN e.stages \cup (InSpan[d] \ e.removed) |->
                        [set |-> SetOf(e, s), from |-> FromOf(e, s)]]
  BY <1>2
<1>6. Restrict(all.at, DOMAIN all.at \ Refused(d))
        = [s \in DrawnBy(e, d) |-> [set |-> SetOf(e, s), from |-> FromOf(e, s)]]
  BY <1>5 DEF Restrict, DrawnBy
<1> QED  BY <1>3, <1>4, <1>5, <1>6

(* And of what kind it is. *)
LEMMA AssembledType ==
  ASSUME NEW e \in EditSet, NEW d \in Dials
  PROVE  /\ Assembled(e, d) \in Graphs
         /\ DOMAIN Assembled(e, d).at = DrawnBy(e, d)
         /\ \A s \in DrawnBy(e, d) : /\ Assembled(e, d).at[s].set = SetOf(e, s)
                                     /\ Assembled(e, d).at[s].from = FromOf(e, s)
         /\ Assembled(e, d).off = e.off \ Refused(d)
         /\ Assembled(e, d).askew = FALSE
         /\ DrawnBy(e, d) \subseteq Own \cup (InSpan[d] \ Refused(d))
<1> DEFINE G == [s \in DrawnBy(e, d) |-> [set |-> SetOf(e, s), from |-> FromOf(e, s)]]
<1>0. Refused(d) \subseteq Front
  BY BaseAt DEF Refused
<1>1. DrawnBy(e, d) \subseteq Own \cup (InSpan[d] \ Refused(d))
  BY BaseAt, EditParts, <1>0, EditsAssumption DEF DrawnBy
<1>2. DrawnBy(e, d) \in SUBSET Ids
  BY <1>1, BaseAt DEF Ids
<1>3. \A s \in DrawnBy(e, d) : SetOf(e, s) \in Values /\ FromOf(e, s) \in Values
  BY EditParts, Small DEF SetOf, FromOf
<1>4. G \in [DrawnBy(e, d) -> Stages]
  BY <1>3 DEF Stages
<1>5. G \in Maps(Ids, Stages)
  BY <1>2, <1>4, InMaps
<1>6. e.off \ Refused(d) \in SUBSET Ids
  BY EditParts
<1>7. Assembled(e, d) = [at |-> G, off |-> e.off \ Refused(d), askew |-> FALSE]
  BY AssembledIs
<1> HIDE DEF G
<1>8. Assembled(e, d) \in Graphs /\ Assembled(e, d).at = G
      /\ Assembled(e, d).off = e.off \ Refused(d) /\ Assembled(e, d).askew = FALSE
  BY <1>5, <1>6, <1>7 DEF Graphs
<1> QED  BY <1>1, <1>8 DEF G

(* Read off a drawing and put back where it was drawn, edits come to it again. *)
LEMMA Redrawn ==
  ASSUME NEW d \in Dials, NEW p \in Graphs,
         DOMAIN p.at \subseteq Own \cup InSpan[d],
         (DOMAIN p.at \cup p.off) \cap Refused(d) = {}
  PROVE  Assembled(Diff(p, Base(d)), d) = Patch(p.at, p.off)
<1> DEFINE e == Diff(p, Base(d))
<1>0. e \in EditSet
  BY DiffType, BaseAt
<1>1. e.stages = [s \in DOMAIN p.at \cap Own |-> p.at[s].set] /\ e.removed = InSpan[d] \ DOMAIN p.at
      /\ e.off = p.off
  BY BaseAt DEF Diff
<1>2. DOMAIN p.at \cap InSpan[d] \cap Own = {}
  BY BaseAt, EditsAssumption
<1>3. e.settings = [s \in {t \in DOMAIN p.at \cap InSpan[d] : p.at[t].set # AsDrawn} |-> p.at[s].set]
  <2>1. {t \in DOMAIN p.at \cap DOMAIN Base(d).at : p.at[t].set # Base(d).at[t].set}
        = {t \in DOMAIN p.at \cap InSpan[d] : p.at[t].set # AsDrawn}
    BY BaseAt
  <2> QED  BY <2>1 DEF Diff
<1>4. e.links = [s \in {t \in DOMAIN p.at : p.at[t].from # AsDrawn} |-> p.at[s].from]
  <2>1. {t \in DOMAIN p.at \cap DOMAIN Base(d).at : p.at[t].from # Base(d).at[t].from}
          \cup {t \in DOMAIN p.at \cap Own : p.at[t].from # AsDrawn}
        = {t \in DOMAIN p.at : p.at[t].from # AsDrawn}
    BY BaseAt
  <2> QED  BY <2>1 DEF Diff
<1>5. DrawnBy(e, d) = DOMAIN p.at
  BY <1>1 DEF DrawnBy
<1>6. \A s \in DOMAIN p.at : SetOf(e, s) = p.at[s].set
  BY <1>1, <1>2, <1>3 DEF SetOf
<1>7. \A s \in DOMAIN p.at : FromOf(e, s) = p.at[s].from
  BY <1>4 DEF FromOf
<1>8. p.at = [s \in DOMAIN p.at |-> [set |-> p.at[s].set, from |-> p.at[s].from]]
  <2>1. p.at = [s \in DOMAIN p.at |-> p.at[s]]
    BY GraphParts, MapsDef
  <2> QED  BY <2>1, GraphParts
<1>9. e.off \ Refused(d) = p.off
  BY <1>1
<1>10. Assembled(e, d) = [at |-> [s \in DOMAIN p.at |-> [set |-> SetOf(e, s), from |-> FromOf(e, s)]],
                          off |-> p.off, askew |-> FALSE]
  BY <1>0, <1>5, <1>9, AssembledIs
<1> HIDE DEF e
<1>11. [s \in DOMAIN p.at |-> [set |-> SetOf(e, s), from |-> FromOf(e, s)]]
        = [s \in DOMAIN p.at |-> [set |-> p.at[s].set, from |-> p.at[s].from]]
  BY <1>6, <1>7
<1> QED  BY <1>8, <1>10, <1>11 DEF Patch, e

-----------------------------------------------------------------------------
(***************************************************************************)
(* What is about between the interface, the disk, the queue and the radio  *)
(* thread, and the one form that every change to the drawing takes.        *)
(***************************************************************************)

One(S) == \A a, b \in S : a = b
Commands == [op : {"start"}] \cup [op : {"edits"}, edits : EditSet]
            \cup [op : {"param"}, stage : Ids, value : 0 .. MaxChanges, among : SUBSET Ids]
            \cup [op : {"center"}, dial : Dials]
UiStates == [patch : Graphs, base : Bases, sent : SUBSET Graphs, edits : EditSet,
             landed : BOOLEAN, dirty : BOOLEAN, undo : Seq(Graphs), redo : Seq(Graphs),
             topo : SUBSET Ids, seen : BOOLEAN]
Receivers == [patch : Graphs, base : Bases, node : Maps(Ids, Values), recording : BOOLEAN]

EditTypes ==
  /\ radio \in {"opening", "running", "stopped", "off"}
  /\ ui \in UiStates /\ One(ui.sent)
  /\ disk \in EditSet
  /\ cmds \in Seq(Commands)
  /\ plan \in [dial : Dials, edits : EditSet]
  /\ want \in Dials /\ due \in BOOLEAN /\ unseen \in BOOLEAN
  /\ good \subseteq EditSet /\ One(good)
  /\ rx \in Receivers
  /\ changes \in 0 .. MaxChanges

(* What a change to the drawing on screen leaves as it was. *)
FromScreen(new) ==
  /\ DOMAIN new.at \subseteq DOMAIN ui.patch.at \cup Own \cup DOMAIN ui.base.at
  /\ \A s \in DOMAIN new.at :
        \/ new.at[s].set \in {AsDrawn, changes + 1}
        \/ s \in DOMAIN ui.patch.at /\ new.at[s].set = ui.patch.at[s].set
  /\ \A s \in DOMAIN new.at \cap Own :
        new.at[s].from # AsDrawn =>
            s \in DOMAIN ui.patch.at /\ new.at[s].set = ui.patch.at[s].set
  /\ "breaks" \notin world /\ Builds(ui.patch) => Builds(new)

Redraws(new, un, re) ==
  \/ /\ "draws" \in world /\ FromScreen(new)
     /\ un = Append(ui.undo, ui.patch) /\ re = <<>>
  \/ /\ "undoes" \in world /\ ui.undo # <<>>
     /\ new = ui.undo[Len(ui.undo)]
     /\ un = SubSeq(ui.undo, 1, Len(ui.undo) - 1) /\ re = Append(ui.redo, ui.patch)
  \/ /\ "undoes" \in world /\ ui.redo # <<>>
     /\ new = ui.redo[Len(ui.redo)]
     /\ re = SubSeq(ui.redo, 1, Len(ui.redo) - 1) /\ un = Append(ui.undo, ui.patch)

Sends(new, un, re) ==
  /\ MayChange
  /\ ui' = [ui EXCEPT !.patch = new, !.undo = un, !.redo = re,
                      !.edits = Diff(new, ui.base), !.sent = {new}]
  /\ disk' = Diff(new, ui.base) /\ meant' = Diff(new, ui.base)
  /\ Send([op |-> "edits", edits |-> Diff(new, ui.base)])
  /\ UNCHANGED <<world, radio, plan, want, due, good, rx, shown, unseen>>

Drawing == \/ \E s \in Own : AddStage(s)
           \/ \E s \in Front \cup Own : \/ SwitchOff(s) \/ Describe(s)
                                        \/ \E b \in BOOLEAN : RemoveStage(s, b) \/ Wire(s, b)
           \/ \E b \in BOOLEAN : Clear(b)
           \/ Undo \/ Redo

(* What the interface's state is made of. *)
LEMMA UiParts ==
  ASSUME EditTypes
  PROVE  /\ ui.patch \in Graphs /\ ui.base \in Bases /\ ui.sent \subseteq Graphs
         /\ ui.edits \in EditSet /\ ui.landed \in BOOLEAN /\ ui.dirty \in BOOLEAN
         /\ ui.undo \in Seq(Graphs) /\ ui.redo \in Seq(Graphs)
         /\ ui.topo \subseteq Ids /\ ui.seen \in BOOLEAN
         /\ changes \in Nat /\ MaxChanges \in Nat
         /\ ui = [patch |-> ui.patch, base |-> ui.base, sent |-> ui.sent, edits |-> ui.edits,
                  landed |-> ui.landed, dirty |-> ui.dirty, undo |-> ui.undo, redo |-> ui.redo,
                  topo |-> ui.topo, seen |-> ui.seen]
  BY EditsAssumption DEF EditTypes, UiStates

(* A drawing sent, field by field. *)
LEMMA SendIsSends ==
  ASSUME EditTypes, NEW new, NEW un, NEW re,
         MayChange, SendPatch([ui EXCEPT !.patch = new, !.undo = un, !.redo = re])
  PROVE  Sends(new, un, re)
<1> DEFINE u == [ui EXCEPT !.patch = new, !.undo = un, !.redo = re]
<1>1. u.patch = new /\ u.base = ui.base
  BY UiParts
<1>2. [u EXCEPT !.edits = Diff(new, ui.base), !.sent = {new}]
       = [ui EXCEPT !.patch = new, !.undo = un, !.redo = re,
                    !.edits = Diff(new, ui.base), !.sent = {new}]
  BY UiParts
<1> HIDE DEF u
<1> QED  BY <1>1, <1>2 DEF SendPatch, Sends, u

(* A change made to the drawing is a drawing sent and put on the undo stack. *)
LEMMA EditSends ==
  ASSUME EditTypes, NEW new \in Graphs, Edit(new), FromScreen(new)
  PROVE  \E un, re \in Seq(Graphs) : Sends(new, un, re) /\ Redraws(new, un, re)
<1>1. MayChange /\ "draws" \in world
  BY DEF Edit
<1>2. SendPatch([ui EXCEPT !.patch = new, !.undo = Append(ui.undo, ui.patch), !.redo = <<>>])
  BY UiParts DEF Edit
<1>3. Sends(new, Append(ui.undo, ui.patch), <<>>)
  BY <1>1, <1>2, SendIsSends
<1>4. Redraws(new, Append(ui.undo, ui.patch), <<>>)
  BY <1>1 DEF Redraws
<1>5. Append(ui.undo, ui.patch) \in Seq(Graphs) /\ <<>> \in Seq(Graphs)
  BY UiParts
<1> QED  BY <1>3, <1>4, <1>5

(* Coming out in another order leaves the stages and what is off as they are. *)
LEMMA DrawnIs ==
  ASSUME NEW p \in Graphs, NEW b \in BOOLEAN
  PROVE  /\ Drawn(p, b) \in Graphs
         /\ Drawn(p, b).at = p.at /\ Drawn(p, b).off = p.off
<1>1. p = [at |-> p.at, off |-> p.off, askew |-> p.askew] /\ p.askew \in BOOLEAN
  BY GraphParts
<1>2. Drawn(p, b) = [at |-> p.at, off |-> p.off, askew |-> (p.askew \/ b)]
  BY <1>1 DEF Drawn
<1>3. (p.askew \/ b) \in BOOLEAN
  BY <1>1
<1>4. p.at \in Maps(Ids, Stages) /\ p.off \in SUBSET Ids
  BY GraphParts
<1> QED  BY <1>2, <1>3, <1>4 DEF Graphs

(* A graph put together from its parts. *)
LEMMA GraphIs ==
  ASSUME NEW S \in SUBSET Ids, NEW f \in [S -> Stages], NEW o \in SUBSET Ids, NEW b \in BOOLEAN
  PROVE  [at |-> f, off |-> o, askew |-> b] \in Graphs
  BY InMaps DEF Graphs

(* One field of a stage set. *)
LEMMA StageTold ==
  ASSUME NEW r, NEW w, r = [set |-> r.set, from |-> r.from]
  PROVE  /\ [r EXCEPT !.from = w] = [set |-> r.set, from |-> w]
         /\ [r EXCEPT !.set = w] = [set |-> w, from |-> r.from]
<1>1. PICK a, b : r = [set |-> a, from |-> b]
  OBVIOUS
<1> QED  BY <1>1

(* The wire of one stage of a drawing set. *)
LEMMA WiredAt ==
  ASSUME NEW p, NEW s, NEW w,
         p = [at |-> p.at, off |-> p.off, askew |-> p.askew],
         [p.at[s] EXCEPT !.from = w] = [set |-> p.at[s].set, from |-> w]
  PROVE  [p EXCEPT !.at[s].from = w]
         = [at |-> [p.at EXCEPT ![s] = [set |-> p.at[s].set, from |-> w]],
            off |-> p.off, askew |-> p.askew]
<1>1. PICK a, o, k : p = [at |-> a, off |-> o, askew |-> k]
  OBVIOUS
<1>2. [[at |-> a, off |-> o, askew |-> k] EXCEPT !.at[s].from = w]
       = [at |-> [a EXCEPT ![s] = [a[s] EXCEPT !.from = w]], off |-> o, askew |-> k]
  OBVIOUS
<1> QED  BY <1>1, <1>2

(* The setting of one stage of a drawing set. *)
LEMMA ToldAt ==
  ASSUME NEW p, NEW s, NEW w,
         p = [at |-> p.at, off |-> p.off, askew |-> p.askew],
         [p.at[s] EXCEPT !.set = w] = [set |-> w, from |-> p.at[s].from]
  PROVE  [p EXCEPT !.at[s].set = w]
         = [at |-> [p.at EXCEPT ![s] = [set |-> w, from |-> p.at[s].from]],
            off |-> p.off, askew |-> p.askew]
<1>1. PICK a, o, k : p = [at |-> a, off |-> o, askew |-> k]
  OBVIOUS
<1>2. [[at |-> a, off |-> o, askew |-> k] EXCEPT !.at[s].set = w]
       = [at |-> [a EXCEPT ![s] = [a[s] EXCEPT !.set = w]], off |-> o, askew |-> k]
  OBVIOUS
<1> QED  BY <1>1, <1>2

(* Each way to draw leaves a graph, and of the one on screen what FromScreen says. *)
LEMMA AddStageSends ==
  ASSUME EditTypes, NEW s \in Own, AddStage(s)
  PROVE  \E new \in Graphs : Edit(new) /\ FromScreen(new)
<1> DEFINE p == ui.patch
           T == DOMAIN p.at \cup {s}
           f == [t \in T |-> IF t = s THEN Plain ELSE p.at[t]]
           q == [at |-> f, off |-> p.off, askew |-> p.askew]
           new == Drawn(q, TRUE)
<1>1. p \in Graphs /\ DOMAIN p.at \subseteq Ids /\ p.off \in SUBSET Ids /\ p.askew \in BOOLEAN
      /\ p = [at |-> p.at, off |-> p.off, askew |-> p.askew]
      /\ \A t \in DOMAIN p.at : p.at[t] \in Stages
  BY UiParts, GraphParts
<1>2. T \in SUBSET Ids
  BY <1>1 DEF Ids
<1>3. f \in [T -> Stages]
  BY <1>1, Small
<1>4. q \in Graphs
  <2> HIDE DEF T, f, p
  <2> QED  BY <1>1, <1>2, <1>3, GraphIs
<1>5. [p EXCEPT !.at = [t \in DOMAIN @ \cup {s} |-> IF t = s THEN Plain ELSE @[t]]] = q
  BY <1>1
<1>6. Edit(new) /\ s \notin DOMAIN p.at
  <2>1. Edit(Drawn([p EXCEPT !.at = [t \in DOMAIN @ \cup {s} |-> IF t = s THEN Plain ELSE @[t]]], TRUE))
        /\ s \notin DOMAIN p.at
    BY DEF AddStage
  <2> HIDE DEF q
  <2> QED  BY <1>5, <2>1
<1>7. new \in Graphs /\ new.at = f
  <2>1. new.at = q.at /\ new \in Graphs
    <3> HIDE DEF q
    <3> QED  BY <1>4, DrawnIs
  <2> QED  BY <2>1
<1>8. FromScreen(new)
  <2>1. DOMAIN new.at = T
    BY <1>7
  <2>2. \A t \in T : /\ t = s => new.at[t] = Plain
                     /\ t # s => t \in DOMAIN p.at /\ new.at[t] = p.at[t]
    BY <1>7
  <2> HIDE DEF new, f
  <2>3. \A t \in DOMAIN new.at : \/ new.at[t].set \in {AsDrawn, changes + 1}
                                 \/ t \in DOMAIN p.at /\ new.at[t].set = p.at[t].set
    BY <2>1, <2>2 DEF Plain
  <2>4. \A t \in DOMAIN new.at \cap Own :
           new.at[t].from # AsDrawn => t \in DOMAIN p.at /\ new.at[t].set = p.at[t].set
    BY <2>1, <2>2 DEF Plain
  <2>5. Builds(p) => Builds(new)
    BY <2>1, <2>2, Small DEF Builds
  <2> QED  BY <2>1, <2>3, <2>4, <2>5 DEF FromScreen
<1> QED  BY <1>6, <1>7, <1>8

LEMMA RemoveStageSends ==
  ASSUME EditTypes, NEW s \in Ids, NEW b \in BOOLEAN, RemoveStage(s, b)
  PROVE  \E new \in Graphs : Edit(new) /\ FromScreen(new)
<1> DEFINE p == ui.patch
           T == DOMAIN p.at \ {s}
           q == Without(p, {s})
           new == Drawn(q, b)
<1>1. p \in Graphs /\ DOMAIN p.at \subseteq Ids /\ p.off \in SUBSET Ids /\ p.askew \in BOOLEAN
      /\ \A t \in DOMAIN p.at : p.at[t] \in Stages
  BY UiParts, GraphParts
<1>2. T \in SUBSET Ids /\ p.off \ {s} \in SUBSET Ids
  BY <1>1
<1>3. q.at = [t \in T |-> p.at[t]] /\ q.off = p.off \ {s} /\ q.askew = p.askew
      /\ q = [at |-> [t \in T |-> p.at[t]], off |-> p.off \ {s}, askew |-> p.askew]
  BY DEF Without, Restrict
<1>4. [t \in T |-> p.at[t]] \in [T -> Stages]
  BY <1>1
<1>5. q \in Graphs
  <2> HIDE DEF T, q, p
  <2> QED  BY <1>1, <1>2, <1>3, <1>4, GraphIs
<1>6. Edit(new)
  BY DEF RemoveStage
<1>7. new \in Graphs /\ new.at = [t \in T |-> p.at[t]]
  <2> HIDE DEF q
  <2> QED  BY <1>3, <1>5, DrawnIs
<1>8. FromScreen(new)
  <2>1. DOMAIN new.at = T /\ \A t \in T : t \in DOMAIN p.at /\ new.at[t] = p.at[t]
    BY <1>7
  <2> HIDE DEF new
  <2>5. Builds(p) => Builds(new)
    BY <2>1 DEF Builds
  <2> QED  BY <2>1, <2>5 DEF FromScreen
<1> QED  BY <1>6, <1>7, <1>8

LEMMA WireSends ==
  ASSUME EditTypes, NEW s \in Ids, NEW b \in BOOLEAN, Wire(s, b)
  PROVE  \E new \in Graphs : Edit(new) /\ FromScreen(new)
<1> DEFINE p == ui.patch
           T == DOMAIN p.at
<1>1. p \in Graphs /\ DOMAIN p.at \subseteq Ids /\ p.off \in SUBSET Ids /\ p.askew \in BOOLEAN
      /\ p = [at |-> p.at, off |-> p.off, askew |-> p.askew]
      /\ \A t \in DOMAIN p.at : /\ p.at[t] \in Stages
                                /\ p.at[t] = [set |-> p.at[t].set, from |-> p.at[t].from]
                                /\ p.at[t].set \in Values
      /\ p.at = [u \in T |-> p.at[u]]
  BY UiParts, GraphParts, MapsDef
<1>2. s \in T /\ changes < MaxChanges
  BY DEF Wire, Edit, MayChange
<1>3. PICK w \in {AsDrawn, changes + 1} \cup (IF "breaks" \in world THEN {Broken} ELSE {}) :
           Edit(Drawn([p EXCEPT !.at[s].from = w], b))
  BY DEF Wire
<1> DEFINE f == [p.at EXCEPT ![s] = [set |-> p.at[s].set, from |-> w]]
           q == [at |-> f, off |-> p.off, askew |-> p.askew]
           new == Drawn(q, b)
<1>4. w \in Values /\ ("breaks" \notin world => w # Broken)
  BY <1>2, <1>3, UiParts, Small DEF Values, Broken
<1>5. [p EXCEPT !.at[s].from = w] = q
  <2>1. [p.at[s] EXCEPT !.from = w] = [set |-> p.at[s].set, from |-> w]
    BY <1>1, <1>2, StageTold
  <2> QED  BY <1>1, <2>1, WiredAt
<1>6. f \in [T -> Stages]
  <2>1. [set |-> p.at[s].set, from |-> w] \in Stages
    BY <1>1, <1>2, <1>4 DEF Stages
  <2> QED  BY <1>1, <2>1
<1>7. q \in Graphs
  <2> HIDE DEF T, f, p
  <2>1. T \in SUBSET Ids
    BY <1>1 DEF T
  <2> QED  BY <1>1, <2>1, <1>6, GraphIs
<1>8. Edit(new)
  <2> HIDE DEF q
  <2> QED  BY <1>3, <1>5
<1>9. new \in Graphs /\ new.at = f
  <2>1. new.at = q.at /\ new \in Graphs
    <3> HIDE DEF q
    <3> QED  BY <1>7, DrawnIs
  <2> QED  BY <2>1
<1>10. FromScreen(new)
  <2>1. DOMAIN new.at = T
    BY <1>1, <1>9
  <2>2. \A t \in T : new.at[t].set = p.at[t].set /\ (t # s => new.at[t].from = p.at[t].from)
                     /\ (t = s => new.at[t].from = w)
    BY <1>1, <1>9
  <2> HIDE DEF new, f
  <2>5. "breaks" \notin world /\ Builds(p) => Builds(new)
    BY <2>1, <2>2, <1>4 DEF Builds
  <2> QED  BY <2>1, <2>2, <2>5 DEF FromScreen
<1> QED  BY <1>8, <1>9, <1>10

LEMMA DescribeSends ==
  ASSUME EditTypes, NEW s \in Ids, Describe(s)
  PROVE  \E new \in Graphs : Edit(new) /\ FromScreen(new)
<1> DEFINE p == ui.patch
           T == DOMAIN p.at
           f == [p.at EXCEPT ![s] = [set |-> changes + 1, from |-> p.at[s].from]]
           new == [at |-> f, off |-> p.off, askew |-> p.askew]
<1>1. p \in Graphs /\ DOMAIN p.at \subseteq Ids /\ p.off \in SUBSET Ids /\ p.askew \in BOOLEAN
      /\ p = [at |-> p.at, off |-> p.off, askew |-> p.askew]
      /\ \A t \in DOMAIN p.at : /\ p.at[t] \in Stages
                                /\ p.at[t] = [set |-> p.at[t].set, from |-> p.at[t].from]
                                /\ p.at[t].from \in Values
      /\ p.at = [u \in T |-> p.at[u]]
  BY UiParts, GraphParts, MapsDef
<1>2. s \in T /\ s \in Own /\ p.at[s].from = AsDrawn /\ changes < MaxChanges
  BY DEF Describe, Edit, MayChange, Fed, Ids
<1>4. changes + 1 \in Values
  BY <1>2, UiParts DEF Values, Broken
<1>5. [p EXCEPT !.at[s].set = changes + 1] = new
  <2>1. [p.at[s] EXCEPT !.set = changes + 1] = [set |-> changes + 1, from |-> p.at[s].from]
    BY <1>1, <1>2, StageTold
  <2> QED  BY <1>1, <2>1, ToldAt
<1>6. f \in [T -> Stages]
  <2>1. [set |-> changes + 1, from |-> p.at[s].from] \in Stages
    BY <1>1, <1>2, <1>4 DEF Stages
  <2> QED  BY <1>1, <2>1
<1>7. new \in Graphs
  <2> HIDE DEF T, f, p
  <2>1. T \in SUBSET Ids
    BY <1>1 DEF T
  <2> QED  BY <1>1, <2>1, <1>6, GraphIs
<1>8. Edit(new)
  <2> HIDE DEF new
  <2> QED  BY <1>5 DEF Describe
<1>10. FromScreen(new)
  <2>1. DOMAIN new.at = T
    BY <1>1
  <2>2. \A t \in T : new.at[t].from = p.at[t].from /\ (t # s => new.at[t].set = p.at[t].set)
                     /\ (t = s => new.at[t].set = changes + 1)
    BY <1>1
  <2> HIDE DEF new
  <2>3. \A t \in DOMAIN new.at \cap Own :
           new.at[t].from # AsDrawn => t \in DOMAIN p.at /\ new.at[t].set = p.at[t].set
    BY <2>1, <2>2, <1>2
  <2>5. Builds(p) => Builds(new)
    BY <2>1, <2>2 DEF Builds
  <2> QED  BY <2>1, <2>2, <2>3, <2>5 DEF FromScreen
<1> QED  BY <1>7, <1>8, <1>10

LEMMA SwitchOffSends ==
  ASSUME EditTypes, NEW s \in Ids, SwitchOff(s)
  PROVE  \E new \in Graphs : Edit(new) /\ FromScreen(new)
<1> DEFINE p == ui.patch
           o == (p.off \ {s}) \cup ({s} \ p.off)
           new == [at |-> p.at, off |-> o, askew |-> p.askew]
<1>1. p \in Graphs /\ p.at \in Maps(Ids, Stages) /\ p.off \in SUBSET Ids /\ p.askew \in BOOLEAN
      /\ p = [at |-> p.at, off |-> p.off, askew |-> p.askew]
  BY UiParts, GraphParts
<1>2. [p EXCEPT !.off = (@ \ {s}) \cup ({s} \ @)] = new
  BY <1>1
<1>3. Edit(new)
  <2> HIDE DEF new
  <2> QED  BY <1>2 DEF SwitchOff
<1>4. o \in SUBSET Ids
  BY <1>1
<1>5. new \in Graphs
  <2> HIDE DEF o
  <2> QED  BY <1>1, <1>4 DEF Graphs
<1>6. FromScreen(new)
  BY DEF FromScreen, Builds
<1> QED  BY <1>3, <1>5, <1>6

LEMMA ClearSends ==
  ASSUME EditTypes, NEW b \in BOOLEAN, Clear(b)
  PROVE  \E new \in Graphs : Edit(new) /\ FromScreen(new)
<1> DEFINE new == Drawn(ui.base, b)
<1>1. /\ ui.base \in Graphs /\ \A s \in DOMAIN ui.base.at : ui.base.at[s] = Plain
      /\ DOMAIN ui.base.at \subseteq Front
  BY UiParts, BasesAreGraphs
<1>2. new \in Graphs /\ new.at = ui.base.at
  BY <1>1, DrawnIs
<1>3. Edit(new)
  BY DEF Clear
<1> HIDE DEF new
<1>4. Builds(new)
  BY <1>1, <1>2, Small DEF Builds
<1>5. FromScreen(new)
  BY <1>1, <1>2, <1>4 DEF FromScreen, Plain
<1> QED  BY <1>2, <1>3, <1>5

(* A drawing taken back or put back is sent as any other. *)
LEMMA UndoSends ==
  ASSUME EditTypes, Undo
  PROVE  \E new \in Graphs, un, re \in Seq(Graphs) : Sends(new, un, re) /\ Redraws(new, un, re)
<1> DEFINE new == ui.undo[Len(ui.undo)]
           un == SubSeq(ui.undo, 1, Len(ui.undo) - 1)
           re == Append(ui.redo, ui.patch)
<1>1. "undoes" \in world /\ ui.undo # <<>> /\ MayChange
  BY DEF Undo
<1>2. SendPatch([ui EXCEPT !.patch = new, !.undo = un, !.redo = re])
  BY UiParts DEF Undo
<1>3. new \in Graphs /\ un \in Seq(Graphs) /\ re \in Seq(Graphs)
  BY <1>1, UiParts
<1>4. Sends(new, un, re)
  BY <1>1, <1>2, SendIsSends
<1>5. Redraws(new, un, re)
  BY <1>1 DEF Redraws
<1> QED  BY <1>3, <1>4, <1>5

LEMMA RedoSends ==
  ASSUME EditTypes, Redo
  PROVE  \E new \in Graphs, un, re \in Seq(Graphs) : Sends(new, un, re) /\ Redraws(new, un, re)
<1> DEFINE new == ui.redo[Len(ui.redo)]
           re == SubSeq(ui.redo, 1, Len(ui.redo) - 1)
           un == Append(ui.undo, ui.patch)
<1>1. "undoes" \in world /\ ui.redo # <<>> /\ MayChange
  BY DEF Redo
<1>2. SendPatch([ui EXCEPT !.patch = new, !.undo = un, !.redo = re])
  BY UiParts DEF Redo
<1>3. new \in Graphs /\ un \in Seq(Graphs) /\ re \in Seq(Graphs)
  BY <1>1, UiParts
<1>4. Sends(new, un, re)
  BY <1>1, <1>2, SendIsSends
<1>5. Redraws(new, un, re)
  BY <1>1 DEF Redraws
<1> QED  BY <1>3, <1>4, <1>5

(* Eight ways to draw come to one. *)
LEMMA DrawingSends ==
  ASSUME EditTypes, Drawing
  PROVE  \E new \in Graphs, un, re \in Seq(Graphs) : Sends(new, un, re) /\ Redraws(new, un, re)
<1>1. CASE \E s \in Own : AddStage(s)
  BY <1>1, AddStageSends, EditSends
<1>2. CASE \E s \in Front \cup Own, b \in BOOLEAN : RemoveStage(s, b)
  BY <1>2, RemoveStageSends, EditSends DEF Ids
<1>3. CASE \E s \in Front \cup Own, b \in BOOLEAN : Wire(s, b)
  BY <1>3, WireSends, EditSends DEF Ids
<1>4. CASE \E s \in Front \cup Own : Describe(s)
  BY <1>4, DescribeSends, EditSends DEF Ids
<1>5. CASE \E s \in Front \cup Own : SwitchOff(s)
  BY <1>5, SwitchOffSends, EditSends DEF Ids
<1>6. CASE \E b \in BOOLEAN : Clear(b)
  BY <1>6, ClearSends, EditSends
<1>7. CASE Undo
  BY <1>7, UndoSends
<1>8. CASE Redo
  BY <1>8, RedoSends
<1> QED  BY <1>1, <1>2, <1>3, <1>4, <1>5, <1>6, <1>7, <1>8 DEF Drawing

-----------------------------------------------------------------------------
(***************************************************************************)
(* The first half of the invariant: everything is of its kind, what is     *)
(* published is what runs, and what runs is what the plan says.            *)
(***************************************************************************)

Sound(e) == \A s \in DOMAIN e.links : e.links[s] # Broken

(* The slot holds the graph that runs or ran last, and nothing from before *)
(* the radio was asked for.                                                *)
Published ==
  /\ shown # {} => shown = {[patch |-> rx.patch, base |-> rx.base]}
  /\ radio = "opening" => shown = {}

(* Between a change to the plan and the rebuild it asks for the receiver   *)
(* runs something else than the plan says; at any other time it runs that. *)
Running ==
  /\ rx.patch.askew = FALSE /\ Builds(rx.patch)
  /\ radio = "running" =>
       /\ rx.base = Base(plan.dial)
       /\ DOMAIN rx.patch.at \subseteq Own \cup InSpan[plan.dial]
       /\ (DOMAIN rx.patch.at \cup rx.patch.off) \cap Refused(plan.dial) = {}
       /\ ~due => rx.patch = Assembled(plan.edits, plan.dial)
       /\ DOMAIN rx.node = Fed(rx.patch)
       /\ \A s \in DOMAIN rx.node \ Own : rx.node[s] = rx.patch.at[s].set

(* A session begins with the command that has its graph drawn again.       *)
Starting ==
  /\ \A i \in 1 .. Len(cmds) : cmds[i].op = "start" => i = 1
  /\ radio = "opening" \/ (radio = "running" /\ shown = {} /\ ~due)
       => cmds # <<>> /\ cmds[1].op = "start"

(* With no wire that breaks a graph drawn, nobody has one.                 *)
Unbroken ==
  "breaks" \notin world =>
     /\ Builds(ui.patch)
     /\ \A i \in 1 .. Len(ui.undo) : Builds(ui.undo[i])
     /\ \A i \in 1 .. Len(ui.redo) : Builds(ui.redo[i])
     /\ Sound(ui.edits) /\ Sound(disk) /\ Sound(plan.edits)
     /\ \A i \in 1 .. Len(cmds) : cmds[i].op = "edits" => Sound(cmds[i].edits)
     /\ rx.recording

Common == EditTypes /\ Published /\ Running /\ Starting /\ Unbroken

(* What is read off a graph that builds breaks nothing. *)
LEMMA SoundDiff ==
  ASSUME NEW p \in Graphs, NEW b \in Bases, Builds(p)
  PROVE  Sound(Diff(p, b))
  BY DEF Sound, Diff, Builds

(* Edits that break nothing build wherever they are drawn. *)
LEMMA SoundBuilds ==
  ASSUME NEW e \in EditSet, NEW d \in Dials, Sound(e)
  PROVE  Builds(Assembled(e, d))
<1>1. \A s \in DrawnBy(e, d) : Assembled(e, d).at[s].from = FromOf(e, s)
  BY AssembledType
<1>2. DOMAIN Assembled(e, d).at = DrawnBy(e, d)
  BY AssembledType
<1>3. \A s : FromOf(e, s) # Broken
  BY Small DEF FromOf, Sound
<1> QED  BY <1>1, <1>2, <1>3 DEF Builds

(* No edits. *)
LEMMA NothingDrawn ==
  /\ NoEdits \in EditSet /\ Sound(NoEdits) /\ Builds(EmptyPatch)
  /\ NoEdits = [stages |-> [s \in {} |-> AsDrawn], removed |-> {}, settings |-> [s \in {} |-> AsDrawn],
                links |-> [s \in {} |-> AsDrawn], off |-> {}]
<1>1. NoEdits \in EditSet
  BY EmptyAt, DiffType DEF NoEdits
<1>2. Builds(EmptyPatch)
  BY EmptyAt DEF Builds
<1>3. Sound(NoEdits)
  BY <1>2, EmptyAt, SoundDiff DEF NoEdits
<1>4. /\ NoEdits.stages = [s \in {} |-> AsDrawn] /\ NoEdits.removed = {}
      /\ NoEdits.settings = [s \in {} |-> AsDrawn] /\ NoEdits.links = [s \in {} |-> AsDrawn]
      /\ NoEdits.off = {}
  BY EmptyAt DEF NoEdits, Diff
<1>5. NoEdits = [stages |-> NoEdits.stages, removed |-> NoEdits.removed, settings |-> NoEdits.settings,
                 links |-> NoEdits.links, off |-> NoEdits.off]
  BY DEF NoEdits, Diff
<1> QED  BY <1>1, <1>2, <1>3, <1>4, <1>5

(* The stages that have a node are stages of the graph, all of the receiver's among them. *)
LEMMA FedType ==
  ASSUME NEW p \in Graphs
  PROVE  /\ Fed(p) \in SUBSET Ids /\ Fed(p) \subseteq DOMAIN p.at
         /\ \A s \in DOMAIN p.at \ Own : s \in Fed(p)
         /\ \A s \in Fed(p) : p.at[s].set \in Values
  BY GraphParts DEF Fed

(* What a receiver built from a graph is made of. *)
LEMMA ReceiverIs ==
  ASSUME NEW p \in Graphs, NEW d \in Dials, NEW pool \in Maps(Ids, Values), NEW r \in BOOLEAN
  PROVE  /\ Receiver(p, d, pool, r) \in Receivers
         /\ Receiver(p, d, pool, r).patch = p /\ Receiver(p, d, pool, r).base = Base(d)
         /\ Receiver(p, d, pool, r).recording = r
         /\ DOMAIN Receiver(p, d, pool, r).node = Fed(p)
         /\ \A s \in Fed(p) : Receiver(p, d, pool, r).node[s]
               = IF s \in Own \cap DOMAIN pool THEN pool[s] ELSE p.at[s].set
<1>1. NodesFor(p, pool) = [s \in Fed(p) |-> IF s \in Own \cap DOMAIN pool THEN pool[s] ELSE p.at[s].set]
  BY DEF NodesFor
<1>2. \A s \in DOMAIN pool : pool[s] \in Values
  BY MapsDef
<1>3. NodesFor(p, pool) \in [Fed(p) -> Values]
  BY <1>1, <1>2, FedType
<1>4. NodesFor(p, pool) \in Maps(Ids, Values)
  BY <1>3, FedType, InMaps
<1>5. Receiver(p, d, pool, r) = [patch |-> p, base |-> Base(d), node |-> NodesFor(p, pool), recording |-> r]
  BY DEF Receiver
<1>6. Receiver(p, d, pool, r) \in Receivers
  <2>1. Base(d) \in Bases
    BY BaseAt
  <2>2. [patch |-> p, base |-> Base(d), node |-> NodesFor(p, pool), recording |-> r] \in Receivers
    BY <1>4, <2>1 DEF Receivers
  <2> QED  BY <1>5, <2>2
<1> QED  BY <1>1, <1>5, <1>6

(* An empty pool. *)
LEMMA NoNodesAre == NoNodes \in Maps(Ids, Values) /\ DOMAIN NoNodes = {}
<1>1. NoNodes \in [{} -> Values]
  BY DEF NoNodes
<1> QED  BY <1>1, InMaps DEF NoNodes

(* What the receiver and the plan are made of. *)
LEMMA RxParts ==
  ASSUME EditTypes
  PROVE  /\ rx.patch \in Graphs /\ rx.base \in Bases /\ rx.node \in Maps(Ids, Values)
         /\ rx.recording \in BOOLEAN
         /\ rx = [patch |-> rx.patch, base |-> rx.base, node |-> rx.node, recording |-> rx.recording]
         /\ plan.dial \in Dials /\ plan.edits \in EditSet
         /\ plan = [dial |-> plan.dial, edits |-> plan.edits]
  BY DEF EditTypes, Receivers

(* What a command carries. *)
LEMMA CommandIs ==
  ASSUME NEW c \in Commands
  PROVE  /\ c.op \in {"start", "edits", "param", "center"}
         /\ c.op = "edits" => c.edits \in EditSet /\ c = [op |-> "edits", edits |-> c.edits]
         /\ c.op = "param" => c.stage \in Ids /\ c.value \in 0 .. MaxChanges /\ c.among \subseteq Ids
         /\ c.op = "center" => c.dial \in Dials
<1>1. CASE c \in [op : {"start"}]
  BY <1>1
<1>2. CASE c \in [op : {"edits"}, edits : EditSet]
  BY <1>2
<1>3. CASE c \in [op : {"param"}, stage : Ids, value : 0 .. MaxChanges, among : SUBSET Ids]
  BY <1>3
<1>4. CASE c \in [op : {"center"}, dial : Dials]
  BY <1>4
<1> QED  BY <1>1, <1>2, <1>3, <1>4 DEF Commands

(* The queue without its head. *)
LEMMA Tailed ==
  ASSUME cmds \in Seq(Commands), cmds # <<>>, cmds' = Tail(cmds)
  PROVE  /\ cmds' \in Seq(Commands) /\ Len(cmds) \in Nat /\ Len(cmds') \in Nat
         /\ Len(cmds) = Len(cmds') + 1
         /\ 1 \in 1 .. Len(cmds)
         /\ Head(cmds) = cmds[1] /\ Head(cmds) \in Commands
         /\ \A i \in 1 .. Len(cmds') : i + 1 \in 1 .. Len(cmds) /\ cmds'[i] = cmds[i + 1]
  OBVIOUS

(* The queue after a command was sent: longer by that one, or as it was. *)
LEMMA Sent ==
  ASSUME cmds \in Seq(Commands), NEW c \in Commands, Send(c)
  PROVE  /\ cmds' \in Seq(Commands)
         /\ \/ cmds' = cmds /\ (radio = "off" \/ "full" \in world)
            \/ radio # "off" /\ cmds' = Append(cmds, c)
         /\ Len(cmds) \in Nat
         /\ \A i \in 1 .. Len(cmds) : i \in 1 .. Len(cmds') /\ cmds'[i] = cmds[i]
         /\ \A i \in 1 .. Len(cmds') : \/ i \in 1 .. Len(cmds)
                                       \/ i = Len(cmds) + 1 /\ cmds'[i] = c
         /\ cmds # <<>> => cmds' # <<>> /\ 1 \in 1 .. Len(cmds)
<1>1. cmds' = cmds \/ cmds' = Append(cmds, c)
  BY DEF Send
<1>2. \/ cmds' = cmds /\ (radio = "off" \/ "full" \in world)
      \/ radio # "off" /\ cmds' = Append(cmds, c)
  BY DEF Send
<1>3. CASE cmds' = cmds
  BY <1>2, <1>3
<1>4. CASE cmds' = Append(cmds, c)
  BY <1>2, <1>4
<1> QED  BY <1>1, <1>3, <1>4

(* A command behind the first one leaves the beginning of a session alone. *)
LEMMA SentStarting ==
  ASSUME Common, NEW c \in Commands, c.op # "start", Send(c), radio' = radio, shown' = shown, due' = due
  PROVE  Starting'
<1>1. cmds \in Seq(Commands)
  BY DEF Common, EditTypes
<1>2. \A i \in 1 .. Len(cmds') : cmds'[i].op = "start" => i = 1
  <2> TAKE i \in 1 .. Len(cmds')
  <2>1. CASE i \in 1 .. Len(cmds)
    BY <1>1, <2>1, Sent DEF Common, Starting
  <2>2. CASE i = Len(cmds) + 1 /\ cmds'[i] = c
    BY <2>2
  <2> QED  BY <1>1, <2>1, <2>2, Sent
<1>3. radio = "opening" \/ (radio = "running" /\ shown = {} /\ ~due)
        => cmds' # <<>> /\ cmds'[1].op = "start"
  BY <1>1, Sent DEF Common, Starting
<1> QED  BY <1>2, <1>3 DEF Starting

(* Only the head of the queue starts a session. *)
LEMMA TailStarting ==
  ASSUME Common, cmds # <<>>, cmds' = Tail(cmds)
  PROVE  \A i \in 1 .. Len(cmds') : cmds'[i].op # "start"
<1>1. cmds \in Seq(Commands)
  BY DEF Common, EditTypes
<1> TAKE i \in 1 .. Len(cmds')
<1>2. i \in Nat /\ i + 1 \in 1 .. Len(cmds) /\ cmds'[i] = cmds[i + 1] /\ i + 1 # 1
  BY <1>1, Tailed
<1> QED  BY <1>2 DEF Common, Starting

(* The drawing a receiver runs once it is built, whatever it was built from. *)
LEMMA BuiltRuns ==
  ASSUME NEW e \in EditSet, NEW d \in Dials, NEW pool \in Maps(Ids, Values), NEW r \in BOOLEAN,
         Builds(Assembled(e, d)), world' = world,
         rx' = Receiver(Assembled(e, d), d, pool, r), plan' = [dial |-> d, edits |-> e]
  PROVE  Running'
<1> DEFINE p == Assembled(e, d)
<1>1. p \in Graphs /\ p.askew = FALSE /\ DOMAIN p.at = DrawnBy(e, d)
      /\ DrawnBy(e, d) \subseteq Own \cup (InSpan[d] \ Refused(d)) /\ p.off = e.off \ Refused(d)
  BY AssembledType
<1>0. rx' = Receiver(p, d, pool, r)
  OBVIOUS
<1> HIDE DEF p
<1>2. rx'.patch = p /\ rx'.base = Base(d) /\ DOMAIN rx'.node = Fed(p)
      /\ \A s \in Fed(p) \ Own : rx'.node[s] = p.at[s].set
  BY <1>0, <1>1, ReceiverIs
<1>3. Refused(d) \subseteq Front /\ DrawnBy(e, d) \cap Refused(d) = {}
  BY BaseAt, EditsAssumption DEF Refused, DrawnBy
<1>4. plan'.dial = d /\ plan'.edits = e
  OBVIOUS
<1>5. Refused(plan.dial)' = Refused(d)
  BY <1>4 DEF Refused
<1>6. Assembled(plan.edits, plan.dial)' = p
  BY <1>4 DEF Assembled, p
<1>7. Builds(p)
  BY DEF p
<1>8. (rx.patch = Assembled(plan.edits, plan.dial))'
  BY <1>2, <1>6
<1>9. ((DOMAIN rx.patch.at \cup rx.patch.off) \cap Refused(plan.dial) = {})'
  BY <1>1, <1>2, <1>3, <1>5
<1>10. (DOMAIN rx.patch.at \subseteq Own \cup InSpan[plan.dial])'
  BY <1>1, <1>2, <1>4
<1>11. (Builds(rx.patch) /\ rx.patch.askew = FALSE)'
  BY <1>1, <1>2, <1>7 DEF Builds
<1>12. (rx.base = Base(plan.dial) /\ DOMAIN rx.node = Fed(rx.patch))'
  BY <1>2, <1>4 DEF Fed, Base
<1>13. (\A s \in DOMAIN rx.node \ Own : rx.node[s] = rx.patch.at[s].set)'
  BY <1>2
<1> QED  BY <1>8, <1>9, <1>10, <1>11, <1>12, <1>13 DEF Running

(* Nothing that only asks for a rebuild, or ends the session, is seen in   *)
(* what runs.                                                              *)
LEMMA RunningKept ==
  ASSUME Running, world' = world, rx' = rx, plan'.dial = plan.dial,
         radio' = "running" => radio = "running" /\ (due' \/ (due' = due /\ plan'.edits = plan.edits))
  PROVE  Running'
<1>1. (rx.patch.askew = FALSE /\ Builds(rx.patch))'
  BY DEF Running, Builds
<1>2. ASSUME radio' = "running"
      PROVE  /\ (rx.base = Base(plan.dial))'
             /\ (DOMAIN rx.patch.at \subseteq Own \cup InSpan[plan.dial])'
             /\ ((DOMAIN rx.patch.at \cup rx.patch.off) \cap Refused(plan.dial) = {})'
             /\ (DOMAIN rx.node = Fed(rx.patch))'
             /\ (\A s \in DOMAIN rx.node \ Own : rx.node[s] = rx.patch.at[s].set)'
  BY <1>2 DEF Running, Refused, Fed, Base
<1>3. ASSUME radio' = "running", ~due'
      PROVE  (rx.patch = Assembled(plan.edits, plan.dial))'
  <2>1. radio = "running" /\ ~due /\ plan'.edits = plan.edits
    BY <1>3
  <2>2. Assembled(plan.edits, plan.dial)' = Assembled(plan.edits, plan.dial)
    BY <2>1 DEF Assembled
  <2> QED  BY <2>1, <2>2 DEF Running
<1> QED  BY <1>1, <1>2, <1>3 DEF Running

(* Nobody draws a wire that breaks the graph in a step that moves nothing but commands. *)
LEMMA UnbrokenKept ==
  ASSUME Unbroken, world' = world, ui' = ui, disk' = disk, plan'.edits = plan.edits,
         rx'.recording = rx.recording,
         \A i \in 1 .. Len(cmds') : cmds'[i].op = "edits" =>
            \E j \in 1 .. Len(cmds) : cmds'[i] = cmds[j]
  PROVE  Unbroken'
<1>1. ASSUME "breaks" \notin world
      PROVE  \A i \in 1 .. Len(cmds') : cmds'[i].op = "edits" => Sound(cmds'[i].edits)
  BY <1>1 DEF Unbroken
<1>2. ASSUME NEW i \in 1 .. Len(cmds') PROVE Sound(cmds'[i].edits) <=> Sound(cmds[i].edits)'
  BY DEF Sound
<1> QED  BY <1>1, <1>2 DEF Unbroken, Builds, Sound

(* A drawing sent, part by part. *)
LEMMA SendsParts ==
  ASSUME EditTypes, NEW new \in Graphs, NEW un \in Seq(Graphs), NEW re \in Seq(Graphs),
         Sends(new, un, re)
  PROVE  /\ ui'.patch = new /\ ui'.base = ui.base /\ ui'.sent = {new}
         /\ ui'.edits = Diff(new, ui.base) /\ ui'.undo = un /\ ui'.redo = re
         /\ ui'.landed = ui.landed /\ ui'.dirty = ui.dirty /\ ui'.topo = ui.topo
         /\ ui'.seen = ui.seen
         /\ disk' = Diff(new, ui.base) /\ Diff(new, ui.base) \in EditSet
         /\ [op |-> "edits", edits |-> Diff(new, ui.base)] \in Commands
         /\ Send([op |-> "edits", edits |-> Diff(new, ui.base)])
         /\ changes' = changes + 1 /\ changes < MaxChanges
         /\ UNCHANGED <<world, radio, plan, want, due, good, rx, shown, unseen>>
         /\ EditTypes'
<1>1. Diff(new, ui.base) \in EditSet
  BY UiParts, DiffType
<1>2. changes' = changes + 1 /\ changes < MaxChanges
  BY DEF Sends, MayChange
<1> DEFINE e == Diff(new, ui.base)
           c == [op |-> "edits", edits |-> e]
<1>3. ui' = [ui EXCEPT !.patch = new, !.undo = un, !.redo = re, !.edits = e, !.sent = {new}]
      /\ disk' = e /\ Send(c)
      /\ UNCHANGED <<world, radio, plan, want, due, good, rx, shown, unseen>>
  BY DEF Sends
<1> HIDE DEF e
<1>4. ui' = [patch |-> new, base |-> ui.base, sent |-> {new}, edits |-> e,
             landed |-> ui.landed, dirty |-> ui.dirty, undo |-> un, redo |-> re,
             topo |-> ui.topo, seen |-> ui.seen]
  BY <1>3, UiParts
<1>5. ui' \in UiStates /\ One(ui'.sent)
  BY <1>1, <1>4, UiParts DEF UiStates, e, One
<1>6. c \in Commands
  BY <1>1 DEF Commands, e
<1>7. cmds' \in Seq(Commands)
  <2>1. cmds \in Seq(Commands)
    BY DEF EditTypes
  <2> HIDE DEF c
  <2> QED  BY <1>3, <1>6, <2>1, Sent
<1>8. changes' \in 0 .. MaxChanges
  BY <1>2, UiParts
<1>9. EditTypes'
  BY <1>1, <1>3, <1>5, <1>7, <1>8 DEF EditTypes, e, One
<1> QED  BY <1>1, <1>2, <1>3, <1>4, <1>6, <1>9 DEF e

(* A stack without its top. *)
LEMMA ButLast ==
  ASSUME NEW S, NEW A \in Seq(S), A # <<>>
  PROVE  /\ Len(A) \in 1 .. Len(A)
         /\ Len(SubSeq(A, 1, Len(A) - 1)) = Len(A) - 1
         /\ \A i \in 1 .. Len(A) - 1 : i \in 1 .. Len(A) /\ SubSeq(A, 1, Len(A) - 1)[i] = A[i]
<1>1. Len(A) \in Nat /\ Len(A) >= 1
  OBVIOUS
<1>2. 1 \in 1 .. Len(A) + 1 /\ Len(A) - 1 \in 0 .. Len(A)
  BY <1>1
<1>3. \A i \in 1 .. Len(A) - 1 : A[i] \in S
  BY <1>1
<1> DEFINE n == Len(A) - 1
           B == SubSeq(A, 1, n)
<1>4. n \in Nat /\ Len(A) = n + 1
  BY <1>1
<1>5. /\ Len(B) = IF 1 <= n THEN n - 1 + 1 ELSE 0
      /\ \A i \in 1 .. n - 1 + 1 : B[i] = A[1 + i - 1]
  BY <1>3, <1>4, SubSeqProperties
<1> HIDE DEF n, B
<1>6. Len(B) = n
  BY <1>4, <1>5
<1>7. \A i \in 1 .. n : i \in 1 .. Len(A) /\ B[i] = A[i]
  <2> TAKE i \in 1 .. n
  <2>1. i \in 1 .. n - 1 + 1 /\ 1 + i - 1 = i /\ i \in 1 .. Len(A)
    BY <1>4
  <2> QED  BY <1>5, <2>1
<1> QED  BY <1>1, <1>6, <1>7 DEF n, B

(* What is on the stacks was on them before or was on screen. *)
LEMMA StacksFrom ==
  ASSUME EditTypes, NEW new, NEW un, NEW re, Redraws(new, un, re)
  PROVE  /\ \A i \in 1 .. Len(un) : \/ un[i] = ui.patch
                                    \/ \E j \in 1 .. Len(ui.undo) : un[i] = ui.undo[j]
         /\ \A i \in 1 .. Len(re) : \/ re[i] = ui.patch
                                    \/ \E j \in 1 .. Len(ui.redo) : re[i] = ui.redo[j]
         /\ \/ "draws" \in world /\ FromScreen(new)
            \/ \E j \in 1 .. Len(ui.undo) : new = ui.undo[j]
            \/ \E j \in 1 .. Len(ui.redo) : new = ui.redo[j]
<1> DEFINE A == ui.undo
           B == ui.redo
           p == ui.patch
<1>0. A \in Seq(Graphs) /\ B \in Seq(Graphs) /\ p \in Graphs
  BY UiParts
<1> HIDE DEF A, B, p
<1>1. CASE un = Append(A, p) /\ re = <<>> /\ "draws" \in world /\ FromScreen(new)
  <2>1. \A i \in 1 .. Len(un) : un[i] = p \/ \E j \in 1 .. Len(A) : un[i] = A[j]
    <3> TAKE i \in 1 .. Len(un)
    <3>1. i = Len(A) + 1 \/ i \in 1 .. Len(A)
      BY <1>0, <1>1
    <3> QED  BY <1>0, <1>1, <3>1
  <2> QED  BY <1>1, <2>1 DEF A, B, p
<1>2. CASE A # <<>> /\ new = A[Len(A)] /\ un = SubSeq(A, 1, Len(A) - 1) /\ re = Append(B, p)
  <2>1. Len(A) \in 1 .. Len(A) /\ Len(un) = Len(A) - 1
        /\ \A i \in 1 .. Len(un) : i \in 1 .. Len(A) /\ un[i] = A[i]
    BY <1>0, <1>2, ButLast
  <2>2. \A i \in 1 .. Len(re) : re[i] = p \/ \E j \in 1 .. Len(B) : re[i] = B[j]
    <3> TAKE i \in 1 .. Len(re)
    <3>1. i = Len(B) + 1 \/ i \in 1 .. Len(B)
      BY <1>0, <1>2
    <3> QED  BY <1>0, <1>2, <3>1
  <2> QED  BY <1>2, <2>1, <2>2 DEF A, B, p
<1>3. CASE B # <<>> /\ new = B[Len(B)] /\ re = SubSeq(B, 1, Len(B) - 1) /\ un = Append(A, p)
  <2>1. Len(B) \in 1 .. Len(B) /\ Len(re) = Len(B) - 1
        /\ \A i \in 1 .. Len(re) : i \in 1 .. Len(B) /\ re[i] = B[i]
    BY <1>0, <1>3, ButLast
  <2>2. \A i \in 1 .. Len(un) : un[i] = p \/ \E j \in 1 .. Len(A) : un[i] = A[j]
    <3> TAKE i \in 1 .. Len(un)
    <3>1. i = Len(A) + 1 \/ i \in 1 .. Len(A)
      BY <1>0, <1>3
    <3> QED  BY <1>0, <1>3, <3>1
  <2> QED  BY <1>3, <2>1, <2>2 DEF A, B, p
<1> QED  BY <1>1, <1>2, <1>3 DEF Redraws, A, B, p

(* The first half over a drawing sent. *)
LEMMA SendsCommon ==
  ASSUME Common, NEW new \in Graphs, NEW un \in Seq(Graphs), NEW re \in Seq(Graphs),
         Sends(new, un, re), Redraws(new, un, re)
  PROVE  Common'
<1> DEFINE e == Diff(new, ui.base)
           c == [op |-> "edits", edits |-> e]
<1>1. EditTypes
  BY DEF Common
<1>2. /\ ui'.patch = new /\ ui'.edits = e /\ ui'.undo = un /\ ui'.redo = re
      /\ disk' = e /\ e \in EditSet /\ c \in Commands /\ Send(c) /\ EditTypes'
      /\ UNCHANGED <<world, radio, plan, want, due, good, rx, shown, unseen>>
  BY <1>1, SendsParts
<1> HIDE DEF e
<1>3. Published'
  BY <1>2 DEF Common, Published
<1>4. Running'
  BY <1>2, RunningKept DEF Common
<1>5. Starting'
  <2>1. c.op # "start"
    OBVIOUS
  <2> HIDE DEF c
  <2> QED  BY <1>2, <2>1, SentStarting
<1>6. Unbroken'
  <2> SUFFICES ASSUME "breaks" \notin world PROVE Unbroken'
    BY <1>2 DEF Unbroken
  <2>1. /\ Builds(ui.patch)
        /\ \A i \in 1 .. Len(ui.undo) : Builds(ui.undo[i])
        /\ \A i \in 1 .. Len(ui.redo) : Builds(ui.redo[i])
        /\ Sound(plan.edits) /\ rx.recording
        /\ \A i \in 1 .. Len(cmds) : cmds[i].op = "edits" => Sound(cmds[i].edits)
    BY DEF Common, Unbroken
  <2>2. ui.undo \in Seq(Graphs) /\ ui.redo \in Seq(Graphs)
    BY <1>1, UiParts
  <2>3. Builds(new)
    BY <1>1, <2>1, StacksFrom DEF FromScreen
  <2>4. \A i \in 1 .. Len(un) : Builds(un[i])
    BY <1>1, <2>1, StacksFrom
  <2>5. \A i \in 1 .. Len(re) : Builds(re[i])
    BY <1>1, <2>1, StacksFrom
  <2>6. Sound(e)
    BY <1>1, <2>3, SoundDiff, UiParts DEF e
  <2>7. \A i \in 1 .. Len(cmds') : cmds'[i].op = "edits" => Sound(cmds'[i].edits)
    <3> TAKE i \in 1 .. Len(cmds')
    <3>1. cmds \in Seq(Commands)
      BY <1>1 DEF EditTypes
    <3>2. CASE i \in 1 .. Len(cmds)
      <4>1. cmds'[i] = cmds[i]
        <5> HIDE DEF c
        <5> QED  BY <1>2, <3>1, <3>2, Sent
      <4> QED  BY <2>1, <3>2, <4>1
    <3>3. CASE cmds'[i] = c
      BY <2>6, <3>3
    <3> HIDE DEF c
    <3> QED  BY <1>2, <3>1, <3>2, <3>3, Sent
  <2> QED  BY <1>2, <2>1, <2>3, <2>4, <2>5, <2>6, <2>7 DEF Unbroken, Builds, Sound
<1> QED  BY <1>2, <1>3, <1>4, <1>5, <1>6 DEF Common

(* A setting sent, part by part. *)
LEMMA TweakParts ==
  ASSUME EditTypes, NEW s \in Ids, NEW back \in BOOLEAN, Tweak(s, back)
  PROVE  LET c == [op |-> "param", stage |-> s,
                   value |-> IF back THEN AsDrawn ELSE changes + 1, among |-> ui.topo]
         IN  /\ c \in Commands /\ Send(c)
             /\ "tweaks" \in world /\ MayChange /\ radio = "running" /\ s \in ui.topo
             /\ back => "returns" \in world /\ s \in Front
             /\ changes' = changes + 1 /\ changes < MaxChanges
             /\ UNCHANGED <<world, ui, disk, radio, plan, want, due, good, rx, shown, unseen>>
             /\ EditTypes'
<1> DEFINE v == IF back THEN AsDrawn ELSE changes + 1
           c == [op |-> "param", stage |-> s, value |-> v, among |-> ui.topo]
<1>1. changes' = changes + 1 /\ changes < MaxChanges
  BY DEF Tweak, MayChange
<1>2. v \in 0 .. MaxChanges
  BY <1>1, UiParts DEF AsDrawn
<1> HIDE DEF v
<1>3. c \in Commands
  BY <1>2, UiParts DEF Commands
<1>4. /\ Send(c)
      /\ "tweaks" \in world /\ MayChange /\ radio = "running" /\ s \in ui.topo
      /\ back => "returns" \in world /\ s \in Front
      /\ UNCHANGED <<world, ui, disk, radio, plan, want, due, good, rx, shown, unseen>>
  BY DEF Tweak, v
<1>5. cmds' \in Seq(Commands)
  <2>1. cmds \in Seq(Commands)
    BY DEF EditTypes
  <2> HIDE DEF c
  <2> QED  BY <1>3, <1>4, <2>1, Sent
<1>6. changes' \in 0 .. MaxChanges
  BY <1>1, UiParts
<1>7. EditTypes'
  BY <1>4, <1>5, <1>6 DEF EditTypes, One
<1> QED  BY <1>1, <1>3, <1>4, <1>7 DEF v

(* A dial sent, part by part. *)
LEMMA TuneParts ==
  ASSUME EditTypes, NEW d \in Dials, Tune(d)
  PROVE  /\ [op |-> "center", dial |-> d] \in Commands /\ Send([op |-> "center", dial |-> d])
         /\ "roams" \in world \/ "wanders" \in world
         /\ radio = "running"
         /\ changes' = changes + 1 /\ changes < MaxChanges
         /\ UNCHANGED <<world, ui, disk, radio, plan, want, due, good, rx, shown, unseen>>
         /\ EditTypes'
<1> DEFINE c == [op |-> "center", dial |-> d]
<1>1. changes' = changes + 1 /\ changes < MaxChanges /\ Send(c) /\ radio = "running"
      /\ ("roams" \in world \/ "wanders" \in world)
      /\ UNCHANGED <<world, ui, disk, radio, plan, want, due, good, rx, shown, unseen>>
  BY DEF Tune
<1>2. c \in Commands
  BY DEF Commands
<1>5. cmds' \in Seq(Commands)
  <2>1. cmds \in Seq(Commands)
    BY DEF EditTypes
  <2> HIDE DEF c
  <2> QED  BY <1>1, <1>2, <2>1, Sent
<1>6. changes' \in 0 .. MaxChanges
  BY <1>1, UiParts
<1>7. EditTypes'
  BY <1>1, <1>5, <1>6 DEF EditTypes, One
<1> QED  BY <1>1, <1>2, <1>7

(* A command that is no edit changes nothing but the queue.                *)
LEMMA QueuedCommon ==
  ASSUME Common, EditTypes', NEW c \in Commands, c.op \notin {"start", "edits"}, Send(c),
         UNCHANGED <<world, ui, disk, radio, plan, want, due, good, rx, shown, unseen>>
  PROVE  Common'
<1>1. Published' /\ Running'
  BY RunningKept DEF Common, Published
<1>2. Starting'
  BY SentStarting
<1>3. Unbroken'
  <2>1. cmds \in Seq(Commands)
    BY DEF Common, EditTypes
  <2>2. \A i \in 1 .. Len(cmds') : cmds'[i].op = "edits" =>
            \E j \in 1 .. Len(cmds) : cmds'[i] = cmds[j]
    <3> SUFFICES ASSUME NEW i \in 1 .. Len(cmds'), cmds'[i].op = "edits"
                 PROVE  i \in 1 .. Len(cmds) /\ cmds'[i] = cmds[i]
      OBVIOUS
    <3> QED  BY <2>1, Sent
  <2> QED  BY <2>2, UnbrokenKept DEF Common
<1> QED  BY <1>1, <1>2, <1>3 DEF Common

(* What the interface reads: the graph in the slot, or none.               *)
RunShown  == IF shown = {} THEN EmptyPatch ELSE rx.patch
BaseShown == IF shown = {} THEN EmptyPatch ELSE rx.base

(* What the interface reads off the status. *)
LEMMA ShownIs ==
  ASSUME Common
  PROVE  /\ RunShown \in Graphs /\ BaseShown \in Bases
         /\ RunShown.askew = FALSE /\ Builds(RunShown)
         /\ RunShown = IF shown = {} THEN EmptyPatch ELSE (CHOOSE p \in shown : TRUE).patch
         /\ BaseShown = IF shown = {} THEN EmptyPatch ELSE (CHOOSE p \in shown : TRUE).base
<1>1. rx.patch \in Graphs /\ rx.base \in Bases /\ rx.patch.askew = FALSE /\ Builds(rx.patch)
  BY RxParts DEF Common, Running
<1>2. EmptyPatch \in Graphs /\ EmptyPatch \in Bases /\ EmptyPatch.askew = FALSE /\ Builds(EmptyPatch)
  BY EmptyAt, NothingDrawn
<1>3. CASE shown = {}
  BY <1>2, <1>3 DEF RunShown, BaseShown
<1>4. CASE shown # {}
  <2> DEFINE q == [patch |-> rx.patch, base |-> rx.base]
  <2>1. shown = {q}
    BY <1>4 DEF Common, Published
  <2>2. (CHOOSE p \in shown : TRUE) = q
    <3> HIDE DEF q
    <3> QED  BY <2>1
  <2>3. q.patch = rx.patch /\ q.base = rx.base
    OBVIOUS
  <2> HIDE DEF q
  <2> QED  BY <1>1, <1>4, <2>2, <2>3 DEF RunShown, BaseShown
<1> QED  BY <1>3, <1>4

(* A graph read, part by part. *)
LEMMA PollParts ==
  ASSUME Common, Poll
  PROVE  /\ radio # "off" /\ unseen /\ unseen' = FALSE
         /\ ui'.patch = IF ui.sent # {RunShown} THEN RunShown ELSE ui.patch
         /\ ui'.patch \in Graphs
         /\ ui'.base = BaseShown /\ ui'.sent = ui.sent
         /\ ui'.undo = ui.undo /\ ui'.redo = ui.redo
         /\ ui'.topo = Fed(RunShown)
         /\ ui'.landed = Landed(Diff(ui'.patch, BaseShown))
         /\ \/ /\ ui'.edits = Diff(ui'.patch, BaseShown) /\ ui'.dirty = TRUE
               /\ Landed(Diff(ui'.patch, BaseShown))
            \/ /\ ui'.edits = ui.edits /\ ui'.dirty = ui.dirty
               /\ ui.edits = Diff(ui'.patch, BaseShown) \/ ~Landed(Diff(ui'.patch, BaseShown))
         /\ UNCHANGED <<world, disk, cmds, radio, plan, want, due, good, rx, shown, changes, meant>>
         /\ EditTypes'
<1> DEFINE run == IF shown = {} THEN EmptyPatch ELSE (CHOOSE p \in shown : TRUE).patch
           drawnOn == IF shown = {} THEN EmptyPatch ELSE (CHOOSE p \in shown : TRUE).base
<1>0. EditTypes
  BY DEF Common
<1>1. run = RunShown /\ drawnOn = BaseShown
  BY ShownIs
<1> HIDE DEF run, drawnOn
<1>2. /\ radio # "off" /\ unseen /\ unseen' = FALSE
      /\ UNCHANGED <<world, disk, cmds, radio, plan, want, due, good, rx, shown, changes, meant>>
  BY DEF Poll
<1> DEFINE q == Adopted(run)
           e == Diff(q, drawnOn)
           takes == e # ui.edits /\ Landed(e)
<1>3. ui' = [ui EXCEPT !.patch = q, !.base = drawnOn, !.topo = Fed(run), !.seen = shown # {},
                       !.landed = Landed(e), !.edits = IF takes THEN e ELSE @,
                       !.dirty = Dirty(takes)]
  BY DEF Poll, run, drawnOn
<1>4. q = IF ui.sent # {RunShown} THEN RunShown ELSE ui.patch
  BY <1>1 DEF Adopted
<1>5. q \in Graphs
  BY <1>0, <1>4, ShownIs, UiParts
<1>6. e \in EditSet
  BY <1>1, <1>5, ShownIs, DiffType
<1>7. Landed(e) \in BOOLEAN
  BY <1>0, UiParts DEF Landed
<1>8. Fed(run) \subseteq Ids
  BY <1>1, ShownIs, FedType
<1>9. Dirty(takes) = (ui.dirty \/ takes)
  BY DEF Dirty
<1>10. takes \in BOOLEAN
  OBVIOUS
<1>11. ui.dirty \in BOOLEAN
  BY <1>0, UiParts
<1> HIDE DEF q, e, takes
<1>12. ui' = [patch |-> q, base |-> drawnOn, sent |-> ui.sent, edits |-> IF takes THEN e ELSE ui.edits,
              landed |-> Landed(e), dirty |-> Dirty(takes), undo |-> ui.undo, redo |-> ui.redo,
              topo |-> Fed(run), seen |-> (shown # {})]
  BY <1>0, <1>3, UiParts
<1>13. Dirty(takes) \in BOOLEAN /\ (shown # {}) \in BOOLEAN
  BY <1>9, <1>10, <1>11
<1>14. drawnOn \in Bases
  BY <1>1, ShownIs
<1>15. ui' \in UiStates
  BY <1>0, <1>5, <1>6, <1>7, <1>8, <1>12, <1>13, <1>14, UiParts DEF UiStates
<1>16. EditTypes'
  BY <1>0, <1>2, <1>12, <1>15 DEF EditTypes, One
<1>17. /\ ui'.patch = q /\ ui'.base = drawnOn /\ ui'.sent = ui.sent
       /\ ui'.undo = ui.undo /\ ui'.redo = ui.redo /\ ui'.topo = Fed(run) /\ ui'.landed = Landed(e)
       /\ ui'.edits = (IF takes THEN e ELSE ui.edits) /\ ui'.dirty = Dirty(takes)
  BY <1>12
<1>18. e = Diff(ui'.patch, BaseShown)
  BY <1>1, <1>17 DEF e
<1>19. CASE takes
  <2>1. ui'.edits = e /\ ui'.dirty = TRUE /\ Landed(e)
    BY <1>9, <1>17, <1>19 DEF takes
  <2> QED  BY <1>1, <1>2, <1>4, <1>5, <1>16, <1>17, <1>18, <2>1
<1>20. CASE ~takes
  <2>1. ui'.edits = ui.edits /\ ui'.dirty = ui.dirty /\ (ui.edits = e \/ ~Landed(e))
    BY <1>9, <1>11, <1>17, <1>20 DEF takes
  <2> QED  BY <1>1, <1>2, <1>4, <1>5, <1>16, <1>17, <1>18, <2>1
<1> QED  BY <1>19, <1>20

(* The first half over the interface's own steps. *)
LEMMA PollCommon ==
  ASSUME Common, Poll
  PROVE  Common'
<1>1. /\ ui'.patch = IF ui.sent # {RunShown} THEN RunShown ELSE ui.patch
      /\ ui'.undo = ui.undo /\ ui'.redo = ui.redo
      /\ ui'.edits = Diff(ui'.patch, BaseShown) \/ ui'.edits = ui.edits
      /\ UNCHANGED <<world, disk, cmds, radio, plan, due, rx, shown>>
      /\ ui'.patch \in Graphs
  BY PollParts
<1>2. EditTypes'
  BY PollParts
<1>3. Published' /\ Starting'
  BY <1>1 DEF Common, Published, Starting
<1>4. Running'
  BY <1>1, RunningKept DEF Common
<1>5. Unbroken'
  <2> SUFFICES ASSUME "breaks" \notin world PROVE Unbroken'
    BY <1>1 DEF Unbroken
  <2>1. Unbroken
    BY DEF Common
  <2>2. Builds(ui'.patch)
    BY <1>1, <2>1, ShownIs DEF Unbroken
  <2>3. Sound(ui'.edits)
    BY <1>1, <2>1, <2>2, SoundDiff, ShownIs DEF Unbroken
  <2> QED  BY <1>1, <2>1, <2>2, <2>3 DEF Unbroken, Builds, Sound
<1> QED  BY <1>2, <1>3, <1>4, <1>5 DEF Common

(* The edits written to disk, part by part. *)
LEMMA FlushParts ==
  ASSUME EditTypes, Flush
  PROVE  /\ ui.dirty /\ ui'.dirty = FALSE /\ disk' = ui.edits
         /\ ui'.patch = ui.patch /\ ui'.base = ui.base /\ ui'.sent = ui.sent /\ ui'.edits = ui.edits
         /\ ui'.landed = ui.landed /\ ui'.undo = ui.undo /\ ui'.redo = ui.redo
         /\ ui'.topo = ui.topo /\ ui'.seen = ui.seen
         /\ UNCHANGED <<world, cmds, radio, plan, want, due, good, rx, shown, unseen, changes, meant>>
         /\ EditTypes'
<1>1. ui' = [ui EXCEPT !.dirty = FALSE] /\ disk' = ui.edits /\ ui.dirty
      /\ UNCHANGED <<world, cmds, radio, plan, want, due, good, rx, shown, unseen, changes, meant>>
  BY DEF Flush, radioVars
<1>2. ui' = [patch |-> ui.patch, base |-> ui.base, sent |-> ui.sent, edits |-> ui.edits,
             landed |-> ui.landed, dirty |-> FALSE, undo |-> ui.undo, redo |-> ui.redo,
             topo |-> ui.topo, seen |-> ui.seen]
  BY <1>1, UiParts
<1>3. ui' \in UiStates /\ One(ui'.sent)
  BY <1>2, UiParts DEF UiStates, One, EditTypes
<1>4. EditTypes'
  BY <1>1, <1>3, UiParts DEF EditTypes, One
<1> QED  BY <1>1, <1>2, <1>4

LEMMA FlushCommon ==
  ASSUME Common, Flush
  PROVE  Common'
<1>0. EditTypes
  BY DEF Common
<1>1. /\ ui'.patch = ui.patch /\ ui'.edits = ui.edits /\ disk' = ui.edits
      /\ ui'.undo = ui.undo /\ ui'.redo = ui.redo
      /\ UNCHANGED <<world, cmds, radio, plan, due, rx, shown>> /\ EditTypes'
  BY <1>0, FlushParts
<1>3. Published' /\ Starting'
  BY <1>1 DEF Common, Published, Starting
<1>4. Running'
  BY <1>1, RunningKept DEF Common
<1>5. Unbroken'
  BY <1>1 DEF Common, Unbroken, Builds, Sound
<1> QED  BY <1>1, <1>3, <1>4, <1>5 DEF Common

(* Queues of one and of two. *)
LEMMA OneOrTwo ==
  ASSUME NEW a, NEW c
  PROVE  /\ Len(<<a>>) = 1 /\ <<a>>[1] = a /\ <<a>> # <<>>
         /\ Len(<<a, c>>) = 2 /\ <<a, c>>[1] = a /\ <<a, c>>[2] = c /\ <<a, c>> # <<>>
<1>2. Len(<<a>>) = 1 /\ <<a>>[1] = a /\ Len(<<>>) = 0
  OBVIOUS
<1>3. Len(<<a, c>>) = 2 /\ <<a, c>>[1] = a /\ <<a, c>>[2] = c
  OBVIOUS
<1>4. <<a>> # <<>> /\ <<a, c>> # <<>>
  BY <1>2, <1>3
<1> QED  BY <1>2, <1>3, <1>4

(* A new session, part by part. *)
LEMMA ConnectedParts ==
  ASSUME EditTypes, NEW u, NEW saved, u.edits \in EditSet, u.seen \in BOOLEAN, Connected(u, saved)
  PROVE  /\ radio' = "opening" /\ shown' = {} /\ unseen' = u.seen
         /\ due' = FALSE /\ good' = {} /\ want' = plan.dial
         /\ UNCHANGED <<plan, rx>>
         /\ cmds' \in Seq(Commands) /\ cmds' # <<>> /\ 1 \in 1 .. Len(cmds') /\ cmds'[1].op = "start"
         /\ \A i \in 1 .. Len(cmds') : \/ i = 1
                                       \/ /\ i = 2 /\ u.edits # NoEdits
                                          /\ cmds'[i].op = "edits" /\ cmds'[i].edits = u.edits
         /\ u.edits # NoEdits => /\ 2 \in 1 .. Len(cmds')
                                 /\ cmds'[2].op = "edits" /\ cmds'[2].edits = u.edits
         /\ changes' \in 0 .. MaxChanges /\ ui' \in UiStates /\ One(ui'.sent) /\ disk' \in EditSet
              => EditTypes'
<1>1. /\ radio' = "opening" /\ shown' = {} /\ unseen' = u.seen
      /\ due' = FALSE /\ good' = {} /\ want' = plan.dial
      /\ UNCHANGED <<plan, rx>>
  BY DEF Connected
<1> DEFINE a == [op |-> "start"]
           c == [op |-> "edits", edits |-> u.edits]
<1>2. a \in Commands /\ c \in Commands /\ a.op = "start" /\ c.op = "edits" /\ c.edits = u.edits
  BY DEF Commands
<1>3. cmds' = IF u.edits = NoEdits THEN <<a>> ELSE <<a, c>>
  BY DEF Connected
<1> HIDE DEF a, c
<1>4. CASE u.edits = NoEdits
  <2>1. cmds' = <<a>>
    BY <1>3, <1>4, OneOrTwo
  <2>2. cmds' \in Seq(Commands) /\ Len(cmds') = 1 /\ cmds'[1] = a /\ cmds' # <<>>
    BY <1>2, <2>1, OneOrTwo
  <2>3. EditTypes /\ changes' \in 0 .. MaxChanges /\ ui' \in UiStates /\ One(ui'.sent) /\ disk' \in EditSet
          => EditTypes'
    BY <1>1, <2>2 DEF EditTypes, One
  <2>4. 1 \in 1 .. Len(cmds') /\ \A i \in 1 .. Len(cmds') : i = 1
    BY <2>2
  <2> QED  BY <1>1, <1>2, <1>4, <2>2, <2>3, <2>4
<1>5. CASE u.edits # NoEdits
  <2>1. cmds' = <<a, c>>
    BY <1>3, <1>5, OneOrTwo
  <2>2. cmds' \in Seq(Commands) /\ Len(cmds') = 2 /\ cmds'[1] = a /\ cmds'[2] = c /\ cmds' # <<>>
    BY <1>2, <2>1, OneOrTwo
  <2>3. EditTypes /\ changes' \in 0 .. MaxChanges /\ ui' \in UiStates /\ One(ui'.sent) /\ disk' \in EditSet
          => EditTypes'
    BY <1>1, <2>2 DEF EditTypes, One
  <2>4. 1 \in 1 .. Len(cmds') /\ 2 \in 1 .. Len(cmds')
        /\ \A i \in 1 .. Len(cmds') : i = 1 \/ i = 2
    BY <2>2
  <2> QED  BY <1>1, <1>2, <1>5, <2>2, <2>3, <2>4
<1> QED  BY <1>4, <1>5

(* The first half over the steps that begin and end a session. *)
LEMMA ConnectCommon ==
  ASSUME Common, ConnectRadio
  PROVE  Common'
<1>0. EditTypes
  BY DEF Common
<1>1. Connected(ui, disk) /\ UNCHANGED <<world, ui, disk, changes>>
  BY DEF ConnectRadio
<1>2. ui.edits \in EditSet /\ ui.seen \in BOOLEAN
  BY <1>0, UiParts
<1>3. /\ radio' = "opening" /\ shown' = {} /\ due' = FALSE /\ UNCHANGED <<plan, rx>>
      /\ cmds' # <<>> /\ cmds'[1].op = "start"
      /\ \A i \in 1 .. Len(cmds') :
            i = 1 \/ (i = 2 /\ cmds'[i].op = "edits" /\ cmds'[i].edits = ui.edits)
  BY <1>0, <1>1, <1>2, ConnectedParts
<1>4. EditTypes'
  <2>1. changes' \in 0 .. MaxChanges /\ ui' \in UiStates /\ One(ui'.sent) /\ disk' \in EditSet
    BY <1>0, <1>1 DEF EditTypes, One
  <2> QED  BY <1>0, <1>1, <1>2, <2>1, ConnectedParts
<1>5. Published'
  BY <1>3 DEF Published
<1>6. Running'
  BY <1>1, <1>3, RunningKept DEF Common
<1>7. Starting'
  BY <1>3 DEF Starting
<1>8. Unbroken'
  <2>1. \A i \in 1 .. Len(cmds') : cmds'[i].op = "edits" => cmds'[i].edits = ui.edits
    BY <1>3
  <2> QED  BY <1>1, <1>3, <2>1 DEF Common, Unbroken, Builds, Sound
<1> QED  BY <1>4, <1>5, <1>6, <1>7, <1>8 DEF Common

(* The radio let go of, part by part. *)
LEMMA LetGoParts ==
  ASSUME EditTypes, LetGo
  PROVE  /\ "reopens" \in world /\ radio # "off" /\ radio' = "off" /\ cmds' = <<>>
         /\ AtRest \/ radio = "stopped" \/ "hasty" \in world
         /\ changes' = changes + 1
         /\ UNCHANGED <<world, ui, disk, plan, want, due, good, rx, shown, unseen, meant>>
         /\ EditTypes'
<1>1. /\ "reopens" \in world /\ radio # "off" /\ radio' = "off" /\ cmds' = <<>>
      /\ AtRest \/ radio = "stopped" \/ "hasty" \in world
      /\ changes' = changes + 1 /\ changes < MaxChanges
      /\ UNCHANGED <<world, ui, disk, plan, want, due, good, rx, shown, unseen, meant>>
  BY DEF LetGo
<1>2. changes' \in 0 .. MaxChanges
  BY <1>1, UiParts
<1>3. cmds' \in Seq(Commands)
  BY <1>1
<1>4. EditTypes'
  BY <1>1, <1>2, <1>3 DEF EditTypes, One
<1> QED  BY <1>1, <1>4

LEMMA LetGoCommon ==
  ASSUME Common, LetGo
  PROVE  Common'
<1>0. EditTypes
  BY DEF Common
<1>1. /\ radio' = "off" /\ cmds' = <<>> /\ EditTypes'
      /\ UNCHANGED <<world, ui, disk, plan, due, rx, shown>>
  BY <1>0, LetGoParts
<1>2. Published'
  BY <1>1 DEF Common, Published
<1>3. Running'
  BY <1>1, RunningKept DEF Common
<1>4. \A i \in 1 .. Len(cmds') : FALSE
  BY <1>1
<1>5. Starting'
  BY <1>1, <1>4 DEF Starting
<1>6. Unbroken'
  BY <1>1, <1>4 DEF Common, Unbroken, Builds, Sound
<1> QED  BY <1>1, <1>2, <1>3, <1>5, <1>6 DEF Common

(* The interface as the program starts it. *)
LEMMA FreshUiIs ==
  ASSUME NEW e \in EditSet
  PROVE  /\ FreshUi(e) \in UiStates /\ One(FreshUi(e).sent)
         /\ FreshUi(e).patch = EmptyPatch /\ FreshUi(e).base = EmptyPatch /\ FreshUi(e).sent = {}
         /\ FreshUi(e).edits = e /\ FreshUi(e).landed = FALSE /\ FreshUi(e).dirty = FALSE
         /\ FreshUi(e).undo = <<>> /\ FreshUi(e).redo = <<>> /\ FreshUi(e).topo = {}
         /\ FreshUi(e).seen = FALSE
<1>1. FreshUi(e) = [patch |-> EmptyPatch, base |-> EmptyPatch, sent |-> {}, edits |-> e,
               landed |-> FALSE, dirty |-> FALSE, undo |-> <<>>, redo |-> <<>>,
               topo |-> {}, seen |-> FALSE]
  BY DEF FreshUi
<1>2. <<>> \in Seq(Graphs)
  OBVIOUS
<1> QED  BY <1>1, <1>2, EmptyAt DEF UiStates, One

(* The program started again, part by part. *)
LEMMA RestartParts ==
  ASSUME EditTypes, NEW killed \in BOOLEAN, Restart(killed)
  PROVE  LET saved == IF ui.dirty /\ ~killed THEN ui.edits ELSE disk
         IN  /\ "restarts" \in world /\ changes' = changes + 1
             /\ saved \in EditSet
             /\ disk' = saved /\ ui' = FreshUi(saved) /\ Connected(FreshUi(saved), saved)
             /\ meant' = IF killed \/ ~AtRest THEN saved ELSE meant
             /\ world' = world /\ EditTypes'
<1> DEFINE saved == IF ui.dirty /\ ~killed THEN ui.edits ELSE disk
<1>1. /\ "restarts" \in world /\ changes' = changes + 1 /\ changes < MaxChanges
      /\ disk' = saved /\ ui' = FreshUi(saved) /\ Connected(FreshUi(saved), saved)
      /\ meant' = IF killed \/ ~AtRest THEN saved ELSE meant
      /\ world' = world
  BY DEF Restart
<1>2. saved \in EditSet
  BY UiParts DEF EditTypes
<1> HIDE DEF saved
<1>3. ui' \in UiStates /\ One(ui'.sent) /\ FreshUi(saved).edits \in EditSet
      /\ FreshUi(saved).seen \in BOOLEAN
  BY <1>1, <1>2, FreshUiIs DEF One
<1>4. changes' \in 0 .. MaxChanges
  BY <1>1, UiParts
<1>5. EditTypes'
  BY <1>1, <1>2, <1>3, <1>4, ConnectedParts
<1> QED  BY <1>1, <1>2, <1>5 DEF saved

LEMMA RestartCommon ==
  ASSUME Common, NEW killed \in BOOLEAN, Restart(killed)
  PROVE  Common'
<1> DEFINE saved == IF ui.dirty /\ ~killed THEN ui.edits ELSE disk
           u == FreshUi(saved)
<1>0. EditTypes
  BY DEF Common
<1>1. /\ saved \in EditSet /\ disk' = saved /\ ui' = u /\ Connected(u, saved)
      /\ world' = world /\ EditTypes'
  BY <1>0, RestartParts
<1>2. "breaks" \notin world => Sound(saved)
  BY DEF Common, Unbroken
<1> HIDE DEF saved
<1>3. u.patch = EmptyPatch /\ u.undo = <<>> /\ u.redo = <<>> /\ u.edits = saved /\ u.seen \in BOOLEAN
  BY <1>1, FreshUiIs
<1> HIDE DEF u
<1>4. /\ radio' = "opening" /\ shown' = {} /\ due' = FALSE /\ UNCHANGED <<plan, rx>>
      /\ cmds' # <<>> /\ cmds'[1].op = "start"
      /\ \A i \in 1 .. Len(cmds') :
            i = 1 \/ (i = 2 /\ cmds'[i].op = "edits" /\ cmds'[i].edits = saved)
  BY <1>0, <1>1, <1>3, ConnectedParts
<1>5. Published'
  BY <1>4 DEF Published
<1>6. Running'
  BY <1>1, <1>4, RunningKept DEF Common
<1>7. Starting'
  BY <1>4 DEF Starting
<1>8. Unbroken'
  <2>1. \A i \in 1 .. Len(cmds') : cmds'[i].op = "edits" => cmds'[i].edits = saved
    BY <1>4
  <2>2. /\ \A i \in 1 .. Len(ui'.undo) : FALSE
        /\ \A i \in 1 .. Len(ui'.redo) : FALSE
    BY <1>1, <1>3
  <2>3. ui'.patch = EmptyPatch /\ ui'.edits = saved /\ disk' = saved
    BY <1>1, <1>3
  <2>4. plan' = plan /\ rx' = rx /\ world' = world
    BY <1>1, <1>4
  <2> QED  BY <1>2, <2>1, <2>2, <2>3, <2>4, NothingDrawn DEF Common, Unbroken, Builds, Sound
<1> QED  BY <1>1, <1>5, <1>6, <1>7, <1>8 DEF Common

(* The radio opened with the edits on disk, part by part. *)
LEMMA OpenParts ==
  ASSUME EditTypes, Open
  PROVE  /\ radio = "opening" /\ plan' = [dial |-> plan.dial, edits |-> disk]
         /\ UNCHANGED <<world, ui, disk, cmds, want, due, good, shown, unseen, changes, meant>>
         /\ \/ /\ Builds(Assembled(disk, plan.dial)) /\ radio' = "running"
               /\ rx' = Receiver(Assembled(disk, plan.dial), plan.dial, NoNodes, TRUE)
            \/ ~Builds(Assembled(disk, plan.dial)) /\ radio' = "stopped" /\ rx' = rx
         /\ EditTypes'
<1>1. /\ radio = "opening" /\ plan' = [plan EXCEPT !.edits = disk]
      /\ UNCHANGED <<world, ui, disk, cmds, want, due, good, shown, unseen, changes, meant>>
      /\ \/ /\ Builds(Assembled(disk, plan.dial)) /\ radio' = "running"
            /\ rx' = Receiver(Assembled(disk, plan.dial), plan.dial, NoNodes, TRUE)
         \/ ~Builds(Assembled(disk, plan.dial)) /\ radio' = "stopped" /\ rx' = rx
  BY DEF Open
<1>2. plan' = [dial |-> plan.dial, edits |-> disk]
  BY <1>1, RxParts
<1>3. plan.dial \in Dials /\ disk \in EditSet
  BY RxParts DEF EditTypes
<1>4. plan' \in [dial : Dials, edits : EditSet]
  BY <1>2, <1>3
<1>5. rx' \in Receivers
  <2>1. Assembled(disk, plan.dial) \in Graphs
    BY <1>3, AssembledType
  <2>2. Receiver(Assembled(disk, plan.dial), plan.dial, NoNodes, TRUE) \in Receivers
    BY <1>3, <2>1, NoNodesAre, ReceiverIs
  <2> QED  BY <1>1, <2>2 DEF EditTypes
<1>6. EditTypes'
  BY <1>1, <1>4, <1>5 DEF EditTypes, One
<1> QED  BY <1>1, <1>2, <1>6

LEMMA OpenCommon ==
  ASSUME Common, Open
  PROVE  Common'
<1>0. EditTypes /\ disk \in EditSet /\ plan.dial \in Dials
  BY RxParts DEF Common, EditTypes
<1>1. /\ radio = "opening" /\ plan' = [dial |-> plan.dial, edits |-> disk] /\ EditTypes'
      /\ UNCHANGED <<world, ui, disk, cmds, due, shown>>
      /\ \/ /\ Builds(Assembled(disk, plan.dial)) /\ radio' = "running"
            /\ rx' = Receiver(Assembled(disk, plan.dial), plan.dial, NoNodes, TRUE)
         \/ ~Builds(Assembled(disk, plan.dial)) /\ radio' = "stopped" /\ rx' = rx
  BY <1>0, OpenParts
<1>2. Published'
  BY <1>1 DEF Common, Published
<1>3. Running'
  <2>1. CASE radio' = "stopped" /\ rx' = rx
    <3>1. plan'.dial = plan.dial
      BY <1>1
    <3> QED  BY <1>1, <2>1, <3>1, RunningKept DEF Common
  <2>2. CASE /\ Builds(Assembled(disk, plan.dial)) /\ radio' = "running"
             /\ rx' = Receiver(Assembled(disk, plan.dial), plan.dial, NoNodes, TRUE)
    BY <1>0, <1>1, <2>2, NoNodesAre, BuiltRuns
  <2> QED  BY <1>1, <2>1, <2>2
<1>4. Starting'
  BY <1>1 DEF Common, Starting
<1>5. Unbroken'
  <2>1. rx.recording => rx'.recording
    <3>1. Assembled(disk, plan.dial) \in Graphs
      BY <1>0, AssembledType
    <3>2. Receiver(Assembled(disk, plan.dial), plan.dial, NoNodes, TRUE).recording = TRUE
      BY <1>0, <3>1, NoNodesAre, ReceiverIs
    <3> QED  BY <1>1, <3>2
  <2>2. plan'.edits = disk
    BY <1>1
  <2> QED  BY <1>1, <2>1, <2>2 DEF Common, Unbroken, Builds, Sound
<1> QED  BY <1>1, <1>2, <1>3, <1>4, <1>5 DEF Common

LEMMA OpenFailsCommon ==
  ASSUME Common, OpenFails
  PROVE  Common'
<1>1. /\ radio = "opening" /\ radio' = "stopped"
      /\ UNCHANGED <<world, ui, disk, cmds, plan, want, due, good, rx, shown, unseen, changes, meant>>
  BY DEF OpenFails
<1>2. EditTypes'
  BY <1>1 DEF Common, EditTypes, One
<1>3. Published' /\ Starting'
  BY <1>1 DEF Common, Published, Starting
<1>4. Running'
  BY <1>1, RunningKept DEF Common
<1>5. Unbroken'
  BY <1>1, UnbrokenKept DEF Common
<1> QED  BY <1>2, <1>3, <1>4, <1>5 DEF Common

(* A command taken off the queue, part by part. *)
LEMMA TakeParts ==
  ASSUME EditTypes, NEW op, Take(op)
  PROVE  /\ radio = "running" /\ cmds # <<>> /\ cmds' = Tail(cmds)
         /\ cmds \in Seq(Commands) /\ cmds' \in Seq(Commands)
         /\ Len(cmds) \in Nat /\ 1 \in 1 .. Len(cmds) /\ Len(cmds) = Len(cmds') + 1
         /\ Head(cmds) = cmds[1] /\ Head(cmds) \in Commands /\ Head(cmds).op = op
         /\ \A i \in 1 .. Len(cmds') : i + 1 \in 1 .. Len(cmds) /\ cmds'[i] = cmds[i + 1]
         /\ UNCHANGED <<world, ui, disk, radio, good, changes, meant>>
<1>1. /\ radio = "running" /\ cmds # <<>> /\ cmds' = Tail(cmds) /\ Head(cmds).op = op
      /\ UNCHANGED <<world, ui, disk, radio, good, changes, meant>>
  BY DEF Take
<1>2. cmds \in Seq(Commands)
  BY DEF EditTypes
<1> QED  BY <1>1, <1>2, Tailed

(* Taking a command leaves none that starts a session behind. *)
LEMMA TakenStarting ==
  ASSUME Common, NEW op, Take(op),
         op = "start" => due',
         due' \/ due' = due, shown' # {} \/ shown' = shown
  PROVE  Starting'
<1>1. cmds # <<>> /\ cmds' = Tail(cmds) /\ radio = "running" /\ radio' = radio
      /\ Head(cmds).op = op /\ Head(cmds) = cmds[1]
  BY TakeParts DEF Common
<1>2. \A i \in 1 .. Len(cmds') : cmds'[i].op # "start"
  BY <1>1, TailStarting
<1>3. radio' = "opening" \/ (radio' = "running" /\ shown' = {} /\ ~due') => FALSE
  BY <1>1 DEF Common, Starting
<1> QED  BY <1>2, <1>3 DEF Starting

(* Taking a command breaks no graph. *)
LEMMA TakenUnbroken ==
  ASSUME Common, NEW op, Take(op), "breaks" \notin world => Sound(plan'.edits) /\ rx'.recording
  PROVE  Unbroken'
<1>1. UNCHANGED <<world, ui, disk>>
  BY TakeParts DEF Common
<1>2. ASSUME "breaks" \notin world
      PROVE  \A i \in 1 .. Len(cmds') : cmds'[i].op = "edits" => Sound(cmds'[i].edits)
  BY <1>2, TakeParts DEF Common, Unbroken
<1> QED  BY <1>1, <1>2 DEF Common, Unbroken, Builds, Sound

(* Each command taken, part by part, and the first half over it. *)
LEMMA TakeStartParts ==
  ASSUME EditTypes, TakeStart
  PROVE  /\ Take("start") /\ due' = TRUE
         /\ UNCHANGED <<plan, want, rx, shown, unseen>>
         /\ EditTypes'
<1>1. Take("start") /\ due' = TRUE /\ UNCHANGED <<plan, want, rx, shown, unseen>>
  BY DEF TakeStart
<1>2. UNCHANGED <<world, ui, disk, radio, good, changes>> /\ cmds' \in Seq(Commands)
  BY <1>1, TakeParts
<1>3. EditTypes'
  BY <1>1, <1>2 DEF EditTypes, One
<1> QED  BY <1>1, <1>3

LEMMA TakeStartCommon ==
  ASSUME Common, TakeStart
  PROVE  Common'
<1>1. Take("start") /\ due' = TRUE /\ UNCHANGED <<plan, want, rx, shown, unseen>> /\ EditTypes'
  BY TakeStartParts DEF Common
<1>2. UNCHANGED <<world, radio>>
  BY <1>1, TakeParts DEF Common
<1>3. Published'
  BY <1>1, <1>2 DEF Common, Published
<1>4. Running'
  BY <1>1, <1>2, RunningKept DEF Common
<1>5. Starting'
  BY <1>1, TakenStarting
<1>6. Unbroken'
  BY <1>1, TakenUnbroken DEF Common, Unbroken
<1> QED  BY <1>1, <1>3, <1>4, <1>5, <1>6 DEF Common

LEMMA TakeEditsParts ==
  ASSUME EditTypes, TakeEdits
  PROVE  /\ Take("edits")
         /\ cmds[1].edits \in EditSet
         /\ \/ /\ plan' = [dial |-> plan.dial, edits |-> cmds[1].edits] /\ due' = TRUE
               /\ plan.edits # cmds[1].edits
            \/ plan' = plan /\ due' = due /\ plan.edits = cmds[1].edits
         /\ plan'.dial = plan.dial /\ plan'.edits = cmds[1].edits
         /\ UNCHANGED <<want, rx, shown, unseen>>
         /\ EditTypes'
<1>1. /\ Take("edits")
      /\ \/ /\ plan' = [plan EXCEPT !.edits = Head(cmds).edits] /\ due' = TRUE
            /\ plan.edits # Head(cmds).edits
         \/ plan' = plan /\ due' = due /\ plan.edits = Head(cmds).edits
      /\ UNCHANGED <<want, rx, shown, unseen>>
  BY DEF TakeEdits
<1>2. UNCHANGED <<world, ui, disk, radio, good, changes>> /\ cmds' \in Seq(Commands)
      /\ Head(cmds) = cmds[1] /\ Head(cmds) \in Commands /\ Head(cmds).op = "edits"
  BY <1>1, TakeParts
<1>3. cmds[1].edits \in EditSet
  BY <1>2, CommandIs
<1>4. \/ /\ plan' = [dial |-> plan.dial, edits |-> cmds[1].edits] /\ due' = TRUE
         /\ plan.edits # cmds[1].edits
      \/ plan' = plan /\ due' = due /\ plan.edits = cmds[1].edits
  BY <1>1, <1>2, RxParts
<1>5. plan' \in [dial : Dials, edits : EditSet]
  BY <1>3, <1>4, RxParts DEF EditTypes
<1>6. EditTypes'
  BY <1>1, <1>2, <1>4, <1>5 DEF EditTypes, One
<1> QED  BY <1>1, <1>3, <1>4, <1>6

LEMMA TakeEditsCommon ==
  ASSUME Common, TakeEdits
  PROVE  Common'
<1>1. /\ Take("edits") /\ EditTypes' /\ UNCHANGED <<want, rx, shown, unseen>>
      /\ due' \/ (due' = due /\ plan' = plan)
      /\ plan'.dial = plan.dial /\ plan'.edits = cmds[1].edits
  BY TakeEditsParts DEF Common
<1>2. UNCHANGED <<world, radio>> /\ 1 \in 1 .. Len(cmds) /\ cmds[1].op = "edits"
  BY <1>1, TakeParts DEF Common
<1>3. Published'
  BY <1>1, <1>2 DEF Common, Published
<1>4. Running'
  BY <1>1, <1>2, RunningKept DEF Common
<1>5. Starting'
  BY <1>1, TakenStarting
<1>6. Unbroken'
  BY <1>1, <1>2, TakenUnbroken DEF Common, Unbroken
<1> QED  BY <1>1, <1>3, <1>4, <1>5, <1>6 DEF Common

LEMMA TakeCenterParts ==
  ASSUME EditTypes, TakeCenter
  PROVE  /\ Take("center") /\ want' = cmds[1].dial /\ want' \in Dials
         /\ UNCHANGED <<plan, due, rx, shown, unseen>>
         /\ EditTypes'
<1>1. Take("center") /\ want' = Head(cmds).dial /\ UNCHANGED <<plan, due, rx, shown, unseen>>
  BY DEF TakeCenter
<1>2. UNCHANGED <<world, ui, disk, radio, good, changes>> /\ cmds' \in Seq(Commands)
      /\ Head(cmds) = cmds[1] /\ Head(cmds) \in Commands /\ Head(cmds).op = "center"
  BY <1>1, TakeParts
<1>3. want' \in Dials
  BY <1>1, <1>2, CommandIs
<1>4. EditTypes'
  BY <1>1, <1>2, <1>3 DEF EditTypes, One
<1> QED  BY <1>1, <1>2, <1>3, <1>4

LEMMA TakeCenterCommon ==
  ASSUME Common, TakeCenter
  PROVE  Common'
<1>1. Take("center") /\ UNCHANGED <<plan, due, rx, shown, unseen>> /\ EditTypes'
  BY TakeCenterParts DEF Common
<1>2. UNCHANGED <<world, radio>>
  BY <1>1, TakeParts DEF Common
<1>3. Published'
  BY <1>1, <1>2 DEF Common, Published
<1>4. Running'
  BY <1>1, <1>2, RunningKept DEF Common
<1>5. Starting'
  BY <1>1, TakenStarting
<1>6. Unbroken'
  BY <1>1, TakenUnbroken DEF Common, Unbroken
<1> QED  BY <1>1, <1>3, <1>4, <1>5, <1>6 DEF Common

(* What a graph is after a setting was written into it. *)
LEMMA ToldIs ==
  ASSUME NEW p \in Graphs, NEW t, NEW v \in Values
  PROVE  /\ Told(p, t, v) \in Graphs
         /\ DOMAIN Told(p, t, v).at = DOMAIN p.at
         /\ \A s \in DOMAIN p.at : /\ Told(p, t, v).at[s].set = (IF s \in t THEN v ELSE p.at[s].set)
                                   /\ Told(p, t, v).at[s].from = p.at[s].from
         /\ Told(p, t, v).off = p.off /\ Told(p, t, v).askew = p.askew
         /\ Fed(Told(p, t, v)) = Fed(p)
         /\ Builds(p) => Builds(Told(p, t, v))
<1> DEFINE f == [s \in DOMAIN p.at |-> [set  |-> IF s \in t THEN v ELSE p.at[s].set,
                                        from |-> p.at[s].from]]
           q == Told(p, t, v)
<1>1. q = [at |-> f, off |-> p.off, askew |-> p.askew]
  BY GraphParts DEF Told
<1>2. DOMAIN p.at \in SUBSET Ids /\ p.off \in SUBSET Ids /\ p.askew \in BOOLEAN
      /\ \A s \in DOMAIN p.at : p.at[s].set \in Values /\ p.at[s].from \in Values
  BY GraphParts
<1>3. f \in [DOMAIN p.at -> Stages]
  BY <1>2 DEF Stages
<1>4. q \in Graphs
  <2> HIDE DEF f, q
  <2> QED  BY <1>1, <1>2, <1>3, GraphIs
<1>5. /\ DOMAIN f = DOMAIN p.at
      /\ \A s \in DOMAIN p.at : /\ f[s].set = (IF s \in t THEN v ELSE p.at[s].set)
                                /\ f[s].from = p.at[s].from
  OBVIOUS
<1>6. q.at = f /\ q.off = p.off /\ q.askew = p.askew
  BY <1>1
<1> HIDE DEF f, q
<1>7. Fed(q) = Fed(p) /\ (Builds(p) => Builds(q))
  BY <1>5, <1>6 DEF Fed, Builds
<1> QED  BY <1>4, <1>5, <1>6, <1>7 DEF q

(* A receiver told a setting, field by field. *)
LEMMA ReceiverTold ==
  ASSUME NEW x, NEW n, NEW q,
         x = [patch |-> x.patch, base |-> x.base, node |-> x.node, recording |-> x.recording]
  PROVE  [x EXCEPT !.node = n, !.patch = q]
         = [patch |-> q, base |-> x.base, node |-> n, recording |-> x.recording]
<1>1. PICK a, b, c, d : x = [patch |-> a, base |-> b, node |-> c, recording |-> d]
  OBVIOUS
<1> DEFINE y == [patch |-> a, base |-> b, node |-> c, recording |-> d]
           z == [patch |-> a, base |-> b, node |-> n, recording |-> d]
<1>2. [y EXCEPT !.node = n] = z
  OBVIOUS
<1>3. [z EXCEPT !.patch = q] = [patch |-> q, base |-> b, node |-> n, recording |-> d]
  OBVIOUS
<1>4. x.base = b /\ x.recording = d
  BY <1>1
<1> HIDE DEF z
<1>5. [x EXCEPT !.node = n] = z
  BY <1>1, <1>2
<1> HIDE DEF y
<1>6. [x EXCEPT !.node = n, !.patch = q] = [[x EXCEPT !.node = n] EXCEPT !.patch = q]
  OBVIOUS
<1> QED  BY <1>3, <1>4, <1>5, <1>6

(* A setting taken, part by part: told to the node and written into the graph,
   and what the graph says is the plan. *)
LEMMA TakeParamParts ==
  ASSUME Common, TakeParam
  PROVE  \E t \in SUBSET Ids :
           /\ Take("param") /\ cmds[1].value \in Values
           /\ IF cmds[1].among = DOMAIN rx.node THEN t = {cmds[1].stage}
              ELSE t = {} \/ \E s \in DOMAIN rx.node : t = {s}
           /\ rx'.patch = Told(rx.patch, t, cmds[1].value)
           /\ rx'.base = rx.base /\ rx'.recording = rx.recording
           /\ DOMAIN rx'.node = DOMAIN rx.node
           /\ \A s \in DOMAIN rx.node :
                 rx'.node[s] = IF s \in t THEN cmds[1].value ELSE rx.node[s]
           /\ due' \in BOOLEAN /\ (due => due')
           /\ plan' = [dial |-> plan.dial, edits |-> Diff(rx'.patch, rx.base)]
           /\ shown' = {[patch |-> rx'.patch, base |-> rx.base]} /\ unseen' = TRUE
           /\ want' = want
           /\ EditTypes'
<1> DEFINE c == Head(cmds)
           now == DOMAIN rx.node
<1>0. EditTypes /\ Running
  BY DEF Common
<1>1. Take("param")
  BY DEF TakeParam
<1>2. UNCHANGED <<world, ui, disk, radio, good, changes>> /\ cmds' \in Seq(Commands)
      /\ c = cmds[1] /\ c \in Commands /\ c.op = "param" /\ radio = "running"
  BY <1>0, <1>1, TakeParts
<1>3. c.stage \in Ids /\ c.value \in Values
  BY <1>2, CommandIs, EditsAssumption DEF Values, Broken
<1>4. now = Fed(rx.patch) /\ now \subseteq Ids
  BY <1>0, <1>2, RxParts, FedType DEF Running
<1>5. PICK t \in IF c.among = now THEN {{c.stage}} ELSE {{}} \cup {{s} : s \in now},
              reshapes \in BOOLEAN :
              LET r == [rx EXCEPT !.node  = [s \in now |-> IF s \in t THEN c.value ELSE @[s]],
                                  !.patch = Told(@, t, c.value)]
              IN  /\ rx' = r
                  /\ due' = (due \/ (reshapes /\ t # {}))
                  /\ plan' = [plan EXCEPT !.edits = EditsOf(r)]
                  /\ Publish(r)
  BY DEF TakeParam
<1> DEFINE r == [rx EXCEPT !.node  = [s \in now |-> IF s \in t THEN c.value ELSE @[s]],
                                  !.patch = Told(@, t, c.value)]
           n == [s \in now |-> IF s \in t THEN c.value ELSE rx.node[s]]
           q == Told(rx.patch, t, c.value)
<1>6. rx' = r /\ due' = (due \/ (reshapes /\ t # {})) /\ plan' = [plan EXCEPT !.edits = EditsOf(r)]
      /\ Publish(r)
  BY <1>5
<1>7. IF c.among = now THEN t = {c.stage} ELSE t = {} \/ \E s \in now : t = {s}
  <2> HIDE DEF c, now
  <2> QED  BY <1>5
<1>8. t \in SUBSET Ids
  <2> HIDE DEF c, now
  <2> QED  BY <1>3, <1>4, <1>7
<1>9. r = [patch |-> q, base |-> rx.base, node |-> n, recording |-> rx.recording]
  <2>1. r = [rx EXCEPT !.node = n, !.patch = q]
    OBVIOUS
  <2> HIDE DEF r, n, q
  <2> QED  BY <1>0, <2>1, RxParts, ReceiverTold
<1> HIDE DEF c, now, r
<1>10. q \in Graphs
  BY <1>0, <1>3, RxParts, ToldIs
<1> HIDE DEF q
<1>11. n \in [now -> Values]
  <2>1. \A s \in now : rx.node[s] \in Values
    BY <1>0, RxParts, MapsDef DEF now
  <2> QED  BY <1>3, <2>1
<1>12. n \in Maps(Ids, Values)
  BY <1>4, <1>11, InMaps
<1>13. /\ DOMAIN n = now /\ \A s \in now : n[s] = IF s \in t THEN c.value ELSE rx.node[s]
  OBVIOUS
<1> HIDE DEF n
<1>14. r \in Receivers
  BY <1>0, <1>9, <1>10, <1>12, RxParts DEF Receivers
<1>15. r.patch = q /\ r.base = rx.base /\ r.node = n /\ r.recording = rx.recording
  BY <1>9
<1>16. EditsOf(r) = Diff(q, rx.base)
  BY <1>15 DEF EditsOf
<1>17. plan' = [dial |-> plan.dial, edits |-> Diff(q, rx.base)]
  BY <1>0, <1>6, <1>16, RxParts
<1>18. Diff(q, rx.base) \in EditSet /\ plan.dial \in Dials
  BY <1>0, <1>10, DiffType, RxParts
<1>19. shown' = {[patch |-> q, base |-> rx.base]} /\ unseen' = TRUE
  BY <1>6, <1>15 DEF Publish
<1>20. due' \in BOOLEAN /\ (due => due')
  BY <1>0, <1>6 DEF EditTypes
<1>21. want' = want
  BY DEF TakeParam
<1>22. EditTypes'
  <2>1. plan' \in [dial : Dials, edits : EditSet]
    BY <1>17, <1>18
  <2>2. rx' \in Receivers
    BY <1>6, <1>14
  <2> QED  BY <1>0, <1>2, <1>19, <1>20, <1>21, <2>1, <2>2 DEF EditTypes, One
<1>23. rx'.patch = q /\ rx'.base = rx.base /\ rx'.node = n /\ rx'.recording = rx.recording
  BY <1>6, <1>15
<1> WITNESS t \in SUBSET Ids
<1>24. /\ IF cmds[1].among = DOMAIN rx.node THEN t = {cmds[1].stage}
              ELSE t = {} \/ \E s \in DOMAIN rx.node : t = {s}
       /\ rx'.patch = Told(rx.patch, t, cmds[1].value)
       /\ cmds[1].value \in Values
  BY <1>2, <1>3, <1>7, <1>23 DEF now, q
<1>25. /\ DOMAIN rx'.node = DOMAIN rx.node
       /\ \A s \in DOMAIN rx.node :
                 rx'.node[s] = IF s \in t THEN cmds[1].value ELSE rx.node[s]
  BY <1>2, <1>13, <1>23 DEF now
<1> QED  BY <1>1, <1>17, <1>19, <1>20, <1>21, <1>22, <1>23, <1>24, <1>25

LEMMA TakeParamCommon ==
  ASSUME Common, TakeParam
  PROVE  Common'
<1>1. PICK t \in SUBSET Ids :
           /\ Take("param") /\ cmds[1].value \in Values
           /\ rx'.patch = Told(rx.patch, t, cmds[1].value)
           /\ rx'.base = rx.base /\ rx'.recording = rx.recording
           /\ DOMAIN rx'.node = DOMAIN rx.node
           /\ \A s \in DOMAIN rx.node :
                 rx'.node[s] = IF s \in t THEN cmds[1].value ELSE rx.node[s]
           /\ due' \in BOOLEAN /\ (due => due')
           /\ plan' = [dial |-> plan.dial, edits |-> Diff(rx'.patch, rx.base)]
           /\ shown' = {[patch |-> rx'.patch, base |-> rx.base]}
           /\ EditTypes'
  BY TakeParamParts
<1>2. radio = "running" /\ UNCHANGED <<world, radio>> /\ EditTypes
  BY <1>1, TakeParts DEF Common
<1> DEFINE q == rx'.patch
           d == plan.dial
<1>3. /\ q \in Graphs /\ DOMAIN q.at = DOMAIN rx.patch.at
      /\ \A s \in DOMAIN q.at : q.at[s].set = (IF s \in t THEN cmds[1].value ELSE rx.patch.at[s].set)
      /\ q.off = rx.patch.off /\ q.askew = rx.patch.askew
      /\ Fed(q) = Fed(rx.patch) /\ (Builds(rx.patch) => Builds(q))
      /\ Fed(q) \subseteq DOMAIN q.at
  BY <1>1, <1>2, ToldIs, RxParts, FedType
<1>4. /\ rx.patch.askew = FALSE /\ Builds(rx.patch) /\ rx.base = Base(d) /\ d \in Dials
      /\ DOMAIN rx.patch.at \subseteq Own \cup InSpan[d]
      /\ (DOMAIN rx.patch.at \cup rx.patch.off) \cap Refused(d) = {}
      /\ DOMAIN rx.node = Fed(rx.patch)
      /\ \A s \in DOMAIN rx.node \ Own : rx.node[s] = rx.patch.at[s].set
  BY <1>2, RxParts DEF Common, Running
<1>5. q = Patch(q.at, q.off)
  BY <1>3, <1>4, GraphParts DEF Patch
<1>6. Assembled(Diff(q, Base(d)), d) = q
  <2> HIDE DEF q, d
  <2>1. Assembled(Diff(q, Base(d)), d) = Patch(q.at, q.off)
    BY <1>3, <1>4, Redrawn
  <2> QED  BY <1>5, <2>1
<1>7. plan'.dial = d /\ plan'.edits = Diff(q, Base(d))
  BY <1>1, <1>4
<1>8. Running'
  <2>1. (rx.patch.askew = FALSE)' /\ Builds(rx.patch)'
    BY <1>3, <1>4 DEF Builds
  <2>2. (rx.base = Base(plan.dial))'
    BY <1>1, <1>4, <1>7 DEF Base
  <2>3. (DOMAIN rx.patch.at \subseteq Own \cup InSpan[plan.dial])'
    BY <1>3, <1>4, <1>7
  <2>4. ((DOMAIN rx.patch.at \cup rx.patch.off) \cap Refused(plan.dial) = {})'
    BY <1>2, <1>3, <1>4, <1>7 DEF Refused
  <2>5. (rx.patch = Assembled(plan.edits, plan.dial))'
    <3>1. Assembled(plan.edits, plan.dial)' = Assembled(Diff(q, Base(d)), d)
      BY <1>2, <1>7 DEF Assembled
    <3> QED  BY <1>6, <3>1
  <2>6. (DOMAIN rx.node = Fed(rx.patch))'
    <3>1. Fed(rx.patch)' = Fed(q)
      BY DEF Fed
    <3> QED  BY <1>1, <1>3, <1>4, <3>1
  <2>7. (\A s \in DOMAIN rx.node \ Own : rx.node[s] = rx.patch.at[s].set)'
    BY <1>1, <1>3, <1>4
  <2> QED  BY <2>1, <2>2, <2>3, <2>4, <2>5, <2>6, <2>7 DEF Running
<1>9. Published'
  BY <1>1, <1>2 DEF Published
<1>10. Starting'
  <2>1. shown' # {} /\ (due' \/ due' = due)
    BY <1>1, <1>2 DEF EditTypes
  <2> QED  BY <1>1, <2>1, TakenStarting
<1>11. Unbroken'
  <2>1. Sound(plan'.edits)
    <3> HIDE DEF q, d
    <3>1. q \in Graphs /\ Base(d) \in Bases
      BY <1>3, <1>4, BaseAt
    <3>2. Builds(q)
      BY <1>3, <1>4
    <3> QED  BY <1>7, <3>1, <3>2, SoundDiff
  <2> QED  BY <1>1, <2>1, TakenUnbroken DEF Common, Unbroken
<1> QED  BY <1>1, <1>8, <1>9, <1>10, <1>11 DEF Common

(* The three ways a rebuild ends: with the plan's edits, with the last that *)
(* built, or not at all.                                                    *)
NewDial == plan'.dial   \* where the dial was, or where it is wanted
RebuiltAs(e, pool, recording) ==
  /\ e \in EditSet /\ Builds(Assembled(e, NewDial))
  /\ rx' = Receiver(Assembled(e, NewDial), NewDial, pool, recording)
  /\ plan' = [dial |-> NewDial, edits |-> e]
  /\ shown' = {[patch |-> Assembled(e, NewDial), base |-> Base(NewDial)]} /\ unseen' = TRUE
  /\ radio' = "running"
RebuiltFirst == RebuiltAs(plan.edits, rx.node, rx.recording) /\ good' = {plan.edits}
RebuiltAgain == /\ ~Builds(Assembled(plan.edits, NewDial))
                /\ \E e \in good : RebuiltAs(e, NoNodes, FALSE)
                /\ good' = good
RebuiltNot   == /\ ~Builds(Assembled(plan.edits, NewDial))
                /\ radio' = "stopped" /\ plan' = [dial |-> NewDial, edits |-> plan.edits]
                /\ UNCHANGED <<good, rx, shown, unseen>>

(* A rebuild, part by part: it builds, or the last that built is put back, or
   the radio stops. *)
LEMMA RebuildParts ==
  ASSUME EditTypes, Rebuild
  PROVE  /\ radio = "running" /\ (due \/ want # plan.dial) /\ due' = FALSE
         /\ RebuiltFirst \/ RebuiltAgain \/ RebuiltNot
         /\ UNCHANGED <<world, ui, disk, cmds, want, changes, meant>>
         /\ NewDial \in {plan.dial, want} /\ NewDial \in Dials
         /\ EditTypes'
<1>a. PICK dial \in {plan.dial, want} : (due \/ dial # plan.dial) /\ RebuildAt(dial)
  BY DEF Rebuild
<1> DEFINE first == Assembled(plan.edits, dial)
           last == CHOOSE e \in good : TRUE
           again == Assembled(last, dial)
<1>0. /\ plan.edits \in EditSet /\ dial \in Dials /\ rx \in Receivers /\ rx.node \in Maps(Ids, Values)
      /\ rx.recording \in BOOLEAN /\ plan = [dial |-> plan.dial, edits |-> plan.edits]
  BY RxParts DEF EditTypes
<1>1. /\ radio = "running" /\ (due \/ want # plan.dial) /\ due' = FALSE
      /\ UNCHANGED <<world, ui, disk, cmds, want, changes, meant>>
  BY <1>a DEF Rebuild
<1>2. CASE Builds(first)
  <2> DEFINE r == Receiver(first, dial, rx.node, rx.recording)
  <2>1. /\ rx' = r /\ good' = {plan.edits} /\ plan' = [plan EXCEPT !.dial = dial]
        /\ Publish(r) /\ radio' = radio
    BY <1>a, <1>2 DEF RebuildAt
  <2>2. plan' = [dial |-> dial, edits |-> plan.edits]
    BY <1>0, <2>1
  <2>3. first \in Graphs
    BY <1>0, AssembledType
  <2> HIDE DEF first
  <2>4. r.patch = first /\ r.base = Base(dial) /\ r \in Receivers
    BY <1>0, <2>3, ReceiverIs
  <2> HIDE DEF r
  <2>5. shown' = {[patch |-> first, base |-> Base(dial)]} /\ unseen' = TRUE
    BY <2>1, <2>4 DEF Publish
  <2>0. NewDial = dial
    BY <2>2 DEF NewDial
  <2>6. RebuiltFirst
    BY <2>0, <1>0, <1>1, <1>2, <2>1, <2>2, <2>5 DEF RebuiltFirst, RebuiltAs, first, r
  <2>7. plan' \in [dial : Dials, edits : EditSet] /\ rx' \in Receivers
    BY <1>0, <2>1, <2>2, <2>4
  <2>8. EditTypes'
    BY <1>0, <1>1, <2>1, <2>5, <2>7 DEF EditTypes, One
  <2> QED  BY <1>0, <1>1, <2>6, <2>8, <2>0
<1>3. CASE ~Builds(first) /\ good # {} /\ Builds(again)
  <2> DEFINE r == Receiver(again, dial, NoNodes, FALSE)
  <2>1. /\ rx' = r /\ plan' = [dial |-> dial, edits |-> last] /\ good' = good
        /\ Publish(r) /\ radio' = radio
    BY <1>a, <1>3 DEF RebuildAt
  <2>2. last \in good
    BY <1>3
  <2>3. last \in EditSet
    BY <2>2 DEF EditTypes
  <2> HIDE DEF last
  <2>4. again \in Graphs
    BY <1>0, <2>3, AssembledType
  <2> HIDE DEF again
  <2>5. r.patch = again /\ r.base = Base(dial) /\ r \in Receivers
    <3>1. NoNodes \in Maps(Ids, Values) /\ dial \in Dials
      BY <1>0, NoNodesAre
    <3>2. PICK b \in BOOLEAN : b = FALSE
      OBVIOUS
    <3>3. r = Receiver(again, dial, NoNodes, b)
      BY <3>2
    <3> HIDE DEF r
    <3> QED  BY <2>4, <3>1, <3>3, ReceiverIs
  <2> HIDE DEF r
  <2>6. shown' = {[patch |-> again, base |-> Base(dial)]} /\ unseen' = TRUE
    BY <2>1, <2>5 DEF Publish
  <2>0. NewDial = dial
    BY <2>1 DEF NewDial
  <2>7. RebuiltAs(last, NoNodes, FALSE)
    BY <2>0, <1>0, <1>1, <1>3, <2>1, <2>3, <2>6 DEF RebuiltAs, again, r
  <2>8. RebuiltAgain
    BY <2>0, <1>3, <2>1, <2>2, <2>7 DEF RebuiltAgain
  <2>9. plan' \in [dial : Dials, edits : EditSet] /\ rx' \in Receivers
    BY <1>0, <2>1, <2>3, <2>5
  <2>10. EditTypes'
    BY <1>0, <1>1, <2>1, <2>6, <2>9 DEF EditTypes, One
  <2> QED  BY <1>0, <1>1, <2>8, <2>10, <2>0
<1>4. CASE ~Builds(first) /\ ~(good # {} /\ Builds(again))
  <2>1. /\ radio' = "stopped" /\ plan' = [plan EXCEPT !.dial = dial]
        /\ UNCHANGED <<good, rx, shown, unseen>>
    BY <1>a, <1>4 DEF RebuildAt
  <2>2. plan' = [dial |-> dial, edits |-> plan.edits]
    BY <1>0, <2>1
  <2>0. NewDial = dial
    BY <2>2 DEF NewDial
  <2>3. RebuiltNot
    BY <2>0, <1>4, <2>1, <2>2 DEF RebuiltNot
  <2>4. plan' \in [dial : Dials, edits : EditSet]
    BY <1>0, <2>2
  <2>5. EditTypes'
    BY <1>0, <1>1, <2>1, <2>4 DEF EditTypes, One
  <2> QED  BY <1>0, <1>1, <2>3, <2>5, <2>0
<1> QED  BY <1>2, <1>3, <1>4

(* What was rebuilt runs as the plan says. *)
LEMMA RebuiltAsRuns ==
  ASSUME EditTypes, NEW e, NEW pool \in Maps(Ids, Values), NEW r \in BOOLEAN,
         RebuiltAs(e, pool, r), world' = world, NewDial \in Dials
  PROVE  /\ Running'
         /\ shown' # {} /\ shown' = {[patch |-> rx'.patch, base |-> rx'.base]}
         /\ radio' = "running"
         /\ rx'.patch = Assembled(e, NewDial) /\ rx'.recording = r
         /\ plan'.edits = e /\ plan'.dial = NewDial
         /\ DOMAIN rx'.node = Fed(rx'.patch)
         /\ \A s \in Fed(rx'.patch) : rx'.node[s]
               = IF s \in Own \cap DOMAIN pool THEN pool[s] ELSE rx'.patch.at[s].set
<1> DEFINE p == Assembled(e, NewDial)
<1>1. /\ e \in EditSet /\ NewDial \in Dials /\ Builds(p)
      /\ rx' = Receiver(p, NewDial, pool, r) /\ plan' = [dial |-> NewDial, edits |-> e]
      /\ shown' = {[patch |-> p, base |-> Base(NewDial)]} /\ radio' = "running"
  BY DEF RebuiltAs, EditTypes
<1>2. Running'
  BY <1>1, BuiltRuns
<1>3. p \in Graphs
  BY <1>1, AssembledType
<1> HIDE DEF p
<1>4. rx'.patch = p /\ rx'.base = Base(NewDial) /\ rx'.recording = r
      /\ DOMAIN rx'.node = Fed(p)
      /\ \A s \in Fed(p) : rx'.node[s] = IF s \in Own \cap DOMAIN pool THEN pool[s] ELSE p.at[s].set
  BY <1>1, <1>3, ReceiverIs
<1> QED  BY <1>1, <1>2, <1>4 DEF p

(* The first half over a rebuild. *)
LEMMA RebuildCommon ==
  ASSUME Common, Rebuild
  PROVE  Common'
<1>0. EditTypes /\ rx.node \in Maps(Ids, Values) /\ rx.recording \in BOOLEAN /\ NewDial \in Dials
  BY RxParts, RebuildParts DEF Common, EditTypes
<1>1. /\ radio = "running" /\ due' = FALSE
      /\ RebuiltFirst \/ RebuiltAgain \/ RebuiltNot
      /\ UNCHANGED <<world, ui, disk, cmds, want>>
      /\ EditTypes'
  BY <1>0, RebuildParts
<1>2. CASE RebuiltFirst
  <2>1. /\ Running' /\ shown' # {} /\ shown' = {[patch |-> rx'.patch, base |-> rx'.base]}
        /\ radio' = "running" /\ rx'.recording = rx.recording /\ plan'.edits = plan.edits
    BY <1>0, <1>1, <1>2, RebuiltAsRuns DEF RebuiltFirst
  <2>2. Published' /\ Starting'
    BY <1>1, <2>1 DEF Common, Published, Starting
  <2>3. Unbroken'
    BY <1>1, <2>1, UnbrokenKept DEF Common
  <2> QED  BY <1>1, <2>1, <2>2, <2>3 DEF Common
<1>3. ASSUME "breaks" \notin world PROVE Builds(Assembled(plan.edits, NewDial))
  BY <1>0, <1>3, SoundBuilds DEF Common, Unbroken, EditTypes
<1>4. CASE RebuiltAgain
  <2>1. PICK e \in good : RebuiltAs(e, NoNodes, FALSE)
    BY <1>4 DEF RebuiltAgain
  <2>2. /\ Running' /\ shown' # {} /\ shown' = {[patch |-> rx'.patch, base |-> rx'.base]}
        /\ radio' = "running"
    BY <1>0, <1>1, <2>1, NoNodesAre, RebuiltAsRuns
  <2>3. Published' /\ Starting'
    BY <1>1, <2>2 DEF Common, Published, Starting
  <2>4. "breaks" \in world
    BY <1>3, <1>4 DEF RebuiltAgain
  <2>5. Unbroken'
    BY <1>1, <2>4 DEF Unbroken
  <2> QED  BY <1>1, <2>2, <2>3, <2>5 DEF Common
<1>5. CASE RebuiltNot
  <2>1. /\ radio' = "stopped" /\ plan' = [dial |-> NewDial, edits |-> plan.edits]
        /\ UNCHANGED <<rx, shown, unseen>>
    BY <1>5 DEF RebuiltNot
  <2>2. Published' /\ Starting'
    BY <1>1, <2>1 DEF Common, Published, Starting
  <2>3. "breaks" \in world
    BY <1>3, <1>5 DEF RebuiltNot
  <2>4. Unbroken'
    BY <1>1, <2>3 DEF Unbroken
  <2>5. Running'
    BY <1>1, <2>1 DEF Common, Running, Builds
  <2> QED  BY <1>1, <2>2, <2>4, <2>5 DEF Common
<1> QED  BY <1>1, <1>2, <1>4, <1>5

(* The first half holds when the program starts. *)
LEMMA InitCommon ==
  ASSUME EditsInit
  PROVE  Common
<1>1. /\ disk = NoEdits /\ ui = FreshUi(disk) /\ cmds = <<[op |-> "start"]>>
      /\ radio = "opening" /\ plan = [dial |-> Home, edits |-> NoEdits] /\ want = Home
      /\ due = FALSE /\ good = {} /\ rx = Receiver(EmptyPatch, Home, NoNodes, TRUE)
      /\ shown = {} /\ unseen = FALSE /\ changes = 0
  BY DEF EditsInit
<1>2. Home \in Dials /\ MaxChanges \in Nat
  BY EditsAssumption
<1>3. NoEdits \in EditSet /\ Sound(NoEdits) /\ Builds(EmptyPatch)
  BY NothingDrawn
<1>4. /\ ui \in UiStates /\ One(ui.sent) /\ ui.patch = EmptyPatch /\ ui.edits = NoEdits
      /\ ui.undo = <<>> /\ ui.redo = <<>>
  BY <1>1, <1>3, FreshUiIs
<1>5. rx \in Receivers /\ rx.patch = EmptyPatch /\ rx.recording = TRUE
  <2>1. NoNodes \in Maps(Ids, Values) /\ EmptyPatch \in Graphs
    BY NoNodesAre, EmptyAt
  <2>2. PICK b \in BOOLEAN : b = TRUE
    OBVIOUS
  <2>3. rx = Receiver(EmptyPatch, Home, NoNodes, b)
    BY <1>1, <2>2
  <2>4. rx \in Receivers /\ rx.patch = EmptyPatch /\ rx.recording = b
    BY <1>2, <2>1, <2>3, ReceiverIs
  <2> QED  BY <2>2, <2>4
<1> DEFINE c == [op |-> "start"]
<1>6. c \in Commands /\ c.op = "start" /\ cmds = <<c>>
  BY <1>1 DEF Commands
<1> HIDE DEF c
<1>7. cmds \in Seq(Commands) /\ Len(cmds) = 1 /\ cmds[1] = c /\ cmds # <<>>
  BY <1>6, OneOrTwo
<1>8. \A i \in 1 .. Len(cmds) : i = 1
  BY <1>7
<1>9. EditTypes
  <2>1. plan \in [dial : Dials, edits : EditSet] /\ disk \in EditSet
    BY <1>1, <1>2, <1>3
  <2>2. want \in Dials /\ due \in BOOLEAN /\ unseen \in BOOLEAN
        /\ radio \in {"opening", "running", "stopped", "off"}
    BY <1>1, <1>2
  <2>3. changes \in 0 .. MaxChanges
    BY <1>1, <1>2
  <2>4. good \subseteq EditSet /\ One(good)
    BY <1>1 DEF One
  <2>5. rx \in Receivers /\ ui \in UiStates /\ One(ui.sent) /\ cmds \in Seq(Commands)
    BY <1>4, <1>5, <1>7
  <2> QED  BY <2>1, <2>2, <2>3, <2>4, <2>5 DEF EditTypes
<1>10. Published /\ Starting
  BY <1>1, <1>6, <1>7, <1>8 DEF Published, Starting
<1>11. Running
  BY <1>1, <1>3, <1>5, EmptyAt DEF Running
<1>12. Unbroken
  <2>1. \A i \in 1 .. Len(cmds) : cmds[i].op # "edits"
    BY <1>6, <1>7, <1>8
  <2>2. (\A i \in 1 .. Len(ui.undo) : FALSE) /\ (\A i \in 1 .. Len(ui.redo) : FALSE)
    BY <1>4
  <2> QED  BY <1>1, <1>3, <1>4, <1>5, <2>1, <2>2 DEF Unbroken
<1> QED  BY <1>9, <1>10, <1>11, <1>12 DEF Common

(* What a step may be, for the proofs below: eight ways to draw count as one. *)
LEMMA Steps ==
  ASSUME EditsNext
  PROVE  \/ Drawing
         \/ \E s \in Ids, b \in BOOLEAN : Tweak(s, b)
         \/ \E b \in BOOLEAN : Restart(b)
         \/ \E d \in Dials : Tune(d)
         \/ LetGo \/ ConnectRadio \/ Poll \/ Flush
         \/ Open \/ OpenFails \/ TakeStart \/ TakeEdits \/ TakeCenter \/ TakeParam \/ Rebuild
<1>1. CASE Operator
  BY <1>1 DEF Operator, Drawing, Ids
<1>2. CASE Interface \/ Radio
  BY <1>2 DEF Interface, Radio
<1> QED  BY <1>1, <1>2 DEF EditsNext

(* And every step keeps it. *)
LEMMA NextCommon ==
  ASSUME Common, [EditsNext]_editVars
  PROVE  Common'
<1>1. CASE EditsNext
  <2>1. CASE Drawing
    <3>1. PICK new \in Graphs, un, re \in Seq(Graphs) : Sends(new, un, re) /\ Redraws(new, un, re)
      BY <2>1, DrawingSends DEF Common
    <3> QED  BY <3>1, SendsCommon
  <2>2. CASE \E s \in Ids, b \in BOOLEAN : Tweak(s, b)
    <3>1. PICK s \in Ids, b \in BOOLEAN : Tweak(s, b)
      BY <2>2
    <3> DEFINE c == [op |-> "param", stage |-> s,
                     value |-> IF b THEN AsDrawn ELSE changes + 1, among |-> ui.topo]
    <3>2. c \in Commands /\ Send(c) /\ EditTypes'
          /\ UNCHANGED <<world, ui, disk, radio, plan, want, due, good, rx, shown, unseen>>
      BY <3>1, TweakParts DEF Common
    <3>3. c.op \notin {"start", "edits"}
      OBVIOUS
    <3> HIDE DEF c
    <3> QED  BY <3>2, <3>3, QueuedCommon
  <2>3. CASE \E b \in BOOLEAN : Restart(b)
    BY <2>3, RestartCommon
  <2>4. CASE \E d \in Dials : Tune(d)
    <3>1. PICK d \in Dials : Tune(d)
      BY <2>4
    <3> DEFINE c == [op |-> "center", dial |-> d]
    <3>2. c \in Commands /\ Send(c) /\ EditTypes'
          /\ UNCHANGED <<world, ui, disk, radio, plan, want, due, good, rx, shown, unseen>>
      BY <3>1, TuneParts DEF Common
    <3>3. c.op \notin {"start", "edits"}
      OBVIOUS
    <3> HIDE DEF c
    <3> QED  BY <3>2, <3>3, QueuedCommon
  <2>5. CASE LetGo \/ ConnectRadio \/ Poll \/ Flush
    BY <2>5, LetGoCommon, ConnectCommon, PollCommon, FlushCommon
  <2>6. CASE Open \/ OpenFails \/ TakeStart \/ TakeEdits
    BY <2>6, OpenCommon, OpenFailsCommon, TakeStartCommon, TakeEditsCommon
  <2>7. CASE TakeCenter \/ TakeParam \/ Rebuild
    BY <2>7, TakeCenterCommon, TakeParamCommon, RebuildCommon
  <2> QED  BY <1>1, <2>1, <2>2, <2>3, <2>4, <2>5, <2>6, <2>7, Steps
<1>2. CASE editVars' = editVars
  <2>1. UNCHANGED <<world, ui, disk, cmds, radio, plan, want, due, good, rx, shown, unseen, changes>>
    BY <1>2 DEF editVars
  <2>2. EditTypes'
    BY <2>1 DEF Common, EditTypes, One
  <2>3. Published' /\ Starting'
    BY <2>1 DEF Common, Published, Starting
  <2>4. Running'
    BY <2>1, RunningKept DEF Common
  <2>5. Unbroken'
    BY <2>1, UnbrokenKept DEF Common
  <2> QED  BY <2>2, <2>3, <2>4, <2>5 DEF Common
<1> QED  BY <1>1, <1>2

-----------------------------------------------------------------------------
(***************************************************************************)
(* The second half: whose drawing is whose.  What is compared of two drawings. *)
(***************************************************************************)

(* What of a drawing is compared: the operator's own stages, and all of it    *)
(* where nothing but the operator's drawing can bring a graph back (`Alone`). *)
Mine(p)  == [s \in DOMAIN p.at \cap Own |-> p.at[s]]
MineE(e) == [s \in DOMAIN e.stages |-> [set |-> e.stages[s], from |-> FromOf(e, s)]]
Alone(w) == /\ "draws" \in w
            /\ w \cap {"full", "hasty", "reopens", "refuses", "roams", "wanders"} = {}
            /\ ~({"tweaks", "returns"} \subseteq w)
View(w, p)  == <<Mine(p), IF Alone(w) THEN <<p.at, p.off>> ELSE <<>>>>
ViewE(w, e) == <<MineE(e), IF Alone(w) THEN <<Apply(e, Base(Home)).at, Apply(e, Base(Home)).off>>
                           ELSE <<>>>>
InHome(p) == DOMAIN p.at \subseteq Own \cup InSpan[Home]

(* Where nothing else brings a graph back, no stage refuses. *)
LEMMA AloneIs ==
  /\ Alone(world) <=> "draws" \in world /\ NoEcho
  /\ Alone(world) => \A d : Refused(d) = {}
<1>1. Alone(world) <=> "draws" \in world /\ NoEcho
  BY DEF Alone, NoEcho
<1>2. Alone(world) => "refuses" \notin world
  BY DEF Alone
<1> QED  BY <1>1, <1>2 DEF Refused

(* The operator's own stages of a drawing. *)
LEMMA MineIs ==
  ASSUME NEW p \in Graphs
  PROVE  /\ DOMAIN Mine(p) = DOMAIN p.at \cap Own
         /\ \A s \in DOMAIN p.at \cap Own : Mine(p)[s] = p.at[s]
  BY DEF Mine

(* Edits drawn anywhere come to the operator's stages they hold. *)
LEMMA MineAssembled ==
  ASSUME NEW e \in EditSet, NEW d \in Dials
  PROVE  Mine(Assembled(e, d)) = MineE(e)
<1> DEFINE p == Assembled(e, d)
<1>1. p.at = [s \in DrawnBy(e, d) |-> [set |-> SetOf(e, s), from |-> FromOf(e, s)]]
  BY AssembledIs
<1>2. DrawnBy(e, d) \cap Own = DOMAIN e.stages
  <2>1. InSpan[d] \cap Own = {} /\ Refused(d) \cap Own = {}
    BY BaseAt, EditsAssumption DEF Refused
  <2> QED  BY <2>1, EditParts DEF DrawnBy
<1>3. \A s \in DOMAIN e.stages : SetOf(e, s) = e.stages[s]
  <2>1. DOMAIN e.settings \cap DOMAIN e.stages = {}
    BY EditParts, EditsAssumption
  <2> QED  BY <2>1 DEF SetOf
<1> HIDE DEF p
<1>4. DOMAIN p.at \cap Own = DOMAIN e.stages
  BY <1>1, <1>2
<1>5. \A s \in DOMAIN e.stages : p.at[s] = [set |-> e.stages[s], from |-> FromOf(e, s)]
  BY <1>1, <1>2, <1>3
<1>6. Mine(p) = MineE(e)
  BY <1>4, <1>5 DEF Mine, MineE
<1> QED  BY <1>6 DEF p

(* And read off a drawing they hold its stages of the operator's. *)
LEMMA MineDiff ==
  ASSUME NEW p \in Graphs, NEW b \in Bases
  PROVE  MineE(Diff(p, b)) = Mine(p)
<1> DEFINE e == Diff(p, b)
           mine == DOMAIN p.at \cap Own
           both == DOMAIN p.at \cap DOMAIN b.at
           wired == {t \in both : p.at[t].from # b.at[t].from} \cup {t \in mine : p.at[t].from # AsDrawn}
<1>1. e.stages = [s \in mine |-> p.at[s].set]
  BY DEF Diff
<1>2. e.links = [s \in wired |-> p.at[s].from]
  BY DEF Diff
<1>3. both \cap Own = {}
  BY BasesAreGraphs, EditsAssumption
<1>4. \A s \in mine : s \in wired <=> p.at[s].from # AsDrawn
  BY <1>3
<1>5. \A s \in mine : p.at[s] = [set |-> p.at[s].set, from |-> p.at[s].from]
  BY GraphParts
<1> HIDE DEF e, wired
<1>6. \A s \in mine : FromOf(e, s) = p.at[s].from
  BY <1>2, <1>4 DEF FromOf
<1>7. MineE(e) = [s \in mine |-> [set |-> p.at[s].set, from |-> p.at[s].from]]
  BY <1>1, <1>6 DEF MineE
<1>8. MineE(e) = Mine(p)
  BY <1>5, <1>7 DEF Mine
<1> QED  BY <1>8 DEF e

(* Drawings that look the same have the same stages of the operator's. *)
LEMMA ViewMine ==
  ASSUME NEW w, NEW p, NEW q, View(w, p) = View(w, q)
  PROVE  Mine(p) = Mine(q) /\ (Alone(w) => p.at = q.at /\ p.off = q.off)
  BY DEF View

(* So do edits and a drawing. *)
LEMMA ViewMineE ==
  ASSUME NEW w, NEW e, NEW q, ViewE(w, e) = View(w, q)
  PROVE  MineE(e) = Mine(q)
  BY DEF View, ViewE

(* Edits look like what they come to. *)
LEMMA ViewAssembled ==
  ASSUME NEW e \in EditSet, NEW d \in Dials, Alone(world) => d = Home
  PROVE  View(world, Assembled(e, d)) = ViewE(world, e)
<1>1. Mine(Assembled(e, d)) = MineE(e)
  BY MineAssembled
<1>2. CASE Alone(world)
  <2>1. "refuses" \notin world
    BY <1>2 DEF Alone
  <2> DEFINE p == Apply(e, Base(Home))
  <2>2. Assembled(e, d) = Without(p, {})
    BY <1>2, <2>1 DEF Assembled
  <2>3. DOMAIN p.at = DOMAIN e.stages \cup DOMAIN Without(Base(Home), e.removed).at
        /\ p.at = [s \in DOMAIN p.at |-> p.at[s]]
    BY DEF Apply, Patch
  <2> HIDE DEF p
  <2>4. Without(p, {}).at = p.at /\ Without(p, {}).off = p.off
    BY <2>3 DEF Without, Restrict
  <2> QED  BY <1>1, <1>2, <2>2, <2>4 DEF View, ViewE, p
<1>3. CASE ~Alone(world)
  BY <1>1, <1>3 DEF View, ViewE
<1> QED  BY <1>2, <1>3

(* A drawing looks like the edits read off it. *)
LEMMA ViewDiff ==
  ASSUME NEW p \in Graphs, NEW b \in Bases, Alone(world) => b = Base(Home) /\ InHome(p)
  PROVE  ViewE(world, Diff(p, b)) = View(world, p)
<1>1. MineE(Diff(p, b)) = Mine(p)
  BY MineDiff
<1>2. CASE Alone(world)
  <2>1. Diff(p, b) \in EditSet /\ Home \in Dials
    BY DiffType, EditsAssumption
  <2>2. Assembled(Diff(p, b), Home) = Patch(p.at, p.off)
    BY <1>2, <2>1, AloneIs, Redrawn DEF InHome
  <2>3. View(world, Assembled(Diff(p, b), Home)) = ViewE(world, Diff(p, b))
    BY <2>1, ViewAssembled
  <2>4. p.at = Assembled(Diff(p, b), Home).at /\ p.off = Assembled(Diff(p, b), Home).off
    BY <2>2 DEF Patch
  <2> QED  BY <1>1, <1>2, <2>3, <2>4 DEF View, ViewE
<1>3. CASE ~Alone(world)
  BY <1>1, <1>3 DEF View, ViewE
<1> QED  BY <1>2, <1>3

(* No edits and no base have anything of the operator's. *)
LEMMA NothingMine ==
  /\ DOMAIN Mine(EmptyPatch) = {} /\ DOMAIN MineE(NoEdits) = {}
  /\ \A b \in Bases : DOMAIN Mine(b) = {}
<1>1. \A b \in Bases : DOMAIN Mine(b) = {}
  BY BasesAreGraphs, EditsAssumption DEF Mine
<1>2. DOMAIN Mine(EmptyPatch) = {}
  BY <1>1, EmptyAt
<1>3. MineE(NoEdits) = Mine(EmptyPatch)
  BY EmptyAt, MineDiff DEF NoEdits
<1> QED  BY <1>1, <1>2, <1>3

(* The steps that leave both drawings and what was published alone. *)
Minor == \/ \E s \in Ids, b \in BOOLEAN : Tweak(s, b)
         \/ \E d \in Dials : Tune(d)
         \/ LetGo \/ OpenFails \/ TakeStart \/ TakeEdits \/ TakeCenter

(* Every step, the ways to draw and the ways to move nothing but commands as one each. *)
LEMMA Frames ==
  ASSUME Common, EditsNext
  PROVE  \/ \E new \in Graphs, un, re \in Seq(Graphs) : Sends(new, un, re) /\ Redraws(new, un, re)
         \/ Minor \/ (\E b \in BOOLEAN : Restart(b))
         \/ ConnectRadio \/ Poll \/ Flush \/ Open \/ TakeParam \/ Rebuild
<1>1. Drawing => \E new \in Graphs, un, re \in Seq(Graphs) : Sends(new, un, re) /\ Redraws(new, un, re)
  BY DrawingSends DEF Common
<1> QED  BY <1>1, Steps DEF Minor

(* What those leave as it was. *)
LEMMA MinorKeeps ==
  ASSUME Common, Minor
  PROVE  UNCHANGED <<world, ui, disk, good, rx, shown, unseen>>
<1>1. CASE (\E s \in Ids, b \in BOOLEAN : Tweak(s, b)) \/ (\E d \in Dials : Tune(d))
  BY <1>1, TweakParts, TuneParts DEF Common, Tweak, Tune
<1>2. CASE LetGo \/ OpenFails
  BY <1>2 DEF LetGo, OpenFails
<1>3. CASE TakeStart \/ TakeEdits \/ TakeCenter
  BY <1>3 DEF TakeStart, TakeEdits, TakeCenter, Take
<1> QED  BY <1>1, <1>2, <1>3 DEF Minor

(* What the interface has read: the base and the nodes of the graph that is  *)
(* running, and, where nothing is drawn, the graph.                          *)
Seen == ~unseen /\ shown # {} => ui.topo = Fed(rx.patch) /\ ui.base = rx.base
NoDrawing == "draws" \notin world =>
  /\ ui.sent = {} /\ ui.undo = <<>> /\ ui.redo = <<>>
  /\ ~unseen /\ shown # {} => ui.patch = rx.patch

(* Kept by every step. *)
LEMMA SeenStep ==
  ASSUME Common, Seen, NoDrawing, [EditsNext]_editVars
  PROVE  Seen' /\ NoDrawing'
<1>1. CASE \E new \in Graphs, un, re \in Seq(Graphs) : Sends(new, un, re) /\ Redraws(new, un, re)
  <2>1. PICK new \in Graphs, un, re \in Seq(Graphs) : Sends(new, un, re) /\ Redraws(new, un, re)
    BY <1>1
  <2>2. ui'.topo = ui.topo /\ ui'.base = ui.base /\ UNCHANGED <<world, rx, shown, unseen>>
    BY <2>1, SendsParts DEF Common
  <2>3. "draws" \in world
    BY <2>1 DEF Redraws, NoDrawing
  <2> QED  BY <2>2, <2>3 DEF Seen, NoDrawing
<1>2. CASE Minor
  BY <1>2, MinorKeeps DEF Seen, NoDrawing
<1>3. CASE \E b \in BOOLEAN : Restart(b)
  <2>1. PICK b \in BOOLEAN : Restart(b)
    BY <1>3
  <2> DEFINE saved == IF ui.dirty /\ ~b THEN ui.edits ELSE disk
  <2>2. saved \in EditSet /\ ui' = FreshUi(saved) /\ Connected(FreshUi(saved), saved)
    BY <2>1, RestartParts DEF Common
  <2> HIDE DEF saved
  <2>3. shown' = {}
    BY <2>2 DEF Connected
  <2>4. ui'.sent = {} /\ ui'.undo = <<>> /\ ui'.redo = <<>>
    BY <2>2, FreshUiIs
  <2> QED  BY <2>3, <2>4 DEF Seen, NoDrawing
<1>4. CASE ConnectRadio
  <2>1. shown' = {} /\ ui' = ui /\ world' = world
    BY <1>4 DEF ConnectRadio, Connected
  <2> QED  BY <2>1 DEF Seen, NoDrawing
<1>5. CASE Poll
  <2>1. /\ ui'.patch = IF ui.sent # {RunShown} THEN RunShown ELSE ui.patch
        /\ ui'.base = BaseShown /\ ui'.sent = ui.sent
        /\ ui'.undo = ui.undo /\ ui'.redo = ui.redo
        /\ ui'.topo = Fed(RunShown)
        /\ UNCHANGED <<world, rx, shown>>
    BY <1>5, PollParts
  <2>2. shown # {} => RunShown = rx.patch /\ BaseShown = rx.base
    BY DEF RunShown, BaseShown
  <2> QED  BY <2>1, <2>2 DEF Seen, NoDrawing
<1>6. CASE Flush
  <2>1. /\ ui'.patch = ui.patch /\ ui'.base = ui.base /\ ui'.sent = ui.sent /\ ui'.topo = ui.topo
        /\ ui'.undo = ui.undo /\ ui'.redo = ui.redo
        /\ UNCHANGED <<world, rx, shown, unseen>>
    BY <1>6, FlushParts DEF Common
  <2> QED  BY <2>1 DEF Seen, NoDrawing
<1>7. CASE Open
  <2>1. shown = {} /\ shown' = shown /\ ui' = ui /\ world' = world
    BY <1>7 DEF Open, Common, Published
  <2> QED  BY <2>1 DEF Seen, NoDrawing
<1>8. CASE TakeParam
  <2>1. unseen' = TRUE /\ ui' = ui /\ world' = world
    BY <1>8 DEF TakeParam, Take, Publish
  <2> QED  BY <2>1 DEF Seen, NoDrawing
<1>9. CASE Rebuild
  <2>1. /\ RebuiltFirst \/ RebuiltAgain \/ RebuiltNot
        /\ UNCHANGED <<world, ui>>
    BY <1>9, RebuildParts DEF Common
  <2>2. unseen' = TRUE \/ UNCHANGED <<rx, shown, unseen>>
    BY <2>1 DEF RebuiltFirst, RebuiltAgain, RebuiltNot, RebuiltAs
  <2> QED  BY <2>1, <2>2 DEF Seen, NoDrawing
<1>10. CASE editVars' = editVars
  BY <1>10 DEF editVars, Seen, NoDrawing
<1> QED  BY <1>1, <1>2, <1>3, <1>4, <1>5, <1>6, <1>7, <1>8, <1>9, <1>10, Frames

-----------------------------------------------------------------------------
(***************************************************************************)
(* Where a drawing and a set of edits come from, for any step.             *)
(***************************************************************************)

(* Every drawing and every set of edits that is about somewhere. *)
GraphsAround == {ui.patch, rx.patch} \cup ui.sent
                \cup {ui.undo[i] : i \in 1 .. Len(ui.undo)} \cup {ui.redo[i] : i \in 1 .. Len(ui.redo)}
EditsAround  == {ui.edits, disk, plan.edits} \cup good
                \cup {cmds[i].edits : i \in {j \in 1 .. Len(cmds) : cmds[j].op = "edits"}}

(* A drawing comes off the screen, out of edits, or is one that was about. *)
Comes(p) == \/ p \in GraphsAround \/ p = EmptyPatch
            \/ \E e \in EditsAround, d \in {plan.dial, want} : p = Assembled(e, d)
            \/ FromScreen(p) /\ changes' = changes + 1
            \/ \E i \in 1 .. Len(cmds) : \E t : cmds[i].op = "param" /\ p = Told(rx.patch, t, cmds[i].value)

(* They are graphs and edits. *)
LEMMA Around ==
  ASSUME EditTypes
  PROVE  GraphsAround \subseteq Graphs /\ EditsAround \subseteq EditSet
<1>1. \A i \in 1 .. Len(ui.undo) : ui.undo[i] \in Graphs
  BY UiParts
<1>2. \A i \in 1 .. Len(ui.redo) : ui.redo[i] \in Graphs
  BY UiParts
<1>3. \A i \in 1 .. Len(cmds) : cmds[i].op = "edits" => cmds[i].edits \in EditSet
  BY CommandIs DEF EditTypes
<1>4. ui.patch \in Graphs /\ rx.patch \in Graphs /\ ui.sent \subseteq Graphs /\ ui.edits \in EditSet
      /\ disk \in EditSet /\ plan.edits \in EditSet /\ good \subseteq EditSet
  BY UiParts, RxParts DEF EditTypes
<1> QED  BY <1>1, <1>2, <1>3, <1>4 DEF GraphsAround, EditsAround

(* With the same drawings on screen and the same graph, only the edits may move. *)
LEMMA SameGraphs ==
  ASSUME rx'.patch = rx.patch, ui'.patch = ui.patch, ui'.sent = ui.sent,
         ui'.undo = ui.undo, ui'.redo = ui.redo
  PROVE  GraphsAround' = GraphsAround
  BY DEF GraphsAround

(* With the same edits kept, none comes in by the queue. *)
LEMMA SameEdits ==
  ASSUME disk' = disk, ui'.edits = ui.edits, plan'.edits = plan.edits, good' = good,
         \A i \in 1 .. Len(cmds') : cmds'[i].op = "edits" => \E j \in 1 .. Len(cmds) : cmds'[i] = cmds[j]
  PROVE  EditsAround' \subseteq EditsAround
<1>1. \A i \in 1 .. Len(cmds') : cmds'[i].op = "edits" => cmds'[i].edits \in EditsAround
  BY DEF EditsAround
<1> QED  BY <1>1 DEF EditsAround

Read(e) == \/ e \in EditsAround \/ e = NoEdits
           \/ \E p \in GraphsAround', b \in Bases : e = Diff(p, b)
Queued(c) == \/ \E j \in 1 .. Len(cmds) : c = cmds[j]
             \/ changes' = changes + 1 /\ c.value <= changes'
Origins == /\ \A p \in GraphsAround' : Comes(p)
           /\ \A e \in EditsAround' : Read(e)
           /\ \A i \in 1 .. Len(cmds') : cmds'[i].op = "param" => Queued(cmds'[i])
           /\ changes' \in {changes, changes + 1}

(* A step that brings nothing new. *)
LEMMA OldOrigins ==
  ASSUME GraphsAround' \subseteq GraphsAround, EditsAround' \subseteq EditsAround,
         \A i \in 1 .. Len(cmds') : \E j \in 1 .. Len(cmds) : cmds'[i] = cmds[j],
         changes' \in {changes, changes + 1}
  PROVE  Origins
  BY DEF Origins, Comes, Read, Queued

(* A drawing sent comes off the screen or off a stack. *)
LEMMA SendsOrigins ==
  ASSUME EditTypes, NEW new \in Graphs, NEW un \in Seq(Graphs), NEW re \in Seq(Graphs),
         Sends(new, un, re), Redraws(new, un, re)
  PROVE  Origins
<1> DEFINE e == Diff(new, ui.base)
           c == [op |-> "edits", edits |-> e]
<1>1. /\ ui'.patch = new /\ ui'.sent = {new} /\ ui'.edits = e /\ ui'.undo = un /\ ui'.redo = re
      /\ disk' = e /\ c \in Commands /\ Send(c) /\ changes' = changes + 1
      /\ UNCHANGED <<plan, good, rx>> /\ ui.base \in Bases /\ cmds \in Seq(Commands)
  BY SendsParts, UiParts DEF EditTypes
<1>2. Comes(new)
  <2>1. (\A j \in 1 .. Len(ui.undo) : Comes(ui.undo[j])) /\ (\A j \in 1 .. Len(ui.redo) : Comes(ui.redo[j]))
    BY DEF Comes, GraphsAround
  <2>2. FromScreen(new) => Comes(new)
    BY <1>1 DEF Comes
  <2> QED  BY <2>1, <2>2, StacksFrom
<1>3. (\A i \in 1 .. Len(un) : Comes(un[i])) /\ (\A i \in 1 .. Len(re) : Comes(re[i]))
  <2>1. (\A j \in 1 .. Len(ui.undo) : ui.undo[j] \in GraphsAround) /\ ui.patch \in GraphsAround
        /\ (\A j \in 1 .. Len(ui.redo) : ui.redo[j] \in GraphsAround)
    BY DEF GraphsAround
  <2>2. (\A i \in 1 .. Len(un) : un[i] \in GraphsAround) /\ (\A i \in 1 .. Len(re) : re[i] \in GraphsAround)
    BY <2>1, StacksFrom
  <2> QED  BY <2>2 DEF Comes
<1>4. Comes(rx.patch)
  BY DEF Comes, GraphsAround
<1>5. \A p \in GraphsAround' : Comes(p)
  BY <1>1, <1>2, <1>3, <1>4 DEF GraphsAround
<1>6. Read(e)
  BY <1>1 DEF Read, GraphsAround
<1>7. c.op = "edits" /\ c.edits = e
  OBVIOUS
<1> HIDE DEF c
<1>8. \A i \in 1 .. Len(cmds') : cmds'[i] = c \/ \E j \in 1 .. Len(cmds) : cmds'[i] = cmds[j]
  BY <1>1, Sent
<1>9. \A i \in 1 .. Len(cmds') : cmds'[i].op = "edits" => Read(cmds'[i].edits)
  BY <1>6, <1>7, <1>8 DEF Read, EditsAround
<1>10. Read(plan.edits) /\ \A x \in good : Read(x)
  BY DEF Read, EditsAround
<1>11. \A x \in EditsAround' : Read(x)
  <2> HIDE DEF e
  <2> QED  BY <1>1, <1>6, <1>9, <1>10 DEF EditsAround
<1>12. \A i \in 1 .. Len(cmds') : cmds'[i].op = "param" => Queued(cmds'[i])
  BY <1>7, <1>8 DEF Queued
<1> QED  BY <1>1, <1>5, <1>11, <1>12 DEF Origins

(* A setting sent brings its own value. *)
LEMMA TweakOrigins ==
  ASSUME EditTypes, NEW s \in Ids, NEW b \in BOOLEAN, Tweak(s, b)
  PROVE  Origins
<1> DEFINE c == [op |-> "param", stage |-> s, value |-> IF b THEN AsDrawn ELSE changes + 1, among |-> ui.topo]
<1>1. /\ c \in Commands /\ Send(c) /\ changes' = changes + 1 /\ changes \in Nat /\ cmds \in Seq(Commands)
      /\ UNCHANGED <<ui, disk, plan, good, rx>>
  BY TweakParts, UiParts DEF EditTypes
<1>2. c.op = "param" /\ c.value <= changes + 1
  BY <1>1 DEF AsDrawn
<1> HIDE DEF c
<1>3. \A i \in 1 .. Len(cmds') : cmds'[i] = c \/ \E j \in 1 .. Len(cmds) : cmds'[i] = cmds[j]
  BY <1>1, Sent
<1>4. \A i \in 1 .. Len(cmds') : cmds'[i].op = "edits" => \E j \in 1 .. Len(cmds) : cmds'[i] = cmds[j]
  BY <1>2, <1>3
<1>5. EditsAround' \subseteq EditsAround
  BY <1>1, <1>4, SameEdits
<1>6. GraphsAround' = GraphsAround
  BY <1>1, SameGraphs
<1>7. \A i \in 1 .. Len(cmds') : Queued(cmds'[i])
  BY <1>1, <1>2, <1>3 DEF Queued
<1> QED  BY <1>1, <1>5, <1>6, <1>7 DEF Origins, Comes, Read

(* A dial sent brings nothing. *)
LEMMA TuneOrigins ==
  ASSUME EditTypes, NEW d \in Dials, Tune(d)
  PROVE  Origins
<1> DEFINE c == [op |-> "center", dial |-> d]
<1>1. /\ c \in Commands /\ Send(c) /\ changes' = changes + 1 /\ cmds \in Seq(Commands)
      /\ UNCHANGED <<ui, disk, plan, good, rx>>
  BY TuneParts DEF EditTypes
<1>2. c.op = "center"
  OBVIOUS
<1> HIDE DEF c
<1>3. \A i \in 1 .. Len(cmds') : cmds'[i] = c \/ \E j \in 1 .. Len(cmds) : cmds'[i] = cmds[j]
  BY <1>1, Sent
<1>4. \A i \in 1 .. Len(cmds') : cmds'[i].op = "edits" => \E j \in 1 .. Len(cmds) : cmds'[i] = cmds[j]
  BY <1>2, <1>3
<1>5. EditsAround' \subseteq EditsAround
  BY <1>1, <1>4, SameEdits
<1>6. GraphsAround' = GraphsAround
  BY <1>1, SameGraphs
<1>7. \A i \in 1 .. Len(cmds') : cmds'[i].op = "param" => Queued(cmds'[i])
  BY <1>2, <1>3 DEF Queued
<1> QED  BY <1>1, <1>5, <1>6, <1>7 DEF Origins, Comes, Read

(* Commands taken bring what they carry. *)
LEMMA TakesOrigins ==
  ASSUME EditTypes, TakeStart \/ TakeEdits \/ TakeCenter \/ TakeParam
  PROVE  Origins
<1>1. PICK op : Take(op)
  BY DEF TakeStart, TakeEdits, TakeCenter, TakeParam
<1>2. /\ UNCHANGED <<ui, disk, good, changes>>
      /\ \A i \in 1 .. Len(cmds') : i + 1 \in 1 .. Len(cmds) /\ cmds'[i] = cmds[i + 1]
      /\ Head(cmds) = cmds[1] /\ 1 \in 1 .. Len(cmds)
  BY <1>1, TakeParts
<1>3. \A i \in 1 .. Len(cmds') : \E j \in 1 .. Len(cmds) : cmds'[i] = cmds[j]
  BY <1>2
<1>4. CASE TakeStart \/ TakeCenter
  <2>1. UNCHANGED <<plan, rx>>
    BY <1>4 DEF TakeStart, TakeCenter
  <2> QED  BY <1>2, <1>3, <2>1, SameEdits, SameGraphs, OldOrigins
<1>5. CASE TakeEdits
  <2>1. plan'.edits = cmds[1].edits /\ rx' = rx /\ cmds[1].op = "edits"
    BY <1>2, <1>5, TakeEditsParts DEF Take
  <2>2. \A i \in 1 .. Len(cmds) : cmds[i].op = "edits" => cmds[i].edits \in EditsAround
    BY DEF EditsAround
  <2>3. plan'.edits \in EditsAround
    BY <1>2, <2>1, <2>2
  <2>4. \A i \in 1 .. Len(cmds') : cmds'[i].op = "edits" => cmds'[i].edits \in EditsAround
    BY <1>3, <2>2
  <2>5. ui.edits \in EditsAround /\ disk \in EditsAround /\ good \subseteq EditsAround
    BY DEF EditsAround
  <2>6. EditsAround' \subseteq EditsAround
    BY <1>2, <2>3, <2>4, <2>5 DEF EditsAround
  <2> QED  BY <1>2, <1>3, <2>1, <2>6, SameGraphs, OldOrigins
<1>6. CASE TakeParam
  <2>1. cmds[1].op = "param"
    BY <1>2, <1>6 DEF TakeParam, Take
  <2>2. PICK t : /\ rx'.patch = Told(rx.patch, t, cmds[1].value)
                 /\ plan'.edits = Diff(rx'.patch, rx.base)
    <3>1. PICK t, n : LET r == [rx EXCEPT !.node = n, !.patch = Told(@, t, Head(cmds).value)]
                      IN  rx' = r /\ plan' = [plan EXCEPT !.edits = EditsOf(r)]
      BY <1>6 DEF TakeParam
    <3> DEFINE q == Told(rx.patch, t, Head(cmds).value)
    <3>2. rx' = [patch |-> q, base |-> rx.base, node |-> n, recording |-> rx.recording]
      BY <3>1, RxParts, ReceiverTold
    <3>3. plan' = [dial |-> plan.dial, edits |-> Diff(rx'.patch, rx'.base)]
      BY <3>1, RxParts DEF EditsOf
    <3> HIDE DEF q
    <3>4. rx'.patch = q /\ rx'.base = rx.base
      BY <3>2
    <3> QED  BY <1>2, <3>3, <3>4 DEF q
  <2>3. \A p \in GraphsAround' : Comes(p)
    BY <1>2, <2>1, <2>2 DEF GraphsAround, Comes
  <2>4. Read(plan'.edits)
    <3>1. rx'.patch \in GraphsAround' /\ rx.base \in Bases
      BY RxParts DEF GraphsAround
    <3> QED  BY <2>2, <3>1 DEF Read
  <2>5. \A e \in EditsAround' : Read(e)
    <3>1. \A e \in EditsAround : Read(e)
      BY DEF Read
    <3>2. \A i \in 1 .. Len(cmds') : cmds'[i].op = "edits" => cmds'[i].edits \in EditsAround
      BY <1>3 DEF EditsAround
    <3> QED  BY <1>2, <2>4, <3>1, <3>2 DEF EditsAround
  <2> QED  BY <1>2, <1>3, <2>3, <2>5 DEF Origins, Queued
<1> QED  BY <1>4, <1>5, <1>6

(* A session begins with what was on disk or on screen. *)
LEMMA ConnectedOrigins ==
  ASSUME EditTypes, NEW u, NEW saved, u.edits \in EditSet, u.seen \in BOOLEAN, Connected(u, saved),
         u.edits \in EditsAround, disk' \in EditsAround, ui'.edits \in EditsAround,
         \A p \in GraphsAround' : p \in GraphsAround \/ p = EmptyPatch,
         changes' \in {changes, changes + 1}
  PROVE  Origins
<1>1. /\ good' = {} /\ plan' = plan
      /\ \A i \in 1 .. Len(cmds') :
            \/ i = 1 /\ cmds'[i].op = "start"
            \/ cmds'[i].op = "edits" /\ cmds'[i].edits = u.edits
  BY ConnectedParts
<1>2. \A i \in 1 .. Len(cmds') : cmds'[i].op = "edits" => cmds'[i].edits \in EditsAround
  BY <1>1
<1>3. plan.edits \in EditsAround
  BY DEF EditsAround
<1>4. EditsAround' \subseteq EditsAround
  BY <1>1, <1>2, <1>3 DEF EditsAround
<1>5. \A i \in 1 .. Len(cmds') : cmds'[i].op # "param"
  BY <1>1
<1> QED  BY <1>4, <1>5 DEF Origins, Comes, Read

(* So for each of the steps that begin or end one. *)
LEMMA SessionOrigins ==
  ASSUME EditTypes, ConnectRadio \/ (\E b \in BOOLEAN : Restart(b)) \/ LetGo \/ OpenFails
  PROVE  Origins
<1>0. ui.edits \in EditsAround /\ disk \in EditsAround
  BY DEF EditsAround
<1>1. CASE ConnectRadio
  <2>1. Connected(ui, disk) /\ UNCHANGED <<ui, disk, changes>>
    BY <1>1 DEF ConnectRadio
  <2>2. rx' = rx
    BY <2>1 DEF Connected
  <2>3. GraphsAround' = GraphsAround
    BY <2>1, <2>2, SameGraphs
  <2> QED  BY <1>0, <2>1, <2>3, UiParts, ConnectedOrigins
<1>2. CASE \E b \in BOOLEAN : Restart(b)
  <2>1. PICK b \in BOOLEAN : Restart(b)
    BY <1>2
  <2> DEFINE saved == IF ui.dirty /\ ~b THEN ui.edits ELSE disk
             u == FreshUi(saved)
  <2>2. /\ saved \in EditSet /\ ui' = u /\ disk' = saved /\ Connected(u, saved)
        /\ changes' = changes + 1
    BY <2>1, RestartParts
  <2>3. saved \in EditsAround
    BY <1>0
  <2> HIDE DEF saved
  <2>4. /\ u.patch = EmptyPatch /\ u.sent = {} /\ u.edits = saved
        /\ u.undo = <<>> /\ u.redo = <<>> /\ u.seen = FALSE
    BY <2>2, FreshUiIs
  <2> HIDE DEF u
  <2>5. rx' = rx
    BY <2>2 DEF Connected
  <2>6. \A p \in GraphsAround' : p = rx.patch \/ p = EmptyPatch
    <3>1. Len(ui'.undo) = 0 /\ Len(ui'.redo) = 0
      BY <2>2, <2>4
    <3> QED  BY <2>2, <2>4, <2>5, <3>1 DEF GraphsAround
  <2>7. rx.patch \in GraphsAround
    BY DEF GraphsAround
  <2> QED  BY <2>2, <2>3, <2>4, <2>6, <2>7, ConnectedOrigins
<1>3. CASE LetGo
  <2>1. cmds' = <<>> /\ changes' = changes + 1 /\ UNCHANGED <<ui, disk, plan, good, rx>>
    BY <1>3 DEF LetGo
  <2>2. \A i \in 1 .. Len(cmds') : FALSE
    BY <2>1
  <2> QED  BY <2>1, <2>2, SameEdits, SameGraphs, OldOrigins
<1>4. CASE OpenFails
  <2>1. UNCHANGED <<cmds, changes, ui, disk, plan, good, rx>>
    BY <1>4 DEF OpenFails
  <2>2. \A i \in 1 .. Len(cmds') : cmds'[i] = cmds[i]
    BY <2>1
  <2> QED  BY <2>1, <2>2, SameEdits, SameGraphs, OldOrigins
<1> QED  BY <1>1, <1>2, <1>3, <1>4

(* What the interface reads comes off the status. *)
LEMMA InterfaceOrigins ==
  ASSUME Common, Poll \/ Flush
  PROVE  Origins
<1>0. EditTypes
  BY DEF Common
<1>1. CASE Poll
  <2>1. /\ ui'.patch = RunShown \/ ui'.patch = ui.patch
        /\ ui'.sent = ui.sent /\ ui'.undo = ui.undo /\ ui'.redo = ui.redo
        /\ ui'.edits = Diff(ui'.patch, BaseShown) \/ ui'.edits = ui.edits
        /\ UNCHANGED <<disk, cmds, plan, good, rx, changes>>
    BY <1>1, PollParts
  <2>2. RunShown = EmptyPatch \/ RunShown = rx.patch
    BY DEF RunShown
  <2>3. \A p \in GraphsAround' : Comes(p)
    BY <2>1, <2>2 DEF GraphsAround, Comes
  <2>4. ui'.patch \in GraphsAround'
    BY DEF GraphsAround
  <2>5. Read(ui'.edits)
    BY <2>1, <2>4, ShownIs DEF Read, EditsAround
  <2>6. \A i \in 1 .. Len(cmds') : cmds'[i] = cmds[i] /\ i \in 1 .. Len(cmds)
    BY <2>1
  <2>7. \A e \in EditsAround' : Read(e)
    <3>1. \A e \in EditsAround : Read(e)
      BY DEF Read
    <3>2. \A i \in 1 .. Len(cmds') : cmds'[i].op = "edits" => cmds'[i].edits \in EditsAround
      BY <2>6 DEF EditsAround
    <3> QED  BY <2>1, <2>5, <3>1, <3>2 DEF EditsAround
  <2> QED  BY <2>1, <2>3, <2>6, <2>7 DEF Origins, Queued
<1>2. CASE Flush
  <2>1. /\ disk' = ui.edits /\ ui'.patch = ui.patch /\ ui'.sent = ui.sent /\ ui'.edits = ui.edits
        /\ ui'.undo = ui.undo /\ ui'.redo = ui.redo
        /\ UNCHANGED <<cmds, plan, good, rx, changes>>
    BY <1>0, <1>2, FlushParts
  <2>2. EditsAround' \subseteq EditsAround
    BY <2>1 DEF EditsAround
  <2>3. \A i \in 1 .. Len(cmds') : cmds'[i] = cmds[i]
    BY <2>1
  <2>4. GraphsAround' = GraphsAround
    BY <2>1, SameGraphs
  <2> QED  BY <2>1, <2>2, <2>3, <2>4, OldOrigins
<1> QED  BY <1>1, <1>2

(* What is built comes out of edits. *)
LEMMA BuildOrigins ==
  ASSUME Common, Open \/ Rebuild
  PROVE  Origins
<1>0. EditTypes /\ plan.dial \in Dials /\ want \in Dials
  BY RxParts DEF Common, EditTypes
<1>1. disk \in EditsAround /\ plan.edits \in EditsAround /\ good \subseteq EditsAround
  BY DEF EditsAround
<1>2. ASSUME UNCHANGED <<ui, disk, cmds, changes>>, plan'.edits \in EditsAround, good' \subseteq EditsAround,
             rx' = rx \/ \E e \in EditsAround, d \in {plan.dial, want} : rx'.patch = Assembled(e, d)
      PROVE  Origins
  <2>1. \A i \in 1 .. Len(cmds') : cmds'[i] = cmds[i] /\ i \in 1 .. Len(cmds)
    BY <1>2
  <2>2. \A i \in 1 .. Len(cmds') : cmds'[i].op = "edits" => cmds'[i].edits \in EditsAround
    BY <2>1 DEF EditsAround
  <2>3. ui.edits \in EditsAround
    BY DEF EditsAround
  <2>4. EditsAround' \subseteq EditsAround
    BY <1>1, <1>2, <2>2, <2>3 DEF EditsAround
  <2>5. Comes(rx'.patch)
    BY <1>2 DEF Comes, GraphsAround
  <2>6. \A p \in GraphsAround' : p = rx'.patch \/ p \in GraphsAround
    BY <1>2 DEF GraphsAround
  <2> QED  BY <1>2, <2>1, <2>4, <2>5, <2>6 DEF Origins, Comes, Read, Queued
<1>3. CASE Open
  <2>1. UNCHANGED <<ui, disk, cmds, changes, good>> /\ plan'.edits = disk
    BY <1>0, <1>3, OpenParts
  <2>2. rx' = rx \/ rx'.patch = Assembled(disk, plan.dial)
    BY <1>3 DEF Open, Receiver
  <2> QED  BY <1>0, <1>1, <1>2, <2>1, <2>2
<1>4. CASE Rebuild
  <2>1. /\ RebuiltFirst \/ RebuiltAgain \/ RebuiltNot
        /\ UNCHANGED <<ui, disk, cmds, changes>> /\ NewDial \in {plan.dial, want}
    BY <1>0, <1>4, RebuildParts
  <2>2. \A e, pool, r : RebuiltAs(e, pool, r) => plan'.edits = e /\ rx'.patch = Assembled(e, NewDial)
    BY DEF RebuiltAs, Receiver
  <2>3. CASE RebuiltFirst
    BY <1>0, <1>1, <1>2, <2>1, <2>2, <2>3 DEF RebuiltFirst
  <2>4. CASE RebuiltAgain
    BY <1>0, <1>1, <1>2, <2>1, <2>2, <2>4 DEF RebuiltAgain
  <2>5. CASE RebuiltNot
    BY <1>1, <1>2, <2>1, <2>5 DEF RebuiltNot
  <2> QED  BY <2>1, <2>3, <2>4, <2>5
<1> QED  BY <1>3, <1>4

(* Any step. *)
LEMMA StepOrigins ==
  ASSUME Common, [EditsNext]_editVars
  PROVE  Origins
<1>0. EditTypes
  BY DEF Common
<1>1. CASE \E new \in Graphs, un, re \in Seq(Graphs) : Sends(new, un, re) /\ Redraws(new, un, re)
  BY <1>0, <1>1, SendsOrigins
<1>2. CASE Minor
  BY <1>0, <1>2, TweakOrigins, TuneOrigins, TakesOrigins, SessionOrigins DEF Minor
<1>3. CASE (\E b \in BOOLEAN : Restart(b)) \/ ConnectRadio
  BY <1>0, <1>3, SessionOrigins
<1>4. CASE Poll \/ Flush \/ Open \/ Rebuild
  BY <1>4, InterfaceOrigins, BuildOrigins
<1>5. CASE TakeParam
  BY <1>0, <1>5, TakesOrigins
<1>6. CASE editVars' = editVars
  <2>1. UNCHANGED <<ui, disk, cmds, plan, good, rx, changes>>
    BY <1>6 DEF editVars
  <2>2. \A i \in 1 .. Len(cmds') : cmds'[i] = cmds[i]
    BY <2>1
  <2> QED  BY <2>1, <2>2, SameEdits, SameGraphs, OldOrigins
<1> QED  BY <1>1, <1>2, <1>3, <1>4, <1>5, <1>6, Frames

(* No setting is further than the operator's changes have come. *)
Below(p, n)  == \A s \in DOMAIN p.at : p.at[s].set <= n
BelowE(e, n) == /\ \A s \in DOMAIN e.stages : e.stages[s] <= n
                /\ \A s \in DOMAIN e.settings : e.settings[s] <= n
Bounded ==
  /\ \A p \in GraphsAround : Below(p, changes)
  /\ \A e \in EditsAround : BelowE(e, changes)
  /\ \A i \in 1 .. Len(cmds) : cmds[i].op = "param" => cmds[i].value <= changes

(* A later count of changes is no less. *)
LEMMA BelowMore ==
  ASSUME NEW n \in Nat, NEW m \in Nat, n <= m
  PROVE  /\ \A p \in Graphs : Below(p, n) => Below(p, m)
         /\ \A e \in EditSet : BelowE(e, n) => BelowE(e, m)
<1>0. \A v \in Values : v \in Nat
  BY EditsAssumption DEF Values, Broken
<1>1. ASSUME NEW p \in Graphs, Below(p, n) PROVE Below(p, m)
  <2>1. \A s \in DOMAIN p.at : p.at[s].set \in Nat /\ p.at[s].set <= n
    BY <1>0, <1>1, GraphParts DEF Below
  <2>2. \A s \in DOMAIN p.at : p.at[s].set <= m
    <3> TAKE s \in DOMAIN p.at
    <3> DEFINE v == p.at[s].set
    <3>1. v \in Nat /\ v <= n
      BY <2>1
    <3> HIDE DEF v
    <3>2. v <= m
      BY <3>1
    <3> QED  BY <3>2 DEF v
  <2> QED  BY <2>2 DEF Below
<1>2. ASSUME NEW e \in EditSet, BelowE(e, n) PROVE BelowE(e, m)
  BY <1>0, <1>2, EditParts DEF BelowE
<1> QED  BY <1>1, <1>2

(* What is read off a drawing holds its settings. *)
LEMMA BelowDiff ==
  ASSUME NEW n, NEW p \in Graphs, NEW b \in Bases, Below(p, n)
  PROVE  BelowE(Diff(p, b), n)
  BY DEF Diff, BelowE, Below

(* What edits come to holds theirs. *)
LEMMA BelowAssembled ==
  ASSUME NEW n \in Nat, NEW e \in EditSet, NEW d \in Dials, BelowE(e, n)
  PROVE  Below(Assembled(e, d), n)
<1>1. \A s : SetOf(e, s) <= n
  BY DEF SetOf, BelowE, AsDrawn
<1>2. \A s \in DOMAIN Assembled(e, d).at : Assembled(e, d).at[s].set = SetOf(e, s)
  BY AssembledType
<1> QED  BY <1>1, <1>2 DEF Below

(* A setting written in holds its own. *)
LEMMA BelowTold ==
  ASSUME NEW n, NEW p \in Graphs, NEW t, NEW v \in Values, v <= n, Below(p, n)
  PROVE  Below(Told(p, t, v), n)
  BY ToldIs DEF Below

(* Nothing holds none. *)
LEMMA BelowNothing ==
  ASSUME NEW n \in Nat
  PROVE  Below(EmptyPatch, n) /\ BelowE(NoEdits, n)
<1>1. Below(EmptyPatch, n)
  BY EmptyAt DEF Below
<1> QED  BY <1>1, EmptyAt, BelowDiff DEF NoEdits

(* No setting is later than the changes made so far. *)
LEMMA BoundedStep ==
  ASSUME Common, Bounded, [EditsNext]_editVars
  PROVE  Bounded'
<1>0. /\ Origins /\ changes \in Nat /\ changes' \in Nat /\ changes <= changes'
      /\ GraphsAround \subseteq Graphs /\ EditsAround \subseteq EditSet
      /\ ui.patch \in GraphsAround /\ rx.patch \in GraphsAround /\ rx.patch \in Graphs
      /\ cmds \in Seq(Commands)
  <2>1. EditTypes
    BY DEF Common
  <2>2. Origins /\ changes' \in {changes, changes + 1}
    BY StepOrigins DEF Origins
  <2>3. ui.patch \in GraphsAround /\ rx.patch \in GraphsAround
    BY DEF GraphsAround
  <2> QED  BY <2>1, <2>2, <2>3, UiParts, RxParts, Around DEF EditTypes
<1>1. (EditTypes)'
  BY NextCommon DEF Common
<1>2. GraphsAround' \subseteq Graphs /\ EditsAround' \subseteq EditSet
  <2>1. /\ \A i \in 1 .. Len(ui'.undo) : ui'.undo[i] \in Graphs
        /\ \A i \in 1 .. Len(ui'.redo) : ui'.redo[i] \in Graphs
    BY <1>1 DEF EditTypes, UiStates
  <2>2. \A i \in 1 .. Len(cmds') : cmds'[i].op = "edits" => cmds'[i].edits \in EditSet
    BY <1>1, CommandIs DEF EditTypes
  <2>3. ui'.patch \in Graphs /\ rx'.patch \in Graphs /\ ui'.sent \subseteq Graphs
        /\ ui'.edits \in EditSet /\ disk' \in EditSet /\ plan'.edits \in EditSet /\ good' \subseteq EditSet
    BY <1>1 DEF EditTypes, UiStates, Receivers
  <2> QED  BY <2>1, <2>2, <2>3 DEF GraphsAround, EditsAround
<1>3. ASSUME NEW p \in GraphsAround' PROVE Below(p, changes')
  <2>0. p \in Graphs /\ Comes(p)
    BY <1>0, <1>2, <1>3 DEF Origins
  <2>1. CASE p \in GraphsAround
    BY <1>0, <2>0, <2>1, BelowMore DEF Bounded
  <2>2. CASE p = EmptyPatch
    BY <1>0, <2>2, BelowNothing
  <2>3. CASE \E e \in EditsAround, d \in {plan.dial, want} : p = Assembled(e, d)
    <3>1. PICK e \in EditsAround, d \in {plan.dial, want} : p = Assembled(e, d)
      BY <2>3
    <3>2. BelowE(e, changes')
      BY <1>0, <3>1, BelowMore DEF Bounded
    <3>3. d \in Dials
      BY <3>1, RxParts DEF Common, EditTypes
    <3> QED  BY <1>0, <3>1, <3>2, <3>3, BelowAssembled
  <2>4. CASE FromScreen(p) /\ changes' = changes + 1
    <3>1. Below(ui.patch, changes')
      BY <1>0, BelowMore DEF Bounded
    <3>2. \A s \in DOMAIN p.at : \/ p.at[s].set \in {AsDrawn, changes + 1}
                                 \/ s \in DOMAIN ui.patch.at /\ p.at[s].set = ui.patch.at[s].set
      BY <2>4 DEF FromScreen
    <3> QED  BY <1>0, <2>4, <3>1, <3>2 DEF Below, AsDrawn
  <2>5. CASE \E i \in 1 .. Len(cmds) : \E t : cmds[i].op = "param" /\ p = Told(rx.patch, t, cmds[i].value)
    <3>0. PICK i \in 1 .. Len(cmds) : \E t : cmds[i].op = "param" /\ p = Told(rx.patch, t, cmds[i].value)
      BY <2>5
    <3>1. PICK t : cmds[i].op = "param" /\ p = Told(rx.patch, t, cmds[i].value)
      BY <3>0
    <3> DEFINE v == cmds[i].value
    <3>2. v \in 0 .. MaxChanges /\ v <= changes
      BY <1>0, <3>1, CommandIs DEF Bounded
    <3>3. v \in Values /\ v <= changes' /\ Below(rx.patch, changes')
      BY <1>0, <3>2, BelowMore, EditsAssumption DEF Bounded, Values, Broken
    <3> HIDE DEF v
    <3>4. Below(Told(rx.patch, t, v), changes')
      BY <1>0, <3>3, BelowTold
    <3> QED  BY <3>1, <3>4 DEF v
  <2> QED  BY <2>0, <2>1, <2>2, <2>3, <2>4, <2>5 DEF Comes
<1>4. ASSUME NEW e \in EditsAround' PROVE BelowE(e, changes')
  <2>0. Read(e)
    BY <1>0, <1>4 DEF Origins
  <2>1. CASE e \in EditsAround
    BY <1>0, <2>1, BelowMore DEF Bounded
  <2>2. CASE e = NoEdits
    BY <1>0, <2>2, BelowNothing
  <2>3. CASE \E p \in GraphsAround', b \in Bases : e = Diff(p, b)
    BY <1>2, <1>3, <2>3, BelowDiff
  <2> QED  BY <2>0, <2>1, <2>2, <2>3 DEF Read
<1>5. ASSUME NEW i \in 1 .. Len(cmds'), cmds'[i].op = "param" PROVE cmds'[i].value <= changes'
  <2>1. Queued(cmds'[i])
    BY <1>0, <1>5 DEF Origins
  <2>2. CASE \E j \in 1 .. Len(cmds) : cmds'[i] = cmds[j]
    <3>1. PICK j \in 1 .. Len(cmds) : cmds'[i] = cmds[j]
      BY <2>2
    <3>2. cmds[j].value \in 0 .. MaxChanges /\ cmds[j].value <= changes
      BY <1>0, <1>5, <3>1, CommandIs DEF Bounded
    <3> QED  BY <1>0, <3>1, <3>2, EditsAssumption
  <2> QED  BY <2>1, <2>2 DEF Queued
<1> QED  BY <1>3, <1>4, <1>5 DEF Bounded

Calm  == world \cap {"hasty", "full"} = {}
Quiet == radio = "running" /\ shown # {} /\ ~due /\ want = plan.dial /\ ~unseen

(* Where each change is looked at before the next, an edit or a setting stands   *)
(* alone at the head of the queue, behind the start of a session at most; and    *)
(* until a setting is taken the receiver is the one it was chosen from.          *)
Placed(q) ==
  /\ \A i \in 1 .. Len(q) : q[i].op = "edits" => i = 1 \/ (i = 2 /\ q[1].op = "start")
  /\ \A i \in 1 .. Len(q) : q[i].op = "center" => world \cap {"roams", "wanders"} # {}
Chosen(c) ==
  /\ "tweaks" \in world /\ Quiet
  /\ c.among = DOMAIN rx.node /\ c.stage \in DOMAIN rx.node
  /\ c.stage \in Own \/ Alone(world) =>
       \A p \in ui.sent : \A s \in DOMAIN p.at : p.at[s].set < c.value
InOrder == Calm =>
  /\ Placed(cmds)
  /\ \A i \in 1 .. Len(cmds) : cmds[i].op = "param" => i = 1 /\ Chosen(cmds[i])
  /\ "reopens" \notin world => radio # "off"

(* At rest nothing is queued and what runs has been looked at. *)
LEMMA RestIs ==
  ASSUME Common, AtRest
  PROVE  Quiet /\ cmds = <<>>
  BY DEF AtRest, Quiet, Common, Starting

(* A queue that only gets shorter from its end stays in order. *)
LEMMA QueueKept ==
  ASSUME InOrder, world' = world, radio' # "off",
         \A i \in 1 .. Len(cmds') : i \in 1 .. Len(cmds) /\ cmds'[i] = cmds[i],
         Calm => \A i \in 1 .. Len(cmds) : cmds[i].op # "param"
  PROVE  InOrder'
<1>1. Placed(cmds) => Placed(cmds)'
  BY DEF Placed
<1> QED  BY <1>1 DEF InOrder, Calm

(* So does one that stays as it is. *)
LEMMA SameQueue ==
  ASSUME InOrder, UNCHANGED <<world, cmds, radio, shown, due, want, plan, unseen, rx>>, ui'.sent = ui.sent
  PROVE  InOrder'
<1>1. Placed(cmds)' = Placed(cmds)
  BY DEF Placed
<1>2. \A c : Chosen(c) => Chosen(c)'
  BY DEF Chosen, Quiet
<1> QED  BY <1>1, <1>2 DEF InOrder, Calm

(* An operator who is not hasty sends to an empty queue. *)
LEMMA SendsOrder ==
  ASSUME Common, InOrder, NEW new \in Graphs, NEW un \in Seq(Graphs), NEW re \in Seq(Graphs),
         Sends(new, un, re)
  PROVE  InOrder'
<1> DEFINE c == [op |-> "edits", edits |-> Diff(new, ui.base)]
<1>1. /\ c \in Commands /\ Send(c) /\ cmds \in Seq(Commands) /\ world' = world /\ radio' = radio
      /\ MayChange
  BY SendsParts DEF Common, EditTypes, Sends
<1>2. c.op = "edits"
  OBVIOUS
<1> HIDE DEF c
<1>3. CASE ~Calm
  BY <1>1, <1>3 DEF InOrder, Calm
<1>4. CASE Calm /\ AtRest
  <2>1. cmds = <<>> /\ radio = "running" /\ Len(cmds) = 0
    BY <1>4, RestIs DEF Quiet
  <2>2. \A i \in 1 .. Len(cmds') : i = 1 /\ cmds'[i] = c
    BY <1>1, <2>1, Sent
  <2>3. Placed(cmds)'
    BY <1>2, <2>2 DEF Placed
  <2> QED  BY <1>1, <1>2, <2>1, <2>2, <2>3 DEF InOrder
<1>5. CASE Calm /\ radio = "off"
  <2>1. \A i \in 1 .. Len(cmds) : cmds[i].op # "param"
    BY <1>5 DEF InOrder, Chosen, Quiet
  <2>2. cmds' = cmds
    BY <1>5 DEF Sends, Send, Calm
  <2>3. \A i \in 1 .. Len(cmds') : cmds'[i] = cmds[i] /\ i \in 1 .. Len(cmds)
    BY <2>2
  <2>4. Placed(cmds)'
    BY <1>1, <1>5, <2>2 DEF InOrder, Placed
  <2> QED  BY <1>1, <1>5, <2>1, <2>3, <2>4 DEF InOrder
<1> QED  BY <1>1, <1>3, <1>4, <1>5 DEF MayChange, Calm

(* A setting is sent where it was chosen, later than any in the drawing sent before. *)
LEMMA TweakOrder ==
  ASSUME Common, InOrder, Seen, Bounded, NEW s \in Ids, NEW b \in BOOLEAN, Tweak(s, b)
  PROVE  InOrder'
<1> DEFINE v == IF b THEN AsDrawn ELSE changes + 1
           m == [op |-> "param", stage |-> s, value |-> v, among |-> ui.topo]
<1>1. /\ m \in Commands /\ Send(m) /\ cmds \in Seq(Commands) /\ MayChange
      /\ "tweaks" \in world /\ radio = "running" /\ s \in ui.topo
      /\ (b => "returns" \in world /\ s \in Front)
      /\ UNCHANGED <<world, ui, disk, radio, plan, want, due, good, rx, shown, unseen>>
  BY TweakParts DEF Common, EditTypes
<1>2. PICK c \in Commands : /\ Send(c) /\ c.op = "param" /\ c.stage = s /\ c.value = v
                           /\ c.among = ui.topo
  <2>1. m.op = "param" /\ m.stage = s /\ m.value = v /\ m.among = ui.topo
    OBVIOUS
  <2> HIDE DEF m
  <2> QED  BY <1>1, <2>1
<1> HIDE DEF m
<1>3. CASE ~Calm
  BY <1>1, <1>3 DEF InOrder, Calm
<1>4. CASE Calm
  <2>1. Quiet /\ cmds = <<>> /\ Len(cmds) = 0
    BY <1>1, <1>4, RestIs DEF MayChange, Calm
  <2>2. \A i \in 1 .. Len(cmds') : i = 1 /\ cmds'[i] = c
    BY <1>1, <1>2, <2>1, Sent
  <2>3. ui.topo = DOMAIN rx.node
    BY <2>1 DEF Seen, Quiet, Common, Running
  <2>4. ASSUME s \in Own \/ Alone(world), NEW p \in ui.sent, NEW t \in DOMAIN p.at
        PROVE  p.at[t].set < v
    <3>1. p \in Graphs /\ Below(p, changes) /\ changes \in Nat
      BY <2>4, UiParts DEF Common, Bounded, GraphsAround
    <3>2. ~b
      BY <1>1, <2>4, EditsAssumption DEF Alone
    <3>3. p.at[t].set \in Nat /\ p.at[t].set <= changes
      <4>1. Values \subseteq Nat
        BY EditsAssumption DEF Values, Broken
      <4>2. p.at[t].set \in Values
        BY <2>4, <3>1, GraphParts
      <4> QED  BY <2>4, <3>1, <4>1, <4>2 DEF Below
    <3> QED  BY <3>1, <3>2, <3>3
  <2> HIDE DEF v
  <2>5. Chosen(c)
    BY <1>1, <1>2, <2>1, <2>3, <2>4 DEF Chosen
  <2>6. \A x : x = c => Chosen(x)'
    BY <1>1, <2>5 DEF Chosen, Quiet
  <2>7. Placed(cmds)'
    BY <1>2, <2>2 DEF Placed
  <2> QED  BY <1>1, <1>4, <2>2, <2>6, <2>7 DEF InOrder, Calm
<1> QED  BY <1>3, <1>4

(* A dial is sent only where it is moved. *)
LEMMA TuneOrder ==
  ASSUME Common, InOrder, NEW d \in Dials, Tune(d)
  PROVE  InOrder'
<1> DEFINE c == [op |-> "center", dial |-> d]
<1>1. /\ c \in Commands /\ Send(c) /\ cmds \in Seq(Commands) /\ world \cap {"roams", "wanders"} # {}
      /\ UNCHANGED <<world, ui, disk, radio, plan, want, due, good, rx, shown, unseen>>
  BY TuneParts DEF Common, EditTypes
<1>2. c.op = "center"
  OBVIOUS
<1> HIDE DEF c
<1>3. CASE ~Calm
  BY <1>1, <1>3 DEF InOrder, Calm
<1>4. CASE Calm
  <2>1. \A i \in 1 .. Len(cmds') : cmds'[i] = c \/ (i \in 1 .. Len(cmds) /\ cmds'[i] = cmds[i])
    BY <1>1, Sent
  <2>2. \A i \in 1 .. Len(cmds) : cmds'[1] = cmds[1]
    BY <1>1, Sent
  <2>3. Placed(cmds)'
    BY <1>1, <1>2, <1>4, <2>1, <2>2 DEF InOrder, Placed
  <2>4. \A x : Chosen(x) => Chosen(x)'
    BY <1>1 DEF Chosen, Quiet
  <2> QED  BY <1>1, <1>2, <1>4, <2>1, <2>3, <2>4 DEF InOrder, Calm
<1> QED  BY <1>3, <1>4

(* Taking the head leaves no setting behind. *)
LEMMA TakeOrder ==
  ASSUME Common, InOrder, NEW op, Take(op)
  PROVE  InOrder'
<1>1. /\ UNCHANGED <<world, radio>>
      /\ \A i \in 1 .. Len(cmds') : i + 1 \in 1 .. Len(cmds) /\ cmds'[i] = cmds[i + 1]
      /\ Len(cmds) \in Nat /\ Len(cmds) = Len(cmds') + 1
  BY TakeParts DEF Common
<1>2. CASE ~Calm
  BY <1>1, <1>2 DEF InOrder, Calm
<1>3. CASE Calm
  <2>1. \A i \in 1 .. Len(cmds') : i \in Nat /\ i >= 1 /\ cmds'[i].op # "param"
                                   /\ (cmds'[i].op = "edits" => i = 1)
    BY <1>1, <1>3 DEF InOrder, Placed
  <2>2. \A i \in 1 .. Len(cmds') : cmds'[i].op = "center" => world \cap {"roams", "wanders"} # {}
    BY <1>1, <1>3 DEF InOrder, Placed
  <2>3. Placed(cmds)'
    BY <1>1, <2>1, <2>2 DEF Placed
  <2> QED  BY <1>1, <1>3, <2>1, <2>3 DEF InOrder, Calm
<1> QED  BY <1>2, <1>3

(* A session begins in order. *)
LEMMA ConnectedOrder ==
  ASSUME EditTypes, NEW u, NEW saved, u.edits \in EditSet, u.seen \in BOOLEAN, Connected(u, saved)
  PROVE  InOrder'
<1>1. /\ radio' = "opening" /\ 1 \in 1 .. Len(cmds') /\ cmds'[1].op = "start"
      /\ \A i \in 1 .. Len(cmds') : i = 1 \/ (i = 2 /\ cmds'[i].op = "edits")
  BY ConnectedParts
<1>2. Placed(cmds)'
  BY <1>1 DEF Placed
<1>3. \A i \in 1 .. Len(cmds') : cmds'[i].op # "param"
  BY <1>1
<1> QED  BY <1>1, <1>2, <1>3 DEF InOrder

(* Any step keeps the queue in order. *)
LEMMA OrderStep ==
  ASSUME Common, InOrder, Seen, Bounded, [EditsNext]_editVars
  PROVE  InOrder'
<1>0. EditTypes
  BY DEF Common
<1>1. CASE \E new \in Graphs, un, re \in Seq(Graphs) : Sends(new, un, re) /\ Redraws(new, un, re)
  BY <1>1, SendsOrder
<1>2. CASE Minor
  <2>1. CASE LetGo
    <3>1. world' = world /\ cmds' = <<>> /\ "reopens" \in world
      BY <2>1 DEF LetGo
    <3>2. \A i \in 1 .. Len(cmds') : FALSE
      BY <3>1
    <3>3. Placed(cmds)'
      BY <3>2 DEF Placed
    <3> QED  BY <3>1, <3>2, <3>3 DEF InOrder
  <2>2. CASE OpenFails
    <3>1. /\ UNCHANGED <<world, cmds>> /\ radio = "opening" /\ radio' = "stopped"
      BY <2>2 DEF OpenFails
    <3>2. Calm => \A i \in 1 .. Len(cmds) : cmds[i].op # "param"
      BY <3>1 DEF InOrder, Chosen, Quiet
    <3>3. \A i \in 1 .. Len(cmds') : i \in 1 .. Len(cmds) /\ cmds'[i] = cmds[i]
      BY <3>1
    <3> QED  BY <3>1, <3>2, <3>3, QueueKept
  <2> QED  BY <1>2, <2>1, <2>2, TweakOrder, TuneOrder, TakeOrder DEF Minor, TakeStart, TakeEdits, TakeCenter
<1>3. CASE \E b \in BOOLEAN : Restart(b)
  <2>1. PICK b \in BOOLEAN : Restart(b)
    BY <1>3
  <2> DEFINE saved == IF ui.dirty /\ ~b THEN ui.edits ELSE disk
  <2>2. saved \in EditSet /\ Connected(FreshUi(saved), saved)
    BY <1>0, <2>1, RestartParts
  <2> HIDE DEF saved
  <2> DEFINE u == FreshUi(saved)
  <2>3. u.edits \in EditSet /\ u.seen \in BOOLEAN
    BY <2>2, FreshUiIs
  <2> HIDE DEF u
  <2> QED  BY <1>0, <2>2, <2>3, ConnectedOrder DEF u
<1>4. CASE ConnectRadio
  BY <1>0, <1>4, UiParts, ConnectedOrder DEF ConnectRadio
<1>5. CASE Poll
  <2>1. unseen /\ UNCHANGED <<world, cmds, radio>> /\ radio # "off"
    BY <1>5, PollParts
  <2>2. Calm => \A i \in 1 .. Len(cmds) : cmds[i].op # "param"
    BY <2>1 DEF InOrder, Chosen, Quiet
  <2>3. \A i \in 1 .. Len(cmds') : i \in 1 .. Len(cmds) /\ cmds'[i] = cmds[i]
    BY <2>1
  <2> QED  BY <2>1, <2>2, <2>3, QueueKept
<1>6. CASE Flush
  BY <1>0, <1>6, FlushParts, SameQueue
<1>7. CASE Open
  <2>1. radio = "opening" /\ UNCHANGED <<world, cmds>> /\ radio' # "off"
    BY <1>7 DEF Open
  <2>2. Calm => \A i \in 1 .. Len(cmds) : cmds[i].op # "param"
    BY <2>1 DEF InOrder, Chosen, Quiet
  <2>3. \A i \in 1 .. Len(cmds') : i \in 1 .. Len(cmds) /\ cmds'[i] = cmds[i]
    BY <2>1
  <2> QED  BY <2>1, <2>2, <2>3, QueueKept
<1>8. CASE TakeParam
  BY <1>8, TakeOrder DEF TakeParam
<1>9. CASE Rebuild
  <2>1. (due \/ want # plan.dial) /\ UNCHANGED <<world, cmds>>
        /\ (RebuiltFirst \/ RebuiltAgain \/ RebuiltNot)
    BY <1>0, <1>9, RebuildParts
  <2>2. radio' # "off"
    BY <2>1 DEF RebuiltFirst, RebuiltAgain, RebuiltNot, RebuiltAs
  <2>3. Calm => \A i \in 1 .. Len(cmds) : cmds[i].op # "param"
    BY <2>1 DEF InOrder, Chosen, Quiet
  <2>4. \A i \in 1 .. Len(cmds') : i \in 1 .. Len(cmds) /\ cmds'[i] = cmds[i]
    BY <2>1
  <2> QED  BY <2>1, <2>2, <2>3, <2>4, QueueKept
<1>10. CASE editVars' = editVars
  BY <1>10, SameQueue DEF editVars
<1> QED  BY <1>1, <1>2, <1>3, <1>4, <1>5, <1>6, <1>7, <1>8, <1>9, <1>10, Frames

(* Where the dial is left alone everything is drawn on the base at home. *)
AtHome == Alone(world) =>
  /\ want = Home /\ plan.dial = Home
  /\ rx.base = Base(Home) /\ ui.base \in {EmptyPatch, Base(Home)}
  /\ \A p \in GraphsAround : InHome(p)

(* Nobody leaves home, so every drawing is of the stages at home. *)
LEMMA HomeGraphs ==
  ASSUME Common, AtHome, Alone(world), Origins
  PROVE  \A p \in GraphsAround' : InHome(p)
<1>1. SUFFICES ASSUME NEW p \in GraphsAround', Comes(p) PROVE InHome(p)
  BY DEF Origins
<1>2. /\ want = Home /\ plan.dial = Home /\ ui.base \in {EmptyPatch, Base(Home)}
      /\ \A q \in GraphsAround : InHome(q)
      /\ ui.patch \in GraphsAround /\ rx.patch \in GraphsAround /\ rx.patch \in Graphs
      /\ Home \in Dials /\ EditsAround \subseteq EditSet
  <2>1. ui.patch \in GraphsAround /\ rx.patch \in GraphsAround
    BY DEF GraphsAround
  <2> QED  BY <2>1, Around, RxParts, EditsAssumption DEF AtHome, Common
<1>3. CASE p \in GraphsAround
  BY <1>2, <1>3
<1>4. CASE p = EmptyPatch
  BY <1>4, EmptyAt DEF InHome
<1>5. CASE \E e \in EditsAround, d \in {plan.dial, want} : p = Assembled(e, d)
  <2>1. PICK e \in EditsAround : p = Assembled(e, Home)
    BY <1>2, <1>5
  <2>2. e \in EditSet /\ Home \in Dials
    BY <1>2
  <2>3. DOMAIN p.at = DrawnBy(e, Home) /\ DrawnBy(e, Home) \subseteq Own \cup (InSpan[Home] \ Refused(Home))
    BY <2>1, <2>2, AssembledType
  <2> QED  BY <2>3 DEF InHome
<1>6. CASE FromScreen(p)
  <2>1. DOMAIN p.at \subseteq DOMAIN ui.patch.at \cup Own \cup DOMAIN ui.base.at
    BY <1>6 DEF FromScreen
  <2>2. DOMAIN ui.base.at \subseteq InSpan[Home]
    BY <1>2, EmptyAt, BaseAt
  <2> QED  BY <1>2, <2>1, <2>2 DEF InHome
<1>7. CASE \E i \in 1 .. Len(cmds) : \E t : cmds[i].op = "param" /\ p = Told(rx.patch, t, cmds[i].value)
  <2>0. PICK i \in 1 .. Len(cmds) : \E t : cmds[i].op = "param" /\ p = Told(rx.patch, t, cmds[i].value)
    BY <1>7
  <2>1. PICK t : cmds[i].op = "param" /\ p = Told(rx.patch, t, cmds[i].value)
    BY <2>0
  <2>2. cmds[i].value \in Values
    BY <2>1, CommandIs, EditsAssumption DEF Common, EditTypes, Values, Broken
  <2>3. DOMAIN p.at = DOMAIN rx.patch.at
    BY <1>2, <2>1, <2>2, ToldIs
  <2> QED  BY <1>2, <2>3 DEF InHome
<1> QED  BY <1>1, <1>3, <1>4, <1>5, <1>6, <1>7 DEF Comes

(* Any step keeps it. *)
LEMMA HomeStep ==
  ASSUME Common, AtHome, InOrder, [EditsNext]_editVars
  PROVE  AtHome'
<1>0. EditTypes /\ Origins /\ world' = world
  <2>1. world' = world
    <3>1. CASE EditsNext
      BY <3>1, Frames, MinorKeeps, PollParts, FlushParts, RebuildParts
         DEF Sends, Restart, ConnectRadio, Open, TakeParam, Take, Common
    <3> QED  BY <3>1 DEF editVars
  <2> QED  BY <2>1, StepOrigins DEF Common
<1>1. SUFFICES ASSUME Alone(world)
               PROVE  /\ want' = Home /\ plan'.dial = Home
                      /\ rx'.base = Base(Home) /\ ui'.base \in {EmptyPatch, Base(Home)}
  BY <1>0, HomeGraphs DEF AtHome
<1>2. /\ want = Home /\ plan.dial = Home /\ rx.base = Base(Home)
      /\ ui.base \in {EmptyPatch, Base(Home)} /\ Calm
  BY <1>1 DEF AtHome, Alone, Calm
<1>3. CASE \E new \in Graphs, un, re \in Seq(Graphs) : Sends(new, un, re) /\ Redraws(new, un, re)
  BY <1>0, <1>2, <1>3, SendsParts
<1>4. CASE Minor
  <2>1. rx' = rx /\ ui' = ui
    BY <1>4, MinorKeeps
  <2>2. want' = want /\ plan'.dial = plan.dial
    <3>1. CASE \E s \in Ids, b \in BOOLEAN : Tweak(s, b)
      BY <3>1 DEF Tweak
    <3>2. CASE (\E d \in Dials : Tune(d)) \/ LetGo \/ OpenFails \/ TakeStart
      BY <3>2 DEF Tune, LetGo, OpenFails, TakeStart
    <3>3. CASE TakeEdits
      BY <1>0, <3>3, TakeEditsParts
    <3>4. CASE TakeCenter
      <4>1. 1 \in 1 .. Len(cmds) /\ cmds[1].op = "center"
        BY <1>0, <3>4, TakeParts DEF TakeCenter, Take
      <4>2. world \cap {"roams", "wanders"} # {}
        BY <1>2, <4>1 DEF InOrder, Placed
      <4> QED  BY <1>1, <4>2 DEF Alone
    <3> QED  BY <1>4, <3>1, <3>2, <3>3, <3>4 DEF Minor
  <2> QED  BY <1>2, <2>1, <2>2
<1>5. CASE \E b \in BOOLEAN : Restart(b)
  <2>1. PICK u, saved : Connected(u, saved) /\ ui' = FreshUi(saved)
    BY <1>5 DEF Restart
  <2>2. want' = plan.dial /\ UNCHANGED <<plan, rx>> /\ ui'.base = EmptyPatch
    BY <2>1 DEF Connected, FreshUi
  <2> QED  BY <1>2, <2>2
<1>6. CASE ConnectRadio
  <2>1. want' = plan.dial /\ UNCHANGED <<plan, rx, ui>>
    BY <1>6 DEF ConnectRadio, Connected
  <2> QED  BY <1>2, <2>1
<1>7. CASE Poll
  BY <1>2, <1>7, PollParts DEF BaseShown
<1>8. CASE Flush
  BY <1>0, <1>2, <1>8, FlushParts
<1>9. CASE Open
  <2>1. /\ want' = want /\ ui' = ui /\ plan'.dial = plan.dial
    BY <1>0, <1>9, OpenParts DEF Open
  <2>2. rx'.base = Base(plan.dial) \/ rx' = rx
    BY <1>9 DEF Open, Receiver
  <2> QED  BY <1>2, <2>1, <2>2
<1>10. CASE TakeParam
  <2>1. want' = want /\ ui' = ui
    BY <1>10 DEF TakeParam, Take
  <2>2. plan'.dial = plan.dial /\ rx'.base = rx.base
    <3>1. PICK t \in SUBSET Ids : rx'.base = rx.base
                                 /\ plan' = [dial |-> plan.dial, edits |-> Diff(rx'.patch, rx.base)]
      BY <1>10, TakeParamParts
    <3> QED  BY <3>1
  <2> QED  BY <1>2, <2>1, <2>2
<1>11. CASE Rebuild
  <2>1. want' = want /\ ui' = ui /\ (RebuiltFirst \/ RebuiltAgain \/ RebuiltNot)
        /\ NewDial \in {plan.dial, want}
    BY <1>0, <1>11, RebuildParts
  <2>0. \A e, pool, r : RebuiltAs(e, pool, r) => rx'.base = Base(NewDial)
    BY DEF RebuiltAs, Receiver
  <2>2. plan'.dial = NewDial
    BY DEF NewDial
  <2>3. rx'.base = Base(NewDial) \/ rx' = rx
    BY <2>0, <2>1 DEF RebuiltFirst, RebuiltAgain, RebuiltNot
  <2> QED  BY <1>2, <2>1, <2>2, <2>3
<1>12. CASE editVars' = editVars
  BY <1>2, <1>12 DEF editVars
<1> QED  BY <1>3, <1>4, <1>5, <1>6, <1>7, <1>8, <1>9, <1>10, <1>11, <1>12, Frames

-----------------------------------------------------------------------------
(***************************************************************************)
(* A drawing that was sent, and the graph that answers it.                 *)
(***************************************************************************)

Steady    == Calm /\ "reopens" \notin world
Context   == Common /\ Seen /\ NoDrawing /\ Bounded /\ InOrder /\ AtHome

SentAtRest(v) == Quiet /\ cmds # <<>> /\ cmds[1].op = "edits" /\ ViewE(world, cmds[1].edits) = v
NoEditsSent   == \A i \in 1 .. Len(cmds) : cmds[i].op # "edits"

(* Where the radio is kept, a drawing that was sent is still on its way, or it is  *)
(* what runs and is on screen, or the operator has set something since that it did *)
(* not have.                                                                       *)
Answer(p) ==
  /\ radio = "running" /\ shown # {}
  /\ \/ SentAtRest(View(world, p)) /\ ui.patch = p /\ Sound(cmds[1].edits)
     \/ /\ NoEditsSent /\ Sound(plan.edits)
        /\ \/ /\ ViewE(world, plan.edits) = View(world, p) /\ View(world, ui.patch) = View(world, p)
              /\ unseen => View(world, rx.patch) = View(world, p)
           \/ /\ "tweaks" \in world
              /\ ViewE(world, plan.edits) = View(world, rx.patch) /\ View(world, rx.patch) # View(world, p)
Answered == Steady => \A p \in ui.sent : Builds(p) => Answer(p)

(* With no rebuild due what runs looks like the plan. *)
LEMMA RunView ==
  ASSUME Context, radio = "running", ~due
  PROVE  View(world, rx.patch) = ViewE(world, plan.edits)
<1>1. rx.patch = Assembled(plan.edits, plan.dial) /\ plan.edits \in EditSet /\ plan.dial \in Dials
  BY RxParts DEF Context, Common, Running
<1>2. Alone(world) => plan.dial = Home
  BY DEF Context, AtHome
<1> QED  BY <1>1, <1>2, ViewAssembled

(* A drawing sent is alone in the queue, and the edits sent look like it. *)
LEMMA SendView ==
  ASSUME Context, NEW new \in Graphs, NEW un \in Seq(Graphs), NEW re \in Seq(Graphs),
         Sends(new, un, re), Redraws(new, un, re), Calm
  PROVE  /\ Quiet \/ radio = "off"
         /\ Quiet => /\ cmds = <<>> /\ ViewE(world, Diff(new, ui.base)) = View(world, new)
                     /\ cmds' = <<[op |-> "edits", edits |-> Diff(new, ui.base)]>>
         /\ radio = "off" => cmds' = cmds
         /\ MineE(Diff(new, ui.base)) = Mine(new)
<1>1. MayChange /\ Send([op |-> "edits", edits |-> Diff(new, ui.base)])
  BY DEF Sends
<1>2. Quiet \/ radio = "off"
  BY <1>1, RestIs DEF MayChange, Calm, Context
<1>3. radio = "off" => cmds' = cmds
  BY <1>1 DEF Send, Calm
<1>4. MineE(Diff(new, ui.base)) = Mine(new)
  BY UiParts, MineDiff DEF Context, Common
<1>5. ASSUME Quiet PROVE cmds = <<>>
  BY <1>1, <1>5, RestIs DEF Quiet, MayChange, Calm, Context
<1>6. ASSUME Quiet PROVE cmds' = <<[op |-> "edits", edits |-> Diff(new, ui.base)]>>
  <2> DEFINE c == [op |-> "edits", edits |-> Diff(new, ui.base)]
  <2>1. cmds' = Append(<<>>, c)
    BY <1>1, <1>5, <1>6 DEF Send, Quiet, Calm
  <2> HIDE DEF c
  <2>2. cmds' = <<c>>
    BY <2>1
  <2> QED  BY <2>2 DEF c
<1>7. ASSUME Quiet PROVE ViewE(world, Diff(new, ui.base)) = View(world, new)
  <2>1. ui.base = rx.base /\ ui.base \in Bases
    BY <1>7, UiParts DEF Quiet, Context, Seen, Common
  <2>2. Alone(world) => ui.base = Base(Home)
    BY <2>1 DEF Context, AtHome
  <2>3. Alone(world) => InHome(new)
    <3>1. Origins
      BY SendsOrigins DEF Context, Common
    <3>2. new \in GraphsAround'
      BY SendsParts DEF GraphsAround, Context, Common
    <3> QED  BY <3>1, <3>2, HomeGraphs DEF Context
  <2> QED  BY <2>1, <2>2, <2>3, ViewDiff
<1> QED  BY <1>2, <1>3, <1>4, <1>5, <1>6, <1>7

(* A queue of one. *)
LEMMA SentOne ==
  ASSUME NEW a
  PROVE  Len(<<a>>) = 1 /\ <<a>>[1] = a /\ <<a>> # <<>> /\ \A i \in 1 .. Len(<<a>>) : i = 1
  OBVIOUS

(* What taking the head leaves of the queue. *)
LEMMA TakeHead ==
  ASSUME Common, NEW op, Take(op)
  PROVE  /\ cmds # <<>> /\ cmds[1].op = op /\ radio = "running" /\ radio' = "running"
         /\ UNCHANGED <<world, ui>>
         /\ NoEditsSent => NoEditsSent'
         /\ Calm /\ InOrder /\ op # "start" => NoEditsSent'
<1>1. /\ cmds # <<>> /\ Head(cmds).op = op /\ Head(cmds) = cmds[1] /\ radio = "running"
      /\ UNCHANGED <<world, ui, radio>>
      /\ Len(cmds) \in Nat /\ Len(cmds) = Len(cmds') + 1
      /\ \A i \in 1 .. Len(cmds') : i + 1 \in 1 .. Len(cmds) /\ cmds'[i] = cmds[i + 1]
  BY TakeParts DEF Common
<1>2. NoEditsSent => NoEditsSent'
  BY <1>1 DEF NoEditsSent
<1>3. ASSUME Calm, InOrder, op # "start" PROVE NoEditsSent'
  <2>1. \A i \in 1 .. Len(cmds') : i \in Nat /\ i >= 1 /\ cmds[i + 1].op # "edits"
    BY <1>1, <1>3 DEF InOrder, Placed
  <2> QED  BY <1>1, <2>1 DEF NoEditsSent
<1> QED  BY <1>1, <1>2, <1>3

(* A setting taken where it was chosen. *)
LEMMA ToldView ==
  ASSUME Context, Calm, TakeParam
  PROVE  /\ Quiet /\ "tweaks" \in world
         /\ ViewE(world, plan'.edits) = View(world, rx'.patch) /\ Sound(plan'.edits)
         /\ MineE(plan'.edits) = Mine(rx'.patch)
         /\ \/ View(world, rx'.patch) = View(world, rx.patch)
            \/ \A p \in ui.sent : View(world, rx'.patch) # View(world, p)
         /\ shown' # {} /\ unseen' = TRUE
<1> DEFINE c == cmds[1]
<1>0. EditTypes
  BY DEF Context, Common
<1>1. PICK t \in SUBSET Ids :
           /\ Take("param") /\ c.value \in Values
           /\ c.among = DOMAIN rx.node => t = {c.stage}
           /\ rx'.patch = Told(rx.patch, t, c.value) /\ rx'.base = rx.base
           /\ plan' = [dial |-> plan.dial, edits |-> Diff(rx'.patch, rx.base)]
           /\ shown' = {[patch |-> rx'.patch, base |-> rx.base]} /\ unseen' = TRUE
  BY TakeParamParts DEF Context
<1>2. c.op = "param" /\ 1 \in 1 .. Len(cmds)
  BY <1>0, <1>1, TakeParts
<1>3. Chosen(c)
  BY <1>2 DEF Context, InOrder
<1>4. /\ t = {c.stage} /\ c.stage \in DOMAIN rx.patch.at
      /\ rx.patch \in Graphs /\ rx'.patch \in Graphs /\ rx.base \in Bases
      /\ DOMAIN rx'.patch.at = DOMAIN rx.patch.at
      /\ \A s \in DOMAIN rx.patch.at : /\ rx'.patch.at[s].set = (IF s = c.stage THEN c.value ELSE rx.patch.at[s].set)
                                       /\ rx'.patch.at[s].from = rx.patch.at[s].from
      /\ rx'.patch.off = rx.patch.off
  <2>1. t = {c.stage} /\ c.stage \in DOMAIN rx.node /\ radio = "running"
    BY <1>1, <1>3 DEF Chosen, Quiet
  <2>2. c.stage \in DOMAIN rx.patch.at
    BY <2>1 DEF Context, Common, Running, Fed
  <2>3. rx.patch \in Graphs /\ rx.base \in Bases
    BY <1>0, RxParts
  <2> HIDE DEF c
  <2> QED  BY <1>1, <2>1, <2>2, <2>3, ToldIs
<1> HIDE DEF c
<1>5. plan'.edits = Diff(rx'.patch, rx.base)
  BY <1>1
<1>6. MineE(plan'.edits) = Mine(rx'.patch)
  BY <1>4, <1>5, MineDiff
<1>7. Alone(world) => rx.base = Base(Home) /\ InHome(rx'.patch)
  <2>1. rx.patch \in GraphsAround
    BY DEF GraphsAround
  <2> QED  BY <1>4, <2>1 DEF Context, AtHome, InHome
<1>8. ViewE(world, plan'.edits) = View(world, rx'.patch)
  BY <1>4, <1>5, <1>7, ViewDiff
<1>9. Sound(plan'.edits)
  <2>1. Builds(rx'.patch)
    BY <1>4 DEF Context, Common, Running, Builds
  <2> QED  BY <1>4, <1>5, <2>1, SoundDiff
<1>10. CASE c.stage \in Own \/ Alone(world)
  <2>1. ASSUME NEW p \in ui.sent, View(world, rx'.patch) = View(world, p) PROVE FALSE
    <3>1. c.stage \in DOMAIN p.at /\ p.at[c.stage] = rx'.patch.at[c.stage]
      <4>1. CASE Alone(world)
        BY <1>4, <2>1, <4>1, ViewMine
      <4>2. CASE c.stage \in Own
        <5>1. Mine(rx'.patch) = Mine(p)
          BY <2>1, ViewMine
        <5>2. c.stage \in DOMAIN Mine(rx'.patch) /\ Mine(rx'.patch)[c.stage] = rx'.patch.at[c.stage]
          BY <1>4, <4>2 DEF Mine
        <5>3. c.stage \in DOMAIN p.at /\ Mine(p)[c.stage] = p.at[c.stage]
          BY <5>1, <5>2 DEF Mine
        <5> QED  BY <5>1, <5>2, <5>3
      <4> QED  BY <1>10, <4>1, <4>2
    <3>2. p.at[c.stage].set < c.value
      BY <1>3, <1>10, <3>1 DEF Chosen
    <3>3. p.at[c.stage].set = c.value
      BY <1>4, <3>1
    <3>4. c.value \in Nat
      BY <1>1, EditsAssumption DEF Values, Broken
    <3> QED  BY <3>2, <3>3, <3>4
  <2> QED  BY <1>1, <1>3, <1>6, <1>8, <1>9, <2>1 DEF Chosen
<1>11. CASE c.stage \notin Own /\ ~Alone(world)
  <2>1. Mine(rx'.patch) = Mine(rx.patch)
    <3>1. \A s \in DOMAIN rx.patch.at \cap Own : rx'.patch.at[s] = rx.patch.at[s]
      <4>1. \A p \in Graphs : \A s \in DOMAIN p.at : p.at[s] = [set |-> p.at[s].set, from |-> p.at[s].from]
        BY GraphParts
      <4>2. \A s \in DOMAIN rx.patch.at \cap Own : /\ rx'.patch.at[s].set = rx.patch.at[s].set
                                                 /\ rx'.patch.at[s].from = rx.patch.at[s].from
        BY <1>4, <1>11
      <4> TAKE s \in DOMAIN rx.patch.at \cap Own
      <4>3. rx'.patch.at[s] = [set |-> rx'.patch.at[s].set, from |-> rx'.patch.at[s].from]
        BY <1>4, <4>1
      <4>4. rx.patch.at[s] = [set |-> rx.patch.at[s].set, from |-> rx.patch.at[s].from]
        BY <1>4, <4>1
      <4> QED  BY <4>2, <4>3, <4>4
    <3> QED  BY <1>4, <3>1 DEF Mine
  <2>2. View(world, rx'.patch) = View(world, rx.patch)
    BY <1>11, <2>1 DEF View
  <2> QED  BY <1>1, <1>3, <1>6, <1>8, <1>9, <2>2 DEF Chosen
<1> QED  BY <1>10, <1>11

(* The troubles a behaviour may meet are chosen once. *)
LEMMA WorldKept ==
  ASSUME Common, [EditsNext]_editVars
  PROVE  world' = world
<1>1. CASE EditsNext
  BY <1>1, Frames, MinorKeeps, PollParts, FlushParts, RebuildParts
     DEF Sends, Restart, ConnectRadio, Open, TakeParam, Take, Common
<1> QED  BY <1>1 DEF editVars

(* The answer over each step: those that leave it alone, and each of the others. *)
LEMMA AnswerKept ==
  ASSUME NEW p, Answer(p), UNCHANGED <<world, radio, want, due, rx, shown, unseen>>,
         plan'.edits = plan.edits, plan'.dial = plan.dial, ui'.patch = ui.patch,
         cmds # <<>> => cmds' # <<>> /\ cmds'[1] = cmds[1],
         NoEditsSent => NoEditsSent'
  PROVE  Answer(p)'
<1>1. SentAtRest(View(world, p)) => (SentAtRest(View(world, p)))'
  BY DEF SentAtRest, Quiet
<1> QED  BY <1>1 DEF Answer, SentAtRest

LEMMA AnswerSends ==
  ASSUME Context, Steady, NEW new \in Graphs, NEW un \in Seq(Graphs), NEW re \in Seq(Graphs),
         Sends(new, un, re), Redraws(new, un, re), Builds(new)
  PROVE  Answer(new)' /\ ui'.sent = {new}
<1> DEFINE c == [op |-> "edits", edits |-> Diff(new, ui.base)]
<1>1. /\ ui'.patch = new /\ ui'.sent = {new} /\ ui.base \in Bases
      /\ UNCHANGED <<world, radio, plan, want, due, rx, shown, unseen>>
  BY SendsParts, UiParts DEF Context, Common
<1>2. Quiet
  BY SendView DEF Context, Steady, InOrder
<1>3. ViewE(world, Diff(new, ui.base)) = View(world, new) /\ cmds' = <<c>>
  BY <1>2, SendView DEF Steady
<1>4. Sound(Diff(new, ui.base))
  BY <1>1, SoundDiff
<1>5. c.op = "edits" /\ c.edits = Diff(new, ui.base)
  OBVIOUS
<1> HIDE DEF c
<1>6. cmds' # <<>> /\ cmds'[1] = c
  BY <1>3, SentOne
<1>7. (SentAtRest(View(world, new)))'
  BY <1>1, <1>2, <1>3, <1>5, <1>6 DEF SentAtRest, Quiet
<1> QED  BY <1>1, <1>2, <1>4, <1>5, <1>6, <1>7 DEF Answer, Quiet

LEMMA AnswerTakes ==
  ASSUME Context, Steady, NEW p \in ui.sent, Answer(p),
         TakeStart \/ TakeEdits \/ TakeCenter \/ TakeParam
  PROVE  Answer(p)'
<1>0. EditTypes /\ Calm /\ InOrder
  BY DEF Context, Common, Steady
<1>1. CASE TakeStart \/ TakeCenter
  <2>1. PICK op \in {"start", "center"} : Take(op)
    BY <1>1 DEF TakeStart, TakeCenter
  <2>2. /\ cmds[1].op = op /\ radio' = "running" /\ UNCHANGED <<world, ui>>
        /\ NoEditsSent => NoEditsSent'
    BY <2>1, TakeHead DEF Context
  <2>3. UNCHANGED <<plan, rx, shown, unseen>>
    BY <1>1 DEF TakeStart, TakeCenter
  <2>4. ~SentAtRest(View(world, p))
    BY <2>2 DEF SentAtRest
  <2> QED  BY <2>2, <2>3, <2>4 DEF Answer
<1>2. CASE TakeEdits
  <2>1. /\ cmds[1].op = "edits" /\ cmds # <<>> /\ radio' = "running" /\ UNCHANGED <<world, ui>> /\ NoEditsSent'
    BY <1>0, <1>2, TakeHead DEF TakeEdits, Context
  <2>2. plan'.edits = cmds[1].edits /\ UNCHANGED <<rx, shown, unseen>>
    BY <1>0, <1>2, TakeEditsParts
  <2>3. 1 \in 1 .. Len(cmds)
    BY <1>0, <1>2, TakeParts DEF TakeEdits
  <2>4. ~NoEditsSent
    BY <2>1, <2>3 DEF NoEditsSent
  <2>5. SentAtRest(View(world, p)) /\ ui.patch = p /\ Sound(cmds[1].edits) /\ shown # {}
    BY <2>4 DEF Answer
  <2> QED  BY <2>1, <2>2, <2>5 DEF Answer, SentAtRest, Quiet
<1>3. CASE TakeParam
  <2>1. /\ cmds[1].op = "param" /\ radio' = "running" /\ UNCHANGED <<world, ui>> /\ NoEditsSent'
    <3>1. Take("param") /\ Common
      BY <1>3 DEF TakeParam, Context
    <3> QED  BY <1>0, <3>1, TakeHead
  <2>2. /\ Quiet /\ "tweaks" \in world
        /\ ViewE(world, plan'.edits) = View(world, rx'.patch) /\ Sound(plan'.edits)
        /\ \/ View(world, rx'.patch) = View(world, rx.patch)
           \/ \A q \in ui.sent : View(world, rx'.patch) # View(world, q)
        /\ shown' # {} /\ unseen' = TRUE
    BY <1>0, <1>3, ToldView
  <2>3. ~SentAtRest(View(world, p))
    BY <2>1 DEF SentAtRest
  <2>4. View(world, rx.patch) = ViewE(world, plan.edits)
    BY <2>2, RunView DEF Quiet
  <2>5. CASE View(world, rx'.patch) = View(world, p)
    <3>1. View(world, rx.patch) = View(world, p)
      BY <2>2, <2>5
    <3>2. View(world, ui.patch) = View(world, p)
      BY <2>3, <2>4, <3>1 DEF Answer
    <3> QED  BY <2>1, <2>2, <2>5, <3>2 DEF Answer
  <2>6. CASE View(world, rx'.patch) # View(world, p)
    BY <2>1, <2>2, <2>6 DEF Answer
  <2> QED  BY <2>5, <2>6
<1> QED  BY <1>1, <1>2, <1>3

LEMMA AnswerPoll ==
  ASSUME Context, NEW p \in ui.sent, Answer(p), Poll
  PROVE  Answer(p)'
<1>1. /\ ui'.patch = IF ui.sent # {RunShown} THEN RunShown ELSE ui.patch
      /\ unseen /\ unseen' = FALSE
      /\ UNCHANGED <<world, cmds, radio, plan, want, due, rx, shown>>
  BY PollParts DEF Context
<1>2. shown # {} /\ RunShown = rx.patch
  BY DEF Answer, RunShown
<1>3. ~SentAtRest(View(world, p))
  BY <1>1 DEF SentAtRest, Quiet
<1>4. NoEditsSent => NoEditsSent'
  BY <1>1 DEF NoEditsSent
<1> QED  BY <1>1, <1>2, <1>3, <1>4 DEF Answer

LEMMA AnswerRebuild ==
  ASSUME Context, NEW p \in ui.sent, Answer(p), Rebuild
  PROVE  Answer(p)'
<1>0. /\ EditTypes /\ plan.edits \in EditSet /\ rx.node \in Maps(Ids, Values)
      /\ rx.recording \in BOOLEAN /\ NewDial \in Dials
      /\ NewDial \in {plan.dial, want}
  BY RxParts, RebuildParts DEF Context, Common, EditTypes
<1>1. /\ due \/ want # plan.dial
      /\ RebuiltFirst \/ RebuiltAgain \/ RebuiltNot
      /\ UNCHANGED <<world, ui, cmds, want>>
  BY <1>0, RebuildParts
<1>2. ~SentAtRest(View(world, p))
  BY <1>1 DEF SentAtRest, Quiet
<1>3. NoEditsSent /\ Sound(plan.edits)
  BY <1>2 DEF Answer
<1>4. Builds(Assembled(plan.edits, NewDial))
  BY <1>0, <1>3, SoundBuilds
<1>5. RebuiltFirst
  BY <1>1, <1>4 DEF RebuiltAgain, RebuiltNot
<1>6. /\ shown' # {} /\ radio' = "running"
      /\ rx'.patch = Assembled(plan.edits, NewDial) /\ plan'.edits = plan.edits
  BY <1>0, <1>1, <1>5, RebuiltAsRuns DEF RebuiltFirst
<1>7. View(world, rx'.patch) = ViewE(world, plan.edits)
  <2>1. Alone(world) => NewDial = Home
    BY <1>0 DEF Context, AtHome
  <2> QED  BY <1>0, <1>6, <2>1, ViewAssembled
<1>8. NoEditsSent'
  BY <1>1, <1>3 DEF NoEditsSent
<1> QED  BY <1>1, <1>2, <1>3, <1>6, <1>7, <1>8 DEF Answer

LEMMA AnswerQueued ==
  ASSUME Common, NEW p, Answer(p), NEW c \in Commands, c.op # "edits", Send(c),
         UNCHANGED <<world, ui, radio, plan, want, due, rx, shown, unseen>>
  PROVE  Answer(p)'
<1>1. /\ cmds # <<>> => cmds' # <<>> /\ 1 \in 1 .. Len(cmds)
      /\ \A i \in 1 .. Len(cmds) : cmds'[i] = cmds[i]
      /\ \A i \in 1 .. Len(cmds') : cmds'[i] = c \/ (i \in 1 .. Len(cmds) /\ cmds'[i] = cmds[i])
  BY Sent DEF Common, EditTypes
<1>2. NoEditsSent => NoEditsSent'
  BY <1>1 DEF NoEditsSent
<1> QED  BY <1>1, <1>2, AnswerKept

(* Whatever was sent is answered by what runs, or the operator has set something since. *)
LEMMA AnsweredStep ==
  ASSUME Context, Answered, [EditsNext]_editVars
  PROVE  Answered'
<1>0. EditTypes /\ world' = world
  BY WorldKept DEF Context, Common
<1>1. SUFFICES ASSUME Steady, NEW p \in ui'.sent, Builds(p) PROVE Answer(p)'
  BY <1>0 DEF Answered, Steady, Calm
<1>2. p \in ui.sent => Answer(p)
  BY <1>1 DEF Answered
<1>3. CASE \E new \in Graphs, un, re \in Seq(Graphs) : Sends(new, un, re) /\ Redraws(new, un, re)
  <2>1. PICK new \in Graphs, un, re \in Seq(Graphs) : Sends(new, un, re) /\ Redraws(new, un, re)
    BY <1>3
  <2>2. p = new
    <3>1. ui'.sent = {new}
      BY <1>0, <2>1, SendsParts
    <3> QED  BY <1>1, <3>1
  <2> QED  BY <1>1, <2>1, <2>2, AnswerSends
<1>4. CASE Minor
  <2>1. ui' = ui
    BY <1>4, MinorKeeps DEF Context
  <2>2. p \in ui.sent /\ Answer(p) /\ radio = "running"
    BY <1>1, <1>2, <2>1 DEF Answer
  <2>3. CASE \E s \in Ids, b \in BOOLEAN : Tweak(s, b)
    <3>1. PICK s \in Ids, b \in BOOLEAN : Tweak(s, b)
      BY <2>3
    <3> DEFINE m == [op |-> "param", stage |-> s, value |-> IF b THEN AsDrawn ELSE changes + 1, among |-> ui.topo]
    <3>2. m \in Commands /\ Send(m)
          /\ UNCHANGED <<world, ui, radio, plan, want, due, rx, shown, unseen>>
      BY <1>0, <3>1, TweakParts
    <3>3. m.op # "edits"
      OBVIOUS
    <3> HIDE DEF m
    <3> QED  BY <2>2, <3>2, <3>3, AnswerQueued DEF Context
  <2>4. CASE \E d \in Dials : Tune(d)
    <3>1. PICK d \in Dials : Tune(d)
      BY <2>4
    <3> DEFINE m == [op |-> "center", dial |-> d]
    <3>2. m \in Commands /\ Send(m)
          /\ UNCHANGED <<world, ui, radio, plan, want, due, rx, shown, unseen>>
      BY <1>0, <3>1, TuneParts
    <3>3. m.op # "edits"
      OBVIOUS
    <3> HIDE DEF m
    <3> QED  BY <2>2, <3>2, <3>3, AnswerQueued DEF Context
  <2>5. CASE LetGo \/ OpenFails
    BY <1>1, <2>2, <2>5 DEF LetGo, OpenFails, Steady
  <2> QED  BY <1>1, <1>4, <2>2, <2>3, <2>4, <2>5, AnswerTakes DEF Minor
<1>5. CASE \E b \in BOOLEAN : Restart(b)
  <2>1. ui'.sent = {}
    BY <1>5 DEF Restart, FreshUi
  <2> QED  BY <1>1, <2>1
<1>6. CASE ConnectRadio \/ Open
  <2>1. ui' = ui /\ radio # "running"
    BY <1>6 DEF ConnectRadio, Open
  <2> QED  BY <1>1, <1>2, <2>1 DEF Answer
<1>7. CASE Poll
  <2>1. ui'.sent = ui.sent
    BY <1>7, PollParts DEF Context
  <2> QED  BY <1>1, <1>2, <1>7, <2>1, AnswerPoll
<1>8. CASE Flush
  <2>1. /\ ui'.sent = ui.sent /\ ui'.patch = ui.patch
        /\ UNCHANGED <<world, cmds, radio, plan, want, due, rx, shown, unseen>>
    BY <1>0, <1>8, FlushParts
  <2>2. NoEditsSent => NoEditsSent'
    BY <2>1 DEF NoEditsSent
  <2> QED  BY <1>1, <1>2, <2>1, <2>2, AnswerKept
<1>9. CASE TakeParam
  <2>1. ui' = ui
    BY <1>9 DEF TakeParam, Take
  <2> QED  BY <1>1, <1>2, <1>9, <2>1, AnswerTakes
<1>10. CASE Rebuild
  <2>1. ui' = ui
    BY <1>10 DEF Rebuild
  <2> QED  BY <1>1, <1>2, <1>10, <2>1, AnswerRebuild
<1>11. CASE editVars' = editVars
  <2>1. UNCHANGED <<world, ui, cmds, radio, plan, want, due, rx, shown, unseen>>
    BY <1>11 DEF editVars
  <2>2. NoEditsSent => NoEditsSent'
    BY <2>1 DEF NoEditsSent
  <2> QED  BY <1>1, <1>2, <2>1, <2>2, AnswerKept
<1> QED  BY <1>3, <1>4, <1>5, <1>6, <1>7, <1>8, <1>9, <1>10, <1>11, Frames DEF Context

-----------------------------------------------------------------------------
(***************************************************************************)
(* The same where the radio is let go of.                                  *)
(***************************************************************************)

Reopening == Calm /\ "reopens" \in world /\ world \cap {"tweaks", "undoes", "breaks"} = {}

(* Where the radio is let go of and nothing else happens to the drawing, whatever *)
(* is about is the drawing that was sent, or has nothing of the operator's in it. *)
Or(m, p) == m = Mine(p) \/ DOMAIN m = {}
Back(p) ==
  /\ Or(Mine(ui.patch), p) /\ Or(MineE(ui.edits), p) /\ Or(MineE(disk), p)
  /\ \A i \in 1 .. Len(cmds) : cmds[i].op = "edits" => Or(MineE(cmds[i].edits), p)
  /\ radio = "running" => Or(MineE(plan.edits), p) \/ SentAtRest(View(world, ui.patch))
  /\ shown # {} /\ unseen => Or(Mine(rx.patch), p)
Echoed == Reopening =>
  /\ radio = "off" => cmds = <<>>
  /\ radio \in {"off", "stopped"} => ~unseen \/ shown = {}
  /\ \A p \in ui.sent : Back(p)

(* Each step in turn. *)
LEMMA BackSends ==
  ASSUME Context, Reopening, Echoed, NEW new \in Graphs, NEW un \in Seq(Graphs), NEW re \in Seq(Graphs),
         Sends(new, un, re), Redraws(new, un, re)
  PROVE  Back(new)' /\ ui'.sent = {new} /\ (radio' = "off" => cmds' = <<>>)
<1> DEFINE e == Diff(new, ui.base)
           c == [op |-> "edits", edits |-> e]
<1>1. /\ ui'.patch = new /\ ui'.sent = {new} /\ ui'.edits = e /\ disk' = e
      /\ UNCHANGED <<world, radio, plan, want, due, rx, shown, unseen>>
  BY SendsParts, UiParts DEF Context, Common
<1>2. /\ Quiet \/ radio = "off"
      /\ Quiet => cmds = <<>> /\ ViewE(world, e) = View(world, new) /\ cmds' = <<c>>
      /\ radio = "off" => cmds' = cmds
      /\ MineE(e) = Mine(new)
  BY SendView DEF Reopening
<1>3. c.op = "edits" /\ c.edits = e
  OBVIOUS
<1> HIDE DEF c, e
<1>4. CASE Quiet
  <2>1. cmds' # <<>> /\ cmds'[1] = c /\ \A i \in 1 .. Len(cmds') : i = 1
    BY <1>2, <1>4, SentOne
  <2>2. SentAtRest(View(world, ui.patch))'
    BY <1>1, <1>2, <1>3, <1>4, <2>1 DEF SentAtRest, Quiet
  <2>3. \A i \in 1 .. Len(cmds') : cmds'[i] = c
    BY <2>1
  <2> QED  BY <1>1, <1>2, <1>3, <1>4, <2>2, <2>3 DEF Back, Or, Quiet
<1>5. CASE radio = "off"
  <2>1. cmds' = <<>> /\ (~unseen \/ shown = {})
    BY <1>2, <1>5 DEF Echoed
  <2>2. \A i \in 1 .. Len(cmds') : FALSE
    BY <2>1
  <2> QED  BY <1>1, <1>2, <1>5, <2>1, <2>2 DEF Back, Or
<1> QED  BY <1>1, <1>2, <1>4, <1>5

LEMMA BackKept ==
  ASSUME NEW p, Back(p), UNCHANGED <<world, want, due, rx, shown, unseen>>,
         plan'.edits = plan.edits, plan'.dial = plan.dial,
         radio' = radio \/ radio' # "running",
         ui'.patch = ui.patch, ui'.edits = ui.edits, disk' \in {disk, ui.edits},
         cmds # <<>> => radio' # "running" \/ (cmds' # <<>> /\ cmds'[1] = cmds[1]),
         \A i \in 1 .. Len(cmds') : cmds'[i].op = "edits" =>
            (i \in 1 .. Len(cmds) /\ cmds'[i] = cmds[i]) \/ Or(MineE(cmds'[i].edits), p)
  PROVE  Back(p)'
<1>1. radio' = "running" =>
        (SentAtRest(View(world, ui.patch)) => (SentAtRest(View(world, ui.patch)))')
  BY DEF SentAtRest, Quiet
<1>2. /\ Or(Mine(ui.patch), p)' /\ Or(MineE(ui.edits), p)' /\ Or(MineE(disk), p)'
      /\ (shown # {} /\ unseen => Or(Mine(rx.patch), p))'
  BY DEF Back, Or
<1>3. (\A i \in 1 .. Len(cmds) : cmds[i].op = "edits" => Or(MineE(cmds[i].edits), p))'
  BY DEF Back, Or
<1>4. (radio = "running" => Or(MineE(plan.edits), p) \/ SentAtRest(View(world, ui.patch)))'
  BY <1>1 DEF Back, Or
<1> QED  BY <1>2, <1>3, <1>4 DEF Back

LEMMA BackTakes ==
  ASSUME Context, Reopening, NEW p, Back(p), TakeStart \/ TakeEdits \/ TakeCenter
  PROVE  Back(p)'
<1>0. EditTypes /\ Calm /\ InOrder
  BY DEF Context, Common, Reopening
<1>1. PICK op \in {"start", "edits", "center"} : Take(op) /\ (op = "edits" => TakeEdits)
                                                /\ (op # "edits" => plan' = plan)
  BY DEF TakeStart, TakeEdits, TakeCenter
<1>2. /\ cmds # <<>> /\ cmds[1].op = op /\ radio = "running" /\ UNCHANGED <<world, ui, disk>>
      /\ 1 \in 1 .. Len(cmds)
      /\ \A i \in 1 .. Len(cmds') : i + 1 \in 1 .. Len(cmds) /\ cmds'[i] = cmds[i + 1]
  BY <1>0, <1>1, TakeHead, TakeParts DEF Context
<1>3. UNCHANGED <<rx, shown, unseen>>
  BY DEF TakeStart, TakeEdits, TakeCenter
<1>4. \A i \in 1 .. Len(cmds') : cmds'[i].op = "edits" => Or(MineE(cmds'[i].edits), p)
  BY <1>2 DEF Back
<1>5. Or(MineE(plan'.edits), p)
  <2>1. CASE op = "edits"
    <3>1. plan'.edits = cmds[1].edits
      BY <1>0, <1>1, <2>1, TakeEditsParts
    <3> QED  BY <1>2, <2>1, <3>1 DEF Back
  <2>2. CASE op # "edits"
    <3>1. ~SentAtRest(View(world, ui.patch))
      BY <1>2, <2>2 DEF SentAtRest
    <3> QED  BY <1>1, <1>2, <2>2, <3>1 DEF Back
  <2> QED  BY <2>1, <2>2
<1> QED  BY <1>2, <1>3, <1>4, <1>5 DEF Back, Or

LEMMA BackPoll ==
  ASSUME Context, NEW p, Back(p), Poll
  PROVE  Back(p)'
<1>1. /\ ui'.patch = RunShown \/ ui'.patch = ui.patch
      /\ ui'.patch \in Graphs /\ BaseShown \in Bases
      /\ unseen /\ unseen' = FALSE
      /\ ui'.edits = Diff(ui'.patch, BaseShown) \/ ui'.edits = ui.edits
      /\ UNCHANGED <<world, disk, cmds, radio, plan, want, due, rx, shown>>
  BY PollParts, ShownIs DEF Context
<1>2. Or(Mine(RunShown), p)
  BY <1>1, NothingMine DEF Back, RunShown, Or
<1>3. Or(Mine(ui'.patch), p)
  BY <1>1, <1>2 DEF Back
<1>4. MineE(Diff(ui'.patch, BaseShown)) = Mine(ui'.patch)
  BY <1>1, MineDiff
<1>5. Or(MineE(ui'.edits), p)
  BY <1>1, <1>3, <1>4 DEF Back, Or
<1>6. ~SentAtRest(View(world, ui.patch))
  BY <1>1 DEF SentAtRest, Quiet
<1> QED  BY <1>1, <1>3, <1>5, <1>6 DEF Back, Or

LEMMA BackBuild ==
  ASSUME Context, Reopening, Open \/ Rebuild
  PROVE  /\ radio' = "running" /\ cmds' = cmds /\ ui' = ui
         /\ \A p : Back(p) => Back(p)'
<1>0. /\ EditTypes /\ want \in Dials /\ plan.edits \in EditSet /\ disk \in EditSet
      /\ plan.dial \in Dials /\ rx.node \in Maps(Ids, Values) /\ rx.recording \in BOOLEAN
      /\ Sound(plan.edits) /\ Sound(disk)
  BY RxParts DEF Context, Common, EditTypes, Unbroken, Reopening
<1>1. CASE Open
  <2>1. /\ plan' = [dial |-> plan.dial, edits |-> disk]
        /\ UNCHANGED <<world, ui, disk, cmds, shown, unseen>> /\ radio = "opening"
    BY <1>0, <1>1, OpenParts
  <2>2. Builds(Assembled(disk, plan.dial))
    BY <1>0, SoundBuilds
  <2>3. radio' = "running"
    BY <1>1, <2>2 DEF Open
  <2>4. shown = {} /\ plan'.edits = disk
    BY <2>1 DEF Context, Common, Published
  <2>5. ASSUME NEW p, Back(p) PROVE Back(p)'
    BY <2>1, <2>3, <2>4, <2>5 DEF Back, Or
  <2> QED  BY <2>1, <2>3, <2>5
<1>2. CASE Rebuild
  <2>1. /\ due \/ want # plan.dial
        /\ RebuiltFirst \/ RebuiltAgain \/ RebuiltNot
        /\ UNCHANGED <<world, ui, disk, cmds, want>> /\ radio = "running"
        /\ NewDial \in Dials
    BY <1>0, <1>2, RebuildParts
  <2>2. Builds(Assembled(plan.edits, NewDial))
    BY <1>0, <2>1, SoundBuilds
  <2>3. RebuiltFirst
    BY <2>1, <2>2 DEF RebuiltAgain, RebuiltNot
  <2>4. radio' = "running" /\ rx'.patch = Assembled(plan.edits, NewDial) /\ plan'.edits = plan.edits
    BY <1>0, <2>1, <2>3, RebuiltAsRuns DEF RebuiltFirst
  <2>5. Mine(rx'.patch) = MineE(plan.edits)
    BY <1>0, <2>1, <2>4, MineAssembled
  <2>6. ~SentAtRest(View(world, ui.patch))
    BY <2>1 DEF SentAtRest, Quiet
  <2>7. ASSUME NEW p, Back(p) PROVE Back(p)'
    BY <2>1, <2>4, <2>5, <2>6, <2>7 DEF Back, Or
  <2> QED  BY <2>1, <2>4, <2>7
<1> QED  BY <1>1, <1>2

(* Any step. *)
LEMMA EchoedStep ==
  ASSUME Context, Echoed, [EditsNext]_editVars
  PROVE  Echoed'
<1>0. EditTypes /\ world' = world
  BY WorldKept DEF Context, Common
<1>1. SUFFICES ASSUME Reopening
               PROVE  /\ radio' = "off" => cmds' = <<>>
                      /\ radio' \in {"off", "stopped"} => ~unseen' \/ shown' = {}
                      /\ \A p \in ui'.sent : Back(p)'
  BY <1>0 DEF Echoed, Reopening, Calm
<1>2. /\ radio = "off" => cmds = <<>>
      /\ radio \in {"off", "stopped"} => ~unseen \/ shown = {}
      /\ \A p \in ui.sent : Back(p)
  BY <1>1 DEF Echoed
<1>3. CASE \E new \in Graphs, un, re \in Seq(Graphs) : Sends(new, un, re) /\ Redraws(new, un, re)
  <2>1. PICK new \in Graphs, un, re \in Seq(Graphs) : Sends(new, un, re) /\ Redraws(new, un, re)
    BY <1>3
  <2>2. UNCHANGED <<radio, shown, unseen>>
    BY <1>0, <2>1, SendsParts
  <2>3. Back(new)' /\ ui'.sent = {new} /\ (radio' = "off" => cmds' = <<>>)
    BY <1>1, <2>1, BackSends
  <2>4. \A p : p = new => Back(p)'
    BY <2>3
  <2> QED  BY <1>2, <2>2, <2>3, <2>4
<1>4. CASE Minor
  <2>1. UNCHANGED <<world, ui, disk, rx, shown, unseen>>
    BY <1>4, MinorKeeps DEF Context
  <2>2. CASE \E s \in Ids, b \in BOOLEAN : Tweak(s, b)
    BY <1>1, <2>2 DEF Tweak, Reopening
  <2>3. CASE \E d \in Dials : Tune(d)
    <3>1. PICK d \in Dials : Tune(d)
      BY <2>3
    <3> DEFINE m == [op |-> "center", dial |-> d]
    <3>2. m \in Commands /\ Send(m) /\ radio = "running"
          /\ UNCHANGED <<world, ui, disk, radio, plan, want, due, rx, shown, unseen>>
      BY <1>0, <3>1, TuneParts
    <3>3. m.op # "edits"
      OBVIOUS
    <3> HIDE DEF m
    <3>4. /\ cmds # <<>> => cmds' # <<>> /\ 1 \in 1 .. Len(cmds)
          /\ \A i \in 1 .. Len(cmds) : cmds'[i] = cmds[i]
          /\ \A i \in 1 .. Len(cmds') : cmds'[i] = m \/ (i \in 1 .. Len(cmds) /\ cmds'[i] = cmds[i])
      BY <1>0, <3>2, Sent DEF EditTypes
    <3>5. \A p \in ui.sent : Back(p)'
      BY <1>2, <3>2, <3>3, <3>4, BackKept
    <3> QED  BY <2>1, <3>2, <3>5
  <2>4. CASE LetGo
    <3>1. /\ AtRest \/ radio = "stopped"
          /\ cmds' = <<>> /\ radio' = "off"
          /\ UNCHANGED <<plan, want, due>> /\ cmds' = <<>>
      BY <1>1, <2>4 DEF LetGo, Reopening, Calm
    <3>2. ~unseen \/ shown = {}
      BY <1>2, <3>1 DEF AtRest
    <3>3. \A i \in 1 .. Len(cmds') : FALSE
      BY <3>1
    <3>4. \A p \in ui.sent : Back(p)'
      BY <1>2, <2>1, <3>1, <3>3, BackKept
    <3> QED  BY <2>1, <3>1, <3>2, <3>4
  <2>5. CASE OpenFails
    <3>1. radio = "opening" /\ radio' = "stopped" /\ UNCHANGED <<cmds, plan, want, due>>
      BY <2>5 DEF OpenFails
    <3>2. shown = {}
      BY <3>1 DEF Context, Common, Published
    <3>3. \A i \in 1 .. Len(cmds') : i \in 1 .. Len(cmds) /\ cmds'[i] = cmds[i]
      BY <3>1
    <3>4. \A p \in ui.sent : Back(p)'
      BY <1>2, <2>1, <3>1, <3>3, BackKept
    <3> QED  BY <2>1, <3>1, <3>2, <3>4
  <2>6. CASE TakeStart \/ TakeEdits \/ TakeCenter
    <3>1. PICK op : Take(op)
      BY <2>6 DEF TakeStart, TakeEdits, TakeCenter
    <3>2. radio' = "running"
      BY <3>1, TakeHead DEF Context
    <3>3. \A p \in ui.sent : Back(p)'
      BY <1>1, <1>2, <2>6, BackTakes
    <3> QED  BY <2>1, <3>2, <3>3
  <2> QED  BY <1>4, <2>2, <2>3, <2>4, <2>5, <2>6 DEF Minor
<1>5. CASE \E b \in BOOLEAN : Restart(b)
  <2>1. ui'.sent = {} /\ radio' = "opening"
    BY <1>5 DEF Restart, FreshUi, Connected
  <2> QED  BY <2>1
<1>6. CASE ConnectRadio
  <2>1. Connected(ui, disk) /\ UNCHANGED <<world, ui, disk>>
    BY <1>6 DEF ConnectRadio
  <2>2. /\ radio' = "opening" /\ shown' = {}
        /\ \A i \in 1 .. Len(cmds') : \/ i = 1 /\ cmds'[i].op = "start"
                                      \/ cmds'[i].op = "edits" /\ cmds'[i].edits = ui.edits
    BY <1>0, <2>1, UiParts, ConnectedParts
  <2>3. ASSUME NEW p, Back(p) PROVE Back(p)'
    BY <2>1, <2>2, <2>3 DEF Back, Or
  <2> QED  BY <1>2, <2>1, <2>2, <2>3
<1>7. CASE Poll
  <2>1. ui'.sent = ui.sent /\ UNCHANGED <<cmds, radio, shown>> /\ unseen' = FALSE
    BY <1>7, PollParts DEF Context
  <2>2. \A p \in ui.sent : Back(p)'
    BY <1>2, <1>7, BackPoll
  <2> QED  BY <1>2, <2>1, <2>2
<1>8. CASE Flush
  <2>1. /\ ui'.sent = ui.sent /\ ui'.patch = ui.patch /\ ui'.edits = ui.edits /\ disk' = ui.edits
        /\ UNCHANGED <<world, cmds, radio, plan, want, due, rx, shown, unseen>>
    BY <1>0, <1>8, FlushParts
  <2>2. \A i \in 1 .. Len(cmds') : i \in 1 .. Len(cmds) /\ cmds'[i] = cmds[i]
    BY <2>1
  <2>3. \A p \in ui.sent : Back(p)'
    BY <1>2, <2>1, <2>2, BackKept
  <2> QED  BY <1>2, <2>1, <2>3
<1>9. CASE TakeParam
  <2>1. Calm
    BY <1>1 DEF Reopening
  <2>2. "tweaks" \in world
    BY <1>9, <2>1, ToldView
  <2> QED  BY <1>1, <2>2 DEF Reopening
<1>10. CASE Open \/ Rebuild
  <2>1. radio' = "running" /\ ui' = ui /\ \A p : Back(p) => Back(p)'
    BY <1>1, <1>10, BackBuild
  <2> QED  BY <1>2, <2>1
<1>11. CASE editVars' = editVars
  <2>1. UNCHANGED <<world, ui, disk, cmds, radio, plan, want, due, rx, shown, unseen>>
    BY <1>11 DEF editVars
  <2>2. \A i \in 1 .. Len(cmds') : i \in 1 .. Len(cmds) /\ cmds'[i] = cmds[i]
    BY <2>1
  <2>3. \A p \in ui.sent : Back(p)'
    BY <1>2, <2>1, <2>2, BackKept
  <2> QED  BY <1>2, <2>1, <2>3
<1> QED  BY <1>3, <1>4, <1>5, <1>6, <1>7, <1>8, <1>9, <1>10, <1>11, Frames DEF Context

-----------------------------------------------------------------------------
(***************************************************************************)
(* What is on screen and what runs.                                        *)
(***************************************************************************)

(* Looked at, the graph that runs is the one on screen, or it is about to be drawn *)
(* again, or what is on screen is on its way to it.                                *)
OnScreen == (Steady \/ Reopening) /\ radio = "running" /\ ~unseen /\ shown # {} =>
  \/ View(world, ui.patch) = View(world, rx.patch)
  \/ due
  \/ SentAtRest(View(world, ui.patch))
  \/ "reopens" \in world /\ DOMAIN Mine(ui.patch) = {}

(* Over a drawing sent, over commands taken, over a graph read. *)
LEMMA ScreenSends ==
  ASSUME Context, Calm, NEW new \in Graphs, NEW un \in Seq(Graphs), NEW re \in Seq(Graphs),
         Sends(new, un, re), Redraws(new, un, re), radio' = "running"
  PROVE  SentAtRest(View(world, ui.patch))'
<1> DEFINE c == [op |-> "edits", edits |-> Diff(new, ui.base)]
<1>1. /\ ui'.patch = new
      /\ UNCHANGED <<world, radio, plan, want, due, rx, shown, unseen>>
  BY SendsParts DEF Context, Common
<1>2. Quiet /\ ViewE(world, Diff(new, ui.base)) = View(world, new) /\ cmds' = <<c>>
  BY <1>1, SendView
<1>3. c.op = "edits" /\ c.edits = Diff(new, ui.base)
  OBVIOUS
<1> HIDE DEF c
<1>4. cmds' # <<>> /\ cmds'[1] = c
  BY <1>2, SentOne
<1> QED  BY <1>1, <1>2, <1>3, <1>4 DEF SentAtRest, Quiet

LEMMA ScreenTakes ==
  ASSUME Context, OnScreen, world' = world, TakeStart \/ TakeEdits \/ TakeCenter
  PROVE  OnScreen'
<1>0. EditTypes /\ Common
  BY DEF Context, Common
<1>1. UNCHANGED <<ui, rx, shown, unseen>> /\ radio = "running"
  BY DEF TakeStart, TakeEdits, TakeCenter, Take
<1>2. CASE TakeStart
  BY <1>2 DEF TakeStart, OnScreen
<1>3. CASE TakeCenter
  <2>1. cmds[1].op = "center" /\ due' = due
    <3>1. Take("center") /\ due' = due
      BY <1>3 DEF TakeCenter
    <3> QED  BY <1>0, <3>1, TakeHead
  <2>2. ~SentAtRest(View(world, ui.patch))
    BY <2>1 DEF SentAtRest
  <2> QED  BY <1>1, <2>1, <2>2 DEF OnScreen, Steady, Reopening, Calm
<1>4. CASE TakeEdits
  <2>1. (due' = TRUE \/ (due' = due /\ plan.edits = cmds[1].edits))
    BY <1>0, <1>4, TakeEditsParts
  <2>2. ASSUME ~due', SentAtRest(View(world, ui.patch))
        PROVE  View(world, ui.patch) = View(world, rx.patch)
    <3>1. ~due /\ ViewE(world, plan.edits) = View(world, ui.patch)
      BY <2>1, <2>2 DEF SentAtRest
    <3> QED  BY <1>1, <3>1, RunView
  <2> QED  BY <1>1, <2>1, <2>2 DEF OnScreen, Steady, Reopening, Calm
<1> QED  BY <1>2, <1>3, <1>4

LEMMA ScreenPoll ==
  ASSUME Context, Answered, Echoed, Steady \/ Reopening, radio = "running", shown # {}, Poll
  PROVE  \/ View(world, ui'.patch) = View(world, rx.patch)
         \/ "reopens" \in world /\ DOMAIN Mine(ui'.patch) = {}
<1>1. /\ ui'.patch = IF ui.sent # {RunShown} THEN RunShown ELSE ui.patch
      /\ unseen
  BY PollParts DEF Context
<1>2. RunShown = rx.patch /\ Builds(rx.patch)
  BY DEF RunShown, Context, Common, Running
<1>3. CASE ui.sent # {rx.patch}
  BY <1>1, <1>2, <1>3
<1>4. CASE ui.sent = {rx.patch}
  <2>1. ui'.patch = ui.patch /\ rx.patch \in ui.sent
    BY <1>1, <1>2, <1>4
  <2>2. ~SentAtRest(View(world, rx.patch))
    BY <1>1 DEF SentAtRest, Quiet
  <2>3. CASE Steady
    <3>1. Answer(rx.patch)
      BY <1>2, <2>1, <2>3 DEF Answered
    <3> QED  BY <2>1, <2>2, <3>1 DEF Answer
  <2>4. CASE Reopening
    <3>1. Or(Mine(ui.patch), rx.patch)
      BY <2>1, <2>4 DEF Echoed, Back
    <3>2. "reopens" \in world /\ ~Alone(world)
      BY <2>4 DEF Reopening, Alone
    <3>3. Mine(ui.patch) = Mine(rx.patch) => View(world, ui.patch) = View(world, rx.patch)
      BY <3>2 DEF View
    <3> QED  BY <2>1, <3>1, <3>2, <3>3 DEF Or
  <2> QED  BY <2>3, <2>4
<1> QED  BY <1>3, <1>4

(* Any step. *)
LEMMA ScreenStep ==
  ASSUME Context, Answered, Echoed, OnScreen, [EditsNext]_editVars
  PROVE  OnScreen'
<1>0. EditTypes /\ Common /\ world' = world
  BY WorldKept DEF Context, Common
<1>1. CASE \E new \in Graphs, un, re \in Seq(Graphs) : Sends(new, un, re) /\ Redraws(new, un, re)
  <2>1. PICK new \in Graphs, un, re \in Seq(Graphs) : Sends(new, un, re) /\ Redraws(new, un, re)
    BY <1>1
  <2>2. Calm /\ radio' = "running" => SentAtRest(View(world, ui.patch))'
    BY <2>1, ScreenSends
  <2> QED  BY <1>0, <2>2 DEF OnScreen, Steady, Reopening, Calm
<1>2. CASE Minor
  <2>1. UNCHANGED <<world, ui, rx, shown, unseen>>
    BY <1>0, <1>2, MinorKeeps
  <2>2. CASE \E s \in Ids, b \in BOOLEAN : Tweak(s, b)
    <3>1. PICK s \in Ids, b \in BOOLEAN : Tweak(s, b)
      BY <2>2
    <3>2. MayChange /\ radio = "running" /\ UNCHANGED <<radio, due>>
      BY <1>0, <3>1, TweakParts
    <3>3. Calm => cmds = <<>>
      BY <3>2 DEF MayChange, Calm, AtRest
    <3>4. Calm => ~SentAtRest(View(world, ui.patch))
      BY <3>3 DEF SentAtRest
    <3> QED  BY <2>1, <3>2, <3>4 DEF OnScreen, Steady, Reopening, Calm
  <2>3. CASE \E d \in Dials : Tune(d)
    <3>1. PICK d \in Dials : Tune(d)
      BY <2>3
    <3> DEFINE m == [op |-> "center", dial |-> d]
    <3>2. m \in Commands /\ Send(m) /\ radio = "running"
          /\ UNCHANGED <<radio, plan, want, due, rx, shown, unseen>>
      BY <1>0, <3>1, TuneParts
    <3> HIDE DEF m
    <3>3. cmds # <<>> => cmds' # <<>> /\ cmds'[1] = cmds[1]
      BY <1>0, <3>2, Sent DEF EditTypes
    <3>4. SentAtRest(View(world, ui.patch)) => SentAtRest(View(world, ui.patch))'
      BY <2>1, <3>2, <3>3 DEF SentAtRest, Quiet
    <3> QED  BY <2>1, <3>2, <3>4 DEF OnScreen, Steady, Reopening, Calm
  <2>4. CASE LetGo \/ OpenFails
    BY <2>4 DEF LetGo, OpenFails, OnScreen
  <2> QED  BY <1>0, <1>2, <2>2, <2>3, <2>4, ScreenTakes DEF Minor
<1>3. CASE (\E b \in BOOLEAN : Restart(b)) \/ ConnectRadio
  <2>1. radio' = "opening"
    BY <1>3 DEF Restart, ConnectRadio, Connected
  <2> QED  BY <2>1 DEF OnScreen
<1>4. CASE Poll
  <2>1. UNCHANGED <<radio, due, rx, shown>>
    BY <1>4, PollParts DEF Context
  <2> QED  BY <1>0, <1>4, <2>1, ScreenPoll DEF OnScreen, Steady, Reopening, Calm
<1>5. CASE Flush
  <2>1. /\ ui'.patch = ui.patch
        /\ UNCHANGED <<world, cmds, radio, plan, want, due, rx, shown, unseen>>
    BY <1>0, <1>5, FlushParts
  <2> QED  BY <2>1 DEF OnScreen, Steady, Reopening, Calm, SentAtRest, Quiet
<1>6. CASE Open
  <2>1. shown' = {}
    BY <1>0, <1>6 DEF Open, Common, Published
  <2> QED  BY <2>1 DEF OnScreen
<1>7. CASE TakeParam
  BY <1>7 DEF TakeParam, Publish, OnScreen
<1>8. CASE Rebuild
  <2>1. RebuiltFirst \/ RebuiltAgain \/ RebuiltNot
    BY <1>0, <1>8, RebuildParts
  <2>2. unseen' = TRUE \/ radio' = "stopped"
    BY <2>1 DEF RebuiltFirst, RebuiltAgain, RebuiltNot, RebuiltAs
  <2> QED  BY <2>2 DEF OnScreen
<1>9. CASE editVars' = editVars
  BY <1>9 DEF editVars, OnScreen, Steady, Reopening, Calm, SentAtRest, Quiet
<1> QED  BY <1>0, <1>1, <1>2, <1>3, <1>4, <1>5, <1>6, <1>7, <1>8, <1>9, Frames

-----------------------------------------------------------------------------
(***************************************************************************)
(* What a stage of the operator's holds over drawings taken back, drawings *)
(* that do not build and radios let go of.                                 *)
(***************************************************************************)

(* The edits kept in case the next do not build are those that run. *)
GoodIs == "tweaks" \notin world /\ Calm /\ radio = "running" /\ shown # {} /\ ~due
            => good = {plan.edits}

(* Any step keeps it. *)
LEMMA GoodStep ==
  ASSUME Context, GoodIs, [EditsNext]_editVars
  PROVE  GoodIs'
<1>0. EditTypes /\ Common /\ world' = world
  BY WorldKept DEF Context, Common
<1>1. CASE \E new \in Graphs, un, re \in Seq(Graphs) : Sends(new, un, re) /\ Redraws(new, un, re)
  BY <1>1 DEF Sends, GoodIs, Calm
<1>2. CASE Minor
  <2>1. UNCHANGED <<world, good, shown>>
    BY <1>0, <1>2, MinorKeeps
  <2>2. CASE (\E s \in Ids, b \in BOOLEAN : Tweak(s, b)) \/ (\E d \in Dials : Tune(d))
    BY <2>1, <2>2 DEF Tweak, Tune, GoodIs, Calm
  <2>3. CASE LetGo \/ OpenFails
    BY <2>3 DEF LetGo, OpenFails, GoodIs
  <2>4. CASE TakeStart
    BY <2>4 DEF TakeStart, GoodIs
  <2>5. CASE TakeCenter
    BY <2>1, <2>5 DEF TakeCenter, Take, GoodIs, Calm
  <2>6. CASE TakeEdits
    BY <2>1, <2>6 DEF TakeEdits, Take, GoodIs, Calm
  <2> QED  BY <1>2, <2>2, <2>3, <2>4, <2>5, <2>6 DEF Minor
<1>3. CASE (\E b \in BOOLEAN : Restart(b)) \/ ConnectRadio
  BY <1>3 DEF Restart, ConnectRadio, Connected, GoodIs
<1>4. CASE Poll
  BY <1>4 DEF Poll, GoodIs, Calm
<1>5. CASE Flush
  BY <1>5 DEF Flush, radioVars, GoodIs, Calm
<1>6. CASE Open
  BY <1>0, <1>6 DEF Open, Common, Published, GoodIs
<1>7. CASE TakeParam
  <2>1. Calm => "tweaks" \in world
    BY <1>7, ToldView
  <2> QED  BY <1>0, <2>1 DEF GoodIs, Calm
<1>8. CASE Rebuild
  <2>1. RebuiltFirst \/ RebuiltAgain \/ RebuiltNot
    BY <1>0, <1>8, RebuildParts
  <2>2. RebuiltFirst => good' = {plan'.edits}
    BY DEF RebuiltFirst, RebuiltAs
  <2>3. RebuiltAgain => good' = {plan'.edits}
    BY <1>0 DEF RebuiltAgain, RebuiltAs, EditTypes, One
  <2>4. RebuiltNot => radio' = "stopped"
    BY DEF RebuiltNot
  <2> QED  BY <2>1, <2>2, <2>3, <2>4 DEF GoodIs
<1>9. CASE editVars' = editVars
  BY <1>9 DEF editVars, GoodIs, Calm
<1> QED  BY <1>0, <1>1, <1>2, <1>3, <1>4, <1>5, <1>6, <1>7, <1>8, <1>9, Frames

(* Two drawings that say the same of every stage of the operator's that both feed. *)
FedIn(m)   == {s \in DOMAIN m : m[s].from # AsDrawn}
Near(m, n) == \A s \in FedIn(m) \cap FedIn(n) : m[s].set = n[s].set

(* Drawings kept one above the other, under the one on screen. *)
Stacked(st, top) ==
  /\ \A i \in 1 .. Len(st) - 1 : Near(Mine(st[i]), Mine(st[i + 1]))
  /\ st # <<>> => Near(Mine(st[Len(st)]), Mine(top))

(* Near goes both ways, and whatever feeds nothing is near anything. *)
LEMMA NearIs ==
  /\ \A m, n : Near(m, n) => Near(n, m)
  /\ \A m : Near(m, m)
  /\ \A m, n : DOMAIN m = {} => Near(m, n)
  BY DEF Near, FedIn

(* A change to the drawing tells no stage that feeds before and after. *)
LEMMA NearScreen ==
  ASSUME NEW new, FromScreen(new)
  PROVE  Near(Mine(ui.patch), Mine(new))
<1> SUFFICES ASSUME NEW s \in FedIn(Mine(ui.patch)) \cap FedIn(Mine(new))
             PROVE  Mine(ui.patch)[s].set = Mine(new)[s].set
  BY DEF Near
<1>1. s \in DOMAIN new.at \cap Own /\ s \in DOMAIN ui.patch.at \cap Own
  BY DEF FedIn, Mine
<1>2. Mine(new)[s] = new.at[s] /\ Mine(ui.patch)[s] = ui.patch.at[s]
  BY <1>1 DEF Mine
<1>3. new.at[s].from # AsDrawn
  BY <1>2 DEF FedIn
<1> QED  BY <1>1, <1>2, <1>3 DEF FromScreen

(* A drawing put on a stack, and one taken off. *)
LEMMA StackPush ==
  ASSUME NEW st \in Seq(Graphs), NEW top \in Graphs, NEW new,
         Stacked(st, top), Near(Mine(top), Mine(new))
  PROVE  Stacked(Append(st, top), new)
<1> DEFINE st2 == Append(st, top)
<1>1. /\ Len(st) \in Nat /\ Len(st2) = Len(st) + 1 /\ st2[Len(st) + 1] = top
      /\ \A i \in 1 .. Len(st) : st2[i] = st[i]
      /\ st # <<>> => Len(st) # 0
  OBVIOUS
<1>2. st = <<>> \/ Len(st) # 0
  BY <1>1
<1> HIDE DEF st2
<1>3. ASSUME NEW i \in 1 .. Len(st2) - 1 PROVE Near(Mine(st2[i]), Mine(st2[i + 1]))
  <2>1. i \in 1 .. Len(st)
    BY <1>1
  <2>2. CASE i = Len(st)
    BY <1>1, <2>1, <2>2 DEF Stacked
  <2>3. CASE i # Len(st)
    <3>1. i \in 1 .. Len(st) - 1 /\ i + 1 \in 1 .. Len(st)
      BY <1>1, <2>1, <2>3
    <3> QED  BY <1>1, <2>1, <3>1 DEF Stacked
  <2> QED  BY <2>2, <2>3
<1>4. Stacked(st2, new)
  BY <1>1, <1>3 DEF Stacked
<1> QED  BY <1>4 DEF st2

LEMMA StackPop ==
  ASSUME NEW st \in Seq(Graphs), NEW top, Stacked(st, top), st # <<>>
  PROVE  Stacked(SubSeq(st, 1, Len(st) - 1), st[Len(st)])
<1> DEFINE st2 == SubSeq(st, 1, Len(st) - 1)
<1>1. /\ Len(st) \in 1 .. Len(st) /\ Len(st2) = Len(st) - 1
      /\ \A i \in 1 .. Len(st) - 1 : st2[i] = st[i]
  BY ButLast
<1>2. st2 # <<>> => Len(st2) # 0
  <2>1. st2 \in Seq(Graphs)
    <3>1. \A i \in 1 .. Len(st) - 1 : st[i] \in Graphs
      BY <1>1
    <3> QED  BY <1>1, <3>1, SubSeqProperties
  <2> HIDE DEF st2
  <2> QED  BY <2>1
<1> HIDE DEF st2
<1>3. Len(st) \in Nat
  OBVIOUS
<1>4. ASSUME NEW i \in 1 .. Len(st2) - 1 PROVE Near(Mine(st2[i]), Mine(st2[i + 1]))
  <2>1. i \in 1 .. Len(st) - 1 /\ i + 1 \in 1 .. Len(st) - 1
    BY <1>1, <1>3
  <2> QED  BY <1>1, <2>1 DEF Stacked
<1>5. st2 # <<>> => Near(Mine(st2[Len(st2)]), Mine(st[Len(st)]))
  <2> HAVE st2 # <<>>
  <2>1. Len(st) - 1 \in 1 .. Len(st) - 1
    BY <1>1, <1>2, <1>3
  <2>2. Near(Mine(st[Len(st) - 1]), Mine(st[Len(st) - 1 + 1]))
    BY <2>1 DEF Stacked
  <2>3. Len(st) - 1 + 1 = Len(st)
    BY <1>3
  <2> QED  BY <1>1, <2>1, <2>2, <2>3
<1>6. Stacked(st2, st[Len(st)])
  BY <1>4, <1>5 DEF Stacked
<1> QED  BY <1>6 DEF st2

(* Where the operator takes drawings back, those kept differ from one to the next *)
(* in no setting of a stage that both feed, and the last is what is on screen.    *)
Chain == OneRoad /\ "undoes" \in world =>
  /\ Stacked(ui.undo, ui.patch) /\ Stacked(ui.redo, ui.patch)
  /\ ui.undo # <<>> \/ ui.redo # <<>> => ui.sent # {}
  /\ \A p \in ui.sent : Builds(p)

(* Who takes drawings back has the radio kept and no other road. *)
LEMMA ChainWorld ==
  ASSUME OneRoad, "undoes" \in world
  PROVE  Steady /\ Calm /\ "tweaks" \notin world /\ "breaks" \notin world
  BY DEF OneRoad, Steady, Calm

(* Only the operator's stages count. *)
LEMMA StackedOn ==
  ASSUME NEW st, NEW top, NEW new, Stacked(st, top), Mine(top) = Mine(new)
  PROVE  Stacked(st, new)
  BY DEF Stacked

(* An empty stack. *)
LEMMA StackNone ==
  ASSUME NEW top
  PROVE  Stacked(<<>>, top)
<1>1. \A i \in 1 .. Len(<<>>) - 1 : FALSE
  OBVIOUS
<1> QED  BY <1>1 DEF Stacked

(* The stacks over a drawing sent or taken back. *)
LEMMA ChainSends ==
  ASSUME Context, Chain, OneRoad, "undoes" \in world,
         NEW new \in Graphs, NEW un \in Seq(Graphs), NEW re \in Seq(Graphs),
         Redraws(new, un, re)
  PROVE  Stacked(un, new) /\ Stacked(re, new) /\ Near(Mine(ui.patch), Mine(new))
<1>0. /\ Stacked(ui.undo, ui.patch) /\ Stacked(ui.redo, ui.patch)
      /\ ui.undo \in Seq(Graphs) /\ ui.redo \in Seq(Graphs) /\ ui.patch \in Graphs
  BY UiParts DEF Chain, Context, Common
<1>1. CASE /\ "draws" \in world /\ FromScreen(new)
           /\ un = Append(ui.undo, ui.patch) /\ re = <<>>
  BY <1>0, <1>1, NearScreen, StackPush, StackNone
<1>2. CASE /\ ui.undo # <<>>
           /\ new = ui.undo[Len(ui.undo)]
           /\ un = SubSeq(ui.undo, 1, Len(ui.undo) - 1) /\ re = Append(ui.redo, ui.patch)
  <2>1. Near(Mine(new), Mine(ui.patch))
    BY <1>0, <1>2 DEF Stacked
  <2>2. Near(Mine(ui.patch), Mine(new))
    BY <2>1, NearIs
  <2> QED  BY <1>0, <1>2, <2>2, StackPush, StackPop
<1>3. CASE /\ ui.redo # <<>>
           /\ new = ui.redo[Len(ui.redo)]
           /\ re = SubSeq(ui.redo, 1, Len(ui.redo) - 1) /\ un = Append(ui.undo, ui.patch)
  <2>1. Near(Mine(new), Mine(ui.patch))
    BY <1>0, <1>3 DEF Stacked
  <2>2. Near(Mine(ui.patch), Mine(new))
    BY <2>1, NearIs
  <2> QED  BY <1>0, <1>3, <2>2, StackPush, StackPop
<1> QED  BY <1>1, <1>2, <1>3 DEF Redraws

(* A graph read has the operator's stages as they are on screen. *)
LEMMA ChainPoll ==
  ASSUME Context, Answered, Chain, OneRoad, "undoes" \in world, ui.sent # {}, Poll
  PROVE  Mine(ui'.patch) = Mine(ui.patch)
<1>1. /\ ui'.patch = IF ui.sent # {RunShown} THEN RunShown ELSE ui.patch
      /\ unseen
  BY PollParts DEF Context
<1>2. PICK p \in ui.sent : Builds(p)
  BY DEF Chain
<1>3. Answer(p) /\ "tweaks" \notin world
  BY <1>2, ChainWorld DEF Answered
<1>4. ~SentAtRest(View(world, p))
  BY <1>1 DEF SentAtRest, Quiet
<1>5. View(world, ui.patch) = View(world, p) /\ View(world, rx.patch) = View(world, p) /\ shown # {}
  BY <1>1, <1>3, <1>4 DEF Answer
<1>6. RunShown = rx.patch
  BY <1>5 DEF RunShown
<1>7. Mine(ui.patch) = Mine(rx.patch)
  BY <1>5, ViewMine
<1> QED  BY <1>1, <1>6, <1>7

(* Any step keeps the stacks. *)
LEMMA ChainStep ==
  ASSUME Context, Answered, Chain, [EditsNext]_editVars
  PROVE  Chain'
<1>0. EditTypes /\ Common /\ world' = world /\ (OneRoad' <=> OneRoad)
  BY WorldKept DEF Context, Common, OneRoad
<1>1. CASE ui' = ui
  BY <1>0, <1>1 DEF Chain
<1>2. CASE \E new \in Graphs, un, re \in Seq(Graphs) : Sends(new, un, re) /\ Redraws(new, un, re)
  <2>1. PICK new \in Graphs, un, re \in Seq(Graphs) : Sends(new, un, re) /\ Redraws(new, un, re)
    BY <1>2
  <2>2. ui'.patch = new /\ ui'.sent = {new} /\ ui'.undo = un /\ ui'.redo = re
    BY <1>0, <2>1, SendsParts
  <2>3. Common'
    BY <1>0, NextCommon
  <2>4. OneRoad /\ "undoes" \in world => Builds(new)
    BY <1>0, <2>2, <2>3, ChainWorld DEF Common, Unbroken
  <2>5. OneRoad /\ "undoes" \in world => Stacked(un, new) /\ Stacked(re, new)
    BY <2>1, ChainSends
  <2> QED  BY <1>0, <2>2, <2>4, <2>5 DEF Chain
<1>3. CASE \E b \in BOOLEAN : Restart(b)
  <2>1. ui'.sent = {} /\ ui'.undo = <<>> /\ ui'.redo = <<>>
    BY <1>3 DEF Restart, FreshUi
  <2> QED  BY <2>1, StackNone DEF Chain
<1>4. CASE Poll
  <2>1. ui'.sent = ui.sent /\ ui'.undo = ui.undo /\ ui'.redo = ui.redo
    BY <1>4, PollParts DEF Context
  <2>2. OneRoad /\ "undoes" \in world /\ ui.sent # {} => Mine(ui'.patch) = Mine(ui.patch)
    BY <1>4, ChainPoll
  <2>3. OneRoad /\ "undoes" \in world => Stacked(ui.undo, ui'.patch) /\ Stacked(ui.redo, ui'.patch)
    <3>1. CASE ui.sent # {}
      BY <2>2, <3>1, StackedOn DEF Chain
    <3>2. CASE ui.sent = {} /\ OneRoad /\ "undoes" \in world
      <4>1. ui.undo = <<>> /\ ui.redo = <<>>
        BY <3>2 DEF Chain
      <4> QED  BY <4>1, StackNone
    <3> QED  BY <3>1, <3>2
  <2> QED  BY <1>0, <2>1, <2>3 DEF Chain
<1>5. CASE Flush
  <2>1. ui'.sent = ui.sent /\ ui'.undo = ui.undo /\ ui'.redo = ui.redo /\ ui'.patch = ui.patch
    BY <1>0, <1>5, FlushParts
  <2> QED  BY <1>0, <2>1 DEF Chain
<1>6. CASE Minor \/ ConnectRadio \/ Open \/ TakeParam \/ Rebuild \/ editVars' = editVars
  <2>1. ui' = ui
    BY <1>0, <1>6, MinorKeeps DEF ConnectRadio, Open, TakeParam, Take, Rebuild, editVars
  <2> QED  BY <1>1, <2>1
<1> QED  BY <1>0, <1>2, <1>3, <1>4, <1>5, <1>6, Frames

(* Where one road leads to another drawing, all that is about is one of two, which *)
(* say the same of every stage of the operator's that both feed.  Settings that go *)
(* to the running graph by themselves leave what is not there behind.              *)
Within(m, X, Y) == m = X \/ m = Y \/ DOMAIN m = {}
Ashore == ~(radio = "running" /\ "tweaks" \in world)
Among(X, Y) ==
  /\ \A i \in 1 .. Len(cmds) : cmds[i].op = "edits" => Within(MineE(cmds[i].edits), X, Y)
  /\ radio = "running" => Within(Mine(rx.patch), X, Y) /\ Within(MineE(plan.edits), X, Y)
  /\ radio = "stopped" /\ shown # {} => Within(Mine(rx.patch), X, Y)
  /\ Ashore => /\ Within(MineE(ui.edits), X, Y) /\ Within(MineE(disk), X, Y)
               /\ Within(Mine(ui.patch), X, Y)
  /\ radio = "running" /\ "tweaks" \notin world => \A e \in good : Within(MineE(e), X, Y)
Alike == /\ radio = "opening" => good = {}
         /\ OneRoad => \E X, Y : Near(X, Y) /\ Among(X, Y)

(* Any two of what is about are near. *)
LEMMA WithinNear ==
  ASSUME NEW X, NEW Y, Near(X, Y), NEW m, NEW n, Within(m, X, Y), Within(n, X, Y)
  PROVE  Near(m, n)
  BY NearIs DEF Within

(* What one road rules out. *)
LEMMA RoadWorld ==
  ASSUME OneRoad
  PROVE  /\ Calm /\ (Steady \/ Reopening)
         /\ "tweaks" \in world => Steady /\ "breaks" \notin world /\ "reopens" \notin world
         /\ "reopens" \in world => "undoes" \notin world /\ "tweaks" \notin world
<1>1. \A a, b \in world \cap {"tweaks", "undoes", "breaks", "reopens"} : a = b
  BY DEF OneRoad
<1>2. "reopens" \in world => "undoes" \notin world /\ "tweaks" \notin world /\ "breaks" \notin world
  BY <1>1
<1>3. "tweaks" \in world => "breaks" \notin world /\ "reopens" \notin world
  BY <1>1
<1> QED  BY <1>2, <1>3 DEF OneRoad, Steady, Reopening, Calm

(* A drawing sent is near what runs: those are the two from then on. *)
LEMMA AlikeSends ==
  ASSUME Context, Echoed, OnScreen, GoodIs, Chain, OneRoad,
         NEW new \in Graphs, NEW un \in Seq(Graphs), NEW re \in Seq(Graphs),
         Sends(new, un, re), Redraws(new, un, re)
  PROVE  \E X, Y : Near(X, Y) /\ Among(X, Y)'
<1> DEFINE f == Diff(new, ui.base)
           c == [op |-> "edits", edits |-> f]
<1>0. PICK X, Y : X = Mine(new) /\ Y = Mine(rx.patch)
  OBVIOUS
<1>1. /\ ui'.patch = new /\ ui'.edits = f /\ disk' = f
      /\ UNCHANGED <<world, radio, plan, want, due, good, rx, shown, unseen>>
  BY SendsParts DEF Context, Common
<1>2. /\ Quiet \/ radio = "off"
      /\ Quiet => cmds' = <<c>>
      /\ radio = "off" => cmds' = cmds
      /\ MineE(f) = Mine(new)
  BY SendView, RoadWorld
<1>3. c.op = "edits" /\ c.edits = f
  OBVIOUS
<1> HIDE DEF c, f
<1>4. CASE Quiet
  <2>1. \A i \in 1 .. Len(cmds') : cmds'[i] = c
    BY <1>2, <1>4, SentOne
  <2>2. MineE(plan.edits) = Mine(rx.patch)
    <3>1. View(world, rx.patch) = ViewE(world, plan.edits)
      BY <1>4, RunView DEF Quiet
    <3> QED  BY <3>1, ViewMineE
  <2>3. "tweaks" \notin world => good = {plan.edits}
    BY <1>4, RoadWorld DEF GoodIs, Quiet
  <2>4. Near(Mine(new), Mine(rx.patch))
    <3>1. \/ Mine(ui.patch) = Mine(rx.patch)
          \/ "reopens" \in world /\ DOMAIN Mine(ui.patch) = {}
      <4>1. cmds = <<>>
        BY <1>4, SendView, RoadWorld
      <4>2. ~SentAtRest(View(world, ui.patch))
        BY <4>1 DEF SentAtRest
      <4>3. \/ View(world, ui.patch) = View(world, rx.patch)
            \/ "reopens" \in world /\ DOMAIN Mine(ui.patch) = {}
        BY <1>4, <4>2, RoadWorld DEF OnScreen, Quiet
      <4> QED  BY <4>3, ViewMine
    <3>2. CASE Mine(ui.patch) = Mine(rx.patch)
      <4>1. Near(Mine(ui.patch), Mine(new))
        <5>1. CASE FromScreen(new)
          BY <5>1, NearScreen
        <5>2. CASE "undoes" \in world
          BY <5>2, ChainSends
        <5> QED  BY <5>1, <5>2 DEF Redraws
      <4> QED  BY <3>2, <4>1, NearIs
    <3>3. CASE "reopens" \in world /\ DOMAIN Mine(ui.patch) = {}
      <4>1. FromScreen(new)
        BY <3>3, RoadWorld DEF Redraws
      <4>2. FedIn(Mine(new)) = {}
        <5> SUFFICES ASSUME NEW s \in FedIn(Mine(new)) PROVE FALSE
          OBVIOUS
        <5>1. s \in DOMAIN new.at \cap Own /\ Mine(new)[s] = new.at[s] /\ Mine(new)[s].from # AsDrawn
          BY DEF FedIn, Mine
        <5>2. s \in DOMAIN ui.patch.at \cap Own
          BY <4>1, <5>1 DEF FromScreen
        <5> QED  BY <3>3, <5>2 DEF Mine
      <4> QED  BY <4>2 DEF Near
    <3> QED  BY <3>1, <3>2, <3>3
  <2>5. Among(X, Y)'
    BY <1>0, <1>1, <1>2, <1>3, <1>4, <2>1, <2>2, <2>3 DEF Among, Within, Ashore, Quiet
  <2> QED  BY <1>0, <2>4, <2>5
<1>5. CASE radio = "off"
  <2>1. "reopens" \in world
    BY <1>5, RoadWorld DEF Context, InOrder
  <2>2. cmds' = <<>>
    BY <1>2, <1>5, <2>1, RoadWorld DEF Echoed, Steady
  <2>3. \A i \in 1 .. Len(cmds') : FALSE
    BY <2>2
  <2>4. Among(X, X)'
    BY <1>0, <1>1, <1>2, <1>5, <2>3 DEF Among, Within, Ashore
  <2> QED  BY <2>4, NearIs
<1> QED  BY <1>2, <1>4, <1>5

(* A step that moves nothing but commands, and each of the others. *)
LEMMA AmongKept ==
  ASSUME NEW X, NEW Y, Among(X, Y), UNCHANGED <<world, rx, shown>>,
         radio' = "running" => radio = "running" /\ good' = good
                               /\ Within(MineE(plan'.edits), X, Y),
         radio' = "stopped" /\ shown # {} => radio \in {"running", "stopped"},
         radio = "running" => radio' = "running" \/ "tweaks" \notin world,
         ui'.edits = ui.edits, ui'.patch = ui.patch, disk' \in {disk, ui.edits},
         \A i \in 1 .. Len(cmds') : cmds'[i].op = "edits" => Within(MineE(cmds'[i].edits), X, Y)
  PROVE  Among(X, Y)'
<1>1. Ashore' => Ashore
  BY DEF Ashore
<1>2. (radio = "running" => Within(Mine(rx.patch), X, Y) /\ Within(MineE(plan.edits), X, Y))'
  BY DEF Among
<1>3. (radio = "stopped" /\ shown # {} => Within(Mine(rx.patch), X, Y))'
  BY DEF Among
<1>4. (Ashore => /\ Within(MineE(ui.edits), X, Y) /\ Within(MineE(disk), X, Y)
                 /\ Within(Mine(ui.patch), X, Y))'
  BY <1>1 DEF Among
<1>5. (radio = "running" /\ "tweaks" \notin world => \A e \in good : Within(MineE(e), X, Y))'
  BY DEF Among
<1> QED  BY <1>2, <1>3, <1>4, <1>5 DEF Among

LEMMA AlikeMinor ==
  ASSUME Context, OneRoad, NEW X, NEW Y, Among(X, Y), Minor, world' = world
  PROVE  Among(X, Y)'
<1>0. EditTypes /\ Common
  BY DEF Context, Common
<1>1. UNCHANGED <<world, ui, disk, good, rx, shown>>
  BY <1>0, MinorKeeps
<1>2. \A i \in 1 .. Len(cmds) : cmds[i].op = "edits" => Within(MineE(cmds[i].edits), X, Y)
  BY DEF Among
<1>3. CASE (\E s \in Ids, b \in BOOLEAN : Tweak(s, b)) \/ (\E d \in Dials : Tune(d))
  <2>1. PICK m \in Commands : m.op # "edits" /\ Send(m) /\ radio = "running"
                              /\ UNCHANGED <<radio, plan>>
    <3>1. CASE \E s \in Ids, b \in BOOLEAN : Tweak(s, b)
      <4>1. PICK s \in Ids, b \in BOOLEAN : Tweak(s, b)
        BY <3>1
      <4> DEFINE m == [op |-> "param", stage |-> s, value |-> IF b THEN AsDrawn ELSE changes + 1, among |-> ui.topo]
      <4>2. m \in Commands /\ Send(m) /\ radio = "running" /\ UNCHANGED <<radio, plan>>
        BY <1>0, <4>1, TweakParts
      <4>3. m.op # "edits"
        OBVIOUS
      <4> HIDE DEF m
      <4> QED  BY <4>2, <4>3
    <3>2. CASE \E d \in Dials : Tune(d)
      <4>1. PICK d \in Dials : Tune(d)
        BY <3>2
      <4> DEFINE m == [op |-> "center", dial |-> d]
      <4>2. m \in Commands /\ Send(m) /\ radio = "running" /\ UNCHANGED <<radio, plan>>
        BY <1>0, <4>1, TuneParts
      <4>3. m.op # "edits"
        OBVIOUS
      <4> HIDE DEF m
      <4> QED  BY <4>2, <4>3
    <3> QED  BY <1>3, <3>1, <3>2
  <2>2. \A i \in 1 .. Len(cmds') : cmds'[i] = m \/ (i \in 1 .. Len(cmds) /\ cmds'[i] = cmds[i])
    BY <1>0, <2>1, Sent DEF EditTypes
  <2>3. Within(MineE(plan.edits), X, Y)
    BY <2>1 DEF Among
  <2>4. \A i \in 1 .. Len(cmds') : cmds'[i].op = "edits" => Within(MineE(cmds'[i].edits), X, Y)
    BY <1>2, <2>1, <2>2
  <2> QED  BY <1>1, <2>1, <2>3, <2>4, AmongKept
<1>4. CASE LetGo
  <2>1. "tweaks" \notin world /\ radio' = "off" /\ cmds' = <<>>
    BY <1>4, RoadWorld DEF LetGo
  <2>2. \A i \in 1 .. Len(cmds') : FALSE
    BY <2>1
  <2> QED  BY <1>1, <2>1, <2>2, AmongKept
<1>5. CASE OpenFails
  <2>1. radio = "opening" /\ radio' = "stopped" /\ cmds' = cmds
    BY <1>5 DEF OpenFails
  <2>2. shown = {}
    BY <1>0, <2>1 DEF Common, Published
  <2>3. \A i \in 1 .. Len(cmds') : cmds'[i].op = "edits" => Within(MineE(cmds'[i].edits), X, Y)
    BY <1>2, <2>1
  <2> QED  BY <1>1, <2>1, <2>2, <2>3, AmongKept
<1>6. CASE TakeStart \/ TakeEdits \/ TakeCenter
  <2>1. PICK op : Take(op) /\ (op = "edits" => TakeEdits) /\ (op # "edits" => plan' = plan)
    BY <1>6 DEF TakeStart, TakeEdits, TakeCenter
  <2>2. /\ radio = "running" /\ radio' = radio /\ 1 \in 1 .. Len(cmds)
        /\ \A i \in 1 .. Len(cmds') : i + 1 \in 1 .. Len(cmds) /\ cmds'[i] = cmds[i + 1]
        /\ Head(cmds) = cmds[1] /\ Head(cmds).op = op
    BY <1>0, <2>1, TakeParts
  <2>3. \A i \in 1 .. Len(cmds') : cmds'[i].op = "edits" => Within(MineE(cmds'[i].edits), X, Y)
    BY <1>2, <2>2
  <2>4. Within(MineE(plan'.edits), X, Y)
    <3>1. CASE op = "edits"
      <4>1. plan'.edits = cmds[1].edits /\ cmds[1].op = "edits"
        BY <1>0, <2>1, <2>2, <3>1, TakeEditsParts
      <4> QED  BY <1>2, <2>2, <4>1
    <3>2. CASE op # "edits"
      BY <2>1, <2>2, <3>2 DEF Among
    <3> QED  BY <3>1, <3>2
  <2> QED  BY <1>1, <2>2, <2>3, <2>4, AmongKept
<1> QED  BY <1>3, <1>4, <1>5, <1>6 DEF Minor

LEMMA AlikeRestart ==
  ASSUME Context, NEW b \in BOOLEAN, Restart(b)
  PROVE  \E X, Y : Near(X, Y) /\ Among(X, Y)'
<1>0. EditTypes
  BY DEF Context, Common
<1>1. PICK saved \in EditSet : disk' = saved /\ ui' = FreshUi(saved) /\ Connected(FreshUi(saved), saved)
  BY <1>0, RestartParts
<1>2. PICK X : X = MineE(saved)
  OBVIOUS
<1>3. /\ ui'.edits = saved /\ ui'.patch = EmptyPatch
      /\ FreshUi(saved).edits = saved /\ FreshUi(saved).seen = FALSE
  BY <1>1, FreshUiIs
<1>4. /\ radio' = "opening"
      /\ \A i \in 1 .. Len(cmds') : \/ i = 1 /\ cmds'[i].op = "start"
                                    \/ cmds'[i].op = "edits" /\ cmds'[i].edits = saved
  BY <1>0, <1>1, <1>3, ConnectedParts
<1>5. Among(X, X)'
  BY <1>1, <1>2, <1>3, <1>4, NothingMine DEF Among, Within, Ashore
<1> QED  BY <1>5, NearIs

LEMMA AlikePoll ==
  ASSUME Context, NEW X, NEW Y, Among(X, Y), Poll
  PROVE  Among(X, Y)'
<1>1. /\ ui'.patch = RunShown \/ ui'.patch = ui.patch
      /\ ui'.patch \in Graphs /\ BaseShown \in Bases
      /\ ui'.edits = Diff(ui'.patch, BaseShown) \/ ui'.edits = ui.edits
      /\ radio # "off"
      /\ UNCHANGED <<world, disk, cmds, radio, plan, good, rx, shown>>
  BY PollParts, ShownIs DEF Context
<1>2. ASSUME Ashore PROVE Within(Mine(RunShown), X, Y)
  <2>1. CASE shown = {}
    BY <2>1, NothingMine DEF RunShown, Within
  <2>2. CASE shown # {}
    <3>1. radio \in {"running", "stopped"} /\ RunShown = rx.patch
      BY <1>1, <2>2 DEF RunShown, Context, Common, Published, EditTypes
    <3> QED  BY <2>2, <3>1 DEF Among
  <2> QED  BY <2>1, <2>2
<1>3. ASSUME Ashore PROVE Within(Mine(ui'.patch), X, Y)
  BY <1>1, <1>2, <1>3 DEF Among
<1>4. MineE(Diff(ui'.patch, BaseShown)) = Mine(ui'.patch)
  BY <1>1, MineDiff
<1>5. ASSUME Ashore PROVE Within(MineE(ui'.edits), X, Y)
  BY <1>1, <1>3, <1>4, <1>5 DEF Among
<1> QED  BY <1>1, <1>3, <1>5 DEF Among, Ashore

(* What any rebuild leaves behind. *)
LEMMA RebuiltIs ==
  ASSUME EditTypes, world' = world, NewDial \in Dials
  PROVE  \A e, pool, r : RebuiltAs(e, pool, r) /\ pool \in Maps(Ids, Values) /\ r \in BOOLEAN =>
           /\ radio' = "running" /\ rx'.patch = Assembled(e, NewDial) /\ plan'.edits = e
           /\ DOMAIN rx'.node = Fed(rx'.patch)
           /\ \A s \in Fed(rx'.patch) : rx'.node[s]
                 = IF s \in Own \cap DOMAIN pool THEN pool[s] ELSE rx'.patch.at[s].set
<1>1. ASSUME NEW e, NEW pool, NEW r, RebuiltAs(e, pool, r), pool \in Maps(Ids, Values), r \in BOOLEAN
      PROVE  /\ radio' = "running" /\ rx'.patch = Assembled(e, NewDial) /\ plan'.edits = e
             /\ DOMAIN rx'.node = Fed(rx'.patch)
             /\ \A s \in Fed(rx'.patch) : rx'.node[s]
                   = IF s \in Own \cap DOMAIN pool THEN pool[s] ELSE rx'.patch.at[s].set
  <2> DEFINE p == Assembled(e, NewDial)
  <2>1. /\ NewDial \in Dials /\ p \in Graphs /\ plan' = [dial |-> NewDial, edits |-> e]
        /\ rx' = Receiver(p, NewDial, pool, r) /\ radio' = "running"
    BY <1>1, AssembledType DEF RebuiltAs, EditTypes
  <2> HIDE DEF p
  <2>2. rx'.patch = p /\ DOMAIN rx'.node = Fed(p)
        /\ \A s \in Fed(p) : rx'.node[s] = IF s \in Own \cap DOMAIN pool THEN pool[s] ELSE p.at[s].set
    BY <1>1, <2>1, ReceiverIs
  <2> QED  BY <2>1, <2>2 DEF p
<1> QED  BY <1>1

LEMMA AlikeBuild ==
  ASSUME Context, Alike, OneRoad, NEW X, NEW Y, Among(X, Y), Open \/ Rebuild
  PROVE  Among(X, Y)'
<1>0. /\ EditTypes /\ want \in Dials /\ plan.edits \in EditSet /\ disk \in EditSet
      /\ plan.dial \in Dials /\ rx.node \in Maps(Ids, Values) /\ rx.recording \in BOOLEAN
      /\ NoNodes \in Maps(Ids, Values)
  BY RxParts, NoNodesAre DEF Context, Common, EditTypes
<1>1. CASE Open
  <2>1. /\ plan' = [dial |-> plan.dial, edits |-> disk]
        /\ UNCHANGED <<world, ui, disk, cmds, good, shown>> /\ radio = "opening"
    BY <1>0, <1>1, OpenParts
  <2>2. shown = {} /\ good = {} /\ plan'.edits = disk
    BY <2>1 DEF Context, Common, Published, Alike
  <2>3. Within(MineE(disk), X, Y)
    BY <2>1 DEF Among, Ashore
  <2>4. radio' = "stopped" \/ (radio' = "running" /\ Mine(rx'.patch) = MineE(disk))
    <3>1. \/ radio' = "stopped"
          \/ radio' = "running" /\ rx' = Receiver(Assembled(disk, plan.dial), plan.dial, NoNodes, TRUE)
      BY <1>1 DEF Open
    <3>2. Receiver(Assembled(disk, plan.dial), plan.dial, NoNodes, TRUE).patch = Assembled(disk, plan.dial)
      BY DEF Receiver
    <3> QED  BY <1>0, <3>1, <3>2, MineAssembled
  <2> QED  BY <2>1, <2>2, <2>3, <2>4 DEF Among, Ashore, Within
<1>2. CASE Rebuild
  <2>1. /\ RebuiltFirst \/ RebuiltAgain \/ RebuiltNot
        /\ UNCHANGED <<world, ui, disk, cmds, want>> /\ radio = "running"
        /\ NewDial \in Dials
    BY <1>0, <1>2, RebuildParts
  <2>2. Within(Mine(rx.patch), X, Y) /\ Within(MineE(plan.edits), X, Y)
    BY <2>1 DEF Among
  <2>3. "tweaks" \in world => Builds(Assembled(plan.edits, NewDial))
    BY <1>0, <2>1, SoundBuilds, RoadWorld DEF Context, Common, Unbroken
  <2>4. CASE RebuiltFirst
    <3>0. world' = world /\ good' = {plan.edits} /\ RebuiltAs(plan.edits, rx.node, rx.recording)
      BY <2>1, <2>4 DEF RebuiltFirst
    <3>1. radio' = "running" /\ rx'.patch = Assembled(plan.edits, NewDial) /\ plan'.edits = plan.edits
      BY <1>0, <2>1, <3>0, RebuiltIs
    <3>2. Mine(rx'.patch) = MineE(plan.edits)
      BY <1>0, <2>1, <3>1, MineAssembled
    <3> QED  BY <2>1, <2>2, <3>0, <3>1, <3>2 DEF Among, Ashore
  <2>5. CASE RebuiltAgain
    <3>1. "tweaks" \notin world
      BY <2>3, <2>5 DEF RebuiltAgain
    <3>2. PICK e \in good : RebuiltAs(e, NoNodes, FALSE)
      BY <2>5 DEF RebuiltAgain
    <3>3. PICK no \in BOOLEAN : no = FALSE
      OBVIOUS
    <3>4. RebuiltAs(e, NoNodes, no) /\ world' = world /\ good' = good
      BY <2>1, <2>5, <3>2, <3>3 DEF RebuiltAgain
    <3>5. radio' = "running" /\ rx'.patch = Assembled(e, NewDial) /\ plan'.edits = e
      BY <1>0, <2>1, <3>4, RebuiltIs
    <3>6. e \in EditSet
      BY <3>2 DEF RebuiltAs
    <3>7. Mine(rx'.patch) = MineE(e)
      BY <1>0, <2>1, <3>5, <3>6, MineAssembled
    <3> QED  BY <2>1, <3>1, <3>2, <3>4, <3>5, <3>7 DEF Among, Ashore
  <2>6. CASE RebuiltNot
    <3>1. radio' = "stopped" /\ rx' = rx /\ "tweaks" \notin world
      BY <2>3, <2>6 DEF RebuiltNot
    <3> QED  BY <2>1, <2>2, <3>1 DEF Among, Ashore
  <2> QED  BY <2>1, <2>4, <2>5, <2>6
<1> QED  BY <1>1, <1>2

(* Any step keeps it. *)
LEMMA AlikeStep ==
  ASSUME Context, Echoed, OnScreen, GoodIs, Chain, Alike, [EditsNext]_editVars
  PROVE  Alike'
<1>0. EditTypes /\ Common /\ world' = world /\ (OneRoad' <=> OneRoad)
  BY WorldKept DEF Context, Common, OneRoad
<1>1. radio' = "opening" => good' = {}
  <2>1. CASE radio' = radio /\ good' = good
    BY <2>1 DEF Alike
  <2>2. CASE \E new \in Graphs, un, re \in Seq(Graphs) : Sends(new, un, re) /\ Redraws(new, un, re)
    BY <2>1, <2>2 DEF Sends
  <2>3. CASE Minor
    BY <2>1, <2>3 DEF Minor, Tweak, Tune, LetGo, OpenFails, TakeStart, TakeEdits, TakeCenter, Take
  <2>4. CASE (\E b \in BOOLEAN : Restart(b)) \/ ConnectRadio
    BY <2>4 DEF Restart, ConnectRadio, Connected
  <2>5. CASE Poll \/ Flush \/ TakeParam \/ editVars' = editVars
    BY <2>1, <2>5 DEF Poll, Flush, radioVars, TakeParam, Take, editVars
  <2>6. CASE Open
    BY <2>6 DEF Open
  <2>7. CASE Rebuild
    <3>1. RebuiltFirst \/ RebuiltAgain \/ RebuiltNot
      BY <1>0, <2>7, RebuildParts
    <3>2. radio' = "running" \/ radio' = "stopped"
      BY <3>1 DEF RebuiltFirst, RebuiltAgain, RebuiltNot, RebuiltAs
    <3> QED  BY <3>2
  <2> QED  BY <1>0, <2>2, <2>3, <2>4, <2>5, <2>6, <2>7, Frames
<1>2. ASSUME OneRoad PROVE \E X, Y : Near(X, Y) /\ Among(X, Y)'
  <2>0. PICK X, Y : Near(X, Y) /\ Among(X, Y)
    BY <1>2 DEF Alike
  <2>1. CASE \E new \in Graphs, un, re \in Seq(Graphs) : Sends(new, un, re) /\ Redraws(new, un, re)
    BY <1>2, <2>1, AlikeSends
  <2>2. CASE Minor
    <3>1. Among(X, Y)'
      BY <1>0, <1>2, <2>0, <2>2, AlikeMinor
    <3> QED  BY <2>0, <3>1
  <2>3. CASE \E b \in BOOLEAN : Restart(b)
    BY <2>3, AlikeRestart
  <2>4. CASE ConnectRadio
    <3>1. Connected(ui, disk) /\ UNCHANGED <<world, ui, disk>> /\ radio \in {"off", "stopped"}
      BY <2>4 DEF ConnectRadio
    <3>2. /\ radio' = "opening"
          /\ \A i \in 1 .. Len(cmds') : \/ i = 1 /\ cmds'[i].op = "start"
                                        \/ cmds'[i].op = "edits" /\ cmds'[i].edits = ui.edits
      BY <1>0, <3>1, UiParts, ConnectedParts
    <3>3. Among(X, Y)'
      BY <2>0, <3>1, <3>2 DEF Among, Within, Ashore
    <3> QED  BY <2>0, <3>3
  <2>5. CASE Poll
    <3>1. Among(X, Y)'
      BY <2>0, <2>5, AlikePoll
    <3> QED  BY <2>0, <3>1
  <2>6. CASE Flush
    <3>1. /\ ui'.patch = ui.patch /\ ui'.edits = ui.edits /\ disk' = ui.edits
          /\ UNCHANGED <<world, cmds, radio, plan, good, rx, shown>>
      BY <1>0, <2>6, FlushParts
    <3>2. Among(X, Y)'
      BY <2>0, <3>1 DEF Among, Within, Ashore
    <3> QED  BY <2>0, <3>2
  <2>7. CASE Open \/ Rebuild
    <3>1. Among(X, Y)'
      BY <1>2, <2>0, <2>7, AlikeBuild
    <3> QED  BY <2>0, <3>1
  <2>8. CASE TakeParam
    <3>1. /\ "tweaks" \in world /\ MineE(plan'.edits) = Mine(rx'.patch)
      BY <1>2, <2>8, RoadWorld, ToldView
    <3>2. radio' = "running" /\ NoEditsSent'
      <4>1. Take("param") /\ Calm /\ InOrder
        BY <1>2, <2>8, RoadWorld DEF TakeParam, Context
      <4> QED  BY <1>0, <4>1, TakeHead
    <3>3. PICK Z : Z = Mine(rx'.patch)
      OBVIOUS
    <3>4. Among(Z, Z)'
      BY <1>0, <3>1, <3>2, <3>3 DEF Among, Within, Ashore, NoEditsSent
    <3> QED  BY <3>4, NearIs
  <2>9. CASE editVars' = editVars
    <3>1. Among(X, Y)'
      BY <2>0, <2>9 DEF Among, Within, Ashore, editVars
    <3> QED  BY <2>0, <3>1
  <2> QED  BY <1>0, <2>1, <2>2, <2>3, <2>4, <2>5, <2>6, <2>7, <2>8, <2>9, Frames
<1>3. OneRoad' => \E X, Y : Near(X, Y) /\ Among(X, Y)'
  BY <1>0, <1>2
<1>4. (OneRoad => \E X, Y : Near(X, Y) /\ Among(X, Y))'
  BY <1>3
<1> QED  BY <1>1, <1>4 DEF Alike

(* A stage of the operator's keeps its node, and the node what it holds. *)
OwnNodes == OneRoad /\ radio = "running" =>
  \A s \in DOMAIN rx.node \cap Own : rx.node[s] = rx.patch.at[s].set

(* A rebuild hands a node back to a stage that says what the node holds. *)
LEMMA OwnNodesRebuilt ==
  ASSUME Context, Alike, OwnNodes, OneRoad, Rebuild, radio' = "running",
         NEW s \in DOMAIN rx'.node \cap Own
  PROVE  rx'.node[s] = rx'.patch.at[s].set
<1>0. /\ EditTypes /\ NewDial \in Dials /\ plan.edits \in EditSet
      /\ rx.node \in Maps(Ids, Values) /\ rx.recording \in BOOLEAN
      /\ NoNodes \in Maps(Ids, Values) /\ DOMAIN NoNodes = {}
  BY RxParts, RebuildParts, NoNodesAre DEF Context, Common, EditTypes
<1>1. /\ RebuiltFirst \/ RebuiltAgain \/ RebuiltNot
      /\ world' = world /\ radio = "running"
  BY <1>0, RebuildParts
<1>2. CASE RebuiltFirst
  <2>1. RebuiltAs(plan.edits, rx.node, rx.recording)
    BY <1>2 DEF RebuiltFirst
  <2>2. /\ rx'.patch = Assembled(plan.edits, NewDial)
        /\ DOMAIN rx'.node = Fed(rx'.patch)
        /\ rx'.node[s] = IF s \in Own \cap DOMAIN rx.node THEN rx.node[s] ELSE rx'.patch.at[s].set
    BY <1>0, <1>1, <2>1, RebuiltIs
  <2>3. CASE s \notin DOMAIN rx.node
    BY <2>2, <2>3
  <2>4. CASE s \in DOMAIN rx.node
    <3>1. rx.node[s] = rx.patch.at[s].set /\ s \in Fed(rx.patch) /\ s \in Own
      BY <1>1, <2>4 DEF OwnNodes, Context, Common, Running
    <3>2. PICK X, Y : Near(X, Y) /\ Among(X, Y)
      BY DEF Alike
    <3>3. Within(Mine(rx.patch), X, Y) /\ Within(MineE(plan.edits), X, Y)
      BY <1>1, <3>2 DEF Among
    <3>4. MineE(plan.edits) = Mine(rx'.patch)
      BY <1>0, <2>2, MineAssembled
    <3>5. Near(Mine(rx.patch), Mine(rx'.patch))
      BY <3>2, <3>3, <3>4, WithinNear
    <3>6. s \in FedIn(Mine(rx.patch)) /\ Mine(rx.patch)[s] = rx.patch.at[s]
      BY <3>1 DEF FedIn, Mine, Fed
    <3>7. s \in FedIn(Mine(rx'.patch)) /\ Mine(rx'.patch)[s] = rx'.patch.at[s]
      BY <2>2, <3>1 DEF FedIn, Mine, Fed
    <3>8. rx.patch.at[s].set = rx'.patch.at[s].set
      BY <3>5, <3>6, <3>7 DEF Near
    <3> QED  BY <2>2, <2>4, <3>1, <3>8
  <2> QED  BY <2>3, <2>4
<1>3. CASE RebuiltAgain
  <2>1. PICK e \in good : RebuiltAs(e, NoNodes, FALSE)
    BY <1>3 DEF RebuiltAgain
  <2>2. PICK no \in BOOLEAN : no = FALSE
    OBVIOUS
  <2>3. RebuiltAs(e, NoNodes, no)
    BY <2>1, <2>2
  <2>4. /\ DOMAIN rx'.node = Fed(rx'.patch)
        /\ rx'.node[s] = IF s \in Own \cap DOMAIN NoNodes THEN NoNodes[s] ELSE rx'.patch.at[s].set
    BY <1>0, <1>1, <2>3, RebuiltIs
  <2> QED  BY <1>0, <2>4
<1>4. CASE RebuiltNot
  BY <1>4 DEF RebuiltNot
<1> QED  BY <1>1, <1>2, <1>3, <1>4

(* Any step keeps it. *)
LEMMA OwnNodesStep ==
  ASSUME Context, Alike, OwnNodes, [EditsNext]_editVars
  PROVE  OwnNodes'
<1>0. EditTypes /\ Common /\ world' = world /\ (OneRoad' <=> OneRoad)
  BY WorldKept DEF Context, Common, OneRoad
<1>1. CASE rx' = rx /\ (radio' = "running" => radio = "running")
  BY <1>0, <1>1 DEF OwnNodes
<1>2. CASE \E new \in Graphs, un, re \in Seq(Graphs) : Sends(new, un, re) /\ Redraws(new, un, re)
  BY <1>1, <1>2 DEF Sends
<1>3. CASE Minor
  <2>1. rx' = rx
    BY <1>0, <1>3, MinorKeeps
  <2>2. radio' = "running" => radio = "running"
    BY <1>3 DEF Minor, Tweak, Tune, LetGo, OpenFails, TakeStart, TakeEdits, TakeCenter, Take
  <2> QED  BY <1>1, <2>1, <2>2
<1>4. CASE (\E b \in BOOLEAN : Restart(b)) \/ ConnectRadio
  BY <1>4 DEF Restart, ConnectRadio, Connected, OwnNodes
<1>5. CASE Poll \/ Flush \/ editVars' = editVars
  BY <1>1, <1>5 DEF Poll, Flush, radioVars, editVars
<1>6. CASE Open
  <2>1. \/ radio' = "stopped"
        \/ radio' = "running" /\ rx' = Receiver(Assembled(disk, plan.dial), plan.dial, NoNodes, TRUE)
    BY <1>6 DEF Open
  <2>2. ASSUME radio' = "running", NEW s \in DOMAIN rx'.node \cap Own
        PROVE  rx'.node[s] = rx'.patch.at[s].set
    <3> DEFINE p == Assembled(disk, plan.dial)
    <3>1. rx' = Receiver(p, plan.dial, NoNodes, TRUE)
      BY <2>1, <2>2
    <3> HIDE DEF p
    <3>2. rx'.patch = p /\ rx'.node = NodesFor(p, NoNodes)
      BY <3>1 DEF Receiver
    <3> QED  BY <2>2, <3>2, NoNodesAre DEF NodesFor
  <2> QED  BY <2>2 DEF OwnNodes
<1>7. CASE TakeParam
  <2>1. PICK t \in SUBSET Ids :
           /\ rx'.patch = Told(rx.patch, t, cmds[1].value) /\ cmds[1].value \in Values
           /\ DOMAIN rx'.node = DOMAIN rx.node
           /\ \A s \in DOMAIN rx.node :
                 rx'.node[s] = IF s \in t THEN cmds[1].value ELSE rx.node[s]
           /\ Take("param")
    BY <1>0, <1>7, TakeParamParts
  <2>2. radio = "running" /\ rx.patch \in Graphs
    BY <1>0, <2>1, RxParts DEF Take
  <2>3. DOMAIN rx.node \subseteq DOMAIN rx.patch.at
    BY <1>0, <2>2 DEF Common, Running, Fed
  <2>4. \A s \in DOMAIN rx.patch.at :
          rx'.patch.at[s].set = IF s \in t THEN cmds[1].value ELSE rx.patch.at[s].set
    BY <2>1, <2>2, ToldIs
  <2> QED  BY <1>0, <2>1, <2>2, <2>3, <2>4 DEF OwnNodes
<1>8. CASE Rebuild
  BY <1>0, <1>8, OwnNodesRebuilt DEF OwnNodes
<1> QED  BY <1>0, <1>2, <1>3, <1>4, <1>5, <1>6, <1>7, <1>8, Frames

-----------------------------------------------------------------------------
(***************************************************************************)
(* The invariant, and what it gives.                                       *)
(***************************************************************************)

(* Everything together. *)
EditsInvariant == /\ world \in Worlds /\ Context /\ Answered /\ Echoed /\ OnScreen
                  /\ GoodIs /\ Chain /\ Alike /\ OwnNodes

(* It holds when the program starts, and every step keeps it. *)
LEMMA InitInvariant ==
  ASSUME EditsInit
  PROVE  EditsInvariant
<1>0. Common /\ Home \in Dials /\ EditTypes
  BY InitCommon, EditsAssumption DEF Common
<1>1. /\ world \in Worlds /\ disk = NoEdits /\ ui = FreshUi(NoEdits) /\ cmds = <<[op |-> "start"]>>
      /\ radio = "opening" /\ plan.dial = Home /\ plan.edits = NoEdits /\ want = Home /\ good = {}
      /\ rx = Receiver(EmptyPatch, Home, NoNodes, TRUE) /\ shown = {} /\ unseen = FALSE
      /\ changes = 0
  BY DEF EditsInit
<1>2. /\ rx.patch = EmptyPatch /\ rx.base = Base(Home)
  BY <1>1 DEF Receiver
<1>3. /\ ui.patch = EmptyPatch /\ ui.base = EmptyPatch /\ ui.sent = {} /\ ui.edits = NoEdits
      /\ ui.undo = <<>> /\ ui.redo = <<>>
  BY <1>1, NothingDrawn, FreshUiIs
<1>4. \A i \in 1 .. Len(cmds) : i = 1 /\ cmds[i].op = "start"
  BY <1>1, SentOne
<1>5. GraphsAround = {EmptyPatch} /\ EditsAround = {NoEdits}
  <2>1. \A i \in 1 .. Len(ui.undo) : FALSE
    BY <1>3
  <2>2. \A i \in 1 .. Len(ui.redo) : FALSE
    BY <1>3
  <2>3. {j \in 1 .. Len(cmds) : cmds[j].op = "edits"} = {}
    BY <1>4
  <2> QED  BY <1>1, <1>2, <1>3, <2>1, <2>2, <2>3 DEF GraphsAround, EditsAround
<1>6. Bounded
  <2>1. 0 \in Nat
    OBVIOUS
  <2>2. Below(EmptyPatch, 0) /\ BelowE(NoEdits, 0)
    BY <2>1, BelowNothing
  <2> QED  BY <1>1, <1>4, <1>5, <2>2 DEF Bounded
<1>7. Seen /\ NoDrawing
  BY <1>1, <1>3 DEF Seen, NoDrawing
<1>8. InOrder
  BY <1>1, <1>4 DEF InOrder, Placed
<1>9. AtHome
  BY <1>1, <1>2, <1>3, <1>5, EmptyAt DEF AtHome, InHome
<1>10. Context
  BY <1>0, <1>6, <1>7, <1>8, <1>9 DEF Context
<1>11. Answered /\ Echoed /\ OnScreen /\ GoodIs /\ OwnNodes
  BY <1>1, <1>3 DEF Answered, Echoed, OnScreen, GoodIs, OwnNodes
<1>12. Chain
  BY <1>3, StackNone DEF Chain
<1>13. Alike
  <2>1. PICK X : X = MineE(NoEdits)
    OBVIOUS
  <2>2. Among(X, X)
    BY <1>1, <1>3, <1>4, <2>1, NothingMine DEF Among, Within
  <2> QED  BY <1>1, <2>2, NearIs DEF Alike
<1> QED  BY <1>1, <1>10, <1>11, <1>12, <1>13 DEF EditsInvariant

LEMMA NextInvariant ==
  ASSUME EditsInvariant, [EditsNext]_editVars
  PROVE  EditsInvariant'
<1>0. Common /\ Context
  BY DEF EditsInvariant, Context
<1>1. world' = world /\ world \in Worlds
  BY <1>0, WorldKept DEF EditsInvariant
<1>2. Context'
  BY <1>0, NextCommon, SeenStep, BoundedStep, OrderStep, HomeStep DEF Context
<1>3. Answered' /\ Echoed' /\ OnScreen'
  BY AnsweredStep, EchoedStep, ScreenStep DEF EditsInvariant
<1>4. GoodIs' /\ Chain' /\ Alike' /\ OwnNodes'
  BY GoodStep, ChainStep, AlikeStep, OwnNodesStep DEF EditsInvariant
<1> QED  BY <1>1, <1>2, <1>3, <1>4 DEF EditsInvariant

(* The invariant of the operator's edits, for any stages, dials and spans, any
   number of changes and every trouble: what is published is what runs or ran
   last, what runs is what the plan says unless a rebuild is due, the queue is in
   order, and every drawing sent is answered by the graph that comes of it. *)
THEOREM EditsAreAnswered == EditsSpec => []EditsInvariant
<1>1. EditsInit => EditsInvariant
  BY InitInvariant
<1>2. EditsInvariant /\ [EditsNext]_editVars => EditsInvariant'
  BY NextInvariant
<1> QED  BY <1>1, <1>2, PTL DEF EditsSpec

(* At rest nothing is queued, nothing is due and everything has been read: of
   the ways what is on screen may differ from what runs none is left. *)
LEMMA ScreenHolds ==
  ASSUME EditsInvariant
  PROVE  ScreenIsRunning
<1> SUFFICES ASSUME NoEcho, AtRest
             PROVE  ui.patch.at = rx.patch.at /\ ui.patch.off = rx.patch.off /\ ui.base = rx.base
  BY DEF ScreenIsRunning, ScreenFollows
<1>1. Quiet /\ cmds = <<>>
  BY RestIs DEF EditsInvariant, Context
<1>2. ui.base = rx.base
  BY <1>1 DEF Quiet, EditsInvariant, Context, Seen
<1>3. CASE "draws" \notin world
  BY <1>1, <1>2, <1>3 DEF Quiet, EditsInvariant, Context, NoDrawing
<1>4. CASE "draws" \in world
  <2>1. Alone(world)
    BY <1>4, AloneIs
  <2>2. Steady /\ "reopens" \notin world
    BY <2>1 DEF Alone, Steady, Calm
  <2>3. ~SentAtRest(View(world, ui.patch))
    BY <1>1 DEF SentAtRest
  <2>4. View(world, ui.patch) = View(world, rx.patch)
    BY <1>1, <2>2, <2>3 DEF EditsInvariant, OnScreen, Quiet
  <2> QED  BY <1>2, <2>1, <2>4, ViewMine
<1> QED  BY <1>3, <1>4

(* The nodes are those of the drawing and hold what it says. *)
LEMMA NodesHold ==
  ASSUME EditsInvariant
  PROVE  KeptByRebuild
<1> SUFFICES ASSUME radio = "running"
             PROVE  /\ DOMAIN rx.node = Fed(rx.patch)
                    /\ \A s \in DOMAIN rx.node : (s \in Own => OneRoad) => rx.node[s] = rx.patch.at[s].set
                    /\ "breaks" \notin world => rx.recording
  BY DEF KeptByRebuild
<1>1. Running /\ Unbroken /\ OwnNodes
  BY DEF EditsInvariant, Context, Common
<1> QED  BY <1>1 DEF Running, Unbroken, OwnNodes

(* Everything is of its kind. *)
LEMMA TypesHold ==
  ASSUME EditsInvariant
  PROVE  EditsTypeOK
<1>1. Graphs = [at : UNION {[S -> [set : Values, from : Values]] : S \in SUBSET (Front \cup Own)},
                off : SUBSET (Front \cup Own), askew : BOOLEAN]
  BY DEF Graphs, Maps, Stages, Ids
<1>2. EditTypes /\ Published /\ world \in Worlds
  BY DEF EditsInvariant, Context, Common
<1>3. \A S : One(S) => S = {} \/ \E a : S = {a}
  BY DEF One
<1>4. Cardinality({}) = 0 /\ \A a : Cardinality({a}) = 1
  BY FS_EmptySet, FS_Singleton
<1>5. Cardinality(good) <= 1
  <2>1. CASE good = {}
    BY <1>4, <2>1
  <2>2. CASE \E a : good = {a}
    <3>1. PICK a : good = {a}
      BY <2>2
    <3>2. Cardinality(good) = 1
      BY <1>4, <3>1
    <3> QED  BY <3>2
  <2> QED  BY <1>2, <1>3, <2>1, <2>2 DEF EditTypes
<1>6. Cardinality(shown) <= 1
  <2>1. CASE shown = {}
    BY <1>4, <2>1
  <2>2. CASE shown # {}
    BY <1>2, <1>4, <2>2 DEF Published
  <2> QED  BY <2>1, <2>2
<1>7. /\ ui.patch \in Graphs /\ ui.base \in Graphs
      /\ rx.patch \in Graphs /\ rx.base \in Graphs
      /\ {plan.dial, want} \subseteq Dials
      /\ radio \in {"opening", "running", "stopped", "off"}
  BY <1>2, UiParts, RxParts, BasesAreGraphs DEF EditTypes

<1> QED  BY <1>1, <1>2, <1>5, <1>6, <1>7 DEF EditsTypeOK

(* The types of the variables. *)
THEOREM EditsTypes == EditsSpec => []EditsTypeOK
  BY EditsAreAnswered, TypesHold, PTL

(* What is on screen is what runs, on the base it drew, once everything sent has
   been taken (App::drain), where no drawing that was sent comes back by another
   road. *)
THEOREM ScreenFollowsRadio == EditsSpec => []ScreenIsRunning
  BY EditsAreAnswered, ScreenHolds, PTL

(* Over every rebuild each stage that is drawn and fed has its node, each node
   holds what the drawing says, and the recording goes on as long as no drawing
   fails (add_patch, Receiver::rebuild). *)
THEOREM RebuildsKeep == EditsSpec => []KeptByRebuild
  BY EditsAreAnswered, NodesHold, PTL

-----------------------------------------------------------------------------
(***************************************************************************)
(* What the edits come to: which of the four copies of them is what the    *)
(* operator means, and when.                                               *)
(***************************************************************************)

(* The order in which no change is lost, as NothingIsLost has it. *)
Heeded == Orderly /\ world \cap {"refuses", "breaks", "wanders"} = {}

(* Edits that say what can be read off the drawing they make, and no more. *)
Stands(e) == Diff(Assembled(e, Home), Base(Home)) = e

(* What the interface holds is on disk or about to be. *)
Written == ui.dirty \/ disk = ui.edits

(* Before a session's first graph the disk has it all, and nothing was read. *)
Restarted == radio # "running" =>
  /\ radio # "off" /\ ui.edits = disk /\ meant = disk
  /\ ~ui.dirty /\ ~ui.landed /\ ~ui.seen /\ shown = {}
  /\ \A i \in 1 .. Len(cmds) : /\ cmds[i].op # "param"
                               /\ cmds[i].op = "edits" => cmds[i].edits = disk
  /\ "roams" \in world => disk = NoEdits

(* Only who moves the dial is ever away. *)
Anchored == radio # "running" \/ "roams" \notin world => plan.dial = Home /\ want = Home

(* Until the first graph was read the interface has what it started with. *)
Unread ==
  /\ unseen => shown # {} /\ radio = "running"
  /\ ~ui.landed => /\ ui.edits = meant
                   /\ "roams" \in world => meant = NoEdits
                   /\ radio = "running" /\ shown # {} => unseen

(* Whatever may be started from again stands. *)
Standing ==
  /\ Stands(meant)
  /\ radio = "running" => Stands(plan.edits)
  /\ "roams" \notin world => Stands(ui.edits) /\ Stands(disk)

(* A change is with the plan, or at the head of the queue on its way there; the    *)
(* interface has it, or is about to read it off the graph.                         *)
Underway == radio = "running" =>
  /\ \A i \in 1 .. Len(cmds) : cmds[i].op = "edits" =>
        /\ cmds[i].edits = meant
        /\ plan.edits = meant \/ (Quiet /\ cmds[1].op # "start")
  /\ \A i \in 1 .. Len(cmds) : cmds[i].op = "param" =>
        /\ plan.dial = Home /\ ui.edits = plan.edits
        /\ meant = Diff(Told(rx.patch, {cmds[i].stage}, cmds[i].value), Base(Home))
  /\ (\A i \in 1 .. Len(cmds) : cmds[i].op \notin {"edits", "param"}) => plan.edits = meant
  /\ plan.dial = Home /\ shown # {} /\ ~unseen /\ (\A i \in 1 .. Len(cmds) : cmds[i].op # "param")
        => ui.edits = meant
  /\ plan.dial = Home /\ unseen => plan.edits = Diff(rx.patch, Base(Home))

Meant   == Restarted /\ Anchored /\ Unread /\ Standing /\ Underway
Meaning == Written /\ (Heeded => Meant)

(* What the order rules out. *)
LEMMA HeededIs ==
  ASSUME Heeded
  PROVE  /\ "reopens" \notin world /\ "breaks" \notin world /\ "refuses" \notin world
         /\ "wanders" \notin world /\ "returns" \notin world /\ "hasty" \notin world
         /\ "roams" \in world => "draws" \notin world /\ "restarts" \notin world
         /\ Calm /\ Steady /\ \A d : Refused(d) = {}
         /\ "draws" \in world => Alone(world)
<1>1. /\ "reopens" \notin world /\ "breaks" \notin world /\ "refuses" \notin world
      /\ "wanders" \notin world /\ "returns" \notin world /\ "hasty" \notin world /\ "full" \notin world
  BY DEF Heeded, Orderly
<1>2. "roams" \in world => "draws" \notin world /\ "restarts" \notin world
  BY DEF Heeded, Orderly
<1>3. Calm /\ Steady
  BY <1>1 DEF Calm, Steady
<1>4. \A d : Refused(d) = {}
  BY <1>1 DEF Refused
<1>5. "draws" \in world => Alone(world)
  BY <1>1, <1>2 DEF Alone
<1> QED  BY <1>1, <1>2, <1>3, <1>4, <1>5

(* What is read off a drawing does not say where in the list a stage is. *)
LEMMA DiffSame ==
  ASSUME NEW p, NEW q, NEW b, p.at = q.at, p.off = q.off
  PROVE  Diff(p, b) = Diff(q, b)
  BY DEF Diff

(* What is read off a drawing of the stages at home stands. *)
LEMMA DiffStands ==
  ASSUME Heeded, NEW p \in Graphs, InHome(p)
  PROVE  Stands(Diff(p, Base(Home)))
<1> DEFINE q == Patch(p.at, p.off)
<1>1. Assembled(Diff(p, Base(Home)), Home) = q
  BY HeededIs, Redrawn, EditsAssumption DEF InHome
<1>2. q.at = p.at /\ q.off = p.off
  BY DEF Patch
<1> HIDE DEF q
<1>3. Diff(q, Base(Home)) = Diff(p, Base(Home))
  BY <1>2, DiffSame
<1> QED  BY <1>1, <1>3 DEF Stands

(* One entry of the edits set. *)
LEMMA EntrySet ==
  ASSUME NEW e, NEW s, NEW v, NEW y,
         e = [stages |-> e.stages, removed |-> e.removed, settings |-> e.settings,
              links |-> e.links, off |-> e.off]
  PROVE  /\ [e EXCEPT !.stages[s] = v]
            = [stages |-> [e.stages EXCEPT ![s] = v], removed |-> e.removed,
               settings |-> e.settings, links |-> e.links, off |-> e.off]
         /\ [e EXCEPT !.settings = y]
            = [stages |-> e.stages, removed |-> e.removed, settings |-> y,
               links |-> e.links, off |-> e.off]
<1>1. PICK a, b, c, d, o : e = [stages |-> a, removed |-> b, settings |-> c, links |-> d, off |-> o]
  OBVIOUS
<1>2. [[stages |-> a, removed |-> b, settings |-> c, links |-> d, off |-> o] EXCEPT !.stages[s] = v]
       = [stages |-> [a EXCEPT ![s] = v], removed |-> b, settings |-> c, links |-> d, off |-> o]
  OBVIOUS
<1>3. [[stages |-> a, removed |-> b, settings |-> c, links |-> d, off |-> o] EXCEPT !.settings = y]
       = [stages |-> a, removed |-> b, settings |-> y, links |-> d, off |-> o]
  OBVIOUS
<1> QED  BY <1>1, <1>2, <1>3

(* A setting told to a stage that runs comes to one more entry in the edits. *)
LEMMA DiffTold ==
  ASSUME NEW p \in Graphs, InHome(p), NEW s \in DOMAIN p.at, NEW v \in Values, v # AsDrawn
  PROVE  LET e == Diff(p, Base(Home))
         IN  Diff(Told(p, {s}, v), Base(Home)) =
               IF s \in Own THEN [e EXCEPT !.stages[s] = v]
               ELSE [e EXCEPT !.settings = [t \in DOMAIN e.settings \cup {s} |->
                                              IF t = s THEN v ELSE e.settings[t]]]
<1> DEFINE e == Diff(p, Base(Home))
           q == Told(p, {s}, v)
           B == Base(Home)
           mine == DOMAIN p.at \cap Own
           both == DOMAIN p.at \cap DOMAIN B.at
           told == {t \in both : p.at[t].set # B.at[t].set}
           wired == {t \in both : p.at[t].from # B.at[t].from} \cup {t \in mine : p.at[t].from # AsDrawn}
           tolds == {t \in both : q.at[t].set # B.at[t].set}
           wireds == {t \in both : q.at[t].from # B.at[t].from} \cup {t \in mine : q.at[t].from # AsDrawn}
<1>1. /\ DOMAIN B.at = InSpan[Home] /\ InSpan[Home] \cap Own = {}
      /\ \A t \in InSpan[Home] : B.at[t].set = AsDrawn
      /\ DOMAIN p.at \subseteq Own \cup InSpan[Home]
  BY BaseAt, EditsAssumption DEF InHome
<1>2. /\ DOMAIN q.at = DOMAIN p.at /\ q.off = p.off
      /\ \A t \in DOMAIN p.at : /\ q.at[t].set = (IF t = s THEN v ELSE p.at[t].set)
                                /\ q.at[t].from = p.at[t].from
  BY ToldIs
<1>3. e = [stages   |-> [t \in mine |-> p.at[t].set],
           removed  |-> DOMAIN B.at \ DOMAIN p.at,
           settings |-> [t \in told |-> p.at[t].set],
           links    |-> [t \in wired |-> p.at[t].from],
           off      |-> p.off \ B.off]
  BY DEF Diff
<1>4. Diff(q, B) = [stages   |-> [t \in mine |-> q.at[t].set],
                    removed  |-> DOMAIN B.at \ DOMAIN p.at,
                    settings |-> [t \in tolds |-> q.at[t].set],
                    links    |-> [t \in wireds |-> q.at[t].from],
                    off      |-> p.off \ B.off]
  BY <1>2 DEF Diff
<1> HIDE DEF e, q, B
<1>5. wireds = wired
  BY <1>2
<1>6. [t \in wireds |-> q.at[t].from] = [t \in wired |-> p.at[t].from]
  BY <1>2, <1>5
<1>7. e = [stages |-> e.stages, removed |-> e.removed, settings |-> e.settings,
           links |-> e.links, off |-> e.off]
  BY <1>3
<1>8. CASE s \in Own
  <2>1. s \notin both
    BY <1>1, <1>8
  <2>2. tolds = told
    BY <1>2, <2>1
  <2>3. [t \in tolds |-> q.at[t].set] = [t \in told |-> p.at[t].set]
    BY <1>2, <2>1, <2>2
  <2>4. [t \in mine |-> q.at[t].set] = [[t \in mine |-> p.at[t].set] EXCEPT ![s] = v]
    BY <1>2, <1>8
  <2>5. e.stages = [t \in mine |-> p.at[t].set]
    BY <1>3
  <2> DEFINE x == [e.stages EXCEPT ![s] = v]
  <2>6. Diff(q, B) = [stages |-> x, removed |-> e.removed, settings |-> e.settings,
                      links |-> e.links, off |-> e.off]
    BY <1>3, <1>4, <1>6, <2>3, <2>4, <2>5
  <2>7. [e EXCEPT !.stages[s] = v] = [stages |-> x, removed |-> e.removed, settings |-> e.settings,
                                      links |-> e.links, off |-> e.off]
    BY <1>7, EntrySet
  <2> QED  BY <1>8, <2>6, <2>7 DEF e, q, B
<1>9. CASE s \notin Own
  <2>1. s \in both
    BY <1>1, <1>9
  <2>2. tolds = told \cup {s}
    BY <1>1, <1>2, <2>1
  <2> DEFINE y == [t \in DOMAIN e.settings \cup {s} |-> IF t = s THEN v ELSE e.settings[t]]
  <2>3. [t \in tolds |-> q.at[t].set] = y
    <3>1. e.settings = [t \in told |-> p.at[t].set]
      BY <1>3
    <3>2. DOMAIN e.settings = told /\ \A t \in told : e.settings[t] = p.at[t].set
      BY <3>1
    <3> QED  BY <1>2, <2>2, <3>2
  <2>4. [t \in mine |-> q.at[t].set] = [t \in mine |-> p.at[t].set]
    BY <1>2, <1>9
  <2> HIDE DEF y
  <2>5. Diff(q, B) = [stages |-> e.stages, removed |-> e.removed, settings |-> y,
                      links |-> e.links, off |-> e.off]
    BY <1>3, <1>4, <1>6, <2>3, <2>4
  <2>6. [e EXCEPT !.settings = y] = [stages |-> e.stages, removed |-> e.removed, settings |-> y,
                                      links |-> e.links, off |-> e.off]
    BY <1>7, EntrySet
  <2> QED  BY <1>9, <2>5, <2>6 DEF e, q, B, y
<1> QED  BY <1>8, <1>9 DEF e, q, B

(* At rest at home all copies come to the same. *)
LEMMA RestMeans ==
  ASSUME Context, Heeded, Written, Meant, AtRest, plan.dial = Home
  PROVE  /\ Quiet /\ cmds = <<>> /\ radio = "running" /\ shown # {} /\ ~unseen
         /\ plan.edits = meant /\ ui.edits = meant /\ (ui.dirty \/ disk = meant)
         /\ rx.base = Base(Home) /\ ui.base = Base(Home) /\ rx.patch \in Graphs /\ InHome(rx.patch)
         /\ ui.topo = Fed(rx.patch) /\ Fed(rx.patch) \subseteq DOMAIN rx.patch.at
         /\ Diff(rx.patch, Base(Home)) = meant /\ ui.landed /\ Stands(meant)
<1>1. Quiet /\ cmds = <<>>
  BY RestIs DEF Context
<1>2. \A i \in 1 .. Len(cmds) : FALSE
  BY <1>1
<1>3. radio = "running" /\ shown # {} /\ ~unseen /\ ~due
  BY <1>1 DEF Quiet
<1>4. plan.edits = meant
  BY <1>2, <1>3 DEF Meant, Underway
<1>5. ui.edits = meant
  BY <1>2, <1>3 DEF Meant, Underway
<1>6. /\ rx.base = Base(Home) /\ rx.patch = Assembled(meant, Home) /\ InHome(rx.patch)
  BY <1>3, <1>4 DEF Context, Common, Running, InHome
<1>7. Stands(meant)
  BY DEF Meant, Standing
<1>8. rx.patch \in Graphs
  BY RxParts DEF Context, Common
<1>9. ui.topo = Fed(rx.patch) /\ ui.base = Base(Home)
  BY <1>3, <1>6 DEF Context, Seen
<1>10. ui.landed
  BY <1>3, UiParts DEF Meant, Unread, Context, Common
<1> QED  BY <1>1, <1>3, <1>4, <1>5, <1>6, <1>7, <1>8, <1>9, <1>10, FedType DEF Stands, Written

(* What stands goes on standing. *)
LEMMA StandingNext ==
  ASSUME world' = world, Stands(meant'), radio' = "running" => Stands(plan'.edits),
         "roams" \notin world => Stands(ui'.edits) /\ Stands(disk')
  PROVE  Standing'
  BY DEF Standing, Stands, Assembled

(* Behind the head of the queue there is no setting, and edits only behind the start. *)
LEMMA Behind ==
  ASSUME Context, Calm, NEW op, Take(op)
  PROVE  \A i \in 1 .. Len(cmds') :
           /\ i + 1 \in 1 .. Len(cmds) /\ cmds'[i] = cmds[i + 1]
           /\ cmds'[i].op # "param"
           /\ cmds'[i].op = "edits" => op = "start"
<1>1. EditTypes
  BY DEF Context, Common
<1>2. /\ Len(cmds') \in Nat /\ 1 \in 1 .. Len(cmds) /\ cmds[1].op = op
      /\ \A i \in 1 .. Len(cmds') : i + 1 \in 1 .. Len(cmds) /\ cmds'[i] = cmds[i + 1]
  <2>1. cmds' \in Seq(Commands)
    BY <1>1, TakeParts
  <2> QED  BY <1>1, <2>1, TakeParts
<1>3. /\ \A i \in 1 .. Len(cmds) : cmds[i].op = "edits" => i = 1 \/ (i = 2 /\ cmds[1].op = "start")
      /\ \A i \in 1 .. Len(cmds) : cmds[i].op = "param" => i = 1
  BY DEF Context, InOrder, Placed
<1> QED  BY <1>2, <1>3

(* A setting waits at the head of a queue in which no edits are. *)
LEMMA ParamAlone ==
  ASSUME Context, Calm, NEW k \in 1 .. Len(cmds), cmds[k].op = "param"
  PROVE  /\ k = 1 /\ Quiet /\ Chosen(cmds[1]) /\ cmds # <<>>
         /\ \A i \in 1 .. Len(cmds) : cmds[i].op # "edits"
<1>1. k = 1 /\ Chosen(cmds[1])
  BY DEF Context, InOrder
<1>2. \A i \in 1 .. Len(cmds) : cmds[i].op = "edits" => i = 1 \/ (i = 2 /\ cmds[1].op = "start")
  BY DEF Context, InOrder, Placed
<1>3. cmds # <<>>
  OBVIOUS
<1> QED  BY <1>1, <1>2, <1>3 DEF Chosen

(* What has been published and not read is what the operator means, at home. *)
LEMMA UnseenMeant ==
  ASSUME Context, Calm, Meant, unseen
  PROVE  /\ radio = "running" /\ shown # {} /\ plan.edits = meant
         /\ \A i \in 1 .. Len(cmds) : cmds[i].op # "param"
         /\ plan.dial = Home => Diff(rx.patch, Base(Home)) = meant
<1>1. radio = "running" /\ shown # {} /\ ~Quiet
  BY DEF Meant, Unread, Quiet
<1>2. \A i \in 1 .. Len(cmds) : cmds[i].op # "param"
  BY <1>1, ParamAlone
<1>3. plan.edits = meant
  <2>1. CASE \E i \in 1 .. Len(cmds) : cmds[i].op = "edits"
    BY <1>1, <2>1 DEF Meant, Underway
  <2>2. CASE ~\E i \in 1 .. Len(cmds) : cmds[i].op = "edits"
    BY <1>1, <1>2, <2>2 DEF Meant, Underway
  <2> QED  BY <2>1, <2>2
<1>4. plan.dial = Home => plan.edits = Diff(rx.patch, Base(Home))
  BY <1>1 DEF Meant, Underway
<1> QED  BY <1>1, <1>2, <1>3, <1>4

(* The steps.  A drawing sent is what is meant from then on. *)
LEMMA MeantSends ==
  ASSUME Context, Context', Written, Heeded, Meant,
         NEW new \in Graphs, NEW un \in Seq(Graphs), NEW re \in Seq(Graphs),
         Sends(new, un, re), Redraws(new, un, re)
  PROVE  Written' /\ Meant'
<1>1. EditTypes /\ Calm /\ "reopens" \notin world /\ "wanders" \notin world /\ "hasty" \notin world
  BY HeededIs DEF Context, Common
<1>2. radio # "off"
  BY <1>1 DEF Context, InOrder
<1>3. AtRest /\ plan.dial = Home
  BY <1>1, <1>2 DEF Sends, MayChange
<1>4. /\ Quiet /\ cmds = <<>> /\ radio = "running" /\ shown # {} /\ ~unseen
      /\ plan.edits = meant /\ ui.base = Base(Home) /\ ui.landed /\ Stands(meant)
  BY <1>3, RestMeans
<1>5. "draws" \in world
  BY DEF Redraws, Context, NoDrawing
<1> DEFINE e == Diff(new, ui.base)
           c == [op |-> "edits", edits |-> e]
<1>6. /\ ui'.patch = new /\ ui'.edits = e /\ disk' = e /\ ui'.landed = ui.landed /\ c \in Commands /\ Send(c)
      /\ UNCHANGED <<world, radio, plan, want, due, good, rx, shown, unseen>>
  BY <1>1, SendsParts
<1>7. meant' = e
  BY DEF Sends
<1>8. cmds' = <<c>>
  <2>1. "full" \notin world
    BY <1>1 DEF Calm
  <2> QED  BY <1>4, <1>6, <2>1 DEF Send
<1>9. Alone(world)
  BY <1>5, HeededIs
<1>10. InHome(new)
  <2>1. AtHome' /\ Alone(world')
    BY <1>6, <1>9 DEF Context
  <2>2. \A p \in GraphsAround' : InHome(p)
    BY <2>1 DEF AtHome, InHome
  <2>3. ui'.patch \in GraphsAround'
    BY DEF GraphsAround
  <2> QED  BY <1>6, <2>2, <2>3
<1>11. Stands(e)
  BY <1>4, <1>10, DiffStands
<1> HIDE DEF e
<1>12. \A i \in 1 .. Len(cmds') : i = 1 /\ cmds'[i].op = "edits" /\ cmds'[i].edits = e
  BY <1>8, OneOrTwo
<1>13. cmds'[1].op = "edits" /\ Quiet'
  BY <1>4, <1>6, <1>8 DEF Quiet
<1>14. Standing'
  BY <1>4, <1>6, <1>7, <1>11, StandingNext
<1>15. Restarted' /\ Anchored' /\ Unread'
  BY <1>3, <1>4, <1>6 DEF Restarted, Anchored, Unread, Meant, Quiet
<1>16. Underway'
  <2>1. \A i \in 1 .. Len(cmds') : cmds'[i].op = "edits" =>
           /\ cmds'[i].edits = meant'
           /\ plan'.edits = meant' \/ (Quiet' /\ cmds'[1].op # "start")
    BY <1>7, <1>12, <1>13
  <2>2. \A i \in 1 .. Len(cmds') : cmds'[i].op # "param"
    BY <1>12
  <2>3. 1 \in 1 .. Len(cmds')
    BY <1>8, OneOrTwo
  <2>4. ~unseen' /\ ui'.edits = meant'
    BY <1>4, <1>6, <1>7
  <2> QED  BY <1>13, <2>1, <2>2, <2>3, <2>4 DEF Underway
<1> QED  BY <1>6, <1>14, <1>15, <1>16 DEF Written, Meant

(* A setting sent is what is meant, on top of what the graph says. *)
LEMMA MeantTweak ==
  ASSUME Context, Written, Heeded, Meant, NEW s \in Ids, NEW back \in BOOLEAN, Tweak(s, back)
  PROVE  Written' /\ Meant'
<1>0. EditTypes /\ Calm /\ "returns" \notin world /\ "reopens" \notin world /\ "wanders" \notin world
  BY HeededIs DEF Context, Common
<1> DEFINE v == changes + 1
           c == [op |-> "param", stage |-> s, value |-> v, among |-> ui.topo]
<1>1. ~back
  BY <1>0, TweakParts
<1>2. /\ Send(c) /\ MayChange /\ radio = "running" /\ s \in ui.topo /\ c \in Commands
      /\ UNCHANGED <<world, ui, disk, radio, plan, want, due, good, rx, shown, unseen>>
  BY <1>0, <1>1, TweakParts
<1>3. AtRest /\ plan.dial = Home
  BY <1>0, <1>2, HeededIs DEF MayChange
<1>4. /\ Quiet /\ cmds = <<>> /\ radio = "running" /\ shown # {} /\ ~unseen
      /\ plan.edits = meant /\ ui.edits = meant /\ ui.landed /\ Stands(meant)
      /\ rx.patch \in Graphs /\ InHome(rx.patch) /\ Diff(rx.patch, Base(Home)) = meant
      /\ s \in DOMAIN rx.patch.at
  BY <1>2, <1>3, RestMeans
<1>5. v \in Values /\ v # AsDrawn
  <2>1. changes \in Nat /\ changes < MaxChanges /\ MaxChanges \in Nat
    BY <1>0, <1>2, UiParts DEF MayChange
  <2> QED  BY <2>1 DEF Values, Broken, AsDrawn
<1> DEFINE q == Told(rx.patch, {s}, v)
           e == Diff(q, Base(Home))
<1>6. e = IF s \in Own THEN [meant EXCEPT !.stages[s] = v]
          ELSE [meant EXCEPT !.settings = [t \in DOMAIN meant.settings \cup {s} |->
                                             IF t = s THEN v ELSE meant.settings[t]]]
  <2> DEFINE d == Diff(rx.patch, Base(Home))
  <2>1. e = IF s \in Own THEN [d EXCEPT !.stages[s] = v]
            ELSE [d EXCEPT !.settings = [t \in DOMAIN d.settings \cup {s} |->
                                           IF t = s THEN v ELSE d.settings[t]]]
    BY <1>4, <1>5, DiffTold
  <2>2. d = meant
    BY <1>4
  <2> HIDE DEF d, e, v
  <2> QED  BY <2>1, <2>2
<1>7. meant' = e
  <2>1. meant' = IF s \in Own THEN [meant EXCEPT !.stages[s] = v]
                 ELSE [meant EXCEPT !.settings = [t \in (DOMAIN meant.settings \cup {s}) \ {} |->
                                                    IF t = s THEN v ELSE meant.settings[t]]]
    BY <1>1 DEF Tweak
  <2>2. (DOMAIN meant.settings \cup {s}) \ {} = DOMAIN meant.settings \cup {s}
    OBVIOUS
  <2> HIDE DEF e, v
  <2> QED  BY <1>6, <2>1, <2>2
<1>8. Stands(e)
  <2>1. q \in Graphs /\ DOMAIN q.at = DOMAIN rx.patch.at
    BY <1>4, <1>5, ToldIs
  <2>2. InHome(q)
    BY <1>4, <2>1 DEF InHome
  <2> HIDE DEF q
  <2> QED  BY <2>1, <2>2, DiffStands
<1> HIDE DEF e, v
<1>9. cmds' = <<c>>
  <2>1. "full" \notin world
    BY <1>0 DEF Calm
  <2> QED  BY <1>2, <1>4, <2>1 DEF Send
<1>10. \A i \in 1 .. Len(cmds') : /\ i = 1 /\ cmds'[i].op = "param"
                                  /\ cmds'[i].stage = s /\ cmds'[i].value = v
  BY <1>9, OneOrTwo
<1>11. 1 \in 1 .. Len(cmds') /\ cmds'[1].op = "param"
  BY <1>9, OneOrTwo
<1>12. Standing'
  BY <1>2, <1>4, <1>7, <1>8, StandingNext DEF Meant, Standing
<1>13. Restarted' /\ Anchored' /\ Unread'
  BY <1>2, <1>3, <1>4 DEF Restarted, Anchored, Unread, Meant, Quiet
<1>14. Underway'
  BY <1>2, <1>3, <1>4, <1>7, <1>10, <1>11 DEF Underway, e
<1> QED  BY <1>2, <1>12, <1>13, <1>14 DEF Written, Meant

(* A move of the dial asked for says nothing of the edits. *)
LEMMA MeantTune ==
  ASSUME Context, Written, Heeded, Meant, NEW d \in Dials, Tune(d)
  PROVE  Written' /\ Meant'
<1>0. EditTypes /\ "wanders" \notin world
  BY HeededIs DEF Context, Common
<1> DEFINE c == [op |-> "center", dial |-> d]
<1>1. /\ c \in Commands /\ Send(c) /\ radio = "running" /\ "roams" \in world
      /\ UNCHANGED <<world, ui, disk, radio, plan, want, due, good, rx, shown, unseen, meant>>
  BY <1>0, TuneParts DEF Tune
<1>2. /\ \A i \in 1 .. Len(cmds) : i \in 1 .. Len(cmds') /\ cmds'[i] = cmds[i]
      /\ \A i \in 1 .. Len(cmds') : i \in 1 .. Len(cmds) \/ cmds'[i] = c
      /\ cmds # <<>> => 1 \in 1 .. Len(cmds)
      /\ Len(cmds) \in Nat
  BY <1>0, <1>1, Sent DEF EditTypes
<1>3. c.op = "center"
  OBVIOUS
<1> HIDE DEF c
<1>4. \A i \in 1 .. Len(cmds') : cmds'[i].op \in {"edits", "param"} => i \in 1 .. Len(cmds) /\ cmds'[i] = cmds[i]
  BY <1>2, <1>3
<1>5. Quiet' <=> Quiet
  BY <1>1 DEF Quiet
<1>6. \A i \in 1 .. Len(cmds) : cmds'[1] = cmds[1]
  <2>1. ASSUME NEW i \in 1 .. Len(cmds) PROVE 1 \in 1 .. Len(cmds)
    BY <1>2
  <2> QED  BY <1>2, <2>1
<1>7. Standing'
  BY <1>1, StandingNext DEF Meant, Standing
<1>8. Restarted' /\ Anchored' /\ Unread'
  BY <1>1 DEF Restarted, Anchored, Unread, Meant
<1>9. Underway'
  <2>1. \A i \in 1 .. Len(cmds') : cmds'[i].op = "edits" =>
           /\ cmds'[i].edits = meant'
           /\ plan'.edits = meant' \/ (Quiet' /\ cmds'[1].op # "start")
    BY <1>1, <1>4, <1>5, <1>6 DEF Meant, Underway
  <2>2. \A i \in 1 .. Len(cmds') : cmds'[i].op = "param" =>
           /\ plan'.dial = Home /\ ui'.edits = plan'.edits
           /\ meant' = Diff(Told(rx'.patch, {cmds'[i].stage}, cmds'[i].value), Base(Home))
    BY <1>1, <1>4 DEF Meant, Underway
  <2>3. (\A i \in 1 .. Len(cmds') : cmds'[i].op \notin {"edits", "param"}) => plan'.edits = meant'
    BY <1>1, <1>2 DEF Meant, Underway
  <2>4. (\A i \in 1 .. Len(cmds') : cmds'[i].op # "param") => \A i \in 1 .. Len(cmds) : cmds[i].op # "param"
    BY <1>2
  <2>5. plan'.dial = Home /\ shown' # {} /\ ~unseen' /\ (\A i \in 1 .. Len(cmds') : cmds'[i].op # "param")
          => ui'.edits = meant'
    BY <1>1, <2>4 DEF Meant, Underway
  <2>6. plan'.dial = Home /\ unseen' => plan'.edits = Diff(rx'.patch, Base(Home))
    BY <1>1 DEF Meant, Underway
  <2> QED  BY <2>1, <2>2, <2>3, <2>5, <2>6 DEF Underway
<1> QED  BY <1>1, <1>7, <1>8, <1>9 DEF Written, Meant

(* A command taken leaves the plan with what is meant. *)
LEMMA MeantTakes ==
  ASSUME Context, Written, Heeded, Meant, TakeStart \/ TakeEdits \/ TakeCenter
  PROVE  Written' /\ Meant'
<1>0. EditTypes /\ Calm /\ "wanders" \notin world
  BY HeededIs DEF Context, Common
<1>1. PICK op \in {"start", "edits", "center"} : Take(op)
  BY DEF TakeStart, TakeEdits, TakeCenter
<1>2. /\ radio = "running" /\ 1 \in 1 .. Len(cmds) /\ cmds[1].op = op
      /\ UNCHANGED <<world, ui, disk, radio, meant>>
  BY <1>0, <1>1, TakeParts
<1>3. \A i \in 1 .. Len(cmds') : /\ i + 1 \in 1 .. Len(cmds) /\ cmds'[i] = cmds[i + 1]
                                 /\ cmds'[i].op # "param"
                                 /\ cmds'[i].op = "edits" => op = "start"
  BY <1>0, <1>1, Behind
<1>4. /\ plan'.dial = plan.dial /\ plan'.edits = (IF op = "edits" THEN cmds[1].edits ELSE plan.edits)
      /\ UNCHANGED <<rx, shown, unseen>>
      /\ op # "center" => want' = want
  <2>1. CASE TakeStart
    <3>1. op = "start"
      BY <1>2, <2>1, <1>0, TakeParts DEF TakeStart
    <3> QED  BY <2>1, <3>1 DEF TakeStart
  <2>2. CASE TakeEdits
    <3>1. op = "edits"
      BY <1>2, <2>2, <1>0, TakeParts DEF TakeEdits
    <3> QED  BY <1>0, <2>2, <3>1, TakeEditsParts
  <2>3. CASE TakeCenter
    <3>1. op = "center"
      BY <1>2, <2>3, <1>0, TakeParts DEF TakeCenter
    <3> QED  BY <1>0, <2>3, <3>1, TakeCenterParts
  <2> QED  BY <2>1, <2>2, <2>3
<1>5. \A i \in 1 .. Len(cmds) : cmds[i].op # "param"
  <2>1. SUFFICES ASSUME NEW i \in 1 .. Len(cmds), cmds[i].op = "param" PROVE FALSE
    OBVIOUS
  <2>2. i = 1
    BY <1>0, <2>1, ParamAlone
  <2> QED  BY <1>2, <2>1, <2>2
<1>6. plan'.edits = meant
  <2>1. CASE op = "edits"
    BY <1>2, <1>4, <2>1 DEF Meant, Underway
  <2>2. CASE op # "edits" /\ \E i \in 1 .. Len(cmds) : cmds[i].op = "edits"
    <3>1. PICK i \in 1 .. Len(cmds) : cmds[i].op = "edits"
      BY <2>2
    <3>2. cmds[1].op = "start"
      BY <1>0, <1>2, <2>2, <3>1 DEF Context, InOrder, Placed
    <3> QED  BY <1>2, <1>4, <2>2, <3>1, <3>2 DEF Meant, Underway
  <2>3. CASE op # "edits" /\ \A i \in 1 .. Len(cmds) : cmds[i].op # "edits"
    BY <1>2, <1>4, <1>5, <2>3 DEF Meant, Underway
  <2> QED  BY <2>1, <2>2, <2>3
<1>7. op = "center" => "roams" \in world
  BY <1>0, <1>2 DEF Context, InOrder, Placed
<1>8. Standing'
  BY <1>2, <1>6, StandingNext DEF Meant, Standing
<1>9. Restarted' /\ Anchored' /\ Unread'
  BY <1>2, <1>4, <1>7 DEF Restarted, Anchored, Unread, Meant
<1>10. Underway'
  <2>1. \A i \in 1 .. Len(cmds') : cmds'[i].op = "edits" => cmds'[i].edits = meant'
    BY <1>2, <1>3 DEF Meant, Underway
  <2>2. plan'.dial = Home /\ shown' # {} /\ ~unseen' => ui'.edits = meant'
    BY <1>2, <1>4, <1>5 DEF Meant, Underway
  <2>3. plan'.dial = Home /\ unseen' => plan'.edits = Diff(rx'.patch, Base(Home))
    <3>1. SUFFICES ASSUME plan.dial = Home, unseen PROVE plan'.edits = Diff(rx.patch, Base(Home))
      BY <1>4
    <3>2. Diff(rx.patch, Base(Home)) = meant
      BY <1>0, <3>1, UnseenMeant
    <3> QED  BY <1>6, <3>2
  <2> QED  BY <1>2, <1>3, <1>6, <2>1, <2>2, <2>3 DEF Underway
<1> QED  BY <1>2, <1>8, <1>9, <1>10 DEF Written, Meant

(* A radio that does not open leaves everything on disk. *)
LEMMA MeantOpenFails ==
  ASSUME Context, Written, Heeded, Meant, OpenFails \/ LetGo
  PROVE  Written' /\ Meant'
<1>1. /\ radio = "opening" /\ radio' = "stopped"
      /\ UNCHANGED <<world, ui, disk, cmds, plan, want, due, good, rx, shown, unseen, meant>>
  BY HeededIs DEF OpenFails, LetGo
<1>2. Standing'
  BY <1>1, StandingNext DEF Meant, Standing
<1>3. Restarted' /\ Anchored' /\ Unread' /\ Underway'
  BY <1>1 DEF Restarted, Anchored, Unread, Underway, Meant
<1> QED  BY <1>1, <1>2, <1>3 DEF Written, Meant

(* None of the steps that move nothing but commands loses a change. *)
LEMMA MeantMinor ==
  ASSUME Context, Written, Heeded, Meant, Minor
  PROVE  Written' /\ Meant'
  BY MeantTweak, MeantTune, MeantTakes, MeantOpenFails DEF Minor

(* A session starts from what is on disk. *)
LEMMA MeantStarts ==
  ASSUME EditTypes, world' = world, NEW u, Connected(u, disk'),
         u.edits = disk', u.seen = FALSE, ui' = u, ~u.dirty, ~u.landed, disk' \in EditSet,
         meant' = disk', plan.dial = Home, Stands(disk'), "roams" \in world => disk' = NoEdits
  PROVE  Written' /\ Meant'
<1>1. /\ radio' = "opening" /\ shown' = {} /\ unseen' = FALSE /\ want' = plan.dial /\ UNCHANGED <<plan, rx>>
      /\ \A i \in 1 .. Len(cmds') : \/ i = 1
                                    \/ cmds'[i].op = "edits" /\ cmds'[i].edits = disk'
      /\ cmds'[1].op = "start"
  <2>1. u.edits \in EditSet /\ u.seen \in BOOLEAN
    OBVIOUS
  <2> QED  BY <2>1, ConnectedParts
<1>2. Standing'
  BY <1>1, StandingNext
<1>3. Restarted'
  BY <1>1 DEF Restarted
<1>4. Anchored' /\ Unread' /\ Underway'
  BY <1>1 DEF Anchored, Unread, Underway
<1> QED  BY <1>2, <1>3, <1>4 DEF Written, Meant

(* What is saved when the program ends is what is meant from then on. *)
LEMMA MeantRestart ==
  ASSUME Context, Written, Heeded, Meant, NEW killed \in BOOLEAN, Restart(killed)
  PROVE  Written' /\ Meant'
<1>0. EditTypes /\ "roams" \notin world
  BY HeededIs DEF Context, Common, Restart
<1> DEFINE saved == IF ui.dirty /\ ~killed THEN ui.edits ELSE disk
<1>1. /\ saved \in EditSet /\ disk' = saved /\ ui' = FreshUi(saved) /\ Connected(FreshUi(saved), saved)
      /\ meant' = (IF killed \/ ~AtRest THEN saved ELSE meant) /\ world' = world
  BY <1>0, RestartParts
<1>2. plan.dial = Home
  BY <1>0 DEF Meant, Anchored
<1>3. Stands(saved)
  BY <1>0 DEF Meant, Standing
<1>4. meant' = saved
  <2>1. CASE killed \/ ~AtRest
    BY <1>1, <2>1
  <2>2. CASE ~killed /\ AtRest
    <3>1. ui.edits = meant /\ (ui.dirty \/ disk = meant)
      BY <1>2, <2>2, RestMeans
    <3>2. meant' = meant
      BY <1>1, <2>2
    <3> QED  BY <2>2, <3>1, <3>2
  <2> QED  BY <2>1, <2>2
<1> HIDE DEF saved
<1>5. PICK u : u = FreshUi(saved)
  OBVIOUS
<1>6. u.edits = saved /\ u.seen = FALSE /\ ~u.dirty /\ ~u.landed
  BY <1>1, <1>5, FreshUiIs
<1>7. Connected(u, disk') /\ ui' = u /\ u.edits = disk' /\ disk' \in EditSet /\ Stands(disk') /\ meant' = disk'
  BY <1>1, <1>3, <1>4, <1>5, <1>6
<1> QED  BY <1>0, <1>1, <1>2, <1>6, <1>7, MeantStarts

(* So does a radio that is asked for again. *)
LEMMA MeantConnect ==
  ASSUME Context, Written, Heeded, Meant, ConnectRadio
  PROVE  Written' /\ Meant'
<1>1. EditTypes
  BY DEF Context, Common
<1>2. /\ radio # "running" /\ Connected(ui, disk) /\ UNCHANGED <<world, ui, disk, changes, meant>>
  BY DEF ConnectRadio
<1>3. /\ ui.edits = disk /\ meant = disk /\ ~ui.dirty /\ ~ui.landed /\ ~ui.seen
      /\ plan.dial = Home
      /\ "roams" \in world => disk = NoEdits
  <2>1. radio # "running"
    BY <1>2
  <2> QED  BY <2>1 DEF Meant, Restarted, Anchored
<1>4. Stands(disk) /\ disk \in EditSet /\ ui.seen = FALSE
  BY <1>1, <1>3, UiParts DEF Meant, Standing, EditTypes
<1>5. PICK u : u = ui
  OBVIOUS
<1> QED  BY <1>1, <1>2, <1>3, <1>4, <1>5, MeantStarts

(* The receiver is built from the disk. *)
LEMMA MeantOpen ==
  ASSUME Context, Written, Heeded, Meant, Open
  PROVE  Written' /\ Meant'
<1>0. EditTypes /\ "breaks" \notin world
  BY HeededIs DEF Context, Common
<1>1. /\ radio = "opening" /\ plan' = [dial |-> plan.dial, edits |-> disk]
      /\ UNCHANGED <<world, ui, disk, cmds, want, due, good, shown, unseen, changes, meant>>
  BY <1>0, OpenParts
<1>2. /\ ui.edits = disk /\ meant = disk /\ ~ui.landed /\ shown = {} /\ ~unseen
      /\ \A i \in 1 .. Len(cmds) : /\ cmds[i].op # "param"
                                   /\ cmds[i].op = "edits" => cmds[i].edits = disk
      /\ plan.dial = Home /\ want = Home
  BY <1>1 DEF Meant, Restarted, Anchored, Unread
<1>3. radio' = "running"
  <2>1. Sound(disk) /\ disk \in EditSet /\ plan.dial \in Dials
    BY <1>0, RxParts DEF Context, Common, Unbroken, EditTypes
  <2> QED  BY <1>0, <2>1, OpenParts, SoundBuilds
<1>4. plan'.edits = disk /\ plan'.dial = Home
  BY <1>1, <1>2
<1>5. Standing'
  BY <1>1, <1>2, <1>4, StandingNext DEF Meant, Standing
<1>6. Restarted' /\ Anchored' /\ Unread'
  BY <1>1, <1>2, <1>3, <1>4 DEF Restarted, Anchored, Unread, Meant
<1>7. Underway'
  BY <1>1, <1>2, <1>4 DEF Underway
<1> QED  BY <1>1, <1>5, <1>6, <1>7 DEF Written, Meant

(* Edits written are those the interface holds. *)
LEMMA MeantFlush ==
  ASSUME Context, Written, Heeded, Meant, Flush
  PROVE  Written' /\ Meant'
<1>0. EditTypes
  BY DEF Context, Common
<1>1. /\ ui.dirty /\ disk' = ui.edits /\ ui'.edits = ui.edits /\ ui'.landed = ui.landed
      /\ UNCHANGED <<world, cmds, radio, plan, want, due, good, rx, shown, unseen, changes, meant>>
  BY <1>0, FlushParts
<1>2. radio = "running"
  BY <1>1 DEF Meant, Restarted
<1>3. Standing'
  BY <1>1, StandingNext DEF Meant, Standing
<1>4. Restarted' /\ Anchored' /\ Unread'
  BY <1>1, <1>2 DEF Restarted, Anchored, Unread, Meant
<1>5. Underway'
  BY <1>1 DEF Underway, Meant, Quiet
<1> QED  BY <1>1, <1>3, <1>4, <1>5 DEF Written, Meant

(* A setting taken is in the graph and in the plan as it was meant. *)
LEMMA MeantParam ==
  ASSUME Context, Written, Heeded, Meant, TakeParam
  PROVE  Written' /\ Meant'
<1>0. EditTypes /\ Calm
  BY HeededIs DEF Context, Common
<1>1. Take("param")
  BY DEF TakeParam
<1>2. /\ radio = "running" /\ 1 \in 1 .. Len(cmds) /\ cmds[1].op = "param"
      /\ UNCHANGED <<world, ui, disk, radio, good, changes, meant>>
  BY <1>0, <1>1, TakeParts
<1>3. cmds[1].among = DOMAIN rx.node
  BY <1>0, <1>2, ParamAlone DEF Chosen
<1>4. /\ rx'.patch = Told(rx.patch, {cmds[1].stage}, cmds[1].value) /\ want' = want
      /\ plan'.dial = plan.dial /\ plan'.edits = Diff(rx'.patch, rx.base)
      /\ shown' # {} /\ unseen' = TRUE
  <2>1. PICK t \in SUBSET Ids :
          /\ IF cmds[1].among = DOMAIN rx.node THEN t = {cmds[1].stage}
             ELSE t = {} \/ \E s \in DOMAIN rx.node : t = {s}
          /\ rx'.patch = Told(rx.patch, t, cmds[1].value)
          /\ plan' = [dial |-> plan.dial, edits |-> Diff(rx'.patch, rx.base)]
          /\ shown' = {[patch |-> rx'.patch, base |-> rx.base]} /\ unseen' = TRUE
          /\ want' = want
    BY TakeParamParts DEF Context
  <2> QED  BY <1>3, <2>1
<1>5. plan.dial = Home /\ meant = Diff(Told(rx.patch, {cmds[1].stage}, cmds[1].value), Base(Home))
  BY <1>2 DEF Meant, Underway
<1>6. rx.base = Base(Home)
  BY <1>2, <1>5 DEF Context, Common, Running
<1>7. plan'.edits = meant /\ plan'.edits = Diff(rx'.patch, Base(Home))
  BY <1>4, <1>5, <1>6
<1>8. \A i \in 1 .. Len(cmds') : cmds'[i].op # "param" /\ cmds'[i].op # "edits"
  <2>1. "param" # "start"
    OBVIOUS
  <2> QED  BY <1>0, <1>1, <2>1, Behind
<1>9. Standing'
  BY <1>2, <1>7, StandingNext DEF Meant, Standing
<1>10. Restarted' /\ Anchored' /\ Unread'
  BY <1>2, <1>4 DEF Restarted, Anchored, Unread, Meant
<1>11. Underway'
  BY <1>2, <1>4, <1>7, <1>8 DEF Underway
<1> QED  BY <1>2, <1>9, <1>10, <1>11 DEF Written, Meant

(* A rebuild draws the plan where the dial goes. *)
LEMMA MeantRebuild ==
  ASSUME Context, Written, Heeded, Meant, Rebuild
  PROVE  Written' /\ Meant'
<1>0. /\ EditTypes /\ Calm /\ "breaks" \notin world /\ plan.edits \in EditSet
      /\ NewDial \in Dials
  BY HeededIs, RxParts, RebuildParts DEF Context, Common, EditTypes
<1>1. /\ radio = "running" /\ ~Quiet
      /\ RebuiltFirst \/ RebuiltAgain \/ RebuiltNot
      /\ NewDial \in {plan.dial, want}
      /\ UNCHANGED <<world, ui, disk, cmds, want, changes, meant>>
  BY <1>0, RebuildParts DEF Quiet
<1>2. Builds(Assembled(plan.edits, NewDial))
  BY <1>0, SoundBuilds DEF Context, Common, Unbroken
<1>3. RebuiltAs(plan.edits, rx.node, rx.recording)
  BY <1>1, <1>2 DEF RebuiltFirst, RebuiltAgain, RebuiltNot
<1>4. /\ radio' = "running" /\ shown' # {} /\ unseen' = TRUE
      /\ rx'.patch = Assembled(plan.edits, NewDial) /\ plan'.edits = plan.edits /\ plan'.dial = NewDial
  BY <1>0, <1>1, <1>3, RxParts, RebuiltAsRuns DEF RebuiltAs
<1>5. \A i \in 1 .. Len(cmds) : cmds[i].op # "param"
  BY <1>0, <1>1, ParamAlone
<1>6. plan'.dial = Home => plan'.edits = Diff(rx'.patch, Base(Home))
  <2>1. Diff(Assembled(plan.edits, Home), Base(Home)) = plan.edits
    BY <1>1 DEF Meant, Standing, Stands
  <2> QED  BY <1>4, <2>1
<1>7. Standing'
  BY <1>1, <1>4, StandingNext DEF Meant, Standing
<1>8. Restarted' /\ Anchored' /\ Unread'
  BY <1>1, <1>4 DEF Restarted, Anchored, Unread, Meant
<1>9. Underway'
  BY <1>1, <1>4, <1>5, <1>6 DEF Underway, Meant
<1> QED  BY <1>1, <1>7, <1>8, <1>9 DEF Written, Meant

(* A graph read at home is read as what is meant, also where it is taken for the *)
(* one on screen.                                                                *)
LEMMA ReadMeans ==
  ASSUME Context, Answered, Heeded, Meant, Poll, plan.dial = Home
  PROVE  Diff(ui'.patch, BaseShown) = meant
<1>0. EditTypes /\ Common /\ Steady /\ Calm /\ "breaks" \notin world /\ unseen
  BY HeededIs, PollParts DEF Context, Common
<1>1. /\ radio = "running" /\ shown # {}
      /\ Diff(rx.patch, Base(Home)) = meant
  BY <1>0, UnseenMeant
<1>2. RunShown = rx.patch /\ BaseShown = Base(Home)
  BY <1>0, <1>1 DEF RunShown, BaseShown, Common, Running
<1>3. ui'.patch = IF ui.sent # {rx.patch} THEN rx.patch ELSE ui.patch
  BY <1>0, <1>2, PollParts
<1>4. CASE ui.sent # {rx.patch}
  BY <1>1, <1>2, <1>3, <1>4
<1>5. CASE ui.sent = {rx.patch}
  <2>1. rx.patch \in ui.sent /\ Builds(rx.patch) /\ "draws" \in world
    <3>1. "draws" \in world
      BY <1>5 DEF Context, NoDrawing
    <3> QED  BY <1>0, <1>5, <3>1 DEF Common, Running
  <2>2. Answer(rx.patch)
    BY <1>0, <2>1 DEF Answered
  <2>3. ~Quiet
    BY <1>0 DEF Quiet
  <2>4. View(world, ui.patch) = View(world, rx.patch)
    BY <2>2, <2>3 DEF Answer, SentAtRest
  <2>5. ui.patch.at = rx.patch.at /\ ui.patch.off = rx.patch.off
    BY <2>1, <2>4, HeededIs, ViewMine
  <2>6. Diff(ui.patch, Base(Home)) = Diff(rx.patch, Base(Home))
    BY <2>5, DiffSame
  <2> QED  BY <1>1, <1>2, <1>3, <1>5, <2>6
<1> QED  BY <1>4, <1>5

(* So the interface has it, and writes it if the disk has not. *)
LEMMA MeantPoll ==
  ASSUME Context, Answered, Written, Heeded, Meant, Poll
  PROVE  Written' /\ Meant'
<1>0. EditTypes /\ Common /\ Calm
  BY HeededIs DEF Context, Common
<1> DEFINE e == Diff(ui'.patch, BaseShown)
<1>1. /\ unseen /\ unseen' = FALSE /\ ui'.landed = Landed(e)
      /\ \/ ui'.edits = e /\ ui'.dirty = TRUE
         \/ ui'.edits = ui.edits /\ ui'.dirty = ui.dirty /\ (ui.edits = e \/ ~Landed(e))
      /\ UNCHANGED <<world, disk, cmds, radio, plan, want, due, good, rx, shown, changes, meant>>
  BY <1>0, PollParts
<1>2. /\ radio = "running" /\ shown # {} /\ plan.edits = meant
      /\ \A i \in 1 .. Len(cmds) : cmds[i].op # "param"
  BY <1>0, <1>1, UnseenMeant
<1>3. plan.dial = Home => e = meant
  BY ReadMeans
<1> HIDE DEF e
<1>4. Landed(e)
  <2>1. SUFFICES ASSUME ~ui.landed, e = NoEdits PROVE ui.edits = NoEdits
    BY DEF Landed
  <2>2. ui.edits = meant /\ ("roams" \in world => meant = NoEdits)
    BY <2>1 DEF Meant, Unread
  <2>3. "roams" \notin world => plan.dial = Home
    BY DEF Meant, Anchored
  <2> QED  BY <1>3, <2>1, <2>2, <2>3
<1>5. ui'.landed
  BY <1>1, <1>4
<1>6. ui'.edits = e
  BY <1>1, <1>4
<1>7. Written'
  BY <1>1, <1>4 DEF Written
<1>8. Standing'
  <2>1. Stands(meant) /\ Stands(plan.edits) /\ ("roams" \notin world => Stands(disk))
    BY <1>2 DEF Meant, Standing
  <2>2. "roams" \notin world => e = meant
    BY <1>3 DEF Meant, Anchored
  <2> QED  BY <1>1, <1>6, <2>1, <2>2, StandingNext
<1>9. Restarted' /\ Anchored' /\ Unread'
  BY <1>1, <1>2, <1>5 DEF Restarted, Anchored, Unread, Meant
<1>10. Underway'
  <2>1. \A i \in 1 .. Len(cmds) : cmds[i].op = "edits" => cmds[i].edits = meant
    BY <1>2 DEF Meant, Underway
  <2> QED  BY <1>1, <1>2, <1>3, <1>6, <2>1 DEF Underway
<1> QED  BY <1>7, <1>8, <1>9, <1>10 DEF Meant

(* Where the order is not kept only what is on disk is said, and that by every step. *)
LEMMA WrittenStep ==
  ASSUME Context, Written, [EditsNext]_editVars
  PROVE  Written'
<1>0. EditTypes /\ Common
  BY DEF Context, Common
<1>1. CASE \E new \in Graphs, un, re \in Seq(Graphs) : Sends(new, un, re) /\ Redraws(new, un, re)
  <2>1. PICK new \in Graphs, un, re \in Seq(Graphs) : Sends(new, un, re)
    BY <1>1
  <2> QED  BY <1>0, <2>1, SendsParts DEF Written
<1>2. CASE Minor
  BY <1>0, <1>2, MinorKeeps DEF Written
<1>3. CASE \E b \in BOOLEAN : Restart(b)
  <2>1. PICK b \in BOOLEAN : Restart(b)
    BY <1>3
  <2>2. disk' \in EditSet /\ ui' = FreshUi(disk')
    BY <1>0, <2>1, RestartParts
  <2>3. PICK d : d = disk'
    OBVIOUS
  <2>4. FreshUi(d).edits = d
    BY <2>2, <2>3, FreshUiIs
  <2> QED  BY <2>2, <2>3, <2>4 DEF Written
<1>4. CASE ConnectRadio
  BY <1>4 DEF ConnectRadio, Written
<1>5. CASE Poll
  BY <1>0, <1>5, PollParts DEF Written
<1>6. CASE Flush
  BY <1>0, <1>6, FlushParts DEF Written
<1>7. CASE Open
  BY <1>0, <1>7, OpenParts DEF Written
<1>8. CASE TakeParam
  <2>1. Take("param")
    BY <1>8 DEF TakeParam
  <2> QED  BY <2>1 DEF Take, Written
<1>9. CASE Rebuild
  BY <1>0, <1>9, RebuildParts DEF Written
<1>10. CASE editVars' = editVars
  BY <1>10 DEF editVars, Written
<1> QED  BY <1>0, <1>1, <1>2, <1>3, <1>4, <1>5, <1>6, <1>7, <1>8, <1>9, <1>10, Frames

(* Each step keeps the meaning of the edits. *)
LEMMA MeaningStep ==
  ASSUME Context, Context', Answered, Meaning, [EditsNext]_editVars
  PROVE  Meaning'
<1>0. Common /\ Written /\ Written'
  BY WrittenStep DEF Context, Meaning
<1>1. world' = world /\ (Heeded' <=> Heeded)
  BY <1>0, WorldKept DEF Heeded, Orderly
<1>2. SUFFICES ASSUME Heeded, Meant PROVE Meant'
  BY <1>0, <1>1 DEF Meaning
<1>3. CASE \E new \in Graphs, un, re \in Seq(Graphs) : Sends(new, un, re) /\ Redraws(new, un, re)
  BY <1>0, <1>2, <1>3, MeantSends
<1>4. CASE Minor
  BY <1>0, <1>2, <1>4, MeantMinor
<1>5. CASE \E b \in BOOLEAN : Restart(b)
  BY <1>0, <1>2, <1>5, MeantRestart
<1>6. CASE ConnectRadio \/ Poll \/ Flush
  BY <1>0, <1>2, <1>6, MeantConnect, MeantPoll, MeantFlush
<1>7. CASE Open \/ TakeParam \/ Rebuild
  BY <1>0, <1>2, <1>7, MeantOpen, MeantParam, MeantRebuild
<1>8. CASE editVars' = editVars
  <2>1. Standing'
    BY <1>2, <1>8, StandingNext DEF editVars, Meant, Standing
  <2>2. /\ ui' = ui /\ disk' = disk /\ cmds' = cmds /\ radio' = radio /\ plan' = plan
        /\ want' = want /\ rx' = rx /\ shown' = shown /\ unseen' = unseen /\ meant' = meant
        /\ due' = due
    BY <1>8 DEF editVars
  <2>3. (Quiet' <=> Quiet) /\ Restarted /\ Anchored /\ Unread /\ Underway
    BY <1>2, <2>2 DEF Quiet, Meant
  <2>4. Restarted'
    BY <1>1, <2>2, <2>3 DEF Restarted
  <2>5. Anchored'
    BY <1>1, <2>2, <2>3 DEF Anchored
  <2>6. Unread'
    BY <1>1, <2>2, <2>3 DEF Unread
  <2>7. Underway'
    BY <1>1, <2>2, <2>3 DEF Underway
  <2> QED  BY <2>1, <2>4, <2>5, <2>6, <2>7 DEF Meant
<1> QED  BY <1>0, <1>3, <1>4, <1>5, <1>6, <1>7, <1>8, Frames

(* It holds when the program starts. *)
LEMMA InitMeaning ==
  ASSUME EditsInit
  PROVE  Meaning
<1>0. Home \in Dials
  BY EditsAssumption
<1>1. /\ disk = NoEdits /\ ui = FreshUi(NoEdits) /\ cmds = <<[op |-> "start"]>>
      /\ radio = "opening" /\ plan.dial = Home /\ want = Home
      /\ shown = {} /\ unseen = FALSE /\ meant = NoEdits
  BY DEF EditsInit
<1>2. ui.edits = NoEdits /\ ui.landed = FALSE /\ ui.dirty = FALSE /\ ui.seen = FALSE
  BY <1>1, NothingDrawn, FreshUiIs
<1>3. \A i \in 1 .. Len(cmds) : cmds[i].op = "start"
  BY <1>1, SentOne
<1>4. ASSUME Heeded PROVE Stands(NoEdits)
  <2>1. Assembled(NoEdits, Home) = Patch(Base(Home).at, Base(Home).off)
    <3>1. Assembled(NoEdits, Home) = [at |-> [s \in DrawnBy(NoEdits, Home) |->
             [set |-> SetOf(NoEdits, s), from |-> FromOf(NoEdits, s)]],
             off |-> NoEdits.off \ Refused(Home), askew |-> FALSE]
      BY <1>0, NothingDrawn, AssembledIs
    <3>2. DrawnBy(NoEdits, Home) = InSpan[Home] /\ NoEdits.off \ Refused(Home) = {}
      BY <1>4, NothingDrawn, HeededIs DEF DrawnBy
    <3>3. \A s : SetOf(NoEdits, s) = AsDrawn /\ FromOf(NoEdits, s) = AsDrawn
      BY NothingDrawn DEF SetOf, FromOf
    <3>4. Base(Home).at = [s \in InSpan[Home] |-> Plain] /\ Base(Home).off = {}
      BY <1>0, BaseAt
    <3> QED  BY <3>1, <3>2, <3>3, <3>4 DEF Patch, Plain
  <2>2. Diff(Assembled(NoEdits, Home), Base(Home)) = Diff(Base(Home), Base(Home))
    BY <2>1, DiffSame DEF Patch
  <2>3. Diff(Base(Home), Base(Home)) = NoEdits
    <3> DEFINE B == Base(Home)
    <3>1. /\ DOMAIN B.at \cap Own = {} /\ B.off = {}
      BY <1>0, BaseAt, EditsAssumption
    <3> HIDE DEF B
    <3>2. Diff(B, B) = [stages |-> [s \in {} |-> B.at[s].set], removed |-> {},
                        settings |-> [s \in {} |-> B.at[s].set],
                        links |-> [s \in {} |-> B.at[s].from], off |-> {}]
      BY <3>1 DEF Diff
    <3> QED  BY <3>2, NothingDrawn DEF B
  <2> QED  BY <2>2, <2>3 DEF Stands
<1>5. Heeded => Standing
  BY <1>1, <1>2, <1>4 DEF Standing
<1>6. Restarted /\ Anchored /\ Unread /\ Underway
  BY <1>1, <1>2, <1>3 DEF Restarted, Anchored, Unread, Underway
<1> QED  BY <1>1, <1>2, <1>5, <1>6 DEF Meaning, Meant, Written

(* At rest at home each copy is what is meant. *)
LEMMA NothingLost ==
  ASSUME EditsInvariant, Meaning
  PROVE  NothingIsLost
<1> SUFFICES ASSUME Heeded, AtRest, plan.dial = Home
             PROVE  /\ Diff(rx.patch, rx.base) = meant /\ ui.edits = meant
                    /\ ui.dirty \/ disk = meant
  BY DEF NothingIsLost, ChangesStay, Heeded
<1>1. Context /\ Written /\ Meant
  BY DEF EditsInvariant, Meaning
<1> QED  BY <1>1, RestMeans

(* What the edits mean, and with EditsInvariant where they came from: the plan has
   every change, or the head of the queue has the one it has not. *)
THEOREM EditsAreMeant == EditsSpec => [](EditsInvariant /\ Meaning)
<1>1. EditsInit => EditsInvariant /\ Meaning
  BY InitInvariant, InitMeaning
<1>2. EditsInvariant /\ Meaning /\ [EditsNext]_editVars => (EditsInvariant /\ Meaning)'
  <2>1. ASSUME EditsInvariant, Meaning, [EditsNext]_editVars PROVE EditsInvariant' /\ Meaning'
    <3>1. EditsInvariant'
      BY <2>1, NextInvariant
    <3>2. Context /\ Context' /\ Answered
      BY <2>1, <3>1 DEF EditsInvariant
    <3> QED  BY <2>1, <3>1, <3>2, MeaningStep
  <2> QED  BY <2>1
<1> QED  BY <1>1, <1>2, PTL DEF EditsSpec

(* Where each change is looked at before the next, what runs, what would be sent
   next and what is on disk, or about to be, all come to what the operator did:
   over drawing, setting, undoing, moving the dial, a restart or a kill
   (Edits::diff and apply, set_node_param, flush_edits). *)
THEOREM NoChangeIsLost == EditsSpec => []NothingIsLost
  BY EditsAreMeant, NothingLost, PTL

=============================================================================
