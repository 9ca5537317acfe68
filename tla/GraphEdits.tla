------------------------------ MODULE GraphEdits ------------------------------
(***************************************************************************)
(* The operator's edits to the receiver's graph (app/src/patch.rs,         *)
(* chain.rs, radio/thread.rs, ui/state.rs, ui/mod.rs).                     *)
(*                                                                         *)
(* The receiver draws a graph for itself from the dial and the strip (the  *)
(* base) and puts the operator's edits on top.  What those edits are is    *)
(* never written down in one place: it is the difference between a graph   *)
(* and its base, and four parties take it, each of its own copies.  The    *)
(* interface has a drawing, a base and the edits it last read; the disk    *)
(* has the edits it last wrote; the radio thread has the plan's and those  *)
(* of the last plan that built; the receiver has a running graph, its base *)
(* and the nodes.  Commands go one way through a queue, graphs come back   *)
(* through one published slot with a revision.                             *)
(*                                                                         *)
(* A graph is the stages in it, each with what is set on it and what it is *)
(* wired to, and the stages switched off.  One setting and one input stand *)
(* for all of a stage's; what it is wired to is whatever there always is.  *)
(***************************************************************************)
EXTENDS Naturals, Sequences, FiniteSets, Functions

CONSTANTS Front,      \* stages the receiver draws for itself
          Own,        \* ids a stage of the operator's may have
          Dials, Home,
          InSpan,     \* the stages drawn at each dial
          Awkward,    \* the stages drawn there that refuse their stream
          MaxChanges, \* bound: what the operator does to the graph or the dial
          Worlds

ASSUME EditsAssumption ==
    /\ Front \cap Own = {}
    /\ Home \in Dials
    /\ InSpan \in [Dials -> SUBSET Front]
    /\ Awkward \in [Dials -> SUBSET Front]
    /\ MaxChanges \in Nat

VARIABLES world,   \* the troubles this behaviour may meet
          ui,      \* ChainState
          disk,    \* the edits on disk
          cmds,    \* the radio thread's commands
          radio,   \* "opening", "running", "stopped" or, let go of, "off"
          plan,    \* the plan's dial and edits
          want,    \* want_center, or the dial when nothing is asked
          due,     \* needs_rebuild
          good,    \* last_edits: none, or one
          rx,      \* the receiver's graph, its base, its nodes and the recording
          shown,   \* what the status has published, or nothing yet
          unseen,  \* its revision is not the one the interface last read
          changes, \* how many changes the operator has made
          meant    \* what the operator's changes come to

editVars == <<world, ui, disk, cmds, radio, plan, want, due, good, rx, shown,
          unseen, changes, meant>>
radioVars == <<cmds, radio, plan, want, due, good, rx, shown, unseen>>

AsDrawn == 0                \* and, of a stage of the operator's, no wire
Broken  == MaxChanges + 1   \* a wire no graph can be built with
Values  == 0 .. Broken

(***************************************************************************)
(* Graphs and edits.                                                       *)
(*                                                                         *)
(* `askew`: the operator drew something where the receiver, drawing the    *)
(* same, puts it in another place of the list, so that the two do not      *)
(* compare equal.                                                          *)
(***************************************************************************)
Patch(at, off) == [at |-> at, off |-> off, askew |-> FALSE]
Plain      == [set |-> AsDrawn, from |-> AsDrawn]
EmptyPatch == Patch([s \in {} |-> Plain], {})
Base(dial) == Patch([s \in InSpan[dial] |-> Plain], {})

Without(p, ids) == [at    |-> Restrict(p.at, DOMAIN p.at \ ids),
                    off   |-> p.off \ ids,
                    askew |-> p.askew]

Diff(full, base) ==
    LET mine   == DOMAIN full.at \cap Own
        common == DOMAIN full.at \cap DOMAIN base.at
    IN  [stages   |-> [s \in mine |-> full.at[s].set],
         removed  |-> DOMAIN base.at \ DOMAIN full.at,
         settings |-> [s \in {t \in common : full.at[t].set # base.at[t].set} |-> full.at[s].set],
         links    |-> [s \in {t \in common : full.at[t].from # base.at[t].from}
                             \cup {t \in mine : full.at[t].from # AsDrawn} |-> full.at[s].from],
         off      |-> full.off \ base.off]

NoEdits == Diff(EmptyPatch, EmptyPatch)

Apply(e, p) ==
    LET left == Without(p, e.removed)
        Was(s) == IF s \in DOMAIN e.stages THEN [set |-> e.stages[s], from |-> AsDrawn]
                  ELSE left.at[s]
    IN  Patch([s \in DOMAIN e.stages \cup DOMAIN left.at |->
                  [set  |-> IF s \in DOMAIN e.settings THEN e.settings[s] ELSE Was(s).set,
                   from |-> IF s \in DOMAIN e.links THEN e.links[s] ELSE Was(s).from]],
              left.off \cup e.off)

\* A stage that nothing feeds waits: it is drawn and not built.
Fed(p) == {s \in DOMAIN p.at : s \in Own => p.at[s].from # AsDrawn}

(***************************************************************************)
(* The interface.                                                          *)
(***************************************************************************)
AtRest == /\ radio = "running" /\ cmds = <<>> /\ ~due
           /\ want = plan.dial  /\ ~unseen

\* An operator who is not hasty looks at what the last change came to before
\* making the next; one who does not wander leaves alone a graph that some of
\* the drawn stages are not in.
MayChange ==
    /\ changes < MaxChanges
    /\ AtRest \/ radio = "off" \/ "hasty" \in world
    /\ plan.dial = Home \/ "wanders" \in world
    /\ changes' = changes + 1

\* Radio::send.  With no radio there is nobody to tell; a full queue takes
\* nothing and says nothing.
Send(c) ==
    \/ cmds' = IF radio = "off" THEN cmds ELSE Append(cmds, c)
    \/ "full" \in world /\ cmds' = cmds

SendPatch(u) ==
    LET e == Diff(u.patch, u.base)
    IN  /\ ui'    = [u EXCEPT !.edits = e, !.sent = {u.patch}]
        /\ disk'  = e
        /\ meant' = e
        /\ Send([op |-> "edits", edits |-> e])
        /\ UNCHANGED <<world, radio, plan, want, due, good, rx, shown, unseen>>

Edit(new) ==
    /\ "draws" \in world
    /\ MayChange
    /\ new # ui.patch
    /\ SendPatch([ui EXCEPT !.patch = new, !.undo = Append(@, ui.patch), !.redo = <<>>])

\* Everything but switching a stage on or off may come out in another order.
Drawn(p, askew) == [p EXCEPT !.askew = @ \/ askew]

AddStage(s) == /\ s \notin DOMAIN ui.patch.at
               /\ Edit(Drawn([ui.patch EXCEPT !.at = [t \in DOMAIN @ \cup {s} |->
                                  IF t = s THEN Plain ELSE @[t]]], TRUE))
RemoveStage(s, askew) == /\ s \in DOMAIN ui.patch.at
                         /\ Edit(Drawn(Without(ui.patch, {s}), askew))
\* A wire drawn, moved or pulled; one may break the graph.
Wire(s, askew) ==
    /\ s \in DOMAIN ui.patch.at
    /\ \E w \in {AsDrawn, changes + 1} \cup (IF "breaks" \in world THEN {Broken} ELSE {}) :
           Edit(Drawn([ui.patch EXCEPT !.at[s].from = w], askew))
\* A setting of a stage that waits: it has no node to be told.
Describe(s) == /\ s \in DOMAIN ui.patch.at \ Fed(ui.patch)
               /\ Edit([ui.patch EXCEPT !.at[s].set = changes + 1])
SwitchOff(s) == /\ s \in DOMAIN ui.patch.at
                /\ Edit([ui.patch EXCEPT !.off = (@ \ {s}) \cup ({s} \ @)])
Clear(askew) == Edit(Drawn(ui.base, askew))

Undo == /\ "undoes" \in world /\ MayChange
        /\ ui.undo # <<>>
        /\ SendPatch([ui EXCEPT !.patch = ui.undo[Len(ui.undo)],
                                !.undo  = SubSeq(@, 1, Len(@) - 1),
                                !.redo  = Append(@, ui.patch)])
Redo == /\ "undoes" \in world /\ MayChange
        /\ ui.redo # <<>>
        /\ SendPatch([ui EXCEPT !.patch = ui.redo[Len(ui.redo)],
                                !.redo  = SubSeq(@, 1, Len(@) - 1),
                                !.undo  = Append(@, ui.patch)])

\* Cmd::NodeParam: a parameter of a node, named by its place among the nodes the
\* interface last saw.  `back` puts it to what it was drawn with.
Tweak(s, back) ==
    LET v == IF back THEN AsDrawn ELSE changes + 1
    IN  /\ "tweaks" \in world /\ MayChange
        /\ radio = "running" /\ s \in ui.topo
        /\ back => "returns" \in world /\ s \in Front
        /\ Send([op |-> "param", stage |-> s, value |-> v, among |-> ui.topo])
        /\ meant' = IF s \in Own THEN [meant EXCEPT !.stages[s] = v]
                    ELSE [meant EXCEPT !.settings =
                            [t \in (DOMAIN @ \cup {s}) \ (IF back THEN {s} ELSE {}) |->
                                IF t = s THEN v ELSE @[t]]]
        /\ UNCHANGED <<world, ui, disk, radio, plan, want, due, good, rx, shown, unseen>>

Tune(d) ==
    /\ "roams" \in world \/ "wanders" \in world
    /\ radio = "running" /\ changes < MaxChanges
    /\ d # want
    /\ changes' = changes + 1
    /\ Send([op |-> "center", dial |-> d])
    /\ UNCHANGED <<world, ui, disk, radio, plan, want, due, good, rx, shown, unseen, meant>>

\* App::drain: the published graph, when its revision is new.  Its base is always
\* taken, the graph itself only when it is not the edit last sent.
AdoptedOnce(run) == IF ui.sent = {} THEN run ELSE ui.patch
Adopted(run)     == IF ui.sent # {run} THEN run ELSE ui.patch

Landed(e) == ui.landed \/ e # NoEdits \/ ui.edits = NoEdits

DirtyIfTaken(takes) == takes
Dirty(takes)        == ui.dirty \/ takes

Poll ==
    LET run   == IF shown = {} THEN EmptyPatch ELSE (CHOOSE p \in shown : TRUE).patch
        base  == IF shown = {} THEN EmptyPatch ELSE (CHOOSE p \in shown : TRUE).base
        e     == Diff(Adopted(run), base)
        takes == e # ui.edits /\ Landed(e)
    IN  /\ radio # "off" /\ unseen
        /\ unseen' = FALSE
        /\ ui' = [ui EXCEPT !.patch = Adopted(run), !.base = base,
                            !.topo = Fed(run), !.seen = shown # {},
                            !.landed = Landed(e),
                            !.edits  = IF takes THEN e ELSE @,
                            !.dirty  = Dirty(takes)]
        /\ UNCHANGED <<world, disk, cmds, radio, plan, want, due, good, rx, shown,
                       changes, meant>>

\* flush_edits, a second after the last write or later.
Flush == /\ ui.dirty
         /\ ui'   = [ui EXCEPT !.dirty = FALSE]
         /\ disk' = ui.edits
         /\ UNCHANGED <<world, radioVars, changes, meant>>

\* App::connect: a new thread and a new status, whose revision is 0.
Connected(u, saved) ==
    /\ radio'  = "opening"
    /\ cmds'   = IF u.edits = NoEdits THEN <<[op |-> "start"]>>
                 ELSE <<[op |-> "start"], [op |-> "edits", edits |-> u.edits]>>
    /\ shown'  = {}
    /\ unseen' = u.seen
    /\ due' = FALSE /\ good' = {}
    /\ want' = plan.dial
    /\ UNCHANGED <<plan, rx>>

ConnectRadio == /\ radio \in {"off", "stopped"}
           /\ Connected(ui, disk)
           /\ UNCHANGED <<world, ui, disk, changes, meant>>

\* App::stop.
LetGo == /\ "reopens" \in world
         /\ radio # "off" /\ changes < MaxChanges
         /\ AtRest \/ radio = "stopped" \/ "hasty" \in world
         /\ changes' = changes + 1
         /\ radio' = "off" /\ cmds' = <<>>
         /\ UNCHANGED <<world, ui, disk, plan, want, due, good, rx, shown, unseen, meant>>

FreshUi(e) == [patch |-> EmptyPatch, base |-> EmptyPatch, sent |-> {}, edits |-> e,
               landed |-> FALSE, dirty |-> FALSE, undo |-> <<>>, redo |-> <<>>,
               topo |-> {}, seen |-> FALSE]

\* The program ends, by itself (on_exit writes what is not written) or not, and
\* is started again.
Restart(killed) ==
    LET saved == IF ui.dirty /\ ~killed THEN ui.edits ELSE disk
    IN  /\ "restarts" \in world
        /\ changes < MaxChanges
        /\ changes' = changes + 1
        /\ disk'  = saved
        /\ meant' = IF killed \/ ~AtRest THEN saved ELSE meant
        /\ ui'    = FreshUi(saved)
        /\ Connected(FreshUi(saved), saved)
        /\ UNCHANGED world

(***************************************************************************)
(* The radio thread.                                                       *)
(***************************************************************************)
\* assemble_without_refusals: each stage that refuses is left out in turn, until
\* the rest builds or something is wrong that no stage is blamed for.
Assembled(e, dial) ==
    Without(Apply(e, Base(dial)), IF "refuses" \in world THEN Awkward[dial] ELSE {})
Builds(p) == \A s \in DOMAIN p.at : p.at[s].from # Broken

\* add_patch: a stage whose node is in the pool keeps the node.  The receiver's
\* own are told their settings again, the operator's hold them themselves.
NodesAsTheyWere(p, pool) == [s \in Fed(p) |-> IF s \in DOMAIN pool
                                              THEN pool[s] ELSE p.at[s].set]
NodesFor(p, pool) == [s \in Fed(p) |-> IF s \in Own \cap DOMAIN pool
                                    THEN pool[s] ELSE p.at[s].set]

Receiver(p, dial, pool, recording) ==
    [patch |-> p, base |-> Base(dial), node |-> NodesFor(p, pool), recording |-> recording]

NoNodes == [s \in {} |-> AsDrawn]

Publish(r) == shown' = {[patch |-> r.patch, base |-> r.base]} /\ unseen' = TRUE

\* Receiver::build with the edits read off disk, before any command.
Open ==
    LET p == Assembled(disk, plan.dial)
    IN  /\ radio = "opening"
        /\ plan' = [plan EXCEPT !.edits = disk]
        /\ IF Builds(p)
           THEN radio' = "running" /\ rx' = Receiver(p, plan.dial, NoNodes, TRUE)
           ELSE radio' = "stopped" /\ UNCHANGED rx
        /\ UNCHANGED <<world, ui, disk, cmds, want, due, good, shown, unseen, changes, meant>>

OpenFails == /\ "fails" \in world
             /\ radio = "opening"
             /\ radio' = "stopped"
             /\ UNCHANGED <<world, ui, disk, cmds, plan, want, due, good, rx, shown,
                            unseen, changes, meant>>

Take(op) == /\ radio = "running"
            /\ cmds # <<>> /\ Head(cmds).op = op
            /\ cmds' = Tail(cmds)
            /\ UNCHANGED <<world, ui, disk, radio, good, changes, meant>>

\* Cmd::Record among the startup commands asks for a rebuild whatever it says.
TakeStart == /\ Take("start")
             /\ due' = TRUE
             /\ UNCHANGED <<plan, want, rx, shown, unseen>>

TakeEdits == /\ Take("edits")
             /\ IF Head(cmds).edits # plan.edits
                THEN plan' = [plan EXCEPT !.edits = Head(cmds).edits] /\ due' = TRUE
                ELSE UNCHANGED <<plan, due>>
             /\ UNCHANGED <<want, rx, shown, unseen>>

TakeCenter == /\ Take("center")
              /\ want' = Head(cmds).dial
              /\ UNCHANGED <<plan, due, rx, shown, unseen>>

\* What the receiver wrote into its description is the operator's edit.
EditsAsSent(r) == plan.edits
EditsOf(r)     == Diff(r.patch, r.base)

Told(p, those, v) ==
    [p EXCEPT !.at = [s \in DOMAIN @ |-> [set  |-> IF s \in those THEN v ELSE @[s].set,
                                          from |-> @[s].from]]]

\* set_node_param.  In another graph than the one it was sent for, the place may
\* be any stage's or nobody's.
TakeParam ==
    LET c   == Head(cmds)
        now == DOMAIN rx.node
    IN  /\ Take("param")
        /\ \E t \in IF c.among = now THEN {{c.stage}} ELSE {{}} \cup {{s} : s \in now},
              reshapes \in BOOLEAN :
              LET r == [rx EXCEPT !.node  = [s \in now |-> IF s \in t THEN c.value ELSE @[s]],
                                  !.patch = Told(@, t, c.value)]
              IN  /\ rx' = r
                  /\ due' = (due \/ (reshapes /\ t # {}))
                  /\ plan' = [plan EXCEPT !.edits = EditsOf(r)]
                  /\ Publish(r)
        /\ UNCHANGED want

\* What rebuild makes of the plan at a dial.  A drawing that does not build costs
\* the nodes that went into it; the last edits that built are put back.
RebuildAt(dial) ==
    LET first == Assembled(plan.edits, dial)
        last  == CHOOSE e \in good : TRUE
        again == Assembled(last, dial)
    IN  IF Builds(first)
        THEN LET r == Receiver(first, dial, rx.node, rx.recording)
             IN  /\ rx'   = r
                 /\ good' = {plan.edits}
                 /\ plan' = [plan EXCEPT !.dial = dial]
                 /\ Publish(r)
                 /\ UNCHANGED radio
        ELSE IF good # {} /\ Builds(again)
        THEN LET r == Receiver(again, dial, NoNodes, FALSE)
             IN  /\ rx'   = r
                 /\ plan' = [dial |-> dial, edits |-> last]
                 /\ Publish(r)
                 /\ UNCHANGED <<good, radio>>
        ELSE /\ radio' = "stopped"
             /\ plan'  = [plan EXCEPT !.dial = dial]
             /\ UNCHANGED <<good, rx, shown, unseen>>

\* The loop's retune and rebuild: the dial is moved to where it is wanted, which
\* asks for a rebuild, or held back for tune_gap while a rebuild that is due goes
\* ahead at the dial there is.
Rebuild ==
    /\ radio = "running"
    /\ \E dial \in {plan.dial, want} :
          /\ due \/ dial # plan.dial
          /\ RebuildAt(dial)
    /\ due' = FALSE
    /\ UNCHANGED <<world, ui, disk, cmds, want, changes, meant>>

EditsInit ==
    /\ world \in Worlds
    /\ disk = NoEdits
    /\ ui = FreshUi(disk)
    /\ cmds = <<[op |-> "start"]>>
    /\ radio = "opening"
    /\ plan = [dial |-> Home, edits |-> NoEdits]
    /\ want = Home
    /\ due = FALSE
    /\ good = {}
    /\ rx = Receiver(EmptyPatch, Home, NoNodes, TRUE)
    /\ shown = {} /\ unseen = FALSE
    /\ changes = 0
    /\ meant = NoEdits

Operator == \/ \E s \in Own : AddStage(s)
            \/ \E s \in Front \cup Own :
                   \/ SwitchOff(s) \/ Describe(s)
                   \/ \E b \in BOOLEAN : RemoveStage(s, b) \/ Wire(s, b) \/ Tweak(s, b)
            \/ \E b \in BOOLEAN : Clear(b) \/ Restart(b)
            \/ Undo \/ Redo
            \/ \E d \in Dials : Tune(d)
            \/ LetGo \/ ConnectRadio

Interface == Poll \/ Flush
Radio == Open \/ OpenFails \/ TakeStart \/ TakeEdits \/ TakeCenter \/ TakeParam \/ Rebuild

EditsNext == Operator \/ Interface \/ Radio

\* The interface draws a frame again and again, and the radio thread goes round
\* its loop; nobody has to change anything.
Fairness == WF_editVars(Poll) /\ WF_editVars(Flush) /\ WF_editVars(Radio)
EditsSpec == EditsInit /\ [][EditsNext]_editVars /\ Fairness

(***************************************************************************)
(* Properties.                                                             *)
(***************************************************************************)
\* The types of the variables.
EditsTypeOK ==
    LET graphs == [at : UNION {[S -> [set : Values, from : Values]] : S \in SUBSET (Front \cup Own)},
                   off : SUBSET (Front \cup Own), askew : BOOLEAN]
    IN  /\ world \in Worlds
        /\ radio \in {"opening", "running", "stopped", "off"}
        /\ ui.patch \in graphs /\ ui.base \in graphs
        /\ rx.patch \in graphs /\ rx.base \in graphs
        /\ {plan.dial, want} \subseteq Dials
        /\ Cardinality(good) <= 1 /\ Cardinality(shown) <= 1

ScreenFollows == AtRest => /\ ui.patch.at = rx.patch.at /\ ui.patch.off = rx.patch.off
                           /\ ui.base = rx.base

\* What the interface takes for its own drawing come back is whatever equals the
\* graph it last sent.  An operator who draws does not get that graph back by
\* another road: a setting put back by hand, a stage that refuses or is out of the
\* span and is there again, a radio let go of and opened anew, a command that found
\* no room or no answer yet.
NoEcho == "draws" \in world =>
    /\ world \cap {"full", "hasty", "reopens", "refuses", "roams", "wanders"} = {}
    /\ ~({"tweaks", "returns"} \subseteq world)

\* What is on screen is what the receiver is running, on the base it drew, once
\* everything sent has been taken: patch_sent keeps the interface from adopting
\* an older graph over its own and never keeps it from adopting another
\* (ui/mod.rs, App::drain), also when the edits it sent were refused.
ScreenIsRunning == NoEcho => ScreenFollows

\* Where the operator keeps to the order the code gets right: each change is
\* looked at before the next, the radio is not let go of, the command queue has
\* room, who moves the dial neither draws nor ends the program, and no setting is
\* put back by hand.
Orderly == /\ world \cap {"hasty", "returns", "reopens", "full"} = {}
           /\ world \cap {"roams", "wanders"} # {} => world \cap {"draws", "restarts"} = {}

ChangesStay ==
    AtRest /\ plan.dial = Home =>
        /\ Diff(rx.patch, rx.base) = meant
        /\ ui.edits = meant
        /\ ui.dirty \/ disk = meant

\* What runs, what the interface would send next and what is on disk (or about to
\* be) all come to what the operator changed: over drawing, setting, undoing,
\* moving the dial and a restart no change is lost and none comes back.
NothingIsLost ==
    Orderly /\ world \cap {"refuses", "breaks", "wanders"} = {} => ChangesStay

\* A node of the operator's own holds its settings itself, and the pool gives it
\* back as it is.  That is what the drawing says as long as a setting and the wire
\* that feeds the stage are only drawn one after the other, and no second road
\* leads to another drawing of a stage that is running: parameters, undone
\* drawings, drawings that do not build and radios let go of, two of them together.
OneRoad == /\ world \cap {"hasty", "full"} = {}
           /\ \A a, b \in world \cap {"tweaks", "undoes", "breaks", "reopens"} : a = b

\* A rebuild keeps what it promises: every stage that is drawn and fed has its
\* node, each node holds what the drawing says is set on it, and the recording
\* goes on as long as no drawing fails.
KeptByRebuild ==
    radio = "running" =>
        /\ DOMAIN rx.node = Fed(rx.patch)
        /\ \A s \in DOMAIN rx.node : (s \in Own => OneRoad) => rx.node[s] = rx.patch.at[s].set
        /\ "breaks" \notin world => rx.recording

\* While the operator keeps to that order, no stage refuses what it is told, the
\* radio opens when it is asked to and no drawing that does not build is followed
\* by a restart, the program comes to rest again and again with the edits of the
\* running graph on disk, however many changes came before.  Of an operator who
\* does otherwise nothing is said: the disk may then hold other edits than the
\* graph that runs, for good (the drawing that is taken for its own come back in
\* EchoWorlds, the setting sent over a drawing in HastyWorlds).
SavedInTheEnd ==
    Orderly /\ world \cap {"refuses", "fails"} = {} /\ ~({"breaks", "restarts"} \subseteq world) =>
        []<>(AtRest /\ disk = Diff(rx.patch, rx.base))

=============================================================================
