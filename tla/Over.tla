-------------------------------- MODULE Over --------------------------------
(***************************************************************************)
(* An over on a half duplex radio, from the operator's key to the antenna  *)
(* and back: the radio thread with its loop, the Transmitter handle and    *)
(* the jobs it sends, the transmit thread that owns the chain and the      *)
(* stream, and the driver of HalfDuplex under both.                        *)
(*                                                                         *)
(* One channel, transmitting on Air whatever the dial says, from a         *)
(* microphone, so that its chain also runs when nothing is keyed.  What    *)
(* the chain makes, the courtesy tone and the levels are left out: an over *)
(* that ends with a tone ends some blocks later.                           *)
(***************************************************************************)
EXTENDS HalfDuplex, Sequences

CONSTANTS Air,      \* where the channel transmits
          MaxJobs   \* bound: jobs queued to the transmit thread

ASSUME OverAssumption ==
  /\ Air \in Freqs
  /\ \E f \in Freqs : f # Air
  /\ MaxJobs \in Nat \ {0}

Dials == Freqs \ {Air}
Breaks == world = "breaks"
Calm == world = "calm"
Fails == world = "fails"

(* Bound: only the calm operator has more than one dial to choose from. *)
Choices == IF Calm THEN Dials ELSE {CHOOSE f \in Dials : TRUE}

VARIABLES
  phase,     \* where the radio thread's loop is
  down,      \* whether the operator's last key command was down
  wantC,     \* want_center, or Air for None
  plan,      \* plan.center
  rebuild,   \* needs_rebuild
  keyingFor, \* tx.keying_for
  pend,      \* the stream waiting for the rebuild, or Nobody
  ending,    \* tx.ending
  b2r,       \* tx.back_to_receive
  status,    \* status.keyed
  armed,     \* Transmitter.armed
  built,     \* Transmitter.built
  keyed, draining, lost,   \* the Readings both threads write
  jobs,      \* the channel of jobs
  txpc,      \* what the transmit thread is finishing a stream for
  graph,     \* whether it has a chain
  waiting,   \* its stream waiting for a chain, or Nobody
  sink,      \* the stream on the chain's sink, or Nobody
  next,      \* the stream to attach once the old one is back
  refused    \* whether the sink has had REFUSALS blocks refused

loop == <<phase, down, wantC, plan, rebuild, keyingFor, pend, ending, b2r, status>>
handle == <<armed, built>>
readings == <<keyed, draining, lost>>
worker == <<txpc, graph, waiting, sink, next, refused>>
app == <<loop, handle, readings, jobs, worker>>
vars == <<driver, app>>

Job(what, n) == [what |-> what, over |-> n]
Streams == Overs \cup {Nobody}

TypeOK ==
  /\ DriverTypeOK
  /\ phase \in {"cmds", "retune", "rebuild", "read", "vox", "home", "lost", "stopped"}
  /\ {down, rebuild, keyingFor, ending, b2r, status, armed, built,
      keyed, draining, lost, graph, refused} \subseteq BOOLEAN
  /\ wantC \in Freqs /\ plan \in Dials
  /\ {pend, waiting, sink, next} \subseteq Streams
  /\ jobs \in Seq([what : {"chain", "key", "unkey", "drop"}, over : Streams])
  /\ txpc \in {"idle", "attach", "unkey", "drop", "lost", "fail"}

Init ==
  /\ DriverInit /\ center \in Choices
  /\ phase = "cmds" /\ down = FALSE /\ wantC = Air /\ plan = center
  /\ rebuild = FALSE /\ keyingFor = FALSE /\ pend = Nobody
  /\ ending = FALSE /\ b2r = FALSE /\ status = FALSE
  /\ armed = FALSE /\ built \in BOOLEAN /\ graph = built
  /\ keyed = FALSE /\ draining = FALSE /\ lost = FALSE
  /\ jobs = <<>> /\ txpc = "idle" /\ waiting = Nobody /\ sink = Nobody /\ next = Nobody
  /\ refused = FALSE

(* The radio is back with the receiver, as far as its thread can tell. *)
Settled == ~keyed /\ ~status /\ ~draining /\ ~b2r

-----------------------------------------------------------------------------
(* The radio thread: letting the key up.                                   *)

NotKeyed == ~keyed /\ ~status

UnkeyNowKeepsJob ==      \* mutant: the transmit thread is not told
  /\ ending' = FALSE
  /\ IF NotKeyed
     THEN UNCHANGED <<armed, keyed, draining, status, b2r, jobs>>
     ELSE /\ armed' = FALSE /\ keyed' = FALSE /\ draining' = TRUE
          /\ status' = FALSE /\ b2r' = TRUE
          /\ jobs' = jobs

UnkeyNowLit ==           \* mutant: the lamp is left lit
  /\ ending' = FALSE
  /\ IF NotKeyed
     THEN UNCHANGED <<armed, keyed, draining, status, b2r, jobs>>
     ELSE /\ armed' = FALSE /\ keyed' = FALSE /\ draining' = TRUE
          /\ status' = status /\ b2r' = TRUE
          /\ jobs' = Append(jobs, Job("unkey", Nobody))

(* unkey_now, with Transmitter::unkey in it. *)
UnkeyNow ==
  /\ ending' = FALSE
  /\ IF NotKeyed
     THEN UNCHANGED <<armed, keyed, draining, status, b2r, jobs>>
     ELSE /\ armed' = FALSE /\ keyed' = FALSE /\ draining' = TRUE
          /\ status' = FALSE /\ b2r' = TRUE
          /\ jobs' = Append(jobs, Job("unkey", Nobody))

(* Cmd::Key(None).  A channel with a courtesy tone holds the key down      *)
(* until finish_over.                                                      *)
KeyUp ==
  /\ phase = "cmds" /\ rf = "idle" /\ down /\ Len(jobs) < MaxJobs
  /\ Eager \/ ~keyingFor
  /\ down' = FALSE /\ keyingFor' = FALSE
  /\ IF ending \/ NotKeyed
     THEN UNCHANGED <<ending, armed, keyed, draining, status, b2r, jobs>>
     ELSE \/ /\ armed /\ built /\ ending' = TRUE
             /\ UNCHANGED <<armed, keyed, draining, status, b2r, jobs>>
          \/ UnkeyNow
  /\ UNCHANGED <<driver, phase, wantC, plan, rebuild, pend, built, lost, worker>>

-----------------------------------------------------------------------------
(* The radio thread: putting the key down.                                 *)

Retuned == IF center = Air THEN UNCHANGED <<tuned, center, want>> ELSE TuneTo(Air)

(* key_up: the tuning, then the microphone, then the radio. *)
KeyStarts(mic) ==
  \/ /\ center # Air /\ ~CtlWorks
     /\ UNCHANGED driver
  \/ /\ Retuned /\ ~mic
     /\ UNCHANGED <<rx, tx, silent, claim, attempts, made, st, restore, rf, was, hb>>
  \/ /\ Retuned /\ mic
     /\ TakeReader
     /\ rf' = "open"
     /\ UNCHANGED <<tx, attempts, made, st, restore, hb>>

(* Cmd::Key(Some(id)), ignored on a radio already keyed. *)
KeyDown(mic) ==
  /\ Eager \/ mic
  /\ phase = "cmds" /\ rf = "idle" /\ ~down /\ Len(jobs) < MaxJobs
  /\ Eager \/ (Settled /\ wantC = Air)
  /\ down' = TRUE
  /\ IF keyed
     THEN UNCHANGED <<driver, ending, b2r>>
     ELSE /\ ending' = FALSE /\ b2r' = FALSE
          /\ made < MaxOvers
          /\ KeyStarts(mic)
  /\ UNCHANGED <<phase, wantC, plan, rebuild, keyingFor, pend, status, handle, readings,
                 jobs, worker>>

Refused ==
  /\ rf = "refused"
  /\ rf' = "idle"
  /\ UNCHANGED <<shared, center, tuned, claim, attempts, made, st, restore, was, hb, app>>

(* The chain running is the one this channel wants: the stream goes on it. *)
KeySame ==
  /\ rf = "keyed" /\ built
  /\ rf' = "idle"
  /\ armed' = TRUE /\ keyed' = TRUE /\ status' = TRUE
  /\ jobs' = Append(jobs, Job("key", made))
  /\ UNCHANGED <<shared, center, tuned, claim, attempts, made, st, restore, was, hb,
                 phase, down, wantC, plan, rebuild, keyingFor, pend, ending, b2r,
                 built, draining, lost, worker>>

(* It is not: the stream waits for the chain to be built. *)
KeyForRebuild ==
  /\ rf = "keyed" /\ pend = Nobody
  /\ rf' = "idle"
  /\ pend' = made /\ rebuild' = TRUE /\ keyingFor' = TRUE
  /\ UNCHANGED <<shared, center, tuned, claim, attempts, made, st, restore, was, hb,
                 phase, down, wantC, plan, ending, b2r, status, handle, readings, jobs, worker>>

-----------------------------------------------------------------------------
(* The radio thread: the rest of its loop.                                 *)

(* Cmd::Center: held until a retune can be afforded. *)
Center(f) ==
  /\ phase = "cmds" /\ rf = "idle"
  /\ Eager \/ (Settled /\ ~down)
  /\ wantC' = f
  /\ UNCHANGED <<driver, phase, down, plan, rebuild, keyingFor, pend, ending, b2r, status,
                 handle, readings, jobs, worker>>

(* Any command that asks for the graph to be drawn again. *)
Edit ==
  /\ phase = "cmds" /\ rf = "idle"
  /\ Len(jobs) + 1 < MaxJobs
  /\ rebuild' = TRUE
  /\ UNCHANGED <<driver, phase, down, wantC, plan, keyingFor, pend, ending, b2r, status,
                 handle, readings, jobs, worker>>

CommandsDone ==
  /\ phase = "cmds" /\ rf = "idle"
  /\ phase' = "retune"
  /\ UNCHANGED <<driver, down, wantC, plan, rebuild, keyingFor, pend, ending, b2r, status,
                 handle, readings, jobs, worker>>

NoRetune ==              \* nothing asked for, or too soon after the last one
  /\ phase = "retune"
  /\ phase' = "rebuild"
  /\ UNCHANGED <<driver, down, wantC, plan, rebuild, keyingFor, pend, ending, b2r, status,
                 handle, readings, jobs, worker>>

(* A dial that refuses is an error out of run, and the end of the thread.  *)
Retune ==
  /\ phase = "retune" /\ wantC # Air
  /\ \/ /\ TuneTo(wantC)
        /\ plan' = wantC /\ wantC' = Air /\ rebuild' = TRUE
        /\ phase' = "rebuild"
     \/ /\ ~CtlWorks
        /\ phase' = "stopped"
        /\ UNCHANGED <<tuned, center, want, plan, wantC, rebuild>>
  /\ UNCHANGED <<rx, tx, silent, claim, attempts, made, st, restore, rf, was, hb,
                 down, keyingFor, pend, ending, b2r, status, handle, readings, jobs, worker>>

(* hand_over_transmitter, on a chain that builds: the chain already        *)
(* running is left alone, another is sent, and a waiting stream after it;  *)
(* then the key that was waiting for it is announced.                      *)
Rebuild ==
  /\ phase = "rebuild" /\ rebuild
  /\ \E chain \in {<<>>, <<Job("chain", Nobody)>>} :
       /\ built \/ chain # <<>>
       /\ Len(jobs) < MaxJobs \/ chain = <<>>
       /\ jobs' = jobs \o chain
                   \o (IF pend # Nobody THEN <<Job("key", pend)>> ELSE <<>>)
  /\ built' = TRUE
  /\ armed' = (armed \/ pend # Nobody)
  /\ keyed' = (keyed \/ pend # Nobody)
  /\ status' = (status \/ keyingFor)
  /\ pend' = Nobody /\ rebuild' = FALSE /\ keyingFor' = FALSE
  /\ phase' = "read"
  /\ UNCHANGED <<driver, down, wantC, plan, ending, b2r, draining, lost, worker>>

RebuildBreaksLeaks ==    \* mutant: the waiting stream is forgotten
  /\ phase = "rebuild" /\ rebuild /\ Breaks
  /\ Len(jobs) + 1 < MaxJobs
  /\ UNCHANGED driver
  /\ LET left == IF built \/ armed THEN Append(jobs, Job("drop", Nobody)) ELSE jobs IN
     IF keyingFor /\ ~NotKeyed
     THEN /\ ending' = FALSE /\ keyed' = FALSE /\ draining' = TRUE
          /\ status' = FALSE /\ b2r' = TRUE
          /\ jobs' = Append(left, Job("unkey", Nobody))
     ELSE /\ jobs' = left /\ UNCHANGED <<ending, keyed, draining, status, b2r>>
  /\ built' = FALSE /\ armed' = FALSE
  /\ pend' = Nobody /\ rebuild' = FALSE /\ keyingFor' = FALSE
  /\ phase' = "read"
  /\ UNCHANGED <<down, wantC, plan, lost, worker>>

(* On one that does not: Transmitter::clear, and a waiting stream dropped  *)
(* here.  The key it was for is let up by unkey_now.                       *)
RebuildBreaks ==
  /\ phase = "rebuild" /\ rebuild /\ Breaks
  /\ Len(jobs) + 1 < MaxJobs
  /\ IF pend # Nobody THEN HandBack("rf", pend) ELSE UNCHANGED driver
  /\ LET left == IF built \/ armed THEN Append(jobs, Job("drop", Nobody)) ELSE jobs IN
     IF keyingFor /\ ~NotKeyed
     THEN /\ ending' = FALSE /\ keyed' = FALSE /\ draining' = TRUE
          /\ status' = FALSE /\ b2r' = TRUE
          /\ jobs' = Append(left, Job("unkey", Nobody))
     ELSE /\ jobs' = left /\ UNCHANGED <<ending, keyed, draining, status, b2r>>
  /\ built' = FALSE /\ armed' = FALSE
  /\ pend' = Nobody /\ rebuild' = FALSE /\ keyingFor' = FALSE
  /\ phase' = "read"
  /\ UNCHANGED <<down, wantC, plan, lost, worker>>

NoRebuild ==
  /\ phase = "rebuild" /\ ~rebuild
  /\ phase' = "read"
  /\ UNCHANGED <<driver, down, wantC, plan, rebuild, keyingFor, pend, ending, b2r, status,
                 handle, readings, jobs, worker>>

(* read_block.  A read that reports the radio gone reopens it from nothing *)
(* or ends the thread: the model stops there.                              *)
Read ==
  /\ phase = "read" /\ ~Handing("rf")
  /\ \/ ReadBlock /\ phase' = "vox"
     \/ (ReadFlat \/ ReadNothing \/ Revive) /\ phase' = phase
     \/ rf = "lost" /\ phase' = "stopped" /\ UNCHANGED driver
  /\ UNCHANGED <<down, wantC, plan, rebuild, keyingFor, pend, ending, b2r, status,
                 handle, readings, jobs, worker>>

FinishOverAny ==         \* mutant: the over ends whether or not anybody ended it
  /\ phase = "vox" /\ Len(jobs) < MaxJobs
  /\ keyingFor' = FALSE
  /\ UnkeyNow
  /\ phase' = "home"
  /\ UNCHANGED <<driver, down, wantC, plan, rebuild, pend, built, lost, worker>>

(* finish_over: the courtesy tone is out, or has had ROGER_LIMIT. *)
FinishOver ==
  /\ phase = "vox" /\ ending /\ Len(jobs) < MaxJobs
  /\ keyingFor' = FALSE
  /\ UnkeyNow
  /\ phase' = "home"
  /\ UNCHANGED <<driver, down, wantC, plan, rebuild, pend, built, lost, worker>>

StillEnding ==
  /\ phase = "vox"
  /\ phase' = "home"
  /\ UNCHANGED <<driver, down, wantC, plan, rebuild, keyingFor, pend, ending, b2r, status,
                 handle, readings, jobs, worker>>

BackToReceiveEarly ==    \* mutant: does not wait for the queue to be let out
  /\ phase = "home"
  /\ phase' = "lost"
  /\ IF b2r
     THEN /\ b2r' = FALSE
          /\ IF CtlWorks THEN TuneTo(plan) ELSE UNCHANGED <<tuned, center, want>>
     ELSE UNCHANGED <<b2r, tuned, center, want>>
  /\ UNCHANGED <<rx, tx, silent, claim, attempts, made, st, restore, rf, was, hb, down, wantC,
                 plan, rebuild, keyingFor, pend, ending, status, handle, readings, jobs, worker>>

(* back_to_receive: once nothing is draining, back where the receiver was; *)
(* a dial that refuses is only reported.                                   *)
BackToReceive ==
  /\ phase = "home"
  /\ phase' = "lost"
  /\ IF b2r /\ ~draining
     THEN /\ b2r' = FALSE
          /\ IF CtlWorks THEN TuneTo(plan) ELSE UNCHANGED <<tuned, center, want>>
     ELSE UNCHANGED <<b2r, tuned, center, want>>
  /\ UNCHANGED <<rx, tx, silent, claim, attempts, made, st, restore, rf, was, hb, down, wantC,
                 plan, rebuild, keyingFor, pend, ending, status, handle, readings, jobs, worker>>

(* tx_lost, read once. *)
LostCheck ==
  /\ phase = "lost"
  /\ phase' = "cmds"
  /\ lost' = FALSE
  /\ IF lost
     THEN keyingFor' = FALSE /\ UnkeyNow
     ELSE UNCHANGED <<keyingFor, ending, armed, keyed, draining, status, b2r, jobs>>
  /\ UNCHANGED <<driver, down, wantC, plan, rebuild, pend, built, worker>>

StartTxStep == StartingTx /\ UNCHANGED app

RadioThread == \/ StartTxStep \/ Refused \/ KeySame \/ KeyForRebuild
               \/ CommandsDone \/ NoRetune \/ Retune \/ Rebuild \/ RebuildBreaks \/ NoRebuild
               \/ Read \/ FinishOver \/ StillEnding \/ BackToReceive \/ LostCheck
               \/ (HandingBack("rf") /\ UNCHANGED app)

Operator == \/ KeyUp \/ \E mic \in BOOLEAN : KeyDown(mic)
            \/ \E f \in Choices : Center(f)
            \/ Edit

-----------------------------------------------------------------------------
(* The transmit thread.                                                    *)

Idle(what) == txpc = "idle" /\ ~Handing("tx") /\ jobs # <<>> /\ Head(jobs).what = what

(* hand_back moves the radio from the chain it replaces to the new one. *)
ChainJob ==
  /\ Idle("chain")
  /\ jobs' = Tail(jobs)
  /\ graph' = TRUE
  /\ sink' = IF waiting # Nobody THEN waiting ELSE sink
  /\ waiting' = Nobody
  /\ refused' = FALSE
  /\ UNCHANGED <<driver, loop, handle, readings, txpc, next>>

(* Keyed, and on the chain if there is one; a stream still on the sink is  *)
(* finished by attach before the new one goes on.                          *)
KeyJob ==
  /\ Idle("key")
  /\ jobs' = Tail(jobs)
  /\ keyed' = TRUE /\ lost' = FALSE
  /\ LET n == Head(jobs).over IN
     IF ~graph
     THEN waiting' = n /\ UNCHANGED <<driver, sink, next, txpc, refused>>
     ELSE IF sink = Nobody
     THEN sink' = n /\ refused' = FALSE /\ UNCHANGED <<driver, waiting, next, txpc>>
     ELSE /\ HandBack("tx", sink)
          /\ next' = n /\ txpc' = "attach"
          /\ UNCHANGED <<waiting, sink, refused>>
  /\ UNCHANGED <<loop, handle, draining, graph>>

Attached ==
  /\ txpc = "attach" /\ ~Handing("tx")
  /\ sink' = next /\ next' = Nobody /\ txpc' = "idle"
  /\ refused' = FALSE
  /\ UNCHANGED <<driver, loop, handle, readings, jobs, graph, waiting>>

(* Unkey and Drop let go of the stream, wherever it is. *)
LetGo(what) ==
  /\ Idle(what)
  /\ jobs' = Tail(jobs)
  /\ txpc' = what
  /\ IF sink # Nobody THEN HandBack("tx", sink)
     ELSE IF waiting # Nobody THEN HandBack("tx", waiting)
     ELSE UNCHANGED driver
  /\ UNCHANGED <<loop, handle, readings, graph, waiting, sink, next, refused>>

Unkeyed ==
  /\ txpc \in {"unkey", "drop"} /\ ~Handing("tx")
  /\ keyed' = FALSE /\ draining' = FALSE
  /\ sink' = Nobody /\ waiting' = Nobody
  /\ graph' = (graph /\ txpc = "unkey")
  /\ txpc' = "idle"
  /\ UNCHANGED <<driver, loop, handle, lost, jobs, next, refused>>

(* The radio has refused REFUSALS blocks in a row. *)
GiveUp ==
  /\ txpc = "idle" /\ graph /\ ~Handing("tx")
  /\ sink # Nobody /\ (Flaky \/ st[sink] = "dead")
  /\ HandBack("tx", sink)
  /\ refused' = TRUE
  /\ txpc' = "lost"
  /\ UNCHANGED <<loop, handle, readings, jobs, graph, waiting, sink, next>>

(* finish leaves the count of refused blocks on the sink, and a chain that *)
(* runs idle reads it again after every block until a stream is attached.  *)
StillRefused ==
  /\ txpc = "idle" /\ graph /\ refused /\ sink = Nobody
  /\ lost' = TRUE /\ keyed' = FALSE
  /\ UNCHANGED <<driver, loop, handle, draining, jobs, worker>>

GivenUp ==
  /\ txpc = "lost" /\ ~Handing("tx")
  /\ lost' = TRUE /\ keyed' = FALSE
  /\ sink' = Nobody /\ txpc' = "idle"
  /\ UNCHANGED <<driver, loop, handle, draining, jobs, graph, waiting, next, refused>>

(* A block the chain fails on is the last: it is dropped, and with it the   *)
(* stream on its sink, and nobody is told.                                 *)
ChainFails ==
  /\ Fails
  /\ txpc = "idle" /\ graph /\ ~Handing("tx")
  /\ IF sink # Nobody THEN HandBack("tx", sink) ELSE UNCHANGED driver
  /\ txpc' = "fail"
  /\ UNCHANGED <<loop, handle, readings, jobs, graph, waiting, sink, next, refused>>

ChainGone ==
  /\ txpc = "fail" /\ ~Handing("tx")
  /\ graph' = FALSE /\ sink' = Nobody /\ txpc' = "idle"
  /\ UNCHANGED <<driver, loop, handle, readings, jobs, waiting, next, refused>>

TakesJob == ChainJob \/ KeyJob \/ LetGo("unkey") \/ LetGo("drop")
Finishes == \/ Attached \/ Unkeyed \/ GivenUp \/ ChainGone
            \/ (HandingBack("tx") /\ UNCHANGED app)
TransmitThread == TakesJob \/ Finishes \/ GiveUp \/ StillRefused \/ ChainFails

Board == (ReaderDies \/ \E n \in Overs : WriterDies(n)) /\ UNCHANGED app

Next == RadioThread \/ TransmitThread \/ Operator \/ Board

(* Both threads are scheduled, the transmit thread looks for a job before  *)
(* every block, and a courtesy tone is out in the end.                     *)
Fairness == /\ WF_vars(RadioThread) /\ WF_vars(TakesJob) /\ WF_vars(Finishes)
            /\ SF_vars(FinishOver)

Spec == Init /\ [][Next /\ world' = world]_<<vars, world>> /\ Fairness

-----------------------------------------------------------------------------
Alive == phase # "stopped"

Streaming(n) == st[n] \in {"live", "dead"}
Holders(n) == {h \in {"start", "pend", "jobs", "waiting", "sink", "next"} :
                 \/ h = "start" /\ n = made /\ rf \in {"tune", "keyed"}
                 \/ h = "pend" /\ pend = n
                 \/ h = "jobs" /\ \E i \in 1..Len(jobs) : jobs[i] = Job("key", n)
                 \/ h = "waiting" /\ waiting = n
                 \/ h = "sink" /\ sink = n
                 \/ h = "next" /\ next = n}

(* An open transmit stream is in one pair of hands: being opened, waiting  *)
(* for the rebuild, on its way to the transmit thread, or there.  One that *)
(* nobody held would transmit until the process ended.                     *)
StreamHasOneOwner ==
  \A n \in Overs : /\ Streaming(n) => \E h \in Holders(n) : Holders(n) = {h}
                   /\ n > made => Holders(n) = {}

(* ON AIR on the screen is a radio on the transmit thread's chain, or on   *)
(* its way there, or one whose loss the next turn of the loop will show.   *)
(* "A key lit over a transmitter with no chain is the one state an         *)
(* operator must never be shown": Transmitter::on_air.                     *)
LampOnlyOnAir ==
  status => /\ armed /\ built
            /\ \/ graph /\ sink # Nobody
               \/ \E i \in 1..Len(jobs) : jobs[i].what = "key"
               \/ lost

(* So it is unless an edit has taken the chain away, or its own run has.   *)
LampMeansOnAir == ~Breaks /\ ~Fails => LampOnlyOnAir

(* Once the commands of a block have been carried out, a radio nobody is   *)
(* keying is not keyed, but for the tone that ends an over.  "A key let up *)
(* before the rebuild it was waiting for: the rebuild must not go on to    *)
(* announce it on air": unkey.                                             *)
KeyUpIsOff ==
  Alive /\ phase = "read" /\ ~down /\ ~ending => ~armed

(* The lamp, the key and the carrier say the same.  The second half holds  *)
(* for an operator who waits for the rebuild: see KeyUpIsOff.              *)
LampTellsTheAir == LampMeansOnAir /\ (~Eager => KeyUpIsOff)

(* A half duplex radio "is retuned for the over": while the stream is on   *)
(* the chain the synthesiser stays on the channel.  key_up.                *)
OnAirOnFrequency == sink # Nobody /\ st[sink] = "live" => tuned = Air

(* With nothing keyed, draining or on its way, the dial is where the       *)
(* receiver thinks it is.  Left on the transmit frequency, it "looks like  *)
(* reception never resumed at all": back_to_receive.                       *)
DialIsHome ==
  /\ phase = "cmds" /\ rf = "idle" /\ Settled /\ ~armed
  /\ pend = Nobody /\ jobs = <<>> /\ txpc = "idle" /\ ~lost
  => center = plan

(* The dial follows the over: on the channel while it is on the air, and   *)
(* home after it, if nobody moves it meanwhile and no over is refused, by  *)
(* the board, for want of a microphone or because the last one still held  *)
(* the radio.                                                              *)
DialFollowsTheOver == Calm => OnAirOnFrequency /\ DialIsHome

(* A key held down is let up by nothing but the radio going away or an     *)
(* edit that takes the chain away: neither the end of the over before it   *)
(* nor its tone does it.  An operator who keys again while that tone goes  *)
(* out is left out of it: see OneOverNow.  unkey, finish_over.             *)
HeldKeyHolds ==
  [][armed /\ ~armed' => ~down' \/ lost \/ Breaks \/ (Eager /\ ending)]_vars

(* "Keyed again while the last over's tone was going out: it is one over   *)
(* now": whenever it was pressed, the key is held till it is let up.  key. *)
OneOverNow == [][armed /\ ~armed' => ~down' \/ lost]_vars

(* A retune never costs the receiver its thread: "the failure propagated   *)
(* out of this loop and killed the thread" is what set_rate was cured of.  *)
RetuneSurvived == [][phase = "retune" => phase' # "stopped"]_vars

(* The transmit thread answers every unkey, and a key let up brings the    *)
(* receiver back, on its own frequency; no retune on the way ends its      *)
(* thread, for an operator who waits for the radio to come back.           *)
ComesHome ==
  /\ draining ~> ~draining
  /\ ~down /\ Calm ~> (down \/ (rx = "live" /\ ~silent /\ tuned = plan))
=============================================================================
