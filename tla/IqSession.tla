----------------------------- MODULE IqSession -----------------------------
(***************************************************************************)
(* One client of an IQ stream server, from the welcome to the end:         *)
(*   converse, subscribe, pump, punch_loop   crates/iqstream/src/server.rs *)
(*   IqStream::subscribe, next_block         crates/iqstream/src/client.rs *)
(*   heard                                crates/iqstream/src/subscribe.rs *)
(* and of the stream's owner (nodes/src/iqstream_nodes.rs) what it does to *)
(* the stream: retuned, set_settings, remove_stream, add_stream.           *)
(*                                                                         *)
(* "down" is everything on its way to the client: the out queue, the       *)
(* socket, the client's own queue, and after the first OutDepth frames     *)
(* those whose senders wait for room, in the order they began to (tokio's  *)
(* mpsc is fair).  A task with a frame waiting does nothing else.  All the *)
(* server's tasks share one thread (new_current_thread), so reading the    *)
(* stream's description and queueing it is one step; the owner of the      *)
(* stream is on another.                                                   *)
(***************************************************************************)
EXTENDS Naturals, Sequences, FiniteSets

CONSTANTS
    Freqs,         \* where the dial may stand
    FirstHz,       \* where it stands when the tuner is first offered
    OutDepth,      \* capacity of down
    MaxStreams,    \* bound: times the tuner is offered
    MaxRetunes,    \* bound: moves of the dial
    MaxNews,       \* bound: announcements of another setting
    Worlds         \* "calm", "moves", "blocked", "comes", "stalls", "drags", "torn"

ASSUME SessionConstants ==
    /\ FirstHz \in Freqs /\ OutDepth \in Nat \ {0} /\ MaxStreams \in Nat \ {0}
    /\ MaxRetunes \in Nat /\ MaxNews \in Nat
    /\ Worlds \subseteq {"calm", "moves", "blocked", "comes", "stalls", "drags", "torn"}

VARIABLES
    world,     \* frozen: the surroundings of this behaviour
    \* the stream's owner
    live,      \* id the tuner is offered under, 0 for none
    made,      \* next_id
    dial,      \* Stream::center_hz of every id
    retunes,   \* moves of the dial so far
    news,      \* announcements so far
    \* the server's side of the connection
    conv,      \* where converse is
    chg,       \* its receiver of Streams::changed
    sub,       \* pump of its subscription, 0 for none
    asked,     \* transport of the subscribe being served
    pumps,     \* the tasks it started
    expects,   \* Streams::punches: pump the token leads to, 0 for none
    early,     \* Streams::early holds the token
    silent,    \* pings since the client was last heard from
    \* between them
    up, down,
    inl,       \* a block is on the control connection
    air,       \* a block is on its way as datagrams
    punch,     \* a punch is on its way
    \* the client
    cst,       \* where it is
    info,      \* StreamInfo: the id and the frequency it labels blocks with
    via,       \* transport
    armed,     \* fallback_at is set
    heard,     \* a block has arrived
    stalled    \* its caller has stopped polling

owner == <<live, made, dial, retunes, news>>
server == <<conv, chg, sub, asked, pumps, silent>>
table == <<expects, early>>
wire == <<up, down>>
data == <<inl, air, punch>>
client == <<cst, info, via, armed, heard, stalled>>
vars == <<world, owner, server, table, wire, data, client>>

Ids == 1..MaxStreams
Transports == {"udp", "tcp"}
Gens == 1..2              \* the first subscription, and the fallback's
NoHz == "none"            \* no frequency in the message

Idle == [st |-> "none", id |-> 0, via |-> "udp", stop |-> FALSE,
         dest |-> FALSE, rts |-> <<>>]

Said(kind, id, hz) == [kind |-> kind, id |-> id, hz |-> hz]
About(kind, id) == Said(kind, id, NoHz)
Kinds == {"WELCOME", "SUBSCRIBED", "UNSUBSCRIBED", "STREAMS",
          "STREAM_CHANGED", "TUNED", "ERROR", "PING", "PONG"}
Messages == [kind : Kinds, id : 0..MaxStreams, hz : Freqs \cup {NoHz}]
Requests == [kind : {"SUBSCRIBE", "UNSUBSCRIBE", "PING", "torn", "EOF"}, via : Transports]

TypeOK ==
    /\ world \in Worlds
    /\ live \in 0..MaxStreams /\ made \in Ids /\ dial \in [Ids -> Freqs]
    /\ retunes \in 0..MaxRetunes /\ news \in 0..MaxNews
    /\ conv \in {"greet", "listen", "idle", "replacing", "subscribing",
                 "dropping", "leaving", "closing", "closed"}
    /\ chg \in Seq({"Set", "Stream"})
    /\ sub \in {0} \cup Gens /\ asked \in Transports
    /\ \A g \in Gens :
        /\ pumps[g].st \in {"none", "new", "waiting", "running", "done"}
        /\ pumps[g].id \in 0..MaxStreams /\ pumps[g].via \in Transports
        /\ pumps[g].rts \in Seq(Freqs)
    /\ expects \in {0} \cup Gens /\ early \in BOOLEAN
    /\ silent \in 0..3
    /\ up \in Seq(Requests) /\ down \in Seq(Messages) /\ Len(down) <= OutDepth + 3
    /\ inl \in BOOLEAN /\ air \in BOOLEAN /\ punch \in BOOLEAN
    /\ cst \in {"greeting", "asking", "reading", "ended", "failed", "gone"}
    /\ info \in [id : 0..MaxStreams, hz : Freqs \cup {NoHz}]
    /\ via \in Transports
    /\ armed \in BOOLEAN /\ heard \in BOOLEAN /\ stalled \in BOOLEAN

Init ==
    /\ world \in Worlds
    /\ live = 1 /\ made = 1 /\ dial = [i \in Ids |-> FirstHz]
    /\ retunes = 0 /\ news = 0
    /\ conv = "greet" /\ chg = <<>> /\ sub = 0 /\ asked = "udp"
    /\ pumps = [g \in Gens |-> Idle] /\ silent = 0
    /\ expects = 0 /\ early = FALSE
    /\ up = <<>> /\ down = <<>>
    /\ inl = FALSE /\ air = FALSE /\ punch = FALSE
    /\ cst = "greeting" /\ info = [id |-> 0, hz |-> NoHz] /\ via = "udp"
    /\ armed = FALSE /\ heard = FALSE /\ stalled = FALSE

-----------------------------------------------------------------------------
(* The stream's owner.                                                     *)

Subscribed(g) == pumps[g].st \in {"waiting", "running"}

\* converse has taken its receiver of Streams::changed.
Told(change) ==
    chg' = IF conv \in {"greet", "listen", "closed"} THEN chg ELSE Append(chg, change)

\* Where the dial may move: off "moves" and "drags" not between the welcome
\* and the first block; in "comes" it moves only with the tuner.
MayMove ==
    \/ world \in {"moves", "drags"}
    \/ world \notin {"stalls", "comes", "torn"} /\ (conv = "greet" \/ (cst = "reading" /\ heard))

Retuned(hz) ==
    /\ live # 0 /\ retunes < MaxRetunes /\ MayMove
    /\ hz # dial[live]
    /\ dial' = [dial EXCEPT ![live] = hz]
    /\ retunes' = retunes + 1
    /\ pumps' = [g \in Gens |->
                    IF Subscribed(g) /\ pumps[g].id = live
                    THEN [pumps[g] EXCEPT !.rts = Append(@, hz)] ELSE pumps[g]]
    /\ UNCHANGED <<world, live, made, news, conv, chg, sub, asked, silent,
                   table, wire, data, client>>

\* set_settings, set_gain_db and the others that end in announce
SetSettings ==
    /\ live # 0 /\ news < MaxNews /\ world \in {"calm", "moves", "blocked"}
    /\ news' = news + 1
    /\ Told("Stream")
    /\ UNCHANGED <<world, live, made, dial, retunes, conv, sub, asked,
                   pumps, silent, table, wire, data, client>>

RemoveStream ==
    /\ live # 0 /\ world = "comes"
    /\ live' = 0
    /\ Told("Set")
    /\ UNCHANGED <<world, made, dial, retunes, news, conv, sub, asked,
                   pumps, silent, table, wire, data, client>>

AddStream(hz) ==
    /\ live = 0 /\ made < MaxStreams
    /\ live' = made + 1
    /\ made' = made + 1
    /\ dial' = [dial EXCEPT ![made + 1] = hz]
    /\ Told("Set")
    /\ UNCHANGED <<world, retunes, news, conv, sub, asked,
                   pumps, silent, table, wire, data, client>>

-----------------------------------------------------------------------------
(* converse: one action for each branch of its select!, and one for each   *)
(* await inside a branch.                                                  *)

Desc(kind) == IF live = 0 THEN About(kind, 0) ELSE Said(kind, live, dial[live])

\* Where a sender waits, it waits in the queue.
Waits(kinds) == \E i \in DOMAIN down : i > OutDepth /\ down[i].kind \in kinds
ConverseWaits == Waits(Kinds \ {"TUNED"})
PumpWaits == Waits({"TUNED"})

Send(msgs) == down' = down \o msgs

Welcome ==
    /\ conv = "greet"
    /\ Send(<<Desc("WELCOME")>>)
    /\ conv' = "listen"
    /\ UNCHANGED <<world, owner, chg, sub, asked, pumps, silent, table, up, data, client>>

\* shared.changed.subscribe, after the welcome is in the queue
Listen ==
    /\ conv = "listen" /\ ~ConverseWaits
    /\ conv' = "idle"
    /\ UNCHANGED <<world, owner, chg, sub, asked, pumps, silent, table, wire, data, client>>

Ready == conv = "idle" /\ ~ConverseWaits

\* Subscription::end: the switch, before the wait for the task
Stop(g) == [pumps EXCEPT ![g].stop = TRUE]
StopAny == IF sub = 0 THEN pumps ELSE Stop(sub)
Ended == sub # 0 => pumps[sub].st = "done"

PassOnChange ==
    /\ Ready /\ chg # <<>> /\ Head(chg) = "Stream"
    /\ chg' = Tail(chg)
    /\ Send(IF live = 0 THEN <<>> ELSE <<Desc("STREAM_CHANGED")>>)
    /\ UNCHANGED <<world, owner, conv, sub, asked, pumps, silent, table, up, data, client>>

PassOnSet ==
    /\ Ready /\ chg # <<>> /\ Head(chg) = "Set"
    /\ chg' = Tail(chg)
    /\ LET lost == sub # 0 /\ pumps[sub].id # live IN
       \/ /\ lost
          /\ conv' = "dropping"
          /\ pumps' = Stop(sub)
          /\ UNCHANGED down
       \/ /\ ~lost
          /\ Send(<<About("STREAMS", 0)>>)
          /\ UNCHANGED <<conv, pumps>>
    /\ UNCHANGED <<world, owner, sub, asked, silent, table, up, data, client>>

DroppedSilently ==     \* mutant: the reader of a tuner taken away is not told
    /\ conv = "dropping" /\ Ended
    /\ Send(<<About("STREAMS", 0)>>)
    /\ sub' = 0
    /\ conv' = "idle"
    /\ UNCHANGED <<world, owner, chg, asked, pumps, silent, table, up, data, client>>

Dropped ==
    /\ conv = "dropping" /\ Ended
    /\ Send(<<About("UNSUBSCRIBED", pumps[sub].id), About("STREAMS", 0)>>)
    /\ sub' = 0
    /\ conv' = "idle"
    /\ UNCHANGED <<world, owner, chg, asked, pumps, silent, table, up, data, client>>

\* The rest of a SUBSCRIBE once nothing is left to replace: the punch table
\* and the answer; Spawn follows.
Fresh == CHOOSE g \in Gens : pumps[g].st = "none" /\ \A h \in 1..(g - 1) : pumps[h].st # "none"
Accept(t) ==
    /\ Send(<<About("SUBSCRIBED", info.id)>>)
    /\ conv' = "subscribing"
    /\ asked' = t
    /\ expects' = IF t = "udp" THEN Fresh ELSE expects

TakeSubscribe ==
    /\ Ready /\ up # <<>> /\ Head(up).kind = "SUBSCRIBE"
    /\ up' = Tail(up)
    /\ \/ /\ live # info.id
          /\ Send(<<About("ERROR", 0)>>)
          /\ UNCHANGED <<conv, asked, pumps, expects>>
       \/ /\ live = info.id /\ sub = 0
          /\ Accept(Head(up).via)
          /\ UNCHANGED pumps
       \/ /\ live = info.id /\ sub # 0
          /\ conv' = "replacing"
          /\ asked' = Head(up).via
          /\ pumps' = Stop(sub)
          /\ UNCHANGED <<down, expects>>
    /\ UNCHANGED <<world, owner, chg, sub, silent, early, data, client>>

ReplacedAtOnce ==      \* mutant: does not wait for the pump it stopped
    /\ conv = "replacing"
    /\ sub' = 0
    /\ Accept(asked)
    /\ UNCHANGED <<world, owner, chg, pumps, silent, early, up, data, client>>

Replaced ==
    /\ conv = "replacing" /\ Ended
    /\ sub' = 0
    /\ Accept(asked)
    /\ UNCHANGED <<world, owner, chg, pumps, silent, early, up, data, client>>

Spawn ==
    /\ conv = "subscribing" /\ ~ConverseWaits
    /\ sub' = Fresh
    /\ pumps' = [pumps EXCEPT ![Fresh] =
                    [Idle EXCEPT !.st = "new", !.id = info.id, !.via = asked,
                                 !.dest = asked = "tcp" \/ early]]
    /\ early' = (early /\ asked # "udp")
    /\ conv' = "idle"
    /\ UNCHANGED <<world, owner, chg, asked, silent, expects, wire, data, client>>

TakeUnsubscribe ==
    /\ Ready /\ up # <<>> /\ Head(up).kind = "UNSUBSCRIBE"
    /\ up' = Tail(up)
    /\ conv' = "leaving"
    /\ pumps' = StopAny
    /\ UNCHANGED <<world, owner, chg, sub, asked, silent, table, down, data, client>>

Left ==
    /\ conv = "leaving" /\ Ended
    /\ Send(<<About("UNSUBSCRIBED", info.id)>>)
    /\ sub' = 0
    /\ conv' = "closing"
    /\ UNCHANGED <<world, owner, chg, asked, pumps, silent, table, up, data, client>>

TakePing ==
    /\ Ready /\ up # <<>> /\ Head(up).kind = "PING"
    /\ up' = Tail(up)
    /\ Send(<<About("PONG", 0)>>)
    /\ UNCHANGED <<world, owner, conv, chg, sub, asked, pumps, silent, table, data, client>>

\* The ping branch is taken with a frame's head read and its body still to
\* come: read_frame starts over, and the head is gone.
Tear ==
    /\ Ready /\ world = "torn" /\ up # <<>> /\ Head(up).kind \notin {"torn", "EOF"}
    /\ up' = [up EXCEPT ![1].kind = "torn"]
    /\ Send(<<About("PING", 0)>>)
    /\ UNCHANGED <<world, owner, conv, chg, sub, asked, pumps, silent, table, data, client>>

\* The body's first entry has the shape of a frame, and its value (an id, the
\* time) is not a list of entries: an error, which leaves converse past its
\* end.  The switch dropped with a subscription stops its pump, and nobody
\* waits for it.
TakeTorn ==
    /\ Ready /\ up # <<>> /\ Head(up).kind = "torn"
    /\ up' = Tail(up)
    /\ conv' = "closed"
    /\ pumps' = StopAny
    /\ sub' = 0
    /\ UNCHANGED <<world, owner, chg, asked, silent, table, down, data, client>>

TakeEof ==
    /\ Ready /\ up # <<>> /\ Head(up).kind = "EOF"
    /\ up' = Tail(up)
    /\ conv' = "closing"
    /\ pumps' = StopAny
    /\ UNCHANGED <<world, owner, chg, sub, asked, silent, table, down, data, client>>

\* A client that is polled answers every ping; the tick matters for the rest.
\* Three ticks without an answer are the 45 seconds of IDLE_TIMEOUT_S.
Ping ==
    /\ Ready /\ stalled /\ silent < 3
    /\ silent' = silent + 1
    /\ Send(<<About("PING", 0)>>)
    /\ UNCHANGED <<world, owner, conv, chg, sub, asked, pumps, table, up, data, client>>

IdleTimeout ==
    /\ Ready /\ stalled /\ silent = 3
    /\ conv' = "closing"
    /\ pumps' = StopAny
    /\ UNCHANGED <<world, owner, chg, sub, asked, silent, table, wire, data, client>>

Close ==
    /\ conv = "closing" /\ ~ConverseWaits /\ Ended
    /\ sub' = 0
    /\ conv' = "closed"
    /\ UNCHANGED <<world, owner, chg, asked, pumps, silent, table, wire, data, client>>

-----------------------------------------------------------------------------
(* A pump, and the punch it waits for.                                     *)

Begin(g) ==
    /\ pumps[g].st = "new"
    /\ pumps' = [pumps EXCEPT ![g].st = IF pumps[g].dest THEN "running" ELSE "waiting"]
    /\ UNCHANGED <<world, owner, conv, chg, sub, asked, silent, table, wire, data, client>>

Punched(g) ==
    /\ pumps[g].st = "waiting" /\ pumps[g].dest
    /\ pumps' = [pumps EXCEPT ![g].st = "running"]
    /\ UNCHANGED <<world, owner, conv, chg, sub, asked, silent, table, wire, data, client>>

TellOldest(g) ==       \* mutant: one retune is passed on and the rest forgotten
    /\ pumps[g].st = "running" /\ ~PumpWaits /\ pumps[g].rts # <<>>
    /\ Send(<<Said("TUNED", pumps[g].id, Head(pumps[g].rts))>>)
    /\ pumps' = [pumps EXCEPT ![g].rts = <<>>]
    /\ UNCHANGED <<world, owner, conv, chg, sub, asked, silent, table, up, data, client>>

\* What retunes.recv answered goes on the queue.
Tell(g) ==
    /\ pumps[g].st = "running" /\ ~PumpWaits /\ pumps[g].rts # <<>>
    /\ Send(<<Said("TUNED", pumps[g].id, Head(pumps[g].rts))>>)
    /\ pumps' = [pumps EXCEPT ![g].rts = Tail(@)]
    /\ UNCHANGED <<world, owner, conv, chg, sub, asked, silent, table, up, data, client>>

\* One block out; a full queue or a lost datagram is in IqPump.
Sample(g) ==
    /\ pumps[g].st = "running" /\ ~PumpWaits /\ live = pumps[g].id
    /\ \/ /\ pumps[g].via = "tcp" /\ ~inl
          /\ inl' = TRUE
          /\ UNCHANGED air
       \/ /\ pumps[g].via = "udp" /\ ~air
          /\ air' = TRUE
          /\ UNCHANGED inl
    /\ UNCHANGED <<world, owner, server, table, wire, punch, client>>

\* Both drops run: Counted, and Punched for the pump that holds a place.
Finish(g) ==
    /\ pumps[g].st \in {"waiting", "running"} /\ ~PumpWaits /\ pumps[g].stop
    /\ pumps' = [pumps EXCEPT ![g].st = "done", ![g].rts = <<>>]
    /\ expects' = IF pumps[g].via = "udp" THEN 0 ELSE expects
    /\ UNCHANGED <<world, owner, conv, chg, sub, asked, silent, early, wire, data, client>>

\* punch_loop
PunchArrives ==
    /\ punch /\ world # "blocked"
    /\ punch' = FALSE
    /\ \/ /\ expects # 0
          /\ pumps' = [pumps EXCEPT ![expects].dest = TRUE]
          /\ UNCHANGED early
       \/ /\ expects = 0
          /\ early' = TRUE
          /\ UNCHANGED pumps
    /\ UNCHANGED <<world, owner, conv, chg, sub, asked, silent, expects,
                   wire, inl, air, client>>

-----------------------------------------------------------------------------
(* The client.                                                             *)

Ask(kind, t) == Append(up, [kind |-> kind, via |-> t])

TakeWelcome ==
    /\ cst = "greeting" /\ down # <<>>
    /\ down' = Tail(down)
    /\ \/ /\ Head(down).id # 0
          /\ info' = [id |-> Head(down).id, hz |-> Head(down).hz]
          /\ up' = Ask("SUBSCRIBE", via)
          /\ cst' = "asking"
       \/ /\ Head(down).id = 0
          /\ cst' = "failed"
          /\ up' = Ask("EOF", via)
          /\ UNCHANGED info
    /\ UNCHANGED <<world, owner, server, table, data, via, armed, heard, stalled>>

\* The one frame read after the SUBSCRIBE has to be its answer.
TakeReply ==
    /\ cst = "asking" /\ down # <<>>
    /\ down' = Tail(down)
    /\ \/ /\ Head(down).kind = "SUBSCRIBED"
          /\ cst' = "reading"
          /\ armed' = TRUE
          /\ punch' = TRUE
          /\ UNCHANGED up
       \/ /\ Head(down).kind # "SUBSCRIBED"
          /\ cst' = "failed"
          /\ up' = Ask("EOF", via)
          /\ UNCHANGED <<armed, punch>>
    /\ UNCHANGED <<world, owner, server, table, inl, air, info, via, heard, stalled>>

Polled == cst = "reading" /\ ~stalled

Hear ==
    LET m == Head(down)
        ends == m.kind = "UNSUBSCRIBED" /\ m.id = info.id
        moves == m.kind \in {"TUNED", "STREAM_CHANGED"} /\ m.id = info.id IN
    /\ Polled /\ down # <<>>
    /\ down' = Tail(down)
    /\ info' = IF moves THEN [info EXCEPT !.hz = m.hz] ELSE info
    /\ cst' = IF ends THEN "ended" ELSE cst
    /\ up' = IF ends THEN Ask("EOF", via) ELSE up
    /\ UNCHANGED <<world, owner, server, table, data, via, armed, heard, stalled>>

HearBlock ==
    /\ Polled
    /\ \/ /\ inl
          /\ inl' = FALSE
          /\ UNCHANGED air
       \/ /\ air /\ via = "udp" /\ world # "blocked"
          /\ air' = FALSE
          /\ UNCHANGED inl
    /\ heard' = TRUE
    /\ armed' = FALSE
    /\ UNCHANGED <<world, owner, server, table, wire, punch, cst, info, via, stalled>>

FallBack ==
    /\ Polled /\ armed
    /\ via' = "tcp"
    /\ armed' = FALSE
    /\ up' = Ask("SUBSCRIBE", "tcp")
    /\ UNCHANGED <<world, owner, server, table, down, data, cst, info, heard, stalled>>

\* punching while nothing arrived, the keepalive after
SendPunch ==
    /\ Polled /\ via = "udp" /\ ~punch
    /\ punch' = TRUE
    /\ UNCHANGED <<world, owner, server, table, wire, inl, air, client>>

Unsubscribe ==
    /\ Polled /\ heard /\ world \in {"calm", "comes"}
    /\ \A i \in DOMAIN up : up[i].kind # "UNSUBSCRIBE"
    /\ conv # "leaving" /\ conv # "closing" /\ conv # "closed"
    /\ up' = Ask("UNSUBSCRIBE", via)
    /\ UNCHANGED <<world, owner, server, table, down, data, client>>

\* The keepalive; one at a time, and only where frames are torn.
KeepAlive ==
    /\ Polled /\ world = "torn" /\ up = <<>>
    /\ up' = Ask("PING", via)
    /\ UNCHANGED <<world, owner, server, table, down, data, client>>

\* The connection is at its end: the writer goes when the last sender has.
HangUp ==
    /\ Polled \/ cst = "asking"
    /\ conv = "closed" /\ down = <<>>
    /\ \A g \in Gens : pumps[g].st \in {"none", "done"}
    /\ cst' = IF cst = "asking" THEN "failed" ELSE "ended"
    /\ UNCHANGED <<world, owner, server, table, wire, data, info, via, armed, heard, stalled>>

Leave ==
    /\ cst = "reading" /\ world \in {"moves", "blocked"}
    /\ cst' = "gone"
    /\ up' = Ask("EOF", via)
    /\ UNCHANGED <<world, owner, server, table, down, data, info, via, armed, heard, stalled>>

Stall ==
    /\ Polled /\ world \in {"stalls", "drags"}
    /\ stalled' = TRUE
    /\ UNCHANGED <<world, owner, server, table, wire, data, cst, info, via, armed, heard>>

\* A socket whose client is gone takes what is written to it, for a while.
Discard ==
    /\ cst \in {"ended", "failed", "gone"} /\ down # <<>>
    /\ down' = Tail(down)
    /\ UNCHANGED <<world, owner, server, table, up, data, client>>

LoseDatagram ==
    /\ air \/ punch
    /\ \/ air' = FALSE /\ UNCHANGED punch
       \/ punch' = FALSE /\ UNCHANGED air
    /\ UNCHANGED <<world, owner, server, table, wire, inl, client>>

-----------------------------------------------------------------------------
Owner == (\E hz \in Freqs : Retuned(hz) \/ AddStream(hz)) \/ SetSettings \/ RemoveStream

Converse ==
    \/ Welcome \/ Listen \/ PassOnChange \/ PassOnSet \/ Dropped
    \/ TakeSubscribe \/ Replaced \/ Spawn \/ TakeUnsubscribe \/ Left
    \/ TakePing \/ TakeTorn \/ TakeEof
    \/ Ping \/ IdleTimeout \/ Close

Pump(g) == Begin(g) \/ Punched(g) \/ Finish(g)

Reader == TakeWelcome \/ TakeReply \/ Hear \/ HangUp

Next ==
    \/ Owner \/ Converse \/ Tear
    \/ \E g \in Gens : Pump(g) \/ Tell(g) \/ Sample(g)
    \/ PunchArrives
    \/ Reader \/ HearBlock \/ FallBack \/ SendPunch
    \/ Unsubscribe \/ KeepAlive \/ Leave \/ Stall \/ Discard \/ LoseDatagram

\* select! polls its ready branches in random order, so one that stays ready
\* is taken; the tasks run on a runtime that starves nobody.  The network
\* owes nothing: no datagram has to arrive.
Fairness ==
    /\ WF_vars(Converse)
    /\ WF_vars(Ping) /\ WF_vars(IdleTimeout)
    /\ WF_vars(Reader) /\ WF_vars(HearBlock) /\ WF_vars(FallBack) /\ WF_vars(Discard)
    /\ \A g \in Gens : WF_vars(Pump(g)) /\ WF_vars(Tell(g)) /\ WF_vars(Sample(g))

Spec == Init /\ [][Next]_vars /\ Fairness

-----------------------------------------------------------------------------
(* What a subscription promises.                                           *)

\* A subscription ends on the server's word.  "read_exact is not cancellation
\* safe" (client.rs:250), and the server's select! cancels one.
EndsOnItsWord ==
    [][cst = "reading" /\ cst' = "ended" =>
          down # <<>> /\ Head(down).kind = "UNSUBSCRIBED"]_vars

Alive(g) == pumps[g].st \notin {"none", "done"}

\* A subscribe that replaces another waits for its pump: "two pumps would
\* send it both" (server.rs:1041-1043).
OnePump == \A g, h \in Gens : Alive(g) /\ Alive(h) => g = h

\* Nothing that could still change the label is on its way.
Quiet ==
    /\ conv = "idle" /\ chg = <<>> /\ up = <<>> /\ down = <<>>
    /\ sub # 0 /\ Subscribed(sub)
    /\ \A g \in Gens : pumps[g].rts = <<>>

\* The owner tells every subscriber of every move, "or it labels the next
\* block at the old frequency" (server.rs:415-420): a reader that has been
\* told all there is to tell labels its blocks with the stream's frequency.
ReaderKnowsDial ==
    cst = "reading" /\ Quiet /\ live = info.id => info.hz = dial[info.id]

\* So it does where the dial stands still from the welcome to the first block.
LabelFollowsDial == world \notin {"moves", "drags"} => ReaderKnowsDial

\* A reader is handed a block or its subscription ends, whatever the network
\* does to datagrams; and one whose tuner was taken away is ended rather than
\* left waiting on a connection that stays up (subscribe.rs:364-367).  Nor does
\* the owner wait for a caller that stops polling (client.rs:3-6): its pump
\* ends, as long as the queue to it does not fill up first.
NobodyWaitsForEver ==
    /\ (cst = "reading") ~> (heard \/ cst # "reading" \/ stalled)
    /\ (cst = "reading" /\ live # info.id) ~> (cst # "reading" \/ stalled)
    /\ world # "drags" => (stalled ~> \A g \in Gens : ~Alive(g))
=============================================================================
