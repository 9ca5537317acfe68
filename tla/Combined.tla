------------------------------ MODULE Combined ------------------------------
(***************************************************************************)
(* Several tuners read as one receiver of their joint span                 *)
(* (sources/src/combine.rs).                                               *)
(*                                                                         *)
(* Each tuner has a thread that reads its blocks into a short queue, and   *)
(* the reader of the combined stream takes one chunk of every slice,       *)
(* padding with silence the slices that are late.  The unit of samples is  *)
(* what a correction skips or repeats; a sample is its number among those  *)
(* its tuner delivered.  What is done to the samples (filter, shift, sum,  *)
(* drift estimate) is left out.  A running stream looks neither at the     *)
(* dial nor at the tuners' rates (both are fixed when it starts), so the   *)
(* world "dial" tunes and the world "rx" receives.                         *)
(***************************************************************************)
EXTENDS Integers, Sequences

CONSTANTS
    N,          \* tuners stitched together
    Chunk,      \* units taken from each slice for one block
    BlockLen,   \* units each tuner delivers in one read
    Slack,      \* blocks a slice's queue holds (4)
    Slips,      \* samples a block of each slice may be corrected by: of -1, 0, 1
    Centers,    \* dial positions
    Rates,      \* rates a tuner can be set to
    MaxUnits,   \* bound: units each tuner delivers
    MaxOwn,     \* bound: units each tuner's driver loses by itself
    MaxCalls,   \* bound: calls that tune, or start
    Worlds      \* "dial", "rx"

Tuners == 1 .. N
Grace == 3  \* blocks of time a read waits for a straggler

ASSUME CombinedAssumption ==
    /\ N \in Nat \ {0, 1} /\ Chunk \in Nat \ {0} /\ Slack \in Nat \ {0}
    /\ BlockLen \in [Tuners -> Nat \ {0}]
    /\ Slips \in [Tuners -> SUBSET {-1, 0, 1}]
    /\ Centers \subseteq Nat /\ Rates \subseteq Nat \ {0}
    /\ MaxUnits \in [Tuners -> Nat] /\ MaxOwn \in [Tuners -> Nat] /\ MaxCalls \in Nat
    /\ Worlds \subseteq {"dial", "rx"}

VARIABLES
    world,      \* frozen: which half of the device is used
    calls,      \* bound: control calls made
    center,     \* Combined.center
    childRate,  \* Combined.child_rate
    at,         \* twice the frequency each tuner stands on
    rateOf,     \* the rate each tuner runs at
    settled,    \* the last control call succeeded
    rated,      \* no rate was refused since the last one taken
    thread,     \* each slice's thread: "none", "loop", "read"
    told,       \* its stop flag
    air,        \* units its tuner holds ready
    own,        \* what its stream's dropped() says
    queue,      \* its blocks on their way to the reader, laid end to end
    lost,       \* Slice.lost
    made,       \* history: units its thread read
    refused,    \* history: units its queue did not take
    rx,         \* the combined stream: "none", "open", "stopped"
    reader,     \* "idle", or "waiting" in read
    waited,     \* blocks of time this read has waited
    pending,    \* Slice.pending
    ended,      \* Slice.ended
    gone,       \* history: units that left pending, given or skipped
    padded,     \* history: units of silence each slice got in the last block
    answer      \* history: the last read's answer: "none", "block", "over"

dial == <<center, childRate, at, rateOf, settled, rated>>
tuner == <<air, own>>
slice == <<thread, told, queue, lost, made, refused>>
stitch == <<pending, ended, gone, padded>>
stream == <<rx, reader, waited, answer>>
vars == <<world, calls, dial, tuner, slice, stitch, stream>>

\* Where slice i is tuned, in half spacings: slice_center, kept at or above 0.
SliceCenter(i, f, r) ==
    LET hz == 2 * f + (2 * i - (N + 1)) * r IN IF hz < 0 THEN 0 ELSE hz

AnyOf(S) == CHOOSE x \in S : TRUE

\* What at_rate leaves behind when it succeeds, before any stream; a stream
\* runs the same wherever the dial stands.
Init ==
    /\ world \in Worlds /\ calls = 0
    /\ center \in Centers /\ childRate \in Rates
    /\ world = "rx" => center = AnyOf(Centers) /\ childRate = AnyOf(Rates)
    /\ settled = TRUE /\ rated = TRUE
    /\ at = [i \in Tuners |-> SliceCenter(i, center, childRate)]
    /\ rateOf = [i \in Tuners |-> childRate]
    /\ thread = [i \in Tuners |-> "none"] /\ told = [i \in Tuners |-> FALSE]
    /\ air = [i \in Tuners |-> 0] /\ own = [i \in Tuners |-> 0]
    /\ queue = [i \in Tuners |-> <<>>] /\ lost = [i \in Tuners |-> 0]
    /\ made = [i \in Tuners |-> 0] /\ refused = [i \in Tuners |-> 0]
    /\ rx = "none" /\ reader = "idle" /\ waited = 0 /\ answer = "none"
    /\ pending = [i \in Tuners |-> <<>>] /\ ended = [i \in Tuners |-> FALSE]
    /\ gone = [i \in Tuners |-> 0]
    /\ padded = [i \in Tuners |-> 0]

Call(w) ==
    /\ world = w /\ calls < MaxCalls
    /\ calls' = calls + 1 /\ UNCHANGED world

-----------------------------------------------------------------------------
\* The dial.  Each call moves the tuners one by one and returns at the first
\* that refuses; k is how many did as they were told.

Retuned(k, f, r) == [i \in Tuners |-> IF i <= k THEN SliceCenter(i, f, r) ELSE at[i]]

\* Mutant: a slice is not moved when the dial stays, though its rate did not.
MoveIfTurned(k, f, r) ==
    /\ at' = IF f = center THEN at ELSE Retuned(k, f, r)
    /\ settled' = (k = N)
    /\ center' = IF k = N THEN f ELSE center

\* set_center, with the rate the slices have by then.
Move(k, f, r) ==
    /\ at' = Retuned(k, f, r)
    /\ settled' = (k = N)
    /\ center' = IF k = N THEN f ELSE center

SetCenter(k, f) ==
    /\ Call("dial")
    /\ Move(k, f, childRate)
    /\ UNCHANGED <<childRate, rateOf, rated, tuner, slice, stitch, stream>>

\* A rate below one sample for each tuner is refused at once.
RateTooLow ==
    /\ Call("dial")
    /\ settled' = FALSE
    /\ UNCHANGED <<center, childRate, at, rateOf, rated, tuner, slice, stitch, stream>>

\* set_child_rate: a tuner that refuses, or tuners that snap to several rates.
RateRefused(k, got) ==
    /\ Call("dial")
    /\ rateOf' = [i \in Tuners |-> IF i <= k THEN got[i] ELSE rateOf[i]]
    /\ k = N => \E i \in Tuners : rateOf'[i] # rateOf'[1]
    /\ settled' = FALSE /\ rated' = FALSE
    /\ UNCHANGED <<center, childRate, at, tuner, slice, stitch, stream>>

RateTaken(r, k) ==
    /\ Call("dial")
    /\ rateOf' = [i \in Tuners |-> r]
    /\ childRate' = r /\ rated' = TRUE
    /\ Move(k, center, r)
    /\ UNCHANGED <<tuner, slice, stitch, stream>>

Dial ==
    \/ \E k \in 0 .. N, f \in Centers : SetCenter(k, f)
    \/ RateTooLow
    \/ \E k \in 0 .. N, got \in [Tuners -> Rates] : RateRefused(k, got)
    \/ \E r \in Rates, k \in 0 .. N : RateTaken(r, k)

-----------------------------------------------------------------------------
\* Starting and stopping the stream.

\* Nothing read, given or counted yet.
Fresh ==
    /\ queue' = [i \in Tuners |-> <<>>] /\ pending' = [i \in Tuners |-> <<>>]
    /\ lost' = [i \in Tuners |-> 0] /\ ended' = [i \in Tuners |-> FALSE]
    /\ made' = [i \in Tuners |-> 0] /\ refused' = [i \in Tuners |-> 0]
    /\ gone' = [i \in Tuners |-> 0] /\ padded' = [i \in Tuners |-> 0]

\* start_rx: k tuners start and get their threads.  A tuner whose thread of an
\* earlier stream still runs refuses, and any tuner may; then the threads that
\* were started stay, with nobody to hear them and nobody to stop them.
Start(k) ==
    /\ Call("rx") /\ rx = "none"
    /\ \A i \in 1 .. k : thread[i] = "none"
    /\ LET new(f, v) == [i \in Tuners |-> IF i <= k THEN v ELSE f[i]] IN
       /\ thread' = new(thread, "loop") /\ told' = new(told, FALSE)
       /\ air' = new(air, 0) /\ own' = new(own, 0)
    /\ rx' = IF k = N THEN "open" ELSE "none"
    /\ Fresh
    /\ answer' = "none"
    /\ UNCHANGED <<dial, reader, waited>>

\* CombinedRx::stop.
Stop ==
    /\ rx = "open" /\ reader = "idle"
    /\ rx' = "stopped" /\ told' = [i \in Tuners |-> TRUE]
    /\ UNCHANGED <<world, calls, dial, tuner, stitch, reader, waited, answer,
                   thread, queue, lost, made, refused>>

\* The stream is dropped after stop, with its queues and what was counted.
DropStream ==
    /\ rx = "stopped" /\ reader = "idle"
    /\ rx' = "none" /\ answer' = "none"
    /\ Fresh
    /\ UNCHANGED <<world, calls, dial, tuner, thread, told, reader, waited>>

-----------------------------------------------------------------------------
\* A slice's thread.

\* The head of its loop; a thread that was told leaves and stops its stream.
Loop(i) ==
    /\ thread[i] = "loop"
    /\ thread' = [thread EXCEPT ![i] = IF told[i] THEN "none" ELSE "read"]
    /\ UNCHANGED <<world, calls, dial, tuner, stitch, stream,
                   told, queue, lost, made, refused>>

\* A block's samples are the next ones its tuner delivers.
NextBlock(i) == [j \in 1 .. BlockLen[i] |-> made[i] + j]

\* try_send: the stream is still there, and its queue, of blocks that are all
\* as long, has room.
Takes(i) == rx # "none" /\ Len(queue[i]) < Slack * BlockLen[i]

\* Mutant: the stream's own total is added at every block.
CountedAgain(was, dropped) == was + dropped

\* fetch_max, after fetch_add of what the queue refused.
Counted(was, dropped) == IF dropped > was THEN dropped ELSE was

ReadBlock(i) ==
    /\ thread[i] = "read" /\ air[i] >= BlockLen[i]
    /\ air' = [air EXCEPT ![i] = @ - BlockLen[i]]
    /\ made' = [made EXCEPT ![i] = @ + BlockLen[i]]
    /\ LET over == IF Takes(i) THEN 0 ELSE BlockLen[i] IN
       /\ queue' = [queue EXCEPT ![i] = IF Takes(i) THEN @ \o NextBlock(i) ELSE @]
       /\ refused' = [refused EXCEPT ![i] = @ + over]
       /\ lost' = [lost EXCEPT ![i] = Counted(@ + over, own[i])]
    /\ thread' = [thread EXCEPT ![i] = "loop"]
    /\ UNCHANGED <<world, calls, dial, own, told, stitch, stream>>

\* The tuner is unplugged or its recording ends.
ReadFails(i) ==
    /\ thread[i] = "read"
    /\ thread' = [thread EXCEPT ![i] = "none"]
    /\ UNCHANGED <<world, calls, dial, tuner, stitch, stream,
                   told, queue, lost, made, refused>>

-----------------------------------------------------------------------------
\* CombinedRx::read.

\* A stopped stream is over at once.
ReadStopped ==
    /\ rx = "stopped" /\ reader = "idle"
    /\ answer' = "over"
    /\ UNCHANGED <<world, calls, dial, tuner, slice, stitch, rx, reader, waited>>

ReadBegins ==
    /\ rx = "open" /\ reader = "idle" /\ answer # "over"
    /\ reader' = "waiting" /\ answer' = "none"
    /\ padded' = [i \in Tuners |-> 0]
    /\ UNCHANGED <<world, calls, dial, tuner, slice, pending, ended, gone,
                   rx, waited>>

\* Mutant: what arrives goes before what waits.
NewestFirst(i) == queue[i] \o pending[i]

\* drain: everything there is, and whether there can be more.
Drained(i) == pending[i] \o queue[i]
Closed(i) == ended[i] \/ thread[i] = "none"

\* Mutant: over when the threads have ended, whatever they left behind.
AllClosed == \A i \in Tuners : Closed(i)

Ready == \A i \in Tuners : Len(Drained(i)) >= Chunk
Over == \A i \in Tuners : Closed(i) /\ Drained(i) = <<>>
Late == waited = Grace

Drain ==
    /\ queue' = [i \in Tuners |-> <<>>]
    /\ ended' = [i \in Tuners |-> Closed(i)]
    /\ UNCHANGED <<world, calls, dial, tuner, thread, told, lost, made, refused, rx>>

\* Neither a block nor the end yet: look again in half a millisecond.
WaitOn ==
    /\ reader = "waiting" /\ ~Ready /\ ~Over /\ ~Late
    /\ Drain
    /\ pending' = [i \in Tuners |-> Drained(i)]
    /\ UNCHANGED <<gone, padded, reader, waited, answer>>

IsOver ==
    /\ reader = "waiting" /\ Over
    /\ Drain
    /\ pending' = [i \in Tuners |-> <<>>]
    /\ reader' = "idle" /\ answer' = "over" /\ waited' = 0
    /\ UNCHANGED <<gone, padded>>

\* How many units slice i loses from its front, and how many of those go into
\* the block, when s samples are skipped (1) or repeated (-1).
Least(a, b) == IF a < b THEN a ELSE b
Skipped(i, s) == Least(IF s = 1 THEN 1 ELSE 0, Len(Drained(i)))
Repeats(s) == IF s = -1 THEN 1 ELSE 0
Taken(i, s) == Least(Len(Drained(i)) - Skipped(i, s), Chunk - Repeats(s))
Leaves(i, s) == Skipped(i, s) + Taken(i, s)

\* The rest of its chunk is silence; with nothing to repeat, silence repeats.
Padding(i, s) == Chunk - Taken(i, s) - IF Taken(i, s) = 0 THEN 0 ELSE Repeats(s)

Corrections == {slip \in [Tuners -> -1 .. 1] : \A i \in Tuners : slip[i] \in Slips[i]}

\* The block goes out: a chunk of each slice, with silence for what is missing.
Stitch(slip) ==
    /\ reader = "waiting" /\ (Ready \/ Late) /\ ~Over
    /\ Drain
    /\ LET n(i) == Leaves(i, slip[i]) IN
       /\ pending' = [i \in Tuners |-> SubSeq(Drained(i), n(i) + 1, Len(Drained(i)))]
       /\ gone' = [i \in Tuners |-> gone[i] + n(i)]
       /\ padded' = [i \in Tuners |-> Padding(i, slip[i])]
    /\ reader' = "idle" /\ answer' = "block" /\ waited' = 0

\* One block of time: the tuners that do not stall deliver a chunk, and the
\* drivers that cannot keep up lose one.  A waiting read looks forty times in
\* that time, so it does not pass while there is something to answer.
Deliver(on, lossy) ==
    /\ world = "rx"
    /\ reader = "waiting" => ~Ready /\ ~Over /\ ~Late
    /\ \A i \in on : thread[i] # "none" /\ made[i] + air[i] + Chunk <= MaxUnits[i]
    /\ \A i \in lossy : thread[i] # "none" /\ own[i] + Chunk <= MaxOwn[i]
    /\ air' = [i \in Tuners |-> IF i \in on THEN air[i] + Chunk ELSE air[i]]
    /\ own' = [i \in Tuners |-> IF i \in lossy THEN own[i] + Chunk ELSE own[i]]
    /\ waited' = IF reader = "waiting" /\ waited < Grace THEN waited + 1 ELSE waited
    /\ UNCHANGED <<world, calls, dial, slice, stitch, rx, reader, answer>>

Look == WaitOn \/ IsOver \/ \E slip \in Corrections : Stitch(slip)
Read == ReadStopped \/ ReadBegins \/ Look

Thread(i) == Loop(i) \/ ReadBlock(i) \/ ReadFails(i)

Next ==
    \/ Dial
    \/ \E k \in 0 .. N : Start(k)
    \/ Stop \/ DropStream
    \/ \E i \in Tuners : Thread(i)
    \/ \E on, lossy \in SUBSET Tuners : Deliver(on, lossy)
    \/ Read

\* The clock goes on and the reader looks again; a tuner need not deliver.
Spec ==
    /\ Init /\ [][Next]_vars
    /\ WF_vars(\E on, lossy \in SUBSET Tuners : Deliver(on, lossy))
    /\ WF_vars(Look)

-----------------------------------------------------------------------------
\* Every slice's samples reach the stitched block in the order its tuner
\* delivered them and none twice, and each that was read is given, skipped,
\* held or counted as refused.
InOrderAndCounted ==
    rx # "none" =>
        \A i \in Tuners :
            LET held == Drained(i) IN
            /\ \A j \in DOMAIN held, k \in DOMAIN held : j < k => held[j] < held[k]
            /\ made[i] = gone[i] + refused[i] + Len(held)

\* What the stream says it lost takes in all its queue refused and never
\* exceeds that and its driver's own losses together, though the two are kept
\* in one counter, one added and the other as a maximum.
LossNeverOverstated ==
    rx # "none" => \A i \in Tuners : refused[i] <= lost[i] /\ lost[i] <= refused[i] + own[i]

\* A read silences a slice, but for the one sample a skip may cost, only after
\* the others waited three blocks for it; and it says the stream is over, unless
\* it was stopped, only when every tuner has ended and all it delivered was
\* given.  CombinedRx::read.
AnswersAreHonest ==
    [][reader = "waiting" /\ reader' = "idle" =>
         /\ answer' = "block" => \A i \in Tuners : padded'[i] > 1 => Late
         /\ answer' = "over" => \A i \in Tuners :
                thread[i] = "none" /\ made[i] = gone[i] + refused[i]]_vars

\* A read returns, however many tuners stall or end, and with an honest answer.
ReadsAreHonest == (reader = "waiting" ~> reader = "idle") /\ AnswersAreHonest

\* After a control call that succeeded the slices lie side by side around the
\* dial, spaced by the rate the receiver says, whatever was refused before it;
\* they are as wide as it says unless a rate was refused since (a retune does
\* not put the rates right).
SlicesTile ==
    \A i \in Tuners :
        /\ settled => at[i] = SliceCenter(i, center, childRate)
        /\ rated => rateOf[i] = childRate

\* "Four blocks of slack. A queue deeper than that is a slice further behind
\* than the combiner will ever wait for" (combine.rs): what one slice has
\* waiting for the others stays within that slack between two reads.
BacklogWithinSlack ==
    reader = "idle" => \A i \in Tuners : Len(pending[i]) <= Slack * BlockLen[i]
=============================================================================
