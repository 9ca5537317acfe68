------------------------------- MODULE IqPump -------------------------------
(***************************************************************************)
(* The samples of one subscription, from the radio to the reader:          *)
(*   Stream::push        crates/iqstream/src/server.rs                     *)
(*   pump, send_block    crates/iqstream/src/server.rs                     *)
(*   Assembler::push,                                                      *)
(*   take_datagram       crates/iqstream/src/subscribe.rs                  *)
(*                                                                         *)
(* The fan-out is tokio's broadcast ring as this one pump sees it: what it *)
(* has not read, and how much of that was overwritten.  A block is a run   *)
(* of samples; where it stands in the radio's own time ("at") travels with *)
(* it in the model, never on the wire, so that what the reader believes    *)
(* can be compared with what was true.                                     *)
(***************************************************************************)
EXTENDS Integers, Sequences, FiniteSets

CONSTANTS
    FanoutDepth,   \* FANOUT_DEPTH, blocks the broadcast ring holds
    InlineDepth,   \* INLINE_DEPTH, blocks queued on the control connection
    Lens,          \* lengths a block may have, in samples
    MaxBlocks,     \* bound: blocks pushed
    MaxCopies,     \* bound: datagrams the network delivers twice
    Mixtures         \* what may happen: sets of the words in Troubles

None == -1

Troubles == {"inline", "slow", "lossy", "shuffled"}

ASSUME PumpConstants ==
    /\ FanoutDepth \in Nat \ {0} /\ InlineDepth \in Nat \ {0}
    /\ MaxBlocks \in Nat /\ MaxCopies \in Nat
    /\ Lens \subseteq Nat \ {0}
    /\ Mixtures \subseteq SUBSET Troubles

VARIABLES
    trouble,      \* frozen: which troubles this behaviour may meet
    taken,      \* samples the radio has taken since the pump subscribed
    pushed,     \* blocks they came in
    fan,        \* blocks in the fan-out this pump has not read
    lag,        \* blocks overwritten before this pump read them
    seq,        \* pump's block_seq
    index,      \* pump's sample_index
    sent,       \* Stream::blocks_sent
    dropped,    \* Stream::blocks_dropped
    path,       \* datagrams, or inline records, on their way
    copies,     \* datagrams duplicated so far
    parts,      \* Assembler::blocks, the fragments in of each sequence number
    next,       \* Assembler::next_sample
    clock,      \* radio time the reader gives the sample it reads next
    drift       \* how far that was out for the last block it was handed

radio == <<taken, pushed>>
ring == <<fan, lag>>
counters == <<seq, index, sent, dropped>>
network == <<path, copies>>
reader == <<parts, next, clock, drift>>
pumpVars == <<trouble, radio, ring, counters, network, reader>>

Blocks == [at : Nat, len : Lens]
Datagrams == [seq : Nat, index : Nat, at : Nat, len : Lens,
              frag : Nat, count : Nat \ {0}]

PumpTypeOK ==
    /\ trouble \in Mixtures
    /\ taken \in Nat /\ pushed \in 0..MaxBlocks
    /\ fan \in Seq(Blocks) /\ Len(fan) <= FanoutDepth /\ lag \in Nat
    /\ seq \in Nat /\ index \in Nat /\ sent \in Nat /\ dropped \in Nat
    /\ path \in Seq(Datagrams) /\ copies \in 0..MaxCopies
    /\ "inline" \in trouble => Len(path) <= InlineDepth
    /\ \A s \in DOMAIN parts : parts[s] \subseteq Nat
    /\ next \in Nat \cup {None} /\ clock \in Nat \cup {None}
    /\ drift \in Int

PumpInit ==
    /\ trouble \in Mixtures
    /\ taken = 0 /\ pushed = 0
    /\ fan = <<>> /\ lag = 0
    /\ seq = 0 /\ index = 0 /\ sent = 0 /\ dropped = 0
    /\ path = <<>> /\ copies = 0
    /\ parts = <<>> /\ next = None /\ clock = None /\ drift = 0

-----------------------------------------------------------------------------
(* The radio's side.                                                       *)

\* Unless the trouble is "slow" the pump and its queue are never behind.
KeepsUp == "slow" \in trouble \/ (fan = <<>> /\ Len(path) < InlineDepth)

Push(n) ==
    /\ pushed < MaxBlocks /\ KeepsUp
    /\ taken' = taken + n
    /\ pushed' = pushed + 1
    /\ LET b == [at |-> taken, len |-> n] IN
       \/ /\ Len(fan) < FanoutDepth
          /\ fan' = Append(fan, b)
          /\ lag' = lag
       \/ /\ Len(fan) = FanoutDepth
          /\ fan' = Append(Tail(fan), b)
          /\ lag' = lag + 1
    /\ UNCHANGED <<trouble, counters, network, reader>>

-----------------------------------------------------------------------------
(* The pump.                                                               *)

\* One block as the datagrams that carry it, one sample in each, or as the
\* one record that carries it on the control connection.
Cut(b) ==
    LET n == IF "inline" \in trouble THEN 1 ELSE b.len IN
    [i \in 1..n |-> [seq |-> seq, index |-> index, at |-> b.at, len |-> b.len,
                     frag |-> i - 1, count |-> n]]

LaggedOnce ==                \* mutant: a lag is counted as one block
    /\ lag > 0
    /\ dropped' = dropped + 1
    /\ lag' = 0
    /\ UNCHANGED <<trouble, radio, fan, seq, index, sent, network, reader>>

Lagged ==
    /\ lag > 0
    /\ dropped' = dropped + lag
    /\ lag' = 0
    /\ UNCHANGED <<trouble, radio, fan, seq, index, sent, network, reader>>

SendBlock ==
    /\ lag = 0 /\ fan # <<>>
    /\ "inline" \in trouble => Len(path) < InlineDepth
    /\ path' = path \o Cut(Head(fan))
    /\ seq' = seq + 1
    /\ index' = index + Head(fan).len
    /\ sent' = sent + 1
    /\ fan' = Tail(fan)
    /\ UNCHANGED <<trouble, radio, lag, dropped, copies, reader>>

\* inline.try_send failed
QueueFull ==
    /\ lag = 0 /\ fan # <<>>
    /\ "inline" \in trouble /\ Len(path) = InlineDepth
    /\ dropped' = dropped + 1
    /\ fan' = Tail(fan)
    /\ UNCHANGED <<trouble, radio, lag, seq, index, sent, network, reader>>

-----------------------------------------------------------------------------
(* The network and the reader.                                             *)

Without(s, i) == SubSeq(s, 1, i - 1) \o SubSeq(s, i + 1, Len(s))

\* What may come off the path next: the oldest, or anything.
Reach == IF "shuffled" \in trouble THEN DOMAIN path ELSE {1} \cap DOMAIN path

GapOfOne(d) == IF next # None /\ d.index > next THEN 1 ELSE 0   \* mutant: a block's worth

Gap(d) == IF next # None /\ d.index > next THEN d.index - next ELSE 0

Held(s, frags) == [q \in DOMAIN parts \cup {s} |-> IF q = s THEN frags ELSE parts[q]]

Abandon(s) == [q \in {q \in DOMAIN parts : q > s} |-> parts[q]]

Receive(d) ==
    LET held == IF d.seq \in DOMAIN parts THEN parts[d.seq] ELSE {}
        got == held \cup {d.frag} IN
    \/ /\ Cardinality(got) < d.count
       /\ parts' = Held(d.seq, got)
       /\ UNCHANGED <<next, clock, drift>>
    \/ /\ Cardinality(got) >= d.count
       /\ parts' = Abandon(d.seq)
       /\ next' = d.index + d.len
       /\ LET start == IF clock = None THEN d.at ELSE clock + Gap(d) IN
          /\ drift' = start - d.at
          /\ clock' = start + d.len

Deliver ==
    \E i \in Reach :
        /\ Receive(path[i])
        /\ path' = Without(path, i)
        /\ UNCHANGED <<trouble, radio, ring, counters, copies>>

DeliverCopy ==
    \E i \in Reach :
        /\ "shuffled" \in trouble /\ copies < MaxCopies
        /\ Receive(path[i])
        /\ copies' = copies + 1
        /\ UNCHANGED <<trouble, radio, ring, counters, path>>

Lose ==
    \E i \in Reach :
        /\ "lossy" \in trouble /\ "inline" \notin trouble
        /\ path' = Without(path, i)
        /\ UNCHANGED <<trouble, radio, ring, counters, copies, reader>>

-----------------------------------------------------------------------------
PumpNext ==
    \/ \E n \in Lens : Push(n)
    \/ Lagged \/ SendBlock \/ QueueFull
    \/ Deliver \/ DeliverCopy \/ Lose

PumpSpec == PumpInit /\ [][PumpNext]_pumpVars

-----------------------------------------------------------------------------
(* What the path promises.                                                 *)

InOrder == "shuffled" \notin trouble

\* Every sample stands, for the reader, where the radio took it: what was
\* lost on the way is padded by exactly as much as was lost (client.rs:8-11,
\* "so the timebase stays true").  This is the claim without a condition.
TimebaseTrue == drift = 0

\* It holds on a path that loses datagrams but keeps their order, as long as
\* the pump and its queue keep up with the radio.
ReaderOnTime == "slow" \notin trouble /\ InOrder => TimebaseTrue

\* However far behind the pump is and whatever the path loses, the samples and
\* padding the reader is handed advance exactly as the index on the wire does,
\* and never back: a lost fragment costs its block and nothing else.
IndexKept ==
    [][InOrder /\ next # None =>
          /\ clock' - next' = clock - next
          /\ next' >= next]_pumpVars

\* Every block the radio pushed is sent, counted as dropped, or still unread:
\* the two counters the node and the tests read account for all of them
\* (tests/fallback.rs:175).
BlocksAccounted == sent + dropped + lag + Len(fan) = pushed
=============================================================================
