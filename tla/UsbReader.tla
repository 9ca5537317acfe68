----------------------------- MODULE UsbReader -----------------------------
(***************************************************************************)
(* The HackRF receive stream: the USB streaming thread of hackrf-usb, the  *)
(* device behind it, and the consumer holding an AsyncReadHandle.          *)
(*                                                                         *)
(* A chunk is its number in the order the radio delivered it.  The stop    *)
(* flag is one relaxed atomic, the sample channel a bounded sync_channel   *)
(* whose send blocks, the control channel an unbounded mpsc.               *)
(***************************************************************************)
EXTENDS Naturals, Sequences

CONSTANTS NumTransfers,  \* bulk transfers kept queued
          Cap,           \* sync_channel bound (4 * NumTransfers in the code)
          MaxErrors,     \* MAX_CONSECUTIVE_ERRORS
          Freqs,         \* frequencies a consumer may tune to
          MaxMade,       \* bound: chunks of data the radio makes
          MaxTunes       \* bound: control commands in the queue

ASSUME ReaderAssumption ==
  /\ NumTransfers \in Nat \ {0}
  /\ Cap \in Nat \ {0}
  /\ MaxErrors \in Nat \ {0}
  /\ MaxMade \in Nat
  /\ MaxTunes \in Nat
  /\ Freqs # {}

VARIABLES
  pc,      \* where the streaming thread is
  mode,    \* transceiver mode of the board
  asked,   \* transfers submitted and still empty
  done,    \* completed transfers not yet waited for, oldest first
  made,    \* chunks of data the radio has put in transfers
  errors,  \* consecutive_errors
  taken,   \* chunks of data the thread has taken off transfers
  chan,    \* the sample channel
  ctrl,    \* the control channel
  tuned,   \* the last frequency the board was set to
  stop,    \* the stop flag
  cons,    \* what the consumer is doing with its handle
  got      \* chunks the consumer has received

dev    == <<mode, asked, done, made>>
handle == <<cons, got>>
vars   == <<pc, mode, asked, done, made, errors, taken, chan, ctrl, tuned, stop, cons, got>>

Kinds == {"data", "empty", "error"}

TypeOK ==
  /\ pc \in {"open", "fill", "top", "wait", "send", "finish", "exited"}
  /\ mode \in {"off", "rx"}
  /\ asked \in 0..NumTransfers
  /\ done \in Seq(Kinds)
  /\ made \in 0..MaxMade
  /\ errors \in 0..MaxErrors
  /\ taken \in Nat
  /\ chan \in Seq(Nat \ {0})
  /\ ctrl \in Seq(Freqs)
  /\ tuned \in Freqs
  /\ stop \in BOOLEAN
  /\ cons \in {"own", "draining", "joining", "gone"}
  /\ got \in Nat

Init ==
  /\ pc = "open" /\ mode = "off" /\ asked = 0 /\ done = <<>> /\ made = 0
  /\ errors = 0 /\ taken = 0 /\ chan = <<>> /\ ctrl = <<>> /\ tuned \in Freqs
  /\ stop = FALSE /\ cons = "own" /\ got = 0

-----------------------------------------------------------------------------
(* The streaming thread.                                                   *)

(* The bulk endpoint opens, or the thread returns at once. *)
OpenEndpoint ==
  /\ pc = "open"
  /\ pc' \in {"fill", "exited"}
  /\ UNCHANGED <<dev, errors, taken, chan, ctrl, tuned, stop, handle>>

(* Every transfer is submitted before receive mode is entered.  A board    *)
(* that refuses the mode has them all cancelled and the thread returns.    *)
FillAndReceive ==
  /\ pc = "fill"
  /\ \/ pc' = "top" /\ mode' = "rx" /\ asked' = NumTransfers
     \/ pc' = "exited" /\ UNCHANGED <<mode, asked>>
  /\ UNCHANGED <<done, made, errors, taken, chan, ctrl, tuned, stop, handle>>

(* The head of the loop: leave when stopped, else carry out every command  *)
(* waiting on the control channel.                                         *)
TopOfLoop ==
  /\ pc = "top"
  /\ IF stop
     THEN pc' = "finish" /\ UNCHANGED <<ctrl, tuned>>
     ELSE /\ pc' = "wait"
          /\ ctrl' = <<>>
          /\ tuned' = IF ctrl = <<>> THEN tuned ELSE ctrl[Len(ctrl)]
  /\ UNCHANGED <<dev, errors, taken, chan, stop, handle>>

(* The second look at the stop flag. *)
StopSeen ==
  /\ pc = "wait"
  /\ stop
  /\ pc' = "finish"
  /\ UNCHANGED <<dev, errors, taken, chan, ctrl, tuned, stop, handle>>

(* wait_next_complete gives up after 500 ms and the loop goes round. *)
WaitTimeout ==
  /\ pc = "wait"
  /\ done = <<>>
  /\ pc' = "top"
  /\ UNCHANGED <<dev, errors, taken, chan, ctrl, tuned, stop, handle>>

(* A completed transfer leaves the queue and another takes its place. *)
Resubmit == done' = Tail(done) /\ asked' = asked + 1

TransferFailed ==
  /\ pc = "wait"
  /\ done # <<>> /\ Head(done) = "error"
  /\ errors' = errors + 1
  /\ IF errors' >= MaxErrors
     THEN /\ stop' = TRUE /\ pc' = "finish"
          /\ done' = Tail(done) /\ asked' = asked
     ELSE Resubmit /\ pc' = "top" /\ stop' = stop
  /\ UNCHANGED <<mode, made, taken, chan, ctrl, tuned, handle>>

TransferEmptyForgets ==    \* mutant: the empty path does not resubmit
  /\ pc = "wait"
  /\ done # <<>> /\ Head(done) = "empty"
  /\ errors' = 0
  /\ done' = Tail(done)
  /\ pc' = "top"
  /\ UNCHANGED <<mode, asked, made, taken, chan, ctrl, tuned, stop, handle>>

TransferEmpty ==
  /\ pc = "wait"
  /\ done # <<>> /\ Head(done) = "empty"
  /\ errors' = 0
  /\ Resubmit
  /\ pc' = "top"
  /\ UNCHANGED <<mode, made, taken, chan, ctrl, tuned, stop, handle>>

TransferData ==
  /\ pc = "wait"
  /\ done # <<>> /\ Head(done) = "data"
  /\ errors' = 0
  /\ Resubmit
  /\ taken' = taken + 1
  /\ pc' = "send"
  /\ UNCHANGED <<mode, made, chan, ctrl, tuned, stop, handle>>

SendUnbounded ==           \* mutant: an unbounded channel
  /\ pc = "send"
  /\ chan' = Append(chan, taken)
  /\ pc' = "top"
  /\ UNCHANGED <<dev, errors, taken, ctrl, tuned, stop, handle>>

(* The blocking send.  Its Err arm needs the receiver gone, and the        *)
(* receiver is a field of the handle, whose Drop joins this thread first:  *)
(* GoneAfterExit below is the reason no action stands for it.              *)
SendChunk ==
  /\ pc = "send"
  /\ Len(chan) < Cap
  /\ chan' = Append(chan, taken)
  /\ pc' = "top"
  /\ UNCHANGED <<dev, errors, taken, ctrl, tuned, stop, handle>>

(* stop_rx, cancel_all, drain what completes, and drop the channel ends. *)
Finish ==
  /\ pc = "finish"
  /\ mode' = "off" /\ asked' = 0 /\ done' = <<>>
  /\ pc' = "exited"
  /\ UNCHANGED <<made, errors, taken, chan, ctrl, tuned, stop, handle>>

Thread == \/ OpenEndpoint \/ FillAndReceive \/ TopOfLoop \/ StopSeen \/ WaitTimeout
          \/ TransferFailed \/ TransferEmpty \/ TransferData \/ SendChunk \/ Finish

-----------------------------------------------------------------------------
(* The board fills the oldest transfer, with samples, with nothing, or     *)
(* with an error when it has been unplugged or the bus hiccups.            *)
Complete(k) ==
  /\ mode = "rx"
  /\ asked > 0
  /\ k = "data" => made < MaxMade
  /\ asked' = asked - 1
  /\ done' = Append(done, k)
  /\ made' = IF k = "data" THEN made + 1 ELSE made
  /\ UNCHANGED <<pc, mode, errors, taken, chan, ctrl, tuned, stop, handle>>

-----------------------------------------------------------------------------
(* The consumer.                                                           *)

(* recv, try_recv and recv_state: the oldest chunk, when there is one. *)
Recv ==
  /\ cons = "own"
  /\ chan # <<>>
  /\ got' = Head(chan)
  /\ chan' = Tail(chan)
  /\ UNCHANGED <<pc, dev, errors, taken, ctrl, tuned, stop, cons>>

(* AsyncReadControlHandle::tune, from a clone the consumer may still hold  *)
(* while the thread lives; on a dead channel the call is refused.          *)
Tune(f) ==
  /\ pc # "exited"
  /\ Len(ctrl) < MaxTunes
  /\ ctrl' = Append(ctrl, f)
  /\ UNCHANGED <<pc, dev, errors, taken, chan, tuned, stop, handle>>

(* RxStream::stop: only the flag. *)
Stop ==
  /\ cons = "own"
  /\ ~stop
  /\ stop' = TRUE
  /\ UNCHANGED <<pc, dev, errors, taken, chan, ctrl, tuned, handle>>

ReleaseUndrained ==        \* mutant: the handle is dropped without being read dry
  /\ cons = "own"
  /\ stop' = TRUE
  /\ cons' = "joining"
  /\ UNCHANGED <<pc, dev, errors, taken, chan, ctrl, tuned, got>>

(* How the driver lets go of a reader: stop, then read it dry, then drop.  *)
BeginRelease ==
  /\ cons = "own"
  /\ stop' = TRUE
  /\ cons' = "draining"
  /\ UNCHANGED <<pc, dev, errors, taken, chan, ctrl, tuned, got>>

DrainOne ==
  /\ cons = "draining"
  /\ chan # <<>>
  /\ got' = Head(chan)
  /\ chan' = Tail(chan)
  /\ UNCHANGED <<pc, dev, errors, taken, ctrl, tuned, stop, cons>>

(* recv returned None: the thread has dropped its end. *)
DrainedDry ==
  /\ cons = "draining"
  /\ chan = <<>> /\ pc = "exited"
  /\ cons' = "joining"
  /\ UNCHANGED <<pc, dev, errors, taken, chan, ctrl, tuned, stop, got>>

(* The error returns of reopen_rx drop a handle without draining it, but   *)
(* only after a control command was refused, so after the thread is gone.  *)
DropRefused ==
  /\ cons = "own"
  /\ pc = "exited"
  /\ stop' = TRUE
  /\ cons' = "joining"
  /\ UNCHANGED <<pc, dev, errors, taken, chan, ctrl, tuned, got>>

(* AsyncReadHandle::drop: the join, and then the receiver itself. *)
Join ==
  /\ cons = "joining"
  /\ pc = "exited"
  /\ cons' = "gone"
  /\ UNCHANGED <<pc, dev, errors, taken, chan, ctrl, tuned, stop, got>>

Consumer == Recv \/ Stop \/ BeginRelease \/ DrainOne \/ DrainedDry \/ DropRefused \/ Join

Next == \/ Thread
        \/ Consumer
        \/ \E k \in Kinds : Complete(k)
        \/ \E f \in Freqs : Tune(f)

(* The thread is scheduled; the radio loop keeps reading while it owns the *)
(* stream, and a release once begun runs to its end.  Nothing obliges the  *)
(* board to fill a transfer, or anybody to tune or to let go.              *)
Fairness == /\ WF_vars(Thread)
            /\ WF_vars(Recv)
            /\ WF_vars(DrainOne) /\ WF_vars(DrainedDry) /\ WF_vars(Join)

Spec == Init /\ [][Next]_vars /\ Fairness

-----------------------------------------------------------------------------
(* Chunks the thread holds between taking a transfer and sending it. *)
InHand == IF pc = "send" THEN 1 ELSE 0

(* Nothing is lost, doubled or swapped between the USB queue and the       *)
(* reader: what waits in the channel continues exactly where the reader    *)
(* is, up to the chunk the thread is about to send.  This is what the      *)
(* blocking send in streaming_thread is for.                               *)
NothingDropped ==
  /\ taken = got + Len(chan) + InHand
  /\ \A i \in 1..Len(chan) : chan[i] = got + i

(* While the board is receiving, every transfer the code submitted is      *)
(* somewhere: waiting to be filled or waiting to be taken.  A path that    *)
(* forgot to resubmit would shrink the queue by one per hiccup, until the  *)
(* board had nowhere to put samples and the stream went quiet.             *)
QueueKeptFull ==
  pc \in {"top", "wait", "send"} => asked + Len(done) = NumTransfers

(* The reader's end of the channel outlives the thread. *)
GoneAfterExit == cons \in {"joining", "gone"} => pc = "exited"

(* Every call on the reader ends.  Letting go of it finishes even with the *)
(* thread stuck in a send on a full channel when the release began: the    *)
(* drain in start_tx, revive and HackRfStream::drop.  A retune asked for   *)
(* through the control handle reaches the board unless the thread is on    *)
(* its way out.                                                            *)
CallsEnd ==
  /\ (cons \in {"draining", "joining"}) ~> (cons = "gone")
  /\ (ctrl # <<>>) ~> (ctrl = <<>> \/ pc \in {"finish", "exited"})

Pipe == INSTANCE ChunkPipe
          WITH Slack <- Cap + 1, produced <- taken, consumed <- got, open <- (pc # "exited")

(* The reader sees an orderly bounded pipe: see ChunkPipe. *)
ImplementsPipe == Pipe!Spec
=============================================================================
