----------------------------- MODULE UsbWriter -----------------------------
(***************************************************************************)
(* The HackRF transmit stream: the producer holding an AsyncWriteHandle,   *)
(* the sample channel, TxFiller cutting chunks into transfers, Flights     *)
(* counting the ones that carry samples, and the transmitting thread.      *)
(*                                                                         *)
(* A sample is its number in the order the producer wrote it, a chunk and  *)
(* a transfer are sequences of samples; the zeros a short transfer is      *)
(* padded with are left out, so a transfer of nothing but padding is <<>>. *)
(***************************************************************************)
EXTENDS Integers, Sequences, FiniteSets

CONSTANTS NumTransfers,  \* bulk transfers kept queued
          Size,          \* samples in a transfer
          Cap,           \* sync_channel bound
          Lens,          \* lengths of the chunks a producer writes
          MaxErrors,     \* MAX_CONSECUTIVE_ERRORS
          MaxSamples     \* bound: samples the producer writes

ASSUME WriterAssumption ==
  /\ NumTransfers \in Nat \ {0} /\ Size \in Nat \ {0} /\ Cap \in Nat \ {0}
  /\ MaxErrors \in Nat \ {0} /\ MaxSamples \in Nat
  /\ Lens \subseteq Nat \ {0}

VARIABLES
  pc,        \* where the transmitting thread is
  mode,      \* transceiver mode of the board
  pend,      \* TxFiller::pend
  hand,      \* a chunk received and not yet counted off queued
  usb,       \* samples of each transfer at the endpoint, oldest first
  real,      \* Flights::real
  errors,    \* consecutive_errors
  prod,      \* what the producer is doing
  chunk,     \* the chunk it is sending
  chan,      \* the sample channel
  queued, airborne,  \* the two counters drain reads
  stop,      \* the stop flag
  written,   \* samples the channel has accepted
  reaped     \* samples of completed transfers, sent or failed

thread == <<pc, mode, pend, hand, usb, real, errors, reaped>>
caller == <<prod, chunk, written>>
vars == <<pc, mode, pend, hand, usb, real, errors, prod, chunk, chan,
          queued, airborne, stop, written, reaped>>

Samples == 1..MaxSamples

TypeOK ==
  /\ pc \in {"open", "prefill", "mode", "top", "wait", "fill", "off", "cancel", "exited"}
  /\ mode \in {"off", "tx"}
  /\ pend \in Seq(Samples) /\ hand \in Seq(Samples)
  /\ usb \in Seq(Seq(Samples)) /\ Len(usb) <= NumTransfers
  /\ real \in Seq(BOOLEAN)
  /\ errors \in 0..MaxErrors
  /\ prod \in {"idle", "counted", "drain", "sawQueue", "drained", "undrained",
               "refused", "joining", "gone"}
  /\ chunk \in Seq(Samples)
  /\ chan \in Seq(Seq(Samples)) /\ Len(chan) <= Cap
  /\ queued \in Nat /\ airborne \in Nat
  /\ stop \in BOOLEAN
  /\ written \in 0..MaxSamples /\ reaped \in 0..MaxSamples

Init ==
  /\ pc = "open" /\ mode = "off" /\ pend = <<>> /\ hand = <<>> /\ usb = <<>>
  /\ real = <<>> /\ errors = 0 /\ prod = "idle" /\ chunk = <<>> /\ chan = <<>>
  /\ queued = 0 /\ airborne = 0 /\ stop = FALSE /\ written = 0 /\ reaped = 0

-----------------------------------------------------------------------------
(* The producer.                                                           *)

(* send and send_timeout count the chunk before the channel takes it. *)
CountChunk(n) ==
  /\ prod = "idle"
  /\ written + n <= MaxSamples
  /\ chunk' = [i \in 1..n |-> written + i]
  /\ queued' = queued + 1
  /\ prod' = "counted"
  /\ UNCHANGED <<thread, chan, airborne, stop, written>>

PutChunk ==
  /\ prod = "counted"
  /\ pc # "exited" /\ Len(chan) < Cap
  /\ chan' = Append(chan, chunk)
  /\ written' = written + Len(chunk)
  /\ chunk' = <<>>
  /\ prod' = "idle"
  /\ UNCHANGED <<thread, queued, airborne, stop>>

RefuseOnlyExited ==      \* mutant: the blocking send, with no deadline
  /\ prod = "counted"
  /\ pc = "exited"
  /\ queued' = queued - 1
  /\ chunk' = <<>>
  /\ prod' = "refused"
  /\ UNCHANGED <<thread, chan, airborne, stop, written>>

(* The deadline passes on a full channel, or the thread has exited: the    *)
(* count is taken back, and HackRfTxStream offers the writer nothing more. *)
RefuseChunk ==
  /\ prod = "counted"
  /\ pc = "exited" \/ Len(chan) = Cap
  /\ queued' = queued - 1
  /\ chunk' = <<>>
  /\ prod' = "refused"
  /\ UNCHANGED <<thread, chan, airborne, stop, written>>

BeginDrain ==
  /\ prod = "idle"
  /\ prod' = "drain"
  /\ UNCHANGED <<thread, chunk, chan, queued, airborne, stop, written>>

(* drain loads queued, then airborne; a non-zero one looks at the stop     *)
(* flag and sleeps.                                                        *)
LoadQueued ==
  /\ prod = "drain"
  /\ prod' = IF queued = 0 THEN "sawQueue" ELSE IF stop THEN "undrained" ELSE "drain"
  /\ UNCHANGED <<thread, chunk, chan, queued, airborne, stop, written>>

LoadAirborne ==
  /\ prod = "sawQueue"
  /\ prod' = IF airborne = 0 THEN "drained" ELSE IF stop THEN "undrained" ELSE "drain"
  /\ UNCHANGED <<thread, chunk, chan, queued, airborne, stop, written>>

DrainTimeout ==
  /\ prod = "drain"
  /\ prod' = "undrained"
  /\ UNCHANGED <<thread, chunk, chan, queued, airborne, stop, written>>

(* A drained writer may be written to again. *)
Resume ==
  /\ prod \in {"drained", "undrained"}
  /\ prod' = "idle"
  /\ UNCHANGED <<thread, chunk, chan, queued, airborne, stop, written>>

(* stop, then AsyncWriteHandle::drop joins the thread. *)
Release ==
  /\ prod \in {"idle", "drained", "undrained", "refused"}
  /\ stop' = TRUE
  /\ prod' = "joining"
  /\ UNCHANGED <<thread, chunk, chan, queued, airborne, written>>

Join ==
  /\ prod = "joining"
  /\ pc = "exited"
  /\ prod' = "gone"
  /\ UNCHANGED <<thread, chunk, chan, queued, airborne, stop, written>>

Producer == \/ PutChunk \/ RefuseChunk \/ BeginDrain \/ LoadQueued \/ LoadAirborne
            \/ DrainTimeout \/ Resume \/ Release \/ Join

-----------------------------------------------------------------------------
(* The transmitting thread.                                                *)

OpenEndpoint ==
  /\ pc = "open"
  /\ pc' \in {"prefill", "exited"}
  /\ UNCHANGED <<caller, mode, pend, hand, usb, real, errors, chan, queued, airborne, stop, reaped>>

Filling == pc \in {"prefill", "fill"}

(* TxFiller::next takes one chunk off the channel, and counts it off. *)
TakeChunk ==
  /\ Filling /\ hand = <<>>
  /\ Len(pend) < Size
  /\ chan # <<>>
  /\ hand' = Head(chan)
  /\ chan' = Tail(chan)
  /\ UNCHANGED <<caller, pc, mode, pend, usb, real, errors, queued, airborne, stop, reaped>>

CountOff ==
  /\ Filling /\ hand # <<>>
  /\ queued' = queued - 1
  /\ pend' = pend \o hand
  /\ hand' = <<>>
  /\ UNCHANGED <<caller, pc, mode, usb, real, errors, chan, airborne, stop, reaped>>

(* After a transfer is submitted: the next of the initial ones, or the     *)
(* head of the loop.                                                       *)
AfterSubmit == IF pc = "fill" THEN "top"
               ELSE IF Len(usb') < NumTransfers THEN "prefill" ELSE "mode"

(* Flights::submitted and the submission itself. *)
Submit(samples, isReal) ==
  /\ usb' = Append(usb, samples)
  /\ real' = Append(real, isReal)
  /\ airborne' = IF isReal THEN airborne + 1 ELSE airborne
  /\ pc' = AfterSubmit

SubmitFull ==
  /\ Filling /\ hand = <<>>
  /\ Len(pend) >= Size
  /\ Submit(SubSeq(pend, 1, Size), TRUE)
  /\ pend' = SubSeq(pend, Size + 1, Len(pend))
  /\ UNCHANGED <<caller, mode, hand, errors, chan, queued, stop, reaped>>

SubmitPaddedKeeps ==     \* mutant: the leftover is copied out and not taken
  /\ Filling /\ hand = <<>>
  /\ Len(pend) < Size
  /\ Submit(pend, pend # <<>>)
  /\ UNCHANGED <<caller, mode, pend, hand, errors, chan, queued, stop, reaped>>

SubmitPaddedUnreal ==    \* mutant: a padded transfer never counts as real
  /\ Filling /\ hand = <<>>
  /\ Len(pend) < Size
  /\ Submit(pend, FALSE)
  /\ pend' = <<>>
  /\ UNCHANGED <<caller, mode, hand, errors, chan, queued, stop, reaped>>

(* TX_FILL_WAIT is over and the transfer is not full: the rest is zeros.   *)
SubmitPadded ==
  /\ Filling /\ hand = <<>>
  /\ Len(pend) < Size
  /\ Submit(pend, pend # <<>>)
  /\ pend' = <<>>
  /\ UNCHANGED <<caller, mode, hand, errors, chan, queued, stop, reaped>>

(* Transmit mode only now.  On refusal the transfers are cancelled and the *)
(* thread returns, leaving the counter as it was.                          *)
EnterTransmit ==
  /\ pc = "mode"
  /\ \/ mode' = "tx" /\ pc' = "top" /\ UNCHANGED <<usb, real>>
     \/ mode' = mode /\ pc' = "exited" /\ usb' = <<>> /\ real' = <<>>
  /\ UNCHANGED <<caller, pend, hand, errors, chan, queued, airborne, stop, reaped>>

(* Both looks at the stop flag.  The commands on the control channel, read *)
(* here too, set the board's tuning and gain, which nothing below tells    *)
(* apart.                                                                  *)
TopOfLoop ==
  /\ pc \in {"top", "wait"}
  /\ pc' = IF stop THEN "off" ELSE "wait"
  /\ pc' # pc
  /\ UNCHANGED <<caller, mode, pend, hand, usb, real, errors, chan, queued, airborne, stop, reaped>>

WaitTimeout ==
  /\ pc = "wait"
  /\ pc' = "top"
  /\ UNCHANGED <<caller, mode, pend, hand, usb, real, errors, chan, queued, airborne, stop, reaped>>

(* Flights::completed: the oldest flight has landed, well or badly. *)
Completed ==
  /\ real' = Tail(real)
  /\ airborne' = IF Head(real) THEN airborne - 1 ELSE airborne

TransferSent ==
  /\ pc = "wait"
  /\ errors' = 0
  /\ Completed
  /\ usb' = Tail(usb)
  /\ reaped' = reaped + Len(Head(usb))
  /\ pc' = "fill"
  /\ UNCHANGED <<caller, mode, pend, hand, chan, queued, stop>>

TransferFailed ==
  /\ pc = "wait"
  /\ errors' = errors + 1
  /\ usb' = Tail(usb)
  /\ reaped' = reaped + Len(Head(usb))
  /\ IF errors' >= MaxErrors
     THEN stop' = TRUE /\ pc' = "off" /\ UNCHANGED <<real, airborne>>
     ELSE Completed /\ pc' = "fill" /\ stop' = stop
  /\ UNCHANGED <<caller, mode, pend, hand, chan, queued>>

CancelBeforeOff ==       \* mutant: cancelled while still in transmit mode
  /\ pc = "off"
  /\ real' = <<>> /\ airborne' = 0
  /\ usb' = <<>>
  /\ pc' = "cancel"
  /\ UNCHANGED <<caller, mode, pend, hand, errors, chan, queued, stop, reaped>>

(* Flights::abandoned, then transmit mode off before anything is cancelled *)
ModeOff ==
  /\ pc = "off"
  /\ real' = <<>> /\ airborne' = 0
  /\ mode' = "off"
  /\ pc' = "cancel"
  /\ UNCHANGED <<caller, pend, hand, usb, errors, chan, queued, stop, reaped>>

CancelAll ==
  /\ pc = "cancel"
  /\ usb' = <<>>
  /\ pc' = "exited"
  /\ UNCHANGED <<caller, mode, pend, hand, real, errors, chan, queued, airborne, stop, reaped>>

Thread == \/ OpenEndpoint \/ TakeChunk \/ CountOff \/ SubmitFull \/ SubmitPadded
          \/ EnterTransmit \/ TopOfLoop \/ WaitTimeout \/ TransferSent \/ TransferFailed
          \/ ModeOff \/ CancelAll

Next == Thread \/ Producer \/ \E n \in Lens : CountChunk(n)

(* The thread is scheduled, and no wait of the producer's is without end:  *)
(* a send gives up on a full channel, a drain at its deadline.             *)
Fairness == /\ WF_vars(Thread)
            /\ WF_vars(PutChunk \/ RefuseChunk)
            /\ WF_vars(LoadQueued \/ LoadAirborne) /\ SF_vars(DrainTimeout)
            /\ WF_vars(Join)

Spec == Init /\ [][Next]_vars /\ Fairness

-----------------------------------------------------------------------------
(* The samples after m up to n; and a queue of such runs end to end. *)
Run(m, n) == [i \in 1..(n - m) |-> m + i]
Runs(q, from, to) ==
  \E at \in [0..Len(q) -> from..to] :
    /\ at[0] = from /\ at[Len(q)] = to
    /\ \A i, j \in 0..Len(q) : i <= j => at[i] <= at[j]
    /\ \A j \in 1..Len(q) : q[j] = Run(at[j - 1], at[j])

(* Samples reach the radio in the order they were written, none twice and  *)
(* none skipped, however the chunks and the transfers divide: what is at   *)
(* the endpoint, what is left over in pend, what was just received and     *)
(* what waits in the channel are, end to end, everything the channel       *)
(* accepted after what was reaped.  TxFiller::next and the loop around it. *)
SamplesInOrder ==
  pc \notin {"off", "cancel", "exited"} =>
    \E a, b, c \in reaped..written :
      /\ a <= b /\ b <= c
      /\ Runs(usb, reaped, a)
      /\ pend = Run(a, b) /\ hand = Run(b, c)
      /\ Runs(chan, c, written)

(* The counters drain reads are what they stand for, and never wrap below  *)
(* zero: chunks counted and not counted off, and real flights.             *)
Flying(r) == {i \in DOMAIN r : r[i]}
CountersExact ==
  /\ queued = Len(chan) + (IF hand # <<>> THEN 1 ELSE 0) + (IF prod = "counted" THEN 1 ELSE 0)
  /\ pc # "exited" => airborne = Cardinality(Flying(real))

(* The board is never left transmitting with an empty queue, which puts    *)
(* whatever its FIFO held on the air: transfers go in before transmit mode *)
(* goes on, and it goes off before they are cancelled.                     *)
KeyedWithTransfers ==
  mode = "tx" => Len(usb) >= NumTransfers - 1

(* When drain says the queue emptied, the channel and the endpoint hold no *)
(* sample of the over, unless the thread has given the over up.  A chunk   *)
(* in TxFiller's hands may still be there, which is less than drain's doc  *)
(* says ("every queued chunk has been handed to the device").              *)
DrainSeesQueue ==
  [][prod' = "drained" /\ prod # "drained" =>
       chan = <<>> /\ (pc # "cancel" => \A i \in 1..Len(usb) : usb[i] = <<>>)]_vars

(* Every call on the writer comes back: a send, a drain, and the end of an *)
(* over, which joins the thread.  No wait on the way is without end.       *)
CallsReturn ==
  /\ (prod \in {"counted", "drain", "sawQueue"})
       ~> (prod \in {"idle", "refused", "drained", "undrained", "joining"})
  /\ (prod = "joining") ~> (prod = "gone")
=============================================================================
