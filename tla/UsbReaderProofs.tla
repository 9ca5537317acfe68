-------------------------- MODULE UsbReaderProofs --------------------------
(***************************************************************************)
(* Proofs about the HackRF receive stream, for every number of transfers,  *)
(* every channel bound and every number of tolerated errors.               *)
(***************************************************************************)
EXTENDS UsbReader, SequenceTheorems, TLAPS

(* The inductive invariant.  NothingDropped and QueueKeptFull are not      *)
(* inductive alone: a resubmission keeps within NumTransfers only because  *)
(* the queue was full, and the transfers are all accounted for only while  *)
(* the loop runs, which is what the board's mode says.                     *)
Looping == pc \in {"top", "wait", "send"}

IInv ==
  /\ TypeOK
  /\ NothingDropped
  /\ QueueKeptFull
  /\ GoneAfterExit
  /\ Len(chan) <= Cap
  /\ Looping => errors < MaxErrors
  /\ pc \in {"open", "fill"} => errors = 0
  /\ asked + Len(done) <= NumTransfers
  /\ pc \in {"open", "fill", "exited"} => mode = "off" /\ asked = 0 /\ done = <<>>

LEMMA InitIInv == Init => IInv
<1> SUFFICES ASSUME Init PROVE IInv
  OBVIOUS
<1> USE ReaderAssumption DEF Init
<1>1. /\ <<>> \in Seq(Kinds) /\ <<>> \in Seq(Nat \ {0}) /\ <<>> \in Seq(Freqs)
      /\ Len(<<>>) = 0
  BY EmptySeq
<1>2. TypeOK
  <2>1. /\ asked \in 0..NumTransfers /\ made \in 0..MaxMade /\ errors \in 0..MaxErrors
        /\ taken \in Nat /\ got \in Nat
    OBVIOUS
  <2>2. done \in Seq(Kinds) /\ chan \in Seq(Nat \ {0}) /\ ctrl \in Seq(Freqs)
    BY <1>1
  <2>3. QED
    BY <2>1, <2>2 DEF TypeOK
<1>3. NothingDropped /\ QueueKeptFull /\ GoneAfterExit
  BY <1>1 DEF NothingDropped, QueueKeptFull, GoneAfterExit, InHand
<1>4. QED
  BY <1>1, <1>2, <1>3 DEF IInv, Looping

(* A transfer leaves the completed queue from the front. *)
LEMMA TakeTransfer ==
  ASSUME done \in Seq(Kinds), done # <<>>
  PROVE  /\ Tail(done) \in Seq(Kinds)
         /\ Len(Tail(done)) = Len(done) - 1
         /\ Len(done) \in Nat \ {0}
  BY HeadTailProperties, EmptySeq

(* Taking the oldest chunk off the channel leaves the later ones in order. *)
LEMMA TakeChunk ==
  ASSUME TypeOK, NothingDropped, chan # <<>>,
         got' = Head(chan), chan' = Tail(chan)
  PROVE  /\ got' = got + 1
         /\ chan' \in Seq(Nat \ {0})
         /\ Len(chan') = Len(chan) - 1
         /\ \A i \in 1..Len(chan') : chan'[i] = got' + i
<1> USE DEF TypeOK, NothingDropped
<1>1. /\ Tail(chan) \in Seq(Nat \ {0})
      /\ Len(Tail(chan)) = Len(chan) - 1
      /\ Len(chan) \in Nat \ {0}
      /\ \A i \in 1..Len(Tail(chan)) : Tail(chan)[i] = chan[i + 1]
  BY HeadTailProperties, EmptySeq
<1>2. Head(chan) = chan[1]
  BY <1>1
<1>3. got' = got + 1
  BY <1>1, <1>2
<1>4. ASSUME NEW i \in 1..Len(chan') PROVE chan'[i] = got' + i
  BY <1>1, <1>3
<1>5. QED
  BY <1>1, <1>3, <1>4

(* Sending the chunk in hand continues the channel where it left off. *)
LEMMA PutChunk ==
  ASSUME TypeOK, NothingDropped, pc = "send", chan' = Append(chan, taken)
  PROVE  /\ chan' \in Seq(Nat \ {0})
         /\ Len(chan') = Len(chan) + 1
         /\ \A i \in 1..Len(chan') : chan'[i] = got + i
<1> USE DEF TypeOK, NothingDropped, InHand
<1>1. taken \in Nat \ {0} /\ Len(chan) \in Nat
  BY LenProperties
<1>2. /\ Append(chan, taken) \in Seq(Nat \ {0})
      /\ Len(Append(chan, taken)) = Len(chan) + 1
      /\ \A i \in 1..Len(chan) : Append(chan, taken)[i] = chan[i]
      /\ Append(chan, taken)[Len(chan) + 1] = taken
  BY <1>1, AppendProperties
<1>3. ASSUME NEW i \in 1..Len(chan') PROVE chan'[i] = got + i
  <2>1. CASE i \in 1..Len(chan)
    BY <1>2, <2>1
  <2>2. CASE i = Len(chan) + 1
    BY <1>1, <1>2, <2>2
  <2>3. QED
    BY <1>1, <1>2, <2>1, <2>2
<1>4. QED
  BY <1>2, <1>3

(* A step of the thread, of the board or of the consumer keeps IInv. *)
LEMMA NextIInv == IInv /\ [Next]_vars => IInv'
<1> SUFFICES ASSUME IInv, [Next]_vars PROVE IInv'
  OBVIOUS
<1> USE ReaderAssumption DEF IInv, TypeOK, NothingDropped, QueueKeptFull,
        GoneAfterExit, Looping, InHand, dev, handle
<1>0. /\ Len(done) \in Nat /\ Len(chan) \in Nat /\ Len(ctrl) \in Nat
      /\ <<>> \in Seq(Kinds) /\ <<>> \in Seq(Freqs)
      /\ Len(<<>>) = 0
  BY EmptySeq, LenProperties
<1>1. CASE OpenEndpoint
  BY <1>0, <1>1 DEF OpenEndpoint
<1>2. CASE FillAndReceive
  <2>1. mode = "off" /\ asked = 0 /\ done = <<>>
    BY <1>2 DEF FillAndReceive
  <2>2. CASE pc' = "top" /\ mode' = "rx" /\ asked' = NumTransfers
    <3>1. asked' \in 0..NumTransfers /\ asked' + Len(done') = NumTransfers
      BY <1>0, <1>2, <2>1, <2>2 DEF FillAndReceive
    <3>2. errors < MaxErrors
      BY <1>2 DEF FillAndReceive
    <3>3. QED
      BY <1>0, <1>2, <2>1, <2>2, <3>1, <3>2 DEF FillAndReceive
  <2>3. CASE pc' = "exited" /\ UNCHANGED <<mode, asked>>
    BY <1>0, <1>2, <2>1, <2>3 DEF FillAndReceive
  <2>4. QED
    BY <1>2, <2>2, <2>3 DEF FillAndReceive
<1>3. CASE TopOfLoop
  <2>1. ctrl # <<>> => ctrl[Len(ctrl)] \in Freqs
    BY <1>0, EmptySeq, ElementOfSeq
  <2>2. tuned' \in Freqs /\ ctrl' \in Seq(Freqs)
    BY <1>0, <1>3, <2>1 DEF TopOfLoop
  <2>3. QED
    BY <1>0, <1>3, <2>2 DEF TopOfLoop
<1>4. CASE StopSeen
  BY <1>0, <1>4 DEF StopSeen
<1>5. CASE WaitTimeout
  BY <1>0, <1>5 DEF WaitTimeout
<1>6. CASE TransferFailed
  <2>1. /\ done' \in Seq(Kinds)
        /\ Len(done') = Len(done) - 1
        /\ Len(done) \in Nat \ {0}
    BY <1>6, TakeTransfer DEF TransferFailed, Resubmit
  <2>2. /\ pc = "wait"
        /\ errors' = errors + 1
        /\ \/ pc' = "finish" /\ stop' = TRUE /\ asked' = asked
           \/ pc' = "top" /\ stop' = stop /\ asked' = asked + 1 /\ errors' < MaxErrors
        /\ UNCHANGED <<mode, made, taken, chan, ctrl, tuned, cons, got>>
    BY <1>6 DEF TransferFailed, Resubmit
  <2>3. asked' \in 0..NumTransfers /\ errors' \in 0..MaxErrors
    BY <1>0, <2>1, <2>2
  <2>4. TypeOK'
    BY <1>0, <2>1, <2>2, <2>3
  <2>5. NothingDropped'
    BY <1>0, <2>1, <2>2, <2>3
  <2>6. QueueKeptFull' /\ GoneAfterExit'
    <3>1. asked + Len(done) = NumTransfers /\ cons \notin {"joining", "gone"}
      BY <2>2
    <3>2. pc' \in {"top", "wait", "send"} => asked' + Len(done') = NumTransfers
      BY <1>0, <2>1, <2>2, <3>1
    <3>3. cons' \notin {"joining", "gone"}
      BY <2>2, <3>1
    <3>4. QED
      BY <3>2, <3>3
  <2>7. QED
    BY <1>0, <2>1, <2>2, <2>3, <2>4, <2>5, <2>6
<1>7. CASE TransferEmpty \/ TransferData
  <2>1. /\ done' \in Seq(Kinds)
        /\ Len(done') = Len(done) - 1
        /\ Len(done) \in Nat \ {0}
    BY <1>7, TakeTransfer DEF TransferEmpty, TransferData, Resubmit
  <2>2. /\ pc = "wait"
        /\ errors' = 0 /\ asked' = asked + 1
        /\ \/ pc' = "top" /\ taken' = taken
           \/ pc' = "send" /\ taken' = taken + 1
        /\ UNCHANGED <<mode, made, chan, ctrl, tuned, stop, cons, got>>
    BY <1>7 DEF TransferEmpty, TransferData, Resubmit
  <2>3. asked' \in 0..NumTransfers /\ errors' \in 0..MaxErrors /\ errors' < MaxErrors
    BY <1>0, <2>1, <2>2
  <2>4. TypeOK'
    BY <1>0, <2>1, <2>2, <2>3
  <2>5. NothingDropped'
    BY <1>0, <2>1, <2>2, <2>3
  <2>6. QueueKeptFull' /\ GoneAfterExit'
    <3>1. asked + Len(done) = NumTransfers /\ cons \notin {"joining", "gone"}
      BY <2>2
    <3>2. pc' \in {"top", "wait", "send"} => asked' + Len(done') = NumTransfers
      BY <1>0, <2>1, <2>2, <3>1
    <3>3. cons' \notin {"joining", "gone"}
      BY <2>2, <3>1
    <3>4. QED
      BY <3>2, <3>3
  <2>7. QED
    BY <1>0, <2>1, <2>2, <2>3, <2>4, <2>5, <2>6
<1>9. CASE SendChunk
  <2>1. /\ chan' \in Seq(Nat \ {0})
        /\ Len(chan') = Len(chan) + 1
        /\ \A i \in 1..Len(chan') : chan'[i] = got + i
    BY <1>9, PutChunk DEF SendChunk
  <2>2. QED
    BY <1>0, <1>9, <2>1 DEF SendChunk
<1>10. CASE Finish
  BY <1>0, <1>10 DEF Finish
<1>11. ASSUME NEW k \in Kinds, Complete(k) PROVE IInv'
  <2>1. /\ done' \in Seq(Kinds)
        /\ Len(done') = Len(done) + 1
    BY <1>11, AppendProperties DEF Complete
  <2>2. made' \in 0..MaxMade
    BY <1>11 DEF Complete
  <2>3. /\ mode = "rx" /\ asked > 0 /\ asked' = asked - 1
        /\ UNCHANGED <<pc, mode, errors, taken, chan, ctrl, tuned, stop, cons, got>>
    BY <1>11 DEF Complete
  <2>4. asked' \in 0..NumTransfers /\ asked' + Len(done') = asked + Len(done)
    BY <1>0, <2>1, <2>3
  <2>5. TypeOK'
    BY <1>0, <2>1, <2>2, <2>3, <2>4
  <2>6. NothingDropped'
    BY <1>0, <2>1, <2>2, <2>3
  <2>7. QED
    BY <1>0, <2>1, <2>2, <2>3, <2>4, <2>5, <2>6
<1>12. CASE Recv \/ DrainOne
  <2>1. /\ got' = got + 1
        /\ chan' \in Seq(Nat \ {0})
        /\ Len(chan') = Len(chan) - 1
        /\ \A i \in 1..Len(chan') : chan'[i] = got' + i
    BY <1>12, TakeChunk DEF Recv, DrainOne
  <2>2. UNCHANGED <<pc, mode, asked, done, made, errors, taken, ctrl, tuned, stop, cons>>
    BY <1>12 DEF Recv, DrainOne
  <2>3. QED
    BY <1>0, <2>1, <2>2
<1>13. ASSUME NEW f \in Freqs, Tune(f) PROVE IInv'
  <2>1. ctrl' \in Seq(Freqs)
    BY <1>13, AppendProperties DEF Tune
  <2>2. QED
    BY <1>0, <1>13, <2>1 DEF Tune
<1>14. CASE Stop \/ BeginRelease
  BY <1>0, <1>14 DEF Stop, BeginRelease
<1>15. CASE DrainedDry \/ DropRefused \/ Join
  BY <1>0, <1>15 DEF DrainedDry, DropRefused, Join
<1>16. CASE UNCHANGED vars
  BY <1>0, <1>16 DEF vars
<1>17. QED
  BY <1>1, <1>2, <1>3, <1>4, <1>5, <1>6, <1>7, <1>9, <1>10, <1>11, <1>12,
     <1>13, <1>14, <1>15, <1>16 DEF Next, Thread, Consumer

(* The inductive invariant holds of every reachable state. *)
THEOREM ReaderInvariant == Spec => []IInv
  BY InitIInv, NextIInv, PTL DEF Spec

(* Every variable keeps its type; in particular no count of transfers goes *)
(* below zero or past NumTransfers.                                        *)
THEOREM ReaderTypeOK == Spec => []TypeOK
<1>1. IInv => TypeOK
  BY DEF IInv
<1>2. QED
  BY <1>1, ReaderInvariant, PTL

(* No chunk is lost, doubled or swapped between the USB queue and the      *)
(* reader, whatever the sizes: the blocking send of streaming_thread.      *)
THEOREM ReaderDropsNothing == Spec => []NothingDropped
<1>1. IInv => NothingDropped
  BY DEF IInv
<1>2. QED
  BY <1>1, ReaderInvariant, PTL

(* The USB queue never shrinks while the loop runs: every path through     *)
(* streaming_thread that takes a transfer resubmits one or leaves.         *)
THEOREM ReaderKeepsQueueFull == Spec => []QueueKeptFull
<1>1. IInv => QueueKeptFull
  BY DEF IInv
<1>2. QED
  BY <1>1, ReaderInvariant, PTL

(* The receiving end of the channel outlives the thread that sends into    *)
(* it, so the send in streaming_thread cannot fail.                        *)
THEOREM ReaderOutlivesThread == Spec => []GoneAfterExit
<1>1. IInv => GoneAfterExit
  BY DEF IInv
<1>2. QED
  BY <1>1, ReaderInvariant, PTL

(* Every step of the stream is a step of the bounded pipe or none at all.  *)
LEMMA StepImplementsPipe == IInv /\ [Next]_vars => [Pipe!Next]_(Pipe!pipe)
<1> SUFFICES ASSUME IInv, [Next]_vars PROVE [Pipe!Next]_(Pipe!pipe)
  OBVIOUS
<1> USE ReaderAssumption DEF IInv, TypeOK, NothingDropped, InHand, dev, handle,
        Pipe!Next, Pipe!pipe, Pipe!Produce, Pipe!Consume, Pipe!Close
<1>1. CASE OpenEndpoint \/ FillAndReceive \/ Finish
  BY <1>1 DEF OpenEndpoint, FillAndReceive, Finish
<1>2. CASE TransferData
  BY <1>2 DEF TransferData
<1>3. CASE Recv \/ DrainOne
  <2>1. got' = got + 1 /\ Len(chan) \in Nat \ {0}
    BY <1>3, TakeChunk, EmptySeq DEF Recv, DrainOne
  <2>2. QED
    BY <1>3, <2>1 DEF Recv, DrainOne
<1>4. CASE TopOfLoop \/ StopSeen \/ WaitTimeout \/ TransferFailed \/ TransferEmpty \/ SendChunk
  BY <1>4 DEF TopOfLoop, StopSeen, WaitTimeout, TransferFailed, TransferEmpty, SendChunk
<1>5. CASE (\E k \in Kinds : Complete(k)) \/ \E f \in Freqs : Tune(f)
  BY <1>5 DEF Complete, Tune
<1>6. CASE Stop \/ BeginRelease \/ DrainedDry \/ DropRefused \/ Join
  BY <1>6 DEF Stop, BeginRelease, DrainedDry, DropRefused, Join
<1>7. CASE UNCHANGED vars
  BY <1>7 DEF vars
<1>8. QED
  BY <1>1, <1>2, <1>3, <1>4, <1>5, <1>6, <1>7 DEF Next, Thread, Consumer

(* The receive stream implements the orderly bounded pipe of ChunkPipe.    *)
THEOREM ReaderImplementsPipe == Spec => ImplementsPipe
<1>1. Init => Pipe!Init
  BY DEF Init, Pipe!Init
<1>2. QED
  BY <1>1, StepImplementsPipe, ReaderInvariant, PTL
     DEF Spec, ImplementsPipe, Pipe!Spec
=============================================================================
