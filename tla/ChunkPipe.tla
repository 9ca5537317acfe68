----------------------------- MODULE ChunkPipe -----------------------------
(***************************************************************************)
(* What a streaming handle promises its reader: chunks come out one at a   *)
(* time, in the order the radio made them, none missing, at most Slack of  *)
(* them waiting, and once the producer has closed no more are made.        *)
(* AsyncReadHandle::recv and the comment on blocking sends promise this.   *)
(***************************************************************************)
EXTENDS Naturals

CONSTANT Slack       \* chunks that may wait between producer and reader

VARIABLES produced,  \* chunks taken off the radio so far
          consumed,  \* chunks the reader has had so far
          open       \* whether the producer is still there

pipe == <<produced, consumed, open>>

Init == produced = 0 /\ consumed = 0 /\ open = TRUE

Produce == /\ open
           /\ produced - consumed < Slack
           /\ produced' = produced + 1
           /\ UNCHANGED <<consumed, open>>

Consume == /\ consumed < produced
           /\ consumed' = consumed + 1
           /\ UNCHANGED <<produced, open>>

Close == open /\ open' = FALSE /\ UNCHANGED <<produced, consumed>>

Next == Produce \/ Consume \/ Close

Spec == Init /\ [][Next]_pipe
=============================================================================
