------------------------------ MODULE IqProofs ------------------------------
(***************************************************************************)
(* Proofs about one client of an IQ stream server.  First its samples,     *)
(* IqPump, for every depth of the fan-out and of the inline queue, every   *)
(* length of block, every number of blocks and any mixture of the          *)
(* troubles; then its session, IqSession, for every depth of the out       *)
(* queue, every set of frequencies, and any number of moves of the dial,   *)
(* of settings announced and of times the tuner is offered.                *)
(***************************************************************************)
EXTENDS IqPump, IqSession, SequenceTheorems, FiniteSetTheorems, TLAPS

(* What one datagram on the path says of a later one: a later block, past  *)
(* the end of this one, or a later fragment of the same block.             *)
Follows(d, e) ==
  \/ d.seq < e.seq /\ d.index + d.len <= e.index
  \/ /\ d.seq = e.seq /\ d.frag < e.frag
     /\ d.index = e.index /\ d.len = e.len /\ d.count = e.count

(* Nothing on the path or in the assembler is of a block not yet sent. *)
Behind ==
  /\ DOMAIN parts \subseteq 0..(seq - 1)
  /\ \A i \in 1..Len(path) : path[i].seq < seq

(* On a path that keeps its order, and whatever it loses: the assembler    *)
(* holds only fragments before the ones still to come, so a block is       *)
(* completed by its last fragment alone, and what is left on the path      *)
(* starts where the reader is or later.                                    *)
PathOrdered ==
  InOrder =>
    /\ \A i \in 1..Len(path) :
         path[i].frag < path[i].count /\ path[i].index + path[i].len <= index
    /\ \A i, j \in 1..Len(path) : i < j => Follows(path[i], path[j])
    /\ \A i \in 1..Len(path) :
         path[i].seq \in DOMAIN parts => parts[path[i].seq] \subseteq 0..(path[i].frag - 1)
    /\ next <= index
    /\ \A i \in 1..Len(path) : next <= path[i].index

(* With a pump that keeps up the index on the wire is the radio's time,    *)
(* and the reader's time, from the first block on, the index.              *)
InTime ==
  "slow" \notin trouble =>
    /\ lag = 0
    /\ \/ fan = <<>> /\ index = taken
       \/ /\ Len(fan) = 1 /\ fan[1].at = index /\ index + fan[1].len = taken
          /\ "inline" \in trouble => Len(path) < InlineDepth
    /\ \A i \in 1..Len(path) : path[i].at = path[i].index
    /\ InOrder => clock = next /\ drift = 0

Heard == clock = None <=> next = None

IInv == PumpTypeOK /\ Behind /\ PathOrdered /\ InTime /\ Heard /\ BlocksAccounted

-----------------------------------------------------------------------------
(* Lemmas about the operators.                                             *)

(* Taking one datagram off the path leaves the others in order. *)
LEMMA WithoutProperties ==
  ASSUME NEW S, NEW s \in Seq(S), NEW i \in 1..Len(s)
  PROVE  /\ Without(s, i) \in Seq(S)
         /\ Len(Without(s, i)) = Len(s) - 1
         /\ \A j \in 1..(Len(s) - 1) :
              Without(s, i)[j] = IF j < i THEN s[j] ELSE s[j + 1]
<1> DEFINE front == SubSeq(s, 1, i - 1)
           back  == SubSeq(s, i + 1, Len(s))
<1>1. Len(s) \in Nat /\ \A j \in 1..Len(s) : s[j] \in S
  BY LenProperties, ElementOfSeq
<1>2. /\ front \in Seq(S) /\ Len(front) = i - 1
      /\ \A j \in 1..(i - 1) : front[j] = s[j]
  <2>1. \A j \in 1..(i - 1) : s[j] \in S
    BY <1>1
  <2>2. i - 1 \in Int
    BY <1>1
  <2>3. /\ front \in Seq(S)
        /\ Len(front) = IF 1 <= i - 1 THEN i - 1 - 1 + 1 ELSE 0
        /\ \A j \in 1..(i - 1 - 1 + 1) : front[j] = s[1 + j - 1]
    BY <2>1, <2>2, SubSeqProperties
  <2>4. QED
    BY <1>1, <2>3
<1>3. /\ back \in Seq(S) /\ Len(back) = Len(s) - i
      /\ \A j \in 1..(Len(s) - i) : back[j] = s[j + i]
  <2>1. \A j \in (i + 1)..Len(s) : s[j] \in S
    BY <1>1
  <2>2. i + 1 \in Int /\ Len(s) \in Int
    BY <1>1
  <2>3. /\ back \in Seq(S)
        /\ Len(back) = IF i + 1 <= Len(s) THEN Len(s) - (i + 1) + 1 ELSE 0
        /\ \A j \in 1..(Len(s) - (i + 1) + 1) : back[j] = s[(i + 1) + j - 1]
    BY <2>1, <2>2, SubSeqProperties
  <2>4. QED
    BY <1>1, <2>3
<1> HIDE DEF front, back
<1>4. /\ front \o back \in Seq(S)
      /\ Len(front \o back) = Len(front) + Len(back)
      /\ \A j \in 1..(Len(front) + Len(back)) :
           (front \o back)[j] = IF j <= Len(front) THEN front[j] ELSE back[j - Len(front)]
  BY <1>2, <1>3, ConcatProperties
<1>5. Without(s, i) = front \o back
  BY DEF Without, front, back
<1>6. Len(front) + Len(back) = Len(s) - 1
  BY <1>1, <1>2, <1>3
<1>7. ASSUME NEW j \in 1..(Len(s) - 1)
      PROVE  (front \o back)[j] = IF j < i THEN s[j] ELSE s[j + 1]
  <2>1. (front \o back)[j] = IF j <= i - 1 THEN front[j] ELSE back[j - (i - 1)]
    BY <1>2, <1>4, <1>6
  <2>2. CASE j < i
    BY <1>1, <1>2, <2>1, <2>2
  <2>3. CASE ~(j < i)
    <3>1. j - (i - 1) \in 1..(Len(s) - i) /\ j - (i - 1) + i = j + 1
      BY <1>1, <2>3
    <3>2. back[j - (i - 1)] = s[j + 1]
      BY <1>3, <3>1
    <3>3. QED
      BY <1>1, <2>1, <2>3, <3>2
  <2>4. QED
    BY <2>2, <2>3
<1>8. QED
  BY <1>4, <1>5, <1>6, <1>7

(* Fragments all before a given one are no more than its number. *)
LEMMA FewFragments ==
  ASSUME NEW k \in Nat, NEW held, held \subseteq 0..k
  PROVE  Cardinality(held) <= k + 1
<1>1. IsFiniteSet(0..k) /\ Cardinality(0..k) = k + 1
  BY FS_Interval
<1>2. QED
  BY <1>1, FS_Subset

(* A block is cut into datagrams with its own number, index and length. *)
LEMMA CutProperties ==
  ASSUME NEW b \in Blocks, seq \in Nat, index \in Nat, PumpConstants
  PROVE  /\ Cut(b) \in Seq(Datagrams)
         /\ "inline" \in trouble => Len(Cut(b)) = 1
         /\ \A i \in 1..Len(Cut(b)) :
              /\ Cut(b)[i].seq = seq /\ Cut(b)[i].index = index
              /\ Cut(b)[i].at = b.at /\ Cut(b)[i].len = b.len
              /\ Cut(b)[i].frag = i - 1 /\ Cut(b)[i].count = Len(Cut(b))
<1> DEFINE n == IF "inline" \in trouble THEN 1 ELSE b.len
           cut == [i \in 1..n |-> [seq |-> seq, index |-> index, at |-> b.at, len |-> b.len,
                                   frag |-> i - 1, count |-> n]]
<1>1. b.at \in Nat /\ b.len \in Lens /\ b.len \in Nat \ {0} /\ n \in Nat \ {0}
  <2>1. b.at \in Nat /\ b.len \in Lens
    BY DEF Blocks
  <2>2. b.len \in Nat \ {0}
    BY <2>1 DEF PumpConstants
  <2>3. QED
    BY <2>1, <2>2
<1>2. Cut(b) = cut
  BY DEF Cut
<1> HIDE DEF n
<1>3. cut \in [1..n -> Datagrams]
  BY <1>1 DEF Datagrams
<1>4. cut \in Seq(Datagrams) /\ Len(cut) = n
  <2>1. cut \in Seq(Datagrams)
    BY <1>1, <1>3, SeqDef
  <2>2. DOMAIN cut = 1..n
    OBVIOUS
  <2>3. DOMAIN cut = 1..Len(cut) /\ Len(cut) \in Nat
    BY <2>1, LenProperties
  <2>4. QED
    BY <1>1, <2>1, <2>2, <2>3
<1>5. "inline" \in trouble => n = 1
  BY DEF n
<1>6. ASSUME NEW i \in 1..n
      PROVE  cut[i] = [seq |-> seq, index |-> index, at |-> b.at, len |-> b.len,
                       frag |-> i - 1, count |-> n]
  OBVIOUS
<1> HIDE DEF cut
<1>7. QED
  BY <1>2, <1>4, <1>5, <1>6

-----------------------------------------------------------------------------
(* The reader: one datagram comes off the path.                            *)

(* What any datagram leaves behind, in order or not. *)
LEMMA ReceiveTypes ==
  ASSUME PumpConstants, PumpTypeOK, Behind, Heard,
         NEW d \in Datagrams, d.seq < seq, Receive(d)
  PROVE  /\ DOMAIN parts' \subseteq 0..(seq - 1)
         /\ \A s \in DOMAIN parts' : parts'[s] \subseteq Nat
         /\ next' \in Nat \cup {None} /\ clock' \in Nat \cup {None}
         /\ drift' \in Int
         /\ Heard'
<1> DEFINE held == IF d.seq \in DOMAIN parts THEN parts[d.seq] ELSE {}
           got == held \cup {d.frag}
<1>1. /\ d.seq \in Nat /\ d.index \in Nat /\ d.at \in Nat /\ d.frag \in Nat
      /\ d.len \in Nat \ {0} /\ d.count \in Nat \ {0}
  BY DEF Datagrams, PumpConstants
<1>2. got \subseteq Nat
  BY <1>1 DEF PumpTypeOK
<1>3. CASE parts' = Held(d.seq, got) /\ UNCHANGED <<next, clock, drift>>
  <2>1. /\ DOMAIN parts' = DOMAIN parts \cup {d.seq}
        /\ parts'[d.seq] = got
        /\ \A s \in DOMAIN parts \ {d.seq} : parts'[s] = parts[s]
    BY <1>3 DEF Held
  <2>2. DOMAIN parts' \subseteq 0..(seq - 1)
    BY <1>1, <2>1 DEF PumpTypeOK, Behind
  <2>3. \A s \in DOMAIN parts' : parts'[s] \subseteq Nat
    BY <1>2, <2>1 DEF PumpTypeOK
  <2>4. QED
    BY <1>3, <2>2, <2>3 DEF PumpTypeOK, Heard
<1>4. CASE /\ parts' = Abandon(d.seq)
           /\ next' = d.index + d.len
           /\ \E start \in Int : /\ start = IF clock = None THEN d.at ELSE clock + Gap(d)
                                 /\ drift' = start - d.at /\ clock' = start + d.len
  <2>1. /\ DOMAIN parts' \subseteq DOMAIN parts
        /\ \A s \in DOMAIN parts' : parts'[s] = parts[s]
    BY <1>4 DEF Abandon
  <2>2. Gap(d) \in Nat
    BY <1>1 DEF Gap, PumpTypeOK, None
  <2>3. PICK start \in Int : /\ start = IF clock = None THEN d.at ELSE clock + Gap(d)
                             /\ drift' = start - d.at /\ clock' = start + d.len
    BY <1>4
  <2>4. start \in Nat
    BY <1>1, <2>2, <2>3 DEF PumpTypeOK
  <2>5. clock' \in Nat /\ next' \in Nat /\ drift' \in Int
    BY <1>1, <1>4, <2>3, <2>4
  <2>6. QED
    BY <2>1, <2>5 DEF PumpTypeOK, Behind, Heard, None
<1>5. (IF clock = None THEN d.at ELSE clock + Gap(d)) \in Int
  BY <1>1 DEF PumpTypeOK, Gap, None
<1>6. QED
  BY <1>3, <1>4, <1>5 DEF Receive

(* What the next datagram in order leaves behind. *)
LEMMA ReceiveInOrder ==
  ASSUME PumpConstants, PumpTypeOK, Behind, PathOrdered, Heard, InOrder,
         path # <<>>, Receive(path[1])
  PROVE  /\ next' <= index
         /\ \A i \in 2..Len(path) :
              /\ next' <= path[i].index
              /\ path[i].seq \in DOMAIN parts' =>
                   parts'[path[i].seq] \subseteq 0..(path[i].frag - 1)
         /\ next # None => clock' - next' = clock - next /\ next' >= next
         /\ InTime /\ "slow" \notin trouble => clock' = next' /\ drift' = 0
<1> DEFINE d == path[1]
           held == IF d.seq \in DOMAIN parts THEN parts[d.seq] ELSE {}
           got == held \cup {d.frag}
<1>1. Len(path) \in Nat \ {0} /\ \A i \in 1..Len(path) : path[i] \in Datagrams
  BY EmptySeq, ElementOfSeq DEF PumpTypeOK
<1>2. \A i \in 1..Len(path) :
        /\ path[i].seq \in Nat /\ path[i].index \in Nat /\ path[i].at \in Nat
        /\ path[i].frag \in Nat /\ path[i].len \in Nat \ {0} /\ path[i].count \in Nat \ {0}
  BY <1>1 DEF Datagrams, PumpConstants
<1>3. 1 \in 1..Len(path) /\ \A i \in 2..Len(path) : i \in 1..Len(path) /\ 1 < i
  BY <1>1
<1>4. \A i \in 2..Len(path) : Follows(d, path[i])
  BY <1>3 DEF PathOrdered
<1>5. got \subseteq 0..d.frag
  BY <1>2, <1>3 DEF PathOrdered
<1>6. /\ d.frag < d.count /\ d.index + d.len <= index
      /\ next <= index /\ next <= d.index
      /\ \A i \in 2..Len(path) : next <= path[i].index /\ path[i].frag < path[i].count
  BY <1>3 DEF PathOrdered
<1>7. CASE /\ parts' = Held(d.seq, got) /\ UNCHANGED <<next, clock, drift>>
  <2>1. /\ DOMAIN parts' = DOMAIN parts \cup {d.seq}
        /\ parts'[d.seq] = got
        /\ \A s \in DOMAIN parts \ {d.seq} : parts'[s] = parts[s]
    BY <1>7 DEF Held
  <2>2. ASSUME NEW i \in 2..Len(path), path[i].seq \in DOMAIN parts'
        PROVE  parts'[path[i].seq] \subseteq 0..(path[i].frag - 1)
    <3>1. CASE path[i].seq = d.seq
      <4>1. d.frag < path[i].frag
        BY <1>2, <1>3, <1>4, <3>1 DEF Follows
      <4>2. 0..d.frag \subseteq 0..(path[i].frag - 1)
        BY <1>2, <1>3, <4>1
      <4>3. QED
        BY <1>5, <2>1, <3>1, <4>2
    <3>2. CASE path[i].seq # d.seq
      BY <1>3, <2>1, <2>2, <3>2 DEF PathOrdered
    <3>3. QED
      BY <3>1, <3>2
  <2>3. next' = next /\ clock' = clock /\ drift' = drift
    BY <1>7
  <2>4. next # None => next \in Nat /\ clock \in Nat
    BY DEF PumpTypeOK, Heard, None
  <2>5. next # None => clock' - next' = clock - next /\ next' >= next
    BY <2>3, <2>4
  <2>6. InTime /\ "slow" \notin trouble => clock' = next' /\ drift' = 0
    BY <2>3 DEF InTime
  <2>7. QED
    BY <1>6, <2>2, <2>3, <2>5, <2>6
<1>8. CASE /\ Cardinality(got) >= d.count
           /\ parts' = Abandon(d.seq)
           /\ next' = d.index + d.len
           /\ \E start \in Int : /\ start = IF clock = None THEN d.at ELSE clock + Gap(d)
                                 /\ drift' = start - d.at /\ clock' = start + d.len
  <2>1. Cardinality(got) <= d.frag + 1
    BY <1>2, <1>3, <1>5, FewFragments
  <2>2. d.frag + 1 = d.count
    <3>1. Cardinality(got) \in Nat
      <4>1. IsFiniteSet(0..d.frag)
        <5>1. 0 \in Int /\ d.frag \in Int
          BY <1>2, <1>3
        <5>2. QED
          BY <5>1, FS_Interval
      <4>2. QED
        BY <1>5, <4>1, FS_Subset, FS_CardinalityType
    <3>2. d.frag \in Nat /\ d.count \in Nat
      BY <1>2, <1>3
    <3>3. Cardinality(got) >= d.count /\ d.frag < d.count
      BY <1>6, <1>8
    <3>4. QED
      BY <2>1, <3>1, <3>2, <3>3
  <2>3. ASSUME NEW i \in 2..Len(path)
        PROVE  next' <= path[i].index
    <3>1. CASE d.seq = path[i].seq
      <4>1. /\ d.frag < path[i].frag /\ path[i].frag < path[i].count
            /\ d.count = path[i].count
        <5>1. path[i].frag < path[i].count
          BY <1>6
        <5>2. d.seq \in Nat /\ Follows(d, path[i])
          BY <1>2, <1>3, <1>4
        <5>3. QED
          BY <3>1, <5>1, <5>2 DEF Follows
      <4>2. QED
        BY <1>2, <1>3, <2>2, <4>1
    <3>2. CASE d.seq # path[i].seq
      BY <1>4, <1>8, <3>2 DEF Follows
    <3>3. QED
      BY <3>1, <3>2
  <2>4. ASSUME NEW i \in 2..Len(path), path[i].seq \in DOMAIN parts'
        PROVE  parts'[path[i].seq] \subseteq 0..(path[i].frag - 1)
    BY <1>3, <1>8, <2>4 DEF PathOrdered, Abandon
  <2>5. PICK start \in Int : /\ start = IF clock = None THEN d.at ELSE clock + Gap(d)
                             /\ drift' = start - d.at /\ clock' = start + d.len
    BY <1>8
  <2>6. next # None => /\ next \in Nat /\ clock \in Nat
                       /\ start = clock + (d.index - next)
    BY <1>2, <1>3, <1>6, <2>5 DEF PumpTypeOK, Heard, None, Gap
  <2>7. next # None => clock' - next' = clock - next /\ next' >= next
    <3>1. SUFFICES ASSUME next # None PROVE clock' - next' = clock - next /\ next' >= next
      OBVIOUS
    <3>2. next \in Nat /\ clock \in Nat /\ start = clock + (d.index - next)
      BY <2>6, <3>1
    <3>3. PICK from \in Nat, len \in Nat : d.index = from /\ d.len = len /\ next <= from
      BY <1>2, <1>3, <1>6
    <3>4. start = clock + (from - next) /\ next' = from + len /\ clock' = start + len
      BY <1>8, <2>5, <3>2, <3>3
    <3>5. QED
      BY <3>2, <3>3, <3>4
  <2>8. InTime /\ "slow" \notin trouble => clock' = next' /\ drift' = 0
    <3>1. SUFFICES ASSUME InTime, "slow" \notin trouble PROVE clock' = next' /\ drift' = 0
      OBVIOUS
    <3>2. clock = next /\ d.at = d.index
      BY <1>3, <3>1 DEF InTime
    <3>3. start = d.index
      BY <1>2, <1>3, <2>5, <2>6, <3>2 DEF Heard
    <3>4. QED
      BY <1>2, <1>3, <1>8, <2>5, <3>2, <3>3
  <2>9. QED
    BY <1>6, <1>8, <2>3, <2>4, <2>7, <2>8
<1>9. (IF clock = None THEN d.at ELSE clock + Gap(d)) \in Int
  BY <1>2, <1>3 DEF PumpTypeOK, Gap, None
<1>10. QED
  BY <1>7, <1>8, <1>9 DEF Receive

-----------------------------------------------------------------------------
(* The invariant, action by action.                                        *)

LEMMA InitIInv == PumpInit => IInv
<1> SUFFICES ASSUME PumpInit PROVE IInv
  OBVIOUS
<1> USE PumpConstants DEF PumpInit, PumpConstants
<1>1. /\ <<>> \in Seq(Blocks) /\ <<>> \in Seq(Datagrams) /\ Len(<<>>) = 0
      /\ DOMAIN <<>> = {}
  <2>1. <<>> \in Seq(Blocks) /\ <<>> \in Seq(Datagrams) /\ Len(<<>>) = 0
    BY EmptySeq
  <2>2. DOMAIN <<>> = 1..0
    BY <2>1, LenProperties
  <2>3. QED
    BY <2>1, <2>2
<1>2. PumpTypeOK
  <2>1. 0 <= FanoutDepth /\ 0 <= InlineDepth /\ 0 \in 0..MaxBlocks /\ 0 \in 0..MaxCopies
    OBVIOUS
  <2>2. QED
    BY <1>1, <2>1 DEF PumpTypeOK, None
<1>3. Behind /\ PathOrdered /\ InTime
  BY <1>1 DEF Behind, PathOrdered, InTime, None
<1>4. Heard /\ BlocksAccounted
  BY <1>1 DEF Heard, BlocksAccounted
<1>5. QED
  BY <1>2, <1>3, <1>4 DEF IInv

LEMMA PushIInv ==
  ASSUME IInv, NEW n \in Lens, Push(n)
  PROVE  IInv'
<1> DEFINE b == [at |-> taken, len |-> n]
<1>1. /\ n \in Nat \ {0} /\ b \in Blocks /\ b.at = taken /\ b.len = n
      /\ FanoutDepth \in Nat \ {0} /\ MaxBlocks \in Nat
  <2>1. n \in Nat \ {0} /\ taken \in Nat
    BY PumpConstants DEF PumpConstants, IInv, PumpTypeOK
  <2>2. QED
    BY <2>1, PumpConstants DEF PumpConstants, Blocks
<1> HIDE DEF b
<1>2. /\ fan \in Seq(Blocks) /\ Len(fan) \in Nat /\ Len(fan) <= FanoutDepth
      /\ lag \in Nat /\ taken \in Nat /\ pushed \in 0..MaxBlocks
      /\ sent \in Nat /\ dropped \in Nat
  BY LenProperties DEF IInv, PumpTypeOK
<1>3. /\ pushed < MaxBlocks /\ KeepsUp /\ taken' = taken + n /\ pushed' = pushed + 1
      /\ \/ Len(fan) < FanoutDepth /\ fan' = Append(fan, b) /\ lag' = lag
         \/ Len(fan) = FanoutDepth /\ fan' = Append(Tail(fan), b) /\ lag' = lag + 1
      /\ UNCHANGED <<trouble, seq, index, sent, dropped, path, copies, parts, next, clock, drift>>
  BY DEF Push, b, counters, network, reader
<1>4. /\ fan' \in Seq(Blocks) /\ Len(fan') <= FanoutDepth
      /\ Len(fan') + lag' = Len(fan) + lag + 1 /\ lag' \in Nat
      /\ fan = <<>> => lag' = lag /\ Len(fan') = 1 /\ fan'[1] = b
  <2>1. CASE Len(fan) < FanoutDepth /\ fan' = Append(fan, b) /\ lag' = lag
    <3>1. /\ Append(fan, b) \in Seq(Blocks) /\ Len(Append(fan, b)) = Len(fan) + 1
          /\ Append(fan, b)[Len(fan) + 1] = b
      BY <1>1, <1>2, AppendProperties
    <3>2. fan = <<>> => Len(fan) = 0
      BY EmptySeq
    <3>3. /\ fan' \in Seq(Blocks) /\ Len(fan') = Len(fan) + 1 /\ lag' = lag
          /\ Len(fan') <= FanoutDepth
      BY <1>1, <1>2, <2>1, <3>1
    <3>4. fan = <<>> => Len(fan') = 1 /\ fan'[1] = b
      BY <2>1, <3>1, <3>2
    <3>5. QED
      BY <1>2, <3>3, <3>4
  <2>2. CASE Len(fan) = FanoutDepth /\ fan' = Append(Tail(fan), b) /\ lag' = lag + 1
    <3>1. fan # <<>>
      BY <1>1, <2>2, EmptySeq
    <3>2. Tail(fan) \in Seq(Blocks) /\ Len(Tail(fan)) = Len(fan) - 1
      BY <1>2, <3>1, HeadTailProperties
    <3>3. /\ Append(Tail(fan), b) \in Seq(Blocks)
          /\ Len(Append(Tail(fan), b)) = Len(Tail(fan)) + 1
      BY <1>1, <3>2, AppendProperties
    <3>4. /\ fan' \in Seq(Blocks) /\ Len(fan') = Len(fan) /\ lag' = lag + 1
      BY <1>2, <2>2, <3>2, <3>3
    <3>5. QED
      BY <1>2, <3>1, <3>4
  <2>3. QED
    BY <1>3, <2>1, <2>2
<1>5. PumpTypeOK'
  <2>1. taken' \in Nat /\ pushed' \in 0..MaxBlocks
    BY <1>1, <1>2, <1>3
  <2>2. QED
    BY <1>3, <1>4, <2>1 DEF IInv, PumpTypeOK, Datagrams
<1>6. BlocksAccounted'
  <2>1. Len(fan') \in Nat
    BY <1>4, LenProperties
  <2>2. sent + dropped + lag + Len(fan) = pushed
    BY DEF IInv, BlocksAccounted
  <2>3. sent' = sent /\ dropped' = dropped
    BY <1>3
  <2>4. pushed' = pushed + 1 /\ pushed \in Nat
    BY <1>1, <1>2, <1>3
  <2>5. Len(fan') + lag' = Len(fan) + lag + 1 /\ lag' \in Nat
    BY <1>4
  <2>6. sent + dropped + lag' + Len(fan') = pushed + 1
    BY <1>2, <2>1, <2>2, <2>4, <2>5
  <2>7. QED
    BY <2>3, <2>4, <2>6 DEF BlocksAccounted
<1>7. InTime'
  <2>1. SUFFICES ASSUME "slow" \notin trouble PROVE InTime'
    BY <1>3 DEF InTime
  <2>2. fan = <<>> /\ Len(path) < InlineDepth
    BY <1>3, <2>1 DEF KeepsUp
  <2>3. lag = 0 /\ index = taken
    <3>1. Len(<<>>) = 0
      BY EmptySeq
    <3>2. QED
      BY <2>1, <2>2, <3>1 DEF IInv, InTime
  <2>4. /\ \A i \in 1..Len(path) : path[i].at = path[i].index
        /\ InOrder => clock = next /\ drift = 0
    BY <2>1 DEF IInv, InTime
  <2>5. /\ lag' = 0 /\ Len(fan') = 1 /\ fan'[1].at = index'
        /\ index' + fan'[1].len = taken'
    BY <1>1, <1>3, <1>4, <2>2, <2>3
  <2>6. QED
    BY <1>3, <2>2, <2>4, <2>5 DEF InTime, InOrder
<1>8. Behind' /\ PathOrdered' /\ Heard'
  BY <1>3 DEF IInv, Behind, PathOrdered, Heard, InOrder
<1>9. QED
  BY <1>5, <1>6, <1>7, <1>8 DEF IInv

LEMMA LaggedIInv == IInv /\ Lagged => IInv'
<1> SUFFICES ASSUME IInv, Lagged PROVE IInv'
  OBVIOUS
<1>1. /\ lag > 0 /\ dropped' = dropped + lag /\ lag' = 0
      /\ UNCHANGED <<trouble, taken, pushed, fan, seq, index, sent, path, copies,
                     parts, next, clock, drift>>
  BY DEF Lagged, radio, network, reader
<1>2. /\ lag \in Nat /\ dropped \in Nat /\ sent \in Nat /\ Len(fan) \in Nat
      /\ sent + dropped + lag + Len(fan) = pushed
  BY LenProperties DEF IInv, PumpTypeOK, BlocksAccounted
<1>3. PumpTypeOK'
  BY <1>1, <1>2 DEF IInv, PumpTypeOK, Datagrams
<1>4. BlocksAccounted'
  BY <1>1, <1>2 DEF BlocksAccounted
<1>5. InTime'
  BY <1>1, <1>2 DEF IInv, InTime, InOrder
<1>6. Behind' /\ PathOrdered' /\ Heard'
  BY <1>1 DEF IInv, Behind, PathOrdered, Heard, InOrder
<1>7. QED
  BY <1>3, <1>4, <1>5, <1>6 DEF IInv

LEMMA QueueFullIInv == IInv /\ QueueFull => IInv'
<1> SUFFICES ASSUME IInv, QueueFull PROVE IInv'
  OBVIOUS
<1>1. /\ lag = 0 /\ fan # <<>> /\ "inline" \in trouble /\ Len(path) = InlineDepth
      /\ dropped' = dropped + 1 /\ fan' = Tail(fan)
      /\ UNCHANGED <<trouble, taken, pushed, lag, seq, index, sent, path, copies,
                     parts, next, clock, drift>>
  BY DEF QueueFull, radio, network, reader
<1>2. /\ lag \in Nat /\ dropped \in Nat /\ sent \in Nat /\ Len(fan) \in Nat
      /\ fan \in Seq(Blocks) /\ Len(fan) <= FanoutDepth
      /\ sent + dropped + lag + Len(fan) = pushed
  BY LenProperties DEF IInv, PumpTypeOK, BlocksAccounted
<1>3. Tail(fan) \in Seq(Blocks) /\ Len(Tail(fan)) = Len(fan) - 1
  BY <1>1, <1>2, HeadTailProperties
<1>4. PumpTypeOK'
  <2>1. FanoutDepth \in Nat /\ Len(fan') <= FanoutDepth
    BY <1>1, <1>2, <1>3, PumpConstants DEF PumpConstants
  <2>2. QED
    BY <1>1, <1>2, <1>3, <2>1 DEF IInv, PumpTypeOK, Datagrams
<1>5. BlocksAccounted'
  BY <1>1, <1>2, <1>3 DEF BlocksAccounted
<1>6. "slow" \in trouble
  BY <1>1, PumpConstants DEF IInv, InTime, PumpConstants
<1>7. InTime'
  BY <1>1, <1>6 DEF InTime
<1>8. Behind' /\ PathOrdered' /\ Heard'
  BY <1>1 DEF IInv, Behind, PathOrdered, Heard, InOrder
<1>9. QED
  BY <1>4, <1>5, <1>7, <1>8 DEF IInv

(* A block put on the path follows everything already there. *)
LEMMA SendIInv == IInv /\ SendBlock => IInv'
<1> SUFFICES ASSUME IInv, SendBlock PROVE IInv'
  OBVIOUS
<1> DEFINE b == Head(fan)
<1>1. /\ lag = 0 /\ fan # <<>>
      /\ "inline" \in trouble => Len(path) < InlineDepth
      /\ path' = path \o Cut(b)
      /\ seq' = seq + 1 /\ index' = index + b.len /\ sent' = sent + 1 /\ fan' = Tail(fan)
      /\ UNCHANGED <<trouble, taken, pushed, lag, dropped, copies, parts, next, clock, drift>>
  BY DEF SendBlock, radio, reader
<1>2. /\ lag \in Nat /\ dropped \in Nat /\ sent \in Nat /\ seq \in Nat /\ index \in Nat
      /\ taken \in Nat
      /\ Len(fan) \in Nat /\ fan \in Seq(Blocks) /\ Len(fan) <= FanoutDepth
      /\ path \in Seq(Datagrams) /\ Len(path) \in Nat
      /\ sent + dropped + lag + Len(fan) = pushed
  BY LenProperties DEF IInv, PumpTypeOK, BlocksAccounted
<1>3. /\ Tail(fan) \in Seq(Blocks) /\ Len(Tail(fan)) = Len(fan) - 1
      /\ Len(Tail(fan)) \in Nat /\ b \in Blocks
  BY <1>1, <1>2, HeadTailProperties, LenProperties
<1>4. b.at \in Nat /\ b.len \in Lens /\ b.len \in Nat \ {0}
  <2>1. b.at \in Nat /\ b.len \in Lens
    BY <1>3 DEF Blocks
  <2>2. QED
    BY <2>1, PumpConstants DEF PumpConstants
<1> HIDE DEF b
<1>5. /\ Cut(b) \in Seq(Datagrams) /\ Len(Cut(b)) \in Nat
      /\ "inline" \in trouble => Len(Cut(b)) = 1
      /\ \A i \in 1..Len(Cut(b)) :
           /\ Cut(b)[i].seq = seq /\ Cut(b)[i].index = index
           /\ Cut(b)[i].at = b.at /\ Cut(b)[i].len = b.len
           /\ Cut(b)[i].frag = i - 1 /\ Cut(b)[i].count = Len(Cut(b))
  BY <1>2, <1>3, PumpConstants, CutProperties, LenProperties
<1>6. /\ path' \in Seq(Datagrams) /\ Len(path') = Len(path) + Len(Cut(b))
      /\ \A i \in 1..Len(path') :
           path'[i] = IF i <= Len(path) THEN path[i] ELSE Cut(b)[i - Len(path)]
  BY <1>1, <1>2, <1>5, ConcatProperties
<1>7. ASSUME NEW i \in 1..Len(path')
      PROVE  \/ i \in 1..Len(path) /\ path'[i] = path[i]
             \/ /\ i \in (Len(path) + 1)..Len(path')
                /\ path'[i].seq = seq /\ path'[i].index = index
                /\ path'[i].at = b.at /\ path'[i].len = b.len
                /\ path'[i].frag = i - Len(path) - 1 /\ path'[i].count = Len(Cut(b))
                /\ path'[i].frag \in Nat /\ path'[i].frag < path'[i].count
  <2>1. CASE i <= Len(path)
    BY <1>2, <1>6, <2>1
  <2>2. CASE ~(i <= Len(path))
    <3>1. /\ i \in (Len(path) + 1)..Len(path') /\ i - Len(path) \in 1..Len(Cut(b))
          /\ i - Len(path) - 1 \in Nat /\ i - Len(path) - 1 < Len(Cut(b))
      BY <1>2, <1>5, <1>6, <2>2
    <3>2. path'[i] = Cut(b)[i - Len(path)]
      BY <1>6, <2>2
    <3>3. QED
      BY <1>5, <3>1, <3>2
  <2>3. QED
    BY <2>1, <2>2
<1>8. \A i \in 1..Len(path) : path[i] \in Datagrams
  BY <1>2, ElementOfSeq
<1>9. PumpTypeOK'
  <2>1. /\ seq' \in Nat /\ index' \in Nat /\ sent' \in Nat /\ fan' \in Seq(Blocks)
        /\ Len(fan') <= FanoutDepth
    BY <1>1, <1>2, <1>3, <1>4, PumpConstants DEF PumpConstants
  <2>2. "inline" \in trouble' => Len(path') <= InlineDepth
    <3>1. trouble' = trouble /\ InlineDepth \in Nat
      BY <1>1, PumpConstants DEF PumpConstants
    <3>2. "inline" \in trouble => Len(path) < InlineDepth /\ Len(path') = Len(path) + 1
      BY <1>1, <1>5, <1>6
    <3>3. QED
      BY <1>2, <3>1, <3>2
  <2>3. QED
    BY <1>1, <1>6, <2>1, <2>2 DEF IInv, PumpTypeOK
<1>10. Behind'
  <2>1. DOMAIN parts' \subseteq 0..(seq' - 1)
    BY <1>1, <1>2 DEF IInv, Behind
  <2>2. ASSUME NEW i \in 1..Len(path') PROVE path'[i].seq < seq'
    <3>1. CASE i \in 1..Len(path) /\ path'[i] = path[i]
      <4>1. path[i].seq \in Nat /\ path[i].seq < seq
        BY <1>8, <3>1 DEF IInv, Behind, Datagrams
      <4>2. QED
        BY <1>1, <1>2, <3>1, <4>1
    <3>2. CASE path'[i].seq = seq
      BY <1>1, <1>2, <3>2
    <3>3. QED
      BY <1>7, <3>1, <3>2
  <2>3. QED
    BY <2>1, <2>2 DEF Behind
<1>11. PathOrdered'
  <2>1. SUFFICES ASSUME InOrder PROVE PathOrdered'
    BY <1>1 DEF PathOrdered, InOrder
  <2>2. /\ \A i \in 1..Len(path) :
             path[i].frag < path[i].count /\ path[i].index + path[i].len <= index
        /\ \A i, j \in 1..Len(path) : i < j => Follows(path[i], path[j])
        /\ \A i \in 1..Len(path) :
             path[i].seq \in DOMAIN parts =>
               parts[path[i].seq] \subseteq 0..(path[i].frag - 1)
        /\ next <= index
        /\ \A i \in 1..Len(path) : next <= path[i].index
    BY <2>1 DEF IInv, PathOrdered
  <2>3. /\ \A i \in 1..Len(path) : path[i].index \in Nat /\ path[i].len \in Nat /\ path[i].seq \in Nat
        /\ next \in Int /\ index < index' /\ index' = index + b.len /\ index' \in Nat
    <3>1. \A i \in 1..Len(path) : path[i].index \in Nat /\ path[i].seq \in Nat /\ path[i].len \in Lens
      BY <1>8 DEF Datagrams
    <3>2. \A i \in 1..Len(path) : path[i].len \in Nat
      BY <3>1, PumpConstants DEF PumpConstants
    <3>3. next \in Int
      BY DEF IInv, PumpTypeOK, None
    <3>4. index' = index + b.len /\ index < index' /\ index' \in Nat
      BY <1>1, <1>2, <1>4
    <3>5. QED
      BY <3>1, <3>2, <3>3, <3>4
  <2>4. ASSUME NEW i \in 1..Len(path')
        PROVE  /\ path'[i].frag < path'[i].count
               /\ path'[i].index + path'[i].len <= index'
               /\ next' <= path'[i].index
    <3>1. next' = next
      BY <1>1
    <3>2. CASE i \in 1..Len(path) /\ path'[i] = path[i]
      BY <1>2, <2>2, <2>3, <3>1, <3>2
    <3>3. CASE /\ path'[i].index = index /\ path'[i].len = b.len
               /\ path'[i].frag < path'[i].count
      BY <1>2, <1>4, <2>2, <2>3, <3>1, <3>3
    <3>4. QED
      BY <1>7, <3>2, <3>3
  <2>5. ASSUME NEW i \in 1..Len(path'), path'[i].seq \in DOMAIN parts'
        PROVE  parts'[path'[i].seq] \subseteq 0..(path'[i].frag - 1)
    <3>1. seq \notin DOMAIN parts'
      BY <1>1, <1>2 DEF IInv, Behind
    <3>2. QED
      BY <1>1, <1>7, <2>2, <2>5, <3>1
  <2>6. ASSUME NEW i \in 1..Len(path'), NEW j \in 1..Len(path'), i < j
        PROVE  Follows(path'[i], path'[j])
    <3>1. CASE j \in 1..Len(path) /\ path'[j] = path[j]
      <4>1. i \notin (Len(path) + 1)..Len(path')
        BY <1>2, <2>6, <3>1
      <4>2. i \in 1..Len(path) /\ path'[i] = path[i]
        BY <1>7, <4>1
      <4>3. QED
        BY <2>2, <2>6, <3>1, <4>2
    <3>2. CASE i \in 1..Len(path) /\ path'[i] = path[i] /\ path'[j].seq = seq /\ path'[j].index = index
      <4>1. path[i].seq < seq
        BY <3>2 DEF IInv, Behind
      <4>2. QED
        BY <2>2, <3>2, <4>1 DEF Follows
    <3>3. CASE /\ path'[i].seq = seq /\ path'[i].index = index
               /\ path'[i].len = b.len /\ path'[i].count = Len(Cut(b))
               /\ path'[i].frag = i - Len(path) - 1
               /\ path'[j].seq = seq /\ path'[j].index = index
               /\ path'[j].len = b.len /\ path'[j].count = Len(Cut(b))
               /\ path'[j].frag = j - Len(path) - 1
      <4>1. i - Len(path) - 1 < j - Len(path) - 1
        BY <1>2, <2>6
      <4>2. QED
        BY <3>3, <4>1 DEF Follows
    <3>4. QED
      BY <1>7, <3>1, <3>2, <3>3
  <2>7. next' <= index'
    BY <1>1, <1>2, <2>2, <2>3
  <2>8. QED
    BY <2>4, <2>5, <2>6, <2>7 DEF PathOrdered
<1>12. InTime'
  <2>1. SUFFICES ASSUME "slow" \notin trouble PROVE InTime'
    BY <1>1 DEF InTime
  <2>2. Len(fan) = 1 /\ fan[1].at = index /\ index + fan[1].len = taken
    BY <1>1, <2>1 DEF IInv, InTime
  <2>3. b = fan[1]
    BY <1>2, <2>2 DEF b
  <2>4. fan' = <<>>
    <3>1. fan' \in Seq(Blocks) /\ Len(fan') = 0
      BY <1>1, <1>3, <2>2
    <3>2. QED
      BY <3>1, EmptySeq
  <2>5. index' = taken'
    BY <1>1, <2>2, <2>3
  <2>6. \A i \in 1..Len(path) : path[i].at = path[i].index
    BY <2>1 DEF IInv, InTime
  <2>7. ASSUME NEW i \in 1..Len(path') PROVE path'[i].at = path'[i].index
    BY <1>7, <2>2, <2>3, <2>6
  <2>8. InOrder' => clock' = next' /\ drift' = 0
    BY <1>1, <2>1 DEF IInv, InTime, InOrder
  <2>9. lag' = 0
    BY <1>1
  <2>10. QED
    BY <2>4, <2>5, <2>7, <2>8, <2>9 DEF InTime
<1>13. BlocksAccounted'
  BY <1>1, <1>2, <1>3 DEF BlocksAccounted
<1>14. Heard'
  BY <1>1 DEF IInv, Heard
<1>15. QED
  BY <1>9, <1>10, <1>11, <1>12, <1>13, <1>14 DEF IInv

(* A datagram that comes off the path, whether the reader heard it or it   *)
(* was lost, and one that comes twice.                                     *)
LEMMA OffThePath ==
  ASSUME IInv, NEW i \in Reach, path' = Without(path, i)
  PROVE  /\ path[i] \in Datagrams /\ path[i].seq < seq
         /\ path' \in Seq(Datagrams) /\ Len(path') = Len(path) - 1 /\ Len(path) \in Nat \ {0}
         /\ \A j \in 1..Len(path') :
              \E k \in 1..Len(path) : path'[j] = path[k]
         /\ InOrder => /\ i = 1 /\ path # <<>>
                       /\ \A j \in 1..Len(path') : j + 1 \in 2..Len(path) /\ path'[j] = path[j + 1]
<1>1. path \in Seq(Datagrams) /\ Len(path) \in Nat /\ DOMAIN path = 1..Len(path)
  BY LenProperties DEF IInv, PumpTypeOK
<1>2. i \in 1..Len(path)
  BY <1>1 DEF Reach
<1>3. path[i] \in Datagrams /\ path[i].seq < seq
  BY <1>1, <1>2, ElementOfSeq DEF IInv, Behind
<1>4. /\ path' \in Seq(Datagrams) /\ Len(path') = Len(path) - 1
      /\ \A j \in 1..(Len(path) - 1) : path'[j] = IF j < i THEN path[j] ELSE path[j + 1]
  BY <1>1, <1>2, WithoutProperties
<1>5. ASSUME NEW j \in 1..Len(path') PROVE \E k \in 1..Len(path) : path'[j] = path[k]
  <2>1. j \in 1..Len(path) /\ j + 1 \in 1..Len(path)
    BY <1>1, <1>4
  <2>2. path'[j] = path[j] \/ path'[j] = path[j + 1]
    BY <1>4
  <2>3. QED
    BY <2>1, <2>2
<1>6. InOrder => i = 1 /\ path # <<>>
  BY <1>1, <1>2, EmptySeq DEF Reach, InOrder
<1>7. ASSUME InOrder, NEW j \in 1..Len(path')
      PROVE  j + 1 \in 2..Len(path) /\ path'[j] = path[j + 1]
  BY <1>1, <1>4, <1>6, <1>7
<1>8. QED
  BY <1>1, <1>2, <1>3, <1>4, <1>5, <1>6, <1>7

(* Everything the invariant says of the path, short of where its head      *)
(* stands to the reader, survives a datagram's leaving it.                 *)
LEMMA ShorterPath ==
  ASSUME IInv, NEW i \in Reach, path' = Without(path, i),
         UNCHANGED <<trouble, taken, pushed, fan, lag, seq, index, sent, dropped>>
  PROVE  /\ path' \in Seq(Datagrams)
         /\ "inline" \in trouble' => Len(path') <= InlineDepth
         /\ \A j \in 1..Len(path') : path'[j].seq < seq'
         /\ InOrder => /\ \A j \in 1..Len(path') : /\ path'[j].frag < path'[j].count
                                                  /\ path'[j].index + path'[j].len <= index'
                       /\ \A j, k \in 1..Len(path') : j < k => Follows(path'[j], path'[k])
         /\ "slow" \notin trouble =>
              /\ \A j \in 1..Len(path') : path'[j].at = path'[j].index
              /\ \/ fan' = <<>> /\ index' = taken'
                 \/ /\ Len(fan') = 1 /\ fan'[1].at = index' /\ index' + fan'[1].len = taken'
                    /\ "inline" \in trouble' => Len(path') < InlineDepth
         /\ BlocksAccounted'
<1>1. /\ path' \in Seq(Datagrams) /\ Len(path') = Len(path) - 1 /\ Len(path) \in Nat \ {0}
      /\ \A j \in 1..Len(path') : \E k \in 1..Len(path) : path'[j] = path[k]
      /\ InOrder => \A j \in 1..Len(path') : j + 1 \in 2..Len(path) /\ path'[j] = path[j + 1]
  BY OffThePath
<1>2. InlineDepth \in Nat
  BY PumpConstants DEF PumpConstants
<1>3. "inline" \in trouble' => Len(path') <= InlineDepth
  BY <1>1, <1>2 DEF IInv, PumpTypeOK
<1>4. \A j \in 1..Len(path') : path'[j].seq < seq'
  BY <1>1 DEF IInv, Behind
<1>5. ASSUME InOrder, NEW j \in 1..Len(path')
      PROVE  path'[j].frag < path'[j].count /\ path'[j].index + path'[j].len <= index'
  BY <1>1, <1>5 DEF IInv, PathOrdered
<1>6. ASSUME InOrder, NEW j \in 1..Len(path'), NEW k \in 1..Len(path'), j < k
      PROVE  Follows(path'[j], path'[k])
  <2>1. /\ j + 1 \in 1..Len(path) /\ k + 1 \in 1..Len(path) /\ j + 1 < k + 1
        /\ path'[j] = path[j + 1] /\ path'[k] = path[k + 1]
    BY <1>1, <1>6
  <2>2. QED
    BY <1>6, <2>1 DEF IInv, PathOrdered
<1>7. ASSUME "slow" \notin trouble
      PROVE  /\ \A j \in 1..Len(path') : path'[j].at = path'[j].index
             /\ \/ fan' = <<>> /\ index' = taken'
                \/ /\ Len(fan') = 1 /\ fan'[1].at = index' /\ index' + fan'[1].len = taken'
                   /\ "inline" \in trouble' => Len(path') < InlineDepth
  <2>1. \A k \in 1..Len(path) : path[k].at = path[k].index
    BY <1>7 DEF IInv, InTime
  <2>2. \A j \in 1..Len(path') : path'[j].at = path'[j].index
    BY <1>1, <2>1
  <2>3. \/ fan = <<>> /\ index = taken
        \/ /\ Len(fan) = 1 /\ fan[1].at = index /\ index + fan[1].len = taken
           /\ "inline" \in trouble => Len(path) < InlineDepth
    BY <1>7 DEF IInv, InTime
  <2>4. Len(path) < InlineDepth => Len(path') < InlineDepth
    BY <1>1, <1>2
  <2>5. QED
    BY <2>2, <2>3, <2>4
<1>8. BlocksAccounted'
  BY DEF IInv, BlocksAccounted
<1>9. QED
  BY <1>1, <1>3, <1>4, <1>5, <1>6, <1>7, <1>8

LEMMA DeliverIInv == IInv /\ Deliver => IInv'
<1> SUFFICES ASSUME IInv, Deliver PROVE IInv'
  OBVIOUS
<1>1. PICK i \in Reach : /\ Receive(path[i]) /\ path' = Without(path, i)
                         /\ UNCHANGED <<trouble, taken, pushed, fan, lag, seq, index,
                                        sent, dropped, copies>>
  BY DEF Deliver, radio, ring, counters
<1>2. /\ path[i] \in Datagrams /\ path[i].seq < seq
      /\ InOrder => /\ i = 1 /\ path # <<>>
                    /\ \A j \in 1..Len(path') : j + 1 \in 2..Len(path) /\ path'[j] = path[j + 1]
  BY <1>1, OffThePath
<1>3. /\ DOMAIN parts' \subseteq 0..(seq - 1)
      /\ \A s \in DOMAIN parts' : parts'[s] \subseteq Nat
      /\ next' \in Nat \cup {None} /\ clock' \in Nat \cup {None}
      /\ drift' \in Int /\ Heard'
  BY <1>1, <1>2, PumpConstants, ReceiveTypes DEF IInv
<1>4. PumpTypeOK'
  <2>1. path' \in Seq(Datagrams) /\ ("inline" \in trouble' => Len(path') <= InlineDepth)
    BY <1>1, ShorterPath
  <2>2. QED
    BY <1>1, <1>3, <2>1 DEF IInv, PumpTypeOK
<1>5. Behind' /\ BlocksAccounted'
  <2>1. BlocksAccounted' /\ \A j \in 1..Len(path') : path'[j].seq < seq'
    BY <1>1, ShorterPath
  <2>2. QED
    BY <1>1, <1>3, <2>1 DEF Behind
<1>6. InOrder => /\ next' <= index
                 /\ \A j \in 1..Len(path') :
                      /\ next' <= path'[j].index
                      /\ path'[j].seq \in DOMAIN parts' =>
                           parts'[path'[j].seq] \subseteq 0..(path'[j].frag - 1)
                 /\ "slow" \notin trouble => clock' = next' /\ drift' = 0
  BY <1>1, <1>2, PumpConstants, ReceiveInOrder DEF IInv
<1>7. PathOrdered'
  <2>1. InOrder => /\ \A j \in 1..Len(path') : /\ path'[j].frag < path'[j].count
                                               /\ path'[j].index + path'[j].len <= index'
                   /\ \A j, k \in 1..Len(path') : j < k => Follows(path'[j], path'[k])
    BY <1>1, ShorterPath
  <2>2. InOrder' <=> InOrder
    BY <1>1 DEF InOrder
  <2>3. QED
    BY <1>1, <1>6, <2>1, <2>2 DEF PathOrdered
<1>8. InTime'
  <2>1. "slow" \notin trouble =>
          /\ \A j \in 1..Len(path') : path'[j].at = path'[j].index
          /\ \/ fan' = <<>> /\ index' = taken'
             \/ /\ Len(fan') = 1 /\ fan'[1].at = index' /\ index' + fan'[1].len = taken'
                /\ "inline" \in trouble' => Len(path') < InlineDepth
    BY <1>1, ShorterPath
  <2>2. "slow" \notin trouble => lag' = 0
    BY <1>1 DEF IInv, InTime
  <2>3. (InOrder' <=> InOrder) /\ trouble' = trouble
    BY <1>1 DEF InOrder
  <2>4. QED
    BY <1>6, <2>1, <2>2, <2>3 DEF InTime
<1>9. QED
  BY <1>3, <1>4, <1>5, <1>7, <1>8 DEF IInv

LEMMA DeliverCopyIInv == IInv /\ DeliverCopy => IInv'
<1> SUFFICES ASSUME IInv, DeliverCopy PROVE IInv'
  OBVIOUS
<1>1. PICK i \in Reach : /\ "shuffled" \in trouble /\ copies < MaxCopies
                         /\ Receive(path[i]) /\ copies' = copies + 1
                         /\ UNCHANGED <<trouble, taken, pushed, fan, lag, seq, index,
                                        sent, dropped, path>>
  BY DEF DeliverCopy, radio, ring, counters
<1>2. path[i] \in Datagrams /\ path[i].seq < seq
  <2>1. path \in Seq(Datagrams) /\ i \in 1..Len(path)
    BY LenProperties DEF IInv, PumpTypeOK, Reach
  <2>2. QED
    BY <2>1, ElementOfSeq DEF IInv, Behind
<1>3. /\ DOMAIN parts' \subseteq 0..(seq - 1)
      /\ \A s \in DOMAIN parts' : parts'[s] \subseteq Nat
      /\ next' \in Nat \cup {None} /\ clock' \in Nat \cup {None}
      /\ drift' \in Int /\ Heard'
  BY <1>1, <1>2, PumpConstants, ReceiveTypes DEF IInv
<1>4. PumpTypeOK'
  <2>1. copies' \in 0..MaxCopies
    BY <1>1, PumpConstants DEF IInv, PumpTypeOK, PumpConstants
  <2>2. QED
    BY <1>1, <1>3, <2>1 DEF IInv, PumpTypeOK
<1>5. Behind' /\ BlocksAccounted'
  BY <1>1, <1>3 DEF IInv, Behind, BlocksAccounted
<1>6. PathOrdered'
  BY <1>1 DEF PathOrdered, InOrder
<1>7. InTime'
  BY <1>1 DEF IInv, InTime, InOrder
<1>8. QED
  BY <1>3, <1>4, <1>5, <1>6, <1>7 DEF IInv

LEMMA LoseIInv == IInv /\ Lose => IInv'
<1> SUFFICES ASSUME IInv, Lose PROVE IInv'
  OBVIOUS
<1>1. PICK i \in Reach : /\ path' = Without(path, i)
                         /\ UNCHANGED <<trouble, taken, pushed, fan, lag, seq, index,
                                        sent, dropped, copies, parts, next, clock, drift>>
  BY DEF Lose, radio, ring, counters, reader
<1>2. InOrder => \A j \in 1..Len(path') : j + 1 \in 1..Len(path) /\ path'[j] = path[j + 1]
  <2>1. /\ InOrder => \A j \in 1..Len(path') : j + 1 \in 2..Len(path) /\ path'[j] = path[j + 1]
        /\ Len(path) \in Nat \ {0}
    BY <1>1, OffThePath
  <2>2. QED
    BY <2>1
<1>3. PumpTypeOK'
  <2>1. path' \in Seq(Datagrams) /\ ("inline" \in trouble' => Len(path') <= InlineDepth)
    BY <1>1, ShorterPath
  <2>2. QED
    BY <1>1, <2>1 DEF IInv, PumpTypeOK
<1>4. Behind' /\ BlocksAccounted'
  <2>1. BlocksAccounted' /\ \A j \in 1..Len(path') : path'[j].seq < seq'
    BY <1>1, ShorterPath
  <2>2. QED
    BY <1>1, <2>1 DEF IInv, Behind
<1>5. PathOrdered'
  <2>1. InOrder => /\ \A j \in 1..Len(path') : /\ path'[j].frag < path'[j].count
                                               /\ path'[j].index + path'[j].len <= index'
                   /\ \A j, k \in 1..Len(path') : j < k => Follows(path'[j], path'[k])
    BY <1>1, ShorterPath
  <2>2. InOrder => /\ next' <= index'
                   /\ \A j \in 1..Len(path') :
                        /\ next' <= path'[j].index
                        /\ path'[j].seq \in DOMAIN parts' =>
                             parts'[path'[j].seq] \subseteq 0..(path'[j].frag - 1)
    BY <1>1, <1>2 DEF IInv, PathOrdered
  <2>3. InOrder' <=> InOrder
    BY <1>1 DEF InOrder
  <2>4. QED
    BY <2>1, <2>2, <2>3 DEF PathOrdered
<1>6. InTime'
  <2>1. "slow" \notin trouble =>
          /\ \A j \in 1..Len(path') : path'[j].at = path'[j].index
          /\ \/ fan' = <<>> /\ index' = taken'
             \/ /\ Len(fan') = 1 /\ fan'[1].at = index' /\ index' + fan'[1].len = taken'
                /\ "inline" \in trouble' => Len(path') < InlineDepth
    BY <1>1, ShorterPath
  <2>2. "slow" \notin trouble => lag' = 0 /\ (InOrder' => clock' = next' /\ drift' = 0)
    BY <1>1 DEF IInv, InTime, InOrder
  <2>3. trouble' = trouble
    BY <1>1
  <2>4. QED
    BY <2>1, <2>2, <2>3 DEF InTime
<1>7. Heard'
  BY <1>1 DEF IInv, Heard
<1>8. QED
  BY <1>3, <1>4, <1>5, <1>6, <1>7 DEF IInv

LEMMA NextIInv == IInv /\ [PumpNext]_pumpVars => IInv'
<1> SUFFICES ASSUME IInv, [PumpNext]_pumpVars PROVE IInv'
  OBVIOUS
<1>1. CASE \E n \in Lens : Push(n)
  BY <1>1, PushIInv
<1>2. CASE Lagged
  BY <1>2, LaggedIInv
<1>3. CASE SendBlock
  BY <1>3, SendIInv
<1>4. CASE QueueFull
  BY <1>4, QueueFullIInv
<1>5. CASE Deliver
  BY <1>5, DeliverIInv
<1>6. CASE DeliverCopy
  BY <1>6, DeliverCopyIInv
<1>7. CASE Lose
  BY <1>7, LoseIInv
<1>8. CASE UNCHANGED pumpVars
  <2>1. UNCHANGED <<trouble, taken, pushed, fan, lag, seq, index, sent, dropped, path, copies,
                    parts, next, clock, drift>>
    BY <1>8 DEF pumpVars, radio, ring, counters, network, reader
  <2>2. PumpTypeOK' /\ Behind' /\ Heard' /\ BlocksAccounted'
    BY <2>1 DEF IInv, PumpTypeOK, Behind, Heard, BlocksAccounted
  <2>3. PathOrdered' /\ InTime'
    BY <2>1 DEF IInv, PathOrdered, InTime, InOrder
  <2>4. QED
    BY <2>2, <2>3 DEF IInv
<1>9. QED
  BY <1>1, <1>2, <1>3, <1>4, <1>5, <1>6, <1>7, <1>8 DEF PumpNext

-----------------------------------------------------------------------------
(* The theorems.                                                           *)

(* The invariant holds in every reachable state. *)
THEOREM Inductive == PumpSpec => []IInv
<1>1. PumpInit => IInv
  BY InitIInv
<1>2. IInv /\ [PumpNext]_pumpVars => IInv'
  BY NextIInv
<1>3. QED
  BY <1>1, <1>2, PTL DEF PumpSpec

(* Every variable keeps its type: the fan-out and the inline queue never   *)
(* hold more than FANOUT_DEPTH and INLINE_DEPTH.                           *)
THEOREM TypesKept == PumpSpec => []PumpTypeOK
<1>1. IInv => PumpTypeOK
  BY DEF IInv
<1>2. QED
  BY <1>1, Inductive, PTL

(* sent and dropped account for every block the radio pushed, whatever the *)
(* network does and however far behind the pump falls.                     *)
THEOREM EveryBlockAccounted == PumpSpec => []BlocksAccounted
<1>1. IInv => BlocksAccounted
  BY DEF IInv
<1>2. QED
  BY <1>1, Inductive, PTL

(* A reader on a path that keeps its order, fed by a pump that keeps up,   *)
(* puts every sample where the radio took it, whatever was lost between.   *)
THEOREM ReaderIsOnTime == PumpSpec => []ReaderOnTime
<1>1. IInv => ReaderOnTime
  BY DEF IInv, InTime, ReaderOnTime, TimebaseTrue
<1>2. QED
  BY <1>1, Inductive, PTL

(* What the reader is handed advances as the index on the wire does, and   *)
(* never back, on every path that keeps its order.                         *)
THEOREM IndexIsKept == PumpSpec => IndexKept
<1>1. IInv /\ [PumpNext]_pumpVars =>
        [InOrder /\ next # None => clock' - next' = clock - next /\ next' >= next]_pumpVars
  <2> SUFFICES ASSUME IInv, [PumpNext]_pumpVars, InOrder, next # None
               PROVE  clock' - next' = clock - next /\ next' >= next
    OBVIOUS
  <2>1. next \in Nat /\ clock \in Nat
    BY DEF IInv, PumpTypeOK, Heard, None
  <2>2. CASE UNCHANGED <<next, clock>>
    BY <2>1, <2>2
  <2>3. CASE Deliver
    <3>1. PICK i \in Reach : Receive(path[i]) /\ path' = Without(path, i)
      BY <2>3 DEF Deliver
    <3>2. i = 1 /\ path # <<>>
      BY <3>1, OffThePath
    <3>3. QED
      BY <3>1, <3>2, PumpConstants, ReceiveInOrder DEF IInv
  <2>4. CASE DeliverCopy
    BY <2>4 DEF DeliverCopy, InOrder
  <2>5. CASE (\E n \in Lens : Push(n)) \/ Lagged \/ SendBlock \/ QueueFull \/ Lose
    BY <2>2, <2>5 DEF Push, Lagged, SendBlock, QueueFull, Lose, reader, network
  <2>6. CASE UNCHANGED pumpVars
    BY <2>2, <2>6 DEF pumpVars, reader
  <2>7. QED
    BY <2>3, <2>4, <2>5, <2>6 DEF PumpNext
<1>2. QED
  BY <1>1, Inductive, PTL DEF PumpSpec, IndexKept

-----------------------------------------------------------------------------
(* The session.                                                            *)

(* What is known of the types beyond TypeOK: a pump is a record, and no    *)
(* message, and no reader, names a stream that has not been offered yet.   *)
PumpRecords ==
    [st : {"none", "new", "waiting", "running", "done"}, id : 0..MaxStreams, via : Transports,
     stop : BOOLEAN, dest : BOOLEAN, rts : Seq(Freqs)]

ConvPlaces == {"greet", "listen", "idle", "replacing", "subscribing",
               "dropping", "leaving", "closing", "closed"}
ClientPlaces == {"greeting", "asking", "reading", "ended", "failed", "gone"}

OwnerTyped ==
    /\ world \in Worlds
    /\ live \in 0..MaxStreams /\ made \in Ids /\ live <= made /\ dial \in [Ids -> Freqs]
    /\ retunes \in 0..MaxRetunes /\ news \in 0..MaxNews
    /\ chg \in Seq({"Set", "Stream"})

ServerTyped ==
    /\ conv \in ConvPlaces /\ sub \in {0} \cup Gens /\ asked \in Transports
    /\ pumps \in [Gens -> PumpRecords]
    /\ expects \in {0} \cup Gens /\ early \in BOOLEAN /\ silent \in 0..3

WireTyped ==
    /\ up \in Seq(Requests) /\ down \in Seq(Messages)
    /\ inl \in BOOLEAN /\ air \in BOOLEAN /\ punch \in BOOLEAN

ClientTyped ==
    /\ cst \in ClientPlaces
    /\ info \in [id : 0..MaxStreams, hz : Freqs \cup {NoHz}]
    /\ via \in Transports
    /\ armed \in BOOLEAN /\ heard \in BOOLEAN /\ stalled \in BOOLEAN

Typed == OwnerTyped /\ ServerTyped /\ WireTyped /\ ClientTyped

NoNew(d, n) == \A i \in 1..Len(d) : d[i].id <= n
NamesNoNew == info.id <= made /\ NoNew(down, made)

-----------------------------------------------------------------------------
(* The frames beyond the capacity of the queue are those of tasks that wait *)
(* for room: one of a pump, and what converse sends in one go.             *)
WaitsIn(d, kinds) == \E i \in 1..Len(d) : i > OutDepth /\ d[i].kind \in kinds

OneOfAPump(d) ==
    \A i, j \in 1..Len(d) :
        i > OutDepth /\ j > OutDepth /\ d[i].kind = "TUNED" /\ d[j].kind = "TUNED" => i = j

TwoOfConverse(d) ==
    \A i, j, k \in 1..Len(d) :
        i > OutDepth /\ i < j /\ j < k => "TUNED" \in {d[i].kind, d[j].kind, d[k].kind}

FewWait ==
    /\ OneOfAPump(down) /\ TwoOfConverse(down)
    /\ conv \in {"dropping", "replacing", "leaving"} => ~WaitsIn(down, Kinds \ {"TUNED"})
    /\ conv = "greet" => down = <<>>

-----------------------------------------------------------------------------
(* There is one subscribe over datagrams and after it one over the control *)
(* connection, at most, each first on its way up, then with converse, then *)
(* a pump: the first is pump 1 and the second pump 2.                      *)
Asks(u, t) == \E i \in 1..Len(u) : u[i].kind = "SUBSCRIBE" /\ u[i].via = t
EachOnce(u) ==
    \A i, j \in 1..Len(u) :
        u[i].kind = "SUBSCRIBE" /\ u[j].kind = "SUBSCRIBE" /\ u[i].via = u[j].via => i = j
Says(d, kind) == \E i \in 1..Len(d) : d[i].kind = kind

Served(t) == conv \in {"replacing", "subscribing"} /\ asked = t
Spawned(g) == pumps[g].st # "none"

FirstAsk ==
    /\ Spawned(1) => pumps[1].via = "udp" /\ ~Asks(up, "udp") /\ ~Served("udp")
    /\ Served("udp") => conv = "subscribing" /\ ~Asks(up, "udp")

SecondAsk ==
    /\ Spawned(2) => pumps[2].via = "tcp" /\ Spawned(1) /\ ~Asks(up, "tcp") /\ ~Served("tcp")
    /\ Served("tcp") => ~Asks(up, "tcp") /\ Spawned(1)
    /\ Asks(up, "tcp") => ~Asks(up, "udp") /\ (Served("udp") \/ Spawned(1))
    /\ via = "udp" => ~Asks(up, "tcp") /\ ~Served("tcp") /\ ~Spawned(2)

Greeting ==
    /\ conv = "greet" => cst = "greeting"
    /\ cst = "greeting" =>
         /\ \A t \in Transports : ~Asks(up, t) /\ ~Served(t)
         /\ ~Spawned(1)
         /\ ~Says(down, "SUBSCRIBED")
         /\ info.id = 0
         /\ conv = "greet" \/ (down # <<>> /\ Head(down).kind = "WELCOME")
    /\ cst \in {"greeting", "asking"} => via = "udp" /\ ~armed

Answered ==
    /\ armed => via = "udp"
    /\ cst = "asking" /\ Says(down, "SUBSCRIBED") => ~Asks(up, "udp") /\ (Served("udp") \/ Spawned(1))
    /\ cst = "reading" => ~Asks(up, "udp") /\ (Served("udp") \/ Spawned(1))
    /\ cst \in {"asking", "reading"} => info.id # 0

Turns == EachOnce(up) /\ FirstAsk /\ SecondAsk /\ Greeting /\ Answered

-----------------------------------------------------------------------------
(* A pump that is alive is the one converse holds the switch of, unless    *)
(* the connection was left on an error: then it is the only one still.     *)
SwitchHeld ==
    /\ sub # 0 => Spawned(sub)
    /\ Spawned(2) => sub # 1
    /\ \A g \in Gens : Alive(g) => g = sub \/ conv = "closed"
    /\ conv \in {"greet", "listen", "subscribing", "closed"} => sub = 0
    /\ conv \in {"replacing", "dropping"} => sub # 0
    /\ \A g \in Gens : Spawned(g) => pumps[g].id = info.id
    /\ \A g \in Gens : ~Subscribed(g) => pumps[g].rts = <<>>

(* A block on its way, and one that was heard, came from the last pump     *)
(* there will be.                                                          *)
LastPump ==
    /\ air => pumps[1].st \in {"running", "done"}
    /\ inl => pumps[2].st \in {"running", "done"}
    /\ heard => /\ cst \notin {"greeting", "asking"} /\ ~armed
                /\ \A t \in Transports : ~Asks(up, t) /\ ~Served(t)
                /\ Spawned(1)
                /\ sub # 0 => pumps[sub].st # "new"

-----------------------------------------------------------------------------
(* Where the dial stands still from the welcome to the first block, all    *)
(* that is said until then says where it stands; after it, the last word   *)
(* on its way does, and behind it the last word the pump has yet to say.   *)
Still == world \notin {"moves", "drags"}
Labels(m, id) == m.kind \in {"TUNED", "STREAM_CHANGED"} /\ m.id = id

Truthful(d, at) ==
    \A i \in 1..Len(d) :
        d[i].kind \in {"TUNED", "STREAM_CHANGED", "WELCOME"} /\ d[i].id # 0 => d[i].hz = at[d[i].id]

Unmoved ==
    Still /\ ~heard /\ conv # "greet" =>
        /\ \A g \in Gens : pumps[g].rts = <<>>
        /\ Truthful(down, dial)
        /\ info.id # 0 => info.hz = dial[info.id]

LeavesLabel(d, id, was, hz) ==
    /\ \A i \in 1..Len(d) :
         Labels(d[i], id) /\ (\A j \in 1..Len(d) : j > i => ~Labels(d[j], id)) => d[i].hz = hz
    /\ (\A i \in 1..Len(d) : ~Labels(d[i], id)) => was = hz

LastWord ==
    Still /\ heard /\ cst = "reading" /\ live = info.id /\ sub # 0 /\ Alive(sub) =>
        IF pumps[sub].rts # <<>> THEN pumps[sub].rts[Len(pumps[sub].rts)] = dial[info.id]
        ELSE LeavesLabel(down, info.id, info.hz, dial[info.id])

SInv == /\ Typed /\ NamesNoNew /\ FewWait /\ Turns /\ SwitchHeld /\ OnePump
        /\ LastPump /\ Unmoved /\ LastWord

-----------------------------------------------------------------------------
(* Sequences: what the wire's queues do.                                   *)

(* Two sequences put together, item by item. *)
LEMMA Joined ==
    ASSUME NEW S, NEW d \in Seq(S), NEW m \in Seq(S)
    PROVE  /\ d \o m \in Seq(S) /\ Len(d \o m) = Len(d) + Len(m)
           /\ \A i \in 1..Len(d) : (d \o m)[i] = d[i]
           /\ \A i \in 1..Len(m) : (d \o m)[Len(d) + i] = m[i]
           /\ d # <<>> => d \o m # <<>> /\ Head(d \o m) = Head(d)
<1>1. /\ d \o m \in Seq(S) /\ Len(d \o m) = Len(d) + Len(m)
      /\ Len(d) \in Nat /\ Len(m) \in Nat
      /\ \A i \in 1..(Len(d) + Len(m)) :
            (d \o m)[i] = IF i <= Len(d) THEN d[i] ELSE m[i - Len(d)]
  BY ConcatProperties, LenProperties
<1>2. \A i \in 1..Len(d) : (d \o m)[i] = d[i]
  BY <1>1
<1>3. \A i \in 1..Len(m) : (d \o m)[Len(d) + i] = m[i]
  <2>1. TAKE i \in 1..Len(m)
  <2>2. /\ Len(d) + i \in 1..(Len(d) + Len(m)) /\ ~(Len(d) + i <= Len(d))
        /\ (Len(d) + i) - Len(d) = i
    BY <1>1
  <2> QED BY <1>1, <2>2
<1>4. ASSUME d # <<>> PROVE d \o m # <<>> /\ Head(d \o m) = Head(d)
  <2>1. Len(d) > 0 /\ Head(d) = d[1]
    BY <1>1, <1>4, EmptySeq, HeadTailProperties
  <2>2. d \o m # <<>>
    BY <1>1, <2>1
  <2> QED BY <1>1, <1>2, <2>1, <2>2, HeadTailProperties
<1> QED BY <1>1, <1>2, <1>3, <1>4

(* A sequence without its first item, item by item. *)
LEMMA Popped ==
    ASSUME NEW S, NEW d \in Seq(S), d # <<>>
    PROVE  /\ Tail(d) \in Seq(S) /\ Len(Tail(d)) = Len(d) - 1 /\ Len(d) \in Nat /\ Len(d) > 0
           /\ Head(d) = d[1] /\ Head(d) \in S
           /\ \A i \in 1..Len(Tail(d)) : Tail(d)[i] = d[i + 1] /\ i + 1 \in 1..Len(d)
           /\ \A i \in 2..Len(d) : d[i] = Tail(d)[i - 1] /\ i - 1 \in 1..Len(Tail(d))
<1>1. /\ Tail(d) \in Seq(S) /\ Len(Tail(d)) = Len(d) - 1 /\ Head(d) = d[1]
      /\ \A i \in 1..Len(Tail(d)) : Tail(d)[i] = d[i + 1]
      /\ Len(d) \in Nat /\ Len(d) > 0
  BY HeadTailProperties, LenProperties, EmptySeq
<1>2. d[1] \in S
  BY <1>1, ElementOfSeq
<1>3. \A i \in 2..Len(d) : d[i] = Tail(d)[i - 1] /\ i - 1 \in 1..Len(Tail(d))
  <2>1. TAKE i \in 2..Len(d)
  <2>2. i - 1 \in 1..Len(Tail(d)) /\ (i - 1) + 1 = i
    BY <1>1
  <2> QED BY <1>1, <2>2
<1> QED BY <1>1, <1>2, <1>3

(* A sequence with one item more, item by item. *)
LEMMA Pushed1 ==
    ASSUME NEW S, NEW d \in Seq(S), NEW m \in S
    PROVE  /\ Append(d, m) \in Seq(S) /\ Len(Append(d, m)) = Len(d) + 1 /\ Len(d) \in Nat
           /\ \A i \in 1..Len(d) : Append(d, m)[i] = d[i]
           /\ Append(d, m)[Len(d) + 1] = m
BY AppendProperties, LenProperties

\* An answer of one frame, and of two.
(* The sequences of no, one and two frames that senders put in the queue. *)
LEMMA Frames ==
    ASSUME NEW S, NEW a \in S, NEW b \in S
    PROVE  /\ <<>> \in Seq(S) /\ Len(<<>>) = 0
           /\ <<a>> \in Seq(S) /\ Len(<<a>>) = 1 /\ <<a>>[1] = a
           /\ <<a, b>> \in Seq(S) /\ Len(<<a, b>>) = 2 /\ <<a, b>>[1] = a /\ <<a, b>>[2] = b
OBVIOUS

-----------------------------------------------------------------------------
(* Types.                                                                  *)

(* A frame about a stream is a message. *)
LEMMA AboutTyped ==
    ASSUME NEW kind \in Kinds, NEW id \in 0..MaxStreams
    PROVE  About(kind, id) \in Messages /\ About(kind, id).kind = kind /\ About(kind, id).id = id
BY DEF About, Said, Messages

(* A frame that names a frequency is a message. *)
LEMMA SaidTyped ==
    ASSUME NEW kind \in Kinds, NEW id \in 0..MaxStreams, NEW hz \in Freqs
    PROVE  /\ Said(kind, id, hz) \in Messages /\ Said(kind, id, hz).kind = kind
           /\ Said(kind, id, hz).id = id /\ Said(kind, id, hz).hz = hz
BY DEF Said, Messages

(* What the server says of the stream is where its dial stands. *)
LEMMA DescTyped ==
    ASSUME OwnerTyped, NEW kind \in Kinds
    PROVE  /\ Desc(kind) \in Messages /\ Desc(kind).kind = kind /\ Desc(kind).id = live
           /\ live # 0 => Desc(kind).hz = dial[live]
<1>1. live \in 0..MaxStreams /\ (live # 0 => live \in Ids) /\ 0 \in 0..MaxStreams
  BY SessionConstants DEF OwnerTyped, Ids
<1>2. live # 0 => dial[live] \in Freqs
  BY <1>1 DEF OwnerTyped
<1> QED BY <1>1, <1>2, AboutTyped, SaidTyped DEF Desc

(* The kinds of message, one by one. *)
LEMMA KindsKnown ==
    {"WELCOME", "SUBSCRIBED", "UNSUBSCRIBED", "STREAMS", "STREAM_CHANGED",
     "TUNED", "ERROR", "PING", "PONG"} \subseteq Kinds
BY DEF Kinds

\* The pump a subscribe starts: the first that was not started yet.
(* Pump 1 is started first and pump 2 after it. *)
LEMMA FreshPump ==
    ASSUME ServerTyped
    PROVE  /\ ~Spawned(1) => Fresh = 1
           /\ Spawned(1) /\ ~Spawned(2) => Fresh = 2
<1> DEFINE P(g) == pumps[g].st = "none" /\ \A h \in 1..(g - 1) : pumps[h].st # "none"
<1>1. Fresh = CHOOSE g \in Gens : P(g)
  BY DEF Fresh
<1>2. ASSUME ~Spawned(1) PROVE Fresh = 1
  <2>1. P(1) /\ ~P(2) /\ 1 \in Gens
    BY <1>2 DEF Spawned, Gens
  <2>2. \A g \in Gens : P(g) => g = 1
    BY <2>1 DEF Gens
  <2> HIDE DEF P
  <2> QED BY <1>1, <2>1, <2>2
<1>3. ASSUME Spawned(1), ~Spawned(2) PROVE Fresh = 2
  <2>1. P(2) /\ ~P(1) /\ 2 \in Gens
    BY <1>3 DEF Spawned, Gens
  <2>2. \A g \in Gens : P(g) => g = 2
    BY <2>1 DEF Gens
  <2> HIDE DEF P
  <2> QED BY <1>1, <2>1, <2>2
<1> QED BY <1>2, <1>3

(* What the client asks is a request. *)
LEMMA AskTyped ==
    ASSUME WireTyped, NEW t \in Transports,
           NEW kind \in {"SUBSCRIBE", "UNSUBSCRIBE", "PING", "torn", "EOF"}
    PROVE  /\ [kind |-> kind, via |-> t] \in Requests
           /\ Ask(kind, t) \in Seq(Requests)
<1>1. [kind |-> kind, via |-> t] \in Requests
  BY DEF Requests
<1> QED BY <1>1, Pushed1 DEF Ask, WireTyped

\* A switch turned, as a table of pumps.
(* A pump told to stop is otherwise as it was. *)
LEMMA StopTyped ==
    ASSUME ServerTyped
    PROVE  /\ \A g \in Gens : Stop(g) \in [Gens -> PumpRecords]
           /\ StopAny \in [Gens -> PumpRecords]
           /\ \A g, h \in Gens : Stop(g)[h].st = pumps[h].st /\ Stop(g)[h].rts = pumps[h].rts
                                 /\ Stop(g)[h].id = pumps[h].id /\ Stop(g)[h].via = pumps[h].via
           /\ \A h \in Gens : StopAny[h].st = pumps[h].st /\ StopAny[h].rts = pumps[h].rts
                              /\ StopAny[h].id = pumps[h].id /\ StopAny[h].via = pumps[h].via
<1>1. pumps \in [Gens -> PumpRecords]
  BY DEF ServerTyped
<1>2. \A g \in Gens : Stop(g) \in [Gens -> PumpRecords]
  BY <1>1 DEF Stop, PumpRecords
<1>3. \A g, h \in Gens : Stop(g)[h].st = pumps[h].st /\ Stop(g)[h].rts = pumps[h].rts
                         /\ Stop(g)[h].id = pumps[h].id /\ Stop(g)[h].via = pumps[h].via
  BY <1>1 DEF Stop, PumpRecords
<1>4. sub = 0 \/ sub \in Gens
  BY DEF ServerTyped
<1> QED BY <1>1, <1>2, <1>3, <1>4 DEF StopAny

(* What is sent keeps the queue a sequence of messages. *)
LEMMA SendTyped ==
    ASSUME WireTyped, NEW msgs \in Seq(Messages), Send(msgs)
    PROVE  down' \in Seq(Messages)
BY Joined DEF Send, WireTyped

(* What the owner announces keeps the receiver of changes typed. *)
LEMMA ToldTyped ==
    ASSUME OwnerTyped, NEW change \in {"Set", "Stream"}, Told(change)
    PROVE  chg' \in Seq({"Set", "Stream"})
BY Pushed1 DEF Told, OwnerTyped

(* Every step keeps the types, part by part of the system. *)
LEMMA OwnerTypes == ASSUME Typed, Owner PROVE Typed'
<1> USE DEF Typed
<1>1. ASSUME NEW hz \in Freqs, Retuned(hz) PROVE Typed'
  <2>1. live \in Ids
    BY <1>1, SessionConstants DEF Retuned, OwnerTyped, Ids
  <2>2. dial' \in [Ids -> Freqs] /\ retunes' \in 0..MaxRetunes
    BY <1>1, <2>1, SessionConstants DEF Retuned, OwnerTyped
  <2>3. pumps' \in [Gens -> PumpRecords]
    <3>1. \A g \in Gens : [pumps[g] EXCEPT !.rts = Append(@, hz)] \in PumpRecords
      <4>1. TAKE g \in Gens
      <4>2. pumps[g] \in PumpRecords
        BY DEF ServerTyped
      <4>3. Append(pumps[g].rts, hz) \in Seq(Freqs)
        BY <4>2, Pushed1 DEF PumpRecords
      <4> QED BY <4>2, <4>3 DEF PumpRecords
    <3> QED BY <1>1, <3>1 DEF Retuned, ServerTyped
  <2>4. OwnerTyped'
    BY <1>1, <2>2 DEF Retuned, OwnerTyped
  <2>5. ServerTyped'
    BY <1>1, <2>3 DEF Retuned, ServerTyped, table
  <2> QED BY <1>1, <2>4, <2>5 DEF Retuned, WireTyped, ClientTyped, wire, data, client
<1>2. ASSUME NEW hz \in Freqs, AddStream(hz) PROVE Typed'
  <2>1. made + 1 \in Ids /\ live' = made + 1 /\ made' = made + 1
    BY <1>2, SessionConstants DEF AddStream, OwnerTyped, Ids
  <2>2. dial' \in [Ids -> Freqs]
    BY <1>2, <2>1 DEF AddStream, OwnerTyped
  <2>3. chg' \in Seq({"Set", "Stream"})
    BY <1>2, ToldTyped DEF AddStream
  <2>4. OwnerTyped'
    BY <1>2, <2>1, <2>2, <2>3, SessionConstants DEF AddStream, OwnerTyped, Ids
  <2> QED BY <1>2, <2>4 DEF AddStream, ServerTyped, WireTyped, ClientTyped, table, wire, data,
       client
<1>3. ASSUME SetSettings PROVE Typed'
  <2>1. chg' \in Seq({"Set", "Stream"})
    BY <1>3, ToldTyped DEF SetSettings
  <2>2. OwnerTyped'
    BY <1>3, <2>1, SessionConstants DEF SetSettings, OwnerTyped
  <2> QED BY <1>3, <2>2 DEF SetSettings, ServerTyped, WireTyped, ClientTyped, table, wire, data,
       client
<1>4. ASSUME RemoveStream PROVE Typed'
  <2>1. chg' \in Seq({"Set", "Stream"})
    BY <1>4, ToldTyped DEF RemoveStream
  <2>2. OwnerTyped'
    BY <1>4, <2>1, SessionConstants DEF RemoveStream, OwnerTyped, Ids
  <2> QED BY <1>4, <2>2 DEF RemoveStream, ServerTyped, WireTyped, ClientTyped, table, wire, data,
       client
<1> QED BY <1>1, <1>2, <1>3, <1>4 DEF Owner

\* Where a subscribe stands, and the pump it will start.
(* A subscribe at the head of the requests is one of them. *)
LEMMA HeadAsks ==
    ASSUME WireTyped, up # <<>>, Head(up).kind = "SUBSCRIBE"
    PROVE  Asks(up, Head(up).via) /\ Head(up).via \in Transports
<1>1. Head(up) \in Requests /\ up[1] = Head(up) /\ 1 \in 1..Len(up)
  BY Popped DEF WireTyped
<1> QED BY <1>1 DEF Asks, Requests

(* The pump a subscribe leads to, by its transport. *)
LEMMA FreshFor ==
    ASSUME SInv
    PROVE  /\ Asks(up, "udp") \/ Served("udp") => Fresh = 1 /\ ~Spawned(1) /\ ~Spawned(2)
           /\ Served("tcp") => Fresh = 2 /\ Spawned(1) /\ ~Spawned(2)
BY FreshPump DEF SInv, Typed, Turns, FirstAsk, SecondAsk

(* Where converse serves a subscribe, no pump was started for it yet. *)
LEMMA ServedAs ==
    ASSUME SInv
    PROVE  /\ conv = "subscribing" =>
                \/ asked = "udp" /\ Served("udp") /\ Fresh = 1 /\ ~Spawned(1) /\ ~Spawned(2)
                \/ asked = "tcp" /\ Served("tcp") /\ Fresh = 2 /\ Spawned(1) /\ ~Spawned(2)
           /\ conv = "replacing" =>
                asked = "tcp" /\ Served("tcp") /\ Fresh = 2 /\ Spawned(1) /\ ~Spawned(2)
<1>1. asked = "udp" \/ asked = "tcp"
  BY DEF SInv, Typed, ServerTyped, Transports
<1>2. Served("udp") => conv = "subscribing"
  BY DEF SInv, Turns, FirstAsk
<1>3. conv = "subscribing" \/ conv = "replacing" => Served(asked)
  BY DEF Served
<1> QED BY <1>1, <1>2, <1>3, FreshFor

LEMMA ConverseTypes == ASSUME SInv, Converse \/ Tear PROVE Typed'
<1> USE DEF Typed
<1>ty. OwnerTyped /\ ServerTyped /\ WireTyped /\ ClientTyped
  BY DEF SInv
<1>id. live \in 0..MaxStreams /\ 0 \in 0..MaxStreams /\ info.id \in 0..MaxStreams
  BY <1>ty, SessionConstants DEF OwnerTyped, ClientTyped
<1>kn. \A k \in {"WELCOME", "STREAM_CHANGED"} :
         Desc(k) \in Messages /\ <<Desc(k)>> \in Seq(Messages)
  BY <1>ty, DescTyped, KindsKnown, Frames
<1>ab. \A k \in {"STREAMS", "SUBSCRIBED", "UNSUBSCRIBED", "ERROR", "PING", "PONG"} :
         \A i \in 0..MaxStreams : About(k, i) \in Messages /\ <<About(k, i)>> \in Seq(Messages)
  BY AboutTyped, KindsKnown, Frames
<1>su. sub \in Gens \/ sub = 0
  BY <1>ty DEF ServerTyped
<1>tl. up # <<>> => Tail(up) \in Seq(Requests) /\ Head(up) \in Requests
  BY <1>ty, Popped DEF WireTyped
<1>cg. chg # <<>> => Tail(chg) \in Seq({"Set", "Stream"})
  BY <1>ty, Popped DEF OwnerTyped
<1>1. ASSUME Welcome PROVE Typed'
  <2>1. down' \in Seq(Messages)
    BY <1>1, <1>ty, <1>kn, SendTyped DEF Welcome
  <2> QED BY <1>1, <1>ty, <2>1 DEF Welcome, OwnerTyped, ServerTyped, WireTyped, ClientTyped,
       ConvPlaces, owner, table, data, client
<1>2. ASSUME Listen PROVE Typed'
  BY <1>2, <1>ty DEF Listen, OwnerTyped, ServerTyped, WireTyped, ClientTyped, ConvPlaces,
                     owner, table, wire, data, client
<1>3. ASSUME PassOnChange PROVE Typed'
  <2>1. down' \in Seq(Messages)
    <3>1. <<>> \in Seq(Messages)
      BY <1>kn, Frames
    <3> QED BY <1>3, <1>ty, <1>kn, <3>1, SendTyped DEF PassOnChange
  <2> QED BY <1>3, <1>ty, <1>cg, <2>1 DEF PassOnChange, OwnerTyped, ServerTyped, WireTyped,
       ClientTyped, owner, table, data, client
<1>4. ASSUME PassOnSet PROVE Typed'
  <2>1. conv' \in ConvPlaces /\ pumps' \in [Gens -> PumpRecords] /\ down' \in Seq(Messages)
    <3>1. CASE sub # 0 /\ pumps[sub].id # live
      <4>1. conv' = "dropping" /\ pumps' = Stop(sub) /\ down' = down
        BY <1>4, <3>1 DEF PassOnSet
      <4> QED BY <3>1, <4>1, <1>ty, <1>su, StopTyped DEF ConvPlaces, WireTyped
    <3>2. CASE ~(sub # 0 /\ pumps[sub].id # live)
      <4>1. Send(<<About("STREAMS", 0)>>) /\ conv' = conv /\ pumps' = pumps
        BY <1>4, <3>2 DEF PassOnSet
      <4> QED BY <4>1, <1>ty, <1>ab, <1>id, SendTyped DEF ServerTyped
    <3> QED BY <3>1, <3>2
  <2> QED BY <1>4, <1>ty, <1>cg, <2>1 DEF PassOnSet, OwnerTyped, ServerTyped, WireTyped,
       ClientTyped, owner, table, data, client
<1>5. ASSUME Dropped PROVE Typed'
  <2>1. sub \in Gens
    BY <1>5, <1>su DEF Dropped, SInv, SwitchHeld
  <2>2. pumps[sub].id \in 0..MaxStreams
    BY <1>ty, <2>1 DEF ServerTyped, PumpRecords
  <2>3. <<About("UNSUBSCRIBED", pumps[sub].id), About("STREAMS", 0)>> \in Seq(Messages)
    BY <1>ab, <1>id, <2>2, Frames
  <2>4. down' \in Seq(Messages)
    BY <1>5, <1>ty, <2>3, SendTyped DEF Dropped
  <2> QED BY <1>5, <1>ty, <2>4 DEF Dropped, OwnerTyped, ServerTyped, WireTyped, ClientTyped,
       ConvPlaces, owner, table, data, client
<1>6. ASSUME TakeSubscribe PROVE Typed'
  <2> DEFINE r == Head(up)
  <2>1. r \in Requests /\ r.via \in Transports /\ Asks(up, r.via) /\ up' = Tail(up)
    BY <1>6, <1>ty, <1>tl, HeadAsks DEF TakeSubscribe
  <2>2. CASE live # info.id
    <3>1. Send(<<About("ERROR", 0)>>) /\ UNCHANGED <<conv, asked, pumps, expects>>
      BY <1>6, <2>2 DEF TakeSubscribe
    <3>2. down' \in Seq(Messages)
      BY <1>ty, <1>ab, <1>id, <3>1, SendTyped
    <3> QED BY <1>6, <1>ty, <1>tl, <3>1, <3>2 DEF TakeSubscribe, OwnerTyped, ServerTyped, WireTyped,
                                                  ClientTyped, owner, data, client
  <2>3. CASE live = info.id /\ sub = 0
    <3>1. Accept(r.via) /\ pumps' = pumps
      BY <1>6, <2>3 DEF TakeSubscribe
    <3>2. down' \in Seq(Messages)
      BY <1>ty, <1>ab, <1>id, <3>1, SendTyped DEF Accept
    <3>3. expects' \in {0} \cup Gens
      BY <1>ty, <2>1, <3>1, FreshFor DEF Accept, ServerTyped, Gens
    <3> QED BY <1>6, <1>ty, <1>tl, <2>1, <3>1, <3>2, <3>3 DEF TakeSubscribe, Accept, OwnerTyped,
         ServerTyped, WireTyped, ClientTyped, ConvPlaces, owner, data, client
  <2>4. CASE live = info.id /\ sub # 0
    <3>1. conv' = "replacing" /\ asked' = r.via /\ pumps' = Stop(sub) /\ UNCHANGED <<down, expects>>
      BY <1>6, <2>4 DEF TakeSubscribe
    <3>2. pumps' \in [Gens -> PumpRecords]
      BY <1>ty, <1>su, <2>4, <3>1, StopTyped
    <3> QED BY <1>6, <1>ty, <1>tl, <2>1, <3>1, <3>2 DEF TakeSubscribe, OwnerTyped, ServerTyped,
                        WireTyped, ClientTyped, ConvPlaces, owner, data, client
  <2> QED BY <2>2, <2>3, <2>4
<1>7. ASSUME Replaced PROVE Typed'
  <2>1. asked \in Transports /\ Fresh \in Gens
    BY <1>7, ServedAs DEF Replaced, Transports, Gens
  <2>2. down' \in Seq(Messages)
    BY <1>7, <1>ty, <1>ab, <1>id, SendTyped DEF Replaced, Accept
  <2> QED BY <1>7, <1>ty, <2>1, <2>2 DEF Replaced, Accept, OwnerTyped, ServerTyped, WireTyped,
       ClientTyped, ConvPlaces, owner, data, client
<1>8. ASSUME Spawn PROVE Typed'
  <2> DEFINE p == [Idle EXCEPT !.st = "new", !.id = info.id, !.via = asked,
                               !.dest = asked = "tcp" \/ early]
  <2>1. asked \in Transports /\ Fresh \in Gens
    BY <1>8, ServedAs DEF Spawn, Transports, Gens
  <2>2. p \in PumpRecords
    <3>1. <<>> \in Seq(Freqs) /\ early \in BOOLEAN
      BY <1>ty, EmptySeq DEF ServerTyped
    <3> QED BY <1>id, <2>1, <3>1 DEF Idle, PumpRecords, Transports
  <2>3. pumps' \in [Gens -> PumpRecords]
    BY <1>8, <1>ty, <2>1, <2>2 DEF Spawn, ServerTyped
  <2> QED BY <1>8, <1>ty, <2>1, <2>3 DEF Spawn, OwnerTyped, ServerTyped, WireTyped, ClientTyped,
                                         ConvPlaces, owner, wire, data, client
<1>9. ASSUME TakeUnsubscribe \/ TakeEof PROVE Typed'
  BY <1>9, <1>ty, <1>tl, StopTyped DEF TakeUnsubscribe, TakeEof, OwnerTyped, ServerTyped, WireTyped,
                          ClientTyped, ConvPlaces, owner, table, data, client
<1>10. ASSUME TakeTorn \/ IdleTimeout \/ Close PROVE Typed'
  BY <1>10, <1>ty, <1>tl, StopTyped DEF TakeTorn, IdleTimeout, Close, OwnerTyped, ServerTyped,
       WireTyped, ClientTyped, ConvPlaces, owner, table, wire, data, client
<1>11. ASSUME Left PROVE Typed'
  <2>1. down' \in Seq(Messages)
    BY <1>11, <1>ty, <1>ab, <1>id, SendTyped DEF Left
  <2> QED BY <1>11, <1>ty, <2>1 DEF Left, OwnerTyped, ServerTyped, WireTyped, ClientTyped,
       ConvPlaces, owner, table, data, client
<1>12. ASSUME TakePing \/ Ping PROVE Typed'
  <2>1. down' \in Seq(Messages)
    BY <1>12, <1>ty, <1>ab, <1>id, SendTyped DEF TakePing, Ping
  <2>2. silent' \in 0..3 /\ up' \in Seq(Requests)
    <3>1. CASE TakePing
      BY <3>1, <1>ty, <1>tl DEF TakePing, ServerTyped
    <3>2. CASE Ping
      BY <3>2, <1>ty DEF Ping, ServerTyped, WireTyped
    <3> QED BY <1>12, <3>1, <3>2
  <2>3. OwnerTyped' /\ ServerTyped'
    BY <1>12, <1>ty, <2>2 DEF TakePing, Ping, OwnerTyped, ServerTyped, owner, table
  <2> QED BY <1>12, <1>ty, <2>1, <2>2, <2>3 DEF TakePing, Ping, WireTyped, ClientTyped, data, client
<1>13. ASSUME Tear PROVE Typed'
  <2>1. down' \in Seq(Messages)
    BY <1>13, <1>ty, <1>ab, <1>id, SendTyped DEF Tear
  <2>2. up' \in Seq(Requests)
    <3>1. up' = [up EXCEPT ![1] = [up[1] EXCEPT !.kind = "torn"]]
      BY <1>13 DEF Tear
    <3>2. up[1] \in Requests /\ 1 \in 1..Len(up)
      BY <1>13, <1>ty, Popped DEF Tear, WireTyped
    <3>3. [up[1] EXCEPT !.kind = "torn"] \in Requests
      BY <3>2 DEF Requests
    <3> QED BY <1>ty, <3>1, <3>2, <3>3, ExceptSeq DEF WireTyped
  <2> QED BY <1>13, <1>ty, <2>1, <2>2 DEF Tear, OwnerTyped, ServerTyped, WireTyped, ClientTyped,
                                          owner, table, data, client
<1> QED BY <1>1, <1>2, <1>3, <1>4, <1>5, <1>6, <1>7, <1>8, <1>9, <1>10, <1>11, <1>12,
     <1>13 DEF Converse

PumpStep(g) == Pump(g) \/ Tell(g) \/ Sample(g)

LEMMA PumpTypes == ASSUME SInv, (\E g \in Gens : PumpStep(g)) \/ PunchArrives PROVE Typed'
<1> USE DEF Typed
<1>ty. OwnerTyped /\ ServerTyped /\ WireTyped /\ ClientTyped
  BY DEF SInv
<1>pu. \A g \in Gens : pumps[g] \in PumpRecords
  BY <1>ty DEF ServerTyped
<1>1. ASSUME NEW g \in Gens, Begin(g) \/ Punched(g) \/ Finish(g) PROVE Typed'
  <2>1. pumps' \in [Gens -> PumpRecords] /\ expects' \in {0} \cup Gens
    BY <1>1, <1>ty, <1>pu DEF Begin, Punched, Finish, ServerTyped, PumpRecords, table
  <2> QED BY <1>1, <1>ty, <2>1 DEF Begin, Punched, Finish, OwnerTyped, ServerTyped, WireTyped,
       ClientTyped, owner, table, wire, data, client
<1>2. ASSUME NEW g \in Gens, Tell(g) PROVE Typed'
  <2>1. /\ Head(pumps[g].rts) \in Freqs /\ Tail(pumps[g].rts) \in Seq(Freqs)
        /\ pumps[g].id \in 0..MaxStreams
    BY <1>2, <1>pu, Popped DEF Tell, PumpRecords
  <2>2. <<Said("TUNED", pumps[g].id, Head(pumps[g].rts))>> \in Seq(Messages)
    BY <2>1, SaidTyped, KindsKnown, Frames
  <2>3. down' \in Seq(Messages)
    BY <1>2, <1>ty, <2>2, SendTyped DEF Tell
  <2>4. pumps' \in [Gens -> PumpRecords]
    BY <1>2, <1>ty, <1>pu, <2>1 DEF Tell, ServerTyped, PumpRecords
  <2> QED BY <1>2, <1>ty, <2>3, <2>4 DEF Tell, OwnerTyped, ServerTyped, WireTyped, ClientTyped,
                                         owner, table, data, client
<1>3. ASSUME NEW g \in Gens, Sample(g) PROVE Typed'
  BY <1>3, <1>ty DEF Sample, OwnerTyped, ServerTyped, WireTyped, ClientTyped,
                     owner, server, table, wire, client
<1>4. ASSUME PunchArrives PROVE Typed'
  <2>1. pumps' \in [Gens -> PumpRecords]
    <3>1. CASE expects = 0
      BY <1>4, <1>ty, <3>1 DEF PunchArrives, ServerTyped
    <3>2. CASE expects # 0
      <4>1. expects \in Gens /\ pumps' = [pumps EXCEPT ![expects].dest = TRUE]
        BY <1>4, <1>ty, <3>2 DEF PunchArrives, ServerTyped
      <4> QED BY <1>ty, <1>pu, <4>1 DEF ServerTyped, PumpRecords
    <3> QED BY <3>1, <3>2
  <2> QED BY <1>4, <1>ty, <2>1 DEF PunchArrives, OwnerTyped, ServerTyped, WireTyped, ClientTyped,
                                   owner, wire, client
<1> QED BY <1>1, <1>2, <1>3, <1>4 DEF PumpStep, Pump

ClientStep ==
    \/ Reader \/ HearBlock \/ FallBack \/ SendPunch
    \/ Unsubscribe \/ KeepAlive \/ Leave \/ Stall \/ Discard \/ LoseDatagram

LEMMA ClientTypes == ASSUME SInv, ClientStep PROVE Typed'
<1> USE DEF Typed
<1>ty. OwnerTyped /\ ServerTyped /\ WireTyped /\ ClientTyped
  BY DEF SInv
<1>ow. owner' = owner /\ server' = server /\ table' = table /\ world' = world
  BY DEF ClientStep, Reader, TakeWelcome, TakeReply, Hear, HangUp, HearBlock, FallBack, SendPunch,
         Unsubscribe, KeepAlive, Leave, Stall, Discard, LoseDatagram
<1>os. OwnerTyped' /\ ServerTyped'
  BY <1>ty, <1>ow DEF OwnerTyped, ServerTyped, owner, server, table
<1>dn. down # <<>> => Tail(down) \in Seq(Messages) /\ Head(down) \in Messages
  BY <1>ty, Popped DEF WireTyped
<1>up. \A k \in {"SUBSCRIBE", "UNSUBSCRIBE", "PING", "torn", "EOF"}, t \in Transports :
          Ask(k, t) \in Seq(Requests)
  BY <1>ty, AskTyped
<1>vi. via \in Transports /\ "tcp" \in Transports
  BY <1>ty DEF ClientTyped, Transports
<1>1. ASSUME TakeWelcome PROVE Typed'
  <2>1. WireTyped'
    BY <1>1, <1>ty, <1>dn, <1>up, <1>vi DEF TakeWelcome, WireTyped, data
  <2>2. ClientTyped'
    BY <1>1, <1>ty, <1>dn DEF TakeWelcome, ClientTyped, ClientPlaces, Messages
  <2> QED BY <1>os, <2>1, <2>2
<1>2. ASSUME TakeReply PROVE Typed'
  BY <1>2, <1>os, <1>ty, <1>dn, <1>up, <1>vi DEF TakeReply, WireTyped, ClientTyped, ClientPlaces
<1>3. ASSUME Hear PROVE Typed'
  <2>1. WireTyped'
    BY <1>3, <1>ty, <1>dn, <1>up, <1>vi DEF Hear, WireTyped, data
  <2>2. ClientTyped'
    BY <1>3, <1>ty, <1>dn DEF Hear, ClientTyped, ClientPlaces, Messages
  <2> QED BY <1>os, <2>1, <2>2
<1>4. ASSUME HangUp \/ HearBlock \/ FallBack PROVE Typed'
  BY <1>4, <1>os, <1>ty, <1>up, <1>vi DEF HangUp, HearBlock, FallBack, WireTyped, ClientTyped,
       ClientPlaces, wire, data
<1>5. ASSUME SendPunch \/ Stall \/ LoseDatagram PROVE Typed'
  BY <1>5, <1>os, <1>ty DEF SendPunch, Stall, LoseDatagram, WireTyped, ClientTyped, wire, data,
       client
<1>6. ASSUME Unsubscribe \/ KeepAlive \/ Leave \/ Discard PROVE Typed'
  BY <1>6, <1>os, <1>ty, <1>dn, <1>up, <1>vi DEF Unsubscribe, KeepAlive, Leave, Discard, WireTyped,
                                                 ClientTyped, ClientPlaces, data, client
<1> QED BY <1>1, <1>2, <1>3, <1>4, <1>5, <1>6 DEF ClientStep, Reader

-----------------------------------------------------------------------------
(* The queue to the client: who waits, and what is named in it.            *)

(* The senders that wait, in terms of the queue alone. *)
LEMMA WaitsAre ==
    ASSUME WireTyped
    PROVE  /\ ConverseWaits <=> WaitsIn(down, Kinds \ {"TUNED"})
           /\ PumpWaits <=> WaitsIn(down, {"TUNED"})
<1>1. DOMAIN down = 1..Len(down)
  BY LenProperties DEF WireTyped
<1> QED BY <1>1 DEF ConverseWaits, PumpWaits, Waits, WaitsIn

(* A queue that loses its head has no more senders waiting. *)
LEMMA QueueShorter ==
    ASSUME NEW d \in Seq(Messages), d # <<>>
    PROVE  /\ OneOfAPump(d) => OneOfAPump(Tail(d))
           /\ TwoOfConverse(d) => TwoOfConverse(Tail(d))
           /\ \A n \in Nat : NoNew(d, n) => NoNew(Tail(d), n)
           /\ \A K : WaitsIn(Tail(d), K) => WaitsIn(d, K)
<1> DEFINE e == Tail(d)
<1>1. /\ Len(e) = Len(d) - 1 /\ Len(d) \in Nat
      /\ \A i \in 1..Len(e) : e[i] = d[i + 1] /\ i + 1 \in 1..Len(d)
  BY Popped
<1>oc. OutDepth \in Nat
  BY SessionConstants
<1> HIDE DEF e
<1>2. OneOfAPump(d) => OneOfAPump(e)
  <2> SUFFICES ASSUME OneOfAPump(d), NEW i \in 1..Len(e), NEW j \in 1..Len(e),
                      i > OutDepth, j > OutDepth, e[i].kind = "TUNED", e[j].kind = "TUNED"
               PROVE  i = j
    BY DEF OneOfAPump
  <2>1. i + 1 > OutDepth /\ j + 1 > OutDepth /\ d[i + 1].kind = "TUNED" /\ d[j + 1].kind = "TUNED"
        /\ i + 1 \in 1..Len(d) /\ j + 1 \in 1..Len(d)
    BY <1>1, <1>oc
  <2>2. i + 1 = j + 1
    BY <2>1 DEF OneOfAPump
  <2> QED BY <2>2
<1>3. TwoOfConverse(d) => TwoOfConverse(e)
  <2> SUFFICES ASSUME TwoOfConverse(d), NEW i \in 1..Len(e), NEW j \in 1..Len(e), NEW k \in 1..Len(e),
                      i > OutDepth, i < j, j < k
               PROVE  "TUNED" \in {e[i].kind, e[j].kind, e[k].kind}
    BY DEF TwoOfConverse
  <2>1. /\ i + 1 \in 1..Len(d) /\ j + 1 \in 1..Len(d) /\ k + 1 \in 1..Len(d)
        /\ i + 1 > OutDepth /\ i + 1 < j + 1 /\ j + 1 < k + 1
    BY <1>1, <1>oc
  <2>2. "TUNED" \in {d[i + 1].kind, d[j + 1].kind, d[k + 1].kind}
    BY <2>1 DEF TwoOfConverse
  <2> QED BY <1>1, <2>2
<1>4. \A n \in Nat : NoNew(d, n) => NoNew(e, n)
  BY <1>1 DEF NoNew
<1>5. ASSUME NEW K, WaitsIn(e, K) PROVE WaitsIn(d, K)
  <2>1. PICK i \in 1..Len(e) : i > OutDepth /\ e[i].kind \in K
    BY <1>5 DEF WaitsIn
  <2>2. i + 1 \in 1..Len(d) /\ i + 1 > OutDepth /\ d[i + 1].kind \in K
    BY <1>1, <1>oc, <2>1
  <2> QED BY <2>2 DEF WaitsIn
<1> QED BY <1>2, <1>3, <1>4, <1>5 DEF e

\* A pump's frame: it has none waiting.
(* A retune put on the queue by a pump that does not wait. *)
LEMMA QueueTuned ==
    ASSUME NEW d \in Seq(Messages), NEW m \in Messages, m.kind = "TUNED", ~WaitsIn(d, {"TUNED"})
    PROVE  LET e == d \o <<m>> IN
           /\ OneOfAPump(e)
           /\ TwoOfConverse(d) => TwoOfConverse(e)
           /\ \A n \in Nat : m.id <= n /\ NoNew(d, n) => NoNew(e, n)
           /\ ~WaitsIn(d, Kinds \ {"TUNED"}) => ~WaitsIn(e, Kinds \ {"TUNED"})
<1> DEFINE e == d \o <<m>>
<1>1. /\ Len(e) = Len(d) + 1 /\ Len(d) \in Nat
      /\ \A i \in 1..Len(d) : e[i] = d[i]
      /\ e[Len(d) + 1] = m
  BY Joined, Frames, LenProperties
<1>oc. OutDepth \in Nat
  BY SessionConstants
<1> HIDE DEF e
<1>in. \A i \in 1..Len(e) : i \in 1..Len(d) \/ i = Len(d) + 1
  BY <1>1
<1>2. OneOfAPump(e)
  <2>1. \A i \in 1..Len(e) : i > OutDepth /\ e[i].kind = "TUNED" => i = Len(d) + 1
    BY <1>1, <1>in DEF WaitsIn
  <2> QED BY <2>1 DEF OneOfAPump
<1>3. TwoOfConverse(d) => TwoOfConverse(e)
  <2> SUFFICES ASSUME TwoOfConverse(d), NEW i \in 1..Len(e), NEW j \in 1..Len(e), NEW k \in 1..Len(e),
                      i > OutDepth, i < j, j < k
               PROVE  "TUNED" \in {e[i].kind, e[j].kind, e[k].kind}
    BY DEF TwoOfConverse
  <2>1. CASE k = Len(d) + 1
    BY <1>1, <2>1
  <2>2. CASE k \in 1..Len(d)
    <3>1. i \in 1..Len(d) /\ j \in 1..Len(d)
      BY <1>1, <2>2
    <3>2. "TUNED" \in {d[i].kind, d[j].kind, d[k].kind}
      BY <2>2, <3>1 DEF TwoOfConverse
    <3> QED BY <1>1, <2>2, <3>1, <3>2
  <2> QED BY <1>in, <2>1, <2>2
<1>4. \A n \in Nat : m.id <= n /\ NoNew(d, n) => NoNew(e, n)
  BY <1>1, <1>in DEF NoNew
<1>5. ~WaitsIn(d, Kinds \ {"TUNED"}) => ~WaitsIn(e, Kinds \ {"TUNED"})
  BY <1>1, <1>in DEF WaitsIn
<1> QED BY <1>2, <1>3, <1>4, <1>5 DEF e

\* What converse sends in one go: one frame or two, and none waits.
(* Up to two frames put on the queue by a converse that does not wait. *)
LEMMA QueueSent ==
    ASSUME NEW d \in Seq(Messages), NEW m \in Seq(Messages), Len(m) <= 2,
           \A i \in 1..Len(m) : m[i].kind # "TUNED",
           ~WaitsIn(d, Kinds \ {"TUNED"}), OneOfAPump(d)
    PROVE  LET e == d \o m IN
           /\ OneOfAPump(e) /\ TwoOfConverse(e)
           /\ \A n \in Nat : NoNew(m, n) /\ NoNew(d, n) => NoNew(e, n)
<1> DEFINE e == d \o m
<1>1. /\ Len(e) = Len(d) + Len(m) /\ Len(d) \in Nat /\ Len(m) \in Nat
      /\ \A i \in 1..Len(d) : e[i] = d[i]
      /\ \A i \in 1..Len(m) : e[Len(d) + i] = m[i]
  BY Joined, LenProperties
<1>oc. OutDepth \in Nat
  BY SessionConstants
<1>kd. \A i \in 1..Len(d) : d[i].kind \in Kinds
  <2>1. \A i \in 1..Len(d) : d[i] \in Messages
    BY ElementOfSeq
  <2> QED BY <2>1 DEF Messages
<1> HIDE DEF e
<1>in. \A i \in 1..Len(e) : i \in 1..Len(d) \/ (i - Len(d) \in 1..Len(m) /\ i > Len(d) /\ e[i] = m[i - Len(d)])
  <2>1. TAKE i \in 1..Len(e)
  <2>2. CASE i \in 1..Len(d)
    BY <2>2
  <2>3. CASE i \notin 1..Len(d)
    <3>1. i - Len(d) \in 1..Len(m) /\ Len(d) + (i - Len(d)) = i /\ i > Len(d)
      BY <1>1, <2>3
    <3> QED BY <1>1, <3>1
  <2> QED BY <2>2, <2>3
<1>wt. \A i \in 1..Len(d) : i > OutDepth => d[i].kind = "TUNED"
  BY <1>kd DEF WaitsIn
<1>2. OneOfAPump(e)
  <2>1. \A i \in 1..Len(e) : i > OutDepth /\ e[i].kind = "TUNED" => i \in 1..Len(d) /\ d[i].kind = "TUNED"
    BY <1>1, <1>in
  <2> QED BY <2>1 DEF OneOfAPump
<1>3. TwoOfConverse(e)
  <2> SUFFICES ASSUME NEW i \in 1..Len(e), NEW j \in 1..Len(e), NEW k \in 1..Len(e),
                      i > OutDepth, i < j, j < k
               PROVE  "TUNED" \in {e[i].kind, e[j].kind, e[k].kind}
    BY DEF TwoOfConverse
  <2>1. CASE i \in 1..Len(d)
    BY <1>1, <1>wt, <2>1
  <2>2. CASE i \notin 1..Len(d)
    <3>1. i > Len(d) /\ k <= Len(d) + 2
      BY <1>1, <2>2
    <3> QED BY <1>1, <3>1
  <2> QED BY <2>1, <2>2
<1>4. \A n \in Nat : NoNew(m, n) /\ NoNew(d, n) => NoNew(e, n)
  BY <1>1, <1>in DEF NoNew
<1> QED BY <1>2, <1>3, <1>4 DEF e

\* So the queue is never longer than its capacity and three.
(* Three frames wait at most. *)
LEMMA QueueBound ==
    ASSUME NEW d \in Seq(Messages), OneOfAPump(d), TwoOfConverse(d)
    PROVE  Len(d) <= OutDepth + 3
<1> SUFFICES ASSUME Len(d) > OutDepth + 3 PROVE FALSE
  BY LenProperties, SessionConstants
<1> DEFINE a == OutDepth + 1
           b == OutDepth + 2
           c == OutDepth + 3
           f == OutDepth + 4
<1>1. /\ OutDepth \in Nat /\ Len(d) \in Nat
      /\ a \in 1..Len(d) /\ b \in 1..Len(d) /\ c \in 1..Len(d) /\ f \in 1..Len(d)
      /\ a > OutDepth /\ b > OutDepth /\ c > OutDepth /\ f > OutDepth
      /\ a < b /\ b < c /\ c < f /\ a < c /\ b < f
      /\ a # b /\ a # c /\ a # f /\ b # c /\ b # f /\ c # f
  BY LenProperties, SessionConstants
<1> HIDE DEF a, b, c, f
<1>2. /\ "TUNED" \in {d[a].kind, d[b].kind, d[c].kind} /\ "TUNED" \in {d[b].kind, d[c].kind, d[f].kind}
      /\ "TUNED" \in {d[a].kind, d[c].kind, d[f].kind} /\ "TUNED" \in {d[a].kind, d[b].kind, d[f].kind}
  BY <1>1 DEF TwoOfConverse
<1>3. \A i, j \in {a, b, c, f} : d[i].kind = "TUNED" /\ d[j].kind = "TUNED" => i = j
  BY <1>1 DEF OneOfAPump
<1> QED BY <1>1, <1>2, <1>3

QueueInv == FewWait /\ NamesNoNew

(* A step that leaves the queue alone. *)
LEMMA QueueUntouched ==
    ASSUME SInv, UNCHANGED <<down, info>>, made' \in Nat, made' >= made,
           \/ conv' = conv
           \/ conv' \notin {"greet", "dropping", "replacing", "leaving"}
           \/ conv' # "greet" /\ ~ConverseWaits
    PROVE  QueueInv'
<1>1. FewWait'
  BY WaitsAre DEF SInv, Typed, FewWait, OneOfAPump, TwoOfConverse, WaitsIn
<1>2. NamesNoNew'
  <2>1. made \in Nat /\ info.id \in Nat /\ \A i \in 1..Len(down) : down[i].id \in Nat
    <3>1. \A i \in 1..Len(down) : down[i] \in Messages
      BY ElementOfSeq DEF SInv, Typed, WireTyped
    <3> QED BY <3>1, SessionConstants DEF SInv, Typed, OwnerTyped, ClientTyped, Messages, Ids
  <2> QED BY <2>1 DEF SInv, NamesNoNew, NoNew
<1> QED BY <1>1, <1>2 DEF QueueInv

(* A step in which converse sends, and then does nothing else. *)
LEMMA ConverseSends ==
    ASSUME SInv, NEW m \in Seq(Messages), Len(m) <= 2,
           \A i \in 1..Len(m) : m[i].kind # "TUNED" /\ m[i].id <= made,
           ~ConverseWaits, Send(m), UNCHANGED <<made, info>>,
           conv' \notin {"greet", "dropping", "replacing", "leaving"}
    PROVE  QueueInv'
<1>1. down \in Seq(Messages) /\ made \in Nat /\ OneOfAPump(down) /\ NoNew(down, made)
  BY SessionConstants DEF SInv, Typed, OwnerTyped, WireTyped, FewWait, NamesNoNew, Ids
<1>2. ~WaitsIn(down, Kinds \ {"TUNED"})
  BY WaitsAre DEF SInv, Typed
<1>3. NoNew(m, made)
  BY DEF NoNew
<1>4. OneOfAPump(down \o m) /\ TwoOfConverse(down \o m) /\ NoNew(down \o m, made)
  BY <1>1, <1>2, <1>3, QueueSent
<1> QED BY <1>4 DEF Send, QueueInv, FewWait, NamesNoNew, SInv

(* A step in which converse sends one frame. *)
LEMMA SendsOne ==
    ASSUME SInv, NEW a \in Messages, a.kind # "TUNED", a.id <= made,
           ~ConverseWaits, Send(<<a>>), UNCHANGED <<made, info>>,
           conv' \notin {"greet", "dropping", "replacing", "leaving"}
    PROVE  QueueInv'
<1> DEFINE m == <<a>>
<1>1. m \in Seq(Messages) /\ Len(m) = 1 /\ m[1] = a
  BY Frames
<1>2. Send(m)
  OBVIOUS
<1> HIDE DEF m
<1>3. Len(m) <= 2 /\ \A i \in 1..Len(m) : m[i].kind # "TUNED" /\ m[i].id <= made
  BY <1>1
<1> QED BY <1>1, <1>2, <1>3, ConverseSends

(* A step in which the client takes the first frame. *)
LEMMA ClientTakes ==
    ASSUME SInv, down # <<>>, down' = Tail(down), UNCHANGED <<conv, made>>,
           info'.id = info.id \/ info'.id = Head(down).id
    PROVE  QueueInv'
<1>1. /\ down \in Seq(Messages) /\ made \in Nat /\ OneOfAPump(down) /\ TwoOfConverse(down)
      /\ NoNew(down, made) /\ info.id <= made
  BY SessionConstants DEF SInv, Typed, OwnerTyped, WireTyped, FewWait, NamesNoNew, Ids
<1>2. /\ OneOfAPump(down') /\ TwoOfConverse(down') /\ NoNew(down', made)
      /\ \A K : WaitsIn(down', K) => WaitsIn(down, K)
  BY <1>1, QueueShorter
<1>3. Head(down).id <= made
  <2>1. Head(down) = down[1] /\ 1 \in 1..Len(down)
    BY <1>1, Popped
  <2> QED BY <1>1, <2>1 DEF NoNew
<1> QED BY <1>1, <1>2, <1>3 DEF QueueInv, FewWait, NamesNoNew, SInv

(* A step in which a pump passes a retune on. *)
LEMMA TellQueue == ASSUME SInv, NEW g \in Gens, Tell(g) PROVE QueueInv'
<1> DEFINE m == Said("TUNED", pumps[g].id, Head(pumps[g].rts))
<1>ty. OwnerTyped /\ ServerTyped /\ WireTyped /\ ClientTyped
  BY DEF SInv, Typed
<1>1. /\ pumps[g] \in PumpRecords /\ pumps[g].rts # <<>> /\ ~PumpWaits /\ Send(<<m>>)
      /\ UNCHANGED <<conv, made, info>> /\ pumps[g].st = "running"
  BY <1>ty DEF Tell, ServerTyped, owner, client
<1>2. Head(pumps[g].rts) \in Freqs /\ pumps[g].id \in 0..MaxStreams
  BY <1>1, Popped DEF PumpRecords
<1>3. m \in Messages /\ m.kind = "TUNED" /\ m.id = pumps[g].id
  BY <1>2, SaidTyped, KindsKnown
<1>4. m.id <= made /\ conv # "greet"
  BY <1>1, <1>3 DEF SInv, SwitchHeld, NamesNoNew, Turns, Greeting, SecondAsk, Spawned, Gens
<1>5. ~WaitsIn(down, {"TUNED"}) /\ down \in Seq(Messages) /\ made \in Nat
  BY <1>ty, <1>1, WaitsAre, SessionConstants DEF OwnerTyped, WireTyped, Ids
<1>6. TwoOfConverse(down) /\ NoNew(down, made)
  BY DEF SInv, FewWait, NamesNoNew
<1> HIDE DEF m
<1>7. /\ OneOfAPump(down \o <<m>>) /\ TwoOfConverse(down \o <<m>>) /\ NoNew(down \o <<m>>, made)
      /\ ~WaitsIn(down, Kinds \ {"TUNED"}) => ~WaitsIn(down \o <<m>>, Kinds \ {"TUNED"})
  BY <1>3, <1>4, <1>5, <1>6, QueueTuned
<1> QED BY <1>1, <1>4, <1>7 DEF Send, QueueInv, FewWait, NamesNoNew, SInv

LEMMA OwnerQueue == ASSUME SInv, Owner PROVE QueueInv'
<1>1. made' \in Nat /\ made' >= made /\ UNCHANGED <<conv, down, info>>
  BY SessionConstants DEF SInv, Typed, OwnerTyped, Ids, Owner, Retuned, AddStream, SetSettings,
       RemoveStream, wire, client
<1> QED BY <1>1, QueueUntouched

LEMMA ConverseQueue == ASSUME SInv, Converse \/ Tear PROVE QueueInv'
<1>ty. OwnerTyped /\ ServerTyped /\ WireTyped /\ ClientTyped
  BY DEF SInv, Typed
<1>un. UNCHANGED <<made, info>> /\ made \in Nat /\ made' >= made
  BY <1>ty, SessionConstants DEF OwnerTyped, Ids, Converse, Welcome, Listen, PassOnChange,
       PassOnSet, Dropped, TakeSubscribe, Replaced, Spawn, TakeUnsubscribe, Left, TakePing,
       TakeTorn, TakeEof, Ping, IdleTimeout, Close, Tear, owner, client
<1>ds. \A k \in {"WELCOME", "STREAM_CHANGED"} :
         Desc(k) \in Messages /\ Desc(k).kind # "TUNED" /\ Desc(k).id <= made
  BY <1>ty, DescTyped, KindsKnown DEF OwnerTyped
<1>ab. \A k \in {"STREAMS", "SUBSCRIBED", "UNSUBSCRIBED", "ERROR", "PING", "PONG"}, n \in 0..MaxStreams :
         About(k, n) \in Messages /\ About(k, n).kind # "TUNED" /\ About(k, n).id = n
  BY AboutTyped, KindsKnown
<1>id. 0 \in 0..MaxStreams /\ 0 <= made /\ info.id \in 0..MaxStreams /\ info.id <= made
  BY <1>ty, <1>un, SessionConstants DEF ClientTyped, SInv, NamesNoNew
<1>1. ASSUME Welcome PROVE QueueInv'
  <2>1. down = <<>> /\ ~ConverseWaits
    <3>1. down = <<>>
      BY <1>1 DEF Welcome, SInv, FewWait
    <3>2. ~WaitsIn(down, Kinds \ {"TUNED"})
      BY <3>1 DEF WaitsIn
    <3> QED BY <3>1, <3>2, <1>ty, WaitsAre
  <2>2. Send(<<Desc("WELCOME")>>) /\ conv' = "listen"
    BY <1>1 DEF Welcome
  <2> QED BY <1>un, <1>ds, <2>1, <2>2, SendsOne
<1>2. ASSUME Listen \/ Spawn \/ Close \/ TakeTorn \/ TakeEof \/ IdleTimeout PROVE QueueInv'
  BY <1>2, <1>un, QueueUntouched DEF Listen, Spawn, Close, TakeTorn, TakeEof, IdleTimeout, wire,
       client
<1>3. ASSUME TakeUnsubscribe PROVE QueueInv'
  BY <1>3, <1>un, QueueUntouched DEF TakeUnsubscribe, Ready, client
<1>4. ASSUME PassOnChange PROVE QueueInv'
  <2>1. conv' = "idle" /\ ~ConverseWaits
    BY <1>4 DEF PassOnChange, Ready
  <2>2. CASE live = 0
    <3> DEFINE m == <<>>
    <3>1. Send(m) /\ m \in Seq(Messages) /\ Len(m) = 0
      BY <1>4, <2>2, EmptySeq DEF PassOnChange
    <3> HIDE DEF m
    <3>2. Len(m) <= 2 /\ \A i \in 1..Len(m) : m[i].kind # "TUNED" /\ m[i].id <= made
      BY <3>1
    <3> QED BY <1>un, <2>1, <3>1, <3>2, ConverseSends
  <2>3. CASE live # 0
    <3>1. Send(<<Desc("STREAM_CHANGED")>>)
      BY <1>4, <2>3 DEF PassOnChange
    <3> QED BY <1>un, <1>ds, <2>1, <3>1, SendsOne
  <2> QED BY <2>2, <2>3
<1>5. ASSUME PassOnSet PROVE QueueInv'
  <2>1. CASE sub # 0 /\ pumps[sub].id # live
    <3>1. down' = down /\ conv' = "dropping" /\ ~ConverseWaits
      BY <1>5, <2>1 DEF PassOnSet, Ready
    <3> QED BY <1>un, <3>1, QueueUntouched
  <2>2. CASE ~(sub # 0 /\ pumps[sub].id # live)
    <3>1. Send(<<About("STREAMS", 0)>>) /\ conv' = "idle" /\ ~ConverseWaits
      BY <1>5, <2>2 DEF PassOnSet, Ready
    <3> QED BY <1>un, <1>ab, <1>id, <3>1, SendsOne
  <2> QED BY <2>1, <2>2
<1>6. ASSUME Dropped PROVE QueueInv'
  <2> DEFINE a == About("UNSUBSCRIBED", pumps[sub].id)
             b == About("STREAMS", 0)
  <2>1. sub \in Gens /\ pumps[sub].id = info.id
    BY <1>6, <1>ty DEF Dropped, SInv, SwitchHeld, ServerTyped
  <2>2. a \in Messages /\ a.kind = "UNSUBSCRIBED" /\ a.id = info.id
    BY <1>id, <2>1, AboutTyped, KindsKnown
  <2>3. b \in Messages /\ b.kind = "STREAMS" /\ b.id = 0
    BY <1>id, AboutTyped, KindsKnown
  <2>4. Send(<<a, b>>) /\ conv' = "idle" /\ ~ConverseWaits
    BY <1>6, <1>ty, WaitsAre DEF Dropped, SInv, FewWait
  <2> HIDE DEF a, b
  <2> DEFINE m == <<a, b>>
  <2>5. m \in Seq(Messages) /\ Len(m) = 2 /\ m[1] = a /\ m[2] = b /\ Send(m)
    BY <2>2, <2>3, <2>4, Frames
  <2> HIDE DEF m
  <2>6. Len(m) <= 2 /\ \A i \in 1..Len(m) : m[i].kind # "TUNED" /\ m[i].id <= made
    <3>1. \A i \in 1..Len(m) : i = 1 \/ i = 2
      BY <2>5
    <3> QED BY <1>id, <2>2, <2>3, <2>5, <3>1
  <2> QED BY <1>un, <2>4, <2>5, <2>6, ConverseSends
<1>7. ASSUME TakeSubscribe PROVE QueueInv'
  <2>1. CASE live # info.id
    <3>1. Send(<<About("ERROR", 0)>>) /\ conv' = "idle" /\ ~ConverseWaits
      BY <1>7, <2>1 DEF TakeSubscribe, Ready
    <3> QED BY <1>un, <1>ab, <1>id, <3>1, SendsOne
  <2>2. CASE live = info.id /\ sub = 0
    <3>1. Send(<<About("SUBSCRIBED", info.id)>>) /\ conv' = "subscribing" /\ ~ConverseWaits
      BY <1>7, <2>2 DEF TakeSubscribe, Accept, Ready
    <3> QED BY <1>un, <1>ab, <1>id, <3>1, SendsOne
  <2>3. CASE live = info.id /\ sub # 0
    <3>1. down' = down /\ conv' = "replacing" /\ ~ConverseWaits
      BY <1>7, <2>3 DEF TakeSubscribe, Ready
    <3> QED BY <1>un, <3>1, QueueUntouched
  <2> QED BY <2>1, <2>2, <2>3
<1>8. ASSUME Replaced PROVE QueueInv'
  <2>1. Send(<<About("SUBSCRIBED", info.id)>>) /\ conv' = "subscribing" /\ ~ConverseWaits
    BY <1>8, <1>ty, WaitsAre DEF Replaced, Accept, SInv, FewWait
  <2> QED BY <1>un, <1>ab, <1>id, <2>1, SendsOne
<1>9. ASSUME Left PROVE QueueInv'
  <2>1. Send(<<About("UNSUBSCRIBED", info.id)>>) /\ conv' = "closing" /\ ~ConverseWaits
    BY <1>9, <1>ty, WaitsAre DEF Left, SInv, FewWait
  <2> QED BY <1>un, <1>ab, <1>id, <2>1, SendsOne
<1>10. ASSUME TakePing \/ Ping \/ Tear PROVE QueueInv'
  <2>1. PICK k \in {"PING", "PONG"} : Send(<<About(k, 0)>>)
    BY <1>10 DEF TakePing, Ping, Tear
  <2>2. conv' = "idle" /\ ~ConverseWaits
    BY <1>10 DEF TakePing, Ping, Tear, Ready
  <2> QED BY <1>un, <1>ab, <1>id, <2>1, <2>2, SendsOne
<1> QED BY <1>1, <1>2, <1>3, <1>4, <1>5, <1>6, <1>7, <1>8, <1>9, <1>10 DEF Converse

LEMMA PumpQueue == ASSUME SInv, (\E g \in Gens : PumpStep(g)) \/ PunchArrives PROVE QueueInv'
<1>1. made \in Nat /\ made >= made
  BY SessionConstants DEF SInv, Typed, OwnerTyped, Ids
<1>2. ASSUME NEW g \in Gens, Pump(g) \/ Sample(g) PROVE QueueInv'
  <2>1. UNCHANGED <<conv, made, down, info>>
    BY <1>2 DEF Pump, Begin, Punched, Finish, Sample, owner, server, wire, client
  <2> QED BY <1>1, <2>1, QueueUntouched
<1>3. ASSUME PunchArrives PROVE QueueInv'
  <2>1. UNCHANGED <<conv, made, down, info>>
    BY <1>3 DEF PunchArrives, owner, wire, client
  <2> QED BY <1>1, <2>1, QueueUntouched
<1> QED BY <1>2, <1>3, TellQueue DEF PumpStep

LEMMA ClientQueue == ASSUME SInv, ClientStep PROVE QueueInv'
<1>1. made \in Nat /\ made >= made
  BY SessionConstants DEF SInv, Typed, OwnerTyped, Ids
<1>2. ASSUME TakeWelcome \/ TakeReply \/ Hear \/ Discard PROVE QueueInv'
  <2>1. down # <<>> /\ down' = Tail(down) /\ UNCHANGED <<conv, made>>
    BY <1>2 DEF TakeWelcome, TakeReply, Hear, Discard, owner, server
  <2>2. info'.id = info.id \/ info'.id = Head(down).id
    <3>1. \A h : [info EXCEPT !.hz = h].id = info.id
      BY DEF SInv, Typed, ClientTyped
    <3>2. TakeWelcome => info' = info \/ info'.id = Head(down).id
      BY DEF TakeWelcome
    <3>3. Hear => info' = info \/ \E h : info' = [info EXCEPT !.hz = h]
      BY DEF Hear
    <3> QED BY <1>2, <3>1, <3>2, <3>3 DEF TakeReply, Discard, client
  <2> QED BY <2>1, <2>2, ClientTakes
<1>3. ASSUME ClientStep, ~(TakeWelcome \/ TakeReply \/ Hear \/ Discard) PROVE QueueInv'
  <2>1. UNCHANGED <<conv, made, down, info>>
    BY <1>3 DEF ClientStep, Reader, HangUp, HearBlock, FallBack, SendPunch, Unsubscribe,
         KeepAlive, Leave, Stall, LoseDatagram, owner, server, wire, client
  <2> QED BY <1>1, <2>1, QueueUntouched
<1> QED BY <1>2, <1>3

-----------------------------------------------------------------------------
(* Subscribes, on their way and with converse.                             *)

(* The subscribes among the requests, with one request more. *)
LEMMA AsksMore ==
    ASSUME NEW u \in Seq(Requests), NEW r \in Requests
    PROVE  /\ \A t : Asks(Append(u, r), t) <=> Asks(u, t) \/ (r.kind = "SUBSCRIBE" /\ r.via = t)
           /\ EachOnce(u) /\ (r.kind = "SUBSCRIBE" => ~Asks(u, r.via)) => EachOnce(Append(u, r))
<1> DEFINE e == Append(u, r)
<1>1. Len(e) = Len(u) + 1 /\ Len(u) \in Nat /\ e[Len(u) + 1] = r /\ \A i \in 1..Len(u) : e[i] = u[i]
  BY Pushed1
<1> HIDE DEF e
<1>in. \A i \in 1..Len(e) : i \in 1..Len(u) \/ i = Len(u) + 1
  BY <1>1
<1>ni. Len(u) + 1 \in 1..Len(e) /\ \A i \in 1..Len(u) : i \in 1..Len(e)
  BY <1>1
<1>2. \A t : Asks(e, t) <=> Asks(u, t) \/ (r.kind = "SUBSCRIBE" /\ r.via = t)
  BY <1>1, <1>in, <1>ni DEF Asks
<1>3. EachOnce(u) /\ (r.kind = "SUBSCRIBE" => ~Asks(u, r.via)) => EachOnce(e)
  BY <1>1, <1>in DEF EachOnce, Asks
<1> QED BY <1>2, <1>3 DEF e

(* The subscribes among the requests, without the first request. *)
LEMMA AsksFewer ==
    ASSUME NEW u \in Seq(Requests), u # <<>>
    PROVE  /\ \A t : Asks(Tail(u), t) => Asks(u, t)
           /\ EachOnce(u) => EachOnce(Tail(u))
           /\ EachOnce(u) /\ Head(u).kind = "SUBSCRIBE" => ~Asks(Tail(u), Head(u).via)
<1> DEFINE e == Tail(u)
<1>1. /\ Len(e) = Len(u) - 1 /\ Len(u) \in Nat /\ Len(u) > 0 /\ Head(u) = u[1]
      /\ \A i \in 1..Len(e) : e[i] = u[i + 1] /\ i + 1 \in 1..Len(u)
  BY Popped
<1> HIDE DEF e
<1>2. \A t : Asks(e, t) => Asks(u, t)
  BY <1>1 DEF Asks
<1>3. EachOnce(u) => EachOnce(e)
  <2> SUFFICES ASSUME EachOnce(u), NEW i \in 1..Len(e), NEW j \in 1..Len(e),
                      e[i].kind = "SUBSCRIBE", e[j].kind = "SUBSCRIBE", e[i].via = e[j].via
               PROVE  i = j
    BY DEF EachOnce
  <2>1. i + 1 = j + 1
    BY <1>1 DEF EachOnce
  <2> QED BY <2>1
<1>4. EachOnce(u) /\ Head(u).kind = "SUBSCRIBE" => ~Asks(e, Head(u).via)
  <2> SUFFICES ASSUME EachOnce(u), Head(u).kind = "SUBSCRIBE",
                      NEW i \in 1..Len(e), e[i].kind = "SUBSCRIBE", e[i].via = Head(u).via
               PROVE  FALSE
    BY DEF Asks
  <2>1. 1 \in 1..Len(u) /\ i + 1 # 1
    BY <1>1
  <2>2. i + 1 = 1
    BY <1>1, <2>1 DEF EachOnce
  <2> QED BY <2>1, <2>2
<1> QED BY <1>2, <1>3, <1>4 DEF e

(* A request torn on its way is a subscribe no longer. *)
LEMMA AsksTorn ==
    ASSUME NEW u \in Seq(Requests), u # <<>>
    PROVE  LET e == [u EXCEPT ![1].kind = "torn"] IN
           /\ \A t : Asks(e, t) => Asks(u, t)
           /\ EachOnce(u) => EachOnce(e)
<1> DEFINE e == [u EXCEPT ![1].kind = "torn"]
<1>1. u[1] \in Requests /\ 1 \in 1..Len(u) /\ Len(u) \in Nat
  BY Popped
<1>2. e = [u EXCEPT ![1] = [u[1] EXCEPT !.kind = "torn"]]
  OBVIOUS
<1>3. [u[1] EXCEPT !.kind = "torn"] \in Requests
  BY <1>1 DEF Requests
<1>4. Len(e) = Len(u) /\ \A i \in 1..Len(u) : e[i] = IF i = 1 THEN [u[1] EXCEPT !.kind = "torn"] ELSE u[i]
  BY <1>1, <1>2, <1>3, ExceptSeq
<1>5. [u[1] EXCEPT !.kind = "torn"].kind = "torn"
  BY <1>1 DEF Requests
<1> HIDE DEF e
<1>6. \A i \in 1..Len(e) : e[i].kind = "SUBSCRIBE" => e[i] = u[i] /\ i \in 1..Len(u)
  BY <1>4, <1>5
<1>7. \A t : Asks(e, t) => Asks(u, t)
  BY <1>6 DEF Asks
<1>8. EachOnce(u) => EachOnce(e)
  BY <1>6 DEF EachOnce
<1> QED BY <1>7, <1>8 DEF e

(* The answers in the queue, with frames added. *)
LEMMA SaysMore ==
    ASSUME NEW d \in Seq(Messages), NEW m \in Seq(Messages)
    PROVE  /\ \A k : Says(d \o m, k) => Says(d, k) \/ Says(m, k)
           /\ d # <<>> => d \o m # <<>> /\ Head(d \o m) = Head(d)
<1> DEFINE e == d \o m
<1>1. /\ Len(e) = Len(d) + Len(m) /\ Len(d) \in Nat /\ Len(m) \in Nat
      /\ \A i \in 1..Len(d) : e[i] = d[i]
      /\ \A i \in 1..Len(m) : e[Len(d) + i] = m[i]
      /\ d # <<>> => e # <<>> /\ Head(e) = Head(d)
  BY Joined, LenProperties
<1> HIDE DEF e
<1>2. \A k : Says(e, k) => Says(d, k) \/ Says(m, k)
  <2> SUFFICES ASSUME NEW k, NEW i \in 1..Len(e), e[i].kind = k PROVE Says(d, k) \/ Says(m, k)
    BY DEF Says
  <2>1. CASE i \in 1..Len(d)
    BY <1>1, <2>1 DEF Says
  <2>2. CASE i \notin 1..Len(d)
    <3>1. i - Len(d) \in 1..Len(m) /\ Len(d) + (i - Len(d)) = i
      BY <1>1, <2>2
    <3>2. m[i - Len(d)].kind = k
      BY <1>1, <3>1
    <3> QED BY <3>1, <3>2 DEF Says
  <2> QED BY <2>1, <2>2
<1> QED BY <1>1, <1>2 DEF e

(* The answers in the queue, without the first frame. *)
LEMMA SaysFewer ==
    ASSUME NEW d \in Seq(Messages), d # <<>>
    PROVE  /\ \A k : Says(Tail(d), k) => Says(d, k)
           /\ Says(d, Head(d).kind)
<1>1. /\ \A i \in 1..Len(Tail(d)) : Tail(d)[i] = d[i + 1] /\ i + 1 \in 1..Len(d)
      /\ Head(d) = d[1] /\ 1 \in 1..Len(d)
  BY Popped
<1> QED BY <1>1 DEF Says

\* A subscribe neither sent, taken, served nor spawned.
(* A step that starts no pump and adds no subscribe keeps the turns. *)
LEMMA TurnsKept ==
    ASSUME SInv, EachOnce(up'), \A t \in Transports : Asks(up', t) => Asks(up, t),
           \A t \in Transports : Served(t)' <=> Served(t),
           conv = "subscribing" => conv' = "subscribing", conv' = "greet" => conv = "greet",
           \A g \in Gens : (Spawned(g)' <=> Spawned(g)) /\ pumps'[g].via = pumps[g].via,
           via' = via, armed' => armed, info'.id = info.id,
           cst' = cst \/ (cst # "greeting" /\ cst' \in {"ended", "failed", "gone"}),
           Says(down', "SUBSCRIBED") => Says(down, "SUBSCRIBED"),
           cst = "greeting" => conv' = "greet" \/ (down' # <<>> /\ Head(down').kind = "WELCOME")
    PROVE  Turns'
<1>1. "udp" \in Transports /\ "tcp" \in Transports /\ 1 \in Gens /\ 2 \in Gens
  BY DEF Transports, Gens
<1> USE <1>1 DEF SInv, Turns
<1>2. FirstAsk'
  BY DEF FirstAsk
<1>3. SecondAsk'
  BY DEF SecondAsk
<1>4. Greeting'
  BY DEF Greeting
<1>5. Answered'
  BY DEF Answered
<1> QED BY <1>2, <1>3, <1>4, <1>5

\* No switch made, turned over to nobody, or dropped.
(* A step that starts no pump and revives none keeps the switch held. *)
LEMMA SwitchKept ==
    ASSUME SInv, UNCHANGED sub,
           \A g \in Gens : /\ Spawned(g)' <=> Spawned(g)
                           /\ Alive(g)' => Alive(g)
                           /\ pumps'[g].id = pumps[g].id
                           /\ ~Subscribed(g)' => pumps'[g].rts = <<>>,
           info'.id = info.id, conv = "closed" => conv' = "closed",
           conv' \in {"greet", "listen", "subscribing", "closed"} => sub = 0,
           conv' \in {"replacing", "dropping"} => sub # 0
    PROVE  SwitchHeld' /\ OnePump'
<1>1. sub \in {0} \cup Gens /\ 1 \in Gens /\ 2 \in Gens
  BY DEF SInv, Typed, ServerTyped, Gens
<1>2. SwitchHeld'
  BY <1>1 DEF SInv, SwitchHeld
<1>3. OnePump'
  BY DEF SInv, OnePump
<1> QED BY <1>2, <1>3

HoldInv == Turns /\ SwitchHeld /\ OnePump

(* What one frame says, and what two do. *)
LEMMA SaysThese ==
    ASSUME NEW a \in Messages, NEW b \in Messages
    PROVE  /\ \A k : ~Says(<<>>, k) /\ (Says(<<a>>, k) => a.kind = k)
           /\ \A k : Says(<<a, b>>, k) => a.kind = k \/ b.kind = k
<1>1. \A k : ~Says(<<>>, k)
  BY Frames DEF Says
<1>2. \A k : Says(<<a>>, k) => a.kind = k
  <2> DEFINE m == <<a>>
  <2>1. Len(m) = 1 /\ m[1] = a
    BY Frames
  <2> HIDE DEF m
  <2>2. \A k : Says(m, k) => a.kind = k
    BY <2>1 DEF Says
  <2> QED BY <2>2 DEF m
<1>3. \A k : Says(<<a, b>>, k) => a.kind = k \/ b.kind = k
  <2> DEFINE m == <<a, b>>
  <2>1. Len(m) = 2 /\ m[1] = a /\ m[2] = b
    BY Frames
  <2> HIDE DEF m
  <2>2. \A i \in 1..Len(m) : i = 1 \/ i = 2
    BY <2>1
  <2>3. \A k : Says(m, k) => a.kind = k \/ b.kind = k
    BY <2>1, <2>2 DEF Says
  <2> QED BY <2>3 DEF m
<1> QED BY <1>1, <1>2, <1>3

(* The owner of the stream moves no subscribe and no pump. *)
LEMMA OwnerHolds == ASSUME SInv, Owner PROVE HoldInv'
<1>1. UNCHANGED <<conv, sub, asked, up, down, cst, info, via, armed>>
  BY DEF Owner, Retuned, AddStream, SetSettings, RemoveStream, wire, client
<1>2. \A g \in Gens : /\ pumps'[g].st = pumps[g].st /\ pumps'[g].id = pumps[g].id
                      /\ pumps'[g].via = pumps[g].via
                      /\ ~Subscribed(g) => pumps'[g].rts = pumps[g].rts
  <2>1. \A hz : \A g \in Gens : LET p == [pumps[g] EXCEPT !.rts = Append(@, hz)] IN
            p.st = pumps[g].st /\ p.id = pumps[g].id /\ p.via = pumps[g].via
    BY DEF SInv, Typed, ServerTyped, PumpRecords
  <2>2. pumps' = pumps \/ \E hz \in Freqs : Retuned(hz)
    BY DEF Owner, AddStream, SetSettings, RemoveStream
  <2>3. ASSUME NEW hz \in Freqs, Retuned(hz), NEW g \in Gens
        PROVE  /\ pumps'[g].st = pumps[g].st /\ pumps'[g].id = pumps[g].id
               /\ pumps'[g].via = pumps[g].via
               /\ ~Subscribed(g) => pumps'[g].rts = pumps[g].rts
    <3>1. \/ pumps'[g] = pumps[g]
          \/ Subscribed(g) /\ pumps'[g] = [pumps[g] EXCEPT !.rts = Append(@, hz)]
      BY <2>3 DEF Retuned
    <3>2. CASE pumps'[g] = pumps[g]
      BY <3>2
    <3>3. CASE Subscribed(g) /\ pumps'[g] = [pumps[g] EXCEPT !.rts = Append(@, hz)]
      BY <2>1, <3>3
    <3> QED BY <3>1, <3>2, <3>3
  <2> QED BY <2>2, <2>3
<1>3. Turns'
  <2>1. \A t : Served(t)' <=> Served(t)
    BY <1>1 DEF Served
  <2>2. \A g \in Gens : Spawned(g)' <=> Spawned(g)
    BY <1>2 DEF Spawned
  <2>3. EachOnce(up) /\ (cst = "greeting" => conv = "greet" \/ (down # <<>> /\ Head(down).kind = "WELCOME"))
    BY DEF SInv, Turns, Greeting
  <2> QED BY <1>1, <1>2, <2>1, <2>2, <2>3, TurnsKept
<1>4. SwitchHeld' /\ OnePump'
  <2>1. \A g \in Gens : /\ Spawned(g)' <=> Spawned(g)
                        /\ Alive(g)' => Alive(g)
                        /\ ~Subscribed(g)' => pumps'[g].rts = <<>>
    BY <1>2 DEF Spawned, Alive, Subscribed, SInv, SwitchHeld
  <2>2. /\ conv \in {"greet", "listen", "subscribing", "closed"} => sub = 0
        /\ conv \in {"replacing", "dropping"} => sub # 0
    BY DEF SInv, SwitchHeld
  <2> QED BY <1>1, <1>2, <2>1, <2>2, SwitchKept
<1> QED BY <1>3, <1>4 DEF HoldInv

\* What converse does for most of its branches: it takes the frame at the
\* head, or none, answers, or does not, and turns the switch, or leaves it.
UpKept == up' = up \/ (up # <<>> /\ (up' = Tail(up) \/ up' = [up EXCEPT ![1].kind = "torn"]))
DownKept ==
    down' = down \/ \E m \in Seq(Messages) : down' = down \o m /\ ~Says(m, "SUBSCRIBED")
PumpsKept ==
    \A g \in Gens : /\ pumps'[g].st = pumps[g].st /\ pumps'[g].id = pumps[g].id
                    /\ pumps'[g].via = pumps[g].via /\ pumps'[g].rts = pumps[g].rts

(* What the two queues keep in the steps of converse. *)
LEMMA WireKept ==
    ASSUME SInv, UpKept, DownKept
    PROVE  /\ EachOnce(up') /\ \A t : Asks(up', t) => Asks(up, t)
           /\ Says(down', "SUBSCRIBED") => Says(down, "SUBSCRIBED")
           /\ down # <<>> => down' # <<>> /\ Head(down') = Head(down)
<1>1. up \in Seq(Requests) /\ down \in Seq(Messages) /\ EachOnce(up)
  BY DEF SInv, Typed, WireTyped, Turns
<1>2. EachOnce(up') /\ \A t : Asks(up', t) => Asks(up, t)
  BY <1>1, AsksFewer, AsksTorn DEF UpKept
<1>3. /\ Says(down', "SUBSCRIBED") => Says(down, "SUBSCRIBED")
      /\ down # <<>> => down' # <<>> /\ Head(down') = Head(down)
  BY <1>1, SaysMore DEF DownKept
<1> QED BY <1>2, <1>3

(* Converse goes on, or begins to wait for the pump it stops. *)
LEMMA ConverseGoesOn ==
    ASSUME SInv, conv \in {"idle", "listen"}, UpKept, DownKept, PumpsKept, UNCHANGED <<client, sub>>,
           conv' \in {"idle", "dropping", "leaving", "closing"}, conv' = "dropping" => sub # 0
    PROVE  HoldInv'
<1>1. UNCHANGED <<cst, info, via, armed>>
  BY DEF client
<1>2. Turns'
  <2>1. \A t : ~Served(t) /\ ~Served(t)'
    BY DEF Served
  <2>2. \A g \in Gens : (Spawned(g)' <=> Spawned(g)) /\ pumps'[g].via = pumps[g].via
    BY DEF Spawned, PumpsKept
  <2>3. cst = "greeting" => down' # <<>> /\ Head(down').kind = "WELCOME"
    BY WireKept DEF SInv, Turns, Greeting
  <2> QED BY <1>1, <2>1, <2>2, <2>3, WireKept, TurnsKept
<1>3. SwitchHeld' /\ OnePump'
  <2>1. \A g \in Gens : /\ Spawned(g)' <=> Spawned(g)
                        /\ Alive(g)' => Alive(g)
                        /\ pumps'[g].id = pumps[g].id
                        /\ ~Subscribed(g)' => pumps'[g].rts = <<>>
    BY DEF PumpsKept, Spawned, Alive, Subscribed, SInv, SwitchHeld
  <2> QED BY <1>1, <2>1, SwitchKept
<1> QED BY <1>2, <1>3 DEF HoldInv

\* And where it lets go of a subscription whose pump has ended.
(* Converse lets go of the pump that has ended. *)
LEMMA ConverseLetsGo ==
    ASSUME SInv, conv \in {"dropping", "leaving", "closing"}, Ended, sub' = 0, up' = up, DownKept,
           UNCHANGED <<client, pumps>>, conv' \in {"idle", "closing", "closed"}
    PROVE  HoldInv'
<1>1. UNCHANGED <<cst, info, via, armed>>
  BY DEF client
<1>2. Turns'
  <2>1. \A t : ~Served(t) /\ ~Served(t)'
    BY DEF Served
  <2>2. \A g \in Gens : (Spawned(g)' <=> Spawned(g)) /\ pumps'[g].via = pumps[g].via
    BY DEF Spawned
  <2>3. UpKept
    BY DEF UpKept
  <2>4. cst = "greeting" => down' # <<>> /\ Head(down').kind = "WELCOME"
    BY <2>3, WireKept DEF SInv, Turns, Greeting
  <2> QED BY <1>1, <2>1, <2>2, <2>3, <2>4, WireKept, TurnsKept
<1>3. SwitchHeld' /\ OnePump'
  <2>1. \A g \in Gens : ~Alive(g)
    BY DEF Ended, Alive, SInv, SwitchHeld, Gens
  <2>2. \A g \in Gens : (Alive(g)' <=> Alive(g)) /\ (Spawned(g)' <=> Spawned(g))
                        /\ (Subscribed(g)' <=> Subscribed(g))
    BY DEF Alive, Spawned, Subscribed
  <2>3. OnePump'
    BY <2>1, <2>2 DEF OnePump
  <2>4. SwitchHeld'
    BY <1>1, <2>1, <2>2 DEF SInv, SwitchHeld, Gens
  <2> QED BY <2>3, <2>4
<1> QED BY <1>2, <1>3 DEF HoldInv

LEMMA WelcomeHolds == ASSUME SInv, Welcome PROVE HoldInv'
<1> DEFINE a == Desc("WELCOME")
<1>1. /\ conv = "greet" /\ conv' = "listen" /\ Send(<<a>>) /\ UNCHANGED <<sub, asked, pumps, up>>
      /\ UNCHANGED <<cst, info, via, armed>>
  BY DEF Welcome, client
<1>2. a \in Messages /\ a.kind = "WELCOME"
  BY DescTyped, KindsKnown DEF SInv, Typed
<1> HIDE DEF a
<1>3. down \in Seq(Messages) /\ down = <<>> /\ <<a>> \in Seq(Messages) /\ Len(<<a>>) = 1 /\ <<a>>[1] = a
  BY <1>1, <1>2, Frames DEF SInv, Typed, WireTyped, FewWait
<1>4. down' = <<a>>
  BY <1>1, <1>3, ConcatEmptySeq DEF Send
<1>5. down' # <<>> /\ Head(down').kind = "WELCOME" /\ ~Says(down', "SUBSCRIBED")
  <2>1. Head(<<a>>) = a /\ <<a>> # <<>>
    BY <1>2
  <2>2. ~Says(<<a>>, "SUBSCRIBED")
    BY <1>2, SaysThese
  <2> QED BY <1>2, <1>4, <2>1, <2>2
<1>6. Turns'
  <2>1. \A t : ~Served(t) /\ ~Served(t)'
    BY <1>1 DEF Served
  <2>2. \A g \in Gens : Spawned(g)' <=> Spawned(g)
    BY <1>1 DEF Spawned
  <2>3. EachOnce(up)
    BY DEF SInv, Turns
  <2> QED BY <1>1, <1>5, <2>1, <2>2, <2>3, TurnsKept
<1>7. SwitchHeld' /\ OnePump'
  <2>1. \A g \in Gens : /\ Spawned(g)' <=> Spawned(g)
                        /\ Alive(g)' => Alive(g)
                        /\ ~Subscribed(g)' => pumps'[g].rts = <<>>
    BY <1>1 DEF Spawned, Alive, Subscribed, SInv, SwitchHeld
  <2>2. sub = 0
    BY <1>1 DEF SInv, SwitchHeld
  <2> QED BY <1>1, <2>1, <2>2, SwitchKept
<1> QED BY <1>6, <1>7 DEF HoldInv

\* A subscribe is taken: it is nowhere on its way any more, and the answer
\* goes out in the same step.
(* A subscribe taken off the requests was the only one over its transport. *)
LEMMA TakenOff ==
    ASSUME SInv, up # <<>>, Head(up).kind = "SUBSCRIBE"
    PROVE  /\ EachOnce(Tail(up))
           /\ \A t \in Transports : Asks(Tail(up), t) => Asks(up, t) /\ t # Head(up).via
           /\ Head(up).via \in Transports /\ Asks(up, Head(up).via)
BY AsksFewer, HeadAsks DEF SInv, Typed, WireTyped, Turns

(* The answer to a subscribe goes to the end of the queue. *)
LEMMA AnswerSays ==
    ASSUME SInv, Send(<<About("SUBSCRIBED", info.id)>>)
    PROVE  down' # <<>> /\ (down # <<>> => Head(down') = Head(down))
<1> DEFINE a == About("SUBSCRIBED", info.id)
<1>1. a \in Messages /\ down \in Seq(Messages)
  BY AboutTyped, KindsKnown DEF SInv, Typed, ClientTyped, WireTyped
<1> HIDE DEF a
<1>2. <<a>> \in Seq(Messages) /\ Len(<<a>>) = 1
  BY <1>1, Frames
<1>3. Len(down \o <<a>>) = Len(down) + 1 /\ Len(down) \in Nat
  BY <1>1, <1>2, Joined, LenProperties
<1>4. down \o <<a>> # <<>>
  BY <1>3, EmptySeq
<1> QED BY <1>1, <1>2, <1>4, SaysMore DEF a, Send

LEMMA TakeSubscribeHolds == ASSUME SInv, TakeSubscribe PROVE HoldInv'
<1> DEFINE t == Head(up).via
<1>1. /\ conv = "idle" /\ up # <<>> /\ Head(up).kind = "SUBSCRIBE" /\ up' = Tail(up)
      /\ UNCHANGED <<sub, cst, info, via, armed, client>>
  BY DEF TakeSubscribe, Ready, client
<1>2. /\ EachOnce(up') /\ \A r \in Transports : Asks(up', r) => Asks(up, r) /\ r # t
      /\ t \in Transports /\ Asks(up, t)
  BY <1>1, TakenOff
<1>tr. t = "udp" \/ t = "tcp"
  BY <1>2 DEF Transports
<1> HIDE DEF t
<1>ns. \A r : ~Served(r)
  BY <1>1 DEF Served
<1>gr. cst # "greeting"
  BY <1>2 DEF SInv, Turns, Greeting
<1>3. CASE live # info.id
  <2>1. Send(<<About("ERROR", 0)>>) /\ UNCHANGED <<conv, asked, pumps>>
    BY <1>3 DEF TakeSubscribe
  <2>2. DownKept
    <3>1. About("ERROR", 0) \in Messages /\ About("ERROR", 0).kind = "ERROR"
      BY AboutTyped, KindsKnown, SessionConstants
    <3>2. <<About("ERROR", 0)>> \in Seq(Messages) /\ ~Says(<<About("ERROR", 0)>>, "SUBSCRIBED")
      BY <3>1, Frames, SaysThese
    <3> QED BY <2>1, <3>2 DEF DownKept, Send
  <2>3. UpKept /\ PumpsKept
    BY <1>1, <2>1 DEF UpKept, PumpsKept
  <2> QED BY <1>1, <2>1, <2>2, <2>3, ConverseGoesOn
<1>4. CASE live = info.id /\ sub = 0
  <2>1. /\ Send(<<About("SUBSCRIBED", info.id)>>) /\ conv' = "subscribing" /\ asked' = t
        /\ pumps' = pumps
    BY <1>4 DEF TakeSubscribe, Accept, t
  <2>2. \A r : Served(r)' <=> r = t
    BY <2>1 DEF Served
  <2>3. \A g \in Gens : (Spawned(g)' <=> Spawned(g)) /\ pumps'[g].via = pumps[g].via
    BY <2>1 DEF Spawned
  <2>4. 1 \in Gens /\ 2 \in Gens /\ "udp" \in Transports /\ "tcp" \in Transports
    BY DEF Gens, Transports
  <2>5. Turns'
    <3> USE DEF SInv, Turns
    <3>1. t = "udp" => ~Spawned(1) /\ ~Spawned(2)
      BY <1>2, FreshFor
    <3>2. t = "tcp" => Spawned(1) /\ ~Spawned(2) /\ ~Asks(up, "udp") /\ via # "udp"
      BY <1>2, <1>ns, FreshFor DEF SecondAsk
    <3>3. FirstAsk'
      BY <1>2, <1>ns, <1>tr, <2>1, <2>2, <2>3, <2>4, <3>1, <3>2 DEF FirstAsk
    <3>4. SecondAsk'
      BY <1>1, <1>2, <1>ns, <1>tr, <2>1, <2>2, <2>3, <2>4, <3>1, <3>2 DEF SecondAsk
    <3>5. Greeting'
      BY <1>1, <1>gr, <2>1 DEF Greeting
    <3>6. Answered'
      <4>1. t = "tcp" => cst # "asking"
        BY <3>2 DEF Greeting
      <4>2. ~Asks(up', "udp")
        BY <1>2, <1>tr, <2>4, <3>2
      <4>3. cst \in {"asking", "reading"} => Served("udp")' \/ Spawned(1)'
        BY <1>tr, <2>2, <2>3, <2>4, <3>2
      <4> QED BY <1>1, <4>2, <4>3 DEF Answered
    <3> QED BY <1>2, <3>3, <3>4, <3>5, <3>6
  <2>6. SwitchHeld' /\ OnePump'
    <3>1. \A g \in Gens : /\ Alive(g)' => Alive(g)
                          /\ ~Subscribed(g)' => pumps'[g].rts = <<>>
      BY <2>1 DEF Alive, Subscribed, SInv, SwitchHeld
    <3> QED BY <1>1, <1>4, <2>1, <2>3, <3>1, SwitchKept
  <2> QED BY <2>5, <2>6 DEF HoldInv
<1>5. CASE live = info.id /\ sub # 0
  <2>1. conv' = "replacing" /\ asked' = t /\ pumps' = Stop(sub) /\ down' = down
    BY <1>5 DEF TakeSubscribe, t
  <2>2. \A r : Served(r)' <=> r = t
    BY <2>1 DEF Served
  <2>3. sub \in Gens /\ ServerTyped
    BY <1>5 DEF SInv, Typed, ServerTyped
  <2>4. PumpsKept
    BY <2>1, <2>3, StopTyped DEF PumpsKept
  <2>5. \A g \in Gens : (Spawned(g)' <=> Spawned(g)) /\ pumps'[g].via = pumps[g].via
    BY <2>4 DEF Spawned, PumpsKept
  <2>6. 1 \in Gens /\ 2 \in Gens /\ "udp" \in Transports /\ "tcp" \in Transports /\ (sub = 1 \/ sub = 2)
    BY <2>3 DEF Gens, Transports
  <2>7. Turns'
    <3> USE DEF SInv, Turns
    <3>1. Spawned(1)
      BY <2>6 DEF SwitchHeld, SecondAsk
    <3>2. t = "tcp" /\ ~Spawned(2) /\ via # "udp"
      BY <1>2, <1>tr, <3>1, FreshFor DEF FirstAsk, SecondAsk
    <3>3. FirstAsk'
      BY <1>2, <2>2, <2>5, <2>6, <3>1, <3>2 DEF FirstAsk
    <3>4. SecondAsk'
      BY <1>1, <1>2, <2>2, <2>5, <2>6, <3>1, <3>2 DEF SecondAsk
    <3>5. Greeting'
      BY <1>1, <1>gr, <2>1 DEF Greeting
    <3>6. Answered'
      <4>1. ~Asks(up', "udp")
        BY <1>2, <2>6, <3>1 DEF FirstAsk
      <4> QED BY <1>1, <2>5, <2>6, <3>1, <4>1 DEF Answered
    <3> QED BY <1>2, <3>3, <3>4, <3>5, <3>6
  <2>8. SwitchHeld' /\ OnePump'
    <3>1. \A g \in Gens : /\ Alive(g)' => Alive(g)
                          /\ pumps'[g].id = pumps[g].id
                          /\ ~Subscribed(g)' => pumps'[g].rts = <<>>
      BY <2>4 DEF PumpsKept, Alive, Subscribed, SInv, SwitchHeld
    <3> QED BY <1>1, <1>5, <2>1, <2>5, <3>1, SwitchKept
  <2> QED BY <2>7, <2>8 DEF HoldInv
<1> QED BY <1>3, <1>4, <1>5

LEMMA ReplacedHolds == ASSUME SInv, Replaced PROVE HoldInv'
<1>1. /\ conv = "replacing" /\ Ended /\ sub' = 0 /\ conv' = "subscribing" /\ asked' = asked
      /\ Send(<<About("SUBSCRIBED", info.id)>>)
      /\ UNCHANGED <<pumps, up, cst, info, via, armed>>
  BY DEF Replaced, Accept, client
<1>2. asked = "tcp" /\ Served("tcp") /\ Spawned(1) /\ ~Spawned(2)
  BY <1>1, ServedAs
<1>3. \A t : Served(t)' <=> t = "tcp"
  BY <1>1, <1>2 DEF Served
<1>4. \A g \in Gens : (Spawned(g)' <=> Spawned(g)) /\ (Alive(g)' <=> Alive(g)) /\ (Subscribed(g)' <=> Subscribed(g))
  BY <1>1 DEF Spawned, Alive, Subscribed
<1>5. 1 \in Gens /\ 2 \in Gens /\ "udp" \in Transports /\ "tcp" \in Transports
  BY DEF Gens, Transports
<1>6. Turns'
  <2> USE DEF SInv, Turns
  <2>1. cst # "greeting" /\ via # "udp"
    BY <1>2, <1>5 DEF Greeting, SecondAsk
  <2>2. FirstAsk' /\ SecondAsk'
    BY <1>1, <1>2, <1>3, <1>4, <1>5, <2>1 DEF FirstAsk, SecondAsk
  <2>3. Greeting'
    BY <1>1, <2>1 DEF Greeting
  <2>4. Answered'
    BY <1>1, <1>2, <1>4, <1>5, <2>1 DEF Answered, FirstAsk
  <2> QED BY <1>1, <2>2, <2>3, <2>4
<1>7. SwitchHeld' /\ OnePump'
  <2>1. \A g \in Gens : ~Alive(g)
    BY <1>1 DEF Ended, Alive, SInv, SwitchHeld, Gens
  <2>2. OnePump'
    BY <1>4, <2>1 DEF OnePump
  <2>3. SwitchHeld'
    BY <1>1, <1>4, <1>5, <2>1 DEF SInv, SwitchHeld, Gens
  <2> QED BY <2>2, <2>3
<1> QED BY <1>6, <1>7 DEF HoldInv

LEMMA SpawnHolds == ASSUME SInv, Spawn PROVE HoldInv'
<1> DEFINE p == [Idle EXCEPT !.st = "new", !.id = info.id, !.via = asked,
                             !.dest = asked = "tcp" \/ early]
<1>1. /\ conv = "subscribing" /\ conv' = "idle" /\ sub' = Fresh /\ pumps' = [pumps EXCEPT ![Fresh] = p]
      /\ UNCHANGED <<asked, up, down, cst, info, via, armed>>
  BY DEF Spawn, wire, client
<1>2. p.st = "new" /\ p.id = info.id /\ p.via = asked /\ p.rts = <<>>
  BY DEF Idle
<1> HIDE DEF p
<1>3. \/ asked = "udp" /\ Served("udp") /\ Fresh = 1 /\ ~Spawned(1) /\ ~Spawned(2)
      \/ asked = "tcp" /\ Served("tcp") /\ Fresh = 2 /\ Spawned(1) /\ ~Spawned(2)
  BY <1>1, ServedAs
<1>4. 1 \in Gens /\ 2 \in Gens /\ "udp" \in Transports /\ "tcp" \in Transports /\ Fresh \in Gens
      /\ \A g \in Gens : g = 1 \/ g = 2
  BY <1>3 DEF Gens, Transports
<1>5. \A g \in Gens : pumps'[g] = IF g = Fresh THEN p ELSE pumps[g]
  BY <1>1, <1>4 DEF SInv, Typed, ServerTyped
<1>6. /\ \A g \in Gens : Spawned(g)' <=> Spawned(g) \/ g = Fresh
      /\ \A g \in Gens : Alive(g)' <=> Alive(g) \/ g = Fresh
      /\ \A g \in Gens \ {Fresh} : Subscribed(g)' <=> Subscribed(g)
      /\ \A t : ~Served(t)'
  BY <1>1, <1>2, <1>5 DEF Spawned, Alive, Subscribed, Served
<1>7. \A g \in Gens : ~Alive(g)
  BY <1>1, <1>4 DEF SInv, SwitchHeld, Gens
<1>8. Turns'
  <2> USE DEF SInv, Turns
  <2>1. cst # "greeting"
    BY <1>3, <1>4 DEF Greeting
  <2>2. FirstAsk'
    BY <1>1, <1>2, <1>3, <1>4, <1>5, <1>6 DEF FirstAsk
  <2>3. SecondAsk'
    BY <1>1, <1>2, <1>3, <1>4, <1>5, <1>6 DEF SecondAsk
  <2>4. Greeting'
    BY <1>1, <2>1 DEF Greeting
  <2>5. Answered'
    BY <1>1, <1>3, <1>4, <1>6 DEF Answered
  <2> QED BY <1>1, <2>2, <2>3, <2>4, <2>5
<1>9. SwitchHeld' /\ OnePump'
  <2>1. OnePump'
    BY <1>6, <1>7 DEF OnePump
  <2>2. SwitchHeld'
    <3>1. \A g \in Gens : Spawned(g)' => pumps'[g].id = info'.id
      BY <1>1, <1>2, <1>5, <1>6 DEF SInv, SwitchHeld
    <3>2. \A g \in Gens : ~Subscribed(g)' => pumps'[g].rts = <<>>
      BY <1>2, <1>5, <1>6 DEF SInv, SwitchHeld
    <3>3. (sub' # 0 => Spawned(sub)') /\ (Spawned(2)' => sub' # 1)
      BY <1>1, <1>3, <1>4, <1>6
    <3>4. \A g \in Gens : Alive(g)' => g = sub'
      BY <1>1, <1>6, <1>7
    <3> QED BY <1>1, <3>1, <3>2, <3>3, <3>4 DEF SwitchHeld
  <2> QED BY <2>1, <2>2
<1> QED BY <1>8, <1>9 DEF HoldInv

LEMMA TakeTornHolds == ASSUME SInv, TakeTorn PROVE HoldInv'
<1>1. /\ conv = "idle" /\ conv' = "closed" /\ up # <<>> /\ up' = Tail(up) /\ down' = down /\ sub' = 0
      /\ pumps' = StopAny /\ UNCHANGED <<asked, cst, info, via, armed, client>>
  BY DEF TakeTorn, Ready, client
<1>2. PumpsKept /\ UpKept /\ DownKept
  BY <1>1, StopTyped DEF PumpsKept, UpKept, DownKept, SInv, Typed
<1>3. \A g \in Gens : /\ Spawned(g)' <=> Spawned(g)
                      /\ Alive(g)' <=> Alive(g)
                      /\ Subscribed(g)' <=> Subscribed(g)
                      /\ pumps'[g].id = pumps[g].id /\ pumps'[g].rts = pumps[g].rts
  BY <1>2 DEF PumpsKept, Spawned, Alive, Subscribed
<1>4. Turns'
  <2>1. \A t : ~Served(t) /\ ~Served(t)'
    BY <1>1 DEF Served
  <2>2. cst = "greeting" => down' # <<>> /\ Head(down').kind = "WELCOME"
    BY <1>1 DEF SInv, Turns, Greeting
  <2>3. \A g \in Gens : pumps'[g].via = pumps[g].via
    BY <1>2 DEF PumpsKept
  <2> QED BY <1>1, <1>2, <1>3, <2>1, <2>2, <2>3, WireKept, TurnsKept
<1>5. SwitchHeld' /\ OnePump'
  <2>1. OnePump'
    BY <1>3 DEF SInv, OnePump
  <2>2. SwitchHeld'
    BY <1>1, <1>3 DEF SInv, SwitchHeld, Gens
  <2> QED BY <2>1, <2>2
<1> QED BY <1>4, <1>5 DEF HoldInv

LEMMA ConverseHolds == ASSUME SInv, Converse \/ Tear PROVE HoldInv'
<1>ty. OwnerTyped /\ ServerTyped /\ WireTyped /\ ClientTyped
  BY DEF SInv, Typed
<1>ab. \A k \in {"STREAMS", "UNSUBSCRIBED", "PING", "PONG"}, n \in 0..MaxStreams :
         About(k, n) \in Messages /\ About(k, n).kind = k
  BY AboutTyped, KindsKnown
<1>an. \A k \in {"STREAMS", "UNSUBSCRIBED", "PING", "PONG"}, n \in 0..MaxStreams :
         Send(<<About(k, n)>>) => DownKept
  <2> SUFFICES ASSUME NEW k \in {"STREAMS", "UNSUBSCRIBED", "PING", "PONG"}, NEW n \in 0..MaxStreams,
                      Send(<<About(k, n)>>)
               PROVE  DownKept
    OBVIOUS
  <2>1. <<About(k, n)>> \in Seq(Messages) /\ ~Says(<<About(k, n)>>, "SUBSCRIBED")
    BY <1>ab, Frames, SaysThese
  <2> QED BY <2>1 DEF DownKept, Send
<1>id. 0 \in 0..MaxStreams /\ info.id \in 0..MaxStreams
  BY <1>ty, SessionConstants DEF ClientTyped
<1>sk. pumps' = StopAny \/ pumps' = pumps => PumpsKept
  BY <1>ty, StopTyped DEF PumpsKept
<1>1. ASSUME Listen \/ TakeUnsubscribe \/ TakeEof \/ IdleTimeout PROVE HoldInv'
  <2>1. /\ conv \in {"idle", "listen"} /\ conv' \in {"idle", "leaving", "closing"}
        /\ UNCHANGED <<client, sub, down>> /\ (pumps' = StopAny \/ pumps' = pumps)
        /\ up' = up \/ (up # <<>> /\ up' = Tail(up))
    BY <1>1 DEF Listen, TakeUnsubscribe, TakeEof, IdleTimeout, Ready, wire
  <2>2. UpKept /\ DownKept
    BY <2>1 DEF UpKept, DownKept
  <2> QED BY <1>sk, <2>1, <2>2, ConverseGoesOn
<1>2. ASSUME PassOnChange PROVE HoldInv'
  <2>1. conv = "idle" /\ conv' = "idle" /\ UNCHANGED <<client, sub, pumps, up>>
    BY <1>2 DEF PassOnChange, Ready
  <2>2. DownKept
    <3>1. CASE live = 0
      <4>1. down' = down \o <<>>
        BY <1>2, <3>1 DEF PassOnChange, Send
      <4>2. <<>> \in Seq(Messages) /\ ~Says(<<>>, "SUBSCRIBED")
        BY <1>ab, <1>id, Frames, SaysThese
      <4> QED BY <4>1, <4>2 DEF DownKept
    <3>2. CASE live # 0
      <4>1. down' = down \o <<Desc("STREAM_CHANGED")>>
        BY <1>2, <3>2 DEF PassOnChange, Send
      <4>2. Desc("STREAM_CHANGED") \in Messages /\ Desc("STREAM_CHANGED").kind = "STREAM_CHANGED"
        BY <1>ty, DescTyped, KindsKnown
      <4>3. <<Desc("STREAM_CHANGED")>> \in Seq(Messages) /\ ~Says(<<Desc("STREAM_CHANGED")>>, "SUBSCRIBED")
        BY <4>2, Frames, SaysThese
      <4> QED BY <4>1, <4>3 DEF DownKept
    <3> QED BY <3>1, <3>2
  <2>3. UpKept
    BY <2>1 DEF UpKept
  <2> QED BY <1>sk, <2>1, <2>2, <2>3, ConverseGoesOn
<1>3. ASSUME PassOnSet PROVE HoldInv'
  <2>1. conv = "idle" /\ UNCHANGED <<client, sub, up>>
    BY <1>3 DEF PassOnSet, Ready
  <2>2. UpKept
    BY <2>1 DEF UpKept
  <2>3. CASE sub # 0 /\ pumps[sub].id # live
    <3>1. conv' = "dropping" /\ pumps' = StopAny /\ down' = down
      BY <1>3, <2>3 DEF PassOnSet, StopAny
    <3>2. DownKept
      BY <3>1 DEF DownKept
    <3> QED BY <1>sk, <2>1, <2>2, <2>3, <3>1, <3>2, ConverseGoesOn
  <2>4. CASE ~(sub # 0 /\ pumps[sub].id # live)
    <3>1. Send(<<About("STREAMS", 0)>>) /\ conv' = "idle" /\ pumps' = pumps
      BY <1>3, <2>1, <2>4 DEF PassOnSet
    <3> QED BY <1>an, <1>id, <1>sk, <2>1, <2>2, <3>1, ConverseGoesOn
  <2> QED BY <2>3, <2>4
<1>4. ASSUME Dropped PROVE HoldInv'
  <2> DEFINE a == About("UNSUBSCRIBED", pumps[sub].id)
             b == About("STREAMS", 0)
  <2>1. /\ conv = "dropping" /\ Ended /\ sub' = 0 /\ conv' = "idle" /\ UNCHANGED <<client, pumps, up>>
        /\ down' = down \o <<a, b>>
    BY <1>4 DEF Dropped, Send
  <2>2. sub \in Gens /\ pumps[sub].id = info.id
    BY <2>1, <1>ty DEF SInv, SwitchHeld, ServerTyped
  <2>3. a \in Messages /\ b \in Messages /\ a.kind = "UNSUBSCRIBED" /\ b.kind = "STREAMS"
    BY <1>ab, <1>id, <2>2
  <2> HIDE DEF a, b
  <2>4. <<a, b>> \in Seq(Messages) /\ ~Says(<<a, b>>, "SUBSCRIBED")
    BY <2>3, Frames, SaysThese
  <2>5. DownKept
    BY <2>1, <2>4 DEF DownKept
  <2> QED BY <2>1, <2>5, ConverseLetsGo
<1>5. ASSUME Left PROVE HoldInv'
  <2>1. /\ conv = "leaving" /\ Ended /\ sub' = 0 /\ conv' = "closing" /\ UNCHANGED <<client, pumps, up>>
        /\ Send(<<About("UNSUBSCRIBED", info.id)>>)
    BY <1>5 DEF Left
  <2> QED BY <1>an, <1>id, <2>1, ConverseLetsGo
<1>6. ASSUME Close PROVE HoldInv'
  <2>1. /\ conv = "closing" /\ Ended /\ sub' = 0 /\ conv' = "closed" /\ UNCHANGED <<client, pumps, up, down>>
    BY <1>6 DEF Close, wire
  <2>2. DownKept
    BY <2>1 DEF DownKept
  <2> QED BY <2>1, <2>2, ConverseLetsGo
<1>7. ASSUME TakePing \/ Ping \/ Tear PROVE HoldInv'
  <2>1. /\ conv = "idle" /\ conv' = "idle" /\ UNCHANGED <<client, sub, pumps>>
        /\ UpKept
    BY <1>7 DEF TakePing, Ping, Tear, Ready, UpKept
  <2>2. PICK k \in {"PING", "PONG"} : Send(<<About(k, 0)>>)
    BY <1>7 DEF TakePing, Ping, Tear
  <2> QED BY <1>an, <1>id, <1>sk, <2>1, <2>2, ConverseGoesOn
<1> QED BY <1>1, <1>2, <1>3, <1>4, <1>5, <1>6, <1>7, WelcomeHolds, TakeSubscribeHolds, ReplacedHolds,
           SpawnHolds, TakeTornHolds DEF Converse

LEMMA PumpHolds == ASSUME SInv, (\E g \in Gens : PumpStep(g)) \/ PunchArrives PROVE HoldInv'
<1>ty. OwnerTyped /\ ServerTyped /\ WireTyped /\ ClientTyped
  BY DEF SInv, Typed
<1>un. UNCHANGED <<conv, sub, asked, up, cst, info, via, armed>>
  BY DEF PumpStep, Pump, Begin, Punched, Finish, Tell, Sample, PunchArrives, owner, server, wire,
       client
<1>pu. \A g \in Gens : pumps[g] \in PumpRecords
  BY <1>ty DEF ServerTyped
<1>1. /\ Says(down', "SUBSCRIBED") => Says(down, "SUBSCRIBED")
      /\ down # <<>> => down' # <<>> /\ Head(down') = Head(down)
  <2>1. ASSUME NEW g \in Gens, Tell(g)
        PROVE  /\ Says(down', "SUBSCRIBED") => Says(down, "SUBSCRIBED")
               /\ down # <<>> => down' # <<>> /\ Head(down') = Head(down)
    <3> DEFINE a == Said("TUNED", pumps[g].id, Head(pumps[g].rts))
    <3>1. down' = down \o <<a>> /\ pumps[g].rts # <<>>
      BY <2>1 DEF Tell, Send
    <3>2. Head(pumps[g].rts) \in Freqs /\ pumps[g].id \in 0..MaxStreams
      BY <1>pu, <3>1, Popped DEF PumpRecords
    <3>3. a \in Messages /\ a.kind = "TUNED"
      BY <3>2, SaidTyped, KindsKnown
    <3> HIDE DEF a
    <3>4. <<a>> \in Seq(Messages) /\ ~Says(<<a>>, "SUBSCRIBED") /\ down \in Seq(Messages)
      BY <1>ty, <3>3, Frames, SaysThese DEF WireTyped
    <3> QED BY <3>1, <3>4, SaysMore
  <2>2. ASSUME ~ \E g \in Gens : Tell(g) PROVE down' = down
    BY <2>2 DEF PumpStep, Pump, Begin, Punched, Finish, Sample, PunchArrives, wire
  <2> QED BY <2>1, <2>2
<1>2. \A g \in Gens : /\ Spawned(g)' <=> Spawned(g)
                      /\ Alive(g)' => Alive(g)
                      /\ pumps'[g].id = pumps[g].id /\ pumps'[g].via = pumps[g].via
                      /\ ~Subscribed(g)' => pumps'[g].rts = <<>>
  <2> DEFINE Kept ==
        \A g \in Gens : /\ Spawned(g)' <=> Spawned(g)
                        /\ Alive(g)' => Alive(g)
                        /\ pumps'[g].id = pumps[g].id /\ pumps'[g].via = pumps[g].via
                        /\ ~Subscribed(g)' => pumps'[g].rts = <<>>
  <2>0. \A g \in Gens : ~Subscribed(g) => pumps[g].rts = <<>>
    BY DEF SInv, SwitchHeld
  <2>1. ASSUME NEW g \in Gens, Begin(g) \/ Punched(g) PROVE Kept
    <3>1. PICK s \in {"running", "waiting"} : pumps' = [pumps EXCEPT ![g].st = s]
      BY <2>1 DEF Begin, Punched
    <3>2. pumps[g].st \in {"new", "waiting"}
      BY <2>1 DEF Begin, Punched
    <3>3. \A h \in Gens : pumps'[h] = IF h = g THEN [pumps[g] EXCEPT !.st = s] ELSE pumps[h]
      BY <1>ty, <3>1 DEF ServerTyped
    <3>4. /\ pumps'[g].st = s /\ pumps'[g].id = pumps[g].id
          /\ pumps'[g].via = pumps[g].via /\ pumps'[g].rts = pumps[g].rts
      BY <1>pu, <3>3 DEF PumpRecords
    <3> QED BY <2>0, <3>2, <3>3, <3>4 DEF Spawned, Alive, Subscribed
  <2>2. ASSUME NEW g \in Gens, Finish(g) PROVE Kept
    BY <1>ty, <1>pu, <2>0, <2>2 DEF Finish, ServerTyped, PumpRecords, Spawned, Alive, Subscribed
  <2>3. ASSUME NEW g \in Gens, Tell(g) PROVE Kept
    BY <1>ty, <1>pu, <2>0, <2>3 DEF Tell, ServerTyped, PumpRecords, Spawned, Alive, Subscribed
  <2>4. ASSUME NEW g \in Gens, Sample(g) PROVE Kept
    BY <2>0, <2>4 DEF Sample, server, Spawned, Alive, Subscribed
  <2>5. ASSUME PunchArrives PROVE Kept
    <3>1. pumps' = pumps \/ (expects \in Gens /\ pumps' = [pumps EXCEPT ![expects].dest = TRUE])
      BY <1>ty, <2>5 DEF PunchArrives, ServerTyped
    <3>2. \A g \in Gens : /\ pumps'[g].st = pumps[g].st /\ pumps'[g].id = pumps[g].id
                          /\ pumps'[g].via = pumps[g].via /\ pumps'[g].rts = pumps[g].rts
      BY <1>ty, <1>pu, <3>1 DEF ServerTyped, PumpRecords
    <3> QED BY <2>0, <3>2 DEF Spawned, Alive, Subscribed
  <2>6. Kept
    <3> HIDE DEF Kept
    <3> QED BY <2>1, <2>2, <2>3, <2>4, <2>5 DEF PumpStep, Pump
  <2> QED BY <2>6
<1>3. Turns'
  <2>1. \A t : Served(t)' <=> Served(t)
    BY <1>un DEF Served
  <2>2. EachOnce(up) /\ (cst = "greeting" => conv = "greet" \/ (down # <<>> /\ Head(down).kind = "WELCOME"))
    BY DEF SInv, Turns, Greeting
  <2> QED BY <1>un, <1>1, <1>2, <2>1, <2>2, TurnsKept
<1>4. SwitchHeld' /\ OnePump'
  <2>1. /\ conv \in {"greet", "listen", "subscribing", "closed"} => sub = 0
        /\ conv \in {"replacing", "dropping"} => sub # 0
    BY DEF SInv, SwitchHeld
  <2> QED BY <1>un, <1>2, <2>1, SwitchKept
<1> QED BY <1>3, <1>4 DEF HoldInv

LEMMA ClientHolds == ASSUME SInv, ClientStep PROVE HoldInv'
<1>ty. OwnerTyped /\ ServerTyped /\ WireTyped /\ ClientTyped
  BY DEF SInv, Typed
<1>un. UNCHANGED <<conv, sub, asked, pumps>>
  BY DEF ClientStep, Reader, TakeWelcome, TakeReply, Hear, HangUp, HearBlock, FallBack, SendPunch,
         Unsubscribe, KeepAlive, Leave, Stall, Discard, LoseDatagram, server
<1>sp. \A g : (Spawned(g)' <=> Spawned(g)) /\ (Alive(g)' <=> Alive(g)) /\ (Subscribed(g)' <=> Subscribed(g))
  BY <1>un DEF Spawned, Alive, Subscribed
<1>sv. \A t : Served(t)' <=> Served(t)
  BY <1>un DEF Served
<1>st. 1 \in Gens /\ 2 \in Gens /\ "udp" \in Transports /\ "tcp" \in Transports
       /\ \A t \in Transports : t = "udp" \/ t = "tcp"
  BY DEF Gens, Transports
<1>as. \A k \in {"SUBSCRIBE", "UNSUBSCRIBE", "PING", "torn", "EOF"}, t \in Transports :
         /\ \A r : Asks(Ask(k, t), r) <=> Asks(up, r) \/ (k = "SUBSCRIBE" /\ t = r)
         /\ (k = "SUBSCRIBE" => ~Asks(up, t)) => EachOnce(Ask(k, t))
  <2> SUFFICES ASSUME NEW k \in {"SUBSCRIBE", "UNSUBSCRIBE", "PING", "torn", "EOF"}, NEW t \in Transports
               PROVE  /\ \A r : Asks(Ask(k, t), r) <=> Asks(up, r) \/ (k = "SUBSCRIBE" /\ t = r)
                      /\ (k = "SUBSCRIBE" => ~Asks(up, t)) => EachOnce(Ask(k, t))
    OBVIOUS
  <2> DEFINE q == [kind |-> k, via |-> t]
  <2>1. q \in Requests /\ q.kind = k /\ q.via = t /\ up \in Seq(Requests) /\ EachOnce(up)
    BY <1>ty, AskTyped DEF WireTyped, SInv, Turns
  <2> HIDE DEF q
  <2>2. /\ \A r : Asks(Append(up, q), r) <=> Asks(up, r) \/ (k = "SUBSCRIBE" /\ t = r)
        /\ (k = "SUBSCRIBE" => ~Asks(up, t)) => EachOnce(Append(up, q))
    BY <2>1, AsksMore
  <2> QED BY <2>2 DEF q, Ask
<1>vi. via \in Transports /\ EachOnce(up)
  BY <1>ty DEF ClientTyped, SInv, Turns
<1>dn. down # <<>> => /\ Says(Tail(down), "SUBSCRIBED") => Says(down, "SUBSCRIBED")
                      /\ Says(down, Head(down).kind)
  BY <1>ty, SaysFewer DEF WireTyped
<1>gr. cst = "greeting" => conv = "greet" \/ (down # <<>> /\ Head(down).kind = "WELCOME")
  BY DEF SInv, Turns, Greeting
<1>hd. ASSUME info'.id = info.id PROVE SwitchHeld' /\ OnePump'
  <2>1. \A g \in Gens : ~Subscribed(g)' => pumps'[g].rts = <<>>
    BY <1>un, <1>sp DEF SInv, SwitchHeld
  <2>2. /\ conv \in {"greet", "listen", "subscribing", "closed"} => sub = 0
        /\ conv \in {"replacing", "dropping"} => sub # 0
    BY DEF SInv, SwitchHeld
  <2> QED BY <1>hd, <1>un, <1>sp, <2>1, <2>2, SwitchKept
<1>1. ASSUME TakeWelcome PROVE HoldInv'
  <2>1. /\ cst = "greeting" /\ down # <<>> /\ down' = Tail(down) /\ UNCHANGED <<via, armed>>
        /\ \/ info'.id = Head(down).id /\ info'.id # 0 /\ up' = Ask("SUBSCRIBE", via) /\ cst' = "asking"
           \/ info' = info /\ up' = Ask("EOF", via) /\ cst' = "failed"
    BY <1>1 DEF TakeWelcome
  <2>2. /\ \A t \in Transports : ~Asks(up, t) /\ ~Served(t)
        /\ ~Spawned(1) /\ ~Spawned(2) /\ via = "udp" /\ ~armed /\ ~Says(down, "SUBSCRIBED")
    BY <2>1, <1>st DEF SInv, Turns, Greeting, SecondAsk
  <2>3. EachOnce(up') /\ \A t \in Transports : Asks(up', t) => t = "udp" /\ cst' = "asking"
    BY <1>as, <1>st, <2>1, <2>2
  <2>4. conv # "greet"
    BY <2>1 DEF SInv, FewWait
  <2>5. Turns'
    <3>1. FirstAsk'
      BY <1>sp, <1>sv, <1>st, <2>2 DEF FirstAsk
    <3>2. SecondAsk'
      BY <1>sp, <1>sv, <1>st, <2>2, <2>3 DEF SecondAsk
    <3>3. Greeting'
      BY <1>un, <2>1, <2>2, <2>4 DEF Greeting
    <3>4. Answered'
      BY <1>dn, <2>1, <2>2 DEF Answered
    <3> QED BY <2>3, <3>1, <3>2, <3>3, <3>4 DEF Turns
  <2>6. SwitchHeld' /\ OnePump'
    <3>1. \A g \in Gens : ~Spawned(g) /\ ~Alive(g)
      BY <2>2 DEF Gens, Spawned, Alive
    <3>2. OnePump'
      BY <1>sp, <3>1 DEF OnePump
    <3>3. SwitchHeld'
      BY <1>sp, <1>un, <1>st, <3>1 DEF SInv, SwitchHeld
    <3> QED BY <3>2, <3>3
  <2> QED BY <2>5, <2>6 DEF HoldInv
<1>2. ASSUME TakeReply PROVE HoldInv'
  <2>1. /\ cst = "asking" /\ down # <<>> /\ down' = Tail(down) /\ UNCHANGED <<via, info>>
        /\ \/ Head(down).kind = "SUBSCRIBED" /\ cst' = "reading" /\ up' = up
           \/ cst' = "failed" /\ up' = Ask("EOF", via) /\ armed' = armed
    BY <1>2 DEF TakeReply
  <2>2. CASE Head(down).kind = "SUBSCRIBED" /\ cst' = "reading" /\ up' = up
    <3>1. ~Asks(up, "udp") /\ (Served("udp") \/ Spawned(1)) /\ via = "udp" /\ info.id # 0
      BY <1>dn, <2>1, <2>2 DEF SInv, Turns, Answered, Greeting
    <3>2. Turns'
      <4>1. FirstAsk' /\ SecondAsk'
        BY <1>un, <1>sp, <1>sv, <2>1, <2>2 DEF SInv, Turns, FirstAsk, SecondAsk
      <4>2. Greeting' /\ Answered'
        BY <1>un, <1>sp, <1>sv, <2>1, <2>2, <3>1 DEF SInv, Turns, Greeting, Answered
      <4> QED BY <1>vi, <2>2, <4>1, <4>2 DEF Turns
    <3> QED BY <1>hd, <2>1, <3>2 DEF HoldInv
  <2>3. CASE cst' = "failed" /\ up' = Ask("EOF", via) /\ armed' = armed
    <3>1. EachOnce(up') /\ \A t \in Transports : Asks(up', t) => Asks(up, t)
      BY <1>as, <1>vi, <2>3
    <3>2. Turns'
      BY <1>un, <1>sp, <1>sv, <1>dn, <2>1, <2>3, <3>1, TurnsKept
    <3> QED BY <1>hd, <2>1, <3>2 DEF HoldInv
  <2> QED BY <2>1, <2>2, <2>3
<1>3. ASSUME FallBack PROVE HoldInv'
  <2>1. /\ cst = "reading" /\ armed /\ via' = "tcp" /\ armed' = FALSE /\ up' = Ask("SUBSCRIBE", "tcp")
        /\ UNCHANGED <<down, cst, info>>
    BY <1>3 DEF FallBack, Polled
  <2>2. /\ via = "udp" /\ ~Asks(up, "tcp") /\ ~Served("tcp") /\ ~Spawned(2)
        /\ ~Asks(up, "udp") /\ (Served("udp") \/ Spawned(1))
    BY <2>1 DEF SInv, Turns, Answered, SecondAsk
  <2>3. EachOnce(up') /\ \A t : Asks(up', t) <=> Asks(up, t) \/ t = "tcp"
    BY <1>as, <1>st, <2>1, <2>2
  <2>4. Turns'
    <3>1. FirstAsk'
      BY <1>un, <1>sp, <1>sv, <2>3 DEF SInv, Turns, FirstAsk
    <3>2. SecondAsk'
      BY <1>un, <1>sp, <1>sv, <2>1, <2>2, <2>3 DEF SInv, Turns, SecondAsk
    <3>3. Greeting' /\ Answered'
      BY <1>un, <1>sp, <1>sv, <2>1, <2>2, <2>3 DEF SInv, Turns, Greeting, Answered
    <3> QED BY <2>3, <3>1, <3>2, <3>3 DEF Turns
  <2> QED BY <1>hd, <2>1, <2>4 DEF HoldInv
<1>4. ASSUME Hear PROVE HoldInv'
  <2>1. /\ cst = "reading" /\ down # <<>> /\ down' = Tail(down) /\ UNCHANGED <<via, armed>>
        /\ \/ cst' = cst /\ up' = up
           \/ cst' = "ended" /\ up' = Ask("EOF", via)
    BY <1>4 DEF Hear, Polled
  <2>2. info'.id = info.id
    <3>1. \A h : [info EXCEPT !.hz = h].id = info.id
      BY <1>ty DEF ClientTyped
    <3> QED BY <1>4, <3>1 DEF Hear
  <2>3. EachOnce(up') /\ \A t \in Transports : Asks(up', t) => Asks(up, t)
    BY <1>as, <1>vi, <2>1
  <2>4. Turns'
    BY <1>un, <1>sp, <1>sv, <1>dn, <2>1, <2>2, <2>3, TurnsKept
  <2> QED BY <1>hd, <2>2, <2>4 DEF HoldInv
<1>5. ASSUME HangUp \/ HearBlock \/ SendPunch \/ Stall \/ LoseDatagram PROVE HoldInv'
  <2>1. /\ UNCHANGED <<up, down, via, info>> /\ (armed' => armed)
        /\ cst' = cst \/ (cst # "greeting" /\ cst' \in {"ended", "failed"})
    BY <1>5 DEF HangUp, HearBlock, SendPunch, Stall, LoseDatagram, Polled, wire, client
  <2>2. Turns'
    BY <1>un, <1>sp, <1>sv, <1>vi, <1>gr, <2>1, TurnsKept
  <2> QED BY <1>hd, <2>1, <2>2 DEF HoldInv
<1>6. ASSUME Unsubscribe \/ KeepAlive \/ Leave PROVE HoldInv'
  <2>1. /\ UNCHANGED <<down, via, info, armed>> /\ cst = "reading" /\ (cst' = cst \/ cst' = "gone")
        /\ \E k \in {"UNSUBSCRIBE", "PING", "EOF"} : up' = Ask(k, via)
    BY <1>6 DEF Unsubscribe, KeepAlive, Leave, Polled, client
  <2>2. EachOnce(up') /\ \A t \in Transports : Asks(up', t) => Asks(up, t)
    BY <1>as, <1>vi, <2>1
  <2>3. Turns'
    BY <1>un, <1>sp, <1>sv, <2>1, <2>2, TurnsKept
  <2> QED BY <1>hd, <2>1, <2>3 DEF HoldInv
<1>7. ASSUME Discard PROVE HoldInv'
  <2>1. /\ cst \in {"ended", "failed", "gone"} /\ down # <<>> /\ down' = Tail(down)
        /\ UNCHANGED <<up, via, info, armed, cst>>
    BY <1>7 DEF Discard, client
  <2>2. Turns'
    BY <1>un, <1>sp, <1>sv, <1>vi, <1>dn, <2>1, TurnsKept
  <2> QED BY <1>hd, <2>1, <2>2 DEF HoldInv
<1> QED BY <1>1, <1>2, <1>3, <1>4, <1>5, <1>6, <1>7 DEF ClientStep, Reader

-----------------------------------------------------------------------------
(* Blocks come from the last pump there will be.                           *)

(* A step that brings no block and ends no wait for one. *)
LEMMA LastKept ==
    ASSUME SInv, air' => air, inl' => inl, heard' = heard,
           \A g \in Gens : /\ pumps[g].st \in {"running", "done"} => pumps'[g].st \in {"running", "done"}
                           /\ pumps[g].st # "none" => pumps'[g].st # "none",
           heard => cst' \notin {"greeting", "asking"} /\ ~armed',
           heard => \A t \in Transports : ~Asks(up', t) /\ ~Served(t)',
           sub' = 0 \/ sub' = sub, sub # 0 /\ pumps[sub].st # "new" => pumps'[sub].st # "new"
    PROVE  LastPump'
<1>1. 1 \in Gens /\ 2 \in Gens
  BY DEF Gens
<1>2. Spawned(1) => Spawned(1)'
  BY <1>1 DEF Spawned
<1> QED BY <1>1, <1>2 DEF SInv, LastPump

(* The owner brings no block. *)
LEMMA OwnerLast == ASSUME SInv, Owner PROVE LastPump'
<1>1. UNCHANGED <<conv, sub, asked, up, inl, air, cst, armed, heard>>
  BY DEF Owner, Retuned, AddStream, SetSettings, RemoveStream, wire, data, client
<1>2. \A g \in Gens : pumps'[g].st = pumps[g].st
  <2>1. \A hz : \A g \in Gens : [pumps[g] EXCEPT !.rts = Append(@, hz)].st = pumps[g].st
    BY DEF SInv, Typed, ServerTyped, PumpRecords
  <2>2. pumps' = pumps \/ \E hz \in Freqs : Retuned(hz)
    BY DEF Owner, AddStream, SetSettings, RemoveStream
  <2>3. ASSUME NEW hz \in Freqs, Retuned(hz), NEW g \in Gens PROVE pumps'[g].st = pumps[g].st
    <3>1. pumps'[g] = pumps[g] \/ pumps'[g] = [pumps[g] EXCEPT !.rts = Append(@, hz)]
      BY <2>3 DEF Retuned
    <3> QED BY <2>1, <3>1
  <2> QED BY <2>2, <2>3
<1>3. \A t : Served(t)' <=> Served(t)
  BY <1>1 DEF Served
<1>4. 1 \in Gens /\ (sub = 0 \/ sub \in Gens)
  BY DEF SInv, Typed, ServerTyped, Gens
<1>6. heard => /\ cst \notin {"greeting", "asking"} /\ ~armed
               /\ \A t \in Transports : ~Asks(up, t) /\ ~Served(t)
  BY DEF SInv, LastPump
<1> QED BY <1>1, <1>2, <1>3, <1>4, <1>6, LastKept

LEMMA ConverseLast == ASSUME SInv, Converse \/ Tear PROVE LastPump'
<1>ty. ServerTyped /\ WireTyped
  BY DEF SInv, Typed
<1>un. UNCHANGED <<cst, armed, heard, inl, air>>
  BY DEF Converse, Welcome, Listen, PassOnChange, PassOnSet, Dropped, TakeSubscribe,
     Replaced, Spawn, TakeUnsubscribe, Left, TakePing, TakeTorn, TakeEof, Ping, IdleTimeout,
          Close, Tear, data, client
<1>in. 1 \in Gens /\ 2 \in Gens /\ (sub = 0 \/ sub \in Gens)
  BY <1>ty DEF ServerTyped, Gens
<1>hd. heard => /\ cst \notin {"greeting", "asking"} /\ ~armed
               /\ \A t \in Transports : ~Asks(up, t) /\ ~Served(t)
  BY DEF SInv, LastPump
<1>1. ASSUME Spawn PROVE LastPump'
  <2>1. /\ conv = "subscribing" /\ asked \in Transports /\ Served(asked)
        /\ Fresh \in Gens /\ pumps[Fresh].st = "none"
    BY <1>1, <1>in, ServedAs DEF Spawn, Transports, Gens, Spawned
  <2>2. ~heard
    BY <1>hd, <2>1
  <2>3. \A g \in Gens : g # Fresh => pumps'[g] = pumps[g]
    BY <1>1, <1>ty, <2>1 DEF Spawn, ServerTyped
  <2>4. \A g \in Gens : pumps[g].st \in {"running", "done"} => pumps'[g].st \in {"running", "done"}
    BY <2>1, <2>3
  <2> QED BY <1>un, <1>in, <2>2, <2>4 DEF SInv, LastPump
<1>2. ASSUME ~Spawn PROVE LastPump'
  <2>1. \A g \in Gens : pumps'[g].st = pumps[g].st
    <3>1. pumps' = pumps \/ pumps' = StopAny \/ (sub # 0 /\ pumps' = Stop(sub))
      BY <1>2 DEF Converse, Welcome, Listen, PassOnChange, PassOnSet, Dropped, TakeSubscribe,
         Replaced, TakeUnsubscribe, Left, TakePing, TakeTorn, TakeEof, Ping, IdleTimeout, Close,
              Tear
    <3> QED BY <1>in, <1>ty, <3>1, StopTyped
  <2>2. sub' = sub \/ sub' = 0
    BY <1>2 DEF Converse, Welcome, Listen, PassOnChange, PassOnSet, Dropped, TakeSubscribe,
       Replaced, TakeUnsubscribe, Left, TakePing, TakeTorn, TakeEof, Ping, IdleTimeout, Close, Tear
  <2>3. heard => up' = up \/ (up # <<>> /\ (up' = Tail(up) \/ up' = [up EXCEPT ![1].kind = "torn"]))
    BY <1>2 DEF Converse, Welcome, Listen, PassOnChange, PassOnSet, Dropped, TakeSubscribe,
       Replaced, TakeUnsubscribe, Left, TakePing, TakeTorn, TakeEof, Ping, IdleTimeout, Close, Tear,
       wire
  <2>4. heard => \A t \in Transports : ~Asks(up', t)
    BY <1>hd, <1>ty, <2>3, AsksFewer, AsksTorn DEF WireTyped
  <2>5. heard => \A t \in Transports : ~Served(t)'
    <3>1. ASSUME heard, TakeSubscribe PROVE FALSE
      BY <1>hd, <1>ty, <3>1, HeadAsks DEF TakeSubscribe
    <3>2. ASSUME heard, conv \in {"replacing", "subscribing"} PROVE FALSE
      BY <1>hd, <1>ty, <3>2 DEF Served, ServerTyped
    <3>3. ASSUME heard PROVE conv' \notin {"replacing", "subscribing"}
      BY <1>2, <3>1, <3>2, <3>3 DEF Converse, Welcome, Listen, PassOnChange, PassOnSet, Dropped,
           TakeSubscribe, Replaced, TakeUnsubscribe, Left, TakePing, TakeTorn, TakeEof, Ping,
           IdleTimeout, Close, Tear, Ready
    <3> QED BY <3>3 DEF Served
  <2> QED BY <1>un, <1>hd, <1>in, <2>1, <2>2, <2>4, <2>5, LastKept
<1> QED BY <1>1, <1>2

LEMMA PumpLast == ASSUME SInv, (\E g \in Gens : PumpStep(g)) \/ PunchArrives PROVE LastPump'
<1>ty. ServerTyped /\ WireTyped
  BY DEF SInv, Typed
<1>un. UNCHANGED <<conv, sub, asked, up, cst, armed, heard>>
  BY DEF PumpStep, Pump, Begin, Punched, Finish, Tell, Sample, PunchArrives, owner, server, wire,
       client
<1>in. 1 \in Gens /\ 2 \in Gens /\ (sub = 0 \/ sub \in Gens) /\ \A g \in Gens : g = 1 \/ g = 2
  BY <1>ty DEF ServerTyped, Gens
<1>pu. \A g \in Gens : pumps[g] \in PumpRecords
  BY <1>ty DEF ServerTyped
<1>hd. heard => /\ cst \notin {"greeting", "asking"} /\ ~armed
               /\ \A t \in Transports : ~Asks(up, t) /\ ~Served(t)
  BY DEF SInv, LastPump
<1>sv. \A t : Served(t)' <=> Served(t)
  BY <1>un DEF Served
<1>1. ASSUME NEW g \in Gens, Pump(g) \/ Tell(g) PROVE LastPump'
  <2>1. UNCHANGED <<inl, air>>
    BY <1>1 DEF Pump, Begin, Punched, Finish, Tell, data
  <2>2. \A h \in Gens : pumps'[h].st = pumps[h].st \/ (h = g /\ pumps[g].st \notin {"none", "done"}
                                   /\ pumps'[h].st \in {"waiting", "running", "done"}
                                   /\ (pumps[g].st = "running" => pumps'[h].st = "done"))
    <3>1. CASE Begin(g)
      <4>1. PICK s \in {"running", "waiting"} : pumps' = [pumps EXCEPT ![g].st = s]
        BY <3>1 DEF Begin
      <4> QED BY <1>ty, <1>pu, <3>1, <4>1 DEF Begin, ServerTyped, PumpRecords
    <3>2. CASE Punched(g)
      BY <1>ty, <1>pu, <3>2 DEF Punched, ServerTyped, PumpRecords
    <3>3. CASE Finish(g)
      BY <1>ty, <1>pu, <3>3 DEF Finish, ServerTyped, PumpRecords
    <3>4. CASE Tell(g)
      BY <1>ty, <1>pu, <3>4 DEF Tell, ServerTyped, PumpRecords
    <3> QED BY <1>1, <3>1, <3>2, <3>3, <3>4 DEF Pump
  <2>4. \A h \in Gens : /\ pumps[h].st \in {"running", "done"} => pumps'[h].st \in {"running", "done"}
                        /\ pumps[h].st # "none" => pumps'[h].st # "none"
    BY <2>2
  <2>5. sub # 0 => (pumps[sub].st # "new" => pumps'[sub].st # "new")
    BY <1>in, <2>2
  <2> QED BY <1>un, <1>hd, <1>sv, <2>1, <2>4, <2>5, LastKept
<1>2. ASSUME NEW g \in Gens, Sample(g) PROVE LastPump'
  <2>1. /\ pumps[g].st = "running" /\ UNCHANGED <<pumps, sub, heard>>
        /\ \/ pumps[g].via = "tcp" /\ air' = air
           \/ pumps[g].via = "udp" /\ inl' = inl
    BY <1>2 DEF Sample, server, client
  <2>2. (pumps[g].via = "tcp" => g = 2) /\ (pumps[g].via = "udp" => g = 1)
    BY <1>in, <2>1 DEF SInv, Turns, FirstAsk, SecondAsk, Spawned
  <2>3. Spawned(1)' <=> Spawned(1)
    BY <2>1 DEF Spawned
  <2> QED BY <1>un, <1>sv, <1>in, <2>1, <2>2, <2>3 DEF SInv, LastPump
<1>3. ASSUME PunchArrives PROVE LastPump'
  <2>1. UNCHANGED <<inl, air>>
    BY <1>3 DEF PunchArrives
  <2>2. \A g \in Gens : pumps'[g].st = pumps[g].st
    <3>1. pumps' = pumps \/ (expects \in Gens /\ pumps' = [pumps EXCEPT ![expects].dest = TRUE])
      BY <1>ty, <1>3 DEF PunchArrives, ServerTyped
    <3> QED BY <1>ty, <1>pu, <3>1 DEF ServerTyped, PumpRecords
  <2> QED BY <1>un, <1>hd, <1>sv, <1>in, <2>1, <2>2, LastKept
<1> QED BY <1>1, <1>2, <1>3 DEF PumpStep

LEMMA HearBlockLast == ASSUME SInv, HearBlock PROVE LastPump'
<1>1. /\ cst = "reading" /\ heard' /\ armed' = FALSE
      /\ UNCHANGED <<conv, sub, asked, pumps, up, cst, via>>
      /\ \/ inl /\ inl' = FALSE /\ air' = air
         \/ air /\ via = "udp" /\ air' = FALSE /\ inl' = inl
  BY DEF HearBlock, Polled, server, wire
<1>in. 1 \in Gens /\ 2 \in Gens /\ (sub = 0 \/ sub = 1 \/ sub = 2)
       /\ \A t \in Transports : t = "udp" \/ t = "tcp"
  BY DEF SInv, Typed, ServerTyped, Gens, Transports
<1>2. (\A t : Served(t)' <=> Served(t)) /\ \A g : Spawned(g)' <=> Spawned(g)
  BY <1>1 DEF Served, Spawned
<1>3. /\ \A t \in Transports : ~Asks(up, t) /\ ~Served(t)
      /\ Spawned(1) /\ (sub # 0 => pumps[sub].st # "new")
  <2>1. CASE inl
    <3>1. pumps[2].st \in {"running", "done"}
      BY <2>1 DEF SInv, LastPump
    <3>2. Spawned(2)
      BY <3>1 DEF Spawned
    <3> QED BY <1>in, <3>1, <3>2 DEF SInv, Turns, FirstAsk, SecondAsk, SwitchHeld
  <2>2. CASE air /\ via = "udp"
    <3>1. pumps[1].st \in {"running", "done"}
      BY <2>2 DEF SInv, LastPump
    <3>2. Spawned(1)
      BY <3>1 DEF Spawned
    <3>3. ~Spawned(2) /\ sub # 2
      BY <2>2 DEF SInv, Turns, SecondAsk, SwitchHeld
    <3> QED BY <1>in, <2>2, <3>1, <3>2, <3>3 DEF SInv, Turns, FirstAsk, SecondAsk
  <2> QED BY <1>1, <2>1, <2>2
<1> QED BY <1>1, <1>2, <1>3 DEF SInv, LastPump

LEMMA ClientLast == ASSUME SInv, ClientStep PROVE LastPump'
<1>ty. WireTyped /\ ClientTyped
  BY DEF SInv, Typed
<1>un. UNCHANGED <<conv, sub, asked, pumps>>
  BY DEF ClientStep, Reader, TakeWelcome, TakeReply, Hear, HangUp, HearBlock, FallBack, SendPunch,
         Unsubscribe, KeepAlive, Leave, Stall, Discard, LoseDatagram, server
<1>hd. heard => /\ cst \notin {"greeting", "asking"} /\ ~armed
               /\ \A t \in Transports : ~Asks(up, t) /\ ~Served(t)
  BY DEF SInv, LastPump
<1>1. ASSUME ~HearBlock PROVE LastPump'
  <2>1. /\ heard' = heard /\ inl' = inl /\ (air' => air)
        /\ heard => armed' = armed
        /\ heard => cst' \notin {"greeting", "asking"}
        /\ heard => up' = up \/ \E k \in {"UNSUBSCRIBE", "PING", "EOF"} : up' = Ask(k, via)
    BY <1>1, <1>hd DEF ClientStep, Reader, TakeWelcome, TakeReply, Hear, HangUp, FallBack,
         SendPunch, Unsubscribe, KeepAlive, Leave, Stall, Discard, LoseDatagram, Polled, wire,
         data, client
  <2>2. \A k \in {"UNSUBSCRIBE", "PING", "EOF"} : \A t : Asks(Ask(k, via), t) => Asks(up, t)
    <3> SUFFICES ASSUME NEW k \in {"UNSUBSCRIBE", "PING", "EOF"} PROVE \A t : Asks(Ask(k, via), t) => Asks(up, t)
      OBVIOUS
    <3> DEFINE q == [kind |-> k, via |-> via]
    <3>1. q \in Requests /\ q.kind # "SUBSCRIBE" /\ up \in Seq(Requests)
      BY <1>ty, AskTyped DEF WireTyped, ClientTyped
    <3> HIDE DEF q
    <3>2. \A t : Asks(Append(up, q), t) => Asks(up, t)
      BY <3>1, AsksMore
    <3> QED BY <3>2 DEF q, Ask
  <2>3. \A t : Served(t)' <=> Served(t)
    BY <1>un DEF Served
  <2>4. heard => \A t \in Transports : ~Asks(up', t)
    BY <1>hd, <2>1, <2>2
  <2> QED BY <1>un, <1>hd, <2>1, <2>3, <2>4, LastKept
<1> QED BY <1>1, HearBlockLast

-----------------------------------------------------------------------------
(* Labels.                                                                 *)

LabelInv == Unmoved /\ LastWord

(* A label put at the end of the queue is the one left in the end. *)
LEMMA LabelSaid ==
    ASSUME NEW d \in Seq(Messages), NEW m \in Messages, NEW id, NEW was, Labels(m, id)
    PROVE  LeavesLabel(d \o <<m>>, id, was, m.hz)
<1> DEFINE e == d \o <<m>>
<1>1. Len(e) = Len(d) + 1 /\ Len(d) \in Nat /\ e[Len(d) + 1] = m /\ \A i \in 1..Len(d) : e[i] = d[i]
  BY Joined, Frames, LenProperties
<1> HIDE DEF e
<1>2. Len(e) \in 1..Len(e) /\ Labels(e[Len(e)], id) /\ e[Len(e)] = m
  BY <1>1
<1>3. \A i \in 1..Len(e) : i = Len(e) \/ Len(e) > i
  BY <1>1
<1>4. LeavesLabel(e, id, was, m.hz)
  BY <1>2, <1>3 DEF LeavesLabel
<1> QED BY <1>4 DEF e

(* Frames that label nothing leave the label as it was. *)
LEMMA LabelUnsaid ==
    ASSUME NEW d \in Seq(Messages), NEW m \in Seq(Messages), NEW id, NEW was, NEW hz,
           \A i \in 1..Len(m) : ~Labels(m[i], id), LeavesLabel(d, id, was, hz)
    PROVE  LeavesLabel(d \o m, id, was, hz)
<1> DEFINE e == d \o m
<1>1. /\ Len(e) = Len(d) + Len(m) /\ Len(d) \in Nat /\ Len(m) \in Nat
      /\ \A i \in 1..Len(d) : e[i] = d[i] /\ i \in 1..Len(e)
      /\ \A i \in 1..Len(m) : e[Len(d) + i] = m[i]
  BY Joined, LenProperties
<1> HIDE DEF e
<1>2. \A i \in 1..Len(e) : Labels(e[i], id) => i \in 1..Len(d) /\ e[i] = d[i]
  <2> SUFFICES ASSUME NEW i \in 1..Len(e), Labels(e[i], id), i \notin 1..Len(d) PROVE FALSE
    BY <1>1
  <2>1. i - Len(d) \in 1..Len(m) /\ Len(d) + (i - Len(d)) = i
    BY <1>1
  <2> QED BY <1>1, <2>1
<1>3. LeavesLabel(e, id, was, hz)
  <2>1. ASSUME NEW i \in 1..Len(e), Labels(e[i], id), \A j \in 1..Len(e) : j > i => ~Labels(e[j], id)
        PROVE  e[i].hz = hz
    <3>1. i \in 1..Len(d) /\ e[i] = d[i]
      BY <1>2, <2>1
    <3>2. \A j \in 1..Len(d) : j > i => ~Labels(d[j], id)
      BY <1>1, <2>1
    <3> QED BY <2>1, <3>1, <3>2 DEF LeavesLabel
  <2>2. ASSUME \A i \in 1..Len(e) : ~Labels(e[i], id) PROVE was = hz
    <3>1. \A i \in 1..Len(d) : ~Labels(d[i], id)
      BY <1>1, <2>2
    <3> QED BY <3>1 DEF LeavesLabel
  <2> QED BY <2>1, <2>2 DEF LeavesLabel
<1> QED BY <1>3 DEF e

(* A label that was heard is the reader's, and the same one is left. *)
LEMMA LabelHeard ==
    ASSUME NEW d \in Seq(Messages), d # <<>>, NEW id, NEW was, NEW hz, LeavesLabel(d, id, was, hz)
    PROVE  LeavesLabel(Tail(d), id, IF Labels(Head(d), id) THEN Head(d).hz ELSE was, hz)
<1> DEFINE e == Tail(d)
           now == IF Labels(Head(d), id) THEN Head(d).hz ELSE was
<1>1. /\ Len(e) = Len(d) - 1 /\ Len(d) \in Nat /\ Len(d) > 0 /\ Head(d) = d[1]
      /\ \A i \in 1..Len(e) : e[i] = d[i + 1] /\ i + 1 \in 1..Len(d)
      /\ \A i \in 2..Len(d) : d[i] = e[i - 1] /\ i - 1 \in 1..Len(e)
  BY Popped
<1> HIDE DEF e
<1>2. ASSUME NEW i \in 1..Len(e), Labels(e[i], id), \A j \in 1..Len(e) : j > i => ~Labels(e[j], id)
      PROVE  e[i].hz = hz
  <2>1. i + 1 \in 1..Len(d) /\ Labels(d[i + 1], id) /\ e[i] = d[i + 1]
    BY <1>1, <1>2
  <2>2. ASSUME NEW j \in 1..Len(d), j > i + 1 PROVE ~Labels(d[j], id)
    <3>1. j \in 2..Len(d) /\ j - 1 > i
      BY <1>1, <2>2
    <3>2. d[j] = e[j - 1] /\ j - 1 \in 1..Len(e)
      BY <1>1, <3>1
    <3> QED BY <1>2, <3>1, <3>2
  <2> QED BY <2>1, <2>2 DEF LeavesLabel
<1>3. ASSUME \A i \in 1..Len(e) : ~Labels(e[i], id) PROVE now = hz
  <2>1. 1 \in 1..Len(d) /\ \A j \in 1..Len(d) : j > 1 => ~Labels(d[j], id)
    <3>1. \A j \in 1..Len(d) : j > 1 => j \in 2..Len(d)
      BY <1>1
    <3> QED BY <1>1, <1>3, <3>1
  <2>2. CASE Labels(d[1], id)
    BY <1>1, <2>1, <2>2 DEF LeavesLabel
  <2>3. CASE ~Labels(d[1], id)
    <3>1. \A j \in 1..Len(d) : ~Labels(d[j], id)
      <4>1. \A j \in 1..Len(d) : j = 1 \/ j > 1
        OBVIOUS
      <4> QED BY <2>1, <2>3, <4>1
    <3> QED BY <1>1, <2>3, <3>1 DEF LeavesLabel
  <2> QED BY <2>2, <2>3
<1> QED BY <1>2, <1>3 DEF LeavesLabel, e

(* True frames added to true frames. *)
LEMMA TruthfulMore ==
    ASSUME NEW d \in Seq(Messages), NEW m \in Seq(Messages), NEW at,
           Truthful(d, at), Truthful(m, at)
    PROVE  Truthful(d \o m, at)
<1> DEFINE e == d \o m
<1>1. /\ Len(e) = Len(d) + Len(m) /\ Len(d) \in Nat /\ Len(m) \in Nat
      /\ \A i \in 1..Len(d) : e[i] = d[i]
      /\ \A i \in 1..Len(m) : e[Len(d) + i] = m[i]
  BY Joined, LenProperties
<1> HIDE DEF e
<1>2. \A i \in 1..Len(e) : (i \in 1..Len(d) /\ e[i] = d[i])
                           \/ (i - Len(d) \in 1..Len(m) /\ e[i] = m[i - Len(d)])
  <2>1. TAKE i \in 1..Len(e)
  <2>2. CASE i \in 1..Len(d)
    BY <1>1, <2>2
  <2>3. CASE i \notin 1..Len(d)
    <3>1. i - Len(d) \in 1..Len(m) /\ Len(d) + (i - Len(d)) = i
      BY <1>1, <2>3
    <3> QED BY <1>1, <3>1
  <2> QED BY <2>2, <2>3
<1>3. Truthful(e, at)
  BY <1>2 DEF Truthful
<1> QED BY <1>3 DEF e

(* The first of true frames is true, and so are the rest. *)
LEMMA TruthfulFewer ==
    ASSUME NEW d \in Seq(Messages), d # <<>>, NEW at, Truthful(d, at)
    PROVE  /\ Truthful(Tail(d), at)
           /\ Head(d).kind \in {"TUNED", "STREAM_CHANGED", "WELCOME"} /\ Head(d).id # 0
                => Head(d).hz = at[Head(d).id]
<1>1. /\ \A i \in 1..Len(Tail(d)) : Tail(d)[i] = d[i + 1] /\ i + 1 \in 1..Len(d)
      /\ Head(d) = d[1] /\ 1 \in 1..Len(d)
  BY Popped
<1> QED BY <1>1 DEF Truthful

(* A queue of true frames leaves the reader at the dial. *)
LEMMA TruthfulLeaves ==
    ASSUME NEW d \in Seq(Messages), NEW at, NEW id, id # 0, Truthful(d, at)
    PROVE  LeavesLabel(d, id, at[id], at[id])
BY DEF Truthful, LeavesLabel, Labels

\* The dial where it was: what was said stays true, what is said next is
\* true, and the labels to come are still to come.
(* A step that moves no dial and says only what is so. *)
LEMMA UnmovedKept ==
    ASSUME SInv, UNCHANGED <<world, dial>>, heard => heard', conv # "greet",
           Still /\ ~heard => \A g \in Gens : pumps'[g].rts = <<>>,
           Still /\ ~heard => Truthful(down', dial),
           Still /\ ~heard => (info'.id # 0 => info'.hz = dial[info'.id])
    PROVE  Unmoved'
BY DEF Unmoved, Still

(* A step that changes no last word. *)
LEMMA LastWordKept ==
    ASSUME SInv, world' = world, heard' => heard, cst' = "reading" => cst = "reading",
           live' = info'.id => live = info.id /\ dial' = dial,
           info' = info, sub' = sub \/ sub' = 0,
           \A g \in Gens : Alive(g)' => Alive(g) /\ pumps'[g].rts = pumps[g].rts,
           heard /\ cst = "reading" /\ live = info.id /\ LeavesLabel(down, info.id, info.hz, dial[info.id])
             => LeavesLabel(down', info.id, info.hz, dial[info.id])
    PROVE  LastWord'
<1> SUFFICES ASSUME Still', heard', cst' = "reading", live' = info'.id, sub' # 0, Alive(sub)'
             PROVE  IF pumps'[sub'].rts # <<>>
                    THEN pumps'[sub'].rts[Len(pumps'[sub'].rts)] = dial'[info'.id]
                    ELSE LeavesLabel(down', info'.id, info'.hz, dial'[info'.id])
  BY DEF LastWord
<1>1. sub \in Gens /\ sub' = sub
  BY DEF SInv, Typed, ServerTyped
<1>2. Alive(sub) /\ pumps'[sub].rts = pumps[sub].rts
  <2> DEFINE g == sub
  <2>1. g \in Gens /\ pumps'[g].st \notin {"none", "done"}
    BY <1>1 DEF Alive
  <2>2. \A h \in Gens : pumps'[h].st \notin {"none", "done"} => pumps[h].st \notin {"none", "done"}
                                                            /\ pumps'[h].rts = pumps[h].rts
    BY DEF Alive
  <2> QED BY <2>1, <2>2 DEF Alive
<1>3. Still /\ dial' = dial
  BY DEF Still
<1> QED BY <1>1, <1>2, <1>3 DEF SInv, LastWord

LEMMA RetunedLabels == ASSUME SInv, NEW hz \in Freqs, Retuned(hz) PROVE LabelInv'
<1>1. /\ live # 0 /\ MayMove /\ dial' = [dial EXCEPT ![live] = hz]
      /\ pumps' = [g \in Gens |-> IF Subscribed(g) /\ pumps[g].id = live
                                  THEN [pumps[g] EXCEPT !.rts = Append(@, hz)] ELSE pumps[g]]
      /\ UNCHANGED <<world, live, conv, sub, down, cst, info, heard>>
  BY DEF Retuned, wire, client
<1>2. Unmoved'
  BY <1>1 DEF MayMove, Unmoved, Still, SInv, Turns, Greeting, LastPump
<1>3. LastWord'
  <2> SUFFICES ASSUME Still', heard', cst' = "reading", live' = info'.id, sub' # 0, Alive(sub)'
               PROVE  IF pumps'[sub'].rts # <<>>
                      THEN pumps'[sub'].rts[Len(pumps'[sub'].rts)] = dial'[info'.id]
                      ELSE LeavesLabel(down', info'.id, info'.hz, dial'[info'.id])
    BY DEF LastWord
  <2>1. sub \in Gens /\ sub' = sub /\ heard /\ live = info.id
    BY <1>1 DEF SInv, Typed, ServerTyped
  <2>2. pumps[sub] \in PumpRecords /\ live \in Ids
    BY <1>1, <2>1, SessionConstants DEF SInv, Typed, ServerTyped, OwnerTyped, Ids
  <2>3. pumps'[sub].st = pumps[sub].st
    BY <1>1, <2>1, <2>2 DEF PumpRecords
  <2>4. pumps[sub].st \notin {"none", "done"}
    BY <2>1, <2>3 DEF Alive
  <2>5. pumps[sub].id = live /\ Subscribed(sub)
    BY <2>1, <2>2, <2>4 DEF SInv, SwitchHeld, LastPump, Spawned, Subscribed, PumpRecords
  <2>6. pumps'[sub].rts = Append(pumps[sub].rts, hz)
    BY <1>1, <2>1, <2>2, <2>5 DEF PumpRecords
  <2>7. pumps[sub].rts \in Seq(Freqs)
    BY <2>2 DEF PumpRecords
  <2> DEFINE r == pumps[sub].rts
  <2>8. Len(Append(r, hz)) = Len(r) + 1 /\ Len(r) \in Nat /\ Append(r, hz)[Len(r) + 1] = hz
    BY <2>7, Pushed1
  <2>9. Append(r, hz)[Len(Append(r, hz))] = hz /\ Append(r, hz) # <<>>
    <3>1. Append(r, hz) # <<>>
      BY <2>7, AppendProperties
    <3> QED BY <2>8, <3>1
  <2>10. dial'[info'.id] = hz
    BY <1>1, <2>1, <2>2 DEF SInv, Typed, OwnerTyped
  <2> QED BY <2>1, <2>6, <2>9, <2>10
<1> QED BY <1>2, <1>3 DEF LabelInv

LEMMA AddStreamLabels == ASSUME SInv, NEW hz \in Freqs, AddStream(hz) PROVE LabelInv'
<1>1. /\ live = 0 /\ made < MaxStreams /\ live' = made + 1 /\ dial' = [dial EXCEPT ![made + 1] = hz]
      /\ UNCHANGED <<world, conv, sub, pumps, down, cst, info, heard>>
  BY DEF AddStream, wire, client
<1>2. /\ made \in Nat /\ made + 1 \in Ids /\ info.id \in Nat /\ info.id <= made
      /\ down \in Seq(Messages) /\ NoNew(down, made) /\ dial \in [Ids -> Freqs]
  BY <1>1, SessionConstants DEF SInv, Typed, OwnerTyped, ClientTyped, WireTyped, NamesNoNew, Ids
<1>3. \A i \in Nat : i <= made => dial'[i] = dial[i]
  BY <1>1, <1>2
<1>4. Truthful(down, dial) => Truthful(down, dial')
  <2>1. \A i \in 1..Len(down) : down[i].id \in Nat /\ down[i].id <= made
    <3>1. \A i \in 1..Len(down) : down[i] \in Messages
      BY <1>2, ElementOfSeq
    <3> QED BY <1>2, <3>1, SessionConstants DEF NoNew, Messages
  <2> QED BY <1>3, <2>1 DEF Truthful
<1>5. Unmoved'
  BY <1>1, <1>2, <1>3, <1>4 DEF SInv, Unmoved, Still
<1>6. LastWord'
  BY <1>1, <1>2 DEF LastWord
<1> QED BY <1>5, <1>6 DEF LabelInv

LEMMA OwnerLabels == ASSUME SInv, Owner PROVE LabelInv'
<1>1. ASSUME SetSettings \/ RemoveStream PROVE LabelInv'
  <2>1. /\ UNCHANGED <<world, dial, conv, sub, pumps, down, cst, info, heard>>
        /\ live' = live \/ live' = 0
    BY <1>1 DEF SetSettings, RemoveStream, wire, client
  <2>2. cst = "reading" => info.id # 0
    BY DEF SInv, Turns, Answered
  <2>3. Unmoved'
    BY <2>1 DEF SInv, Unmoved, Still
  <2>4. LastWord'
    BY <2>1, <2>2 DEF SInv, LastWord, Still, Alive
  <2> QED BY <2>3, <2>4 DEF LabelInv
<1> QED BY <1>1, RetunedLabels, AddStreamLabels DEF Owner

\* Frames with no label in them.
Mute(m) == \A i \in 1..Len(m) : m[i].kind \notin {"TUNED", "STREAM_CHANGED", "WELCOME"}

(* The answers and the list of streams label nothing. *)
LEMMA MuteFrames ==
    ASSUME NEW a \in Messages, NEW b \in Messages,
           a.kind \notin {"TUNED", "STREAM_CHANGED", "WELCOME"},
           b.kind \notin {"TUNED", "STREAM_CHANGED", "WELCOME"}
    PROVE  /\ <<a>> \in Seq(Messages) /\ Mute(<<a>>)
           /\ <<a, b>> \in Seq(Messages) /\ Mute(<<a, b>>)
           /\ <<>> \in Seq(Messages) /\ Mute(<<>>)
<1>1. <<a>> \in Seq(Messages) /\ Mute(<<a>>)
  <2> DEFINE m == <<a>>
  <2>1. m \in Seq(Messages) /\ Len(m) = 1 /\ m[1] = a
    BY Frames
  <2> HIDE DEF m
  <2>2. m \in Seq(Messages) /\ Mute(m)
    BY <2>1 DEF Mute
  <2> QED BY <2>2 DEF m
<1>2. <<a, b>> \in Seq(Messages) /\ Mute(<<a, b>>)
  <2> DEFINE m == <<a, b>>
  <2>1. m \in Seq(Messages) /\ Len(m) = 2 /\ m[1] = a /\ m[2] = b
    BY Frames
  <2> HIDE DEF m
  <2>2. \A i \in 1..Len(m) : i = 1 \/ i = 2
    BY <2>1
  <2>3. m \in Seq(Messages) /\ Mute(m)
    BY <2>1, <2>2 DEF Mute
  <2> QED BY <2>3 DEF m
<1>3. <<>> \in Seq(Messages) /\ Mute(<<>>)
  BY Frames DEF Mute
<1> QED BY <1>1, <1>2, <1>3

(* Frames that label nothing change no label. *)
LEMMA MuteSent ==
    ASSUME NEW d \in Seq(Messages), NEW m \in Seq(Messages), Mute(m)
    PROVE  /\ \A at : Truthful(d, at) => Truthful(d \o m, at)
           /\ \A id, was, hz : LeavesLabel(d, id, was, hz) => LeavesLabel(d \o m, id, was, hz)
<1>1. \A at : Truthful(m, at)
  BY DEF Mute, Truthful
<1>2. \A id : \A i \in 1..Len(m) : ~Labels(m[i], id)
  BY DEF Mute, Labels
<1> QED BY <1>1, <1>2, TruthfulMore, LabelUnsaid

\* A step of converse that says nothing of the dial.
(* A step that sends no label. *)
LEMMA MuteStep ==
    ASSUME SInv, UNCHANGED <<world, live, dial, client>>,
           conv # "greet", sub' = sub \/ sub' = 0,
           \/ down' = down
           \/ \E m \in Seq(Messages) : down' = down \o m /\ Mute(m),
           \A g \in Gens : pumps'[g].st = pumps[g].st /\ pumps'[g].rts = pumps[g].rts
    PROVE  LabelInv'
<1>1. UNCHANGED <<world, live, dial, cst, info, heard>> /\ down \in Seq(Messages)
  BY DEF client, SInv, Typed, WireTyped
<1>2. /\ Truthful(down, dial) => Truthful(down', dial)
      /\ \A id, was, hz : LeavesLabel(down, id, was, hz) => LeavesLabel(down', id, was, hz)
  BY <1>1, MuteSent
<1>3. Unmoved'
  BY <1>1, <1>2, UnmovedKept DEF SInv, Unmoved
<1>4. LastWord'
  <2>1. \A g \in Gens : Alive(g)' => Alive(g) /\ pumps'[g].rts = pumps[g].rts
    BY DEF Alive
  <2> QED BY <1>1, <1>2, <2>1, LastWordKept
<1> QED BY <1>3, <1>4 DEF LabelInv

LEMMA WelcomeLabels == ASSUME SInv, Welcome PROVE LabelInv'
<1> DEFINE a == Desc("WELCOME")
<1>1. /\ conv = "greet" /\ conv' = "listen" /\ Send(<<a>>) /\ UNCHANGED <<world, live, dial, sub, pumps>>
      /\ UNCHANGED <<cst, info, heard>>
  BY DEF Welcome, owner, client
<1>2. a \in Messages /\ a.kind = "WELCOME" /\ a.id = live /\ (live # 0 => a.hz = dial[live])
  BY DescTyped, KindsKnown DEF SInv, Typed
<1>3. cst = "greeting" /\ info.id = 0 /\ \A g \in Gens : pumps[g].rts = <<>>
  BY <1>1 DEF SInv, Turns, Greeting, SecondAsk, SwitchHeld, Subscribed, Spawned, Gens
<1> HIDE DEF a
<1>4. down' = <<a>>
  <2>1. down \in Seq(Messages) /\ down = <<>> /\ <<a>> \in Seq(Messages)
    BY <1>1, <1>2, Frames DEF SInv, Typed, WireTyped, FewWait
  <2> QED BY <1>1, <2>1, ConcatEmptySeq DEF Send
<1>5. Truthful(down', dial)
  <2> DEFINE m == <<a>>
  <2>1. Len(m) = 1 /\ m[1] = a
    BY <1>2, Frames
  <2> HIDE DEF m
  <2>2. Truthful(m, dial)
    BY <1>2, <2>1 DEF Truthful
  <2> QED BY <1>4, <2>2 DEF m
<1>6. Unmoved'
  BY <1>1, <1>3, <1>5 DEF Unmoved
<1>7. LastWord'
  BY <1>1, <1>3 DEF LastWord
<1> QED BY <1>6, <1>7 DEF LabelInv

LEMMA PassOnChangeLabels == ASSUME SInv, PassOnChange PROVE LabelInv'
<1>ty. OwnerTyped /\ ServerTyped /\ WireTyped /\ ClientTyped
  BY DEF SInv, Typed
<1>1. /\ conv = "idle" /\ UNCHANGED <<world, client, live, dial, info, heard, cst, sub, pumps>>
      /\ Send(IF live = 0 THEN <<>> ELSE <<Desc("STREAM_CHANGED")>>)
  BY DEF PassOnChange, Ready, owner, client
<1>2. CASE live = 0
  <2>1. down' = down \o <<>>
    BY <1>1, <1>2 DEF Send
  <2>2. <<>> \in Seq(Messages) /\ Mute(<<>>)
    BY EmptySeq DEF Mute
  <2> QED BY <1>1, <2>1, <2>2, MuteStep
<1>3. CASE live # 0
  <2> DEFINE a == Desc("STREAM_CHANGED")
  <2>1. a \in Messages /\ a.kind = "STREAM_CHANGED" /\ a.id = live /\ a.hz = dial[live]
    BY <1>3, <1>ty, DescTyped, KindsKnown
  <2>2. down' = down \o <<a>>
    BY <1>1, <1>3 DEF Send
  <2> HIDE DEF a
  <2>3. down \in Seq(Messages) /\ <<a>> \in Seq(Messages)
    BY <1>ty, <2>1, Frames DEF WireTyped
  <2>4. Truthful(<<a>>, dial)
    <3> DEFINE m == <<a>>
    <3>1. Len(m) = 1 /\ m[1] = a
      BY <2>1, Frames
    <3> HIDE DEF m
    <3>2. Truthful(m, dial)
      BY <2>1, <3>1 DEF Truthful
    <3> QED BY <3>2 DEF m
  <2>5. Truthful(down, dial) => Truthful(down', dial)
    BY <2>2, <2>3, <2>4, TruthfulMore
  <2>6. Unmoved'
    BY <1>1, <2>5, UnmovedKept DEF SInv, Unmoved
  <2>7. LastWord'
    <3>1. live = info.id => LeavesLabel(down', info.id, info.hz, dial[info.id])
      BY <2>1, <2>2, <2>3, LabelSaid DEF Labels
    <3>2. \A g \in Gens : Alive(g)' => Alive(g) /\ pumps'[g].rts = pumps[g].rts
      BY <1>1 DEF Alive
    <3> QED BY <1>1, <3>1, <3>2, LastWordKept
  <2> QED BY <2>6, <2>7 DEF LabelInv
<1> QED BY <1>2, <1>3

LEMMA SpawnLabels == ASSUME SInv, Spawn PROVE LabelInv'
<1>1. /\ conv = "subscribing" /\ asked \in Transports /\ Served(asked) /\ Fresh \in Gens
  BY ServedAs DEF Spawn, Transports, Gens
<1>2. ~heard
  BY <1>1 DEF SInv, LastPump
<1>3. UNCHANGED <<world, dial, down, info, heard>>
  BY DEF Spawn, owner, wire, client
<1>4. Still => \A g \in Gens : pumps'[g].rts = <<>>
  <2>1. \A g \in Gens : pumps'[g] = pumps[g] \/ pumps'[g] = [Idle EXCEPT !.st = "new", !.id = info.id,
                            !.via = asked, !.dest = asked = "tcp" \/ early]
    BY <1>1 DEF Spawn, SInv, Typed, ServerTyped
  <2>2. [Idle EXCEPT !.st = "new", !.id = info.id, !.via = asked, !.dest = asked = "tcp" \/ early].rts = <<>>
    BY DEF Idle
  <2> QED BY <1>1, <1>2, <2>1, <2>2 DEF SInv, Unmoved
<1>5. Unmoved'
  BY <1>1, <1>2, <1>3, <1>4, UnmovedKept DEF SInv, Unmoved
<1>6. LastWord'
  BY <1>2, <1>3 DEF LastWord
<1> QED BY <1>5, <1>6 DEF LabelInv

LEMMA ConverseLabels == ASSUME SInv, Converse \/ Tear PROVE LabelInv'
<1>ty. OwnerTyped /\ ServerTyped /\ WireTyped /\ ClientTyped
  BY DEF SInv, Typed
<1>id. 0 \in 0..MaxStreams /\ info.id \in 0..MaxStreams /\ (sub = 0 \/ sub \in Gens)
  BY <1>ty, SessionConstants DEF ClientTyped, ServerTyped
<1>ab. \A k \in {"STREAMS", "SUBSCRIBED", "UNSUBSCRIBED", "ERROR", "PING", "PONG"}, n \in 0..MaxStreams :
         /\ About(k, n) \in Messages /\ About(k, n).kind \notin {"TUNED", "STREAM_CHANGED", "WELCOME"}
  BY AboutTyped, KindsKnown
<1>an. \A k \in {"STREAMS", "SUBSCRIBED", "UNSUBSCRIBED", "ERROR", "PING", "PONG"}, n \in 0..MaxStreams :
         Send(<<About(k, n)>>) => \E m \in Seq(Messages) : down' = down \o m /\ Mute(m)
  BY <1>ab, MuteFrames DEF Send
<1>1. ASSUME ~Welcome, ~PassOnChange, ~Spawn PROVE LabelInv'
  <2>1. \A g \in Gens : pumps'[g].st = pumps[g].st /\ pumps'[g].rts = pumps[g].rts
    <3>1. pumps' = pumps \/ pumps' = StopAny \/ (sub # 0 /\ pumps' = Stop(sub))
      BY <1>1 DEF Converse, Welcome, Listen, PassOnSet, Dropped, TakeSubscribe,
         Replaced, TakeUnsubscribe, Left, TakePing, TakeTorn, TakeEof, Ping, IdleTimeout, Close,
              Tear
    <3> QED BY <1>id, <1>ty, <3>1, StopTyped
  <2>2. sub' = sub \/ sub' = 0
    BY <1>1 DEF Converse, Listen, PassOnSet, Dropped, TakeSubscribe,
       Replaced, TakeUnsubscribe, Left, TakePing, TakeTorn, TakeEof, Ping, IdleTimeout, Close, Tear
  <2>3. conv # "greet" /\ UNCHANGED <<world, live, dial, client>>
    BY <1>1 DEF Converse, Listen, PassOnSet, Dropped, TakeSubscribe, Ready,
       Replaced, TakeUnsubscribe, Left, TakePing, TakeTorn, TakeEof, Ping, IdleTimeout, Close,
            Tear, owner
  <2>4. \/ down' = down
        \/ \E m \in Seq(Messages) : down' = down \o m /\ Mute(m)
    <3>1. CASE Listen \/ TakeUnsubscribe \/ TakeTorn \/ TakeEof \/ IdleTimeout \/ Close
      BY <3>1 DEF Listen, TakeUnsubscribe, TakeTorn, TakeEof, IdleTimeout, Close, wire
    <3>2. CASE PassOnSet
      <4>1. down' = down \/ Send(<<About("STREAMS", 0)>>)
        BY <3>2 DEF PassOnSet
      <4> QED BY <1>an, <1>id, <4>1
    <3>3. CASE Dropped
      <4>1. sub \in Gens /\ pumps[sub].id = info.id
        BY <1>id, <3>3 DEF Dropped, SInv, SwitchHeld
      <4>2. Send(<<About("UNSUBSCRIBED", info.id), About("STREAMS", 0)>>)
        BY <3>3, <4>1 DEF Dropped
      <4>3. /\ About("UNSUBSCRIBED", info.id) \in Messages /\ About("STREAMS", 0) \in Messages
            /\ About("UNSUBSCRIBED", info.id).kind \notin {"TUNED", "STREAM_CHANGED", "WELCOME"}
            /\ About("STREAMS", 0).kind \notin {"TUNED", "STREAM_CHANGED", "WELCOME"}
        BY <1>ab, <1>id
      <4> QED BY <4>2, <4>3, MuteFrames DEF Send
    <3>4. CASE TakeSubscribe
      <4>1. down' = down \/ Send(<<About("ERROR", 0)>>) \/ Send(<<About("SUBSCRIBED", info.id)>>)
        BY <3>4 DEF TakeSubscribe, Accept
      <4> QED BY <1>an, <1>id, <4>1
    <3>5. CASE Replaced
      <4>1. Send(<<About("SUBSCRIBED", info.id)>>)
        BY <3>5 DEF Replaced, Accept
      <4> QED BY <1>an, <1>id, <4>1
    <3>6. CASE Left
      <4>1. Send(<<About("UNSUBSCRIBED", info.id)>>)
        BY <3>6 DEF Left
      <4> QED BY <1>an, <1>id, <4>1
    <3>7. CASE TakePing \/ Ping \/ Tear
      <4>1. Send(<<About("PING", 0)>>) \/ Send(<<About("PONG", 0)>>)
        BY <3>7 DEF TakePing, Ping, Tear
      <4> QED BY <1>an, <1>id, <4>1
    <3> QED BY <1>1, <3>1, <3>2, <3>3, <3>4, <3>5, <3>6, <3>7 DEF Converse
  <2> QED BY <2>1, <2>2, <2>3, <2>4, MuteStep
<1> QED BY <1>1, WelcomeLabels, PassOnChangeLabels, SpawnLabels

LEMMA TellLabels == ASSUME SInv, NEW g \in Gens, Tell(g) PROVE LabelInv'
<1> DEFINE r == pumps[g].rts
           a == Said("TUNED", pumps[g].id, Head(r))
<1>ty. OwnerTyped /\ ServerTyped /\ WireTyped /\ ClientTyped
  BY DEF SInv, Typed
<1>1. /\ pumps[g].st = "running" /\ r # <<>> /\ Send(<<a>>)
      /\ pumps' = [pumps EXCEPT ![g].rts = Tail(@)]
      /\ UNCHANGED <<world, live, dial, conv, sub, cst, info, heard>>
  BY DEF Tell, owner, client
<1>2. pumps[g] \in PumpRecords /\ r \in Seq(Freqs)
  BY <1>ty DEF ServerTyped, PumpRecords
<1>3. /\ Head(r) \in Freqs /\ Head(r) = r[1] /\ Len(Tail(r)) = Len(r) - 1 /\ Len(r) \in Nat /\ Len(r) > 0
      /\ \A i \in 1..Len(Tail(r)) : Tail(r)[i] = r[i + 1]
      /\ pumps[g].id \in 0..MaxStreams
  BY <1>1, <1>2, Popped DEF PumpRecords
<1>4. a \in Messages /\ a.kind = "TUNED" /\ a.id = pumps[g].id /\ a.hz = Head(r)
  BY <1>3, SaidTyped, KindsKnown
<1>5. pumps'[g].rts = Tail(r)
  BY <1>1, <1>2, <1>ty DEF ServerTyped, PumpRecords
<1>6. Tail(r) \in Seq(Freqs)
  BY <1>1, <1>2, Popped
<1> HIDE DEF a
<1>7. down' = down \o <<a>> /\ down \in Seq(Messages)
  BY <1>1, <1>ty DEF Send, WireTyped
<1>8. Unmoved'
  BY <1>1 DEF SInv, Unmoved, Still
<1>9. LastWord'
  <2> SUFFICES ASSUME Still', heard', cst' = "reading", live' = info'.id, sub' # 0, Alive(sub)'
               PROVE  IF pumps'[sub'].rts # <<>>
                      THEN pumps'[sub'].rts[Len(pumps'[sub'].rts)] = dial'[info'.id]
                      ELSE LeavesLabel(down', info'.id, info'.hz, dial'[info'.id])
    BY DEF LastWord
  <2>1. sub # 0 /\ sub' = sub /\ heard /\ Still /\ live = info.id /\ cst = "reading"
    BY <1>1 DEF Still
  <2>2. g = sub
    BY <1>1, <2>1 DEF SInv, SwitchHeld, Alive
  <2>3. Alive(sub) /\ pumps[g].id = info.id
    BY <1>1, <2>2 DEF Alive, SInv, SwitchHeld, Spawned
  <2>4. r[Len(r)] = dial[info.id]
    BY <1>1, <2>1, <2>2, <2>3 DEF SInv, LastWord
  <2>5. CASE Tail(r) # <<>>
    <3>1. Len(Tail(r)) > 0
      BY <1>6, <2>5, EmptySeq, LenProperties
    <3>2. Tail(r)[Len(Tail(r))] = r[Len(r)]
      BY <1>3, <3>1
    <3> QED BY <1>1, <1>5, <2>1, <2>2, <2>4, <2>5, <3>2
  <2>6. CASE Tail(r) = <<>>
    <3>1. Len(r) = 1
      <4>1. Len(Tail(r)) = 0
        BY <2>6, EmptySeq
      <4> QED BY <1>3, <4>1
    <3>2. a.hz = dial[info.id] /\ Labels(a, info.id)
      BY <1>3, <1>4, <2>3, <2>4, <3>1 DEF Labels
    <3>3. LeavesLabel(down', info.id, info.hz, dial[info.id])
      BY <1>4, <1>7, <3>2, LabelSaid
    <3> QED BY <1>1, <1>5, <2>1, <2>2, <2>6, <3>3
  <2> QED BY <2>5, <2>6
<1> QED BY <1>8, <1>9 DEF LabelInv

LEMMA PumpLabels == ASSUME SInv, (\E g \in Gens : PumpStep(g)) \/ PunchArrives PROVE LabelInv'
<1>ty. OwnerTyped /\ ServerTyped /\ WireTyped /\ ClientTyped
  BY DEF SInv, Typed
<1>pu. \A g \in Gens : pumps[g] \in PumpRecords
  BY <1>ty DEF ServerTyped
<1>1. ASSUME ~ \E g \in Gens : Tell(g) PROVE LabelInv'
  <2>1. UNCHANGED <<world, live, dial, conv, sub, down, cst, info, heard>>
    BY <1>1 DEF PumpStep, Pump, Begin, Punched, Finish, Sample, PunchArrives, owner, server, wire,
         client
  <2>2. \A g \in Gens : \/ pumps'[g].st = "done" /\ pumps'[g].rts = <<>>
                        \/ pumps'[g].rts = pumps[g].rts /\ (Alive(g)' => Alive(g))
    <3> DEFINE Kept ==
          \A g \in Gens : \/ pumps'[g].st = "done" /\ pumps'[g].rts = <<>>
                          \/ pumps'[g].rts = pumps[g].rts /\ (Alive(g)' => Alive(g))
    <3>1. ASSUME NEW g \in Gens, Begin(g) PROVE Kept
      <4>1. PICK s \in {"running", "waiting"} : pumps' = [pumps EXCEPT ![g].st = s]
        BY <3>1 DEF Begin
      <4>2. \A h \in Gens : pumps'[h] = IF h = g THEN [pumps[g] EXCEPT !.st = s] ELSE pumps[h]
        BY <1>ty, <4>1 DEF ServerTyped
      <4>3. pumps'[g].rts = pumps[g].rts /\ pumps[g].st = "new"
        BY <1>pu, <3>1, <4>2 DEF PumpRecords, Begin
      <4> QED BY <4>2, <4>3 DEF Alive
    <3>2. ASSUME NEW g \in Gens, Punched(g) PROVE Kept
      BY <1>ty, <1>pu, <3>2 DEF Punched, ServerTyped, PumpRecords, Alive
    <3>3. ASSUME NEW g \in Gens, Finish(g) PROVE Kept
      BY <1>ty, <1>pu, <3>3 DEF Finish, ServerTyped, PumpRecords, Alive
    <3>4. ASSUME NEW g \in Gens, Sample(g) PROVE Kept
      BY <3>4 DEF Sample, server, Alive
    <3>5. ASSUME PunchArrives PROVE Kept
      <4>1. pumps' = pumps \/ (expects \in Gens /\ pumps' = [pumps EXCEPT ![expects].dest = TRUE])
        BY <1>ty, <3>5 DEF PunchArrives, ServerTyped
      <4>2. ASSUME NEW g \in Gens PROVE pumps'[g].st = pumps[g].st /\ pumps'[g].rts = pumps[g].rts
        <5>1. CASE pumps' = pumps
          BY <5>1
        <5>2. CASE expects \in Gens /\ pumps' = [pumps EXCEPT ![expects].dest = TRUE]
          <6>1. pumps'[g] = IF g = expects THEN [pumps[g] EXCEPT !.dest = TRUE] ELSE pumps[g]
            BY <1>ty, <5>2 DEF ServerTyped
          <6> QED BY <1>pu, <6>1 DEF PumpRecords
        <5> QED BY <4>1, <5>1, <5>2
      <4> QED BY <4>2 DEF Alive
    <3>6. Kept
      <4> HIDE DEF Kept
      <4> QED BY <1>1, <3>1, <3>2, <3>3, <3>4, <3>5 DEF PumpStep, Pump
    <3> QED BY <3>6
  <2>3. Unmoved'
    BY <2>1, <2>2 DEF SInv, Unmoved, Still
  <2>4. LastWord'
    <3>1. \A g \in Gens : Alive(g)' => Alive(g) /\ pumps'[g].rts = pumps[g].rts
      BY <2>2 DEF Alive
    <3> QED BY <2>1, <3>1, LastWordKept
  <2> QED BY <2>3, <2>4 DEF LabelInv
<1> QED BY <1>1, TellLabels

LEMMA TakeWelcomeLabels == ASSUME SInv, TakeWelcome PROVE LabelInv'
<1>1. /\ cst = "greeting" /\ cst' # "reading" /\ down # <<>> /\ down' = Tail(down)
      /\ info' = info \/ info' = [id |-> Head(down).id, hz |-> Head(down).hz]
      /\ UNCHANGED <<world, conv, pumps, dial, heard>>
  BY DEF TakeWelcome, owner, server
<1>2. down \in Seq(Messages) /\ info.id = 0 /\ (conv # "greet" => Head(down).kind = "WELCOME")
  BY <1>1 DEF SInv, Typed, WireTyped, Turns, Greeting
<1>3. Unmoved'
  <2>1. Truthful(down, dial) /\ conv # "greet" => Truthful(down', dial) /\ (info'.id # 0 => info'.hz = dial[info'.id])
    BY <1>1, <1>2, TruthfulFewer
  <2> QED BY <1>1, <2>1 DEF SInv, Unmoved, Still
<1>4. LastWord'
  BY <1>1 DEF LastWord
<1> QED BY <1>3, <1>4 DEF LabelInv

LEMMA HearLabels == ASSUME SInv, Hear PROVE LabelInv'
<1> DEFINE m == Head(down)
<1>1. /\ cst = "reading" /\ down # <<>> /\ down' = Tail(down)
      /\ info' = IF m.kind \in {"TUNED", "STREAM_CHANGED"} /\ m.id = info.id
                 THEN [info EXCEPT !.hz = m.hz] ELSE info
      /\ UNCHANGED <<world, live, conv, sub, pumps, dial, heard>>
  BY DEF Hear, Polled, owner, server, client
<1>2. down \in Seq(Messages) /\ info.id # 0
  BY <1>1 DEF SInv, Typed, WireTyped, Turns, Answered
<1>3. info'.id = info.id /\ info'.hz = IF Labels(m, info.id) THEN m.hz ELSE info.hz
  BY <1>1 DEF SInv, Typed, ClientTyped, Labels
<1>4. Unmoved'
  <2>1. Truthful(down, dial) => Truthful(down', dial) /\ (Labels(m, info.id) => m.hz = dial[info.id])
    BY <1>1, <1>2, TruthfulFewer DEF Labels
  <2> QED BY <1>1, <1>2, <1>3, <2>1 DEF SInv, Unmoved, Still
<1>5. LastWord'
  <2>1. ASSUME LeavesLabel(down, info.id, info.hz, dial[info.id])
        PROVE  LeavesLabel(down', info'.id, info'.hz, dial'[info'.id])
    BY <1>1, <1>2, <1>3, <2>1, LabelHeard
  <2> QED BY <1>1, <1>3, <2>1 DEF SInv, LastWord, Still, Alive
<1> QED BY <1>4, <1>5 DEF LabelInv

LEMMA HearBlockLabels == ASSUME SInv, HearBlock PROVE LabelInv'
<1>1. /\ cst = "reading" /\ heard' /\ UNCHANGED <<world, live, conv, sub, pumps, dial, down, cst, info>>
  BY DEF HearBlock, Polled, owner, server, wire
<1>2. Unmoved'
  BY <1>1 DEF Unmoved
<1>3. LastWord'
  <2>1. CASE heard
    BY <1>1, <2>1 DEF SInv, LastWord, Still, Alive
  <2>2. CASE ~heard
    <3>1. info.id # 0 /\ conv # "greet" /\ down \in Seq(Messages) /\ sub \in {0} \cup Gens
      BY <1>1 DEF SInv, Turns, Answered, Greeting, Typed, WireTyped, ServerTyped
    <3>2. ASSUME Still
          PROVE  /\ \A g \in Gens : pumps[g].rts = <<>>
                 /\ LeavesLabel(down, info.id, info.hz, dial[info.id])
      BY <2>2, <3>1, <3>2, TruthfulLeaves DEF SInv, Unmoved
    <3> QED BY <1>1, <3>1, <3>2 DEF LastWord, Still
  <2> QED BY <2>1, <2>2
<1> QED BY <1>2, <1>3 DEF LabelInv

LEMMA ClientLabels == ASSUME SInv, ClientStep PROVE LabelInv'
<1>1. ASSUME ~TakeWelcome, ~Hear, ~HearBlock PROVE LabelInv'
  <2>1. /\ UNCHANGED <<world, live, conv, sub, pumps, dial, info, heard>>
        /\ (cst' = "reading" => cst = "reading") \/ cst = "asking"
    BY <1>1 DEF ClientStep, Reader, TakeReply, HangUp, FallBack, SendPunch,
       Unsubscribe, KeepAlive, Leave, Stall, Discard, LoseDatagram, owner, server, client
  <2>2. \/ down' = down
        \/ down # <<>> /\ down' = Tail(down) /\ cst' # "reading"
        \/ down # <<>> /\ down' = Tail(down) /\ cst = "asking"
    BY <1>1 DEF ClientStep, Reader, TakeReply, HangUp, FallBack, SendPunch,
       Unsubscribe, KeepAlive, Leave, Stall, Discard, LoseDatagram, wire, client
  <2>3. cst = "asking" => ~heard
    BY DEF SInv, LastPump
  <2>4. Unmoved'
    <3>1. down \in Seq(Messages)
      BY DEF SInv, Typed, WireTyped
    <3>2. Truthful(down, dial) => Truthful(down', dial)
      BY <2>2, <3>1, TruthfulFewer
    <3> QED BY <2>1, <3>2 DEF SInv, Unmoved, Still
  <2>5. LastWord'
    BY <2>1, <2>2, <2>3 DEF SInv, LastWord, Still, Alive
  <2> QED BY <2>4, <2>5 DEF LabelInv
<1> QED BY <1>1, TakeWelcomeLabels, HearLabels, HearBlockLabels DEF ClientStep, Reader

-----------------------------------------------------------------------------
(* The invariant holds to begin with, and every step keeps it.             *)

LEMMA InitSInv == Init => SInv
<1> SUFFICES ASSUME Init PROVE SInv
  OBVIOUS
<1>0. /\ live = 1 /\ made = 1 /\ conv = "greet" /\ chg = <<>> /\ sub = 0 /\ asked = "udp"
      /\ pumps = [g \in Gens |-> Idle] /\ silent = 0 /\ expects = 0 /\ early = FALSE
      /\ up = <<>> /\ down = <<>> /\ inl = FALSE /\ air = FALSE /\ punch = FALSE
      /\ cst = "greeting" /\ info = [id |-> 0, hz |-> NoHz] /\ via = "udp"
      /\ armed = FALSE /\ heard = FALSE /\ stalled = FALSE
  BY DEF Init
<1>1. \A g \in Gens : pumps[g] = Idle
  BY <1>0
<1>2. Idle \in PumpRecords /\ Idle.st = "none" /\ Idle.rts = <<>>
  <2>1. <<>> \in Seq(Freqs) /\ 0 \in 0..MaxStreams
    BY EmptySeq, SessionConstants
  <2> QED BY <2>1 DEF Idle, PumpRecords, Transports
<1>3. \A g \in Gens : pumps[g].st = "none" /\ pumps[g].rts = <<>>
  BY <1>1, <1>2
<1>4. \A g \in Gens : ~Spawned(g) /\ ~Alive(g) /\ ~Subscribed(g)
  BY <1>3 DEF Spawned, Alive, Subscribed
<1>5. 1 \in Gens /\ 2 \in Gens /\ \A t : ~Served(t)
  BY <1>0 DEF Gens, Served
<1>6. Len(up) = 0 /\ Len(down) = 0 /\ up \in Seq(Requests) /\ down \in Seq(Messages)
  BY <1>0, EmptySeq
<1>7. Typed
  <2>1. OwnerTyped
    <3>1. dial \in [Ids -> Freqs] /\ world \in Worlds /\ retunes = 0 /\ news = 0 /\ 1 \in Ids
      BY SessionConstants DEF Init, Ids
    <3> QED BY <1>0, <3>1, SessionConstants, EmptySeq DEF OwnerTyped
  <2>2. ServerTyped
    <3>1. pumps \in [Gens -> PumpRecords]
      BY <1>0, <1>2
    <3>2. "udp" \in Transports /\ "greet" \in ConvPlaces /\ 0 \in 0..3
      BY DEF Transports, ConvPlaces
    <3> QED BY <1>0, <3>1, <3>2 DEF ServerTyped
  <2>3. WireTyped
    BY <1>0, <1>6 DEF WireTyped
  <2>4. ClientTyped
    <3>1. 0 \in 0..MaxStreams
      BY SessionConstants
    <3>2. info \in [id : 0..MaxStreams, hz : Freqs \cup {NoHz}]
      BY <1>0, <3>1
    <3> QED BY <1>0, <3>2 DEF ClientTyped, ClientPlaces, Transports
  <2> QED BY <2>1, <2>2, <2>3, <2>4 DEF Typed
<1>8. NamesNoNew /\ FewWait
  BY <1>0, <1>6 DEF NamesNoNew, NoNew, FewWait, OneOfAPump, TwoOfConverse, WaitsIn
<1>9. Turns
  BY <1>0, <1>4, <1>5, <1>6 DEF Turns, EachOnce, FirstAsk, SecondAsk, Greeting, Answered, Asks, Says
<1>10. SwitchHeld /\ OnePump
  BY <1>0, <1>3, <1>4, <1>5 DEF SwitchHeld, OnePump
<1>11. LastPump /\ Unmoved /\ LastWord
  BY <1>0 DEF LastPump, Unmoved, LastWord
<1> QED BY <1>7, <1>8, <1>9, <1>10, <1>11 DEF SInv

LEMMA NextSInv == SInv /\ [Next]_vars => SInv'
<1>1. ASSUME SInv, Next PROVE SInv'
  <2>1. \/ Owner \/ Converse \/ Tear \/ (\E g \in Gens : PumpStep(g)) \/ PunchArrives \/ ClientStep
    BY <1>1 DEF Next, PumpStep, ClientStep
  <2>2. Typed'
    BY <1>1, <2>1, OwnerTypes, ConverseTypes, PumpTypes, ClientTypes DEF SInv
  <2>3. QueueInv'
    BY <1>1, <2>1, OwnerQueue, ConverseQueue, PumpQueue, ClientQueue
  <2>4. HoldInv'
    BY <1>1, <2>1, OwnerHolds, ConverseHolds, PumpHolds, ClientHolds
  <2>5. LastPump'
    BY <1>1, <2>1, OwnerLast, ConverseLast, PumpLast, ClientLast
  <2>6. LabelInv'
    BY <1>1, <2>1, OwnerLabels, ConverseLabels, PumpLabels, ClientLabels
  <2> QED BY <2>2, <2>3, <2>4, <2>5, <2>6 DEF SInv, QueueInv, HoldInv, LabelInv
<1>2. ASSUME SInv, UNCHANGED vars PROVE SInv'
  <2> USE <1>2 DEF vars, owner, server, table, wire, data, client
  <2>1. Typed' /\ NamesNoNew' /\ FewWait'
    BY DEF SInv, Typed, OwnerTyped, ServerTyped, WireTyped, ClientTyped, NamesNoNew, NoNew, FewWait,
           OneOfAPump, TwoOfConverse, WaitsIn
  <2>2. Turns' /\ SwitchHeld' /\ OnePump' /\ LastPump'
    BY DEF SInv, Turns, FirstAsk, SecondAsk, Greeting, Answered, SwitchHeld, OnePump, LastPump,
           Served, Spawned, Alive, Subscribed
  <2>3. Unmoved' /\ LastWord'
    BY DEF SInv, Unmoved, LastWord, Still, Alive
  <2> QED BY <2>1, <2>2, <2>3 DEF SInv
<1> QED BY <1>1, <1>2

-----------------------------------------------------------------------------
(* What follows.                                                           *)

(* The types of the invariant are those of the module. *)
LEMMA TypedIsTypeOK == SInv => TypeOK
<1> SUFFICES ASSUME SInv PROVE TypeOK
  OBVIOUS
<1>1. OwnerTyped /\ ServerTyped /\ WireTyped /\ ClientTyped
  BY DEF SInv, Typed
<1>2. Len(down) <= OutDepth + 3
  BY <1>1, QueueBound DEF SInv, FewWait, WireTyped
<1>3. \A g \in Gens :
        /\ pumps[g].st \in {"none", "new", "waiting", "running", "done"}
        /\ pumps[g].id \in 0..MaxStreams /\ pumps[g].via \in Transports
        /\ pumps[g].rts \in Seq(Freqs)
  BY <1>1 DEF ServerTyped, PumpRecords
<1> QED BY <1>1, <1>2, <1>3 DEF TypeOK, OwnerTyped, ServerTyped, WireTyped, ClientTyped,
     ConvPlaces, ClientPlaces

(* A reader that was told all there is to tell has the right label. *)
LEMMA LabelsTrue == SInv => LabelFollowsDial
<1> SUFFICES ASSUME SInv, Still, cst = "reading", Quiet, live = info.id
             PROVE  info.hz = dial[info.id]
  BY DEF LabelFollowsDial, ReaderKnowsDial, Still
<1>1. conv = "idle" /\ down = <<>> /\ sub # 0 /\ Alive(sub) /\ info.id # 0
  BY DEF Quiet, Subscribed, Alive, SInv, Turns, Answered
<1>2. sub \in Gens /\ pumps[sub].rts = <<>>
  BY <1>1 DEF Quiet, SInv, Typed, ServerTyped
<1>3. CASE heard
  <2>1. LeavesLabel(down, info.id, info.hz, dial[info.id])
    BY <1>1, <1>2, <1>3 DEF SInv, LastWord
  <2> QED BY <1>1, <2>1, EmptySeq DEF LeavesLabel
<1>4. CASE ~heard
  BY <1>1, <1>4 DEF SInv, Unmoved
<1> QED BY <1>3, <1>4

(* The invariant holds in every reachable state. *)
THEOREM SessionInvariant == Spec => []SInv
BY InitSInv, NextSInv, PTL DEF Spec

(* Every variable keeps its type.  No more than three frames ever wait for *)
(* room in the out queue: one of a pump, which does nothing else until it  *)
(* has room, and the two converse sends when it drops a tuner that went.   *)
THEOREM SessionTypes == Spec => []TypeOK
BY SessionInvariant, TypedIsTypeOK, PTL

(* A connection never has two pumps alive, which would both send to the    *)
(* reader: a subscribe that replaces another waits for the pump it stops,  *)
(* and the fallback's subscribe is served once the first is.               *)
THEOREM PumpsAreOne == Spec => []OnePump
<1>1. SInv => OnePump
  BY DEF SInv
<1> QED BY <1>1, SessionInvariant, PTL

(* Where the dial stands still from the welcome to the first block, a      *)
(* reader that has been told all there is to tell labels its blocks with   *)
(* the frequency of the stream, however often the dial moved since.        *)
THEOREM LabelsFollow == Spec => []LabelFollowsDial
BY LabelsTrue, SessionInvariant, PTL
=============================================================================
