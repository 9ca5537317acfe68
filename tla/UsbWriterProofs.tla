-------------------------- MODULE UsbWriterProofs ---------------------------
(***************************************************************************)
(* The transmit stream puts every sample where it belongs, for any number  *)
(* and size of transfers, any channel bound and any chunks.                *)
(***************************************************************************)
EXTENDS UsbWriter, SequenceTheorems, FiniteSetTheorems, FunctionTheorems, TLAPS

-----------------------------------------------------------------------------
(* Runs of samples.                                                        *)

\* A run of the samples after m up to n.
LEMMA RunIs ==
  ASSUME NEW m \in Nat, NEW n \in Nat, m <= n
  PROVE  /\ Run(m, n) \in Seq(Nat)
         /\ Len(Run(m, n)) = n - m
         /\ \A i \in 1 .. n - m : Run(m, n)[i] = m + i
<1>1. n - m \in Nat OBVIOUS
<1>2. Run(m, n) \in [1 .. n - m -> Nat] BY DEF Run
<1>3. Run(m, n) \in Seq(Nat) BY <1>1, <1>2
<1> QED BY <1>1, <1>2, <1>3 DEF Run

\* Its samples are among those the producer may write.
LEMMA RunOfSamples ==
  ASSUME NEW m \in Nat, NEW n \in Nat, m <= n, n <= MaxSamples
  PROVE  Run(m, n) \in Seq(Samples)
<1>1. n - m \in Nat OBVIOUS
<1>2. Run(m, n) \in [1 .. n - m -> Samples] BY WriterAssumption DEF Run, Samples
<1> QED BY <1>1, <1>2

\* Two sequences of numbers with the same elements are the same.
LEMMA RunEqual ==
  ASSUME NEW m \in Nat, NEW n \in Nat, m <= n, NEW s \in Seq(Nat),
         Len(s) = n - m, \A i \in 1 .. n - m : s[i] = m + i
  PROVE  s = Run(m, n)
<1>1. \A i \in 1 .. Len(s) : s[i] = Run(m, n)[i] BY RunIs
<1>2. Run(m, n) \in Seq(Nat) /\ Len(s) = Len(Run(m, n)) BY RunIs
<1> QED BY <1>1, <1>2, SeqEqual

\* What was received follows what was left over.
LEMMA RunJoin ==
  ASSUME NEW a \in Nat, NEW b \in Nat, NEW c \in Nat, a <= b, b <= c
  PROVE  Run(a, b) \o Run(b, c) = Run(a, c)
<1> DEFINE s == Run(a, b) \o Run(b, c)
<1>1. /\ Run(a, b) \in Seq(Nat) /\ Len(Run(a, b)) = b - a
      /\ \A i \in 1 .. b - a : Run(a, b)[i] = a + i
  BY RunIs
<1>2. /\ Run(b, c) \in Seq(Nat) /\ Len(Run(b, c)) = c - b
      /\ \A i \in 1 .. c - b : Run(b, c)[i] = b + i
  BY RunIs
<1>3. /\ s \in Seq(Nat) /\ Len(s) = c - a
      /\ \A i \in 1 .. c - a :
            s[i] = IF i <= b - a THEN Run(a, b)[i] ELSE Run(b, c)[i - (b - a)]
  <2>1. Len(Run(a, b)) + Len(Run(b, c)) = c - a BY <1>1, <1>2
  <2>2. /\ s \in Seq(Nat) /\ Len(s) = Len(Run(a, b)) + Len(Run(b, c))
        /\ \A i \in 1 .. Len(Run(a, b)) + Len(Run(b, c)) :
              s[i] = IF i <= Len(Run(a, b)) THEN Run(a, b)[i]
                     ELSE Run(b, c)[i - Len(Run(a, b))]
    BY <1>1, <1>2, ConcatProperties
  <2> HIDE DEF s
  <2> QED BY <1>1, <2>1, <2>2
<1>4. \A i \in 1 .. c - a : s[i] = a + i
  <2> SUFFICES ASSUME NEW i \in 1 .. c - a PROVE s[i] = a + i OBVIOUS
  <2>1. CASE i <= b - a BY <1>1, <1>3, <2>1
  <2>2. CASE ~(i <= b - a)
    <3>1. i - (b - a) \in 1 .. c - b BY <2>2
    <3> QED BY <1>2, <1>3, <2>2, <3>1
  <2> QED BY <2>1, <2>2
<1>5. a <= c OBVIOUS
<1> HIDE DEF s
<1>6. s = Run(a, c) BY <1>3, <1>4, <1>5, RunEqual
<1> QED BY <1>6 DEF s

\* A transfer is cut off the front of what is left over.
LEMMA RunCut ==
  ASSUME NEW a \in Nat, NEW b \in Nat, NEW k \in Nat, a + k <= b
  PROVE  /\ SubSeq(Run(a, b), 1, k) = Run(a, a + k)
         /\ SubSeq(Run(a, b), k + 1, b - a) = Run(a + k, b)
<1> DEFINE s == Run(a, b)
<1>1. s \in Seq(Nat) /\ Len(s) = b - a /\ \A i \in 1 .. b - a : s[i] = a + i
  BY RunIs
<1> HIDE DEF s
<1>2. SubSeq(s, 1, k) = Run(a, a + k)
  <2>1. \A i \in 1 .. k : s[i] \in Nat BY <1>1
  <2>2. /\ SubSeq(s, 1, k) \in Seq(Nat)
        /\ Len(SubSeq(s, 1, k)) = IF 1 <= k THEN k - 1 + 1 ELSE 0
        /\ \A i \in 1 .. k - 1 + 1 : SubSeq(s, 1, k)[i] = s[1 + i - 1]
    BY <2>1, SubSeqProperties
  <2>3. a + k \in Nat /\ a <= a + k /\ (a + k) - a = k OBVIOUS
  <2>4. Len(SubSeq(s, 1, k)) = k /\ \A i \in 1 .. k : SubSeq(s, 1, k)[i] = a + i
    BY <1>1, <2>2
  <2>5. /\ Len(SubSeq(s, 1, k)) = (a + k) - a
        /\ \A i \in 1 .. (a + k) - a : SubSeq(s, 1, k)[i] = a + i
    BY <2>3, <2>4
  <2> QED BY <2>2, <2>3, <2>5, RunEqual
<1>3. SubSeq(s, k + 1, b - a) = Run(a + k, b)
  <2>1. \A i \in k + 1 .. b - a : s[i] \in Nat BY <1>1
  <2>2. /\ SubSeq(s, k + 1, b - a) \in Seq(Nat)
        /\ Len(SubSeq(s, k + 1, b - a)) = IF k + 1 <= b - a THEN b - a - (k + 1) + 1 ELSE 0
        /\ \A i \in 1 .. b - a - (k + 1) + 1 :
              SubSeq(s, k + 1, b - a)[i] = s[k + 1 + i - 1]
    BY <2>1, SubSeqProperties
  <2>3. /\ Len(SubSeq(s, k + 1, b - a)) = b - (a + k)
        /\ \A i \in 1 .. b - (a + k) : SubSeq(s, k + 1, b - a)[i] = a + k + i
    BY <1>1, <2>2
  <2>4. a + k \in Nat /\ a + k <= b OBVIOUS
  <2> QED BY <2>2, <2>3, <2>4, RunEqual
<1> QED BY <1>2, <1>3 DEF s

\* An empty queue holds the samples between two equal places.
LEMMA RunsEmpty == \A f \in Nat : Runs(<<>>, f, f)
<1> SUFFICES ASSUME NEW f \in Nat PROVE Runs(<<>>, f, f) OBVIOUS
<1> DEFINE at == [i \in 0 .. 0 |-> f]
<1>1. at \in [0 .. Len(<<>>) -> f .. f] /\ at[0] = f /\ at[Len(<<>>)] = f OBVIOUS
<1>2. \A i, j \in 0 .. Len(<<>>) : i <= j => at[i] <= at[j] OBVIOUS
<1>3. \A j \in 1 .. Len(<<>>) : <<>>[j] = Run(at[j - 1], at[j]) OBVIOUS
<1> QED BY <1>1, <1>2, <1>3 DEF Runs

\* A run put at the end of a queue.
LEMMA RunsAppend ==
  ASSUME NEW S, NEW q \in Seq(S), NEW f \in Nat, NEW a \in Nat, NEW b \in Nat,
         f <= a, a <= b, Runs(q, f, a), Run(a, b) \in S
  PROVE  Runs(Append(q, Run(a, b)), f, b)
<1> DEFINE n == Len(q)
           r == Append(q, Run(a, b))
<1>1. n \in Nat BY LenProperties
<1>2. Len(r) = n + 1 /\ r[n + 1] = Run(a, b) /\ \A j \in 1 .. n : r[j] = q[j]
  OBVIOUS
<1>3. PICK at \in [0 .. n -> f .. a] :
        /\ at[0] = f /\ at[n] = a
        /\ \A i, j \in 0 .. n : i <= j => at[i] <= at[j]
        /\ \A j \in 1 .. n : q[j] = Run(at[j - 1], at[j])
  BY DEF Runs
<1> DEFINE to == [j \in 0 .. n + 1 |-> IF j = n + 1 THEN b ELSE at[j]]
<1> HIDE DEF n, r
<1>4. \A j \in 0 .. n : at[j] \in f .. a OBVIOUS
<1>5. \A j \in 0 .. n + 1 : j = n + 1 \/ j \in 0 .. n BY <1>1
<1>6. to[n + 1] = b /\ \A j \in 0 .. n : to[j] = at[j] BY <1>1
<1>7. to \in [0 .. n + 1 -> f .. b] BY <1>4, <1>5
<1> HIDE DEF to
<1>8. to[0] = f BY <1>1, <1>3, <1>6
<1>9. ASSUME NEW i \in 0 .. n + 1, NEW j \in 0 .. n + 1, i <= j PROVE to[i] <= to[j]
  <2>1. CASE j = n + 1 BY <1>6, <1>7, <2>1
  <2>2. CASE j # n + 1
    <3>1. i \in 0 .. n /\ j \in 0 .. n BY <1>1, <1>9, <2>2
    <3> QED BY <1>3, <1>6, <1>9, <3>1
  <2> QED BY <2>1, <2>2
<1>10. ASSUME NEW j \in 1 .. n + 1 PROVE r[j] = Run(to[j - 1], to[j])
  <2>1. CASE j = n + 1
    <3>1. j - 1 = n /\ n \in 0 .. n BY <1>1, <2>1
    <3> QED BY <1>2, <1>3, <1>6, <2>1, <3>1
  <2>2. CASE j # n + 1
    <3>1. j \in 1 .. n /\ j \in 0 .. n /\ j - 1 \in 0 .. n BY <1>1, <2>2
    <3> QED BY <1>2, <1>3, <1>6, <3>1
  <2> QED BY <2>1, <2>2
<1>11. Runs(r, f, b) BY <1>2, <1>6, <1>7, <1>8, <1>9, <1>10 DEF Runs
<1> QED BY <1>11 DEF r

\* The run at the head of a queue, and the queue behind it.
LEMMA RunsTail ==
  ASSUME NEW S, NEW q \in Seq(S), q # <<>>, NEW f \in Nat, NEW t \in Nat, Runs(q, f, t)
  PROVE  \E k \in Nat : /\ f <= k /\ k <= t
                        /\ Head(q) = Run(f, k)
                        /\ Runs(Tail(q), k, t)
<1> DEFINE n == Len(q)
           r == Tail(q)
<1>1. n \in Nat /\ n >= 1 BY EmptySeq
<1>2. /\ Head(q) = q[1] /\ Len(r) = n - 1
      /\ \A j \in 1 .. n - 1 : r[j] = q[j + 1]
  BY HeadTailProperties
<1>3. PICK at \in [0 .. n -> f .. t] :
        /\ at[0] = f /\ at[n] = t
        /\ \A i, j \in 0 .. n : i <= j => at[i] <= at[j]
        /\ \A j \in 1 .. n : q[j] = Run(at[j - 1], at[j])
  BY DEF Runs
<1> DEFINE to == [j \in 0 .. n - 1 |-> at[j + 1]]
<1> HIDE DEF n, r
<1>4. \A j \in 0 .. n : at[j] \in f .. t OBVIOUS
<1>5. 0 \in 0 .. n /\ 1 \in 0 .. n /\ 1 \in 1 .. n /\ 1 - 1 = 0 BY <1>1
<1>6. at[1] \in Nat /\ f <= at[1] /\ at[1] <= t BY <1>4, <1>5
<1>7. Head(q) = Run(f, at[1]) BY <1>2, <1>3, <1>5
<1>8. \A j \in 0 .. n - 1 : j + 1 \in 0 .. n /\ 1 <= j + 1 BY <1>1
<1>9. \A j \in 0 .. n - 1 : to[j] = at[j + 1] OBVIOUS
<1>10. \A j \in 0 .. n - 1 : at[1] <= at[j + 1] /\ at[j + 1] \in f .. t
  BY <1>3, <1>4, <1>5, <1>8
<1>11. to \in [0 .. n - 1 -> at[1] .. t]
  <2>1. \A j \in 0 .. n - 1 : at[j + 1] \in at[1] .. t BY <1>6, <1>10
  <2> QED BY <2>1
<1> HIDE DEF to
<1>12. to[0] = at[1] /\ to[n - 1] = t
  <2>1. 0 \in 0 .. n - 1 /\ n - 1 \in 0 .. n - 1 /\ n - 1 + 1 = n /\ 0 + 1 = 1 BY <1>1
  <2> QED BY <1>3, <1>9, <2>1
<1>13. \A i, j \in 0 .. n - 1 : i <= j => to[i] <= to[j]
  <2> SUFFICES ASSUME NEW i \in 0 .. n - 1, NEW j \in 0 .. n - 1, i <= j
               PROVE  to[i] <= to[j]
      OBVIOUS
  <2>1. i + 1 <= j + 1 OBVIOUS
  <2> QED BY <1>3, <1>8, <1>9, <2>1
<1>14. \A j \in 1 .. n - 1 : r[j] = Run(to[j - 1], to[j])
  <2> SUFFICES ASSUME NEW j \in 1 .. n - 1 PROVE r[j] = Run(to[j - 1], to[j]) OBVIOUS
  <2>1. /\ j + 1 \in 1 .. n /\ j \in 0 .. n - 1 /\ j - 1 \in 0 .. n - 1
        /\ j - 1 + 1 = j /\ (j + 1) - 1 = j
    BY <1>1
  <2>2. q[j + 1] = Run(at[j], at[j + 1]) BY <1>3, <2>1
  <2>3. to[j] = at[j + 1] /\ to[j - 1] = at[j] BY <1>9, <2>1
  <2> QED BY <1>2, <2>2, <2>3
<1>15. Runs(r, at[1], t) BY <1>2, <1>11, <1>12, <1>13, <1>14 DEF Runs
<1> QED BY <1>6, <1>7, <1>15 DEF r

-----------------------------------------------------------------------------
(* Flights that carry samples.                                             *)

\* They are finitely many.
LEMMA FlyingIsFinite ==
  ASSUME NEW r \in Seq(BOOLEAN)
  PROVE  IsFiniteSet(Flying(r)) /\ Cardinality(Flying(r)) \in Nat
<1>1. Len(r) \in Nat /\ DOMAIN r = 1 .. Len(r) BY LenProperties
<1>2. IsFiniteSet(1 .. Len(r)) BY <1>1, FS_Interval
<1>3. Flying(r) \in SUBSET (1 .. Len(r)) BY <1>1 DEF Flying
<1> QED BY <1>2, <1>3, FS_Subset, FS_CardinalityType

\* None of nothing.
LEMMA FlyingNone == Flying(<<>>) = {} /\ Cardinality(Flying(<<>>)) = 0
<1>1. Flying(<<>>) = {} BY DEF Flying
<1> QED BY <1>1, FS_EmptySet

\* Flights::submitted counts the new flight if it is real.
LEMMA FlyingAppend ==
  ASSUME NEW r \in Seq(BOOLEAN), NEW b \in BOOLEAN
  PROVE  Cardinality(Flying(Append(r, b))) = Cardinality(Flying(r)) + IF b THEN 1 ELSE 0
<1> DEFINE n == Len(r)
<1>1. n \in Nat /\ DOMAIN r = 1 .. n BY LenProperties
<1>2. /\ DOMAIN Append(r, b) = 1 .. n + 1 /\ Append(r, b)[n + 1] = b
      /\ \A i \in 1 .. n : Append(r, b)[i] = r[i]
  OBVIOUS
<1>3. IsFiniteSet(Flying(r)) /\ Cardinality(Flying(r)) \in Nat BY FlyingIsFinite
<1>4. n + 1 \notin Flying(r) BY <1>1 DEF Flying
<1>5. CASE b
  <2>1. Flying(Append(r, b)) = Flying(r) \cup {n + 1} BY <1>1, <1>2, <1>5 DEF Flying
  <2> QED BY <1>3, <1>4, <1>5, <2>1, FS_AddElement
<1>6. CASE ~b
  <2>1. Flying(Append(r, b)) = Flying(r) BY <1>1, <1>2, <1>6 DEF Flying
  <2> QED BY <1>3, <1>6, <2>1
<1> QED BY <1>5, <1>6

\* Flights::completed takes the oldest off.
LEMMA FlyingTail ==
  ASSUME NEW r \in Seq(BOOLEAN), r # <<>>
  PROVE  Cardinality(Flying(Tail(r))) = Cardinality(Flying(r)) - IF Head(r) THEN 1 ELSE 0
<1> DEFINE n == Len(r)
           s == Tail(r)
           rest == Flying(r) \ {1}
           up == [i \in Flying(s) |-> i + 1]
<1>1. n \in Nat /\ n >= 1 /\ DOMAIN r = 1 .. n BY EmptySeq, LenProperties
<1>2. /\ s \in Seq(BOOLEAN) /\ Len(s) = n - 1 /\ DOMAIN s = 1 .. n - 1
      /\ \A i \in 1 .. n - 1 : s[i] = r[i + 1]
  BY <1>1, HeadTailProperties, LenProperties
<1>3. IsFiniteSet(Flying(r)) /\ Cardinality(Flying(r)) \in Nat BY FlyingIsFinite
<1>4. IsFiniteSet(Flying(s)) BY <1>2, FlyingIsFinite
<1>5. rest = {i \in 2 .. n : r[i]} BY <1>1 DEF Flying
<1>6. Flying(s) = {i \in 1 .. n - 1 : r[i + 1]} BY <1>2 DEF Flying
<1> HIDE DEF s, rest, n
<1>7. up \in Bijection(Flying(s), rest)
  <2>1. up \in [Flying(s) -> rest] BY <1>1, <1>5, <1>6
  <2>2. \A a, b \in Flying(s) : up[a] = up[b] => a = b BY <1>6
  <2>3. \A c \in rest : \E a \in Flying(s) : up[a] = c
    <3> SUFFICES ASSUME NEW c \in rest PROVE \E a \in Flying(s) : up[a] = c OBVIOUS
    <3>1. c - 1 \in Flying(s) BY <1>1, <1>5, <1>6
    <3>2. up[c - 1] = c BY <1>5, <3>1
    <3> QED BY <3>1, <3>2
  <2> QED BY <2>1, <2>2, <2>3, Fun_IsBij
<1>8. Cardinality(rest) = Cardinality(Flying(s))
  BY <1>4, <1>7, FS_Bijection DEF ExistsBijection
<1>9. 1 \in Flying(r) <=> Head(r)
  <2>1. Head(r) = r[1] BY <1>1 DEF n
  <2>2. 1 \in DOMAIN r BY <1>1
  <2> QED BY <2>1, <2>2 DEF Flying
<1>10. Cardinality(rest) = IF Head(r) THEN Cardinality(Flying(r)) - 1 ELSE Cardinality(Flying(r))
  BY <1>3, <1>9, FS_RemoveElement DEF rest
<1>11. CASE Head(r) BY <1>3, <1>8, <1>10, <1>11 DEF s
<1>12. CASE ~Head(r)
  <2>1. Cardinality(rest) = Cardinality(Flying(r)) BY <1>10, <1>12, Zenon
  <2>2. Cardinality(Flying(Tail(r))) = Cardinality(Flying(r)) BY <1>8, <2>1 DEF s
  <2>3. Cardinality(Flying(r)) - 0 = Cardinality(Flying(r)) BY <1>3
  <2> QED BY <1>12, <2>2, <2>3, Zenon
<1> QED BY <1>11, <1>12

-----------------------------------------------------------------------------
(* The invariant.                                                          *)

\* A chunk on its way is the next samples, and none is empty; between drain's
\* two loads nothing is queued.
Producing ==
  /\ \A i \in 1 .. Len(chan) : chan[i] # <<>>
  /\ prod = "counted" => /\ chunk # <<>> /\ written + Len(chunk) <= MaxSamples
                         /\ chunk = Run(written, written + Len(chunk))
  /\ prod = "sawQueue" => queued = 0

\* How full the endpoint is at each place of the loop, and where the board may
\* transmit.
Shape ==
  /\ mode = "tx" => pc \in {"top", "wait", "fill", "off"}
  /\ pc \in {"open", "exited"} => usb = <<>>
  /\ pc = "prefill" => Len(usb) < NumTransfers
  /\ pc \in {"mode", "top", "wait"} => Len(usb) = NumTransfers
  /\ pc = "fill" => Len(usb) = NumTransfers - 1
  /\ pc = "off" => Len(usb) >= NumTransfers - 1

\* Flights::real says of each transfer at the endpoint whether it carries
\* samples; the one that failed for good is still in it when the loop is left.
Flights ==
  /\ pc \notin {"off", "cancel", "exited"} =>
       Len(real) = Len(usb) /\ \A i \in 1 .. Len(usb) : real[i] = (usb[i] # <<>>)
  /\ pc = "off" =>
       \E d \in {0, 1} : /\ Len(real) = Len(usb) + d
                         /\ \A i \in 1 .. Len(usb) : real[i + d] = (usb[i] # <<>>)

\* The loop is left at the failure that makes them too many.
Erring == pc \notin {"off", "cancel", "exited"} => errors < MaxErrors

Inv == TypeOK /\ Producing /\ Shape /\ Flights /\ Erring /\ SamplesInOrder /\ CountersExact

-----------------------------------------------------------------------------
\* It holds at the start.
LEMMA InitInv == Init => Inv
<1> SUFFICES ASSUME Init PROVE Inv OBVIOUS
<1> USE DEF Init
<1>1. TypeOK
  <2>1. /\ <<>> \in Seq(Samples) /\ <<>> \in Seq(Seq(Samples)) /\ <<>> \in Seq(BOOLEAN)
        /\ Len(<<>>) = 0
    BY EmptySeq
  <2>2. 0 \in 0 .. MaxErrors /\ 0 \in 0 .. MaxSamples /\ 0 <= NumTransfers /\ 0 <= Cap
    BY WriterAssumption
  <2> QED BY <2>1, <2>2 DEF TypeOK
<1>2. Producing BY EmptySeq DEF Producing
<1>3. Shape BY DEF Shape
<1>4. Flights BY DEF Flights
<1>5. SamplesInOrder
  <2>1. Run(0, 0) = <<>>
    <3>1. Run(0, 0) \in Seq(Nat) /\ Len(Run(0, 0)) = 0 BY RunIs
    <3> QED BY <3>1, EmptySeq
  <2>2. Runs(<<>>, 0, 0) BY RunsEmpty
  <2>3. 0 \in reaped .. written OBVIOUS
  <2> QED BY <2>1, <2>2, <2>3 DEF SamplesInOrder
<1>6. CountersExact BY FlyingNone, EmptySeq DEF CountersExact
<1>20. Erring BY WriterAssumption DEF Erring
<1> QED BY <1>1, <1>2, <1>3, <1>4, <1>5, <1>6, <1>20 DEF Inv

(* What a step leaves alone.                                               *)

\* Neither the samples nor their queues moved.
LEMMA OrderAlone ==
  ASSUME SamplesInOrder, UNCHANGED <<usb, pend, hand, chan, written, reaped>>,
         pc' \notin {"off", "cancel", "exited"} => pc \notin {"off", "cancel", "exited"}
  PROVE  SamplesInOrder'
BY DEF SamplesInOrder

\* Neither the transfers nor the flights moved.
LEMMA FlightsAlone ==
  ASSUME Flights, UNCHANGED <<usb, real>>, pc' # "off",
         pc' \notin {"off", "cancel", "exited"} => pc \notin {"off", "cancel", "exited"}
  PROVE  Flights'
BY DEF Flights

\* The producer's steps on its own state leave the thread's alone.
LEMMA ThreadAlone ==
  ASSUME Shape, Flights, UNCHANGED thread
  PROVE  Shape' /\ Flights'
<1>1. pc' = pc /\ mode' = mode /\ usb' = usb /\ real' = real BY DEF thread
<1>2. Shape' BY <1>1 DEF Shape
<1>3. Flights' BY <1>1 DEF Flights
<1> QED BY <1>2, <1>3

-----------------------------------------------------------------------------
(* The producer.                                                           *)

\* send_timeout counts the chunk.
LEMMA CountChunkStep == ASSUME Inv, NEW n \in Lens, CountChunk(n) PROVE Inv'
<1>0. /\ prod = "idle" /\ written + n <= MaxSamples
      /\ chunk' = [i \in 1 .. n |-> written + i] /\ queued' = queued + 1
      /\ prod' = "counted"
      /\ UNCHANGED <<pc, mode, pend, hand, usb, real, errors, reaped>>
      /\ UNCHANGED <<chan, airborne, stop, written>> /\ UNCHANGED thread
  BY DEF CountChunk, thread
<1>1. TypeOK /\ n \in Nat \ {0} /\ written \in Nat /\ written + n \in Nat
  BY WriterAssumption DEF Inv, TypeOK
<1>2. chunk' = Run(written, written + n) /\ chunk' \in Seq(Samples) /\ Len(chunk') = n
  <2>1. written <= written + n /\ (written + n) - written = n BY <1>1
  <2>2. chunk' = Run(written, written + n) BY <1>0, <2>1 DEF Run
  <2> QED BY <1>0, <1>1, <2>1, <2>2, RunOfSamples, RunIs
<1>3. TypeOK' BY <1>0, <1>1, <1>2 DEF TypeOK
<1>4. Producing'
  <2>1. chunk' # <<>> BY <1>1, <1>2, EmptySeq
  <2> QED BY <1>0, <1>2, <2>1 DEF Inv, Producing
<1>5. Shape' /\ Flights' BY <1>0, ThreadAlone DEF Inv
<1>6. SamplesInOrder' BY <1>0, OrderAlone DEF Inv
<1>7. CountersExact' BY <1>0, <1>1 DEF Inv, CountersExact, TypeOK
<1>20. Erring' BY <1>0 DEF Inv, Erring
<1> QED BY <1>3, <1>4, <1>5, <1>6, <1>7, <1>20 DEF Inv

\* The channel takes it.
LEMMA PutChunkStep == ASSUME Inv, PutChunk PROVE Inv'
<1>0. /\ prod = "counted" /\ Len(chan) < Cap
      /\ chan' = Append(chan, chunk) /\ written' = written + Len(chunk)
      /\ chunk' = <<>> /\ prod' = "idle"
      /\ UNCHANGED <<pc, mode, pend, hand, usb, real, errors, reaped>>
      /\ UNCHANGED <<queued, airborne, stop>> /\ UNCHANGED thread
  BY DEF PutChunk, thread
<1>1. /\ chan \in Seq(Seq(Samples)) /\ chunk \in Seq(Samples) /\ written \in Nat
      /\ Len(chunk) \in Nat /\ Len(chan) \in Nat
      /\ written + Len(chunk) <= MaxSamples
      /\ chunk = Run(written, written + Len(chunk))
  BY <1>0, LenProperties DEF Inv, TypeOK, Producing
<1>2. chan' \in Seq(Seq(Samples)) /\ Len(chan') = Len(chan) + 1 BY <1>0, <1>1
<1>3. TypeOK'
  <2>1. written' \in 0 .. MaxSamples /\ Len(chan') <= Cap /\ chunk' \in Seq(Samples)
    BY <1>0, <1>1, <1>2, WriterAssumption, EmptySeq
  <2> QED BY <1>0, <1>2, <2>1 DEF Inv, TypeOK
<1>4. Producing'
  <2>1. chunk # <<>> BY <1>0 DEF Inv, Producing
  <2>2. \A i \in 1 .. Len(chan) + 1 :
           chan'[i] = IF i = Len(chan) + 1 THEN chunk ELSE chan[i]
    BY <1>0, <1>1
  <2>3. \A i \in 1 .. Len(chan) : chan[i] # <<>> BY DEF Inv, Producing
  <2>4. \A i \in 1 .. Len(chan) + 1 : chan'[i] # <<>> BY <1>1, <2>1, <2>2, <2>3
  <2> QED BY <1>0, <1>2, <2>4 DEF Producing
<1>5. Shape' /\ Flights' BY <1>0, ThreadAlone DEF Inv
<1>6. SamplesInOrder'
  <2> SUFFICES ASSUME pc' \notin {"off", "cancel", "exited"}
               PROVE \E a, b, c \in reaped' .. written' :
                       /\ a <= b /\ b <= c
                       /\ Runs(usb', reaped', a)
                       /\ pend' = Run(a, b) /\ hand' = Run(b, c)
                       /\ Runs(chan', c, written')
      BY DEF SamplesInOrder
  <2>1. PICK a, b, c \in reaped .. written :
          /\ a <= b /\ b <= c /\ Runs(usb, reaped, a)
          /\ pend = Run(a, b) /\ hand = Run(b, c) /\ Runs(chan, c, written)
    BY <1>0 DEF Inv, SamplesInOrder
  <2>2. reaped \in Nat /\ c \in Nat /\ c <= written
    BY <1>1 DEF Inv, TypeOK
  <2>3. Runs(Append(chan, Run(written, written + Len(chunk))), c, written + Len(chunk))
    <3>1. written + Len(chunk) \in Nat /\ written <= written + Len(chunk) BY <1>1
    <3> HIDE DEF Runs
    <3> QED BY <1>1, <2>1, <2>2, <3>1, RunsAppend
  <2>4. Runs(chan', c, written') BY <1>0, <1>1, <2>3
  <2>5. a \in reaped' .. written' /\ b \in reaped' .. written' /\ c \in reaped' .. written'
    BY <1>0, <1>1, <2>2
  <2> QED BY <1>0, <2>1, <2>4, <2>5
<1>7. CountersExact' BY <1>0, <1>1, <1>2 DEF Inv, CountersExact, TypeOK
<1>20. Erring' BY <1>0 DEF Inv, Erring
<1> QED BY <1>3, <1>4, <1>5, <1>6, <1>7, <1>20 DEF Inv

\* The chunk is refused and counted off.
LEMMA RefuseChunkStep == ASSUME Inv, RefuseChunk PROVE Inv'
<1>0. /\ prod = "counted" /\ queued' = queued - 1 /\ chunk' = <<>> /\ prod' = "refused"
      /\ UNCHANGED <<pc, mode, pend, hand, usb, real, errors, reaped>>
      /\ UNCHANGED <<chan, airborne, stop, written>> /\ UNCHANGED thread
  BY DEF RefuseChunk, thread
<1>1. queued - 1 \in Nat /\ Len(chan) \in Nat
  BY <1>0, LenProperties DEF Inv, TypeOK, CountersExact
<1>2. TypeOK' BY <1>0, <1>1, EmptySeq DEF Inv, TypeOK
<1>3. Producing' BY <1>0 DEF Inv, Producing
<1>4. Shape' /\ Flights' BY <1>0, ThreadAlone DEF Inv
<1>5. SamplesInOrder' BY <1>0, OrderAlone DEF Inv
<1>6. CountersExact' BY <1>0, <1>1 DEF Inv, CountersExact, TypeOK
<1>20. Erring' BY <1>0 DEF Inv, Erring
<1> QED BY <1>2, <1>3, <1>4, <1>5, <1>6, <1>20 DEF Inv

\* The steps that only move prod and the stop flag.
LEMMA WaitingStep ==
  ASSUME Inv, BeginDrain \/ LoadQueued \/ LoadAirborne \/ DrainTimeout \/ Resume
              \/ Release \/ Join
  PROVE  Inv'
<1>0. /\ UNCHANGED <<pc, mode, pend, hand, usb, real, errors, reaped>>
      /\ UNCHANGED <<chunk, chan, queued, airborne, written>> /\ UNCHANGED thread
      /\ prod # "counted" /\ prod' # "counted"
      /\ prod' \in {"idle", "drain", "sawQueue", "drained", "undrained", "joining", "gone"}
      /\ stop' = stop \/ stop' = TRUE
      /\ prod' = "sawQueue" => queued = 0
  BY DEF thread, BeginDrain, LoadQueued, LoadAirborne, DrainTimeout, Resume, Release, Join
<1>1. stop' \in BOOLEAN BY <1>0 DEF Inv, TypeOK
<1>2. TypeOK' BY <1>0, <1>1 DEF Inv, TypeOK
<1>3. Producing' BY <1>0 DEF Inv, Producing
<1>4. Shape' /\ Flights' BY <1>0, ThreadAlone DEF Inv
<1>5. SamplesInOrder' BY <1>0, OrderAlone DEF Inv
<1>6. CountersExact' BY <1>0 DEF Inv, CountersExact
<1>20. Erring' BY <1>0 DEF Inv, Erring
<1> QED BY <1>2, <1>3, <1>4, <1>5, <1>6, <1>20 DEF Inv

-----------------------------------------------------------------------------
(* The thread.                                                             *)

\* The steps that only move the thread, but for the refusal of transmit mode.
LEMMA MovingStep ==
  ASSUME Inv, OpenEndpoint \/ TopOfLoop \/ WaitTimeout
  PROVE  Inv'
<1>0. /\ UNCHANGED <<mode, pend, hand, usb, real, errors, reaped>>
      /\ UNCHANGED <<prod, chunk, written, chan, queued, airborne, stop>>
      /\ \/ pc = "open" /\ pc' \in {"prefill", "exited"}
         \/ pc \in {"top", "wait"} /\ pc' \in {"off", "wait", "top"}
  BY DEF OpenEndpoint, TopOfLoop, WaitTimeout, caller
<1>1. TypeOK' BY <1>0 DEF Inv, TypeOK
<1>2. Producing' BY <1>0 DEF Inv, Producing
<1>3. Shape'
  <2>1. pc = "open" => Len(usb) = 0 BY EmptySeq DEF Inv, Shape
  <2>2. NumTransfers \in Nat \ {0} BY WriterAssumption
  <2> QED BY <1>0, <2>1, <2>2 DEF Inv, Shape
<1>4. Flights'
  <2>1. Len(real) = Len(usb) /\ \A i \in 1 .. Len(usb) : real[i] = (usb[i] # <<>>)
    BY <1>0 DEF Inv, Flights
  <2>2. Len(usb) \in Nat BY LenProperties DEF Inv, TypeOK
  <2>3. \E d \in {0, 1} : /\ Len(real) = Len(usb) + d
                          /\ \A i \in 1 .. Len(usb) : real[i + d] = (usb[i] # <<>>)
    <3>1. Len(real) = Len(usb) + 0 BY <2>1, <2>2
    <3>2. \A i \in 1 .. Len(usb) : i + 0 = i BY <2>2
    <3>3. \A i \in 1 .. Len(usb) : real[i + 0] = (usb[i] # <<>>) BY <2>1, <3>2
    <3> QED BY <3>1, <3>3
  <2> QED BY <1>0, <2>1, <2>3 DEF Flights
<1>5. SamplesInOrder' BY <1>0, OrderAlone DEF Inv
<1>6. CountersExact' BY <1>0 DEF Inv, CountersExact
<1>20. Erring' BY <1>0 DEF Inv, Erring
<1> QED BY <1>1, <1>2, <1>3, <1>4, <1>5, <1>6, <1>20 DEF Inv

\* TxFiller::next takes a chunk off the channel.
LEMMA TakeChunkStep == ASSUME Inv, TakeChunk PROVE Inv'
<1>0. /\ Filling /\ hand = <<>> /\ chan # <<>>
      /\ hand' = Head(chan) /\ chan' = Tail(chan)
      /\ UNCHANGED <<pc, mode, pend, usb, real, errors, reaped>>
      /\ UNCHANGED <<prod, chunk, written, queued, airborne, stop>>
  BY DEF TakeChunk, caller
<1>1. /\ chan \in Seq(Seq(Samples)) /\ hand' \in Seq(Samples)
      /\ chan' \in Seq(Seq(Samples)) /\ Len(chan') = Len(chan) - 1 /\ Len(chan) \in Nat
  BY <1>0, HeadTailProperties, LenProperties DEF Inv, TypeOK
<1>2. pc \in {"prefill", "fill"} BY <1>0 DEF Filling
<1>3. TypeOK' BY <1>0, <1>1, WriterAssumption DEF Inv, TypeOK
<1>4. Producing'
  <2>1. \A i \in 1 .. Len(chan) - 1 : chan'[i] = chan[i + 1]
    BY <1>0, <1>1, HeadTailProperties
  <2>2. \A i \in 1 .. Len(chan) : chan[i] # <<>> BY DEF Inv, Producing
  <2>3. \A i \in 1 .. Len(chan) - 1 : chan'[i] # <<>> BY <1>1, <2>1, <2>2
  <2> QED BY <1>0, <1>1, <2>3 DEF Inv, Producing
<1>5. Shape' BY <1>0 DEF Inv, Shape
<1>6. Flights' BY <1>0, <1>2, FlightsAlone DEF Inv
<1>7. PICK a, b, c \in reaped .. written :
        /\ a <= b /\ b <= c /\ Runs(usb, reaped, a)
        /\ pend = Run(a, b) /\ hand = Run(b, c) /\ Runs(chan, c, written)
  BY <1>2 DEF Inv, SamplesInOrder
<1>8. reaped \in Nat /\ written \in Nat /\ a \in Nat /\ b \in Nat /\ c \in Nat
  BY DEF Inv, TypeOK
<1>9. b = c
  <2>1. Len(Run(b, c)) = c - b BY <1>7, <1>8, RunIs
  <2>2. Len(Run(b, c)) = 0 BY <1>0, <1>7, EmptySeq
  <2> QED BY <1>8, <2>1, <2>2
<1> HIDE DEF Runs
<1>10. PICK k \in Nat : /\ c <= k /\ k <= written
                        /\ Head(chan) = Run(c, k) /\ Runs(Tail(chan), k, written)
  BY <1>0, <1>1, <1>7, <1>8, RunsTail
<1>11. SamplesInOrder'
  <2>1. k \in reaped .. written BY <1>7, <1>8, <1>10
  <2>2. Runs(usb', reaped', a) /\ pend' = Run(a, b) /\ hand' = Run(b, k)
        /\ Runs(chan', k, written')
    BY <1>0, <1>7, <1>9, <1>10
  <2>3. a \in reaped' .. written' /\ b \in reaped' .. written' /\ k \in reaped' .. written'
    BY <1>0, <2>1
  <2> QED BY <1>7, <1>9, <1>10, <2>2, <2>3 DEF SamplesInOrder
<1>12. CountersExact'
  <2>1. hand' # <<>>
    <3>1. 1 \in 1 .. Len(chan) /\ Head(chan) = chan[1] BY <1>0, <1>1, EmptySeq
    <3> QED BY <1>0, <3>1 DEF Inv, Producing
  <2> DEFINE c1 == IF prod = "counted" THEN 1 ELSE 0
  <2>2. c1 \in Nat /\ c1' = c1 BY <1>0
  <2>3. queued = Len(chan) + 0 + c1
    <3>1. queued = Len(chan) + (IF hand # <<>> THEN 1 ELSE 0) + c1 BY DEF Inv, CountersExact
    <3> HIDE DEF c1
    <3> QED BY <1>0, <3>1
  <2> HIDE DEF c1
  <2>4. queued' = Len(chan') + 1 + c1' BY <1>0, <1>1, <2>2, <2>3
  <2>5. queued' = Len(chan') + (IF hand' # <<>> THEN 1 ELSE 0) + c1' BY <2>1, <2>4
  <2>6. pc' # "exited" => airborne' = Cardinality(Flying(real'))
    BY <1>0 DEF Inv, CountersExact
  <2> QED BY <2>5, <2>6 DEF c1, CountersExact
<1>20. Erring' BY <1>0 DEF Inv, Erring
<1> QED BY <1>3, <1>4, <1>5, <1>6, <1>11, <1>12, <1>20 DEF Inv

\* And counts it off, behind what was left over.
LEMMA CountOffStep == ASSUME Inv, CountOff PROVE Inv'
<1>0. /\ Filling /\ hand # <<>>
      /\ queued' = queued - 1 /\ pend' = pend \o hand /\ hand' = <<>>
      /\ UNCHANGED <<pc, mode, usb, real, errors, reaped>>
      /\ UNCHANGED <<prod, chunk, written, chan, airborne, stop>>
  BY DEF CountOff, caller
<1>1. pend' \in Seq(Samples) /\ hand' \in Seq(Samples) /\ Len(chan) \in Nat
  BY <1>0, ConcatProperties, EmptySeq, LenProperties DEF Inv, TypeOK
<1>2. pc \in {"prefill", "fill"} BY <1>0 DEF Filling
<1>3. queued = Len(chan) + 1 + (IF prod = "counted" THEN 1 ELSE 0)
  BY <1>0 DEF Inv, CountersExact
<1>4. queued - 1 \in Nat BY <1>1, <1>3
<1>5. TypeOK' BY <1>0, <1>1, <1>4 DEF Inv, TypeOK
<1>6. Producing'
  <2>1. prod = "sawQueue" => queued = 0 BY DEF Inv, Producing
  <2>2. prod # "sawQueue" BY <1>1, <1>3, <2>1
  <2> QED BY <1>0, <2>2 DEF Inv, Producing
<1>7. Shape' BY <1>0 DEF Inv, Shape
<1>8. Flights' BY <1>0, <1>2, FlightsAlone DEF Inv
<1>9. SamplesInOrder'
  <2>1. PICK a, b, c \in reaped .. written :
          /\ a <= b /\ b <= c /\ Runs(usb, reaped, a)
          /\ pend = Run(a, b) /\ hand = Run(b, c) /\ Runs(chan, c, written)
    BY <1>2 DEF Inv, SamplesInOrder
  <2>2. a \in Nat /\ b \in Nat /\ c \in Nat BY DEF Inv, TypeOK
  <2>3. pend' = Run(a, c) BY <1>0, <2>1, <2>2, RunJoin
  <2>4. hand' = Run(c, c)
    <3>1. Run(c, c) \in Seq(Nat) /\ Len(Run(c, c)) = c - c BY <2>2, RunIs
    <3>2. Len(Run(c, c)) = 0 BY <2>2, <3>1
    <3> QED BY <1>0, <3>1, <3>2, EmptySeq
  <2>5. a <= c /\ c <= c BY <2>1, <2>2
  <2> HIDE DEF Runs
  <2> QED BY <1>0, <2>1, <2>3, <2>4, <2>5 DEF SamplesInOrder
<1>10. CountersExact' BY <1>0, <1>1, <1>3 DEF Inv, CountersExact
<1>20. Erring' BY <1>0 DEF Inv, Erring
<1> QED BY <1>5, <1>6, <1>7, <1>8, <1>9, <1>10, <1>20 DEF Inv

\* A transfer put at the endpoint: what Flights and the loop make of it.
LEMMA SubmitLemma ==
  ASSUME Inv, Filling, NEW samples \in Seq(Samples), NEW isReal \in BOOLEAN,
         isReal = (samples # <<>>), Submit(samples, isReal), mode' = mode
  PROVE  /\ usb' \in Seq(Seq(Samples)) /\ Len(usb') <= NumTransfers
         /\ real' \in Seq(BOOLEAN) /\ airborne' \in Nat
         /\ pc' \in {"prefill", "mode", "top"}
         /\ airborne' = Cardinality(Flying(real'))
         /\ Shape' /\ Flights'
<1>0. /\ usb' = Append(usb, samples) /\ real' = Append(real, isReal)
      /\ airborne' = IF isReal THEN airborne + 1 ELSE airborne
      /\ pc' = IF pc = "fill" THEN "top"
               ELSE IF Len(usb') < NumTransfers THEN "prefill" ELSE "mode"
  BY DEF Submit, AfterSubmit
<1>1. pc \in {"prefill", "fill"} BY DEF Filling
<1>2. /\ usb \in Seq(Seq(Samples)) /\ real \in Seq(BOOLEAN) /\ airborne \in Nat
      /\ Len(usb) \in Nat /\ NumTransfers \in Nat \ {0}
  BY LenProperties, WriterAssumption DEF Inv, TypeOK
<1>3. Len(usb) < NumTransfers /\ (pc = "fill" => Len(usb) = NumTransfers - 1)
  BY <1>1, <1>2 DEF Inv, Shape
<1>4. /\ usb' \in Seq(Seq(Samples)) /\ Len(usb') = Len(usb) + 1
      /\ usb'[Len(usb) + 1] = samples /\ \A i \in 1 .. Len(usb) : usb'[i] = usb[i]
  BY <1>0, <1>2
<1>5. /\ Len(real) = Len(usb)
      /\ \A i \in 1 .. Len(usb) : real[i] = (usb[i] # <<>>)
  BY <1>1 DEF Inv, Flights
<1>6. /\ real' \in Seq(BOOLEAN) /\ Len(real') = Len(real) + 1
      /\ real'[Len(real) + 1] = isReal /\ \A i \in 1 .. Len(real) : real'[i] = real[i]
  BY <1>0, <1>2
<1>7. airborne = Cardinality(Flying(real)) BY <1>1 DEF Inv, CountersExact
<1>8. airborne' \in Nat /\ airborne' = Cardinality(Flying(real'))
  <2>1. Cardinality(Flying(real')) = Cardinality(Flying(real)) + IF isReal THEN 1 ELSE 0
    BY <1>0, <1>2, FlyingAppend
  <2>2. CASE isReal BY <1>0, <1>2, <1>7, <2>1, <2>2
  <2>3. CASE ~isReal BY <1>0, <1>2, <1>7, <2>1, <2>3
  <2> QED BY <2>2, <2>3
<1>9. Flights'
  <2>1. Len(real') = Len(usb') BY <1>4, <1>5, <1>6
  <2>2. ASSUME NEW i \in 1 .. Len(usb') PROVE real'[i] = (usb'[i] # <<>>)
    <3>1. CASE i = Len(usb) + 1 BY <1>4, <1>5, <1>6, <3>1
    <3>2. CASE i # Len(usb) + 1
      <4>1. i \in 1 .. Len(usb) BY <1>2, <1>4, <3>2
      <4> QED BY <1>4, <1>5, <1>6, <4>1
    <3> QED BY <3>1, <3>2
  <2>3. pc' # "off" BY <1>0
  <2> QED BY <2>1, <2>2, <2>3 DEF Flights
<1>10. Shape'
  <2>1. mode = "tx" => pc = "fill" BY <1>1 DEF Inv, Shape
  <2>2. CASE pc = "fill"
    <3>1. pc' = "top" /\ Len(usb') = NumTransfers BY <1>0, <1>2, <1>3, <1>4, <2>2
    <3> QED BY <3>1 DEF Shape
  <2>3. CASE pc = "prefill"
    <3>1. mode' # "tx" BY <2>1, <2>3
    <3>2. CASE Len(usb') < NumTransfers
      <4>1. pc' = "prefill" BY <1>0, <2>3, <3>2
      <4> QED BY <3>1, <3>2, <4>1 DEF Shape
    <3>3. CASE ~(Len(usb') < NumTransfers)
      <4>1. pc' = "mode" BY <1>0, <2>3, <3>3
      <4>2. Len(usb') = NumTransfers BY <1>2, <1>3, <1>4, <3>3
      <4> QED BY <3>1, <4>1, <4>2 DEF Shape
    <3> QED BY <3>2, <3>3
  <2> QED BY <1>1, <2>2, <2>3
<1> QED BY <1>0, <1>2, <1>3, <1>4, <1>6, <1>8, <1>9, <1>10

\* A full transfer goes to the endpoint.
LEMMA SubmitFullStep == ASSUME Inv, SubmitFull PROVE Inv'
<1>0. /\ Filling /\ hand = <<>> /\ Len(pend) >= Size
      /\ Submit(SubSeq(pend, 1, Size), TRUE)
      /\ pend' = SubSeq(pend, Size + 1, Len(pend))
      /\ UNCHANGED <<mode, hand, errors, reaped>>
      /\ UNCHANGED <<prod, chunk, written, chan, queued, stop>>
  BY DEF SubmitFull, caller
<1>1. pc \in {"prefill", "fill"} /\ Size \in Nat \ {0} BY <1>0, WriterAssumption DEF Filling
<1>2. PICK a, b, c \in reaped .. written :
        /\ a <= b /\ b <= c /\ Runs(usb, reaped, a)
        /\ pend = Run(a, b) /\ hand = Run(b, c) /\ Runs(chan, c, written)
  BY <1>1 DEF Inv, SamplesInOrder
<1>3. /\ a \in Nat /\ b \in Nat /\ c \in Nat /\ reaped \in Nat /\ written \in Nat
      /\ written <= MaxSamples /\ MaxSamples \in Nat
      /\ reaped <= a /\ a <= written /\ b <= written /\ c <= written
  BY WriterAssumption DEF Inv, TypeOK
<1>4. Len(pend) = b - a BY <1>2, <1>3, RunIs
<1>5. a + Size <= b /\ a + Size \in Nat BY <1>0, <1>1, <1>3, <1>4
<1>6. SubSeq(pend, 1, Size) = Run(a, a + Size) /\ pend' = Run(a + Size, b)
  <2>1. /\ SubSeq(Run(a, b), 1, Size) = Run(a, a + Size)
        /\ SubSeq(Run(a, b), Size + 1, b - a) = Run(a + Size, b)
    BY <1>1, <1>3, <1>5, RunCut
  <2> QED BY <1>0, <1>2, <1>4, <2>1
<1>7. Run(a, a + Size) \in Seq(Samples) /\ pend' \in Seq(Samples)
  <2>1. a <= a + Size /\ a + Size <= MaxSamples /\ b <= MaxSamples BY <1>1, <1>3, <1>5
  <2> QED BY <1>3, <1>5, <1>6, <2>1, RunOfSamples
<1>8. Run(a, a + Size) # <<>>
  <2>1. Len(Run(a, a + Size)) = (a + Size) - a BY <1>1, <1>3, <1>5, RunIs
  <2> QED BY <1>1, <1>3, <2>1, EmptySeq
<1>9. /\ usb' \in Seq(Seq(Samples)) /\ Len(usb') <= NumTransfers
      /\ real' \in Seq(BOOLEAN) /\ airborne' \in Nat
      /\ pc' \in {"prefill", "mode", "top"}
      /\ airborne' = Cardinality(Flying(real'))
      /\ Shape' /\ Flights'
  BY <1>0, <1>6, <1>7, <1>8, SubmitLemma
<1>10. TypeOK' BY <1>0, <1>7, <1>9 DEF Inv, TypeOK
<1>11. Producing' BY <1>0 DEF Inv, Producing
<1>12. SamplesInOrder'
  <2>1. usb \in Seq(Seq(Samples)) BY DEF Inv, TypeOK
  <2> HIDE DEF Runs
  <2>2. Runs(Append(usb, Run(a, a + Size)), reaped, a + Size)
    <3>1. a <= a + Size BY <1>1, <1>3
    <3> QED BY <1>2, <1>3, <1>5, <1>7, <2>1, <3>1, RunsAppend
  <2>3. Runs(usb', reaped', a + Size) BY <1>0, <1>6, <2>2 DEF Submit
  <2>4. a + Size \in reaped' .. written' /\ b \in reaped' .. written' /\ c \in reaped' .. written'
    BY <1>0, <1>1, <1>3, <1>5
  <2> QED BY <1>0, <1>2, <1>5, <1>6, <2>3, <2>4 DEF SamplesInOrder
<1>13. CountersExact' BY <1>0, <1>9 DEF Inv, CountersExact
<1>20. Erring' BY <1>0, <1>1, <1>9 DEF Inv, Erring
<1> QED BY <1>9, <1>10, <1>11, <1>12, <1>13, <1>20 DEF Inv

\* A short one goes there with all that is left over.
LEMMA SubmitPaddedStep == ASSUME Inv, SubmitPadded PROVE Inv'
<1>0. /\ Filling /\ hand = <<>>
      /\ Submit(pend, pend # <<>>) /\ pend' = <<>>
      /\ UNCHANGED <<mode, hand, errors, reaped>>
      /\ UNCHANGED <<prod, chunk, written, chan, queued, stop>>
  BY DEF SubmitPadded, caller
<1>1. pc \in {"prefill", "fill"} BY <1>0 DEF Filling
<1>2. PICK a, b, c \in reaped .. written :
        /\ a <= b /\ b <= c /\ Runs(usb, reaped, a)
        /\ pend = Run(a, b) /\ hand = Run(b, c) /\ Runs(chan, c, written)
  BY <1>1 DEF Inv, SamplesInOrder
<1>3. a \in Nat /\ b \in Nat /\ c \in Nat /\ reaped \in Nat /\ reaped <= a
  BY DEF Inv, TypeOK
<1>4. pend \in Seq(Samples) /\ usb \in Seq(Seq(Samples)) /\ pend' \in Seq(Samples)
  BY <1>0, EmptySeq DEF Inv, TypeOK
<1>5. (pend # <<>>) \in BOOLEAN OBVIOUS
<1>6. /\ usb' \in Seq(Seq(Samples)) /\ Len(usb') <= NumTransfers
      /\ real' \in Seq(BOOLEAN) /\ airborne' \in Nat
      /\ pc' \in {"prefill", "mode", "top"}
      /\ airborne' = Cardinality(Flying(real'))
      /\ Shape' /\ Flights'
  BY <1>0, <1>4, <1>5, SubmitLemma
<1>7. TypeOK' BY <1>0, <1>4, <1>6 DEF Inv, TypeOK
<1>8. Producing' BY <1>0 DEF Inv, Producing
<1>9. SamplesInOrder'
  <2> HIDE DEF Runs
  <2>1. Runs(Append(usb, Run(a, b)), reaped, b)
    BY <1>2, <1>3, <1>4, RunsAppend
  <2>2. Runs(usb', reaped', b) BY <1>0, <1>2, <2>1 DEF Submit
  <2>3. pend' = Run(b, b)
    <3>1. Run(b, b) \in Seq(Nat) /\ Len(Run(b, b)) = b - b BY <1>3, RunIs
    <3>2. Len(Run(b, b)) = 0 BY <1>3, <3>1
    <3> QED BY <1>0, <3>1, <3>2, EmptySeq
  <2>4. b <= b BY <1>3
  <2> QED BY <1>0, <1>2, <2>2, <2>3, <2>4 DEF SamplesInOrder
<1>10. CountersExact' BY <1>0, <1>6 DEF Inv, CountersExact
<1>20. Erring' BY <1>0, <1>1, <1>6 DEF Inv, Erring
<1> QED BY <1>6, <1>7, <1>8, <1>9, <1>10, <1>20 DEF Inv

\* A board that refuses transmit mode has its transfers cancelled at once.
LEMMA EnterTransmitStep == ASSUME Inv, EnterTransmit PROVE Inv'
<1>0. /\ pc = "mode"
      /\ \/ mode' = "tx" /\ pc' = "top" /\ usb' = usb /\ real' = real
         \/ mode' = mode /\ pc' = "exited" /\ usb' = <<>> /\ real' = <<>>
      /\ UNCHANGED <<pend, hand, errors, reaped>>
      /\ UNCHANGED <<prod, chunk, written, chan, queued, airborne, stop>>
  BY DEF EnterTransmit, caller
<1>1. mode # "tx" /\ Len(usb) = NumTransfers BY <1>0 DEF Inv, Shape
<1>2. Producing' BY <1>0 DEF Inv, Producing
<1>3. CASE mode' = "tx" /\ pc' = "top" /\ usb' = usb /\ real' = real
  <2>1. TypeOK' BY <1>0, <1>3 DEF Inv, TypeOK
  <2>2. Shape' BY <1>1, <1>3 DEF Shape
  <2>3. Flights' BY <1>0, <1>3, FlightsAlone DEF Inv
  <2>4. SamplesInOrder' BY <1>0, <1>3, OrderAlone DEF Inv
  <2>5. CountersExact' BY <1>0, <1>3 DEF Inv, CountersExact
  <2>20. Erring' BY <1>0, <1>3 DEF Inv, Erring
  <2> QED BY <1>2, <2>1, <2>2, <2>3, <2>4, <2>5, <2>20 DEF Inv
<1>4. CASE mode' = mode /\ pc' = "exited" /\ usb' = <<>> /\ real' = <<>>
  <2>1. TypeOK'
    <3>1. usb' \in Seq(Seq(Samples)) /\ real' \in Seq(BOOLEAN) /\ Len(usb') <= NumTransfers
      BY <1>4, EmptySeq, WriterAssumption
    <3> QED BY <1>0, <1>4, <3>1 DEF Inv, TypeOK
  <2>2. Shape' BY <1>1, <1>4 DEF Shape
  <2>3. Flights' BY <1>4 DEF Flights
  <2>4. SamplesInOrder' BY <1>4 DEF SamplesInOrder
  <2>5. CountersExact' BY <1>0, <1>4 DEF Inv, CountersExact
  <2>20. Erring' BY <1>4 DEF Erring
  <2> QED BY <1>2, <2>1, <2>2, <2>3, <2>4, <2>5, <2>20 DEF Inv
<1> QED BY <1>0, <1>3, <1>4

\* The transfer that landed, sent or failed: what it takes off the front.
LEMMA LandedLemma ==
  ASSUME Inv, pc = "wait", usb' = Tail(usb), reaped' = reaped + Len(Head(usb)),
         UNCHANGED <<pend, hand, chan, written>>
  PROVE  /\ usb' \in Seq(Seq(Samples)) /\ Len(usb') = NumTransfers - 1
         /\ real # <<>> /\ Len(real) = NumTransfers
         /\ \A i \in 1 .. Len(usb') : real[i + 1] = (usb'[i] # <<>>)
         /\ reaped' \in 0 .. MaxSamples
         /\ SamplesInOrder'
<1>1. /\ usb \in Seq(Seq(Samples)) /\ real \in Seq(BOOLEAN) /\ NumTransfers \in Nat \ {0}
      /\ Len(usb) = NumTransfers /\ reaped \in Nat /\ written \in Nat /\ MaxSamples \in Nat
      /\ written <= MaxSamples
  BY WriterAssumption DEF Inv, TypeOK, Shape
<1>2. usb # <<>> BY <1>1, EmptySeq
<1>3. /\ usb' \in Seq(Seq(Samples)) /\ Len(usb') = NumTransfers - 1
      /\ \A i \in 1 .. Len(usb') : usb'[i] = usb[i + 1]
  BY <1>1, <1>2, HeadTailProperties
<1>4. Len(real) = Len(usb) /\ \A i \in 1 .. Len(usb) : real[i] = (usb[i] # <<>>)
  BY DEF Inv, Flights
<1>5. real # <<>> /\ Len(real) = NumTransfers BY <1>1, <1>4, EmptySeq
<1>6. \A i \in 1 .. Len(usb') : real[i + 1] = (usb'[i] # <<>>)
  <2> SUFFICES ASSUME NEW i \in 1 .. Len(usb') PROVE real[i + 1] = (usb'[i] # <<>>)
      OBVIOUS
  <2>1. i + 1 \in 1 .. Len(usb) BY <1>1, <1>3
  <2> QED BY <1>3, <1>4, <2>1
<1>7. PICK a, b, c \in reaped .. written :
        /\ a <= b /\ b <= c /\ Runs(usb, reaped, a)
        /\ pend = Run(a, b) /\ hand = Run(b, c) /\ Runs(chan, c, written)
  BY DEF Inv, SamplesInOrder
<1>8. a \in Nat /\ b \in Nat /\ c \in Nat /\ a <= written BY <1>1
<1> HIDE DEF Runs
<1>9. PICK k \in Nat : /\ reaped <= k /\ k <= a
                       /\ Head(usb) = Run(reaped, k) /\ Runs(Tail(usb), k, a)
  BY <1>1, <1>2, <1>7, <1>8, RunsTail
<1>10. reaped' = k
  <2>1. Len(Head(usb)) = k - reaped BY <1>1, <1>9, RunIs
  <2> QED BY <1>1, <1>9, <2>1
<1>11. reaped' \in 0 .. MaxSamples BY <1>1, <1>8, <1>9, <1>10
<1>12. SamplesInOrder'
  <2>1. a \in reaped' .. written' /\ b \in reaped' .. written' /\ c \in reaped' .. written'
    BY <1>1, <1>7, <1>8, <1>9, <1>10
  <2>2. Runs(usb', reaped', a) BY <1>9, <1>10
  <2> QED BY <1>7, <2>1, <2>2 DEF SamplesInOrder
<1> QED BY <1>3, <1>5, <1>6, <1>11, <1>12

\* Flights::completed is exact.
LEMMA CompletedLemma ==
  ASSUME real \in Seq(BOOLEAN), real # <<>>, airborne = Cardinality(Flying(real)), Completed
  PROVE  /\ real' \in Seq(BOOLEAN) /\ Len(real') = Len(real) - 1
         /\ \A i \in 1 .. Len(real) - 1 : real'[i] = real[i + 1]
         /\ airborne' \in Nat /\ airborne' = Cardinality(Flying(real'))
<1>0. real' = Tail(real) /\ airborne' = IF Head(real) THEN airborne - 1 ELSE airborne
  BY DEF Completed
<1>1. /\ real' \in Seq(BOOLEAN) /\ Len(real') = Len(real) - 1
      /\ \A i \in 1 .. Len(real) - 1 : real'[i] = real[i + 1]
  <2>1. Len(real) - 1 \in Nat BY EmptySeq
  <2> QED BY <1>0, <2>1, HeadTailProperties
<1>2. Cardinality(Flying(real')) \in Nat BY <1>1, FlyingIsFinite
<1>3. Cardinality(Flying(real)) \in Nat BY FlyingIsFinite
<1>4. Cardinality(Flying(real')) = Cardinality(Flying(real)) - IF Head(real) THEN 1 ELSE 0
  BY <1>0, FlyingTail
<1>5. CASE Head(real) BY <1>0, <1>2, <1>3, <1>4, <1>5, <1>1
<1>6. CASE ~Head(real)
  <2>1. airborne' = airborne BY <1>0, <1>6, Zenon
  <2>2. Cardinality(Flying(real')) = Cardinality(Flying(real)) - 0 BY <1>4, <1>6, Zenon
  <2>3. Cardinality(Flying(real)) - 0 = Cardinality(Flying(real)) BY <1>3
  <2>4. Cardinality(Flying(real')) = Cardinality(Flying(real)) BY <2>2, <2>3, Zenon
  <2> QED BY <1>1, <1>3, <2>1, <2>4
<1> QED BY <1>5, <1>6

\* A transfer went out.
LEMMA TransferSentStep == ASSUME Inv, TransferSent PROVE Inv'
<1>0. /\ pc = "wait" /\ errors' = 0 /\ Completed /\ pc' = "fill"
      /\ usb' = Tail(usb) /\ reaped' = reaped + Len(Head(usb))
      /\ UNCHANGED <<mode, pend, hand, chan, queued, stop, prod, chunk, written>>
  BY DEF TransferSent, caller
<1>1. /\ usb' \in Seq(Seq(Samples)) /\ Len(usb') = NumTransfers - 1
      /\ real # <<>> /\ Len(real) = NumTransfers
      /\ \A i \in 1 .. Len(usb') : real[i + 1] = (usb'[i] # <<>>)
      /\ reaped' \in 0 .. MaxSamples /\ SamplesInOrder'
  BY <1>0, LandedLemma
<1>2. /\ real' \in Seq(BOOLEAN) /\ Len(real') = Len(real) - 1
      /\ \A i \in 1 .. Len(real) - 1 : real'[i] = real[i + 1]
      /\ airborne' \in Nat /\ airborne' = Cardinality(Flying(real'))
  BY <1>0, <1>1, CompletedLemma DEF Inv, TypeOK, CountersExact
<1>3. 0 \in 0 .. MaxErrors /\ NumTransfers \in Nat \ {0} BY WriterAssumption
<1>4. TypeOK' BY <1>0, <1>1, <1>2, <1>3 DEF Inv, TypeOK
<1>5. Producing' BY <1>0 DEF Inv, Producing
<1>6. Shape' BY <1>0, <1>1 DEF Inv, Shape
<1>7. Flights' BY <1>0, <1>1, <1>2, <1>3 DEF Flights
<1>8. CountersExact' BY <1>0, <1>2 DEF Inv, CountersExact
<1>20. Erring' BY <1>0, WriterAssumption DEF Erring
<1> QED BY <1>1, <1>4, <1>5, <1>6, <1>7, <1>8, <1>20 DEF Inv

\* A transfer failed, perhaps once too often.
LEMMA TransferFailedStep == ASSUME Inv, TransferFailed PROVE Inv'
<1>0. /\ pc = "wait" /\ errors' = errors + 1
      /\ usb' = Tail(usb) /\ reaped' = reaped + Len(Head(usb))
      /\ \/ /\ errors' >= MaxErrors /\ stop' = TRUE /\ pc' = "off"
            /\ real' = real /\ airborne' = airborne
         \/ errors' < MaxErrors /\ Completed /\ pc' = "fill" /\ stop' = stop
      /\ UNCHANGED <<mode, pend, hand, chan, queued, prod, chunk, written>>
  <2>1. errors \in Nat /\ MaxErrors \in Nat BY WriterAssumption DEF Inv, TypeOK
  <2> QED BY <2>1 DEF TransferFailed, caller
<1>1. /\ usb' \in Seq(Seq(Samples)) /\ Len(usb') = NumTransfers - 1
      /\ real # <<>> /\ Len(real) = NumTransfers
      /\ \A i \in 1 .. Len(usb') : real[i + 1] = (usb'[i] # <<>>)
      /\ reaped' \in 0 .. MaxSamples /\ SamplesInOrder'
  BY <1>0, LandedLemma
<1>2. Producing' BY <1>0 DEF Inv, Producing
<1>3. NumTransfers \in Nat \ {0} /\ errors \in Nat /\ MaxErrors \in Nat
  BY WriterAssumption DEF Inv, TypeOK
<1>4. errors < MaxErrors
  BY <1>0 DEF Inv, Erring
<1>5. CASE /\ errors' >= MaxErrors /\ stop' = TRUE /\ pc' = "off"
           /\ real' = real /\ airborne' = airborne
  <2>1. errors' \in 0 .. MaxErrors BY <1>0, <1>3, <1>4
  <2>2. TypeOK' BY <1>0, <1>1, <1>3, <1>5, <2>1 DEF Inv, TypeOK
  <2>3. Shape' BY <1>0, <1>1, <1>5 DEF Inv, Shape
  <2>4. Flights'
    <3>1. Len(real') = Len(usb') + 1 BY <1>1, <1>3, <1>5
    <3> QED BY <1>1, <1>5, <3>1 DEF Flights
  <2>5. CountersExact' BY <1>0, <1>5 DEF Inv, CountersExact
  <2>6. Erring' BY <1>5 DEF Erring
  <2> QED BY <1>1, <1>2, <2>2, <2>3, <2>4, <2>5, <2>6 DEF Inv
<1>6. CASE errors' < MaxErrors /\ Completed /\ pc' = "fill" /\ stop' = stop
  <2>1. /\ real' \in Seq(BOOLEAN) /\ Len(real') = Len(real) - 1
        /\ \A i \in 1 .. Len(real) - 1 : real'[i] = real[i + 1]
        /\ airborne' \in Nat /\ airborne' = Cardinality(Flying(real'))
    BY <1>0, <1>1, <1>6, CompletedLemma DEF Inv, TypeOK, CountersExact
  <2>2. errors' \in 0 .. MaxErrors BY <1>0, <1>3, <1>6
  <2>3. TypeOK' BY <1>0, <1>1, <1>3, <1>6, <2>1, <2>2 DEF Inv, TypeOK
  <2>4. Shape' BY <1>0, <1>1, <1>6 DEF Inv, Shape
  <2>5. Flights' BY <1>1, <1>3, <1>6, <2>1 DEF Flights
  <2>6. CountersExact' BY <1>0, <1>6, <2>1 DEF Inv, CountersExact
  <2>7. Erring' BY <1>6 DEF Erring
  <2> QED BY <1>1, <1>2, <2>3, <2>4, <2>5, <2>6, <2>7 DEF Inv
<1> QED BY <1>0, <1>5, <1>6

\* Flights::abandoned writes the flights off before the transfers are cancelled.
LEMMA EndingStep == ASSUME Inv, ModeOff \/ CancelAll PROVE Inv'
<1>0. /\ UNCHANGED <<pend, hand, errors, reaped, prod, chunk, written, chan, queued, stop>>
      /\ \/ /\ pc = "off" /\ pc' = "cancel" /\ mode' = "off" /\ usb' = usb
            /\ real' = <<>> /\ airborne' = 0
         \/ /\ pc = "cancel" /\ pc' = "exited" /\ mode' = mode /\ usb' = <<>>
            /\ real' = real /\ airborne' = airborne
  BY DEF ModeOff, CancelAll, caller
<1>1. /\ usb' \in Seq(Seq(Samples)) /\ Len(usb') <= NumTransfers
      /\ real' \in Seq(BOOLEAN) /\ airborne' \in Nat /\ mode' \in {"off", "tx"}
  <2>1. /\ <<>> \in Seq(Seq(Samples)) /\ <<>> \in Seq(BOOLEAN) /\ Len(<<>>) = 0
        /\ 0 <= NumTransfers
    BY EmptySeq, WriterAssumption
  <2>2. TypeOK BY DEF Inv
  <2>3. CASE usb' = usb /\ real' = <<>> /\ airborne' = 0 /\ mode' = "off"
    BY <2>1, <2>2, <2>3 DEF TypeOK
  <2>4. CASE usb' = <<>> /\ real' = real /\ airborne' = airborne /\ mode' = mode
    BY <2>1, <2>2, <2>4 DEF TypeOK
  <2> QED BY <1>0, <2>3, <2>4
<1>2. TypeOK' BY <1>0, <1>1 DEF Inv, TypeOK
<1>3. Producing' BY <1>0 DEF Inv, Producing
<1>4. Shape' BY <1>0 DEF Inv, Shape
<1>5. Flights' BY <1>0 DEF Flights
<1>6. SamplesInOrder' BY <1>0 DEF SamplesInOrder
<1>7. CountersExact' BY <1>0, FlyingNone DEF Inv, CountersExact
<1>8. Erring' BY <1>0 DEF Erring
<1> QED BY <1>2, <1>3, <1>4, <1>5, <1>6, <1>7, <1>8 DEF Inv

-----------------------------------------------------------------------------
(* The theorems.                                                           *)

\* Every step keeps the invariant.
LEMMA NextInv == Inv /\ [Next]_vars => Inv'
<1> SUFFICES ASSUME Inv, [Next]_vars PROVE Inv' OBVIOUS
<1>1. CASE Thread
  BY <1>1, MovingStep, TakeChunkStep, CountOffStep, SubmitFullStep, SubmitPaddedStep,
     EnterTransmitStep, TransferSentStep, TransferFailedStep, EndingStep DEF Thread
<1>2. CASE Producer
  BY <1>2, PutChunkStep, RefuseChunkStep, WaitingStep DEF Producer
<1>3. CASE \E n \in Lens : CountChunk(n) BY <1>3, CountChunkStep
<1>4. CASE UNCHANGED vars
  <2>1. /\ UNCHANGED <<pc, mode, pend, hand, usb, real, errors, reaped>>
        /\ UNCHANGED <<prod, chunk, written, chan, queued, airborne, stop>>
    BY <1>4 DEF vars
  <2>2. TypeOK' BY <2>1 DEF Inv, TypeOK
  <2>3. Producing' BY <2>1 DEF Inv, Producing
  <2>4. Shape' BY <2>1 DEF Inv, Shape
  <2>5. Flights' BY <2>1 DEF Inv, Flights
  <2>6. Erring' BY <2>1 DEF Inv, Erring
  <2>7. SamplesInOrder' BY <2>1, OrderAlone DEF Inv
  <2>8. CountersExact' BY <2>1 DEF Inv, CountersExact
  <2> QED BY <2>2, <2>3, <2>4, <2>5, <2>6, <2>7, <2>8 DEF Inv
<1> QED BY <1>1, <1>2, <1>3, <1>4 DEF Next

\* The invariant holds in every state the writer can be in.
THEOREM WriterInvariant == Spec => []Inv
<1>1. Init => Inv BY InitInv
<1>2. Inv /\ [Next]_vars => Inv' BY NextInv
<1> QED BY <1>1, <1>2, PTL DEF Spec

\* Samples reach the radio in the order they were written, none twice and none
\* skipped: TxFiller::next and the loop around it.
THEOREM SamplesAreInOrder == Spec => []SamplesInOrder
<1>1. Inv => SamplesInOrder BY DEF Inv
<1> QED BY <1>1, WriterInvariant, PTL

\* The counters drain reads are what they stand for and never wrap.
THEOREM CountersAreExact == Spec => []CountersExact
<1>1. Inv => CountersExact BY DEF Inv
<1> QED BY <1>1, WriterInvariant, PTL

\* The board never transmits with fewer transfers than the loop keeps queued.
THEOREM KeyedWithTransfersQueued == Spec => []KeyedWithTransfers
<1>1. Inv => KeyedWithTransfers
  <2>1. NumTransfers \in Nat BY WriterAssumption
  <2>2. Inv => (mode = "tx" => pc \in {"top", "wait", "fill", "off"}) BY DEF Inv, Shape
  <2> QED BY <2>1, <2>2 DEF Inv, Shape, KeyedWithTransfers
<1> QED BY <1>1, WriterInvariant, PTL

\* AsyncWriteHandle::drain says the queue emptied only when the channel and the
\* endpoint hold no sample, unless the thread has given the over up.
THEOREM DrainSees == Spec => DrainSeesQueue
<1> DEFINE Seen == prod' = "drained" /\ prod # "drained" =>
                     chan = <<>> /\ (pc # "cancel" => \A i \in 1 .. Len(usb) : usb[i] = <<>>)
<1>1. ASSUME Inv, [Next]_vars PROVE [Seen]_vars
  <2> SUFFICES ASSUME prod' = "drained", prod # "drained" PROVE Seen BY DEF Seen
  <2>1. LoadAirborne
    BY <1>1 DEF vars, caller, Next, Thread, Producer, OpenEndpoint, TakeChunk, CountOff,
       SubmitFull, SubmitPadded, EnterTransmit, TopOfLoop, WaitTimeout, TransferSent,
       TransferFailed, ModeOff, CancelAll, PutChunk, RefuseChunk, BeginDrain, LoadQueued,
       LoadAirborne, DrainTimeout, Resume, Release, Join, CountChunk
  <2>2. airborne = 0 /\ queued = 0
    BY <1>1, <2>1 DEF LoadAirborne, Inv, Producing
  <2>3. /\ usb \in Seq(Seq(Samples)) /\ real \in Seq(BOOLEAN) /\ Len(chan) \in Nat
        /\ chan \in Seq(Seq(Samples)) /\ Len(usb) \in Nat
    BY <1>1, LenProperties DEF Inv, TypeOK
  <2>4. chan = <<>>
    <3> DEFINE h == IF hand # <<>> THEN 1 ELSE 0
               c == IF prod = "counted" THEN 1 ELSE 0
    <3>2. h \in Nat /\ c \in Nat OBVIOUS
    <3>3. queued = Len(chan) + h + c BY <1>1 DEF Inv, CountersExact
    <3> HIDE DEF h, c
    <3>1. Len(chan) = 0 BY <2>2, <2>3, <3>2, <3>3
    <3> QED BY <2>3, <3>1, EmptySeq
  <2>5. CASE pc = "cancel" BY <2>4, <2>5
  <2>6. CASE pc = "exited"
    <3>1. Len(usb) = 0 BY <1>1, <2>6, EmptySeq DEF Inv, Shape
    <3> QED BY <2>4, <3>1
  <2>7. CASE pc \notin {"cancel", "exited"}
    <3>1. Flying(real) = {}
      <4>1. Cardinality(Flying(real)) = 0 BY <1>1, <2>2, <2>7 DEF Inv, CountersExact
      <4>2. IsFiniteSet(Flying(real)) BY <2>3, FlyingIsFinite
      <4> QED BY <4>1, <4>2, FS_EmptySet
    <3>2. \E d \in {0, 1} : /\ Len(real) = Len(usb) + d
                            /\ \A i \in 1 .. Len(usb) : real[i + d] = (usb[i] # <<>>)
      <4>1. CASE pc = "off" BY <1>1, <4>1 DEF Inv, Flights
      <4>2. CASE pc # "off"
        <5>1. Len(real) = Len(usb) /\ \A i \in 1 .. Len(usb) : real[i] = (usb[i] # <<>>)
          BY <1>1, <2>7, <4>2 DEF Inv, Flights
        <5>2. \A i \in 1 .. Len(usb) : i + 0 = i BY <2>3
        <5>3. Len(real) = Len(usb) + 0 BY <2>3, <5>1
        <5>4. \A i \in 1 .. Len(usb) : real[i + 0] = (usb[i] # <<>>) BY <5>1, <5>2
        <5> QED BY <5>3, <5>4
      <4> QED BY <4>1, <4>2
    <3>3. PICK d \in {0, 1} : /\ Len(real) = Len(usb) + d
                              /\ \A i \in 1 .. Len(usb) : real[i + d] = (usb[i] # <<>>)
      BY <3>2
    <3>4. ASSUME NEW i \in 1 .. Len(usb) PROVE usb[i] = <<>>
      <4>1. i + d \in DOMAIN real BY <2>3, <3>3
      <4>2. ~real[i + d] BY <3>1, <4>1 DEF Flying
      <4> QED BY <3>3, <4>2
    <3> QED BY <2>4, <3>4
  <2> QED BY <2>5, <2>6, <2>7
<1>2. Inv /\ [Next]_vars => [Seen]_vars BY <1>1
<1> HIDE DEF Seen
<1>3. Spec => [][Seen]_vars BY <1>2, WriterInvariant, PTL DEF Spec
<1> QED BY <1>3 DEF Seen, DrainSeesQueue
=============================================================================
