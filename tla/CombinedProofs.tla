--------------------------- MODULE CombinedProofs ---------------------------
(***************************************************************************)
(* The tiling of the slices, the loss counters of Combined and the course  *)
(* of a sample, for any number of tuners, block lengths, depth of queues,  *)
(* corrections, dial positions and rates.                                  *)
(***************************************************************************)
EXTENDS Combined, TLAPS

Losses == \A i \in Tuners : refused[i] <= lost[i] /\ lost[i] <= refused[i] + own[i]

Typed ==
    /\ own \in [Tuners -> Nat]
    /\ lost \in [Tuners -> Nat]
    /\ refused \in [Tuners -> Nat]

\* What the tuners' threads do to the loss counters keeps them between what the
\* queues refused and that with the drivers' own losses; what the control calls
\* do keeps the slices side by side.
Inv == Typed /\ Losses /\ SlicesTile

Flows ==
    /\ made \in [Tuners -> Nat] /\ gone \in [Tuners -> Nat]
    /\ pending \in [Tuners -> Seq(Nat)] /\ queue \in [Tuners -> Seq(Nat)]

\* What a slice holds goes up to the last sample its thread read, and adds up
\* with what was given, skipped and refused.
Rising(s) == \A j, k \in 1 .. Len(s) : j < k => s[j] < s[k]
UpTo(s, top) == \A j \in 1 .. Len(s) : s[j] <= top
Held(i) ==
    /\ Rising(Drained(i)) /\ UpTo(Drained(i), made[i])
    /\ made[i] = gone[i] + refused[i] + Len(Drained(i))

\* A slice that was found closed has no thread until the stream is dropped.
Finished ==
    DOMAIN thread = Tuners /\ \A i \in Tuners : ended[i] => thread[i] = "none"

Course == Flows /\ Finished /\ \A i \in Tuners : Held(i)

-----------------------------------------------------------------------------
\* Slice i of N tuners is a tuner.
LEMMA TunersCounted == \A i \in Tuners : i \in Nat /\ 1 <= i /\ i <= N
  BY CombinedAssumption DEF Tuners

\* at_rate leaves the slices in place and nothing lost.
LEMMA InitInv == Init => Inv
<1> SUFFICES ASSUME Init PROVE Inv OBVIOUS
<1>1. Typed BY DEF Init, Typed
<1>2. Losses BY DEF Init, Losses
<1>3. SlicesTile BY DEF Init, SlicesTile
<1> QED BY <1>1, <1>2, <1>3 DEF Inv

\* A call that moves the tuners leaves them side by side if none refused.
LEMMA MoveTiles ==
  ASSUME NEW k \in 0 .. N, NEW f, NEW r, Move(k, f, r), childRate' = r
  PROVE  settled' => \A i \in Tuners : at'[i] = SliceCenter(i, center', childRate')
<1> SUFFICES ASSUME settled', NEW i \in Tuners
             PROVE  at'[i] = SliceCenter(i, center', childRate')
    OBVIOUS
<1>1. k = N BY DEF Move
<1>2. i <= k BY <1>1, TunersCounted
<1>3. at'[i] = SliceCenter(i, f, r) BY <1>2 DEF Move, Retuned
<1>4. center' = f BY <1>1 DEF Move
<1> QED BY <1>3, <1>4

\* The slices stay side by side when neither they nor the dial move.
LEMMA DialAlone == SlicesTile /\ UNCHANGED dial => SlicesTile'
<1> SUFFICES ASSUME SlicesTile, UNCHANGED dial PROVE SlicesTile' OBVIOUS
<1>1. /\ center' = center /\ childRate' = childRate /\ at' = at
      /\ rateOf' = rateOf /\ settled' = settled /\ rated' = rated
  BY DEF dial
<1> QED BY <1>1 DEF SlicesTile

\* The counters stay as they are when no thread and no driver touches them.
LEMMA CountersAlone ==
  Typed /\ Losses /\ UNCHANGED <<own, lost, refused>> => Typed' /\ Losses'
  BY DEF Typed, Losses

-----------------------------------------------------------------------------
\* set_center, taken or refused half way.
LEMMA SetCenterStep ==
  ASSUME Inv, NEW k \in 0 .. N, NEW f \in Centers, SetCenter(k, f)
  PROVE  Inv'
<1>1. UNCHANGED <<own, lost, refused>> BY DEF SetCenter, tuner, slice
<1>2. childRate' = childRate /\ rateOf' = rateOf /\ rated' = rated BY DEF SetCenter
<1>3. settled' => \A i \in Tuners : at'[i] = SliceCenter(i, center', childRate')
  BY <1>2, MoveTiles DEF SetCenter
<1>4. SlicesTile' BY <1>2, <1>3 DEF SlicesTile, Inv
<1> QED BY <1>1, <1>4, CountersAlone DEF Inv

\* set_rate, refused before any tuner was asked.
LEMMA RateTooLowStep == ASSUME Inv, RateTooLow PROVE Inv'
<1>1. UNCHANGED <<own, lost, refused>> BY DEF RateTooLow, tuner, slice
<1>2. ~settled' /\ rateOf' = rateOf /\ rated' = rated /\ childRate' = childRate
  BY DEF RateTooLow
<1>3. SlicesTile' BY <1>2 DEF SlicesTile, Inv
<1> QED BY <1>1, <1>3, CountersAlone DEF Inv

\* set_rate, refused half way, or taken at several rates.
LEMMA RateRefusedStep ==
  ASSUME Inv, NEW k \in 0 .. N, NEW got \in [Tuners -> Rates], RateRefused(k, got)
  PROVE  Inv'
<1>1. UNCHANGED <<own, lost, refused>> BY DEF RateRefused, tuner, slice
<1>2. ~settled' /\ ~rated' BY DEF RateRefused
<1>3. SlicesTile' BY <1>2 DEF SlicesTile
<1> QED BY <1>1, <1>3, CountersAlone DEF Inv

\* set_rate that every tuner takes, and the retune that follows.
LEMMA RateTakenStep ==
  ASSUME Inv, NEW k \in 0 .. N, NEW r \in Rates, RateTaken(r, k)
  PROVE  Inv'
<1>1. UNCHANGED <<own, lost, refused>> BY DEF RateTaken, tuner, slice
<1>2. childRate' = r /\ rateOf' = [i \in Tuners |-> r] BY DEF RateTaken
<1>3. settled' => \A i \in Tuners : at'[i] = SliceCenter(i, center', childRate')
  BY <1>2, MoveTiles DEF RateTaken
<1>4. SlicesTile' BY <1>2, <1>3 DEF SlicesTile
<1> QED BY <1>1, <1>4, CountersAlone DEF Inv

\* Starting and dropping the stream begin the counters again.
LEMMA FreshStep ==
  ASSUME Inv, Fresh, UNCHANGED dial, own' \in [Tuners -> Nat]
  PROVE  Inv'
<1>1. /\ lost' = [i \in Tuners |-> 0]
      /\ refused' = [i \in Tuners |-> 0]
  BY DEF Fresh
<1>2. Typed' BY <1>1 DEF Typed
<1>3. Losses' BY <1>1, <1>2 DEF Losses, Typed
<1>4. SlicesTile' BY DialAlone DEF Inv
<1> QED BY <1>2, <1>3, <1>4 DEF Inv

\* A block read by a slice's thread: what its queue refused is added, then the
\* driver's own total is taken if it is more.
LEMMA ReadBlockStep ==
  ASSUME Inv, NEW i \in Tuners, ReadBlock(i)
  PROVE  Inv'
<1> DEFINE over == IF Takes(i) THEN 0 ELSE BlockLen[i]
<1>0. Typed /\ Losses BY DEF Inv
<1>1. over \in Nat BY CombinedAssumption
<1>2. /\ refused' = [refused EXCEPT ![i] = @ + over]
      /\ lost' = [lost EXCEPT ![i] = Counted(@ + over, own[i])]
      /\ own' = own
  BY DEF ReadBlock
<1>3. UNCHANGED dial BY DEF ReadBlock
<1>4. refused[i] \in Nat /\ lost[i] \in Nat /\ own[i] \in Nat BY <1>0 DEF Typed
<1>5. refused[i] <= lost[i] /\ lost[i] <= refused[i] + own[i] BY <1>0 DEF Losses
<1> HIDE DEF over
<1>6. /\ Counted(lost[i] + over, own[i]) \in Nat
      /\ refused[i] + over <= Counted(lost[i] + over, own[i])
      /\ Counted(lost[i] + over, own[i]) <= refused[i] + over + own[i]
  BY <1>1, <1>4, <1>5 DEF Counted
<1>7. Typed' BY <1>0, <1>1, <1>2, <1>4, <1>6 DEF Typed
<1>8. Losses'
  <2> SUFFICES ASSUME NEW j \in Tuners
               PROVE  refused'[j] <= lost'[j] /\ lost'[j] <= refused'[j] + own'[j]
      BY DEF Losses
  <2>1. CASE j = i
    <3>1. refused'[i] = refused[i] + over /\ lost'[i] = Counted(lost[i] + over, own[i])
      BY <1>0, <1>2 DEF Typed
    <3> QED BY <1>2, <1>6, <2>1, <3>1
  <2>2. CASE j # i
    <3>1. refused'[j] = refused[j] /\ lost'[j] = lost[j] BY <1>0, <1>2, <2>2 DEF Typed
    <3> QED BY <1>0, <1>2, <3>1 DEF Losses
  <2> QED BY <2>1, <2>2
<1> QED BY <1>3, <1>7, <1>8, DialAlone DEF Inv

\* A driver that loses samples only widens the bound.
LEMMA DeliverStep ==
  ASSUME Inv, NEW on \in SUBSET Tuners, NEW lossy \in SUBSET Tuners, Deliver(on, lossy)
  PROVE  Inv'
<1>0. Typed /\ Losses BY DEF Inv
<1>1. /\ own' = [i \in Tuners |-> IF i \in lossy THEN own[i] + Chunk ELSE own[i]]
      /\ lost' = lost /\ refused' = refused
  BY DEF Deliver, slice
<1>2. UNCHANGED dial BY DEF Deliver
<1>3. Chunk \in Nat BY CombinedAssumption
<1>4. Typed' BY <1>0, <1>1, <1>3 DEF Typed
<1>5. Losses'
  <2> SUFFICES ASSUME NEW i \in Tuners
               PROVE  refused'[i] <= lost'[i] /\ lost'[i] <= refused'[i] + own'[i]
      BY DEF Losses
  <2>1. own'[i] \in Nat /\ own[i] \in Nat /\ own[i] <= own'[i]
    BY <1>0, <1>1, <1>3, <1>4 DEF Typed
  <2>2. refused[i] \in Nat /\ lost[i] \in Nat BY <1>0 DEF Typed
  <2> QED BY <1>0, <1>1, <2>1, <2>2 DEF Losses
<1> QED BY <1>2, <1>4, <1>5, DialAlone DEF Inv

\* Every other step leaves the counters and the dial alone.
LEMMA OtherStep ==
  ASSUME Inv, UNCHANGED <<own, lost, refused, dial>>
  PROVE  Inv'
<1>1. UNCHANGED dial /\ UNCHANGED <<own, lost, refused>> OBVIOUS
<1> QED BY <1>1, CountersAlone, DialAlone DEF Inv

-----------------------------------------------------------------------------
LEMMA StartStep == ASSUME Inv, NEW k \in 0 .. N, Start(k) PROVE Inv'
<1>1. UNCHANGED dial /\ Fresh BY DEF Start
<1>2. own' = [i \in Tuners |-> IF i <= k THEN 0 ELSE own[i]] BY DEF Start
<1>3. own' \in [Tuners -> Nat] BY <1>2 DEF Inv, Typed
<1> QED BY <1>1, <1>3, FreshStep

LEMMA ReadStep == ASSUME Inv, Read PROVE Inv'
<1>1. CASE ReadStopped
  BY <1>1, OtherStep DEF ReadStopped, tuner, slice
<1>2. CASE ReadBegins
  BY <1>2, OtherStep DEF ReadBegins, tuner, slice
<1>3. CASE WaitOn
  BY <1>3, OtherStep DEF WaitOn, Drain, tuner
<1>4. CASE IsOver
  BY <1>4, OtherStep DEF IsOver, Drain, tuner
<1>5. ASSUME NEW slip \in Corrections, Stitch(slip) PROVE Inv'
  BY <1>5, OtherStep DEF Stitch, Drain, tuner
<1> QED BY <1>1, <1>2, <1>3, <1>4, <1>5 DEF Read, Look

\* Every step keeps the counters' bounds and the tiling.
LEMMA NextInv == Inv /\ [Next]_vars => Inv'
<1> SUFFICES ASSUME Inv, [Next]_vars PROVE Inv' OBVIOUS
<1>1. CASE Dial
  <2>1. ASSUME NEW k \in 0 .. N, NEW f \in Centers, SetCenter(k, f) PROVE Inv'
    BY <2>1, SetCenterStep
  <2>2. CASE RateTooLow BY <2>2, RateTooLowStep
  <2>3. ASSUME NEW k \in 0 .. N, NEW got \in [Tuners -> Rates], RateRefused(k, got) PROVE Inv'
    BY <2>3, RateRefusedStep
  <2>4. ASSUME NEW r \in Rates, NEW k \in 0 .. N, RateTaken(r, k) PROVE Inv'
    BY <2>4, RateTakenStep
  <2> QED BY <1>1, <2>1, <2>2, <2>3, <2>4 DEF Dial
<1>2. ASSUME NEW k \in 0 .. N, Start(k) PROVE Inv' BY <1>2, StartStep
<1>3. CASE Stop BY <1>3, OtherStep DEF Stop, tuner
<1>4. CASE DropStream
  <2>1. own' = own /\ UNCHANGED dial /\ Fresh BY <1>4 DEF DropStream, tuner
  <2>2. own' \in [Tuners -> Nat] BY <2>1 DEF Inv, Typed
  <2> QED BY <2>1, <2>2, FreshStep
<1>5. ASSUME NEW i \in Tuners, Thread(i) PROVE Inv'
  <2>1. CASE Loop(i) BY <2>1, OtherStep DEF Loop, tuner
  <2>2. CASE ReadBlock(i) BY <2>2, ReadBlockStep
  <2>3. CASE ReadFails(i) BY <2>3, OtherStep DEF ReadFails, tuner
  <2> QED BY <1>5, <2>1, <2>2, <2>3 DEF Thread
<1>6. ASSUME NEW on \in SUBSET Tuners, NEW lossy \in SUBSET Tuners, Deliver(on, lossy) PROVE Inv'
  BY <1>6, DeliverStep
<1>7. CASE Read BY <1>7, ReadStep
<1>8. CASE UNCHANGED vars BY <1>8, OtherStep DEF vars, tuner, slice
<1> QED BY <1>1, <1>2, <1>3, <1>4, <1>5, <1>6, <1>7, <1>8 DEF Next

-----------------------------------------------------------------------------
\* Sequences of samples: more of them behind, fewer of them in front.

LEMMA Joined ==
  ASSUME NEW a \in Seq(Nat), NEW b \in Seq(Nat)
  PROVE  a \o b \in Seq(Nat) /\ Len(a \o b) = Len(a) + Len(b) /\ Len(a) \in Nat /\ Len(b) \in Nat
OBVIOUS

LEMMA RisingOn ==
  ASSUME NEW p \in Seq(Nat), NEW q \in Seq(Nat), NEW m \in Nat, NEW n \in Nat \ {0},
         NEW t \in Seq(Nat), Len(t) = n, \A j \in 1 .. n : t[j] = m + j,
         Rising(p \o q), UpTo(p \o q, m)
  PROVE  /\ Rising(p \o (q \o t)) /\ UpTo(p \o (q \o t), m + n)
         /\ Len(p \o (q \o t)) = Len(p \o q) + n
<1> DEFINE s == p \o q
           u == p \o (q \o t)
<1>2. s \in Seq(Nat) /\ u \in Seq(Nat) /\ q \o t \in Seq(Nat)
  OBVIOUS
<1>3. Len(s) = Len(p) + Len(q) /\ Len(u) = Len(s) + n
  <2>1. Len(s) = Len(p) + Len(q) /\ Len(p) \in Nat /\ Len(q) \in Nat  BY Joined
  <2>2. Len(q \o t) = Len(q) + n  BY Joined
  <2>3. Len(u) = Len(p) + Len(q \o t)  BY <1>2, Joined
  <2> QED BY <2>1, <2>2, <2>3
<1>4. \A j \in 1 .. Len(s) : u[j] = s[j]
  BY <1>3
<1>5. \A j \in 1 .. n : u[Len(s) + j] = m + j
  BY <1>3
<1>6. Rising(s) /\ UpTo(s, m)
  OBVIOUS
<1>7. Len(s) \in Nat /\ \A j \in 1 .. Len(s) : s[j] \in Nat
  BY <1>2
<1> HIDE DEF s, u
<1>8. \A j \in 1 .. Len(u) : j \notin 1 .. Len(s) => j - Len(s) \in 1 .. n /\ u[j] = m + (j - Len(s))
  <2> TAKE j \in 1 .. Len(u)
  <2> HAVE j \notin 1 .. Len(s)
  <2>1. j - Len(s) \in 1 .. n /\ Len(s) + (j - Len(s)) = j  BY <1>3, <1>7
  <2> QED BY <1>5, <2>1
<1>9. UpTo(u, m + n)
  <2> SUFFICES ASSUME NEW j \in 1 .. Len(u) PROVE u[j] <= m + n
      BY DEF UpTo
  <2>1. CASE j \in 1 .. Len(s)
    <3>1. s[j] <= m  BY <1>6, <2>1 DEF UpTo
    <3>2. u[j] = s[j] /\ s[j] \in Nat  BY <1>4, <1>7, <2>1
    <3> QED BY <3>1, <3>2
  <2>2. CASE j \notin 1 .. Len(s)  BY <1>8, <2>2
  <2> QED BY <2>1, <2>2
<1>10. Rising(u)
  <2> SUFFICES ASSUME NEW j \in 1 .. Len(u), NEW k \in 1 .. Len(u), j < k PROVE u[j] < u[k]
      BY DEF Rising
  <2>1. CASE k \in 1 .. Len(s)
    <3>1. j \in 1 .. Len(s)  BY <1>7, <2>1
    <3>2. s[j] < s[k]  BY <1>6, <2>1, <3>1 DEF Rising
    <3>3. u[j] = s[j] /\ u[k] = s[k]  BY <1>4, <2>1, <3>1
    <3> QED BY <3>2, <3>3
  <2>2. CASE k \notin 1 .. Len(s) /\ j \in 1 .. Len(s)
    <3>1. s[j] <= m  BY <1>6, <2>2 DEF UpTo
    <3>2. u[j] = s[j] /\ s[j] \in Nat  BY <1>4, <1>7, <2>2
    <3> QED BY <1>8, <2>2, <3>1, <3>2
  <2>3. CASE k \notin 1 .. Len(s) /\ j \notin 1 .. Len(s)
    BY <1>8, <2>3
  <2> QED BY <2>1, <2>2, <2>3
<1> QED BY <1>3, <1>9, <1>10 DEF s, u

More(m, n) == [j \in 1 .. n |-> m + j]

LEMMA MoreSamples ==
  ASSUME NEW p \in Seq(Nat), NEW q \in Seq(Nat), NEW m \in Nat, NEW n \in Nat \ {0},
         Rising(p \o q), UpTo(p \o q, m)
  PROVE  /\ q \o More(m, n) \in Seq(Nat)
         /\ Rising(p \o (q \o More(m, n))) /\ UpTo(p \o (q \o More(m, n)), m + n)
         /\ Len(p \o (q \o More(m, n))) = Len(p \o q) + n
<1>1. /\ More(m, n) \in Seq(Nat) /\ Len(More(m, n)) = n
      /\ \A j \in 1 .. n : More(m, n)[j] = m + j
  BY DEF More
<1>2. q \o More(m, n) \in Seq(Nat)
  BY <1>1
<1> QED BY <1>1, <1>2, RisingOn

LEMMA FewerSamples ==
  ASSUME NEW s \in Seq(Nat), NEW m \in Nat, NEW n \in 0 .. Len(s), Rising(s), UpTo(s, m)
  PROVE  LET r == SubSeq(s, n + 1, Len(s)) IN
         r \in Seq(Nat) /\ Rising(r) /\ UpTo(r, m) /\ Len(r) = Len(s) - n
<1> DEFINE r == SubSeq(s, n + 1, Len(s))
<1>1. r \in Seq(Nat) /\ Len(r) = Len(s) - n /\ \A j \in 1 .. Len(r) : r[j] = s[j + n]
  OBVIOUS
<1>2. \A j \in 1 .. Len(r) : j + n \in 1 .. Len(s)
  BY <1>1
<1> HIDE DEF r
<1>3. Rising(r)
  <2> SUFFICES ASSUME NEW j \in 1 .. Len(r), NEW k \in 1 .. Len(r), j < k PROVE r[j] < r[k]
      BY DEF Rising
  <2>1. j + n \in 1 .. Len(s) /\ k + n \in 1 .. Len(s) /\ j + n < k + n  BY <1>2
  <2>2. s[j + n] < s[k + n]  BY <2>1 DEF Rising
  <2> QED BY <1>1, <2>2
<1>4. UpTo(r, m)
  <2> SUFFICES ASSUME NEW j \in 1 .. Len(r) PROVE r[j] <= m
      BY DEF UpTo
  <2>1. s[j + n] <= m  BY <1>2 DEF UpTo
  <2> QED BY <1>1, <2>1
<1> QED BY <1>1, <1>3, <1>4 DEF r

LEMMA SameSum ==
  \A g, r, l, k \in Nat : g + r + l = (g + k) + r + (l - k)
OBVIOUS

LEMMA NothingHeld ==
  \A m \in Nat : Rising(<<>>) /\ UpTo(<<>>, m) /\ <<>> \in Seq(Nat) /\ Len(<<>>) = 0
BY DEF Rising, UpTo

LEMMA DrainedType ==
  ASSUME Flows, NEW i \in Tuners
  PROVE  Drained(i) \in Seq(Nat) /\ Len(Drained(i)) \in Nat
BY DEF Flows, Drained

-----------------------------------------------------------------------------
\* The course of the samples, step by step.

LEMMA CourseAlone ==
  ASSUME Course, UNCHANGED <<queue, made, refused, pending, gone>>,
         \A i \in Tuners : ended'[i] => ended[i],
         DOMAIN thread' = DOMAIN thread,
         \A i \in Tuners : thread[i] = "none" => thread'[i] = "none"
  PROVE  Course'
<1>1. Flows' /\ \A i \in Tuners : Held(i)'
  BY DEF Course, Flows, Held, Drained
<1>2. Finished'
  BY DEF Course, Finished
<1> QED BY <1>1, <1>2 DEF Course

\* Starting and dropping a stream begin again with nothing.
LEMMA FreshCourse == ASSUME Fresh, DOMAIN thread' = Tuners PROVE Course'
<1>1. Flows' /\ Finished'
  BY NothingHeld DEF Fresh, Flows, Finished
<1>2. ASSUME NEW i \in Tuners PROVE Held(i)'
  <2>1. Drained(i)' = <<>>
    BY DEF Fresh, Drained
  <2>2. made'[i] = 0 /\ gone'[i] = 0 /\ refused'[i] = 0
    BY DEF Fresh
  <2> QED BY <2>1, <2>2, NothingHeld DEF Held
<1> QED BY <1>1, <1>2 DEF Course

\* A block goes behind what is there, or is counted as refused.
LEMMA ReadBlockCourse ==
  ASSUME Typed, Course, NEW i \in Tuners, ReadBlock(i)
  PROVE  Course'
<1> DEFINE n == BlockLen[i]
           t == NextBlock(i)
<1>1. n \in Nat \ {0} /\ t = More(made[i], n)
  BY CombinedAssumption DEF NextBlock, More
<1>2. /\ made' = [made EXCEPT ![i] = made[i] + n]
      /\ pending' = pending /\ gone' = gone /\ ended' = ended
      /\ queue' = [queue EXCEPT ![i] = IF Takes(i) THEN queue[i] \o t ELSE queue[i]]
      /\ refused' = [refused EXCEPT ![i] = refused[i] + IF Takes(i) THEN 0 ELSE n]
      /\ thread[i] = "read" /\ thread' = [thread EXCEPT ![i] = "loop"]
  BY DEF ReadBlock, stitch
<1>3. /\ made[i] \in Nat /\ refused[i] \in Nat /\ gone[i] \in Nat
      /\ pending[i] \in Seq(Nat) /\ queue[i] \in Seq(Nat)
      /\ Len(Drained(i)) \in Nat
  BY DrainedType DEF Course, Flows, Typed
<1>4. Held(i)  BY DEF Course
<1>5. /\ queue[i] \o t \in Seq(Nat)
      /\ Rising(pending[i] \o (queue[i] \o t))
      /\ UpTo(pending[i] \o (queue[i] \o t), made[i] + n)
      /\ Len(pending[i] \o (queue[i] \o t)) = Len(Drained(i)) + n
  <2>1. Rising(pending[i] \o queue[i]) /\ UpTo(pending[i] \o queue[i], made[i])
    BY <1>4 DEF Held, Drained
  <2>2. Drained(i) = pending[i] \o queue[i]  BY DEF Drained
  <2> HIDE DEF n, t
  <2> DEFINE b == More(made[i], n)
  <2>3. ASSUME NEW p \in Seq(Nat), NEW q \in Seq(Nat), NEW m \in Nat,
               Rising(p \o q), UpTo(p \o q, m)
        PROVE  /\ q \o More(m, n) \in Seq(Nat)
               /\ Rising(p \o (q \o More(m, n))) /\ UpTo(p \o (q \o More(m, n)), m + n)
               /\ Len(p \o (q \o More(m, n))) = Len(p \o q) + n
    BY <1>1, <2>3, MoreSamples
  <2>4. /\ queue[i] \o b \in Seq(Nat)
        /\ Rising(pending[i] \o (queue[i] \o b))
        /\ UpTo(pending[i] \o (queue[i] \o b), made[i] + n)
        /\ Len(pending[i] \o (queue[i] \o b)) = Len(pending[i] \o queue[i]) + n
    BY <1>3, <2>1, <2>3
  <2> QED BY <1>1, <2>2, <2>4
<1> HIDE DEF n, t
<1>6. Flows'
  BY <1>1, <1>2, <1>3, <1>5 DEF Course, Flows
<1>7. Finished'
  BY <1>2 DEF Course, Finished
<1>8. Held(i)'
  <2>0. made'[i] = made[i] + n /\ gone'[i] = gone[i] /\ pending'[i] = pending[i]
    BY <1>2 DEF Course, Flows
  <2>1. CASE Takes(i)
    <3>1. queue'[i] = queue[i] \o t /\ refused'[i] = refused[i]
      BY <1>2, <1>3, <2>1 DEF Course, Flows, Typed
    <3>2. Drained(i)' = pending[i] \o (queue[i] \o t)
      BY <2>0, <3>1 DEF Drained
    <3>3. Rising(Drained(i)')  BY <1>5, <3>2
    <3>4. UpTo(Drained(i)', made'[i])  BY <1>5, <2>0, <3>2
    <3>5. Len(Drained(i)') = Len(Drained(i)) + n  BY <1>5, <3>2
    <3>6. made[i] = gone[i] + refused[i] + Len(Drained(i))  BY <1>4 DEF Held
    <3>7. made'[i] = gone'[i] + refused'[i] + Len(Drained(i)')
      BY <1>1, <1>3, <2>0, <3>1, <3>5, <3>6
    <3> QED BY <3>3, <3>4, <3>7 DEF Held
  <2>2. CASE ~Takes(i)
    <3>1. queue'[i] = queue[i] /\ refused'[i] = refused[i] + n
      BY <1>2, <1>3, <2>2 DEF Course, Flows, Typed
    <3>2. Drained(i)' = Drained(i)
      BY <2>0, <3>1 DEF Drained
    <3>3. \A j \in 1 .. Len(Drained(i)) : Drained(i)[j] \in Nat
      BY DrainedType DEF Course
    <3>4. UpTo(Drained(i), made[i] + n)
      BY <1>1, <1>3, <1>4, <3>3 DEF Held, UpTo
    <3> QED BY <1>1, <1>3, <1>4, <2>0, <3>1, <3>2, <3>4 DEF Held
  <2> QED BY <2>1, <2>2
<1>9. ASSUME NEW j \in Tuners, j # i PROVE Held(j)'
  <2>1. /\ made'[j] = made[j] /\ gone'[j] = gone[j] /\ refused'[j] = refused[j]
        /\ Drained(j)' = Drained(j)
    BY <1>2, <1>9 DEF Course, Flows, Typed, Drained
  <2> QED BY <2>1 DEF Course, Held
<1> QED BY <1>6, <1>7, <1>8, <1>9 DEF Course

\* A look of the reader takes n(i) samples off the front of what it drained.
LEMMA LookCourse ==
  ASSUME Typed, Course, Drain,
         NEW n, \A i \in Tuners : n[i] \in 0 .. Len(Drained(i)),
         pending' = [i \in Tuners |-> SubSeq(Drained(i), n[i] + 1, Len(Drained(i)))],
         gone' = [i \in Tuners |-> gone[i] + n[i]]
  PROVE  Course'
<1>1. /\ queue' = [i \in Tuners |-> <<>>] /\ ended' = [i \in Tuners |-> Closed(i)]
      /\ thread' = thread /\ made' = made /\ refused' = refused
  BY DEF Drain
<1>2. ASSUME NEW i \in Tuners
      PROVE  /\ pending'[i] \in Seq(Nat) /\ Rising(pending'[i]) /\ UpTo(pending'[i], made[i])
             /\ Len(pending'[i]) = Len(Drained(i)) - n[i]
             /\ Drained(i)' = pending'[i]
             /\ n[i] \in Nat /\ Len(Drained(i)) \in Nat
  <2>1. Drained(i) \in Seq(Nat) /\ Len(Drained(i)) \in Nat /\ made[i] \in Nat
    BY DrainedType DEF Course, Flows
  <2>2. Rising(Drained(i)) /\ UpTo(Drained(i), made[i])
    BY DEF Course, Held
  <2>3. pending'[i] = SubSeq(Drained(i), n[i] + 1, Len(Drained(i))) /\ queue'[i] = <<>>
    BY <1>1
  <2>4. /\ pending'[i] \in Seq(Nat) /\ Rising(pending'[i]) /\ UpTo(pending'[i], made[i])
        /\ Len(pending'[i]) = Len(Drained(i)) - n[i]
    BY <2>1, <2>2, <2>3, FewerSamples
  <2>5. Drained(i)' = pending'[i]
    BY <2>3, <2>4 DEF Drained
  <2> QED BY <2>1, <2>4, <2>5
<1>3. Flows'
  <2>1. pending' \in [Tuners -> Seq(Nat)]  BY <1>2
  <2>2. gone' \in [Tuners -> Nat]  BY <1>2 DEF Course, Flows
  <2>3. queue' \in [Tuners -> Seq(Nat)]  BY <1>1, NothingHeld
  <2> QED BY <1>1, <2>1, <2>2, <2>3 DEF Course, Flows
<1>4. Finished'
  BY <1>1 DEF Course, Finished, Closed
<1>5. ASSUME NEW i \in Tuners PROVE Held(i)'
  <2>1. made[i] = gone[i] + refused[i] + Len(Drained(i)) /\ gone'[i] = gone[i] + n[i]
    BY DEF Course, Held
  <2>2. gone[i] \in Nat /\ refused[i] \in Nat /\ made[i] \in Nat
    BY DEF Course, Flows, Typed
  <2>3. Rising(Drained(i)') /\ UpTo(Drained(i)', made'[i])  BY <1>1, <1>2
  <2>4. Len(Drained(i)') = Len(Drained(i)) - n[i]  BY <1>2
  <2>5. made'[i] = made[i] /\ refused'[i] = refused[i] /\ n[i] \in Nat /\ Len(Drained(i)) \in Nat
    BY <1>1, <1>2
  <2>6. gone[i] + refused[i] + Len(Drained(i))
        = (gone[i] + n[i]) + refused[i] + (Len(Drained(i)) - n[i])
    BY <2>2, <2>5, SameSum
  <2>7. made'[i] = gone'[i] + refused'[i] + Len(Drained(i)')
    BY <2>1, <2>4, <2>5, <2>6, Zenon
  <2> QED BY <2>3, <2>7 DEF Held
<1> QED BY <1>3, <1>4, <1>5 DEF Course

-----------------------------------------------------------------------------
\* What leaves a slice was there.
LEMMA LeavesSome ==
  ASSUME Course, NEW i \in Tuners, NEW s \in -1 .. 1
  PROVE  Leaves(i, s) \in 0 .. Len(Drained(i))
<1>1. Len(Drained(i)) \in Nat  BY DrainedType DEF Course
<1>2. Skipped(i, s) \in 0 .. Len(Drained(i))  BY <1>1 DEF Skipped, Least
<1>3. Chunk - Repeats(s) \in Nat  BY CombinedAssumption DEF Repeats
<1>4. Taken(i, s) \in 0 .. (Len(Drained(i)) - Skipped(i, s))
  BY <1>1, <1>2, <1>3 DEF Taken, Least
<1> QED BY <1>1, <1>2, <1>4 DEF Leaves

LEMMA ReadCourse == ASSUME Typed, Course, Read PROVE Course'
<1>0. \A i \in Tuners : Drained(i) \in Seq(Nat) /\ Len(Drained(i)) \in Nat
  BY DrainedType DEF Course
<1>1. CASE ReadStopped \/ ReadBegins
  BY <1>1, CourseAlone DEF ReadStopped, ReadBegins, slice, stitch
<1>2. CASE WaitOn
  <2> DEFINE n == [i \in Tuners |-> 0]
  <2>1. \A i \in Tuners : n[i] \in 0 .. Len(Drained(i))  BY <1>0
  <2>2. pending' = [i \in Tuners |-> SubSeq(Drained(i), n[i] + 1, Len(Drained(i)))]
    <3>1. \A i \in Tuners : SubSeq(Drained(i), n[i] + 1, Len(Drained(i))) = Drained(i)  BY <1>0
    <3> QED BY <1>2, <3>1 DEF WaitOn
  <2>3. gone' = [i \in Tuners |-> gone[i] + n[i]]
    BY <1>2 DEF WaitOn, Course, Flows
  <2>4. Drain  BY <1>2 DEF WaitOn
  <2> HIDE DEF n
  <2> QED BY <2>1, <2>2, <2>3, <2>4, LookCourse
<1>3. CASE IsOver
  <2> DEFINE n == [i \in Tuners |-> 0]
  <2>0. \A i \in Tuners : Drained(i) = <<>>  BY <1>3 DEF IsOver, Over
  <2>1. \A i \in Tuners : n[i] \in 0 .. Len(Drained(i))  BY <1>0
  <2>2. pending' = [i \in Tuners |-> SubSeq(Drained(i), n[i] + 1, Len(Drained(i)))]
    <3>1. \A i \in Tuners : SubSeq(Drained(i), n[i] + 1, Len(Drained(i))) = Drained(i)  BY <1>0
    <3> QED BY <1>3, <2>0, <3>1 DEF IsOver
  <2>3. gone' = [i \in Tuners |-> gone[i] + n[i]]
    BY <1>3 DEF IsOver, Course, Flows
  <2>4. Drain  BY <1>3 DEF IsOver
  <2> HIDE DEF n
  <2> QED BY <2>1, <2>2, <2>3, <2>4, LookCourse
<1>4. ASSUME NEW slip \in Corrections, Stitch(slip) PROVE Course'
  <2> DEFINE n == [i \in Tuners |-> Leaves(i, slip[i])]
  <2>1. \A i \in Tuners : slip[i] \in -1 .. 1  BY DEF Corrections
  <2>2. \A i \in Tuners : n[i] = Leaves(i, slip[i]) /\ n[i] \in 0 .. Len(Drained(i))
    BY <2>1, LeavesSome
  <2>3. pending' = [i \in Tuners |-> SubSeq(Drained(i), n[i] + 1, Len(Drained(i)))]
    BY <1>4 DEF Stitch
  <2>4. gone' = [i \in Tuners |-> gone[i] + n[i]]
    BY <1>4 DEF Stitch
  <2>5. Drain  BY <1>4 DEF Stitch
  <2> HIDE DEF n
  <2> QED BY <2>2, <2>3, <2>4, <2>5, LookCourse
<1> QED BY <1>1, <1>2, <1>3, <1>4 DEF Read, Look

LEMMA InitCourse == Init => Course
<1> SUFFICES ASSUME Init PROVE Course OBVIOUS
<1>1. Flows /\ Finished  BY NothingHeld DEF Init, Flows, Finished
<1>2. ASSUME NEW i \in Tuners PROVE Held(i)
  <2>1. Drained(i) = <<>>  BY DEF Init, Drained
  <2>2. made[i] = 0 /\ gone[i] = 0 /\ refused[i] = 0  BY DEF Init
  <2> QED BY <2>1, <2>2, NothingHeld DEF Held
<1> QED BY <1>1, <1>2 DEF Course

LEMMA NextCourse == Typed /\ Course /\ [Next]_vars => Course'
<1> SUFFICES ASSUME Typed, Course, [Next]_vars PROVE Course' OBVIOUS
<1>1. CASE Dial
  BY <1>1, CourseAlone DEF Dial, SetCenter, RateTooLow, RateRefused, RateTaken, slice, stitch
<1>2. ASSUME NEW k \in 0 .. N, Start(k) PROVE Course'
  <2>1. Fresh /\ DOMAIN thread' = Tuners  BY <1>2 DEF Start
  <2> QED BY <2>1, FreshCourse
<1>3. CASE Stop  BY <1>3, CourseAlone DEF Stop, stitch
<1>4. CASE DropStream  BY <1>4, FreshCourse DEF DropStream, Course, Finished
<1>5. ASSUME NEW i \in Tuners, Thread(i) PROVE Course'
  <2>1. CASE Loop(i) \/ ReadFails(i)
    <3>1. /\ DOMAIN thread' = DOMAIN thread
          /\ \A j \in Tuners : thread[j] = "none" => thread'[j] = "none"
      BY <2>1 DEF Loop, ReadFails, Course, Finished
    <3> QED BY <2>1, <3>1, CourseAlone DEF Loop, ReadFails, stitch
  <2>2. CASE ReadBlock(i)  BY <2>2, ReadBlockCourse
  <2> QED BY <1>5, <2>1, <2>2 DEF Thread
<1>6. ASSUME NEW on \in SUBSET Tuners, NEW lossy \in SUBSET Tuners, Deliver(on, lossy) PROVE Course'
  BY <1>6, CourseAlone DEF Deliver, slice, stitch
<1>7. CASE Read  BY <1>7, ReadCourse
<1>8. CASE UNCHANGED vars  BY <1>8, CourseAlone DEF vars, slice, stitch
<1> QED BY <1>1, <1>2, <1>3, <1>4, <1>5, <1>6, <1>7, <1>8 DEF Next

-----------------------------------------------------------------------------
\* The invariant of the counters, the dial and the samples on their way.
THEOREM CombinedInvariant == Spec => [](Inv /\ Course)
<1>1. Init => Inv /\ Course  BY InitInv, InitCourse
<1>2. Inv /\ Course /\ [Next]_vars => Inv' /\ Course'  BY NextInv, NextCourse DEF Inv
<1> QED BY <1>1, <1>2, PTL DEF Spec

\* Samples lost are never overstated and never less than what a queue refused
\* (CombinedRx::dropped), for any tuners and any interleaving.
THEOREM LossesAreTold == Spec => []LossNeverOverstated
<1>1. Inv => LossNeverOverstated BY DEF Inv, Losses, LossNeverOverstated
<1> QED BY <1>1, CombinedInvariant, PTL

\* After every control call that succeeded the slices lie side by side
\* (Combined::set_center, set_rate), whatever was refused before.
THEOREM SlicesAreTiled == Spec => []SlicesTile
<1>1. Inv => SlicesTile BY DEF Inv
<1> QED BY <1>1, CombinedInvariant, PTL

\* A slice's samples keep their order through queue and backlog, and each is
\* given, skipped, held or counted (Slice::drain, the slice's thread, read).
THEOREM SamplesAreCounted == Spec => []InOrderAndCounted
<1>1. Course => InOrderAndCounted
  <2> SUFFICES ASSUME Course, NEW i \in Tuners
               PROVE  LET held == Drained(i) IN
                      /\ \A j \in DOMAIN held, k \in DOMAIN held : j < k => held[j] < held[k]
                      /\ made[i] = gone[i] + refused[i] + Len(held)
      BY DEF InOrderAndCounted
  <2>1. DOMAIN Drained(i) = 1 .. Len(Drained(i))  BY DrainedType DEF Course
  <2> QED BY <2>1 DEF Course, Held, Rising
<1> QED BY <1>1, CombinedInvariant, PTL

\* A read gives silence for a slice that is there only when it is late, and the
\* end of the stream only when there is nothing left of it (CombinedRx::read).
THEOREM AnswersAreTrue == Spec => AnswersAreHonest
<1> DEFINE Honest ==
      reader = "waiting" /\ reader' = "idle" =>
        /\ answer' = "block" => \A i \in Tuners : padded'[i] > 1 => Late
        /\ answer' = "over" => \A i \in Tuners :
               thread[i] = "none" /\ made[i] = gone[i] + refused[i]
<1>1. ASSUME Typed, Course, [Next]_vars, reader = "waiting", reader' = "idle" PROVE Honest
  <2>1. Look
    BY <1>1 DEF Next, Dial, SetCenter, RateTooLow, RateRefused, RateTaken, Start, Stop, DropStream,
                Thread, Loop, ReadBlock, ReadFails, Deliver, Read, ReadStopped, ReadBegins,
                vars, stream
  <2>2. CASE WaitOn  BY <1>1, <2>2 DEF WaitOn
  <2>3. CASE IsOver
    <3>1. answer' = "over" /\ Over  BY <2>3 DEF IsOver
    <3>2. ASSUME NEW i \in Tuners PROVE thread[i] = "none" /\ made[i] = gone[i] + refused[i]
      <4>1. Closed(i) /\ Drained(i) = <<>>  BY <3>1 DEF Over
      <4>2. thread[i] = "none"  BY <1>1, <4>1 DEF Closed, Course, Finished
      <4>3. made[i] = gone[i] + refused[i] + Len(Drained(i))  BY <1>1 DEF Course, Held
      <4>4. gone[i] \in Nat /\ refused[i] \in Nat  BY <1>1 DEF Course, Flows, Typed
      <4>5. made[i] = gone[i] + refused[i]  BY <4>1, <4>3, <4>4
      <4> QED BY <4>2, <4>5
    <3> QED BY <3>1, <3>2
  <2>4. ASSUME NEW slip \in Corrections, Stitch(slip) PROVE Honest
    <3>1. answer' = "block" /\ (Ready \/ Late)  BY <2>4 DEF Stitch
    <3>2. padded' = [i \in Tuners |-> Padding(i, slip[i])]  BY <2>4 DEF Stitch
    <3>3. ASSUME Ready, NEW i \in Tuners PROVE ~(padded'[i] > 1)
      <4>1. slip[i] \in {-1, 0, 1}  BY DEF Corrections
      <4>2. Len(Drained(i)) \in Nat /\ Chunk \in Nat \ {0} /\ Len(Drained(i)) >= Chunk
        BY <1>1, <3>3, DrainedType, CombinedAssumption DEF Course, Ready
      <4>3. /\ Repeats(slip[i]) \in {0, 1} /\ Skipped(i, slip[i]) \in {0, 1}
            /\ Repeats(slip[i]) = 1 => Skipped(i, slip[i]) = 0
        <5>1. CASE slip[i] = 1  BY <4>2, <5>1 DEF Repeats, Skipped, Least
        <5>2. CASE slip[i] # 1  BY <4>1, <4>2, <5>2 DEF Repeats, Skipped, Least
        <5> QED BY <5>1, <5>2
      <4>4. Taken(i, slip[i]) \in {Chunk - 1, Chunk}
        BY <4>2, <4>3 DEF Taken, Least
      <4>5. ~(Padding(i, slip[i]) > 1)
        BY <4>2, <4>3, <4>4 DEF Padding
      <4> QED BY <3>2, <4>5
    <3> QED BY <3>1, <3>3
  <2> QED BY <2>1, <2>2, <2>3, <2>4 DEF Look
<1>2. Inv /\ Course /\ [Next]_vars => [Honest]_vars  BY <1>1 DEF Inv
<1> QED BY <1>2, CombinedInvariant, PTL DEF Spec, AnswersAreHonest
=============================================================================
