----------------------------- MODULE OverProofs -----------------------------
(***************************************************************************)
(* Proofs about the HackRF driver around an over, then about an over from  *)
(* the key to the driver, and last about where its stages leave the dial,  *)
(* for any number of overs, frequencies and queued jobs and for every      *)
(* board, caller and operator of the Worlds.                               *)
(***************************************************************************)
EXTENDS Over, TLAPS

InSlot(t) == hb[t].pc = "slot"

(* A reader about to go into its slot already has the claim, and it is the *)
(* only one.  Only the transmit thread hands back here.                    *)
Slots ==
  /\ ~Handing("rf")
  /\ \A t \in Threads : InSlot(t) => claim = Reader /\ ~Runs

(* What start_tx has made so far.  The claim is the new over's from the    *)
(* open to the writer, and nobody can let go of the stream before it has   *)
(* been returned.                                                          *)
Opening ==
  /\ rf = "open" => made < MaxOvers
  /\ rf = "writer" => made \in Overs /\ claim = made /\ st[made] = "unmade"
  /\ rf \in {"tune", "keyed"} => made \in Overs /\ st[made] \in {"live", "dead"}
  /\ \A n \in Overs : n > made => st[n] = "unmade"

(* An over has the claim while it runs or is being let go of, or has just  *)
(* been opened; one that is drained is the one being let go of.            *)
Claimed ==
  /\ \A n \in Overs : claim = n => st[n] \in {"live", "ending"} \/ (rf = "writer" /\ n = made)
  /\ \A t \in Threads : hb[t].pc = "drain" => st[hb[t].over] = "ending"

(* On a sound board start_tx is refused its tuning only when another over  *)
(* took the control handle, and that one ends the silence as it goes.      *)
Steered ==
  ~Flaky /\ rf = "tune" =>
    /\ st[made] = "live"
    /\ tx = made \/ (tx = Nobody /\ (silent => Handing("tx")))

(* A reader that runs is silent only while a hand back is under way, and   *)
(* the watchdog revives none that is silent.                               *)
Heard ==
  /\ silent /\ Runs => Handing("tx")
  /\ rf = "revive" => ~silent

(* The course of an over on a sound board whose caller waits, as the six   *)
(* states the driver is then in: there is a reader to take, so it is       *)
(* always taken, silenced and given back, and start_tx is never refused.   *)
Sound == ~Flaky /\ ~Eager

OverDone == \A n \in Overs : st[n] \in {"unmade", "gone"}
Alone(s) ==
  /\ made \in Overs /\ st[made] = s
  /\ \A n \in Overs \ {made} : st[n] \in {"unmade", "gone"}
Away == rx = "none" /\ silent

Receiving == rf = "idle" /\ OverDone /\ ~Handing("tx") /\ rx = "live" /\ ~silent
Taken     == rf = "open" /\ OverDone /\ ~Handing("tx") /\ Away /\ was /\ claim = Nobody
Opened    == rf = "writer" /\ OverDone /\ ~Handing("tx") /\ Away /\ was
Running   == rf = "tune" /\ Alone("live") /\ ~Handing("tx") /\ Away /\ was
Talking   == rf \in {"keyed", "idle"} /\ Alone("live") /\ ~Handing("tx") /\ Away /\ restore[made]
Returning ==
  /\ rf = "idle" /\ silent
  /\ made \in Overs /\ hb["tx"].over = made /\ restore[made]
  /\ \/ hb["tx"].pc = "drain" /\ Alone("ending") /\ rx = "none" /\ claim = made
     \/ hb["tx"].pc \in {"sleep", "open"} /\ OverDone /\ rx = "none" /\ claim = Nobody
     \/ hb["tx"].pc = "slot" /\ OverDone
     \/ hb["tx"].pc = "unsilence" /\ OverDone /\ rx = "live"

Undisturbed ==
  Sound => Receiving \/ Taken \/ Opened \/ Running \/ Talking \/ Returning

(* A caller who waits has one over at a time, whatever the board does to   *)
(* it; while it is handed back nothing steers the board.                   *)
OneAtATime ==
  ~Eager =>
    /\ \A n \in Overs \ {made} : st[n] \in {"unmade", "gone"}
    /\ rf \in {"open", "writer", "refused"} => OverDone
    /\ Handing("tx") => /\ tx = Nobody /\ hb["tx"].over = made
                       /\ rf \in {"idle", "revive", "lost"}
    /\ Handing("tx") /\ hb["tx"].pc # "drain" => OverDone

(* From where start_tx finds a reader to where the hand back has one again *)
(* there is none, and the watchdog is told that this is silence.           *)
NoReader == silent /\ ~Runs
ReaderAway ==
  ~Eager =>
    /\ rf \in {"open", "writer", "tune"} /\ was => NoReader
    /\ made \in Overs /\ restore[made] /\ st[made] \in {"live", "dead", "ending"}
         => rf = "tune" \/ NoReader
    /\ hb["tx"].pc \in {"sleep", "open"} => NoReader

(* So the settings hand_back has copied are still the wanted ones when it  *)
(* applies them.                                                           *)
OnFrequency ==
  ~Eager =>
    /\ want = center
    /\ hb["tx"].pc = "open" => hb["tx"].want = want
    /\ hb["tx"].pc = "slot" => tuned = want
    /\ Runs => tuned = want

Claims == DriverTypeOK /\ Slots /\ Opening /\ Claimed /\ ClaimsAgree

Frequency == OneAtATime /\ ReaderAway /\ OnFrequency

IInv == Claims /\ Heard /\ Steered /\ SilentOnlyForAnOver /\ Undisturbed /\ Frequency

(* Nobody, Reader and the overs are different things. *)
LEMMA Names ==
  /\ Nobody \notin Overs /\ Reader \notin Overs /\ Reader # Nobody
  /\ MaxOvers \in Nat \ {0} /\ \A n \in Overs : n \in Nat
  BY DuplexAssumption DEF Overs, Nobody, Reader

Places == {"idle", "drain", "sleep", "open", "slot", "unsilence"}
Backs == [Threads -> [pc : Places, over : Overs, want : Freqs]]

(* A sound board that is opened again hears, and one more attempt is a     *)
(* count of attempts.                                                      *)
LEMMA Reopens ==
  /\ Reopened \subseteq {"live", "flat", "mute"}
  /\ ~Flaky => Reopened = {"live"}
  BY DEF Reopened

LEMMA AttemptsCounted ==
  ASSUME attempts \in 0..(REOPENS_BEFORE_RESET + 1), OneMoreAttempt
  PROVE  attempts' \in 0..(REOPENS_BEFORE_RESET + 1)
  BY DEF OneMoreAttempt, REOPENS_BEFORE_RESET

(* What a read or the watchdog does when there is nothing to hear.         *)
LEMMA ReadingSteps ==
  ASSUME Reading, attempts \in 0..(REOPENS_BEFORE_RESET + 1)
  PROVE  /\ attempts' \in 0..(REOPENS_BEFORE_RESET + 1)
         /\ \/ /\ rf = "idle" /\ (silent \/ rx = "live")
               /\ UNCHANGED <<rx, rf, claim, tuned>>
            \/ /\ rf = "idle" /\ ~silent /\ rx \in {"none", "mute", "dead"}
               /\ rf' = "lost" /\ UNCHANGED <<rx, claim, tuned>>
            \/ /\ rf = "idle" /\ ~silent /\ rx # "live"
               /\ rf' = "revive" /\ rx' = "none" /\ tuned' = tuned
               /\ claim' = IF Runs /\ claim = Reader THEN Nobody ELSE claim
            \/ /\ rf = "revive" /\ rf' = "idle"
               /\ \/ /\ claim = Nobody /\ claim' = Reader
                     /\ rx' \in Reopened /\ tuned' = want
                  \/ (claim # Nobody \/ Flaky) /\ UNCHANGED <<claim, rx, tuned>>
         /\ UNCHANGED <<tx, silent, want, center, made, st, restore, was, hb>>
<1>0. 0 \in 0..(REOPENS_BEFORE_RESET + 1)
  BY DEF REOPENS_BEFORE_RESET
<1>1. CASE ReadBlock
  BY <1>0, <1>1 DEF ReadBlock, shared
<1>2. CASE ReadFlat
  BY <1>2, AttemptsCounted DEF ReadFlat, Release, Runs
<1>3. CASE ReadNothing
  BY <1>3, AttemptsCounted DEF ReadNothing, Release, Runs
<1>4. CASE Revive
  BY <1>4 DEF Revive
<1>5. QED
  BY <1>1, <1>2, <1>3, <1>4 DEF Reading

(* A hand back that goes on moves its own place and nothing else. *)
LEMMA HbGoesOn ==
  ASSUME hb \in Backs, NEW t \in Threads, NEW pc \in Places, HbGoes(t, pc)
  PROVE  /\ hb' \in Backs
         /\ hb'[t].pc = pc /\ hb'[t].over = hb[t].over
         /\ \A u \in Threads \ {t} : hb'[u] = hb[u]
  BY DEF HbGoes, Backs

(* A radio just opened. *)
LEMMA InitIInv == DriverInit => IInv
<1> SUFFICES ASSUME DriverInit PROVE IInv
  OBVIOUS
<1> USE Names, DuplexAssumption DEF DriverInit
<1>1. DriverTypeOK
  <2>1. 1 \in Overs
    BY DEF Overs
  <2>2. hb \in [Threads -> [pc : {"idle", "drain", "sleep", "open", "slot", "unsilence"},
                            over : Overs, want : Freqs]]
    BY <2>1
  <2>3. /\ st \in [Overs -> {"unmade", "live", "dead", "ending", "gone"}]
        /\ restore \in [Overs -> BOOLEAN]
        /\ attempts \in 0..(REOPENS_BEFORE_RESET + 1) /\ made \in 0..MaxOvers
    BY DEF REOPENS_BEFORE_RESET
  <2>4. QED
    BY <2>2, <2>3 DEF DriverTypeOK
<1>2. Slots /\ Opening /\ Claimed /\ ClaimsAgree
  BY DEF Slots, Opening, Claimed, ClaimsAgree, InSlot, Handing, Threads, Runs
<1>3. Heard /\ Steered /\ SilentOnlyForAnOver
  BY DEF Heard, Steered, SilentOnlyForAnOver, SilentForAnOver
<1>4. Undisturbed
  BY DEF Undisturbed, Receiving, OverDone, Handing, Threads
<1>5. Frequency
  BY DEF Frequency, OneAtATime, ReaderAway, OnFrequency, OverDone, Handing, Threads
<1>6. QED
  BY <1>1, <1>2, <1>3, <1>4, <1>5 DEF IInv, Claims

(* A step of the driver, whoever calls it. *)
DriverStep ==
  \/ StartTx \/ OpenTx \/ IntoWriter \/ TuneTx \/ Returned
  \/ \E t \in Threads, n \in Overs : HandBack(t, n)
  \/ \E t \in Threads : HandingBack(t)
  \/ Reading
  \/ \E f \in Freqs : SetCenter(f)
  \/ ReaderDies \/ \E n \in Overs : WriterDies(n)

Counted ==
  /\ rf = "open" => made < MaxOvers
  /\ rf \in {"writer", "tune"} => made \in Overs

(* Each step of start_tx, of a hand back, of a read and of the board keeps *)
(* the types and the claims.                                               *)
LEMMA StepTypes ==
  ASSUME DriverTypeOK, Counted, DriverStep, world' = world
  PROVE  DriverTypeOK'
<1> USE Names, DuplexAssumption
    DEF DriverTypeOK, Counted, shared, Threads, Nobody, REOPENS_BEFORE_RESET
<1>0. Reader \in Overs \cup {Nobody, Reader}
  OBVIOUS
<1>1. CASE StartTx
  BY <1>1 DEF StartTx, TakeReader, Release
<1>2. CASE OpenTx
  <2>1. made + 1 \in 0..MaxOvers /\ (rf = "open" => made + 1 \in Overs)
    BY <1>2 DEF OpenTx, Overs
  <2>2. QED
    BY <1>2, <2>1 DEF OpenTx
<1>3. CASE IntoWriter
  BY <1>3 DEF IntoWriter
<1>4. CASE TuneTx
  BY <1>4 DEF TuneTx, Release
<1>5. CASE Returned
  BY <1>5 DEF Returned
<1>6. ASSUME NEW t \in Threads, NEW n \in Overs, HandBack(t, n) PROVE DriverTypeOK'
  BY <1>6 DEF HandBack
<1>7. ASSUME NEW t \in Threads, HandingBack(t) PROVE DriverTypeOK'
  <2>1. hb \in Backs
    BY DEF Backs, Places
  <2>2. ASSUME NEW pc \in Places, HbGoes(t, pc) PROVE hb' \in Backs
    BY <2>1, <2>2, HbGoesOn
  <2>3. CASE HbClose(t)
    <3>1. hb' \in Backs
      BY <2>2, <2>3 DEF HbClose, Places
    <3>2. hb[t].over \in Overs
      OBVIOUS
    <3>3. QED
      BY <2>3, <3>1, <3>2 DEF HbClose, Release, Backs, Places
  <2>4. CASE HbWant(t)
    BY <2>4 DEF HbWant
  <2>5. CASE HbReopen(t)
    <3>1. hb' \in Backs
      BY <2>2, <2>5 DEF HbReopen, Places
    <3>2. hb[t].want \in Freqs
      OBVIOUS
    <3>3. QED
      BY <2>5, <3>1, <3>2 DEF HbReopen, Backs, Places
  <2>6. CASE HbSlot(t)
    <3>1. hb' \in Backs
      BY <2>2, <2>6 DEF HbSlot, Places
    <3>2. QED
      BY <2>6, <3>1, Reopens DEF HbSlot, Backs, Places
  <2>7. CASE HbUnsilence(t)
    <3>1. hb' \in Backs
      BY <2>2, <2>7 DEF HbUnsilence, Places
    <3>2. QED
      BY <2>7, <3>1 DEF HbUnsilence, Backs, Places
  <2>8. QED
    BY <1>7, <2>3, <2>4, <2>5, <2>6, <2>7 DEF HandingBack
<1>8. CASE Reading
  <2> HIDE DEF REOPENS_BEFORE_RESET
  <2>1. attempts \in 0..(REOPENS_BEFORE_RESET + 1)
    BY DEF REOPENS_BEFORE_RESET
  <2>2. QED
    BY <1>0, <1>8, <2>1, ReadingSteps, Reopens
<1>9. ASSUME NEW f \in Freqs, SetCenter(f) PROVE DriverTypeOK'
  BY <1>9 DEF SetCenter, TuneTo
<1>10. CASE ReaderDies
  BY <1>10 DEF ReaderDies, Release
<1>11. ASSUME NEW n \in Overs, WriterDies(n) PROVE DriverTypeOK'
  BY <1>11 DEF WriterDies, Release
<1> HIDE DEF DriverTypeOK, Counted, Threads
<1>12. QED
  BY <1>1, <1>2, <1>3, <1>4, <1>5, <1>6, <1>7, <1>8, <1>9, <1>10, <1>11 DEF DriverStep

(* Every step of the driver keeps the types. *)
LEMMA NextTypes ==
  ASSUME IInv, DriverNext, world' = world
  PROVE  DriverTypeOK'
<1>1. DriverStep
  BY DEF DriverNext, DriverStep, StartingTx, CallStartTx, Threads
<1>2. DriverTypeOK /\ Counted
  BY DEF IInv, Claims, Opening, Counted
<1>3. QED
  BY <1>1, <1>2, StepTypes

(* The same for who holds what. *)
Holding == Slots /\ Opening /\ Claimed /\ ClaimsAgree

(* Every step keeps the claims in one pair of hands. *)
LEMMA NextClaims ==
  ASSUME IInv, DriverNext, world' = world
  PROVE  Holding'
<1>a. \/ CallStartTx \/ OpenTx \/ IntoWriter \/ TuneTx \/ Returned
      \/ \E n \in Overs : HandBack("tx", n) /\ Held(n)
      \/ \E t \in Threads : HandingBack(t)
      \/ Reading
      \/ \E f \in Freqs : SetCenter(f)
      \/ ReaderDies \/ \E n \in Overs : WriterDies(n)
  BY DEF DriverNext, StartingTx
<1>0. DriverTypeOK /\ hb \in Backs
  BY DEF IInv, Claims, DriverTypeOK, Backs, Places
<1> USE <1>0, Names
    DEF IInv, Claims, Holding, Slots, InSlot, Handing, Opening, Claimed, ClaimsAgree, Runs, shared, Threads
<1>r. attempts \in 0..(REOPENS_BEFORE_RESET + 1)
  BY DEF DriverTypeOK
<1>1. CASE CallStartTx
  BY <1>1 DEF CallStartTx, StartTx, TakeReader, Release
<1>2. CASE OpenTx
  BY <1>2 DEF OpenTx, Overs, DriverTypeOK
<1>3. CASE IntoWriter
  BY <1>3 DEF IntoWriter, DriverTypeOK
<1>4. CASE TuneTx
  BY <1>4 DEF TuneTx, Release, DriverTypeOK
<1>5. CASE Returned
  BY <1>5 DEF Returned
<1>6. ASSUME NEW n \in Overs, HandBack("tx", n), Held(n) PROVE Holding'
  BY <1>6 DEF HandBack, Held, DriverTypeOK, Backs
<1>8. CASE Reading
  <2>1. /\ UNCHANGED <<tx, silent, made, st, restore, hb>>
        /\ rf' \in {"idle", "lost", "revive"} \/ rf' = rf
    BY <1>8, <1>r, ReadingSteps
  <2>2. \/ UNCHANGED <<rx, claim>>
        \/ ~Runs /\ rx' = "none" /\ claim' = claim
        \/ Runs /\ rx' = "none" /\ claim = Reader /\ claim' = Nobody
        \/ claim = Nobody /\ claim' = Reader /\ rx' \in {"live", "flat", "mute"}
    BY <1>8, <1>r, ReadingSteps, Reopens
  <2>3. rf = "writer" => rf' = rf /\ claim' = claim /\ rx' = rx
    BY <1>8, <1>r, ReadingSteps
  <2>4. QED
    BY <2>1, <2>2, <2>3
<1>9. ASSUME NEW f \in Freqs, SetCenter(f) PROVE Holding'
  BY <1>9 DEF SetCenter, TuneTo
<1>10. CASE ReaderDies
  BY <1>10 DEF ReaderDies, Release
<1>11. ASSUME NEW n \in Overs, WriterDies(n) PROVE Holding'
  BY <1>11 DEF WriterDies, Release, DriverTypeOK
<1>7. ASSUME NEW t \in Threads, HandingBack(t) PROVE Holding'
  <2>1. t = "tx" /\ hb[t].over \in Overs
    BY <1>7 DEF HandingBack, HbClose, HbWant, HbReopen, HbSlot, HbUnsilence, Backs
  <2>3. CASE HbClose(t)
    <3>1. /\ hb' \in Backs /\ hb'["rf"] = hb["rf"] /\ hb'[t].pc \in {"sleep", "unsilence"}
      BY <2>1, <2>3, HbGoesOn DEF HbClose, Places
    <3>2. QED
      BY <2>1, <2>3, <3>1 DEF HbClose, Release, DriverTypeOK
  <2>4. CASE HbWant(t)
    BY <2>1, <2>4 DEF HbWant, Backs
  <2>5. CASE HbReopen(t)
    <3>1. /\ hb' \in Backs /\ hb'["rf"] = hb["rf"]
          /\ \/ claim = Nobody /\ claim' = Reader /\ hb'[t].pc = "slot"
             \/ claim' = claim /\ hb'[t].pc = "unsilence"
      BY <2>1, <2>5, HbGoesOn DEF HbReopen, Places
    <3>2. QED
      BY <2>1, <2>5, <3>1 DEF HbReopen
  <2>6. CASE HbSlot(t)
    <3>1. /\ hb' \in Backs /\ hb'["rf"] = hb["rf"] /\ hb'[t].pc = "unsilence"
      BY <2>1, <2>6, HbGoesOn DEF HbSlot, Places
    <3>2. QED
      BY <2>1, <2>6, <3>1, Reopens DEF HbSlot
  <2>7. CASE HbUnsilence(t)
    <3>1. /\ hb' \in Backs /\ hb'["rf"] = hb["rf"] /\ hb'[t].pc = "idle"
      BY <2>1, <2>7, HbGoesOn DEF HbUnsilence, Places
    <3>2. QED
      BY <2>1, <2>7, <3>1 DEF HbUnsilence
  <2>8. QED
    BY <1>7, <2>3, <2>4, <2>5, <2>6, <2>7 DEF HandingBack
<1> HIDE DEF IInv, Claims, Holding, Slots, Opening, Claimed, ClaimsAgree, Threads
<1>12. QED
  BY <1>a, <1>1, <1>2, <1>3, <1>4, <1>5, <1>6, <1>7, <1>8, <1>9, <1>10, <1>11

(* The same for the silence. *)
Silences == Heard /\ Steered /\ SilentOnlyForAnOver

(* Every step leaves a silent queue with an over to end it. *)
LEMMA NextSilence ==
  ASSUME IInv, DriverNext, world' = world
  PROVE  Silences'
<1>a. \/ CallStartTx \/ OpenTx \/ IntoWriter \/ TuneTx \/ Returned
      \/ \E n \in Overs : HandBack("tx", n) /\ Held(n)
      \/ \E t \in Threads : HandingBack(t)
      \/ Reading
      \/ \E f \in Freqs : SetCenter(f)
      \/ ReaderDies \/ \E n \in Overs : WriterDies(n)
  BY DEF DriverNext, StartingTx
<1>b. Flaky' = Flaky
  BY DEF Flaky
<1>0. DriverTypeOK /\ hb \in Backs
  BY DEF IInv, Claims, DriverTypeOK, Backs, Places
<1> USE <1>0, <1>b, Names
    DEF IInv, Claims, Silences, Heard, Steered, SilentOnlyForAnOver, SilentForAnOver, OnAir, InStartTx,
        Slots, InSlot, Handing, Opening, Claimed, ClaimsAgree, Runs, shared, Threads
<1>r. attempts \in 0..(REOPENS_BEFORE_RESET + 1)
  BY DEF DriverTypeOK
<1>1. CASE CallStartTx
  BY <1>1 DEF CallStartTx, StartTx, TakeReader
<1>2. CASE OpenTx
  BY <1>2 DEF OpenTx, DriverTypeOK
<1>3. CASE IntoWriter
  BY <1>3 DEF IntoWriter, DriverTypeOK
<1>4. CASE TuneTx
  <2>1. made \in Overs /\ Heard'
    BY <1>4 DEF TuneTx
  <2>2. CASE Flaky
    BY <1>4, <2>1, <2>2
  <2>3. CASE ~Flaky /\ CtlWorks
    BY <1>4, <2>1, <2>3 DEF TuneTx
  <2>4. CASE ~Flaky /\ ~CtlWorks
    <3>1. tx = Nobody /\ (silent => Handing("tx"))
      BY <1>4, <2>1, <2>4 DEF TuneTx, CtlWorks
    <3>2. rf' = "refused" /\ silent' = silent /\ hb' = hb
      BY <1>4, <2>4 DEF TuneTx
    <3>3. QED
      BY <2>1, <3>1, <3>2
  <2>5. QED
    BY <2>2, <2>3, <2>4
<1>5. CASE Returned
  BY <1>5 DEF Returned
<1>6. ASSUME NEW n \in Overs, HandBack("tx", n), Held(n) PROVE Silences'
  BY <1>6 DEF HandBack, Held, DriverTypeOK, Backs
<1>8. CASE Reading
  BY <1>8, <1>r, ReadingSteps, Reopens
<1>9. ASSUME NEW f \in Freqs, SetCenter(f) PROVE Silences'
  BY <1>9 DEF SetCenter, TuneTo
<1>10. CASE ReaderDies
  BY <1>10 DEF ReaderDies
<1>11. ASSUME NEW n \in Overs, WriterDies(n) PROVE Silences'
  BY <1>11 DEF WriterDies
<1>7. ASSUME NEW t \in Threads, HandingBack(t) PROVE Silences'
  <2>1. t = "tx" /\ hb[t].over \in Overs
    BY <1>7 DEF HandingBack, HbClose, HbWant, HbReopen, HbSlot, HbUnsilence, Backs
  <2>3. CASE HbClose(t)
    <3>1. hb' \in Backs /\ hb'[t].pc \in {"sleep", "unsilence"}
      BY <2>1, <2>3, HbGoesOn DEF HbClose, Places
    <3>2. QED
      BY <1>7, <2>1, <2>3, <3>1 DEF HbClose, DriverTypeOK
  <2>4. CASE HbWant(t)
    BY <1>7, <2>1, <2>4 DEF HbWant, Backs
  <2>5. CASE HbReopen(t)
    <3>1. hb' \in Backs /\ hb'[t].pc \in {"slot", "unsilence"}
      BY <2>1, <2>5, HbGoesOn DEF HbReopen, Places
    <3>2. QED
      BY <1>7, <2>1, <2>5, <3>1 DEF HbReopen
  <2>6. CASE HbSlot(t)
    <3>1. hb' \in Backs /\ hb'[t].pc = "unsilence"
      BY <2>1, <2>6, HbGoesOn DEF HbSlot, Places
    <3>2. QED
      BY <1>7, <2>1, <2>6, <3>1, Reopens DEF HbSlot
  <2>7. CASE HbUnsilence(t)
    BY <1>7, <2>1, <2>7 DEF HbUnsilence
  <2>8. QED
    BY <1>7, <2>3, <2>4, <2>5, <2>6, <2>7 DEF HandingBack
<1> HIDE DEF IInv, Claims, Silences, Heard, Steered, SilentOnlyForAnOver, Threads
<1>12. QED
  BY <1>a, <1>1, <1>2, <1>3, <1>4, <1>5, <1>6, <1>7, <1>8, <1>9, <1>10, <1>11

(* The same for the course of an over: each action leads from the states   *)
(* it can happen in to the next.                                           *)
LEMMA NextUndisturbed ==
  ASSUME IInv, DriverNext, world' = world
  PROVE  Undisturbed'
<1>a. \/ CallStartTx \/ OpenTx \/ IntoWriter \/ TuneTx \/ Returned
      \/ \E n \in Overs : HandBack("tx", n) /\ Held(n)
      \/ \E t \in Threads : HandingBack(t)
      \/ Reading
      \/ \E f \in Freqs : SetCenter(f)
      \/ ReaderDies \/ \E n \in Overs : WriterDies(n)
  BY DEF DriverNext, StartingTx
<1>b. Flaky' = Flaky /\ Sound' = Sound
  BY DEF Sound, Flaky, Eager
<1>c. CASE ~Sound
  BY <1>b, <1>c DEF Undisturbed
<1>0. DriverTypeOK /\ hb \in Backs
  BY DEF IInv, Claims, DriverTypeOK, Backs, Places
<1>d. /\ Claimed /\ ClaimsAgree /\ Slots /\ Opening /\ Steered
      /\ Sound => Receiving \/ Taken \/ Opened \/ Running \/ Talking \/ Returning
  BY DEF IInv, Claims, Undisturbed
<1> USE <1>0, <1>b, <1>d, Names
    DEF Undisturbed, Receiving, Taken, Opened, Running, Talking, Returning, OverDone, Alone, Away,
        Runs, shared, Handing, Threads
<1>r. attempts \in 0..(REOPENS_BEFORE_RESET + 1)
  BY DEF DriverTypeOK
<1>1. CASE Sound /\ CallStartTx
  <2>1. Receiving /\ claim = Reader
    BY <1>1 DEF CallStartTx, StartTx, Sound, ClaimsAgree
  <2>2. Taken'
    BY <1>1, <2>1 DEF CallStartTx, StartTx, TakeReader, Release
  <2>3. QED
    BY <2>2
<1>2. CASE Sound /\ OpenTx
  <2>1. Taken
    BY <1>2 DEF OpenTx
  <2>2. Opened'
    BY <1>2, <2>1 DEF OpenTx, Sound
  <2>3. QED
    BY <2>2
<1>3. CASE Sound /\ IntoWriter
  <2>1. Opened /\ made \in Overs
    BY <1>3 DEF IntoWriter, Opening
  <2>2. Running'
    BY <1>3, <2>1 DEF IntoWriter, Sound, DriverTypeOK
  <2>3. QED
    BY <2>2
<1>4. CASE Sound /\ TuneTx
  <2>1. Running
    BY <1>4 DEF TuneTx
  <2>2. CtlWorks
    BY <1>4, <2>1 DEF CtlWorks, Steered, Sound
  <2>3. Talking'
    BY <1>4, <2>1, <2>2 DEF TuneTx, DriverTypeOK
  <2>4. QED
    BY <2>3
<1>5. CASE Sound /\ Returned
  <2>1. Talking
    BY <1>5 DEF Returned
  <2>2. Talking'
    BY <1>5, <2>1 DEF Returned
  <2>3. QED
    BY <2>2
<1>6. ASSUME NEW n \in Overs, HandBack("tx", n), Held(n), Sound PROVE Undisturbed'
  <2>1. Talking /\ n = made /\ rf = "idle"
    BY <1>6 DEF HandBack, Held
  <2>2. claim = made
    BY <2>1 DEF ClaimsAgree
  <2>3. Returning'
    BY <1>6, <2>1, <2>2 DEF HandBack, DriverTypeOK, Backs
  <2>4. QED
    BY <2>3
<1>8. CASE Sound /\ Reading
  BY <1>8, <1>r, ReadingSteps, Reopens DEF Sound
<1>9. ASSUME NEW f \in Freqs, SetCenter(f), Sound PROVE Undisturbed'
  BY <1>9 DEF SetCenter, TuneTo
<1>10. CASE Sound /\ ReaderDies
  BY <1>10 DEF ReaderDies, Sound
<1>11. ASSUME NEW n \in Overs, WriterDies(n), Sound PROVE Undisturbed'
  BY <1>11 DEF WriterDies, Sound
<1>7. ASSUME NEW t \in Threads, HandingBack(t), Sound PROVE Undisturbed'
  <2>1. t = "tx"
    BY <1>7 DEF HandingBack, HbClose, HbWant, HbReopen, HbSlot, HbUnsilence, Slots
  <2>2. Returning
    BY <1>7, <2>1 DEF HandingBack, HbClose, HbWant, HbReopen, HbSlot, HbUnsilence
  <2>3. CASE HbClose(t)
    <3>1. hb' \in Backs /\ hb'["tx"].pc = "sleep" /\ hb'["tx"].over = made
      BY <2>1, <2>2, <2>3, HbGoesOn DEF HbClose, Places
    <3>2. OverDone' /\ claim' = Nobody
      BY <2>1, <2>2, <2>3 DEF HbClose, Release, DriverTypeOK
    <3>3. Returning'
      BY <2>1, <2>2, <2>3, <3>1, <3>2 DEF HbClose
    <3>4. QED
      BY <3>3
  <2>4. CASE HbWant(t)
    <3>1. Returning'
      BY <2>1, <2>2, <2>4 DEF HbWant, Backs
    <3>2. QED
      BY <3>1
  <2>5. CASE HbReopen(t)
    <3>1. claim = Nobody
      BY <2>1, <2>2, <2>5 DEF HbReopen
    <3>2. hb' \in Backs /\ hb'["tx"].pc = "slot" /\ hb'["tx"].over = made
      BY <1>7, <2>1, <2>2, <2>5, <3>1, HbGoesOn DEF HbReopen, Places, Sound
    <3>3. Returning'
      BY <2>1, <2>2, <2>5, <3>2 DEF HbReopen
    <3>4. QED
      BY <3>3
  <2>6. CASE HbSlot(t)
    <3>1. hb' \in Backs /\ hb'["tx"].pc = "unsilence" /\ hb'["tx"].over = made
      BY <2>1, <2>2, <2>6, HbGoesOn DEF HbSlot, Places
    <3>2. Returning'
      BY <1>7, <2>1, <2>2, <2>6, <3>1, Reopens DEF HbSlot, Sound
    <3>3. QED
      BY <3>2
  <2>7. CASE HbUnsilence(t)
    <3>1. hb' \in Backs /\ hb'["tx"].pc = "idle"
      BY <2>1, <2>2, <2>7, HbGoesOn DEF HbUnsilence, Places
    <3>2. Receiving'
      BY <2>1, <2>2, <2>7, <3>1 DEF HbUnsilence
    <3>3. QED
      BY <3>2
  <2>8. QED
    BY <1>7, <2>3, <2>4, <2>5, <2>6, <2>7 DEF HandingBack
<1> HIDE DEF Undisturbed, Threads
<1>12. QED
  BY <1>a, <1>c, <1>1, <1>2, <1>3, <1>4, <1>5, <1>6, <1>7, <1>8, <1>9, <1>10, <1>11

(* The same for the frequency.                                             *)
LEMMA NextFrequency ==
  ASSUME IInv, DriverNext, world' = world
  PROVE  Frequency'
<1>a. \/ CallStartTx \/ OpenTx \/ IntoWriter \/ TuneTx \/ Returned
      \/ \E n \in Overs : HandBack("tx", n) /\ Held(n)
      \/ \E t \in Threads : HandingBack(t)
      \/ Reading
      \/ \E f \in Freqs : SetCenter(f)
      \/ ReaderDies \/ \E n \in Overs : WriterDies(n)
  BY DEF DriverNext, StartingTx
<1>b. Eager' = Eager
  BY DEF Eager
<1>c. CASE Eager
  BY <1>b, <1>c DEF Frequency, OneAtATime, ReaderAway, OnFrequency
<1>0. DriverTypeOK /\ hb \in Backs
  BY DEF IInv, Claims, DriverTypeOK, Backs, Places
<1>d. /\ Claimed /\ ClaimsAgree /\ Slots /\ Opening /\ Heard
      /\ OneAtATime /\ ReaderAway /\ OnFrequency
  BY DEF IInv, Claims, Frequency
<1> USE <1>0, <1>b, <1>d, Names
    DEF Frequency, OneAtATime, ReaderAway, OnFrequency, NoReader, OverDone, Runs, shared, Handing, Threads
<1>r. attempts \in 0..(REOPENS_BEFORE_RESET + 1)
  BY DEF DriverTypeOK
<1>1. CASE ~Eager /\ CallStartTx
  <2>1. OverDone /\ ~Handing("tx") /\ rx' = "none" /\ rf' = "open"
    <3>1. \A n \in Overs : st[n] \in {"unmade", "gone"} /\ ~Handing("tx")
      BY <1>1 DEF CallStartTx
    <3>2. 1 \in Overs
      BY DEF Overs
    <3>3. rx' = "none" /\ rf' = "open"
      BY <1>1 DEF CallStartTx, StartTx, TakeReader
    <3>4. QED
      BY <3>1, <3>2, <3>3
  <2>2. was' => silent'
    BY <1>1 DEF CallStartTx, StartTx, TakeReader
  <2>3. /\ UNCHANGED <<tx, want, center, made, st, restore, hb>>
        /\ hb["tx"].pc = "idle"
    BY <1>1, <2>1 DEF CallStartTx, StartTx
  <2>4. QED
    BY <1>1, <2>1, <2>2, <2>3
<1>2. CASE ~Eager /\ OpenTx
  BY <1>2 DEF OpenTx, DriverTypeOK, Opening, ClaimsAgree
<1>3. CASE ~Eager /\ IntoWriter
  BY <1>3 DEF IntoWriter, DriverTypeOK, Opening
<1>4. CASE ~Eager /\ TuneTx
  BY <1>4 DEF TuneTx, DriverTypeOK, Opening
<1>5. CASE ~Eager /\ Returned
  BY <1>5 DEF Returned
<1>6. ASSUME NEW n \in Overs, HandBack("tx", n), Held(n), ~Eager PROVE Frequency'
  <2>1. n = made /\ rf \in {"idle", "revive", "lost"}
    BY <1>6 DEF HandBack, Held, DriverTypeOK
  <2>2. /\ st' = [st EXCEPT ![made] = "ending"]
        /\ hb' \in Backs /\ hb'["tx"].pc = "drain" /\ hb'["tx"].over = made
    BY <1>6, <2>1 DEF HandBack, Backs, Places
  <2>3. QED
    BY <1>6, <2>1, <2>2 DEF HandBack, DriverTypeOK
<1>8. CASE ~Eager /\ Reading
  BY <1>8, <1>r, ReadingSteps, Reopens DEF Heard, Slots, InSlot
<1>9. ASSUME NEW f \in Freqs, SetCenter(f), ~Eager PROVE Frequency'
  <2>1. hb["tx"].pc \notin {"open", "slot"}
    BY <1>9 DEF SetCenter, TuneTo, CtlWorks, Slots, InSlot
  <2>2. QED
    BY <1>9, <2>1 DEF SetCenter, TuneTo
<1>10. CASE ~Eager /\ ReaderDies
  BY <1>10 DEF ReaderDies
<1>11. ASSUME NEW n \in Overs, WriterDies(n), ~Eager PROVE Frequency'
  <2>1. n = made
    BY <1>11 DEF WriterDies
  <2>2. QED
    BY <1>11, <2>1 DEF WriterDies, DriverTypeOK
<1>7. ASSUME NEW t \in Threads, HandingBack(t), ~Eager PROVE Frequency'
  <2>1. t = "tx" /\ Handing("tx") /\ made \in Overs
    BY <1>7 DEF HandingBack, HbClose, HbWant, HbReopen, HbSlot, HbUnsilence, Slots, Backs
  <2>3. CASE HbClose(t)
    <3>1. /\ hb' \in Backs /\ hb'["tx"].over = made
          /\ hb'["tx"].pc = IF restore[made] THEN "sleep" ELSE "unsilence"
      BY <1>7, <2>1, <2>3, HbGoesOn DEF HbClose, Places
    <3>2. OverDone'
      BY <1>7, <2>1, <2>3 DEF HbClose, DriverTypeOK
    <3>3. restore[made] => NoReader
      BY <1>7, <2>1, <2>3 DEF HbClose, Claimed
    <3>4. QED
      BY <1>7, <2>1, <2>3, <3>1, <3>2, <3>3 DEF HbClose
  <2>4. CASE HbWant(t)
    BY <1>7, <2>1, <2>4 DEF HbWant, Backs
  <2>5. CASE HbReopen(t)
    <3>1. /\ hb' \in Backs /\ hb'["tx"].over = made
          /\ \/ claim = Nobody /\ tuned' = hb["tx"].want /\ hb'["tx"].pc = "slot"
             \/ tuned' = tuned /\ hb'["tx"].pc = "unsilence"
      BY <1>7, <2>1, <2>5, HbGoesOn DEF HbReopen, Places
    <3>2. QED
      BY <1>7, <2>1, <2>5, <3>1 DEF HbReopen
  <2>6. CASE HbSlot(t)
    <3>1. hb' \in Backs /\ hb'["tx"].pc = "unsilence" /\ hb'["tx"].over = made
      BY <1>7, <2>1, <2>6, HbGoesOn DEF HbSlot, Places
    <3>2. QED
      BY <1>7, <2>1, <2>6, <3>1, Reopens DEF HbSlot
  <2>7. CASE HbUnsilence(t)
    <3>1. hb' \in Backs /\ hb'["tx"].pc = "idle"
      BY <2>1, <2>7, HbGoesOn DEF HbUnsilence, Places
    <3>2. QED
      BY <1>7, <2>1, <2>7, <3>1 DEF HbUnsilence
  <2>8. QED
    BY <1>7, <2>3, <2>4, <2>5, <2>6, <2>7 DEF HandingBack
<1> HIDE DEF Frequency, Threads
<1>12. QED
  BY <1>a, <1>c, <1>1, <1>2, <1>3, <1>4, <1>5, <1>6, <1>7, <1>8, <1>9, <1>10, <1>11

-----------------------------------------------------------------------------
(* Every step of the driver keeps the whole invariant. *)
LEMMA NextIInv ==
  IInv /\ [DriverNext /\ world' = world]_<<driver, world>> => IInv'
<1>1. ASSUME IInv, DriverNext, world' = world PROVE IInv'
  BY <1>1, NextTypes, NextClaims, NextSilence, NextUndisturbed, NextFrequency
     DEF IInv, Claims, Holding, Silences
<1>2. ASSUME IInv, UNCHANGED <<driver, world>> PROVE IInv'
  BY <1>2
     DEF IInv, Claims, DriverTypeOK, Slots, InSlot, Handing, Opening, Claimed, ClaimsAgree,
         Heard, Steered, SilentOnlyForAnOver, SilentForAnOver, OnAir, InStartTx, Flaky, driver,
         Undisturbed, Sound, Eager, Receiving, Taken, Opened, Running, Talking, Returning,
         OverDone, Alone, Away, Frequency, OneAtATime, ReaderAway, NoReader, OnFrequency, Runs
<1>3. QED
  BY <1>1, <1>2

(* The strengthened invariant holds in every reachable state. *)
THEOREM Inductive == DriverSpec => []IInv
  BY InitIInv, NextIInv, PTL DEF DriverSpec

(* Type correctness of the driver: what is kept of the board, of the       *)
(* stream taken from it and of the watchdog's attempts, whose number is    *)
(* told apart only up to the one that gives up.                            *)
THEOREM DriverTypes == DriverSpec => []DriverTypeOK
<1>1. IInv => DriverTypeOK
  BY DEF IInv, Claims
<1>2. QED
  BY <1>1, Inductive, PTL

(* Two streams of one board never both have it: a reader in the slot and a *)
(* running writer hold the claim they were opened with.  start_tx,         *)
(* hand_back and revive, on any board and with any caller.                 *)
THEOREM OneHolder == DriverSpec => []ClaimsAgree
<1>1. IInv => ClaimsAgree
  BY DEF IInv, Claims
<1>2. QED
  BY <1>1, Inductive, PTL

(* On a board that refuses nothing a reader is silent only for an over     *)
(* that is starting, on the air or being handed back.                      *)
THEOREM SilenceEnds == DriverSpec => []SilentOnlyForAnOver
<1>1. IInv => SilentOnlyForAnOver
  BY DEF IInv
<1>2. QED
  BY <1>1, Inductive, PTL

(* On a sound board whose caller waits for each over to come back, the     *)
(* watchdog never touches a radio that is on the air.                      *)
THEOREM AirIsLeftAlone == DriverSpec => []NeverRevivedOnAir
<1>1. IInv => NeverRevivedOnAir
  BY DEF IInv, Undisturbed, Sound, Receiving, Taken, Opened, Running, Talking, Returning,
         NeverRevivedOnAir
<1>2. QED
  BY <1>1, Inductive, PTL

(* And no read there reports the radio gone: read's error return.          *)
THEOREM RadioIsKept == DriverSpec => []RadioStays
<1>1. IInv => RadioStays
  BY DEF IInv, Undisturbed, Sound, Receiving, Taken, Opened, Running, Talking, Returning,
         RadioStays
<1>2. QED
  BY <1>1, Inductive, PTL

(* Silence and an over are the same thing, to the reader, the watchdog and *)
(* the radio thread.                                                       *)
THEOREM SilenceIsAnOver == DriverSpec => []SilenceMeansAnOver
<1>1. SilentOnlyForAnOver /\ NeverRevivedOnAir /\ RadioStays => SilenceMeansAnOver
  BY DEF SilenceMeansAnOver
<1>2. QED
  BY <1>1, SilenceEnds, AirIsLeftAlone, RadioIsKept, PTL

(* With a caller who waits, and whatever the board refuses, a running      *)
(* receiver is on the frequency the device believes it is on: the copy of  *)
(* the settings that hand_back and revive apply is never a stale one.      *)
THEOREM ReceiverIsOnFrequency == DriverSpec => []ReceiverOnFrequency
<1>1. IInv => ReceiverOnFrequency
  BY DEF IInv, Frequency, OnFrequency, ReceiverOnFrequency
<1>2. QED
  BY <1>1, Inductive, PTL

-----------------------------------------------------------------------------
Jobs == [what : {"chain", "key", "unkey", "drop"}, over : Streams]
HasKey(q, n) == \E i \in 1..Len(q) : q[i] = Job("key", n)

(* A queue of jobs carries each stream at most once. *)
KeysOnce(q) ==
  /\ \A i \in 1..Len(q) : q[i].what = "key" => q[i].over \in Overs
  /\ \A i, j \in 1..Len(q) : q[i].what = "key" /\ q[i] = q[j] => i = j

(* When the job at i is taken there is a chain: one was sent before it and *)
(* not dropped since, or there is one now and none of the jobs drops it.   *)
Undropped(q, i, j) == \A k \in i..j : q[k].what # "drop"
ChainAt(q, there, i) ==
  \/ there /\ Undropped(q, 1, i - 1)
  \/ \E j \in 1..(i - 1) : q[j].what = "chain" /\ Undropped(q, j + 1, i - 1)
ChainFirst(q, there) == \A i \in 1..Len(q) : q[i].what = "key" => ChainAt(q, there, i)
ChainAfter(q, there) == ChainAt(q, there, Len(q) + 1)

(* The jobs the threads send are jobs. *)
LEMMA JobTypes ==
  ASSUME NEW n \in Overs
  PROVE  Job("key", n) \in Jobs /\ Job("key", n).what = "key" /\ Job("key", n).over = n
  BY DEF Job, Jobs, Streams

(* A job sent behind a queue: the streams on their way. *)
LEMMA JobSent ==
  ASSUME NEW q \in Seq(Jobs), NEW j \in Jobs, KeysOnce(q),
         j.what = "key" => j.over \in Overs /\ ~HasKey(q, j.over)
  PROVE  /\ Append(q, j) \in Seq(Jobs)
         /\ KeysOnce(Append(q, j))
         /\ \A n \in Overs : HasKey(Append(q, j), n) <=> HasKey(q, n) \/ j = Job("key", n)
<1> DEFINE r == Append(q, j)
<1>1. /\ r \in Seq(Jobs) /\ Len(q) \in Nat /\ Len(r) = Len(q) + 1
      /\ \A i \in 1..Len(q) : r[i] = q[i]
      /\ r[Len(q) + 1] = j
      /\ \A i \in 1..Len(q) : q[i] \in Jobs
  OBVIOUS
<1> HIDE DEF r
<1>2. ASSUME NEW n \in Overs PROVE HasKey(r, n) <=> HasKey(q, n) \/ j = Job("key", n)
  BY <1>1 DEF HasKey
<1>3. \A i \in 1..Len(r) : r[i].what = "key" => r[i].over \in Overs
  BY <1>1 DEF KeysOnce
<1>4. ASSUME NEW i \in 1..Len(q), q[i].what = "key", q[i] = j PROVE FALSE
  <2>1. j = Job("key", j.over)
    BY <1>1, <1>4 DEF Jobs, Job
  <2>2. HasKey(q, j.over)
    BY <1>4, <2>1 DEF HasKey
  <2>3. QED
    BY <1>4, <2>2
<1>5. ASSUME NEW a \in 1..Len(r), NEW b \in 1..Len(r), r[a].what = "key", r[a] = r[b]
      PROVE  a = b
  <2>1. CASE a \in 1..Len(q) /\ b \in 1..Len(q)
    BY <1>1, <1>5, <2>1 DEF KeysOnce
  <2>2. CASE a = Len(q) + 1 /\ b \in 1..Len(q)
    BY <1>1, <1>4, <1>5, <2>2
  <2>3. CASE b = Len(q) + 1 /\ a \in 1..Len(q)
    BY <1>1, <1>4, <1>5, <2>3
  <2>4. CASE a = Len(q) + 1 /\ b = Len(q) + 1
    BY <2>4
  <2>5. QED
    BY <1>1, <2>1, <2>2, <2>3, <2>4
<1>6. KeysOnce(r)
  BY <1>3, <1>5 DEF KeysOnce
<1>7. QED
  BY <1>1, <1>2, <1>6 DEF r

(* A job sent behind a queue: the chains before each key. *)
LEMMA ChainSent ==
  ASSUME NEW q \in Seq(Jobs), NEW j \in Jobs, NEW g \in BOOLEAN, ChainFirst(q, g),
         j.what = "key" => ChainAfter(q, g)
  PROVE  /\ ChainFirst(Append(q, j), g)
         /\ j.what = "chain" \/ (ChainAfter(q, g) /\ j.what # "drop") => ChainAfter(Append(q, j), g)
<1> DEFINE r == Append(q, j)
<1>1. /\ r \in Seq(Jobs) /\ Len(q) \in Nat /\ Len(r) = Len(q) + 1
      /\ \A i \in 1..Len(q) : r[i] = q[i]
      /\ r[Len(q) + 1] = j
  OBVIOUS
<1> HIDE DEF r
<1>2. ASSUME NEW i \in 1..(Len(q) + 1), ChainAt(q, g, i) PROVE ChainAt(r, g, i)
  BY <1>1, <1>2 DEF ChainAt, Undropped
<1>3. \A i \in 1..Len(r) : r[i].what = "key" => ChainAt(r, g, i)
  BY <1>1, <1>2 DEF ChainFirst, ChainAfter
<1>4. ASSUME j.what = "chain" \/ (ChainAfter(q, g) /\ j.what # "drop")
      PROVE  ChainAt(r, g, Len(r) + 1)
  <2>1. CASE j.what = "chain"
    BY <1>1, <2>1 DEF ChainAt, Undropped
  <2>2. CASE ChainAfter(q, g) /\ j.what # "drop"
    <3>1. ChainAt(r, g, Len(q) + 1)
      BY <1>1, <1>2, <2>2 DEF ChainAfter
    <3>2. CASE g /\ Undropped(r, 1, Len(q))
      BY <1>1, <2>2, <3>2 DEF ChainAt, Undropped
    <3>3. CASE \E k \in 1..Len(q) : r[k].what = "chain" /\ Undropped(r, k + 1, Len(q))
      <4>1. PICK k \in 1..Len(q) : r[k].what = "chain" /\ Undropped(r, k + 1, Len(q))
        BY <3>3
      <4>2. k \in 1..(Len(r) + 1 - 1) /\ Undropped(r, k + 1, Len(r) + 1 - 1)
        BY <1>1, <2>2, <4>1 DEF Undropped
      <4>3. QED
        BY <4>1, <4>2 DEF ChainAt
    <3>4. QED
      BY <1>1, <3>1, <3>2, <3>3 DEF ChainAt
  <2>3. QED
    BY <1>4, <2>1, <2>2
<1>5. QED
  BY <1>3, <1>4 DEF ChainFirst, ChainAfter, r

(* The first job taken off a queue: the streams on their way. *)
LEMMA JobTaken ==
  ASSUME NEW q \in Seq(Jobs), q # <<>>, KeysOnce(q)
  PROVE  /\ Tail(q) \in Seq(Jobs) /\ Head(q) \in Jobs
         /\ KeysOnce(Tail(q))
         /\ \A n \in Overs : HasKey(Tail(q), n) <=> HasKey(q, n) /\ Head(q) # Job("key", n)
         /\ Head(q).what = "key" => Head(q).over \in Overs /\ HasKey(q, Head(q).over)
<1> DEFINE r == Tail(q)
<1>1. /\ r \in Seq(Jobs) /\ Len(q) \in Nat \ {0} /\ Len(r) = Len(q) - 1
      /\ \A i \in 1..Len(r) : r[i] = q[i + 1]
      /\ Head(q) = q[1] /\ q[1] \in Jobs
  OBVIOUS
<1> HIDE DEF r
<1>2. ASSUME NEW n \in Overs PROVE HasKey(r, n) <=> HasKey(q, n) /\ Head(q) # Job("key", n)
  <2>1. ASSUME HasKey(r, n) PROVE HasKey(q, n) /\ Head(q) # Job("key", n)
    <3>1. PICK i \in 1..Len(r) : r[i] = Job("key", n)
      BY <2>1 DEF HasKey
    <3>2. i + 1 \in 1..Len(q) /\ q[i + 1] = Job("key", n) /\ i + 1 # 1 /\ 1 \in 1..Len(q)
      BY <1>1, <3>1
    <3>3. q[1] # Job("key", n)
      BY <3>2, JobTypes DEF KeysOnce
    <3>4. QED
      BY <1>1, <3>2, <3>3 DEF HasKey
  <2>2. ASSUME HasKey(q, n), Head(q) # Job("key", n) PROVE HasKey(r, n)
    <3>1. PICK i \in 1..Len(q) : q[i] = Job("key", n)
      BY <2>2 DEF HasKey
    <3>2. i - 1 \in 1..Len(r) /\ r[i - 1] = q[i]
      BY <1>1, <2>2, <3>1
    <3>3. QED
      BY <3>1, <3>2 DEF HasKey
  <2>3. QED
    BY <2>1, <2>2
<1>3. KeysOnce(r)
  BY <1>1 DEF KeysOnce
<1>4. ASSUME Head(q).what = "key" PROVE Head(q).over \in Overs /\ HasKey(q, Head(q).over)
  BY <1>1, <1>4 DEF KeysOnce, HasKey, Job, Jobs
<1>5. QED
  BY <1>1, <1>2, <1>3, <1>4 DEF r

(* The first job taken off a queue: the chains before each key. *)
LEMMA ChainTaken ==
  ASSUME NEW q \in Seq(Jobs), q # <<>>, NEW g \in BOOLEAN, NEW h \in BOOLEAN,
         ChainFirst(q, g),
         Head(q).what = "chain" => h,
         Head(q).what \in {"key", "unkey"} => (g => h)
  PROVE  /\ ChainFirst(Tail(q), h)
         /\ ChainAfter(q, g) => ChainAfter(Tail(q), h)
         /\ Head(q).what = "key" => g
<1> DEFINE r == Tail(q)
<1>1. /\ r \in Seq(Jobs) /\ Len(q) \in Nat \ {0} /\ Len(r) = Len(q) - 1
      /\ \A i \in 1..Len(r) : r[i] = q[i + 1]
      /\ Head(q) = q[1] /\ q[1] \in Jobs
  OBVIOUS
<1> HIDE DEF r
<1>2. ASSUME NEW i \in 1..(Len(r) + 1), ChainAt(q, g, i + 1) PROVE ChainAt(r, h, i)
  <2>1. CASE g /\ Undropped(q, 1, i)
    <3>1. q[1].what # "drop"
      BY <1>1, <2>1 DEF Undropped
    <3>2. h
      BY <1>1, <2>1, <3>1 DEF Jobs
    <3>3. Undropped(r, 1, i - 1)
      BY <1>1, <2>1 DEF Undropped
    <3>4. QED
      BY <3>2, <3>3 DEF ChainAt
  <2>2. CASE \E k \in 1..i : q[k].what = "chain" /\ Undropped(q, k + 1, i)
    <3>1. PICK k \in 1..i : q[k].what = "chain" /\ Undropped(q, k + 1, i)
      BY <2>2
    <3>2. CASE k = 1
      <4>1. h /\ Undropped(r, 1, i - 1)
        BY <1>1, <3>1, <3>2 DEF Undropped
      <4>2. QED
        BY <4>1 DEF ChainAt
    <3>3. CASE k # 1
      <4>1. k - 1 \in 1..(i - 1) /\ (k - 1) + 1 = k /\ r[k - 1] = q[k]
        BY <1>1, <3>1, <3>3
      <4>2. Undropped(r, (k - 1) + 1, i - 1)
        BY <1>1, <3>1, <4>1 DEF Undropped
      <4>3. QED
        BY <3>1, <4>1, <4>2 DEF ChainAt
    <3>4. QED
      BY <3>2, <3>3
  <2>3. QED
    BY <1>1, <1>2, <2>1, <2>2 DEF ChainAt
<1>3. \A i \in 1..Len(r) : r[i].what = "key" => ChainAt(r, h, i)
  BY <1>1, <1>2 DEF ChainFirst
<1>4. ChainAfter(q, g) => ChainAfter(r, h)
  BY <1>1, <1>2 DEF ChainAfter
<1>5. Head(q).what = "key" => g
  BY <1>1 DEF ChainFirst, ChainAt
<1>6. QED
  BY <1>3, <1>4, <1>5 DEF ChainFirst, r
-----------------------------------------------------------------------------
Graphed == graph /\ txpc # "drop"
Fresh == rf \in {"writer", "tune", "keyed"}

(* Overs are numbered as their streams are opened. *)
Numbered ==
  /\ rf = "open" => made < MaxOvers
  /\ Fresh => made \in Overs
  /\ rf = "writer" => ~Streaming(made)
  /\ \A n \in Overs : n > made => ~Streaming(n)

(* No two of the places above the driver hold the same stream. *)
Apart ==
  /\ pend # Nobody => pend \notin {sink, next, waiting} /\ ~HasKey(jobs, pend)
  /\ sink # Nobody => sink \notin {next, waiting} /\ ~HasKey(jobs, sink)
  /\ next # Nobody => next # waiting /\ ~HasKey(jobs, next)
  /\ waiting # Nobody => ~HasKey(jobs, waiting)
  /\ KeysOnce(jobs)

InHand(n) == pend = n \/ HasKey(jobs, n) \/ sink = n \/ next = n \/ waiting = n

(* What is in one of them has been opened and returned by the driver, and  *)
(* a stream that streams is in one of them or about to be returned.        *)
Reached ==
  \A n \in Overs :
    /\ InHand(n) => n <= made /\ (Fresh => n # made)
    /\ Streaming(n) => InHand(n) \/ (n = made /\ rf \in {"tune", "keyed"})

(* A stream is overwritten where it was only when it has been let go of. *)
HandedOver ==
  /\ next # Nobody <=> txpc = "attach"
  /\ txpc # "idle" /\ sink # Nobody => ~Streaming(sink)
  /\ txpc # "idle" /\ waiting # Nobody => ~Streaming(waiting)

(* A stream is on a chain, or waits for one, and it waits only where a     *)
(* chain's own run has failed.                                             *)
Seated ==
  /\ sink # Nobody \/ next # Nobody => graph
  /\ waiting # Nobody => Fails /\ ~graph

Chained ==
  ~Fails => /\ ChainFirst(jobs, Graphed)
            /\ built => ChainAfter(jobs, Graphed)

Owner == Numbered /\ Apart /\ Reached /\ HandedOver /\ Seated /\ Chained

Without(q, what) == \A i \in 1..Len(q) : q[i].what # what

(* What only an edit or the chain's own run takes away. *)
Excused ==
  /\ ~Breaks => txpc # "drop" /\ Without(jobs, "drop")
  /\ ~Fails => txpc # "fail"

(* On a sound board a stream that streams has the claim, so that there is  *)
(* one, and one that waits for the rebuild or is on its way streams.       *)
Solo ==
  Fails =>
    /\ ~Handing("rf")
    /\ rf = "writer" => claim = made
    /\ hb["tx"].pc = "drain" => st[hb["tx"].over] = "ending"
    /\ \A n \in Overs :
         /\ st[n] # "dead"
         /\ st[n] = "live" => claim = n
         /\ n > made \/ (rf = "writer" /\ n = made) => st[n] = "unmade"
         /\ rf \in {"tune", "keyed"} /\ n = made => st[n] = "live"
         /\ pend = n \/ HasKey(jobs, n) => st[n] = "live"

(* The lamp is lit by a key no unkey follows: on its way, or on the sink,  *)
(* or by one whose loss is to be told.                                     *)
KeyLast(q) == \E i \in 1..Len(q) : q[i].what = "key" /\ \A k \in i..Len(q) : q[k].what # "unkey"
Lit ==
  ~Breaks /\ ~Fails /\ status =>
    \/ KeyLast(jobs)
    \/ Without(jobs, "unkey") /\ txpc # "unkey" /\ (sink # Nobody \/ lost)

OwnerTypes ==
  /\ made \in 0..MaxOvers
  /\ st \in [Overs -> {"unmade", "live", "dead", "ending", "gone"}]
  /\ {built, graph} \subseteq BOOLEAN
  /\ {pend, waiting, sink, next} \subseteq Streams
  /\ jobs \in Seq(Jobs)

(* The types the ownership argument uses. *)
LEMMA TypesForOwner == TypeOK => OwnerTypes
  BY DEF TypeOK, DriverTypeOK, OwnerTypes, Jobs

(* The world is the same throughout. *)
LEMMA WorldStays ==
  world' = world => Eager' = Eager /\ Breaks' = Breaks /\ Fails' = Fails /\ Flaky' = Flaky
  BY DEF Eager, Breaks, Fails, Flaky

Unkey == Job("unkey", Nobody)

(* An unkey moves no stream and no chain. *)
LEMMA UnkeySent ==
  ASSUME OwnerTypes, KeysOnce(jobs), Chained, jobs' = Append(jobs, Unkey)
  PROVE  /\ KeysOnce(jobs')
         /\ \A n \in Overs : HasKey(jobs', n) <=> HasKey(jobs, n)
         /\ ~Fails => /\ ChainFirst(jobs', Graphed)
                      /\ built => ChainAfter(jobs', Graphed)
<1>1. Unkey \in Jobs /\ Unkey.what = "unkey" /\ \A n \in Overs : Unkey # Job("key", n)
  BY DEF Unkey, Job, Jobs, Streams
<1>2. jobs \in Seq(Jobs) /\ Graphed \in BOOLEAN
  BY DEF OwnerTypes, Graphed
<1>3. KeysOnce(jobs') /\ \A n \in Overs : HasKey(jobs', n) <=> HasKey(jobs, n)
  BY <1>1, <1>2, JobSent
<1>4. CASE ~Fails
  <2>1. ChainFirst(jobs, Graphed) /\ (built => ChainAfter(jobs, Graphed))
    BY <1>4 DEF Chained
  <2>2. ChainFirst(jobs', Graphed) /\ (built => ChainAfter(jobs', Graphed))
    BY <1>1, <1>2, <2>1, ChainSent
  <2>3. QED
    BY <1>3, <2>2
<1>5. QED
  BY <1>3, <1>4

(* A step that moves no stream from one place to another. *)
LEMMA OwnerKept ==
  ASSUME OwnerTypes, Owner,
         world' = world,
         UNCHANGED <<made, pend, sink, next, waiting, txpc, graph, built>>,
         jobs' = jobs \/ jobs' = Append(jobs, Unkey),
         \A n \in Overs : st'[n] \in {"live", "dead"} => Streaming(n),
         rf' = rf \/ (~Fresh /\ ~Fresh' /\ (rf' = "open" => made < MaxOvers))
  PROVE  Owner'
<1>0. /\ pend \in Streams /\ sink \in Streams /\ next \in Streams /\ waiting \in Streams
      /\ made \in 0..MaxOvers
  BY DEF OwnerTypes
<1>1. /\ KeysOnce(jobs')
      /\ ~Fails => ChainFirst(jobs', Graphed) /\ (built => ChainAfter(jobs', Graphed))
      /\ \A n \in Overs : HasKey(jobs', n) <=> HasKey(jobs, n)
  BY UnkeySent DEF Owner, Apart, Chained
<1>2. Numbered'
  BY Names, <1>0 DEF Owner, Numbered, Streaming, Fresh
<1>3. Apart'
  BY <1>0, <1>1 DEF Owner, Apart, Streams
<1>4. Reached'
  BY <1>1 DEF Owner, Reached, InHand, Streaming, Fresh
<1>5. HandedOver'
  BY <1>0 DEF Owner, HandedOver, Streaming, Streams
<1>6. Seated' /\ Chained'
  BY <1>1, WorldStays DEF Owner, Seated, Chained, Graphed
<1>7. QED
  BY <1>2, <1>3, <1>4, <1>5, <1>6 DEF Owner

-----------------------------------------------------------------------------
(* The driver's side of a stream. *)
LEMMA OpenOwner ==
  ASSUME OwnerTypes, Owner, world' = world, OpenTx, UNCHANGED app
  PROVE  Owner'
<1> USE Names DEF app, loop, handle, readings, worker, shared
<1>0. /\ pend \in Streams /\ sink \in Streams /\ next \in Streams /\ waiting \in Streams
      /\ made \in Nat
  BY DuplexAssumption DEF OwnerTypes, Streams
<1>1. /\ rf = "open" /\ st' = st
      /\ \/ made' = made + 1 /\ rf' = "writer"
         \/ made' = made /\ rf' = "refused"
  BY DEF OpenTx
<1>2. Numbered'
  BY <1>0, <1>1 DEF Owner, Numbered, Streaming, Fresh, Overs
<1>3. Apart' /\ HandedOver' /\ Seated' /\ Chained'
  BY <1>1, WorldStays DEF Chained, Owner, Apart, HandedOver, Seated, Streaming, Graphed
<1>4. Reached'
  BY <1>0, <1>1 DEF Owner, Reached, InHand, Streaming, Fresh
<1>5. QED
  BY <1>2, <1>3, <1>4 DEF Owner

(* The stream made by into_writer is the new over. *)
LEMMA WriterOwner ==
  ASSUME OwnerTypes, Owner, world' = world, IntoWriter, UNCHANGED app
  PROVE  Owner'
<1> USE Names DEF app, loop, handle, readings, worker, shared
<1>0. /\ sink \in Streams /\ waiting \in Streams
      /\ made \in Overs /\ made' = made /\ Fresh
      /\ ~InHand(made)
  BY DEF OwnerTypes, IntoWriter, Owner, Numbered, Reached, Fresh
<1>1. \/ st' = [st EXCEPT ![made] = "live"] /\ rf' = "tune"
      \/ st' = st /\ rf' = "refused"
  BY DEF IntoWriter
<1>2. \A n \in Overs \ {made} : st'[n] = st[n]
  BY <1>1 DEF OwnerTypes
<1>3. Numbered'
  BY <1>0, <1>1, <1>2 DEF Owner, Numbered, Streaming, Fresh
<1>4. Apart' /\ Seated' /\ Chained'
  BY WorldStays DEF Chained, Owner, Apart, Seated, Graphed
<1>5. HandedOver'
  BY <1>0, <1>2 DEF Owner, HandedOver, Streaming, InHand, Streams
<1>6. Reached'
  <2>1. ~Streaming(made)
    BY DEF Owner, Numbered, IntoWriter
  <2>2. QED
    BY <1>0, <1>1, <1>2, <2>1 DEF Owner, Reached, InHand, Streaming, Fresh
<1>7. QED
  BY <1>3, <1>4, <1>5, <1>6 DEF Owner

(* The stream tuned is returned, or dropped by start_tx. *)
LEMMA TuneOwner ==
  ASSUME OwnerTypes, Owner, world' = world, TuneTx, UNCHANGED app
  PROVE  Owner'
<1> USE Names DEF app, loop, handle, readings, worker, shared
<1>0. /\ sink \in Streams /\ waiting \in Streams
      /\ made \in Overs /\ made' = made /\ Fresh
      /\ ~InHand(made)
  BY DEF OwnerTypes, TuneTx, Owner, Numbered, Reached, Fresh
<1>1. \/ st' = st /\ rf' = "keyed"
      \/ st' = [st EXCEPT ![made] = "gone"] /\ rf' = "refused"
  BY DEF TuneTx
<1>2. /\ \A n \in Overs \ {made} : st'[n] = st[n]
      /\ rf = "tune"
  BY <1>1 DEF OwnerTypes, TuneTx
<1>3. Numbered'
  BY <1>0, <1>1, <1>2 DEF Owner, Numbered, Streaming, Fresh
<1>4. Apart' /\ Seated' /\ Chained'
  BY WorldStays DEF Chained, Owner, Apart, Seated, Graphed
<1>5. HandedOver'
  BY <1>0, <1>2 DEF Owner, HandedOver, Streaming, InHand, Streams
<1>6. Reached'
  <2>1. rf' = "refused" => st'[made] = "gone"
    BY <1>0, <1>1 DEF OwnerTypes
  <2>2. QED
    BY <1>0, <1>1, <1>2, <2>1 DEF Owner, Reached, InHand, Streaming, Fresh
<1>7. QED
  BY <1>3, <1>4, <1>5, <1>6 DEF Owner
-----------------------------------------------------------------------------
(* A job without a stream. *)
LEMMA OtherSent ==
  ASSUME NEW q \in Seq(Jobs), NEW what \in {"chain", "unkey", "drop"},
         NEW g \in BOOLEAN, KeysOnce(q)
  PROVE  /\ Append(q, Job(what, Nobody)) \in Seq(Jobs)
         /\ KeysOnce(Append(q, Job(what, Nobody)))
         /\ \A n \in Overs : HasKey(Append(q, Job(what, Nobody)), n) <=> HasKey(q, n)
         /\ ChainFirst(q, g) =>
              /\ ChainFirst(Append(q, Job(what, Nobody)), g)
              /\ what = "chain" \/ (what = "unkey" /\ ChainAfter(q, g))
                   => ChainAfter(Append(q, Job(what, Nobody)), g)
<1> DEFINE j == Job(what, Nobody)
<1>1. j \in Jobs /\ j.what = what /\ \A n \in Overs : j # Job("key", n)
  BY DEF Job, Jobs, Streams
<1> HIDE DEF j
<1>2. /\ Append(q, j) \in Seq(Jobs) /\ KeysOnce(Append(q, j))
      /\ \A n \in Overs : HasKey(Append(q, j), n) <=> HasKey(q, n)
  BY <1>1, JobSent
<1>3. ASSUME ChainFirst(q, g)
      PROVE  /\ ChainFirst(Append(q, j), g)
             /\ what = "chain" \/ (what = "unkey" /\ ChainAfter(q, g)) => ChainAfter(Append(q, j), g)
  BY <1>1, <1>3, ChainSent
<1>4. QED
  BY <1>2, <1>3 DEF j

(* A job with a stream, behind a chain. *)
LEMMA KeySent ==
  ASSUME NEW q \in Seq(Jobs), NEW n \in Overs, NEW g \in BOOLEAN,
         KeysOnce(q), ~HasKey(q, n)
  PROVE  /\ Append(q, Job("key", n)) \in Seq(Jobs)
         /\ KeysOnce(Append(q, Job("key", n)))
         /\ \A m \in Overs : HasKey(Append(q, Job("key", n)), m) <=> HasKey(q, m) \/ m = n
         /\ ChainFirst(q, g) /\ ChainAfter(q, g) =>
              /\ ChainFirst(Append(q, Job("key", n)), g)
              /\ ChainAfter(Append(q, Job("key", n)), g)
<1> DEFINE j == Job("key", n)
<1>1. j \in Jobs /\ j.what = "key" /\ j.over = n /\ \A m \in Overs : j = Job("key", m) <=> m = n
  BY JobTypes DEF Job
<1> HIDE DEF j
<1>2. /\ Append(q, j) \in Seq(Jobs) /\ KeysOnce(Append(q, j))
      /\ \A m \in Overs : HasKey(Append(q, j), m) <=> HasKey(q, m) \/ m = n
  BY <1>1, JobSent
<1>3. ASSUME ChainFirst(q, g), ChainAfter(q, g)
      PROVE  ChainFirst(Append(q, j), g) /\ ChainAfter(Append(q, j), g)
  BY <1>1, <1>3, ChainSent
<1>4. QED
  BY <1>2, <1>3 DEF j

(* The radio thread's side. *)
LEMMA KeySameOwner ==
  ASSUME OwnerTypes, Owner, world' = world, KeySame
  PROVE  Owner'
<1> USE Names DEF worker, shared
<1>0. /\ sink \in Streams /\ made \in Overs /\ made' = made /\ Fresh /\ rf' = "idle"
      /\ ~InHand(made) /\ st' = st /\ built /\ built' = built
      /\ jobs \in Seq(Jobs) /\ Graphed \in BOOLEAN
      /\ UNCHANGED <<pend, sink, next, waiting, txpc, graph>>
      /\ jobs' = Append(jobs, Job("key", made))
  BY DEF OwnerTypes, KeySame, Owner, Numbered, Reached, Fresh, Graphed
<1>1. /\ KeysOnce(jobs')
      /\ ~Fails => ChainFirst(jobs', Graphed) /\ ChainAfter(jobs', Graphed)
      /\ \A m \in Overs : HasKey(jobs', m) <=> HasKey(jobs, m) \/ m = made
  <2>1. /\ KeysOnce(jobs)
        /\ ~Fails => ChainFirst(jobs, Graphed) /\ ChainAfter(jobs, Graphed)
        /\ ~HasKey(jobs, made)
    BY <1>0 DEF Owner, Apart, InHand, Chained
  <2>2. QED
    BY <1>0, <2>1, KeySent
<1>3. Numbered'
  BY <1>0 DEF Owner, Numbered, Streaming, Fresh
<1>4. Apart'
  BY <1>0, <1>1 DEF OwnerTypes, Owner, Apart, InHand, Streams
<1>5. HandedOver' /\ Seated' /\ Chained'
  BY <1>0, <1>1, WorldStays DEF Chained, Owner, HandedOver, Seated, Streaming, Graphed
<1>6. Reached'
  BY <1>0, <1>1 DEF Owner, Reached, InHand, Streaming, Fresh, Overs
<1>7. QED
  BY <1>3, <1>4, <1>5, <1>6 DEF Owner

(* The stream waits for the rebuild. *)
LEMMA KeyForRebuildOwner ==
  ASSUME OwnerTypes, Owner, world' = world, KeyForRebuild
  PROVE  Owner'
<1> USE Names DEF worker, shared, handle
<1>0. /\ sink \in Streams /\ made \in Overs /\ made' = made /\ Fresh /\ rf' = "idle"
      /\ ~InHand(made) /\ UNCHANGED <<st, built, jobs, sink, next, waiting, txpc, graph>>
      /\ pend = Nobody /\ pend' = made
  BY DEF OwnerTypes, KeyForRebuild, Owner, Numbered, Reached, Fresh
<1>3. Numbered'
  BY <1>0 DEF Owner, Numbered, Streaming, Fresh
<1>4. Apart'
  BY <1>0 DEF Owner, Apart, InHand
<1>5. HandedOver' /\ Seated' /\ Chained'
  BY <1>0, WorldStays DEF Chained, Owner, HandedOver, Seated, Streaming, Graphed
<1>6. Reached'
  BY <1>0 DEF Owner, Reached, InHand, Streaming, Fresh, Overs
<1>7. QED
  BY <1>3, <1>4, <1>5, <1>6 DEF Owner

(* A rebuild's jobs: the waiting stream is sent, behind its chain. *)
LEMMA RebuildSent ==
  ASSUME OwnerTypes, Owner, Rebuild
  PROVE  /\ KeysOnce(jobs')
         /\ ~Fails => ChainFirst(jobs', Graphed) /\ ChainAfter(jobs', Graphed)
         /\ \A m \in Overs : HasKey(jobs', m) <=> HasKey(jobs, m) \/ (pend = m)
<1> USE Names DEF worker, driver
<1>0. /\ UNCHANGED <<made, st, rf, sink, next, waiting, txpc, graph>>
      /\ pend' = Nobody /\ built' = TRUE
      /\ pend \in Streams /\ jobs \in Seq(Jobs) /\ Graphed \in BOOLEAN
      /\ KeysOnce(jobs)
      /\ ~Fails => /\ ChainFirst(jobs, Graphed)
                   /\ built => ChainAfter(jobs, Graphed)
  BY DEF OwnerTypes, Rebuild, Graphed, Owner, Apart, Chained
<1>1. PICK chain \in {<<>>, <<Job("chain", Nobody)>>} :
        /\ built \/ chain # <<>>
        /\ jobs' = jobs \o chain \o (IF pend # Nobody THEN <<Job("key", pend)>> ELSE <<>>)
  BY DEF Rebuild
<1> DEFINE q == jobs \o chain
<1>2. /\ q \in Seq(Jobs) /\ KeysOnce(q)
      /\ ~Fails => ChainFirst(q, Graphed) /\ ChainAfter(q, Graphed)
      /\ \A m \in Overs : HasKey(q, m) <=> HasKey(jobs, m)
  <2>1. CASE chain = <<>>
    <3>1. q = jobs /\ built
      BY <1>0, <1>1, <2>1
    <3>2. QED
      BY <1>0, <3>1
  <2>2. CASE chain = <<Job("chain", Nobody)>>
    <3>1. Job("chain", Nobody) \in Jobs
      BY DEF Job, Jobs, Streams
    <3>2. q = Append(jobs, Job("chain", Nobody))
      BY <1>0, <2>2, <3>1
    <3>3. QED
      BY <1>0, <3>2, OtherSent
  <2>3. QED
    BY <1>1, <2>1, <2>2
<1>3. /\ KeysOnce(jobs')
      /\ ~Fails => ChainFirst(jobs', Graphed) /\ ChainAfter(jobs', Graphed)
      /\ \A m \in Overs : HasKey(jobs', m) <=> HasKey(jobs, m) \/ (pend = m)
  <2>1. CASE pend = Nobody
    <3>1. jobs' = q
      BY <1>1, <1>2, <2>1
    <3>2. QED
      BY <1>2, <2>1, <3>1
  <2>2. CASE pend # Nobody
    <3>1. pend \in Overs /\ ~HasKey(jobs, pend) /\ Job("key", pend) \in Jobs
      BY <1>0, <2>2, JobTypes DEF Streams, Owner, Apart
    <3> HIDE DEF q
    <3>2. jobs' = Append(q, Job("key", pend))
      <4>1. jobs' = q \o <<Job("key", pend)>>
        BY <1>1, <2>2 DEF q
      <4>2. QED
        BY <1>2, <3>1, <4>1
    <3>3. QED
      BY <1>0, <1>2, <3>1, <3>2, KeySent
  <2>3. QED
    BY <2>1, <2>2
<1>4. QED
  BY <1>3

(* The same for the streams. *)
LEMMA RebuildOwner ==
  ASSUME OwnerTypes, Owner, world' = world, Rebuild
  PROVE  Owner'
<1> USE Names DEF worker, driver
<1>0. /\ UNCHANGED <<made, st, rf, sink, next, waiting, txpc, graph>>
      /\ pend' = Nobody /\ built' = TRUE /\ pend \in Streams
  BY DEF OwnerTypes, Rebuild
<1>3. /\ KeysOnce(jobs')
      /\ ~Fails => ChainFirst(jobs', Graphed) /\ ChainAfter(jobs', Graphed)
      /\ \A m \in Overs : HasKey(jobs', m) <=> HasKey(jobs, m) \/ (pend = m)
  BY RebuildSent
<1>4. Numbered'
  BY <1>0 DEF Owner, Numbered, Streaming, Fresh
<1>5. Apart'
  BY <1>0, <1>3 DEF OwnerTypes, Owner, Apart, Streams
<1>6. HandedOver' /\ Seated' /\ Chained'
  BY <1>0, <1>3, WorldStays DEF Chained, Owner, HandedOver, Seated, Streaming, Graphed
<1>7. Reached'
  BY <1>0, <1>3 DEF Owner, Reached, InHand, Streaming, Fresh
<1>8. QED
  BY <1>4, <1>5, <1>6, <1>7 DEF Owner

(* The waiting stream is handed back. *)
LEMMA BreaksOwner ==
  ASSUME OwnerTypes, Owner, world' = world, RebuildBreaks
  PROVE  Owner'
<1> USE Names DEF worker, driver
<1>0. /\ UNCHANGED <<made, rf, sink, next, waiting, txpc, graph>>
      /\ pend' = Nobody /\ built' = FALSE
      /\ \/ pend # Nobody /\ st' = [st EXCEPT ![pend] = "ending"]
         \/ pend = Nobody /\ st' = st
      /\ pend \in Streams /\ jobs \in Seq(Jobs) /\ Graphed \in BOOLEAN
      /\ KeysOnce(jobs) /\ (~Fails => ChainFirst(jobs, Graphed))
      /\ waiting \in Streams /\ sink \in Streams
  BY DEF OwnerTypes, RebuildBreaks, HandBack, Graphed, Owner, Apart, Chained
<1> DEFINE q == IF built \/ armed THEN Append(jobs, Job("drop", Nobody)) ELSE jobs
<1>1. /\ q \in Seq(Jobs) /\ KeysOnce(q) /\ (~Fails => ChainFirst(q, Graphed))
      /\ \A m \in Overs : HasKey(q, m) <=> HasKey(jobs, m)
  <2>1. CASE built \/ armed
    BY <1>0, <2>1, OtherSent
  <2>2. CASE ~(built \/ armed)
    BY <1>0, <2>2
  <2>3. QED
    BY <2>1, <2>2
<1>2. jobs' = q \/ jobs' = Append(q, Job("unkey", Nobody))
  BY DEF RebuildBreaks
<1> HIDE DEF q
<1>3. /\ KeysOnce(jobs') /\ (~Fails => ChainFirst(jobs', Graphed))
      /\ \A m \in Overs : HasKey(jobs', m) <=> HasKey(jobs, m)
  <2>1. CASE jobs' = q
    BY <1>1, <2>1
  <2>2. CASE jobs' = Append(q, Job("unkey", Nobody))
    <3>1. /\ KeysOnce(Append(q, Job("unkey", Nobody)))
          /\ ~Fails => ChainFirst(Append(q, Job("unkey", Nobody)), Graphed)
          /\ \A m \in Overs : HasKey(Append(q, Job("unkey", Nobody)), m) <=> HasKey(q, m)
      BY <1>0, <1>1, OtherSent
    <3>2. QED
      BY <1>1, <2>2, <3>1
  <2>3. QED
    BY <1>2, <2>1, <2>2
<1>4. \A n \in Overs : st'[n] = IF n = pend THEN "ending" ELSE st[n]
  BY <1>0 DEF OwnerTypes
<1>5. Numbered'
  BY <1>0, <1>4 DEF OwnerTypes, Owner, Numbered, Streaming, Fresh, Reached, InHand
<1>6. Apart'
  BY <1>0, <1>3 DEF OwnerTypes, Owner, Apart, Streams
<1>7. HandedOver' /\ Seated' /\ Chained'
  BY <1>0, <1>3, <1>4, WorldStays DEF Chained, Owner, HandedOver, Seated, Streaming, Graphed, Streams
<1>8. Reached'
  BY <1>0, <1>3, <1>4 DEF Owner, Reached, InHand, Streaming, Fresh
<1>9. QED
  BY <1>5, <1>6, <1>7, <1>8 DEF Owner
-----------------------------------------------------------------------------
(* The transmit thread's side: what taking a job leaves of the queue. *)
LEMMA Took ==
  ASSUME OwnerTypes, Owner, NEW h \in BOOLEAN, NEW what, Idle(what), jobs' = Tail(jobs),
         what = "chain" => h,
         what \in {"key", "unkey"} => (graph => h)
  PROVE  /\ KeysOnce(jobs')
         /\ ~Fails => ChainFirst(jobs', h) /\ (built => ChainAfter(jobs', h))
         /\ \A n \in Overs : HasKey(jobs', n) <=> HasKey(jobs, n) /\ Head(jobs) # Job("key", n)
         /\ what = "key" => /\ Head(jobs).over \in Overs /\ HasKey(jobs, Head(jobs).over)
                            /\ Head(jobs) = Job("key", Head(jobs).over)
                            /\ Fails \/ graph
<1>1. /\ jobs \in Seq(Jobs) /\ jobs # <<>> /\ Head(jobs).what = what /\ txpc = "idle"
      /\ KeysOnce(jobs)
      /\ ~Fails => ChainFirst(jobs, graph) /\ (built => ChainAfter(jobs, graph))
      /\ graph \in BOOLEAN
  <2>1. graph \in BOOLEAN /\ Graphed = graph
    BY DEF OwnerTypes, Idle, Graphed
  <2>2. QED
    BY <2>1 DEF OwnerTypes, Owner, Apart, Idle, Chained
<1>2. Head(jobs) \in Jobs
  BY <1>1
<1>3. what = "key" => Head(jobs) = Job("key", Head(jobs).over)
  BY <1>1, <1>2 DEF Jobs, Job
<1>4. /\ KeysOnce(Tail(jobs))
      /\ \A n \in Overs : HasKey(Tail(jobs), n) <=> HasKey(jobs, n) /\ Head(jobs) # Job("key", n)
      /\ what = "key" => Head(jobs).over \in Overs /\ HasKey(jobs, Head(jobs).over)
  BY <1>1, JobTaken
<1>5. ASSUME ~Fails
      PROVE  /\ ChainFirst(Tail(jobs), h) /\ (built => ChainAfter(Tail(jobs), h))
             /\ what = "key" => graph
  BY <1>1, <1>5, ChainTaken
<1>6. QED
  BY <1>3, <1>4, <1>5

(* A chain taken: hand_back leaves a stream on the sink where it is, and   *)
(* one that waits goes on.                                                 *)
LEMMA ChainJobOwner ==
  ASSUME OwnerTypes, Owner, world' = world, ChainJob
  PROVE  Owner'
<1> USE Names DEF loop, handle, readings, driver
<1>0. /\ UNCHANGED <<made, rf, st, pend, built, next, txpc>>
      /\ graph' = TRUE /\ waiting' = Nobody
      /\ Idle("chain") /\ jobs' = Tail(jobs) /\ txpc = "idle"
      /\ waiting \in Streams /\ sink \in Streams
      /\ \/ waiting = Nobody /\ sink' = sink
         \/ waiting # Nobody /\ sink = Nobody /\ next = Nobody /\ sink' = waiting
  BY DEF OwnerTypes, ChainJob, Idle, Owner, Seated
<1>1. /\ KeysOnce(jobs')
      /\ ~Fails => ChainFirst(jobs', graph') /\ (built => ChainAfter(jobs', graph'))
      /\ \A n \in Overs : HasKey(jobs', n) => HasKey(jobs, n)
      /\ \A n \in Overs : HasKey(jobs, n) => HasKey(jobs', n)
  <2>1. Head(jobs).what = "chain" /\ \A n \in Overs : Job("key", n).what = "key"
    BY <1>0, JobTypes DEF Idle
  <2>2. QED
    BY <1>0, <2>1, Took
<1>2. Numbered'
  BY <1>0 DEF Owner, Numbered, Streaming, Fresh
<1>3. Apart'
  BY <1>0, <1>1 DEF OwnerTypes, Owner, Apart, Streams
<1>4. HandedOver' /\ Seated' /\ Chained'
  BY <1>0, <1>1, WorldStays DEF Chained, Owner, HandedOver, Seated, Streaming, Graphed
<1>5. Reached'
  BY <1>0, <1>1 DEF Owner, Reached, InHand, Streaming, Fresh
<1>6. QED
  BY <1>2, <1>3, <1>4, <1>5 DEF Owner

(* A stream taken: onto the sink, next after the one there, or kept for a  *)
(* chain.  One that was kept before has been let go of.                    *)
LEMMA KeyJobOwner ==
  ASSUME OwnerTypes, Owner, Solo, world' = world, KeyJob
  PROVE  Owner'
<1> USE Names DEF loop, handle, driver
<1> DEFINE n == Head(jobs).over
<1>0. /\ UNCHANGED <<made, rf, pend, built, graph>>
      /\ Idle("key") /\ jobs' = Tail(jobs) /\ txpc = "idle"
      /\ graph \in BOOLEAN /\ sink \in Streams /\ waiting \in Streams
      /\ next = Nobody /\ pend \in Streams
  BY DEF OwnerTypes, KeyJob, HandBack, Idle, Owner, HandedOver
<1>1. /\ KeysOnce(jobs')
      /\ ~Fails => ChainFirst(jobs', graph) /\ (built => ChainAfter(jobs', graph))
      /\ Fails \/ graph
      /\ n \in Overs /\ HasKey(jobs, n)
      /\ \A m \in Overs : HasKey(jobs', m) <=> HasKey(jobs, m) /\ m # n
  <2>1. /\ KeysOnce(jobs')
        /\ ~Fails => ChainFirst(jobs', graph) /\ (built => ChainAfter(jobs', graph))
        /\ Fails \/ graph
        /\ n \in Overs /\ HasKey(jobs, n) /\ Head(jobs) = Job("key", n)
        /\ \A m \in Overs : HasKey(jobs', m) <=> HasKey(jobs, m) /\ Head(jobs) # Job("key", m)
    BY <1>0, Took
  <2>2. \A m \in Overs : Job("key", m).over = m
    BY JobTypes
  <2>3. QED
    BY <2>1, <2>2
<1>2. \/ /\ ~graph /\ waiting' = n /\ UNCHANGED <<st, sink, next, txpc>>
      \/ /\ graph /\ sink = Nobody /\ sink' = n /\ UNCHANGED <<st, waiting, next, txpc>>
      \/ /\ graph /\ sink # Nobody /\ next' = n /\ txpc' = "attach"
         /\ st' = [st EXCEPT ![sink] = "ending"] /\ UNCHANGED <<waiting, sink>>
  BY DEF KeyJob, HandBack
<1>3. ~graph => sink = Nobody /\ (waiting # Nobody => ~Streaming(waiting) /\ waiting # n)
  <2>1. ASSUME ~graph PROVE sink = Nobody
    BY <2>1 DEF Owner, Seated
  <2>2. ASSUME ~graph, waiting # Nobody PROVE ~Streaming(waiting) /\ waiting # n
    <3>1. waiting \in Overs /\ waiting # n
      BY <1>0, <1>1, <2>2 DEF Streams, Owner, Apart
    <3>2. st[n] = "live" /\ (st[waiting] = "live" => claim = waiting) /\ claim = n
          /\ st[waiting] # "dead"
      BY <1>1, <2>2, <3>1 DEF Solo, Owner, Seated
    <3>3. QED
      BY <3>1, <3>2 DEF Streaming
  <2>3. QED
    BY <2>1, <2>2
<1> HIDE DEF n
<1>4. \A m \in Overs : /\ st'[m] \in {"live", "dead"} => Streaming(m)
                       /\ graph /\ sink # Nobody /\ m = sink => ~(st'[m] \in {"live", "dead"})
  BY <1>2 DEF OwnerTypes, Streaming
<1>5. Numbered'
  BY <1>0, <1>2, <1>4 DEF OwnerTypes, Owner, Numbered, Streaming, Fresh, Reached, InHand
<1>6. Apart'
  BY <1>0, <1>1, <1>2, <1>3 DEF Owner, Apart, Streams
<1>7. HandedOver'
  BY <1>0, <1>1, <1>2, <1>3, <1>4 DEF Owner, HandedOver, Seated, Streaming, Streams
<1>8. Seated' /\ Chained'
  BY <1>0, <1>1, <1>2, <1>3, WorldStays DEF Chained, Owner, Seated, Graphed
<1>9. Reached'
  BY <1>0, <1>1, <1>2, <1>3, <1>4 DEF Owner, Reached, InHand, Streaming, Fresh
<1>10. QED
  BY <1>5, <1>6, <1>7, <1>8, <1>9 DEF Owner

(* The old stream is back, the new one goes on the sink. *)
LEMMA AttachedOwner ==
  ASSUME OwnerTypes, Owner, world' = world, Attached
  PROVE  Owner'
<1> USE Names DEF loop, handle, readings, driver
<1>0. /\ UNCHANGED <<made, rf, st, pend, built, graph, jobs, waiting>>
      /\ sink' = next /\ next' = Nobody /\ txpc' = "idle" /\ txpc = "attach"
      /\ sink \in Streams /\ next \in Streams /\ waiting \in Streams
      /\ sink # Nobody => ~Streaming(sink)
  BY DEF OwnerTypes, Attached, Owner, HandedOver
<1>2. Numbered'
  BY <1>0 DEF Owner, Numbered, Streaming, Fresh
<1>3. Apart'
  BY <1>0 DEF Owner, Apart
<1>4. HandedOver' /\ Seated' /\ Chained'
  BY <1>0, WorldStays DEF Chained, Owner, HandedOver, Seated, Graphed
<1>5. Reached'
  BY <1>0 DEF Owner, Reached, InHand, Streaming, Fresh
<1>6. QED
  BY <1>2, <1>3, <1>4, <1>5 DEF Owner

(* Unkey and Drop hand back the stream on the sink, or the one that waits. *)
LEMMA LetGoOwner ==
  ASSUME OwnerTypes, Owner, world' = world, NEW what \in {"unkey", "drop"}, LetGo(what)
  PROVE  Owner'
<1> USE Names DEF loop, handle, readings, driver
<1>0. /\ UNCHANGED <<made, rf, pend, built, graph, sink, next, waiting>>
      /\ Idle(what) /\ jobs' = Tail(jobs) /\ txpc = "idle" /\ txpc' = what
      /\ next = Nobody
      /\ graph \in BOOLEAN /\ sink \in Streams /\ waiting \in Streams
      /\ \/ sink # Nobody /\ waiting = Nobody /\ st' = [st EXCEPT ![sink] = "ending"]
         \/ sink = Nobody /\ waiting # Nobody /\ st' = [st EXCEPT ![waiting] = "ending"]
         \/ sink = Nobody /\ waiting = Nobody /\ st' = st
  BY DEF OwnerTypes, LetGo, HandBack, Idle, Owner, Seated, HandedOver
<1>1. /\ KeysOnce(jobs')
      /\ ~Fails => ChainFirst(jobs', Graphed') /\ (built => ChainAfter(jobs', Graphed'))
      /\ \A n \in Overs : HasKey(jobs', n) <=> HasKey(jobs, n)
  <2>1. Head(jobs).what = what /\ \A n \in Overs : Job("key", n).what = "key"
    BY <1>0, JobTypes DEF Idle
  <2> DEFINE h == Graphed'
  <2>2. h \in BOOLEAN /\ (what = "unkey" => (graph => h))
    BY <1>0 DEF Graphed
  <2> HIDE DEF h
  <2>3. /\ KeysOnce(jobs')
        /\ ~Fails => ChainFirst(jobs', h) /\ (built => ChainAfter(jobs', h))
        /\ \A n \in Overs : HasKey(jobs', n) <=> HasKey(jobs, n) /\ Head(jobs) # Job("key", n)
    BY <1>0, <2>2, Took
  <2>4. QED
    BY <2>1, <2>3 DEF h
<1>4. \A m \in Overs : /\ st'[m] \in {"live", "dead"} => Streaming(m)
                       /\ sink # Nobody /\ m = sink => ~(st'[m] \in {"live", "dead"})
                       /\ waiting # Nobody /\ m = waiting => ~(st'[m] \in {"live", "dead"})
  BY <1>0 DEF OwnerTypes, Streaming
<1>5. Numbered'
  BY <1>0, <1>4 DEF OwnerTypes, Owner, Numbered, Streaming, Fresh, Reached, InHand
<1>6. Apart'
  BY <1>0, <1>1 DEF OwnerTypes, Owner, Apart, Streams
<1>7. HandedOver'
  BY <1>0, <1>4 DEF Owner, HandedOver, Streaming, Streams
<1>8. Seated' /\ Chained'
  BY <1>0, <1>1, WorldStays DEF Chained, Owner, Seated, Graphed
<1>9. Reached'
  BY <1>0, <1>1, <1>4 DEF Owner, Reached, InHand, Streaming, Fresh
<1>10. QED
  BY <1>5, <1>6, <1>7, <1>8, <1>9 DEF Owner

(* Once it is back no stream is left there. *)
LEMMA UnkeyedOwner ==
  ASSUME OwnerTypes, Owner, world' = world, Unkeyed
  PROVE  Owner'
<1> USE Names DEF loop, handle, driver
<1>0. /\ UNCHANGED <<made, rf, st, pend, built, jobs, next>>
      /\ sink' = Nobody /\ waiting' = Nobody /\ txpc \in {"unkey", "drop"} /\ txpc' = "idle"
      /\ next = Nobody
      /\ sink # Nobody => ~Streaming(sink)
      /\ waiting # Nobody => ~Streaming(waiting)
  BY DEF OwnerTypes, Unkeyed, Owner, HandedOver
<1>1. Graphed' = Graphed
  BY DEF Unkeyed, Graphed, OwnerTypes
<1>2. Numbered'
  BY <1>0 DEF Owner, Numbered, Streaming, Fresh
<1>3. Apart'
  BY <1>0 DEF Owner, Apart
<1>4. HandedOver' /\ Seated' /\ Chained'
  BY <1>0, <1>1, WorldStays DEF Chained, Owner, HandedOver, Seated
<1>5. Reached'
  BY <1>0 DEF Owner, Reached, InHand, Streaming, Fresh
<1>6. QED
  BY <1>2, <1>3, <1>4, <1>5 DEF Owner

(* A sink refused too often hands its stream back, and so does one whose   *)
(* chain has failed, if it has one.                                        *)
LEMMA GiveUpOwner ==
  ASSUME OwnerTypes, Owner, world' = world, GiveUp \/ ChainFails
  PROVE  Owner'
<1> USE Names DEF loop, handle, readings, driver
<1>0. /\ UNCHANGED <<made, rf, pend, built, jobs, sink, next, waiting, graph>>
      /\ txpc = "idle" /\ txpc' \in {"lost", "fail"} /\ next = Nobody
      /\ graph /\ waiting = Nobody /\ sink \in Streams
      /\ \/ sink # Nobody /\ st' = [st EXCEPT ![sink] = "ending"]
         \/ sink = Nobody /\ st' = st
  BY DEF OwnerTypes, GiveUp, ChainFails, HandBack, Owner, HandedOver, Seated, Streams
<1>4. \A m \in Overs : st'[m] = IF m = sink THEN "ending" ELSE st[m]
  BY <1>0 DEF OwnerTypes
<1>5. Numbered'
  BY <1>0, <1>4 DEF OwnerTypes, Owner, Numbered, Streaming, Fresh, Reached, InHand
<1>6. Apart' /\ Seated' /\ Chained'
  BY <1>0, WorldStays DEF Chained, Owner, Apart, Seated, Graphed
<1>7. HandedOver'
  BY <1>0, <1>4 DEF Owner, HandedOver, Streaming, Streams
<1>8. Reached'
  BY <1>0, <1>4 DEF Owner, Reached, InHand, Streaming, Fresh
<1>9. QED
  BY <1>5, <1>6, <1>7, <1>8 DEF Owner

(* Once it is back the sink is empty, or gone with its chain. *)
LEMMA GivenUpOwner ==
  ASSUME OwnerTypes, Owner, Excused, world' = world, GivenUp \/ ChainGone
  PROVE  Owner'
<1> USE Names DEF loop, handle, driver
<1>0. /\ UNCHANGED <<made, rf, st, pend, built, jobs, next, waiting>>
      /\ sink' = Nobody /\ txpc \in {"lost", "fail"} /\ txpc' = "idle"
      /\ next = Nobody
      /\ \/ graph' = graph
         \/ Fails /\ graph' = FALSE
      /\ sink # Nobody => ~Streaming(sink)
  BY DEF OwnerTypes, GivenUp, ChainGone, Owner, HandedOver, Excused
<1>2. Numbered'
  BY <1>0 DEF Owner, Numbered, Streaming, Fresh
<1>3. Apart'
  BY <1>0 DEF Owner, Apart
<1>4. HandedOver' /\ Seated' /\ Chained'
  BY <1>0, WorldStays DEF Chained, Owner, HandedOver, Seated, Graphed
<1>5. Reached'
  BY <1>0 DEF Owner, Reached, InHand, Streaming, Fresh
<1>6. QED
  BY <1>2, <1>3, <1>4, <1>5 DEF Owner

-----------------------------------------------------------------------------
Starting == rf \in {"open", "writer", "tune", "keyed"}

(* The lamp, the key and what waits for a rebuild, everywhere in the loop: *)
(* the key goes up after the chain is let go of, and a stream waits only   *)
(* for the rebuild of the block it was keyed in.                           *)
Before == {"cmds", "retune", "rebuild", "stopped"}
Announced ==
  /\ Starting => phase = "cmds" /\ down
  /\ keyingFor => pend # Nobody
  /\ pend # Nobody => rebuild /\ phase \in Before
  /\ ~Breaks /\ status => armed /\ built
  /\ ~Eager => /\ pend # Nobody => keyingFor /\ down
               /\ armed => status /\ (down \/ ending)
               /\ ending => ~down

(* A step that touches none of it. *)
LEMMA AnnouncedKept ==
  ASSUME Announced, world' = world,
         UNCHANGED <<down, keyingFor, pend, status, armed, built, ending>>,
         Starting' => Starting,
         rebuild' = rebuild \/ rebuild' = TRUE,
         phase' = phase \/ ~Starting,
         pend # Nobody => phase' \in Before
  PROVE  Announced'
  BY WorldStays DEF Announced

(* The key let up. *)
LEMMA KeyUpAnnounced ==
  ASSUME TypeOK, Announced, world' = world, KeyUp
  PROVE  Announced'
<1> USE WorldStays DEF driver, worker
<1>1. Starting' = Starting /\ ~Starting
  BY DEF Starting, KeyUp
<1>2. /\ UNCHANGED <<phase, rebuild, pend, built>>
      /\ down' = FALSE /\ keyingFor' = FALSE
      /\ Eager \/ ~keyingFor
      /\ \/ ending' = ending /\ armed' = armed /\ status' = status /\ (ending \/ NotKeyed)
         \/ armed /\ built /\ ending' = TRUE /\ armed' = armed /\ status' = status
         \/ ending' = FALSE /\ NotKeyed /\ armed' = armed /\ status' = status
         \/ ending' = FALSE /\ armed' = FALSE /\ status' = FALSE
  BY DEF KeyUp, UnkeyNow
<1>3. QED
  BY <1>1, <1>2 DEF Announced, NotKeyed

(* The key put down. *)
LEMMA KeyDownAnnounced ==
  ASSUME TypeOK, Announced, world' = world, NEW mic \in BOOLEAN, KeyDown(mic)
  PROVE  Announced'
<1> USE WorldStays
<1>1. /\ UNCHANGED <<phase, rebuild, pend, built, armed, status, keyingFor>>
      /\ down' = TRUE /\ phase = "cmds"
  BY DEF KeyDown, handle
<1>4. Eager \/ (~status /\ ~keyed)
  BY DEF KeyDown, Settled
<1>5. /\ keyed => ending' = ending
      /\ ~keyed => ending' = FALSE
  BY DEF KeyDown
<1>2. ~Eager => ~armed /\ ~ending'
  <2>1. ASSUME ~Eager PROVE ~status /\ ~keyed
    BY <1>4, <2>1
  <2>2. ASSUME ~Eager PROVE ~armed
    BY <2>1, <2>2 DEF Announced
  <2>3. QED
    BY <1>5, <2>1, <2>2
<1>3. QED
  BY <1>1, <1>2, <1>5 DEF Announced

(* unkey_now, from finish_over or for a lost radio. *)
LEMMA UnkeyAnnounced ==
  ASSUME TypeOK, Announced, world' = world, UnkeyNow, keyingFor' = FALSE,
         phase \in {"vox", "lost"}, ~Starting',
         UNCHANGED <<down, rebuild, pend, built>>
  PROVE  Announced'
<1> USE WorldStays
<1>1. /\ pend = Nobody /\ ending' = FALSE
      /\ \/ NotKeyed /\ armed' = armed /\ status' = status
         \/ armed' = FALSE /\ status' = FALSE
  BY DEF UnkeyNow, Announced, Before
<1>2. QED
  BY <1>1 DEF Announced, NotKeyed

(* The stream goes on the chain running. *)
LEMMA KeySameAnnounced ==
  ASSUME TypeOK, Announced, world' = world, KeySame
  PROVE  Announced'
<1> USE WorldStays
<1>1. /\ UNCHANGED <<phase, rebuild, pend, built, keyingFor, down, ending>>
      /\ armed' = TRUE /\ status' = TRUE /\ built /\ ~Starting' /\ Starting
  BY DEF KeySame, Starting
<1>2. QED
  BY <1>1 DEF Announced

(* The stream waits for the rebuild. *)
LEMMA KeyForRebuildAnnounced ==
  ASSUME Numbered, Announced, world' = world, KeyForRebuild
  PROVE  Announced'
<1> USE WorldStays
<1>1. /\ UNCHANGED <<phase, built, armed, status, down, ending>>
      /\ rebuild' = TRUE /\ keyingFor' = TRUE /\ pend' = made /\ ~Starting' /\ Starting
      /\ made # Nobody
  <2>1. made # Nobody
    BY Names DEF KeyForRebuild, Numbered, Streaming, Fresh
  <2>2. QED
    BY <2>1 DEF KeyForRebuild, Starting, handle
<1>2. QED
  BY <1>1 DEF Announced, Before

(* The rebuild, whether the chain builds or not. *)
LEMMA RebuildAnnounced ==
  ASSUME TypeOK, Announced, world' = world, Rebuild \/ RebuildBreaks
  PROVE  Announced'
<1> USE WorldStays DEF driver
<1>0. ~Starting /\ ~Starting' /\ UNCHANGED down /\ pend' = Nobody /\ keyingFor' = FALSE
  BY DEF Rebuild, RebuildBreaks, HandBack, Starting, Announced
<1>1. CASE Rebuild
  <2>1. /\ built' = TRUE /\ ending' = ending
        /\ armed' = (armed \/ pend # Nobody) /\ status' = (status \/ keyingFor)
    BY <1>1 DEF Rebuild
  <2>2. QED
    BY <1>0, <2>1 DEF Announced
<1>2. CASE RebuildBreaks
  <2>1. /\ Breaks /\ armed' = FALSE
        /\ ending' = FALSE \/ ending' = ending
    BY <1>2 DEF RebuildBreaks
  <2>2. QED
    BY <1>0, <2>1 DEF Announced
<1>3. QED
  BY <1>1, <1>2

-----------------------------------------------------------------------------
(* Types.                                                                  *)
Bits ==
  /\ down \in BOOLEAN /\ rebuild \in BOOLEAN /\ keyingFor \in BOOLEAN /\ ending \in BOOLEAN
  /\ b2r \in BOOLEAN /\ status \in BOOLEAN /\ armed \in BOOLEAN /\ built \in BOOLEAN
  /\ keyed \in BOOLEAN /\ draining \in BOOLEAN /\ lost \in BOOLEAN
  /\ graph \in BOOLEAN /\ refused \in BOOLEAN
Whereabouts ==
  /\ phase \in {"cmds", "retune", "rebuild", "read", "vox", "home", "lost", "stopped"}
  /\ wantC \in Freqs /\ plan \in Dials
  /\ pend \in Streams /\ waiting \in Streams /\ sink \in Streams /\ next \in Streams
  /\ txpc \in {"idle", "attach", "unkey", "drop", "lost", "fail"}
AppTypeOK == Bits /\ Whereabouts /\ jobs \in Seq(Jobs)

(* The types of the driver and those of the threads above it. *)
LEMMA TypesSplit == TypeOK <=> DriverTypeOK /\ AppTypeOK
  BY DEF TypeOK, AppTypeOK, Bits, Whereabouts, Jobs

(* The same after a step. *)
LEMMA TypesSplitNext == TypeOK' <=> DriverTypeOK' /\ AppTypeOK'
  BY DEF TypeOK, AppTypeOK, Bits, Whereabouts, Jobs

(* A step that leaves the driver alone. *)
LEMMA DriverUntouched ==
  ASSUME DriverTypeOK, UNCHANGED driver, world' = world
  PROVE  DriverTypeOK'
  BY DEF DriverTypeOK, driver

(* A step that only moves the dial. *)
LEMMA TunedTypes ==
  ASSUME DriverTypeOK, world' = world,
         UNCHANGED <<rx, tx, silent, claim, attempts, made, st, restore, rf, was, hb>>,
         UNCHANGED <<tuned, center, want>> \/ \E f \in Freqs : TuneTo(f)
  PROVE  DriverTypeOK'
  BY DEF DriverTypeOK, TuneTo

(* The driver's part of each step of the over. *)
LEMMA OverDriverTypes ==
  ASSUME TypeOK, Numbered, Next, world' = world
  PROVE  DriverTypeOK'
<1>0. DriverTypeOK /\ AppTypeOK /\ Counted
  BY TypesSplit DEF Numbered, Counted, Fresh
<1>1. CASE StartTxStep \/ Board \/ \E t \in Threads : HandingBack(t)
  <2>1. DriverStep
    BY <1>1 DEF StartTxStep, StartingTx, Board, DriverStep
  <2>2. QED
    BY <1>0, <2>1, StepTypes
<1>2. CASE Refused \/ KeySame \/ KeyForRebuild
  <2>1. Returned
    BY <1>2 DEF Refused, KeySame, KeyForRebuild, Returned, shared
  <2>2. DriverStep
    BY <2>1 DEF DriverStep
  <2>3. QED
    BY <1>0, <2>2, StepTypes
<1>3. CASE Read
  <2>1. DriverStep \/ UNCHANGED driver
    BY <1>3 DEF Read, DriverStep, Reading
  <2>2. QED
    BY <1>0, <2>1, StepTypes, DriverUntouched
<1>4. CASE RebuildBreaks \/ KeyJob \/ LetGo("unkey") \/ LetGo("drop") \/ GiveUp \/ ChainFails
  <2>1. UNCHANGED driver \/ \E t \in Threads, n \in Overs : HandBack(t, n)
    <3>1. \A n \in Streams : n # Nobody => n \in Overs
      BY DEF Streams
    <3>2. CASE RebuildBreaks
      BY <1>0, <3>1, <3>2 DEF RebuildBreaks, AppTypeOK, Whereabouts, Threads
    <3>3. CASE KeyJob
      BY <1>0, <3>1, <3>3 DEF KeyJob, AppTypeOK, Whereabouts, Threads, driver
    <3>4. CASE LetGo("unkey") \/ LetGo("drop")
      BY <1>0, <3>1, <3>4 DEF LetGo, AppTypeOK, Whereabouts, Threads
    <3>5. CASE GiveUp \/ ChainFails
      BY <1>0, <3>1, <3>5 DEF GiveUp, ChainFails, AppTypeOK, Whereabouts, Threads
    <3>6. QED
      BY <1>4, <3>2, <3>3, <3>4, <3>5
  <2>2. QED
    BY <1>0, <2>1, StepTypes, DriverUntouched DEF DriverStep
<1>5. CASE Retune \/ BackToReceive
  <2>1. wantC \in Freqs /\ plan \in Freqs
    BY <1>0 DEF AppTypeOK, Whereabouts, Dials
  <2>2. QED
    BY <1>0, <1>5, <2>1, TunedTypes DEF Retune, BackToReceive
<1>6. ASSUME NEW mic \in BOOLEAN, KeyDown(mic) PROVE DriverTypeOK'
  <2>1. CASE keyed
    BY <1>0, <1>6, <2>1, DriverUntouched DEF KeyDown
  <2>2. CASE ~keyed
    <3>1. KeyStarts(mic) /\ Air \in Freqs
      BY <1>6, <2>2, OverAssumption DEF KeyDown
    <3>2. CASE UNCHANGED driver
      BY <1>0, <3>2, DriverUntouched
    <3>3. CASE ~(UNCHANGED driver)
      <4>1. tuned' \in Freqs /\ center' \in Freqs /\ want' \in Freqs
        BY <1>0, <3>1, <3>3 DEF KeyStarts, Retuned, TuneTo, DriverTypeOK
      <4>2. /\ rx' \in {"none", "live", "flat", "mute", "dead"} /\ silent' \in BOOLEAN /\ was' \in BOOLEAN
            /\ claim' \in Overs \cup {Nobody, Reader}
            /\ rf' \in {"idle", "open", "writer", "tune", "keyed", "refused", "revive", "lost"}
            /\ UNCHANGED <<tx, attempts, made, st, restore, hb>>
        BY <1>0, <3>1, <3>3 DEF KeyStarts, TakeReader, Release, DriverTypeOK
      <4>3. QED
        BY <1>0, <4>1, <4>2 DEF DriverTypeOK
    <3>4. QED
      BY <3>2, <3>3
  <2>3. QED
    BY <2>1, <2>2
<1>7. CASE \/ KeyUp \/ (\E f \in Choices : Center(f)) \/ Edit \/ CommandsDone \/ NoRetune
           \/ Rebuild \/ NoRebuild \/ FinishOver \/ StillEnding \/ LostCheck
           \/ ChainJob \/ Attached \/ Unkeyed \/ StillRefused \/ GivenUp \/ ChainGone
  <2>1. UNCHANGED driver
    BY <1>7 DEF KeyUp, Center, Edit, CommandsDone, NoRetune, Rebuild, NoRebuild, FinishOver,
                StillEnding, LostCheck, ChainJob, Attached, Unkeyed, StillRefused, GivenUp,
                ChainGone
  <2>2. QED
    BY <1>0, <2>1, DriverUntouched
<1>8. QED
  BY <1>1, <1>2, <1>3, <1>4, <1>5, <1>6, <1>7
     DEF Next, RadioThread, TransmitThread, Operator, TakesJob, Finishes, Threads

(* The steps, in groups that leave different things alone. *)
LEMMA Steps ==
  ASSUME Next
  PROVE  \/ StartTxStep \/ Refused \/ (HandingBack("rf") /\ UNCHANGED app)
         \/ KeySame \/ KeyForRebuild \/ CommandsDone \/ NoRetune \/ Retune \/ Rebuild
         \/ RebuildBreaks \/ NoRebuild \/ Read \/ FinishOver \/ StillEnding \/ BackToReceive
         \/ LostCheck \/ KeyUp \/ (\E mic \in BOOLEAN : KeyDown(mic))
         \/ (\E f \in Choices : Center(f)) \/ Edit
         \/ ChainJob \/ KeyJob \/ LetGo("unkey") \/ LetGo("drop")
         \/ Attached \/ Unkeyed \/ GivenUp \/ (HandingBack("tx") /\ UNCHANGED app)
         \/ GiveUp \/ StillRefused \/ ChainFails \/ ChainGone \/ Board
  BY DEF Next, RadioThread, TransmitThread, Operator, TakesJob, Finishes

(* Only the transmit thread moves its own place. *)
LEMMA TransmitStays ==
  ASSUME Next, ~TransmitThread
  PROVE  txpc' = txpc
<1>1. CASE RadioThread
  BY <1>1 DEF RadioThread, StartTxStep, Refused, KeySame, KeyForRebuild, CommandsDone, NoRetune,
     Retune, Rebuild, RebuildBreaks, NoRebuild, Read, FinishOver, StillEnding, BackToReceive,
     LostCheck, app, worker
<1>2. CASE Operator
  BY <1>2 DEF Operator, KeyUp, KeyDown, Center, Edit, worker
<1>3. CASE Board
  BY <1>3 DEF Board, app, worker
<1>4. QED
  BY <1>1, <1>2, <1>3 DEF Next

(* Every step keeps the Booleans. *)
LEMMA BitsKept ==
  ASSUME Bits, Next
  PROVE  Bits'
<1> USE DEF loop, handle, readings, worker, Bits
<1>1. CASE StartTxStep \/ Refused \/ Board \/ \E t \in Threads : HandingBack(t) /\ UNCHANGED app
  BY <1>1 DEF StartTxStep, Refused, Board, app
<1>2. CASE KeySame
  BY <1>2 DEF KeySame
<1>3. CASE KeyForRebuild
  BY <1>3 DEF KeyForRebuild
<1>4. CASE Retune
  <2>1. UNCHANGED <<down, keyingFor, ending, b2r, status, armed, built,
                  keyed, draining, lost, graph, refused>>
    BY <1>4 DEF Retune
  <2>2. rebuild' \in BOOLEAN
    BY <1>4 DEF Retune
  <2>3. QED
    BY <2>1, <2>2
<1>5. CASE Read
  <2>1. UNCHANGED <<down, rebuild, keyingFor, ending, b2r, status, armed,
                  built, keyed, draining, lost, graph, refused>>
    BY <1>5 DEF Read
  <2>2. QED
    BY <2>1
<1>6. CASE BackToReceive
  <2>1. UNCHANGED <<down, rebuild, keyingFor, ending, status, armed, built,
                    keyed, draining, lost, graph, refused>>
    BY <1>6 DEF BackToReceive
  <2>2. b2r' \in BOOLEAN
    BY <1>6 DEF BackToReceive
  <2>3. QED
    BY <2>1, <2>2
<1>7. CASE Rebuild
  BY <1>7 DEF Rebuild
<1>8. CASE RebuildBreaks
  BY <1>8 DEF RebuildBreaks
<1>9. CASE FinishOver
  BY <1>9 DEF FinishOver, UnkeyNow
<1>10. CASE LostCheck
  <2>1. UNCHANGED <<down, rebuild, built, graph, refused>>
    BY <1>10 DEF LostCheck, UnkeyNow
  <2>2. /\ keyingFor' \in BOOLEAN /\ ending' \in BOOLEAN /\ armed' \in BOOLEAN
        /\ keyed' \in BOOLEAN /\ draining' \in BOOLEAN /\ status' \in BOOLEAN
        /\ b2r' \in BOOLEAN /\ lost' \in BOOLEAN
    BY <1>10 DEF LostCheck, UnkeyNow
  <2>3. QED
    BY <2>1, <2>2
<1>11. CASE KeyUp
  BY <1>11 DEF KeyUp, UnkeyNow
<1>12. CASE ChainJob
  BY <1>12 DEF ChainJob
<1>13. CASE KeyJob
  BY <1>13 DEF KeyJob
<1>14. CASE Attached
  BY <1>14 DEF Attached
<1>15. CASE Unkeyed
  BY <1>15 DEF Unkeyed
<1>16. CASE GivenUp
  BY <1>16 DEF GivenUp
<1>23. CASE ChainGone
  BY <1>23 DEF ChainGone
<1>17. CASE GiveUp
  BY <1>17 DEF GiveUp
<1>24. CASE ChainFails
  BY <1>24 DEF ChainFails
<1>18. CASE StillRefused
  BY <1>18 DEF StillRefused
<1>19. CASE CommandsDone \/ NoRetune \/ NoRebuild \/ StillEnding
  BY <1>19 DEF CommandsDone, NoRetune, NoRebuild, StillEnding
<1>20. CASE Edit \/ \E f \in Choices : Center(f)
  <2>1. UNCHANGED <<down, keyingFor, ending, b2r, status, armed, built,
                  keyed, draining, lost, graph, refused>>
    BY <1>20 DEF Edit, Center
  <2>2. rebuild' \in BOOLEAN
    BY <1>20 DEF Edit, Center
  <2>3. QED
    BY <2>1, <2>2
<1>21. CASE \E mic \in BOOLEAN : KeyDown(mic)
  BY <1>21 DEF KeyDown
<1>22. CASE LetGo("unkey") \/ LetGo("drop")
  BY <1>22 DEF LetGo
<1> HIDE DEF Bits
<1>25. QED
  BY <1>1, <1>2, <1>3, <1>4, <1>5, <1>6, <1>7, <1>8, <1>9, <1>10, <1>11, <1>12, <1>13,
     <1>14, <1>15, <1>16, <1>17, <1>18, <1>19, <1>20, <1>21, <1>22, <1>23, <1>24, Steps DEF Threads

(* Every step keeps a queue of jobs. *)
LEMMA QueueKept ==
  ASSUME jobs \in Seq(Jobs), Next, Numbered, pend \in Streams
  PROVE  jobs' \in Seq(Jobs)
<1> USE DEF loop, handle, readings, worker
<1>0. /\ \A what \in {"chain", "unkey", "drop"} : Job(what, Nobody) \in Jobs
      /\ \A n \in Streams : Job("key", n) \in Jobs
  BY DEF Job, Jobs, Streams
<1>1. CASE \/ StartTxStep \/ Refused \/ Board \/ (\E t \in Threads : HandingBack(t) /\ UNCHANGED app)
           \/ KeyForRebuild \/ CommandsDone \/ NoRetune \/ Retune \/ NoRebuild
           \/ Read \/ StillEnding \/ BackToReceive \/ Edit \/ (\E f \in Choices : Center(f))
           \/ (\E mic \in BOOLEAN : KeyDown(mic))
           \/ Attached \/ Unkeyed \/ GivenUp \/ GiveUp \/ StillRefused \/ ChainFails \/ ChainGone
  <2>1. jobs' = jobs
    BY <1>1 DEF StartTxStep, Refused, Board, app, KeyForRebuild, CommandsDone, NoRetune, Retune,
                NoRebuild, Read, StillEnding, BackToReceive, Edit, Center, KeyDown,
                Attached, Unkeyed, GivenUp, GiveUp, StillRefused, ChainFails, ChainGone
  <2>2. QED
    BY <2>1
<1>2. CASE KeySame
  <2>1. made \in Streams /\ jobs' = Append(jobs, Job("key", made))
    BY <1>2 DEF KeySame, Numbered, Streaming, Fresh, Streams
  <2>2. QED
    BY <1>0, <2>1
<1>3. CASE Rebuild
  <2>1. PICK chain \in {<<>>, <<Job("chain", Nobody)>>} :
          jobs' = jobs \o chain \o (IF pend # Nobody THEN <<Job("key", pend)>> ELSE <<>>)
    BY <1>3 DEF Rebuild
  <2>2. /\ <<Job("chain", Nobody)>> \in Seq(Jobs)
        /\ <<Job("key", pend)>> \in Seq(Jobs)
        /\ <<>> \in Seq(Jobs)
    BY <1>0
  <2> DEFINE key == IF pend # Nobody THEN <<Job("key", pend)>> ELSE <<>>
  <2>3. chain \in Seq(Jobs) /\ key \in Seq(Jobs) /\ jobs' = jobs \o chain \o key
    BY <2>1, <2>2
  <2> HIDE DEF key
  <2>4. QED
    BY <2>3
<1>4. CASE RebuildBreaks
  <2> DEFINE left == IF built \/ armed THEN Append(jobs, Job("drop", Nobody)) ELSE jobs
  <2>1. left \in Seq(Jobs)
    BY <1>0
  <2>2. jobs' = Append(left, Job("unkey", Nobody)) \/ jobs' = left
    BY <1>4 DEF RebuildBreaks
  <2> HIDE DEF left
  <2>3. QED
    BY <1>0, <2>1, <2>2
<1>5. CASE FinishOver \/ LostCheck \/ KeyUp
  <2>1. jobs' = jobs \/ jobs' = Append(jobs, Job("unkey", Nobody))
    BY <1>5 DEF FinishOver, LostCheck, KeyUp, UnkeyNow
  <2>2. QED
    BY <1>0, <2>1
<1>6. CASE ChainJob \/ KeyJob \/ LetGo("unkey") \/ LetGo("drop")
  <2>1. jobs # <<>> /\ jobs' = Tail(jobs)
    BY <1>6 DEF ChainJob, KeyJob, LetGo, Idle
  <2>2. QED
    BY <2>1
<1>7. QED
  BY <1>1, <1>2, <1>3, <1>4, <1>5, <1>6, Steps DEF Threads

(* Every step keeps the rest of the types. *)
LEMMA PlacesKept ==
  ASSUME AppTypeOK, Next, Numbered
  PROVE  Whereabouts'
<1> USE DEF loop, handle, readings, worker, Whereabouts
<1>0. /\ Whereabouts /\ Nobody \in Streams
      /\ rf = "keyed" => made \in Streams
      /\ jobs # <<>> => Head(jobs).over \in Streams
      /\ wantC # Air => wantC \in Dials
      /\ Air \in Freqs
      /\ \A d \in Dials : d \in Freqs
  <2>1. jobs # <<>> => Head(jobs) \in Jobs
    BY DEF AppTypeOK
  <2>2. QED
    BY <2>1, OverAssumption DEF AppTypeOK, Streams, Numbered, Streaming, Fresh, Jobs, Dials
<1>1. CASE StartTxStep \/ Refused \/ Board \/ \E t \in Threads : HandingBack(t) /\ UNCHANGED app
  BY <1>0, <1>1 DEF StartTxStep, Refused, Board, app
<1>2. CASE \/ KeySame \/ KeyForRebuild \/ CommandsDone \/ NoRetune \/ Retune \/ NoRebuild
           \/ Read \/ StillEnding \/ BackToReceive \/ Edit
  BY <1>0, <1>2 DEF KeySame, KeyForRebuild, CommandsDone, NoRetune, Retune, NoRebuild, Read,
              StillEnding, BackToReceive, Edit
<1>3. CASE \E f \in Choices : Center(f)
  <2>1. (CHOOSE d \in Dials : TRUE) \in Dials
    BY OverAssumption DEF Dials
  <2>2. \A f \in Choices : f \in Freqs
    BY <1>0, <2>1 DEF Choices
  <2>3. QED
    BY <1>0, <1>3, <2>2 DEF Center
<1>4. CASE Rebuild \/ RebuildBreaks
  BY <1>0, <1>4 DEF Rebuild, RebuildBreaks
<1>5. CASE FinishOver \/ LostCheck \/ KeyUp
  BY <1>0, <1>5 DEF FinishOver, LostCheck, KeyUp, UnkeyNow
<1>6. CASE \E mic \in BOOLEAN : KeyDown(mic)
  BY <1>0, <1>6 DEF KeyDown
<1>7. CASE ChainJob \/ KeyJob \/ LetGo("unkey") \/ LetGo("drop")
  BY <1>0, <1>7 DEF ChainJob, KeyJob, LetGo, Idle
<1>8. CASE Attached \/ Unkeyed \/ GivenUp \/ GiveUp \/ StillRefused
  BY <1>0, <1>8 DEF Attached, Unkeyed, GivenUp, GiveUp, StillRefused
<1>9. CASE ChainFails \/ ChainGone
  BY <1>0, <1>9 DEF ChainFails, ChainGone
<1> HIDE DEF Whereabouts
<1>10. QED
  BY <1>1, <1>2, <1>3, <1>4, <1>5, <1>6, <1>7, <1>8, <1>9, Steps DEF Threads

(* Every step keeps the types. *)
LEMMA TypesKept ==
  ASSUME TypeOK, Numbered, Next, world' = world
  PROVE  TypeOK'
<1>1. AppTypeOK
  BY TypesSplit
<1>2. Bits' /\ jobs' \in Seq(Jobs) /\ Whereabouts'
  BY <1>1, BitsKept, QueueKept, PlacesKept DEF AppTypeOK, Whereabouts
<1>3. DriverTypeOK'
  BY OverDriverTypes
<1>4. AppTypeOK'
  BY <1>2 DEF AppTypeOK
<1>5. QED
  BY <1>3, <1>4, TypesSplitNext

-----------------------------------------------------------------------------
(* Together.                                                               *)
OInv == TypeOK /\ Owner /\ Announced /\ Excused /\ Solo /\ Lit

(* A read moves the reader and the watchdog, and no transmit stream. *)
LEMMA ReadMoves ==
  ASSUME Read
  PROVE  /\ UNCHANGED <<made, st, hb>>
         /\ claim' = claim \/ claim \notin Overs
         /\ rf' = rf \/ (rf \in {"idle", "revive"} /\ rf' \in {"idle", "revive", "lost"})
<1>1. CASE ReadBlock \/ UNCHANGED driver
  BY <1>1 DEF ReadBlock, driver, shared
<1>2. CASE ReadFlat \/ ReadNothing
  BY <1>2, Names DEF ReadFlat, ReadNothing, Release
<1>3. CASE Revive
  BY <1>3, Names DEF Revive
<1>4. QED
  BY <1>1, <1>2, <1>3 DEF Read

(* A hand back that goes on, and the board, only ever end streams. *)
LEMMA DriverOwner ==
  ASSUME TypeOK, Owner, UNCHANGED app, world' = world,
         Board \/ \E t \in Threads : HandingBack(t)
  PROVE  Owner'
<1>0. /\ st \in [Overs -> {"unmade", "live", "dead", "ending", "gone"}]
      /\ OwnerTypes
  BY TypesForOwner DEF OwnerTypes
<1>1. rf' = rf /\ made' = made
  BY DEF Board, ReaderDies, WriterDies, HandingBack, HbClose, HbWant, HbReopen, HbSlot, HbUnsilence,
         shared
<1>2. \A n \in Overs : st'[n] \in {"live", "dead"} => Streaming(n)
  <2>1. CASE Board
    BY <1>0, <2>1 DEF Board, ReaderDies, WriterDies, Streaming
  <2>2. ASSUME NEW t \in Threads, HandingBack(t)
        PROVE  \A n \in Overs : st'[n] \in {"live", "dead"} => Streaming(n)
    <3>1. CASE HbClose(t)
      BY <1>0, <3>1 DEF HbClose, Streaming
    <3>2. CASE ~HbClose(t)
      <4>1. st' = st
        BY <2>2, <3>2 DEF HandingBack, HbWant, HbReopen, HbSlot, HbUnsilence
      <4>2. QED
        BY <4>1 DEF Streaming
    <3>3. QED
      BY <3>1, <3>2
  <2>3. QED
    BY <2>1, <2>2
<1>3. QED
  BY <1>0, <1>1, <1>2, OwnerKept DEF app, loop, handle, worker

(* Steps that move no stream. *)
LEMMA LoopOwner ==
  ASSUME TypeOK, Owner, world' = world,
         \/ KeyUp \/ (\E mic \in BOOLEAN : KeyDown(mic)) \/ Refused
         \/ (\E f \in Choices : Center(f)) \/ Edit \/ CommandsDone \/ NoRetune \/ Retune
         \/ NoRebuild \/ Read \/ FinishOver \/ StillEnding \/ BackToReceive \/ LostCheck
         \/ StillRefused
  PROVE  Owner'
<1>0. OwnerTypes
  BY TypesForOwner
<1>1. UNCHANGED <<made, pend, sink, next, waiting, txpc, graph, built, st>>
  <2>1. CASE Read
    BY <2>1, ReadMoves DEF Read, loop, handle, worker
  <2>2. CASE ~Read
    BY <2>2 DEF KeyUp, KeyDown, KeyStarts, Refused, Center, Edit, CommandsDone, NoRetune, Retune,
         NoRebuild, FinishOver, StillEnding, BackToReceive,
         LostCheck, StillRefused, shared, app, driver, loop, handle, readings, worker
  <2>3. QED
    BY <2>1, <2>2
<1>2. jobs' = jobs \/ jobs' = Append(jobs, Unkey)
  BY DEF KeyUp, KeyDown, Refused, Center, Edit, CommandsDone, NoRetune, Retune,
         NoRebuild, Read, FinishOver, StillEnding, BackToReceive, UnkeyNow, Unkey,
         LostCheck, StillRefused, app
<1>3. rf' = rf \/ (~Fresh /\ ~Fresh' /\ (rf' = "open" => made < MaxOvers))
  <2>1. CASE Read
    BY <2>1, ReadMoves DEF Fresh
  <2>2. CASE ~Read
    BY <2>2 DEF KeyUp, KeyDown, KeyStarts, Refused, Center, Edit, CommandsDone, NoRetune, Retune,
         NoRebuild, FinishOver, StillEnding, BackToReceive, LostCheck, StillRefused, driver, Fresh
  <2>3. QED
    BY <2>1, <2>2
<1>4. QED
  BY <1>0, <1>1, <1>2, <1>3, OwnerKept DEF Streaming

(* Every step keeps a stream in one pair of hands. *)
LEMMA OwnerNext ==
  ASSUME TypeOK, Owner, Excused, Solo, Next, world' = world
  PROVE  Owner'
<1>0. OwnerTypes
  BY TypesForOwner
<1>1. CASE StartTxStep
  BY <1>0, <1>1, OpenOwner, WriterOwner, TuneOwner DEF StartTxStep, StartingTx
<1>2. CASE Board \/ (\E t \in Threads : HandingBack(t) /\ UNCHANGED app)
  BY <1>2, DriverOwner DEF Board
<1>3. CASE KeySame \/ KeyForRebuild \/ Rebuild \/ RebuildBreaks
  BY <1>0, <1>3, KeySameOwner, KeyForRebuildOwner, RebuildOwner, BreaksOwner
<1>4. CASE ChainJob \/ KeyJob \/ LetGo("unkey") \/ LetGo("drop")
  BY <1>0, <1>4, ChainJobOwner, KeyJobOwner, LetGoOwner
<1>5. CASE Attached \/ Unkeyed \/ GivenUp \/ GiveUp \/ ChainFails \/ ChainGone
  BY <1>0, <1>5, AttachedOwner, UnkeyedOwner, GivenUpOwner, GiveUpOwner
<1>6. QED
  BY <1>1, <1>2, <1>3, <1>4, <1>5, LoopOwner, Steps DEF Threads

(* Every step keeps the lamp and the key together. *)
LEMMA AnnouncedNext ==
  ASSUME TypeOK, Owner, Announced, Next, world' = world
  PROVE  Announced'
<1>0. Numbered
  BY DEF Owner
<1> USE DEF loop, handle, readings, worker
<1>1. CASE KeyUp \/ (\E mic \in BOOLEAN : KeyDown(mic)) \/ KeySame \/ KeyForRebuild \/ Rebuild
           \/ RebuildBreaks
  BY <1>0, <1>1, KeyUpAnnounced, KeyDownAnnounced, KeySameAnnounced, KeyForRebuildAnnounced,
     RebuildAnnounced
<1>2. CASE FinishOver \/ LostCheck
  <2>1. /\ phase \in {"vox", "lost"} /\ UNCHANGED driver
        /\ UNCHANGED <<down, rebuild, pend, built>>
    BY <1>2 DEF FinishOver, LostCheck
  <2>2. ~Starting' /\ ~Starting /\ pend = Nobody
    BY <2>1 DEF Announced, Starting, driver, Before
  <2>3. CASE UnkeyNow /\ keyingFor' = FALSE
    BY <2>1, <2>2, <2>3, UnkeyAnnounced
  <2>4. CASE ~(UnkeyNow /\ keyingFor' = FALSE)
    <3>1. UNCHANGED <<keyingFor, ending, armed, status>>
      BY <1>2, <2>4 DEF FinishOver, LostCheck
    <3>2. QED
      BY <2>1, <2>2, <3>1, AnnouncedKept
  <2>5. QED
    BY <2>3, <2>4
<1>3. CASE StartTxStep \/ Refused \/ Board \/ \E t \in Threads : HandingBack(t) /\ UNCHANGED app
  <2>1. UNCHANGED <<down, keyingFor, pend, status, armed, built, ending, rebuild, phase>>
    BY <1>3 DEF StartTxStep, Refused, Board, app
  <2>2. Starting' => Starting
    BY <1>3 DEF StartTxStep, StartingTx, OpenTx, IntoWriter, TuneTx, Refused, Board, ReaderDies,
                WriterDies, HandingBack, HbClose, HbWant, HbReopen, HbSlot, HbUnsilence, Starting
  <2>3. pend # Nobody => phase \in Before
    BY DEF Announced
  <2>4. QED
    BY <2>1, <2>2, <2>3, AnnouncedKept
<1>4. CASE \/ CommandsDone \/ NoRetune \/ Retune \/ NoRebuild \/ Read \/ StillEnding
           \/ BackToReceive \/ Edit \/ (\E f \in Choices : Center(f))
  <2>1. UNCHANGED <<down, keyingFor, pend, status, armed, built, ending>>
    BY <1>4 DEF CommandsDone, NoRetune, Retune, NoRebuild, Read, StillEnding, BackToReceive,
                Edit, Center
  <2>2. rebuild' = rebuild \/ rebuild' = TRUE
    BY <1>4 DEF CommandsDone, NoRetune, Retune, NoRebuild, Read, StillEnding, BackToReceive,
                Edit, Center
  <2>3. ~Starting /\ ~Starting'
    <3>1. CASE Read
      BY <3>1, ReadMoves DEF Read, Starting, Announced
    <3>2. CASE ~Read
      <4>1. rf' = rf /\ (rf = "idle" \/ phase # "cmds")
        BY <1>4, <3>2 DEF CommandsDone, NoRetune, Retune, NoRebuild, StillEnding, BackToReceive,
                          Edit, Center, driver
      <4>2. QED
        BY <4>1 DEF Starting, Announced
    <3>3. QED
      BY <3>1, <3>2
  <2>4. pend # Nobody => phase' \in Before
    <3>1. ASSUME pend # Nobody PROVE rebuild /\ phase \in Before
      BY <3>1 DEF Announced
    <3>2. CASE CommandsDone \/ NoRetune \/ Retune \/ NoRebuild
      BY <3>1, <3>2 DEF CommandsDone, NoRetune, Retune, NoRebuild, Before
    <3>3. CASE Read \/ StillEnding \/ BackToReceive
      BY <3>1, <3>3 DEF Read, StillEnding, BackToReceive, Before
    <3>4. CASE Edit \/ (\E f \in Choices : Center(f))
      BY <3>1, <3>4 DEF Edit, Center, Before
    <3>5. QED
      BY <1>4, <3>2, <3>3, <3>4
  <2>5. QED
    BY <2>1, <2>2, <2>3, <2>4, AnnouncedKept
<1>5. CASE TransmitThread
  <2>1. UNCHANGED loop /\ UNCHANGED handle /\ rf' = rf
    BY <1>5 DEF TransmitThread, TakesJob, ChainJob, KeyJob, LetGo, HandBack, Finishes, Attached,
                Unkeyed, GivenUp, HandingBack, HbClose, HbWant, HbReopen, HbSlot, HbUnsilence,
                GiveUp, StillRefused, ChainFails, ChainGone, driver, app
  <2>2. pend # Nobody => phase \in Before
    BY DEF Announced
  <2>3. QED
    BY <2>1, <2>2, AnnouncedKept DEF Starting
<1>6. QED
  BY <1>1, <1>2, <1>3, <1>4, <1>5 DEF Next, RadioThread, Operator, Threads

(* A step by which no stream starts or ends, nobody who transmits loses    *)
(* the claim, and no hand back is drained.                                 *)
LEMMA SoloKept ==
  ASSUME Numbered, Solo, world' = world, UNCHANGED <<st, made>>,
         claim' = claim \/ claim \notin Overs,
         rf' = rf \/ rf' \notin {"writer", "tune", "keyed"},
         Handing("rf")' => Handing("rf"),
         hb'["tx"].pc = "drain" => hb' = hb,
         \A n \in Overs : pend' = n \/ HasKey(jobs', n)
                           => pend = n \/ HasKey(jobs, n) \/ (n = made /\ rf = "keyed")
  PROVE  Solo'
<1> SUFFICES ASSUME Fails PROVE Solo'
  BY WorldStays DEF Solo
<1>1. ~Handing("rf")' /\ (hb'["tx"].pc = "drain" => st'[hb'["tx"].over] = "ending")
  BY DEF Solo
<1>2. rf' = "writer" => claim' = made'
  BY DEF Solo, Numbered, Fresh
<1>3. ASSUME NEW n \in Overs
      PROVE  /\ st'[n] # "dead"
             /\ st'[n] = "live" => claim' = n
             /\ n > made' \/ (rf' = "writer" /\ n = made') => st'[n] = "unmade"
             /\ rf' \in {"tune", "keyed"} /\ n = made' => st'[n] = "live"
             /\ pend' = n \/ HasKey(jobs', n) => st'[n] = "live"
  BY <1>3 DEF Solo
<1>4. QED
  BY <1>1, <1>2, <1>3 DEF Solo

(* A stream that is let go of. *)
LEMMA SoloDown ==
  ASSUME TypeOK, Numbered, Solo, world' = world, NEW s \in Overs, HandBack("tx", s),
         Fresh => s # made, pend # s, ~HasKey(jobs', s), pend' = pend,
         \A n \in Overs : HasKey(jobs', n) => HasKey(jobs, n)
  PROVE  Solo'
<1> SUFFICES ASSUME Fails PROVE Solo'
  BY WorldStays DEF Solo
<1>0. /\ st \in [Overs -> {"unmade", "live", "dead", "ending", "gone"}] /\ hb \in Backs
      /\ s <= made /\ made \in Nat
  BY Names DEF TypeOK, DriverTypeOK, Backs, Places, Numbered, HandBack, Streaming
<1>1. /\ UNCHANGED <<made, claim, rf>>
      /\ st' = [st EXCEPT ![s] = "ending"]
      /\ hb' = [hb EXCEPT !["tx"].pc = "drain", !["tx"].over = s]
  BY DEF HandBack
<1>2. hb'["rf"] = hb["rf"] /\ hb'["tx"].over = s
  BY <1>0, <1>1 DEF Backs, Threads
<1>3. \A n \in Overs : st'[n] = IF n = s THEN "ending" ELSE st[n]
  BY <1>0, <1>1
<1>4. ASSUME NEW n \in Overs
      PROVE  /\ st'[n] # "dead"
             /\ st'[n] = "live" => claim' = n
             /\ n > made' \/ (rf' = "writer" /\ n = made') => st'[n] = "unmade"
             /\ rf' \in {"tune", "keyed"} /\ n = made' => st'[n] = "live"
             /\ pend' = n \/ HasKey(jobs', n) => st'[n] = "live"
  BY <1>0, <1>1, <1>3, <1>4, Names DEF Solo, Fresh
<1>5. QED
  BY <1>1, <1>2, <1>3, <1>4 DEF Solo, Handing

(* start_tx opens a stream when no other has the claim. *)
LEMMA SoloStart ==
  ASSUME TypeOK, Owner, Solo, world' = world, StartingTx, UNCHANGED app
  PROVE  Solo'
<1> SUFFICES ASSUME Fails PROVE Solo'
  BY WorldStays DEF Solo
<1> USE DEF shared, app, loop
<1>0. /\ st \in [Overs -> {"unmade", "live", "dead", "ending", "gone"}]
      /\ made \in 0..MaxOvers /\ ~Flaky /\ Nobody \notin Overs
      /\ pend' = pend /\ jobs' = jobs
  BY Names DEF TypeOK, DriverTypeOK, Fails, Flaky
<1>1. CASE OpenTx /\ rf' = "refused"
  <2>1. UNCHANGED <<st, made, claim, hb>>
    BY <1>1 DEF OpenTx
  <2>2. QED
    BY <1>0, <1>1, <2>1, SoloKept DEF Owner, Handing
<1>2. CASE OpenTx /\ rf' # "refused"
  <2>1. /\ claim = Nobody /\ made' = made + 1 /\ claim' = made' /\ rf = "open" /\ rf' = "writer"
        /\ UNCHANGED <<st, hb>>
    BY <1>2 DEF OpenTx
  <2>2. ~Handing("rf")' /\ (hb'["tx"].pc = "drain" => st'[hb'["tx"].over] = "ending")
    BY <2>1 DEF Solo, Handing
  <2>3. ASSUME NEW n \in Overs
        PROVE  /\ st'[n] # "dead"
               /\ st'[n] = "live" => claim' = n
               /\ n > made' \/ (rf' = "writer" /\ n = made') => st'[n] = "unmade"
               /\ rf' \in {"tune", "keyed"} /\ n = made' => st'[n] = "live"
               /\ pend' = n \/ HasKey(jobs', n) => st'[n] = "live"
    BY <1>0, <2>1, <2>3, Names DEF Solo
  <2>4. QED
    BY <2>1, <2>2, <2>3 DEF Solo
<1>3. CASE IntoWriter
  <2>0. made \in Overs /\ ~InHand(made)
    BY <1>3 DEF Owner, Numbered, Reached, Fresh, IntoWriter
  <2>1. /\ rf = "writer" /\ rf' = "tune" /\ st' = [st EXCEPT ![made] = "live"]
        /\ UNCHANGED <<made, claim, hb>>
    BY <1>0, <1>3 DEF IntoWriter
  <2>2. \A n \in Overs : st'[n] = IF n = made THEN "live" ELSE st[n]
    BY <1>0, <2>1
  <2>3. hb'["tx"].pc = "drain" => hb'["tx"].over # made
    BY <2>0, <2>1 DEF Solo
  <2>4. hb["tx"].over \in Overs
    BY DEF TypeOK, DriverTypeOK, Threads
  <2>5. ~Handing("rf")' /\ (hb'["tx"].pc = "drain" => st'[hb'["tx"].over] = "ending")
    BY <2>1, <2>2, <2>3, <2>4 DEF Solo, Handing
  <2>6. ASSUME NEW n \in Overs
        PROVE  /\ st'[n] # "dead"
               /\ st'[n] = "live" => claim' = n
               /\ n > made' \/ (rf' = "writer" /\ n = made') => st'[n] = "unmade"
               /\ rf' \in {"tune", "keyed"} /\ n = made' => st'[n] = "live"
               /\ pend' = n \/ HasKey(jobs', n) => st'[n] = "live"
    BY <1>0, <2>0, <2>1, <2>2, <2>6, Names DEF Solo, InHand
  <2>7. QED
    BY <2>1, <2>5, <2>6 DEF Solo
<1>4. CASE TuneTx
  <2>0. made \in Overs /\ ~InHand(made) /\ st[made] = "live" /\ claim = made
    BY <1>4 DEF Owner, Numbered, Reached, Fresh, TuneTx, Solo
  <2>1. CASE rf' = "keyed"
    <3>1. rf = "tune" /\ UNCHANGED <<st, made, claim, hb>>
      BY <1>4, <2>1 DEF TuneTx
    <3>2. QED
      BY <1>0, <2>1, <3>1 DEF Solo, Handing
  <2>2. CASE rf' # "keyed"
    <3>1. /\ rf' = "refused" /\ st' = [st EXCEPT ![made] = "gone"] /\ UNCHANGED <<made, hb>>
      BY <1>4, <2>2 DEF TuneTx
    <3>2. \A n \in Overs : st'[n] = IF n = made THEN "gone" ELSE st[n]
      BY <1>0, <3>1
    <3>3. hb'["tx"].pc = "drain" => hb'["tx"].over # made
      BY <2>0, <3>1 DEF Solo
    <3>4. hb["tx"].over \in Overs
      BY DEF TypeOK, DriverTypeOK, Threads
    <3>5. ~Handing("rf")' /\ (hb'["tx"].pc = "drain" => st'[hb'["tx"].over] = "ending")
      BY <3>1, <3>2, <3>3, <3>4 DEF Solo, Handing
    <3>6. ASSUME NEW n \in Overs
          PROVE  /\ st'[n] # "dead"
                 /\ st'[n] = "live" => claim' = n
                 /\ n > made' \/ (rf' = "writer" /\ n = made') => st'[n] = "unmade"
                 /\ rf' \in {"tune", "keyed"} /\ n = made' => st'[n] = "live"
                 /\ pend' = n \/ HasKey(jobs', n) => st'[n] = "live"
      BY <1>0, <2>0, <3>1, <3>2, <3>6, Names DEF Solo, InHand
    <3>7. QED
      BY <3>1, <3>5, <3>6 DEF Solo
  <2>3. QED
    BY <2>1, <2>2
<1>5. QED
  BY <1>1, <1>2, <1>3, <1>4 DEF StartingTx

(* A hand back that goes on releases a claim of no stream that streams. *)
LEMMA SoloBack ==
  ASSUME TypeOK, Owner, Solo, world' = world, UNCHANGED app,
         NEW t \in Threads, HandingBack(t)
  PROVE  Solo'
<1> SUFFICES ASSUME Fails PROVE Solo'
  BY WorldStays DEF Solo
<1>0. /\ st \in [Overs -> {"unmade", "live", "dead", "ending", "gone"}] /\ hb \in Backs
      /\ made \in 0..MaxOvers /\ ~Flaky /\ Nobody \notin Overs
      /\ pend' = pend /\ jobs' = jobs
  BY Names DEF TypeOK, DriverTypeOK, Backs, Places, Fails, Flaky, app, loop
<1>1. t = "tx"
  BY DEF Solo, Handing, HandingBack, HbClose, HbWant, HbReopen, HbSlot, HbUnsilence, Threads
<1>2. CASE HbClose(t)
  <2> DEFINE n == hb["tx"].over
  <2>1. /\ n \in Overs /\ st[n] = "ending" /\ st' = [st EXCEPT ![n] = "gone"]
        /\ claim' = IF claim = n THEN Nobody ELSE claim
        /\ UNCHANGED <<rf, made>>
    BY <1>0, <1>1, <1>2 DEF HbClose, Backs, Threads, Solo, Release
  <2>2. \A m \in Overs : st'[m] = IF m = n THEN "gone" ELSE st[m]
    BY <1>0, <2>1
  <2>3. hb'["rf"] = hb["rf"] /\ hb'["tx"].pc \in {"sleep", "unsilence"}
    <3>1. HbGoes("tx", IF restore[n] THEN "sleep" ELSE "unsilence")
      BY <1>1, <1>2 DEF HbClose
    <3>2. QED
      BY <1>0, <3>1 DEF HbGoes, Backs, Threads
  <2> HIDE DEF n
  <2>4. ~Handing("rf")' /\ (hb'["tx"].pc = "drain" => st'[hb'["tx"].over] = "ending")
    BY <2>3 DEF Solo, Handing
  <2>5. rf' = "writer" => claim' = made'
    <3>1. rf = "writer" => n # made
      BY <2>1 DEF Solo
    <3>2. QED
      BY <2>1, <3>1 DEF Solo
  <2>6. ASSUME NEW m \in Overs
        PROVE  /\ st'[m] # "dead"
               /\ st'[m] = "live" => claim' = m
               /\ m > made' \/ (rf' = "writer" /\ m = made') => st'[m] = "unmade"
               /\ rf' \in {"tune", "keyed"} /\ m = made' => st'[m] = "live"
               /\ pend' = m \/ HasKey(jobs', m) => st'[m] = "live"
    BY <1>0, <2>1, <2>2, <2>6 DEF Solo
  <2>7. QED
    BY <2>4, <2>5, <2>6 DEF Solo
<1>3. CASE ~HbClose(t)
  <2>1. /\ UNCHANGED <<st, made, rf>>
        /\ claim' = claim \/ claim \notin Overs
    BY <1>0, <1>3 DEF HandingBack, HbWant, HbReopen, HbSlot, HbUnsilence, shared
  <2>2. hb'["rf"] = hb["rf"] /\ hb'["tx"].pc # "drain"
    BY <1>0, <1>1, <1>3 DEF HandingBack, HbWant, HbReopen, HbSlot, HbUnsilence, HbGoes, Backs, Threads
  <2>3. QED
    BY <1>0, <2>1, <2>2, SoloKept DEF Owner, Handing
<1>4. QED
  BY <1>2, <1>3

(* Every step keeps one stream at most on a sound board. *)
LEMMA SoloNext ==
  ASSUME TypeOK, Owner, Solo, Next, world' = world
  PROVE  Solo'
<1> SUFFICES ASSUME Fails PROVE Solo'
  BY WorldStays DEF Solo
<1>0. /\ ~Flaky /\ ~Breaks /\ Numbered /\ OwnerTypes
      /\ pend \in Streams /\ sink \in Streams /\ waiting \in Streams
      /\ \A n \in Streams : n # Nobody => n \in Overs
  BY TypesForOwner DEF Fails, Flaky, Breaks, Owner, OwnerTypes, Streams
<1> USE DEF loop, handle, readings, worker
<1>1. CASE StartTxStep
  BY <1>1, SoloStart DEF StartTxStep
<1>2. ASSUME NEW t \in Threads, HandingBack(t) /\ UNCHANGED app PROVE Solo'
  BY <1>2, SoloBack
<1>3. CASE Read
  <2>1. UNCHANGED <<pend, jobs>>
    BY <1>3 DEF Read
  <2>2. QED
    BY <1>0, <1>3, <2>1, ReadMoves, SoloKept DEF Handing
<1>4. CASE \/ KeyUp \/ (\E mic \in BOOLEAN : KeyDown(mic)) \/ Refused \/ (\E f \in Choices : Center(f))
           \/ Edit \/ CommandsDone \/ NoRetune \/ Retune \/ NoRebuild \/ FinishOver \/ StillEnding
           \/ BackToReceive \/ LostCheck \/ StillRefused \/ Attached \/ Unkeyed \/ GivenUp \/ ChainGone
  <2>1. /\ UNCHANGED <<st, made, hb>>
        /\ claim' = claim \/ claim \notin Overs
        /\ rf' = rf \/ rf' \notin {"writer", "tune", "keyed"}
    BY <1>4, Names DEF KeyUp, KeyDown, KeyStarts, TakeReader, Release, Refused, Center, Edit,
              CommandsDone, NoRetune, Retune, NoRebuild, FinishOver, StillEnding, BackToReceive,
              LostCheck, StillRefused, Attached, Unkeyed, GivenUp, ChainGone, driver
  <2>2. pend' = pend /\ (jobs' = jobs \/ jobs' = Append(jobs, Unkey))
    BY <1>4 DEF KeyUp, KeyDown, Refused, Center, Edit, CommandsDone, NoRetune, Retune, NoRebuild,
              FinishOver, StillEnding, BackToReceive, UnkeyNow, Unkey, LostCheck, StillRefused,
              Attached, Unkeyed, GivenUp, ChainGone, app
  <2>3. \A n \in Overs : HasKey(jobs', n) <=> HasKey(jobs, n)
    BY <1>0, <2>2, UnkeySent DEF Owner, Apart
  <2>4. QED
    BY <1>0, <2>1, <2>2, <2>3, SoloKept DEF Handing
<1>5. CASE KeySame
  <2>1. /\ UNCHANGED <<st, made, claim, hb, pend>> /\ rf' = "idle" /\ rf = "keyed"
        /\ jobs' = Append(jobs, Job("key", made))
    BY <1>5 DEF KeySame
  <2>2. made \in Overs /\ ~HasKey(jobs, made) /\ jobs \in Seq(Jobs) /\ KeysOnce(jobs)
    BY <1>0, <2>1 DEF Owner, Numbered, Reached, Fresh, InHand, OwnerTypes, Apart
  <2>3. \A n \in Overs : HasKey(jobs', n) <=> HasKey(jobs, n) \/ n = made
    BY <2>1, <2>2, KeySent
  <2>4. QED
    BY <1>0, <2>1, <2>3, SoloKept DEF Handing
<1>6. CASE KeyForRebuild
  <2>1. /\ UNCHANGED <<st, made, claim, hb, jobs>> /\ rf' = "idle" /\ rf = "keyed"
        /\ pend' = made
    BY <1>6 DEF KeyForRebuild
  <2>2. QED
    BY <1>0, <2>1, SoloKept DEF Handing
<1>7. CASE Rebuild
  <2>1. UNCHANGED <<st, made, claim, hb, rf>> /\ pend' = Nobody
    BY <1>7 DEF Rebuild, driver
  <2>2. \A n \in Overs : HasKey(jobs', n) => HasKey(jobs, n) \/ pend = n
    BY <1>0, <1>7, RebuildSent
  <2>3. QED
    BY <1>0, <2>1, <2>2, SoloKept, Names DEF Handing
<1>8. CASE ChainJob \/ KeyJob \/ LetGo("unkey") \/ LetGo("drop")
  <2>1. /\ pend' = pend /\ jobs # <<>> /\ jobs' = Tail(jobs)
        /\ UNCHANGED driver \/ (sink # Nobody /\ HandBack("tx", sink))
             \/ (waiting # Nobody /\ HandBack("tx", waiting))
    BY <1>8 DEF ChainJob, KeyJob, LetGo, Idle
  <2>2. \A n \in Overs : HasKey(jobs', n) => HasKey(jobs, n)
    BY <1>0, <2>1, JobTaken DEF Owner, Apart, OwnerTypes
  <2>3. CASE UNCHANGED driver
    BY <1>0, <2>1, <2>2, <2>3, SoloKept DEF driver, Handing
  <2>4. ASSUME NEW s \in Overs, HandBack("tx", s), s = sink \/ s = waiting PROVE Solo'
    <3>1. pend # s /\ ~HasKey(jobs, s) /\ (Fresh => s # made)
      BY <2>4, Names DEF Owner, Apart, Reached, InHand
    <3>2. QED
      BY <1>0, <2>1, <2>2, <2>4, <3>1, SoloDown
  <2>5. QED
    BY <1>0, <2>1, <2>3, <2>4
<1>9. CASE GiveUp \/ ChainFails
  <2>1. /\ pend' = pend /\ jobs' = jobs
        /\ UNCHANGED driver \/ (sink # Nobody /\ HandBack("tx", sink))
    BY <1>9 DEF GiveUp, ChainFails
  <2>2. CASE UNCHANGED driver
    BY <1>0, <2>1, <2>2, SoloKept DEF driver, Handing
  <2>3. CASE sink # Nobody /\ HandBack("tx", sink)
    <3>1. sink \in Overs /\ pend # sink /\ ~HasKey(jobs, sink) /\ (Fresh => sink # made)
      BY <1>0, <2>3, Names DEF Owner, Apart, Reached, InHand
    <3>2. QED
      BY <1>0, <2>1, <2>3, <3>1, SoloDown
  <2>4. QED
    BY <2>1, <2>2, <2>3
<1>10. CASE Board \/ RebuildBreaks
  BY <1>0, <1>10 DEF Board, ReaderDies, WriterDies, RebuildBreaks
<1>11. QED
  BY <1>1, <1>2, <1>3, <1>4, <1>5, <1>6, <1>7, <1>8, <1>9, <1>10, Steps DEF Threads

(* What a job sent, or taken, leaves of the last key and of the kinds that *)
(* are not there.                                                          *)
LEMMA LitSent ==
  ASSUME NEW q \in Seq(Jobs), NEW j \in Jobs
  PROVE  /\ j.what # "unkey" /\ (KeyLast(q) \/ j.what = "key") => KeyLast(Append(q, j))
         /\ \A what : Without(q, what) /\ j.what # what => Without(Append(q, j), what)
<1> DEFINE r == Append(q, j)
<1>1. /\ r \in Seq(Jobs) /\ Len(q) \in Nat /\ Len(r) = Len(q) + 1
      /\ \A i \in 1..Len(q) : r[i] = q[i]
      /\ r[Len(q) + 1] = j
  OBVIOUS
<1> HIDE DEF r
<1>2. ASSUME j.what # "unkey", j.what = "key" PROVE KeyLast(r)
  BY <1>1, <1>2 DEF KeyLast
<1>3. ASSUME j.what # "unkey", KeyLast(q) PROVE KeyLast(r)
  <2>1. PICK i \in 1..Len(q) : q[i].what = "key" /\ \A k \in i..Len(q) : q[k].what # "unkey"
    BY <1>3 DEF KeyLast
  <2>2. i \in 1..Len(r) /\ r[i].what = "key" /\ \A k \in i..Len(r) : r[k].what # "unkey"
    BY <1>1, <1>3, <2>1
  <2>3. QED
    BY <2>2 DEF KeyLast
<1>4. ASSUME NEW what, Without(q, what), j.what # what PROVE Without(r, what)
  BY <1>1, <1>4 DEF Without
<1>5. QED
  BY <1>2, <1>3, <1>4 DEF r

LEMMA LitTaken ==
  ASSUME NEW q \in Seq(Jobs), q # <<>>
  PROVE  /\ KeyLast(q) => \/ KeyLast(Tail(q))
                          \/ Head(q).what = "key" /\ Without(Tail(q), "unkey")
         /\ \A what : Without(q, what) => Head(q).what # what /\ Without(Tail(q), what)
<1> DEFINE r == Tail(q)
<1>1. /\ r \in Seq(Jobs) /\ Len(q) \in Nat \ {0} /\ Len(r) = Len(q) - 1
      /\ \A i \in 1..Len(r) : r[i] = q[i + 1]
      /\ Head(q) = q[1]
  OBVIOUS
<1> HIDE DEF r
<1>2. ASSUME KeyLast(q) PROVE KeyLast(r) \/ (Head(q).what = "key" /\ Without(r, "unkey"))
  <2>1. PICK i \in 1..Len(q) : q[i].what = "key" /\ \A k \in i..Len(q) : q[k].what # "unkey"
    BY <1>2 DEF KeyLast
  <2>2. CASE i = 1
    BY <1>1, <2>1, <2>2 DEF Without
  <2>3. CASE i # 1
    <3>1. i - 1 \in 1..Len(r) /\ r[i - 1].what = "key"
      BY <1>1, <2>1, <2>3
    <3>2. \A k \in (i - 1)..Len(r) : r[k].what # "unkey"
      BY <1>1, <2>1, <2>3
    <3>3. QED
      BY <3>1, <3>2 DEF KeyLast
  <2>4. QED
    BY <2>2, <2>3
<1>3. ASSUME NEW what, Without(q, what) PROVE Head(q).what # what /\ Without(r, what)
  BY <1>1, <1>3 DEF Without
<1>4. QED
  BY <1>2, <1>3 DEF r

(* What a rebuild sends, in the same terms. *)
LEMMA RebuildLit ==
  ASSUME jobs \in Seq(Jobs), pend \in Streams, Rebuild
  PROVE  /\ KeyLast(jobs) \/ pend # Nobody => KeyLast(jobs')
         /\ \A what \in {"unkey", "drop"} : Without(jobs, what) => Without(jobs', what)
<1>1. PICK chain \in {<<>>, <<Job("chain", Nobody)>>} :
        jobs' = jobs \o chain \o (IF pend # Nobody THEN <<Job("key", pend)>> ELSE <<>>)
  BY DEF Rebuild
<1> DEFINE q == jobs \o chain
<1>2. Job("chain", Nobody) \in Jobs /\ Job("chain", Nobody).what = "chain"
  BY DEF Job, Jobs, Streams
<1>3. /\ q \in Seq(Jobs)
      /\ KeyLast(jobs) => KeyLast(q)
      /\ \A what \in {"unkey", "drop"} : Without(jobs, what) => Without(q, what)
  <2>1. CASE chain = <<>>
    <3>1. q = jobs
      BY <2>1
    <3>2. QED
      BY <3>1
  <2>2. CASE chain = <<Job("chain", Nobody)>>
    <3>1. q = Append(jobs, Job("chain", Nobody))
      BY <1>2, <2>2
    <3>2. QED
      BY <1>2, <3>1, LitSent
  <2>3. QED
    BY <1>1, <2>1, <2>2
<1>4. CASE pend = Nobody
  <2>1. jobs' = q
    BY <1>1, <1>3, <1>4
  <2>2. QED
    BY <1>3, <1>4, <2>1
<1>5. CASE pend # Nobody
  <2>1. Job("key", pend) \in Jobs /\ Job("key", pend).what = "key"
    BY <1>5, JobTypes DEF Streams
  <2>2. jobs' = q \o <<Job("key", pend)>>
    BY <1>1, <1>5 DEF q
  <2> HIDE DEF q
  <2>3. jobs' = Append(q, Job("key", pend))
    BY <1>3, <2>1, <2>2
  <2>4. QED
    BY <1>3, <2>1, <2>3, LitSent
<1>6. QED
  BY <1>4, <1>5

(* No chain is dropped but for an edit, and none lost but by its own run.  *)
LEMMA ExcusedNext ==
  ASSUME TypeOK, Owner, Excused, Next, world' = world
  PROVE  Excused'
<1> USE DEF loop, handle, readings, worker
<1>0. /\ jobs \in Seq(Jobs) /\ pend \in Streams
      /\ \A what \in {"chain", "unkey", "drop"} : /\ Job(what, Nobody) \in Jobs
                                                 /\ Job(what, Nobody).what = what
      /\ \A n \in Overs : Job("key", n) \in Jobs /\ Job("key", n).what = "key"
  BY TypesForOwner, JobTypes DEF OwnerTypes, Job, Jobs, Streams
<1>1. ASSUME ~Fails PROVE txpc' # "fail"
  <2>1. txpc # "fail"
    BY <1>1 DEF Excused
  <2>2. CASE TransmitThread
    BY <1>1, <2>1, <2>2 DEF TransmitThread, TakesJob, ChainJob, KeyJob, LetGo, Finishes, Attached,
       Unkeyed, GivenUp, ChainGone, GiveUp, StillRefused, ChainFails, app
  <2>3. CASE ~TransmitThread
    BY <2>1, <2>3, TransmitStays
  <2>4. QED
    BY <2>2, <2>3
<1>2. ASSUME ~Breaks PROVE txpc' # "drop" /\ Without(jobs', "drop")
  <2>1. txpc # "drop" /\ Without(jobs, "drop")
    BY <1>2 DEF Excused
  <2>2. CASE ChainJob \/ KeyJob \/ LetGo("unkey") \/ LetGo("drop")
    <3>1. jobs # <<>> /\ jobs' = Tail(jobs) /\ (txpc' = "drop" => txpc = "drop" \/ Head(jobs).what = "drop")
      BY <2>2 DEF ChainJob, KeyJob, LetGo, Idle
    <3>2. QED
      BY <1>0, <2>1, <3>1, LitTaken
  <2>3. CASE TransmitThread /\ ~TakesJob
    BY <2>1, <2>3 DEF TransmitThread, Finishes, Attached,
       Unkeyed, GivenUp, ChainGone, GiveUp, StillRefused, ChainFails, app
  <2>4. CASE ~TransmitThread
    <3>1. txpc' = txpc
      BY <2>4, TransmitStays
    <3>2. CASE Rebuild
      BY <1>0, <2>1, <3>1, <3>2, RebuildLit
    <3>3. CASE KeySame
      <4>1. made \in Overs /\ jobs' = Append(jobs, Job("key", made))
        BY <3>3 DEF KeySame, Owner, Numbered, Fresh
      <4>2. QED
        BY <1>0, <2>1, <3>1, <4>1, LitSent
    <3>4. CASE ~Rebuild /\ ~KeySame
      <4>1. jobs' = jobs \/ jobs' = Append(jobs, Job("unkey", Nobody))
        BY <1>2, <2>4, <3>4 DEF Next, RadioThread, Operator, Board, StartTxStep, Refused, KeyForRebuild,
           CommandsDone, NoRetune, Retune, RebuildBreaks, NoRebuild, Read, FinishOver, StillEnding,
           BackToReceive, LostCheck, UnkeyNow, KeyUp, KeyDown, Center, Edit, app
      <4>2. QED
        BY <1>0, <2>1, <3>1, <4>1, LitSent
    <3>5. QED
      BY <3>2, <3>3, <3>4
  <2>5. QED
    BY <2>2, <2>3, <2>4 DEF TransmitThread, TakesJob
<1>3. QED
  BY <1>1, <1>2, WorldStays DEF Excused

(* Every step keeps the lamp over a key. *)
LEMMA LitNext ==
  ASSUME TypeOK, Owner, Announced, Excused, Lit, Next, world' = world
  PROVE  Lit'
<1> SUFFICES ASSUME ~Breaks, ~Fails, status'
             PROVE  \/ KeyLast(jobs')
                    \/ Without(jobs', "unkey") /\ txpc' # "unkey" /\ (sink' # Nobody \/ lost')
  BY WorldStays DEF Lit
<1> USE DEF loop, handle, readings, worker
<1>0. /\ jobs \in Seq(Jobs) /\ pend \in Streams /\ waiting = Nobody /\ OwnerTypes
      /\ \A n \in Overs : Job("key", n) \in Jobs /\ Job("key", n).what = "key"
      /\ txpc # "drop" /\ txpc # "fail"
  BY TypesForOwner, JobTypes DEF OwnerTypes, Owner, Seated, Excused
<1>a. status => \/ KeyLast(jobs)
                \/ Without(jobs, "unkey") /\ txpc # "unkey" /\ (sink # Nobody \/ lost)
  BY DEF Lit
<1>1. CASE \/ StartTxStep \/ Refused \/ Board \/ (\E t \in Threads : HandingBack(t) /\ UNCHANGED app)
           \/ KeyForRebuild \/ CommandsDone \/ NoRetune \/ Retune \/ NoRebuild
           \/ Read \/ StillEnding \/ BackToReceive \/ Edit \/ (\E f \in Choices : Center(f))
           \/ (\E mic \in BOOLEAN : KeyDown(mic))
  <2>1. UNCHANGED <<jobs, status, txpc, sink, lost>>
    BY <1>1 DEF StartTxStep, Refused, Board, app, KeyForRebuild, CommandsDone, NoRetune, Retune,
                NoRebuild, Read, StillEnding, BackToReceive, Edit, Center, KeyDown
  <2>2. QED
    BY <1>a, <2>1
<1>2. CASE StillRefused \/ GivenUp
  <2>1. /\ UNCHANGED <<jobs, status>> /\ txpc' # "unkey" /\ lost'
        /\ txpc # "unkey"
    BY <1>2 DEF StillRefused, GivenUp
  <2>2. QED
    BY <1>a, <2>1
<1>3. CASE KeyUp \/ FinishOver \/ LostCheck
  <2>1. ~UnkeyNow \/ (NotKeyed /\ status' = status)
    BY DEF UnkeyNow
  <2>2. ~UnkeyNow
    BY <2>1 DEF NotKeyed
  <2>3. CASE KeyUp
    BY <1>a, <2>2, <2>3 DEF KeyUp
  <2>4. CASE LostCheck
    BY <1>a, <2>2, <2>4 DEF LostCheck
  <2>5. QED
    BY <1>3, <2>2, <2>3, <2>4 DEF FinishOver
<1>4. CASE KeySame
  <2>1. made \in Overs /\ jobs' = Append(jobs, Job("key", made))
    BY <1>4 DEF KeySame, Owner, Numbered, Fresh
  <2>2. QED
    BY <1>0, <2>1, LitSent
<1>5. CASE Rebuild
  <2>1. UNCHANGED <<txpc, sink, lost>> /\ (status \/ keyingFor)
    BY <1>5 DEF Rebuild
  <2>2. status \/ pend # Nobody
    BY <2>1 DEF Announced
  <2>3. QED
    BY <1>0, <1>5, <1>a, <2>1, <2>2, RebuildLit
<1>6. CASE ChainJob \/ KeyJob \/ LetGo("unkey") \/ LetGo("drop")
  <2>0. jobs # <<>> /\ jobs' = Tail(jobs) /\ status' = status /\ txpc = "idle"
    BY <1>6 DEF ChainJob, KeyJob, LetGo, Idle
  <2>1. CASE KeyLast(Tail(jobs))
    BY <2>0, <2>1
  <2>2. CASE ~KeyLast(Tail(jobs))
    <3>1. \/ Without(Tail(jobs), "unkey") /\ Head(jobs).what = "key"
          \/ /\ Without(Tail(jobs), "unkey") /\ Head(jobs).what # "unkey"
             /\ sink # Nobody \/ lost
      BY <1>0, <1>a, <2>0, <2>2, LitTaken
    <3>2. CASE ChainJob
      BY <1>0, <2>0, <3>1, <3>2 DEF ChainJob, Idle
    <3>3. CASE KeyJob
      <4>1. graph /\ Head(jobs).over \in Overs
        BY <1>0, <2>0, <3>3, Took DEF KeyJob, OwnerTypes
      <4>2. sink' # Nobody /\ txpc' # "unkey"
        BY <2>0, <3>3, <4>1, Names DEF KeyJob
      <4>3. QED
        BY <2>0, <3>1, <4>2
    <3>4. CASE LetGo("unkey")
      BY <3>1, <3>4 DEF LetGo, Idle
    <3>5. CASE LetGo("drop")
      BY <1>0, <2>0, <3>5, LitTaken DEF LetGo, Idle, Excused
    <3>6. QED
      BY <1>6, <3>2, <3>3, <3>4, <3>5
  <2>3. QED
    BY <2>1, <2>2
<1>7. CASE Attached
  <2>1. UNCHANGED <<jobs, status>> /\ txpc' = "idle" /\ txpc = "attach" /\ sink' = next
    BY <1>7 DEF Attached
  <2>2. next # Nobody
    BY <2>1 DEF Owner, HandedOver
  <2>3. QED
    BY <1>a, <2>1, <2>2
<1>8. CASE Unkeyed
  <2>1. UNCHANGED <<jobs, status>> /\ txpc = "unkey"
    BY <1>0, <1>8 DEF Unkeyed
  <2>2. QED
    BY <1>a, <2>1
<1>9. CASE GiveUp
  <2>1. UNCHANGED <<jobs, status, sink, lost>> /\ txpc' = "lost" /\ txpc = "idle"
    BY <1>9 DEF GiveUp
  <2>2. QED
    BY <1>a, <2>1
<1>10. CASE ChainFails \/ ChainGone \/ RebuildBreaks
  BY <1>0, <1>10 DEF ChainFails, ChainGone, RebuildBreaks
<1>11. QED
  BY <1>1, <1>2, <1>3, <1>4, <1>5, <1>6, <1>7, <1>8, <1>9, <1>10, Steps DEF Threads

(* A radio just opened, with a chain or without. *)
LEMMA InitOInv == Init => OInv
<1> SUFFICES ASSUME Init PROVE OInv
  OBVIOUS
<1> USE DEF Init
<1>1. IInv
  BY InitIInv
<1>2. DriverTypeOK
  BY <1>1 DEF IInv, Claims
<1>3. Choices \subseteq Dials
  BY OverAssumption DEF Choices, Dials
<1>4. AppTypeOK
  <2>1. Bits
    BY DEF Bits
  <2>2. Whereabouts
    BY <1>3, OverAssumption DEF Whereabouts, Streams, Dials
  <2>3. jobs \in Seq(Jobs)
    OBVIOUS
  <2>4. QED
    BY <2>1, <2>2, <2>3 DEF AppTypeOK
<1>5. rf = "idle" /\ made = 0 /\ \A n \in Overs : st[n] = "unmade"
  BY DEF DriverInit
<1>6. Owner
  <2>1. Numbered
    BY <1>5 DEF Numbered, Fresh, Streaming
  <2>2. Len(jobs) = 0 /\ \A n : ~HasKey(jobs, n)
    BY DEF HasKey
  <2>3. Apart
    BY <2>2 DEF Apart, KeysOnce
  <2>4. Reached
    BY <1>5, <2>2, Names DEF Reached, InHand, Streaming, Fresh
  <2>5. HandedOver /\ Seated
    BY DEF HandedOver, Seated
  <2>6. graph => ChainAt(jobs, Graphed, 1)
    BY DEF ChainAt, Graphed, Undropped
  <2>7. Chained
    BY <2>2, <2>6 DEF Chained, ChainFirst, ChainAfter
  <2>8. QED
    BY <2>1, <2>3, <2>4, <2>5, <2>7 DEF Owner
<1>7. Announced
  BY <1>5 DEF Announced, Starting
<1>8. Excused /\ Solo /\ Lit
  <2>1. Len(jobs) = 0 /\ \A n : ~HasKey(jobs, n)
    BY DEF HasKey
  <2>2. Excused /\ Lit
    BY <2>1 DEF Excused, Lit, Without
  <2>3. ~Handing("rf") /\ hb["tx"].pc = "idle" /\ \A n \in Overs : pend # n
    BY Names DEF DriverInit, Handing, Threads
  <2>4. Solo
    BY <1>5, <2>1, <2>3 DEF Solo
  <2>5. QED
    BY <2>2, <2>4
<1>9. QED
  BY <1>2, <1>4, <1>6, <1>7, <1>8, TypesSplit DEF OInv

(* A step that changes nothing at all. *)
LEMMA OInvStill ==
  ASSUME OInv, UNCHANGED <<vars, world>>
  PROVE  OInv'
<1>1. UNCHANGED app /\ UNCHANGED driver /\ world' = world
  BY DEF vars
<1>2. OwnerTypes /\ Owner /\ Announced /\ TypeOK
  BY TypesForOwner DEF OInv
<1>3. TypeOK'
  <2>1. DriverTypeOK'
    BY <1>1, <1>2, DriverUntouched, TypesSplit
  <2>2. AppTypeOK'
    BY <1>1, <1>2, TypesSplit DEF app, loop, handle, readings, worker, AppTypeOK, Bits, Whereabouts
  <2>3. QED
    BY <2>1, <2>2, TypesSplitNext
<1>4. Owner'
  BY <1>1, <1>2, OwnerKept DEF app, loop, handle, worker, driver, Streaming
<1>5. Announced'
  BY <1>1, <1>2, AnnouncedKept DEF app, loop, handle, driver, Starting, Announced
<1>6. Excused' /\ Lit' /\ Solo'
  BY <1>1, <1>2, WorldStays DEF app, loop, readings, worker, driver, OInv, Excused, Lit, Solo, Handing
<1>7. QED
  BY <1>3, <1>4, <1>5, <1>6 DEF OInv

(* Every step keeps the whole invariant. *)
LEMMA OInvNext ==
  ASSUME OInv, [Next /\ world' = world]_<<vars, world>>
  PROVE  OInv'
<1>1. TypeOK /\ Owner /\ Announced /\ Numbered /\ Excused /\ Solo /\ Lit
  BY DEF OInv, Owner
<1>2. CASE Next /\ world' = world
  <2>1. TypeOK'
    BY <1>1, <1>2, TypesKept
  <2>2. Owner'
    BY <1>1, <1>2, OwnerNext
  <2>3. Announced'
    BY <1>1, <1>2, AnnouncedNext
  <2>4. Excused' /\ Solo' /\ Lit'
    BY <1>1, <1>2, ExcusedNext, SoloNext, LitNext
  <2>5. QED
    BY <2>1, <2>2, <2>3, <2>4 DEF OInv
<1>3. CASE UNCHANGED <<vars, world>>
  BY <1>3, OInvStill
<1>4. QED
  BY <1>2, <1>3

(* Whatever the operator and the board do, the invariant holds. *)
THEOREM OverInvariant == Spec => []OInv
<1>1. QED
  BY InitOInv, OInvNext, PTL DEF Spec

(* Every variable of the two threads keeps its type. *)
THEOREM OverTypes == Spec => []TypeOK
<1>1. OInv => TypeOK
  BY DEF OInv
<1>2. QED
  BY <1>1, OverInvariant, PTL

-----------------------------------------------------------------------------
(* What follows from it.                                                   *)

(* The invariant puts a stream in one place at most, and one that streams  *)
(* in exactly one. *)
LEMMA HeldOnce ==
  ASSUME OInv, NEW n \in Overs
  PROVE  /\ Streaming(n) => \E h \in Holders(n) : Holders(n) = {h}
         /\ n > made => Holders(n) = {}
<1>1. n # Nobody /\ n \in Nat /\ made \in Nat
  BY Names DEF OInv, TypeOK, DriverTypeOK
<1>2. Apart /\ Reached
  BY DEF OInv, Owner
<1>4. Holders(n) = {h \in {"start", "pend", "jobs", "waiting", "sink", "next"} :
                      \/ h = "start" /\ n = made /\ rf \in {"tune", "keyed"}
                      \/ h = "pend" /\ pend = n
                      \/ h = "jobs" /\ HasKey(jobs, n)
                      \/ h = "waiting" /\ waiting = n
                      \/ h = "sink" /\ sink = n
                      \/ h = "next" /\ next = n}
  BY DEF Holders, HasKey
<1>5. InHand(n) => n <= made /\ (rf \in {"tune", "keyed"} => n # made)
  BY <1>2 DEF Reached, Fresh
<1>6. /\ pend = n => sink # n /\ next # n /\ waiting # n /\ ~HasKey(jobs, n)
      /\ sink = n => next # n /\ waiting # n /\ ~HasKey(jobs, n)
      /\ next = n => waiting # n /\ ~HasKey(jobs, n)
      /\ waiting = n => ~HasKey(jobs, n)
  BY <1>1, <1>2 DEF Apart
<1>7. n > made => Holders(n) = {}
  BY <1>1, <1>4, <1>5 DEF InHand
<1>8. ASSUME Streaming(n) PROVE \E h \in Holders(n) : Holders(n) = {h}
  <2>1. CASE n = made /\ rf \in {"tune", "keyed"}
    <3>1. Holders(n) = {"start"}
      BY <2>1, <1>4, <1>5 DEF InHand
    <3>2. QED
      BY <3>1
  <2>2. CASE ~(n = made /\ rf \in {"tune", "keyed"})
    <3>1. InHand(n)
      BY <1>2, <1>8, <2>2 DEF Reached
    <3>2. \/ Holders(n) = {"pend"} \/ Holders(n) = {"jobs"} \/ Holders(n) = {"waiting"}
          \/ Holders(n) = {"sink"} \/ Holders(n) = {"next"}
      BY <3>1, <2>2, <1>4, <1>6 DEF InHand
    <3>3. QED
      BY <3>2
  <2>3. QED
    BY <2>1, <2>2
<1>9. QED
  BY <1>7, <1>8

(* An open transmit stream is in one pair of hands, whatever the operator, *)
(* the board and the two threads do: key_up, hand_over_transmitter, and    *)
(* the transmit thread's attach, hand_back and clear.                      *)
THEOREM StreamsAreOwned == Spec => []StreamHasOneOwner
<1>1. OInv => StreamHasOneOwner
  BY HeldOnce DEF StreamHasOneOwner
<1>2. QED
  BY <1>1, OverInvariant, PTL

(* ON AIR on the screen is a radio on the transmit thread's chain, or on   *)
(* its way there, or one whose loss is about to be told, unless an edit or *)
(* its own run took the chain away; and for an operator who waits for the  *)
(* rebuild a key let up is a radio nobody keys.                            *)
THEOREM LampIsTrue == Spec => []LampTellsTheAir
<1>1. ASSUME OInv PROVE LampMeansOnAir
  <2>1. KeyLast(jobs) => \E i \in 1..Len(jobs) : jobs[i].what = "key"
    BY DEF KeyLast
  <2>2. sink # Nobody => graph
    BY <1>1 DEF OInv, Owner, Seated
  <2>3. QED
    BY <1>1, <2>1, <2>2 DEF OInv, Announced, Lit, LampMeansOnAir, LampOnlyOnAir
<1>2. OInv => LampTellsTheAir
  BY <1>1 DEF OInv, Announced, LampTellsTheAir, KeyUpIsOff
<1>3. QED
  BY <1>2, OverInvariant, PTL

(* Only the radio going away lets up a key held down: every other way the  *)
(* chain is let go of follows a key command, or ends a tone.               *)
LEMMA HeldStep ==
  ASSUME OInv, [Next /\ world' = world]_<<vars, world>>
  PROVE  [armed /\ ~armed' => ~down' \/ lost \/ Breaks \/ (Eager /\ ending)]_vars
<1> SUFFICES ASSUME Next, armed, ~armed'
             PROVE  ~down' \/ lost \/ Breaks \/ (Eager /\ ending)
  BY DEF vars
<1> USE DEF loop, handle, app, worker, readings
<1>1. CASE KeyUp
  BY <1>1 DEF KeyUp
<1>2. CASE LostCheck
  BY <1>2 DEF LostCheck
<1>3. CASE FinishOver
  BY <1>3 DEF FinishOver, OInv, Announced
<1>4. CASE RebuildBreaks
  BY <1>4 DEF RebuildBreaks
<1>5. CASE StartTxStep \/ Refused \/ KeySame \/ KeyForRebuild \/ Rebuild \/ Board
  BY <1>5 DEF StartTxStep, Refused, KeySame, KeyForRebuild, Rebuild, Board
<1>6. CASE CommandsDone \/ NoRetune \/ Retune \/ NoRebuild \/ Read \/ StillEnding \/ BackToReceive
  BY <1>6 DEF CommandsDone, NoRetune, Retune, NoRebuild, Read, StillEnding, BackToReceive
<1>7. CASE (\E mic \in BOOLEAN : KeyDown(mic)) \/ (\E f \in Choices : Center(f)) \/ Edit
  BY <1>7 DEF KeyDown, Center, Edit
<1>8. CASE TransmitThread \/ (HandingBack("rf") /\ UNCHANGED app)
  BY <1>8 DEF TransmitThread, TakesJob, ChainJob, KeyJob, LetGo, Finishes, Attached, Unkeyed,
              GivenUp, GiveUp, StillRefused, ChainFails, ChainGone
<1>9. QED
  BY <1>1, <1>2, <1>3, <1>4, <1>5, <1>6, <1>7, <1>8 DEF Next, RadioThread, Operator

(* Nothing but the radio going away, an edit that takes the chain away or  *)
(* a tone the operator keyed over lets up a key held down.                 *)
THEOREM KeyIsHeld == Spec => HeldKeyHolds
<1>1. QED
  BY OverInvariant, HeldStep, PTL DEF Spec, HeldKeyHolds

-----------------------------------------------------------------------------
(* The course of an over with an operator who waits and a sound board: the *)
(* receiver at home, the transmitter being started, its stream waiting for *)
(* a rebuild, keyed, let up, handed back, and on the way home.             *)
Only(q, kinds) == \A i \in 1..Len(q) : q[i].what \in kinds
KeysFor(q, n) == \A i \in 1..Len(q) : q[i].what = "key" => q[i].over = n

(* One unkey, with no key after it. *)
UnkeyAt(q, k) ==
  /\ k \in 1..Len(q) /\ q[k].what = "unkey"
  /\ \A i \in 1..Len(q) : /\ i < k => q[i].what \in {"chain", "key"}
                          /\ i > k => q[i].what = "chain"

Listening ==
  /\ rf = "idle" /\ OverDone /\ ~Handing("tx")
  /\ rx = "live" /\ tx = Nobody /\ claim = Reader
Sending ==
  /\ Alone("live") /\ ~Handing("tx") /\ Away
  /\ tx = made /\ claim = made /\ tuned = Air /\ wantC = Air
Speaking == rf = "idle" /\ Sending /\ restore[made]
ComingBack ==
  /\ rf = "idle" /\ tx = Nobody /\ made \in Overs
  /\ hb["tx"].over = made /\ restore[made]
  /\ \/ hb["tx"].pc = "drain" /\ Alone("ending") /\ Away /\ claim = made
     \/ hb["tx"].pc \in {"sleep", "open"} /\ OverDone /\ Away /\ claim = Nobody
     \/ hb["tx"].pc = "slot" /\ OverDone /\ Away /\ claim = Reader
     \/ hb["tx"].pc \in {"unsilence", "idle"} /\ OverDone /\ rx = "live" /\ claim = Reader

Quiet == Only(jobs, {"chain"}) /\ sink = Nobody /\ txpc = "idle"
LetUp == b2r /\ ~status /\ ~down /\ ~ending /\ pend = Nobody

AtHome == Listening /\ Quiet /\ Settled /\ pend = Nobody /\ ~down /\ center = plan
Begun ==
  /\ Quiet /\ Settled /\ pend = Nobody /\ center = Air
  /\ was
  /\ \/ /\ rf = "open" /\ OverDone /\ claim = Nobody
        /\ tx = Nobody /\ Away /\ ~Handing("tx") /\ wantC = Air
     \/ /\ rf = "writer" /\ OverDone /\ made \in Overs /\ claim = made /\ tuned = Air
        /\ tx = Nobody /\ Away /\ ~Handing("tx") /\ wantC = Air
     \/ rf = "tune" /\ Sending
     \/ rf = "keyed" /\ Sending /\ restore[made]
Waiting == Speaking /\ Quiet /\ Settled /\ pend = made
Keying ==
  /\ Speaking /\ keyed /\ ~draining /\ ~b2r /\ pend = Nobody
  /\ txpc = "idle" /\ sink \in {Nobody, made}
  /\ Only(jobs, {"chain", "key"}) /\ KeysFor(jobs, made)
Leaving ==
  /\ Speaking /\ LetUp /\ draining
  /\ txpc = "idle" /\ sink \in {Nobody, made}
  /\ (\E k \in 1..Len(jobs) : UnkeyAt(jobs, k)) /\ KeysFor(jobs, made)
HandedBack ==
  /\ ComingBack /\ LetUp /\ draining /\ txpc = "unkey" /\ Only(jobs, {"chain"})
Homing == Listening /\ LetUp /\ ~draining /\ ~keyed /\ Quiet

Stages == AtHome \/ Begun \/ Waiting \/ Keying \/ Leaving \/ HandedBack \/ Homing
Steady == ~Handing("rf") /\ next = Nobody /\ ~refused /\ ~lost
Course == Calm => Steady /\ Stages

course == <<shared, center, tuned, claim, made, st, restore, rf, was, hb,
            down, wantC, plan, pend, ending, b2r, status, readings, jobs, txpc, sink, next, refused>>

(* A step that touches none of it. *)
LEMMA CourseStill ==
  ASSUME UNCHANGED course
  PROVE  /\ Steady => Steady'
         /\ AtHome => AtHome'
         /\ Begun => Begun'
         /\ Waiting => Waiting'
         /\ Keying => Keying'
         /\ Leaving => Leaving'
         /\ HandedBack => HandedBack'
         /\ Homing => Homing'
  BY DEF course, shared, readings, Steady, AtHome, Begun, Waiting, Keying, Leaving, HandedBack, Homing,
         Listening, Sending, Speaking, ComingBack, Quiet, LetUp, Settled, OverDone, Alone, Away, Handing

(* A job sent behind the others. *)
LEMMA Behind ==
  ASSUME NEW q \in Seq(Jobs), NEW j \in Jobs
  PROVE  /\ \A K : Only(q, K) /\ j.what \in K => Only(Append(q, j), K)
         /\ \A n : KeysFor(q, n) /\ (j.what = "key" => j.over = n) => KeysFor(Append(q, j), n)
         /\ \A k : UnkeyAt(q, k) /\ j.what = "chain" => UnkeyAt(Append(q, j), k)
         /\ Only(q, {"chain", "key"}) /\ j.what = "unkey" => UnkeyAt(Append(q, j), Len(q) + 1)
<1> DEFINE r == Append(q, j)
<1>1. /\ Len(q) \in Nat /\ Len(r) = Len(q) + 1
      /\ \A i \in 1..Len(q) : r[i] = q[i]
      /\ r[Len(q) + 1] = j
  OBVIOUS
<1> HIDE DEF r
<1>2. /\ \A K : Only(q, K) /\ j.what \in K => Only(r, K)
      /\ \A n : KeysFor(q, n) /\ (j.what = "key" => j.over = n) => KeysFor(r, n)
  BY <1>1 DEF Only, KeysFor
<1>3. ASSUME NEW k, UnkeyAt(q, k), j.what = "chain" PROVE UnkeyAt(r, k)
  BY <1>1, <1>3 DEF UnkeyAt
<1>4. Only(q, {"chain", "key"}) /\ j.what = "unkey" => UnkeyAt(r, Len(q) + 1)
  BY <1>1 DEF UnkeyAt, Only
<1>5. QED
  BY <1>2, <1>3, <1>4 DEF r

(* The first job taken off. *)
LEMMA Ahead ==
  ASSUME NEW q \in Seq(Jobs), q # <<>>
  PROVE  /\ \A K : Only(q, K) => Only(Tail(q), K) /\ Head(q).what \in K
         /\ \A n : KeysFor(q, n) => KeysFor(Tail(q), n) /\ (Head(q).what = "key" => Head(q).over = n)
         /\ \A k : UnkeyAt(q, k) =>
              \/ Head(q).what = "unkey" /\ Only(q, {"chain", "unkey"}) /\ Only(Tail(q), {"chain"})
              \/ Head(q).what \in {"chain", "key"} /\ k - 1 \in 1..Len(Tail(q))
                 /\ UnkeyAt(Tail(q), k - 1)
<1> DEFINE r == Tail(q)
<1>1. /\ Len(q) \in Nat \ {0} /\ Len(r) = Len(q) - 1
      /\ \A i \in 1..Len(r) : r[i] = q[i + 1]
      /\ Head(q) = q[1] /\ 1 \in 1..Len(q)
  OBVIOUS
<1> HIDE DEF r
<1>2. /\ \A K : Only(q, K) => Only(r, K) /\ Head(q).what \in K
      /\ \A n : KeysFor(q, n) => KeysFor(r, n) /\ (Head(q).what = "key" => Head(q).over = n)
  BY <1>1 DEF Only, KeysFor
<1>3. ASSUME NEW k, UnkeyAt(q, k)
      PROVE  \/ Head(q).what = "unkey" /\ Only(q, {"chain", "unkey"}) /\ Only(r, {"chain"})
             \/ Head(q).what \in {"chain", "key"} /\ k - 1 \in 1..Len(r) /\ UnkeyAt(r, k - 1)
  <2>1. CASE k = 1
    BY <1>1, <1>3, <2>1 DEF UnkeyAt, Only
  <2>2. CASE k # 1
    <3>1. k - 1 \in 1..Len(r) /\ q[1].what \in {"chain", "key"}
      BY <1>1, <1>3, <2>2 DEF UnkeyAt
    <3>2. UnkeyAt(r, k - 1)
      BY <1>1, <1>3, <3>1 DEF UnkeyAt
    <3>3. QED
      BY <1>1, <3>1, <3>2
  <2>3. QED
    BY <2>1, <2>2
<1>4. QED
  BY <1>2, <1>3 DEF r

(* What the two threads and the driver are working with. *)
LEMMA CourseTypes ==
  ASSUME OInv
  PROVE  /\ jobs \in Seq(Jobs) /\ st \in [Overs -> {"unmade", "live", "dead", "ending", "gone"}]
         /\ restore \in [Overs -> BOOLEAN] /\ hb \in Backs /\ made \in 0..MaxOvers
         /\ sink \in Streams /\ pend \in Streams
  BY TypesForOwner DEF OInv, OwnerTypes, TypeOK, DriverTypeOK, Backs, Places

(* Calm is none of the other worlds. *)
LEMMA CalmWorld == Calm => ~Flaky /\ ~Eager /\ ~Breaks /\ ~Fails
  BY DEF Calm, Flaky, Eager, Breaks, Fails

(* The loop going round, with nothing to do. *)
LEMMA Rounds ==
  ASSUME OInv, Steady, Stages,
         \/ CommandsDone \/ NoRetune \/ NoRebuild \/ StillEnding \/ Edit \/ LostCheck \/ Read
  PROVE  UNCHANGED course
<1> USE DEF course, readings, shared
<1>1. CASE CommandsDone \/ NoRetune \/ NoRebuild \/ StillEnding \/ Edit
  BY <1>1 DEF CommandsDone, NoRetune, NoRebuild, StillEnding, Edit, driver, handle, worker
<1>2. CASE LostCheck
  <2>1. lost = FALSE
    BY DEF OInv, TypeOK, Steady
  <2>2. QED
    BY <1>2, <2>1 DEF LostCheck, driver, handle, worker
<1>3. CASE Read
  <2>1. /\ rf \in {"idle", "open", "writer", "tune", "keyed"}
        /\ rf = "idle" => silent \/ rx = "live"
    BY DEF Stages, AtHome, Begun, Waiting, Keying, Leaving, HandedBack, Homing, Listening, Sending,
           Speaking, ComingBack, Away
  <2>2. ReadBlock
    BY <1>3, <2>1 DEF Read, ReadFlat, ReadNothing, Revive
  <2>3. QED
    BY <1>3, <2>2 DEF Read, ReadBlock, handle, worker
<1>4. QED
  BY <1>1, <1>2, <1>3

(* start_tx: nothing on a sound board refuses it. *)
LEMMA StartCourse ==
  ASSUME OInv, Calm, Steady, Stages, StartTxStep
  PROVE  Steady' /\ Begun'
<1>0. Begun /\ ~Flaky
  BY CalmWorld DEF Stages, AtHome, Waiting, Keying, Leaving, HandedBack, Homing, Listening, Speaking,
                   ComingBack, StartTxStep, StartingTx, OpenTx, IntoWriter, TuneTx
<1>1. UNCHANGED app /\ hb' = hb
  BY DEF StartTxStep, StartingTx, OpenTx, IntoWriter, TuneTx
<1>2. Steady' /\ Quiet' /\ Settled' /\ pend' = Nobody /\ wantC' = wantC
  BY <1>0, <1>1 DEF Steady, Begun, Quiet, Settled, Handing, app, loop, readings, worker
<1> USE CourseTypes, <1>0, <1>1, <1>2, Names
        DEF Begun, Sending, Alone, OverDone, Away, Handing, shared, NotKeyed
<1>3. CASE OpenTx
  <2>1. made' \in Overs
    BY <1>3 DEF OpenTx, Overs, OInv, Owner, Numbered
  <2>2. QED
    BY <1>3, <2>1 DEF OpenTx
<1>4. CASE IntoWriter
  BY <1>4 DEF IntoWriter
<1>5. CASE TuneTx
  BY <1>5 DEF TuneTx, CtlWorks
<1>6. QED
  BY <1>3, <1>4, <1>5 DEF StartTxStep, StartingTx

(* The transmitter is up: keyed at once, or waiting for the rebuild. *)
LEMMA KeyedCourse ==
  ASSUME OInv, Calm, Steady, Stages, KeySame \/ KeyForRebuild
  PROVE  Steady' /\ (Keying' \/ Waiting')
<1>0. Begun
  BY DEF Stages, AtHome, Waiting, Keying, Leaving, HandedBack, Homing, Listening, Speaking,
         ComingBack, KeySame, KeyForRebuild
<1>1. /\ UNCHANGED <<shared, center, tuned, claim, made, st, restore, hb, wantC, b2r, draining>>
      /\ UNCHANGED <<lost, worker>> /\ rf = "keyed" /\ rf' = "idle"
  BY DEF KeySame, KeyForRebuild, readings
<1>2. Steady' /\ Speaking' /\ sink' = Nobody /\ txpc' = "idle"
  BY <1>0, <1>1 DEF Begun, Steady, Speaking, Sending, Quiet, Handing, Alone, Away, worker, shared
<1>3. CASE KeySame
  <2>1. made \in Overs /\ jobs' = Append(jobs, Job("key", made))
    BY <1>0, <1>3 DEF KeySame, Begun, Sending, Alone
  <2>2. Only(jobs, {"chain", "key"}) /\ KeysFor(jobs, made)
    BY <1>0 DEF Begun, Quiet, Only, KeysFor
  <2>3. Only(jobs', {"chain", "key"}) /\ KeysFor(jobs', made)
    BY <2>1, <2>2, Behind, JobTypes, CourseTypes
  <2>4. QED
    BY <1>0, <1>1, <1>2, <1>3, <2>3 DEF KeySame, Keying, Begun, Settled
<1>4. CASE KeyForRebuild
  BY <1>0, <1>1, <1>2, <1>4 DEF KeyForRebuild, Waiting, Quiet, Settled, Begun, readings
<1>5. QED
  BY <1>3, <1>4

(* A chain sent, and behind it the stream that was waiting for it. *)
LEMMA RebuildSends ==
  ASSUME OInv, Rebuild
  PROVE  \E q \in Seq(Jobs) :
           /\ \A K : Only(jobs, K) /\ "chain" \in K => Only(q, K)
           /\ \A n : KeysFor(jobs, n) => KeysFor(q, n)
           /\ \A k : UnkeyAt(jobs, k) => UnkeyAt(q, k)
           /\ Only(jobs, {"chain"}) => \A n : KeysFor(q, n)
           /\ jobs' = IF pend # Nobody THEN Append(q, Job("key", pend)) ELSE q
<1>0. jobs \in Seq(Jobs) /\ pend \in Streams
  BY CourseTypes
<1>1. PICK chain \in {<<>>, <<Job("chain", Nobody)>>} :
        jobs' = jobs \o chain \o (IF pend # Nobody THEN <<Job("key", pend)>> ELSE <<>>)
  BY DEF Rebuild
<1> DEFINE q == jobs \o chain
<1>2. /\ q \in Seq(Jobs)
      /\ \A K : Only(jobs, K) /\ "chain" \in K => Only(q, K)
      /\ \A n : KeysFor(jobs, n) => KeysFor(q, n)
      /\ \A k : UnkeyAt(jobs, k) => UnkeyAt(q, k)
  <2>1. CASE chain = <<>>
    <3>1. q = jobs
      BY <1>0, <2>1
    <3>2. QED
      BY <1>0, <3>1
  <2>2. CASE chain = <<Job("chain", Nobody)>>
    <3>1. Job("chain", Nobody) \in Jobs /\ Job("chain", Nobody).what = "chain"
      BY DEF Job, Jobs, Streams
    <3>2. q = Append(jobs, Job("chain", Nobody))
      BY <1>0, <2>2, <3>1
    <3>3. q \in Seq(Jobs)
      BY <1>0, <3>1, <3>2
    <3> HIDE DEF q
    <3>4. QED
      BY <1>0, <3>1, <3>2, <3>3, Behind
  <2>3. QED
    BY <2>1, <2>2
<1>3. jobs' = q \o (IF pend # Nobody THEN <<Job("key", pend)>> ELSE <<>>)
  BY <1>1 DEF q
<1> HIDE DEF q
<1>4. jobs' = IF pend # Nobody THEN Append(q, Job("key", pend)) ELSE q
  <2>1. CASE pend = Nobody
    BY <1>2, <1>3, <2>1
  <2>2. CASE pend # Nobody
    <3>1. Job("key", pend) \in Jobs
      BY <1>0, <2>2, JobTypes DEF Streams
    <3>2. QED
      BY <1>2, <1>3, <2>2, <3>1
  <2>3. QED
    BY <2>1, <2>2
<1>5. Only(jobs, {"chain"}) => \A n : KeysFor(q, n)
  BY <1>2 DEF Only, KeysFor
<1>6. QED
  BY <1>2, <1>4, <1>5

(* The rebuild keys what waits for it, and is one more chain otherwise. *)
LEMMA RebuildCourse ==
  ASSUME OInv, Calm, Steady, Stages, Rebuild
  PROVE  Steady' /\ Stages'
<1>1. PICK q \in Seq(Jobs) :
        /\ \A K : Only(jobs, K) /\ "chain" \in K => Only(q, K)
        /\ \A n : KeysFor(jobs, n) => KeysFor(q, n)
        /\ \A k : UnkeyAt(jobs, k) => UnkeyAt(q, k)
        /\ Only(jobs, {"chain"}) => \A n : KeysFor(q, n)
        /\ jobs' = IF pend # Nobody THEN Append(q, Job("key", pend)) ELSE q
  BY RebuildSends
<1>2. /\ UNCHANGED <<driver, down, wantC, plan, ending, b2r, draining, lost, worker>>
      /\ pend' = Nobody
      /\ keyed' = (keyed \/ pend # Nobody) /\ status' = (status \/ keyingFor)
  BY DEF Rebuild
<1>3. Steady'
  BY <1>2 DEF Steady, Handing, driver, worker
<1>4. keyed \in BOOLEAN /\ status \in BOOLEAN /\ pend \in Streams
  BY DEF OInv, TypeOK
<1>5. ~Begun /\ (keyingFor => pend # Nobody)
  BY DEF OInv, Announced, Starting, Begun, Rebuild
<1> USE DEF driver, worker
<1>6. CASE Waiting
  <2>1. made \in Overs /\ made # Nobody /\ made \in Streams
    BY <1>6, Names DEF Waiting, Speaking, Sending, Alone, Streams
  <2>2. Only(q, {"chain", "key"}) /\ KeysFor(q, made)
    <3>1. Only(q, {"chain"})
      BY <1>1, <1>6 DEF Waiting, Quiet
    <3>2. QED
      BY <1>1, <1>6, <3>1 DEF Waiting, Quiet, Only
  <2>3. jobs' = Append(q, Job("key", made))
    BY <1>1, <1>6, <2>1 DEF Waiting
  <2>4. Only(jobs', {"chain", "key"}) /\ KeysFor(jobs', made)
    BY <2>1, <2>2, <2>3, Behind, JobTypes
  <2>5. Keying'
    BY <1>2, <1>4, <1>6, <2>1, <2>4
       DEF Waiting, Keying, Quiet, Settled, Speaking, Sending, Alone, Away, Handing
  <2>6. QED
    BY <1>3, <2>5 DEF Stages
<1>7. CASE pend = Nobody
  <2>1. /\ jobs' = q /\ keyed' = keyed /\ status' = status /\ pend' = pend
    BY <1>1, <1>2, <1>4, <1>5, <1>7
  <2>2. /\ Only(jobs, {"chain"}) => Only(jobs', {"chain"})
        /\ Only(jobs, {"chain", "key"}) => Only(jobs', {"chain", "key"})
        /\ KeysFor(jobs, made) => KeysFor(jobs', made)
        /\ \A k : UnkeyAt(jobs, k) => UnkeyAt(jobs', k)
    BY <1>1, <2>1
  <2>3. (\E k \in 1..Len(jobs) : UnkeyAt(jobs, k)) => \E k \in 1..Len(jobs') : UnkeyAt(jobs', k)
    BY <2>2 DEF UnkeyAt
  <2> USE <1>2, <2>1, <2>2, <2>3
          DEF Listening, Sending, Speaking, ComingBack, Quiet, LetUp, Settled, OverDone, Alone, Away,
              Handing
  <2>4. AtHome => AtHome'
    BY DEF AtHome
  <2>5. Keying => Keying'
    BY DEF Keying
  <2>6. Leaving => Leaving'
    BY DEF Leaving
  <2>7. HandedBack => HandedBack'
    BY DEF HandedBack
  <2>8. Homing => Homing'
    BY DEF Homing
  <2>9. QED
    BY <1>3, <1>5, <1>6, <2>4, <2>5, <2>6, <2>7, <2>8 DEF Stages
<1>8. QED
  BY <1>5, <1>6, <1>7
     DEF Stages, AtHome, Keying, Leaving, HandedBack, Homing, LetUp

(* A retune moves the plan with the dial, and only with nothing keyed. *)
LEMMA RetuneCourse ==
  ASSUME OInv, Steady, Stages, Retune
  PROVE  Steady' /\ Stages'
<1>1. UNCHANGED <<rx, tx, silent, claim, made, st, restore, rf, was, hb, down, pend, ending, b2r,
                  status, readings, jobs, worker>>
  BY DEF Retune, shared, readings
<1>2. /\ phase = "retune" /\ wantC # Air
      /\ (plan' = wantC /\ center' = wantC) \/ UNCHANGED <<plan, center>>
  BY DEF Retune, TuneTo
<1>3. ~Begun /\ ~Waiting /\ ~Keying /\ ~Leaving
  BY <1>2 DEF OInv, Announced, Starting, Begun, Waiting, Keying, Leaving, Speaking, Sending
<1> USE <1>1, <1>2 DEF Listening, ComingBack, Quiet, LetUp, Settled, OverDone, Alone, Away, Handing,
          worker, readings
<1>4. Steady'
  BY DEF Steady
<1>5. AtHome => AtHome'
  BY DEF AtHome
<1>6. HandedBack => HandedBack'
  BY DEF HandedBack
<1>7. Homing => Homing'
  BY DEF Homing
<1>8. QED
  BY <1>3, <1>4, <1>5, <1>6, <1>7 DEF Stages

(* The key let up, at once or when its tone is out. *)
LEMMA LetUpCourse ==
  ASSUME OInv, Calm, Steady, Stages, KeyUp \/ FinishOver
  PROVE  Steady' /\ Stages'
<1>1. /\ UNCHANGED <<driver, wantC, plan, pend, lost, worker>>
      /\ \/ UnkeyNow
         \/ ending' = TRUE /\ UNCHANGED <<keyed, draining, status, b2r, jobs>>
         \/ UNCHANGED <<ending, keyed, draining, status, b2r, jobs>>
  BY DEF KeyUp, FinishOver
<1>2. Steady'
  BY <1>1 DEF Steady, Handing, driver, worker
<1>3. down' = FALSE
  BY CalmWorld DEF OInv, TypeOK, Announced, KeyUp, FinishOver
<1>4. ~Begun /\ ~Waiting
  <2>1. Begun => phase = "cmds" /\ rf # "idle"
    BY DEF OInv, Announced, Starting, Begun
  <2>2. Waiting => keyingFor /\ phase \in Before
    BY CalmWorld, Names DEF OInv, Announced, Waiting, Speaking, Sending, Alone
  <2>3. QED
    BY <2>1, <2>2, CalmWorld DEF KeyUp, FinishOver, Before
<1> USE <1>1, <1>3 DEF driver, worker, Listening, Sending, Speaking, ComingBack, Quiet, LetUp, Settled,
              OverDone, Alone, Away, Handing
<1>5. CASE Keying
  <2>1. CASE UnkeyNow
    <3>1. /\ ending' = FALSE /\ draining' = TRUE /\ status' = FALSE /\ b2r' = TRUE
          /\ jobs' = Append(jobs, Unkey)
      BY <1>5, <2>1 DEF UnkeyNow, NotKeyed, Keying, Unkey
    <3>2. Unkey \in Jobs /\ Unkey.what = "unkey" /\ jobs \in Seq(Jobs)
      BY CourseTypes DEF Unkey, Job, Jobs, Streams
    <3>3. UnkeyAt(jobs', Len(jobs) + 1) /\ KeysFor(jobs', made)
      BY <1>5, <3>1, <3>2, Behind DEF Keying
    <3>4. \E k \in 1..Len(jobs') : UnkeyAt(jobs', k)
      BY <3>3 DEF UnkeyAt
    <3>5. Leaving'
      BY <1>5, <3>1, <3>3, <3>4 DEF Keying, Leaving
    <3>6. QED
      BY <1>2, <3>5 DEF Stages
  <2>2. CASE UNCHANGED <<keyed, draining, status, b2r, jobs>>
    <3>1. Keying'
      BY <1>5, <2>2 DEF Keying
    <3>2. QED
      BY <1>2, <3>1 DEF Stages
  <2>3. QED
    BY <2>1, <2>2
<1>6. CASE AtHome
  <2>1. UNCHANGED <<keyed, draining, status, b2r, jobs>>
    BY <1>6 DEF UnkeyNow, NotKeyed, AtHome
  <2>2. AtHome'
    BY <1>6, <2>1 DEF AtHome
  <2>3. QED
    BY <1>2, <2>2 DEF Stages
<1>7. CASE Leaving \/ HandedBack \/ Homing
  BY <1>7 DEF Leaving, HandedBack, Homing, KeyUp, FinishOver
<1>8. QED
  BY <1>4, <1>5, <1>6, <1>7 DEF Stages

(* back_to_receive waits for the stream to be handed back. *)
LEMMA BackCourse ==
  ASSUME OInv, Steady, Stages, BackToReceive
  PROVE  Steady' /\ Stages'
<1>1. CASE ~(b2r /\ ~draining)
  <2>1. UNCHANGED course
    BY <1>1 DEF BackToReceive, course, shared, readings, handle, worker
  <2>2. QED
    BY <2>1, CourseStill DEF Stages
<1>2. CASE b2r /\ ~draining
  <2>1. Homing
    BY <1>2 DEF Stages, AtHome, Begun, Waiting, Keying, Leaving, HandedBack, Settled
  <2>2. /\ CtlWorks /\ b2r' = FALSE /\ center' = plan
        /\ UNCHANGED <<rx, tx, silent, claim, made, st, restore, rf, was, hb, down, plan, pend,
                       ending, status, keyed, draining, lost, jobs, worker>>
    BY <1>2, <2>1 DEF BackToReceive, Homing, Listening, CtlWorks, Runs, TuneTo, readings, shared
  <2>3. Steady' /\ AtHome'
    BY <2>1, <2>2 DEF Homing, AtHome, Listening, Quiet, LetUp, Settled, OverDone, Handing, Steady, worker
  <2>4. QED
    BY <2>3 DEF Stages
<1>3. QED
  BY <1>1, <1>2

(* The key put down, on a receiver at home. *)
LEMMA KeyDownCourse ==
  ASSUME OInv, Calm, Steady, Stages, NEW mic \in BOOLEAN, KeyDown(mic)
  PROVE  Steady' /\ Stages'
<1>1. mic /\ Settled /\ wantC = Air /\ rf = "idle" /\ ~down
  BY CalmWorld DEF KeyDown
<1>2. AtHome
  <2>1. ~Waiting
    BY <1>1, CalmWorld, Names DEF OInv, Announced, Waiting, Speaking, Sending, Alone
  <2>2. QED
    BY <1>1, <2>1 DEF Stages, Begun, Keying, Leaving, HandedBack, Homing, LetUp, Settled
<1>3. CtlWorks /\ ~keyed
  BY <1>2 DEF AtHome, Listening, CtlWorks, Settled, Runs
<1>4. Retuned /\ TakeReader /\ rf' = "open" /\ b2r' = FALSE
      /\ UNCHANGED <<tx, made, st, restore, hb, wantC, pend, status, readings, jobs, worker>>
  BY <1>1, <1>3 DEF KeyDown, KeyStarts
<1>5. /\ center' = Air /\ was' = TRUE /\ rx' = "none" /\ silent' = TRUE /\ claim' = Nobody
  BY <1>2, <1>4, <1>3 DEF AtHome, Listening, Retuned, TuneTo, TakeReader, Release, Runs
<1>6. Steady' /\ Begun'
  BY <1>1, <1>2, <1>4, <1>5
     DEF Steady, AtHome, Begun, Listening, Quiet, Settled, OverDone, Away, Handing, readings, worker
<1>7. QED
  BY <1>6 DEF Stages

(* A dial asked for, on a receiver at home. *)
LEMMA CenterCourse ==
  ASSUME OInv, Calm, Steady, Stages, NEW f \in Choices, Center(f)
  PROVE  Steady' /\ Stages'
<1>1. Settled /\ ~down /\ rf = "idle"
  BY CalmWorld DEF Center
<1>2. AtHome
  <2>1. ~Waiting
    BY <1>1, CalmWorld, Names DEF OInv, Announced, Waiting, Speaking, Sending, Alone
  <2>2. QED
    BY <1>1, <2>1 DEF Stages, Begun, Keying, Leaving, HandedBack, Homing, LetUp, Settled
<1>3. UNCHANGED <<driver, down, plan, pend, b2r, status, readings, jobs, worker>>
  BY DEF Center
<1>4. Steady' /\ AtHome'
  BY <1>2, <1>3
     DEF Steady, AtHome, Listening, Quiet, Settled, OverDone, Handing, readings, worker, driver
<1>5. QED
  BY <1>4 DEF Stages

(* A chain put in place. *)
LEMMA ChainCourse ==
  ASSUME OInv, Calm, Steady, Stages, ChainJob
  PROVE  Steady' /\ Stages'
<1>1. /\ jobs # <<>> /\ jobs \in Seq(Jobs) /\ Head(jobs).what = "chain" /\ jobs' = Tail(jobs)
      /\ waiting = Nobody
  BY CourseTypes, CalmWorld DEF ChainJob, Idle, OInv, Owner, Seated
<1>2. /\ UNCHANGED <<driver, loop, readings, txpc, sink, next>> /\ refused' = FALSE /\ txpc = "idle"
  BY <1>1 DEF ChainJob, Idle
<1>3. /\ \A K : Only(jobs, K) => Only(jobs', K)
      /\ \A n : KeysFor(jobs, n) => KeysFor(jobs', n)
      /\ (\E k \in 1..Len(jobs) : UnkeyAt(jobs, k)) => \E k \in 1..Len(jobs') : UnkeyAt(jobs', k)
  <2>1. \A K : Only(jobs, K) => Only(jobs', K)
    BY <1>1, Ahead
  <2>2. \A n : KeysFor(jobs, n) => KeysFor(jobs', n)
    BY <1>1, Ahead
  <2>3. ASSUME NEW k \in 1..Len(jobs), UnkeyAt(jobs, k)
        PROVE  \E i \in 1..Len(jobs') : UnkeyAt(jobs', i)
    BY <1>1, <2>3, Ahead
  <2>4. QED
    BY <2>1, <2>2, <2>3
<1>4. Steady'
  BY <1>2 DEF Steady, Handing, driver, readings
<1> USE <1>2, <1>3 DEF driver, loop, readings, Listening, Sending, Speaking, ComingBack, Quiet, LetUp,
          Settled, OverDone, Alone, Away, Handing
<1>5. AtHome => AtHome'
  BY DEF AtHome
<1>6. Begun => Begun'
  BY DEF Begun
<1>7. Waiting => Waiting'
  BY DEF Waiting
<1>8. Keying => Keying'
  BY DEF Keying
<1>9. Leaving => Leaving'
  BY DEF Leaving
<1>10. ~HandedBack
  BY DEF HandedBack
<1>11. Homing => Homing'
  BY DEF Homing
<1>12. QED
  BY <1>4, <1>5, <1>6, <1>7, <1>8, <1>9, <1>10, <1>11 DEF Stages

(* The stream put on the chain.  There is a chain, because one was sent    *)
(* before the stream was, and no other stream on it.                       *)
LEMMA KeyCourse ==
  ASSUME OInv, Calm, Steady, Stages, KeyJob
  PROVE  Steady' /\ Stages'
<1>1. /\ jobs # <<>> /\ jobs \in Seq(Jobs) /\ Head(jobs).what = "key" /\ jobs' = Tail(jobs)
      /\ ~Handing("tx") /\ txpc = "idle"
  BY CourseTypes DEF KeyJob, Idle
<1>2. Keying \/ Leaving
  <2>1. ~Only(jobs, {"chain"})
    BY <1>1, Ahead
  <2>2. QED
    BY <2>1 DEF Stages, AtHome, Begun, Waiting, HandedBack, Homing, Quiet
<1>3. /\ Head(jobs).over = made /\ KeysFor(jobs', made) /\ made \in Overs
  <2>1. KeysFor(jobs, made) /\ made \in Overs
    BY <1>2 DEF Keying, Leaving, Speaking, Sending, Alone
  <2>2. QED
    BY <1>1, <2>1, Ahead
<1>4. sink = Nobody
  <2>1. HasKey(jobs, made)
    BY <1>1, <1>3, JobTaken DEF OInv, Owner, Apart
  <2>2. QED
    BY <1>2, <1>3, <2>1, Names DEF Keying, Leaving, OInv, Owner, Apart
<1>5. graph
  <2>1. OwnerTypes /\ Owner /\ Idle("key") /\ graph \in BOOLEAN
    BY TypesForOwner DEF OInv, OwnerTypes, KeyJob
  <2>2. QED
    BY <1>1, <2>1, CalmWorld, Took
<1>6. /\ sink' = made /\ refused' = FALSE /\ keyed' = TRUE /\ lost' = FALSE
      /\ UNCHANGED <<driver, loop, draining, next, txpc>>
  BY <1>3, <1>4, <1>5 DEF KeyJob
<1>7. Steady'
  BY <1>6 DEF Steady, Handing, driver
<1> USE DEF driver, loop, Sending, Speaking, LetUp, Alone, Away, Handing
<1>8. CASE Keying
  <2>1. Only(jobs', {"chain", "key"})
    BY <1>1, <1>8, Ahead DEF Keying
  <2>2. Keying'
    BY <1>3, <1>6, <1>8, <2>1 DEF Keying
  <2>3. QED
    BY <1>7, <2>2 DEF Stages
<1>9. CASE Leaving
  <2>1. PICK k \in 1..Len(jobs) : UnkeyAt(jobs, k)
    BY <1>9 DEF Leaving
  <2>2. \E i \in 1..Len(jobs') : UnkeyAt(jobs', i)
    BY <1>1, <2>1, Ahead
  <2>3. Leaving'
    BY <1>3, <1>6, <1>9, <2>2 DEF Leaving
  <2>4. QED
    BY <1>7, <2>3 DEF Stages
<1>10. QED
  BY <1>2, <1>8, <1>9

(* The unkey finds the stream on the chain, because it was sent behind it. *)
LEMMA LetGoCourse ==
  ASSUME OInv, Calm, Steady, Stages, LetGo("unkey")
  PROVE  Steady' /\ Stages'
<1>1. /\ jobs # <<>> /\ jobs \in Seq(Jobs) /\ Head(jobs).what = "unkey" /\ jobs' = Tail(jobs)
      /\ ~Handing("tx") /\ txpc = "idle" /\ txpc' = "unkey"
  BY CourseTypes DEF LetGo, Idle
<1>2. Leaving
  <2>1. ~Only(jobs, {"chain"}) /\ ~Only(jobs, {"chain", "key"})
    BY <1>1, Ahead
  <2>2. QED
    BY <2>1 DEF Stages, AtHome, Begun, Waiting, Keying, HandedBack, Homing, Quiet
<1>3. PICK k \in 1..Len(jobs) : UnkeyAt(jobs, k)
  BY <1>2 DEF Leaving
<1>4. Only(jobs, {"chain", "unkey"}) /\ Only(jobs', {"chain"})
  BY <1>1, <1>3, Ahead
<1>5. made \in Overs /\ st[made] = "live"
  BY <1>2 DEF Leaving, Speaking, Sending, Alone
<1>6. sink = made
  <2>1. ~HasKey(jobs, made)
    BY <1>4, JobTypes, <1>5 DEF HasKey, Only
  <2>2. InHand(made)
    BY <1>2, <1>5 DEF OInv, Owner, Reached, Streaming, Leaving, Speaking
  <2>3. waiting = Nobody
    BY CalmWorld DEF OInv, Owner, Seated
  <2>4. QED
    BY <1>2, <1>5, <2>1, <2>2, <2>3, Names DEF InHand, Leaving, LetUp, Steady
<1>7. HandBack("tx", made) /\ UNCHANGED <<loop, handle, readings, graph, waiting, sink, next, refused>>
  BY <1>5, <1>6, Names DEF LetGo
<1>8. hb' \in [Threads -> [pc : Places, over : Overs, want : Freqs]]
      /\ hb'["tx"].pc = "drain" /\ hb'["tx"].over = made /\ hb'["rf"] = hb["rf"]
  BY <1>5, <1>7, CourseTypes DEF HandBack, Backs, Threads, Places
<1>9. Alone("ending")'
  BY <1>2, <1>5, <1>7, CourseTypes DEF HandBack, Leaving, Speaking, Sending, Alone
<1>10. Steady'
  BY <1>7, <1>8 DEF Steady, Handing, readings
<1>11. HandedBack'
  BY <1>1, <1>2, <1>4, <1>5, <1>7, <1>8, <1>9
     DEF HandedBack, ComingBack, HandBack, Leaving, LetUp, Speaking, Sending, Away, loop, readings
<1>12. QED
  BY <1>10, <1>11 DEF Stages

(* The stream has been handed back. *)
LEMMA UnkeyedCourse ==
  ASSUME OInv, Steady, Stages, Unkeyed
  PROVE  Steady' /\ Stages'
<1>1. HandedBack /\ ~Handing("tx")
  BY DEF Stages, AtHome, Begun, Waiting, Keying, Leaving, Homing, Quiet, Unkeyed
<1>2. /\ keyed' = FALSE /\ draining' = FALSE /\ sink' = Nobody /\ txpc' = "idle"
      /\ UNCHANGED <<driver, loop, lost, jobs, next, refused>>
  BY DEF Unkeyed
<1>3. Homing'
  BY <1>1, <1>2 DEF HandedBack, Homing, ComingBack, Listening, LetUp, Quiet, Handing, OverDone, driver, loop
<1>4. Steady'
  BY <1>2 DEF Steady, Handing, driver
<1>5. QED
  BY <1>3, <1>4 DEF Stages

(* Step by step, the reader is brought back. *)
LEMMA HandBackCourse ==
  ASSUME OInv, Calm, Steady, Stages, HandingBack("tx"), UNCHANGED app
  PROVE  Steady' /\ Stages'
<1>1. HandedBack /\ ~Flaky
  BY CalmWorld
     DEF Stages, AtHome, Begun, Waiting, Keying, Leaving, Homing, Speaking, Sending, Listening, Handing,
         HandingBack, HbClose, HbWant, HbReopen, HbSlot, HbUnsilence
<1>2. /\ hb \in Backs /\ made \in Overs /\ hb["tx"].over = made /\ restore[made]
      /\ st \in [Overs -> {"unmade", "live", "dead", "ending", "gone"}]
  BY <1>1, CourseTypes DEF HandedBack, ComingBack
<1> DEFINE Goes(pc) == hb'["tx"].pc = pc /\ hb'["tx"].over = made /\ hb'["rf"] = hb["rf"]
<1>3. ASSUME NEW pc \in Places, HbGoes("tx", pc) PROVE Goes(pc)
  BY <1>2, <1>3, HbGoesOn DEF Threads
<1>4. /\ \E pc \in Places : Goes(pc)
      /\ UNCHANGED <<rf, tx, made, restore>> /\ (ComingBack => ComingBack')
  <2> USE DEF ComingBack, OverDone, Alone, Away, shared
  <2>1. CASE HbClose("tx")
    <3>1. Goes("sleep")
      BY <1>2, <1>3, <2>1 DEF HbClose, Places
    <3>2. OverDone' /\ claim' = Nobody
      BY <1>1, <1>2, <2>1, Names DEF HbClose, Release, HandedBack
    <3>3. QED
      BY <1>2, <2>1, <3>1, <3>2 DEF HbClose, Places, HandedBack
  <2>2. CASE HbWant("tx")
    <3>1. Goes("open")
      BY <1>2, <2>2 DEF HbWant, Backs, Threads
    <3>2. QED
      BY <1>2, <2>2, <3>1 DEF HbWant, Places
  <2>3. CASE HbReopen("tx")
    <3>1. claim = Nobody
      BY <1>1, <2>3 DEF HbReopen, HandedBack
    <3>2. claim' = Reader /\ HbGoes("tx", "slot")
      BY <1>1, <2>3, <3>1 DEF HbReopen
    <3>3. Goes("slot")
      BY <1>3, <3>2 DEF Places
    <3>4. QED
      BY <1>2, <2>3, <3>2, <3>3 DEF HbReopen, Places
  <2>4. CASE HbSlot("tx")
    <3>1. Goes("unsilence")
      BY <1>3, <2>4 DEF HbSlot, Places
    <3>2. rx' = "live"
      BY <1>1, <2>4, Reopens DEF HbSlot
    <3>3. QED
      BY <1>2, <2>4, <3>1, <3>2 DEF HbSlot, Places
  <2>5. CASE HbUnsilence("tx")
    <3>1. Goes("idle")
      BY <1>3, <2>5 DEF HbUnsilence, Places
    <3>2. QED
      BY <1>2, <2>5, <3>1 DEF HbUnsilence, Places
  <2>6. QED
    BY <2>1, <2>2, <2>3, <2>4, <2>5 DEF HandingBack
<1>5. HandedBack'
  BY <1>1, <1>4 DEF HandedBack, LetUp, app, loop, readings, worker
<1>6. Steady'
  BY <1>4 DEF Steady, Handing, app, readings, worker
<1>7. QED
  BY <1>5, <1>6 DEF Stages

(* What a sound board and an operator who waits never let happen. *)
LEMMA CalmSteps ==
  ASSUME OInv, Calm, Steady, Stages, Next
  PROVE  ~(\/ Refused \/ RebuildBreaks \/ HandingBack("rf") \/ LetGo("drop")
           \/ Attached \/ GivenUp \/ GiveUp \/ StillRefused \/ ChainFails \/ ChainGone \/ Board)
<1>1. ~Refused /\ ~Attached /\ ~GivenUp /\ ~ChainGone /\ ~ChainFails
  BY CalmWorld DEF Refused, Attached, GivenUp, ChainGone, ChainFails, Stages, AtHome, Begun, Waiting, Keying, Leaving, HandedBack, Homing,
         Listening, Speaking, ComingBack, Quiet
<1>2. ~RebuildBreaks /\ ~StillRefused /\ ~Board /\ ~HandingBack("rf")
  BY CalmWorld DEF RebuildBreaks, StillRefused, Steady, Board, ReaderDies, WriterDies, Handing,
     HandingBack, HbClose, HbWant, HbReopen, HbSlot, HbUnsilence
<1>3. ~LetGo("drop")
  <2>1. SUFFICES ASSUME LetGo("drop") PROVE FALSE
    OBVIOUS
  <2>2. jobs # <<>> /\ jobs \in Seq(Jobs) /\ Head(jobs).what = "drop" /\ txpc = "idle"
    BY <2>1, CourseTypes DEF LetGo, Idle
  <2>3. ~Only(jobs, {"chain"}) /\ ~Only(jobs, {"chain", "key"}) /\ \A k : ~UnkeyAt(jobs, k)
    BY <2>2, Ahead
  <2>4. QED
    BY <2>2, <2>3 DEF Stages, AtHome, Begun, Waiting, Keying, Leaving, HandedBack, Homing, Quiet
<1>4. ~GiveUp
  <2>1. txpc = "idle" /\ sink # Nobody => sink = made /\ st[made] = "live"
    BY DEF Stages, AtHome, Begun, Waiting, Keying, Leaving, HandedBack, Homing, Quiet, Speaking, Sending,
           Alone
  <2>2. QED
    BY <2>1, CalmWorld DEF GiveUp
<1>5. QED
  BY <1>1, <1>2, <1>3, <1>4

(* Every step keeps the course. *)
LEMMA CourseNext ==
  ASSUME OInv, Course, [Next /\ world' = world]_<<vars, world>>
  PROVE  Course'
<1>1. Calm' = Calm
  BY DEF Calm, vars
<1> SUFFICES ASSUME Calm, Steady, Stages PROVE Steady' /\ Stages'
  BY <1>1 DEF Course
<1>2. CASE UNCHANGED course
  BY <1>2, CourseStill DEF Stages
<1>3. CASE Next
  <2>1. ~(\/ Refused \/ RebuildBreaks \/ HandingBack("rf") \/ LetGo("drop")
          \/ Attached \/ GivenUp \/ GiveUp \/ StillRefused \/ ChainFails \/ ChainGone \/ Board)
    BY <1>3, CalmSteps
  <2>2. CASE CommandsDone \/ NoRetune \/ NoRebuild \/ StillEnding \/ Edit \/ LostCheck \/ Read
    BY <1>2, <2>2, Rounds
  <2>3. CASE StartTxStep \/ KeySame \/ KeyForRebuild
    BY <2>3, StartCourse, KeyedCourse DEF Stages
  <2>4. CASE Rebuild \/ Retune \/ KeyUp \/ FinishOver \/ BackToReceive
    BY <2>4, RebuildCourse, RetuneCourse, LetUpCourse, BackCourse
  <2>5. CASE (\E mic \in BOOLEAN : KeyDown(mic)) \/ \E f \in Choices : Center(f)
    BY <2>5, KeyDownCourse, CenterCourse
  <2>6. CASE ChainJob \/ KeyJob \/ LetGo("unkey") \/ Unkeyed \/ (HandingBack("tx") /\ UNCHANGED app)
    BY <2>6, ChainCourse, KeyCourse, LetGoCourse, UnkeyedCourse, HandBackCourse
  <2>7. QED
    BY <1>3, <2>1, <2>2, <2>3, <2>4, <2>5, <2>6, Steps
<1>4. QED
  BY <1>2, <1>3 DEF vars, driver, app, loop, handle, readings, worker, course, shared

(* A radio just opened is at home. *)
LEMMA InitCourse == Init => Course
<1> SUFFICES ASSUME Init PROVE Steady /\ AtHome
  BY DEF Course, Stages
<1>1. Len(jobs) = 0
  BY DEF Init
<1>2. QED
  BY <1>1, Names DEF Init, DriverInit, Steady, AtHome, Listening, Quiet, Settled, OverDone, Handing,
                     Only, Threads

(* In every stage the dial is where it should be. *)
LEMMA CourseDial ==
  ASSUME OInv, Course
  PROVE  DialFollowsTheOver
<1> SUFFICES ASSUME Calm, Stages PROVE OnAirOnFrequency /\ DialIsHome
  BY DEF Course, DialFollowsTheOver
<1>1. DialIsHome
  BY Names DEF DialIsHome, Stages, AtHome, Begun, Waiting, Keying, Leaving, HandedBack, Homing, LetUp,
     Speaking, Sending, Alone, Settled
<1>2. OnAirOnFrequency
  <2>1. SUFFICES ASSUME sink # Nobody, st[sink] = "live" PROVE tuned = Air
    BY DEF OnAirOnFrequency
  <2>2. sink \in Overs
    BY <2>1, CourseTypes DEF Streams
  <2>3. ~HandedBack
    BY <2>1, <2>2 DEF HandedBack, ComingBack, Alone, OverDone
  <2>4. Keying \/ Leaving
    BY <2>1, <2>3 DEF Stages, AtHome, Begun, Waiting, Homing, Quiet
  <2>5. QED
    BY <2>4 DEF Keying, Leaving, Speaking, Sending
<1>3. QED
  BY <1>1, <1>2

(* For an operator who waits and a sound board: on the channel while the   *)
(* over is on the air, and home after it.  key_up, unkey_now, hand_back    *)
(* and back_to_receive, between the radio thread and the transmit thread.  *)
THEOREM DialFollows == Spec => []DialFollowsTheOver
<1>1. Spec => []Course
  BY InitCourse, OverInvariant, CourseNext, PTL DEF Spec
<1>2. QED
  BY <1>1, OverInvariant, CourseDial, PTL
=============================================================================
