----------------------------- MODULE HalfDuplex -----------------------------
(***************************************************************************)
(* The HackRF driver around an over.  The board is half duplex and its USB *)
(* claim has one holder, so start_tx takes the reader away and reads       *)
(* produce silence until the transmit stream hands the radio back.         *)
(*                                                                         *)
(* Two threads meet in Shared: the radio thread owns the device and the    *)
(* receive stream, the transmit thread the transmit streams.  Each         *)
(* transmit stream is an over, numbered as it is opened.  Draining a       *)
(* reader or a writer before dropping it is UsbReader and UsbWriter: here  *)
(* it is one step, because the code holds its lock or its handle through.  *)
(***************************************************************************)
EXTENDS Naturals

CONSTANTS Freqs,     \* frequencies the radio can be on
          MaxOvers,  \* bound: transmit streams opened
          Worlds     \* what the driver is up against, of Conditions

(* A sound board and a caller who waits for each over to come back; the    *)
(* same with edits that break the transmit chain; a caller who does not    *)
(* wait; a transmit chain whose own run fails; a board that may refuse an  *)
(* open, and whose streams die or come back mute or flat.                  *)
Conditions == {"calm", "breaks", "eager", "fails", "flaky"}

ASSUME DuplexAssumption ==
  /\ Freqs # {}
  /\ MaxOvers \in Nat \ {0}
  /\ Worlds \subseteq Conditions

Overs == 1..MaxOvers
Nobody == 0
Reader == MaxOvers + 1
Threads == {"rf", "tx"}
REOPENS_BEFORE_RESET == 2

VARIABLES
  world,    \* of Worlds, for the whole of a behaviour
  rx,       \* Shared.rx: no reader, one that hears, that delivers flat samples,
            \* that delivers nothing, or whose thread is gone
  tx,       \* Shared.tx: the over whose control handle is held, or Nobody
  silent,   \* Shared.silent
  want,     \* Shared.want.center
  center,   \* HackRfDevice.center
  tuned,    \* where the board is
  claim,    \* who holds the USB claim
  attempts, \* HackRfStream.attempts, as far as the watchdog's limit tells it apart
  made,     \* transmit streams opened
  st,       \* of each over: HackRfTxStream.handle, and whether its thread runs
  restore,  \* of each over: restore_rx
  rf,       \* where the radio thread is in a driver call
  was,      \* was_rx of the start_tx in progress
  hb        \* where each thread is in hand_back, for which over, with which want

shared == <<rx, tx, silent, want>>
driver == <<rx, tx, silent, want, center, tuned, claim, attempts, made, st, restore, rf, was, hb>>

Flaky == world = "flaky"
Eager == world = "eager"

(* The slot holds a reader whose thread streams, whatever it streams. *)
Runs == rx \in {"live", "flat", "mute"}

(* What a reopened reader delivers: "a HackRF that has just transmitted    *)
(* sometimes comes back streaming zeros".                                  *)
Reopened == IF Flaky THEN {"live", "flat", "mute"} ELSE {"live"}

(* The code counts on; beyond the limit nothing tells the counts apart.    *)
OneMoreAttempt ==
  attempts' = IF attempts > REOPENS_BEFORE_RESET THEN attempts ELSE attempts + 1

DriverTypeOK ==
  /\ world \in Worlds
  /\ rx \in {"none", "live", "flat", "mute", "dead"}
  /\ tx \in Overs \cup {Nobody}
  /\ silent \in BOOLEAN
  /\ want \in Freqs /\ center \in Freqs /\ tuned \in Freqs
  /\ claim \in Overs \cup {Nobody, Reader}
  /\ attempts \in 0..(REOPENS_BEFORE_RESET + 1)
  /\ made \in 0..MaxOvers
  /\ st \in [Overs -> {"unmade", "live", "dead", "ending", "gone"}]
  /\ restore \in [Overs -> BOOLEAN]
  /\ rf \in {"idle", "open", "writer", "tune", "keyed", "refused", "revive", "lost"}
  /\ was \in BOOLEAN
  /\ hb \in [Threads -> [pc : {"idle", "drain", "sleep", "open", "slot", "unsilence"},
                         over : Overs, want : Freqs]]

(* After open and start_rx: receiving, with nothing on the air. *)
DriverInit ==
  /\ world \in Worlds
  /\ rx = "live" /\ tx = Nobody /\ silent = FALSE
  /\ center \in Freqs /\ want = center /\ tuned = center
  /\ claim = Reader /\ attempts = 0 /\ made = 0
  /\ st = [n \in Overs |-> "unmade"] /\ restore = [n \in Overs |-> FALSE]
  /\ rf = "idle" /\ was = FALSE
  /\ hb = [t \in Threads |-> [pc |-> "idle", over |-> 1, want |-> center]]

Release(who) == claim' = IF claim = who THEN Nobody ELSE claim

-----------------------------------------------------------------------------
(* Settings.                                                               *)

(* ctl() is the transmitter's control handle when there is one, else the   *)
(* reader's; a handle whose thread has gone refuses, and so does the       *)
(* device, which gave its HackRf away when the reader was started.         *)
CtlWorks == IF tx # Nobody THEN st[tx] = "live" ELSE Runs

TuneTo(f) ==
  /\ CtlWorks
  /\ tuned' = f /\ center' = f /\ want' = f

SetCenter(f) ==
  /\ rf = "idle"
  /\ TuneTo(f)
  /\ UNCHANGED <<rx, tx, silent, claim, attempts, made, st, restore, rf, was, hb>>

-----------------------------------------------------------------------------
(* start_tx, on the radio thread.                                          *)

KeepsReader ==           \* mutant: the reader goes on holding the claim
  /\ was' = (rx # "none")
  /\ rx' = "none"
  /\ silent' = (silent \/ rx # "none")
  /\ claim' = claim

(* The reader, if there is one, is taken, silenced, drained and dropped. *)
TakeReader ==
  /\ was' = (rx # "none")
  /\ rx' = "none"
  /\ silent' = (silent \/ rx # "none")
  /\ IF Runs THEN Release(Reader) ELSE claim' = claim

StartTx ==
  /\ rf = "idle"
  /\ made < MaxOvers
  /\ TakeReader
  /\ rf' = "open"
  /\ UNCHANGED <<tx, want, center, tuned, attempts, made, st, restore, hb>>

(* Opening the unit again: "already in use" while anybody has the claim. *)
OpenTx ==
  /\ rf = "open"
  /\ \/ /\ claim = Nobody
        /\ made' = made + 1 /\ claim' = made'
        /\ tuned' = center
        /\ rf' = "writer"
     \/ /\ claim # Nobody \/ Flaky
        /\ rf' = "refused"
        /\ UNCHANGED <<made, claim, tuned>>
  /\ UNCHANGED <<shared, center, attempts, st, restore, was, hb>>

(* into_streaming_writer, and its control handle put where ctl finds it. *)
IntoWriter ==
  /\ rf = "writer"
  /\ \/ /\ st' = [st EXCEPT ![made] = "live"]
        /\ tx' = made
        /\ rf' = "tune"
        /\ claim' = claim
     \/ /\ Flaky
        /\ claim' = Nobody
        /\ rf' = "refused"
        /\ UNCHANGED <<st, tx>>
  /\ UNCHANGED <<rx, silent, want, center, tuned, attempts, made, restore, was, hb>>

(* Tuning and gain are set again through the control handle; refused, the  *)
(* writer is dropped with the error, and Shared.tx is left as it is.       *)
TuneTx ==
  /\ rf = "tune"
  /\ IF CtlWorks
     THEN /\ tuned' = center
          /\ restore' = [restore EXCEPT ![made] = was]
          /\ rf' = "keyed"
          /\ UNCHANGED <<st, claim>>
     ELSE /\ st' = [st EXCEPT ![made] = "gone"]
          /\ Release(made)
          /\ rf' = "refused"
          /\ UNCHANGED <<tuned, restore>>
  /\ UNCHANGED <<shared, center, attempts, made, was, hb>>

StartingTx == OpenTx \/ IntoWriter \/ TuneTx

-----------------------------------------------------------------------------
(* hand_back, on whichever thread lets go of the transmit stream.          *)

Handing(t) == hb[t].pc # "idle"
HbGoes(t, pc) == hb' = [hb EXCEPT ![t].pc = pc]

(* The handle is taken, so a second call finds none; the control handle    *)
(* goes first.                                                             *)
HandBack(t, n) ==
  /\ ~Handing(t)
  /\ st[n] \in {"live", "dead"}
  /\ st' = [st EXCEPT ![n] = "ending"]
  /\ tx' = Nobody
  /\ hb' = [hb EXCEPT ![t].pc = "drain", ![t].over = n]
  /\ UNCHANGED <<rx, silent, want, center, tuned, claim, attempts, made, restore, rf, was>>

(* Drained, stopped and joined: the writer's thread has let the board go.  *)
HbClose(t) ==
  /\ hb[t].pc = "drain"
  /\ st' = [st EXCEPT ![hb[t].over] = "gone"]
  /\ Release(hb[t].over)
  /\ HbGoes(t, IF restore[hb[t].over] THEN "sleep" ELSE "unsilence")
  /\ UNCHANGED <<shared, center, tuned, attempts, made, restore, rf, was>>

(* 150 ms later, the settings to come back to. *)
HbWant(t) ==
  /\ hb[t].pc = "sleep"
  /\ hb' = [hb EXCEPT ![t].pc = "open", ![t].want = want]
  /\ UNCHANGED <<shared, center, tuned, claim, attempts, made, st, restore, rf, was>>

HbReopenForgets(t) ==    \* mutant: reopened with the board's own default tuning
  /\ hb[t].pc = "open"
  /\ \/ /\ claim = Nobody
        /\ claim' = Reader
        /\ tuned' \in Freqs
        /\ HbGoes(t, "slot")
     \/ /\ claim # Nobody \/ Flaky
        /\ HbGoes(t, "unsilence")
        /\ UNCHANGED <<claim, tuned>>
  /\ UNCHANGED <<shared, center, attempts, made, st, restore, rf, was>>

(* reopen_rx; whatever step of it fails, the claim is given up again. *)
HbReopen(t) ==
  /\ hb[t].pc = "open"
  /\ \/ /\ claim = Nobody
        /\ claim' = Reader
        /\ tuned' = hb[t].want
        /\ HbGoes(t, "slot")
     \/ /\ claim # Nobody \/ Flaky
        /\ HbGoes(t, "unsilence")
        /\ UNCHANGED <<claim, tuned>>
  /\ UNCHANGED <<shared, center, attempts, made, st, restore, rf, was>>

HbSlot(t) ==
  /\ hb[t].pc = "slot"
  /\ rx' \in Reopened
  /\ HbGoes(t, "unsilence")
  /\ UNCHANGED <<tx, silent, want, center, tuned, claim, attempts, made, st, restore, rf, was>>

HbUnsilenceNever(t) ==   \* mutant: the silence is not ended with the over
  /\ hb[t].pc = "unsilence"
  /\ HbGoes(t, "idle")
  /\ UNCHANGED <<shared, center, tuned, claim, attempts, made, st, restore, rf, was>>

(* Whether or not the radio came back, the reads are no longer an over. *)
HbUnsilence(t) ==
  /\ hb[t].pc = "unsilence"
  /\ silent' = FALSE
  /\ HbGoes(t, "idle")
  /\ UNCHANGED <<rx, tx, want, center, tuned, claim, attempts, made, st, restore, rf, was>>

HandingBack(t) == HbClose(t) \/ HbWant(t) \/ HbReopen(t) \/ HbSlot(t) \/ HbUnsilence(t)

-----------------------------------------------------------------------------
(* read, on the radio thread, and the watchdog inside it.                  *)

(* A block of silence, or of samples: either way the radio is well. *)
ReadBlock ==
  /\ rf = "idle"
  /\ silent \/ rx = "live"
  /\ attempts' = 0
  /\ UNCHANGED <<shared, center, tuned, claim, made, st, restore, rf, was, hb>>

ReadFlatStuck ==         \* mutant: flat samples are what a quiet band looks like
  /\ rf = "idle"
  /\ ~silent /\ rx = "flat"
  /\ attempts' = 0
  /\ UNCHANGED <<shared, center, tuned, claim, made, st, restore, rf, was, hb>>

(* Nothing but identical samples for DEAD_AFTER: revived, however often    *)
(* that was tried before.                                                  *)
ReadFlat ==
  /\ rf = "idle"
  /\ ~silent /\ rx = "flat"
  /\ rf' = "revive" /\ OneMoreAttempt
  /\ rx' = "none" /\ Release(Reader)
  /\ UNCHANGED <<tx, silent, want, center, tuned, made, st, restore, was, hb>>

(* No reader or nothing from it for DEAD_AFTER, or one whose thread has    *)
(* gone: the radio is revived, or after enough attempts reported gone.  No *)
(* thread sends the error that recv_state would report as Failed.          *)
ReadNothing ==
  /\ rf = "idle"
  /\ ~silent /\ rx \in {"none", "mute", "dead"}
  /\ IF attempts > REOPENS_BEFORE_RESET
     THEN rf' = "lost" /\ UNCHANGED <<attempts, rx, claim>>
     ELSE /\ rf' = "revive" /\ OneMoreAttempt
          /\ rx' = "none"
          /\ IF Runs THEN Release(Reader) ELSE claim' = claim
  /\ UNCHANGED <<tx, silent, want, center, tuned, made, st, restore, was, hb>>

(* After the last of the limit the board is reset before it is reopened. *)
Revive ==
  /\ rf = "revive"
  /\ rf' = "idle"
  /\ \/ /\ claim = Nobody
        /\ claim' = Reader /\ rx' \in Reopened /\ tuned' = want
     \/ /\ claim # Nobody \/ Flaky
        /\ UNCHANGED <<claim, rx, tuned>>
  /\ UNCHANGED <<tx, silent, want, center, attempts, made, st, restore, was, hb>>

Reading == ReadBlock \/ ReadFlat \/ ReadNothing \/ Revive

-----------------------------------------------------------------------------
(* A streaming thread gives up after MAX_CONSECUTIVE_ERRORS and lets the   *)
(* board go: unplugged, reset by hand, or wedged.                          *)

ReaderDies ==
  /\ Flaky
  /\ Runs
  /\ rx' = "dead"
  /\ Release(Reader)
  /\ UNCHANGED <<tx, silent, want, center, tuned, attempts, made, st, restore, rf, was, hb>>

WriterDies(n) ==
  /\ Flaky
  /\ st[n] = "live"
  /\ st' = [st EXCEPT ![n] = "dead"]
  /\ Release(n)
  /\ UNCHANGED <<shared, center, tuned, attempts, made, restore, rf, was, hb>>

-----------------------------------------------------------------------------
(* The driver with any caller the two traits allow.                        *)

CallStartTx ==
  /\ Eager \/ \A n \in Overs : st[n] \in {"unmade", "gone"} /\ ~Handing("tx")
  /\ StartTx

(* start_tx has returned. *)
Returned ==
  /\ rf \in {"keyed", "refused"}
  /\ rf' = "idle"
  /\ UNCHANGED <<shared, center, tuned, claim, attempts, made, st, restore, was, hb>>

Held(n) == st[n] \in {"live", "dead"} /\ (n = made => rf \notin {"writer", "tune", "keyed"})

DriverNext == \/ CallStartTx \/ StartingTx \/ Returned
              \/ \E n \in Overs : Held(n) /\ HandBack("tx", n)
              \/ \E t \in Threads : HandingBack(t)
              \/ Reading
              \/ \E f \in Freqs : SetCenter(f)
              \/ ReaderDies \/ \E n \in Overs : WriterDies(n)

(* The radio thread keeps reading and a hand back runs to its end; nobody  *)
(* has to key, to tune or to end an over.                                  *)
DriverFairness == /\ WF_driver(StartingTx \/ Returned) /\ WF_driver(Reading)
                  /\ WF_driver(HandingBack("tx"))

DriverSpec == DriverInit /\ [][DriverNext /\ world' = world]_<<driver, world>> /\ DriverFairness

-----------------------------------------------------------------------------
OnAir(n) == st[n] \in {"live", "ending"}
InStartTx == rf \in {"open", "writer", "tune"}

(* The USB claim has the holder the handles say it has: a running reader   *)
(* in the slot, a running writer, or nobody.  An open that succeeded while *)
(* another handle was streaming would be two drivers of one board.         *)
ClaimsAgree ==
  /\ Runs => claim = Reader
  /\ \A n \in Overs : st[n] = "live" => claim = n
  /\ claim = Reader => Runs \/ \E t \in Threads : hb[t].pc = "slot"

(* A reader hears silence only for an over: one starting, on the air or    *)
(* being handed back.  "Left silent, it read the over as still running and *)
(* produced a noise floor for ever": hand_back.                            *)
SilentForAnOver ==
  silent => InStartTx \/ (\E n \in Overs : OnAir(n)) \/ (\E t \in Threads : Handing(t))

(* So it is on a board that never refuses, whoever the caller.             *)
SilentOnlyForAnOver == ~Flaky => SilentForAnOver

(* A running receiver is where the device believes it is, whoever reopened *)
(* it: hand_back, the watchdog, or set_center in between.  hand_back's     *)
(* copy of the settings can only be stale when two overs overlap.          *)
ReceiverOnFrequency ==
  Runs /\ ~Eager => tuned = want /\ want = center

(* The watchdog leaves a radio that is transmitting alone, on a sound      *)
(* board whose caller waits.                                               *)
NeverRevivedOnAir ==
  rf = "revive" => Flaky \/ Eager \/ \A n \in Overs : ~OnAir(n)

(* "Nothing above the driver has to deal with the radio disappearing": an  *)
(* over never ends in a read that reports the radio gone.  Shared, and     *)
(* start_tx; a caller who does not wait for the hand back does see it.     *)
RadioStays == rf = "lost" => Flaky \/ Eager

(* Silence and an over are the same thing, for the reader, for the         *)
(* watchdog, and for the radio thread that hears of a lost radio.          *)
SilenceMeansAnOver == SilentOnlyForAnOver /\ NeverRevivedOnAir /\ RadioStays

Hears == rx = "live" /\ ~silent
AnotherOver == InStartTx \/ \E n \in Overs : st[n] = "live"

(* The driver "knows the difference between a floor and a flatline", and   *)
(* brings back a board that returned from an over with either: once an     *)
(* over ends the receiver hears again, unless another over follows, the    *)
(* radio is reported gone, or the board comes back flat however often the  *)
(* watchdog restarts it.  DEAD_AFTER, read and revive.                     *)
ComesBack ==
  \/ (\E n \in Overs : st[n] = "ending") ~> Hears \/ AnotherOver \/ rf = "lost"
  \/ []<>(rx = "flat") /\ []<>(rf = "revive")

(* "Nothing above the driver can tell that from a very quiet band": an     *)
(* over that ends is followed by hearing or by the receiver being told.    *)
ComesBackOrIsGone ==
  (\E n \in Overs : st[n] = "ending") ~> Hears \/ AnotherOver \/ rf = "lost"
=============================================================================
