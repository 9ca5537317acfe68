# Waveshark in TLA+

Waveshark is a software-defined-radio receiver, "Wireshark for the radio spectrum": one Rust program
(about 390,000 lines in some thirty crates) that drives receivers over USB and the network, runs their
samples through a graph of demodulators and decoders, keys a transmitter, and serves its samples to other
copies of itself. Most of those lines are arithmetic and parsing, which unit tests reach well. This
directory is about the others: where threads, a USB board, an operator and a network act at once.

Paths below are relative to `src/crates/`.

- [1. The system](#1-the-system): inventory of the components
- [2. The modules](#2-the-modules): how state and actions correspond to the code
- [3. The runs](#3-the-runs): what TLC checks, bounds, fairness
- [4. Where the code and its words disagree](#4-where-the-code-and-its-words-disagree)
- [5. The proofs](#5-the-proofs)
- [6. What is not modelled](#6-what-is-not-modelled)
- [7. Plan](#7-plan)

To check: `tlc -config UsbReader.cfg UsbReader` and so on, the module of a `.cfg` being the one section 3 or 4
names; `tlapm` on each of the eight `*Proofs.tla`. `PROJECT.json` lists the runs, a mutant of the code for every
checked property, the source lines every definition stands for, the hazards, the finding and the theorems.

## 1. The system

### How the parts meet

```
 operator, assistant            remote clients                 directory, relays
      | Cmd (mpsc)                   | TCP / UDP / WebRTC            |
      v                              v                               |
 +--------------+   blocks   +----------------+  fan-out   +-----------------+
 | radio thread |----------->|  flow graph    |----------->| IQ stream server|
 | app/radio    |            |  pipeline,nodes|            | iqstream/server |
 +--------------+            +----------------+            +-----------------+
   |        | jobs (mpsc)        | packets                          ^
   |        v                    v                                  | native protocol
   |  +-----------------+   feeds, logs, survey,              +-----------------+
   |  | transmit thread |   wardriving spool                  | IQ stream client|
   |  | app/transmit.rs |                                     | iqstream/client |
   |  +-----------------+                                     +-----------------+
   | Device, RxStream  | TxStream                                   | Device trait
   v                   v                                            v
 +-----------------------------+                             remote radio of another
 | HackRF driver   hackrf/     |  Shared (mutexes, atomics)  copy of the program
 +-----------------------------+
   |  streaming_thread  |  transmitting_thread     hackrf-usb/transport.rs
   v                    v
 usbio (nusb, WebUSB): one claim on one half-duplex board
```

### Components modelled

**HackRF receive stream** (`hackrf-usb/src/transport.rs`). *State*: the streaming thread's place in its
loop, a count of consecutive errors, the bulk transfers queued at the endpoint, a bounded `sync_channel` of
chunks, an unbounded channel of control commands, a relaxed stop flag, the board's transceiver mode.
*Operations*: open the endpoint, fill the queue and switch to receive, look for stop and for commands, wait
for a transfer, resubmit after data, nothing or an error, a blocking send, finish; on the handle `recv`, `tune`,
`stop`, drop (which joins). *Hard*: the dropper joins a thread that may be blocked sending to the dropper;
each path of the loop must put back the transfer it took; commands are only seen between transfers.
*Right when*: nothing is lost, doubled or swapped between USB and reader, the queue never shrinks, a release ends.

**HackRF transmit stream** (same file). *State*: the thread, `TxFiller`'s leftover, `Flights` (which
transfers carry samples), two `u64` counters that `drain` reads, the channel, the stop flag. *Operations*:
`send`, `send_timeout`, `drain`, `stop`, drop; on the thread cut, submit, enter transmit mode, complete, leave
the mode, cancel. *Hard*: the counters are moved on one thread and read on another; chunks and transfers
divide differently; leaving the mode after the cancel puts the board's old FIFO on the air. *Right when*:
samples reach the board in order, the counters mean what they say and never wrap, every wait ends.

**HackRF driver** (`hackrf/src/lib.rs`). *State*: `Shared` (the reader slot, the transmitter's control
handle, `silent`, the wanted settings), the device's centre, the read watchdog's attempts, the USB claim.
*Operations*: `start_tx`, a read with its watchdog and `revive`, `hand_back` of a transmit stream,
`set_center`. *Hard*: one claim, two threads; `hand_back` sleeps 150 ms with nobody holding the board;
settings are copied before an open and used after it; the silence of an over looks like a dead board.
*Right when*: the claim has the holder the handles say, a reader is silent only for an over, it comes back, and on
the frequency the device believes.

**An over: radio thread, transmit thread** (`app/src/radio/tx.rs`, `app/src/radio/thread.rs`,
`app/src/transmit.rs`, `app/src/chain.rs`, `nodes/src/tx_nodes.rs`). *State*: `want_center`, the plan,
`keying_for`, `ending`, `back_to_receive`, `status.keyed`; the `Transmitter` handle's `armed` and `built`; the
`Readings` both threads write (`keyed`, `draining`, `lost`); the job channel; the transmit thread's chain,
sink and waiting streams. *Operations*: key, unkey, centre, the loop's retune / rebuild / read / home, the jobs
chain, key, unkey and drop, a sink giving up. *Hard*: eight pieces of state on two threads say whether the
radio transmits; an open stream is handed through six places; commands come in batches. *Right when*: a stream has
one owner, the lamp means what it says, letting the key up ends the over, and the receiver comes home.

**IQ stream data path** (`iqstream/src/server.rs`: `Stream::push`, `pump`, `send_block`;
`iqstream/src/subscribe.rs`: `Assembler`, `take_datagram`). *State*: the broadcast ring, the pump's
`block_seq` and `sample_index`, the counters, datagrams or inline records on their way, the assembler's
fragments, `next_sample`. *Operations*: push, lag, send, full inline queue, receive a fragment, pad. *Hard*:
overrun, loss, reordering and duplication all end in the reader's sense of time. *Right when*: the padding keeps the
timebase, and the counters account for every block.

**IQ stream session** (`iqstream/src/server.rs`: `converse`, `subscribe`, `pump`, `punch_loop`;
`iqstream/src/client.rs`: `subscribe`, `next_block`, fallback; `subscribe.rs`: `heard`). *State*: the stream
table and each stream's dial, the connection's task with its receivers of changes, the pump tasks, the table of
punch tokens, the out queue (64), the client's `StreamInfo`, transport and fallback timer. *Operations*:
welcome, subscribe, replace, punch, pump, retune, announce, remove and add a tuner, unsubscribe, ping, time
out, fall back, leave, stall. *Hard*: a subscribe takes round trips during which the dial moves or the tuner
goes; the fallback races a late punch; two tasks share one bounded queue. *Right when*: one pump per subscription, the
label follows the dial, nobody waits for ever, a client that stops reading is dropped.

**Flow graph** (`pipeline/src/graph.rs`, `node.rs`). *State*: the builder's edges, the resolved wiring, the order and
its levels, which nodes are off and which idle, the arena of buffers, each node's counters and parked error.
*Operations*: connect, resolve, order, level, switch a node or the input, settle who idles, reset, run a block.
*Hard*: the nodes of a level run on a pool and take their buffers out of the arena; a run that fails must put all of
them back and say so once; who idles follows from any sequence of switches through any number of levels. *Right when*:
a node reads what this block wrote, exactly what gets no samples is idle, a run speaks only of its own block.

**The operator's edits** (`app/src/patch.rs`, `chain.rs`, `radio/thread.rs`, `ui/state.rs`, `ui/mod.rs`). *State*: the
interface's drawing, base, edits and history; the edits on disk; the plan's edits and the last that built; the
running graph, its base and its nodes; the published graph and its revision. *Operations*: draw, undo, redo, set a
parameter, tune, poll, write, connect, let go, quit, be killed; open, take a command, rebuild, fall back. *Hard*: the
edits exist nowhere but as a difference between two graphs, and four parties take that difference of their own copies
at their own time. *Right when*: the screen shows what runs, no change is lost and none comes back.

**Dataset cache** (`datasets/src/cache.rs`, `airports.rs`, `app/src/data.rs`). *State*: a file, its `.part`, its
record (tag, length, refusal), the parsed set in memory, a worker per dataset. *Operations*: get, refresh by the program
or by a person, fetch, check, rename, record, refuse, touch. *Hard*: a kill or a deletion between any two writes;
publishers that move on, break off, or answer a complaint with a 200. *Right when*: what is served is one whole
version, a landed copy stays, a check leaves the copy's own tag, a refusal is respected.

**Wardriving uploads** (`nodes/src/wigle_nodes.rs`, `survey/src/wigle/upload.rs`). *State*: rows in each receiver's
node, the spool directory, one uploader for the process, the account. *Operations*: hear, flush (drain, write, rename),
drop, start the uploader, read, send, remove. *Hard*: receivers that overlap, a disc that fails, an answer that is
lost, a kill between any two. *Right when*: a row is somewhere until WiGLE took it, and goes once.

**Combined receiver** (`sources/src/combine.rs`). *State*: the dial and rate of each tuner, a thread and a queue of
four blocks for each, the reader's backlog of each slice, loss counters written from two sides. *Operations*: set
centre and rate tuner by tuner, start, stop, read with a grace for stragglers, correct a slip, pad, count. *Hard*: a
refusal half way; a slice that is late, has ended or slips; two writers of one counter. *Right when*: slices tile the
span, samples of a slice stay in order and are each given, skipped or counted, a read answers.

### Components not modelled

| component | crates | state and operations | what would make it right |
|---|---|---|---|
| Tuners and devices | `app/src/tuners.rs`, `devices.rs`, `radio/thread.rs` | radios lost and reopened; several tuners, their parameters, settled dials (an over's part is in `Over`, the graph's in `GraphEdits`) | a lost radio is reopened once, parameters follow it |
| What the receive chain draws, scanner, bank | `app/src/chain.rs`, `nodes/src/scan_nodes.rs`, `bank_node.rs` | stages derived from dial and strip, decoders placed on bursts (what is edited and kept is in `GraphEdits`) | a burst has one decoder, on its frequency |
| Remote radios | `remote/` | five network protocols behind `Device`; an asks mailbox; gap counters | the last ask wins, a gap is counted once |
| Wire format, transports | `iqstream/src/proto.rs`, `rtc.rs`, `wt.rs`, `ws.rs` | encodings and carriers (a cancelled read is in `IqSession`) | what is written is what is read |
| Directory, port mapping | `sdr-directory/`, `nostr-directory/` | published entries, router leases, relays | a lease is renewed before it runs out |
| Threads and page workers | `common/src/thread*` | rayon workers standing in for threads in a page | a spawned thread runs |
| USB I/O | `usbio/` | transfers over nusb or WebUSB | the device side of the HackRF models stands for it |
| RTL-SDR, Airspy, LimeSDR | their crates | smaller receive loops | as the HackRF receive stream |
| File, clip, SigMF, bench sources | `sources/` | sequential readers and writers | - |
| Protocol locks | `pipeline/src/lock.rs` | scores against a learned raster | - |
| Decoders, DSP, codecs | `decode/`, `dsp/`, `mbe/`, `identify/` | sequential numeric code | - |
| Speech | `stt/`, `tts/` | inference behind worker threads | - |
| Packet log, evidence, feeds, gateways | `app/src/wspkt.rs`, `nodes/src/feed_nodes.rs`, ... | append-only files; clients with droppable queues | a slow client costs only itself |
| Survey | `survey/` | a database behind one connection | - |
| Assistant, the rest of the interface | `app/src/agent/`, `app/src/` | callers of the commands in `Over` and `GraphEdits` | - |
| Door, GPS, audio, updates, HTTP, orbits | | one thread or one call each | - |

`PROJECT.json` names the reason for each, and under `hazards` every place found so far where this code is hard
to test, with the property that watches it, or why there is none yet.

## 2. The modules

```
 ChunkPipe  <--refines--  UsbReader   <--EXTENDS--  UsbReaderProofs
                          UsbWriter   <--EXTENDS--  UsbWriterProofs
 HalfDuplex <--EXTENDS--  Over        <--EXTENDS--  OverProofs
              IqPump, IqSession       <--EXTEND---  IqProofs
              FlowGraph, GraphEdits   <--EXTEND---  GraphProofs
 MCFlowGraph  --EXTENDS-->  FlowGraph
 MCGraphEdits --EXTENDS-->  GraphEdits
 MCFileCache  --EXTENDS-->  FileCache <--EXTENDS--  FileCacheProofs
 MCSpool      --EXTENDS-->  Spool     <--EXTENDS--  SpoolProofs
 MCCombined   --EXTENDS-->  Combined  <--EXTENDS--  CombinedProofs
```

The MC modules only give values to constants that a `.cfg` cannot write.

`HalfDuplex` takes from `UsbReader` and `UsbWriter` what they show: that draining and joining a handle ends. It
does so as one step, which is sound because the code holds its lock or owns its handle throughout.
`IqSession` says *whether and with which label* a block reaches the reader, `IqPump` *at what time*; they share
the pump and the assembler and abstract each other's half. One module proves about both, so their names are apart
(`PumpSpec` and `Spec`, the pump's `trouble` and the session's `world`). So are those of `FlowGraph` and `GraphEdits`,
the graph that runs and the edits it is drawn from, which share nothing else.

**ChunkPipe** promises what a reader of a stream may rely on: a bounded pipe that hands chunks over one at a time, in
order, none missing, and that closes once. `produced` is chunks made, `consumed` chunks read.

**UsbReader** has one action for each stretch of `streaming_thread` between shared accesses (`OpenEndpoint` to
`Finish`), for `recv`, `tune`, `stop`, for the three ways `hackrf` lets go of a handle (`BeginRelease`, `DrainOne`,
`DrainedDry`, `DropRefused`, `Join`), and the board (`Complete`, external). A chunk is its number in the order the
radio made it, `asked` and `done` are the endpoint's queue. Data, empty and failed transfers all occur.

**UsbWriter** has the producer on one side (`CountChunk` / `PutChunk` / `RefuseChunk` are the three instants of
`send_timeout`; `BeginDrain`, `LoadQueued`, `LoadAirborne`, `DrainTimeout` those of `drain`) and the transmitting
thread on the other. Samples are numbered as they are written; a transfer is the samples it carries, so padding
is left out and a transfer of nothing but padding is the empty sequence. `TxFiller`'s take and count are two
steps because `drain` can look between them.

**HalfDuplex** is the driver's `Shared` and the two threads that meet in it. Every step that takes a lock or stores
an atomic is an action: `start_tx` in five (`rf`), `hand_back` in six for each thread (`hb`), the read
with its watchdog: `ReadBlock`, `ReadFlat` (blocks of one value, which the watchdog restarts for ever), `ReadNothing`
(no block, or no thread: restarted three times, then reported gone). `DriverNext` drives it with any caller the traits
allow. A board may refuse an open, let its streams die and come back flat or mute only in the world "flaky".

**Over** EXTENDS `HalfDuplex` and adds the radio thread's loop (`phase`, in the code's order: commands, retune,
rebuild, read, vox and over, home), the `Transmitter` handle, its jobs, and the transmit thread (`txpc`). The
operator's commands are actions of the command phase, so a batch is several in one phase. `ChainFails` is a block the
chain's own run fails on, which drops the chain and tells nobody. `Holders` names the six places an open stream may
be.

**IqPump** has the radio (`Push`, which overwrites the ring when it is full), the pump (`Lagged`,
`SendBlock`, `QueueFull`), the network (`Lose`, and `Reach` for reordering) and the reader (`Deliver`, `DeliverCopy`,
`Receive` for the assembler with its padding). Each block carries in the model, never on the wire, the radio's own
time; `drift` is how far the reader's time was out for the last block it was handed.

**IqSession** is one client. `down` is one queue for the out queue, the socket and the client's own,
including the senders waiting for room beyond `OutDepth`, in the order they began to wait (tokio's `mpsc` is
fair); a task with a frame waiting does nothing else. The server's tasks share one thread, so reading
a stream's description and queueing it is one step; the stream's owner is on another thread and acts at any time.

**FlowGraph** draws (`Connect`), resolves and orders (`Resolve`, `Place`, `Sorted`), asks every node what it makes of
the streams it is fed (`Negotiate`, `Refuse`; a node's answer is a constant function `Makes`, one spec for all its
ports), switches (`SetOff`, `SetInputOff`, then `SettleLevel` down the levels) and runs blocks (`StartRun`, `Stage`,
`Process` in any order within a level, `Unstage` or `Abort`). Node *k* is also the slot it writes; a buffer's content
is the number of the block it was last written in. Running a block is a step per node because the pool may take them
in any order.

**GraphEdits** has the operator's operations, the interface's frame (`Poll`, `Flush`) and the radio thread's
commands and rebuild (`Rebuild`, at the dial that is wanted or, while `tune_gap` holds the move back, at the one there
is). A graph is a function from stages to a setting and a wire, with the stages that are off; `Diff` and
`Apply` are `Edits::diff` and `apply` on it. Commands are taken one at a time, which includes the batches
`apply_commands` takes. The revision is a flag, *unseen*, so the case of two radios whose revisions happen to be the
same number is left out. `meant` is history: what the operator's changes come to.

**FileCache** has a worker per dataset going through `get`, `refresh`, `fetch` and `record` step by step, each write
on disc an action of its own, and outside of it the publisher, a kill, and a deletion. A file is the sequence of
pieces it was written in, a version is its entity tag, and a handle is named by where the file it writes is now.
Versions only go up. Only sources with entity tags are modelled.

**Spool** has each receiver's node (`Hear`, `Age`, `Drop`, the flush in its steps `NoDirectory`, `Drain`, `Write` or
`Spill`, `Rename`), the uploader (`Poll`, `Read`, `Taken`, `Refused`, `Remove`), the clock and the kill. A name is
what it is formatted from. `beacondb_nodes.rs` is the same program with a switch in the place of the account.

**Combined** has in the world "dial" the control calls, which move tuners one by one and may be refused at any,
and in the world "rx" the threads of the slices, the driver's own losses and the reader (`Look`: wait, end, or
`Stitch`). A sample is its number among those its tuner delivered; filters, shifts and the estimate of drift are
left out, their result, a correction by a sample, is any of -1, 0, 1.

**Worlds.** All but the USB modules and `FlowGraph` have a variable `world`, chosen in `Init` and never
changed, that says which troubles a behaviour may meet. One run thus checks a property in every environment
in which the code keeps it, and the property names the environments in which it does not; there the same
formula without its condition is what a configuration of section 4 shows violated, or is explained there.

## 3. The runs

### Runs that pass

| run | instance | checks | distinct states |
|---|---|---|---|
| `usb_reader` | 2 transfers, channel of 2, 2 tolerated errors, 5 chunks, 1 command queued, 2 frequencies | `QueueKeptFull`, `CallsEnd`, `ImplementsPipe` (refinement of `ChunkPipe`) | 22,000 |
| `usb_writer` | 2 transfers of 2 samples, channel of 2, chunks of 1 and 3, 8 samples | `SamplesInOrder`, `KeyedWithTransfers`, `DrainSeesQueue`, `CallsReturn` | 24,000 |
| `half_duplex` | 2 frequencies, 3 overs, worlds calm, eager, flaky | `ClaimsAgree`, `SilenceMeansAnOver`, `ReceiverOnFrequency`, `ComesBack` | 41,000 |
| `over` | 2 dials and the channel, 2 overs, 3 jobs queued, worlds calm, eager, flaky, breaks, fails | `StreamHasOneOwner`, `LampTellsTheAir`, `DialFollowsTheOver`, `HeldKeyHolds`, `ComesHome` | 380,000 |
| `iq_pump` | ring of 2, inline queue of 2, blocks of 1 or 2 samples, 4 blocks, 1 copy, six worlds | `ReaderOnTime`, `BlocksAccounted` | 37,000 |
| `iq_session` | 2 frequencies, out queue of 4, 2 incarnations of the tuner, 2 retunes, 1 announcement, seven worlds | `OnePump`, `LabelFollowsDial`, `NobodyWaitsForEver` | 124,000 |
| `flow_graph` | 3 nodes, one an optional merge of two, one that takes samples only, one that sends, 4 streams, every drawing of them, 2 blocks | `BuildDecides`, `ReadsThisBlock`, `IdleIsCutOff`, `RunSpeaksOfThisBlock` | 852,000 |
| `graph_edits` | 2 derived stages, one only in the span at home, 1 stage of the operator's, 2 dials, 3 changes, eleven worlds | `ScreenIsRunning`, `NothingIsLost`, `KeptByRebuild`, `SavedInTheEnd` | 84,000 |
| `file_cache` | 1 or 2 files, 3 versions of 2, 1 and 2 pieces, the second a complaint, 1 kill or deletion | `CopyStays`, `CheckedIsTrue`, `HaltedIsSilent`, `BecomesCurrent` | 575,000 |
| `spool` | 2 receivers, 2 rows, 2 rows to a file, 1 kill, 2 threads that could upload | `RowsGoOnce`, `FiledUntilTaken`, `Delivered` | 169,000 |
| `combined` | 2 tuners, chunks of 2, blocks of 2 and 1, queue of 1, one slice corrected by -1 to 1, 2 dials, 2 rates, 2 calls | `InOrderAndCounted`, `LossNeverOverstated`, `SlicesTile`, `ReadsAreHonest` | 135,000 |

Only `file_cache` checks for deadlock; the other systems may really stop: a reader is released, an over ends with nobody
keying, a client leaves, an operator changes nothing. Each module's type invariant (`TypeOK`, or the `Typed` of its
proofs) is part of its inductive invariant.

What they show:

- **usb_reader.** The USB queue is full whenever the loop runs; chunk *n + 1* follows chunk *n* whatever the board
  answers and whenever the consumer lets go; draining before the join is what makes a release end (the mutant without
  it deadlocks).
- **usb_writer.** The re-cutting loses and repeats nothing; the mode is off before any transfer is cancelled; when
  `drain` says yes, channel and endpoint hold nothing of the over; every wait ends.
- **half_duplex.** The claim never has two holders, in any world. The watchdog cannot mistake an over for a dead board.
  After an over the receiver hears again unless another over follows, the radio is reported gone, or the board comes
  back flat however often it is restarted.
- **over.** An open stream is never leaked or shared, in any world, and every drain ends. With an operator who waits,
  every over comes home; in the other worlds the properties hold that name them.
- **iq_pump.** With a pump that keeps up and a path that keeps its order, any loss is padded by exactly what was
  lost. Every block that was numbered is sent, counted as lost, or still on its way.
- **iq_session.** At no moment do two pumps serve one reader; a reader is handed a block or its subscription
  ends, though no datagram ever arrives or a request is torn in two; a reader whose tuner goes is ended, one that
  stops reading is dropped.
- **flow_graph.** What is built has every required input fed by a node that exists, no circle, and streams that are
  what each node makes of its inputs; what is refused lacks one of these. The walk over the levels computes the
  greatest set of nodes that get no samples. What a run leaves in the ports is of that block; what it returns is too,
  unless two nodes of one level ever failed in one block.
- **graph_edits.** As long as each change is looked at before the next and the radio is not let go of, the screen, the
  plan, the running graph and the disk all come to what the operator did, over undo, parameters, moves of the dial, a
  refused drawing, a restart or a kill. In every world a stage that is fed has its node, and nodes hold what the
  drawing says.
- **file_cache.** Whatever breaks off, refuses, is killed or deleted, with one writer to a file the served copy is one
  whole version and stays; new bytes under an old tag, which a kill leaves, are put right by the next check; a
  refused publisher is left alone until a person asks; a reachable publisher's version is served in the end.
- **spool.** On a sound disc no row is lost but to a kill or the account's removal; what is filed stays until WiGLE took
  it, also with a failing disc; nothing is sent twice while nothing goes wrong; all that is owed is taken in the end.
- **combined.** Samples of a slice keep their order, and each is given, skipped for a correction, waiting, or refused
  and counted; the loss counter never claims more than was lost; after a call that succeeded the slices lie side by
  side.

### The worlds

| module | world | what may happen |
|---|---|---|
| HalfDuplex, Over | calm | a sound board; a caller who waits for each over to come back |
| | breaks (Over) | the same, and edits that leave the transmit chain unbuilt |
| | fails (Over) | the same, and a block the transmit chain fails on |
| | eager | a caller who keys, unkeys and tunes at any moment |
| | flaky | opens may fail, streams may die; a reopened reader may deliver flat samples, or none |
| IqPump | inline | the control connection instead of datagrams |
| | slow | the pump or the inline queue falls behind |
| | lossy, shuffled | datagrams lost; out of order and twice |
| IqSession | calm, moves | the dial moves only after the first block; at any moment |
| | blocked | no datagram crosses, so the fallback must |
| | comes | the tuner is unplugged and another offered |
| | stalls, drags | the caller stops polling; and the dial is dragged meanwhile |
| | torn | a request comes in two parts, and the server looks elsewhere between them |
| GraphEdits | draws, tweaks, undoes | stages and wires; parameters of nodes; taking back and doing again |
| | roams, wanders | the dial moves; and changes are made where a stage is out of the span |
| | restarts, reopens | the program ends or is killed; the radio is let go of and connected |
| | fails, refuses, breaks, full | an open fails; a stage refuses its stream; a wire no graph builds with; a full command queue |
| | hasty, returns | changes made before the last is shown; a setting put back to what it was |
| FileCache | one, pair | a dataset of one file; of two |
| | race | two datasets that share a file (`FileCacheRace.cfg` only) |
| Spool | (none), answer, kill | nothing goes wrong; answers are lost; the process dies |
| | disc, brisk | the disc fails; two receivers flush within one second |
| Combined | dial, rx | tuning; receiving, which looks at neither dial nor rate |

### Bounds, and why they are enough

- *UsbReader*: two transfers show the queue shrinking by one; `MaxErrors` 2 separates "an error" from "the last
  tolerated"; five chunks overfill a channel of two and both transfers. The proofs lift all of these.
- *UsbWriter*: chunks of one and three against transfers of two samples leave every kind of remainder; eight samples
  fill channel and endpoint together, with two to spare.
- *HalfDuplex*: three overs let a third start while the first is still being handed back.
- *Over*: two overs are the shortest history in which one can disturb the next; three jobs let an unkey, a new chain
  and a key wait together. Every property was checked once more with three overs, world by world, which is how the
  violation of `OverStale.cfg` was met. `MaxJobs` holds the radio thread back only until the transmit thread takes a
  job: the code's queue is unbounded.
- *IqPump*: a ring of two is overrun by three blocks and a fourth follows; blocks of two samples are cut into two
  fragments, so a block can be half lost; the proofs lift these too.
- *IqSession*: an out queue of four is full with two pumps' replies and a retune; two pumps are a subscription and its
  fallback, all the client ever makes; two incarnations of the tuner are the old id and the new. The properties were
  checked once with three moves of the dial and two announcements, world by world.
- *FlowGraph*: three nodes are the least with a chain, a fan, a merge fed twice by one producer, a circle, and two
  nodes on one level; the four streams (samples, bits, on their way to the air, silence) let a drawing be refused by a
  node for what it is fed and by the graph for feeding it from both directions; two blocks tell an old buffer or error
  from a new one; the proofs lift the numbers.
- *GraphEdits*: a change, one that meets it, and one after (draw, undo, redo; tweak, tune, restart); one derived stage
  that comes and goes with the dial, one that stays. All four properties were checked once with four changes, world by
  world; `GraphEditsAway.cfg` needs the fourth.
- *FileCache*: three versions let a publisher move on twice during a fetch; the middle one is the complaint, and the
  first and last have the same length. One kill or deletion leaves any intermediate state.
- *Spool*: two receivers, so that one may be abandoned while another starts; two rows are a full file, or two files of
  one.
- *Combined*: blocks of the reader's chunk and of half of it, a queue of one so that it fills; corrections on one
  slice only, the other being the reference.

### Fairness, and why the code justifies it

- *UsbReader*: weak fairness of the thread; of `recv`, because the radio loop reads as long as it owns a
  stream; of the steps of a release once begun, which are straight-line code. None of the board (transfers may never
  complete: the wait has a timeout), none of tuning or letting go.
- *UsbWriter*: the thread; the producer's send, which returns at its deadline; the drain's look at the
  counters; strong fairness of `DrainTimeout`, because time passes whatever the thread does.
- *HalfDuplex*: the radio thread in `start_tx` and in its read, and the hand back on the transmit thread. Nobody
  has to key or to let go.
- *Over*: both threads; the transmit thread's look for a job, which it makes before every block; strong fairness of
  `FinishOver`, because the courtesy tone is of finite length. None of the operator.
- *GraphEdits*: the interface's frame and the radio thread's loop go round; edits waiting a second are written. None of
  the operator, who also has to connect a radio that stopped.
- *FileCache*: each worker's step: a request ends within its timeout. None of publishers, kills or people.
- *Spool*: a node's age comes, a flush once begun goes on, the uploader looks, the clock ticks; strong fairness of
  `Taken`: a network that works again and again lets a file through. A file that is refused for ever blocks those after
  it (it is the oldest), and so *Delivered* excludes it by that fairness.
- *Combined*: the reader looks every half millisecond, and a waiting read's blocks of time pass. None of the tuners.
- *IqSession*: `select!` polls its ready branches in random order, so a branch that stays ready is taken;
  the tasks' runtime starves nobody; the timers fire; a dead peer's socket takes what is written to it for a while
  (`Discard`). None of the network, of the owner or of the caller.

## 4. Where the code and its words disagree

One run shows the code doing other than a comment of its own says, and is expected to be violated:

- `over_late_key` / `KeyUpIsOff` (`OverLateKey.cfg`): a key let up before the rebuild it waits for. `unkey` forgets
  the key but not the opened stream, which the rebuild keys: on air, nothing lit, no key down
  (`app/src/radio/tx.rs:559`).

The others have a configuration each, violated when it is run by hand:

| configuration (module) | property | what happens |
|---|---|---|
| `HalfDuplexSilent` (`HalfDuplex`) | `SilentForAnOver` | `start_tx` sets `silent` and then fails: no error path clears it (`hackrf/src/lib.rs:446`, against 564-568) |
| `HalfDuplexFlat` (`HalfDuplex`) | `ComesBackOrIsGone` | a board that comes back from an over streaming flat samples is restarted for ever: the flat path looks at no count of attempts, so the receiver neither hears nor is told (`hackrf/src/lib.rs:805` against 715-723, 828 and 835) |
| `OverHome` (`Over`) | `DialIsHome` | `key_up` moves the synthesiser before it knows that there is a microphone, or that the last over has let go; refused, it leaves it there (`app/src/radio/tx.rs:77`, `:633` against 610-613) |
| `OverRetune` (`Over`) | `RetuneSurvived` | a retune while an over is being handed back finds no control handle, and the error leaves the radio thread (`app/src/radio/thread.rs:904` against 751-754) |
| `OverStale` (`Over`) | `OnAirOnFrequency` | on a board that refuses, a count of refused blocks left over from one over lets a second unkey run before the next over's queued key; when that key is carried out the receiver counts the over as ended and tunes home under a live transmitter (`nodes/src/tx_nodes.rs:405`, `app/src/transmit.rs:167`, against `app/src/radio/tx.rs:605-613`); needs three overs |
| `OverLamp` (`Over`) | `LampOnlyOnAir` | a block the chain fails on drops the chain and its stream and leaves `keyed`, `armed`, `built` and the lamp as they were: "a key lit over a transmitter with no chain", until it is let up (`app/src/transmit.rs:423` against 153-156) |
| `OverTone` (`Over`) | `OneOverNow` | a key pressed again during the tone that ends an over is ignored as already keyed, so it does not end the ending: "it is one over now" is not reached, and the held key is let up with the tone; the interface, which asks for the key as long as it is held, then opens a second over (`app/src/radio/thread.rs:445` against `radio/tx.rs:630-633`) |
| `IqTime` (`IqPump`) | `TimebaseTrue` | a pump overrun by its fan-out moves neither `seq` nor `sample_index`: nothing is padded, every later sample is early (`iqstream/src/server.rs:1444` against 1441-1443) |
| `IqLabel` (`IqSession`) | `ReaderKnowsDial` | the dial moves after the welcome and before the pump listens: the reader is never told (`iqstream/src/server.rs:1392` against 415-420) |
| `IqTorn` (`IqSession`) | `EndsOnItsWord` | `read_frame`, two reads long, is a branch of the server's `select!`: a ping taken between the two drops the head, the body is read as a frame, and the error closes the connection of a reader that did nothing wrong (`iqstream/src/server.rs:1031`; the client's own reader avoids it because "read_exact is not cancellation safe", `client.rs:250`) |
| `FlowIndex` (`MCFlowGraph`) | `SampleIndexIsFirst` | "index of the first input sample" is taken when the node runs, and counts after an aborted or switched-off block are of its own output (`pipeline/src/graph.rs:994`, `:1092` against `node.rs:273`) |
| `FileCachePair` (`MCFileCache`) | `RefreshReloads` | "both are asked before either result is used": an error of the second discards a first that did change, and nothing reparses it (`datasets/src/airports.rs:128` against 122) |
| `FileCacheRace` (`MCFileCache`) | `CopyIsWhole` | two datasets load the cell operators' file at once and write one `.part`: one renames what the other is writing (`datasets/src/cache.rs:428`, `app/src/data.rs:1095`) |
| `SpoolBrisk` (`MCSpool`) | `DeletedWhenTaken` | two receivers flush within one second and take one name: the second file replaces the first (`nodes/src/wigle_nodes.rs:349` against 16) |
| `SpoolMemory` (`MCSpool`) | `KillCostsNothing` | "nothing is held in memory that a power cut would cost": up to 2000 rows, or 300 seconds of them, are (`nodes/src/wigle_nodes.rs:422` against 17-18). `NothingLost` excuses exactly these rows |
| `CombinedBacklog` (`MCCombined`) | `BacklogWithinSlack` | the reader drains every queue into a backlog without bound, so the "four blocks of slack" bound nothing (`sources/src/combine.rs:614` against 572) |
| `GraphEditsReopen` (`MCGraphEdits`) | `ChangesStay` | a new radio has published nothing at revision 0, which is "new": the interface adopts an empty graph and writes empty edits; if the radio then fails to open, they are gone (`app/src/ui/mod.rs:1635` against `ui/state.rs:305-310`) |
| `GraphEditsEcho` (`MCGraphEdits`) | `ScreenFollows` | `patch_sent` is never forgotten: when another graph was adopted and the one last sent comes back (the dial moved and moved back), the other stays on screen, and its difference is saved (`ui/mod.rs:1645` against 1631-1633) |
| `GraphEditsHasty` (`MCGraphEdits`) | `ScreenFollows` | the same, by two changes made before the first is shown |
| `GraphEditsRefused` (`MCGraphEdits`) | `ChangesStay` | a stage left out because it refused its stream is read by `diff` as the operator's removal, and saved (`patch.rs:362-366`) |
| `GraphEditsAway` (`MCGraphEdits`) | `ChangesStay` | edits of a stage that left the span are forgotten by `diff`, and after a restart there "they come back when it does" (`patch.rs:383-385`) is not so |

Smaller ones, met while modelling. The conditions of the passing properties are there because of them:

- *drain*: `TxFiller` holds a chunk that is no longer `queued` and not yet `airborne`, so `drain` can say "emptied" up
  to one transfer early (`hackrf-usb/src/transport.rs:430`, `:1347`). `DrainSeesQueue` claims only channel and
  endpoint.
- *Stale refusals*: the sink's count of refused blocks outlives the stream it counted, and an idle chain raises `lost`
  again after each block (`nodes/src/tx_nodes.rs:405`, `app/src/transmit.rs:167`). `StillRefused` models it, and
  `OverStale.cfg` shows what it leads to.
- *Re-keying in the hand back's 150 ms* can end in a read that reports the radio gone while it transmits
  (`hackrf/src/lib.rs:439`). `SilenceMeansAnOver` and `ReceiverOnFrequency` exclude "eager".
- *Dial moved while keyed* takes the transmitter with it (`app/src/radio/tx.rs:71`); *an edit that breaks the chain
  mid-over* leaves the lamp lit for a moment (`app/src/transmit.rs:153`). `DialFollowsTheOver` is therefore stated for
  "calm" and the lamp's half of `LampTellsTheAir` not for "breaks".
- *Late and repeated datagrams*: a block of one fragment that arrives late is handed out late and takes
  `next_sample` back (`iqstream/src/subscribe.rs:444`). `ReaderOnTime` is stated for paths that keep their order.
- *A stalled reader while the dial is dragged*: moves fill the out queue, the connection's task waits to send
  its ping and looks at no timeout (`iqstream/src/server.rs:1431`). `NobodyWaitsForEver` excludes "drags".
- *Connecting while a change is announced*: the announcement is read in the place of the reply and the connect
  fails (`iqstream/src/client.rs:245`); a set of tuners that changes between the welcome and the subscription to changes
  is told to nobody (`iqstream/src/server.rs:984`).
- *The running graph's edits*: a parameter set on the running graph overwrites edits that arrived and were not yet
  rebuilt (`app/src/radio/thread.rs:837`); a refused drawing puts back the last edits that *built*, without the
  parameters set since, and costs every node's state and the recording (`:951`), which "survives every rebuild short
  of being switched off"; edits equal to the plan's publish nothing; `Cmd::NodeParam` names a node by its place in an
  older graph; a command queue of 64 that is full drops an edit silently (`radio/mod.rs:147`); undo does not reach a
  parameter held by a node of the operator's own. `SavedInTheEnd` is therefore not about whatever the operator does:
  its premise is `Orderly`, a radio that opens and drawings that build before a restart, and in the worlds of
  `GraphEditsEcho` and `GraphEditsHasty` the disk may hold other edits than the graph that runs, for good. A drawing
  that does not build is saved before it is refused: after a kill the radio does not start.
- *Combined receiver*: a refused `set_center` leaves some tuners moved, a refused `set_rate` mixes rates until the
  next (`sources/src/combine.rs:306`); a `start_rx` that fails at a later slice leaves the earlier ones' threads
  running, their tuners claimed; a slice's counter takes both a sum and a maximum and so says less than was lost
  (`:536`, `:591`); a full queue refuses the newest block, though the newest is wanted (`:585`); a skip with exactly a
  chunk pending costs a sample of silence.
- *Wardriving*: a failed write or rename loses the rows drained for it (`nodes/src/wigle_nodes.rs:351`); a file that
  is always refused holds back all after it. *Cache*: any failure, also being offline, halts the automatic refresh
  (`datasets/src/cache.rs:470`).
- *Outside the modelled parts*: a failed renewal that forgets its lease (`sdr-directory/src/portmap.rs:132`); a join
  that may wait for ever in a page (`common/src/thread/pool.rs:53`); stream ids cut to 16 bits, so that after 65,536
  tuners two may share one (`iqstream/src/server.rs:745`); a dial a reader asked for, kept until the radio stands
  exactly there (`nodes/src/iqstream_nodes.rs:292`).

## 5. The proofs

Proved by TLAPS for every value of the constants. The assumptions are the named `ASSUME`s of the modules
(`ReaderAssumption`, `WriterAssumption`, `DuplexAssumption`, `PumpConstants`, `SessionConstants`, `GraphAssumption`,
`SpecAssumption`, `EditsAssumption`, `CacheAssumption`, `SpoolAssumption`, `CombinedAssumption`): sizes are positive
naturals, bounds are naturals, sets are of the right kind. None of the properties is inductive; each module names the
strengthening, proves it one step per action, and takes the properties from it.

**UsbReaderProofs.** A resubmission stays within the queue only because the queue was full, and the transfers are all
accounted for only while the loop runs. `IInv` adds: the channel is within its bound; fewer than `MaxErrors` errors
while looping and none before; asked and completed transfers together are within `NumTransfers`; and before the fill
and after the exit the mode is off and nothing is asked or completed.

- `ReaderTypeOK`, `ReaderDropsNothing`, `ReaderKeepsQueueFull`, `ReaderOutlivesThread`;
- `ReaderImplementsPipe`: under the mapping *produced = taken, consumed = got, open = the thread has not exited* and
  *Slack = Cap + 1* (the chunk in the thread's hand), every step is a step of `ChunkPipe` or a stutter.

**UsbWriterProofs**, for any sizes of chunks and transfers. Beside `SamplesInOrder` and `CountersExact` the invariant
has *Producing* (what the producer is between, and what it has counted by then), *Shape* (how full the endpoint is at
each place of the loop), *Flights* (the real transfers at the endpoint, as a set whose size the counter is) and
*Erring*. The order of samples is proved over runs of consecutive numbers (`RunJoin`, `RunCut`, `RunsAppend`,
`RunsTail`): channel, leftover and endpoint are consecutive runs, so cutting a chunk differently leaves their
concatenation alone. Theorems: `WriterInvariant`, `SamplesAreInOrder`, `CountersAreExact`, `KeyedWithTransfersQueued`,
`DrainSees`.

**OverProofs**, first the driver's half, for any number of overs and frequencies. `IInv` has three layers:

- *Claims*, on every board and with every caller: a reader about to go into its slot has the claim and is alone;
  between the open and the writer the claim is the new over's, whose stream nobody can let go of yet; an over holds
  the claim only while it runs or is being drained. `ClaimsAgree` is inductive with these.
- *Silence*: a running reader is silent only during a hand back; and on a sound board `start_tx` can be refused its
  tuning only when the last over's hand back took the control handle, which then ends the silence too.
- *The course of an over*, on a sound board whose caller waits: the driver is in one of six states, receiving, taken,
  opened, running, talking, returning, and each action leads from one to the next. So `start_tx` is never refused
  there, the watchdog never fires, and no read reports the radio gone. `Frequency` drops "sound": one over at a time
  is enough for the settings copied by `hand_back` to be the wanted ones when they are applied, because from the key
  to the new reader there is no handle to steer the board with.

Then the two threads over it, in every world and for any number of queued jobs. `OInv == TypeOK /\ Owner /\ Announced
/\ Excused /\ Solo /\ Lit`:

- *Owner*: a stream that streams is in one of the six places, or about to be returned, and in no two. The one place
  that is *assigned* over, the chain's sink, is overwritten only when its stream has been let go of; and every key job
  in the queue has a chain before it with no drop between, so a key finds a chain and the transmit thread's own
  waiting place (`Seated`) is filled only where a chain failed by itself.
- *Announced*: a key kept for a rebuild has its stream waiting, and a stream waiting has a rebuild coming; unless
  edits break the chain, the lamp is lit only for an armed chain that is built; and for an operator who waits, an
  armed chain has its lamp lit and its key down, or is ending.
- *Excused* says in which worlds a chain may be dropped at all; *Solo*, that where one fails by itself there is one over
  at a time, so that no second stream is opened beside the one that was on it; and *Lit*, where the radio is while the
  lamp is lit: its key is the last such job in the queue, or nothing queued lets go of the stream on the sink.

Last, in the calm world, where the dial stands. *Course* is the seven stages of an over, each of both threads, the
driver and the queue between them: at home, the transmitter being started, its stream waiting for the rebuild, keyed,
let up, handed back, and on the way home. Each step stays in a stage or leads to the next. A stage fixes the dial and
says what may still be queued: chains and the one key while keyed, then one unkey with no key behind it. So the unkey
finds its stream on the chain (it was sent behind it, by *Owner*), `hand_back` finds the claim free, and
`back_to_receive` finds a reader to tune.

Theorems: `DriverTypes`, `OneHolder`, `SilenceEnds`, `AirIsLeftAlone`, `RadioIsKept`, `SilenceIsAnOver`,
`ReceiverIsOnFrequency`; `OverInvariant`, `OverTypes`, `StreamsAreOwned`, `LampIsTrue`, `KeyIsHeld` (an action
property), and `DialFollows`.

**IqProofs**, first the samples. For every depth of ring and queue, all block lengths, any mixture of troubles, `IInv ==
PumpTypeOK /\ Behind /\ PathOrdered /\ InTime /\ Heard /\ BlocksAccounted`:

- *Behind*: nothing on the path or in the assembler is of a block not yet sent. So a new block's fragments meet none
  of theirs.
- *PathOrdered*, on a path that keeps its order: one datagram is followed by a later fragment of its block or by a
  block past its end (`Follows`), and the assembler holds only fragments *before* those still to come. So only a
  block's last fragment can complete it, and then everything still on the path starts at `next` or later. Without this
  the padding could be computed from a block already passed.
- *InTime*, for a pump that keeps up: the index is the radio's time (but for the one block not yet sent), datagrams
  carry as index the time they were taken, and the reader's `clock` equals `next`.

`TypesKept` and `EveryBlockAccounted` hold on every network, `ReaderIsOnTime` where the pump keeps up and order is
kept, and `IndexIsKept` (an action property) on every path that keeps its order.

Then the session, in every world, for any depth of the out queue, any frequencies, and any number of retunes, settings
announced and times the tuner is offered. `SInv` has five layers:

- *Typed* and *NamesNoNew*: no message, and no reader, names a stream that was not offered yet. So a tuner put back
  under a new id is never taken for the old one.
- *FewWait*, the queue beyond its depth: one frame of a pump and what `converse` sends in one go. It makes
  `Len(down) <= OutDepth + 3` of `TypeOK` a consequence, which by itself is not inductive.
- *Turns*: a subscribe over datagrams and one over the control connection exist at most once each, first among the
  requests, then with `converse`, then as a pump, and the second never before the first is with `converse`. So the
  first pump started is pump 1, the second pump 2, and `Fresh` always finds one.
- *SwitchHeld*: a pump that is alive is the one `converse` holds the switch of, unless the connection was left on an
  error, and `converse` holds none while it serves a subscribe. With *Turns* this gives `OnePump`: the second pump
  starts once the first has ended.
- *LastPump*, *Unmoved* and *LastWord*, for the labels. A block that was heard came from the last pump there will be:
  by then no subscribe is on its way and the fallback is off. Until it was heard, where the dial stands still,
  every frame on its way says where it stands. After it, the last word does: the last retune the pump has yet to pass
  on if there is one, else the last frame in the queue that labels the stream, else the label the reader has. A retune
  reaches every pump alive, so each move of the dial becomes the last word.

Theorems: `SessionInvariant`, `SessionTypes`, `PumpsAreOne`, `LabelsFollow`.

**GraphProofs**, first the graph that runs, for any number of nodes with any number of inputs, and any sequence of
switches and blocks. `IInv == TypeOK /\ Sorting /\ Negotiated /\ Above /\ Settled /\ Parked`:

- *Sorting*: what is in the order has its producers in it, on lower levels; the counts of the others are of producers
  not yet in it; no *knot* (a set in which every node is fed by a member) has a node in the order. When the sort finds
  nobody ready, those that are left are a knot.
- *Negotiated*: a node that was asked has the answer its slot holds, and *any* streams on which the whole drawing agrees
  are the ones found so far. So negotiation down the levels finds the only streams there can be, and a node that
  refuses them refuses the drawing, whatever the order within a level. With *Sorting* this is `BuildIsRight`, both ways.
- *Settled*: the levels the walk has passed agree with the nodes that feed them. That this is the *greatest* set of
  nodes without samples (`IdleIsRight`) takes the levels once more: a set of self-sustained idle nodes would be a
  knot.
- *Above* and *Parked*: levels above the one being run hold this block; at most one error is parked, on the level that
  is out of the arena. So `InputsAreCurrent`, `TapsAreCurrent`, `ErrorsAreCurrent`, `RunsAreCurrent`.

Then the edits it is drawn from, in every world, for any stages, dials, spans and number of changes. What makes this one
long is that no copy of the edits is the true one: each is a difference from a graph somebody had. So
`EditsInvariant` says of every drawing that is *about*, on screen, sent, on a stack, in the queue, planned, kept in case
the next does not build, or running, where it came from and what it is read against:

- *Context*, in every world: what runs is the plan drawn at its dial as long as no rebuild is due, and what is
  published is what runs; the base and nodes the interface read are those of that graph; every setting about was given
  by a change already made (`Bounded`), so a new one is none of the old. Where each change is looked at before the
  next, an edit or a setting stands at the head of the queue, behind a session's start at most, and a setting is taken
  in the very graph it was chosen from (`InOrder`).
- *Answered*: a drawing that was sent and builds is still on its way; or it is planned, on screen and about to run; or
  the operator has set something since that it did not have. `Echoed` is the same where the radio is let go of: what
  is about is that drawing, or has nothing of the operator's in it. With these the interface's test, *is the published
  graph the one I sent?*, is right as often as it is asked, and `OnScreen` is kept: screen and receiver agree, or a
  rebuild is due, or the drawing is on its way. At rest neither of the last two is so, which is `ScreenFollowsRadio`.
- What is compared of two drawings (`View`) is the operator's own stages; and the whole of it where the dial and the
  strip leave the base alone, which `NoEcho` says. Over the whole drawing `Answered` is false otherwise: that is
  `GraphEditsEcho`.
- *Chain*, *Alike*, *OwnNodes*, for `RebuildsKeep`. Two drawings are *near* when no stage of the operator's that both
  feed is set differently. One change leads to a near drawing, since a stage that is fed is set through its node and a
  setting is drawn only of one that waits. A node is wrong when a rebuild leads over *two* changes to a stage it
  keeps. `Alike` says that on one road all drawings about are one of two that are near; `Chain`, that a stack is near
  from each drawing to the next.

What the edits *mean* comes on top of that, as `Meaning`, and gives `NothingIsLost`. At every moment some copy is behind
the others, so it says of each who is ahead of it:

- *Underway*, *Unread*: a change is with the plan or at the head of the queue; the interface has it, or is about to read
  it off the graph. A setting is with the receiver and the queue only, until the plan has taken it.
- *Standing*: edits that may be started from again *stand*, that is, what can be read off the drawing they make is they
  themselves. Else what runs after a restart would come to other edits than those on disk, as with a setting equal to
  the default. `Anchored` goes with it, since edits are read against the base at home.
- *Restarted*, *Written*: before a session's first graph the disk has it all and nothing is about to be written over it;
  later, what the interface holds is on disk or about to be.

Working it out showed that three premises of the properties had named too few of the combinations of troubles that no
one world of the run has together; `NoEcho`, `Orderly` and `OneRoad` name them now. Theorems: `EditsAreAnswered`,
`EditsTypes`, `ScreenFollowsRadio`, `RebuildsKeep`, `EditsAreMeant`, `NoChangeIsLost`.

**FileCacheProofs**, for any versions, sizes, datasets and workers, when one worker at a time writes. What makes a
kill harmless is an order: no tag is newer than the file beside it, and no file newer than the publisher's
(`InOrder`). A temporary is the beginning of one version (`Arriving`), a record about to be written is of the file's
length and no newer (`Recording`), and a copy found current has its own tag (`Confirmed`): so a 304 for a tag can only
be given when the bytes are that tag's. Theorems: `CacheInvariant`, `ServedIsWhole`, `LandedIsHeld`, `CopyIsKept`,
`ChecksAreTrue`, `HaltedAreSilent`.

**SpoolProofs**, for any receivers, rows and threads. Every name is of an earlier second, or of this one from a node
that has counted as far (`OldNames`), so it is never given twice (`OwnNames`) unless two receivers flush in one
second; so a rename replaces nothing, and a row is in one place (`Apart`). One thread uploads, and the file it is
about is as it was read. On these rest `AllKept` and `Untaken`. Theorems: `SpoolInvariant`, `RowsAreKept`,
`RowsAreTakenOnce`, `RowsKeptAndTakenOnce`, and `FilesAreOwed` (an action property).

**CombinedProofs**, for any number of tuners, lengths of blocks and refusals, `Inv /\ Course`. *Inv* bounds each
counter from both sides, whichever of its writers came last, and keeps the slices side by side. *Course* follows the
samples: backlog and queue are one rising run up to the last sample read, every sample a tuner delivered is in it or
was given, skipped or refused, and a slice found closed has no thread until the stream is dropped. Theorems:
`CombinedInvariant`, `LossesAreTold`, `SlicesAreTiled`, `SamplesAreCounted`, and `AnswersAreTrue` (what a read
answers, an action property).

**Only model-checked.** Every liveness property and everything that rests on fairness or `ENABLED`: `CallsEnd`,
`CallsReturn`, `ComesBack`, `ComesHome`, `NobodyWaitsForEver`, `SavedInTheEnd`, `BecomesCurrent`, `Delivered`, and
that a read ends (`ReadsAreHonest`, whose other half is `AnswersAreTrue`). Every other property of the passing runs, so
every safety invariant among them, is proved. What a recursive definition computes for every input is out of the
prover's reach; none of the proved modules has one.

## 6. What is not modelled

*In modelled components.* UsbReader, UsbWriter: control commands other than tuning (gain, amplifier) change nothing
the properties see; a relaxed store is seen at the next load. HalfDuplex: gain, rate, bias tee, enumeration; the
attempts of the watchdog are counted up to one past its threshold. Over: vox, the transmit switch, a channel that does
not exist, levels, parameter and settled jobs, what the chain makes of the microphone, reopening after the radio is
reported gone (the model stops there); one channel. IqPump: packing and compression (a block is its length), the wrap
of the 32-bit block number. IqSession: a frame torn inside its head or its body rather than between them (more is then
misread before the error), path probing, `TUNE` and `SET_SETTING` towards the owner, refusals of a codec or bit depth,
several subscriptions on one connection, a server without a data port, `Prefer::Udp` without fallback, the table of
early punches overflowing. FlowGraph: latencies, negotiating again when `set_input_spec` gives a built graph another
input, answers that hang on more than the node and its inputs or differ from port to port, a node with the wrong
number of them, tags and metadata, measured cost, what a node does with its samples. GraphEdits: what the chain draws
for a dial, positions, kinds and ports, the manual mode, the transmit half, two radios with equal revisions.
FileCache: sources without entity tags, versions that go back; an unlinked temporary's length is taken as what the
handle wrote. Spool: the counters on the screen and the length of a backoff, the CSV; seconds pass between flushes
only; a row is counted as taken at most twice; two program instances that share a directory. Combined: filters,
shifts, the estimate of drift, a dial moved while receiving (the stream keeps the centre it was started with); callers
always stop.

*Components.* Those of the second table of section 1. Decoders, DSP, codecs and numeric estimates, the greater part of
the program's lines, are sequential functions of their samples, where a model adds nothing to their tests; sources,
logs, GPS, audio and the rest are one thread or one call each. The others are in the plan.

## 7. Plan

Done, in order of what the system rests on: `ChunkPipe` and `UsbReader`, `UsbWriter`, `HalfDuplex` under both, `Over`
over it; `IqPump` and `IqSession`; `FlowGraph` and the edits it is rebuilt from, `GraphEdits`; `FileCache`, `Spool`,
`Combined`; and the eight proof modules. Left:

1. The owner's side of `TUNE` (`nodes/src/iqstream_nodes.rs`) and the asks mailbox of `remote/iqstream.rs`, which close
   the loop from a reader's dial to the radio's.
2. `PortLease` (`sdr-directory/src/portmap.rs`), the tuners' reopening (`app/src/tuners.rs`), `WorkerPool`
   (`common/src/thread`).
3. The receive chain's drawing per dial and its pool of nodes, which `GraphEdits` takes as given.
