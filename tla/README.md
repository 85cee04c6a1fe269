# A verification development for PicoMesh

PicoMesh connects small boards that run local inference: fixed-capacity frames
over I2C, UART or any byte transport, with retries, duplicate tracking and
liveness monitoring, and no heap allocation. This directory holds TLA+
specifications of its parts, TLC configurations that check them on small
instances, and TLAPS proofs of the properties that matter most.

Run everything from this directory: `tlc -config MCx.cfg MCx` checks a model,
`tlapm X_proof.tla` checks the proofs of a component.

## Inventory

| Component | Source | State it keeps | Operations |
|---|---|---|---|
| Reliable queue | `src/reliability.cpp` | 8 slots: frame, wrapping deadline, attempts, active flag; retry policy | `enqueue`, `next_due`, `acknowledge`, `cancel`, `clear`, `pending_count` |
| ACK codec | `src/reliability.cpp` | none | `make_ack_frame`, `parse_ack_frame` |
| Pico I2C endpoint | `ports/pico-sdk` | two receive buffers with lengths, write and ready index, ready flag; two transmit buffers, active index, position; drop counter | `begin`, `publish`, `poll`, interrupt handler |
| Arduino Wire endpoint | `src/arduino` | one receive and one transmit buffer, ready flag | `begin`, `publish`, `poll`, the two Wire callbacks |
| Controller and UART transports | both ports | none | `send`, `receive` |
| Node registry | `src/node_registry.cpp` | 32 records: online flag, last seen tick, last frame | `observe`, `refresh`, `get`, `online_count` |
| Sequence tracker | `src/sequence_tracker.cpp` | last sequence of each node | `observe`, `reset`, `reset_all` |
| Frame codec, checksum | `src/frame.cpp`, `src/checksum.cpp` | none | `encode_frame`, `decode_frame`, `frame_length_from_prefix` |
| Stream decoder | `src/stream_decoder.cpp` | partial frame, its expected length | `feed`, `reset` |
| Reference applications | `examples/*` | a sequence counter, timers, one of each of the above | main loops |
| Serial log summary | `scripts/summarize_serial_log.py` | per-node counts and last sequence | `observe`, `parse_lines` |
| Release, archive and documentation scripts | `scripts`, `.github` | none | file checks |

How they interact. A controller's loop puts commands into a `ReliableQueue`,
asks it with `next_due` for the frame to send, writes it over a transport, and
reads the node's mailbox back to find an ACK, which resolves the queue entry.
On the node, the transport's interrupt handler (Pico) or callbacks (Arduino)
share the mailbox with the main loop, which polls commands and publishes
heartbeats and ACKs into the single transmit mailbox. A monitoring controller
feeds what it reads into a `NodeRegistry` and, if it applies commands or
counts losses, a `SequenceTracker`. A byte-stream link puts a `StreamDecoder`
in front of all of that.

What is hard here:

- *Wrapping numbers*: deadlines and last-seen ticks are 32-bit milliseconds,
  sequences are 8-bit; both are compared by signed differences.
- *Interrupts against the main loop*: buffers, indices and flags shared
  between the interrupt handler, `poll` and `publish`; a handler that serves
  one byte per call, and several conditions of one status snapshot in a fixed
  order; a handler that runs late.
- *Lost, repeated and late messages*: a mailbox returns the same frame to every
  read; a heartbeat overwrites an ACK; an ACK may be read after its command was
  given up and its sequence reused.
- *Restarts*: a controller or a node that starts again has forgotten its numbers
  and its mailbox, and the other side has not.
- *Damaged bytes*: a stream has to be found again after a fault, and a corrupted
  length moves the place where a frame is thought to end.
- *Bounded everything*: a full queue, an unread mailbox, a drop counter that wraps.

What makes each part correct:

- Queue: unique keys; nothing sent or given up early; nothing due overlooked;
  full only when full; every frame eventually resolved.
- Pico endpoint: an unread frame is never changed; with a prompt handler every
  complete write is delivered whole or counted as dropped, each surplus byte is
  counted, and a read never mixes two frames; a late handler misplaces one byte at
  most; a begin that succeeded stays in force.
- Wire endpoint: what is polled and what is read is one whole message, the latest.
- Registry: a node is online exactly while heard from within the timeout.
- Tracker: duplicates and older frames are told from newer ones within half
  the sequence space, and no frame is applied twice.
- Codec and decoder: what is read is the frame that was published, or nothing;
  an intact frame in step is delivered, and a fault costs a bounded number of them.
- Command exchange: a command reported accepted was received, it is not given up
  without losses, and it is reported in the end.
- Log summary: its turns of the sequence numbers are the true ones.

## Plan

In this order, the most important behaviour first. All of it is done.

1. *Retry queue.* `Ticks`, `Frames`, `ReliableQueue` and its abstract
   specification `RetryService` in true time. Theorems: types, unique keys,
   deadlines, refinement.
2. *Pico I2C endpoint.* `I2cBus` (the hardware), `I2cPeripheralEndpoint`,
   `Mailbox`, what its receive half promises, `EndpointRegistration` for
   `begin`, and `PicoPort` with both. Theorems: types, buffers apart, unread frames kept, begin in force.
3. *Node registry.* `NodeRegistry` and `LivenessMonitor`. Theorems: types,
   last-seen ticks, refinement.
4. *Heartbeat monitoring.* `HeartbeatMonitoring` composes the registry with the
   controllers' loop.
5. *Sequences.* `SequenceTracker`, and `SequencedLink`, which composes it with
   senders and an unreliable link.
6. *Arduino Wire endpoint.* `WirePeripheralEndpoint` against the callbacks of the
   Wire library, and `LatestMailbox`. Theorems: types, refinement.
7. *Reliable command.* `ReliableCommand` composes the controller's queue, both
   mailboxes and the node's loop, with either endpoint and restarts of both
   sides; `AckCodec`.
8. *Frames and streams.* `FrameCodec`, `PaddedRead`, `StreamDecoder`,
   `StreamLink` and `FrameLinks` over a small alphabet, with lost, changed and
   inserted bytes. Theorems: the bound on the decoder's candidate, and item 10.
9. *Serial log summary.* `SerialLog`, behind the same link as the tracker.
10. *Proofs of the compositions.* Reads and the mailbox of the Pico endpoint,
    heartbeat monitoring, the sequenced link, the codec and both frame links, and
    the exhaustion of commands.
11. *Proofs of the command exchange.* Commands are settled in time, and an accepted one
    was received, under a bound on the losses of a command (below).

## The modules

| Module | Models | Extends or instantiates |
|---|---|---|
| `Ticks` | 32-bit ticks and `deadline_reached` | |
| `Frames` | a frame's node, sequence, flags, length; its key | |
| `RetryService` | abstract: the pending frames by key, with true ages | `Frames` |
| `ReliableQueue` | `ReliableQueue` | `Frames`, `Ticks`; refines `RetryService` |
| `AckCodec` | `make_ack_frame`, `parse_ack_frame` | |
| `ReliableCommand` | the command controller, the bus, the node and its mailbox | `ReliableQueue`, `AckCodec` |
| `I2cBus` | external: bus, receive FIFO, interrupt conditions | |
| `Mailbox` | abstract: one unread message, the rest counted | |
| `I2cPeripheralEndpoint` | the endpoint of the Pico port | `I2cBus`; refines `Mailbox` |
| `EndpointRegistration` | its `begin`, and the handlers of the two instances | |
| `PicoPort` | the two of them side by side, in one run | `I2cPeripheralEndpoint`, `EndpointRegistration` |
| `LatestMailbox` | abstract: the latest message each way, nothing counted | |
| `WirePeripheralEndpoint` | the endpoint of the Arduino port | refines `LatestMailbox` |
| `LivenessMonitor` | abstract: who was heard within the timeout | |
| `NodeRegistry` | `NodeRegistry` | `Ticks`; refines `LivenessMonitor` |
| `HeartbeatMonitoring` | the loop of the heartbeat controllers | `NodeRegistry` |
| `SequenceTracker` | `SequenceTracker` | |
| `SerialLog` | `NodeSummary.observe` of the log script | |
| `SequencedLink` | numbered senders, the link, a receiver that applies and logs frames | `SequenceTracker`, `SerialLog` |
| `FrameCodec` | `encode_frame`, `decode_frame`, `frame_length_from_prefix`, the checksum | |
| `PaddedRead` | `receive` of the I2C transports, the bus with its padding and a corrupted byte | `FrameCodec` |
| `StreamDecoder` | `StreamDecoder` | `FrameCodec` |
| `StreamLink` | a sender and a line with faults in front of the decoder | `StreamDecoder` |
| `FrameLinks` | a receiver on one of the two links | `StreamLink`, `PaddedRead` |
| `MC*` | constants for TLC | the module they are named after; `MCFrames` is for `FrameLinks`, `MCEndpoint` for `I2cPeripheralEndpoint` |
| `Ticks_proof` | lemmas on wrapping ticks | `Ticks` |
| `ReliableQueue_proof` | theorems | `ReliableQueue` |
| `ReliableCommand_proof` | theorems | `ReliableCommand`, `ReliableQueue_proof` |
| `Endpoint_proof` | theorems | `I2cPeripheralEndpoint`, `EndpointRegistration` |
| `WireEndpoint_proof` | theorems | `WirePeripheralEndpoint` |
| `HeartbeatMonitoring_proof` | theorems on `NodeRegistry` and on the loop | `HeartbeatMonitoring` |
| `SequencedLink_proof` | theorems | `SequencedLink` |
| `FrameLinks_proof` | theorems on the codec, the decoder and both links | `FrameLinks` |

**State and actions.** Variables have the names of the members they model. The
slots of the queue and the records of the registry are functions from their
index; a buffer with its length is a sequence. Each method of the queue is one
action per outcome (`EnqueueQueued`, `EnqueueFull`, `EnqueueInvalid`), for its
callers use it from one loop. The tick is a parameter of the methods in the code
and a variable here; the true times (`age`, `silent`) are history variables that
no action reads.

In the endpoint, the interrupt handler is two actions: `IrqEnter` takes the
snapshot of the status register and `IrqServe` acts on it, and bus actions may
come between them; the main loop's may not. `poll` and the end of `publish` run
with interrupts disabled and are one action each, `publish` copies its bytes one
action at a time before that. A byte is a pair of message and position, so that a
frame mixed from two is always seen to be one. The hardware is modelled from
how `handle_irq` uses it: conditions are latched until they are cleared,
`RX_FULL` holds while the FIFO is not empty, a byte that finds the FIFO full is
lost and sets `RX_OVER`, the controller is held until the byte it asked for is
there, and STOP of any traffic on the bus is detected.

The variables of `Mailbox` are expressions over the endpoint: `inbox` is the ready
buffer, `line` the write whose STOP the handler has not served, and `counted` the bytes
of it beyond the buffer's size that the handler has read. Each of these adds one to
`dropped_frames_`, so a message leaves the line only with its surplus counted.

The slots of the queue refine `RetryService` with the policy as it was given to the
constructor: the service gives every frame a first send, and that the constructor
raises zero attempts to one is what makes the code agree.

The callbacks of the Wire library are one action each, because the main loop
does not run meanwhile. `poll` looks at `rx_ready_` in an action of its own, before
it disables interrupts; after that, as in `publish`, each byte is one action, so
that a missing `noInterrupts()` would show. A frame is in the abstract outbox from
the moment `publish` has disabled interrupts.

In the command exchange a tick is one pass of each loop, and the steps of the
two loops interleave in it: the controller's are its four calls, with the read
of the mailbox in two, so that the node can publish during a read. A write is lost, or
arrives at an endpoint that keeps the first frame (Pico) or the last (Wire); a
publish during a read is refused (Pico) or not; the first one after `begin` never is,
because `tx_index_` is still zero. Timers count up to the interval
they are compared with. `current`, `received` and `losses` are history.

The codec works on byte sequences, with the sizes and the modulus of a byte as
parameters. The four header bytes it only carries are `fields`. `feed` is one
action per outcome. A padded read goes byte by byte, any one of which may be
corrupted, and may end early; a receiver is on a stream or reads a mailbox
(`FrameLinks`).

Behind a sequenced link any frame may arrive at any time, again or not at all, as long as
the numbers can tell its place (`InRange`: up to half their number behind the last frame
accepted, less than half ahead): that is loss, repetition, delay and reordering without a
channel to keep. `accepted` and `before` are the true numbers of the last two frames applied.

In heartbeat monitoring a pass of `loop()` takes its tick once; reading each
node's mailbox and refreshing are separate actions between which time passes and
nodes come and go.

## What is checked

| Run | What it shows | Bounds |
|---|---|---|
| `reliable_queue` | types, unique keys, deadlines stand for true ages, refinement of `RetryService` | 2 slots, 4 keys, 4 ticks |
| `endpoint` | types, buffers apart, an unread frame is kept, no torn read, the receive half is a `Mailbox`, publishing is never blocked for good; a begin stays in force, its interrupts are served | buffers of 2 bytes, writes of 0, 1 and 3, reads of 1 and 3, prompt handler; 4 endpoints, both instances |
| `endpoint_late` | a late handler moves at most one byte of a write to the next frame, and puts at most one wrong byte in front of a read | buffers of 3 bytes, writes of 2, reads of 3, handler 1 byte time late |
| `endpoint_first_read` | *violated*: zeros and then a frame in one read | prompt handler |
| `wire_endpoint` | bounds of the buffers, refinement of `LatestMailbox` | buffers of 2 bytes, writes of 0 to 3, frames of 1 and 2 |
| `node_registry` | types, last-seen ticks, refinement of `LivenessMonitor` | 2 nodes and an id outside, 6 ticks |
| `heartbeat_monitoring` | no false alarm, no late alarm, a disconnection is noticed | 1 node, 20 ticks, timeout 5, poll 3, delay 3 |
| `sequenced_link` | frames are applied in order, none twice, none new refused; the log's turns are true | 6 numbers, 14 frames of a tracked node and of one outside, up to 3 numbers behind |
| `frames` | the candidate stays in its buffer, an intact frame in step is delivered, a fault costs a bounded number of frames; a padded read gives the frame or nothing, a corrupted byte other than the length is noticed | bytes of 8 values, 4-byte headers, payloads up to 4, 3 faults |
| `frames_corrupted_length` | *violated*: a frame with a corrupted length is accepted as another | as `frames` |
| `reliable_command` | accepted means received, no false exhaustion, settled in time, every command is reported | both endpoints, 2 numbers, 3 attempts, 3 losses for a command, intervals in the proportions of the programs |
| `reliable_command_restart` | *violated*: an old acknowledgement accepts a new command | as above, 2 attempts, controller restarts at any time |

The bounds are the smallest in which what is hard happens. Two slots let the
queue be full, and a duplicate hide behind a free slot. Ticks of 4 to 20
values wrap many times over, and timeouts lie below and up to half of them.
Buffers of two bytes meet messages that are shorter, as long and longer; two
messages are enough for one to arrive behind an unread one. The drop counter
wraps at 3. One node is enough for heartbeat monitoring, because nodes share only
the tick of a pass and the registry, which `node_registry` checks with two.
Fourteen frames use six sequence numbers more than twice. Payloads of four
bytes let the longest candidate reach over two short frames, and one frame carries
a payload that looks like a header as long as its own. Two command numbers come
round after every second command, where the code's 256 take 21 minutes; three
losses are one more than a command given up needs.

Three runs compare states without variables that no action reads, which loses no
behaviour: `reliable_queue` without the last result and the age of free slots
(`WhatCounts`), `sequenced_link` without the last answer and delivery, `endpoint_late`
without the drop count (`View`). Of their invariants only the types mention what is left
out, and their action properties are checked on every step TLC generates, whether or not
its last state is new. `endpoint_late` takes the two messages for interchangeable
(`Symmetry`): they are model values that nothing but equality is asked of, and the run
checks invariants only.

`DeadlineTracksAge` and `LastSeenTracksSilence` relate wrapped ticks to true
time, so what rests on them cannot break at the wrap. `RetrySpec` says that no
frame is sent or given up early, none due is overlooked, and the queue is full
only when it is full. `MailboxSpec` says that each complete write is delivered
whole, up to the buffer's size, or counted; `LatestMailboxSpec` that poll gives
one whole write and a read one whole frame, wherever a callback interrupts.
`OfflineOnlyAfterMissedPolls` and `OnlineOnlyWhileHeard` carry the bounds that
follow from timeout, poll interval and loop delay.
`AppliedInOrder` says that each frame applied was sent strictly later than the one applied
before. `ClassifiedTruly` and `SummaryTrue` compare the answers of tracker and log with true
frame numbers that never wrap, for distances within the limits `docs/protocol.md` gives,
128 behind, which it calls stale, included.
`LateFrame` and `ReadShifted` bound what a handler one byte time late can do, which no test
can provoke at will.
`NoFalseExhaustion` says that a command is given up only if all but one of its
attempts met a loss: heartbeats, which replace acknowledgements in the one
mailbox, are further apart than all attempts of a command together.
`SettledInTime` says that a command never outlives the timeouts of its attempts, so that it
does not hold up the next one.
`LossBounded` carries the number of shortest frames that the longest candidate
reaches into.

**Fairness.** Endpoint: the processor takes its interrupts, and a
read that was begun goes on to its end; nothing makes a controller begin one or
the main loop do anything. Registration: the processor runs the handler of an
enabled interrupt that stays pending. Heartbeat monitoring: `loop()` is called again
when it returns, as the Arduino core does, and `millis()` advances. Reliable
command: both loops come round and time goes on; no write or read need ever
succeed, and no restart need happen or stop happening.

**Deadlock** is checked in every run.

## Where the code and its documents disagree

- `docs/hardware_validation.md` expects that "no torn or malformed frame is observed" while
  publishing and reading concurrently. A read that begins after `begin` and before
  the first `publish` gets a zero without `tx_index_` moving; the publish then
  swaps its frame in, and the rest of that read is the frame's beginning
  (`endpoint_first_read`). Once anything is published, no read is torn
  (`endpoint`).
- The same table expects that a "corrupted frame is rejected". A corrupted payload length
  moves the place where `receive` ends the frame and looks for the checksum. Downwards, that
  is a payload byte, which may be the right one (`frames_corrupted_length`). Upwards, it is
  padding: where a bus gives 0xFF after the frame, each of these bytes takes one off the sum,
  as many as the length has put on, so every such increase is accepted. Any other
  corrupted byte is noticed (`frames`).
- `reliability.h` says of `AckStatus::accepted`: "Command was accepted." The
  controller numbers its commands from zero after every restart, and the node's
  mailbox gives its last acknowledgement to every read until the next heartbeat,
  up to a second. A controller that restarts within that time takes the old
  acknowledgement for that of its first new command, even when the write of it failed
  (`reliable_command_restart`). When it restarts later, never (`reliable_command`).

Limits of the code that the properties state as exceptions, because no document
promises more:

- A node silent for 2^32 ms, about 49.7 days, is online again for the length of
  the timeout (`OnlineOnlyWhileHeard`, `LastSeenTracksSilence`).
- The Pico's handler reads one byte per call and then acts on STOP from the same snapshot.
  When it starts with two bytes in the FIFO it delivers the frame without its last byte, counts
  no drop, and finds that byte in front of the next frame, which the checksum then rejects. A
  prompt handler never does (`MailboxSpec`); one that is a byte time late does no more than
  that (`LateFrame`). Two byte times late, the STOP of an earlier transaction can end a write
  anywhere, and TLC finds `LateFrame` violated; `ReadShifted` held there and at three, in runs
  too long to keep.
- A payload that looks like a frame can keep the stream decoder out of step for as
  long as it is repeated, because a refused candidate is given up whole
  (`LossBounded` speaks of frames without a magic byte inside).
- An object that is begun on both I2C instances serves the second one only, and the first
  is not served any more (`InterruptsServed` excepts it).
- The tracker takes the frames of a sender that restarted for stale until its numbers pass
  the last one seen.
- A node whose main loop hangs stays online, because its endpoint repeats its last frame.
- A Pico node that for a whole turn of the sequence numbers, 256 commands, meets a loss with
  every attempt and with every heartbeat keeps its acknowledgement in the mailbox until that
  number comes round (`AcceptedMeansReceived` holds within `Discernible`, below).
- With a stream of new frames, the first slots of the queue can keep the last one
  from being sent.
- A controller that dies in a read without a STOP blocks `publish` on the Pico
  until the next STOP on the bus.

## What is proved

Every safety property of the passing runs but the two of `endpoint_late`, and every refinement, for every
number of slots and nodes, every policy, timeout, buffer size and payload, and every
width of tick, sequence and byte. Each inductive invariant was checked with TLC first.

- `ReliableQueue_proof`: `TypeCorrect`, `KeysAreUnique`, `DeadlinesTrackAges`. The
  inductive invariant is the conjunction of the three: keys stay unique
  because `enqueue` refuses a duplicate among *all* slots, and a deadline that
  is `timeout - age` from now stays so when both grow by one (`Ticks_proof`).
  `QueueIsRetryService`: each action maps to one of the
  abstract service with the policy as given, zero attempts included (`SendsLeftAgree`), whose pending frames are the active slots' by key; a deadline
  looks reached exactly when its age has reached the timeout and is below the
  half-range limit, which is `DeadlineReachedIffPast` applied to the invariant.
- `Endpoint_proof`: `TypeCorrect`, `BuffersStayApart`, `UnreadFramesAreKept`, for
  handlers of every delay. The invariant adds `Handshake`: while a read has bytes to
  come, either it waits for one or one is ready, never both, which bounds what the
  hardware is handed. `ReadsAreNotTorn` and `ImplementsMailbox` hold for a prompt
  handler, one that runs before the bus moves the next byte (`MaxLag = 0`). Their
  invariant says that `tx_index_` is the number of bytes handed out, up to the frame's
  length, or its reset is still latched (`ReadInStep`), and that the receive buffer and
  the FIFO together hold what has been written so far (`WriteInStep`). That the handler counts every surplus byte, before or after the STOP, is
  `HandlerCountsSurplus`. With a handler
  one byte time late neither holds: the byte request of a new read is served before the
  STOP of the old one, from one snapshot and so with the old position, and a write can be
  delivered short. `LateFrame` and `ReadShifted`, which hold then, are only model-checked.
  `BeginStaysInForce`: `begin` refuses an instance that another object has.
- `WireEndpoint_proof`: `TypeCorrect`, `EndpointIsLatestMailbox`. The invariant
  says that interrupts are disabled exactly while bytes are copied, that what
  `poll` has copied is a prefix of the receive buffer, and that the transmit buffer
  agrees with the frame as far as `publish` has copied it.
- `HeartbeatMonitoring_proof`, on the registry: `TypeCorrect`, `LastSeenIsTrue`,
  `RegistryIsMonitor`. The invariant is the last-seen relation; elapsed ticks are true
  time below a whole turn. On the loop: `MonitoringTypeCorrect`, `NoFalseAlarm`,
  `NoLateAlarm`. The invariant adds where in its pass the loop is and how old the pass's
  tick is (`PassOnTime`), that a node's last frame is no more polls old than the reads it
  has missed (`MissedCounted`), and how long a node may be silent and still be shown
  online at each point of a pass (`SilenceBounded`).
- `SequencedLink_proof`: `TypeCorrect`, `FramesApplyInOrder`, `FramesAreClassifiedTruly`,
  `SummariesAreTrue`. The invariant says that the sequence byte held by the tracker, and
  by the summary, is the true number of the newest frame, wrapped, and that the frame applied before it has
  a smaller one; a difference from half the space behind to less than half ahead has the same
  sign wrapped and unwrapped.
- `FrameLinks_proof`. What `checksum8` sums is a recursive function; that it is the last
  of the partial sums is shown by the least counterexample (`CountUp`), and from it that
  `checksum8` makes `verify_checksum8` succeed and that two sequences which differ in
  one byte have different sums (`OneByteShows`). `RoundTrip`: `decode_frame` inverts
  `encode_frame`, up to the payload length. `ReadsGiveTheFrame`, `CorruptionIsNoticed`:
  the line differs from the encoded frame at most in the corrupted byte.
  `CandidateStaysBounded`, for the decoder on any stream (`DecoderSpec`), is inductive as
  it stands: the declared length is tested when the header is complete and bounds
  everything that comes after. `IntactFramesAreDelivered`: the candidate is exactly what
  has been sent. `LossIsBounded`: a candidate that a fault left behind has swallowed every
  frame missed since (`Recovers`), so it can miss only as many as fit into its greatest
  length, and the first magic byte after it begins a frame.
- `ReliableCommand_proof`. `CommandTypeCorrect` and `CommandsAreSettledInTime` need no
  hypothesis: the one pending command is sent in the pass in which it is due (`Timely`), so
  its age is that of its last transmission and a timeout for each one before (`ClockInv`).
  `ExhaustionIsExplained` holds where `Unhurried` does. Its invariant adds what may be in the
  node's endpoint (`InboxFresh`), and that each attempt but the last met a loss or the one
  heartbeat (`Accounted`). `Unhurried` has three parts, and TLC finds the property violated
  without any of them: the timeout exceeds the receive poll by two ticks or more, so that
  an answer is read before the next attempt (250 ms and 20 ms in the programs); the
  controller does not restart within the life of its last command, whose unread frame
  would still be in the node's endpoint; losses are counted up to `max_attempts - 1` at
  least.
  `AcceptedIsReceived` holds where `Discernible` does. An acknowledgement names its command
  by the sequence number only, and the mailbox keeps the last one. The invariant says that
  an acknowledgement with the last command's number was made for it (`Genuine`), and that an
  earlier one is there only while every attempt of the last command and the heartbeat since it
  met a loss (`StaleExplained`). A heartbeat falls between two commands, so an earlier
  acknowledgement would need `max_attempts + 1` losses to see another command begin. `Discernible` is:
  no restart of the controller while an acknowledgement is in the mailbox (without this
  the run `reliable_command_restart`); two sequence numbers or more, 256 in the code; and
  on the Pico, whose endpoint refuses a frame while it is being read, no more losses with a
  command than it has attempts. With the Wire endpoint, which refuses nothing, any number
  of losses is allowed. TLC finds a command falsely accepted when any of these is dropped.
  The constants of the run meet both `Unhurried` and `Discernible`.

The assumptions are the named ones in the modules: a tick has an even, positive
number of values; a retry timeout is at most half of them, as
`docs/resource_limits.md` asks; sizes are positive; a poll interval and a pass are
shorter than a turn of the tick; all attempts of a command take less than a heartbeat interval.

Only model-checked are `LateFrame` and `ReadShifted`, and everything under fairness (`EveryCommandReported`,
`PublishUnblocked`, `InterruptsServed`, `DisconnectNoticed`), which is beyond the prover.

## Not modelled

- The UART transport hands bytes to the SDK and back and keeps no state; of the I2C
  controller transports, `send` is its success or failure and `receive` is `PaddedRead`.
- Host simulators run the library on fixed inputs, straight through, and keep no
  state of their own.
- Of the log script, the counters that are plain sums over lines, the parsing of its
  arguments and the rendering of its table.
- Release, archive and build scripts check files once.
- What a payload means, and the text of the logs, are abstract in every module.
