# A model of protozoa

`protozoa` is a daemon that sits between camera control keyboards and joysticks
on one side and pan/tilt/zoom cameras on the other.  It decodes the messages of
six protocols, turns each into a protocol-neutral packet, and encodes the packet
for every camera linked to the port it came from.  It is one C process with one
thread: a `poll` loop, a signal handler, and nothing else that runs.  What makes
it hard to test is time (every camera needs a gap between messages, commands
expire, stops are repeated), descriptors that come and go, and handlers that act
on one another's channels between a report and its handling.

This directory holds TLA+ modules for the parts where those difficulties are, the
configurations under which TLC checks them, and proofs of their main invariants
that TLAPS checks.

## Inventory

| component | source | state | operations | what makes it correct |
|---|---|---|---|---|
| deferral | `defer.c`, timing half of `ccwriter.c` | a record per writer and receiver: time to send, last sent, packet, count; the tree of those waiting | `defer_packet`, `defer_next`, `defer_rearm`, `ccwriter_do_write` | the newest command for a receiver is the one that waits or was sent; the gap is kept; nothing waits for ever; motions end |
| timer | `timer.c` | the process's interval timer, a pipe | `timer_arm`, `timer_disarm`, `timer_handler`, `timer_read` | while something waits, the loop will be woken |
| time values | `timeval.c` | none | `time_from_now`, `time_since`, `time_elapsed`, `timeval_adjust` | bounded rounding |
| I/O buffer | `buffer.c` | memory, `pin`, `pout` | read, append, write, consume, compact, clear | positions in order, bytes in order, an empty buffer has all its room |
| I/O channel | `channel.c` | `fd`, `sfd`, flags, two buffers, a reader | open, accept, close, read, write | a descriptor in use is open and the channel's own; none leaks; listeners stay |
| poller | `poller.c` | the list of channels, the array given to `poll` | register, poll, handle events, deferred packets, configuration check | a report still holds when it is handled; channels with work are opened again |
| packet | `ccpacket.c` | one word of flags, speeds, preset, receiver, expiration | setters, getters, tests | a setter changes its own group only; a stop is what it says |
| readers and routes | `ccreader.c` | reader, its packet, list of links with ranges | stamp, route, shift, select camera | each linked writer gets the packet with its own receiver |
| protocols | `manchester.c pelco_d.c pelco_p.c vicon.c infinova.c axis.c joystick.c` | little (joystick: the packet kept between events) | decode a stream, encode a packet | what is encoded decodes to the same; a bad byte does not lose the next message; a stop is encoded where the protocol has one (Pelco, Vicon) |
| tree, pool | `rbtree.c`, `pool.c` | nodes, free lists | add, remove, peek | sorted; nothing lost; nothing given out twice |
| configuration, daemon | `config.c`, `main.c` | channels and links built from a file | read, verify, reload | after a reload only the new configuration is there |
| statistics, log | `stats.c`, `log.c` | counters | print | none that matters |

How they interact: `poll` reports events for all channels at once;
`poller_channel_events` handles one channel after another.  Handling input calls
the reader's `do_read` on the receive buffer, which fills in the packet and calls
`ccreader_process_packet`, which stamps the expiration and calls
`ccwriter_do_write` for every link, which encodes into the *transmit buffer of
another channel* or defers.  The timer's pipe is one more descriptor of `poll`; a
byte in it makes `defer_next` write the first waiting packet, again into some
channel's buffer.  The only true concurrency is the signal handler, and the
kernel with the peers behind it.

The hazards, each at its line, are in `PROJECT.json`.

## Modules

```
Timeval -- Deferral -- MCDeferral         (Mailbox: what Deferral implements)
Channel -- Poller -- MCPoller
Buffer -- MCBuffer
Tree -- MCTree                            (OrderedBag: what Tree implements)
Config -- Daemon -- MCDaemon

Packet -- Manchester -- MCManchester
   |----- Vicon, Pelco (with BitArray) -- CCPacket -- MCCCPacket
                                    |---- Serial -- MCSerial
                                    |---- Joystick (with CCReader) -- MCJoystick

DeferralProofs, BufferProofs, CCPacketProofs, ManchesterProofs, SerialProofs,
JoystickProofs, PollerProofs, DaemonProofs
```

A line is "is extended by".  `Mailbox` and `OrderedBag` are abstract
specifications, instantiated with a refinement mapping.

### Timeval

An instant is a natural number of ticks (a tick stands for a microsecond), of
which `tv_sec` and `tv_usec` are the two fields.  `time_elapsed` subtracts the
fields apart and truncates towards zero as C does: the result may be rounded up
or down.  `time_from_now` and `time_since` are cut off at 0.  `DeferralProofs`
states how far each may be from the exact difference; everything that is said
about time below rests on these lemmas.

### Mailbox and Deferral

`Mailbox` is what the deferral promises: a box for every receiver, with the
newest command, whether that still waits, and the last command delivered; a
command may be superseded, delivered now, kept, delivered and kept (to be
repeated), and nothing else is ever delivered.

`Deferral` is the code.  Its variables are the fields of `struct deferred_pkt`
(`tv`, `sent`, `packet`, `n_cnt`), the tree as a bag (`tree[d]`, how many nodes
point at `d`), the interval timer and the pipe.  The actions:

| action | code |
|---|---|
| `Write(d, c, hold)` | `ccreader_process_packet`: stamp the expiration, `ccwriter_do_write`, `defer_packet` or encoding with `ccwriter_check_deferred`, `defer_rearm` |
| `DeferNext` | `defer_next` with a record in the tree, up to and with both rearms |
| `DeferNothing` | `defer_next` with an empty tree: the byte was stale |
| `TimerFires` | SIGALRM and `timer_handler` |
| `Tick` | the clock |

The tree is searched by time alone, and may hold equal times.  `ClockTies` says
whether two records may be due at the same microsecond.

### Buffer

The memory, `pin` and `pout`, with `stream` as history: the bytes put in and not
taken out.  A buffer is a receive buffer (`buffer_read`, `buffer_consume`,
`buffer_clear`) or a transmit buffer (`buffer_append`, `buffer_write`,
`buffer_clear`), fixed in `use`.

### Channel and Poller

`Channel` has the operations of `channel.c` as predicates on `fd`, `sfd`, the
pieces left in the transmit buffer, the response flag, and the kernel's
table of descriptors, which gives out the lowest free one, as POSIX demands.  A
number may thus pass from one channel to another between a report and its
handling.  `Poller` is the loop: `Register` (one channel at a time, opening those
with work), `PollChannels` or `PollTimer`, `ChannelEvents` (one channel at a
time), `DeferEvents`, and `Reload`, the destruction of the poller and the start
with an unchanged set of channels.  Decoding and encoding are abstracted to which
channels' buffers a packet reaches (`Routes`) and what they hold then.

### Packet and CCPacket

`Packet` has the packet as a value: the word of flags as a set, in its eleven
groups; the setters as functions of a packet, each with the switch that its getter
uses too.  `CCPacket` is a packet in use; `asked` is history, the mode last asked
for in each group.  The actions are the setters as the decoders
call them, any number of them in any order, and `ccpacket_clear`.  What a packet that counts as a
stop does when it is repeated is asked of the encoders (`do_write`, `vicon_do_write`): `StopsAreIdle`
says that Pelco and Vicon cameras are told to do nothing by it, with one exception, the speed of the
lens, which is toggled and toggled back.  `KeepsAsked` is about all groups but the menu,
whose mode is never kept (`NoMenu` of `CCPacketProofs`).

### Manchester

A writer, a serial line and a reader.  The pure part is the codec: `SPEED`, `PT`,
`LENS` and `AUX` are the tables of the code (full speed has codes of its own
among the lens and auxiliary functions), `encode_message` makes the three bytes
of a receiver and a command, `manchester_do_write` the messages of a packet, and
`decode_packet` changes a packet by a message.  A byte on the line is the number
it was sent under, so that a property can say which message it came from; what it
holds follows from the message.

| action | code |
|---|---|
| `Send(r, p)` | `manchester_do_write` |
| `Lose(i)` | a byte that has not arrived is lost |
| `Close` | `channel_close`: what is buffered and on its way is gone, the reader's packet is not |
| `Read(n)` | `channel_read` of `n` bytes, and the start of `manchester_do_read` |
| `UnexpectedByte` | the pass of its loop that drops a byte without the flag |
| `manchester_decode_packet` | the pass that decodes a message, and first gives the writers the packet so far if that is for another receiver |
| `Done` | the end of the loop, with `ccreader_process_packet` if nothing is left over |

The history: `hurt` (messages that lost a byte), `own` (messages decoded from
their own bytes), `asked` (packets encoded) and `done` (packets given to the writers).

### BitArray, Pelco, Vicon and Serial

`Pelco` and `Vicon` are the codecs, pure operators on the packets of `Packet` and on
arrays of octets (`BitArray` has the bits as `bitarray.h` numbers them).  Pelco D
and Pelco P are one program but for the frame, the places of the bits and the way
power is switched, and are one module with `d` for the protocol; `pelco_p7` is the reader of
Pelco P with a dead zone.  `do_write` and `vicon_do_write` are the messages of a
packet, `decode` and `vicon_decode` the packet of a message.

`Serial` is a writer, a line and a reader with one of these, chosen in `Init`.  A
byte on the line is the number it was written under, as in `Manchester`;
`bytes` gives the values.

| action | code |
|---|---|
| `Send(job, queued)` | for a packet and a receiver (`Jobs` has all, with their messages), with `queued` bytes still in the writer's buffer, the writer's `do_write`, message by message; with `infinova_d` its authentication and headers, each a piece that `buffer_append` takes or refuses |
| `Open`, `Close` | the channel is opened; closed, which empties both buffers |
| `Lose(i, n)` | a burst of bytes that have not arrived |
| `Read(n)` | `channel_read`, up to all that is there |
| `pelco_discard_garbage` | the pass that drops what is before a start byte, or a start byte of no message |
| `pelco_decode_message` | the pass that decodes a message and gives its packet to the writers |
| `vicon_unexpected_byte`, `vicon_decode_status`, `vicon_decode_command` | the passes of the Vicon reader |
| `Done` | the end of the reader's loop: too little is left |

### CCReader and Joystick

`CCReader` has the links of a reader, made by directives: ranges (with the minus sign
that `sscanf` leaves in front of the second number), shifts, and the writers' numbers of
receivers; `ccreader_do_writers` gives one packet to all, its receiver changed in
place and put back.  `Joystick` is the one reader that keeps its packet.  The
user moves axes and holds buttons; the kernel's driver queues events while the device
is open, with the state of the device first.  `Read(n)` is `joystick_do_read` with the
first `n` events of the queue, to the writers and to what is kept for the next read.
The history: `last` (what was given last, to whom), `chosen` (the camera the buttons
chose).

### OrderedBag and Tree

`OrderedBag` is what `clump.h` promises: items, of which several may have one key
if duplicates are allowed; a removal takes one of them out, a peek shows one that none is before.
`Tree` is `rbtree.c` over the slots of `pool.c`: nodes with a color, two links and
an item; the two descents with their rotations, each call one action, since
nothing runs meanwhile.  The first word of a slot is a node's color while it is in the
tree and the link of the free list afterwards, as in memory: `cl_rbtree_remove2`
releases a node that is still linked, and only then reads its links.

### Config and Daemon

`Config` is what the lines of a file make: channels found or made
(`config_get_channel`), readers shared, a writer and a link for every directive.
`Daemon` is `main` and `run_protozoa` call by call, as a `phase`, with the pipe and the
handler of the timer, the poller with its watch, and everything that is taken down
on the way back.  Beside it others act: the interval timer, which belongs
to the process and not to a run of it; and someone who writes the file in place, renames
it, deletes it or puts another under its name.  A file written in place is empty first, then has
any part of its new lines (`WriteSome`), and is reported only when it is closed; the program may
read it at any of these points.  The kernel's watch is on the file
(the inode) and not on the name.  `missed` is history: the file was changed where no
watch saw it since it was last read.

## Runs

| run | checks | bounds |
|---|---|---|
| `deferral` | `TypeOK`, `NoLostWakeup`, `DeferralBounded`, `GapKept`, `EventuallyDrained`, `MotionEnds`, and that `Deferral` implements `Mailbox` | a receiver with a gap beside one without, three commands with two hold times up to instant 10, 2 ticks to the millisecond, 4 ms to the second, 32 ticks, a pipe of two bytes; from instant 12 (`PromptFrom`) a loop that keeps up |
| `buffer` | `TypeOK`, `KeepsOrder`, `EmptyHasRoom` | four bytes of two values, both uses |
| `poller` | `TypeOK`, `OpenMeansOpen`, `StreamsHeld`, `ListenerKept`, `ReportsCurrent`, `OpenedAgain` | a listening channel with a reader and a camera that must answer, 5 descriptors, 2 pieces; opens and closes fail, the configuration is reloaded |
| `poller_accept` | finding: `OpenMeansOpen` when accept may fail | as `poller`, without reloads |
| `poller_reload` | finding: `NothingLeaked` | as `poller` |
| `packet` | `TypeOK`, `KeepsAsked`, `StopsAreIdle` | up to four setters, speeds 0 and 9, presets 0, 1, 77, 79; receivers 1, 254 and 255, the first, the last of Pelco and the last of Vicon |
| `manchester` | `TypeOK`, `Resync`, `GivenInOrder`, `NewestGiven` | two receivers, five packets of one to three messages, up to three messages in all; any loss, any split, a close at any time |
| `serial` | `TypeOK`, `Resync`, `Framed`, `GivenAsAsked` | five protocols, two receivers, four packets, `MaxAsked` 3, `MaxOctets` 28; one loss of 1 or 8 bytes or a close (`MaxLosses`), one read cut to 5 bytes (`MaxCuts`, `Reads`) |
| `joystick` | `TypeOK`, `StickObeyed`, `StopsSent`, `Routed`, `NothingRunsOn`, `PresetsAsked` | three positions of three axes, five buttons, six directives; `MaxEvents` 3 after the initial ones, one unplugging (`MaxCloses`), one read that does not bring all (`MaxCuts`) |
| `tree` | `RedBlack`, `PoolSound`, and that `Tree` implements `OrderedBag` | seven items, two pairs with the same key; two blocks of three slots, then no memory |
| `daemon` | `TypeOK`, `HandlerHasPipe`, `Configured`, `NewestRuns` | two files of four contents, four changes (a partial write is one), one failing call, two queued events of the watch; any number of reloads |
| `daemon_alarm` | finding: `NotKilled` | as `daemon`, two changes, nothing fails |

Why the bounds are enough.  *Deferral*: two records suffice for everything that
depends on which is first in the tree, and three commands for one deferred, one
that supersedes it and one for the other record; the fields of a time carry
several times within the 32 ticks, so that rounding goes both ways; the pipe of two
bytes is filled, since a pop rearms twice.  The state machine is the same for
more records, which the proofs confirm for the invariants.  *Buffer*: all of the
arithmetic is on `pin` and `pout`; with four bytes every order of a partial
fill, a partial read, a wrap to base and a full buffer occurs.  *Poller*: the
interaction is between two channels, one that writes to the other, and one number
that changes hands; five descriptors are one more than can be in use.  *Packet*:
four setters set a group, another, and the first again.  *Manchester*: what a lost
byte can spoil is settled by two messages, and a third shows that the reader has
recovered; three messages are two packets of one receiver and one of another, in
any order, merged or split.  The two receivers, 1 and 1006, differ in all bytes;
the packets have the slowest and the highest speed, a speed that is a level, one
just above the last level, and modes without a code.  *Serial*: three packets are
one that is hurt, one that is taken with it, and one that shows the recovery;
28 octets are three to five messages.  A burst of eight bytes takes a whole message, one byte
spoils it; receiver 160 is the start byte of Pelco P.  *Joystick*: three events are a
press, something between, and a release; the positions are the two ends of the
arithmetic and one that gives speed 0.  *Tree*: with six nodes in it every case of
the two descents occurs (no line of them is without a count in TLC's coverage); the view
of the run forgets the numbers of the slots, on which no operation depends.
*Daemon*: a bad file, a good one and another good one need three changes, a fourth is a
change between; reloads are not bounded.

A clock of two ticks to the millisecond is coarse; a finer one is covered by the
proofs, which hold for any `TicksPerMs` and `MsPerSec`.

`CHECK_DEADLOCK` is on but for the two runs of `Daemon`, which ends with a dry run and
when the program is killed.  A behaviour of `Deferral` ends in
`AtHorizon`, a named bound; those of `Manchester`, `Serial` and `Joystick` in silence; no other can stop.

### Fairness

`Deferral!FairSpec`: the loop handles a readable pipe, an expired timer is
delivered, the clock goes on.  Nothing obliges a reader to send.  From the instant
`PromptFrom` on the loop runs before the clock ticks again, which
is what a loop that only blocks in `poll` does between commands; without
it no bound on lateness could be stated, and `MotionEnds` counts from there.
Before it, the loop may be late at will.

`Poller!FairSpec`: each step of the loop is taken when it can be.  That an open
which is tried again and again succeeds in the end (`OpenSucceeds`, strong
fairness) is an assumption on the environment: ports become free and
hosts come back.  `WokenSpec` adds that something wakes the loop, by a timer
or another channel; what is not so is described under deviations.  `OpenedAgain`
excepts a channel that is `ShutOut`: its port is held by a listening descriptor that
a reload or a failing close has left open.

`Daemon!FairSpec`: the program goes on; nobody is obliged to change the file, to
send anything or to let a timer go off.

## Proofs

All theorems hold for every value of the constants that satisfies the module's
`ASSUME`s.  Those of `DeferralProofs` that need `~ClockTies`, and all of
`PollerProofs`, which need `AcceptWorks`, say so; nothing else is assumed.

* **DeferralProofs.**  `TypeCorrect` (`TypeOK`), `WakeupKept` (`NoLostWakeup`),
  `DelayBounded` (`DeferralBounded`), `GapAlwaysKept` (`GapKept`), and, under
  `~ClockTies`, `NothingLost` (a command that does not wait has been written),
  `ImplementsMailbox` (the refinement) and `MotionsEnd` (`MotionEnds`).
  The arguments: the wake-up is an inductive invariant by itself once the type is
  known, since every step that changes the tree ends in `Rearm`, whose three
  outcomes (byte, timer, empty tree) each establish it, and the steps that do not
  rearm only let the timer become a byte; it needs the lemma that
  `time_from_now` is less than a millisecond too large and is 0 only when the
  time has come.  The bound on the delay needs, for every
  record, that `sent` is never in the future and that a waiting time is bounded
  by `sent`, since a packet that comes too soon is put off from *now*, which is
  at most a gap after `sent`.  The refinement needs that without ties a record is
  in the tree at most once and that what waits is the newest command (its
  packet is `newest`); with these every step maps to a step of `Mailbox` or a stutter.
  `MotionEnds` rests on three facts of `MotionInv`.  A motion in the tree was last written before it
  was over, for it is put back only if it lasts longer than the receiver holds it; so, a gap
  being counted from now and now being at most a gap after the last write, its
  time is at most two gaps after the end, however often it is popped too early (`MotionWaits`).  Once the loop is
  prompt, no record is a millisecond late (`Prompt`), since by `NoLostWakeup` the timer keeps the clock
  from passing.  And a tree that is not empty has a first record (`HasFirst`).  With ties
  a record that has been written may stay in the tree with its old packet, and be written again after the motion is over.
* **BufferProofs.**  `PositionsOrdered`, `OrderKept`, `RoomWhenEmpty`.  The
  invariant is the conjunction of the positions, the order, and that an empty
  buffer is at base; `OrderKept` rests on a lemma about storing after `pin` and
  one about moving to base.
* **CCPacketProofs.**  `TypeCorrect`, `AskedKept` (`KeepsAsked`), `RepeatedIsIdle`
  (`StopsAreIdle`).  The groups are pairwise disjoint, so a setter is seen by
  its own getter alone (`SetterLocal`).  The invariant adds that no flag of the
  menu is ever set; `NoMenu` states it by itself, for it is not what the documentation says.
  `RepeatedIsIdle` goes through the encoders: of a packet whose groups are empty but for pan,
  tilt and lens (`StopGets`) no bit of Pelco's command octets is set (`PelcoStop`), and of Vicon's
  none but that of the lens (`ViconStop`).  Neither a menu mode nor a manual pan is ever in a
  packet, so the encoders find none to adjust or to write.

* **ManchesterProofs.**  `MessageRoundTrip`: receiver and command are decoded from
  the bytes they were encoded in, by arithmetic on the fields of the bytes.
  `TypeCorrect` (`TypeOK`), `Resynchronised` (`Resync`), for any receivers, packets
  and losses.  `Resync` is not inductive: it does not say what else is on
  the line, before the message.  The invariant says that the bytes are in order (`Sorted`), that a byte
  of a message that lost none is on the line or before all that is (`Suffix`), and
  that a whole message after a whole one is decoded or has its first byte on the
  line (`WholeOrOwn`).  Only the first byte of a message has the flag
  (`FlagPlace`), so that dropping a byte drops no beginning (`UnexpectedStep`); and
  three bytes with a flag in front hold no later beginning of a message that
  follows a whole one, since all three bytes of that one are between
  (`NotInside`).

  `WriteSays`: the commands that `manchester_do_write` makes of a packet say all
  that it asks and the protocol has a code for, each group once and nothing else; with
  `CommandTells`, that a decoded command sets just the group that it was made
  for.  On these rest `GivenAsAsked` (`GivenInOrder`) and `NothingNewerLost`
  (`NewestGiven`), which speak of packets asked and packets given, and so are far from inductive:
  between them are the messages on the line, and the reader's packet, which has merged
  some of those and may still be cleared.  `OrderInv` is in two steps.
  Each message comes from the packet that asks it, in order (`SourceInv`); and on a line that lost
  nothing (`HeardInv`) the line is the rest of what was sent, whole, and what was given,
  with the reader's own packet as the last, follows the messages heard so far for
  each receiver and group, the last one to the last (`Follow`).  A packet for another receiver
  begins an entry (`NextMessage`), one for the same overwrites its group
  (`FollowNext`), and giving it away makes the last entry one of `done`
  (`WholeNext`).  TLC finds `OrderInv` to be an invariant of the run's instance.

* **SerialProofs.**  `TypeCorrect` (`TypeOK`), `Resynchronised` (`Resync`), `FramesKept`
  (`Framed`), for the five serial protocols, any packets and receivers, any losses and any
  split of the line.  First that what the encoders make is a message as the readers know it: Pelco's
  frame and checksum, Vicon's flags and lengths (`FrameEncodes`, `ViconMessageIs`,
  `PiecesAre`); then what writing makes of the pieces when there is room for some of them only, by
  induction along the recursion (`TriedKeeps`, `WithWrites`).  `Resync` and `Framed` are not inductive.
  The invariant says of all that was written where its messages are and what is in front of them
  (`WellSent`), that the line is a part of it in order, that what is neither lost nor
  on the line is before all of the line (`Ahead`), and that a message to be found is whole on the line or was
  decoded (`ResyncIn`).  What begins the line decides each step of the reader: if it
  stands at the beginning of a message that was not hurt, it takes just that (`HeadMessage`);
  if not, no such message begins among the octets that it takes (`GarbageIs`).

  `AskedGiven` (`GivenAsAsked`): what cameras are given is what was asked, through all of
  the encoders and decoders, for any packets.  First the codecs, group by group.  The
  messages made of a packet (`Jobs`), decoded from their octets, say once each and in the packet's
  terms every group that the protocol carries, and nothing else (`JobIs`, from `PelcoWrites`
  for the messages of pelco_d and pelco_p, and `ViconJob` for Vicon's three lengths): which
  bit of which octet is whose, that levels of speed decode to within a level, that
  numbers of presets are cut to their bits, and that a message with a preset has no
  motion.  Then `SendSays`: when all the pieces fit, what is added to `bytes` is those messages
  and Infinova's headers between them.  The property relates packets asked to packets given,
  and what is on the line lies between, so it is not inductive.  The invariant `Told`
  has three parts as long as nothing was refused.  `Covered`: nothing is in `bytes` but messages
  and headers, and no octet of a header is the start octet of Pelco D, so that the
  reader drops headers alone.  `SourceOf`: the messages go back to the packets, in
  order, the messages from each of them being just those that say it.  `Heard`: on a line that lost
  nothing the line is the end of `bytes`, each message is before it or on it, and `done` is
  the ones before it, decoded.  The map of `GivenAsAsked` is the source of the message
  that was decoded (`InOrder`, `DoneAsAsked`), and once the line is empty no message is left
  (`AllDone`).

* **JoystickProofs.**  `TypeCorrect` (`TypeOK`), `StickIsObeyed` (`StickObeyed`), `StopsAreSent`
  (`StopsSent`), `PacketsAreRouted` (`Routed`), `NothingStaysOn` (`NothingRunsOn`),
  `PresetsAreAsked` (`PresetsAsked`), for any positions, buttons and directives.
  `StopsAreSent` is about links to Pelco, Infinova and Vicon.  It needs one invariant more,
  that nothing is ever in the packet that no event of a joystick asks for (`PlainInv`: no lens,
  no automatic pan, no power, ...), and then follows the packet of a stick at rest through the encoders
  (`PelcoIdle`, `ViconIdle`).  Manchester has no message for a stop, and its cameras stop by themselves.  The
  invariant joins the queue to the packet: the last event of an axis that is still to be read says how the
  stick stands, and if there is none the packet says it (`AxesInv`); the same of the buttons
  that are held and the group they move, while the device stays open (`HeldInv`); and the
  packet is what was given last, or clear (`LastInv`).  One read is a
  recursion over its events, and each event leaves the packet saying the same of
  the events after it.
* **PollerProofs.**  `TypeCorrect`, `OpenIsOpen` (`OpenMeansOpen`), `NoStreamLeaked`
  (`StreamsHeld`), `GoesOnListening` (`ListenerKept`), `ReportsStayCurrent`
  (`ReportsCurrent`), for any channels, routes and bounds, under `AcceptWorks`: accept
  reports no error, and the process may have more than two descriptors for each channel.
  Without it `OpenMeansOpen` fails, which is the run `poller_accept`.  The
  invariant is in two halves.  `ChannelsInv` adds to the three properties of descriptors that a port is
  bound by one descriptor (`BoundOnce`); then there are at most two for each
  channel, one is left by the pigeonhole principle (`RoomLeft`), and accept cannot fail for
  want of one.  Every operation is a `Closed` or an `Opened` channel, or moves no descriptor, and
  nothing happens to the others but that their buffers are filled (`Apart`).
  `LoopInv` says how far the loop has come: what has been registered, and then
  what was reported and not yet handled, is so.  That a handler only
  adds to another channel's buffer, and leaves its flag alone, is what keeps it.  A
  report on a listening descriptor is never that it can be written or was hung
  up, so that a handler never closes one (`ReportHolds`).
* **DaemonProofs.**  `TypeCorrect` (`TypeOK`), `HandlerSafe` (`HandlerHasPipe`),
  `ConfigurationRuns` (`Configured`), for any files and lines.  The first
  invariant says of each point of the program whether the handler is in place, the pipe open and a
  watch there; that what the handler is put back to is always the default; and that
  a file that is away has been moved.  For `Configured` each operation of the
  configuration keeps it well made (`Made`): channels of one port are apart, by direction if
  the port is not serial, and each writer has its link from one of them.  A directive
  adds the link between its ports to those there were (`DirectiveLinks`), and by induction the links are
  those of the lines read (`ReadMade`).  The second invariant, `RunInv`, says that from the
  reading on the program has what reading the file would make, as long as no change was
  missed, none is reported and the file is not being written; a change is one of these (`EditSeen`).

The constants' assumptions that the code does not check are: that a channel's packets have
flags among the modes and speeds up to `SPEED_MAX` (what the setters of `CCPacket` keep), that
`SPEED_MAX` is at least 8 where Pelco's turbo speed is computed from it (`PelcoAssumption`) and 2047,
as in the code, for the serial protocols, and beyond the last but one level of Manchester's speeds, that
no packet for the serial protocols has a menu mode (`NoMenu` of `CCPacketProofs`) or a speed without a
direction (`ccpacket_set_pan` and `ccpacket_set_tilt` set both, and Vicon's decoder, which alone sets a speed by
itself, has set a direction before), that
`FirstCamera` of the joystick's directives is a camera number, and that a serial port is
known by its name (`channel_is_sport` looks at the name only, so this is how the code decides it).

Only model-checked: liveness (`EventuallyDrained`, `OpenedAgain`, `NewestRuns`), and, of `Tree`,
`RedBlack`, `PoolSound` and the refinement of `OrderedBag`, for look-up, rebalancing and traversal
are recursive operators.

## Where the code and what is said of it part

With a run (the `findings` of `PROJECT.json`):

* After a failed `accept` the poller closes the *listening* descriptor and the
  channel goes on as open (`poller_accept`).
* A reload while a client is connected leaks the listening descriptor, and the
  port cannot be bound again (`poller_reload`).
* The interval timer is not disarmed when the program reloads: `timer_destroy` puts
  back the default action of SIGALRM, and a timer armed for a deferred packet goes off during
  the second of sleep and kills the program (`daemon_alarm`).

Without a run of their own, met while modelling:

* `cl_rbtree_remove` finds a node by its key.  With two records due at the same
  microsecond it may unlink the other one, whose command is never written
  (`NoCommandLost` fails with `ClockTies = TRUE`; the checks and proofs of the
  mailbox assume it `FALSE`).
* `time_elapsed` may round up, so that a packet may go out up to a millisecond
  before its gap is over; `GapKept` states what does hold.
* `defer_next` does not look at the expiration of a packet, so a motion kept back
  by the gap may be written after it, by two gaps at most (`MotionEnds`).
* `pin` equals `end` when the buffer is full, where `buffer.h` says `pin < end`.
* `buffer_append` does not compact: after a partial write a message may be refused
  that would fit.
* Data on a channel without a reader closes the channel, where a comment says
  "just ignore" (`ReadUnwanted`).
* A port that could not be bound is tried again only when something else wakes
  the loop, which waits in `poll` without a timeout.
* A manual pan is dropped by `ccpacket_pan`, which has no case for it, though
  `pelco_d.c` decodes and encodes one.  `ccpacket_is_stop` tests for it all the same; since it
  is in no packet, what asks for it alone counts as a stop, whose messages are idle (`StopsAreIdle`).
* `n_cnt`, "number of times deferred" (`defer.h`), stays at 1 when a motion supersedes the
  deferred stop; the next stop is then written once only.
* `ccpacket_is_stop` does not look at the speed of the lens.  A packet that asks for nothing else
  counts as a stop and is written twice, and since this is one of Vicon's "toggle functions"
  (`vicon.c`; "toggle lens speed" in `doc/vicon_code.html`) the second message takes back the first.
  `StopsAreIdle` states what the code does, with the lens in the repeated message.
* Storing preset 77, 78 or 79 does not bring up the menu, as `doc/protozoa.html` says it
  does: `ccpacket_set_preset` overwrites the flags that `ccpacket_menu_preset` has set (`NoMenu`).
* After a partial write to an axis camera the flag that a response is awaited keeps the rest of the
  request from being written, and the camera does not answer half a request
  (`RespAfterWrite`, `Register`).

* A message of the Manchester protocol has no checksum.  When a byte is lost, the
  rest is taken with the first bytes of the next message, and a command nobody
  gave may reach a camera nobody addressed; `Resync` says that it ends there, and
  `GivenInOrder` is stated for a line that loses nothing.
* A read that ends between two messages of one command splits it in two packets,
  each of which replaces what the writers deferred before.  One that ends inside a
  message holds the packet back; if the channel is then closed, the packet stays
  and is given with the first command after that, however late.
* The Manchester protocol carries no stop (`doc/manchester_code.html`: "There is no command to stop
  pan/tilt"; the camera times out), no number of a preset above 8, and, of
  camera and wiper in one packet, only the camera (`Carried`).

Of the serial protocols (`Serial`; `Carried` and `Fulfils` are what is left when these are
taken off):

* A Pelco D message whose end is lost before a flag may make, with what follows,
  a valid message for another receiver; checksums are one byte.
* A Pelco P address or checksum may equal the start byte; the reader finds its way all the same.
* In Pelco a tilt speed below 16 is none, a tilt never has the turbo speed, and the dead
  zone of `pelco_p7` swallows all speeds below 208.  A stop without a mode of pan or tilt has no message,
  though it counts as written.  `camera_off` in Pelco D is masked by an automatic pan.
* In Vicon a preset with a motion in the same packet loses the motion, and a speed with
  a preset is decoded as the preset's number; numbers are modulo 128; wiper off, the clearing of a preset and
  the camera's power have no code.
* An Infinova header is in the buffer before it is known that the message behind it
  fits; a refused message leaves its header (`refused` in `Framed`).  A camera is
  authenticated again for every packet written before the channel opens.
* The reader of `pelco_p` has the timeout of Pelco D (`ccreader.c:49`).

Of the joystick and the links:

* A preset is stored at every release of its button that is read apart from the
  press: the mode that `moved_since_pressed` looks at has been cleared by then, whether the
  stick moved or not.  One that is pressed and released, or followed by a movement, in one read is not recalled.
* When the camera is changed while the stick is deflected or a button held, the camera left behind goes on until
  its timeout; a stop that is read together with the button goes to the new camera only.
* A button released while the device is unplugged goes on afterwards: initial events of buttons
  are skipped (`NothingRunsOn` is stated for a device that stays open).
* The previous camera of receiver 1 is 0, which no link has in its range.

Of the configuration and the program (`Config`, `Daemon`):

* The watch is on the inode.  A file deleted and made anew, or renamed and written under its old
  name, is not noticed (`missed`); a rename over it is noticed since the watch ends.  A change between
  `config_read` and `inotify_add_watch` is missed as well.
* A file that is being written may be read, or found good, when a part of it is there that makes a
  configuration.  That then runs until the file is closed, and `Configured` and `NewestRuns` except a file
  that is still open for writing.
* When `poller_init` fails the channels it was given are nobody's (`lost`).
* `daemon` changes the directory, so that a relative `PROTOZOA_CONFIG` is read once from
  one place and then from another (not modelled: one path).
* A reader with an unknown protocol is linked all the same, its `do_read` never set (`do_read` is
  "unset"); a writer with one has no receivers.  The first directive's protocol is that of the
  reader, whatever the next say.
* One serial port with two baud rates is two channels; two directives for one camera have a
  gap each.
* A range has seven characters: of `100-1024` the last is read as the next field (not modelled).

## Assumptions and what is left out

* The clock is never set back, and a handler's readings of it fall in one tick.
* Allocation does not fail but in `Tree`.
* Except in `poller_accept`, `accept` succeeds when the listening descriptor is
  readable.
* Names, addresses, serial settings, the log and the statistics are abstracted or left
  out, as is text: `axis` requests, and the splitting of a line of the configuration into
  fields and of a port into name and service, with what is cut off at 31 characters.
* `Manchester` assumes that a message finds room in the transmit buffer; the
  refusal is in `Buffer` and in `Serial`.  A line loses bytes but does not alter them.
* `Tree` has the calls of one caller that adds no item that is in the tree, as `defer.c` is without
  ties; the program uses the tree with duplicates allowed only.
* The composition of the poller with the deferral, and of the deferral with the readers, is by what one
  assumes of the other (`DeferEvents`, `Routes`, `Write`), not by one module.

## Not modelled

* `axis.c` but for its replacing of what is queued: the requests are text, and nothing but their
  length depends on the packet.
* `stats.c` and `log.c`: counters that are printed, and output.
* `cl_pool_release_all`, which nothing calls; the copy and the log of a packet.
* The failure of `cl_rbtree_add` inside `defer_packet`: with the memory of a
  few records exhausted the program does not get that far.

## Plan

Done: the deferral with its timer (the most important behaviour of the
program), the buffer, channels and poller, the packet, the serial protocols, readers
and links with the joystick, the tree with its pool, the configuration and the
program's life.

1. **Proofs.**  `RedBlack`, `PoolSound` and the refinement of `Tree` would need the module written
   with recursive functions over the nodes.
2. **Composition.**  The poller with the deferral in place of `DeferEvents`: a
   command accepted by a reader is written to its camera's channel.
3. **Clock.**  A variant of `Tick` that sets the clock back: how long nothing is written.
