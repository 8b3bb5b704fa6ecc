# A TLA+ model of usbip-server

usbip-server lets a program pretend to be a USB device. A host attaches over
TCP with the USB/IP protocol; a server thread answers it; the program's own
threads hand data for the IN endpoints to the server with
`usbip_device_transmit` and are called back for what the host sends. This
directory models the library (`src/lib`) and the six example devices built on
it, checks the models with TLC and proves the core of them with TLAPS. Paths
below are relative to the repository's root.

## The system

| Part | Source | State | Operations | Model |
|---|---|---|---|---|
| Endpoint buffers | `src/lib/usbip_device.c` | one buffer per IN endpoint, reset generation, stop flag, condition, event, `receive_lock` | transmit, fetch, reset, stop, callbacks, critical sections, control | `UsbipDevice`, `HostStream` |
| Control requests | `src/lib/usbip_device.c` | configuration value | routing, answers, other speed configuration, strings | `ControlRequest`, `Descriptors` |
| Protocol engine | `src/lib/usbip_protocol.c` | pending transfers, poll times, stream ends, imported flag | list, import, submit, unlink, scan, lost connection | `UsbipProtocol`, `Descriptors` |
| Server thread | `src/lib/usbip_server.c` | `keep_running`, panic counter | worker loop, Ctrl-C, stop | `UsbipServer` |
| TCP server | `src/lib/tcpip_server.c` | sockets, `stop_server` | accept, poll, read, write, close | `UsbipServer` |
| GUD display | `src/usb_gud_display/` | status, mode, pending rectangle, framebuffer, window | display requests, pixel data, reset, main loop | `GudDisplay` |
| Bulk device | `src/usb_bulk/` | input buffer, message counter | input, answers | `BulkDevice` |
| CDC serial port | `src/usb_cdc/` | line state, input buffer, tick counter | line requests, input, reset, ticks | `CdcDevice` |
| Keyboard | `src/usb_keyboard/` | configuration flag, place in the text | configuration, typing | `KeyboardDevice` |
| Mouse | `src/usb_mouse/` | step counter | moving | `MouseDevice` |
| Audio input | `src/usb_audio_input/` | alternate setting, sample index | interface requests, packets, reset | `AudioDevice` |
| Descriptors of the examples | `src/usb_*/*_descriptors.h`, `include/descriptor_utils.h` | none | constant tables | `ExampleTables` |

How they interact: application threads call into the endpoint buffers while
the server thread runs the protocol engine on top of the TCP server. Three
things connect the threads: `ep_access_mutex` with its condition (a transmit
waits until the host has fetched earlier data), an eventfd (data wakes the
server's `ppoll`), and `receive_lock` (callbacks and critical sections exclude
each other).

What is hard here: a transmit that sleeps across resets; data arriving in the
middle of a scan of the queue; unlinks that cross completions; the full queue;
pacing by a timeout that is the minimum over all transfers; a stop that two
flags announce one after the other; hosts that leave at any point; a main
loop that reads what callbacks write. `PROJECT.json` lists these as hazards,
with the line and the properties for each.

## Modules

**`UsbipDevice`** One action per piece of code between two points where another
thread can act. Code under `ep_access_mutex` is one step, since only
`pthread_cond_wait` blocks inside it, and that ends the step. `receive_lock`
is held over several steps, so it is a variable. `waiters` is the wait set of
the condition, and a thread may also wake spuriously. A byte is `<<c, i>>`,
byte `i` of the `c`-th call to transmit, which lets properties ask where a byte
came from. The server thread's operations come in any order here.
`accepted`, `delivered`, `calls` and `requests` are history variables.

**`HostStream`** What the API promises a caller of transmit, without locks,
generations or events: a byte stream per endpoint that starts over at a reset.
`UsbipDevice` is shown to implement it, with `accepted` and `delivered` mapped
to themselves, a waiting thread to its call and `device_stopped` to `stopped`.

**`ControlRequest`** Operators for how a control request is routed and how long
the library's own answer is.

**`UsbipProtocol`** Extends `UsbipDevice` and calls its operations in the order
the code does. `at` is where the server thread is. The host is the environment:
it numbers its commands, and leaves whenever it likes, so that any write may
fail. Time is a clock that may tick between two steps. The direction bit of a
setup packet and the direction and length of its transfer are those of a
consistent host. Writes fail or succeed but do not block; blocking is
`UsbipServer`'s subject.

**`UsbipServer`** The worker thread with blocking reads and writes, the signal
handler (which runs on the application's thread, since the worker blocks
SIGINT), and an application like the bulk device's main loop. A pass through
the protocol engine reads at most one command and writes some replies.

**`Descriptors`** What a host learns of a device: the endpoints an import loads,
the interfaces of the device list and the answers to GET_DESCRIPTOR. A table is
a sequence of bytes. The code goes through one by adding up the lengths it reads;
each round of the four loops (`load_endpoints`, `transmit_devlist_response`,
`get_string`, `build_other_speed_config`) is an action, `walk` is the loop the
server is in and `idx` where it is. No other action is enabled meanwhile, since
the server thread is in the loop and nobody else writes what it reads. A device
also has the set `starts` of the places where its descriptors really begin, which
only assumptions and properties look at. A read outside a table would stop TLC
with an error.

**`ExampleTables`** The constant tables of the six examples, byte for byte, as
sequences of descriptors. What a table says in one place it has to keep in
another: the total length, the numbers of interfaces and endpoints, the strings
referred to, the length of a HID report descriptor and of the reports it
describes, the sample rate that the packets of the microphone carry. The
assumption `TablesAgree` states this and TLC evaluates it.

**`Application`**, **`BulkDevice`**, **`CdcDevice`**, **`KeyboardDevice`**,
**`MouseDevice`**, **`AudioDevice`** An example is a main thread (`pc` is where
it is) and callbacks. It stands on the abstract stream of `HostStream`, not on
`UsbipDevice`, because the one is proved to implement the other; an element of
the stream is a tick, an answer or a report. A callback and a critical section
are one step each. A reset is two, the clearing of the endpoints and the
callback, because main runs between them. Code outside critical sections (the
serial port's look at DTR, the check of `usbip_server_interrupted`) is a step
of its own. `writing` says that the worker is in a write the client has not
taken; it serves nobody else and does not notice Ctrl-C meanwhile. `session`,
`terminal`, `texts` and the like are history: what this host did and got. A key
and its modifier are the character `ascii_to_hid` finds them for, since no two
characters share both; what a property asks of the keys is their order. The
mouse's circle is computed in floating point and cut to integers; the model has
the integers. An audio sample is its place in the pulse.

**`Examples`** A behaviour of one of the five programs, so that one run and one
specification cover them; they share nothing but the library.

**`GudDisplay`** A callback is one step, and so is the main loop's critical
section, because the two exclude each other (proved for `UsbipDevice`); what
the loop shows with its copies is a second step. Framebuffer, transfer buffer
and window are arrays of bytes and pixels, with the index arithmetic of the
code. `image` records what the host meant to draw, per pixel. The display is
modelled with one offered format, as it is built (`FormatAssumption`). Left
out: contents of constant answers, the delay before the connector reports
itself connected, the error count, printed text.

`MC*` modules only give values to constants. Operators with an underscore
suffix (`DataOf_NotCut`, ...) are variants with a plausible bug, used to see
that each property notices one.

## What TLC checks

| Run | Configuration | Properties | States | Result |
|---|---|---|---|---|
| device | `MCUsbipDevice.cfg` | `DeviceTypeOK`, `SleepersHaveCause`, `SessionIsolation`, `ReplyIsFresh`, `CriticalSectionsExclude`, `NobodyWaitsHoldingTheLock`, `HostStreamSpec` | 1.30 M | holds |
| commands | `MCProtocolCommands.cfg` | `ProtocolTypeOK`, `HostSeesItsSession`, `NothingToUnlinkMeansAnswered`, `DataReachesHost` | 2.04 M | holds |
| paced | `MCProtocolPaced.cfg` | `NoLostWakeUp`, `ExactlyOneAnswer`, `IsoInOrder` | 5.05 M | holds |
| order | `MCProtocolOrder.cfg` | `OldestGetsData` | | violated |
| server | `UsbipServer.cfg` | `ServerTypeOK`, `ServedAfterImport`, `EightInterruptsExit`, `InterruptedEnds` | 65 k | holds |
| stop | `UsbipServerStop.cfg` | `StopMakesCallsReturn` | | violated |
| detach | `UsbipServerDetach.cfg` | `DetachIsTold` | | violated |
| display | `MCGudDisplay.cfg` | `GudTypeOK`, `PendingFits`, `FramebufferIsImage`, `WindowUpToDate`, `EveryRectangleCounted`, `RefusedChangesNothing`, `ImageIsShown` | 0.48 M | holds |
| descriptors | `MCDescriptors.cfg` | `EndpointsAsDescribed`, `InterfacesListed`, `OtherSpeedIsFullSpeed`, `AnswersAsAnnounced` | 0.36 M | holds |
| examples | `MCExamples.cfg` | `ReportsInOrder`, `OneLateTick`, `InputOfThisHost`, `AnswersNeedInput`, `TextsNeedConfiguration`, `PointerOnCircle`, `RecordingsBeginWithPulse`, `HostIsServed`, `MainEnds` | 0.22 M | holds |
| ticks | `MCExamplesTicks.cfg` | `TicksNeedTerminal` | | violated |
| texts | `MCExamplesTexts.cfg` | `TypesOncePerAttach` | | violated |

Five statements in the repository do not hold of the code:

- *"Oldest first, so data reaches the host in the order the transfers were
  queued"* (`src/lib/usbip_protocol.c:369`). A scan that has passed an older
  transfer gives data that arrives meanwhile to a younger one. The older one
  stays pending and gets the next data; nothing is lost.
- *"Make waiting reads, writes and waits return"* (`src/lib/tcpip_server.h:43`).
  Reads and waits do, within their timeout. A write to a client that does not
  read blocks until the client goes.
- The reset callback is *"Called when a host attaches the device and when it
  disconnects"* (`include/usbip_server_api.h:84`). It is not called when the
  server is stopped while a host is attached.
- The serial port sends ticks *"only while DTR is high"*, and *"`reset()` drops
  DTR when the host attaches or detaches, so the ticks stop with the host"*
  (`docs/usb_cdc_device.md:68` and `:72`). main reads DTR outside the critical
  section, so a tick still comes after the terminal closed, or to a new host
  that never opened one.
- *"The keyboard types once per attach."* (`docs/usb_keyboard_device.md:26`).
  The keyboard has no reset callback. If a host leaves after main has taken up
  its configuration, or before main has noticed it, the next host gets that text
  and one for its own configuration.

What does hold, of hosts that follow one another:

- `OneLateTick`: while a host keeps DTR low it gets at most one tick beyond
  those there were when it let DTR fall. What the serial port prints is always
  the present host's. Input that does not fit is dropped as a whole transfer,
  not from its eleventh byte on.
- `TextsNeedConfiguration`: whoever gets a text, some SET_CONFIGURATION asked
  for it and for no other. A text may reach a host from its second half on.
- The bulk device has no reset callback either. A new host may get up to two
  answers it did not ask for: one that main was about to transmit and one for
  what an earlier host left behind. The bound is exact.
- A recording begins with a pulse as long as the host ends the one before with
  SET_INTERFACE or by leaving. `docs/usb_audio_input_device.md:83` says *"every
  recording"*, but the alternate setting survives a SET_CONFIGURATION; the
  model's hosts do not send one while they record.
- `IsoInOrder`: an isochronous transfer that was queued never overtakes its
  stream. One that finds the queue full does, since it is answered at once.

### Bounds

- *device*: two threads, so that two can wait for one endpoint and a third
  party wakes both; three transmits, so that one more can come after both; two
  resets, so that a call can sleep across one and across two; buffers of two
  bytes with data of one and three bytes and transfers of one and three, so
  that data is cut, is fetched in parts and fits exactly. Threads are
  interchangeable, so their symmetry is used; no liveness is checked there.
- *commands*: two hosts, each with up to three commands and a reset on the way
  in and out, and a queue of two, so that it overflows, is left full by the first
  host and has a transfer behind the one that is removed. Time stands still, so
  that data is not delivered by a timeout.
- *paced*: an interrupt endpoint with an interval of two ticks, an isochronous
  one with an interval of one and two ticks of time, so that transfers are due,
  not due, and become due while the server waits; a queue of two with four
  commands, so that it overflows and has transfers of both kinds to remove.
  Length 0 is included: an IN transfer of length 0 is never completed by the
  code, only unlinked, and the wake-up properties say so.
- *server*: two clients, so that one follows another's lost connection, and
  eight Ctrl-C: three interrupt the server and five more force an exit. The
  program ends, so deadlock is not checked.
- *display*: two by two pixels and rectangles of one column and one line, so
  that rectangles overlap and their pitch differs from the display's; two
  resets, one attach and one in the middle of things. The program ends here too.
- *descriptors*: the tables of the six examples; made-up ones with every
  transfer type, packet sizes and intervals at their limits, addresses described
  twice and tables longer than the control buffer; strings of 125
  to 128 characters; requests for two bytes, a header, 64 bytes and
  everything. Alternate settings appear only in the last interface, as in the
  examples: the device list takes the first `bNumInterfaces` interface
  descriptors for interfaces.
- *examples*: two hosts, since a property relates a host to those before it and
  the state left by one host covers what several leave; two to three transfers,
  requests and ticks of each, so that buffers fill exactly, overflow and are
  left full; a text of two characters, which has a first, a last and a place
  between; a whole lap of the mouse for the second host, after a first that leaves in mid-step; packets with
  less room than their samples and a pulse that ends inside a packet. The
  programs end, so deadlock is not checked.

### Fairness

- `FairProtocolSpec`: the server thread keeps running its code, and a thread
  that has stored data goes on to set the event. Nothing is assumed of the host,
  of the clock, or of threads starting new calls or leaving a critical section:
  `DataReachesHost` has the premise that the server thread is not kept waiting
  for `receive_lock` for ever. It is checked with a clock that never ticks, so it
  does not lean on the poll's timeout.
- `FairServerSpec`: worker, application and handler keep running, because all
  their waits have timeouts; a write is only assumed to return while the
  client reads or has left. `InterruptedEnds` therefore has the assumption that
  the client does not stay silent for ever, and the *stop* run shows why.
- `FairGudSpec`: the main loop keeps going round; it waits at most 20 ms.
- `FairExamplesSpec`: main keeps running, since it only sleeps for fixed times
  and in transmit. The worker finishes a reset it began and notices Ctrl-C if it
  gets back to its loop again and again, whatever else it serves (strong
  fairness). Nothing makes a client take what is written to it: `HostIsServed`
  and `MainEnds` have the premise that the worker is not in one write for ever,
  and the *stop* run shows why. The host of the bulk device and of the keyboard
  is assumed to read its endpoint, as their drivers do, and `HostIsServed` is
  about hosts that do. `MainEnds` also covers the serial port and the mouse,
  whose hosts may stop reading.

## What is proved

TLAPS checks these for any sets of threads, endpoints and clients, any lengths
and any bounds, from the named assumptions of the modules (the server is not an
application thread, endpoints are 1 to 15, lengths and bounds are naturals,
buffers and the display are not empty, the display offers one format, a text is
ASCII and not empty, a host stays within the lengths and bounds of
`UsbipDevice`, and the tables of a device are as `TablesAssumption` says, which
the argument for `Descriptors` below spells out). Every safety property of the
runs that hold is proved.

| Theorem | Module | Property |
|---|---|---|
| `DeviceTypeCorrect` | `UsbipDeviceProofs` | `DeviceTypeOK`: no endpoint holds more than its buffer |
| `MutualExclusion` | `UsbipDeviceProofs` | `CriticalSectionsExclude` |
| `NoLostProducer` | `UsbipDeviceProofs` | `SleepersHaveCause` |
| `NoHoldAndWait` | `UsbipDeviceProofs` | `NobodyWaitsHoldingTheLock` |
| `ResetIsolatesSessions` | `UsbipDeviceProofs` | `SessionIsolation` |
| `RepliesAreFresh` | `UsbipDeviceProofs` | `ReplyIsFresh` |
| `DeviceImplementsHostStream` | `UsbipDeviceProofs` | `HostStreamSpec` |
| `ProtocolTypes` | `UsbipProtocolProofs` | `ProtocolTypeOK`: the queue stays within its limit |
| `ProtocolUsesDevice` | `UsbipProtocolProofs` | `ProtocolSpec => DeviceSpec` |
| `IsoStreamsInOrder` | `UsbipProtocolQueueProofs` | `IsoInOrder`: a stream is overtaken only when the queue is full |
| `ServerWakes` | `UsbipProtocolQueueProofs` | `NoLostWakeUp` |
| `SessionsApart` | `UsbipProtocolReplyProofs` | `HostSeesItsSession` |
| `EachAnsweredOnce` | `UsbipProtocolReplyProofs` | `ExactlyOneAnswer` |
| `UnlinkedWereAnswered` | `UsbipProtocolReplyProofs` | `NothingToUnlinkMeansAnswered` |
| `DisplayTypes` | `GudDisplayProofs` | `GudTypeOK`: what is copied are bytes, what is shown has 24 bits |
| `PixelsFit` | `GudDisplayProofs` | `PendingFits` |
| `RectanglesCounted` | `GudDisplayProofs` | `EveryRectangleCounted` |
| `RefusedRequests` | `GudDisplayProofs` | `RefusedChangesNothing`, an action property |
| `FramebufferHoldsImage` | `GudDisplayProofs` | `FramebufferIsImage` |
| `WindowShowsImage` | `GudDisplayProofs` | `WindowUpToDate` |
| `LoadsTheEndpoints` | `DescriptorsProofs` | `EndpointsAsDescribed` |
| `ListsTheInterfaces` | `DescriptorsProofs` | `InterfacesListed` |
| `OtherSpeedConfiguration` | `DescriptorsProofs` | `OtherSpeedIsFullSpeed` |
| `AnswersTheHost` | `DescriptorsProofs` | `AnswersAsAnnounced` |
| `LoopsReadInside` | `DescriptorsProofs` | `ReadsInside`: the loops that do not check where a table ends stay inside |
| `ServerTypes` | `UsbipServerProofs` | `ServerTypeOK` |
| `OnlyImportersServed` | `UsbipServerProofs` | `ServedAfterImport` |
| `InterruptsExit` | `UsbipServerProofs` | `EightInterruptsExit` |
| `BulkAnswers` | `ExamplesProofs` | `AnswersNeedInput` |
| `CdcTicks` | `ExamplesProofs` | `OneLateTick` |
| `CdcInput` | `ExamplesProofs` | `InputOfThisHost` |
| `KeyboardTexts` | `ExamplesProofs` | `TextsNeedConfiguration` |
| `AudioRecordings` | `ExamplesProofs` | `RecordingsBeginWithPulse` |
| `ReportsArriveInOrder` | `ExamplesProofs` | `ReportsInOrder` |
| `PointerStaysOnCircle` | `ExamplesProofs` | `PointerOnCircle` |

The device's argument is a ladder; each rung is inductive given those below.

1. `DeviceTypeOK`, inductive as it stands.
2. `LockInv`: the thread-local `in_critical_section` and the server's callback
   agree with who holds `receive_lock`. Mutual exclusion follows; by itself it
   says nothing about who holds the lock and is not inductive.
3. `WaitInv`: whoever waits is an application thread, waits for an IN endpoint
   other than 0, is outside critical sections and read a generation no newer
   than the current one; and while anyone sleeps the server runs and the
   sleeper's endpoint has data. The absence of
   hold-and-wait and of lost producers follow.
4. `DataInv`: the bytes in the buffers and fetched from them come from calls
   begun since the last reset, the bytes of endpoint 0 from calls begun during
   the current request, and the data of a waiting call from its own session.
   The last part is needed because a sleeping call may store later.
5. `StreamInv`: what was accepted is what was delivered followed by what is
   buffered. With it, an endpoint is empty exactly when its stream is drained,
   so each step of the device is a step of `HostStream` or none.

The protocol's proofs start from `ShapeInv`: types, a queue in the order of
submission, and what the place of the server thread says of the command it
handles. From it follows that each step of the protocol is a step of
`UsbipDevice` or leaves the device alone (`ProtocolUsesDevice`), so the ladder
above holds of the whole and can be used. On top of it:

- `StreamInvariant`, for `IsoInOrder`: within the queue the transfers of one
  stream are due in the order they were submitted, none later than the end of
  the stream, and a scan has passed only transfers that are not due. A transfer is
  answered at once only while the queue is full.
- `WakeInv`, for `NoLostWakeUp`: every transfer a scan has passed is covered by
  the timeout of the poll to come, or by an event that is set or will be, or
  there is nothing in its endpoint. The scan has read the endpoint before, so
  the step to see is that of a thread that stores data behind it: it is on its
  way to set the event.
- `CallsInv`, for `HostSeesItsSession`: calls of transmit from before the import
  have an older generation than the present one, so by `SessionIsolation` their
  bytes are not in the buffers.
- `NumbersInv` and `AnswerInv`, for `ExactlyOneAnswer`: no numbers are about but
  those of submitted transfers, and each of these is with the server thread, in
  the queue or among the replies, in exactly one of the three.
  `NothingToUnlinkMeansAnswered` follows: a transfer that is not in the queue
  when an unlink is handled can only be among the replies.

For the display, `PendingFits` needs the additional fact that a checked format is
an offered one (`GudInv`): with one format, a commit cannot change the format
under a pending rectangle. The other properties rest on the arithmetic of the
buffers, products and remainders of variables, which are lemmas of their own: a
byte of the framebuffer belongs to one pixel, and copying a rectangle line by
line changes the bytes of its pixels and no others. `TransferInv` says that the
transfer buffer holds what has arrived of the rectangle, `ImageInv` that the
framebuffer is the image byte for byte and blank without a format, and
`WindowInv` that, unless a change is marked, the main loop's copy is the
framebuffer, and the window shows it or is about to. A format may be set between
the copy and the drawing; then the framebuffer is blank, and blank in every
format.

For `Descriptors` the loops are steps, so what they compute is an invariant and
needs no induction over tables. `TablesAssumption` is what the tables of the six
examples have in common (TLC evaluates it for these and for the made-up ones): a
configuration is as long as it says and made of descriptors that are as long as
they say, at least two bytes, and at least as long as an endpoint or interface
descriptor where it is one; interfaces are numbered in order and only the last
one has alternate settings; string tables end with an entry 0; a report
descriptor is there if and only if a HID descriptor announces its length.
`DescriptorsInv` has a part for each loop: it stands where a descriptor begins or
at the end of the table, and its result is that of the descriptors behind it.

- `ImportLoop`: each endpoint is as the last descriptor before `idx` about it
  says. The interval is that of the last one that gives a pace, because the code
  leaves an interval alone when a later setting of the same address gives none.
- `ListLoop`: the interfaces listed are those up to `idx`. While one is missing
  it is still ahead, so there is a descriptor to go on to: that is why the
  search, which does not check what it reads, stays inside (`LoopsReadInside`).
- `StringLoop`: the index is not among the entries before `idx`.
- `OtherSpeedLoop`: the endpoints before `idx` are rewritten, and no byte at or
  behind `idx` differs but for the header's type. So the lengths the loop reads
  from the buffer it is changing are those of the configuration. That an interval
  stays the same time is a fact about the powers of two up to 2^15, by cases.

The server's invariant `ServerInv` adds to the types what the place of the worker
says of the connection: where a client is being served, who imported the device
and who is connected are the same; and how many Ctrl-C the two counters of the
handler add up to. Neither property is inductive without it.

For the examples, the number of things a host got says nothing about what it
will get: main may be about to transmit, or about to notice what an earlier host
left. `Owed` is what a host got plus the report main is about to transmit, and
does not count a transmit that waited for a host that has left, since it fails.
The invariants bound `Owed` plus what main has not noticed yet: unread input for
the bulk device (`BulkInv`), nothing for the serial port, where a reset callback
has cleared it (`CdcInv`: while a host attaches, DTR is down, and while it keeps
DTR low at most one tick is owed beyond `heard`). A reset leaves at most one
owed; every step of main moves one from unnoticed to owed to accepted, or loses
it; every request of the host adds one on both sides. The keyboard's counts run
over all hosts: texts begun, the text main is about to begin (`About`) and the
unnoticed configuration (`Active`) are together no more than the configurations
asked for (`KeyboardInv`).

`ReportsInOrder` and `PointerOnCircle` have one invariant, `OrderInv`. Each
program has an endless sequence of reports, for the keyboard and the mouse around
a cycle, and main's counters name its `Position` in it. `FlowInv` says that what
the stream accepted since the last reset are the reports just before `Position`,
that the host fetched a prefix of them, and that a transmit that waits has the
report at `Position`. A transmit that failed skips a report, so it must be known
that the stream is empty then: only a reset makes a transmit fail. Once the
server has ended this is no longer so and only that some position fits is kept.
The mouse adds that the pointer is the way from the point where its host began to
the point its fetched reports lead to (`PointerInv`); each delta, checked over
the tables of the circle, fits a signed byte. `AudioInv` says that a recording
continues at the `sample_index` it has reached, modulo the period of the pulse.

Only model-checked: liveness (`DataReachesHost`, `InterruptedEnds`,
`ImageIsShown`, `HostIsServed`, `MainEnds`), which needs fairness and is beyond
the prover.

## Not modelled

Opening and configuring sockets, byte order and field layout of the wire
format, printing, the characters of strings, SDL, the values of audio samples
(floating point, with a phase that only they depend on), and the scripts in
`tools/`. `reset_generation` counts without wrapping at 2^32: the first reset
already wakes a waiting transmit. An IN transfer of length 0 is in the model but
no property says what should become of it, since nothing in the repository does.
