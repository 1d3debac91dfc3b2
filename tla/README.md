# A model of android-display in TLA+

android-display turns an Android tablet into a second display of a Mac. A Go
server on the Mac creates a virtual display, captures and encodes it, and
streams it to clients over USB (TCP through `adb reverse`) or WiFi (UDP); a
Kotlin app decodes the stream and sends touch events back. This directory holds
TLA+ modules for the parts of it where several goroutines, threads or processes
meet, TLC configurations that check them on small instances, and proofs of their
safety for any number of clients, frames, touches, devices and starts.

All paths below are relative to `src/`. `PROJECT.json` maps every definition to
the lines it models and names, for every property, a plausible bug of the code
that would violate it (see *Mutants*).

    tlc -workers 2 -config ServerSessionSafety.cfg MCServerSession
    tlapm ServerSession_proofs.tla

and `tlapm` in the same way on the `_proofs` modules of AdbForwards, DisplayService,
Gesture, MediaPipeline, TcpVideo, UdpVideo and VideoDecoder.

## Inventory

| Component | State it keeps | Operations | Meets |
|---|---|---|---|
| Control server (`server/internal/control`, `protocol`) | listener, `clients`, a handshake per connection | AcceptLoop, handleConn, Stop | the allocator and `OnClient` of main; the client |
| Session (`server/cmd/server/main.go`) | `clientServersMap`, per client a context, monitor, teardown and pipeline goroutine | allocateClientPorts, OnClient, startPipelineUSB/WiFi/Common, deferred cleanup | every server-side component |
| Touch server (`server/internal/touch`) | listener, `done`, WaitGroup of handlers | NewServer, AcceptLoop, handleConn, Stop | session teardown, client |
| USB video (`server/internal/stream/tcp.go`, `TcpVideoReceiver.kt`) | listener, `conn`; the receiver's position in the stream | AcceptOne, SendFrame, Close; receiveLoop, readFully | encoder callback, teardown, service |
| WiFi video (`stream/udp.go`, `packet.go`, `UdpReceiver.kt`, `PacketParser.kt`) | sequence number; fragments of one frame, counters | SendFrame, SplitIntoPackets; handlePacket | encoder callback, network, decoder |
| adb (`server/internal/adb`) | `Watcher.known`; forwards live in each device's adbd | Devices, SetupReverse, RemoveReverse, RemoveAllReverse, poll, EnsureKnown | main, watcher, handshakes, teardowns |
| Gesture recognizer (`server/internal/input/gesture.go`) | state, pointers, two timers, pending tap | HandleEvent, timer callbacks, Close | touch goroutine, Go timers, injector |
| Decoder and surface (`VideoDecoder.kt`, `DisplayActivity.kt`) | `nalQueue`, `bufferQueue`, the MediaCodec; `videoDecoder` | submitNAL, feedBuffer, codec callback, start, stop | receiving coroutine, codec thread, UI thread |
| Service lifecycle (`DisplayService.kt`, `ControlClient.kt`, `MainActivity.kt`) | coroutine jobs, sockets, cached SPS/PPS, pending control client | connect, startPipeline, disconnect, onDestroy | all of the client |
| Virtual display (`server/internal/display`) | `createMu`, framework objects | Create, Destroy | pipelines |
| Capture, encoder (`server/internal/capture`, `encoder`) | callback registry, a static Annex-B buffer | start, callback, stop | pipelines, stream |
| Touch wire format, injection, discovery, screens | none of their own, or the system's | encode/decode, CGEvent calls, mDNS, UI | — |

How a session goes. The client dials the control port and says hello with its
connection type. `handleConn` asks main for ports: `allocateClientPorts` makes
a touch server, for USB also a video server, puts both into
`clientServersMap` and forwards their ports with adb. ServerHello carries the
ports, the client answers ClientReady, and `OnClient` takes the servers out of
the map and starts three goroutines that share one context: the monitor cancels
it when the control connection fails, the pipeline streams until it is
cancelled (and cancels it when it ends by itself), the teardown waits for it and
closes what the handshake opened. The encoder's callback writes frames to TCP or
UDP; on the client the receiving coroutine puts NAL units together and hands
them to the decoder, whose surface comes and goes with the activity.

What is hard here, by kind (each at its line in `PROJECT.json`, `hazards`):

- ownership of listeners that pass from the handshake through a global map to a
  goroutine, while any step may fail;
- teardowns that wait: `wg.Wait` for a handler, `AcceptOne` for a client that
  never dials, `createMu` for another pipeline;
- adb commands by four actors that share the forwards of a device and identify
  them by port number only;
- frames cut by a write deadline, and fragments lost, duplicated and reordered;
- timer callbacks that already wait for the mutex when they are stopped;
- two queues of a decoder, filled from two threads and cleared by a third;
- three threads of a pipeline (goroutine, capture queue, encoder output) whose
  teardown runs while frames are under way, and a buffer all encoders share;
- coroutines that go on connecting while the main thread cleans up after them,
  and fields that a second start overwrites.

What makes each component correct:

- *control and session*: listening servers have exactly one owner; the callback
  finds them; a live session keeps them; every handshake ends; a client that
  left is released; displays are created and destroyed one at a time;
- *adb*: a live client's forward stays; a closed client's forward goes; the
  control forward comes back after a link flap;
- *USB video*: what is delivered is what was written, as far as the stream is in
  step; the sender is never held up; complete frames arrive;
- *WiFi video*: no frame is ever assembled from pieces of two, or twice from one
  set of packets; loss in part is counted;
- *gestures*: one click per tap, one outcome per touch, no button held down, a
  held finger resolves;
- *decoder*: a NAL unit and a buffer never wait for each other; order is kept,
  lag capped, the queue drains;
- *capture and encoder*: nothing is used after it was freed; pixel buffers and
  handlers are given back; no encoded unit is lost; a key frame can be decoded from
  its own parameter sets (which the code does not ensure, see *Limits of the properties*);
- *service*: what was opened is closed when the service is destroyed; a lost
  control connection is noticed; nothing crashes a session that has come up: a
  receive job that has its socket, or has not yet looked whether it is cancelled.

## Modules

### ServerSession (with ClientLease and ServerSession_proofs)

The life of every client on the server. A connection is its `net.Conn`.

| State | Code |
|---|---|
| `hs` | where `handleConn` (`control/server.go:84-174`) and the callbacks it makes into main are |
| `clientServers`, `clients`, `stopped` | `clientServersMap`, `Server.clients`, `Server.Stop` has run |
| `ctl`, `cli`, `sentReady` | the server's end of the control connection, the client, ClientReady on the wire |
| `ctx`, `tear`, `pipe` | the context, the teardown goroutine, the pipeline with its deferred calls |
| `touchLn`, `touch`, `videoLn`, `video` | listeners and connections of `touch.Server` and `TCPVideoServer` |
| `forwarded`, `createMu` | clients whose ports adb forwards, the display lock |

One action per step another actor can tell apart: the handshake from
`ReadClientHello` to `OnClient`, with an error branch wherever the code has one;
`MonitorControl`; the touch server's `TouchAccept`, `TouchServe` (the `wg.Add`
that runs after the accept) and `TouchHandlerEnds`; the teardown in the code's
order (touch listener, wait for handlers, video connection, video listener,
forwards); the pipeline with `AcceptVideo` apart from `StoreVideo`, since `Close`
may run between them. Messages are abstracted to the connection type; a failing
read stands for malformed input, a closed connection or the 10 s deadline.

*ClientLease* is what the server promises about a client's ports: they are
opened before the client hears of them, stay open while the lease is granted,
close only when it has expired, and a lease is granted at most once.
`ServerSession!ImplementsLease` maps a session to a lease (`leaseOf`, `portsOf`).

### AdbForwards (with AdbForwards_proofs)

The rules of every device (`fwd`), and all who change them: `main` at its start
and after a signal, the watcher's poll with its two callbacks, handshakes and
teardowns. Each adb command is a step; it has no effect on a device that is not
attached, and up to `MaxFailures` commands fail although they could work. A
device that is unplugged loses its forwards and its clients. A client has one
port here: its two ports go through the same commands one after the other.

### UdpVideo (with UdpVideo_proofs)

`SendFrame` with `SplitIntoPackets`, a network that loses, duplicates and
reorders, and `handlePacket` with its `fragments` map and counters. A byte is
`<<frame, position>>`, so that what is submitted shows what it was made of. `Put` is
the assignment of a fragment to its index in the map. `FragIndex` and `FragTotal` are
uint16: `Uint16` is their conversion (`packet.go:125-126`), with `FragNumbers` values
(2^16 in the code). A frame with more fragments than that carries numbers that have
wrapped; `Fits` tells such frames apart, and the properties promise nothing for them but
that they do not disturb the others, where the network may reorder.

### TcpVideo (with TcpVideo_proofs)

`SendFrame` with its deadline and partial writes, and `receiveLoop`. The stream
is made of units: the length prefix and some bytes of a frame. When the receiver
reads a length where no prefix stands it gets any number it would act on.

### Gesture (with Gesture_proofs)

`HandleEvent` takes the mutex for the state and calls the handler after giving it
back; timer callbacks hold it while they call the handler. `armed` are timers
that run, `fired` callbacks that wait for the mutex: stopping a timer has no
effect on the latter, which is the point of the model. The recognizer is kept in
the tree and is not wired in at present (`server/cmd/server/main.go:321-371` is
commented out).

The tablet sends one Down and one Up for every finger, but its queue drops what it has no
room for (`touchChannel.trySend`, `DisplayService.kt:88,336`). So any event may be missing:
`HandleDown` takes a Down of a finger that is down already, and `HandleUp` an Up of a finger
that is not (`StrayUp`, one in a touch, `MaxStrays` in all). A touch begins with each Down after which
`handleDown` counts one finger. Its number is that of its long-press timer, and what the
callback does is booked to the touch it was started for (`outcome`), since it clicks at
that touch's place (`gesture.go:135-142`). `overtaken`, `strays` and `cutDrag` remember
what the properties have to know: touches whose callback still waited when the next one
began, touches with a stray Up, and a Down in the middle of a drag.

### VideoDecoder (with VideoDecoder_proofs)

The receiving coroutine, the UI thread and one callback thread per decoder, each
with a place in `submitNAL` or `onInputBufferAvailable` (`thread`), the two
queues and `feedLock`. The UI thread follows `startDecoder` (start, publish,
inject SPS, inject PPS) and `stopDecoder`, which takes no lock: it stops and releases the
codec (`SurfaceDestroyed`), forgets it (`ForgetCodec`, up to which `submitNAL` still takes
NAL units for it) and clears the two queues one after the other. `codec` and
`videoDecoder` are plain fields in Kotlin; the model reads them as they are last
written, which is the order of the instructions and not all that the memory
model of the JVM would allow.

### MediaPipeline (with MediaPipeline_proofs)

The video half of a session on the Mac. Per session `s` three threads: the
goroutine of `startPipelineCommon` (`pc`), the serial dispatch queue of the
display stream (`queued`, `capture`) and VideoToolbox's output thread (`output`,
`filled`). They meet in the handler maps of `capture.go` and `h264.go`
(`handlers`, `nalHandlers`), in what they free (`stream`, `encoder`) and in the
static buffer of `encoder_bridge.m` (`annex`).

| Actions | Code |
|---|---|
| `NewEncoder(Fails)`, `StartCapture(Fails)` | `encoder.New`; an attempt of `capture.Start`, with its own handler id |
| `StopStream`, `FreeContext`, `UnregisterHandler` | `cap.Stop`: stop, 100 ms, free, unregister |
| `CompleteFrames`, `InvalidateSession`, `ForgetSession` | `enc.Close` and `DestroyEncoder` |
| `DisplayFrame`, `WrapFrame`, `FindHandler`, `Encode(Fails)` | a frame on the capture queue, from the block to the frame handler |
| `FillAnnexBuffer`, `SendUnit` | `outputCallback` fills the buffer, `goEncodedCallback` copies and sends it |

A frame is encoded to a sample: whether its attachments make it a key frame, the parameter
sets that could be read, and the NAL units of its data block. `outputCallback` skips a
parameter set it cannot read and skips all without a format description
(`encoder_bridge.m:69,79`), and a buffer it cannot allocate loses the unit (`:84,126`);
`Samples` has samples with all, some and none of theirs, and `UnitsOf` is what is handed
out for one. Memory that is freed may
still be read with its old contents, or kill the process (`crashed`); of two
callbacks that clash in the buffer either finds its own bytes or the other's. The
wait of 100 ms is untimed: `FreeContext` may come before the last callback, for at
most `MaxOverdue` sessions, which the variable `overdue` remembers.

### DisplayService (with DisplayService_proofs)

One instance of the Android service, from the first tap on Connect to its
destruction, and the coroutines and posts that outlive it. A start is a tap on
Connect; `pc`, `job`, `toucher` and `monitor` are the coroutines `onStartCommand`
launches for it, `control`, `video` and `touch` its sockets. The service's fields
(`controlClient`, `receiver`, `receiveJob`, `touchSender`, and the parameters) hold
the number of the start they belong to, so that a second start that overwrites them
shows. `posts` is the main thread's queue, `main` says whether it is inside
`cleanupConnections`: its first half (the jobs) and its second half (the sockets)
are two steps, since coroutines on Dispatchers.IO run in between. The receive job
checks for the cancellation (`StartReceiving`, `withContext`) and then takes its socket
(`ReadSocket`, or `StartWithoutSocket`, which is the crash): a cleanup may come in between.
After `serviceScope.cancel` a coroutine goes on to its next suspension point.

Where Android decides, the model leaves it free: calls of Android may overtake
posts, and `onDestroy` may come any time after `stopSelf`, because the activity's
binding, which can delay it, is left out. `replaced`, `interrupted` and `cut`
record for the properties which starts were disturbed.

## Runs

| Run | Instance | States | What it shows |
|---|---|---|---|
| `session_safety` | one USB and one WiFi client, safety | 1.1 million | Owners, hand-over, live sessions and the display lock, in every interleaving of two clients and a shutdown. |
| `session_progress` | one USB client, fairness | 2,189 | Every handshake ends, everything started for a client ends after it left, and each step is a step of ClientLease. |
| `adb` | two devices, one client, one failing command, fairness | 288,000 | Live forwards are removed in three ways only; torn-down ones are gone unless a command failed; the control forward returns. |
| `udp` | three frames of 1, 1, 2, 3 or 6 packets, the last beyond `FragNumbers` = 4; one loss, one copy, one overtaking | 5.3 million | Intact submissions; on a network that keeps the order, complete ones, in order. |
| `tcp` | three frames of length 1, the limit, one beyond it; buffers for 3 units, fairness | 164,000 | Intact and in order up to the first frame that was cut or is too long; the sender returns. |
| `gesture` | two fingers, three touches, four Downs, one stray Up, any event lost, fairness | 1.9 million | No click lost or doubled, whenever callbacks run; a touch with two outcomes had a callback that waited or a stray Up; only a Down during a drag leaves the button down; a held finger resolves. |
| `video_decoder` | two decoders one after the other, two P frames and an SPS, two buffers each, one failing feed, fairness | 349,000 | The queues never block each other, order and cap of the lag, across stop and restart; what waits is fed in the end, also with one of two buffers lost. |
| `media` | two sessions, two frames, two attempts to start, one overdue callback; deadlock | 865,000 | No use after free, nothing left behind, nothing lost; every cancelled pipeline ends. |
| `service` | two starts, one failure, lost connection or tap on Disconnect | 6.9 million | What is closed on destruction, what can crash the app, that a lost connection is noticed. |

Three runs check a sentence of the code's own comments and find that the code
does something else (`findings` in `PROJECT.json`):

- `session_map`: "clientServersMap tracks per-client servers between allocation
  and pipeline start" (`main.go:44`). A handshake that fails after the
  allocation leaves its entry, and two listeners, for good
  (`control/server.go:144`).
- `tcp_skip`: "for non-keyframes, write timeout is acceptable (skip frame)"
  (`tcp.go:144`). A write that times out in the middle leaves a part of the frame
  in the stream, and the receiver is out of step from there on.
- `media_buffer`: the Annex-B buffer is "only accessed from the VideoToolbox callback
  thread, so no synchronization needed" (`encoder_bridge.m:17`). Every compression
  session has a callback thread of its own: with two clients, one is sent bytes of
  the other's screen.

### Bounds, and why they are enough

- *Connections*: two actors suffice for each two-party race (two pipelines at the
  display lock, a handshake against another's teardown); the safety of any
  number is proved. (So is that of every other module, for all values of its bounds:
  what follows says why the runs would find a mistake, and is all there is for liveness.) Progress is checked with one client: clients meet in the
  map, where each has its own key, and at `createMu`, which `session_safety`
  and the proofs cover; starvation at the lock would need a second client in a
  liveness run, which takes longer than the runs are given.
- *adb*: two devices, since forwards are made and removed on every device, and one
  client, which meets the watcher, main and a failing command in every order. A port
  that is given to a second client while the first is torn down needs two clients: the
  run has one, because with two the temporal property takes longer than a run is given.
  The safety properties are proved for any number of clients that share ports.
- *UDP*: `MaxPayloadSize = 2` with lengths 1, 2, 3, 5 has a short, an exactly full
  and two split frames; length 11 makes six packets, which with `FragNumbers = 4` is a
  frame whose fragment numbers wrap; three frames, so that a packet can be overtaken by one
  of the next frame and come back after a third. One fault of each kind.
- *TCP*: buffers of three units are smaller than two frames, so that a frame is
  cut at every place, and larger than the shortest.
- *Gestures*: three touches, the least in which a pending tap outlives a second
  touch and meets a third; four Downs in all, so that one is a second finger's or a
  repeated one; one stray Up.
- *Decoder*: `MaxQueueDepth = 0` makes the first waiting NAL unit the limit, two input
  buffers with one failing feed let both queues run empty and one buffer get lost, and
  two decoders are a restart. The stream has two units that may be dropped and one that may
  not, behind them, so that both can wait in a queue; an IDR is treated like the SPS there.
- *Media*: two sessions share the maps and the buffer; two frames let one be on the
  capture queue while the other is in the encoder; two attempts (`MaxAttempts`, 10 in
  the code) are a failed and a last one. Samples are a key frame with both parameter sets,
  one with the PPS only and one with none, a P frame, and one that failed. `MaxFrames` and `MaxOverdue` are in the guards.
- *Service*: two starts (`MaxStarts`), the least in which one overwrites the other's
  fields, in all combinations of WiFi and USB; one event (`MaxEvents`: a failing connect,
  a connection the server closes, a tap on Disconnect) on top of what the steps cause by
  themselves, since a failure already leads to a cleanup, a stop and a destruction.
- Unbounded counters (`sequence`, frame numbers, touches) are capped by these
  constants in the guards. The 32-bit sequence number wraps after years of
  streaming; the receiver only compares it for equality.

`CHECK_DEADLOCK FALSE` is set in all runs but `media`: a session that is over, a stream
at its bound and a user who does nothing are states in which the system may stop.

### Fairness, and why the code justifies it

- *ServerSession*: the Go scheduler runs each runnable goroutine (weak fairness for
  each); a blocked handshake read is ended by `SetDeadline` (`control/server.go:88`);
  system calls and adb commands return. `createMu` has strong fairness: after 1 ms
  of waiting a `sync.Mutex` is handed to the waiter. A client owes nothing but to
  close its sockets when it sees the control connection closed.
- *AdbForwards*: the ticker of `Watcher.Run` polls for ever and adb commands return;
  the start of main gets through. Plugging and clients are free.
- *TcpVideo*: a write proceeds or is ended by its deadline; the receiving thread runs.
- *Gesture*: timers fire; callbacks get the mutex (strong fairness, as above); the
  handler returns.
- *VideoDecoder*: threads run and the codec works off its input. Packets, surface and
  service binding are free.
- *UdpVideo* has no fairness: nothing obliges a network.
- *MediaPipeline* and *DisplayService* need none. No behaviour of theirs has a cycle, so
  that everything that must happen has happened in the states in which they stop: for
  `media` these are `Done` (deadlock is checked, and every other state has a next
  step), for `service` the states `Settled`, which `LostConnectionIsCleanedUp` is
  about.

### Mutants

Some operators exist to name one decision of the code so that it can be
replaced by a mistaken one: `TooLong` (`>`) and `LongPrefix` (`>=`),
`LockDisplays` and `EnterUnlocked`, `StillPending` and `AnyTap`. The mistaken one
stands before it and is used by no action. `PROJECT.json`, `mutants`, lists for
each property one that TLC then finds it violated by.

## Proofs

Every safety invariant, type invariant and action property of the passing runs is a
theorem, for all values of the constants that the named assumption of the module
allows. Each proof is that of one inductive invariant (`IInv` or `SafeInv`), a
conjunction of named parts with one lemma per part, in which every action of the
specification is a step. The bounds of the runs are parameters of the theorems: they
hold for each value. Where a constant has to satisfy something, the assumption says what
the code or the platform provides, and TLC evaluates it on every run.

### ServerSession

`ServerSession_proofs` proves, for any finite or infinite set `Conns` and any
`Usb`, from the assumption `UsbAssumption` (`Usb \subseteq Conns`) alone:

| Theorem | Statement |
|---|---|
| `TypeCorrect` | `Spec => []TypeOK` |
| `OneOwner` | `Spec => []ServersHaveOneOwner` |
| `HandoffNeverDrops` | `Spec => []HandoffFindsServers` |
| `LiveSession` | `Spec => []LiveSessionKeepsServers` |
| `DisplayExclusion` | `Spec => []DisplayCallsNeverOverlap` |
| `Implementation` | `Spec => ImplementsLease` |

None of the properties is inductive by itself. The invariant that is, `IInv`,
adds to `TypeOK`:

- `HandoffInv`: which steps of the handshake have an entry in the map, and that
  context, teardown and pipeline exist together, only after it, and only for a
  registered connection — without it nothing says that `OnClient` finds what
  `PublishServers` put there;
- `ListenerInv`: which listeners are up for each position of the handshake and the
  teardown — this is what ties `touchLn` and `videoLn` to an owner;
- `ContextInv`: while a context lives its teardown still waits, and a pipeline that
  has ended has cancelled it — so that nothing is closed under a live session;
- `MutexInv`: a pipeline is inside the display package exactly when it holds
  `createMu`, which by `TypeOK` one connection holds at most.

`TypeStep` and the steps of `Inductive` go through the actions one by one; the
theorems follow from `IInv`. For `Implementation`, `LocalChange` says that a step
which changes the lease and ports of one connection at most changes the two
mapped functions at that point at most, and `LeaseStep` gives, action by action,
the step of `ClientLease` it is or shows that it changes nothing.

### MediaPipeline

For any `Sessions`, from `MediaAssumption` (one attempt at least, the bounds are
numbers, samples are of `SampleType`: any parameter sets, or none, and any NAL units):

| Theorem | Statement |
|---|---|
| `MediaTypeCorrect` | `Spec => []TypeOK` |
| `NothingFreedIsUsed` | `Spec => []NoUseAfterFree` |
| `BuffersAreReleased` | `Spec => []PixelBuffersReleased` |
| `CloseFlushes` | `Spec => []EveryUnitIsSent` |
| `MapsAreCleared` | `Spec => []EndedPipelineLeavesNoHandler` |

Its invariant adds to `TypeOK` and the properties themselves:

- `PhaseInv`: the state of stream, encoder and attempts at each place of the
  pipeline goroutine — it says that a context is freed only after the stream has
  stopped, and a session released only by `Close`;
- `HandlerInv`: the handler of a capture is in the map exactly from `Start` to
  `unregisterHandler`, and no handler of a failed attempt is — from it follows
  `EndedPipelineLeavesNoHandler`, and that a callback finds its handler while
  `StopCapture` still waits;
- `QueueInv`: a frame on the capture queue means that the stream has not been freed,
  or that the session is overdue — the fact that `NoUseAfterFree` and, with
  `PhaseInv`, `EveryUnitIsSent` rest on: nothing new is encoded once `Close` waits;
- `CountInv`: queued frames and wrapped buffers together are no more than the frames
  produced, so that no counter leaves its type;
- `OutputInv`: units are in the encoder until `Close` has completed them or the
  session is overdue, and whoever has filled `sAnnexBuf` has a unit to send;
- `EncoderInv`, `AnnexInv`: units are in a live encoder only, whose handler is therefore
  found, and without a clash the buffer holds the unit that is sent next;
- `OrderInv`: the units in the encoder are, in order, those it has produced and not yet
  sent, and without a clash what was sent are the ones before. `EveryUnitIsSent` alone is
  not inductive, because it does not see the units to come. `UnitsAdded` and `UnitMoved` say
  that a sample and a send keep it.

### AdbForwards

For any clients, ports and devices (at least one of each) and any number of failing
commands, from `AdbAssumption`:

| Theorem | Statement |
|---|---|
| `ForwardsTypeCorrect` | `Spec => []TypeOK` |
| `ForwardsGoWithTheirClient` | `Spec => []TornDownForwardsGone` |
| `ForwardsOfLiveClientsKept` | `Spec => LiveForwardsKept` |

`StartInv` and `PollInv` say who runs when; `HomeInv` that a live client's device is
attached; `KnownInv` that the watcher knows every device a client can have come through,
or has already been there in the poll that is on, so that `OnNew`, which clears the
forwards of a device, never meets a live client. `GoneInv` is what makes
`TornDownForwardsGone` inductive: it speaks of every device a teardown has already been
to, and names the client responsible for a forward that is still there: one that
listens, or one whose own teardown has still to come to that device. With ports that
are handed on from client to client, "some client has the port" would not be enough,
since that client's teardown may have passed the device.

### TcpVideo

For any frame lengths, buffer capacity, length limit and number of frames, from
`TcpAssumption`:

| Theorem | Statement |
|---|---|
| `StreamTypeCorrect` | `Spec => []TypeOK` |
| `FramesArriveIntact` | `Spec => []IntactBeforeCut` |

`WireInv` and `StreamInv` describe the bytes under way: units of a frame follow each
other, and the last one is followed by a length prefix, unless the frame derails the
receiver. `PlaceInv` says that the receiver is in place — at the prefix of the first frame
it has not delivered, or inside its body — or that some frame has derailed it, and then
it had delivered all complete frames before that one. Nothing is said of what it reads
from there on.

### UdpVideo

For any kinds of frames, packet size, number of fragment numbers and numbers of lost, copied
and reordered packets, from `UdpAssumption`:

| Theorem | Statement |
|---|---|
| `AssemblyTypeCorrect` | `Spec => []TypeOK` |
| `SubmissionsIntact` | `Spec => []SubmittedIntact` |
| `FramesDeliveredInOrder` | `Spec => []FifoDelivery` |
| `DropsAreCounted` | `Spec => []PartialFramesCounted` |

`SenderInv`, `NetworkInv` and `AssemblyInv` say that every packet is one of the packets of
its frame, and every fragment in the map a piece of the current frame at its own place.
`SplitFacts` is the algorithm: for every length and packet size, the payloads of
`splitIntoPackets` in the order of their indices, joined, are the frame, if its fragments
fit (`Fits`). The last two theorems are about networks that keep the order and runs in which
every frame fits (`Orderly`): `OrderInv` (what is under way is later than what has arrived),
`CurrentInv` (the map holds what has arrived of the current frame) and `DeliveryInv`.

What `FlattenSeq` makes of any number of pieces needs induction. The library's induction
theorems take an operator, which the provers cannot instantiate; `SetInduction` derives
induction for sets of numbers from the well-foundedness of `<`, and `Flattening` and
`PiecesJoin` use it.

### Gesture

For any finite set of pointers and any number of touches and fingers, from
`GestureAssumption`:

| Theorem | Statement |
|---|---|
| `RecognizerTypeCorrect` | `Spec => []TypeOK` |
| `NoClickLostOrDoubled` | `Spec => []EveryTapOwnsOneClick` |
| `TouchHasOneOutcome` | `Spec => []OneOutcomePerTouch` |
| `ButtonReleased` | `Spec => []ButtonUpAtRest` |

`QueueTypes` lists what can be left of the handler's calls (clicks, the start of a drag, and
what does not touch the left button). `OutcomeInv` says that a touch that is still a single
finger has no outcome yet, unless a callback of an earlier touch or a stray Up has given it
one, and that a touch whose callback waits, and was not overtaken, has none. `ButtonInv`
says that outside a drag, and without a Down that cut one off, every press has its release
behind it in a queue or in the pending click.

### VideoDecoder

For any stream, number of decoders and input buffers, queue depth and number of failing
feeds, from `DecoderAssumption`:

| Theorem | Statement |
|---|---|
| `DecoderTypeCorrect` | `Spec => []TypeOK` |
| `QueuesNeverBothWait` | `Spec => []NeverBothWait` |
| `NALsFedInOrder` | `Spec => FedInOrder` |
| `DecoderLagIsCapped` | `Spec => []LagIsCapped` |

`LockInv` and `Exclusion` tie `feedLock` to the places of the threads. `MeetInv` says that what
a thread saw when it polled under the lock is still so when it acts: the UI thread clears the
queues without the lock, which only makes them emptier. `BufferInv` accounts for every input
buffer, also those in the hands of a thread. `OrderInv` puts the NAL units of a decoder in a
row: fed, in the hand of its callback thread, in its queue, in the hand of the receiver.
`LagInv` counts the P-frames in the queue and the one that passed the check of the depth,
which is made outside the lock, and has still to be added.

### DisplayService

For any number of starts and events, from `ServiceAssumption`:

| Theorem | Statement |
|---|---|
| `ServiceTypeCorrect` | `Spec => []TypeOK` |
| `DestructionIsComplete` | `Spec => []DestroyStopsEverything` |
| `CrashIsExplained` | `Spec => []CrashNeedsInterruptedStart` |
| `LossIsNoticed` | `Spec => []LostConnectionIsCleanedUp` |

`StartInv` says that intents come in the order of the taps and that a connection in a field is
open. `HeldInv`: a socket is open only while a field has it, or after a later start took its
place, or when the destruction cut its start off. `EndInv`: from `onDestroy` on no intent comes
any more, whatever is under way (a coroutine, or a post that shows "connected") was cut off,
and a destroyed service has empty fields. `CalmInv` is for the crash: without a cleanup in
the middle of a start, and without a second start, every job that runs is in its field or
cancelled, a job that has still to begin finds its socket or is cancelled, and one that has
made its check finds its socket. `WatchInv` is for the
loss of a connection: somebody reads from the connection in the field, or will, or has posted
`disconnect`.

### What stays with TLC

Liveness under fairness: `HandshakeEnds`, `LeftClientIsReleased`, `ControlForwardRestored`,
`SendReturns`, `CompleteFramesArrive`, `HeldFingerResolves` and `QueueDrains`. They rest on
`ENABLED`, for which the prover has no rules. The same holds for
the deadlock check of `media` and for the three runs that find a violation. No theorem is
about key frames: what would be proved is not true of the code.

## Limits of the properties

- `PartialFramesCounted` bounds `dropCount` from below only. The code counts one
  drop too many for each frame of several packets that was submitted, because
  `fragments` is cleared and the sequence number stays (`DisplayService.kt:362`).
- `ButtonUpAtRest` says what may leave the button down: a Down during a drag, of a second
  finger or, with a lost Up, of the first one again. The state is then `twoDown` or
  `oneDown`, and no Up releases the button; the next tap or the end of the next drag does.
- `OneOutcomePerTouch` leaves out touches whose long-press callback waited until the next
  touch began: it then right-clicks at the place of its own touch, which may have been a tap
  or a drag (`gesture.go:135-142`). It leaves out touches with a stray Up, too, which make a
  tap while the finger stays down. TLC refutes it without either exclusion.
- `HeldFingerResolves` leaves out touches with a stray Up, which stops the timer.
- `EveryTapOwnsOneClick` counts a pending tap as a click still to come. A tap that is
  followed by a drag stays pending until the next tap.
- `LiveForwardsKept` names the three ways in which a live client's forward goes. One
  of them contradicts "each Android client only ever dials the port it was given …, so
  this is safe" (`main.go:56`): the teardown frees the port first and removes the forward
  by number later, and a client that was given the same port in between loses its own.
- `LeftClientIsReleased` leaves out the servers that `session_map` finds leaked, and is
  about clients that leave. "Tear down … once the pipeline ends" (`main.go:214`) is more
  than the code does: when the pipeline fails by itself, the teardown stops in
  `touch.Server.Stop` until the client closes its touch connection.
- Nothing is said of the cached SPS and PPS reaching a new decoder before the first IDR
  (`DisplayActivity.kt:138`): the decoder is published first, and an IDR that arrives
  between the two steps gets there before them.
- Nothing is said of key frames being self-contained. "For keyframes, always send SPS/PPS
  before the IDR slice … every keyframe must be self-contained for decoder recovery"
  (`encoder_bridge.m:64-66`) is more than the code does: parameter sets that cannot be read
  are skipped, and the slice is sent all the same. The model has these samples.
- `NoUseAfterFree` and `PixelBuffersReleased` leave out a capture callback that outlives
  the 100 ms of `StopCapture` (`capture_bridge.m:132`), and clashes in the Annex-B buffer;
  in both cases the model uses freed memory.
- `DestroyStopsEverything` leaves out starts whose fields a second start has overwritten
  and those that `onDestroy` itself interrupts: their sockets can stay open, and the
  statistics can start again after the destruction.
- `CrashNeedsInterruptedStart` does not say that the app never dies of `receiveLoop`'s
  IllegalStateException (`UdpReceiver.kt:67`). It does, when a cleanup comes between the
  connecting and the assignment of `receiveJob`, and when it comes between the check for
  the cancellation and the read of the socket, one line apart. The property says that there
  is no third way without a second start. No coroutine handler catches the exception: a
  cancelled job that throws something else than a CancellationException still reports it.
- `QueueDrains` ends its promise once as many feeds failed as the codec has buffers:
  each failure loses a buffer for good. The run has one failure and two buffers.
- `SubmittedIntact` leaves out frames whose number of fragments does not fit an uint16
  (`packet.go:125-126`), `FifoDelivery` and `PartialFramesCounted` runs with such a frame:
  the receiver takes them for shorter frames.

## Not modelled

- Touch event codec: a fixed layout of 34 bytes without state, tested on both ends.
- Input injection, mDNS and NSD discovery, and of the screens all but the hand-over of
  the connection: calls of system services without state of their own.
- What CGDisplayStream, VideoToolbox and the private display framework do inside: they
  appear as steps that succeed or fail, frames that come and units that are handed out.
- The queue of touch events on the tablet (`sendTouchEvent`, `touchChannel`): the server
  reads and discards touch events at present.
- The activity's callbacks in the service and its binding; more than one instance of the
  service.

## Plan

Done, in the order of importance: ServerSession with ClientLease as its abstract
specification, AdbForwards, UdpVideo, TcpVideo, VideoDecoder, Gesture, DisplayService,
MediaPipeline, and the proofs of the safety of all of them. What is left:

1. An abstract stream (frames delivered intact, in order, some missing) that UdpVideo
   on a network that keeps the order and TcpVideo on the track both implement, with the
   invariants above as the facts the refinements need.
2. Composition of ServerSession and TcpVideo: the connection stored after `Close`
   (`tcp.go:74`), and that frames are sent to no client but the pipeline's own.
3. Invariants for what *Limits of the properties* leaves out on purpose where the code
   may be changed: a capture callback that outlives the 100 ms, a start that a second
   one overwrites.
