# hd60render: a TLA+ model

hd60render streams the output of an Elgato capture device over the network.
The program on Windows (`servers/win/VideoCaptureFilterSample`) runs a
DirectShow graph and sends the MPEG transport stream it captures to every TCP
client that connects.  The program on the Mac (`clients/mac`) connects,
demultiplexes the stream, decodes video with VideoToolbox and audio with faad2,
and shows and plays both.  This directory models the parts of both programs
that have state worth reasoning about, checks them with TLC on small instances,
and proves the main invariants with TLAPS.

Paths below are relative to the root of the repository.

## 1. The system

    capture device            Windows                           Mac
    DirectShow graph -> BufferCB -> ServerSocket  ==TCP==>  SocketClient (rct)
                                    send(), thread()             | readyRead
                                                             Demuxer::feed
                                                              ReadAV <-> TSDemux
                                                                 | info, pkt
                                                     Renderer <--+--> AAC::decode
                                                  H264Parser |          | samples
                                       VTDecompressionSession|          |
                                                 image ------+--> View <+
                                                     GLView         audioPending
                                                                    AudioQueue

| component | state | operations | runs on |
|---|---|---|---|
| `ServerSocket` | `mBuffer`, `mSocketBuffers`, `mStopped`, the lists `sockets` and `events` of the thread, Winsock's events and send buffers | `send`, `stop`, `thread` with `handleEvent` and `handleWrite` | `send`: the streaming thread; `stop`: the dialog's; the rest: its own |
| `Demuxer` | queue of buffers, `mBufferOffset`, `lastOffset`, `current`; the library's position | `feed`, `ReadAV` | the renderer's thread |
| `H264Parser` | `stream_`, `bytes_left_`, the bit reader | `SetStream`, `AdvanceToNextNALU` | the renderer's thread |
| `H264BitReader` | what is left of the NALU, the current byte, the two bytes before it | `ReadBits`, `NumBitsLeft` | the renderer's thread |
| `Renderer` | geometry, pids, decoder, format, current pts | slots of `info` and `pkt`, `createDecoder`, `handlePacket`; `decoded` | the renderer's thread; `decoded`: VideoToolbox's |
| `AAC` | the decoder handle, `mInited` | `decode` | the renderer's thread |
| `View` (audio) | audio queue, three buffers, `audioPending`, `audioMutex` | slots of `audioChange` and `audio`; `audioOutput` | blocks on the main thread; `audioOutput`: the audio queue's |
| `View` (images) | windows with texture and image, the slots connected to `image` | slots of `geometryChange` and `image` | blocks on the main thread |
| `ImageBuffer` | a pixel buffer and its retain count | construction, move assignment, destruction | `decoded`'s thread and the main thread |
| `Options`, `main`, `Log` | the options, the sinks | `parse`, `get`; `addSink` | before the threads start |
| capture dialog | the filter graph | `InitGraph`, `DestroyGraph`, `BufferCB` | dialog; `BufferCB`: streaming thread |

How they interact, and where it is hard:

* `ServerSocket::send` only appends and sets an event; the server thread sends.
  One offset in `mBuffer` is shared by all clients that keep up, and a client
  that does not gets its own copy in the middle of a write pass.  `send` runs
  between any two critical sections of the thread.  Clients come, block, read
  and go at any moment, handles are reused, and every Winsock call can fail.
* `Demuxer::feed` gets TCP's pieces, of any size; the library asks for packets at
  a position it moves itself, back as well as forward; buffers are dropped as
  soon as a read has gone past them.
* A packet of video may hold any number of NALUs, and the one that makes the
  decoder is read twice.
* A decoded image reaches the window through an asynchronous callback and a
  `dispatch_sync` per slot; every `geometryChange` adds a window and a slot, and
  all slots are offered the one image.  Its pts is read from a member that the
  renderer's thread overwrites.
* What a word of the command line means depends on the option before it, on
  `=`, on a `--` anywhere before, and on a leading `no-`.
* Audio passes through three threads, one `dispatch_sync` and one mutex, with
  pieces and buffers of unrelated sizes and three buffers that must never be
  dropped.

What makes each component correct:

* server: the lists stay parallel; every buffer ends with the newest byte; no
  client gets a byte twice or out of order; a client that keeps up gets every
  byte; nothing that was sent is forgotten while the thread sleeps; a client that
  leaves is forgotten; `stop` returns;
* demuxer: a read returns the bytes at the position asked for; the queue is
  what is left of the stream; `feed` returns and leaves no packet behind;
* parser and renderer: the NALUs are those of Annex B; the frame has all slices
  of the packet; the decoder gets the right parameter sets; the bit reader gives
  the payload without the emulation prevention bytes;
* images: each pixel buffer is retained once while somebody holds it and
  released once; no window comes to show an image that is not newer than all that
  are shown; the pts is never that of an earlier packet; the decoder's callback
  returns, and the renderer is not held for ever by the main thread or the decoder;
* command line: the options are what the line says when it is read as a whole;
  the client starts with the host and port it was given;
* audio: decoded bytes are played once, in order, all but those of a buffer that
  a failed call loses; no buffer is lost without a failure; the renderer's thread
  is never held for ever.

## 2. Modules

| module | models |
|---|---|
| `Winsock` | Winsock as `ServerSocket.cpp` uses it: connections, send buffers, network events, handle reuse (external) |
| `ServerSocket` | `ServerSocket.cpp`; extends `Winsock` |
| `StreamFanout` | abstract: what a fan-out of one stream promises its clients |
| `ServerSocketProperties` | the server's properties, and `ServerSocket` as an implementation of `StreamFanout` |
| `MCServerSocket` | symmetry for the runs |
| `ServerSocketProofs` | TLAPS proofs: types, lists, the stream |
| `ServerSocketWakeupProofs` | TLAPS proofs: no lost wakeup, nothing kept without clients |
| `ServerSocketRefinement` | TLAPS proofs: the server implements the lossy `StreamFanout`, and with a single client the lossless one |
| `Demuxer` | `Demuxer.cpp` and the reads of the TSDemux library (external) |
| `PacketFraming` | abstract: a stream in pieces, handed on in packets |
| `DemuxerProperties`, `DemuxerProofs` | its properties, the refinement, and TLAPS proofs |
| `BitReader` | `h264_bit_reader.cc`, as operators |
| `H264Parser` | the NALU-cutting part of `h264_parser.cc`, as operators; extends `BitReader` |
| `Renderer` | the video half of `Renderer.cpp`; extends `H264Parser` |
| `RendererProperties`, `MCRenderer` | Annex B on a whole packet as the reference; the packets of the run |
| `RendererProofs` | TLAPS proofs about `Renderer`, `H264Parser` and `BitReader` |
| `AudioFifo` | abstract: bytes come, are held, and are played in order; a buffer that is lost takes no more than it has room for |
| `Playback` | `AAC.cpp` and the audio half of `View.mm` |
| `PlaybackProperties` | its properties, and `Playback` as an implementation of `AudioFifo` |
| `PlaybackProofs` | TLAPS proofs |
| `VideoOutput` | the decoder's callback, `ImageBuffer`, and the image half of `View.mm` |
| `VideoOutputProperties` | its properties |
| `Options` | `Options.h`, one argument to a step, and its queries |
| `Client` | `main.cpp`: parses, gives up or starts; extends `Options` and `VideoOutput`, whose threads it starts |
| `ClientProperties`, `MCClient` | the command line read as a whole as the reference; the command lines of the run |
| `ClientProofs` | TLAPS proofs about `VideoOutput` as `Client` runs it, and about the command line |
| `SequenceLemmas` | TLAPS proofs of what three of the others need: induction over numbers, smallest and largest elements, cut, joined and flattened sequences |

Every component module ends its declarations with a section of *faulty
variants*: operators that no specification uses and that change one definition
of the module the way a plausible mistake in the code would.  Each property of
a passing run is violated by one of them.

### How the models correspond to the code

**Bytes.**  A byte is named by its position in the stream: what was given to
`send`, to `feed`, or what the decoder produced.  A buffer of consecutive bytes
is then a record of numbers: in `ServerSocket` `[base, size, offset]`, in
`Demuxer` `[at, size]`.  Repeated, lost and swapped bytes are visible, contents
are not.  Only `H264Parser` looks at contents, and there a byte is its value.

**`ServerSocket`.**  `main` is where `stop()` is, `pc` where the server thread
is.  `handleWrite` holds `mMutex` from `WriteBegin` to `WriteEnd`
(`pc = "writing"`) and writes to one client per step, because the peers read
between two sends; `Send` and `StopSet` are one step each and disabled
meanwhile.  An event is named by the socket it was created for.  The wakeup
event is `Dummy`.  Lists are 1-based: index `n` is `n - 1` in the code.  The
history variables `next` and `lost` record where each client is in the stream
and what it missed.  A failing `_ASSERT` and a use of `end()` stop the process,
as in the Debug build.  A constructor that fails leaves no thread and is not
modelled; nor is the destructor, which is `stop()`.

**`Demuxer`.**  `pc` is "idle" between two calls of `feed`, "skip", "copy" and
"return" inside `ReadAV`, "null", "data" and "packet" for what the library does
with the result.  One step is one turn of a loop.  `Disorder` says what the
library may find wrong: no sync byte at a position ("resync"; "noSync" when it
stops looking), or a malformed packet ("tsError"), after which `Shift` moves one
byte on from the packet's start.

**`Renderer`.**  `pc` is "parameters" and "frame" in the two loops over the
NALUs and "create" and "submit" after them.  `stream` is the parser's position.
The pids are one flag, the geometry another; every framework call may fail.  A
packet before the geometry is known is dropped, which changes nothing and is no
action.  `seen` and `ended` are history: the results of the loop.

**`Playback`.**  `rpc` is where the renderer's thread is in `AAC::decode`; in
"change" and "audio" it waits for the main thread (`dispatch_sync`).  `cb` is
where the audio queue's callback is; `locked` says that it holds `audioMutex`.
The main thread's blocks are one step each.  `held`, in the abstract
specification, is what is in the callback's buffer, then in `audioPending`, then
in the decoder's output: the refinement mapping says that these three together
are one queue.  The decoder reports a rate once (`mInited` is never reset), so
`audioChange` finds no older queue to tear down.  Its buffers are allocated in
the order of their numbers, and a failure stops there; a buffer that is not
enqueued at the start is lost for good.

**`BitReader`.**  A reader is a record of the class's members, an operation
gives the next reader.  The loop of `ReadBits` is a recursive function whose
domain bounds its turns; each turn loads one byte.  Bits that were read before
are shifted with the others and masked at the end, as in the code.

**`VideoOutput`.**  A frame is named by the number of the packet it came in, and
so is a pts.  `pc` is the renderer's thread: "geometry" waits for the main thread
in `mGeometryChange`, "submit" is in `handlePacket` after `mCurrentPts` was set,
and "decode" is in `VTDecompressionSessionDecodeFrame`, which it leaves when the
decoder has room.  What `handlePacket` does with the packet, and whether a frame
comes of it, is the subject of `Renderer`; here both outcomes are possible.
`Decoded` is the start of the decoder's callback: it reads `mCurrentPts` at that moment, which may
already be a later packet's.  `slot` and `calls` are the callback's place in
`image()`'s list of slots; a slot connected during the call may or may not be
called, since the code leaves that to the signal.  `ShowImage` is the block of
one slot on the main thread: the last window gets the image, and the image moved
out leaves the others an empty one (`NoTexture`), which is also what a failing
texture does.  `refs` is the retain count of each pixel buffer.  The decoder is
taken to call back in the order of submission and one call at a time, and to make
the submitter wait when it holds `InFlight` frames; the code neither asks for nor
handles anything else.

**`Options`, `Client`.**  An argument is a record: its text, how many dashes it
starts with, the name after them, whether there is a `=` and what stands after it.
Parsing it into these is what `strchr` and the pointer arithmetic of the
constructor do.  A step is one turn of the loop over `argv`.  `phase` is where
`main` is.  `StartThreads` drops what was parsed, since nothing reads it again.

## 3. Runs

| run | shows | bounds, and why they are enough |
|---|---|---|
| `server_two_clients` | types, aligned lists, no inherited buffer, buffers are suffixes, order, no lost wakeup, nothing kept without clients, and the lossy `StreamFanout` | two handles, three connections (one handle is reused), four bytes, a socket buffer of two: enough for one client to block while the other goes on, get a copy, have it truncated, leave in the middle and be replaced.  Handles are symmetric; the run has no liveness property |
| `server_one_client` | with a stream below the threshold and one client at a time, no byte is missed, the assertion holds, and the lossless `StreamFanout` is implemented, with two failing system calls | five bytes against a socket buffer of three, three connections in a row |
| `server_live` | everything buffered for a client is written, and a client that leaves is removed | two clients, fair scheduling |
| `server_faults` | `stop()` returns whatever two calls fail, also after a failed wait has misaligned the lists, and with more events than a wait takes (`MaxWaitEvents` is 3 here, 64 in Windows) | two clients make four events |
| `server_gap` | *violation*: a blocked client loses bytes when another client's write moves the shared offset | two clients |
| `server_truncate` | *violation*: truncation leaves `offset` past the end, and the assertion fails | one client |
| `server_disconnect` | *violation*: a failed send to a client without own buffer writes through `end()` | one client |
| `demuxer` | types, reads are right, the queue matches `lastOffset`, only the rewind assertion can fail, `feed` leaves no packet and returns, and `PacketFraming` is implemented | packets of 4 bytes in pieces of 1 to 6, 17 bytes, every disorder: a packet in one piece, in up to four, ending inside or at the end of one, and four packets in a row |
| `demuxer_assert` | *violation*: going back from a packet that ends a buffer fails `assert(pos >= lastOffset)` | one malformed packet |
| `renderer` | the parser's NALUs are those of the whole-packet reference, loops end where they must, frames have everything before the first damaged NALU but the parameter sets, a decoder is made only from the last SPS and PPS among these, and the bit reader gives the payload of every NALU | packets of up to four pieces out of nine: start codes of three and four bytes, every type the renderer looks at, a damaged header, single bytes, and the bytes of emulation prevention; read in pieces of 3 and of 11 bits, inside a byte and across two or three |
| `playback` | types, three buffers accounted for, whole frames, `AudioFifo` implemented, the renderer's thread returns, every byte leaves, played or with a lost buffer | capacity 4 and pieces of 0, 2 and 6 bytes: a piece fills part of a buffer, all of it, and more than one; 10 bytes; all failures |
| `client` | the options are what the line says as a whole, the client starts with the host and port it was given, types, the pts is not behind, pixel buffers are balanced, windows show images in order and none twice, every frame comes out and the renderer is not held for ever | command lines of up to four arguments out of thirteen of different shapes; four packets, two windows, two frames in the decoder: a window is made while an image is offered, a frame is replaced in a window, and the decoder is full |

`RendererProperties` and `ClientProperties` state what a
loop computes by a definition that sees the whole input at once: Annex B and the
payload on the whole packet, what the arguments say on the whole command line.  Both are
written with sets and not with loops of their own: a NALU of a packet is what
lies between one start code and the next, wherever they are; the value of an
option is what the last argument that says anything of it says.

Bounds are the constants `Max...` and `Samples`; `MaxFormats` in `Renderer` bounds
how many format descriptions a behaviour makes.  `CHECK_DEADLOCK FALSE` is said
where a program may stop: the server after `stop()` or a failed assertion, the
others when the bounded input is used up.

### What the violations mean

* `server_gap`, `server_truncate`, `server_disconnect`: three bugs of the write
  path.  The first loses bytes silently.  The others need a client slower than
  the stream, or one that disconnects just before a write.  The properties of
  the passing runs say what remains true in spite of them: bytes may be missed,
  never repeated or reordered.
* `demuxer_assert`: a malformed packet whose end is the end of a buffer stops
  the client.  On a stream in order no assertion can fail (proved).

Other disagreements met while modelling, which have no run of their own; no
property claims that they are right:

* `h264_parser.h:364` says that `kEOStream` is the end of the stream; the parser
  also returns it for an empty NALU in the middle of a packet
  (`h264_parser.cc:380`), and what follows is dropped.  `ScanComplete` says that the
  loop may end there, and nothing of what it reports.
* The list of rules in `Options.h` has no exceptions, the code has two.  `-hp=mac`
  sets `h` only, against rule 2 (line 113), as a comment at line 206 says it shall;
  `--no-v word` disables `v` at once and leaves the word to the standalones, against
  rule 5 (line 116).  `LineReadAsAWhole` does not claim the rules in these cases: it
  says that the parser, which sees one argument after another, agrees with a reading
  of the whole line that has the two exceptions.

Other things met while modelling:

* `main.cpp:30` narrows the port to 16 bits without a check: `--port=70000`
  connects to 4464.  `StartsWithWhatWasGiven` says what holds for ports that fit,
  and nothing of the others.
* `Renderer.cpp:291`: when the session cannot be created, `mVideoFormat` is kept,
  and overwritten without a release at the next packet that has both sets.
* `View.mm:278`: at 44.1 kHz the capacity of an audio buffer is 1102 bytes, no
  whole number of 4-byte frames.  `WholeFrames` is about capacities that are.

### Fairness

* `ServerSocket!FairSpec`: the server thread is scheduled, a peer that has unread
  bytes reads, and a thread that has called `stop()` goes on.  Nothing is
  assumed of `send`, of new connections, or of failures.
* `Demuxer!FairSpec`: a running call of `feed` goes on.  Nothing forces a call.
* `Playback!FairSpec`: the main run loop runs the blocks it is given, the audio
  queue plays what it has, and the renderer's thread goes on with a packet it
  has begun.  Strong fairness of `Audio` says that the main thread gets the mutex
  in the end: the callback holds it for a moment per buffer and the buffer plays
  for much longer.  No packet has to arrive.
* `Client!FairSpec`: `main` goes on, the renderer's thread returns from what it
  has begun when what it waits for is there, VideoToolbox calls back for the frames
  it was given, and the main run loop runs what is dispatched to it.  Its queue is
  first in, first out and each of the other threads has at most one block in it, so
  neither the block of a geometry nor that of an image is passed over for ever.  No
  packet has to arrive, and nothing is assumed of the decoding, which may fail.

## 4. Proofs

All theorems hold for every value of the constants that satisfies the assumptions
declared with them.

**Server** (`ServerSocketProofs`).

| theorem | says | assumes |
|---|---|---|
| `TypeCorrect` | `TypeOK` | |
| `ListsStayAligned` | `ListsAligned` | no wait fails ("poll" is not in `Faults`) |
| `NoBufferInherited` | `NoInheritedBuffer` | the same |
| `BuffersStaySuffixes` | `BuffersAreSuffixes` | |
| `BytesInOrder` | `InOrder` | the same as `ListsStayAligned` |

The assumption is needed: after a failed wait the code erases the wrong entry of
`sockets`, and the lists are no longer parallel.

None of these is inductive as it stands.  `TypeInv` adds that the two lists have
the same length, which keeps indices in range also when they are misaligned.
`EventInv` says which network events can be pending on what: without it a
`FD_CLOSE` could be handled for the listening socket.  `ListInv` adds what the
lists are before the thread starts.  `PassInv` ties `firstWritten` to the write
pass, and `SuffixInv` gives each buffer its end in the form in which a step
preserves it.  `OrderInv` is `InOrder` with the position at which a client will
read on once the pass has ended; it needs all of the others, because a client is
moved to a copy and back to the shared buffer by which keys there are.

**Demuxer** (`DemuxerProofs`).

| theorem | says | assumes |
|---|---|---|
| `DemuxerTypes` | `TypeOK` | |
| `ReadsAreRight` | `ReadReturns` | |
| `BuffersMatch` | `BuffersMatchOffset` | |
| `OnlyRewinds` | `OnlyRewindAsserts` | |
| `FeedTakesAll` | `NothingLeft` | |
| `NoAssertFails` | `AssertsHold` | `Disorder = {}` |
| `PacketsInOrder` | `FramesPackets`: `Spec` implements `PacketFraming!Spec` | |

They all follow from one invariant, `IInv`: the queue is a chain of adjacent
pieces that ends where `feed` is (`WindowInv`); the library's position is less
than a packet behind the end of the last read (`PlaceInv`), which is what rules
out every assertion but one; and in the loops of `ReadAV` the locals point at the
byte they should (`CursorInv`, `SkipInv`, `CopyInv`, `RemInv`), so that `current`
holds the right bytes at the end (`ResultInv`).  TLC checked it before it was
proved.  `NoAssertFails` adds `TidyInv`: without disorder the position is exactly
where the queue begins.  On the way `SkipStaysInFirst` shows that the skip loop
never leaves the first buffer: its other branch (`Demuxer.cpp:82-85`) is dead
code.

**Server, continued** (`ServerSocketWakeupProofs`, `ServerSocketRefinement`).

| theorem | says | assumes |
|---|---|---|
| `NothingIsKept` | `NothingKeptWithoutClients` | no wait fails |
| `NoWakeupLost` | `NoLostWakeup` | no wait fails and no network error is reported with an event ("poll", "netError" not in `Faults`) |
| `ServerImplementsFanout` | `LossyFanout`: `Spec` implements `StreamFanout!Spec` | no wait fails |

`NoLostWakeup` looks at the server only while it waits, so the invariant has to
say at every other moment who will see to a client with unsent bytes.  `WokenInv`
says: the socket is armed, or a FD_WRITE has been reported and its event is not
handled yet (`Owed`), or a pass that reaches the client is certain
(`PassComes`).  Handling an event turns the second into the third, and the pass
ends with the first or with nothing unsent.  `PlaceInv` (the scan never looks at
the wakeup event, a pass starts at the first client) and `KeptInv` (without
clients bytes are kept only until the thread is next woken) complete it.  The
assumption about network errors is needed: with an error in
the report of a FD_WRITE `handleEvent` returns `Failure` and does not write
(`ServerSocket.cpp:252`), and that wakeup is gone.
The refinement rests on `StreamInv` and `OrderInv` of `ServerSocketProofs`: a
send of new bytes is `Produce`, an accepted client `Join`s at the cursor of
`mBuffer`, one `send` that writes is `Deliver`, with what it skipped, and copies,
truncations and everything else are stutters.

**Server with one client** (`ServerSocketRefinement`).

| theorem | says | assumes |
|---|---|---|
| `NoAssertForOneClient` | `AssertHolds` | `OneClient` |
| `OneClientInSync` | `InSync` | `OneClient` |
| `OneClientMissesNothing` | `LosslessFanout`: `Spec` implements `StreamFanout!Spec` with `Lossless = TRUE` | `OneClient` |

`OneClient` says that there is one handle, that no wait fails, and that the
stream is not longer than `MaxThreshold`, so nothing is truncated.  It is the
situation of `server_one_client`, for every size of the stream and of the socket
buffer and any number of connections that follow one another; `server_gap` and
`server_truncate` show that neither the first nor the last condition can go.  The
invariant `OneInv` adds that there never is a copy of the buffer, that
`mBuffer.offset` is not past the end and only at it when nothing is kept, that
what a pass has written lies behind the offset, and that the client's place in
the stream is exactly where the buffer is (`ReadsOn`).

**Playback** (`PlaybackProofs`).

| theorem | says | assumes |
|---|---|---|
| `PlaybackTypes` | `TypeOK` | |
| `BuffersInOnePlace` | `BuffersAccountedFor` | |
| `FramesStayWhole` | `WholeFrames`, for frames of every size | (the capacity, the silence and the pieces are whole frames: part of the property) |
| `BytesPlayInOrder` | `PlaysInOrder`: `Spec` implements `AudioFifo!Spec` | |

One invariant, `PlaybackInv`: nothing calls back before the queue is started, and
that happens once, before which all buffers count as lost (`Control`); the loop of
the callback always has a piece to take and room for it (`Filling`), which keeps
sizes within the capacity; a buffer has no more bytes than its size says (`Fits`);
every buffer is in a place and in no second one, said without counting (`Places`), from
which `PlacesCount` counts; and everything on its way to a buffer is whole frames
(`AllWhole`, for every frame size): how much the loop takes is the smaller of two
multiples.

`BytesPlayInOrder` goes through the actions with the refinement mapping `Held`,
the concatenation of three sequences of which one is itself flattened.  Making the
queue is `Start`, decoding is `Come`, a buffer that is enqueued `Play`s, and one
that cannot be is `Drop`ped: it joins `lost`, and only its own bytes, no more than
its capacity by `Fits`, leave with it, so that dropping bytes while keeping the
buffer would be no step of `AudioFifo`.  A turn of the callback's loop is a stutter:
what it takes from the front of the first piece is what it puts at the end of the
buffer (`FillHolds`).

**Renderer** (`RendererProofs`).

| theorem | says | assumes |
|---|---|---|
| `RendererTypes` | `TypeOK`, with all NALUs inside the packet | |
| `ScanIsReference` | `SeenIsReference` | |
| `ScansAreComplete` | `ScanComplete` | |
| `FramesAreWhole` | `FrameHasEverySlice` | |
| `LastParametersWin` | `DecoderFromLastSets` | |
| `ReadersGivePayload` | `ReadsPayload` | |

They hold for packets of any length and any bytes.  `CodesApart` is the heart of
it: two start codes do not overlap, and when they touch, no zero byte before the
second belongs to it; so an end found by looking for the next code is the same
whether the search begins at the packet or after the last NALU.  From it follow
what `FindStartCode`, `LocateNALU` and `AdvanceToNextNALU` return, each by a lemma
about any packet and any place to begin (`FindFrom`, `LocateFrom`,
`AdvanceFrom`).  The invariant `Scanned` says that the NALUs returned are those of
the start codes before `stream`, in order, and that the ones after are still to
come; `EndedAtFirst` says why a loop has ended; `Slices` and `LastSets` say what
the two loops have kept.  The properties speak of the packet and not of the loop:
`ReachedIsSeen` says that what a loop that has ended returned is every NALU before
the first damaged one, and `KeptIsLast` the same of the parameter sets.  The header
of a NALU is read through `BitReader`:
`HeaderBits` proves that one bit and five bits after a skip of two are the
highest bit and the lowest five of the first byte, whatever the byte.

`ReadersGivePayload` is about pieces of 3 and of 11 bits, which stand for a read
inside a byte and one across two or three; NALUs may have any length and any
bytes.  `HasTaken` relates the reader to the payload: of the first `j` bytes it has
taken, `m` belong to the payload, the `j - m` others were counted as emulation
prevention bytes, and the two bytes it remembers tell whether the next is one
(`UpdateTakes`).  `IsAt` adds the bits left in the byte at hand, so that a reader
stands at one bit of the payload.  `ReadsPiece` says that a call takes it `w`
bits further and returns these, or fails when there are fewer: `PieceIs` proves
that the bytes shifted into `out` and cut to `w` bits are the number that these
bits make, for each place in a byte where a piece can begin.

**Client** (`ClientProofs`).

| theorem | says | assumes |
|---|---|---|
| `ClientTypes` | `TypeOK` of `VideoOutputProperties` | |
| `PtsStaysAhead` | `PtsNotBehind` | |
| `BuffersBalanced` | `ImagesBalanced` | |
| `NewestIsShown` | `ShownInOrder` | |
| `ParserReadsTheWhole` | `LineReadAsAWhole` | |
| `StartsAsTold` | `StartsWithWhatWasGiven` | |

The properties of `VideoOutput` hold in the client because `main` leaves its
variables alone and runs its steps (`ClientRunsVideo`).  `VideoInv` adds that frames are new when they are
submitted (`OldFrames`) and leave the decoder in order (`QueueSorted`,
`WindowsBehind`): so no two holders ever have the same frame, and a retain
or a release always concerns one frame that is held once.  `Windows` says that
there is a slot for each window: a block never finds none to draw in.
`WindowsBehind` is also what `NewestIsShown` needs: the image a callback holds is
newer than that of every window, replaced ones too, until a block moves it out.

The two about the command line hold for lines of any number of arguments of any
shape.  The parser remembers one option that may get its value from the next
word; the reference looks at the whole line.  `LineInv` bridges the two: after `n`
arguments the values are what the first `n` say (`SaidUpTo`), but for the option
of argument `n` when it waits, which is `hadopt` and is not set yet (`Pending`);
the standalones are `AloneUpTo(n)`.  Each action of the parser takes this from `n`
to `n + 1` (`TakesArgument`), and `SaidNext` and `AloneNext` say what one more
argument adds to the reference's side.  `MainInv` adds what `main` has read of them:
`find` gives what the line says last (`FoundIsGiven`), and the narrowing to 16
bits keeps every number that is a port (`NarrowKeepsPort`).

**Induction.**  The theorems about folds, smallest elements and flattened
sequences need induction.  `SequenceLemmas` gets it without a theorem over
operators: `LessWellFounded` says that `<` on the naturals is well-founded, so a
nonempty set of numbers has a smallest element (`SmallestOf`), and a set that
holds 0 and with each number the next holds all of them (`Induction`).  A property
of all numbers is proved by applying this to the set of those that have it.

What is only model-checked is every liveness property (`Progress`,
`ClosedClientsLeave`, `StopReturns`, `FeedReturns`, `RendererReturns`,
`EverythingPlays`, `NobodyWaitsForEver`): liveness under fairness and ENABLED are
out of the prover's reach.  That the pieces of other widths than 3 and 11 are
right is neither checked nor proved: `PieceIs` goes through the places in a byte one by
one, because the provers evaluate a power of two only when its exponent is a
literal.

## 5. Not modelled

* What `info()` and `pkt()` of the demuxer carry; `show_stream_info`, which
  nothing calls.
* Drawing, resizing and full screen in `View.mm`: OpenGL and Cocoa calls without
  state of their own.  The destructors of `View` and `Renderer`: `View::exec`
  does not return, so they do not run.
* The parsing functions of `H264Parser`, encrypted ranges and `HasMoreRBSPData`:
  the client uses none of them.
* `Log`, and the standalones' queries of `Options`.
* The capture dialog and `InitGraph`: straight-line DirectShow calls; the
  constructor's error paths in `ServerSocket`, after which there is no thread.
* faad2 and the Elgato headers (vendored); rct and demux-mpegts (submodules
  whose contents are not in the repository).  What the code relies on of them
  is part of the modules that use them.  faad2 makes up most of the
  repository's lines; the program's own are a few thousand.

## 6. Plan

Done, in this order, the most important behaviour first: 1 `ServerSocket`,
2 `Demuxer`, 3 `H264Parser` and `Renderer`, 4 `Playback`, 5 `VideoOutput`,
6 `Options` and `Client`, 7 `BitReader`, and the proofs of section 4.

What is left, should the project go on:

* Theorems: that `BufferToErase`, which `server_disconnect` violates, holds when no send fails.
* `EndToEnd`: `ServerSocket` and `Demuxer` joined by a TCP connection: what a
  client that joins in the middle of a packet, or misses bytes, does to the
  packets it gets.
* `CaptureGraph`: start and stop of the graph against `BufferCB` and
  `ServerSocket::stop`.
* A stream whose geometry or parameter sets change: today the decoder is made
  once, and no document says what should happen.
