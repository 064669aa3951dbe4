------------------------------ MODULE Playback ------------------------------
(***************************************************************************)
(* The audio side of the client: from the packets the demuxer delivers to  *)
(* the buffers of the audio queue (clients/mac/AAC.cpp and View.mm; the    *)
(* slots that Renderer.cpp connects in between only pass the values on).   *)
(*                                                                         *)
(* Three threads take part.  The renderer's decodes a packet and hands     *)
(* each piece to the main thread with dispatch_sync, so it waits until the *)
(* main thread has run the block: rpc is where it is.  The main thread     *)
(* queues the pieces in audioPending.  The audio queue's own thread calls  *)
(* audioOutput with each buffer it has played: cb is where that call is.   *)
(*                                                                         *)
(* The decoder and the audio queue are external.  A byte of decoded audio  *)
(* is named by its number; a buffer's size counts silence too.             *)
(***************************************************************************)
EXTENDS Integers, FiniteSetsExt, SequencesExt

CONSTANTS
  Capacity,     \* mAudioDataBytesCapacity of every buffer
  Silence,      \* the 1000 bytes of an underrun
  Faults,       \* which calls may fail
  MaxPacket,    \* bound: bytes of a packet
  Samples,      \* bound: the sizes of what one call decodes
  MaxDecoded    \* bound: bytes decoded in a behaviour

FaultKinds == {"init", "newOutput", "allocate", "enqueue", "start"}

ASSUME CapacityAssumption == Capacity \in Nat \ {0} /\ Silence \in Nat
ASSUME FaultsAssumption == Faults \subseteq FaultKinds
ASSUME SamplesAssumption == /\ Samples \subseteq Nat
                            /\ MaxPacket \in Nat /\ MaxDecoded \in Nat

NumAudioBuffers == 3
Buffers == 1 .. NumAudioBuffers

VARIABLES
  mInited,       \* the decoder is initialised
  rpc,           \* "idle", "init", "decode"; waiting in "change", "audio"
  rem,           \* bytes of the packet that are left
  output,        \* the decoder's output buffer
  decoded,       \* history: how many bytes were decoded
  audioPending,
  started,       \* AudioQueueStart has succeeded
  audioQueue,    \* the buffers in the queue: [ref, size, bytes]
  cb,            \* "idle", "filling", "enqueue"
  locked,        \* audioMutex is held by the callback
  inBuffer,      \* the callback's buffer
  lost,          \* the buffers that neither of them has
  played         \* history: the bytes that went to the queue

renderer == <<mInited, rpc, rem, output, decoded>>
callback == <<cb, locked, inBuffer>>
device == <<started, audioQueue, lost, played>>
vars == <<renderer, audioPending, callback, device>>

None == [ref |-> 0, size |-> 0, bytes |-> <<>>]

MayFail(call, result) == result \/ call \in Faults

Init == /\ mInited = FALSE
        /\ rpc = "idle" /\ rem = 0 /\ output = <<>> /\ decoded = 0
        /\ audioPending = <<>>
        /\ started = FALSE /\ audioQueue = <<>>
        /\ cb = "idle" /\ locked = FALSE /\ inBuffer = None
        /\ lost = Buffers
        /\ played = <<>>

-----------------------------------------------------------------------------
(* Faulty variants of the definitions below, each a plausible mistake in   *)
(* the code; no specification uses them.                                   *)

\* forgets to cut off what was taken
RestKept(front, taken) == front
\* forgets what is in the buffer already
RoomOfWhole(buffer) == Capacity
\* leaves a byte free at the end of the buffer
CapacityButOne == Capacity - 1
\* has no buffer to give back after an underrun
UnderrunIdle == "idle"
\* returns with the mutex held
StillLocked == TRUE

-----------------------------------------------------------------------------
(* The renderer's thread: AAC::decode. *)

Packet == /\ rpc = "idle"
          /\ rem' \in 1 .. MaxPacket
          /\ rpc' = IF mInited THEN "decode" ELSE "init"
          /\ UNCHANGED <<mInited, output, decoded, audioPending, callback, device>>

InitDecoder ==
  /\ rpc = "init"
  /\ \E ok \in BOOLEAN :
       /\ MayFail("init", ok)
       /\ mInited' = ok
       /\ rpc' = IF ok THEN "change" ELSE "idle"
  /\ UNCHANGED <<rem, output, decoded, audioPending, callback, device>>

\* An error, or a call that consumes nothing: the rest of the packet goes.
GiveUp == /\ rpc = "decode"
          /\ rpc' = "idle"
          /\ UNCHANGED <<mInited, rem, output, decoded, audioPending,
                         callback, device>>

AfterSamples == IF rem = 0 THEN "idle" ELSE "decode"

Decode ==
  /\ rpc = "decode"
  /\ \E consumed \in 1 .. rem, count \in Samples :
       /\ decoded + count <= MaxDecoded
       /\ rem' = rem - consumed
       /\ output' = [k \in 1 .. count |-> decoded + k - 1]
       /\ decoded' = decoded + count
       /\ rpc' = IF count > 0 THEN "audio" ELSE AfterSamples'
  /\ UNCHANGED <<mInited, audioPending, callback, device>>

-----------------------------------------------------------------------------
(* The main thread. *)

mAudioDataBytesCapacity == Capacity
SilenceSize == Min({Silence, mAudioDataBytesCapacity})
Silent(ref) == [ref |-> ref, size |-> SilenceSize, bytes |-> <<>>]

\* The buffers in the order in which they are allocated, without some.
BufferOrders ==
  {s \in UNION {[1 .. n -> Buffers] : n \in 0 .. NumAudioBuffers} :
     \A j, k \in DOMAIN s : j < k => s[j] < s[k]}

\* The slot of audioChange.  The queue is new: the decoder reports its rate
\* once.  n buffers are allocated before a failure, those in enqueued reach
\* the queue.
AudioChange ==
  /\ rpc = "change"
  /\ \E n \in 0 .. NumAudioBuffers, enqueued \in BufferOrders, ok \in BOOLEAN :
       /\ n = 0 => {"newOutput", "allocate"} \cap Faults # {}
       /\ MayFail("allocate", n \in {0, NumAudioBuffers})
       /\ Range(enqueued) \subseteq 1 .. n
       /\ MayFail("enqueue", Len(enqueued) = n)
       /\ ok => n = NumAudioBuffers
       /\ n = NumAudioBuffers => MayFail("start", ok)
       /\ audioQueue' = [k \in 1 .. Len(enqueued) |-> Silent(enqueued[k])]
       /\ lost' = Buffers \ Range(enqueued)
       /\ started' = ok
  /\ rpc' = "decode"
  /\ UNCHANGED <<mInited, rem, output, decoded, audioPending, callback, played>>

\* The slot of audio.
Audio == /\ rpc = "audio"
         /\ ~locked
         /\ audioPending' = Append(audioPending, output)
         /\ rpc' = AfterSamples
         /\ UNCHANGED <<mInited, rem, output, decoded, callback, device>>

-----------------------------------------------------------------------------
(* The audio queue's thread: audioOutput. *)

Take(ref) == [ref |-> ref, size |-> 0, bytes |-> <<>>]
Underrun == "enqueue"

\* The queue has played its first buffer and calls audioOutput with it.
AudioOutput ==
  /\ cb = "idle"
  /\ started /\ audioQueue # <<>>
  /\ ~locked
  /\ audioQueue' = Tail(audioQueue)
  /\ locked' = TRUE
  /\ IF audioPending = <<>>
       THEN inBuffer' = Silent(Head(audioQueue).ref) /\ cb' = Underrun
       ELSE inBuffer' = Take(Head(audioQueue).ref) /\ cb' = "filling"
  /\ UNCHANGED <<renderer, audioPending, started, lost, played>>

Room(buffer) == mAudioDataBytesCapacity - buffer.size
Rest(front, taken) == SubSeq(front, taken + 1, Len(front))

\* A turn of the loop.
Fill ==
  /\ cb = "filling"
  /\ LET front == Head(audioPending)
         taken == Min({Len(front), Room(inBuffer)})
     IN  /\ inBuffer' = [inBuffer EXCEPT !.size = @ + taken,
                                         !.bytes = @ \o SubSeq(front, 1, taken)]
         /\ audioPending' =
              IF taken = Len(front) THEN Tail(audioPending)
              ELSE [audioPending EXCEPT ![1] = Rest(front, taken)]
  /\ cb' = IF audioPending' = <<>> \/ inBuffer'.size >= mAudioDataBytesCapacity
             THEN "enqueue" ELSE "filling"
  /\ UNCHANGED <<renderer, locked, device>>

Unlocked == FALSE

\* AudioQueueEnqueueBuffer, and the end of the callback.
Enqueue ==
  /\ cb = "enqueue"
  /\ \/ /\ audioQueue' = Append(audioQueue, inBuffer)
        /\ played' = played \o inBuffer.bytes
        /\ UNCHANGED lost
     \/ /\ "enqueue" \in Faults
        /\ lost' = lost \cup {inBuffer.ref}
        /\ UNCHANGED <<audioQueue, played>>
  /\ cb' = "idle"
  /\ locked' = Unlocked
  /\ inBuffer' = None
  /\ UNCHANGED <<renderer, audioPending, started>>

-----------------------------------------------------------------------------
Renderer == InitDecoder \/ GiveUp \/ Decode
Main == AudioChange \/ Audio
Queue == AudioOutput \/ Fill \/ Enqueue

Next == Packet \/ Renderer \/ Main \/ Queue

Spec == Init /\ [][Next]_vars

\* The main run loop runs the blocks it is given, the audio queue plays what
\* it has, and the renderer's thread goes on with a packet it has begun.  The
\* callback holds the mutex for moments between buffers that play for much
\* longer, so the main thread gets it in the end.
FairSpec == /\ Spec
            /\ WF_vars(Renderer)
            /\ WF_vars(AudioChange) /\ SF_vars(Audio)
            /\ WF_vars(Queue)
=============================================================================
