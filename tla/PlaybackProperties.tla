------------------------- MODULE PlaybackProperties -------------------------
(* What must hold of the client's audio path. *)
EXTENDS Playback

AudioBuffer == [ref : Buffers, size : 0 .. Capacity, bytes : Seq(Nat)]

\* The variables have their types; no buffer is written past its capacity,
\* and no more of a packet is consumed than it has.
TypeOK ==
  /\ mInited \in BOOLEAN
  /\ rpc \in {"idle", "init", "change", "decode", "audio"}
  /\ rem \in 0 .. MaxPacket
  /\ output \in Seq(Nat) /\ decoded \in Nat
  /\ audioPending \in Seq(Seq(Nat))
  /\ started \in BOOLEAN
  /\ audioQueue \in Seq(AudioBuffer)
  /\ cb \in {"idle", "filling", "enqueue"}
  /\ locked \in BOOLEAN
  /\ inBuffer \in IF cb = "idle" THEN {None} ELSE AudioBuffer
  /\ lost \subseteq Buffers
  /\ played \in Seq(Nat)

QueuedAt(ref) == {k \in 1 .. Len(audioQueue) : audioQueue[k].ref = ref}

\* Each of the three buffers is in one place: once in the queue, or with the
\* callback, or with neither because a call failed or the queue is not there
\* yet.  There are no other buffers: one that went missing without a failure
\* would be missed for ever.
BuffersAccountedFor ==
  \A ref \in Buffers :
    Cardinality(QueuedAt(ref))
      + (IF cb # "idle" /\ inBuffer.ref = ref THEN 1 ELSE 0)
      + (IF ref \in lost THEN 1 ELSE 0) = 1

\* Where a buffer ends depends on the sizes of the pieces before it; still,
\* if the decoder's pieces, the silence and the capacity are whole frames, of
\* whatever size, so is what every buffer in the queue holds.
InFrames(n, frame) == \E k \in 0 .. n : n = k * frame
WholeFrames ==
  \A frame \in 1 .. Capacity :
    (\A size \in Samples \cup {Capacity, Silence} : InFrames(size, frame)) =>
      \A k \in 1 .. Len(audioQueue) : InFrames(audioQueue[k].size, frame)

\* The bytes on their way: in the callback's buffer, pending, or in the
\* decoder's output until the main thread has copied them.
Held == inBuffer.bytes \o FlattenSeq(audioPending)
          \o (IF rpc = "audio" THEN output ELSE <<>>)

\* Decoded bytes are played in order, each once, whatever the sizes of the
\* pieces and buffers.  Only a buffer that a failed call loses takes bytes
\* with it, and no more than its capacity.
Fifo == INSTANCE AudioFifo WITH held <- Held
PlaysInOrder == Fifo!Spec

\* The renderer's thread, which also reads the network, does not wait for
\* the main thread, or for the audio queue's, for ever.
RendererReturns == rpc # "idle" ~> rpc = "idle"

\* When the audio queue runs, every decoded byte leaves, also after an
\* underrun, unless all buffers are lost.
EverythingPlays ==
  \A k \in 0 .. MaxDecoded - 1 :
    (started /\ decoded > k) ~> (k \notin ToSet(Held) \/ lost = Buffers)
=============================================================================
