--------------------------- MODULE PlaybackProofs ---------------------------
(***************************************************************************)
(* Proofs about the audio path: the types, that no buffer is lost or used  *)
(* twice, and that buffers hold whole frames if the pieces do, for every   *)
(* capacity, every size of the pieces and any failing calls.               *)
(*                                                                         *)
(* What the invariant adds: the callback does not run before the queue is  *)
(* started, and the queue is made once, when the decoder is initialised    *)
(* (Control); while the callback fills a buffer something is pending       *)
(* (Filling), and its buffer has no more bytes than its size says (Fits);  *)
(* and that a queued buffer is whole frames rests on the same of every     *)
(* piece on its way there (AllWhole).                                      *)
(***************************************************************************)
EXTENDS PlaybackProperties, FiniteSetTheorems, SequenceLemmas

Queued == 1 .. Len(audioQueue)
Pending == 1 .. Len(audioPending)

\* The queue is made once, by the packet that initialises the decoder, and
\* nothing calls back before.
Control == /\ rpc = "init" => ~mInited
           /\ rpc \in {"change", "decode", "audio"} => mInited
           /\ rpc = "change" \/ ~mInited =>
                ~started /\ cb = "idle" /\ lost = Buffers

\* The loop of the callback has something to take and room for it.
Filling == cb = "filling" => audioPending # <<>> /\ inBuffer.size < Capacity

\* The size of the callback's buffer counts the bytes it has taken.
Fits == Len(inBuffer.bytes) <= inBuffer.size

\* Where each buffer is, without counting.
Places ==
  /\ \A j, k \in Queued : audioQueue[j].ref = audioQueue[k].ref => j = k
  /\ \A k \in Queued : audioQueue[k].ref \notin lost
  /\ cb # "idle" => /\ inBuffer.ref \notin lost
                    /\ \A k \in Queued : audioQueue[k].ref # inBuffer.ref
  /\ \A ref \in Buffers : \/ \E k \in Queued : audioQueue[k].ref = ref
                          \/ cb # "idle" /\ inBuffer.ref = ref
                          \/ ref \in lost


GivenWhole(frame) ==
  \A size \in Samples \cup {Capacity, Silence} : InFrames(size, frame)

\* What is on its way is whole frames, in all its pieces.
Whole(frame) == GivenWhole(frame) =>
                  /\ \A k \in Queued : InFrames(audioQueue[k].size, frame)
                  /\ InFrames(inBuffer.size, frame)
                  /\ \A k \in Pending : InFrames(Len(audioPending[k]), frame)
                  /\ InFrames(Len(output), frame)

AllWhole == \A frame \in 1 .. Capacity : Whole(frame)

PlaybackInv == TypeOK /\ Control /\ Filling /\ Fits /\ Places /\ AllWhole

-----------------------------------------------------------------------------
(* Facts about numbers. *)

\* The smaller of two numbers.
LEMMA MinOfTwo ==
  ASSUME NEW m \in Nat, NEW n \in Nat
  PROVE  /\ Min({m, n}) = IF m <= n THEN m ELSE n
         /\ Min({m, n}) \in Nat
<1>1. CASE m <= n
  <2>1. m \in {m, n} /\ \A y \in {m, n} : m =< y
    BY <1>1
  <2>2. \A x \in {m, n} : (\A y \in {m, n} : x =< y) => x = m
    BY <1>1
  <2> QED BY <2>1, <2>2, <1>1 DEF Min
<1>2. CASE ~(m <= n)
  <2>1. n \in {m, n} /\ \A y \in {m, n} : n =< y
    BY <1>2
  <2>2. \A x \in {m, n} : (\A y \in {m, n} : x =< y) => x = n
    BY <1>2
  <2> QED BY <2>1, <2>2, <1>2 DEF Min
<1> QED BY <1>1, <1>2

\* A multiple of a frame's size is at least as many bytes as frames.
LEMMA Product ==
  ASSUME NEW a \in Nat, NEW frame \in Nat \ {0}
  PROVE  a * frame \in Nat /\ a <= a * frame
<1>1. a * (frame - 1) \in Nat
  OBVIOUS
<1>2. a * frame = a * (frame - 1) + a
  OBVIOUS
<1> QED BY <1>1, <1>2

LEMMA Multiple ==
  ASSUME NEW a \in Nat, NEW frame \in Nat \ {0}
  PROVE  InFrames(a * frame, frame)
BY Product DEF InFrames

\* Whole frames stay whole when they are joined or cut.
LEMMA WholeSum ==
  ASSUME NEW frame \in 1 .. Capacity, NEW m \in Nat, NEW n \in Nat,
         InFrames(m, frame), InFrames(n, frame)
  PROVE  InFrames(m + n, frame) /\ (n <= m => InFrames(m - n, frame))
<1>0. frame \in Nat \ {0}
  BY CapacityAssumption
<1>1. PICK j \in Nat : m = j * frame
  BY DEF InFrames
<1>2. PICK k \in Nat : n = k * frame
  BY DEF InFrames
<1>3. InFrames(m + n, frame)
  <2>1. m + n = (j + k) * frame /\ j + k \in Nat
    BY <1>0, <1>1, <1>2
  <2> QED BY <1>0, <2>1, Multiple
<1>4. ASSUME n <= m PROVE InFrames(m - n, frame)
  <2>1. CASE k <= j
    <3>1. j - k \in Nat /\ m - n = (j - k) * frame
      BY <1>0, <1>1, <1>2, <2>1
    <3> QED BY <1>0, <3>1, Multiple
  <2>2. CASE j < k
    <3>1. k - j \in Nat /\ n - m = (k - j) * frame
      BY <1>0, <1>1, <1>2, <2>2
    <3>2. k - j <= n - m
      BY <1>0, <3>1, Product
    <3> QED BY <1>4, <2>2, <3>2
  <2> QED BY <2>1, <2>2
<1> QED BY <1>3, <1>4

LEMMA SilenceFits ==
  /\ SilenceSize \in 0 .. Capacity
  /\ \A frame : GivenWhole(frame) => InFrames(SilenceSize, frame)
<1>1. Capacity \in Nat /\ Silence \in Nat
  BY CapacityAssumption
<1>2. SilenceSize = IF Silence <= Capacity THEN Silence ELSE Capacity
  BY <1>1, MinOfTwo DEF SilenceSize, mAudioDataBytesCapacity
<1>3. \A frame : GivenWhole(frame) =>
        InFrames(Silence, frame) /\ InFrames(Capacity, frame)
  BY DEF GivenWhole
<1> QED BY <1>1, <1>2, <1>3

LEMMA SilentIsBuffer ==
  ASSUME NEW ref \in Buffers
  PROVE  /\ Silent(ref) \in AudioBuffer /\ Take(ref) \in AudioBuffer
         /\ Silent(ref).ref = ref /\ Take(ref).ref = ref
         /\ Silent(ref).size = SilenceSize /\ Take(ref).size = 0
         /\ Silent(ref).bytes = <<>> /\ Take(ref).bytes = <<>>
<1>1. 0 \in 0 .. Capacity /\ <<>> \in Seq(Nat)
  BY CapacityAssumption
<1> QED BY <1>1, SilenceFits DEF Silent, Take, AudioBuffer

-----------------------------------------------------------------------------
LEMMA InitInv == Init => PlaybackInv
<1> SUFFICES ASSUME Init PROVE PlaybackInv
  OBVIOUS
<1> USE DEF Init
<1>1. TypeOK
  <2>1. <<>> \in Seq(Nat) /\ <<>> \in Seq(Seq(Nat)) /\ <<>> \in Seq(AudioBuffer)
    OBVIOUS
  <2>2. 0 \in 0 .. MaxPacket
    BY SamplesAssumption
  <2> QED BY <2>1, <2>2 DEF TypeOK
<1>2. Control /\ Filling /\ Fits
  BY DEF Control, Filling, Fits, None
<1>3. Places
  BY DEF Places, Queued
<1>4. AllWhole
  <2>1. \A frame \in 1 .. Capacity : 0 = 0 * frame
    BY CapacityAssumption
  <2> QED BY <2>1 DEF AllWhole, Whole, Queued, Pending, InFrames, None
<1> QED BY <1>1, <1>2, <1>3, <1>4 DEF PlaybackInv

-----------------------------------------------------------------------------
(* What the steps do, in the terms of the invariant. *)

\* A packet's bytes, and what the decoder makes of them.
LEMMA DecodeStep ==
  ASSUME TypeOK, Decode
  PROVE  /\ rem' \in 0 .. MaxPacket /\ decoded' \in Nat
         /\ output' \in Seq(Nat) /\ Len(output') \in Samples
<1>1. rem \in 0 .. MaxPacket /\ decoded \in Nat /\ MaxPacket \in Nat
      /\ Samples \subseteq Nat
  BY SamplesAssumption DEF TypeOK
<1>2. PICK consumed \in 1 .. rem, count \in Samples :
        /\ rem' = rem - consumed
        /\ output' = [k \in 1 .. count |-> decoded + k - 1]
        /\ decoded' = decoded + count
  BY DEF Decode
<1>3. count \in Nat /\ consumed \in Nat /\ consumed <= rem
  BY <1>1, <1>2
<1>4. rem' \in 0 .. MaxPacket /\ decoded' \in Nat
  BY <1>1, <1>2, <1>3
<1>5. output' \in [1 .. count -> Nat]
  BY <1>1, <1>2, <1>3
<1>6. output' \in Seq(Nat) /\ Len(output') = count
  BY <1>3, <1>5
<1> QED BY <1>4, <1>6, <1>2

\* One turn of the loop takes the front piece or a part of it, and what fits.
LEMMA FillStep ==
  ASSUME TypeOK, Filling, Fits, Fill
  PROVE  /\ inBuffer' \in AudioBuffer /\ inBuffer'.ref = inBuffer.ref
         /\ Fits'
         /\ audioPending' \in Seq(Seq(Nat))
         /\ cb' = "filling" => audioPending' # <<>> /\ inBuffer'.size < Capacity
         /\ cb' \in {"filling", "enqueue"}
         /\ \A frame \in 1 .. Capacity :
              Whole(frame) /\ GivenWhole(frame) =>
                /\ InFrames(inBuffer'.size, frame)
                /\ \A k \in 1 .. Len(audioPending') :
                     InFrames(Len(audioPending'[k]), frame)
<1> DEFINE front == Head(audioPending)
           room == Capacity - inBuffer.size
           taken == Min({Len(front), Room(inBuffer)})
<1>1. /\ cb = "filling" /\ inBuffer \in AudioBuffer /\ inBuffer.size < Capacity
      /\ audioPending \in Seq(Seq(Nat)) /\ Len(audioPending) > 0
  BY DEF Fill, Filling, TypeOK
<1>2. front \in Seq(Nat) /\ front = audioPending[1]
  BY <1>1
<1>3. /\ inBuffer.size \in Nat /\ inBuffer.bytes \in Seq(Nat)
      /\ inBuffer.ref \in Buffers /\ Capacity \in Nat
      /\ room \in Nat /\ Room(inBuffer) = room /\ Len(front) \in Nat
  BY <1>1, <1>2, CapacityAssumption DEF AudioBuffer, Room, mAudioDataBytesCapacity
<1>4. /\ taken \in Nat /\ taken <= Len(front) /\ taken <= room
      /\ taken = Len(front) \/ taken = room
  BY SMTT(30), <1>3, MinOfTwo
<1>5. /\ inBuffer' = [inBuffer EXCEPT !.size = inBuffer.size + taken,
                         !.bytes = inBuffer.bytes \o SubSeq(front, 1, taken)]
      /\ audioPending' = IF taken = Len(front) THEN Tail(audioPending)
                         ELSE [audioPending EXCEPT ![1] = Rest(front, taken)]
      /\ cb' = IF audioPending' = <<>> \/ inBuffer'.size >= Capacity
                 THEN "enqueue" ELSE "filling"
  BY DEF Fill, mAudioDataBytesCapacity
<1> HIDE DEF front, room, taken
<1>6. SubSeq(front, 1, taken) \in Seq(Nat) /\ Len(SubSeq(front, 1, taken)) = taken
  BY <1>2, <1>4
<1>7. inBuffer.bytes \o SubSeq(front, 1, taken) \in Seq(Nat)
  BY <1>3, <1>6
<1>8. inBuffer.size + taken \in 0 .. Capacity
  BY <1>3, <1>4 DEF room
<1>9. inBuffer' \in AudioBuffer /\ inBuffer'.ref = inBuffer.ref
      /\ inBuffer'.size = inBuffer.size + taken
  BY <1>1, <1>5, <1>7, <1>8 DEF AudioBuffer
<1>10. Rest(front, taken) \in Seq(Nat)
       /\ Len(Rest(front, taken)) = Len(front) - taken
  <2>1. SubSeq(front, taken + 1, Len(front)) \in Seq(Nat)
        /\ Len(SubSeq(front, taken + 1, Len(front))) = Len(front) - taken
    BY <1>2, <1>3, <1>4
  <2> QED BY <2>1 DEF Rest
<1>11. audioPending' \in Seq(Seq(Nat))
  BY <1>1, <1>5, <1>10
<1>12. /\ cb' = "filling" => audioPending' # <<>> /\ inBuffer'.size < Capacity
       /\ cb' \in {"filling", "enqueue"}
  <2>1. inBuffer'.size \in Nat
    BY <1>8, <1>9
  <2> QED BY <1>3, <1>5, <2>1
<1>13. ASSUME NEW frame \in 1 .. Capacity, Whole(frame), GivenWhole(frame)
       PROVE  /\ InFrames(inBuffer'.size, frame)
              /\ \A k \in 1 .. Len(audioPending') :
                   InFrames(Len(audioPending'[k]), frame)
  <2>1. /\ InFrames(inBuffer.size, frame) /\ InFrames(Capacity, frame)
        /\ \A k \in Pending : InFrames(Len(audioPending[k]), frame)
    BY <1>13 DEF Whole, GivenWhole
  <2>2. InFrames(Len(front), frame)
    BY <1>1, <1>2, <2>1 DEF Pending
  <2>3. InFrames(room, frame)
    <3>1. inBuffer.size <= Capacity
      BY <1>1, <1>3 DEF AudioBuffer
    <3> QED BY <1>3, <2>1, <3>1, WholeSum DEF room
  <2>4. InFrames(taken, frame)
    BY <1>4, <2>2, <2>3
  <2>5. InFrames(inBuffer'.size, frame)
    BY <1>3, <1>4, <1>9, <2>1, <2>4, WholeSum
  <2>6. InFrames(Len(Rest(front, taken)), frame)
    BY <1>3, <1>4, <1>10, <2>2, <2>4, WholeSum
  <2>7. CASE taken = Len(front)
    <3>1. audioPending' = Tail(audioPending)
      BY <1>5, <2>7
    <3>2. ASSUME NEW k \in 1 .. Len(audioPending')
          PROVE  k + 1 \in Pending /\ audioPending'[k] = audioPending[k + 1]
      BY <1>1, <3>1 DEF Pending
    <3> QED BY <2>1, <2>5, <3>2
  <2>8. CASE taken # Len(front)
    <3>1. audioPending' = [audioPending EXCEPT ![1] = Rest(front, taken)]
      BY <1>5, <2>8
    <3>2. ASSUME NEW k \in 1 .. Len(audioPending')
          PROVE  /\ k \in Pending
                 /\ audioPending'[k] = IF k = 1 THEN Rest(front, taken)
                                       ELSE audioPending[k]
      BY <1>1, <3>1 DEF Pending
    <3> QED BY <2>1, <2>5, <2>6, <3>2
  <2> QED BY <2>7, <2>8
<1>14. Fits'
  <2>1. Len(inBuffer'.bytes) = Len(inBuffer.bytes) + taken
    BY <1>1, <1>3, <1>5, <1>6 DEF AudioBuffer
  <2>2. Len(inBuffer.bytes) <= inBuffer.size /\ Len(inBuffer.bytes) \in Nat
    BY <1>3 DEF Fits
  <2> QED BY <1>3, <1>4, <1>9, <2>1, <2>2 DEF Fits
<1> QED BY <1>9, <1>11, <1>12, <1>13, <1>14

\* The slot of audioChange makes a queue of silent buffers.
LEMMA ChangeStep ==
  ASSUME AudioChange
  PROVE  /\ audioQueue' \in Seq(AudioBuffer)
         /\ \A k \in 1 .. Len(audioQueue') : audioQueue'[k].size = SilenceSize
         /\ \A j, k \in 1 .. Len(audioQueue') :
              audioQueue'[j].ref = audioQueue'[k].ref => j = k
         /\ \A k \in 1 .. Len(audioQueue') : audioQueue'[k].ref \notin lost'
         /\ \A ref \in Buffers \ lost' :
              \E k \in 1 .. Len(audioQueue') : audioQueue'[k].ref = ref
         /\ lost' \subseteq Buffers /\ started' \in BOOLEAN
<1>1. PICK n \in 0 .. NumAudioBuffers, enqueued \in BufferOrders, ok \in BOOLEAN :
        /\ audioQueue' = [k \in 1 .. Len(enqueued) |-> Silent(enqueued[k])]
        /\ lost' = Buffers \ Range(enqueued)
        /\ started' = ok
  BY DEF AudioChange
<1>2. PICK m \in 0 .. NumAudioBuffers : enqueued \in [1 .. m -> Buffers]
  BY DEF BufferOrders
<1>3. m \in Nat /\ Len(enqueued) = m /\ DOMAIN enqueued = 1 .. m
  BY <1>2 DEF NumAudioBuffers
<1>4. \A j, k \in 1 .. m : j < k => enqueued[j] < enqueued[k]
  BY <1>3 DEF BufferOrders
<1>5. \A k \in 1 .. m : enqueued[k] \in Buffers
  BY <1>2
<1>6. \A j, k \in 1 .. m : enqueued[j] = enqueued[k] => j = k
  <2> SUFFICES ASSUME NEW j \in 1 .. m, NEW k \in 1 .. m, enqueued[j] = enqueued[k]
               PROVE  j = k
    OBVIOUS
  <2>1. enqueued[j] \in Nat /\ enqueued[k] \in Nat
    BY <1>5 DEF Buffers, NumAudioBuffers
  <2>2. ~(j < k) /\ ~(k < j)
    BY <1>4, <2>1
  <2> QED BY <1>3, <2>2
<1>7. /\ audioQueue' \in [1 .. m -> AudioBuffer]
      /\ \A k \in 1 .. m : /\ audioQueue'[k].ref = enqueued[k]
                           /\ audioQueue'[k].size = SilenceSize
  BY <1>1, <1>3, <1>5, SilentIsBuffer
<1>8. audioQueue' \in Seq(AudioBuffer) /\ Len(audioQueue') = m
  BY <1>3, <1>7
<1>9. \A ref : ref \in Range(enqueued) <=> \E k \in 1 .. m : enqueued[k] = ref
  BY <1>3 DEF Range
<1>10. lost' \subseteq Buffers /\ started' \in BOOLEAN
  BY <1>1
<1>11. \A k \in 1 .. m : audioQueue'[k].ref \notin lost'
  BY <1>1, <1>7, <1>9
<1>12. ASSUME NEW ref \in Buffers \ lost'
       PROVE  \E k \in 1 .. m : audioQueue'[k].ref = ref
  <2>1. ref \in Range(enqueued)
    BY <1>1
  <2>2. PICK k \in 1 .. m : enqueued[k] = ref
    BY <1>9, <2>1
  <2>3. audioQueue'[k].ref = ref
    BY <1>7, <2>2
  <2> QED BY <2>3
<1>13. \A j, k \in 1 .. m : audioQueue'[j].ref = audioQueue'[k].ref => j = k
  BY <1>6, <1>7
<1>14. \A k \in 1 .. m : audioQueue'[k].size = SilenceSize
  BY <1>7
<1> QED BY <1>8, <1>10, <1>11, <1>12, <1>13, <1>14

\* The first buffer leaves the queue for the callback.
LEMMA OutputStep ==
  ASSUME TypeOK, AudioOutput
  PROVE  /\ inBuffer' \in AudioBuffer /\ inBuffer'.ref = audioQueue[1].ref
         /\ inBuffer'.bytes = <<>>
         /\ audioQueue' \in Seq(AudioBuffer)
         /\ 1 \in Queued /\ Len(audioQueue') = Len(audioQueue) - 1
         /\ \A k \in 1 .. Len(audioQueue') :
              k + 1 \in Queued /\ audioQueue'[k] = audioQueue[k + 1]
         /\ \/ cb' = "enqueue" /\ inBuffer'.size = SilenceSize
            \/ cb' = "filling" /\ inBuffer'.size = 0 /\ audioPending # <<>>
<1>1. /\ audioQueue \in Seq(AudioBuffer) /\ audioQueue # <<>>
      /\ audioQueue' = Tail(audioQueue)
      /\ Head(audioQueue) = audioQueue[1]
      /\ Len(audioQueue) > 0
  BY DEF TypeOK, AudioOutput
<1>2. audioQueue[1].ref \in Buffers
  <2>1. audioQueue[1] \in AudioBuffer
    BY <1>1
  <2> QED BY <2>1 DEF AudioBuffer
<1>3. \/ /\ inBuffer' = Silent(audioQueue[1].ref)
         /\ cb' = "enqueue"
      \/ /\ inBuffer' = Take(audioQueue[1].ref)
         /\ cb' = "filling" /\ audioPending # <<>>
  BY <1>1 DEF AudioOutput, Underrun
<1>4. /\ inBuffer' \in AudioBuffer /\ inBuffer'.ref = audioQueue[1].ref
      /\ inBuffer'.bytes = <<>>
      /\ \/ cb' = "enqueue" /\ inBuffer'.size = SilenceSize
         \/ cb' = "filling" /\ inBuffer'.size = 0 /\ audioPending # <<>>
  BY <1>2, <1>3, SilentIsBuffer
<1>5. /\ audioQueue' \in Seq(AudioBuffer)
      /\ 1 \in Queued /\ Len(audioQueue') = Len(audioQueue) - 1
      /\ \A k \in 1 .. Len(audioQueue') :
           k + 1 \in Queued /\ audioQueue'[k] = audioQueue[k + 1]
  BY <1>1 DEF Queued
<1> QED BY <1>4, <1>5

\* The callback's buffer goes to the end of the queue, or is lost.
LEMMA EnqueueStep ==
  ASSUME TypeOK, Enqueue
  PROVE  /\ inBuffer \in AudioBuffer /\ cb = "enqueue"
         /\ played' \in Seq(Nat)
         /\ audioQueue' \in Seq(AudioBuffer)
         /\ \/ /\ lost' = lost
               /\ Len(audioQueue') = Len(audioQueue) + 1
               /\ \A k \in 1 .. Len(audioQueue') :
                    audioQueue'[k] = IF k \in Queued THEN audioQueue[k] ELSE inBuffer
            \/ lost' = lost \cup {inBuffer.ref} /\ audioQueue' = audioQueue
<1>1. /\ inBuffer \in AudioBuffer /\ cb = "enqueue"
      /\ played \in Seq(Nat) /\ audioQueue \in Seq(AudioBuffer)
  BY DEF TypeOK, Enqueue
<1>2. inBuffer.bytes \in Seq(Nat)
  BY <1>1 DEF AudioBuffer
<1>3. CASE /\ audioQueue' = Append(audioQueue, inBuffer)
           /\ played' = played \o inBuffer.bytes
           /\ lost' = lost
  <2>1. played' \in Seq(Nat)
    BY <1>1, <1>2, <1>3
  <2>2. /\ audioQueue' \in Seq(AudioBuffer)
        /\ Len(audioQueue') = Len(audioQueue) + 1
        /\ \A k \in 1 .. Len(audioQueue') :
             audioQueue'[k] = IF k \in Queued THEN audioQueue[k] ELSE inBuffer
    BY <1>1, <1>3 DEF Queued
  <2> QED BY <1>1, <1>3, <2>1, <2>2
<1>4. CASE /\ lost' = lost \cup {inBuffer.ref}
           /\ audioQueue' = audioQueue /\ played' = played
  BY <1>1, <1>4
<1> QED BY <1>3, <1>4 DEF Enqueue

-----------------------------------------------------------------------------
(* The invariant is inductive. *)

LEMMA TypeStep ==
  ASSUME TypeOK, Filling, Fits, Next
  PROVE  TypeOK'
<1> DEFINE RendererTypes == /\ mInited \in BOOLEAN
                            /\ rpc \in {"idle", "init", "change", "decode", "audio"}
                            /\ rem \in 0 .. MaxPacket
                            /\ output \in Seq(Nat) /\ decoded \in Nat
           CallbackTypes == /\ cb \in {"idle", "filling", "enqueue"}
                            /\ locked \in BOOLEAN
                            /\ inBuffer \in IF cb = "idle" THEN {None} ELSE AudioBuffer
           DeviceTypes == /\ started \in BOOLEAN
                          /\ audioQueue \in Seq(AudioBuffer)
                          /\ lost \subseteq Buffers
                          /\ played \in Seq(Nat)
<1>1. /\ RendererTypes /\ CallbackTypes /\ DeviceTypes
      /\ audioPending \in Seq(Seq(Nat))
  BY DEF TypeOK
<1>2. SUFFICES /\ RendererTypes' /\ CallbackTypes' /\ DeviceTypes'
               /\ (audioPending \in Seq(Seq(Nat)))'
  BY DEF TypeOK
<1> USE DEF renderer, callback, device
<1>3. CASE Packet
  <2>1. rem' \in 0 .. MaxPacket /\ rpc' \in {"init", "decode"}
    BY <1>3, SamplesAssumption DEF Packet
  <2> QED BY <1>1, <1>3, <2>1 DEF Packet
<1>4. CASE InitDecoder
  BY <1>1, <1>4 DEF InitDecoder
<1>5. CASE GiveUp
  BY <1>1, <1>5 DEF GiveUp
<1>6. CASE Decode
  <2>1. rpc' \in {"audio", "idle", "decode"}
    BY <1>6 DEF Decode, AfterSamples
  <2> QED BY <1>1, <1>6, <2>1, DecodeStep DEF Decode
<1>7. CASE AudioChange
  BY <1>1, <1>7, ChangeStep DEF AudioChange
<1>8. CASE Audio
  <2>1. audioPending' \in Seq(Seq(Nat))
    BY <1>1, <1>8 DEF Audio
  <2> QED BY <1>1, <1>8, <2>1 DEF Audio, AfterSamples
<1>9. CASE AudioOutput
  BY <1>1, <1>9, OutputStep DEF AudioOutput
<1>10. CASE Fill
  BY <1>1, <1>10, FillStep DEF Fill
<1>11. CASE Enqueue
  <2>1. lost' \subseteq Buffers
    <3>1. inBuffer.ref \in Buffers
      BY <1>11, EnqueueStep DEF AudioBuffer
    <3> QED BY <1>1, <1>11, <3>1 DEF Enqueue
  <2>2. cb' = "idle" /\ inBuffer' = None /\ locked' \in BOOLEAN
        /\ UNCHANGED <<renderer, audioPending, started>>
    BY <1>11 DEF Enqueue, Unlocked
  <2> QED BY <1>1, <1>11, <2>1, <2>2, EnqueueStep
<1> QED BY <1>3, <1>4, <1>5, <1>6, <1>7, <1>8, <1>9, <1>10, <1>11
        DEF Next, Renderer, Main, Queue

LEMMA ControlStep ==
  ASSUME TypeOK, Control, Filling, Fits, Next
  PROVE  Control' /\ Filling'
<1> USE DEF Control, renderer, callback, device
<1>1. CASE Packet
  BY <1>1 DEF Packet, Filling
<1>2. CASE InitDecoder
  BY <1>2 DEF InitDecoder, Filling
<1>3. CASE GiveUp
  BY <1>3 DEF GiveUp, Filling
<1>4. CASE Decode
  BY <1>4 DEF Decode, AfterSamples, Filling
<1>5. CASE AudioChange
  BY <1>5 DEF AudioChange, Filling
<1>6. CASE Audio
  <2>1. audioPending' # <<>>
    BY <1>6 DEF Audio, TypeOK
  <2> QED BY <1>6, <2>1 DEF Audio, AfterSamples, Filling
<1>7. CASE AudioOutput
  <2>1. started /\ UNCHANGED <<renderer, started, audioPending>>
    BY <1>7 DEF AudioOutput
  <2>2. Filling'
    BY <1>7, <2>1, OutputStep, CapacityAssumption DEF Filling
  <2> QED BY <2>1, <2>2
<1>8. CASE Fill
  <2>1. cb = "filling" /\ UNCHANGED <<renderer, started>>
    BY <1>8 DEF Fill
  <2>2. Filling'
    BY <1>8, FillStep DEF Filling
  <2> QED BY <2>1, <2>2
<1>9. CASE Enqueue
  <2>1. cb = "enqueue" /\ cb' = "idle" /\ UNCHANGED <<renderer, started>>
    BY <1>9 DEF Enqueue
  <2> QED BY <2>1 DEF Filling
<1> QED BY <1>1, <1>2, <1>3, <1>4, <1>5, <1>6, <1>7, <1>8, <1>9
        DEF Next, Renderer, Main, Queue

\* Steps of the renderer's and the main thread after the queue is made do not
\* touch a buffer.
LEMMA PlacesStep ==
  ASSUME TypeOK, Control, Filling, Fits, Places, Next
  PROVE  Places'
<1> USE DEF callback, device
<1>1. CASE \/ Packet \/ InitDecoder \/ GiveUp \/ Decode \/ Audio
  <2>1. UNCHANGED <<callback, device>>
    BY <1>1 DEF Packet, InitDecoder, GiveUp, Decode, Audio
  <2> QED BY <2>1 DEF Places, Queued
<1>2. CASE AudioChange
  <2>1. cb' = "idle"
    BY <1>2 DEF AudioChange, Control
  <2> QED BY <1>2, <2>1, ChangeStep DEF Places, Queued
<1>3. CASE AudioOutput
  <2>1. cb = "idle" /\ cb' # "idle" /\ lost' = lost
    BY <1>3, OutputStep DEF AudioOutput
  <2>2. Len(audioQueue) \in Nat /\ Len(audioQueue') \in Nat
    BY <1>3, OutputStep DEF TypeOK
  <2>3. \A j, k \in Queued' : audioQueue'[j].ref = audioQueue'[k].ref => j = k
    <3> SUFFICES ASSUME NEW j \in Queued', NEW k \in Queued',
                        audioQueue'[j].ref = audioQueue'[k].ref
                 PROVE  j = k
      OBVIOUS
    <3>1. /\ j + 1 \in Queued /\ k + 1 \in Queued
          /\ audioQueue[j + 1].ref = audioQueue[k + 1].ref
      BY <1>3, OutputStep DEF Queued
    <3>2. j + 1 = k + 1
      BY <3>1 DEF Places
    <3> QED BY <2>2, <3>2 DEF Queued
  <2>4. \A k \in Queued' : audioQueue'[k].ref \notin lost
    BY <1>3, OutputStep DEF Places, Queued
  <2>5. inBuffer'.ref \notin lost
    BY <1>3, OutputStep DEF Places
  <2>6. \A k \in Queued' : audioQueue'[k].ref # inBuffer'.ref
    <3> SUFFICES ASSUME NEW k \in Queued', audioQueue'[k].ref = inBuffer'.ref
                 PROVE  FALSE
      OBVIOUS
    <3>1. /\ k + 1 \in Queued /\ 1 \in Queued
          /\ audioQueue[k + 1].ref = audioQueue[1].ref
      BY <1>3, OutputStep DEF Queued
    <3>2. k + 1 = 1
      BY <3>1 DEF Places
    <3> QED BY <2>2, <3>2 DEF Queued
  <2>7. ASSUME NEW ref \in Buffers, ref \notin lost, ref # inBuffer'.ref
        PROVE  \E k \in Queued' : audioQueue'[k].ref = ref
    <3>1. PICK k \in Queued : audioQueue[k].ref = ref
      BY <2>1, <2>7 DEF Places
    <3>2. k # 1
      BY <1>3, <2>7, <3>1, OutputStep
    <3>3. k - 1 \in Queued' /\ (k - 1) + 1 = k
      BY <1>3, <2>2, <3>2, OutputStep DEF Queued
    <3>4. audioQueue'[k - 1] = audioQueue[k]
      BY <1>3, <3>3, OutputStep DEF Queued
    <3> QED BY <3>1, <3>3, <3>4
  <2> QED BY <2>1, <2>3, <2>4, <2>5, <2>6, <2>7 DEF Places
<1>4. CASE Fill
  <2>1. /\ cb = "filling" /\ cb' # "idle" /\ inBuffer'.ref = inBuffer.ref
        /\ UNCHANGED device
    BY <1>4, FillStep DEF Fill
  <2> QED BY <2>1 DEF Places, Queued
<1>5. CASE Enqueue
  <2>1. cb = "enqueue" /\ cb' = "idle"
    BY <1>5 DEF Enqueue
  <2>2. Len(audioQueue) \in Nat
    BY DEF TypeOK
  <2>3. CASE /\ lost' = lost
             /\ Len(audioQueue') = Len(audioQueue) + 1
             /\ \A k \in 1 .. Len(audioQueue') :
                  audioQueue'[k] = IF k \in Queued THEN audioQueue[k] ELSE inBuffer
    <3> DEFINE last == Len(audioQueue) + 1
    <3>1. \A k \in Queued' : k \in Queued \/ k = last
      BY <2>2, <2>3 DEF Queued
    <3>2. last \in Queued' /\ last \notin Queued /\ \A k \in Queued : k \in Queued'
      BY <2>2, <2>3 DEF Queued
    <3>3. /\ audioQueue'[last] = inBuffer
          /\ \A k \in Queued : audioQueue'[k] = audioQueue[k]
      BY <2>3, <3>2 DEF Queued
    <3> HIDE DEF last
    <3> QED BY <2>1, <2>3, <3>1, <3>2, <3>3 DEF Places
  <2>4. CASE lost' = lost \cup {inBuffer.ref} /\ audioQueue' = audioQueue
    BY <2>1, <2>4 DEF Places, Queued
  <2> QED BY <1>5, <2>3, <2>4, EnqueueStep
<1> QED BY <1>1, <1>2, <1>3, <1>4, <1>5 DEF Next, Renderer, Main, Queue

\* The bytes the callback has taken fit in its buffer.
LEMMA FitsStep ==
  ASSUME TypeOK, Filling, Fits, Next
  PROVE  Fits'
<1>1. CASE \/ Packet \/ InitDecoder \/ GiveUp \/ Decode \/ AudioChange \/ Audio
  <2>1. inBuffer' = inBuffer
    BY <1>1 DEF Packet, InitDecoder, GiveUp, Decode, AudioChange, Audio, callback
  <2> QED BY <2>1 DEF Fits
<1>2. CASE AudioOutput
  <2>1. inBuffer'.bytes = <<>> /\ inBuffer'.size \in Nat
    BY <1>2, OutputStep, CapacityAssumption DEF AudioBuffer
  <2> QED BY <2>1 DEF Fits
<1>3. CASE Fill
  BY <1>3, FillStep
<1>4. CASE Enqueue
  BY <1>4 DEF Enqueue, None, Fits
<1> QED BY <1>1, <1>2, <1>3, <1>4 DEF Next, Renderer, Main, Queue

LEMMA WholeStep ==
  ASSUME TypeOK, Filling, Fits, Next, NEW frame \in 1 .. Capacity, Whole(frame)
  PROVE  Whole(frame)'
<1> SUFFICES ASSUME GivenWhole(frame)
             PROVE  /\ \A k \in Queued' : InFrames(audioQueue'[k].size, frame)
                    /\ InFrames(inBuffer'.size, frame)
                    /\ \A k \in Pending' : InFrames(Len(audioPending'[k]), frame)
                    /\ InFrames(Len(output'), frame)
  BY DEF Whole, GivenWhole, InFrames
<1>1. /\ \A k \in Queued : InFrames(audioQueue[k].size, frame)
      /\ InFrames(inBuffer.size, frame)
      /\ \A k \in Pending : InFrames(Len(audioPending[k]), frame)
      /\ InFrames(Len(output), frame)
  BY DEF Whole
<1>2. InFrames(SilenceSize, frame) /\ InFrames(0, frame)
  <2>1. 0 = 0 * frame
    BY CapacityAssumption
  <2> QED BY <2>1, SilenceFits DEF InFrames
<1> USE DEF renderer, callback, device
<1>3. CASE Packet \/ InitDecoder \/ GiveUp
  <2>1. UNCHANGED <<output, audioPending, callback, device>>
    BY <1>3 DEF Packet, InitDecoder, GiveUp
  <2> QED BY <1>1, <2>1 DEF Queued, Pending
<1>4. CASE Decode
  <2>1. UNCHANGED <<audioPending, callback, device>>
    BY <1>4 DEF Decode
  <2>2. InFrames(Len(output'), frame)
    BY <1>4, DecodeStep DEF GivenWhole
  <2> QED BY <1>1, <2>1, <2>2 DEF Queued, Pending
<1>5. CASE AudioChange
  <2>1. UNCHANGED <<output, audioPending, inBuffer>>
    BY <1>5 DEF AudioChange
  <2> QED BY <1>1, <1>2, <1>5, <2>1, ChangeStep DEF Queued, Pending
<1>6. CASE Audio
  <2>1. UNCHANGED <<output, callback, device>>
        /\ audioPending' = Append(audioPending, output)
    BY <1>6 DEF Audio
  <2>2. \A k \in Pending' : \/ k \in Pending /\ audioPending'[k] = audioPending[k]
                            \/ audioPending'[k] = output
    BY <2>1 DEF Pending, TypeOK
  <2> QED BY <1>1, <2>1, <2>2 DEF Queued
<1>7. CASE AudioOutput
  <2>1. UNCHANGED <<output, audioPending>>
    BY <1>7 DEF AudioOutput
  <2> QED BY <1>1, <1>2, <1>7, <2>1, OutputStep DEF Queued, Pending
<1>8. CASE Fill
  <2>1. UNCHANGED <<output, device>>
    BY <1>8 DEF Fill
  <2> QED BY <1>1, <1>8, <2>1, FillStep DEF Queued, Pending
<1>9. CASE Enqueue
  <2>1. UNCHANGED <<output, audioPending>> /\ inBuffer'.size = 0
    BY <1>9 DEF Enqueue, None
  <2> QED BY <1>1, <1>2, <1>9, <2>1, EnqueueStep DEF Queued, Pending
<1> QED BY <1>3, <1>4, <1>5, <1>6, <1>7, <1>8, <1>9
        DEF Next, Renderer, Main, Queue

LEMMA StutterInv ==
  ASSUME PlaybackInv, UNCHANGED vars
  PROVE  PlaybackInv'
<1> USE DEF vars, renderer, callback, device
<1>1. TypeOK'
  BY DEF PlaybackInv, TypeOK
<1>2. Control' /\ Filling' /\ Fits'
  BY DEF PlaybackInv, Control, Filling, Fits
<1>3. Places'
  BY DEF PlaybackInv, Places, Queued
<1>4. AllWhole'
  BY DEF PlaybackInv, AllWhole, Whole, Queued, Pending, GivenWhole
<1> QED BY <1>1, <1>2, <1>3, <1>4 DEF PlaybackInv

LEMMA InvStays == Spec => []PlaybackInv
<1>1. PlaybackInv /\ [Next]_vars => PlaybackInv'
  <2> SUFFICES ASSUME PlaybackInv, Next PROVE PlaybackInv'
    BY StutterInv
  <2>1. AllWhole'
    BY WholeStep DEF PlaybackInv, AllWhole
  <2> QED BY <2>1, TypeStep, ControlStep, FitsStep, PlacesStep DEF PlaybackInv
<1> QED BY <1>1, InitInv, PTL DEF Spec

-----------------------------------------------------------------------------
(* The theorems. *)

\* No buffer is written past its capacity and no more of a packet is consumed
\* than it has (AAC::decode and audioOutput), whatever their sizes.
THEOREM PlaybackTypes == Spec => []TypeOK
<1>1. PlaybackInv => TypeOK
  BY DEF PlaybackInv
<1> QED BY <1>1, InvStays, PTL

\* The counts of BuffersAccountedFor from where each buffer is.
LEMMA PlacesCount == TypeOK /\ Places => BuffersAccountedFor
<1> SUFFICES ASSUME TypeOK, Places, NEW ref \in Buffers
             PROVE  Cardinality(QueuedAt(ref))
                      + (IF cb # "idle" /\ inBuffer.ref = ref THEN 1 ELSE 0)
                      + (IF ref \in lost THEN 1 ELSE 0) = 1
  BY DEF BuffersAccountedFor
<1>1. CASE \E k \in Queued : audioQueue[k].ref = ref
  <2>1. PICK k \in Queued : audioQueue[k].ref = ref
    BY <1>1
  <2>2. QueuedAt(ref) = {k}
    BY <2>1 DEF QueuedAt, Places, Queued
  <2>3. Cardinality(QueuedAt(ref)) = 1
    BY <2>2, FS_Singleton
  <2>4. ref \notin lost /\ ~(cb # "idle" /\ inBuffer.ref = ref)
    BY <2>1 DEF Places
  <2> QED BY <2>3, <2>4
<1>2. CASE ~\E k \in Queued : audioQueue[k].ref = ref
  <2>1. QueuedAt(ref) = {}
    BY <1>2 DEF QueuedAt, Queued
  <2>2. Cardinality(QueuedAt(ref)) = 0
    BY <2>1, FS_EmptySet
  <2>3. \/ cb # "idle" /\ inBuffer.ref = ref /\ ref \notin lost
        \/ ~(cb # "idle" /\ inBuffer.ref = ref) /\ ref \in lost
    BY <1>2 DEF Places
  <2> QED BY <2>2, <2>3
<1> QED BY <1>1, <1>2

\* Each of the three buffers is in one place, whichever calls of audioChange
\* and audioOutput fail: the callback gives back what it takes, an underrun
\* included.
THEOREM BuffersInOnePlace == Spec => []BuffersAccountedFor
<1>1. PlaybackInv => BuffersAccountedFor
  BY PlacesCount DEF PlaybackInv
<1> QED BY <1>1, InvStays, PTL

\* Buffers hold whole frames if the capacity, the silence and the decoder's
\* pieces are whole frames, however the loop of audioOutput cuts the pieces.
THEOREM FramesStayWhole == Spec => []WholeFrames
<1>1. PlaybackInv => WholeFrames
  BY DEF PlaybackInv, AllWhole, Whole, WholeFrames, GivenWhole, Queued
<1> QED BY <1>1, InvStays, PTL

-----------------------------------------------------------------------------
(* The refinement: AudioFifo with the bytes on their way for held.         *)

Coming == IF rpc = "audio" THEN output ELSE <<>>

\* Bytes without one of the three places in which they are.
LEMMA HeldParts ==
  ASSUME TypeOK
  PROVE  /\ inBuffer.bytes \in Seq(Nat)
         /\ FlattenSeq(audioPending) \in Seq(Nat)
         /\ Coming \in Seq(Nat)
         /\ Held = (inBuffer.bytes \o FlattenSeq(audioPending)) \o Coming
<1>1. inBuffer.bytes \in Seq(Nat)
  <2>1. inBuffer = None \/ inBuffer \in AudioBuffer
    BY DEF TypeOK
  <2>2. None.bytes = <<>> /\ <<>> \in Seq(Nat)
    BY EmptySeq DEF None
  <2>3. \A buffer \in AudioBuffer : buffer.bytes \in Seq(Nat)
    BY DEF AudioBuffer
  <2> QED
    BY <2>1, <2>2, <2>3
<1>2. FlattenSeq(audioPending) \in Seq(Nat)
  <2>1. audioPending \in Seq(Seq(Nat))
    BY DEF TypeOK
  <2> QED
    BY <2>1, FlattenType
<1>3. Coming \in Seq(Nat)
  BY DEF TypeOK, Coming
<1> QED
  BY <1>1, <1>2, <1>3 DEF Held, Coming

\* The main thread's slot copies the decoder's output to the end.
LEMMA AudioHolds ==
  ASSUME TypeOK, Audio
  PROVE  Held' = Held
<1>1. /\ rpc = "audio" /\ rpc' # "audio" /\ inBuffer' = inBuffer
      /\ audioPending' = Append(audioPending, output)
      /\ audioPending \in Seq(Seq(Nat)) /\ output \in Seq(Nat)
  BY DEF Audio, AfterSamples, TypeOK, callback
<1>2. FlattenSeq(audioPending') = FlattenSeq(audioPending) \o output
  BY <1>1, FlattenAppend
<1> DEFINE b == inBuffer.bytes
           f == FlattenSeq(audioPending)
<1>3. b \in Seq(Nat) /\ f \in Seq(Nat)
  BY HeldParts
<1>4. Held' = (b \o (f \o output)) \o <<>> /\ Held = (b \o f) \o output
  BY <1>1, <1>2 DEF Held
<1> HIDE DEF b, f
<1>5. f \o output \in Seq(Nat)
  BY <1>1, <1>3, ConcatProperties
<1>6. b \o (f \o output) \in Seq(Nat)
  BY <1>3, <1>5, ConcatProperties
<1>7. (b \o (f \o output)) \o <<>> = b \o (f \o output)
  BY <1>6, ConcatEmptySeq
<1>8. (b \o f) \o output = b \o (f \o output)
  <2>1. output \in Seq(Nat)
    BY <1>1
  <2>2. Joined(Joined(b, f), output) = Joined(b, Joined(f, output))
    BY <1>3, <2>1, JoinedAssociative
  <2> QED
    BY <2>2, Zenon DEF Joined
<1> QED
  BY <1>4, <1>7, <1>8

\* A turn of the callback's loop moves bytes from the front piece to the end
\* of the buffer.
LEMMA FillHolds ==
  ASSUME TypeOK, Filling, Fits, Fill
  PROVE  Held' = Held
<1> DEFINE front == Head(audioPending)
           taken == Min({Len(front), Room(inBuffer)})
           b == inBuffer.bytes
           f == FlattenSeq(Tail(audioPending))
           first == SubSeq(front, 1, taken)
           rest == SubSeq(front, taken + 1, Len(front))
<1>1. /\ cb = "filling" /\ inBuffer \in AudioBuffer /\ inBuffer.size < Capacity
      /\ audioPending \in Seq(Seq(Nat)) /\ audioPending # <<>>
  BY DEF Fill, Filling, TypeOK
<1>2. /\ front \in Seq(Nat) /\ Tail(audioPending) \in Seq(Seq(Nat))
      /\ b \in Seq(Nat)
  BY <1>1 DEF AudioBuffer
<1>3. f \in Seq(Nat)
  <2> HIDE DEF front
  <2> QED
    BY <1>2, FlattenType
<1>4. taken \in 0 .. Len(front)
  <2>1. Len(front) \in Nat /\ Room(inBuffer) \in Nat
    BY <1>1, <1>2, CapacityAssumption DEF AudioBuffer, Room, mAudioDataBytesCapacity
  <2> HIDE DEF front
  <2> QED
    BY <2>1, MinOfTwo
<1>5. /\ inBuffer'.bytes = b \o first
      /\ audioPending' = IF taken = Len(front) THEN Tail(audioPending)
                         ELSE [audioPending EXCEPT ![1] = rest]
      /\ UNCHANGED <<rpc, output>>
  BY <1>1 DEF Fill, AudioBuffer, Rest, renderer
<1>6. FlattenSeq(audioPending) = front \o f
  BY <1>1, FlattenHead
<1>7. first \in Seq(Nat) /\ rest \in Seq(Nat) /\ first \o rest = front
  <2> HIDE DEF front, taken
  <2> QED
    BY <1>2, <1>4, CutAndJoin
<1>8. FlattenSeq(audioPending') = rest \o f
  <2>1. CASE taken = Len(front)
    <3>1. rest = <<>>
      <4> HIDE DEF front, taken
      <4> QED
        BY <1>2, <2>1
    <3>2. <<>> \o f = f
      BY <1>3, ConcatEmptySeq
    <3> QED
      BY <1>5, <2>1, <3>1, <3>2
  <2>2. CASE taken # Len(front)
    <3> DEFINE pending == [audioPending EXCEPT ![1] = rest]
    <3>1. audioPending' = pending
      BY <1>5, <2>2
    <3>2. /\ pending \in Seq(Seq(Nat)) /\ pending # <<>>
          /\ Head(pending) = rest /\ Tail(pending) = Tail(audioPending)
      <4> HIDE DEF rest
      <4> QED
        BY SMTT(30), <1>1, <1>7
    <3> HIDE DEF pending
    <3>3. FlattenSeq(pending) = Head(pending) \o FlattenSeq(Tail(pending))
      BY <3>2, FlattenHead
    <3> QED
      BY <3>1, <3>2, <3>3
  <2> QED
    BY <2>1, <2>2
<1>9. /\ Held = (b \o (front \o f)) \o Coming
      /\ Held' = ((b \o first) \o (rest \o f)) \o Coming
  BY <1>5, <1>6, <1>8 DEF Held, Coming
<1> HIDE DEF front, taken, b, f, first, rest
<1>10. front \o f = first \o (rest \o f)
  <2>1. first \in Seq(Nat) /\ rest \in Seq(Nat) /\ f \in Seq(Nat)
    BY <1>3, <1>7
  <2>2. (first \o rest) \o f = first \o (rest \o f)
    BY SMTT(30), <2>1, ConcatAssociative
  <2> QED
    BY <1>7, <2>2, Zenon
<1>11. rest \o f \in Seq(Nat)
  BY <1>3, <1>7, ConcatProperties
<1>12. (b \o first) \o (rest \o f) = b \o (first \o (rest \o f))
  <2> DEFINE left == rest \o f
  <2>1. b \in Seq(Nat) /\ first \in Seq(Nat) /\ left \in Seq(Nat)
    BY <1>2, <1>7, <1>11
  <2> HIDE DEF left
  <2>2. (b \o first) \o left = b \o (first \o left)
    BY <2>1, ConcatAssociative
  <2> QED
    BY <2>2 DEF left
<1> QED
  BY <1>9, <1>10, <1>12

\* What one call decodes comes as the next numbers.
LEMMA DecodeComes ==
  ASSUME TypeOK, Decode
  PROVE  Fifo!Come \/ UNCHANGED Fifo!vars
<1>1. PICK count \in Samples :
        /\ output' = [k \in 1 .. count |-> decoded + k - 1]
        /\ decoded' = decoded + count
        /\ rpc' = IF count > 0 THEN "audio" ELSE AfterSamples'
  BY DEF Decode
<1>2. /\ count \in Nat /\ decoded \in Nat /\ rpc = "decode"
      /\ UNCHANGED <<audioPending, inBuffer, played, lost>>
  BY SamplesAssumption DEF TypeOK, Decode, callback, device
<1>3. AfterSamples' # "audio"
  BY DEF AfterSamples
<1> DEFINE h == inBuffer.bytes \o FlattenSeq(audioPending)
<1>4. h \in Seq(Nat) /\ h \o <<>> = h
  <2> HIDE DEF h
  <2>1. h \in Seq(Nat)
    BY HeldParts, ConcatProperties DEF h
  <2> QED
    BY <2>1, ConcatEmptySeq
<1>5. Held = h /\ Held' = h \o (IF count > 0 THEN output' ELSE <<>>)
  BY <1>1, <1>2, <1>3, <1>4 DEF Held
<1> HIDE DEF h
<1>6. CASE count > 0
  <2>1. decoded' \in Nat /\ decoded' > decoded /\ decoded' - decoded = count
    BY <1>1, <1>2, <1>6
  <2>2. Fifo!Numbers(decoded, decoded') = output'
    BY <1>1, <2>1 DEF Fifo!Numbers
  <2> QED
    BY <1>2, <1>5, <1>6, <2>1, <2>2 DEF Fifo!Come
<1>7. CASE ~ (count > 0)
  <2>1. decoded' = decoded
    BY <1>1, <1>2, <1>7
  <2> QED
    BY <1>2, <1>4, <1>5, <1>7, <2>1 DEF Fifo!vars
<1> QED
  BY <1>6, <1>7

\* A buffer leaves with the first bytes that are held.
LEMMA EnqueueLeaves ==
  ASSUME TypeOK, Fits, Places, Enqueue
  PROVE  Fifo!Play \/ Fifo!Drop \/ UNCHANGED Fifo!vars
<1> DEFINE b == inBuffer.bytes
           rest == FlattenSeq(audioPending) \o Coming
           n == Len(b)
<1>1. /\ b \in Seq(Nat) /\ rest \in Seq(Nat) /\ n \in Nat
      /\ played \in Seq(Nat)
  <2>1. FlattenSeq(audioPending) \o Coming \in Seq(Nat)
    BY HeldParts, ConcatProperties
  <2> QED
    BY <2>1, HeldParts DEF TypeOK
<1>2. /\ inBuffer' = None /\ UNCHANGED <<decoded, audioPending, rpc, output>>
      /\ played' = played \o b \/ played' = played
  BY DEF Enqueue, renderer
<1>3. FlattenSeq(audioPending) \in Seq(Nat) /\ Coming \in Seq(Nat)
  BY HeldParts
<1>4. Held = b \o rest
  <2>1. Held = (b \o FlattenSeq(audioPending)) \o Coming
    BY HeldParts
  <2> DEFINE f == FlattenSeq(audioPending)
  <2> HIDE DEF b, f
  <2>2. f \in Seq(Nat)
    BY <1>3 DEF f
  <2>3. Joined(Joined(b, f), Coming) = Joined(b, Joined(f, Coming))
    BY <1>1, <1>3, <2>2, JoinedAssociative
  <2>4. (b \o f) \o Coming = b \o (f \o Coming)
    BY <2>3, Zenon DEF Joined
  <2> QED
    BY <2>1, <2>4 DEF f
<1>5. Held' = rest
  <2> DEFINE f == FlattenSeq(audioPending)
  <2>1. Held' = (<<>> \o f) \o Coming
    BY <1>2 DEF Held, Coming, None
  <2> HIDE DEF f
  <2>2. <<>> \o f = f
    BY <1>3, ConcatEmptySeq DEF f
  <2> QED
    BY <2>1, <2>2 DEF f
<1>a. /\ inBuffer.ref \in Buffers \ lost /\ n <= Capacity
      /\ \/ played' = played \o b /\ lost' = lost
         \/ played' = played /\ lost' = lost \cup {inBuffer.ref}
  <2>1. inBuffer \in AudioBuffer /\ inBuffer.ref \notin lost
    BY DEF TypeOK, Enqueue, Places
  <2>2. n <= inBuffer.size /\ inBuffer.size <= Capacity /\ inBuffer.size \in Nat
    BY <2>1, CapacityAssumption DEF Fits, AudioBuffer
  <2> QED
    BY <1>1, <2>1, <2>2, CapacityAssumption DEF AudioBuffer, Enqueue
<1> HIDE DEF b, rest, n
<1>6. /\ Len(Held) \in Nat /\ n <= Len(Held)
      /\ SubSeq(Held, 1, n) = b /\ SubSeq(Held, n + 1, Len(Held)) = rest
  BY <1>1, <1>4, JoinAndCut DEF n
<1>b. Held' = Fifo!Without(n) /\ n \in 0 .. Len(Held)
  BY <1>1, <1>5, <1>6 DEF Fifo!Without
<1>7. CASE played' = played /\ lost' = lost \cup {inBuffer.ref}
  BY <1>2, <1>7, <1>a, <1>b DEF Fifo!Drop
<1>8. CASE played' = played \o b /\ lost' = lost
  <2>1. CASE n = 0
    <3>1. b = <<>>
      BY <1>1, <2>1, EmptySeq DEF n
    <3>2. played' = played /\ Held' = Held
      BY <1>1, <1>4, <1>5, <1>8, <3>1, ConcatEmptySeq
    <3> QED
      BY <1>2, <1>8, <3>2 DEF Fifo!vars
  <2>2. CASE n # 0
    <3>1. n \in 1 .. Len(Held)
      BY <1>6, <1>b, <2>2
    <3>2. played' = played \o SubSeq(Held, 1, n)
      BY <1>6, <1>8
    <3> QED
      BY <1>2, <1>8, <1>a, <1>b, <3>1, <3>2 DEF Fifo!Play
  <2> QED
    BY <2>1, <2>2
<1> QED
  BY <1>7, <1>8, <1>a

\* Every step is one of AudioFifo, or changes nothing that it sees.
LEMMA FifoStep ==
  ASSUME PlaybackInv, Next
  PROVE  Fifo!Next \/ UNCHANGED Fifo!vars
<1> USE DEF PlaybackInv
<1>1. CASE Packet \/ InitDecoder \/ GiveUp
  <2>1. /\ rpc # "audio" /\ rpc' # "audio"
        /\ UNCHANGED <<decoded, inBuffer, audioPending, played, lost>>
    BY <1>1 DEF Packet, InitDecoder, GiveUp, callback, device
  <2> QED
    BY <2>1 DEF Fifo!vars, Held
<1>2. CASE Decode
  BY <1>2, DecodeComes DEF Fifo!Next
<1>3. CASE AudioChange
  <2>1. /\ rpc # "audio" /\ rpc' # "audio"
        /\ UNCHANGED <<decoded, inBuffer, audioPending, played>>
        /\ lost = Buffers
    BY <1>3 DEF AudioChange, callback, Control
  <2>2. lost' \subseteq Buffers /\ Held' = Held
    BY <1>3, <2>1, ChangeStep DEF Held
  <2> QED
    BY <2>1, <2>2 DEF Fifo!Start, Fifo!Next
<1>4. CASE Audio
  <2>1. UNCHANGED <<decoded, played, lost>>
    BY <1>4 DEF Audio, device
  <2> QED
    BY <1>4, <2>1, AudioHolds DEF Fifo!vars
<1>5. CASE AudioOutput
  <2>1. inBuffer.bytes = <<>> /\ inBuffer'.bytes = <<>>
    BY <1>5 DEF AudioOutput, TypeOK, None, Silent, Take
  <2>2. UNCHANGED <<decoded, audioPending, rpc, output, played, lost>>
    BY <1>5 DEF AudioOutput, renderer
  <2> QED
    BY <2>1, <2>2 DEF Fifo!vars, Held
<1>6. CASE Fill
  <2>1. UNCHANGED <<decoded, played, lost>>
    BY <1>6 DEF Fill, renderer, device
  <2> QED
    BY <1>6, <2>1, FillHolds DEF Fifo!vars
<1>7. CASE Enqueue
  BY <1>7, EnqueueLeaves DEF Fifo!Next
<1> QED
  BY <1>1, <1>2, <1>3, <1>4, <1>5, <1>6, <1>7 DEF Next, Renderer, Main, Queue

\* Decoded audio is played in order, each byte once, but for what is in a
\* buffer that could not be queued (AAC::decode, the slots of View.mm and
\* audioOutput), for every size of the pieces and of the buffers.
THEOREM BytesPlayInOrder == Spec => PlaysInOrder
<1>1. Init => Fifo!Init
  <2> SUFFICES ASSUME Init PROVE Fifo!Init
    OBVIOUS
  <2>1. Held = (<<>> \o FlattenSeq(<<>>)) \o <<>>
    BY DEF Init, Held, None
  <2>2. Held = <<>>
    BY <2>1, FlattenEmpty
  <2> QED
    BY <2>2 DEF Init, Fifo!Init
<1>2. PlaybackInv /\ [Next]_vars => [Fifo!Next]_(Fifo!vars)
  <2>1. PlaybackInv /\ UNCHANGED vars => UNCHANGED Fifo!vars
    BY DEF vars, renderer, callback, device, Fifo!vars, Held
  <2> QED
    BY <2>1, FifoStep
<1> QED
  BY <1>1, <1>2, InvStays, PTL DEF Spec, PlaysInOrder, Fifo!Spec
=============================================================================
