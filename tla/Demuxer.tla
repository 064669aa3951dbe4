------------------------------ MODULE Demuxer ------------------------------
(***************************************************************************)
(* The input side of the client's demuxer (clients/mac/Demuxer.cpp).       *)
(* Demuxer::feed() queues the buffer it is given and runs the TSDemux      *)
(* library over what is there; the library asks for bytes through          *)
(* DemuxerImpl::ReadAV(pos, n), which copies them out of the queued        *)
(* buffers and drops the buffers it has gone past.                         *)
(*                                                                         *)
(* Everything runs on the renderer's thread.  pc is where it is: "idle"    *)
(* between two calls of feed(); "resync" about to call ReadAV; "skip",     *)
(* "copy" and "return" in the two loops and at the end of ReadAV; "null"   *)
(* and "data" for the two results of ReadAV; "packet" with a packet in     *)
(* hand; "assertFailed" when an assert() has stopped the process.          *)
(*                                                                         *)
(* A byte is named by its position in the stream feed() is given.  A       *)
(* buffer holds consecutive bytes: [at, size] is positions at ..           *)
(* at+size-1.  The library (a submodule) is external: it reads at avPos,   *)
(* moves on by PacketSize after a packet and by one byte otherwise.        *)
(***************************************************************************)
EXTENDS Integers, Sequences

CONSTANTS
  PacketSize,   \* n of every ReadAV: a transport stream packet
  BufferSize,   \* AV_BUFFER_SIZE
  Disorder,     \* what the library may find wrong with the stream
  MaxStream,    \* bound: bytes fed in a behaviour
  MaxChunk      \* bound: bytes in one buffer

DisorderKinds == {"resync",    \* no packet starts here: try the next byte
                  "noSync",    \* ... and the library stops trying
                  "tsError"}   \* the packet is malformed

ASSUME SizeAssumption ==
  /\ PacketSize \in Nat \ {0, 1}
  /\ BufferSize \in Nat
  /\ PacketSize <= BufferSize + 1
ASSUME DisorderAssumption == Disorder \subseteq DisorderKinds
ASSUME StreamAssumption == MaxStream \in Nat /\ MaxChunk \in Nat

VARIABLES
  mBuffers,
  mBufferOffset,
  lastOffset,     \* the stream position of the first byte of mBuffers
  current,        \* the bytes of ReadAV's result
  avPos,          \* where the library reads next
  fed,            \* bytes given to feed() so far
  pc,
  rem, bufpos, bufoff, where, lastoff, skiprem   \* the locals of ReadAV

queue == <<mBuffers, mBufferOffset, lastOffset>>
locals == <<rem, bufpos, bufoff, where, lastoff, skiprem>>
vars == <<queue, current, avPos, fed, pc, locals>>

Min2(a, b) == IF a <= b THEN a ELSE b

Init == /\ mBuffers = <<>>
        /\ mBufferOffset = 0
        /\ lastOffset = 0
        /\ current = [k \in 0 .. BufferSize |-> -1]
        /\ avPos = 0
        /\ fed = 0
        /\ pc = "idle"
        /\ rem = 0 /\ bufpos = 0 /\ bufoff = 0
        /\ where = 0 /\ lastoff = 0 /\ skiprem = 0

-----------------------------------------------------------------------------
(* Faulty variants of the definitions below, each a plausible mistake in   *)
(* the code; no specification uses them.                                   *)

TakenWithoutRem(size, off, left) == size - off
CopiedToStart(mbuf, off, to, num) ==
  [k \in 0 .. BufferSize |-> IF k \in 0 .. num - 1 THEN mbuf.at + off + k
                                                   ELSE current[k]]
EndOfReadForgotten(size, off, num) ==
  IF num = size - off THEN [skip |-> 1, gone |-> 0, off |-> 0]
                      ELSE [skip |-> 0, gone |-> 0, off |-> off + num]
NextBufferOffsetKept(off) == off
AfterPacketReturns == "idle"
AfterNullRetries == "resync"
AdvancedNever(last) == lastOffset

-----------------------------------------------------------------------------
(* Demuxer::feed *)

Feed(n) == /\ pc = "idle"
           /\ fed + n <= MaxStream
           /\ mBuffers' = Append(mBuffers, [at |-> fed, size |-> n])
           /\ fed' = fed + n
           /\ pc' = "resync"
           /\ UNCHANGED <<mBufferOffset, lastOffset, current, avPos, locals>>

-----------------------------------------------------------------------------
(* DemuxerImpl::ReadAV *)

\* The asserts at the top of ReadAV.
ReadAllowed == PacketSize <= BufferSize + 1 /\ avPos >= lastOffset

ReadAV == /\ pc = "resync"
          /\ ReadAllowed
          /\ rem' = PacketSize
          /\ bufpos' = 0
          /\ bufoff' = mBufferOffset
          /\ where' = 0
          /\ lastoff' = lastOffset
          /\ skiprem' = avPos - lastOffset
          /\ pc' = IF avPos > 0 THEN "skip" ELSE "copy"
          /\ UNCHANGED <<queue, current, avPos, fed>>

PastTheEnd == bufpos >= Len(mBuffers)
mbuf == mBuffers[bufpos + 1]

\* Not enough data, before or after the first byte of the packet.
Underrun == /\ pc \in {"skip", "copy"}
            /\ PastTheEnd
            /\ pc' = "null"
            /\ UNCHANGED <<queue, current, avPos, fed, locals>>

\* One turn of the loop that looks for the first byte.
Skip == /\ pc = "skip"
        /\ ~PastTheEnd
        /\ IF skiprem < mbuf.size
             THEN /\ bufoff' = skiprem
                  /\ pc' = "copy"
                  /\ UNCHANGED <<skiprem, lastoff, bufpos>>
             ELSE /\ skiprem' = skiprem - mbuf.size
                  /\ lastoff' = lastoff + mbuf.size
                  /\ bufoff' = 0
                  /\ bufpos' = bufpos + 1
                  /\ UNCHANGED pc
        /\ UNCHANGED <<queue, current, avPos, fed, rem, where>>

\* The assert in the copying loop.
CopyAllowed == PastTheEnd \/ bufoff = 0 \/ bufpos = 0

CanCopy == pc = "copy" /\ ~PastTheEnd /\ CopyAllowed

Taken(size, off, left) == Min2(size - off, left)
Num == Taken(mbuf.size, bufoff, rem)

\* The memcpy of num bytes at off of a buffer to current.
Copied(buf, off, to, num) ==
  [k \in 0 .. BufferSize |-> IF k \in to .. to + num - 1
                               THEN buf.at + off + (k - to)
                               ELSE current[k]]

NextBufferOffset(off) == 0

\* The whole rest of a buffer, and the packet needs more.
CopyOn == /\ CanCopy
          /\ Num # rem
          /\ current' = Copied(mbuf, bufoff, where, Num)
          /\ rem' = rem - Num
          /\ where' = where + Num
          /\ bufoff' = NextBufferOffset(bufoff)
          /\ lastoff' = lastoff + mbuf.size
          /\ bufpos' = bufpos + 1
          /\ UNCHANGED <<queue, avPos, fed, pc, skiprem>>

\* Where the read ends: in the buffer, or at its end.
EndOfRead(size, off, num) ==
  IF num = size - off THEN [skip |-> 1, gone |-> size, off |-> 0]
                      ELSE [skip |-> 0, gone |-> 0, off |-> off + num]

CopyLast == /\ CanCopy
            /\ Num = rem
            /\ current' = Copied(mbuf, bufoff, where, Num)
            /\ rem' = 0
            /\ where' = where + Num
            /\ LET end == EndOfRead(mbuf.size, bufoff, Num)
               IN  /\ bufpos' = bufpos + end.skip
                   /\ lastoff' = lastoff + end.gone
                   /\ bufoff' = end.off
            /\ pc' = "return"
            /\ UNCHANGED <<queue, avPos, fed, skiprem>>

\* The asserts at the end of ReadAV.
ReturnAllowed == /\ bufpos <= Len(mBuffers)
                 /\ bufoff # 0 => bufpos # Len(mBuffers)
                 /\ rem = 0

Advanced(last) == last

Return == /\ pc = "return"
          /\ ReturnAllowed
          /\ mBuffers' = SubSeq(mBuffers, bufpos + 1, Len(mBuffers))
          /\ mBufferOffset' = bufoff
          /\ lastOffset' = Advanced(lastoff)
          /\ pc' = "data"
          /\ UNCHANGED <<current, avPos, fed, locals>>

AssertFails == /\ \/ pc = "resync" /\ ~ReadAllowed
                  \/ pc = "copy" /\ ~CopyAllowed
                  \/ pc = "return" /\ ~ReturnAllowed
               /\ pc' = "assertFailed"
               /\ UNCHANGED <<queue, current, avPos, fed, locals>>

-----------------------------------------------------------------------------
(* The library's TSResync, and the rest of feed()'s loop *)

AfterNull == "idle"

\* TSResync reports that it has no data, and feed() returns.
NoData == /\ pc = "null"
          /\ pc' = AfterNull
          /\ UNCHANGED <<queue, current, avPos, fed, locals>>

InSync == /\ pc = "data"
          /\ pc' = "packet"
          /\ UNCHANGED <<queue, current, avPos, fed, locals>>

OutOfSync == /\ pc = "data"
             /\ \/ "resync" \in Disorder /\ pc' = "resync"
                \/ "noSync" \in Disorder /\ pc' = "idle"
             /\ avPos' = avPos + 1
             /\ UNCHANGED <<queue, current, fed, locals>>

AfterPacket == "resync"

GoNext == /\ pc = "packet"
          /\ avPos' = avPos + PacketSize
          /\ pc' = AfterPacket
          /\ UNCHANGED <<queue, current, fed, locals>>

\* AVCONTEXT_TS_ERROR
Shift == /\ pc = "packet"
         /\ "tsError" \in Disorder
         /\ avPos' = avPos + 1
         /\ pc' = AfterPacket
         /\ UNCHANGED <<queue, current, fed, locals>>

-----------------------------------------------------------------------------
\* A step of the call of feed() that is running.
Step == \/ ReadAV \/ Underrun \/ Skip \/ CopyOn \/ CopyLast \/ Return
        \/ AssertFails
        \/ NoData \/ InSync \/ OutOfSync \/ GoNext \/ Shift

Next == (\E n \in 1 .. MaxChunk : Feed(n)) \/ Step

Spec == Init /\ [][Next]_vars

\* A running call goes on; that feed() is called again is not assumed.
FairSpec == Spec /\ WF_vars(Step)
=============================================================================
