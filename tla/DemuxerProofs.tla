---------------------------- MODULE DemuxerProofs ----------------------------
(***************************************************************************)
(* Theorems about Demuxer, for every packet size, every size of the chunks *)
(* and every bound.                                                        *)
(***************************************************************************)
EXTENDS DemuxerProperties, TLAPS

Piece == [at : Nat, size : Nat \ {0}]

-----------------------------------------------------------------------------
(* The inductive invariant. *)

\* Where buffer n starts in the stream, with last past the final one.
StartOf(b, last, n) == IF n <= Len(b) THEN b[n].at ELSE last

\* The buffers are one piece of the stream that ends at last.
Chain(b, last) ==
  \A n \in 1 .. Len(b) : /\ b[n].at + b[n].size = StartOf(b, last, n + 1)
                         /\ b[n].at + b[n].size <= last

\* off is a place in the first buffer, and start where that buffer starts.
Front(b, off, start, last) ==
  /\ start = StartOf(b, last, 1)
  /\ start <= last
  /\ IF b = <<>> THEN off = 0 ELSE off < b[1].size

WindowInv == /\ Chain(mBuffers, fed)
             /\ Front(mBuffers, mBufferOffset, lastOffset, fed)

\* Where the library reads: behind the last packet it was given, and less
\* than a packet behind.
PlaceInv ==
  IF pc \in {"data", "packet"}
    THEN avPos + PacketSize = lastOffset + mBufferOffset
    ELSE /\ avPos <= lastOffset + mBufferOffset
         /\ avPos + PacketSize > lastOffset
         /\ avPos = 0 => lastOffset = 0 /\ mBufferOffset = 0

\* Inside ReadAV: lastoff is where buffer bufpos starts, lastoff + bufoff is
\* the position of the next byte to copy.
Reading == pc \in {"skip", "copy", "return"}

CursorInv ==
  Reading => /\ lastOffset <= avPos
             /\ bufpos <= Len(mBuffers)
             /\ lastoff = StartOf(mBuffers, fed, bufpos + 1)
             /\ rem + where = PacketSize

SkipInv == pc = "skip" => /\ bufpos = 0 /\ where = 0
                          /\ lastoff + skiprem = avPos

InBuffer == IF bufpos < Len(mBuffers)
              THEN bufoff < mBuffers[bufpos + 1].size
              ELSE bufoff = 0

CopyInv == pc \in {"copy", "return"} =>
             /\ lastoff + bufoff = avPos + where
             /\ InBuffer
             /\ \A k \in 0 .. where - 1 : current[k] = avPos + k

RemInv == /\ pc = "copy" => rem > 0 /\ (bufpos > 0 => bufoff = 0)
          /\ pc = "return" => rem = 0

ResultInv ==
  /\ pc \in {"data", "packet"} =>
       \A k \in 0 .. PacketSize - 1 : current[k] = avPos + k
  /\ pc = "null" => fed < avPos + PacketSize
  /\ pc = "assertFailed" => avPos < lastOffset

IInv == /\ TypeOK /\ WindowInv /\ PlaceInv /\ CursorInv /\ SkipInv
        /\ CopyInv /\ RemInv /\ ResultInv

-----------------------------------------------------------------------------
(* Facts about the pieces of the stream in a sequence of buffers. *)

\* A buffer's place and size are numbers.
LEMMA PieceTypes ==
  ASSUME NEW b \in Seq(Piece)
  PROVE  \A m \in 1 .. Len(b) : b[m].at \in Nat /\ b[m].size \in Nat \ {0}
<1> SUFFICES ASSUME NEW m \in 1 .. Len(b)
             PROVE  b[m].at \in Nat /\ b[m].size \in Nat \ {0}
  OBVIOUS
<1>1. b[m] \in Piece
  OBVIOUS
<1> QED
  BY <1>1 DEF Piece

\* What feed() queues continues the piece.
LEMMA AppendChain ==
  ASSUME NEW b \in Seq(Piece), NEW last \in Nat, NEW n \in Nat \ {0},
         NEW off \in Nat, NEW start \in Nat,
         Chain(b, last), Front(b, off, start, last)
  PROVE  LET c == Append(b, [at |-> last, size |-> n])
         IN  /\ c \in Seq(Piece)
             /\ Chain(c, last + n)
             /\ Front(c, off, start, last + n)
<1> DEFINE p == [at |-> last, size |-> n]
           c == Append(b, p)
<1>1. p \in Piece /\ p.at = last /\ p.size = n
  BY DEF Piece
<1>2. /\ c \in Seq(Piece) /\ Len(c) = Len(b) + 1 /\ Len(b) \in Nat
      /\ \A m \in 1 .. Len(b) : c[m] = b[m]
      /\ c[Len(b) + 1] = p
  BY <1>1
<1>3. \A m \in 1 .. Len(b) : b[m].at \in Nat /\ b[m].size \in Nat \ {0}
  BY PieceTypes
<1> HIDE DEF p, c
<1>4. Chain(c, last + n)
  <2> SUFFICES ASSUME NEW m \in 1 .. Len(c)
               PROVE  /\ c[m].at + c[m].size = StartOf(c, last + n, m + 1)
                      /\ c[m].at + c[m].size <= last + n
    BY DEF Chain
  <2>1. CASE m = Len(b) + 1
    BY <1>1, <1>2, <2>1 DEF StartOf
  <2>2. CASE m = Len(b)
    <3>1. /\ m \in 1 .. Len(b) /\ c[m] = b[m] /\ c[m + 1].at = last
          /\ m + 1 <= Len(c)
      BY <1>1, <1>2, <2>2
    <3>2. b[m].at + b[m].size = last
      BY <1>2, <2>2, <3>1 DEF Chain, StartOf
    <3> QED
      BY <3>1, <3>2 DEF StartOf
  <2>3. CASE m < Len(b)
    <3>1. /\ m \in 1 .. Len(b) /\ m + 1 \in 1 .. Len(b)
          /\ c[m] = b[m] /\ c[m + 1] = b[m + 1]
          /\ m + 1 <= Len(c) /\ m + 1 <= Len(b)
      BY <1>2, <2>3
    <3>2. /\ b[m].at + b[m].size = b[m + 1].at
          /\ b[m].at + b[m].size <= last
      BY <3>1 DEF Chain, StartOf
    <3> QED
      BY <1>3, <3>1, <3>2 DEF StartOf
  <2> QED
    BY <1>2, <2>1, <2>2, <2>3
<1>5. Front(c, off, start, last + n)
  <2>1. CASE b = <<>>
    <3>1. Len(b) = 0
      BY <2>1
    <3>2. Len(c) = 1 /\ c[1] = p
      <4>1. Len(b) + 1 = 1
        BY <3>1
      <4> QED
        BY <1>2, <4>1
    <3>3. c # <<>>
      <4>1. Len(<<>>) = 0
        OBVIOUS
      <4>2. Len(c) # 0
        BY <3>2
      <4> QED
        BY <4>1, <4>2, Zenon
    <3> QED
      BY <1>1, <2>1, <3>1, <3>2, <3>3 DEF Front, StartOf
  <2>2. CASE b # <<>>
    <3>1. Len(b) >= 1 /\ c[1] = b[1] /\ c # <<>> /\ Len(c) >= 1
      BY <1>2, <2>2
    <3> QED
      BY <1>2, <1>3, <2>2, <3>1 DEF Front, StartOf
  <2> QED
    BY <2>1, <2>2
<1> QED
  BY <1>2, <1>4, <1>5 DEF c, p

\* Dropping the first m buffers leaves a piece that starts where buffer
\* m + 1 did.
LEMMA DropChain ==
  ASSUME NEW b \in Seq(Piece), NEW last \in Nat, NEW m \in 0 .. Len(b),
         NEW off \in Nat, Chain(b, last),
         IF m < Len(b) THEN off < b[m + 1].size ELSE off = 0
  PROVE  LET c == SubSeq(b, m + 1, Len(b))
         IN  /\ c \in Seq(Piece)
             /\ Chain(c, last)
             /\ Front(c, off, StartOf(b, last, m + 1), last)
<1> DEFINE c == SubSeq(b, m + 1, Len(b))
<1>1. /\ c \in Seq(Piece) /\ Len(c) = Len(b) - m /\ Len(b) \in Nat
      /\ \A k \in 1 .. Len(b) - m : c[k] = b[m + k]
  BY SMT
<1>2. \A k \in 1 .. Len(b) : b[k].at \in Nat /\ b[k].size \in Nat \ {0}
  BY PieceTypes
<1> HIDE DEF c
<1>3. Chain(c, last)
  <2> SUFFICES ASSUME NEW k \in 1 .. Len(c)
               PROVE  /\ c[k].at + c[k].size = StartOf(c, last, k + 1)
                      /\ c[k].at + c[k].size <= last
    BY DEF Chain
  <2>1. m + k \in 1 .. Len(b) /\ c[k] = b[m + k]
    BY <1>1
  <2>2. /\ b[m + k].at + b[m + k].size = StartOf(b, last, m + k + 1)
        /\ b[m + k].at + b[m + k].size <= last
    BY <2>1 DEF Chain
  <2>3. StartOf(b, last, m + k + 1) = StartOf(c, last, k + 1)
    <3>1. CASE k + 1 <= Len(c)
      <4>1. m + k + 1 <= Len(b) /\ c[k + 1] = b[m + (k + 1)]
        BY <1>1, <3>1
      <4> QED
        BY <3>1, <4>1 DEF StartOf
    <3>2. CASE ~ (k + 1 <= Len(c))
      BY <1>1, <3>2 DEF StartOf
    <3> QED
      BY <3>1, <3>2
  <2> QED
    BY <2>1, <2>2, <2>3
<1>4. Front(c, off, StartOf(b, last, m + 1), last)
  <2>1. CASE m < Len(b)
    <3>1. /\ Len(c) >= 1 /\ c # <<>> /\ c[1] = b[m + 1]
          /\ m + 1 \in 1 .. Len(b)
      BY <1>1, <2>1
    <3>2. b[m + 1].at <= last
      BY <1>2, <3>1 DEF Chain
    <3> QED
      BY <2>1, <3>1, <3>2 DEF Front, StartOf
  <2>2. CASE m = Len(b)
    <3>1. Len(c) = 0 /\ c = <<>>
      BY <1>1, <2>2
    <3> QED
      BY <1>1, <2>2, <3>1 DEF Front, StartOf
  <2> QED
    BY <1>1, <2>1, <2>2
<1> QED
  BY <1>1, <1>3, <1>4 DEF c

\* All the sizes that occur are numbers.
LEMMA DemuxerNumbers ==
  ASSUME TypeOK
  PROVE  /\ mBuffers \in Seq(Piece) /\ Len(mBuffers) \in Nat
         /\ mBufferOffset \in Nat /\ lastOffset \in Nat
         /\ avPos \in Nat /\ fed \in Nat
         /\ rem \in Nat /\ bufpos \in Nat /\ bufoff \in Nat
         /\ where \in Nat /\ lastoff \in Nat /\ skiprem \in Nat
         /\ PacketSize \in Nat /\ PacketSize > 1
         /\ BufferSize \in Nat /\ PacketSize <= BufferSize + 1
BY SizeAssumption DEF TypeOK, Piece

\* Buffer bufpos, while there is one.
LEMMA CurrentBuffer ==
  ASSUME TypeOK, WindowInv, ~PastTheEnd
  PROVE  /\ mbuf.at \in Nat /\ mbuf.size \in Nat /\ mbuf.size > 0
         /\ bufpos + 1 \in 1 .. Len(mBuffers)
         /\ StartOf(mBuffers, fed, bufpos + 1) = mbuf.at
         /\ mbuf.at + mbuf.size = StartOf(mBuffers, fed, bufpos + 2)
         /\ mbuf.at + mbuf.size <= fed
<1>1. bufpos + 1 \in 1 .. Len(mBuffers)
  BY DemuxerNumbers DEF PastTheEnd
<1>2. mbuf.at \in Nat /\ mbuf.size \in Nat \ {0}
  BY <1>1, DemuxerNumbers, PieceTypes DEF mbuf
<1>3. bufpos + 1 + 1 = bufpos + 2 /\ bufpos + 1 <= Len(mBuffers)
  BY <1>1, DemuxerNumbers
<1>4. /\ mbuf.at + mbuf.size = StartOf(mBuffers, fed, bufpos + 1 + 1)
      /\ mbuf.at + mbuf.size <= fed
  BY <1>1 DEF WindowInv, Chain, mbuf
<1> QED
  BY <1>1, <1>2, <1>3, <1>4 DEF StartOf, mbuf

\* The end of the first buffer, or of the queue.
LEMMA WindowBounds ==
  ASSUME TypeOK, WindowInv
  PROVE  /\ lastOffset + mBufferOffset <= fed
         /\ Len(mBuffers) = 0 => mBufferOffset = 0 /\ lastOffset = fed
         /\ Len(mBuffers) > 0 => /\ mBufferOffset < mBuffers[1].size
                                  /\ lastOffset = mBuffers[1].at
                                  /\ mBuffers[1].at \in Nat
                                  /\ mBuffers[1].size \in Nat
<1>1. CASE Len(mBuffers) = 0
  <2>1. mBuffers = <<>>
    BY <1>1, DemuxerNumbers
  <2> QED
    BY <1>1, <2>1, DemuxerNumbers DEF WindowInv, Front, StartOf
<1>2. CASE Len(mBuffers) > 0
  <2>1. mBuffers # <<>> /\ 1 \in 1 .. Len(mBuffers)
    BY <1>2, DemuxerNumbers
  <2>2. mBuffers[1].at \in Nat /\ mBuffers[1].size \in Nat
    BY <2>1, DemuxerNumbers, PieceTypes
  <2>3. mBuffers[1].at + mBuffers[1].size <= fed
    BY <2>1 DEF WindowInv, Chain
  <2>4. mBufferOffset < mBuffers[1].size /\ lastOffset = mBuffers[1].at
    BY <1>2, <2>1, DemuxerNumbers DEF WindowInv, Front, StartOf
  <2>5. lastOffset \in Nat /\ mBufferOffset \in Nat /\ fed \in Nat
    BY DemuxerNumbers
  <2>6. lastOffset + mBufferOffset <= fed
    BY <2>2, <2>3, <2>4, <2>5
  <2> QED
    BY <1>2, <2>2, <2>4, <2>6
<1> QED
  BY <1>1, <1>2, DemuxerNumbers

\* What a copy takes.
LEMMA TakenProperties ==
  ASSUME NEW size \in Nat, NEW off \in Nat, NEW left \in Nat, off <= size
  PROVE  /\ Taken(size, off, left) \in Nat
         /\ Taken(size, off, left) <= left
         /\ off + Taken(size, off, left) <= size
         /\ Taken(size, off, left) # left
              => off + Taken(size, off, left) = size
BY DEF Taken, Min2

\* ... and the bytes it brings.
LEMMA CopiedProperties ==
  ASSUME TypeOK, NEW b \in Piece, NEW off \in Nat, NEW to \in Nat,
         NEW num \in Nat,
         to + num <= BufferSize + 1,
         b.at + off = avPos + to,
         \A k \in 0 .. to - 1 : current[k] = avPos + k
  PROVE  /\ Copied(b, off, to, num) \in [0 .. BufferSize -> Int]
         /\ \A k \in 0 .. to + num - 1 : Copied(b, off, to, num)[k] = avPos + k
<1>1. b.at \in Nat /\ BufferSize \in Nat /\ avPos \in Nat
  BY SizeAssumption DEF Piece, TypeOK
<1>2. current \in [0 .. BufferSize -> Int]
  BY DEF TypeOK
<1>3. ASSUME NEW k \in 0 .. BufferSize
      PROVE  (IF k \in to .. to + num - 1 THEN b.at + off + (k - to)
                                          ELSE current[k]) \in Int
  BY <1>1, <1>2
<1>4. Copied(b, off, to, num) \in [0 .. BufferSize -> Int]
  BY <1>3 DEF Copied
<1>5. ASSUME NEW k \in 0 .. to + num - 1
      PROVE  Copied(b, off, to, num)[k] = avPos + k
  <2>1. k \in 0 .. BufferSize
    BY <1>1
  <2>2. Copied(b, off, to, num)[k] =
          IF k \in to .. to + num - 1 THEN b.at + off + (k - to)
                                      ELSE current[k]
    BY <2>1 DEF Copied
  <2>3. CASE k < to
    BY <2>2, <2>3
  <2>4. CASE ~ (k < to)
    <3>1. b.at + off + (k - to) = avPos + k
      BY <1>1
    <3> QED
      BY <2>2, <2>4, <3>1
  <2> QED
    BY <2>3, <2>4
<1> QED
  BY <1>4, <1>5

\* A copy that IInv allows.
LEMMA CopyFacts ==
  ASSUME IInv, CanCopy
  PROVE  /\ Num \in Nat /\ Num <= rem /\ bufoff + Num <= mbuf.size
         /\ Num # rem => bufoff + Num = mbuf.size
         /\ bufoff < mbuf.size
         /\ lastoff = mbuf.at
         /\ Copied(mbuf, bufoff, where, Num) \in [0 .. BufferSize -> Int]
         /\ \A k \in 0 .. where + Num - 1 :
              Copied(mbuf, bufoff, where, Num)[k] = avPos + k
<1>0. TypeOK /\ WindowInv /\ CursorInv /\ CopyInv
  BY DEF IInv
<1>9. /\ bufoff \in Nat /\ rem \in Nat /\ where \in Nat /\ avPos \in Nat
      /\ PacketSize \in Nat /\ BufferSize \in Nat
      /\ PacketSize <= BufferSize + 1
  BY <1>0, DemuxerNumbers
<1>1. ~PastTheEnd /\ pc = "copy" /\ Reading
  BY DEF CanCopy, Reading
<1>2. /\ mbuf.at \in Nat /\ mbuf.size \in Nat /\ bufpos < Len(mBuffers)
      /\ bufpos + 1 \in 1 .. Len(mBuffers)
      /\ StartOf(mBuffers, fed, bufpos + 1) = mbuf.at
  BY <1>0, <1>1, CurrentBuffer, DemuxerNumbers
<1>3. /\ bufoff < mbuf.size /\ lastoff = mbuf.at
      /\ lastoff + bufoff = avPos + where
      /\ rem + where = PacketSize
      /\ \A k \in 0 .. where - 1 : current[k] = avPos + k
  BY <1>0, <1>1, <1>2 DEF CursorInv, CopyInv, InBuffer, mbuf
<1>4. /\ Num \in Nat /\ Num <= rem /\ bufoff + Num <= mbuf.size
      /\ Num # rem => bufoff + Num = mbuf.size
  <2>1. bufoff <= mbuf.size
    BY <1>2, <1>3, <1>9
  <2> QED
    BY <1>2, <1>9, <2>1, TakenProperties DEF Num
<1>5. mbuf \in Piece
  BY <1>0, <1>2, DemuxerNumbers DEF mbuf
<1>6. /\ where + Num <= BufferSize + 1
      /\ mbuf.at + bufoff = avPos + where
  BY <1>2, <1>3, <1>4, <1>9
<1>7. /\ Copied(mbuf, bufoff, where, Num) \in [0 .. BufferSize -> Int]
      /\ \A k \in 0 .. where + Num - 1 :
           Copied(mbuf, bufoff, where, Num)[k] = avPos + k
  BY <1>0, <1>3, <1>4, <1>5, <1>6, <1>9, CopiedProperties
<1> QED
  BY <1>3, <1>4, <1>7

-----------------------------------------------------------------------------
(* The invariant is inductive: one lemma per action. *)

LEMMA DemuxerInit == Init => IInv
<1> SUFFICES ASSUME Init PROVE IInv
  OBVIOUS
<1>1. Len(mBuffers) = 0 /\ mBuffers = <<>>
  BY DEF Init
<1>2. TypeOK
  BY SizeAssumption DEF Init, TypeOK
<1>3. WindowInv
  BY <1>1 DEF Init, WindowInv, Chain, Front, StartOf
<1>4. PlaceInv
  BY SizeAssumption DEF Init, PlaceInv
<1> QED
  BY <1>2, <1>3, <1>4
     DEF Init, IInv, CursorInv, Reading, SkipInv, CopyInv, RemInv, ResultInv

\* feed() extends the piece of the stream and nothing else.
LEMMA FeedStep ==
  ASSUME IInv, NEW n \in 1 .. MaxChunk, Feed(n)
  PROVE  IInv'
<1>1. TypeOK /\ WindowInv /\ PlaceInv /\ fed \in Nat /\ n \in Nat \ {0}
  BY StreamAssumption DEF IInv, TypeOK
<1>2. /\ mBuffers' \in Seq(Piece)
      /\ Chain(mBuffers', fed')
      /\ Front(mBuffers', mBufferOffset', lastOffset', fed')
  BY <1>1, DemuxerNumbers, AppendChain DEF Feed, WindowInv
<1>3. TypeOK'
  BY <1>1, <1>2 DEF Feed, TypeOK, Piece, locals
<1>4. PlaceInv'
  BY <1>1 DEF Feed, PlaceInv
<1> QED
  BY <1>2, <1>3, <1>4 DEF Feed, IInv, WindowInv, CursorInv, Reading, SkipInv,
                          CopyInv, RemInv, ResultInv

\* ReadAV is entered with a place in the first buffer, if there is one.
LEMMA ReadStep == ASSUME IInv, ReadAV PROVE IInv'
<1>1. TypeOK /\ WindowInv /\ PlaceInv
  BY DEF IInv
<1>2. /\ avPos \in Nat /\ lastOffset \in Nat /\ avPos >= lastOffset
      /\ mBufferOffset \in Nat /\ PacketSize \in Nat /\ PacketSize > 1
      /\ Len(mBuffers) \in Nat
  BY <1>1, DemuxerNumbers DEF ReadAV, ReadAllowed
<1>3. TypeOK'
  BY <1>1, <1>2 DEF ReadAV, TypeOK, queue
<1>4. WindowInv'
  BY <1>1 DEF ReadAV, WindowInv, queue
<1>5. PlaceInv'
  BY <1>1 DEF ReadAV, PlaceInv, queue
<1>6. lastOffset = StartOf(mBuffers, fed, 1)
  BY <1>1 DEF WindowInv, Front
<1>7. CursorInv'
  BY <1>2, <1>6 DEF ReadAV, CursorInv, StartOf, queue
<1>8. SkipInv'
  BY <1>2 DEF ReadAV, SkipInv, queue
<1>9. CopyInv' /\ RemInv'
  <2>1. CASE avPos > 0
    BY <2>1 DEF ReadAV, CopyInv, RemInv
  <2>2. CASE ~ (avPos > 0)
    <3>1. avPos = 0 /\ lastOffset = 0 /\ mBufferOffset = 0
      BY <1>1, <1>2, <2>2 DEF ReadAV, PlaceInv
    <3>2. IF 0 < Len(mBuffers) THEN 0 < mBuffers[1].size ELSE TRUE
      BY <1>1, <1>2, <3>1, WindowBounds
    <3>3. InBuffer'
      BY <3>1, <3>2 DEF ReadAV, InBuffer, queue
    <3> QED
      BY <1>2, <3>1, <3>3 DEF ReadAV, CopyInv, RemInv, queue
  <2> QED
    BY <2>1, <2>2
<1> QED
  BY <1>2, <1>3, <1>4, <1>5, <1>7, <1>8, <1>9 DEF ReadAV, IInv, ResultInv

\* A read that runs out was asked for more than there is.
LEMMA UnderrunStep == ASSUME IInv, Underrun PROVE IInv'
<1>1. TypeOK /\ WindowInv /\ PlaceInv /\ CursorInv /\ SkipInv /\ CopyInv
      /\ RemInv
  BY DEF IInv
<1>2. /\ bufpos \in Nat /\ Len(mBuffers) \in Nat /\ fed \in Nat
      /\ avPos \in Nat /\ where \in Nat /\ rem \in Nat /\ skiprem \in Nat
      /\ PacketSize \in Nat /\ PacketSize > 1
  BY <1>1, DemuxerNumbers
<1>3. TypeOK' /\ WindowInv'
  BY <1>1 DEF Underrun, TypeOK, WindowInv, queue, locals
<1>4. PlaceInv'
  BY <1>1 DEF Underrun, PlaceInv, queue
<1>5. bufpos = Len(mBuffers) /\ lastoff = fed /\ rem + where = PacketSize
  BY <1>1, <1>2 DEF Underrun, PastTheEnd, CursorInv, Reading, StartOf
<1>6. fed < avPos + PacketSize
  <2>1. CASE pc = "skip"
    BY <1>1, <1>2, <1>5, <2>1 DEF SkipInv
  <2>2. CASE pc = "copy"
    <3>1. bufoff = 0 /\ fed = avPos + where /\ rem > 0
      BY <1>1, <1>2, <1>5, <2>2 DEF CopyInv, InBuffer, RemInv
    <3> QED
      BY <1>2, <1>5, <3>1
  <2> QED
    BY <2>1, <2>2 DEF Underrun
<1> QED
  BY <1>3, <1>4, <1>6 DEF Underrun, IInv, CursorInv, Reading, SkipInv,
                          CopyInv, RemInv, ResultInv

\* The byte to start at lies in the first buffer: the skipping loop never
\* goes on to a second one.
LEMMA SkipStaysInFirst ==
  ASSUME IInv, Skip
  PROVE  /\ bufpos = 0 /\ skiprem < mbuf.size /\ mbuf.size \in Nat
         /\ lastoff + skiprem = avPos
<1>1. TypeOK /\ WindowInv /\ PlaceInv /\ CursorInv /\ SkipInv
  BY DEF IInv
<1>2. /\ bufpos = 0 /\ lastoff + skiprem = avPos
      /\ lastoff = StartOf(mBuffers, fed, 1)
      /\ avPos <= lastOffset + mBufferOffset
  BY <1>1 DEF Skip, SkipInv, CursorInv, Reading, PlaceInv
<1>3. Len(mBuffers) > 0
  BY <1>1, <1>2, DemuxerNumbers DEF Skip, PastTheEnd
<1>4. /\ mBufferOffset < mbuf.size /\ mbuf.size \in Nat
      /\ lastOffset = lastoff
  BY <1>1, <1>2, <1>3, WindowBounds DEF mbuf, WindowInv, Front
<1>5. /\ lastOffset \in Nat /\ mBufferOffset \in Nat /\ skiprem \in Nat
      /\ avPos \in Nat
  BY <1>1, DemuxerNumbers
<1> QED
  BY <1>2, <1>4, <1>5

LEMMA SkipStep == ASSUME IInv, Skip PROVE IInv'
<1>1. TypeOK /\ WindowInv /\ PlaceInv /\ CursorInv /\ SkipInv
  BY DEF IInv
<1>2. /\ bufpos = 0 /\ skiprem < mbuf.size /\ mbuf.size \in Nat
      /\ lastoff + skiprem = avPos
  BY SkipStaysInFirst
<1>3. /\ skiprem \in Nat /\ Len(mBuffers) \in Nat /\ bufpos < Len(mBuffers)
      /\ rem \in Nat /\ where \in Nat /\ PacketSize > 1
      /\ PacketSize \in Nat /\ lastoff \in Nat /\ avPos \in Nat
  BY <1>1, DemuxerNumbers DEF Skip, PastTheEnd
<1>4. /\ bufoff' = skiprem /\ pc' = "copy" /\ pc = "skip"
      /\ UNCHANGED <<skiprem, lastoff, bufpos, rem, where, queue, current,
                     avPos, fed>>
  BY <1>2, <1>3 DEF Skip
<1>5. TypeOK' /\ WindowInv'
  BY <1>1, <1>3, <1>4 DEF TypeOK, WindowInv, queue
<1>6. PlaceInv' /\ CursorInv'
  BY <1>1, <1>4 DEF PlaceInv, CursorInv, Reading, queue
<1>7. where = 0 /\ rem + where = PacketSize
  BY <1>1, <1>4 DEF SkipInv, CursorInv, Reading
<1>8. InBuffer'
  BY <1>2, <1>3, <1>4 DEF InBuffer, mbuf, queue
<1>9. CopyInv' /\ RemInv'
  BY <1>2, <1>3, <1>4, <1>7, <1>8 DEF CopyInv, RemInv
<1> QED
  BY <1>4, <1>5, <1>6, <1>9 DEF IInv, SkipInv, ResultInv

\* No buffer is empty.
LEMMA BuffersHaveBytes ==
  ASSUME TypeOK, NEW m \in Nat, m < Len(mBuffers)
  PROVE  0 < mBuffers[m + 1].size
<1>1. m + 1 \in 1 .. Len(mBuffers)
  BY DemuxerNumbers
<1>2. mBuffers[m + 1].size \in Nat \ {0}
  BY <1>1, DemuxerNumbers, PieceTypes
<1> QED
  BY <1>2

LEMMA CopyOnStep == ASSUME IInv, CopyOn PROVE IInv'
<1>1. TypeOK /\ WindowInv /\ PlaceInv /\ CursorInv /\ CopyInv /\ RemInv
  BY DEF IInv
<1>2. CanCopy /\ ~PastTheEnd /\ pc = "copy" /\ pc' = "copy"
  BY DEF CopyOn, CanCopy
<1>3. /\ Num \in Nat /\ Num <= rem /\ bufoff + Num = mbuf.size
      /\ lastoff = mbuf.at /\ Num # rem
      /\ current' \in [0 .. BufferSize -> Int]
      /\ \A k \in 0 .. where + Num - 1 : current'[k] = avPos + k
  BY <1>2, CopyFacts DEF CopyOn
<1>4. /\ rem' = rem - Num /\ where' = where + Num /\ bufoff' = 0
      /\ lastoff' = lastoff + mbuf.size /\ bufpos' = bufpos + 1
      /\ UNCHANGED <<queue, avPos, fed, skiprem>>
  BY DEF CopyOn, NextBufferOffset
<1>5. /\ mbuf.at \in Nat /\ mbuf.size \in Nat
      /\ bufpos + 1 <= Len(mBuffers)
      /\ mbuf.at + mbuf.size = StartOf(mBuffers, fed, bufpos + 2)
  BY <1>1, <1>2, CurrentBuffer
<1>6. /\ rem \in Nat /\ where \in Nat /\ bufpos \in Nat /\ bufoff \in Nat
      /\ avPos \in Nat /\ lastoff \in Nat /\ Len(mBuffers) \in Nat
      /\ PacketSize \in Nat
  BY <1>1, DemuxerNumbers
<1>7. /\ lastOffset <= avPos /\ rem + where = PacketSize
      /\ lastoff + bufoff = avPos + where
  BY <1>1, <1>2 DEF CursorInv, Reading, CopyInv
<1>8. rem' \in Nat /\ where' \in Nat /\ lastoff' \in Nat /\ bufpos' \in Nat
  BY <1>3, <1>4, <1>5, <1>6
<1>9. TypeOK'
  BY <1>1, <1>2, <1>3, <1>4, <1>8 DEF TypeOK, queue
<1>10. WindowInv' /\ PlaceInv'
  BY <1>1, <1>2, <1>4 DEF WindowInv, PlaceInv, queue
<1>11. /\ bufpos' + 1 = bufpos + 2 /\ rem' + where' = PacketSize
       /\ lastoff' = mbuf.at + mbuf.size
       /\ lastoff' + bufoff' = avPos + where'
       /\ rem' > 0
  BY <1>3, <1>4, <1>5, <1>6, <1>7
<1>12. CursorInv'
  BY <1>2, <1>4, <1>5, <1>7, <1>11 DEF CursorInv, Reading, queue
<1>13. InBuffer'
  <2>1. CASE bufpos + 1 < Len(mBuffers)
    <3>1. bufpos' < Len(mBuffers)
      BY <1>4, <2>1
    <3>2. 0 < mBuffers[bufpos' + 1].size
      BY <1>1, <1>8, <3>1, BuffersHaveBytes
    <3> QED
      BY <1>4, <2>1, <3>2 DEF InBuffer, queue
  <2>2. CASE ~ (bufpos + 1 < Len(mBuffers))
    BY <1>4, <2>2 DEF InBuffer, queue
  <2> QED
    BY <2>1, <2>2
<1>14. ASSUME NEW k \in 0 .. where' - 1
       PROVE  current'[k] = avPos + k
  <2>1. where' = where + Num /\ where \in Nat /\ Num \in Nat
    BY <1>3, <1>4, <1>6
  <2>2. k \in 0 .. where + Num - 1
    BY <2>1
  <2> QED
    BY <1>3, <2>2
<1>15. CopyInv' /\ RemInv'
  BY <1>2, <1>4, <1>11, <1>13, <1>14 DEF CopyInv, RemInv
<1> QED
  BY <1>2, <1>9, <1>10, <1>12, <1>15 DEF IInv, SkipInv, ResultInv

LEMMA CopyLastStep == ASSUME IInv, CopyLast PROVE IInv'
<1>1. TypeOK /\ WindowInv /\ PlaceInv /\ CursorInv /\ CopyInv /\ RemInv
  BY DEF IInv
<1>2. CanCopy /\ ~PastTheEnd /\ pc = "copy" /\ pc' = "return"
  BY DEF CopyLast, CanCopy
<1>3. /\ Num \in Nat /\ bufoff + Num <= mbuf.size
      /\ lastoff = mbuf.at /\ Num = rem
      /\ current' \in [0 .. BufferSize -> Int]
      /\ \A k \in 0 .. where + Num - 1 : current'[k] = avPos + k
  BY <1>2, CopyFacts DEF CopyLast
<1>4. /\ rem' = 0 /\ where' = where + Num
      /\ UNCHANGED <<queue, avPos, fed, skiprem>>
  BY DEF CopyLast
<1>5. /\ mbuf.at \in Nat /\ mbuf.size \in Nat /\ mbuf.size > 0
      /\ bufpos + 1 \in 1 .. Len(mBuffers)
      /\ mbuf.at + mbuf.size = StartOf(mBuffers, fed, bufpos + 2)
      /\ mbuf.at = StartOf(mBuffers, fed, bufpos + 1)
  BY <1>1, <1>2, CurrentBuffer
<1>6. /\ rem \in Nat /\ where \in Nat /\ bufpos \in Nat /\ bufoff \in Nat
      /\ avPos \in Nat /\ lastoff \in Nat /\ Len(mBuffers) \in Nat
      /\ PacketSize \in Nat
  BY <1>1, DemuxerNumbers
<1>7. /\ lastOffset <= avPos /\ rem + where = PacketSize
      /\ lastoff + bufoff = avPos + where
  BY <1>1, <1>2 DEF CursorInv, Reading, CopyInv
<1>8. where' = PacketSize /\ where' \in Nat
  BY <1>3, <1>4, <1>6, <1>7
<1>9. /\ bufpos' \in Nat /\ bufoff' \in Nat /\ lastoff' \in Nat
      /\ bufpos' <= Len(mBuffers)
      /\ lastoff' = StartOf(mBuffers, fed, bufpos' + 1)
      /\ lastoff' + bufoff' = avPos + where'
      /\ InBuffer'
  <2>1. CASE Num = mbuf.size - bufoff
    <3>1. bufpos' = bufpos + 1 /\ lastoff' = lastoff + mbuf.size /\ bufoff' = 0
      BY <2>1 DEF CopyLast, EndOfRead
    <3>2. bufpos' + 1 = bufpos + 2 /\ bufoff + Num = mbuf.size
      BY <1>3, <1>5, <1>6, <2>1, <3>1
    <3>3. /\ bufpos' \in Nat /\ bufoff' \in Nat /\ lastoff' \in Nat
          /\ bufpos' <= Len(mBuffers)
      BY <1>5, <1>6, <3>1
    <3>6. lastoff' + bufoff' = avPos + where'
      <4>1. lastoff' + bufoff' = lastoff + (bufoff + Num)
        BY <1>6, <3>1, <3>2
      <4> QED
        BY <1>3, <1>4, <1>6, <1>7, <4>1
    <3>4. lastoff' = StartOf(mBuffers, fed, bufpos' + 1)
      BY <1>3, <1>5, <3>1, <3>2
    <3>5. InBuffer'
      <4>1. CASE bufpos' < Len(mBuffers)
        <5>1. 0 < mBuffers[bufpos' + 1].size
          BY <1>1, <3>3, <4>1, BuffersHaveBytes
        <5> QED
          BY <1>4, <3>1, <4>1, <5>1 DEF InBuffer, queue
      <4>2. CASE ~ (bufpos' < Len(mBuffers))
        BY <1>4, <3>1, <4>2 DEF InBuffer, queue
      <4> QED
        BY <4>1, <4>2
    <3> QED
      BY <3>3, <3>4, <3>5, <3>6
  <2>2. CASE Num # mbuf.size - bufoff
    <3>1. /\ bufpos' = bufpos + 0 /\ lastoff' = lastoff + 0
          /\ bufoff' = bufoff + Num
      BY <2>2 DEF CopyLast, EndOfRead
    <3>2. bufpos' = bufpos /\ lastoff' = lastoff
      BY <1>6, <3>1
    <3>3. bufoff' < mbuf.size /\ bufoff' \in Nat
      <4>1. bufoff + Num # mbuf.size
        BY <1>3, <1>5, <1>6, <2>2
      <4> QED
        BY <1>3, <1>5, <1>6, <3>1, <4>1
    <3>4. bufpos' < Len(mBuffers)
      BY <1>5, <1>6, <3>2
    <3>6. lastoff' + bufoff' = avPos + where'
      <4>1. lastoff' + bufoff' = (lastoff + bufoff) + Num
        BY <1>3, <1>6, <3>1, <3>2
      <4> QED
        BY <1>3, <1>4, <1>6, <1>7, <4>1
    <3>5. InBuffer'
      BY <1>4, <3>2, <3>3, <3>4 DEF InBuffer, mbuf, queue
    <3> QED
      BY <1>3, <1>5, <1>6, <3>2, <3>3, <3>4, <3>5, <3>6
  <2> QED
    BY <2>1, <2>2
<1>10. TypeOK'
  BY <1>1, <1>2, <1>3, <1>4, <1>8, <1>9 DEF TypeOK, queue
<1>11. WindowInv' /\ PlaceInv'
  BY <1>1, <1>2, <1>4 DEF WindowInv, PlaceInv, queue
<1>12. CursorInv'
  BY <1>2, <1>4, <1>6, <1>7, <1>8, <1>9 DEF CursorInv, Reading, queue
<1>13. ASSUME NEW k \in 0 .. where' - 1
       PROVE  current'[k] = avPos + k
  <2>1. where' = where + Num /\ where \in Nat /\ Num \in Nat
    BY <1>3, <1>4, <1>6
  <2>2. k \in 0 .. where + Num - 1
    BY <2>1
  <2> QED
    BY <1>3, <2>2
<1>14. CopyInv' /\ RemInv'
  BY <1>2, <1>4, <1>9, <1>13 DEF CopyInv, RemInv
<1> QED
  BY <1>2, <1>10, <1>11, <1>12, <1>14 DEF IInv, SkipInv, ResultInv

\* ReadAV drops the buffers before the place where the packet ended.
LEMMA ReturnStep == ASSUME IInv, Return PROVE IInv'
<1>1. TypeOK /\ WindowInv /\ PlaceInv /\ CursorInv /\ CopyInv /\ RemInv
  BY DEF IInv
<1>2. /\ pc = "return" /\ pc' = "data" /\ Reading
      /\ mBuffers' = SubSeq(mBuffers, bufpos + 1, Len(mBuffers))
      /\ mBufferOffset' = bufoff /\ lastOffset' = lastoff
      /\ UNCHANGED <<current, avPos, fed, locals>>
  BY DEF Return, Advanced, Reading
<1>3. /\ mBuffers \in Seq(Piece) /\ fed \in Nat /\ bufoff \in Nat
      /\ bufpos \in Nat /\ Len(mBuffers) \in Nat /\ where \in Nat
      /\ lastoff \in Nat /\ PacketSize \in Nat
  BY <1>1, DemuxerNumbers
<1>4. /\ bufpos \in 0 .. Len(mBuffers) /\ rem = 0 /\ rem + where = PacketSize
      /\ lastoff = StartOf(mBuffers, fed, bufpos + 1)
      /\ lastoff + bufoff = avPos + where
      /\ IF bufpos < Len(mBuffers) THEN bufoff < mBuffers[bufpos + 1].size
                                   ELSE bufoff = 0
      /\ \A k \in 0 .. where - 1 : current[k] = avPos + k
  BY <1>1, <1>2, <1>3 DEF CursorInv, CopyInv, InBuffer, RemInv
<1>5. /\ mBuffers' \in Seq(Piece)
      /\ Chain(mBuffers', fed)
      /\ Front(mBuffers', bufoff, lastoff, fed)
  BY <1>1, <1>2, <1>3, <1>4, DropChain DEF WindowInv
<1>6. TypeOK'
  BY <1>1, <1>2, <1>3, <1>5 DEF TypeOK, Piece, locals
<1>7. WindowInv'
  BY <1>2, <1>5 DEF WindowInv
<1>8. where = PacketSize
  BY <1>3, <1>4
<1>9. PlaceInv'
  BY <1>2, <1>4, <1>8 DEF PlaceInv
<1>10. ResultInv'
  BY <1>2, <1>4, <1>8 DEF ResultInv
<1> QED
  BY <1>2, <1>6, <1>7, <1>9, <1>10
     DEF IInv, CursorInv, Reading, SkipInv, CopyInv, RemInv

\* The only assertion that can fail is the one on the position.
LEMMA AssertStep == ASSUME IInv, AssertFails PROVE IInv'
<1>1. TypeOK /\ WindowInv /\ PlaceInv /\ CursorInv /\ CopyInv /\ RemInv
  BY DEF IInv
<1>2. /\ pc' = "assertFailed"
      /\ UNCHANGED <<queue, current, avPos, fed, locals>>
  BY DEF AssertFails
<1>3. /\ avPos \in Nat /\ lastOffset \in Nat /\ bufpos \in Nat
      /\ Len(mBuffers) \in Nat
  BY <1>1, DemuxerNumbers
<1>4. pc = "copy" => CopyAllowed
  BY <1>1, <1>3 DEF RemInv, CopyAllowed
<1>5. pc = "return" => ReturnAllowed
  BY <1>1, <1>3 DEF RemInv, CursorInv, CopyInv, InBuffer, Reading,
                    ReturnAllowed
<1>6. pc = "resync" /\ ~ReadAllowed
  BY <1>4, <1>5 DEF AssertFails
<1>7. avPos < lastOffset
  BY <1>3, <1>6, SizeAssumption DEF ReadAllowed
<1>8. TypeOK' /\ WindowInv' /\ PlaceInv'
  BY <1>1, <1>2, <1>6 DEF TypeOK, WindowInv, PlaceInv, queue, locals
<1> QED
  BY <1>2, <1>7, <1>8 DEF IInv, CursorInv, Reading, SkipInv, CopyInv, RemInv,
                          ResultInv, queue

\* The steps outside ReadAV: the library moves on by a packet, or by less.
LEMMA LibraryStep ==
  ASSUME IInv, NoData \/ InSync \/ OutOfSync \/ GoNext \/ Shift
  PROVE  IInv'
<1>1. TypeOK /\ WindowInv /\ PlaceInv /\ ResultInv
  BY DEF IInv
<1>2. /\ avPos \in Nat /\ lastOffset \in Nat /\ mBufferOffset \in Nat
      /\ PacketSize \in Nat /\ PacketSize > 1
  BY <1>1, DemuxerNumbers
<1>3. UNCHANGED <<queue, current, fed, locals>>
  BY DEF NoData, InSync, OutOfSync, GoNext, Shift
<1>4. /\ pc \in {"null", "data", "packet"}
      /\ pc' \in {"idle", "packet", "resync"}
      /\ avPos' \in {avPos, avPos + 1, avPos + PacketSize}
  BY DEF NoData, InSync, OutOfSync, GoNext, Shift, AfterNull, AfterPacket
<1>5. TypeOK'
  BY <1>1, <1>2, <1>3, <1>4 DEF TypeOK, queue, locals
<1>6. WindowInv'
  BY <1>1, <1>3 DEF WindowInv, queue
<1>7. PlaceInv' /\ ResultInv'
  <2>1. CASE NoData
    BY <1>1, <1>3, <2>1 DEF NoData, PlaceInv, ResultInv, queue, AfterNull
  <2>2. CASE InSync
    BY <1>1, <1>3, <2>2 DEF InSync, PlaceInv, ResultInv, queue
  <2>3. CASE OutOfSync \/ GoNext \/ Shift
    <3>1. /\ pc \in {"data", "packet"} /\ pc' \in {"idle", "resync"}
          /\ avPos' \in {avPos + 1, avPos + PacketSize}
      BY <2>3 DEF OutOfSync, GoNext, Shift, AfterPacket
    <3>2. avPos + PacketSize = lastOffset + mBufferOffset
      BY <1>1, <3>1 DEF PlaceInv
    <3>3. /\ avPos' <= lastOffset + mBufferOffset
          /\ avPos' + PacketSize > lastOffset
          /\ avPos' # 0
      <4>1. CASE avPos' = avPos + 1
        BY <1>2, <3>2, <4>1
      <4>2. CASE avPos' = avPos + PacketSize
        BY <1>2, <3>2, <4>2
      <4> QED
        BY <3>1, <4>1, <4>2
    <3> QED
      BY <1>3, <3>1, <3>3 DEF PlaceInv, ResultInv, queue
  <2> QED
    BY <2>1, <2>2, <2>3
<1> QED
  BY <1>4, <1>5, <1>6, <1>7 DEF IInv, CursorInv, Reading, SkipInv, CopyInv,
                                RemInv

LEMMA DemuxerStep == ASSUME IInv, [Next]_vars PROVE IInv'
<1>1. CASE UNCHANGED vars
  BY <1>1 DEF IInv, TypeOK, WindowInv, PlaceInv, CursorInv, Reading, SkipInv,
              CopyInv, InBuffer, RemInv, ResultInv, vars, queue, locals
<1>2. CASE \E n \in 1 .. MaxChunk : Feed(n)
  BY <1>2, FeedStep
<1>3. CASE Step
  BY <1>3, ReadStep, UnderrunStep, SkipStep, CopyOnStep, CopyLastStep,
     ReturnStep, AssertStep, LibraryStep DEF Step
<1> QED
  BY <1>1, <1>2, <1>3 DEF Next

LEMMA DemuxerInvariant == Spec => []IInv
  BY DemuxerInit, DemuxerStep, PTL DEF Spec

-----------------------------------------------------------------------------
(* The theorems. *)

\* The variables keep their types: no unsigned local of ReadAV goes below
\* zero, whatever is fed and however the library moves.
THEOREM DemuxerTypes == Spec => []TypeOK
<1>1. IInv => TypeOK
  BY DEF IInv
<1> QED
  BY <1>1, DemuxerInvariant, PTL

\* A read returns the bytes it was asked for, or too few have arrived.
THEOREM ReadsAreRight == Spec => []ReadReturns
<1>1. IInv => ReadReturns
  BY DEF IInv, ResultInv, ReadReturns
<1> QED
  BY <1>1, DemuxerInvariant, PTL

\* The buffers kept are the stream from lastOffset to its end.
THEOREM BuffersMatch == Spec => []BuffersMatchOffset
<1>1. ASSUME IInv PROVE BuffersMatchOffset
  <2>1. TypeOK /\ WindowInv
    BY <1>1 DEF IInv
  <2>2. ASSUME NEW n \in 1 .. Len(mBuffers)
        PROVE  mBuffers[n].at + mBuffers[n].size =
                 IF n < Len(mBuffers) THEN mBuffers[n + 1].at ELSE fed
    <3>1. n \in Nat /\ Len(mBuffers) \in Nat
      BY <2>1, DemuxerNumbers
    <3>2. n < Len(mBuffers) <=> n + 1 <= Len(mBuffers)
      BY <3>1
    <3> QED
      BY <2>1, <3>2 DEF WindowInv, Chain, StartOf
  <2>3. IF mBuffers = <<>> THEN lastOffset = fed /\ mBufferOffset = 0
                           ELSE /\ lastOffset = mBuffers[1].at
                                /\ mBufferOffset < mBuffers[1].size
    <3>1. CASE mBuffers = <<>>
      <4>1. Len(mBuffers) = 0
        BY <3>1
      <4> QED
        BY <2>1, <3>1, <4>1, WindowBounds
    <3>2. CASE mBuffers # <<>>
      <4>1. Len(mBuffers) > 0
        BY <2>1, <3>2, DemuxerNumbers
      <4> QED
        BY <2>1, <3>2, <4>1, WindowBounds
    <3> QED
      BY <3>1, <3>2
  <2> QED
    BY <2>2, <2>3 DEF BuffersMatchOffset
<1> QED
  BY <1>1, DemuxerInvariant, PTL

\* Only the assertion on the position can fail, and only by less than a
\* packet.
THEOREM OnlyRewinds == Spec => []OnlyRewindAsserts
<1>1. IInv => OnlyRewindAsserts
  BY DEF IInv, ResultInv, PlaceInv, OnlyRewindAsserts
<1> QED
  BY <1>1, DemuxerInvariant, PTL

\* feed() leaves a whole packet only when the library gave up.
THEOREM FeedTakesAll == Spec => NothingLeft
<1>1. IInv /\ [Next]_vars
      => [pc # "idle" /\ pc' = "idle" /\ pc # "data"
            => fed < avPos' + PacketSize]_vars
  <2> SUFFICES ASSUME IInv, Next, pc # "idle", pc' = "idle", pc # "data"
               PROVE  fed < avPos' + PacketSize
    OBVIOUS
  <2>1. NoData
    BY DEF Next, Feed, Step, ReadAV, Underrun, Skip, CopyOn, CopyLast, Return,
           AssertFails, InSync, OutOfSync, GoNext, Shift, CanCopy, AfterPacket
  <2> QED
    BY <2>1 DEF NoData, IInv, ResultInv
<1> QED
  BY <1>1, DemuxerInvariant, PTL DEF Spec, NothingLeft

\* As long as the stream is in order the library stands at the end of the
\* last packet, so no assertion fails.
TidyInv == /\ pc # "assertFailed"
           /\ pc \notin {"data", "packet"} => avPos = lastOffset + mBufferOffset

THEOREM NoAssertFails == ASSUME Disorder = {} PROVE Spec => []AssertsHold
<1>1. Init => TidyInv
  BY DEF Init, TidyInv
<1>2. IInv /\ TidyInv /\ [Next]_vars => TidyInv'
  <2> SUFFICES ASSUME IInv, TidyInv, [Next]_vars PROVE TidyInv'
    OBVIOUS
  <2>1. TypeOK /\ PlaceInv /\ IInv'
    BY DemuxerStep DEF IInv
  <2>2. /\ avPos \in Nat /\ lastOffset \in Nat /\ mBufferOffset \in Nat
        /\ PacketSize \in Nat
    BY <2>1, DemuxerNumbers
  <2>3. CASE UNCHANGED vars
    BY <2>3 DEF TidyInv, vars, queue
  <2>4. CASE \E n \in 1 .. MaxChunk : Feed(n)
    BY <2>4 DEF TidyInv, Feed
  <2>5. CASE ReadAV \/ Underrun \/ Skip \/ CopyOn \/ CopyLast \/ NoData
    BY <2>5 DEF TidyInv, ReadAV, Underrun, Skip, CopyOn, CopyLast, NoData,
                CanCopy, AfterNull, queue
  <2>6. CASE Return \/ InSync
    BY <2>6 DEF TidyInv, Return, InSync
  <2>7. CASE GoNext
    BY <2>1, <2>7 DEF TidyInv, PlaceInv, GoNext, AfterPacket, queue
  <2>8. CASE OutOfSync \/ Shift
    BY <2>8 DEF OutOfSync, Shift
  <2>9. CASE AssertFails
    <3>1. avPos' < lastOffset' /\ UNCHANGED <<avPos, lastOffset>>
      BY <2>1, <2>9 DEF AssertFails, IInv, ResultInv, queue
    <3>2. pc \notin {"data", "packet"}
      BY <2>9 DEF AssertFails
    <3> QED
      BY <2>2, <3>1, <3>2 DEF TidyInv
  <2> QED
    BY <2>3, <2>4, <2>5, <2>6, <2>7, <2>8, <2>9 DEF Next, Step
<1>3. TidyInv => AssertsHold
  BY DEF TidyInv, AssertsHold
<1> QED
  BY <1>1, <1>2, <1>3, DemuxerInvariant, PTL DEF Spec

-----------------------------------------------------------------------------
(* The demuxer implements PacketFraming. *)

\* A block has a first byte.
LEMMA BlockNotEmpty ==
  ASSUME NEW f, DOMAIN f = 0 .. PacketSize - 1
  PROVE  f # <<>>
<1>1. 0 \in DOMAIN f
  BY SizeAssumption
<1>2. DOMAIN <<>> = 1 .. 0
  OBVIOUS
<1>3. 0 \notin DOMAIN <<>>
  BY <1>2
<1> QED
  BY <1>1, <1>3

\* With a packet in hand it is the block where the library stands.
LEMMA InHandIsBlock ==
  ASSUME IInv, pc \in {"data", "packet"}
  PROVE  [k \in 0 .. PacketSize - 1 |-> current[k]] = Framing!Block(avPos)
BY DEF IInv, ResultInv, Framing!Block

\* The packets are the stream's consecutive blocks, handed on in order.
THEOREM PacketsInOrder == Spec => FramesPackets
<1>1. Init => Framing!Init
  BY DEF Init, Framing!Init, Framing!None
<1>2. IInv /\ [Next]_vars => [Framing!Next]_Framing!vars
  <2> SUFFICES ASSUME IInv, [Next]_vars
               PROVE  Framing!Next \/ UNCHANGED Framing!vars
    OBVIOUS
  <2>1. TypeOK /\ WindowInv /\ PlaceInv /\ IInv'
    BY DemuxerStep DEF IInv
  <2>2. /\ avPos \in Nat /\ lastOffset \in Nat /\ mBufferOffset \in Nat
        /\ PacketSize \in Nat /\ fed \in Nat
        /\ lastOffset + mBufferOffset <= fed
    BY <2>1, DemuxerNumbers, WindowBounds
  <2>3. pc \in {"data", "packet"} => avPos + PacketSize <= fed
    BY <2>1, <2>2 DEF PlaceInv
  <2>4. CASE UNCHANGED vars
    BY <2>4 DEF vars, Framing!vars
  <2>5. ASSUME NEW n \in 1 .. MaxChunk, Feed(n) PROVE Framing!Next
    BY <2>2, <2>5, StreamAssumption
       DEF Feed, Framing!Next, Framing!Arrive, Framing!None
  <2>6. CASE ReadAV \/ Underrun \/ Skip \/ CopyOn \/ CopyLast \/ Return
             \/ AssertFails \/ NoData
    <3>1. pc # "packet" /\ pc' # "packet" /\ UNCHANGED <<avPos, fed>>
      BY <2>6 DEF ReadAV, Underrun, Skip, CopyOn, CopyLast, CanCopy, Return,
                  AssertFails, NoData, AfterNull
    <3> QED
      BY <3>1 DEF Framing!vars
  <2>7. CASE InSync
    <3>1. pc = "data" /\ pc' = "packet" /\ UNCHANGED <<current, avPos, fed>>
      BY <2>7 DEF InSync
    <3>2. [k \in 0 .. PacketSize - 1 |-> current[k]] = Framing!Block(avPos)
      BY <3>1, InHandIsBlock
    <3> QED
      BY <2>3, <3>1, <3>2 DEF Framing!Next, Framing!Hand, Framing!None
  <2>8. CASE OutOfSync
    <3>1. /\ pc = "data" /\ pc' # "packet" /\ avPos' = avPos + 1
          /\ fed' = fed /\ Disorder # {}
      BY <2>8 DEF OutOfSync
    <3> QED
      BY <2>3, <3>1 DEF Framing!Next, Framing!Skip, Framing!None
  <2>9. CASE GoNext \/ Shift
    <3>1. /\ pc = "packet" /\ pc' # "packet" /\ fed' = fed
          /\ \/ avPos' = avPos + PacketSize
             \/ Disorder # {} /\ avPos' = avPos + 1
      BY <2>9 DEF GoNext, Shift, AfterPacket
    <3>2. [k \in 0 .. PacketSize - 1 |-> current[k]] # <<>>
      BY BlockNotEmpty
    <3> QED
      BY <3>1, <3>2 DEF Framing!Next, Framing!Finish, Framing!None
  <2> QED
    BY <2>4, <2>5, <2>6, <2>7, <2>8, <2>9 DEF Next, Step
<1> QED
  BY <1>1, <1>2, DemuxerInvariant, PTL DEF Spec, FramesPackets, Framing!Spec
=============================================================================
