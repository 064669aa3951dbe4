----------------------- MODULE ServerSocketRefinement -----------------------
(***************************************************************************)
(* The proof that the server implements the fan-out of StreamFanout in     *)
(* which clients may miss bytes: send() produces, accept() lets a client   *)
(* join where mBuffer stands, closing it takes it out, and a send() loop   *)
(* that writes something delivers to one client.  Everything else the      *)
(* server does, copies and truncations included, is a stutter.             *)
(***************************************************************************)
EXTENDS ServerSocketProofs

LEMMA ClientOf ==
  ASSUME NEW n \in ClientIndices
  PROVE  sockets[n] \in Listed
BY DEF Listed

LEMMA FanoutInit == Init => Lossy!Init
<1> SUFFICES ASSUME Init PROVE Lossy!Init
  OBVIOUS
<1>1. Listed = {}
  BY DEF Init, Listed, ClientIndices
<1> QED
  BY <1>1 DEF Init, Lossy!Init

\* send(): the stream grows.
LEMMA FanoutProduce ==
  ASSUME StreamInv, NEW n \in 1 .. MaxChunk, Send(n)
  PROVE  Lossy!Produce
<1>1. n \in Nat /\ n > 0 /\ produced \in Nat
  BY BoundsAssumption, StreamTypes
<1>2. produced' = produced + n /\ UNCHANGED <<sockets, next, lost>>
  BY DEF Send, appFrame, listVars, historyVars
<1>3. Listed' = Listed
  BY <1>2 DEF Listed, ClientIndices
<1>4. produced' \in Nat /\ produced' > produced
  BY <1>1, <1>2
<1> QED
  BY <1>2, <1>3, <1>4 DEF Lossy!Produce

\* A client that is accepted starts at a position of the stream.
LEMMA FanoutJoin ==
  ASSUME StreamInv, NEW h \in Handles, AcceptClient(h)
  PROVE  Lossy!Join(h)
<1>1. /\ next' = [next EXCEPT ![h] = Lesser(Cursor(mBuffer), produced)]
      /\ lost' = [lost EXCEPT ![h] = 0] /\ produced' = produced
  BY DEF AcceptClient, appVars
<1>2. Lesser(Cursor(mBuffer), produced) \in 0 .. produced
  <2>1. Cursor(mBuffer) \in Nat /\ produced \in Nat
    BY StreamTypes DEF Cursor, CursorAt
  <2> QED
    BY <2>1 DEF Lesser
<1>3. /\ Len(sockets) \in Nat /\ Len(sockets') = Len(sockets) + 1
      /\ sockets'[Len(sockets) + 1] = h
      /\ \A n \in 1 .. Len(sockets) : sockets'[n] = sockets[n]
      /\ \A n \in ClientIndices : sockets[n] # h
  BY AppendedEntries DEF StreamInv
<1>4. Len(sockets) >= 2
  BY DEF AcceptClient, StreamInv, ListInv
<1>5. \A n \in ClientIndices' : n \in ClientIndices \/ n = Len(sockets) + 1
  BY <1>3 DEF ClientIndices
<1>6. \A n \in ClientIndices : n \in ClientIndices' /\ sockets'[n] = sockets[n]
  BY <1>3 DEF ClientIndices
<1>7. Len(sockets) + 1 \in ClientIndices'
  BY <1>3, <1>4 DEF ClientIndices
<1>8. Listed' = Listed \cup {h}
  BY <1>3, <1>5, <1>6, <1>7 DEF Listed
<1>9. h \notin Listed
  BY <1>3 DEF Listed
<1> QED
  BY <1>1, <1>2, <1>8, <1>9 DEF Lossy!Join

\* A client that is closed leaves.
LEMMA FanoutLeave ==
  ASSUME StreamInv, CloseClient
  PROVE  \E c \in Handles : Lossy!Leave(c)
<1> DEFINE c == sockets[i]
<1>1. /\ Len(sockets) \in Nat /\ i \in 3 .. Len(sockets)
      /\ \A n \in ClientIndices' :
           \E k \in ClientIndices : k # i /\ sockets'[n] = sockets[k]
      /\ \A k \in ClientIndices :
           k # i => \E n \in ClientIndices' : sockets'[n] = sockets[k]
  BY RemovedEntries DEF StreamInv
<1>2. i \in ClientIndices
  BY <1>1 DEF ClientIndices
<1>3. c \in Handles /\ c \in Listed
  BY <1>2, StreamTypes, ClientOf
<1>4. \A k \in ClientIndices : sockets[k] = c <=> k = i
  BY <1>2, StreamTypes
<1> HIDE DEF c
<1>5. Listed' = Listed \ {c}
  BY <1>1, <1>4 DEF Listed
<1>6. UNCHANGED <<produced, next, lost>>
  BY DEF CloseClient, appVars, historyVars
<1>7. Lossy!Leave(c)
  BY <1>3, <1>5, <1>6 DEF Lossy!Leave
<1> QED
  BY <1>3, <1>7

\* A send() loop on a buffer that the client reads from gives it the next
\* bytes of the stream, behind those it may have missed.
LEMMA FanoutDeliver ==
  ASSUME StreamInv, NEW s \in Handles, s \in Listed, NEW b \in Buffers,
         EndsAt(b, produced), b.offset <= b.size,
         next[s] <= CursorAt(b, produced),
         NEW w \in SendResults(s, b.size - b.offset), Written(s, b, w),
         UNCHANGED <<produced, sockets>>
  PROVE  [Lossy!Next]_(Lossy!vars)
<1> DEFINE skip == CursorAt(b, produced) - next[s]
<1>1. Listed' = Listed
  BY DEF Listed, ClientIndices
<1>2. /\ w \in Int /\ (w > 0 => b.size > 0)
      /\ w > 0 => next' = [next EXCEPT ![s] = CursorAt(b, produced) + w]
      /\ ~ (w > 0) => next' = next
  BY WrittenNext
<1>3. Cursor(b) = CursorAt(b, produced)
  BY DEF Cursor, CursorAt
<1>4. CASE ~ (w > 0)
  <2>1. next' = next /\ lost' = lost
    BY <1>4 DEF Written, historyVars
  <2> QED
    BY <1>1, <2>1 DEF Lossy!vars
<1>5. CASE w > 0
  <2>1. lost \in [Handles -> Int] /\ next[s] \in Nat /\ produced \in Nat
    BY StreamTypes DEF StreamInv, TypeInv, TypeOK
  <2>2. lost' = [lost EXCEPT ![s] = @ + Cursor(b) - next[s]]
    BY <1>5 DEF Written
  <2>3. CursorAt(b, produced) \in Nat
    BY <2>1, CursorAtType
  <2>4. skip \in Nat
    BY <2>1, <2>3
  <2>5. lost[s] + Cursor(b) - next[s] = lost[s] + skip
    BY <1>3, <2>1, <2>3
  <2>6. lost' = [lost EXCEPT ![s] = @ + skip]
    BY <2>2, <2>5
  <2>7. CursorAt(b, produced) + w <= produced
    <3>1. b.base \in Nat /\ b.size \in Nat /\ b.offset \in Nat
      BY DEF Buffers
    <3>2. b.size > 0
      BY <1>2, <1>5
    <3>3. b.base + b.size = produced
      BY <3>2 DEF EndsAt
    <3>4. CursorAt(b, produced) = b.base + b.offset
      BY <3>1, <3>2 DEF CursorAt
    <3>5. w <= b.size - b.offset
      <4>1. b.size - b.offset \in Nat
        BY <3>1
      <4> QED
        BY <4>1, SendResultsType DEF StreamInv, TypeInv, TypeOK
    <3> QED
      BY <1>2, <3>1, <3>3, <3>4, <3>5
  <2>8. skip \in 0 .. produced - next[s] - 1
    BY <1>2, <1>5, <2>1, <2>3, <2>4, <2>7
  <2>9. CursorAt(b, produced) + w \in next[s] + skip + 1 .. produced
    BY <1>2, <1>5, <2>1, <2>3, <2>7
  <2>10. next' = [next EXCEPT ![s] = CursorAt(b, produced) + w]
    BY <1>2, <1>5
  <2> HIDE DEF skip
  <2>11. Lossy!Deliver(s)
    BY <1>1, <2>6, <2>8, <2>9, <2>10 DEF Lossy!Deliver
  <2> QED
    BY <2>11 DEF Lossy!Next
<1> QED
  BY <1>4, <1>5

LEMMA FanoutStep ==
  ASSUME "poll" \notin Faults, StreamInv, OrderInv, [Next]_vars
  PROVE  [Lossy!Next]_(Lossy!vars)
<1>1. ASSUME UNCHANGED <<produced, sockets, next, lost>>
      PROVE  UNCHANGED Lossy!vars
  BY <1>1 DEF Lossy!vars, Listed, ClientIndices
<1>2. ASSUME NEW n \in 1 .. MaxChunk, Send(n) PROVE Lossy!Next
  BY <1>2, FanoutProduce DEF Lossy!Next
<1>3. ASSUME NEW h \in Handles, AcceptClient(h) PROVE Lossy!Next
  BY <1>3, FanoutJoin DEF Lossy!Next
<1>4. CASE CloseClient
  BY <1>4, FanoutLeave DEF Lossy!Next
<1>5. CASE ThreadStart
  <2>1. sockets = <<Dummy>> /\ sockets' = Append(<<Dummy>>, Listener)
        /\ UNCHANGED <<produced, next, lost>>
    BY <1>5 DEF ThreadStart, StreamInv, ListInv, appVars, historyVars
  <2>2. Len(sockets) = 1 /\ Len(sockets') = 2
    BY <2>1
  <2>3. Listed = {} /\ Listed' = {}
    BY <2>2 DEF Listed, ClientIndices
  <2> QED
    BY <2>1, <2>3 DEF Lossy!vars
<1>6. ~ ScanFails
  BY DEF ScanFails, Fault
<1>7. CASE WriteBegin \/ WriteEnd
  BY <1>1, <1>7 DEF WriteBegin, WriteEnd, writeFrame, appVars, listVars, historyVars
<1>8. CASE WriteLocal
  <2>1. socki \in ClientIndices /\ sockets[socki] \in localKeys
        /\ UNCHANGED <<produced, sockets>>
    BY <1>8, StreamTypes DEF WriteLocal, ClientIndices, writeFrame, appVars, listVars
  <2>2. InOrderAt(socki) /\ sockets[socki] \in Listed
    BY <2>1, ClientOf DEF OrderInv
  <2> DEFINE s == sockets[socki]
             b == local[s]
  <2>3. PICK w \in SendResults(s, b.size - b.offset) : Written(s, b, w)
    BY <1>8 DEF WriteLocal
  <2>4. /\ s \in Handles /\ b \in Buffers /\ EndsAt(b, produced)
        /\ b.offset <= b.size /\ next[s] <= CursorAt(b, produced)
    BY <1>8, <2>1, <2>2, StreamTypes DEF WriteLocal, InOrderAt
  <2> HIDE DEF b
  <2> QED
    BY <2>1, <2>2, <2>3, <2>4, FanoutDeliver
<1>9. CASE WriteGlobal
  <2>1. socki \in ClientIndices /\ sockets[socki] \notin localKeys
        /\ UNCHANGED <<produced, sockets>>
    BY <1>9, StreamTypes DEF WriteGlobal, ClientIndices, writeFrame, appVars, listVars
  <2>2. InOrderAt(socki) /\ sockets[socki] \in Listed
    BY <2>1, ClientOf DEF OrderInv
  <2> DEFINE s == sockets[socki]
  <2>3. PICK w \in SendResults(s, mBuffer.size - mBuffer.offset) : Written(s, mBuffer, w)
    BY <1>9 DEF WriteGlobal
  <2>4. Pace(socki) = 0
    BY StreamTypes DEF Pace
  <2>5. /\ s \in Handles /\ mBuffer \in Buffers /\ EndsAt(mBuffer, produced)
        /\ mBuffer.offset <= mBuffer.size
    BY <1>9, <2>1, StreamTypes DEF WriteGlobal
  <2>6. next[s] <= CursorAt(mBuffer, produced)
    BY <2>1, <2>2, <2>4, StreamTypes DEF InOrderAt
  <2> HIDE DEF s
  <2>7. s \in Listed
    BY <2>2 DEF s
  <2> QED
    BY <2>1, <2>3, <2>5, <2>6, <2>7, FanoutDeliver
<1>10. CASE UNCHANGED streamVars
  BY <1>1, <1>10 DEF streamVars, historyVars
<1> QED
  BY <1>2, <1>3, <1>4, <1>5, <1>6, <1>7, <1>8, <1>9, <1>10, StreamFrame

\* The server implements the fan-out that may skip bytes: whatever its
\* clients, buffers and truncations do, each client is given a subsequence of
\* the stream, in order, and lost counts exactly what it missed.
THEOREM ServerImplementsFanout ==
  ASSUME "poll" \notin Faults PROVE Spec => LossyFanout
<1>1. Init => Lossy!Init
  BY FanoutInit
<1>2. StreamInv /\ OrderInv /\ [Next]_vars => [Lossy!Next]_(Lossy!vars)
  BY FanoutStep
<1> QED
  BY <1>1, <1>2, StreamInvariant, PTL DEF Spec, LossyFanout, Lossy!Spec
-----------------------------------------------------------------------------
(* One client and a stream shorter than the threshold: what the server then *)
(* promises is more, the client misses nothing.  With a second client this  *)
(* is false, and past the threshold truncation makes it so.                 *)

OneClient == /\ "poll" \notin Faults
             /\ \E c : Handles = {c}
             /\ MaxStream <= MaxThreshold

\* The client is written from mBuffer alone; mBuffer holds what it was not
\* sent, is empty when that is nothing, and moves on in step with it.
StepInv == /\ localKeys = {}
           /\ mBuffer.offset = 0 \/ mBuffer.offset < mBuffer.size
           /\ firstWritten > 0 => mBuffer.offset + firstWritten <= mBuffer.size
           /\ firstWritten # -1 => socki > 3
           /\ pc # "assertFailed"
ReadsOn(n) == /\ next[sockets[n]] = CursorAt(mBuffer, produced) + Pace(n)
              /\ lost[sockets[n]] = 0
OneInv == StepInv /\ \A n \in ClientIndices : ReadsOn(n)

LEMMA OneInList ==
  ASSUME OneClient, StreamInv PROVE \A n \in ClientIndices : n = 3
<1>1. PICK c : Handles = {c}
  BY DEF OneClient
<1>2. \A n \in ClientIndices : sockets[n] = c
  BY <1>1, StreamTypes
<1>3. ASSUME NEW n \in ClientIndices PROVE n = 3
  <2>1. 3 \in ClientIndices
    BY StreamTypes DEF ClientIndices
  <2> QED
    BY <1>2, <2>1, StreamTypes
<1> QED
  BY <1>3

\* mBuffer is never long enough to be truncated.
LEMMA BelowThreshold ==
  ASSUME OneClient, StreamInv
  PROVE  /\ mBuffer.base \in Nat /\ mBuffer.size \in Nat /\ mBuffer.offset \in Nat
         /\ ~ (mBuffer.size > MaxThreshold)
<1>1. mBuffer.base \in Nat /\ mBuffer.size \in Nat /\ mBuffer.offset \in Nat
  BY StreamTypes DEF Buffers
<1>2. mBuffer.size > 0 => mBuffer.base + mBuffer.size = produced
  BY StreamTypes DEF EndsAt
<1>3. produced <= MaxStream
  BY BoundsAssumption DEF StreamInv, TypeInv, TypeOK
<1> QED
  BY <1>1, <1>2, <1>3, StreamTypes, BoundsAssumption, ThresholdAssumption DEF OneClient

LEMMA OneInit == Init => OneInv
<1> SUFFICES ASSUME Init PROVE OneInv
  OBVIOUS
<1>1. ClientIndices = {}
  BY DEF Init, ClientIndices
<1>2. mBuffer.offset = 0 /\ localKeys = {} /\ firstWritten = -1 /\ pc = "start"
  BY DEF Init, Empty
<1> QED
  BY <1>1, <1>2 DEF OneInv, StepInv

\* send(): the cursor stays where it is, also when mBuffer was empty.
LEMMA OneSend ==
  ASSUME OneClient, StreamInv, OneInv, NEW n \in 1 .. MaxChunk, Send(n)
  PROVE  OneInv'
<1>1. /\ n \in Nat /\ n > 0
      /\ mBuffer.base \in Nat /\ mBuffer.size \in Nat /\ mBuffer.offset \in Nat
  BY BoundsAssumption, BelowThreshold
<1>2. /\ UNCHANGED <<sockets, next, lost, localKeys, socki, firstWritten, pc>>
      /\ produced' = produced + n /\ mBuffer' = Extend(mBuffer, n)
      /\ ~ Crashed /\ pc # "writing"
  BY DEF Send, appFrame, listVars, passVars, historyVars
<1>3. firstWritten = -1
  BY <1>2 DEF StreamInv, PassInv, Crashed
<1>4. /\ mBuffer'.base = IF mBuffer.size = 0 THEN produced ELSE mBuffer.base
      /\ mBuffer'.size = mBuffer.size + n
      /\ mBuffer'.offset = mBuffer.offset
  BY <1>2 DEF Extend
<1>5. mBuffer.offset = 0 \/ mBuffer.offset < mBuffer.size
  BY DEF OneInv, StepInv
<1>6. CursorAt(mBuffer', produced') = CursorAt(mBuffer, produced)
  BY <1>1, <1>2, <1>4, <1>5, StreamTypes DEF CursorAt
<1>7. StepInv'
  BY <1>1, <1>2, <1>3, <1>4, <1>5 DEF OneInv, StepInv
<1>8. \A k \in ClientIndices : ReadsOn(k) => ReadsOn(k)'
  BY <1>2, <1>6 DEF ReadsOn, Pace
<1> QED
  BY <1>2, <1>7, <1>8 DEF OneInv, ClientIndices

\* The client that is accepted starts where mBuffer does.
LEMMA OneAccept ==
  ASSUME OneClient, StreamInv, OneInv, NEW h \in Handles, AcceptClient(h)
  PROVE  OneInv'
<1>1. /\ UNCHANGED <<produced, mBuffer, localKeys, socki, firstWritten>>
      /\ next' = [next EXCEPT ![h] = Lesser(Cursor(mBuffer), produced)]
      /\ lost' = [lost EXCEPT ![h] = 0]
      /\ pc = "handle" /\ pc' = "write"
  BY DEF AcceptClient, appVars, bufferVars, passVars
<1>2. firstWritten = -1
  BY <1>1 DEF StreamInv, PassInv
<1>3. CursorAt(mBuffer, produced) <= produced
  <2>1. mBuffer.size > 0 => mBuffer.base + mBuffer.size = produced
    BY StreamTypes DEF EndsAt
  <2>2. mBuffer.offset <= mBuffer.size
    BY BelowThreshold DEF OneInv, StepInv
  <2> QED
    BY <2>1, <2>2, StreamTypes, BelowThreshold DEF CursorAt
<1>4. Lesser(Cursor(mBuffer), produced) = CursorAt(mBuffer, produced)
  BY <1>3 DEF Lesser, Cursor, CursorAt
<1>5. /\ Len(sockets) \in Nat /\ Len(sockets') = Len(sockets) + 1
      /\ sockets'[Len(sockets) + 1] = h
      /\ \A n \in 1 .. Len(sockets) : sockets'[n] = sockets[n]
      /\ \A n \in ClientIndices : sockets[n] # h
  BY AppendedEntries DEF StreamInv
<1>6. Handles = {h}
  BY DEF OneClient
<1>7. ClientIndices = {}
  BY <1>5, <1>6, StreamTypes
<1>8. \A n \in ClientIndices' : sockets'[n] = h
  BY <1>5, <1>7 DEF ClientIndices
<1>9. next'[h] = CursorAt(mBuffer, produced) /\ lost'[h] = 0
  <2>1. next \in [Handles -> Nat] /\ lost \in [Handles -> Int]
    BY DEF StreamInv, TypeInv, TypeOK
  <2> QED
    BY <1>1, <1>4, <2>1
<1>10. \A n \in ClientIndices' : ReadsOn(n)'
  BY <1>1, <1>2, <1>8, <1>9, StreamTypes DEF ReadsOn, Pace
<1>11. StepInv'
  BY <1>1 DEF OneInv, StepInv
<1> QED
  BY <1>10, <1>11 DEF OneInv

\* When the client is closed there is none left.
LEMMA OneClose ==
  ASSUME OneClient, StreamInv, OneInv, CloseClient PROVE OneInv'
<1>1. /\ UNCHANGED <<mBuffer, socki, firstWritten>>
      /\ localKeys' = localKeys \ {sockets[i]} /\ pc' = "write"
  BY DEF CloseClient, EraseLocal, passVars
<1>2. i \in ClientIndices
      /\ \A n \in ClientIndices' : \E k \in ClientIndices : k # i
  BY RemovedEntries DEF StreamInv, ClientIndices
<1>3. ClientIndices' = {}
  BY <1>2, OneInList
<1>4. StepInv'
  BY <1>1 DEF OneInv, StepInv
<1> QED
  BY <1>3, <1>4 DEF OneInv

LEMMA OneWriteBegin ==
  ASSUME OneClient, StreamInv, OneInv, WriteBegin PROVE OneInv'
<1>1. /\ UNCHANGED <<produced, sockets, next, lost, socki, firstWritten>>
      /\ pc = "write" /\ pc' \in {"handle", "writing"}
  BY DEF WriteBegin, writeFrame, appVars, listVars, passVars, historyVars
<1>2. firstWritten = -1
  BY <1>1 DEF StreamInv, PassInv
<1>3. CASE NoClients
  <2>1. mBuffer' = Empty /\ localKeys' = {}
    BY <1>3 DEF WriteBegin
  <2>2. ClientIndices' = {}
    BY <1>1, <1>3 DEF NoClients, ClientIndices
  <2>3. StepInv'
    BY <1>1, <1>2, <2>1 DEF StepInv, Empty
  <2> QED
    BY <2>2, <2>3 DEF OneInv
<1>4. CASE ~ NoClients
  <2>1. UNCHANGED <<mBuffer, localKeys>>
    BY <1>4 DEF WriteBegin, bufferVars
  <2> QED
    BY <1>1, <2>1 DEF OneInv, StepInv, ReadsOn, ClientIndices, Pace
<1> QED
  BY <1>3, <1>4

\* The pass writes the client from mBuffer, where it reads on, and no copy is
\* made of it.
LEMMA OneWriteGlobal ==
  ASSUME OneClient, StreamInv, OneInv, WriteGlobal PROVE OneInv'
<1> DEFINE s == sockets[3]
           b == mBuffer
<1>1. socki = 3 /\ s \in Handles
  <2>1. socki \in ClientIndices
    BY StreamTypes DEF WriteGlobal, ClientIndices
  <2> QED
    BY <2>1, OneInList, StreamTypes
<1>2. firstWritten = -1
  BY <1>1 DEF OneInv, StepInv
<1>3. /\ UNCHANGED <<produced, sockets>>
      /\ socki' = 4 /\ pc = "writing" /\ b.offset <= b.size
  BY <1>1 DEF WriteGlobal, writeFrame, appVars, listVars
<1>4. PICK w \in SendResults(s, b.size - b.offset) :
        /\ Written(s, b, w)
        /\ firstWritten' = IF w > 0 THEN w ELSE -1
        /\ UNCHANGED <<localKeys, mBuffer>>
        /\ pc' = IF w < 0 THEN "endDereferenced" ELSE pc
  BY <1>1, <1>2, BelowThreshold DEF WriteGlobal, NeedsCopy
<1>5. b \in Buffers /\ 3 \in ClientIndices
  BY <1>1, StreamTypes DEF WriteGlobal, ClientIndices
<1>6. /\ next[s] = CursorAt(b, produced) /\ lost[s] = 0
      /\ CursorAt(b, produced) \in Nat
  <2>1. ReadsOn(3) /\ Pace(3) = 0
    BY <1>1, <1>5 DEF OneInv, Pace
  <2> QED
    BY <2>1, StreamTypes DEF ReadsOn
<1>7. /\ w \in Int
      /\ w > 0 => next' = [next EXCEPT ![s] = CursorAt(b, produced) + w]
      /\ ~ (w > 0) => next' = next
  BY <1>1, <1>3, <1>4, <1>5, WrittenNext
<1>8. lost'[s] = 0
  <2>1. CASE w > 0
    <3>1. lost' = [lost EXCEPT ![s] = @ + Cursor(b) - next[s]]
      BY <1>4, <2>1 DEF Written
    <3>2. Cursor(b) = CursorAt(b, produced) /\ lost \in [Handles -> Int]
      BY DEF Cursor, CursorAt, StreamInv, TypeInv, TypeOK
    <3>3. lost'[s] = lost[s] + Cursor(b) - next[s]
      BY <1>1, <3>1, <3>2
    <3> QED
      BY <1>6, <3>2, <3>3
  <2>2. CASE ~ (w > 0)
    BY <1>4, <1>6, <2>2 DEF Written, historyVars
  <2> QED
    BY <2>1, <2>2
<1>9. b.offset + w <= b.size
  <2>1. b.size - b.offset \in Nat
    BY <1>3, BelowThreshold
  <2>2. w <= b.size - b.offset
    BY <1>4, <2>1, SendResultsType DEF StreamInv, TypeInv, TypeOK
  <2> QED
    BY <1>7, <2>2, BelowThreshold
<1>10. next'[s] = CursorAt(mBuffer', produced') + Pace(3)'
  <2>1. Pace(3)' = IF w > 0 THEN w ELSE 0
    BY <1>3, <1>4, <1>7 DEF Pace
  <2>2. CASE w > 0
    <3>1. next'[s] = CursorAt(b, produced) + w
      BY <1>1, <1>7, <2>2, StreamTypes
    <3> QED
      BY <1>3, <1>4, <2>1, <2>2, <3>1
  <2>3. CASE ~ (w > 0)
    BY <1>3, <1>4, <1>6, <1>7, <2>1, <2>3
  <2> QED
    BY <2>2, <2>3
<1>11. ReadsOn(3)'
  BY <1>3, <1>8, <1>10 DEF ReadsOn
<1>12. StepInv'
  <2>1. localKeys' = {} /\ pc' # "assertFailed" /\ socki' > 3
    BY <1>3, <1>4 DEF OneInv, StepInv
  <2>2. mBuffer' = mBuffer
        /\ (mBuffer.offset = 0 \/ mBuffer.offset < mBuffer.size)
    BY <1>4 DEF OneInv, StepInv
  <2>3. firstWritten' > 0 => mBuffer.offset + firstWritten' <= mBuffer.size
    BY <1>4, <1>9
  <2> QED
    BY <2>1, <2>2, <2>3 DEF StepInv
<1>13. \A n \in ClientIndices' : n = 3
  BY <1>3, OneInList DEF ClientIndices
<1> QED
  BY <1>11, <1>12, <1>13 DEF OneInv

\* After the pass mBuffer has moved on by what the client took.
LEMMA OneWriteEnd ==
  ASSUME OneClient, StreamInv, OneInv, WriteEnd PROVE OneInv'
<1>1. /\ UNCHANGED <<produced, sockets, next, lost, localKeys>>
      /\ mBuffer' = IF firstWritten > 0 THEN Advance(mBuffer, firstWritten)
                    ELSE mBuffer
      /\ firstWritten' = -1 /\ socki > Len(sockets) /\ pc' = "handle"
  BY DEF WriteEnd, writeFrame, appVars, listVars, historyVars
<1>2. CursorAt(mBuffer', produced)
        = CursorAt(mBuffer, produced) + (IF firstWritten > 0 THEN firstWritten ELSE 0)
  <2>1. CASE firstWritten > 0
    <3>1. mBuffer.size > 0 /\ firstWritten \in Nat
      BY <2>1, StreamTypes DEF StreamInv, PassInv
    <3>2. mBuffer \in Buffers /\ produced \in Nat /\ EndsAt(mBuffer, produced)
      BY StreamTypes
    <3>3. CursorAt(Advance(mBuffer, firstWritten), produced)
            = CursorAt(mBuffer, produced) + firstWritten
      BY <3>1, <3>2, CursorMoved, Zenon
    <3> QED
      BY <1>1, <2>1, <3>3
  <2>2. CASE ~ (firstWritten > 0)
    BY <1>1, <2>2, StreamTypes
  <2> QED
    BY <2>1, <2>2
<1>3. \A n \in ClientIndices :
        Pace(n) = (IF firstWritten > 0 THEN firstWritten ELSE 0) /\ Pace(n)' = 0
  BY <1>1, StreamTypes DEF Pace, ClientIndices
<1>4. \A n \in ClientIndices : ReadsOn(n) => ReadsOn(n)'
  <2>1. CursorAt(mBuffer', produced) \in Nat
    BY <1>2, StreamTypes
  <2> QED
    BY <1>1, <1>2, <1>3, <2>1 DEF ReadsOn
<1>5. mBuffer'.offset = 0 \/ mBuffer'.offset < mBuffer'.size
  <2>1. CASE firstWritten > 0
    <3>1. mBuffer.offset + firstWritten <= mBuffer.size /\ firstWritten \in Nat
      BY <2>1, StreamTypes DEF OneInv, StepInv
    <3>2. CASE mBuffer.offset + firstWritten = mBuffer.size
      BY <1>1, <2>1, <3>2 DEF Advance, Empty
    <3>3. CASE mBuffer.offset + firstWritten # mBuffer.size
      <4>1. mBuffer' = [mBuffer EXCEPT !.offset = @ + firstWritten]
        BY <1>1, <2>1, <3>3 DEF Advance
      <4>2. /\ mBuffer'.size = mBuffer.size
            /\ mBuffer'.offset = mBuffer.offset + firstWritten
        BY <4>1, StreamTypes DEF Buffers
      <4> QED
        BY <3>1, <3>3, <4>2, BelowThreshold
    <3> QED
      BY <3>2, <3>3
  <2>2. CASE ~ (firstWritten > 0)
    BY <1>1, <2>2 DEF OneInv, StepInv
  <2> QED
    BY <2>1, <2>2
<1>6. StepInv'
  BY <1>1, <1>5 DEF OneInv, StepInv
<1> QED
  BY <1>1, <1>4, <1>6 DEF OneInv, ClientIndices

LEMMA OneStep ==
  ASSUME OneClient, StreamInv, OneInv, [Next]_vars PROVE OneInv'
<1>1. CASE ThreadStart
  <2>1. /\ UNCHANGED <<mBuffer, localKeys, firstWritten, socki>> /\ pc' = "check"
        /\ sockets = <<Dummy>> /\ sockets' = Append(<<Dummy>>, Listener)
    BY <1>1 DEF ThreadStart, bufferVars, passVars, StreamInv, ListInv
  <2>2. Len(sockets') = 2
    BY <2>1
  <2>3. ClientIndices' = {}
    BY <2>2 DEF ClientIndices
  <2>4. StepInv'
    BY <2>1 DEF OneInv, StepInv
  <2> QED
    BY <2>3, <2>4 DEF OneInv
<1>2. ~ ScanFails
  BY DEF ScanFails, Fault, OneClient
<1>3. ~ WriteLocal
  BY DEF WriteLocal, OneInv, StepInv
<1>4. ~ WriteAsserts
  <2>1. BufferOf(sockets[socki]) = mBuffer
    BY DEF BufferOf, OneInv, StepInv
  <2>2. ~ (mBuffer.offset > mBuffer.size)
    BY BelowThreshold DEF OneInv, StepInv
  <2> QED
    BY <2>1, <2>2 DEF WriteAsserts
<1>5. CASE UNCHANGED streamVars
  <2>1. pc' # "assertFailed"
    <3>1. CASE UNCHANGED vars
      BY <3>1 DEF vars, OneInv, StepInv
    <3>2. CASE App \/ Network
      BY <3>2 DEF App, Send, StopSet, StopWake, StopJoin, appFrame, Network,
         Connect, PeerCloses, Drain, processVars, OneInv, StepInv
    <3>3. CASE Loop
      BY <3>3 DEF Loop, ThreadStart, CheckStopped, WaitFails, WaitTimesOut,
         WaitWakeup, WaitSocket, ScanDone, ScanSkip, EnumEvents, OneInv, StepInv
    <3>4. CASE HandleEvent
      BY <3>4 DEF HandleEvent, AcceptClient, HandleWritable, CloseClient, EventDone
    <3>5. CASE HandleWrite
      BY <1>4, <3>5 DEF HandleWrite, WriteBegin, WriteLocal, WriteGlobal, WriteEnd,
         OneInv, StepInv
    <3>6. CASE Failure
      BY <3>6 DEF Failure, ThreadStartFails, ScanFails, EnumFails, EventError,
         AcceptFails, CreateEventFails, OneInv, StepInv
    <3> QED
      BY <3>1, <3>2, <3>3, <3>4, <3>5, <3>6 DEF Next, Thread
  <2> QED
    BY <1>5, <2>1 DEF streamVars, historyVars, OneInv, StepInv, ReadsOn,
       ClientIndices, Pace
<1> QED
  BY <1>1, <1>2, <1>3, <1>5, OneSend, OneAccept, OneClose, OneWriteBegin,
     OneWriteGlobal, OneWriteEnd, StreamFrame

LEMMA OneInvariant ==
  ASSUME OneClient PROVE Spec => [](StreamInv /\ OrderInv /\ OneInv)
<1>1. Spec => [](StreamInv /\ OrderInv)
  BY StreamInvariant DEF OneClient
<1>2. StreamInv /\ OneInv /\ [Next]_vars => OneInv'
  BY OneStep
<1> QED
  BY <1>1, <1>2, OneInit, PTL DEF Spec

\* The _ASSERT of the write lambda never fires for a single client that no
\* truncation meets, with any send space and whatever fails around it.
THEOREM NoAssertForOneClient ==
  ASSUME OneClient PROVE Spec => []AssertHolds
<1>1. OneInv => AssertHolds
  BY DEF OneInv, StepInv, AssertHolds
<1> QED
  BY <1>1, OneInvariant, PTL

\* Between two passes a single client reads on exactly where it was left, and
\* has missed nothing.
THEOREM OneClientInSync ==
  ASSUME OneClient PROVE Spec => []InSync
<1>1. StreamInv /\ OneInv => InSync
  <2> SUFFICES ASSUME StreamInv, OneInv, pc # "writing", ~ Crashed,
                      NEW n \in ClientIndices
               PROVE  ReadPosition(n) = next[sockets[n]] /\ lost[sockets[n]] = 0
    BY DEF InSync
  <2>1. ReadsOn(n) /\ localKeys = {}
    BY DEF OneInv, StepInv
  <2>2. ReadPosition(n) = CursorAt(mBuffer, produced) + Pace(n)
    BY <2>1 DEF ReadPosition, Cursor, CursorAt
  <2> QED
    BY <2>1, <2>2 DEF ReadsOn
<1> QED
  BY <1>1, OneInvariant, PTL

\* What the fan-out that may skip bytes does is what the lossless one does,
\* when no client that is connected has missed any.
LEMMA NothingSkipped ==
  ASSUME StreamInv, OneInv, OneInv', [Lossy!Next]_(Lossy!vars)
  PROVE  [Exact!Next]_(Exact!vars)
<1>1. /\ \A c \in Listed : lost[c] = 0
      /\ \A c \in Listed' : lost'[c] = 0
  BY DEF OneInv, ReadsOn, Listed
<1>2. ASSUME NEW c \in Handles, Lossy!Deliver(c) PROVE Exact!Deliver(c)
  <2>1. PICK skip \in 0 .. produced - next[c] - 1 :
          /\ lost' = [lost EXCEPT ![c] = @ + skip]
          /\ \E p \in next[c] + skip + 1 .. produced :
               next' = [next EXCEPT ![c] = p]
    BY <1>2 DEF Lossy!Deliver
  <2>2. c \in Listed /\ c \in Listed' /\ UNCHANGED <<produced, Listed>>
    BY <1>2 DEF Lossy!Deliver
  <2>3. lost \in [Handles -> Int]
    BY DEF StreamInv, TypeInv, TypeOK
  <2>4. skip = 0
    BY <1>1, <2>1, <2>2, <2>3
  <2> QED
    BY <2>1, <2>2, <2>4 DEF Exact!Deliver
<1>3. CASE Lossy!Produce
  BY <1>3 DEF Lossy!Produce, Exact!Produce, Exact!Next
<1>4. CASE \E c \in Handles : Lossy!Join(c)
  BY <1>4 DEF Lossy!Join, Exact!Join, Exact!Next
<1>5. CASE \E c \in Handles : Lossy!Leave(c)
  BY <1>5 DEF Lossy!Leave, Exact!Leave, Exact!Next
<1>6. CASE \E c \in Handles : Lossy!Deliver(c)
  BY <1>2, <1>6 DEF Exact!Next
<1>7. CASE UNCHANGED Lossy!vars
  BY <1>7 DEF Lossy!vars, Exact!vars
<1> QED
  BY <1>3, <1>4, <1>5, <1>6, <1>7 DEF Lossy!Next

\* The server implements the lossless fan-out for a single client and a
\* stream below the threshold: from where it joined the client is given every
\* byte, in order.
THEOREM OneClientMissesNothing ==
  ASSUME OneClient PROVE Spec => LosslessFanout
<1>1. Init => Exact!Init
  BY FanoutInit DEF Lossy!Init, Exact!Init
<1>2. StreamInv /\ OrderInv /\ OneInv /\ OneInv' /\ [Next]_vars
        => [Exact!Next]_(Exact!vars)
  BY FanoutStep, NothingSkipped DEF OneClient
<1> QED
  BY <1>1, <1>2, OneInvariant, PTL DEF Spec, LosslessFanout, Exact!Spec
=============================================================================
