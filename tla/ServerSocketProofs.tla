------------------------- MODULE ServerSocketProofs -------------------------
(***************************************************************************)
(* Theorems about ServerSocket, for every number of clients, every         *)
(* threshold and every bound.                                              *)
(***************************************************************************)
EXTENDS ServerSocketProperties, SequenceTheorems, TLAPS

-----------------------------------------------------------------------------
(* Lemmas about the operators of the model.                                *)

\* Taking the entry at p out of a list keeps the others in their order.
LEMMA RemoveAtProperties ==
  ASSUME NEW S, NEW s \in Seq(S), NEW p \in 1 .. Len(s)
  PROVE  /\ RemoveAt(s, p) \in Seq(S)
         /\ Len(RemoveAt(s, p)) = Len(s) - 1
         /\ \A n \in 1 .. Len(s) - 1 :
              RemoveAt(s, p)[n] = IF n < p THEN s[n] ELSE s[n + 1]
<1> DEFINE front == SubSeq(s, 1, p - 1)
           back == SubSeq(s, p + 1, Len(s))
<1>1. /\ front \in Seq(S)
      /\ Len(front) = p - 1
      /\ \A n \in 1 .. p - 1 : front[n] = s[n]
  BY SMT
<1>2. /\ back \in Seq(S)
      /\ Len(back) = Len(s) - p
      /\ \A n \in 1 .. Len(s) - p : back[n] = s[p + n]
  BY SMT
<1>3. RemoveAt(s, p) = front \o back
  BY DEF RemoveAt
<1>4. /\ front \o back \in Seq(S)
      /\ Len(front \o back) = Len(front) + Len(back)
      /\ \A n \in 1 .. Len(front) + Len(back) :
           (front \o back)[n] = IF n <= Len(front) THEN front[n]
                                ELSE back[n - Len(front)]
  BY <1>1, <1>2, ConcatProperties
<1> HIDE DEF front, back
<1>5. Len(front) + Len(back) = Len(s) - 1
  BY <1>1, <1>2, LenProperties
<1>6. ASSUME NEW n \in 1 .. Len(s) - 1
      PROVE  (front \o back)[n] = IF n < p THEN s[n] ELSE s[n + 1]
  <2>1. CASE n < p
    BY <1>1, <1>4, <1>5, <2>1
  <2>2. CASE ~ (n < p)
    <3>1. n - Len(front) = n - (p - 1) /\ n - (p - 1) \in 1 .. Len(s) - p
      BY <1>1, <2>2, LenProperties
    <3>2. (front \o back)[n] = back[n - (p - 1)]
      BY <1>1, <1>4, <1>5, <2>2, <3>1, LenProperties
    <3>3. back[n - (p - 1)] = s[p + (n - (p - 1))]
      BY <1>2, <3>1
    <3> QED
      BY <2>2, <3>2, <3>3, LenProperties
  <2> QED
    BY <2>1, <2>2
<1> QED
  BY <1>3, <1>4, <1>5, <1>6

\* ... so it is no longer there, and every other entry is.
LEMMA RemoveAtDistinct ==
  ASSUME NEW S, NEW s \in Seq(S), NEW p \in 1 .. Len(s), Distinct(s)
  PROVE  /\ Distinct(RemoveAt(s, p))
         /\ \A n \in 1 .. Len(s) - 1 : RemoveAt(s, p)[n] # s[p]
<1> DEFINE t == RemoveAt(s, p)
           Old(n) == IF n < p THEN n ELSE n + 1
<1>1. Len(s) \in Nat /\ Len(t) = Len(s) - 1
  BY RemoveAtProperties, LenProperties
<1>2. \A n \in 1 .. Len(s) - 1 : t[n] = s[Old(n)]
  BY RemoveAtProperties
<1> HIDE DEF t
<1>3. \A n \in 1 .. Len(s) - 1 : Old(n) \in 1 .. Len(s) /\ Old(n) # p
  BY <1>1
<1>4. \A m, n \in 1 .. Len(s) - 1 : Old(m) = Old(n) => m = n
  BY <1>1
<1> HIDE DEF Old
<1>5. \A m, n \in 1 .. Len(s) - 1 : t[m] = t[n] => m = n
  BY <1>2, <1>3, <1>4 DEF Distinct
<1>6. \A n \in 1 .. Len(s) - 1 : t[n] # s[p]
  BY <1>2, <1>3 DEF Distinct
<1> QED
  BY <1>1, <1>5, <1>6 DEF Distinct, t

\* A new entry at the end of a list leaves the entries distinct.
LEMMA AppendDistinct ==
  ASSUME NEW S, NEW s \in Seq(S), NEW e \in S, Distinct(s),
         \A n \in 1 .. Len(s) : s[n] # e
  PROVE  Distinct(Append(s, e))
<1> DEFINE t == Append(s, e)
<1>1. /\ Len(s) \in Nat /\ Len(t) = Len(s) + 1 /\ t[Len(s) + 1] = e
      /\ \A n \in 1 .. Len(s) : t[n] = s[n]
  BY AppendProperties, LenProperties
<1> HIDE DEF t
<1> SUFFICES ASSUME NEW m \in 1 .. Len(s) + 1, NEW n \in 1 .. Len(s) + 1,
                    t[m] = t[n]
             PROVE  m = n
  BY <1>1 DEF Distinct, t
<1>2. CASE m = Len(s) + 1 \/ n = Len(s) + 1
  BY <1>1, <1>2
<1>3. CASE m # Len(s) + 1 /\ n # Len(s) + 1
  <2>1. m \in 1 .. Len(s) /\ n \in 1 .. Len(s)
    BY <1>1, <1>3
  <2> QED
    BY <1>1, <2>1 DEF Distinct
<1> QED
  BY <1>2, <1>3

-----------------------------------------------------------------------------
(* Type correctness.                                                       *)

\* What the steps need beside the types: the lists have the same length, and
\* an index that will be used is one of theirs.
TypeInv ==
  /\ TypeOK
  /\ Len(sockets) = Len(events)
  /\ pc = "scan" \/ pending # {} => i >= 1
  /\ socki >= 3

LEMMA EmptyType == Empty \in Buffers
BY DEF Empty, Buffers

LEMMA CursorType ==
  ASSUME TypeOK, NEW b \in Buffers
  PROVE  Cursor(b) \in Nat
BY BoundsAssumption DEF TypeOK, Cursor, Buffers

LEMMA ExtendType ==
  ASSUME TypeOK, NEW b \in Buffers, NEW n \in Nat
  PROVE  Extend(b, n) \in Buffers
BY BoundsAssumption DEF TypeOK, Extend, Buffers

LEMMA AdvanceType ==
  ASSUME NEW b \in Buffers, NEW w \in Nat
  PROVE  Advance(b, w) \in Buffers
BY EmptyType DEF Advance, Buffers

LEMMA TruncateType ==
  ASSUME NEW b \in Buffers, b.size > MaxThreshold
  PROVE  Truncate(b) \in Buffers
BY ThresholdAssumption DEF Truncate, Buffers

\* A send() loop takes no more than there is room for, and no more than there
\* is, and takes nothing on what is not a socket.
LEMMA SendResultsType ==
  ASSUME WinsockTypeOK, NEW s, NEW rem \in Nat, NEW w \in SendResults(s, rem)
  PROVE  /\ w \in Int
         /\ w >= -1
         /\ w <= rem
         /\ rem > 0 /\ w >= 0 => s \in Handles /\ w <= space[s]
BY SendSpaceAssumption DEF WinsockTypeOK, SendResults, Lesser

LEMMA TypeInit == Init => TypeInv
<1> SUFFICES ASSUME Init PROVE TypeInv
  OBVIOUS
<1>1. WinsockTypeOK
  BY SendSpaceAssumption, ConnsAssumption
     DEF Init, WinsockInit, WinsockTypeOK, Sockets
<1>2. /\ sockets \in Seq(Sockets) /\ Len(sockets) = 1
      /\ events \in Seq(Sockets) /\ Len(events) = 1
  BY DEF Init, Sockets
<1>3. /\ mBuffer \in Buffers
      /\ local \in [Handles -> Buffers]
      /\ next \in [Handles -> Nat]
      /\ lost \in [Handles -> Int]
  BY EmptyType DEF Init
<1>4. firstWritten \in Nat \cup {-1} /\ socki \in Nat /\ socki >= 3
  BY DEF Init
<1>5. produced \in 0 .. MaxStream /\ faults \in 0 .. MaxFaults
  BY BoundsAssumption DEF Init
<1>6. i \in Nat /\ i >= 1 /\ localKeys = {} /\ pending = {}
  BY DEF Init
<1>7. TypeOK
  BY <1>1, <1>2, <1>3, <1>4, <1>5, <1>6 DEF Init, TypeOK
<1> QED
  BY <1>2, <1>4, <1>6, <1>7 DEF Init, TypeInv

LEMMA TypeApp == TypeInv /\ App => TypeInv'
<1> SUFFICES ASSUME TypeInv, App PROVE TypeInv'
  OBVIOUS
<1> USE BoundsAssumption
<1>1. ASSUME NEW n \in 1 .. MaxChunk, Send(n) PROVE TypeInv'
  <2>1. mBuffer' \in Buffers /\ local' \in [Handles -> Buffers]
    <3>1. TypeOK /\ n \in Nat
      BY <1>1 DEF TypeInv
    <3>2. mBuffer \in Buffers /\ \A h \in Handles : local[h] \in Buffers
      BY <3>1 DEF TypeOK
    <3>3. \A b \in Buffers : Extend(b, n) \in Buffers
      BY <3>1, ExtendType
    <3> QED
      BY <1>1, <3>2, <3>3 DEF Send, ExtendLocal
  <2>2. signaled' \subseteq Sockets
    BY <1>1 DEF Send, WokenBySend, Sockets, TypeInv, TypeOK, WinsockTypeOK
  <2>3. produced' \in 0 .. MaxStream
    BY <1>1 DEF Send, TypeInv, TypeOK
  <2> QED
    BY <1>1, <2>1, <2>2, <2>3
       DEF Send, appFrame, listVars, scanVars, passVars, sendVars, historyVars,
           netVars, TypeInv, TypeOK, WinsockTypeOK
<1>2. CASE StopSet
  BY <1>2 DEF StopSet, appFrame, listVars, scanVars, passVars, sendVars,
       historyVars, bufferVars, netVars, eventVars, TypeInv, TypeOK, WinsockTypeOK
<1>3. CASE StopWake
  BY <1>3 DEF StopWake, appFrame, listVars, scanVars, passVars, sendVars,
       historyVars, bufferVars, netVars, Sockets, TypeInv, TypeOK, WinsockTypeOK
<1>4. CASE StopJoin
  BY <1>4 DEF StopJoin, appFrame, listVars, scanVars, passVars, sendVars,
       historyVars, bufferVars, TypeInv, TypeOK, WinsockTypeOK
<1> QED
  BY <1>1, <1>2, <1>3, <1>4 DEF App

LEMMA TypeLoop == TypeInv /\ Loop => TypeInv'
<1> SUFFICES ASSUME TypeInv, Loop PROVE TypeInv'
  OBVIOUS
<1> USE DEF loopFrame, appVars, bufferVars, listVars, passVars, sendVars,
            netVars, eventVars, historyVars, scanVars, TypeInv, TypeOK,
            WinsockTypeOK
<1>1. CASE ThreadStart
  <2>1. /\ sockets' \in Seq(Sockets) /\ Len(sockets') = Len(sockets) + 1
        /\ events' \in Seq(Sockets) /\ Len(events') = Len(events) + 1
    BY <1>1 DEF ThreadStart, Sockets
  <2> QED
    BY <1>1, <2>1 DEF ThreadStart
<1>2. CASE CheckStopped
  BY <1>2 DEF CheckStopped
<1>3. CASE WaitFails
  BY <1>3 DEF WaitFails
<1>4. CASE WaitTimesOut
  BY <1>4 DEF WaitTimesOut
<1>5. CASE WaitWakeup
  BY <1>5 DEF WaitWakeup
<1>6. ASSUME NEW n \in 1 .. Len(events), WaitSocket(n) PROVE TypeInv'
  BY <1>6 DEF WaitSocket
<1>7. CASE ScanDone
  BY <1>7 DEF ScanDone
<1>8. CASE ScanSkip
  BY <1>8 DEF ScanSkip
<1>9. CASE EnumEvents
  <2>1. sockets[i] \in Sockets /\ i >= 1
    BY <1>9 DEF EnumEvents
  <2>2. pending' \subseteq NetEvents /\ netEvents' \in [Sockets -> SUBSET NetEvents]
    BY <1>9, <2>1 DEF EnumEvents
  <2> QED
    BY <1>9, <2>1, <2>2 DEF EnumEvents, NetEvents
<1> QED
  BY <1>1, <1>2, <1>3, <1>4, <1>5, <1>6, <1>7, <1>8, <1>9 DEF Loop

\* accept() keeps the types of what Winsock keeps.
LEMMA AcceptType ==
  ASSUME WinsockTypeOK, NEW h \in Handles, NEW selected \in BOOLEAN,
         Accept(h, selected), UNCHANGED conns
  PROVE  WinsockTypeOK'
<1> USE DEF WinsockTypeOK, Sockets, NetEvents
<1>1. backlog' \in Nat
  BY DEF Accept, TakeFromBacklog
<1>2. conn' \in [Handles -> {"free", "open", "gone"}]
  BY DEF Accept
<1>3. space' \in [Handles -> 0 .. SendSpace] /\ armed' \in [Handles -> BOOLEAN]
  BY SendSpaceAssumption DEF Accept
<1>4. netEvents' \in [Sockets -> SUBSET NetEvents]
  BY DEF Accept, TakeFromBacklog
<1>5. signaled' \subseteq Sockets
  BY DEF Accept, TakeFromBacklog
<1> QED
  BY <1>1, <1>2, <1>3, <1>4, <1>5

\* Erasing a client's own buffer keeps the types of the others.
LEMMA EraseLocalType ==
  ASSUME TypeOK, NEW s, EraseLocal(s)
  PROVE  localKeys' \subseteq Handles /\ local' \in [Handles -> Buffers]
BY EmptyType DEF TypeOK, EraseLocal

LEMMA TypeHandleEvent == TypeInv /\ HandleEvent => TypeInv'
<1> SUFFICES ASSUME TypeInv, HandleEvent PROVE TypeInv'
  OBVIOUS
<1> USE DEF loopFrame, appVars, bufferVars, listVars, passVars, sendVars,
            netVars, eventVars, historyVars, TypeInv, TypeOK
<1>1. ASSUME NEW h \in Handles, AcceptClient(h) PROVE TypeInv'
  <2>1. WinsockTypeOK'
    BY <1>1, AcceptType DEF AcceptClient
  <2>2. /\ sockets' \in Seq(Sockets) /\ Len(sockets') = Len(sockets) + 1
        /\ events' \in Seq(Sockets) /\ Len(events') = Len(events) + 1
    BY <1>1 DEF AcceptClient, Sockets
  <2>3. next' \in [Handles -> Nat] /\ lost' \in [Handles -> Int]
    <3>1. Cursor(mBuffer) \in Nat
      BY CursorType
    <3> QED
      BY <1>1, <3>1, BoundsAssumption DEF AcceptClient, Lesser
  <2> QED
    BY <1>1, <2>1, <2>2, <2>3 DEF AcceptClient
<1>2. CASE HandleWritable
  BY <1>2 DEF HandleWritable, AfterWrite, WinsockTypeOK
<1>3. CASE CloseClient
  <2>1. /\ sockets' \in Seq(Sockets) /\ Len(sockets') = Len(sockets) - 1
        /\ events' \in Seq(Sockets) /\ Len(events') = Len(events) - 1
    <3>1. PICK p \in 1 .. Len(sockets) : sockets[p] = sockets[i] /\ EraseEntry(p)
      BY <1>3 DEF CloseClient
    <3> QED
      BY <3>1, RemoveAtProperties DEF EraseEntry
  <2>2. localKeys' \subseteq Handles /\ local' \in [Handles -> Buffers]
    BY <1>3, EraseLocalType DEF CloseClient
  <2>3. WinsockTypeOK'
    BY <1>3 DEF CloseClient, WinsockTypeOK
  <2> QED
    BY <1>3, <2>1, <2>2, <2>3 DEF CloseClient
<1>4. CASE EventDone
  BY <1>4 DEF EventDone, WinsockTypeOK
<1> QED
  BY <1>1, <1>2, <1>3, <1>4 DEF HandleEvent

\* What a pass of the write loop writes to one client keeps the types.
LEMMA WrittenType ==
  ASSUME TypeOK, NEW s, NEW b \in Buffers, b.offset <= b.size,
         NEW w \in SendResults(s, b.size - b.offset), Written(s, b, w)
  PROVE  /\ w \in Int /\ w >= -1
         /\ w > 0 => s \in Handles
         /\ space' \in [Handles -> 0 .. SendSpace]
         /\ armed' \in [Handles -> BOOLEAN]
         /\ next' \in [Handles -> Nat]
         /\ lost' \in [Handles -> Int]
<1> DEFINE rem == b.size - b.offset
<1>1. rem \in Nat
  BY DEF Buffers
<1>2. WinsockTypeOK
  BY DEF TypeOK
<1> HIDE DEF rem
<1>3. w \in SendResults(s, rem) /\ SendLoop(s, rem, w)
  BY DEF rem, Written
<1>4. /\ w \in Int /\ w >= -1 /\ w <= rem
      /\ rem > 0 /\ w >= 0 => s \in Handles /\ w <= space[s]
  BY <1>1, <1>2, <1>3, SendResultsType
<1>5. w > 0 => s \in Handles
  BY <1>1, <1>4
<1>6. space' \in [Handles -> 0 .. SendSpace] /\ armed' \in [Handles -> BOOLEAN]
  <2>1. CASE rem > 0 /\ w >= 0
    <3>1. /\ s \in Handles
          /\ space' = [space EXCEPT ![s] = space[s] - w]
          /\ armed' = [armed EXCEPT ![s] = armed[s] \/ w < rem]
      BY <1>3, <1>4, <2>1 DEF SendLoop
    <3>2. space[s] - w \in 0 .. SendSpace
      BY <1>2, <1>4, <2>1, SendSpaceAssumption DEF WinsockTypeOK
    <3>3. (armed[s] \/ w < rem) \in BOOLEAN
      OBVIOUS
    <3>4. space' \in [Handles -> 0 .. SendSpace]
      BY <1>2, <3>1, <3>2 DEF WinsockTypeOK
    <3>5. armed' \in [Handles -> BOOLEAN]
      BY <1>2, <3>1, <3>3, Zenon DEF WinsockTypeOK
    <3> QED
      BY <3>4, <3>5
  <2>2. CASE ~ (rem > 0 /\ w >= 0)
    BY <1>2, <1>3, <2>2 DEF SendLoop, WinsockTypeOK, sendVars
  <2> QED
    BY <2>1, <2>2
<1>7. next' \in [Handles -> Nat] /\ lost' \in [Handles -> Int]
  <2>1. Cursor(b) \in Nat
    BY CursorType
  <2>2. CASE w > 0
    <3>1. s \in Handles /\ next[s] \in Nat /\ lost[s] \in Int
      BY <1>5, <2>2 DEF TypeOK
    <3>2. Cursor(b) + w \in Nat /\ lost[s] + Cursor(b) - next[s] \in Int
      BY <1>4, <2>1, <2>2, <3>1
    <3>3. /\ next' = [next EXCEPT ![s] = Cursor(b) + w]
          /\ lost' = [lost EXCEPT ![s] = lost[s] + Cursor(b) - next[s]]
      BY <2>2 DEF Written
    <3> QED
      BY <3>1, <3>2, <3>3 DEF TypeOK
  <2>3. CASE ~ (w > 0)
    BY <2>3 DEF Written, TypeOK, historyVars
  <2> QED
    BY <2>2, <2>3
<1> QED
  BY <1>4, <1>5, <1>6, <1>7

LEMMA TypeHandleWrite == TypeInv /\ HandleWrite => TypeInv'
<1> SUFFICES ASSUME TypeInv, HandleWrite PROVE TypeInv'
  OBVIOUS
<1> USE DEF loopFrame, writeFrame, appVars, bufferVars, listVars, scanVars,
            passVars, netVars, eventVars, TypeInv
<1>1. CASE WriteBegin
  BY <1>1, EmptyType DEF WriteBegin, NothingToWrite, TypeOK, WinsockTypeOK,
       sendVars, historyVars
<1>2. CASE WriteAsserts
  BY <1>2 DEF WriteAsserts, TypeOK, WinsockTypeOK, sendVars, historyVars
<1>3. CASE WriteLocal
  <2> DEFINE s == sockets[socki]
             b == local[s]
  <2>1. s \in Handles /\ b \in Buffers /\ b.offset <= b.size
    BY <1>3 DEF WriteLocal, TypeOK
  <2>2. PICK w \in SendResults(s, b.size - b.offset) :
          /\ Written(s, b, w)
          /\ local' = [local EXCEPT ![s] =
               IF w > 0 THEN Advance(b, w)
               ELSE IF w = 0 /\ b.size > MaxThreshold THEN Truncate(b)
               ELSE IF w < 0 THEN Empty
               ELSE b]
    BY <1>3 DEF WriteLocal
  <2> HIDE DEF s, b
  <2>3. /\ w \in Int /\ w >= -1
        /\ space' \in [Handles -> 0 .. SendSpace]
        /\ armed' \in [Handles -> BOOLEAN]
        /\ next' \in [Handles -> Nat]
        /\ lost' \in [Handles -> Int]
    BY <2>1, <2>2, WrittenType
  <2>4. local' \in [Handles -> Buffers]
    <3>1. w > 0 => Advance(b, w) \in Buffers
      BY <2>1, <2>3, AdvanceType
    <3>2. b.size > MaxThreshold => Truncate(b) \in Buffers
      BY <2>1, TruncateType
    <3> QED
      BY <2>1, <2>2, <3>1, <3>2, EmptyType DEF TypeOK
  <2>5. /\ socki' = socki + 1
        /\ UNCHANGED <<writeFrame, mBuffer, localKeys, pc, firstWritten>>
    BY <1>3 DEF WriteLocal
  <2>6. socki' \in Nat /\ socki' >= 3
    BY <2>5 DEF TypeOK
  <2> QED
    BY <2>3, <2>4, <2>5, <2>6 DEF TypeOK, WinsockTypeOK
<1>4. CASE WriteGlobal
  <2> DEFINE s == sockets[socki]
  <2>1. mBuffer \in Buffers /\ mBuffer.offset <= mBuffer.size
    BY <1>4 DEF WriteGlobal, TypeOK
  <2>2. PICK w \in SendResults(s, mBuffer.size - mBuffer.offset) :
          /\ Written(s, mBuffer, w)
          /\ firstWritten' = IF w > 0 /\ firstWritten = -1
                               THEN w ELSE firstWritten
          /\ IF NeedsCopy(w)
               THEN /\ localKeys' = localKeys \cup {s}
                    /\ local' = [local EXCEPT ![s] = CopyFor(w)]
               ELSE UNCHANGED <<localKeys, local>>
          /\ mBuffer' = IF w = 0 /\ mBuffer.size > MaxThreshold
                          THEN Truncate(mBuffer) ELSE mBuffer
          /\ pc' = IF w < 0 THEN "endDereferenced" ELSE pc
    BY <1>4 DEF WriteGlobal
  <2> HIDE DEF s
  <2>3. /\ w \in Int /\ w >= -1
        /\ w > 0 => s \in Handles
        /\ space' \in [Handles -> 0 .. SendSpace]
        /\ armed' \in [Handles -> BOOLEAN]
        /\ next' \in [Handles -> Nat]
        /\ lost' \in [Handles -> Int]
    BY <2>1, <2>2, WrittenType
  <2>4. mBuffer' \in Buffers
    BY <2>1, <2>2, TruncateType
  <2>5. localKeys' \subseteq Handles /\ local' \in [Handles -> Buffers]
    <3>1. w > 0 => CopyFor(w) \in Buffers
      <4>1. /\ mBuffer.base \in Nat /\ mBuffer.size \in Nat
            /\ mBuffer.offset \in Nat
        BY <2>1 DEF Buffers
      <4>2. w > 0 => mBuffer.offset + w \in Nat
        BY <2>3, <4>1
      <4> QED
        BY <2>1, <4>2 DEF CopyFor, Buffers
    <3>2. NeedsCopy(w) => w > 0
      BY DEF NeedsCopy
    <3> QED
      BY <2>2, <2>3, <3>1, <3>2 DEF TypeOK
  <2>6. firstWritten' \in Nat \cup {-1} /\ socki' \in Nat /\ socki' >= 3
    BY <1>4, <2>2, <2>3 DEF WriteGlobal, TypeOK
  <2>7. pc' \in {pc, "endDereferenced"} /\ pc = "writing"
    BY <1>4, <2>2 DEF WriteGlobal
  <2> QED
    BY <1>4, <2>3, <2>4, <2>5, <2>6, <2>7 DEF WriteGlobal, TypeOK, WinsockTypeOK
<1>5. CASE WriteEnd
  <2>1. mBuffer' \in Buffers
    <3>1. mBuffer \in Buffers /\ firstWritten \in Nat \cup {-1}
      BY DEF TypeOK
    <3>2. firstWritten > 0 => Advance(mBuffer, firstWritten) \in Buffers
      BY <3>1, AdvanceType
    <3> QED
      BY <1>5, <3>1, <3>2 DEF WriteEnd
  <2> QED
    BY <1>5, <2>1 DEF WriteEnd, TypeOK, WinsockTypeOK, sendVars, historyVars
<1> QED
  BY <1>1, <1>2, <1>3, <1>4, <1>5 DEF HandleWrite

LEMMA TypeFailure == TypeInv /\ Failure => TypeInv'
<1> SUFFICES ASSUME TypeInv, Failure PROVE TypeInv'
  OBVIOUS
<1> USE DEF loopFrame, appVars, bufferVars, listVars, passVars, sendVars,
            netVars, eventVars, historyVars, scanVars, TypeInv, TypeOK
<1>1. faults' \in 0 .. MaxFaults
  <2>1. PICK kind \in FaultKinds : Fault(kind)
    BY DEF Failure, ThreadStartFails, ScanFails, EnumFails, EventError,
       AcceptFails, CreateEventFails, FaultKinds
  <2> QED
    BY <2>1, BoundsAssumption DEF Fault
<1>2. CASE ThreadStartFails
  BY <1>1, <1>2 DEF ThreadStartFails, WinsockTypeOK
<1>3. CASE ScanFails
  <2>1. i \in 2 .. Len(events)
    BY <1>3 DEF ScanFails
  <2>2. /\ sockets' \in Seq(Sockets) /\ Len(sockets') = Len(sockets) - 1
        /\ events' \in Seq(Sockets) /\ Len(events') = Len(events) - 1
    <3>1. /\ sockets \in Seq(Sockets) /\ 2 \in 1 .. Len(sockets)
          /\ events \in Seq(Sockets) /\ i \in 1 .. Len(events)
      BY <2>1, LenProperties
    <3>2. sockets' = RemoveAt(sockets, 2) /\ events' = RemoveAt(events, i)
      BY <1>3 DEF ScanFails
    <3> QED
      BY <3>1, <3>2, RemoveAtProperties
  <2>3. localKeys' \subseteq Handles /\ local' \in [Handles -> Buffers]
    BY <1>3, EraseLocalType DEF ScanFails
  <2>4. WinsockTypeOK'
    BY <1>3 DEF ScanFails, WinsockTypeOK
  <2> QED
    BY <1>1, <1>3, <2>2, <2>3, <2>4 DEF ScanFails
<1>4. CASE EnumFails
  BY <1>1, <1>4 DEF EnumFails, WinsockTypeOK
<1>5. CASE EventError
  BY <1>1, <1>5 DEF EventError, WinsockTypeOK
<1>6. CASE AcceptFails
  <2>1. WinsockTypeOK'
    <3>1. backlog' \in Nat /\ signaled' \subseteq Sockets
      BY <1>6 DEF AcceptFails, TakeFromBacklog, WinsockTypeOK, Sockets
    <3>2. netEvents' \in [Sockets -> SUBSET NetEvents]
      BY <1>6 DEF AcceptFails, TakeFromBacklog, WinsockTypeOK, NetEvents
    <3> QED
      BY <1>6, <3>1, <3>2 DEF AcceptFails, WinsockTypeOK
  <2> QED
    BY <1>1, <1>6, <2>1 DEF AcceptFails
<1>7. ASSUME NEW h \in Handles, CreateEventFails(h) PROVE TypeInv'
  <2>1. WinsockTypeOK'
    BY <1>7, AcceptType DEF CreateEventFails
  <2> QED
    BY <1>1, <1>7, <2>1 DEF CreateEventFails
<1> QED
  BY <1>2, <1>3, <1>4, <1>5, <1>6, <1>7 DEF Failure

LEMMA TypeNetwork == TypeInv /\ Network => TypeInv'
<1> SUFFICES ASSUME TypeInv, Network PROVE TypeInv'
  OBVIOUS
<1>1. UNCHANGED processVars
  BY DEF Network, Connect, PeerCloses, Drain
<1>2. WinsockTypeOK'
  <2> USE DEF WinsockTypeOK, Sockets, NetEvents, sendVars, netVars, eventVars
  <2>1. WinsockTypeOK
    BY DEF TypeInv, TypeOK
  <2>2. CASE Connect
    BY <2>1, <2>2, ConnsAssumption DEF Connect, Arrive
  <2>3. ASSUME NEW h \in Handles, PeerCloses(h) PROVE WinsockTypeOK'
    BY <2>1, <2>3 DEF PeerCloses, Depart
  <2>4. ASSUME NEW h \in Handles, Drain(h) PROVE WinsockTypeOK'
    BY <2>1, <2>4, SendSpaceAssumption DEF Drain, Read
  <2> QED
    BY <2>2, <2>3, <2>4 DEF Network
<1> QED
  BY <1>1, <1>2 DEF processVars, appVars, bufferVars, listVars, scanVars,
     passVars, historyVars, TypeInv, TypeOK

LEMMA TypeStep == TypeInv /\ [Next]_vars => TypeInv'
<1>1. TypeInv /\ UNCHANGED vars => TypeInv'
  BY DEF vars, appVars, bufferVars, listVars, scanVars, passVars, sendVars,
     netVars, eventVars, historyVars, TypeInv, TypeOK, WinsockTypeOK
<1> QED
  BY <1>1, TypeApp, TypeLoop, TypeHandleEvent, TypeHandleWrite, TypeFailure,
     TypeNetwork DEF Next, Thread

LEMMA TypeInvariant == Spec => []TypeInv
BY TypeInit, TypeStep, PTL DEF Spec

\* Every variable keeps its type, whatever fails and however the lists of
\* sockets and events drift apart after a failed wait.
THEOREM TypeCorrect == Spec => []TypeOK
<1>1. TypeInv => TypeOK
  BY DEF TypeInv
<1> QED
  BY <1>1, TypeInvariant, PTL

-----------------------------------------------------------------------------
(* The lists of sockets and events stay parallel, as long as the wait for   *)
(* one event does not fail.                                                 *)

\* Where the network events can be: FD_ACCEPT with the listening socket, the
\* others with clients; so what is pending tells what the index refers to.
EventInv ==
  /\ netEvents[Dummy] = {}
  /\ netEvents[Listener] \subseteq {"accept"}
  /\ pending \cap {"write", "close"} # {} => i \in 3 .. Len(sockets)
  /\ pc \in {"start", "check", "wait", "scan", "exited"} => pending = {}

\* The lists, and no lists before the thread has started.
ListInv ==
  /\ events = sockets
  /\ Len(sockets) >= 1 /\ sockets[1] = Dummy
  /\ pc = "start" => sockets = <<Dummy>>
  /\ pc \notin {"start", "exited"} => Len(sockets) >= 2
  /\ Len(sockets) >= 2 => sockets[2] = Listener
  /\ \A n \in ClientIndices : sockets[n] \in Handles /\ conn[sockets[n]] # "free"
  /\ Distinct(sockets)

LEMMA ListInit == Init => EventInv /\ ListInv
<1> SUFFICES ASSUME Init PROVE EventInv /\ ListInv
  OBVIOUS
<1>1. sockets = <<Dummy>> /\ events = <<Dummy>> /\ Len(sockets) = 1
  BY DEF Init
<1>2. EventInv
  BY DEF Init, WinsockInit, EventInv, Sockets
<1>3. ClientIndices = {}
  BY <1>1 DEF ClientIndices
<1> QED
  <2>1. Distinct(sockets)
    BY <1>1 DEF Distinct
  <2>2. pc = "start"
    BY DEF Init
  <2> QED
    BY <1>1, <1>2, <1>3, <2>1, <2>2 DEF ListInv

\* Every step but three leaves the lists alone, and closes no client's socket.
LEMMA ListsKept ==
  ASSUME TypeInv, ListInv, UNCHANGED listVars,
         \A h \in Handles : conn'[h] = "free" => conn[h] = "free",
         pc = "start" => pc' \in {"start", "exited"},
         pc' = "start" => pc = "start",
         pc = "exited" => pc' = "exited"
  PROVE  ListInv'
BY DEF ListInv, ClientIndices, listVars

LEMMA ListThreadStart == TypeInv /\ EventInv /\ ListInv /\ ThreadStart
                           => EventInv' /\ ListInv'
<1> SUFFICES ASSUME TypeInv, EventInv, ListInv, ThreadStart
             PROVE  EventInv' /\ ListInv'
  OBVIOUS
<1>1. sockets = <<Dummy>> /\ events = <<Dummy>>
  BY DEF ThreadStart, ListInv
<1>2. sockets' = Append(<<Dummy>>, Listener) /\ events' = Append(<<Dummy>>, Listener)
  BY <1>1 DEF ThreadStart
<1>3. /\ sockets' = events' /\ Len(sockets') = 2
      /\ sockets'[1] = Dummy /\ sockets'[2] = Listener
  BY <1>2
<1>4. ClientIndices' = {}
  BY <1>3 DEF ClientIndices
<1>5. Distinct(sockets)'
  BY <1>3, HandlesAssumption DEF Distinct
<1>6. ListInv'
  BY <1>3, <1>4, <1>5 DEF ListInv, ThreadStart
<1>7. EventInv'
  BY <1>1, <1>3 DEF ThreadStart, EventInv, eventVars, scanVars
<1> QED
  BY <1>6, <1>7

LEMMA ListAcceptClient ==
  ASSUME TypeInv, EventInv, ListInv, NEW h \in Handles, AcceptClient(h)
  PROVE  EventInv' /\ ListInv'
<1>1. sockets \in Seq(Sockets) /\ h \in Sockets /\ Len(sockets) \in Nat
  BY LenProperties DEF TypeInv, TypeOK, Sockets
<1>2. /\ sockets' = Append(sockets, h) /\ events' = sockets'
      /\ Len(sockets') = Len(sockets) + 1
      /\ sockets'[Len(sockets) + 1] = h
      /\ \A n \in 1 .. Len(sockets) : sockets'[n] = sockets[n]
  BY <1>1, AppendProperties DEF AcceptClient, ListInv
<1>3. /\ conn[h] = "free"
      /\ conn' = [conn EXCEPT ![h] = "open"]
      /\ conn \in [Handles -> {"free", "open", "gone"}]
      /\ pc = "handle" /\ pc' = "write"
  BY DEF AcceptClient, Accept, TypeInv, TypeOK, WinsockTypeOK
<1>4. /\ Len(sockets) >= 2 /\ sockets[1] = Dummy /\ sockets[2] = Listener
      /\ \A n \in 3 .. Len(sockets) : sockets[n] \in Handles /\ conn[sockets[n]] # "free"
      /\ Distinct(sockets)
  BY <1>3 DEF ListInv, ClientIndices
<1>5. \A n \in 1 .. Len(sockets) : sockets[n] # h
  <2> SUFFICES ASSUME NEW n \in 1 .. Len(sockets) PROVE sockets[n] # h
    OBVIOUS
  <2>1. n = 1 \/ n = 2 \/ n \in 3 .. Len(sockets)
    BY <1>1
  <2> QED
    BY <1>3, <1>4, <2>1, HandlesAssumption
<1>6. Distinct(sockets')
  BY <1>1, <1>2, <1>4, <1>5, AppendDistinct
<1>7. \A n \in 3 .. Len(sockets) + 1 :
        sockets'[n] \in Handles /\ conn'[sockets'[n]] # "free"
  <2> SUFFICES ASSUME NEW n \in 3 .. Len(sockets) + 1
               PROVE  sockets'[n] \in Handles /\ conn'[sockets'[n]] # "free"
    OBVIOUS
  <2>1. CASE n = Len(sockets) + 1
    BY <1>2, <1>3, <2>1
  <2>2. CASE n # Len(sockets) + 1
    <3>1. n \in 3 .. Len(sockets) /\ n \in 1 .. Len(sockets)
      BY <1>1, <2>2
    <3>2. sockets'[n] = sockets[n]
      BY <1>2, <3>1
    <3> QED
      BY <1>3, <1>4, <3>1, <3>2
  <2> QED
    BY <2>1, <2>2
<1>8. ListInv'
  <2>1. sockets'[1] = Dummy /\ sockets'[2] = Listener
    BY <1>1, <1>2, <1>4
  <2> QED
    BY <1>1, <1>2, <1>3, <1>6, <1>7, <2>1 DEF ListInv, ClientIndices, Distinct
<1>9. EventInv'
  <2>1. /\ netEvents'[Dummy] = netEvents[Dummy]
        /\ netEvents'[Listener] \in {netEvents[Listener], {"accept"}}
    BY HandlesAssumption
       DEF AcceptClient, Accept, TakeFromBacklog, TypeInv, TypeOK,
           WinsockTypeOK, Sockets
  <2>2. pending' = pending \ {"accept"} /\ i' = i /\ i \in Nat
    BY DEF AcceptClient, TypeInv, TypeOK
  <2> QED
    BY <1>1, <1>2, <1>3, <2>1, <2>2 DEF EventInv
<1> QED
  BY <1>8, <1>9

LEMMA ListCloseClient ==
  TypeInv /\ EventInv /\ ListInv /\ CloseClient
    => /\ EventInv' /\ ListInv'
       /\ i \in 3 .. Len(sockets)
       /\ sockets' = RemoveAt(sockets, i)
<1> SUFFICES ASSUME TypeInv, EventInv, ListInv, CloseClient
             PROVE  /\ EventInv' /\ ListInv'
                    /\ i \in 3 .. Len(sockets)
                    /\ sockets' = RemoveAt(sockets, i)
  OBVIOUS
<1>1. i \in 3 .. Len(sockets) /\ pc = "handle" /\ pc' = "write"
  BY DEF CloseClient, EventInv
<1>2. /\ sockets \in Seq(Sockets) /\ Len(sockets) \in Nat
      /\ i \in 1 .. Len(sockets)
  BY <1>1, LenProperties DEF TypeInv, TypeOK
<1>3. PICK p \in 1 .. Len(sockets) : sockets[p] = sockets[i] /\ EraseEntry(p)
  BY DEF CloseClient
<1>4. /\ Len(sockets) >= 2 /\ sockets[1] = Dummy /\ sockets[2] = Listener
      /\ \A n \in 3 .. Len(sockets) : sockets[n] \in Handles /\ conn[sockets[n]] # "free"
      /\ Distinct(sockets)
  BY <1>1 DEF ListInv, ClientIndices
<1>5. p = i
  BY <1>2, <1>3, <1>4 DEF Distinct
<1>6. sockets' = RemoveAt(sockets, i) /\ events' = sockets'
  BY <1>3, <1>5 DEF EraseEntry, ListInv
<1>7. /\ Len(sockets') = Len(sockets) - 1
      /\ \A n \in 1 .. Len(sockets) - 1 :
           sockets'[n] = IF n < i THEN sockets[n] ELSE sockets[n + 1]
      /\ Distinct(sockets')
      /\ \A n \in 1 .. Len(sockets) - 1 : sockets'[n] # sockets[i]
  BY <1>2, <1>4, <1>6, RemoveAtProperties, RemoveAtDistinct
<1>8. conn' = [conn EXCEPT ![sockets[i]] = "free"]
  BY DEF CloseClient
<1>9. \A n \in 3 .. Len(sockets) - 1 :
        sockets'[n] \in Handles /\ conn'[sockets'[n]] # "free"
  <2> SUFFICES ASSUME NEW n \in 3 .. Len(sockets) - 1
               PROVE  sockets'[n] \in Handles /\ conn'[sockets'[n]] # "free"
    OBVIOUS
  <2>1. PICK k \in 3 .. Len(sockets) : sockets'[n] = sockets[k]
    <3>1. n \in 3 .. Len(sockets) /\ n + 1 \in 3 .. Len(sockets)
      BY <1>2
    <3>2. sockets'[n] = sockets[n] \/ sockets'[n] = sockets[n + 1]
      BY <1>2, <1>7
    <3> QED
      BY <3>1, <3>2
  <2>2. sockets[k] \in Handles /\ conn[sockets[k]] # "free"
    BY <1>4
  <2>3. sockets[k] # sockets[i]
    BY <1>2, <1>7, <2>1
  <2> QED
    BY <1>8, <2>1, <2>2, <2>3 DEF TypeInv, TypeOK, WinsockTypeOK
<1>10. ListInv'
  <2>1. sockets'[1] = Dummy /\ sockets'[2] = Listener
    BY <1>1, <1>2, <1>4, <1>7
  <2>2. Len(sockets') >= 2
    BY <1>1, <1>2, <1>7
  <2> QED
    BY <1>1, <1>6, <1>7, <1>9, <2>1, <2>2 DEF ListInv, ClientIndices, Distinct
<1>11. EventInv'
  <2>1. sockets[i] # Dummy /\ sockets[i] # Listener
    BY <1>1, <1>4, HandlesAssumption
  <2>2. netEvents' = [netEvents EXCEPT ![sockets[i]] = {}] /\ pending' = {}
    BY DEF CloseClient
  <2> QED
    BY <2>1, <2>2 DEF EventInv, TypeInv, TypeOK, WinsockTypeOK
<1> QED
  BY <1>1, <1>6, <1>10, <1>11

\* The same of the network events: nothing new is pending.
LEMMA EventsKept ==
  ASSUME EventInv, UNCHANGED <<listVars, netEvents>>,
         pending' = {} \/ (pending' \subseteq pending /\ i' = i),
         pc' \in {"start", "check", "wait", "scan", "exited"} =>
           pending' = {} \/ pc \in {"start", "check", "wait", "scan", "exited"}
  PROVE  EventInv'
BY DEF EventInv, listVars, scanVars

LEMMA ListApp ==
  ASSUME TypeInv, EventInv, ListInv, App PROVE EventInv' /\ ListInv'
<1>1. UNCHANGED <<listVars, pc, scanVars>> /\ conn' = conn
  BY DEF App, Send, StopSet, StopWake, StopJoin, appFrame, netVars
<1>2. ListInv'
  BY <1>1, ListsKept DEF listVars
<1>3. netEvents'[Dummy] = netEvents[Dummy] /\ netEvents'[Listener] \subseteq netEvents[Listener]
  <2>1. netEvents' = netEvents \/ netEvents' = [netEvents EXCEPT ![Listener] = {}]
    BY DEF App, Send, StopSet, StopWake, StopJoin, appFrame, eventVars
  <2> QED
    BY <2>1, HandlesAssumption DEF TypeInv, TypeOK, WinsockTypeOK, Sockets
<1> QED
  BY <1>1, <1>2, <1>3 DEF EventInv, listVars, scanVars

LEMMA ListLoop ==
  ASSUME TypeInv, EventInv, ListInv, Loop PROVE EventInv' /\ ListInv'
<1> USE DEF loopFrame, listVars, netVars, eventVars, scanVars
<1>1. CASE ThreadStart
  BY <1>1, ListThreadStart
<1>2. CASE EnumEvents
  <2>1. ListInv'
    BY <1>2, ListsKept DEF EnumEvents
  <2>2. /\ i \in 1 .. Len(sockets) /\ sockets[i] \in Sockets
        /\ pending' = netEvents[sockets[i]]
        /\ netEvents' = [netEvents EXCEPT ![sockets[i]] = {}]
        /\ UNCHANGED <<listVars, i>>
        /\ pc' = "handle"
    BY <1>2 DEF EnumEvents, TypeInv, TypeOK
  <2>3. netEvents'[Dummy] = {} /\ netEvents'[Listener] \subseteq {"accept"}
    BY <2>2 DEF EventInv, TypeInv, TypeOK, WinsockTypeOK, Sockets
  <2>4. pending' \cap {"write", "close"} # {} => i \in 3 .. Len(sockets)
    <3>1. i = 1 => pending' = {}
      BY <2>2 DEF EventInv, ListInv
    <3>2. i = 2 => pending' \subseteq {"accept"}
      BY <2>2 DEF EventInv, ListInv
    <3>3. i = 1 \/ i = 2 \/ i \in 3 .. Len(sockets)
      BY <2>2
    <3> QED
      BY <3>1, <3>2, <3>3
  <2> QED
    BY <2>1, <2>2, <2>3, <2>4 DEF EventInv
<1>3. CASE CheckStopped \/ WaitFails \/ WaitTimesOut \/ ScanDone \/ ScanSkip
           \/ WaitWakeup \/ \E n \in 1 .. Len(events) : WaitSocket(n)
  <2>1. /\ UNCHANGED <<listVars, pending, netEvents, conn>>
        /\ pc \notin {"start", "exited"} /\ pc' # "start"
    BY <1>3 DEF CheckStopped, WaitFails, WaitTimesOut, ScanDone, ScanSkip,
       WaitWakeup, WaitSocket
  <2>2. ListInv'
    BY <2>1, ListsKept
  <2>3. EventInv'
    <3>1. pending = {}
      BY <1>3 DEF EventInv, CheckStopped, WaitFails, WaitTimesOut, ScanDone,
         ScanSkip, WaitWakeup, WaitSocket
    <3> QED
      BY <2>1, <3>1 DEF EventInv
  <2> QED
    BY <2>2, <2>3
<1> QED
  BY <1>1, <1>2, <1>3 DEF Loop

LEMMA ListHandleEvent ==
  ASSUME TypeInv, EventInv, ListInv, HandleEvent PROVE EventInv' /\ ListInv'
<1>1. CASE HandleWritable
  <2>1. /\ UNCHANGED <<listVars, netEvents, conn, i>>
        /\ pc = "handle" /\ pc' = "write" /\ pending' \subseteq pending
    BY <1>1 DEF HandleWritable, AfterWrite, loopFrame, eventVars, netVars
  <2> QED
    BY <2>1, ListsKept, EventsKept
<1>2. CASE EventDone
  <2>1. /\ UNCHANGED <<listVars, netEvents, conn>>
        /\ pc = "handle" /\ pc' = "scan" /\ pending' = {}
    BY <1>2 DEF EventDone, loopFrame, eventVars, netVars
  <2> QED
    BY <2>1, ListsKept, EventsKept
<1> QED
  BY <1>1, <1>2, ListAcceptClient, ListCloseClient DEF HandleEvent

\* A step of handleWrite leaves everything alone that the lists speak of.
LEMMA HandleWriteFrame ==
  ASSUME HandleWrite
  PROVE  /\ UNCHANGED <<appVars, listVars, netEvents, signaled, netVars, scanVars, faults>>
         /\ pc \in {"write", "writing"}
         /\ pc' \in {"handle", "writing", "assertFailed", "endDereferenced"}
BY DEF HandleWrite, WriteBegin, WriteAsserts, WriteLocal, WriteGlobal, WriteEnd,
   writeFrame, loopFrame, eventVars

LEMMA ListHandleWrite ==
  ASSUME TypeInv, EventInv, ListInv, HandleWrite PROVE EventInv' /\ ListInv'
BY HandleWriteFrame, ListsKept, EventsKept DEF netVars, scanVars

LEMMA ListFailure ==
  ASSUME "poll" \notin Faults, TypeInv, EventInv, ListInv, Failure
  PROVE  EventInv' /\ ListInv'
<1> USE DEF loopFrame, listVars, netVars, eventVars, scanVars
<1>1. CASE ThreadStartFails \/ EnumFails \/ EventError
  <2>1. /\ UNCHANGED <<listVars, netEvents, conn>>
        /\ pc = "start" => pc' = "exited"
        /\ pc # "exited" /\ pc' # "start"
        /\ pending' = {} \/ (pending' = pending /\ pc \in {"start", "scan"})
    BY <1>1 DEF ThreadStartFails, EnumFails, EventError
  <2>2. pending' = {}
    BY <2>1 DEF EventInv
  <2> QED
    BY <2>1, <2>2, ListsKept, EventsKept
<1>2. ~ ScanFails
  BY DEF ScanFails, Fault
<1>3. ASSUME AcceptFails \/ \E h \in Handles : CreateEventFails(h)
      PROVE  EventInv' /\ ListInv'
  <2>1. /\ UNCHANGED listVars
        /\ pc = "handle" /\ pc' = "scan" /\ pending' = {}
    BY <1>3 DEF AcceptFails, CreateEventFails
  <2>2. \A h \in Handles : conn'[h] = "free" => conn[h] = "free"
    BY <1>3 DEF AcceptFails, CreateEventFails, Accept, TypeInv, TypeOK, WinsockTypeOK
  <2>3. ListInv'
    BY <2>1, <2>2, ListsKept
  <2>4. /\ netEvents'[Dummy] = netEvents[Dummy]
        /\ netEvents'[Listener] \in {netEvents[Listener], {"accept"}}
    BY <1>3, HandlesAssumption
       DEF AcceptFails, CreateEventFails, Accept, TakeFromBacklog, TypeInv,
           TypeOK, WinsockTypeOK, Sockets
  <2> QED
    BY <2>1, <2>3, <2>4 DEF EventInv
<1> QED
  BY <1>1, <1>2, <1>3 DEF Failure

LEMMA ListNetwork ==
  ASSUME TypeInv, EventInv, ListInv, Network PROVE EventInv' /\ ListInv'
<1>1. UNCHANGED processVars
  BY DEF Network, Connect, PeerCloses, Drain
<1>2. \A h \in Handles : conn'[h] = "free" => conn[h] = "free"
  BY DEF Network, Connect, PeerCloses, Drain, Arrive, Depart, Read, netVars,
     TypeInv, TypeOK, WinsockTypeOK
<1>3. ListInv'
  BY <1>1, <1>2, ListsKept DEF processVars
<1>4. /\ netEvents'[Dummy] = netEvents[Dummy]
      /\ netEvents'[Listener] \in {netEvents[Listener], {"accept"}}
  BY HandlesAssumption
     DEF Network, Connect, PeerCloses, Drain, Arrive, Depart, Read, eventVars,
         TypeInv, TypeOK, WinsockTypeOK, Sockets
<1> QED
  BY <1>1, <1>3, <1>4 DEF EventInv, processVars, listVars, scanVars

LEMMA ListStep ==
  ASSUME "poll" \notin Faults, TypeInv, EventInv, ListInv, [Next]_vars
  PROVE  EventInv' /\ ListInv'
<1>1. CASE UNCHANGED vars
  BY <1>1 DEF vars, listVars, scanVars, netVars, eventVars, EventInv, ListInv,
     ClientIndices, Distinct
<1> QED
  BY <1>1, ListApp, ListLoop, ListHandleEvent, ListHandleWrite, ListFailure,
     ListNetwork DEF Next, Thread

\* sockets and events stay parallel in every behaviour in which no wait for a
\* single event fails (the failure at ServerSocket.cpp:316-328 breaks it).
THEOREM ListsStayAligned ==
  ASSUME "poll" \notin Faults PROVE Spec => []ListsAligned
<1>1. Init => EventInv /\ ListInv
  BY ListInit
<1>2. TypeInv /\ EventInv /\ ListInv /\ [Next]_vars => EventInv' /\ ListInv'
  BY ListStep
<1>3. ListInv => ListsAligned
  BY DEF ListInv, ListsAligned
<1> QED
  BY <1>1, <1>2, <1>3, TypeInvariant, PTL DEF Spec

-----------------------------------------------------------------------------
(* The stream: every buffer is an end of it, and no client is sent a byte   *)
(* twice.                                                                   *)

\* A pass that has something to move mBuffer on by is not over, and mBuffer
\* holds it.
PassInv ==
  /\ firstWritten # -1 => pc \in {"writing", "assertFailed", "endDereferenced"}
  /\ firstWritten > 0 => mBuffer.size > 0

LEMMA PassStep ==
  ASSUME TypeInv, PassInv, [Next]_vars PROVE PassInv'
<1> USE DEF PassInv
<1>1. CASE UNCHANGED vars
  BY <1>1 DEF vars, bufferVars, passVars
<1>2. CASE App
  <2>1. pc' = pc /\ firstWritten' = firstWritten
    BY <1>2 DEF App, Send, StopSet, StopWake, StopJoin, appFrame, passVars
  <2>2. mBuffer' = mBuffer \/ (~ Crashed /\ pc # "writing")
    BY <1>2 DEF App, Send, StopSet, StopWake, StopJoin, bufferVars
  <2> QED
    BY <2>1, <2>2 DEF Crashed, TypeInv, TypeOK
<1>3. CASE Loop \/ HandleEvent \/ Failure
  <2>1. firstWritten' = firstWritten /\ mBuffer' = mBuffer
    BY <1>3 DEF Loop, ThreadStart, CheckStopped, WaitFails, WaitTimesOut,
       WaitWakeup, WaitSocket, ScanDone, ScanSkip, EnumEvents, HandleEvent,
       AcceptClient, HandleWritable, CloseClient, EventDone, Failure,
       ThreadStartFails, ScanFails, EnumFails, EventError, AcceptFails,
       CreateEventFails, loopFrame, bufferVars, passVars
  <2>2. pc \notin {"writing", "assertFailed", "endDereferenced"}
    BY <1>3 DEF Loop, ThreadStart, CheckStopped, WaitFails, WaitTimesOut,
       WaitWakeup, WaitSocket, ScanDone, ScanSkip, EnumEvents, HandleEvent,
       AcceptClient, HandleWritable, CloseClient, EventDone, Failure,
       ThreadStartFails, ScanFails, EnumFails, EventError, AcceptFails,
       CreateEventFails
  <2> QED
    BY <2>1, <2>2 DEF TypeInv, TypeOK
<1>4. CASE WriteBegin
  BY <1>4 DEF WriteBegin, passVars
<1>5. CASE WriteAsserts
  BY <1>5 DEF WriteAsserts, loopFrame, bufferVars, passVars
<1>6. CASE WriteLocal
  BY <1>6 DEF WriteLocal
<1>7. CASE WriteGlobal
  <2>1. PICK w \in SendResults(sockets[socki], mBuffer.size - mBuffer.offset) :
          /\ firstWritten' = IF w > 0 /\ firstWritten = -1
                               THEN w ELSE firstWritten
          /\ mBuffer' = IF w = 0 /\ mBuffer.size > MaxThreshold
                          THEN Truncate(mBuffer) ELSE mBuffer
          /\ pc' = IF w < 0 THEN "endDereferenced" ELSE pc
    BY <1>7 DEF WriteGlobal
  <2>2. pc = "writing" /\ mBuffer \in Buffers /\ mBuffer.offset <= mBuffer.size
    BY <1>7 DEF WriteGlobal, TypeInv, TypeOK
  <2>3. w \in Int /\ w <= mBuffer.size - mBuffer.offset
    <3>1. mBuffer.size - mBuffer.offset \in Nat
      BY <2>2 DEF Buffers
    <3> QED
      BY <3>1, SendResultsType DEF TypeInv, TypeOK
  <2>4. w > 0 => mBuffer.size > 0
    BY <2>2, <2>3 DEF Buffers
  <2>5. Truncate(mBuffer).size > 0
    BY ThresholdAssumption DEF Truncate
  <2> QED
    BY <2>1, <2>2, <2>3, <2>4, <2>5 DEF TypeInv, TypeOK
<1>8. CASE WriteEnd
  BY <1>8 DEF WriteEnd
<1>9. CASE Network
  BY <1>9 DEF Network, Connect, PeerCloses, Drain, processVars, bufferVars, passVars
<1> QED
  BY <1>1, <1>2, <1>3, <1>4, <1>5, <1>6, <1>7, <1>8, <1>9
     DEF Next, Thread, HandleWrite

\* What the buffers, the stream and the clients' positions depend on.
streamVars == <<produced, mBuffer, localKeys, local, sockets, socki,
                firstWritten, historyVars>>

\* The steps that change none of it.
LEMMA StreamFrame ==
  ASSUME [Next]_vars,
         \A n \in 1 .. MaxChunk : ~ Send(n),
         ~ ThreadStart, ~ CloseClient, ~ ScanFails,
         \A h \in Handles : ~ AcceptClient(h),
         ~ WriteBegin, ~ WriteLocal, ~ WriteGlobal, ~ WriteEnd
  PROVE  UNCHANGED streamVars
<1> USE DEF streamVars, appVars, bufferVars, listVars, passVars, historyVars
<1>1. CASE UNCHANGED vars
  BY <1>1 DEF vars
<1>2. CASE App
  BY <1>2 DEF App, StopSet, StopWake, StopJoin, appFrame
<1>3. CASE Loop
  BY <1>3 DEF Loop, CheckStopped, WaitFails, WaitTimesOut, WaitWakeup,
     WaitSocket, ScanDone, ScanSkip, EnumEvents, loopFrame
<1>4. CASE HandleEvent
  BY <1>4 DEF HandleEvent, HandleWritable, EventDone, loopFrame
<1>5. CASE HandleWrite
  BY <1>5 DEF HandleWrite, WriteAsserts, loopFrame
<1>6. CASE Failure
  BY <1>6 DEF Failure, ThreadStartFails, EnumFails, EventError, AcceptFails,
     CreateEventFails, loopFrame
<1>7. CASE Network
  BY <1>7 DEF Network, Connect, PeerCloses, Drain, processVars
<1> QED
  BY <1>1, <1>2, <1>3, <1>4, <1>5, <1>6, <1>7 DEF Next, Thread

-----------------------------------------------------------------------------
(* A buffer of its own belongs to a client in the lists.                   *)

\* Where the clients of the lists are after a client was added or taken out.
LEMMA AppendedEntries ==
  ASSUME TypeInv, EventInv, ListInv, NEW h \in Handles, AcceptClient(h)
  PROVE  /\ Len(sockets) \in Nat /\ Len(sockets') = Len(sockets) + 1
         /\ sockets'[Len(sockets) + 1] = h
         /\ \A n \in 1 .. Len(sockets) : sockets'[n] = sockets[n]
         /\ \A n \in ClientIndices : sockets[n] # h
<1>1. sockets \in Seq(Sockets) /\ h \in Sockets /\ Len(sockets) \in Nat
  BY LenProperties DEF TypeInv, TypeOK, Sockets
<1>2. sockets' = Append(sockets, h) /\ conn[h] = "free"
  BY DEF AcceptClient, Accept
<1>3. \A n \in ClientIndices : sockets[n] # h
  BY <1>2 DEF ListInv
<1> QED
  BY <1>1, <1>2, <1>3, AppendProperties

LEMMA RemovedEntries ==
  ASSUME TypeInv, EventInv, ListInv, CloseClient
  PROVE  /\ Len(sockets) \in Nat /\ Len(sockets') = Len(sockets) - 1
         /\ i \in 3 .. Len(sockets)
         /\ \A n \in ClientIndices' :
              \E k \in ClientIndices : k # i /\ sockets'[n] = sockets[k]
         /\ \A k \in ClientIndices :
              k # i => \E n \in ClientIndices' : sockets'[n] = sockets[k]
<1>1. /\ i \in 3 .. Len(sockets) /\ sockets' = RemoveAt(sockets, i)
      /\ sockets \in Seq(Sockets) /\ Len(sockets) \in Nat
  BY ListCloseClient, LenProperties DEF TypeInv, TypeOK
<1>2. /\ Len(sockets') = Len(sockets) - 1
      /\ \A n \in 1 .. Len(sockets) - 1 :
           sockets'[n] = IF n < i THEN sockets[n] ELSE sockets[n + 1]
  <2>1. i \in 1 .. Len(sockets)
    BY <1>1
  <2>2. /\ Len(RemoveAt(sockets, i)) = Len(sockets) - 1
        /\ \A n \in 1 .. Len(sockets) - 1 :
             RemoveAt(sockets, i)[n] = IF n < i THEN sockets[n] ELSE sockets[n + 1]
    BY <1>1, <2>1, RemoveAtProperties, Zenon
  <2> QED
    BY <1>1, <2>2, Zenon
<1>3. ASSUME NEW n \in 3 .. Len(sockets) - 1
      PROVE  \E k \in 3 .. Len(sockets) : k # i /\ sockets'[n] = sockets[k]
  <2>1. CASE n < i
    BY <1>1, <1>2, <2>1
  <2>2. CASE ~ (n < i)
    <3>1. /\ n + 1 \in 3 .. Len(sockets) /\ n + 1 # i
          /\ sockets'[n] = sockets[n + 1]
      BY <1>1, <1>2, <2>2
    <3> QED
      BY <3>1
  <2> QED
    BY <2>1, <2>2
<1>4. ASSUME NEW k \in 3 .. Len(sockets), k # i
      PROVE  \E n \in 3 .. Len(sockets) - 1 : sockets'[n] = sockets[k]
  <2>1. CASE k < i
    BY <1>1, <1>2, <2>1
  <2>2. CASE k > i
    <3>1. /\ k - 1 \in 3 .. Len(sockets) - 1 /\ ~ (k - 1 < i)
          /\ (k - 1) + 1 = k
      BY <1>1, <2>2
    <3>2. sockets'[k - 1] = sockets[k]
      BY <1>2, <3>1
    <3> QED
      BY <3>1, <3>2
  <2> QED
    BY <1>1, <1>4, <2>1, <2>2
<1> QED
  BY <1>1, <1>2, <1>3, <1>4 DEF ClientIndices

LEMMA KeyStep ==
  ASSUME "poll" \notin Faults, TypeInv, EventInv, ListInv, NoInheritedBuffer,
         [Next]_vars
  PROVE  NoInheritedBuffer'
<1> USE DEF NoInheritedBuffer
<1>1. ASSUME localKeys' \subseteq localKeys, sockets' = sockets
      PROVE  NoInheritedBuffer'
  BY <1>1 DEF Listed, ClientIndices
<1>2. ASSUME NEW n \in 1 .. MaxChunk, Send(n) PROVE NoInheritedBuffer'
  BY <1>1, <1>2 DEF Send, appFrame, listVars
<1>3. CASE ThreadStart
  <2>1. sockets = <<Dummy>> /\ localKeys' = localKeys
    BY <1>3 DEF ThreadStart, ListInv, bufferVars
  <2>2. Listed = {}
    BY <2>1 DEF Listed, ClientIndices
  <2> QED
    BY <2>1, <2>2
<1>4. ASSUME NEW h \in Handles, AcceptClient(h) PROVE NoInheritedBuffer'
  <2>1. localKeys' = localKeys
    BY <1>4 DEF AcceptClient, bufferVars
  <2>2. \A k \in ClientIndices : k \in ClientIndices' /\ sockets'[k] = sockets[k]
    BY <1>4, AppendedEntries DEF ClientIndices
  <2> QED
    BY <2>1, <2>2 DEF Listed
<1>5. CASE CloseClient
  <2>1. localKeys' = localKeys \ {sockets[i]}
    BY <1>5 DEF CloseClient, EraseLocal
  <2>2. \A k \in ClientIndices :
          k # i => \E n \in ClientIndices' : sockets'[n] = sockets[k]
    BY <1>5, RemovedEntries
  <2> QED
    BY <2>1, <2>2 DEF Listed
<1>6. CASE WriteBegin
  <2>1. sockets' = sockets /\ localKeys' \subseteq localKeys
    BY <1>6 DEF WriteBegin, writeFrame, listVars, bufferVars
  <2> QED
    BY <1>1, <2>1
<1>7. CASE WriteLocal
  BY <1>1, <1>7 DEF WriteLocal, writeFrame, listVars
<1>8. CASE WriteGlobal
  <2>1. sockets' = sockets /\ socki \in ClientIndices
    BY <1>8 DEF WriteGlobal, writeFrame, listVars, ClientIndices, TypeInv, TypeOK
  <2>2. localKeys' \subseteq localKeys \cup {sockets[socki]}
    BY <1>8 DEF WriteGlobal
  <2> QED
    BY <2>1, <2>2 DEF Listed, ClientIndices
<1>9. CASE WriteEnd
  BY <1>1, <1>9 DEF WriteEnd, writeFrame, listVars
<1>10. ~ ScanFails
  BY DEF ScanFails, Fault
<1>11. CASE UNCHANGED streamVars
  BY <1>1, <1>11 DEF streamVars
<1> QED
  BY <1>2, <1>3, <1>4, <1>5, <1>6, <1>7, <1>8, <1>9, <1>10, <1>11, StreamFrame

\* A handle that is given out again does not inherit a buffer: when a client
\* is closed its buffer goes, and a buffer is only made for a listed client.
THEOREM NoBufferInherited ==
  ASSUME "poll" \notin Faults PROVE Spec => []NoInheritedBuffer
<1>1. Init => NoInheritedBuffer
  BY DEF Init, NoInheritedBuffer
<1> QED
  BY <1>1, ListInit, ListStep, KeyStep, TypeInvariant, PTL DEF Spec

-----------------------------------------------------------------------------
(* Every buffer is an end of the stream.                                   *)

\* BuffersAreSuffixes, with the end of the stream as a parameter.
EndsAt(b, end) == b.size > 0 => b.base + b.size = end
SuffixInv == /\ EndsAt(mBuffer, produced)
             /\ \A h \in localKeys : EndsAt(local[h], produced)

\* What is done to one buffer keeps its end where it was ...
LEMMA SuffixKept ==
  ASSUME NEW b \in Buffers, NEW w \in Nat, NEW end \in Nat, EndsAt(b, end)
  PROVE  /\ EndsAt(Empty, end) /\ EndsAt(Advance(b, w), end)
         /\ EndsAt([b EXCEPT !.offset = @ + w], end)
<1>1. EndsAt(Empty, end)
  BY DEF EndsAt, Empty
<1>2. /\ [b EXCEPT !.offset = @ + w].base = b.base
      /\ [b EXCEPT !.offset = @ + w].size = b.size
  BY DEF Buffers
<1>3. EndsAt([b EXCEPT !.offset = @ + w], end)
  BY <1>2 DEF EndsAt
<1>4. EndsAt(Advance(b, w), end)
  BY <1>1, <1>3 DEF Advance
<1> QED
  BY <1>1, <1>3, <1>4

\* (a buffer is only truncated when it is longer than MaxThreshold)
LEMMA SuffixTruncated ==
  ASSUME NEW b \in Buffers, NEW end \in Nat, EndsAt(b, end),
         b.size > MaxThreshold
  PROVE  EndsAt(Truncate(b), end)
<1>1. /\ b.base \in Nat /\ b.size \in Nat
      /\ MinThreshold \in Nat /\ MaxThreshold \in Nat
  BY ThresholdAssumption DEF Buffers
<1>2. /\ Truncate(b).base = b.base + b.size - MinThreshold
      /\ Truncate(b).size = MinThreshold
  BY DEF Truncate
<1>3. b.base + b.size = end
  BY <1>1 DEF EndsAt
<1>4. Truncate(b).base + Truncate(b).size = end
  BY <1>1, <1>2, <1>3
<1> QED
  BY <1>4 DEF EndsAt

\* ... and send() moves it to the new end of the stream.
LEMMA SuffixExtended ==
  ASSUME TypeOK, NEW b \in Buffers, EndsAt(b, produced), NEW n \in Nat
  PROVE  EndsAt(Extend(b, n), produced + n)
<1>1. b.base \in Nat /\ b.size \in Nat /\ produced \in Nat
  BY BoundsAssumption DEF Buffers, TypeOK
<1>2. /\ Extend(b, n).base = IF b.size = 0 THEN produced ELSE b.base
      /\ Extend(b, n).size = b.size + n
  BY DEF Extend
<1>3. CASE b.size = 0
  <2>1. Extend(b, n).base + Extend(b, n).size = produced + n
    BY <1>1, <1>2, <1>3
  <2> QED
    BY <2>1 DEF EndsAt
<1>4. CASE b.size > 0
  <2>1. b.base + b.size = produced
    BY <1>4 DEF EndsAt
  <2>2. Extend(b, n).base + Extend(b, n).size = produced + n
    BY <1>1, <1>2, <1>4, <2>1
  <2> QED
    BY <2>2 DEF EndsAt
<1> QED
  BY <1>1, <1>3, <1>4

LEMMA SuffixStep ==
  ASSUME TypeInv, SuffixInv, [Next]_vars PROVE SuffixInv'
<1> USE DEF SuffixInv
<1>1. /\ mBuffer \in Buffers /\ local \in [Handles -> Buffers]
      /\ localKeys \subseteq Handles /\ produced \in Nat
      /\ firstWritten \in Nat \cup {-1}
  BY BoundsAssumption DEF TypeInv, TypeOK
<1>2. ASSUME NEW n \in 1 .. MaxChunk, Send(n) PROVE SuffixInv'
  <2>1. \A b \in Buffers : EndsAt(b, produced) => EndsAt(Extend(b, n), produced + n)
    <3>1. n \in Nat
      BY BoundsAssumption
    <3> QED
      BY <3>1, SuffixExtended DEF TypeInv
  <2>2. /\ produced' = produced + n /\ mBuffer' = Extend(mBuffer, n)
        /\ localKeys' = localKeys
        /\ \A h \in localKeys : local'[h] = Extend(local[h], n)
    BY <1>1, <1>2 DEF Send, ExtendLocal
  <2> QED
    BY <1>1, <2>1, <2>2
<1>3. CASE UNCHANGED <<produced, mBuffer, localKeys, local>>
  BY <1>3
<1>4. CASE CloseClient \/ ScanFails
  <2>1. /\ produced' = produced /\ mBuffer' = mBuffer
        /\ localKeys' \subseteq localKeys
        /\ \A h \in localKeys' : local'[h] = local[h]
    BY <1>1, <1>4 DEF CloseClient, ScanFails, EraseLocal, appVars
  <2> QED
    BY <2>1
<1>5. CASE WriteBegin
  <2>1. produced' = produced
    BY <1>5 DEF WriteBegin, writeFrame, appVars
  <2>2. UNCHANGED bufferVars \/ (mBuffer' = Empty /\ localKeys' = {})
    BY <1>5 DEF WriteBegin
  <2> QED
    BY <1>1, <2>1, <2>2, SuffixKept DEF bufferVars
<1>6. CASE WriteLocal
  <2> DEFINE s == sockets[socki]
             b == local[s]
  <2>1. /\ produced' = produced /\ UNCHANGED <<mBuffer, localKeys>>
        /\ s \in localKeys /\ b \in Buffers /\ b.offset <= b.size
    BY <1>1, <1>6 DEF WriteLocal, writeFrame, appVars
  <2>2. PICK w \in SendResults(s, b.size - b.offset) :
          /\ Written(s, b, w)
          /\ local' = [local EXCEPT ![s] =
               IF w > 0 THEN Advance(b, w)
               ELSE IF w = 0 /\ b.size > MaxThreshold THEN Truncate(b)
               ELSE IF w < 0 THEN Empty
               ELSE b]
    BY <1>6 DEF WriteLocal
  <2> HIDE DEF s, b
  <2>3. EndsAt(b, produced)
    BY <2>1 DEF b
  <2>4. w \in Int
    BY <2>1, <2>2, WrittenType DEF TypeInv
  <2>5. local'[s] = IF w > 0 THEN Advance(b, w)
                    ELSE IF w = 0 /\ b.size > MaxThreshold THEN Truncate(b)
                    ELSE IF w < 0 THEN Empty
                    ELSE b
    BY <1>1, <2>1, <2>2
  <2>6. EndsAt(local'[s], produced)
    <3>1. CASE w > 0
      <4>1. w \in Nat
        BY <2>4, <3>1
      <4>2. EndsAt(Advance(b, w), produced)
        BY <1>1, <2>1, <2>3, <4>1, SuffixKept
      <4> QED
        BY <2>5, <3>1, <4>2
    <3>2. CASE ~ (w > 0)
      <4>1. b.size > MaxThreshold => EndsAt(Truncate(b), produced)
        BY <1>1, <2>1, <2>3, SuffixTruncated
      <4>2. EndsAt(Empty, produced)
        BY DEF EndsAt, Empty
      <4> QED
        BY <2>3, <2>5, <3>2, <4>1, <4>2
    <3> QED
      BY <3>1, <3>2
  <2>7. \A h \in localKeys : h # s => local'[h] = local[h]
    BY <1>1, <2>2
  <2> QED
    BY <2>1, <2>6, <2>7
<1>7. CASE WriteGlobal
  <2> DEFINE s == sockets[socki]
  <2>1. produced' = produced /\ mBuffer.offset <= mBuffer.size
    BY <1>7 DEF WriteGlobal, writeFrame, appVars
  <2>2. PICK w \in SendResults(s, mBuffer.size - mBuffer.offset) :
          /\ Written(s, mBuffer, w)
          /\ IF NeedsCopy(w)
               THEN /\ localKeys' = localKeys \cup {s}
                    /\ local' = [local EXCEPT ![s] = CopyFor(w)]
               ELSE UNCHANGED <<localKeys, local>>
          /\ mBuffer' = IF w = 0 /\ mBuffer.size > MaxThreshold
                          THEN Truncate(mBuffer) ELSE mBuffer
    BY <1>7 DEF WriteGlobal
  <2> HIDE DEF s
  <2>3. w \in Int /\ (w > 0 => s \in Handles)
    BY <1>1, <2>1, <2>2, WrittenType DEF TypeInv
  <2>4. EndsAt(mBuffer', produced)
    <3>1. mBuffer.size > MaxThreshold => EndsAt(Truncate(mBuffer), produced)
      BY <1>1, SuffixTruncated
    <3> QED
      BY <2>2, <3>1
  <2>5. CASE NeedsCopy(w)
    <3>1. w > 0 /\ w \in Nat
      BY <2>3, <2>5 DEF NeedsCopy
    <3>2. EndsAt(CopyFor(w), produced)
      BY <1>1, <3>1, SuffixKept DEF CopyFor
    <3>3. \A h \in localKeys' : local'[h] = CopyFor(w) \/ (h \in localKeys /\ local'[h] = local[h])
      BY <1>1, <2>2, <2>3, <2>5, <3>1
    <3> QED
      BY <2>1, <2>4, <3>2, <3>3
  <2>6. CASE ~ NeedsCopy(w)
    BY <2>1, <2>2, <2>4, <2>6
  <2> QED
    BY <2>5, <2>6
<1>8. CASE WriteEnd
  <2>1. /\ UNCHANGED <<produced, localKeys, local>>
        /\ mBuffer' = IF firstWritten > 0 THEN Advance(mBuffer, firstWritten)
                      ELSE mBuffer
    BY <1>8 DEF WriteEnd, writeFrame, appVars
  <2>2. firstWritten > 0 => EndsAt(Advance(mBuffer, firstWritten), produced)
    <3> SUFFICES ASSUME firstWritten > 0
                 PROVE  EndsAt(Advance(mBuffer, firstWritten), produced)
      OBVIOUS
    <3>1. firstWritten \in Nat
      BY <1>1
    <3> QED
      BY <1>1, <3>1, SuffixKept
  <2> QED
    BY <2>1, <2>2
<1>9. CASE ThreadStart \/ \E h \in Handles : AcceptClient(h)
  BY <1>3, <1>9 DEF ThreadStart, AcceptClient, appVars, bufferVars
<1>10. CASE UNCHANGED streamVars
  BY <1>3, <1>10 DEF streamVars
<1> QED
  BY <1>2, <1>4, <1>5, <1>6, <1>7, <1>8, <1>9, <1>10, StreamFrame

LEMMA SuffixInvariant == Spec => []SuffixInv
<1>1. Init => SuffixInv
  BY DEF Init, SuffixInv, EndsAt, Empty
<1> QED
  BY <1>1, SuffixStep, TypeInvariant, PTL DEF Spec

\* Whatever is cleared, truncated, copied or erased, the shared buffer and the
\* buffer of every client end with the newest byte given to send().
THEOREM BuffersStaySuffixes == Spec => []BuffersAreSuffixes
<1>1. SuffixInv => BuffersAreSuffixes
  BY DEF SuffixInv, BuffersAreSuffixes, EndsStream, EndsAt
<1> QED
  BY <1>1, SuffixInvariant, PTL

-----------------------------------------------------------------------------
(* No client is sent a byte twice.                                         *)

\* Cursor, with the end of the stream as a parameter.
CursorAt(b, end) == IF b.size = 0 THEN end ELSE b.base + b.offset

LEMMA CursorAtType ==
  ASSUME NEW b \in Buffers, NEW end \in Nat
  PROVE  CursorAt(b, end) \in Nat
BY DEF CursorAt, Buffers

\* Clearing, truncating and extending a buffer never move its cursor back.
LEMMA CursorForward ==
  ASSUME NEW b \in Buffers, NEW end \in Nat, EndsAt(b, end)
  PROVE  /\ b.size > MaxThreshold => CursorAt(b, end) <= CursorAt(Truncate(b), end)
         /\ b.offset <= b.size => CursorAt(b, end) <= CursorAt(Empty, end)
<1>1. b.base \in Nat /\ b.size \in Nat /\ b.offset \in Nat
  BY DEF Buffers
<1>2. /\ MinThreshold \in Nat /\ MinThreshold > 0
      /\ MaxThreshold \in Nat /\ MinThreshold <= MaxThreshold
  BY ThresholdAssumption
<1>3. b.size > MaxThreshold => CursorAt(b, end) <= CursorAt(Truncate(b), end)
  BY <1>1, <1>2 DEF CursorAt, Truncate
<1>4. b.offset <= b.size => CursorAt(b, end) <= CursorAt(Empty, end)
  BY <1>1 DEF CursorAt, Empty, EndsAt
<1> QED
  BY <1>3, <1>4

LEMMA CursorExtended ==
  ASSUME TypeOK, NEW b \in Buffers, EndsAt(b, produced), NEW n \in Nat
  PROVE  CursorAt(b, produced) <= CursorAt(Extend(b, n), produced + n)
BY BoundsAssumption DEF CursorAt, Extend, EndsAt, Buffers, TypeOK

\* Sending w bytes moves it on by w, whether or not the buffer is used up.
LEMMA CursorMoved ==
  ASSUME NEW b \in Buffers, NEW end \in Nat, EndsAt(b, end), NEW w \in Nat,
         b.size > 0
  PROVE  /\ CursorAt(Advance(b, w), end) = CursorAt(b, end) + w
         /\ CursorAt([b EXCEPT !.offset = @ + w], end) = CursorAt(b, end) + w
<1>1. b.base \in Nat /\ b.size \in Nat /\ b.offset \in Nat
  BY DEF Buffers
<1>2. /\ [b EXCEPT !.offset = @ + w].base = b.base
      /\ [b EXCEPT !.offset = @ + w].size = b.size
      /\ [b EXCEPT !.offset = @ + w].offset = b.offset + w
  BY DEF Buffers
<1>3. CursorAt([b EXCEPT !.offset = @ + w], end) = CursorAt(b, end) + w
  BY <1>1, <1>2 DEF CursorAt
<1>4. CASE b.offset + w = b.size
  <2>1. CursorAt(Advance(b, w), end) = end
    BY <1>4 DEF Advance, CursorAt, Empty
  <2>2. end = b.base + (b.offset + w)
    BY <1>4 DEF EndsAt
  <2> QED
    BY <1>1, <1>3, <2>1, <2>2 DEF CursorAt
<1>5. CASE b.offset + w # b.size
  BY <1>3, <1>5 DEF Advance
<1> QED
  BY <1>3, <1>4, <1>5

\* InOrder, with one part for each buffer a client can read from.
InOrderAt(n) ==
  /\ sockets[n] \in localKeys
       => next[sockets[n]] <= CursorAt(local[sockets[n]], produced)
  /\ sockets[n] \notin localKeys
       => next[sockets[n]] <= CursorAt(mBuffer, produced) + Pace(n)
OrderInv == \A n \in ClientIndices : InOrderAt(n)

\* What the steps below use of the other invariants.
StreamInv == /\ TypeInv /\ EventInv /\ ListInv
             /\ PassInv /\ NoInheritedBuffer /\ SuffixInv

LEMMA StreamTypes ==
  ASSUME StreamInv
  PROVE  /\ mBuffer \in Buffers /\ local \in [Handles -> Buffers]
         /\ localKeys \subseteq Handles /\ produced \in Nat
         /\ next \in [Handles -> Nat]
         /\ firstWritten \in Nat \cup {-1}
         /\ socki \in Nat /\ socki >= 3 /\ Len(sockets) \in Nat
         /\ CursorAt(mBuffer, produced) \in Nat
         /\ \A h \in Handles : CursorAt(local[h], produced) \in Nat
         /\ EndsAt(mBuffer, produced)
         /\ \A h \in localKeys : EndsAt(local[h], produced)
         /\ \A n \in ClientIndices :
              sockets[n] \in Handles /\ next[sockets[n]] \in Nat /\ Pace(n) \in Nat
         /\ \A m, n \in ClientIndices : sockets[m] = sockets[n] => m = n
<1>1. /\ mBuffer \in Buffers /\ local \in [Handles -> Buffers]
      /\ localKeys \subseteq Handles /\ produced \in Nat
      /\ next \in [Handles -> Nat]
      /\ firstWritten \in Nat \cup {-1}
      /\ socki \in Nat /\ socki >= 3 /\ Len(sockets) \in Nat
  BY BoundsAssumption, LenProperties DEF StreamInv, TypeInv, TypeOK
<1>2. /\ CursorAt(mBuffer, produced) \in Nat
      /\ \A h \in Handles : CursorAt(local[h], produced) \in Nat
  <2>1. \A h \in Handles : local[h] \in Buffers
    BY <1>1
  <2> QED
    BY <1>1, <2>1, CursorAtType
<1>3. \A n \in ClientIndices :
        sockets[n] \in Handles /\ next[sockets[n]] \in Nat /\ Pace(n) \in Nat
  BY <1>1 DEF StreamInv, ListInv, Pace
<1>4. \A m, n \in ClientIndices : sockets[m] = sockets[n] => m = n
  BY <1>1 DEF StreamInv, ListInv, Distinct, ClientIndices
<1> QED
  BY <1>1, <1>2, <1>3, <1>4 DEF StreamInv, SuffixInv

LEMMA OrderSend ==
  ASSUME StreamInv, OrderInv, NEW n \in 1 .. MaxChunk, Send(n) PROVE OrderInv'
<1>1. n \in Nat /\ TypeOK
  BY BoundsAssumption DEF StreamInv, TypeInv
<1>2. /\ UNCHANGED <<sockets, next, localKeys, socki, firstWritten>>
      /\ produced' = produced + n /\ mBuffer' = Extend(mBuffer, n)
      /\ \A h \in localKeys : local'[h] = Extend(local[h], n)
  BY StreamTypes DEF Send, ExtendLocal, appFrame, listVars, passVars, historyVars
<1>3. CursorAt(mBuffer, produced) <= CursorAt(mBuffer', produced')
  BY <1>1, <1>2, StreamTypes, CursorExtended
<1>4. \A h \in localKeys : CursorAt(local[h], produced) <= CursorAt(local'[h], produced')
  BY <1>1, <1>2, StreamTypes, CursorExtended
<1>5. \A b \in Buffers : Extend(b, n) \in Buffers
  BY <1>1, ExtendType
<1>6. /\ CursorAt(mBuffer', produced') \in Nat
      /\ \A h \in localKeys : CursorAt(local'[h], produced') \in Nat
  <2>1. produced + n \in Nat
    BY <1>1, StreamTypes
  <2>2. /\ mBuffer' \in Buffers
        /\ \A h \in localKeys : local'[h] \in Buffers
    BY <1>2, <1>5, StreamTypes
  <2> QED
    BY <1>2, <2>1, <2>2, CursorAtType
<1> SUFFICES ASSUME NEW k \in ClientIndices PROVE InOrderAt(k)'
  BY <1>2 DEF OrderInv, ClientIndices
<1>7. InOrderAt(k) /\ Pace(k)' = Pace(k) /\ next[sockets[k]] \in Nat /\ Pace(k) \in Nat
  BY <1>2, StreamTypes DEF OrderInv, Pace
<1>8. CASE sockets[k] \in localKeys
  <2>1. next[sockets[k]] <= CursorAt(local[sockets[k]], produced)
    BY <1>7, <1>8 DEF InOrderAt
  <2>2. CursorAt(local[sockets[k]], produced) \in Nat
    BY <1>8, StreamTypes
  <2>3. next[sockets[k]] <= CursorAt(local'[sockets[k]], produced')
    BY <1>4, <1>6, <1>7, <1>8, <2>1, <2>2
  <2> QED
    BY <1>2, <1>8, <2>3 DEF InOrderAt
<1>9. CASE sockets[k] \notin localKeys
  <2>1. next[sockets[k]] <= CursorAt(mBuffer, produced) + Pace(k)
    BY <1>7, <1>9 DEF InOrderAt
  <2>2. next[sockets[k]] <= CursorAt(mBuffer', produced') + Pace(k)
    BY <1>3, <1>6, <1>7, <2>1, StreamTypes
  <2> QED
    BY <1>2, <1>7, <1>9, <2>2 DEF InOrderAt
<1> QED
  BY <1>8, <1>9

LEMMA OrderAcceptClient ==
  ASSUME StreamInv, OrderInv, NEW h \in Handles, AcceptClient(h) PROVE OrderInv'
<1>1. /\ UNCHANGED <<produced, mBuffer, localKeys, local, socki, firstWritten>>
      /\ next' = [next EXCEPT ![h] = Lesser(Cursor(mBuffer), produced)]
      /\ conn[h] = "free"
  BY DEF AcceptClient, Accept, appVars, bufferVars, passVars
<1>2. /\ Len(sockets) \in Nat /\ Len(sockets') = Len(sockets) + 1
      /\ sockets'[Len(sockets) + 1] = h
      /\ \A n \in 1 .. Len(sockets) : sockets'[n] = sockets[n]
      /\ \A n \in ClientIndices : sockets[n] # h
  BY AppendedEntries DEF StreamInv
<1>3. h \notin localKeys
  BY <1>2 DEF StreamInv, NoInheritedBuffer, Listed
<1>4. next'[h] <= CursorAt(mBuffer, produced) /\ next'[h] \in Nat
  <2>1. Cursor(mBuffer) = CursorAt(mBuffer, produced)
    BY DEF Cursor, CursorAt
  <2> QED
    BY <1>1, <2>1, StreamTypes DEF Lesser
<1> SUFFICES ASSUME NEW k \in ClientIndices' PROVE InOrderAt(k)'
  BY DEF OrderInv
<1>5. Pace(k)' = Pace(k) /\ Pace(k) \in Nat
  BY <1>1, StreamTypes DEF Pace
<1>6. CASE k = Len(sockets) + 1
  <2>1. next'[sockets'[k]] <= CursorAt(mBuffer, produced) + Pace(k)
    BY <1>2, <1>4, <1>5, <1>6, StreamTypes
  <2> QED
    BY <1>1, <1>2, <1>3, <1>5, <1>6, <2>1 DEF InOrderAt
<1>7. CASE k # Len(sockets) + 1
  <2>1. k \in ClientIndices /\ k \in 1 .. Len(sockets)
    BY <1>2, <1>7 DEF ClientIndices
  <2>2. sockets'[k] = sockets[k] /\ sockets[k] # h /\ InOrderAt(k)
    BY <1>2, <2>1 DEF OrderInv
  <2>3. next'[sockets[k]] = next[sockets[k]]
    BY <1>1, <2>1, <2>2, StreamTypes
  <2> QED
    BY <1>1, <1>5, <2>2, <2>3 DEF InOrderAt
<1> QED
  BY <1>6, <1>7

LEMMA OrderCloseClient ==
  ASSUME StreamInv, OrderInv, CloseClient PROVE OrderInv'
<1>1. /\ UNCHANGED <<produced, mBuffer, next, socki, firstWritten>>
      /\ localKeys' = localKeys \ {sockets[i]}
      /\ local' = [h \in Handles |-> IF h = sockets[i] THEN Empty ELSE local[h]]
      /\ pc = "handle"
  BY DEF CloseClient, EraseLocal, appVars, passVars, historyVars
<1>2. firstWritten = -1
  BY <1>1 DEF StreamInv, PassInv
<1>3. \A n : Pace(n) = 0 /\ Pace(n)' = 0
  BY <1>1, <1>2 DEF Pace
<1> SUFFICES ASSUME NEW n \in ClientIndices' PROVE InOrderAt(n)'
  BY DEF OrderInv
<1>4. PICK k \in ClientIndices : k # i /\ sockets'[n] = sockets[k]
  BY RemovedEntries DEF StreamInv
<1>5. i \in ClientIndices
  BY RemovedEntries DEF StreamInv, ClientIndices
<1>6. sockets[k] # sockets[i] /\ sockets[k] \in Handles
  BY <1>4, <1>5, StreamTypes
<1>7. local'[sockets[k]] = local[sockets[k]]
  BY <1>1, <1>6
<1>8. sockets[k] \in localKeys <=> sockets[k] \in localKeys'
  BY <1>1, <1>6
<1>9. InOrderAt(k)
  BY DEF OrderInv
<1> QED
  BY <1>1, <1>3, <1>4, <1>7, <1>8, <1>9 DEF InOrderAt

LEMMA OrderWriteBegin ==
  ASSUME StreamInv, OrderInv, WriteBegin PROVE OrderInv'
<1>1. UNCHANGED <<produced, sockets, next, socki, firstWritten>>
  BY DEF WriteBegin, writeFrame, appVars, listVars, passVars, historyVars
<1>2. CASE NoClients
  BY <1>1, <1>2 DEF NoClients, OrderInv, ClientIndices
<1>3. CASE ~ NoClients
  <2>1. UNCHANGED <<mBuffer, localKeys, local>>
    BY <1>3 DEF WriteBegin, bufferVars
  <2> QED
    BY <1>1, <2>1 DEF OrderInv, InOrderAt, ClientIndices, Pace
<1> QED
  BY <1>2, <1>3

\* A send() loop on a buffer that is not past its end: what it returns is
\* left in the buffer, and next moves with it.
LEMMA WrittenNext ==
  ASSUME StreamInv, NEW s \in Handles, NEW b \in Buffers, b.offset <= b.size,
         NEW w \in SendResults(s, b.size - b.offset), Written(s, b, w)
  PROVE  /\ w \in Int /\ (w > 0 => b.size > 0)
         /\ w > 0 => next' = [next EXCEPT ![s] = CursorAt(b, produced) + w]
         /\ ~ (w > 0) => next' = next
<1>1. b.size - b.offset \in Nat /\ b.size \in Nat /\ b.offset \in Nat
  BY DEF Buffers
<1>2. WinsockTypeOK
  BY DEF StreamInv, TypeInv, TypeOK
<1>3. w \in Int /\ w <= b.size - b.offset
  BY <1>1, <1>2, SendResultsType
<1>4. Cursor(b) = CursorAt(b, produced)
  BY DEF Cursor, CursorAt
<1> QED
  BY <1>1, <1>3, <1>4 DEF Written, historyVars

LEMMA OrderWriteLocal ==
  ASSUME StreamInv, OrderInv, WriteLocal PROVE OrderInv'
<1> DEFINE s == sockets[socki]
           b == local[s]
<1>1. /\ UNCHANGED <<produced, sockets, mBuffer, localKeys, firstWritten>>
      /\ socki' = socki + 1 /\ socki <= Len(sockets)
      /\ s \in localKeys /\ b.offset <= b.size
  BY DEF WriteLocal, writeFrame, appVars, listVars
<1>2. PICK w \in SendResults(s, b.size - b.offset) :
        /\ Written(s, b, w)
        /\ local' = [local EXCEPT ![s] =
             IF w > 0 THEN Advance(b, w)
             ELSE IF w = 0 /\ b.size > MaxThreshold THEN Truncate(b)
             ELSE IF w < 0 THEN Empty
             ELSE b]
  BY DEF WriteLocal
<1>3. s \in Handles /\ b \in Buffers /\ EndsAt(b, produced) /\ produced \in Nat
  BY <1>1, StreamTypes
<1>4. socki \in ClientIndices
  BY <1>1, StreamTypes DEF ClientIndices
<1>5. InOrderAt(socki)
  BY <1>4 DEF OrderInv
<1>6. next[s] <= CursorAt(b, produced)
  BY <1>1, <1>5 DEF InOrderAt
<1>7. \A k \in ClientIndices : k # socki => sockets[k] # s
  BY <1>4, StreamTypes
<1> HIDE DEF s, b
<1>8. /\ w \in Int /\ (w > 0 => b.size > 0)
      /\ w > 0 => next' = [next EXCEPT ![s] = CursorAt(b, produced) + w]
      /\ ~ (w > 0) => next' = next
  BY <1>1, <1>2, <1>3, WrittenNext
<1>9. /\ CursorAt(b, produced) \in Nat /\ next[s] \in Nat
      /\ CursorAt(Empty, produced) \in Nat
  BY <1>3, StreamTypes, CursorAtType, EmptyType
<1>10. next'[s] <= CursorAt(local'[s], produced)
  <2>1. CASE w > 0
    <3>1. next'[s] = CursorAt(b, produced) + w /\ local'[s] = Advance(b, w)
      BY <1>2, <1>3, <1>8, <2>1, StreamTypes
    <3>2. CursorAt(Advance(b, w), produced) = CursorAt(b, produced) + w
      <4>1. w \in Nat
        BY <1>8, <2>1
      <4> QED
        BY <1>3, <1>8, <2>1, <4>1, CursorMoved, Zenon
    <3> QED
      BY <1>8, <1>9, <2>1, <3>1, <3>2
  <2>2. CASE w = 0 /\ b.size > MaxThreshold
    <3>1. next'[s] = next[s] /\ local'[s] = Truncate(b)
      BY <1>2, <1>3, <1>8, <2>2, StreamTypes
    <3>2. CursorAt(b, produced) <= CursorAt(Truncate(b), produced)
      BY <1>3, <2>2, CursorForward
    <3>3. CursorAt(Truncate(b), produced) \in Nat
      BY <1>3, <2>2, TruncateType, CursorAtType
    <3> QED
      BY <1>6, <1>9, <3>1, <3>2, <3>3
  <2>3. CASE w < 0
    <3>1. next'[s] = next[s] /\ local'[s] = Empty
      BY <1>2, <1>3, <1>8, <2>3, StreamTypes
    <3>2. CursorAt(b, produced) <= CursorAt(Empty, produced)
      BY <1>1, <1>3, CursorForward
    <3> QED
      BY <1>6, <1>9, <3>1, <3>2
  <2>4. CASE w = 0 /\ ~ (b.size > MaxThreshold)
    <3>1. next'[s] = next[s] /\ local'[s] = b
      BY <1>2, <1>3, <1>8, <2>4, StreamTypes
    <3> QED
      BY <1>6, <3>1
  <2> QED
    BY <1>8, <2>1, <2>2, <2>3, <2>4
<1> SUFFICES ASSUME NEW k \in ClientIndices PROVE InOrderAt(k)'
  BY <1>1 DEF OrderInv, ClientIndices
<1>11. CASE k = socki
  BY <1>1, <1>10, <1>11 DEF InOrderAt, s
<1>12. CASE k # socki
  <2>1. sockets[k] \in Handles /\ sockets[k] # s /\ InOrderAt(k)
    BY <1>7, <1>12, StreamTypes DEF OrderInv
  <2>2. next'[sockets[k]] = next[sockets[k]] /\ local'[sockets[k]] = local[sockets[k]]
    BY <1>2, <1>8, <2>1, StreamTypes
  <2>3. Pace(k)' = Pace(k)
    BY <1>1, <1>12, StreamTypes DEF Pace, ClientIndices
  <2> QED
    BY <1>1, <2>1, <2>2, <2>3 DEF InOrderAt
<1> QED
  BY <1>11, <1>12

LEMMA OrderWriteGlobal ==
  ASSUME StreamInv, OrderInv, WriteGlobal PROVE OrderInv'
<1> DEFINE s == sockets[socki]
           b == mBuffer
<1>1. /\ UNCHANGED <<produced, sockets>>
      /\ socki' = socki + 1 /\ socki <= Len(sockets)
      /\ s \notin localKeys /\ b.offset <= b.size
  BY DEF WriteGlobal, writeFrame, appVars, listVars
<1>2. PICK w \in SendResults(s, b.size - b.offset) :
        /\ Written(s, b, w)
        /\ firstWritten' = IF w > 0 /\ firstWritten = -1
                             THEN w ELSE firstWritten
        /\ IF NeedsCopy(w)
             THEN /\ localKeys' = localKeys \cup {s}
                  /\ local' = [local EXCEPT ![s] = CopyFor(w)]
             ELSE UNCHANGED <<localKeys, local>>
        /\ mBuffer' = IF w = 0 /\ b.size > MaxThreshold
                        THEN Truncate(b) ELSE b
  BY DEF WriteGlobal
<1>3. /\ b \in Buffers /\ EndsAt(b, produced) /\ produced \in Nat
      /\ firstWritten \in Nat \cup {-1} /\ socki \in Nat
  BY StreamTypes
<1>4. socki \in ClientIndices /\ s \in Handles
  BY <1>1, StreamTypes DEF ClientIndices
<1>5. /\ w \in Int /\ (w > 0 => b.size > 0)
      /\ w > 0 => next' = [next EXCEPT ![s] = CursorAt(b, produced) + w]
      /\ ~ (w > 0) => next' = next
  BY <1>1, <1>2, <1>3, <1>4, WrittenNext
<1>6. \A k \in ClientIndices : k # socki => sockets[k] # s
  BY <1>4, StreamTypes
<1>7. CursorAt(b, produced) <= CursorAt(mBuffer', produced)
  BY <1>2, <1>3, CursorForward, CursorAtType
<1>8. CursorAt(mBuffer', produced) \in Nat /\ CursorAt(b, produced) \in Nat
  BY <1>2, <1>3, TruncateType, CursorAtType
<1>9. \A k \in ClientIndices : Pace(k) <= Pace(k)' /\ Pace(k) \in Nat /\ Pace(k)' \in Nat
  <2>1. firstWritten' = firstWritten \/ (firstWritten = -1 /\ firstWritten' > 0)
    BY <1>2, <1>5
  <2>2. firstWritten' \in Int
    BY <1>2, <1>3, <1>5
  <2> QED
    BY <1>1, <1>3, <2>1, <2>2 DEF Pace, ClientIndices
<1> SUFFICES ASSUME NEW k \in ClientIndices PROVE InOrderAt(k)'
  BY <1>1 DEF OrderInv, ClientIndices
<1>10. InOrderAt(k) /\ sockets'[k] = sockets[k] /\ next[sockets[k]] \in Nat
  BY <1>1, StreamTypes DEF OrderInv
<1>11. CASE k # socki
  <2>1. /\ next'[sockets[k]] = next[sockets[k]]
        /\ local'[sockets[k]] = local[sockets[k]]
        /\ sockets[k] \in localKeys <=> sockets[k] \in localKeys'
    <3>1. sockets[k] # s /\ sockets[k] \in Handles
      BY <1>6, <1>11, StreamTypes
    <3>2. next \in [Handles -> Nat] /\ local \in [Handles -> Buffers]
      BY StreamTypes
    <3> HIDE DEF s, b
    <3>3. next'[sockets[k]] = next[sockets[k]]
      BY <1>5, <3>1, <3>2
    <3>4. CASE NeedsCopy(w)
      BY <1>2, <3>1, <3>2, <3>3, <3>4
    <3>5. CASE ~ NeedsCopy(w)
      BY <1>2, <3>3, <3>5
    <3> QED
      BY <3>4, <3>5
  <2>2. sockets[k] \notin localKeys
          => next[sockets[k]] <= CursorAt(mBuffer', produced) + Pace(k)'
    BY <1>7, <1>8, <1>9, <1>10 DEF InOrderAt
  <2> QED
    BY <1>1, <1>10, <2>1, <2>2 DEF InOrderAt
<1>12. CASE k = socki
  <2>1. next[s] <= CursorAt(b, produced) + Pace(socki) /\ Pace(socki) = 0
    BY <1>1, <1>3, <1>10, <1>12 DEF InOrderAt, Pace
  <2>2. CASE NeedsCopy(w)
    <3>1. w > 0 /\ w \in Nat
      BY <1>5, <2>2 DEF NeedsCopy
    <3>2. next'[s] = CursorAt(b, produced) + w
      BY <1>4, <1>5, <3>1, StreamTypes
    <3>3. s \in localKeys' /\ local'[s] = CopyFor(w)
      BY <1>2, <1>4, <2>2, StreamTypes
    <3>4. CursorAt([b EXCEPT !.offset = @ + w], produced) = CursorAt(b, produced) + w
      BY <1>3, <1>5, <3>1, CursorMoved, Zenon
    <3>5. local'[s] = [b EXCEPT !.offset = @ + w]
      BY <3>3 DEF CopyFor
    <3>6. CursorAt(b, produced) + w <= CursorAt(b, produced) + w
      BY <1>8, <3>1
    <3>7. next'[s] <= CursorAt(local'[s], produced)
      BY <3>2, <3>4, <3>5, <3>6, Zenon
    <3>8. sockets'[k] = s /\ produced' = produced
      BY <1>1, <1>12
    <3> HIDE DEF s, b
    <3> QED
      BY <3>3, <3>7, <3>8 DEF InOrderAt
  <2>3. CASE ~ NeedsCopy(w) /\ w > 0
    <3>1. firstWritten' = w /\ mBuffer' = b
      BY <1>2, <1>5, <2>3 DEF NeedsCopy
    <3>2. Pace(k)' = w
      <4>1. k < socki' /\ firstWritten' > 0
        BY <1>1, <1>3, <1>12, <2>3, <3>1
      <4> QED
        BY <3>1, <4>1 DEF Pace
    <3>3. next'[s] = CursorAt(b, produced) + w
      BY <1>4, <1>5, <2>3, StreamTypes
    <3>4. s \notin localKeys'
      BY <1>1, <1>2, <2>3
    <3>5. CursorAt(b, produced) + w <= CursorAt(b, produced) + w
      BY <1>5, <1>8
    <3>6. next'[s] <= CursorAt(mBuffer', produced) + Pace(k)'
      BY <3>1, <3>2, <3>3, <3>5, Zenon
    <3>7. sockets'[k] = s /\ produced' = produced
      BY <1>1, <1>12
    <3> HIDE DEF s, b
    <3> QED
      BY <3>4, <3>6, <3>7 DEF InOrderAt
  <2>4. CASE ~ NeedsCopy(w) /\ ~ (w > 0)
    <3>1. next'[s] = next[s] /\ s \notin localKeys'
      BY <1>1, <1>2, <1>5, <2>4
    <3>2. next[s] \in Nat /\ Pace(k)' \in Nat
      BY <1>9, <1>10, <1>12
    <3>3. next'[s] <= CursorAt(mBuffer', produced) + Pace(k)'
      BY <1>7, <1>8, <2>1, <3>1, <3>2
    <3>4. sockets'[k] = s /\ produced' = produced
      BY <1>1, <1>12
    <3> HIDE DEF s, b
    <3> QED
      BY <3>1, <3>3, <3>4 DEF InOrderAt
  <2> QED
    BY <2>2, <2>3, <2>4
<1> QED
  BY <1>11, <1>12

LEMMA OrderWriteEnd ==
  ASSUME StreamInv, OrderInv, WriteEnd PROVE OrderInv'
<1>1. /\ UNCHANGED <<produced, sockets, next, localKeys, local>>
      /\ mBuffer' = IF firstWritten > 0 THEN Advance(mBuffer, firstWritten)
                    ELSE mBuffer
      /\ firstWritten' = -1 /\ socki > Len(sockets)
  BY DEF WriteEnd, writeFrame, appVars, listVars, historyVars
<1> SUFFICES ASSUME NEW k \in ClientIndices PROVE InOrderAt(k)'
  BY <1>1 DEF OrderInv, ClientIndices
<1>2. InOrderAt(k) /\ Pace(k)' = 0
  BY <1>1 DEF OrderInv, Pace
<1>3. CursorAt(mBuffer', produced) = CursorAt(mBuffer, produced) + Pace(k)
  <2>1. CASE firstWritten > 0
    <3>1. Pace(k) = firstWritten
      BY <1>1, <2>1, StreamTypes DEF Pace, ClientIndices
    <3>2. mBuffer.size > 0
      BY <2>1 DEF StreamInv, PassInv
    <3>3. CursorAt(Advance(mBuffer, firstWritten), produced)
            = CursorAt(mBuffer, produced) + firstWritten
      <4>1. firstWritten \in Nat
        BY <2>1, StreamTypes
      <4>2. mBuffer \in Buffers /\ produced \in Nat /\ EndsAt(mBuffer, produced)
        BY StreamTypes
      <4> QED
        BY <3>2, <4>1, <4>2, CursorMoved, Zenon
    <3> QED
      BY <1>1, <2>1, <3>1, <3>3
  <2>2. CASE ~ (firstWritten > 0)
    BY <1>1, <2>2, StreamTypes DEF Pace
  <2> QED
    BY <2>1, <2>2
<1>4. CursorAt(mBuffer', produced) \in Nat
  BY <1>3, StreamTypes
<1> QED
  BY <1>1, <1>2, <1>3, <1>4 DEF InOrderAt

LEMMA OrderStep ==
  ASSUME "poll" \notin Faults, StreamInv, OrderInv, [Next]_vars PROVE OrderInv'
<1>1. CASE ThreadStart
  <2>1. Len(sockets') = 2
    <3>1. sockets = <<Dummy>> /\ sockets' = Append(<<Dummy>>, Listener)
      BY <1>1 DEF ThreadStart, StreamInv, ListInv
    <3> QED
      BY <3>1
  <2> QED
    BY <2>1 DEF OrderInv, ClientIndices
<1>2. ~ ScanFails
  BY DEF ScanFails, Fault
<1>3. CASE UNCHANGED streamVars
  BY <1>3 DEF streamVars, historyVars, OrderInv, InOrderAt, ClientIndices, Pace
<1> QED
  BY <1>1, <1>2, <1>3, OrderSend, OrderAcceptClient, OrderCloseClient,
     OrderWriteBegin, OrderWriteLocal, OrderWriteGlobal, OrderWriteEnd,
     StreamFrame

LEMMA OrderInit == Init => PassInv /\ NoInheritedBuffer /\ SuffixInv /\ OrderInv
<1> SUFFICES ASSUME Init
             PROVE  PassInv /\ NoInheritedBuffer /\ SuffixInv /\ OrderInv
  OBVIOUS
<1>1. PassInv /\ NoInheritedBuffer
  BY DEF Init, PassInv, NoInheritedBuffer
<1>2. SuffixInv
  BY DEF Init, SuffixInv, EndsAt, Empty
<1>3. Len(sockets) = 1
  BY DEF Init
<1> QED
  BY <1>1, <1>2, <1>3 DEF OrderInv, ClientIndices

\* The invariant of all of the above.
LEMMA StreamInvariant ==
  ASSUME "poll" \notin Faults PROVE Spec => [](StreamInv /\ OrderInv)
<1>1. Init => EventInv /\ ListInv
  BY ListInit
<1>2. /\ TypeInv /\ EventInv /\ ListInv /\ PassInv /\ NoInheritedBuffer
      /\ SuffixInv /\ OrderInv /\ [Next]_vars
      => /\ EventInv' /\ ListInv' /\ PassInv' /\ NoInheritedBuffer'
         /\ SuffixInv' /\ OrderInv'
  BY ListStep, PassStep, KeyStep, SuffixStep, OrderStep DEF StreamInv
<1> QED
  BY <1>1, <1>2, OrderInit, TypeInvariant, PTL DEF Spec, StreamInv

\* No byte is sent twice to a client, or after a later one, with any number
\* of clients, send spaces and thresholds, whatever leaves and comes between
\* two passes of the write loop.
THEOREM BytesInOrder ==
  ASSUME "poll" \notin Faults PROVE Spec => []InOrder
<1>1. StreamInv /\ OrderInv => InOrder
  <2> SUFFICES ASSUME StreamInv, OrderInv, NEW n \in ClientIndices
               PROVE  ReadPosition(n) >= next[sockets[n]]
    BY DEF InOrder
  <2>1. InOrderAt(n) /\ next[sockets[n]] \in Nat /\ Pace(n) \in Nat
    BY StreamTypes DEF OrderInv
  <2>2. \A b : Cursor(b) = CursorAt(b, produced)
    BY DEF Cursor, CursorAt
  <2>3. CASE sockets[n] \in localKeys
    BY <2>1, <2>2, <2>3, StreamTypes DEF InOrderAt, ReadPosition
  <2>4. CASE sockets[n] \notin localKeys
    BY <2>1, <2>2, <2>4, StreamTypes DEF InOrderAt, ReadPosition
  <2> QED
    BY <2>3, <2>4
<1> QED
  BY <1>1, StreamInvariant, PTL
=============================================================================
