---------------------- MODULE ServerSocketWakeupProofs ----------------------
(***************************************************************************)
(* Proofs that the server thread does not sleep over its work: no client   *)
(* that can be written is forgotten between send() and the wait, and       *)
(* nothing is kept when nobody is there, for any number of clients, send   *)
(* space and thresholds.                                                   *)
(*                                                                         *)
(* The argument for the first: a client with unsent bytes either will be   *)
(* told by the network that it can be written (armed), has been told and   *)
(* the event is not handled yet (Owed), or a pass of the write loop that   *)
(* reaches it is certain (PassComes).  Handling an event hands the client  *)
(* from Owed to PassComes, and the pass leaves it with nothing unsent or   *)
(* armed.                                                                  *)
(***************************************************************************)
EXTENDS ServerSocketProofs

\* What the pass has not offered yet to the client at index n.
Unsent(n) == IF sockets[n] \in localKeys
               THEN local[sockets[n]].size - local[sockets[n]].offset
               ELSE mBuffer.size - mBuffer.offset - Pace(n)

\* An FD_WRITE that handleEvent will see.
Owed(s) == "write" \in netEvents[s] /\ s \in signaled

PassComes(n) == \/ Dummy \in signaled
                \/ pc = "write"
                \/ pc = "handle" /\ "write" \in pending
                \/ pc = "writing" /\ n >= socki
                \/ Crashed

Awaited(n) == armed[sockets[n]] \/ Owed(sockets[n]) \/ PassComes(n)

WokenInv == \A n \in ClientIndices :
              conn[sockets[n]] = "open" /\ Unsent(n) > 0 => Awaited(n)

\* The scan never looks at the wakeup event, every pass begins at the first
\* client, and FD_ACCEPT comes alone.
PlaceInv == /\ pc = "scan" => i >= 2
            /\ pc \in {"handle", "write", "writing"} => i >= 1
            /\ pc # "writing" /\ ~ Crashed => socki = 3
            /\ \A h \in Handles : "accept" \notin netEvents[h]
            /\ "accept" \in pending => "write" \notin pending

\* Without clients something is kept only until the thread is next woken.
KeptInv == Len(sockets) <= 2 /\ Dummy \notin signaled /\ pc # "write"
             => mBuffer = Empty /\ localKeys = {}

WakeInv == PlaceInv /\ KeptInv /\ WokenInv

-----------------------------------------------------------------------------
LEMMA WakeInit == Init => WakeInv
<1> SUFFICES ASSUME Init PROVE WakeInv
  OBVIOUS
<1>1. pc = "start" /\ socki = 3 /\ pending = {} /\ sockets = <<Dummy>>
      /\ netEvents = [s \in Sockets |-> {}] /\ mBuffer = Empty /\ localKeys = {}
  BY DEF Init, WinsockInit
<1>2. ClientIndices = {}
  BY <1>1 DEF ClientIndices
<1> QED
  BY <1>1, <1>2 DEF WakeInv, PlaceInv, KeptInv, WokenInv, Crashed, Sockets

-----------------------------------------------------------------------------
(* PlaceInv.                                                               *)

LEMMA PlaceApp ==
  ASSUME TypeInv, PlaceInv, App PROVE PlaceInv'
<1>1. UNCHANGED <<pc, i, pending, socki>>
  BY DEF App, Send, StopSet, StopWake, StopJoin, appFrame, scanVars, passVars
<1>2. netEvents' = netEvents \/ netEvents' = [netEvents EXCEPT ![Listener] = {}]
  BY DEF App, Send, StopSet, StopWake, StopJoin, appFrame, eventVars
<1>3. \A h \in Handles : netEvents'[h] = netEvents[h]
  BY <1>2, HandlesAssumption DEF TypeInv, TypeOK, WinsockTypeOK, Sockets
<1> QED
  BY <1>1, <1>3 DEF PlaceInv, Crashed

LEMMA PlaceLoop ==
  ASSUME TypeInv, EventInv, ListInv, PlaceInv, Loop PROVE PlaceInv'
<1> USE DEF loopFrame, passVars, eventVars, scanVars
<1>1. CASE EnumEvents
  <2>1. /\ i >= 2 /\ i' = i /\ pc' = "handle" /\ socki' = socki
        /\ pc = "scan"
        /\ i \in 1 .. Len(sockets) /\ events = sockets
        /\ pending' = netEvents[sockets[i]]
        /\ netEvents' = [netEvents EXCEPT ![sockets[i]] = {}]
    BY <1>1 DEF EnumEvents, PlaceInv, TypeInv, TypeOK, ListInv
  <2>2. i = 2 \/ i \in ClientIndices
    BY <2>1 DEF ClientIndices
  <2>3. "accept" \in pending' => "write" \notin pending'
    <3>1. CASE i = 2
      <4>1. sockets[i] = Listener
        BY <2>1, <3>1 DEF ListInv
      <4> QED
        BY <2>1, <4>1 DEF EventInv
    <3>2. CASE i \in ClientIndices
      <4>1. sockets[i] \in Handles
        BY <3>2 DEF ListInv
      <4> QED
        BY <2>1, <4>1 DEF PlaceInv
    <3> QED
      BY <2>2, <3>1, <3>2
  <2>4. \A h \in Handles : "accept" \notin netEvents'[h]
    BY <2>1 DEF PlaceInv, TypeInv, TypeOK, WinsockTypeOK, Sockets
  <2>5. i' \in Nat
    BY <2>1
  <2> QED
    BY <2>1, <2>3, <2>4, <2>5 DEF PlaceInv, Crashed
<1>2. CASE WaitWakeup
  BY <1>2 DEF WaitWakeup, PlaceInv, Crashed
<1>3. CASE \E n \in 1 .. Len(events) : WaitSocket(n)
  <2>1. PICK n \in 1 .. Len(events) : WaitSocket(n)
    BY <1>3
  <2>2. i' >= 2 /\ pc' = "scan" /\ pc = "wait"
        /\ UNCHANGED <<socki, pending, netEvents>>
    BY <2>1 DEF WaitSocket
  <2> QED
    BY <2>2 DEF PlaceInv, Crashed
<1>4. CASE ScanSkip
  <2>1. i' = i + 1 /\ i \in Nat /\ i >= 2 /\ pc = "scan" /\ pc' = "scan"
        /\ UNCHANGED <<socki, pending, netEvents>>
    BY <1>4 DEF ScanSkip, PlaceInv, TypeInv, TypeOK
  <2> QED
    BY <2>1 DEF PlaceInv, Crashed
<1>5. CASE ThreadStart \/ CheckStopped \/ WaitFails \/ WaitTimesOut \/ ScanDone
  <2>1. pc' \in {"check", "wait", "exited"} /\ pc \in {"start", "check", "wait", "scan"}
        /\ UNCHANGED <<socki, pending, netEvents>>
    BY <1>5 DEF ThreadStart, CheckStopped, WaitFails, WaitTimesOut, ScanDone
  <2> QED
    BY <2>1 DEF PlaceInv, Crashed
<1> QED
  BY <1>1, <1>2, <1>3, <1>4, <1>5 DEF Loop

LEMMA PlaceHandleEvent ==
  ASSUME TypeInv, EventInv, ListInv, PlaceInv, HandleEvent PROVE PlaceInv'
<1> USE DEF loopFrame, passVars, eventVars
<1>1. pc = "handle" /\ socki = 3 /\ i \in Nat /\ i >= 1 /\ socki' = socki
  BY DEF HandleEvent, AcceptClient, HandleWritable, CloseClient, EventDone,
         PlaceInv, Crashed, TypeInv, TypeOK
<1>2. CASE \E h \in Handles : AcceptClient(h)
  <2>1. PICK h \in Handles : AcceptClient(h)
    BY <1>2
  <2>2. /\ i' = i /\ pc' = "write" /\ pending' = pending \ {"accept"}
        /\ netEvents' = [[netEvents EXCEPT ![h] = {"write"}] EXCEPT ![Listener] =
                           IF backlog > 1 THEN {"accept"} ELSE @]
    BY <2>1 DEF AcceptClient, Accept, TakeFromBacklog
  <2>3. \A g \in Handles : "accept" \notin netEvents'[g]
    BY <2>2, HandlesAssumption DEF PlaceInv, TypeInv, TypeOK, WinsockTypeOK, Sockets
  <2> QED
    BY <1>1, <2>2, <2>3 DEF PlaceInv, Crashed
<1>3. CASE HandleWritable
  <2>1. i' = i /\ pc' = "write" /\ pending' = pending \ {"write"} /\ netEvents' = netEvents
    BY <1>3 DEF HandleWritable, AfterWrite
  <2> QED
    BY <1>1, <2>1 DEF PlaceInv, Crashed
<1>4. CASE CloseClient
  <2>1. i \in 3 .. Len(sockets)
    BY <1>4, RemovedEntries
  <2>2. i' = i - 1 /\ pc' = "write" /\ pending' = {}
        /\ netEvents' = [netEvents EXCEPT ![sockets[i]] = {}]
    BY <1>4 DEF CloseClient
  <2>3. \A h \in Handles : "accept" \notin netEvents'[h]
    BY <2>2 DEF PlaceInv, TypeInv, TypeOK, WinsockTypeOK, Sockets
  <2> QED
    BY <1>1, <2>1, <2>2, <2>3 DEF PlaceInv, Crashed
<1>5. CASE EventDone
  <2>1. i' = i + 1 /\ pc' = "scan" /\ pending' = {} /\ netEvents' = netEvents
    BY <1>5 DEF EventDone
  <2> QED
    BY <1>1, <2>1 DEF PlaceInv, Crashed
<1> QED
  BY <1>2, <1>3, <1>4, <1>5 DEF HandleEvent

LEMMA PlaceHandleWrite ==
  ASSUME TypeInv, PlaceInv, HandleWrite PROVE PlaceInv'
<1>1. UNCHANGED <<netEvents, i, pending>> /\ pc \in {"write", "writing"}
      /\ pc' \in {"handle", "writing", "assertFailed", "endDereferenced"}
  BY HandleWriteFrame DEF scanVars
<1>2. i \in Nat /\ i >= 1
  BY <1>1 DEF PlaceInv, TypeInv, TypeOK
<1>3. pc' = "handle" => socki' = 3
  BY <1>1 DEF HandleWrite, WriteBegin, WriteAsserts, WriteLocal, WriteGlobal,
              WriteEnd, passVars, PlaceInv, Crashed
<1> QED
  BY <1>1, <1>2, <1>3 DEF PlaceInv, Crashed

LEMMA PlaceFailure ==
  ASSUME "poll" \notin Faults, TypeInv, PlaceInv, Failure PROVE PlaceInv'
<1> USE DEF loopFrame, passVars, eventVars, scanVars
<1>1. ~ ScanFails
  BY DEF ScanFails, Fault
<1>2. CASE ThreadStartFails
  BY <1>2 DEF ThreadStartFails, PlaceInv, Crashed
<1>3. CASE EnumFails \/ EventError
  <2>1. /\ i' = i + 1 /\ i \in Nat /\ i >= 1 /\ pc' = "scan" /\ pc \in {"scan", "handle"}
        /\ pending' \in {{}, pending} /\ UNCHANGED <<netEvents, socki>>
    BY <1>3 DEF EnumFails, EventError, PlaceInv, TypeInv, TypeOK
  <2> QED
    BY <2>1 DEF PlaceInv, Crashed
<1>4. CASE AcceptFails \/ \E h \in Handles : CreateEventFails(h)
  <2>1. /\ i' = i + 1 /\ i \in Nat /\ i >= 1 /\ pc' = "scan" /\ pc = "handle"
        /\ pending' = {} /\ socki' = socki
    BY <1>4 DEF AcceptFails, CreateEventFails, PlaceInv, TypeInv, TypeOK
  <2>2. \A g \in Handles : netEvents'[g] \in {netEvents[g], {}}
    BY <1>4, HandlesAssumption
       DEF AcceptFails, CreateEventFails, Accept, TakeFromBacklog, TypeInv,
           TypeOK, WinsockTypeOK, Sockets
  <2> QED
    BY <2>1, <2>2 DEF PlaceInv, Crashed
<1> QED
  BY <1>1, <1>2, <1>3, <1>4 DEF Failure

LEMMA PlaceNetwork ==
  ASSUME TypeInv, PlaceInv, Network PROVE PlaceInv'
<1>1. UNCHANGED <<pc, i, pending, socki>>
  BY DEF Network, Connect, PeerCloses, Drain, processVars, scanVars, passVars
<1>2. netEvents \in [Sockets -> SUBSET NetEvents]
  BY DEF TypeInv, TypeOK, WinsockTypeOK
<1>3. ASSUME NEW h \in Handles, "accept" \in netEvents'[h]
      PROVE  "accept" \in netEvents[h]
  <2>1. h \in Sockets /\ h # Listener
    BY HandlesAssumption DEF Sockets
  <2>2. CASE Connect
    BY <1>2, <1>3, <2>1, <2>2 DEF Connect, Arrive, eventVars
  <2>3. CASE \E g \in Handles : PeerCloses(g)
    BY <1>2, <1>3, <2>1, <2>3 DEF PeerCloses, Depart
  <2>4. CASE \E g \in Handles : Drain(g)
    BY <1>2, <1>3, <2>1, <2>4 DEF Drain, Read, eventVars
  <2> QED
    BY <2>2, <2>3, <2>4 DEF Network
<1> QED
  BY <1>1, <1>3 DEF PlaceInv, Crashed

LEMMA PlaceStep ==
  ASSUME "poll" \notin Faults, TypeInv, EventInv, ListInv, PlaceInv, [Next]_vars
  PROVE  PlaceInv'
<1>1. CASE UNCHANGED vars
  BY <1>1 DEF vars, scanVars, passVars, eventVars, PlaceInv, Crashed
<1> QED
  BY <1>1, PlaceApp, PlaceLoop, PlaceHandleEvent, PlaceHandleWrite, PlaceFailure,
     PlaceNetwork DEF Next, Thread

-----------------------------------------------------------------------------
(* KeptInv.                                                                *)

LEMMA KeptStep ==
  ASSUME "poll" \notin Faults, StreamInv, PlaceInv, KeptInv, [Next]_vars
  PROVE  KeptInv'
<1> SUFFICES ASSUME Len(sockets') <= 2, Dummy \notin signaled', pc' # "write"
             PROVE  mBuffer' = Empty /\ localKeys' = {}
  BY DEF KeptInv
<1>0. sockets \in Seq(Sockets) /\ Len(sockets) \in Nat /\ socki \in Nat /\ socki >= 3
  BY LenProperties DEF StreamInv, TypeInv, TypeOK
<1>1. ASSUME NEW n \in 1 .. MaxChunk PROVE ~ Send(n)
  BY DEF Send, WokenBySend
<1>2. CASE ThreadStart
  <2>1. Len(sockets) = 1 /\ pc = "start"
    BY <1>2 DEF ThreadStart, StreamInv, ListInv
  <2>2. UNCHANGED <<mBuffer, localKeys, signaled>>
    BY <1>2 DEF ThreadStart, bufferVars, eventVars
  <2> QED
    BY <2>1, <2>2 DEF KeptInv
<1>3. ASSUME NEW h \in Handles PROVE ~ AcceptClient(h)
  BY DEF AcceptClient
<1>4. ~ CloseClient /\ ~ ScanFails /\ ~ WaitWakeup
  BY DEF CloseClient, ScanFails, Fault, WaitWakeup
<1>5. CASE WriteBegin
  <2>1. pc = "write" /\ sockets' = sockets
    BY <1>5 DEF WriteBegin, writeFrame, listVars
  <2>2. NoClients
    <3>1. Len(sockets) >= 2
      BY <2>1 DEF StreamInv, ListInv
    <3>2. Len(sockets) <= 2
      BY <2>1
    <3>3. Len(sockets) \in Nat
      BY <1>0
    <3>4. \A k \in Nat : k >= 2 /\ k <= 2 => k = 2
      OBVIOUS
    <3>5. Len(sockets) = 2
      BY <3>1, <3>2, <3>3, <3>4, Zenon
    <3> QED
      BY <3>5 DEF NoClients
  <2> QED
    BY <1>5, <2>2 DEF WriteBegin
<1>6. ~ WriteLocal /\ ~ WriteGlobal
  BY <1>0 DEF WriteLocal, WriteGlobal, writeFrame, listVars
<1>7. CASE WriteEnd
  <2>1. /\ mBuffer' = IF firstWritten > 0 THEN Advance(mBuffer, firstWritten)
                      ELSE mBuffer
        /\ UNCHANGED <<localKeys, sockets, signaled>> /\ pc = "writing"
    BY <1>7 DEF WriteEnd, writeFrame, listVars, eventVars
  <2>2. mBuffer = Empty /\ localKeys = {}
    BY <2>1 DEF KeptInv
  <2>3. ~ (firstWritten > 0)
    BY <2>2 DEF StreamInv, PassInv, Empty
  <2> QED
    BY <2>1, <2>2, <2>3
<1>8. CASE UNCHANGED streamVars /\ ~ WriteBegin
  <2>1. UNCHANGED <<mBuffer, localKeys, sockets>>
    BY <1>8 DEF streamVars
  <2>2. pc # "write"
    <3>1. pc = "write" => ~ Thread
      BY <1>8 DEF Thread, Loop, ThreadStart, CheckStopped, WaitFails, WaitTimesOut,
         WaitWakeup, WaitSocket, ScanDone, ScanSkip, EnumEvents, HandleEvent,
         AcceptClient, HandleWritable, CloseClient, EventDone, HandleWrite,
         WriteAsserts, WriteLocal, WriteGlobal, WriteEnd
    <3>2. pc = "write" => ~ Failure
      BY DEF Failure, ThreadStartFails, ScanFails, EnumFails, EventError,
         AcceptFails, CreateEventFails
    <3>3. App \/ Network \/ UNCHANGED vars => pc' = pc
      BY DEF App, Send, StopSet, StopWake, StopJoin, appFrame, Network, Connect,
         PeerCloses, Drain, processVars, vars
    <3> QED
      BY <3>1, <3>2, <3>3 DEF Next
  <2>3. Dummy \notin signaled
    <3>1. CASE EnumEvents
      <4>1. /\ i \in 1 .. Len(sockets) /\ i >= 2 /\ events = sockets
            /\ signaled' = signaled \ {events[i]}
        BY <3>1 DEF EnumEvents, PlaceInv, StreamInv, TypeInv, TypeOK, ListInv
      <4>2. sockets[1] = Dummy /\ sockets[i] # sockets[1]
        BY <1>0, <4>1 DEF StreamInv, ListInv, Distinct
      <4> QED
        BY <4>1, <4>2
    <3>2. CASE App
      BY <3>2 DEF App, Send, StopSet, StopWake, StopJoin, eventVars
    <3>3. CASE Network
      BY <3>3 DEF Network, Connect, PeerCloses, Drain, Arrive, Depart, Read, eventVars
    <3>4. CASE Failure
      BY <1>4, <3>4 DEF Failure, ThreadStartFails, EnumFails, EventError,
         AcceptFails, CreateEventFails, Accept, TakeFromBacklog, eventVars
    <3>5. CASE Loop /\ ~ EnumEvents
      BY <1>4, <3>5 DEF Loop, ThreadStart, CheckStopped, WaitFails, WaitTimesOut,
         WaitSocket, ScanDone, ScanSkip, eventVars
    <3>6. CASE HandleEvent
      BY <1>3, <1>4, <3>6 DEF HandleEvent, HandleWritable, EventDone, eventVars
    <3>7. CASE HandleWrite
      BY <3>7, HandleWriteFrame
    <3>8. CASE UNCHANGED vars
      BY <3>8 DEF vars, eventVars
    <3> QED
      BY <3>1, <3>2, <3>3, <3>4, <3>5, <3>6, <3>7, <3>8 DEF Next, Thread
  <2> QED
    BY <2>1, <2>2, <2>3 DEF KeptInv
<1> QED
  BY <1>1, <1>2, <1>3, <1>4, <1>5, <1>6, <1>7, <1>8, StreamFrame

-----------------------------------------------------------------------------
(* WokenInv.                                                               *)

LEMMA UnsentType ==
  ASSUME StreamInv, NEW n \in ClientIndices
  PROVE  Unsent(n) \in Int
<1>1. mBuffer.size \in Nat /\ mBuffer.offset \in Nat /\ Pace(n) \in Nat
  BY StreamTypes DEF Buffers
<1>2. local[sockets[n]].size \in Nat /\ local[sockets[n]].offset \in Nat
  <2>1. local[sockets[n]] \in Buffers
    BY StreamTypes
  <2> QED
    BY <2>1 DEF Buffers
<1> QED
  BY <1>1, <1>2 DEF Unsent

\* What a step that leaves buffers and lists alone has to keep.
LEMMA WokenFrame ==
  ASSUME WokenInv,
         UNCHANGED streamVars,
         \A n \in ClientIndices :
           conn'[sockets[n]] = "open" =>
             /\ conn[sockets[n]] = "open"
             /\ armed[sockets[n]] => armed'[sockets[n]] \/ Owed(sockets[n])'
             /\ Owed(sockets[n]) => Owed(sockets[n])' \/ PassComes(n)'
             /\ PassComes(n) => PassComes(n)'
  PROVE  WokenInv'
<1>1. ClientIndices' = ClientIndices /\ \A n \in ClientIndices : Unsent(n)' = Unsent(n)
  BY DEF streamVars, ClientIndices, Unsent, Pace
<1>2. sockets' = sockets
  BY DEF streamVars
<1> SUFFICES ASSUME NEW n \in ClientIndices, conn'[sockets[n]] = "open", Unsent(n) > 0
             PROVE  Awaited(n)'
  BY <1>1, <1>2 DEF WokenInv
<1>3. Awaited(n)
  BY DEF WokenInv
<1> QED
  BY <1>2, <1>3 DEF Awaited, Owed

\* A send() loop returns an error, or has written everything, or is told by
\* the network when it can go on.
LEMMA WrittenArms ==
  ASSUME StreamInv, NEW s \in Handles, NEW b \in Buffers, b.offset <= b.size,
         NEW w \in SendResults(s, b.size - b.offset), Written(s, b, w)
  PROVE  /\ w \in Int
         /\ w < 0 \/ w = b.size - b.offset \/ armed'[s]
         /\ \A h \in Handles : armed[h] => armed'[h]
<1> DEFINE rem == b.size - b.offset
<1>1. rem \in Nat
  BY DEF Buffers
<1>2. WinsockTypeOK
  BY DEF StreamInv, TypeInv, TypeOK
<1>3. w \in Int /\ w <= rem
  BY <1>1, <1>2, SendResultsType
<1>4. SendLoop(s, rem, w)
  BY DEF Written
<1>5. armed \in [Handles -> BOOLEAN]
  BY <1>2 DEF WinsockTypeOK
<1> HIDE DEF rem
<1>6. CASE rem > 0 /\ w >= 0
  <2>1. armed' = [armed EXCEPT ![s] = @ \/ w < rem]
    BY <1>4, <1>6 DEF SendLoop
  <2>2. armed'[s] = (armed[s] \/ w < rem)
    BY <1>5, <2>1
  <2>3. \A h \in Handles : h # s => armed'[h] = armed[h]
    BY <1>5, <2>1
  <2>4. w = rem \/ w < rem
    BY <1>1, <1>3
  <2> QED
    BY <1>3, <2>2, <2>3, <2>4 DEF rem
<1>7. CASE ~ (rem > 0 /\ w >= 0)
  <2>1. armed' = armed
    BY <1>4, <1>7 DEF SendLoop, sendVars
  <2>2. w < 0 \/ w = rem
    BY <1>1, <1>3, <1>7
  <2> QED
    BY <1>3, <2>1, <2>2 DEF rem
<1> QED
  BY <1>6, <1>7

LEMMA WokenWriteBegin ==
  ASSUME StreamInv, PlaceInv, WokenInv, WriteBegin PROVE WokenInv'
<1>1. sockets' = sockets /\ pc = "write" /\ socki' = socki /\ socki = 3
      /\ firstWritten' = firstWritten
  BY DEF WriteBegin, writeFrame, listVars, passVars, PlaceInv, Crashed
<1> SUFFICES ASSUME NEW n \in ClientIndices, (Unsent(n) > 0)' PROVE PassComes(n)'
  BY <1>1 DEF WokenInv, ClientIndices, Awaited
<1>2. n >= 3
  BY DEF ClientIndices
<1>3. CASE NothingToWrite
  <2>1. /\ mBuffer'.size = 0 /\ localKeys' = {}
        /\ mBuffer' \in {mBuffer, Empty}
    BY <1>3 DEF NothingToWrite, WriteBegin, bufferVars
  <2>2. mBuffer'.offset \in Nat
    BY <2>1, StreamTypes DEF Buffers, Empty
  <2>3. Pace(n)' \in Nat
    BY <1>1, StreamTypes DEF Pace, ClientIndices
  <2>4. Unsent(n)' = 0 - mBuffer'.offset - Pace(n)'
    BY <2>1 DEF Unsent
  <2> QED
    BY <2>2, <2>3, <2>4
<1>4. CASE ~ NothingToWrite
  <2>1. pc' = "writing"
    BY <1>4 DEF WriteBegin
  <2> QED
    BY <1>1, <1>2, <2>1 DEF PassComes
<1> QED
  BY <1>3, <1>4

\* Within a pass: the clients that were visited before this step.
LEMMA WokenVisited ==
  ASSUME StreamInv, WokenInv, pc = "writing", Dummy \notin signaled,
         NEW n \in ClientIndices, n < socki, conn[sockets[n]] = "open", Unsent(n) > 0
  PROVE  armed[sockets[n]] \/ Owed(sockets[n])
<1>1. Awaited(n)
  BY DEF WokenInv
<1>2. ~ (n >= socki)
  BY StreamTypes DEF ClientIndices
<1> QED
  BY <1>1, <1>2 DEF Awaited, PassComes, Crashed

LEMMA WokenWriteEnd ==
  ASSUME StreamInv, PlaceInv, WokenInv, WriteEnd PROVE WokenInv'
<1>1. /\ UNCHANGED <<sockets, localKeys, local, armed, signaled, netEvents, conn>>
      /\ mBuffer' = IF firstWritten > 0 THEN Advance(mBuffer, firstWritten)
                    ELSE mBuffer
      /\ firstWritten' = -1 /\ socki > Len(sockets) /\ pc = "writing"
  BY DEF WriteEnd, writeFrame, listVars, sendVars, eventVars, netVars
<1> SUFFICES ASSUME NEW n \in ClientIndices, conn[sockets[n]] = "open",
                    (Unsent(n) > 0)', Dummy \notin signaled
             PROVE  armed[sockets[n]] \/ Owed(sockets[n])
  BY <1>1 DEF WokenInv, ClientIndices, Awaited, Owed, PassComes
<1>2. n < socki /\ Pace(n)' = 0
  BY <1>1, StreamTypes DEF ClientIndices, Pace
<1>3. mBuffer.size \in Nat /\ mBuffer.offset \in Nat /\ firstWritten \in Int
  BY StreamTypes DEF Buffers
<1>4. Unsent(n) = Unsent(n)' \/ Unsent(n)' = 0
  <2>1. CASE sockets[n] \in localKeys
    BY <1>1, <2>1 DEF Unsent
  <2>2. CASE sockets[n] \notin localKeys /\ firstWritten > 0
    <3>1. Unsent(n) = mBuffer.size - mBuffer.offset - firstWritten
      BY <1>2, <2>2 DEF Unsent, Pace
    <3>2. Unsent(n)' = mBuffer'.size - mBuffer'.offset
      <4>1. mBuffer'.size \in Int /\ mBuffer'.offset \in Int
        <5>1. mBuffer' \in Buffers
          BY <1>1, <1>3, <2>2, AdvanceType, StreamTypes
        <5> QED
          BY <5>1 DEF Buffers
      <4>2. Unsent(n)' = mBuffer'.size - mBuffer'.offset - Pace(n)'
        BY <1>1, <2>2 DEF Unsent
      <4> QED
        BY <1>2, <4>1, <4>2
    <3>3. CASE mBuffer.offset + firstWritten = mBuffer.size
      <4>1. mBuffer' = Empty
        BY <1>1, <2>2, <3>3 DEF Advance
      <4> QED
        BY <3>2, <4>1 DEF Empty
    <3>4. CASE mBuffer.offset + firstWritten # mBuffer.size
      <4>1. mBuffer' = [mBuffer EXCEPT !.offset = @ + firstWritten]
        BY <1>1, <2>2, <3>4 DEF Advance
      <4>2. /\ mBuffer'.size = mBuffer.size
            /\ mBuffer'.offset = mBuffer.offset + firstWritten
        BY <4>1, StreamTypes DEF Buffers
      <4> QED
        BY <1>3, <3>1, <3>2, <4>2
    <3> QED
      BY <3>3, <3>4
  <2>3. CASE sockets[n] \notin localKeys /\ ~ (firstWritten > 0)
    <3>1. Pace(n) = 0 /\ mBuffer' = mBuffer
      BY <1>1, <2>3 DEF Pace
    <3> QED
      BY <1>1, <1>2, <2>3, <3>1 DEF Unsent
  <2> QED
    BY <2>1, <2>2, <2>3
<1>5. Unsent(n) > 0
  BY <1>4
<1> QED
  BY <1>1, <1>2, <1>5, WokenVisited

LEMMA WokenWriteLocal ==
  ASSUME StreamInv, WokenInv, WriteLocal PROVE WokenInv'
<1> DEFINE s == sockets[socki]
           b == local[s]
<1>1. /\ UNCHANGED <<sockets, mBuffer, localKeys, firstWritten, signaled, netEvents,
                     conn, pc>>
      /\ socki' = socki + 1 /\ socki <= Len(sockets) /\ pc = "writing"
      /\ s \in localKeys /\ b.offset <= b.size
  BY DEF WriteLocal, writeFrame, listVars, eventVars, netVars
<1>2. PICK w \in SendResults(s, b.size - b.offset) :
        /\ Written(s, b, w)
        /\ local' = [local EXCEPT ![s] =
             IF w > 0 THEN Advance(b, w)
             ELSE IF w = 0 /\ b.size > MaxThreshold THEN Truncate(b)
             ELSE IF w < 0 THEN Empty
             ELSE b]
  BY DEF WriteLocal
<1>3. s \in Handles /\ b \in Buffers /\ socki \in ClientIndices
  BY <1>1, StreamTypes DEF ClientIndices
<1>4. \A k \in ClientIndices : k # socki => sockets[k] # s
  BY <1>3, StreamTypes
<1>5. /\ w \in Int
      /\ w < 0 \/ w = b.size - b.offset \/ armed'[s]
      /\ \A h \in Handles : armed[h] => armed'[h]
  BY <1>1, <1>2, <1>3, WrittenArms
<1>6. b.size \in Nat /\ b.offset \in Nat
  BY <1>3 DEF Buffers
<1>7. /\ local'[s] = IF w > 0 THEN Advance(b, w)
                     ELSE IF w = 0 /\ b.size > MaxThreshold THEN Truncate(b)
                     ELSE IF w < 0 THEN Empty
                     ELSE b
      /\ \A h \in Handles : h # s => local'[h] = local[h]
  BY <1>2, <1>3, StreamTypes
<1>8. w < 0 \/ w = b.size - b.offset => ~ (local'[s].size - local'[s].offset > 0)
  <2>1. CASE w < 0
    <3>1. local'[s] = Empty
      BY <1>5, <1>7, <2>1
    <3> QED
      BY <3>1 DEF Empty
  <2>2. CASE w > 0 /\ w = b.size - b.offset
    <3>1. b.offset + w = b.size
      BY <1>6, <2>2
    <3> QED
      BY <1>7, <2>2, <3>1 DEF Advance, Empty
  <2>3. CASE w = 0 /\ w = b.size - b.offset /\ b.size > MaxThreshold
    BY <1>6, <1>7, <2>3, ThresholdAssumption DEF Truncate
  <2>4. CASE w = 0 /\ w = b.size - b.offset /\ ~ (b.size > MaxThreshold)
    BY <1>6, <1>7, <2>4
  <2> QED
    BY <1>5, <2>1, <2>2, <2>3, <2>4
<1> HIDE DEF s, b
<1> SUFFICES ASSUME NEW n \in ClientIndices, conn[sockets[n]] = "open",
                    (Unsent(n) > 0)', Dummy \notin signaled, ~ (n >= socki')
             PROVE  armed'[sockets[n]] \/ Owed(sockets[n])
  BY <1>1 DEF WokenInv, ClientIndices, Awaited, Owed, PassComes
<1>9. CASE n = socki
  <2>1. Unsent(n)' = local'[s].size - local'[s].offset
    BY <1>1, <1>9 DEF Unsent, s
  <2>2. armed'[s]
    BY <1>5, <1>8, <2>1
  <2> QED
    BY <1>9, <2>2 DEF s
<1>10. CASE n # socki
  <2>1. n < socki /\ n \in Nat /\ socki \in Nat
    BY <1>1, <1>10, StreamTypes DEF ClientIndices
  <2>2. Pace(n)' = Pace(n)
    BY <1>1, <2>1 DEF Pace
  <2>3. sockets[n] \in Handles /\ local'[sockets[n]] = local[sockets[n]]
    BY <1>4, <1>7, <1>10, StreamTypes
  <2>4. Unsent(n)' = Unsent(n)
    BY <1>1, <2>2, <2>3 DEF Unsent
  <2>5. armed[sockets[n]] \/ Owed(sockets[n])
    BY <1>1, <2>1, <2>4, WokenVisited
  <2> QED
    BY <1>5, <2>3, <2>5
<1> QED
  BY <1>9, <1>10

LEMMA WokenWriteGlobal ==
  ASSUME StreamInv, WokenInv, WriteGlobal PROVE WokenInv'
<1> DEFINE s == sockets[socki]
           b == mBuffer
<1>1. /\ UNCHANGED <<sockets, signaled, netEvents, conn>>
      /\ socki' = socki + 1 /\ socki <= Len(sockets) /\ pc = "writing"
      /\ s \notin localKeys /\ b.offset <= b.size
  BY DEF WriteGlobal, writeFrame, listVars, eventVars, netVars
<1>2. PICK w \in SendResults(s, b.size - b.offset) :
        /\ Written(s, b, w)
        /\ firstWritten' = IF w > 0 /\ firstWritten = -1
                             THEN w ELSE firstWritten
        /\ IF NeedsCopy(w)
             THEN /\ localKeys' = localKeys \cup {s}
                  /\ local' = [local EXCEPT ![s] = CopyFor(w)]
             ELSE UNCHANGED <<localKeys, local>>
        /\ mBuffer' = IF w = 0 /\ b.size > MaxThreshold
                        THEN Truncate(b) ELSE b
        /\ pc' = IF w < 0 THEN "endDereferenced" ELSE pc
  BY DEF WriteGlobal
<1>3. s \in Handles /\ b \in Buffers /\ socki \in ClientIndices
      /\ firstWritten \in Nat \cup {-1} /\ socki \in Nat
  BY <1>1, StreamTypes DEF ClientIndices
<1>4. \A k \in ClientIndices : k # socki => sockets[k] # s
  BY <1>3, StreamTypes
<1>5. /\ w \in Int
      /\ w < 0 \/ w = b.size - b.offset \/ armed'[s]
      /\ \A h \in Handles : armed[h] => armed'[h]
  BY <1>1, <1>2, <1>3, WrittenArms
<1>6. b.size \in Nat /\ b.offset \in Nat
  BY <1>3 DEF Buffers
<1>7. /\ mBuffer'.size \in Nat /\ mBuffer'.size <= b.size /\ mBuffer'.offset = b.offset
  <2>1. CASE w = 0 /\ b.size > MaxThreshold
    BY <1>2, <1>6, <2>1, ThresholdAssumption DEF Truncate
  <2>2. CASE ~ (w = 0 /\ b.size > MaxThreshold)
    BY <1>2, <1>6, <2>2
  <2> QED
    BY <2>1, <2>2
<1>8. \A k \in ClientIndices : Pace(k) <= Pace(k)' /\ Pace(k) \in Nat /\ Pace(k)' \in Nat
  <2>1. firstWritten' = firstWritten \/ (firstWritten = -1 /\ firstWritten' > 0)
    BY <1>2, <1>5
  <2>2. firstWritten' \in Int
    BY <1>2, <1>3, <1>5
  <2> QED
    BY <1>1, <1>3, <2>1, <2>2 DEF Pace, ClientIndices
<1>9. ASSUME NEW h \in Handles, h # s
      PROVE  local'[h] = local[h] /\ ((h \in localKeys') <=> (h \in localKeys))
  <2>1. CASE NeedsCopy(w)
    BY <1>2, <1>3, <1>9, <2>1, StreamTypes
  <2>2. CASE ~ NeedsCopy(w)
    BY <1>2, <2>2
  <2> QED
    BY <2>1, <2>2
<1>10. ASSUME NEW n \in ClientIndices, n = socki, w >= 0, w = b.size - b.offset
       PROVE  ~ (Unsent(n) > 0)'
  <2>1. sockets'[n] = s
    BY <1>1, <1>10
  <2>2. CASE NeedsCopy(w)
    <3>1. s \in localKeys' /\ local'[s] = CopyFor(w)
      BY <1>2, <1>3, <2>2, StreamTypes
    <3>2. local'[s].size = b.size /\ local'[s].offset = b.offset + w
      BY <1>3, <3>1 DEF CopyFor, Buffers
    <3>3. ~ (b.size - (b.offset + w) > 0)
      BY <1>6, <1>10
    <3>4. Unsent(n)' = b.size - (b.offset + w)
      BY <2>1, <3>1, <3>2 DEF Unsent
    <3> QED
      BY <3>3, <3>4
  <2>3. CASE ~ NeedsCopy(w) /\ w > 0
    <3>1. firstWritten' = w /\ mBuffer' = b /\ s \notin localKeys'
      BY <1>1, <1>2, <1>5, <2>3 DEF NeedsCopy
    <3>2. Pace(n)' = w
      <4>1. n < socki' /\ firstWritten' > 0
        BY <1>1, <1>3, <1>10, <2>3, <3>1
      <4> QED
        BY <3>1, <4>1 DEF Pace
    <3>3. Unsent(n)' = b.size - b.offset - w
      BY <2>1, <3>1, <3>2 DEF Unsent
    <3>4. ~ (b.size - b.offset - w > 0)
      BY <1>6, <1>10
    <3> QED
      BY <3>3, <3>4
  <2>4. CASE ~ NeedsCopy(w) /\ ~ (w > 0)
    <3>1. s \notin localKeys'
      BY <1>1, <1>2, <2>4
    <3>2. Unsent(n)' = mBuffer'.size - b.offset - Pace(n)'
      BY <1>7, <2>1, <3>1 DEF Unsent
    <3>3. b.size - b.offset = 0 /\ Pace(n)' \in Nat
      BY <1>8, <1>10, <2>4
    <3> QED
      BY <1>6, <1>7, <3>2, <3>3
  <2> QED
    BY <2>2, <2>3, <2>4
<1> HIDE DEF s
<1> SUFFICES ASSUME NEW n \in ClientIndices, conn[sockets[n]] = "open",
                    (Unsent(n) > 0)', Dummy \notin signaled,
                    w >= 0, ~ (n >= socki')
             PROVE  armed'[sockets[n]] \/ Owed(sockets[n])
  <2>1. w < 0 => Crashed'
    BY <1>2 DEF Crashed
  <2>2. w >= 0 => pc' = "writing"
    BY <1>1, <1>2, <1>5
  <2> QED
    BY <1>1, <1>5, <2>1, <2>2
       DEF WokenInv, ClientIndices, Awaited, Owed, PassComes
<1>11. CASE n = socki
  <2>1. w # b.size - b.offset
    BY <1>10, <1>11
  <2>2. armed'[s]
    BY <1>5, <2>1
  <2> QED
    BY <1>11, <2>2 DEF s
<1>12. CASE n # socki
  <2>1. n < socki /\ n \in Nat
    BY <1>1, <1>3, <1>12, StreamTypes DEF ClientIndices
  <2>2. sockets[n] \in Handles /\ sockets[n] # s
    BY <1>4, <1>12, StreamTypes
  <2>3. /\ local'[sockets[n]] = local[sockets[n]]
        /\ (sockets[n] \in localKeys') <=> (sockets[n] \in localKeys)
    BY <1>9, <2>2
  <2>4. Unsent(n) > 0
    <3>1. CASE sockets[n] \in localKeys
      <4>1. Unsent(n)' = Unsent(n)
        BY <1>1, <2>3, <3>1 DEF Unsent
      <4> QED
        BY <4>1
    <3>2. CASE sockets[n] \notin localKeys
      <4>1. Unsent(n) = b.size - b.offset - Pace(n)
        BY <3>2 DEF Unsent
      <4>2. Unsent(n)' = mBuffer'.size - b.offset - Pace(n)'
        BY <1>1, <1>7, <2>3, <3>2 DEF Unsent
      <4>3. mBuffer'.size - b.offset - Pace(n)' > 0
        BY <4>2
      <4>4. Pace(n) <= Pace(n)' /\ Pace(n) \in Nat /\ Pace(n)' \in Nat
        BY <1>8
      <4> HIDE DEF b
      <4> QED
        BY <1>6, <1>7, <4>1, <4>3, <4>4
    <3> QED
      BY <3>1, <3>2
  <2>5. armed[sockets[n]] \/ Owed(sockets[n])
    BY <1>1, <2>1, <2>4, WokenVisited
  <2> QED
    BY <1>5, <2>2, <2>5
<1> QED
  BY <1>11, <1>12

\* handleEvent takes the events of the client it looks at: its FD_WRITE is
\* pending then, and those of other clients stay.
LEMMA WokenEnumEvents ==
  ASSUME StreamInv, PlaceInv, WokenInv, EnumEvents PROVE WokenInv'
<1>1. /\ UNCHANGED <<streamVars, conn, armed>>
      /\ i >= 2 /\ i \in 1 .. Len(sockets) /\ events = sockets
      /\ pending' = netEvents[sockets[i]]
      /\ netEvents' = [netEvents EXCEPT ![sockets[i]] = {}]
      /\ signaled' = signaled \ {events[i]}
      /\ pc = "scan" /\ pc' = "handle"
  BY DEF EnumEvents, PlaceInv, StreamInv, TypeInv, TypeOK, ListInv, loopFrame,
         streamVars, appVars, bufferVars, listVars, passVars, sendVars, netVars,
         historyVars
<1>2. sockets[1] = Dummy /\ sockets[i] # sockets[1]
  BY <1>1 DEF StreamInv, ListInv, Distinct
<1>3. ASSUME NEW n \in ClientIndices
      PROVE  /\ Owed(sockets[n]) => Owed(sockets[n])' \/ PassComes(n)'
             /\ PassComes(n) => PassComes(n)'
  <2>1. sockets'[n] = sockets[n]
    BY <1>1 DEF streamVars
  <2>2. CASE sockets[n] = sockets[i]
    BY <1>1, <1>2, <2>2 DEF Owed, PassComes, Crashed
  <2>3. CASE sockets[n] # sockets[i]
    <3>1. netEvents'[sockets[n]] = netEvents[sockets[n]]
      BY <1>1, <2>3, StreamTypes
         DEF StreamInv, TypeInv, TypeOK, WinsockTypeOK, Sockets
    <3> QED
      BY <1>1, <1>2, <2>1, <2>3, <3>1 DEF Owed, PassComes, Crashed
  <2> QED
    BY <2>2, <2>3
<1>4. /\ UNCHANGED streamVars
      /\ \A n \in ClientIndices : /\ conn'[sockets[n]] = conn[sockets[n]]
                                  /\ armed'[sockets[n]] = armed[sockets[n]]
  BY <1>1
<1> QED
  BY <1>3, <1>4, WokenFrame

\* The failures after which the thread looks at the other events: none of
\* them takes an FD_WRITE.
LEMMA WokenFailure ==
  ASSUME Faults \cap {"poll", "netError"} = {},
         StreamInv, PlaceInv, WokenInv, Failure
  PROVE  WokenInv'
<1>1. ~ ScanFails /\ ~ EventError
  BY DEF ScanFails, EventError, Fault
<1>2. UNCHANGED streamVars
  BY <1>1 DEF Failure, ThreadStartFails, EnumFails, AcceptFails, CreateEventFails,
     loopFrame, streamVars, appVars, bufferVars, listVars, passVars, historyVars
<1>3. CASE ThreadStartFails \/ EnumFails
  <2>1. UNCHANGED <<conn, armed, netEvents, signaled>> /\ pc \in {"start", "scan"}
    BY <1>3 DEF ThreadStartFails, EnumFails, loopFrame, netVars, sendVars, eventVars
  <2>2. \A n \in ClientIndices : PassComes(n) => PassComes(n)'
    BY <2>1 DEF PassComes, Crashed
  <2>3. sockets' = sockets
    BY <1>2 DEF streamVars
  <2> QED
    BY <1>2, <2>1, <2>2, <2>3, WokenFrame DEF Owed
<1>4. ASSUME AcceptFails \/ \E h \in Handles : CreateEventFails(h)
      PROVE  WokenInv'
  <2>1. "write" \notin pending /\ pc = "handle" /\ signaled \subseteq signaled'
    BY <1>4 DEF AcceptFails, CreateEventFails, Accept, TakeFromBacklog, PlaceInv
  <2>2. ASSUME NEW n \in ClientIndices
        PROVE  /\ conn'[sockets[n]] = conn[sockets[n]]
               /\ armed[sockets[n]] => armed'[sockets[n]]
               /\ netEvents'[sockets[n]] = netEvents[sockets[n]]
    <3>1. sockets[n] \in Handles /\ conn[sockets[n]] # "free"
          /\ sockets[n] # Listener
      BY HandlesAssumption DEF StreamInv, ListInv
    <3>2. WinsockTypeOK
      BY DEF StreamInv, TypeInv, TypeOK
    <3>3. CASE AcceptFails
      BY <3>1, <3>2, <3>3
         DEF AcceptFails, TakeFromBacklog, sendVars, WinsockTypeOK, Sockets
    <3>4. ASSUME NEW h \in Handles, CreateEventFails(h)
          PROVE  /\ conn'[sockets[n]] = conn[sockets[n]]
                 /\ armed[sockets[n]] => armed'[sockets[n]]
                 /\ netEvents'[sockets[n]] = netEvents[sockets[n]]
      <4>1. /\ conn[h] = "free" /\ conn' = [conn EXCEPT ![h] = "open"]
            /\ armed' = [armed EXCEPT ![h] = FALSE]
            /\ netEvents' = [[netEvents EXCEPT ![h] = {}] EXCEPT ![Listener] =
                               IF backlog > 1 THEN {"accept"} ELSE @]
        BY <3>4 DEF CreateEventFails, Accept, TakeFromBacklog
      <4>2. sockets[n] # h
        BY <3>1, <4>1
      <4> QED
        BY <3>1, <3>2, <4>1, <4>2 DEF WinsockTypeOK, Sockets
    <3> QED
      BY <1>4, <3>3, <3>4
  <2>3. sockets' = sockets
    BY <1>2 DEF streamVars
  <2>4. ASSUME NEW n \in ClientIndices, conn'[sockets[n]] = "open"
        PROVE  /\ conn[sockets[n]] = "open"
               /\ armed[sockets[n]] => armed'[sockets[n]] \/ Owed(sockets[n])'
               /\ Owed(sockets[n]) => Owed(sockets[n])' \/ PassComes(n)'
               /\ PassComes(n) => PassComes(n)'
    <3>1. PassComes(n) => PassComes(n)'
      BY <2>1, <2>3 DEF PassComes, Crashed
    <3>2. Owed(sockets[n]) => Owed(sockets[n])'
      BY <2>1, <2>2, <2>3 DEF Owed
    <3> QED
      BY <2>2, <2>4, <3>1, <3>2
  <2> QED
    BY <1>2, <2>4, WokenFrame
<1> QED
  BY <1>1, <1>3, <1>4 DEF Failure

\* A client that reads is told that it can be written, if it waited for that.
LEMMA WokenNetwork ==
  ASSUME StreamInv, WokenInv, Network PROVE WokenInv'
<1>1. UNCHANGED streamVars /\ UNCHANGED <<pc, pending, socki, sockets>>
  BY DEF Network, Connect, PeerCloses, Drain, processVars, streamVars, appVars,
         bufferVars, listVars, scanVars, passVars, historyVars
<1>2. signaled \subseteq signaled'
  BY DEF Network, Connect, PeerCloses, Drain, Arrive, Depart, Read, eventVars
<1>3. \A n \in ClientIndices : PassComes(n) => PassComes(n)'
  BY <1>1, <1>2 DEF PassComes, Crashed
<1>4. WinsockTypeOK
  BY DEF StreamInv, TypeInv, TypeOK
<1>5. ASSUME NEW n \in ClientIndices
      PROVE  /\ conn'[sockets[n]] = "open" => conn[sockets[n]] = "open"
             /\ netEvents[sockets[n]] \subseteq netEvents'[sockets[n]]
             /\ armed[sockets[n]] => armed'[sockets[n]] \/ Owed(sockets[n])'
  <2> DEFINE h == sockets[n]
  <2>1. h \in Handles /\ h \in Sockets /\ h # Listener /\ sockets'[n] = h
    BY <1>1, StreamTypes, HandlesAssumption DEF Sockets
  <2> HIDE DEF h
  <2>2. CASE Connect
    <3>1. conn' = conn /\ armed' = armed
          /\ netEvents' \in {netEvents, [netEvents EXCEPT ![Listener] = {"accept"}]}
      BY <2>2 DEF Connect, Arrive, eventVars, sendVars
    <3>2. netEvents'[h] = netEvents[h]
      BY <1>4, <2>1, <3>1 DEF WinsockTypeOK
    <3> QED
      BY <3>1, <3>2 DEF h
  <2>3. ASSUME NEW g \in Handles, PeerCloses(g)
        PROVE  /\ conn'[h] = "open" => conn[h] = "open"
               /\ netEvents[h] \subseteq netEvents'[h]
               /\ armed' = armed
    BY <1>4, <2>1, <2>3 DEF PeerCloses, Depart, sendVars, WinsockTypeOK, Sockets
  <2>4. ASSUME NEW g \in Handles, Drain(g)
        PROVE  /\ conn' = conn
               /\ netEvents[h] \subseteq netEvents'[h]
               /\ armed[h] => armed'[h] \/ ("write" \in netEvents'[h] /\ h \in signaled')
    <3>1. /\ conn' = conn /\ armed' = [armed EXCEPT ![g] = FALSE]
          /\ IF armed[g]
               THEN /\ netEvents' = [netEvents EXCEPT ![g] = @ \cup {"write"}]
                    /\ signaled' = signaled \cup {g}
               ELSE netEvents' = netEvents
      BY <2>4 DEF Drain, Read, netVars, eventVars
    <3>2. CASE h = g
      BY <1>4, <2>1, <3>1, <3>2 DEF WinsockTypeOK
    <3>3. CASE h # g
      BY <1>4, <2>1, <3>1, <3>3 DEF WinsockTypeOK
    <3> QED
      BY <3>2, <3>3
  <2> QED
    BY <2>1, <2>2, <2>3, <2>4 DEF Network, Owed, h
<1>6. \A n \in ClientIndices : Owed(sockets[n]) => Owed(sockets[n])'
  BY <1>1, <1>2, <1>5 DEF Owed
<1> QED
  BY <1>1, <1>3, <1>5, <1>6, WokenFrame

LEMMA WokenStep ==
  ASSUME Faults \cap {"poll", "netError"} = {},
         StreamInv, PlaceInv, WokenInv, [Next]_vars
  PROVE  WokenInv'
<1>1. ASSUME Dummy \in signaled' \/ pc' = "write" \/ Crashed' PROVE WokenInv'
  BY <1>1 DEF WokenInv, Awaited, PassComes
<1>2. CASE UNCHANGED vars
  <2>1. UNCHANGED streamVars /\ UNCHANGED <<pc, pending, socki, sockets, conn, armed,
                                           netEvents, signaled>>
    BY <1>2 DEF vars, streamVars, appVars, bufferVars, listVars, scanVars, passVars,
       sendVars, netVars, eventVars, historyVars
  <2> QED
    BY <2>1, WokenFrame DEF PassComes, Crashed, Owed
<1>3. CASE App
  <2>1. CASE (\E n \in 1 .. MaxChunk : Send(n)) \/ StopWake
    <3>1. Dummy \in signaled'
      BY <2>1 DEF Send, StopWake, WokenBySend
    <3> QED
      BY <1>1, <3>1
  <2>2. CASE StopSet \/ StopJoin
    <3>1. UNCHANGED streamVars /\ UNCHANGED <<pc, pending, socki, sockets, conn, armed,
                                             signaled>>
      BY <2>2 DEF StopSet, StopJoin, appFrame, streamVars, bufferVars, listVars,
         scanVars, passVars, sendVars, netVars, eventVars, historyVars
    <3>2. netEvents' \in {netEvents, [netEvents EXCEPT ![Listener] = {}]}
      BY <2>2 DEF StopSet, StopJoin, eventVars
    <3>3. \A n \in ClientIndices : netEvents'[sockets[n]] = netEvents[sockets[n]]
      BY <3>2, StreamTypes, HandlesAssumption
         DEF StreamInv, TypeInv, TypeOK, WinsockTypeOK, Sockets
    <3>4. ASSUME NEW n \in ClientIndices, conn'[sockets[n]] = "open"
          PROVE  /\ conn[sockets[n]] = "open"
                 /\ armed[sockets[n]] => armed'[sockets[n]] \/ Owed(sockets[n])'
                 /\ Owed(sockets[n]) => Owed(sockets[n])' \/ PassComes(n)'
                 /\ PassComes(n) => PassComes(n)'
      <4>1. PassComes(n) => PassComes(n)'
        BY <3>1 DEF PassComes, Crashed
      <4>2. Owed(sockets[n]) => Owed(sockets[n])'
        BY <3>1, <3>3 DEF Owed
      <4> QED
        BY <3>1, <3>4, <4>1, <4>2
    <3> QED
      BY <3>1, <3>4, WokenFrame
  <2> QED
    BY <1>3, <2>1, <2>2 DEF App
<1>4. CASE ThreadStart
  <2>1. sockets = <<Dummy>> /\ sockets' = Append(<<Dummy>>, Listener)
    BY <1>4 DEF ThreadStart, StreamInv, ListInv
  <2>2. Len(sockets') = 2
    BY <2>1
  <2> QED
    BY <2>2 DEF WokenInv, ClientIndices
<1>5. CASE WaitWakeup \/ (\E h \in Handles : AcceptClient(h)) \/ HandleWritable
           \/ CloseClient \/ WriteAsserts
  <2>1. pc' = "write" \/ Crashed'
    BY <1>5 DEF WaitWakeup, AcceptClient, HandleWritable, CloseClient, WriteAsserts,
       Crashed
  <2> QED
    BY <1>1, <2>1
<1>6. CASE CheckStopped \/ WaitFails \/ WaitTimesOut \/ ScanDone \/ ScanSkip
           \/ EventDone \/ \E n \in 1 .. Len(events) : WaitSocket(n)
  <2>1. /\ UNCHANGED streamVars /\ UNCHANGED <<sockets, conn, armed, netEvents, signaled>>
        /\ pc \in {"check", "wait", "scan", "handle"}
        /\ pc = "handle" => pending = {}
    BY <1>6 DEF CheckStopped, WaitFails, WaitTimesOut, ScanDone, ScanSkip, EventDone,
       WaitSocket, loopFrame, streamVars, appVars, bufferVars, listVars, passVars,
       sendVars, netVars, eventVars, historyVars
  <2>2. \A n \in ClientIndices : PassComes(n) => PassComes(n)'
    BY <2>1 DEF PassComes, Crashed
  <2> QED
    BY <2>1, <2>2, WokenFrame DEF Owed
<1> QED
  BY <1>2, <1>3, <1>4, <1>5, <1>6, WokenEnumEvents, WokenWriteBegin, WokenWriteLocal,
     WokenWriteGlobal, WokenWriteEnd, WokenFailure, WokenNetwork
     DEF Next, Thread, Loop, HandleEvent, HandleWrite

-----------------------------------------------------------------------------
(* The theorems.                                                           *)

\* Without clients everything is dropped: handleWrite clears the buffers at
\* the latest when the thread is next woken, and the last client to leave
\* wakes it.
THEOREM NothingIsKept ==
  ASSUME "poll" \notin Faults PROVE Spec => []NothingKeptWithoutClients
<1>1. StreamInv /\ PlaceInv /\ KeptInv /\ [Next]_vars => PlaceInv' /\ KeptInv'
  BY PlaceStep, KeptStep DEF StreamInv
<1>2. StreamInv /\ KeptInv => NothingKeptWithoutClients
  <2> SUFFICES ASSUME StreamInv, KeptInv, Idle, Listed = {}
               PROVE  mBuffer = Empty /\ localKeys = {}
    BY DEF NothingKeptWithoutClients
  <2>1. Len(sockets) \in Nat
    BY StreamTypes
  <2>2. 3 \notin ClientIndices
    BY DEF Listed
  <2>3. Len(sockets) <= 2
    BY <2>1, <2>2 DEF ClientIndices
  <2> QED
    BY <2>3 DEF KeptInv, Idle
<1> QED
  BY <1>1, <1>2, WakeInit, StreamInvariant, PTL DEF Spec, WakeInv

\* No wakeup is lost between send(), the wait and a client that reads, whatever
\* leaves and comes: while the thread waits, a client with unsent bytes will
\* be, or has been, reported as one that can be written.
THEOREM NoWakeupLost ==
  ASSUME Faults \cap {"poll", "netError"} = {} PROVE Spec => []NoLostWakeup
<1>1. "poll" \notin Faults
  OBVIOUS
<1>2. StreamInv /\ PlaceInv /\ WokenInv /\ [Next]_vars => PlaceInv' /\ WokenInv'
  BY <1>1, PlaceStep, WokenStep DEF StreamInv
<1>3. StreamInv /\ WokenInv => NoLostWakeup
  <2> SUFFICES ASSUME StreamInv, WokenInv, Idle, NEW n \in ClientIndices,
                      conn[sockets[n]] = "open",
                      BufferOf(sockets[n]).size > BufferOf(sockets[n]).offset
               PROVE  armed[sockets[n]] \/ sockets[n] \in signaled
    BY DEF NoLostWakeup
  <2>1. firstWritten = -1
    BY DEF StreamInv, PassInv, Idle
  <2>2. Pace(n) = 0
    BY <2>1 DEF Pace
  <2>3. /\ mBuffer.size \in Nat /\ mBuffer.offset \in Nat
        /\ local[sockets[n]].size \in Nat /\ local[sockets[n]].offset \in Nat
    <3>1. mBuffer \in Buffers /\ local[sockets[n]] \in Buffers
      BY StreamTypes
    <3> QED
      BY <3>1 DEF Buffers
  <2>4. Unsent(n) > 0
    BY <2>2, <2>3 DEF Unsent, BufferOf
  <2>5. ~ PassComes(n)
    BY DEF PassComes, Idle, Crashed
  <2> QED
    BY <2>4, <2>5 DEF WokenInv, Awaited, Owed
<1> QED
  BY <1>1, <1>2, <1>3, WakeInit, StreamInvariant, PTL DEF Spec, WakeInv
=============================================================================
