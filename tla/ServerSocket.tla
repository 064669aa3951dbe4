---------------------------- MODULE ServerSocket ----------------------------
(***************************************************************************)
(* The TCP fan-out server of the capture program                           *)
(* (servers/win/VideoCaptureFilterSample/ServerSocket.cpp).                *)
(*                                                                         *)
(* Three actors share one ServerSocket object: the DirectShow streaming    *)
(* thread, which calls send(); the main thread, which calls stop(); and    *)
(* the server's own thread, which waits on the events of the wakeup, of    *)
(* the listening socket and of every client, and writes what it can to     *)
(* every client.  mMutex is held by the server thread from WriteBegin to   *)
(* WriteEnd (pc = "writing"), and by the other actors within one action.   *)
(* The Winsock calls are an external component, modelled from how this     *)
(* code uses them.                                                         *)
(*                                                                         *)
(* A byte is named by its position in the stream of everything send() was  *)
(* given, so a buffer of consecutive bytes is [base, size, offset]: it     *)
(* holds positions base .. base+size-1, and offset of them have been sent. *)
(*                                                                         *)
(* The build is the Debug one: a failing _ASSERT, and a use of end() that  *)
(* the checked iterators report, stop the process.                         *)
(***************************************************************************)
EXTENDS Winsock, Sequences, SequencesExt

CONSTANTS
  MaxThreshold,    \* truncate a buffer that is longer than this ...
  MinThreshold,    \* ... to this
  MaxWaitEvents,   \* WSA_MAXIMUM_WAIT_EVENTS
  Faults,          \* the failures the environment may produce
  MaxStream,       \* bound: bytes given to send() in a behaviour
  MaxChunk,        \* bound: bytes given to one send()
  MaxFaults        \* bound: failures in a behaviour

FaultKinds == {"start", "accept", "createEvent", "enum", "netError", "poll"}

ASSUME ThresholdAssumption ==
  /\ MaxThreshold \in Nat
  /\ MinThreshold \in 1 .. MaxThreshold
ASSUME WaitAssumption == MaxWaitEvents \in Nat
ASSUME FaultsAssumption == Faults \subseteq FaultKinds
ASSUME BoundsAssumption ==
  /\ MaxStream \in Nat
  /\ MaxChunk \in Nat
  /\ MaxFaults \in Nat

VARIABLES
  main,          \* the thread that owns the object: where it is in stop()
  mStopped,
  produced,      \* bytes given to send() so far
  mBuffer,
  localKeys,     \* the keys of mSocketBuffers
  local,         \* the values of mSocketBuffers (Empty where there is no key)
  sockets,       \* sockets and events of thread(); index n here is n-1 there
  events,        \* an event is named by the socket it was created for
  pc,            \* where the server thread is
  i,             \* the index of the scan loop
  pending,       \* the rest of nevents that handleEvent has not looked at
  socki,         \* the index of the write loop
  firstWritten,
  faults,        \* failures so far
  next,          \* history: position after the last byte sent on a socket
  lost           \* history: bytes skipped between bytes sent on a socket

appVars == <<main, mStopped, produced>>
bufferVars == <<mBuffer, localKeys, local>>
listVars == <<sockets, events>>
scanVars == <<i, pending>>
passVars == <<socki, firstWritten>>
historyVars == <<next, lost>>

\* What one kind of action leaves alone: the event loop, the network, a step
\* of handleWrite, and the other two threads.
loopFrame == <<appVars, bufferVars, listVars, passVars, sendVars, netVars,
               historyVars>>
processVars == <<appVars, bufferVars, listVars, pc, scanVars, passVars, faults,
                 historyVars>>
writeFrame == <<appVars, listVars, scanVars, netVars, eventVars, faults>>
appFrame == <<listVars, pc, scanVars, passVars, sendVars, faults, historyVars>>

vars == <<appVars, bufferVars, listVars, pc, scanVars, passVars, sendVars,
          netVars, eventVars, faults, historyVars>>

-----------------------------------------------------------------------------
Buffers == [base : Nat, size : Nat, offset : Nat]
Empty == [base |-> 0, size |-> 0, offset |-> 0]

-----------------------------------------------------------------------------
(* Faulty variants of the operators of this module: bugs this code could    *)
(* have had, each of which breaks the property it is named for.             *)

\* offset is moved back by what was erased, also when less had been sent.
TruncateMovesOffset(b) ==
  [base |-> b.base + b.size - MinThreshold,
   size |-> MinThreshold,
   offset |-> b.offset - (b.size - MinThreshold)]
\* All of a buffer is dropped after a partial write.
AdvanceDropsRest(b, w) == Empty
\* The bytes are cleared and the offset is not.
AdvanceKeepsOffset(b, w) == [base |-> 0,
                             size |-> IF b.offset + w = b.size THEN 0 ELSE b.size,
                             offset |-> b.offset + w]
\* send() forgets the buffers of single clients.
ExtendLocalForgotten(n) == local
\* send() wakes the thread only when there was nothing to send before.
WokenBySendIfEmpty == IF mBuffer.size = 0 THEN {Dummy} ELSE {}
\* The buffer of a client outlives it.
EraseLocalForgotten(s) == UNCHANGED <<localKeys, local>>
\* FD_WRITE and FD_CLOSE are taken to exclude each other.
AfterWriteNothing == {}
\* The entry of the listening socket is erased for the one that closed.
EraseEntrySecond(p) == sockets' = RemoveAt(sockets, 2)
                       /\ events' = RemoveAt(events, p)
\* sockets holds no client only when it is empty but for the dummy.
NoClientsWithoutListener == Len(sockets) = 1
\* The listening socket is counted as a client.
NoClientsButOne == Len(sockets) <= 3
\* The early return looks at mBuffer alone.
NothingInShared == mBuffer'.size = 0
\* Only a client that is behind the first gets a copy.
NeedsCopyIfSlower(w) == w > 0 /\ firstWritten > w
\* The copy starts where mBuffer does.
CopyForFromStart(w) == mBuffer
\* A wait over too many events is tried again at once.
WaitFailsRetries == /\ pc = "wait"
                    /\ Len(events) > MaxWaitEvents
                    /\ UNCHANGED vars

-----------------------------------------------------------------------------
\* The clients in the list, in the order handleWrite visits them.
ClientIndices == 3 .. Len(sockets)
Listed == {sockets[n] : n \in ClientIndices}

Crashed == pc \in {"assertFailed", "endDereferenced"}
Running == ~ Crashed /\ pc # "exited"

\* Position of the next byte a buffer sends.
Cursor(b) == IF b.size = 0 THEN produced ELSE b.base + b.offset

\* copy() in send(): n new bytes at the end of a buffer.
Extend(b, n) == [base |-> IF b.size = 0 THEN produced ELSE b.base,
                 size |-> b.size + n,
                 offset |-> b.offset]

\* offset += w, and the buffer is cleared when all of it is written.
Advance(b, w) == IF b.offset + w = b.size THEN Empty
                 ELSE [b EXCEPT !.offset = @ + w]

\* bytes.erase(begin(), end() - MinThreshold): offset stays as it is.
Truncate(b) == [base |-> b.base + b.size - MinThreshold,
                size |-> MinThreshold,
                offset |-> b.offset]

Fault(kind) == /\ kind \in Faults
               /\ faults < MaxFaults
               /\ faults' = faults + 1

-----------------------------------------------------------------------------
Init ==
  /\ main = "running"
  /\ mStopped = FALSE
  /\ produced = 0
  /\ mBuffer = Empty
  /\ localKeys = {}
  /\ local = [h \in Handles |-> Empty]
  /\ sockets = <<Dummy>>
  /\ events = <<Dummy>>
  /\ pc = "start"
  /\ i = 1
  /\ pending = {}
  /\ socki = 3
  /\ firstWritten = -1
  /\ WinsockInit
  /\ faults = 0
  /\ next = [h \in Handles |-> 0]
  /\ lost = [h \in Handles |-> 0]

-----------------------------------------------------------------------------
(* The streaming thread and the main thread.                               *)

\* copy() for each buffer in mSocketBuffers.
ExtendLocal(n) == [h \in Handles |-> IF h \in localKeys
                                      THEN Extend(local[h], n) ELSE local[h]]
WokenBySend == {Dummy}

\* send(): under mMutex, to mBuffer and to every client's own buffer.
Send(n) ==
  /\ main # "joined"
  /\ ~ Crashed /\ pc # "writing"
  /\ produced + n <= MaxStream
  /\ mBuffer' = Extend(mBuffer, n)
  /\ local' = ExtendLocal(n)
  /\ produced' = produced + n
  /\ signaled' = signaled \cup WokenBySend
  /\ UNCHANGED <<appFrame, main, mStopped, localKeys, netVars, netEvents>>

\* stop(): set mStopped under mMutex ...
StopSet ==
  /\ main = "running"
  /\ ~ Crashed /\ pc # "writing"
  /\ mStopped' = TRUE
  /\ main' = "stopping"
  /\ UNCHANGED <<appFrame, produced, bufferVars, netVars, eventVars>>

\* ... wake the server thread ...
StopWake ==
  /\ main = "stopping"
  /\ ~ Crashed
  /\ signaled' = signaled \cup {Dummy}
  /\ main' = "joining"
  /\ UNCHANGED <<appFrame, mStopped, produced, bufferVars, netVars, netEvents>>

\* ... join it, and close the listening socket.
StopJoin ==
  /\ main = "joining"
  /\ pc = "exited"
  /\ main' = "joined"
  /\ backlog' = 0
  /\ netEvents' = [netEvents EXCEPT ![Listener] = {}]
  /\ UNCHANGED <<appFrame, mStopped, produced, bufferVars, conn, conns, signaled>>

-----------------------------------------------------------------------------
(* The server thread: the event loop.                                      *)

\* WSACreateEvent and WSAEventSelect for the listening socket.
ThreadStart ==
  /\ pc = "start"
  /\ sockets' = Append(sockets, Listener)
  /\ events' = Append(events, Listener)
  /\ pc' = "check"
  /\ UNCHANGED <<appVars, bufferVars, scanVars, passVars, sendVars, netVars,
                 eventVars, faults, historyVars>>

\* Either of them fails: the thread returns.
ThreadStartFails ==
  /\ pc = "start"
  /\ Fault("start")
  /\ pc' = "exited"
  /\ UNCHANGED <<loopFrame, scanVars, eventVars>>

CheckStopped ==
  /\ pc = "check"
  /\ pc' = IF mStopped THEN "exited" ELSE "wait"
  /\ UNCHANGED <<loopFrame, scanVars, eventVars, faults>>

\* The wait over all events takes at most MaxWaitEvents of them; with more it
\* fails at once, idx is past the end, and the scan loop does not run.
WaitFails ==
  /\ pc = "wait"
  /\ Len(events) > MaxWaitEvents
  /\ pc' = "check"
  /\ UNCHANGED <<loopFrame, scanVars, eventVars, faults>>

WaitTimesOut ==
  /\ pc = "wait"
  /\ Len(events) <= MaxWaitEvents
  /\ \A n \in 1 .. Len(events) : events[n] \notin signaled
  /\ pc' = "check"
  /\ UNCHANGED <<loopFrame, scanVars, eventVars, faults>>

\* The wakeup event: reset it, write, and scan from the second event on.
WaitWakeup ==
  /\ pc = "wait"
  /\ Len(events) <= MaxWaitEvents
  /\ events[1] \in signaled
  /\ signaled' = signaled \ {events[1]}
  /\ i' = 1
  /\ pc' = "write"
  /\ UNCHANGED <<loopFrame, pending, netEvents, faults>>

\* Any other event: scan from the first one that is signaled.
WaitSocket(n) ==
  /\ pc = "wait"
  /\ Len(events) <= MaxWaitEvents
  /\ n > 1
  /\ events[n] \in signaled
  /\ \A k \in 1 .. n - 1 : events[k] \notin signaled
  /\ i' = n
  /\ pc' = "scan"
  /\ UNCHANGED <<loopFrame, pending, eventVars, faults>>

ScanDone ==
  /\ pc = "scan"
  /\ i > Len(events)
  /\ i' = 1
  /\ pc' = "check"
  /\ UNCHANGED <<loopFrame, pending, eventVars, faults>>

ScanSkip ==
  /\ pc = "scan"
  /\ i <= Len(events)
  /\ events[i] \notin signaled
  /\ i' = i + 1
  /\ UNCHANGED <<loopFrame, pc, pending, eventVars, faults>>

\* mSocketBuffers.erase
EraseLocal(s) ==
  /\ localKeys' = localKeys \ {s}
  /\ local' = [h \in Handles |-> IF h = s THEN Empty ELSE local[h]]

\* The wait for one event fails: sockets[i] is closed, events[i] and
\* sockets[1] (always the second entry) leave the lists, and i is rescanned.
ScanFails ==
  /\ pc = "scan"
  /\ i \in 2 .. Len(events)
  /\ Fault("poll")
  /\ EraseLocal(sockets[i])
  /\ conn' = [h \in Handles |-> IF h = sockets[i] THEN "free" ELSE conn[h]]
  /\ signaled' = signaled \ {events[i]}
  /\ events' = RemoveAt(events, i)
  /\ sockets' = RemoveAt(sockets, 2)
  /\ UNCHANGED <<appVars, mBuffer, pc, scanVars, passVars, sendVars, backlog,
                 conns, netEvents, historyVars>>

-----------------------------------------------------------------------------
(* handleEvent                                                             *)

\* WSAEnumNetworkEvents: take the recorded events and reset the event.
EnumEvents ==
  /\ pc = "scan"
  /\ i <= Len(events)
  /\ events[i] \in signaled
  /\ pending' = netEvents[sockets[i]]
  /\ netEvents' = [netEvents EXCEPT ![sockets[i]] = {}]
  /\ signaled' = signaled \ {events[i]}
  /\ pc' = "handle"
  /\ UNCHANGED <<loopFrame, i, faults>>

\* It fails, and takes nothing.
EnumFails ==
  /\ pc = "scan"
  /\ i <= Len(events)
  /\ events[i] \in signaled
  /\ Fault("enum")
  /\ i' = i + 1
  /\ UNCHANGED <<loopFrame, pc, pending, eventVars>>

\* iErrorCode is set for the next event: Failure, and the rest is dropped.
EventError ==
  /\ pc = "handle"
  /\ {"accept", "write"} \cap pending # {}
  /\ Fault("netError")
  /\ pending' = {}
  /\ i' = i + 1
  /\ pc' = "scan"
  /\ UNCHANGED <<loopFrame, eventVars>>

\* FD_ACCEPT: accept, register for FD_WRITE (recorded at once: a new
\* connection can be written) and FD_CLOSE, add to the lists, then write.
AcceptClient(h) ==
  /\ pc = "handle"
  /\ "accept" \in pending
  /\ Accept(h, TRUE)
  /\ sockets' = Append(sockets, h)
  /\ events' = Append(events, h)
  /\ next' = [next EXCEPT ![h] = Lesser(Cursor(mBuffer), produced)]
  /\ lost' = [lost EXCEPT ![h] = 0]
  /\ pending' = pending \ {"accept"}
  /\ pc' = "write"
  /\ UNCHANGED <<appVars, bufferVars, i, passVars, conns, faults>>

\* accept() fails: the connection is gone from the backlog.
AcceptFails ==
  /\ pc = "handle"
  /\ "accept" \in pending
  /\ Fault("accept")
  /\ TakeFromBacklog(netEvents, {})
  /\ pending' = {}
  /\ i' = i + 1
  /\ pc' = "scan"
  /\ UNCHANGED <<appVars, bufferVars, listVars, passVars, sendVars, conn,
                 conns, historyVars>>

\* The client is accepted but has no event: it stays open and in no list.
CreateEventFails(h) ==
  /\ pc = "handle"
  /\ "accept" \in pending
  /\ Accept(h, FALSE)
  /\ Fault("createEvent")
  /\ pending' = {}
  /\ i' = i + 1
  /\ pc' = "scan"
  /\ UNCHANGED <<appVars, bufferVars, listVars, passVars, conns, historyVars>>

AfterWrite == pending \ {"write"}

\* FD_WRITE: write to everyone.
HandleWritable ==
  /\ pc = "handle"
  /\ "accept" \notin pending
  /\ "write" \in pending
  /\ pending' = AfterWrite
  /\ pc' = "write"
  /\ UNCHANGED <<loopFrame, i, eventVars, faults>>

EraseEntry(p) == /\ sockets' = RemoveAt(sockets, p)
                 /\ events' = RemoveAt(events, p)

\* FD_CLOSE: close the socket and its event, take them out of the lists,
\* drop the buffer (under mMutex; what send() adds to it before that goes
\* with it), then write.  The result Removed is the --i of the scan loop.
CloseClient ==
  /\ pc = "handle"
  /\ pending = {"close"}
  /\ \E p \in 1 .. Len(sockets) :
       /\ sockets[p] = sockets[i]
       /\ \A k \in 1 .. p - 1 : sockets[k] # sockets[i]
       /\ EraseEntry(p)
  /\ conn' = [conn EXCEPT ![sockets[i]] = "free"]
  /\ netEvents' = [netEvents EXCEPT ![sockets[i]] = {}]
  /\ signaled' = signaled \ {events[i]}
  /\ EraseLocal(sockets[i])
  /\ pending' = {}
  /\ i' = i - 1
  /\ pc' = "write"
  /\ UNCHANGED <<appVars, mBuffer, passVars, sendVars, backlog, conns, faults,
                 historyVars>>

EventDone ==
  /\ pc = "handle"
  /\ pending = {}
  /\ i' = i + 1
  /\ pc' = "scan"
  /\ UNCHANGED <<loopFrame, pending, eventVars, faults>>

-----------------------------------------------------------------------------
(* handleWrite, which returns to handleEvent or (from the wakeup event, with *)
(* i = 1 and nothing pending) to the scan loop.                              *)

NoClients == Len(sockets) = 2
NothingToWrite == mBuffer'.size = 0 /\ localKeys' = {}

\* Lock mMutex.  Drop everything if there are no clients; return early if
\* there is nothing to write.
WriteBegin ==
  /\ pc = "write"
  /\ IF NoClients
       THEN /\ mBuffer' = Empty
            /\ localKeys' = {}
            /\ local' = [h \in Handles |-> Empty]
       ELSE UNCHANGED bufferVars
  /\ pc' = IF NothingToWrite THEN "handle" ELSE "writing"
  /\ UNCHANGED <<writeFrame, passVars, sendVars, historyVars>>

\* The write lambda returned w for buffer b on socket s.
Written(s, b, w) ==
  /\ SendLoop(s, b.size - b.offset, w)
  /\ IF w > 0
       THEN /\ next' = [next EXCEPT ![s] = Cursor(b) + w]
            /\ lost' = [lost EXCEPT ![s] = @ + Cursor(b) - next[s]]
       ELSE UNCHANGED historyVars

\* The buffer that a socket is written from.
BufferOf(s) == IF s \in localKeys THEN local[s] ELSE mBuffer

\* The _ASSERT at the head of the write loop.
WriteAsserts ==
  /\ pc = "writing"
  /\ socki <= Len(sockets)
  /\ LET b == BufferOf(sockets[socki]) IN b.offset > b.size
  /\ pc' = "assertFailed"
  /\ UNCHANGED <<loopFrame, scanVars, eventVars, faults>>

\* A client with a buffer of its own.
WriteLocal ==
  /\ pc = "writing"
  /\ socki <= Len(sockets)
  /\ LET s == sockets[socki]
         b == local[s]
     IN  /\ s \in localKeys
         /\ b.offset <= b.size
         /\ \E w \in SendResults(s, b.size - b.offset) :
              /\ Written(s, b, w)
              /\ local' = [local EXCEPT ![s] =
                   IF w > 0 THEN Advance(b, w)
                   ELSE IF w = 0 /\ b.size > MaxThreshold THEN Truncate(b)
                   ELSE IF w < 0 THEN Empty
                   ELSE b]
  /\ socki' = socki + 1
  /\ UNCHANGED <<writeFrame, mBuffer, localKeys, pc, firstWritten>>

NeedsCopy(w) == w > 0 /\ firstWritten \notin {-1, w}
CopyFor(w) == [mBuffer EXCEPT !.offset = @ + w]

\* A client that is written from mBuffer.  The first that takes any of it
\* sets the pace; one that takes another amount gets a copy of the buffer.
WriteGlobal ==
  /\ pc = "writing"
  /\ socki <= Len(sockets)
  /\ LET s == sockets[socki]
         b == mBuffer
     IN  /\ s \notin localKeys
         /\ b.offset <= b.size
         /\ \E w \in SendResults(s, b.size - b.offset) :
              /\ Written(s, b, w)
              /\ firstWritten' = IF w > 0 /\ firstWritten = -1
                                   THEN w ELSE firstWritten
              /\ IF NeedsCopy(w)
                   THEN /\ localKeys' = localKeys \cup {s}
                        /\ local' = [local EXCEPT ![s] = CopyFor(w)]
                   ELSE UNCHANGED <<localKeys, local>>
              /\ mBuffer' = IF w = 0 /\ b.size > MaxThreshold
                              THEN Truncate(b) ELSE b
              /\ pc' = IF w < 0 THEN "endDereferenced" ELSE pc
  /\ socki' = socki + 1
  /\ UNCHANGED writeFrame

\* After the loop, mBuffer moves on by what the first client took.
WriteEnd ==
  /\ pc = "writing"
  /\ socki > Len(sockets)
  /\ mBuffer' = IF firstWritten > 0 THEN Advance(mBuffer, firstWritten)
                ELSE mBuffer
  /\ socki' = 3
  /\ firstWritten' = -1
  /\ pc' = "handle"
  /\ UNCHANGED <<writeFrame, localKeys, local, sendVars, historyVars>>

-----------------------------------------------------------------------------
(* The network and the clients.                                            *)

Connect ==
  /\ main # "joined"
  /\ pc # "start"
  /\ Arrive
  /\ UNCHANGED processVars

PeerCloses(h) == Depart(h) /\ UNCHANGED processVars

Drain(h) == Read(h) /\ UNCHANGED processVars

-----------------------------------------------------------------------------
App == \/ \E n \in 1 .. MaxChunk : Send(n)
       \/ StopSet
       \/ StopWake
       \/ StopJoin

Loop == \/ ThreadStart
        \/ CheckStopped
        \/ WaitFails
        \/ WaitTimesOut
        \/ WaitWakeup
        \/ \E n \in 1 .. Len(events) : WaitSocket(n)
        \/ ScanDone
        \/ ScanSkip
        \/ EnumEvents

HandleEvent == \/ \E h \in Handles : AcceptClient(h)
               \/ HandleWritable
               \/ CloseClient
               \/ EventDone

HandleWrite == \/ WriteBegin
               \/ WriteAsserts
               \/ WriteLocal
               \/ WriteGlobal
               \/ WriteEnd

Failure == \/ ThreadStartFails
           \/ ScanFails
           \/ EnumFails
           \/ EventError
           \/ AcceptFails
           \/ \E h \in Handles : CreateEventFails(h)

Network == \/ Connect
           \/ \E h \in Handles : PeerCloses(h)
           \/ \E h \in Handles : Drain(h)

Thread == Loop \/ HandleEvent \/ HandleWrite

Next == App \/ Thread \/ Failure \/ Network

Spec == Init /\ [][Next]_vars

\* The system schedules the server thread; the thread that is in
\* stop() goes on; a client that stays reads what it was sent.
Fairness == /\ WF_vars(Thread \/ Failure)
            /\ WF_vars(StopWake \/ StopJoin)
            /\ \A h \in Handles : WF_vars(Drain(h))

FairSpec == Spec /\ Fairness
============================================================================
