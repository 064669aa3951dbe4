----------------------- MODULE ServerSocketProperties -----------------------
(***************************************************************************)
(* What ServerSocket has to guarantee to the capture program, which must   *)
(* not lose its server, and to the clients, which decode the stream.       *)
(***************************************************************************)
EXTENDS ServerSocket

\* The types of all variables.
TypeOK ==
  /\ main \in {"running", "stopping", "joining", "joined"}
  /\ mStopped \in BOOLEAN
  /\ produced \in 0 .. MaxStream
  /\ mBuffer \in Buffers
  /\ localKeys \subseteq Handles
  /\ local \in [Handles -> Buffers]
  /\ sockets \in Seq(Sockets)
  /\ events \in Seq(Sockets)
  /\ pc \in {"start", "check", "wait", "scan", "handle", "write", "writing",
             "exited", "assertFailed", "endDereferenced"}
  /\ i \in Nat
  /\ pending \subseteq {"accept", "write", "close"}
  /\ socki \in Nat
  /\ firstWritten \in Nat \cup {-1}
  /\ WinsockTypeOK
  /\ faults \in 0 .. MaxFaults
  /\ next \in [Handles -> Nat]
  /\ lost \in [Handles -> Int]

-----------------------------------------------------------------------------
(* The lists.                                                              *)

Distinct(list) == \A m, n \in 1 .. Len(list) : list[m] = list[n] => m = n

\* sockets and events stay parallel, the wakeup event and the listening
\* socket stay in front, and every client in the lists is a distinct socket
\* that has not been closed: what handleEvent relies on when it takes the
\* same index of both.
ListsAligned ==
  /\ events = sockets
  /\ sockets[1] = Dummy
  /\ pc \notin {"start", "exited"} => Len(sockets) >= 2 /\ sockets[2] = Listener
  /\ \A n \in ClientIndices : sockets[n] \in Handles /\ conn[sockets[n]] # "free"
  /\ Distinct(sockets)

\* A buffer of its own belongs to a client that is still there: a handle
\* that Windows gives out again does not inherit the buffer of the client
\* that had it before.
NoInheritedBuffer == localKeys \subseteq Listed

-----------------------------------------------------------------------------
(* The stream.                                                             *)

EndsStream(b) == b.size > 0 => b.base + b.size = produced

\* Every buffer, shared or of one client, ends with the newest byte: send()
\* appends to all of them, and clearing, truncating and copying keep the end.
BuffersAreSuffixes == /\ EndsStream(mBuffer)
                      /\ \A h \in localKeys : EndsStream(local[h])

\* What mBuffer will move on by when the pass ends, for a client at index n:
\* it applies to the clients the pass has visited.
Pace(n) == IF n < socki /\ firstWritten > 0 THEN firstWritten ELSE 0

\* Where the client at index n of the lists reads on.
ReadPosition(n) == IF sockets[n] \in localKeys THEN Cursor(local[sockets[n]])
                   ELSE Cursor(mBuffer) + Pace(n)

\* No byte is sent twice to a client, or after a later one: it never reads on
\* before the last byte it was sent.  (Clients share mBuffer's offset, get a
\* copy of the buffer in the middle of a pass, and buffers are truncated.)
InOrder == \A n \in ClientIndices : ReadPosition(n) >= next[sockets[n]]

\* No client misses a byte: between two passes every connected client reads
\* on exactly where it was left, in step with the buffer it reads from, which
\* the comment at ServerSocket.cpp:162-163 says one has to know.
InSync ==
  pc # "writing" /\ ~ Crashed =>
    \A n \in ClientIndices :
      conn[sockets[n]] = "open" => /\ ReadPosition(n) = next[sockets[n]]
                                  /\ lost[sockets[n]] = 0

\* The _ASSERT of the write lambda (ServerSocket.cpp:127): no buffer's offset
\* is past its end.
AssertHolds == pc # "assertFailed"

\* Erasing the buffer of a client that is gone (ServerSocket.cpp:192) finds a
\* buffer to erase.
BufferToErase == pc # "endDereferenced"

-----------------------------------------------------------------------------
(* Writing everything, and dropping what nobody wants.                     *)

\* Nothing is lost between send() and the wait: while the server thread
\* waits, with its wakeup event reset, every client that has bytes to read is
\* blocked and will signal its event when it can be written again.
Idle == pc = "wait" /\ Dummy \notin signaled
NoLostWakeup ==
  Idle => \A n \in ClientIndices :
            LET s == sockets[n]
            IN  conn[s] = "open" /\ BufferOf(s).size > BufferOf(s).offset
                  => armed[s] \/ s \in signaled

\* Without clients everything is dropped (ServerSocket.cpp:112): while the
\* server thread waits with no client in its lists, no bytes are kept.
NothingKeptWithoutClients ==
  Idle /\ Listed = {} => mBuffer = Empty /\ localKeys = {}

\* The fan-out promise (StreamFanout): with Lossless = FALSE bytes may be
\* skipped, never repeated, reordered or invented.
Lossy == INSTANCE StreamFanout
  WITH Clients <- Handles, Lossless <- FALSE, joined <- Listed
LossyFanout == Lossy!Spec

\* ... and with Lossless = TRUE a client is given every byte from where it
\* joined.
Exact == INSTANCE StreamFanout
  WITH Clients <- Handles, Lossless <- TRUE, joined <- Listed
LosslessFanout == Exact!Spec

-----------------------------------------------------------------------------
(* Liveness, under FairSpec.                                               *)

\* Everything given to send() reaches, or is skipped for, every client that
\* stays: unless the server stops or the process dies, its buffer runs dry.
Progress ==
  \A h \in Handles :
    (h \in Listed /\ BufferOf(h).size > BufferOf(h).offset)
      ~> \/ conn[h] # "open" \/ mStopped \/ Crashed
         \/ BufferOf(h).size = BufferOf(h).offset

\* A client that leaves is taken out of the lists, and its socket is closed.
ClosedClientsLeave ==
  \A h \in Handles : conn[h] = "gone" ~> conn[h] = "free" \/ mStopped \/ Crashed

\* stop() returns: the server thread sees mStopped and ends.
StopReturns == main = "stopping" ~> main = "joined" \/ Crashed
=============================================================================
