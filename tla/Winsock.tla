------------------------------- MODULE Winsock -------------------------------
(***************************************************************************)
(* The part of Winsock that ServerSocket uses: a listening socket with its *)
(* backlog, non-blocking connections with a limited send space, and        *)
(* WSAEventSelect's network events, each recorded once until the call that *)
(* re-enables it.  External: modelled from how ServerSocket.cpp calls it.  *)
(*                                                                         *)
(* FD_READ is left out: clients/mac never sends, and the server ignores it.*)
(***************************************************************************)
EXTENDS Integers, FiniteSets

CONSTANTS
  Handles,         \* the socket handles accept() can return
  Dummy,           \* names the wakeup event, which belongs to no socket
  Listener,        \* the listening socket
  SendSpace,       \* what a connection takes before send() would block
  MaxConns         \* bound: connections made in a behaviour

ASSUME HandlesAssumption ==
  /\ IsFiniteSet(Handles)
  /\ Dummy # Listener
  /\ Dummy \notin Handles
  /\ Listener \notin Handles
ASSUME SendSpaceAssumption == SendSpace \in Nat \ {0}
ASSUME ConnsAssumption == MaxConns \in Nat

VARIABLES
  signaled,      \* the events that are signaled, by the socket they are of
  netEvents,     \* the network events recorded for a socket
  conn,          \* "free", "open", or "gone": the peer has left
  space,         \* what send() on a socket would take now
  armed,         \* send() would have blocked: FD_WRITE comes when it drains
  backlog,       \* connections that wait for accept()
  conns          \* connections made so far

eventVars == <<signaled, netEvents>>
sendVars == <<space, armed>>
netVars == <<conn, backlog, conns>>

Sockets == Handles \cup {Dummy, Listener}
NetEvents == {"accept", "write", "close"}

Lesser(a, b) == IF a <= b THEN a ELSE b

WinsockTypeOK ==
  /\ signaled \subseteq Sockets
  /\ netEvents \in [Sockets -> SUBSET NetEvents]
  /\ conn \in [Handles -> {"free", "open", "gone"}]
  /\ space \in [Handles -> 0 .. SendSpace]
  /\ armed \in [Handles -> BOOLEAN]
  /\ backlog \in Nat
  /\ conns \in 0 .. MaxConns

WinsockInit ==
  /\ signaled = {}
  /\ netEvents = [s \in Sockets |-> {}]
  /\ conn = [h \in Handles |-> "free"]
  /\ space = [h \in Handles |-> SendSpace]
  /\ armed = [h \in Handles |-> FALSE]
  /\ backlog = 0
  /\ conns = 0

-----------------------------------------------------------------------------
(* What the calls of the server do.                                        *)

\* accept() on the listening socket: one connection leaves the backlog, and
\* FD_ACCEPT is recorded again if there are more.
TakeFromBacklog(record, woken) ==
  /\ backlog > 0
  /\ backlog' = backlog - 1
  /\ netEvents' = [record EXCEPT ![Listener] =
                     IF backlog > 1 THEN {"accept"} ELSE @]
  /\ signaled' = signaled \cup woken
                          \cup (IF backlog > 1 THEN {Listener} ELSE {})

\* ... and a new connection has handle h.  Once it is selected for FD_WRITE
\* and FD_CLOSE, FD_WRITE is recorded: it can be written.
Accept(h, selected) ==
  /\ conn[h] = "free"
  /\ conn' = [conn EXCEPT ![h] = "open"]
  /\ space' = [space EXCEPT ![h] = SendSpace]
  /\ armed' = [armed EXCEPT ![h] = FALSE]
  /\ TakeFromBacklog([netEvents EXCEPT ![h] = IF selected THEN {"write"} ELSE {}],
                     IF selected THEN {h} ELSE {})

\* What a loop of send() calls on s returns for rem bytes: all that fits
\* before it would block, or -1 when the connection is lost.  (What drains
\* during the loop is taken to have drained before it.)
SendResults(s, rem) ==
  IF rem = 0 THEN {0}
  ELSE IF s \notin Handles \/ conn[s] = "free" THEN {-1}
  ELSE {Lesser(rem, space[s])} \cup (IF conn[s] = "gone" THEN {-1} ELSE {})

\* Its effect on the connection when it returns w.
SendLoop(s, rem, w) ==
  IF rem > 0 /\ w >= 0
    THEN /\ space' = [space EXCEPT ![s] = @ - w]
         /\ armed' = [armed EXCEPT ![s] = @ \/ w < rem]
    ELSE UNCHANGED sendVars

-----------------------------------------------------------------------------
(* What the network and the clients do.                                    *)

InUse == Cardinality({h \in Handles : conn[h] # "free"}) + backlog

\* A client connects.  FD_ACCEPT is recorded unless an accept() is still owed.
Arrive ==
  /\ conns < MaxConns
  /\ InUse < Cardinality(Handles)
  /\ conns' = conns + 1
  /\ backlog' = backlog + 1
  /\ IF backlog = 0
       THEN /\ netEvents' = [netEvents EXCEPT ![Listener] = {"accept"}]
            /\ signaled' = signaled \cup {Listener}
       ELSE UNCHANGED eventVars
  /\ UNCHANGED <<sendVars, conn>>

\* A client leaves: FD_CLOSE.
Depart(h) ==
  /\ conn[h] = "open"
  /\ conn' = [conn EXCEPT ![h] = "gone"]
  /\ netEvents' = [netEvents EXCEPT ![h] = @ \cup {"close"}]
  /\ signaled' = signaled \cup {h}
  /\ UNCHANGED <<sendVars, backlog, conns>>

\* A client reads: there is room again, and FD_WRITE if a send() had none.
Read(h) ==
  /\ conn[h] = "open"
  /\ space[h] < SendSpace
  /\ space' = [space EXCEPT ![h] = @ + 1]
  /\ armed' = [armed EXCEPT ![h] = FALSE]
  /\ IF armed[h]
       THEN /\ netEvents' = [netEvents EXCEPT ![h] = @ \cup {"write"}]
            /\ signaled' = signaled \cup {h}
       ELSE UNCHANGED eventVars
  /\ UNCHANGED netVars
=============================================================================
