------------------------------ MODULE NetServer ------------------------------
(***************************************************************************)
(* net.Server (src/lib/luanode/net.lua) over the C++ Acceptor               *)
(* (src/src/luanode_net_acceptor.cpp): listen, the chain of accept          *)
(* operations, maxConnections, running out of descriptors, close.           *)
(*                                                                          *)
(* An acceptor has accept operations pending in the kernel and results that *)
(* wait, in order, for HandleAccept.  Closing it aborts the pending ones; a *)
(* result that is already there is delivered all the same.  The listeners   *)
(* of "connection" run inside the accept callback (frame = "connection").   *)
(***************************************************************************)
EXTENDS Integers, Sequences, FiniteSets

CONSTANTS
    maxConnections, \* server.maxConnections
    MaxClients,     \* bound: clients that connect
    MaxListens,     \* bound: calls of listen
    MaxFailures,    \* bound: accepts answered with an error
    ListenersThrow  \* the listeners of "connection" may throw

ASSUME BoundsAssumption ==
    /\ maxConnections \in Nat \ {0} /\ MaxClients \in Nat
    /\ MaxListens \in Nat \ {0} /\ MaxFailures \in Nat
    /\ ListenersThrow \in BOOLEAN

VARIABLES
    _handle,        \* the acceptor in use, NoHandle when not listening
    acceptors,      \* the C++ acceptors created so far
    _connections,   \* the server's count of open connections
    live,           \* accepted sockets that have not been destroyed
    lookup,         \* listen waits for dns.lookup
    ticks,          \* functions handed to nextTick
    retries,        \* EMFILE timers running
    frame,          \* "none" or "connection"
    crashed,        \* a handler of the server threw an error
    backlog,        \* clients waiting in the kernel
    hist            \* history: see NoHistory

serverVars == <<_handle, _connections, live, lookup, ticks, retries>>
vars == <<serverVars, acceptors, frame, crashed, backlog, hist>>

NoHandle == 0
Acceptors == 1..MaxListens
Results == {"ok", "gone", "aborted", "EMFILE", "other"}
Outcomes == Results \ {"aborted"}

NewAcceptor == [open |-> TRUE, pending |-> 0, ready |-> <<>>]

(* Calls of listen, clients that connected, sockets created, accepts that   *)
(* failed; whether the accept chain was given up (after an error other than *)
(* EMFILE, or a listener that threw, nothing calls accept again).           *)
NoHistory == [listens |-> 0, clients |-> 0, accepted |-> 0, failures |-> 0,
              givenUp |-> FALSE]

Init ==
    /\ _handle = NoHandle
    /\ acceptors = [a \in Acceptors |-> [NewAcceptor EXCEPT !.open = FALSE]]
    /\ _connections = 0 /\ live = {} /\ lookup = FALSE /\ ticks = <<>>
    /\ retries = 0 /\ frame = "none" /\ crashed = FALSE
    /\ backlog = 0 /\ hist = NoHistory

------------------------------------------------------------------------------
(* Acceptor::Accept and Acceptor::Close.  An accept on a closed acceptor is *)
(* answered with an error.                                                  *)

Accept(acc, a) ==
    IF acc[a].open THEN [acc EXCEPT ![a].pending = @ + 1]
    ELSE [acc EXCEPT ![a].ready = Append(@, "other")]

CloseAcceptor(acc, a) ==
    [acc EXCEPT ![a] =
        [open |-> FALSE, pending |-> 0,
         ready |-> @.ready \o [i \in 1..@.pending |-> "aborted"]]]

(* Server:_emitCloseIfDrained.  It tests _connections, and a number is      *)
(* true in Lua whatever its value.                                          *)
IsTrue(n) == n \in Int

emitCloseIfDrained(handle, connections) ==
    IF handle # NoHandle \/ IsTrue(connections) THEN UNCHANGED ticks
    ELSE ticks' = Append(ticks, "close")

AppActs == ~crashed /\ UNCHANGED <<frame, crashed, backlog>>
LoopActs == ~crashed /\ frame = "none" /\ UNCHANGED backlog

------------------------------------------------------------------------------
(* The application.                                                         *)

Listen ==
    /\ AppActs
    /\ _handle = NoHandle /\ ~lookup
    /\ hist.listens < MaxListens
    /\ lookup' = TRUE
    /\ hist' = [hist EXCEPT !.listens = @ + 1, !.givenUp = FALSE]
    /\ UNCHANGED <<_handle, _connections, live, ticks, retries, acceptors>>

(* Server:close.                                                            *)
Close ==
    /\ AppActs
    /\ _handle # NoHandle
    /\ acceptors' = CloseAcceptor(acceptors, _handle)
    /\ _handle' = NoHandle
    /\ emitCloseIfDrained(NoHandle, _connections)
    /\ UNCHANGED <<_connections, live, lookup, retries, hist>>

(* Socket:_destroy on a socket of this server.                              *)
SocketDestroyed(c) ==
    /\ AppActs
    /\ c \in live
    /\ live' = live \ {c}
    /\ _connections' = _connections - 1
    /\ emitCloseIfDrained(_handle, _connections - 1)
    /\ UNCHANGED <<_handle, lookup, retries, acceptors, hist>>

------------------------------------------------------------------------------
(* The event loop.                                                          *)

(* The callback of listen's lookup: an error, or _listen2, where binding or *)
(* listening may fail.                                                      *)
ListenLookedUp ==
    /\ LoopActs
    /\ lookup
    /\ lookup' = FALSE
    /\ \/ UNCHANGED <<_handle, acceptors, ticks>>
       \/ /\ ticks' = Append(ticks, "error")
          /\ UNCHANGED <<_handle, acceptors>>
       \/ /\ _handle' = hist.listens
          /\ acceptors' = [acceptors EXCEPT ![hist.listens] = NewAcceptor]
          /\ ticks' = Append(ticks, "listening")
    /\ UNCHANGED <<_connections, live, retries, frame, crashed, hist>>

(* "listening": accept on the handle, which close may have taken away.      *)
TickRuns ==
    /\ LoopActs
    /\ ticks # <<>>
    /\ ticks' = Tail(ticks)
    /\ IF Head(ticks) # "listening"
       THEN UNCHANGED <<acceptors, crashed>>
       ELSE IF _handle = NoHandle
       THEN crashed' = TRUE /\ UNCHANGED acceptors
       ELSE acceptors' = Accept(acceptors, _handle) /\ UNCHANGED crashed
    /\ UNCHANGED <<_handle, _connections, live, lookup, retries, frame, hist>>

Delivered(a, result) ==
    /\ LoopActs
    /\ acceptors[a].ready # <<>>
    /\ Head(acceptors[a].ready) = result

Rest(a) == [acceptors EXCEPT ![a].ready = Tail(@)]

(* The connection was closed before it was accepted: HandleAccept accepts   *)
(* again on its own acceptor.                                               *)
AcceptGone(a) ==
    /\ Delivered(a, "gone")
    /\ acceptors' = Accept(Rest(a), a)
    /\ UNCHANGED <<serverVars, frame, crashed, hist>>

AcceptAborted(a) ==
    /\ Delivered(a, "aborted")
    /\ acceptors' = Rest(a)
    /\ UNCHANGED <<serverVars, frame, crashed, hist>>

(* Mutation: the server does not try again when it ran out of descriptors.  *)
AcceptEMFILEGivesUp(a) ==
    /\ Delivered(a, "EMFILE")
    /\ acceptors' = Rest(a)
    /\ UNCHANGED <<serverVars, frame, crashed, hist>>

AcceptEMFILE(a) ==
    /\ Delivered(a, "EMFILE")
    /\ acceptors' = Rest(a)
    /\ retries' = retries + 1
    /\ UNCHANGED <<_handle, _connections, live, lookup, ticks>>
    /\ UNCHANGED <<frame, crashed, hist>>

(* Any other error is emitted, and that is all.                             *)
AcceptError(a) ==
    /\ Delivered(a, "other")
    /\ acceptors' = Rest(a)
    /\ hist' = [hist EXCEPT !.givenUp = @ \/ a = _handle]
    /\ UNCHANGED <<serverVars, frame, crashed>>

(* Mutation: the limit is compared after the new connection is counted in.  *)
AtLimitOffByOne == _connections > maxConnections

AtLimit == _connections >= maxConnections

(* A connection: the callback throws when the server has been closed, turns *)
(* it away at the limit, and otherwise counts it and calls the listeners.   *)
AcceptOk(a) ==
    /\ Delivered(a, "ok")
    /\ \/ /\ _handle = NoHandle
          /\ crashed' = TRUE
          /\ acceptors' = Rest(a)
          /\ UNCHANGED <<_connections, live, frame, hist>>
       \/ /\ _handle # NoHandle /\ AtLimit
          /\ acceptors' = Accept(Rest(a), _handle)
          /\ UNCHANGED <<_connections, live, frame, crashed, hist>>
       \/ /\ _handle # NoHandle /\ ~AtLimit
          /\ acceptors' = Rest(a)
          /\ _connections' = _connections + 1
          /\ live' = live \cup {hist.accepted + 1}
          /\ hist' = [hist EXCEPT !.accepted = @ + 1]
          /\ frame' = "connection"
          /\ UNCHANGED crashed
    /\ UNCHANGED <<_handle, lookup, ticks, retries>>

(* The listeners have returned: accept the next connection, unless the      *)
(* server was closed.                                                       *)
ConnectionListened ==
    /\ ~crashed /\ frame = "connection"
    /\ frame' = "none"
    /\ acceptors' = IF _handle = NoHandle THEN acceptors
                    ELSE Accept(acceptors, _handle)
    /\ UNCHANGED <<serverVars, crashed, backlog, hist>>

ConnectionThrows ==
    /\ ~crashed /\ frame = "connection"
    /\ ListenersThrow
    /\ frame' = "none"
    /\ hist' = [hist EXCEPT !.givenUp = TRUE]
    /\ UNCHANGED <<serverVars, acceptors, crashed, backlog>>

(* The timer set after EMFILE.                                              *)
RetryAccept ==
    /\ LoopActs
    /\ retries > 0
    /\ retries' = retries - 1
    /\ acceptors' = IF _handle = NoHandle THEN acceptors
                    ELSE Accept(acceptors, _handle)
    /\ UNCHANGED <<_handle, _connections, live, lookup, ticks>>
    /\ UNCHANGED <<frame, crashed, hist>>

------------------------------------------------------------------------------
(* The kernel and the clients.                                              *)

ClientConnects ==
    /\ ~crashed
    /\ hist.clients < MaxClients
    /\ hist' = [hist EXCEPT !.clients = @ + 1]
    /\ \E a \in Acceptors : acceptors[a].open
    /\ backlog' = backlog + 1
    /\ UNCHANGED <<serverVars, acceptors, frame, crashed>>

(* A pending accept is answered.  A result other than "ok" counts as a      *)
(* failure; after EMFILE and other errors the client keeps waiting.         *)
KernelAccepts(a, result) ==
    /\ ~crashed
    /\ acceptors[a].pending > 0 /\ backlog > 0
    /\ result # "ok" => hist.failures < MaxFailures
    /\ acceptors' = [acceptors EXCEPT ![a].pending = @ - 1,
                                      ![a].ready = Append(@, result)]
    /\ backlog' = IF result \in {"ok", "gone"} THEN backlog - 1 ELSE backlog
    /\ hist' = [hist EXCEPT !.failures = IF result = "ok" THEN @ ELSE @ + 1]
    /\ UNCHANGED <<serverVars, frame, crashed>>

(* The clients waiting on a server that has been closed are turned away.    *)
BacklogDropped ==
    /\ ~crashed
    /\ backlog > 0 /\ \A a \in Acceptors : ~acceptors[a].open
    /\ backlog' = 0
    /\ UNCHANGED <<serverVars, acceptors, frame, crashed, hist>>

------------------------------------------------------------------------------
Application ==
    \/ Listen \/ Close
    \/ \E c \in 1..MaxClients : SocketDestroyed(c)

Handler ==
    \/ ListenLookedUp \/ TickRuns \/ ConnectionListened \/ ConnectionThrows
    \/ RetryAccept
    \/ \E a \in Acceptors :
         AcceptGone(a) \/ AcceptAborted(a) \/ AcceptEMFILE(a)
         \/ AcceptError(a) \/ AcceptOk(a)

Kernel ==
    \/ ClientConnects \/ BacklogDropped
    \/ \E a \in Acceptors, result \in Outcomes : KernelAccepts(a, result)

Next == Application \/ Handler \/ Kernel

(* The event loop runs the handlers that are due, the timers fire, and the  *)
(* kernel answers an accept when a client is waiting.                       *)
Fairness ==
    /\ WF_vars(Handler)
    /\ WF_vars(\E a \in Acceptors, result \in Outcomes :
                    KernelAccepts(a, result))

Spec == Init /\ [][Next]_vars /\ Fairness

------------------------------------------------------------------------------
(* _connections is the number of sockets that are open, through every order *)
(* of accepting, turning away, destroying and closing, and it never exceeds *)
(* maxConnections.                                                          *)
ConnectionsCounted ==
    _connections = Cardinality(live) /\ _connections <= maxConnections

(* What keeps the server accepting: an accept that is pending or has a      *)
(* result to deliver, a retry timer, the "listening" tick, or the callback  *)
(* that is running.                                                         *)
AcceptChain ==
    (IF _handle = NoHandle THEN 0
     ELSE acceptors[_handle].pending + Len(acceptors[_handle].ready))
    + retries + Cardinality({i \in DOMAIN ticks : ticks[i] = "listening"})
    + (IF frame = "connection" THEN 1 ELSE 0)

(* A server that listens never stops accepting, and accepts one connection  *)
(* at a time (unless a listener threw or accept failed with an error the    *)
(* callback does not handle).  One that was closed and listens again may    *)
(* accept several: callbacks left from before call accept as well.          *)
OneAccept ==
    _handle # NoHandle /\ ~hist.givenUp /\ ~crashed =>
        /\ AcceptChain >= 1
        /\ hist.listens = 1 => AcceptChain = 1

(* A waiting client is accepted or turned away, unless the server is closed *)
(* or has given up accepting.                                               *)
ClientsServed ==
    (backlog > 0 /\ _handle # NoHandle)
        ~> (backlog = 0 \/ _handle = NoHandle \/ hist.givenUp \/ crashed)
==============================================================================
