---------------------------- MODULE SecureSocket ----------------------------
(***************************************************************************)
(* A net.Socket made secure (Socket:setSecure in src/lib/luanode/net.lua)   *)
(* and the C++ stream below it (Crypto::Socket in                           *)
(* src/src/luanode_crypto.cpp), from the return of the "connect" listeners. *)
(*                                                                          *)
(* `sock` is the Lua object, `ssl` the C++ one with the operations it has   *)
(* under way.  Chunks of data are numbered in the order of the write calls; *)
(* those written before the connection was made are in _connectQueue until  *)
(* "secure" is emitted.  The events "close" and "error" are in NetSocket.   *)
(***************************************************************************)
EXTENDS Integers, Sequences

CONSTANTS
    MaxChunks, \* bound: chunks written
    MaxInputs  \* bound: reads answered with data

ASSUME BoundsAssumption == MaxChunks \in Nat /\ MaxInputs \in Nat

VARIABLES sock, ssl, crashed, hist
vars == <<sock, ssl, crashed, hist>>

None == 0

(* connect_callback, or the connection of a server, with a listener that    *)
(* calls setSecure.  A socket finished before it was connected is not       *)
(* writable when setSecure looks, and no handshake is started.              *)
Init ==
    /\ \E queued \in 0..MaxChunks, finished, halfOpen \in BOOLEAN :
         /\ sock = [_handle |-> TRUE, readable |-> TRUE,
                    writable |-> ~finished, destroyed |-> FALSE,
                    secureEstablished |-> FALSE, destroySoon |-> FALSE,
                    _connectQueue |-> [k \in 1..queued |-> k],
                    drainOnSecure |-> queued > 0,
                    _writeQueue |-> <<>>, _pendingWriteReqs |-> 0,
                    allowHalfOpen |-> halfOpen]
         /\ ssl = [open |-> TRUE, writing |-> None, m_pending_reads |-> 0,
                   handshake |-> IF finished THEN "none" ELSE "pending",
                   m_shutdown_pending |-> finished, m_close_pending |-> FALSE,
                   shutdown |-> FALSE]
         /\ hist = [chunks |-> queued, inputs |-> 0, early |-> FALSE]
    /\ crashed = FALSE

------------------------------------------------------------------------------
(* Crypto::Socket, as functions on its state.  m_pending_writes is 1 when a *)
(* chunk is being written, and 0 otherwise.                                 *)

NewWrite(s, chunk) == [s EXCEPT !.writing = chunk]
NewRead(s) == [s EXCEPT !.m_pending_reads = @ + 1]

Close(s) ==
    IF s.writing # None THEN [s EXCEPT !.m_close_pending = TRUE]
    ELSE [s EXCEPT !.open = FALSE]

(* Mutation: a read that ends does not look at the writes.                  *)
CloseBehindRead(s) ==
    IF s.m_close_pending /\ s.m_pending_reads = 0
    THEN [s EXCEPT !.open = FALSE] ELSE s

(* Mutation: the delayed close is left to the reads.                        *)
CloseNever(s) == s

(* The delayed close, at the end of every handler.                          *)
DelayedClose(s) ==
    IF s.m_close_pending /\ s.writing = None /\ s.m_pending_reads = 0
    THEN [s EXCEPT !.open = FALSE] ELSE s

(* Only a flag: the connection is shut down by the next HandleWrite.        *)
Shutdown(s) == [s EXCEPT !.m_shutdown_pending = TRUE]

DelayedShutdown(s) ==
    IF s.m_shutdown_pending /\ s.writing = None /\ s.open
    THEN [s EXCEPT !.shutdown = TRUE] ELSE s

------------------------------------------------------------------------------
(* net.Socket, as functions on w: the Lua and the C++ object.               *)

World == [s |-> sock, c |-> ssl, crashed |-> crashed]
Apply(w) == sock' = w.s /\ ssl' = w.c /\ crashed' = w.crashed

Destroy(w) ==
    IF w.s.destroyed THEN w
    ELSE [w EXCEPT !.s = [@ EXCEPT !._handle = FALSE, !.readable = FALSE,
                            !.writable = FALSE, !.destroyed = TRUE,
                            !._connectQueue = <<>>],
                   !.c = Close(@)]

DestroySoon(w) ==
    LET d == [w EXCEPT !.s.writable = FALSE, !.s.destroySoon = TRUE]
    IN IF w.s._pendingWriteReqs = 0 THEN Destroy(d) ELSE d

finish(w) ==
    LET f == [w EXCEPT !.s.writable = FALSE]
    IN IF ~w.s.writable THEN w
       ELSE IF ~w.s.readable THEN DestroySoon(f)
       ELSE [f EXCEPT !.c = Shutdown(@)]

_write(w, chunk) ==
    IF ~w.s._handle THEN [w EXCEPT !.crashed = TRUE]
    ELSE IF w.c.writing = None
    THEN [w EXCEPT !.c = NewWrite(@, chunk), !.s._pendingWriteReqs = @ + 1]
    ELSE [w EXCEPT !.s._writeQueue = Append(@, chunk)]

resume(w) ==
    IF w.s._handle /\ w.c.m_pending_reads = 0
    THEN [w EXCEPT !.c = NewRead(@)] ELSE w

(* drainConnectQueue, a listener of "secure" that calls _write for each     *)
(* chunk: the first may be written at once, the others wait behind it.      *)
(* destroy has set the queue to nil, and walking that is an error.          *)
drainConnectQueue(w) ==
    IF ~w.s.drainOnSecure THEN w
    ELSE IF w.s.destroyed THEN [w EXCEPT !.crashed = TRUE]
    ELSE LET q == w.s._connectQueue
             first == _write([w EXCEPT !.s._connectQueue = <<>>,
                                       !.s.drainOnSecure = FALSE], Head(q))
         IN [first EXCEPT !.s._writeQueue = @ \o Tail(q)]

(* afterWrite.                                                              *)
afterWrite(w, ok) ==
    LET q == w.s._writeQueue
        next == IF q = <<>> THEN w
                ELSE _write([w EXCEPT !.s._writeQueue = Tail(q)], Head(q))
        done == [next EXCEPT !.s._pendingWriteReqs = @ - 1]
    IN IF w.s.destroyed THEN w
       ELSE IF ~ok THEN Destroy(w)
       ELSE IF done.s._pendingWriteReqs = 0 /\ done.s.destroySoon
       THEN Destroy(done) ELSE done

(* onread; destroy has replaced it by noop.                                 *)
onread(w, data) ==
    LET e == [w EXCEPT !.s.readable = FALSE]
        d == IF w.s.writable THEN e ELSE Destroy(e)
    IN IF w.s.destroyed THEN w
       ELSE IF data THEN IF w.s.readable THEN resume(w) ELSE w
       ELSE IF w.s.allowHalfOpen THEN d ELSE finish(d)

------------------------------------------------------------------------------
(* The completion handlers of Crypto::Socket.                               *)

(* The callback is called whether the handshake succeeded or failed, and    *)
(* does not look at the difference.                                         *)
HandleHandshake ==
    /\ ~crashed /\ ssl.handshake = "pending"
    /\ \E outcome \in IF ssl.open THEN {"done", "failed"} ELSE {"failed"} :
          Apply(resume(drainConnectQueue(
                [World EXCEPT !.s.secureEstablished = TRUE,
                              !.c.handshake = outcome])))
    /\ UNCHANGED hist

(* Mutation: the shutdown is made before the callback starts the next write.*)
HandleWriteShutsFirst ==
    /\ ~crashed /\ ssl.writing # None
    /\ \E ok \in BOOLEAN :
          /\ ok => ssl.open /\ ssl.handshake # "failed" /\ ~ssl.shutdown
          /\ LET w == afterWrite([World EXCEPT !.c =
                         DelayedShutdown(NewWrite(@, None))], ok)
             IN Apply([w EXCEPT !.c = DelayedClose(@)])
    /\ UNCHANGED hist

(* The callback may start the next write, and destroy the socket.           *)
HandleWrite ==
    /\ ~crashed /\ ssl.writing # None
    /\ \E ok \in BOOLEAN :
          /\ ok => ssl.open /\ ssl.handshake # "failed" /\ ~ssl.shutdown
          /\ LET w == afterWrite([World EXCEPT !.c.writing = None], ok)
             IN Apply([w EXCEPT !.c = DelayedClose(DelayedShutdown(@))])
    /\ UNCHANGED hist

HandleRead(data) ==
    LET w == onread([World EXCEPT !.c.m_pending_reads = @ - 1], data)
    IN Apply([w EXCEPT !.c = DelayedClose(@)])

(* HandleReadSome with data, and with the end of the input or an error.     *)
HandleData ==
    /\ ~crashed /\ ssl.m_pending_reads > 0
    /\ ssl.open /\ ssl.handshake = "done" /\ hist.inputs < MaxInputs
    /\ HandleRead(TRUE)
    /\ hist' = [hist EXCEPT !.inputs = @ + 1]

HandleEnd ==
    /\ ~crashed /\ ssl.m_pending_reads > 0
    /\ HandleRead(FALSE)
    /\ UNCHANGED hist

(* The operations of a closed socket end with operation_aborted.            *)
HandleAborted == ~ssl.open /\ (HandleEnd \/ HandleHandshake)

------------------------------------------------------------------------------
(* The application.                                                         *)

(* Socket:write does not wait for the handshake.                            *)
Write ==
    /\ ~crashed /\ sock.writable /\ hist.chunks < MaxChunks
    /\ Apply(_write(World, hist.chunks + 1))
    /\ hist' = [hist EXCEPT !.chunks = @ + 1,
                            !.early = @ \/ sock.drainOnSecure]

Finish ==
    /\ ~crashed /\ sock.writable
    /\ Apply(finish(World))
    /\ UNCHANGED hist

AppDestroys ==
    /\ ~crashed /\ ~sock.destroyed
    /\ Apply(Destroy(World)) \/ (~sock.destroySoon /\ Apply(DestroySoon(World)))
    /\ UNCHANGED hist

Next == HandleHandshake \/ HandleWrite \/ HandleData \/ HandleEnd
        \/ Write \/ Finish \/ AppDestroys

(* A write under way ends, and so does every operation of a closed socket;  *)
(* nothing is assumed of the peer, nor of the application.                  *)
Spec == Init /\ [][Next]_vars
        /\ WF_vars(HandleWrite) /\ WF_vars(HandleAborted)

------------------------------------------------------------------------------
(* The connection is shut down behind the data: when HandleWrite does it,   *)
(* nothing is being written or queued any more, and nothing is left from    *)
(* before the connection, unless the application has written before         *)
(* "secure" while such data was waiting.                                    *)
ShutdownBehindData ==
    ssl.shutdown /\ ~hist.early /\ ~sock.destroyed =>
        ssl.writing = None /\ sock._writeQueue = <<>> /\ sock._connectQueue = <<>>

(* A write under way is not cut off by the program's own close, whichever   *)
(* of Close, HandleWrite and HandleReadSome makes it (m_close_pending).     *)
NothingCutOff == ssl.writing # None => ssl.open

(* A destroyed socket gives up the connection, unless a read is under way:  *)
(* the delayed close waits for that as well, and so for the peer.           *)
ClosedUnlessReading ==
    sock.destroyed ~> ~ssl.open \/ ssl.m_pending_reads > 0 \/ crashed
=============================================================================
