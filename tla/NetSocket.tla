------------------------------ MODULE NetSocket ------------------------------
(***************************************************************************)
(* net.Socket (src/lib/luanode/net.lua) over the C++ socket (RawSocket).    *)
(*                                                                          *)
(* The Lua object is the record `sock`; `raw` holds the C++ sockets it has  *)
(* used, one per connection: an object may connect again after it has been  *)
(* destroyed, while operations of its former handle are still under way.    *)
(* `ticks` are the events its code has handed to process.nextTick.          *)
(*                                                                          *)
(* A handler runs alone, but the listeners it calls may use the socket      *)
(* before the handler goes on.  `frame` names the handler that is waiting   *)
(* for its listeners; the application acts in any frame (it is also called  *)
(* from timers and other sockets), the event loop only when frame is Idle.  *)
(* Chunks of data are numbered in the order of the write calls.             *)
(***************************************************************************)
EXTENDS Integers, Sequences, SequencesExt

CONSTANTS
    MaxChunks,  \* bound: chunks the application writes
    MaxInput,   \* bound: reads that are answered with data
    MaxHandles, \* bound: connections made with the object
    AppOps,     \* the operations the application uses besides connect, write
    EarlyEof    \* the other end may end its side before it has seen ours end

ASSUME BoundsAssumption ==
    MaxChunks \in Nat /\ MaxInput \in Nat /\ MaxHandles \in Nat \ {0}
ASSUME AppOpsAssumption ==
    AppOps \subseteq {"lookup", "finish", "earlyFinish", "destroy",
                      "destroySoon", "pause", "halfOpen", "reset", "throw"}
ASSUME EarlyEofAssumption == EarlyEof \in BOOLEAN

Raw == INSTANCE RawSocket

VARIABLES sock, raw, ticks, frame, crashed, hist
vars == <<sock, raw, ticks, frame, crashed, hist>>

Handles == 1..MaxHandles
NoHandle == 0
Idle == [handler |-> "none", handle |-> NoHandle]

(* Socket:__init and initSocketHandle.                                      *)
NewSocket(halfOpen) ==
    [ _handle |-> NoHandle, _connecting |-> FALSE, lookup |-> FALSE,
      readable |-> FALSE, writable |-> FALSE, destroyed |-> FALSE,
      errorEmitted |-> FALSE, _flags |-> {}, _paused |-> FALSE,
      _connectQueue |-> <<>>, _writeQueue |-> <<>>, _pendingWriteReqs |-> 0,
      allowHalfOpen |-> halfOpen ]

(* What the properties refer to: connections made, chunks written in all    *)
(* and on this connection, reads answered, "close" events emitted since     *)
(* connect, whether another event followed one, and whether the connection  *)
(* was cut short: destroy called, data written after finish, a network      *)
(* failure, or the end of the other side found behind finish or destroySoon *)
(* with chunks in _writeQueue (onread then destroys the socket at once).    *)
NoHistory ==
    [ connects |-> 0, chunks |-> 0, accepted |-> <<>>, inputs |-> 0,
      closes |-> 0, lateEvent |-> FALSE, cut |-> FALSE ]

Init ==
    /\ \E halfOpen \in IF "halfOpen" \in AppOps THEN BOOLEAN ELSE {FALSE} :
            sock = NewSocket(halfOpen)
    /\ raw = [h \in Handles |-> Raw!NoSocket]
    /\ ticks = <<>>
    /\ frame = Idle
    /\ crashed = FALSE
    /\ hist = NoHistory

------------------------------------------------------------------------------
(* The methods of the socket, as functions on the state of the program.     *)

World == [s |-> sock, raw |-> raw, ticks |-> ticks, crashed |-> crashed]

Apply(w) ==
    /\ sock' = w.s /\ raw' = w.raw /\ ticks' = w.ticks
    /\ crashed' = w.crashed

Crash(w) == [w EXCEPT !.crashed = TRUE]

(* Socket:_write: to the handle, or to the queue when it is busy; an error  *)
(* is thrown when there is no handle.                                       *)
DoWrite(w, chunk) ==
    LET h == w.s._handle IN
    IF h = NoHandle THEN Crash(w)
    ELSE IF Raw!CanWrite(w.raw[h])
    THEN [w EXCEPT !.raw[h] = Raw!Write(@, chunk),
                   !.s._pendingWriteReqs = @ + 1]
    ELSE [w EXCEPT !.s._writeQueue = Append(@, chunk)]

(* The handle is busy after the first chunk: the others are queued.         *)
drainConnectQueue(w) ==
    LET q == w.s._connectQueue
        first == DoWrite(w, Head(q))
    IN IF q = <<>> THEN w
       ELSE [first EXCEPT !.s._connectQueue = <<>>,
                          !.s._writeQueue = @ \o Tail(q)]

(* Mutation: an object already destroyed is destroyed again.                *)
DestroyTwice(w, err) ==
    [w EXCEPT !.s = [@ EXCEPT !._connecting = FALSE, !._connectQueue = <<>>,
                      !.readable = FALSE, !.writable = FALSE,
                      !._handle = NoHandle, !.destroyed = TRUE],
              !.raw = [h \in Handles |-> IF h = w.s._handle
                       THEN [Raw!Close(@[h]) EXCEPT !.readCb = FALSE]
                       ELSE @[h]],
              !.ticks = Append(@, "close")]

(* Mutation: _destroy leaves read_callback in place.                        *)
DestroyKeepsCallback(w, err) ==
    IF w.s.destroyed THEN w ELSE
    [w EXCEPT !.s = [@ EXCEPT !._connecting = FALSE, !._connectQueue = <<>>,
                      !.readable = FALSE, !.writable = FALSE,
                      !._handle = NoHandle, !.destroyed = TRUE],
              !.raw = [h \in Handles |-> IF h = w.s._handle
                                         THEN Raw!Close(@[h]) ELSE @[h]],
              !.ticks = Append(@, "close")]

(* Mutation: "close" is not deferred behind the error it follows.           *)
DestroyForgetsClose(w, err) ==
    IF w.s.destroyed THEN w ELSE
    [w EXCEPT !.s = [@ EXCEPT !._connecting = FALSE, !._connectQueue = <<>>,
                      !.readable = FALSE, !.writable = FALSE,
                      !._handle = NoHandle, !.destroyed = TRUE],
              !.raw = [h \in Handles |-> IF h = w.s._handle
                       THEN [Raw!Close(@[h]) EXCEPT !.readCb = FALSE]
                       ELSE @[h]],
              !.ticks = IF err THEN Append(@, "error") ELSE Append(@, "close")]

(* Socket:_destroy.  "error" (once) and "close" are left to nextTick.       *)
DoDestroy(w, err) ==
    LET tick == IF err /\ ~w.s.errorEmitted THEN <<"error">> ELSE <<>>
        h == w.s._handle
    IN IF w.s.destroyed
       THEN [w EXCEPT !.s.errorEmitted = @ \/ err, !.ticks = @ \o tick]
       ELSE [w EXCEPT
              !.s = [@ EXCEPT !._connecting = FALSE, !._connectQueue = <<>>,
                      !.readable = FALSE, !.writable = FALSE,
                      !._handle = NoHandle, !.destroyed = TRUE,
                      !.errorEmitted = w.s.errorEmitted \/ err],
              !.raw = [i \in Handles |-> IF i = h
                       THEN [Raw!Close(@[i]) EXCEPT !.readCb = FALSE]
                       ELSE @[i]],
              !.ticks = @ \o tick \o <<"close">>]

(* Mutation: the pending writes are not waited for.                         *)
DestroySoonAtOnce(w) ==
    DoDestroy([w EXCEPT !.s.writable = FALSE,
                        !.s._flags = @ \cup {"DESTROY_SOON"}], FALSE)

DoDestroySoon(w) ==
    LET flagged == [w EXCEPT !.s.writable = FALSE,
                             !.s._flags = @ \cup {"DESTROY_SOON"}]
    IN IF w.s._pendingWriteReqs = 0 THEN DoDestroy(flagged, FALSE)
                                    ELSE flagged

(* Socket:finish once the socket is connected: wait for the writes and      *)
(* destroy if the other end is done, else shut down the sending side.       *)
FinishConnected(w) ==
    LET h == w.s._handle
        ended == [w EXCEPT !.s.writable = FALSE]
        flagged == [ended EXCEPT !.s._flags = @ \cup {"SHUTDOWN"}]
    IN CASE ~w.s.writable -> w
         [] w.s.writable /\ ~w.s.readable -> DoDestroySoon(ended)
         [] w.s.writable /\ w.s.readable ->
              IF Raw!ShutdownFails(w.raw[h]) THEN DoDestroy(flagged, TRUE)
              ELSE [flagged EXCEPT !.raw[h] =
                      [Raw!Shutdown(@) EXCEPT !.shutdownCb = TRUE]]

DoFinish(w) ==
    IF w.s._connecting /\ "SHUTDOWN_QUEUED" \notin w.s._flags
    THEN [w EXCEPT !.s.writable = FALSE,
                   !.s._flags = @ \cup {"SHUTDOWN_QUEUED"}]
    ELSE FinishConnected(w)

(* The read of Socket:resume and onread, guarded against double reads.      *)
StartRead(w) ==
    LET h == w.s._handle IN
    IF w.raw[h].reading THEN w ELSE [w EXCEPT !.raw[h] = Raw!Read(@)]

DoResume(w) ==
    LET r == [w EXCEPT !.s._paused = FALSE]
    IN IF w.s._handle # NoHandle /\ ~w.s._connecting THEN StartRead(r) ELSE r

(* The shutdown_callback that finish sets, with its two assertions.         *)
ShutdownCallback(w, h) ==
    IF ~w.raw[h].shutdownCb THEN w
    ELSE IF "SHUTDOWN" \notin w.s._flags \/ w.s.writable THEN Crash(w)
    ELSE IF ~w.s.destroyed /\ ("GOT_EOF" \in w.s._flags \/ ~w.s.readable)
    THEN DoDestroy(w, FALSE)
    ELSE w

(* HandleWrite after the Lua callback returned.                             *)
HandleWriteEnds(w, h) ==
    LET shut == IF Raw!ShutdownDue(w.raw[h])
                THEN ShutdownCallback([w EXCEPT !.raw[h].fin = TRUE], h)
                ELSE w
    IN [shut EXCEPT !.raw[h] = Raw!CallCloseCallback(@)]

------------------------------------------------------------------------------
(* The application.                                                         *)

Listens(handler, h) == frame' = [handler |-> handler, handle |-> h]
Emitted == hist' = [hist EXCEPT !.lateEvent = @ \/ hist.closes > 0]
AppActs == ~crashed /\ UNCHANGED frame

(* local connect: start connecting the handle just created.                 *)
ConnectHandle(w, h) ==
    [w EXCEPT !.s = [@ EXCEPT !._handle = h, !._flags = {},
                      !._pendingWriteReqs = 0, !.destroyed = FALSE,
                      !.errorEmitted = FALSE, !.lookup = FALSE],
              !.raw[h] = Raw!Connect(Raw!NewRawSocket)]

(* Socket:connect, on a new object or one that was destroyed: to an address *)
(* (the handle is created at once) or to a name (after the lookup).         *)
Connect(byName) ==
    /\ AppActs
    /\ sock._handle = NoHandle /\ ~sock._connecting /\ ~sock.lookup
    /\ hist.connects < MaxHandles
    /\ byName => "lookup" \in AppOps
    /\ hist' = [hist EXCEPT !.connects = @ + 1, !.accepted = <<>>,
                            !.closes = 0]
    /\ LET w == [World EXCEPT !.s._connecting = TRUE, !.s.writable = TRUE,
                              !.s.lookup = byName]
       IN Apply(IF byName THEN w ELSE ConnectHandle(w, hist.connects + 1))

(* Socket:write.                                                            *)
Write ==
    /\ AppActs
    /\ sock._connecting \/ sock._handle # NoHandle
    /\ hist.chunks < MaxChunks
    /\ hist' = [hist EXCEPT !.chunks = @ + 1,
                            !.accepted = Append(@, hist.chunks + 1),
                            !.cut = @ \/ ~sock.writable]
    /\ LET chunk == hist.chunks + 1
       IN Apply(IF sock._connecting
                THEN [World EXCEPT !.s._connectQueue = Append(@, chunk)]
                ELSE DoWrite(World, chunk))

Finish ==
    /\ AppActs
    /\ "finish" \in AppOps
    /\ sock._connecting => "earlyFinish" \in AppOps
    /\ sock.writable
    /\ Apply(DoFinish(World))
    /\ UNCHANGED hist

Destroy ==
    /\ AppActs
    /\ "destroy" \in AppOps
    /\ sock._connecting \/ sock._handle # NoHandle
    /\ Apply(DoDestroy(World, FALSE))
    /\ hist' = [hist EXCEPT !.cut = TRUE]

(* destroy() called once more, with an error.                               *)
DestroyAgain ==
    /\ AppActs
    /\ "destroy" \in AppOps
    /\ sock.destroyed /\ ~sock.errorEmitted
    /\ Apply(DoDestroy(World, TRUE))
    /\ UNCHANGED hist

DestroySoon ==
    /\ AppActs
    /\ "destroySoon" \in AppOps
    /\ sock._handle # NoHandle /\ "DESTROY_SOON" \notin sock._flags
    /\ Apply(DoDestroySoon(World))
    /\ hist' = [hist EXCEPT !.cut = @ \/ sock._connecting]

Pause ==
    /\ AppActs
    /\ "pause" \in AppOps
    /\ ~sock._paused
    /\ Apply([World EXCEPT !.s._paused = TRUE])
    /\ UNCHANGED hist

Resume ==
    /\ AppActs
    /\ "pause" \in AppOps
    /\ Apply(DoResume(World))
    /\ UNCHANGED hist

------------------------------------------------------------------------------
(* Handlers called by the event loop.                                       *)

LoopActs == ~crashed /\ frame = Idle

(* The callback of dns.lookup: nothing if the socket was destroyed in the   *)
(* meantime, an error left to nextTick, or the connection to the address.   *)
LookupDone ==
    /\ LoopActs
    /\ sock.lookup
    /\ LET w == [World EXCEPT !.s.lookup = FALSE]
       IN IF ~sock._connecting
          THEN Apply(w) /\ UNCHANGED hist
          ELSE \/ /\ Apply([w EXCEPT !.ticks = Append(@, "lookupError")])
                  /\ hist' = [hist EXCEPT !.cut = TRUE]
               \/ Apply(ConnectHandle(w, hist.connects)) /\ UNCHANGED hist
    /\ UNCHANGED frame

(* HandleConnect and connect_callback.                                      *)
ConnectDone(h) ==
    /\ LoopActs
    /\ raw[h].connectOp \in {"ok", "error"}
    /\ LET w == [World EXCEPT !.raw[h].connectOp = "none"]
           up == drainConnectQueue([w EXCEPT !.s._connecting = FALSE,
                                             !.s.readable = TRUE])
       IN \/ /\ sock.destroyed
             /\ Apply(w)
             /\ UNCHANGED <<frame, hist>>
          \/ /\ ~sock.destroyed /\ h # sock._handle
             /\ Apply(Crash(w))
             /\ UNCHANGED <<frame, hist>>
          \/ /\ ~sock.destroyed /\ h = sock._handle
             /\ raw[h].connectOp = "ok"
             /\ Apply(up)
             /\ Listens("connect", h)
             /\ Emitted
          \/ /\ ~sock.destroyed /\ h = sock._handle
             /\ raw[h].connectOp = "error"
             /\ Apply(DoDestroy(w, TRUE))
             /\ hist' = [hist EXCEPT !.cut = TRUE]
             /\ UNCHANGED frame

(* connect_callback after the "connect" listeners: a finish made while      *)
(* connecting takes place now; otherwise the first read is issued.          *)
ConnectListened ==
    /\ ~crashed /\ frame.handler = "connect"
    /\ frame' = Idle
    /\ LET queued == [World EXCEPT !.s._flags = @ \ {"SHUTDOWN_QUEUED"},
                                   !.s.writable = TRUE]
       IN Apply(IF "SHUTDOWN_QUEUED" \in sock._flags THEN DoFinish(queued)
                ELSE IF sock.readable /\ ~sock._paused THEN DoResume(World)
                ELSE World)
    /\ UNCHANGED hist

(* A listener of "connect" throws: connect_callback destroys the socket.    *)
ConnectThrows ==
    /\ ~crashed /\ frame.handler = "connect"
    /\ "throw" \in AppOps
    /\ frame' = Idle
    /\ Apply(DoDestroy(World, TRUE))
    /\ hist' = [hist EXCEPT !.cut = TRUE]

(* HandleReadSome and onread, with data.                                    *)
ReadData(h) ==
    /\ LoopActs
    /\ raw[h].readOp = "ok"
    /\ LET w == [World EXCEPT !.raw[h].readOp = "none"]
       IN IF ~raw[h].readCb
          THEN Apply(w) /\ UNCHANGED <<frame, hist>>
          ELSE /\ Apply([w EXCEPT !.raw[h].reading = FALSE])
               /\ Listens("data", h)
               /\ Emitted

DataListened ==
    /\ ~crashed /\ frame.handler = "data"
    /\ frame' = Idle
    /\ Apply(IF sock.readable THEN StartRead(World) ELSE World)
    /\ UNCHANGED hist

(* A listener of "data" throws: onread is abandoned (the error goes to      *)
(* FatalError, see EventLoop) and issues no other read.                     *)
DataThrows ==
    /\ ~crashed /\ frame.handler = "data"
    /\ "throw" \in AppOps
    /\ frame' = Idle
    /\ UNCHANGED <<sock, raw, ticks, crashed, hist>>

(* HandleReadSome and onread, at the end of the stream; onread takes any    *)
(* error for it.  It destroys a socket that is not writable any more, and   *)
(* what finish was waiting for with it.                                     *)
ReadEnd(h) ==
    /\ LoopActs
    /\ raw[h].readOp \in {"eof", "error"}
    /\ LET w == [World EXCEPT !.raw[h].readOp = "none"]
           eof == [w EXCEPT !.s.readable = FALSE,
                            !.s._flags = @ \cup {"GOT_EOF"}]
           destroyed == IF ~sock.writable THEN DoDestroy(eof, FALSE) ELSE eof
           finished == IF ~sock.allowHalfOpen THEN DoFinish(destroyed)
                       ELSE destroyed
       IN IF ~raw[h].readCb
          THEN Apply(w) /\ UNCHANGED hist
          ELSE IF h # sock._handle \/ "GOT_EOF" \in sock._flags
          THEN Apply(Crash(w)) /\ UNCHANGED hist
          ELSE /\ Apply(finished)
               /\ hist' = [hist EXCEPT
                              !.lateEvent = @ \/ hist.closes > 0,
                              !.cut = @ \/ (~sock.writable
                                        /\ sock._writeQueue # <<>>)]
    /\ UNCHANGED frame

(* Mutation: afterWrite takes the newest chunk.                             *)
NextWriteNewest(w) ==
    IF w.s._writeQueue = <<>> THEN w
    ELSE DoWrite([w EXCEPT !.s._writeQueue = Front(@)], Last(w.s._writeQueue))

(* Mutation: afterWrite does not go on with the queue.                      *)
NextWriteForgotten(w) == w

(* afterWrite: one chunk is taken from the queue and written.               *)
NextWrite(w) ==
    IF w.s._writeQueue = <<>> THEN w
    ELSE DoWrite([w EXCEPT !.s._writeQueue = Tail(@)], Head(w.s._writeQueue))

(* HandleWrite and afterWrite.                                              *)
WriteDone(h) ==
    /\ LoopActs
    /\ raw[h].writeOp \in {"ok", "error"}
    /\ LET w == [World EXCEPT !.raw[h] = Raw!WriteHandled(@)]
           next == [NextWrite(w) EXCEPT !.s._pendingWriteReqs = @ - 1]
       IN \/ /\ sock.destroyed
             /\ Apply(HandleWriteEnds(w, h))
             /\ UNCHANGED <<frame, hist>>
          \/ /\ ~sock.destroyed /\ raw[h].writeOp = "error"
             /\ Apply(HandleWriteEnds(DoDestroy(w, TRUE), h))
             /\ hist' = [hist EXCEPT !.cut = TRUE]
             /\ UNCHANGED frame
          \/ /\ ~sock.destroyed /\ raw[h].writeOp = "ok"
             /\ IF next.s._pendingWriteReqs = 0
                THEN Apply(next) /\ Listens("drain", h) /\ Emitted
                ELSE /\ Apply(HandleWriteEnds(next, h))
                     /\ UNCHANGED <<frame, hist>>

(* afterWrite after the "drain" listeners.                                  *)
DrainListened ==
    /\ ~crashed /\ frame.handler = "drain"
    /\ frame' = Idle
    /\ LET soon == sock._pendingWriteReqs = 0 /\ "DESTROY_SOON" \in sock._flags
           w == IF soon THEN DoDestroy(World, FALSE) ELSE World
       IN Apply(HandleWriteEnds(w, frame.handle))
    /\ UNCHANGED hist

(* A listener of "drain" throws: afterWrite is abandoned, HandleWrite goes  *)
(* on, but the error message that is left on the Lua stack keeps            *)
(* CallShutdownCallback from finding shutdown_callback.                     *)
DrainThrows ==
    /\ ~crashed /\ frame.handler = "drain"
    /\ "throw" \in AppOps
    /\ frame' = Idle
    /\ LET h == frame.handle
           shut == [World EXCEPT !.raw[h].fin = @ \/ Raw!ShutdownDue(raw[h])]
       IN Apply([shut EXCEPT !.raw[h] = Raw!CallCloseCallback(@)])
    /\ UNCHANGED hist

(* HandleShutdownCallback, posted by Shutdown.                              *)
ShutdownPosted(h) ==
    /\ LoopActs
    /\ raw[h].posted > 0
    /\ Apply(ShutdownCallback([World EXCEPT !.raw[h].posted = @ - 1], h))
    /\ UNCHANGED <<frame, hist>>

(* A function handed to nextTick by _destroy or by the lookup.              *)
TickRuns ==
    /\ LoopActs
    /\ ticks # <<>>
    /\ LET w == [World EXCEPT !.ticks = Tail(@)]
       IN Apply(IF Head(ticks) = "lookupError" THEN DoDestroy(w, FALSE)
                ELSE w)
    /\ hist' = IF Head(ticks) = "close"
               THEN [hist EXCEPT !.closes = @ + 1] ELSE hist
    /\ UNCHANGED frame

------------------------------------------------------------------------------
(* The kernel and the other end of the connection.                          *)

KernelActs == ~crashed /\ UNCHANGED <<sock, ticks, frame, crashed>>

ConnectCompletes(h) ==
    /\ KernelActs
    /\ \E s \in Raw!ConnectResults(raw[h]) : raw' = [raw EXCEPT ![h] = s]
    /\ UNCHANGED hist

WriteCompletes(h) ==
    /\ KernelActs
    /\ raw[h].writeOp = "pending" /\ raw[h].connectOp # "pending"
    /\ raw' = [raw EXCEPT ![h] = Raw!WriteResult(@)]
    /\ UNCHANGED hist

DataArrives(h) ==
    /\ KernelActs
    /\ raw[h].readOp = "pending" /\ raw[h].peer = "open"
    /\ hist.inputs < MaxInput
    /\ raw' = [raw EXCEPT ![h].readOp = "ok"]
    /\ hist' = [hist EXCEPT !.inputs = @ + 1]

StreamEnds(h) ==
    /\ KernelActs
    /\ raw[h].readOp = "pending" /\ raw[h].peer # "open"
    /\ raw' = [raw EXCEPT ![h] = Raw!ReadEnds(@)]
    /\ UNCHANGED hist

PeerEnds(h) ==
    /\ KernelActs
    /\ raw[h].connected /\ raw[h].peer = "open"
    /\ EarlyEof \/ raw[h].fin
    /\ raw' = [raw EXCEPT ![h].peer = "ended"]
    /\ UNCHANGED hist

PeerResets(h) ==
    /\ KernelActs
    /\ "reset" \in AppOps
    /\ raw[h].connected /\ raw[h].peer # "reset"
    /\ raw' = [raw EXCEPT ![h].peer = "reset"]
    /\ hist' = [hist EXCEPT !.cut = TRUE]

------------------------------------------------------------------------------
Application ==
    \/ \E byName \in BOOLEAN : Connect(byName)
    \/ Write \/ Finish \/ Destroy \/ DestroyAgain \/ DestroySoon
    \/ Pause \/ Resume

Handler ==
    \/ LookupDone \/ TickRuns
    \/ ConnectListened \/ DataListened \/ DrainListened
    \/ ConnectThrows \/ DataThrows \/ DrainThrows
    \/ \E h \in Handles :
         ConnectDone(h) \/ ReadData(h) \/ ReadEnd(h) \/ WriteDone(h)
         \/ ShutdownPosted(h)

Kernel ==
    \E h \in Handles :
        ConnectCompletes(h) \/ WriteCompletes(h) \/ DataArrives(h)
        \/ StreamEnds(h) \/ PeerEnds(h) \/ PeerResets(h)

Next == Application \/ Handler \/ Kernel

(* The event loop calls the handlers that are due; the kernel completes     *)
(* what it was given; the other end ends its side when it has seen ours.    *)
Fairness ==
    /\ WF_vars(Handler)
    /\ \A h \in Handles :
          /\ WF_vars(ConnectCompletes(h)) /\ WF_vars(WriteCompletes(h))
          /\ WF_vars(StreamEnds(h)) /\ WF_vars(raw[h].fin /\ PeerEnds(h))

Spec == Init /\ [][Next]_vars /\ Fairness
------------------------------------------------------------------------------
(* The chunk the kernel has been given and has not taken yet.               *)
InFlight(h) ==
    IF raw[h].writeOp \in {"pending", "error"} THEN <<raw[h].writing>>
    ELSE <<>>

(* Only chunks written on this connection are sent on it, in order and from *)
(* the first one.                                                           *)
SentIsPrefix ==
    \A h \in Handles :
        h = hist.connects => IsPrefix(raw[h].sent, hist.accepted)

(* No chunk is lost, duplicated or reordered before the socket is           *)
(* destroyed: what the kernel took, the chunk under way, _writeQueue and    *)
(* _connectQueue are together the chunks written on this connection, in     *)
(* order.  Afterwards what was sent is a beginning of them.                 *)
WritesInOrder ==
    \A h \in Handles : h = hist.connects =>
        /\ ~sock.destroyed /\ h = sock._handle =>
             raw[h].sent \o InFlight(h) \o sock._writeQueue
               \o sock._connectQueue = hist.accepted
        /\ SentIsPrefix

(* A close or a shutdown that was delayed has a write under way that will   *)
(* carry it out (HandleWrite), so the socket cannot be left half closed.    *)
DelayedHasWriter ==
    \A h \in Handles :
        \/ raw[h].m_close_pending
        \/ raw[h].m_write_shutdown_pending /\ ~raw[h].fin
        => raw[h].writeOp # "none" \/ frame = [handler |-> "drain", handle |-> h]

(* What only the end of a write sets going has a write under way: a chunk   *)
(* in _writeQueue, which afterWrite alone takes out, and a delayed close or *)
(* shutdown.  The two counts of outstanding writes, Lua's and C++'s, agree  *)
(* when no handler is active.                                               *)
QueueHasWriter ==
    /\ ~sock.destroyed /\ sock._handle # NoHandle /\ frame = Idle =>
         /\ sock._pendingWriteReqs = raw[sock._handle].m_pending_writes
         /\ sock._writeQueue # <<>> => sock._pendingWriteReqs > 0
    /\ DelayedHasWriter

(* The assertions of onread, connect_callback and shutdown_callback hold,   *)
(* and _write is never reached without a handle: no handler throws.         *)
NoAssertFails == ~crashed

(* "close" is emitted once per connection and is the last event: "connect", *)
(* "data", "drain" and "end" never follow it.                               *)
CloseIsLast == hist.closes <= 1 /\ ~hist.lateEvent

(* Every chunk that was written has been sent when the descriptor is        *)
(* closed, also when the other side ends first, before or while data waits  *)
(* to be sent.  Only destroy, a failure, a write behind finish and, as      *)
(* onread has it, an end of the other side found behind finish or           *)
(* destroySoon with chunks still queued cut a connection short (hist.cut).  *)
NoDataLost ==
    hist.connects = 1 /\ sock.destroyed /\ ~raw[1].open /\ ~hist.cut
        => raw[1].sent = hist.accepted

(* A destroyed socket emits "close" (also when the application makes it     *)
(* connect again at once).                                                  *)
DestroyedCloses ==
    (sock.destroyed /\ ~sock._connecting) ~> (hist.closes > 0 \/ crashed)

(* A connected socket that the application finished is closed in the end,   *)
(* unless it waits for a read that nobody has issued (a listener paused it  *)
(* or threw, or it had been finished before it was connected): its data is  *)
(* flushed, the other end answers with its own end, and the descriptor is   *)
(* released.                                                                *)
NotReading == frame = Idle /\ sock.readable /\ raw[1].readOp = "none"
FinishCloses ==
    (hist.connects = 1 /\ "SHUTDOWN" \in sock._flags)
        ~> (hist.closes > 0 /\ ~raw[1].open) \/ NotReading \/ hist.connects > 1
==============================================================================
