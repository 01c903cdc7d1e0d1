------------------------------ MODULE HttpServer -----------------------------
(***************************************************************************)
(* One connection of an http.Server (connectionListener in                  *)
(* src/lib/luanode/http.lua) with the parser it feeds                       *)
(* (src/src/luanode_http_parser.cpp).                                       *)
(*                                                                          *)
(* The client pipelines the requests 1, 2, ...  What it sends is `input`, a *)
(* sequence of the things the parser reports; the socket hands it over in   *)
(* pieces, and `chunk` is what remains of the piece being parsed.  `frame`  *)
(* is the loop that is calling listeners: the application may use any       *)
(* response between two of its steps, the event loop only when it is Idle.  *)
(* A response is a sequence of parts: "100", "header", "body", "end".       *)
(***************************************************************************)
EXTENDS Integers, Sequences, SequencesExt

CONSTANTS
    Bodies,    \* the requests: for each, the number of pieces of its body
    Kinds,     \* for each, the kinds of request it may be
    AppOps,    \* what the application does besides writing and finishing
    MaxOps     \* bound: calls to write and setHeader, and to pause, which
               \* has nothing to do with those two and counts for two calls

ASSUME RequestsAssumption ==
    /\ Bodies \in Seq(Nat)
    /\ Kinds \in [DOMAIN Bodies -> SUBSET {"keepAlive", "close", "http10", "expect"}]
    /\ AppOps \subseteq {"pause", "throw", "destroy", "aborted",
                   "setHeader", "contentLength", "checkContinue"}
ASSUME BoundsAssumption == MaxOps \in Nat

Requests == DOMAIN Bodies
NoMessage == 0
Item(kind, i, n) == [kind |-> kind, req |-> i, n |-> n]
Request(i) == <<Item("headers", i, 0)>>
              \o [b \in 1..Bodies[i] |-> Item("body", i, b)]
              \o <<Item("complete", i, 0)>>
Garbage == Item("garbage", NoMessage, 0)
Frame(handler, i) == [handler |-> handler, req |-> i]
Idle == Frame("none", NoMessage)
CloseTick == Frame("close", NoMessage)

VARIABLES
    input, chunk, \* still to arrive; still to be parsed of what has arrived
    frame,        \* the loop whose listeners are running
    sock,         \* the net.Socket, with the fields http.lua adds to it
    outgoing, incoming,
    req, res,     \* the IncomingMessage and the ServerResponse of each request
    ticks,        \* what is left to process.nextTick
    wire,         \* the parts handed to the socket, in order
    crashed,      \* the error thrown into the application, if any
    ops           \* calls to write, setHeader and pause (twice) so far
vars == <<input, chunk, frame, sock, outgoing, incoming, req, res, ticks,
          wire, crashed, ops>>

(* IncomingMessage:__init; `seen` is what its listeners have been given,    *)
(* the pieces of the body by number, then End; `cutOff`: one of them threw  *)
(* while what was pending was emitted, and the rest has stayed pending.     *)
End == 0
NewRequest ==
    [_paused |-> FALSE, _pendings |-> <<>>, skipBody |-> FALSE, seen |-> <<>>,
     cutOff |-> FALSE]

(* ServerResponse:__init.  A response has no socket until it is assigned;   *)
(* `pieces` counts what the application has given it to send.               *)
NewResponse(kind) ==
    [header |-> "none", output |-> <<>>, connection |-> FALSE,
     contentLength |-> FALSE, pieces |-> 0,
     finished |-> FALSE, _last |-> FALSE, chunkedEncoding |-> FALSE,
     _expect_continue |-> kind = "expect", _sent100 |-> FALSE,
     shouldKeepAlive |-> kind \in {"keepAlive", "expect"},
     useChunked |-> kind # "http10"]
NoResponse == [header |-> "no response"]

Init ==
    /\ input = FoldLeft(LAMBDA s, i : s \o Request(i), <<>>,
                        [i \in Requests |-> i])
    /\ chunk = <<>> /\ frame = Idle
    /\ sock = [readable |-> TRUE, writable |-> TRUE, destroyed |-> FALSE,
               destroySoon |-> FALSE, pendingWrites |-> 0, closed |-> FALSE,
               _httpMessage |-> NoMessage, _hangupClose |-> FALSE]
    /\ outgoing = <<>> /\ incoming = <<>>
    /\ req = [i \in Requests |-> NewRequest]
    /\ res = [i \in Requests |-> NoResponse]
    /\ ticks = <<>> /\ wire = <<>> /\ crashed = "no"
    /\ ops = 0

------------------------------------------------------------------------------
(* The methods, as functions on the state of the connection.                *)

World == [sock |-> sock, outgoing |-> outgoing, incoming |-> incoming,
          res |-> res, ticks |-> ticks, wire |-> wire, crashed |-> crashed]
Apply(w) ==
    /\ sock' = w.sock /\ outgoing' = w.outgoing /\ incoming' = w.incoming
    /\ res' = w.res /\ ticks' = w.ticks /\ wire' = w.wire
    /\ crashed' = w.crashed

(* Socket:_destroy.                                                         *)
Destroy(w) ==
    IF w.sock.destroyed THEN w
    ELSE [w EXCEPT !.sock = [@ EXCEPT !.readable = FALSE, !.writable = FALSE,
                                      !.destroyed = TRUE],
                   !.ticks = Append(@, CloseTick)]

(* Socket:destroySoon; Socket:finish does the same once EOF has been read.  *)
DestroySoon(w) ==
    LET s == [w EXCEPT !.sock.writable = FALSE, !.sock.destroySoon = TRUE]
    IN IF w.sock.pendingWrites = 0 THEN Destroy(s) ELSE s

(* Socket:write.  It returns TRUE when no other write is under way.         *)
SocketWrite(w, i, parts) ==
    [w EXCEPT !.wire = @ \o [k \in DOMAIN parts |-> <<i, parts[k]>>],
              !.sock.pendingWrites = @ + 1]

(* The branch of _writeRaw for a destroyed socket: "close" is emitted once  *)
(* more by a timer, unless the socket's own "close" comes first.            *)
HangUp(w) ==
    IF w.sock._hangupClose THEN w
    ELSE [w EXCEPT !.sock._hangupClose = TRUE,
                   !.ticks = IF w.sock.closed THEN Append(@, CloseTick) ELSE @]

(* OutgoingMessage:_writeRaw: to the socket if it is this response's turn,  *)
(* otherwise to its buffer.                                                 *)
_writeRaw(w, i, parts) ==
    LET r == w.res[i] IN
    IF r.connection /\ w.sock._httpMessage = i /\ w.sock.writable
    THEN SocketWrite([w EXCEPT !.res[i].output = <<>>], i, r.output \o parts)
    ELSE IF r.connection /\ w.sock.destroyed THEN HangUp(w)
    ELSE [w EXCEPT !.res[i].output = @ \o parts]

(* OutgoingMessage:_send: the header goes with the first piece of data.     *)
_send(w, i, parts) ==
    LET all == IF w.res[i].header = "sent" THEN parts
               ELSE <<"header">> \o parts
    IN IF all = <<>> THEN w
       ELSE _writeRaw([w EXCEPT !.res[i].header = "sent"], i, all)

(* writeHead and _storeHeader: how the client finds the end of the body, by *)
(* its declared length, by the last chunk or by the end of the connection.  *)
_storeHeader(w, i) ==
    LET r == w.res[i]
        alive == r.shouldKeepAlive /\ (r._expect_continue => r._sent100)
    IN IF r.header # "none" THEN w
       ELSE [w EXCEPT !.res[i] =
               [@ EXCEPT !.header = "stored", !.shouldKeepAlive = alive,
                         !.chunkedEncoding = r.useChunked /\ ~r.contentLength,
                         !._last = ~(alive /\ (r.contentLength \/ r.useChunked))]]

Crash(w, why) == [w EXCEPT !.crashed = why]

RECURSIVE onFinish(_, _)

(* ServerResponse:assignSocket and OutgoingMessage:_flush.  The last thing  *)
(* _flush does when the socket took the data at once is to emit "drain" on  *)
(* `message`, which is nil: the error leaves the application's call of      *)
(* finish, on the previous response, with everything done.                  *)
assignSocket(w, i) ==
    LET a == [w EXCEPT !.sock._httpMessage = i, !.res[i].connection = TRUE]
        f == SocketWrite([a EXCEPT !.res[i].output = <<>>], i, w.res[i].output)
        empty == w.res[i].output = <<>>
    IN IF w.sock._httpMessage # NoMessage THEN Crash(w, "assert")
       ELSE IF ~empty /\ ~w.sock.writable THEN a
       ELSE IF w.res[i].finished THEN onFinish(IF empty THEN a ELSE f, i)
       ELSE IF empty THEN a ELSE f

(* Mutation: the response queued last is served next.                       *)
onFinishLastQueued(w, i) ==
    LET d == [w EXCEPT !.incoming = IF @ = <<>> THEN @ ELSE Tail(@),
                       !.sock._httpMessage = NoMessage,
                       !.res[i].connection = FALSE]
        out == w.outgoing
    IN IF w.incoming # <<>> /\ Head(w.incoming) # i THEN Crash(w, "assert")
       ELSE IF w.res[i]._last THEN DestroySoon(d)
       ELSE IF out = <<>> THEN d
       ELSE assignSocket([d EXCEPT !.outgoing = Front(out)], Last(out))

(* Mutation: a response that was the last to be queued is not started.      *)
onFinishForgetsQueue(w, i) ==
    LET d == [w EXCEPT !.incoming = IF @ = <<>> THEN @ ELSE Tail(@),
                       !.sock._httpMessage = NoMessage,
                       !.res[i].connection = FALSE]
    IN IF w.res[i]._last THEN DestroySoon(d) ELSE d

(* The "finish" listener of connectionListener, with detachSocket.          *)
onFinish(w, i) ==
    LET d == [w EXCEPT !.incoming = IF @ = <<>> THEN @ ELSE Tail(@),
                       !.sock._httpMessage = NoMessage,
                       !.res[i].connection = FALSE]
    IN IF w.incoming # <<>> /\ Head(w.incoming) # i THEN Crash(w, "assert")
       ELSE IF w.sock._httpMessage # i THEN Crash(w, "assert")
       ELSE IF w.res[i]._last THEN DestroySoon(d)
       ELSE IF w.outgoing = <<>> THEN d
       ELSE assignSocket([d EXCEPT !.outgoing = Tail(@)], Head(w.outgoing))

(* OutgoingMessage:finish, with the hot path that writes everything at once.*)
finish(w, i, data) ==
    LET h == _storeHeader(w, i)
        r == h.res[i]
        body == IF data THEN <<"body">> ELSE <<>>
        end == IF r.chunkedEncoding THEN <<"end">> ELSE <<>>
        hot == /\ data /\ r.header = "stored" /\ r.output = <<>>
               /\ r.connection /\ w.sock.writable /\ w.sock._httpMessage = i
        sent == IF hot
                THEN SocketWrite([h EXCEPT !.res[i].header = "sent"], i,
                                 <<"header">> \o body \o end)
                ELSE _send(IF data THEN _send(h, i, body) ELSE h, i, end)
        f == [sent EXCEPT !.res[i].finished = TRUE,
                          !.res[i].pieces = @ + Len(body)]
    IN IF w.res[i].finished THEN w
       ELSE IF f.res[i].output = <<>> /\ f.sock._httpMessage = i
       THEN onFinish(f, i) ELSE f

(* ServerResponse:writeContinue.                                           *)
writeContinue(w, i) ==
    _writeRaw([w EXCEPT !.res[i]._sent100 = TRUE], i, <<"100">>)

(* parser.onIncoming: the response is served at once or waits for its turn; *)
(* a "checkContinue" listener answers the expectation of a client itself.   *)
onIncoming(w, i, kind) ==
    LET c == [w EXCEPT !.incoming = Append(@, i),
                       !.res[i] = NewResponse(kind)]
        a == IF w.sock._httpMessage # NoMessage
             THEN [c EXCEPT !.outgoing = Append(@, i)]
             ELSE assignSocket(c, i)
    IN IF kind = "expect" /\ "checkContinue" \notin AppOps
       THEN writeContinue(a, i) ELSE a

(* _emitData and _emitEnd.                                                  *)
Emit(r, n) == [r EXCEPT !.seen = Append(@, n)]

(* Mutation: only the pause is looked at.                                   *)
DeliverUnlessPaused(r, n) ==
    IF r._paused THEN [r EXCEPT !._pendings = Append(@, n)] ELSE Emit(r, n)

(* parserOnBody and parserOnMessageComplete: behind what is pending.        *)
Deliver(r, n) ==
    IF r._paused \/ r._pendings # <<>>
    THEN [r EXCEPT !._pendings = Append(@, n)] ELSE Emit(r, n)

------------------------------------------------------------------------------
(* The parser: socket.ondata calls Parser::Execute, which calls the others. *)

(* Headers that end the message are not in another piece than its end.      *)
Splits(k) == k < Len(input) /\ input[k].kind = "headers"
                            /\ input[k + 1].kind = "complete"

Execute ==
    /\ crashed = "no" /\ frame = Idle /\ sock.readable
    /\ \E k \in DOMAIN input :
          /\ ~Splits(k)
          /\ chunk' = SubSeq(input, 1, k)
          /\ input' = SubSeq(input, k + 1, Len(input))
    /\ frame' = Frame("parse", NoMessage)
    /\ UNCHANGED <<sock, outgoing, incoming, req, res, ticks, wire, crashed, ops>>

Parsing(kind) ==
    /\ crashed = "no" /\ frame.handler = "parse"
    /\ chunk # <<>> /\ Head(chunk).kind = kind

(* After a message without keep-alive the parser accepts nothing more.      *)
UpTo(s, i) ==
    LET own == SelectSeq(s, LAMBDA item : item.req = i)
    IN IF own = s THEN s ELSE Append(own, Garbage)

on_headers_complete ==
    /\ Parsing("headers")
    /\ \E kind \in Kinds[Head(chunk).req] :
          LET i == Head(chunk).req
              last == kind \in {"close", "http10"}
          IN /\ Apply(onIncoming(World, i, kind))
             /\ chunk' = IF last THEN UpTo(Tail(chunk), i) ELSE Tail(chunk)
             /\ input' = IF last THEN UpTo(input, i) ELSE input
             /\ frame' = Frame("parse", i)
    /\ UNCHANGED <<req, ops>>

(* The error is handled by CLuaVM::call, and what it leaves on the stack is *)
(* taken for the listener's answer: TRUE, the message has no body.          *)
RequestListenerThrows ==
    /\ "throw" \in AppOps /\ crashed = "no"
    /\ frame.handler = "parse" /\ frame.req # NoMessage
    /\ LET i == frame.req
           Rest(s) == IF s = <<>> THEN s ELSE <<Garbage>>
       IN IF Bodies[i] = 0 THEN UNCHANGED <<chunk, input, req>>
          ELSE /\ chunk' = <<Item("complete", i, 0)>> \o Rest(chunk)
               /\ input' = Rest(input)
               /\ req' = [req EXCEPT ![i].skipBody = TRUE]
    /\ frame' = Frame("parse", NoMessage)
    /\ UNCHANGED <<sock, outgoing, incoming, res, ticks, wire, crashed, ops>>

on_body ==
    /\ Parsing("body")
    /\ req' = [req EXCEPT ![Head(chunk).req] = Deliver(@, Head(chunk).n)]
    /\ chunk' = Tail(chunk)
    /\ frame' = Frame("parse", NoMessage)
    /\ UNCHANGED <<input, sock, outgoing, incoming, res, ticks, wire, crashed, ops>>

on_message_complete ==
    /\ Parsing("complete")
    /\ req' = [req EXCEPT ![Head(chunk).req] = Deliver(@, End)]
    /\ chunk' = Tail(chunk)
    /\ frame' = Frame("parse", NoMessage)
    /\ UNCHANGED <<input, sock, outgoing, incoming, res, ticks, wire, crashed, ops>>

(* Execute answers nil and socket.ondata destroys the socket.               *)
ParseError ==
    /\ Parsing("garbage")
    /\ Apply(Destroy(World))
    /\ chunk' = <<>> /\ frame' = Idle
    /\ UNCHANGED <<input, req, ops>>

ExecuteReturns ==
    /\ frame.handler = "parse" /\ chunk = <<>> /\ crashed = "no"
    /\ frame' = Idle
    /\ UNCHANGED <<input, chunk, sock, outgoing, incoming, req, res, ticks,
                   wire, crashed, ops>>

------------------------------------------------------------------------------
(* The events of the socket.                                                *)

InLoop(handler) == crashed = "no" /\ frame.handler = handler

(* onread at the end of the input and socket.onend; Parser::Finish fails    *)
(* inside a message.                                                        *)
OnEnd ==
    /\ InLoop("none") /\ sock.readable
    /\ LET e == [World EXCEPT !.sock.readable = FALSE]
           d == IF sock.writable THEN e ELSE Destroy(e)
           inside == input # <<>> /\ Head(input).kind \in {"body", "complete"}
       IN /\ Apply(IF inside THEN Destroy(d) ELSE d)
          /\ frame' = IF inside THEN Idle ELSE Frame("end", NoMessage)
    /\ input' = <<>>
    /\ UNCHANGED <<chunk, req, ops>>

(* A listener may throw, and end the loop that called it.                   *)
Throwing == IF "throw" \in AppOps THEN BOOLEAN ELSE {FALSE}

(* abortIncoming: "aborted" and "close" for one request after another.      *)
AbortNext ==
    /\ crashed = "no" /\ frame.handler \in {"end", "close"} /\ incoming # <<>>
    /\ incoming' = Tail(incoming)
    /\ \E throws \in Throwing :
          frame' = IF throws THEN Idle ELSE [frame EXCEPT !.req = Head(incoming)]
    /\ UNCHANGED <<input, chunk, sock, outgoing, req, res, ticks, wire, crashed, ops>>

(* The rest of socket.onend: Socket:finish, with EOF read.                  *)
EndAborted ==
    /\ InLoop("end") /\ incoming = <<>>
    /\ Apply(IF sock.writable THEN DestroySoon(World) ELSE World)
    /\ frame' = Idle
    /\ UNCHANGED <<input, chunk, req, ops>>

CloseAborted ==
    /\ InLoop("close") /\ incoming = <<>>
    /\ frame' = Idle
    /\ UNCHANGED <<input, chunk, sock, outgoing, incoming, req, res, ticks,
                   wire, crashed, ops>>

(* afterWrite.                                                              *)
AfterWrite ==
    /\ InLoop("none") /\ ~sock.destroyed /\ sock.pendingWrites > 0
    /\ LET w == [World EXCEPT !.sock.pendingWrites = @ - 1]
       IN Apply(IF sock.pendingWrites = 1 /\ sock.destroySoon
                THEN Destroy(w) ELSE w)
    /\ UNCHANGED <<input, chunk, frame, req, ops>>

(* A write has failed, or the socket has been idle for two minutes.         *)
ConnectionLost ==
    /\ InLoop("none") /\ ~sock.destroyed
    /\ Apply(Destroy(World))
    /\ UNCHANGED <<input, chunk, frame, req, ops>>

(* A tick: the "close" event (serverSocketCloseListener) or _emitPending.   *)
Tick ==
    /\ InLoop("none") /\ ticks # <<>>
    /\ frame' = Head(ticks) /\ ticks' = Tail(ticks)
    /\ sock' = [sock EXCEPT !.closed = @ \/ Head(ticks) = CloseTick]
    /\ UNCHANGED <<input, chunk, outgoing, incoming, req, res, wire, crashed, ops>>

EmitPending ==
    /\ InLoop("pending")
    /\ LET r == req[frame.req]
       IN IF ~r._paused /\ r._pendings # <<>>
          THEN \E throws \in Throwing :
                  /\ req' = [req EXCEPT ![frame.req] =
                               Emit([@ EXCEPT !._pendings = Tail(@),
                                              !.cutOff = throws],
                                    Head(r._pendings))]
                  /\ frame' = IF throws THEN Idle ELSE frame
          ELSE frame' = Idle /\ UNCHANGED req
    /\ UNCHANGED <<input, chunk, sock, outgoing, incoming, res, ticks, wire, crashed, ops>>

------------------------------------------------------------------------------
(* The application, from the listeners of any of these loops.               *)

CanAct ==
    /\ crashed = "no"
    /\ frame.handler \in {"end", "close"} => "aborted" \in AppOps
Known(i) == CanAct /\ res[i] # NoResponse

write(i) ==
    /\ Known(i) /\ ~res[i].finished /\ ops < MaxOps
    /\ Apply([_send(_storeHeader(World, i), i, <<"body">>)
                EXCEPT !.res[i].pieces = @ + 1])
    /\ ops' = ops + 1
    /\ UNCHANGED <<input, chunk, frame, req>>

(* setHeader("Connection", "close") and setHeader("Content-Length", ...).   *)
setHeader(i) ==
    /\ Known(i) /\ res[i].header = "none" /\ ops < MaxOps
    /\ \/ /\ "setHeader" \in AppOps /\ res[i].shouldKeepAlive
          /\ res' = [res EXCEPT ![i].shouldKeepAlive = FALSE]
       \/ /\ "contentLength" \in AppOps /\ ~res[i].contentLength
          /\ res' = [res EXCEPT ![i].contentLength = TRUE]
    /\ ops' = ops + 1
    /\ UNCHANGED <<input, chunk, frame, sock, outgoing, incoming, req, ticks,
                   wire, crashed>>

Continue(i) ==
    /\ Known(i) /\ "checkContinue" \in AppOps
    /\ res[i]._expect_continue /\ ~res[i]._sent100 /\ res[i].header = "none"
    /\ Apply(writeContinue(World, i))
    /\ UNCHANGED <<input, chunk, frame, req, ops>>

Finish(i) ==
    /\ Known(i) /\ ~res[i].finished
    /\ \E data \in BOOLEAN : Apply(finish(World, i, data))
    /\ UNCHANGED <<input, chunk, frame, req, ops>>

pause(i) ==
    /\ Known(i) /\ "pause" \in AppOps /\ ~req[i]._paused
    /\ ops + 2 <= MaxOps
    /\ req' = [req EXCEPT ![i]._paused = TRUE]
    /\ ops' = ops + 2
    /\ UNCHANGED <<input, chunk, frame, sock, outgoing, incoming, res, ticks,
                   wire, crashed>>

resume(i) ==
    /\ Known(i) /\ req[i]._paused
    /\ req' = [req EXCEPT ![i]._paused = FALSE, ![i].cutOff = FALSE]
    /\ ticks' = IF req[i]._pendings = <<>> THEN ticks
                ELSE Append(ticks, Frame("pending", i))
    /\ UNCHANGED <<input, chunk, frame, sock, outgoing, incoming, res, wire,
                   crashed, ops>>

DestroySocket ==
    /\ CanAct /\ "destroy" \in AppOps /\ ~sock.destroyed
    /\ Apply(Destroy(World))
    /\ UNCHANGED <<input, chunk, frame, req, ops>>

Next ==
    \/ Execute \/ on_headers_complete \/ RequestListenerThrows
    \/ on_body \/ on_message_complete \/ ParseError \/ ExecuteReturns
    \/ OnEnd \/ AbortNext \/ EndAborted \/ CloseAborted
    \/ AfterWrite \/ ConnectionLost \/ Tick \/ EmitPending
    \/ \E i \in Requests : 
          write(i) \/ setHeader(i) \/ Continue(i) \/ Finish(i)
          \/ pause(i) \/ resume(i)
    \/ DestroySocket

Spec == Init /\ [][Next]_vars

------------------------------------------------------------------------------
Parts(i) == LET own == SelectSeq(wire, LAMBDA part : part[1] = i)
            IN [k \in DOMAIN own |-> own[k][2]]

(* The client tells the responses apart by their order and by where each    *)
(* ends: they reach the socket in the order of the requests (outgoing,      *)
(* assignSocket), each as its header (after the optional 100), then pieces  *)
(* of body and, in chunked encoding, the end, whether it was written in its *)
(* turn (_writeRaw, the hot path of finish) or from its buffer (_flush).    *)
(* None starts before all of the previous one has been written, nor behind  *)
(* one whose end is the end of the connection (_last).                      *)
ResponsesInOrder ==
    /\ \A p, q \in DOMAIN wire : p < q => wire[p][1] <= wire[q][1]
    /\ \A i \in Requests :
          LET parts == Parts(i) IN
          /\ \E hundred \in {<<>>, <<"100">>}, n \in 0..(MaxOps + 1) :
                IsPrefix(parts, hundred \o <<"header">>
                                \o [k \in 1..n |-> "body"] \o <<"end">>)
          /\ i > 1 /\ parts # <<>> =>
                LET before == res[i - 1] written == Parts(i - 1) IN
                /\ before.finished /\ ~before._last
                /\ Contains(written, "header")
                /\ Contains(written, "end") <=> before.chunkedEncoding
                /\ Len(SelectSeq(written, LAMBDA p : p = "body")) = before.pieces

(* The pieces of a request's body reach its listeners in order, then "end", *)
(* once: those kept back while it was paused (_pendings) before those that  *)
(* the parser delivers after resume.                                        *)
BodyInOrder ==
    \A i \in Requests :
        LET pieces == IF req[i].skipBody THEN 0 ELSE Bodies[i]
        IN IsPrefix(req[i].seen, [b \in 1..pieces |-> b] \o <<End>>)

(* Nothing waits for a step that will not come: while the socket accepts    *)
(* data, a finished response whose turn it is has been followed by the next *)
(* one, the response being served holds nothing back, and only it keeps the *)
(* others waiting, although the error of _flush may leave finish between    *)
(* one response and the next; and what is pending on a request that has     *)
(* been resumed has a tick to emit it, unless a listener of that tick threw.*)
(* No failing assertion of the "finish" listener, assignSocket or           *)
(* detachSocket (http.lua:971, 982, 2056) stops the connection before it is *)
(* destroyed or its input ends.                                             *)
NothingStuck ==
    /\ crashed = "assert" => ~sock.readable
    /\ crashed = "no" =>
         LET m == sock._httpMessage IN
         /\ sock.writable /\ m # NoMessage => ~res[m].finished /\ res[m].output = <<>>
         /\ sock.writable /\ outgoing # <<>> => m # NoMessage
         /\ \A i \in Requests :
               ~req[i]._paused /\ req[i]._pendings # <<>> /\ ~req[i].cutOff =>
               frame = Frame("pending", i) \/ Contains(ticks, Frame("pending", i))

(* "it may be that in the case abortIncoming() was called that the incoming *)
(* array will be empty", http.lua:2053: the assertion after this comment    *)
(* holds then as well.                                                      *)
NoAssertFails == crashed # "assert"
=============================================================================
