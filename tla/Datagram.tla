------------------------------ MODULE Datagram ------------------------------
(* A UDP socket: datagram.lua over the asynchronous operations of            *)
(* src/luanode_datagram_udp.cpp, and the lookups of dns.lua over             *)
(* src/luanode_dns.cpp.  At most one send is under way; a send meanwhile is  *)
(* refused by SendTo, and datagram.lua does not look at the answer.  A close *)
(* with a send under way is delayed to its handler.                          *)
EXTENDS Integers, Sequences, SequencesExt, FiniteSets

CONSTANTS Datagrams,   \* what the application sends, each with a callback
          MaxArrivals  \* bound: datagrams that arrive

VARIABLES raw,        \* the C++ socket
          socket,     \* the object of datagram.lua
          lookups,    \* queries of the resolver and of dns.lua, in order
          ready,      \* handlers of operations that ended, in order
          handling,   \* HandleSendTo is calling its callback
          fate,       \* of each datagram: "new", "lookup", "refused",
                      \* "sending", "sent", "failed" or "aborted"
          calls,      \* how often its callback was called
          arrivals,
          program     \* there is a listener for `error'; an error ended the loop

vars == <<raw, socket, lookups, ready, handling, fate, calls, arrivals, program>>

Init ==
    /\ raw = [open |-> TRUE, closePending |-> FALSE, shutPending |-> FALSE,
              shut |-> {}, writes |-> 0, reads |-> 0]
    /\ socket = [fd |-> TRUE, watching |-> FALSE]
    /\ lookups = <<>> /\ ready = <<>> /\ handling = FALSE
    /\ fate = [d \in Datagrams |-> "new"]
    /\ calls = [d \in Datagrams |-> 0]
    /\ arrivals = 0
    /\ program \in [listens : BOOLEAN, ended : {FALSE}]

Sending == {d \in Datagrams : fate[d] = "sending"}
InFlight == {d \in Sending : \A i \in DOMAIN ready : ready[i].op = "send" => ready[i].of # d}
Ended(op, d, result) == [op |-> op, of |-> d, result |-> result]
NoDatagram == "none"

ReadInFlight == raw.reads > Cardinality({i \in DOMAIN ready : ready[i].op = "read"})

(* The descriptor is closed: operations under way end with                   *)
(* operation_aborted.                                                        *)
Aborted == (IF ReadInFlight THEN <<Ended("read", NoDatagram, "aborted")>> ELSE <<>>)
           \o SetToSeq({Ended("send", d, "aborted") : d \in InFlight})

------------------------------------------------------------------------------
(* Socket::SendTo under send(): to an address at once, to a name after its   *)
(* lookup.                                                                   *)
SendTo(d) ==
    IF raw.writes > 0
    THEN fate' = [fate EXCEPT ![d] = "refused"] /\ UNCHANGED raw
    ELSE /\ fate' = [fate EXCEPT ![d] = "sending"]
         /\ raw' = [raw EXCEPT !.writes = @ + 1]

Send(d) ==
    /\ socket.fd /\ fate[d] = "new"
    /\ SendTo(d)
    /\ UNCHANGED <<socket, lookups, ready, handling, calls, arrivals, program>>

SendByName(d) ==
    /\ socket.fd /\ fate[d] = "new"
    /\ fate' = [fate EXCEPT ![d] = "lookup"]
    /\ lookups' = Append(lookups, d)
    /\ UNCHANGED <<raw, socket, ready, handling, calls, arrivals, program>>

(* bind() without an address, and _startWatcher: the one read.               *)
Bind ==
    /\ socket.fd /\ ~socket.watching
    /\ socket' = [socket EXCEPT !.watching = TRUE]
    /\ raw' = [raw EXCEPT !.reads = @ + 1]
    /\ UNCHANGED <<lookups, ready, handling, fate, calls, arrivals, program>>

BindByName ==
    /\ socket.fd /\ NoDatagram \notin Range(lookups)
    /\ lookups' = Append(lookups, NoDatagram)
    /\ UNCHANGED <<raw, socket, ready, handling, fate, calls, arrivals, program>>

(* The callback of dnsLookup: its third argument is the name that was looked *)
(* up, so it is never the family of the socket, and the answer is always an  *)
(* error, for the callback of send and for the listeners of `error'.         *)
Answered(d) ==
    /\ fate' = IF d = NoDatagram THEN fate ELSE [fate EXCEPT ![d] = "failed"]
    /\ calls' = IF d = NoDatagram THEN calls ELSE [calls EXCEPT ![d] = @ + 1]

(* emit throws when nobody listens for `error', and HandleResolve calls the  *)
(* callback unprotected: the error leaves io_service::run and Loop, and the  *)
(* program ends.                                                             *)
EmitThrows ==
    /\ program' = [program EXCEPT !.ended = TRUE]
    /\ raw' = [raw EXCEPT !.open = FALSE]
    /\ socket' = [fd |-> FALSE, watching |-> FALSE]
    /\ lookups' = <<>> /\ ready' = <<>>

LookupDone ==
    /\ lookups # <<>> /\ ~handling
    /\ Answered(Head(lookups))
    /\ \/ /\ program.listens
          /\ lookups' = Tail(lookups)
          /\ UNCHANGED <<raw, socket, ready, program>>
       \/ ~program.listens /\ EmitThrows
    /\ UNCHANGED <<handling, arrivals>>

(* Socket::Close: delayed while a send is under way, whatever is read.       *)
CloseNow == /\ raw' = [raw EXCEPT !.open = FALSE]
            /\ ready' = ready \o Aborted

CloseAtOnce ==   \* a mutant of Close
    /\ socket.fd /\ socket' = [fd |-> FALSE, watching |-> FALSE]
    /\ CloseNow
    /\ UNCHANGED <<lookups, handling, fate, calls, arrivals, program>>

Close ==
    /\ socket.fd /\ socket' = [fd |-> FALSE, watching |-> FALSE]
    /\ IF raw.writes > 0
       THEN raw' = [raw EXCEPT !.closePending = TRUE] /\ UNCHANGED ready
       ELSE CloseNow
    /\ UNCHANGED <<lookups, handling, fate, calls, arrivals, program>>

(* Socket::Shutdown of the handle: the reading side at once, the writing     *)
(* side after the send that is under way.                                    *)
Shutdown(sides) ==
    /\ socket.fd
    /\ raw' = [raw EXCEPT
                  !.shutPending = @ \/ (raw.writes > 0 /\ "write" \in sides),
                  !.shut = @ \cup (IF raw.writes > 0 THEN sides \ {"write"} ELSE sides)]
    /\ UNCHANGED <<socket, lookups, ready, handling, fate, calls, arrivals, program>>

------------------------------------------------------------------------------
(* The kernel: a send ends, a datagram arrives (or the reading side is shut  *)
(* down) and ends the read.                                                  *)
SendEnds(d) ==
    /\ raw.open /\ d \in InFlight
    /\ \E result \in {"sent", "failed"} :
          /\ "write" \in raw.shut => result = "failed"
          /\ ready' = Append(ready, Ended("send", d, result))
    /\ UNCHANGED <<raw, socket, lookups, handling, fate, calls, arrivals, program>>

Arrives ==
    /\ raw.open /\ ReadInFlight /\ arrivals < MaxArrivals
    /\ arrivals' = arrivals + 1
    /\ ready' = Append(ready, Ended("read", NoDatagram, "data"))
    /\ UNCHANGED <<raw, socket, lookups, handling, fate, calls, program>>

ReadShut ==
    /\ raw.open /\ ReadInFlight /\ "read" \in raw.shut
    /\ ready' = Append(ready, Ended("read", NoDatagram, "data"))
    /\ UNCHANGED <<raw, socket, lookups, handling, fate, calls, arrivals, program>>

(* HandleSendTo: the callback runs first, and may send and close; then the   *)
(* shutdown and the close that were delayed.                                 *)
HandleSendTo ==
    /\ ~handling /\ ready # <<>> /\ Head(ready).op = "send"
    /\ LET d == Head(ready).of
       IN  /\ fate' = [fate EXCEPT ![d] = Head(ready).result]
           /\ calls' = [calls EXCEPT ![d] = @ + 1]
    /\ raw' = [raw EXCEPT !.writes = @ - 1]
    /\ ready' = Tail(ready) /\ handling' = TRUE
    /\ UNCHANGED <<socket, lookups, arrivals, program>>

Idle == raw.writes = 0 /\ raw.reads = 0
DelayedCloseForgotten == UNCHANGED <<raw, ready>>   \* a mutant of DelayedClose
DelayedClose ==
    LET shut == IF raw.shutPending /\ raw.writes = 0 THEN raw.shut \cup {"write"} ELSE raw.shut
    IN  /\ raw' = [raw EXCEPT !.shut = shut, !.open = @ /\ ~(raw.closePending /\ Idle)]
        /\ UNCHANGED ready

CallbackReturns ==
    /\ handling /\ handling' = FALSE
    /\ DelayedClose
    /\ UNCHANGED <<socket, lookups, fate, calls, arrivals, program>>

(* HandleReceive: read_callback only prints; nothing reads again.            *)
HandleReceive ==
    /\ ~handling /\ ready # <<>> /\ Head(ready).op = "read"
    /\ LET left == [raw EXCEPT !.reads = @ - 1]
       IN  raw' = [left EXCEPT !.open = @ /\ ~(left.closePending /\ left.writes = 0
                                               /\ left.reads = 0)]
    /\ ready' = Tail(ready)
    /\ UNCHANGED <<socket, lookups, handling, fate, calls, arrivals, program>>

App == \/ \E d \in Datagrams : Send(d) \/ SendByName(d)
       \/ Bind \/ BindByName \/ Close
       \/ \E sides \in {{"read"}, {"write"}, {"read", "write"}} : Shutdown(sides)
Loop == LookupDone \/ HandleSendTo \/ CallbackReturns \/ HandleReceive
Kernel == \/ \E d \in Datagrams : SendEnds(d)
          \/ Arrives \/ ReadShut

Next == App \/ Loop \/ Kernel

(* The io_service and the resolver run what is ready, and the kernel ends    *)
(* every send; nobody has to send us a datagram.                             *)
Spec == /\ Init /\ [][Next]_vars
        /\ WF_vars(LookupDone) /\ WF_vars(HandleSendTo) /\ WF_vars(CallbackReturns)
        /\ WF_vars(HandleReceive) /\ WF_vars(ReadShut)
        /\ \A d \in Datagrams : WF_vars(SendEnds(d))

------------------------------------------------------------------------------
(* A datagram that SendTo accepted, or whose name is being looked up, has    *)
(* its callback called once, and our own close does not cut it off, unless   *)
(* an error nobody listens for ends the program first.                       *)
AcceptedAnswered ==
    \A d \in Datagrams : fate[d] \in {"sending", "lookup"}
                             ~> \/ calls[d] = 1 /\ fate[d] \in {"sent", "failed"}
                                \/ program.ended

(* After close() the descriptor is closed, also when that had to be delayed, *)
(* as soon as no read is under way.                                          *)
ClosedUnlessReading == ~socket.fd ~> ~raw.open \/ ReadInFlight
==============================================================================
