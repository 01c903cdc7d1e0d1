------------------------------ MODULE RawSocket ------------------------------
(***************************************************************************)
(* LuaNode::Net::Socket, the C++ socket (src/src/luanode_net.cpp), as       *)
(* operators on a record, and the Asio operations it starts.                *)
(*                                                                          *)
(* An operation is "none", "pending" (in the kernel), or has a result that  *)
(* waits for its handler to be called by io_service::run.  Closing the      *)
(* socket aborts the pending ones; a result that is already there stays.    *)
(***************************************************************************)
EXTENDS Naturals, Sequences

NoChunk == 0

(* A socket just created by process.Socket(kind).                           *)
NewRawSocket ==
    [ open       |-> TRUE,      \* m_socket is open
      connected  |-> FALSE,
      peer       |-> "open",    \* the other end: "open", "ended" or "reset"
      fin        |-> FALSE,     \* our sending side is shut down
      m_pending_writes |-> 0,
      m_write_shutdown_pending |-> FALSE,
      m_close_pending |-> FALSE,
      writeOp    |-> "none",
      writing    |-> NoChunk,   \* the chunk of writeOp
      readOp     |-> "none",
      connectOp  |-> "none",
      posted     |-> 0,         \* HandleShutdownCallback posted, not run
      reading    |-> FALSE,     \* the field net.lua keeps on the handle
      readCb     |-> TRUE,      \* read_callback is onread, not noop
      shutdownCb |-> FALSE,     \* shutdown_callback is set
      sent       |-> <<>> ]     \* chunks the kernel has taken

(* Before it is created.                                                    *)
NoSocket == [NewRawSocket EXCEPT !.open = FALSE]

Abort(op) == IF op = "pending" THEN "error" ELSE op

------------------------------------------------------------------------------
Connect(s) == [s EXCEPT !.connectOp = "pending"]

Read(s) == [s EXCEPT !.readOp = "pending", !.reading = TRUE]

(* One write at a time: Write refuses while one is outstanding.             *)
CanWrite(s) == s.m_pending_writes = 0

Write(s, chunk) ==
    [s EXCEPT !.m_pending_writes = @ + 1, !.writeOp = "pending",
              !.writing = chunk]

CloseNow(s) ==
    [s EXCEPT !.open = FALSE, !.fin = TRUE, !.m_close_pending = FALSE,
              !.readOp = Abort(@), !.connectOp = Abort(@)]

(* Close waits for the outstanding write.                                   *)
Close(s) ==
    IF s.m_pending_writes > 0
    THEN [s EXCEPT !.m_close_pending = TRUE]
    ELSE CloseNow(s)

(* Shutdown("write") is delayed while a write is outstanding; its callback  *)
(* is posted in either case, but not when shutdown(2) fails.                *)
ShutdownFails(s) == s.m_pending_writes = 0 /\ s.peer = "reset"

Shutdown(s) ==
    IF s.m_pending_writes > 0
    THEN [s EXCEPT !.m_write_shutdown_pending = TRUE, !.posted = @ + 1]
    ELSE [s EXCEPT !.fin = TRUE, !.posted = @ + 1]

(* The start of HandleWrite, and what it does after the Lua callback: the   *)
(* delayed shutdown, then the delayed close.                                *)
WriteHandled(s) ==
    [s EXCEPT !.m_pending_writes = @ - 1, !.writeOp = "none",
              !.writing = NoChunk]

(* Mutation: the delayed shutdown is forgotten.                             *)
ShutdownDueNever(s) == FALSE

ShutdownDue(s) == s.m_write_shutdown_pending /\ s.m_pending_writes = 0

CallCloseCallback(s) ==
    IF s.m_close_pending /\ s.m_pending_writes = 0 THEN CloseNow(s) ELSE s

------------------------------------------------------------------------------
(* The kernel and the other end.                                            *)

ConnectResults(s) ==
    IF s.connectOp # "pending" THEN {}
    ELSE { [s EXCEPT !.connectOp = "ok", !.connected = TRUE],
           [s EXCEPT !.connectOp = "error"] }

(* A write succeeds on a connection that is up; a chunk is taken whole.     *)
WriteResult(s) ==
    IF s.connected /\ ~s.fin /\ s.peer # "reset"
    THEN [s EXCEPT !.writeOp = "ok", !.sent = Append(@, s.writing)]
    ELSE [s EXCEPT !.writeOp = "error"]

(* A read is answered with the end of the stream or an error once the other *)
(* end has ended or reset the connection.                                   *)
ReadEnds(s) ==
    [s EXCEPT !.readOp = IF s.peer = "ended" THEN "eof" ELSE "error"]
==============================================================================
