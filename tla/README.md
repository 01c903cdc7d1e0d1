# A TLA+ model of LuaNode

LuaNode runs Lua programs on an event loop (Boost.Asio): a C++ core, and a
library written in Lua over it. All Lua code runs on one thread, and so does
all of the core but the reader of the Windows keyboard. What is hard about it is
seldom parallelism and mostly order: every operation ends in a handler that the
loop calls later, listeners run in the middle of the function that emits the
event, and each of them may call back into the object that is calling it.

This directory holds specifications of the parts that carry that logic, TLC
configurations that check them on small instances, and TLAPS proofs about the
event loop, sockets plain and secure, servers, timers and idle timeouts, the POSIX
terminal, and the keyboard and the screen of the Windows console.

To check everything: `tlc -config X.cfg M` for each run below, and
`tlapm M.tla` for `EventLoopProofs`, `NetSocketProofs` (some minutes),
`NetServerProofs`, `TimerProofs`, `IdleTimersProofs` (some minutes),
`SecureSocketProofs`, `TerminalProofs` and `ConsoleProofs` (some minutes).

## 1. The system's parts

| Part | Source | State | Operations | Modelled by |
|---|---|---|---|---|
| Event loop and process | `src/luanode.cpp`, `src/node.lua`, `src/lua_runtime.h`, `src/lua_vm.cpp` | `nextTickQueue`, posted Ticks, `uncaught_exception_counter`, `exit_code`, the listeners of `exit` and `unhandledError` | `process.nextTick`, `Tick`, `Loop`, `process:exit`, `FatalError`, signals, the end of the script | `EventLoop`, `TickQueue`, `EventLoopProofs` |
| net.Socket | `lib/luanode/net.lua` | `_connecting`, `_flags`, `_connectQueue`, `_writeQueue`, `_pendingWriteReqs`, `_paused`, `readable`, `writable`, `destroyed` | connect, write, finish, destroy, destroySoon, pause, resume; `onread`, `afterWrite`, `connect_callback`, `shutdown_callback` | `NetSocket`, `NetSocketProofs` |
| C++ socket | `src/luanode_net.cpp` | `m_pending_writes`, `m_close_pending`, `m_write_shutdown_pending`, the Asio operations under way | Connect, Read, Write, Shutdown, Close and their handlers | `RawSocket` |
| net.Server and acceptor | `lib/luanode/net.lua`, `src/luanode_net_acceptor.cpp` | `_handle`, `_connections`, accepts under way, the EMFILE timer | listen, close, the accept callback, a socket destroyed | `NetServer`, `NetServerProofs` |
| Timers | `src/luanode_timer.cpp`, `lib/luanode/timers.lua` | the callback field, `m_repeats`, the waits of the Asio timer | setTimeout, setInterval, clearTimeout, clearInterval, again, `OnTimeout` | `Timer`, `TimerProofs` |
| Idle timers | `lib/luanode/timers.lua` | one linked list of items and one watcher per timeout value | Enroll, Active, Unenroll, the watcher's callback | `IdleTimers`, `IdleTimersProofs` |
| EventEmitter | `lib/luanode/event_emitter.lua` | the listeners of each event | on, once, removeListener, emit | planned |
| stream.pipe | `lib/luanode/stream.lua` | listeners on both ends, pause state | data, drain, end, close, cleanup | planned |
| http, server side | `lib/luanode/http.lua`, `src/luanode_http_parser.cpp` | the arrays `incoming` and `outgoing`, `socket._httpMessage`, `output` and `finished` of each response, `_paused` and `_pendings` of each request | the parser's callbacks, write, finish, `_flush`, `assignSocket`, `detachSocket`, `abortIncoming`, `onend`, `onclose` | `HttpServer` |
| http, client side; free list | `lib/luanode/http.lua`, `lib/luanode/free_list.lua` | the agent's sockets and requests; recycled parsers | request, response | planned |
| crypto and TLS | `src/luanode_crypto.cpp`, `lib/luanode/net.lua`, `lib/luanode/crypto.lua` | `m_pending_writes`, `m_pending_reads`, `m_close_pending`, `m_shutdown_pending`; `_connectQueue` until "secure" | setSecure, handshake, Write, Read, Shutdown, Close and their handlers | `SecureSocket`, `SecureSocketProofs`; hashes, ciphers and keys are bindings of OpenSSL |
| datagram | `lib/luanode/datagram.lua`, `src/luanode_datagram_udp.cpp` | sends and reads under way, `m_close_pending`, `m_write_shutdown_pending` | bind, send, shutdown, close and their handlers | `Datagram` |
| dns | `lib/luanode/dns.lua`, `src/luanode_dns.cpp` | lookups under way | lookup, resolve | the lookups of `Datagram`; `NetSocket` and `NetServer` see them as an answer that comes later |
| Windows console, output | `src/detail/windows/output_tty.cpp` | the UTF-8 decoder and the ANSI parser of each stream, the virtual window, the text buffer | Write, `ProcessMessage`, the commands of escape sequences | `AnsiParser`, `WindowsConsole`, `OutputTty`, `DirectConsole` |
| Windows console, keyboard | `src/detail/windows/input_tty.cpp`, `lib/luanode/tty.lua` | `m_run`, `m_tty_reader_thread`, `m_input_asio_work`; the console's input records | Start, Pause, Stop, `Run`, `ReadConsoleHandler` | `ConsoleInput`, `ConsoleProofs` |
| POSIX terminal | `src/detail/posix/tty_stream.cpp`, `src/luanode_stdio_linux.cpp`, `lib/luanode/tty.lua` | `orig_termios`, `m_mode`, the reads under way | setRawMode, pause, resume, destroy, `AtExit` | `Terminal`, `TerminalProofs` |
| Files and pipes as standard streams | `src/luanode_posix_stream.cpp`, `src/luanode_stdio_*.cpp` | a descriptor | read, write | not modelled |
| child_process | `lib/luanode/child_process.lua`, `src/luanode_child_process.cpp` | none | every native method only raises "not implemented yet" | not modelled |
| fs, os, hrtime, platform, constants, logging | | none | - | not modelled: pure I/O |
| readline, repl | `lib/luanode/readline.lua`, `lib/luanode/repl.lua` | line, cursor, history | key presses | not modelled |
| url, querystring, path, utils, console, class, module loader | | none | - | not modelled: string processing and language support |

How they interact. The C++ part of a component starts Asio operations;
`io_service::run`, called by `process:loop()`, calls their handlers, which call
a Lua callback (`CLuaRuntime::call`, `lua_pcall`), which emits events. Code that
must not run inside its caller is handed to `process.nextTick`. An error that
nobody catches goes to `FatalError`. A server creates a socket for each
connection, and the socket tells the server when it is destroyed.

What makes each part correct:

* *event loop*: callbacks run once, in order, and none is forgotten; an error
  is not handled recursively; `process:exit` ends the loop, and its code is the
  one the process ends with, unless it is 0 and the script itself failed;
* *sockets*: what was written is sent in order and completely before the
  descriptor is closed, unless the connection is destroyed or fails; `close` is
  emitted once, and last; every descriptor is released;
* *servers*: the count of connections is exact, the accept chain never breaks,
  `close` is emitted;
* *timers*: a cleared timer does not fire, the others do, and none fires more
  often than it should; an idle socket times out, and no other does;
* *http*: pipelined responses reach the client in the order of the requests,
  the pieces of a body its listeners in order, and nothing waits for a step that
  nobody will take;
* *secure sockets and datagrams*: a shutdown or a close that had to be delayed
  comes after the data, and it does come;
* *terminals*: what is shown does not depend on how it was cut into pieces,
  what is typed arrives in order and once, a paused or destroyed reader does not
  keep the program alive or block it, and the terminal is given back as it was.

The places where these are hard to test are the `hazards` of `PROJECT.json`,
each at its line.

## 2. The modules

### TickQueue and EventLoop

`TickQueue` is what `process.nextTick` promises: callbacks are numbered when
they are handed over and started one at a time, once each, in that order.

`EventLoop` is how it is done. `queue`, `pos` and `snapshot` are
`nextTickQueue`, `i` and `l` of `_tickcallback`; `ticks` counts the Tick handlers
posted by `NeedTickCallback` and not run yet, one per call of `nextTick`. `stack`
is the stack of activations: the main script, `loop()`, a nextTick callback, an
I/O callback, an error on its way to `FatalError`, `FatalError` itself, and
listeners of `exit` and `unhandledError`. Code of the application can run in the
frames of `UserFrames` and makes any number of calls there before it returns or
throws. `CallbackThrows` is the error path of `_tickcallback` (the callbacks
behind the failing one stay in the queue), `FatalError` has one disjunct per
path of the C++ function, and the actions at the end of the module are what
`Load` and `main` do once the script ends.

`loop()` is called by the script (possibly several times, one after the other),
not from inside a callback. `io_service::run` leaves the service stopped and
nothing resets it, so a second `loop()` returns at once; the model has that.

### RawSocket and NetSocket

`RawSocket` is the C++ socket as a record and operators on it; an operation in
the record is `none`, `pending` in the kernel, or has a result that waits for its
handler. The delayed close and shutdown (`m_close_pending`,
`m_write_shutdown_pending`) are carried out by `HandleWrite`.

`NetSocket` is the Lua object over it. `sock` has the fields of the Lua object,
`raw[h]` the C++ sockets it has used: a destroyed object can connect again while
operations of its former handle have not ended. The methods (`DoWrite`,
`DoDestroy`, `DoFinish`...) are functions on the state, because handlers call
several of them; one action per operation of the application and per handler
applies them. A handler that emits an event stops there (`frame` says which one
it is) while the listeners use the socket, and goes on with what the code does
after the `emit`; a listener may also throw. An assertion of net.lua that fails,
or an error it raises itself, sets `crashed`. `hist.cut` marks a connection cut
short: destroyed by the application, failed, written to behind `finish`, or found
ended by the other side behind `finish` or `destroySoon` with chunks still in
`_writeQueue`.

Data is abstract: chunks are numbered in the order of the calls of `write`, and
the kernel takes a chunk whole. The byte counts and the idle timeout of a
socket are left out; a socket made secure is in `SecureSocket`.

### NetServer

`acceptors` holds the C++ acceptors, each with its accepts pending in the kernel
and the results that wait for `HandleAccept`; closing one aborts the former and
keeps the latter. The five `Accept...` actions are the paths of the accept
callback of `_listen2`. The listeners of `connection` run inside it
(`frame = "connection"`) and may close the server, destroy sockets or throw.

### Timer

`waits[t]` are the waits of an Asio timer that have not called `OnTimeout`: a
wait is pending, due (it expired and `OnTimeout` is queued) or aborted.
Cancelling changes only pending waits, which is why a timer that was cleared can
still be due. The callback field decides then. `self` says whether the registry
reference a wait holds is the timer, because `OnTimeout` takes the reference for
the next wait from the top of the Lua stack: if a callback returned a value, the
next `OnTimeout` finds no callback there and cancels the timer, or raises an
error, or calls a callback that the value has (`foreign`; a table that is a timer
of its own is not considered). `hist[t].left` counts the calls of its callback
that `t` is armed for.

### IdleTimers

The idle timeouts of sockets: one watcher and one doubly linked list per timeout
value. `_idleNext` and `_idlePrev` are the links, of list heads, of the wrappers
that stand for enrolled sockets, and of the sockets (an enrolled socket that is in
no list has a wrapper with links to the socket itself). A timeout value stands for
the head of its list. `remove` leaves the links of what it removes as they are,
and so does the model: whether a socket is in a list is told from them. The
callback of a watcher is a loop (`CallbackTurn`) that calls listeners
(`frame.item`), which may enroll, clear or touch any socket before it goes on.
Wrappers that nothing refers to are collected. Time is in seconds, as `os.time`
gives it, and does not pass while a callback runs.

A socket that timed out may be destroyed, have a timeout set again or simply go on
being used, in its listener or at any later time. It is in no list then, but its
wrapper has the links it had, and `Active` and `Unenroll` remove it by them once more
(timers.lua:191, 147). That changes nothing as long as its former neighbours
are still each other's (`Mislinked`); when they are not, the list is spliced together
wrongly and `hist.misled` says so: nothing is claimed of what follows, and the model
ends there. `Active` starts no watcher for such a socket, though its list may be empty
(`Unwatched`): the lists this happens to are in `hist.broken`, with those whose
callback was cut short by an error.

### HttpServer

One connection of a server, from the first byte to "close". The client's
requests are a sequence of the callbacks the parser makes (`headers`, `body`,
`complete`, or garbage that is no request), which arrives in pieces. The parser
calls listeners in the middle of a piece; `frame` says which loop is calling
them (the parser, the tick that emits what a paused request kept back,
`abortIncoming`, the `onclose` of the socket), and the application may write to
and finish any response, pause, resume or throw there. `res[i]` is a response
(`output`, `finished`, `_last`...), `outgoing` those that wait for the socket and
`sock._httpMessage` the one that has it. `_writeRaw`, `_flush`, `finish` with its
hot path, the `finish` listener with `assignSocket` and `detachSocket` are
functions on that state, `wire` is what has reached the socket. A response may
declare its length (`_storeHeader`): it is not chunked, and its `finish` may have
nothing left to write, which is how `_flush` comes to give the next response to a
socket that takes everything at once and throws (section 4); the error leaves
`finish` with everything done, and the model goes on from there.

### SecureSocket

`sock` is the Lua object and `ssl` the C++ stream with the operations it has
under way. It starts where `connect_callback`, or a server's connection, leaves a
socket that a listener has made secure: with any amount of data from before the
connection, finished or not. Chunks written later go ahead of that data, because
`Socket:write` does not wait for "secure"; the property that compares data and
shutdown says so.

### Datagram

`raw` is the C++ socket, `ready` the queue of handlers whose operations ended.
A send while another is under way is refused by `SendTo`, and `datagram.lua` does
not look at the answer: that is a fate of its own (`refused`) and not an accepted
datagram. Lookups are answered in order, one at a time. The program
may listen for `error` or not (`program.listens`); when it does not, the `emit` of a
lookup that failed throws (event_emitter.lua:24), through the unprotected call of
`HandleResolve` (luanode_dns.cpp:141), and the program ends (`program.ended`).

### AnsiParser, WindowsConsole, OutputTty, DirectConsole

`AnsiParser` is the character side of `ProcessMessage`: bytes to code points,
code points to text and console commands, as a function of one byte and the
parser's state. `WindowsConsole` is what the commands do to a screen and the
virtual window. `OutputTty` puts them together as the code does: `job` is the
`ProcessMessage` that is running, with its copy of the parser, the text it has
not flushed yet and the commands of the byte just read; a console call may fail
at any of them. A move of the caret whose call fails puts it, and the virtual window,
wherever the buffer it did not get says (output_tty.cpp:455): `HalfDone` lets that be
anywhere. Two variables are history: `failed`, a console call has failed, and
`cut`, the user has given the buffer a height that leaves out the row the virtual
window begins at. `DirectConsole` is the promise: each byte has its effect when it
is written. `ActsAtOnce` is the refinement, with the unflushed text counted as
shown.

### ConsoleInput

The one place where LuaNode has a second thread. `thread[t]` is where a reader
is in `Run` and the records it holds; `main` is what the thread of the loop is
doing. `m_run`, which both use, is read and written in steps of their own, and
`Pause` is three of them: `m_run`, the FOCUS record that wakes the reader, and
`join`. Batches are posted and decoded later by `ReadConsoleHandler`. A key is the
number of its record and the way it was translated (plain, with ESC, a pair of
surrogates, or what is left of a pair that was cut in two).

### Terminal

The POSIX terminal: its attributes, which outlive the process, the TtyStream of
each descriptor with its mode and its reads, and the ReadStream over it. All reads
of a stream fill the same `m_inputArray`, whose contents the handler takes when it
runs: `ReadData` puts a chunk there, `HandleData` hands it to the listener.
`hist.got` is what the listeners have got, and of which stream. A stream that is
paused, or resumed in its listener, while a read is under way is in `hist.halted`
until that read is handled; one that then starts another read is in `hist.raced`.

## 3. The runs

| Run | Instance | Checks |
|---|---|---|
| `EventLoop` | 3 callbacks, 1 operation, exit codes 0, 1, 3 | `EveryCallbackHasATick`: a Tick is posted for every callback waiting, so none is stranded by a snapshot or an error. `RunsInOrder`: refinement of `TickQueue`. `NoNestedErrorHandling`. `ExitCodeHonoured`: the code of a `process:exit` made in the loop is the one `loop()` returns, whatever is thrown or called in between, and the exit status of the process unless it is 0, when the result of the script decides. `CallbacksRun`: a callback is started unless the loop is stopped. `ExitEndsLoop`. `TypeOK` includes that the snapshot lies within the queue |
| `NetSocket` | 1 connection, 3 chunks, 1 read, every operation, a peer that ends or resets at any time, listeners that throw | `WritesInOrder`: what was sent, the chunk under way and the two queues are together what was written, in order. `QueueHasWriter`: queued chunks, a delayed close and a delayed shutdown have a write whose end takes care of them, and Lua and C++ agree on the count of writes. `NoAssertFails`. `CloseIsLast`. `NoDataLost`: everything written has been sent when the descriptor is closed, also when the other side ends first, before or while data waits; only destroy, a failure, a write behind finish, and an end of the other side found behind finish or destroySoon with chunks still queued (where onread drops them) are left out. `DestroyedCloses`. `FinishCloses`: a finished socket is closed in the end, unless it waits for a read nobody has issued |
| `NetServer` | maxConnections 2, 3 clients, 2 calls of listen, 1 failure of accept | `ConnectionsCounted`, `OneAccept` (the accept chain never breaks, and there is one until the server is closed), `ClientsServed` |
| `Timer` | 2 timers, one restarted with `again` and returning values | `ClearedNeverFires`. `NoExtraFiring`: once armed a timer calls its callback once, and once more for every `OnTimeout` that was queued when `again` was called. `Fires` |
| `IdleTimers` | 3 sockets (symmetric), timeouts of 1 and 2 s, 2 s, listeners that throw, sockets used after they timed out | `ListsAreSorted`: each list holds exactly the sockets whose timeout runs, linked both ways, the most idle first, and the assertions that rely on it hold. `NoSpuriousTimeout`. `IdleItemsWatched`: every idle socket has a watcher that expires in time. The exceptions are in section 2 |
| `HttpServer` | 3 requests, the first with a body, the second of HTTP/1.0 or with an expectation; 2 calls of write and setHeader (close, or a declared length) or 1 of pause, every other operation at will | `ResponsesInOrder`: a response starts when everything of the one before it has been written, and not behind one that ends with the connection. `BodyInOrder`, unless the `request` listener threw. `NothingStuck`, which says also where the assertions of http.lua hold |
| `SecureSocket` | 4 chunks, 2 reads answered with data | `ShutdownBehindData`, `NothingCutOff`, `ClosedUnlessReading` |
| `Datagram` | 3 datagrams, 1 arrival | `AcceptedAnswered`: what `SendTo` accepted, or is looked up, has its callback called once and is not aborted by our own close, unless an error nobody listens for ends the program first. `ClosedUnlessReading` |
| `OutputTty` | 2 streams, consoles of 2x3 and 3x2 cells, 8 messages that begin and end inside UTF-8 and escape sequences, 3 writes, 1 resize, a call that fails | `ActsAtOnce`: refinement of `DirectConsole`. `WithinBuffers`: the parser stays in a state its chain of tests knows (`abort` is not reached) and within its arrays (an argument that overflows is in no message of the run; the theorem `ParserWithinBuffers` covers it). `CursorInWindow`: the virtual window lies in the buffer and has the cursor, unless a call has failed or a resize has cut off the window's first row |
| `ConsoleInput` | 3 records of 7 kinds, 2 reader threads one after the other, a read that fails | `KeysInOrder`: keys arrive in the order typed, none lost or repeated, however they are cut into batches and by however many readers. `ReadsWhenResumed`. `PauseReturns`: `join` does not block the loop for ever |
| `Terminal` | 2 streams on one terminal (symmetric), 3 chunks, 7 calls | `RestoredAtExit`, `InputInOrder`, `KeepsReading` |

`HttpServerAborted` ends in a counterexample. It checks the assertion of the
`finish` listener (`http.lua:2056`), whose comment takes care of the case that
`abortIncoming` was called: the client ends its side with two requests
unanswered, `abortIncoming` takes the first out of `incoming` and emits its
`aborted`, and a listener that finishes the response there meets an `incoming`
that begins with the second. The error leaves the second unaborted and the socket
without its `finish`. It is the finding in `PROJECT.json`; `NothingStuck` shows
that it needs the end of the input.

### Other behaviours the models show

The following were met while modelling. The models contain them and the
properties, which say what the code does guarantee, leave them out in their
premises; no run is kept to refute them.

* *process*: `process:exit(0)` in the loop does not make 0 the exit status: `main`
  (luanode.cpp:976) falls back to the result of the script, so that a script that
  returns a number, or throws, after `loop()` overrules it. `ExitCodeHonoured` says
  what is left.
* *net.Socket*: `finish()` with chunks queued, then the end of the other side:
  `onread` destroys the socket and the chunks are dropped (net.lua:185).
  `finish()` while connecting: nothing is read afterwards, so the socket stays
  open (net.lua:575); during the lookup it is forgotten. With
  `MaxHandles = 2` the callbacks of a former handle act on the new connection
  (`NoAssertFails` and `SentIsPrefix` are violated).
* *net.Server*: `close` is never emitted, because a number is tested as a truth
  value and 0 is true in Lua (net.lua:1867). Closing a server before its listening
  tick has run makes the tick throw.
* *net*: the end of the other side destroys a socket that is not writable any more
  (net.lua:185), and the chunks that still wait in `_writeQueue` behind `finish` or
  `destroySoon` are lost with it. A `drain` listener that throws leaves its error
  on the Lua stack, where `CallShutdownCallback` looks for `shutdown_callback`
  (luanode_net.cpp:969), which is not called. Its only effect, to destroy a socket
  whose other side has ended, has always taken place before
  (`ShutdownCallbackIdle` of `NetSocketProofs`, for one connection): onread does so when it finds the end.
* *timers*: the reference an interval is armed with is what its callback left on
  the stack (timer.cpp:148). A socket that timed out and is used again when
  its list is empty never times out, as its watcher is not started (timers.lua:186).
  If its former neighbours have parted, its old links are spliced into the list
  (timers.lua:191), which is then neither whole nor sorted. The properties of
  `IdleTimers` leave out exactly these two cases.
* *http*: `_flush` emits `drain` on an undefined global (http.lua:913), so a
  queued, unfinished response that gets its turn with data in its buffer throws
  when nothing else is being written, as behind a response of declared length.
  Writing to a connection after its "close" emits "close" again. `destroy` of a
  queued response is lost. A `request` listener that throws makes the parser skip
  the body of its request.
* *secure sockets*: `Shutdown` with nothing being written does not shut down.
  `finish()` before the connection is made means that no handshake is started.
  A destroy during the handshake leaves `drainConnectQueue` with nothing to walk,
  which is an error. The outcome of the handshake is not looked at.
* *datagram*: a close with both a send and a read under way waits for the read,
  although a comment (datagram_udp.cpp:202) says that reads need not be waited
  for; the same holds for secure sockets. `bind` with an address compares the
  family of the answer with the domain and never works.
* *Windows console*: the overflow test of an argument looks at ten times its
  value before the digit is added. `ESC c` leaves the text yellow (a colour is
  named twice, output_tty.cpp:479). `m_tty_context.flags` and `m_run` are not initialised.
  A pair of surrogates cut by two reads arrives broken, because `bind` copies
  the context. A reader that failed stays in `m_tty_reader_thread`, so a resume
  does not start another.
  A buffer that becomes shorter than the row the virtual window begins at, and taller
  again, leaves the window below the cursor, and the next relative move is clipped to
  another row: the code looks for the cursor below the window only
  (output_tty.cpp:392), although the comment behind it speaks of any cursor found
  outside. `CursorInWindow` leaves this out by `cut`; two resizes and two writes
  violate it otherwise.
* *POSIX terminal*: a resume soon after a pause makes two reads share one buffer,
  and a chunk that is overwritten before its handler has run is lost: the listener
  gets the later one twice (`InputInOrder` allows that to the streams of
  `hist.raced`, and no more: they do not go back).
  `setRawMode(true)` twice is an error. Two raw streams switched off in the other
  order leave the terminal raw until the process ends.

### Bounds

A bound is a CONSTANT named `Max...` and stands in the guard of the action it
limits. Three chunks are the least with one under way and two in the queue, so
that order within the queue matters; one answered read suffices because reads do
not queue. Three callbacks are the least with one running, one in its snapshot
and one added behind it. Two clients above `maxConnections - 1` make the limit
bite and be left again. Two timers are enough for one to clear the other,
and three sockets for one to leave its list from the middle.
Two connections of an object are enough for a handler of the first to run
during the second. `Codes` includes a code that differs from 0 and from the 1
`FatalError` uses.

Three requests are the least with one being served and two in the queue, and two
pieces of input can be cut apart anywhere. Three datagrams: one being sent, one
refused, one looked up. A console of six cells and two rows of window has text
that wraps, scrolls and leaves the window; `MaxArgs = 2`, `UShortMax = 127` and
`BufSize = 2` stand for 4, 65535 and 8192, so that the limits are met by short
messages. One resize is what the refinement leaves room for; the theorem about
`CursorInWindow` holds for any number of them. Two readers are the least for one to come after another; three records
make a batch of two and one after it. Two terminals are the least whose saved
attributes can differ.

Deadlock is checked for `EventLoop`, whose end is the action `Terminated`. The
other modules are parts of a program that may simply have nothing more to do, so
their configurations say `CHECK_DEADLOCK FALSE`.

### Fairness

* `EventLoop`: callbacks and listeners end (`WF(Leave)`), the loop goes on
  (`WF(System)`), and `io_service::run`, whose queue of handlers is first in first
  out, gets to the posted Ticks even when I/O handlers keep coming (`SF(Tick)`).
  Nothing is assumed of operations in progress or of signals.
* `NetSocket`: handlers that are due are called; the kernel completes connects,
  writes, and reads that have met the end of the stream; the other end ends its
  side once it has seen ours end. That it sends data, or resets, is not assumed.
  (With two connections of one object, `MaxHandles = 2`, `MaxChunks = 1`, and
  only finish and destroy, the two liveness properties hold as well.)
* `SecureSocket`: a write under way ends, and the operations of a closed socket
  end; nothing is assumed of the peer.
* `Datagram`: handlers that are due run, a send under way ends, and a read of a
  socket whose receiving side is shut down ends. That datagrams arrive is not
  assumed.
* `ConsoleInput`: the reader threads and the thread of the loop go on. Nothing is
  assumed of the user: the FOCUS record alone wakes the reader.
* `HttpServer`, `OutputTty`, `Terminal`: none; what must happen is stated as
  something that is under way (`NothingStuck`, `KeepsReading`).
* `NetServer`: handlers and timers run; the kernel answers an accept while a
  client is waiting.
* `IdleTimers`: none; that a socket times out is stated as `IdleItemsWatched`, since
  the model's time is bounded.
* `Timer`: waits expire, and the handlers of one timer do not keep out another's
  (the loop's queue is first in first out).

## 4. What is proved

### The event loop

`EventLoopProofs` proves, for every set `Codes` of natural numbers with 0 and 1
in it and all natural bounds `MaxCallbacks` and `MaxWork` (`CodesAssumption`,
`BoundsAssumption`, which TLC evaluates on the runs of `EventLoop`):

| Theorem | States |
|---|---|
| `TypeCorrect` | `Spec => []TypeOK` |
| `TicksCoverCallbacks` | `Spec => []EveryCallbackHasATick` |
| `ErrorHandlingNotNested` | `Spec => []NoNestedErrorHandling` |
| `ImplementsTickQueue` | `Spec => RunsInOrder`: the array, snapshot and splice implement `TickQueue` |
| `ExitDecides` | `Spec => []ExitCodeHonoured`: a `process:exit` made in the loop sets the code `loop()` returns, and the exit status if it is not 0 |

All follow from `Invariance`, `Spec => []IInv`, with

    IInv == TypeOK /\ StackInv /\ EveryCallbackHasATick

`TypeOK` alone is not inductive: that a throwing callback leaves `pos` within the
queue depends on `_tickcallback` being active exactly when a `tick` frame is on
the stack. `StackInv` says that, and what the stack can look like: the script only
at the bottom, `loop` only right above it, `tick` only right above `loop` with
nothing but `exit` listeners above it, at most one `fatal`, and `counter` is 1
exactly when there is one. The proof has
two halves. The first (`StackStep`) takes the actions apart by what they do to
the stack: pop, swap, push, swap one frame for two; a lemma about each shows that
it keeps the shape. The second (`QueueEffects`) shows that every step does to the
queue one of five things (nothing, append, start a Tick, next callback, drop what
was started), and `QueueTypeStep` and `QueueRefines` take it from there, with
lemmas on the suffixes of a sequence (`FromAppend`, `FromTail`...).

`ExitDecides` needs to know what becomes of an exit between the call and the end
of the loop, which `ExitCodeHonoured` does not say. `ExitInv` has three parts.
`ClosureComes`: as long as the code has not been set, the loop runs and is not
stopped, and either the listeners of `exit` are running or the closure that sets
it waits in `nextTickQueue`, behind the position of `_tickcallback`, so that no
splice can drop it. `StoppedEarly`: the loop has been stopped without an exit
only when a `loop` frame is on top, so nothing can call `process:exit` then.
`NotAsked`: before the first exit there is none of this. It uses `IInv`, and in
it that every waiting callback has a Tick: a loop does not run dry under a
closure that waits.

### net.Socket

`NetSocketProofs` proves, for an object that makes one connection
(`OneConnection == MaxHandles = 1`), with all natural bounds `MaxChunks` and
`MaxInput`, any set `AppOps` of operations and either value of `EarlyEof`:

| Theorem | States |
|---|---|
| `SocketInvariance` | `Spec => []IInv` |
| `WritesStayInOrder` | `Spec => []WritesInOrder` |
| `WhatWaitsHasAWriter` | `Spec => []QueueHasWriter` |
| `NoHandlerThrows` | `Spec => []NoAssertFails` |
| `CloseEndsTheEvents` | `Spec => []CloseIsLast` |
| `FlushedBeforeClosed` | `Spec => []NoDataLost` |

`OneConnection` is a hypothesis of the theorems because the properties are false
without it: the callbacks of a former handle act on the next connection (section
3). It is what the run has, too: an object that connects again is in the model,
and these promises are not kept for it.

None of the five is inductive, and none can be proved without the others: that
nothing is lost depends on the order of the chunks, that on there being one write
at a time, that on `_pendingWriteReqs` being the C++ count, and that on no handler
throwing in the middle. `IInv` is their common strengthening:

    IInv == Whole(World, hist, Draining) /\ FrameInv /\ ~hist.lateEvent

`World` collects the Lua object, the C++ socket, the queue of ticks and `crashed`,
on which the functions of the model work. `Whole` is made of

* `Life`: what a destroyed object has let go of, and when an object has a handle;
* `Joining`: nothing is under way before the connection is up;
* `OneWrite`: `m_pending_writes` is 0 or 1, and 1 exactly with a write under way;
* `Shut`: who has shut its side down, or will, is not writable any more;
* `LastRead`: no read is started after the end of the stream;
* `Uncut`: the writes of a connection that was not cut short succeed;
* `Order`: sent, under way, `_writeQueue` and `_connectQueue` are what was
  written; once destroyed and not cut, nothing waits;
* `CloseOnce`: one destroy takes effect, and "close" is ticked once;
* `Queued` and `Delayed`: what waits has a write whose end takes it up, and a
  socket that finds the other side ended behind `finish` is destroyed at once.

`FrameInv` says what the handler that waits for its listeners works on. Three
strengths of the same invariant occur in the proof, because a handler is not
atomic in what it restores: `Whole` holds between handlers and while listeners
run; `Good` leaves out `Queued` and `Delayed` (between the end of a write and
the next); `Held` leaves out `Order` as well (a chunk has been taken from a
queue and not been given to the C++ socket yet). There is a lemma for each
function of `NetSocket` and `RawSocket` that says which of the three it needs and
which it leaves; those of the actions compose them. `Put` writes a world by its
parts, so that these lemmas speak of parts and not of nested updates.

### net.Server

`NetServerProofs` proves, for every `maxConnections` of at least 1 and all natural
bounds (`BoundsAssumption`):

| Theorem | States |
|---|---|
| `AcceptInvariance` | `Spec => []AcceptInv` |
| `ListenerAccepts` | `Spec => []OneAccept` |
| `ConnectionsAreCounted` | `Spec => []ConnectionsCounted` |

`AcceptInv == TypeInv /\ HandleInv /\ Chained /\ Single`. `HandleInv` is what the
two parts of `OneAccept` lack: an open acceptor has no aborted accept to
deliver (an aborted one ends the chain without another accept), and the acceptors
that listen has not created are idle. `Chained` counts what will accept and
`Single` says that there is one at a time after the first listen, and nothing at
all while its address is looked up: without that, the end of the lookup would
start a second chain. The lemmas say by how many accepts each operation changes one
acceptor (`Changed`), and the actions add that up. The count of the connections is
a second invariant, `CountInv`: the open sockets are some of those accepted, which
are numbered in order, so a new one is not among them.

### Timers

`TimerProofs` proves, for any set of timers, any of them restarted with `again`,
and any bound on the waits (`TimerAssumption`):

| Theorem | States |
|---|---|
| `TimerInvariance` | `Spec => []IInv` |
| `ClearedTimersAreSilent` | `Spec => []ClearedNeverFires` |
| `TimersFireOnce` | `Spec => []NoExtraFiring` |

`IInv == TypeInv /\ ClearInv /\ WaitInv`. `ClearInv`: a cleared timer has lost its
callback, and one that was not created has no waits and no history. `WaitInv`: the
waits of a timer that may still fire are no more than the calls it is armed for. To
arm it (`ArmedWaits`) cancels the pending one and adds one to those that are due,
which is what the count allows; a call takes one from both.

### The idle timeouts

`IdleTimersProofs` proves, for any sets of sockets, wrappers and timeouts, listeners
that throw or not, and any time (`IdleAssumption`, and `NodesAssumption`: heads,
wrappers and items are different nodes):

| Theorem | States |
|---|---|
| `IdleInvariance` | `Spec => []IInv` |
| `IdleListsSorted` | `Spec => []ListsAreSorted` |
| `NothingTimesOutEarly` | `Spec => []NoSpuriousTimeout` |
| `ActiveItemsWatched` | `Spec => []IdleItemsWatched` |

The links of a list cannot be followed to its end by a formula, so the invariant
gives each list as a sequence `q` of wrappers: `Ring` ties the links to it (`Node(m,
q, k)` is what stands at place `k`, the head `m` at both ends), `Holds` its members
to the active sockets, and `Sorted` its order to their last activity. `RingAppend`
and `RingRemove` say what `append` and `remove` do to a ring. Pointers make the
rest of the invariant: a change of links in one list is harmless to the others
only because wrappers are not shared (`Wrapped`), and `remove` of a wrapper that is
in no list is harmless only because of what its links are then. `Loose`: one that was
never in a list is linked to its item, and the item to itself. `TimedOut`: one whose
item has timed out still has its link to the head of its list; so `Active` takes it
for one that is in the list. `RemovedAgain`: to remove it once more changes nothing
when its neighbours are each other's (`LinksFit`), whichever items have come, gone and
moved since, and this is all that use after a timeout needs.

    Regular == /\ Fits(Lists, hist, Excused) /\ FrameInv
               /\ now \in Nat /\ ~crashed /\ ~hist.spurious
    IInv == ~hist.spurious /\ (hist.misled \/ Regular)

`Fits(t, h, X)` holds of a state `t` of the lists with a history `h`, where the lists
`X` need no watcher. The functions of `timers.lua` map a state to a state, so each
has a lemma (`UnenrollFits`, `EnrollFits`, `ActiveFits`, `FiresFits`; `CollectedFits`
for the collector), and those of the actions compose them. That nothing times out
early follows from `Wrapped` (the time in a wrapper is that of the last activity);
that the watcher set again by the callback is in time for all sockets follows from
`Sorted`. `ActiveFits` lets the lists grow that need no watcher: by one that a socket
which had timed out enters when it is empty (`EntersEmpty`).

### The secure socket

`SecureSocketProofs` proves, for all natural bounds `MaxChunks` and `MaxInputs`
(`BoundsAssumption`):

| Theorem | States |
|---|---|
| `WritesNotCutOff` | `Spec => []NothingCutOff`: the program's own close never comes under a write |
| `DataBeforeShutdown` | `Spec => []ShutdownBehindData` |

Neither property is inductive. That nothing is cut off needs to know who may still
reach the C++ object, and that data comes before the shutdown needs to know which of
the two queues will be taken out, and by whom. `IInv == Good(World, hist.early) /\
HistType` says so, with `Good` made of these parts:

* `Handles`: the C++ object is closed only when the Lua object has let go of it,
  and never under a write;
* `Queues`: who is finished does not write again, and `_connectQueue` is empty
  exactly when `drainConnectQueue` is not pending;
* `Order`: nothing is written while there is data from before the connection, and
  nothing after the shutdown, unless a write came early;
* `Waiting`: chunks in `_writeQueue` have a write whose end takes them out.

The functions of the model map a world to a world, so there is one lemma for each
function (`DestroyGood`, `WriteGood`, `AfterWriteGood`...), and the lemma of an
action composes those of the functions it calls. Between the end of a write and
the start of the next, `Waiting` does not hold: `Sound` is `Good` without it.

### The keyboard of the Windows console

`ConsoleProofs` proves, for any set of threads and any bound on the records
(`InputAssumption`):

| Theorem | States |
|---|---|
| `ReaderInvariance` | `InputSpec => []ReaderInv` |
| `ResumedReads` | `InputSpec => []ReadsWhenResumed` |
| `OneReader` | two threads never read at a time, until the stream is destroyed |
| `KeysInvariance` | `InputSpec => []KeysInv` |
| `KeysArriveInOrder` | `InputSpec => []KeysInOrder` |

`ReaderInv == InputTypeInv /\ NoOtherReader /\ PauseInv /\ StreamInv`: every thread
but the one that the stream holds has ended or was never started; what `Pause` has
done when it waits for its reader; and the three states of the stream between calls.
The property speaks of the thread that the stream holds, and a `resume` may take
another one: only `NoOtherReader` tells that the old one is not still reading.

`KeysInOrder` says that the keys the application got are the first of those that
were typed, but for pairs of surrogates that two reads cut. `KeysInv` follows the
records on their way: the batches that are posted, the batch of the one thread that
holds one, the records in the console. `Chain` is a state of the decoder behind
each posted batch, each decoded from the one before, from what the application got
to the keys of all that was typed. A step moves records from one place to the next
and leaves the ends of the chain. What it needs of the decoder is that the keys of
a batch do not depend on the keys before it (`KeysBehind`), and that a half of a
pair that is forgotten between two batches changes nothing else (`KeysBelow`).
These are about a fold over the batch. The library's theorems of induction are out
of the provers' reach, since they take an operator; the proofs do induction over a
set instead: a set of naturals that has 0 and the successors of its members is
`Nat` (`NatSetInduction`, from `WFMin`), and the function that a fold is defined by
exists (`FoldExists`).

### The screen of the Windows console

`ConsoleProofs` proves as well, for any messages, any number of streams, any sizes
of the console with a window that is not higher than its buffer, at least two units
of text buffer and any bounds (`ParserAssumption`, `TtyAssumption`):

| Theorem | States |
|---|---|
| `TtyInvariance` | `Spec => []TtyInv` |
| `ParserWithinBuffers` | `Spec => []WithinBuffers` |
| `WindowKeepsCursor` | `Spec => []CursorInWindow` |

`TtyInv` has the parser of each stream in `ParserSet`, a call of `ProcessMessage`
whose copy of the parser is one and whose text fits (`Working`), a screen with its
cursor in its buffer (`ScreenOK`), and, unless `failed` or `cut`, a virtual window
that does not begin below the cursor (`AboveCursor`). The parser has a lemma for
each of its states, up to `ParseByteType`: whatever the byte, the next state is one
that the chain of tests knows, and each effect is a command or at most two
characters of text, which is why text fits behind a flush. A command `Keeps` the
screen: text moves the cursor down only, so a window that began above it still
does; `move_caret` first brings the window to the cursor and then clips to the
window; `ESC c` puts both on the first row. `WindowMoves` is the arithmetic of
`uv_tty_update_virtual_window`: from `AboveCursor` it follows that the window has
the cursor, which is `CursorInWindow`. `AboveCursor` is needed because the property
speaks of the window as it will be at the next command, and the code may not have
looked at it for some time. `WriteText` is a fold over the text, and
`WriteTextStays` does the induction over the characters, again over a set.

### The POSIX terminal

`TerminalProofs` proves, for any set of streams and all numbers of chunks and of
calls (`NoTtyAssumption`: the mark for "no stream" is not one of the streams or their
duplicated descriptors):

| Theorem | States |
|---|---|
| `TerminalInvariance` | `Spec => []IInv` |
| `TerminalIsRestored` | `Spec => []RestoredAtExit` |
| `StreamsKeepReading` | `Spec => []KeepsReading` |
| `InputStaysInOrder` | `Spec => []InputInOrder` |

    IInv == /\ TypeInv /\ Saved /\ Counted /\ Flowing
            /\ OneRead /\ Chunks /\ NeverBack /\ InOrder

`Saved`: from the first switch to raw mode on, `orig_termios` holds the
attributes the process found and a duplicated descriptor, which no stream closes;
before that, no stream is in raw mode and the terminal is untouched. `Counted`: a
queued handler is one of the reads its stream has counted, and a stream that was not
made has none; this is what lets `Flowing`, the inductive form of `KeepsReading`,
lose a read only together with its handler. `InputInOrder` speaks of what the
listeners have got. `Chunks` places the rest: the terminal has the last chunks, in
order, every `m_inputArray` one from before those, and what a listener has got is not
newer than the array of its stream, also when two reads race for it; this is why no
stream goes back (`NeverBack`). `OneRead` says that a stream that is not in
`hist.raced` has one read for its array, and none behind a pause that is not in
`hist.halted`; so its array is not overwritten while a handler waits, and `InOrder`
has the chunks that wait for the handlers of all such streams in rising order, behind
what they have got.

### Left to TLC

* The liveness properties (`CallbacksRun`, `ExitEndsLoop`, `DestroyedCloses`,
  `FinishCloses`, `ClientsServed`, `Fires`, `ClosedUnlessReading`,
  `AcceptedAnswered`, `PauseReturns`): they need fairness and `ENABLED`.
* `HttpServer`: `onFinish`, which `_flush` and `abortIncoming` lead to, is a
  RECURSIVE operator, and the provers lose their arithmetic in its module.
* `ActsAtOnce`: that the text in the buffer may be shown before or after the text
  that follows it is a law of the fold in `ShowAll`, whose induction is not done.

The types of variables are a checked property of `EventLoop` alone; in
`OutputTty`, `WithinBuffers` has that part, and the proofs have their types
inside their invariants (`TypeInv`, `HistType`, `World \in WorldType`), which are
theorems.

## 5. What is left out

* The loop inside the loop: `process:loop()` called from a callback.
* Several lookups of one socket at a time: `connect` is not called again while
  one is under way.
* Chunks partly taken by the kernel (`boost::asio::async_write` hides that), and
  Unix domain sockets.
* Time in `Timer`: a wait may expire at any moment; that timers expire in the order
  of their timeouts is not modelled. Fractions of a second in `IdleTimers`.
* What a Lua program does with the data: a message is a number.
* `HttpServer`: `httpAllowHalfOpen`, upgrades, HEAD and the statuses without a
  body, the text of headers, parser recycling, events without an effect on the
  state, writes after finish, errors of listeners that change nothing beyond
  themselves (those of `request`, `aborted` and pending pieces are modelled). The
  headers of a request without a body arrive together with its end. The client
  and its agent.
* `SecureSocket`: certificates and `verifyPeer`, pauses. Its "close" and "error"
  events are those of `NetSocket`.
* `Datagram`: connected sockets, options, reading by lines.
* `OutputTty`: the attributes of single cells and the scroll position of the window;
  a resize during a write; the first call that fails decides the rest of a
  behaviour; the variant of UTF-8 start bytes for other compilers.
* `ConsoleInput`: a second stream on the same console, raw mode; `m_run` is read
  and written at once. (`Stop` does not wait for the reader: with a second stream,
  the old reader could take a key, or the FOCUS record meant for the new one.)
* `Terminal`: streams have descriptors of their own on one terminal; SIGCONT and
  the collection of a stream reset the mode as the code does, and nothing else.
* child_process raises an error on every call. fs, os, hrtime, constants,
  platform and logging ask the operating system and keep nothing. url,
  querystring, path, utils and console turn strings into strings.

## 6. Plan

In this order, each with its configuration and its properties:

1. `EventEmitter`: listeners added and removed while an event is being emitted,
   `once`.
2. `Pipe`: back pressure between two streams and the removal of the listeners
   when either end closes.
3. The http client: its agent's sockets and requests, and `FreeList`.
4. Theorems: `ActsAtOnce`; `HttpServer` with `onFinish` as a recursive function.
