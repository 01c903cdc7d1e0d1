------------------------------ MODULE EventLoop ------------------------------
(***************************************************************************)
(* The main loop of LuaNode: process.nextTick and _tickcallback (node.lua), *)
(* the Tick handlers posted to the Asio io_service, uncaught errors         *)
(* (FatalError), process:exit, signals and the exit status (luanode.cpp).   *)
(*                                                                          *)
(* Lua runs on one thread.  `stack` is the stack of activations, innermost  *)
(* first; the code of the application runs in the frames of UserFrames and  *)
(* may call the API below any number of times before it returns or throws.  *)
(* Callbacks are numbered in the order of the nextTick calls.               *)
(***************************************************************************)
EXTENDS Integers, Sequences

CONSTANTS
    Codes,          \* the exit codes the application passes to process:exit
    MaxCallbacks,   \* bound: nextTick calls made by the application
    MaxWork         \* bound: asynchronous operations it starts

ASSUME CodesAssumption == Codes \subseteq Nat /\ 0 \in Codes /\ 1 \in Codes
ASSUME BoundsAssumption == MaxCallbacks \in Nat /\ MaxWork \in Nat

VARIABLES
    queue,          \* nextTickQueue: the numbers of the callbacks
    pos,            \* i in _tickcallback, 0 when it is not running
    snapshot,       \* l in _tickcallback
    ticks,          \* Tick handlers posted to the io_service and not run
    work,           \* other operations outstanding in the io_service
    stopped,        \* the io_service is stopped
    stack,          \* activations, innermost first
    counter,        \* uncaught_exception_counter
    errListener,    \* process has a listener for "unhandledError"
    exitListener,   \* process has a listener for "exit"
    exitEmitted,    \* process._exit_already_emitted
    exitTick,       \* number of the closure queued by process:exit, 0: none
    exitArg,        \* the code that closure passes to process._exit
    exit_code,      \* the global of luanode.cpp
    result,         \* what Load returns to main
    issued,         \* history: callbacks handed over so far
    started,        \* history: asynchronous operations started so far
    askedInLoop,    \* history: process:exit took effect while loop() ran
    aborted         \* history: stopped by a signal or a recursive error

queueVars == <<queue, pos, snapshot, ticks, issued>>
ioVars == <<work, stopped, started>>
exitVars == <<exitListener, exitEmitted, exitTick, exitArg, askedInLoop>>
endVars == <<exit_code, result>>
errVars == <<counter, errListener, aborted>>
vars == <<queueVars, ioVars, stack, errVars, exitVars, endVars>>

Frames == {"script", "loop", "tick", "io", "error", "fatal", "unhandled",
           "exitEmit", "finalEmit", "failed", "failEmit"}

(* Frames that run code of the application: the main script, nextTick and   *)
(* I/O callbacks, and the listeners of "unhandledError" and "exit".         *)
UserFrames == {"script", "tick", "io", "unhandled",
               "exitEmit", "finalEmit", "failEmit"}

Top == Head(stack)
InLoop == \E i \in 1..Len(stack) : stack[i] = "loop"
Running(f) == stack # <<>> /\ Top = f
InExitClosure == Running("tick") /\ pos > 0 /\ queue[pos] = exitTick
InUserCode == stack # <<>> /\ Top \in UserFrames /\ ~InExitClosure

Replace(frames) == stack' = frames \o Tail(stack)

Init ==
    /\ queue = <<>> /\ pos = 0 /\ snapshot = 0 /\ ticks = 0 /\ issued = 0
    /\ work = 0 /\ stopped = FALSE /\ started = 0
    /\ stack = <<"script">>
    /\ counter = 0 /\ errListener = FALSE /\ aborted = FALSE
    /\ exitListener = FALSE /\ exitEmitted = FALSE /\ exitTick = 0
    /\ exitArg = 0 /\ askedInLoop = FALSE
    /\ exit_code = 0 /\ result = 0

------------------------------------------------------------------------------
(* process.nextTick: append to the array, post one more Tick.               *)

(* Mutation: Ticks are coalesced, as the flag need_tick_cb suggests.        *)
EnqueueCoalesced ==
    /\ issued' = issued + 1
    /\ queue' = Append(queue, issued + 1)
    /\ ticks' = IF ticks = 0 THEN 1 ELSE ticks
    /\ UNCHANGED <<pos, snapshot>>

Enqueue ==
    /\ issued' = issued + 1
    /\ queue' = Append(queue, issued + 1)
    /\ ticks' = ticks + 1
    /\ UNCHANGED <<pos, snapshot>>

NextTick ==
    /\ InUserCode
    /\ issued < MaxCallbacks
    /\ Enqueue
    /\ UNCHANGED <<ioVars, stack, errVars, exitVars, endVars>>

(* The application starts an asynchronous operation (a timer, a read...).   *)
StartWork ==
    /\ InUserCode
    /\ started < MaxWork
    /\ started' = started + 1
    /\ work' = work + 1
    /\ UNCHANGED <<stopped, queueVars, stack, errVars, exitVars, endVars>>

(* process:on("exit"), process:on("unhandledError"), and removing the latter *)
ListenExit ==
    /\ InUserCode
    /\ ~exitListener
    /\ exitListener' = TRUE
    /\ UNCHANGED <<exitEmitted, exitTick, exitArg, askedInLoop>>
    /\ UNCHANGED <<queueVars, ioVars, stack, errVars, endVars>>

ListenErrors ==
    /\ InUserCode
    /\ errListener' = ~errListener
    /\ UNCHANGED <<counter, aborted>>
    /\ UNCHANGED <<queueVars, ioVars, stack, exitVars, endVars>>

------------------------------------------------------------------------------
(* process:exit(code).  The listeners run in a frame of their own when there *)
(* are some; then they are removed and the closure that calls _exit is       *)
(* handed to nextTick.                                                       *)

QueueExit(code) ==
    /\ Enqueue
    /\ exitTick' = issued + 1
    /\ exitArg' = code
    /\ exitListener' = FALSE

(* `frames` replaces the activation that calls process:exit.                *)
ProcessExit(code, frames) ==
    /\ exitEmitted' = TRUE
    /\ askedInLoop' = InLoop
    /\ IF exitListener
       THEN /\ Replace(<<"exitEmit">> \o frames)
            /\ exitArg' = code
            /\ UNCHANGED <<queueVars, exitListener, exitTick>>
       ELSE /\ Replace(frames)
            /\ QueueExit(code)

Exit(code) ==
    /\ InUserCode
    /\ ~exitEmitted
    /\ ProcessExit(code, <<Top>>)
    /\ UNCHANGED <<ioVars, errVars, endVars>>

(* The listeners of "exit" return or throw: process:exit calls them with    *)
(* pcall and goes on.                                                       *)
ExitListenersDone ==
    /\ Running("exitEmit")
    /\ Replace(<<>>)
    /\ QueueExit(exitArg)
    /\ UNCHANGED <<exitEmitted, askedInLoop, ioVars, errVars, endVars>>

------------------------------------------------------------------------------
(* Loop and io_service::run.  Run returns when the service is stopped or    *)
(* out of work, and leaves it stopped: nothing calls reset().               *)

Loop ==
    /\ Running("script")
    /\ Replace(<<"loop", "script">>)
    /\ UNCHANGED <<queueVars, ioVars, errVars, exitVars, endVars>>

RunReturns ==
    /\ Running("loop")
    /\ stopped \/ (ticks = 0 /\ work = 0)
    /\ stopped' = TRUE
    /\ Replace(<<>>)
    /\ UNCHANGED <<work, started, queueVars, errVars, exitVars, endVars>>

(* A posted Tick runs _tickcallback, which runs the callbacks that are in   *)
(* the queue now, and leaves those they add to a later Tick.                *)
Tick ==
    /\ Running("loop")
    /\ ~stopped
    /\ ticks > 0
    /\ ticks' = ticks - 1
    /\ IF queue = <<>>
       THEN UNCHANGED <<pos, snapshot, stack>>
       ELSE /\ pos' = 1
            /\ snapshot' = Len(queue)
            /\ Replace(<<"tick", "loop">>)
    /\ UNCHANGED <<queue, issued, ioVars, errVars, exitVars, endVars>>

IoEvent ==
    /\ Running("loop")
    /\ ~stopped
    /\ work > 0
    /\ work' = work - 1
    /\ Replace(<<"io", "loop">>)
    /\ UNCHANGED <<stopped, started, queueVars, errVars, exitVars, endVars>>

(* Mutation: the splice keeps one element too many.                         *)
spliceOffByOne(array, from) == SubSeq(array, from - 1, Len(array))

splice(array, from) == SubSeq(array, from, Len(array))

(* The callback at pos ended: go to the next one of the snapshot, or drop   *)
(* the snapshot from the queue.                                             *)
CallbackEnded ==
    /\ IF pos < snapshot
       THEN pos' = pos + 1 /\ UNCHANGED <<queue, snapshot, stack>>
       ELSE /\ queue' = splice(queue, snapshot + 1)
            /\ pos' = 0
            /\ snapshot' = 0
            /\ Replace(<<>>)
    /\ UNCHANGED <<ticks, issued>>

CallbackReturns ==
    /\ Running("tick")
    /\ ~InExitClosure
    /\ CallbackEnded
    /\ UNCHANGED <<ioVars, errVars, exitVars, endVars>>

(* Mutation: _exit does not record the code.                                *)
ExitClosureDropsCode ==
    /\ InExitClosure
    /\ stopped' = TRUE
    /\ CallbackEnded
    /\ UNCHANGED <<work, started, endVars, errVars, exitVars>>

(* Mutation: _exit does not stop the io_service.                            *)
ExitClosureKeepsRunning ==
    /\ InExitClosure
    /\ exit_code' = exitArg
    /\ CallbackEnded
    /\ UNCHANGED <<ioVars, result, errVars, exitVars>>

(* The closure of process:exit calls _exit, which stops the io_service.     *)
ExitClosure ==
    /\ InExitClosure
    /\ stopped' = TRUE
    /\ exit_code' = exitArg
    /\ CallbackEnded
    /\ UNCHANGED <<work, started, result, errVars, exitVars>>

(* An I/O callback returns.                                                 *)
IoReturns ==
    /\ Running("io")
    /\ Replace(<<>>)
    /\ UNCHANGED <<queueVars, ioVars, errVars, exitVars, endVars>>

------------------------------------------------------------------------------
(* Errors.  A callback that throws in _tickcallback is removed with the     *)
(* callbacks before it; the ones after it stay for a later Tick.            *)

CallbackThrows ==
    /\ Running("tick")
    /\ ~InExitClosure
    /\ queue' = splice(queue, pos + 1)
    /\ pos' = 0
    /\ snapshot' = 0
    /\ Replace(<<"error">>)
    /\ UNCHANGED <<ticks, issued, ioVars, errVars, exitVars, endVars>>

(* An error in an I/O callback or in the "unhandledError" listener is       *)
(* caught by lua_pcall and reported to FatalError by CLuaVM::OnError.       *)
HandlerThrows ==
    /\ stack # <<>> /\ Top \in {"io", "unhandled"}
    /\ Replace(<<"error">>)
    /\ UNCHANGED <<queueVars, ioVars, errVars, exitVars, endVars>>

(* FatalError.  A recursive error stops the loop; an "unhandledError"       *)
(* listener is called if there is one; otherwise process:exit(1).           *)
FatalError ==
    /\ Running("error")
    /\ \/ /\ counter > 0
          /\ stopped' = TRUE
          /\ aborted' = TRUE
          /\ Replace(<<>>)
          /\ UNCHANGED <<work, started, counter, queueVars, exitVars>>
       \/ /\ counter = 0 /\ errListener
          /\ counter' = counter + 1
          /\ Replace(<<"unhandled", "fatal">>)
          /\ UNCHANGED <<aborted, queueVars, ioVars, exitVars>>
       \/ /\ counter = 0 /\ ~errListener /\ exitEmitted
          /\ Replace(<<>>)
          /\ UNCHANGED <<counter, aborted, queueVars, ioVars, exitVars>>
       \/ /\ counter = 0 /\ ~errListener /\ ~exitEmitted
          /\ counter' = counter + 1
          /\ ProcessExit(1, <<"fatal">>)
          /\ UNCHANGED <<aborted, ioVars>>
    /\ UNCHANGED <<errListener, endVars>>

UnhandledReturns ==
    /\ Running("unhandled")
    /\ Replace(<<>>)
    /\ UNCHANGED <<queueVars, ioVars, errVars, exitVars, endVars>>

(* Mutation: the counter is not restored when the error was handled.        *)
FatalReturnsKeepsCounter ==
    /\ Running("fatal")
    /\ Replace(<<>>)
    /\ UNCHANGED <<queueVars, ioVars, errVars, exitVars, endVars>>

(* Mutation: the counter is decremented twice.                              *)
FatalReturnsTwice ==
    /\ Running("fatal")
    /\ counter' = counter - 2
    /\ Replace(<<>>)
    /\ UNCHANGED <<errListener, aborted>>
    /\ UNCHANGED <<queueVars, ioVars, exitVars, endVars>>

FatalReturns ==
    /\ Running("fatal")
    /\ counter' = counter - 1
    /\ Replace(<<>>)
    /\ UNCHANGED <<errListener, aborted>>
    /\ UNCHANGED <<queueVars, ioVars, exitVars, endVars>>

(* SIGINT, SIGTERM.                                                         *)
SignalExit ==
    /\ stack # <<>>
    /\ ~aborted
    /\ stopped' = TRUE
    /\ aborted' = TRUE
    /\ UNCHANGED <<work, started, queueVars, stack, counter, errListener>>
    /\ UNCHANGED <<exitVars, endVars>>

------------------------------------------------------------------------------
(* The end of the program.                                                  *)

(* The script returns (its value becomes the result); node.lua emits "exit" *)
(* unless process:exit already did.                                         *)
ScriptReturns ==
    /\ Running("script")
    /\ \E r \in Codes : result' = r
    /\ Replace(IF ~exitEmitted /\ exitListener THEN <<"finalEmit">> ELSE <<>>)
    /\ UNCHANGED <<queueVars, ioVars, errVars, exitVars, exit_code>>

(* The script, or a listener of its final "exit", throws: FatalError, and   *)
(* then Load emits "exit" and returns EXIT_FAILURE.                         *)
ScriptThrows ==
    /\ stack # <<>> /\ Top \in {"script", "finalEmit"}
    /\ result' = 1
    /\ Replace(<<"error", "failed">>)
    /\ UNCHANGED <<queueVars, ioVars, errVars, exitVars, exit_code>>

LoadFails ==
    /\ Running("failed")
    /\ Replace(IF exitListener THEN <<"failEmit">> ELSE <<>>)
    /\ UNCHANGED <<queueVars, ioVars, errVars, exitVars, endVars>>

LastListenersReturn ==
    /\ stack # <<>> /\ Top \in {"finalEmit", "failEmit"}
    /\ Replace(<<>>)
    /\ UNCHANGED <<queueVars, ioVars, errVars, exitVars, endVars>>

LastListenersThrow ==
    /\ Running("failEmit")
    /\ Replace(<<"error">>)
    /\ UNCHANGED <<queueVars, ioVars, errVars, exitVars, endVars>>

(* main returns; there is nothing left to do.                               *)
Terminated == stack = <<>> /\ UNCHANGED vars

ExitStatus == IF exit_code # 0 THEN exit_code ELSE result

------------------------------------------------------------------------------
Application ==
    \/ NextTick \/ StartWork \/ ListenExit \/ ListenErrors
    \/ \E code \in Codes : Exit(code)
    \/ Loop

Leave ==
    \/ ExitListenersDone \/ CallbackReturns \/ CallbackThrows \/ ExitClosure
    \/ IoReturns \/ HandlerThrows \/ UnhandledReturns
    \/ ScriptReturns \/ ScriptThrows \/ LastListenersReturn
    \/ LastListenersThrow

System == RunReturns \/ Tick \/ FatalError \/ FatalReturns \/ LoadFails

Next == Application \/ Leave \/ System \/ IoEvent \/ SignalExit \/ Terminated

(* Every callback ends sooner or later, and io_service::run keeps taking    *)
(* posted handlers.  Nothing is assumed of the outside world: an operation  *)
(* need never complete (no fairness on IoEvent), a signal need never come.  *)
Fairness == WF_vars(Leave) /\ WF_vars(System) /\ SF_vars(Tick)

Spec == Init /\ [][Next]_vars /\ Fairness

------------------------------------------------------------------------------
TypeOK ==
    /\ queue \in Seq(Nat \ {0})
    /\ pos \in Nat /\ snapshot \in Nat /\ ticks \in Nat /\ issued \in Nat
    /\ pos <= snapshot /\ snapshot <= Len(queue)
    /\ work \in Nat /\ started \in Nat /\ stopped \in BOOLEAN
    /\ stack \in Seq(Frames)
    /\ counter \in Nat /\ errListener \in BOOLEAN /\ aborted \in BOOLEAN
    /\ exitListener \in BOOLEAN /\ exitEmitted \in BOOLEAN
    /\ exitTick \in Nat /\ exitArg \in Codes /\ askedInLoop \in BOOLEAN
    /\ exit_code \in Codes /\ result \in Codes

(* The callbacks handed to nextTick that have not been started.             *)
Waiting == SubSeq(queue, pos + 1, Len(queue))
Current == IF pos = 0 THEN 0 ELSE queue[pos]

(* Every callback waiting in nextTickQueue is covered by a Tick that is     *)
(* still posted: _tickcallback may leave callbacks behind (added while it   *)
(* ran, or following one that threw), and nothing posts a Tick for them     *)
(* again, so a missing one would leave them waiting for ever.               *)
EveryCallbackHasATick == Len(Waiting) <= ticks

(* The array, the snapshot and the splice of node.lua implement a queue:    *)
(* callbacks start once each and in the order of the nextTick calls, also   *)
(* when callbacks add callbacks and when one of them throws.                *)
AbstractQueue == INSTANCE TickQueue WITH waiting <- Waiting, current <- Current
RunsInOrder == AbstractQueue!Spec

(* uncaught_exception_counter counts the FatalError calls in progress, and  *)
(* there is never more than one: an error raised while an error is being    *)
(* handled is not handed to the "unhandledError" listener again.            *)
NoNestedErrorHandling ==
    /\ counter <= 1
    /\ (counter = 1) <=> (\E i \in 1..Len(stack) : stack[i] = "fatal")

(* A process:exit that takes effect while loop() runs sets the code that    *)
(* loop() returns to the script, whatever runs, throws or calls process:exit *)
(* afterwards (an uncaught error included), unless a signal or a recursive  *)
(* error stops the loop first.  The process ends with that code, except for *)
(* the code 0: main cannot tell it from a program that never called exit,   *)
(* and ends with what the script returned, or with 1 when it threw after    *)
(* loop() returned.                                                         *)
ExitCodeHonoured ==
    askedInLoop /\ ~InLoop /\ ~aborted =>
        /\ exit_code = exitArg
        /\ stack = <<>> => ExitStatus = IF exitArg # 0 THEN exitArg ELSE result

(* A callback waiting while the loop runs is started, or the loop has been  *)
(* stopped.                                                                 *)
CallbacksRun ==
    \A n \in 1..(MaxCallbacks + 1) :
        (InLoop /\ \E i \in 1..Len(Waiting) : Waiting[i] = n)
            ~> (Current = n \/ stopped)

(* process:exit called in the loop ends it, even with I/O outstanding.      *)
ExitEndsLoop == (InLoop /\ exitEmitted) ~> ~InLoop
==============================================================================
