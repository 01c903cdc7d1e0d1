------------------------------ MODULE Terminal ------------------------------
(* The terminal of a POSIX process: TtyStream (src/detail/posix/tty_stream   *)
(* .cpp) under tty.ReadStream (lib/luanode/tty.lua).  The streams are open   *)
(* on one terminal, each through a descriptor of its own.  The terminal's    *)
(* attributes outlive the process, which has to put them back: they are      *)
(* saved at the first switch to raw mode and restored by every destructor,   *)
(* at SIGCONT and at exit.                                                   *)
(* asio reads with m_inputArray as its buffer; the handler of a finished     *)
(* read is queued and runs later.  A chunk typed is a number.                *)
EXTENDS Integers, Sequences, FiniteSets

CONSTANTS Ttys, NoTty,
          MaxChunks, MaxOps   \* bounds: chunks typed, calls of the application

(* NoTty is no stream, and no descriptor either.                             *)
ASSUME NoTtyAssumption ==
    NoTty \notin Ttys \cup [dup : BOOLEAN, of : Ttys]

VARIABLES term,        \* the terminal's attributes
          origTermios, \* orig_termios and orig_termios_fd
          stream,      \* the TtyStream of each of Ttys
          reader,      \* the ReadStream over it
          stdinHandle, \* the module variable of tty.lua
          input,       \* chunks typed and not read
          ready,       \* handlers of finished reads, in order
          listening,   \* the stream whose `data' listener runs, or NoTty
          closing,     \* streams with a queued tick that emits `close'
          exited,
          hist         \* history and bounds

vars == <<term, origTermios, stream, reader, stdinHandle, input, ready, listening,
          closing, exited, hist>>
lua == <<reader, stdinHandle, listening, closing>>
io == <<stream, input, ready>>

NewStream == [made |-> FALSE, open |-> FALSE, mode |-> 0, saved |-> "cooked",
              reads |-> 0, array |-> 0]
NewReader == [paused |-> TRUE, readable |-> FALSE, handle |-> FALSE]

Init == /\ term = "cooked"
        /\ origTermios = [fd |-> NoTty, saved |-> "cooked"]
        /\ stream = [t \in Ttys |-> NewStream]
        /\ reader = [t \in Ttys |-> NewReader]
        /\ stdinHandle = NoTty
        /\ input = <<>> /\ ready = <<>> /\ listening = NoTty
        /\ closing = {} /\ exited = FALSE
        /\ hist = [typed |-> 0, ops |-> 0, halted |-> {}, raced |-> {},
                   threw |-> {}, got |-> <<>>]

Op == /\ ~exited /\ hist.ops < MaxOps
      /\ hist' = [hist EXCEPT !.ops = @ + 1]

(* Reads of a stream whose handler is not queued yet.                        *)
Queued(t) == {i \in DOMAIN ready : ready[i].tty = t}
InFlight(t) == stream[t].reads - Cardinality(Queued(t))

------------------------------------------------------------------------------
(* uv_tty_reset_mode, through the descriptor that was duplicated.            *)
NoDuplicate(t) == [dup |-> FALSE, of |-> t]   \* a mutant of Duplicate
Duplicate(t) == [dup |-> TRUE, of |-> t]
ResetMode(fds) == IF origTermios.fd # NoTty /\ (origTermios.fd.dup \/ fds[origTermios.fd.of].open)
                  THEN origTermios.saved ELSE term

Create(t) ==
    /\ Op /\ ~stream[t].made
    /\ stream' = [stream EXCEPT ![t].made = TRUE, ![t].open = TRUE]
    /\ reader' = [reader EXCEPT ![t] = [paused |-> TRUE, readable |-> TRUE, handle |-> TRUE]]
    /\ stdinHandle' = t
    /\ UNCHANGED <<term, origTermios, input, ready, listening, closing, exited>>

(* setRawMode of the stream, or of the module, which keeps the handle last   *)
(* made.  A second switch, or one on a closed descriptor, is an error.       *)
Reachable(t) == reader[t].handle \/ stdinHandle = t
SavedAtRaw(t) == IF origTermios.fd = NoTty
                 THEN [fd |-> Duplicate(t), saved |-> term] ELSE origTermios

RawModeOn(t) ==
    /\ Op /\ Reachable(t) /\ stream[t].open /\ stream[t].mode = 0
    /\ origTermios' = SavedAtRaw(t)
    /\ term' = "raw"
    /\ stream' = [stream EXCEPT ![t].mode = 1, ![t].saved = term]
    /\ UNCHANGED <<lua, input, ready, exited>>

(* tcsetattr with TCSAFLUSH throws away what was typed and not read.         *)
RawModeOff(t) ==
    /\ Op /\ Reachable(t) /\ stream[t].open /\ stream[t].mode = 1
    /\ term' = stream[t].saved
    /\ stream' = [stream EXCEPT ![t].mode = 0]
    /\ input' = <<>>
    /\ UNCHANGED <<lua, origTermios, ready, exited>>

(* ~TtyStream of another stream on the terminal that nobody refers to any    *)
(* more, and HandleSIGCONT.                                                  *)
Reset ==
    /\ Op /\ term' = ResetMode(stream)
    /\ UNCHANGED <<lua, io, origTermios, exited>>

(* The end of main, process:exit or a fatal error: AtExit, and the           *)
(* destructors of the streams that are left.                                 *)
Exit ==
    /\ ~exited /\ exited' = TRUE
    /\ term' = ResetMode(stream)
    /\ UNCHANGED <<lua, io, origTermios, hist>>

------------------------------------------------------------------------------
(* TtyStream::Read.                                                          *)
Reading(t) == [stream EXCEPT ![t].reads = @ + 1]

(* The streams paused, or resumed in their listener, with a read under way   *)
(* are hist.halted until it is handled; those that then started another one  *)
(* are hist.raced.                                                           *)
Pause(t) ==
    /\ ~exited /\ hist.ops < MaxOps
    /\ reader[t].handle /\ ~reader[t].paused
    /\ reader' = [reader EXCEPT ![t].paused = TRUE]
    /\ hist' = [hist EXCEPT !.ops = @ + 1,
                            !.halted = IF stream[t].reads > 0
                                       THEN @ \cup {t} ELSE @]
    /\ UNCHANGED <<io, term, origTermios, stdinHandle, listening, closing, exited>>

(* A resume soon after a pause finds the former read still under way.        *)
Resume(t) ==
    /\ ~exited /\ hist.ops < MaxOps
    /\ reader[t].readable /\ reader[t].paused
    /\ reader' = [reader EXCEPT ![t].paused = FALSE]
    /\ stream' = Reading(t)
    /\ hist' = [hist EXCEPT !.ops = @ + 1,
                            !.halted = IF listening = t THEN @ \cup {t} ELSE @,
                            !.raced = IF t \in hist.halted
                                      THEN @ \cup {t} ELSE @]
    /\ UNCHANGED <<term, origTermios, stdinHandle, input, ready, listening, closing, exited>>

(* ReadStream:destroy closes the descriptor; the reads under way are         *)
(* aborted, and their handlers find an empty callback.                       *)
Destroy(t) ==
    /\ Op /\ reader[t].readable
    /\ reader' = [reader EXCEPT ![t].readable = FALSE, ![t].handle = FALSE]
    /\ stream' = [stream EXCEPT ![t].open = FALSE]
    /\ ready' = ready \o [i \in 1 .. InFlight(t) |-> [tty |-> t, result |-> "aborted"]]
    /\ closing' = closing \cup {t}
    /\ UNCHANGED <<term, origTermios, stdinHandle, input, listening, exited>>

EmitClose(t) ==
    /\ ~exited /\ listening = NoTty /\ t \in closing
    /\ closing' = closing \ {t}
    /\ UNCHANGED <<io, term, origTermios, reader, stdinHandle, listening, exited, hist>>

------------------------------------------------------------------------------
(* The terminal: somebody types, a read takes what is there into             *)
(* m_inputArray, or finds the end of the input.                              *)
Type ==
    /\ ~exited /\ hist.typed < MaxChunks
    /\ hist' = [hist EXCEPT !.typed = @ + 1]
    /\ input' = Append(input, hist.typed + 1)
    /\ UNCHANGED <<lua, stream, ready, term, origTermios, exited>>

ReadData(t) ==
    /\ ~exited /\ InFlight(t) > 0 /\ stream[t].open /\ input # <<>>
    /\ stream' = [stream EXCEPT ![t].array = Head(input)]
    /\ input' = Tail(input)
    /\ ready' = Append(ready, [tty |-> t, result |-> "data"])
    /\ UNCHANGED <<lua, term, origTermios, exited, hist>>

ReadEof(t) ==
    /\ ~exited /\ InFlight(t) > 0 /\ stream[t].open /\ input = <<>>
    /\ ready' = Append(ready, [tty |-> t, result |-> "eof"])
    /\ UNCHANGED <<lua, stream, input, term, origTermios, exited, hist>>

(* HandleReadSome: the read_callback of ReadStream, unless destroy replaced  *)
(* it.  An end makes destroy return at once: readable is already false.      *)
Handling(t, result) ==
    /\ ~exited /\ listening = NoTty /\ ready # <<>>
    /\ Head(ready) = [tty |-> t, result |-> result]
    /\ ready' = Tail(ready)
    /\ stream' = [stream EXCEPT ![t].reads = @ - 1]

HandleData(t) ==
    /\ Handling(t, "data") /\ reader[t].handle
    /\ listening' = t
    /\ hist' = [hist EXCEPT !.got = Append(@, [tty |-> t, chunk |-> stream[t].array]),
                            !.halted = @ \ {t}]
    /\ UNCHANGED <<term, origTermios, reader, stdinHandle, input, closing, exited>>

HandleEof(t) ==
    /\ Handling(t, "eof") /\ reader[t].handle
    /\ reader' = [reader EXCEPT ![t].readable = FALSE]
    /\ hist' = [hist EXCEPT !.halted = @ \ {t}]
    /\ UNCHANGED <<term, origTermios, stdinHandle, input, listening, closing, exited>>

HandleDestroyed(t) ==
    /\ \E result \in {"data", "eof", "aborted"} : Handling(t, result)
    /\ ~reader[t].handle
    /\ UNCHANGED <<lua, term, origTermios, input, exited, hist>>

(* The end of read_callback: another read, unless a listener paused or       *)
(* destroyed the stream.                                                     *)
ReadsOnNever(t) == FALSE                     \* a mutant of ReadsOn
ReadsOnPaused(t) == reader[t].handle         \* another: also if it is paused
ReadsOn(t) == reader[t].handle /\ ~reader[t].paused

ListenerReturns ==
    /\ ~exited /\ listening # NoTty
    /\ stream' = IF ReadsOn(listening) THEN Reading(listening) ELSE stream
    /\ hist' = [hist EXCEPT !.raced =
                    IF ReadsOn(listening) /\ listening \in hist.halted
                    THEN @ \cup {listening} ELSE @]
    /\ listening' = NoTty
    /\ UNCHANGED <<reader, stdinHandle, closing, term, origTermios, input, ready, exited>>

ListenerThrows ==
    /\ ~exited /\ listening # NoTty
    /\ hist' = [hist EXCEPT !.threw = @ \cup {listening}]
    /\ listening' = NoTty
    /\ UNCHANGED <<io, reader, stdinHandle, closing, term, origTermios, exited>>

App(t) == \/ Create(t) \/ RawModeOn(t) \/ RawModeOff(t)
          \/ Pause(t) \/ Resume(t) \/ Destroy(t)
Events(t) == \/ ReadData(t) \/ ReadEof(t) \/ EmitClose(t)
             \/ HandleData(t) \/ HandleEof(t) \/ HandleDestroyed(t)

Next == \/ \E t \in Ttys : App(t) \/ Events(t)
        \/ Reset \/ Exit \/ Type \/ ListenerReturns \/ ListenerThrows

Spec == Init /\ [][Next]_vars

------------------------------------------------------------------------------
(* The process leaves the terminal as it found it, whichever streams were    *)
(* in raw mode, in whichever order they were switched, and although the      *)
(* descriptor the attributes were read from may be closed: AtExit restores   *)
(* the attributes of the first switch through a descriptor of its own.       *)
RestoredAtExit == exited => term = "cooked"

(* What the data listeners get is what was typed.  A stream never goes back, *)
(* although all its reads share m_inputArray: also with two of them under    *)
(* way (hist.raced), when a chunk may come twice in place of the one before. *)
(* The streams of which that is not so, whichever of them reads what, get    *)
(* together every chunk at most once, in the order typed: m_inputArray is    *)
(* not overwritten between the end of a read and its handler.                *)
InputInOrder ==
    \A i, j \in DOMAIN hist.got : i < j =>
        LET a == hist.got[i] b == hist.got[j] IN
        /\ a.tty = b.tty => a.chunk <= b.chunk
        /\ {a.tty, b.tty} \cap hist.raced = {} => a.chunk < b.chunk

(* A stream that is not paused has a read under way (or its listener running *)
(* that will start one), so it cannot go deaf, unless a listener threw.      *)
KeepsReading ==
    \A t \in Ttys : reader[t].readable /\ ~reader[t].paused /\ listening # t /\ ~exited
                        /\ t \notin hist.threw
                    => stream[t].reads > 0
==============================================================================
