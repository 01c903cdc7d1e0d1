------------------------------ MODULE OutputTty ------------------------------
(* OutputTtyStream (src/detail/windows/output_tty.cpp): the stdout and       *)
(* stderr of a Windows console.  Write runs ProcessMessage, which works on   *)
(* cached copies of the parser's state, collects text in utf16_buf, flushes  *)
(* it when it is full, before a command and at the end, and copies the cache *)
(* back.  A console call that fails sets `error': the rest of the message is *)
(* parsed and not shown.  The streams share the console and the virtual      *)
(* window.  The user resizes the console between two writes.                 *)
EXTENDS WindowsConsole, FiniteSets

CONSTANTS Streams, Sizes,
          Messages,   \* the sequences of bytes an application writes
          BufSize,    \* ARRAY_SIZE(utf16_buf)
          MaxWrites, MaxUserActions

Bytes == UNION {Range(m) : m \in Messages}

ASSUME TtyAssumption ==
    /\ Messages \subseteq Seq(Bytes)
    /\ BufSize \in Nat /\ BufSize >= 2
    /\ Sizes \subseteq [w : Nat \ {0}, h : Nat \ {0}, rows : Nat \ {0}]
    /\ \A size \in Sizes : size.rows <= size.h

VARIABLES context,   \* of each stream: the parser's state in m_tty_context
          saved,     \* of each stream: the saved state in m_tty_context
          screen,    \* the console and the virtual window
          job,       \* the ProcessMessage that is running, or Idle
          failed,    \* history: a console call has failed
          cut,       \* history: the user has cut off the window's first row
          writes, userActions

vars == <<context, saved, screen, job, failed, cut, writes, userActions>>

Idle == [running |-> FALSE]

Init == /\ context = [s \in Streams |-> NewParser]
        /\ (\E found \in {NothingSaved, Garbage} : saved = [s \in Streams |-> found])
        /\ \E size \in Sizes : screen = NewScreen(size)
        /\ job = Idle /\ failed = FALSE /\ cut = FALSE /\ writes = 0 /\ userActions = 0

------------------------------------------------------------------------------
(* OutputTtyStream::Write: ProcessMessage caches the stream's parser.        *)
Write(s, m) ==
    /\ ~job.running /\ writes < MaxWrites
    /\ job' = [running |-> TRUE, stream |-> s, rest |-> m, parser |-> context[s],
               effects |-> <<>>, buf |-> <<>>, error |-> FALSE]
    /\ writes' = writes + 1
    /\ UNCHANGED <<context, saved, screen, failed, cut, userActions>>

(* One turn of the loop over the message; what it has to show comes next.    *)
ReadByte ==
    /\ job.running /\ job.effects = <<>> /\ job.rest # <<>>
    /\ LET r == ParseByte(job.parser, Head(job.rest))
       IN  job' = [job EXCEPT !.rest = Tail(@), !.parser = r.parser,
                              !.effects = r.effects]
    /\ UNCHANGED <<context, saved, screen, failed, cut, writes, userActions>>

(* What a flush can leave: [screen, error].  After an error nothing is       *)
(* written; the first console call of a behaviour that fails may be any one. *)
MayFail == ~failed
Flushed ==
    IF job.buf = <<>> \/ job.error
    THEN {[screen |-> screen, error |-> job.error]}
    ELSE {[screen |-> WriteText(screen, job.buf), error |-> FALSE]}
         \cup {[screen |-> screen, error |-> TRUE] : f \in {TRUE} \cap {MayFail}}

Effect == Head(job.effects)
AtEffect == job.running /\ job.effects # <<>>

Ends(error) == /\ failed' = (failed \/ error)
               /\ UNCHANGED <<context, cut, writes, userActions>>

Put ==
    /\ AtEffect /\ Effect.does = "text"
    /\ Len(job.buf) + Len(Effect.text) <= BufSize
    /\ job' = [job EXCEPT !.effects = Tail(@), !.buf = @ \o Effect.text]
    /\ UNCHANGED <<context, saved, screen, failed, cut, writes, userActions>>

(* No room in utf16_buf: it is flushed first.                                *)
PutFull ==
    /\ AtEffect /\ Effect.does = "text"
    /\ Len(job.buf) + Len(Effect.text) > BufSize
    /\ \E f \in Flushed :
          /\ screen' = f.screen
          /\ job' = [job EXCEPT !.effects = Tail(@), !.buf = Effect.text, !.error = f.error]
          /\ Ends(f.error)
    /\ UNCHANGED saved

(* Where a command leaves the screen if one of its console calls fails.      *)
(* move_caret goes on with an uninitialised `info' when it cannot read the   *)
(* real one, for the virtual window as well as for the caret, and            *)
(* restore_state goes on behind it.                                          *)
Rows == UNION {0 .. size.h : size \in Sizes}
CaretAnywhere(scr) ==
    {PutCaret([scr EXCEPT !.offset = row], x, y) :
         row \in Rows, x \in 0 .. scr.w - 1, y \in 0 .. scr.h - 1}
Unrestored(scr, own) == IF own.position THEN CaretAnywhere(scr) ELSE {}

HalfDone(scr, own, c, done) ==
    CASE c = "ESCc" -> {scr, ResetPen(scr), HomeCaret(ResetPen(scr)), Wiped(scr)}
      [] c \in Moves -> CaretAnywhere(scr)
      [] c \in Erases -> {scr, UpdateVirtualWindow(scr), done}
      [] c = "u" -> Unrestored(scr, own)
      [] c = "ESC8" -> {RestorePosition(scr, own)} \cup Unrestored(scr, own)
                       \cup {RestoreAttributes(t, own) : t \in Unrestored(scr, own)}
      [] OTHER -> {scr}

CallsConsole(effect, own) ==
    /\ effect.does \in Erases => Arg(effect.args, 0) \in 0 .. 2
    /\ effect.does = "u" => own.position
    /\ effect.does = "ESC8" => own.position \/ own.attributes

(* A command flushes the text before it, then does its own calls, unless an  *)
(* error came first; tty_SetStyle is the one that does not look.             *)
RunCommand ==
    /\ AtEffect /\ Effect.does # "text"
    /\ \E f \in Flushed :
          LET s == job.stream
              done == Run(f.screen, saved[s], Effect.does, Effect.args)
              next(error) == [job EXCEPT !.effects = Tail(@), !.buf = <<>>, !.error = error]
          IN  \/ /\ ~f.error \/ Effect.does = "m"
                 /\ screen' = done.screen
                 /\ saved' = [saved EXCEPT ![s] = done.saved]
                 /\ job' = next(f.error) /\ Ends(f.error)
              \/ /\ f.error
                 /\ screen' = f.screen
                 /\ job' = next(TRUE) /\ Ends(TRUE) /\ UNCHANGED saved
              \/ /\ ~f.error /\ MayFail /\ CallsConsole(Effect, saved[s])
                 /\ screen' \in HalfDone(f.screen, saved[s], Effect.does, done.screen)
                 /\ job' = next(TRUE) /\ Ends(TRUE) /\ UNCHANGED saved

FinishDropsBytes ==   \* a mutant of Finish: an unfinished character is lost
    /\ job.running /\ job.effects = <<>> /\ job.rest = <<>>
    /\ \E f \in Flushed : screen' = f.screen /\ failed' = (failed \/ f.error)
    /\ context' = [context EXCEPT ![job.stream] = [job.parser EXCEPT !.left = 0, !.lead = "none"]]
    /\ job' = Idle
    /\ UNCHANGED <<saved, cut, writes, userActions>>

(* The end of the message: the last flush, and the cache is copied back.     *)
Finish ==
    /\ job.running /\ job.effects = <<>> /\ job.rest = <<>>
    /\ \E f \in Flushed :
          /\ screen' = f.screen
          /\ failed' = (failed \/ f.error)
    /\ context' = [context EXCEPT ![job.stream] = job.parser]
    /\ job' = Idle
    /\ UNCHANGED <<saved, cut, writes, userActions>>

------------------------------------------------------------------------------
GetWindowSize ==
    /\ ~job.running /\ userActions < MaxUserActions
    /\ screen' = UpdateVirtualWindow(screen)
    /\ userActions' = userActions + 1
    /\ UNCHANGED <<context, saved, job, failed, cut, writes>>

Resize(size) ==
    /\ ~job.running /\ userActions < MaxUserActions
    /\ screen' = Resized(screen, size)
    /\ cut' = (cut \/ size.h <= screen.offset)
    /\ userActions' = userActions + 1
    /\ UNCHANGED <<context, saved, job, failed, writes>>

Next == \/ \E s \in Streams, m \in Messages : Write(s, m)
        \/ ReadByte \/ Put \/ PutFull \/ RunCommand \/ Finish
        \/ GetWindowSize
        \/ \E size \in Sizes : Resize(size)

Spec == Init /\ [][Next]_vars

------------------------------------------------------------------------------
(* OutputTty implements DirectConsole: text in utf16_buf counts as shown,    *)
(* and so do the effects of the byte just read.                              *)
Direct == INSTANCE DirectConsole WITH
              parser <- [s \in Streams |-> IF job.running /\ job.stream = s
                                           THEN job.parser ELSE context[s]],
              shown <- IF failed THEN [known |-> FALSE]
                       ELSE LET d == [known |-> TRUE, screen |-> screen, saved |-> saved]
                            IN  IF job.running
                                THEN ShowAll([d EXCEPT !.screen = WriteText(@, job.buf)],
                                             job.stream, job.effects)
                                ELSE d

(* Chunks, buffer and cache are invisible: what a stream wrote is on screen  *)
(* as if each byte of ProcessMessage's message had acted when it came, and a *)
(* console call that fails leaves every parser where the bytes put it.       *)
ActsAtOnce == Direct!DSpec

ParserOK(p) == /\ p.left \in 0 .. 6 /\ (p.left = 0) = (p.lead = "none")
               /\ p.state \subseteq StateFlags /\ Consistent(p.state)
               /\ Len(p.args) <= MaxArgs /\ Range(p.args) \subseteq 0 .. UShortMax
               /\ p.eol \in Eols \cup {"none"}
               /\ "IN_ARG" \in p.state => p.args # <<>>

(* The parser is in a state the chain of tests in ProcessMessage knows, so   *)
(* abort() is not reached, with whatever bytes a message begins and ends;    *)
(* its arguments fit in ansi_csi_argv and in an unsigned short; the text     *)
(* fits in utf16_buf.                                                        *)
WithinBuffers ==
    /\ \A s \in Streams : ParserOK(context[s])
    /\ job.running => ParserOK(job.parser) /\ Len(job.buf) <= BufSize
    /\ screen.x \in 0 .. screen.w - 1 /\ screen.y \in 0 .. screen.h - 1

WindowHasCursor ==
    LET now == UpdateVirtualWindow(screen)
    IN  /\ now.offset >= 0 /\ now.offset + now.rows <= now.h
        /\ now.y \in now.offset .. now.offset + now.rows - 1

(* The virtual window lies in the buffer and the cursor in the window: no    *)
(* move or erase is clipped away from the row it was meant for, whatever the *)
(* streams wrote and however the user resized the console, as long as the    *)
(* buffer keeps the row the window begins at.                                *)
CursorInWindow == ~failed /\ ~cut => WindowHasCursor
==============================================================================
