---------------------------- MODULE ConsoleInput ----------------------------
(***************************************************************************)
(* The keyboard of a Windows console: InputTtyStream (src/detail/windows/   *)
(* input_tty.cpp) under tty.ReadStream (lib/luanode/tty.lua).  It is the    *)
(* one place where LuaNode has a thread of its own: Run blocks in           *)
(* ReadConsoleInput and posts what it got to the io_service, whose thread   *)
(* decodes it in ReadConsoleHandler.  Pause stops the thread with m_run and *)
(* a FOCUS record that wakes it up, and waits for its end; Stop does not    *)
(* wait.                                                                    *)
(***************************************************************************)
EXTENDS Integers, Sequences, SequencesExt

CONSTANTS
    Kinds,      \* of the input records the console produces
    MaxRecords, \* bound: records
    MaxThreads  \* bound: reader threads started

ASSUME InputAssumption ==
    /\ Kinds \subseteq {"char", "alt", "held", "composed", "fn", "heldFn", "high",
                        "low", "up", "numpad", "focus"}
    /\ MaxRecords \in Nat /\ MaxThreads \in Nat

VARIABLES
    console, \* the console's input buffer
    thread,  \* the reader threads: where they are, and the records they hold
    input,   \* the InputTtyStream
    reader,  \* the ReadStream
    posted,  \* calls of ReadConsoleHandler in the io_service, in order
    main,    \* what the thread of the io_service is doing, and within what
    typed,   \* history: the records the console has produced
    got      \* history: the keys `data' was emitted with
inputVars == <<console, thread, input, reader, posted, main, typed, got>>

Threads == 1..MaxThreads
NoThread == 0
Focus == [kind |-> "focus", n |-> 0]
Unborn == [at |-> "unborn", batch |-> <<>>]

(* m_run is not initialised.                                                *)
InputInit ==
    /\ console = <<>> /\ posted = <<>> /\ typed = <<>> /\ got = <<>>
    /\ thread = [t \in Threads |-> Unborn]
    /\ \E garbage \in BOOLEAN :
          input = [m_run |-> garbage, m_tty_reader_thread |-> NoThread,
                   work |-> FALSE, failed |-> FALSE]
    /\ reader = [paused |-> TRUE, readable |-> TRUE]
    /\ main = [doing |-> "idle", within |-> "idle"]

------------------------------------------------------------------------------
(* ReadConsoleHandler turns records into keys.  A key has the number of its *)
(* record, and is plain or prefixed by ESC, a pair of surrogates, or what   *)
(* is left of a pair.                                                       *)

(* Keys that were let go (unless Alt composed a character), the digits of   *)
(* such a composition, and events that are not of the keyboard.             *)
NoKey(r) == r.kind \in {"up", "numpad", "focus"}

CharacterKey(r, surrogate) ==
    [n |-> r.n, key |-> CASE r.kind = "alt" -> "escaped"
                          [] r.kind = "low" -> IF surrogate THEN "pair" ELSE "broken"
                          [] OTHER -> "plain"]
FunctionKey(r) == [n |-> r.n, key |-> "vt100"]

IsFunction(r) == r.kind \in {"fn", "heldFn"}

(* wRepeatCount of the last record.                                         *)
Repeats(r) == IF r.kind \in {"held", "heldFn"} THEN 2 ELSE 1
Repeated(r, key) == [i \in 1..Repeats(r) |-> key]

(* One record, with what the ones before it left: the keys so far and       *)
(* last_utf16_high_surrogate.                                               *)
Translate(state, r) ==
    CASE NoKey(r)        -> state
      [] r.kind = "high" -> [state EXCEPT !.surrogate = TRUE]
      [] IsFunction(r)   -> [state EXCEPT !.keys = @ \o Repeated(r, FunctionKey(r))]
      [] OTHER -> [keys |-> state.keys \o Repeated(r, CharacterKey(r, state.surrogate)),
                   surrogate |-> FALSE]

(* Each call has a copy of m_tty_context, as bind made it: the first half   *)
(* of a pair is forgotten at the end of a batch.                            *)
Keys(batch) == FoldLeft(Translate, [keys |-> <<>>, surrogate |-> FALSE], batch).keys

------------------------------------------------------------------------------
(* The reader thread: Run.                                                  *)

ThreadAt(t, at, batch) == thread' = [thread EXCEPT ![t] = [at |-> at, batch |-> batch]]

CheckRun(t) ==
    /\ thread[t].at = "check"
    /\ ThreadAt(t, IF input.m_run THEN "read" ELSE "ended", <<>>)
    /\ UNCHANGED <<console, input, reader, posted, main, typed, got>>

(* ReadConsoleInput takes all there is; a lone FOCUS record is not posted.  *)
ReadConsole(t) ==
    /\ thread[t].at = "read" /\ console # <<>>
    /\ LET lone == Len(console) = 1 /\ console[1].kind = "focus"
       IN ThreadAt(t, IF lone THEN "check" ELSE "post", IF lone THEN <<>> ELSE console)
    /\ console' = <<>>
    /\ UNCHANGED <<input, reader, posted, main, typed, got>>

Post(t) ==
    /\ thread[t].at = "post"
    /\ posted' = Append(posted, thread[t].batch)
    /\ ThreadAt(t, "check", <<>>)
    /\ UNCHANGED <<console, input, reader, main, typed, got>>

(* The thread ends; it gives up the work only if the handle is invalid.     *)
ReadFails(t) ==
    /\ thread[t].at = "read" /\ ~input.failed
    /\ ThreadAt(t, "ended", <<>>)
    /\ \E invalid \in BOOLEAN :
          input' = [input EXCEPT !.failed = TRUE, !.work = @ /\ ~invalid]
    /\ UNCHANGED <<console, reader, posted, main, typed, got>>

(* The user.  The second half of a pair follows its first half.             *)
Record ==
    /\ Len(typed) < MaxRecords
    /\ \E kind \in Kinds :
          LET r == [kind |-> kind, n |-> Len(typed) + 1]
              half == typed # <<>> /\ Last(typed).kind = "high"
          IN /\ half <=> kind = "low"
             /\ console' = Append(console, r) /\ typed' = Append(typed, r)
    /\ UNCHANGED <<thread, input, reader, posted, main, got>>

------------------------------------------------------------------------------
(* The thread of the io_service.  The application acts when it is idle or   *)
(* within a listener of `data'.                                             *)
CanAct == main.doing \in {"idle", "listening"}

(* Start, for Read: nothing if there is a thread already.                   *)
Start(i) ==
    IF i.m_tty_reader_thread # NoThread
    THEN input' = i /\ UNCHANGED thread
    ELSE \E t \in Threads :
            /\ thread[t] = Unborn /\ \A u \in 1..t - 1 : thread[u] # Unborn
            /\ ThreadAt(t, "check", <<>>)
            /\ input' = [i EXCEPT !.m_run = TRUE, !.m_tty_reader_thread = t,
                                  !.work = TRUE]

Resume ==
    /\ CanAct /\ reader.readable /\ reader.paused
    /\ reader' = [reader EXCEPT !.paused = FALSE]
    /\ Start(input)
    /\ UNCHANGED <<console, posted, main, typed, got>>

(* Pause, in its steps: m_run, the FOCUS record, join and the rest.         *)
Pause ==
    /\ CanAct /\ reader.readable /\ ~reader.paused
    /\ reader' = [reader EXCEPT !.paused = TRUE]
    /\ input' = [input EXCEPT !.m_run = FALSE]
    /\ main' = [doing |-> "pausing", within |-> main.doing]
    /\ UNCHANGED <<console, thread, posted, typed, got>>

PauseWakesNobody ==   \* a mutant of PauseWakes: without the FOCUS record
    /\ main.doing = "pausing"
    /\ main' = [main EXCEPT !.doing = "joining"]
    /\ UNCHANGED <<console, thread, input, reader, posted, typed, got>>

PauseWakes ==
    /\ main.doing = "pausing"
    /\ console' = Append(console, Focus)
    /\ main' = [main EXCEPT !.doing = "joining"]
    /\ UNCHANGED <<thread, input, reader, posted, typed, got>>

NotJoined(t) == TRUE   \* a mutant of Joined: as in Stop, nobody waits
Joined(t) == thread[t].at = "ended"

PauseKeepsThread ==   \* a mutant of PauseJoins: the thread is not reset
    /\ main.doing = "joining" /\ Joined(input.m_tty_reader_thread)
    /\ input' = [input EXCEPT !.work = FALSE]
    /\ main' = [doing |-> main.within, within |-> "idle"]
    /\ UNCHANGED <<console, thread, reader, posted, typed, got>>

PauseJoins ==
    /\ main.doing = "joining" /\ Joined(input.m_tty_reader_thread)
    /\ input' = [input EXCEPT !.m_tty_reader_thread = NoThread, !.work = FALSE]
    /\ main' = [doing |-> main.within, within |-> "idle"]
    /\ UNCHANGED <<console, thread, reader, posted, typed, got>>

(* ReadStream:destroy and Stop.                                             *)
Destroy ==
    /\ CanAct /\ reader.readable
    /\ reader' = [reader EXCEPT !.readable = FALSE]
    /\ IF input.m_run
       THEN /\ input' = [input EXCEPT !.m_run = FALSE, !.work = FALSE,
                                      !.m_tty_reader_thread = NoThread]
            /\ console' = Append(console, Focus)
       ELSE UNCHANGED <<input, console>>
    /\ UNCHANGED <<thread, posted, main, typed, got>>

(* ReadConsoleHandler calls the read_callback of ReadStream, if there are   *)
(* keys; destroy has replaced it by an empty function.                      *)
ReadConsoleHandler ==
    /\ main.doing = "idle" /\ posted # <<>>
    /\ posted' = Tail(posted)
    /\ LET keys == Keys(Head(posted))
       IN IF keys = <<>> \/ ~reader.readable THEN UNCHANGED <<main, got>>
          ELSE /\ got' = got \o keys
               /\ main' = [main EXCEPT !.doing = "listening"]
    /\ UNCHANGED <<console, thread, input, reader, typed>>

(* The end of read_callback reads again, unless a listener paused or        *)
(* destroyed the stream; one that throws skips that.                        *)
ListenerReturns ==
    /\ main.doing = "listening"
    /\ main' = [doing |-> "idle", within |-> "idle"]
    /\ IF reader.readable /\ ~reader.paused THEN Start(input)
       ELSE UNCHANGED <<input, thread>>
    /\ UNCHANGED <<console, reader, posted, typed, got>>

ListenerThrows ==
    /\ main.doing = "listening"
    /\ main' = [doing |-> "idle", within |-> "idle"]
    /\ UNCHANGED <<console, thread, input, reader, posted, typed, got>>

ReaderThread(t) == CheckRun(t) \/ ReadConsole(t) \/ Post(t)

InputNext ==
    \/ \E t \in Threads : ReaderThread(t) \/ ReadFails(t)
    \/ Record
    \/ Resume \/ Pause \/ PauseWakes \/ PauseJoins \/ Destroy
    \/ ReadConsoleHandler \/ ListenerReturns \/ ListenerThrows

(* Both threads go on; nothing is assumed of the user and the application.  *)
InputSpec ==
    /\ InputInit /\ [][InputNext]_inputVars
    /\ \A t \in Threads : WF_inputVars(ReaderThread(t))
    /\ WF_inputVars(PauseWakes) /\ WF_inputVars(PauseJoins)

------------------------------------------------------------------------------
(* The keys reach the application in the order they were typed, each once   *)
(* and none left out, however the console cuts them into batches and        *)
(* however often the stream is paused and resumed: no record is taken by a  *)
(* reader that has been given up, and no two readers overtake each other.   *)
(* Only a pair of surrogates that was cut in two arrives broken.            *)
KeysInOrder ==
    LET all == Keys(typed)
    IN /\ Len(got) <= Len(all)
       /\ \A i \in DOMAIN got :
             got[i].n = all[i].n /\ got[i].key \in {all[i].key, "broken"}

(* pause() does not block the program: the reader is woken up and sees that *)
(* m_run has changed, wherever it was when Pause began.                     *)
PauseReturns == main.doing = "joining" ~> main.doing # "joining"

(* A stream that is resumed, and neither destroyed nor failing, has a       *)
(* reader that will go on and keeps the loop running; one that is paused or *)
(* destroyed does not keep the program from ending.                         *)
ReadsWhenResumed ==
    CanAct =>
       IF reader.readable /\ ~reader.paused
       THEN ~input.failed => /\ input.m_run /\ input.work
                             /\ input.m_tty_reader_thread # NoThread
                             /\ ~Joined(input.m_tty_reader_thread)
       ELSE ~input.work
==============================================================================
