------------------------- MODULE ConsoleProofs -------------------------
(* Proofs about the Windows console: ConsoleInput, for any number of records *)
(* and reader threads, and OutputTty, for any messages, sizes, buffer, and   *)
(* number of streams.                                                        *)
EXTENDS ConsoleInput, OutputTty, SequenceTheorems, WellFoundedInduction, TLAPS

Places == {"unborn", "check", "read", "post", "ended"}
ThreadOrNone == Threads \cup {NoThread}

InputTypeInv ==
    /\ input \in [m_run : BOOLEAN, m_tty_reader_thread : ThreadOrNone,
                  work : BOOLEAN, failed : BOOLEAN]
    /\ reader \in [paused : BOOLEAN, readable : BOOLEAN]
    /\ main \in [doing : {"idle", "listening", "pausing", "joining"},
                 within : {"idle", "listening"}]
    /\ thread = [t \in Threads |-> thread[t]]
    /\ \A t \in Threads : thread[t].at \in Places

(* Every thread but the one the stream holds has ended or was never started, *)
(* until destroy lets the last one go.                                       *)
NoOtherReader ==
    reader.readable =>
        \A t \in Threads : t # input.m_tty_reader_thread =>
                               thread[t].at \in {"unborn", "ended"}

(* What Pause has done so far when its thread waits.                         *)
PauseInv ==
    ~CanAct => /\ reader.readable /\ reader.paused /\ ~input.m_run
               /\ input.m_tty_reader_thread # NoThread

(* The three states of a stream between the calls.                           *)
StreamInv ==
    CanAct =>
       /\ reader.readable /\ ~reader.paused =>
             /\ input.m_run /\ input.m_tty_reader_thread # NoThread
             /\ ~input.failed =>
                  /\ input.work
                  /\ thread[input.m_tty_reader_thread].at \in {"check", "read", "post"}
       /\ reader.readable /\ reader.paused =>
             ~input.work /\ input.m_tty_reader_thread = NoThread
       /\ ~reader.readable => ~input.work

ReaderInv == InputTypeInv /\ NoOtherReader /\ PauseInv /\ StreamInv

------------------------------------------------------------------------------
(* What Start does when the stream holds a thread, and when it does not.     *)
LEMMA StartEffects ==
    ASSUME InputTypeInv, NEW i, i = input, Start(i)
    PROVE  \/ /\ input.m_tty_reader_thread # NoThread
              /\ UNCHANGED <<input, thread>>
           \/ /\ input.m_tty_reader_thread = NoThread
              /\ \E t \in Threads :
                    /\ t # NoThread
                    /\ thread' = [thread EXCEPT ![t] = [at |-> "check", batch |-> <<>>]]
                    /\ input' = [input EXCEPT !.m_run = TRUE,
                                             !.m_tty_reader_thread = t,
                                             !.work = TRUE]
<1>1. ASSUME NEW t \in Threads PROVE t # NoThread
  BY <1>1, InputAssumption DEF Threads, NoThread
<1>2. QED
  BY <1>1 DEF Start, ThreadAt

(* The stream is constructed paused, with no reader.                         *)
LEMMA InitReaderInv == InputInit => ReaderInv
<1>1. InputInit => InputTypeInv
  BY DEF InputInit, InputTypeInv, ThreadOrNone, Places, Unborn
<1>2. InputInit => NoOtherReader
  BY DEF InputInit, NoOtherReader, Unborn
<1>3. InputInit => PauseInv /\ StreamInv
  BY DEF InputInit, PauseInv, StreamInv, CanAct
<1>4. QED
  BY <1>1, <1>2, <1>3 DEF ReaderInv

(* A reader moves on from `from' to one of `to', or ends because the stream  *)
(* told it to; the stream is as before.                                      *)
LEMMA ReaderMoves ==
    ASSUME ReaderInv, NEW t \in Threads, NEW at, NEW batch,
           at \in {"check", "read", "post"} \/ (at = "ended" /\ ~input.m_run),
           thread[t].at \in {"check", "read", "post"},
           ThreadAt(t, at, batch), UNCHANGED <<input, reader, main>>
    PROVE  ReaderInv'
<1>1. /\ thread' = [thread EXCEPT ![t] = [at |-> at, batch |-> batch]]
      /\ \A u \in Threads : thread'[u].at = IF u = t THEN at ELSE thread[u].at
  BY DEF ThreadAt, ReaderInv, InputTypeInv
<1>2. InputTypeInv'
  BY <1>1 DEF ReaderInv, InputTypeInv, ThreadOrNone, Places
<1>3. NoOtherReader'
  BY <1>1 DEF ReaderInv, NoOtherReader
<1>4. PauseInv'
  BY DEF ReaderInv, PauseInv, CanAct
<1>5. StreamInv'
  <2>1. ASSUME input.m_tty_reader_thread # NoThread
        PROVE  input.m_tty_reader_thread \in Threads
    BY <2>1 DEF ReaderInv, InputTypeInv, ThreadOrNone
  <2>2. QED
    BY <1>1, <2>1 DEF ReaderInv, StreamInv, CanAct
<1>6. QED
  BY <1>2, <1>3, <1>4, <1>5 DEF ReaderInv

(* The steps of a reader thread (InputReader::Run).                          *)
LEMMA ReaderKeepsReaderInv ==
    ASSUME ReaderInv, NEW t \in Threads, ReaderThread(t)
    PROVE  ReaderInv'
<1>1. CASE CheckRun(t)
  BY <1>1, ReaderMoves DEF CheckRun
<1>2. CASE ReadConsole(t)
  BY <1>2, ReaderMoves DEF ReadConsole
<1>3. CASE Post(t)
  BY <1>3, ReaderMoves DEF Post
<1>4. QED
  BY <1>1, <1>2, <1>3 DEF ReaderThread

(* A read of the console that fails ends the thread.                         *)
LEMMA FailureKeepsReaderInv ==
    ASSUME ReaderInv, NEW t \in Threads, ReadFails(t)
    PROVE  ReaderInv'
<1>1. PICK invalid \in BOOLEAN :
        input' = [input EXCEPT !.failed = TRUE, !.work = @ /\ ~invalid]
  BY DEF ReadFails
<1>2. /\ thread' = [thread EXCEPT ![t] = [at |-> "ended", batch |-> <<>>]]
      /\ \A u \in Threads : thread'[u].at = IF u = t THEN "ended" ELSE thread[u].at
      /\ UNCHANGED <<reader, main>>
  BY DEF ReadFails, ThreadAt, ReaderInv, InputTypeInv
<1>3. /\ input'.m_run = input.m_run /\ input'.failed
      /\ input'.m_tty_reader_thread = input.m_tty_reader_thread
      /\ ~input.work => ~input'.work
  BY <1>1 DEF ReaderInv, InputTypeInv
<1>4. InputTypeInv'
  BY <1>1, <1>2 DEF ReaderInv, InputTypeInv, ThreadOrNone, Places
<1>5. NoOtherReader'
  BY <1>2, <1>3 DEF ReaderInv, NoOtherReader
<1>6. PauseInv' /\ StreamInv'
  BY <1>2, <1>3 DEF ReaderInv, PauseInv, StreamInv, CanAct
<1>7. QED
  BY <1>4, <1>5, <1>6 DEF ReaderInv

(* resume: the stream has a reader from now on.                              *)
LEMMA ResumeKeepsReaderInv ==
    ASSUME ReaderInv, Resume
    PROVE  ReaderInv'
<1>1. /\ CanAct /\ reader.readable /\ reader.paused /\ UNCHANGED main
      /\ reader' = [reader EXCEPT !.paused = FALSE]
      /\ input.m_tty_reader_thread = NoThread
  BY DEF Resume, ReaderInv, StreamInv
<1>2. PICK t \in Threads :
        /\ t # NoThread
        /\ thread' = [thread EXCEPT ![t] = [at |-> "check", batch |-> <<>>]]
        /\ input' = [input EXCEPT !.m_run = TRUE, !.m_tty_reader_thread = t,
                                 !.work = TRUE]
  BY <1>1, StartEffects DEF Resume, ReaderInv
<1>3. /\ input'.m_run /\ input'.work /\ input'.m_tty_reader_thread = t
      /\ reader'.readable /\ ~reader'.paused
      /\ \A u \in Threads : thread'[u].at = IF u = t THEN "check" ELSE thread[u].at
  BY <1>1, <1>2 DEF ReaderInv, InputTypeInv
<1>4. InputTypeInv'
  BY <1>1, <1>2, <1>3 DEF ReaderInv, InputTypeInv, ThreadOrNone, Places
<1>5. NoOtherReader'
  <2>1. \A u \in Threads : thread[u].at \in {"unborn", "ended"}
    BY <1>1, InputAssumption DEF ReaderInv, NoOtherReader, Threads, NoThread
  <2>2. QED
    BY <1>3, <2>1 DEF NoOtherReader
<1>6. PauseInv' /\ StreamInv'
  BY <1>1, <1>2, <1>3 DEF PauseInv, StreamInv, CanAct
<1>7. QED
  BY <1>4, <1>5, <1>6 DEF ReaderInv

(* pause: the reader is told to end, and joined.                             *)
LEMMA PauseKeepsReaderInv ==
    ASSUME ReaderInv, Pause \/ PauseWakes \/ PauseJoins
    PROVE  ReaderInv'
<1>1. CASE Pause
  <2>1. /\ CanAct /\ reader.readable /\ ~reader.paused /\ UNCHANGED thread
        /\ reader' = [reader EXCEPT !.paused = TRUE]
        /\ input' = [input EXCEPT !.m_run = FALSE]
        /\ main' = [doing |-> "pausing", within |-> main.doing]
    BY <1>1 DEF Pause
  <2>2. InputTypeInv'
    BY <2>1 DEF ReaderInv, InputTypeInv, CanAct, ThreadOrNone
  <2>3. NoOtherReader'
    BY <2>1 DEF ReaderInv, InputTypeInv, NoOtherReader
  <2>4. PauseInv' /\ StreamInv'
    BY <2>1 DEF ReaderInv, InputTypeInv, PauseInv, StreamInv, CanAct
  <2>5. QED
    BY <2>2, <2>3, <2>4 DEF ReaderInv
<1>2. CASE PauseWakes
  <2>1. /\ ~CanAct /\ UNCHANGED <<thread, input, reader>>
        /\ main' = [main EXCEPT !.doing = "joining"]
    BY <1>2 DEF PauseWakes, CanAct
  <2>2. InputTypeInv' /\ NoOtherReader'
    BY <2>1 DEF ReaderInv, InputTypeInv, NoOtherReader
  <2>3. PauseInv' /\ StreamInv'
    BY <2>1 DEF ReaderInv, InputTypeInv, PauseInv, StreamInv, CanAct
  <2>4. QED
    BY <2>2, <2>3 DEF ReaderInv
<1>3. CASE PauseJoins
  <2>1. /\ ~CanAct /\ UNCHANGED <<thread, reader>>
        /\ thread[input.m_tty_reader_thread].at = "ended"
        /\ input' = [input EXCEPT !.m_tty_reader_thread = NoThread, !.work = FALSE]
        /\ main' = [doing |-> main.within, within |-> "idle"]
    BY <1>3 DEF PauseJoins, CanAct, Joined
  <2>2. InputTypeInv'
    BY <2>1 DEF ReaderInv, InputTypeInv, ThreadOrNone
  <2>3. NoOtherReader'
    BY <2>1 DEF ReaderInv, InputTypeInv, NoOtherReader
  <2>4. PauseInv' /\ StreamInv'
    BY <2>1 DEF ReaderInv, InputTypeInv, PauseInv, StreamInv, CanAct
  <2>5. QED
    BY <2>2, <2>3, <2>4 DEF ReaderInv
<1>4. QED
  BY <1>1, <1>2, <1>3

(* destroy: the stream is not readable any more, so nothing joins its readers.*)
LEMMA DestroyKeepsReaderInv ==
    ASSUME ReaderInv, Destroy
    PROVE  ReaderInv'
<1>1. /\ CanAct /\ reader.readable /\ UNCHANGED <<thread, main>>
      /\ reader' = [reader EXCEPT !.readable = FALSE]
      /\ \/ ~input.m_run /\ UNCHANGED input
         \/ input' = [input EXCEPT !.m_run = FALSE, !.work = FALSE,
                                  !.m_tty_reader_thread = NoThread]
  BY DEF Destroy
<1>2. InputTypeInv'
  BY <1>1 DEF ReaderInv, InputTypeInv, ThreadOrNone
<1>3. NoOtherReader' /\ PauseInv'
  BY <1>1 DEF ReaderInv, InputTypeInv, NoOtherReader, PauseInv, CanAct
<1>4. StreamInv'
  BY <1>1 DEF ReaderInv, InputTypeInv, StreamInv, CanAct
<1>5. QED
  BY <1>2, <1>3, <1>4 DEF ReaderInv

(* The handlers of the loop's thread: the stream holds a thread whenever it  *)
(* reads, so the read at the end of read_callback changes nothing.           *)
LEMMA HandlersLeaveReaders ==
    ASSUME ReaderInv, ReadConsoleHandler \/ ListenerReturns \/ ListenerThrows
    PROVE  UNCHANGED <<input, thread, reader>>
<1>1. CASE ListenerReturns
  <2>1. CASE reader.readable /\ ~reader.paused
    <3>1. input.m_tty_reader_thread # NoThread
      BY <1>1, <2>1 DEF ListenerReturns, ReaderInv, StreamInv, CanAct
    <3>2. Start(input)
      BY <1>1, <2>1 DEF ListenerReturns
    <3>3. QED
      BY <1>1, <3>1, <3>2 DEF ListenerReturns, Start
  <2>2. CASE ~(reader.readable /\ ~reader.paused)
    BY <1>1, <2>2 DEF ListenerReturns
  <2>3. QED
    BY <2>1, <2>2
<1>2. CASE ReadConsoleHandler \/ ListenerThrows
  BY <1>2 DEF ReadConsoleHandler, ListenerThrows
<1>3. QED
  BY <1>1, <1>2

(* The handler of a batch, and the `data' listener's end, leave it true.     *)
LEMMA HandlersKeepReaderInv ==
    ASSUME ReaderInv, ReadConsoleHandler \/ ListenerReturns \/ ListenerThrows
    PROVE  ReaderInv'
<1>1. UNCHANGED <<input, thread, reader>>
  BY HandlersLeaveReaders
<1>2. CanAct /\ CanAct'
  BY DEF ReadConsoleHandler, ListenerReturns, ListenerThrows, CanAct, ReaderInv, InputTypeInv
<1>3. InputTypeInv'
  BY <1>1 DEF ReaderInv, InputTypeInv, ReadConsoleHandler, ListenerReturns, ListenerThrows
<1>4. NoOtherReader' /\ PauseInv' /\ StreamInv'
  BY <1>1, <1>2 DEF ReaderInv, NoOtherReader, PauseInv, StreamInv
<1>5. QED
  BY <1>3, <1>4 DEF ReaderInv

(* ReaderInv is an invariant of the console input (input_tty.cpp).                *)
THEOREM ReaderInvariance == InputSpec => []ReaderInv
<1>1. ASSUME ReaderInv, [InputNext]_inputVars PROVE ReaderInv'
  <2>1. CASE \E t \in Threads : ReaderThread(t) \/ ReadFails(t)
    BY <1>1, <2>1, ReaderKeepsReaderInv, FailureKeepsReaderInv
  <2>2. CASE Record
    BY <1>1, <2>2 DEF Record, ReaderInv, InputTypeInv, NoOtherReader, PauseInv, StreamInv, CanAct
  <2>3. CASE Resume
    BY <1>1, <2>3, ResumeKeepsReaderInv
  <2>4. CASE Pause \/ PauseWakes \/ PauseJoins
    BY <1>1, <2>4, PauseKeepsReaderInv
  <2>5. CASE Destroy
    BY <1>1, <2>5, DestroyKeepsReaderInv
  <2>6. CASE ReadConsoleHandler \/ ListenerReturns \/ ListenerThrows
    BY <1>1, <2>6, HandlersKeepReaderInv
  <2>7. CASE UNCHANGED inputVars
    BY <1>1, <2>7 DEF inputVars, ReaderInv, InputTypeInv, NoOtherReader, PauseInv, StreamInv, CanAct
  <2>8. QED
    BY <1>1, <2>1, <2>2, <2>3, <2>4, <2>5, <2>6, <2>7 DEF InputNext
<1>2. QED
  BY <1>1, InitReaderInv, PTL DEF InputSpec

------------------------------------------------------------------------------
(* A stream that is resumed and has not failed has a reader that goes on and *)
(* keeps the loop running; any other lets the program end (Start, Pause and  *)
(* Stop of input_tty.cpp).                                                   *)
THEOREM ResumedReads == InputSpec => []ReadsWhenResumed
<1>1. ReaderInv => ReadsWhenResumed
  BY DEF ReaderInv, StreamInv, ReadsWhenResumed, Joined
<1>2. QED
  BY <1>1, ReaderInvariance, PTL

(* Two readers never run at a time, until the stream is destroyed: that is   *)
(* what the join in Pause is for, and why batches are posted in order.       *)
THEOREM OneReader ==
    InputSpec => [](\A t, u \in Threads :
                  /\ reader.readable
                  /\ thread[t].at \in {"check", "read", "post"}
                  /\ thread[u].at \in {"check", "read", "post"}
                  => t = u)
<1>1. ReaderInv => \A t, u \in Threads :
                  /\ reader.readable
                  /\ thread[t].at \in {"check", "read", "post"}
                  /\ thread[u].at \in {"check", "read", "post"}
                  => t = u
  BY DEF ReaderInv, NoOtherReader
<1>2. QED
  BY <1>1, ReaderInvariance, PTL

------------------------------------------------------------------------------
(* Induction over Nat, for a set: a set of naturals with 0, and with the     *)
(* successor of each of its members, is Nat.                                 *)
LEMMA NatSetInduction ==
    ASSUME NEW T, T \subseteq Nat, 0 \in T, \A n \in T : n + 1 \in T
    PROVE  T = Nat
<1> SUFFICES ASSUME Nat \ T # {} PROVE FALSE
  OBVIOUS
<1> DEFINE R == OpToRel(<, Nat)
<1>1. IsWellFoundedOn(R, Nat)
  BY NatLessThanWellFounded DEF OpToRel
<1>2. \A x, y \in Nat : y < x => <<y, x>> \in R
  BY DEF OpToRel
<1> HIDE DEF R
<1>3. PICK x \in Nat \ T : \A y \in Nat \ T : ~(<<y, x>> \in R)
  BY <1>1, WFMin
<1>4. x # 0 /\ x - 1 \in Nat /\ x - 1 < x
  BY <1>3
<1>5. x - 1 \in T
  BY <1>2, <1>3, <1>4
<1>6. (x - 1) + 1 \in T
  BY <1>5
<1>7. QED
  BY <1>3, <1>6

Highest(s, m) == m \in s /\ \A i \in s : m >= i

(* Max is the highest member of a set that has one.                          *)
LEMMA MaxIsHighest ==
    ASSUME NEW s, s \subseteq Nat, NEW m \in Nat, Highest(s, m)
    PROVE  Max(s) = m
<1>1. \A x \in s : (\A y \in s : x >= y) => x = m
  BY DEF Highest
<1>2. QED
  BY <1>1 DEF Max, Highest

(* A non-empty set of a sequence's indices has one.                          *)
LEMMA MaxOfIndices ==
    ASSUME NEW n \in Nat, NEW s \in SUBSET (1..n), s # {}
    PROVE  Max(s) \in 1..n
<1> DEFINE Has(t) == \E m \in t : Highest(t, m)
           T == {k \in Nat : \A t \in SUBSET (1..k) : t # {} => Has(t)}
<1>1. 0 \in T
  BY 1..0 = {}
<1>2. ASSUME NEW k \in T PROVE k + 1 \in T
  <2> SUFFICES ASSUME NEW t \in SUBSET (1..k + 1), t # {} PROVE Has(t)
    OBVIOUS
  <2>1. CASE k + 1 \in t
    BY <2>1 DEF Highest
  <2>2. CASE k + 1 \notin t
    <3>1. t \in SUBSET (1..k)
      BY <2>2
    <3>2. QED
      BY <3>1
  <2>3. QED
    BY <2>1, <2>2
<1>3. T = Nat
  <2>1. T \subseteq Nat
    OBVIOUS
  <2> HIDE DEF T
  <2>2. QED
    BY <1>1, <1>2, <2>1, NatSetInduction
<1>4. PICK m \in s : Highest(s, m)
  <2>1. n \in T
    BY <1>3
  <2>2. QED
    BY <2>1
<1> HIDE DEF T
<1>5. Max(s) = m
  <2>1. m \in Nat /\ s \subseteq Nat
    OBVIOUS
  <2>2. QED
    BY <1>4, <2>1, MaxIsHighest
<1>6. QED
  BY <1>5

(* A fold over 1..k+1 takes k+1 and goes on with 1..k.                       *)
LEMMA MaxOfInterval ==
    ASSUME NEW k \in Nat
    PROVE  Max(1..k + 1) = k + 1 /\ (1..k + 1) \ {k + 1} = 1..k
<1>1. Highest(1..k + 1, k + 1)
  BY DEF Highest
<1>2. QED
  BY <1>1, MaxIsHighest

(* g folds step over the sets of indices up to n. *)
Folds(g, X, base, step, n) ==
    /\ g \in [SUBSET (1..n) -> X]
    /\ \A s \in SUBSET (1..n) :
          g[s] = IF s = {} THEN base ELSE step[<<g[s \ {Max(s)}], Max(s)>>]

(* The function a fold is defined by exists over no indices, ...             *)
LEMMA FoldsNothing ==
    ASSUME NEW X, NEW base \in X, NEW step
    PROVE  \E g : Folds(g, X, base, step, 0)
<1> DEFINE g == [s \in SUBSET (1..0) |-> base]
<1>1. 1..0 = {}
  OBVIOUS
<1>2. Folds(g, X, base, step, 0)
  BY <1>1 DEF Folds
<1>3. QED
  BY <1>2

(* ... exists over one index more when it exists at all, ...                 *)
LEMMA FoldsOneMore ==
    ASSUME NEW X, NEW base \in X, NEW m \in Nat, NEW n \in Nat, m + 1 <= n,
           NEW step \in [X \X (1..n) -> X],
           NEW g, Folds(g, X, base, step, m)
    PROVE  \E h : Folds(h, X, base, step, m + 1)
<1> DEFINE h == [s \in SUBSET (1..m + 1) |->
                   IF m + 1 \in s THEN step[<<g[s \ {m + 1}], m + 1>>] ELSE g[s]]
<1>1. ASSUME NEW s \in SUBSET (1..m + 1)
      PROVE  /\ h[s] \in X
             /\ h[s] = IF s = {} THEN base ELSE step[<<h[s \ {Max(s)}], Max(s)>>]
  <2>1. CASE m + 1 \in s
    <3>1. Highest(s, m + 1) /\ s \subseteq Nat /\ m + 1 \in Nat
      BY <2>1 DEF Highest
    <3>2. Max(s) = m + 1
      BY <3>1, MaxIsHighest
    <3>3. s \ {m + 1} \in SUBSET (1..m)
      OBVIOUS
    <3>4. s \ {m + 1} \in SUBSET (1..m + 1) /\ m + 1 \notin s \ {m + 1}
      OBVIOUS
    <3>5. h[s \ {m + 1}] = g[s \ {m + 1}]
      BY <3>4
    <3>6. h[s] = step[<<g[s \ {m + 1}], m + 1>>]
      BY <2>1
    <3>7. g[s \ {m + 1}] \in X /\ m + 1 \in 1..n
      BY <3>3 DEF Folds
    <3>8. step[<<g[s \ {m + 1}], m + 1>>] \in X
      BY <3>7
    <3> HIDE DEF h
    <3>9. QED
      BY <2>1, <3>2, <3>5, <3>6, <3>8
  <2>2. CASE m + 1 \notin s
    <3>1. s \in SUBSET (1..m)
      BY <2>2
    <3>2. h[s] = g[s]
      BY <2>2
    <3>3. CASE s = {}
      BY <3>1, <3>2, <3>3 DEF Folds
    <3>4. CASE s # {}
      <4>1. s \ {Max(s)} \in SUBSET (1..m + 1) /\ m + 1 \notin s \ {Max(s)}
        BY <2>2
      <4>2. h[s \ {Max(s)}] = g[s \ {Max(s)}]
        BY <4>1
      <4> HIDE DEF h
      <4>3. QED
        BY <3>1, <3>2, <3>4, <4>2 DEF Folds
    <3>5. QED
      BY <3>3, <3>4
  <2>3. QED
    BY <2>1, <2>2
<1>2. h \in [SUBSET (1..m + 1) -> X]
  <2>1. \A s \in SUBSET (1..m + 1) : h[s] \in X
    BY <1>1
  <2>2. QED
    BY <2>1
<1> HIDE DEF h
<1>3. QED
  BY <1>1, <1>2 DEF Folds

(* ... so it exists: MapThenFoldSet is what its definition says.             *)
LEMMA FoldExists ==
    ASSUME NEW X, NEW base \in X, NEW n \in Nat, NEW step \in [X \X (1..n) -> X]
    PROVE  \E g : Folds(g, X, base, step, n)
<1> DEFINE T == {m \in Nat : m <= n => \E g : Folds(g, X, base, step, m)}
<1>1. 0 \in T
  <2>1. \E g : Folds(g, X, base, step, 0)
    BY FoldsNothing
  <2>2. QED
    BY <2>1
<1>2. ASSUME NEW m \in T PROVE m + 1 \in T
  <2>1. CASE m + 1 <= n
    <3>1. PICK g : Folds(g, X, base, step, m)
      BY <2>1
    <3>2. \E h : Folds(h, X, base, step, m + 1)
      BY <2>1, <3>1, FoldsOneMore
    <3>3. QED
      BY <3>2
  <2>2. QED
    BY <2>1
<1>3. T = Nat
  <2>1. T \subseteq Nat
    OBVIOUS
  <2> HIDE DEF T
  <2>2. QED
    BY <1>1, <1>2, <2>1, NatSetInduction
<1>4. QED
  BY <1>3, SMTT(30)

(* Induction over sequences, for a set.                                      *)
LEMMA SeqSetInduction ==
    ASSUME NEW S, NEW P, P \subseteq Seq(S), << >> \in P,
           \A s \in P, e \in S : Append(s, e) \in P
    PROVE  P = Seq(S)
<1> DEFINE T == {n \in Nat : \A s \in Seq(S) : Len(s) = n => s \in P}
<1>1. 0 \in T
  BY EmptySeq
<1>2. ASSUME NEW n \in T PROVE n + 1 \in T
  <2> SUFFICES ASSUME NEW s \in Seq(S), Len(s) = n + 1 PROVE s \in P
    OBVIOUS
  <2>1. s # << >>
    OBVIOUS
  <2>2. PICK front \in Seq(S), e \in S : s = Append(front, e)
    BY <2>1, SequenceEmptyOrAppend, Zenon
  <2>3. Len(front) \in Nat /\ Len(Append(front, e)) = Len(front) + 1
    BY <2>2, AppendProperties, LenProperties
  <2>4. Len(front) = n
    BY <2>2, <2>3
  <2>5. front \in P
    BY <2>2, <2>4
  <2>6. QED
    BY <2>2, <2>5
<1>3. T = Nat
  <2>1. T \subseteq Nat
    OBVIOUS
  <2> HIDE DEF T
  <2>2. QED
    BY <1>1, <1>2, <2>1, NatSetInduction
<1>4. ASSUME NEW s \in Seq(S) PROVE s \in P
  <2>1. Len(s) \in T
    BY <1>3
  <2>2. QED
    BY <2>1
<1>5. QED
  BY <1>4

KeySet == [n : Nat, key : {"plain", "escaped", "pair", "broken", "vt100"}]
KeyState == [keys : Seq(KeySet), surrogate : BOOLEAN]
Records == [kind : Kinds \cup {"focus"}, n : Nat]

(* The cases of Translate.                                                   *)
LEMMA NoKeyRecord ==
    ASSUME NEW st, NEW r, NoKey(r)
    PROVE  Translate(st, r) = st
<1>1. r.kind # "high" /\ ~IsFunction(r)
  BY DEF NoKey, IsFunction
<1>2. QED
  BY <1>1, Zenon DEF Translate

(* The first half of a surrogate pair waits for the second.                  *)
LEMMA FirstHalf ==
    ASSUME NEW st, NEW r, r.kind = "high"
    PROVE  Translate(st, r) = [st EXCEPT !.surrogate = TRUE]
<1>1. ~IsFunction(r) /\ ~NoKey(r)
  BY DEF NoKey, IsFunction
<1>2. QED
  BY <1>1, Zenon DEF Translate

(* A function key is repeated, and leaves half a pair as it is.              *)
LEMMA FunctionRecord ==
    ASSUME NEW st, NEW r, IsFunction(r)
    PROVE  Translate(st, r) = [st EXCEPT !.keys = @ \o Repeated(r, FunctionKey(r))]
<1>1. r.kind # "high" /\ ~NoKey(r)
  BY DEF NoKey, IsFunction
<1>2. QED
  BY <1>1, Zenon DEF Translate

(* A character is repeated, and ends a pair.                                 *)
LEMMA CharacterRecord ==
    ASSUME NEW st, NEW r, ~NoKey(r), r.kind # "high", ~IsFunction(r)
    PROVE  Translate(st, r) = [keys |-> st.keys \o Repeated(r, CharacterKey(r, st.surrogate)),
                               surrogate |-> FALSE]
  BY Zenon DEF Translate

(* A key has the number of its record, and only the second half of a pair    *)
(* depends on what came before.                                              *)
LEMMA CharacterKeys ==
    ASSUME NEW r, NEW p \in BOOLEAN, NEW q \in BOOLEAN, p => q
    PROVE  /\ CharacterKey(r, p).n = r.n /\ CharacterKey(r, q).n = r.n
           /\ CharacterKey(r, p).key \in {CharacterKey(r, q).key, "broken"}
           /\ CharacterKey(r, p) = [n |-> r.n, key |-> CharacterKey(r, p).key]
           /\ CharacterKey(r, p).key \in {"plain", "escaped", "pair", "broken"}
  BY Zenon DEF CharacterKey

(* A key is repeated as often as its record says.                            *)
LEMMA RepeatedType ==
    ASSUME NEW r, NEW key \in KeySet
    PROVE  Repeated(r, key) \in Seq(KeySet)
<1>1. Repeats(r) \in Nat
  BY DEF Repeats
<1>2. QED
  BY <1>1 DEF Repeated

(* ReadConsoleHandler turns records into keys.                               *)
LEMMA TranslateType ==
    ASSUME NEW st \in KeyState, NEW r \in Records
    PROVE  Translate(st, r) \in KeyState
<1>1. CASE NoKey(r)
  BY <1>1, NoKeyRecord
<1>2. CASE r.kind = "high"
  <2>1. [st EXCEPT !.surrogate = TRUE] \in KeyState
    BY DEF KeyState
  <2>2. QED
    BY <1>2, <2>1, FirstHalf, Zenon
<1>3. CASE IsFunction(r)
  <2>1. FunctionKey(r) \in KeySet
    BY DEF FunctionKey, KeySet, Records
  <2>2. st.keys \o Repeated(r, FunctionKey(r)) \in Seq(KeySet)
    BY <2>1, RepeatedType DEF KeyState
  <2>3. [st EXCEPT !.keys = @ \o Repeated(r, FunctionKey(r))] \in KeyState
    BY <2>2 DEF KeyState
  <2>4. QED
    BY <1>3, <2>3, FunctionRecord, Zenon
<1>4. CASE ~NoKey(r) /\ r.kind # "high" /\ ~IsFunction(r)
  <2> DEFINE key == CharacterKey(r, st.surrogate)
             more == Repeated(r, key)
  <2>1. st.surrogate \in BOOLEAN
    BY DEF KeyState
  <2>2. key = [n |-> r.n, key |-> key.key]
        /\ key.key \in {"plain", "escaped", "pair", "broken"}
    BY <2>1, CharacterKeys
  <2>3. Translate(st, r) = [keys |-> st.keys \o more, surrogate |-> FALSE]
    BY <1>4, CharacterRecord
  <2> HIDE DEF key
  <2>4. key \in KeySet
    BY <2>2 DEF KeySet, Records
  <2>5. more \in Seq(KeySet)
    BY <2>4, RepeatedType
  <2> HIDE DEF more
  <2>6. QED
    BY <2>3, <2>5 DEF KeyState
<1>5. QED
  BY <1>1, <1>2, <1>3, <1>4

KeysFrom(st, b) == FoldLeft(Translate, st, b)

(* What a fold over a batch does with each of its records. *)
LEMMA KeysByRecord ==
    ASSUME NEW st \in KeyState, NEW b \in Seq(Records)
    PROVE  \E g : /\ g[{}] = st
                  /\ \A k \in 0..Len(b) - 1 :
                        g[1..k + 1] = Translate(g[1..k], b[k + 1])
                  /\ KeysFrom(st, b) = g[1..Len(b)]
<1> DEFINE n == Len(b)
           step == [p \in KeyState \X (1..n) |-> Translate(p[1], b[p[2]])]
           IsFold(g) == g = [s \in SUBSET DOMAIN b |->
                               IF s = {} THEN st
                               ELSE Translate(g[s \ {Max(s)}], b[Max(s)])]
<1>1. n \in Nat /\ DOMAIN b = 1..n
  OBVIOUS
<1>2. step \in [KeyState \X (1..n) -> KeyState]
  BY <1>1, TranslateType
<1>3. PICK g : Folds(g, KeyState, st, step, n)
  <2> HIDE DEF step, n
  <2>1. QED
    BY <1>1, <1>2, FoldExists
<1>4. IsFold(g)
  <2>1. ASSUME NEW s \in SUBSET (1..n), s # {}
        PROVE  step[<<g[s \ {Max(s)}], Max(s)>>] = Translate(g[s \ {Max(s)}], b[Max(s)])
    <3>1. s \ {Max(s)} \in SUBSET (1..n)
      OBVIOUS
    <3>2. g[s \ {Max(s)}] \in KeyState
      BY <3>1, <1>3 DEF Folds
    <3>3. Max(s) \in 1..n
      BY <1>1, <2>1, MaxOfIndices
    <3>4. QED
      BY <3>2, <3>3
  <2>2. QED
    BY <1>1, <1>3, <2>1 DEF Folds
<1>5. PICK h : IsFold(h) /\ KeysFrom(st, b) = h[DOMAIN b]
  <2> DEFINE h == CHOOSE f : IsFold(f)
  <2>1. IsFold(h)
    BY <1>4
  <2>2. KeysFrom(st, b) = h[DOMAIN b]
    BY DEF KeysFrom, FoldLeft, MapThenFoldSet
  <2>3. QED
    BY <2>1, <2>2
<1>6. h[{}] = st
  BY <1>5
<1>7. ASSUME NEW k \in 0..Len(b) - 1
      PROVE  h[1..k + 1] = Translate(h[1..k], b[k + 1])
  <2>1. 1..k + 1 \in SUBSET DOMAIN b /\ 1..k + 1 # {} /\ k \in Nat
    BY <1>1
  <2>2. Max(1..k + 1) = k + 1 /\ (1..k + 1) \ {k + 1} = 1..k
    BY <2>1, MaxOfInterval
  <2> HIDE DEF n, step
  <2>3. QED
    BY <1>5, <2>1, <2>2, Zenon
<1>8. QED
  BY <1>1, <1>5, <1>6, <1>7

(* The keys of a batch, record by record.                                    *)
LEMMA KeysEquations ==
    ASSUME NEW st \in KeyState
    PROVE  /\ KeysFrom(st, << >>) = st
           /\ \A b \in Seq(Records), r \in Records :
                 KeysFrom(st, Append(b, r)) = Translate(KeysFrom(st, b), r)
<1>1. KeysFrom(st, << >>) = st
  <2>1. PICK e \in Seq(Records) : e = << >>
    BY EmptySeq
  <2>2. PICK g : g[{}] = st /\ KeysFrom(st, e) = g[1..Len(e)]
    BY KeysByRecord
  <2>3. 1..Len(e) = {}
    BY <2>1
  <2>4. QED
    BY <2>1, <2>2, <2>3
<1>2. ASSUME NEW b \in Seq(Records), NEW r \in Records
      PROVE  KeysFrom(st, Append(b, r)) = Translate(KeysFrom(st, b), r)
  <2> DEFINE c == Append(b, r)
             n == Len(b)
  <2>1. /\ c \in Seq(Records) /\ n \in Nat /\ Len(c) = n + 1 /\ c[n + 1] = r
        /\ \A k \in 0..n - 1 : c[k + 1] = b[k + 1]
    OBVIOUS
  <2>2. PICK g : /\ g[{}] = st
                 /\ \A k \in 0..n - 1 : g[1..k + 1] = Translate(g[1..k], b[k + 1])
                 /\ KeysFrom(st, b) = g[1..n]
    BY KeysByRecord
  <2> HIDE DEF c
  <2>3. PICK h : /\ h[{}] = st
                 /\ \A k \in 0..Len(c) - 1 : h[1..k + 1] = Translate(h[1..k], c[k + 1])
                 /\ KeysFrom(st, c) = h[1..Len(c)]
    BY <2>1, KeysByRecord
  <2> DEFINE T == {k \in Nat : k <= n => g[1..k] = h[1..k]}
  <2> HIDE DEF n
  <2>4. 0 \in T
    BY <2>2, <2>3, 1..0 = {}
  <2>5. ASSUME NEW k \in T PROVE k + 1 \in T
    <3>1. CASE k + 1 <= n
      <4>1. k \in 0..n - 1 /\ k \in 0..Len(c) - 1
        BY <2>1, <3>1
      <4>2. g[1..k + 1] = h[1..k + 1]
        BY <2>1, <2>2, <2>3, <3>1, <4>1
      <4>3. QED
        BY <4>2
    <3>2. QED
      BY <3>1
  <2>6. T = Nat
    <3>1. T \subseteq Nat
      OBVIOUS
    <3> HIDE DEF T
    <3>2. QED
      BY <2>4, <2>5, <3>1, NatSetInduction
  <2>7. g[1..n] = h[1..n]
    BY <2>1, <2>6
  <2>8. n \in 0..Len(c) - 1
    BY <2>1
  <2>9. KeysFrom(st, c) = Translate(h[1..n], c[n + 1])
    BY <2>1, <2>3, <2>8
  <2>10. QED
    BY <2>1, <2>2, <2>7, <2>9 DEF c
<1>3. QED
  BY <1>1, <1>2

(* A batch of records becomes keys.                                          *)
LEMMA KeysType ==
    ASSUME NEW st \in KeyState, NEW b \in Seq(Records)
    PROVE  KeysFrom(st, b) \in KeyState
<1> DEFINE P == {s \in Seq(Records) : KeysFrom(st, s) \in KeyState}
<1>1. P \subseteq Seq(Records) /\ << >> \in P
  BY KeysEquations
<1>2. ASSUME NEW s \in P, NEW e \in Records PROVE Append(s, e) \in P
  BY KeysEquations, TranslateType
<1> HIDE DEF P
<1>3. P = Seq(Records)
  BY <1>1, <1>2, SeqSetInduction
<1>4. QED
  BY <1>3 DEF P

(* Keys that differ at most in a pair that was cut in two.                   *)
Fits(a, b) ==
    /\ Len(a) = Len(b)
    /\ \A i \in 1..Len(a) : a[i].n = b[i].n /\ a[i].key \in {b[i].key, "broken"}

Below(p, q) == Fits(p.keys, q.keys) /\ (p.surrogate => q.surrogate)

(* What fits in two parts fits.                                              *)
LEMMA FitsConcat ==
    ASSUME NEW a \in Seq(KeySet), NEW b \in Seq(KeySet),
           NEW c \in Seq(KeySet), NEW d \in Seq(KeySet), Fits(a, b), Fits(c, d)
    PROVE  Fits(a \o c, b \o d)
<1>1. Len(a \o c) = Len(a) + Len(c) /\ Len(b \o d) = Len(b) + Len(d)
  OBVIOUS
<1>2. Len(a) = Len(b) /\ Len(c) = Len(d) /\ Len(a) \in Nat /\ Len(c) \in Nat
  BY DEF Fits
<1>3. ASSUME NEW i \in 1..Len(a) + Len(c)
      PROVE  /\ (a \o c)[i].n = (b \o d)[i].n
             /\ (a \o c)[i].key \in {(b \o d)[i].key, "broken"}
  <2>1. CASE i <= Len(a)
    <3>1. (a \o c)[i] = a[i] /\ (b \o d)[i] = b[i] /\ i \in 1..Len(a)
      BY <1>2, <2>1
    <3>2. QED
      BY <3>1 DEF Fits
  <2>2. CASE i > Len(a)
    <3>1. /\ (a \o c)[i] = c[i - Len(a)] /\ (b \o d)[i] = d[i - Len(a)]
          /\ i - Len(a) \in 1..Len(c)
      BY <1>2, <2>2
    <3>2. QED
      BY <3>1 DEF Fits
  <2>3. QED
    BY <1>2, <2>1, <2>2
<1>4. QED
  BY <1>1, <1>2, <1>3 DEF Fits

(* The keys a record adds to those before it.                                *)
KeysOf(r, surrogate) ==
    IF IsFunction(r) THEN Repeated(r, FunctionKey(r))
    ELSE IF NoKey(r) \/ r.kind = "high" THEN << >>
    ELSE Repeated(r, CharacterKey(r, surrogate))

SurrogateAfter(r, surrogate) ==
    IF r.kind = "high" THEN TRUE
    ELSE IF NoKey(r) \/ IsFunction(r) THEN surrogate ELSE FALSE

(* A record adds keys, and leaves a half of a pair or not.                   *)
LEMMA KeysOfType ==
    ASSUME NEW r \in Records, NEW p \in BOOLEAN
    PROVE  KeysOf(r, p) \in Seq(KeySet) /\ SurrogateAfter(r, p) \in BOOLEAN
<1>1. FunctionKey(r) \in KeySet
  BY DEF FunctionKey, KeySet, Records
<1>2. CharacterKey(r, p) \in KeySet
  BY CharacterKeys DEF KeySet, Records
<1>3. /\ Repeated(r, CharacterKey(r, p)) \in Seq(KeySet)
      /\ Repeated(r, FunctionKey(r)) \in Seq(KeySet)
      /\ << >> \in Seq(KeySet)
  BY <1>1, <1>2, RepeatedType
<1>4. QED
  BY <1>3, Zenon DEF KeysOf, SurrogateAfter

(* The keys a record adds fit those it adds when a half was kept.            *)
LEMMA KeysOfFit ==
    ASSUME NEW r \in Records, NEW p \in BOOLEAN, NEW q \in BOOLEAN, p => q
    PROVE  Fits(KeysOf(r, p), KeysOf(r, q)) /\ (SurrogateAfter(r, p) => SurrogateAfter(r, q))
<1>1. CASE NoKey(r) \/ r.kind = "high" \/ IsFunction(r)
  <2>1. KeysOf(r, p) = KeysOf(r, q)
    BY <1>1 DEF KeysOf
  <2>2. Fits(KeysOf(r, p), KeysOf(r, q))
    BY <2>1 DEF Fits
  <2>3. QED
    BY <1>1, <2>2 DEF SurrogateAfter
<1>2. CASE ~NoKey(r) /\ r.kind # "high" /\ ~IsFunction(r)
  <2> DEFINE k == CharacterKey(r, p)
             l == CharacterKey(r, q)
  <2>1. k.n = l.n /\ k.key \in {l.key, "broken"}
    BY CharacterKeys
  <2>2. /\ KeysOf(r, p) = [i \in 1..Repeats(r) |-> k]
        /\ KeysOf(r, q) = [i \in 1..Repeats(r) |-> l]
    BY <1>2 DEF KeysOf, Repeated
  <2>3. Repeats(r) \in Nat
    BY DEF Repeats
  <2> HIDE DEF k, l
  <2>4. Fits(KeysOf(r, p), KeysOf(r, q))
    BY <2>1, <2>2, <2>3 DEF Fits
  <2>5. QED
    BY <1>2, <2>4 DEF SurrogateAfter
<1>3. QED
  BY <1>1, <1>2

(* Translate puts the keys a record adds behind those there are.             *)
LEMMA TranslateAdds ==
    ASSUME NEW st \in KeyState, NEW r \in Records
    PROVE  Translate(st, r) = [keys |-> st.keys \o KeysOf(r, st.surrogate),
                               surrogate |-> SurrogateAfter(r, st.surrogate)]
<1>1. /\ st = [keys |-> st.keys, surrogate |-> st.surrogate]
      /\ st.keys \in Seq(KeySet) /\ st.keys \o << >> = st.keys
  BY DEF KeyState
<1>2. CASE NoKey(r)
  <2>1. Translate(st, r) = st
    BY <1>2, NoKeyRecord
  <2>2. r.kind # "high" /\ ~IsFunction(r)
    BY <1>2 DEF NoKey, IsFunction
  <2>3. KeysOf(r, st.surrogate) = << >> /\ SurrogateAfter(r, st.surrogate) = st.surrogate
    BY <1>2, <2>2 DEF KeysOf, SurrogateAfter
  <2>4. QED
    BY <1>1, <2>1, <2>3
<1>3. CASE r.kind = "high"
  <2>1. Translate(st, r) = [st EXCEPT !.surrogate = TRUE]
    BY <1>3, FirstHalf, Zenon
  <2>2. KeysOf(r, st.surrogate) = << >> /\ SurrogateAfter(r, st.surrogate) = TRUE
    BY <1>3 DEF KeysOf, SurrogateAfter, IsFunction
  <2>3. PICK k, q : st = [keys |-> k, surrogate |-> q]
    BY <1>1, Zenon
  <2>4. [st EXCEPT !.surrogate = TRUE] = [keys |-> k, surrogate |-> TRUE]
    <3>1. PICK t : t = TRUE
      OBVIOUS
    <3>2. [st EXCEPT !.surrogate = t] = [keys |-> k, surrogate |-> t]
      BY <2>3
    <3>3. QED
      BY <3>1, <3>2, Zenon
  <2>5. st.keys = k
    BY <2>3
  <2>6. QED
    BY <1>1, <2>1, <2>2, <2>4, <2>5
<1>4. CASE IsFunction(r)
  <2> DEFINE ks == st.keys \o Repeated(r, FunctionKey(r))
  <2>1. Translate(st, r) = [st EXCEPT !.keys = ks]
    BY <1>4, FunctionRecord, Zenon
  <2>2. ~NoKey(r) /\ r.kind # "high"
    BY <1>4 DEF NoKey, IsFunction
  <2>3. KeysOf(r, st.surrogate) = Repeated(r, FunctionKey(r))
        /\ SurrogateAfter(r, st.surrogate) = st.surrogate
    BY <1>4, <2>2 DEF KeysOf, SurrogateAfter
  <2>4. [st EXCEPT !.keys = ks] = [keys |-> ks, surrogate |-> st.surrogate]
    <3> HIDE DEF ks
    <3>1. PICK k, q : st = [keys |-> k, surrogate |-> q]
      BY <1>1
    <3>2. [st EXCEPT !.keys = ks] = [keys |-> ks, surrogate |-> q] /\ st.surrogate = q
      BY <3>1
    <3>3. QED
      BY <3>2
  <2>5. QED
    BY <2>1, <2>3, <2>4
<1>5. CASE ~NoKey(r) /\ r.kind # "high" /\ ~IsFunction(r)
  BY <1>5, CharacterRecord, Zenon DEF KeysOf, SurrogateAfter
<1>6. QED
  BY <1>2, <1>3, <1>4, <1>5

(* The same, field by field.                                                 *)
LEMMA TranslateFields ==
    ASSUME NEW st \in KeyState, NEW r \in Records
    PROVE  /\ Translate(st, r).keys = st.keys \o KeysOf(r, st.surrogate)
           /\ Translate(st, r).surrogate = SurrogateAfter(r, st.surrogate)
<1> DEFINE k == st.keys \o KeysOf(r, st.surrogate)
           q == SurrogateAfter(r, st.surrogate)
           t == Translate(st, r)
<1>1. t = [keys |-> k, surrogate |-> q]
  BY TranslateAdds, Zenon
<1> HIDE DEF k, q, t
<1>2. t.keys = k
  BY <1>1
<1>3. t.surrogate = q
  BY <1>1, Zenon
<1>4. QED
  BY <1>2, <1>3 DEF k, q, t

(* A batch of which the first half of a pair is missing.                     *)
LEMMA KeysBelow ==
    ASSUME NEW p \in KeyState, NEW q \in KeyState, Below(p, q), NEW b \in Seq(Records)
    PROVE  Below(KeysFrom(p, b), KeysFrom(q, b))
<1> DEFINE P == {s \in Seq(Records) : Below(KeysFrom(p, s), KeysFrom(q, s))}
<1>1. P \subseteq Seq(Records) /\ << >> \in P
  BY KeysEquations
<1>2. ASSUME NEW s \in P, NEW r \in Records PROVE Append(s, r) \in P
  <2>1. PICK u \in KeyState : u = KeysFrom(p, s)
    BY KeysType
  <2>2. PICK v \in KeyState : v = KeysFrom(q, s)
    BY KeysType
  <2>3. Fits(u.keys, v.keys) /\ (u.surrogate => v.surrogate)
    BY <2>1, <2>2 DEF Below
  <2>4. /\ u.keys \in Seq(KeySet) /\ v.keys \in Seq(KeySet)
        /\ u.surrogate \in BOOLEAN /\ v.surrogate \in BOOLEAN
    BY DEF KeyState
  <2>5. /\ Fits(KeysOf(r, u.surrogate), KeysOf(r, v.surrogate))
        /\ SurrogateAfter(r, u.surrogate) => SurrogateAfter(r, v.surrogate)
        /\ KeysOf(r, u.surrogate) \in Seq(KeySet)
        /\ KeysOf(r, v.surrogate) \in Seq(KeySet)
    BY <2>3, <2>4, KeysOfFit, KeysOfType
  <2>6. Fits(u.keys \o KeysOf(r, u.surrogate), v.keys \o KeysOf(r, v.surrogate))
    BY <2>3, <2>4, <2>5, FitsConcat
  <2>7. Below(Translate(u, r), Translate(v, r))
    <3>1. /\ Translate(u, r).keys = u.keys \o KeysOf(r, u.surrogate)
          /\ Translate(v, r).keys = v.keys \o KeysOf(r, v.surrogate)
          /\ Translate(u, r).surrogate = SurrogateAfter(r, u.surrogate)
          /\ Translate(v, r).surrogate = SurrogateAfter(r, v.surrogate)
      BY TranslateFields
    <3>2. QED
      BY <2>5, <2>6, <3>1, Zenon DEF Below
  <2>8. /\ KeysFrom(p, Append(s, r)) = Translate(u, r)
        /\ KeysFrom(q, Append(s, r)) = Translate(v, r)
    BY <2>1, <2>2, KeysEquations
  <2>9. QED
    BY <2>7, <2>8
<1> HIDE DEF P
<1>3. P = Seq(Records)
  BY <1>1, <1>2, SeqSetInduction
<1>4. QED
  BY <1>3 DEF P

(* The keys so far do not matter for the ones that follow.                   *)
Behind(ks, st) == [keys |-> ks \o st.keys, surrogate |-> st.surrogate]

(* The keys of a batch do not depend on the keys that came before it.        *)
LEMMA KeysBehind ==
    ASSUME NEW ks \in Seq(KeySet), NEW st \in KeyState, NEW b \in Seq(Records)
    PROVE  KeysFrom(Behind(ks, st), b) = Behind(ks, KeysFrom(st, b))
<1> DEFINE P == {s \in Seq(Records) :
                    KeysFrom(Behind(ks, st), s) = Behind(ks, KeysFrom(st, s))}
<1>1. \A x \in KeyState : Behind(ks, x) \in KeyState
  BY DEF Behind, KeyState
<1>2. P \subseteq Seq(Records) /\ << >> \in P
  BY <1>1, KeysEquations
<1>3. ASSUME NEW s \in P, NEW r \in Records PROVE Append(s, r) \in P
  <2>1. PICK u \in KeyState : u = KeysFrom(st, s)
    BY KeysType
  <2>2. PICK v \in KeyState : v = Behind(ks, u)
    BY <1>1
  <2>3. v.surrogate = u.surrogate /\ v.keys = ks \o u.keys
    BY <2>2 DEF Behind
  <2>4. KeysOf(r, u.surrogate) \in Seq(KeySet) /\ u.keys \in Seq(KeySet)
    BY KeysOfType DEF KeyState
  <2>5. (ks \o u.keys) \o KeysOf(r, u.surrogate) = ks \o (u.keys \o KeysOf(r, u.surrogate))
    <3>1. PICK a \in Seq(KeySet), c \in Seq(KeySet) :
            a = u.keys /\ c = KeysOf(r, u.surrogate)
      BY <2>4
    <3>2. (ks \o a) \o c = ks \o (a \o c)
      BY ConcatAssociative, SMTT(30)
    <3>3. QED
      BY <3>1, <3>2
  <2>6. Translate(v, r) = Behind(ks, Translate(u, r))
    <3>1. Translate(v, r) = [keys |-> (ks \o u.keys) \o KeysOf(r, u.surrogate),
                             surrogate |-> SurrogateAfter(r, u.surrogate)]
      BY <2>3, TranslateAdds, Zenon
    <3>2. /\ Translate(u, r).keys = u.keys \o KeysOf(r, u.surrogate)
          /\ Translate(u, r).surrogate = SurrogateAfter(r, u.surrogate)
      BY TranslateFields
    <3>3. QED
      BY <2>5, <3>1, <3>2, Zenon DEF Behind
  <2>7. KeysFrom(Behind(ks, st), s) = v
    BY <2>1, <2>2
  <2>8. KeysFrom(Behind(ks, st), Append(s, r)) = Translate(v, r)
    BY <1>1, <2>7, KeysEquations
  <2>9. KeysFrom(st, Append(s, r)) = Translate(u, r)
    BY <2>1, KeysEquations
  <2>10. KeysFrom(Behind(ks, st), Append(s, r)) = Behind(ks, KeysFrom(st, Append(s, r)))
    BY <2>6, <2>8, <2>9
  <2>11. QED
    BY <2>10
<1> HIDE DEF P
<1>4. P = Seq(Records)
  BY <1>2, <1>3, SeqSetInduction
<1>5. QED
  BY <1>4 DEF P

(* Records add keys behind the ones there are.                               *)
Continues(q, p) ==
    /\ Len(p.keys) <= Len(q.keys)
    /\ \A i \in 1..Len(p.keys) : q.keys[i] = p.keys[i]

(* Keys behind keys that are behind others.                                  *)
LEMMA ContinuesTransitive ==
    ASSUME NEW p \in KeyState, NEW q \in KeyState, NEW s \in KeyState,
           Continues(q, p), Continues(s, q)
    PROVE  Continues(s, p)
<1>1. /\ Len(p.keys) \in Nat /\ Len(q.keys) \in Nat /\ Len(s.keys) \in Nat
  BY DEF KeyState
<1>2. QED
  BY <1>1 DEF Continues

(* A record takes no key back, ...                                           *)
LEMMA TranslateContinues ==
    ASSUME NEW st \in KeyState, NEW r \in Records
    PROVE  Continues(Translate(st, r), st)
<1>1. PICK more \in Seq(KeySet) : more = KeysOf(r, st.surrogate)
  BY KeysOfType DEF KeyState
<1>2. Translate(st, r).keys = st.keys \o more
  BY <1>1, TranslateFields
<1>3. st.keys \in Seq(KeySet)
  BY DEF KeyState
<1>4. /\ Len(st.keys) <= Len(st.keys \o more)
      /\ \A i \in 1..Len(st.keys) : (st.keys \o more)[i] = st.keys[i]
  BY <1>3
<1>5. QED
  BY <1>2, <1>4 DEF Continues

(* ... and a batch takes none back.                                          *)
LEMMA KeysContinue ==
    ASSUME NEW st \in KeyState, NEW b \in Seq(Records)
    PROVE  Continues(KeysFrom(st, b), st)
<1> DEFINE P == {s \in Seq(Records) : Continues(KeysFrom(st, s), st)}
<1>1. Continues(st, st)
  BY DEF Continues, KeyState
<1>2. P \subseteq Seq(Records) /\ << >> \in P
  BY <1>1, KeysEquations
<1>3. ASSUME NEW s \in P, NEW r \in Records PROVE Append(s, r) \in P
  <2>1. PICK u \in KeyState : u = KeysFrom(st, s)
    BY KeysType
  <2>2. PICK v \in KeyState : v = Translate(u, r)
    BY TranslateType
  <2>3. Continues(v, u) /\ Continues(u, st)
    BY <2>1, <2>2, TranslateContinues
  <2>4. Continues(v, st)
    BY <2>3, ContinuesTransitive
  <2>5. KeysFrom(st, Append(s, r)) = v
    BY <2>1, <2>2, KeysEquations
  <2>6. QED
    BY <2>4, <2>5
<1> HIDE DEF P
<1>4. P = Seq(Records)
  BY <1>2, <1>3, SeqSetInduction
<1>5. QED
  BY <1>4 DEF P

(* A FOCUS record is no key.                                                 *)
LEMMA KeysOfFocus ==
    ASSUME NEW st \in KeyState, NEW b \in Seq(Records), NEW r \in Records, NoKey(r)
    PROVE  KeysFrom(st, Append(b, r)) = KeysFrom(st, b)
  BY KeysEquations, NoKeyRecord

(* A batch of a FOCUS record alone has no key.                               *)
LEMMA KeysOfLoneFocus ==
    ASSUME NEW st \in KeyState, NEW b \in Seq(Records), Len(b) = 1, NoKey(b[1])
    PROVE  KeysFrom(st, b) = st
<1>1. b = Append(<< >>, b[1]) /\ b[1] \in Records /\ << >> \in Seq(Records)
  OBVIOUS
<1>2. KeysFrom(st, Append(<< >>, b[1])) = KeysFrom(st, << >>)
  BY <1>1, KeysOfFocus
<1>3. QED
  BY <1>1, <1>2, KeysEquations

------------------------------------------------------------------------------
(* Where the keys are on their way: got has those of the batches that were   *)
(* handled (a pair may be broken); c[i] is what the application will have    *)
(* got, and kept of a pair, when the first i posted batches are handled as   *)
(* one; then come the batch of a reader that has not posted it, and the      *)
(* records in the console.                                                   *)
NoKeys == [keys |-> <<>>, surrogate |-> FALSE]
Got(g) == [keys |-> g, surrogate |-> FALSE]

Chain(c, ps, g, all) ==
    /\ c \in [0..Len(ps) -> KeyState]
    /\ \A i \in 1..Len(ps) : c[i] = KeysFrom(c[i - 1], ps[i])
    /\ \A i \in 0..Len(ps) : Continues(all, c[i])
    /\ Below(Got(g), c[0])

Held(b, th) ==
    /\ b \in Seq(Records)
    /\ \A t \in Threads : th[t].at = "post" => th[t].batch = b
    /\ (\A t \in Threads : th[t].at # "post") => b = <<>>

Remaining(st, b, recs, all) == KeysFrom(KeysFrom(st, b), recs) = all

(* The state a batch is decoded from.                                        *)
LEMMA NoKeysType == NoKeys \in KeyState
  BY DEF NoKeys, KeyState

(* ReadConsoleHandler decodes each batch from that state.                    *)
LEMMA KeysAreKeysFrom ==
    ASSUME NEW b
    PROVE  Keys(b) = KeysFrom(NoKeys, b).keys
  BY DEF Keys, KeysFrom, NoKeys

(* A batch that is handled: the application gets its keys.                   *)
LEMMA GotBatch ==
    ASSUME NEW g \in Seq(KeySet), NEW st \in KeyState, Below(Got(g), st),
           NEW b \in Seq(Records)
    PROVE  /\ Keys(b) \in Seq(KeySet)
           /\ Below(Got(g \o Keys(b)), KeysFrom(st, b))
<1>1. Got(g) \in KeyState
  BY DEF Got, KeyState
<1>2. Got(g) = Behind(g, NoKeys)
  BY DEF Got, Behind, NoKeys
<1>3. PICK u \in KeyState : u = KeysFrom(NoKeys, b)
  BY NoKeysType, KeysType
<1>4. u.keys \in Seq(KeySet) /\ u.keys = Keys(b)
  BY <1>3, KeysAreKeysFrom DEF KeyState
<1>5. KeysFrom(Got(g), b) = Behind(g, u)
  BY <1>2, <1>3, NoKeysType, KeysBehind
<1>6. Below(Behind(g, u), KeysFrom(st, b))
  BY <1>1, <1>5, KeysBelow
<1>7. Behind(g, u).keys = g \o Keys(b)
  BY <1>4 DEF Behind
<1>8. Got(g \o Keys(b)).keys = g \o Keys(b) /\ Got(g \o Keys(b)).surrogate = FALSE
  BY DEF Got
<1>9. Below(Got(g \o Keys(b)), KeysFrom(st, b))
  BY <1>6, <1>7, <1>8 DEF Below
<1>10. QED
  BY <1>4, <1>9

(* A record more in the console.                                             *)
LEMMA ChainGrows ==
    ASSUME NEW c, NEW ps, NEW g, NEW all \in KeyState, NEW more \in KeyState,
           Chain(c, ps, g, all), Continues(more, all)
    PROVE  Chain(c, ps, g, more)
<1>1. ASSUME NEW i \in 0..Len(ps) PROVE Continues(more, c[i])
  <2>1. c[i] \in KeyState /\ Continues(all, c[i])
    BY DEF Chain
  <2>2. QED
    BY <2>1, ContinuesTransitive
<1>2. QED
  BY <1>1 DEF Chain

(* A batch that is posted is the last one on its way.                        *)
LEMMA ChainPosted ==
    ASSUME NEW ps \in Seq(Seq(Records)), NEW c, NEW g, NEW all, NEW b \in Seq(Records),
           Chain(c, ps, g, all), Continues(all, KeysFrom(c[Len(ps)], b))
    PROVE  \E d : /\ Chain(d, Append(ps, b), g, all)
                  /\ d[Len(ps) + 1] = KeysFrom(c[Len(ps)], b)
<1> DEFINE n == Len(ps)
           d == [i \in 0..n + 1 |-> IF i <= n THEN c[i] ELSE KeysFrom(c[n], b)]
           qs == Append(ps, b)
<1>1. /\ n \in Nat /\ Len(qs) = n + 1 /\ qs[n + 1] = b
      /\ \A i \in 1..n : qs[i] = ps[i]
  OBVIOUS
<1>2. c[n] \in KeyState /\ KeysFrom(c[n], b) \in KeyState
  BY <1>1, KeysType DEF Chain
<1> HIDE DEF qs
<1>3. d \in [0..n + 1 -> KeyState]
  BY <1>1, <1>2 DEF Chain
<1>4. \A i \in 0..n : d[i] = c[i]
  BY <1>1
<1>5. d[n + 1] = KeysFrom(c[n], b)
  BY <1>1
<1> HIDE DEF d
<1>6. ASSUME NEW i \in 1..n + 1 PROVE d[i] = KeysFrom(d[i - 1], qs[i])
  <2>1. CASE i = n + 1
    BY <1>1, <1>4, <1>5, <2>1
  <2>2. CASE i # n + 1
    <3>1. i \in 1..n /\ i - 1 \in 0..n /\ i \in 0..n
      BY <1>1, <2>2
    <3>2. QED
      BY <1>1, <1>4, <3>1 DEF Chain
  <2>3. QED
    BY <2>1, <2>2
<1>7. ASSUME NEW i \in 0..n + 1 PROVE Continues(all, d[i])
  <2>1. CASE i = n + 1
    BY <1>5, <2>1
  <2>2. CASE i # n + 1
    BY <1>1, <1>4, <2>2, SMTT(30) DEF Chain
  <2>3. QED
    BY <2>1, <2>2
<1>8. Below(Got(g), d[0])
  BY <1>1, <1>4 DEF Chain
<1>9. Chain(d, qs, g, all)
  BY <1>1, <1>3, <1>6, <1>7, <1>8 DEF Chain
<1>10. QED
  BY <1>5, <1>9 DEF qs

(* The batch that is handled is the first one, and the application gets      *)
(* its keys.                                                                 *)
LEMMA ChainTaken ==
    ASSUME NEW ps \in Seq(Seq(Records)), ps # <<>>, NEW c, NEW g \in Seq(KeySet),
           NEW all, Chain(c, ps, g, all)
    PROVE  \E d : /\ Chain(d, Tail(ps), g \o Keys(Head(ps)), all)
                  /\ d[Len(Tail(ps))] = c[Len(ps)]
<1> DEFINE n == Len(ps) - 1
           d == [i \in 0..n |-> c[i + 1]]
           qs == Tail(ps)
<1>1. /\ n \in Nat /\ Len(ps) = n + 1 /\ Len(qs) = n /\ Head(ps) = ps[1]
      /\ ps[1] \in Seq(Records)
      /\ \A i \in 1..n : qs[i] = ps[i + 1]
  OBVIOUS
<1> HIDE DEF qs, n
<1>2. /\ c \in [0..n + 1 -> KeyState]
      /\ \A i \in 1..n + 1 : c[i] = KeysFrom(c[i - 1], ps[i])
      /\ \A i \in 0..n + 1 : Continues(all, c[i])
      /\ Below(Got(g), c[0])
  BY <1>1 DEF Chain
<1>3. d \in [0..n -> KeyState] /\ \A i \in 0..n : d[i] = c[i + 1]
  BY <1>1, <1>2
<1> HIDE DEF d
<1>4. ASSUME NEW i \in 1..n PROVE d[i] = KeysFrom(d[i - 1], qs[i])
  <2>1. i + 1 \in 1..n + 1 /\ i - 1 \in 0..n /\ i \in 0..n /\ (i + 1) - 1 = i /\ (i - 1) + 1 = i
    BY <1>1
  <2>2. c[i + 1] = KeysFrom(c[i], ps[i + 1])
    BY <1>2, <2>1
  <2>3. QED
    BY <1>1, <1>3, <2>1, <2>2
<1>5. \A i \in 0..n : Continues(all, d[i])
  BY <1>1, <1>2, <1>3
<1>6. Below(Got(g \o Keys(Head(ps))), d[0])
  <2>1. c[0] \in KeyState /\ d[0] = KeysFrom(c[0], ps[1])
    BY <1>1, <1>2, <1>3
  <2>2. QED
    BY <1>1, <1>2, <2>1, GotBatch
<1>7. Chain(d, qs, g \o Keys(Head(ps)), all)
  BY <1>1, <1>3, <1>4, <1>5, <1>6 DEF Chain
<1>8. d[Len(qs)] = c[Len(ps)]
  BY <1>1, <1>3
<1>9. QED
  BY <1>7, <1>8 DEF qs

(* The keys of all the records there have been.                              *)
All == KeysFrom(NoKeys, typed)

RecordsInv ==
    /\ typed \in Seq(Records) /\ console \in Seq(Records)
    /\ posted \in Seq(Seq(Records)) /\ got \in Seq(KeySet)
    /\ \A t \in Threads : thread[t].batch \in Seq(Records)

OnTheirWay(c, b) ==
    /\ Chain(c, posted, got, All) /\ Held(b, thread)
    /\ Remaining(c[Len(posted)], b, console, All)

(* Keys are lost when the stream is destroyed: what it got stays a beginning.*)
KeysInv ==
    /\ RecordsInv
    /\ \E st \in KeyState : Continues(All, st) /\ Below(Got(got), st)
    /\ reader.readable => \E c, b : OnTheirWay(c, b)

(* The record Pause wakes the reader with is no key.                         *)
LEMMA FocusIsNoKey == Focus \in Records /\ NoKey(Focus)
  BY DEF Focus, Records, NoKey

(* The keys that were got are a beginning, whatever comes after them.        *)
LEMMA GotIsBeginning ==
    ASSUME NEW c, NEW ps \in Seq(Seq(Records)), NEW g, NEW all, Chain(c, ps, g, all)
    PROVE  \E st \in KeyState : Continues(all, st) /\ Below(Got(g), st)
<1>1. 0 \in 0..Len(ps)
  OBVIOUS
<1>2. c[0] \in KeyState /\ Continues(all, c[0]) /\ Below(Got(g), c[0])
  BY <1>1 DEF Chain
<1>3. QED
  BY <1>2

(* What is still to come takes no key of the reader's batch back.            *)
LEMMA BatchContinues ==
    ASSUME NEW st \in KeyState, NEW b \in Seq(Records), NEW recs \in Seq(Records),
           NEW all, Remaining(st, b, recs, all)
    PROVE  Continues(all, KeysFrom(st, b))
<1>1. KeysFrom(st, b) \in KeyState
  BY KeysType
<1>2. QED
  BY <1>1, KeysContinue DEF Remaining

(* Nothing was typed.                                                        *)
LEMMA InitKeysInv == InputInit => KeysInv
<1> SUFFICES ASSUME InputInit PROVE KeysInv
  OBVIOUS
<1>1. /\ typed = <<>> /\ console = <<>> /\ posted = <<>> /\ got = <<>>
      /\ \A t \in Threads : thread[t] = Unborn
  BY DEF InputInit
<1>2. RecordsInv
  <2>1. \A S : <<>> \in Seq(S)
    BY EmptySeq
  <2>2. \A t \in Threads : thread[t].batch = <<>>
    BY <1>1 DEF Unborn
  <2>3. QED
    BY <1>1, <2>1, <2>2 DEF RecordsInv
<1>3. All = NoKeys
  BY <1>1, NoKeysType, KeysEquations DEF All
<1>4. Continues(NoKeys, NoKeys) /\ Below(Got(<<>>), NoKeys)
  BY NoKeysType DEF Continues, Below, Fits, Got, NoKeys
<1> DEFINE c == [i \in 0..0 |-> NoKeys]
<1>5. Chain(c, <<>>, <<>>, NoKeys)
  <2>1. Len(<<>>) = 0 /\ 0..0 = {0} /\ 1..0 = {}
    OBVIOUS
  <2>2. c \in [0..0 -> KeyState] /\ c[0] = NoKeys
    BY NoKeysType
  <2> HIDE DEF c
  <2>3. QED
    BY <1>4, <2>1, <2>2 DEF Chain
<1>6. Held(<<>>, thread)
  BY <1>1 DEF Held, Unborn
<1>7. Remaining(c[0], <<>>, <<>>, NoKeys)
  BY NoKeysType, KeysEquations DEF Remaining
<1>8. OnTheirWay(c, <<>>)
  <2>1. Len(posted) = 0
    BY <1>1
  <2> HIDE DEF c
  <2>2. QED
    BY <1>1, <1>3, <1>5, <1>6, <1>7, <2>1 DEF OnTheirWay
<1>9. \E st \in KeyState : Continues(All, st) /\ Below(Got(got), st)
  BY <1>1, <1>3, <1>4, NoKeysType
<1>10. QED
  BY <1>2, <1>8, <1>9 DEF KeysInv

(* Only the thread the stream holds reads the console.                       *)
LEMMA OneHolder ==
    ASSUME ReaderInv, reader.readable, NEW t \in Threads,
           thread[t].at \in {"check", "read", "post"}
    PROVE  \A u \in Threads : thread[u].at \in {"check", "read", "post"} => u = t
  BY DEF ReaderInv, NoOtherReader

(* A reader that has no batch takes a place where it has none.               *)
LEMMA HeldAsBefore ==
    ASSUME NEW b, NEW th, NEW th2, Held(b, th),
           \A u \in Threads : /\ th2[u].at = "post" <=> th[u].at = "post"
                              /\ th2[u].at = "post" => th2[u].batch = th[u].batch
    PROVE  Held(b, th2)
  BY DEF Held

(* Nothing changes for the keys.                                             *)
LEMMA SameKeys ==
    ASSUME KeysInv, UNCHANGED <<console, posted, typed, got>>, RecordsInv',
           reader'.readable =>
              /\ reader.readable
              /\ \A u \in Threads :
                    /\ thread'[u].at = "post" <=> thread[u].at = "post"
                    /\ thread'[u].at = "post" => thread'[u].batch = thread[u].batch
    PROVE  KeysInv'
<1>1. All' = All
  BY DEF All
<1>2. ASSUME reader'.readable PROVE \E c, b : OnTheirWay(c, b)'
  <2>1. PICK c, b : OnTheirWay(c, b)
    BY <1>2 DEF KeysInv
  <2>2. Held(b, thread')
    BY <1>2, <2>1, HeldAsBefore DEF OnTheirWay
  <2>3. OnTheirWay(c, b)'
    BY <1>1, <2>1, <2>2 DEF OnTheirWay
  <2>4. QED
    BY <2>3
<1>3. (\E st \in KeyState : Continues(All, st) /\ Below(Got(got), st))'
  BY <1>1 DEF KeysInv
<1>4. QED
  BY <1>2, <1>3 DEF KeysInv

(* A record the console produces.                                            *)
LEMMA AllGrows ==
    ASSUME RecordsInv, NEW r \in Records, typed' = Append(typed, r)
    PROVE  /\ All \in KeyState /\ All' \in KeyState
           /\ All' = Translate(All, r) /\ Continues(All', All)
<1>1. All \in KeyState
  BY NoKeysType, KeysType DEF All, RecordsInv
<1>2. All' = Translate(All, r)
  BY NoKeysType, KeysEquations DEF All, RecordsInv
<1>3. QED
  BY <1>1, <1>2, TranslateType, TranslateContinues

(* InputReader::Run: the records go from the console to a batch, and the     *)
(* batch to those posted.                                                    *)
LEMMA CheckRunKeepsKeys ==
    ASSUME ReaderInv, KeysInv, NEW t \in Threads, CheckRun(t)
    PROVE  KeysInv'
<1>1. PICK at, none :
        /\ at \in {"read", "ended"} /\ none = <<>>
        /\ thread' = [thread EXCEPT ![t] = [at |-> at, batch |-> none]]
  BY DEF CheckRun, ThreadAt
<1>2. \A u \in Threads : thread'[u] = IF u = t THEN [at |-> at, batch |-> none]
                                      ELSE thread[u]
  BY <1>1 DEF ReaderInv, InputTypeInv
<1>3. thread[t].at = "check" /\ UNCHANGED <<console, posted, typed, got, reader>>
  BY DEF CheckRun
<1>4. RecordsInv'
  <2>1. \A u \in Threads : thread'[u].batch \in Seq(Records)
    <3>1. none \in Seq(Records)
      BY <1>1, EmptySeq
    <3>2. \A u \in Threads : thread[u].batch \in Seq(Records)
      BY DEF KeysInv, RecordsInv
    <3>3. QED
      BY <1>2, <3>1, <3>2
  <2>2. QED
    BY <1>3, <2>1 DEF KeysInv, RecordsInv
<1>5. \A u \in Threads :
         /\ thread'[u].at = "post" <=> thread[u].at = "post"
         /\ thread'[u].at = "post" => thread'[u].batch = thread[u].batch
  BY <1>1, <1>2, <1>3
<1>6. QED
  BY <1>3, <1>4, <1>5, SameKeys

(* The reader takes every record there is, or a FOCUS record alone.          *)
LEMMA ReadConsoleKeepsKeys ==
    ASSUME ReaderInv, KeysInv, NEW t \in Threads, ReadConsole(t)
    PROVE  KeysInv'
<1> DEFINE lone == Len(console) = 1 /\ console[1].kind = "focus"
<1>1. PICK at, batch : /\ at = IF lone THEN "check" ELSE "post"
                       /\ batch = IF lone THEN <<>> ELSE console
  OBVIOUS
<1>2. /\ thread[t].at = "read" /\ console # <<>> /\ console' = <<>>
      /\ thread' = [thread EXCEPT ![t] = [at |-> at, batch |-> batch]]
      /\ UNCHANGED <<posted, typed, got, reader>>
  BY <1>1 DEF ReadConsole, ThreadAt
<1>3. console \in Seq(Records) /\ <<>> \in Seq(Records)
  BY EmptySeq DEF KeysInv, RecordsInv
<1>4. batch \in Seq(Records)
  BY <1>1, <1>3
<1>5. at = "post" => batch = console
  BY <1>1
<1>6. at # "post" => batch = <<>>
  BY <1>1
<1>7. at # "post" => lone
  BY <1>1
<1>8. \A u \in Threads : thread'[u] = IF u = t THEN [at |-> at, batch |-> batch]
                                      ELSE thread[u]
  BY <1>2 DEF ReaderInv, InputTypeInv
<1>9. RecordsInv'
  BY <1>2, <1>3, <1>4, <1>8 DEF KeysInv, RecordsInv
<1>10. All' = All
  BY <1>2 DEF All
<1>11. ASSUME reader.readable PROVE \E c, b : OnTheirWay(c, b)'
  <2>1. PICK c, b : OnTheirWay(c, b)
    BY <1>11 DEF KeysInv
  <2>2. \A u \in Threads : u # t => thread[u].at # "post"
    BY <1>2, <1>11, OneHolder
  <2>3. b = <<>>
    BY <1>2, <2>1, <2>2 DEF OnTheirWay, Held
  <2>4. PICK st \in KeyState : st = c[Len(posted)]
    <3>1. Len(posted) \in 0..Len(posted)
      BY DEF KeysInv, RecordsInv
    <3>2. QED
      BY <2>1, <3>1 DEF OnTheirWay, Chain
  <2>5. KeysFrom(st, console) = All
    BY <2>1, <2>3, <2>4, KeysEquations DEF OnTheirWay, Remaining
  <2>6. KeysFrom(st, batch) = All
    <3>1. CASE at = "post"
      BY <1>5, <2>5, <3>1
    <3>2. CASE at # "post"
      <4>1. KeysFrom(st, console) = st
        BY <1>3, <1>7, <3>2, KeysOfLoneFocus DEF NoKey
      <4>2. QED
        BY <1>6, <2>5, <3>2, <4>1, KeysEquations
    <3>3. QED
      BY <3>1, <3>2
  <2>7. Held(batch, thread')
    BY <1>4, <1>6, <1>8, <2>2 DEF Held
  <2>8. Remaining(st, batch, <<>>, All)
    BY <1>4, <2>6, KeysType, KeysEquations DEF Remaining
  <2>9. OnTheirWay(c, batch)'
    BY <1>2, <1>10, <2>1, <2>4, <2>7, <2>8 DEF OnTheirWay
  <2>10. QED
    BY <2>9
<1>12. (\E st \in KeyState : Continues(All, st) /\ Below(Got(got), st))'
  BY <1>2, <1>10 DEF KeysInv
<1>13. QED
  BY <1>2, <1>9, <1>11, <1>12 DEF KeysInv

(* The reader posts its batch.                                               *)
LEMMA PostKeepsKeys ==
    ASSUME ReaderInv, KeysInv, NEW t \in Threads, Post(t)
    PROVE  KeysInv'
<1> DEFINE batch == thread[t].batch
<1>1. /\ thread[t].at = "post" /\ posted' = Append(posted, batch)
      /\ thread' = [thread EXCEPT ![t] = [at |-> "check", batch |-> <<>>]]
      /\ UNCHANGED <<console, typed, got, reader>>
  BY DEF Post, ThreadAt
<1>2. \A u \in Threads : thread'[u] = IF u = t THEN [at |-> "check", batch |-> <<>>]
                                      ELSE thread[u]
  BY <1>1 DEF ReaderInv, InputTypeInv
<1>3. batch \in Seq(Records) /\ posted \in Seq(Seq(Records)) /\ console \in Seq(Records)
  BY DEF KeysInv, RecordsInv
<1>4. RecordsInv'
  BY <1>1, <1>2, <1>3, EmptySeq DEF KeysInv, RecordsInv
<1>5. All' = All
  BY <1>1 DEF All
<1>6. ASSUME reader.readable PROVE \E c, b : OnTheirWay(c, b)'
  <2>1. PICK c, b : OnTheirWay(c, b)
    BY <1>6 DEF KeysInv
  <2>2. \A u \in Threads : u # t => thread[u].at # "post"
    BY <1>1, <1>6, OneHolder
  <2>3. b = batch
    BY <1>1, <2>1 DEF OnTheirWay, Held
  <2>4. PICK st \in KeyState : st = c[Len(posted)]
    <3>1. Len(posted) \in 0..Len(posted)
      BY <1>3
    <3>2. QED
      BY <2>1, <3>1 DEF OnTheirWay, Chain
  <2> HIDE DEF batch
  <2>5. KeysFrom(KeysFrom(st, batch), console) = All
    BY <2>1, <2>3, <2>4 DEF OnTheirWay, Remaining
  <2>6. Continues(All, KeysFrom(st, batch))
    BY <1>3, <2>5, BatchContinues DEF Remaining
  <2>7. PICK d : /\ Chain(d, posted', got, All)
                 /\ d[Len(posted) + 1] = KeysFrom(st, batch)
    BY <1>1, <1>3, <2>1, <2>4, <2>6, ChainPosted, SMTT(30) DEF OnTheirWay
  <2>8. Len(posted') = Len(posted) + 1
    BY <1>1, <1>3
  <2>9. PICK u \in KeyState : u = KeysFrom(st, batch)
    BY <1>3, KeysType
  <2>10. Remaining(u, <<>>, console, All)
    BY <2>5, <2>9, KeysEquations DEF Remaining
  <2>11. Held(<<>>, thread')
    BY <1>2, <2>2, EmptySeq DEF Held
  <2>12. OnTheirWay(d, <<>>)'
    BY <1>1, <1>5, <2>7, <2>8, <2>9, <2>10, <2>11 DEF OnTheirWay
  <2>13. QED
    BY <2>12
<1>7. (\E st \in KeyState : Continues(All, st) /\ Below(Got(got), st))'
  BY <1>1, <1>5 DEF KeysInv
<1>8. QED
  BY <1>1, <1>4, <1>6, <1>7 DEF KeysInv

(* The user types, and Pause wakes the reader: the console has one record    *)
(* more.                                                                     *)
LEMMA RecordKeepsKeys ==
    ASSUME KeysInv, NEW r \in Records, console' = Append(console, r),
           typed' = Append(typed, r) \/ (NoKey(r) /\ UNCHANGED typed),
           UNCHANGED <<thread, posted, got, reader>>
    PROVE  KeysInv'
<1>1. console \in Seq(Records) /\ typed \in Seq(Records) /\ posted \in Seq(Seq(Records))
  BY DEF KeysInv, RecordsInv
<1>2. RecordsInv'
  <2>1. console' \in Seq(Records) /\ typed' \in Seq(Records)
    <3>1. Append(console, r) \in Seq(Records) /\ Append(typed, r) \in Seq(Records)
      BY <1>1, AppendProperties
    <3>2. QED
      BY <1>1, <3>1
  <2>2. \A t \in Threads : thread'[t].batch \in Seq(Records)
    BY DEF KeysInv, RecordsInv
  <2>3. QED
    BY <2>1, <2>2 DEF KeysInv, RecordsInv
<1>3. /\ All \in KeyState /\ All' \in KeyState /\ All' = Translate(All, r)
      /\ Continues(All', All)
  <2>1. CASE typed' = Append(typed, r)
    BY <2>1, AllGrows DEF KeysInv
  <2>2. CASE NoKey(r) /\ UNCHANGED typed
    <3>1. All' = All /\ Translate(All, r) = All
      BY <2>2, NoKeyRecord DEF All
    <3>2. All \in KeyState
      BY <1>1, NoKeysType, KeysType DEF All
    <3>3. Continues(All, All)
      BY <3>2, <1>1, NoKeysType DEF Continues, KeyState
    <3>4. QED
      BY <3>1, <3>2, <3>3
  <2>3. QED
    BY <2>1, <2>2
<1>4. ASSUME reader.readable PROVE \E c, b : OnTheirWay(c, b)'
  <2>1. PICK c, b : OnTheirWay(c, b)
    BY <1>4 DEF KeysInv
  <2>2. Chain(c, posted, got, All')
    BY <1>3, <2>1, ChainGrows DEF OnTheirWay
  <2>3. PICK st \in KeyState : st = c[Len(posted)]
    <3>1. Len(posted) \in 0..Len(posted)
      BY <1>1
    <3>2. QED
      BY <2>1, <3>1 DEF OnTheirWay, Chain
  <2>4. b \in Seq(Records)
    BY <2>1 DEF OnTheirWay, Held
  <2>5. PICK u \in KeyState : u = KeysFrom(st, b)
    BY <2>4, KeysType
  <2>6. KeysFrom(u, console) = All
    BY <2>1, <2>3, <2>5 DEF OnTheirWay, Remaining
  <2>7. KeysFrom(u, Append(console, r)) = All'
    BY <1>1, <1>3, <2>6, KeysEquations
  <2>8. Remaining(st, b, console', All')
    BY <2>5, <2>7 DEF Remaining
  <2>9. OnTheirWay(c, b)'
    BY <2>1, <2>2, <2>3, <2>8 DEF OnTheirWay
  <2>10. QED
    BY <2>9
<1>5. (\E st \in KeyState : Continues(All, st) /\ Below(Got(got), st))'
  <2>1. PICK st \in KeyState : Continues(All, st) /\ Below(Got(got), st)
    BY DEF KeysInv
  <2>2. Continues(All', st)
    BY <1>3, <2>1, ContinuesTransitive
  <2>3. QED
    BY <2>1, <2>2
<1>6. QED
  BY <1>2, <1>4, <1>5 DEF KeysInv

(* A thread starts or ends without a batch.                                  *)
LEMMA NoBatchType ==
    ASSUME RecordsInv, NEW t \in Threads, NEW at, NEW none, none = <<>>,
           \A u \in Threads : thread'[u] = IF u = t THEN [at |-> at, batch |-> none]
                                           ELSE thread[u],
           UNCHANGED <<console, posted, typed, got>>
    PROVE  RecordsInv'
<1>1. \A u \in Threads : thread'[u].batch \in Seq(Records)
  <2>1. none \in Seq(Records)
    BY EmptySeq
  <2>2. \A u \in Threads : thread[u].batch \in Seq(Records)
    BY DEF RecordsInv
  <2>3. TAKE u \in Threads
  <2>4. CASE u = t
    <3>1. thread'[u] = [at |-> at, batch |-> none]
      BY <2>4
    <3>2. thread'[u].batch = none
      BY <3>1
    <3>3. QED
      BY <2>1, <3>2
  <2>5. CASE u # t
    <3>1. thread'[u] = thread[u]
      BY <2>5
    <3>2. QED
      BY <2>2, <3>1
  <2>6. QED
    BY <2>4, <2>5
<1>2. QED
  BY <1>1 DEF RecordsInv

(* A read that fails ends the reader, which has no batch.                    *)
LEMMA ReadFailsKeepsKeys ==
    ASSUME ReaderInv, KeysInv, NEW t \in Threads, ReadFails(t)
    PROVE  KeysInv'
<1>1. PICK none :
        none = <<>> /\ thread' = [thread EXCEPT ![t] = [at |-> "ended", batch |-> none]]
  BY DEF ReadFails, ThreadAt
<1>2. \A u \in Threads : thread'[u] = IF u = t THEN [at |-> "ended", batch |-> none]
                                      ELSE thread[u]
  BY <1>1 DEF ReaderInv, InputTypeInv
<1>3. thread[t].at = "read" /\ UNCHANGED <<console, posted, typed, got, reader>>
  BY DEF ReadFails
<1>4. RecordsInv'
  BY <1>1, <1>2, <1>3, NoBatchType DEF KeysInv
<1>5. \A u \in Threads :
         /\ thread'[u].at = "post" <=> thread[u].at = "post"
         /\ thread'[u].at = "post" => thread'[u].batch = thread[u].batch
  BY <1>2, <1>3
<1>6. QED
  BY <1>3, <1>4, <1>5, SameKeys

(* A new reader has no batch.                                                *)
LEMMA ResumeKeepsKeys ==
    ASSUME ReaderInv, KeysInv, Resume
    PROVE  KeysInv'
<1>1. /\ CanAct /\ reader.readable /\ reader.paused
      /\ input.m_tty_reader_thread = NoThread
      /\ UNCHANGED <<console, posted, typed, got>>
  BY DEF Resume, ReaderInv, StreamInv
<1>2. PICK t, none :
        /\ t \in Threads /\ t # NoThread /\ none = <<>>
        /\ thread' = [thread EXCEPT ![t] = [at |-> "check", batch |-> none]]
  BY <1>1, StartEffects DEF Resume, ReaderInv
<1>3. \A u \in Threads : thread'[u] = IF u = t THEN [at |-> "check", batch |-> none]
                                      ELSE thread[u]
  BY <1>2 DEF ReaderInv, InputTypeInv
<1>4. RecordsInv'
  BY <1>1, <1>2, <1>3, NoBatchType DEF KeysInv
<1>5. \A u \in Threads : thread[u].at # "post"
  BY <1>1, InputAssumption DEF ReaderInv, NoOtherReader, Threads, NoThread
<1>6. \A u \in Threads : thread'[u].at # "post"
  BY <1>3, <1>5
<1>7. QED
  BY <1>1, <1>4, <1>5, <1>6, SameKeys

(* Pause adds a FOCUS record at most.                                        *)
LEMMA PauseKeepsKeys ==
    ASSUME ReaderInv, KeysInv, Pause \/ PauseWakes \/ PauseJoins
    PROVE  KeysInv'
<1>1. CASE Pause \/ PauseJoins
  <2>1. UNCHANGED <<console, posted, typed, got, thread>>
    BY <1>1 DEF Pause, PauseJoins
  <2>2. reader'.readable => reader.readable
    BY <1>1 DEF Pause, PauseJoins, ReaderInv, InputTypeInv
  <2>3. RecordsInv'
    BY <2>1 DEF KeysInv, RecordsInv
  <2>4. QED
    BY <2>1, <2>2, <2>3, SameKeys
<1>2. CASE PauseWakes
  BY <1>2, FocusIsNoKey, RecordKeepsKeys DEF PauseWakes
<1>3. QED
  BY <1>1, <1>2

(* From now on nothing is delivered.                                         *)
LEMMA DestroyKeepsKeys ==
    ASSUME ReaderInv, KeysInv, Destroy
    PROVE  KeysInv'
<1>1. /\ UNCHANGED <<thread, posted, typed, got>> /\ ~reader'.readable
      /\ console' = console \/ console' = Append(console, Focus)
  BY DEF Destroy, ReaderInv, InputTypeInv
<1>2. All' = All
  BY <1>1 DEF All
<1>3. console' \in Seq(Records)
  <2>1. Append(console, Focus) \in Seq(Records)
    BY FocusIsNoKey, AppendProperties DEF KeysInv, RecordsInv
  <2>2. QED
    BY <1>1, <2>1 DEF KeysInv, RecordsInv
<1>4. RecordsInv'
  BY <1>1, <1>3 DEF KeysInv, RecordsInv
<1>5. (\E st \in KeyState : Continues(All, st) /\ Below(Got(got), st))'
  BY <1>1, <1>2 DEF KeysInv
<1>6. QED
  BY <1>1, <1>4, <1>5 DEF KeysInv

(* ReadConsoleHandler: the keys of the first batch that was posted.          *)
LEMMA HandlerKeepsKeys ==
    ASSUME ReaderInv, KeysInv, ReadConsoleHandler
    PROVE  KeysInv'
<1>1. /\ posted # <<>> /\ posted' = Tail(posted)
      /\ UNCHANGED <<console, thread, reader, typed>>
  BY DEF ReadConsoleHandler
<1>2. /\ posted \in Seq(Seq(Records)) /\ got \in Seq(KeySet)
      /\ posted' \in Seq(Seq(Records)) /\ Head(posted) \in Seq(Records)
  BY <1>1, HeadTailProperties DEF KeysInv, RecordsInv
<1>3. All' = All
  BY <1>1 DEF All
<1>4. CASE reader.readable
  <2>1. Keys(Head(posted)) \in Seq(KeySet)
    <3>1. PICK st \in KeyState : Below(Got(got), st)
      BY DEF KeysInv
    <3>2. QED
      BY <1>2, <3>1, GotBatch
  <2>2. got' = got \o Keys(Head(posted))
    <3>1. CASE Keys(Head(posted)) = <<>>
      <4>1. got' = got
        BY <3>1 DEF ReadConsoleHandler
      <4>2. got \o <<>> = got
        BY <1>2, ConcatEmptySeq
      <4>3. QED
        BY <3>1, <4>1, <4>2
    <3>2. CASE Keys(Head(posted)) # <<>>
      BY <1>4, <3>2 DEF ReadConsoleHandler
    <3>3. QED
      BY <3>1, <3>2
  <2>3. got' \in Seq(KeySet)
    BY <1>2, <2>1, <2>2, ConcatProperties
  <2>4. RecordsInv'
    BY <1>1, <1>2, <2>3 DEF KeysInv, RecordsInv
  <2>5. PICK c, b : OnTheirWay(c, b)
    BY <1>4 DEF KeysInv
  <2>6. PICK d : /\ Chain(d, posted', got', All)
                 /\ d[Len(posted')] = c[Len(posted)]
    BY <1>1, <1>2, <2>2, <2>5, ChainTaken DEF OnTheirWay
  <2>7. OnTheirWay(d, b)'
    BY <1>1, <1>3, <2>5, <2>6 DEF OnTheirWay
  <2>8. \E st \in KeyState : Continues(All, st) /\ Below(Got(got'), st)
    BY <1>2, <2>6, GotIsBeginning
  <2>9. QED
    BY <1>3, <2>4, <2>7, <2>8 DEF KeysInv
<1>5. CASE ~reader.readable
  <2>1. got' = got
    BY <1>5 DEF ReadConsoleHandler
  <2>2. RecordsInv'
    BY <1>1, <1>2, <2>1 DEF KeysInv, RecordsInv
  <2>3. (\E st \in KeyState : Continues(All, st) /\ Below(Got(got), st))'
    BY <1>3, <2>1 DEF KeysInv
  <2>4. QED
    BY <1>1, <1>5, <2>2, <2>3 DEF KeysInv
<1>6. QED
  BY <1>4, <1>5

(* KeysInv is an invariant of the console input.                             *)
THEOREM KeysInvariance == InputSpec => []KeysInv
<1>1. ASSUME ReaderInv, KeysInv, [InputNext]_inputVars PROVE KeysInv'
  <2>1. CASE \E t \in Threads : ReaderThread(t) \/ ReadFails(t)
    BY <1>1, <2>1, CheckRunKeepsKeys, ReadConsoleKeepsKeys, PostKeepsKeys,
       ReadFailsKeepsKeys DEF ReaderThread
  <2>2. CASE Record
    <3>1. PICK kind \in Kinds :
            /\ console' = Append(console, [kind |-> kind, n |-> Len(typed) + 1])
            /\ typed' = Append(typed, [kind |-> kind, n |-> Len(typed) + 1])
      BY <2>2 DEF Record
    <3>2. [kind |-> kind, n |-> Len(typed) + 1] \in Records
      BY <1>1 DEF KeysInv, RecordsInv, Records
    <3>3. UNCHANGED <<thread, posted, got, reader>>
      BY <2>2 DEF Record
    <3>4. QED
      BY <1>1, <3>1, <3>2, <3>3, RecordKeepsKeys
  <2>3. CASE Resume
    BY <1>1, <2>3, ResumeKeepsKeys
  <2>4. CASE Pause \/ PauseWakes \/ PauseJoins
    BY <1>1, <2>4, PauseKeepsKeys
  <2>5. CASE Destroy
    BY <1>1, <2>5, DestroyKeepsKeys
  <2>6. CASE ReadConsoleHandler
    BY <1>1, <2>6, HandlerKeepsKeys
  <2>7. CASE ListenerReturns \/ ListenerThrows \/ UNCHANGED inputVars
    <3>1. UNCHANGED <<console, posted, typed, got, thread, reader>>
      BY <1>1, <2>7, HandlersLeaveReaders DEF ListenerReturns, ListenerThrows, inputVars
    <3>2. RecordsInv'
      BY <1>1, <3>1 DEF KeysInv, RecordsInv
    <3>3. QED
      BY <1>1, <3>1, <3>2, SameKeys
  <2>8. QED
    BY <1>1, <2>1, <2>2, <2>3, <2>4, <2>5, <2>6, <2>7 DEF InputNext
<1>2. QED
  BY <1>1, InitKeysInv, ReaderInvariance, PTL DEF InputSpec

(* The keys arrive in the order they were typed, each once and none left     *)
(* out, for any number of readers, however the records are cut into batches  *)
(* (Run, ReadConsoleHandler, Pause and Start of input_tty.cpp): only a pair  *)
(* of surrogates can arrive broken.                                          *)
THEOREM KeysArriveInOrder == InputSpec => []KeysInOrder
<1>1. KeysInv => KeysInOrder
  <2> SUFFICES ASSUME KeysInv PROVE KeysInOrder
    OBVIOUS
  <2>1. PICK st \in KeyState : Continues(All, st) /\ Below(Got(got), st)
    BY DEF KeysInv
  <2>2. All.keys = Keys(typed)
    BY KeysAreKeysFrom DEF All
  <2>3. Got(got).keys = got
    BY DEF Got
  <2>4. Fits(got, st.keys)
    BY <2>1, <2>3 DEF Below
  <2>5. /\ Len(st.keys) <= Len(Keys(typed))
        /\ \A i \in 1..Len(st.keys) : Keys(typed)[i] = st.keys[i]
    BY <2>1, <2>2 DEF Continues
  <2>6. DOMAIN got = 1..Len(got)
    BY DEF KeysInv, RecordsInv
  <2>7. QED
    BY <2>4, <2>5, <2>6 DEF Fits, KeysInOrder
<1>2. QED
  BY <1>1, KeysInvariance, PTL

------------------------------------------------------------------------------
(* The terminal's output.  What the parser's states, its effects, and what   *)
(* it makes of a code point are.                                             *)
Chars == Bytes \cup {"CR", "LF", "FFFD", "astral", "wide", "CSI1"}
Arguments == 0..UShortMax
ParserSet ==
    {p \in [left : 0..6, lead : Leads \cup {"none"}, state : SUBSET StateFlags,
            args : Seq(Arguments), eol : Eols \cup {"none"}] :
        /\ p.left = 0 <=> p.lead = "none"
        /\ Consistent(p.state) /\ Len(p.args) <= MaxArgs
        /\ "IN_ARG" \in p.state => p.args # <<>>}
EffectSet == {e \in [does : Commands \cup {"text"}, text : Seq(Chars),
                     args : Seq(Arguments)] : Len(e.text) <= 2}
TurnSet == [parser : ParserSet, effects : Seq(EffectSet)]

(* The parser in another state, ...                                          *)
LEMMA StateChanges ==
    ASSUME NEW p \in ParserSet, NEW st \in SUBSET StateFlags, Consistent(st),
           "IN_ARG" \in st => p.args # <<>>
    PROVE  [p EXCEPT !.state = st] \in ParserSet
  BY DEF ParserSet

(* ... without arguments, ...                                                *)
LEMMA ArgumentsForgotten ==
    ASSUME NEW p \in ParserSet, "IN_ARG" \notin p.state
    PROVE  [p EXCEPT !.args = <<>>] \in ParserSet /\ [p EXCEPT !.args = <<>>].args = <<>>
<1>1. PICK none \in Seq(Arguments) : none = <<>>
  BY EmptySeq
<1>2. Len(none) = 0 /\ 0 <= MaxArgs
  BY <1>1, ParserAssumption
<1>3. [p EXCEPT !.args = none] \in ParserSet /\ [p EXCEPT !.args = none].args = none
  BY <1>2 DEF ParserSet
<1>4. QED
  BY <1>1, <1>3

(* ... and with more of them.                                                *)
LEMMA ArgumentsChange ==
    ASSUME NEW p \in ParserSet, NEW args \in Seq(Arguments), args # <<>>,
           Len(args) <= MaxArgs
    PROVE  [p EXCEPT !.args = args] \in ParserSet
  BY DEF ParserSet

(* A code point that has no effect.                                          *)
LEMMA GoesType ==
    ASSUME NEW p \in ParserSet, NEW st \in SUBSET StateFlags, Consistent(st),
           "IN_ARG" \in st => p.args # <<>>
    PROVE  Goes(p, st) \in TurnSet
<1>1. <<>> \in Seq(EffectSet)
  BY EmptySeq
<1>2. [p EXCEPT !.state = st] \in ParserSet
  BY StateChanges
<1>3. QED
  BY <1>1, <1>2 DEF Goes, TurnSet

(* A command byte: one effect at most.                                       *)
LEMMA RunsType ==
    ASSUME NEW p \in ParserSet, NEW c, NEW args \in Seq(Arguments)
    PROVE  Runs(p, c, args) \in TurnSet
<1>1. PICK none \in Seq(Chars) : none = <<>> /\ Len(none) = 0
  BY EmptySeq
<1>2. Command(c, args) \in Seq(EffectSet)
  <2>1. CASE c \in Commands
    <3>1. [does |-> c, text |-> none, args |-> args] \in EffectSet
      BY <1>1, <2>1 DEF EffectSet
    <3>2. Command(c, args) = <<[does |-> c, text |-> none, args |-> args]>>
      BY <1>1, <2>1 DEF Command
    <3>3. QED
      BY <3>1, <3>2
  <2>2. CASE c \notin Commands
    BY <2>2, EmptySeq DEF Command
  <2>3. QED
    BY <2>1, <2>2
<1>3. Normal \in SUBSET StateFlags /\ Consistent(Normal) /\ "IN_ARG" \notin Normal
  BY DEF Normal, Consistent
<1>4. [p EXCEPT !.state = Normal] \in ParserSet
  BY <1>3, StateChanges
<1>5. QED
  BY <1>2, <1>4 DEF Runs, TurnSet

(* The end of line conversion: one "\r\n", or no text at all.                *)
LEMMA PutTextType ==
    ASSUME NEW p \in ParserSet, NEW c \in Chars
    PROVE  PutText(p, c) \in TurnSet
<1>1. \A e \in Eols \cup {"none"} : [p EXCEPT !.eol = e] \in ParserSet
  BY DEF ParserSet
<1>2. \A t \in Seq(Chars) : Len(t) <= 2 => Text(t) \in Seq(EffectSet)
  <2> SUFFICES ASSUME NEW t \in Seq(Chars), Len(t) <= 2 PROVE Text(t) \in Seq(EffectSet)
    OBVIOUS
  <2>1. PICK none \in Seq(Arguments) : none = <<>>
    BY EmptySeq
  <2>2. [does |-> "text", text |-> t, args |-> none] \in EffectSet
    BY DEF EffectSet
  <2>3. QED
    BY <2>1, <2>2 DEF Text
<1>3. <<>> \in Seq(EffectSet)
  BY EmptySeq
<1>4. CASE c \in Eols
  <2>1. <<"CR", "LF">> \in Seq(Chars) /\ Len(<<"CR", "LF">>) <= 2
    BY DEF Chars
  <2>2. Text(<<"CR", "LF">>) \in Seq(EffectSet)
    BY <1>2, <2>1
  <2>3. QED
    BY <1>1, <1>3, <1>4, <2>2 DEF PutText, TurnSet
<1>5. CASE c \notin Eols
  <2> DEFINE d == IF c = "astral" THEN "FFFD" ELSE c
  <2>1. d \in Chars
    BY DEF Chars
  <2> HIDE DEF d
  <2>2. <<d>> \in Seq(Chars) /\ Len(<<d>>) <= 2
    BY <2>1
  <2>3. Text(<<d>>) \in Seq(EffectSet)
    BY <1>2, <2>2
  <2>4. PutText(p, c) = [parser |-> [p EXCEPT !.eol = "none"], effects |-> Text(<<d>>)]
    BY <1>5 DEF PutText, d
  <2>5. [p EXCEPT !.eol = "none"] \in ParserSet
    BY <1>1
  <2>6. \A q \in ParserSet, es \in Seq(EffectSet) : [parser |-> q, effects |-> es] \in TurnSet
    BY DEF TurnSet
  <2>7. QED
    BY <2>3, <2>4, <2>5, <2>6, Zenon
<1>6. QED
  BY <1>4, <1>5

(* Control sequences begin and end in states of the chain of tests.          *)
LEMMA InNormalType ==
    ASSUME NEW p \in ParserSet, p.state = Normal, NEW c \in Chars
    PROVE  InNormal(p, c) \in TurnSet
<1>1. {"ESCAPE_SEEN"} \in SUBSET StateFlags /\ {"CSI"} \in SUBSET StateFlags
      /\ Consistent({"ESCAPE_SEEN"}) /\ Consistent({"CSI"})
      /\ "IN_ARG" \notin {"ESCAPE_SEEN"} /\ "IN_ARG" \notin {"CSI"}
  BY DEF StateFlags, Consistent
<1>2. Goes(p, {"ESCAPE_SEEN"}) \in TurnSet
  BY <1>1, GoesType
<1>3. [p EXCEPT !.args = <<>>] \in ParserSet
  BY ArgumentsForgotten DEF Normal
<1>4. Goes([p EXCEPT !.args = <<>>], {"CSI"}) \in TurnSet
  BY <1>1, <1>3, GoesType
<1>5. PutText(p, c) \in TurnSet
  BY PutTextType
<1>6. QED
  BY <1>2, <1>4, <1>5, Zenon DEF InNormal

(* The code point behind an escape.                                          *)
LEMMA AfterEscapeType ==
    ASSUME NEW p \in ParserSet, p.state = {"ESCAPE_SEEN"}, NEW c \in Chars
    PROVE  AfterEscape(p, c) \in TurnSet
<1>1. /\ {"ST_CONTROL"} \in SUBSET StateFlags /\ {"CSI"} \in SUBSET StateFlags
      /\ Normal \in SUBSET StateFlags /\ p.state \in SUBSET StateFlags
      /\ Consistent({"ST_CONTROL"}) /\ Consistent({"CSI"}) /\ Consistent(Normal)
      /\ Consistent(p.state) /\ "IN_ARG" \notin {"ST_CONTROL"} /\ "IN_ARG" \notin {"CSI"}
      /\ "IN_ARG" \notin Normal /\ "IN_ARG" \notin p.state
  BY DEF StateFlags, Consistent, Normal, ParserSet
<1>2. /\ Goes(p, {"ST_CONTROL"}) \in TurnSet /\ Goes(p, p.state) \in TurnSet
      /\ Goes(p, Normal) \in TurnSet
  BY <1>1, GoesType
<1>3. [p EXCEPT !.args = <<>>] \in ParserSet
  BY <1>1, ArgumentsForgotten
<1>4. Goes([p EXCEPT !.args = <<>>], {"CSI"}) \in TurnSet
  BY <1>1, <1>3, GoesType
<1>5. \A d : Runs(p, d, <<>>) \in TurnSet
  BY RunsType, EmptySeq
<1>6. PutText([p EXCEPT !.state = Normal], c) \in TurnSet
  BY <1>1, StateChanges, PutTextType
<1>7. QED
  BY <1>2, <1>4, <1>5, <1>6, Zenon DEF AfterEscape

(* The arguments of a control sequence fit in ansi_csi_argv, and each in an  *)
(* unsigned short.                                                           *)
LEMMA IgnoredType ==
    ASSUME NEW p \in ParserSet, "CSI" \in p.state
    PROVE  Ignored(p) \in TurnSet
<1> DEFINE st == p.state \cup {"IGNORE"}
<1>1. st \in SUBSET StateFlags /\ Consistent(st) /\ ("IN_ARG" \in st => p.args # <<>>)
  BY DEF ParserSet, StateFlags, Consistent
<1> HIDE DEF st
<1>2. Goes(p, st) \in TurnSet
  BY <1>1, GoesType
<1>3. QED
  BY <1>2 DEF Ignored, st

(* A digit begins an argument when there is room for one, or goes on with    *)
(* the last one, within an unsigned short.                                   *)
LEMMA CsiDigitType ==
    ASSUME NEW p \in ParserSet, "CSI" \in p.state, NEW d \in Arguments
    PROVE  CsiDigit(p, d) \in TurnSet
<1> DEFINE n == Len(p.args)
           st == p.state \cup {"IN_ARG"}
           more == Append(p.args, d)
           new == (10 * p.args[n] + d) % (UShortMax + 1)
           changed == [p.args EXCEPT ![n] = new]
<1>1. /\ p.args \in Seq(Arguments) /\ n \in Nat /\ n <= MaxArgs /\ MaxArgs \in Nat
      /\ UShortMax \in Nat /\ p.state \in SUBSET StateFlags /\ Consistent(p.state)
  BY ParserAssumption DEF ParserSet
<1>2. Ignored(p) \in TurnSet
  BY IgnoredType
<1>3. CASE "IN_ARG" \notin p.state /\ n < MaxArgs
  <2>1. more \in Seq(Arguments) /\ Len(more) = n + 1 /\ more # <<>>
    BY <1>1, AppendProperties
  <2>2. Len(more) <= MaxArgs
    BY <1>1, <1>3, <2>1
  <2> DEFINE q == [p EXCEPT !.args = more]
  <2>3. q.args = more
    BY <1>1 DEF ParserSet
  <2> HIDE DEF more
  <2>4. q \in ParserSet
    BY <2>1, <2>2, ArgumentsChange
  <2>5. st \in SUBSET StateFlags /\ Consistent(st)
    BY <1>1 DEF StateFlags, Consistent
  <2> HIDE DEF q, st
  <2>6. Goes(q, st) \in TurnSet
    BY <2>1, <2>3, <2>4, <2>5, GoesType
  <2>7. CsiDigit(p, d) = Goes(q, st)
    BY <1>1, <1>3 DEF CsiDigit, q, st, more
  <2>8. QED
    BY <2>6, <2>7
<1>4. CASE "IN_ARG" \in p.state /\ 10 * p.args[n] <= UShortMax
  <2>1. p.args # <<>>
    BY <1>4 DEF ParserSet
  <2>2. n \in 1..Len(p.args) /\ p.args[n] \in Arguments
    BY <1>1, <2>1
  <2>3. new \in Arguments
    BY <1>1, <2>2, SMTT(30) DEF Arguments
  <2>4. changed \in Seq(Arguments) /\ Len(changed) = n
    BY <1>1, <2>2, <2>3
  <2>5. n # 0
    BY <2>2
  <2>6. changed # <<>>
    BY <2>4, <2>5
  <2> DEFINE q == [p EXCEPT !.args = changed]
  <2>7. q.args = changed
    BY <1>1 DEF ParserSet
  <2>8. q = [p EXCEPT !.args[n] = new]
    OBVIOUS
  <2> HIDE DEF new, changed
  <2>9. q \in ParserSet
    BY <1>1, <2>4, <2>6, ArgumentsChange
  <2>10. p.state \in SUBSET StateFlags /\ Consistent(p.state)
    BY <1>1
  <2> HIDE DEF q
  <2>11. Goes(q, p.state) \in TurnSet
    BY <2>6, <2>7, <2>9, <2>10, GoesType
  <2>12. CsiDigit(p, d) = Goes(q, p.state)
    <3>1. ~(10 * p.args[n] > UShortMax)
      BY <1>1, <1>4, <2>2 DEF Arguments
    <3>2. QED
      BY <1>4, <2>8, <3>1, Zenon DEF CsiDigit, new
  <2>13. QED
    BY <2>11, <2>12
<1>5. CASE \/ "IN_ARG" \notin p.state /\ ~(n < MaxArgs)
           \/ "IN_ARG" \in p.state /\ ~(10 * p.args[n] <= UShortMax)
  <2>1. CsiDigit(p, d) = Ignored(p)
    <3>1. CASE "IN_ARG" \notin p.state
      <4>1. Len(p.args) >= MaxArgs
        BY <1>1, <1>5, <3>1
      <4>2. QED
        BY <3>1, <4>1, Zenon DEF CsiDigit
    <3>2. CASE "IN_ARG" \in p.state
      <4>1. p.args # <<>>
        BY <3>2 DEF ParserSet
      <4>2. p.args[n] \in Arguments
        BY <1>1, <4>1
      <4>3. 10 * p.args[Len(p.args)] > UShortMax
        BY <1>1, <1>5, <3>2, <4>2 DEF Arguments
      <4>4. QED
        BY <3>2, <4>3, Zenon DEF CsiDigit
    <3>3. QED
      BY <3>1, <3>2
  <2>2. QED
    BY <1>2, <2>1
<1>6. QED
  BY <1>3, <1>4, <1>5

(* A separator ends an argument, or is one that is missing.                  *)
LEMMA CsiSeparatorType ==
    ASSUME NEW p \in ParserSet, "CSI" \in p.state
    PROVE  CsiSeparator(p) \in TurnSet
<1> DEFINE n == Len(p.args)
           st == p.state \ {"IN_ARG"}
           more == Append(p.args, 0)
           q == [p EXCEPT !.args = more]
<1>1. /\ p.args \in Seq(Arguments) /\ n \in Nat /\ n <= MaxArgs /\ MaxArgs \in Nat
      /\ UShortMax \in Nat /\ p.state \in SUBSET StateFlags /\ Consistent(p.state)
  BY ParserAssumption DEF ParserSet
<1>2. st \in SUBSET StateFlags /\ Consistent(st) /\ "IN_ARG" \notin st
  BY <1>1 DEF StateFlags, Consistent
<1>3. Goes(p, st) \in TurnSet
  <2> HIDE DEF st
  <2>1. QED
    BY <1>2, GoesType
<1>4. Ignored(p) \in TurnSet
  BY IgnoredType
<1>5. ASSUME ~(Len(p.args) >= MaxArgs) PROVE Goes(q, p.state) \in TurnSet
  <2>1. 0 \in Arguments
    BY <1>1 DEF Arguments
  <2>2. more \in Seq(Arguments) /\ Len(more) = n + 1 /\ more # <<>>
    BY <1>1, <2>1, AppendProperties
  <2>3. Len(more) <= MaxArgs
    BY <1>1, <1>5, <2>2
  <2>4. q.args = more
    BY <1>1 DEF ParserSet
  <2> HIDE DEF more
  <2>5. q \in ParserSet
    BY <2>2, <2>3, ArgumentsChange
  <2> HIDE DEF q
  <2>6. QED
    BY <1>1, <2>2, <2>4, <2>5, GoesType
<1>6. QED
  BY <1>3, <1>4, <1>5, Zenon DEF CsiSeparator

(* A control sequence: digits, separators, and the byte that ends it.        *)
LEMMA InCsiType ==
    ASSUME NEW p \in ParserSet, "CSI" \in p.state, NEW c \in Chars
    PROVE  InCsi(p, c) \in TurnSet
<1>1. p.args \in Seq(Arguments) /\ p.state \in SUBSET StateFlags /\ Consistent(p.state)
  BY DEF ParserSet
<1>2. Goes(p, p.state) \in TurnSet
  BY <1>1, GoesType DEF ParserSet
<1>3. Goes(p, Normal) \in TurnSet
  <2>1. Normal \in SUBSET StateFlags /\ Consistent(Normal) /\ "IN_ARG" \notin Normal
    BY DEF Normal, Consistent
  <2>2. QED
    BY <2>1, GoesType
<1>4. Goes(p, IF c \in Final THEN Normal ELSE p.state) \in TurnSet
  BY <1>2, <1>3
<1>5. c \in Digits => CsiDigit(p, Digit[c]) \in TurnSet
  <2> SUFFICES ASSUME c \in Digits PROVE CsiDigit(p, Digit[c]) \in TurnSet
    OBVIOUS
  <2>1. c \in {"0", "1", "2", "3", "4", "5", "6", "7", "8", "9"}
    BY DEF Digits, Digit
  <2>2. Digit[c] \in {0, 1, 2, 3, 4, 5, 6, 7, 8, 9}
    BY <2>1, Zenon DEF Digit
  <2>3. Digit[c] \in Arguments
    BY <2>2, ParserAssumption DEF Arguments
  <2>4. QED
    BY <2>3, CsiDigitType
<1>6. CsiSeparator(p) \in TurnSet /\ Ignored(p) \in TurnSet
  BY CsiSeparatorType, IgnoredType
<1>7. Runs(p, c, p.args) \in TurnSet
  BY <1>1, RunsType
<1>8. QED
  BY <1>4, <1>5, <1>6, <1>7, Zenon DEF InCsi

(* A control string keeps its state until it ends.                           *)
LEMMA InControlStringType ==
    ASSUME NEW p \in ParserSet, "ST_CONTROL" \in p.state, NEW c \in Chars
    PROVE  InControlString(p, c) \in TurnSet
<1>1. p.state \in SUBSET StateFlags /\ ("IN_ARG" \in p.state => p.args # <<>>)
  BY DEF ParserSet
<1>2. ASSUME NEW st \in SUBSET StateFlags, "ST_CONTROL" \in st,
             "IN_ARG" \in st => "IN_ARG" \in p.state
      PROVE  Goes(p, st) \in TurnSet
  <2>1. Consistent(st) /\ ("IN_ARG" \in st => p.args # <<>>)
    BY <1>1, <1>2 DEF Consistent
  <2>2. QED
    BY <2>1, GoesType
<1>3. Goes(p, Normal) \in TurnSet
  <2>1. Normal \in SUBSET StateFlags /\ Consistent(Normal) /\ "IN_ARG" \notin Normal
    BY DEF Normal, Consistent
  <2>2. QED
    BY <2>1, GoesType
<1>4. \A f \in SUBSET (StateFlags \ {"ST_CONTROL"}) : Goes(p, p.state \ f) \in TurnSet
  <2> TAKE f \in SUBSET (StateFlags \ {"ST_CONTROL"})
  <2> DEFINE st == p.state \ f
  <2>1. st \in SUBSET StateFlags /\ "ST_CONTROL" \in st
        /\ ("IN_ARG" \in st => "IN_ARG" \in p.state)
    BY <1>1
  <2> HIDE DEF st
  <2>2. Goes(p, st) \in TurnSet
    BY <1>2, <2>1
  <2>3. QED
    BY <2>2 DEF st
<1>5. \A f \in SUBSET (StateFlags \ {"IN_ARG"}) : Goes(p, p.state \cup f) \in TurnSet
  <2> TAKE f \in SUBSET (StateFlags \ {"IN_ARG"})
  <2> DEFINE st == p.state \cup f
  <2>1. st \in SUBSET StateFlags /\ "ST_CONTROL" \in st
        /\ ("IN_ARG" \in st => "IN_ARG" \in p.state)
    BY <1>1
  <2> HIDE DEF st
  <2>2. Goes(p, st) \in TurnSet
    BY <1>2, <2>1
  <2>3. QED
    BY <2>2 DEF st
<1>6. Goes(p, (p.state \ {"ESCAPE_SEEN", "BACKSLASH_SEEN"}) \cup {"IN_STRING"}) \in TurnSet
  <2> DEFINE st == (p.state \ {"ESCAPE_SEEN", "BACKSLASH_SEEN"}) \cup {"IN_STRING"}
  <2>1. st \in SUBSET StateFlags /\ "ST_CONTROL" \in st
        /\ ("IN_ARG" \in st => "IN_ARG" \in p.state)
    BY <1>1 DEF StateFlags
  <2> HIDE DEF st
  <2>2. Goes(p, st) \in TurnSet
    BY <1>2, <2>1
  <2>3. QED
    BY <2>2 DEF st
<1>7. Goes(p, p.state) \in TurnSet
  BY <1>1, <1>2
<1>8. /\ {"BACKSLASH_SEEN"} \in SUBSET (StateFlags \ {"ST_CONTROL"})
      /\ {"IN_STRING"} \in SUBSET (StateFlags \ {"ST_CONTROL"})
      /\ {"ESCAPE_SEEN"} \in SUBSET (StateFlags \ {"ST_CONTROL"})
      /\ {"BACKSLASH_SEEN"} \in SUBSET (StateFlags \ {"IN_ARG"})
      /\ {"ESCAPE_SEEN"} \in SUBSET (StateFlags \ {"IN_ARG"})
  BY DEF StateFlags
<1>9. /\ Goes(p, p.state \ {"BACKSLASH_SEEN"}) \in TurnSet
      /\ Goes(p, p.state \ {"IN_STRING"}) \in TurnSet
      /\ Goes(p, p.state \ {"ESCAPE_SEEN"}) \in TurnSet
      /\ Goes(p, p.state \cup {"BACKSLASH_SEEN"}) \in TurnSet
      /\ Goes(p, p.state \cup {"ESCAPE_SEEN"}) \in TurnSet
  BY <1>4, <1>5, <1>8
<1>10. QED
  BY <1>3, <1>6, <1>7, <1>9, Zenon DEF InControlString

(* A code point, in whichever state the last one left the parser.            *)
LEMMA AnsiType ==
    ASSUME NEW p \in ParserSet, NEW c \in Chars
    PROVE  Ansi(p, c) \in TurnSet
<1>1. Consistent(p.state)
  BY DEF ParserSet
<1>2. p.state = Normal => InNormal(p, c) \in TurnSet
  BY InNormalType
<1>3. p.state = {"ESCAPE_SEEN"} => AfterEscape(p, c) \in TurnSet
  BY AfterEscapeType
<1>4. "CSI" \in p.state => InCsi(p, c) \in TurnSet
  BY InCsiType
<1>5. "ST_CONTROL" \in p.state => InControlString(p, c) \in TurnSet
  BY InControlStringType
<1>6. \/ p.state = Normal \/ p.state = {"ESCAPE_SEEN"}
      \/ "CSI" \in p.state \/ "ST_CONTROL" \in p.state
  BY <1>1 DEF Consistent
<1>7. QED
  BY <1>2, <1>3, <1>4, <1>5, <1>6, Zenon DEF Ansi

DecodedSet == {d \in [left : 0..6, lead : Leads \cup {"none"}, points : Seq(Chars)] :
                  /\ d.left = 0 <=> d.lead = "none"
                  /\ Len(d.points) <= 2}

(* A character that is not complete, or one that is.                         *)
LEMMA DecodedType ==
    ASSUME NEW n \in 0..6, NEW l \in Leads \cup {"none"}, NEW pts \in Seq(Chars),
           n = 0 <=> l = "none", Len(pts) <= 2
    PROVE  /\ [left |-> n, lead |-> l, points |-> pts] \in DecodedSet
           /\ [left |-> n, lead |-> l, points |-> pts].points = pts
  BY DEF DecodedSet

(* A character on its own.                                                   *)
LEMMA OneChar ==
    ASSUME NEW c \in Chars
    PROVE  <<c>> \in Seq(Chars) /\ Len(<<c>>) = 1
  OBVIOUS

(* A byte that starts a character.                                           *)
LEMMA StartByteType ==
    ASSUME NEW b \in Bytes
    PROVE  /\ StartByte(b) \in DecodedSet /\ Len(StartByte(b).points) <= 1
<1> DEFINE S == {d \in DecodedSet : Len(d.points) <= 1}
<1>1. \A c \in Chars : [left |-> 0, lead |-> "none", points |-> <<c>>] \in S
  <2> SUFFICES ASSUME NEW c \in Chars
               PROVE  [left |-> 0, lead |-> "none", points |-> <<c>>] \in S
    OBVIOUS
  <2>1. PICK one \in Seq(Chars) : one = <<c>>
    BY OneChar
  <2>2. Len(one) = 1
    BY <2>1, OneChar
  <2>3. PICK n \in 0..6, l \in Leads \cup {"none"} : n = 0 /\ l = "none"
    OBVIOUS
  <2>4. (n = 0 <=> l = "none") /\ Len(one) <= 2 /\ Len(one) <= 1
    BY <2>2, <2>3
  <2>5. /\ [left |-> n, lead |-> l, points |-> one] \in DecodedSet
        /\ [left |-> n, lead |-> l, points |-> one].points = one
    BY <2>4, DecodedType
  <2>6. [left |-> n, lead |-> l, points |-> one] \in S
    BY <2>4, <2>5
  <2> HIDE DEF S
  <2>7. QED
    BY <2>1, <2>3, <2>6, Zenon
<1>2. PICK none \in Seq(Chars) : none = <<>> /\ Len(none) = 0
  BY EmptySeq
<1>3. \A n \in 1..6, l \in Leads : [left |-> n, lead |-> l, points |-> none] \in S
  BY <1>2 DEF DecodedSet, Leads
<1>4. "FFFD" \in Chars /\ b \in Chars
  BY DEF Chars
<1>5. /\ [left |-> 0, lead |-> "none", points |-> <<"FFFD">>] \in S
      /\ [left |-> 0, lead |-> "none", points |-> <<b>>] \in S
  BY <1>1, <1>4
<1>6. b \in Leads => [left |-> Needed(b), lead |-> b, points |-> <<>>] \in S
  <2>1. b \in Leads => Needed(b) \in 1..6
    BY DEF Needed, Leads
  <2>2. QED
    BY <1>2, <1>3, <2>1
<1> HIDE DEF S
<1>7. StartByte(b) \in S
  BY <1>5, <1>6, Zenon DEF StartByte
<1>8. QED
  BY <1>7 DEF S

(* The bytes of a character, whole or broken.                                *)
LEMMA DecodeType ==
    ASSUME NEW p \in ParserSet, NEW b \in Bytes
    PROVE  Decode(p, b) \in DecodedSet
<1>1. StartByte(b) \in DecodedSet /\ Len(StartByte(b).points) <= 1
  BY StartByteType
<1>2. CASE p.left = 0
  BY <1>1, <1>2 DEF Decode
<1>3. CASE p.left # 0 /\ b \in Continuations /\ p.left = 1
  <2>1. Completed(p.lead, b) \in Chars
    BY DEF Completed, Chars
  <2>2. PICK one \in Seq(Chars) : one = <<Completed(p.lead, b)>>
    BY <2>1, OneChar
  <2>3. Len(one) = 1
    BY <2>1, <2>2, OneChar
  <2>4. PICK n \in 0..6, l \in Leads \cup {"none"} : n = 0 /\ l = "none"
    OBVIOUS
  <2>5. [left |-> n, lead |-> l, points |-> one] \in DecodedSet
    <3>1. (n = 0 <=> l = "none") /\ Len(one) <= 2
      BY <2>3, <2>4
    <3>2. QED
      BY <3>1, DecodedType
  <2>6. Decode(p, b) = [left |-> n, lead |-> l, points |-> one]
    BY <1>3, <2>2, <2>4, Zenon DEF Decode
  <2>7. QED
    BY <2>5, <2>6, Zenon
<1>4. CASE p.left # 0 /\ b \in Continuations /\ p.left # 1
  <2>1. PICK none \in Seq(Chars) : none = <<>> /\ Len(none) = 0
    BY EmptySeq
  <2>2. p.left \in 2..6 /\ p.lead \in Leads
    BY <1>4 DEF ParserSet
  <2>3. [left |-> p.left - 1, lead |-> p.lead, points |-> none] \in DecodedSet
    BY <2>1, <2>2 DEF DecodedSet, Leads
  <2>4. QED
    BY <1>4, <2>1, <2>3 DEF Decode
<1>5. CASE p.left # 0 /\ b \notin Continuations
  <2> DEFINE again == StartByte(b)
  <2>1. again.points \in Seq(Chars) /\ Len(again.points) <= 1
    BY <1>1 DEF DecodedSet
  <2>2. PICK pts \in Seq(Chars) : pts = <<"FFFD">> \o again.points /\ Len(pts) <= 2
    <3>1. PICK one \in Seq(Chars) : one = <<"FFFD">>
      BY OneChar DEF Chars
    <3>2. Len(one) = 1
      BY <3>1
    <3>3. PICK rest \in Seq(Chars) : rest = again.points /\ Len(rest) <= 1
      BY <2>1
    <3>4. one \o rest \in Seq(Chars) /\ Len(one \o rest) = Len(one) + Len(rest)
      BY ConcatProperties, Zenon
    <3>5. Len(one \o rest) <= 2
      BY <3>2, <3>3, <3>4, LenProperties
    <3>6. QED
      BY <3>1, <3>3, <3>4, <3>5
  <2>3. Decode(p, b) = [again EXCEPT !.points = pts]
    BY <1>5, <2>2 DEF Decode
  <2> HIDE DEF again
  <2>4. again \in DecodedSet
    BY <1>1 DEF again
  <2>5. [again EXCEPT !.points = pts] \in DecodedSet
    BY <2>2, <2>4 DEF DecodedSet
  <2>6. QED
    BY <2>3, <2>5
<1>6. QED
  BY <1>2, <1>3, <1>4, <1>5

(* A byte leaves the parser in a state the chain of tests knows, with its    *)
(* arguments in their arrays; each effect is a command or a short text.      *)
LEMMA ParseByteType ==
    ASSUME NEW p \in ParserSet, NEW b \in Bytes
    PROVE  ParseByte(p, b) \in TurnSet
<1> DEFINE d == Decode(p, b)
           q == [p EXCEPT !.left = d.left, !.lead = d.lead]
           first == Ansi(q, d.points[1])
           second == Ansi(first.parser, d.points[2])
<1>1. d \in DecodedSet
  BY DecodeType
<1> HIDE DEF d
<1>2. q \in ParserSet
  BY <1>1 DEF ParserSet, DecodedSet
<1> HIDE DEF q
<1>3. d.points \in Seq(Chars)
  BY <1>1 DEF DecodedSet
<1>4. Len(d.points) \in {0, 1, 2}
  <2>1. PICK pts \in Seq(Chars) : pts = d.points /\ Len(pts) <= 2
    BY <1>1 DEF DecodedSet
  <2>2. PICK n \in Nat : n = Len(pts)
    BY LenProperties
  <2>3. n <= 2
    BY <2>1, <2>2
  <2>4. n = 0 \/ n = 1 \/ n = 2
    BY <2>3
  <2>5. Len(d.points) = n
    BY <2>1, <2>2
  <2>6. QED
    BY <2>4, <2>5, Zenon
<1>5. Len(d.points) # 0 => first \in TurnSet
  <2> SUFFICES ASSUME Len(d.points) # 0 PROVE first \in TurnSet
    OBVIOUS
  <2>1. d.points[1] \in Chars
    BY <1>3, ElementOfSeq, <1>4
  <2>2. QED
    BY <1>2, <2>1, AnsiType
<1> HIDE DEF first
<1>6. Len(d.points) = 2 => second \in TurnSet
  <2> SUFFICES ASSUME Len(d.points) = 2 PROVE second \in TurnSet
    OBVIOUS
  <2>1. d.points[2] \in Chars
    BY <1>3, ElementOfSeq
  <2>2. first.parser \in ParserSet
    BY <1>5 DEF TurnSet
  <2>3. QED
    BY <2>1, <2>2, AnsiType
<1> HIDE DEF second
<1>7. \A r \in ParserSet, es \in Seq(EffectSet) : [parser |-> r, effects |-> es] \in TurnSet
  BY DEF TurnSet
<1>8. <<>> \in Seq(EffectSet)
  BY EmptySeq
<1>9. [parser |-> q, effects |-> <<>>] \in TurnSet
  BY <1>2, <1>7, <1>8
<1>10. Len(d.points) # 0 => [parser |-> first.parser, effects |-> first.effects] \in TurnSet
  BY <1>5, <1>7 DEF TurnSet
<1>11. Len(d.points) = 2 =>
          [parser |-> second.parser, effects |-> first.effects \o second.effects] \in TurnSet
  <2> SUFFICES ASSUME Len(d.points) = 2
               PROVE  [parser |-> second.parser,
                       effects |-> first.effects \o second.effects] \in TurnSet
    OBVIOUS
  <2>1. PICK es \in Seq(EffectSet) : es = first.effects
    BY <1>5 DEF TurnSet
  <2>2. PICK fs \in Seq(EffectSet) : fs = second.effects
    BY <1>6 DEF TurnSet
  <2>3. es \o fs \in Seq(EffectSet)
    BY ConcatProperties
  <2>4. second.parser \in ParserSet
    BY <1>6 DEF TurnSet
  <2>5. QED
    BY <1>7, <2>1, <2>2, <2>3, <2>4
<1>12. ParseByte(p, b) =
          CASE Len(d.points) = 0 -> [parser |-> q, effects |-> <<>>]
            [] Len(d.points) = 1 -> [parser |-> first.parser, effects |-> first.effects]
            [] Len(d.points) = 2 -> [parser |-> second.parser,
                                     effects |-> first.effects \o second.effects]
  BY DEF ParseByte, d, q, first, second
<1>13. 1 # 0 /\ 2 # 0
  OBVIOUS
<1>14. QED
  BY <1>4, <1>9, <1>10, <1>11, <1>12, <1>13, Zenon

------------------------------------------------------------------------------
(* The screen.  Screens of w times h cells, with the cursor on row low or    *)
(* below it, a pen of Pens, cells D with contents C, and an offset of Os.    *)
Screens(w, h, rows, low, Pens, D, C, Os) ==
    [w : {w}, h : {h}, rows : {rows}, x : 0..w - 1, y : low..h - 1, pen : Pens,
     cells : [D -> C], offset : Os]

(* A line feed moves the cursor down, or the cells up.                       *)
LEMMA LineFeedType ==
    ASSUME NEW w \in Nat, NEW h \in Nat, NEW rows, NEW low \in Nat, NEW Pens, NEW D,
           NEW C, Space \in C, NEW Os, NEW t \in Screens(w, h, rows, low, Pens, D, C, Os)
    PROVE  LineFeed(t) \in Screens(w, h, rows, low, Pens, D, C, Os)
<1>1. /\ t.w = w /\ t.h = h /\ t.rows = rows /\ t.x \in 0..w - 1 /\ t.y \in low..h - 1
      /\ t.cells \in [D -> C]
  BY DEF Screens
<1>2. CASE t.y < t.h - 1
  <2>1. t.y + 1 \in low..h - 1
    BY <1>1, <1>2
  <2>2. [t EXCEPT !.y = @ + 1] \in Screens(w, h, rows, low, Pens, D, C, Os)
    BY <2>1 DEF Screens
  <2>3. QED
    BY <1>2, <2>2 DEF LineFeed
<1>3. CASE ~(t.y < t.h - 1)
  <2> DEFINE cs == [i \in DOMAIN t.cells |->
                      IF i + t.w \in DOMAIN t.cells THEN t.cells[i + t.w] ELSE Space]
  <2>1. cs \in [D -> C]
    BY <1>1
  <2>2. LineFeed(t) = [t EXCEPT !.cells = cs]
    BY <1>3 DEF LineFeed
  <2> HIDE DEF cs
  <2>3. [t EXCEPT !.cells = cs] \in Screens(w, h, rows, low, Pens, D, C, Os)
    BY <2>1 DEF Screens
  <2>4. QED
    BY <2>2, <2>3
<1>4. QED
  BY <1>2, <1>3

(* A character, and the line feed behind the last one of a row.              *)
LEMMA PutCharType ==
    ASSUME NEW w \in Nat, w > 0, NEW h \in Nat, NEW rows, NEW low \in Nat, NEW Pens, NEW D,
           NEW C, Space \in C, NEW Os, NEW t \in Screens(w, h, rows, low, Pens, D, C, Os),
           NEW c \in C
    PROVE  PutChar(t, c) \in Screens(w, h, rows, low, Pens, D, C, Os)
<1> DEFINE S == Screens(w, h, rows, low, Pens, D, C, Os)
<1>1. t.w = w /\ t.x \in 0..w - 1 /\ t.cells \in [D -> C]
  BY DEF Screens
<1>2. \A x \in 0..w - 1 : [t EXCEPT !.x = x] \in S
  BY DEF Screens
<1>3. 0 \in 0..w - 1
  OBVIOUS
<1>4. LineFeed(t) \in S
  BY LineFeedType
<1> DEFINE k == t.y * t.w + t.x
           cs == [t.cells EXCEPT ![k] = c]
           drawn == [t EXCEPT !.cells[k] = c, !.x = @ + 1]
<1> HIDE DEF k
<1>5. cs \in [D -> C]
  BY <1>1
<1>6. drawn = [t EXCEPT !.cells = cs, !.x = t.x + 1]
  BY DEF Screens
<1> HIDE DEF cs
<1>7. drawn.x = t.x + 1 /\ drawn.w = w
  BY <1>1, <1>6 DEF Screens
<1>8. drawn.x < w => drawn \in S
  <2>1. t.x + 1 < w => t.x + 1 \in 0..w - 1
    BY <1>1
  <2>2. QED
    BY <1>5, <1>6, <1>7, <2>1 DEF Screens
<1>9. [drawn EXCEPT !.x = 0] \in S
  <2>1. \A x \in 0..w - 1 : [t EXCEPT !.cells = cs, !.x = x] \in S
    BY <1>5 DEF Screens
  <2>2. [drawn EXCEPT !.x = 0] = [t EXCEPT !.cells = cs, !.x = 0]
    BY <1>6 DEF Screens
  <2>3. QED
    BY <1>3, <2>1, <2>2
<1> HIDE DEF drawn, S
<1>10. LineFeed([drawn EXCEPT !.x = 0]) \in S
  BY <1>9, LineFeedType DEF S
<1>11. (IF drawn.x < t.w THEN drawn ELSE LineFeed([drawn EXCEPT !.x = 0])) \in S
  BY <1>1, <1>7, <1>8, <1>10
<1>12. [t EXCEPT !.x = 0] \in S
  BY <1>2, <1>3
<1>13. PutChar(t, c) \in S
  BY <1>4, <1>11, <1>12, Zenon DEF PutChar, drawn, k
<1>14. QED
  BY <1>13 DEF S

(* What WriteText does with each character.                                  *)
LEMMA TextByChar ==
    ASSUME NEW X, NEW scr \in X, NEW text \in Seq(Chars),
           \A s \in X, c \in Chars : PutChar(s, c) \in X
    PROVE  \E g : /\ g[{}] = scr
                  /\ \A k \in 0..Len(text) - 1 :
                        g[1..k + 1] = PutChar(g[1..k], text[k + 1])
                  /\ WriteText(scr, text) = g[1..Len(text)]
<1> DEFINE n == Len(text)
           step == [p \in X \X (1..n) |-> PutChar(p[1], text[p[2]])]
           put(acc, c) == TheOne({PutChar(s, c) : s \in {acc}})
           IsFold(g) == g = [s \in SUBSET DOMAIN text |->
                               IF s = {} THEN scr
                               ELSE put(g[s \ {Max(s)}], text[Max(s)])]
<1>1. n \in Nat /\ DOMAIN text = 1..n
  OBVIOUS
<1>2. step \in [X \X (1..n) -> X]
  BY <1>1
<1>3. PICK g : Folds(g, X, scr, step, n)
  <2> HIDE DEF step, n
  <2>1. QED
    BY <1>1, <1>2, FoldExists
<1>4. \A acc, c : put(acc, c) = PutChar(acc, c)
  <2> TAKE acc, c
  <2>1. {PutChar(s, c) : s \in {acc}} = {PutChar(acc, c)}
    OBVIOUS
  <2>2. QED
    BY <2>1 DEF TheOne
<1> HIDE DEF put
<1>5. IsFold(g)
  <2>1. ASSUME NEW s \in SUBSET (1..n), s # {}
        PROVE  step[<<g[s \ {Max(s)}], Max(s)>>] = PutChar(g[s \ {Max(s)}], text[Max(s)])
    <3>1. s \ {Max(s)} \in SUBSET (1..n)
      OBVIOUS
    <3>2. g[s \ {Max(s)}] \in X
      BY <3>1, <1>3 DEF Folds
    <3>3. Max(s) \in 1..n
      BY <1>1, <2>1, MaxOfIndices
    <3>4. QED
      BY <3>2, <3>3
  <2>2. QED
    BY <1>1, <1>3, <1>4, <2>1 DEF Folds
<1>6. PICK h : IsFold(h) /\ WriteText(scr, text) = h[DOMAIN text]
  <2> DEFINE h == CHOOSE f : IsFold(f)
  <2>1. IsFold(h)
    BY <1>5
  <2>2. WriteText(scr, text) = h[DOMAIN text]
    BY DEF WriteText, put, FoldLeft, MapThenFoldSet
  <2>3. QED
    BY <2>1, <2>2
<1>7. h[{}] = scr
  BY <1>6
<1>8. ASSUME NEW k \in 0..Len(text) - 1
      PROVE  h[1..k + 1] = PutChar(h[1..k], text[k + 1])
  <2>1. 1..k + 1 \in SUBSET DOMAIN text /\ 1..k + 1 # {} /\ k \in Nat
    <3>1. k \in Nat /\ k + 1 \in Nat /\ k + 1 <= n
      BY <1>1
    <3>2. 1 \in 1..k + 1
      BY <3>1
    <3> HIDE DEF n, step, IsFold
    <3>3. 1..k + 1 \subseteq 1..n
      BY <1>1, <3>1
    <3>4. QED
      BY <1>1, <3>1, <3>2, <3>3
  <2>2. Max(1..k + 1) = k + 1 /\ (1..k + 1) \ {k + 1} = 1..k
    BY <2>1, MaxOfInterval
  <2> HIDE DEF n, step
  <2>3. QED
    BY <1>4, <1>6, <2>1, <2>2, Zenon
<1>9. QED
  BY <1>1, <1>6, <1>7, <1>8

(* Text leaves the screen among those it can make.                           *)
LEMMA WriteTextStays ==
    ASSUME NEW X, NEW scr \in X, NEW text \in Seq(Chars),
           \A s \in X, c \in Chars : PutChar(s, c) \in X
    PROVE  WriteText(scr, text) \in X
<1> DEFINE n == Len(text)
<1>1. n \in Nat
  OBVIOUS
<1>2. PICK g : /\ g[{}] = scr
               /\ \A k \in 0..n - 1 : g[1..k + 1] = PutChar(g[1..k], text[k + 1])
               /\ WriteText(scr, text) = g[1..n]
  BY TextByChar
<1> DEFINE T == {k \in Nat : k <= n => g[1..k] \in X}
<1>3. 0 \in T
  BY <1>2, 1..0 = {}
<1>4. ASSUME NEW k \in T PROVE k + 1 \in T
  <2> SUFFICES ASSUME k + 1 <= n PROVE g[1..k + 1] \in X
    OBVIOUS
  <2>1. k \in 0..n - 1 /\ g[1..k] \in X /\ k + 1 \in 1..n
    BY <1>1
  <2>2. text[k + 1] \in Chars
    BY <2>1
  <2>3. QED
    BY <1>2, <2>1, <2>2
<1>5. T = Nat
  <2>1. T \subseteq Nat
    OBVIOUS
  <2> HIDE DEF T
  <2>2. QED
    BY <1>3, <1>4, <2>1, NatSetInduction
<1>6. n \in T
  BY <1>1, <1>5
<1>7. QED
  BY <1>1, <1>2, <1>6

Offsets == {o \in Int : -1 <= o}
ScreenOK(scr) ==
    \E w \in Nat \ {0}, h \in Nat \ {0} : \E rows \in 1..h : \E Pens, D, C :
        scr \in Screens(w, h, rows, 0, Pens, D, C, Offsets)
AboveCursor(scr) == scr.offset <= scr.y

(* The fields of a screen.                                                   *)
LEMMA ScreenFields ==
    ASSUME NEW scr, ScreenOK(scr)
    PROVE  /\ scr.w \in Nat \ {0} /\ scr.h \in Nat \ {0} /\ scr.rows \in 1..scr.h
           /\ scr.x \in 0..scr.w - 1 /\ scr.y \in 0..scr.h - 1 /\ scr.offset \in Offsets
<1>1. PICK w \in Nat \ {0}, h \in Nat \ {0} : \E rows \in 1..h : \E Pens, D, C :
          scr \in Screens(w, h, rows, 0, Pens, D, C, Offsets)
  BY DEF ScreenOK
<1>2. PICK rows, Pens, D, C :
          rows \in 1..h /\ scr \in Screens(w, h, rows, 0, Pens, D, C, Offsets)
  BY <1>1
<1>3. QED
  BY <1>2 DEF Screens

(* A screen that is written to stays one, and its cursor goes down only.     *)
LEMMA WriteTextType ==
    ASSUME NEW scr, ScreenOK(scr), NEW text \in Seq(Chars)
    PROVE  /\ ScreenOK(WriteText(scr, text))
           /\ AboveCursor(scr) => AboveCursor(WriteText(scr, text))
<1>1. PICK w \in Nat \ {0}, h \in Nat \ {0} : \E rows \in 1..h : \E Pens, D, C :
          scr \in Screens(w, h, rows, 0, Pens, D, C, Offsets)
  BY DEF ScreenOK
<1>2. PICK rows, Pens, D, C0 :
          rows \in 1..h /\ scr \in Screens(w, h, rows, 0, Pens, D, C0, Offsets)
  BY <1>1
<1> DEFINE C == C0 \cup Chars \cup {Space}
           X == Screens(w, h, rows, scr.y, Pens, D, C, {scr.offset})
<1>3. /\ scr.offset \in Offsets /\ scr.y \in 0..h - 1 /\ scr.cells \in [D -> C]
      /\ scr \in X
  BY <1>2 DEF Screens
<1>4. \A t \in X : /\ t \in Screens(w, h, rows, 0, Pens, D, C, Offsets)
                   /\ scr.y <= t.y /\ t.offset = scr.offset
  BY <1>3 DEF Screens
<1>5. Space \in C /\ Chars \subseteq C
  OBVIOUS
<1> HIDE DEF C
<1>6. ASSUME NEW s \in X, NEW c \in Chars
      PROVE  PutChar(s, c) \in X
  <2>1. PICK low, Os : low \in Nat /\ low = scr.y /\ Os = {scr.offset}
    <3>1. scr.y \in Nat
      BY ScreenFields
    <3>2. QED
      BY <3>1, Zenon
  <2>2. w \in Nat /\ w > 0 /\ h \in Nat /\ Space \in C /\ c \in C
    BY <1>5
  <2>3. PutChar(s, c) \in Screens(w, h, rows, low, Pens, D, C, Os)
    BY <2>1, <2>2, PutCharType
  <2>4. QED
    BY <2>1, <2>3
<1> HIDE DEF X
<1>7. PICK t \in X : t = WriteText(scr, text)
  BY <1>3, <1>6, WriteTextStays
<1>8. t \in Screens(w, h, rows, 0, Pens, D, C, Offsets) /\ scr.y <= t.y /\ t.offset = scr.offset
  BY <1>4, <1>7
<1>9. ScreenOK(t)
  BY <1>2, <1>8 DEF ScreenOK
<1>10. AboveCursor(scr) => AboveCursor(t)
  <2>1. scr.y \in Int /\ t.y \in Int /\ scr.offset \in Int
    BY <1>3, <1>8 DEF Screens, Offsets
  <2>2. QED
    BY <1>8, <2>1 DEF AboveCursor
<1>11. QED
  BY <1>7, <1>9, <1>10

MovesTo(scr, t, x, y) ==
    /\ x \in 0..scr.w - 1 /\ y \in 0..scr.h - 1
    /\ t = [scr EXCEPT !.x = x, !.y = y]

(* What may happen to a screen: the cursor moves, ...                        *)
LEMMA CursorMoves ==
    ASSUME NEW scr, ScreenOK(scr), NEW x, NEW y, NEW t, MovesTo(scr, t, x, y)
    PROVE  ScreenOK(t) /\ t.y = y /\ t.offset = scr.offset
<1>1. PICK w \in Nat \ {0}, h \in Nat \ {0} : \E rows \in 1..h : \E Pens, D, C :
          scr \in Screens(w, h, rows, 0, Pens, D, C, Offsets)
  BY DEF ScreenOK
<1>2. PICK rows, Pens, D, C :
          rows \in 1..h /\ scr \in Screens(w, h, rows, 0, Pens, D, C, Offsets)
  BY <1>1
<1>3. x \in 0..w - 1 /\ y \in 0..h - 1
  BY <1>2 DEF Screens, MovesTo
<1>4. t \in Screens(w, h, rows, 0, Pens, D, C, Offsets) /\ t.y = y /\ t.offset = scr.offset
  BY <1>2, <1>3 DEF Screens, MovesTo
<1>5. QED
  BY <1>2, <1>4 DEF ScreenOK

(* ... the virtual window moves, ...                                         *)
LEMMA OffsetMoves ==
    ASSUME NEW scr, ScreenOK(scr), NEW o \in Offsets, NEW t, t = [scr EXCEPT !.offset = o]
    PROVE  /\ ScreenOK(t) /\ t.offset = o /\ t.x = scr.x /\ t.y = scr.y
           /\ t.w = scr.w /\ t.h = scr.h /\ t.rows = scr.rows
<1>1. PICK w \in Nat \ {0}, h \in Nat \ {0} : \E rows \in 1..h : \E Pens, D, C :
          scr \in Screens(w, h, rows, 0, Pens, D, C, Offsets)
  BY DEF ScreenOK
<1>2. PICK rows, Pens, D, C :
          rows \in 1..h /\ scr \in Screens(w, h, rows, 0, Pens, D, C, Offsets)
  BY <1>1
<1>3. /\ t \in Screens(w, h, rows, 0, Pens, D, C, Offsets)
      /\ t.offset = o /\ t.x = scr.x /\ t.y = scr.y
      /\ t.w = scr.w /\ t.h = scr.h /\ t.rows = scr.rows
  BY <1>2 DEF Screens
<1>4. QED
  BY <1>2, <1>3 DEF ScreenOK

(* ... it is written to with another pen, ...                                *)
LEMMA PenChanges ==
    ASSUME NEW scr, ScreenOK(scr), NEW pen, NEW t, t = [scr EXCEPT !.pen = pen]
    PROVE  /\ ScreenOK(t) /\ t.offset = scr.offset /\ t.y = scr.y
           /\ t.w = scr.w /\ t.h = scr.h
<1>1. PICK w \in Nat \ {0}, h \in Nat \ {0} : \E rows \in 1..h : \E Pens, D, C :
          scr \in Screens(w, h, rows, 0, Pens, D, C, Offsets)
  BY DEF ScreenOK
<1>2. PICK rows, Pens, D, C :
          rows \in 1..h /\ scr \in Screens(w, h, rows, 0, Pens, D, C, Offsets)
  BY <1>1
<1>3. /\ t \in Screens(w, h, rows, 0, {pen}, D, C, Offsets)
      /\ t.y = scr.y /\ t.offset = scr.offset /\ t.w = scr.w /\ t.h = scr.h
  BY <1>2 DEF Screens
<1>4. QED
  BY <1>2, <1>3 DEF ScreenOK

(* ... and its cells change.                                                 *)
LEMMA CellsChange ==
    ASSUME NEW scr, ScreenOK(scr), NEW E, NEW cells, cells = [i \in E |-> cells[i]],
           NEW t, t = [scr EXCEPT !.cells = cells]
    PROVE  ScreenOK(t) /\ t.offset = scr.offset /\ t.y = scr.y
<1>1. PICK w \in Nat \ {0}, h \in Nat \ {0} : \E rows \in 1..h : \E Pens, D, C :
          scr \in Screens(w, h, rows, 0, Pens, D, C, Offsets)
  BY DEF ScreenOK
<1>2. PICK rows, Pens, D, C :
          rows \in 1..h /\ scr \in Screens(w, h, rows, 0, Pens, D, C, Offsets)
  BY <1>1
<1>3. cells \in [E -> {cells[i] : i \in E}]
  OBVIOUS
<1>4. PICK K : cells \in [E -> K]
  BY <1>3
<1>5. /\ t \in Screens(w, h, rows, 0, Pens, E, K, Offsets)
      /\ t.y = scr.y /\ t.offset = scr.offset
  BY <1>2, <1>4 DEF Screens
<1>6. QED
  BY <1>2, <1>5 DEF ScreenOK

(* The virtual window lies in the buffer, and does not begin below a cursor  *)
(* it did not begin below before.                                            *)
LEMMA WindowMoves ==
    ASSUME NEW scr, ScreenOK(scr)
    PROVE  LET now == UpdateVirtualWindow(scr)
           IN  /\ ScreenOK(now) /\ now.offset \in 0..now.h - now.rows
               /\ now.w = scr.w /\ now.h = scr.h /\ now.rows = scr.rows
               /\ now.x = scr.x /\ now.y = scr.y
               /\ now.y <= now.offset + now.rows - 1
               /\ AboveCursor(scr) => AboveCursor(now)
<1> DEFINE lowest == scr.y - scr.rows + 1
           moved == IF scr.offset = -1 THEN scr.y
                    ELSE IF scr.offset < lowest THEN lowest ELSE scr.offset
           fits == IF moved + scr.rows > scr.h THEN scr.h - scr.rows ELSE moved
           o == IF fits < 0 THEN 0 ELSE fits
           now == [scr EXCEPT !.offset = o]
<1>1. PICK h \in Nat, rows \in Nat, y \in Nat, off \in Int :
          /\ scr.h = h /\ scr.rows = rows /\ scr.y = y /\ scr.offset = off
          /\ 1 <= rows /\ rows <= h /\ y <= h - 1 /\ -1 <= off
  BY ScreenFields DEF Offsets
<1>2. moved \in Int /\ moved >= 0 /\ y <= moved + rows - 1 /\ (off <= y => moved <= y)
  BY <1>1
<1> HIDE DEF moved
<1>3. /\ fits \in 0..h - rows /\ y <= fits + rows - 1
      /\ off <= y => fits <= y
  BY <1>1, <1>2
<1> HIDE DEF fits
<1>4. o = fits
  BY <1>1, <1>3
<1> HIDE DEF o
<1>5. o \in Offsets
  BY <1>1, <1>3, <1>4 DEF Offsets
<1>6. /\ ScreenOK(now) /\ now.offset = o /\ now.x = scr.x /\ now.y = scr.y
      /\ now.w = scr.w /\ now.h = scr.h /\ now.rows = scr.rows
  BY <1>5, OffsetMoves
<1>7. UpdateVirtualWindow(scr) = now
  BY DEF UpdateVirtualWindow, o, fits, moved, now
<1> HIDE DEF now
<1>8. QED
  BY <1>1, <1>3, <1>4, <1>6, <1>7 DEF AboveCursor

(* What is left of a coordinate is between its bounds.                       *)
LEMMA ClipType ==
    ASSUME NEW n \in Int, NEW lo \in Int, NEW hi \in Int, lo <= hi
    PROVE  Clip(n, lo, hi) \in lo..hi
  BY DEF Clip

(* uv_tty_make_real_coord: a cell of the virtual window.                     *)
LEMMA RealCoordType ==
    ASSUME NEW scr, ScreenOK(scr), NEW cx, NEW cy, cx.by \in Int, cy.by \in Int
    PROVE  /\ RealCoord(scr, cx, cy).x \in 0..scr.w - 1
           /\ RealCoord(scr, cx, cy).y \in scr.offset..scr.offset + scr.rows - 1
<1> DEFINE n == cx.by + (IF cx.relative THEN scr.x ELSE 0)
           m == cy.by + (IF cy.relative THEN scr.y ELSE scr.offset)
<1>1. /\ scr.x \in Int /\ scr.y \in Int /\ scr.offset \in Int
      /\ scr.w \in Int /\ scr.w > 0 /\ scr.rows \in Int /\ scr.rows > 0
  BY ScreenFields DEF Offsets
<1>2. n \in Int
  <2>1. CASE cx.relative
    BY <1>1, <2>1
  <2>2. CASE ~cx.relative
    BY <1>1, <2>2
  <2>3. QED
    BY <2>1, <2>2
<1>3. m \in Int
  <2>1. CASE cy.relative
    BY <1>1, <2>1
  <2>2. CASE ~cy.relative
    BY <1>1, <2>2
  <2>3. QED
    BY <2>1, <2>2
<1> HIDE DEF n, m
<1>4. PICK x : x = Clip(n, 0, scr.w - 1)
  OBVIOUS
<1>5. PICK y : y = Clip(m, scr.offset, scr.offset + scr.rows - 1)
  OBVIOUS
<1>6. x \in 0..scr.w - 1 /\ y \in scr.offset..scr.offset + scr.rows - 1
  <2>1. PICK lo \in Int, hi \in Int : lo = 0 /\ hi = scr.w - 1 /\ lo <= hi
    BY <1>1
  <2>2. PICK top \in Int, end \in Int :
            top = scr.offset /\ end = scr.offset + scr.rows - 1 /\ top <= end
    BY <1>1
  <2>3. x \in lo..hi
    BY <1>2, <1>4, <2>1, ClipType
  <2>4. y \in top..end
    BY <1>3, <1>5, <2>2, ClipType
  <2>5. QED
    BY <2>1, <2>2, <2>3, <2>4
<1>7. RealCoord(scr, cx, cy) = [x |-> x, y |-> y]
  BY <1>4, <1>5 DEF RealCoord, n, m
<1>8. QED
  BY <1>6, <1>7

(* move_caret: the cursor stays in the window, which comes to it first.      *)
LEMMA MoveCaretType ==
    ASSUME NEW scr, ScreenOK(scr), NEW cx, NEW cy, cx.by \in Int, cy.by \in Int
    PROVE  ScreenOK(MoveCaret(scr, cx, cy)) /\ AboveCursor(MoveCaret(scr, cx, cy))
<1>1. PICK now : now = UpdateVirtualWindow(scr)
  OBVIOUS
<1>2. ScreenOK(now) /\ now.offset \in 0..now.h - now.rows
  BY <1>1, WindowMoves
<1>3. PICK pos : pos = RealCoord(now, cx, cy)
  OBVIOUS
<1>4. pos.x \in 0..now.w - 1 /\ pos.y \in now.offset..now.offset + now.rows - 1
  BY <1>2, <1>3, RealCoordType
<1>5. PICK h \in Nat, rows \in Nat : now.h = h /\ now.rows = rows /\ rows <= h
  BY <1>2, ScreenFields
<1>6. PICK o \in Nat : now.offset = o /\ o <= h - rows
  BY <1>2, <1>5
<1>7. PICK y \in Nat : pos.y = y /\ o <= y /\ y <= o + rows - 1
  BY <1>4, <1>5, <1>6
<1>8. y \in 0..now.h - 1
  BY <1>5, <1>6, <1>7
<1>9. PICK t : t = [now EXCEPT !.x = pos.x, !.y = y]
  OBVIOUS
<1>10. ScreenOK(t) /\ t.y = y /\ t.offset = now.offset
  <2>1. MovesTo(now, t, pos.x, y)
    BY <1>4, <1>8, <1>9 DEF MovesTo
  <2>2. QED
    BY <1>2, <2>1, CursorMoves
<1>11. MoveCaret(scr, cx, cy) = t
  BY <1>1, <1>3, <1>7, <1>9 DEF MoveCaret, PutCaret
<1>12. QED
  BY <1>6, <1>7, <1>10, <1>11 DEF AboveCursor

(* What a command leaves of a screen.                                        *)
Keeps(scr, t) == ScreenOK(t) /\ (AboveCursor(scr) => AboveCursor(t))

(* uv_tty_clear changes cells only, behind the window's move.                *)
LEMMA ClearKeeps ==
    ASSUME NEW scr, ScreenOK(scr), NEW dir, NEW entire
    PROVE  Keeps(scr, Clear(scr, dir, entire))
<1>1. PICK now : now = UpdateVirtualWindow(scr)
  OBVIOUS
<1>2. ScreenOK(now) /\ (AboveCursor(scr) => AboveCursor(now))
  BY <1>1, WindowMoves
<1> DEFINE cells == [i \in DOMAIN now.cells |->
                        IF i \in ClearedCells(now, dir, entire) THEN Space ELSE now.cells[i]]
<1>3. cells = [i \in DOMAIN now.cells |-> cells[i]]
  OBVIOUS
<1>4. Clear(scr, dir, entire) = [now EXCEPT !.cells = cells]
  BY <1>1 DEF Clear
<1> HIDE DEF cells
<1>5. PICK t : t = [now EXCEPT !.cells = cells]
  OBVIOUS
<1>6. ScreenOK(t) /\ t.offset = now.offset /\ t.y = now.y
  BY <1>2, <1>3, <1>5, CellsChange
<1>7. QED
  BY <1>2, <1>4, <1>5, <1>6 DEF Keeps, AboveCursor

(* tty_SetStyle changes the pen only.                                        *)
LEMMA SetStyleKeeps ==
    ASSUME NEW scr, ScreenOK(scr), NEW args
    PROVE  Keeps(scr, SetStyle(scr, args))
<1>1. PICK pen : pen = IF args = <<>> THEN WhitePen ELSE FoldLeft(Styled, scr.pen, args)
  OBVIOUS
<1>2. PICK t : t = [scr EXCEPT !.pen = pen]
  OBVIOUS
<1>3. ScreenOK(t) /\ t.offset = scr.offset /\ t.y = scr.y
  BY <1>2, PenChanges
<1>4. SetStyle(scr, args) = t
  BY <1>1, <1>2, Zenon DEF SetStyle
<1>5. QED
  BY <1>3, <1>4 DEF Keeps, AboveCursor

(* tty_Reset up to its last step, ...                                        *)
LEMMA WipedType ==
    ASSUME NEW scr, ScreenOK(scr)
    PROVE  /\ ScreenOK(ResetPen(scr)) /\ ScreenOK(HomeCaret(ResetPen(scr)))
           /\ ScreenOK(Wiped(scr)) /\ Wiped(scr).y = 0
<1>1. PICK inked : inked = ResetPen(scr)
  OBVIOUS
<1>2. ScreenOK(inked)
  BY <1>1, PenChanges DEF ResetPen
<1>3. PICK home : home = HomeCaret(inked)
  OBVIOUS
<1>4. ScreenOK(home) /\ home.y = 0
  <2>1. 0 \in 0..inked.w - 1 /\ 0 \in 0..inked.h - 1
    BY <1>2, ScreenFields
  <2>2. MovesTo(inked, home, 0, 0)
    BY <1>3, <2>1 DEF HomeCaret, MovesTo, PutCaret
  <2>3. QED
    BY <1>2, <2>2, CursorMoves
<1>5. PICK cells : cells = Blank(scr.w, scr.h)
  OBVIOUS
<1>6. cells = [i \in 0..scr.w * scr.h - 1 |-> cells[i]]
  BY <1>5 DEF Blank
<1>7. PICK empty : empty = [home EXCEPT !.cells = cells]
  OBVIOUS
<1>8. ScreenOK(empty) /\ empty.y = 0
  BY <1>4, <1>6, <1>7, CellsChange
<1>9. Wiped(scr) = empty
  BY <1>1, <1>3, <1>5, <1>7 DEF Wiped
<1>10. QED
  BY <1>1, <1>2, <1>3, <1>4, <1>8, <1>9

(* ... and with it.                                                          *)
LEMMA ResetKeeps ==
    ASSUME NEW scr, ScreenOK(scr)
    PROVE  Keeps(scr, Reset(scr))
<1>1. PICK empty : empty = Wiped(scr)
  OBVIOUS
<1>2. ScreenOK(empty) /\ empty.y = 0
  BY <1>1, WipedType
<1>3. PICK t : t = [empty EXCEPT !.offset = 0]
  OBVIOUS
<1>4. ScreenOK(t) /\ t.offset = 0 /\ t.y = 0
  BY <1>2, <1>3, OffsetMoves DEF Offsets
<1>5. Reset(scr) = UpdateVirtualWindow(t)
  BY <1>1, <1>3 DEF Reset
<1>6. AboveCursor(t)
  BY <1>4 DEF AboveCursor
<1>7. QED
  BY <1>4, <1>5, <1>6, WindowMoves DEF Keeps

(* What a stream has saved is a place at least.                              *)
SavedOK(v) ==
    \E P, A, F, G :
        v \in [position : P, x : Int, y : Int, attributes : A, fgBright : F, bgBright : G]

(* Another place is saved, ...                                               *)
LEMMA SavedChanges ==
    ASSUME NEW v, SavedOK(v), NEW p, NEW x \in Int, NEW y \in Int, NEW t,
           t = [v EXCEPT !.position = p, !.x = x, !.y = y]
    PROVE  SavedOK(t)
<1>1. PICK P, A, F, G :
          v \in [position : P, x : Int, y : Int, attributes : A, fgBright : F, bgBright : G]
  BY DEF SavedOK
<1>2. t \in [position : {p}, x : Int, y : Int, attributes : A, fgBright : F, bgBright : G]
  BY <1>1
<1>3. QED
  BY <1>2, ZenonT(30) DEF SavedOK

(* ... and the attributes with it.                                           *)
LEMMA AttributesSaved ==
    ASSUME NEW v, SavedOK(v), NEW a, NEW f, NEW g, NEW t,
           t = [v EXCEPT !.attributes = a, !.fgBright = f, !.bgBright = g]
    PROVE  SavedOK(t)
<1>1. PICK P, A, F, G :
          v \in [position : P, x : Int, y : Int, attributes : A, fgBright : F, bgBright : G]
  BY DEF SavedOK
<1>2. t \in [position : P, x : Int, y : Int, attributes : {a}, fgBright : {f}, bgBright : {g}]
  BY <1>1
<1>3. QED
  BY <1>2, ZenonT(30) DEF SavedOK

(* uv_tty_save_state.                                                        *)
LEMMA SaveStateType ==
    ASSUME NEW scr, ScreenOK(scr), NEW v, SavedOK(v), NEW attributes
    PROVE  SavedOK(SaveState(scr, v, attributes))
<1>1. PICK yes : yes = TRUE
  OBVIOUS
<1>2. PICK there : there = [v EXCEPT !.position = yes, !.x = scr.x, !.y = scr.y - scr.offset]
  OBVIOUS
<1>3. scr.x \in Int /\ scr.y - scr.offset \in Int
  BY ScreenFields DEF Offsets
<1>4. SavedOK(there)
  BY <1>2, <1>3, SavedChanges
<1>5. PICK f, g : f = scr.pen.fgBright /\ g = scr.pen.bgBright
  OBVIOUS
<1>6. PICK all : all = [there EXCEPT !.attributes = yes, !.fgBright = f, !.bgBright = g]
  OBVIOUS
<1>7. SavedOK(all)
  BY <1>4, <1>6, AttributesSaved
<1>8. SaveState(scr, v, attributes) = IF attributes THEN all ELSE there
  BY <1>1, <1>2, <1>5, <1>6, Zenon DEF SaveState
<1>9. QED
  BY <1>4, <1>7, <1>8, Zenon

(* uv_tty_restore_state: the caret moves, and the pen changes.               *)
LEMMA RestorePositionKeeps ==
    ASSUME NEW scr, ScreenOK(scr), NEW v, SavedOK(v)
    PROVE  Keeps(scr, RestorePosition(scr, v))
<1>1. v.x \in Int /\ v.y \in Int
  BY DEF SavedOK
<1>2. At(v.x).by \in Int /\ At(v.y).by \in Int
  BY <1>1 DEF At
<1>3. Keeps(scr, MoveCaret(scr, At(v.x), At(v.y))) /\ Keeps(scr, scr)
  BY <1>2, MoveCaretType, Zenon DEF Keeps
<1>4. QED
  BY <1>3, Zenon DEF RestorePosition

(* The pen is restored behind the caret.                                     *)
LEMMA RestoreAttributesKeeps ==
    ASSUME NEW scr, NEW there, Keeps(scr, there), NEW v
    PROVE  Keeps(scr, RestoreAttributes(there, v))
<1>1. PICK pen : pen = [there.pen EXCEPT !.fgBright = v.fgBright, !.bgBright = v.bgBright]
  OBVIOUS
<1>2. PICK t : t = [there EXCEPT !.pen = pen]
  OBVIOUS
<1>3. Keeps(scr, t)
  BY <1>2, PenChanges DEF Keeps, AboveCursor
<1>4. t = [there EXCEPT !.pen.fgBright = v.fgBright, !.pen.bgBright = v.bgBright]
  <2>1. PICK w, h, rows, Pens, D, C : there \in Screens(w, h, rows, 0, Pens, D, C, Offsets)
    BY DEF Keeps, ScreenOK
  <2>2. QED
    BY <1>1, <1>2, <2>1 DEF Screens
<1>5. QED
  BY <1>3, <1>4, Zenon DEF RestoreAttributes

(* What was saved is restored.                                               *)
LEMMA RestoreStateKeeps ==
    ASSUME NEW scr, ScreenOK(scr), NEW v, SavedOK(v), NEW attributes
    PROVE  Keeps(scr, RestoreState(scr, v, attributes))
<1>1. PICK there : there = RestorePosition(scr, v)
  OBVIOUS
<1>2. Keeps(scr, there)
  BY <1>1, RestorePositionKeeps
<1>3. Keeps(scr, RestoreAttributes(there, v))
  BY <1>2, RestoreAttributesKeeps
<1>4. QED
  BY <1>1, <1>2, <1>3, Zenon DEF RestoreState

(* Every command moves by a number.                                          *)
LEMMA ArgType ==
    ASSUME NEW args \in Seq(Arguments), NEW default \in Int
    PROVE  Arg(args, default) \in Int
<1>1. args # <<>> => args[1] \in Arguments
  BY ElementOfSeq, EmptySeq, LenProperties
<1>2. Arguments \subseteq Int
  BY DEF Arguments
<1>3. QED
  BY <1>1, <1>2 DEF Arg

(* ... and those that count rows and columns from one.                       *)
LEMMA FromOneType ==
    ASSUME NEW args \in Seq(Arguments), NEW i \in Nat \ {0}
    PROVE  FromOne(args, i) \in Int
<1>1. Len(args) >= i => args[i] \in Arguments
  BY ElementOfSeq, LenProperties
<1>2. Arguments \subseteq Int
  BY DEF Arguments
<1>3. args[i] \in Int => args[i] - 1 \in Int
  OBVIOUS
<1>4. QED
  BY <1>1, <1>2, <1>3, 0 \in Int, Zenon DEF FromOne

(* A command that moves the caret.                                           *)
LEMMA MoveKeeps ==
    ASSUME NEW scr, ScreenOK(scr), NEW c \in Moves, NEW args \in Seq(Arguments)
    PROVE  Keeps(scr, MoveCaret(scr, Caret(c, args).x, Caret(c, args).y))
<1>1. PICK n \in Int : n = Arg(args, 1)
  BY ArgType
<1>2. PICK one \in Int : one = FromOne(args, 1)
  BY FromOneType
<1>3. PICK two \in Int : two = FromOne(args, 2)
  BY FromOneType
<1>4. PICK Ways : Ways = {r \in {Rel(0), Rel(n), Rel(-n), At(0), At(one), At(two)} : r.by \in Int}
  OBVIOUS
<1>5. Rel(0) \in Ways /\ Rel(n) \in Ways /\ Rel(-n) \in Ways /\ At(0) \in Ways
      /\ At(one) \in Ways /\ At(two) \in Ways
  BY <1>4 DEF Rel, At
<1>6. Caret(c, args) \in [x : Ways, y : Ways]
  <2>1. c \in {"A", "B", "C", "D", "E", "F", "G", "H", "f"}
    BY DEF Moves
  <2> DEFINE S == [x : Ways, y : Ways]
  <2>2. ASSUME NEW a \in Ways, NEW b \in Ways
        PROVE  [x |-> a, y |-> b] \in S
    OBVIOUS
  <2>3. /\ [x |-> Rel(0), y |-> Rel(-n)] \in S /\ [x |-> Rel(0), y |-> Rel(n)] \in S
        /\ [x |-> Rel(n), y |-> Rel(0)] \in S /\ [x |-> Rel(-n), y |-> Rel(0)] \in S
        /\ [x |-> At(0), y |-> Rel(n)] \in S /\ [x |-> At(0), y |-> Rel(-n)] \in S
        /\ [x |-> At(one), y |-> Rel(0)] \in S /\ [x |-> At(two), y |-> At(one)] \in S
    BY <1>5, <2>2
  <2> HIDE DEF S
  <2>4. Caret(c, args) \in S
    BY <1>1, <1>2, <1>3, <2>1, <2>3, Zenon DEF Caret
  <2>5. QED
    BY <2>4 DEF S
<1>7. PICK a \in Ways, b \in Ways : a = Caret(c, args).x /\ b = Caret(c, args).y
  BY <1>6
<1>8. a.by \in Int /\ b.by \in Int
  BY <1>4
<1>9. QED
  BY <1>7, <1>8, MoveCaretType, Zenon DEF Keeps

(* The screen a command leaves, and what it has its stream save.             *)
LEMMA RunKeeps ==
    ASSUME NEW scr, ScreenOK(scr), NEW v, SavedOK(v), NEW c, NEW args \in Seq(Arguments)
    PROVE  Keeps(scr, Run(scr, v, c, args).screen) /\ SavedOK(Run(scr, v, c, args).saved)
<1> DEFINE now == UpdateVirtualWindow(scr)
           to == Caret(c, args)
           shows(s) == [screen |-> s, saved |-> v]
           saves(a) == [screen |-> now, saved |-> SaveState(now, v, a)]
           branches == {shows(Clear(scr, Arg(args, 0), c = "J")), shows(SetStyle(scr, args)),
                        saves(FALSE), shows(RestoreState(scr, v, FALSE)), saves(TRUE),
                        shows(RestoreState(scr, v, TRUE)), shows(Reset(scr)), shows(scr)}
           Good(r) == Keeps(scr, r.screen) /\ SavedOK(r.saved)
<1>1. ASSUME NEW s, Keeps(scr, s)
      PROVE  Good(shows(s))
  <2>1. shows(s).screen = s /\ shows(s).saved = v
    OBVIOUS
  <2>2. QED
    BY <1>1, <2>1, Zenon
<1>2. Keeps(scr, now) /\ ScreenOK(now)
  BY WindowMoves DEF Keeps
<1>3. ASSUME NEW a
      PROVE  Good(saves(a))
  <2>1. saves(a).screen = now /\ saves(a).saved = SaveState(now, v, a)
    OBVIOUS
  <2>2. SavedOK(SaveState(now, v, a))
    BY <1>2, SaveStateType
  <2>3. QED
    BY <1>2, <2>1, <2>2, Zenon
<1>4. Keeps(scr, scr) /\ Keeps(scr, Reset(scr)) /\ Keeps(scr, SetStyle(scr, args))
      /\ Keeps(scr, Clear(scr, Arg(args, 0), c = "J"))
      /\ Keeps(scr, RestoreState(scr, v, FALSE)) /\ Keeps(scr, RestoreState(scr, v, TRUE))
  BY ResetKeeps, SetStyleKeeps, ClearKeeps, RestoreStateKeeps, Zenon DEF Keeps
<1>5. c \in Moves => Keeps(scr, MoveCaret(scr, to.x, to.y))
  BY MoveKeeps
<1>6. c \in Moves => Good(shows(MoveCaret(scr, to.x, to.y)))
  BY <1>1, <1>5, Zenon
<1>7. /\ Good(shows(Clear(scr, Arg(args, 0), c = "J"))) /\ Good(shows(SetStyle(scr, args)))
      /\ Good(shows(RestoreState(scr, v, FALSE))) /\ Good(shows(RestoreState(scr, v, TRUE)))
      /\ Good(shows(Reset(scr))) /\ Good(shows(scr))
  BY <1>1, <1>4, Zenon
<1>8. Good(saves(FALSE)) /\ Good(saves(TRUE))
  BY <1>3, Zenon
<1>9. \A r \in branches : Good(r)
  <2> HIDE DEF Good, shows, saves
  <2>1. QED
    BY <1>7, <1>8, Zenon
<1>10. c \notin Moves => Run(scr, v, c, args) \in branches
  BY Zenon DEF Run
<1>11. c \in Moves => Run(scr, v, c, args) \in branches \cup {shows(MoveCaret(scr, to.x, to.y))}
  BY Zenon DEF Run
<1>12. Good(Run(scr, v, c, args))
  <2> HIDE DEF Good, shows, saves, branches, to
  <2>1. QED
    BY <1>6, <1>9, <1>10, <1>11, Zenon
<1>13. QED
  BY <1>12

(* The user's resize: the cursor stays in the buffer, and below the window's *)
(* first row when the buffer keeps that row.                                 *)
LEMMA ResizedType ==
    ASSUME NEW scr, ScreenOK(scr), NEW size \in Sizes
    PROVE  /\ ScreenOK(Resized(scr, size))
           /\ AboveCursor(scr) /\ scr.offset < size.h => AboveCursor(Resized(scr, size))
<1> DEFINE least(a, b) == IF a < b THEN a ELSE b
           old(i) == LET r == i \div size.w   c == i % size.w
                     IN  IF r < scr.h /\ c < scr.w THEN scr.cells[r * scr.w + c] ELSE Space
<1>1. PICK w, h, rows, Pens, D, C : scr \in Screens(w, h, rows, 0, Pens, D, C, Offsets)
  BY DEF ScreenOK
<1>2. size.w \in Nat \ {0} /\ size.h \in Nat \ {0} /\ size.rows \in 1..size.h
  BY TtyAssumption
<1>3. scr.x \in Int /\ scr.x >= 0 /\ scr.y \in Int /\ scr.y >= 0 /\ scr.offset \in Offsets
  BY ScreenFields
<1>4. PICK x \in 0..size.w - 1 : x = least(scr.x, size.w - 1)
  BY <1>2, <1>3
<1>5. PICK y \in 0..size.h - 1 :
          y = least(scr.y, size.h - 1) /\ (y = scr.y \/ y = size.h - 1)
  BY <1>2, <1>3
<1>6. PICK E : E = 0 .. size.w * size.h - 1
  OBVIOUS
<1>7. PICK cells : cells = [i \in E |-> old(i)]
  OBVIOUS
<1>8. PICK K : cells \in [E -> K]
  <2>1. cells \in [E -> {old(i) : i \in E}]
    <3> HIDE DEF old
    <3>1. QED
      BY <1>7, Zenon
  <2>2. QED
    BY <2>1
<1>9. PICK t : t = [scr EXCEPT !.w = size.w, !.h = size.h, !.rows = size.rows,
                               !.x = x, !.y = y, !.cells = cells]
  OBVIOUS
<1>10. t \in Screens(size.w, size.h, size.rows, 0, Pens, E, K, Offsets)
  BY <1>1, <1>2, <1>4, <1>5, <1>8, <1>9 DEF Screens
<1>11. t.y = y /\ t.offset = scr.offset
  BY <1>1, <1>9 DEF Screens
<1>12. ScreenOK(t)
  BY <1>2, <1>10 DEF ScreenOK
<1>13. AboveCursor(scr) /\ scr.offset < size.h => AboveCursor(t)
  BY <1>2, <1>3, <1>5, <1>11 DEF AboveCursor, Offsets
<1>14. Resized(scr, size) = t
  <2> HIDE DEF old
  <2>1. [scr EXCEPT !.w = size.w, !.h = size.h, !.rows = size.rows,
                    !.x = least(@, size.w - 1), !.y = least(@, size.h - 1),
                    !.cells = [i \in 0 .. size.w * size.h - 1 |-> old(i)]] = t
    BY <1>1, <1>4, <1>5, <1>6, <1>7, <1>9 DEF Screens
  <2>2. QED
    BY <2>1, Zenon DEF Resized, old
<1>15. QED
  BY <1>12, <1>13, <1>14, Zenon

(* A new console.                                                            *)
LEMMA NewScreenType ==
    ASSUME NEW size \in Sizes
    PROVE  ScreenOK(NewScreen(size)) /\ AboveCursor(NewScreen(size))
<1>1. size.w \in Nat \ {0} /\ size.h \in Nat \ {0} /\ size.rows \in 1..size.h
  BY TtyAssumption
<1>2. PICK cells : cells = Blank(size.w, size.h)
  OBVIOUS
<1>3. PICK E : cells \in [E -> {Space}]
  BY <1>2 DEF Blank
<1>4. PICK pen : pen = WhitePen
  OBVIOUS
<1>5. NewScreen(size) \in Screens(size.w, size.h, size.rows, 0, {pen}, E, {Space}, Offsets)
      /\ AboveCursor(NewScreen(size))
  BY <1>1, <1>2, <1>3, <1>4 DEF Screens, NewScreen, Offsets, AboveCursor
<1>6. QED
  BY <1>1, <1>5 DEF ScreenOK

------------------------------------------------------------------------------
(* A call of ProcessMessage: its message, its parser, and its text, which    *)
(* fits in utf16_buf.                                                        *)
Working(j) ==
    /\ \E R, E : j \in [running : R, stream : Streams, rest : Seq(Bytes), parser : ParserSet,
                        effects : Seq(EffectSet), buf : Seq(Chars), error : E]
    /\ Len(j.buf) <= BufSize

(* The inductive invariant: the virtual window begins at the cursor's row or *)
(* above it, as long as the console obeys and keeps that row.                *)
TtyInv ==
    /\ ScreenOK(screen)
    /\ ~failed /\ ~cut => AboveCursor(screen)
    /\ context \in [Streams -> ParserSet]
    /\ saved = [s \in Streams |-> saved[s]]
    /\ \A s \in Streams : SavedOK(saved[s])
    /\ job.running => Working(job)

(* A stream's parser when it begins, ...                                     *)
LEMMA NewParserType == NewParser \in ParserSet
<1>1. PICK none \in Seq(Arguments) : none = <<>>
  BY EmptySeq
<1>2. Len(none) = 0
  BY <1>1, EmptySeq
<1>3. NewParser = [left |-> 0, lead |-> "none", state |-> Normal, args |-> none, eol |-> "none"]
  BY <1>1, Zenon DEF NewParser
<1>4. Consistent(Normal) /\ "IN_ARG" \notin Normal /\ Normal \in SUBSET StateFlags
  BY DEF Consistent, Normal
<1>5. QED
  BY <1>2, <1>3, <1>4, ParserAssumption DEF ParserSet

(* ... what it may find saved, ...                                           *)
LEMMA FoundType == SavedOK(NothingSaved) /\ SavedOK(Garbage)
<1>1. PICK no : no = FALSE
  OBVIOUS
<1>2. PICK yes : yes = TRUE
  OBVIOUS
<1>3. PICK v : v = [position |-> no, x |-> 0, y |-> 0, attributes |-> no, fgBright |-> 0,
                    bgBright |-> 0]
  OBVIOUS
<1>4. v \in [position : {no}, x : Int, y : Int, attributes : {no}, fgBright : {0}, bgBright : {0}]
  BY <1>3
<1>5. PICK t : t = [v EXCEPT !.position = yes, !.x = 1, !.y = 1, !.attributes = yes,
                             !.fgBright = 1]
  OBVIOUS
<1>6. t \in [position : {yes}, x : Int, y : Int, attributes : {yes}, fgBright : {1}, bgBright : {0}]
  <2> DEFINE Saves(P, A, F) ==
        [position : P, x : Int, y : Int, attributes : A, fgBright : F, bgBright : {0}]
  <2>1. PICK one \in Int : one = 1
    OBVIOUS
  <2>2. PICK u : u = [v EXCEPT !.position = yes, !.x = one, !.y = one]
    OBVIOUS
  <2>3. u \in Saves({yes}, {no}, {0})
    BY <1>4, <2>2
  <2>4. PICK w : w = [u EXCEPT !.attributes = yes, !.fgBright = one]
    OBVIOUS
  <2>5. w \in Saves({yes}, {yes}, {one})
    BY <2>3, <2>4
  <2>6. w = t
    BY <1>5, <2>1, <2>2, <2>4, Zenon
  <2>7. QED
    BY <2>1, <2>5, <2>6
<1>7. v = NothingSaved
  BY <1>1, <1>3, Zenon DEF NothingSaved
<1>8. t = Garbage
  BY <1>2, <1>5, <1>7, Zenon DEF Garbage
<1>9. SavedOK(v)
  BY <1>4 DEF SavedOK
<1>10. SavedOK(t)
  BY <1>6 DEF SavedOK
<1>11. QED
  BY <1>7, <1>8, <1>9, <1>10, Zenon

(* ... and the console.                                                      *)
LEMMA TtyInit == Init => TtyInv
<1> SUFFICES ASSUME Init PROVE TtyInv
  OBVIOUS
<1>1. PICK size \in Sizes : screen = NewScreen(size)
  BY DEF Init
<1>2. ScreenOK(screen) /\ AboveCursor(screen)
  BY <1>1, NewScreenType
<1>3. context \in [Streams -> ParserSet]
  BY NewParserType DEF Init
<1>4. PICK found \in {NothingSaved, Garbage} : saved = [s \in Streams |-> found]
  BY Zenon DEF Init
<1>5. SavedOK(found)
  BY <1>4, FoundType, Zenon
<1>6. saved = [s \in Streams |-> saved[s]] /\ \A s \in Streams : SavedOK(saved[s])
  BY <1>4, <1>5, Zenon
<1>7. ~job.running
  BY DEF Init, Idle
<1>8. QED
  BY <1>2, <1>3, <1>6, <1>7 DEF TtyInv

(* A call that goes on: what is left of its effects, and its text.           *)
LEMMA WorkGoesOn ==
    ASSUME NEW j, Working(j), NEW effects \in Seq(EffectSet), NEW buf \in Seq(Chars),
           Len(buf) <= BufSize, NEW error, NEW t,
           t = [j EXCEPT !.effects = effects, !.buf = buf, !.error = error]
    PROVE  Working(t)
<1>1. PICK R, E : j \in [running : R, stream : Streams, rest : Seq(Bytes), parser : ParserSet,
                         effects : Seq(EffectSet), buf : Seq(Chars), error : E]
  BY DEF Working
<1>2. t \in [running : R, stream : Streams, rest : Seq(Bytes), parser : ParserSet,
             effects : Seq(EffectSet), buf : Seq(Chars), error : {error}] /\ t.buf = buf
  BY <1>1
<1>3. QED
  BY <1>2 DEF Working

(* The fields of a call.                                                     *)
LEMMA WorkFields ==
    ASSUME NEW j, Working(j)
    PROVE  /\ j.stream \in Streams /\ j.rest \in Seq(Bytes) /\ j.parser \in ParserSet
           /\ j.effects \in Seq(EffectSet) /\ j.buf \in Seq(Chars) /\ Len(j.buf) <= BufSize
           /\ j = [j EXCEPT !.error = j.error]
<1>1. PICK R, E : j \in [running : R, stream : Streams, rest : Seq(Bytes), parser : ParserSet,
                         effects : Seq(EffectSet), buf : Seq(Chars), error : E]
  BY DEF Working
<1>2. QED
  BY <1>1 DEF Working

(* The effect that comes next.                                               *)
LEMMA NextEffect ==
    ASSUME NEW j, Working(j), j.effects # <<>>
    PROVE  /\ Head(j.effects) \in EffectSet /\ Tail(j.effects) \in Seq(EffectSet)
<1>1. j.effects \in Seq(EffectSet)
  BY WorkFields
<1>2. QED
  BY <1>1, HeadTailProperties

(* A flush writes text, or does nothing to the screen.                       *)
LEMMA FlushedKeeps ==
    ASSUME TtyInv, Working(job), NEW f \in Flushed
    PROVE  Keeps(screen, f.screen)
<1>1. Keeps(screen, screen) /\ Keeps(screen, WriteText(screen, job.buf))
  BY WorkFields, WriteTextType DEF TtyInv, Keeps
<1>2. f.screen \in {screen, WriteText(screen, job.buf)}
  <2>1. CASE job.buf = <<>> \/ job.error
    <3>1. f = [screen |-> screen, error |-> job.error]
      BY <2>1, Zenon DEF Flushed
    <3>2. QED
      BY <3>1
  <2>2. CASE ~(job.buf = <<>> \/ job.error)
    <3>1. \/ f = [screen |-> WriteText(screen, job.buf), error |-> FALSE]
          \/ f = [screen |-> screen, error |-> TRUE]
      BY <2>2, Zenon DEF Flushed
    <3>2. QED
      BY <3>1
  <2>3. QED
    BY <2>1, <2>2
<1>3. QED
  BY <1>1, <1>2, Zenon

(* What every action leaves: the screen, the caches, the call.               *)
LEMMA TtyStep ==
    ASSUME TtyInv, ScreenOK(screen'), context' \in [Streams -> ParserSet],
           ~failed' /\ ~cut' => AboveCursor(screen'),
           saved' = [s \in Streams |-> saved'[s]], \A s \in Streams : SavedOK(saved'[s]),
           job'.running => Working(job')
    PROVE  TtyInv'
<1>1. AboveCursor(screen)' <=> AboveCursor(screen')
  BY DEF AboveCursor
<1>2. QED
  BY DEF TtyInv

(* The screen of a step that shows something, when it does not fail.         *)
LEMMA ScreenStep ==
    ASSUME TtyInv, cut' = cut, NEW error, failed' = (failed \/ error),
           ScreenOK(screen'), ~error => Keeps(screen, screen')
    PROVE  ~failed' /\ ~cut' => AboveCursor(screen')
<1>1. ~failed' => ~failed /\ ~error
  BY Zenon
<1>2. QED
  BY <1>1, Zenon DEF TtyInv, Keeps

(* A call begins with the parser its stream keeps.                           *)
LEMMA WriteKeepsTty ==
    ASSUME TtyInv, NEW s \in Streams, NEW m \in Messages, Write(s, m)
    PROVE  TtyInv'
<1>1. PICK effects \in Seq(EffectSet) : effects = <<>>
  BY EmptySeq
<1>2. PICK buf \in Seq(Chars) : buf = <<>>
  BY EmptySeq
<1>3. PICK yes : yes = TRUE
  OBVIOUS
<1>4. PICK no : no = FALSE
  OBVIOUS
<1>5. PICK p \in ParserSet : p = context[s]
  BY DEF TtyInv
<1>6. PICK j : j = [running |-> yes, stream |-> s, rest |-> m, parser |-> p,
                    effects |-> effects, buf |-> buf, error |-> no]
  OBVIOUS
<1>7. Len(buf) <= BufSize
  BY <1>2, EmptySeq, TtyAssumption
<1>8. m \in Seq(Bytes)
  BY TtyAssumption
<1>9. j \in [running : {yes}, stream : Streams, rest : Seq(Bytes), parser : ParserSet,
             effects : Seq(EffectSet), buf : Seq(Chars), error : {no}] /\ j.buf = buf
  BY <1>6, <1>8
<1>10. Working(j)
  BY <1>7, <1>9 DEF Working
<1>11. job' = j
  BY <1>1, <1>2, <1>3, <1>4, <1>5, <1>6, Zenon DEF Write
<1>12. screen' = screen /\ context' = context /\ saved' = saved /\ failed' = failed /\ cut' = cut
  BY DEF Write
<1>13. QED
  BY <1>10, <1>11, <1>12, TtyStep, Zenon DEF TtyInv

(* A byte of the message is parsed.                                          *)
LEMMA ReadByteKeepsTty ==
    ASSUME TtyInv, ReadByte
    PROVE  TtyInv'
<1>1. Working(job)
  BY DEF TtyInv, ReadByte
<1>2. PICK R, E : job \in [running : R, stream : Streams, rest : Seq(Bytes), parser : ParserSet,
                           effects : Seq(EffectSet), buf : Seq(Chars), error : E]
  BY <1>1 DEF Working
<1>3. PICK r \in TurnSet : r = ParseByte(job.parser, Head(job.rest))
  <2>1. job.rest # <<>>
    BY DEF ReadByte
  <2>2. Head(job.rest) \in Bytes /\ job.parser \in ParserSet
    BY <1>2, <2>1, HeadTailProperties
  <2>3. QED
    BY <2>2, ParseByteType
<1>4. job' = [job EXCEPT !.rest = Tail(@), !.parser = r.parser, !.effects = r.effects]
  BY <1>3, Zenon DEF ReadByte
<1>5. job' \in [running : R, stream : Streams, rest : Seq(Bytes), parser : ParserSet,
                effects : Seq(EffectSet), buf : Seq(Chars), error : E] /\ job'.buf = job.buf
  <2>1. Tail(job.rest) \in Seq(Bytes)
    BY <1>2, HeadTailProperties DEF ReadByte
  <2>2. r.parser \in ParserSet /\ r.effects \in Seq(EffectSet)
    BY DEF TurnSet
  <2>3. QED
    BY <1>2, <1>4, <2>1, <2>2
<1>6. Working(job')
  BY <1>1, <1>5 DEF Working
<1>7. screen' = screen /\ context' = context /\ saved' = saved /\ failed' = failed /\ cut' = cut
  BY DEF ReadByte
<1>8. QED
  BY <1>6, <1>7, TtyStep, Zenon DEF TtyInv

(* Text for which there is room.                                             *)
LEMMA PutKeepsTty ==
    ASSUME TtyInv, Put
    PROVE  TtyInv'
<1>1. Working(job) /\ job.effects # <<>>
  BY DEF TtyInv, Put, AtEffect
<1>2. Effect.text \in Seq(Chars)
  BY <1>1, NextEffect DEF Effect, EffectSet
<1>3. PICK buf \in Seq(Chars) : buf = job.buf \o Effect.text
  BY <1>1, <1>2, WorkFields, ConcatProperties
<1>4. Len(buf) = Len(job.buf) + Len(Effect.text)
  BY <1>1, <1>2, <1>3, WorkFields, ConcatProperties
<1>5. Len(buf) <= BufSize
  BY <1>4 DEF Put
<1>6. PICK left \in Seq(EffectSet) : left = Tail(job.effects)
  BY <1>1, NextEffect
<1>7. job' = [job EXCEPT !.effects = left, !.buf = buf]
  BY <1>3, <1>6 DEF Put
<1>8. job' = [job EXCEPT !.effects = left, !.buf = buf, !.error = job.error]
  <2>1. PICK R, E : job \in [running : R, stream : Streams, rest : Seq(Bytes), parser : ParserSet,
                             effects : Seq(EffectSet), buf : Seq(Chars), error : E]
    BY <1>1 DEF Working
  <2>2. QED
    BY <1>7, <2>1
<1>9. Working(job')
  BY <1>1, <1>5, <1>8, WorkGoesOn
<1>10. screen' = screen /\ context' = context /\ saved' = saved /\ failed' = failed /\ cut' = cut
  BY DEF Put
<1>11. QED
  BY <1>9, <1>10, TtyStep, Zenon DEF TtyInv

(* Text behind a flush: there is room for both of its characters.            *)
LEMMA PutFullKeepsTty ==
    ASSUME TtyInv, PutFull
    PROVE  TtyInv'
<1>1. Working(job) /\ job.effects # <<>>
  BY DEF TtyInv, PutFull, AtEffect
<1>2. PICK f \in Flushed :
          /\ screen' = f.screen
          /\ job' = [job EXCEPT !.effects = Tail(@), !.buf = Effect.text, !.error = f.error]
          /\ Ends(f.error)
  BY DEF PutFull
<1>3. Effect.text \in Seq(Chars) /\ Len(Effect.text) <= BufSize
  <2>1. PICK e \in EffectSet : e = Effect
    BY <1>1, NextEffect DEF Effect
  <2>2. e.text \in Seq(Chars) /\ Len(e.text) <= 2
    BY DEF EffectSet
  <2>3. Len(e.text) <= BufSize
    BY <2>2, TtyAssumption, LenProperties
  <2>4. QED
    BY <2>1, <2>2, <2>3
<1>4. Working(job')
  BY <1>1, <1>2, <1>3, NextEffect, WorkGoesOn
<1>5. Keeps(screen, screen')
  BY <1>1, <1>2, FlushedKeeps
<1>6. context' = context /\ saved' = saved /\ cut' = cut /\ failed' = (failed \/ f.error)
  BY <1>2 DEF PutFull, Ends
<1>7. ScreenOK(screen')
  BY <1>5 DEF Keeps
<1>8. ~failed' /\ ~cut' => AboveCursor(screen')
  BY <1>5, <1>6, <1>7, ScreenStep
<1>9. QED
  BY <1>4, <1>6, <1>7, <1>8, TtyStep, Zenon DEF TtyInv

(* A move_caret that fails leaves the caret and the window anywhere.         *)
LEMMA CaretAnywhereType ==
    ASSUME NEW scr, ScreenOK(scr), NEW t \in CaretAnywhere(scr)
    PROVE  ScreenOK(t)
<1>1. PICK row \in Rows, x \in 0 .. scr.w - 1, y \in 0 .. scr.h - 1 :
          t = PutCaret([scr EXCEPT !.offset = row], x, y)
  BY DEF CaretAnywhere
<1>2. PICK size \in Sizes : row \in 0 .. size.h
  BY DEF Rows
<1>3. row \in Offsets
  BY <1>2, TtyAssumption DEF Offsets
<1>4. PICK moved : moved = [scr EXCEPT !.offset = row]
  OBVIOUS
<1>5. ScreenOK(moved) /\ moved.w = scr.w /\ moved.h = scr.h
  BY <1>3, <1>4, OffsetMoves
<1>6. MovesTo(moved, t, x, y)
  BY <1>1, <1>4, <1>5, Zenon DEF MovesTo, PutCaret
<1>7. QED
  BY <1>5, <1>6, CursorMoves

(* Where a command that fails part of the way leaves the screen.             *)
LEMMA HalfDoneType ==
    ASSUME NEW scr, ScreenOK(scr), NEW own, SavedOK(own), NEW c, NEW done, ScreenOK(done),
           NEW t \in HalfDone(scr, own, c, done)
    PROVE  ScreenOK(t)
<1> DEFINE Fine(T) == \A u \in T : ScreenOK(u)
<1>1. Fine({scr, ResetPen(scr), HomeCaret(ResetPen(scr)), Wiped(scr)})
  BY WipedType
<1>2. Fine(CaretAnywhere(scr)) /\ Fine(Unrestored(scr, own))
  BY CaretAnywhereType DEF Unrestored
<1>3. Fine({scr, UpdateVirtualWindow(scr), done})
  BY WindowMoves
<1>4. Fine({RestorePosition(scr, own)})
  BY RestorePositionKeeps DEF Keeps
<1>5. Fine({RestoreAttributes(u, own) : u \in Unrestored(scr, own)})
  <2> SUFFICES ASSUME NEW u \in Unrestored(scr, own) PROVE ScreenOK(RestoreAttributes(u, own))
    OBVIOUS
  <2>1. Keeps(u, u)
    BY <1>2 DEF Keeps
  <2>2. QED
    BY <2>1, RestoreAttributesKeeps DEF Keeps
<1>6. Fine({RestorePosition(scr, own)} \cup Unrestored(scr, own)
               \cup {RestoreAttributes(u, own) : u \in Unrestored(scr, own)})
  BY <1>2, <1>4, <1>5
<1>7. Fine({scr})
  OBVIOUS
<1>8. Fine(HalfDone(scr, own, c, done))
  <2> HIDE DEF Fine
  <2>1. QED
    BY <1>1, <1>2, <1>3, <1>6, <1>7, Zenon DEF HalfDone
<1>9. QED
  BY <1>8

(* A command runs, is skipped after an error, or fails on its way.           *)
LEMMA RunCommandKeepsTty ==
    ASSUME TtyInv, RunCommand
    PROVE  TtyInv'
<1>1. Working(job) /\ job.effects # <<>>
  BY DEF TtyInv, RunCommand, AtEffect
<1> DEFINE next(error) == [job EXCEPT !.effects = Tail(@), !.buf = <<>>, !.error = error]
<1>2. PICK f, done :
          /\ f \in Flushed /\ done = Run(f.screen, saved[job.stream], Effect.does, Effect.args)
          /\ \/ /\ screen' = done.screen
                /\ saved' = [saved EXCEPT ![job.stream] = done.saved]
                /\ job' = next(f.error) /\ Ends(f.error)
             \/ /\ screen' = f.screen
                /\ job' = next(TRUE) /\ Ends(TRUE) /\ UNCHANGED saved
             \/ /\ screen' \in HalfDone(f.screen, saved[job.stream], Effect.does, done.screen)
                /\ job' = next(TRUE) /\ Ends(TRUE) /\ UNCHANGED saved
  BY Zenon DEF RunCommand
<1>3. Keeps(screen, f.screen) /\ ScreenOK(f.screen)
  BY <1>1, <1>2, FlushedKeeps DEF Keeps
<1>4. SavedOK(saved[job.stream])
  BY <1>1, WorkFields DEF TtyInv
<1>5. Keeps(f.screen, done.screen) /\ SavedOK(done.saved)
  <2>1. PICK e \in EffectSet : e = Effect
    BY <1>1, NextEffect DEF Effect
  <2>2. e.args \in Seq(Arguments)
    BY DEF EffectSet
  <2>3. QED
    BY <1>2, <1>3, <1>4, <2>1, <2>2, RunKeeps, Zenon
<1>6. PICK error :
          /\ job' = next(error) /\ Ends(error) /\ ScreenOK(screen')
          /\ ~error => Keeps(screen, screen')
          /\ saved' \in {saved, [saved EXCEPT ![job.stream] = done.saved]}
  <2>1. Keeps(screen, done.screen) /\ ScreenOK(done.screen)
    BY <1>3, <1>5 DEF Keeps
  <2>2. \A t \in HalfDone(f.screen, saved[job.stream], Effect.does, done.screen) : ScreenOK(t)
    BY <1>3, <1>4, <2>1, HalfDoneType
  <2> HIDE DEF next
  <2>3. QED
    BY <1>2, <1>3, <2>1, <2>2, Zenon
<1>7. Working(job')
  <2>1. PICK none \in Seq(Chars) : none = <<>>
    BY EmptySeq
  <2>2. Len(none) <= BufSize
    BY <2>1, EmptySeq, TtyAssumption
  <2>3. PICK left \in Seq(EffectSet) : left = Tail(job.effects)
    BY <1>1, NextEffect
  <2>4. job' = [job EXCEPT !.effects = left, !.buf = none, !.error = error]
    BY <1>6, <2>1, <2>3, Zenon
  <2>5. QED
    BY <1>1, <2>2, <2>4, WorkGoesOn
<1>8. saved' = [s \in Streams |-> saved'[s]] /\ \A s \in Streams : SavedOK(saved'[s])
  <2>1. saved = [s \in Streams |-> saved[s]] /\ \A s \in Streams : SavedOK(saved[s])
    BY DEF TtyInv
  <2>2. CASE saved' = saved
    BY <2>1, <2>2, Zenon
  <2>3. CASE saved' = [saved EXCEPT ![job.stream] = done.saved]
    BY <1>5, <2>1, <2>3
  <2>4. QED
    BY <1>6, <2>2, <2>3, Zenon
<1>9. context' = context /\ cut' = cut /\ failed' = (failed \/ error)
  BY <1>6 DEF Ends
<1>10. ~failed' /\ ~cut' => AboveCursor(screen')
  BY <1>6, <1>9, ScreenStep
<1>11. QED
  BY <1>6, <1>7, <1>8, <1>9, <1>10, TtyStep, Zenon DEF TtyInv

(* The cache is copied back.                                                 *)
LEMMA FinishKeepsTty ==
    ASSUME TtyInv, Finish
    PROVE  TtyInv'
<1>1. Working(job)
  BY DEF TtyInv, Finish
<1>2. PICK f \in Flushed : screen' = f.screen /\ failed' = (failed \/ f.error)
  BY DEF Finish
<1>3. Keeps(screen, screen') /\ ScreenOK(screen')
  BY <1>1, <1>2, FlushedKeeps DEF Keeps
<1>4. saved' = saved /\ cut' = cut
  BY DEF Finish
<1>5. ~failed' /\ ~cut' => AboveCursor(screen')
  BY <1>2, <1>3, <1>4, ScreenStep
<1>6. context' \in [Streams -> ParserSet]
  BY <1>1, WorkFields DEF Finish, TtyInv
<1>7. ~job'.running
  BY DEF Finish, Idle
<1>8. QED
  BY <1>3, <1>4, <1>5, <1>6, <1>7, TtyStep, Zenon DEF TtyInv

(* The window comes to the cursor, ...                                       *)
LEMMA GetWindowSizeKeepsTty ==
    ASSUME TtyInv, GetWindowSize
    PROVE  TtyInv'
<1>1. ScreenOK(screen') /\ (AboveCursor(screen) => AboveCursor(screen'))
  BY WindowMoves DEF TtyInv, GetWindowSize
<1>2. job' = job /\ context' = context /\ saved' = saved /\ failed' = failed /\ cut' = cut
  BY DEF GetWindowSize
<1>3. QED
  BY <1>1, <1>2, TtyStep, Zenon DEF TtyInv

(* ... and the user gives the console another size.                          *)
LEMMA ResizeKeepsTty ==
    ASSUME TtyInv, NEW size \in Sizes, Resize(size)
    PROVE  TtyInv'
<1>1. ScreenOK(screen')
  BY ResizedType DEF TtyInv, Resize
<1>2. job' = job /\ context' = context /\ saved' = saved /\ failed' = failed
  BY DEF Resize
<1>3. ~cut' => ~cut /\ screen.offset < size.h
  <2>1. size.h \in Nat /\ screen.offset \in Int
    BY TtyAssumption, ScreenFields DEF TtyInv, Offsets
  <2>2. ~(size.h <= screen.offset) => screen.offset < size.h
    BY <2>1
  <2>3. QED
    BY <2>2, Zenon DEF Resize
<1>4. AboveCursor(screen) /\ screen.offset < size.h => AboveCursor(screen')
  BY ResizedType DEF TtyInv, Resize
<1>5. QED
  BY <1>1, <1>2, <1>3, <1>4, TtyStep, Zenon DEF TtyInv

(* Whatever the streams write and whichever calls fail, with the console     *)
(* resized between two writes.                                               *)
THEOREM TtyInvariance == Spec => []TtyInv
<1>1. TtyInv /\ Next => TtyInv'
  <2> SUFFICES ASSUME TtyInv, Next PROVE TtyInv'
    OBVIOUS
  <2>1. CASE \E s \in Streams, m \in Messages : Write(s, m)
    BY <2>1, WriteKeepsTty
  <2>2. CASE ReadByte
    BY <2>2, ReadByteKeepsTty
  <2>3. CASE Put
    BY <2>3, PutKeepsTty
  <2>4. CASE PutFull
    BY <2>4, PutFullKeepsTty
  <2>5. CASE RunCommand
    BY <2>5, RunCommandKeepsTty
  <2>6. CASE Finish
    BY <2>6, FinishKeepsTty
  <2>7. CASE GetWindowSize
    BY <2>7, GetWindowSizeKeepsTty
  <2>8. CASE \E size \in Sizes : Resize(size)
    BY <2>8, ResizeKeepsTty
  <2>9. QED
    BY <2>1, <2>2, <2>3, <2>4, <2>5, <2>6, <2>7, <2>8, Zenon DEF Next
<1>2. TtyInv /\ UNCHANGED vars => TtyInv'
  <2> SUFFICES ASSUME TtyInv, UNCHANGED vars PROVE TtyInv'
    OBVIOUS
  <2>1. screen' = screen /\ context' = context /\ saved' = saved /\ failed' = failed
        /\ cut' = cut /\ job' = job
    BY DEF vars
  <2>2. QED
    BY <2>1, TtyStep, Zenon DEF TtyInv
<1>3. QED
  BY TtyInit, <1>1, <1>2, PTL DEF Spec

(* The parsers the invariant allows are those ProcessMessage knows.          *)
LEMMA ParserFits ==
    ASSUME NEW p \in ParserSet
    PROVE  ParserOK(p)
<1>1. /\ p.left \in 0..6 /\ p.state \subseteq StateFlags /\ Consistent(p.state)
      /\ p.args \in Seq(Arguments) /\ Len(p.args) <= MaxArgs /\ p.eol \in Eols \cup {"none"}
      /\ "IN_ARG" \in p.state => p.args # <<>>
  BY DEF ParserSet
<1>2. (p.left = 0) = (p.lead = "none")
  BY DEF ParserSet
<1>3. Range(p.args) \subseteq 0..UShortMax
  <2>1. PICK args \in Seq(Arguments) : args = p.args
    BY <1>1
  <2>2. \A i \in DOMAIN args : args[i] \in 0..UShortMax
    BY ElementOfSeq, LenProperties DEF Arguments
  <2>3. QED
    BY <2>1, <2>2, Zenon DEF Range
<1>4. QED
  BY <1>1, <1>2, <1>3 DEF ParserOK

(* WithinBuffers: ProcessMessage never reaches its abort() and never writes  *)
(* behind ansi_csi_argv or utf16_buf, and the cursor is in the buffer.       *)
THEOREM ParserWithinBuffers == Spec => []WithinBuffers
<1>1. TtyInv => WithinBuffers
  <2> SUFFICES ASSUME TtyInv PROVE WithinBuffers
    OBVIOUS
  <2>1. \A s \in Streams : ParserOK(context[s])
    BY ParserFits DEF TtyInv
  <2>2. job.running => ParserOK(job.parser) /\ Len(job.buf) <= BufSize
    BY WorkFields, ParserFits DEF TtyInv
  <2>3. screen.x \in 0 .. screen.w - 1 /\ screen.y \in 0 .. screen.h - 1
    BY ScreenFields DEF TtyInv
  <2>4. QED
    BY <2>1, <2>2, <2>3, Zenon DEF WithinBuffers
<1>2. QED
  BY <1>1, TtyInvariance, PTL

(* The virtual window lies in the buffer and has the cursor, until a console *)
(* call fails or the user cuts the window's first row off.                   *)
THEOREM WindowKeepsCursor == Spec => []CursorInWindow
<1>1. TtyInv => CursorInWindow
  <2> SUFFICES ASSUME TtyInv, ~failed, ~cut PROVE WindowHasCursor
    BY DEF CursorInWindow
  <2>1. PICK now : now = UpdateVirtualWindow(screen)
    OBVIOUS
  <2>2. /\ ScreenOK(now) /\ now.offset \in 0..now.h - now.rows
        /\ now.y <= now.offset + now.rows - 1 /\ now.offset <= now.y
    BY <2>1, WindowMoves DEF TtyInv, AboveCursor
  <2>3. now.offset \in Int /\ now.y \in Int /\ now.rows \in Int /\ now.h \in Int
    BY <2>2, ScreenFields DEF Offsets
  <2>4. /\ now.offset >= 0 /\ now.offset + now.rows <= now.h
        /\ now.y \in now.offset .. now.offset + now.rows - 1
    BY <2>2, <2>3
  <2>5. QED
    BY <2>1, <2>4 DEF WindowHasCursor
<1>2. QED
  BY <1>1, TtyInvariance, PTL
==============================================================================
