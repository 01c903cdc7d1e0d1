---------------------------- MODULE TerminalProofs ----------------------------
(***************************************************************************)
(* Proofs about Terminal, for every set of streams on the terminal, any     *)
(* number of chunks typed and any number of calls of the application.       *)
(*                                                                          *)
(* Counted is what ties TtyStream and ReadStream together: a read under way *)
(* or a queued handler is one that the stream has counted, and a stream     *)
(* that was not made has none.                                              *)
(***************************************************************************)
EXTENDS Terminal, FiniteSetTheorems, SequenceTheorems, TLAPS

------------------------------------------------------------------------------
(* Types.                                                                    *)
Attributes == {"cooked", "raw"}
StreamType == [made : BOOLEAN, open : BOOLEAN, mode : {0, 1}, saved : Attributes,
               reads : Nat, array : Nat]
ReaderType == [paused : BOOLEAN, readable : BOOLEAN, handle : BOOLEAN]
ResultType == [tty : Ttys, result : {"data", "eof", "aborted"}]
GotType == [tty : Ttys, chunk : Nat]
HistoryType == [typed : Nat, ops : Nat, halted : SUBSET Ttys, raced : SUBSET Ttys,
                threw : SUBSET Ttys, got : Seq(GotType)]

TypeInv ==
    /\ term \in Attributes
    /\ stream \in [Ttys -> StreamType]
    /\ reader \in [Ttys -> ReaderType]
    /\ input \in Seq(Nat) /\ ready \in Seq(ResultType)
    /\ listening \in Ttys \cup {NoTty}
    /\ hist \in HistoryType

(* Once a stream has been switched to raw mode the saved attributes are the  *)
(* terminal's own, with a descriptor that stays open; before, nothing has    *)
(* changed the terminal.                                                     *)
Saved ==
    /\ \/ /\ origTermios = [fd |-> NoTty, saved |-> "cooked"]
          /\ term = "cooked" /\ \A t \in Ttys : stream[t].mode = 0
       \/ \E t \in Ttys : origTermios = [fd |-> Duplicate(t), saved |-> "cooked"]
    /\ exited => term = "cooked"

(* The handlers that are queued are among the reads of the stream; a stream  *)
(* that was not made has no reads and no listener.                           *)
Counted ==
    \A t \in Ttys :
        /\ Cardinality(Queued(t)) <= stream[t].reads
        /\ ~stream[t].made => /\ stream[t].reads = 0 /\ ~reader[t].readable
                              /\ listening # t

(* A stream that flows has a read under way.                                 *)
Flowing ==
    \A t \in Ttys : reader[t].readable =>
        /\ reader[t].handle
        /\ ~reader[t].paused /\ listening # t /\ t \notin hist.threw
               => stream[t].reads > 0

(* A stream that did not start two has one read under way at most; while it  *)
(* is paused, or its listener runs, that is one of the halted.               *)
OneRead ==
    \A t \in Ttys : t \notin hist.raced =>
        /\ stream[t].reads <= 1
        /\ stream[t].reads > 0 /\ (reader[t].paused \/ listening = t)
               => t \in hist.halted

(* Chunks are numbered as they are typed: the terminal has the last of them, *)
(* m_inputArray of each stream one from before those, and what a stream's    *)
(* listener got is not newer than its m_inputArray.                          *)
Rising(s) == \A i, j \in DOMAIN s : i < j => s[i] < s[j]
Above(s, x) == \A i \in DOMAIN s : x < s[i]

Chunks ==
    /\ Rising(input) /\ \A i \in DOMAIN input : input[i] <= hist.typed
    /\ \A t \in Ttys : /\ Above(input, stream[t].array)
                       /\ stream[t].array <= hist.typed
    /\ \A g \in DOMAIN hist.got :
          hist.got[g].chunk <= stream[hist.got[g].tty].array

NeverBack ==
    \A g, h \in DOMAIN hist.got :
        g < h /\ hist.got[g].tty = hist.got[h].tty
            => hist.got[g].chunk <= hist.got[h].chunk

(* The chunks that wait for their handlers are in order, behind those the    *)
(* listeners have got, on the streams that did not race.                     *)
Waiting(k) == ready[k].result = "data" /\ ready[k].tty \notin hist.raced
Held(k) == stream[ready[k].tty].array

InOrder ==
    /\ \A j, k \in DOMAIN ready : j < k /\ Waiting(j) /\ Waiting(k) => Held(j) < Held(k)
    /\ \A g \in DOMAIN hist.got, k \in DOMAIN ready :
          hist.got[g].tty \notin hist.raced /\ Waiting(k)
              => hist.got[g].chunk < Held(k)
    /\ \A g, h \in DOMAIN hist.got :
          g < h /\ {hist.got[g].tty, hist.got[h].tty} \cap hist.raced = {}
              => hist.got[g].chunk < hist.got[h].chunk

IInv == /\ TypeInv /\ Saved /\ Counted /\ Flowing
        /\ OneRead /\ Chunks /\ NeverBack /\ InOrder

------------------------------------------------------------------------------
(* The queue of handlers.                                                    *)

(* The handlers of a stream in a queue.                                      *)
Of(q, t) == {i \in DOMAIN q : q[i].tty = t}

(* Whose they are.                                                           *)
LEMMA OfWhom ==
    ASSUME NEW q \in Seq(ResultType)
    PROVE  \A i \in DOMAIN q : q[i].tty \in Ttys
<1>1. DOMAIN q = 1..Len(q) /\ \A i \in 1..Len(q) : q[i] \in ResultType
  OBVIOUS
<1>2. QED
  BY <1>1 DEF ResultType

(* How many there are.                                                       *)
LEMMA OfFinite ==
    ASSUME NEW q \in Seq(ResultType), NEW t
    PROVE  /\ IsFiniteSet(Of(q, t)) /\ Cardinality(Of(q, t)) \in Nat
           /\ Of(q, t) \subseteq 1..Len(q) /\ Len(q) \in Nat
           /\ Cardinality(Of(q, t)) = 0 <=> Of(q, t) = {}
<1>1. DOMAIN q = 1..Len(q) /\ Len(q) \in Nat
  OBVIOUS
<1>2. Of(q, t) \subseteq 1..Len(q)
  BY <1>1 DEF Of
<1>3. IsFiniteSet(1..Len(q))
  BY <1>1, FS_Interval
<1>4. IsFiniteSet(Of(q, t))
  BY <1>2, <1>3, FS_Subset
<1>5. QED
  BY <1>1, <1>2, <1>4, FS_CardinalityType, FS_EmptySet

(* One more handler.                                                         *)
LEMMA OfAppend ==
    ASSUME NEW q \in Seq(ResultType), NEW e \in ResultType, NEW t
    PROVE  /\ e.tty = t => Cardinality(Of(Append(q, e), t)) = Cardinality(Of(q, t)) + 1
           /\ e.tty # t => Of(Append(q, e), t) = Of(q, t)
<1> DEFINE r == Append(q, e)
           n == Len(q) + 1
<1>1. /\ DOMAIN q = 1..Len(q) /\ Len(q) \in Nat
      /\ DOMAIN r = 1..n /\ r[n] = e /\ \A i \in 1..Len(q) : r[i] = q[i]
  OBVIOUS
<1> HIDE DEF r
<1>2. CASE e.tty = t
  <2>1. Of(r, t) = Of(q, t) \cup {n} /\ n \notin Of(q, t)
    BY <1>1, <1>2 DEF Of
  <2>2. Cardinality(Of(r, t)) = Cardinality(Of(q, t)) + 1
    BY <2>1, OfFinite, FS_AddElement
  <2>3. QED
    BY <1>2, <2>2 DEF r
<1>3. CASE e.tty # t
  <2>1. Of(r, t) = Of(q, t)
    BY <1>1, <1>3 DEF Of
  <2>2. QED
    BY <1>3, <2>1 DEF r
<1>4. QED
  BY <1>2, <1>3

(* The first handler is taken out.                                           *)
LEMMA OfTail ==
    ASSUME NEW q \in Seq(ResultType), q # <<>>, NEW t
    PROVE  /\ Tail(q) \in Seq(ResultType)
           /\ \A k \in DOMAIN Tail(q) : k + 1 \in DOMAIN q /\ Tail(q)[k] = q[k + 1]
           /\ Head(q) = q[1] /\ 1 \in DOMAIN q /\ Len(Tail(q)) = Len(q) - 1
           /\ Head(q).tty = t =>
                /\ Cardinality(Of(Tail(q), t)) = Cardinality(Of(q, t)) - 1
                /\ Cardinality(Of(q, t)) >= 1
           /\ Head(q).tty # t => Cardinality(Of(Tail(q), t)) = Cardinality(Of(q, t))
<1> DEFINE r == Tail(q)
           S == Of(q, t) \ {1}
           f == [i \in S |-> i - 1]
<1>1. /\ r \in Seq(ResultType) /\ Len(r) = Len(q) - 1 /\ Head(q) = q[1]
      /\ DOMAIN q = 1..Len(q) /\ Len(q) \in Nat /\ Len(q) >= 1
      /\ DOMAIN r = 1..(Len(q) - 1)
      /\ \A k \in DOMAIN r : r[k] = q[k + 1]
  BY HeadTailProperties
<1> HIDE DEF r
<1>2. IsFiniteSet(Of(q, t)) /\ Cardinality(Of(q, t)) \in Nat
  BY OfFinite
<1>3. S = {i \in 2..Len(q) : q[i].tty = t}
  BY <1>1 DEF Of
<1>4. Of(r, t) = {k \in 1..(Len(q) - 1) : q[k + 1].tty = t}
  BY <1>1 DEF Of
<1> HIDE DEF S
<1>5. f \in Bijection(S, Of(r, t))
  <2>1. f \in [S -> Of(r, t)]
    BY <1>1, <1>3, <1>4
  <2>2. \A a, b \in S : f[a] = f[b] => a = b
    BY <1>1, <1>3
  <2>3. \A k \in Of(r, t) : \E a \in S : f[a] = k
    <3> TAKE k \in Of(r, t)
    <3>1. k + 1 \in S
      BY <1>1, <1>3, <1>4
    <3>2. f[k + 1] = k
      BY <1>1, <1>4, <3>1
    <3>3. QED
      BY <3>1, <3>2
  <2> HIDE DEF f
  <2>4. QED
    BY <2>1, <2>2, <2>3 DEF Bijection, Injection, Surjection, IsInjective
<1>6. IsFiniteSet(S)
  BY <1>2, FS_RemoveElement DEF S
<1>7. Cardinality(Of(r, t)) = Cardinality(S)
  BY <1>5, <1>6, FS_Bijection DEF ExistsBijection
<1>8. 1 \in Of(q, t) <=> Head(q).tty = t
  BY <1>1 DEF Of
<1>9. Cardinality(S) = IF 1 \in Of(q, t) THEN Cardinality(Of(q, t)) - 1
                       ELSE Cardinality(Of(q, t))
  BY <1>2, FS_RemoveElement DEF S
<1>10. 1 \in Of(q, t) => Cardinality(Of(q, t)) >= 1
  BY <1>2, FS_EmptySet
<1>11. QED
  BY <1>1, <1>7, <1>8, <1>9, <1>10 DEF r

(* The handlers of n reads that are aborted.                                 *)
Aborted(t, n) == [i \in 1..n |-> [tty |-> t, result |-> "aborted"]]

(* They go behind the others.                                                *)
LEMMA OfAborted ==
    ASSUME NEW q \in Seq(ResultType), NEW t \in Ttys, NEW n \in Nat
    PROVE  /\ q \o Aborted(t, n) \in Seq(ResultType)
           /\ \A k \in DOMAIN (q \o Aborted(t, n)) :
                 \/ k \in DOMAIN q /\ (q \o Aborted(t, n))[k] = q[k]
                 \/ (q \o Aborted(t, n))[k] = [tty |-> t, result |-> "aborted"]
           /\ Cardinality(Of(q \o Aborted(t, n), t)) = Cardinality(Of(q, t)) + n
           /\ \A u \in Ttys : u # t => Of(q \o Aborted(t, n), u) = Of(q, u)
<1> DEFINE a == Aborted(t, n)
           r == q \o a
           e == [tty |-> t, result |-> "aborted"]
           m == Len(q)
           I == (m + 1)..(m + n)
<1>1. e \in ResultType /\ e.tty = t
  BY DEF ResultType
<1> HIDE DEF e
<1>2. a \in Seq(ResultType) /\ Len(a) = n /\ \A i \in 1..n : a[i] = e
  BY <1>1 DEF Aborted, e
<1> HIDE DEF a
<1>3. /\ r \in Seq(ResultType) /\ m \in Nat
      /\ DOMAIN q = 1..m /\ DOMAIN r = 1..(m + n)
      /\ \A k \in 1..m : r[k] = q[k]
      /\ \A k \in I : r[k] = e
  BY <1>2
<1> HIDE DEF r
<1>4. \A k \in DOMAIN r : (k \in DOMAIN q /\ r[k] = q[k]) \/ r[k] = e
  BY <1>3
<1>5. Cardinality(Of(r, t)) = Cardinality(Of(q, t)) + n
  <2>1. Of(r, t) = Of(q, t) \cup I /\ Of(q, t) \cap I = {}
    <3>1. \A k \in 1..m : r[k].tty = q[k].tty
      BY <1>3
    <3>2. \A k \in I : r[k].tty = t /\ k \notin 1..m
      BY <1>1, <1>3
    <3>3. 1..(m + n) = (1..m) \cup I
      BY <1>3
    <3>4. QED
      BY <1>3, <3>1, <3>2, <3>3 DEF Of
  <2>2. IsFiniteSet(I) /\ Cardinality(I) = n
    BY <1>3, FS_Interval
  <2>3. IsFiniteSet(Of(q, t)) /\ Cardinality(Of(q, t)) \in Nat
    BY OfFinite
  <2> HIDE DEF I
  <2>4. Cardinality(Of(q, t) \cup I) =
            Cardinality(Of(q, t)) + Cardinality(I) - Cardinality(Of(q, t) \cap I)
    BY <2>2, <2>3, FS_Union
  <2>5. Cardinality(Of(q, t) \cap I) = 0
    BY <2>1, FS_EmptySet
  <2>6. QED
    BY <2>1, <2>2, <2>3, <2>4, <2>5
<1>6. ASSUME NEW u \in Ttys, u # t PROVE Of(r, u) = Of(q, u)
  BY <1>1, <1>3, <1>6 DEF Of
<1>7. QED
  BY <1>3, <1>4, <1>5, <1>6 DEF r, a, e

------------------------------------------------------------------------------
(* The steps.                                                                *)

(* Counting, for the streams.                                                *)
LEMMA Counts ==
    ASSUME TypeInv, Counted, NEW t \in Ttys
    PROVE  /\ Queued(t) = Of(ready, t)
           /\ Cardinality(Of(ready, t)) \in Nat /\ stream[t].reads \in Nat
           /\ InFlight(t) = stream[t].reads - Cardinality(Of(ready, t))
           /\ InFlight(t) \in Nat
           /\ Cardinality(Of(ready, t)) <= stream[t].reads
<1>1. Queued(t) = Of(ready, t)
  BY DEF Queued, Of
<1>2. Cardinality(Of(ready, t)) \in Nat
  BY OfFinite DEF TypeInv
<1>3. stream[t].reads \in Nat
  BY DEF TypeInv, StreamType
<1>4. Cardinality(Of(ready, t)) <= stream[t].reads
  BY <1>1 DEF Counted
<1>5. InFlight(t) = stream[t].reads - Cardinality(Of(ready, t))
  BY <1>1 DEF InFlight
<1>6. QED
  BY <1>1, <1>2, <1>3, <1>4, <1>5

(* The history, which every call of the application adds to.                 *)
LEMMA HistoryFields ==
    ASSUME TypeInv
    PROVE  /\ hist.typed \in Nat /\ hist.ops \in Nat /\ hist.raced \in SUBSET Ttys
           /\ hist.halted \in SUBSET Ttys
           /\ hist.threw \in SUBSET Ttys /\ hist.got \in Seq(GotType)
           /\ Op => /\ hist' \in HistoryType /\ ~exited
                    /\ hist'.typed = hist.typed /\ hist'.raced = hist.raced
                    /\ hist'.halted = hist.halted
                    /\ hist'.threw = hist.threw /\ hist'.got = hist.got
<1>1. hist \in HistoryType
  BY DEF TypeInv
<1>2. hist.ops + 1 \in Nat
  BY <1>1 DEF HistoryType
<1>3. QED
  BY <1>1, <1>2 DEF HistoryType, Op

(* What the steps that tell the halted and the raced streams do to it.       *)
LEMMA HistoryOf ==
    ASSUME TypeInv, NEW t \in Ttys
    PROVE  /\ Pause(t) =>
                /\ hist' \in HistoryType
                /\ hist'.typed = hist.typed /\ hist'.raced = hist.raced
                /\ hist'.threw = hist.threw /\ hist'.got = hist.got
                /\ hist'.halted = IF stream[t].reads > 0
                                  THEN hist.halted \cup {t} ELSE hist.halted
           /\ Resume(t) =>
                /\ hist' \in HistoryType
                /\ hist'.typed = hist.typed /\ hist'.threw = hist.threw
                /\ hist'.got = hist.got
                /\ hist'.halted = IF listening = t
                                  THEN hist.halted \cup {t} ELSE hist.halted
                /\ hist'.raced = IF t \in hist.halted
                                 THEN hist.raced \cup {t} ELSE hist.raced
           /\ HandleData(t) =>
                /\ hist' \in HistoryType
                /\ hist'.typed = hist.typed /\ hist'.threw = hist.threw
                /\ hist'.raced = hist.raced /\ hist'.halted = hist.halted \ {t}
                /\ hist'.got = Append(hist.got, [tty |-> t, chunk |-> stream[t].array])
           /\ HandleEof(t) =>
                /\ hist' \in HistoryType
                /\ hist'.typed = hist.typed /\ hist'.threw = hist.threw
                /\ hist'.raced = hist.raced /\ hist'.halted = hist.halted \ {t}
                /\ hist'.got = hist.got
<1>1. /\ hist \in HistoryType /\ hist.ops + 1 \in Nat
      /\ hist.halted \in SUBSET Ttys /\ hist.raced \in SUBSET Ttys
      /\ hist.got \in Seq(GotType)
  BY HistoryFields DEF TypeInv
<1> DEFINE n == hist.ops + 1
           a == IF stream[t].reads > 0 THEN hist.halted \cup {t} ELSE hist.halted
           b == IF listening = t THEN hist.halted \cup {t} ELSE hist.halted
           c == IF t \in hist.halted THEN hist.raced \cup {t} ELSE hist.raced
           d == hist.halted \ {t}
           e == Append(hist.got, [tty |-> t, chunk |-> stream[t].array])
<1>2. /\ a \in SUBSET Ttys /\ b \in SUBSET Ttys /\ c \in SUBSET Ttys
      /\ d \in SUBSET Ttys /\ n \in Nat
  BY <1>1
<1>3. e \in Seq(GotType)
  <2>1. [tty |-> t, chunk |-> stream[t].array] \in GotType
    BY DEF TypeInv, StreamType, GotType
  <2>2. QED
    BY <1>1, <2>1
<1>4. /\ Pause(t) => hist' = [hist EXCEPT !.ops = n, !.halted = a]
      /\ Resume(t) => hist' = [hist EXCEPT !.ops = n, !.halted = b, !.raced = c]
      /\ HandleData(t) => hist' = [hist EXCEPT !.got = e, !.halted = d]
      /\ HandleEof(t) => hist' = [hist EXCEPT !.halted = d]
  BY DEF Pause, Resume, HandleData, HandleEof
<1> HIDE DEF n, a, b, c, d, e
<1>5. QED
  BY <1>1, <1>2, <1>3, <1>4 DEF HistoryType, a, b, c, d, e

(* The end of read_callback.                                                 *)
LEMMA HistoryReturns ==
    ASSUME TypeInv, ListenerReturns
    PROVE  /\ hist' \in HistoryType /\ listening \in Ttys
           /\ hist'.typed = hist.typed /\ hist'.threw = hist.threw
           /\ hist'.halted = hist.halted /\ hist'.got = hist.got
           /\ hist'.raced = IF ReadsOn(listening) /\ listening \in hist.halted
                            THEN hist.raced \cup {listening} ELSE hist.raced
<1> DEFINE c == IF ReadsOn(listening) /\ listening \in hist.halted
                THEN hist.raced \cup {listening} ELSE hist.raced
<1>1. hist \in HistoryType /\ hist.raced \in SUBSET Ttys /\ listening \in Ttys
  BY HistoryFields DEF TypeInv, ListenerReturns
<1>2. c \in SUBSET Ttys
  BY <1>1
<1>3. hist' = [hist EXCEPT !.raced = c]
  BY DEF ListenerReturns
<1> HIDE DEF c
<1>4. /\ hist' \in HistoryType /\ hist'.raced = c
      /\ hist'.typed = hist.typed /\ hist'.threw = hist.threw
      /\ hist'.halted = hist.halted /\ hist'.got = hist.got
  BY <1>1, <1>2, <1>3 DEF HistoryType
<1>5. QED
  BY <1>1, <1>4 DEF c

(* A stream that raced is one for good.                                      *)
LEMMA RacedStays ==
    ASSUME TypeInv, [Next]_vars
    PROVE  hist.raced \subseteq hist'.raced
<1>1. ASSUME NEW t \in Ttys,
             Pause(t) \/ Resume(t) \/ HandleData(t) \/ HandleEof(t)
      PROVE  hist.raced \subseteq hist'.raced
  BY <1>1, HistoryOf
<1>2. CASE Op
  BY <1>2, HistoryFields
<1>3. CASE ListenerReturns
  BY <1>3, HistoryReturns
<1>4. CASE Type \/ ListenerThrows
  BY <1>4 DEF Type, ListenerThrows, TypeInv, HistoryType
<1>5. CASE hist' = hist
  BY <1>5
<1>6. QED
  BY <1>1, <1>2, <1>3, <1>4, <1>5
     DEF Next, App, Events, Create, RawModeOn, RawModeOff, Destroy,
         ReadData, ReadEof, EmitClose, HandleDestroyed, Reset, Exit, vars

(* One stream, or its reader, changes.                                       *)
LEMMA OneChanges ==
    ASSUME NEW T, NEW f \in [Ttys -> T], NEW t \in Ttys, NEW z \in T
    PROVE  /\ [f EXCEPT ![t] = z] \in [Ttys -> T]
           /\ [f EXCEPT ![t] = z][t] = z
           /\ \A u \in Ttys : u # t => [f EXCEPT ![t] = z][u] = f[u]
  OBVIOUS

(* One more read under way.                                                  *)
LEMMA ReadingIs ==
    ASSUME TypeInv, NEW t \in Ttys
    PROVE  /\ Reading(t) \in [Ttys -> StreamType]
           /\ Reading(t)[t].reads = stream[t].reads + 1
           /\ \A u \in Ttys :
                /\ Reading(t)[u].made = stream[u].made
                /\ Reading(t)[u].mode = stream[u].mode
                /\ Reading(t)[u].array = stream[u].array
                /\ u # t => Reading(t)[u].reads = stream[u].reads
<1> DEFINE z == [stream[t] EXCEPT !.reads = @ + 1]
<1>1. stream \in [Ttys -> StreamType] /\ stream[t] \in StreamType
  BY DEF TypeInv
<1>2. stream[t].reads + 1 \in Nat
  BY <1>1 DEF StreamType
<1>3. /\ z \in StreamType /\ z.reads = stream[t].reads + 1
      /\ z.made = stream[t].made /\ z.mode = stream[t].mode
      /\ z.array = stream[t].array
  BY <1>1, <1>2 DEF StreamType
<1>4. Reading(t) = [stream EXCEPT ![t] = z]
  BY DEF Reading
<1> HIDE DEF z
<1>5. /\ Reading(t) \in [Ttys -> StreamType] /\ Reading(t)[t] = z
      /\ \A u \in Ttys : u # t => Reading(t)[u] = stream[u]
  BY <1>1, <1>3, <1>4, OneChanges
<1>6. QED
  BY <1>3, <1>5

(* The handler of a read runs.                                               *)
LEMMA HandlingIs ==
    ASSUME TypeInv, Counted, NEW t \in Ttys, NEW r, Handling(t, r)
    PROVE  /\ ~exited /\ listening = NoTty /\ ready # <<>> /\ ready' = Tail(ready)
           /\ Head(ready) = [tty |-> t, result |-> r]
           /\ stream' \in [Ttys -> StreamType] /\ ready' \in Seq(ResultType)
           /\ stream[t].reads > 0 /\ stream'[t].reads = stream[t].reads - 1
           /\ \A u \in Ttys :
                /\ stream'[u].made = stream[u].made
                /\ stream'[u].mode = stream[u].mode
                /\ stream'[u].array = stream[u].array
                /\ u # t => stream'[u].reads = stream[u].reads
                /\ Cardinality(Of(ready', u)) <= stream'[u].reads
<1>1. /\ ~exited /\ listening = NoTty /\ ready # <<>> /\ ready' = Tail(ready)
      /\ Head(ready) = [tty |-> t, result |-> r]
      /\ stream' = [stream EXCEPT ![t].reads = @ - 1]
  BY DEF Handling
<1>2. ready \in Seq(ResultType) /\ Head(ready).tty = t
  BY <1>1 DEF TypeInv
<1>3. /\ ready' \in Seq(ResultType)
      /\ Cardinality(Of(ready, t)) >= 1
      /\ Cardinality(Of(ready', t)) = Cardinality(Of(ready, t)) - 1
  BY <1>1, <1>2, OfTail
<1>4. stream[t].reads > 0 /\ stream[t].reads \in Nat
  BY <1>3, Counts
<1>5. stream[t].reads - 1 \in Nat
  BY <1>4
<1>6. /\ stream' \in [Ttys -> StreamType]
      /\ stream'[t].reads = stream[t].reads - 1
      /\ \A u \in Ttys :
                /\ stream'[u].made = stream[u].made
                /\ stream'[u].mode = stream[u].mode
                /\ stream'[u].array = stream[u].array
                /\ u # t => stream'[u].reads = stream[u].reads
  BY <1>1, <1>5 DEF TypeInv, StreamType
<1>7. ASSUME NEW u \in Ttys
      PROVE  Cardinality(Of(ready', u)) <= stream'[u].reads
  <2>1. CASE u = t
    BY <1>3, <1>4, <1>6, <2>1, Counts
  <2>2. CASE u # t
    <3>1. Cardinality(Of(ready', u)) = Cardinality(Of(ready, u))
      BY <1>1, <1>2, <2>2, OfTail
    <3>2. QED
      BY <1>6, <2>2, <3>1, Counts
  <2>3. QED
    BY <2>1, <2>2
<1>8. QED
  BY <1>1, <1>3, <1>4, <1>6, <1>7

(* Types are kept.                                                           *)
LEMMA TypeStep ==
    ASSUME TypeInv, Saved, Counted, [Next]_vars
    PROVE  TypeInv'
<1> USE DEF TypeInv
<1>1. ASSUME NEW t \in Ttys, Create(t) PROVE TypeInv'
  <2> DEFINE z == [stream[t] EXCEPT !.made = TRUE, !.open = TRUE]
             y == [paused |-> TRUE, readable |-> TRUE, handle |-> TRUE]
  <2>1. z \in StreamType /\ y \in ReaderType
    BY DEF StreamType, ReaderType
  <2>2. stream' = [stream EXCEPT ![t] = z] /\ reader' = [reader EXCEPT ![t] = y]
    BY <1>1 DEF Create
  <2> HIDE DEF z, y
  <2>3. stream' \in [Ttys -> StreamType] /\ reader' \in [Ttys -> ReaderType]
    BY <2>1, <2>2, OneChanges
  <2>4. QED
    BY <1>1, <2>3, HistoryFields DEF Create
<1>2. ASSUME NEW t \in Ttys, RawModeOn(t) \/ RawModeOff(t) PROVE TypeInv'
  <2>1. stream[t] \in StreamType /\ term \in Attributes /\ stream[t].saved \in Attributes
    BY DEF StreamType
  <2>2. CASE RawModeOn(t)
    <3> DEFINE z == [stream[t] EXCEPT !.mode = 1, !.saved = term]
    <3>1. z \in StreamType
      BY <2>1 DEF StreamType
    <3>2. stream' = [stream EXCEPT ![t] = z]
      BY <2>2 DEF RawModeOn
    <3> HIDE DEF z
    <3>3. stream' \in [Ttys -> StreamType]
      BY <3>1, <3>2, OneChanges
    <3>4. QED
      BY <2>2, <3>3, HistoryFields DEF RawModeOn, lua, Attributes
  <2>3. CASE RawModeOff(t)
    <3> DEFINE z == [stream[t] EXCEPT !.mode = 0]
    <3>1. z \in StreamType
      BY <2>1 DEF StreamType
    <3>2. stream' = [stream EXCEPT ![t] = z]
      BY <2>3 DEF RawModeOff
    <3> HIDE DEF z
    <3>3. stream' \in [Ttys -> StreamType]
      BY <3>1, <3>2, OneChanges
    <3>4. QED
      BY <2>1, <2>3, <3>3, HistoryFields DEF RawModeOff, lua
  <2>4. QED
    BY <1>2, <2>2, <2>3
<1>3. CASE Reset \/ Exit
  <2>1. ResetMode(stream) \in Attributes
    BY DEF ResetMode, Saved, Attributes
  <2>2. QED
    BY <1>3, <2>1, HistoryFields DEF Reset, Exit, lua, io
<1>4. ASSUME NEW t \in Ttys, Pause(t) PROVE TypeInv'
  <2>1. [reader EXCEPT ![t].paused = TRUE] \in [Ttys -> ReaderType]
    BY DEF ReaderType
  <2>2. QED
    BY <1>4, <2>1, HistoryOf DEF Pause, io
<1>5. ASSUME NEW t \in Ttys, Resume(t) PROVE TypeInv'
  <2>1. [reader EXCEPT ![t].paused = FALSE] \in [Ttys -> ReaderType]
    BY DEF ReaderType
  <2>2. QED
    BY <1>5, <2>1, HistoryOf, ReadingIs DEF Resume
<1>6. ASSUME NEW t \in Ttys, Destroy(t) PROVE TypeInv'
  <2>1. ready' = ready \o Aborted(t, InFlight(t))
    BY <1>6 DEF Destroy, Aborted
  <2>2. ready' \in Seq(ResultType)
    BY <2>1, Counts, OfAborted
  <2> DEFINE y == [reader[t] EXCEPT !.readable = FALSE, !.handle = FALSE]
             z == [stream[t] EXCEPT !.open = FALSE]
  <2>3. z \in StreamType /\ y \in ReaderType
    BY DEF StreamType, ReaderType
  <2>4. stream' = [stream EXCEPT ![t] = z] /\ reader' = [reader EXCEPT ![t] = y]
    BY <1>6 DEF Destroy
  <2> HIDE DEF z, y
  <2>5. stream' \in [Ttys -> StreamType] /\ reader' \in [Ttys -> ReaderType]
    BY <2>3, <2>4, OneChanges
  <2>6. QED
    BY <1>6, <2>2, <2>5, HistoryFields DEF Destroy
<1>7. ASSUME NEW t \in Ttys, EmitClose(t) PROVE TypeInv'
  BY <1>7 DEF EmitClose, io
<1>8. CASE Type
  <2> DEFINE n == hist.typed + 1
  <2>1. n \in Nat /\ Append(input, n) \in Seq(Nat)
    BY HistoryFields
  <2>2. hist' = [hist EXCEPT !.typed = n] /\ input' = Append(input, n)
    BY <1>8 DEF Type
  <2> HIDE DEF n
  <2>3. hist' \in HistoryType
    BY <2>1, <2>2 DEF HistoryType
  <2>4. QED
    BY <1>8, <2>1, <2>2, <2>3 DEF Type, lua
<1>9. ASSUME NEW t \in Ttys, ReadData(t) \/ ReadEof(t) PROVE TypeInv'
  <2>1. \A r \in {"data", "eof"} : [tty |-> t, result |-> r] \in ResultType
    BY DEF ResultType
  <2>2. CASE ReadData(t)
    <3> DEFINE z == [stream[t] EXCEPT !.array = Head(input)]
    <3>1. input # <<>> /\ stream' = [stream EXCEPT ![t] = z]
      BY <2>2 DEF ReadData
    <3>2. Head(input) \in Nat /\ Tail(input) \in Seq(Nat)
      BY <3>1
    <3>3. z \in StreamType
      BY <3>2 DEF StreamType
    <3> HIDE DEF z
    <3>4. stream' \in [Ttys -> StreamType]
      BY <3>1, <3>3, OneChanges
    <3>5. QED
      BY <2>1, <2>2, <3>2, <3>4 DEF ReadData, lua
  <2>3. CASE ReadEof(t)
    BY <2>1, <2>3 DEF ReadEof, lua
  <2>4. QED
    BY <1>9, <2>2, <2>3
<1>10. ASSUME NEW t \in Ttys, HandleData(t) PROVE TypeInv'
  <2>1. stream' \in [Ttys -> StreamType] /\ ready' \in Seq(ResultType)
    BY <1>10, HandlingIs DEF HandleData
  <2>2. QED
    BY <1>10, <2>1, HistoryOf DEF HandleData
<1>11. ASSUME NEW t \in Ttys, HandleEof(t) \/ HandleDestroyed(t) PROVE TypeInv'
  <2>1. stream' \in [Ttys -> StreamType] /\ ready' \in Seq(ResultType)
    BY <1>11, HandlingIs DEF HandleEof, HandleDestroyed
  <2>2. QED
    <3>1. [reader EXCEPT ![t].readable = FALSE] \in [Ttys -> ReaderType]
      BY DEF ReaderType
    <3>2. QED
      BY <1>11, <2>1, <3>1, HistoryOf DEF HandleEof, HandleDestroyed, lua
<1>12. CASE ListenerReturns
  BY <1>12, HistoryReturns, ReadingIs DEF ListenerReturns
<1>13. CASE ListenerThrows
  BY <1>13 DEF ListenerThrows, io, HistoryType
<1>14. CASE UNCHANGED vars
  BY <1>14 DEF vars
<1>15. QED
  BY <1>1, <1>2, <1>3, <1>4, <1>5, <1>6, <1>7, <1>8, <1>9, <1>10, <1>11,
     <1>12, <1>13, <1>14 DEF Next, App, Events

(* The duplicate is a descriptor, and one that is not closed.                *)
LEMMA DuplicateIs ==
    ASSUME NEW t \in Ttys
    PROVE  Duplicate(t) # NoTty /\ Duplicate(t).dup
<1>1. Duplicate(t) \in [dup : BOOLEAN, of : Ttys] /\ Duplicate(t).dup
  BY DEF Duplicate
<1>2. NoTty \notin [dup : BOOLEAN, of : Ttys]
  BY NoTtyAssumption
<1>3. QED
  BY <1>1, <1>2, Zenon

(* What is saved of the terminal stays, and every exit brings it back.       *)
LEMMA SavedStep ==
    ASSUME TypeInv, Saved, Counted, [Next]_vars
    PROVE  Saved'
<1>1. ResetMode(stream) = "cooked"
  <2>1. CASE origTermios = [fd |-> NoTty, saved |-> "cooked"] /\ term = "cooked"
    BY <2>1 DEF ResetMode
  <2>2. ASSUME NEW t \in Ttys, origTermios = [fd |-> Duplicate(t), saved |-> "cooked"]
        PROVE  ResetMode(stream) = "cooked"
    BY <2>2, DuplicateIs DEF ResetMode
  <2>3. QED
    BY <2>1, <2>2 DEF Saved
<1>2. ASSUME NEW t \in Ttys, Create(t) PROVE Saved'
  <2>1. \A u \in Ttys : stream'[u].mode = stream[u].mode
    BY <1>2 DEF Create, TypeInv, StreamType
  <2>2. QED
    BY <1>2, <2>1 DEF Create, Saved
<1>3. ASSUME NEW t \in Ttys, RawModeOn(t) PROVE Saved'
  <2>1. origTermios' = SavedAtRaw(t) /\ ~exited /\ exited' = exited
    BY <1>3 DEF RawModeOn, Op
  <2>2. \E u \in Ttys : origTermios' = [fd |-> Duplicate(u), saved |-> "cooked"]
    <3>1. CASE origTermios = [fd |-> NoTty, saved |-> "cooked"] /\ term = "cooked"
      BY <2>1, <3>1 DEF SavedAtRaw
    <3>2. ASSUME NEW u \in Ttys, origTermios = [fd |-> Duplicate(u), saved |-> "cooked"]
          PROVE  origTermios' = origTermios
      BY <2>1, <3>2, DuplicateIs DEF SavedAtRaw
    <3>3. QED
      BY <3>1, <3>2 DEF Saved
  <2>3. QED
    BY <2>1, <2>2 DEF Saved
<1>4. ASSUME NEW t \in Ttys, RawModeOff(t) PROVE Saved'
  <2>1. /\ stream[t].mode = 1 /\ origTermios' = origTermios
        /\ ~exited /\ exited' = exited
    BY <1>4 DEF RawModeOff, Op
  <2>2. QED
    BY <2>1 DEF Saved
<1>5. CASE Reset \/ Exit
  <2>1. term' = "cooked" /\ stream' = stream /\ origTermios' = origTermios
    BY <1>1, <1>5 DEF Reset, Exit, io
  <2>2. QED
    BY <2>1 DEF Saved
<1>6. ASSUME term' = term, origTermios' = origTermios, exited' = exited,
             \A u \in Ttys : stream'[u].mode = stream[u].mode
      PROVE  Saved'
  BY <1>6 DEF Saved
<1>7. ASSUME NEW t \in Ttys, Pause(t) \/ EmitClose(t) \/ ReadEof(t) PROVE Saved'
  BY <1>6, <1>7 DEF Pause, EmitClose, ReadEof, io
<1>8. ASSUME NEW t \in Ttys, Resume(t) PROVE Saved'
  BY <1>6, <1>8, ReadingIs DEF Resume
<1>9. ASSUME NEW t \in Ttys, Destroy(t) PROVE Saved'
  <2>1. \A u \in Ttys : stream'[u].mode = stream[u].mode
    BY <1>9 DEF Destroy, TypeInv, StreamType
  <2>2. QED
    BY <1>6, <1>9, <2>1 DEF Destroy
<1>10. ASSUME NEW t \in Ttys, ReadData(t) PROVE Saved'
  <2>1. \A u \in Ttys : stream'[u].mode = stream[u].mode
    BY <1>10 DEF ReadData, TypeInv, StreamType
  <2>2. QED
    BY <1>6, <1>10, <2>1 DEF ReadData
<1>11. ASSUME NEW t \in Ttys, HandleData(t) \/ HandleEof(t) \/ HandleDestroyed(t)
       PROVE  Saved'
  <2>1. \A u \in Ttys : stream'[u].mode = stream[u].mode
    BY <1>11, HandlingIs DEF HandleData, HandleEof, HandleDestroyed
  <2>2. QED
    BY <1>6, <1>11, <2>1 DEF HandleData, HandleEof, HandleDestroyed
<1>12. CASE ListenerReturns \/ ListenerThrows
  <2>1. listening # NoTty => listening \in Ttys
    BY DEF TypeInv
  <2>2. \A u \in Ttys : stream'[u].mode = stream[u].mode
    BY <1>12, <2>1, ReadingIs DEF ListenerReturns, ListenerThrows, io
  <2>3. QED
    BY <1>6, <1>12, <2>2 DEF ListenerReturns, ListenerThrows
<1>13. CASE Type \/ UNCHANGED vars
  BY <1>6, <1>13 DEF Type, vars
<1>14. QED
  BY <1>2, <1>3, <1>4, <1>5, <1>7, <1>8, <1>9, <1>10, <1>11, <1>12, <1>13
     DEF Next, App, Events

(* Switching the mode leaves the reads alone.                                *)
LEMMA RawModeKeeps ==
    ASSUME TypeInv, NEW t \in Ttys, RawModeOn(t) \/ RawModeOff(t)
    PROVE  \A u \in Ttys :
              /\ stream'[u].made = stream[u].made
              /\ stream'[u].array = stream[u].array
              /\ stream'[u].reads = stream[u].reads
<1>1. stream \in [Ttys -> StreamType]
  BY DEF TypeInv
<1>2. PICK z : /\ stream' = [stream EXCEPT ![t] = z]
               /\ z.made = stream[t].made /\ z.array = stream[t].array
               /\ z.reads = stream[t].reads
  <2>1. CASE RawModeOn(t)
    <3> DEFINE z == [stream[t] EXCEPT !.mode = 1, !.saved = term]
    <3>1. stream' = [stream EXCEPT ![t] = z]
      BY <2>1 DEF RawModeOn
    <3>2. /\ z.made = stream[t].made /\ z.array = stream[t].array
          /\ z.reads = stream[t].reads
      BY <1>1 DEF StreamType
    <3>3. QED
      BY <3>1, <3>2
  <2>2. CASE RawModeOff(t)
    <3> DEFINE z == [stream[t] EXCEPT !.mode = 0]
    <3>1. stream' = [stream EXCEPT ![t] = z]
      BY <2>2 DEF RawModeOff
    <3>2. /\ z.made = stream[t].made /\ z.array = stream[t].array
          /\ z.reads = stream[t].reads
      BY <1>1 DEF StreamType
    <3>3. QED
      BY <3>1, <3>2
  <2>3. QED
    BY <2>1, <2>2
<1>3. QED
  BY <1>1, <1>2

(* Every handler that is queued is counted.                                  *)
LEMMA CountedStep ==
    ASSUME TypeInv, Counted, [Next]_vars
    PROVE  Counted'
<1> DEFINE Fits(u) == /\ Cardinality(Of(ready', u)) <= stream'[u].reads
                      /\ ~stream'[u].made => /\ stream'[u].reads = 0
                                             /\ ~reader'[u].readable
                                             /\ listening' # u
<1>1. ASSUME \A u \in Ttys : Fits(u) PROVE Counted'
  <2>1. \A u \in Ttys : Queued(u)' = Of(ready', u)
    BY DEF Queued, Of
  <2>2. QED
    BY <1>1, <2>1 DEF Counted
<1>2. \A u \in Ttys :
        /\ Cardinality(Of(ready, u)) <= stream[u].reads
        /\ Cardinality(Of(ready, u)) \in Nat /\ stream[u].reads \in Nat
        /\ ~stream[u].made => /\ stream[u].reads = 0 /\ ~reader[u].readable
                              /\ listening # u
  BY Counts DEF Counted
<1>3. stream \in [Ttys -> StreamType] /\ reader \in [Ttys -> ReaderType]
  BY DEF TypeInv
<1>4. ready \in Seq(ResultType)
  BY DEF TypeInv
<1>5. CASE ready' = ready /\ listening' = listening /\ reader' = reader
           /\ \A u \in Ttys : /\ stream'[u].reads = stream[u].reads
                              /\ stream'[u].made = stream[u].made
  BY <1>1, <1>2, <1>5
<1>6. ASSUME NEW t \in Ttys, Create(t) PROVE Counted'
  <2>1. /\ ready' = ready /\ listening' = listening
        /\ stream' = [stream EXCEPT ![t].made = TRUE, ![t].open = TRUE]
        /\ \A u \in Ttys : u # t => reader'[u] = reader[u]
    BY <1>3, <1>6 DEF Create
  <2>2. /\ stream'[t].made
        /\ \A u \in Ttys : /\ stream'[u].reads = stream[u].reads
                           /\ u # t => stream'[u].made = stream[u].made
    BY <1>3, <2>1 DEF StreamType
  <2>3. \A u \in Ttys : Fits(u)
    BY <1>2, <2>1, <2>2
  <2>4. QED
    BY <1>1, <2>3
<1>7. ASSUME NEW t \in Ttys, RawModeOn(t) \/ RawModeOff(t) PROVE Counted'
  <2>1. \A u \in Ttys : /\ stream'[u].reads = stream[u].reads
                        /\ stream'[u].made = stream[u].made
    BY <1>7, RawModeKeeps
  <2>2. QED
    BY <1>5, <1>7, <2>1 DEF RawModeOn, RawModeOff, lua
<1>8. ASSUME NEW t \in Ttys, Pause(t) PROVE Counted'
  <2>1. \A u \in Ttys : reader'[u].readable = reader[u].readable
    BY <1>3, <1>8 DEF Pause, ReaderType
  <2>2. \A u \in Ttys : Fits(u)
    BY <1>2, <1>8, <2>1 DEF Pause, io
  <2>3. QED
    BY <1>1, <2>2
<1>9. ASSUME NEW t \in Ttys, Resume(t) PROVE Counted'
  <2>1. \A u \in Ttys : reader'[u].readable = reader[u].readable
    BY <1>3, <1>9 DEF Resume, ReaderType
  <2>2. /\ stream' = Reading(t) /\ ready' = ready /\ listening' = listening
        /\ reader[t].readable
    BY <1>9 DEF Resume
  <2>3. \A u \in Ttys : Fits(u)
    BY <1>2, <2>1, <2>2, ReadingIs
  <2>4. QED
    BY <1>1, <2>3
<1>10. ASSUME NEW t \in Ttys, Destroy(t) PROVE Counted'
  <2>1. /\ ready' = ready \o Aborted(t, InFlight(t)) /\ listening' = listening
        /\ stream' = [stream EXCEPT ![t].open = FALSE]
        /\ reader' = [reader EXCEPT ![t].readable = FALSE, ![t].handle = FALSE]
    BY <1>10 DEF Destroy, Aborted
  <2>2. \A u \in Ttys : /\ stream'[u].reads = stream[u].reads
                        /\ stream'[u].made = stream[u].made
    BY <1>3, <2>1 DEF StreamType
  <2>3. \A u \in Ttys : reader'[u].readable => reader[u].readable
    BY <1>3, <2>1 DEF ReaderType
  <2>4. /\ Cardinality(Of(ready', t)) = stream[t].reads
        /\ \A u \in Ttys : u # t => Of(ready', u) = Of(ready, u)
    <3> DEFINE n == InFlight(t)
    <3>1. n \in Nat /\ n = stream[t].reads - Cardinality(Of(ready, t))
      BY Counts
    <3> HIDE DEF n
    <3>2. ready' = ready \o Aborted(t, n)
      BY <2>1 DEF n
    <3>3. Cardinality(Of(ready', t)) = Cardinality(Of(ready, t)) + n
      BY <1>4, <3>1, <3>2, OfAborted
    <3>4. \A u \in Ttys : u # t => Of(ready', u) = Of(ready, u)
      BY <1>4, <3>1, <3>2, OfAborted
    <3>5. Cardinality(Of(ready, t)) \in Nat /\ stream[t].reads \in Nat
      BY <1>2
    <3>6. Cardinality(Of(ready', t)) = stream[t].reads
      BY <3>1, <3>3, <3>5
    <3>7. QED
      BY <3>4, <3>6
  <2>5. listening' = listening
    BY <2>1
  <2>6. \A u \in Ttys : Fits(u)
    <3> TAKE u \in Ttys
    <3>1. CASE u = t
      BY <1>2, <2>2, <2>3, <2>4, <2>5, <3>1
    <3>2. CASE u # t
      BY <1>2, <2>2, <2>3, <2>4, <2>5, <3>2
    <3>3. QED
      BY <3>1, <3>2
  <2>7. QED
    BY <1>1, <2>6
<1>11. ASSUME NEW t \in Ttys, ReadData(t) \/ ReadEof(t) PROVE Counted'
  <2>1. PICK r \in {"data", "eof"} : ready' = Append(ready, [tty |-> t, result |-> r])
    BY <1>11 DEF ReadData, ReadEof
  <2>2. InFlight(t) > 0 /\ reader' = reader /\ listening' = listening
    BY <1>11 DEF ReadData, ReadEof, lua
  <2>3. \A u \in Ttys : /\ stream'[u].reads = stream[u].reads
                        /\ stream'[u].made = stream[u].made
    <3>1. CASE ReadData(t)
      BY <1>3, <3>1 DEF ReadData, StreamType
    <3>2. CASE ReadEof(t)
      BY <3>2 DEF ReadEof, lua
    <3>3. QED
      BY <1>11, <3>1, <3>2
  <2> DEFINE e == [tty |-> t, result |-> r]
  <2>4. e \in ResultType /\ e.tty = t
    BY DEF ResultType
  <2> HIDE DEF e
  <2>5. /\ Cardinality(Of(ready', t)) = Cardinality(Of(ready, t)) + 1
        /\ \A u \in Ttys : u # t => Of(ready', u) = Of(ready, u)
    BY <1>4, <2>1, <2>4, OfAppend DEF e
  <2>6. Cardinality(Of(ready, t)) + 1 <= stream[t].reads
    BY <1>2, <2>2, Counts
  <2>7. \A u \in Ttys : Fits(u)
    BY <1>2, <2>2, <2>3, <2>5, <2>6
  <2>8. QED
    BY <1>1, <2>7
<1>12. ASSUME NEW t \in Ttys, HandleData(t) \/ HandleEof(t) \/ HandleDestroyed(t)
       PROVE  Counted'
  <2>1. /\ stream[t].reads > 0
        /\ \A u \in Ttys :
                /\ stream'[u].made = stream[u].made
                /\ u # t => stream'[u].reads = stream[u].reads
                /\ Cardinality(Of(ready', u)) <= stream'[u].reads
    BY <1>12, HandlingIs DEF HandleData, HandleEof, HandleDestroyed
  <2>2. \A u \in Ttys : reader'[u].readable => reader[u].readable
    BY <1>3, <1>12 DEF HandleData, HandleEof, HandleDestroyed, lua, ReaderType
  <2>3. listening' = listening \/ listening' = t
    BY <1>12 DEF HandleData, HandleEof, HandleDestroyed, lua
  <2>4. stream[t].made
    BY <1>2, <2>1
  <2>5. \A u \in Ttys : Fits(u)
    BY <1>2, <2>1, <2>2, <2>3, <2>4
  <2>6. QED
    BY <1>1, <2>5
<1>13. CASE ListenerReturns
  <2>1. /\ listening \in Ttys /\ stream' \in {Reading(listening), stream}
        /\ listening' = NoTty /\ reader' = reader /\ ready' = ready
    BY <1>13 DEF ListenerReturns, TypeInv
  <2>2. \A u \in Ttys : listening' # u
    BY <2>1, NoTtyAssumption
  <2>3. stream[listening].made
    BY <1>2, <2>1
  <2>4. \A u \in Ttys : Fits(u)
    BY <1>2, <2>1, <2>2, <2>3, ReadingIs
  <2>5. QED
    BY <1>1, <2>4
<1>14. CASE ListenerThrows
  <2>1. listening' = NoTty /\ reader' = reader /\ ready' = ready /\ stream' = stream
    BY <1>14 DEF ListenerThrows, io
  <2>2. \A u \in Ttys : listening' # u
    BY <2>1, NoTtyAssumption
  <2>3. QED
    BY <1>1, <1>2, <2>1, <2>2
<1>15. ASSUME NEW t \in Ttys, EmitClose(t) PROVE Counted'
  BY <1>5, <1>15 DEF EmitClose, io
<1>16. CASE Reset \/ Exit \/ Type \/ UNCHANGED vars
  BY <1>5, <1>16 DEF Reset, Exit, Type, vars, lua, io
<1>17. QED
  BY <1>6, <1>7, <1>8, <1>9, <1>10, <1>11, <1>12, <1>13, <1>14, <1>15, <1>16
     DEF Next, App, Events

(* A stream that is not paused reads on.                                     *)
LEMMA FlowingStep ==
    ASSUME TypeInv, Counted, Flowing, [Next]_vars
    PROVE  Flowing'
<1> DEFINE Flows(u) == reader'[u].readable =>
               /\ reader'[u].handle
               /\ ~reader'[u].paused /\ listening' # u /\ u \notin hist'.threw
                      => stream'[u].reads > 0
<1>1. stream \in [Ttys -> StreamType] /\ reader \in [Ttys -> ReaderType]
  BY DEF TypeInv
<1>2. \A u \in Ttys : reader[u].readable =>
               /\ reader[u].handle
               /\ ~reader[u].paused /\ listening # u /\ u \notin hist.threw
                      => stream[u].reads > 0
  BY DEF Flowing
<1>3. ASSUME listening' = listening, hist'.threw = hist.threw,
             \A u \in Ttys :
                /\ stream'[u].reads = stream[u].reads
                /\ reader'[u].readable =>
                     /\ reader[u].readable /\ reader'[u].handle = reader[u].handle
                     /\ ~reader'[u].paused => ~reader[u].paused
      PROVE  Flowing'
  BY <1>2, <1>3 DEF Flowing
<1>4. ASSUME NEW t \in Ttys, Create(t) PROVE Flowing'
  <2>1. /\ listening' = listening /\ hist'.threw = hist.threw
        /\ reader'[t] = [paused |-> TRUE, readable |-> TRUE, handle |-> TRUE]
        /\ \A u \in Ttys : u # t => reader'[u] = reader[u]
    BY <1>1, <1>4, HistoryFields DEF Create
  <2>2. \A u \in Ttys : stream'[u].reads = stream[u].reads
    BY <1>1, <1>4 DEF Create, StreamType
  <2>3. \A u \in Ttys : Flows(u)
    BY <1>2, <2>1, <2>2
  <2>4. QED
    BY <2>3 DEF Flowing
<1>5. ASSUME NEW t \in Ttys, RawModeOn(t) \/ RawModeOff(t) PROVE Flowing'
  <2>1. \A u \in Ttys : stream'[u].reads = stream[u].reads
    BY <1>5, RawModeKeeps
  <2>2. QED
    BY <1>3, <1>5, <2>1, HistoryFields DEF RawModeOn, RawModeOff, lua
<1>6. ASSUME NEW t \in Ttys, Pause(t) PROVE Flowing'
  <2>1. \A u \in Ttys : /\ reader'[u].readable = reader[u].readable
                        /\ reader'[u].handle = reader[u].handle
                        /\ ~reader'[u].paused => ~reader[u].paused
    BY <1>1, <1>6 DEF Pause, ReaderType
  <2>2. QED
    BY <1>3, <1>6, <2>1, HistoryFields DEF Pause, io
<1>7. ASSUME NEW t \in Ttys, Resume(t) PROVE Flowing'
  <2>1. \A u \in Ttys : /\ reader'[u].readable = reader[u].readable
                        /\ reader'[u].handle = reader[u].handle
                        /\ u # t => reader'[u].paused = reader[u].paused
    BY <1>1, <1>7 DEF Resume, ReaderType
  <2>2. hist'.threw = hist.threw
    BY <1>7 DEF Resume, TypeInv, HistoryType
  <2>3. stream' = Reading(t) /\ listening' = listening
    BY <1>7 DEF Resume
  <2>4. stream[t].reads \in Nat
    BY Counts
  <2>5. \A u \in Ttys : Flows(u)
    BY <1>2, <2>1, <2>2, <2>3, <2>4, ReadingIs
  <2>6. QED
    BY <2>5 DEF Flowing
<1>8. ASSUME NEW t \in Ttys, Destroy(t) PROVE Flowing'
  <2>1. /\ ~reader'[t].readable
        /\ \A u \in Ttys : u # t => reader'[u] = reader[u]
    BY <1>1, <1>8 DEF Destroy, ReaderType
  <2>2. \A u \in Ttys : stream'[u].reads = stream[u].reads
    BY <1>1, <1>8 DEF Destroy, StreamType
  <2>3. QED
    BY <1>3, <1>8, <2>1, <2>2, HistoryFields DEF Destroy
<1>9. ASSUME NEW t \in Ttys, ReadData(t) \/ ReadEof(t) PROVE Flowing'
  <2>1. \A u \in Ttys : stream'[u].reads = stream[u].reads
    BY <1>1, <1>9 DEF ReadData, ReadEof, StreamType
  <2>2. QED
    BY <1>3, <1>9, <2>1 DEF ReadData, ReadEof, lua
<1>10. ASSUME NEW t \in Ttys, HandleData(t) PROVE Flowing'
  <2>1. /\ listening = NoTty /\ listening' = t /\ reader' = reader
        /\ hist'.threw = hist.threw
    BY <1>10 DEF HandleData, Handling, TypeInv, HistoryType
  <2>2. \A u \in Ttys : u # t => stream'[u].reads = stream[u].reads
    BY <1>10, HandlingIs DEF HandleData
  <2>3. \A u \in Ttys : listening # u
    BY <2>1, NoTtyAssumption
  <2>4. \A u \in Ttys : Flows(u)
    BY <1>2, <2>1, <2>2, <2>3
  <2>5. QED
    BY <2>4 DEF Flowing
<1>11. ASSUME NEW t \in Ttys, HandleEof(t) \/ HandleDestroyed(t) PROVE Flowing'
  <2>1. \A u \in Ttys : u # t => stream'[u].reads = stream[u].reads
    BY <1>11, HandlingIs DEF HandleEof, HandleDestroyed
  <2>2. ~reader'[t].readable /\ \A u \in Ttys : u # t => reader'[u] = reader[u]
    <3>1. CASE HandleEof(t)
      BY <1>1, <3>1 DEF HandleEof, ReaderType
    <3>2. CASE HandleDestroyed(t)
      BY <1>2, <3>2 DEF HandleDestroyed, lua
    <3>3. QED
      BY <1>11, <3>1, <3>2
  <2>3. listening' = listening /\ hist'.threw = hist.threw
    BY <1>11, HistoryOf DEF HandleEof, HandleDestroyed, lua
  <2>4. \A u \in Ttys : Flows(u)
    BY <1>2, <2>1, <2>2, <2>3
  <2>5. QED
    BY <2>4 DEF Flowing
<1>12. CASE ListenerReturns
  <2>1. /\ listening \in Ttys /\ listening' = NoTty /\ reader' = reader
        /\ hist'.threw = hist.threw
        /\ stream' = IF ReadsOn(listening) THEN Reading(listening) ELSE stream
    BY <1>12, HistoryReturns DEF ListenerReturns
  <2>2. \A u \in Ttys : Flows(u)
    <3> TAKE u \in Ttys
    <3>1. CASE u = listening
      <4>1. stream[u].reads \in Nat
        BY Counts
      <4>2. QED
        BY <1>2, <2>1, <3>1, <4>1, ReadingIs DEF ReadsOn
    <3>2. CASE u # listening
      BY <1>2, <2>1, <3>2, ReadingIs
    <3>3. QED
      BY <3>1, <3>2
  <2>3. QED
    BY <2>2 DEF Flowing
<1>13. CASE ListenerThrows
  <2>1. /\ reader' = reader /\ stream' = stream
        /\ hist'.threw = hist.threw \cup {listening}
    BY <1>13 DEF ListenerThrows, io, TypeInv, HistoryType
  <2>2. \A u \in Ttys : Flows(u)
    BY <1>2, <2>1
  <2>3. QED
    BY <2>2 DEF Flowing
<1>14. ASSUME NEW t \in Ttys, EmitClose(t) PROVE Flowing'
  BY <1>3, <1>14 DEF EmitClose, io
<1>15. CASE Reset \/ Exit
  BY <1>3, <1>15, HistoryFields DEF Reset, Exit, lua, io
<1>16. CASE Type
  <2>1. hist'.threw = hist.threw
    BY <1>16 DEF Type, TypeInv, HistoryType
  <2>2. QED
    BY <1>3, <1>16, <2>1 DEF Type, lua
<1>17. CASE UNCHANGED vars
  BY <1>3, <1>17 DEF vars
<1>18. QED
  BY <1>4, <1>5, <1>6, <1>7, <1>8, <1>9, <1>10, <1>11, <1>12, <1>13, <1>14,
     <1>15, <1>16, <1>17 DEF Next, App, Events

------------------------------------------------------------------------------
(* The reads of a stream and the order of the chunks.                        *)

(* A stream that does not race has one read under way at most.               *)
LEMMA OneReadStep ==
    ASSUME TypeInv, Counted, OneRead, [Next]_vars
    PROVE  OneRead'
<1>1. \A u \in Ttys : stream[u].reads \in Nat
  BY Counts
<1>2. /\ stream \in [Ttys -> StreamType] /\ reader \in [Ttys -> ReaderType]
      /\ hist.raced \subseteq hist'.raced /\ \A u \in Ttys : u # NoTty
  BY RacedStays, NoTtyAssumption DEF TypeInv
<1>3. CASE /\ \A u \in Ttys :
                 /\ stream'[u].reads = stream[u].reads
                 /\ reader'[u].paused =>
                       reader[u].paused \/ stream[u].reads = 0 \/ u \in hist'.halted
           /\ listening' = listening \/ listening' = NoTty
           /\ hist.halted \subseteq hist'.halted
  BY <1>1, <1>2, <1>3 DEF OneRead
<1>4. ASSUME NEW t \in Ttys, Create(t) PROVE OneRead'
  <2>1. \A u \in Ttys : stream'[u].reads = stream[u].reads
    BY <1>2, <1>4 DEF Create, StreamType
  <2>2. stream[t].reads = 0 /\ \A u \in Ttys : u # t => reader'[u] = reader[u]
    BY <1>2, <1>4 DEF Create, Counted
  <2>3. hist'.halted = hist.halted /\ listening' = listening
    BY <1>4, HistoryFields DEF Create
  <2>4. QED
    BY <1>3, <2>1, <2>2, <2>3
<1>5. ASSUME NEW t \in Ttys, Destroy(t) PROVE OneRead'
  <2>1. \A u \in Ttys : /\ stream'[u].reads = stream[u].reads
                        /\ reader'[u].paused = reader[u].paused
    BY <1>2, <1>5 DEF Destroy, StreamType, ReaderType
  <2>2. hist'.halted = hist.halted /\ listening' = listening
    BY <1>5, HistoryFields DEF Destroy
  <2>3. QED
    BY <1>3, <2>1, <2>2
<1>6. ASSUME NEW t \in Ttys, ReadData(t) \/ ReadEof(t) PROVE OneRead'
  <2>1. \A u \in Ttys : stream'[u].reads = stream[u].reads
    <3>1. CASE ReadData(t)
      BY <1>2, <3>1 DEF ReadData, StreamType
    <3>2. CASE ReadEof(t)
      BY <3>2 DEF ReadEof
    <3>3. QED
      BY <1>6, <3>1, <3>2
  <2>2. hist' = hist /\ listening' = listening /\ reader' = reader
    BY <1>6 DEF ReadData, ReadEof, lua
  <2>3. QED
    BY <1>3, <2>1, <2>2
<1>7. ASSUME NEW t \in Ttys, RawModeOn(t) \/ RawModeOff(t) PROVE OneRead'
  <2>1. /\ hist'.halted = hist.halted
        /\ listening' = listening /\ reader' = reader
    BY <1>7, HistoryFields DEF RawModeOn, RawModeOff, lua
  <2>2. QED
    BY <1>3, <1>7, <2>1, RawModeKeeps
<1>8. ASSUME NEW t \in Ttys, Pause(t) PROVE OneRead'
  <2>1. /\ stream' = stream /\ listening' = listening
        /\ \A u \in Ttys : u # t => reader'[u] = reader[u]
    BY <1>2, <1>8 DEF Pause, io
  <2>2. /\ hist.halted \subseteq hist'.halted
        /\ stream[t].reads > 0 => t \in hist'.halted
    BY <1>8, HistoryOf
  <2>3. \A u \in Ttys : reader'[u].paused =>
            reader[u].paused \/ stream[u].reads = 0 \/ u \in hist'.halted
    BY <1>1, <2>1, <2>2
  <2>4. QED
    BY <1>3, <2>1, <2>2, <2>3
<1>9. ASSUME NEW t \in Ttys, Resume(t) PROVE OneRead'
  <2>1. /\ stream' = Reading(t) /\ listening' = listening /\ reader[t].paused
        /\ ~reader'[t].paused
        /\ \A u \in Ttys : u # t => reader'[u] = reader[u]
    BY <1>2, <1>9 DEF Resume, ReaderType
  <2>2. /\ hist.halted \subseteq hist'.halted
        /\ listening = t => t \in hist'.halted
        /\ t \in hist.halted => t \in hist'.raced
    BY <1>9, HistoryOf
  <2>3. t \notin hist'.raced => stream[t].reads = 0
    BY <1>1, <1>2, <2>1, <2>2 DEF OneRead
  <2>4. QED
    BY <1>1, <1>2, <2>1, <2>2, <2>3, ReadingIs, SMTT(30) DEF OneRead
<1>10. ASSUME NEW t \in Ttys, HandleData(t) \/ HandleEof(t) \/ HandleDestroyed(t)
       PROVE  OneRead'
  <2>1. /\ stream[t].reads > 0 /\ stream'[t].reads = stream[t].reads - 1
        /\ \A u \in Ttys : u # t => stream'[u].reads = stream[u].reads
        /\ listening = NoTty
    BY <1>10, HandlingIs DEF HandleData, HandleEof, HandleDestroyed
  <2>2. \A u \in Ttys : reader'[u].paused = reader[u].paused
    BY <1>2, <1>10 DEF HandleData, HandleEof, HandleDestroyed, lua, ReaderType
  <2>3. \A u \in Ttys : u # t => (u \in hist'.halted <=> u \in hist.halted)
    BY <1>10, HistoryOf DEF HandleDestroyed
  <2>4. listening' = NoTty \/ listening' = t
    BY <1>10, <2>1 DEF HandleData, HandleEof, HandleDestroyed, lua
  <2>5. t \notin hist'.raced => stream'[t].reads = 0
    BY <1>1, <1>2, <2>1 DEF OneRead
  <2>6. QED
    BY <1>1, <1>2, <2>1, <2>2, <2>3, <2>4, <2>5 DEF OneRead
<1>11. CASE ListenerReturns
  <2> DEFINE t == listening
  <2>1. /\ t \in Ttys /\ hist'.halted = hist.halted
        /\ ReadsOn(t) /\ t \in hist.halted => t \in hist'.raced
    BY <1>11, HistoryReturns
  <2>2. /\ stream' = IF ReadsOn(t) THEN Reading(t) ELSE stream
        /\ listening' = NoTty /\ reader' = reader
    BY <1>11 DEF ListenerReturns
  <2>3. CASE ~ReadsOn(t)
    BY <1>3, <2>1, <2>2, <2>3
  <2>4. CASE ReadsOn(t)
    <3>1. t \notin hist'.raced => stream[t].reads = 0
      BY <1>1, <1>2, <2>1, <2>4 DEF OneRead
    <3>2. ~reader[t].paused
      BY <2>4 DEF ReadsOn
    <3> HIDE DEF t
    <3>3. QED
      BY <1>1, <1>2, <2>1, <2>2, <2>4, <3>1, <3>2, ReadingIs DEF OneRead
  <2>5. QED
    BY <2>3, <2>4
<1>12. CASE ListenerThrows
  <2>1. /\ listening' = NoTty /\ stream' = stream /\ reader' = reader
        /\ hist'.halted = hist.halted
    BY <1>12 DEF ListenerThrows, io, TypeInv, HistoryType
  <2>2. QED
    BY <1>3, <2>1
<1>13. CASE Reset \/ Exit \/ Type \/ UNCHANGED vars \/ \E t \in Ttys : EmitClose(t)
  <2>1. listening' = listening /\ stream' = stream /\ reader' = reader
    BY <1>13 DEF Reset, Exit, Type, EmitClose, vars, lua, io
  <2>2. hist'.halted = hist.halted
    BY <1>13, HistoryFields DEF Reset, Exit, Type, EmitClose, vars, TypeInv, HistoryType
  <2>3. QED
    BY <1>3, <2>1, <2>2
<1>14. QED
  BY <1>4, <1>5, <1>6, <1>7, <1>8, <1>9, <1>10, <1>11, <1>12, <1>13
     DEF Next, App, Events

(* Who got what.                                                             *)
LEMMA GotIs ==
    ASSUME TypeInv
    PROVE  /\ hist.got \in Seq(GotType) /\ Len(hist.got) \in Nat
           /\ DOMAIN hist.got = 1..Len(hist.got)
           /\ \A g \in DOMAIN hist.got : /\ hist.got[g].tty \in Ttys
                                         /\ hist.got[g].chunk \in Nat
<1>1. hist.got \in Seq(GotType)
  BY HistoryFields
<1>2. /\ Len(hist.got) \in Nat /\ DOMAIN hist.got = 1..Len(hist.got)
      /\ \A g \in DOMAIN hist.got : hist.got[g] \in GotType
  BY <1>1
<1>3. QED
  BY <1>1, <1>2 DEF GotType

(* The order of the chunks does not change with what is not a chunk.         *)
LEMMA OrderSame ==
    ASSUME TypeInv, TypeInv', Chunks, NeverBack, InOrder,
           hist'.got = hist.got, hist'.typed = hist.typed,
           hist.raced \subseteq hist'.raced, input' = input \/ input' = <<>>,
           \A t \in Ttys : stream'[t].array = stream[t].array,
           NEW d \in {0, 1},
           \A k \in DOMAIN ready' : ready'[k].result = "data" =>
               k + d \in DOMAIN ready /\ ready'[k] = ready[k + d]
    PROVE  Chunks' /\ NeverBack' /\ InOrder'
<1>1. DOMAIN <<>> = {}
  OBVIOUS
<1>2. \A k \in DOMAIN ready : ready[k].tty \in Ttys
  BY OfWhom DEF TypeInv
<1>3. /\ Rising(input') /\ \A x : Above(input, x) => Above(input', x)
      /\ \A i \in DOMAIN input' : input'[i] <= hist'.typed
  BY <1>1 DEF Chunks, Rising, Above
<1>4. Chunks'
  BY <1>3, GotIs DEF Chunks
<1>5. NeverBack'
  BY DEF NeverBack
<1>6. ASSUME NEW k \in DOMAIN ready', Waiting(k)'
      PROVE  /\ k + d \in DOMAIN ready /\ Waiting(k + d)
             /\ Held(k)' = Held(k + d)
  <2>1. k + d \in DOMAIN ready /\ ready'[k] = ready[k + d]
    BY <1>6 DEF Waiting
  <2>2. ready[k + d].tty \in Ttys
    BY <1>2, <2>1
  <2>3. QED
    BY <1>6, <2>1, <2>2 DEF Waiting, Held
<1>7. \A j, k \in DOMAIN ready' : j < k /\ Waiting(j)' /\ Waiting(k)'
                                   => Held(j)' < Held(k)'
  <2> TAKE j, k \in DOMAIN ready'
  <2> HAVE j < k /\ Waiting(j)' /\ Waiting(k)'
  <2>1. /\ j + d \in DOMAIN ready /\ Waiting(j + d) /\ Held(j)' = Held(j + d)
        /\ k + d \in DOMAIN ready /\ Waiting(k + d) /\ Held(k)' = Held(k + d)
    BY <1>6
  <2>2. ready' \in Seq(ResultType)
    BY DEF TypeInv
  <2>3. j \in Int /\ k \in Int
    BY <2>2
  <2>4. j + d < k + d
    BY <2>3
  <2>5. QED
    BY <2>1, <2>4 DEF InOrder
<1>8. QED
  BY <1>4, <1>5, <1>6, <1>7 DEF InOrder

(* A chunk is typed.                                                         *)
LEMMA OrderTyped ==
    ASSUME TypeInv, Chunks, NeverBack, InOrder, Type
    PROVE  Chunks' /\ NeverBack' /\ InOrder'
<1> DEFINE n == hist.typed + 1
<1>1. /\ input \in Seq(Nat) /\ hist.typed \in Nat /\ hist \in HistoryType
      /\ \A t \in Ttys : stream[t].array \in Nat
  BY HistoryFields DEF TypeInv, StreamType
<1>2. /\ hist'.typed = n /\ hist'.got = hist.got /\ input' = Append(input, n)
      /\ hist'.raced = hist.raced /\ ready' = ready /\ stream' = stream
  BY <1>1 DEF Type, HistoryType
<1>3. /\ DOMAIN input = 1..Len(input) /\ Len(input) \in Nat
      /\ DOMAIN input' = 1..Len(input) + 1 /\ input'[Len(input) + 1] = n
      /\ \A i \in 1..Len(input) : input'[i] = input[i] /\ input[i] \in Nat
  BY <1>1, <1>2
<1>4. n \in Nat /\ hist.typed < n
  BY <1>1
<1> HIDE DEF n
<1>5. \A i \in 1..Len(input) : input[i] < n
  <2> TAKE i \in 1..Len(input)
  <2>1. input[i] \in Nat /\ input[i] <= hist.typed
    BY <1>3 DEF Chunks
  <2>2. QED
    BY <1>1, <1>4, <2>1
<1>6. Rising(input')
  <2>1. \A i, j \in 1..Len(input) : i < j => input[i] < input[j]
    BY <1>3 DEF Chunks, Rising
  <2>2. ASSUME NEW i \in 1..Len(input) + 1, NEW j \in 1..Len(input) + 1, i < j
        PROVE  input'[i] < input'[j]
    <3>1. i \in 1..Len(input) /\ (j \in 1..Len(input) \/ j = Len(input) + 1)
      BY <1>3, <2>2
    <3>2. QED
      BY <1>3, <1>5, <2>1, <2>2, <3>1
  <2>3. QED
    BY <1>3, <2>2 DEF Rising
<1>7. \A i \in DOMAIN input' : input'[i] <= n
  <2> SUFFICES ASSUME NEW i \in 1..Len(input) + 1 PROVE input'[i] <= n
    BY <1>3
  <2>1. CASE i \in 1..Len(input)
    BY <1>3, <1>4, <1>5, <2>1
  <2>2. CASE i = Len(input) + 1
    BY <1>3, <1>4, <2>2
  <2>3. QED
    BY <1>3, <2>1, <2>2
<1>8. ASSUME NEW t \in Ttys
      PROVE  Above(input', stream[t].array) /\ stream[t].array <= n
  <2> DEFINE x == stream[t].array
  <2>1. x \in Nat /\ x <= hist.typed /\ \A i \in 1..Len(input) : x < input[i]
    BY <1>1, <1>3 DEF Chunks, Above
  <2> HIDE DEF x
  <2>2. x < n /\ x <= n
    BY <1>1, <1>4, <2>1
  <2>3. QED
    BY <1>3, <2>1, <2>2 DEF Above, x
<1>9. Chunks'
  BY <1>2, <1>6, <1>7, <1>8 DEF Chunks
<1>10. QED
  BY <1>2, <1>9 DEF NeverBack, InOrder, Waiting, Held

(* A read takes the first chunk: a stream that does not race has no other    *)
(* chunk in m_inputArray that waits.                                         *)
LEMMA OrderRead ==
    ASSUME TypeInv, Counted, OneRead, Chunks, NeverBack, InOrder,
           NEW t \in Ttys, ReadData(t)
    PROVE  Chunks' /\ NeverBack' /\ InOrder'
<1> DEFINE x == Head(input)
           e == [tty |-> t, result |-> "data"]
<1>1. /\ input \in Seq(Nat) /\ input # <<>> /\ hist' = hist
      /\ input' = Tail(input) /\ stream \in [Ttys -> StreamType]
      /\ stream' = [stream EXCEPT ![t].array = x]
      /\ ready' = Append(ready, e) /\ ready \in Seq(ResultType)
  BY DEF ReadData, TypeInv
<1>2. /\ stream'[t].array = x
      /\ \A u \in Ttys : u # t => stream'[u].array = stream[u].array
      /\ \A u \in Ttys : stream[u].array \in Nat
  BY <1>1 DEF StreamType
<1>3. /\ DOMAIN input = 1..Len(input) /\ Len(input) \in Nat /\ Len(input) >= 1
      /\ DOMAIN input' = 1..(Len(input) - 1) /\ x = input[1] /\ x \in Nat
      /\ \A i \in DOMAIN input' : i + 1 \in DOMAIN input /\ input'[i] = input[i + 1]
  BY <1>1, HeadTailProperties
<1>4. PICK n : n = Len(ready) + 1
  OBVIOUS
<1>5. /\ e.tty = t /\ DOMAIN ready = 1..Len(ready) /\ Len(ready) \in Nat
      /\ DOMAIN ready' = 1..n /\ ready'[n] = e
      /\ \A k \in 1..Len(ready) : ready'[k] = ready[k] /\ ready[k].tty \in Ttys
  BY <1>1, <1>4, OfWhom
<1> HIDE DEF x, e
<1>6. Rising(input') /\ Above(input', x) /\ x <= hist.typed
  BY <1>3 DEF Chunks, Rising, Above
<1>7. \A u \in Ttys : stream[u].array < x
  BY <1>3 DEF Chunks, Above
<1>8. ASSUME NEW u \in Ttys
      PROVE  Above(input', stream'[u].array) /\ stream'[u].array <= hist.typed
  <2>1. CASE u = t
    BY <1>2, <1>6, <2>1
  <2>2. CASE u # t
    BY <1>2, <1>3, <2>2 DEF Chunks, Above
  <2>3. QED
    BY <2>1, <2>2
<1>9. ASSUME NEW g \in DOMAIN hist.got
      PROVE  hist.got[g].chunk <= stream'[hist.got[g].tty].array
  <2>1. /\ hist.got[g].tty \in Ttys /\ hist.got[g].chunk \in Nat
        /\ hist.got[g].chunk <= stream[hist.got[g].tty].array
    BY GotIs DEF Chunks
  <2>2. QED
    BY <1>2, <1>3, <1>7, <2>1
<1>10. \A i \in DOMAIN input' : input'[i] <= hist.typed
  BY <1>3 DEF Chunks
<1>11. Chunks'
  BY <1>1, <1>6, <1>8, <1>9, <1>10 DEF Chunks
<1>12. \A k \in 1..Len(ready) : Waiting(k)' => /\ Waiting(k) /\ ready[k].tty # t
                                               /\ Held(k)' = Held(k)
  <2> SUFFICES ASSUME NEW k \in 1..Len(ready), Waiting(k)'
               PROVE  Waiting(k) /\ ready[k].tty # t /\ Held(k)' = Held(k)
    OBVIOUS
  <2>1. Waiting(k)
    BY <1>1, <1>5 DEF Waiting
  <2>2. ready[k].tty # t
    <3> SUFFICES ASSUME ready[k].tty = t PROVE FALSE
      OBVIOUS
    <3>1. k \in Of(ready, t) /\ t \notin hist.raced
      BY <1>5, <2>1 DEF Of, Waiting
    <3>2. Cardinality(Of(ready, t)) # 0
      BY <1>1, <3>1, OfFinite
    <3>3. stream[t].reads <= 1 /\ InFlight(t) > 0
      BY <3>1 DEF OneRead, ReadData
    <3>4. QED
      BY <3>2, <3>3, Counts
  <2>3. QED
    BY <1>2, <1>5, <2>1, <2>2 DEF Held
<1>13. Held(n)' = x
  BY <1>2, <1>5 DEF Held
<1>14. \A k \in 1..Len(ready) : Held(k) < x
  BY <1>5, <1>7 DEF Held
<1>15. \A j, k \in DOMAIN ready' : j < k /\ Waiting(j)' /\ Waiting(k)'
                                    => Held(j)' < Held(k)'
  <2> SUFFICES ASSUME NEW j \in 1..n, NEW k \in 1..n, j < k, Waiting(j)', Waiting(k)'
               PROVE  Held(j)' < Held(k)'
    BY <1>5
  <2>1. j \in 1..Len(ready) /\ (k \in 1..Len(ready) \/ k = n)
    BY <1>5, <1>4
  <2>2. CASE k = n
    BY <1>12, <1>13, <1>14, <2>1, <2>2
  <2>3. CASE k \in 1..Len(ready)
    BY <1>5, <1>12, <2>1, <2>3 DEF InOrder
  <2>4. QED
    BY <2>1, <2>2, <2>3
<1>16. ASSUME NEW g \in DOMAIN hist.got, NEW k \in 1..n,
              hist.got[g].tty \notin hist.raced, Waiting(k)'
       PROVE  hist.got[g].chunk < Held(k)'
  <2>1. CASE k = n
    <3>1. /\ hist.got[g].tty \in Ttys /\ hist.got[g].chunk \in Nat
          /\ hist.got[g].chunk <= stream[hist.got[g].tty].array
      BY GotIs DEF Chunks
    <3>2. QED
      BY <1>2, <1>3, <1>7, <1>13, <2>1, <3>1
  <2>2. CASE k # n
    BY <1>5, <1>4, <1>12, <1>16, <2>2 DEF InOrder
  <2>3. QED
    BY <2>1, <2>2
<1>17. InOrder'
  BY <1>1, <1>5, <1>15, <1>16 DEF InOrder
<1>18. QED
  BY <1>1, <1>11, <1>17 DEF NeverBack

(* The listener gets the chunk that was read.                                *)
LEMMA OrderHandled ==
    ASSUME TypeInv, TypeInv', Counted, Chunks, NeverBack, InOrder,
           NEW t \in Ttys, HandleData(t)
    PROVE  Chunks' /\ NeverBack' /\ InOrder'
<1> DEFINE x == stream[t].array
           e == [tty |-> t, chunk |-> x]
           n == Len(hist.got) + 1
<1>1. /\ ready \in Seq(ResultType) /\ ready # <<>> /\ ready' = Tail(ready)
      /\ Head(ready) = [tty |-> t, result |-> "data"]
      /\ \A u \in Ttys : stream'[u].array = stream[u].array
  BY HandlingIs DEF HandleData, TypeInv
<1>2. /\ hist'.got = Append(hist.got, e) /\ hist'.typed = hist.typed
      /\ hist'.raced = hist.raced /\ input' = input
  BY HistoryOf DEF HandleData
<1>3. /\ \A k \in DOMAIN ready' : k + 1 \in DOMAIN ready /\ ready'[k] = ready[k + 1]
      /\ 1 \in DOMAIN ready /\ ready[1] = [tty |-> t, result |-> "data"]
      /\ \A k \in DOMAIN ready : ready[k].tty \in Ttys
      /\ DOMAIN ready' \subseteq Nat \ {0}
  <2>1. /\ \A k \in DOMAIN ready' : k + 1 \in DOMAIN ready /\ ready'[k] = ready[k + 1]
        /\ 1 \in DOMAIN ready /\ Head(ready) = ready[1]
    BY <1>1, OfTail
  <2>2. DOMAIN ready' \subseteq Nat \ {0}
    <3>1. ready' \in Seq(ResultType)
      BY DEF TypeInv
    <3>2. QED
      BY <3>1
  <2>3. QED
    BY <1>1, <2>1, <2>2, OfWhom
<1>4. e.tty = t /\ e.chunk = x /\ x \in Nat
  BY DEF TypeInv, StreamType
<1> HIDE DEF e
<1>5. /\ DOMAIN hist'.got = 1..n /\ hist'.got[n] = e
      /\ DOMAIN hist.got = 1..Len(hist.got) /\ Len(hist.got) \in Nat
      /\ \A g \in DOMAIN hist.got : /\ hist'.got[g] = hist.got[g]
                                    /\ hist.got[g].tty \in Ttys
  BY <1>2, GotIs
<1>6. \A g \in 1..n : g # n => g \in DOMAIN hist.got
  BY <1>5
<1>7. ASSUME NEW k \in DOMAIN ready', Waiting(k)'
      PROVE  /\ k + 1 \in DOMAIN ready /\ Waiting(k + 1) /\ Held(k)' = Held(k + 1)
             /\ k \in Nat /\ 1 < k + 1
  BY <1>1, <1>2, <1>3, <1>7 DEF Waiting, Held
<1>8. t \notin hist.raced => Waiting(1) /\ Held(1) = x
  BY <1>3 DEF Waiting, Held
<1>9. Chunks'
  <2>1. ASSUME NEW g \in 1..n
        PROVE  hist'.got[g].chunk <= stream'[hist'.got[g].tty].array
    <3>1. CASE g = n
      BY <1>1, <1>4, <1>5, <3>1
    <3>2. CASE g # n
      BY <1>1, <1>5, <1>6, <3>2 DEF Chunks
    <3>3. QED
      BY <3>1, <3>2
  <2>2. QED
    BY <1>1, <1>2, <1>5, <2>1 DEF Chunks
<1>10. ASSUME NEW g \in 1..n, NEW h \in 1..n, g < h,
              hist'.got[g].tty = hist'.got[h].tty
       PROVE  hist'.got[g].chunk <= hist'.got[h].chunk
  <2>1. g \in DOMAIN hist.got /\ (h = n \/ h \in DOMAIN hist.got)
    BY <1>5, <1>10
  <2>2. CASE h = n
    BY <1>4, <1>5, <1>10, <2>1, <2>2 DEF Chunks
  <2>3. CASE h \in DOMAIN hist.got
    BY <1>5, <1>10, <2>1, <2>3 DEF NeverBack
  <2>4. QED
    BY <2>1, <2>2, <2>3
<1>11. ASSUME NEW g \in 1..n, NEW h \in 1..n, g < h,
              {hist'.got[g].tty, hist'.got[h].tty} \cap hist.raced = {}
       PROVE  hist'.got[g].chunk < hist'.got[h].chunk
  <2>1. g \in DOMAIN hist.got /\ (h = n \/ h \in DOMAIN hist.got)
    BY <1>5, <1>11
  <2>2. CASE h = n
    <3>1. t \notin hist.raced /\ hist.got[g].tty \notin hist.raced
      BY <1>4, <1>5, <1>11, <2>1, <2>2
    <3>2. hist.got[g].chunk < x
      BY <1>3, <1>8, <2>1, <3>1 DEF InOrder
    <3>3. QED
      BY <1>4, <1>5, <2>1, <2>2, <3>2
  <2>3. CASE h \in DOMAIN hist.got
    BY <1>5, <1>11, <2>1, <2>3 DEF InOrder
  <2>4. QED
    BY <2>1, <2>2, <2>3
<1>12. ASSUME NEW g \in 1..n, NEW k \in DOMAIN ready',
              hist'.got[g].tty \notin hist.raced, Waiting(k)'
       PROVE  hist'.got[g].chunk < Held(k)'
  <2>1. /\ k + 1 \in DOMAIN ready /\ Waiting(k + 1) /\ Held(k)' = Held(k + 1)
        /\ 1 < k + 1
    BY <1>7, <1>12
  <2>2. CASE g = n
    BY <1>3, <1>4, <1>5, <1>8, <1>12, <2>1, <2>2 DEF InOrder
  <2>3. CASE g # n
    BY <1>5, <1>6, <1>12, <2>1, <2>3 DEF InOrder
  <2>4. QED
    BY <2>2, <2>3
<1>13. ASSUME NEW j \in DOMAIN ready', NEW k \in DOMAIN ready', j < k,
              Waiting(j)', Waiting(k)'
       PROVE  Held(j)' < Held(k)'
  <2>1. /\ j + 1 \in DOMAIN ready /\ Waiting(j + 1) /\ Held(j)' = Held(j + 1)
        /\ k + 1 \in DOMAIN ready /\ Waiting(k + 1) /\ Held(k)' = Held(k + 1)
        /\ j \in Nat /\ k \in Nat
    BY <1>7, <1>13
  <2>2. j + 1 < k + 1
    BY <1>13, <2>1
  <2>3. QED
    BY <2>1, <2>2 DEF InOrder
<1>14. NeverBack'
  BY <1>5, <1>10 DEF NeverBack
<1>15. InOrder'
  BY <1>2, <1>5, <1>11, <1>12, <1>13 DEF InOrder
<1>16. QED
  BY <1>9, <1>14, <1>15

(* Every step keeps the order.                                               *)
LEMMA OrderStep ==
    ASSUME TypeInv, TypeInv', Counted, OneRead, Chunks, NeverBack, InOrder, [Next]_vars
    PROVE  Chunks' /\ NeverBack' /\ InOrder'
<1> DEFINE Kept == Chunks' /\ NeverBack' /\ InOrder'
<1>1. /\ stream \in [Ttys -> StreamType] /\ ready \in Seq(ResultType)
      /\ ready' \in Seq(ResultType) /\ hist.raced \subseteq hist'.raced
  BY RacedStays DEF TypeInv
<1>2. CASE /\ hist'.got = hist.got /\ hist'.typed = hist.typed
           /\ input' = input \/ input' = <<>>
           /\ \A u \in Ttys : stream'[u].array = stream[u].array
           /\ \A k \in DOMAIN ready' : ready'[k].result = "data" =>
                 k \in DOMAIN ready /\ ready'[k] = ready[k]
  <2>1. \A k \in DOMAIN ready' : k + 0 = k
    BY <1>1
  <2>2. \A k \in DOMAIN ready' : ready'[k].result = "data" =>
                 k + 0 \in DOMAIN ready /\ ready'[k] = ready[k + 0]
    BY <1>2, <2>1
  <2> HIDE DEF Kept
  <2>3. 0 \in {0, 1}
    OBVIOUS
  <2>4. Kept
    BY <1>1, <1>2, <2>2, <2>3, OrderSame DEF Kept
  <2>5. QED
    BY <2>4 DEF Kept
<1>3. ASSUME NEW t \in Ttys, Create(t) PROVE Kept
  <2>1. \A u \in Ttys : stream'[u].array = stream[u].array
    BY <1>1, <1>3 DEF Create, StreamType
  <2>2. QED
    BY <1>2, <1>3, <2>1, HistoryFields DEF Create
<1>4. ASSUME NEW t \in Ttys, RawModeOn(t) \/ RawModeOff(t) PROVE Kept
  BY <1>2, <1>4, RawModeKeeps, HistoryFields DEF RawModeOn, RawModeOff
<1>5. ASSUME NEW t \in Ttys, Pause(t) \/ EmitClose(t) PROVE Kept
  BY <1>2, <1>5, HistoryOf DEF Pause, EmitClose, io
<1>6. ASSUME NEW t \in Ttys, Resume(t) PROVE Kept
  BY <1>2, <1>6, HistoryOf, ReadingIs DEF Resume
<1>7. ASSUME NEW t \in Ttys, Destroy(t) PROVE Kept
  <2>1. \A u \in Ttys : stream'[u].array = stream[u].array
    BY <1>1, <1>7 DEF Destroy, StreamType
  <2>2. ready' = ready \o Aborted(t, InFlight(t))
    BY <1>7 DEF Destroy, Aborted
  <2>3. \A k \in DOMAIN ready' :
           \/ k \in DOMAIN ready /\ ready'[k] = ready[k]
           \/ ready'[k] = [tty |-> t, result |-> "aborted"]
    BY <1>1, <2>2, Counts, OfAborted, ZenonT(40)
  <2>4. hist'.got = hist.got /\ hist'.typed = hist.typed /\ input' = input
    BY <1>7, HistoryFields DEF Destroy
  <2>5. QED
    BY <1>2, <2>1, <2>3, <2>4
<1>8. ASSUME NEW t \in Ttys, ReadData(t) PROVE Kept
  BY <1>8, OrderRead
<1>9. ASSUME NEW t \in Ttys, ReadEof(t) PROVE Kept
  <2> DEFINE e == [tty |-> t, result |-> "eof"]
  <2>1. /\ ready' = Append(ready, e) /\ hist' = hist /\ input' = input
        /\ stream' = stream
    BY <1>9 DEF ReadEof
  <2>2. e.result # "data" /\ e \in ResultType
    BY DEF ResultType
  <2> HIDE DEF e
  <2>3. \A k \in DOMAIN ready' :
           (k \in DOMAIN ready /\ ready'[k] = ready[k]) \/ ready'[k] = e
    BY <1>1, <2>1, <2>2
  <2>4. QED
    BY <1>2, <2>1, <2>2, <2>3
<1>10. ASSUME NEW t \in Ttys, HandleData(t) PROVE Kept
  BY <1>10, OrderHandled
<1>11. ASSUME NEW t \in Ttys, HandleEof(t) \/ HandleDestroyed(t) PROVE Kept
  <2>1. /\ ready # <<>> /\ ready' = Tail(ready)
        /\ \A u \in Ttys : stream'[u].array = stream[u].array
    BY <1>11, HandlingIs DEF HandleEof, HandleDestroyed
  <2>2. \A k \in DOMAIN ready' : k + 1 \in DOMAIN ready /\ ready'[k] = ready[k + 1]
    BY <1>1, <2>1, OfTail
  <2>3. hist'.got = hist.got /\ hist'.typed = hist.typed /\ input' = input
    BY <1>11, HistoryOf DEF HandleEof, HandleDestroyed
  <2> HIDE DEF Kept
  <2>4. 1 \in {0, 1}
    OBVIOUS
  <2>5. Kept
    BY <1>1, <2>1, <2>2, <2>3, <2>4, OrderSame DEF Kept
  <2>6. QED
    BY <2>5 DEF Kept
<1>12. CASE ListenerReturns
  <2>1. /\ listening \in Ttys
        /\ hist'.got = hist.got /\ hist'.typed = hist.typed
    BY <1>12, HistoryReturns
  <2>2. \A u \in Ttys : stream'[u].array = stream[u].array
    BY <1>12, <2>1, ReadingIs DEF ListenerReturns
  <2>3. QED
    BY <1>2, <1>12, <2>1, <2>2 DEF ListenerReturns
<1>13. CASE ListenerThrows
  <2>1. hist'.got = hist.got /\ hist'.typed = hist.typed
    BY <1>13 DEF ListenerThrows, TypeInv, HistoryType
  <2>2. QED
    BY <1>2, <1>13, <2>1 DEF ListenerThrows, io
<1>14. CASE Type
  BY <1>14, OrderTyped
<1>15. CASE Reset \/ Exit \/ UNCHANGED vars
  BY <1>2, <1>15, HistoryFields DEF Reset, Exit, vars, io
<1>16. QED
  BY <1>3, <1>4, <1>5, <1>6, <1>7, <1>8, <1>9, <1>10, <1>11, <1>12, <1>13,
     <1>14, <1>15 DEF Next, App, Events

------------------------------------------------------------------------------
(* The invariant.                                                            *)

(* It holds when the process starts.                                         *)
LEMMA InitKeeps == Init => IInv
<1> SUFFICES ASSUME Init PROVE IInv
  OBVIOUS
<1>1. /\ NewStream \in StreamType /\ NewReader \in ReaderType
      /\ <<>> \in Seq(Nat) /\ <<>> \in Seq(ResultType) /\ <<>> \in Seq(GotType)
  BY DEF NewStream, NewReader, StreamType, ReaderType, Attributes
<1>2. hist \in HistoryType
  BY <1>1 DEF Init, HistoryType
<1>3. TypeInv
  BY <1>1, <1>2 DEF Init, TypeInv, Attributes
<1>4. \A t \in Ttys : /\ stream[t] = NewStream /\ reader[t] = NewReader
                      /\ listening # t
  BY NoTtyAssumption DEF Init
<1>5. Saved
  BY <1>4 DEF Init, Saved, NewStream
<1>6. \A t \in Ttys : Cardinality(Queued(t)) = 0
  <2>1. \A t \in Ttys : Queued(t) = {}
    BY DEF Init, Queued
  <2>2. QED
    BY <2>1, FS_EmptySet
<1>7. Counted /\ Flowing
  BY <1>4, <1>6 DEF Counted, Flowing, NewStream, NewReader
<1>8. OneRead
  BY <1>4 DEF OneRead, NewStream
<1>9. Chunks /\ NeverBack /\ InOrder
  <2>1. hist.got = <<>> /\ input = <<>> /\ ready = <<>> /\ hist.typed = 0
    BY DEF Init
  <2>2. DOMAIN <<>> = {}
    OBVIOUS
  <2>3. QED
    BY <1>4, <2>1, <2>2 DEF Chunks, NeverBack, InOrder, Rising, Above, NewStream
<1>10. QED
  BY <1>3, <1>5, <1>7, <1>8, <1>9 DEF IInv

(* The streams, their readers and the terminal fit together in every state.  *)
THEOREM TerminalInvariance == Spec => []IInv
<1>1. ASSUME IInv, [Next]_vars PROVE IInv'
  <2>1. /\ TypeInv /\ Saved /\ Counted /\ Flowing
        /\ OneRead /\ Chunks /\ NeverBack /\ InOrder
    BY <1>1 DEF IInv
  <2>2. TypeInv' /\ Saved' /\ Counted' /\ Flowing' /\ OneRead'
    BY <1>1, <2>1, TypeStep, SavedStep, CountedStep, FlowingStep, OneReadStep
  <2>3. Chunks' /\ NeverBack' /\ InOrder'
    BY <1>1, <2>1, <2>2, OrderStep
  <2>4. QED
    BY <2>2, <2>3 DEF IInv
<1>2. QED
  BY <1>1, InitKeeps, PTL DEF Spec

(* AtExit and the destructors of TtyStream put the terminal back as the      *)
(* process found it, whatever was switched to raw mode or closed before.     *)
THEOREM TerminalIsRestored == Spec => []RestoredAtExit
<1>1. IInv => RestoredAtExit
  BY DEF IInv, Saved, RestoredAtExit
<1>2. QED
  BY <1>1, TerminalInvariance, PTL

(* A ReadStream that is not paused has a read under way: pause, resume and   *)
(* the end of read_callback leave none without.                              *)
THEOREM StreamsKeepReading == Spec => []KeepsReading
<1>1. IInv => KeepsReading
  BY DEF IInv, Flowing, KeepsReading
<1>2. QED
  BY <1>1, TerminalInvariance, PTL

(* The listeners of each stream never go back in what was typed, however the *)
(* streams are paused and resumed, with as many reads at once as that makes; *)
(* a stream with one read at a time gets nothing twice, and of any number of *)
(* such streams on the terminal each chunk goes to one, in the order typed.  *)
THEOREM InputStaysInOrder == Spec => []InputInOrder
<1>1. IInv => InputInOrder
  BY DEF IInv, NeverBack, InOrder, InputInOrder
<1>2. QED
  BY <1>1, TerminalInvariance, PTL
==============================================================================
