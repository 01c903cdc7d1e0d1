--------------------------- MODULE NetSocketProofs ---------------------------
(***************************************************************************)
(* Proofs about NetSocket, for an object that makes one connection and any  *)
(* number of chunks and reads, any operations of the application and any    *)
(* behaviour of the other end.                                              *)
(*                                                                          *)
(* The functions of net.Socket work on a world w = [s, raw, ticks, crashed].*)
(* Good(w, h) says how its socket, its C++ socket and the history h fit     *)
(* together at every point of every handler; Whole adds what is true        *)
(* between the handlers only.                                               *)
(***************************************************************************)
EXTENDS NetSocket, SequenceTheorems, TLAPS

OneConnection == MaxHandles = 1

------------------------------------------------------------------------------
(* Types.                                                                    *)
FlagNames == {"SHUTDOWN", "SHUTDOWN_QUEUED", "GOT_EOF", "DESTROY_SOON"}
Events == {"error", "close", "lookupError"}
Chunks == Seq(Nat)
SocketType ==
    [ _handle : {0, 1}, _connecting : BOOLEAN, lookup : BOOLEAN,
      readable : BOOLEAN, writable : BOOLEAN, destroyed : BOOLEAN,
      errorEmitted : BOOLEAN, _flags : SUBSET FlagNames, _paused : BOOLEAN,
      _connectQueue : Chunks, _writeQueue : Chunks, _pendingWriteReqs : Int,
      allowHalfOpen : BOOLEAN ]
RawType ==
    [ open : BOOLEAN, connected : BOOLEAN, peer : {"open", "ended", "reset"},
      fin : BOOLEAN, m_pending_writes : Int,
      m_write_shutdown_pending : BOOLEAN, m_close_pending : BOOLEAN,
      writeOp : {"none", "pending", "ok", "error"}, writing : Nat,
      readOp : {"none", "pending", "ok", "eof", "error"},
      connectOp : {"none", "pending", "ok", "error"},
      posted : Int, reading : BOOLEAN, readCb : BOOLEAN,
      shutdownCb : BOOLEAN, sent : Chunks ]
WorldType ==
    [ s : SocketType, raw : [{1} -> RawType], ticks : Seq(Events),
      crashed : BOOLEAN ]
HistoryType ==
    [ connects : {0, 1}, chunks : Nat, accepted : Chunks, inputs : Nat,
      closes : Nat, lateEvent : BOOLEAN, cut : BOOLEAN ]

------------------------------------------------------------------------------
(* How the Lua object and the C++ socket fit together.                       *)

(* What a socket that was destroyed has let go of, and when it has a handle. *)
Life(s, r) ==
    /\ s.destroyed => /\ s._handle = 0 /\ ~s._connecting
                      /\ ~s.readable /\ ~s.writable
    /\ s.readable => s._handle = 1 /\ ~s._connecting
    /\ s.writable => s._handle = 1 \/ s._connecting
    /\ s.lookup => s._handle = 0
    /\ s._handle = 0 => r = Raw!NoSocket \/ (s.destroyed /\ ~r.readCb)
    /\ s._handle = 1 => r.open /\ ~r.m_close_pending

(* Nothing is under way before the connection is up.                         *)
Joining(s, r) ==
    /\ s._handle = 1 /\ ~s._connecting => r.connected /\ r.connectOp = "none"
    /\ r.connectOp = "ok" => r.connected
    /\ s._connecting => /\ r.m_pending_writes = 0 /\ r.readOp = "none"
                        /\ ~r.shutdownCb
                        /\ s._writeQueue = <<>> /\ s._pendingWriteReqs = 0

(* There is one write at a time, on a socket that is open.                   *)
OneWrite(r) ==
    /\ r.m_pending_writes \in {0, 1}
    /\ r.m_pending_writes = 1 <=> r.writeOp # "none"
    /\ r.m_pending_writes = 1 => r.open /\ r.connected

(* Who has shut its side down, or will, does not write any more.             *)
Shut(s, r) ==
    /\ r.shutdownCb => "SHUTDOWN" \in s._flags /\ ~s.writable
    /\ "SHUTDOWN_QUEUED" \in s._flags => ~r.shutdownCb /\ ~s.writable
    /\ r.m_write_shutdown_pending => r.shutdownCb
    /\ r.fin /\ ~s.destroyed => r.shutdownCb

(* The end of the stream is the last read.                                   *)
LastRead(s, r) ==
    /\ r.readOp # "none" => r.reading
    /\ s._handle = 1 /\ "GOT_EOF" \in s._flags => r.reading /\ r.readOp = "none"
    /\ s._handle = 1 =>
          ("GOT_EOF" \in s._flags <=> ~s._connecting /\ ~s.readable)

(* The writes of a connection that was not cut short succeed.                *)
Uncut(s, r, cut) ==
    ~cut => /\ r.writeOp # "error" /\ r.peer # "reset"
            /\ r.m_pending_writes = 1 => ~r.fin

(* The chunk under way, and those the kernel took before it.                 *)
Under(r) == IF r.writeOp \in {"pending", "error"} THEN <<r.writing>> ELSE <<>>
Given(r) == r.sent \o Under(r)

(* The chunks written on the connection are those given to the kernel and    *)
(* those that wait; when the socket is destroyed, nothing waits unless the   *)
(* connection is cut short.                                                  *)
Order(s, r, accepted, cut) ==
    /\ ~s.destroyed => Given(r) \o s._writeQueue \o s._connectQueue = accepted
    /\ IsPrefix(Given(r), accepted)
    /\ s.destroyed /\ ~cut => Given(r) = accepted

(* The queue of nextTick.                                                    *)
Has(t, x) == \E i \in 1..Len(t) : t[i] = x
Once(t, x) == \A i, j \in 1..Len(t) : t[i] = x /\ t[j] = x => i = j

(* "close" is handed to nextTick by the destroy that takes effect.           *)
CloseOnce(s, t, closes) ==
    /\ ~s.destroyed => closes = 0 /\ ~Has(t, "close")
    /\ closes \in {0, 1} /\ (closes = 1 => ~Has(t, "close"))
    /\ Once(t, "close")

Sound(s, r) == Life(s, r) /\ Joining(s, r) /\ OneWrite(r) /\ Shut(s, r) /\ LastRead(s, r)

(* All of it but the order of the chunks, which a step may leave for another *)
(* to restore.                                                               *)
Fits(s, r, t, h) ==
    /\ Sound(s, r)
    /\ Uncut(s, r, h.cut) /\ (Has(t, "lookupError") => h.cut)
    /\ CloseOnce(s, t, h.closes)

Held(w, h) ==
    /\ w \in WorldType /\ h \in HistoryType /\ ~w.crashed
    /\ Fits(w.s, w.raw[1], w.ticks, h)

Good(w, h) == Held(w, h) /\ Order(w.s, w.raw[1], h.accepted, h.cut)

(* What waits, waits for the end of a write.  The end of the other side,     *)
(* found behind finish, destroys the socket.                                 *)
Queued(s, r) ==
    ~s.destroyed =>
        /\ s._pendingWriteReqs = r.m_pending_writes
        /\ r.m_pending_writes = 0 => s._writeQueue = <<>>
        /\ ~s._connecting => s._connectQueue = <<>>
        /\ "GOT_EOF" \in s._flags => ~r.shutdownCb

Delayed(r, draining) ==
    r.m_close_pending \/ (r.m_write_shutdown_pending /\ ~r.fin)
        => r.m_pending_writes = 1 \/ draining

Whole(w, h, draining) ==
    Good(w, h) /\ Queued(w.s, w.raw[1]) /\ Delayed(w.raw[1], draining)

Draining == frame = [handler |-> "drain", handle |-> 1]

(* The handler that waits for its listeners works on the connection, and an  *)
(* object that was not connected is as it was made.                          *)
FrameInv ==
    /\ frame = Idle \/ \E a \in {"connect", "data", "drain"} :
                            frame = [handler |-> a, handle |-> 1]
    /\ frame # Idle => ~sock._connecting
    /\ hist.connects = 0 => /\ ~sock._connecting /\ ~sock.lookup
                            /\ ~sock.destroyed /\ sock._handle = 0
                            /\ sock._flags = {}
                            /\ ticks = <<>> /\ frame = Idle

IInv == Whole(World, hist, Draining) /\ FrameInv /\ ~hist.lateEvent

------------------------------------------------------------------------------
(* Worlds.                                                                   *)

(* One C++ socket.                                                           *)
Alone(r) == [i \in {1} |-> r]

(* The world w with another socket, C++ socket and queue of ticks.           *)
Put(w, s, r, t) ==
    [s |-> s, raw |-> Alone(r), ticks |-> t, crashed |-> w.crashed]

(* The parts of a world.                                                     *)
LEMMA PutParts ==
    ASSUME NEW w \in WorldType, NEW s \in SocketType, NEW r \in RawType,
           NEW t \in Seq(Events)
    PROVE  LET d == Put(w, s, r, t)
           IN /\ d \in WorldType /\ d.s = s /\ d.raw[1] = r /\ d.ticks = t
              /\ d.crashed = w.crashed
  BY DEF Put, Alone, WorldType

(* Changing a part of a world.                                               *)
LEMMA PutsOne ==
    ASSUME NEW w \in WorldType, NEW s, NEW r, NEW t
    PROVE  /\ w = Put(w, w.s, w.raw[1], w.ticks)
           /\ w.s \in SocketType /\ w.raw[1] \in RawType
           /\ w.ticks \in Seq(Events) /\ w.crashed \in BOOLEAN
           /\ [w EXCEPT !.s = s] = Put(w, s, w.raw[1], w.ticks)
           /\ [w EXCEPT !.raw[1] = r] = Put(w, w.s, r, w.ticks)
           /\ [w EXCEPT !.raw = Alone(r)] = Put(w, w.s, r, w.ticks)
           /\ [w EXCEPT !.ticks = t] = Put(w, w.s, w.raw[1], t)
<1>1. PICK a \in SocketType, b \in [{1} -> RawType], c \in Seq(Events), e \in BOOLEAN :
          w = [s |-> a, raw |-> b, ticks |-> c, crashed |-> e]
  BY DEF WorldType
<1>2. b = Alone(b[1]) /\ b[1] \in RawType
  BY DEF Alone
<1>3. [b EXCEPT ![1] = r] = Alone(r)
  BY <1>2 DEF Alone
<1>4. w.s = a /\ w.raw = b /\ w.ticks = c /\ w.crashed = e
  BY <1>1
<1>5. w = Put(w, w.s, w.raw[1], w.ticks)
  BY <1>1, <1>2, <1>4 DEF Put
<1>6. [w EXCEPT !.s = s] = Put(w, s, w.raw[1], w.ticks)
  BY <1>1, <1>2, <1>4 DEF Put
<1>7. [w EXCEPT !.raw = Alone(r)] = Put(w, w.s, r, w.ticks)
  BY <1>1, <1>4 DEF Put
<1>8. [w EXCEPT !.raw[1] = r] = Put(w, w.s, r, w.ticks)
  <2>1. [w EXCEPT !.raw[1] = r] = [w EXCEPT !.raw = [b EXCEPT ![1] = r]]
    BY <1>4
  <2>2. QED
    BY <1>3, <1>7, <2>1
<1>9. [w EXCEPT !.ticks = t] = Put(w, w.s, w.raw[1], t)
  BY <1>1, <1>2, <1>4 DEF Put
<1>10. QED
  BY <1>1, <1>2, <1>4, <1>5, <1>6, <1>7, <1>8, <1>9

(* It changes with the queue of nextTick.                                    *)
LEMMA PutsTicks ==
    ASSUME NEW w \in WorldType, NEW s \in SocketType, NEW t \in Seq(Events)
    PROVE  [w EXCEPT !.s = s, !.ticks = t] = Put(w, s, w.raw[1], t)
<1> DEFINE v == [w EXCEPT !.s = s]
<1>1. [w EXCEPT !.s = s, !.ticks = t] = [v EXCEPT !.ticks = t]
  OBVIOUS
<1>2. v = Put(w, s, w.raw[1], w.ticks) /\ w.raw[1] \in RawType /\ w.ticks \in Seq(Events)
  BY PutsOne
<1> HIDE DEF v
<1>3. v \in WorldType /\ v.s = s /\ v.raw[1] = w.raw[1] /\ v.crashed = w.crashed
  BY <1>2, PutParts
<1>4. [v EXCEPT !.ticks = t] = Put(v, v.s, v.raw[1], t)
  BY <1>3, PutsOne
<1>5. QED
  BY <1>1, <1>3, <1>4 DEF Put

(* It changes with the C++ socket.                                           *)
LEMMA PutsBoth ==
    ASSUME NEW w \in WorldType, NEW s \in SocketType, NEW r \in RawType
    PROVE  /\ [w EXCEPT !.s = s, !.raw[1] = r] = Put(w, s, r, w.ticks)
           /\ [w EXCEPT !.raw[1] = r, !.s = s] = Put(w, s, r, w.ticks)
<1> DEFINE v == [w EXCEPT !.s = s]
           u == [w EXCEPT !.raw[1] = r]
<1>1. /\ [w EXCEPT !.s = s, !.raw[1] = r] = [v EXCEPT !.raw[1] = r]
      /\ [w EXCEPT !.raw[1] = r, !.s = s] = [u EXCEPT !.s = s]
  OBVIOUS
<1>2. /\ w.s \in SocketType /\ w.raw[1] \in RawType /\ w.ticks \in Seq(Events)
      /\ v = Put(w, s, w.raw[1], w.ticks) /\ u = Put(w, w.s, r, w.ticks)
  BY PutsOne
<1> HIDE DEF u, v
<1>3. /\ v \in WorldType /\ v.s = s /\ v.ticks = w.ticks /\ v.crashed = w.crashed
      /\ u \in WorldType /\ u.raw[1] = r /\ u.ticks = w.ticks
      /\ u.crashed = w.crashed
  BY <1>2, PutParts
<1>4. /\ [v EXCEPT !.raw[1] = r] = Put(v, v.s, r, v.ticks)
      /\ [u EXCEPT !.s = s] = Put(u, s, u.raw[1], u.ticks)
  BY <1>3, PutsOne
<1>5. QED
  BY <1>1, <1>3, <1>4 DEF Put

Instead(w, s, raws, t) == [w EXCEPT !.s = s, !.raw = raws, !.ticks = t]

(* All parts change.                                                         *)
LEMMA PutsAll ==
    ASSUME NEW w \in WorldType, NEW s \in SocketType, NEW r \in RawType,
           NEW t \in Seq(Events)
    PROVE  Instead(w, s, Alone(r), t) = Put(w, s, r, t)
<1> DEFINE v == [w EXCEPT !.s = s]
           x == [v EXCEPT !.raw = Alone(r)]
<1>1. Instead(w, s, Alone(r), t) = [x EXCEPT !.ticks = t]
  BY DEF Instead
<1>2. /\ v = Put(w, s, w.raw[1], w.ticks) /\ w.raw[1] \in RawType
      /\ w.ticks \in Seq(Events)
  BY PutsOne
<1> HIDE DEF v
<1>3. v \in WorldType /\ v.s = s /\ v.ticks = w.ticks /\ v.crashed = w.crashed
  BY <1>2, PutParts
<1>4. x = Put(v, v.s, r, v.ticks)
  BY <1>3, PutsOne, Zenon
<1> HIDE DEF x
<1>5. x \in WorldType /\ x.s = s /\ x.raw[1] = r /\ x.crashed = w.crashed
  BY <1>2, <1>3, <1>4, PutParts
<1>6. [x EXCEPT !.ticks = t] = Put(x, x.s, x.raw[1], t)
  BY <1>5, PutsOne
<1>7. QED
  BY <1>1, <1>5, <1>6 DEF Put

(* The object has one handle.                                                *)
LEMMA OneHandle ==
    ASSUME OneConnection
    PROVE  Handles = {1} /\ NoHandle = 0
  BY DEF OneConnection, Handles, NoHandle

------------------------------------------------------------------------------
(* Sequences of chunks.                                                      *)

(* What is given and what waits are moved about.                             *)
LEMMA BeginsWith ==
    ASSUME NEW a \in Chunks, NEW b \in Chunks
    PROVE  /\ a \o b \in Chunks
           /\ IsPrefix(a, a \o b)
<1>1. /\ a \o b \in Chunks /\ Len(a \o b) = Len(a) + Len(b)
      /\ Len(a) \in Nat /\ Len(b) \in Nat
      /\ \A i \in 1..Len(a) : (a \o b)[i] = a[i]
  BY ConcatProperties DEF Chunks
<1>2. SubSeq(a, 1, Len(a)) = SubSeq(a \o b, 1, Len(a))
  BY <1>1 DEF Chunks
<1>3. IsPrefix(a, a \o b)
  BY <1>1, <1>2 DEF IsPrefix
<1>4. QED
  BY <1>1, <1>3

(* The beginning of a beginning.                                             *)
LEMMA PrefixOfPrefix ==
    ASSUME NEW a \in Chunks, NEW b \in Chunks, NEW c \in Chunks,
           IsPrefix(a \o b, c)
    PROVE  IsPrefix(a, c)
<1>1. /\ Len(a \o b) = Len(a) + Len(b)
      /\ Len(a) \in Nat /\ Len(b) \in Nat
      /\ \A i \in 1..Len(a) : (a \o b)[i] = a[i]
  BY ConcatProperties DEF Chunks
<1> DEFINE d == a \o b
<1>2. d \in Chunks
  BY ConcatProperties DEF Chunks
<1>3. Len(d) <= Len(c) /\ SubSeq(d, 1, Len(d)) = SubSeq(c, 1, Len(d)) /\ Len(c) \in Nat
  BY DEF IsPrefix, Chunks
<1>4. \A i \in 1..Len(a) : i \in 1..Len(d) /\ d[i] = a[i]
  BY <1>1
<1> HIDE DEF d
<1>5. \A i \in 1..Len(d) : d[i] = c[i]
  <2> SUFFICES ASSUME NEW i \in 1..Len(d) PROVE d[i] = c[i]
    OBVIOUS
  <2>1. SubSeq(d, 1, Len(d))[i] = d[i] /\ SubSeq(c, 1, Len(d))[i] = c[i]
    BY <1>2, <1>3 DEF Chunks
  <2>2. QED
    BY <1>3, <2>1
<1>6. \A i \in 1..Len(a) : a[i] = c[i]
  BY <1>4, <1>5
<1>7. Len(a) <= Len(c)
  BY <1>1, <1>3 DEF d
<1>8. SubSeq(a, 1, Len(a)) = SubSeq(c, 1, Len(a))
  BY <1>1, <1>3, <1>6, <1>7 DEF Chunks
<1>9. QED
  BY <1>7, <1>8 DEF IsPrefix

(* Moving from one queue to the next.                                        *)
LEMMA ChunksAssoc ==
    ASSUME NEW a \in Chunks, NEW b \in Chunks, NEW c \in Chunks
    PROVE  (a \o b) \o c = a \o (b \o c)
<1>1. a \in Seq(Nat) /\ b \in Seq(Nat) /\ c \in Seq(Nat)
  BY DEF Chunks
<1>2. QED
  BY <1>1, SMTT(30)

(* One more chunk.                                                           *)
LEMMA OneMore ==
    ASSUME NEW a \in Chunks, NEW x \in Nat
    PROVE  /\ Append(a, x) = a \o <<x>> /\ <<x>> \in Chunks /\ <<>> \in Chunks
           /\ Append(a, x) \in Chunks
           /\ a \o <<>> = a /\ <<>> \o a = a
           /\ a # <<>> => /\ Head(a) \in Nat /\ Tail(a) \in Chunks
                          /\ <<Head(a)>> \o Tail(a) = a
<1>1. Append(a, x) = a \o <<x>> /\ Append(a, x) \in Chunks
  BY AppendIsConcat, AppendProperties DEF Chunks
<1>2. a \o <<>> = a /\ <<>> \o a = a
  BY ConcatEmptySeq DEF Chunks
<1>3. ASSUME a # <<>>
      PROVE  Head(a) \in Nat /\ Tail(a) \in Chunks /\ <<Head(a)>> \o Tail(a) = a
  <2>1. /\ Head(a) \in Nat /\ Tail(a) \in Chunks /\ Len(Tail(a)) = Len(a) - 1
        /\ \A i \in 1..Len(Tail(a)) : Tail(a)[i] = a[i + 1]
    BY <1>3, HeadTailProperties DEF Chunks
  <2>2. Len(a) \in Nat /\ Head(a) = a[1] /\ Len(a) # 0
    BY <1>3 DEF Chunks
  <2> DEFINE y == Head(a)
             b == Tail(a)
             c == <<y>> \o b
  <2>3. <<y>> \in Seq(Nat) /\ Len(<<y>>) = 1 /\ <<y>>[1] = y
    BY <2>1
  <2> HIDE DEF y, b
  <2>4. /\ c \in Seq(Nat) /\ Len(c) = 1 + Len(b)
        /\ \A i \in 1..1 + Len(b) : c[i] = IF i <= 1 THEN <<y>>[i] ELSE b[i - 1]
    BY <2>1, <2>3, ConcatProperties DEF Chunks, b
  <2> HIDE DEF c
  <2>5. Len(c) = Len(a)
    BY <2>1, <2>2, <2>4 DEF b
  <2>6. \A i \in 1..Len(c) : c[i] = a[i]
    <3> SUFFICES ASSUME NEW i \in 1..Len(c) PROVE c[i] = a[i]
      OBVIOUS
    <3>1. CASE i = 1
      BY <2>2, <2>3, <2>4, <3>1 DEF y
    <3>2. CASE i # 1
      <4>1. i - 1 \in 1..Len(b) /\ (i - 1) + 1 = i /\ ~(i <= 1)
        BY <2>1, <2>2, <2>4, <2>5, <3>2 DEF b
      <4>2. b[i - 1] = a[i]
        BY <2>1, <4>1 DEF b
      <4>3. QED
        BY <2>4, <4>1, <4>2
    <3>3. QED
      BY <3>1, <3>2
  <2>7. c = a
    BY <2>4, <2>5, <2>6, SeqEqual DEF Chunks
  <2>8. QED
    BY <2>1, <2>7 DEF c, y, b
<1>4. QED
  BY <1>1, <1>2, <1>3 DEF Chunks

(* A chunk more at the end of a queue, and the first of the next queue.       *)
LEMMA ChunkMoves ==
    ASSUME NEW a \in Chunks, NEW b \in Chunks, NEW x \in Nat
    PROVE  /\ a \o Append(b, x) = Append(a \o b, x)
           /\ b # <<>> => Append(a, Head(b)) \o Tail(b) = a \o b
<1>1. a \o b \in Chunks /\ <<x>> \in Chunks
  BY BeginsWith, OneMore
<1>2. Append(b, x) = b \o <<x>> /\ Append(a \o b, x) = (a \o b) \o <<x>>
  BY <1>1, OneMore
<1>3. (a \o b) \o <<x>> = a \o (b \o <<x>>)
  BY <1>1, ChunksAssoc
<1>4. ASSUME b # <<>> PROVE Append(a, Head(b)) \o Tail(b) = a \o b
  <2> DEFINE y == Head(b)
             z == Tail(b)
  <2>1. y \in Nat /\ z \in Chunks /\ <<y>> \o z = b
    BY <1>4, OneMore
  <2> HIDE DEF y, z
  <2>2. <<y>> \in Chunks /\ Append(a, y) = a \o <<y>>
    BY <2>1, OneMore
  <2>3. (a \o <<y>>) \o z = a \o (<<y>> \o z)
    BY <2>1, <2>2, ChunksAssoc
  <2>4. QED
    BY <2>1, <2>2, <2>3 DEF y, z
<1>5. QED
  BY <1>2, <1>3, <1>4

------------------------------------------------------------------------------
(* The order of the chunks.                                                  *)

(* What is given to the kernel.                                              *)
LEMMA GivenChunks ==
    ASSUME NEW r \in RawType
    PROVE  /\ Given(r) \in Chunks
           /\ r.writeOp \notin {"pending", "error"} => Given(r) = r.sent
           /\ r.writeOp \in {"pending", "error"} =>
                Given(r) = Append(r.sent, r.writing)
<1>1. r.sent \in Chunks /\ r.writing \in Nat
  BY DEF RawType
<1>2. r.sent \o <<>> = r.sent /\ Append(r.sent, r.writing) = r.sent \o <<r.writing>>
      /\ Append(r.sent, r.writing) \in Chunks
  BY <1>1, OneMore
<1>3. QED
  BY <1>1, <1>2 DEF Given, Under

(* It does not change with what is not about the writes.                     *)
LEMMA GivenSame ==
    ASSUME NEW r, NEW q, q.sent = r.sent, q.writeOp = r.writeOp,
           q.writing = r.writing
    PROVE  Given(q) = Given(r)
  BY DEF Given, Under

(* An open socket has its chunks in order when the parts make up the whole.  *)
LEMMA OpenOrder ==
    ASSUME NEW s \in SocketType, NEW r \in RawType, NEW accepted \in Chunks,
           NEW cut, ~s.destroyed,
           Given(r) \o s._writeQueue \o s._connectQueue = accepted
    PROVE  Order(s, r, accepted, cut)
<1>1. Given(r) \in Chunks /\ s._writeQueue \in Chunks /\ s._connectQueue \in Chunks
  BY GivenChunks DEF SocketType
<1>2. Given(r) \o s._writeQueue \in Chunks
  BY <1>1, BeginsWith
<1>3. IsPrefix(Given(r) \o s._writeQueue, accepted)
  BY <1>1, <1>2, BeginsWith
<1>4. IsPrefix(Given(r), accepted)
  BY <1>1, <1>3, PrefixOfPrefix
<1>5. QED
  BY <1>4 DEF Order

(* Nothing waits.                                                            *)
LEMMA NothingWaits ==
    ASSUME NEW s, NEW r \in RawType, NEW accepted, NEW cut,
           Order(s, r, accepted, cut), ~s.destroyed,
           s._writeQueue = <<>>, s._connectQueue = <<>>
    PROVE  Given(r) = accepted
<1>1. Given(r) \in Chunks
  BY GivenChunks
<1>2. Given(r) \o <<>> \o <<>> = Given(r)
  BY <1>1, OneMore
<1>3. QED
  BY <1>2 DEF Order

(* The order of the chunks is not disturbed by what leaves them alone.       *)
LEMMA OrderSame ==
    ASSUME NEW s, NEW r, NEW p, NEW q, NEW accepted,
           NEW cut \in BOOLEAN, NEW cut2 \in BOOLEAN,
           Order(s, r, accepted, cut), cut => cut2,
           p.destroyed = s.destroyed, p._writeQueue = s._writeQueue,
           p._connectQueue = s._connectQueue, Given(q) = Given(r)
    PROVE  Order(p, q, accepted, cut2)
  BY DEF Order

------------------------------------------------------------------------------
(* The queue of nextTick.                                                    *)

(* One more function.                                                        *)
LEMMA TicksAppend ==
    ASSUME NEW t \in Seq(Events), NEW x \in Events
    PROVE  /\ Append(t, x) \in Seq(Events) /\ t \o <<x>> = Append(t, x)
           /\ t \o <<>> = t
           /\ \A y \in Events : Has(Append(t, x), y) <=> Has(t, y) \/ x = y
           /\ \A y \in Events : Once(t, y) /\ (x = y => ~Has(t, y))
                                    => Once(Append(t, x), y)
<1> DEFINE r == Append(t, x)
<1>1. /\ r \in Seq(Events) /\ Len(r) = Len(t) + 1 /\ Len(t) \in Nat
      /\ \A i \in 1..Len(t) : r[i] = t[i]
      /\ r[Len(t) + 1] = x
  OBVIOUS
<1>2. t \o <<x>> = r /\ t \o <<>> = t
  BY AppendIsConcat, ConcatEmptySeq
<1> HIDE DEF r
<1>3. \A i \in 1..Len(r) : i \in 1..Len(t) \/ i = Len(t) + 1
  BY <1>1
<1>4. 1..Len(t) \subseteq 1..Len(r) /\ Len(t) + 1 \in 1..Len(r)
  BY <1>1
<1>5. \A y \in Events : Has(r, y) <=> Has(t, y) \/ x = y
  BY <1>1, <1>3, <1>4 DEF Has
<1>6. ASSUME NEW y \in Events, Once(t, y), x = y => ~Has(t, y)
      PROVE  Once(r, y)
  BY <1>1, <1>3, <1>6 DEF Has, Once
<1>7. QED
  BY <1>1, <1>2, <1>5, <1>6 DEF r

(* The loop takes the first.                                                 *)
LEMMA TicksTail ==
    ASSUME NEW t \in Seq(Events), t # <<>>
    PROVE  /\ Tail(t) \in Seq(Events) /\ Head(t) \in Events /\ Has(t, Head(t))
           /\ \A y \in Events : Has(Tail(t), y) => Has(t, y)
           /\ \A y \in Events : Once(t, y) => Once(Tail(t), y)
           /\ Once(t, Head(t)) => ~Has(Tail(t), Head(t))
<1> DEFINE r == Tail(t)
<1>1. /\ r \in Seq(Events) /\ Len(r) = Len(t) - 1 /\ Len(t) \in Nat \ {0}
      /\ \A i \in 1..Len(r) : r[i] = t[i + 1]
      /\ Head(t) = t[1] /\ Head(t) \in Events
  <2>1. Len(t) # 0
    OBVIOUS
  <2>2. QED
    BY <2>1, HeadTailProperties
<1> HIDE DEF r
<1>2. \A i \in 1..Len(r) : i + 1 \in 1..Len(t) /\ i + 1 # 1
  BY <1>1
<1>3. ASSUME NEW y \in Events, Once(t, y) PROVE Once(r, y)
  <2> SUFFICES ASSUME NEW i \in 1..Len(r), NEW j \in 1..Len(r), r[i] = y, r[j] = y
               PROVE  i = j
    BY DEF Once
  <2>1. i + 1 = j + 1
    BY <1>1, <1>2, <1>3 DEF Once
  <2>2. QED
    BY <2>1
<1>4. \A y \in Events : Has(r, y) => Has(t, y)
  BY <1>1, <1>2 DEF Has
<1>5. 1 \in 1..Len(t)
  BY <1>1
<1>6. Has(t, Head(t)) /\ (Once(t, Head(t)) => ~Has(r, Head(t)))
  BY <1>1, <1>2, <1>5 DEF Has, Once
<1>7. QED
  BY <1>1, <1>3, <1>4, <1>6 DEF r

------------------------------------------------------------------------------
(* _destroy.                                                                 *)

Lost(s, e) ==
    [s EXCEPT !._connecting = FALSE, !._connectQueue = <<>>,
              !.readable = FALSE, !.writable = FALSE, !._handle = 0,
              !.destroyed = TRUE, !.errorEmitted = e]

Released(s, r) ==
    IF s._handle = 1 THEN [Raw!Close(r) EXCEPT !.readCb = FALSE] ELSE r

Reported(s, err) == IF err /\ ~s.errorEmitted THEN <<"error">> ELSE <<>>

(* What a closed C++ socket is.                                              *)
LEMMA CloseNowFields ==
    ASSUME NEW r \in RawType
    PROVE  LET q == Raw!CloseNow(r)
           IN /\ q \in RawType
              /\ ~q.open /\ q.fin /\ ~q.m_close_pending
              /\ q.readOp = (IF r.readOp = "pending" THEN "error" ELSE r.readOp)
              /\ q.connectOp = (IF r.connectOp = "pending" THEN "error"
                                ELSE r.connectOp)
              /\ q.connected = r.connected /\ q.peer = r.peer
              /\ q.m_pending_writes = r.m_pending_writes
              /\ q.m_write_shutdown_pending = r.m_write_shutdown_pending
              /\ q.writeOp = r.writeOp /\ q.writing = r.writing
              /\ q.reading = r.reading /\ q.readCb = r.readCb
              /\ q.shutdownCb = r.shutdownCb /\ q.sent = r.sent
<1> DEFINE a == IF r.readOp = "pending" THEN "error" ELSE r.readOp
           b == IF r.connectOp = "pending" THEN "error" ELSE r.connectOp
<1>1. /\ a \in {"none", "pending", "ok", "eof", "error"}
      /\ b \in {"none", "pending", "ok", "error"}
  BY DEF RawType
<1>2. Raw!CloseNow(r) = [r EXCEPT !.open = FALSE, !.fin = TRUE,
                                  !.m_close_pending = FALSE,
                                  !.readOp = a, !.connectOp = b]
  BY Zenon DEF Raw!CloseNow, Raw!Abort
<1> HIDE DEF a, b
<1> DEFINE q == [r EXCEPT !.open = FALSE, !.fin = TRUE,
                          !.m_close_pending = FALSE,
                          !.readOp = a, !.connectOp = b]
<1>3. /\ q \in RawType
      /\ ~q.open /\ q.fin /\ ~q.m_close_pending
      /\ q.readOp = a /\ q.connectOp = b
      /\ q.connected = r.connected /\ q.peer = r.peer
      /\ q.m_pending_writes = r.m_pending_writes
      /\ q.m_write_shutdown_pending = r.m_write_shutdown_pending
      /\ q.writeOp = r.writeOp /\ q.writing = r.writing
      /\ q.reading = r.reading /\ q.readCb = r.readCb
      /\ q.shutdownCb = r.shutdownCb /\ q.sent = r.sent
  BY <1>1 DEF RawType
<1>4. QED
  BY <1>2, <1>3 DEF a, b

(* What _destroy makes of the Lua object.                                    *)
LEMMA LostFields ==
    ASSUME NEW s \in SocketType, NEW e \in BOOLEAN
    PROVE  LET p == Lost(s, e)
           IN /\ p \in SocketType
              /\ p.destroyed /\ p._handle = 0 /\ ~p._connecting
              /\ ~p.readable /\ ~p.writable
              /\ p._connectQueue = <<>> /\ p._writeQueue = s._writeQueue
              /\ p._flags = s._flags /\ p.lookup = s.lookup
              /\ p._pendingWriteReqs = s._pendingWriteReqs
<1>1. <<>> \in Chunks /\ s \in SocketType
  BY DEF Chunks
<1> DEFINE p == Lost(s, e)
<1>2. p \in SocketType
  BY <1>1 DEF Lost, SocketType
<1>3. /\ p.destroyed /\ p._handle = 0 /\ ~p._connecting
      /\ ~p.readable /\ ~p.writable
      /\ p._connectQueue = <<>> /\ p._writeQueue = s._writeQueue
      /\ p._flags = s._flags /\ p.lookup = s.lookup
      /\ p._pendingWriteReqs = s._pendingWriteReqs
  BY <1>1 DEF Lost, SocketType
<1>4. QED
  BY <1>2, <1>3

(* What _destroy makes of the C++ socket.                                    *)
LEMMA ReleasedFields ==
    ASSUME NEW s \in SocketType, NEW r \in RawType
    PROVE  LET q == Released(s, r)
           IN /\ q \in RawType
              /\ s._handle = 0 => q = r
              /\ s._handle = 1 /\ r.m_pending_writes > 0 =>
                    /\ q.open = r.open /\ q.fin = r.fin /\ q.m_close_pending
                    /\ q.readOp = r.readOp /\ q.connectOp = r.connectOp
              /\ s._handle = 1 /\ ~(r.m_pending_writes > 0) =>
                    /\ ~q.open /\ q.fin /\ ~q.m_close_pending
                    /\ q.readOp = (IF r.readOp = "pending" THEN "error"
                                   ELSE r.readOp)
                    /\ q.connectOp = (IF r.connectOp = "pending" THEN "error"
                                      ELSE r.connectOp)
              /\ s._handle = 1 => ~q.readCb
              /\ q.connected = r.connected /\ q.peer = r.peer
              /\ q.m_pending_writes = r.m_pending_writes
              /\ q.m_write_shutdown_pending = r.m_write_shutdown_pending
              /\ q.writeOp = r.writeOp /\ q.writing = r.writing
              /\ q.reading = r.reading
              /\ q.shutdownCb = r.shutdownCb /\ q.sent = r.sent
<1>1. CASE s._handle # 1
  <2>1. Released(s, r) = r /\ s._handle = 0
    BY <1>1 DEF Released, SocketType
  <2>2. QED
    BY <1>1, <2>1
<1>2. CASE s._handle = 1 /\ r.m_pending_writes > 0
  <2>1. Released(s, r) = [r EXCEPT !.m_close_pending = TRUE, !.readCb = FALSE]
    BY <1>2, Zenon DEF Released, Raw!Close
  <2> DEFINE q == [r EXCEPT !.m_close_pending = TRUE, !.readCb = FALSE]
  <2>2. /\ q \in RawType /\ q.m_close_pending /\ ~q.readCb
        /\ q.open = r.open /\ q.fin = r.fin
        /\ q.readOp = r.readOp /\ q.connectOp = r.connectOp
        /\ q.connected = r.connected /\ q.peer = r.peer
        /\ q.m_pending_writes = r.m_pending_writes
        /\ q.m_write_shutdown_pending = r.m_write_shutdown_pending
        /\ q.writeOp = r.writeOp /\ q.writing = r.writing
        /\ q.reading = r.reading
        /\ q.shutdownCb = r.shutdownCb /\ q.sent = r.sent
    BY DEF RawType
  <2>3. QED
    BY <1>2, <2>1, <2>2
<1>3. CASE s._handle = 1 /\ ~(r.m_pending_writes > 0)
  <2> DEFINE c == Raw!CloseNow(r)
             q == [c EXCEPT !.readCb = FALSE]
  <2>1. Released(s, r) = q
    BY <1>3, Zenon DEF Released, Raw!Close
  <2>2. c \in RawType
    BY CloseNowFields
  <2> HIDE DEF c
  <2>3. /\ q \in RawType /\ ~q.readCb
        /\ q.open = c.open /\ q.fin = c.fin
        /\ q.m_close_pending = c.m_close_pending
        /\ q.readOp = c.readOp /\ q.connectOp = c.connectOp
        /\ q.connected = c.connected /\ q.peer = c.peer
        /\ q.m_pending_writes = c.m_pending_writes
        /\ q.m_write_shutdown_pending = c.m_write_shutdown_pending
        /\ q.writeOp = c.writeOp /\ q.writing = c.writing
        /\ q.reading = c.reading
        /\ q.shutdownCb = c.shutdownCb /\ q.sent = c.sent
    BY <2>2 DEF RawType
  <2> HIDE DEF q
  <2>4. QED
    BY <1>3, <2>1, <2>3, CloseNowFields DEF c
<1>4. QED
  BY <1>1, <1>2, <1>3

(* _destroy, in the parts of a world.                                        *)
LEMMA DestroyIs ==
    ASSUME OneConnection, NEW w \in WorldType, NEW err \in BOOLEAN
    PROVE  \E e \in BOOLEAN :
              /\ w.s.destroyed => DoDestroy(w, err) =
                    Put(w, [w.s EXCEPT !.errorEmitted = e], w.raw[1],
                        w.ticks \o Reported(w.s, err))
              /\ ~w.s.destroyed => DoDestroy(w, err) =
                    Put(w, Lost(w.s, e), Released(w.s, w.raw[1]),
                        w.ticks \o Reported(w.s, err) \o <<"close">>)
<1>1. /\ w.s \in SocketType /\ w.raw[1] \in RawType
      /\ w.ticks \in Seq(Events)
  BY PutsOne
<1>2. PICK e \in BOOLEAN : e = (w.s.errorEmitted \/ err)
  OBVIOUS
<1> DEFINE t == Reported(w.s, err)
<1>3. t \in {<<>>, <<"error">>}
  BY DEF Reported
<1>4. CASE w.s.destroyed
  <2> DEFINE p == [w.s EXCEPT !.errorEmitted = e]
             u == w.ticks \o t
  <2>1. DoDestroy(w, err) = [w EXCEPT !.s.errorEmitted = e, !.ticks = u]
    BY <1>2, <1>4, Zenon DEF DoDestroy, Reported
  <2>2. [w EXCEPT !.s.errorEmitted = e, !.ticks = u] = [w EXCEPT !.s = p, !.ticks = u]
    OBVIOUS
  <2>3. p \in SocketType
    BY <1>1 DEF SocketType
  <2>4. u \in Seq(Events)
    BY <1>1, <1>3, TicksAppend DEF Events
  <2> HIDE DEF p, u
  <2>5. [w EXCEPT !.s = p, !.ticks = u] = Put(w, p, w.raw[1], u)
    BY <2>3, <2>4, PutsTicks, Zenon
  <2>6. QED
    BY <1>4, <2>1, <2>2, <2>5 DEF p, u
<1>5. CASE ~w.s.destroyed
  <2> DEFINE p == Lost(w.s, e)
             q == Released(w.s, w.raw[1])
             v == w.ticks \o t
             u == v \o <<"close">>
             R == [i \in Handles |-> IF i = w.s._handle
                       THEN [Raw!Close(w.raw[i]) EXCEPT !.readCb = FALSE]
                       ELSE w.raw[i]]
  <2>1. DoDestroy(w, err) = [w EXCEPT !.s = p, !.raw = R, !.ticks = u]
    BY <1>2, <1>5, Zenon DEF DoDestroy, Reported, Lost, NoHandle
  <2>2. R = Alone(q)
    <3>1. Handles = {1}
      BY OneHandle
    <3>2. R = [i \in {1} |-> IF i = w.s._handle
                       THEN [Raw!Close(w.raw[i]) EXCEPT !.readCb = FALSE]
                       ELSE w.raw[i]]
      BY <3>1
    <3>3. \A i \in {1} : (IF i = w.s._handle
                       THEN [Raw!Close(w.raw[i]) EXCEPT !.readCb = FALSE]
                       ELSE w.raw[i]) = q
      BY Zenon DEF Released
    <3>4. QED
      BY <3>2, <3>3, Zenon DEF Alone
  <2>3. p \in SocketType /\ q \in RawType
    BY <1>1, LostFields, ReleasedFields
  <2>4. v \in Seq(Events)
    BY <1>1, <1>3, TicksAppend DEF Events
  <2>5. u \in Seq(Events)
    BY <2>4, TicksAppend DEF Events
  <2> HIDE DEF p, u, v, q, R
  <2>6. [w EXCEPT !.s = p, !.raw = R, !.ticks = u] = Put(w, p, q, u)
    <3>1. Instead(w, p, Alone(q), u) = Put(w, p, q, u)
      BY <2>3, <2>5, PutsAll, Zenon
    <3>2. QED
      BY <2>2, <3>1, Zenon DEF Instead
  <2>7. QED
    BY <1>5, <2>1, <2>6 DEF p, q, u, v
<1>6. QED
  BY <1>4, <1>5

(* An error to report says nothing of the other events.                      *)
LEMMA TicksError ==
    ASSUME NEW t \in Seq(Events), NEW u \in {<<>>, <<"error">>}
    PROVE  /\ t \o u \in Seq(Events)
           /\ \A y \in {"close", "lookupError"} :
                 /\ Has(t \o u, y) <=> Has(t, y)
                 /\ Once(t, y) => Once(t \o u, y)
<1>1. /\ "error" \in Events /\ {"close", "lookupError"} \subseteq Events
      /\ "error" \notin {"close", "lookupError"}
  BY DEF Events
<1>2. CASE u = <<>>
  <2>1. t \o u = t
    BY <1>1, <1>2, TicksAppend
  <2>2. QED
    BY <2>1
<1>3. CASE u = <<"error">>
  <2>1. t \o u = Append(t, "error")
    BY <1>1, <1>3, TicksAppend
  <2>2. /\ Append(t, "error") \in Seq(Events)
        /\ \A y \in Events : Has(Append(t, "error"), y) <=> Has(t, y) \/ "error" = y
        /\ \A y \in Events : Once(t, y) /\ ("error" = y => ~Has(t, y))
                                    => Once(Append(t, "error"), y)
    BY <1>1, TicksAppend
  <2>3. QED
    BY <1>1, <2>1, <2>2
<1>4. QED
  BY <1>2, <1>3

(* "close" comes after it.                                                   *)
LEMMA TicksClose ==
    ASSUME NEW t \in Seq(Events)
    PROVE  /\ t \o <<"close">> \in Seq(Events)
           /\ Has(t \o <<"close">>, "lookupError") => Has(t, "lookupError")
           /\ Once(t, "close") /\ ~Has(t, "close") => Once(t \o <<"close">>, "close")
<1>1. "close" \in Events /\ "lookupError" \in Events
  BY DEF Events
<1>2. /\ Append(t, "close") \in Seq(Events)
      /\ t \o <<"close">> = Append(t, "close")
      /\ \A y \in Events : Has(Append(t, "close"), y) <=> Has(t, y) \/ "close" = y
      /\ \A y \in Events : Once(t, y) /\ ("close" = y => ~Has(t, y))
                                    => Once(Append(t, "close"), y)
  BY <1>1, TicksAppend
<1>3. QED
  BY <1>1, <1>2

(* What holds of every state that fits, and what a world is made of.         *)
LEMMA HeldParts ==
    ASSUME NEW w, NEW h, Held(w, h)
    PROVE  /\ w \in WorldType /\ w.s \in SocketType /\ w.raw[1] \in RawType
           /\ w.ticks \in Seq(Events) /\ h \in HistoryType
           /\ h.cut \in BOOLEAN /\ h.accepted \in Chunks /\ h.closes \in Nat
           /\ w.crashed = FALSE
           /\ Fits(w.s, w.raw[1], w.ticks, h)
<1>1. w \in WorldType
  BY DEF Held
<1>2. w.s \in SocketType /\ w.raw[1] \in RawType /\ w.ticks \in Seq(Events)
      /\ w.crashed \in BOOLEAN
  BY <1>1, PutsOne
<1>3. QED
  BY <1>1, <1>2 DEF Held, HistoryType

(* A world put together from parts that fit.                                 *)
LEMMA PutHeld ==
    ASSUME NEW w \in WorldType, NEW s \in SocketType, NEW r \in RawType,
           NEW t \in Seq(Events), NEW h \in HistoryType, ~w.crashed,
           Fits(s, r, t, h)
    PROVE  LET d == Put(w, s, r, t)
           IN Held(d, h) /\ d.s = s /\ d.raw[1] = r /\ d.ticks = t
<1> DEFINE d == Put(w, s, r, t)
<1>1. /\ d \in WorldType /\ d.s = s /\ d.raw[1] = r /\ d.ticks = t
      /\ d.crashed = w.crashed
  BY PutParts
<1> HIDE DEF d
<1>2. Held(d, h)
  BY <1>1 DEF Held
<1>3. QED
  BY <1>1, <1>2 DEF d

(* The first _destroy keeps what fits together.                              *)
LEMMA DestroyFits ==
    ASSUME NEW s \in SocketType, NEW r \in RawType, NEW t \in Seq(Events),
           NEW h \in HistoryType, NEW e \in BOOLEAN,
           NEW u \in {<<>>, <<"error">>}, ~s.destroyed, Fits(s, r, t, h)
    PROVE  /\ Fits(Lost(s, e), Released(s, r), t \o u \o <<"close">>, h)
           /\ t \o u \o <<"close">> \in Seq(Events)
<1> DEFINE p == Lost(s, e)
           q == Released(s, r)
           v == t \o u
           z == v \o <<"close">>
<1>1. /\ p \in SocketType
      /\ p.destroyed /\ p._handle = 0 /\ ~p._connecting
      /\ ~p.readable /\ ~p.writable
      /\ p._connectQueue = <<>> /\ p._writeQueue = s._writeQueue
      /\ p._flags = s._flags /\ p.lookup = s.lookup
  BY LostFields
<1>2. /\ q \in RawType
      /\ s._handle = 0 => q = r
      /\ s._handle = 1 /\ r.m_pending_writes > 0 =>
            /\ q.open = r.open /\ q.fin = r.fin /\ q.m_close_pending
            /\ q.readOp = r.readOp /\ q.connectOp = r.connectOp
      /\ s._handle = 1 /\ ~(r.m_pending_writes > 0) =>
            /\ ~q.open /\ q.fin /\ ~q.m_close_pending
            /\ q.readOp = (IF r.readOp = "pending" THEN "error" ELSE r.readOp)
            /\ q.connectOp = (IF r.connectOp = "pending" THEN "error"
                              ELSE r.connectOp)
      /\ s._handle = 1 => ~q.readCb
      /\ q.connected = r.connected /\ q.peer = r.peer
      /\ q.m_pending_writes = r.m_pending_writes
      /\ q.m_write_shutdown_pending = r.m_write_shutdown_pending
      /\ q.writeOp = r.writeOp /\ q.reading = r.reading
      /\ q.shutdownCb = r.shutdownCb
  BY ReleasedFields
<1>3. /\ v \in Seq(Events)
      /\ \A y \in {"close", "lookupError"} :
            /\ Has(v, y) <=> Has(t, y)
            /\ Once(t, y) => Once(v, y)
  BY TicksError
<1> HIDE DEF p, q, v
<1>4. /\ z \in Seq(Events)
      /\ Has(z, "lookupError") => Has(t, "lookupError")
      /\ Once(t, "close") /\ ~Has(t, "close") => Once(z, "close")
  BY <1>3, TicksClose
<1> HIDE DEF z
<1>5. /\ s._handle \in {0, 1}
      /\ Life(s, r) /\ Joining(s, r) /\ OneWrite(r) /\ Shut(s, r) /\ LastRead(s, r)
      /\ Uncut(s, r, h.cut) /\ (Has(t, "lookupError") => h.cut)
      /\ h.closes = 0 /\ Once(t, "close") /\ ~Has(t, "close")
  BY DEF Fits, Sound, SocketType, CloseOnce
<1>6. Life(p, q)
  BY <1>1, <1>2, <1>5 DEF Life
<1>7. Joining(p, q)
  BY <1>1, <1>2, <1>5 DEF Joining
<1>8. OneWrite(q)
  BY <1>2, <1>5 DEF OneWrite
<1>9. Shut(p, q)
  BY <1>1, <1>2, <1>5 DEF Shut
<1>10. LastRead(p, q)
  BY <1>1, <1>2, <1>5 DEF LastRead
<1>11. Uncut(p, q, h.cut)
  BY <1>1, <1>2, <1>5 DEF Uncut, OneWrite
<1>12. CloseOnce(p, z, h.closes)
  BY <1>1, <1>4, <1>5 DEF CloseOnce
<1>13. QED
  BY <1>4, <1>5, <1>6, <1>7, <1>8, <1>9, <1>10, <1>11, <1>12
     DEF Fits, Sound, p, q, v, z

(* A _destroy that finds the socket destroyed reports an error at most.      *)
LEMMA ReportFits ==
    ASSUME NEW s \in SocketType, NEW r \in RawType, NEW t \in Seq(Events),
           NEW h \in HistoryType, NEW e \in BOOLEAN,
           NEW u \in {<<>>, <<"error">>}, Fits(s, r, t, h)
    PROVE  LET p == [s EXCEPT !.errorEmitted = e]
           IN /\ Fits(p, r, t \o u, h)
              /\ p \in SocketType /\ t \o u \in Seq(Events)
              /\ p.destroyed = s.destroyed /\ p._writeQueue = s._writeQueue
              /\ p._connectQueue = s._connectQueue
<1> DEFINE p == [s EXCEPT !.errorEmitted = e]
           v == t \o u
<1>1. /\ p \in SocketType
      /\ p.destroyed = s.destroyed /\ p._handle = s._handle
      /\ p._connecting = s._connecting /\ p.lookup = s.lookup
      /\ p.readable = s.readable /\ p.writable = s.writable
      /\ p._connectQueue = s._connectQueue /\ p._writeQueue = s._writeQueue
      /\ p._flags = s._flags /\ p._pendingWriteReqs = s._pendingWriteReqs
  BY DEF SocketType
<1>2. /\ v \in Seq(Events)
      /\ \A y \in {"close", "lookupError"} :
            /\ Has(v, y) <=> Has(t, y)
            /\ Once(t, y) => Once(v, y)
  BY TicksError
<1> HIDE DEF p, v
<1>3. /\ Life(p, r) /\ Joining(p, r) /\ OneWrite(r) /\ Shut(p, r) /\ LastRead(p, r)
      /\ Uncut(p, r, h.cut)
  BY <1>1 DEF Fits, Sound, Life, Joining, Shut, LastRead, Uncut
<1>4. CloseOnce(p, v, h.closes) /\ (Has(v, "lookupError") => h.cut)
  BY <1>1, <1>2 DEF Fits, CloseOnce
<1>5. QED
  BY <1>1, <1>2, <1>3, <1>4 DEF Fits, Sound, p, v

(* _destroy: nothing is lost that the connection was not cut short of.       *)
LEMMA DestroyKeeps ==
    ASSUME OneConnection, NEW w, NEW h, NEW err \in BOOLEAN, Held(w, h),
           IsPrefix(Given(w.raw[1]), h.accepted),
           h.cut \/ Given(w.raw[1]) = h.accepted
    PROVE  LET d == DoDestroy(w, err)
           IN /\ Good(d, h) /\ d.s.destroyed /\ Queued(d.s, d.raw[1])
              /\ \A b \in BOOLEAN : Delayed(w.raw[1], b) => Delayed(d.raw[1], b)
<1> DEFINE s == w.s
           r == w.raw[1]
           t == w.ticks
           u == Reported(s, err)
           d == DoDestroy(w, err)
<1>1. /\ w \in WorldType /\ s \in SocketType /\ r \in RawType
      /\ t \in Seq(Events) /\ h \in HistoryType /\ ~w.crashed
      /\ h.cut \in BOOLEAN /\ h.accepted \in Chunks
      /\ Fits(s, r, t, h)
  BY HeldParts
<1>2. PICK e \in BOOLEAN :
          /\ s.destroyed => d = Put(w, [s EXCEPT !.errorEmitted = e], r, t \o u)
          /\ ~s.destroyed =>
                d = Put(w, Lost(s, e), Released(s, r), t \o u \o <<"close">>)
  BY <1>1, DestroyIs
<1>3. u \in {<<>>, <<"error">>}
  BY DEF Reported
<1>4. OneWrite(r)
  BY <1>1 DEF Fits, Sound
<1> HIDE DEF d, u
<1>5. CASE s.destroyed
  <2> DEFINE p == [s EXCEPT !.errorEmitted = e]
             v == t \o u
  <2>1. /\ Fits(p, r, v, h) /\ p \in SocketType /\ v \in Seq(Events)
        /\ p.destroyed = s.destroyed
    BY <1>1, <1>3, ReportFits
  <2>2. d = Put(w, p, r, v)
    BY <1>2, <1>5
  <2> HIDE DEF p, v
  <2>3. Held(d, h) /\ d.s = p /\ d.raw[1] = r
    BY <1>1, <2>2, <2>1, PutHeld
  <2>4. Order(p, r, h.accepted, h.cut) /\ Queued(p, r)
    BY <1>5, <2>1 DEF Order, Queued
  <2>5. QED
    BY <1>5, <2>1, <2>3, <2>4 DEF Good, d
<1>6. CASE ~s.destroyed
  <2> DEFINE p == Lost(s, e)
             q == Released(s, r)
             v == t \o u \o <<"close">>
  <2>1. Fits(p, q, v, h) /\ v \in Seq(Events)
    BY <1>1, <1>3, <1>6, DestroyFits
  <2>2. p \in SocketType /\ p.destroyed
    BY <1>1, LostFields
  <2>3. /\ q \in RawType
        /\ s._handle = 0 => q.m_close_pending = r.m_close_pending
        /\ s._handle = 0 => q.fin = r.fin
        /\ s._handle = 1 /\ r.m_pending_writes > 0 => q.fin = r.fin
        /\ s._handle = 1 /\ ~(r.m_pending_writes > 0) => q.fin /\ ~q.m_close_pending
        /\ q.m_pending_writes = r.m_pending_writes
        /\ q.m_write_shutdown_pending = r.m_write_shutdown_pending
        /\ q.writeOp = r.writeOp /\ q.writing = r.writing /\ q.sent = r.sent
    BY <1>1, ReleasedFields
  <2>4. s._handle \in {0, 1}
    BY <1>1 DEF SocketType
  <2>5. d = Put(w, p, q, v)
    BY <1>2, <1>6
  <2> HIDE DEF p, q, v
  <2>6. Held(d, h) /\ d.s = p /\ d.raw[1] = q
    BY <1>1, <2>5, <2>1, <2>2, <2>3, PutHeld
  <2>7. Given(q) = Given(r)
    BY <2>3, GivenSame
  <2>8. Order(p, q, h.accepted, h.cut) /\ Queued(p, q)
    BY <2>2, <2>7 DEF Order, Queued
  <2>9. \A b \in BOOLEAN : Delayed(r, b) => Delayed(q, b)
    BY <1>4, <2>3, <2>4 DEF Delayed, OneWrite
  <2>10. QED
    BY <2>2, <2>6, <2>8, <2>9 DEF Good, d
<1>7. QED
  BY <1>5, <1>6

(* A world put together from parts that make a whole.                        *)
LEMMA PutWhole ==
    ASSUME NEW w \in WorldType, NEW s \in SocketType, NEW r \in RawType,
           NEW t \in Seq(Events), NEW h \in HistoryType, NEW b \in BOOLEAN,
           ~w.crashed, Fits(s, r, t, h), Order(s, r, h.accepted, h.cut),
           Queued(s, r), Delayed(r, b)
    PROVE  Whole(Put(w, s, r, t), h, b)
<1> DEFINE d == Put(w, s, r, t)
<1>1. Held(d, h) /\ d.s = s /\ d.raw[1] = r
  BY PutHeld
<1> HIDE DEF d
<1>2. Whole(d, h, b)
  BY <1>1 DEF Whole, Good
<1>3. QED
  BY <1>2 DEF d

(* And taken apart.                                                          *)
LEMMA WholeParts ==
    ASSUME NEW w, NEW h, NEW b, Whole(w, h, b)
    PROVE  /\ w \in WorldType /\ w.s \in SocketType /\ w.raw[1] \in RawType
           /\ w.ticks \in Seq(Events) /\ h \in HistoryType
           /\ h.cut \in BOOLEAN /\ h.accepted \in Chunks /\ h.closes \in Nat
           /\ w.crashed = FALSE
           /\ Fits(w.s, w.raw[1], w.ticks, h) /\ Held(w, h)
           /\ Order(w.s, w.raw[1], h.accepted, h.cut)
           /\ Queued(w.s, w.raw[1]) /\ Delayed(w.raw[1], b)
<1>1. Held(w, h)
  BY DEF Whole, Good
<1>2. QED
  BY <1>1, HeldParts DEF Whole, Good

(* Two changes one after the other.                                          *)
LEMMA PutTwice ==
    ASSUME NEW w, NEW s, NEW r, NEW t, NEW p, NEW q, NEW u
    PROVE  Put(Put(w, s, r, t), p, q, u) = Put(w, p, q, u)
  BY DEF Put

------------------------------------------------------------------------------
(* destroySoon and finish.                                                   *)

(* The socket does not take any more data, for the reason f.                 *)
Marked(s, f) == [s EXCEPT !.writable = FALSE, !._flags = @ \cup {f}]

(* Its fields.                                                               *)
LEMMA MarkedFields ==
    ASSUME NEW s \in SocketType, NEW f \in FlagNames
    PROVE  LET p == Marked(s, f)
           IN /\ p \in SocketType
              /\ ~p.writable /\ p._flags = s._flags \cup {f}
              /\ p.destroyed = s.destroyed /\ p._handle = s._handle
              /\ p._connecting = s._connecting /\ p.lookup = s.lookup
              /\ p.readable = s.readable
              /\ p._connectQueue = s._connectQueue
              /\ p._writeQueue = s._writeQueue
              /\ p._pendingWriteReqs = s._pendingWriteReqs
<1> DEFINE g == s._flags \cup {f}
<1>1. g \in SUBSET FlagNames
  BY DEF SocketType
<1>2. Marked(s, f) = [s EXCEPT !.writable = FALSE, !._flags = g]
  BY DEF Marked, SocketType
<1> HIDE DEF g
<1>3. QED
  BY <1>1, <1>2 DEF SocketType, g

(* A world with such a socket.                                               *)
LEMMA MarkedPut ==
    ASSUME NEW w \in WorldType, NEW f \in FlagNames
    PROVE  [w EXCEPT !.s.writable = FALSE, !.s._flags = @ \cup {f}]
              = Put(w, Marked(w.s, f), w.raw[1], w.ticks)
<1> DEFINE v == [w EXCEPT !.s.writable = FALSE]
           a == [w.s EXCEPT !.writable = FALSE]
           x == [w EXCEPT !.s.writable = FALSE, !.s._flags = @ \cup {f}]
<1>1. w.s \in SocketType /\ w.raw[1] \in RawType /\ w.ticks \in Seq(Events)
  BY PutsOne
<1>2. a \in SocketType
  BY <1>1 DEF SocketType
<1>3. v = Put(w, a, w.raw[1], w.ticks)
  BY PutsOne
<1>4. x = [v EXCEPT !.s = [v.s EXCEPT !._flags = @ \cup {f}]]
  OBVIOUS
<1> HIDE DEF v, a
<1>5. v \in WorldType /\ v.s = a /\ v.raw[1] = w.raw[1] /\ v.ticks = w.ticks
  BY <1>1, <1>2, <1>3, PutParts
<1> DEFINE c == [v.s EXCEPT !._flags = @ \cup {f}]
<1>6. [v EXCEPT !.s = c] = Put(v, c, v.raw[1], v.ticks)
  BY <1>5, PutsOne
<1>7. c = Marked(w.s, f)
  BY <1>5 DEF Marked, a
<1>8. QED
  BY <1>3, <1>4, <1>5, <1>6, <1>7, PutTwice

(* destroySoon, in the parts of a world.                                     *)
LEMMA DestroySoonIs ==
    ASSUME NEW w \in WorldType
    PROVE  DoDestroySoon(w) =
              LET flagged == Put(w, Marked(w.s, "DESTROY_SOON"), w.raw[1], w.ticks)
              IN IF w.s._pendingWriteReqs = 0 THEN DoDestroy(flagged, FALSE)
                                              ELSE flagged
<1> DEFINE flagged == [w EXCEPT !.s.writable = FALSE,
                                !.s._flags = @ \cup {"DESTROY_SOON"}]
<1>1. flagged = Put(w, Marked(w.s, "DESTROY_SOON"), w.raw[1], w.ticks)
  BY MarkedPut DEF FlagNames
<1>2. DoDestroySoon(w) =
        IF w.s._pendingWriteReqs = 0 THEN DoDestroy(flagged, FALSE) ELSE flagged
  BY Zenon DEF DoDestroySoon
<1> HIDE DEF flagged
<1>3. QED
  BY <1>1, <1>2

(* destroySoon keeps the whole: what waits is written first.                 *)
LEMMA DestroySoonKeeps ==
    ASSUME OneConnection, NEW w, NEW h, NEW b \in BOOLEAN, Whole(w, h, b),
           w.s._connecting => h.cut
    PROVE  Whole(DoDestroySoon(w), h, b)
<1> DEFINE s == w.s
           r == w.raw[1]
           p == Marked(s, "DESTROY_SOON")
           f == Put(w, p, r, w.ticks)
<1>1. /\ w \in WorldType /\ s \in SocketType /\ r \in RawType
      /\ w.ticks \in Seq(Events) /\ h \in HistoryType /\ ~w.crashed
      /\ h.cut \in BOOLEAN /\ h.accepted \in Chunks
      /\ Fits(s, r, w.ticks, h) /\ Order(s, r, h.accepted, h.cut)
      /\ Queued(s, r) /\ Delayed(r, b)
  BY WholeParts
<1>2. /\ p \in SocketType
      /\ ~p.writable /\ p._flags = s._flags \cup {"DESTROY_SOON"}
      /\ p.destroyed = s.destroyed /\ p._handle = s._handle
      /\ p._connecting = s._connecting /\ p.lookup = s.lookup
      /\ p.readable = s.readable
      /\ p._connectQueue = s._connectQueue
      /\ p._writeQueue = s._writeQueue
      /\ p._pendingWriteReqs = s._pendingWriteReqs
  BY <1>1, MarkedFields DEF FlagNames
<1>3. DoDestroySoon(w) = IF s._pendingWriteReqs = 0 THEN DoDestroy(f, FALSE) ELSE f
  BY <1>1, DestroySoonIs
<1> HIDE DEF p
<1>4. Fits(p, r, w.ticks, h)
  <2>1. Life(p, r) /\ Joining(p, r) /\ OneWrite(r) /\ Shut(p, r) /\ LastRead(p, r)
    BY <1>1, <1>2 DEF Fits, Sound, Life, Joining, Shut, LastRead
  <2>2. Uncut(p, r, h.cut) /\ CloseOnce(p, w.ticks, h.closes)
    BY <1>1, <1>2 DEF Fits, Uncut, CloseOnce
  <2>3. QED
    BY <1>1, <2>1, <2>2 DEF Fits, Sound
<1>5. Order(p, r, h.accepted, h.cut) /\ Queued(p, r)
  BY <1>1, <1>2 DEF Order, Queued
<1>6. CASE s._pendingWriteReqs # 0
  <2>1. Whole(f, h, b)
    BY <1>1, <1>2, <1>4, <1>5, PutWhole
  <2>2. QED
    BY <1>3, <1>6, <2>1
<1>7. CASE s._pendingWriteReqs = 0
  <2>1. h.cut \/ Given(r) = h.accepted
    <3>1. CASE s.destroyed
      BY <1>1, <3>1 DEF Order
    <3>2. CASE ~s.destroyed /\ ~s._connecting
      <4>1. r.m_pending_writes = 0
        BY <1>1, <1>7, <3>2 DEF Queued
      <4>2. s._writeQueue = <<>> /\ s._connectQueue = <<>>
        BY <1>1, <3>2, <4>1 DEF Queued
      <4>3. QED
        BY <1>1, <3>2, <4>2, NothingWaits
    <3>3. QED
      BY <3>1, <3>2
  <2>2. Held(f, h) /\ f.s = p /\ f.raw[1] = r
    BY <1>1, <1>2, <1>4, PutHeld
  <2>3. IsPrefix(Given(r), h.accepted)
    BY <1>1 DEF Order
  <2> DEFINE d == DoDestroy(f, FALSE)
  <2> HIDE DEF f
  <2>4. Good(d, h) /\ Queued(d.s, d.raw[1]) /\ Delayed(d.raw[1], b)
    BY <1>1, <2>1, <2>2, <2>3, DestroyKeeps
  <2>5. QED
    BY <1>3, <1>7, <2>4 DEF Whole
<1>8. QED
  BY <1>6, <1>7

Ended(s) == [s EXCEPT !.writable = FALSE]
RawShut(r) == [Raw!Shutdown(r) EXCEPT !.shutdownCb = TRUE]

(* What finish makes of the Lua object at first.                             *)
LEMMA EndedFields ==
    ASSUME NEW s \in SocketType
    PROVE  LET p == Ended(s)
           IN /\ p \in SocketType
              /\ ~p.writable /\ p._flags = s._flags
              /\ p.destroyed = s.destroyed /\ p._handle = s._handle
              /\ p._connecting = s._connecting /\ p.lookup = s.lookup
              /\ p.readable = s.readable
              /\ p._connectQueue = s._connectQueue
              /\ p._writeQueue = s._writeQueue
              /\ p._pendingWriteReqs = s._pendingWriteReqs
              /\ ~s.writable => p = s
  BY DEF SocketType, Ended

(* What finish makes of the C++ socket.                                      *)
LEMMA RawShutFields ==
    ASSUME NEW r \in RawType
    PROVE  LET q == RawShut(r)
           IN /\ q \in RawType
              /\ q.shutdownCb
              /\ (q.m_write_shutdown_pending <=>
                     r.m_write_shutdown_pending \/ r.m_pending_writes > 0)
              /\ (q.fin <=> r.fin \/ ~(r.m_pending_writes > 0))
              /\ q.open = r.open /\ q.m_close_pending = r.m_close_pending
              /\ q.readOp = r.readOp /\ q.connectOp = r.connectOp
              /\ q.connected = r.connected /\ q.peer = r.peer
              /\ q.m_pending_writes = r.m_pending_writes
              /\ q.writeOp = r.writeOp /\ q.writing = r.writing
              /\ q.reading = r.reading /\ q.readCb = r.readCb
              /\ q.sent = r.sent
<1>1. r.posted + 1 \in Int
  BY DEF RawType
<1> DEFINE n == r.posted + 1
<1>2. CASE r.m_pending_writes > 0
  <2> DEFINE q == [r EXCEPT !.m_write_shutdown_pending = TRUE, !.posted = n,
                            !.shutdownCb = TRUE]
  <2>1. RawShut(r) = q
    BY <1>2, Zenon DEF RawShut, Raw!Shutdown
  <2> HIDE DEF n
  <2>2. /\ q \in RawType /\ q.shutdownCb /\ q.m_write_shutdown_pending
        /\ q.fin = r.fin
        /\ q.open = r.open /\ q.m_close_pending = r.m_close_pending
        /\ q.readOp = r.readOp /\ q.connectOp = r.connectOp
        /\ q.connected = r.connected /\ q.peer = r.peer
        /\ q.m_pending_writes = r.m_pending_writes
        /\ q.writeOp = r.writeOp /\ q.writing = r.writing
        /\ q.reading = r.reading /\ q.readCb = r.readCb
        /\ q.sent = r.sent
    BY <1>1 DEF RawType, n
  <2> HIDE DEF q
  <2>3. r.fin \in BOOLEAN
    BY DEF RawType
  <2>4. QED
    BY <1>2, <2>1, <2>2, <2>3
<1>3. CASE ~(r.m_pending_writes > 0)
  <2> DEFINE q == [r EXCEPT !.fin = TRUE, !.posted = n, !.shutdownCb = TRUE]
  <2>1. RawShut(r) = q
    BY <1>3, Zenon DEF RawShut, Raw!Shutdown
  <2> HIDE DEF n
  <2>2. /\ q \in RawType /\ q.shutdownCb /\ q.fin
        /\ q.m_write_shutdown_pending = r.m_write_shutdown_pending
        /\ q.open = r.open /\ q.m_close_pending = r.m_close_pending
        /\ q.readOp = r.readOp /\ q.connectOp = r.connectOp
        /\ q.connected = r.connected /\ q.peer = r.peer
        /\ q.m_pending_writes = r.m_pending_writes
        /\ q.writeOp = r.writeOp /\ q.writing = r.writing
        /\ q.reading = r.reading /\ q.readCb = r.readCb
        /\ q.sent = r.sent
    BY <1>1 DEF RawType, n
  <2> HIDE DEF q
  <2>3. r.m_write_shutdown_pending \in BOOLEAN
    BY DEF RawType
  <2>4. QED
    BY <1>3, <2>1, <2>2, <2>3
<1>4. QED
  BY <1>2, <1>3

(* finish of a socket that is connected, in the parts of a world.            *)
LEMMA FinishConnectedIs ==
    ASSUME NEW w \in WorldType
    PROVE  /\ ~w.s.writable => FinishConnected(w) = w
           /\ w.s.writable /\ ~w.s.readable =>
                FinishConnected(w) =
                    DoDestroySoon(Put(w, Ended(w.s), w.raw[1], w.ticks))
           /\ w.s.writable /\ w.s.readable /\ w.s._handle = 1 =>
                FinishConnected(w) =
                    IF Raw!ShutdownFails(w.raw[1])
                    THEN DoDestroy(Put(w, Marked(w.s, "SHUTDOWN"),
                                       w.raw[1], w.ticks), TRUE)
                    ELSE Put(w, Marked(w.s, "SHUTDOWN"), RawShut(w.raw[1]), w.ticks)
<1> DEFINE a == Ended(w.s)
           v == [w EXCEPT !.s.writable = FALSE]
           c == Marked(w.s, "SHUTDOWN")
           x == [v EXCEPT !.s._flags = @ \cup {"SHUTDOWN"}]
           y == [x EXCEPT !.raw[1] = [Raw!Shutdown(@) EXCEPT !.shutdownCb = TRUE]]
<1>1. w.s \in SocketType /\ w.raw[1] \in RawType /\ w.ticks \in Seq(Events)
  BY PutsOne
<1>2. a \in SocketType /\ c \in SocketType /\ RawShut(w.raw[1]) \in RawType
  BY <1>1, EndedFields, MarkedFields, RawShutFields DEF FlagNames
<1>3. v = Put(w, a, w.raw[1], w.ticks)
  BY PutsOne DEF Ended
<1>4. CASE ~w.s.writable
  <2>1. FinishConnected(w) = w
    BY <1>4, Zenon DEF FinishConnected
  <2>2. QED
    BY <1>4, <2>1
<1>5. CASE w.s.writable /\ ~w.s.readable
  <2>1. FinishConnected(w) = DoDestroySoon(v)
    BY <1>5 DEF FinishConnected
  <2> HIDE DEF v, a
  <2>2. QED
    BY <1>3, <1>5, <2>1 DEF a
<1>6. CASE w.s.writable /\ w.s.readable /\ w.s._handle = 1
  <2>1. FinishConnected(w) = IF Raw!ShutdownFails(w.raw[1]) THEN DoDestroy(x, TRUE) ELSE y
    BY <1>6 DEF FinishConnected
  <2> HIDE DEF v, a
  <2>2. v \in WorldType /\ v.s = a /\ v.raw[1] = w.raw[1] /\ v.ticks = w.ticks
    BY <1>1, <1>2, <1>3, PutParts
  <2>3. x = Put(w, c, w.raw[1], w.ticks)
    <3>1. x = [w EXCEPT !.s.writable = FALSE, !.s._flags = @ \cup {"SHUTDOWN"}]
      BY DEF v
    <3>2. QED
      BY <3>1, MarkedPut DEF FlagNames
  <2> HIDE DEF c
  <2> DEFINE q == RawShut(x.raw[1])
  <2>4. y = [x EXCEPT !.raw[1] = q]
    BY DEF RawShut
  <2> HIDE DEF x
  <2>5. x \in WorldType /\ x.s = c /\ x.raw[1] = w.raw[1] /\ x.ticks = w.ticks
    BY <1>1, <1>2, <2>3, PutParts
  <2> HIDE DEF y, q
  <2>6. y = Put(x, c, q, x.ticks)
    BY <2>4, <2>5, PutsOne
  <2>7. y = Put(w, c, RawShut(w.raw[1]), w.ticks)
    BY <2>3, <2>5, <2>6, PutTwice DEF q
  <2>8. QED
    BY <1>6, <2>1, <2>3, <2>7 DEF c
<1>7. QED
  BY <1>4, <1>5, <1>6

(* finish of a socket that is connected keeps the whole.  It is enough that  *)
(* the socket fits once it does not take data any more: connect_callback     *)
(* makes it writable for a moment, whatever the listeners did to it.         *)
LEMMA FinishConnectedKeeps ==
    ASSUME OneConnection, NEW w \in WorldType, NEW h, NEW b \in BOOLEAN,
           Whole(Put(w, Ended(w.s), w.raw[1], w.ticks), h, b),
           w.s.writable => ~w.s._connecting /\ "SHUTDOWN_QUEUED" \notin w.s._flags
    PROVE  Whole(FinishConnected(w), h, b)
<1> DEFINE s == w.s
           r == w.raw[1]
           t == w.ticks
           a == Ended(s)
           v == Put(w, a, r, t)
           c == Marked(s, "SHUTDOWN")
           q == RawShut(r)
<1>1. s \in SocketType /\ r \in RawType /\ t \in Seq(Events)
  BY PutsOne
<1>2. /\ a \in SocketType
      /\ ~a.writable /\ a._flags = s._flags
      /\ a.destroyed = s.destroyed /\ a._handle = s._handle
      /\ a._connecting = s._connecting /\ a.lookup = s.lookup
      /\ a.readable = s.readable
      /\ a._connectQueue = s._connectQueue
      /\ a._writeQueue = s._writeQueue
      /\ a._pendingWriteReqs = s._pendingWriteReqs
      /\ ~s.writable => a = s
  BY <1>1, EndedFields
<1>3. v \in WorldType /\ v.s = a /\ v.raw[1] = r /\ v.ticks = t /\ v.crashed = w.crashed
  BY <1>1, <1>2, PutParts
<1>4. Whole(v, h, b)
  OBVIOUS
<1> HIDE DEF a, v
<1>5. /\ h \in HistoryType /\ ~w.crashed
      /\ h.cut \in BOOLEAN /\ h.accepted \in Chunks
      /\ Fits(a, r, t, h) /\ Order(a, r, h.accepted, h.cut)
      /\ Queued(a, r) /\ Delayed(r, b)
  BY <1>3, <1>4, WholeParts
<1>6. CASE ~s.writable
  <2>1. v = w
    BY <1>2, <1>6, PutsOne DEF v
  <2>2. QED
    BY <1>6, <1>4, <2>1, FinishConnectedIs
<1>7. CASE s.writable /\ ~s.readable
  <2>1. v.s._connecting => h.cut
    BY <1>2, <1>3, <1>7
  <2>2. FinishConnected(w) = DoDestroySoon(v)
    BY <1>7, FinishConnectedIs DEF v, a
  <2>3. Whole(DoDestroySoon(v), h, b)
    BY <1>4, <2>1, DestroySoonKeeps
  <2>4. QED
    BY <2>2, <2>3
<1>8. CASE s.writable /\ s.readable
  <2>1. /\ Life(a, r) /\ Joining(a, r) /\ OneWrite(r) /\ Shut(a, r) /\ LastRead(a, r)
        /\ Uncut(a, r, h.cut) /\ (Has(t, "lookupError") => h.cut)
        /\ CloseOnce(a, t, h.closes)
    BY <1>5 DEF Fits, Sound
  <2>2. s._handle = 1 /\ ~s.destroyed
    BY <1>2, <1>8, <2>1 DEF Life
  <2>3. /\ c \in SocketType
        /\ ~c.writable /\ c._flags = s._flags \cup {"SHUTDOWN"}
        /\ c.destroyed = s.destroyed /\ c._handle = s._handle
        /\ c._connecting = s._connecting /\ c.lookup = s.lookup
        /\ c.readable = s.readable
        /\ c._connectQueue = s._connectQueue
        /\ c._writeQueue = s._writeQueue
        /\ c._pendingWriteReqs = s._pendingWriteReqs
    BY <1>1, MarkedFields DEF FlagNames
  <2>4. FinishConnected(w) = IF Raw!ShutdownFails(r)
                    THEN DoDestroy(Put(w, c, r, t), TRUE) ELSE Put(w, c, q, t)
    BY <1>8, <2>2, FinishConnectedIs
  <2> HIDE DEF c
  <2>5. CASE Raw!ShutdownFails(r)
    <3>1. h.cut
      BY <2>1, <2>5 DEF Uncut, Raw!ShutdownFails
    <3>2. Fits(c, r, t, h)
      <4>1. Life(c, r) /\ Joining(c, r) /\ LastRead(c, r)
        BY <1>2, <2>1, <2>3 DEF Life, Joining, LastRead
      <4>2. Shut(c, r)
        BY <1>2, <1>8, <2>1, <2>3 DEF Shut
      <4>3. Uncut(c, r, h.cut) /\ CloseOnce(c, t, h.closes)
        BY <1>2, <2>1, <2>3, <3>1 DEF Uncut, CloseOnce
      <4>4. QED
        BY <2>1, <4>1, <4>2, <4>3 DEF Fits, Sound
    <3> DEFINE f == Put(w, c, r, t)
               d == DoDestroy(f, TRUE)
    <3>3. Held(f, h) /\ f.s = c /\ f.raw[1] = r
      BY <1>1, <1>5, <2>3, <3>2, PutHeld
    <3>4. IsPrefix(Given(r), h.accepted)
      BY <1>5 DEF Order
    <3> HIDE DEF f
    <3>5. Good(d, h) /\ Queued(d.s, d.raw[1]) /\ Delayed(d.raw[1], b)
      BY <1>5, <3>1, <3>3, <3>4, DestroyKeeps
    <3>6. QED
      BY <2>4, <2>5, <3>5 DEF Whole, f
  <2>6. CASE ~Raw!ShutdownFails(r)
    <3>1. /\ q \in RawType
          /\ q.shutdownCb
          /\ (q.m_write_shutdown_pending <=>
                 r.m_write_shutdown_pending \/ r.m_pending_writes > 0)
          /\ (q.fin <=> r.fin \/ ~(r.m_pending_writes > 0))
          /\ q.open = r.open /\ q.m_close_pending = r.m_close_pending
          /\ q.readOp = r.readOp /\ q.connectOp = r.connectOp
          /\ q.connected = r.connected /\ q.peer = r.peer
          /\ q.m_pending_writes = r.m_pending_writes
          /\ q.writeOp = r.writeOp /\ q.writing = r.writing
          /\ q.reading = r.reading /\ q.readCb = r.readCb
          /\ q.sent = r.sent
      BY <1>1, RawShutFields
    <3> HIDE DEF q
    <3>2. Life(c, q) /\ Joining(c, q) /\ OneWrite(q) /\ LastRead(c, q)
      BY <1>2, <1>8, <2>1, <2>2, <2>3, <3>1 DEF Life, Joining, OneWrite, LastRead
    <3>3. Shut(c, q)
      BY <1>2, <1>8, <2>1, <2>3, <3>1 DEF Shut
    <3>4. Uncut(c, q, h.cut)
      BY <1>2, <2>1, <2>3, <3>1 DEF Uncut, OneWrite
    <3>5. CloseOnce(c, t, h.closes)
      BY <1>2, <2>1, <2>3 DEF CloseOnce
    <3>6. Fits(c, q, t, h)
      BY <2>1, <3>2, <3>3, <3>4, <3>5 DEF Fits, Sound
    <3>7. Given(q) = Given(r)
      BY <3>1, GivenSame
    <3>8. Order(c, q, h.accepted, h.cut) /\ Queued(c, q)
      <4>1. Order(c, q, h.accepted, h.cut)
        BY <1>2, <1>5, <2>3, <3>7, OrderSame
      <4>2. Queued(c, q)
        <5>1. "GOT_EOF" \notin c._flags
          BY <1>2, <1>8, <2>1, <2>2, <2>3 DEF LastRead
        <5>2. QED
          BY <1>2, <1>5, <2>3, <3>1, <5>1 DEF Queued
      <4>3. QED
        BY <4>1, <4>2
    <3>9. Delayed(q, b)
      <4>1. CASE r.m_pending_writes = 1
        BY <3>1, <4>1 DEF Delayed
      <4>2. CASE r.m_pending_writes = 0
        <5>1. q.fin /\ q.m_close_pending = r.m_close_pending
          BY <3>1, <4>2
        <5>2. r.m_close_pending => b
          BY <1>5, <4>2 DEF Delayed
        <5>3. QED
          BY <5>1, <5>2 DEF Delayed
      <4>3. QED
        BY <2>1, <4>1, <4>2 DEF OneWrite
    <3>10. Whole(Put(w, c, q, t), h, b)
      BY <1>1, <1>5, <2>3, <3>1, <3>6, <3>8, <3>9, PutWhole
    <3>11. QED
      BY <2>4, <2>6, <3>10 DEF q
  <2>7. QED
    BY <2>5, <2>6
<1>9. QED
  BY <1>6, <1>7, <1>8

(* finish keeps the whole.                                                   *)
LEMMA FinishKeeps ==
    ASSUME OneConnection, NEW w, NEW h, NEW b \in BOOLEAN, Whole(w, h, b)
    PROVE  Whole(DoFinish(w), h, b)
<1> DEFINE s == w.s
           r == w.raw[1]
           t == w.ticks
<1>1. /\ w \in WorldType /\ s \in SocketType /\ r \in RawType /\ t \in Seq(Events)
      /\ h \in HistoryType /\ ~w.crashed
      /\ Fits(s, r, t, h) /\ Order(s, r, h.accepted, h.cut)
      /\ Queued(s, r) /\ Delayed(r, b)
  BY WholeParts
<1>2. /\ Life(s, r) /\ Joining(s, r) /\ OneWrite(r) /\ Shut(s, r) /\ LastRead(s, r)
      /\ Uncut(s, r, h.cut) /\ (Has(t, "lookupError") => h.cut)
      /\ CloseOnce(s, t, h.closes)
  BY <1>1 DEF Fits, Sound
<1>3. CASE s._connecting /\ "SHUTDOWN_QUEUED" \notin s._flags
  <2> DEFINE c == Marked(s, "SHUTDOWN_QUEUED")
  <2>1. /\ c \in SocketType
        /\ ~c.writable /\ c._flags = s._flags \cup {"SHUTDOWN_QUEUED"}
        /\ c.destroyed = s.destroyed /\ c._handle = s._handle
        /\ c._connecting = s._connecting /\ c.lookup = s.lookup
        /\ c.readable = s.readable
        /\ c._connectQueue = s._connectQueue
        /\ c._writeQueue = s._writeQueue
        /\ c._pendingWriteReqs = s._pendingWriteReqs
    BY <1>1, MarkedFields DEF FlagNames
  <2>2. DoFinish(w) = [w EXCEPT !.s.writable = FALSE,
                                !.s._flags = @ \cup {"SHUTDOWN_QUEUED"}]
    BY <1>3, Zenon DEF DoFinish
  <2>3. DoFinish(w) = Put(w, c, r, t)
    BY <1>1, <2>2, MarkedPut DEF FlagNames
  <2> HIDE DEF c
  <2>4. Life(c, r) /\ Joining(c, r) /\ Shut(c, r) /\ LastRead(c, r)
    BY <1>2, <1>3, <2>1 DEF Life, Joining, Shut, LastRead
  <2>5. Uncut(c, r, h.cut) /\ CloseOnce(c, t, h.closes)
    BY <1>2, <2>1 DEF Uncut, CloseOnce
  <2>6. Fits(c, r, t, h)
    BY <1>2, <2>4, <2>5 DEF Fits, Sound
  <2>7. Order(c, r, h.accepted, h.cut) /\ Queued(c, r)
    BY <1>1, <2>1 DEF Order, Queued
  <2>8. QED
    BY <1>1, <2>1, <2>3, <2>6, <2>7, PutWhole
<1>4. CASE ~(s._connecting /\ "SHUTDOWN_QUEUED" \notin s._flags)
  <2> DEFINE a == Ended(s)
  <2>1. DoFinish(w) = FinishConnected(w)
    BY <1>4, Zenon DEF DoFinish
  <2>2. s.writable => ~s._connecting /\ "SHUTDOWN_QUEUED" \notin s._flags
    BY <1>2, <1>4 DEF Shut
  <2>3. /\ a \in SocketType
        /\ ~a.writable /\ a._flags = s._flags
        /\ a.destroyed = s.destroyed /\ a._handle = s._handle
        /\ a._connecting = s._connecting /\ a.lookup = s.lookup
        /\ a.readable = s.readable
        /\ a._connectQueue = s._connectQueue
        /\ a._writeQueue = s._writeQueue
        /\ a._pendingWriteReqs = s._pendingWriteReqs
    BY <1>1, EndedFields
  <2> HIDE DEF a
  <2>4. Life(a, r) /\ Joining(a, r) /\ Shut(a, r) /\ LastRead(a, r)
    BY <1>2, <2>3 DEF Life, Joining, Shut, LastRead
  <2>5. Uncut(a, r, h.cut) /\ CloseOnce(a, t, h.closes)
    BY <1>2, <2>3 DEF Uncut, CloseOnce
  <2>6. Fits(a, r, t, h)
    BY <1>2, <2>4, <2>5 DEF Fits, Sound
  <2>7. Order(a, r, h.accepted, h.cut) /\ Queued(a, r)
    BY <1>1, <2>3 DEF Order, Queued
  <2>8. Whole(Put(w, a, r, t), h, b)
    BY <1>1, <2>3, <2>6, <2>7, PutWhole
  <2>9. Whole(FinishConnected(w), h, b)
    BY <1>1, <2>2, <2>8, FinishConnectedKeeps DEF a
  <2>10. QED
    BY <2>1, <2>9
<1>5. QED
  BY <1>3, <1>4

------------------------------------------------------------------------------
(* The callbacks of the C++ socket.                                          *)

(* The shutdown callback finds what it asserts, and has nothing to do: when  *)
(* the other side has ended, onread has destroyed the socket before.         *)
LEMMA ShutdownCallbackIdle ==
    ASSUME OneConnection, NEW w, NEW h, Good(w, h), Queued(w.s, w.raw[1])
    PROVE  ShutdownCallback(w, 1) = w
<1> DEFINE s == w.s
           r == w.raw[1]
<1>1. /\ s \in SocketType /\ r \in RawType /\ Fits(s, r, w.ticks, h)
  BY HeldParts DEF Good
<1>2. Life(s, r) /\ Joining(s, r) /\ Shut(s, r) /\ LastRead(s, r)
  BY <1>1 DEF Fits, Sound
<1>3. CASE ~r.shutdownCb
  BY <1>3, Zenon DEF ShutdownCallback
<1>4. CASE r.shutdownCb
  <2>1. "SHUTDOWN" \in s._flags /\ ~s.writable
    BY <1>2, <1>4 DEF Shut
  <2>2. r # Raw!NoSocket /\ ~s._connecting
    BY <1>2, <1>4 DEF Raw!NoSocket, Raw!NewRawSocket, Joining
  <2>3. ~s.destroyed => s._handle = 1
    BY <1>1, <1>2, <2>2 DEF Life, SocketType
  <2>4. s.destroyed \/ ("GOT_EOF" \notin s._flags /\ s.readable)
    BY <1>2, <1>4, <2>2, <2>3 DEF LastRead, Queued
  <2>5. QED
    BY <1>4, <2>1, <2>4, Zenon DEF ShutdownCallback
<1>5. QED
  BY <1>3, <1>4

(* A delayed shutdown that is due ends our side.                             *)
LEMMA ShutdownDueKeeps ==
    ASSUME OneConnection, NEW w, NEW h, Good(w, h), Queued(w.s, w.raw[1]),
           Raw!ShutdownDue(w.raw[1])
    PROVE  LET v == [w EXCEPT !.raw[1].fin = TRUE]
           IN Good(v, h) /\ Queued(v.s, v.raw[1]) /\ v.raw[1].fin
<1> DEFINE v == [w EXCEPT !.raw[1].fin = TRUE]
           a == w.raw[1]
           c == [a EXCEPT !.fin = TRUE]
<1>1. /\ Held(w, h) /\ w \in WorldType /\ w.s \in SocketType /\ a \in RawType
      /\ w.ticks \in Seq(Events) /\ h \in HistoryType /\ ~w.crashed
      /\ Fits(w.s, a, w.ticks, h) /\ Order(w.s, a, h.accepted, h.cut)
      /\ h.cut \in BOOLEAN
  BY HeldParts DEF Good
<1>2. v = [w EXCEPT !.raw[1] = c]
  OBVIOUS
<1>3. v = Put(w, w.s, c, w.ticks)
  BY <1>1, <1>2, PutsOne
<1>4. a.m_write_shutdown_pending /\ a.m_pending_writes = 0
  BY DEF Raw!ShutdownDue
<1>5. /\ c \in RawType /\ c.fin
      /\ c.open = a.open /\ c.connected = a.connected /\ c.peer = a.peer
      /\ c.m_pending_writes = a.m_pending_writes
      /\ c.m_write_shutdown_pending = a.m_write_shutdown_pending
      /\ c.m_close_pending = a.m_close_pending
      /\ c.writeOp = a.writeOp /\ c.writing = a.writing
      /\ c.readOp = a.readOp /\ c.connectOp = a.connectOp
      /\ c.reading = a.reading /\ c.readCb = a.readCb
      /\ c.shutdownCb = a.shutdownCb /\ c.sent = a.sent
  BY <1>1 DEF RawType
<1>6. a # Raw!NoSocket
  BY <1>4 DEF Raw!NoSocket, Raw!NewRawSocket
<1> HIDE DEF c, v
<1>7. /\ Life(w.s, a) /\ Joining(w.s, a) /\ OneWrite(a) /\ Shut(w.s, a)
      /\ LastRead(w.s, a) /\ Uncut(w.s, a, h.cut)
  BY <1>1 DEF Fits, Sound
<1>8. Life(w.s, c) /\ Joining(w.s, c) /\ OneWrite(c) /\ Shut(w.s, c)
      /\ LastRead(w.s, c)
  BY <1>4, <1>5, <1>6, <1>7 DEF Life, Joining, OneWrite, Shut, LastRead
<1>9. Uncut(w.s, c, h.cut)
  BY <1>4, <1>5, <1>7 DEF Uncut
<1>10. Fits(w.s, c, w.ticks, h)
  BY <1>1, <1>8, <1>9 DEF Fits, Sound
<1>11. Held(v, h) /\ v.s = w.s /\ v.raw[1] = c
  BY <1>1, <1>3, <1>5, <1>10, PutHeld
<1>12. Given(c) = Given(a)
  BY <1>5, GivenSame
<1>13. Good(v, h)
  BY <1>1, <1>11, <1>12, OrderSame DEF Good
<1>14. Queued(v.s, v.raw[1])
  BY <1>5, <1>11 DEF Queued
<1>15. QED
  BY <1>5, <1>11, <1>13, <1>14 DEF v

(* HandleWrite closes the socket when that was delayed, and leaves nothing   *)
(* delayed that no write would carry out.                                    *)
LEMMA CloseCallbackKeeps ==
    ASSUME OneConnection, NEW x, NEW h, Good(x, h), Queued(x.s, x.raw[1]),
           x.raw[1].m_write_shutdown_pending /\ x.raw[1].m_pending_writes = 0
             => x.raw[1].fin
    PROVE  Whole([x EXCEPT !.raw[1] = Raw!CallCloseCallback(@)], h, FALSE)
<1> DEFINE r == x.raw[1]
           q == Raw!CallCloseCallback(r)
<1>1. /\ Held(x, h) /\ x \in WorldType /\ x.s \in SocketType /\ r \in RawType
      /\ x.ticks \in Seq(Events) /\ h \in HistoryType /\ ~x.crashed
      /\ Fits(x.s, r, x.ticks, h) /\ Order(x.s, r, h.accepted, h.cut)
      /\ h.cut \in BOOLEAN
  BY HeldParts DEF Good
<1>2. /\ Life(x.s, r) /\ Joining(x.s, r) /\ OneWrite(r) /\ Shut(x.s, r)
      /\ LastRead(x.s, r) /\ Uncut(x.s, r, h.cut)
      /\ (Has(x.ticks, "lookupError") => h.cut) /\ CloseOnce(x.s, x.ticks, h.closes)
  BY <1>1 DEF Fits, Sound
<1>3. CASE ~(r.m_close_pending /\ r.m_pending_writes = 0)
  <2>1. q = r
    BY <1>3, Zenon DEF Raw!CallCloseCallback
  <2>2. [x EXCEPT !.raw[1] = q] = x
    <3>1. [x EXCEPT !.raw[1] = q] = Put(x, x.s, q, x.ticks)
      BY <1>1, <2>1, PutsOne
    <3>2. QED
      BY <1>1, <2>1, <3>1, PutsOne
  <2>3. Delayed(r, FALSE)
    BY <1>2, <1>3 DEF Delayed, OneWrite
  <2>4. QED
    BY <2>2, <2>3 DEF Whole
<1>4. CASE r.m_close_pending /\ r.m_pending_writes = 0
  <2> DEFINE c == Raw!CloseNow(r)
  <2>1. q = c
    BY <1>4, Zenon DEF Raw!CallCloseCallback
  <2>2. r # Raw!NoSocket
    BY <1>4 DEF Raw!NoSocket, Raw!NewRawSocket
  <2>3. x.s._handle = 0 /\ x.s.destroyed /\ ~r.readCb
    BY <1>1, <1>2, <1>4, <2>2 DEF Life, SocketType
  <2>4. /\ c \in RawType
        /\ ~c.open /\ c.fin /\ ~c.m_close_pending
        /\ c.readOp = (IF r.readOp = "pending" THEN "error" ELSE r.readOp)
        /\ c.connectOp = (IF r.connectOp = "pending" THEN "error"
                          ELSE r.connectOp)
        /\ c.connected = r.connected /\ c.peer = r.peer
        /\ c.m_pending_writes = r.m_pending_writes
        /\ c.m_write_shutdown_pending = r.m_write_shutdown_pending
        /\ c.writeOp = r.writeOp /\ c.writing = r.writing
        /\ c.reading = r.reading /\ c.readCb = r.readCb
        /\ c.shutdownCb = r.shutdownCb /\ c.sent = r.sent
    BY <1>1, CloseNowFields
  <2> HIDE DEF c, q
  <2>5. [x EXCEPT !.raw[1] = q] = Put(x, x.s, c, x.ticks)
    BY <1>1, <2>1, PutsOne
  <2>6. Life(x.s, c) /\ Joining(x.s, c) /\ OneWrite(c) /\ Shut(x.s, c)
        /\ LastRead(x.s, c)
    BY <1>2, <1>4, <2>3, <2>4 DEF Life, Joining, OneWrite, Shut, LastRead
  <2>7. Uncut(x.s, c, h.cut)
    BY <1>2, <1>4, <2>4 DEF Uncut
  <2>8. Fits(x.s, c, x.ticks, h)
    BY <1>2, <2>6, <2>7 DEF Fits, Sound
  <2>9. Given(c) = Given(r)
    BY <2>4, GivenSame
  <2>10. Order(x.s, c, h.accepted, h.cut)
    BY <1>1, <2>9, OrderSame
  <2>11. Queued(x.s, c) /\ Delayed(c, FALSE)
    BY <2>3, <2>4 DEF Queued, Delayed
  <2>12. QED
    <3>1. Whole(Put(x, x.s, c, x.ticks), h, FALSE)
      BY <1>1, <2>4, <2>8, <2>10, <2>11, PutWhole
    <3>2. QED
      BY <2>5, <3>1, Zenon DEF q
<1>5. QED
  BY <1>3, <1>4

(* What HandleWrite does after the Lua callback leaves nothing delayed that  *)
(* no write would carry out.                                                 *)
LEMMA HandleWriteEndsKeeps ==
    ASSUME OneConnection, NEW w, NEW h, Good(w, h), Queued(w.s, w.raw[1])
    PROVE  Whole(HandleWriteEnds(w, 1), h, FALSE)
<1> DEFINE v == [w EXCEPT !.raw[1].fin = TRUE]
           x == IF Raw!ShutdownDue(w.raw[1]) THEN ShutdownCallback(v, 1) ELSE w
           r == x.raw[1]
           q == Raw!CallCloseCallback(r)
<1>1. HandleWriteEnds(w, 1) = [x EXCEPT !.raw[1] = q]
  BY Zenon DEF HandleWriteEnds
<1>2. /\ Good(x, h) /\ Queued(x.s, r)
      /\ r.m_write_shutdown_pending /\ r.m_pending_writes = 0 => r.fin
  <2>1. CASE ~Raw!ShutdownDue(w.raw[1])
    <3>1. x = w
      BY <2>1
    <3>2. QED
      BY <2>1, <3>1 DEF Raw!ShutdownDue
  <2>2. CASE Raw!ShutdownDue(w.raw[1])
    <3>1. Good(v, h) /\ Queued(v.s, v.raw[1]) /\ v.raw[1].fin
      BY <2>2, ShutdownDueKeeps
    <3>2. x = v
      BY <2>2, <3>1, ShutdownCallbackIdle
    <3>3. QED
      BY <3>1, <3>2
  <2>3. QED
    BY <2>1, <2>2
<1> HIDE DEF x
<1>3. QED
  BY <1>1, <1>2, CloseCallbackKeeps

------------------------------------------------------------------------------
(* Reads.                                                                    *)

(* The read of a socket that is connected and has not seen the end.          *)
LEMMA StartReadKeeps ==
    ASSUME OneConnection, NEW w, NEW h, NEW b \in BOOLEAN, Whole(w, h, b),
           w.s._handle = 1, ~w.s._connecting
    PROVE  Whole(StartRead(w), h, b)
<1> DEFINE s == w.s
           r == w.raw[1]
           t == w.ticks
           q == [r EXCEPT !.readOp = "pending", !.reading = TRUE]
<1>1. /\ w \in WorldType /\ s \in SocketType /\ r \in RawType /\ t \in Seq(Events)
      /\ h \in HistoryType /\ ~w.crashed /\ h.cut \in BOOLEAN
      /\ Fits(s, r, t, h) /\ Order(s, r, h.accepted, h.cut)
      /\ Queued(s, r) /\ Delayed(r, b)
  BY WholeParts
<1>2. /\ Life(s, r) /\ Joining(s, r) /\ OneWrite(r) /\ Shut(s, r) /\ LastRead(s, r)
      /\ Uncut(s, r, h.cut) /\ (Has(t, "lookupError") => h.cut)
      /\ CloseOnce(s, t, h.closes)
  BY <1>1 DEF Fits, Sound
<1>3. CASE r.reading
  <2>1. StartRead(w) = w
    BY <1>3 DEF StartRead
  <2>2. QED
    BY <2>1
<1>4. CASE ~r.reading
  <2>1. StartRead(w) = [w EXCEPT !.raw[1] = q]
    BY <1>4 DEF StartRead, Raw!Read
  <2>2. /\ q \in RawType /\ q.readOp = "pending" /\ q.reading
        /\ q.open = r.open /\ q.connected = r.connected /\ q.peer = r.peer
        /\ q.fin = r.fin
        /\ q.m_pending_writes = r.m_pending_writes
        /\ q.m_write_shutdown_pending = r.m_write_shutdown_pending
        /\ q.m_close_pending = r.m_close_pending
        /\ q.writeOp = r.writeOp /\ q.writing = r.writing
        /\ q.connectOp = r.connectOp /\ q.readCb = r.readCb
        /\ q.shutdownCb = r.shutdownCb /\ q.sent = r.sent
    BY <1>1 DEF RawType
  <2> HIDE DEF q
  <2>3. StartRead(w) = Put(w, s, q, t)
    BY <1>1, <2>1, PutsOne
  <2>4. Life(s, q) /\ Joining(s, q) /\ OneWrite(q) /\ Shut(s, q) /\ LastRead(s, q)
    BY <1>2, <1>4, <2>2 DEF Life, Joining, OneWrite, Shut, LastRead
  <2>5. Uncut(s, q, h.cut)
    BY <1>2, <2>2 DEF Uncut
  <2>6. Fits(s, q, t, h)
    BY <1>2, <2>4, <2>5 DEF Fits, Sound
  <2>7. Given(q) = Given(r)
    BY <2>2, GivenSame
  <2>8. Order(s, q, h.accepted, h.cut)
    BY <1>1, <2>7, OrderSame
  <2>9. Queued(s, q) /\ Delayed(q, b)
    BY <1>1, <2>2 DEF Queued, Delayed
  <2>10. QED
    BY <1>1, <2>2, <2>3, <2>6, <2>8, <2>9, PutWhole
<1>5. QED
  BY <1>3, <1>4

(* Socket:pause and what Socket:resume does first.                           *)
LEMMA PausedKeeps ==
    ASSUME OneConnection, NEW w, NEW h, NEW b \in BOOLEAN, Whole(w, h, b),
           NEW paused \in BOOLEAN
    PROVE  LET d == [w EXCEPT !.s._paused = paused]
           IN Whole(d, h, b) /\ d.s._handle = w.s._handle
              /\ d.s._connecting = w.s._connecting
<1> DEFINE s == w.s
           r == w.raw[1]
           t == w.ticks
           p == [s EXCEPT !._paused = paused]
           d == [w EXCEPT !.s._paused = paused]
<1>1. /\ w \in WorldType /\ s \in SocketType /\ r \in RawType /\ t \in Seq(Events)
      /\ h \in HistoryType /\ ~w.crashed /\ h.cut \in BOOLEAN
      /\ Fits(s, r, t, h) /\ Order(s, r, h.accepted, h.cut)
      /\ Queued(s, r) /\ Delayed(r, b)
  BY WholeParts
<1>2. /\ p \in SocketType
      /\ p.writable = s.writable /\ p._flags = s._flags
      /\ p.destroyed = s.destroyed /\ p._handle = s._handle
      /\ p._connecting = s._connecting /\ p.lookup = s.lookup
      /\ p.readable = s.readable
      /\ p._connectQueue = s._connectQueue
      /\ p._writeQueue = s._writeQueue
      /\ p._pendingWriteReqs = s._pendingWriteReqs
  BY <1>1 DEF SocketType
<1>3. d = [w EXCEPT !.s = p]
  OBVIOUS
<1> HIDE DEF p, d
<1>4. d = Put(w, p, r, t)
  BY <1>1, <1>3, PutsOne
<1>5. Fits(p, r, t, h)
  BY <1>1, <1>2 DEF Fits, Sound, Life, Joining, Shut, LastRead, Uncut, CloseOnce
<1>6. Order(p, r, h.accepted, h.cut) /\ Queued(p, r)
  BY <1>1, <1>2 DEF Order, Queued
<1>7. Whole(d, h, b)
  BY <1>1, <1>2, <1>4, <1>5, <1>6, PutWhole
<1>8. d.s = p
  BY <1>1, <1>2, <1>4, PutParts
<1>9. QED
  BY <1>2, <1>7, <1>8 DEF d

(* Socket:resume keeps the whole.                                            *)
LEMMA ResumeKeeps ==
    ASSUME OneConnection, NEW w, NEW h, NEW b \in BOOLEAN, Whole(w, h, b)
    PROVE  Whole(DoResume(w), h, b)
<1> DEFINE d == [w EXCEPT !.s._paused = FALSE]
<1>1. /\ Whole(d, h, b) /\ d.s._handle = w.s._handle
      /\ d.s._connecting = w.s._connecting
  BY PausedKeeps
<1>2. DoResume(w) = IF w.s._handle # 0 /\ ~w.s._connecting THEN StartRead(d) ELSE d
  BY Zenon DEF DoResume, NoHandle
<1> HIDE DEF d
<1>3. CASE w.s._handle # 0 /\ ~w.s._connecting
  <2>1. d.s._handle = 1
    BY <1>1, <1>3, WholeParts DEF SocketType
  <2>2. QED
    BY <1>1, <1>2, <1>3, <2>1, StartReadKeeps
<1>4. CASE ~(w.s._handle # 0 /\ ~w.s._connecting)
  BY <1>1, <1>2, <1>4
<1>5. QED
  BY <1>3, <1>4

------------------------------------------------------------------------------
(* Writes.                                                                   *)

Requested(s) == [s EXCEPT !._pendingWriteReqs = @ + 1]
Waiting(s, x) == [s EXCEPT !._writeQueue = Append(@, x)]

(* A chunk given to the kernel.                                              *)
LEMMA RawWriteFields ==
    ASSUME NEW r \in RawType, NEW x \in Nat
    PROVE  LET q == Raw!Write(r, x)
           IN /\ q \in RawType
              /\ q.m_pending_writes = r.m_pending_writes + 1
              /\ q.writeOp = "pending" /\ q.writing = x
              /\ q.open = r.open /\ q.connected = r.connected /\ q.peer = r.peer
              /\ q.fin = r.fin
              /\ q.m_write_shutdown_pending = r.m_write_shutdown_pending
              /\ q.m_close_pending = r.m_close_pending
              /\ q.readOp = r.readOp /\ q.connectOp = r.connectOp
              /\ q.reading = r.reading /\ q.readCb = r.readCb
              /\ q.shutdownCb = r.shutdownCb /\ q.sent = r.sent
<1> DEFINE n == r.m_pending_writes + 1
<1>1. n \in Int
  BY DEF RawType
<1>2. Raw!Write(r, x) =
        [r EXCEPT !.m_pending_writes = n, !.writeOp = "pending", !.writing = x]
  BY Zenon DEF Raw!Write
<1> HIDE DEF n
<1> DEFINE q == [r EXCEPT !.m_pending_writes = n, !.writeOp = "pending",
                          !.writing = x]
<1>3. /\ q \in RawType
      /\ q.m_pending_writes = n
      /\ q.writeOp = "pending" /\ q.writing = x
      /\ q.open = r.open /\ q.connected = r.connected /\ q.peer = r.peer
      /\ q.fin = r.fin
      /\ q.m_write_shutdown_pending = r.m_write_shutdown_pending
      /\ q.m_close_pending = r.m_close_pending
      /\ q.readOp = r.readOp /\ q.connectOp = r.connectOp
      /\ q.reading = r.reading /\ q.readCb = r.readCb
      /\ q.shutdownCb = r.shutdownCb /\ q.sent = r.sent
  BY <1>1 DEF RawType
<1> HIDE DEF q
<1>4. QED
  BY <1>2, <1>3 DEF q, n

(* The Lua object counts it, or keeps it.                                    *)
LEMMA RequestedFields ==
    ASSUME NEW s \in SocketType, NEW x \in Nat
    PROVE  /\ LET p == Requested(s)
              IN /\ p \in SocketType
                 /\ p._pendingWriteReqs = s._pendingWriteReqs + 1
                 /\ p.writable = s.writable /\ p._flags = s._flags
                 /\ p.destroyed = s.destroyed /\ p._handle = s._handle
                 /\ p._connecting = s._connecting /\ p.lookup = s.lookup
                 /\ p.readable = s.readable
                 /\ p._connectQueue = s._connectQueue
                 /\ p._writeQueue = s._writeQueue
           /\ LET p == Waiting(s, x)
              IN /\ p \in SocketType
                 /\ p._writeQueue = Append(s._writeQueue, x)
                 /\ p._pendingWriteReqs = s._pendingWriteReqs
                 /\ p.writable = s.writable /\ p._flags = s._flags
                 /\ p.destroyed = s.destroyed /\ p._handle = s._handle
                 /\ p._connecting = s._connecting /\ p.lookup = s.lookup
                 /\ p.readable = s.readable
                 /\ p._connectQueue = s._connectQueue
<1> DEFINE n == s._pendingWriteReqs + 1
           y == Append(s._writeQueue, x)
<1>1. n \in Int /\ y \in Chunks
  <2>1. s._pendingWriteReqs \in Int /\ s._writeQueue \in Chunks
    BY DEF SocketType
  <2>2. y \in Chunks
    BY <2>1, OneMore
  <2>3. QED
    BY <2>1, <2>2
<1>2. /\ Requested(s) = [s EXCEPT !._pendingWriteReqs = n]
      /\ Waiting(s, x) = [s EXCEPT !._writeQueue = y]
  BY DEF Requested, Waiting
<1> HIDE DEF n, y
<1>3. LET p == [s EXCEPT !._pendingWriteReqs = n]
      IN /\ p \in SocketType
         /\ p._pendingWriteReqs = n
         /\ p.writable = s.writable /\ p._flags = s._flags
         /\ p.destroyed = s.destroyed /\ p._handle = s._handle
         /\ p._connecting = s._connecting /\ p.lookup = s.lookup
         /\ p.readable = s.readable
         /\ p._connectQueue = s._connectQueue
         /\ p._writeQueue = s._writeQueue
  BY <1>1 DEF SocketType
<1>4. LET p == [s EXCEPT !._writeQueue = y]
      IN /\ p \in SocketType
         /\ p._writeQueue = y
         /\ p._pendingWriteReqs = s._pendingWriteReqs
         /\ p.writable = s.writable /\ p._flags = s._flags
         /\ p.destroyed = s.destroyed /\ p._handle = s._handle
         /\ p._connecting = s._connecting /\ p.lookup = s.lookup
         /\ p.readable = s.readable
         /\ p._connectQueue = s._connectQueue
  BY <1>1 DEF SocketType
<1>5. QED
  BY <1>2, <1>3, <1>4 DEF n, y

(* _write, in the parts of a world.                                          *)
LEMMA DoWriteIs ==
    ASSUME NEW w \in WorldType, NEW x \in Nat, w.s._handle = 1
    PROVE  DoWrite(w, x) =
              IF w.raw[1].m_pending_writes = 0
              THEN Put(w, Requested(w.s), Raw!Write(w.raw[1], x), w.ticks)
              ELSE Put(w, Waiting(w.s, x), w.raw[1], w.ticks)
<1> DEFINE q == Raw!Write(w.raw[1], x)
           v == [w EXCEPT !.raw[1] = q]
           y == [v EXCEPT !.s._pendingWriteReqs = @ + 1]
           z == [w EXCEPT !.s._writeQueue = Append(@, x)]
<1>1. w.s \in SocketType /\ w.raw[1] \in RawType /\ w.ticks \in Seq(Events)
  BY PutsOne
<1>2. DoWrite(w, x) = IF w.raw[1].m_pending_writes = 0 THEN y ELSE z
  BY DEF DoWrite, NoHandle, Raw!CanWrite
<1>3. z = Put(w, Waiting(w.s, x), w.raw[1], w.ticks)
  BY PutsOne DEF Waiting
<1>4. v = Put(w, w.s, q, w.ticks)
  BY PutsOne
<1>5. q \in RawType
  BY <1>1, RawWriteFields
<1> HIDE DEF z, v, q
<1>6. y = [v EXCEPT !.s = Requested(v.s)]
  BY DEF Requested
<1>7. v \in WorldType /\ v.s = w.s /\ v.raw[1] = q /\ v.ticks = w.ticks
  BY <1>1, <1>4, <1>5, PutParts
<1>8. y = Put(v, Requested(v.s), v.raw[1], v.ticks)
  BY <1>6, <1>7, PutsOne
<1> HIDE DEF y
<1>9. y = Put(w, Requested(w.s), q, w.ticks)
  BY <1>4, <1>7, <1>8, PutTwice
<1>10. QED
  BY <1>2, <1>3, <1>9 DEF q

(* The history after a write: one chunk more, and the connection is cut      *)
(* short when finish was called before.                                      *)
Wrote(h, g, s, x) ==
    /\ g \in HistoryType /\ g.accepted = Append(h.accepted, x)
    /\ g.closes = h.closes /\ (g.cut <=> h.cut \/ ~s.writable)

(* Socket:write on a connection that is up.                                  *)
LEMMA WriteKeeps ==
    ASSUME OneConnection, NEW w, NEW h, NEW g, NEW b \in BOOLEAN, NEW x \in Nat,
           Whole(w, h, b), w.s._handle = 1, ~w.s._connecting, Wrote(h, g, w.s, x)
    PROVE  Whole(DoWrite(w, x), g, b)
<1> DEFINE s == w.s
           r == w.raw[1]
           t == w.ticks
<1>1. /\ w \in WorldType /\ s \in SocketType /\ r \in RawType /\ t \in Seq(Events)
      /\ h \in HistoryType /\ ~w.crashed /\ h.cut \in BOOLEAN
      /\ h.accepted \in Chunks
      /\ Fits(s, r, t, h) /\ Order(s, r, h.accepted, h.cut)
      /\ Queued(s, r) /\ Delayed(r, b)
  BY WholeParts
<1>2. /\ Life(s, r) /\ Joining(s, r) /\ OneWrite(r) /\ Shut(s, r) /\ LastRead(s, r)
      /\ Uncut(s, r, h.cut) /\ (Has(t, "lookupError") => h.cut)
      /\ CloseOnce(s, t, h.closes)
  BY <1>1 DEF Fits, Sound
<1>3. ~s.destroyed /\ r.open /\ r.connected /\ r.connectOp = "none"
  BY <1>2 DEF Life, Joining
<1>4. /\ Given(r) \in Chunks /\ s._writeQueue \in Chunks /\ s._connectQueue = <<>>
      /\ Given(r) \o s._writeQueue \o <<>> = h.accepted
      /\ s._pendingWriteReqs = r.m_pending_writes
  BY <1>1, <1>3, GivenChunks DEF Queued, Order, SocketType
<1>5. /\ g.accepted = Append(h.accepted, x) /\ g.accepted \in Chunks
      /\ g.closes = h.closes /\ (g.cut <=> h.cut \/ ~s.writable)
      /\ g \in HistoryType
  BY DEF Wrote, HistoryType
<1>6. Given(r) \o s._writeQueue = h.accepted
  BY <1>4, BeginsWith, OneMore
<1>7. CASE r.m_pending_writes = 0
  <2> DEFINE p == Requested(s)
             q == Raw!Write(r, x)
  <2>1. /\ p \in SocketType
        /\ p._pendingWriteReqs = s._pendingWriteReqs + 1
        /\ p.writable = s.writable /\ p._flags = s._flags
        /\ p.destroyed = s.destroyed /\ p._handle = s._handle
        /\ p._connecting = s._connecting /\ p.lookup = s.lookup
        /\ p.readable = s.readable
        /\ p._connectQueue = s._connectQueue
        /\ p._writeQueue = s._writeQueue
    BY <1>1, RequestedFields
  <2>2. /\ q \in RawType
        /\ q.m_pending_writes = r.m_pending_writes + 1
        /\ q.writeOp = "pending" /\ q.writing = x
        /\ q.open = r.open /\ q.connected = r.connected /\ q.peer = r.peer
        /\ q.fin = r.fin
        /\ q.m_write_shutdown_pending = r.m_write_shutdown_pending
        /\ q.m_close_pending = r.m_close_pending
        /\ q.readOp = r.readOp /\ q.connectOp = r.connectOp
        /\ q.reading = r.reading /\ q.readCb = r.readCb
        /\ q.shutdownCb = r.shutdownCb /\ q.sent = r.sent
    BY <1>1, RawWriteFields
  <2>3. DoWrite(w, x) = Put(w, p, q, t)
    BY <1>1, <1>7, DoWriteIs
  <2> HIDE DEF p, q
  <2>4. q.m_pending_writes = 1
    BY <1>7, <2>2
  <2>5. Life(p, q) /\ Joining(p, q) /\ OneWrite(q) /\ Shut(p, q) /\ LastRead(p, q)
    BY <1>2, <1>3, <2>1, <2>2, <2>4 DEF Life, Joining, OneWrite, Shut, LastRead
  <2>6. Uncut(p, q, g.cut)
    BY <1>2, <1>3, <1>5, <2>1, <2>2 DEF Uncut, Shut
  <2>7. Fits(p, q, t, g)
    BY <1>2, <1>5, <2>1, <2>5, <2>6 DEF Fits, Sound, CloseOnce
  <2>8. s._writeQueue = <<>> /\ r.writeOp = "none"
    BY <1>1, <1>2, <1>3, <1>7 DEF Queued, OneWrite
  <2>9. Given(r) = h.accepted /\ Given(r) = r.sent
    BY <1>1, <1>4, <1>6, <2>8, OneMore, GivenChunks
  <2>10. Given(q) = g.accepted
    BY <1>5, <2>2, <2>9, GivenChunks
  <2>11. Given(q) \o p._writeQueue \o p._connectQueue = g.accepted
    BY <1>4, <1>5, <2>1, <2>8, <2>10, OneMore
  <2>12. Order(p, q, g.accepted, g.cut)
    BY <1>3, <1>5, <2>1, <2>2, <2>11, OpenOrder
  <2>13. Queued(p, q) /\ Delayed(q, b)
    BY <1>1, <1>3, <1>4, <2>1, <2>2, <2>4 DEF Queued, Delayed
  <2>14. Whole(Put(w, p, q, t), g, b)
    BY <1>1, <1>5, <2>1, <2>2, <2>7, <2>12, <2>13, PutWhole
  <2>15. QED
    BY <2>3, <2>14
<1>8. CASE r.m_pending_writes # 0
  <2> DEFINE p == Waiting(s, x)
  <2>1. /\ p \in SocketType
        /\ p._writeQueue = Append(s._writeQueue, x)
        /\ p._pendingWriteReqs = s._pendingWriteReqs
        /\ p.writable = s.writable /\ p._flags = s._flags
        /\ p.destroyed = s.destroyed /\ p._handle = s._handle
        /\ p._connecting = s._connecting /\ p.lookup = s.lookup
        /\ p.readable = s.readable
        /\ p._connectQueue = s._connectQueue
    BY <1>1, RequestedFields
  <2>2. DoWrite(w, x) = Put(w, p, r, t)
    BY <1>1, <1>8, DoWriteIs
  <2> HIDE DEF p
  <2>3. Life(p, r) /\ Joining(p, r) /\ Shut(p, r) /\ LastRead(p, r)
    BY <1>2, <1>3, <2>1 DEF Life, Joining, Shut, LastRead
  <2>4. Uncut(p, r, g.cut)
    BY <1>2, <1>5, <2>1 DEF Uncut
  <2>5. Fits(p, r, t, g)
    BY <1>2, <1>5, <2>1, <2>3, <2>4 DEF Fits, Sound, CloseOnce
  <2>6. Given(r) \o p._writeQueue \o p._connectQueue = g.accepted
    <3>1. /\ Append(s._writeQueue, x) = s._writeQueue \o <<x>>
          /\ Append(h.accepted, x) = h.accepted \o <<x>>
          /\ <<x>> \in Chunks /\ Append(h.accepted, x) \o <<>> = Append(h.accepted, x)
      BY <1>1, <1>4, <1>5, OneMore
    <3>2. (Given(r) \o s._writeQueue) \o <<x>> = Given(r) \o (s._writeQueue \o <<x>>)
      BY <1>4, <3>1, ChunksAssoc
    <3>3. QED
      BY <1>4, <1>5, <1>6, <2>1, <3>1, <3>2
  <2>7. Order(p, r, g.accepted, g.cut)
    BY <1>1, <1>3, <1>5, <2>1, <2>6, OpenOrder
  <2>8. Queued(p, r)
    BY <1>1, <1>8, <2>1 DEF Queued
  <2>9. QED
    BY <1>1, <1>5, <2>1, <2>2, <2>5, <2>7, <2>8, PutWhole
<1>9. QED
  BY <1>7, <1>8

(* Socket:write while the socket is connecting.                              *)
LEMMA ConnectWriteKeeps ==
    ASSUME OneConnection, NEW w, NEW h, NEW g, NEW b \in BOOLEAN, NEW x \in Nat,
           Whole(w, h, b), w.s._connecting, Wrote(h, g, w.s, x)
    PROVE  Whole([w EXCEPT !.s._connectQueue = Append(@, x)], g, b)
<1> DEFINE s == w.s
           r == w.raw[1]
           t == w.ticks
           y == Append(s._connectQueue, x)
           p == [s EXCEPT !._connectQueue = y]
           d == [w EXCEPT !.s._connectQueue = Append(@, x)]
<1>1. /\ w \in WorldType /\ s \in SocketType /\ r \in RawType /\ t \in Seq(Events)
      /\ h \in HistoryType /\ ~w.crashed /\ h.cut \in BOOLEAN
      /\ h.accepted \in Chunks
      /\ Fits(s, r, t, h) /\ Order(s, r, h.accepted, h.cut)
      /\ Queued(s, r) /\ Delayed(r, b)
  BY WholeParts
<1>2. /\ Life(s, r) /\ Joining(s, r) /\ OneWrite(r) /\ Shut(s, r) /\ LastRead(s, r)
      /\ Uncut(s, r, h.cut) /\ (Has(t, "lookupError") => h.cut)
      /\ CloseOnce(s, t, h.closes)
  BY <1>1 DEF Fits, Sound
<1>3. /\ ~s.destroyed /\ Given(r) \in Chunks /\ s._writeQueue \in Chunks
      /\ s._connectQueue \in Chunks
      /\ Given(r) \o s._writeQueue \o s._connectQueue = h.accepted
  BY <1>1, <1>2, GivenChunks DEF Order, SocketType, Life
<1>4. y \in Chunks /\ y = s._connectQueue \o <<x>> /\ <<x>> \in Chunks
      /\ Append(h.accepted, x) = h.accepted \o <<x>>
  BY <1>1, <1>3, OneMore
<1>5. /\ g.accepted = Append(h.accepted, x) /\ g.accepted \in Chunks
      /\ g.closes = h.closes /\ (g.cut <=> h.cut \/ ~s.writable)
      /\ g \in HistoryType
  BY DEF Wrote, HistoryType
<1>6. d = [w EXCEPT !.s = p]
  OBVIOUS
<1> HIDE DEF y, d
<1>7. /\ p \in SocketType /\ p._connectQueue = y
      /\ p.writable = s.writable /\ p._flags = s._flags
      /\ p.destroyed = s.destroyed /\ p._handle = s._handle
      /\ p._connecting = s._connecting /\ p.lookup = s.lookup
      /\ p.readable = s.readable
      /\ p._writeQueue = s._writeQueue
      /\ p._pendingWriteReqs = s._pendingWriteReqs
  BY <1>1, <1>4 DEF SocketType
<1> HIDE DEF p
<1>8. d = Put(w, p, r, t)
  BY <1>1, <1>6, PutsOne
<1>9. Life(p, r) /\ Joining(p, r) /\ Shut(p, r) /\ LastRead(p, r)
  BY <1>2, <1>7 DEF Life, Joining, Shut, LastRead
<1>10. Uncut(p, r, g.cut)
  BY <1>2, <1>5, <1>7 DEF Uncut
<1>11. Fits(p, r, t, g)
  BY <1>2, <1>5, <1>7, <1>9, <1>10 DEF Fits, Sound, CloseOnce
<1>12. Given(r) \o p._writeQueue \o p._connectQueue = g.accepted
  <2> DEFINE a == Given(r) \o s._writeQueue
  <2>1. a \in Chunks /\ a \o s._connectQueue = h.accepted
    BY <1>3, BeginsWith
  <2> HIDE DEF a
  <2>2. a \o y = h.accepted \o <<x>>
    <3>1. a \o Append(s._connectQueue, x) = Append(a \o s._connectQueue, x)
      BY <1>3, <2>1, ChunkMoves
    <3>2. QED
      BY <1>4, <2>1, <3>1 DEF y
  <2>3. QED
    BY <1>4, <1>5, <1>7, <2>2 DEF a
<1>13. Order(p, r, g.accepted, g.cut)
  BY <1>1, <1>3, <1>5, <1>7, <1>12, OpenOrder
<1>14. Queued(p, r)
  BY <1>1, <1>2, <1>7 DEF Queued, Life
<1>15. Whole(d, g, b)
  BY <1>1, <1>5, <1>7, <1>8, <1>11, <1>13, <1>14, PutWhole
<1>16. QED
  BY <1>15 DEF d

(* The rest of the queue goes behind the chunk that is written.              *)
Drained(s, z) ==
    [s EXCEPT !._connectQueue = <<>>, !._writeQueue = s._writeQueue \o z]

(* It is what drainConnectQueue makes of the socket.                         *)
LEMMA DrainedPut ==
    ASSUME NEW w \in WorldType, NEW z
    PROVE  [w EXCEPT !.s._connectQueue = <<>>, !.s._writeQueue = @ \o z]
              = Put(w, Drained(w.s, z), w.raw[1], w.ticks)
<1> DEFINE v == [w EXCEPT !.s._connectQueue = <<>>]
           a == [w.s EXCEPT !._connectQueue = <<>>]
           x == [w EXCEPT !.s._connectQueue = <<>>, !.s._writeQueue = @ \o z]
<1>1. w.s \in SocketType /\ w.raw[1] \in RawType /\ w.ticks \in Seq(Events)
  BY PutsOne
<1>2. <<>> \in Chunks
  BY DEF Chunks
<1>3. a \in SocketType /\ a._writeQueue = w.s._writeQueue
  BY <1>1, <1>2 DEF SocketType
<1>4. v = Put(w, a, w.raw[1], w.ticks)
  BY PutsOne
<1>5. x = [v EXCEPT !.s = [v.s EXCEPT !._writeQueue = w.s._writeQueue \o z]]
  OBVIOUS
<1> HIDE DEF v, a
<1>6. v \in WorldType /\ v.s = a /\ v.raw[1] = w.raw[1] /\ v.ticks = w.ticks
  BY <1>1, <1>3, <1>4, PutParts
<1> DEFINE c == [v.s EXCEPT !._writeQueue = w.s._writeQueue \o z]
<1>7. [v EXCEPT !.s = c] = Put(v, c, v.raw[1], v.ticks)
  BY <1>6, PutsOne
<1>8. c = Drained(w.s, z)
  BY <1>6 DEF Drained, a
<1>9. QED
  BY <1>4, <1>5, <1>6, <1>7, <1>8, PutTwice

(* connect_callback writes what was written while the socket connected.      *)
LEMMA ConnectedKeeps ==
    ASSUME OneConnection, NEW w, NEW h, NEW b \in BOOLEAN, Whole(w, h, b),
           w.s._handle = 1, w.raw[1].connectOp = "ok",
           NEW u, u = Put(w, [w.s EXCEPT !._connecting = FALSE, !.readable = TRUE],
                          [w.raw[1] EXCEPT !.connectOp = "none"], w.ticks)
    PROVE  LET d == drainConnectQueue(u)
           IN Whole(d, h, b) /\ ~d.s._connecting
<1> DEFINE s == w.s
           r == w.raw[1]
           t == w.ticks
           a == [s EXCEPT !._connecting = FALSE, !.readable = TRUE]
           c == [r EXCEPT !.connectOp = "none"]
<1>1. /\ w \in WorldType /\ s \in SocketType /\ r \in RawType /\ t \in Seq(Events)
      /\ h \in HistoryType /\ ~w.crashed /\ h.cut \in BOOLEAN
      /\ h.accepted \in Chunks
      /\ Fits(s, r, t, h) /\ Order(s, r, h.accepted, h.cut)
      /\ Queued(s, r) /\ Delayed(r, b)
  BY WholeParts
<1>2. /\ Life(s, r) /\ Joining(s, r) /\ OneWrite(r) /\ Shut(s, r) /\ LastRead(s, r)
      /\ Uncut(s, r, h.cut) /\ (Has(t, "lookupError") => h.cut)
      /\ CloseOnce(s, t, h.closes)
  BY <1>1 DEF Fits, Sound
<1>3. /\ s._connecting /\ ~s.destroyed /\ r.connected /\ r.open
      /\ r.m_pending_writes = 0 /\ r.readOp = "none" /\ ~r.shutdownCb /\ ~r.fin
      /\ s._writeQueue = <<>> /\ s._pendingWriteReqs = 0
      /\ r.writeOp = "none"
  BY <1>2 DEF Life, Joining, Shut, OneWrite
<1>4. /\ a \in SocketType /\ ~a._connecting /\ a.readable
      /\ a.writable = s.writable /\ a._flags = s._flags
      /\ a.destroyed = s.destroyed /\ a._handle = s._handle
      /\ a.lookup = s.lookup
      /\ a._writeQueue = s._writeQueue
      /\ a._connectQueue = s._connectQueue
      /\ a._pendingWriteReqs = s._pendingWriteReqs
  BY <1>1 DEF SocketType
<1>5. /\ c \in RawType /\ c.connectOp = "none"
      /\ c.m_pending_writes = r.m_pending_writes
      /\ c.writeOp = r.writeOp /\ c.writing = r.writing
      /\ c.open = r.open /\ c.connected = r.connected /\ c.peer = r.peer
      /\ c.fin = r.fin
      /\ c.m_write_shutdown_pending = r.m_write_shutdown_pending
      /\ c.m_close_pending = r.m_close_pending
      /\ c.readOp = r.readOp
      /\ c.reading = r.reading /\ c.readCb = r.readCb
      /\ c.shutdownCb = r.shutdownCb /\ c.sent = r.sent
  BY <1>1 DEF RawType
<1>6. u = Put(w, a, c, t)
  OBVIOUS
<1> HIDE DEF a, c
<1>7. u \in WorldType /\ u.s = a /\ u.raw[1] = c /\ u.ticks = t /\ u.crashed = w.crashed
  BY <1>1, <1>4, <1>5, <1>6, PutParts
<1> DEFINE k == s._connectQueue
<1>8. k \in Chunks /\ Given(c) \in Chunks /\ Given(c) \o k = h.accepted
  <2>1. Given(c) = Given(r) /\ Given(r) \in Chunks /\ k \in Chunks
    BY <1>1, <1>5, GivenSame, GivenChunks DEF SocketType
  <2>2. Given(r) \o <<>> \o k = h.accepted
    BY <1>1, <1>3 DEF Order
  <2>3. Given(r) \o <<>> = Given(r)
    BY <2>1, OneMore
  <2>4. QED
    BY <2>1, <2>2, <2>3
<1>9. CASE k = <<>>
  <2>1. drainConnectQueue(u) = u
    BY <1>4, <1>7, <1>9, Zenon DEF drainConnectQueue
  <2>2. Life(a, c) /\ Joining(a, c) /\ OneWrite(c) /\ Shut(a, c) /\ LastRead(a, c)
    BY <1>2, <1>3, <1>4, <1>5 DEF Life, Joining, OneWrite, Shut, LastRead
  <2>3. Uncut(a, c, h.cut)
    BY <1>2, <1>4, <1>5 DEF Uncut
  <2>4. Fits(a, c, t, h)
    BY <1>2, <1>4, <2>2, <2>3 DEF Fits, Sound, CloseOnce
  <2>5. Given(c) = Given(r)
    BY <1>5, GivenSame
  <2>6. Order(a, c, h.accepted, h.cut)
    BY <1>1, <1>4, <2>5, OrderSame
  <2>7. Queued(a, c) /\ Delayed(c, b)
    BY <1>1, <1>3, <1>4, <1>5, <1>9 DEF Queued, Delayed
  <2>8. Whole(u, h, b)
    BY <1>1, <1>4, <1>5, <1>6, <2>4, <2>6, <2>7, PutWhole
  <2>9. QED
    BY <1>4, <1>7, <2>1, <2>8
<1>10. CASE k # <<>>
  <2> DEFINE x == Head(k)
             z == Tail(k)
             p == Requested(a)
             q == Raw!Write(c, x)
             first == DoWrite(u, x)
             f == [p EXCEPT !._connectQueue = <<>>, !._writeQueue = z]
             d == [first EXCEPT !.s._connectQueue = <<>>,
                                !.s._writeQueue = @ \o z]
  <2>1. x \in Nat /\ z \in Chunks /\ <<x>> \o z = k /\ <<x>> \in Chunks
        /\ <<>> \in Chunks /\ <<>> \o z = z
    <3>1. x \in Nat /\ z \in Chunks /\ <<x>> \o z = k
      BY <1>8, <1>10, OneMore
    <3>2. QED
      BY <1>8, <3>1, OneMore
  <2>2. /\ p \in SocketType
        /\ p._pendingWriteReqs = a._pendingWriteReqs + 1
        /\ p.writable = a.writable /\ p._flags = a._flags
        /\ p.destroyed = a.destroyed /\ p._handle = a._handle
        /\ p._connecting = a._connecting /\ p.lookup = a.lookup
        /\ p.readable = a.readable
        /\ p._connectQueue = a._connectQueue
        /\ p._writeQueue = a._writeQueue
    BY <1>4, <2>1, RequestedFields
  <2>3. /\ q \in RawType
        /\ q.m_pending_writes = c.m_pending_writes + 1
        /\ q.writeOp = "pending" /\ q.writing = x
        /\ q.open = c.open /\ q.connected = c.connected /\ q.peer = c.peer
        /\ q.fin = c.fin
        /\ q.m_write_shutdown_pending = c.m_write_shutdown_pending
        /\ q.m_close_pending = c.m_close_pending
        /\ q.readOp = c.readOp /\ q.connectOp = c.connectOp
        /\ q.reading = c.reading /\ q.readCb = c.readCb
        /\ q.shutdownCb = c.shutdownCb /\ q.sent = c.sent
    BY <1>5, <2>1, RawWriteFields
  <2>4. first = Put(u, p, q, t)
    BY <1>3, <1>4, <1>5, <1>7, <2>1, DoWriteIs
  <2>5. first = Put(w, p, q, t)
    BY <1>6, <2>4, PutTwice
  <2>6. drainConnectQueue(u) = d
    BY <1>4, <1>7, <1>10, Zenon DEF drainConnectQueue
  <2> HIDE DEF x, z, p, q, first
  <2>7. /\ first \in WorldType /\ first.s = p /\ first.raw[1] = q
        /\ first.ticks = t
    BY <1>1, <2>2, <2>3, <2>5, PutParts
  <2>8. d = Put(first, f, q, t)
    <3>1. d = Put(first, Drained(p, z), q, t)
      BY <2>7, DrainedPut
    <3>2. p._writeQueue \o z = z
      BY <1>3, <1>4, <2>1, <2>2
    <3>3. Drained(p, z) = f
      BY <3>2 DEF Drained
    <3>4. QED
      BY <3>1, <3>3
  <2> HIDE DEF d
  <2>9. /\ f \in SocketType /\ f._connectQueue = <<>> /\ f._writeQueue = z
        /\ f._pendingWriteReqs = p._pendingWriteReqs
        /\ f.writable = p.writable /\ f._flags = p._flags
        /\ f.destroyed = p.destroyed /\ f._handle = p._handle
        /\ f._connecting = p._connecting /\ f.lookup = p.lookup
        /\ f.readable = p.readable
    BY <2>1, <2>2 DEF SocketType
  <2> HIDE DEF f
  <2>10. d = Put(w, f, q, t)
    BY <2>5, <2>8, PutTwice
  <2>11. q.m_pending_writes = 1 /\ f._pendingWriteReqs = 1
    BY <1>3, <1>4, <1>5, <2>2, <2>3, <2>9
  <2>12. Life(f, q) /\ Joining(f, q) /\ OneWrite(q)
    BY <1>2, <1>3, <1>4, <1>5, <2>2, <2>3, <2>9, <2>11 DEF Life, Joining, OneWrite
  <2>13. Shut(f, q) /\ LastRead(f, q)
    BY <1>2, <1>3, <1>4, <1>5, <2>2, <2>3, <2>9, <2>11 DEF Shut, LastRead
  <2>14. Uncut(f, q, h.cut)
    BY <1>2, <1>3, <1>4, <1>5, <2>2, <2>3, <2>9 DEF Uncut
  <2>15. CloseOnce(f, t, h.closes)
    BY <1>2, <1>4, <2>2, <2>9 DEF CloseOnce
  <2>16. Fits(f, q, t, h)
    BY <1>2, <2>12, <2>13, <2>14, <2>15 DEF Fits, Sound
  <2>17. Given(q) \o f._writeQueue \o f._connectQueue = h.accepted
    <3>1. Given(c) = c.sent
      BY <1>3, <1>5, GivenChunks
    <3>2. Given(q) = Append(c.sent, x)
      BY <2>3, GivenChunks
    <3>3. Given(q) = Append(Given(c), x)
      BY <3>1, <3>2
    <3>4. Append(Given(c), x) \o z = Given(c) \o k
      BY <1>8, <1>10, <2>1, ChunkMoves DEF x, z
    <3>5. h.accepted \o <<>> = h.accepted
      BY <1>1, OneMore
    <3>6. QED
      BY <1>8, <2>9, <3>3, <3>4, <3>5
  <2>18. Order(f, q, h.accepted, h.cut)
    BY <1>1, <1>3, <1>4, <2>2, <2>3, <2>9, <2>17, OpenOrder
  <2>19. Queued(f, q) /\ Delayed(q, b)
    BY <1>2, <1>3, <1>4, <1>5, <2>2, <2>3, <2>9, <2>11 DEF Queued, Delayed, Joining
  <2>20. Whole(d, h, b)
    BY <1>1, <2>3, <2>9, <2>10, <2>16, <2>18, <2>19, PutWhole
  <2>21. d.s = f
    BY <1>1, <2>3, <2>9, <2>10, PutParts
  <2>22. QED
    BY <1>4, <2>2, <2>6, <2>9, <2>20, <2>21
<1>11. QED
  BY <1>9, <1>10

(* The end of a write: HandleWrite counts it first.                          *)
LEMMA HandledFields ==
    ASSUME NEW r \in RawType
    PROVE  LET q == Raw!WriteHandled(r)
           IN /\ q \in RawType
              /\ q.m_pending_writes = r.m_pending_writes - 1
              /\ q.writeOp = "none"
              /\ q.open = r.open /\ q.connected = r.connected /\ q.peer = r.peer
              /\ q.fin = r.fin
              /\ q.m_write_shutdown_pending = r.m_write_shutdown_pending
              /\ q.m_close_pending = r.m_close_pending
              /\ q.readOp = r.readOp /\ q.connectOp = r.connectOp
              /\ q.reading = r.reading /\ q.readCb = r.readCb
              /\ q.shutdownCb = r.shutdownCb /\ q.sent = r.sent
<1> DEFINE n == r.m_pending_writes - 1
<1>1. n \in Int
  BY DEF RawType
<1>2. Raw!WriteHandled(r) =
        [r EXCEPT !.m_pending_writes = n, !.writeOp = "none", !.writing = 0]
  BY Zenon DEF Raw!WriteHandled, Raw!NoChunk
<1> HIDE DEF n
<1> DEFINE q == [r EXCEPT !.m_pending_writes = n, !.writeOp = "none",
                          !.writing = 0]
<1>3. /\ q \in RawType
      /\ q.m_pending_writes = n
      /\ q.writeOp = "none"
      /\ q.open = r.open /\ q.connected = r.connected /\ q.peer = r.peer
      /\ q.fin = r.fin
      /\ q.m_write_shutdown_pending = r.m_write_shutdown_pending
      /\ q.m_close_pending = r.m_close_pending
      /\ q.readOp = r.readOp /\ q.connectOp = r.connectOp
      /\ q.reading = r.reading /\ q.readCb = r.readCb
      /\ q.shutdownCb = r.shutdownCb /\ q.sent = r.sent
  BY <1>1 DEF RawType
<1> HIDE DEF q
<1>4. QED
  BY <1>2, <1>3 DEF q, n

(* The socket fits without the write that has ended.                         *)
LEMMA HandledKeeps ==
    ASSUME NEW w, NEW h, NEW b \in BOOLEAN, Whole(w, h, b),
           w.raw[1].writeOp \in {"ok", "error"},
           NEW u, u = Put(w, w.s, Raw!WriteHandled(w.raw[1]), w.ticks)
    PROVE  /\ Held(u, h) /\ u.s = w.s /\ u.raw[1] = Raw!WriteHandled(w.raw[1])
           /\ u.ticks = w.ticks
           /\ IsPrefix(Given(u.raw[1]), h.accepted)
           /\ w.raw[1].writeOp = "ok" => Given(u.raw[1]) = Given(w.raw[1])
           /\ w.s.destroyed => Good(u, h)
<1> DEFINE s == w.s
           r == w.raw[1]
           t == w.ticks
           q == Raw!WriteHandled(r)
<1>1. /\ w \in WorldType /\ s \in SocketType /\ r \in RawType /\ t \in Seq(Events)
      /\ h \in HistoryType /\ ~w.crashed /\ h.cut \in BOOLEAN
      /\ h.accepted \in Chunks
      /\ Fits(s, r, t, h) /\ Order(s, r, h.accepted, h.cut)
  BY WholeParts
<1>2. /\ Life(s, r) /\ Joining(s, r) /\ OneWrite(r) /\ Shut(s, r) /\ LastRead(s, r)
      /\ Uncut(s, r, h.cut) /\ (Has(t, "lookupError") => h.cut)
      /\ CloseOnce(s, t, h.closes)
  BY <1>1 DEF Fits, Sound
<1>3. /\ q \in RawType
      /\ q.m_pending_writes = r.m_pending_writes - 1
      /\ q.writeOp = "none"
      /\ q.open = r.open /\ q.connected = r.connected /\ q.peer = r.peer
      /\ q.fin = r.fin
      /\ q.m_write_shutdown_pending = r.m_write_shutdown_pending
      /\ q.m_close_pending = r.m_close_pending
      /\ q.readOp = r.readOp /\ q.connectOp = r.connectOp
      /\ q.reading = r.reading /\ q.readCb = r.readCb
      /\ q.shutdownCb = r.shutdownCb /\ q.sent = r.sent
  BY <1>1, HandledFields
<1>4. u = Put(w, s, q, t)
  OBVIOUS
<1> HIDE DEF q
<1>5. r.m_pending_writes = 1 /\ q.m_pending_writes = 0
  BY <1>2, <1>3 DEF OneWrite
<1>6. r # Raw!NoSocket
  BY DEF Raw!NoSocket, Raw!NewRawSocket
<1>7. Life(s, q) /\ Joining(s, q) /\ OneWrite(q) /\ Shut(s, q) /\ LastRead(s, q)
  BY <1>2, <1>3, <1>5, <1>6 DEF Life, Joining, OneWrite, Shut, LastRead
<1>8. Uncut(s, q, h.cut)
  BY <1>2, <1>3, <1>5 DEF Uncut
<1>9. Fits(s, q, t, h)
  BY <1>2, <1>7, <1>8 DEF Fits, Sound
<1>10. Held(u, h) /\ u.s = s /\ u.raw[1] = q /\ u.ticks = t
  BY <1>1, <1>3, <1>9, <1>4, PutHeld
<1>11. Given(q) = r.sent /\ r.sent \in Chunks
  BY <1>1, <1>3, GivenChunks DEF RawType
<1>12. r.writeOp = "ok" => Given(q) = Given(r)
  BY <1>1, <1>11, GivenChunks
<1>13. IsPrefix(Given(q), h.accepted)
  <2>1. CASE r.writeOp = "ok"
    BY <1>1, <1>12, <2>1 DEF Order
  <2>2. CASE r.writeOp = "error"
    <3>1. Given(r) = r.sent \o <<r.writing>> /\ <<r.writing>> \in Chunks
      BY <2>2, <1>1, <1>11, OneMore DEF Given, Under, RawType
    <3>2. QED
      BY <1>1, <1>11, <3>1, PrefixOfPrefix DEF Order
  <2>3. QED
    BY <2>1, <2>2
<1>14. ASSUME s.destroyed PROVE Good(u, h)
  <2>1. h.cut \/ r.writeOp = "ok"
    BY <1>2 DEF Uncut
  <2>2. Order(s, q, h.accepted, h.cut)
    BY <1>1, <1>12, <1>13, <1>14, <2>1 DEF Order
  <2>3. QED
    BY <1>10, <2>2 DEF Good
<1>15. QED
  BY <1>10, <1>12, <1>13, <1>14 DEF q

(* afterWrite writes the next chunk that waits.                              *)
LEMMA NextWriteKeeps ==
    ASSUME OneConnection, NEW w, NEW h, NEW b \in BOOLEAN, Whole(w, h, b),
           w.raw[1].writeOp = "ok", ~w.s.destroyed,
           NEW u, u = Put(w, w.s, Raw!WriteHandled(w.raw[1]), w.ticks)
    PROVE  LET d == [NextWrite(u) EXCEPT !.s._pendingWriteReqs = @ - 1]
           IN /\ Good(d, h) /\ Queued(d.s, d.raw[1])
              /\ ~d.s._connecting /\ ~d.s.destroyed
<1> DEFINE s == w.s
           r == w.raw[1]
           t == w.ticks
           c == Raw!WriteHandled(r)
           d == [NextWrite(u) EXCEPT !.s._pendingWriteReqs = @ - 1]
<1>1. /\ w \in WorldType /\ s \in SocketType /\ r \in RawType /\ t \in Seq(Events)
      /\ h \in HistoryType /\ ~w.crashed /\ h.cut \in BOOLEAN
      /\ h.accepted \in Chunks
      /\ Fits(s, r, t, h) /\ Order(s, r, h.accepted, h.cut) /\ Queued(s, r)
  BY WholeParts
<1>2. /\ Life(s, r) /\ Joining(s, r) /\ OneWrite(r) /\ Shut(s, r) /\ LastRead(s, r)
      /\ Uncut(s, r, h.cut) /\ (Has(t, "lookupError") => h.cut)
      /\ CloseOnce(s, t, h.closes)
  BY <1>1 DEF Fits, Sound
<1>3. r # Raw!NoSocket
  BY DEF Raw!NoSocket, Raw!NewRawSocket
<1>4. /\ s._handle = 1 /\ ~s._connecting /\ r.m_pending_writes = 1
      /\ s._pendingWriteReqs = 1 /\ s._connectQueue = <<>>
      /\ r.open /\ r.connected
  BY <1>1, <1>2, <1>3 DEF Life, Joining, OneWrite, Queued, SocketType
<1>5. /\ c \in RawType
      /\ c.m_pending_writes = r.m_pending_writes - 1
      /\ c.writeOp = "none"
      /\ c.open = r.open /\ c.connected = r.connected /\ c.peer = r.peer
      /\ c.fin = r.fin
      /\ c.m_write_shutdown_pending = r.m_write_shutdown_pending
      /\ c.m_close_pending = r.m_close_pending
      /\ c.readOp = r.readOp /\ c.connectOp = r.connectOp
      /\ c.reading = r.reading /\ c.readCb = r.readCb
      /\ c.shutdownCb = r.shutdownCb /\ c.sent = r.sent
  BY <1>1, HandledFields
<1>6. /\ Held(u, h) /\ u.s = s /\ u.raw[1] = c /\ u.ticks = t
      /\ Given(c) = Given(r)
  BY HandledKeeps
<1>7. u = Put(w, s, c, t) /\ u \in WorldType /\ u.crashed = w.crashed
  BY <1>1, <1>5, PutParts
<1> HIDE DEF c, s, t
<1>8. u \in WorldType /\ u.raw[1] = c /\ u.ticks = t
  BY <1>6, <1>7
<1>9. \A f : [u EXCEPT !.s = f] = Put(u, f, c, t)
  <2> TAKE f
  <2>1. [u EXCEPT !.s = f] = Put(u, f, u.raw[1], u.ticks)
    BY <1>8, PutsOne
  <2>2. QED
    BY <1>8, <2>1
<1> USE DEF s, t
<1>10. c.m_pending_writes = 0
  BY <1>4, <1>5
<1> DEFINE k == s._writeQueue
<1>11. Given(c) \in Chunks /\ k \in Chunks /\ Given(c) \o k = h.accepted
  <2>1. Given(c) \in Chunks /\ k \in Chunks
    BY <1>1, <1>5, GivenChunks DEF SocketType
  <2>2. Given(c) \o k \o <<>> = h.accepted
    BY <1>1, <1>4, <1>6 DEF Order
  <2>3. QED
    BY <2>1, <2>2, BeginsWith, OneMore
<1>12. CASE k = <<>>
  <2> DEFINE f == [s EXCEPT !._pendingWriteReqs = s._pendingWriteReqs - 1]
  <2>1. NextWrite(u) = u
    BY <1>6, <1>12 DEF NextWrite
  <2>2. d = [u EXCEPT !.s = f]
    BY <1>6, <2>1
  <2> DEFINE n == s._pendingWriteReqs - 1
  <2>3. n = 0 /\ n \in Int
    BY <1>4
  <2>4. /\ f \in SocketType /\ f._connectQueue = s._connectQueue
        /\ f._writeQueue = s._writeQueue
        /\ f._pendingWriteReqs = 0
        /\ f.writable = s.writable /\ f._flags = s._flags
        /\ f.destroyed = s.destroyed /\ f._handle = s._handle
        /\ f._connecting = s._connecting /\ f.lookup = s.lookup
        /\ f.readable = s.readable
    BY <1>1, <2>3 DEF SocketType
  <2> HIDE DEF d, f
  <2>5. d = Put(u, f, c, t)
    BY <1>9, <2>2, Zenon
  <2>6. d = Put(w, f, c, t)
    BY <1>7, <2>5, PutTwice
  <2>7. Fits(s, c, t, h)
    BY <1>6 DEF Held
  <2>8. Fits(f, c, t, h)
    <3>1. Life(f, c) /\ Joining(f, c) /\ Shut(f, c) /\ LastRead(f, c)
      BY <1>4, <2>4, <2>7 DEF Fits, Sound, Life, Joining, Shut, LastRead
    <3>2. Uncut(f, c, h.cut) /\ CloseOnce(f, t, h.closes)
      BY <2>4, <2>7 DEF Fits, Uncut, CloseOnce
    <3>3. QED
      BY <2>7, <3>1, <3>2 DEF Fits, Sound
  <2>9. Order(f, c, h.accepted, h.cut)
    BY <1>1, <1>6, <2>4, OrderSame
  <2>10. Queued(f, c)
    <3>1. "GOT_EOF" \in s._flags => ~r.shutdownCb
      BY <1>1, <1>2, <1>4 DEF Queued, Life
    <3>2. QED
      BY <1>4, <1>5, <1>10, <1>12, <2>4, <3>1 DEF Queued
  <2>11. Held(d, h) /\ d.s = f /\ d.raw[1] = c
    BY <1>1, <1>5, <2>4, <2>6, <2>8, PutHeld
  <2>12. QED
    BY <1>4, <2>4, <2>9, <2>10, <2>11 DEF Good, d
<1>13. CASE k # <<>>
  <2> DEFINE x == Head(k)
             z == Tail(k)
             a == [s EXCEPT !._writeQueue = z]
             v == [u EXCEPT !.s._writeQueue = Tail(@)]
             p == Requested(a)
             q == Raw!Write(c, x)
             y == DoWrite(v, x)
             f == [p EXCEPT !._pendingWriteReqs = p._pendingWriteReqs - 1]
  <2>1. x \in Nat /\ z \in Chunks
    BY <1>11, <1>13, OneMore
  <2>2. v = [u EXCEPT !.s = a]
    BY <1>6
  <2>3. NextWrite(u) = y
    BY <1>6, <1>13 DEF NextWrite
  <2> HIDE DEF x, z
  <2>4. /\ a \in SocketType /\ a._connectQueue = s._connectQueue
        /\ a._writeQueue = z
        /\ a._pendingWriteReqs = s._pendingWriteReqs
        /\ a.writable = s.writable /\ a._flags = s._flags
        /\ a.destroyed = s.destroyed /\ a._handle = s._handle
        /\ a._connecting = s._connecting /\ a.lookup = s.lookup
        /\ a.readable = s.readable
    BY <1>1, <2>1 DEF SocketType
  <2> HIDE DEF a, v
  <2>5. v = Put(w, a, c, t)
    <3>1. v = Put(u, a, c, t)
      BY <1>9, <2>2, Zenon
    <3>2. QED
      BY <1>7, <3>1, PutTwice
  <2>6. v \in WorldType /\ v.s = a /\ v.raw[1] = c /\ v.ticks = t
    BY <1>1, <1>5, <2>4, <2>5, PutParts
  <2>7. /\ p \in SocketType
        /\ p._pendingWriteReqs = a._pendingWriteReqs + 1
        /\ p.writable = a.writable /\ p._flags = a._flags
        /\ p.destroyed = a.destroyed /\ p._handle = a._handle
        /\ p._connecting = a._connecting /\ p.lookup = a.lookup
        /\ p.readable = a.readable
        /\ p._connectQueue = a._connectQueue
        /\ p._writeQueue = a._writeQueue
    BY <2>1, <2>4, RequestedFields
  <2>8. /\ q \in RawType
        /\ q.m_pending_writes = c.m_pending_writes + 1
        /\ q.writeOp = "pending" /\ q.writing = x
        /\ q.open = c.open /\ q.connected = c.connected /\ q.peer = c.peer
        /\ q.fin = c.fin
        /\ q.m_write_shutdown_pending = c.m_write_shutdown_pending
        /\ q.m_close_pending = c.m_close_pending
        /\ q.readOp = c.readOp /\ q.connectOp = c.connectOp
        /\ q.reading = c.reading /\ q.readCb = c.readCb
        /\ q.shutdownCb = c.shutdownCb /\ q.sent = c.sent
    BY <1>5, <2>1, RawWriteFields
  <2>9. y = Put(v, p, q, t)
    BY <1>4, <1>10, <2>1, <2>4, <2>6, DoWriteIs
  <2>10. y = Put(w, p, q, t)
    BY <2>5, <2>9, PutTwice
  <2> HIDE DEF p, q, y
  <2>11. y \in WorldType /\ y.s = p /\ y.raw[1] = q /\ y.ticks = t
    BY <1>1, <2>7, <2>8, <2>10, PutParts
  <2>12. d = [y EXCEPT !.s = f]
    BY <2>3, <2>11
  <2> DEFINE n == p._pendingWriteReqs - 1
  <2>13. n = 1 /\ n \in Int
    BY <1>4, <2>4, <2>7
  <2>14. /\ f \in SocketType /\ f._connectQueue = p._connectQueue
         /\ f._writeQueue = p._writeQueue
         /\ f._pendingWriteReqs = 1
         /\ f.writable = p.writable /\ f._flags = p._flags
         /\ f.destroyed = p.destroyed /\ f._handle = p._handle
         /\ f._connecting = p._connecting /\ f.lookup = p.lookup
         /\ f.readable = p.readable
    BY <2>7, <2>13 DEF SocketType
  <2> HIDE DEF d, f
  <2>15. d = Put(w, f, q, t)
    <3>1. d = Put(y, f, q, t)
      <4>1. [y EXCEPT !.s = f] = Put(y, f, y.raw[1], y.ticks)
        BY <2>11, PutsOne
      <4>2. QED
        BY <2>11, <2>12, <4>1
    <3>2. QED
      BY <2>10, <3>1, PutTwice
  <2>16. q.m_pending_writes = 1
    BY <1>10, <2>8
  <2>17. Life(f, q) /\ Joining(f, q) /\ OneWrite(q)
    BY <1>2, <1>4, <1>5, <2>4, <2>7, <2>8, <2>14, <2>16 DEF Life, Joining, OneWrite
  <2>18. Shut(f, q) /\ LastRead(f, q)
    BY <1>2, <1>4, <1>5, <2>4, <2>7, <2>8, <2>14, <2>16 DEF Shut, LastRead
  <2>19. Uncut(f, q, h.cut)
    BY <1>2, <1>4, <1>5, <2>4, <2>7, <2>8, <2>14 DEF Uncut
  <2>20. CloseOnce(f, t, h.closes)
    BY <1>2, <2>4, <2>7, <2>14 DEF CloseOnce
  <2>21. Fits(f, q, t, h)
    BY <1>2, <2>17, <2>18, <2>19, <2>20 DEF Fits, Sound
  <2>22. Given(q) \o f._writeQueue \o f._connectQueue = h.accepted
    <3>1. Given(c) = c.sent
      BY <1>5, GivenChunks
    <3>2. Given(q) = Append(c.sent, x)
      BY <2>8, GivenChunks
    <3>3. Append(Given(c), x) \o z = Given(c) \o k
      BY <1>11, <1>13, ChunkMoves DEF x, z
    <3>4. h.accepted \o <<>> = h.accepted
      BY <1>1, OneMore
    <3>5. f._writeQueue = z /\ f._connectQueue = <<>>
      BY <1>4, <2>4, <2>7, <2>14
    <3>6. QED
      BY <1>11, <3>1, <3>2, <3>3, <3>4, <3>5
  <2>23. Order(f, q, h.accepted, h.cut)
    BY <1>1, <1>4, <2>4, <2>7, <2>8, <2>14, <2>22, OpenOrder
  <2>24. Queued(f, q)
    <3>1. "GOT_EOF" \in s._flags => ~r.shutdownCb
      BY <1>1, <1>2, <1>4 DEF Queued, Life
    <3>2. QED
      BY <1>4, <1>5, <2>4, <2>7, <2>8, <2>14, <2>16, <3>1 DEF Queued
  <2>25. Held(d, h) /\ d.s = f /\ d.raw[1] = q
    BY <1>1, <2>8, <2>14, <2>15, <2>21, PutHeld
  <2>26. QED
    BY <1>4, <2>4, <2>7, <2>14, <2>23, <2>24, <2>25 DEF Good, d
<1>14. QED
  BY <1>12, <1>13

------------------------------------------------------------------------------
(* The steps: what they have in common.                                      *)

(* The history goes on.                                                      *)
LEMMA HistoryKeeps ==
    ASSUME NEW w, NEW h, NEW g \in HistoryType, NEW b, Whole(w, h, b),
           g.accepted = h.accepted, g.closes = h.closes, h.cut => g.cut
    PROVE  Whole(w, g, b)
<1>1. /\ w \in WorldType /\ w.crashed = FALSE /\ h.cut \in BOOLEAN
      /\ Fits(w.s, w.raw[1], w.ticks, h)
      /\ Order(w.s, w.raw[1], h.accepted, h.cut)
      /\ Queued(w.s, w.raw[1]) /\ Delayed(w.raw[1], b)
  BY WholeParts
<1>2. Order(w.s, w.raw[1], g.accepted, g.cut)
  BY <1>1 DEF Order
<1>3. Fits(w.s, w.raw[1], w.ticks, g)
  BY <1>1 DEF Fits, Uncut
<1>4. QED
  BY <1>1, <1>2, <1>3 DEF Whole, Good, Held

(* A connection that was cut short may be destroyed at any time.             *)
LEMMA CutDestroyKeeps ==
    ASSUME OneConnection, NEW w, NEW h, NEW b \in BOOLEAN, NEW err \in BOOLEAN,
           Whole(w, h, b), h.cut
    PROVE  LET d == DoDestroy(w, err)
           IN Whole(d, h, b) /\ ~d.s._connecting
<1> DEFINE d == DoDestroy(w, err)
<1>1. /\ Held(w, h) /\ Order(w.s, w.raw[1], h.accepted, h.cut)
      /\ Delayed(w.raw[1], b)
  BY WholeParts
<1>2. IsPrefix(Given(w.raw[1]), h.accepted)
  BY <1>1 DEF Order
<1>3. /\ Good(d, h) /\ d.s.destroyed /\ Queued(d.s, d.raw[1])
      /\ Delayed(w.raw[1], b) => Delayed(d.raw[1], b)
  BY <1>1, <1>2, DestroyKeeps
<1> HIDE DEF d
<1>4. Life(d.s, d.raw[1])
  BY <1>3 DEF Good, Held, Fits, Sound
<1>5. QED
  BY <1>1, <1>3, <1>4 DEF Whole, Life, d

(* The invariant, for the variables.                                         *)
LEMMA InvParts ==
    ASSUME IInv
    PROVE  /\ Whole(World, hist, Draining) /\ World \in WorldType
           /\ World.s = sock /\ World.raw = raw /\ World.ticks = ticks
           /\ World.crashed = crashed
           /\ sock \in SocketType /\ raw[1] \in RawType
           /\ ticks \in Seq(Events) /\ hist \in HistoryType
           /\ hist.cut \in BOOLEAN /\ hist.accepted \in Chunks
           /\ hist.closes \in Nat /\ hist.connects \in {0, 1}
           /\ crashed = FALSE
           /\ Fits(sock, raw[1], ticks, hist)
           /\ Life(sock, raw[1]) /\ Joining(sock, raw[1]) /\ OneWrite(raw[1])
           /\ Shut(sock, raw[1]) /\ LastRead(sock, raw[1])
           /\ Uncut(sock, raw[1], hist.cut)
           /\ (Has(ticks, "lookupError") => hist.cut)
           /\ CloseOnce(sock, ticks, hist.closes)
           /\ Order(sock, raw[1], hist.accepted, hist.cut)
           /\ Queued(sock, raw[1]) /\ Delayed(raw[1], Draining)
           /\ FrameInv /\ hist.lateEvent = FALSE /\ Draining \in BOOLEAN
<1>1. /\ World.s = sock /\ World.raw = raw /\ World.ticks = ticks
      /\ World.crashed = crashed
  BY DEF World
<1>2. Whole(World, hist, Draining) /\ FrameInv /\ ~hist.lateEvent
  BY DEF IInv
<1>3. /\ World \in WorldType /\ sock \in SocketType /\ raw[1] \in RawType
      /\ ticks \in Seq(Events) /\ hist \in HistoryType
      /\ hist.cut \in BOOLEAN /\ hist.accepted \in Chunks
      /\ hist.closes \in Nat /\ crashed = FALSE
      /\ Fits(sock, raw[1], ticks, hist)
      /\ Order(sock, raw[1], hist.accepted, hist.cut)
      /\ Queued(sock, raw[1]) /\ Delayed(raw[1], Draining)
  BY <1>1, <1>2, WholeParts
<1>4. hist.connects \in {0, 1} /\ hist.lateEvent \in BOOLEAN
  BY <1>3 DEF HistoryType
<1>5. Draining \in BOOLEAN
  BY DEF Draining
<1>6. QED
  BY <1>1, <1>2, <1>3, <1>4, <1>5 DEF Fits, Sound

(* A step leaves the world its handler has computed.                         *)
LEMMA Applied ==
    ASSUME NEW w \in WorldType, Apply(w)
    PROVE  World' = w
<1>1. w = [s |-> w.s, raw |-> w.raw, ticks |-> w.ticks, crashed |-> w.crashed]
  BY DEF WorldType
<1>2. QED
  BY <1>1 DEF Apply, World

(* The object has connected once something happens to it.                    *)
LEMMA HasConnected ==
    ASSUME IInv,
           \/ sock._connecting \/ sock._handle = 1 \/ sock.destroyed
           \/ sock.lookup \/ ticks # <<>> \/ frame # Idle
           \/ raw[1] # Raw!NoSocket
    PROVE  hist.connects = 1
  BY InvParts DEF FrameInv, Life, SocketType

(* The invariant holds after a step of the application.                      *)
LEMMA AppStep ==
    ASSUME IInv, NEW d, Whole(d, hist', Draining), Apply(d), UNCHANGED frame,
           hist.connects = 1, hist'.connects = hist.connects,
           hist'.lateEvent = hist.lateEvent,
           d.s._connecting => sock._connecting
    PROVE  IInv'
<1>1. World' = d
  BY Applied, WholeParts
<1>2. Draining' = Draining
  BY DEF Draining
<1>3. sock' = d.s
  BY DEF Apply
<1>4. FrameInv'
  BY <1>3, InvParts DEF FrameInv, Idle
<1>5. QED
  BY <1>1, <1>2, <1>4, InvParts DEF IInv

(* The invariant holds when a handler has ended.                             *)
LEMMA HandlerStep ==
    ASSUME IInv, NEW d, Whole(d, hist', FALSE), Apply(d), frame' = Idle,
           hist.connects = 1, hist'.connects = hist.connects,
           hist'.lateEvent = hist.lateEvent
    PROVE  IInv'
<1>1. World' = d
  BY Applied, WholeParts
<1>2. Draining' = FALSE
  BY DEF Draining, Idle
<1>3. FrameInv'
  BY DEF FrameInv, Idle
<1>4. QED
  BY <1>1, <1>2, <1>3, InvParts DEF IInv

(* No "close" was emitted yet on a socket that has not been destroyed.       *)
LEMMA NothingLate ==
    ASSUME IInv, Emitted, ~sock.destroyed
    PROVE  hist' = hist
<1> DEFINE late == hist.lateEvent \/ hist.closes > 0
<1>1. hist.closes = 0
  BY InvParts DEF CloseOnce
<1>2. ~late /\ late \in BOOLEAN
  <2>1. ~hist.lateEvent
    BY InvParts
  <2>2. ~(hist.closes > 0)
    BY <1>1
  <2>3. ~late
    BY <2>1, <2>2
  <2>4. late \in BOOLEAN
    OBVIOUS
  <2>5. QED
    BY <2>3, <2>4
<1>3. hist' = [hist EXCEPT !.lateEvent = late]
  BY Zenon DEF Emitted
<1> HIDE DEF late
<1>4. QED
  BY <1>2, <1>3, InvParts DEF HistoryType

(* And when it calls its listeners, on a socket that has not been destroyed. *)
LEMMA ListenersCalled ==
    ASSUME IInv, NEW d, NEW a \in {"connect", "data", "drain"},
           Whole(d, hist, a = "drain"), Apply(d), Listens(a, 1),
           hist.connects = 1, Emitted, ~sock.destroyed, ~d.s._connecting
    PROVE  IInv'
<1>1. World' = d
  BY Applied, WholeParts
<1>2. Draining' = (a = "drain")
  BY DEF Draining, Listens
<1>3. hist' = hist
  BY NothingLate
<1>4. sock' = d.s
  BY DEF Apply
<1>5. FrameInv'
  BY <1>3, <1>4 DEF FrameInv, Listens
<1>6. QED
  BY <1>1, <1>2, <1>3, <1>5, InvParts DEF IInv

------------------------------------------------------------------------------
(* The steps of the application.                                             *)

(* The handle of an object is 0 or 1.                                        *)
LEMMA HandleIs ==
    ASSUME OneConnection, IInv
    PROVE  /\ sock._handle \in {0, 1} /\ NoHandle = 0 /\ Handles = {1}
           /\ hist.connects < MaxHandles => hist.connects = 0
  BY OneHandle, InvParts DEF SocketType, OneConnection

(* write.                                                                    *)
LEMMA WriteStep ==
    ASSUME OneConnection, IInv, Write
    PROVE  IInv'
<1> DEFINE x == hist.chunks + 1
           c == hist.cut \/ ~sock.writable
<1>1. /\ ~crashed /\ frame' = frame
      /\ sock._connecting \/ sock._handle # NoHandle
      /\ hist' = [hist EXCEPT !.chunks = x, !.accepted = Append(hist.accepted, x),
                              !.cut = c]
      /\ sock._connecting =>
            Apply([World EXCEPT !.s._connectQueue = Append(@, x)])
      /\ ~sock._connecting => Apply(DoWrite(World, x))
  BY DEF Write, AppActs
<1>2. hist.connects = 1
  BY <1>1, HandleIs, HasConnected
<1>3. hist.chunks \in Nat /\ x \in Nat
  BY InvParts DEF HistoryType
<1>4. c \in BOOLEAN
  OBVIOUS
<1>5. c <=> hist.cut \/ ~sock.writable
  OBVIOUS
<1> HIDE DEF x, c
<1>6. Append(hist.accepted, x) \in Chunks
  BY <1>3, OneMore, InvParts
<1>7. /\ hist' \in HistoryType /\ hist'.accepted = Append(hist.accepted, x)
      /\ hist'.closes = hist.closes /\ hist'.cut = c
      /\ hist'.connects = hist.connects /\ hist'.lateEvent = hist.lateEvent
  BY <1>1, <1>3, <1>4, <1>6, InvParts DEF HistoryType
<1>8. Wrote(hist, hist', sock, x)
  BY <1>5, <1>7 DEF Wrote
<1>9. CASE sock._connecting
  <2> DEFINE d == [World EXCEPT !.s._connectQueue = Append(@, x)]
  <2>1. Whole(d, hist', Draining)
    BY <1>3, <1>8, <1>9, InvParts, ConnectWriteKeeps
  <2>2. QED
    BY <1>1, <1>2, <1>7, <1>9, <2>1, AppStep
<1>10. CASE ~sock._connecting
  <2> DEFINE d == DoWrite(World, x)
  <2>1. sock._handle = 1
    BY <1>1, <1>10, HandleIs
  <2>2. Whole(d, hist', Draining)
    BY <1>3, <1>8, <1>10, <2>1, InvParts, WriteKeeps
  <2>3. ~d.s._connecting
    <3>1. \/ d = Put(World, Requested(sock), Raw!Write(raw[1], x), ticks)
          \/ d = Put(World, Waiting(sock, x), raw[1], ticks)
      BY <1>3, <2>1, InvParts, DoWriteIs
    <3>2. d.s = Requested(sock) \/ d.s = Waiting(sock, x)
      BY <3>1 DEF Put
    <3>3. /\ Requested(sock)._connecting = sock._connecting
          /\ Waiting(sock, x)._connecting = sock._connecting
      BY <1>3, InvParts, RequestedFields
    <3>4. QED
      BY <1>10, <3>2, <3>3
  <2> HIDE DEF d
  <2>4. Apply(d)
    BY <1>1, <1>10 DEF d
  <2>5. QED
    BY <1>1, <1>2, <1>7, <2>2, <2>3, <2>4, AppStep
<1>11. QED
  BY <1>9, <1>10, InvParts DEF SocketType

(* Nothing but connect makes a socket connect.                               *)
LEMMA DestroyUp ==
    ASSUME OneConnection, NEW w \in WorldType, NEW err \in BOOLEAN
    PROVE  DoDestroy(w, err).s._connecting => w.s._connecting
<1>1. PICK e \in BOOLEAN :
        /\ w.s.destroyed => DoDestroy(w, err) =
              Put(w, [w.s EXCEPT !.errorEmitted = e], w.raw[1],
                  w.ticks \o Reported(w.s, err))
        /\ ~w.s.destroyed => DoDestroy(w, err) =
              Put(w, Lost(w.s, e), Released(w.s, w.raw[1]),
                  w.ticks \o Reported(w.s, err) \o <<"close">>)
  BY DestroyIs
<1>2. w.s \in SocketType
  BY PutsOne
<1>3. ~Lost(w.s, e)._connecting
  BY <1>2, LostFields
<1>4. [w.s EXCEPT !.errorEmitted = e]._connecting = w.s._connecting
  BY <1>2 DEF SocketType
<1> DEFINE d == DoDestroy(w, err)
           p == [w.s EXCEPT !.errorEmitted = e]
           q == Lost(w.s, e)
           t == w.ticks \o Reported(w.s, err)
           r == Released(w.s, w.raw[1])
<1> HIDE DEF d, p, q, t, r
<1>5. CASE w.s.destroyed
  <2>1. d = Put(w, p, w.raw[1], t)
    BY <1>1, <1>5 DEF d, p, t
  <2>2. d.s = p
    BY <2>1 DEF Put
  <2>3. QED
    BY <1>4, <2>2 DEF d, p
<1>6. CASE ~w.s.destroyed
  <2>1. d = Put(w, q, r, t \o <<"close">>)
    BY <1>1, <1>6 DEF d, q, r, t
  <2>2. d.s = q
    BY <2>1 DEF Put
  <2>3. QED
    BY <1>3, <2>2 DEF d, q
<1>7. QED
  BY <1>2, <1>5, <1>6 DEF SocketType

(* Nor does destroySoon.                                                     *)
LEMMA DestroySoonUp ==
    ASSUME OneConnection, NEW w \in WorldType
    PROVE  DoDestroySoon(w).s._connecting => w.s._connecting
<1> DEFINE f == Marked(w.s, "DESTROY_SOON")
           m == Put(w, f, w.raw[1], w.ticks)
<1>1. w.s \in SocketType /\ w.raw[1] \in RawType /\ w.ticks \in Seq(Events)
  BY PutsOne
<1>2. f \in SocketType /\ f._connecting = w.s._connecting
  BY <1>1, MarkedFields DEF FlagNames
<1> HIDE DEF f
<1>3. m \in WorldType /\ m.s = f
  BY <1>1, <1>2, PutParts
<1>4. DoDestroySoon(w) = DoDestroy(m, FALSE) \/ DoDestroySoon(w) = m
  BY DestroySoonIs DEF f
<1> HIDE DEF m
<1>5. QED
  BY <1>2, <1>3, <1>4, DestroyUp

(* Nor does finish.                                                          *)
LEMMA FinishUp ==
    ASSUME OneConnection, NEW w \in WorldType, ~w.s._connecting,
           w.s.readable => w.s._handle = 1
    PROVE  ~DoFinish(w).s._connecting
<1> DEFINE p == Put(w, Ended(w.s), w.raw[1], w.ticks)
           q == Put(w, Marked(w.s, "SHUTDOWN"), w.raw[1], w.ticks)
           z == Put(w, Marked(w.s, "SHUTDOWN"), RawShut(w.raw[1]), w.ticks)
           d == DoFinish(w)
<1>1. w.s \in SocketType /\ w.raw[1] \in RawType /\ w.ticks \in Seq(Events)
  BY PutsOne
<1>2. d = FinishConnected(w)
  BY DEF DoFinish
<1>3. /\ Ended(w.s) \in SocketType /\ ~Ended(w.s)._connecting
      /\ Marked(w.s, "SHUTDOWN") \in SocketType
      /\ ~Marked(w.s, "SHUTDOWN")._connecting
  BY <1>1, EndedFields, MarkedFields DEF FlagNames
<1>4. /\ p \in WorldType /\ p.s = Ended(w.s)
      /\ q \in WorldType /\ q.s = Marked(w.s, "SHUTDOWN")
      /\ z.s = Marked(w.s, "SHUTDOWN")
  <2>1. z.s = Marked(w.s, "SHUTDOWN")
    BY DEF Put
  <2>2. QED
    BY <1>1, <1>3, <2>1, PutParts
<1>5. d = w \/ d = DoDestroySoon(p) \/ d = DoDestroy(q, TRUE) \/ d = z
  <2>1. w.s.writable \in BOOLEAN /\ w.s.readable \in BOOLEAN
    BY <1>1 DEF SocketType
  <2>2. QED
    BY <1>2, <2>1, FinishConnectedIs
<1> HIDE DEF d, p, q, z
<1>6. ~DoDestroySoon(p).s._connecting
  <2>1. p \in WorldType /\ ~p.s._connecting
    BY <1>3, <1>4
  <2>2. DoDestroySoon(p).s._connecting => p.s._connecting
    BY <2>1, DestroySoonUp
  <2>3. QED
    BY <2>1, <2>2
<1>7. ~DoDestroy(q, TRUE).s._connecting
  <2>1. q \in WorldType /\ ~q.s._connecting
    BY <1>3, <1>4
  <2>2. TRUE \in BOOLEAN
    OBVIOUS
  <2>3. DoDestroy(q, TRUE).s._connecting => q.s._connecting
    BY <2>1, <2>2, DestroyUp
  <2>4. QED
    BY <2>1, <2>3
<1>8. ~d.s._connecting
  BY <1>3, <1>4, <1>5, <1>6, <1>7
<1>9. QED
  BY <1>8 DEF d

(* finish.                                                                   *)
LEMMA FinishStep ==
    ASSUME OneConnection, IInv, Finish
    PROVE  IInv'
<1> DEFINE d == DoFinish(World)
<1>1. sock.writable /\ Apply(d) /\ hist' = hist /\ frame' = frame
  BY DEF Finish, AppActs
<1>2. hist.connects = 1
  BY <1>1, HasConnected, InvParts DEF Life
<1>3. Whole(d, hist, Draining)
  BY InvParts, FinishKeeps
<1>4. ~sock._connecting => ~d.s._connecting
  BY InvParts, FinishUp DEF Life
<1> HIDE DEF d
<1>5. QED
  BY <1>1, <1>2, <1>3, <1>4, AppStep

(* destroy, called by the application: the connection is cut short.          *)
LEMMA DestroyStep ==
    ASSUME OneConnection, IInv, Destroy
    PROVE  IInv'
<1> DEFINE d == DoDestroy(World, FALSE)
<1>1. /\ sock._connecting \/ sock._handle # NoHandle
      /\ Apply(d) /\ hist' = [hist EXCEPT !.cut = TRUE] /\ frame' = frame
  BY DEF Destroy, AppActs
<1>2. hist.connects = 1
  BY <1>1, HandleIs, HasConnected
<1>3. /\ hist' \in HistoryType /\ hist'.accepted = hist.accepted
      /\ hist'.closes = hist.closes /\ hist'.cut = TRUE
      /\ hist'.connects = hist.connects /\ hist'.lateEvent = hist.lateEvent
  BY <1>1, InvParts DEF HistoryType
<1>4. Whole(World, hist', Draining)
  BY <1>3, InvParts, HistoryKeeps
<1>5. Whole(d, hist', Draining) /\ ~d.s._connecting
  BY <1>3, <1>4, InvParts, CutDestroyKeeps
<1> HIDE DEF d
<1>6. QED
  BY <1>1, <1>2, <1>3, <1>5, AppStep

(* destroy, called once more with an error.                                  *)
LEMMA DestroyAgainStep ==
    ASSUME OneConnection, IInv, DestroyAgain
    PROVE  IInv'
<1> DEFINE d == DoDestroy(World, TRUE)
<1>1. sock.destroyed /\ Apply(d) /\ hist' = hist /\ frame' = frame
  BY DEF DestroyAgain, AppActs
<1>2. hist.connects = 1
  BY <1>1, HasConnected
<1>3. Given(raw[1]) = hist.accepted \/ hist.cut
  BY <1>1, InvParts DEF Order
<1>4. IsPrefix(Given(raw[1]), hist.accepted)
  BY InvParts DEF Order
<1>5. /\ Good(d, hist) /\ Queued(d.s, d.raw[1])
      /\ Delayed(raw[1], Draining) => Delayed(d.raw[1], Draining)
  <2>1. Held(World, hist)
    BY InvParts, WholeParts
  <2>2. QED
    BY <1>3, <1>4, <2>1, InvParts, DestroyKeeps
<1>6. Whole(d, hist, Draining)
  BY <1>5, InvParts DEF Whole
<1>7. d.s._connecting => sock._connecting
  BY InvParts, DestroyUp
<1> HIDE DEF d
<1>8. QED
  BY <1>1, <1>2, <1>6, <1>7, AppStep

(* destroySoon: a socket that is still connecting is cut short.              *)
LEMMA DestroySoonStep ==
    ASSUME OneConnection, IInv, DestroySoon
    PROVE  IInv'
<1> DEFINE d == DoDestroySoon(World)
           c == hist.cut \/ sock._connecting
<1>1. /\ sock._handle # NoHandle
      /\ Apply(d) /\ hist' = [hist EXCEPT !.cut = c] /\ frame' = frame
  BY DEF DestroySoon, AppActs
<1>2. hist.connects = 1
  BY <1>1, HandleIs, HasConnected
<1>3. c \in BOOLEAN
  OBVIOUS
<1>4. c <=> hist.cut \/ sock._connecting
  OBVIOUS
<1> HIDE DEF c
<1>5. /\ hist' \in HistoryType /\ hist'.accepted = hist.accepted
      /\ hist'.closes = hist.closes /\ hist'.cut = c
      /\ hist'.connects = hist.connects /\ hist'.lateEvent = hist.lateEvent
  BY <1>1, <1>3, InvParts DEF HistoryType
<1>6. Whole(World, hist', Draining)
  BY <1>4, <1>5, InvParts, HistoryKeeps
<1>7. sock._connecting => hist'.cut
  BY <1>4, <1>5
<1>8. Whole(d, hist', Draining)
  BY <1>6, <1>7, InvParts, DestroySoonKeeps
<1>9. d.s._connecting => sock._connecting
  BY InvParts, DestroySoonUp
<1> HIDE DEF d
<1>10. QED
  BY <1>1, <1>2, <1>5, <1>8, <1>9, AppStep

(* pause, and resume on a socket that has nothing to read.                   *)
LEMMA PausedStep ==
    ASSUME OneConnection, IInv, NEW x \in BOOLEAN,
           Apply([World EXCEPT !.s._paused = x]), frame' = frame, hist' = hist
    PROVE  IInv'
<1> DEFINE d == [World EXCEPT !.s._paused = x]
<1>1. /\ Whole(d, hist, Draining) /\ d.s._connecting = sock._connecting
  <2>1. Whole(World, hist, Draining) /\ World.s = sock /\ Draining \in BOOLEAN
    BY InvParts DEF Draining
  <2>2. d = [World EXCEPT !.s._paused = x]
    OBVIOUS
  <2> HIDE DEF d
  <2>3. QED
    BY <2>1, <2>2, PausedKeeps
<1>2. World' = d
  BY <1>1, Applied, WholeParts
<1>3. Draining' = Draining
  BY DEF Draining
<1>4. sock' = [sock EXCEPT !._paused = x] /\ ticks' = ticks
  BY DEF Apply, World
<1>5. /\ sock'._connecting = sock._connecting /\ sock'.lookup = sock.lookup
      /\ sock'.destroyed = sock.destroyed /\ sock'._handle = sock._handle
      /\ sock'._flags = sock._flags
  BY <1>4, InvParts DEF SocketType
<1>6. FrameInv'
  BY <1>4, <1>5, InvParts DEF FrameInv, Idle
<1>7. QED
  BY <1>1, <1>2, <1>3, <1>6, InvParts DEF IInv

(* pause.                                                                    *)
LEMMA PauseStep ==
    ASSUME OneConnection, IInv, Pause
    PROVE  IInv'
  BY PausedStep DEF Pause, AppActs

(* resume.                                                                   *)
LEMMA ResumeStep ==
    ASSUME OneConnection, IInv, Resume
    PROVE  IInv'
<1> DEFINE r == [World EXCEPT !.s._paused = FALSE]
           d == DoResume(World)
<1>1. Apply(d) /\ hist' = hist /\ frame' = frame
  BY DEF Resume, AppActs
<1>2. CASE sock._handle # 0 /\ ~sock._connecting
  <2>1. d = StartRead(r)
    BY <1>2, InvParts DEF DoResume, NoHandle
  <2>2. r \in WorldType /\ r.s._connecting = sock._connecting
    BY InvParts, PausedKeeps, WholeParts
  <2>3. d.s = r.s
    <3> HIDE DEF r, d
    <3>1. \/ d = r
          \/ d = [r EXCEPT !.raw[r.s._handle] = Raw!Read(@)]
      BY <2>1 DEF StartRead
    <3>2. QED
      BY <2>2, <3>1 DEF WorldType
  <2>4. Whole(d, hist, Draining)
    BY InvParts, ResumeKeeps
  <2>5. hist.connects = 1
    BY <1>2, HandleIs, HasConnected
  <2> HIDE DEF d, r
  <2>6. QED
    BY <1>1, <2>2, <2>3, <2>4, <2>5, AppStep
<1>3. CASE ~(sock._handle # 0 /\ ~sock._connecting)
  <2>1. d = r
    BY <1>3, InvParts DEF DoResume, NoHandle
  <2>2. QED
    BY <1>1, <2>1, PausedStep
<1>4. QED
  BY <1>2, <1>3

(* An operation on the handle just created: the C++ socket is new.           *)
LEMMA NewSocketFields ==
    LET r == Raw!NoSocket
        q == Raw!Connect(Raw!NewRawSocket)
    IN /\ r \in RawType /\ q \in RawType
       /\ \A x \in {r, q} :
             /\ ~x.connected /\ x.peer = "open" /\ ~x.fin
             /\ x.m_pending_writes = 0 /\ ~x.m_write_shutdown_pending
             /\ ~x.m_close_pending /\ x.writeOp = "none" /\ x.readOp = "none"
             /\ ~x.shutdownCb /\ x.sent = <<>>
             /\ Given(x) = <<>>
       /\ q.open /\ q.connectOp = "pending" /\ r.connectOp = "none"
<1> DEFINE r == Raw!NoSocket
           q == Raw!Connect(Raw!NewRawSocket)
<1>1. <<>> \in Chunks
  BY DEF Chunks
<1>2. r \in RawType /\ q \in RawType
  <2>1. Raw!NewRawSocket \in RawType
    BY <1>1 DEF RawType, Raw!NewRawSocket, Raw!NoChunk
  <2>2. r \in RawType
    BY <2>1 DEF RawType, Raw!NoSocket
  <2>3. q \in RawType
    BY <2>1 DEF RawType, Raw!Connect
  <2>4. QED
    BY <2>2, <2>3
<1>3. \A x \in {r, q} :
         /\ ~x.connected /\ x.peer = "open" /\ ~x.fin
         /\ x.m_pending_writes = 0 /\ ~x.m_write_shutdown_pending
         /\ ~x.m_close_pending /\ x.writeOp = "none" /\ x.readOp = "none"
         /\ ~x.shutdownCb /\ x.sent = <<>>
  BY DEF Raw!NoSocket, Raw!NewRawSocket, Raw!Connect
<1>4. q.open /\ q.connectOp = "pending" /\ r.connectOp = "none"
  BY DEF Raw!NoSocket, Raw!NewRawSocket, Raw!Connect
<1> HIDE DEF r, q
<1>5. \A x \in {r, q} : Given(x) = <<>>
  <2> TAKE x \in {r, q}
  <2>1. x \in RawType /\ x.writeOp = "none" /\ x.sent = <<>>
    BY <1>2, <1>3
  <2>2. QED
    BY <2>1, GivenChunks
<1>6. QED
  BY <1>2, <1>3, <1>4, <1>5 DEF r, q

(* The socket that connect makes, and the one the handle is given to.        *)
Connecting(s, byName) ==
    [s EXCEPT !._connecting = TRUE, !.writable = TRUE, !.lookup = byName]
WithHandle(s) ==
    [s EXCEPT !._handle = 1, !._flags = {}, !._pendingWriteReqs = 0,
              !.destroyed = FALSE, !.errorEmitted = FALSE, !.lookup = FALSE]

(* What they leave alone.                                                    *)
LEMMA ConnectingFields ==
    ASSUME NEW s \in SocketType, NEW byName \in BOOLEAN
    PROVE  /\ LET p == Connecting(s, byName)
              IN /\ p \in SocketType
                 /\ p._connecting /\ p.writable /\ p.lookup = byName
                 /\ p._flags = s._flags /\ p.destroyed = s.destroyed
                 /\ p._handle = s._handle /\ p.readable = s.readable
                 /\ p._connectQueue = s._connectQueue
                 /\ p._writeQueue = s._writeQueue
                 /\ p._pendingWriteReqs = s._pendingWriteReqs
           /\ LET p == WithHandle(s)
              IN /\ p \in SocketType
                 /\ p._handle = 1 /\ p._flags = {} /\ p._pendingWriteReqs = 0
                 /\ ~p.destroyed /\ ~p.lookup
                 /\ p._connecting = s._connecting /\ p.writable = s.writable
                 /\ p.readable = s.readable
                 /\ p._connectQueue = s._connectQueue
                 /\ p._writeQueue = s._writeQueue
<1>1. LET p == Connecting(s, byName)
      IN /\ p \in SocketType
         /\ p._connecting /\ p.writable /\ p.lookup = byName
         /\ p._flags = s._flags /\ p.destroyed = s.destroyed
         /\ p._handle = s._handle /\ p.readable = s.readable
         /\ p._connectQueue = s._connectQueue
         /\ p._writeQueue = s._writeQueue
         /\ p._pendingWriteReqs = s._pendingWriteReqs
  BY DEF Connecting, SocketType
<1>2. WithHandle(s) \in SocketType
  <2> DEFINE none == {}
             zero == 0
             a == [s EXCEPT !._handle = 1, !._flags = none,
                            !._pendingWriteReqs = zero]
             c == [a EXCEPT !.destroyed = FALSE, !.errorEmitted = FALSE]
             p == [c EXCEPT !.lookup = FALSE]
  <2>1. none \in SUBSET FlagNames /\ zero \in Int
    OBVIOUS
  <2>2. WithHandle(s) = p
    BY DEF WithHandle
  <2> HIDE DEF none, zero
  <2>3. a \in SocketType
    BY <2>1 DEF SocketType
  <2> HIDE DEF a
  <2>4. c \in SocketType
    BY <2>3 DEF SocketType
  <2> HIDE DEF c
  <2>5. p \in SocketType
    BY <2>4 DEF SocketType
  <2>6. QED
    BY <2>2, <2>5, Zenon
<1>3. LET p == WithHandle(s)
      IN /\ p._handle = 1 /\ p._flags = {} /\ p._pendingWriteReqs = 0
         /\ ~p.destroyed /\ ~p.lookup
         /\ p._connecting = s._connecting /\ p.writable = s.writable
         /\ p.readable = s.readable
         /\ p._connectQueue = s._connectQueue
         /\ p._writeQueue = s._writeQueue
  BY DEF WithHandle, SocketType
<1>4. QED
  BY <1>1, <1>2, <1>3

(* They are put in the world.                                                *)
LEMMA ConnectingPut ==
    ASSUME NEW w \in WorldType, NEW byName \in BOOLEAN
    PROVE  /\ [w EXCEPT !.s._connecting = TRUE, !.s.writable = TRUE,
                        !.s.lookup = byName]
                = Put(w, Connecting(w.s, byName), w.raw[1], w.ticks)
           /\ ConnectHandle(w, 1)
                = Put(w, WithHandle(w.s), Raw!Connect(Raw!NewRawSocket), w.ticks)
<1>1. [w EXCEPT !.s._connecting = TRUE, !.s.writable = TRUE, !.s.lookup = byName]
         = [w EXCEPT !.s = Connecting(w.s, byName)]
  BY DEF Connecting, WorldType
<1>2. [w EXCEPT !.s = Connecting(w.s, byName)]
         = Put(w, Connecting(w.s, byName), w.raw[1], w.ticks)
  BY PutsOne
<1> DEFINE q == Raw!Connect(Raw!NewRawSocket)
           p == WithHandle(w.s)
<1>3. ConnectHandle(w, 1) = [w EXCEPT !.s = p, !.raw[1] = q]
  BY DEF ConnectHandle, WithHandle
<1>4. p \in SocketType /\ q \in RawType
  BY PutsOne, ConnectingFields, NewSocketFields
<1> HIDE DEF p, q
<1>5. ConnectHandle(w, 1) = Put(w, p, q, w.ticks)
  BY <1>3, <1>4, PutsBoth
<1>6. QED
  BY <1>1, <1>2, <1>5 DEF p, q

(* The handle is created, and connects.                                      *)
LEMMA ConnectHandleKeeps ==
    ASSUME OneConnection, NEW w, NEW h, NEW b \in BOOLEAN, Whole(w, h, b),
           w.s._connecting, ~w.s.destroyed, w.s._handle = 0
    PROVE  LET d == ConnectHandle(w, 1)
           IN Whole(d, h, b) /\ d.s = WithHandle(w.s) /\ d.ticks = w.ticks
<1> DEFINE s == w.s
           r == w.raw[1]
           t == w.ticks
           p == WithHandle(s)
           q == Raw!Connect(Raw!NewRawSocket)
           d == ConnectHandle(w, 1)
<1>1. /\ w \in WorldType /\ s \in SocketType /\ r \in RawType /\ t \in Seq(Events)
      /\ h \in HistoryType /\ ~w.crashed /\ h.cut \in BOOLEAN
      /\ h.accepted \in Chunks
      /\ Fits(s, r, t, h) /\ Order(s, r, h.accepted, h.cut) /\ Queued(s, r)
      /\ Delayed(r, b)
  BY WholeParts
<1>2. /\ Life(s, r) /\ Joining(s, r) /\ Shut(s, r) /\ LastRead(s, r)
      /\ Uncut(s, r, h.cut) /\ (Has(t, "lookupError") => h.cut)
      /\ CloseOnce(s, t, h.closes)
  BY <1>1 DEF Fits, Sound
<1>3. r = Raw!NoSocket
  BY <1>2 DEF Life
<1>4. /\ q \in RawType /\ Given(r) = <<>> /\ Given(q) = <<>>
      /\ ~q.connected /\ q.peer = "open" /\ ~q.fin
      /\ q.m_pending_writes = 0 /\ ~q.m_write_shutdown_pending
      /\ ~q.m_close_pending /\ q.writeOp = "none" /\ q.readOp = "none"
      /\ ~q.shutdownCb /\ q.open /\ q.connectOp = "pending"
  BY <1>3, NewSocketFields
<1>5. /\ p \in SocketType
      /\ p._handle = 1 /\ p._flags = {} /\ p._pendingWriteReqs = 0
      /\ ~p.destroyed /\ ~p.lookup
      /\ p._connecting = s._connecting /\ p.writable = s.writable
      /\ p.readable = s.readable
      /\ p._connectQueue = s._connectQueue
      /\ p._writeQueue = s._writeQueue
  BY <1>1, ConnectingFields
<1>6. d = Put(w, p, q, t)
  BY <1>1, ConnectingPut
<1> HIDE DEF p, q, d
<1>7. Life(p, q) /\ Joining(p, q) /\ OneWrite(q) /\ Shut(p, q) /\ LastRead(p, q)
  <2>1. Life(p, q)
    BY <1>2, <1>4, <1>5 DEF Life
  <2>2. Joining(p, q)
    BY <1>2, <1>4, <1>5 DEF Joining
  <2>3. OneWrite(q)
    BY <1>4 DEF OneWrite
  <2>4. Shut(p, q) /\ LastRead(p, q)
    BY <1>4, <1>5 DEF Shut, LastRead
  <2>5. QED
    BY <2>1, <2>2, <2>3, <2>4
<1>8. Uncut(p, q, h.cut)
  BY <1>4, <1>5 DEF Uncut
<1>9. CloseOnce(p, t, h.closes)
  BY <1>2, <1>5 DEF CloseOnce
<1>10. Fits(p, q, t, h)
  BY <1>2, <1>7, <1>8, <1>9 DEF Fits, Sound
<1>11. Order(p, q, h.accepted, h.cut)
  <2>1. p.destroyed = s.destroyed /\ Given(q) = Given(r)
    BY <1>1, <1>4, <1>5 DEF SocketType
  <2>2. QED
    BY <1>1, <1>5, <2>1, OrderSame
<1>12. Queued(p, q)
  BY <1>2, <1>4, <1>5 DEF Queued, Joining
<1>13. Delayed(q, b)
  BY <1>4 DEF Delayed
<1>14. Whole(d, h, b)
  BY <1>1, <1>4, <1>5, <1>6, <1>10, <1>11, <1>12, <1>13, PutWhole
<1>15. d.s = p /\ d.ticks = t
  BY <1>6 DEF Put
<1>16. QED
  BY <1>14, <1>15 DEF d, p

(* connect: of an object that is as it was made.                             *)
LEMMA ConnectStep ==
    ASSUME OneConnection, IInv, NEW byName \in BOOLEAN, Connect(byName)
    PROVE  IInv'
<1> DEFINE p == Connecting(sock, byName)
           r == raw[1]
           w == [World EXCEPT !.s._connecting = TRUE, !.s.writable = TRUE,
                              !.s.lookup = byName]
           d == IF byName THEN w ELSE ConnectHandle(w, 1)
<1>1. hist.connects = 0
  BY HandleIs DEF Connect
<1>2. /\ ~sock._connecting /\ ~sock.lookup /\ ~sock.destroyed /\ sock._handle = 0
      /\ ticks = <<>> /\ frame = Idle /\ sock._flags = {}
  BY <1>1, InvParts DEF FrameInv
<1>3. /\ Apply(d) /\ frame' = Idle
      /\ hist' = [hist EXCEPT !.connects = 1, !.accepted = <<>>, !.closes = 0]
  BY <1>1, <1>2 DEF Connect, AppActs
<1>4. r = Raw!NoSocket
  BY <1>2, InvParts DEF Life
<1>5. /\ r \in RawType /\ Given(r) = <<>>
      /\ ~r.connected /\ r.peer = "open" /\ ~r.fin
      /\ r.m_pending_writes = 0 /\ ~r.m_write_shutdown_pending
      /\ ~r.m_close_pending /\ r.writeOp = "none" /\ r.readOp = "none"
      /\ ~r.shutdownCb /\ r.connectOp = "none"
  BY <1>4, NewSocketFields
<1>6. <<>> \in Chunks /\ <<>> \o <<>> \o <<>> = <<>>
  BY DEF Chunks
<1>7. /\ hist' \in HistoryType /\ hist'.connects = 1 /\ hist'.accepted = <<>>
      /\ hist'.closes = 0 /\ hist'.cut = hist.cut /\ ~hist'.lateEvent
  BY <1>3, <1>6, InvParts DEF HistoryType
<1>8. sock._writeQueue = <<>> /\ sock._connectQueue = <<>> /\ sock._pendingWriteReqs = 0
  BY <1>2, <1>5, InvParts DEF Queued
<1>9. /\ p \in SocketType /\ p._connecting /\ p.writable /\ p._flags = {}
      /\ ~p.destroyed /\ p._handle = 0 /\ p.readable = sock.readable
      /\ p._connectQueue = <<>> /\ p._writeQueue = <<>>
      /\ p._pendingWriteReqs = 0
  <2>1. /\ p \in SocketType /\ p._connecting /\ p.writable
        /\ p._flags = sock._flags /\ p.destroyed = sock.destroyed
        /\ p._handle = sock._handle /\ p.readable = sock.readable
        /\ p._connectQueue = sock._connectQueue
        /\ p._writeQueue = sock._writeQueue
        /\ p._pendingWriteReqs = sock._pendingWriteReqs
    <3>1. sock \in SocketType
      BY InvParts
    <3>2. QED
      BY <3>1, ConnectingFields
  <2> HIDE DEF p
  <2>2. ~p.destroyed
    BY <1>2, <2>1
  <2>3. p._flags = {} /\ p._handle = 0
    BY <1>2, <2>1
  <2>4. /\ p._connectQueue = <<>> /\ p._writeQueue = <<>>
        /\ p._pendingWriteReqs = 0
    BY <1>8, <2>1
  <2>5. QED
    BY <2>1, <2>2, <2>3, <2>4
<1>10. w = Put(World, p, r, ticks)
  BY InvParts, ConnectingPut
<1> HIDE DEF p, w
<1>11. ~sock.readable
  BY <1>2, InvParts DEF Life
<1>12. ~Has(ticks, "close") /\ ~Has(ticks, "lookupError") /\ Once(ticks, "close")
  <2>1. ~Has(ticks, "close") /\ Once(ticks, "close")
    BY <1>2, InvParts DEF CloseOnce
  <2>2. Len(ticks) = 0
    BY <1>2
  <2>3. ~Has(ticks, "lookupError")
    BY <2>2 DEF Has
  <2>4. QED
    BY <2>1, <2>3
<1>13. Fits(p, r, ticks, hist')
  <2>1. Life(p, r)
    BY <1>4, <1>9, <1>11 DEF Life
  <2>2. Joining(p, r)
    BY <1>5, <1>9 DEF Joining
  <2>3. OneWrite(r)
    BY <1>5 DEF OneWrite
  <2>4. Shut(p, r) /\ LastRead(p, r)
    BY <1>5, <1>9 DEF Shut, LastRead
  <2>5. Uncut(p, r, hist'.cut)
    BY <1>5, <1>9 DEF Uncut
  <2>6. CloseOnce(p, ticks, hist'.closes)
    BY <1>7, <1>9, <1>12 DEF CloseOnce
  <2>7. QED
    BY <1>12, <2>1, <2>2, <2>3, <2>4, <2>5, <2>6 DEF Fits, Sound
<1>14. Order(p, r, hist'.accepted, hist'.cut)
  BY <1>5, <1>6, <1>7, <1>9, OpenOrder
<1>15. Queued(p, r) /\ Delayed(r, FALSE)
  BY <1>5, <1>9 DEF Queued, Delayed
<1>16. Whole(w, hist', FALSE)
  BY <1>5, <1>7, <1>9, <1>10, <1>13, <1>14, <1>15, InvParts, PutWhole
<1>17. w.s = p
  BY <1>10 DEF Put
<1>18. Whole(d, hist', FALSE)
  <2>1. CASE byName
    BY <1>16, <2>1
  <2>2. CASE ~byName
    BY <1>9, <1>16, <1>17, <2>2, ConnectHandleKeeps
  <2>3. QED
    BY <2>1, <2>2
<1> HIDE DEF d
<1>19. World' = d
  BY <1>3, <1>18, Applied, WholeParts
<1>20. Draining' = FALSE
  BY <1>3 DEF Draining, Idle
<1>21. FrameInv'
  BY <1>3, <1>7 DEF FrameInv
<1>22. QED
  BY <1>7, <1>18, <1>19, <1>20, <1>21 DEF IInv

------------------------------------------------------------------------------
(* The handlers of the event loop.                                           *)

(* Between the handlers, no "drain" listener is running.                     *)
LEMMA LoopParts ==
    ASSUME OneConnection, IInv, frame # [handler |-> "drain", handle |-> 1]
    PROVE  Whole(World, hist, FALSE) /\ Draining = FALSE
  BY InvParts DEF Draining

(* The socket without the lookup.                                            *)
LEMMA LookupKeeps ==
    ASSUME OneConnection, NEW w, NEW h, NEW b \in BOOLEAN, Whole(w, h, b)
    PROVE  LET p == [w.s EXCEPT !.lookup = FALSE]
               d == [w EXCEPT !.s.lookup = FALSE]
           IN /\ Whole(d, h, b) /\ d = Put(w, p, w.raw[1], w.ticks)
              /\ p \in SocketType /\ p._connecting = w.s._connecting
              /\ p.destroyed = w.s.destroyed /\ p._handle = w.s._handle
<1> DEFINE s == w.s
           r == w.raw[1]
           t == w.ticks
           p == [s EXCEPT !.lookup = FALSE]
           d == [w EXCEPT !.s.lookup = FALSE]
<1>1. /\ w \in WorldType /\ s \in SocketType /\ r \in RawType /\ t \in Seq(Events)
      /\ h \in HistoryType /\ ~w.crashed /\ h.cut \in BOOLEAN
      /\ Fits(s, r, t, h) /\ Order(s, r, h.accepted, h.cut) /\ Queued(s, r)
      /\ Delayed(r, b)
  BY WholeParts
<1>2. /\ p \in SocketType
      /\ ~p.lookup /\ p.destroyed = s.destroyed /\ p._handle = s._handle
      /\ p._connecting = s._connecting /\ p.writable = s.writable
      /\ p.readable = s.readable /\ p._flags = s._flags
      /\ p._connectQueue = s._connectQueue
      /\ p._writeQueue = s._writeQueue
      /\ p._pendingWriteReqs = s._pendingWriteReqs
  BY <1>1 DEF SocketType
<1>3. d = [w EXCEPT !.s = p]
  OBVIOUS
<1> HIDE DEF p, d
<1>4. d = Put(w, p, r, t)
  BY <1>1, <1>3, PutsOne
<1>5. Life(p, r) /\ Joining(p, r) /\ OneWrite(r) /\ Shut(p, r) /\ LastRead(p, r)
  <2>1. Life(p, r)
    BY <1>1, <1>2 DEF Fits, Sound, Life
  <2>2. Joining(p, r) /\ OneWrite(r)
    BY <1>1, <1>2 DEF Fits, Sound, Joining
  <2>3. Shut(p, r) /\ LastRead(p, r)
    BY <1>1, <1>2 DEF Fits, Sound, Shut, LastRead
  <2>4. QED
    BY <2>1, <2>2, <2>3
<1>6. Uncut(p, r, h.cut) /\ CloseOnce(p, t, h.closes)
  BY <1>1, <1>2 DEF Fits, Uncut, CloseOnce
<1>7. Fits(p, r, t, h)
  BY <1>1, <1>5, <1>6 DEF Fits, Sound
<1>8. Order(p, r, h.accepted, h.cut)
  BY <1>1, <1>2 DEF Order
<1>9. Queued(p, r)
  BY <1>1, <1>2 DEF Queued
<1>10. Whole(d, h, b)
  BY <1>1, <1>2, <1>4, <1>7, <1>8, <1>9, PutWhole
<1>11. QED
  BY <1>2, <1>4, <1>10 DEF d, p

(* The error of a lookup is left to nextTick.                                *)
LEMMA LookupErrorKeeps ==
    ASSUME OneConnection, NEW w, NEW h, NEW b \in BOOLEAN, Whole(w, h, b), h.cut
    PROVE  Whole([w EXCEPT !.ticks = Append(@, "lookupError")], h, b)
<1> DEFINE s == w.s
           r == w.raw[1]
           t == w.ticks
           u == Append(t, "lookupError")
           d == [w EXCEPT !.ticks = Append(@, "lookupError")]
<1>1. /\ w \in WorldType /\ s \in SocketType /\ r \in RawType /\ t \in Seq(Events)
      /\ h \in HistoryType /\ ~w.crashed
      /\ Fits(s, r, t, h) /\ Order(s, r, h.accepted, h.cut) /\ Queued(s, r)
      /\ Delayed(r, b)
  BY WholeParts
<1>2. "lookupError" \in Events /\ "close" \in Events /\ "lookupError" # "close"
  BY DEF Events
<1>3. /\ u \in Seq(Events)
      /\ Has(u, "close") <=> Has(t, "close")
      /\ Once(t, "close") => Once(u, "close")
  BY <1>1, <1>2, TicksAppend
<1>4. d = [w EXCEPT !.ticks = u]
  OBVIOUS
<1> HIDE DEF u, d
<1>5. d = Put(w, s, r, u)
  BY <1>1, <1>4, PutsOne
<1>6. CloseOnce(s, u, h.closes)
  BY <1>1, <1>3 DEF Fits, CloseOnce
<1>7. Fits(s, r, u, h)
  BY <1>1, <1>6 DEF Fits
<1>8. Whole(d, h, b)
  BY <1>1, <1>3, <1>5, <1>7, PutWhole
<1>9. QED
  BY <1>8 DEF d

(* The history of a connection that is cut short.                            *)
LEMMA CutHistory ==
    ASSUME IInv, hist' = [hist EXCEPT !.cut = TRUE]
    PROVE  /\ hist' \in HistoryType /\ hist'.accepted = hist.accepted
           /\ hist'.closes = hist.closes /\ hist'.cut = TRUE
           /\ hist'.connects = hist.connects
           /\ hist'.lateEvent = hist.lateEvent
           /\ \A b \in BOOLEAN : Whole(World, hist, b) => Whole(World, hist', b)
<1>1. /\ hist' \in HistoryType /\ hist'.accepted = hist.accepted
      /\ hist'.closes = hist.closes /\ hist'.cut = TRUE
      /\ hist'.connects = hist.connects /\ hist'.lateEvent = hist.lateEvent
  BY InvParts DEF HistoryType
<1>2. QED
  BY <1>1, HistoryKeeps

(* The callback of the lookup.                                               *)
LEMMA LookupDoneStep ==
    ASSUME OneConnection, IInv, LookupDone
    PROVE  IInv'
<1> DEFINE w == [World EXCEPT !.s.lookup = FALSE]
<1>1. /\ frame = Idle /\ frame' = Idle /\ sock.lookup
  BY DEF LookupDone, LoopActs
<1>2. hist.connects = 1
  BY <1>1, HasConnected
<1>3. Whole(World, hist, FALSE) /\ Draining = FALSE
  BY <1>1, LoopParts DEF Idle
<1>4. /\ Whole(w, hist, FALSE) /\ w.s._connecting = sock._connecting
      /\ w.s.destroyed = sock.destroyed /\ w.s._handle = sock._handle
  <2>1. LET p == [sock EXCEPT !.lookup = FALSE]
        IN /\ Whole(w, hist, FALSE) /\ w = Put(World, p, raw[1], ticks)
           /\ p._connecting = sock._connecting
           /\ p.destroyed = sock.destroyed /\ p._handle = sock._handle
    <3>1. World.s = sock /\ World.raw[1] = raw[1] /\ World.ticks = ticks
      BY InvParts
    <3> HIDE DEF w
    <3>2. LET p == [World.s EXCEPT !.lookup = FALSE]
          IN /\ Whole(w, hist, FALSE) /\ w = Put(World, p, World.raw[1], World.ticks)
             /\ p._connecting = World.s._connecting
             /\ p.destroyed = World.s.destroyed /\ p._handle = World.s._handle
      BY <1>3, LookupKeeps DEF w
    <3>3. QED
      BY <3>1, <3>2
  <2>2. QED
    BY <2>1 DEF Put
<1> DEFINE d == [w EXCEPT !.ticks = Append(@, "lookupError")]
           e == ConnectHandle(w, 1)
<1>5. \/ Apply(w) /\ hist' = hist
      \/ Apply(d) /\ hist' = [hist EXCEPT !.cut = TRUE]
      \/ sock._connecting /\ Apply(e) /\ hist' = hist
  BY <1>2 DEF LookupDone
<1>6. CASE Apply(w) /\ hist' = hist
  BY <1>1, <1>2, <1>4, <1>6, HandlerStep
<1>7. CASE Apply(d) /\ hist' = [hist EXCEPT !.cut = TRUE]
  <2>1. /\ hist' \in HistoryType /\ hist'.accepted = hist.accepted
        /\ hist'.closes = hist.closes /\ hist'.cut = TRUE
        /\ hist'.connects = hist.connects /\ hist'.lateEvent = hist.lateEvent
    BY <1>7, CutHistory
  <2>2. Whole(w, hist', FALSE)
    BY <1>4, <2>1, HistoryKeeps
  <2>3. Whole(d, hist', FALSE)
    BY <2>1, <2>2, LookupErrorKeeps
  <2> HIDE DEF d
  <2>4. QED
    BY <1>1, <1>2, <1>7, <2>1, <2>3, HandlerStep
<1>8. CASE sock._connecting /\ Apply(e) /\ hist' = hist
  <2>1. ~sock.destroyed /\ sock._handle = 0
    BY <1>1, <1>8, InvParts DEF Life
  <2>2. Whole(e, hist, FALSE)
    BY <1>4, <1>8, <2>1, ConnectHandleKeeps
  <2> HIDE DEF e
  <2>3. QED
    BY <1>1, <1>2, <1>8, <2>2, HandlerStep
<1>9. QED
  BY <1>5, <1>6, <1>7, <1>8

(* The result of an operation has been taken.                                *)
LEMMA TakenFields ==
    ASSUME NEW r \in RawType
    PROVE  LET q == [r EXCEPT !.connectOp = "none"]
           IN /\ q \in RawType /\ q.connectOp = "none"
              /\ q.open = r.open /\ q.connected = r.connected
              /\ q.peer = r.peer /\ q.fin = r.fin
              /\ q.m_pending_writes = r.m_pending_writes
              /\ q.m_write_shutdown_pending = r.m_write_shutdown_pending
              /\ q.m_close_pending = r.m_close_pending
              /\ q.writeOp = r.writeOp /\ q.writing = r.writing
              /\ q.readOp = r.readOp
              /\ q.reading = r.reading /\ q.readCb = r.readCb
              /\ q.shutdownCb = r.shutdownCb /\ q.sent = r.sent
  BY DEF RawType

(* HandleConnect takes the result of the connection.                         *)
LEMMA ConnectTakenKeeps ==
    ASSUME OneConnection, NEW w, NEW h, NEW b \in BOOLEAN, Whole(w, h, b)
    PROVE  LET q == [w.raw[1] EXCEPT !.connectOp = "none"]
               d == [w EXCEPT !.raw[1].connectOp = "none"]
           IN /\ Whole(d, h, b) /\ d = Put(w, w.s, q, w.ticks)
              /\ d \in WorldType /\ d.s = w.s /\ d.raw[1] = q
              /\ d.ticks = w.ticks /\ q \in RawType
<1> DEFINE s == w.s
           r == w.raw[1]
           t == w.ticks
           q == [r EXCEPT !.connectOp = "none"]
           d == [w EXCEPT !.raw[1].connectOp = "none"]
<1>1. /\ w \in WorldType /\ s \in SocketType /\ r \in RawType /\ t \in Seq(Events)
      /\ h \in HistoryType /\ ~w.crashed /\ h.cut \in BOOLEAN
      /\ Fits(s, r, t, h) /\ Order(s, r, h.accepted, h.cut) /\ Queued(s, r)
      /\ Delayed(r, b)
  BY WholeParts
<1>2. /\ q \in RawType /\ q.connectOp = "none"
      /\ q.open = r.open /\ q.connected = r.connected
      /\ q.peer = r.peer /\ q.fin = r.fin
      /\ q.m_pending_writes = r.m_pending_writes
      /\ q.m_write_shutdown_pending = r.m_write_shutdown_pending
      /\ q.m_close_pending = r.m_close_pending
      /\ q.writeOp = r.writeOp /\ q.writing = r.writing
      /\ q.readOp = r.readOp
      /\ q.reading = r.reading /\ q.readCb = r.readCb
      /\ q.shutdownCb = r.shutdownCb /\ q.sent = r.sent
  BY <1>1, TakenFields
<1>3. r = Raw!NoSocket => q = r
  BY <1>1, NewSocketFields DEF RawType
<1>4. d = [w EXCEPT !.raw[1] = q]
  OBVIOUS
<1> HIDE DEF q, d
<1>5. d = Put(w, s, q, t)
  BY <1>1, <1>4, PutsOne
<1>6. Life(s, q) /\ Joining(s, q) /\ OneWrite(q) /\ Shut(s, q) /\ LastRead(s, q)
  <2>1. Life(s, q)
    BY <1>1, <1>2, <1>3 DEF Fits, Sound, Life
  <2>2. Joining(s, q)
    BY <1>1, <1>2 DEF Fits, Sound, Joining
  <2>3. OneWrite(q)
    BY <1>1, <1>2 DEF Fits, Sound, OneWrite
  <2>4. Shut(s, q) /\ LastRead(s, q)
    BY <1>1, <1>2 DEF Fits, Sound, Shut, LastRead
  <2>5. QED
    BY <2>1, <2>2, <2>3, <2>4
<1>7. Uncut(s, q, h.cut)
  BY <1>1, <1>2 DEF Fits, Uncut
<1>8. Fits(s, q, t, h)
  BY <1>1, <1>6, <1>7 DEF Fits, Sound
<1>9. Given(q) = Given(r)
  BY <1>2, GivenSame
<1>10. Order(s, q, h.accepted, h.cut)
  BY <1>1, <1>9 DEF Order
<1>11. Queued(s, q) /\ Delayed(q, b)
  BY <1>1, <1>2 DEF Queued, Delayed
<1>12. Whole(d, h, b)
  BY <1>1, <1>2, <1>5, <1>8, <1>10, <1>11, PutWhole
<1>13. d \in WorldType /\ d.s = s /\ d.raw[1] = q /\ d.ticks = t
  BY <1>1, <1>2, <1>5, PutParts
<1>14. QED
  BY <1>2, <1>5, <1>12, <1>13 DEF d, q

(* A socket that takes a result has been made.                               *)
LEMMA HasHandle ==
    ASSUME OneConnection, IInv, raw[1] # Raw!NoSocket
    PROVE  hist.connects = 1 /\ (~sock.destroyed => sock._handle = 1)
<1>1. hist.connects = 1
  BY HasConnected
<1>2. sock._handle \in {0, 1}
  BY HandleIs
<1>3. sock._handle = 0 => sock.destroyed
  BY InvParts DEF Life
<1>4. QED
  BY <1>1, <1>2, <1>3

(* HandleConnect and connect_callback.                                       *)
LEMMA ConnectDoneStep ==
    ASSUME OneConnection, IInv, ConnectDone(1)
    PROVE  IInv'
<1> DEFINE w == [World EXCEPT !.raw[1].connectOp = "none"]
           p == [sock EXCEPT !._connecting = FALSE, !.readable = TRUE]
           q == [raw[1] EXCEPT !.connectOp = "none"]
           u == [w EXCEPT !.s._connecting = FALSE, !.s.readable = TRUE]
           d == drainConnectQueue(u)
           e == DoDestroy(w, TRUE)
<1>1. frame = Idle /\ raw[1].connectOp \in {"ok", "error"}
  BY DEF ConnectDone, LoopActs
<1>2. raw[1] # Raw!NoSocket
  BY <1>1, NewSocketFields
<1>3. hist.connects = 1 /\ (~sock.destroyed => sock._handle = 1)
  BY <1>2, HasHandle
<1>4. Whole(World, hist, FALSE) /\ Draining = FALSE
  BY <1>1, LoopParts DEF Idle
<1>5. \/ sock.destroyed /\ Apply(w) /\ frame' = frame /\ hist' = hist
      \/ /\ ~sock.destroyed /\ raw[1].connectOp = "ok"
         /\ Apply(d) /\ Listens("connect", 1) /\ Emitted
      \/ /\ ~sock.destroyed /\ Apply(e)
         /\ hist' = [hist EXCEPT !.cut = TRUE] /\ frame' = frame
  BY <1>3 DEF ConnectDone
<1>6. /\ World \in WorldType /\ World.s = sock /\ World.raw[1] = raw[1]
      /\ World.ticks = ticks
  BY InvParts
<1> HIDE DEF w
<1>7. /\ Whole(w, hist, FALSE) /\ w = Put(World, sock, q, ticks)
      /\ w \in WorldType /\ w.s = sock /\ w.raw[1] = q /\ w.ticks = ticks
      /\ q \in RawType
  BY <1>4, <1>6, ConnectTakenKeeps DEF w
<1>8. CASE sock.destroyed /\ Apply(w) /\ frame' = frame /\ hist' = hist
  BY <1>1, <1>3, <1>7, <1>8, HandlerStep
<1>9. CASE /\ ~sock.destroyed /\ raw[1].connectOp = "ok"
           /\ Apply(d) /\ Listens("connect", 1) /\ Emitted
  <2>1. u = [w EXCEPT !.s = p]
    BY <1>7
  <2> HIDE DEF u, p, q
  <2>2. [w EXCEPT !.s = p] = Put(w, p, w.raw[1], w.ticks)
    BY <1>7, PutsOne
  <2>3. u = Put(w, p, q, ticks)
    BY <1>7, <2>1, <2>2
  <2>4. u = Put(World, p, q, ticks)
    BY <1>7, <2>3, PutTwice
  <2>5. Whole(d, hist, FALSE) /\ ~d.s._connecting
    BY <1>3, <1>4, <1>6, <1>9, <2>4, ConnectedKeeps DEF p, q
  <2> HIDE DEF d
  <2>6. Whole(d, hist, "connect" = "drain")
    BY <2>5
  <2>7. QED
    BY <1>3, <1>9, <2>5, <2>6, ListenersCalled
<1>10. CASE /\ ~sock.destroyed /\ Apply(e)
            /\ hist' = [hist EXCEPT !.cut = TRUE] /\ frame' = frame
  <2>1. /\ hist' \in HistoryType /\ hist'.accepted = hist.accepted
        /\ hist'.closes = hist.closes /\ hist'.cut = TRUE
        /\ hist'.connects = hist.connects /\ hist'.lateEvent = hist.lateEvent
    BY <1>10, CutHistory
  <2>2. Whole(w, hist', FALSE)
    BY <1>7, <2>1, HistoryKeeps
  <2>3. Whole(e, hist', FALSE)
    BY <2>1, <2>2, CutDestroyKeeps
  <2> HIDE DEF e
  <2>4. QED
    BY <1>1, <1>3, <1>10, <2>1, <2>3, HandlerStep
<1>11. QED
  BY <1>5, <1>8, <1>9, <1>10

(* connect_callback goes on after a listener threw.                          *)
LEMMA ConnectThrowsStep ==
    ASSUME OneConnection, IInv, ConnectThrows
    PROVE  IInv'
<1> DEFINE e == DoDestroy(World, TRUE)
<1>1. /\ frame.handler = "connect" /\ frame' = Idle /\ Apply(e)
      /\ hist' = [hist EXCEPT !.cut = TRUE]
  BY DEF ConnectThrows
<1>2. frame # Idle /\ frame # [handler |-> "drain", handle |-> 1]
  BY <1>1 DEF Idle
<1>3. hist.connects = 1 /\ Whole(World, hist, FALSE)
  BY <1>2, HasConnected, LoopParts
<1>4. /\ hist'.cut = TRUE /\ hist'.connects = hist.connects
      /\ hist'.lateEvent = hist.lateEvent /\ Whole(World, hist', FALSE)
  BY <1>1, <1>3, CutHistory
<1>5. Whole(e, hist', FALSE)
  BY <1>4, CutDestroyKeeps
<1> HIDE DEF e
<1>6. QED
  BY <1>1, <1>3, <1>4, <1>5, HandlerStep

(* The finish that was made while connecting takes place.                    *)
Unqueued(s) ==
    [s EXCEPT !._flags = @ \ {"SHUTDOWN_QUEUED"}, !.writable = TRUE]

(* It is what connect_callback makes of the socket before it calls finish.   *)
LEMMA UnqueuedPut ==
    ASSUME NEW w \in WorldType
    PROVE  LET p == Unqueued(w.s)
               d == [w EXCEPT !.s._flags = @ \ {"SHUTDOWN_QUEUED"},
                              !.s.writable = TRUE]
           IN /\ d = Put(w, p, w.raw[1], w.ticks) /\ p \in SocketType
              /\ p.writable /\ p._flags = w.s._flags \ {"SHUTDOWN_QUEUED"}
              /\ p.destroyed = w.s.destroyed /\ p._handle = w.s._handle
              /\ p._connecting = w.s._connecting /\ p.lookup = w.s.lookup
              /\ p.readable = w.s.readable
              /\ p._connectQueue = w.s._connectQueue
              /\ p._writeQueue = w.s._writeQueue
              /\ p._pendingWriteReqs = w.s._pendingWriteReqs
<1> DEFINE s == w.s
           p == Unqueued(s)
           f == s._flags \ {"SHUTDOWN_QUEUED"}
           d == [w EXCEPT !.s._flags = @ \ {"SHUTDOWN_QUEUED"},
                          !.s.writable = TRUE]
<1>1. s \in SocketType
  BY PutsOne
<1>2. f \in SUBSET FlagNames
  BY <1>1 DEF SocketType
<1>3. p = [s EXCEPT !._flags = f, !.writable = TRUE]
  BY DEF Unqueued
<1> DEFINE a == [s EXCEPT !._flags = f]
           v == [w EXCEPT !.s._flags = @ \ {"SHUTDOWN_QUEUED"}]
<1>4. a \in SocketType /\ p = [a EXCEPT !.writable = TRUE]
  BY <1>1, <1>2, <1>3 DEF SocketType
<1>5. v = [w EXCEPT !.s = a]
  OBVIOUS
<1>6. d = [v EXCEPT !.s = [v.s EXCEPT !.writable = TRUE]]
  OBVIOUS
<1> HIDE DEF f
<1>7. /\ p \in SocketType
      /\ p.writable /\ p._flags = f
      /\ p.destroyed = s.destroyed /\ p._handle = s._handle
      /\ p._connecting = s._connecting /\ p.lookup = s.lookup
      /\ p.readable = s.readable
      /\ p._connectQueue = s._connectQueue
      /\ p._writeQueue = s._writeQueue
      /\ p._pendingWriteReqs = s._pendingWriteReqs
  BY <1>1, <1>2, <1>3 DEF SocketType
<1> HIDE DEF a, v, d, p
<1>8. v = Put(w, a, w.raw[1], w.ticks) /\ w.raw[1] \in RawType /\ w.ticks \in Seq(Events)
  BY <1>5, PutsOne
<1>9. v \in WorldType /\ v.s = a /\ v.raw[1] = w.raw[1] /\ v.ticks = w.ticks
  BY <1>4, <1>8, PutParts
<1>10. d = [v EXCEPT !.s = p]
  BY <1>4, <1>6, <1>9
<1>11. [v EXCEPT !.s = p] = Put(v, p, v.raw[1], v.ticks)
  BY <1>9, PutsOne
<1>12. d = Put(w, p, w.raw[1], w.ticks)
  BY <1>8, <1>9, <1>10, <1>11, PutTwice
<1>13. QED
  BY <1>7, <1>12 DEF d, f, p

(* connect_callback after the listeners of "connect".                        *)
LEMMA ConnectListenedStep ==
    ASSUME OneConnection, IInv, ConnectListened
    PROVE  IInv'
<1> DEFINE p == Unqueued(sock)
           q == Ended(p)
           r == raw[1]
           u == [World EXCEPT !.s._flags = @ \ {"SHUTDOWN_QUEUED"},
                              !.s.writable = TRUE]
           d == DoFinish(u)
           e == DoResume(World)
<1>1. /\ frame.handler = "connect" /\ frame' = Idle /\ hist' = hist
  BY DEF ConnectListened
<1>2. frame # Idle /\ frame # [handler |-> "drain", handle |-> 1]
  BY <1>1 DEF Idle
<1>3. /\ hist.connects = 1 /\ Whole(World, hist, FALSE) /\ ~sock._connecting
  BY <1>2, HasConnected, LoopParts, InvParts DEF FrameInv
<1>4. \/ "SHUTDOWN_QUEUED" \in sock._flags /\ Apply(d)
      \/ Apply(e) \/ Apply(World)
  BY DEF ConnectListened
<1>5. CASE "SHUTDOWN_QUEUED" \in sock._flags /\ Apply(d)
  <2>1. World \in WorldType /\ World.s = sock /\ World.raw[1] = r /\ World.ticks = ticks
    BY InvParts
  <2>2. /\ sock \in SocketType /\ r \in RawType /\ ticks \in Seq(Events)
        /\ hist \in HistoryType /\ World.crashed = FALSE
        /\ Fits(sock, r, ticks, hist)
        /\ Order(sock, r, hist.accepted, hist.cut) /\ Queued(sock, r)
        /\ Delayed(r, FALSE)
    BY <1>3, <2>1, WholeParts
  <2>3. /\ u = Put(World, p, r, ticks) /\ p \in SocketType
        /\ p.writable /\ p._flags = sock._flags \ {"SHUTDOWN_QUEUED"}
        /\ p.destroyed = sock.destroyed /\ p._handle = sock._handle
        /\ p._connecting = sock._connecting /\ p.lookup = sock.lookup
        /\ p.readable = sock.readable
        /\ p._connectQueue = sock._connectQueue
        /\ p._writeQueue = sock._writeQueue
        /\ p._pendingWriteReqs = sock._pendingWriteReqs
    BY <2>1, UnqueuedPut, Zenon
  <2> HIDE DEF u, p
  <2>4. u \in WorldType /\ u.s = p /\ u.raw[1] = r /\ u.ticks = ticks
    BY <2>1, <2>2, <2>3, PutParts
  <2>5. /\ q \in SocketType
        /\ ~q.writable /\ q._flags = p._flags
        /\ q.destroyed = p.destroyed /\ q._handle = p._handle
        /\ q._connecting = p._connecting /\ q.lookup = p.lookup
        /\ q.readable = p.readable
        /\ q._connectQueue = p._connectQueue
        /\ q._writeQueue = p._writeQueue
        /\ q._pendingWriteReqs = p._pendingWriteReqs
    BY <2>3, EndedFields
  <2> HIDE DEF q
  <2>6. /\ q._flags = sock._flags \ {"SHUTDOWN_QUEUED"} /\ ~q.writable
        /\ q.destroyed = sock.destroyed /\ q._handle = sock._handle
        /\ q._connecting = sock._connecting /\ q.lookup = sock.lookup
        /\ q.readable = sock.readable
        /\ q._connectQueue = sock._connectQueue
        /\ q._writeQueue = sock._writeQueue
        /\ q._pendingWriteReqs = sock._pendingWriteReqs
    BY <2>3, <2>5
  <2>7. Life(q, r)
    BY <2>2, <2>6 DEF Fits, Sound, Life
  <2>8. Joining(q, r)
    BY <2>2, <2>6 DEF Fits, Sound, Joining
  <2>9. Shut(q, r) /\ LastRead(q, r)
    BY <2>2, <2>6 DEF Fits, Sound, Shut, LastRead
  <2>10. Uncut(q, r, hist.cut)
    BY <2>2, <2>6 DEF Fits, Uncut
  <2>11. CloseOnce(q, ticks, hist.closes)
    BY <2>2, <2>6 DEF Fits, CloseOnce
  <2>12. Fits(q, r, ticks, hist)
    BY <2>2, <2>7, <2>8, <2>9, <2>10, <2>11 DEF Fits, Sound
  <2>13. Order(q, r, hist.accepted, hist.cut) /\ Queued(q, r)
    BY <2>2, <2>6 DEF Order, Queued
  <2>14. Whole(Put(World, q, r, ticks), hist, FALSE)
    BY <2>1, <2>2, <2>5, <2>12, <2>13, PutWhole
  <2>15. Put(u, q, r, ticks) = Put(World, q, r, ticks)
    BY <2>3, PutTwice
  <2>16. Whole(Put(u, Ended(u.s), u.raw[1], u.ticks), hist, FALSE)
    BY <2>4, <2>14, <2>15 DEF q
  <2>17. ~u.s._connecting /\ "SHUTDOWN_QUEUED" \notin u.s._flags
    BY <1>3, <2>3, <2>4
  <2>18. Whole(FinishConnected(u), hist, FALSE)
    BY <2>4, <2>16, <2>17, FinishConnectedKeeps
  <2>19. d = FinishConnected(u)
    BY <2>17 DEF DoFinish
  <2>20. QED
    BY <1>1, <1>3, <1>5, <2>18, <2>19, HandlerStep
<1>6. CASE Apply(e)
  <2>1. Whole(e, hist, FALSE)
    BY <1>3, ResumeKeeps
  <2> HIDE DEF e
  <2>2. QED
    BY <1>1, <1>3, <1>6, <2>1, HandlerStep
<1>7. CASE Apply(World)
  BY <1>1, <1>3, <1>7, HandlerStep
<1>8. QED
  BY <1>4, <1>5, <1>6, <1>7

(* What is left of a read that was answered.                                 *)
ReadTaken(r, x) == [r EXCEPT !.readOp = "none", !.reading = x]

(* Its place in the world.                                                   *)
LEMMA ReadTakenPut ==
    ASSUME NEW w \in WorldType
    PROVE  LET v == [w EXCEPT !.raw[1].readOp = "none"]
               r == w.raw[1]
           IN /\ v = Put(w, w.s, ReadTaken(r, r.reading), w.ticks)
              /\ [v EXCEPT !.raw[1].reading = FALSE]
                    = Put(w, w.s, ReadTaken(r, FALSE), w.ticks)
<1> DEFINE r == w.raw[1]
           a == [r EXCEPT !.readOp = "none"]
           c == [a EXCEPT !.reading = FALSE]
           v == [w EXCEPT !.raw[1].readOp = "none"]
           d == [v EXCEPT !.raw[1].reading = FALSE]
<1>1. w.s \in SocketType /\ r \in RawType /\ w.ticks \in Seq(Events)
  BY PutsOne
<1>2. a \in RawType /\ a = ReadTaken(r, r.reading) /\ c = ReadTaken(r, FALSE)
  BY <1>1 DEF RawType, ReadTaken
<1>3. v = [w EXCEPT !.raw[1] = a]
  OBVIOUS
<1>4. d = [v EXCEPT !.raw[1] = [v.raw[1] EXCEPT !.reading = FALSE]]
  OBVIOUS
<1> HIDE DEF a, v, d
<1>5. v = Put(w, w.s, a, w.ticks)
  BY <1>3, PutsOne
<1>6. v \in WorldType /\ v.s = w.s /\ v.raw[1] = a /\ v.ticks = w.ticks
  BY <1>1, <1>2, <1>5, PutParts
<1>7. d = [v EXCEPT !.raw[1] = c]
  BY <1>4, <1>6
<1> HIDE DEF c
<1>8. [v EXCEPT !.raw[1] = c] = Put(v, v.s, c, v.ticks)
  BY <1>6, PutsOne
<1>9. d = Put(w, w.s, c, w.ticks)
  BY <1>5, <1>6, <1>7, <1>8, PutTwice
<1>10. QED
  BY <1>2, <1>5, <1>9 DEF v, d

(* HandleReadSome takes the answer of a read.                                *)
LEMMA ReadTakenKeeps ==
    ASSUME OneConnection, NEW w, NEW h, NEW b \in BOOLEAN, Whole(w, h, b),
           w.raw[1].readOp # "none", NEW x \in BOOLEAN
    PROVE  LET q == ReadTaken(w.raw[1], x)
           IN /\ Whole(Put(w, w.s, q, w.ticks), h, b)
              /\ q \in RawType /\ q.readOp = "none" /\ q.reading = x
              /\ Given(q) = Given(w.raw[1])
<1> DEFINE s == w.s
           r == w.raw[1]
           t == w.ticks
           q == ReadTaken(r, x)
<1>1. /\ w \in WorldType /\ s \in SocketType /\ r \in RawType /\ t \in Seq(Events)
      /\ h \in HistoryType /\ ~w.crashed /\ h.cut \in BOOLEAN
      /\ Fits(s, r, t, h) /\ Order(s, r, h.accepted, h.cut) /\ Queued(s, r)
      /\ Delayed(r, b)
  BY WholeParts
<1>2. /\ q \in RawType /\ q.readOp = "none" /\ q.reading = x
      /\ q.open = r.open /\ q.connected = r.connected
      /\ q.peer = r.peer /\ q.fin = r.fin
      /\ q.m_pending_writes = r.m_pending_writes
      /\ q.m_write_shutdown_pending = r.m_write_shutdown_pending
      /\ q.m_close_pending = r.m_close_pending
      /\ q.writeOp = r.writeOp /\ q.writing = r.writing
      /\ q.connectOp = r.connectOp /\ q.readCb = r.readCb
      /\ q.shutdownCb = r.shutdownCb /\ q.sent = r.sent
  BY <1>1 DEF RawType, ReadTaken
<1>3. r # Raw!NoSocket
  BY NewSocketFields
<1> HIDE DEF q
<1>4. Life(s, q)
  BY <1>1, <1>2, <1>3 DEF Fits, Sound, Life
<1>5. Joining(s, q)
  BY <1>1, <1>2 DEF Fits, Sound, Joining
<1>6. OneWrite(q)
  BY <1>1, <1>2 DEF Fits, Sound, OneWrite
<1>7. Shut(s, q)
  BY <1>1, <1>2 DEF Fits, Sound, Shut
<1>8. LastRead(s, q)
  BY <1>1, <1>2 DEF Fits, Sound, LastRead
<1>9. Uncut(s, q, h.cut)
  BY <1>1, <1>2 DEF Fits, Uncut
<1>10. Fits(s, q, t, h)
  BY <1>1, <1>4, <1>5, <1>6, <1>7, <1>8, <1>9 DEF Fits, Sound
<1>11. Given(q) = Given(r)
  BY <1>2, GivenSame
<1>12. Order(s, q, h.accepted, h.cut)
  BY <1>1, <1>11 DEF Order
<1>13. Queued(s, q) /\ Delayed(q, b)
  BY <1>1, <1>2 DEF Queued, Delayed
<1>14. Whole(Put(w, s, q, t), h, b)
  BY <1>1, <1>2, <1>10, <1>12, <1>13, PutWhole
<1>15. QED
  BY <1>2, <1>11, <1>14 DEF q

(* A socket whose read was answered, and that listens to it.                 *)
LEMMA ReadAnswered ==
    ASSUME OneConnection, IInv, frame = Idle, raw[1].readOp # "none"
    PROVE  /\ hist.connects = 1 /\ Whole(World, hist, FALSE)
           /\ raw[1].readCb => /\ sock._handle = 1 /\ ~sock.destroyed
                               /\ ~sock._connecting
<1>1. raw[1] # Raw!NoSocket
  BY NewSocketFields
<1>2. hist.connects = 1 /\ Whole(World, hist, FALSE)
  BY <1>1, HasHandle, LoopParts DEF Idle
<1>3. raw[1].readCb => sock._handle = 1 /\ ~sock.destroyed
  BY <1>1, HandleIs, InvParts DEF Life
<1>4. ~sock._connecting
  BY InvParts DEF Joining
<1>5. QED
  BY <1>2, <1>3, <1>4

(* HandleReadSome and onread, with data.                                     *)
LEMMA ReadDataStep ==
    ASSUME OneConnection, IInv, ReadData(1)
    PROVE  IInv'
<1> DEFINE r == raw[1]
           w == [World EXCEPT !.raw[1].readOp = "none"]
           d == [w EXCEPT !.raw[1].reading = FALSE]
<1>1. /\ frame = Idle /\ r.readOp = "ok"
      /\ \/ Apply(w) /\ frame' = frame /\ hist' = hist
         \/ r.readCb /\ Apply(d) /\ Listens("data", 1) /\ Emitted
  BY DEF ReadData, LoopActs
<1>2. /\ hist.connects = 1 /\ Whole(World, hist, FALSE)
      /\ r.readCb => sock._handle = 1 /\ ~sock.destroyed /\ ~sock._connecting
  BY <1>1, ReadAnswered
<1>3. /\ World \in WorldType /\ World.s = sock /\ World.raw[1] = r
      /\ World.ticks = ticks /\ r \in RawType /\ r.reading \in BOOLEAN
  BY InvParts DEF RawType
<1>4. /\ w = Put(World, sock, ReadTaken(r, r.reading), ticks)
      /\ d = Put(World, sock, ReadTaken(r, FALSE), ticks)
  BY <1>3, ReadTakenPut
<1> HIDE DEF w, d
<1>5. Whole(w, hist, FALSE) /\ Whole(d, hist, FALSE)
  BY <1>1, <1>2, <1>3, <1>4, ReadTakenKeeps
<1>6. CASE Apply(w) /\ frame' = frame /\ hist' = hist
  BY <1>1, <1>2, <1>5, <1>6, HandlerStep
<1>7. CASE r.readCb /\ Apply(d) /\ Listens("data", 1) /\ Emitted
  <2>1. d.s = sock
    BY <1>4 DEF Put
  <2>2. Whole(d, hist, "data" = "drain")
    BY <1>5
  <2>3. QED
    BY <1>2, <1>7, <2>1, <2>2, ListenersCalled
<1>8. QED
  BY <1>1, <1>6, <1>7

(* onread after the listeners of "data".                                     *)
LEMMA DataListenedStep ==
    ASSUME OneConnection, IInv, DataListened
    PROVE  IInv'
<1> DEFINE d == StartRead(World)
<1>1. /\ frame.handler = "data" /\ frame' = Idle /\ hist' = hist
      /\ (sock.readable /\ Apply(d)) \/ Apply(World)
  BY DEF DataListened
<1>2. frame # Idle /\ frame # [handler |-> "drain", handle |-> 1]
  BY <1>1 DEF Idle
<1>3. hist.connects = 1 /\ Whole(World, hist, FALSE)
  BY <1>2, HasConnected, LoopParts
<1>4. sock.readable => sock._handle = 1 /\ ~sock._connecting
  BY InvParts DEF Life
<1>5. sock.readable => Whole(d, hist, FALSE)
  BY <1>3, <1>4, InvParts, StartReadKeeps
<1> HIDE DEF d
<1>6. QED
  BY <1>1, <1>3, <1>5, HandlerStep

(* A listener of "data" throws.                                              *)
LEMMA DataThrowsStep ==
    ASSUME OneConnection, IInv, DataThrows
    PROVE  IInv'
<1>1. /\ frame.handler = "data" /\ frame' = Idle /\ hist' = hist
      /\ UNCHANGED <<sock, raw, ticks, crashed>>
  BY DEF DataThrows
<1>2. frame # Idle /\ frame # [handler |-> "drain", handle |-> 1]
  BY <1>1 DEF Idle
<1>3. hist.connects = 1 /\ Whole(World, hist, FALSE)
  BY <1>2, HasConnected, LoopParts
<1>4. Apply(World)
  BY <1>1 DEF Apply, World
<1>5. QED
  BY <1>1, <1>3, <1>4, HandlerStep

(* The end of the stream has been seen.                                      *)
AtEof(s) == [s EXCEPT !.readable = FALSE, !._flags = @ \cup {"GOT_EOF"}]

(* What it is, and its place in the world.                                   *)
LEMMA AtEofPut ==
    ASSUME NEW w \in WorldType
    PROVE  LET p == AtEof(w.s)
               d == [w EXCEPT !.s.readable = FALSE,
                              !.s._flags = @ \cup {"GOT_EOF"}]
           IN /\ d = Put(w, p, w.raw[1], w.ticks) /\ p \in SocketType
              /\ ~p.readable /\ p._flags = w.s._flags \cup {"GOT_EOF"}
              /\ p.destroyed = w.s.destroyed /\ p._handle = w.s._handle
              /\ p._connecting = w.s._connecting /\ p.lookup = w.s.lookup
              /\ p.writable = w.s.writable
              /\ p._connectQueue = w.s._connectQueue
              /\ p._writeQueue = w.s._writeQueue
              /\ p._pendingWriteReqs = w.s._pendingWriteReqs
<1> DEFINE s == w.s
           p == AtEof(s)
           f == s._flags \cup {"GOT_EOF"}
           a == [s EXCEPT !.readable = FALSE]
           v == [w EXCEPT !.s.readable = FALSE]
           d == [w EXCEPT !.s.readable = FALSE, !.s._flags = @ \cup {"GOT_EOF"}]
<1>1. s \in SocketType
  BY PutsOne
<1>2. f \in SUBSET FlagNames
  BY <1>1 DEF SocketType, FlagNames
<1>3. p = [s EXCEPT !.readable = FALSE, !._flags = f]
  BY DEF AtEof
<1>4. a \in SocketType /\ p = [a EXCEPT !._flags = f] /\ a._flags = s._flags
  BY <1>1, <1>2, <1>3 DEF SocketType
<1>5. v = [w EXCEPT !.s = a]
  OBVIOUS
<1>6. d = [v EXCEPT !.s = [v.s EXCEPT !._flags = v.s._flags \cup {"GOT_EOF"}]]
  OBVIOUS
<1> HIDE DEF a, v, d
<1>7. v = Put(w, a, w.raw[1], w.ticks) /\ w.raw[1] \in RawType /\ w.ticks \in Seq(Events)
  BY <1>5, PutsOne
<1>8. v \in WorldType /\ v.s = a /\ v.raw[1] = w.raw[1] /\ v.ticks = w.ticks
  BY <1>4, <1>7, PutParts
<1>9. d = [v EXCEPT !.s = [a EXCEPT !._flags = a._flags \cup {"GOT_EOF"}]]
  BY <1>6, <1>8
<1>10. d = [v EXCEPT !.s = [a EXCEPT !._flags = f]]
  BY <1>4, <1>9
<1> HIDE DEF f
<1>11. /\ p \in SocketType
       /\ ~p.readable /\ p._flags = f
       /\ p.destroyed = s.destroyed /\ p._handle = s._handle
       /\ p._connecting = s._connecting /\ p.lookup = s.lookup
       /\ p.writable = s.writable
       /\ p._connectQueue = s._connectQueue
       /\ p._writeQueue = s._writeQueue
       /\ p._pendingWriteReqs = s._pendingWriteReqs
  BY <1>1, <1>2, <1>3 DEF SocketType
<1> HIDE DEF p
<1>12. d = [v EXCEPT !.s = p]
  BY <1>4, <1>10
<1>13. [v EXCEPT !.s = p] = Put(v, p, v.raw[1], v.ticks)
  BY <1>8, PutsOne
<1>14. d = Put(w, p, w.raw[1], w.ticks)
  BY <1>7, <1>8, <1>12, <1>13, PutTwice
<1>15. QED
  BY <1>11, <1>14 DEF d, f, p

(* HandleReadSome and onread, at the end of the stream: our side goes on, or *)
(* everything that was written has been given to the kernel, or the          *)
(* connection is cut short.                                                  *)
LEMMA ReadEndStep ==
    ASSUME OneConnection, IInv, ReadEnd(1)
    PROVE  IInv'
<1> DEFINE r == raw[1]
           q == ReadTaken(r, r.reading)
           p == AtEof(sock)
           w == [World EXCEPT !.raw[1].readOp = "none"]
           u == [w EXCEPT !.s.readable = FALSE, !.s._flags = @ \cup {"GOT_EOF"}]
           v == IF ~sock.writable THEN DoDestroy(u, FALSE) ELSE u
           d == IF ~sock.allowHalfOpen THEN DoFinish(v) ELSE v
           late == hist.lateEvent \/ hist.closes > 0
           cut == hist.cut \/ (~sock.writable /\ sock._writeQueue # <<>>)
           g == [hist EXCEPT !.lateEvent = late, !.cut = cut]
<1>1. /\ frame = Idle /\ frame' = frame /\ r.readOp \in {"eof", "error"}
      /\ ~r.readCb => Apply(w) /\ hist' = hist
      /\ r.readCb /\ sock._handle = 1 /\ "GOT_EOF" \notin sock._flags =>
            Apply(d) /\ hist' = g
      /\ r.readCb /\ (sock._handle # 1 \/ "GOT_EOF" \in sock._flags) =>
            Apply(Crash(w))
  BY DEF ReadEnd, LoopActs
<1>2. /\ hist.connects = 1 /\ Whole(World, hist, FALSE)
      /\ r.readCb => sock._handle = 1 /\ ~sock.destroyed /\ ~sock._connecting
  BY <1>1, ReadAnswered
<1>3. /\ World \in WorldType /\ World.s = sock /\ World.raw[1] = r
      /\ World.ticks = ticks /\ World.crashed = FALSE
      /\ sock \in SocketType /\ r \in RawType /\ ticks \in Seq(Events)
      /\ hist \in HistoryType /\ hist.cut \in BOOLEAN
      /\ r.reading \in BOOLEAN /\ r.readCb \in BOOLEAN
  BY InvParts DEF RawType
<1>4. w = Put(World, sock, q, ticks)
  BY <1>3, ReadTakenPut
<1> HIDE DEF w, d
<1>5. /\ Whole(Put(World, sock, q, ticks), hist, FALSE)
      /\ q \in RawType /\ q.readOp = "none" /\ q.reading = r.reading
      /\ Given(q) = Given(r)
  <2>1. Whole(World, hist, FALSE) /\ World.raw[1].readOp # "none"
    BY <1>1, <1>2, <1>3
  <2>2. LET y == ReadTaken(World.raw[1], r.reading)
        IN /\ Whole(Put(World, World.s, y, World.ticks), hist, FALSE)
           /\ y \in RawType /\ y.readOp = "none" /\ y.reading = r.reading
           /\ Given(y) = Given(World.raw[1])
    BY <1>3, <2>1, ReadTakenKeeps
  <2>3. QED
    BY <1>3, <2>2
<1> HIDE DEF q
<1>6. Whole(w, hist, FALSE)
  BY <1>4, <1>5
<1>7. CASE ~r.readCb
  BY <1>1, <1>2, <1>6, <1>7, HandlerStep
<1>8. CASE r.readCb
  <2>1. "GOT_EOF" \notin sock._flags /\ r.reading
    BY <1>1, <1>2, <1>8, InvParts DEF LastRead
  <2>2. Apply(d) /\ hist' = g
    BY <1>1, <1>2, <1>8, <2>1
  <2>3. w \in WorldType /\ w.s = sock /\ w.raw[1] = q /\ w.ticks = ticks
    BY <1>3, <1>4, <1>5, PutParts
  <2>4. /\ u = Put(w, p, q, ticks) /\ p \in SocketType
        /\ ~p.readable /\ p._flags = sock._flags \cup {"GOT_EOF"}
        /\ p.destroyed = sock.destroyed /\ p._handle = sock._handle
        /\ p._connecting = sock._connecting /\ p.lookup = sock.lookup
        /\ p.writable = sock.writable
        /\ p._connectQueue = sock._connectQueue
        /\ p._writeQueue = sock._writeQueue
        /\ p._pendingWriteReqs = sock._pendingWriteReqs
    BY <2>3, AtEofPut, Zenon
  <2> HIDE DEF u, p
  <2>5. u = Put(World, p, q, ticks)
    BY <1>4, <2>4, PutTwice
  <2>6. /\ Fits(sock, q, ticks, hist) /\ Order(sock, q, hist.accepted, hist.cut)
        /\ Queued(sock, q) /\ Delayed(q, FALSE)
    BY <1>6, <2>3, WholeParts
  <2>7. /\ g \in HistoryType /\ g.connects = hist.connects
        /\ g.lateEvent = hist.lateEvent /\ g.accepted = hist.accepted
        /\ g.closes = hist.closes /\ (hist.cut => g.cut) /\ g.cut \in BOOLEAN
        /\ ~g.cut /\ ~sock.writable => sock._writeQueue = <<>>
    <3>1. hist.closes = 0
      BY <1>2, <1>8, InvParts DEF CloseOnce
    <3>2. ~(hist.closes > 0) /\ ~hist.lateEvent
      <4>1. ~(hist.closes > 0)
        BY <3>1
      <4>2. ~hist.lateEvent
        BY InvParts
      <4>3. QED
        BY <4>1, <4>2
    <3>3. late = FALSE /\ hist.lateEvent = FALSE
      BY <1>3, <3>2 DEF HistoryType
    <3>4. cut \in BOOLEAN /\ sock.writable \in BOOLEAN
      BY <1>3 DEF SocketType
    <3>5. g = [hist EXCEPT !.lateEvent = FALSE, !.cut = cut]
      BY <3>3
    <3> HIDE DEF late, g
    <3>6. /\ g \in HistoryType /\ g.connects = hist.connects
          /\ g.lateEvent = FALSE /\ g.accepted = hist.accepted
          /\ g.closes = hist.closes /\ g.cut = cut
      <4> HIDE DEF cut
      <4>1. QED
        BY <1>3, <3>4, <3>5 DEF HistoryType
    <3>7. QED
      BY <3>3, <3>4, <3>6
  <2> HIDE DEF g
  <2>8. Life(p, q)
    BY <1>2, <1>8, <2>4, <2>6 DEF Fits, Sound, Life
  <2>9. Joining(p, q)
    BY <2>4, <2>6 DEF Fits, Sound, Joining
  <2>10. Shut(p, q)
    BY <2>4, <2>6 DEF Fits, Sound, Shut
  <2>11. LastRead(p, q)
    BY <1>2, <1>5, <1>8, <2>1, <2>4, <2>6 DEF Fits, Sound, LastRead
  <2>12. Uncut(p, q, hist.cut)
    BY <2>4, <2>6 DEF Fits, Uncut
  <2>13. CloseOnce(p, ticks, hist.closes)
    BY <2>4, <2>6 DEF Fits, CloseOnce
  <2>14. Fits(p, q, ticks, hist)
    BY <2>6, <2>8, <2>9, <2>10, <2>11, <2>12, <2>13 DEF Fits, Sound
  <2>15. /\ Order(p, q, hist.accepted, hist.cut)
         /\ sock.writable => Queued(p, q)
    <3>1. sock.writable => ~q.shutdownCb
      BY <2>6 DEF Fits, Sound, Shut
    <3>2. QED
      BY <2>4, <2>6, <3>1 DEF Order, Queued
  <2>16. Held(u, g) /\ u.s = p /\ u.raw[1] = q
    <3>1. Fits(p, q, ticks, g)
      BY <2>7, <2>14 DEF Fits, Uncut
    <3>2. QED
      BY <1>3, <1>5, <2>4, <2>5, <2>7, <3>1, PutHeld
  <2>17. Order(p, q, g.accepted, g.cut)
    BY <1>3, <2>7, <2>15 DEF Order
  <2>18. Whole(v, g, FALSE)
    <3>1. CASE ~sock.writable
      <4>1. Held(u, g) /\ u.raw[1] = q
        BY <2>16
      <4>2. IsPrefix(Given(u.raw[1]), g.accepted)
        BY <2>16, <2>17 DEF Order
      <4>3. g.cut \/ Given(u.raw[1]) = g.accepted
        <5> SUFFICES ASSUME ~g.cut PROVE Given(q) = g.accepted
          BY <2>7, <4>1
        <5>1. sock._writeQueue = <<>>
          BY <2>7, <3>1
        <5>2. sock._connectQueue = <<>>
          BY <1>2, <1>8, <2>6 DEF Queued
        <5>3. Given(q) = hist.accepted
          BY <1>2, <1>5, <1>8, <2>6, <5>1, <5>2, NothingWaits
        <5>4. QED
          BY <2>7, <5>3
      <4>4. LET e == DoDestroy(u, FALSE)
            IN /\ Good(e, g) /\ Queued(e.s, e.raw[1])
               /\ Delayed(q, FALSE) => Delayed(e.raw[1], FALSE)
        BY <4>1, <4>2, <4>3, DestroyKeeps
      <4>5. QED
        BY <2>6, <3>1, <4>4 DEF Whole
    <3>2. CASE sock.writable
      <4>1. Good(u, g) /\ Queued(u.s, u.raw[1]) /\ Delayed(u.raw[1], FALSE)
        BY <2>6, <2>15, <2>16, <2>17, <3>2 DEF Good
      <4>2. QED
        BY <3>2, <4>1 DEF Whole
    <3>3. QED
      BY <1>3, <3>1, <3>2 DEF SocketType
  <2> HIDE DEF v
  <2>19. Whole(d, g, FALSE)
    <3>1. Whole(DoFinish(v), g, FALSE)
      BY <2>18, FinishKeeps
    <3>2. QED
      BY <2>18, <3>1 DEF d
  <2>20. QED
    BY <1>1, <1>2, <2>2, <2>7, <2>19, HandlerStep
<1>9. QED
  BY <1>3, <1>7, <1>8

(* HandleWrite and afterWrite.                                               *)
LEMMA WriteDoneStep ==
    ASSUME OneConnection, IInv, WriteDone(1)
    PROVE  IInv'
<1> DEFINE r == raw[1]
           q == Raw!WriteHandled(r)
           w == [World EXCEPT !.raw[1] = Raw!WriteHandled(@)]
           next == [NextWrite(w) EXCEPT !.s._pendingWriteReqs = @ - 1]
           a == HandleWriteEnds(w, 1)
           e == DoDestroy(w, TRUE)
           c == HandleWriteEnds(e, 1)
           d == HandleWriteEnds(next, 1)
<1>1. /\ frame = Idle /\ r.writeOp \in {"ok", "error"}
      /\ \/ sock.destroyed /\ Apply(a) /\ frame' = frame /\ hist' = hist
         \/ /\ ~sock.destroyed /\ Apply(c)
            /\ hist' = [hist EXCEPT !.cut = TRUE] /\ frame' = frame
         \/ /\ ~sock.destroyed /\ r.writeOp = "ok"
            /\ \/ Apply(next) /\ Listens("drain", 1) /\ Emitted
               \/ Apply(d) /\ frame' = frame /\ hist' = hist
  BY DEF WriteDone, LoopActs
<1> HIDE DEF a, c, d
<1>2. r # Raw!NoSocket
  BY <1>1, NewSocketFields
<1>3. hist.connects = 1 /\ Whole(World, hist, FALSE)
  BY <1>1, <1>2, HasHandle, LoopParts DEF Idle
<1>4. /\ World \in WorldType /\ World.s = sock /\ World.raw[1] = r
      /\ World.ticks = ticks /\ sock.destroyed \in BOOLEAN
  BY InvParts DEF SocketType
<1>5. w = Put(World, sock, q, ticks)
  <2>1. w = [World EXCEPT !.raw[1] = q]
    BY <1>4
  <2> HIDE DEF w, q
  <2>2. [World EXCEPT !.raw[1] = q] = Put(World, World.s, q, World.ticks)
    BY <1>4, PutsOne
  <2>3. QED
    BY <1>4, <2>1, <2>2
<1> HIDE DEF w
<1>6. CASE sock.destroyed /\ Apply(a) /\ frame' = frame /\ hist' = hist
  <2>1. Good(w, hist) /\ w.s = sock
    BY <1>1, <1>3, <1>4, <1>5, <1>6, HandledKeeps
  <2>2. Queued(w.s, w.raw[1])
    BY <1>6, <2>1 DEF Queued
  <2>3. Whole(a, hist, FALSE)
    BY <2>1, <2>2, HandleWriteEndsKeeps DEF a
  <2>4. QED
    BY <1>1, <1>3, <1>6, <2>3, HandlerStep
<1>7. CASE /\ ~sock.destroyed /\ Apply(c)
           /\ hist' = [hist EXCEPT !.cut = TRUE] /\ frame' = frame
  <2>1. /\ hist'.cut = TRUE /\ hist'.connects = hist.connects
        /\ hist'.lateEvent = hist.lateEvent /\ Whole(World, hist', FALSE)
    BY <1>3, <1>7, CutHistory
  <2>2. Held(w, hist') /\ IsPrefix(Given(w.raw[1]), hist'.accepted)
    BY <1>1, <1>4, <1>5, <2>1, HandledKeeps
  <2>3. Good(e, hist') /\ Queued(e.s, e.raw[1])
    BY <2>1, <2>2, DestroyKeeps
  <2> HIDE DEF e
  <2>4. Whole(c, hist', FALSE)
    BY <2>3, HandleWriteEndsKeeps DEF c
  <2>5. QED
    BY <1>1, <1>3, <1>7, <2>1, <2>4, HandlerStep
<1>8. ASSUME ~sock.destroyed, r.writeOp = "ok"
      PROVE  /\ Good(next, hist) /\ Queued(next.s, next.raw[1])
             /\ ~next.s._connecting
  BY <1>3, <1>4, <1>5, <1>8, NextWriteKeeps
<1> HIDE DEF next
<1>9. CASE /\ ~sock.destroyed /\ r.writeOp = "ok"
           /\ Apply(next) /\ Listens("drain", 1) /\ Emitted
  <2>1. Good(next, hist) /\ Queued(next.s, next.raw[1]) /\ ~next.s._connecting
    BY <1>8, <1>9
  <2>2. Whole(next, hist, "drain" = "drain")
    BY <2>1 DEF Whole, Delayed
  <2>3. QED
    BY <1>3, <1>9, <2>1, <2>2, ListenersCalled
<1>10. CASE /\ ~sock.destroyed /\ r.writeOp = "ok"
            /\ Apply(d) /\ frame' = frame /\ hist' = hist
  <2>1. Good(next, hist) /\ Queued(next.s, next.raw[1])
    BY <1>8, <1>10
  <2>2. Whole(d, hist, FALSE)
    BY <2>1, HandleWriteEndsKeeps DEF d
  <2>3. QED
    BY <1>1, <1>3, <1>10, <2>2, HandlerStep
<1>11. QED
  BY <1>1, <1>6, <1>7, <1>9, <1>10

(* afterWrite after the listeners of "drain".                                *)
LEMMA DrainListenedStep ==
    ASSUME OneConnection, IInv, DrainListened
    PROVE  IInv'
<1> DEFINE soon == sock._pendingWriteReqs = 0 /\ "DESTROY_SOON" \in sock._flags
           e == DoDestroy(World, FALSE)
           w == IF soon THEN e ELSE World
           d == HandleWriteEnds(w, 1)
<1>1. /\ frame.handler = "drain" /\ frame' = Idle /\ hist' = hist
      /\ Apply(HandleWriteEnds(w, frame.handle))
  BY DEF DrainListened
<1>2. frame # Idle /\ frame.handle = 1
  BY <1>1, InvParts DEF Idle, FrameInv
<1>3. hist.connects = 1
  BY <1>2, HasConnected
<1>4. /\ Good(World, hist) /\ Held(World, hist) /\ World.raw[1] = raw[1]
      /\ World.s = sock /\ Queued(sock, raw[1])
      /\ Order(sock, raw[1], hist.accepted, hist.cut)
  BY InvParts, WholeParts DEF Whole
<1>5. CASE soon
  <2>1. hist.cut \/ Given(raw[1]) = hist.accepted
    <3>1. CASE sock.destroyed
      BY <1>4, <3>1 DEF Order
    <3>2. CASE ~sock.destroyed
      <4>1. ~sock._connecting
        BY <1>2, InvParts DEF FrameInv
      <4>2. sock._writeQueue = <<>> /\ sock._connectQueue = <<>>
        BY <1>4, <1>5, <3>2, <4>1 DEF Queued
      <4>3. QED
        BY <1>4, <3>2, <4>2, InvParts, NothingWaits
    <3>3. QED
      BY <3>1, <3>2, InvParts DEF SocketType
  <2>2. IsPrefix(Given(raw[1]), hist.accepted)
    BY <1>4 DEF Order
  <2>3. Good(e, hist) /\ Queued(e.s, e.raw[1])
    BY <1>4, <2>1, <2>2, DestroyKeeps
  <2> HIDE DEF e
  <2>4. Whole(HandleWriteEnds(e, 1), hist, FALSE)
    BY <2>3, HandleWriteEndsKeeps
  <2>5. Apply(HandleWriteEnds(e, 1))
    BY <1>1, <1>2, <1>5
  <2>6. QED
    BY <1>1, <1>3, <2>4, <2>5, HandlerStep
<1>6. CASE ~soon
  <2>1. Whole(HandleWriteEnds(World, 1), hist, FALSE)
    BY <1>4, HandleWriteEndsKeeps
  <2>2. Apply(HandleWriteEnds(World, 1))
    BY <1>1, <1>2, <1>6
  <2>3. QED
    BY <1>1, <1>3, <2>1, <2>2, HandlerStep
<1>7. QED
  BY <1>5, <1>6

(* A listener of "drain" throws: the shutdown that is due is carried out,    *)
(* its callback is not called.                                               *)
LEMMA DrainThrowsStep ==
    ASSUME OneConnection, IInv, DrainThrows
    PROVE  IInv'
<1> DEFINE r == raw[1]
           x == [World EXCEPT !.raw[1].fin = @ \/ Raw!ShutdownDue(r)]
           d == [x EXCEPT !.raw[1] = Raw!CallCloseCallback(@)]
<1>1. frame.handler = "drain" /\ frame' = Idle /\ hist' = hist
  BY DEF DrainThrows
<1>2. frame # Idle /\ frame.handle = 1
  BY <1>1, InvParts DEF Idle, FrameInv
<1>3. Apply(d)
  BY <1>2 DEF DrainThrows
<1>4. hist.connects = 1
  BY <1>2, HasConnected
<1>5. /\ World \in WorldType /\ World.s = sock /\ World.raw[1] = r
      /\ World.ticks = ticks /\ r \in RawType
      /\ Good(World, hist) /\ Queued(World.s, World.raw[1])
  BY InvParts DEF Whole
<1>6. /\ Good(x, hist) /\ Queued(x.s, x.raw[1])
      /\ x.raw[1].m_write_shutdown_pending /\ x.raw[1].m_pending_writes = 0
           => x.raw[1].fin
  <2>1. CASE Raw!ShutdownDue(r)
    <3>1. x = [World EXCEPT !.raw[1].fin = TRUE]
      BY <1>5, <2>1
    <3>2. QED
      BY <1>5, <2>1, <3>1, ShutdownDueKeeps
  <2>2. CASE ~Raw!ShutdownDue(r)
    <3> DEFINE c == [r EXCEPT !.fin = @ \/ Raw!ShutdownDue(r)]
    <3>1. c = r
      BY <1>5, <2>2 DEF RawType
    <3>2. x = [World EXCEPT !.raw[1] = c]
      BY <1>5
    <3> HIDE DEF c
    <3>3. x = World
      <4>1. [World EXCEPT !.raw[1] = c] = Put(World, World.s, c, World.ticks)
        BY <1>5, <3>1, PutsOne
      <4>2. World = Put(World, World.s, World.raw[1], World.ticks)
        BY <1>5, PutsOne
      <4>3. QED
        BY <1>5, <3>1, <3>2, <4>1, <4>2
    <3>4. QED
      BY <1>5, <2>2, <3>3 DEF Raw!ShutdownDue
  <2>3. QED
    BY <2>1, <2>2
<1> HIDE DEF x
<1>7. Whole(d, hist, FALSE)
  BY <1>6, CloseCallbackKeeps
<1> HIDE DEF d
<1>8. QED
  BY <1>1, <1>3, <1>4, <1>7, HandlerStep

(* HandleShutdownCallback.                                                   *)
LEMMA ShutdownPostedStep ==
    ASSUME OneConnection, IInv, ShutdownPosted(1)
    PROVE  IInv'
<1> DEFINE r == raw[1]
           n == r.posted - 1
           q == [r EXCEPT !.posted = n]
           w == [World EXCEPT !.raw[1].posted = @ - 1]
           d == ShutdownCallback(w, 1)
<1>1. frame = Idle /\ r.posted > 0 /\ Apply(d) /\ frame' = frame /\ hist' = hist
  BY DEF ShutdownPosted, LoopActs
<1>2. r # Raw!NoSocket
  <2>1. Raw!NoSocket.posted = 0
    BY DEF Raw!NoSocket, Raw!NewRawSocket
  <2>2. QED
    BY <1>1, <2>1
<1>3. hist.connects = 1 /\ Whole(World, hist, FALSE)
  BY <1>1, <1>2, HasHandle, LoopParts DEF Idle
<1>4. /\ World \in WorldType /\ World.s = sock /\ World.raw[1] = r
      /\ World.ticks = ticks
  BY InvParts
<1>5. /\ sock \in SocketType /\ r \in RawType /\ ticks \in Seq(Events)
      /\ hist \in HistoryType /\ ~World.crashed
      /\ Fits(sock, r, ticks, hist) /\ Order(sock, r, hist.accepted, hist.cut)
      /\ Queued(sock, r) /\ Delayed(r, FALSE)
  BY <1>3, <1>4, WholeParts
<1>6. w = [World EXCEPT !.raw[1] = q]
  BY <1>4
<1>7. n \in Int
  BY <1>5 DEF RawType
<1> HIDE DEF n, w
<1>8. /\ q \in RawType /\ q.open = r.open /\ q.connected = r.connected
      /\ q.peer = r.peer /\ q.fin = r.fin
      /\ q.m_pending_writes = r.m_pending_writes
      /\ q.m_write_shutdown_pending = r.m_write_shutdown_pending
      /\ q.m_close_pending = r.m_close_pending
      /\ q.writeOp = r.writeOp /\ q.writing = r.writing
      /\ q.readOp = r.readOp /\ q.connectOp = r.connectOp
      /\ q.reading = r.reading /\ q.readCb = r.readCb
      /\ q.shutdownCb = r.shutdownCb /\ q.sent = r.sent
  BY <1>5, <1>7 DEF RawType
<1> HIDE DEF q
<1>9. w = Put(World, sock, q, ticks)
  <2>1. [World EXCEPT !.raw[1] = q] = Put(World, World.s, q, World.ticks)
    BY <1>4, PutsOne
  <2>2. QED
    BY <1>4, <1>6, <2>1
<1>10. Life(sock, q) /\ Joining(sock, q) /\ OneWrite(q)
  <2>1. Life(sock, q)
    BY <1>2, <1>5, <1>8 DEF Fits, Sound, Life
  <2>2. Joining(sock, q) /\ OneWrite(q)
    BY <1>5, <1>8 DEF Fits, Sound, Joining, OneWrite
  <2>3. QED
    BY <2>1, <2>2
<1>11. Shut(sock, q) /\ LastRead(sock, q) /\ Uncut(sock, q, hist.cut)
  BY <1>5, <1>8 DEF Fits, Sound, Shut, LastRead, Uncut
<1>12. Fits(sock, q, ticks, hist)
  BY <1>5, <1>10, <1>11 DEF Fits, Sound
<1>13. Given(q) = Given(r)
  BY <1>8, GivenSame
<1>14. Order(sock, q, hist.accepted, hist.cut)
  BY <1>5, <1>13 DEF Order
<1>15. Queued(sock, q) /\ Delayed(q, FALSE)
  BY <1>5, <1>8 DEF Queued, Delayed
<1>16. Whole(Put(World, sock, q, ticks), hist, FALSE)
  BY <1>4, <1>5, <1>8, <1>12, <1>14, <1>15, PutWhole
<1>17. Good(w, hist) /\ Queued(w.s, w.raw[1]) /\ Delayed(w.raw[1], FALSE)
  BY <1>9, <1>16 DEF Whole
<1>18. d = w
  BY <1>17, ShutdownCallbackIdle
<1> HIDE DEF d
<1>19. Whole(d, hist, FALSE)
  BY <1>17, <1>18 DEF Whole
<1>20. QED
  BY <1>1, <1>3, <1>19, HandlerStep

(* A function handed to nextTick runs: a failed lookup destroys the socket,  *)
(* the others emit their event.                                              *)
LEMMA TickRunsStep ==
    ASSUME OneConnection, IInv, TickRuns
    PROVE  IInv'
<1> DEFINE w == [World EXCEPT !.ticks = Tail(@)]
           e == DoDestroy(w, FALSE)
           x == Head(ticks)
           t == Tail(ticks)
<1>1. /\ frame = Idle /\ frame' = frame /\ ticks # <<>>
      /\ x = "lookupError" => Apply(e)
      /\ x # "lookupError" => Apply(w)
      /\ x = "close" => hist' = [hist EXCEPT !.closes = @ + 1]
      /\ x # "close" => hist' = hist
  BY DEF TickRuns, LoopActs
<1>2. hist.connects = 1 /\ Whole(World, hist, FALSE)
  BY <1>1, HasConnected, LoopParts DEF Idle
<1>3. /\ World \in WorldType /\ World.s = sock /\ World.raw[1] = raw[1]
      /\ World.ticks = ticks
  BY InvParts
<1>4. /\ sock \in SocketType /\ raw[1] \in RawType /\ ticks \in Seq(Events)
      /\ hist \in HistoryType /\ ~World.crashed /\ hist.closes \in {0, 1}
      /\ Fits(sock, raw[1], ticks, hist)
      /\ Order(sock, raw[1], hist.accepted, hist.cut)
      /\ Queued(sock, raw[1]) /\ Delayed(raw[1], FALSE)
  BY <1>2, <1>3, InvParts, WholeParts DEF CloseOnce
<1>5. w = [World EXCEPT !.ticks = t]
  BY <1>3
<1>6. /\ t \in Seq(Events) /\ x \in Events /\ Has(ticks, x)
      /\ \A y \in Events : Has(t, y) => Has(ticks, y)
      /\ \A y \in Events : Once(ticks, y) => Once(t, y)
      /\ Once(ticks, x) => ~Has(t, x)
  BY <1>1, <1>4, TicksTail
<1>7. "close" \in Events /\ "lookupError" \in Events
  BY DEF Events
<1> HIDE DEF w, t, x
<1>8. w = Put(World, sock, raw[1], t)
  <2>1. [World EXCEPT !.ticks = t] = Put(World, World.s, World.raw[1], t)
    BY <1>3, PutsOne
  <2>2. QED
    BY <1>3, <1>5, <2>1
<1>9. /\ hist' \in HistoryType /\ hist'.accepted = hist.accepted
      /\ hist'.cut = hist.cut /\ hist'.connects = hist.connects
      /\ hist'.lateEvent = hist.lateEvent
      /\ hist'.closes = (IF x = "close" THEN hist.closes + 1 ELSE hist.closes)
  <2>1. CASE x = "close"
    <3> DEFINE n == hist.closes + 1
    <3>1. n \in Nat /\ hist' = [hist EXCEPT !.closes = n]
      BY <1>1, <1>4, <2>1
    <3> HIDE DEF n
    <3>2. /\ hist' \in HistoryType /\ hist'.accepted = hist.accepted
          /\ hist'.cut = hist.cut /\ hist'.connects = hist.connects
          /\ hist'.lateEvent = hist.lateEvent /\ hist'.closes = n
      BY <1>4, <3>1 DEF HistoryType
    <3>3. QED
      BY <2>1, <3>2 DEF n
  <2>2. CASE x # "close"
    BY <1>1, <1>4, <2>2
  <2>3. QED
    BY <2>1, <2>2
<1>10. CloseOnce(sock, t, hist'.closes)
  <2>1. CloseOnce(sock, ticks, hist.closes)
    BY <1>4 DEF Fits
  <2>2. CASE x = "close"
    <3>1. Has(ticks, "close") /\ ~Has(t, "close") /\ Once(t, "close")
      BY <1>6, <1>7, <2>1, <2>2 DEF CloseOnce
    <3>2. sock.destroyed /\ hist.closes = 0 /\ hist'.closes = 1
      BY <1>9, <2>1, <2>2, <3>1 DEF CloseOnce
    <3>3. QED
      BY <3>1, <3>2 DEF CloseOnce
  <2>3. CASE x # "close"
    <3>1. hist'.closes = hist.closes
      BY <1>9, <2>3
    <3>2. (Has(t, "close") => Has(ticks, "close")) /\ Once(t, "close")
      BY <1>6, <1>7, <2>1 DEF CloseOnce
    <3>3. QED
      BY <2>1, <3>1, <3>2 DEF CloseOnce
  <2>4. QED
    BY <2>2, <2>3
<1>11. Has(t, "lookupError") => hist'.cut
  BY <1>4, <1>6, <1>7, <1>9 DEF Fits
<1>12. Fits(sock, raw[1], t, hist')
  BY <1>4, <1>9, <1>10, <1>11 DEF Fits
<1>13. Order(sock, raw[1], hist'.accepted, hist'.cut)
  BY <1>4, <1>9
<1>14. Whole(w, hist', FALSE)
  BY <1>3, <1>4, <1>6, <1>8, <1>9, <1>12, <1>13, PutWhole
<1>15. CASE x = "lookupError"
  <2>1. hist'.cut
    BY <1>4, <1>6, <1>9, <1>15 DEF Fits
  <2>2. Whole(e, hist', FALSE)
    BY <1>14, <2>1, CutDestroyKeeps
  <2> HIDE DEF e
  <2>3. QED
    BY <1>1, <1>2, <1>9, <1>15, <2>2, HandlerStep
<1>16. CASE x # "lookupError"
  BY <1>1, <1>2, <1>9, <1>14, <1>16, HandlerStep
<1>17. QED
  BY <1>15, <1>16

------------------------------------------------------------------------------
(* The kernel and the other end.                                             *)

(* The C++ socket changes alone, and keeps what it was given.                *)
LEMMA KernelStep ==
    ASSUME OneConnection, IInv, KernelActs, NEW q \in RawType,
           raw' = [raw EXCEPT ![1] = q],
           hist' \in HistoryType, hist'.connects = hist.connects,
           hist'.lateEvent = hist.lateEvent, hist'.accepted = hist.accepted,
           hist'.closes = hist.closes, hist.cut => hist'.cut,
           Life(sock, q), Joining(sock, q), OneWrite(q), Shut(sock, q),
           LastRead(sock, q), Uncut(sock, q, hist'.cut),
           Given(q) = Given(raw[1]),
           q.m_pending_writes = raw[1].m_pending_writes,
           q.m_close_pending = raw[1].m_close_pending,
           q.m_write_shutdown_pending = raw[1].m_write_shutdown_pending,
           q.fin = raw[1].fin, q.shutdownCb = raw[1].shutdownCb
    PROVE  IInv'
<1>1. /\ sock' = sock /\ ticks' = ticks /\ frame' = frame /\ crashed' = crashed
  BY DEF KernelActs
<1>2. /\ World \in WorldType /\ World.s = sock /\ World.raw = raw
      /\ World.ticks = ticks /\ World.crashed = crashed /\ crashed = FALSE
      /\ sock \in SocketType /\ raw[1] \in RawType /\ ticks \in Seq(Events)
      /\ (Has(ticks, "lookupError") => hist.cut)
      /\ CloseOnce(sock, ticks, hist.closes)
      /\ Order(sock, raw[1], hist.accepted, hist.cut)
      /\ Queued(sock, raw[1]) /\ Delayed(raw[1], Draining)
      /\ Draining \in BOOLEAN /\ hist.cut \in BOOLEAN
  BY InvParts
<1>3. raw' = Alone(q)
  BY <1>2 DEF Alone, WorldType
<1>4. World' = Put(World, sock, q, ticks)
  BY <1>1, <1>2, <1>3 DEF World, Put
<1>5. Fits(sock, q, ticks, hist')
  BY <1>2 DEF Fits, Sound
<1>6. Order(sock, q, hist'.accepted, hist'.cut)
  BY <1>2 DEF Order
<1>7. Queued(sock, q) /\ Delayed(q, Draining)
  BY <1>2 DEF Queued, Delayed
<1>8. Whole(Put(World, sock, q, ticks), hist', Draining)
  BY <1>2, <1>5, <1>6, <1>7, PutWhole
<1>9. Draining' = Draining
  BY <1>1 DEF Draining
<1>10. FrameInv'
  BY <1>1, InvParts DEF FrameInv, Idle
<1>11. QED
  BY <1>4, <1>8, <1>9, <1>10, InvParts DEF IInv

(* What the steps of the kernel start from.                                  *)
LEMMA KernelParts ==
    ASSUME OneConnection, IInv
    PROVE  /\ raw[1] \in RawType /\ hist \in HistoryType /\ hist.cut \in BOOLEAN
           /\ Life(sock, raw[1]) /\ Joining(sock, raw[1]) /\ OneWrite(raw[1])
           /\ Shut(sock, raw[1]) /\ LastRead(sock, raw[1])
           /\ Uncut(sock, raw[1], hist.cut)
           /\ hist.accepted \in Chunks /\ hist.closes \in Nat
  BY InvParts

(* The connection is made, or fails.                                         *)
LEMMA ConnectCompletesStep ==
    ASSUME OneConnection, IInv, ConnectCompletes(1)
    PROVE  IInv'
<1> DEFINE r == raw[1]
           a == [r EXCEPT !.connectOp = "ok", !.connected = TRUE]
           b == [r EXCEPT !.connectOp = "error"]
<1>1. r.connectOp = "pending" /\ hist' = hist /\ KernelActs
  BY DEF ConnectCompletes, Raw!ConnectResults
<1>2. PICK q \in {a, b} : raw' = [raw EXCEPT ![1] = q]
  BY DEF ConnectCompletes, Raw!ConnectResults
<1>3. r \in RawType
  BY KernelParts
<1>4. /\ q \in RawType /\ q.connectOp \in {"ok", "error"}
      /\ q.connectOp = "ok" => q.connected
      /\ r.connected => q.connected
      /\ q.open = r.open /\ q.peer = r.peer /\ q.fin = r.fin
      /\ q.m_pending_writes = r.m_pending_writes
      /\ q.m_write_shutdown_pending = r.m_write_shutdown_pending
      /\ q.m_close_pending = r.m_close_pending
      /\ q.writeOp = r.writeOp /\ q.writing = r.writing
      /\ q.readOp = r.readOp
      /\ q.reading = r.reading /\ q.readCb = r.readCb
      /\ q.shutdownCb = r.shutdownCb /\ q.sent = r.sent
  <2>1. CASE q = a
    BY <1>3, <2>1 DEF RawType
  <2>2. CASE q = b
    BY <1>3, <2>2 DEF RawType
  <2>3. QED
    BY <1>2, <2>1, <2>2
<1>5. r # Raw!NoSocket
  BY <1>1, NewSocketFields
<1> HIDE DEF a, b
<1>6. Life(sock, q)
  BY <1>4, <1>5, KernelParts DEF Life
<1>7. Joining(sock, q)
  BY <1>1, <1>4, KernelParts DEF Joining
<1>8. OneWrite(q)
  BY <1>4, KernelParts DEF OneWrite
<1>9. Shut(sock, q) /\ LastRead(sock, q)
  BY <1>4, KernelParts DEF Shut, LastRead
<1>10. Uncut(sock, q, hist'.cut)
  BY <1>1, <1>4, KernelParts DEF Uncut
<1>11. Given(q) = Given(r)
  BY <1>4, GivenSame
<1>12. hist' \in HistoryType
  BY <1>1, KernelParts
<1>13. QED
  BY <1>1, <1>2, <1>4, <1>6, <1>7, <1>8, <1>9, <1>10, <1>11, <1>12, KernelStep

(* A write completes: the kernel takes the chunk, or fails.                  *)
LEMMA WriteCompletesStep ==
    ASSUME OneConnection, IInv, WriteCompletes(1)
    PROVE  IInv'
<1> DEFINE r == raw[1]
           q == Raw!WriteResult(r)
           z == Append(r.sent, r.writing)
<1>1. /\ r.writeOp = "pending" /\ hist' = hist /\ KernelActs
      /\ raw' = [raw EXCEPT ![1] = q]
  BY DEF WriteCompletes
<1>2. r \in RawType
  BY KernelParts
<1>3. z \in Chunks /\ r.sent \in Chunks /\ r.writing \in Nat
  <2>1. r.sent \in Chunks /\ r.writing \in Nat
    BY <1>2 DEF RawType
  <2>2. QED
    BY <2>1, OneMore
<1>4. /\ r.connected /\ ~r.fin /\ r.peer # "reset" =>
            q = [r EXCEPT !.writeOp = "ok", !.sent = z]
      /\ ~(r.connected /\ ~r.fin /\ r.peer # "reset") =>
            q = [r EXCEPT !.writeOp = "error"]
  BY DEF Raw!WriteResult
<1> HIDE DEF q, z
<1>5. /\ q \in RawType /\ q.writeOp \in {"ok", "error"}
      /\ r.connected /\ ~r.fin /\ r.peer # "reset" => q.writeOp = "ok"
      /\ q.writeOp = "ok" => q.sent = z
      /\ q.writeOp = "error" => q.sent = r.sent
      /\ q.writing = r.writing
      /\ q.open = r.open /\ q.peer = r.peer /\ q.fin = r.fin
      /\ q.connected = r.connected
      /\ q.m_pending_writes = r.m_pending_writes
      /\ q.m_write_shutdown_pending = r.m_write_shutdown_pending
      /\ q.m_close_pending = r.m_close_pending
      /\ q.readOp = r.readOp /\ q.connectOp = r.connectOp
      /\ q.reading = r.reading /\ q.readCb = r.readCb
      /\ q.shutdownCb = r.shutdownCb
  <2>1. CASE r.connected /\ ~r.fin /\ r.peer # "reset"
    <3>1. q = [r EXCEPT !.writeOp = "ok", !.sent = z]
      BY <1>4, <2>1
    <3>2. QED
      BY <1>2, <1>3, <3>1 DEF RawType
  <2>2. CASE ~(r.connected /\ ~r.fin /\ r.peer # "reset")
    <3>1. q = [r EXCEPT !.writeOp = "error"]
      BY <1>4, <2>2
    <3>2. QED
      BY <1>2, <2>2, <3>1 DEF RawType
  <2>3. QED
    BY <2>1, <2>2
<1>6. r # Raw!NoSocket
  BY <1>1, NewSocketFields
<1>7. Life(sock, q)
  BY <1>5, <1>6, KernelParts DEF Life
<1>8. Joining(sock, q)
  BY <1>5, KernelParts DEF Joining
<1>9. OneWrite(q)
  BY <1>1, <1>5, KernelParts DEF OneWrite
<1>10. Shut(sock, q) /\ LastRead(sock, q)
  BY <1>5, KernelParts DEF Shut, LastRead
<1>11. Uncut(sock, q, hist'.cut)
  <2>1. ~hist.cut => r.connected /\ ~r.fin /\ r.peer # "reset"
    BY <1>1, KernelParts DEF Uncut, OneWrite
  <2>2. QED
    BY <1>1, <1>5, <2>1, KernelParts DEF Uncut
<1>12. Given(q) = Given(r)
  <2>1. Given(r) = z
    BY <1>1, <1>2, GivenChunks DEF z
  <2>2. q.writeOp = "ok" => Given(q) = q.sent
    BY <1>5, GivenChunks
  <2>3. q.writeOp = "error" => Given(q) = Append(q.sent, q.writing)
    BY <1>5, GivenChunks
  <2>4. QED
    BY <1>5, <2>1, <2>2, <2>3 DEF z
<1>13. hist' \in HistoryType
  BY <1>1, KernelParts
<1>14. QED
  BY <1>1, <1>5, <1>7, <1>8, <1>9, <1>10, <1>11, <1>12, <1>13, KernelStep

(* A read is answered with data.                                             *)
LEMMA DataArrivesStep ==
    ASSUME OneConnection, IInv, DataArrives(1)
    PROVE  IInv'
<1> DEFINE r == raw[1]
           q == [r EXCEPT !.readOp = "ok"]
           n == hist.inputs + 1
<1>1. /\ r.readOp = "pending" /\ KernelActs
      /\ raw' = [raw EXCEPT ![1] = q]
      /\ hist' = [hist EXCEPT !.inputs = n]
  BY DEF DataArrives
<1>2. r \in RawType /\ hist \in HistoryType
  BY KernelParts
<1>3. n \in Nat
  BY <1>2 DEF HistoryType
<1> HIDE DEF n
<1>4. /\ hist' \in HistoryType /\ hist'.connects = hist.connects
      /\ hist'.lateEvent = hist.lateEvent /\ hist'.accepted = hist.accepted
      /\ hist'.closes = hist.closes /\ hist'.cut = hist.cut
  BY <1>1, <1>2, <1>3 DEF HistoryType
<1>5. /\ q \in RawType /\ q.readOp = "ok"
      /\ q.writeOp = r.writeOp /\ q.writing = r.writing /\ q.sent = r.sent
      /\ q.open = r.open /\ q.peer = r.peer /\ q.fin = r.fin
      /\ q.connected = r.connected
      /\ q.m_pending_writes = r.m_pending_writes
      /\ q.m_write_shutdown_pending = r.m_write_shutdown_pending
      /\ q.m_close_pending = r.m_close_pending
      /\ q.connectOp = r.connectOp
      /\ q.reading = r.reading /\ q.readCb = r.readCb
      /\ q.shutdownCb = r.shutdownCb
  BY <1>2 DEF RawType
<1>6. r # Raw!NoSocket
  BY <1>1, NewSocketFields
<1> HIDE DEF q
<1>7. Life(sock, q)
  BY <1>5, <1>6, KernelParts DEF Life
<1>8. Joining(sock, q) /\ OneWrite(q)
  BY <1>1, <1>5, KernelParts DEF Joining, OneWrite
<1>9. Shut(sock, q) /\ LastRead(sock, q)
  BY <1>1, <1>5, KernelParts DEF Shut, LastRead
<1>10. Uncut(sock, q, hist'.cut)
  BY <1>4, <1>5, KernelParts DEF Uncut
<1>11. Given(q) = Given(r)
  BY <1>5, GivenSame
<1>12. QED
  BY <1>1, <1>4, <1>5, <1>7, <1>8, <1>9, <1>10, <1>11, KernelStep

(* A read is answered with the end of the stream, or an error.               *)
LEMMA StreamEndsStep ==
    ASSUME OneConnection, IInv, StreamEnds(1)
    PROVE  IInv'
<1> DEFINE r == raw[1]
           q == Raw!ReadEnds(r)
<1>1. /\ r.readOp = "pending" /\ r.peer # "open" /\ KernelActs
      /\ raw' = [raw EXCEPT ![1] = q] /\ hist' = hist
  BY DEF StreamEnds
<1>2. r \in RawType /\ hist \in HistoryType
  BY KernelParts
<1>3. /\ r.peer = "ended" => q = [r EXCEPT !.readOp = "eof"]
      /\ r.peer # "ended" => q = [r EXCEPT !.readOp = "error"]
  BY DEF Raw!ReadEnds
<1> HIDE DEF q
<1>4. /\ q \in RawType /\ q.readOp \in {"eof", "error"}
      /\ q.writeOp = r.writeOp /\ q.writing = r.writing /\ q.sent = r.sent
      /\ q.open = r.open /\ q.peer = r.peer /\ q.fin = r.fin
      /\ q.connected = r.connected
      /\ q.m_pending_writes = r.m_pending_writes
      /\ q.m_write_shutdown_pending = r.m_write_shutdown_pending
      /\ q.m_close_pending = r.m_close_pending
      /\ q.connectOp = r.connectOp
      /\ q.reading = r.reading /\ q.readCb = r.readCb
      /\ q.shutdownCb = r.shutdownCb
  <2>1. CASE r.peer = "ended"
    <3>1. q = [r EXCEPT !.readOp = "eof"]
      BY <1>3, <2>1
    <3>2. QED
      BY <1>2, <3>1 DEF RawType
  <2>2. CASE r.peer # "ended"
    <3>1. q = [r EXCEPT !.readOp = "error"]
      BY <1>3, <2>2
    <3>2. QED
      BY <1>2, <3>1 DEF RawType
  <2>3. QED
    BY <2>1, <2>2
<1>5. r # Raw!NoSocket
  BY <1>1, NewSocketFields
<1>6. Life(sock, q)
  BY <1>4, <1>5, KernelParts DEF Life
<1>7. Joining(sock, q) /\ OneWrite(q)
  BY <1>1, <1>4, KernelParts DEF Joining, OneWrite
<1>8. Shut(sock, q) /\ LastRead(sock, q)
  BY <1>1, <1>4, KernelParts DEF Shut, LastRead
<1>9. Uncut(sock, q, hist'.cut)
  BY <1>1, <1>4, KernelParts DEF Uncut
<1>10. Given(q) = Given(r)
  BY <1>4, GivenSame
<1>11. QED
  BY <1>1, <1>2, <1>4, <1>6, <1>7, <1>8, <1>9, <1>10, KernelStep

(* The other end ends its side, or resets the connection and cuts it short.  *)
LEMMA PeerStep ==
    ASSUME OneConnection, IInv, PeerEnds(1) \/ PeerResets(1)
    PROVE  IInv'
<1> DEFINE r == raw[1]
<1>1. PICK p \in {"ended", "reset"} :
        /\ raw' = [raw EXCEPT ![1] = [r EXCEPT !.peer = p]]
        /\ \/ p = "ended" /\ hist' = hist
           \/ hist' = [hist EXCEPT !.cut = TRUE]
        /\ r.connected /\ KernelActs
  <2>1. CASE PeerEnds(1)
    <3>1. /\ raw' = [raw EXCEPT ![1] = [r EXCEPT !.peer = "ended"]]
          /\ hist' = hist /\ r.connected /\ KernelActs
      BY <2>1 DEF PeerEnds
    <3>2. QED
      BY <3>1
  <2>2. CASE PeerResets(1)
    <3>1. /\ raw' = [raw EXCEPT ![1] = [r EXCEPT !.peer = "reset"]]
          /\ hist' = [hist EXCEPT !.cut = TRUE]
          /\ r.connected /\ KernelActs
      BY <2>2 DEF PeerResets
    <3>2. QED
      BY <3>1
  <2>3. QED
    BY <2>1, <2>2
<1> DEFINE q == [r EXCEPT !.peer = p]
<1>2. r \in RawType /\ hist \in HistoryType /\ hist.cut \in BOOLEAN
  BY KernelParts
<1>3. /\ hist' \in HistoryType /\ hist'.connects = hist.connects
      /\ hist'.lateEvent = hist.lateEvent /\ hist'.accepted = hist.accepted
      /\ hist'.closes = hist.closes /\ (hist.cut => hist'.cut)
      /\ ~hist'.cut => p = "ended" /\ ~hist.cut
  <2>1. CASE p = "ended" /\ hist' = hist
    BY <1>2, <2>1
  <2>2. CASE hist' = [hist EXCEPT !.cut = TRUE]
    BY <1>2, <2>2 DEF HistoryType
  <2>3. QED
    BY <1>1, <2>1, <2>2
<1>4. /\ q \in RawType /\ q.peer = p
      /\ q.writeOp = r.writeOp /\ q.writing = r.writing /\ q.sent = r.sent
      /\ q.open = r.open /\ q.readOp = r.readOp /\ q.fin = r.fin
      /\ q.connected = r.connected
      /\ q.m_pending_writes = r.m_pending_writes
      /\ q.m_write_shutdown_pending = r.m_write_shutdown_pending
      /\ q.m_close_pending = r.m_close_pending
      /\ q.connectOp = r.connectOp
      /\ q.reading = r.reading /\ q.readCb = r.readCb
      /\ q.shutdownCb = r.shutdownCb
  BY <1>2 DEF RawType
<1>5. r # Raw!NoSocket
  BY <1>1, NewSocketFields
<1>6. raw' = [raw EXCEPT ![1] = q] /\ KernelActs
  BY <1>1
<1> HIDE DEF q
<1>7. Life(sock, q)
  BY <1>4, <1>5, KernelParts DEF Life
<1>8. Joining(sock, q) /\ OneWrite(q)
  BY <1>4, KernelParts DEF Joining, OneWrite
<1>9. Shut(sock, q) /\ LastRead(sock, q)
  BY <1>4, KernelParts DEF Shut, LastRead
<1>10. Uncut(sock, q, hist'.cut)
  BY <1>3, <1>4, KernelParts DEF Uncut
<1>11. Given(q) = Given(r)
  BY <1>4, GivenSame
<1>12. QED
  BY <1>3, <1>4, <1>6, <1>7, <1>8, <1>9, <1>10, <1>11, KernelStep

------------------------------------------------------------------------------
(* The invariant.                                                            *)

(* It holds of an object just made.                                          *)
LEMMA InitKeeps ==
    ASSUME OneConnection, Init
    PROVE  IInv
<1> DEFINE r == Raw!NoSocket
<1>1. PICK half \in BOOLEAN : sock = NewSocket(half)
  BY DEF Init
<1>2. /\ raw = [h \in {1} |-> r] /\ ticks = <<>> /\ frame = Idle
      /\ crashed = FALSE /\ hist = NoHistory
  BY OneHandle DEF Init
<1>3. raw \in [{1} -> RawType] /\ raw[1] = r /\ r \in RawType
  BY <1>2, NewSocketFields
<1>4. <<>> \in Chunks /\ ticks \in Seq(Events)
  BY <1>2 DEF Chunks
<1>5. sock \in SocketType
  BY <1>1, <1>4 DEF NewSocket, NoHandle, SocketType
<1>6. hist \in HistoryType
  BY <1>2, <1>4 DEF NoHistory, HistoryType
<1>7. World \in WorldType
  BY <1>2, <1>3, <1>4, <1>5 DEF World, WorldType
<1>8. /\ sock._handle = 0 /\ ~sock._connecting /\ ~sock.lookup /\ ~sock.readable
      /\ ~sock.writable /\ ~sock.destroyed /\ sock._flags = {}
      /\ sock._writeQueue = <<>> /\ sock._connectQueue = <<>>
      /\ sock._pendingWriteReqs = 0
  BY <1>1 DEF NewSocket, NoHandle
<1>9. /\ ~hist.cut /\ hist.closes = 0 /\ ~hist.lateEvent /\ hist.connects = 0
      /\ hist.accepted = <<>>
  BY <1>2 DEF NoHistory
<1>10. /\ ~r.connected /\ r.peer = "open" /\ ~r.fin
       /\ r.m_pending_writes = 0 /\ ~r.m_write_shutdown_pending
       /\ ~r.m_close_pending /\ r.writeOp = "none" /\ r.readOp = "none"
       /\ ~r.shutdownCb /\ Given(r) = <<>> /\ r.connectOp = "none"
  BY NewSocketFields
<1> HIDE DEF r
<1>11. Life(sock, r) /\ Joining(sock, r)
  BY <1>8, <1>10 DEF Life, Joining, r
<1>12. OneWrite(r) /\ Shut(sock, r) /\ LastRead(sock, r)
  BY <1>8, <1>10 DEF OneWrite, Shut, LastRead
<1>13. Uncut(sock, r, hist.cut)
  BY <1>8, <1>10 DEF Uncut
<1>14. ~Has(ticks, "lookupError") /\ CloseOnce(sock, ticks, hist.closes)
  BY <1>2, <1>8, <1>9 DEF Has, Once, CloseOnce
<1>15. Order(sock, r, hist.accepted, hist.cut)
  <2>1. <<>> \o <<>> = <<>> /\ IsPrefix(<<>>, <<>>)
    BY <1>4, OneMore, BeginsWith
  <2>2. QED
    BY <1>8, <1>9, <1>10, <2>1 DEF Order
<1>16. Queued(sock, r) /\ Delayed(r, Draining)
  BY <1>8, <1>10 DEF Queued, Delayed
<1>17. Whole(World, hist, Draining)
  BY <1>2, <1>3, <1>6, <1>7, <1>11, <1>12, <1>13, <1>14, <1>15, <1>16
     DEF Whole, Good, Held, Fits, Sound, World
<1>18. FrameInv
  BY <1>2, <1>8, <1>9 DEF FrameInv
<1>19. QED
  BY <1>9, <1>17, <1>18 DEF IInv

(* Every step keeps it.                                                      *)
LEMMA NextKeeps ==
    ASSUME OneConnection, IInv, [Next]_vars
    PROVE  IInv'
<1>1. CASE Application
  BY <1>1, ConnectStep, WriteStep, FinishStep, DestroyStep, DestroyAgainStep,
     DestroySoonStep, PauseStep, ResumeStep DEF Application
<1>2. CASE Handler
  <2>1. CASE \/ ConnectDone(1) \/ ReadData(1) \/ ReadEnd(1) \/ WriteDone(1)
             \/ ShutdownPosted(1)
    BY <2>1, ConnectDoneStep, ReadDataStep, ReadEndStep, WriteDoneStep,
       ShutdownPostedStep
  <2>2. CASE LookupDone \/ TickRuns
    BY <2>2, LookupDoneStep, TickRunsStep
  <2>3. CASE ConnectListened \/ DataListened \/ DrainListened
    BY <2>3, ConnectListenedStep, DataListenedStep, DrainListenedStep
  <2>4. CASE ConnectThrows \/ DataThrows \/ DrainThrows
    BY <2>4, ConnectThrowsStep, DataThrowsStep, DrainThrowsStep
  <2>5. QED
    BY <1>2, <2>1, <2>2, <2>3, <2>4, OneHandle DEF Handler
<1>3. CASE Kernel
  BY <1>3, OneHandle, ConnectCompletesStep, WriteCompletesStep,
     DataArrivesStep, StreamEndsStep, PeerStep DEF Kernel
<1>4. CASE UNCHANGED vars
  <2>1. World' = World /\ hist' = hist /\ Draining' = Draining
    BY <1>4 DEF vars, World, Draining
  <2>2. FrameInv'
    BY <1>4, InvParts DEF vars, FrameInv, Idle
  <2>3. QED
    BY <2>1, <2>2 DEF IInv
<1>5. QED
  BY <1>1, <1>2, <1>3, <1>4 DEF Next

(* The socket of net.lua and the C++ socket fit together in every state.     *)
THEOREM SocketInvariance ==
    ASSUME OneConnection
    PROVE  Spec => []IInv
<1>1. Init => IInv
  BY InitKeeps
<1>2. IInv /\ [Next]_vars => IInv'
  BY NextKeeps
<1>3. QED
  BY <1>1, <1>2, PTL DEF Spec

------------------------------------------------------------------------------
(* What follows from it.                                                     *)

(* The handle of the only connection is the first.                           *)
LEMMA OnlyHandle ==
    ASSUME OneConnection, IInv, NEW h \in Handles
    PROVE  h = 1 /\ InFlight(1) = Under(raw[1]) /\ raw[1].sent \in Chunks
           /\ Under(raw[1]) \in Chunks
<1>1. raw[1] \in RawType
  BY InvParts
<1>2. h = 1 /\ InFlight(1) = Under(raw[1]) /\ raw[1].sent \in Chunks
  BY <1>1, OneHandle DEF InFlight, Under, RawType
<1>3. Under(raw[1]) \in Chunks
  BY <1>1 DEF Under, RawType, Chunks
<1>4. QED
  BY <1>2, <1>3

(* What the kernel took, the chunk under way, _writeQueue and _connectQueue  *)
(* (net.lua's Socket:_write, afterWrite and drainConnectQueue) are together  *)
(* the chunks that were written, in order; what was sent is a beginning.     *)
THEOREM WritesStayInOrder ==
    ASSUME OneConnection
    PROVE  Spec => []WritesInOrder
<1>1. IInv => WritesInOrder
  <2> SUFFICES ASSUME IInv, NEW h \in Handles
               PROVE  /\ ~sock.destroyed /\ h = sock._handle =>
                           raw[h].sent \o InFlight(h) \o sock._writeQueue
                             \o sock._connectQueue = hist.accepted
                      /\ SentIsPrefix
    BY DEF WritesInOrder
  <2>1. Order(sock, raw[1], hist.accepted, hist.cut) /\ hist.accepted \in Chunks
    BY InvParts
  <2>2. /\ h = 1 /\ InFlight(1) = Under(raw[1]) /\ raw[1].sent \in Chunks
        /\ Under(raw[1]) \in Chunks
    BY OnlyHandle
  <2>3. ~sock.destroyed =>
            raw[h].sent \o InFlight(h) \o sock._writeQueue
              \o sock._connectQueue = hist.accepted
    BY <2>1, <2>2 DEF Order, Given
  <2>4. IsPrefix(raw[1].sent, hist.accepted)
    BY <2>1, <2>2, PrefixOfPrefix DEF Order, Given
  <2>5. SentIsPrefix
    BY <2>4, OneHandle DEF SentIsPrefix
  <2>6. QED
    BY <2>3, <2>5
<1>2. QED
  BY <1>1, SocketInvariance, PTL

(* What waits in _writeQueue, and a delayed Close or Shutdown of the C++     *)
(* socket, has a write under way whose HandleWrite will take it up, and      *)
(* _pendingWriteReqs is m_pending_writes between the handlers.               *)
THEOREM WhatWaitsHasAWriter ==
    ASSUME OneConnection
    PROVE  Spec => []QueueHasWriter
<1>1. IInv => QueueHasWriter
  <2> SUFFICES ASSUME IInv PROVE QueueHasWriter
    OBVIOUS
  <2>1. /\ Queued(sock, raw[1]) /\ Delayed(raw[1], Draining)
        /\ OneWrite(raw[1]) /\ sock \in SocketType
    BY InvParts
  <2>2. sock._handle \in {0, 1} /\ NoHandle = 0 /\ Handles = {1}
    BY HandleIs
  <2>3. ~sock.destroyed /\ sock._handle # NoHandle =>
          /\ sock._pendingWriteReqs = raw[sock._handle].m_pending_writes
          /\ sock._writeQueue # <<>> => sock._pendingWriteReqs > 0
    BY <2>1, <2>2 DEF Queued, OneWrite
  <2>4. DelayedHasWriter
    BY <2>1, <2>2 DEF DelayedHasWriter, Delayed, OneWrite, Draining
  <2>5. QED
    BY <2>3, <2>4 DEF QueueHasWriter
<1>2. QED
  BY <1>1, SocketInvariance, PTL

(* The assertions of onread, connect_callback and shutdown_callback hold,    *)
(* and _write has a handle whenever it is reached.                           *)
THEOREM NoHandlerThrows ==
    ASSUME OneConnection
    PROVE  Spec => []NoAssertFails
<1>1. IInv => NoAssertFails
  BY InvParts DEF NoAssertFails
<1>2. QED
  BY <1>1, SocketInvariance, PTL

(* _destroy takes effect once: one "close", and no "connect", "data",        *)
(* "drain" or "end" after it.                                                *)
THEOREM CloseEndsTheEvents ==
    ASSUME OneConnection
    PROVE  Spec => []CloseIsLast
<1>1. IInv => CloseIsLast
  <2> SUFFICES ASSUME IInv PROVE CloseIsLast
    OBVIOUS
  <2>1. hist.closes \in {0, 1} /\ hist.lateEvent = FALSE
    BY InvParts DEF CloseOnce
  <2>2. QED
    BY <2>1 DEF CloseIsLast
<1>2. QED
  BY <1>1, SocketInvariance, PTL

(* A connection has sent all its chunks when its descriptor is closed (Close *)
(* and HandleWrite, luanode_net.cpp), also when the other side ends first;   *)
(* only destroy, a failure, a write behind finish and an end of the other    *)
(* side that onread finds behind finish or destroySoon with chunks still in  *)
(* _writeQueue (net.lua:185) cut it short.                                   *)
THEOREM FlushedBeforeClosed ==
    ASSUME OneConnection
    PROVE  Spec => []NoDataLost
<1>1. IInv => NoDataLost
  <2> SUFFICES ASSUME IInv, sock.destroyed, ~raw[1].open, ~hist.cut
               PROVE  raw[1].sent = hist.accepted
    BY DEF NoDataLost
  <2>1. /\ Order(sock, raw[1], hist.accepted, hist.cut) /\ OneWrite(raw[1])
        /\ raw[1] \in RawType
    BY InvParts
  <2>2. raw[1].writeOp = "none"
    BY <2>1 DEF OneWrite
  <2>3. Given(raw[1]) = raw[1].sent \o <<>> /\ raw[1].sent \in Chunks
    BY <2>1, <2>2 DEF Given, Under, RawType
  <2>4. raw[1].sent \o <<>> = raw[1].sent
    BY <2>3, ConcatEmptySeq DEF Chunks
  <2>5. QED
    BY <2>1, <2>3, <2>4 DEF Order
<1>2. QED
  BY <1>1, SocketInvariance, PTL
==============================================================================
