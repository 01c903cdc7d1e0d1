------------------------- MODULE SecureSocketProofs -------------------------
(* Proofs about SecureSocket, for any number of chunks and reads.  Its       *)
(* functions work on a world w = [s, c, crashed]; Good(w, early) is what     *)
(* each of them keeps.                                                       *)
EXTENDS SecureSocket, TLAPS

Chunk == Nat \ {None}
SockType ==
    [_handle : BOOLEAN, readable : BOOLEAN, writable : BOOLEAN,
     destroyed : BOOLEAN, secureEstablished : BOOLEAN, destroySoon : BOOLEAN,
     _connectQueue : Seq(Chunk), drainOnSecure : BOOLEAN,
     _writeQueue : Seq(Chunk), _pendingWriteReqs : Int, allowHalfOpen : BOOLEAN]
SslType ==
    [open : BOOLEAN, writing : Nat, m_pending_reads : Int,
     handshake : {"none", "pending", "done", "failed"},
     m_shutdown_pending : BOOLEAN, m_close_pending : BOOLEAN, shutdown : BOOLEAN]
WorldType == [s : SockType, c : SslType, crashed : BOOLEAN]

(* The C++ object is closed only when the Lua object has let go of it, and   *)
(* never under a write.                                                      *)
Handles(w) ==
    /\ ~w.s.destroyed => w.s._handle
    /\ w.s._handle => w.c.open /\ ~w.c.m_close_pending
    /\ w.c.writing # None => w.c.open

(* Who is finished does not write again, and _connectQueue is empty unless   *)
(* drainConnectQueue will take its chunks out.                               *)
Queues(w) ==
    /\ w.c.m_shutdown_pending => ~w.s.writable
    /\ w.c.shutdown => w.c.m_shutdown_pending
    /\ ~w.s.destroyed => (w.s._connectQueue = <<>> <=> ~w.s.drainOnSecure)

(* Chunks in _writeQueue have a write whose end takes them out.              *)
Waiting(w) == ~w.s.destroyed /\ w.c.writing = None => w.s._writeQueue = <<>>

(* Nothing is written while there is data from before the connection, and    *)
(* nothing after the shutdown, unless a write came early.                    *)
Order(w, early) ==
    /\ w.s.drainOnSecure /\ ~early => w.c.writing = None
    /\ w.c.shutdown /\ ~early /\ ~w.s.destroyed =>
          w.c.writing = None /\ ~w.s.drainOnSecure

(* Sound is Good between the end of a write and the start of the next.       *)
Sound(w, early) == w \in WorldType /\ Handles(w) /\ Queues(w) /\ Order(w, early)
Good(w, early) == Sound(w, early) /\ Waiting(w)

HistType == hist \in [chunks : Nat, inputs : Nat, early : BOOLEAN]
IInv == Good(World, hist.early) /\ HistType

------------------------------------------------------------------------------
(* The functions of the C++ socket and of net.Socket keep Good.              *)

(* A world of which both records are replaced.                               *)
LEMMA Replaced ==
    ASSUME NEW w \in WorldType, NEW s \in SockType, NEW c \in SslType
    PROVE  LET d == [w EXCEPT !.s = s, !.c = c]
           IN d \in WorldType /\ d.s = s /\ d.c = c
BY DEF WorldType

(* Destroy closes the connection, or leaves the close to the end of the write.*)
LEMMA DestroyGood ==
    ASSUME NEW early \in BOOLEAN, NEW w, Sound(w, early)
    PROVE  /\ Good(Destroy(w), early)
           /\ Destroy(w).c.writing = w.c.writing
           /\ Destroy(w).s.drainOnSecure = w.s.drainOnSecure
           /\ Destroy(w).c.m_shutdown_pending = w.c.m_shutdown_pending
           /\ ~Destroy(w).s.writable \/ w.s.destroyed
<1> DEFINE s == [w.s EXCEPT !._handle = FALSE, !.readable = FALSE,
                            !.writable = FALSE, !.destroyed = TRUE,
                            !._connectQueue = <<>>]
           d == [w EXCEPT !.s = s, !.c = Close(@)]
<1>1. w \in WorldType /\ w.s \in SockType /\ w.c \in SslType
  BY DEF Sound, WorldType
<1>2. CASE w.s.destroyed
  BY <1>2 DEF Destroy, Good, Waiting
<1>3. CASE ~w.s.destroyed
  <2>1. Destroy(w) = d
    BY <1>3 DEF Destroy
  <2>2. /\ s \in SockType /\ ~s._handle /\ ~s.writable /\ s.destroyed
        /\ s.drainOnSecure = w.s.drainOnSecure
    <3>1. <<>> \in Seq(Chunk)
      OBVIOUS
    <3>2. QED
      BY <1>1, <3>1 DEF SockType
  <2>3. /\ Close(w.c) \in SslType
        /\ Close(w.c).writing = w.c.writing
        /\ Close(w.c).m_shutdown_pending = w.c.m_shutdown_pending
        /\ Close(w.c).shutdown = w.c.shutdown
        /\ w.c.writing # None => Close(w.c).open = w.c.open
    BY <1>1 DEF Close, SslType
  <2> HIDE DEF s
  <2> HIDE DEF d
  <2>4. d \in WorldType /\ d.s = s /\ d.c = Close(w.c)
    BY <2>2, <2>3, <1>1, Replaced DEF d
  <2>5. Handles(d) /\ Queues(d) /\ Waiting(d) /\ Order(d, early)
    BY <2>2, <2>3, <2>4 DEF Sound, Handles, Queues, Order, Waiting
  <2>6. QED
    BY <2>1, <2>2, <2>3, <2>4, <2>5 DEF Good, Sound
<1>4. QED
  BY <1>2, <1>3

(* Changes of the flags that only tell what the application wants.           *)
LEMMA FlagsGood ==
    ASSUME NEW early \in BOOLEAN, NEW w, Good(w, early), NEW soon \in BOOLEAN
    PROVE  LET f == [w EXCEPT !.s.writable = FALSE, !.s.destroySoon = soon]
               g == [w EXCEPT !.s.writable = FALSE]
           IN /\ Good(f, early) /\ Good(g, early)
              /\ f.c = w.c /\ g.c = w.c /\ ~g.s.writable
              /\ f.s.drainOnSecure = w.s.drainOnSecure
              /\ g.s.drainOnSecure = w.s.drainOnSecure
<1> SUFFICES ASSUME NEW s \in SockType,
                    s.writable = FALSE /\ s._handle = w.s._handle
                    /\ s.destroyed = w.s.destroyed /\ s._connectQueue = w.s._connectQueue
                    /\ s._writeQueue = w.s._writeQueue
                    /\ s.drainOnSecure = w.s.drainOnSecure
             PROVE  Good([w EXCEPT !.s = s], early)
  <2>1. w \in WorldType /\ w.s \in SockType
    BY DEF Good, Sound, WorldType
  <2> DEFINE a == [w.s EXCEPT !.writable = FALSE, !.destroySoon = soon]
             b == [w.s EXCEPT !.writable = FALSE]
  <2>2. a \in SockType /\ b \in SockType
    BY <2>1 DEF SockType
  <2>3. Good([w EXCEPT !.s = a], early) /\ Good([w EXCEPT !.s = b], early)
    BY <2>1, <2>2 DEF SockType
  <2>4. /\ [w EXCEPT !.s.writable = FALSE, !.s.destroySoon = soon] = [w EXCEPT !.s = a]
        /\ [w EXCEPT !.s.writable = FALSE] = [w EXCEPT !.s = b]
    BY <2>1 DEF WorldType
  <2>5. /\ [w EXCEPT !.s = a].c = w.c /\ [w EXCEPT !.s = b].c = w.c
        /\ [w EXCEPT !.s = a].s = a /\ [w EXCEPT !.s = b].s = b
    BY <2>1 DEF WorldType
  <2>6. /\ ~b.writable /\ a.drainOnSecure = w.s.drainOnSecure
        /\ b.drainOnSecure = w.s.drainOnSecure
    BY <2>1 DEF SockType
  <2>7. QED
    BY <2>3, <2>4, <2>5, <2>6
<1>1. w \in WorldType /\ w.c \in SslType
  BY DEF Good, Sound, WorldType
<1> DEFINE d == [w EXCEPT !.s = s]
<1>2. d \in WorldType /\ d.s = s /\ d.c = w.c
  BY <1>1 DEF WorldType
<1> HIDE DEF d
<1>3. Handles(d) /\ Queues(d) /\ Order(d, early) /\ Waiting(d)
  BY <1>2 DEF Good, Sound, Handles, Queues, Order, Waiting
<1>4. QED
  BY <1>2, <1>3 DEF d, Good, Sound

(* DestroySoon destroys the socket, or waits for the queue to empty.         *)
LEMMA DestroySoonGood ==
    ASSUME NEW early \in BOOLEAN, NEW w, Good(w, early)
    PROVE  /\ Good(DestroySoon(w), early)
           /\ DestroySoon(w).c.writing = w.c.writing
           /\ DestroySoon(w).s.drainOnSecure = w.s.drainOnSecure
<1> DEFINE d == [w EXCEPT !.s.writable = FALSE, !.s.destroySoon = TRUE]
<1>1. Good(d, early) /\ d.c = w.c /\ d.s.drainOnSecure = w.s.drainOnSecure
  BY FlagsGood
<1>2. DestroySoon(w) = IF w.s._pendingWriteReqs = 0 THEN Destroy(d) ELSE d
  BY DEF DestroySoon
<1> HIDE DEF d
<1>3. QED
  BY <1>1, <1>2, DestroyGood DEF Good

(* finish shuts the connection down behind the queue, now or later.          *)
LEMMA FinishGood ==
    ASSUME NEW early \in BOOLEAN, NEW w, Good(w, early)
    PROVE  Good(finish(w), early)
<1> DEFINE f == [w EXCEPT !.s.writable = FALSE]
           g == [f EXCEPT !.c = Shutdown(@)]
<1>1. Good(f, early) /\ ~f.s.writable
  BY FlagsGood
<1>2. Good(g, early)
  <2> HIDE DEF f
  <2>1. /\ f \in WorldType /\ f.c \in SslType
    BY <1>1 DEF Good, Sound, WorldType
  <2>2. g.s = f.s /\ g.c = [f.c EXCEPT !.m_shutdown_pending = TRUE] /\ g \in WorldType
    BY <2>1 DEF WorldType, SslType, Shutdown
  <2> HIDE DEF g
  <2>3. QED
    BY <1>1, <2>1, <2>2 DEF Good, Sound, SslType, Handles, Queues, Order, Waiting
<1>3. QED
  BY <1>1, <1>2, DestroySoonGood DEF finish

(* resume starts a read, of which there is at most one.                      *)
LEMMA ResumeGood ==
    ASSUME NEW early \in BOOLEAN, NEW w, Good(w, early)
    PROVE  Good(resume(w), early)
<1> DEFINE r == [w EXCEPT !.c = NewRead(@)]
<1>1. /\ r \in WorldType /\ r.s = w.s
      /\ r.c = [w.c EXCEPT !.m_pending_reads = @ + 1]
  BY DEF Good, Sound, WorldType, SslType, NewRead
<1> HIDE DEF r
<1>2. Good(r, early)
  BY <1>1 DEF Good, Sound, WorldType, SslType, Handles, Queues, Order, Waiting
<1>3. resume(w) = r \/ resume(w) = w
  BY DEF resume, r
<1>4. QED
  BY <1>2, <1>3

(* _write starts a write or queues the chunk.  No chunk comes before data    *)
(* that waits for the connection, or after the shutdown, unless it is early. *)
LEMMA WriteGood ==
    ASSUME NEW early \in BOOLEAN, NEW w, Sound(w, early), NEW chunk \in Chunk,
           w.s.drainOnSecure => early,
           w.c.shutdown => early \/ w.s.destroyed
    PROVE  LET v == _write(w, chunk)
           IN /\ Good(v, early)
              /\ w.s._handle => v.c.writing # None
              /\ v.s.drainOnSecure = w.s.drainOnSecure
              /\ v.s.destroyed = w.s.destroyed
<1> DEFINE n == [w EXCEPT !.c = NewWrite(@, chunk), !.s._pendingWriteReqs = @ + 1]
           q == [w EXCEPT !.s._writeQueue = Append(@, chunk)]
           x == [w EXCEPT !.crashed = TRUE]
<1>1. w \in WorldType /\ w.s \in SockType /\ w.c \in SslType /\ chunk # None /\ chunk \in Nat
  BY DEF Sound, WorldType, Chunk
<1>2. CASE ~w.s._handle
  <2>1. _write(w, chunk) = x
    BY <1>2 DEF _write
  <2>2. x \in WorldType /\ x.s = w.s /\ x.c = w.c
    BY <1>1 DEF WorldType
  <2> HIDE DEF x
  <2>3. QED
    BY <1>2, <2>1, <2>2 DEF Good, Sound, Handles, Queues, Order, Waiting
<1>3. CASE w.s._handle /\ w.c.writing = None
  <2>1. _write(w, chunk) = n
    BY <1>3 DEF _write
  <2>2. /\ n \in WorldType
        /\ n.s = [w.s EXCEPT !._pendingWriteReqs = @ + 1]
        /\ n.c = [w.c EXCEPT !.writing = chunk]
    <3> DEFINE s == [w.s EXCEPT !._pendingWriteReqs = @ + 1]
               c == [w.c EXCEPT !.writing = chunk]
    <3>1. s \in SockType
      BY <1>1 DEF SockType
    <3>2. c \in SslType
      BY <1>1 DEF SslType
    <3>3. n = [w EXCEPT !.s = s, !.c = c]
      BY <1>1 DEF WorldType, NewWrite
    <3> HIDE DEF n, s, c
    <3>4. n \in WorldType /\ n.s = s /\ n.c = c
      BY <1>1, <3>1, <3>2, <3>3 DEF WorldType
    <3>5. QED
      BY <3>4 DEF s, c
  <2> HIDE DEF n
  <2>3. Good(n, early)
    BY <1>1, <1>3, <2>2
       DEF Good, Sound, SockType, SslType, Handles, Queues, Order, Waiting
  <2>4. QED
    BY <1>1, <2>1, <2>2, <2>3 DEF Good, SockType, SslType
<1>4. CASE w.s._handle /\ w.c.writing # None
  <2>1. _write(w, chunk) = q
    BY <1>4 DEF _write
  <2>2. /\ q \in WorldType
        /\ q.s = [w.s EXCEPT !._writeQueue = Append(@, chunk)]
        /\ q.c = w.c
    <3> DEFINE s == [w.s EXCEPT !._writeQueue = Append(@, chunk)]
    <3>1. Append(w.s._writeQueue, chunk) \in Seq(Chunk)
      BY <1>1 DEF SockType
    <3>2. s \in SockType
      BY <1>1, <3>1 DEF SockType
    <3>3. q = [w EXCEPT !.s = s]
      OBVIOUS
    <3> HIDE DEF q, s
    <3>4. q \in WorldType /\ q.s = s /\ q.c = w.c
      BY <1>1, <3>2, <3>3 DEF WorldType
    <3>5. QED
      BY <3>4 DEF s
  <2> HIDE DEF q
  <2>3. Good(q, early)
    BY <1>1, <1>4, <2>2 DEF Good, Sound, SockType, Handles, Queues, Order, Waiting
  <2>4. QED
    BY <1>1, <1>4, <2>1, <2>2, <2>3 DEF Good, SockType
<1>5. QED
  BY <1>2, <1>3, <1>4

(* "secure" writes what has waited for the connection.                       *)
LEMMA DrainGood ==
    ASSUME NEW early \in BOOLEAN, NEW w, Good(w, early)
    PROVE  Good(drainConnectQueue(w), early)
<1>1. /\ w \in WorldType /\ w.s \in SockType /\ w.c \in SslType
      /\ Handles(w) /\ Queues(w) /\ Order(w, early)
  BY DEF Good, Sound, WorldType
<1>2. CASE ~w.s.drainOnSecure
  BY <1>2 DEF drainConnectQueue
<1>3. CASE w.s.drainOnSecure /\ w.s.destroyed
  <2> DEFINE x == [w EXCEPT !.crashed = TRUE]
  <2>1. drainConnectQueue(w) = x /\ x \in WorldType /\ x.s = w.s /\ x.c = w.c
    BY <1>1, <1>3 DEF drainConnectQueue, WorldType
  <2> HIDE DEF x
  <2>2. QED
    BY <2>1 DEF Good, Sound, Handles, Queues, Order, Waiting
<1>4. CASE w.s.drainOnSecure /\ ~w.s.destroyed
  <2> DEFINE q == w.s._connectQueue
             e == [w EXCEPT !.s._connectQueue = <<>>, !.s.drainOnSecure = FALSE]
             first == _write(e, Head(q))
             d == [first EXCEPT !.s._writeQueue = @ \o Tail(q)]
  <2>1. q \in Seq(Chunk) /\ q # <<>>
    BY <1>1, <1>4 DEF SockType, Queues
  <2>2. Head(q) \in Chunk /\ Tail(q) \in Seq(Chunk)
    BY <2>1
  <2>3. drainConnectQueue(w) = d
    BY <1>4 DEF drainConnectQueue
  <2>4. /\ e \in WorldType /\ e.c = w.c
        /\ e.s = [w.s EXCEPT !._connectQueue = <<>>, !.drainOnSecure = FALSE]
    <3>1. <<>> \in Seq(Chunk)
      OBVIOUS
    <3>2. QED
      BY <1>1, <3>1 DEF WorldType, SockType
  <2>5. /\ Good(e, early) /\ ~e.s.drainOnSecure /\ ~e.s.destroyed /\ e.s._handle
        /\ e.c.shutdown => early
    <3> HIDE DEF e
    <3>1. QED
      BY <1>1, <1>4, <2>4 DEF Good, Sound, SockType, Handles, Queues, Order, Waiting
  <2>6. Good(first, early) /\ first.c.writing # None
    <3> HIDE DEF e, q
    <3>1. QED
      BY <2>2, <2>5, WriteGood DEF Good
  <2>7. /\ d \in WorldType /\ d.c = first.c
        /\ d.s = [first.s EXCEPT !._writeQueue = @ \o Tail(q)]
    <3> HIDE DEF first, q
    <3>1. first \in WorldType
      BY <2>6 DEF Good, Sound
    <3>2. first.s._writeQueue \o Tail(q) \in Seq(Chunk)
      BY <3>1, <2>2 DEF WorldType, SockType
    <3>3. QED
      BY <3>1, <3>2 DEF WorldType, SockType
  <2>8. Good(d, early)
    <3> HIDE DEF first, q, d
    <3>1. QED
      BY <2>6, <2>7
         DEF Good, Sound, WorldType, SockType, Handles, Queues, Order, Waiting
  <2>9. QED
    BY <2>3, <2>8
<1>5. QED
  BY <1>2, <1>3, <1>4
(* The count of Lua's writes does not matter to Good.                        *)
LEMMA CountGood ==
    ASSUME NEW early \in BOOLEAN, NEW w, Good(w, early), NEW n \in Int
    PROVE  LET d == [w EXCEPT !.s._pendingWriteReqs = n]
           IN Good(d, early) /\ d.s.drainOnSecure = w.s.drainOnSecure
BY DEF Good, Sound, WorldType, SockType, Handles, Queues, Order, Waiting

(* afterWrite, called when a write has ended, takes the next chunk.          *)
LEMMA AfterWriteGood ==
    ASSUME NEW early \in BOOLEAN, NEW w, Sound(w, early), NEW ok \in BOOLEAN,
           w.s.drainOnSecure => early,
           w.c.shutdown => early \/ w.s.destroyed
    PROVE  /\ Good(afterWrite(w, ok), early)
           /\ afterWrite(w, ok).s.drainOnSecure = w.s.drainOnSecure
<1> DEFINE q == w.s._writeQueue
           v == [w EXCEPT !.s._writeQueue = Tail(q)]
           next == IF q = <<>> THEN w ELSE _write(v, Head(q))
           done == [next EXCEPT !.s._pendingWriteReqs = @ - 1]
<1>1. w \in WorldType /\ w.s \in SockType /\ w.c \in SslType /\ q \in Seq(Chunk)
  BY DEF Sound, WorldType, SockType
<1>2. CASE w.s.destroyed
  BY <1>2 DEF afterWrite, Good, Waiting
<1>3. CASE ~w.s.destroyed /\ ~ok
  BY <1>3, DestroyGood DEF afterWrite
<1>4. CASE ~w.s.destroyed /\ ok
  <2>1. Good(next, early) /\ next.s.drainOnSecure = w.s.drainOnSecure
    <3>1. CASE q = <<>>
      BY <3>1 DEF Good, Waiting
    <3>2. CASE q # <<>>
      <4>1. Head(q) \in Chunk /\ Tail(q) \in Seq(Chunk)
        BY <1>1, <3>2
      <4>2. /\ v \in WorldType /\ v.c = w.c
            /\ v.s = [w.s EXCEPT !._writeQueue = Tail(q)]
        <5> HIDE DEF q
        <5>1. QED
          BY <1>1, <4>1 DEF WorldType, SockType
      <4>3. /\ Sound(v, early) /\ v.s.drainOnSecure = w.s.drainOnSecure
            /\ v.s.destroyed = w.s.destroyed
        <5> HIDE DEF v, q
        <5>1. QED
          BY <1>1, <4>2 DEF Sound, SockType, Handles, Queues, Order
      <4>4. LET u == _write(v, Head(q))
            IN Good(u, early) /\ u.s.drainOnSecure = v.s.drainOnSecure
        <5> HIDE DEF v, q
        <5>1. QED
          BY <4>1, <4>2, <4>3, WriteGood
      <4>5. QED
        BY <3>2, <4>3, <4>4
    <3>3. QED
      BY <3>1, <3>2
  <2> HIDE DEF next
  <2>2. next.s._pendingWriteReqs - 1 \in Int
    BY <2>1 DEF Good, Sound, WorldType, SockType
  <2>3. Good(done, early) /\ done.s.drainOnSecure = w.s.drainOnSecure
    BY <2>1, <2>2, CountGood
  <2>4. \/ afterWrite(w, ok) = Destroy(done)
        \/ afterWrite(w, ok) = done
    BY <1>4 DEF afterWrite, next
  <2> HIDE DEF done
  <2>5. QED
    BY <2>3, <2>4, DestroyGood DEF Good
<1>5. QED
  BY <1>2, <1>3, <1>4

(* onread, called with data or with the end of the stream.                   *)
LEMMA OnReadGood ==
    ASSUME NEW early \in BOOLEAN, NEW w, Good(w, early), NEW data \in BOOLEAN
    PROVE  Good(onread(w, data), early)
<1> DEFINE e == [w EXCEPT !.s.readable = FALSE]
           d == IF w.s.writable THEN e ELSE Destroy(e)
<1>1. Good(e, early)
  BY DEF Good, Sound, WorldType, SockType, Handles, Queues, Order, Waiting
<1>2. Good(d, early)
  <2> HIDE DEF e
  <2>1. QED
    BY <1>1, DestroyGood DEF Good
<1>3. \/ onread(w, data) = w \/ onread(w, data) = resume(w)
      \/ onread(w, data) = d \/ onread(w, data) = finish(d)
  BY DEF onread
<1> HIDE DEF d
<1>4. QED
  BY <1>2, <1>3, ResumeGood, FinishGood

(* The delayed close and the delayed shutdown, at the end of the handlers.   *)
LEMMA DelayedGood ==
    ASSUME NEW early \in BOOLEAN, NEW w, Good(w, early)
    PROVE  /\ Good([w EXCEPT !.c = DelayedClose(@)], early)
           /\ (w.s.drainOnSecure => early) =>
                 Good([w EXCEPT !.c = DelayedClose(DelayedShutdown(@))], early)
<1>1. w \in WorldType /\ w.s \in SockType /\ w.c \in SslType
  BY DEF Good, Sound, WorldType
<1>2. ASSUME NEW v, Good(v, early)
      PROVE  Good([v EXCEPT !.c = DelayedClose(@)], early)
  <2> DEFINE d == [v EXCEPT !.c = DelayedClose(@)]
  <2>1. /\ DelayedClose(v.c) \in SslType
        /\ DelayedClose(v.c).writing = v.c.writing
        /\ DelayedClose(v.c).shutdown = v.c.shutdown
        /\ DelayedClose(v.c).m_shutdown_pending = v.c.m_shutdown_pending
        /\ DelayedClose(v.c).m_close_pending = v.c.m_close_pending
        /\ DelayedClose(v.c).open = v.c.open \/ (v.c.m_close_pending /\ v.c.writing = None)
    BY <1>2 DEF Good, Sound, WorldType, SslType, DelayedClose
  <2>2. d \in WorldType /\ d.s = v.s /\ d.c = DelayedClose(v.c)
    <3>1. v \in WorldType
      BY <1>2 DEF Good, Sound
    <3>2. QED
      BY <2>1, <3>1 DEF WorldType
  <2> HIDE DEF d
  <2>3. Good(d, early)
    BY <1>2, <2>1, <2>2 DEF Good, Sound, Handles, Queues, Order, Waiting
  <2>4. QED
    BY <2>3 DEF d
<1>3. ASSUME w.s.drainOnSecure => early
      PROVE  Good([w EXCEPT !.c = DelayedClose(DelayedShutdown(@))], early)
  <2> DEFINE v == [w EXCEPT !.c = DelayedShutdown(@)]
  <2>1. DelayedShutdown(w.c) \in SslType
    BY <1>1 DEF SslType, DelayedShutdown
  <2>2. v \in WorldType /\ v.s = w.s /\ v.c = DelayedShutdown(w.c)
    BY <1>1, <2>1 DEF WorldType
  <2>3. [w EXCEPT !.c = DelayedClose(DelayedShutdown(@))] = [v EXCEPT !.c = DelayedClose(@)]
    BY <1>1, <2>1 DEF WorldType
  <2> HIDE DEF v
  <2>4. Good(v, early)
    BY <1>1, <1>3, <2>2
       DEF Good, Sound, SslType, Handles, Queues, Order, Waiting, DelayedShutdown
  <2>5. QED
    BY <1>2, <2>3, <2>4
<1>4. QED
  BY <1>2, <1>3
------------------------------------------------------------------------------
(* The initial states and the actions.                                       *)

(* In the initial states the socket waits for the handshake.                 *)
LEMMA InitGood == Init => IInv
<1> SUFFICES ASSUME Init PROVE IInv
  OBVIOUS
<1>1. PICK queued \in 0..MaxChunks, finished \in BOOLEAN, halfOpen \in BOOLEAN :
        /\ sock = [_handle |-> TRUE, readable |-> TRUE,
                   writable |-> ~finished, destroyed |-> FALSE,
                   secureEstablished |-> FALSE, destroySoon |-> FALSE,
                   _connectQueue |-> [k \in 1..queued |-> k],
                   drainOnSecure |-> queued > 0,
                   _writeQueue |-> <<>>, _pendingWriteReqs |-> 0,
                   allowHalfOpen |-> halfOpen]
        /\ ssl = [open |-> TRUE, writing |-> None, m_pending_reads |-> 0,
                  handshake |-> IF finished THEN "none" ELSE "pending",
                  m_shutdown_pending |-> finished, m_close_pending |-> FALSE,
                  shutdown |-> FALSE]
        /\ hist = [chunks |-> queued, inputs |-> 0, early |-> FALSE]
  BY DEF Init
<1>2. queued \in Nat
  BY <1>1, BoundsAssumption
<1> DEFINE q == [k \in 1..queued |-> k]
<1>3. q \in Seq(Chunk) /\ (q = <<>> <=> ~(queued > 0))
  <2>1. q \in [1..queued -> Chunk]
    BY <1>2 DEF Chunk, None
  <2>2. q \in Seq(Chunk) /\ Len(q) = queued
    BY <1>2, <2>1
  <2> HIDE DEF q
  <2>3. QED
    BY <1>2, <2>2
<1>4. <<>> \in Seq(Chunk)
  OBVIOUS
<1>5. /\ sock._connectQueue = q /\ sock.drainOnSecure = (queued > 0)
      /\ sock.writable = ~finished /\ sock._handle /\ ~sock.destroyed
      /\ sock._writeQueue = <<>>
  BY <1>1
<1>6. sock \in SockType
  <2> HIDE DEF q
  <2>1. (queued > 0) \in BOOLEAN /\ (~finished) \in BOOLEAN /\ 0 \in Int
    OBVIOUS
  <2>2. sock = [_handle |-> TRUE, readable |-> TRUE,
                   writable |-> ~finished, destroyed |-> FALSE,
                   secureEstablished |-> FALSE, destroySoon |-> FALSE,
                   _connectQueue |-> q,
                   drainOnSecure |-> queued > 0,
                   _writeQueue |-> <<>>, _pendingWriteReqs |-> 0,
                   allowHalfOpen |-> halfOpen]
    BY <1>1 DEF q
  <2>3. QED
    BY <1>3, <1>4, <2>1, <2>2 DEF SockType
<1>7. /\ ssl \in SslType /\ ssl.open /\ ssl.writing = None /\ ~ssl.m_close_pending
      /\ ssl.m_shutdown_pending = finished /\ ~ssl.shutdown
  BY <1>1 DEF SslType, None
<1>8. HistType
  BY <1>1, <1>2 DEF HistType
<1>9. Good(World, hist.early)
  <2>1. crashed \in BOOLEAN /\ hist.early \in BOOLEAN
    BY <1>8 DEF Init, HistType
  <2>2. World \in WorldType /\ World.s = sock /\ World.c = ssl
    BY <1>6, <1>7, <2>1 DEF World, WorldType
  <2> HIDE DEF q
  <2>3. QED
    BY <1>3, <1>5, <1>7, <2>2 DEF Good, Sound, Handles, Queues, Order, Waiting
<1>10. QED
  BY <1>8, <1>9 DEF IInv

(* An action keeps IInv if the world that it leaves is Good.                 *)
LEMMA ApplyGood ==
    ASSUME NEW w, Good(w, hist.early'), Apply(w), HistType'
    PROVE  IInv'
<1>1. World' = [s |-> w.s, c |-> w.c, crashed |-> w.crashed]
  BY DEF Apply, World
<1>2. World' = w
  BY <1>1 DEF Good, Sound, WorldType
<1>3. QED
  BY <1>2 DEF IInv

(* The end of the handshake, or its failure.                                 *)
LEMMA HandshakeKeepsIInv == IInv /\ HandleHandshake => IInv'
<1> SUFFICES ASSUME IInv, HandleHandshake PROVE IInv'
  OBVIOUS
<1>1. PICK outcome \in {"done", "failed"} :
        Apply(resume(drainConnectQueue(
              [World EXCEPT !.s.secureEstablished = TRUE, !.c.handshake = outcome])))
  BY DEF HandleHandshake
<1> DEFINE w == [World EXCEPT !.s.secureEstablished = TRUE, !.c.handshake = outcome]
<1>2. Good(w, hist.early)
  <2>1. World \in WorldType
    BY DEF IInv, Good, Sound
  <2>2. /\ w.s = [World.s EXCEPT !.secureEstablished = TRUE]
        /\ w.c = [World.c EXCEPT !.handshake = outcome]
        /\ w \in WorldType
    <3> HIDE DEF World
    <3>1. QED
      BY <2>1 DEF WorldType, SockType, SslType
  <2> HIDE DEF w
  <2>3. QED
    BY <2>1, <2>2
       DEF IInv, Good, Sound, WorldType, SockType, SslType, Handles, Queues, Order, Waiting
<1> HIDE DEF w
<1>3. hist' = hist /\ hist.early \in BOOLEAN /\ HistType
  BY DEF HandleHandshake, IInv, HistType
<1>4. Good(resume(drainConnectQueue(w)), hist.early)
  BY <1>2, <1>3, DrainGood, ResumeGood
<1>5. QED
  BY <1>1, <1>3, <1>4, ApplyGood DEF w, HistType

(* Between the end of a write and the start of the next only Sound holds.    *)
LEMMA WriteEndKeepsIInv == IInv /\ HandleWrite => IInv'
<1> SUFFICES ASSUME IInv, HandleWrite PROVE IInv'
  OBVIOUS
<1> DEFINE e == [World EXCEPT !.c.writing = None]
           after(ok) == afterWrite(e, ok)
           end(ok) == [after(ok) EXCEPT !.c = DelayedClose(DelayedShutdown(@))]
<1>1. PICK ok \in BOOLEAN : Apply(end(ok))
  BY DEF HandleWrite
<1>2. /\ World \in WorldType /\ World.s = sock /\ World.c = ssl
      /\ hist' = hist /\ hist.early \in BOOLEAN /\ HistType
      /\ ssl.writing # None
  BY DEF HandleWrite, IInv, Good, Sound, World, HistType
<1>3. /\ Sound(e, hist.early)
      /\ e.s.drainOnSecure => hist.early
      /\ e.c.shutdown => hist.early \/ e.s.destroyed
  <2>1. e \in WorldType /\ e.s = sock /\ e.c = [ssl EXCEPT !.writing = None]
    <3> HIDE DEF World
    <3>1. QED
      BY <1>2 DEF WorldType, SslType, None
  <2> HIDE DEF e
  <2>2. QED
    BY <1>2, <2>1 DEF IInv, Good, Sound, WorldType, SslType, Handles, Queues, Order
<1> HIDE DEF e
<1>4. Good(after(ok), hist.early) /\ (after(ok).s.drainOnSecure => hist.early)
  BY <1>2, <1>3, AfterWriteGood
<1> HIDE DEF after
<1>5. Good(end(ok), hist.early)
  BY <1>2, <1>4, DelayedGood
<1>6. QED
  BY <1>1, <1>2, <1>5, ApplyGood DEF HistType

(* The end of a read, with data, the end of the stream or an error.          *)
LEMMA ReadEndKeepsIInv == IInv /\ (HandleData \/ HandleEnd) => IInv'
<1> SUFFICES ASSUME IInv, HandleData \/ HandleEnd PROVE IInv'
  OBVIOUS
<1> DEFINE e == [World EXCEPT !.c.m_pending_reads = @ - 1]
           w(data) == onread(e, data)
           end(data) == [w(data) EXCEPT !.c = DelayedClose(@)]
<1>1. PICK data \in BOOLEAN : Apply(end(data))
  BY DEF HandleData, HandleEnd, HandleRead
<1>2. HistType' /\ hist'.early = hist.early /\ hist.early \in BOOLEAN
  <2>1. hist' = hist \/ hist' = [hist EXCEPT !.inputs = @ + 1]
    BY DEF HandleData, HandleEnd
  <2>2. hist \in [chunks : Nat, inputs : Nat, early : BOOLEAN]
    BY DEF IInv, HistType
  <2> HIDE DEF e, w, end
  <2>3. QED
    BY <2>1, <2>2 DEF HistType
<1>3. Good(e, hist.early)
  <2>1. World \in WorldType
    BY DEF IInv, Good, Sound
  <2>2. /\ e \in WorldType /\ e.s = World.s
        /\ e.c = [World.c EXCEPT !.m_pending_reads = @ - 1]
    <3> HIDE DEF World
    <3>1. QED
      BY <2>1 DEF WorldType, SslType
  <2> HIDE DEF e
  <2>3. QED
    BY <2>1, <2>2
       DEF IInv, Good, Sound, WorldType, SslType, Handles, Queues, Order, Waiting
<1> HIDE DEF e
<1>4. Good(w(data), hist.early)
  BY <1>2, <1>3, OnReadGood
<1> HIDE DEF w
<1>5. Good(end(data), hist.early)
  BY <1>2, <1>4, DelayedGood
<1>6. QED
  BY <1>1, <1>2, <1>5, ApplyGood

(* A write that comes while data from before the connection is waiting sets  *)
(* `early'; no write comes after the shutdown, because finish ends them.     *)
LEMMA WriteKeepsIInv == IInv /\ Write => IInv'
<1> SUFFICES ASSUME IInv, Write PROVE IInv'
  OBVIOUS
<1>1. /\ hist.chunks + 1 \in Chunk
      /\ hist' = [hist EXCEPT !.chunks = @ + 1, !.early = @ \/ sock.drainOnSecure]
      /\ Apply(_write(World, hist.chunks + 1)) /\ sock.writable
      /\ World.s = sock /\ World.c = ssl /\ sock.drainOnSecure \in BOOLEAN
  BY DEF Write, IInv, HistType, Chunk, None, World, Good, Sound, WorldType, SockType
<1>2. /\ HistType' /\ hist'.early \in BOOLEAN
      /\ hist.early => hist'.early
      /\ sock.drainOnSecure => hist'.early
  <2>1. hist \in [chunks : Nat, inputs : Nat, early : BOOLEAN]
    BY DEF IInv, HistType
  <2>2. hist' = [hist EXCEPT !.chunks = @ + 1, !.early = @ \/ sock.drainOnSecure]
    BY <1>1
  <2>3. PICK b \in BOOLEAN : b = (hist.early \/ sock.drainOnSecure)
    OBVIOUS
  <2>4. hist' = [hist EXCEPT !.chunks = @ + 1, !.early = b]
    BY <2>2, <2>3, Zenon
  <2>5. PICK n \in Nat : n = hist.chunks + 1
    BY <2>1
  <2>6. hist' = [hist EXCEPT !.chunks = n, !.early = b]
    BY <2>4, <2>5, Zenon
  <2>7. /\ hist'.early = b /\ hist'.early \in BOOLEAN
        /\ hist' \in [chunks : Nat, inputs : Nat, early : BOOLEAN]
    BY <2>1, <2>6
  <2>8. QED
    BY <2>3, <2>7 DEF HistType
<1>3. Good(World, hist'.early) /\ ~ssl.shutdown
  BY <1>1, <1>2 DEF IInv, Good, Sound, Queues, Order
<1>4. Good(_write(World, hist.chunks + 1), hist'.early)
  <2> HIDE DEF World
  <2>1. QED
    BY <1>1, <1>2, <1>3, WriteGood DEF Good
<1>5. QED
  BY <1>1, <1>2, <1>4, ApplyGood

(* The other calls of the application.                                       *)
LEMMA AppKeepsIInv == IInv /\ (Finish \/ AppDestroys) => IInv'
<1> SUFFICES ASSUME IInv, Finish \/ AppDestroys PROVE IInv'
  OBVIOUS
<1>1. hist' = hist /\ HistType /\ HistType' /\ hist.early \in BOOLEAN
  BY DEF Finish, AppDestroys, IInv, HistType
<1>2. \/ Apply(finish(World)) \/ Apply(Destroy(World)) \/ Apply(DestroySoon(World))
  BY DEF Finish, AppDestroys
<1>3. /\ Good(finish(World), hist.early) /\ Good(Destroy(World), hist.early)
      /\ Good(DestroySoon(World), hist.early)
  BY <1>1, FinishGood, DestroyGood, DestroySoonGood DEF IInv, Good
<1>4. QED
  BY <1>1, <1>2, <1>3, ApplyGood

(* IInv is an invariant of the secure socket (crypto.lua on net.lua, and     *)
(* luanode_crypto.cpp).                                                      *)
THEOREM SecureInvariance == Spec => []IInv
<1>1. ASSUME IInv, [Next]_vars PROVE IInv'
  <2>1. CASE Next
    BY <1>1, <2>1, HandshakeKeepsIInv, WriteEndKeepsIInv, ReadEndKeepsIInv,
       WriteKeepsIInv, AppKeepsIInv DEF Next
  <2>2. CASE UNCHANGED vars
    BY <1>1, <2>2 DEF vars, IInv, World, HistType
  <2>3. QED
    BY <1>1, <2>1, <2>2
<1>2. QED
  BY <1>1, InitGood, PTL DEF Spec

------------------------------------------------------------------------------
(* The program's own close, delayed or not, never comes under a write        *)
(* (m_close_pending in Close, HandleWrite and HandleReadSome of              *)
(* luanode_crypto.cpp).                                                      *)
THEOREM WritesNotCutOff == Spec => []NothingCutOff
<1>1. IInv => NothingCutOff
  BY DEF IInv, Good, Sound, Handles, World, NothingCutOff
<1>2. QED
  BY <1>1, SecureInvariance, PTL

(* The connection is shut down behind the data (the delayed shutdown of      *)
(* HandleWrite in luanode_crypto.cpp, against the queues of net.lua).        *)
THEOREM DataBeforeShutdown == Spec => []ShutdownBehindData
<1>1. IInv => ShutdownBehindData
  BY DEF IInv, Good, Sound, Queues, Order, Waiting, World, ShutdownBehindData
<1>2. QED
  BY <1>1, SecureInvariance, PTL
=============================================================================
