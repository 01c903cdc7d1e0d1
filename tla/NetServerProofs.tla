--------------------------- MODULE NetServerProofs ---------------------------
(***************************************************************************)
(* Proofs about NetServer, for every limit and every bound.                 *)
(*                                                                          *)
(* CountInv is the inductive invariant of the connections.  That of the     *)
(* accept operations, AcceptInv, says what keeps the acceptor in use        *)
(* accepting (Chained), that there is nothing else while listen was called  *)
(* once (Single), and what both rest on: the acceptors that listen has not  *)
(* created are idle, and an open one has no aborted accept to deliver.      *)
(***************************************************************************)
EXTENDS NetServer, FiniteSetTheorems, SequenceTheorems, TLAPS

(* The history is a record with the fields of NoHistory.                     *)
HistOK ==
    hist \in [listens : Nat, clients : Nat, accepted : Nat, failures : Nat,
              givenUp : BOOLEAN]

------------------------------------------------------------------------------
(* Acceptors: how many accepts one has pending or to deliver.                *)
Size(acc, a) == acc[a].pending + Len(acc[a].ready)

Idle(acc, a) == ~acc[a].open /\ acc[a].pending = 0 /\ acc[a].ready = <<>>

AccOK(acc) ==
    acc \in [Acceptors -> [open : BOOLEAN, pending : Nat, ready : Seq(Results)]]

(* An open acceptor has no aborted accept to deliver.                        *)
Clean(acc) ==
    \A a \in Acceptors : acc[a].open =>
        \A i \in 1..Len(acc[a].ready) : acc[a].ready[i] # "aborted"

(* acc became r, and only acceptor a was changed, by n accepts.              *)
Changed(acc, r, a, n) ==
    /\ AccOK(r) /\ Clean(r)
    /\ r[a].open = acc[a].open
    /\ Size(acc, a) \in Nat /\ Size(r, a) = Size(acc, a) + n
    /\ \A b \in Acceptors \ {a} : r[b] = acc[b]

(* The acceptor a with other numbers.                                        *)
Put(acc, a, p, q) ==
    [acc EXCEPT ![a] = [open |-> acc[a].open, pending |-> p, ready |-> q]]

(* The fields of an acceptor.                                                *)
LEMMA AcceptorFields ==
    ASSUME NEW acc, AccOK(acc), NEW a \in Acceptors
    PROVE  /\ acc[a] = [open |-> acc[a].open, pending |-> acc[a].pending,
                        ready |-> acc[a].ready]
           /\ acc[a].open \in BOOLEAN /\ acc[a].pending \in Nat
           /\ acc[a].ready \in Seq(Results)
           /\ Len(acc[a].ready) \in Nat
           /\ acc = [b \in Acceptors |-> acc[b]]
  BY DEF AccOK

(* A record with other fields.                                               *)
LEMMA FieldsChange ==
    ASSUME NEW x, x = [open |-> x.open, pending |-> x.pending, ready |-> x.ready],
           NEW p, NEW q
    PROVE  /\ [x EXCEPT !.pending = p] =
                 [open |-> x.open, pending |-> p, ready |-> x.ready]
           /\ [x EXCEPT !.ready = q] =
                 [open |-> x.open, pending |-> x.pending, ready |-> q]
<1> DEFINE o == x.open
           pp == x.pending
           qq == x.ready
<1>1. x = [open |-> o, pending |-> pp, ready |-> qq]
  OBVIOUS
<1> HIDE DEF o, pp, qq
<1>2. [x EXCEPT !.pending = p] = [open |-> o, pending |-> p, ready |-> qq]
  BY <1>1
<1>3. [x EXCEPT !.ready = q] = [open |-> o, pending |-> pp, ready |-> q]
  BY <1>1
<1>4. QED
  BY <1>2, <1>3 DEF o, pp, qq

(* Changing an acceptor's counts.                                            *)
LEMMA PutChanges ==
    ASSUME NEW acc, AccOK(acc), Clean(acc), NEW a \in Acceptors,
           NEW p \in Nat, NEW q \in Seq(Results),
           acc[a].open => \A i \in 1..Len(q) : q[i] # "aborted",
           NEW n \in Int, p + Len(q) = Size(acc, a) + n
    PROVE  Changed(acc, Put(acc, a, p, q), a, n)
<1> DEFINE x == [open |-> acc[a].open, pending |-> p, ready |-> q]
           r == Put(acc, a, p, q)
<1>1. /\ x \in [open : BOOLEAN, pending : Nat, ready : Seq(Results)]
      /\ x.open = acc[a].open /\ x.pending = p /\ x.ready = q
      /\ Size(acc, a) \in Nat
  <2>1. /\ acc[a].open \in BOOLEAN /\ acc[a].pending \in Nat
        /\ Len(acc[a].ready) \in Nat
    BY AcceptorFields
  <2>2. QED
    BY <2>1 DEF Size
<1>2. r = [acc EXCEPT ![a] = x]
  BY DEF Put
<1> HIDE DEF x, r
<1>3. AccOK(r) /\ r[a] = x /\ \A b \in Acceptors \ {a} : r[b] = acc[b]
  BY <1>1, <1>2 DEF AccOK
<1>4. Clean(r)
  BY <1>1, <1>3 DEF Clean
<1>5. Size(r, a) = Size(acc, a) + n
  BY <1>1, <1>3 DEF Size
<1>6. QED
  BY <1>1, <1>3, <1>4, <1>5 DEF Changed, r

(* Acceptor::Accept adds an operation, or an error when it is closed.        *)
LEMMA AcceptChanges ==
    ASSUME NEW acc, AccOK(acc), Clean(acc), NEW a \in Acceptors
    PROVE  Changed(acc, Accept(acc, a), a, 1)
<1> DEFINE x == acc[a]
<1>1. /\ x = [open |-> x.open, pending |-> x.pending, ready |-> x.ready]
      /\ x.open \in BOOLEAN /\ x.pending \in Nat /\ x.ready \in Seq(Results)
      /\ Len(x.ready) \in Nat /\ acc = [b \in Acceptors |-> acc[b]]
  BY AcceptorFields
<1>2. CASE x.open
  <2>1. [x EXCEPT !.pending = @ + 1] =
            [open |-> x.open, pending |-> x.pending + 1, ready |-> x.ready]
    BY <1>1, FieldsChange
  <2>2. Accept(acc, a) = Put(acc, a, x.pending + 1, x.ready)
    BY <1>1, <1>2, <2>1 DEF Accept, Put
  <2>3. /\ x.pending + 1 \in Nat
        /\ \A i \in 1..Len(x.ready) : x.ready[i] # "aborted"
        /\ x.pending + 1 + Len(x.ready) = Size(acc, a) + 1
    BY <1>1, <1>2 DEF Clean, Size
  <2>4. QED
    BY <1>1, <2>2, <2>3, PutChanges
<1>3. CASE ~x.open
  <2> DEFINE q == Append(x.ready, "other")
  <2>1. [x EXCEPT !.ready = Append(@, "other")] =
            [open |-> x.open, pending |-> x.pending, ready |-> q]
    BY <1>1, FieldsChange
  <2>2. Accept(acc, a) = Put(acc, a, x.pending, q)
    BY <1>1, <1>3, <2>1 DEF Accept, Put
  <2>3. q \in Seq(Results) /\ Len(q) = Len(x.ready) + 1
    BY <1>1 DEF Results
  <2> HIDE DEF q
  <2>4. x.pending + Len(q) = Size(acc, a) + 1
    BY <1>1, <2>3 DEF Size
  <2>5. QED
    BY <1>1, <1>3, <2>2, <2>3, <2>4, PutChanges
<1>4. QED
  BY <1>2, <1>3

(* The first result is taken out to be delivered.                            *)
LEMMA DeliveryChanges ==
    ASSUME NEW acc, AccOK(acc), Clean(acc), NEW a \in Acceptors,
           acc[a].ready # <<>>
    PROVE  /\ Changed(acc, [acc EXCEPT ![a].ready = Tail(@)], a, -1)
           /\ Size(acc, a) > 0
           /\ acc[a].open => Head(acc[a].ready) # "aborted"
<1> DEFINE x == acc[a]
           s == x.ready
           q == Tail(s)
<1>1. /\ x = [open |-> x.open, pending |-> x.pending, ready |-> x.ready]
      /\ x.open \in BOOLEAN /\ x.pending \in Nat /\ x.ready \in Seq(Results)
      /\ Len(x.ready) \in Nat /\ acc = [b \in Acceptors |-> acc[b]]
  BY AcceptorFields
<1>2. /\ q \in Seq(Results) /\ Len(q) = Len(s) - 1 /\ Len(s) \in Nat \ {0}
      /\ \A i \in 1..Len(q) : q[i] = s[i + 1]
      /\ Head(s) = s[1]
  <2>1. Len(s) # 0
    BY <1>1
  <2>2. QED
    BY <1>1, <2>1, HeadTailProperties
<1>3. [x EXCEPT !.ready = Tail(@)] =
          [open |-> x.open, pending |-> x.pending, ready |-> q]
  BY <1>1, FieldsChange
<1>4. [acc EXCEPT ![a].ready = Tail(@)] = Put(acc, a, x.pending, q)
  BY <1>1, <1>3 DEF Put
<1> HIDE DEF q
<1>5. x.open => \A i \in 1..Len(s) : s[i] # "aborted"
  BY DEF Clean
<1>6. x.open => Head(s) # "aborted" /\ \A i \in 1..Len(q) : q[i] # "aborted"
  <2>1. \A i \in 1..Len(q) : i + 1 \in 1..Len(s)
    BY <1>2
  <2>2. 1 \in 1..Len(s)
    BY <1>2
  <2> HIDE DEF s
  <2>3. x.open => Head(s) # "aborted"
    BY <1>2, <1>5, <2>2, Zenon
  <2>4. ASSUME x.open, NEW i \in 1..Len(q) PROVE q[i] # "aborted"
    <3>1. q[i] = s[i + 1] /\ i + 1 \in 1..Len(s)
      BY <1>2, <2>1
    <3>2. QED
      BY <1>5, <2>4, <3>1, Zenon
  <2>5. QED
    BY <2>3, <2>4, Zenon
<1>7. x.pending + Len(q) = Size(acc, a) + (-1) /\ Size(acc, a) > 0
  BY <1>1, <1>2 DEF Size
<1> HIDE DEF x
<1>8. QED
  BY <1>1, <1>2, <1>4, <1>6, <1>7, PutChanges DEF x

(* The kernel answers a pending accept.                                      *)
LEMMA AnswerChanges ==
    ASSUME NEW acc, AccOK(acc), Clean(acc), NEW a \in Acceptors,
           acc[a].pending > 0, NEW result \in Outcomes
    PROVE  Changed(acc, [acc EXCEPT ![a].pending = @ - 1,
                                    ![a].ready = Append(@, result)], a, 0)
<1> DEFINE x == acc[a]
           s == x.ready
           q == Append(s, result)
<1>1. /\ x = [open |-> x.open, pending |-> x.pending, ready |-> x.ready]
      /\ x.open \in BOOLEAN /\ x.pending \in Nat /\ x.ready \in Seq(Results)
      /\ Len(x.ready) \in Nat /\ acc = [b \in Acceptors |-> acc[b]]
  BY AcceptorFields
<1>2. /\ q \in Seq(Results) /\ Len(q) = Len(s) + 1
      /\ \A i \in 1..Len(q) : (i \in 1..Len(s) /\ q[i] = s[i]) \/ q[i] = result
      /\ result # "aborted"
  BY <1>1 DEF Outcomes, Results
<1>3. [acc EXCEPT ![a].pending = @ - 1, ![a].ready = Append(@, result)]
        = Put(acc, a, x.pending - 1, q)
  <2> DEFINE y == [open |-> x.open, pending |-> x.pending - 1, ready |-> x.ready]
  <2>1. [x EXCEPT !.pending = @ - 1] = y
    BY <1>1, FieldsChange
  <2>2. /\ y = [open |-> y.open, pending |-> y.pending, ready |-> y.ready]
        /\ y.open = x.open /\ y.pending = x.pending - 1
    OBVIOUS
  <2>3. y.ready = x.ready
    OBVIOUS
  <2> HIDE DEF y
  <2>4. [acc EXCEPT ![a].pending = @ - 1, ![a].ready = Append(@, result)]
            = [acc EXCEPT ![a] = [y EXCEPT !.ready = Append(y.ready, result)]]
    BY <1>1, <2>1
  <2>5. [y EXCEPT !.ready = Append(y.ready, result)]
            = [open |-> x.open, pending |-> x.pending - 1, ready |-> q]
    <3>1. [y EXCEPT !.ready = Append(y.ready, result)]
            = [open |-> y.open, pending |-> y.pending,
               ready |-> Append(y.ready, result)]
      BY <2>2, FieldsChange, Zenon
    <3>2. QED
      BY <2>2, <2>3, <3>1, Zenon
  <2>6. QED
    BY <2>4, <2>5, Zenon DEF Put
<1> HIDE DEF q
<1>4. x.open => \A i \in 1..Len(q) : q[i] # "aborted"
  BY <1>2 DEF Clean
<1>5. x.pending - 1 \in Nat /\ x.pending - 1 + Len(q) = Size(acc, a) + 0
  <2>1. Size(acc, a) = x.pending + Len(s) /\ Len(s) \in Nat
    BY <1>1 DEF Size
  <2>2. QED
    BY <1>1, <1>2, <2>1
<1>6. QED
  BY <1>1, <1>2, <1>3, <1>4, <1>5, PutChanges

(* Acceptor::Close aborts what is pending.                                   *)
LEMMA CloseChanges ==
    ASSUME NEW acc, AccOK(acc), Clean(acc), NEW a \in Acceptors,
           NEW r, r = CloseAcceptor(acc, a)
    PROVE  /\ AccOK(r) /\ Clean(r)
           /\ \A b \in Acceptors \ {a} : r[b] = acc[b]
<1> DEFINE x == acc[a]
           s == [i \in 1..x.pending |-> "aborted"]
           q == x.ready \o s
           y == [open |-> FALSE, pending |-> 0, ready |-> q]
<1>1. /\ x.pending \in Nat /\ x.ready \in Seq(Results)
      /\ acc = [b \in Acceptors |-> acc[b]]
  BY AcceptorFields
<1>2. s \in Seq(Results)
  BY <1>1 DEF Results
<1> HIDE DEF s
<1>3. q \in Seq(Results)
  BY <1>1, <1>2, ConcatProperties
<1>4. r = [acc EXCEPT ![a] = y]
  BY DEF CloseAcceptor, s
<1> HIDE DEF q
<1>5. y \in [open : BOOLEAN, pending : Nat, ready : Seq(Results)] /\ ~y.open
  BY <1>3
<1> HIDE DEF y
<1>6. AccOK(r) /\ r[a] = y /\ \A b \in Acceptors \ {a} : r[b] = acc[b]
  BY <1>4, <1>5 DEF AccOK
<1>7. Clean(r)
  BY <1>5, <1>6 DEF Clean
<1>8. QED
  BY <1>6, <1>7

------------------------------------------------------------------------------
(* The queue of nextTick: whether "listening" is in it, once at most.        *)
Names == {"listening", "close", "error"}
Listening(t) == \E i \in 1..Len(t) : t[i] = "listening"
ListeningOnce(t) ==
    \A i, j \in 1..Len(t) : t[i] = "listening" /\ t[j] = "listening" => i = j

(* nextTick appends.                                                         *)
LEMMA TicksAppend ==
    ASSUME NEW t \in Seq(Names), NEW x \in Names
    PROVE  /\ Append(t, x) \in Seq(Names)
           /\ Listening(Append(t, x)) <=> Listening(t) \/ x = "listening"
           /\ ListeningOnce(t) /\ (x = "listening" => ~Listening(t))
                => ListeningOnce(Append(t, x))
<1> DEFINE r == Append(t, x)
<1>1. /\ r \in Seq(Names) /\ Len(r) = Len(t) + 1 /\ Len(t) \in Nat
      /\ \A i \in 1..Len(t) : r[i] = t[i]
      /\ r[Len(t) + 1] = x
  OBVIOUS
<1> HIDE DEF r
<1>2. \A i \in 1..Len(r) : i \in 1..Len(t) \/ i = Len(t) + 1
  BY <1>1
<1>3. 1..Len(t) \subseteq 1..Len(r) /\ Len(t) + 1 \in 1..Len(r)
  BY <1>1
<1>4. Listening(r) <=> Listening(t) \/ x = "listening"
  BY <1>1, <1>2, <1>3 DEF Listening
<1>5. ListeningOnce(t) /\ (x = "listening" => ~Listening(t)) => ListeningOnce(r)
  BY <1>1, <1>2 DEF Listening, ListeningOnce
<1>6. QED
  BY <1>1, <1>4, <1>5 DEF r

(* The loop takes the first.                                                 *)
LEMMA TicksTail ==
    ASSUME NEW t \in Seq(Names), t # <<>>
    PROVE  /\ Tail(t) \in Seq(Names)
           /\ ListeningOnce(t) => ListeningOnce(Tail(t))
           /\ Head(t) # "listening" => (Listening(Tail(t)) <=> Listening(t))
           /\ Head(t) = "listening" =>
                Listening(t) /\ (ListeningOnce(t) => ~Listening(Tail(t)))
<1> DEFINE r == Tail(t)
<1>1. /\ r \in Seq(Names) /\ Len(r) = Len(t) - 1 /\ Len(t) \in Nat \ {0}
      /\ \A i \in 1..Len(r) : r[i] = t[i + 1]
      /\ Head(t) = t[1]
  <2>1. Len(t) # 0
    OBVIOUS
  <2>2. QED
    BY <2>1, HeadTailProperties
<1> HIDE DEF r
<1>2. \A i \in 1..Len(r) : i + 1 \in 1..Len(t) /\ i + 1 # 1
  BY <1>1
<1>3. ListeningOnce(t) => ListeningOnce(r)
  <2> SUFFICES ASSUME ListeningOnce(t), NEW i \in 1..Len(r), NEW j \in 1..Len(r),
                      r[i] = "listening", r[j] = "listening"
               PROVE  i = j
    BY DEF ListeningOnce
  <2>1. i + 1 = j + 1
    BY <1>1, <1>2 DEF ListeningOnce
  <2>2. QED
    BY <2>1
<1>4. Listening(r) => Listening(t)
  BY <1>1, <1>2 DEF Listening
<1>5. Listening(t) /\ t[1] # "listening" => Listening(r)
  <2> SUFFICES ASSUME NEW i \in 1..Len(t), t[i] = "listening",
                      t[1] # "listening"
               PROVE  Listening(r)
    BY DEF Listening
  <2>1. i - 1 \in 1..Len(r) /\ (i - 1) + 1 = i
    BY <1>1
  <2>2. QED
    BY <1>1, <2>1 DEF Listening
<1>6. 1 \in 1..Len(t)
  BY <1>1
<1>7. t[1] = "listening" => Listening(t) /\ (ListeningOnce(t) => ~Listening(r))
  BY <1>1, <1>2, <1>6 DEF Listening, ListeningOnce
<1>8. QED
  BY <1>1, <1>3, <1>4, <1>5, <1>7 DEF r

------------------------------------------------------------------------------
(* The inductive invariant of the accept operations.                         *)

TypeInv ==
    /\ AccOK(acceptors) /\ ticks \in Seq(Names) /\ HistOK
    /\ retries \in Nat /\ frame \in {"none", "connection"}
    /\ lookup \in BOOLEAN /\ crashed \in BOOLEAN
    /\ hist.listens <= MaxListens /\ _handle \in 0..hist.listens
    /\ lookup => _handle = NoHandle /\ hist.listens > 0

(* Acceptors that listen has still to create.                                *)
Fresh(a) == a > hist.listens \/ (lookup /\ a = hist.listens)

HandleInv ==
    /\ Clean(acceptors)
    /\ _handle # NoHandle => acceptors[_handle].open
    /\ \A a \in Acceptors : Fresh(a) => Idle(acceptors, a)

(* What will accept, or is an accept, apart from the "listening" tick.       *)
Work ==
    (IF _handle = NoHandle THEN 0 ELSE Size(acceptors, _handle))
    + retries + (IF frame = "connection" THEN 1 ELSE 0)

(* A server that listens goes on accepting.                                  *)
Chained ==
    _handle # NoHandle /\ ~hist.givenUp /\ ~crashed =>
        Work > 0 \/ Listening(ticks)

(* While listen was called once there is nothing before its lookup ends, and *)
(* one thing at a time after that.                                           *)
Single ==
    /\ hist.listens = 0 \/ (hist.listens = 1 /\ lookup) =>
            Work = 0 /\ ~Listening(ticks)
    /\ hist.listens = 1 /\ _handle # NoHandle =>
            /\ Work <= 1 /\ ListeningOnce(ticks)
            /\ Listening(ticks) => Work = 0

AcceptInv == TypeInv /\ HandleInv /\ Chained /\ Single

(* Acceptors that were open or closed still are, and idle ones are idle.     *)
Kept(acc, r) ==
    /\ AccOK(r) /\ Clean(r)
    /\ \A b \in Acceptors : /\ r[b].open = acc[b].open
                            /\ Idle(acc, b) => r[b] = acc[b]

(* Changing an acceptor that is in use is such a step.                       *)
LEMMA ChangedKept ==
    ASSUME NEW acc, NEW r, NEW a \in Acceptors, NEW n,
           Changed(acc, r, a, n), ~Idle(acc, a)
    PROVE  Kept(acc, r)
  BY DEF Changed, Kept

(* Two changes.                                                              *)
LEMMA ChangedTwice ==
    ASSUME NEW acc, NEW r, NEW s, NEW a \in Acceptors, NEW m \in Int, NEW n \in Int,
           Changed(acc, r, a, m), Changed(r, s, a, n)
    PROVE  Changed(acc, s, a, m + n)
  BY DEF Changed

(* Two such steps.                                                           *)
LEMMA KeptTwice ==
    ASSUME NEW acc, NEW r, NEW s, Kept(acc, r), Kept(r, s)
    PROVE  Kept(acc, s)
<1>1. ASSUME NEW b \in Acceptors
      PROVE  /\ s[b].open = acc[b].open
             /\ Idle(acc, b) => s[b] = acc[b]
  <2>1. Idle(acc, b) => Idle(r, b)
    BY DEF Kept, Idle
  <2>2. QED
    BY <2>1 DEF Kept
<1>2. QED
  BY <1>1 DEF Kept

(* The acceptor in use is one of the acceptors, and open.                    *)
LEMMA HandleOpen ==
    ASSUME AcceptInv, _handle # NoHandle
    PROVE  /\ _handle \in Acceptors /\ acceptors[_handle].open
           /\ ~Idle(acceptors, _handle)
           /\ Size(acceptors, _handle) \in Nat
<1>1. hist.listens \in Nat /\ MaxListens \in Nat
  BY BoundsAssumption DEF AcceptInv, TypeInv, HistOK
<1>2. _handle \in Acceptors /\ acceptors[_handle].open
  BY <1>1 DEF AcceptInv, TypeInv, HandleInv, NoHandle, Acceptors
<1>3. /\ acceptors[_handle].pending \in Nat
      /\ Len(acceptors[_handle].ready) \in Nat
  BY <1>2, AcceptorFields DEF AcceptInv, TypeInv
<1>4. QED
  BY <1>2, <1>3 DEF Idle, Size

(* While listen was called once there is one acceptor to speak of.           *)
LEMMA BusyAcceptor ==
    ASSUME AcceptInv, NEW a \in Acceptors, ~Idle(acceptors, a)
    PROVE  /\ hist.listens # 0 /\ ~(hist.listens = 1 /\ lookup)
           /\ hist.listens = 1 /\ _handle # NoHandle => a = _handle
<1>1. ~Fresh(a) /\ hist.listens \in Nat /\ a \in Nat \ {0}
  BY DEF AcceptInv, HandleInv, TypeInv, HistOK, Acceptors
<1>2. a <= hist.listens /\ ~(lookup /\ a = hist.listens)
  BY <1>1 DEF Fresh
<1>3. _handle \in 0..hist.listens
  BY DEF AcceptInv, TypeInv
<1>4. QED
  BY <1>1, <1>2, <1>3 DEF NoHandle

(* Steps that neither listen nor close keep the types and the acceptors.     *)
LEMMA KeepsHandle ==
    ASSUME AcceptInv, UNCHANGED <<_handle, lookup>>,
           HistOK', hist'.listens = hist.listens,
           Kept(acceptors, acceptors'), ticks' \in Seq(Names),
           retries' \in Nat, frame' \in {"none", "connection"},
           crashed' \in BOOLEAN
    PROVE  TypeInv' /\ HandleInv'
<1>1. TypeInv'
  BY DEF AcceptInv, TypeInv, Kept, NoHandle
<1>2. HandleInv'
  <2>1. _handle # NoHandle => acceptors'[_handle].open
    BY HandleOpen DEF Kept
  <2>2. ASSUME NEW a \in Acceptors, Fresh(a)' PROVE Idle(acceptors', a)
    <3>1. Fresh(a)
      BY <2>2 DEF Fresh
    <3>2. Idle(acceptors, a)
      BY <3>1 DEF AcceptInv, HandleInv
    <3>3. QED
      BY <3>2 DEF Kept, Idle
  <2>3. QED
    BY <2>1, <2>2 DEF HandleInv, Kept, NoHandle
<1>3. QED
  BY <1>1, <1>2

(* Nothing changes for the acceptors.                                        *)
LEMMA KeptSame ==
    ASSUME AcceptInv
    PROVE  Kept(acceptors, acceptors)
  BY DEF AcceptInv, TypeInv, HandleInv, Kept

(* Accept on the acceptor in use, if any.                                    *)
LEMMA AcceptKept ==
    ASSUME AcceptInv, _handle # NoHandle
    PROVE  /\ Kept(acceptors, Accept(acceptors, _handle))
           /\ Size(Accept(acceptors, _handle), _handle)
                = Size(acceptors, _handle) + 1
<1>1. Changed(acceptors, Accept(acceptors, _handle), _handle, 1)
  BY HandleOpen, AcceptChanges DEF AcceptInv, TypeInv, HandleInv
<1>2. QED
  BY <1>1, HandleOpen, ChangedKept DEF Changed

(* A result of acceptor a is taken to be delivered.                          *)
LEMMA RestKept ==
    ASSUME AcceptInv, NEW a \in Acceptors, NEW result, Delivered(a, result)
    PROVE  /\ Kept(acceptors, Rest(a)) /\ Changed(acceptors, Rest(a), a, -1)
           /\ ~Idle(acceptors, a)
           /\ _handle # NoHandle =>
                Size(Rest(a), _handle) =
                    Size(acceptors, _handle) - (IF a = _handle THEN 1 ELSE 0)
           /\ result = "aborted" => a # _handle
<1>1. acceptors[a].ready # <<>> /\ result = Head(acceptors[a].ready)
  BY DEF Delivered
<1>2. ~Idle(acceptors, a)
  BY <1>1 DEF Idle
<1>3. /\ Changed(acceptors, Rest(a), a, -1)
      /\ acceptors[a].open => Head(acceptors[a].ready) # "aborted"
  BY <1>1, DeliveryChanges DEF AcceptInv, TypeInv, HandleInv, Rest
<1>4. Kept(acceptors, Rest(a))
  BY <1>2, <1>3, ChangedKept
<1>5. ASSUME _handle # NoHandle
      PROVE  Size(Rest(a), _handle) =
                Size(acceptors, _handle) - (IF a = _handle THEN 1 ELSE 0)
  <2>1. _handle \in Acceptors /\ Size(acceptors, _handle) \in Nat
    BY <1>5, HandleOpen
  <2>2. CASE a = _handle
    BY <1>3, <2>1, <2>2 DEF Changed
  <2>3. CASE a # _handle
    BY <1>3, <2>1, <2>3 DEF Changed, Size
  <2>4. QED
    BY <2>2, <2>3
<1>6. result = "aborted" => a # _handle
  BY <1>1, <1>3, HandleOpen DEF NoHandle, Acceptors
<1>7. QED
  BY <1>2, <1>3, <1>4, <1>5, <1>6

------------------------------------------------------------------------------
(* The steps.                                                                *)

(* Work is a number.                                                         *)
LEMMA WorkNat ==
    ASSUME AcceptInv
    PROVE  Work \in Nat
  BY HandleOpen DEF AcceptInv, TypeInv, Work

(* Steps that leave the history of listen and accept alone, and the work and *)
(* the "listening" tick as they are.                                         *)
LEMMA SameWork ==
    ASSUME AcceptInv, UNCHANGED <<_handle, lookup>>,
           TypeInv', HandleInv',
           hist'.listens = hist.listens, hist'.givenUp = hist.givenUp,
           crashed' = crashed, Work' = Work,
           Listening(ticks') <=> Listening(ticks),
           ListeningOnce(ticks) => ListeningOnce(ticks')
    PROVE  AcceptInv'
<1>1. Chained' /\ Single'
  BY DEF AcceptInv, Chained, Single, NoHandle
<1>2. QED
  BY <1>1 DEF AcceptInv

(* listen, and its lookup.                                                   *)
LEMMA ListenSteps ==
    ASSUME AcceptInv, Listen \/ ListenLookedUp
    PROVE  AcceptInv'
<1>1. CASE Listen
  <2>1. /\ _handle = NoHandle /\ ~lookup /\ hist.listens < MaxListens
        /\ lookup' = TRUE
        /\ hist' = [hist EXCEPT !.listens = @ + 1, !.givenUp = FALSE]
        /\ UNCHANGED <<_handle, ticks, retries, acceptors, frame, crashed>>
    BY <1>1 DEF Listen, AppActs
  <2>2. HistOK' /\ hist'.listens = hist.listens + 1 /\ hist.listens \in Nat
    <3>1. hist' = [listens |-> hist.listens + 1, clients |-> hist.clients,
                   accepted |-> hist.accepted, failures |-> hist.failures,
                   givenUp |-> FALSE]
      BY <2>1 DEF AcceptInv, TypeInv, HistOK
    <3>2. /\ hist.listens \in Nat /\ hist.clients \in Nat
          /\ hist.accepted \in Nat /\ hist.failures \in Nat
      BY DEF AcceptInv, TypeInv, HistOK
    <3>3. QED
      BY <3>1, <3>2 DEF HistOK
  <2>3. TypeInv'
    BY <2>1, <2>2, BoundsAssumption DEF AcceptInv, TypeInv, NoHandle
  <2>4. HandleInv'
    <3>1. \A a \in Acceptors : Fresh(a)' => Fresh(a)
      BY <2>1, <2>2 DEF Fresh, Acceptors
    <3>2. QED
      BY <2>1, <3>1 DEF AcceptInv, HandleInv, Idle
  <2>5. Chained' /\ Single'
    <3>1. Work' = Work
      BY <2>1 DEF Work
    <3>2. QED
      BY <2>1, <2>2, <3>1 DEF AcceptInv, Chained, Single
  <2>6. QED
    BY <2>3, <2>4, <2>5 DEF AcceptInv
<1>2. CASE ListenLookedUp
  <2>1. /\ frame = "none" /\ lookup /\ lookup' = FALSE /\ _handle = NoHandle
        /\ UNCHANGED <<retries, frame, crashed, hist>>
        /\ hist.listens \in Acceptors /\ hist.listens \in Nat \ {0}
    BY <1>2, BoundsAssumption
       DEF ListenLookedUp, LoopActs, AcceptInv, TypeInv, HistOK, Acceptors
  <2>2. /\ HistOK' /\ ticks \in Seq(Names)
        /\ "error" \in Names /\ "listening" \in Names
    <3>1. HistOK' /\ ticks \in Seq(Names)
      BY <2>1 DEF AcceptInv, TypeInv, HistOK
    <3>2. QED
      BY <3>1 DEF Names
  <2>3. CASE /\ UNCHANGED <<_handle, acceptors>>
             /\ ticks' = ticks \/ ticks' = Append(ticks, "error")
    <3>1. /\ ticks' \in Seq(Names)
          /\ Listening(ticks') <=> Listening(ticks)
      BY <2>2, <2>3, TicksAppend
    <3>2. TypeInv'
      BY <2>1, <2>2, <2>3, <3>1 DEF AcceptInv, TypeInv
    <3>3. HandleInv'
      <4>1. \A a \in Acceptors : Fresh(a)' => Fresh(a)
        BY <2>1 DEF Fresh
      <4>2. QED
        BY <2>1, <2>3, <4>1 DEF AcceptInv, HandleInv, Idle
    <3>4. Chained' /\ Single'
      BY <2>1, <2>3, <3>1 DEF AcceptInv, Chained, Single
    <3>5. QED
      BY <3>2, <3>3, <3>4 DEF AcceptInv
  <2>4. CASE /\ _handle' = hist.listens
             /\ acceptors' = [acceptors EXCEPT ![hist.listens] = NewAcceptor]
             /\ ticks' = Append(ticks, "listening")
    <3> DEFINE h == hist.listens
    <3>1. /\ AccOK(acceptors') /\ acceptors'[h].open
          /\ acceptors'[h].pending = 0 /\ acceptors'[h].ready = <<>>
          /\ \A b \in Acceptors \ {h} : acceptors'[b] = acceptors[b]
      <4> DEFINE x == NewAcceptor
      <4>1. /\ x \in [open : BOOLEAN, pending : Nat, ready : Seq(Results)]
            /\ x.open /\ x.pending = 0 /\ x.ready = <<>>
        BY DEF NewAcceptor
      <4>2. acceptors' = [acceptors EXCEPT ![h] = x]
        BY <2>4
      <4> HIDE DEF x
      <4>3. QED
        BY <2>1, <4>1, <4>2 DEF AcceptInv, TypeInv, AccOK
    <3>2. /\ ticks' \in Seq(Names) /\ Listening(ticks')
          /\ ~Listening(ticks) => ListeningOnce(ticks')
      <4>1. ~Listening(ticks) => ListeningOnce(ticks)
        BY DEF Listening, ListeningOnce
      <4>2. QED
        BY <2>2, <2>4, <4>1, TicksAppend
    <3>3. TypeInv'
      <4>1. hist' = hist /\ hist.listens <= MaxListens /\ _handle' = hist.listens
        BY <2>1, <2>4 DEF AcceptInv, TypeInv
      <4>2. _handle' \in 0..(hist'.listens) /\ hist'.listens <= MaxListens
        BY <2>1, <4>1
      <4>3. retries' \in Nat /\ frame' \in {"none", "connection"}
            /\ crashed' \in BOOLEAN /\ lookup' = FALSE
        BY <2>1 DEF AcceptInv, TypeInv
      <4>4. QED
        BY <2>2, <3>1, <3>2, <4>2, <4>3 DEF TypeInv
    <3>4. HandleInv'
      <4>1. Clean(acceptors')
        BY <3>1 DEF AcceptInv, HandleInv, Clean
      <4>2. ASSUME NEW a \in Acceptors, Fresh(a)' PROVE Idle(acceptors', a)
        <5>1. a > h
          BY <2>1, <4>2 DEF Fresh
        <5>2. Idle(acceptors, a) /\ a # h
          BY <2>1, <5>1 DEF AcceptInv, HandleInv, Fresh, Acceptors
        <5>3. QED
          BY <3>1, <5>2 DEF Idle
      <4>3. QED
        BY <2>4, <3>1, <4>1, <4>2 DEF HandleInv
    <3>5. h = 1 => retries = 0 /\ ~Listening(ticks)
      BY <2>1 DEF AcceptInv, TypeInv, Single, Work
    <3>6. Size(acceptors', h) = 0
      BY <3>1 DEF Size
    <3>7. Chained' /\ Single'
      <4>1. Work' = retries
        BY <2>1, <2>4, <3>6 DEF Work, NoHandle, AcceptInv, TypeInv
      <4>2. QED
        BY <2>1, <2>4, <3>2, <3>5, <4>1 DEF Chained, Single, NoHandle
    <3>8. QED
      BY <3>3, <3>4, <3>7 DEF AcceptInv
  <2>5. QED
    BY <1>2, <2>3, <2>4 DEF ListenLookedUp
<1>3. QED
  BY <1>1, <1>2

(* close, and sockets that are destroyed.                                    *)
LEMMA CloseSteps ==
    ASSUME AcceptInv, Close \/ \E c \in 1..MaxClients : SocketDestroyed(c)
    PROVE  AcceptInv'
<1>1. /\ ticks' = ticks \/ ticks' = Append(ticks, "close")
      /\ UNCHANGED <<lookup, retries, frame, crashed, hist>>
  BY DEF Close, SocketDestroyed, AppActs, emitCloseIfDrained
<1>2. /\ ticks' \in Seq(Names)
      /\ Listening(ticks') <=> Listening(ticks)
      /\ ListeningOnce(ticks) => ListeningOnce(ticks')
  <2>1. ticks \in Seq(Names)
    BY DEF AcceptInv, TypeInv
  <2>2. "close" \in Names
    BY DEF Names
  <2>3. QED
    BY <1>1, <2>1, <2>2, TicksAppend
<1>3. HistOK'
  BY <1>1 DEF AcceptInv, TypeInv, HistOK
<1>4. CASE Close
  <2>1. /\ _handle # NoHandle /\ _handle' = NoHandle /\ ~crashed
        /\ acceptors' = CloseAcceptor(acceptors, _handle)
    BY <1>4 DEF Close, AppActs
  <2>2. /\ AccOK(acceptors') /\ Clean(acceptors') /\ _handle \in Acceptors
        /\ \A b \in Acceptors \ {_handle} : acceptors'[b] = acceptors[b]
        /\ ~Idle(acceptors, _handle)
    BY <2>1, CloseChanges, HandleOpen DEF AcceptInv, TypeInv, HandleInv
  <2>3. TypeInv'
    BY <1>1, <1>2, <1>3, <2>1, <2>2
       DEF AcceptInv, TypeInv, NoHandle, HistOK
  <2>4. HandleInv'
    <3>1. ASSUME NEW a \in Acceptors, Fresh(a)' PROVE Idle(acceptors', a)
      <4>1. Idle(acceptors, a)
        BY <1>1, <3>1 DEF AcceptInv, HandleInv, Fresh
      <4>2. QED
        BY <2>2, <4>1 DEF Idle
    <3>2. QED
      BY <2>1, <2>2, <3>1 DEF HandleInv
  <2>5. hist.listens # 0 /\ ~(hist.listens = 1 /\ lookup)
    BY <2>2, BusyAcceptor
  <2>6. Chained' /\ Single'
    BY <1>1, <2>1, <2>5 DEF Chained, Single
  <2>7. QED
    BY <2>3, <2>4, <2>6 DEF AcceptInv
<1>5. CASE \E c \in 1..MaxClients : SocketDestroyed(c)
  <2>1. UNCHANGED <<_handle, acceptors>>
    BY <1>5 DEF SocketDestroyed
  <2>2. TypeInv' /\ HandleInv' /\ Work' = Work
    BY <1>1, <1>2, <1>3, <2>1, KeptSame, KeepsHandle
       DEF AcceptInv, TypeInv, Work
  <2>3. QED
    BY <1>1, <1>2, <2>1, <2>2, SameWork
<1>6. QED
  BY <1>4, <1>5

(* A tick: "listening" is where the chain of accepts begins.                 *)
LEMMA TickStep ==
    ASSUME AcceptInv, TickRuns
    PROVE  AcceptInv'
<1>1. /\ ticks # <<>> /\ ticks' = Tail(ticks)
      /\ UNCHANGED <<_handle, lookup, retries, frame, hist>>
  BY DEF TickRuns
<1>2. HistOK' /\ ticks \in Seq(Names) /\ crashed' \in BOOLEAN
  BY <1>1 DEF AcceptInv, TypeInv, HistOK, TickRuns
<1>3. /\ ticks' \in Seq(Names)
      /\ ListeningOnce(ticks) => ListeningOnce(ticks')
      /\ Head(ticks) # "listening" => (Listening(ticks') <=> Listening(ticks))
      /\ Head(ticks) = "listening" =>
            Listening(ticks) /\ (ListeningOnce(ticks) => ~Listening(ticks'))
  BY <1>1, <1>2, TicksTail
<1>4. CASE Head(ticks) # "listening"
  <2>1. UNCHANGED <<acceptors, crashed>>
    BY <1>4 DEF TickRuns
  <2>2. TypeInv' /\ HandleInv' /\ Work' = Work
    BY <1>1, <1>2, <1>3, <2>1, KeptSame, KeepsHandle
       DEF AcceptInv, TypeInv, Work
  <2>3. QED
    BY <1>1, <1>3, <1>4, <2>1, <2>2, SameWork
<1>5. CASE Head(ticks) = "listening" /\ _handle = NoHandle
  <2>1. UNCHANGED acceptors /\ crashed'
    BY <1>5 DEF TickRuns
  <2>2. TypeInv' /\ HandleInv' /\ Work' = Work
    BY <1>1, <1>2, <1>3, <2>1, KeptSame, KeepsHandle
       DEF AcceptInv, TypeInv, Work
  <2>3. Chained' /\ Single'
    BY <1>1, <1>3, <1>5, <2>1 DEF Chained, Single, AcceptInv
  <2>4. QED
    BY <2>2, <2>3 DEF AcceptInv
<1>6. CASE Head(ticks) = "listening" /\ _handle # NoHandle
  <2>1. acceptors' = Accept(acceptors, _handle) /\ crashed' = crashed
    BY <1>6 DEF TickRuns
  <2>2. TypeInv' /\ HandleInv'
    BY <1>1, <1>2, <1>3, <1>6, <2>1, AcceptKept, KeepsHandle
       DEF AcceptInv, TypeInv
  <2>3. Work' = Work + 1 /\ Work \in Nat
    BY <1>1, <1>6, <2>1, AcceptKept, HandleOpen, WorkNat
       DEF Work, AcceptInv, TypeInv
  <2>4. Chained' /\ Single'
    BY <1>1, <1>3, <1>6, <2>1, <2>3 DEF Chained, Single, AcceptInv
  <2>5. QED
    BY <2>2, <2>4 DEF AcceptInv
<1>7. QED
  BY <1>4, <1>5, <1>6

(* The parts Work is the sum of, before and after a step.                    *)
LEMMA WorkParts ==
    ASSUME UNCHANGED _handle
    PROVE  /\ _handle = NoHandle /\ frame = "none" => Work = 0 + retries + 0
           /\ _handle = NoHandle /\ frame = "connection" => Work = 0 + retries + 1
           /\ _handle # NoHandle /\ frame = "none" =>
                Work = Size(acceptors, _handle) + retries + 0
           /\ _handle # NoHandle /\ frame = "connection" =>
                Work = Size(acceptors, _handle) + retries + 1
           /\ _handle = NoHandle /\ frame' = "none" => Work' = 0 + retries' + 0
           /\ _handle # NoHandle /\ frame' = "none" =>
                Work' = Size(acceptors', _handle) + retries' + 0
           /\ _handle # NoHandle /\ frame' = "connection" =>
                Work' = Size(acceptors', _handle) + retries' + 1
<1>1. NoHandle' = NoHandle
  BY DEF NoHandle
<1>2. (frame = "none" => frame # "connection")
      /\ (frame' = "none" => frame' # "connection")
  OBVIOUS
<1>3. QED
  BY <1>1, <1>2, Zenon DEF Work

(* HandleAccept of acceptor a.                                               *)
LEMMA DeliverySteps ==
    ASSUME AcceptInv, NEW a \in Acceptors,
           \/ AcceptGone(a) \/ AcceptAborted(a) \/ AcceptEMFILE(a)
           \/ AcceptError(a) \/ AcceptOk(a)
    PROVE  AcceptInv'
<1>1. /\ frame = "none" /\ ~crashed
      /\ UNCHANGED <<_handle, lookup, ticks>>
  BY DEF AcceptGone, AcceptAborted, AcceptEMFILE, AcceptError, AcceptOk,
         Delivered, LoopActs, serverVars
<1>2. PICK result : Delivered(a, result)
  BY DEF AcceptGone, AcceptAborted, AcceptEMFILE, AcceptError, AcceptOk
<1>3. /\ Kept(acceptors, Rest(a)) /\ Changed(acceptors, Rest(a), a, -1)
      /\ ~Idle(acceptors, a)
      /\ _handle # NoHandle =>
           Size(Rest(a), _handle) =
               Size(acceptors, _handle) - (IF a = _handle THEN 1 ELSE 0)
  BY <1>2, RestKept
<1>4. /\ hist.listens # 0 /\ ~(hist.listens = 1 /\ lookup)
      /\ hist.listens = 1 /\ _handle # NoHandle => a = _handle
  BY <1>3, BusyAcceptor
<1>5. /\ HistOK /\ TypeInv /\ ticks \in Seq(Names) /\ retries \in Nat
      /\ _handle # NoHandle => Size(acceptors, _handle) \in Nat
  BY HandleOpen DEF AcceptInv, TypeInv
<1>6. CASE AcceptGone(a)
  <2>1. /\ acceptors' = Accept(Rest(a), a)
        /\ UNCHANGED <<retries, frame, crashed, hist>>
    BY <1>6 DEF AcceptGone, serverVars
  <2>2. Changed(Rest(a), Accept(Rest(a), a), a, 1)
    BY <1>3, AcceptChanges DEF Changed
  <2>3. Changed(acceptors, acceptors', a, 0)
    BY <1>3, <2>1, <2>2, ChangedTwice
  <2>4. Kept(acceptors, acceptors')
    BY <1>3, <2>3, ChangedKept
  <2>5. TypeInv' /\ HandleInv'
    BY <1>1, <1>5, <2>1, <2>4, KeepsHandle DEF TypeInv, HistOK
  <2>6. _handle # NoHandle => Size(acceptors', _handle) = Size(acceptors, _handle)
    BY <2>3, HandleOpen DEF Changed, Size
  <2>7. Work' = Work
    BY <1>1, <2>1, <2>6 DEF Work
  <2>8. QED
    BY <1>1, <2>1, <2>5, <2>7, SameWork
<1>7. CASE AcceptAborted(a)
  <2>1. /\ acceptors' = Rest(a) /\ a # _handle
        /\ UNCHANGED <<retries, frame, crashed, hist>>
    BY <1>7, RestKept DEF AcceptAborted, serverVars
  <2>2. TypeInv' /\ HandleInv'
    BY <1>1, <1>3, <1>5, <2>1, KeepsHandle DEF TypeInv, HistOK
  <2>3. Work' = Work
    BY <1>1, <1>3, <1>5, <2>1 DEF Work
  <2>4. QED
    BY <1>1, <2>1, <2>2, <2>3, SameWork
<1>8. CASE AcceptEMFILE(a)
  <2>1. /\ acceptors' = Rest(a) /\ retries' = retries + 1
        /\ UNCHANGED <<frame, crashed, hist>>
    BY <1>8 DEF AcceptEMFILE
  <2>2. TypeInv' /\ HandleInv'
    BY <1>1, <1>3, <1>5, <2>1, KeepsHandle DEF TypeInv, HistOK
  <2>3. /\ Work' \in Nat \ {0} /\ Work \in Nat
        /\ a = _handle /\ _handle # NoHandle => Work' = Work
    <3>1. frame' = "none"
      BY <1>1, <2>1
    <3>2. CASE _handle = NoHandle
      BY <1>1, <1>5, <2>1, <3>1, <3>2, WorkParts
    <3>3. CASE _handle # NoHandle
      <4>1. Size(Rest(a), _handle) \in Nat
        BY <3>3, HandleOpen, <1>3 DEF Kept, AccOK, Size
      <4>2. /\ Work = Size(acceptors, _handle) + retries
            /\ Work' = Size(Rest(a), _handle) + (retries + 1)
        BY <1>1, <1>5, <2>1, <3>1, <3>3, <4>1, WorkParts
      <4>3. QED
        BY <1>3, <1>5, <3>3, <4>1, <4>2
    <3>4. QED
      BY <3>2, <3>3
  <2>4. Chained' /\ Single'
    BY <1>1, <1>4, <2>1, <2>3 DEF AcceptInv, Chained, Single
  <2>5. QED
    BY <2>2, <2>4 DEF AcceptInv
<1>9. CASE AcceptError(a)
  <2>1. /\ acceptors' = Rest(a)
        /\ UNCHANGED <<retries, frame, crashed>>
    BY <1>9 DEF AcceptError, serverVars
  <2>2. PICK g \in BOOLEAN : /\ hist' = [hist EXCEPT !.givenUp = g]
                             /\ g = (hist.givenUp \/ a = _handle)
    BY <1>9 DEF AcceptError
  <2>3. HistOK' /\ hist'.listens = hist.listens /\ hist'.givenUp = g
    BY <1>5, <2>2 DEF HistOK
  <2>4. TypeInv' /\ HandleInv'
    BY <1>1, <1>3, <1>5, <2>1, <2>3, KeepsHandle DEF TypeInv
  <2>5. Work' <= Work /\ (a # _handle => Work' = Work) /\ Work \in Nat /\ Work' \in Nat
    <3>1. frame' = "none"
      BY <1>1, <2>1
    <3>2. CASE _handle = NoHandle
      BY <1>1, <1>5, <2>1, <3>1, <3>2, WorkParts
    <3>3. CASE _handle # NoHandle
      <4>1. Size(Rest(a), _handle) \in Nat
        BY <3>3, HandleOpen, <1>3 DEF Kept, AccOK, Size
      <4>2. /\ Work = Size(acceptors, _handle) + retries
            /\ Work' = Size(Rest(a), _handle) + retries
        BY <1>1, <1>5, <2>1, <3>1, <3>3, <4>1, WorkParts
      <4>3. QED
        BY <1>3, <1>5, <3>3, <4>1, <4>2
    <3>4. QED
      BY <3>2, <3>3
  <2>6. Chained'
    BY <1>1, <2>1, <2>2, <2>3, <2>5 DEF AcceptInv, Chained
  <2>7. Single'
    BY <1>1, <1>4, <2>3, <2>5 DEF AcceptInv, Single
  <2>8. QED
    BY <2>4, <2>6, <2>7 DEF AcceptInv
<1>10. CASE AcceptOk(a)
  <2>1. UNCHANGED retries
    BY <1>10 DEF AcceptOk
  <2>2. CASE /\ _handle = NoHandle /\ crashed' = TRUE
             /\ acceptors' = Rest(a) /\ UNCHANGED <<frame, hist>>
    <3>1. TypeInv' /\ HandleInv'
      BY <1>1, <1>3, <1>5, <2>1, <2>2, KeepsHandle DEF TypeInv, HistOK
    <3>2. Chained' /\ Single'
      BY <1>1, <1>4, <2>2 DEF Chained, Single
    <3>3. QED
      BY <3>1, <3>2 DEF AcceptInv
  <2>3. CASE /\ _handle # NoHandle
             /\ acceptors' = Accept(Rest(a), _handle)
             /\ UNCHANGED <<frame, crashed, hist>>
    <3>1. _handle \in Acceptors /\ Rest(a)[_handle].open
      BY <1>3, <2>3, HandleOpen DEF Kept
    <3>2. ~Idle(Rest(a), _handle)
      BY <3>1 DEF Idle
    <3>3. Changed(Rest(a), acceptors', _handle, 1)
      BY <1>3, <2>3, <3>1, AcceptChanges DEF Kept
    <3>4. Kept(acceptors, acceptors')
      BY <1>3, <3>1, <3>2, <3>3, ChangedKept, KeptTwice
    <3>5. TypeInv' /\ HandleInv'
      BY <1>1, <1>5, <2>1, <2>3, <3>4, KeepsHandle DEF TypeInv, HistOK
    <3>6. /\ Work' \in Nat \ {0}
          /\ a = _handle => Work' = Work
      <4>1. Size(Rest(a), _handle) \in Nat
        BY <1>3, <3>1 DEF Kept, AccOK, Size
      <4>2. Size(acceptors', _handle) = Size(Rest(a), _handle) + 1
        BY <3>3 DEF Changed
      <4>3. /\ Work = Size(acceptors, _handle) + retries
            /\ Work' = Size(Rest(a), _handle) + 1 + retries
        BY <1>1, <1>5, <2>1, <2>3, <4>1, <4>2, WorkParts
      <4>4. QED
        BY <1>3, <1>5, <2>3, <4>1, <4>3
    <3>7. Chained' /\ Single'
      BY <1>1, <1>4, <2>3, <3>6 DEF AcceptInv, Chained, Single
    <3>8. QED
      BY <3>5, <3>7 DEF AcceptInv
  <2>4. CASE /\ _handle # NoHandle /\ acceptors' = Rest(a)
             /\ hist' = [hist EXCEPT !.accepted = @ + 1]
             /\ frame' = "connection" /\ UNCHANGED crashed
    <3>1. HistOK' /\ hist'.listens = hist.listens
      BY <1>5, <2>4 DEF HistOK
    <3>2. TypeInv' /\ HandleInv'
      BY <1>1, <1>3, <1>5, <2>1, <2>4, <3>1, KeepsHandle DEF TypeInv
    <3>3. /\ Work' \in Int /\ (a = _handle => Work' = Work)
          /\ frame' = "connection"
      BY <1>1, <1>3, <1>5, <2>1, <2>4, WorkNat DEF Work
    <3>4. Chained'
      <4>1. Size(Rest(a), _handle) \in Nat
        BY <1>3, <2>4, HandleOpen DEF Kept, AccOK, Size
      <4>2. Work' > 0
        BY <1>1, <1>5, <2>1, <2>4, <4>1 DEF Work
      <4>3. QED
        BY <4>2 DEF Chained
    <3>5. Single'
      BY <1>1, <1>4, <2>4, <3>1, <3>3 DEF AcceptInv, Single
    <3>6. QED
      BY <3>2, <3>4, <3>5 DEF AcceptInv
  <2>5. QED
    BY <1>10, <2>2, <2>3, <2>4 DEF AcceptOk
<1>11. QED
  BY <1>6, <1>7, <1>8, <1>9, <1>10

(* The listeners of "connection" are done, or the EMFILE timer fires.        *)
LEMMA AcceptAgainSteps ==
    ASSUME AcceptInv, ConnectionListened \/ ConnectionThrows \/ RetryAccept
    PROVE  AcceptInv'
<1>1. /\ HistOK /\ TypeInv /\ ticks \in Seq(Names) /\ retries \in Nat
      /\ UNCHANGED <<_handle, lookup, ticks, crashed>>
  BY DEF AcceptInv, TypeInv, ConnectionListened, ConnectionThrows, RetryAccept,
         serverVars
<1>2. CASE ConnectionListened \/ RetryAccept
  <2>1. /\ hist' = hist
        /\ acceptors' = IF _handle = NoHandle THEN acceptors
                        ELSE Accept(acceptors, _handle)
        /\ \/ frame = "connection" /\ frame' = "none" /\ retries' = retries
           \/ frame' = frame /\ retries > 0 /\ retries' = retries - 1
    BY <1>2 DEF ConnectionListened, RetryAccept, serverVars
  <2>2. retries' \in Nat /\ frame' \in {"none", "connection"}
    BY <1>1, <2>1 DEF TypeInv
  <2>3. Kept(acceptors, acceptors')
    BY <2>1, KeptSame, AcceptKept
  <2>4. TypeInv' /\ HandleInv'
    BY <1>1, <2>1, <2>2, <2>3, KeepsHandle DEF TypeInv, HistOK
  <2>5. /\ Work > 0 /\ Work \in Nat /\ Work' \in Nat
        /\ _handle # NoHandle => Work' = Work
    <3>1. UNCHANGED _handle /\ frame \in {"none", "connection"} /\ retries \in Nat
      BY <1>1 DEF TypeInv
    <3>2. CASE _handle = NoHandle
      <4>1. CASE frame = "connection" /\ frame' = "none" /\ retries' = retries
        BY <1>1, <3>1, <3>2, <4>1, WorkParts
      <4>2. CASE frame' = frame /\ retries > 0 /\ retries' = retries - 1
        <5>1. CASE frame = "none"
          BY <1>1, <2>2, <3>1, <3>2, <4>2, <5>1, WorkParts
        <5>2. CASE frame = "connection"
          <6>1. Work = retries + 1
            BY <1>1, <3>1, <3>2, <5>2, WorkParts
          <6>2. Work' = retries'+ 1
            BY <1>1, <2>2, <3>1, <3>2, <4>2, <5>2 DEF Work, NoHandle
          <6>3. QED
            <7>1. Work > 0 /\ Work \in Nat
              BY <3>1, <6>1
            <7>2. Work' \in Nat
              <8>1. \A n \in Nat : n + 1 \in Nat
                OBVIOUS
              <8>2. QED
                BY <2>2, <6>2, <8>1, Zenon
            <7>3. QED
              BY <3>2, <7>1, <7>2
        <5>3. QED
          BY <3>1, <5>1, <5>2
      <4>3. QED
        BY <2>1, <4>1, <4>2
    <3>3. CASE _handle # NoHandle
      <4>1. /\ Size(acceptors, _handle) \in Nat
            /\ Size(acceptors', _handle) = Size(acceptors, _handle) + 1
        BY <2>1, <3>3, AcceptKept, HandleOpen
      <4>2. CASE frame = "connection" /\ frame' = "none" /\ retries' = retries
        <5>1. /\ Work = Size(acceptors, _handle) + retries + 1
              /\ Work' = Size(acceptors, _handle) + 1 + retries
          BY <1>1, <3>1, <3>3, <4>1, <4>2, WorkParts
        <5>2. QED
          BY <1>1, <4>1, <5>1
      <4>3. CASE frame' = frame /\ retries > 0 /\ retries' = retries - 1
        <5>1. CASE frame = "none"
          <6>1. /\ Work = Size(acceptors, _handle) + retries
                /\ Work' = Size(acceptors, _handle) + 1 + (retries - 1)
            BY <1>1, <2>2, <3>1, <3>3, <4>1, <4>3, <5>1, WorkParts
          <6>2. QED
            BY <1>1, <4>1, <4>3, <6>1
        <5>2. CASE frame = "connection"
          <6>1. /\ Work = Size(acceptors, _handle) + retries + 1
                /\ Work' = Size(acceptors, _handle) + 1 + (retries - 1) + 1
            BY <1>1, <2>2, <3>1, <3>3, <4>1, <4>3, <5>2, WorkParts
          <6>2. QED
            BY <1>1, <4>1, <4>3, <6>1
        <5>3. QED
          BY <3>1, <5>1, <5>2
      <4>4. QED
        BY <2>1, <4>2, <4>3
    <3>4. QED
      BY <3>2, <3>3
  <2>6. Chained' /\ Single'
    BY <1>1, <2>1, <2>5 DEF AcceptInv, Chained, Single
  <2>7. QED
    BY <2>4, <2>6 DEF AcceptInv
<1>3. CASE ConnectionThrows
  <2>1. /\ frame = "connection" /\ frame' = "none"
        /\ hist' = [hist EXCEPT !.givenUp = TRUE]
        /\ UNCHANGED <<retries, acceptors>>
    BY <1>3 DEF ConnectionThrows, serverVars
  <2>2. HistOK' /\ hist'.listens = hist.listens /\ hist'.givenUp
    BY <1>1, <2>1 DEF HistOK
  <2>3. TypeInv' /\ HandleInv'
    BY <1>1, <2>1, <2>2, KeptSame, KeepsHandle DEF TypeInv
  <2>4. Work > 0 /\ Work \in Nat /\ Work' = Work - 1
    BY <1>1, <2>1, HandleOpen DEF Work
  <2>5. Chained' /\ Single'
    BY <1>1, <2>2, <2>4 DEF AcceptInv, Chained, Single
  <2>6. QED
    BY <2>3, <2>5 DEF AcceptInv
<1>4. QED
  BY <1>2, <1>3

(* The kernel and the clients.                                               *)
LEMMA KernelSteps ==
    ASSUME AcceptInv, Kernel
    PROVE  AcceptInv'
<1>1. /\ HistOK /\ TypeInv /\ ticks \in Seq(Names) /\ retries \in Nat
      /\ UNCHANGED <<serverVars, frame, crashed>>
  BY DEF AcceptInv, TypeInv, Kernel, ClientConnects, BacklogDropped,
         KernelAccepts
<1>2. UNCHANGED <<_handle, lookup, ticks, retries>>
  BY <1>1 DEF serverVars
<1>3. CASE ClientConnects \/ BacklogDropped
  <2>1. /\ acceptors' = acceptors
        /\ hist' = hist \/ hist' = [hist EXCEPT !.clients = @ + 1]
    BY <1>3 DEF ClientConnects, BacklogDropped
  <2>2. /\ HistOK' /\ hist'.listens = hist.listens
        /\ hist'.givenUp = hist.givenUp
    BY <1>1, <2>1 DEF HistOK
  <2>3. TypeInv' /\ HandleInv'
    BY <1>1, <1>2, <2>1, <2>2, KeptSame, KeepsHandle DEF TypeInv
  <2>4. Work' = Work
    BY <1>1, <1>2, <2>1 DEF Work
  <2>5. QED
    BY <1>1, <1>2, <2>2, <2>3, <2>4, SameWork
<1>4. ASSUME NEW a \in Acceptors, NEW result \in Outcomes,
             KernelAccepts(a, result)
      PROVE  AcceptInv'
  <2>1. /\ acceptors[a].pending > 0
        /\ acceptors' = [acceptors EXCEPT ![a].pending = @ - 1,
                                          ![a].ready = Append(@, result)]
    BY <1>4 DEF KernelAccepts
  <2> DEFINE n == IF result = "ok" THEN hist.failures ELSE hist.failures + 1
  <2>2. hist' = [hist EXCEPT !.failures = n]
    BY <1>4, Zenon DEF KernelAccepts
  <2>3. /\ HistOK' /\ hist'.listens = hist.listens
        /\ hist'.givenUp = hist.givenUp
    <3>1. n \in Nat
      BY <1>1 DEF HistOK
    <3> HIDE DEF n
    <3>2. QED
      BY <1>1, <2>2, <3>1 DEF HistOK
  <2>4. Changed(acceptors, acceptors', a, 0) /\ ~Idle(acceptors, a)
    <3>1. AccOK(acceptors) /\ Clean(acceptors)
      BY DEF AcceptInv, TypeInv, HandleInv
    <3>2. Changed(acceptors, acceptors', a, 0)
      BY <2>1, <3>1, AnswerChanges, Zenon
    <3>3. QED
      BY <2>1, <3>2 DEF Idle
  <2>5. TypeInv' /\ HandleInv'
    BY <1>1, <1>2, <2>3, <2>4, ChangedKept, KeepsHandle DEF TypeInv
  <2>6. _handle # NoHandle => Size(acceptors', _handle) = Size(acceptors, _handle)
    BY <2>4, HandleOpen DEF Changed, Size
  <2>7. Work' = Work
    BY <1>1, <1>2, <2>6 DEF Work
  <2>8. QED
    BY <1>1, <1>2, <2>3, <2>5, <2>7, SameWork
<1>5. QED
  BY <1>3, <1>4 DEF Kernel

(* The server has not listened.                                              *)
LEMMA InitAcceptInv == Init => AcceptInv
<1> SUFFICES ASSUME Init PROVE AcceptInv
  OBVIOUS
<1> DEFINE x == [NewAcceptor EXCEPT !.open = FALSE]
<1>1. /\ x \in [open : BOOLEAN, pending : Nat, ready : Seq(Results)]
      /\ ~x.open /\ x.pending = 0 /\ x.ready = <<>>
  <2>1. PICK b \in BOOLEAN : b = FALSE
    OBVIOUS
  <2>2. x = [NewAcceptor EXCEPT !.open = b]
    BY <2>1
  <2> HIDE DEF x
  <2>3. x = [open |-> b, pending |-> 0, ready |-> <<>>]
    BY <2>2 DEF NewAcceptor
  <2>4. QED
    BY <2>1, <2>3
<1>2. acceptors = [a \in Acceptors |-> x]
  BY DEF Init
<1> HIDE DEF x
<1>3. AccOK(acceptors) /\ Clean(acceptors) /\ \A a \in Acceptors : Idle(acceptors, a)
  BY <1>1, <1>2 DEF AccOK, Clean, Idle
<1>4. HistOK /\ hist.listens = 0 /\ MaxListens \in Nat /\ ~hist.givenUp
  BY BoundsAssumption DEF Init, HistOK, NoHistory
<1>5. /\ _handle = NoHandle /\ lookup = FALSE /\ ticks = <<>> /\ retries = 0
      /\ frame = "none" /\ crashed = FALSE
  BY DEF Init
<1>6. TypeInv /\ HandleInv
  <2>1. ticks \in Seq(Names) /\ _handle \in 0..hist.listens
    BY <1>4, <1>5 DEF NoHandle
  <2>2. TypeInv
    <3>1. /\ retries \in Nat /\ frame \in {"none", "connection"}
          /\ lookup \in BOOLEAN /\ crashed \in BOOLEAN
      BY <1>5
    <3>2. hist.listens <= MaxListens
      BY <1>4
    <3>3. lookup => _handle = NoHandle /\ hist.listens > 0
      BY <1>5
    <3>4. QED
      BY <1>3, <1>4, <2>1, <3>1, <3>2, <3>3 DEF TypeInv
  <2>3. HandleInv
    BY <1>3, <1>5 DEF HandleInv
  <2>4. QED
    BY <2>2, <2>3
<1>7. Work = 0 /\ ~Listening(ticks)
  BY <1>5 DEF Work, Listening
<1>8. QED
  BY <1>4, <1>5, <1>6, <1>7 DEF AcceptInv, Chained, Single

(* Every step keeps the invariant of the accept operations.                  *)
THEOREM AcceptInvariance == Spec => []AcceptInv
<1>1. ASSUME AcceptInv, [Next]_vars PROVE AcceptInv'
  <2>1. CASE Application
    BY <1>1, <2>1, ListenSteps, CloseSteps DEF Application
  <2>2. CASE Handler
    BY <1>1, <2>2, ListenSteps, TickStep, AcceptAgainSteps, DeliverySteps
       DEF Handler
  <2>3. CASE Kernel
    BY <1>1, <2>3, KernelSteps
  <2>4. CASE UNCHANGED vars
    <3>1. UNCHANGED <<_handle, lookup, ticks, retries, acceptors, frame,
                      crashed, hist>>
      BY <2>4 DEF vars, serverVars
    <3>2. QED
      BY <1>1, <3>1 DEF AcceptInv, TypeInv, HistOK, HandleInv, Fresh, Chained,
         Single, Work
  <2>5. QED
    BY <1>1, <2>1, <2>2, <2>3, <2>4 DEF Next
<1>2. QED
  BY <1>1, InitAcceptInv, PTL DEF Spec

------------------------------------------------------------------------------
(* What is in the queue, as AcceptChain counts it.                           *)
LEMMA ChainCounts ==
    ASSUME NEW t \in Seq(Names),
           NEW L, L = {i \in DOMAIN t : t[i] = "listening"}
    PROVE  /\ Cardinality(L) \in Nat
           /\ Listening(t) => Cardinality(L) >= 1
           /\ ~Listening(t) => Cardinality(L) = 0
           /\ ListeningOnce(t) => Cardinality(L) <= 1
<1>1. DOMAIN t = 1..Len(t) /\ Len(t) \in Nat
  OBVIOUS
<1>2. L = {i \in 1..Len(t) : t[i] = "listening"}
  BY <1>1
<1>3. IsFiniteSet(L) /\ Cardinality(L) \in Nat
  <2>1. IsFiniteSet(1..Len(t))
    BY <1>1, FS_Interval
  <2>2. L \subseteq 1..Len(t)
    BY <1>2
  <2>3. QED
    BY <2>1, <2>2, FS_Subset, FS_CardinalityType
<1>4. Listening(t) <=> L # {}
  BY <1>2 DEF Listening
<1>5. Cardinality(L) = 0 <=> L = {}
  BY <1>3, FS_EmptySet
<1>6. ASSUME ListeningOnce(t), L # {} PROVE Cardinality(L) = 1
  <2>1. PICK i \in 1..Len(t) : t[i] = "listening"
    BY <1>2, <1>6
  <2>2. \A j \in L : j = i
    BY <1>2, <1>6, <2>1 DEF ListeningOnce
  <2>3. L = {i}
    BY <1>2, <2>1, <2>2, Zenon
  <2>4. Cardinality({i}) = 1
    BY FS_Singleton
  <2>5. QED
    BY <2>3, <2>4
<1>7. QED
  BY <1>3, <1>4, <1>5, <1>6

(* net.Server never stops accepting while it listens, and accepts one        *)
(* connection at a time while listen was called once.                        *)
THEOREM ListenerAccepts == Spec => []OneAccept
<1>1. AcceptInv => OneAccept
  <2> SUFFICES ASSUME AcceptInv, _handle # NoHandle, ~hist.givenUp, ~crashed
               PROVE  AcceptChain >= 1 /\ (hist.listens = 1 => AcceptChain = 1)
    BY DEF OneAccept
  <2> DEFINE n == Cardinality({i \in DOMAIN ticks : ticks[i] = "listening"})
  <2>1. ticks \in Seq(Names) /\ Work \in Nat
    BY WorkNat DEF AcceptInv, TypeInv
  <2>2. /\ n \in Nat
        /\ Listening(ticks) => n >= 1
        /\ ~Listening(ticks) => n = 0
        /\ ListeningOnce(ticks) => n <= 1
    BY <2>1, ChainCounts
  <2>3. AcceptChain = Work + n
    <3> DEFINE h == IF _handle = NoHandle THEN 0 ELSE Size(acceptors, _handle)
               f == IF frame = "connection" THEN 1 ELSE 0
    <3>1. h \in Nat /\ f \in Nat /\ retries \in Nat
      BY HandleOpen DEF AcceptInv, TypeInv
    <3>2. AcceptChain = h + retries + n + f /\ Work = h + retries + f
      BY Zenon DEF AcceptChain, Work, Size
    <3> HIDE DEF h, f, n
    <3>3. QED
      BY <2>2, <3>1, <3>2
  <2> HIDE DEF n
  <2>4. Work > 0 \/ Listening(ticks)
    BY DEF AcceptInv, Chained
  <2>5. hist.listens = 1 => /\ Work <= 1 /\ ListeningOnce(ticks)
                            /\ Listening(ticks) => Work = 0
    BY DEF AcceptInv, Single
  <2>6. QED
    BY <2>1, <2>2, <2>3, <2>4, <2>5
<1>2. QED
  BY <1>1, AcceptInvariance, PTL

------------------------------------------------------------------------------
(* The inductive invariant of the connections: the sockets that are open are *)
(* some of those accepted, which are numbered in the order of their accept.  *)
CountInv ==
    /\ hist.accepted \in Nat /\ IsFiniteSet(live)
    /\ \A c \in live : c \in 1..hist.accepted
    /\ _connections \in Nat /\ ConnectionsCounted

(* Steps that neither accept a connection nor destroy one.                   *)
LEMMA SameConnections ==
    ASSUME CountInv, UNCHANGED <<_connections, live>>,
           hist'.accepted = hist.accepted
    PROVE  CountInv'
  BY DEF CountInv, ConnectionsCounted

(* A step keeps the count of the connections.                                *)
LEMMA CountStep ==
    ASSUME CountInv, AcceptInv, [Next]_vars
    PROVE  CountInv'
<1>1. HistOK
  BY DEF AcceptInv, TypeInv
<1>2. CASE \E c \in 1..MaxClients : SocketDestroyed(c)
  <2>1. PICK c : /\ c \in live /\ live' = live \ {c}
                 /\ _connections' = _connections - 1 /\ hist' = hist
    BY <1>2 DEF SocketDestroyed
  <2>2. /\ IsFiniteSet(live') /\ Cardinality(live') = Cardinality(live) - 1
        /\ Cardinality(live') \in Nat
    BY <2>1, FS_RemoveElement, FS_CardinalityType DEF CountInv
  <2>3. _connections' \in Nat /\ _connections' <= maxConnections
    <3>1. _connections' = Cardinality(live')
      BY <2>1, <2>2, Zenon DEF CountInv, ConnectionsCounted
    <3>2. _connections' <= maxConnections
      BY <2>1, BoundsAssumption DEF CountInv, ConnectionsCounted
    <3>3. QED
      BY <2>2, <3>1, <3>2, Zenon
  <2>4. QED
    BY <2>1, <2>2, <2>3 DEF CountInv, ConnectionsCounted
<1>3. CASE \E a \in Acceptors : AcceptOk(a)
  <2>1. CASE UNCHANGED <<_connections, live, hist>>
    BY <2>1, SameConnections
  <2>2. CASE /\ ~AtLimit /\ _connections' = _connections + 1
             /\ live' = live \cup {hist.accepted + 1}
             /\ hist' = [hist EXCEPT !.accepted = @ + 1]
    <3> DEFINE c == hist.accepted + 1
    <3>1. hist'.accepted = c /\ c \in Nat /\ hist.accepted \in Nat
      BY <1>1, <2>2 DEF HistOK
    <3>2. c \notin live
      BY <3>1 DEF CountInv
    <3>3. IsFiniteSet(live') /\ Cardinality(live') = Cardinality(live) + 1
      <4>1. live' = live \cup {c} /\ IsFiniteSet(live)
        BY <2>2 DEF CountInv
      <4> HIDE DEF c
      <4>2. QED
        BY <3>2, <4>1, FS_AddElement
    <3>4. \A d \in live' : d \in 1..hist'.accepted
      BY <2>2, <3>1 DEF CountInv
    <3>5. _connections' \in Nat /\ _connections' <= maxConnections
      <4>1. maxConnections \in Nat /\ _connections \in Nat
        BY BoundsAssumption DEF CountInv
      <4>2. _connections < maxConnections
        BY <2>2, <4>1 DEF AtLimit
      <4>3. QED
        BY <2>2, <4>1, <4>2
    <3>6. _connections' = Cardinality(live')
      BY <2>2, <3>3 DEF CountInv, ConnectionsCounted
    <3>7. QED
      BY <3>1, <3>3, <3>4, <3>5, <3>6 DEF CountInv, ConnectionsCounted
  <2>3. QED
    BY <1>3, <2>1, <2>2 DEF AcceptOk
<1>4. CASE UNCHANGED <<_connections, live, hist>>
  BY <1>4, SameConnections
<1>5. CASE Listen
  <2>1. UNCHANGED <<_connections, live>>
    BY <1>5 DEF Listen
  <2>2. hist'.accepted = hist.accepted
    BY <1>1, <1>5 DEF Listen, HistOK
  <2>3. QED
    BY <2>1, <2>2, SameConnections
<1>6. CASE \E a \in Acceptors : AcceptError(a)
  <2>1. PICK a \in Acceptors : AcceptError(a)
    BY <1>6
  <2>2. PICK g \in BOOLEAN : hist' = [hist EXCEPT !.givenUp = g]
    BY <2>1 DEF AcceptError
  <2>3. hist'.accepted = hist.accepted
    BY <1>1, <2>2 DEF HistOK
  <2>4. QED
    BY <2>1, <2>3, SameConnections DEF AcceptError, serverVars
<1>7. CASE ConnectionThrows
  <2>1. UNCHANGED <<_connections, live>>
    BY <1>7 DEF ConnectionThrows, serverVars
  <2>2. hist'.accepted = hist.accepted
    BY <1>1, <1>7 DEF ConnectionThrows, HistOK
  <2>3. QED
    BY <2>1, <2>2, SameConnections
<1>8. CASE ClientConnects
  <2>1. UNCHANGED <<_connections, live>>
    BY <1>8 DEF ClientConnects, serverVars
  <2>2. hist'.accepted = hist.accepted
    BY <1>1, <1>8 DEF ClientConnects, HistOK
  <2>3. QED
    BY <2>1, <2>2, SameConnections
<1>9. ASSUME NEW a \in Acceptors, NEW result \in Outcomes,
             KernelAccepts(a, result)
      PROVE  CountInv'
  <2>1. PICK n : hist' = [hist EXCEPT !.failures = n]
    BY <1>9, Zenon DEF KernelAccepts
  <2>2. hist'.accepted = hist.accepted
    BY <1>1, <2>1 DEF HistOK
  <2>3. QED
    BY <1>9, <2>2, SameConnections DEF KernelAccepts, serverVars
<1>10. CASE \/ Close \/ ListenLookedUp \/ TickRuns \/ ConnectionListened
            \/ RetryAccept \/ BacklogDropped \/ UNCHANGED vars
            \/ \E a \in Acceptors :
                 AcceptGone(a) \/ AcceptAborted(a) \/ AcceptEMFILE(a)
  <2>1. UNCHANGED <<_connections, live, hist>>
    BY <1>10 DEF Close, ListenLookedUp, TickRuns, ConnectionListened,
       RetryAccept, BacklogDropped, AcceptGone, AcceptAborted, AcceptEMFILE,
       vars, serverVars
  <2>2. QED
    BY <2>1, SameConnections
<1>11. QED
  BY <1>2, <1>3, <1>5, <1>6, <1>7, <1>8, <1>9, <1>10
     DEF Next, Application, Handler, Kernel

(* net.Server's count is the number of its open connections and is within    *)
(* maxConnections, whatever is accepted, turned away, destroyed or closed.   *)
THEOREM ConnectionsAreCounted == Spec => []ConnectionsCounted
<1>1. Init => CountInv
  <2>1. Cardinality({}) = 0 /\ IsFiniteSet({})
    BY FS_EmptySet
  <2>2. QED
    BY <2>1, BoundsAssumption DEF Init, CountInv, ConnectionsCounted, NoHistory
<1>2. CountInv /\ AcceptInv /\ [Next]_vars => CountInv'
  BY CountStep
<1>3. CountInv => ConnectionsCounted
  BY DEF CountInv
<1>4. QED
  BY <1>1, <1>2, <1>3, AcceptInvariance, PTL DEF Spec
==============================================================================
