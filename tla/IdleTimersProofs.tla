--------------------------- MODULE IdleTimersProofs ---------------------------
(***************************************************************************)
(* Proofs about IdleTimers, for any sets of items, wrappers and timeouts, a *)
(* listener that throws or not, and any time.                               *)
(*                                                                          *)
(* The links of a list say too little of it: the invariant gives each list  *)
(* as a sequence of wrappers, whose links (Ring), members (Holds) and order *)
(* (Sorted) are told from there.  The functions of timers.lua work on a     *)
(* state t of the lists; Fits(t, h, X) is what holds of it between them,    *)
(* with the history h and the lists X that need no watcher.  It holds until *)
(* an item is taken out by links that do not fit any more.                  *)
(***************************************************************************)
EXTENDS IdleTimers, FiniteSetTheorems, SequenceTheorems, TLAPS

------------------------------------------------------------------------------
(* Types.                                                                    *)
WrapperType == [item : Items \cup {NoItem}, _idleTimeout : Timeouts \cup {0},
                _idleStart : Nat]
WatcherType == [expires : Nat, due : Nat]
ListsType ==
    [ next : [Nodes -> Nodes], prev : [Nodes -> Nodes],
      items : [Items -> Wrappers \cup {NoWrapper}],
      wrapper : [Wrappers -> WrapperType], watcher : [Timeouts -> WatcherType] ]
HistoryType ==
    [ since : [Items -> Nat], active : SUBSET Items, fired : SUBSET Items,
      spurious : BOOLEAN, broken : SUBSET Timeouts, misled : BOOLEAN ]

------------------------------------------------------------------------------
(* One list.                                                                 *)

(* What is at place k of the list m with the wrappers q: its head is before  *)
(* the first of them and behind the last.                                    *)
Node(m, q, k) == IF k \in 1..Len(q) THEN q[k] ELSE m

(* The links are those of the sequence.                                      *)
Ring(nx, pv, m, q) ==
    \A k \in 0..Len(q) : /\ pv[Node(m, q, k)] = Node(m, q, k + 1)
                         /\ nx[Node(m, q, k + 1)] = Node(m, q, k)

Distinct(q) == \A j, k \in 1..Len(q) : q[j] = q[k] => j = k

(* The wrappers are those of the active items with the timeout m.            *)
Holds(t, active, m, q) ==
    /\ \A k \in 1..Len(q) : \E i \in active :
            t.items[i] = q[k] /\ t.wrapper[q[k]]._idleTimeout = m
    /\ \A i \in active : t.wrapper[t.items[i]]._idleTimeout = m =>
            \E k \in 1..Len(q) : q[k] = t.items[i]

(* The most idle is first.                                                   *)
Sorted(t, q) ==
    \A j, k \in 1..Len(q) :
        j <= k => t.wrapper[q[j]]._idleStart <= t.wrapper[q[k]]._idleStart

IsList(t, active, m, q) ==
    /\ Ring(t.next, t.prev, m, q) /\ Distinct(q)
    /\ Holds(t, active, m, q) /\ Sorted(t, q)

ListsOK(t, active) ==
    \A m \in Timeouts : \E q \in Seq(Wrappers) : IsList(t, active, m, q)

------------------------------------------------------------------------------
(* The inductive invariant.                                                  *)

(* A wrapper belongs to one item and knows it; the time of an active one is  *)
(* that of its last activity.                                                *)
Wrapped(t, h) ==
    /\ \A i, j \in Items : t.items[i] # NoWrapper /\ t.items[i] = t.items[j] => i = j
    /\ \A i \in Items : t.items[i] # NoWrapper =>
            /\ t.wrapper[t.items[i]].item = i
            /\ t.wrapper[t.items[i]]._idleTimeout \in Timeouts
    /\ \A i \in h.active : /\ t.items[i] # NoWrapper
                           /\ t.wrapper[t.items[i]]._idleStart = h.since[i]
                           /\ h.since[i] <= now

(* Outside the lists: the links of items, and those of wrappers that have    *)
(* not been in a list.                                                       *)
Loose(t, h) ==
    /\ \A i \in Items : t.next[i] = i /\ t.prev[i] = i
    /\ \A i \in Items : t.items[i] # NoWrapper /\ i \notin h.active \cup h.fired =>
            t.next[t.items[i]] = i /\ t.prev[t.items[i]] = i

(* An item that has timed out keeps its wrapper, and the link that this had  *)
(* to the head of its list.                                                  *)
TimedOut(t, h) ==
    \A i \in h.fired :
        LET w == t.items[i]
        IN /\ i \notin h.active /\ w # NoWrapper
           /\ t.next[w] = t.wrapper[w]._idleTimeout

(* The lists X, and those with a call of their callback due, need no wait.   *)
Watched(t, h, X) ==
    \A i \in h.active :
        LET m == t.wrapper[t.items[i]]._idleTimeout
        IN \/ m \in X \/ t.watcher[m].due > 0
           \/ t.watcher[m].expires # Off /\ t.watcher[m].expires <= h.since[i] + m

Fits(t, h, X) ==
    /\ t \in ListsType /\ h \in HistoryType
    /\ ListsOK(t, h.active) /\ Wrapped(t, h)
    /\ Loose(t, h) /\ TimedOut(t, h) /\ Watched(t, h, X)

Excused == hist.broken \cup {frame.list}

FrameInv ==
    /\ frame \in [list : Timeouts \cup {0}, item : Items \cup {NoItem}]
    /\ frame.list = 0 => frame = Idle

Regular ==
    /\ Fits(Lists, hist, Excused) /\ FrameInv
    /\ now \in Nat /\ ~crashed /\ ~hist.spurious

(* Nothing is done any more after an item has been misled.                   *)
IInv == ~hist.spurious /\ (hist.misled \/ Regular)

------------------------------------------------------------------------------
(* The nodes.                                                                *)

(* Heads, wrappers and items are apart, and none is 0.                       *)
LEMMA NodesApart ==
    /\ \A m \in Timeouts : m \in Nodes /\ m \notin Wrappers /\ m \notin Items
                           /\ m \in Nat /\ m # 0
    /\ \A w \in Wrappers : w \in Nodes /\ w \notin Timeouts /\ w \notin Items /\ w # 0
    /\ \A i \in Items : i \in Nodes /\ i \notin Timeouts /\ i \notin Wrappers /\ i # 0
  BY IdleAssumption, NodesAssumption DEF Nodes

(* The places of a list.                                                     *)
LEMMA Places ==
    ASSUME NEW m \in Timeouts, NEW q \in Seq(Wrappers)
    PROVE  /\ Len(q) \in Nat
           /\ \A k \in 1..Len(q) : Node(m, q, k) = q[k] /\ q[k] \in Wrappers
                                   /\ Node(m, q, k) # m
           /\ \A k \in Int : k \notin 1..Len(q) => Node(m, q, k) = m
           /\ \A k \in Int : Node(m, q, k) \in Nodes
<1>1. /\ Len(q) \in Nat
      /\ \A k \in 1..Len(q) : q[k] \in Wrappers
  OBVIOUS
<1>2. QED
  BY <1>1, NodesApart DEF Node

(* They are different.                                                       *)
LEMMA PlacesDiffer ==
    ASSUME NEW m \in Timeouts, NEW q \in Seq(Wrappers), Distinct(q),
           NEW j \in 0..Len(q), NEW k \in 0..Len(q), j # k
    PROVE  Node(m, q, j) # Node(m, q, k)
<1>1. Len(q) \in Nat
  OBVIOUS
<1>2. CASE j = 0
  <2>1. k \in 1..Len(q) /\ j \notin 1..Len(q)
    BY <1>1, <1>2
  <2>2. QED
    BY <2>1, Places
<1>3. CASE k = 0
  <2>1. j \in 1..Len(q) /\ k \notin 1..Len(q)
    BY <1>1, <1>3
  <2>2. QED
    BY <2>1, Places
<1>4. CASE j # 0 /\ k # 0
  <2>1. j \in 1..Len(q) /\ k \in 1..Len(q)
    BY <1>1, <1>4
  <2>2. QED
    BY <2>1, Places DEF Distinct
<1>5. QED
  BY <1>2, <1>3, <1>4

(* The end of a list.                                                        *)
LEMMA RingEnd ==
    ASSUME NEW nx, NEW pv, NEW m \in Timeouts, NEW q \in Seq(Wrappers),
           Ring(nx, pv, m, q)
    PROVE  nx[m] = Node(m, q, Len(q))
<1>1. Len(q) \in Nat
  OBVIOUS
<1>2. Node(m, q, Len(q) + 1) = m
  BY <1>1, Places
<1>3. nx[Node(m, q, Len(q) + 1)] = Node(m, q, Len(q))
  BY <1>1 DEF Ring
<1>4. QED
  BY <1>2, <1>3

(* The head of an empty list is linked to itself.                            *)
LEMMA EmptyRing ==
    ASSUME NEW t, NEW m \in Timeouts, NEW q \in Seq(Wrappers),
           Ring(t.next, t.prev, m, q)
    PROVE  (t.prev[m] = m <=> Len(q) = 0) /\ (t.next[m] = m <=> Len(q) = 0)
<1>1. Len(q) \in Nat /\ Len(q) \in Int
  OBVIOUS
<1>2. Node(m, q, 0) = m /\ Node(m, q, Len(q) + 1) = m
  BY <1>1, Places
<1>3. /\ t.prev[Node(m, q, 0)] = Node(m, q, 0 + 1)
      /\ t.next[Node(m, q, Len(q) + 1)] = Node(m, q, Len(q))
  BY <1>1 DEF Ring
<1>4. Node(m, q, Len(q)) = m <=> Len(q) = 0
  BY <1>1, Places
<1>5. Node(m, q, 1) = m <=> Len(q) = 0
  BY <1>1, Places
<1>6. QED
  BY <1>2, <1>3, <1>4, <1>5

(* Links that differ elsewhere.                                              *)
LEMMA RingElsewhere ==
    ASSUME NEW nx, NEW pv, NEW ny, NEW pw, NEW m \in Timeouts,
           NEW q \in Seq(Wrappers), Ring(nx, pv, m, q),
           \A x \in {m} \cup {q[k] : k \in 1..Len(q)} : ny[x] = nx[x] /\ pw[x] = pv[x]
    PROVE  Ring(ny, pw, m, q)
<1>1. Len(q) \in Nat
  OBVIOUS
<1>2. \A k \in Int : Node(m, q, k) \in {m} \cup {q[j] : j \in 1..Len(q)}
  BY DEF Node
<1>3. SUFFICES ASSUME NEW k \in 0..Len(q)
               PROVE  /\ pw[Node(m, q, k)] = Node(m, q, k + 1)
                      /\ ny[Node(m, q, k + 1)] = Node(m, q, k)
  BY DEF Ring
<1>4. pv[Node(m, q, k)] = Node(m, q, k + 1) /\ nx[Node(m, q, k + 1)] = Node(m, q, k)
  BY DEF Ring
<1>5. k \in Int /\ k + 1 \in Int
  BY <1>1
<1>6. QED
  BY <1>2, <1>4, <1>5

(* append: the wrapper is put behind the last one.                           *)
LEMMA RingAppend ==
    ASSUME NEW nx \in [Nodes -> Nodes], NEW pv \in [Nodes -> Nodes],
           NEW m \in Timeouts, NEW q \in Seq(Wrappers),
           Ring(nx, pv, m, q), Distinct(q),
           NEW w \in Wrappers, \A k \in 1..Len(q) : q[k] # w,
           NEW ny, ny = [nx EXCEPT ![w] = nx[m], ![m] = w],
           NEW pw, pw = [pv EXCEPT ![nx[m]] = w, ![w] = m]
    PROVE  /\ Append(q, w) \in Seq(Wrappers)
           /\ Distinct(Append(q, w)) /\ Ring(ny, pw, m, Append(q, w))
<1> DEFINE r == Append(q, w)
           L == Len(q)
<1>1. /\ L \in Nat /\ r \in Seq(Wrappers) /\ Len(r) = L + 1
      /\ \A k \in 1..L : r[k] = q[k]
      /\ r[L + 1] = w
  OBVIOUS
<1> HIDE DEF r
<1>2. /\ \A k \in 0..L : Node(m, r, k) = Node(m, q, k)
      /\ Node(m, r, L + 1) = w /\ Node(m, r, L + 2) = m
      /\ Node(m, q, L + 1) = m /\ Node(m, q, 0) = m
  <2>1. \A k \in 1..L : Node(m, r, k) = r[k] /\ Node(m, q, k) = q[k]
    BY <1>1, Places
  <2>2. Node(m, r, 0) = m /\ Node(m, q, 0) = m /\ Node(m, r, L + 2) = m
        /\ Node(m, q, L + 1) = m /\ Node(m, r, L + 1) = w
    BY <1>1, Places
  <2>3. QED
    BY <1>1, <2>1, <2>2
<1>3. /\ w # m /\ w \in Nodes /\ m \in Nodes /\ nx[m] = Node(m, q, L)
      /\ \A k \in 0..L : Node(m, q, k) # w /\ Node(m, q, k) \in Nodes
  <2>1. w # m /\ w \in Nodes /\ m \in Nodes
    BY NodesApart
  <2>2. \A k \in 1..L : Node(m, q, k) # w
    BY <1>1, Places
  <2>3. Node(m, q, 0) # w /\ \A k \in Int : Node(m, q, k) \in Nodes
    BY <1>2, <2>1, Places
  <2>4. nx[m] = Node(m, q, L)
    BY RingEnd
  <2>5. \A k \in 0..L : k \in Int /\ (k = 0 \/ k \in 1..L)
    BY <1>1
  <2>6. QED
    BY <2>1, <2>2, <2>3, <2>4, <2>5
<1>4. ASSUME NEW k \in 0..L + 1
      PROVE  pw[Node(m, r, k)] = Node(m, r, k + 1) /\ ny[Node(m, r, k + 1)] = Node(m, r, k)
  <2>1. CASE k = L + 1
    <3>1. nx[m] # w
      BY <1>1, <1>3
    <3>2. pw[w] = m /\ ny[m] = w
      BY <1>3, <3>1
    <3>3. k + 1 = L + 2
      BY <1>1, <2>1
    <3>4. QED
      BY <1>2, <2>1, <3>2, <3>3
  <2>2. CASE k = L
    <3>1. pw[nx[m]] = w /\ ny[w] = nx[m]
      BY <1>1, <1>3
    <3>2. QED
      BY <1>1, <1>2, <1>3, <2>2, <3>1
  <2>3. CASE k \in 0..L - 1
    <3>1. Node(m, q, k) # nx[m]
      BY <1>1, <1>3, <2>3, PlacesDiffer
    <3>2. Node(m, q, k + 1) # m /\ Node(m, q, k + 1) # w /\ Node(m, q, k) # w
      BY <1>1, <1>3, <2>3, Places
    <3>3. pv[Node(m, q, k)] = Node(m, q, k + 1) /\ nx[Node(m, q, k + 1)] = Node(m, q, k)
      BY <1>1, <2>3 DEF Ring
    <3>4. Node(m, q, k) \in Nodes /\ Node(m, q, k + 1) \in Nodes
      BY <1>1, <1>3, <2>3
    <3>5. pw[Node(m, q, k)] = pv[Node(m, q, k)] /\ ny[Node(m, q, k + 1)] = nx[Node(m, q, k + 1)]
      BY <1>3, <3>1, <3>2, <3>4
    <3>6. QED
      BY <1>1, <1>2, <2>3, <3>3, <3>5
  <2>4. QED
    BY <1>1, <2>1, <2>2, <2>3
<1>5. Ring(ny, pw, m, r)
  BY <1>1, <1>4 DEF Ring
<1>6. Distinct(r)
  BY <1>1 DEF Distinct
<1>7. QED
  BY <1>1, <1>5, <1>6 DEF r

(* The wrappers without that at place j.                                     *)
Without(q, j) == [k \in 1..Len(q) - 1 |-> IF k < j THEN q[k] ELSE q[k + 1]]

(* Its parts.                                                                *)
LEMMA WithoutParts ==
    ASSUME NEW q \in Seq(Wrappers), NEW j \in 1..Len(q), Distinct(q)
    PROVE  LET r == Without(q, j)
           IN /\ r \in Seq(Wrappers) /\ Len(r) = Len(q) - 1
              /\ \A k \in 1..Len(r) : r[k] = IF k < j THEN q[k] ELSE q[k + 1]
              /\ Distinct(r)
              /\ \A k \in 1..Len(r) : r[k] # q[j]
              /\ \A k \in 1..Len(q) : k # j => \E l \in 1..Len(r) : r[l] = q[k]
<1> DEFINE r == Without(q, j)
           L == Len(q)
<1>1. L \in Nat /\ L >= 1 /\ \A k \in 1..L : q[k] \in Wrappers
  OBVIOUS
<1>2. /\ r \in Seq(Wrappers) /\ Len(r) = L - 1
      /\ \A k \in 1..L - 1 : r[k] = IF k < j THEN q[k] ELSE q[k + 1]
  <2>1. \A k \in 1..L - 1 : (IF k < j THEN q[k] ELSE q[k + 1]) \in Wrappers
    BY <1>1
  <2>2. r \in [1..L - 1 -> Wrappers]
    BY <2>1 DEF Without
  <2>3. QED
    BY <1>1, <2>2 DEF Without
<1> HIDE DEF r
<1>3. Distinct(r)
  BY <1>1, <1>2 DEF Distinct
<1>4. \A k \in 1..Len(r) : r[k] # q[j]
  BY <1>1, <1>2 DEF Distinct
<1>5. ASSUME NEW k \in 1..L, k # j
      PROVE  \E l \in 1..Len(r) : r[l] = q[k]
  <2>1. CASE k < j
    BY <1>1, <1>2, <2>1
  <2>2. CASE k > j
    <3>1. k - 1 \in 1..L - 1 /\ r[k - 1] = q[k]
      BY <1>1, <1>2, <2>2
    <3>2. QED
      BY <1>2, <3>1
  <2>3. QED
    BY <1>1, <1>5, <2>1, <2>2
<1>6. QED
  BY <1>2, <1>3, <1>4, <1>5 DEF r

(* remove: the neighbours of a wrapper are linked to each other.             *)
LEMMA RingRemove ==
    ASSUME NEW nx \in [Nodes -> Nodes], NEW pv \in [Nodes -> Nodes],
           NEW m \in Timeouts, NEW q \in Seq(Wrappers),
           Ring(nx, pv, m, q), Distinct(q), NEW j \in 1..Len(q),
           NEW ny, ny = [nx EXCEPT ![pv[q[j]]] = nx[q[j]]],
           NEW pw, pw = [pv EXCEPT ![nx[q[j]]] = pv[q[j]]]
    PROVE  Ring(ny, pw, m, Without(q, j))
<1> DEFINE r == Without(q, j)
           L == Len(q)
<1>1. /\ L \in Nat /\ r \in Seq(Wrappers) /\ Len(r) = L - 1
      /\ \A k \in 1..L - 1 : r[k] = IF k < j THEN q[k] ELSE q[k + 1]
  BY WithoutParts
<1> HIDE DEF r
<1>2. /\ pv[q[j]] = Node(m, q, j + 1) /\ nx[q[j]] = Node(m, q, j - 1)
  <2>1. Node(m, q, j) = q[j]
    BY Places
  <2>2. pv[Node(m, q, j)] = Node(m, q, j + 1)
    BY <1>1 DEF Ring
  <2>3. nx[Node(m, q, j - 1 + 1)] = Node(m, q, j - 1)
    BY <1>1 DEF Ring
  <2>4. j - 1 + 1 = j
    BY <1>1
  <2>5. QED
    BY <2>1, <2>2, <2>3, <2>4
<1>3. /\ \A k \in 0..j - 1 : Node(m, r, k) = Node(m, q, k)
      /\ \A k \in j..L : Node(m, r, k) = Node(m, q, k + 1)
  <2>1. \A k \in 1..L - 1 : Node(m, r, k) = r[k]
    BY <1>1, Places
  <2>2. \A k \in 1..L : Node(m, q, k) = q[k]
    BY Places
  <2>3. Node(m, r, 0) = m /\ Node(m, q, 0) = m /\ Node(m, r, L) = m
        /\ Node(m, q, L + 1) = m
    BY <1>1, Places
  <2>4. ASSUME NEW k \in 0..j - 1 PROVE Node(m, r, k) = Node(m, q, k)
    <3>1. k = 0 \/ (k \in 1..L - 1 /\ k \in 1..L /\ k < j)
      BY <1>1
    <3>2. QED
      BY <1>1, <2>1, <2>2, <2>3, <3>1
  <2>5. ASSUME NEW k \in j..L PROVE Node(m, r, k) = Node(m, q, k + 1)
    <3>1. k = L \/ (k \in 1..L - 1 /\ k + 1 \in 1..L /\ ~(k < j))
      BY <1>1
    <3>2. QED
      BY <1>1, <2>1, <2>2, <2>3, <3>1
  <2>6. QED
    BY <2>4, <2>5
<1>4. \A k \in 0..L : Node(m, q, k) \in Nodes /\ Node(m, q, k + 1) \in Nodes
  BY <1>1, Places
<1>5. \A k \in 0..L : /\ pv[Node(m, q, k)] = Node(m, q, k + 1)
                      /\ nx[Node(m, q, k + 1)] = Node(m, q, k)
  BY DEF Ring
<1>6. ASSUME NEW k \in 0..L, k # j - 1, k # j
      PROVE  pw[Node(m, q, k)] = Node(m, q, k + 1) /\ ny[Node(m, q, k + 1)] = Node(m, q, k)
  <2>1. Node(m, q, k) # Node(m, q, j - 1)
    BY <1>1, <1>6, PlacesDiffer
  <2>2. Node(m, q, k + 1) # Node(m, q, j + 1)
    <3>1. CASE k + 1 \in 0..L /\ j + 1 \in 0..L
      BY <1>1, <1>6, <3>1, PlacesDiffer
    <3>2. CASE k + 1 = L + 1
      <4>1. j + 1 \in 1..L /\ Node(m, q, k + 1) = m
        BY <1>1, <1>6, <3>2, Places
      <4>2. QED
        BY <4>1, Places
    <3>3. CASE j + 1 = L + 1
      <4>1. k + 1 \in 1..L /\ Node(m, q, j + 1) = m
        BY <1>1, <1>6, <3>3, Places
      <4>2. QED
        BY <4>1, Places
    <3>4. L \in Nat
      OBVIOUS
    <3>5. k + 1 \in 0..L \/ k + 1 = L + 1
      BY <3>4
    <3>6. j + 1 \in 0..L \/ j + 1 = L + 1
      BY <3>4
    <3>7. QED
      BY <3>1, <3>2, <3>3, <3>5, <3>6
  <2>3. QED
    BY <1>2, <1>4, <1>5, <2>1, <2>2
<1>7. pw[Node(m, q, j - 1)] = Node(m, q, j + 1) /\ ny[Node(m, q, j + 1)] = Node(m, q, j - 1)
  <2>1. Node(m, q, j - 1) \in Nodes /\ Node(m, q, j + 1) \in Nodes
    BY <1>1, <1>4
  <2>2. QED
    BY <1>2, <2>1
<1>8. ASSUME NEW k \in 0..L - 1
      PROVE  pw[Node(m, r, k)] = Node(m, r, k + 1) /\ ny[Node(m, r, k + 1)] = Node(m, r, k)
  <2>1. CASE k < j - 1
    BY <1>1, <1>3, <1>6, <2>1
  <2>2. CASE k = j - 1
    BY <1>1, <1>3, <1>7, <2>2
  <2>3. CASE k > j - 1
    <3>1. Node(m, r, k) = Node(m, q, k + 1) /\ Node(m, r, k + 1) = Node(m, q, k + 1 + 1)
      BY <1>1, <1>3, <2>3
    <3>2. k + 1 \in 0..L /\ k + 1 # j - 1 /\ k + 1 # j
      BY <1>1, <2>3
    <3>3. QED
      BY <1>6, <3>1, <3>2
  <2>4. QED
    BY <1>1, <2>1, <2>2, <2>3
<1>9. QED
  BY <1>1, <1>8 DEF Ring, r

------------------------------------------------------------------------------
(* The lists.                                                                *)

(* The heads and the wrappers of the active items.                           *)
Linked(t, active) == Timeouts \cup {t.items[i] : i \in active}

(* What is said of some items is the same in both states.                    *)
SameItems(t, r, some) ==
    \A i \in some : r.items[i] = t.items[i] /\ r.wrapper[t.items[i]] = t.wrapper[t.items[i]]

(* A list of the state t is one of r, with other items elsewhere.            *)
LEMMA ListSame ==
    ASSUME NEW t, NEW r, NEW a, NEW b, NEW m \in Timeouts, NEW q \in Seq(Wrappers),
           IsList(t, a, m, q),
           \A x \in {m} \cup {q[k] : k \in 1..Len(q)} :
                r.next[x] = t.next[x] /\ r.prev[x] = t.prev[x],
           NEW some, some = {i \in a : t.wrapper[t.items[i]]._idleTimeout = m},
           some \subseteq b, SameItems(t, r, some),
           \A i \in b \ some : r.wrapper[r.items[i]]._idleTimeout # m
    PROVE  IsList(r, b, m, q)
<1>1. Ring(t.next, t.prev, m, q) /\ Distinct(q) /\ Holds(t, a, m, q) /\ Sorted(t, q)
  BY DEF IsList
<1>2. Ring(r.next, r.prev, m, q)
  BY <1>1, RingElsewhere
<1>3. ASSUME NEW k \in 1..Len(q)
      PROVE  \E i \in some : /\ t.items[i] = q[k] /\ r.items[i] = q[k]
                             /\ r.wrapper[q[k]] = t.wrapper[q[k]]
                             /\ t.wrapper[q[k]]._idleTimeout = m
  <2>1. PICK i \in a : t.items[i] = q[k] /\ t.wrapper[q[k]]._idleTimeout = m
    BY <1>1 DEF Holds
  <2>2. i \in some
    BY <2>1
  <2>3. r.items[i] = t.items[i] /\ r.wrapper[t.items[i]] = t.wrapper[t.items[i]]
    BY <2>2 DEF SameItems
  <2>4. QED
    BY <2>1, <2>2, <2>3
<1>4. ASSUME NEW i \in b, r.wrapper[r.items[i]]._idleTimeout = m
      PROVE  \E k \in 1..Len(q) : q[k] = r.items[i]
  <2>1. i \in some /\ r.items[i] = t.items[i]
    BY <1>4 DEF SameItems
  <2>2. QED
    BY <1>1, <2>1 DEF Holds
<1>5. Holds(r, b, m, q)
  <2>1. \A k \in 1..Len(q) : \E i \in b :
            r.items[i] = q[k] /\ r.wrapper[q[k]]._idleTimeout = m
    BY <1>3
  <2>2. QED
    BY <1>4, <2>1 DEF Holds
<1>6. Sorted(r, q)
  <2> SUFFICES ASSUME NEW j \in 1..Len(q), NEW k \in 1..Len(q), j <= k
               PROVE  r.wrapper[q[j]]._idleStart <= r.wrapper[q[k]]._idleStart
    BY DEF Sorted
  <2>1. r.wrapper[q[j]] = t.wrapper[q[j]] /\ r.wrapper[q[k]] = t.wrapper[q[k]]
    BY <1>3
  <2>2. QED
    BY <1>1, <2>1 DEF Sorted
<1>7. QED
  BY <1>1, <1>2, <1>5, <1>6 DEF IsList

(* The wrappers of a list are linked ones.                                   *)
LEMMA ListLinked ==
    ASSUME NEW t, NEW a, NEW m \in Timeouts, NEW q \in Seq(Wrappers), IsList(t, a, m, q)
    PROVE  \A k \in Int : Node(m, q, k) \in Linked(t, a)
<1>1. SUFFICES ASSUME NEW k \in Int PROVE Node(m, q, k) \in Linked(t, a)
  OBVIOUS
<1>2. CASE k \in 1..Len(q)
  <2>1. \E i \in a : t.items[i] = q[k]
    BY <1>2 DEF IsList, Holds
  <2>2. QED
    BY <1>2, <2>1 DEF Node, Linked
<1>3. CASE k \notin 1..Len(q)
  BY <1>3 DEF Node, Linked
<1>4. QED
  BY <1>2, <1>3

(* Links that change elsewhere leave the lists as they are.                  *)
LEMMA ListsSame ==
    ASSUME NEW t, NEW r, NEW a, ListsOK(t, a), SameItems(t, r, a),
           \A x \in Linked(t, a) : r.next[x] = t.next[x] /\ r.prev[x] = t.prev[x]
    PROVE  ListsOK(r, a)
<1>1. SUFFICES ASSUME NEW m \in Timeouts
               PROVE  \E q \in Seq(Wrappers) : IsList(r, a, m, q)
  BY DEF ListsOK
<1>2. PICK q \in Seq(Wrappers) : IsList(t, a, m, q)
  BY DEF ListsOK
<1> DEFINE some == {i \in a : t.wrapper[t.items[i]]._idleTimeout = m}
<1>3. some \subseteq a /\ SameItems(t, r, some)
  BY DEF SameItems
<1>4. \A i \in a \ some : r.wrapper[r.items[i]]._idleTimeout # m
  BY DEF SameItems
<1>5. \A x \in {m} \cup {q[k] : k \in 1..Len(q)} :
            r.next[x] = t.next[x] /\ r.prev[x] = t.prev[x]
  <2>1. \A k \in 1..Len(q) : q[k] \in Linked(t, a)
    BY <1>2 DEF IsList, Holds, Linked
  <2>2. m \in Linked(t, a)
    BY DEF Linked
  <2>3. QED
    BY <2>1, <2>2
<1> HIDE DEF some
<1>6. some = {i \in a : t.wrapper[t.items[i]]._idleTimeout = m}
  BY DEF some
<1>7. IsList(r, a, m, q)
  BY <1>2, <1>3, <1>4, <1>5, <1>6, ListSame
<1>8. QED
  BY <1>7

(* What the nodes of a list tell of it: x is its head, or one of its.        *)
Among(t, m, x) == x = m \/ (x \in Wrappers /\ t.wrapper[x]._idleTimeout = m)

LEMMA ListNodes ==
    ASSUME NEW t, NEW a, NEW m \in Timeouts, NEW q \in Seq(Wrappers),
           IsList(t, a, m, q), NEW k \in Int
    PROVE  Among(t, m, Node(m, q, k))
<1>1. CASE k \in 1..Len(q)
  <2>1. Node(m, q, k) = q[k] /\ q[k] \in Wrappers
    BY <1>1, Places
  <2>2. t.wrapper[q[k]]._idleTimeout = m
    BY <1>1 DEF IsList, Holds
  <2>3. QED
    BY <2>1, <2>2 DEF Among
<1>2. CASE k \notin 1..Len(q)
  BY <1>2, Places DEF Among
<1>3. QED
  BY <1>1, <1>2

(* Each item has a wrapper, and none the same.                               *)
Apart(t, some) ==
    /\ \A i \in some : t.items[i] \in Wrappers
    /\ \A i, j \in some : t.items[i] = t.items[j] => i = j

(* The links of r are those of t after remove, or append.                    *)
Removed(t, r, w) ==
    /\ r.next = [t.next EXCEPT ![t.prev[w]] = t.next[w]]
    /\ r.prev = [t.prev EXCEPT ![t.next[w]] = t.prev[w]]

Appended(t, r, m, w) ==
    /\ r.next = [t.next EXCEPT ![w] = t.next[m], ![m] = w]
    /\ r.prev = [t.prev EXCEPT ![t.next[m]] = w, ![w] = m]

(* remove, of the wrapper of an active item: its neighbours are changed, and *)
(* it is in no list then.                                                    *)
LEMMA ListsDrop ==
    ASSUME NEW t \in ListsType, NEW a \in SUBSET Items, ListsOK(t, a),
           Apart(t, a),
           NEW i \in a, NEW w, w = t.items[i],
           t.wrapper[w]._idleTimeout \in Timeouts,
           NEW r \in ListsType,
           Removed(t, r, w), SameItems(t, r, a \ {i})
    PROVE  /\ ListsOK(r, a \ {i})
           /\ t.next[w] \in Linked(t, a) /\ t.prev[w] \in Linked(t, a)
           /\ LET m == t.wrapper[w]._idleTimeout
              IN r.prev[m] = m => \A j \in a \ {i} : t.wrapper[t.items[j]]._idleTimeout # m
<1> DEFINE b == a \ {i}
<1>1. PICK m \in Timeouts : m = t.wrapper[w]._idleTimeout
  OBVIOUS
<1>2. /\ w \in Wrappers
      /\ t.next \in [Nodes -> Nodes] /\ t.prev \in [Nodes -> Nodes]
  BY DEF ListsType, Apart
<1>3. PICK q \in Seq(Wrappers) : IsList(t, a, m, q)
  BY <1>2 DEF ListsOK
<1>4. /\ Ring(t.next, t.prev, m, q) /\ Distinct(q) /\ Holds(t, a, m, q) /\ Sorted(t, q)
      /\ Len(q) \in Nat
  BY <1>3 DEF IsList
<1>5. PICK j \in 1..Len(q) : q[j] = w
  BY <1>4, <1>1 DEF Holds
<1>6. t.next[w] = Node(m, q, j - 1) /\ t.prev[w] = Node(m, q, j + 1)
  <2>1. Node(m, q, j) = w
    BY <1>2, <1>5, Places
  <2>2. /\ t.prev[Node(m, q, j)] = Node(m, q, j + 1)
        /\ t.next[Node(m, q, j - 1 + 1)] = Node(m, q, j - 1)
    BY <1>4 DEF Ring
  <2>3. j - 1 + 1 = j
    BY <1>4
  <2>4. QED
    BY <2>1, <2>2, <2>3
<1> DEFINE s == Without(q, j)
<1>7. /\ s \in Seq(Wrappers) /\ Len(s) = Len(q) - 1 /\ Distinct(s)
      /\ \A k \in 1..Len(s) : s[k] = IF k < j THEN q[k] ELSE q[k + 1]
      /\ \A k \in 1..Len(s) : s[k] # w
      /\ \A k \in 1..Len(q) : k # j => \E l \in 1..Len(s) : s[l] = q[k]
  BY <1>4, <1>5, WithoutParts
<1>8. Ring(r.next, r.prev, m, s)
  BY <1>2, <1>4, <1>5, RingRemove, SMTT(30) DEF Removed
<1> HIDE DEF s
<1>9. ASSUME NEW k \in 1..Len(s)
      PROVE  \E l \in 1..Len(q) : \E x \in b :
                 /\ l = (IF k < j THEN k ELSE k + 1) /\ s[k] = q[l]
                 /\ t.items[x] = s[k] /\ r.items[x] = s[k]
                 /\ r.wrapper[s[k]] = t.wrapper[s[k]]
                 /\ t.wrapper[s[k]]._idleTimeout = m
  <2> DEFINE l == IF k < j THEN k ELSE k + 1
  <2>1. l \in 1..Len(q) /\ s[k] = q[l]
    BY <1>4, <1>7
  <2>2. PICK x \in a : t.items[x] = q[l] /\ t.wrapper[q[l]]._idleTimeout = m
    BY <1>4, <2>1 DEF Holds
  <2>3. x \in b
    BY <1>7, <2>1, <2>2
  <2>4. QED
    BY <2>1, <2>2, <2>3 DEF SameItems
<1>10. ASSUME NEW x \in b, t.wrapper[t.items[x]]._idleTimeout = m
      PROVE  \E k \in 1..Len(s) : s[k] = t.items[x]
  <2>1. PICK k \in 1..Len(q) : q[k] = t.items[x]
    BY <1>4, <1>10 DEF Holds
  <2>2. k # j
    BY <1>5, <2>1 DEF Apart
  <2>3. QED
    BY <1>7, <2>1, <2>2
<1>11. IsList(r, b, m, s)
  <2>1. \A k \in 1..Len(s) : \E x \in b :
            r.items[x] = s[k] /\ r.wrapper[s[k]]._idleTimeout = m
    BY <1>9
  <2>2. \A x \in b : r.wrapper[r.items[x]]._idleTimeout = m =>
            \E k \in 1..Len(s) : s[k] = r.items[x]
    BY <1>10 DEF SameItems
  <2>3. ASSUME NEW k \in 1..Len(s), NEW l \in 1..Len(s), k <= l
        PROVE  r.wrapper[s[k]]._idleStart <= r.wrapper[s[l]]._idleStart
    <3>1. PICK u \in 1..Len(q) : /\ u = (IF k < j THEN k ELSE k + 1) /\ s[k] = q[u]
                                 /\ r.wrapper[s[k]] = t.wrapper[s[k]]
      BY <1>9
    <3>2. PICK v \in 1..Len(q) : /\ v = (IF l < j THEN l ELSE l + 1) /\ s[l] = q[v]
                                 /\ r.wrapper[s[l]] = t.wrapper[s[l]]
      BY <1>9
    <3>3. u <= v
      BY <1>4, <1>7, <2>3, <3>1, <3>2
    <3>4. t.wrapper[q[u]]._idleStart <= t.wrapper[q[v]]._idleStart
      BY <1>4, <3>3 DEF Sorted
    <3>5. QED
      BY <3>1, <3>2, <3>4
  <2>4. QED
    BY <1>7, <1>8, <2>1, <2>2, <2>3 DEF IsList, Holds, Sorted
<1>12. ASSUME NEW l \in Timeouts, l # m
       PROVE  \E p \in Seq(Wrappers) : IsList(r, b, l, p)
  <2>1. PICK p \in Seq(Wrappers) : IsList(t, a, l, p)
    BY DEF ListsOK
  <2> DEFINE some == {x \in a : t.wrapper[t.items[x]]._idleTimeout = l}
  <2>2. some \subseteq b
    BY <1>12, <1>1
  <2>3. SameItems(t, r, some)
    BY <2>2 DEF SameItems
  <2>4. \A x \in b \ some : r.wrapper[r.items[x]]._idleTimeout # l
    BY DEF SameItems
  <2>5. ASSUME NEW x \in {l} \cup {p[k] : k \in 1..Len(p)}
        PROVE  r.next[x] = t.next[x] /\ r.prev[x] = t.prev[x]
    <3>1. x = l \/ (x \in Wrappers /\ t.wrapper[x]._idleTimeout = l)
      BY <2>1 DEF IsList, Holds
    <3>2. x \in Nodes /\ x # m /\ (x \in Wrappers => t.wrapper[x]._idleTimeout # m)
      BY <1>2, <1>12, <3>1, NodesApart
    <3>3. Among(t, m, Node(m, q, j - 1)) /\ Among(t, m, Node(m, q, j + 1))
      <4>1. j - 1 \in Int /\ j + 1 \in Int
        OBVIOUS
      <4>2. QED
        BY <1>2, <1>3, <4>1, ListNodes
    <3>4. x # t.next[w] /\ x # t.prev[w]
      BY <1>6, <3>2, <3>3 DEF Among
    <3>5. QED
      BY <1>2, <3>2, <3>4 DEF Removed
  <2> HIDE DEF some
  <2>6. some = {x \in a : t.wrapper[t.items[x]]._idleTimeout = l}
    BY DEF some
  <2>7. IsList(r, b, l, p)
    BY <2>1, <2>2, <2>3, <2>4, <2>5, <2>6, ListSame
  <2>8. QED
    BY <2>7
<1>13. ListsOK(r, b)
  <2> SUFFICES ASSUME NEW l \in Timeouts
               PROVE  \E p \in Seq(Wrappers) : IsList(r, b, l, p)
    BY DEF ListsOK
  <2>1. s \in Seq(Wrappers)
    BY <1>7
  <2>2. CASE l = m
    BY <1>11, <2>1, <2>2
  <2>3. CASE l # m
    BY <1>12, <2>3
  <2>4. QED
    BY <2>2, <2>3
<1>14. t.next[w] \in Linked(t, a) /\ t.prev[w] \in Linked(t, a)
  BY <1>2, <1>3, <1>6, ListLinked
<1>15. r.prev[m] = m => \A x \in b : t.wrapper[t.items[x]]._idleTimeout # m
  <2> SUFFICES ASSUME r.prev[m] = m, NEW x \in b, t.wrapper[t.items[x]]._idleTimeout = m
               PROVE  FALSE
    OBVIOUS
  <2>1. s \in Seq(Wrappers) /\ m \in Timeouts
    BY <1>2, <1>7
  <2>2. Len(s) = 0
    BY <1>8, <2>1, EmptyRing
  <2>3. QED
    BY <1>10, <2>2
<1>16. QED
  BY <1>13, <1>14, <1>15, <1>1

(* The last activity of the items is not in the future; none has the wrapper *)
(* w; the wrapper w of an item is used at this time.                         *)
Past(t, some) == \A i \in some : t.wrapper[t.items[i]]._idleStart <= now

Other(t, some, w) == \A i \in some : t.items[i] # w

Used(t, i, m, w) ==
    /\ t.items[i] = w /\ t.wrapper[w]._idleTimeout = m /\ t.wrapper[w]._idleStart = now

(* append, of a wrapper that is in no list: it comes last, with the time now *)
(* of its activity.                                                          *)
LEMMA ListsAdd ==
    ASSUME NEW t \in ListsType, NEW a \in SUBSET Items, ListsOK(t, a), Apart(t, a),
           Past(t, a), now \in Nat,
           NEW i \in Items \ a, NEW w \in Wrappers, Other(t, a, w),
           NEW m \in Timeouts,
           NEW r \in ListsType, Appended(t, r, m, w), SameItems(t, r, a),
           Used(r, i, m, w)
    PROVE  ListsOK(r, a \cup {i}) /\ t.next[m] \in Linked(t, a)
<1> DEFINE b == a \cup {i}
<1>1. t.next \in [Nodes -> Nodes] /\ t.prev \in [Nodes -> Nodes]
  BY DEF ListsType
<1>2. PICK q \in Seq(Wrappers) : IsList(t, a, m, q)
  BY DEF ListsOK
<1>3. /\ Ring(t.next, t.prev, m, q) /\ Distinct(q) /\ Holds(t, a, m, q) /\ Sorted(t, q)
      /\ Len(q) \in Nat
  BY <1>2 DEF IsList
<1>4. t.next[m] = Node(m, q, Len(q))
  <2> DEFINE nx == t.next
             pv == t.prev
  <2>1. Ring(nx, pv, m, q)
    BY <1>3
  <2> HIDE DEF nx, pv
  <2>2. nx[m] = Node(m, q, Len(q))
    BY <2>1, RingEnd
  <2>3. QED
    BY <2>2 DEF nx
<1>5. \A k \in 1..Len(q) : q[k] # w
  BY <1>3 DEF Holds, Other
<1> DEFINE s == Append(q, w)
<1>6. s \in Seq(Wrappers) /\ Distinct(s) /\ Ring(r.next, r.prev, m, s)
  BY <1>1, <1>3, <1>5, RingAppend DEF Appended
<1>7. /\ Len(s) = Len(q) + 1 /\ s[Len(q) + 1] = w
      /\ \A k \in 1..Len(q) : s[k] = q[k]
  BY <1>3
<1> HIDE DEF s
<1>8. ASSUME NEW k \in 1..Len(q)
      PROVE  \E x \in a : /\ t.items[x] = s[k] /\ r.items[x] = s[k]
                          /\ r.wrapper[s[k]] = t.wrapper[s[k]]
                          /\ t.wrapper[s[k]]._idleTimeout = m
                          /\ t.wrapper[s[k]]._idleStart <= now
  <2>1. PICK x \in a : t.items[x] = q[k] /\ t.wrapper[q[k]]._idleTimeout = m
    BY <1>3 DEF Holds
  <2>2. QED
    BY <1>7, <2>1 DEF SameItems, Past
<1>9. \A k \in 1..Len(s) : k \in 1..Len(q) \/ k = Len(q) + 1
  BY <1>3, <1>7
<1>10. IsList(r, b, m, s)
  <2>1. ASSUME NEW k \in 1..Len(s)
        PROVE  \E x \in b : r.items[x] = s[k] /\ r.wrapper[s[k]]._idleTimeout = m
    <3>1. CASE k \in 1..Len(q)
      <4>1. PICK x \in a : /\ t.items[x] = s[k] /\ r.items[x] = s[k]
                           /\ r.wrapper[s[k]] = t.wrapper[s[k]]
                           /\ t.wrapper[s[k]]._idleTimeout = m
        BY <1>8, <3>1
      <4>2. QED
        BY <4>1
    <3>2. CASE k = Len(q) + 1
      BY <1>7, <3>2 DEF Used
    <3>3. QED
      BY <1>9, <3>1, <3>2
  <2>2. ASSUME NEW x \in b, r.wrapper[r.items[x]]._idleTimeout = m
        PROVE  \E k \in 1..Len(s) : s[k] = r.items[x]
    <3>1. CASE x = i
      <4>1. Len(q) + 1 \in 1..Len(s)
        BY <1>3, <1>7
      <4>2. QED
        BY <1>7, <3>1, <4>1 DEF Used
    <3>2. CASE x \in a
      <4>1. t.wrapper[t.items[x]]._idleTimeout = m /\ r.items[x] = t.items[x]
        BY <2>2, <3>2 DEF SameItems
      <4>2. PICK k \in 1..Len(q) : q[k] = t.items[x]
        BY <1>3, <3>2, <4>1 DEF Holds
      <4>3. k \in 1..Len(s) /\ s[k] = q[k]
        BY <1>3, <1>7
      <4>4. QED
        BY <4>1, <4>2, <4>3
    <3>3. QED
      BY <3>1, <3>2
  <2>3. ASSUME NEW k \in 1..Len(s), NEW l \in 1..Len(s), k <= l
        PROVE  r.wrapper[s[k]]._idleStart <= r.wrapper[s[l]]._idleStart
    <3>1. CASE l = Len(q) + 1
      <4>1. CASE k = l
        <5>1. s[k] = w /\ s[l] = w
          BY <1>7, <3>1, <4>1
        <5>2. now <= now
          OBVIOUS
        <5>3. QED
          BY <5>1, <5>2 DEF Used
      <4>2. CASE k # l
        <5>1. k \in 1..Len(q) /\ s[l] = w
          BY <1>3, <1>7, <1>9, <2>3, <3>1, <4>2
        <5>2. QED
          BY <1>8, <5>1 DEF Used
      <4>3. QED
        BY <4>1, <4>2
    <3>2. CASE l \in 1..Len(q)
      <4>1. k \in 1..Len(q)
        BY <1>3, <1>9, <2>3, <3>2
      <4>2. /\ r.wrapper[s[k]] = t.wrapper[q[k]] /\ r.wrapper[s[l]] = t.wrapper[q[l]]
        BY <1>7, <1>8, <3>2, <4>1
      <4>3. t.wrapper[q[k]]._idleStart <= t.wrapper[q[l]]._idleStart
        BY <1>3, <2>3, <3>2, <4>1 DEF Sorted
      <4>4. QED
        BY <4>2, <4>3
    <3>3. QED
      BY <1>9, <3>1, <3>2
  <2>4. Holds(r, b, m, s)
    BY <2>1, <2>2 DEF Holds
  <2>5. Sorted(r, s)
    BY <2>3 DEF Sorted
  <2>6. QED
    BY <1>6, <2>4, <2>5 DEF IsList
<1>11. ASSUME NEW l \in Timeouts, l # m
       PROVE  \E p \in Seq(Wrappers) : IsList(r, b, l, p)
  <2>1. PICK p \in Seq(Wrappers) : IsList(t, a, l, p)
    BY DEF ListsOK
  <2> DEFINE some == {x \in a : t.wrapper[t.items[x]]._idleTimeout = l}
  <2>2. some \subseteq b /\ SameItems(t, r, some)
    BY DEF SameItems
  <2>3. \A x \in b \ some : r.wrapper[r.items[x]]._idleTimeout # l
    BY <1>11 DEF SameItems, Used
  <2>4. ASSUME NEW x \in {l} \cup {p[k] : k \in 1..Len(p)}
        PROVE  r.next[x] = t.next[x] /\ r.prev[x] = t.prev[x]
    <3>1. x = l \/ (x \in Wrappers /\ x # w /\ t.wrapper[x]._idleTimeout = l)
      BY <2>1 DEF IsList, Holds, Other
    <3>2. x \in Nodes /\ x # m /\ x # w /\ (x \in Wrappers => t.wrapper[x]._idleTimeout # m)
      BY <1>11, <3>1, NodesApart
    <3>3. Among(t, m, t.next[m])
      <4>1. Len(q) \in Int
        BY <1>3
      <4>2. PICK k \in Int : t.next[m] = Node(m, q, k)
        BY <1>4, <4>1
      <4>3. QED
        BY <1>2, <4>2, ListNodes
    <3>4. x # t.next[m]
      BY <3>2, <3>3 DEF Among
    <3>5. QED
      BY <1>1, <3>2, <3>4 DEF Appended
  <2> HIDE DEF some
  <2>5. some = {x \in a : t.wrapper[t.items[x]]._idleTimeout = l}
    BY DEF some
  <2>6. IsList(r, b, l, p)
    BY <2>1, <2>2, <2>3, <2>4, <2>5, ListSame
  <2>7. QED
    BY <2>6
<1>12. ListsOK(r, b)
  <2> SUFFICES ASSUME NEW l \in Timeouts
               PROVE  \E p \in Seq(Wrappers) : IsList(r, b, l, p)
    BY DEF ListsOK
  <2>1. CASE l = m
    BY <1>6, <1>10, <2>1
  <2>2. CASE l # m
    BY <1>11, <2>2
  <2>3. QED
    BY <2>1, <2>2
<1>13. t.next[m] \in Linked(t, a)
  <2>1. Len(q) \in Int
    BY <1>3
  <2>2. QED
    BY <1>2, <1>4, <2>1, ListLinked
<1>14. QED
  BY <1>12, <1>13

------------------------------------------------------------------------------
(* What the functions of timers.lua change.                                  *)

SameData(t, r) == r.items = t.items /\ r.wrapper = t.wrapper /\ r.watcher = t.watcher

SameLinks(t, r) == r.next = t.next /\ r.prev = t.prev

(* One field of a watcher, of a wrapper, and of an item.                     *)
PutExpires(t, m, e) == [t EXCEPT !.watcher[m].expires = e]

PutStart(t, w) == [t EXCEPT !.wrapper[w]._idleStart = now]

PutItem(t, i, w) == [t EXCEPT !.items[i] = w]

(* New links.                                                                *)
WithLinks(t, r, nx, pv) ==
    \/ r = [[t EXCEPT !.prev = pv] EXCEPT !.next = nx]
    \/ r = [[t EXCEPT !.next = nx] EXCEPT !.prev = pv]

(* They are all that changes.                                                *)
LEMMA LinksParts ==
    ASSUME NEW t \in ListsType,
           NEW nx \in [Nodes -> Nodes], NEW pv \in [Nodes -> Nodes],
           NEW r, WithLinks(t, r, nx, pv)
    PROVE  r \in ListsType /\ r.next = nx /\ r.prev = pv /\ SameData(t, r)
<1>1. t = [next |-> t.next, prev |-> t.prev, items |-> t.items,
           wrapper |-> t.wrapper, watcher |-> t.watcher]
  BY DEF ListsType
<1>2. r = [next |-> nx, prev |-> pv, items |-> t.items,
           wrapper |-> t.wrapper, watcher |-> t.watcher]
  BY <1>1 DEF WithLinks
<1>3. QED
  BY <1>2 DEF ListsType, SameData

(* remove changes the links of the neighbours.                               *)
LEMMA RemoveParts ==
    ASSUME NEW t \in ListsType, NEW w \in Nodes
    PROVE  /\ remove(t, w) \in ListsType /\ Removed(t, remove(t, w), w)
           /\ SameData(t, remove(t, w))
<1> DEFINE nx == [t.next EXCEPT ![t.prev[w]] = t.next[w]]
           pv == [t.prev EXCEPT ![t.next[w]] = t.prev[w]]
<1>1. nx \in [Nodes -> Nodes] /\ pv \in [Nodes -> Nodes]
  BY DEF ListsType
<1>2. [t EXCEPT !.prev = pv].next = t.next
  BY DEF ListsType
<1>3. WithLinks(t, remove(t, w), nx, pv)
  BY <1>2, Zenon DEF remove, WithLinks
<1> HIDE DEF nx, pv
<1>4. /\ remove(t, w) \in ListsType /\ remove(t, w).next = nx
      /\ remove(t, w).prev = pv /\ SameData(t, remove(t, w))
  BY <1>1, <1>3, LinksParts
<1>5. QED
  BY <1>4 DEF Removed, nx, pv

(* append changes the links of the head and of the last wrapper.             *)
LEMMA AppendParts ==
    ASSUME NEW t \in ListsType, NEW m \in Timeouts, NEW w \in Wrappers
    PROVE  /\ append(t, m, w) \in ListsType /\ Appended(t, append(t, m, w), m, w)
           /\ SameData(t, append(t, m, w))
<1> DEFINE nx == [t.next EXCEPT ![w] = t.next[m], ![m] = w]
           pv == [t.prev EXCEPT ![t.next[m]] = w, ![w] = m]
<1>1. nx \in [Nodes -> Nodes] /\ pv \in [Nodes -> Nodes]
  BY NodesApart DEF ListsType
<1>2. [t EXCEPT !.next = nx].prev = t.prev
  BY DEF ListsType
<1>3. WithLinks(t, append(t, m, w), nx, pv)
  BY <1>2, Zenon DEF append, WithLinks
<1> HIDE DEF nx, pv
<1>4. /\ append(t, m, w) \in ListsType /\ append(t, m, w).next = nx
      /\ append(t, m, w).prev = pv /\ SameData(t, append(t, m, w))
  BY <1>1, <1>3, LinksParts
<1>5. QED
  BY <1>4 DEF Appended, nx, pv

(* Timer:again and Timer:stop change when the watcher expires.               *)
LEMMA WatcherParts ==
    ASSUME NEW t \in ListsType, NEW m \in Timeouts, NEW e \in Nat,
           NEW r, r = PutExpires(t, m, e)
    PROVE  /\ r \in ListsType /\ SameLinks(t, r)
           /\ r.items = t.items /\ r.wrapper = t.wrapper
           /\ r.watcher[m].expires = e /\ r.watcher[m].due = t.watcher[m].due
           /\ \A l \in Timeouts : l # m => r.watcher[l] = t.watcher[l]
<1>1. /\ t = [next |-> t.next, prev |-> t.prev, items |-> t.items,
              wrapper |-> t.wrapper, watcher |-> t.watcher]
      /\ t.watcher \in [Timeouts -> WatcherType]
  BY DEF ListsType
<1> DEFINE v == [t.watcher EXCEPT ![m].expires = e]
<1>2. r = [next |-> t.next, prev |-> t.prev, items |-> t.items,
           wrapper |-> t.wrapper, watcher |-> v]
  BY <1>1 DEF PutExpires
<1>3. /\ v \in [Timeouts -> WatcherType]
      /\ v[m].expires = e /\ v[m].due = t.watcher[m].due
      /\ \A l \in Timeouts : l # m => v[l] = t.watcher[l]
  BY <1>1 DEF WatcherType
<1> HIDE DEF v
<1>4. QED
  BY <1>2, <1>3 DEF SameLinks, ListsType

(* The time of the last activity of a wrapper.                               *)
LEMMA StartParts ==
    ASSUME NEW t \in ListsType, NEW w \in Wrappers, now \in Nat,
           NEW r, r = PutStart(t, w)
    PROVE  /\ r \in ListsType /\ SameLinks(t, r)
           /\ r.items = t.items /\ r.watcher = t.watcher
           /\ r.wrapper[w]._idleStart = now
           /\ r.wrapper[w].item = t.wrapper[w].item
           /\ r.wrapper[w]._idleTimeout = t.wrapper[w]._idleTimeout
           /\ \A x \in Wrappers : x # w => r.wrapper[x] = t.wrapper[x]
<1>1. /\ t = [next |-> t.next, prev |-> t.prev, items |-> t.items,
              wrapper |-> t.wrapper, watcher |-> t.watcher]
      /\ t.wrapper \in [Wrappers -> WrapperType]
  BY DEF ListsType
<1> DEFINE v == [t.wrapper EXCEPT ![w]._idleStart = now]
<1>2. r = [next |-> t.next, prev |-> t.prev, items |-> t.items,
           wrapper |-> v, watcher |-> t.watcher]
  BY <1>1 DEF PutStart
<1>3. /\ v \in [Wrappers -> WrapperType]
      /\ v[w]._idleStart = now /\ v[w].item = t.wrapper[w].item
      /\ v[w]._idleTimeout = t.wrapper[w]._idleTimeout
      /\ \A x \in Wrappers : x # w => v[x] = t.wrapper[x]
  BY <1>1 DEF WrapperType
<1> HIDE DEF v
<1>4. QED
  BY <1>2, <1>3 DEF SameLinks, ListsType

------------------------------------------------------------------------------
(* What the invariant says of a state of the lists.                          *)

(* Its parts, and what ListsDrop and ListsAdd need.                          *)
LEMMA FitsParts ==
    ASSUME NEW t, NEW h, NEW X, Fits(t, h, X)
    PROVE  /\ t \in ListsType /\ h \in HistoryType
           /\ h.active \in SUBSET Items /\ h.fired \in SUBSET Items
           /\ ListsOK(t, h.active) /\ Wrapped(t, h) /\ Loose(t, h)
           /\ TimedOut(t, h) /\ Watched(t, h, X)
           /\ Apart(t, h.active) /\ Past(t, h.active)
<1>1. /\ t \in ListsType /\ h \in HistoryType
      /\ h.active \in SUBSET Items /\ h.fired \in SUBSET Items
      /\ ListsOK(t, h.active) /\ Wrapped(t, h) /\ Loose(t, h)
      /\ TimedOut(t, h) /\ Watched(t, h, X)
  BY DEF Fits, HistoryType
<1>2. \A i \in h.active : t.items[i] \in Wrappers
  BY <1>1 DEF ListsType, Wrapped
<1>3. \A i, j \in h.active : t.items[i] = t.items[j] => i = j
  BY <1>1 DEF Wrapped
<1>4. \A i \in h.active : t.wrapper[t.items[i]]._idleStart <= now
  BY <1>1 DEF Wrapped
<1>5. QED
  BY <1>1, <1>2, <1>3, <1>4 DEF Apart, Past

(* The wrapper of an enrolled item.                                          *)
LEMMA ItemParts ==
    ASSUME NEW t \in ListsType, NEW h, Wrapped(t, h),
           NEW i \in Items, t.items[i] # NoWrapper
    PROVE  /\ t.items[i] \in Wrappers
           /\ t.wrapper[t.items[i]].item = i
           /\ t.wrapper[t.items[i]]._idleTimeout \in Timeouts
           /\ t.wrapper[t.items[i]]._idleStart \in Nat
<1>1. t.items[i] \in Wrappers /\ t.wrapper \in [Wrappers -> WrapperType]
  BY DEF ListsType
<1>2. t.wrapper[t.items[i]]._idleStart \in Nat
  BY <1>1 DEF WrapperType
<1>3. QED
  BY <1>1, <1>2 DEF Wrapped

(* No item is in a list whose head is linked to itself.                      *)
LEMMA NoneLeft ==
    ASSUME NEW t, NEW a, ListsOK(t, a), NEW m \in Timeouts,
           t.prev[m] = m \/ t.next[m] = m
    PROVE  \A i \in a : t.wrapper[t.items[i]]._idleTimeout # m
<1>1. PICK q \in Seq(Wrappers) : IsList(t, a, m, q)
  BY DEF ListsOK
<1>2. Ring(t.next, t.prev, m, q) /\ Holds(t, a, m, q)
  BY <1>1 DEF IsList
<1>3. Len(q) = 0
  BY <1>2, EmptyRing
<1>4. QED
  BY <1>2, <1>3 DEF Holds

(* The last one of a list is linked to its head.                             *)
LEMMA HeadLinked ==
    ASSUME NEW t, NEW a, ListsOK(t, a), NEW m \in Timeouts
    PROVE  t.next[t.prev[m]] = m
<1>1. PICK q \in Seq(Wrappers) : Ring(t.next, t.prev, m, q)
  BY DEF ListsOK, IsList
<1>2. /\ t.prev[Node(m, q, 0)] = Node(m, q, 0 + 1)
      /\ t.next[Node(m, q, 0 + 1)] = Node(m, q, 0)
  BY <1>1 DEF Ring
<1>3. Node(m, q, 0) = m
  BY Places
<1>4. QED
  BY <1>2, <1>3

(* Only the heads, and the wrappers of the items b, have new links.          *)
Elsewhere(t, r, b) ==
    \A x \in Nodes \ Linked(t, b) : r.next[x] = t.next[x] /\ r.prev[x] = t.prev[x]

(* What has not been in a list has not been touched.                         *)
Untouched(t, r, h, g, b) ==
    \A i \in Items : r.items[i] # NoWrapper /\ i \notin g.active \cup g.fired =>
        /\ r.items[i] = t.items[i]
        /\ i \notin b /\ i \notin h.active \cup h.fired

(* It is loose as before.                                                    *)
LEMMA LooseElsewhere ==
    ASSUME NEW t \in ListsType, NEW r, NEW h, NEW g, Wrapped(t, h), Loose(t, h),
           NEW b \in SUBSET Items, \A i \in b : t.items[i] # NoWrapper,
           Elsewhere(t, r, b), Untouched(t, r, h, g, b)
    PROVE  Loose(r, g)
<1>1. \A i \in b : t.items[i] \in Wrappers
  BY DEF ListsType
<1>2. ASSUME NEW i \in Items PROVE r.next[i] = i /\ r.prev[i] = i
  <2>1. i \in Nodes /\ i \notin Linked(t, b)
    BY <1>1, NodesApart DEF Linked
  <2>2. QED
    BY <2>1 DEF Elsewhere, Loose
<1>3. ASSUME NEW i \in Items, r.items[i] # NoWrapper, i \notin g.active \cup g.fired
      PROVE  r.next[r.items[i]] = i /\ r.prev[r.items[i]] = i
  <2>1. r.items[i] = t.items[i] /\ i \notin b /\ i \notin h.active \cup h.fired
    BY <1>3 DEF Untouched
  <2>2. t.items[i] \in Wrappers /\ t.items[i] \in Nodes
    BY <1>3, <2>1, NodesApart DEF ListsType
  <2>3. \A j \in b : t.items[j] # t.items[i]
    BY <2>1, <1>3 DEF Wrapped
  <2>4. t.items[i] \notin Linked(t, b)
    BY <2>2, <2>3, NodesApart DEF Linked
  <2>5. t.next[t.items[i]] = i /\ t.prev[t.items[i]] = i
    BY <1>3, <2>1 DEF Loose
  <2>6. QED
    BY <2>1, <2>2, <2>4, <2>5 DEF Elsewhere
<1>4. QED
  BY <1>2, <1>3 DEF Loose

(* What has timed out keeps its link as well.                                *)
LEMMA TimedOutElsewhere ==
    ASSUME NEW t \in ListsType, NEW r, NEW h \in HistoryType, NEW g,
           Wrapped(t, h), TimedOut(t, h),
           NEW b \in SUBSET Items, Elsewhere(t, r, b),
           \A j \in g.fired : /\ j \in h.fired /\ j \notin b /\ j \notin g.active
                              /\ r.items[j] = t.items[j]
                              /\ r.wrapper[t.items[j]]._idleTimeout
                                     = t.wrapper[t.items[j]]._idleTimeout
    PROVE  TimedOut(r, g)
<1>1. SUFFICES ASSUME NEW j \in g.fired
               PROVE  LET w == r.items[j]
                      IN /\ j \notin g.active /\ w # NoWrapper
                         /\ r.next[w] = r.wrapper[w]._idleTimeout
  BY DEF TimedOut
<1>2. /\ j \in h.fired /\ j \in Items /\ j \notin g.active /\ j \notin b
      /\ r.items[j] = t.items[j] /\ t.items[j] # NoWrapper
      /\ t.next[t.items[j]] = t.wrapper[t.items[j]]._idleTimeout
  BY DEF TimedOut, HistoryType
<1>3. t.items[j] \in Wrappers /\ t.items[j] \in Nodes
  BY <1>2, ItemParts, NodesApart
<1>4. \A k \in b : t.items[k] # t.items[j]
  BY <1>2 DEF Wrapped
<1>5. t.items[j] \notin Linked(t, b)
  BY <1>3, <1>4, NodesApart DEF Linked
<1>6. r.next[t.items[j]] = t.next[t.items[j]]
  BY <1>3, <1>5 DEF Elsewhere
<1>7. QED
  BY <1>2, <1>6

------------------------------------------------------------------------------
(* Unenroll.                                                                 *)

(* The history when an item has its timeout taken away, and when it is used. *)
Forgets(h, g, i) ==
    /\ g.active = h.active \ {i} /\ g.fired = h.fired \ {i}
    /\ \A j \in Items \ {i} : g.since[j] = h.since[j]

(* Another item gets another wrapper, or none.                               *)
LEMMA ItemsPut ==
    ASSUME NEW t \in ListsType, NEW i \in Items, NEW w \in Wrappers \cup {NoWrapper},
           NEW r, r = PutItem(t, i, w)
    PROVE  /\ r \in ListsType /\ SameLinks(t, r)
           /\ r.wrapper = t.wrapper /\ r.watcher = t.watcher
           /\ r.items[i] = w /\ \A j \in Items : j # i => r.items[j] = t.items[j]
<1>1. /\ t = [next |-> t.next, prev |-> t.prev, items |-> t.items,
              wrapper |-> t.wrapper, watcher |-> t.watcher]
      /\ t.items \in [Items -> Wrappers \cup {NoWrapper}]
  BY DEF ListsType
<1> DEFINE v == [t.items EXCEPT ![i] = w]
<1>2. r = [next |-> t.next, prev |-> t.prev, items |-> v,
           wrapper |-> t.wrapper, watcher |-> t.watcher]
  BY <1>1 DEF PutItem
<1>3. /\ v \in [Items -> Wrappers \cup {NoWrapper}]
      /\ v[i] = w /\ \A j \in Items : j # i => v[j] = t.items[j]
  BY <1>1
<1> HIDE DEF v
<1>4. QED
  BY <1>2, <1>3 DEF SameLinks, ListsType

(* Unenroll removes the wrapper, and stops the watcher of a list that is     *)
(* left without any.                                                         *)
LEMMA UnenrollParts ==
    ASSUME NEW t \in ListsType, NEW i \in Items, NEW w \in Wrappers, w = t.items[i],
           NEW m \in Timeouts, m = t.wrapper[w]._idleTimeout,
           NEW r, r = Unenroll(t, i)
    PROVE  /\ r \in ListsType /\ Removed(t, r, w) /\ r.wrapper = t.wrapper
           /\ r.items[i] = NoWrapper /\ \A j \in Items : j # i => r.items[j] = t.items[j]
           /\ \A l \in Timeouts : l # m \/ r.prev[m] # m => r.watcher[l] = t.watcher[l]
<1> DEFINE out == remove(t, w)
           stopped == IF out.prev[m] = m THEN stop(out, m) ELSE out
<1>1. out \in ListsType /\ Removed(t, out, w) /\ SameData(t, out)
  BY RemoveParts, NodesApart
<1> HIDE DEF out
<1>2. /\ stopped \in ListsType /\ SameLinks(out, stopped)
      /\ stopped.items = out.items /\ stopped.wrapper = out.wrapper
      /\ \A l \in Timeouts : l # m \/ out.prev[m] # m => stopped.watcher[l] = out.watcher[l]
  <2>1. CASE out.prev[m] = m
    <3>1. stopped = PutExpires(out, m, Off) /\ Off \in Nat
      BY <2>1 DEF stop, Off, PutExpires
    <3> HIDE DEF stopped
    <3>2. /\ stopped \in ListsType /\ SameLinks(out, stopped)
          /\ stopped.items = out.items /\ stopped.wrapper = out.wrapper
          /\ \A l \in Timeouts : l # m => stopped.watcher[l] = out.watcher[l]
      BY <1>1, <3>1, WatcherParts
    <3>3. QED
      BY <2>1, <3>2
  <2>2. CASE out.prev[m] # m
    BY <1>1, <2>2 DEF SameLinks
  <2>3. QED
    BY <2>1, <2>2
<1>3. r = PutItem(stopped, i, NoWrapper)
  <2>1. w # NoWrapper
    BY NodesApart DEF NoWrapper
  <2>2. QED
    BY <2>1 DEF Unenroll, out, PutItem
<1> HIDE DEF stopped
<1>4. /\ r \in ListsType /\ SameLinks(stopped, r)
      /\ r.wrapper = stopped.wrapper /\ r.watcher = stopped.watcher
      /\ r.items[i] = NoWrapper /\ \A j \in Items : j # i => r.items[j] = stopped.items[j]
  <2>1. stopped \in ListsType /\ NoWrapper \in Wrappers \cup {NoWrapper}
    BY <1>2
  <2>2. QED
    BY <1>3, <2>1, ItemsPut
<1>5. Removed(t, r, w)
  BY <1>1, <1>2, <1>4 DEF Removed, SameLinks
<1>6. r.wrapper = t.wrapper /\ \A j \in Items : j # i => r.items[j] = t.items[j]
  BY <1>1, <1>2, <1>4 DEF SameData
<1>7. \A l \in Timeouts : l # m \/ r.prev[m] # m => r.watcher[l] = t.watcher[l]
  <2>1. r.prev = out.prev
    BY <1>2, <1>4 DEF SameLinks
  <2>2. r.watcher = stopped.watcher /\ out.watcher = t.watcher
    BY <1>1, <1>4 DEF SameData
  <2>3. QED
    BY <1>2, <2>1, <2>2
<1>8. QED
  BY <1>4, <1>5, <1>6, <1>7

(* The wrappers of the other items are as they were.                         *)
LEMMA WrappedForgets ==
    ASSUME NEW t, NEW h \in HistoryType, Wrapped(t, h), NEW i \in Items,
           NEW g, Forgets(h, g, i),
           NEW r, r.wrapper = t.wrapper, r.items[i] = NoWrapper,
           \A j \in Items : j # i => r.items[j] = t.items[j]
    PROVE  Wrapped(r, g) /\ SameItems(t, r, g.active)
<1>1. h.active \subseteq Items /\ g.active = h.active \ {i}
  BY DEF HistoryType, Forgets
<1>2. ASSUME NEW j \in Items, NEW k \in Items,
             r.items[j] # NoWrapper, r.items[j] = r.items[k]
      PROVE  j = k
  BY <1>2 DEF Wrapped
<1>3. ASSUME NEW j \in Items, r.items[j] # NoWrapper
      PROVE  /\ r.wrapper[r.items[j]].item = j
             /\ r.wrapper[r.items[j]]._idleTimeout \in Timeouts
  BY <1>3 DEF Wrapped
<1>4. ASSUME NEW j \in g.active
      PROVE  /\ r.items[j] # NoWrapper /\ g.since[j] <= now
             /\ r.wrapper[r.items[j]]._idleStart = g.since[j]
  BY <1>1 DEF Wrapped, Forgets
<1>5. SameItems(t, r, g.active)
  BY <1>1 DEF SameItems
<1>6. QED
  BY <1>2, <1>3, <1>4, <1>5 DEF Wrapped

(* The links of an item that has timed out still fit: its neighbours are     *)
(* each other's.                                                             *)
LinksFit(t, h, i) ==
    i \in h.fired =>
        LET w == t.items[i]
        IN t.prev[t.next[w]] = t.prev[w] /\ t.next[t.prev[w]] = t.next[w]

(* Then its removal changes nothing.                                         *)
LEMMA RemovedAgain ==
    ASSUME NEW t \in ListsType, NEW w \in Nodes,
           t.prev[t.next[w]] = t.prev[w], t.next[t.prev[w]] = t.next[w],
           NEW r, Removed(t, r, w)
    PROVE  SameLinks(t, r)
<1>1. t.next \in [Nodes -> Nodes] /\ t.prev \in [Nodes -> Nodes]
  BY DEF ListsType
<1>2. PICK n \in Nodes, p \in Nodes : n = t.next[w] /\ p = t.prev[w]
  BY <1>1
<1>3. t.prev[n] = p /\ t.next[p] = n
  BY <1>2
<1>4. r.next = [t.next EXCEPT ![p] = n] /\ r.prev = [t.prev EXCEPT ![n] = p]
  BY <1>2 DEF Removed
<1>5. [t.next EXCEPT ![p] = n] = t.next /\ [t.prev EXCEPT ![n] = p] = t.prev
  BY <1>1, <1>2, <1>3
<1>6. QED
  BY <1>4, <1>5 DEF SameLinks

(* The links of the lists, with the wrapper of the item removed.             *)
LEMMA UnenrollLists ==
    ASSUME NEW t, NEW h, NEW X, Fits(t, h, X),
           NEW i \in Items, LinksFit(t, h, i), NEW g, Forgets(h, g, i),
           NEW w \in Wrappers, w = t.items[i],
           NEW m \in Timeouts, m = t.wrapper[w]._idleTimeout,
           NEW r \in ListsType, Removed(t, r, w), SameItems(t, r, g.active)
    PROVE  /\ ListsOK(r, g.active) /\ Elsewhere(t, r, h.active)
           /\ r.prev[m] = m =>
                \A j \in g.active : t.wrapper[t.items[j]]._idleTimeout # m
<1>1. /\ t \in ListsType /\ h.active \in SUBSET Items /\ ListsOK(t, h.active)
      /\ Loose(t, h) /\ TimedOut(t, h) /\ Apart(t, h.active)
  BY FitsParts
<1>2. g.active = h.active \ {i}
  BY DEF Forgets
<1>3. t.next \in [Nodes -> Nodes] /\ t.prev \in [Nodes -> Nodes]
  BY <1>1 DEF ListsType
<1>4. CASE i \in h.active
  <2> DEFINE a == h.active
  <2>1. /\ a \in SUBSET Items /\ ListsOK(t, a) /\ Apart(t, a) /\ i \in a
        /\ SameItems(t, r, a \ {i}) /\ g.active = a \ {i}
    BY <1>1, <1>2, <1>4
  <2> HIDE DEF a
  <2>2. /\ ListsOK(r, a \ {i}) /\ t.next[w] \in Linked(t, a) /\ t.prev[w] \in Linked(t, a)
        /\ r.prev[m] = m => \A j \in a \ {i} : t.wrapper[t.items[j]]._idleTimeout # m
    BY <1>1, <2>1, ListsDrop, SMTT(30)
  <2>3. /\ ListsOK(r, g.active)
        /\ t.next[w] \in Linked(t, h.active) /\ t.prev[w] \in Linked(t, h.active)
        /\ r.prev[m] = m => \A j \in g.active : t.wrapper[t.items[j]]._idleTimeout # m
    BY <2>1, <2>2 DEF a
  <2>4. Elsewhere(t, r, h.active)
    BY <1>3, <2>3 DEF Elsewhere, Removed
  <2>5. QED
    BY <2>3, <2>4
<1>5. CASE i \notin h.active
  <2>1. g.active = h.active
    BY <1>2, <1>5
  <2>2. SameLinks(t, r)
    <3>1. CASE i \in h.fired
      <4>1. t.prev[t.next[w]] = t.prev[w] /\ t.next[t.prev[w]] = t.next[w]
        BY <3>1 DEF LinksFit
      <4>2. QED
        BY <1>1, <4>1, NodesApart, RemovedAgain
    <3>2. CASE i \notin h.fired
      <4>1. t.next[w] = i /\ t.prev[w] = i /\ t.next[i] = i /\ t.prev[i] = i
        BY <1>1, <1>5, <3>2, NodesApart DEF Loose, NoWrapper
      <4>2. QED
        BY <1>3, <4>1 DEF SameLinks, Removed
    <3>3. QED
      BY <3>1, <3>2
  <2>3. ListsOK(r, g.active)
    BY <1>1, <2>1, <2>2, ListsSame DEF SameLinks
  <2>4. r.prev[m] = m => \A j \in g.active : t.wrapper[t.items[j]]._idleTimeout # m
    BY <1>1, <2>1, <2>2, NoneLeft DEF SameLinks
  <2>5. QED
    BY <2>2, <2>3, <2>4 DEF Elsewhere, SameLinks
<1>6. QED
  BY <1>4, <1>5

(* Unenroll keeps the invariant.                                             *)
LEMMA UnenrollFits ==
    ASSUME NEW t, NEW h, NEW X, Fits(t, h, X),
           NEW i \in Items, LinksFit(t, h, i),
           NEW g \in HistoryType, Forgets(h, g, i),
           NEW r, r = Unenroll(t, i)
    PROVE  Fits(r, g, X) /\ r.items[i] = NoWrapper
<1>1. /\ t \in ListsType /\ h \in HistoryType /\ h.active \in SUBSET Items
      /\ ListsOK(t, h.active) /\ Wrapped(t, h) /\ Loose(t, h) /\ TimedOut(t, h)
      /\ Watched(t, h, X) /\ h.fired \in SUBSET Items
  BY FitsParts
<1>2. g.active = h.active \ {i} /\ g.fired = h.fired \ {i}
  BY DEF Forgets
<1>3. \A j \in g.fired : j \in h.fired /\ j # i /\ j \notin g.active
  BY <1>1, <1>2 DEF TimedOut
<1>4. CASE t.items[i] = NoWrapper
  <2>1. r = t
    BY <1>4 DEF Unenroll
  <2>2. g.active = h.active
    BY <1>1, <1>2, <1>4 DEF Wrapped
  <2>3. Wrapped(t, g)
    BY <1>1, <1>4, <2>2, WrappedForgets
  <2>4. Loose(t, g)
    BY <1>1, <1>2, <1>4 DEF Loose, Forgets
  <2>5. Watched(t, g, X)
    <3>1. \A j \in h.active : g.since[j] = h.since[j]
      BY <1>1, <1>2, <2>2 DEF Forgets
    <3>2. QED
      BY <1>1, <2>2, <3>1 DEF Watched
  <2>6. TimedOut(t, g)
    BY <1>1, <1>3 DEF TimedOut
  <2>7. QED
    BY <1>1, <1>4, <2>1, <2>2, <2>3, <2>4, <2>5, <2>6 DEF Fits
<1>5. CASE t.items[i] # NoWrapper
  <2>1. PICK w \in Wrappers : w = t.items[i]
    BY <1>1, <1>5, ItemParts
  <2>2. PICK m \in Timeouts : m = t.wrapper[w]._idleTimeout
    BY <1>1, <1>5, <2>1, ItemParts
  <2>3. /\ r \in ListsType /\ Removed(t, r, w) /\ r.wrapper = t.wrapper
        /\ r.items[i] = NoWrapper /\ \A j \in Items : j # i => r.items[j] = t.items[j]
        /\ \A l \in Timeouts : l # m \/ r.prev[m] # m => r.watcher[l] = t.watcher[l]
    BY <1>1, <2>1, <2>2, UnenrollParts
  <2>4. Wrapped(r, g) /\ SameItems(t, r, g.active)
    BY <1>1, <2>3, WrappedForgets
  <2>5. /\ ListsOK(r, g.active) /\ Elsewhere(t, r, h.active)
        /\ r.prev[m] = m => \A j \in g.active : t.wrapper[t.items[j]]._idleTimeout # m
    BY <2>1, <2>2, <2>3, <2>4, UnenrollLists
  <2>6. Loose(r, g)
    <3>1. \A j \in h.active : t.items[j] # NoWrapper
      BY <1>1 DEF Wrapped
    <3>2. Untouched(t, r, h, g, h.active)
      BY <1>2, <2>3 DEF Untouched, Forgets
    <3>3. QED
      BY <1>1, <2>5, <3>1, <3>2, LooseElsewhere
  <2>7. Watched(r, g, X)
    <3> SUFFICES ASSUME NEW j \in g.active
                 PROVE  LET l == r.wrapper[r.items[j]]._idleTimeout
                        IN \/ l \in X \/ r.watcher[l].due > 0
                           \/ /\ r.watcher[l].expires # Off
                              /\ r.watcher[l].expires <= g.since[j] + l
      BY DEF Watched
    <3>1. j \in h.active /\ j \in Items /\ j # i
      BY <1>1, <1>2
    <3>2. PICK l \in Timeouts : l = t.wrapper[t.items[j]]._idleTimeout
      BY <1>1, <3>1 DEF Wrapped
    <3>3. l = r.wrapper[r.items[j]]._idleTimeout
      BY <2>3, <3>1, <3>2
    <3>4. r.watcher[l] = t.watcher[l]
      BY <2>3, <2>5, <3>2
    <3>5. g.since[j] = h.since[j]
      BY <3>1 DEF Forgets
    <3>6. \/ l \in X \/ t.watcher[l].due > 0
          \/ t.watcher[l].expires # Off /\ t.watcher[l].expires <= h.since[j] + l
      BY <1>1, <3>1, <3>2 DEF Watched
    <3>7. QED
      BY <3>3, <3>4, <3>5, <3>6
  <2>8. TimedOut(r, g)
    <3>1. \A j \in g.fired : r.items[j] = t.items[j] /\ j \notin h.active
      BY <1>1, <1>3, <2>3 DEF TimedOut
    <3>2. QED
      BY <1>1, <1>3, <2>3, <2>5, <3>1, TimedOutElsewhere, SMTT(30)
  <2>9. QED
    BY <2>3, <2>4, <2>5, <2>6, <2>7, <2>8 DEF Fits
<1>6. QED
  BY <1>4, <1>5

------------------------------------------------------------------------------
(* Enroll.                                                                   *)

(* The item gets a wrapper, whose links lead to the item.                    *)
PutWrapper(t, i, m, w) ==
    [t EXCEPT
       !.items[i] = w,
       !.wrapper[w] = [item |-> i, _idleTimeout |-> m, _idleStart |-> 0],
       !.next[w] = i, !.prev[w] = i]

(* What it changes.                                                          *)
LEMMA EnrollParts ==
    ASSUME NEW t \in ListsType, NEW i \in Items, NEW m \in Timeouts,
           NEW w \in Wrappers, NEW r, r = PutWrapper(t, i, m, w)
    PROVE  /\ r \in ListsType /\ r.watcher = t.watcher
           /\ r.items[i] = w /\ \A j \in Items : j # i => r.items[j] = t.items[j]
           /\ r.wrapper[w].item = i /\ r.wrapper[w]._idleTimeout = m
           /\ \A x \in Wrappers : x # w => r.wrapper[x] = t.wrapper[x]
           /\ r.next[w] = i /\ r.prev[w] = i
           /\ \A x \in Nodes : x # w => r.next[x] = t.next[x] /\ r.prev[x] = t.prev[x]
<1>1. /\ t = [next |-> t.next, prev |-> t.prev, items |-> t.items,
              wrapper |-> t.wrapper, watcher |-> t.watcher]
      /\ t.items \in [Items -> Wrappers \cup {NoWrapper}]
      /\ t.next \in [Nodes -> Nodes] /\ t.prev \in [Nodes -> Nodes]
      /\ t.wrapper \in [Wrappers -> WrapperType]
      /\ t.watcher \in [Timeouts -> WatcherType]
      /\ w \in Nodes /\ i \in Nodes
  BY NodesApart DEF ListsType
<1> DEFINE rec == [item |-> i, _idleTimeout |-> m, _idleStart |-> 0]
           its == [t.items EXCEPT ![i] = w]
           wraps == [t.wrapper EXCEPT ![w] = rec]
           nx == [t.next EXCEPT ![w] = i]
           pv == [t.prev EXCEPT ![w] = i]
<1>2. r = [next |-> nx, prev |-> pv, items |-> its, wrapper |-> wraps,
           watcher |-> t.watcher]
  BY <1>1 DEF PutWrapper
<1>3. rec \in WrapperType /\ rec.item = i /\ rec._idleTimeout = m
  BY DEF WrapperType
<1> HIDE DEF rec
<1>4. /\ its \in [Items -> Wrappers \cup {NoWrapper}]
      /\ its[i] = w /\ \A j \in Items : j # i => its[j] = t.items[j]
  BY <1>1
<1>5. /\ wraps \in [Wrappers -> WrapperType]
      /\ wraps[w] = rec /\ \A x \in Wrappers : x # w => wraps[x] = t.wrapper[x]
  BY <1>1, <1>3
<1>6. /\ nx \in [Nodes -> Nodes] /\ pv \in [Nodes -> Nodes]
      /\ nx[w] = i /\ pv[w] = i
      /\ \A x \in Nodes : x # w => nx[x] = t.next[x] /\ pv[x] = t.prev[x]
  BY <1>1
<1> HIDE DEF its, wraps, nx, pv
<1>7. r \in ListsType
  BY <1>1, <1>2, <1>4, <1>5, <1>6 DEF ListsType
<1>8. QED
  BY <1>2, <1>3, <1>4, <1>5, <1>6, <1>7

(* A wrapper that nothing refers to is not that of an item.                  *)
LEMMA UnusedParts ==
    ASSUME NEW t, NEW w \in Unused(t)
    PROVE  w \in Wrappers /\ \A i \in Items : t.items[i] # w
  BY NodesApart DEF Unused, NoWrapper

(* Enroll keeps the invariant, for an item that has no wrapper.              *)
LEMMA EnrollFits ==
    ASSUME NEW t, NEW h, NEW X, Fits(t, h, X),
           NEW i \in Items, t.items[i] = NoWrapper,
           NEW m \in Timeouts, NEW w \in Unused(t),
           NEW r, r = PutWrapper(t, i, m, w)
    PROVE  Fits(r, h, X) /\ r.items[i] # NoWrapper
<1>1. /\ t \in ListsType /\ h \in HistoryType /\ h.active \in SUBSET Items
      /\ ListsOK(t, h.active) /\ Wrapped(t, h) /\ Loose(t, h) /\ TimedOut(t, h)
      /\ Watched(t, h, X) /\ h.fired \in SUBSET Items
  BY FitsParts
<1>2. w \in Wrappers /\ w # NoWrapper /\ \A j \in Items : t.items[j] # w
  BY UnusedParts, NodesApart DEF NoWrapper
<1>3. /\ r \in ListsType /\ r.watcher = t.watcher
      /\ r.items[i] = w /\ \A j \in Items : j # i => r.items[j] = t.items[j]
      /\ r.wrapper[w].item = i /\ r.wrapper[w]._idleTimeout = m
      /\ \A x \in Wrappers : x # w => r.wrapper[x] = t.wrapper[x]
      /\ r.next[w] = i /\ r.prev[w] = i
      /\ \A x \in Nodes : x # w => r.next[x] = t.next[x] /\ r.prev[x] = t.prev[x]
  BY <1>1, <1>2, EnrollParts
<1>4. \A j \in Items : j # i /\ t.items[j] # NoWrapper =>
          /\ t.items[j] \in Wrappers /\ t.items[j] \in Nodes /\ t.items[j] # w
          /\ r.items[j] = t.items[j] /\ r.wrapper[t.items[j]] = t.wrapper[t.items[j]]
  BY <1>1, <1>2, <1>3, NodesApart DEF ListsType
<1>5. \A j \in h.active : j \in Items /\ j # i /\ t.items[j] # NoWrapper
  BY <1>1 DEF Wrapped
<1>6. SameItems(t, r, h.active)
  BY <1>4, <1>5 DEF SameItems
<1>7. ListsOK(r, h.active)
  <2>1. \A x \in Linked(t, h.active) : x \in Nodes /\ x # w
    BY <1>2, <1>4, <1>5, NodesApart DEF Linked
  <2>2. QED
    BY <1>1, <1>3, <1>6, <2>1, ListsSame
<1>8. Wrapped(r, h)
  <2>1. ASSUME NEW j \in Items, NEW k \in Items,
               r.items[j] # NoWrapper, r.items[j] = r.items[k]
        PROVE  j = k
    BY <1>1, <1>2, <1>3, <2>1 DEF Wrapped
  <2>2. ASSUME NEW j \in Items, r.items[j] # NoWrapper
        PROVE  /\ r.wrapper[r.items[j]].item = j
               /\ r.wrapper[r.items[j]]._idleTimeout \in Timeouts
    <3>1. CASE j = i
      BY <1>3, <3>1
    <3>2. CASE j # i
      BY <1>1, <1>3, <1>4, <2>2, <3>2 DEF Wrapped
    <3>3. QED
      BY <3>1, <3>2
  <2>3. ASSUME NEW j \in h.active
        PROVE  /\ r.items[j] # NoWrapper /\ h.since[j] <= now
               /\ r.wrapper[r.items[j]]._idleStart = h.since[j]
    BY <1>1, <1>4, <1>5 DEF Wrapped
  <2>4. QED
    BY <2>1, <2>2, <2>3 DEF Wrapped
<1>9. Loose(r, h)
  <2>1. ASSUME NEW j \in Items PROVE r.next[j] = j /\ r.prev[j] = j
    BY <1>1, <1>2, <1>3, NodesApart DEF Loose
  <2>2. ASSUME NEW j \in Items, r.items[j] # NoWrapper, j \notin h.active \cup h.fired
        PROVE  r.next[r.items[j]] = j /\ r.prev[r.items[j]] = j
    <3>1. CASE j = i
      BY <1>3, <3>1
    <3>2. CASE j # i
      BY <1>1, <1>3, <1>4, <2>2, <3>2 DEF Loose
    <3>3. QED
      BY <3>1, <3>2
  <2>3. QED
    BY <2>1, <2>2 DEF Loose
<1>10. TimedOut(r, h)
  <2> SUFFICES ASSUME NEW j \in h.fired
               PROVE  LET v == r.items[j]
                      IN /\ j \notin h.active /\ v # NoWrapper
                         /\ r.next[v] = r.wrapper[v]._idleTimeout
    BY DEF TimedOut
  <2>1. /\ j \in Items /\ j # i /\ j \notin h.active /\ t.items[j] # NoWrapper
        /\ t.next[t.items[j]] = t.wrapper[t.items[j]]._idleTimeout
    BY <1>1 DEF TimedOut
  <2>2. /\ t.items[j] \in Nodes /\ t.items[j] # w
        /\ r.items[j] = t.items[j] /\ r.wrapper[t.items[j]] = t.wrapper[t.items[j]]
    BY <1>4, <2>1
  <2>3. r.next[t.items[j]] = t.next[t.items[j]]
    BY <1>3, <2>2
  <2>4. QED
    BY <2>1, <2>2, <2>3
<1>11. Watched(r, h, X)
  <2> SUFFICES ASSUME NEW j \in h.active
               PROVE  LET l == r.wrapper[r.items[j]]._idleTimeout
                      IN \/ l \in X \/ r.watcher[l].due > 0
                         \/ /\ r.watcher[l].expires # Off
                            /\ r.watcher[l].expires <= h.since[j] + l
    BY DEF Watched
  <2>1. r.wrapper[r.items[j]]._idleTimeout = t.wrapper[t.items[j]]._idleTimeout
    BY <1>4, <1>5
  <2>2. QED
    BY <1>1, <1>3, <2>1 DEF Watched
<1>12. QED
  BY <1>1, <1>2, <1>3, <1>7, <1>8, <1>9, <1>10, <1>11 DEF Fits

------------------------------------------------------------------------------
(* Active.                                                                   *)

(* The history when an item with a timeout is used.                          *)
Uses(h, g, i) ==
    /\ g.active = h.active \cup {i} /\ g.fired = h.fired \ {i}
    /\ g.since[i] = now /\ \A j \in Items \ {i} : g.since[j] = h.since[j]

(* The time of the wrapper w is now; the other data are as they were.        *)
StartsNow(t, r, w) ==
    /\ r.items = t.items
    /\ r.wrapper[w]._idleStart = now
    /\ r.wrapper[w].item = t.wrapper[w].item
    /\ r.wrapper[w]._idleTimeout = t.wrapper[w]._idleTimeout
    /\ \A x \in Wrappers : x # w => r.wrapper[x] = t.wrapper[x]

(* insert: the watcher is started with the first wrapper of a list.          *)
Inserted(t, r, m, w) ==
    /\ r \in ListsType /\ Appended(t, r, m, w) /\ StartsNow(t, r, w)
    /\ \A l \in Timeouts : l # m \/ t.next[m] # m => r.watcher[l] = t.watcher[l]
    /\ t.next[m] = m => r.watcher[m].expires = now + m

LEMMA InsertParts ==
    ASSUME NEW t \in ListsType, NEW w \in Wrappers, now \in Nat,
           NEW m \in Timeouts, m = t.wrapper[w]._idleTimeout,
           NEW r, r = insert(t, w)
    PROVE  Inserted(t, r, m, w)
<1> DEFINE started == IF t.next[m] = m THEN again(t, m, m) ELSE t
           set == PutStart(started, w)
<1>1. /\ started \in ListsType /\ SameLinks(t, started)
      /\ started.items = t.items /\ started.wrapper = t.wrapper
      /\ \A l \in Timeouts : l # m \/ t.next[m] # m => started.watcher[l] = t.watcher[l]
      /\ t.next[m] = m => started.watcher[m].expires = now + m
  <2>1. CASE t.next[m] = m
    <3>1. PICK e \in Nat : e = now + m
      BY NodesApart
    <3>2. started = PutExpires(t, m, e)
      BY <2>1, <3>1 DEF again, PutExpires
    <3> HIDE DEF started
    <3>3. /\ started \in ListsType /\ SameLinks(t, started)
          /\ started.items = t.items /\ started.wrapper = t.wrapper
          /\ started.watcher[m].expires = e
          /\ \A l \in Timeouts : l # m => started.watcher[l] = t.watcher[l]
      BY <3>2, WatcherParts
    <3>4. QED
      BY <2>1, <3>1, <3>3
  <2>2. CASE t.next[m] # m
    BY <2>2 DEF SameLinks
  <2>3. QED
    BY <2>1, <2>2
<1>2. r = append(set, m, w)
  BY DEF insert, PutStart
<1> HIDE DEF started
<1>3. /\ set \in ListsType /\ SameLinks(started, set)
      /\ set.watcher = started.watcher /\ StartsNow(started, set, w)
  BY <1>1, StartParts DEF StartsNow
<1> HIDE DEF set
<1>4. r \in ListsType /\ Appended(set, r, m, w) /\ SameData(set, r)
  BY <1>2, <1>3, AppendParts
<1>5. Appended(t, r, m, w)
  BY <1>1, <1>3, <1>4 DEF Appended, SameLinks
<1>6. StartsNow(t, r, w)
  BY <1>1, <1>3, <1>4 DEF StartsNow, SameData
<1>7. r.watcher = started.watcher
  BY <1>3, <1>4 DEF SameData
<1>8. QED
  BY <1>1, <1>4, <1>5, <1>6, <1>7 DEF Inserted

(* Active, for a wrapper in a list: it is removed and appended.              *)
Moved(t, out, r, m, w) ==
    /\ out \in ListsType /\ Removed(t, out, w) /\ StartsNow(t, out, w)
    /\ r \in ListsType /\ Appended(out, r, m, w) /\ StartsNow(t, r, w)
    /\ r.items = out.items /\ r.wrapper = out.wrapper /\ r.watcher = t.watcher

LEMMA MoveParts ==
    ASSUME NEW t \in ListsType, NEW w \in Wrappers, now \in Nat, NEW m \in Timeouts,
           NEW out, out = remove(PutStart(t, w), w),
           NEW r, r = append(out, m, w)
    PROVE  Moved(t, out, r, m, w)
<1> DEFINE set == PutStart(t, w)
<1>1. /\ set \in ListsType /\ SameLinks(t, set)
      /\ set.watcher = t.watcher /\ StartsNow(t, set, w)
  BY StartParts DEF StartsNow
<1>2. out = remove(set, w) /\ w \in Nodes
  BY NodesApart
<1> HIDE DEF set
<1>3. out \in ListsType /\ Removed(set, out, w) /\ SameData(set, out)
  BY <1>1, <1>2, RemoveParts
<1>4. r \in ListsType /\ Appended(out, r, m, w) /\ SameData(out, r)
  BY <1>3, AppendParts
<1>5. Removed(t, out, w)
  BY <1>1, <1>3 DEF Removed, SameLinks
<1>6. StartsNow(t, out, w) /\ StartsNow(t, r, w)
  BY <1>1, <1>3, <1>4 DEF StartsNow, SameData
<1>7. r.items = out.items /\ r.wrapper = out.wrapper /\ r.watcher = t.watcher
  BY <1>1, <1>3, <1>4 DEF SameData
<1>8. QED
  BY <1>3, <1>4, <1>5, <1>6, <1>7 DEF Moved

(* The wrappers are right when one of them is used now.                      *)
LEMMA WrappedUses ==
    ASSUME NEW t \in ListsType, NEW h \in HistoryType, Wrapped(t, h), now \in Nat,
           NEW i \in Items, NEW w \in Wrappers, w = t.items[i],
           NEW g, Uses(h, g, i), NEW r, StartsNow(t, r, w),
           NEW m, m = t.wrapper[w]._idleTimeout
    PROVE  /\ Wrapped(r, g) /\ SameItems(t, r, h.active \ {i}) /\ Used(r, i, m, w)
           /\ Other(t, h.active \ {i}, w)
<1>1. h.active \subseteq Items /\ w # NoWrapper
  BY NodesApart DEF HistoryType, NoWrapper
<1>2. \A j \in Items : j # i /\ t.items[j] # NoWrapper =>
          t.items[j] \in Wrappers /\ t.items[j] # w
  BY <1>1 DEF Wrapped, ListsType
<1>3. \A j \in h.active \ {i} : j \in Items /\ j # i /\ t.items[j] # NoWrapper
  BY <1>1 DEF Wrapped
<1>4. SameItems(t, r, h.active \ {i}) /\ Other(t, h.active \ {i}, w)
  BY <1>2, <1>3 DEF SameItems, Other, StartsNow
<1>5. Used(r, i, m, w)
  BY DEF Used, StartsNow
<1>6. ASSUME NEW j \in Items, NEW k \in Items,
             r.items[j] # NoWrapper, r.items[j] = r.items[k]
      PROVE  j = k
  BY <1>6 DEF Wrapped, StartsNow
<1>7. ASSUME NEW j \in Items, r.items[j] # NoWrapper
      PROVE  /\ r.wrapper[r.items[j]].item = j
             /\ r.wrapper[r.items[j]]._idleTimeout \in Timeouts
  <2>1. CASE j = i
    BY <1>1, <2>1 DEF Wrapped, StartsNow
  <2>2. CASE j # i
    BY <1>2, <1>7, <2>2 DEF Wrapped, StartsNow
  <2>3. QED
    BY <2>1, <2>2
<1>8. ASSUME NEW j \in g.active
      PROVE  /\ r.items[j] # NoWrapper /\ g.since[j] <= now
             /\ r.wrapper[r.items[j]]._idleStart = g.since[j]
  <2>1. CASE j = i
    BY <1>1, <2>1 DEF Uses, StartsNow
  <2>2. CASE j # i
    <3>1. j \in h.active \ {i}
      BY <2>2 DEF Uses
    <3>2. QED
      BY <1>2, <1>3, <3>1 DEF Wrapped, Uses, StartsNow
  <2>3. QED
    BY <2>1, <2>2
<1>9. QED
  BY <1>4, <1>5, <1>6, <1>7, <1>8 DEF Wrapped

(* The links of the wrapper of an active item lead to heads or wrappers of   *)
(* active items.                                                             *)
LEMMA ActiveLinked ==
    ASSUME NEW t \in ListsType, NEW a \in SUBSET Items, ListsOK(t, a), Apart(t, a),
           NEW i \in a, NEW w \in Wrappers, w = t.items[i],
           t.wrapper[w]._idleTimeout \in Timeouts
    PROVE  t.next[w] \in Linked(t, a) /\ t.prev[w] \in Linked(t, a)
<1>1. PICK r \in ListsType : Removed(t, r, w) /\ SameData(t, r)
  BY RemoveParts, NodesApart
<1>2. SameItems(t, r, a \ {i})
  BY <1>1 DEF SameItems, SameData
<1>3. QED
  BY <1>1, <1>2, ListsDrop

(* The lists when an item with a timeout is used.                            *)
LEMMA ActiveLists ==
    ASSUME NEW t, NEW h, NEW X, Fits(t, h, X), now \in Nat,
           NEW i \in Items, LinksFit(t, h, i), NEW g, Uses(h, g, i),
           NEW w \in Wrappers, w = t.items[i],
           NEW m \in Timeouts, m = t.wrapper[w]._idleTimeout,
           NEW r, r = Active(t, i)
    PROVE  /\ r \in ListsType /\ StartsNow(t, r, w)
           /\ ListsOK(r, g.active) /\ Elsewhere(t, r, g.active)
           /\ \A l \in Timeouts : l # m => r.watcher[l] = t.watcher[l]
           /\ \/ /\ \A j \in h.active : t.wrapper[t.items[j]]._idleTimeout # m
                 /\ r.watcher[m].expires = now + m
              \/ /\ \/ \E j \in h.active : t.wrapper[t.items[j]]._idleTimeout = m
                    \/ i \in h.fired /\ t.next[m] = m
                 /\ r.watcher[m] = t.watcher[m]
<1>1. /\ t \in ListsType /\ h \in HistoryType /\ h.active \in SUBSET Items
      /\ ListsOK(t, h.active) /\ Wrapped(t, h) /\ Loose(t, h) /\ TimedOut(t, h)
      /\ Apart(t, h.active) /\ Past(t, h.active)
  BY FitsParts
<1>2. /\ w # NoWrapper /\ w \in Nodes /\ m \in Nodes
      /\ t.next \in [Nodes -> Nodes] /\ t.prev \in [Nodes -> Nodes]
  BY <1>1, NodesApart DEF NoWrapper, ListsType
<1>3. g.active = h.active \cup {i}
  BY DEF Uses
<1>4. /\ Linked(t, h.active) \subseteq Linked(t, g.active)
      /\ w \in Linked(t, g.active) /\ m \in Linked(t, g.active)
  BY <1>3 DEF Linked
<1>5. t.next[m] = m => \A j \in h.active : t.wrapper[t.items[j]]._idleTimeout # m
  BY <1>1, NoneLeft
<1>6. t.next[m] # m => \E j \in h.active : t.wrapper[t.items[j]]._idleTimeout = m
  <2> SUFFICES ASSUME t.next[m] # m
               PROVE  \E j \in h.active : t.wrapper[t.items[j]]._idleTimeout = m
    OBVIOUS
  <2>1. PICK q \in Seq(Wrappers) : IsList(t, h.active, m, q)
    BY <1>1 DEF ListsOK
  <2>2. Len(q) # 0 /\ Len(q) \in Nat
    BY <2>1, EmptyRing DEF IsList
  <2>3. 1 \in 1..Len(q)
    BY <2>2
  <2>4. Holds(t, h.active, m, q)
    BY <2>1 DEF IsList
  <2>5. PICK j \in h.active : /\ t.items[j] = q[1]
                              /\ t.wrapper[q[1]]._idleTimeout = m
    BY <2>3, <2>4 DEF Holds
  <2>6. QED
    BY <2>5
<1>7. CASE i \notin h.active /\ i \notin h.fired
  <2>1. t.next[w] = i
    BY <1>1, <1>2, <1>7 DEF Loose
  <2>2. r = insert(t, w)
    BY <1>2, <2>1 DEF Active
  <2>3. /\ r \in ListsType /\ Appended(t, r, m, w) /\ StartsNow(t, r, w)
        /\ \A l \in Timeouts : l # m \/ t.next[m] # m => r.watcher[l] = t.watcher[l]
        /\ t.next[m] = m => r.watcher[m].expires = now + m
    <3>1. Inserted(t, r, m, w)
      BY <1>1, <2>2, InsertParts
    <3>2. QED
      BY <3>1 DEF Inserted
  <2>4. SameItems(t, r, h.active) /\ Used(r, i, m, w) /\ Other(t, h.active, w)
    <3>1. h.active \ {i} = h.active
      BY <1>7
    <3>2. StartsNow(t, r, w)
      BY <2>3
    <3>3. /\ SameItems(t, r, h.active \ {i}) /\ Used(r, i, m, w)
          /\ Other(t, h.active \ {i}, w)
      BY <1>1, <3>2, WrappedUses
    <3>4. QED
      BY <3>1, <3>3
  <2>5. ListsOK(r, g.active) /\ t.next[m] \in Linked(t, h.active)
    <3> DEFINE a == h.active
    <3>1. a \in SUBSET Items /\ ListsOK(t, a) /\ Apart(t, a) /\ Past(t, a)
      BY <1>1
    <3>2. i \in Items \ a /\ Other(t, a, w) /\ SameItems(t, r, a) /\ Used(r, i, m, w)
      BY <1>7, <2>4
    <3>3. r \in ListsType /\ Appended(t, r, m, w)
      BY <2>3
    <3> HIDE DEF a
    <3>4. ListsOK(r, a \cup {i}) /\ t.next[m] \in Linked(t, a)
      BY <1>1, <3>1, <3>2, <3>3, ListsAdd
    <3>5. QED
      BY <1>3, <3>4 DEF a
  <2>6. Elsewhere(t, r, g.active)
    <3> SUFFICES ASSUME NEW x \in Nodes \ Linked(t, g.active)
                 PROVE  r.next[x] = t.next[x] /\ r.prev[x] = t.prev[x]
      BY DEF Elsewhere
    <3>1. x # w /\ x # m /\ x # t.next[m]
      BY <1>4, <2>5
    <3>2. Appended(t, r, m, w)
      BY <2>3
    <3>3. QED
      BY <1>2, <3>1, <3>2 DEF Appended
  <2>7. QED
    BY <1>5, <1>6, <2>3, <2>5, <2>6
<1>8. CASE i \in h.active
  <2>1. t.next[w] \in Linked(t, h.active) /\ t.prev[w] \in Linked(t, h.active)
    BY <1>1, <1>8, ActiveLinked
  <2>2. t.next[w] # i
    BY <1>1, <2>1, NodesApart DEF Linked, Apart
  <2> DEFINE out == remove(PutStart(t, w), w)
  <2>3. r = append(out, m, w)
    BY <1>2, <2>2 DEF Active, PutStart
  <2>4. /\ out \in ListsType /\ Removed(t, out, w) /\ StartsNow(t, out, w)
        /\ r \in ListsType /\ Appended(out, r, m, w) /\ StartsNow(t, r, w)
        /\ r.items = out.items /\ r.wrapper = out.wrapper /\ r.watcher = t.watcher
    <3>1. out = remove(PutStart(t, w), w)
      OBVIOUS
    <3> HIDE DEF out
    <3>2. Moved(t, out, r, m, w)
      BY <1>1, <2>3, <3>1, MoveParts
    <3>3. QED
      BY <3>2 DEF Moved
  <2> HIDE DEF out
  <2> DEFINE rest == h.active \ {i}
  <2>5. /\ SameItems(t, out, rest) /\ Used(out, i, m, w) /\ Other(t, rest, w)
    BY <1>1, <2>4, WrappedUses
  <2>6. ListsOK(out, rest)
    BY <1>1, <1>8, <2>4, <2>5, ListsDrop
  <2>7. /\ rest \in SUBSET Items /\ i \in Items \ rest
        /\ Apart(out, rest) /\ Past(out, rest) /\ Other(out, rest, w)
        /\ SameItems(out, r, rest) /\ Used(r, i, m, w)
    <3>1. Apart(out, rest) /\ Past(out, rest) /\ Other(out, rest, w)
      BY <1>1, <2>5 DEF Apart, Past, Other, SameItems
    <3>2. SameItems(out, r, rest) /\ Used(r, i, m, w)
      BY <2>4, <2>5 DEF SameItems, Used
    <3>3. QED
      BY <1>1, <3>1, <3>2
  <2>8. \A j \in rest : out.items[j] = t.items[j]
    BY <2>5 DEF SameItems
  <2> HIDE DEF rest
  <2>9. ListsOK(r, rest \cup {i}) /\ out.next[m] \in Linked(out, rest)
    BY <2>4, <2>6, <2>7, ListsAdd
  <2>10. rest \cup {i} = g.active
    BY <1>3 DEF rest
  <2>11. out.next[m] \in Linked(t, g.active)
    BY <2>8, <2>9, <2>10 DEF Linked
  <2>12. Elsewhere(t, r, g.active)
    <3> SUFFICES ASSUME NEW x \in Nodes \ Linked(t, g.active)
                 PROVE  r.next[x] = t.next[x] /\ r.prev[x] = t.prev[x]
      BY DEF Elsewhere
    <3>1. out.next[x] = t.next[x] /\ out.prev[x] = t.prev[x]
      BY <1>2, <1>4, <2>1, <2>4 DEF Removed
    <3>2. x # w /\ x # m /\ x # out.next[m]
      BY <1>4, <2>11
    <3>3. out.next \in [Nodes -> Nodes] /\ out.prev \in [Nodes -> Nodes]
      BY <2>4 DEF ListsType
    <3>4. r.next[x] = out.next[x] /\ r.prev[x] = out.prev[x]
      BY <2>4, <3>2, <3>3 DEF Appended
    <3>5. QED
      BY <3>1, <3>4
  <2>13. QED
    BY <1>8, <2>4, <2>9, <2>10, <2>12
<1>9. CASE i \in h.fired
  <2>1. i \notin h.active /\ t.next[w] = m
    BY <1>1, <1>9 DEF TimedOut
  <2> DEFINE out == remove(PutStart(t, w), w)
  <2>2. r = append(out, m, w)
    BY <1>2, <2>1, NodesApart DEF Active, PutStart
  <2>3. /\ out \in ListsType /\ Removed(t, out, w) /\ StartsNow(t, out, w)
        /\ r \in ListsType /\ Appended(out, r, m, w) /\ StartsNow(t, r, w)
        /\ r.items = out.items /\ r.wrapper = out.wrapper /\ r.watcher = t.watcher
    <3>1. out = remove(PutStart(t, w), w)
      OBVIOUS
    <3> HIDE DEF out
    <3>2. Moved(t, out, r, m, w)
      BY <1>1, <2>2, <3>1, MoveParts
    <3>3. QED
      BY <3>2 DEF Moved
  <2> HIDE DEF out
  <2>4. SameLinks(t, out)
    <3>1. t.prev[t.next[w]] = t.prev[w] /\ t.next[t.prev[w]] = t.next[w]
      BY <1>9 DEF LinksFit
    <3>2. QED
      BY <1>1, <1>2, <2>3, <3>1, RemovedAgain
  <2> DEFINE a == h.active
  <2>5. a \in SUBSET Items /\ i \in Items \ a /\ a \ {i} = a
    BY <1>1, <2>1
  <2>6. SameItems(t, out, a) /\ Used(out, i, m, w) /\ Other(t, a, w)
    <3>1. /\ SameItems(t, out, h.active \ {i}) /\ Used(out, i, m, w)
          /\ Other(t, h.active \ {i}, w)
      BY <1>1, <2>3, WrappedUses
    <3>2. QED
      BY <2>5, <3>1
  <2>7. ListsOK(t, a) /\ Apart(t, a) /\ Past(t, a)
    BY <1>1
  <2>8. \A j \in a : out.items[j] = t.items[j]
    BY <2>6 DEF SameItems
  <2>9. g.active = a \cup {i}
    BY <1>3
  <2> HIDE DEF a
  <2>10. ListsOK(out, a)
    BY <2>4, <2>6, <2>7, ListsSame DEF SameLinks
  <2>11. Apart(out, a) /\ Past(out, a) /\ Other(out, a, w)
    BY <2>6, <2>7 DEF Apart, Past, Other, SameItems
  <2>12. SameItems(out, r, a) /\ Used(r, i, m, w)
    BY <2>3, <2>6 DEF SameItems, Used
  <2>13. ListsOK(r, a \cup {i}) /\ out.next[m] \in Linked(out, a)
    BY <2>3, <2>5, <2>10, <2>11, <2>12, ListsAdd
  <2>14. out.next[m] \in Linked(t, g.active)
    BY <2>8, <2>9, <2>13 DEF Linked
  <2>15. Elsewhere(t, r, g.active)
    <3> SUFFICES ASSUME NEW x \in Nodes \ Linked(t, g.active)
                 PROVE  r.next[x] = t.next[x] /\ r.prev[x] = t.prev[x]
      BY DEF Elsewhere
    <3>1. out.next[x] = t.next[x] /\ out.prev[x] = t.prev[x]
      BY <2>4 DEF SameLinks
    <3>2. x # w /\ x # m /\ x # out.next[m]
      BY <1>4, <2>14
    <3>3. out.next \in [Nodes -> Nodes] /\ out.prev \in [Nodes -> Nodes]
      BY <2>3 DEF ListsType
    <3>4. r.next[x] = out.next[x] /\ r.prev[x] = out.prev[x]
      BY <2>3, <3>2, <3>3 DEF Appended
    <3>5. QED
      BY <3>1, <3>4
  <2>16. \/ t.next[m] = m
         \/ \E j \in h.active : t.wrapper[t.items[j]]._idleTimeout = m
    BY <1>6
  <2>17. ListsOK(r, g.active) /\ r.watcher = t.watcher
    BY <2>3, <2>9, <2>13
  <2>18. QED
    BY <1>9, <2>3, <2>15, <2>16, <2>17
<1>10. QED
  BY <1>7, <1>8, <1>9

(* The list that an item which has timed out enters when it is empty: no     *)
(* watcher is started for it.                                                *)
EntersEmpty(t, h, i) ==
    LET m == t.wrapper[t.items[i]]._idleTimeout
    IN IF i \in h.fired /\ t.next[m] = m THEN {m} ELSE {}

(* Active keeps the invariant.                                               *)
LEMMA ActiveFits ==
    ASSUME NEW t, NEW h, NEW X, Fits(t, h, X), now \in Nat,
           NEW i \in Items, t.items[i] # NoWrapper, LinksFit(t, h, i),
           NEW g \in HistoryType, Uses(h, g, i),
           NEW r, r = Active(t, i),
           NEW Y, X \subseteq Y, EntersEmpty(t, h, i) \subseteq Y
    PROVE  Fits(r, g, Y)
<1>1. /\ t \in ListsType /\ h \in HistoryType /\ h.active \in SUBSET Items
      /\ h.fired \in SUBSET Items
      /\ Wrapped(t, h) /\ Loose(t, h) /\ TimedOut(t, h) /\ Watched(t, h, X)
  BY FitsParts
<1>2. PICK w \in Wrappers : w = t.items[i]
  BY <1>1, ItemParts
<1>3. PICK m \in Timeouts : m = t.wrapper[w]._idleTimeout
  BY <1>1, <1>2, ItemParts
<1>4. /\ r \in ListsType /\ StartsNow(t, r, w)
      /\ ListsOK(r, g.active) /\ Elsewhere(t, r, g.active)
      /\ \A l \in Timeouts : l # m => r.watcher[l] = t.watcher[l]
      /\ \/ /\ \A j \in h.active : t.wrapper[t.items[j]]._idleTimeout # m
            /\ r.watcher[m].expires = now + m
         \/ /\ \/ \E j \in h.active : t.wrapper[t.items[j]]._idleTimeout = m
               \/ i \in h.fired /\ t.next[m] = m
            /\ r.watcher[m] = t.watcher[m]
  BY <1>2, <1>3, ActiveLists
<1>5. Wrapped(r, g)
  BY <1>1, <1>2, <1>3, <1>4, WrappedUses
<1>6. /\ g.active = h.active \cup {i} /\ g.fired = h.fired \ {i}
      /\ g.active \in SUBSET Items
  BY <1>1 DEF Uses
<1>7. TimedOut(r, g)
  <2>1. \A j \in g.fired : /\ j \in h.fired /\ j \in Items /\ j # i
                           /\ j \notin g.active /\ t.items[j] # NoWrapper
    BY <1>1, <1>6 DEF TimedOut
  <2>2. \A j \in g.fired : t.items[j] \in Wrappers /\ t.items[j] # w
    BY <1>1, <1>2, <2>1 DEF Wrapped, ListsType
  <2>3. \A j \in g.fired : /\ r.items[j] = t.items[j]
                           /\ r.wrapper[t.items[j]] = t.wrapper[t.items[j]]
    BY <1>4, <2>2 DEF StartsNow
  <2>4. Elsewhere(t, r, g.active)
    BY <1>4
  <2>5. PICK b \in SUBSET Items : b = g.active
    BY <1>6
  <2>6. Elsewhere(t, r, b) /\ \A j \in g.fired : j \notin b
    BY <2>1, <2>4, <2>5
  <2>7. QED
    BY <1>1, <2>1, <2>3, <2>6, TimedOutElsewhere, SMTT(20)
<1>8. Loose(r, g)
  <2>1. \A j \in g.active : t.items[j] # NoWrapper
    BY <1>1, <1>6 DEF Wrapped
  <2>2. Untouched(t, r, h, g, g.active)
    BY <1>4, <1>6 DEF Untouched, StartsNow
  <2>3. QED
    BY <1>1, <1>4, <1>6, <2>1, <2>2, LooseElsewhere
<1>9. \A j \in Items : r.wrapper[r.items[j]]._idleTimeout = t.wrapper[t.items[j]]._idleTimeout
                       \/ t.items[j] = NoWrapper
  <2>1. \A j \in Items : t.items[j] \in Wrappers \cup {NoWrapper}
    BY <1>1 DEF ListsType
  <2>2. QED
    BY <1>4, <2>1 DEF StartsNow
<1>10. Watched(r, g, Y)
  <2> SUFFICES ASSUME NEW j \in g.active
               PROVE  LET l == r.wrapper[r.items[j]]._idleTimeout
                      IN \/ l \in Y \/ r.watcher[l].due > 0
                         \/ /\ r.watcher[l].expires # Off
                            /\ r.watcher[l].expires <= g.since[j] + l
    BY DEF Watched
  <2>1. j \in Items /\ t.items[j] # NoWrapper
    BY <1>1, <1>6 DEF Wrapped
  <2>2. PICK l \in Timeouts : l = t.wrapper[t.items[j]]._idleTimeout
    BY <1>1, <2>1, ItemParts
  <2>3. l = r.wrapper[r.items[j]]._idleTimeout
    BY <1>9, <2>1, <2>2
  <2>4. \A k \in h.active : h.since[k] <= now /\ h.since[k] \in Nat
    BY <1>1 DEF Wrapped, HistoryType
  <2>5. g.since[i] = now /\ (j # i => j \in h.active /\ g.since[j] = h.since[j])
    BY <1>6, <2>1 DEF Uses
  <2>6. ASSUME NEW k \in h.active, t.wrapper[t.items[k]]._idleTimeout = l
        PROVE  \/ l \in X \/ t.watcher[l].due > 0
               \/ t.watcher[l].expires # Off /\ t.watcher[l].expires <= h.since[k] + l
    BY <1>1, <2>6 DEF Watched
  <2>7. t.watcher[l].expires \in Nat /\ l \in Nat /\ l # 0
    BY <1>1, NodesApart DEF ListsType, WatcherType
  <2>8. CASE j # i
    <3>1. r.watcher[l] = t.watcher[l]
      BY <1>4, <2>2, <2>5, <2>8
    <3>2. QED
      BY <2>2, <2>3, <2>5, <2>6, <2>8, <3>1
  <2>9. CASE j = i
    <3>1. l = m
      BY <1>2, <1>3, <2>2, <2>9
    <3>2. CASE r.watcher[m].expires = now + m
      <4>1. now + l # 0 /\ now + l <= g.since[j] + l
        BY <2>5, <2>7, <2>9
      <4>2. QED
        BY <2>3, <3>1, <3>2, <4>1 DEF Off
    <3>3. CASE i \in h.fired /\ t.next[m] = m
      <4>1. m \in Y
        BY <1>2, <1>3, <3>3 DEF EntersEmpty
      <4>2. QED
        BY <2>3, <3>1, <4>1
    <3>4. CASE /\ \E k \in h.active : t.wrapper[t.items[k]]._idleTimeout = m
               /\ r.watcher[m] = t.watcher[m]
      <4>1. PICK k \in h.active : t.wrapper[t.items[k]]._idleTimeout = l
        BY <3>1, <3>4
      <4>2. t.watcher[l].expires <= h.since[k] + l => t.watcher[l].expires <= now + l
        BY <2>4, <2>7
      <4>3. \/ l \in X \/ t.watcher[l].due > 0
            \/ t.watcher[l].expires # Off /\ t.watcher[l].expires <= h.since[k] + l
        BY <2>6, <4>1
      <4>4. QED
        BY <2>3, <2>5, <2>9, <3>1, <3>4, <4>2, <4>3
    <3>5. QED
      BY <1>4, <3>2, <3>3, <3>4
  <2>10. QED
    BY <2>8, <2>9
<1>11. QED
  BY <1>4, <1>5, <1>7, <1>8, <1>10 DEF Fits

------------------------------------------------------------------------------
(* The wrappers that are not used any more are collected.                    *)

Collected(t) ==
    [ next |-> [n \in Nodes |-> IF n \in Unused(t) THEN n ELSE t.next[n]],
      prev |-> [n \in Nodes |-> IF n \in Unused(t) THEN n ELSE t.prev[n]],
      items |-> t.items,
      wrapper |-> [w \in Wrappers |-> IF w \in Unused(t) THEN NoWrapperData
                                      ELSE t.wrapper[w]],
      watcher |-> t.watcher ]

(* The wrappers in use are not.                                              *)
LEMMA CollectedParts ==
    ASSUME NEW t \in ListsType, NEW r, r = Collected(t)
    PROVE  /\ r \in ListsType /\ r.items = t.items /\ r.watcher = t.watcher
           /\ \A i \in Items : t.items[i] # NoWrapper =>
                 /\ r.wrapper[t.items[i]] = t.wrapper[t.items[i]]
                 /\ r.next[t.items[i]] = t.next[t.items[i]]
                 /\ r.prev[t.items[i]] = t.prev[t.items[i]]
           /\ \A x \in Timeouts \cup Items : r.next[x] = t.next[x] /\ r.prev[x] = t.prev[x]
<1> DEFINE un == Unused(t)
           nx == [n \in Nodes |-> IF n \in un THEN n ELSE t.next[n]]
           pv == [n \in Nodes |-> IF n \in un THEN n ELSE t.prev[n]]
           wraps == [w \in Wrappers |-> IF w \in un THEN NoWrapperData ELSE t.wrapper[w]]
<1>1. un \subseteq Wrappers /\ \A i \in Items : t.items[i] \notin un
  BY UnusedParts
<1>2. r = [next |-> nx, prev |-> pv, items |-> t.items, wrapper |-> wraps,
           watcher |-> t.watcher]
  BY DEF Collected
<1> HIDE DEF un
<1>3. nx \in [Nodes -> Nodes] /\ pv \in [Nodes -> Nodes]
  BY DEF ListsType
<1>4. wraps \in [Wrappers -> WrapperType]
  BY DEF ListsType, WrapperType, NoWrapperData
<1>5. /\ \A x \in Nodes \ un : nx[x] = t.next[x] /\ pv[x] = t.prev[x]
      /\ \A w \in Wrappers \ un : wraps[w] = t.wrapper[w]
  OBVIOUS
<1> HIDE DEF nx, pv, wraps
<1>6. r \in ListsType
  BY <1>2, <1>3, <1>4 DEF ListsType
<1>7. \A x \in Timeouts \cup Items : x \in Nodes \ un
  BY <1>1, NodesApart
<1>8. \A i \in Items : t.items[i] # NoWrapper =>
          t.items[i] \in Nodes \ un /\ t.items[i] \in Wrappers \ un
  BY <1>1, NodesApart DEF ListsType
<1>9. QED
  BY <1>2, <1>5, <1>6, <1>7, <1>8

(* Collecting them keeps the invariant.                                      *)
LEMMA CollectedFits ==
    ASSUME NEW t, NEW h, NEW X, Fits(t, h, X), NEW r, r = Collected(t)
    PROVE  Fits(r, h, X)
<1>1. /\ t \in ListsType /\ h \in HistoryType /\ h.active \in SUBSET Items
      /\ h.fired \in SUBSET Items
      /\ ListsOK(t, h.active) /\ Wrapped(t, h) /\ Loose(t, h) /\ TimedOut(t, h)
      /\ Watched(t, h, X)
  BY FitsParts
<1>2. /\ r \in ListsType /\ r.items = t.items /\ r.watcher = t.watcher
      /\ \A i \in Items : t.items[i] # NoWrapper =>
            /\ r.wrapper[t.items[i]] = t.wrapper[t.items[i]]
            /\ r.next[t.items[i]] = t.next[t.items[i]]
            /\ r.prev[t.items[i]] = t.prev[t.items[i]]
      /\ \A x \in Timeouts \cup Items : r.next[x] = t.next[x] /\ r.prev[x] = t.prev[x]
  BY <1>1, CollectedParts
<1>3. \A i \in h.active : i \in Items /\ t.items[i] # NoWrapper
  BY <1>1 DEF Wrapped
<1>4. ListsOK(r, h.active)
  <2>1. SameItems(t, r, h.active)
    BY <1>2, <1>3 DEF SameItems
  <2>2. \A x \in Linked(t, h.active) : r.next[x] = t.next[x] /\ r.prev[x] = t.prev[x]
    BY <1>2, <1>3 DEF Linked
  <2>3. QED
    BY <1>1, <2>1, <2>2, ListsSame
<1>5. Wrapped(r, h)
  BY <1>1, <1>2, <1>3 DEF Wrapped
<1>6. Loose(r, h)
  BY <1>1, <1>2 DEF Loose
<1>7. TimedOut(r, h)
  BY <1>1, <1>2 DEF TimedOut
<1>8. Watched(r, h, X)
  <2>1. r.watcher = t.watcher /\ r.items = t.items
    BY <1>2
  <2>2. \A i \in h.active : r.wrapper[t.items[i]] = t.wrapper[t.items[i]]
    BY <1>2, <1>3
  <2>3. QED
    BY <1>1, <2>1, <2>2 DEF Watched
<1>9. QED
  BY <1>1, <1>2, <1>4, <1>5, <1>6, <1>7, <1>8 DEF Fits

(* The new state of the lists.                                               *)
LEMMA ApplyFits ==
    ASSUME NEW t, NEW g, NEW X, Fits(t, g, X), Apply(t)
    PROVE  Fits(Lists', g, X)
<1>1. Lists' = Collected(t)
  BY DEF Apply, Lists, Collected
<1>2. QED
  BY <1>1, CollectedFits

------------------------------------------------------------------------------
(* The steps.                                                                *)

(* The new state, when time does not pass.                                   *)
LEMMA FitsPrime ==
    ASSUME Fits(Lists', hist', Excused'), UNCHANGED now
    PROVE  Fits(Lists, hist, Excused)'
  BY DEF Fits, Wrapped

(* The parts of the invariant, of the state itself.                          *)
LEMMA InvParts ==
    ASSUME Regular
    PROVE  /\ Fits(Lists, hist, Excused) /\ hist \in HistoryType /\ now \in Nat
           /\ frame.list \in Timeouts \cup {0} /\ frame.item \in Items \cup {NoItem}
           /\ frame.list = 0 => frame = Idle
           /\ frame = Idle => frame.list = 0 /\ frame.item = NoItem
  BY DEF Regular, FrameInv, Fits, Idle

(* What the application does keeps the invariant, when it keeps Fits.        *)
LEMMA ApplicationStep ==
    ASSUME Regular, AppActs, Fits(Lists', hist', Excused'),
           hist'.spurious = hist.spurious
    PROVE  Regular'
<1>1. frame' = frame /\ now' = now /\ crashed' = crashed
  BY DEF AppActs
<1>2. Fits(Lists, hist, Excused)'
  BY <1>1, FitsPrime
<1>3. FrameInv'
  BY <1>1 DEF Regular, FrameInv
<1>4. QED
  BY <1>1, <1>2, <1>3 DEF Regular

(* Links that are not misleading fit.                                        *)
LEMMA NotMislinked ==
    ASSUME NEW i \in Items, ~Mislinked(i)
    PROVE  LinksFit(Lists, hist, i) /\ Mislinked(i) = FALSE
  BY DEF Mislinked, LinksFit, Lists

(* The history without the timeout of an item.                               *)
Forgotten(i) ==
    [hist EXCEPT !.since[i] = 0, !.active = @ \ {i}, !.fired = @ \ {i},
                 !.misled = FALSE]

(* It is that of Unenroll.                                                   *)
LEMMA ForgottenParts ==
    ASSUME hist \in HistoryType, NEW i \in Items, NEW g, g = Forgotten(i)
    PROVE  /\ g \in HistoryType /\ Forgets(hist, g, i)
           /\ g.broken = hist.broken /\ g.spurious = hist.spurious
<1>1. /\ hist = [since |-> hist.since, active |-> hist.active, fired |-> hist.fired,
                 spurious |-> hist.spurious, broken |-> hist.broken,
                 misled |-> hist.misled]
      /\ hist.since \in [Items -> Nat]
  BY DEF HistoryType
<1> DEFINE s == [hist.since EXCEPT ![i] = 0]
<1>2. g = [since |-> s, active |-> hist.active \ {i}, fired |-> hist.fired \ {i},
           spurious |-> hist.spurious, broken |-> hist.broken, misled |-> FALSE]
  BY <1>1 DEF Forgotten
<1>3. s \in [Items -> Nat] /\ \A j \in Items \ {i} : s[j] = hist.since[j]
  BY <1>1
<1> HIDE DEF s
<1>4. QED
  BY <1>2, <1>3 DEF HistoryType, Forgets

(* The history when an item is used.                                         *)
UsedNow(h, i, more) ==
    [h EXCEPT !.since[i] = now, !.active = @ \cup {i}, !.fired = @ \ {i},
              !.misled = FALSE, !.broken = @ \cup more]

(* It is that of Active.                                                     *)
LEMMA UsedNowParts ==
    ASSUME NEW h \in HistoryType, now \in Nat, NEW i \in Items,
           NEW more \in SUBSET Timeouts, NEW g, g = UsedNow(h, i, more)
    PROVE  /\ g \in HistoryType /\ Uses(h, g, i)
           /\ g.broken = h.broken \cup more /\ g.spurious = h.spurious
<1>1. /\ h = [since |-> h.since, active |-> h.active, fired |-> h.fired,
              spurious |-> h.spurious, broken |-> h.broken, misled |-> h.misled]
      /\ h.since \in [Items -> Nat]
  BY DEF HistoryType
<1> DEFINE s == [h.since EXCEPT ![i] = now]
<1>2. g = [since |-> s, active |-> h.active \cup {i}, fired |-> h.fired \ {i},
           spurious |-> h.spurious, broken |-> h.broken \cup more, misled |-> FALSE]
  BY <1>1 DEF UsedNow
<1>3. s \in [Items -> Nat] /\ s[i] = now /\ \A j \in Items \ {i} : s[j] = h.since[j]
  BY <1>1
<1> HIDE DEF s
<1>4. QED
  BY <1>2, <1>3 DEF HistoryType, Uses

(* Socket:setTimeout(0) and Socket:destroy.                                  *)
LEMMA ClearTimeoutStep ==
    ASSUME Regular, NEW i \in Items, ClearTimeout(i), ~Mislinked(i)
    PROVE  Regular'
<1>1. Fits(Lists, hist, Excused) /\ hist \in HistoryType
  BY InvParts
<1>2. AppActs /\ Apply(Unenroll(Lists, i)) /\ LinksFit(Lists, hist, i)
  BY NotMislinked DEF ClearTimeout
<1>3. hist' = Forgotten(i)
  BY NotMislinked DEF ClearTimeout, Forgotten
<1>4. /\ hist' \in HistoryType /\ Forgets(hist, hist', i)
      /\ hist'.broken = hist.broken /\ hist'.spurious = hist.spurious
  BY <1>1, <1>3, ForgottenParts
<1>5. Fits(Unenroll(Lists, i), hist', Excused)
  BY <1>1, <1>2, <1>4, UnenrollFits
<1>6. Excused' = Excused
  BY <1>2, <1>4 DEF Excused, AppActs
<1>7. Fits(Lists', hist', Excused')
  BY <1>2, <1>5, <1>6, ApplyFits
<1>8. QED
  BY <1>2, <1>4, <1>7, ApplicationStep

(* Whatever a socket does.                                                   *)
LEMMA SocketActiveStep ==
    ASSUME Regular, NEW i \in Items, SocketActive(i), ~Mislinked(i)
    PROVE  Regular'
<1>1. Fits(Lists, hist, Excused) /\ hist \in HistoryType /\ now \in Nat
  BY InvParts
<1>2. /\ AppActs /\ Apply(Active(Lists, i)) /\ LinksFit(Lists, hist, i)
      /\ Lists.items[i] # NoWrapper
  BY NotMislinked DEF SocketActive, Lists
<1>3. Unwatched(i) \in SUBSET Timeouts
  <2>1. Lists.wrapper[Lists.items[i]]._idleTimeout \in Timeouts
    BY <1>1, <1>2, FitsParts, ItemParts
  <2>2. QED
    BY <2>1 DEF Unwatched, Lists
<1>4. hist' = UsedNow(hist, i, Unwatched(i))
  BY NotMislinked DEF SocketActive, UsedNow
<1>5. /\ hist' \in HistoryType /\ Uses(hist, hist', i)
      /\ hist'.broken = hist.broken \cup Unwatched(i)
      /\ hist'.spurious = hist.spurious
  BY <1>1, <1>3, <1>4, UsedNowParts
<1>6. Excused \subseteq Excused' /\ EntersEmpty(Lists, hist, i) \subseteq Excused'
  <2>1. frame' = frame
    BY <1>2 DEF AppActs
  <2>2. QED
    BY <1>5, <2>1 DEF Excused, EntersEmpty, Unwatched, Lists
<1>7. Fits(Active(Lists, i), hist', Excused')
  BY <1>1, <1>2, <1>5, <1>6, ActiveFits
<1>8. Fits(Lists', hist', Excused')
  BY <1>2, <1>7, ApplyFits
<1>9. QED
  BY <1>2, <1>5, <1>8, ApplicationStep

(* Socket:setTimeout, with a timeout.                                        *)
LEMMA SetTimeoutStep ==
    ASSUME Regular, NEW i \in Items, NEW m \in Timeouts,
           NEW hasHandle \in BOOLEAN, SetTimeout(i, m, hasHandle), ~Mislinked(i)
    PROVE  Regular'
<1> DEFINE out == Unenroll(Lists, i)
           enrolled == Enroll(Lists, i, m)
           g == Forgotten(i)
<1>1. Fits(Lists, hist, Excused) /\ hist \in HistoryType /\ now \in Nat
  BY InvParts
<1>2. /\ AppActs /\ Unused(out) # {} /\ LinksFit(Lists, hist, i)
      /\ Apply(IF hasHandle THEN Active(enrolled, i) ELSE enrolled)
  BY NotMislinked DEF SetTimeout
<1>3. PICK w \in Unused(out) : enrolled = PutWrapper(out, i, m, w)
  <2> DEFINE w == CHOOSE x \in Unused(out) : TRUE
  <2>1. w \in Unused(out)
    BY <1>2
  <2>2. enrolled = PutWrapper(out, i, m, w)
    BY DEF Enroll, PutWrapper
  <2>3. QED
    BY <2>1, <2>2
<1>4. out = Unenroll(Lists, i)
  OBVIOUS
<1> HIDE DEF out, enrolled
<1>5. /\ g \in HistoryType /\ Forgets(hist, g, i)
      /\ g.broken = hist.broken /\ g.spurious = hist.spurious
  BY <1>1, ForgottenParts
<1> HIDE DEF g
<1>6. Fits(out, g, Excused) /\ out.items[i] = NoWrapper
  BY <1>1, <1>2, <1>4, <1>5, UnenrollFits
<1>7. i \notin g.fired
  BY <1>5 DEF Forgets
<1>8. Fits(enrolled, g, Excused) /\ enrolled.items[i] # NoWrapper
  BY <1>3, <1>6, EnrollFits
<1>9. CASE hasHandle
  <2>1. hist' = UsedNow(g, i, {})
    <3>1. hist' = [hist EXCEPT !.since[i] = now, !.active = @ \cup {i}, !.fired = @ \ {i},
                               !.misled = FALSE]
      BY <1>9, NotMislinked DEF SetTimeout
    <3>2. QED
      BY <1>1, <3>1, ZenonT(60) DEF UsedNow, g, Forgotten, HistoryType
  <2>2. /\ hist' \in HistoryType /\ Uses(g, hist', i)
        /\ hist'.broken = g.broken /\ hist'.spurious = g.spurious
    <3>1. PICK none \in SUBSET Timeouts : none = {}
      OBVIOUS
    <3>2. hist' = UsedNow(g, i, none)
      BY <2>1, <3>1
    <3>3. /\ hist' \in HistoryType /\ Uses(g, hist', i)
          /\ hist'.broken = g.broken \cup none /\ hist'.spurious = g.spurious
      BY <1>1, <1>5, <3>2, UsedNowParts
    <3>4. QED
      BY <3>1, <3>3
  <2>3. Fits(Active(enrolled, i), hist', Excused)
    <3>1. LinksFit(enrolled, g, i) /\ EntersEmpty(enrolled, g, i) = {}
      BY <1>7 DEF LinksFit, EntersEmpty
    <3>2. QED
      BY <1>1, <1>8, <2>2, <3>1, ActiveFits
  <2>4. Excused' = Excused
    BY <1>2, <1>5, <2>2 DEF Excused, AppActs
  <2>5. Fits(Lists', hist', Excused')
    BY <1>2, <1>9, <2>3, <2>4, ApplyFits
  <2>6. QED
    BY <1>2, <1>5, <2>2, <2>5, ApplicationStep
<1>10. CASE ~hasHandle
  <2>1. hist' = g
    BY <1>10, NotMislinked DEF SetTimeout, g, Forgotten
  <2>2. Excused' = Excused
    BY <1>2, <1>5, <2>1 DEF Excused, AppActs
  <2>3. Fits(Lists', hist', Excused')
    BY <1>2, <1>8, <1>10, <2>1, <2>2, ApplyFits
  <2>4. QED
    BY <1>2, <1>5, <2>1, <2>3, ApplicationStep
<1>11. QED
  BY <1>9, <1>10

(* The watchers, or the lists that need none, change.                        *)
LEMMA WatchersFit ==
    ASSUME NEW t, NEW h, NEW X, Fits(t, h, X),
           NEW g \in HistoryType, g.active = h.active, g.fired = h.fired,
           g.since = h.since, NEW r \in ListsType, SameLinks(t, r),
           r.items = t.items, r.wrapper = t.wrapper,
           NEW Y, Watched(r, g, Y)
    PROVE  Fits(r, g, Y)
<1>1. /\ ListsOK(t, h.active) /\ Wrapped(t, h) /\ Loose(t, h) /\ TimedOut(t, h)
  BY FitsParts
<1>2. ListsOK(r, g.active)
  BY <1>1, ListsSame DEF SameLinks, SameItems
<1>3. Wrapped(r, g)
  BY <1>1 DEF Wrapped
<1>4. Loose(r, g)
  BY <1>1 DEF Loose, SameLinks
<1>5. TimedOut(r, g)
  BY <1>1 DEF TimedOut, SameLinks
<1>6. QED
  BY <1>2, <1>3, <1>4, <1>5 DEF Fits

(* The wrapper that the callback looks at first.                             *)
MostIdle(t, h, m, first, i) ==
    /\ t.items[i] = first /\ t.wrapper[first].item = i
    /\ t.wrapper[first]._idleTimeout = m
    /\ t.wrapper[first]._idleStart = h.since[i]
    /\ \A j \in h.active : t.wrapper[t.items[j]]._idleTimeout = m =>
            h.since[i] <= h.since[j]

LEMMA FirstParts ==
    ASSUME NEW t, NEW h, NEW X, Fits(t, h, X), NEW m \in Timeouts,
           NEW first, first = t.prev[m], first # m
    PROVE  /\ first \in Wrappers /\ t.next[first] = m /\ t.prev[first] # first
           /\ \E i \in h.active : MostIdle(t, h, m, first, i)
<1>1. /\ t \in ListsType /\ h \in HistoryType /\ h.active \in SUBSET Items
      /\ ListsOK(t, h.active) /\ Wrapped(t, h)
  BY FitsParts
<1>2. PICK q \in Seq(Wrappers) : IsList(t, h.active, m, q)
  BY <1>1 DEF ListsOK
<1>3. /\ Ring(t.next, t.prev, m, q) /\ Distinct(q)
      /\ Holds(t, h.active, m, q) /\ Sorted(t, q)
  BY <1>2 DEF IsList
<1>4. /\ t.prev[Node(m, q, 0)] = Node(m, q, 0 + 1)
      /\ t.next[Node(m, q, 0 + 1)] = Node(m, q, 0)
      /\ Node(m, q, 0) = m
  BY <1>3, Places DEF Ring
<1>5. first = Node(m, q, 1) /\ t.next[first] = m
  BY <1>4
<1>6. Len(q) \in Nat /\ 1 \in 1..Len(q)
  BY <1>5, Places
<1>7. first = q[1] /\ first \in Wrappers
  BY <1>5, <1>6, Places
<1>8. t.prev[first] # first
  <2>1. t.prev[Node(m, q, 1)] = Node(m, q, 1 + 1)
    BY <1>3, <1>6 DEF Ring
  <2>2. CASE Len(q) = 1
    <3>1. 2 \in Int /\ 2 \notin 1..Len(q)
      BY <2>2
    <3>2. Node(m, q, 2) = m
      BY <3>1, Places
    <3>3. QED
      BY <1>5, <2>1, <3>2
  <2>3. CASE Len(q) > 1
    <3>1. 1 \in 0..Len(q) /\ 2 \in 0..Len(q)
      BY <1>6, <2>3
    <3>2. Node(m, q, 1) # Node(m, q, 2)
      BY <1>3, <3>1, PlacesDiffer
    <3>3. QED
      BY <1>5, <2>1, <3>2
  <2>4. \A n \in Nat : 1 \in 1..n => n = 1 \/ n > 1
    OBVIOUS
  <2>5. QED
    BY <1>6, <2>2, <2>3, <2>4
<1>9. PICK i \in h.active : t.items[i] = first /\ t.wrapper[first]._idleTimeout = m
  BY <1>3, <1>6, <1>7 DEF Holds
<1>10. t.wrapper[first].item = i /\ t.wrapper[first]._idleStart = h.since[i]
  BY <1>1, <1>9 DEF Wrapped
<1>11. ASSUME NEW j \in h.active, t.wrapper[t.items[j]]._idleTimeout = m
       PROVE  h.since[i] <= h.since[j]
  <2>1. PICK k \in 1..Len(q) : q[k] = t.items[j]
    BY <1>3, <1>11 DEF Holds
  <2>2. 1 <= k
    BY <2>1
  <2>3. t.wrapper[q[1]]._idleStart <= t.wrapper[q[k]]._idleStart
    BY <1>3, <1>6, <2>2 DEF Sorted
  <2>4. t.wrapper[q[k]]._idleStart = h.since[j]
    BY <1>1, <2>1 DEF Wrapped
  <2>5. QED
    BY <1>7, <1>10, <2>3, <2>4
<1>12. MostIdle(t, h, m, first, i)
  BY <1>9, <1>10, <1>11 DEF MostIdle
<1>13. QED
  BY <1>5, <1>7, <1>8, <1>12

(* The history when an item times out.                                       *)
Fires(h, g, i) ==
    g.active = h.active \ {i} /\ g.fired = h.fired \cup {i} /\ g.since = h.since

(* The item that has been idle for longest leaves its list.                  *)
LEMMA FiresFits ==
    ASSUME NEW t, NEW h, NEW X, Fits(t, h, X),
           NEW m \in Timeouts, NEW w, w = t.prev[m], w # m,
           NEW i \in h.active, t.items[i] = w, t.wrapper[w]._idleTimeout = m,
           NEW g \in HistoryType, Fires(h, g, i),
           NEW r, r = remove(t, w)
    PROVE  Fits(r, g, X) /\ r.prev[m] # w
<1>1. /\ t \in ListsType /\ h \in HistoryType /\ h.active \in SUBSET Items
      /\ ListsOK(t, h.active) /\ Wrapped(t, h) /\ Loose(t, h) /\ TimedOut(t, h)
      /\ Watched(t, h, X) /\ Apart(t, h.active)
  BY FitsParts
<1>2. w \in Wrappers /\ t.next[w] = m /\ t.prev[w] # w
  BY FirstParts
<1>3. r \in ListsType /\ Removed(t, r, w) /\ SameData(t, r)
  BY <1>1, <1>2, NodesApart, RemoveParts
<1>4. g.active = h.active \ {i} /\ g.fired = h.fired \cup {i} /\ g.since = h.since
  BY DEF Fires
<1>5. /\ ListsOK(r, g.active)
      /\ t.next[w] \in Linked(t, h.active) /\ t.prev[w] \in Linked(t, h.active)
  <2>1. SameItems(t, r, h.active \ {i})
    BY <1>3 DEF SameItems, SameData
  <2> DEFINE a == h.active
  <2>2. /\ a \in SUBSET Items /\ ListsOK(t, a) /\ Apart(t, a) /\ i \in a
        /\ SameItems(t, r, a \ {i}) /\ g.active = a \ {i}
    BY <1>1, <1>4, <2>1
  <2> HIDE DEF a
  <2>3. /\ ListsOK(r, a \ {i})
        /\ t.next[w] \in Linked(t, a) /\ t.prev[w] \in Linked(t, a)
    BY <1>1, <1>3, <2>2, ListsDrop
  <2>4. QED
    BY <2>2, <2>3 DEF a
<1>6. t.next \in [Nodes -> Nodes] /\ t.prev \in [Nodes -> Nodes]
  BY <1>1 DEF ListsType
<1>7. m \in Nodes /\ w \in Nodes
  BY <1>2, NodesApart
<1>8. r.next[w] = m /\ r.prev[m] = t.prev[w]
  BY <1>2, <1>3, <1>6, <1>7 DEF Removed
<1>9. Wrapped(r, g)
  BY <1>1, <1>3, <1>4 DEF Wrapped, SameData
<1>10. Elsewhere(t, r, h.active)
  BY <1>3, <1>5, <1>6 DEF Elsewhere, Removed
<1>11. Loose(r, g)
  <2>1. Untouched(t, r, h, g, h.active)
    BY <1>3, <1>4 DEF Untouched, SameData
  <2>2. \A j \in h.active : t.items[j] # NoWrapper
    BY <1>1 DEF Wrapped
  <2>3. QED
    BY <1>1, <1>10, <2>1, <2>2, LooseElsewhere
<1>12. TimedOut(r, g)
  <2>1. TimedOut(r, h)
    <3>1. \A j \in h.fired : j \notin h.active
      BY <1>1 DEF TimedOut
    <3>2. QED
      BY <1>1, <1>3, <1>10, <3>1, TimedOutElsewhere DEF SameData
  <2>2. /\ r.items[i] = w /\ r.wrapper[w]._idleTimeout = m /\ w # NoWrapper
        /\ i \notin g.active /\ r.next[w] = m
    BY <1>2, <1>3, <1>4, <1>8, NodesApart DEF SameData, NoWrapper
  <2>3. QED
    BY <1>4, <2>1, <2>2 DEF TimedOut
<1>13. Watched(r, g, X)
  BY <1>1, <1>3, <1>4 DEF Watched, SameData
<1>14. QED
  BY <1>2, <1>3, <1>5, <1>8, <1>9, <1>11, <1>12, <1>13 DEF Fits

(* Time passes.                                                              *)
LEMMA TimePassesStep ==
    ASSUME Regular, TimePasses
    PROVE  Regular'
<1>1. now' = now + 1 /\ frame' = frame /\ crashed' = crashed /\ hist' = hist
  BY DEF TimePasses
<1>2. Lists' = Lists
  BY DEF TimePasses, Lists
<1>3. now \in Nat /\ Fits(Lists, hist, Excused)
  BY InvParts
<1>4. hist.active \in SUBSET Items /\ hist \in HistoryType /\ Wrapped(Lists, hist)
  BY <1>3, FitsParts
<1>5. \A i \in hist.active : hist.since[i] <= now'
  BY <1>1, <1>3, <1>4 DEF Wrapped, HistoryType
<1>6. Wrapped(Lists, hist)'
  BY <1>1, <1>2, <1>4, <1>5 DEF Wrapped
<1>7. Excused' = Excused
  BY <1>1 DEF Excused
<1>8. Fits(Lists, hist, Excused)'
  BY <1>1, <1>2, <1>3, <1>6, <1>7 DEF Fits
<1>9. QED
  BY <1>1, <1>3, <1>8 DEF Regular, FrameInv

(* Timers that change: the links and the items are as they were.             *)
LEMMA TimersStep ==
    ASSUME Regular, ~crashed', UNCHANGED <<_idleNext, _idlePrev, items, wrapper, now>>,
           watcher' \in [Timeouts -> WatcherType],
           hist' \in HistoryType, hist'.active = hist.active,
           hist'.fired = hist.fired, hist'.since = hist.since,
           hist'.spurious = hist.spurious,
           FrameInv', Watched(Lists', hist', Excused')
    PROVE  Regular'
<1>1. Fits(Lists, hist, Excused) /\ now \in Nat
  BY InvParts
<1>2. Lists \in ListsType
  BY <1>1, FitsParts
<1>3. /\ Lists' = [next |-> Lists.next, prev |-> Lists.prev, items |-> Lists.items,
                   wrapper |-> Lists.wrapper, watcher |-> watcher']
      /\ Lists' \in ListsType
  <2>1. Lists' = [next |-> Lists.next, prev |-> Lists.prev, items |-> Lists.items,
                  wrapper |-> Lists.wrapper, watcher |-> watcher']
    BY DEF Lists
  <2>2. QED
    BY <1>2, <2>1 DEF ListsType
<1>4. /\ SameLinks(Lists, Lists') /\ Lists'.items = Lists.items
      /\ Lists'.wrapper = Lists.wrapper
  BY <1>3 DEF SameLinks
<1>5. Fits(Lists', hist', Excused')
  BY <1>1, <1>3, <1>4, WatchersFit
<1>6. Fits(Lists, hist, Excused)'
  BY <1>5, FitsPrime
<1>7. QED
  BY <1>1, <1>6 DEF Regular

(* What the timers of the active items are.                                  *)
LEMMA TimersParts ==
    ASSUME Regular
    PROVE  /\ watcher \in [Timeouts -> WatcherType]
           /\ \A i \in hist.active :
                 \E m \in Timeouts :
                    /\ m = Lists.wrapper[Lists.items[i]]._idleTimeout
                    /\ \/ m \in Excused \/ watcher[m].due > 0
                       \/ /\ watcher[m].expires # Off
                          /\ watcher[m].expires <= hist.since[i] + m
<1>1. Fits(Lists, hist, Excused)
  BY InvParts
<1>2. Lists \in ListsType /\ Wrapped(Lists, hist) /\ Watched(Lists, hist, Excused)
      /\ hist.active \in SUBSET Items
  BY <1>1, FitsParts
<1>3. Lists.watcher = watcher
  BY DEF Lists
<1>4. watcher \in [Timeouts -> WatcherType]
  BY <1>2, <1>3 DEF ListsType
<1>5. ASSUME NEW i \in hist.active
      PROVE  \E m \in Timeouts :
                /\ m = Lists.wrapper[Lists.items[i]]._idleTimeout
                /\ \/ m \in Excused \/ watcher[m].due > 0
                   \/ /\ watcher[m].expires # Off
                      /\ watcher[m].expires <= hist.since[i] + m
  BY <1>2, <1>3, <1>5 DEF Wrapped, Watched
<1>6. QED
  BY <1>4, <1>5

(* They are all that is to be told of the new state.                         *)
LEMMA TimersWatched ==
    ASSUME UNCHANGED <<items, wrapper>>, hist'.active = hist.active,
           hist'.since = hist.since, Regular,
           \A i \in hist.active, m \in Timeouts :
              /\ m = Lists.wrapper[Lists.items[i]]._idleTimeout
              /\ \/ m \in Excused \/ watcher[m].due > 0
                 \/ /\ watcher[m].expires # Off
                    /\ watcher[m].expires <= hist.since[i] + m
              => \/ m \in Excused' \/ watcher'[m].due > 0
                 \/ /\ watcher'[m].expires # Off
                    /\ watcher'[m].expires <= hist.since[i] + m
    PROVE  Watched(Lists', hist', Excused')
<1>1. SUFFICES ASSUME NEW i \in hist'.active
               PROVE  LET m == Lists'.wrapper[Lists'.items[i]]._idleTimeout
                      IN \/ m \in Excused' \/ Lists'.watcher[m].due > 0
                         \/ /\ Lists'.watcher[m].expires # Off
                            /\ Lists'.watcher[m].expires <= hist'.since[i] + m
  BY DEF Watched
<1>2. /\ Lists'.watcher = watcher' /\ Lists'.items = Lists.items
      /\ Lists'.wrapper = Lists.wrapper
  BY DEF Lists
<1>3. PICK m \in Timeouts :
          /\ m = Lists.wrapper[Lists.items[i]]._idleTimeout
          /\ \/ m \in Excused \/ watcher[m].due > 0
             \/ /\ watcher[m].expires # Off
                /\ watcher[m].expires <= hist.since[i] + m
  BY TimersParts
<1>4. \/ m \in Excused' \/ watcher'[m].due > 0
      \/ watcher'[m].expires # Off /\ watcher'[m].expires <= hist.since[i] + m
  BY <1>3
<1>5. QED
  BY <1>2, <1>3, <1>4

(* A watcher expires: a call of its callback is due.                         *)
LEMMA ExpiresStep ==
    ASSUME Regular, NEW m \in Timeouts, Expires(m)
    PROVE  Regular'
<1>1. /\ frame' = frame /\ crashed' = crashed /\ hist' = hist
      /\ UNCHANGED <<_idleNext, _idlePrev, items, wrapper, now>>
      /\ watcher' = [watcher EXCEPT ![m] = [expires |-> Off, due |-> @.due + 1]]
  BY DEF Expires
<1>2. watcher \in [Timeouts -> WatcherType]
  BY TimersParts
<1>3. /\ watcher' \in [Timeouts -> WatcherType] /\ watcher'[m].due > 0
      /\ \A l \in Timeouts \ {m} : watcher'[l] = watcher[l]
  BY <1>1, <1>2 DEF WatcherType, Off
<1>4. Excused' = Excused /\ FrameInv'
  BY <1>1 DEF Excused, Regular, FrameInv
<1>5. Watched(Lists', hist', Excused')
  BY <1>1, <1>3, <1>4, TimersWatched
<1>6. QED
  BY <1>1, <1>3, <1>4, <1>5, InvParts, TimersStep DEF Regular

(* The callback of a list starts.                                            *)
LEMMA CallbackStep ==
    ASSUME Regular, NEW m \in Timeouts, Callback(m)
    PROVE  Regular'
<1>1. /\ frame = Idle /\ frame' = [list |-> m, item |-> NoItem]
      /\ crashed' = crashed /\ hist' = hist /\ watcher[m].due > 0
      /\ UNCHANGED <<_idleNext, _idlePrev, items, wrapper, now>>
      /\ watcher' = [watcher EXCEPT ![m].due = @ - 1]
  BY DEF Callback
<1>2. watcher \in [Timeouts -> WatcherType]
  BY TimersParts
<1>3. /\ watcher' \in [Timeouts -> WatcherType]
      /\ \A l \in Timeouts \ {m} : watcher'[l] = watcher[l]
  BY <1>1, <1>2 DEF WatcherType
<1>4. /\ Excused = hist.broken \cup {0}
      /\ Excused' = hist.broken \cup {m} /\ 0 \notin Timeouts
  BY <1>1, NodesApart DEF Excused, Idle
<1>5. FrameInv'
  BY <1>1, <1>4, NodesApart DEF FrameInv, NoItem
<1>6. Watched(Lists', hist', Excused')
  BY <1>1, <1>3, <1>4, TimersWatched
<1>7. QED
  BY <1>1, <1>3, <1>5, <1>6, InvParts, TimersStep DEF Regular

(* The listener of a "timeout" returns.                                      *)
LEMMA HandlerReturnsStep ==
    ASSUME Regular, HandlerReturns
    PROVE  Regular'
<1>1. /\ frame' = [frame EXCEPT !.item = NoItem] /\ frame.item # NoItem
      /\ crashed' = crashed /\ hist' = hist
      /\ UNCHANGED <<_idleNext, _idlePrev, items, wrapper, now, watcher>>
  BY DEF HandlerReturns
<1>2. frame'.list = frame.list /\ frame.list # 0 /\ FrameInv'
  BY <1>1 DEF Regular, FrameInv, Idle
<1>3. Excused' = Excused
  BY <1>1, <1>2 DEF Excused
<1>4. watcher' \in [Timeouts -> WatcherType]
  BY <1>1, TimersParts
<1>5. Watched(Lists', hist', Excused')
  BY <1>1, <1>3, TimersWatched
<1>6. QED
  BY <1>1, <1>2, <1>4, <1>5, InvParts, TimersStep DEF Regular

(* It throws: its list has no callback that will look at it.                 *)
LEMMA HandlerThrowsStep ==
    ASSUME Regular, HandlerThrows
    PROVE  Regular'
<1>1. /\ frame' = Idle /\ frame.item # NoItem
      /\ crashed' = crashed
      /\ hist' = [hist EXCEPT !.broken = @ \cup {frame.list}]
      /\ UNCHANGED <<_idleNext, _idlePrev, items, wrapper, now, watcher>>
  BY DEF HandlerThrows
<1>2. frame.list \in Timeouts
  BY <1>1 DEF Regular, FrameInv, Idle
<1>3. /\ hist' \in HistoryType /\ hist'.active = hist.active
      /\ hist'.fired = hist.fired /\ hist'.since = hist.since
      /\ hist'.spurious = hist.spurious /\ hist'.broken = hist.broken \cup {frame.list}
  BY <1>1, <1>2, InvParts DEF HistoryType
<1>4. FrameInv'
  BY <1>1, <1>3 DEF FrameInv, Idle
<1>5. Excused \subseteq Excused'
  BY <1>3 DEF Excused
<1>6. watcher' \in [Timeouts -> WatcherType]
  BY <1>1, TimersParts
<1>7. Watched(Lists', hist', Excused')
  BY <1>1, <1>3, <1>5, TimersWatched
<1>8. QED
  BY <1>1, <1>3, <1>4, <1>6, <1>7, TimersStep DEF Regular

(* The callback looks at its list when no listener runs.                     *)
LEMMA TurnParts ==
    ASSUME Regular, CallbackTurn
    PROVE  /\ frame.list \in Timeouts /\ now' = now
           /\ Excused = hist.broken \cup {frame.list}
           /\ ~crashed /\ ~hist.spurious
<1>1. /\ frame # Idle /\ frame.item = NoItem /\ now' = now
  BY DEF CallbackTurn
<1>2. frame.list # 0
  BY <1>1 DEF Regular, FrameInv
<1>3. frame.list \in Timeouts
  BY <1>2 DEF Regular, FrameInv
<1>4. QED
  BY <1>1, <1>3 DEF Regular, Excused

(* What a turn of its loop must establish.                                   *)
LEMMA TurnStep ==
    ASSUME Regular, Fits(Lists', hist', Excused'), UNCHANGED now,
           FrameInv', ~crashed', ~hist'.spurious
    PROVE  Regular'
  BY FitsPrime, InvParts DEF Regular

(* The watcher of a list, in the callback, is set or stopped: the others and *)
(* those whose callback was cut short are as they were.                      *)
LEMMA TurnWatcher ==
    ASSUME Regular, NEW m \in Timeouts, m = frame.list,
           NEW e \in Nat, NEW r, r = PutExpires(Lists, m, e),
           frame' = Idle, hist' = hist,
           \A i \in hist.active : Lists.wrapper[Lists.items[i]]._idleTimeout = m =>
                e # Off /\ e <= hist.since[i] + m
    PROVE  Fits(r, hist', Excused')
<1>1. Fits(Lists, hist, Excused) /\ hist \in HistoryType
  BY InvParts
<1>2. /\ Lists \in ListsType /\ Wrapped(Lists, hist) /\ Watched(Lists, hist, Excused)
  BY <1>1, FitsParts
<1>3. /\ r \in ListsType /\ SameLinks(Lists, r)
      /\ r.items = Lists.items /\ r.wrapper = Lists.wrapper
      /\ r.watcher[m].expires = e
      /\ \A l \in Timeouts : l # m => r.watcher[l] = Lists.watcher[l]
  BY <1>2, WatcherParts
<1>4. Excused = hist.broken \cup {m} /\ Excused' = hist.broken \cup {0}
  BY DEF Excused, Idle
<1>5. Watched(r, hist, Excused')
  <2> SUFFICES ASSUME NEW i \in hist.active
               PROVE  LET l == r.wrapper[r.items[i]]._idleTimeout
                      IN \/ l \in Excused' \/ r.watcher[l].due > 0
                         \/ /\ r.watcher[l].expires # Off
                            /\ r.watcher[l].expires <= hist.since[i] + l
    BY DEF Watched
  <2>1. PICK l \in Timeouts : l = Lists.wrapper[Lists.items[i]]._idleTimeout
    BY <1>1, <1>2 DEF Wrapped, HistoryType
  <2>2. l = r.wrapper[r.items[i]]._idleTimeout
    BY <1>3, <2>1
  <2>3. CASE l = m
    <3>1. e # Off /\ e <= hist.since[i] + m
      BY <2>1, <2>3
    <3>2. r.watcher[l].expires = e
      BY <1>3, <2>3
    <3>3. r.watcher[l].expires # Off /\ r.watcher[l].expires <= hist.since[i] + l
      BY <2>3, <3>1, <3>2
    <3>4. QED
      BY <2>2, <3>3
  <2>4. CASE l # m
    <3>1. \/ l \in Excused \/ Lists.watcher[l].due > 0
          \/ /\ Lists.watcher[l].expires # Off
             /\ Lists.watcher[l].expires <= hist.since[i] + l
      BY <1>2, <2>1 DEF Watched
    <3>2. QED
      BY <1>3, <1>4, <2>2, <2>4, <3>1
  <2>5. QED
    BY <2>3, <2>4
<1>6. QED
  BY <1>1, <1>3, <1>5, WatchersFit

(* One turn of its loop.                                                     *)
LEMMA CallbackTurnStep ==
    ASSUME Regular, CallbackTurn
    PROVE  Regular'
<1> DEFINE m == frame.list
           first == peek(Lists, m)
           w == wrapper[first]
<1>1. /\ m \in Timeouts /\ now' = now
      /\ ~crashed /\ ~hist.spurious
  BY TurnParts
<1>2. /\ Fits(Lists, hist, Excused) /\ hist \in HistoryType /\ now \in Nat
      /\ frame \in [list : Timeouts \cup {0}, item : Items \cup {NoItem}]
  BY InvParts DEF Regular, FrameInv
<1>3. /\ Lists \in ListsType /\ ListsOK(Lists, hist.active)
      /\ hist.active \in SUBSET Items /\ Wrapped(Lists, hist)
  BY <1>2, FitsParts
<1>4. /\ first = Lists.prev[m] /\ Lists.next = _idleNext /\ Lists.wrapper = wrapper
  BY DEF peek, Lists
<1>5. CASE /\ first = m /\ Apply(stop(Lists, m)) /\ crashed' = (_idleNext[m] # m)
           /\ frame' = Idle /\ UNCHANGED hist
  <2>1. \A i \in hist.active : Lists.wrapper[Lists.items[i]]._idleTimeout # m
    BY <1>1, <1>3, <1>4, <1>5, NoneLeft
  <2>2. ~crashed'
    <3>1. Lists.next[Lists.prev[m]] = m
      BY <1>1, <1>3, HeadLinked
    <3>2. QED
      BY <1>4, <1>5, <3>1
  <2>3. stop(Lists, m) = PutExpires(Lists, m, Off) /\ Off \in Nat
    BY DEF stop, PutExpires, Off
  <2>4. Fits(stop(Lists, m), hist', Excused')
    BY <1>1, <1>5, <2>1, <2>3, TurnWatcher
  <2>5. Fits(Lists', hist', Excused')
    BY <1>5, <2>4, ApplyFits
  <2>6. FrameInv'
    BY <1>1, <1>5 DEF FrameInv, Idle
  <2>7. QED
    BY <1>1, <1>5, <2>2, <2>5, <2>6, TurnStep
<1>6. CASE /\ first # m /\ now - w._idleStart < m
           /\ Apply(again(Lists, m, m - (now - w._idleStart)))
           /\ frame' = Idle /\ UNCHANGED <<crashed, hist>>
  <2>1. PICK i \in hist.active : MostIdle(Lists, hist, m, first, i)
    BY <1>1, <1>2, <1>4, <1>6, FirstParts
  <2>2. /\ w._idleStart = hist.since[i] /\ hist.since[i] \in Nat /\ hist.since[i] <= now
    <3>1. w._idleStart = hist.since[i]
      BY <1>4, <2>1 DEF MostIdle
    <3>2. hist.since[i] \in Nat /\ hist.since[i] <= now
      BY <1>2, <1>3 DEF Wrapped, HistoryType
    <3>3. QED
      BY <3>1, <3>2
  <2>3. PICK e \in Nat : /\ e = hist.since[i] + m /\ e # Off
                         /\ e = now + (m - (now - w._idleStart))
    <3>1. m \in Nat /\ m # 0
      BY <1>1, NodesApart
    <3>2. \A s, n \in Nat : s + m \in Nat /\ s + m # 0 /\ s + m = n + (m - (n - s))
      BY <3>1
    <3> DEFINE e == hist.since[i] + m
    <3>3. e \in Nat /\ e # Off /\ e = now + (m - (now - w._idleStart))
      BY <1>2, <2>2, <3>2 DEF Off
    <3>4. QED
      BY <3>3
  <2>4. again(Lists, m, m - (now - w._idleStart)) = PutExpires(Lists, m, e)
    BY <2>3 DEF again, PutExpires
  <2>5. \A j \in hist.active : Lists.wrapper[Lists.items[j]]._idleTimeout = m =>
            e # Off /\ e <= hist.since[j] + m
    <3>1. m \in Nat /\ \A j \in hist.active : hist.since[j] \in Nat
      BY <1>1, <1>2, <1>3, NodesApart DEF HistoryType
    <3>2. \A j \in hist.active : Lists.wrapper[Lists.items[j]]._idleTimeout = m =>
              hist.since[i] <= hist.since[j]
      BY <2>1 DEF MostIdle
    <3>3. QED
      BY <2>2, <2>3, <3>1, <3>2
  <2>6. Fits(PutExpires(Lists, m, e), hist', Excused')
    BY <1>1, <1>6, <2>5, TurnWatcher
  <2>7. Fits(Lists', hist', Excused')
    BY <1>6, <2>4, <2>6, ApplyFits
  <2>8. FrameInv'
    BY <1>1, <1>6 DEF FrameInv, Idle
  <2>9. QED
    BY <1>1, <1>6, <2>7, <2>8, TurnStep
<1>7. CASE /\ first # m /\ now - w._idleStart >= m
           /\ Apply(remove(Lists, first))
           /\ crashed' = (first = peek(remove(Lists, first), m))
           /\ frame' = [frame EXCEPT !.item = w.item]
           /\ hist' = [hist EXCEPT
                !.spurious = @ \/ w.item \notin hist.active
                               \/ now < hist.since[w.item] + m,
                !.active = @ \ {w.item}, !.fired = @ \cup {w.item}]
  <2>1. PICK i \in hist.active : MostIdle(Lists, hist, m, first, i)
    BY <1>1, <1>2, <1>4, <1>7, FirstParts
  <2>2. /\ Lists.items[i] = first /\ Lists.wrapper[first].item = i
        /\ Lists.wrapper[first]._idleTimeout = m
        /\ Lists.wrapper[first]._idleStart = hist.since[i]
    BY <2>1 DEF MostIdle
  <2>3. w.item = i /\ w._idleStart = hist.since[i]
    BY <1>4, <2>2
  <2>4. ~(now < hist.since[i] + m)
    <3>1. m \in Nat /\ hist.since[i] \in Nat
      BY <1>1, <1>2, <1>3, NodesApart DEF HistoryType
    <3>2. QED
      BY <1>2, <1>7, <2>3, <3>1
  <2>5. /\ hist' \in HistoryType /\ Fires(hist, hist', i)
        /\ hist'.broken = hist.broken /\ hist'.spurious = FALSE
    <3>1. hist' = [hist EXCEPT !.spurious = FALSE, !.active = @ \ {i}, !.fired = @ \cup {i}]
      BY <1>1, <1>7, <2>3, <2>4
    <3>2. i \in Items
      BY <1>3
    <3>3. QED
      BY <1>2, <3>1, <3>2 DEF HistoryType, Fires
  <2>6. frame'.list = m /\ frame'.item = i /\ FrameInv'
    <3>1. frame' = [list |-> m, item |-> i] /\ i \in Items
      BY <1>2, <1>3, <1>7, <2>3
    <3>2. m # 0
      BY <1>1, NodesApart
    <3>3. QED
      BY <1>1, <3>1, <3>2 DEF FrameInv
  <2>7. Excused' = Excused
    BY <2>5, <2>6 DEF Excused
  <2> DEFINE out == remove(Lists, first)
  <2>8. Fits(out, hist', Excused) /\ out.prev[m] # first
    BY <1>1, <1>2, <1>4, <1>7, <2>2, <2>5, FiresFits
  <2>9. Fits(Lists', hist', Excused')
    BY <1>7, <2>7, <2>8, ApplyFits
  <2>10. ~crashed'
    BY <1>7, <2>8 DEF peek
  <2>11. QED
    BY <1>1, <2>5, <2>6, <2>9, <2>10, TurnStep
<1>8. QED
  BY <1>5, <1>6, <1>7 DEF CallbackTurn

------------------------------------------------------------------------------
(* The theorems.                                                             *)

(* At the start every list is empty.                                         *)
LEMMA InitInv ==
    ASSUME Init
    PROVE  IInv
<1>1. /\ Lists = [next |-> [n \in Nodes |-> n], prev |-> [n \in Nodes |-> n],
                  items |-> [i \in Items |-> NoWrapper],
                  wrapper |-> [w \in Wrappers |-> NoWrapperData],
                  watcher |-> [m \in Timeouts |-> [expires |-> Off, due |-> 0]]]
      /\ now = 0 /\ frame = Idle /\ crashed = FALSE /\ hist = NoHistory
  BY DEF Init, Lists
<1>2. Lists \in ListsType
  BY <1>1 DEF ListsType, WrapperType, WatcherType, NoWrapperData, Off
<1>3. /\ hist \in HistoryType /\ hist.active = {} /\ hist.fired = {}
      /\ ~hist.spurious
  BY <1>1 DEF NoHistory, HistoryType
<1>4. ListsOK(Lists, hist.active)
  <2> SUFFICES ASSUME NEW m \in Timeouts
               PROVE  \E q \in Seq(Wrappers) : IsList(Lists, {}, m, q)
    BY <1>3 DEF ListsOK
  <2> DEFINE q == <<>>
  <2>1. q \in Seq(Wrappers) /\ Len(q) = 0
    OBVIOUS
  <2> HIDE DEF q
  <2>2. Node(m, q, 0) = m /\ Node(m, q, 1) = m
    BY <2>1 DEF Node
  <2>3. Lists.next[m] = m /\ Lists.prev[m] = m
    BY <1>1, NodesApart
  <2>4. Ring(Lists.next, Lists.prev, m, q)
    BY <2>1, <2>2, <2>3 DEF Ring
  <2>5. Distinct(q) /\ Holds(Lists, {}, m, q) /\ Sorted(Lists, q)
    BY <2>1 DEF Distinct, Holds, Sorted
  <2>6. QED
    BY <2>1, <2>4, <2>5 DEF IsList
<1>5. Wrapped(Lists, hist) /\ TimedOut(Lists, hist) /\ Watched(Lists, hist, Excused)
  BY <1>1, <1>3 DEF Wrapped, TimedOut, Watched
<1>6. Loose(Lists, hist)
  BY <1>1, NodesApart DEF Loose
<1>7. FrameInv
  BY <1>1, <1>3 DEF FrameInv, Idle
<1>8. QED
  BY <1>1, <1>2, <1>3, <1>4, <1>5, <1>6, <1>7 DEF Fits, Regular, IInv

(* Every step of what has not been misled keeps the invariant.               *)
LEMMA RegularNext ==
    ASSUME Regular, Next
    PROVE  IInv'
<1>1. CASE Application
  <2>1. PICK i \in Items :
            \/ \E m \in Timeouts, hasHandle \in BOOLEAN : SetTimeout(i, m, hasHandle)
            \/ ClearTimeout(i) \/ SocketActive(i)
    BY <1>1 DEF Application
  <2>2. CASE Mislinked(i)
    <3>1. hist'.misled /\ hist'.spurious = hist.spurious
      BY <2>1, <2>2, InvParts DEF SetTimeout, ClearTimeout, SocketActive, HistoryType
    <3>2. QED
      BY <3>1 DEF Regular, IInv
  <2>3. CASE ~Mislinked(i)
    <3>1. Regular'
      BY <2>1, <2>3, SetTimeoutStep, ClearTimeoutStep, SocketActiveStep
    <3>2. QED
      BY <3>1 DEF Regular, IInv
  <2>4. QED
    BY <2>2, <2>3
<1>2. CASE Watcher
  <2>1. Regular'
    BY <1>2, ExpiresStep, CallbackStep, CallbackTurnStep, HandlerReturnsStep,
       HandlerThrowsStep DEF Watcher
  <2>2. QED
    BY <2>1 DEF Regular, IInv
<1>3. CASE TimePasses
  <2>1. Regular'
    BY <1>3, TimePassesStep
  <2>2. QED
    BY <2>1 DEF Regular, IInv
<1>4. QED
  BY <1>1, <1>2, <1>3 DEF Next

(* Nothing is done after an item has been misled.                            *)
LEMMA MisledStops ==
    ASSUME hist.misled
    PROVE  ~Next
  BY DEF Next, Application, Watcher, SetTimeout, ClearTimeout, SocketActive, AppActs,
         Expires, Callback, CallbackTurn, HandlerReturns, HandlerThrows, TimePasses, Runs

(* Every step keeps the invariant.                                           *)
LEMMA NextInv ==
    ASSUME IInv, [Next]_vars
    PROVE  IInv'
<1>1. CASE UNCHANGED vars
  <2>1. UNCHANGED <<Lists, hist, now, frame, crashed>>
    BY <1>1 DEF vars, Lists
  <2>2. CASE hist.misled
    BY <2>1, <2>2 DEF IInv
  <2>3. CASE Regular
    <3>1. Excused' = Excused
      BY <2>1 DEF Excused
    <3>2. Fits(Lists', hist', Excused')
      BY <2>1, <2>3, <3>1, InvParts
    <3>3. Fits(Lists, hist, Excused)'
      BY <2>1, <3>2, FitsPrime
    <3>4. Regular'
      BY <2>1, <2>3, <3>3 DEF Regular, FrameInv
    <3>5. QED
      BY <3>4 DEF Regular, IInv
  <2>4. QED
    BY <2>2, <2>3 DEF IInv
<1>2. CASE Next
  <2>1. Regular
    BY <1>2, MisledStops DEF IInv
  <2>2. QED
    BY <1>2, <2>1, RegularNext
<1>3. QED
  BY <1>1, <1>2

(* The inductive invariant holds of every state, whatever is enrolled, used, *)
(* taken out and timed out, in the callback or elsewhere, until an item that *)
(* had timed out is taken out by links that do not fit any more.             *)
THEOREM IdleInvariance == Spec => []IInv
<1>1. Init => IInv
  BY InitInv
<1>2. IInv /\ [Next]_vars => IInv'
  BY NextInv
<1>3. QED
  BY <1>1, <1>2, PTL DEF Spec

(* A list and its head, at both ends, as one sequence.                       *)
LEMMA RingNodes ==
    ASSUME NEW m \in Timeouts, NEW q \in Seq(Wrappers),
           NEW ring, ring = <<m>> \o q \o <<m>>
    PROVE  /\ Len(ring) = Len(q) + 2
           /\ \A k \in 1..Len(q) + 2 : ring[k] = Node(m, q, k - 1)
<1> DEFINE L == Len(q)
           head == <<m>> \o q
<1>1. L \in Nat /\ q \in Seq(Nodes) /\ <<m>> \in Seq(Nodes) /\ m \in Nodes
  BY NodesApart DEF Nodes
<1>2. /\ head \in Seq(Nodes) /\ Len(head) = L + 1 /\ head[1] = m
      /\ \A k \in 1..L : head[k + 1] = q[k]
  BY <1>1
<1> HIDE DEF head
<1>3. /\ Len(ring) = L + 2 /\ ring[L + 2] = m
      /\ \A k \in 1..L + 1 : ring[k] = head[k]
  BY <1>1, <1>2 DEF head
<1>4. ASSUME NEW k \in 1..L + 2 PROVE ring[k] = Node(m, q, k - 1)
  <2>1. CASE k = 1
    <3>1. ring[1] = m
      BY <1>1, <1>2, <1>3
    <3>2. Node(m, q, 0) = m
      BY Places
    <3>3. QED
      BY <2>1, <3>1, <3>2
  <2>2. CASE k = L + 2
    <3>1. Node(m, q, L + 1) = m
      BY <1>1, Places
    <3>2. k - 1 = L + 1
      BY <1>1, <2>2
    <3>3. QED
      BY <1>3, <2>2, <3>1, <3>2
  <2>3. CASE k \in 2..L + 1
    <3>1. k - 1 \in 1..L /\ k \in 1..L + 1 /\ k - 1 + 1 = k
      BY <1>1, <2>3
    <3>2. ring[k] = q[k - 1]
      BY <1>2, <1>3, <3>1
    <3>3. Node(m, q, k - 1) = q[k - 1]
      BY <3>1, Places
    <3>4. QED
      BY <3>2, <3>3
  <2>4. k = 1 \/ k = L + 2 \/ k \in 2..L + 1
    BY <1>1
  <2>5. QED
    BY <2>1, <2>2, <2>3, <2>4
<1>5. QED
  BY <1>3, <1>4

(* Its wrappers are those of the active items, each once.                    *)
LEMMA ListEnumerates ==
    ASSUME NEW m \in Timeouts, NEW q \in Seq(Wrappers),
           IsList(Lists, hist.active, m, q)
    PROVE  q \in SetToSeqs(Enrolled(m))
<1> DEFINE S == Enrolled(m)
           D == 1..Len(q)
<1>1. /\ Len(q) \in Nat /\ DOMAIN q = D
      /\ Distinct(q) /\ Holds(Lists, hist.active, m, q)
  BY DEF IsList
<1>2. \A k \in D : q[k] \in S
  BY <1>1 DEF Holds, Enrolled, Lists
<1>3. \A x \in S : \E k \in D : q[k] = x
  BY <1>1 DEF Holds, Enrolled, Lists
<1>4. q \in [D -> S]
  BY <1>1, <1>2
<1> HIDE DEF S
<1>5. q \in Bijection(D, S)
  BY <1>1, <1>3, <1>4 DEF Bijection, Injection, Surjection, IsInjective, Distinct
<1>6. Cardinality(S) = Len(q)
  BY <1>1, <1>5, FS_CountingElements DEF ExistsBijection
<1>7. q \in {f \in [1..Cardinality(S) -> S] :
                 \A i, j \in 1..Cardinality(S) : i # j => f[i] # f[j]}
  BY <1>1, <1>4, <1>6 DEF Distinct
<1>8. QED
  BY <1>7 DEF SetToSeqs, S

(* The links of timers.lua are those of lists: each list has exactly the     *)
(* active items with its timeout, linked both ways, the one idle for longest *)
(* first, and the assertions of the callback hold.  Items are enrolled,      *)
(* moved and taken out from anywhere; one that has timed out may be used or  *)
(* given up later while its former neighbours are still each other's.        *)
THEOREM IdleListsSorted == Spec => []ListsAreSorted
<1>1. IInv => ListsAreSorted
  <2> SUFFICES ASSUME Regular PROVE ~crashed /\ \A m \in Timeouts : ListIsSorted(m)
    BY DEF IInv, ListsAreSorted
  <2>1. ListsOK(Lists, hist.active) /\ ~crashed
    BY InvParts, FitsParts DEF Regular
  <2>2. ASSUME NEW m \in Timeouts
        PROVE  \E q \in SetToSeqs(Enrolled(m)) :
                  LET ring == <<m>> \o q \o <<m>>
                  IN \A k \in 1..(Len(ring) - 1) :
                       /\ _idlePrev[ring[k]] = ring[k + 1]
                       /\ _idleNext[ring[k + 1]] = ring[k]
                       /\ k > 1 /\ k < Len(ring) - 1 =>
                            wrapper[ring[k]]._idleStart <= wrapper[ring[k + 1]]._idleStart
    <3>1. PICK q \in Seq(Wrappers) : IsList(Lists, hist.active, m, q)
      BY <2>1 DEF ListsOK
    <3>2. q \in SetToSeqs(Enrolled(m))
      BY <3>1, ListEnumerates
    <3> DEFINE ring == <<m>> \o q \o <<m>>
               L == Len(q)
    <3>3. ring = <<m>> \o q \o <<m>>
      OBVIOUS
    <3> HIDE DEF ring
    <3>4. /\ L \in Nat /\ Len(ring) = L + 2
          /\ \A k \in 1..L + 2 : ring[k] = Node(m, q, k - 1)
      BY <3>3, RingNodes
    <3>5. Ring(Lists.next, Lists.prev, m, q) /\ Sorted(Lists, q)
      BY <3>1 DEF IsList
    <3>6. Lists.next = _idleNext /\ Lists.prev = _idlePrev /\ Lists.wrapper = wrapper
      BY DEF Lists
    <3>7. ASSUME NEW k \in 1..L + 1
          PROVE  /\ _idlePrev[ring[k]] = ring[k + 1] /\ _idleNext[ring[k + 1]] = ring[k]
                 /\ k > 1 /\ k < L + 1 =>
                      wrapper[ring[k]]._idleStart <= wrapper[ring[k + 1]]._idleStart
      <4>1. ring[k] = Node(m, q, k - 1) /\ ring[k + 1] = Node(m, q, k)
        <5>1. k \in 1..L + 2 /\ k + 1 \in 1..L + 2 /\ k + 1 - 1 = k
          BY <3>4
        <5>2. QED
          BY <3>4, <5>1
      <4>2. /\ _idlePrev[Node(m, q, k - 1)] = Node(m, q, k)
            /\ _idleNext[Node(m, q, k)] = Node(m, q, k - 1)
        <5>1. k - 1 \in 0..L /\ k - 1 + 1 = k
          BY <3>4
        <5>2. QED
          BY <3>5, <3>6, <5>1 DEF Ring
      <4>3. ASSUME k > 1, k < L + 1
            PROVE  wrapper[ring[k]]._idleStart <= wrapper[ring[k + 1]]._idleStart
        <5>1. k - 1 \in 1..L /\ k \in 1..L /\ k - 1 <= k
          BY <3>4, <4>3
        <5>2. ring[k] = q[k - 1] /\ ring[k + 1] = q[k]
          BY <4>1, <5>1, Places
        <5>3. wrapper[q[k - 1]]._idleStart <= wrapper[q[k]]._idleStart
          BY <3>5, <3>6, <5>1 DEF Sorted
        <5>4. QED
          BY <5>2, <5>3
      <4>4. QED
        BY <4>1, <4>2, <4>3
    <3>8. Len(ring) - 1 = L + 1
      BY <3>4
    <3>9. \A k \in 1..(Len(ring) - 1) :
              /\ _idlePrev[ring[k]] = ring[k + 1]
              /\ _idleNext[ring[k + 1]] = ring[k]
              /\ k > 1 /\ k < Len(ring) - 1 =>
                   wrapper[ring[k]]._idleStart <= wrapper[ring[k + 1]]._idleStart
      BY <3>7, <3>8
    <3>10. QED
      BY <3>2, <3>9 DEF ring
  <2>3. QED
    BY <2>1, <2>2 DEF ListIsSorted
<1>2. QED
  BY <1>1, IdleInvariance, PTL

(* An item times out only if it is enrolled and has been idle for as long as *)
(* its timeout: what Active and the callback of timers.lua are there for.    *)
THEOREM NothingTimesOutEarly == Spec => []NoSpuriousTimeout
<1>1. IInv => NoSpuriousTimeout
  BY DEF IInv, NoSpuriousTimeout
<1>2. QED
  BY <1>1, IdleInvariance, PTL

(* An item that is active is watched: the watcher of its list is due, or     *)
(* expires in time, or its callback runs.  The exceptions are a list whose   *)
(* callback was cut short by an error or that an item which had timed out    *)
(* entered when it was empty, and an item that had timed out and was taken   *)
(* out by links that did not fit any more.                                   *)
THEOREM ActiveItemsWatched == Spec => []IdleItemsWatched
<1>1. IInv => IdleItemsWatched
  <2> SUFFICES ASSUME Regular, NEW i \in hist.active
               PROVE  LET m == wrapper[items[i]]._idleTimeout
                          watch == watcher[m]
                      IN \/ watch.due > 0 \/ frame.list = m \/ m \in hist.broken
                         \/ /\ watch.expires # Off
                            /\ watch.expires <= hist.since[i] + m
    BY DEF IInv, IdleItemsWatched
  <2>1. Lists.wrapper = wrapper /\ Lists.items = items
    BY DEF Lists
  <2>2. QED
    BY <2>1, TimersParts DEF Excused
<1>2. QED
  BY <1>1, IdleInvariance, PTL

==============================================================================
