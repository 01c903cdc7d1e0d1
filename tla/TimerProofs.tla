----------------------------- MODULE TimerProofs -----------------------------
(* Proofs about Timer, for any set of timers and any bound on their waits.   *)
(* Nothing is used of the numbers that tell the waits of a timer apart.      *)
EXTENDS Timer, FiniteSetTheorems, TLAPS

(* The waits that may still have the callback called.                        *)
Live(ws) == {w \in ws : w.state # "aborted"}

WaitsOK(ws) ==
    /\ IsFiniteSet(Live(ws))
    /\ \A w \in ws :
          /\ w = [n |-> w.n, state |-> w.state, self |-> w.self]
          /\ w.state \in {"pending", "due", "aborted"}

TypeInv ==
    /\ kind \in [Timers -> {"new", "timeout", "interval"}]
    /\ callback \in [Timers -> BOOLEAN]
    /\ waits = [t \in Timers |-> waits[t]]
    /\ \A t \in Timers : WaitsOK(waits[t])
    /\ hist \in [Timers -> [fired : BOOLEAN, cleared : BOOLEAN,
                            late : BOOLEAN, left : Nat, extra : BOOLEAN]]

(* A timer that was cleared has lost its callback; one that was not created  *)
(* has nothing yet.                                                          *)
ClearInv ==
    \A t \in Timers :
        /\ hist[t].cleared => ~callback[t]
        /\ ~hist[t].late
        /\ kind[t] = "new" => /\ waits[t] = {} /\ t \notin running
                              /\ ~hist[t].cleared /\ ~hist[t].fired

(* The calls a timer is armed for are enough for its live waits.             *)
WaitInv ==
    \A t \in Timers :
        /\ ~hist[t].extra
        /\ Cardinality(Live(waits[t])) <= hist[t].left

IInv == TypeInv /\ ClearInv /\ WaitInv

------------------------------------------------------------------------------
(* One element more or less.                                                 *)
LEMMA OneMore ==
    ASSUME NEW S, IsFiniteSet(S), NEW x
    PROVE  /\ IsFiniteSet(S \cup {x})
           /\ Cardinality(S) \in Nat /\ Cardinality(S \cup {x}) \in Nat
           /\ Cardinality(S \cup {x}) <= Cardinality(S) + 1
<1>1. /\ IsFiniteSet(S \cup {x})
      /\ Cardinality(S \cup {x}) = IF x \in S THEN Cardinality(S)
                                   ELSE Cardinality(S) + 1
  BY FS_AddElement
<1>2. Cardinality(S) \in Nat
  BY FS_CardinalityType
<1>3. QED
  BY <1>1, <1>2

LEMMA OneLess ==
    ASSUME NEW S, IsFiniteSet(S), NEW x \in S
    PROVE  /\ IsFiniteSet(S \ {x})
           /\ Cardinality(S) \in Nat /\ Cardinality(S \ {x}) \in Nat
           /\ Cardinality(S) = Cardinality(S \ {x}) + 1
<1>1. /\ IsFiniteSet(S \ {x})
      /\ Cardinality(S \ {x}) = Cardinality(S) - 1
  BY FS_RemoveElement
<1>2. Cardinality(S) \in Nat
  BY FS_CardinalityType
<1>3. Cardinality(S \ {x}) \in Nat
  BY <1>1, FS_CardinalityType
<1>4. QED
  BY <1>1, <1>2, <1>3

(* The live waits are finitely many, and so are those among them that are due.*)
LEMMA LiveWaits ==
    ASSUME NEW ws, WaitsOK(ws)
    PROVE  /\ IsFiniteSet(Live(ws)) /\ Cardinality(Live(ws)) \in Nat
           /\ IsFiniteSet(Due(ws)) /\ Cardinality(Due(ws)) \in Nat
<1>1. IsFiniteSet(Live(ws)) /\ Due(ws) \subseteq Live(ws)
  BY DEF WaitsOK, Live, Due
<1>2. QED
  BY <1>1, FS_Subset, FS_CardinalityType

(* Cancel leaves the live waits that are due.                                *)
LEMMA CancelWaits ==
    ASSUME NEW ws, WaitsOK(ws)
    PROVE  /\ WaitsOK(Cancel(ws))
           /\ Live(Cancel(ws)) \subseteq Due(ws)
           /\ Live(Cancel(ws)) \subseteq Live(ws)
<1>1. ASSUME NEW w \in Cancel(ws)
      PROVE  /\ w = [n |-> w.n, state |-> w.state, self |-> w.self]
             /\ w.state \in {"pending", "due", "aborted"}
             /\ w.state # "aborted" => w \in ws /\ w.state = "due"
  <2>1. PICK v \in ws :
            w = IF v.state = "pending" THEN [v EXCEPT !.state = "aborted"] ELSE v
    BY DEF Cancel
  <2>2. /\ v = [n |-> v.n, state |-> v.state, self |-> v.self]
        /\ v.state \in {"pending", "due", "aborted"}
    BY DEF WaitsOK
  <2>3. CASE v.state = "pending"
    <3>1. w = [n |-> v.n, state |-> "aborted", self |-> v.self]
      BY <2>1, <2>2, <2>3
    <3>2. QED
      BY <3>1
  <2>4. CASE v.state # "pending"
    BY <2>1, <2>2, <2>4
  <2>5. QED
    BY <2>3, <2>4
<1>2. Live(Cancel(ws)) \subseteq Due(ws) /\ Live(Cancel(ws)) \subseteq Live(ws)
  BY <1>1 DEF Live, Due
<1>3. IsFiniteSet(Live(Cancel(ws)))
  BY <1>2, LiveWaits, FS_Subset
<1>4. QED
  BY <1>1, <1>2, <1>3 DEF WaitsOK

(* AsyncWait adds one live wait.                                             *)
LEMMA AsyncWaitWaits ==
    ASSUME NEW ws, WaitsOK(ws), NEW self
    PROVE  /\ WaitsOK(AsyncWait(ws, self))
           /\ Cardinality(Live(AsyncWait(ws, self)))
                    <= Cardinality(Live(ws)) + 1
<1> DEFINE new == [n |-> Fresh(ws), state |-> "pending", self |-> self]
<1>1. AsyncWait(ws, self) = ws \cup {new}
  BY DEF AsyncWait
<1>2. new = [n |-> new.n, state |-> new.state, self |-> new.self]
      /\ new.state = "pending"
  OBVIOUS
<1> HIDE DEF new
<1>3. Live(ws \cup {new}) = Live(ws) \cup {new}
  BY <1>2 DEF Live
<1>4. IsFiniteSet(Live(ws))
  BY LiveWaits
<1>5. /\ IsFiniteSet(Live(ws) \cup {new})
      /\ Cardinality(Live(ws) \cup {new}) <= Cardinality(Live(ws)) + 1
  BY <1>4, OneMore
<1>6. QED
  BY <1>1, <1>2, <1>3, <1>5 DEF WaitsOK

(* To arm a timer: the live waits are then the new one and the due ones.     *)
LEMMA ArmedWaits ==
    ASSUME NEW ws, WaitsOK(ws), NEW self
    PROVE  /\ WaitsOK(AsyncWait(Cancel(ws), self))
           /\ Cardinality(Live(AsyncWait(Cancel(ws), self)))
                    <= Cardinality(Due(ws)) + 1
           /\ Cardinality(Due(ws)) + 1 \in Nat
<1>1. WaitsOK(Cancel(ws)) /\ Live(Cancel(ws)) \subseteq Due(ws)
  BY CancelWaits
<1>2. Cardinality(Live(Cancel(ws))) <= Cardinality(Due(ws))
  BY <1>1, LiveWaits, FS_Subset
<1> DEFINE c == Cancel(ws)
<1> HIDE DEF c
<1>3. /\ WaitsOK(AsyncWait(c, self))
      /\ Cardinality(Live(AsyncWait(c, self))) <= Cardinality(Live(c)) + 1
      /\ Cardinality(Live(AsyncWait(c, self))) \in Nat
      /\ Cardinality(Live(c)) \in Nat
  BY <1>1, AsyncWaitWaits, LiveWaits DEF c
<1>4. Cardinality(Due(ws)) \in Nat
  BY LiveWaits
<1>5. QED
  BY <1>2, <1>3, <1>4 DEF c

(* A wait that is taken out when its OnTimeout is called.                    *)
LEMMA WithoutWait ==
    ASSUME NEW ws, WaitsOK(ws), NEW w \in ws
    PROVE  /\ WaitsOK(ws \ {w})
           /\ Live(ws \ {w}) \subseteq Live(ws)
           /\ w.state = "due" =>
                Cardinality(Live(ws)) = Cardinality(Live(ws \ {w})) + 1
<1>1. Live(ws \ {w}) = Live(ws) \ {w} /\ IsFiniteSet(Live(ws) \ {w})
  BY FS_RemoveElement DEF WaitsOK, Live
<1>2. WaitsOK(ws \ {w}) /\ Live(ws \ {w}) = Live(ws) \ {w}
  BY <1>1 DEF WaitsOK
<1>3. ASSUME w.state = "due"
      PROVE  Cardinality(Live(ws)) = Cardinality(Live(ws \ {w})) + 1
  <2>1. w \in Live(ws)
    BY <1>3 DEF Live
  <2>2. IsFiniteSet(Live(ws))
    BY LiveWaits
  <2>3. Cardinality(Live(ws)) = Cardinality(Live(ws) \ {w}) + 1
    BY <2>1, <2>2, OneLess
  <2>4. QED
    BY <1>2, <2>3
<1>4. QED
  BY <1>2, <1>3

(* Fewer waits need no more calls.                                           *)
LEMMA FewerLive ==
    ASSUME NEW ws, WaitsOK(ws), NEW us, WaitsOK(us), Live(us) \subseteq Live(ws)
    PROVE  Cardinality(Live(us)) <= Cardinality(Live(ws))
  BY LiveWaits, FS_Subset

(* A wait that expires stays the live wait it was.                           *)
LEMMA ExpiredWait ==
    ASSUME NEW ws, WaitsOK(ws), NEW w \in ws, w.state = "pending",
           NEW r, r = (ws \ {w}) \cup {[w EXCEPT !.state = "due"]}
    PROVE  /\ WaitsOK(r)
           /\ Cardinality(Live(r)) <= Cardinality(Live(ws))
<1> DEFINE v == [w EXCEPT !.state = "due"]
<1>1. w = [n |-> w.n, state |-> w.state, self |-> w.self]
  BY DEF WaitsOK
<1>2. v = [n |-> v.n, state |-> v.state, self |-> v.self] /\ v.state = "due"
  <2>1. v = [n |-> w.n, state |-> "due", self |-> w.self]
    BY <1>1
  <2>2. QED
    BY <2>1
<1> HIDE DEF v
<1>3. r = (ws \ {w}) \cup {v}
  BY DEF v
<1>4. Live(r) = (Live(ws) \ {w}) \cup {v} /\ w \in Live(ws)
  BY <1>2, <1>3 DEF Live
<1>5. IsFiniteSet(Live(ws))
  BY LiveWaits
<1>6. /\ IsFiniteSet(Live(ws) \ {w})
      /\ Cardinality(Live(ws) \ {w}) \in Nat
      /\ Cardinality(Live(ws)) = Cardinality(Live(ws) \ {w}) + 1
  BY <1>4, <1>5, OneLess
<1> DEFINE L == Live(ws) \ {w}
<1> HIDE DEF L
<1>7. /\ IsFiniteSet(L \cup {v})
      /\ Cardinality(L \cup {v}) <= Cardinality(L) + 1
  BY <1>6, OneMore DEF L
<1>8. Live(r) = L \cup {v} /\ Cardinality(Live(ws)) = Cardinality(L) + 1
  BY <1>4, <1>6 DEF L
<1>9. Cardinality(Live(r)) <= Cardinality(Live(ws)) /\ IsFiniteSet(Live(r))
  BY <1>7, <1>8
<1>10. \A u \in r : /\ u = [n |-> u.n, state |-> u.state, self |-> u.self]
                    /\ u.state \in {"pending", "due", "aborted"}
  BY <1>2, <1>3 DEF WaitsOK
<1>11. WaitsOK(r)
  BY <1>9, <1>10 DEF WaitsOK
<1>12. QED
  BY <1>9, <1>11

------------------------------------------------------------------------------
(* No timer has been created.                                                *)
LEMMA InitIInv == Init => IInv
<1> SUFFICES ASSUME Init PROVE IInv
  OBVIOUS
<1>1. \A t \in Timers : hist[t] = NoHistory /\ waits[t] = {} /\ kind[t] = "new"
                        /\ callback[t] = FALSE
  BY DEF Init
<1>2. TypeInv
  <2>1. WaitsOK({})
    BY FS_EmptySet DEF WaitsOK, Live
  <2>2. QED
    BY <1>1, <2>1 DEF Init, TypeInv, NoHistory
<1>3. ClearInv
  BY <1>1 DEF Init, ClearInv, NoHistory
<1>4. WaitInv
  BY <1>1, FS_EmptySet DEF Init, WaitInv, NoHistory, Live
<1>5. QED
  BY <1>2, <1>3, <1>4 DEF IInv

(* The application: setTimeout, setInterval, clearTimeout, again.            *)
LEMMA ApplicationKeepsIInv ==
    ASSUME IInv, NEW t \in Timers, Application(t)
    PROVE  IInv'
<1>1. /\ WaitsOK(waits[t])
      /\ \A u \in Timers : WaitsOK(waits[u])
  BY DEF IInv, TypeInv
<1>2. ASSUME NEW k \in {"timeout", "interval"}, Start(t, k) PROVE IInv'
  <2> DEFINE ws == AsyncWait(waits[t], TRUE)
             more == Cardinality(Due(waits[t])) + 1
  <2>1. /\ waits[t] = {} /\ kind[t] = "new" /\ t \notin running
        /\ ~hist[t].cleared /\ ~hist[t].fired
    BY <1>2 DEF Start, IInv, ClearInv
  <2>2. /\ WaitsOK(ws) /\ more \in Nat
        /\ Cardinality(Live(ws)) <= more
    <3>1. Live(waits[t]) = {} /\ Due(waits[t]) = {}
      BY <2>1 DEF Live, Due
    <3>2. Cardinality(Live(waits[t])) = 0 /\ more = 1
      BY <3>1, FS_EmptySet
    <3>3. WaitsOK(ws) /\ Cardinality(Live(ws)) <= Cardinality(Live(waits[t])) + 1
      BY <1>1, AsyncWaitWaits
    <3> HIDE DEF ws, more
    <3>4. QED
      BY <3>2, <3>3
  <2>3. /\ waits' = [waits EXCEPT ![t] = ws]
        /\ kind' = [kind EXCEPT ![t] = k]
        /\ callback' = [callback EXCEPT ![t] = TRUE]
        /\ hist' = [hist EXCEPT ![t].left = more]
        /\ UNCHANGED running
    BY <1>2 DEF Start, Armed
  <2> HIDE DEF ws, more
  <2>4. TypeInv'
    BY <1>1, <2>2, <2>3 DEF IInv, TypeInv
  <2>5. ClearInv'
    BY <2>1, <2>3 DEF IInv, TypeInv, ClearInv
  <2>6. WaitInv'
    BY <2>2, <2>3 DEF IInv, TypeInv, WaitInv
  <2>7. QED
    BY <2>4, <2>5, <2>6 DEF IInv
<1>3. CASE Clear(t)
  <2> DEFINE ws == Cancel(waits[t])
  <2>1. WaitsOK(ws) /\ Cardinality(Live(ws)) <= Cardinality(Live(waits[t]))
        /\ Cardinality(Live(ws)) \in Nat /\ Cardinality(Live(waits[t])) \in Nat
    BY <1>1, CancelWaits, FewerLive, LiveWaits
  <2>2. /\ waits' = [waits EXCEPT ![t] = ws]
        /\ callback' = [callback EXCEPT ![t] = FALSE]
        /\ hist' = [hist EXCEPT ![t].cleared = TRUE]
        /\ kind[t] # "new" /\ UNCHANGED <<kind, running>>
    BY <1>3 DEF Clear
  <2> HIDE DEF ws
  <2>3. \A u \in Timers : /\ hist'[u].late = hist[u].late
                          /\ hist'[u].extra = hist[u].extra
                          /\ hist'[u].left = hist[u].left
                          /\ hist'[u].fired = hist[u].fired
                          /\ u # t => hist'[u] = hist[u]
    BY <2>2 DEF IInv, TypeInv
  <2>4. TypeInv'
    BY <1>1, <2>1, <2>2 DEF IInv, TypeInv
  <2>5. ClearInv'
    BY <2>2, <2>3 DEF IInv, TypeInv, ClearInv
  <2>6. WaitInv'
    BY <2>1, <2>2, <2>3 DEF IInv, TypeInv, WaitInv
  <2>7. QED
    BY <2>4, <2>5, <2>6 DEF IInv
<1>4. CASE Again(t)
  <2> DEFINE ws == AsyncWait(Cancel(waits[t]), TRUE)
             more == Cardinality(Due(waits[t])) + 1
  <2>1. WaitsOK(ws) /\ Cardinality(Live(ws)) <= more /\ more \in Nat
    BY <1>1, ArmedWaits
  <2>2. /\ waits' = [waits EXCEPT ![t] = ws]
        /\ hist' = [hist EXCEPT ![t].left = more]
        /\ kind[t] # "new" /\ UNCHANGED <<kind, callback, running>>
    BY <1>4 DEF Again, Armed
  <2> HIDE DEF ws, more
  <2>3. QED
    BY <1>1, <2>1, <2>2 DEF IInv, TypeInv, ClearInv, WaitInv
<1>5. QED
  BY <1>2, <1>3, <1>4 DEF Application

(* The Asio timer and OnTimeout.                                             *)
LEMMA WaitEndsKeepsIInv ==
    ASSUME IInv, NEW t \in Timers, NEW w \in waits[t],
           Expire(t, w) \/ Aborted(t, w) \/ OnTimeout(t, w)
    PROVE  IInv'
<1> DEFINE rest == waits[t] \ {w}
<1>1. /\ WaitsOK(waits[t]) /\ \A u \in Timers : WaitsOK(waits[u])
      /\ kind[t] # "new"
  BY DEF IInv, TypeInv, ClearInv
<1>2. CASE Expire(t, w)
  <2> DEFINE ws == (waits[t] \ {w}) \cup {[w EXCEPT !.state = "due"]}
  <2>1. /\ waits' = [waits EXCEPT ![t] = ws] /\ w.state = "pending"
        /\ UNCHANGED <<kind, callback, running, hist>>
    BY <1>2 DEF Expire
  <2>2. /\ WaitsOK(ws)
        /\ Cardinality(Live(ws)) <= Cardinality(Live(waits[t]))
        /\ Cardinality(Live(ws)) \in Nat /\ Cardinality(Live(waits[t])) \in Nat
    BY <1>1, <2>1, ExpiredWait, LiveWaits
  <2> HIDE DEF ws
  <2>3. QED
    BY <1>1, <2>1, <2>2 DEF IInv, TypeInv, ClearInv, WaitInv
<1>3. CASE Aborted(t, w)
  <2>1. /\ WaitsOK(rest)
        /\ Cardinality(Live(rest)) <= Cardinality(Live(waits[t]))
        /\ Cardinality(Live(rest)) \in Nat /\ Cardinality(Live(waits[t])) \in Nat
    BY <1>1, WithoutWait, FewerLive, LiveWaits
  <2>2. /\ waits' = [waits EXCEPT ![t] = rest]
        /\ UNCHANGED <<kind, callback, running, hist>>
    BY <1>3 DEF Aborted
  <2> HIDE DEF rest
  <2>3. QED
    BY <1>1, <2>1, <2>2 DEF IInv, TypeInv, ClearInv, WaitInv
<1>4. CASE OnTimeout(t, w)
  <2>1. /\ w.state = "due" /\ UNCHANGED <<kind, callback>>
        /\ WaitsOK(rest) /\ WaitsOK(Cancel(rest))
        /\ Cardinality(Live(waits[t])) = Cardinality(Live(rest)) + 1
        /\ Cardinality(Live(Cancel(rest))) <= Cardinality(Live(rest))
        /\ Cardinality(Live(rest)) \in Nat
        /\ Cardinality(Live(Cancel(rest))) \in Nat
    <3>1. w.state = "due" /\ UNCHANGED <<kind, callback>>
      BY <1>4 DEF OnTimeout
    <3>2. /\ WaitsOK(rest)
          /\ Cardinality(Live(waits[t])) = Cardinality(Live(rest)) + 1
      BY <1>1, <3>1, WithoutWait
    <3> HIDE DEF rest
    <3>3. WaitsOK(Cancel(rest)) /\ Live(Cancel(rest)) \subseteq Live(rest)
      BY <3>2, CancelWaits
    <3>4. QED
      BY <3>1, <3>2, <3>3, FewerLive, LiveWaits
  <2> HIDE DEF rest
  <2>2. CASE /\ callback[t] /\ waits' = [waits EXCEPT ![t] = rest]
             /\ running' = {t}
             /\ hist' = [hist EXCEPT ![t] = Fired(t)]
    <3>1. hist[t].cleared = FALSE /\ hist[t].late = FALSE
      BY <2>2 DEF IInv, TypeInv, ClearInv
    <3>2. hist[t].extra = FALSE /\ hist[t].left \in Nat \ {0}
      BY <2>1 DEF IInv, TypeInv, WaitInv
    <3>3. Cardinality(Live(rest)) <= hist[t].left - 1
      BY <2>1, <3>2 DEF IInv, WaitInv
    <3>4. hist' = [hist EXCEPT ![t] = [fired |-> TRUE, cleared |-> FALSE,
                                       late |-> FALSE, left |-> hist[t].left - 1,
                                       extra |-> FALSE]]
      <4>1. (hist[t].late \/ hist[t].cleared) = FALSE
        BY <3>1
      <4>2. /\ (hist[t].extra \/ hist[t].left = 0) = FALSE
            /\ hist[t].left # 0
        BY <3>2
      <4>3. Fired(t) = [fired |-> TRUE, cleared |-> FALSE, late |-> FALSE,
                        left |-> hist[t].left - 1, extra |-> FALSE]
        BY <3>1, <4>1, <4>2, Zenon DEF Fired
      <4>4. QED
        BY <2>2, <4>3
    <3>5. TypeInv'
      <4> DEFINE h == [fired |-> TRUE, cleared |-> FALSE, late |-> FALSE,
                       left |-> hist[t].left - 1, extra |-> FALSE]
      <4>1. h \in [fired : BOOLEAN, cleared : BOOLEAN, late : BOOLEAN,
                   left : Nat, extra : BOOLEAN]
        BY <3>2
      <4>2. hist' = [hist EXCEPT ![t] = h]
        BY <3>4
      <4> HIDE DEF h
      <4>3. QED
        BY <1>1, <2>1, <2>2, <4>1, <4>2 DEF IInv, TypeInv
    <3>6. ClearInv'
      BY <1>1, <2>1, <2>2, <3>4 DEF IInv, TypeInv, ClearInv
    <3>7. WaitInv'
      BY <2>1, <2>2, <3>2, <3>3, <3>4 DEF IInv, TypeInv, WaitInv
    <3>8. QED
      BY <3>5, <3>6, <3>7 DEF IInv
  <2>3. CASE /\ waits' = [waits EXCEPT ![t] = Cancel(rest)]
             /\ UNCHANGED <<running, hist>>
    <3> DEFINE ws == Cancel(rest)
    <3>1. WaitsOK(ws) /\ Cardinality(Live(ws)) <= Cardinality(Live(waits[t]))
          /\ Cardinality(Live(ws)) \in Nat
          /\ Cardinality(Live(waits[t])) \in Nat
      BY <2>1
    <3>2. waits' = [waits EXCEPT ![t] = ws]
      BY <2>3
    <3> HIDE DEF ws
    <3>3. QED
      BY <1>1, <2>1, <2>3, <3>1, <3>2 DEF IInv, TypeInv, ClearInv, WaitInv
  <2>4. CASE /\ waits' = [waits EXCEPT ![t] = rest] /\ running' = {t}
             /\ UNCHANGED hist
    <3>1. TypeInv' /\ ClearInv'
      BY <1>1, <2>1, <2>4 DEF IInv, TypeInv, ClearInv
    <3>2. WaitInv'
      BY <2>1, <2>4 DEF IInv, TypeInv, WaitInv
    <3>3. QED
      BY <3>1, <3>2 DEF IInv
  <2>5. QED
    BY <1>4, <2>2, <2>3, <2>4 DEF OnTimeout, rest
<1>5. QED
  BY <1>2, <1>3, <1>4

(* The callback returns, and an interval is armed again.                     *)
LEMMA CallbackKeepsIInv ==
    ASSUME IInv, NEW t \in Timers, CallbackReturns(t)
    PROVE  IInv'
<1>1. PICK self \in BOOLEAN : waits' = [waits EXCEPT ![t] = Rearm(t, self)]
  BY DEF CallbackReturns
<1>2. /\ t \in running /\ running' = {}
      /\ UNCHANGED <<kind, callback>>
      /\ kind[t] # "new" /\ WaitsOK(waits[t])
      /\ \A u \in Timers : WaitsOK(waits[u])
      /\ hist' = IF m_repeats(t) THEN Armed(t) ELSE hist
  BY DEF CallbackReturns, IInv, TypeInv, ClearInv
<1>3. CASE m_repeats(t)
  <2> DEFINE ws == AsyncWait(Cancel(waits[t]), self)
             more == Cardinality(Due(waits[t])) + 1
  <2>1. WaitsOK(ws) /\ Cardinality(Live(ws)) <= more /\ more \in Nat
    BY <1>2, ArmedWaits
  <2>2. /\ waits' = [waits EXCEPT ![t] = ws]
        /\ hist' = [hist EXCEPT ![t].left = more]
    BY <1>1, <1>2, <1>3 DEF Rearm, Armed
  <2> HIDE DEF ws, more
  <2>3. QED
    BY <1>2, <2>1, <2>2, SMTT(30) DEF IInv, TypeInv, ClearInv, WaitInv
<1>4. CASE ~m_repeats(t)
  <2>1. waits' = waits /\ hist' = hist
    BY <1>1, <1>2, <1>4 DEF Rearm, IInv, TypeInv
  <2>2. QED
    BY <1>2, <2>1 DEF IInv, TypeInv, ClearInv, WaitInv
<1>5. QED
  BY <1>3, <1>4

(* IInv is an invariant of the timers (luanode_timer.cpp under timers.lua).  *)
THEOREM TimerInvariance == Spec => []IInv
<1>1. ASSUME IInv, [Next]_vars PROVE IInv'
  <2>1. CASE Next
    <3>1. PICK t \in Timers : Application(t) \/ Handler(t) \/ Expires(t)
      BY <2>1 DEF Next
    <3>2. QED
      BY <1>1, <3>1, ApplicationKeepsIInv, WaitEndsKeepsIInv, CallbackKeepsIInv
         DEF Handler, Expires
  <2>2. CASE UNCHANGED vars
    BY <1>1, <2>2 DEF vars, IInv, TypeInv, ClearInv, WaitInv
  <2>3. QED
    BY <1>1, <2>1, <2>2
<1>2. QED
  BY <1>1, InitIInv, PTL DEF Spec

------------------------------------------------------------------------------
(* A timer that was cleared never calls its callback, also when OnTimeout    *)
(* was queued before clearTimeout was called (Timer::Stop does not take it   *)
(* back; timers.lua drops the callback).                                     *)
THEOREM ClearedTimersAreSilent == Spec => []ClearedNeverFires
<1>1. IInv => ClearedNeverFires
  BY DEF IInv, ClearInv, ClearedNeverFires
<1>2. QED
  BY <1>1, TimerInvariance, PTL

(* A timer is never called more often than it was armed for: Start, Again    *)
(* and the end of an interval's callback ask for one call and cancel the     *)
(* wait that was pending; only an OnTimeout that was queued already comes    *)
(* besides.                                                                  *)
THEOREM TimersFireOnce == Spec => []NoExtraFiring
<1>1. IInv => NoExtraFiring
  BY DEF IInv, WaitInv, NoExtraFiring, Live
<1>2. QED
  BY <1>1, TimerInvariance, PTL
==============================================================================
