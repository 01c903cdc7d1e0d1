-------------------------------- MODULE Timer --------------------------------
(***************************************************************************)
(* The timers of the application: LuaNode::Timer (luanode_timer.cpp) as     *)
(* setTimeout, setInterval, clearTimeout and clearInterval (timers.lua) use *)
(* it, and Timer:again.  They share the Lua thread: the callback of one can *)
(* clear another whose OnTimeout is already queued.                         *)
(*                                                                          *)
(* Every async_wait of an Asio timer ends with one call of OnTimeout.  A    *)
(* wait is pending until it expires or is cancelled; then the call is       *)
(* queued.  Cancelling does not take back a call that was queued because    *)
(* the wait expired.                                                        *)
(***************************************************************************)
EXTENDS Naturals, FiniteSets

CONSTANTS
    Timers,
    Restarted,  \* the timers on which the application calls again
    Returning,  \* the timers whose callbacks return values (or throw)
    MaxWaits    \* bound: waits of a timer when the application calls again

ASSUME TimerAssumption ==
    /\ Restarted \subseteq Timers /\ Returning \subseteq Timers
    /\ MaxWaits \in Nat \ {0}

VARIABLES
    kind,       \* kind[t]: "new", "timeout" or "interval" (m_repeats)
    callback,   \* callback[t]: the callback field is a function
    waits,      \* waits[t]: the waits that have not called OnTimeout
    running,    \* the timers whose callback is running (at most one)
    foreign,    \* what is running is not the timer's own callback
    crashed,    \* OnTimeout raised an error outside of any pcall
    hist

vars == <<kind, callback, waits, running, foreign, crashed, hist>>

(* A wait has a number n, a state ("pending", "due" or "aborted"), and self,*)
(* which tells whether the registry reference it holds is the timer.        *)

m_repeats(t) == kind[t] = "interval"

(* Of a timer: its callback was called, it was cleared, its callback was    *)
(* called after that; how many calls it is still armed for, and that it was *)
(* called once more.                                                        *)
NoHistory == [ fired |-> FALSE, cleared |-> FALSE, late |-> FALSE,
               left |-> 0, extra |-> FALSE ]

Init ==
    /\ kind = [t \in Timers |-> "new"]
    /\ callback = [t \in Timers |-> FALSE]
    /\ waits = [t \in Timers |-> {}]
    /\ running = {} /\ foreign = FALSE /\ crashed = FALSE
    /\ hist = [t \in Timers |-> NoHistory]

Fresh(ws) == CHOOSE n \in 1..(MaxWaits + 2) : \A w \in ws : w.n # n

(* deadline_timer::cancel, and expires_from_now, which implies it.          *)
Cancel(ws) ==
    { IF w.state = "pending" THEN [w EXCEPT !.state = "aborted"] ELSE w
        : w \in ws }

AsyncWait(ws, self) ==
    ws \cup {[n |-> Fresh(ws), state |-> "pending", self |-> self]}

Due(ws) == { w \in ws : w.state = "due" }

(* To arm t asks for one call; the OnTimeout already queued come besides.   *)
Armed(t) == [hist EXCEPT ![t].left = Cardinality(Due(waits[t])) + 1]

------------------------------------------------------------------------------
(* setTimeout, setInterval: create the timer and start it.                  *)
Start(t, k) ==
    /\ kind[t] = "new"
    /\ kind' = [kind EXCEPT ![t] = k]
    /\ callback' = [callback EXCEPT ![t] = TRUE]
    /\ waits' = [waits EXCEPT ![t] = AsyncWait(@, TRUE)]
    /\ hist' = Armed(t)
    /\ UNCHANGED <<running, foreign, crashed>>

(* Mutation: clearTimeout only stops the timer.                             *)
ClearOnlyStops(t) ==
    /\ kind[t] # "new" /\ ~hist[t].cleared
    /\ waits' = [waits EXCEPT ![t] = Cancel(@)]
    /\ hist' = [hist EXCEPT ![t].cleared = TRUE]
    /\ UNCHANGED <<callback, kind, running, foreign, crashed>>

(* clearTimeout, clearInterval: drop the callback and stop the timer.       *)
Clear(t) ==
    /\ kind[t] # "new" /\ ~hist[t].cleared
    /\ callback' = [callback EXCEPT ![t] = FALSE]
    /\ waits' = [waits EXCEPT ![t] = Cancel(@)]
    /\ hist' = [hist EXCEPT ![t].cleared = TRUE]
    /\ UNCHANGED <<kind, running, foreign, crashed>>

(* Mutation: again does not stop the wait that was pending.                 *)
AgainKeepsWait(t) ==
    /\ t \in Restarted
    /\ kind[t] # "new" /\ ~hist[t].cleared
    /\ Cardinality(waits[t]) < MaxWaits
    /\ waits' = [waits EXCEPT ![t] = AsyncWait(@, TRUE)]
    /\ hist' = Armed(t)
    /\ UNCHANGED <<kind, callback, running, foreign, crashed>>

(* Timer::Again on a timer that was started.                                *)
Again(t) ==
    /\ t \in Restarted
    /\ kind[t] # "new" /\ ~hist[t].cleared
    /\ Cardinality(waits[t]) < MaxWaits
    /\ waits' = [waits EXCEPT ![t] = AsyncWait(Cancel(@), TRUE)]
    /\ hist' = Armed(t)
    /\ UNCHANGED <<kind, callback, running, foreign, crashed>>

------------------------------------------------------------------------------
(* The Asio timer: the wait expires.                                        *)
Expire(t, w) ==
    /\ w.state = "pending"
    /\ waits' = [waits EXCEPT ![t] =
                    (@ \ {w}) \cup {[w EXCEPT !.state = "due"]}]
    /\ UNCHANGED <<kind, callback, running, foreign, crashed, hist>>

(* Timer::OnTimeout for a wait that was cancelled.                          *)
Aborted(t, w) ==
    /\ running = {}
    /\ w.state = "aborted"
    /\ waits' = [waits EXCEPT ![t] = @ \ {w}]
    /\ UNCHANGED <<kind, callback, running, foreign, crashed, hist>>

(* The callback of t is called.                                             *)
Fired(t) ==
    [ fired |-> TRUE, cleared |-> hist[t].cleared,
      late |-> hist[t].late \/ hist[t].cleared,
      left |-> IF hist[t].left = 0 THEN 0 ELSE hist[t].left - 1,
      extra |-> hist[t].extra \/ hist[t].left = 0 ]

(* Timer::OnTimeout for a wait that expired: the callback is looked up in   *)
(* whatever the reference holds, which can raise an error or find another   *)
(* callback; without one the timer is cancelled.                            *)
OnTimeout(t, w) ==
    /\ running = {}
    /\ w.state = "due"
    /\ LET rest == waits[t] \ {w} IN
       \/ /\ w.self /\ callback[t]
          /\ waits' = [waits EXCEPT ![t] = rest]
          /\ running' = {t} /\ foreign' = FALSE
          /\ hist' = [hist EXCEPT ![t] = Fired(t)]
          /\ UNCHANGED crashed
       \/ /\ ~w.self
          /\ waits' = [waits EXCEPT ![t] = rest]
          /\ running' = {t} /\ foreign' = TRUE
          /\ UNCHANGED <<crashed, hist>>
       \/ /\ ~(w.self /\ callback[t])
          /\ waits' = [waits EXCEPT ![t] = Cancel(rest)]
          /\ crashed' \in {FALSE, ~w.self}
          /\ UNCHANGED <<running, foreign, hist>>
    /\ UNCHANGED <<kind, callback>>

(* Mutation: the interval is not armed again.                               *)
RearmsNever(t, self) == waits[t]

(* What follows the callback: an interval is armed again, with a reference  *)
(* to the value on top of the Lua stack.  That is what the reference before *)
(* held only when the callback returned nothing.                            *)
Rearm(t, self) ==
    IF m_repeats(t) THEN AsyncWait(Cancel(waits[t]), self) ELSE waits[t]

CallbackReturns(t) ==
    /\ t \in running
    /\ running' = {}
    /\ \E returnsValue \in IF t \in Returning THEN BOOLEAN ELSE {FALSE} :
            waits' = [waits EXCEPT ![t] =
                        Rearm(t, ~returnsValue /\ ~foreign)]
    /\ hist' = IF m_repeats(t) THEN Armed(t) ELSE hist
    /\ foreign' = FALSE
    /\ UNCHANGED <<kind, callback, crashed>>

------------------------------------------------------------------------------
Application(t) ==
    (\E k \in {"timeout", "interval"} : Start(t, k)) \/ Clear(t) \/ Again(t)

Handler(t) ==
    CallbackReturns(t) \/ \E w \in waits[t] : Aborted(t, w) \/ OnTimeout(t, w)

Expires(t) == \E w \in waits[t] : Expire(t, w)

Next ==
    /\ ~crashed
    /\ \E t \in Timers : Application(t) \/ Handler(t) \/ Expires(t)

(* Time passes, callbacks end and the event loop takes turns with the       *)
(* handlers that are due: those of one timer cannot keep out another's.     *)
Fairness ==
    \A t \in Timers :
        /\ SF_vars(~crashed /\ Handler(t))
        /\ WF_vars(~crashed /\ Expires(t))

Spec == Init /\ [][Next]_vars /\ Fairness

------------------------------------------------------------------------------
(* A timer that was cleared does not call its callback any more, also when  *)
(* its wait had expired and OnTimeout was queued behind the code, perhaps   *)
(* the callback of another timer, that cleared it.                          *)
ClearedNeverFires == \A t \in Timers : ~hist[t].late

(* After a timer was armed, by setTimeout, setInterval, again or the end of *)
(* an interval's callback, its callback is called once, and once more for   *)
(* every OnTimeout that again found queued and cannot take back: a timeout  *)
(* is not repeated, and an interval does not speed up.                      *)
NoExtraFiring ==
    \A t \in Timers :
        /\ ~hist[t].extra
        /\ Cardinality({w \in waits[t] : w.state # "aborted"}) <= hist[t].left

(* A timer fires unless it is cleared, and an interval fires again after    *)
(* every call of its callback (when that returns nothing).                  *)
Fires ==
    \A t \in Timers \ Returning :
        /\ kind[t] # "new" ~> (hist[t].fired \/ hist[t].cleared \/ crashed)
        /\ (m_repeats(t) /\ t \in running)
                ~> ((\E w \in waits[t] : w.state = "due") \/ hist[t].cleared
                    \/ crashed)
        /\ (\E w \in waits[t] : w.state = "due")
                ~> (t \in running \/ hist[t].cleared \/ crashed)
==============================================================================
