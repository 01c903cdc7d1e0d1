----------------------------- MODULE IdleTimers -----------------------------
(***************************************************************************)
(* The idle timeouts of timers.lua, which Socket:setTimeout uses: one       *)
(* watcher (a C++ Timer) and one doubly linked list for all the items with  *)
(* the same timeout.  An item is represented in its list by a wrapper; one  *)
(* that is enrolled and not in a list yet has links to the item itself.     *)
(* The links of a wrapper are not reset when it is removed from its list.   *)
(*                                                                          *)
(* Time is counted in seconds (os.time) and does not pass while a callback  *)
(* runs.  A timeout stands for its list.  From the head of a list, _idlePrev *)
(* leads to the item that has been idle for longest.                        *)
(***************************************************************************)
EXTENDS Naturals, Sequences, FiniteSets, SequencesExt

CONSTANTS
    Items, Wrappers,
    Timeouts,   \* the timeouts the application uses
    MayThrow,   \* the listeners of "timeout" may throw
    MaxTime     \* bound: seconds

ASSUME IdleAssumption ==
    /\ Timeouts \subseteq Nat \ {0} /\ MaxTime \in Nat
    /\ MayThrow \in BOOLEAN
ASSUME NodesAssumption ==
    /\ Items \cap Wrappers = {} /\ (Items \cup Wrappers) \cap Timeouts = {}
    /\ 0 \notin Items \cup Wrappers

VARIABLES
    _idleNext, _idlePrev,   \* the links of list heads, wrappers and items
    items,      \* the wrapper of each item, NoWrapper when not enrolled
    wrapper,    \* wrapper[w]: its item, _idleTimeout and _idleStart
    watcher,    \* watcher[m]: when it expires (Off: never), calls queued
    now,
    frame,      \* the list whose callback runs, the item it has called
    crashed,    \* an assertion of timers.lua failed
    hist        \* history: see NoHistory

vars == <<_idleNext, _idlePrev, items, wrapper, watcher, now, frame, crashed,
          hist>>

Nodes == Timeouts \cup Wrappers \cup Items
NoWrapper == 0
NoItem == 0
Off == 0
Idle == [list |-> 0, item |-> NoItem]

(* A wrapper that is not in use.                                            *)
NoWrapperData == [item |-> NoItem, _idleTimeout |-> 0, _idleStart |-> 0]

(* since[i]: when Active was last called on an item that has a timeout      *)
(* running; active: the items that have; fired: the items that timed out    *)
(* and were not used since; spurious: _onTimeout was called for nothing;    *)
(* broken: lists whose callback was cut short by an error, or that an item  *)
(* which had timed out entered when they were empty; misled: an item that   *)
(* had timed out was taken out by links that did not fit any more.          *)
NoHistory == [ since |-> [i \in Items |-> 0], active |-> {}, fired |-> {},
               spurious |-> FALSE, broken |-> {}, misled |-> FALSE ]

Init ==
    /\ _idleNext = [n \in Nodes |-> n] /\ _idlePrev = [n \in Nodes |-> n]
    /\ items = [i \in Items |-> NoWrapper]
    /\ wrapper = [w \in Wrappers |-> NoWrapperData]
    /\ watcher = [m \in Timeouts |-> [expires |-> Off, due |-> 0]]
    /\ now = 0 /\ frame = Idle /\ crashed = FALSE /\ hist = NoHistory

------------------------------------------------------------------------------
(* The functions of timers.lua, on the state of the lists.                  *)

Lists == [ next |-> _idleNext, prev |-> _idlePrev, items |-> items,
           wrapper |-> wrapper, watcher |-> watcher ]

(* The wrappers that nothing refers to.                                     *)
Unused(t) ==
    LET used == {t.items[i] : i \in Items} \ {NoWrapper}
        held == used \cup Timeouts
    IN Wrappers \ (used \cup {t.next[n] : n \in held}
                         \cup {t.prev[n] : n \in held})

(* The new state, in which the wrappers that are not used are collected.    *)
Apply(t) ==
    LET unused == Unused(t)
    IN /\ _idleNext' = [n \in Nodes |-> IF n \in unused THEN n ELSE t.next[n]]
       /\ _idlePrev' = [n \in Nodes |-> IF n \in unused THEN n ELSE t.prev[n]]
       /\ wrapper' = [w \in Wrappers |-> IF w \in unused THEN NoWrapperData
                                         ELSE t.wrapper[w]]
       /\ items' = t.items /\ watcher' = t.watcher

(* Timer:again and Timer:stop on the watcher.                               *)
again(t, m, after) == [t EXCEPT !.watcher[m].expires = now + after]
stop(t, m) == [t EXCEPT !.watcher[m].expires = Off]

peek(t, m) == t.prev[m]

remove(t, w) ==
    LET n == t.next[w]
        p == t.prev[w]
    IN [t EXCEPT !.prev[n] = p, !.next[p] = n]

append(t, m, w) ==
    LET n == t.next[m]
    IN [t EXCEPT !.next = [@ EXCEPT ![w] = n, ![m] = w],
                 !.prev = [@ EXCEPT ![n] = w, ![w] = m]]

(* Mutation: the watcher is not started with the first item.                *)
insertOnly(t, w) ==
    append([t EXCEPT !.wrapper[w]._idleStart = now],
           t.wrapper[w]._idleTimeout, w)

insert(t, w) ==
    LET m == t.wrapper[w]._idleTimeout
        started == IF t.next[m] = m THEN again(t, m, m) ELSE t
    IN append([started EXCEPT !.wrapper[w]._idleStart = now], m, w)

(* Mutation: the wrapper is forgotten and left in its list.                 *)
UnenrollKeepsLinks(t, i) == [t EXCEPT !.items[i] = NoWrapper]

Unenroll(t, i) ==
    LET w == t.items[i]
        m == t.wrapper[w]._idleTimeout
        out == remove(t, w)
        stopped == IF out.prev[m] = m THEN stop(out, m) ELSE out
    IN IF w = NoWrapper THEN t ELSE [stopped EXCEPT !.items[i] = NoWrapper]

Enroll(t, i, m) ==
    LET out == Unenroll(t, i)
        w == CHOOSE x \in Unused(out) : TRUE
    IN [out EXCEPT
          !.items[i] = w,
          !.wrapper[w] = [item |-> i, _idleTimeout |-> m, _idleStart |-> 0],
          !.next[w] = i, !.prev[w] = i]

(* Mutation: Active does not move the item behind the others.               *)
ActiveInPlace(t, i) ==
    LET w == t.items[i]
    IN IF w = NoWrapper THEN t
       ELSE IF t.next[w] = i THEN insert(t, w)
       ELSE [t EXCEPT !.wrapper[w]._idleStart = now]

Active(t, i) ==
    LET w == t.items[i]
        m == t.wrapper[w]._idleTimeout
    IN IF w = NoWrapper THEN t
       ELSE IF t.next[w] = i THEN insert(t, w)
       ELSE append(remove([t EXCEPT !.wrapper[w]._idleStart = now], w), m, w)

------------------------------------------------------------------------------
(* The application, from the listener of a "timeout" or from elsewhere.     *)

(* An item that has timed out is in no list, but keeps its wrapper with the *)
(* links it had.  Unenroll and Active remove it by them once more, which    *)
(* changes nothing as long as its neighbours are still each other's.        *)
Mislinked(i) ==
    LET n == _idleNext[items[i]]
        p == _idlePrev[items[i]]
    IN i \in hist.fired /\ ~(_idlePrev[n] = p /\ _idleNext[p] = n)

(* Active starts no watcher for an item that has timed out, though it may   *)
(* be the first of its list; the callback of the list would go on with it.  *)
Unwatched(i) ==
    LET m == wrapper[items[i]]._idleTimeout
    IN IF i \in hist.fired /\ _idleNext[m] = m /\ frame.list # m
       THEN {m} ELSE {}

(* A list that was misled is not followed any further.                      *)
Runs == ~crashed /\ ~hist.misled

AppActs ==
    /\ Runs
    /\ frame = Idle \/ frame.item # NoItem
    /\ UNCHANGED <<now, frame, crashed>>

(* Socket:setTimeout, with a timeout; the socket may not have a handle yet, *)
(* and then nothing calls Active.                                           *)
SetTimeout(i, m, hasHandle) ==
    /\ AppActs
    /\ Unused(Unenroll(Lists, i)) # {}
    /\ LET enrolled == Enroll(Lists, i, m)
       IN Apply(IF hasHandle THEN Active(enrolled, i) ELSE enrolled)
    /\ hist' = [hist EXCEPT
                  !.since[i] = IF hasHandle THEN now ELSE 0,
                  !.active = IF hasHandle THEN @ \cup {i} ELSE @ \ {i},
                  !.fired = @ \ {i}, !.misled = Mislinked(i)]

(* Socket:setTimeout(0), and Socket:destroy.                                *)
ClearTimeout(i) ==
    /\ AppActs
    /\ items[i] # NoWrapper
    /\ Apply(Unenroll(Lists, i))
    /\ hist' = [hist EXCEPT !.since[i] = 0, !.active = @ \ {i},
                            !.fired = @ \ {i}, !.misled = Mislinked(i)]

(* Whatever the socket does: a connection, data, a write.                   *)
SocketActive(i) ==
    /\ AppActs
    /\ items[i] # NoWrapper
    /\ Apply(Active(Lists, i))
    /\ hist' = [hist EXCEPT !.since[i] = now, !.active = @ \cup {i},
                            !.fired = @ \ {i}, !.misled = Mislinked(i),
                            !.broken = @ \cup Unwatched(i)]

------------------------------------------------------------------------------
(* The watcher.                                                             *)

TimePasses ==
    /\ Runs /\ frame = Idle
    /\ now < MaxTime
    /\ now' = now + 1
    /\ UNCHANGED <<_idleNext, _idlePrev, items, wrapper, watcher, frame>>
    /\ UNCHANGED <<crashed, hist>>

Expires(m) ==
    /\ Runs /\ frame = Idle
    /\ watcher[m].expires # Off /\ watcher[m].expires <= now
    /\ watcher' = [watcher EXCEPT ![m] = [expires |-> Off, due |-> @.due + 1]]
    /\ UNCHANGED <<_idleNext, _idlePrev, items, wrapper, now, frame>>
    /\ UNCHANGED <<crashed, hist>>

Callback(m) ==
    /\ Runs /\ frame = Idle
    /\ watcher[m].due > 0
    /\ watcher' = [watcher EXCEPT ![m].due = @ - 1]
    /\ frame' = [list |-> m, item |-> NoItem]
    /\ UNCHANGED <<_idleNext, _idlePrev, items, wrapper, now, crashed, hist>>

(* One turn of the loop in the callback: the list is empty, or the item     *)
(* that has been idle for longest is given more time, or it times out.      *)
CallbackTurn ==
    /\ Runs /\ frame # Idle /\ frame.item = NoItem
    /\ LET m == frame.list
           first == peek(Lists, m)
           w == wrapper[first]
           diff == now - w._idleStart
           out == remove(Lists, first)
       IN \/ /\ first = m
             /\ Apply(stop(Lists, m))
             /\ crashed' = (_idleNext[m] # m)
             /\ frame' = Idle
             /\ UNCHANGED hist
          \/ /\ first # m /\ diff < m
             /\ Apply(again(Lists, m, m - diff))
             /\ frame' = Idle
             /\ UNCHANGED <<crashed, hist>>
          \/ /\ first # m /\ diff >= m
             /\ Apply(out)
             /\ crashed' = (first = peek(out, m))
             /\ frame' = [frame EXCEPT !.item = w.item]
             /\ hist' = [hist EXCEPT
                  !.spurious = @ \/ w.item \notin hist.active
                                 \/ now < hist.since[w.item] + m,
                  !.active = @ \ {w.item}, !.fired = @ \cup {w.item}]
    /\ UNCHANGED now

HandlerReturns ==
    /\ Runs /\ frame.item # NoItem
    /\ frame' = [frame EXCEPT !.item = NoItem]
    /\ UNCHANGED <<_idleNext, _idlePrev, items, wrapper, watcher, now>>
    /\ UNCHANGED <<crashed, hist>>

(* A listener throws: the callback is abandoned.                            *)
HandlerThrows ==
    /\ Runs /\ frame.item # NoItem
    /\ MayThrow
    /\ frame' = Idle
    /\ hist' = [hist EXCEPT !.broken = @ \cup {frame.list}]
    /\ UNCHANGED <<_idleNext, _idlePrev, items, wrapper, watcher, now, crashed>>

------------------------------------------------------------------------------
Application ==
    \E i \in Items :
        \/ \E m \in Timeouts, hasHandle \in BOOLEAN : SetTimeout(i, m, hasHandle)
        \/ ClearTimeout(i) \/ SocketActive(i)

Watcher ==
    \/ \E m \in Timeouts : Expires(m) \/ Callback(m)
    \/ CallbackTurn \/ HandlerReturns \/ HandlerThrows

Next == Application \/ Watcher \/ TimePasses

Spec == Init /\ [][Next]_vars

(* The items are alike.                                                     *)
Symmetry == Permutations(Items)

------------------------------------------------------------------------------
(* The items of timeout m that have it running.                             *)
Enrolled(m) ==
    {w \in {items[i] : i \in hist.active} : wrapper[w]._idleTimeout = m}

(* The links of a list are those of a sequence: exactly the items whose     *)
(* timeout is running, linked both ways, the one idle for longest first.    *)
(* Items leave it from any place, time out, come back and move to its end.  *)
(* The assertions of the callback rely on it and hold.  An item that timed  *)
(* out and is used after its former neighbours have parted is left out.     *)
ListIsSorted(m) ==
    \E q \in SetToSeqs(Enrolled(m)) :
        LET ring == <<m>> \o q \o <<m>>
        IN \A k \in 1..(Len(ring) - 1) :
             /\ _idlePrev[ring[k]] = ring[k + 1]
             /\ _idleNext[ring[k + 1]] = ring[k]
             /\ k > 1 /\ k < Len(ring) - 1 =>
                  wrapper[ring[k]]._idleStart <= wrapper[ring[k + 1]]._idleStart

ListsAreSorted ==
    hist.misled \/ (~crashed /\ \A m \in Timeouts : ListIsSorted(m))

(* An item times out only if it is enrolled and nothing has happened to it  *)
(* for as long as its timeout.                                              *)
NoSpuriousTimeout == ~hist.spurious

(* An item that is active has a watcher that will see to it in time: it is  *)
(* due, its callback is running, or it expires no later than the item's     *)
(* timeout.  Left out are the lists whose callback was cut short, those     *)
(* that an item which had timed out entered when they were empty, and what  *)
(* ListsAreSorted leaves out.                                               *)
IdleItemsWatched ==
    hist.misled \/ \A i \in hist.active :
        LET m == wrapper[items[i]]._idleTimeout
            watch == watcher[m]
        IN \/ watch.due > 0 \/ frame.list = m \/ m \in hist.broken
           \/ watch.expires # Off /\ watch.expires <= hist.since[i] + m
==============================================================================
