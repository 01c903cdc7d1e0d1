------------------------------ MODULE TickQueue ------------------------------
(***************************************************************************)
(* What process.nextTick promises, seen from the caller: callbacks are      *)
(* numbered in the order in which they were handed over, and they are       *)
(* started one at a time, each exactly once, in that order.                 *)
(* EventLoop implements this with an array, a snapshot of its length and a  *)
(* splice (src/src/node.lua).                                               *)
(***************************************************************************)
EXTENDS Naturals, Sequences

VARIABLES
    issued,     \* number of callbacks handed to nextTick so far
    waiting,    \* the callbacks not started yet, in order
    current     \* the callback being run, 0 when there is none

vars == <<issued, waiting, current>>

Init == issued = 0 /\ waiting = <<>> /\ current = 0

Submit ==
    /\ issued' = issued + 1
    /\ waiting' = Append(waiting, issued + 1)
    /\ UNCHANGED current

(* A callback starts; the previous one, if any, has ended.                 *)
Start ==
    /\ waiting # <<>>
    /\ current' = Head(waiting)
    /\ waiting' = Tail(waiting)
    /\ UNCHANGED issued

Finish ==
    /\ current # 0
    /\ current' = 0
    /\ UNCHANGED <<issued, waiting>>

Next == Submit \/ Start \/ Finish

Spec == Init /\ [][Next]_vars
==============================================================================
