--------------------------- MODULE EventLoopProofs ---------------------------
(***************************************************************************)
(* Proofs about EventLoop, for every set of exit codes and every bound.     *)
(*                                                                          *)
(* The inductive invariant IInv adds to TypeOK and EveryCallbackHasATick    *)
(* the discipline of the stack (StackInv): the loop is called by the script *)
(* only, _tickcallback by the loop only, nothing but the listeners of       *)
(* "exit" runs above it, and FatalError is entered once.  That discipline   *)
(* is why a Tick never starts while _tickcallback is half way through its   *)
(* snapshot, which the count of Ticks and the order of callbacks rest on.   *)
(***************************************************************************)
EXTENDS EventLoop, SequenceTheorems, TLAPS

(* The shape of a stack of activations.                                     *)

ScriptLow(st) == \A i \in 1..Len(st) : st[i] = "script" => i = Len(st)

LoopLow(st) ==
    \A i \in 1..Len(st) :
        st[i] = "loop" => Len(st) = i + 1 /\ st[i + 1] = "script"

TickHigh(st) ==
    \A i \in 1..Len(st) :
        st[i] = "tick" => /\ i < Len(st) /\ st[i + 1] = "loop"
                          /\ \A j \in 1..(i - 1) : st[j] = "exitEmit"

FatalOnce(st) ==
    \A i, j \in 1..Len(st) : st[i] = "fatal" /\ st[j] = "fatal" => i = j

Shape(st) == ScriptLow(st) /\ LoopLow(st) /\ TickHigh(st) /\ FatalOnce(st)

(* Frame f is somewhere in st.                                              *)
Has(st, f) == \E i \in 1..Len(st) : st[i] = f

(* The frames that the shape says nothing about.                            *)
Neutral == Frames \ {"script", "loop", "tick", "fatal"}

(* How the frames of r come from those of st.                              *)
Popped(st, r) ==
    /\ r \in Seq(Frames) /\ Len(r) = Len(st) - 1
    /\ \A i \in 1..Len(r) : r[i] = st[i + 1]

Swapped(st, f, r) ==
    /\ r \in Seq(Frames) /\ Len(r) = Len(st) /\ r[1] = f
    /\ \A i \in 2..Len(r) : r[i] = st[i]

Pushed(st, f, g, r) ==
    /\ r \in Seq(Frames) /\ Len(r) = Len(st) + 1 /\ r[1] = f /\ r[2] = g
    /\ \A i \in 3..Len(r) : r[i] = st[i - 1]

(* The elements of the stack after Replace with no, one or two frames.      *)
LEMMA ReplaceElements ==
    ASSUME NEW st \in Seq(Frames), st # <<>>
    PROVE  /\ Popped(st, <<>> \o Tail(st))
           /\ \A f \in Frames : Swapped(st, f, <<f>> \o Tail(st))
           /\ \A f, g \in Frames : Pushed(st, f, g, <<f, g>> \o Tail(st))
  BY DEF Popped, Swapped, Pushed

(* An activation that ends leaves a well-formed stack.                      *)
LEMMA PopShape ==
    ASSUME NEW st \in Seq(Frames), st # <<>>, Shape(st), NEW r, Popped(st, r)
    PROVE  /\ r \in Seq(Frames) /\ Shape(r)
           /\ Has(r, "tick") <=> Has(st, "tick") /\ st[1] # "tick"
           /\ Has(r, "fatal") <=> Has(st, "fatal") /\ st[1] # "fatal"
<1>1. ScriptLow(r) /\ LoopLow(r) /\ FatalOnce(r)
  BY DEF Popped, Shape, ScriptLow, LoopLow, FatalOnce
<1>2. TickHigh(r)
  <2> SUFFICES ASSUME NEW i \in 1..Len(r), r[i] = "tick"
               PROVE  /\ i < Len(r) /\ r[i + 1] = "loop"
                      /\ \A j \in 1..(i - 1) : r[j] = "exitEmit"
    BY DEF TickHigh
  <2>1. /\ Len(r) \in Nat /\ Len(st) = Len(r) + 1 /\ TickHigh(st)
        /\ \A k \in 1..Len(r) : r[k] = st[k + 1]
    BY DEF Popped, Shape
  <2>2. i + 1 \in 1..Len(st) /\ st[i + 1] = "tick"
    BY <2>1
  <2>3. /\ i + 1 < Len(st) /\ st[(i + 1) + 1] = "loop"
        /\ \A j \in 1..i : st[j] = "exitEmit"
    BY <2>2, <2>1 DEF TickHigh
  <2>4. i < Len(r) /\ i + 1 \in 1..Len(r)
    BY <2>1, <2>3
  <2>5. \A j \in 1..(i - 1) : j \in 1..Len(r) /\ j + 1 \in 1..i
    BY <2>1
  <2>6. QED
    BY <2>1, <2>3, <2>4, <2>5
<1>3. \A f : Has(r, f) => Has(st, f)
  BY DEF Popped, Has
<1>4. \A f : Has(st, f) /\ st[1] # f => Has(r, f)
  <2> SUFFICES ASSUME NEW f, NEW i \in 1..Len(st), st[i] = f, st[1] # f
               PROVE  Has(r, f)
    BY DEF Has
  <2>1. i - 1 \in 1..Len(r) /\ r[i - 1] = f
    BY DEF Popped
  <2>2. QED
    BY <2>1 DEF Has
<1>5. st[1] = "tick" => ~Has(r, "tick")
  BY DEF Popped, Has, Shape, TickHigh
<1>6. st[1] = "fatal" => ~Has(r, "fatal")
  BY DEF Popped, Has, Shape, FatalOnce
<1>7. QED
  BY <1>1, <1>2, <1>3, <1>4, <1>5, <1>6 DEF Popped, Shape

(* So does one that is replaced by a neutral frame: no tick can be below.   *)
LEMMA SwapShape ==
    ASSUME NEW st \in Seq(Frames), st # <<>>, Shape(st), st[1] # "exitEmit",
           NEW f \in Neutral, NEW r, Swapped(st, f, r)
    PROVE  /\ r \in Seq(Frames) /\ Shape(r)
           /\ ~Has(r, "tick")
           /\ Has(r, "fatal") <=> Has(st, "fatal") /\ st[1] # "fatal"
<1>1. f \in Frames /\ f \notin {"script", "loop", "tick", "fatal"}
  BY DEF Neutral
<1>2. ~Has(r, "tick")
  BY <1>1 DEF Swapped, Has, Shape, TickHigh
<1>3. ScriptLow(r) /\ LoopLow(r)
  BY <1>1 DEF Swapped, Shape, ScriptLow, LoopLow
<1>4. TickHigh(r) /\ FatalOnce(r)
  BY <1>1, <1>2 DEF Swapped, Has, Shape, TickHigh, FatalOnce
<1>5. Has(r, "fatal") <=> Has(st, "fatal") /\ st[1] # "fatal"
  BY <1>1 DEF Swapped, Has, Shape, FatalOnce
<1>6. QED
  BY <1>2, <1>3, <1>4, <1>5 DEF Swapped, Shape

(* A frame is put on top of the one that runs: the listeners of "exit" on   *)
(* any, the loop on the script, a handler on the loop.                      *)
LEMMA PushShape ==
    ASSUME NEW st \in Seq(Frames), st # <<>>, Shape(st),
           NEW f \in Frames, NEW r, Pushed(st, f, st[1], r),
           \/ f = "exitEmit"
           \/ f = "loop" /\ st[1] = "script"
           \/ f \in {"io", "tick"} /\ st[1] = "loop"
    PROVE  /\ r \in Seq(Frames) /\ Shape(r)
           /\ Has(r, "tick") <=> Has(st, "tick") \/ f = "tick"
           /\ Has(r, "fatal") <=> Has(st, "fatal")
<1>1. \A i \in 2..Len(r) : r[i] = st[i - 1]
  BY DEF Pushed
<1>2. ScriptLow(r) /\ LoopLow(r)
  <2>1. /\ Len(r) = Len(st) + 1 /\ Len(st) \in Nat /\ Len(st) > 0
        /\ r[1] = f /\ r[2] = st[1]
    BY DEF Pushed
  <2>2. ScriptLow(st) /\ LoopLow(st)
    BY DEF Shape
  <2>3. \A i \in 1..Len(r) : i = 1 \/ (i \in 2..Len(r) /\ i - 1 \in 1..Len(st))
    BY <2>1
  <2>4. ScriptLow(r)
    <3> SUFFICES ASSUME NEW i \in 1..Len(r), r[i] = "script" PROVE i = Len(r)
      BY DEF ScriptLow
    <3>1. i # 1
      BY <2>1
    <3>2. i - 1 = Len(st)
      BY <1>1, <2>2, <2>3, <3>1 DEF ScriptLow
    <3>3. QED
      BY <2>1, <3>2
  <2>5. LoopLow(r)
    <3> SUFFICES ASSUME NEW i \in 1..Len(r), r[i] = "loop"
                 PROVE  Len(r) = i + 1 /\ r[i + 1] = "script"
      BY DEF LoopLow
    <3>1. CASE i = 1
      <4>1. st[1] = "script" /\ 1 \in 1..Len(st)
        BY <2>1, <3>1
      <4>2. Len(st) = 1
        BY <2>2, <4>1 DEF ScriptLow
      <4>3. QED
        BY <2>1, <3>1, <4>1, <4>2
    <3>2. CASE i # 1
      <4>1. i - 1 \in 1..Len(st) /\ st[i - 1] = "loop"
        BY <1>1, <2>3, <3>2
      <4>2. Len(st) = (i - 1) + 1 /\ st[(i - 1) + 1] = "script"
        BY <2>2, <4>1 DEF LoopLow
      <4>3. i + 1 \in 2..Len(r) /\ (i + 1) - 1 = (i - 1) + 1
        BY <2>1, <4>2
      <4>4. r[i + 1] = st[(i + 1) - 1]
        BY <1>1, <4>3
      <4>5. QED
        BY <2>1, <4>2, <4>3, <4>4
    <3>3. QED
      BY <3>1, <3>2
  <2>6. QED
    BY <2>4, <2>5
<1>3. FatalOnce(r)
  <2> SUFFICES ASSUME NEW i \in 1..Len(r), NEW j \in 1..Len(r),
                      r[i] = "fatal", r[j] = "fatal"
               PROVE  i = j
    BY DEF FatalOnce
  <2>1. i # 1 /\ j # 1 /\ Len(st) \in Nat /\ Len(r) = Len(st) + 1
    BY DEF Pushed
  <2>2. /\ i - 1 \in 1..Len(st) /\ st[i - 1] = "fatal"
        /\ j - 1 \in 1..Len(st) /\ st[j - 1] = "fatal"
    BY <1>1, <2>1
  <2>3. i - 1 = j - 1
    BY <2>2 DEF Shape, FatalOnce
  <2>4. QED
    BY <2>3
<1>4. TickHigh(r)
  <2> SUFFICES ASSUME NEW i \in 1..Len(r), r[i] = "tick"
               PROVE  /\ i < Len(r) /\ r[i + 1] = "loop"
                      /\ \A j \in 1..(i - 1) : r[j] = "exitEmit"
    BY DEF TickHigh
  <2>1. CASE i = 1
    BY <2>1, <1>1 DEF Pushed
  <2>2. CASE i > 1
    <3> DEFINE k == i - 1
    <3>1. k \in 1..Len(st) /\ st[k] = "tick"
      BY <2>2, <1>1 DEF Pushed
    <3>2. /\ k < Len(st) /\ st[k + 1] = "loop"
          /\ \A j \in 1..(k - 1) : st[j] = "exitEmit"
      BY <3>1 DEF Shape, TickHigh
    <3>3. st[1] \in {"tick", "exitEmit"}
      BY <3>1, <3>2
    <3>4. f = "exitEmit"
      BY <3>3
    <3>5. i < Len(r) /\ r[i + 1] = "loop"
      BY <3>2, <1>1 DEF Pushed
    <3>6. \A j \in 2..(i - 1) : r[j] = "exitEmit"
      BY <3>2, <1>1 DEF Pushed
    <3>7. QED
      BY <3>4, <3>5, <3>6 DEF Pushed
  <2>3. QED
    BY <2>1, <2>2
<1>5. \A g : Has(r, g) => Has(st, g) \/ f = g
  BY <1>1 DEF Pushed, Has
<1>6. \A g : Has(st, g) => Has(r, g)
  <2> SUFFICES ASSUME NEW g, NEW i \in 1..Len(st), st[i] = g
               PROVE  Has(r, g)
    BY DEF Has
  <2>1. i + 1 \in 1..Len(r) /\ r[i + 1] = g
    BY <1>1 DEF Pushed
  <2>2. QED
    BY <2>1 DEF Has
<1>7. f = "tick" => Has(r, "tick")
  BY DEF Pushed, Has
<1>8. QED
  BY <1>2, <1>3, <1>4, <1>5, <1>6, <1>7 DEF Pushed, Shape

(* The frame on top is replaced by two, one of them perhaps FatalError's,   *)
(* which must not be active already.                                        *)
LEMMA Swap2Shape ==
    ASSUME NEW st \in Seq(Frames), st # <<>>, Shape(st),
           st[1] \notin {"exitEmit", "tick", "loop", "fatal"},
           NEW f \in Neutral, NEW g \in Neutral \cup {"fatal"},
           g = "fatal" => ~Has(st, "fatal"),
           NEW r, Pushed(st, f, g, r)
    PROVE  /\ r \in Seq(Frames) /\ Shape(r)
           /\ ~Has(r, "tick")
           /\ Has(r, "fatal") <=> Has(st, "fatal") \/ g = "fatal"
<1>1. /\ f \notin {"script", "loop", "tick", "fatal"}
      /\ g \notin {"script", "loop", "tick"}
      /\ g # "fatal" \/ ~Has(st, "fatal")
  BY DEF Neutral
<1>2. ~Has(r, "tick")
  <2>1. \A i \in 2..Len(st) : st[i] # "tick"
    BY DEF Shape, TickHigh
  <2>2. \A i \in 3..Len(r) : i - 1 \in 2..Len(st) /\ r[i] = st[i - 1]
    BY DEF Pushed
  <2>3. \A i \in 1..Len(r) : i \in 3..Len(r) \/ r[i] # "tick"
    BY <1>1 DEF Pushed
  <2>4. QED
    BY <2>1, <2>2, <2>3 DEF Has
<1>3. ScriptLow(r) /\ LoopLow(r)
  <2>1. \A i \in 3..Len(r) : r[i] = "script" => i = Len(r)
    BY DEF Pushed, Shape, ScriptLow
  <2>2. \A i \in 3..Len(r) :
            r[i] = "loop" => Len(r) = i + 1 /\ r[i + 1] = "script"
    BY DEF Pushed, Shape, LoopLow
  <2>3. \A i \in 1..Len(r) : i \in 3..Len(r) \/ r[i] \notin {"script", "loop"}
    BY <1>1 DEF Pushed
  <2>4. QED
    BY <2>1, <2>2, <2>3 DEF ScriptLow, LoopLow
<1>4. TickHigh(r)
  BY <1>2 DEF Has, TickHigh
<1>5. FatalOnce(r)
  <2>1. \A i \in 3..Len(r) : i - 1 \in 1..Len(st) /\ r[i] = st[i - 1]
    BY DEF Pushed
  <2>2. \A i \in 3..Len(r) : r[i] = "fatal" => g # "fatal"
    BY <1>1, <2>1 DEF Has
  <2>3. \A i, j \in 3..Len(r) : r[i] = "fatal" /\ r[j] = "fatal" => i = j
    <3> SUFFICES ASSUME NEW i \in 3..Len(r), NEW j \in 3..Len(r),
                        r[i] = "fatal", r[j] = "fatal"
                 PROVE  i = j
      OBVIOUS
    <3>1. i - 1 = j - 1
      BY <2>1 DEF Shape, FatalOnce
    <3>2. QED
      BY <3>1
  <2>4. \A i \in 1..Len(r) : i \in 3..Len(r) \/ (i = 2 /\ r[i] = g)
                                \/ (i = 1 /\ r[i] # "fatal")
    BY <1>1 DEF Pushed
  <2>5. QED
    BY <2>2, <2>3, <2>4 DEF FatalOnce
<1>6. Has(r, "fatal") => Has(st, "fatal") \/ g = "fatal"
  BY <1>1 DEF Pushed, Has
<1>7. Has(st, "fatal") => Has(r, "fatal")
  <2> SUFFICES ASSUME NEW i \in 1..Len(st), st[i] = "fatal"
               PROVE  Has(r, "fatal")
    BY DEF Has
  <2>1. i + 1 \in 1..Len(r) /\ r[i + 1] = "fatal"
    BY DEF Pushed
  <2>2. QED
    BY <2>1 DEF Has
<1>8. g = "fatal" => Has(r, "fatal")
  BY DEF Pushed, Has
<1>9. QED
  BY <1>2, <1>3, <1>4, <1>5, <1>6, <1>7, <1>8 DEF Pushed, Shape

------------------------------------------------------------------------------
(* Sequences: what is left of a queue.                                      *)

From(q, n) == SubSeq(q, n + 1, Len(q))

(* Type, length and elements of what follows the first n.                   *)
LEMMA FromProps ==
    ASSUME NEW S, NEW q \in Seq(S), NEW n \in 0..Len(q)
    PROVE  /\ From(q, n) \in Seq(S) /\ Len(From(q, n)) = Len(q) - n
           /\ \A i \in 1..(Len(q) - n) : From(q, n)[i] = q[n + i]
  BY DEF From

(* Dropping nothing changes nothing.                                        *)
LEMMA FromZero ==
    ASSUME NEW S, NEW q \in Seq(S)
    PROVE  From(q, 0) = q
  BY DEF From

(* Appending and dropping commute.                                          *)
LEMMA FromAppend ==
    ASSUME NEW S, NEW q \in Seq(S), NEW n \in 0..Len(q), NEW x \in S
    PROVE  From(Append(q, x), n) = Append(From(q, n), x)
<1> DEFINE p == Append(q, x)
           a == From(p, n)
           c == From(q, n)
           b == Append(c, x)
<1>1. /\ p \in Seq(S) /\ Len(p) = Len(q) + 1 /\ n \in 0..Len(p)
      /\ \A i \in 1..Len(q) : p[i] = q[i]
      /\ p[Len(q) + 1] = x
  OBVIOUS
<1> HIDE DEF p
<1>2. /\ a \in Seq(S) /\ Len(a) = Len(p) - n
      /\ \A i \in 1..(Len(p) - n) : a[i] = p[n + i]
  BY <1>1, FromProps
<1>3. /\ c \in Seq(S) /\ Len(c) = Len(q) - n
      /\ \A i \in 1..(Len(q) - n) : c[i] = q[n + i]
  BY FromProps
<1> HIDE DEF a, c
<1>4. /\ b \in Seq(S) /\ Len(b) = Len(c) + 1
      /\ \A i \in 1..Len(c) : b[i] = c[i]
      /\ b[Len(c) + 1] = x
  BY <1>3
<1> HIDE DEF b
<1>5. \A i \in 1..Len(a) : a[i] = b[i]
  <2> SUFFICES ASSUME NEW i \in 1..Len(a) PROVE a[i] = b[i]
    OBVIOUS
  <2>1. CASE i <= Len(c)
    BY <1>1, <1>2, <1>3, <1>4, <2>1
  <2>2. CASE i = Len(c) + 1
    <3>1. n + i = Len(q) + 1 /\ i \in 1..(Len(p) - n)
      BY <1>1, <1>2, <1>3, <2>2
    <3>2. QED
      BY <1>1, <1>2, <1>4, <2>2, <3>1
  <2>3. i \in Nat /\ Len(c) \in Nat /\ i <= Len(c) + 1
    BY <1>1, <1>2, <1>3
  <2>4. QED
    BY <2>1, <2>2, <2>3
<1>6. a = b
  <2>1. Len(a) = Len(b)
    BY <1>1, <1>2, <1>3, <1>4
  <2>2. QED
    BY <1>2, <1>4, <1>5, <2>1, SeqEqual
<1>7. QED
  BY <1>6 DEF a, b, c, p

(* The head of what is left, and the rest of it.                            *)
LEMMA FromTail ==
    ASSUME NEW S, NEW q \in Seq(S), NEW n \in 0..(Len(q) - 1)
    PROVE  /\ From(q, n) # <<>>
           /\ Head(From(q, n)) = q[n + 1]
           /\ Tail(From(q, n)) = From(q, n + 1)
<1> DEFINE c == From(q, n)
           a == Tail(c)
           b == From(q, n + 1)
<1>1. n \in 0..Len(q) /\ n + 1 \in 0..Len(q) /\ n \in Nat /\ Len(q) \in Nat
  OBVIOUS
<1>2. /\ c \in Seq(S) /\ Len(c) = Len(q) - n
      /\ \A i \in 1..(Len(q) - n) : c[i] = q[n + i]
  BY <1>1, FromProps
<1>3. /\ b \in Seq(S) /\ Len(b) = Len(q) - (n + 1)
      /\ \A i \in 1..(Len(q) - (n + 1)) : b[i] = q[n + 1 + i]
  BY <1>1, FromProps
<1> HIDE DEF b, c
<1>4. c # <<>> /\ Head(c) = q[n + 1]
  BY <1>1, <1>2
<1>5. /\ a \in Seq(S) /\ Len(a) = Len(c) - 1
      /\ \A i \in 1..(Len(c) - 1) : a[i] = c[i + 1]
  BY <1>2, <1>4
<1> HIDE DEF a
<1>6. \A i \in 1..Len(a) : a[i] = b[i]
  <2> SUFFICES ASSUME NEW i \in 1..Len(a) PROVE a[i] = b[i]
    OBVIOUS
  <2>1. i \in 1..(Len(c) - 1) /\ i + 1 \in 1..(Len(q) - n)
    BY <1>1, <1>2, <1>5
  <2>2. a[i] = q[n + (i + 1)]
    BY <1>2, <1>5, <2>1
  <2>3. b[i] = q[n + 1 + i]
    BY <1>1, <1>2, <1>3, <2>1
  <2>4. QED
    BY <1>1, <2>2, <2>3
<1>7. a = b
  <2>1. Len(a) = Len(b)
    BY <1>1, <1>2, <1>3, <1>5
  <2>2. QED
    BY <1>3, <1>5, <1>6, <2>1, SeqEqual
<1>8. QED
  BY <1>4, <1>7 DEF a, b, c

------------------------------------------------------------------------------
(* The stack of activations.                                                *)

(* pos is set exactly while _tickcallback is active, and                    *)
(* uncaught_exception_counter counts the activation of FatalError.          *)
InTick == pos > 0 <=> Has(stack, "tick")
Counted == counter = IF Has(stack, "fatal") THEN 1 ELSE 0
StackInv == Shape(stack) /\ InTick /\ Counted
StackTypeOK == stack \in Seq(Frames) /\ pos \in Nat

(* A step that leaves the stack alone keeps StackInv.                       *)
LEMMA StackSame ==
    ASSUME StackTypeOK, StackInv, stack' = stack, counter' = counter,
           pos' > 0 <=> pos > 0
    PROVE  StackInv' /\ stack' \in Seq(Frames)
  BY DEF StackTypeOK, StackInv, InTick, Counted

(* The activation on top ends.                                              *)
LEMMA StackPop ==
    ASSUME StackTypeOK, StackInv, stack # <<>>, Replace(<<>>),
           IF Top = "tick" THEN pos' = 0 ELSE pos' = pos,
           IF Top = "fatal" THEN counter' = counter - 1 ELSE counter' = counter
    PROVE  StackInv' /\ stack' \in Seq(Frames)
<1>1. Popped(stack, stack') /\ Top = stack[1]
  BY ReplaceElements DEF StackTypeOK, Replace, Top
<1>2. /\ stack' \in Seq(Frames) /\ Shape(stack')
      /\ Has(stack', "tick") <=> Has(stack, "tick") /\ stack[1] # "tick"
      /\ Has(stack', "fatal") <=> Has(stack, "fatal") /\ stack[1] # "fatal"
  BY <1>1, PopShape DEF StackTypeOK, StackInv
<1>3. stack[1] = "fatal" => Has(stack, "fatal")
  BY DEF Has, StackTypeOK
<1>4. InTick'
  BY <1>1, <1>2 DEF StackInv, InTick
<1>5. Counted'
  BY <1>1, <1>2, <1>3 DEF StackInv, Counted
<1>6. QED
  BY <1>2, <1>4, <1>5 DEF StackInv

(* It is replaced by another, as when it throws.                            *)
LEMMA StackSwap ==
    ASSUME StackTypeOK, StackInv, stack # <<>>,
           Top \notin {"exitEmit", "fatal"},
           NEW f \in Neutral, Replace(<<f>>),
           IF Top = "tick" THEN pos' = 0 ELSE pos' = pos,
           counter' = counter
    PROVE  StackInv' /\ stack' \in Seq(Frames)
<1>1. Swapped(stack, f, stack') /\ Top = stack[1]
  <2>1. f \in Frames
    BY DEF Neutral
  <2>2. QED
    BY <2>1, ReplaceElements DEF StackTypeOK, Replace, Top
<1>2. /\ stack' \in Seq(Frames) /\ Shape(stack') /\ ~Has(stack', "tick")
      /\ Has(stack', "fatal") <=> Has(stack, "fatal") /\ stack[1] # "fatal"
  BY <1>1, SwapShape DEF StackTypeOK, StackInv
<1>3. stack[1] # "tick" => ~Has(stack, "tick")
  BY <1>1 DEF Has, StackTypeOK, StackInv, Shape, TickHigh
<1>4. InTick'
  BY <1>1, <1>2, <1>3 DEF StackInv, InTick, StackTypeOK
<1>5. Counted'
  BY <1>1, <1>2 DEF StackInv, Counted
<1>6. QED
  BY <1>2, <1>4, <1>5 DEF StackInv

(* It calls another.                                                        *)
LEMMA StackPush ==
    ASSUME StackTypeOK, StackInv, stack # <<>>,
           NEW f \in Frames, Replace(<<f, Top>>),
           \/ f = "exitEmit"
           \/ f = "loop" /\ Top = "script"
           \/ f \in {"io", "tick"} /\ Top = "loop",
           IF f = "tick" THEN pos' = 1 ELSE pos' = pos, counter' = counter
    PROVE  StackInv' /\ stack' \in Seq(Frames)
<1>1. Pushed(stack, f, stack[1], stack') /\ Top = stack[1]
  <2>1. Top = stack[1] /\ stack[1] \in Frames
    BY DEF StackTypeOK, Top
  <2>2. QED
    BY <2>1, ReplaceElements DEF StackTypeOK, Replace
<1>2. /\ stack' \in Seq(Frames) /\ Shape(stack')
      /\ Has(stack', "tick") <=> Has(stack, "tick") \/ f = "tick"
      /\ Has(stack', "fatal") <=> Has(stack, "fatal")
  BY <1>1, PushShape DEF StackTypeOK, StackInv
<1>3. InTick'
  BY <1>2 DEF StackInv, InTick
<1>4. Counted'
  BY <1>2 DEF StackInv, Counted
<1>5. QED
  BY <1>2, <1>3, <1>4 DEF StackInv

(* It is replaced by two, as when FatalError calls its listeners.           *)
LEMMA StackSwap2 ==
    ASSUME StackTypeOK, StackInv, stack # <<>>,
           Top \notin {"exitEmit", "tick", "loop", "fatal"},
           NEW f \in Neutral, NEW g \in Neutral \cup {"fatal"},
           Replace(<<f, g>>), pos' = pos,
           IF g = "fatal" THEN counter = 0 /\ counter' = 1
                          ELSE counter' = counter
    PROVE  StackInv' /\ stack' \in Seq(Frames)
<1>1. Pushed(stack, f, g, stack') /\ Top = stack[1]
  <2>1. f \in Frames /\ g \in Frames
    BY DEF Neutral, Frames
  <2>2. QED
    BY <2>1, ReplaceElements DEF StackTypeOK, Replace, Top
<1>2. g = "fatal" => ~Has(stack, "fatal")
  BY DEF StackInv, Counted
<1>3. /\ stack' \in Seq(Frames) /\ Shape(stack') /\ ~Has(stack', "tick")
      /\ Has(stack', "fatal") <=> Has(stack, "fatal") \/ g = "fatal"
  BY <1>1, <1>2, Swap2Shape DEF StackTypeOK, StackInv
<1>4. ~Has(stack, "tick")
  BY <1>1 DEF Has, StackTypeOK, StackInv, Shape, TickHigh
<1>5. InTick'
  BY <1>3, <1>4 DEF StackInv, InTick
<1>6. Counted'
  BY <1>2, <1>3 DEF StackInv, Counted
<1>7. QED
  BY <1>3, <1>5, <1>6 DEF StackInv

(* Two one-element sequences.                                               *)
LEMMA ConcatOnes ==
    ASSUME NEW a \in Frames, NEW b \in Frames
    PROVE  <<a>> \o <<b>> = <<a, b>>
<1> DEFINE s == <<a>> \o <<b>>
           t == <<a, b>>
<1>1. s \in Seq(Frames) /\ Len(s) = 2 /\ s[1] = a /\ s[2] = b
  OBVIOUS
<1>2. t \in Seq(Frames) /\ Len(t) = 2 /\ t[1] = a /\ t[2] = b
  OBVIOUS
<1> HIDE DEF s, t
<1>3. \A i \in 1..Len(s) : s[i] = t[i]
  BY <1>1, <1>2
<1>4. s = t
  BY <1>1, <1>2, <1>3, SeqEqual
<1>5. QED
  BY <1>4 DEF s, t

(* process:exit, called by user code or by FatalError, keeps StackInv.      *)
LEMMA ProcessExitStack ==
    ASSUME StackTypeOK, StackInv, stack # <<>>, NEW code,
           \/ ProcessExit(code, <<Top>>) /\ counter' = counter
           \/ /\ Top = "error" /\ counter = 0 /\ counter' = 1
              /\ ProcessExit(code, <<"fatal">>)
    PROVE  StackInv' /\ stack' \in Seq(Frames)
<1>1. /\ "exitEmit" \in Neutral /\ "exitEmit" \in Frames
      /\ "fatal" \in Frames /\ "fatal" \in Neutral \cup {"fatal"}
  BY DEF Neutral, Frames
<1>2. pos' = pos
  BY DEF ProcessExit, QueueExit, Enqueue, queueVars
<1>3. CASE ProcessExit(code, <<Top>>) /\ counter' = counter
  <2>1. Replace(<<"exitEmit", Top>>) \/ stack' = stack
    <3>1. <<"exitEmit">> \o <<Top>> = <<"exitEmit", Top>>
      <4>1. Top \in Frames
        BY DEF Top, StackTypeOK
      <4>2. QED
        BY <1>1, <4>1, ConcatOnes
    <3>2. <<Top>> \o Tail(stack) = stack
      BY DEF Top, StackTypeOK
    <3>3. QED
      BY <1>3, <3>1, <3>2 DEF ProcessExit, Replace
  <2>2. CASE stack' = stack
    BY <1>2, <1>3, <2>2, StackSame
  <2>3. CASE Replace(<<"exitEmit", Top>>)
    BY <1>1, <1>2, <1>3, <2>3, StackPush
  <2>4. QED
    BY <2>1, <2>2, <2>3
<1>4. CASE /\ Top = "error" /\ counter = 0 /\ counter' = 1
           /\ ProcessExit(code, <<"fatal">>)
  <2>1. Replace(<<"exitEmit", "fatal">>) \/ Replace(<<"fatal">>)
    <3>1. <<"exitEmit">> \o <<"fatal">> = <<"exitEmit", "fatal">>
      BY <1>1, ConcatOnes
    <3>2. QED
      BY <1>4, <3>1 DEF ProcessExit, Replace
  <2>2. CASE Replace(<<"exitEmit", "fatal">>)
    BY <1>1, <1>2, <1>4, <2>2, StackSwap2
  <2>3. CASE Replace(<<"fatal">>)
    <3>1. Swapped(stack, "fatal", stack') /\ stack[1] = "error"
      BY <1>1, <1>4, <2>3, ReplaceElements DEF StackTypeOK, Replace, Top
    <3>2. ~Has(stack, "fatal") /\ Shape(stack)
      BY <1>4 DEF StackInv, Counted
    <3>3. ~Has(stack, "tick")
      BY <3>1, <3>2 DEF Has, StackTypeOK, Shape, TickHigh
    <3>4. ~Has(stack', "tick") /\ Has(stack', "fatal")
      BY <3>1, <3>3 DEF Has, Swapped, StackTypeOK
    <3>5. ScriptLow(stack') /\ LoopLow(stack')
      BY <3>1, <3>2 DEF Swapped, Shape, ScriptLow, LoopLow, StackTypeOK
    <3>6. TickHigh(stack') /\ FatalOnce(stack')
      BY <3>1, <3>2, <3>4 DEF Swapped, Has, TickHigh, FatalOnce, StackTypeOK
    <3>7. QED
      BY <1>2, <1>4, <3>1, <3>3, <3>4, <3>5, <3>6
         DEF StackInv, Shape, InTick, Counted, Swapped
  <2>4. QED
    BY <2>1, <2>2, <2>3
<1>5. QED
  BY <1>3, <1>4

(* Every step keeps the discipline of the stack.                            *)
LEMMA StackStep ==
    ASSUME StackTypeOK, StackInv, [Next]_vars
    PROVE  StackInv' /\ stack' \in Seq(Frames)
<1>1. /\ {"exitEmit", "error", "failed", "finalEmit", "failEmit", "unhandled"}
            \subseteq Neutral
      /\ {"loop", "tick", "io"} \subseteq Frames
  BY DEF Neutral, Frames
<1>2. CASE \/ NextTick \/ StartWork \/ ListenExit \/ ListenErrors
           \/ SignalExit \/ Terminated \/ UNCHANGED vars
  <2>1. stack' = stack /\ pos' = pos /\ counter' = counter
    BY <1>2 DEF NextTick, Enqueue, StartWork, ListenExit, ListenErrors,
                SignalExit, Terminated, vars, queueVars, errVars
  <2>2. QED
    BY <2>1, StackSame
<1>3. ASSUME NEW code \in Codes, Exit(code)
      PROVE  StackInv' /\ stack' \in Seq(Frames)
  BY <1>3, ProcessExitStack DEF Exit, InUserCode, errVars
<1>4. CASE Loop
  BY <1>1, <1>4, StackPush DEF Loop, Running, queueVars, errVars
<1>5. CASE ExitListenersDone
  <2>1. Running("exitEmit") /\ Replace(<<>>) /\ pos' = pos /\ counter' = counter
    BY <1>5 DEF ExitListenersDone, QueueExit, Enqueue, errVars
  <2>2. QED
    BY <2>1, StackPop DEF Running
<1>6. CASE CallbackReturns \/ ExitClosure
  <2>1. Running("tick") /\ CallbackEnded /\ counter' = counter
    BY <1>6 DEF CallbackReturns, ExitClosure, InExitClosure, errVars
  <2>2. CASE pos < snapshot
    <3>1. pos > 0
      BY <2>1 DEF StackTypeOK, StackInv, InTick, Has, Running, Top
    <3>2. pos' > 0 /\ stack' = stack
      BY <2>1, <2>2, <3>1 DEF CallbackEnded, StackTypeOK
    <3>3. QED
      BY <2>1, <3>1, <3>2, StackSame
  <2>3. CASE ~(pos < snapshot)
    BY <2>1, <2>3, StackPop DEF CallbackEnded, Running
  <2>4. QED
    BY <2>2, <2>3
<1>7. CASE CallbackThrows
  BY <1>1, <1>7, StackSwap DEF CallbackThrows, Running, errVars
<1>8. CASE IoReturns \/ UnhandledReturns \/ LastListenersReturn
  BY <1>8, StackPop DEF IoReturns, UnhandledReturns, LastListenersReturn,
        Running, queueVars, errVars
<1>9. CASE HandlerThrows \/ LastListenersThrow
  BY <1>1, <1>9, StackSwap DEF HandlerThrows, LastListenersThrow, Running,
        queueVars, errVars
<1>10. CASE ScriptReturns
  <2>1. CASE Replace(<<"finalEmit">>)
    BY <1>1, <1>10, <2>1, StackSwap DEF ScriptReturns, Running, queueVars,
        errVars
  <2>2. CASE Replace(<<>>)
    BY <1>10, <2>2, StackPop DEF ScriptReturns, Running, queueVars, errVars
  <2>3. QED
    BY <1>10, <2>1, <2>2 DEF ScriptReturns
<1>11. CASE ScriptThrows
  BY <1>1, <1>11, StackSwap2 DEF ScriptThrows, queueVars, errVars
<1>12. CASE RunReturns
  BY <1>12, StackPop DEF RunReturns, Running, queueVars, errVars
<1>13. CASE Tick
  <2>1. CASE queue = <<>>
    BY <1>13, <2>1, StackSame DEF Tick, errVars
  <2>2. CASE queue # <<>>
    BY <1>1, <1>13, <2>2, StackPush DEF Tick, Running, errVars
  <2>3. QED
    BY <2>1, <2>2
<1>14. CASE IoEvent
  BY <1>1, <1>14, StackPush DEF IoEvent, Running, queueVars, errVars
<1>15. CASE FatalError
  <2>1. CASE counter > 0 /\ Replace(<<>>) /\ UNCHANGED <<counter, queueVars>>
    BY <1>15, <2>1, StackPop DEF FatalError, Running, queueVars
  <2>2. CASE /\ counter = 0 /\ counter' = counter + 1 /\ UNCHANGED queueVars
             /\ Replace(<<"unhandled", "fatal">>)
    BY <1>1, <1>15, <2>2, StackSwap2 DEF FatalError, Running, queueVars
  <2>3. CASE Replace(<<>>) /\ UNCHANGED <<counter, queueVars>>
    BY <1>15, <2>3, StackPop DEF FatalError, Running, queueVars
  <2>4. CASE /\ counter = 0 /\ counter' = counter + 1
             /\ ProcessExit(1, <<"fatal">>)
    BY <1>15, <2>4, ProcessExitStack DEF FatalError, Running
  <2>5. QED
    BY <1>15, <2>1, <2>2, <2>3, <2>4 DEF FatalError
<1>16. CASE FatalReturns
  BY <1>16, StackPop DEF FatalReturns, Running, queueVars
<1>17. CASE LoadFails
  <2>1. CASE Replace(<<"failEmit">>)
    BY <1>1, <1>17, <2>1, StackSwap DEF LoadFails, Running, queueVars, errVars
  <2>2. CASE Replace(<<>>)
    BY <1>17, <2>2, StackPop DEF LoadFails, Running, queueVars, errVars
  <2>3. QED
    BY <1>17, <2>1, <2>2 DEF LoadFails
<1>18. QED
  BY <1>2, <1>3, <1>4, <1>5, <1>6, <1>7, <1>8, <1>9, <1>10, <1>11, <1>12,
     <1>13, <1>14, <1>15, <1>16, <1>17
     DEF Next, Application, Leave, System

------------------------------------------------------------------------------
(* The queue.                                                               *)

QueueTypeOK ==
    /\ queue \in Seq(Nat \ {0})
    /\ pos \in Nat /\ snapshot \in Nat /\ ticks \in Nat /\ issued \in Nat
    /\ pos <= snapshot /\ snapshot <= Len(queue)

(* The ways in which a step can change the queue: not at all, nextTick, a   *)
(* Tick, the next callback of the snapshot, and dropping what was started   *)
(* (at the end of the snapshot, or when a callback throws).                 *)
TickEffect ==
    /\ pos = 0 /\ ticks > 0
    /\ ticks' = ticks - 1
    /\ UNCHANGED <<queue, issued>>
    /\ IF queue = <<>> THEN UNCHANGED <<pos, snapshot>>
       ELSE pos' = 1 /\ snapshot' = Len(queue)

AdvanceEffect ==
    /\ pos > 0 /\ pos < snapshot
    /\ pos' = pos + 1
    /\ UNCHANGED <<queue, snapshot, ticks, issued>>

DropEffect ==
    /\ pos > 0
    /\ queue' = splice(queue, pos + 1)
    /\ pos' = 0 /\ snapshot' = 0
    /\ UNCHANGED <<ticks, issued>>

QueueStep ==
    \/ UNCHANGED queueVars \/ Enqueue \/ TickEffect \/ AdvanceEffect
    \/ DropEffect

(* Every step of the program is one of them.  A Tick finds pos = 0 because  *)
(* of the discipline of the stack.                                          *)
LEMMA QueueEffects ==
    ASSUME QueueTypeOK, StackTypeOK, StackInv, [Next]_vars
    PROVE  QueueStep
<1>1. CASE \/ StartWork \/ ListenExit \/ ListenErrors \/ Loop \/ IoReturns
           \/ UnhandledReturns \/ LastListenersReturn \/ HandlerThrows
           \/ LastListenersThrow \/ ScriptReturns \/ ScriptThrows
           \/ RunReturns \/ IoEvent \/ FatalReturns \/ LoadFails
           \/ SignalExit \/ Terminated \/ UNCHANGED vars
  <2>1. UNCHANGED queueVars
    BY <1>1 DEF StartWork, ListenExit, ListenErrors, Loop, IoReturns,
        UnhandledReturns, LastListenersReturn, HandlerThrows,
        LastListenersThrow, ScriptReturns, ScriptThrows, RunReturns, IoEvent,
        FatalReturns, LoadFails, SignalExit, Terminated, vars
  <2>2. QED
    BY <2>1 DEF QueueStep
<1>2. CASE NextTick \/ ExitListenersDone
  BY <1>2 DEF NextTick, ExitListenersDone, QueueExit, QueueStep
<1>3. ASSUME NEW code, NEW frames, ProcessExit(code, frames)
      PROVE  QueueStep
  BY <1>3 DEF ProcessExit, QueueExit, QueueStep
<1>4. ASSUME NEW code \in Codes, Exit(code)
      PROVE  QueueStep
  BY <1>3, <1>4 DEF Exit
<1>5. CASE FatalError
  BY <1>3, <1>5 DEF FatalError, QueueStep
<1>6. Running("tick") => pos > 0
  BY DEF StackTypeOK, StackInv, InTick, Has, Running, Top
<1>7. CASE CallbackReturns \/ ExitClosure
  <2>1. Running("tick") /\ CallbackEnded
    BY <1>7 DEF CallbackReturns, ExitClosure, InExitClosure
  <2>2. pos > 0 /\ (pos < snapshot \/ pos = snapshot)
    BY <1>6, <2>1 DEF QueueTypeOK
  <2>3. QED
    BY <2>1, <2>2 DEF CallbackEnded, QueueStep, AdvanceEffect, DropEffect
<1>8. CASE CallbackThrows
  BY <1>6, <1>8 DEF CallbackThrows, QueueStep, DropEffect
<1>9. CASE Tick
  <2>1. Running("loop") => ~Has(stack, "tick")
    BY DEF StackTypeOK, StackInv, Shape, LoopLow, TickHigh, Has, Running, Top
  <2>2. pos = 0
    BY <1>9, <2>1 DEF Tick, StackTypeOK, StackInv, InTick
  <2>3. QED
    BY <1>9, <2>2 DEF Tick, QueueStep, TickEffect
<1>10. QED
  BY <1>1, <1>2, <1>4, <1>5, <1>7, <1>8, <1>9
     DEF Next, Application, Leave, System

(* Waiting in terms of From.                                                *)
LEMMA WaitingIs == Waiting = From(queue, pos)
  BY DEF Waiting, From

(* The queue keeps its type, and a Tick for every waiting callback: the     *)
(* splice removes no callback that was not started.                         *)
LEMMA QueueTypeStep ==
    ASSUME QueueTypeOK, EveryCallbackHasATick, QueueStep
    PROVE  QueueTypeOK' /\ EveryCallbackHasATick'
<1>1. /\ queue \in Seq(Nat \ {0}) /\ pos \in 0..Len(queue)
      /\ Len(Waiting) = Len(queue) - pos
  <2>1. queue \in Seq(Nat \ {0}) /\ pos \in 0..Len(queue)
    BY DEF QueueTypeOK
  <2>2. QED
    BY <2>1, FromProps, WaitingIs
<1>2. Len(queue) - pos <= ticks
  BY <1>1 DEF EveryCallbackHasATick
<1>3. QueueTypeOK' /\ Len(queue') - pos' <= ticks'
  <2>1. CASE UNCHANGED queueVars
    BY <1>2, <2>1 DEF QueueTypeOK, queueVars
  <2>2. CASE Enqueue
    BY <1>2, <2>2 DEF QueueTypeOK, Enqueue
  <2>3. CASE TickEffect
    BY <1>2, <2>3 DEF QueueTypeOK, TickEffect
  <2>4. CASE AdvanceEffect
    BY <1>2, <2>4 DEF QueueTypeOK, AdvanceEffect
  <2>5. CASE DropEffect
    <3>1. queue' = From(queue, pos)
      BY <2>5 DEF DropEffect, splice, From
    <3>2. queue' \in Seq(Nat \ {0}) /\ Len(queue') = Len(queue) - pos
      BY <1>1, <3>1, FromProps
    <3>3. QED
      BY <1>2, <2>5, <3>2 DEF QueueTypeOK, DropEffect
  <2>6. QED
    BY <2>1, <2>2, <2>3, <2>4, <2>5 DEF QueueStep
<1>4. Len(Waiting') = Len(queue') - pos'
  <2>1. queue' \in Seq(Nat \ {0}) /\ pos' \in 0..Len(queue')
    BY <1>3 DEF QueueTypeOK
  <2>2. Waiting' = From(queue', pos')
    BY DEF Waiting, From
  <2>3. QED
    BY <2>1, <2>2, FromProps
<1>5. QED
  BY <1>3, <1>4 DEF EveryCallbackHasATick

------------------------------------------------------------------------------
(* The inductive invariant and the theorems.                                *)

IInv == TypeOK /\ StackInv /\ EveryCallbackHasATick

(* What TypeOK says of the variables other than the queue and the stack.    *)
NumbersOK ==
    /\ work \in Nat /\ started \in Nat /\ exitTick \in Nat
    /\ exitArg \in Codes /\ exit_code \in Codes /\ result \in Codes

FlagsOK ==
    /\ stopped \in BOOLEAN /\ errListener \in BOOLEAN /\ aborted \in BOOLEAN
    /\ exitListener \in BOOLEAN /\ exitEmitted \in BOOLEAN
    /\ askedInLoop \in BOOLEAN

RestTypeOK == NumbersOK /\ FlagsOK

(* The initial states satisfy the invariant.                                *)
LEMMA InitIInv == Init => IInv
<1> SUFFICES ASSUME Init PROVE IInv
  OBVIOUS
<1>1. stack = <<"script">> /\ stack \in Seq(Frames) /\ Len(stack) = 1
  BY DEF Init, Frames
<1>2. TypeOK
  <2>1. QueueTypeOK /\ counter \in Nat
    BY DEF Init, QueueTypeOK
  <2>2. RestTypeOK
    BY CodesAssumption DEF Init, RestTypeOK, NumbersOK, FlagsOK
  <2>3. QED
    BY <1>1, <2>1, <2>2 DEF TypeOK, QueueTypeOK, RestTypeOK,
        NumbersOK, FlagsOK
<1>3. stack[1] = "script" /\ 1..Len(stack) = {1}
  BY <1>1
<1>4. StackInv
  BY <1>1, <1>3 DEF Init, StackInv, InTick, Counted, Shape, ScriptLow,
     LoopLow, TickHigh, FatalOnce, Has
<1>5. EveryCallbackHasATick
  BY DEF Init, EveryCallbackHasATick, Waiting
<1>6. QED
  BY <1>2, <1>4, <1>5 DEF IInv

(* The other variables keep their types.                                    *)
LEMMA RestStep ==
    ASSUME RestTypeOK, issued \in Nat, [Next]_vars
    PROVE  RestTypeOK'
<1>1. CASE \/ NextTick \/ Loop \/ IoReturns \/ UnhandledReturns
           \/ LastListenersReturn \/ HandlerThrows \/ LastListenersThrow
           \/ FatalReturns \/ LoadFails \/ Tick \/ CallbackReturns
           \/ CallbackThrows \/ Terminated \/ UNCHANGED vars
  <2>1. UNCHANGED <<ioVars, errListener, aborted, exitVars, endVars>>
    BY <1>1 DEF NextTick, Loop, IoReturns, UnhandledReturns,
        LastListenersReturn, HandlerThrows, LastListenersThrow, FatalReturns,
        LoadFails, Tick, CallbackReturns, CallbackThrows, Terminated, vars,
        errVars
  <2>2. QED
    BY <2>1 DEF RestTypeOK, NumbersOK, FlagsOK, ioVars, exitVars, endVars
<1>2. CASE StartWork \/ ListenExit \/ IoEvent
  <2>1. NumbersOK'
    BY <1>2 DEF RestTypeOK, NumbersOK, StartWork, ListenExit, IoEvent,
        ioVars, exitVars, endVars
  <2>2. FlagsOK'
    BY <1>2 DEF RestTypeOK, FlagsOK, StartWork, ListenExit, IoEvent, ioVars,
        errVars, exitVars
  <2>3. QED
    BY <2>1, <2>2 DEF RestTypeOK
<1>3. CASE ListenErrors \/ SignalExit \/ RunReturns \/ ExitClosure
  BY <1>3 DEF RestTypeOK, NumbersOK, FlagsOK, ListenErrors, SignalExit,
        RunReturns, ExitClosure, ioVars, errVars, exitVars, endVars
<1>4. CASE ScriptReturns \/ ScriptThrows
  BY <1>4, CodesAssumption DEF RestTypeOK, NumbersOK, FlagsOK, ScriptReturns,
        ScriptThrows, ioVars, errVars, exitVars, endVars
<1>5. CASE ExitListenersDone
  <2>1. /\ exitTick' = issued + 1 /\ exitArg' = exitArg
        /\ exitListener' = FALSE
        /\ UNCHANGED <<exitEmitted, askedInLoop>>
        /\ UNCHANGED <<ioVars, errListener, aborted, endVars>>
    BY <1>5 DEF ExitListenersDone, QueueExit, errVars
  <2>2. NumbersOK'
    BY <2>1 DEF RestTypeOK, NumbersOK, ioVars, endVars
  <2>3. FlagsOK'
    BY <2>1 DEF RestTypeOK, FlagsOK, ioVars
  <2>4. QED
    BY <2>2, <2>3 DEF RestTypeOK
<1>6. ASSUME NEW code \in Codes, NEW frames, ProcessExit(code, frames),
             UNCHANGED <<ioVars, errListener, aborted, endVars>>
      PROVE  RestTypeOK'
  <2>1. askedInLoop' \in BOOLEAN
    BY <1>6 DEF ProcessExit, InLoop
  <2>2. /\ exitTick' \in {exitTick, issued + 1} /\ exitArg' = code
        /\ exitListener' \in {exitListener, FALSE} /\ exitEmitted' = TRUE
    BY <1>6 DEF ProcessExit, QueueExit
  <2>3. NumbersOK'
    BY <1>6, <2>2 DEF RestTypeOK, NumbersOK, ioVars, endVars
  <2>4. FlagsOK'
    BY <1>6, <2>1, <2>2 DEF RestTypeOK, FlagsOK, ioVars
  <2>5. QED
    BY <2>3, <2>4 DEF RestTypeOK
<1>7. ASSUME NEW code \in Codes, Exit(code)
      PROVE  RestTypeOK'
  BY <1>6, <1>7 DEF Exit, errVars
<1>8. CASE FatalError
  <2>1. CASE ProcessExit(1, <<"fatal">>) /\ UNCHANGED <<aborted, ioVars>>
    BY <1>6, <1>8, <2>1, CodesAssumption DEF FatalError
  <2>2. CASE UNCHANGED exitVars
    BY <1>8, <2>2 DEF RestTypeOK, NumbersOK, FlagsOK, FatalError, ioVars,
       exitVars, endVars
  <2>3. QED
    BY <1>8, <2>1, <2>2 DEF FatalError
<1>9. QED
  BY <1>1, <1>2, <1>3, <1>4, <1>5, <1>7, <1>8
     DEF Next, Application, Leave, System

(* Every step keeps the invariant.                                          *)
LEMMA NextIInv == IInv /\ [Next]_vars => IInv'
<1> SUFFICES ASSUME IInv, [Next]_vars PROVE IInv'
  OBVIOUS
<1>1. /\ QueueTypeOK /\ StackTypeOK /\ RestTypeOK /\ StackInv
      /\ EveryCallbackHasATick
  BY DEF IInv, TypeOK, QueueTypeOK, StackTypeOK, RestTypeOK, NumbersOK,
         FlagsOK
<1>2. StackInv' /\ stack' \in Seq(Frames)
  BY <1>1, StackStep
<1>3. QueueTypeOK' /\ EveryCallbackHasATick'
  BY <1>1, QueueEffects, QueueTypeStep
<1>4. RestTypeOK'
  BY <1>1, RestStep DEF QueueTypeOK
<1>5. counter' \in Nat
  BY <1>2 DEF StackInv, Counted
<1>6. TypeOK'
  BY <1>2, <1>3, <1>4, <1>5 DEF TypeOK, QueueTypeOK, RestTypeOK,
        NumbersOK, FlagsOK
<1>7. QED
  BY <1>2, <1>3, <1>6 DEF IInv

(* IInv is an invariant of the event loop.                                  *)
THEOREM Invariance == Spec => []IInv
  BY InitIInv, NextIInv, PTL DEF Spec

(* The variables of node.lua and luanode.cpp keep their types; the index i  *)
(* of _tickcallback stays within its snapshot, and that within the array.   *)
THEOREM TypeCorrect == Spec => []TypeOK
<1>1. IInv => TypeOK
  BY DEF IInv
<1>2. QED
  BY Invariance, <1>1, PTL

(* Whatever the callbacks do (add callbacks, throw, call process:exit),     *)
(* every callback in nextTickQueue that was not started has a posted Tick.  *)
THEOREM TicksCoverCallbacks == Spec => []EveryCallbackHasATick
<1>1. IInv => EveryCallbackHasATick
  BY DEF IInv
<1>2. QED
  BY Invariance, <1>1, PTL

(* FatalError is never active twice, and uncaught_exception_counter says    *)
(* whether it is active.                                                    *)
THEOREM ErrorHandlingNotNested == Spec => []NoNestedErrorHandling
<1>1. IInv => NoNestedErrorHandling
  BY DEF IInv, StackInv, Counted, Has, NoNestedErrorHandling
<1>2. QED
  BY Invariance, <1>1, PTL

------------------------------------------------------------------------------
(* The exit code.  What process:exit leaves behind: until it is called there *)
(* is neither a closure nor an emit of "exit"; the loop that was stopped     *)
(* before cannot run the application again; and from a call made in the loop *)
(* until the closure sets exit_code, the loop runs on, with the listeners of *)
(* "exit" on the stack or the closure in the queue.                          *)

NotAsked ==
    ~exitEmitted => exitTick = 0 /\ ~askedInLoop /\ ~Has(stack, "exitEmit")

StoppedEarly ==
    stopped /\ InLoop /\ ~aborted /\ ~exitEmitted => stack # <<>> /\ Top = "loop"

ClosureWaits == \E i \in 1..Len(queue) : i >= pos /\ queue[i] = exitTick

ClosureComes ==
    askedInLoop /\ ~aborted =>
        \/ exit_code = exitArg
        \/ /\ InLoop /\ ~stopped
           /\ Has(stack, "exitEmit") \/ ClosureWaits

ExitInv == NotAsked /\ StoppedEarly /\ ClosureComes

(* The frames there are after a replacement.                                 *)
LEMMA ReplacedHas ==
    ASSUME NEW st \in Seq(Frames), st # <<>>, NEW frames \in Seq(Frames),
           NEW f
    PROVE  /\ Has(frames \o Tail(st), f) => Has(frames, f) \/ Has(st, f)
           /\ Has(st, f) /\ st[1] # f => Has(frames \o Tail(st), f)
           /\ Has(frames, f) => Has(frames \o Tail(st), f)
<1> DEFINE t == Tail(st)
           r == frames \o t
<1>1. /\ t \in Seq(Frames) /\ Len(t) = Len(st) - 1
      /\ \A i \in 1..Len(t) : t[i] = st[i + 1]
      /\ Len(t) \in Nat /\ Len(frames) \in Nat /\ Len(st) \in Nat
  BY HeadTailProperties
<1> HIDE DEF t
<1>2. /\ r \in Seq(Frames) /\ Len(r) = Len(frames) + Len(t)
      /\ \A i \in 1..Len(frames) : r[i] = frames[i]
      /\ \A i \in 1..Len(t) : r[Len(frames) + i] = t[i]
  <2>1. /\ r \in Seq(Frames) /\ Len(r) = Len(frames) + Len(t)
        /\ \A i \in 1..(Len(frames) + Len(t)) :
              r[i] = IF i <= Len(frames) THEN frames[i] ELSE t[i - Len(frames)]
    BY <1>1, ConcatProperties
  <2> HIDE DEF r
  <2>2. ASSUME NEW i \in 1..Len(t) PROVE r[Len(frames) + i] = t[i]
    <3>1. /\ Len(frames) + i \in 1..(Len(frames) + Len(t))
          /\ ~(Len(frames) + i <= Len(frames))
          /\ (Len(frames) + i) - Len(frames) = i
      BY <1>1
    <3>2. QED
      BY <2>1, <3>1
  <2>3. ASSUME NEW i \in 1..Len(frames) PROVE r[i] = frames[i]
    <3>1. i \in 1..(Len(frames) + Len(t)) /\ i <= Len(frames)
      BY <1>1
    <3>2. QED
      BY <2>1, <3>1
  <2>4. QED
    BY <2>1, <2>2, <2>3
<1> HIDE DEF r
<1>3. Has(r, f) => Has(frames, f) \/ Has(st, f)
  <2> SUFFICES ASSUME NEW i \in 1..Len(r), r[i] = f
               PROVE  Has(frames, f) \/ Has(st, f)
    BY DEF Has
  <2>1. CASE i <= Len(frames)
    BY <1>2, <2>1 DEF Has
  <2>2. CASE i > Len(frames)
    <3>1. PICK j \in 1..Len(t) : i = Len(frames) + j
      <4>1. /\ i - Len(frames) \in 1..Len(t)
            /\ i = Len(frames) + (i - Len(frames))
        BY <1>1, <1>2, <2>2
      <4>2. QED
        BY <4>1
    <3>2. t[j] = f
      BY <1>2, <3>1
    <3>3. j + 1 \in 1..Len(st) /\ st[j + 1] = f
      BY <1>1, <3>2
    <3>4. QED
      BY <3>3 DEF Has
  <2>3. QED
    BY <1>1, <1>2, <2>1, <2>2
<1>4. Has(st, f) /\ st[1] # f => Has(r, f)
  <2> SUFFICES ASSUME NEW i \in 1..Len(st), st[i] = f, st[1] # f
               PROVE  Has(r, f)
    BY DEF Has
  <2> DEFINE j == Len(frames) + (i - 1)
  <2>1. i - 1 \in 1..Len(t) /\ t[i - 1] = f
    <3>1. i - 1 \in 1..Len(t) /\ (i - 1) + 1 = i
      BY <1>1
    <3>2. QED
      BY <1>1, <3>1
  <2>2. j \in 1..Len(r) /\ r[j] = f
    BY <1>1, <1>2, <2>1
  <2>3. QED
    BY <2>1, <2>2 DEF Has
<1>5. Has(frames, f) => Has(r, f)
  <2> SUFFICES ASSUME NEW i \in 1..Len(frames), frames[i] = f PROVE Has(r, f)
    BY DEF Has
  <2>1. i \in 1..Len(r) /\ r[i] = f
    BY <1>1, <1>2
  <2>2. QED
    BY <2>1 DEF Has
<1>6. QED
  BY <1>3, <1>4, <1>5 DEF r, t

(* How a step changes the stack, as far as the loop and the listeners of     *)
(* "exit" are concerned: only process:exit calls the listeners, once.        *)
Plain == Frames \ {"loop", "exitEmit"}

StackEffect ==
    \/ stack' = stack
    \/ stack # <<>> /\ \E frames \in Seq(Plain) : Replace(frames)
    \/ Loop \/ Tick \/ IoEvent
    \/ /\ ~exitEmitted /\ exitEmitted' /\ stack # <<>> /\ Top # "loop"
       /\ \E frames \in Seq(Frames \ {"loop"}) : Replace(frames)

(* Every step changes the stack in one of these ways.                        *)
LEMMA StackEffects ==
    ASSUME StackTypeOK, [Next]_vars
    PROVE  StackEffect
<1>1. /\ {"error", "failed", "finalEmit", "failEmit", "unhandled", "fatal"}
            \subseteq Plain
      /\ "exitEmit" \in Frames \ {"loop"} /\ "fatal" \in Frames \ {"loop"}
  BY DEF Plain, Frames
<1>2. /\ <<>> \in Seq(Plain)
      /\ \A f \in Plain : <<f>> \in Seq(Plain)
      /\ \A f, g \in Plain : <<f, g>> \in Seq(Plain)
  OBVIOUS
<1>3. CASE \/ NextTick \/ StartWork \/ ListenExit \/ ListenErrors
           \/ SignalExit \/ Terminated \/ UNCHANGED vars
  <2>1. stack' = stack
    BY <1>3 DEF NextTick, StartWork, ListenExit, ListenErrors, SignalExit,
        Terminated, vars
  <2>2. QED
    BY <2>1 DEF StackEffect
<1>4. CASE Loop \/ Tick \/ IoEvent
  BY <1>4 DEF StackEffect
<1>5. CASE \/ ExitListenersDone \/ IoReturns \/ UnhandledReturns
           \/ LastListenersReturn \/ RunReturns \/ FatalReturns
  <2>1. stack # <<>> /\ Replace(<<>>)
    BY <1>5 DEF ExitListenersDone, IoReturns, UnhandledReturns,
        LastListenersReturn, RunReturns, FatalReturns, Running
  <2>2. QED
    BY <1>2, <2>1 DEF StackEffect
<1>6. CASE CallbackReturns \/ ExitClosure
  <2>1. stack # <<>> /\ (Replace(<<>>) \/ stack' = stack)
    BY <1>6 DEF CallbackReturns, ExitClosure, CallbackEnded, Running,
        InExitClosure
  <2>2. QED
    BY <1>2, <2>1 DEF StackEffect
<1>7. CASE CallbackThrows \/ HandlerThrows \/ LastListenersThrow
  <2>1. stack # <<>> /\ Replace(<<"error">>)
    BY <1>7 DEF CallbackThrows, HandlerThrows, LastListenersThrow, Running
  <2>2. QED
    BY <1>1, <1>2, <2>1 DEF StackEffect
<1>8. CASE ScriptReturns \/ LoadFails
  <2>1. /\ stack # <<>>
        /\ \/ Replace(<<"finalEmit">>) \/ Replace(<<"failEmit">>)
           \/ Replace(<<>>)
    BY <1>8 DEF ScriptReturns, LoadFails, Running
  <2>2. QED
    BY <1>1, <1>2, <2>1 DEF StackEffect
<1>9. CASE ScriptThrows
  <2>1. stack # <<>> /\ Replace(<<"error", "failed">>)
    BY <1>9 DEF ScriptThrows
  <2>2. QED
    BY <1>1, <1>2, <2>1 DEF StackEffect
<1>10. ASSUME NEW code, NEW f \in Frames \ {"loop"}, ProcessExit(code, <<f>>),
             ~exitEmitted, stack # <<>>, Top # "loop"
      PROVE  StackEffect
  <2>1. exitEmitted' /\ (Replace(<<"exitEmit", f>>) \/ Replace(<<f>>))
    BY <1>1, <1>10, ConcatOnes DEF ProcessExit
  <2>2. /\ <<"exitEmit", f>> \in Seq(Frames \ {"loop"})
        /\ <<f>> \in Seq(Frames \ {"loop"})
    BY <1>1
  <2>3. QED
    BY <1>10, <2>1, <2>2 DEF StackEffect
<1>11. ASSUME NEW code \in Codes, Exit(code)
       PROVE  StackEffect
  <2>1. stack # <<>> /\ Top \in Frames \ {"loop"} /\ ~exitEmitted
    BY <1>11 DEF Exit, InUserCode, UserFrames, Frames
  <2>2. QED
    BY <1>10, <1>11, <2>1 DEF Exit
<1>12. CASE FatalError
  <2>1. stack # <<>> /\ Top # "loop"
    BY <1>12 DEF FatalError, Running
  <2>2. CASE Replace(<<>>) \/ Replace(<<"unhandled", "fatal">>)
    BY <1>1, <1>2, <2>1, <2>2 DEF StackEffect
  <2>3. CASE ~exitEmitted /\ ProcessExit(1, <<"fatal">>)
    BY <1>1, <1>10, <2>1, <2>3
  <2>4. QED
    BY <1>12, <2>2, <2>3 DEF FatalError
<1>13. QED
  BY <1>3, <1>4, <1>5, <1>6, <1>7, <1>8, <1>9, <1>11, <1>12
     DEF Next, Application, Leave, System
(* Only the return of io_service::run takes the loop off the stack, only     *)
(* Loop puts it there, and only the end of an emit of "exit" takes that off. *)
LEMMA LoopFrame ==
    ASSUME StackTypeOK, StackInv, [Next]_vars
    PROVE  /\ InLoop /\ ~InLoop' => RunReturns
           /\ ~InLoop /\ InLoop' => stack' # <<>> /\ Top' = "loop"
<1> USE DEF StackTypeOK
<1>1. (InLoop <=> Has(stack, "loop")) /\ (InLoop' <=> Has(stack', "loop"))
  BY DEF InLoop, Has
<1>2. StackEffect
  BY StackEffects
<1>3. Seq(Plain) \subseteq Seq(Frames) /\ Seq(Frames \ {"loop"}) \subseteq Seq(Frames)
  BY DEF Plain
<1>4. \A frames \in Seq(Frames \ {"loop"}) : ~Has(frames, "loop")
  BY DEF Has
<1>5. \A frames \in Seq(Plain) : frames \in Seq(Frames \ {"loop"})
  BY DEF Plain
<1>6. ASSUME stack # <<>>, NEW frames \in Seq(Frames \ {"loop"}), Replace(frames)
      PROVE  /\ InLoop' => InLoop
             /\ InLoop /\ ~InLoop' => Top = "loop"
  <2>1. frames \in Seq(Frames) /\ stack' = frames \o Tail(stack) /\ Top = stack[1]
    BY <1>3, <1>6 DEF Replace, Top
  <2>2. QED
    BY <1>1, <1>4, <1>6, <2>1, ReplacedHas
<1>7. ASSUME stack # <<>>, NEW f \in Frames, NEW g \in Frames,
             Replace(<<f, g>>)
      PROVE  /\ stack' # <<>> /\ Top' = f
             /\ f = "loop" \/ g = "loop" => InLoop'
  <2>1. Pushed(stack, f, g, stack')
    BY <1>7, ReplaceElements DEF Replace
  <2>2. stack' # <<>> /\ Top' = f
    BY <2>1 DEF Pushed, Top
  <2>3. f = "loop" \/ g = "loop" => Has(stack', "loop")
    <3>1. 1 \in 1..Len(stack') /\ 2 \in 1..Len(stack')
      BY <1>7, <2>1 DEF Pushed
    <3>2. stack'[1] = f /\ stack'[2] = g
      BY <2>1 DEF Pushed
    <3>3. QED
      BY <3>1, <3>2 DEF Has
  <2>4. QED
    BY <1>1, <2>2, <2>3
<1>8. {"loop", "script", "tick", "io"} \subseteq Frames
  BY DEF Frames
<1>9. CASE stack' = stack
  BY <1>9 DEF InLoop
<1>10. CASE Loop
  BY <1>7, <1>8, <1>10 DEF Loop, Running
<1>11. CASE Tick \/ IoEvent
  <2>1. Running("loop") /\ Has(stack, "loop")
    BY <1>11 DEF Tick, IoEvent, Running, Top, Has
  <2>2. \/ stack' = stack \/ Replace(<<"tick", "loop">>)
        \/ Replace(<<"io", "loop">>)
    BY <1>11 DEF Tick, IoEvent
  <2>3. InLoop'
    BY <1>7, <1>8, <1>9, <2>1, <2>2, <1>1 DEF Running
  <2>4. QED
    BY <1>1, <2>1, <2>3
<1>12. CASE stack # <<>> /\ \E frames \in Seq(Plain) : Replace(frames)
  <2>1. /\ InLoop' => InLoop
        /\ InLoop /\ ~InLoop' => Top = "loop"
    BY <1>5, <1>6, <1>12
  <2>2. Top = "loop" /\ stack' # stack =>
            RunReturns \/ Tick \/ IoEvent \/ stack' = stack
    <3> SUFFICES ASSUME Top = "loop", stack' # stack
                 PROVE  RunReturns \/ Tick \/ IoEvent
      OBVIOUS
    <3>1. ~UNCHANGED vars /\ ~UNCHANGED stack
      BY DEF vars
    <3>2. Top \notin UserFrames /\ ~InUserCode
      BY DEF UserFrames, InUserCode
    <3>3. /\ ~Application /\ ~SignalExit /\ ~Terminated /\ ~FatalError
          /\ ~FatalReturns /\ ~LoadFails
      BY <3>1, <3>2 DEF Application, NextTick, StartWork, ListenExit,
         ListenErrors, Exit, Loop, Running, SignalExit, Terminated,
         FatalError, FatalReturns, LoadFails
    <3>4. ~Leave
      BY DEF Leave, ExitListenersDone, CallbackReturns, CallbackThrows,
         ExitClosure, InExitClosure, IoReturns, HandlerThrows,
         UnhandledReturns, ScriptReturns, ScriptThrows, LastListenersReturn,
         LastListenersThrow, Running
    <3>5. QED
      BY <3>1, <3>3, <3>4 DEF Next, System
  <2>3. InLoop /\ stack' = stack => InLoop'
    BY DEF InLoop
  <2>4. QED
    BY <1>11, <2>1, <2>2, <2>3
<1>13. CASE /\ stack # <<>> /\ Top # "loop"
            /\ \E frames \in Seq(Frames \ {"loop"}) : Replace(frames)
  BY <1>6, <1>13
<1>14. QED
  BY <1>2, <1>9, <1>10, <1>11, <1>12, <1>13 DEF StackEffect

(* Only process:exit begins an emit of "exit" and only its end takes the     *)
(* listeners off the stack.                                                  *)
LEMMA EmitFrame ==
    ASSUME StackTypeOK, [Next]_vars
    PROVE  /\ ~Has(stack, "exitEmit") /\ Has(stack', "exitEmit")
                => ~exitEmitted /\ exitEmitted'
           /\ Has(stack, "exitEmit") /\ ~Has(stack', "exitEmit") /\ exitEmitted
                => ExitListenersDone
<1> USE DEF StackTypeOK
<1>1. StackEffect
  BY StackEffects
<1>2. CASE stack' = stack
  BY <1>2
<1>3. CASE stack # <<>> /\ \E frames \in Seq(Plain) : Replace(frames)
  <2>1. PICK frames \in Seq(Plain) : Replace(frames)
    BY <1>3
  <2>2. frames \in Seq(Frames) /\ ~Has(frames, "exitEmit")
    BY DEF Plain, Has
  <2>3. /\ Has(stack', "exitEmit") => Has(stack, "exitEmit")
        /\ Has(stack, "exitEmit") /\ ~Has(stack', "exitEmit") => Top = "exitEmit"
    <3>1. stack' = frames \o Tail(stack) /\ Top = stack[1]
      BY <1>3, <2>1 DEF Replace, Top
    <3>2. QED
      BY <1>3, <2>2, <3>1, ReplacedHas
  <2>4. Top = "exitEmit" /\ exitEmitted /\ stack' # stack => ExitListenersDone
    <3> SUFFICES ASSUME Top = "exitEmit", exitEmitted, stack' # stack
                 PROVE  ExitListenersDone
      OBVIOUS
    <3>1. ~UNCHANGED vars /\ ~UNCHANGED stack
      BY DEF vars
    <3>2. /\ ~Application /\ ~SignalExit /\ ~Terminated /\ ~System /\ ~IoEvent
      BY <3>1 DEF Application, NextTick, StartWork, ListenExit,
         ListenErrors, Exit, Loop, Running, SignalExit, Terminated, System,
         RunReturns, Tick, FatalError, FatalReturns, LoadFails, IoEvent
    <3>3. Leave => ExitListenersDone
      BY DEF Leave, CallbackReturns, CallbackThrows,
         ExitClosure, InExitClosure, IoReturns, HandlerThrows,
         UnhandledReturns, ScriptReturns, ScriptThrows, LastListenersReturn,
         LastListenersThrow, Running
    <3>4. QED
      BY <3>1, <3>2, <3>3 DEF Next
  <2>5. QED
    BY <2>3, <2>4
<1>4. CASE Loop \/ Tick \/ IoEvent
  <2>1. /\ stack # <<>> /\ Top # "exitEmit"
        /\ \/ stack' = stack
           \/ \E f, g \in {"loop", "script", "tick", "io"} : Replace(<<f, g>>)
    BY <1>4 DEF Loop, Tick, IoEvent, Running
  <2>2. \A f, g \in {"loop", "script", "tick", "io"} :
            <<f, g>> \in Seq(Frames) /\ ~Has(<<f, g>>, "exitEmit")
    BY DEF Frames, Has
  <2>3. CASE stack' = stack
    BY <2>3
  <2>4. ASSUME NEW f \in {"loop", "script", "tick", "io"},
               NEW g \in {"loop", "script", "tick", "io"}, Replace(<<f, g>>)
        PROVE  Has(stack', "exitEmit") <=> Has(stack, "exitEmit")
    <3> DEFINE frames == <<f, g>>
    <3>1. frames \in Seq(Frames) /\ ~Has(frames, "exitEmit")
      BY <2>2
    <3>2. stack' = frames \o Tail(stack) /\ stack[1] # "exitEmit"
      BY <2>1, <2>4 DEF Replace, Top
    <3> HIDE DEF frames
    <3>3. QED
      BY <2>1, <3>1, <3>2, ReplacedHas
  <2>5. QED
    BY <2>1, <2>3, <2>4
<1>5. CASE ~exitEmitted /\ exitEmitted'
  BY <1>5
<1>6. QED
  BY <1>1, <1>2, <1>3, <1>4, <1>5 DEF StackEffect

(* What a step does to the variables of process:exit: nothing but the        *)
(* closure's exit_code; or the listeners of "exit" are done and the closure  *)
(* is queued; or process:exit is called, once.                               *)
Called ==
    /\ ~exitEmitted /\ exitEmitted' /\ askedInLoop' = InLoop
    /\ stack # <<>> /\ Top # "loop"
    /\ stopped' = stopped /\ aborted' = aborted
    /\ Has(stack', "exitEmit") \/ (Enqueue /\ exitTick' = issued + 1)

ExitEffect ==
    \/ /\ UNCHANGED <<exitEmitted, exitTick, exitArg, askedInLoop>>
       /\ exit_code' = exit_code \/ ExitClosure
    \/ /\ ExitListenersDone /\ Enqueue /\ exitTick' = issued + 1
       /\ UNCHANGED <<exitEmitted, exitArg, askedInLoop, exit_code>>
    \/ Called

(* Every step does one of these to the variables of process:exit.            *)
LEMMA ExitEffects ==
    ASSUME StackTypeOK, [Next]_vars
    PROVE  ExitEffect
<1>1. CASE \/ NextTick \/ StartWork \/ ListenExit \/ ListenErrors \/ Loop
           \/ CallbackReturns \/ CallbackThrows \/ IoReturns \/ HandlerThrows
           \/ UnhandledReturns \/ LastListenersReturn \/ LastListenersThrow
           \/ RunReturns \/ Tick \/ IoEvent \/ FatalReturns \/ LoadFails
           \/ SignalExit \/ Terminated \/ UNCHANGED vars
  <2>1. UNCHANGED <<exitEmitted, exitTick, exitArg, askedInLoop, exit_code>>
    BY <1>1 DEF NextTick, StartWork, ListenExit, ListenErrors, Loop,
        CallbackReturns, CallbackThrows, IoReturns, HandlerThrows,
        UnhandledReturns, LastListenersReturn, LastListenersThrow, RunReturns,
        Tick, IoEvent, FatalReturns, LoadFails, SignalExit, Terminated, vars,
        exitVars, endVars
  <2>2. QED
    BY <2>1 DEF ExitEffect
<1>2. CASE ScriptReturns \/ ScriptThrows \/ ExitClosure
  BY <1>2 DEF ScriptReturns, ScriptThrows, ExitClosure, ExitEffect, exitVars
<1>3. CASE ExitListenersDone
  BY <1>3 DEF ExitListenersDone, QueueExit, ExitEffect, endVars
<1>4. ASSUME NEW code, NEW f \in Frames, ProcessExit(code, <<f>>),
             ~exitEmitted, stack # <<>>, Top # "loop",
             stopped' = stopped, aborted' = aborted
      PROVE  ExitEffect
  <2>1. exitEmitted' /\ askedInLoop' = InLoop
    BY <1>4 DEF ProcessExit
  <2>2. CASE exitListener
    <3>1. "exitEmit" \in Frames
      BY DEF Frames
    <3>2. Replace(<<"exitEmit", f>>)
      BY <1>4, <2>2, <3>1, ConcatOnes DEF ProcessExit
    <3>3. Pushed(stack, "exitEmit", f, stack')
      BY <1>4, <3>1, <3>2, ReplaceElements DEF StackTypeOK, Replace
    <3>4. 1 \in 1..Len(stack') /\ stack'[1] = "exitEmit"
      BY <1>4, <3>3 DEF Pushed, StackTypeOK
    <3>5. Has(stack', "exitEmit")
      BY <3>4 DEF Has
    <3>6. QED
      BY <1>4, <2>1, <3>5 DEF ExitEffect, Called
  <2>3. CASE ~exitListener
    BY <1>4, <2>1, <2>3 DEF ProcessExit, QueueExit, ExitEffect, Called
  <2>4. QED
    BY <2>2, <2>3
<1>5. ASSUME NEW code \in Codes, Exit(code)
      PROVE  ExitEffect
  <2>1. /\ stack # <<>> /\ Top \in Frames /\ Top # "loop" /\ ~exitEmitted
        /\ stopped' = stopped /\ aborted' = aborted
    BY <1>5 DEF Exit, InUserCode, UserFrames, Frames, ioVars, errVars
  <2>2. QED
    BY <1>4, <1>5, <2>1 DEF Exit
<1>6. CASE FatalError
  <2>1. stack # <<>> /\ Top # "loop" /\ "fatal" \in Frames
    BY <1>6 DEF FatalError, Running, Frames
  <2>2. CASE UNCHANGED exitVars
    BY <1>6, <2>2 DEF FatalError, ExitEffect, exitVars, endVars
  <2>3. CASE /\ ~exitEmitted /\ ProcessExit(1, <<"fatal">>)
             /\ UNCHANGED <<aborted, ioVars>>
    BY <1>4, <2>1, <2>3 DEF ioVars
  <2>4. QED
    BY <1>6, <2>2, <2>3 DEF FatalError
<1>7. QED
  BY <1>1, <1>2, <1>3, <1>5, <1>6 DEF Next, Application, Leave, System

(* What stops the io_service.                                                *)
LEMMA StopEffects ==
    ASSUME [Next]_vars, aborted \in BOOLEAN
    PROVE  /\ aborted => aborted'
           /\ \/ stopped' = stopped \/ aborted'
              \/ RunReturns \/ ExitClosure
<1>1. CASE \/ NextTick \/ ListenExit \/ ListenErrors \/ Loop \/ StartWork
           \/ CallbackReturns \/ CallbackThrows \/ IoReturns \/ HandlerThrows
           \/ UnhandledReturns \/ LastListenersReturn \/ LastListenersThrow
           \/ Tick \/ IoEvent \/ FatalReturns \/ LoadFails \/ ScriptReturns
           \/ ScriptThrows \/ ExitListenersDone \/ Terminated \/ UNCHANGED vars
           \/ \E code \in Codes : Exit(code)
  BY <1>1 DEF NextTick, StartWork, ListenExit, ListenErrors, Loop,
        CallbackReturns, CallbackThrows, IoReturns, HandlerThrows,
        UnhandledReturns, LastListenersReturn, LastListenersThrow,
        Tick, IoEvent, FatalReturns, LoadFails, ScriptReturns, ScriptThrows,
        ExitListenersDone, Exit, Terminated, vars, ioVars, errVars
<1>2. CASE RunReturns \/ ExitClosure \/ SignalExit
  BY <1>2 DEF RunReturns, ExitClosure, SignalExit, errVars
<1>3. CASE FatalError
  BY <1>3 DEF FatalError, ioVars
<1>4. QED
  BY <1>1, <1>2, <1>3 DEF Next, Application, Leave, System

(* The closure of process:exit stays in the queue, at or after the callback  *)
(* that runs, until it is called itself.                                     *)
LEMMA ClosureStays ==
    ASSUME QueueTypeOK, StackTypeOK, StackInv, [Next]_vars, ClosureWaits,
           exitTick' = exitTick, ~ExitClosure
    PROVE  ClosureWaits'
<1>1. PICK i \in 1..Len(queue) : i >= pos /\ queue[i] = exitTick
  BY DEF ClosureWaits
<1>2. QueueStep
  BY QueueEffects
<1>3. CASE UNCHANGED queueVars
  BY <1>1, <1>3 DEF ClosureWaits, queueVars
<1>4. CASE Enqueue
  <2>1. /\ queue' = Append(queue, issued + 1) /\ pos' = pos
        /\ issued + 1 \in Nat \ {0} /\ queue \in Seq(Nat \ {0})
    BY <1>4 DEF Enqueue, QueueTypeOK
  <2>2. i \in 1..Len(queue') /\ queue'[i] = queue[i]
    BY <2>1
  <2>3. QED
    BY <1>1, <2>1, <2>2 DEF ClosureWaits
<1>5. CASE TickEffect
  <2>1. queue' = queue /\ (pos' = pos \/ pos' = 1)
    BY <1>5 DEF TickEffect
  <2>2. QED
    BY <1>1, <2>1 DEF ClosureWaits
<1>6. CASE AdvanceEffect \/ DropEffect
  <2>1. pos > 0 /\ pos <= Len(queue) /\ pos \in Nat /\ queue \in Seq(Nat \ {0})
    BY <1>6 DEF QueueTypeOK, AdvanceEffect, DropEffect
  <2>2. pos' # pos
    BY <1>6, <2>1 DEF AdvanceEffect, DropEffect
  <2>3. CallbackReturns \/ CallbackThrows \/ Tick
    <3>1. ~UNCHANGED pos /\ ~UNCHANGED queueVars /\ ~UNCHANGED vars
      BY <2>2 DEF queueVars, vars
    <3>2. ~\E code, frames : ProcessExit(code, frames)
      BY <3>1 DEF ProcessExit, QueueExit, Enqueue
    <3>3. ~Application /\ ~IoEvent /\ ~SignalExit /\ ~Terminated
      BY <3>1, <3>2 DEF Application, NextTick, Enqueue, StartWork, ListenExit,
         ListenErrors, Exit, Loop, IoEvent, SignalExit, Terminated
    <3>4. System => Tick
      BY <3>1, <3>2 DEF System, RunReturns, FatalError, FatalReturns, LoadFails
    <3>5. Leave => CallbackReturns \/ CallbackThrows
      BY <3>1 DEF Leave, ExitListenersDone, QueueExit, Enqueue, IoReturns,
         HandlerThrows, UnhandledReturns, ScriptReturns, ScriptThrows,
         LastListenersReturn, LastListenersThrow
    <3>6. QED
      BY <3>1, <3>3, <3>4, <3>5 DEF Next
  <2>4. CASE CallbackReturns \/ CallbackThrows
    <3>1. Running("tick") /\ ~InExitClosure
      BY <2>4 DEF CallbackReturns, CallbackThrows
    <3>2. queue[pos] # exitTick
      BY <2>1, <3>1 DEF InExitClosure
    <3>3. i > pos
      BY <1>1, <2>1, <3>2
    <3>4. CASE AdvanceEffect
      BY <1>1, <2>1, <3>3, <3>4 DEF AdvanceEffect, ClosureWaits
    <3>5. CASE DropEffect
      <4>1. queue' = From(queue, pos) /\ pos' = 0
        BY <3>5 DEF DropEffect, splice, From
      <4>2. /\ Len(queue') = Len(queue) - pos
            /\ \A k \in 1..(Len(queue) - pos) : queue'[k] = queue[pos + k]
        <5>1. pos \in 0..Len(queue)
          BY <2>1
        <5>2. QED
          BY <2>1, <4>1, <5>1, FromProps
      <4> DEFINE k == i - pos
      <4>3. k \in 1..(Len(queue) - pos) /\ pos + k = i /\ k >= 0
        <5>1. /\ i \in Nat /\ pos \in Nat /\ Len(queue) \in Nat
              /\ i <= Len(queue) /\ i > pos
          BY <1>1, <2>1, <3>3
        <5>2. QED
          BY <5>1
      <4> HIDE DEF k
      <4>4. QED
        BY <1>1, <4>1, <4>2, <4>3 DEF ClosureWaits
    <3>6. QED
      BY <1>6, <3>4, <3>5
  <2>5. CASE Tick
    <3>1. ~Has(stack, "tick")
      BY <2>5 DEF Tick, StackTypeOK, StackInv, Shape, LoopLow, TickHigh, Has,
         Running, Top
    <3>2. QED
      BY <2>1, <3>1 DEF StackInv, InTick
  <2>6. QED
    BY <2>3, <2>4, <2>5
<1>7. QED
  BY <1>2, <1>3, <1>4, <1>5, <1>6 DEF QueueStep

(* Handing the closure to nextTick puts it there.                            *)
LEMMA ClosureQueued ==
    ASSUME QueueTypeOK, Enqueue, exitTick' = issued + 1
    PROVE  ClosureWaits'
<1>1. /\ queue' = Append(queue, issued + 1) /\ pos' = pos
      /\ issued + 1 \in Nat \ {0} /\ queue \in Seq(Nat \ {0})
      /\ pos \in Nat /\ pos <= Len(queue)
  BY DEF Enqueue, QueueTypeOK
<1>2. /\ Len(queue) + 1 \in 1..Len(queue')
      /\ queue'[Len(queue) + 1] = issued + 1 /\ Len(queue) + 1 >= pos'
  BY <1>1
<1>3. QED
  BY <1>2 DEF ClosureWaits

(* Every step keeps ExitInv.                                                 *)
LEMMA ExitStep ==
    ASSUME IInv, ExitInv, [Next]_vars
    PROVE  ExitInv'
<1>1. /\ QueueTypeOK /\ StackTypeOK /\ StackInv /\ aborted \in BOOLEAN
      /\ Len(Waiting) <= ticks
  BY DEF IInv, TypeOK, QueueTypeOK, StackTypeOK, EveryCallbackHasATick
<1>2. ExitEffect /\ (aborted => aborted')
      /\ (stopped' = stopped \/ aborted' \/ RunReturns \/ ExitClosure)
  BY <1>1, ExitEffects, StopEffects
<1>3. /\ InLoop /\ ~InLoop' => RunReturns
      /\ ~InLoop /\ InLoop' => stack' # <<>> /\ Top' = "loop"
      /\ ~Has(stack, "exitEmit") /\ Has(stack', "exitEmit")
            => ~exitEmitted /\ exitEmitted'
      /\ Has(stack, "exitEmit") /\ ~Has(stack', "exitEmit") /\ exitEmitted
            => ExitListenersDone
  BY <1>1, LoopFrame, EmitFrame
<1>4. RunReturns => ~InLoop'
  <2> SUFFICES ASSUME RunReturns PROVE ~InLoop'
    OBVIOUS
  <2>1. Popped(stack, stack') /\ stack[1] = "loop" /\ stack # <<>>
    BY <1>1, ReplaceElements DEF RunReturns, Running, StackTypeOK, Replace, Top
  <2>2. \A i \in 2..Len(stack) : stack[i] # "loop"
    BY <1>1, <2>1 DEF StackTypeOK, StackInv, Shape, LoopLow
  <2>3. \A i \in 1..Len(stack') : i + 1 \in 2..Len(stack)
    BY <1>1, <2>1 DEF Popped, StackTypeOK
  <2>4. QED
    BY <2>1, <2>2, <2>3 DEF InLoop, Popped
<1>5. ExitClosure => exitEmitted /\ exit_code' = exitArg
  <2>1. ExitClosure => pos > 0 /\ queue[pos] = exitTick /\ exit_code' = exitArg
    BY DEF ExitClosure, InExitClosure
  <2>2. pos > 0 => queue[pos] # 0
    BY <1>1 DEF QueueTypeOK
  <2>3. QED
    BY <2>1, <2>2 DEF ExitInv, NotAsked
<1>6. NotAsked'
  <2> SUFFICES ASSUME ~exitEmitted'
               PROVE  exitTick' = 0 /\ ~askedInLoop' /\ ~Has(stack', "exitEmit")
    BY DEF NotAsked
  <2>1. ~Called /\ ~exitEmitted /\ ~Has(stack, "exitEmit")
    BY <1>2 DEF Called, ExitEffect, ExitInv, NotAsked
  <2>2. ~ExitListenersDone
    BY <1>1, <2>1 DEF ExitListenersDone, Running, Top, Has, StackTypeOK
  <2>3. UNCHANGED <<exitTick, askedInLoop>>
    BY <1>2, <2>1, <2>2 DEF ExitEffect
  <2>4. QED
    BY <1>3, <2>1, <2>3 DEF ExitInv, NotAsked
<1>7. StoppedEarly'
  <2> SUFFICES ASSUME stopped', InLoop', ~aborted', ~exitEmitted'
               PROVE  stack' # <<>> /\ Top' = "loop"
    BY DEF StoppedEarly
  <2>1. CASE ~InLoop
    BY <1>3, <2>1
  <2>2. CASE InLoop
    <3>1. ~RunReturns /\ ~ExitClosure /\ ~exitEmitted /\ ~aborted
      <4>1. ~exitEmitted
        BY <1>2 DEF ExitEffect, Called
      <4>2. ~RunReturns /\ ~ExitClosure
        BY <1>4, <1>5, <4>1
      <4>3. QED
        BY <1>2, <4>1, <4>2
    <3>2. stopped /\ stack # <<>> /\ Top = "loop"
      BY <1>2, <2>2, <3>1 DEF ExitInv, StoppedEarly
    <3>3. ~Tick /\ ~IoEvent /\ ~Loop
      BY <3>2 DEF Tick, IoEvent, Loop, Running
    <3>4. stack' = stack
      <4>1. Top \notin UserFrames
        BY <3>2 DEF UserFrames
      <4>2. Application => FALSE
        BY <3>2, <3>3, <4>1 DEF Application, NextTick, StartWork, ListenExit,
           ListenErrors, Exit, InUserCode
      <4>3. Leave => FALSE
        BY <3>2 DEF Leave, ExitListenersDone, CallbackReturns, CallbackThrows,
           ExitClosure, InExitClosure, IoReturns, HandlerThrows,
           UnhandledReturns, ScriptReturns, ScriptThrows, LastListenersReturn,
           LastListenersThrow, Running
      <4>4. System => FALSE
        BY <3>1, <3>2, <3>3 DEF System, FatalError, FatalReturns, LoadFails,
           Running
      <4>5. SignalExit \/ Terminated \/ UNCHANGED vars
        BY <3>3, <4>2, <4>3, <4>4 DEF Next
      <4>6. QED
        BY <4>5 DEF SignalExit, Terminated, vars
    <3>5. QED
      BY <3>2, <3>4 DEF Top
  <2>3. QED
    BY <2>1, <2>2
<1>8. ClosureComes'
  <2> SUFFICES ASSUME askedInLoop', ~aborted'
               PROVE  \/ exit_code' = exitArg'
                      \/ /\ InLoop' /\ ~stopped'
                         /\ Has(stack', "exitEmit") \/ ClosureWaits'
    BY DEF ClosureComes
  <2>1. CASE Called
    <3>1. InLoop /\ stack # <<>> /\ Top # "loop" /\ ~exitEmitted /\ ~aborted
      BY <1>2, <2>1 DEF Called
    <3>2. ~stopped /\ ~stopped'
      BY <2>1, <3>1 DEF Called, ExitInv, StoppedEarly
    <3>3. InLoop'
      BY <1>3, <3>1 DEF RunReturns, Running
    <3>4. Has(stack', "exitEmit") \/ ClosureWaits'
      BY <1>1, <2>1, ClosureQueued DEF Called
    <3>5. QED
      BY <3>2, <3>3, <3>4
  <2>2. CASE ~Called
    <3>1. /\ askedInLoop /\ exitEmitted /\ ~aborted /\ exitArg' = exitArg
          /\ exit_code' = exit_code \/ ExitClosure
      BY <1>2, <2>2 DEF ExitEffect, ExitInv, NotAsked
    <3>2. CASE exit_code = exitArg \/ ExitClosure
      BY <1>5, <3>1, <3>2
    <3>3. CASE exit_code # exitArg /\ ~ExitClosure
      <4>1. InLoop /\ ~stopped /\ (Has(stack, "exitEmit") \/ ClosureWaits)
        BY <3>1, <3>3 DEF ExitInv, ClosureComes
      <4>2. ~RunReturns
        <5> SUFFICES ASSUME RunReturns PROVE FALSE
          OBVIOUS
        <5>1. Running("loop") /\ ticks = 0
          BY <4>1 DEF RunReturns
        <5>2. ~Has(stack, "tick") /\ ~Has(stack, "exitEmit")
          <6>1. /\ stack \in Seq(Frames) /\ stack # <<>> /\ stack[1] = "loop"
            BY <1>1, <5>1 DEF StackTypeOK, Running, Top
          <6>2. Len(stack) = 2 /\ stack[2] = "script"
            <7>1. 1 \in 1..Len(stack) /\ LoopLow(stack)
              BY <1>1, <6>1 DEF StackInv, Shape
            <7>2. Len(stack) = 1 + 1 /\ stack[1 + 1] = "script"
              BY <6>1, <7>1 DEF LoopLow
            <7>3. QED
              BY <7>2
          <6>3. QED
            BY <6>1, <6>2 DEF Has
        <5>3. pos = 0 /\ queue \in Seq(Nat \ {0})
          BY <1>1, <5>2 DEF StackInv, InTick, StackTypeOK, QueueTypeOK
        <5>4. Len(Waiting) = Len(queue)
          BY <5>3, FromZero, WaitingIs
        <5>5. Len(queue) = 0
          BY <1>1, <5>1, <5>3, <5>4
        <5>6. QED
          BY <4>1, <5>2, <5>5 DEF ClosureWaits
      <4>3. InLoop' /\ ~stopped'
        BY <1>2, <1>3, <3>3, <4>1, <4>2
      <4>4. CASE ExitListenersDone
        <5>1. Enqueue /\ exitTick' = issued + 1
          BY <4>4 DEF ExitListenersDone, QueueExit
        <5>2. QED
          BY <1>1, <4>3, <5>1, ClosureQueued
      <4>5. CASE ~ExitListenersDone
        <5>1. exitTick' = exitTick
          BY <1>2, <2>2, <4>5 DEF ExitEffect
        <5>2. ClosureWaits => ClosureWaits'
          BY <1>1, <3>3, <5>1, ClosureStays
        <5>3. Has(stack, "exitEmit") => Has(stack', "exitEmit")
          BY <1>3, <3>1, <4>5
        <5>4. QED
          BY <4>1, <4>3, <5>2, <5>3
      <4>6. QED
        BY <4>4, <4>5
    <3>4. QED
      BY <3>2, <3>3
  <2>3. QED
    BY <2>1, <2>2
<1>9. QED
  BY <1>6, <1>7, <1>8 DEF ExitInv

(* process:exit called while loop() runs sets the code loop() returns,       *)
(* whatever is called, thrown or left running afterwards: nothing else can   *)
(* stop the io_service before the closure is called, and nothing else sets   *)
(* exit_code.  The process ends with that code when it is not 0, and with    *)
(* the result of the script (1 if it throws) when it is.                     *)
THEOREM ExitDecides == Spec => []ExitCodeHonoured
<1>1. Init => ExitInv
  <2> SUFFICES ASSUME Init PROVE ExitInv
    OBVIOUS
  <2>1. stack = <<"script">> /\ Len(stack) = 1 /\ stack[1] = "script"
    BY DEF Init
  <2>2. ~Has(stack, "exitEmit")
    BY <2>1 DEF Has
  <2>3. QED
    BY <2>2 DEF Init, ExitInv, NotAsked, StoppedEarly, ClosureComes
<1>2. IInv /\ ExitInv /\ [Next]_vars => ExitInv'
  BY ExitStep
<1>3. ExitInv => ExitCodeHonoured
  BY DEF ExitInv, ClosureComes, ExitCodeHonoured, ExitStatus
<1>4. QED
  BY Invariance, <1>1, <1>2, <1>3, PTL DEF Spec

------------------------------------------------------------------------------
(* EventLoop implements TickQueue.                                          *)

(* Every change of the queue is a step of TickQueue, or leaves it alone.    *)
LEMMA QueueRefines ==
    ASSUME QueueTypeOK, QueueStep
    PROVE  [AbstractQueue!Next]_(AbstractQueue!vars)
<1>1. /\ queue \in Seq(Nat \ {0}) /\ pos \in 0..Len(queue)
      /\ Waiting = From(queue, pos) /\ Waiting' = From(queue', pos')
  BY DEF QueueTypeOK, Waiting, From
<1>2. CASE UNCHANGED queueVars
  BY <1>2 DEF queueVars, AbstractQueue!vars, Waiting, Current
<1>3. CASE Enqueue
  <2>1. issued + 1 \in Nat \ {0}
    BY DEF QueueTypeOK
  <2>2. Waiting' = Append(Waiting, issued + 1)
    BY <1>1, <1>3, <2>1, FromAppend DEF Enqueue
  <2>3. Current' = Current
    BY <1>1, <1>3, <2>1 DEF Enqueue, Current
  <2>4. QED
    BY <1>3, <2>2, <2>3 DEF Enqueue, AbstractQueue!Next, AbstractQueue!Submit
<1>4. CASE TickEffect
  <2>1. CASE queue = <<>>
    BY <1>4, <2>1 DEF TickEffect, AbstractQueue!vars, Waiting, Current
  <2>2. CASE queue # <<>>
    <3>1. 0 \in 0..(Len(queue) - 1) /\ pos = 0
      BY <1>1, <1>4, <2>2 DEF TickEffect
    <3>2. /\ From(queue, 0) # <<>> /\ Head(From(queue, 0)) = queue[1]
          /\ Tail(From(queue, 0)) = From(queue, 1)
      BY <1>1, <3>1, FromTail
    <3>3. QED
      BY <1>1, <1>4, <2>2, <3>1, <3>2
         DEF TickEffect, Current, AbstractQueue!Next, AbstractQueue!Start
  <2>3. QED
    BY <2>1, <2>2
<1>5. CASE AdvanceEffect
  <2>1. pos \in 0..(Len(queue) - 1)
    BY <1>5 DEF QueueTypeOK, AdvanceEffect
  <2>2. /\ From(queue, pos) # <<>> /\ Head(From(queue, pos)) = queue[pos + 1]
        /\ Tail(From(queue, pos)) = From(queue, pos + 1)
    BY <1>1, <2>1, FromTail
  <2>3. Current' = queue[pos + 1]
    BY <1>1, <1>5 DEF AdvanceEffect, Current
  <2>4. QED
    BY <1>1, <1>5, <2>2, <2>3
       DEF AdvanceEffect, AbstractQueue!Next, AbstractQueue!Start
<1>6. CASE DropEffect
  <2>1. queue' = From(queue, pos) /\ pos' = 0
    BY <1>6 DEF DropEffect, splice, From
  <2>2. queue' \in Seq(Nat \ {0})
    BY <1>1, <2>1, FromProps
  <2>3. Waiting' = Waiting
    BY <1>1, <2>1, <2>2, FromZero
  <2>4. Current # 0 /\ Current' = 0
    BY <1>1, <1>6 DEF DropEffect, Current
  <2>5. QED
    BY <1>6, <2>3, <2>4
       DEF DropEffect, AbstractQueue!Next, AbstractQueue!Finish
<1>7. QED
  BY <1>2, <1>3, <1>4, <1>5, <1>6 DEF QueueStep

(* nextTick and _tickcallback implement the abstract queue: callbacks start *)
(* in the order of the nextTick calls and once each.                        *)
THEOREM ImplementsTickQueue == Spec => RunsInOrder
<1>1. Init => AbstractQueue!Init
  BY DEF Init, AbstractQueue!Init, Waiting, Current
<1>2. IInv /\ [Next]_vars => [AbstractQueue!Next]_(AbstractQueue!vars)
  <2> SUFFICES ASSUME IInv, [Next]_vars
               PROVE  [AbstractQueue!Next]_(AbstractQueue!vars)
    OBVIOUS
  <2>1. QueueTypeOK /\ StackTypeOK /\ StackInv
    BY DEF IInv, TypeOK, QueueTypeOK, StackTypeOK
  <2>2. QED
    BY <2>1, QueueEffects, QueueRefines
<1>3. QED
  BY Invariance, <1>1, <1>2, PTL DEF Spec, RunsInOrder, AbstractQueue!Spec
==============================================================================
