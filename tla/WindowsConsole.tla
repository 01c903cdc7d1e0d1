--------------------------- MODULE WindowsConsole ---------------------------
(* What the commands of OutputTtyStream (src/detail/windows/output_tty.cpp)  *)
(* do to a console screen buffer.  A screen scr has                          *)
(*   w, h, rows   the size of the buffer and the height of the window        *)
(*   x, y, pen    the cursor and the text attributes                         *)
(*   cells        the characters, row after row                              *)
(*   offset       uv_tty_virtual_offset, the first row of the virtual window *)
(* and saved has what ESC 7 and CSI s keep in m_tty_context.                 *)
EXTENDS AnsiParser, SequencesExt

CONSTANT Wide   \* 0xffff, the width clear pretends the console to have

Space == " "
Blank(w, h) == [i \in 0 .. w * h - 1 |-> Space]
WhitePen == [fg |-> 7, fgBright |-> 0, bg |-> 0, bgBright |-> 0]

NewScreen(size) ==
    [w |-> size.w, h |-> size.h, rows |-> size.rows, x |-> 0, y |-> 0,
     pen |-> WhitePen, cells |-> Blank(size.w, size.h), offset |-> -1]

------------------------------------------------------------------------------
(* The console's own part: text moves the cursor, wraps and scrolls; the     *)
(* user gives buffer and window another size, and the cursor stays inside.   *)
LineFeed(scr) ==
    IF scr.y < scr.h - 1 THEN [scr EXCEPT !.y = @ + 1]
    ELSE [scr EXCEPT !.cells = [i \in DOMAIN @ |->
              IF i + scr.w \in DOMAIN @ THEN @[i + scr.w] ELSE Space]]

PutChar(scr, c) ==
    CASE c = "CR" -> [scr EXCEPT !.x = 0]
      [] c = "LF" -> LineFeed(scr)
      [] OTHER ->
           LET drawn == [scr EXCEPT !.cells[scr.y * scr.w + scr.x] = c, !.x = @ + 1]
           IN  IF drawn.x < scr.w THEN drawn ELSE LineFeed([drawn EXCEPT !.x = 0])

(* TheOne has TLC evaluate the screen between two steps of a fold.           *)
TheOne(S) == CHOOSE x \in S : TRUE
WriteText(scr, text) ==
    LET put(acc, c) == TheOne({PutChar(s, c) : s \in {acc}}) IN FoldLeft(put, scr, text)

Resized(scr, size) ==
    LET least(a, b) == IF a < b THEN a ELSE b
        old(i) == LET r == i \div size.w   c == i % size.w
                  IN  IF r < scr.h /\ c < scr.w THEN scr.cells[r * scr.w + c] ELSE Space
    IN  [scr EXCEPT !.w = size.w, !.h = size.h, !.rows = size.rows,
                    !.x = least(@, size.w - 1), !.y = least(@, size.h - 1),
                    !.cells = [i \in 0 .. size.w * size.h - 1 |-> old(i)]]

------------------------------------------------------------------------------
(* uv_tty_update_virtual_window: the window appears where the cursor first   *)
(* is and follows it down.                                                   *)
UpdateVirtualWindow(scr) ==
    LET lowest == scr.y - scr.rows + 1
        moved == IF scr.offset = -1 THEN scr.y
                 ELSE IF scr.offset < lowest THEN lowest ELSE scr.offset
        fits == IF moved + scr.rows > scr.h THEN scr.h - scr.rows ELSE moved
    IN  [scr EXCEPT !.offset = IF fits < 0 THEN 0 ELSE fits]

Rel(n) == [by |-> n, relative |-> TRUE]
At(n)  == [by |-> n, relative |-> FALSE]

Clip(n, lo, hi) == IF n < lo THEN lo ELSE IF n > hi THEN hi ELSE n

(* uv_tty_make_real_coord, of a screen whose virtual window is up to date.   *)
RealCoord(scr, cx, cy) ==
    [x |-> Clip(cx.by + (IF cx.relative THEN scr.x ELSE 0), 0, scr.w - 1),
     y |-> Clip(cy.by + (IF cy.relative THEN scr.y ELSE scr.offset),
                scr.offset, scr.offset + scr.rows - 1)]

PutCaret(scr, x, y) == [scr EXCEPT !.x = x, !.y = y]
MoveCaret(scr, cx, cy) ==
    LET now == UpdateVirtualWindow(scr)
        pos == RealCoord(now, cx, cy)
    IN  PutCaret(now, pos.x, pos.y)

(* uv_tty_clear: the cells that direction dir erases, on the cursor's row or *)
(* on the whole virtual window.                                              *)
ClearedCells(scr, dir, entire) ==
    LET from == IF dir = 0 THEN Rel(0) ELSE At(0)
        upto == IF dir = 1 THEN Rel(0) ELSE At(Wide)
        start == RealCoord(scr, from, IF entire THEN from ELSE Rel(0))
        end   == RealCoord(scr, upto, IF entire THEN upto ELSE Rel(0))
    IN  start.y * scr.w + start.x .. end.y * scr.w + end.x

Clear(scr, dir, entire) ==
    LET now == UpdateVirtualWindow(scr)
    IN  [now EXCEPT !.cells =
             [i \in DOMAIN @ |-> IF i \in ClearedCells(now, dir, entire) THEN Space ELSE @[i]]]

(* tty_SetStyle: what one argument of CSI m does to the pen.                 *)
Styled(pen, arg) ==
    CASE arg = 0  -> WhitePen
      [] arg = 1  -> [pen EXCEPT !.fgBright = 1]
      [] arg = 2  -> [pen EXCEPT !.fgBright = 0, !.bgBright = 0]
      [] arg = 5  -> [pen EXCEPT !.bgBright = 1]
      [] arg \in {21, 22}   -> [pen EXCEPT !.fgBright = 0]
      [] arg = 25           -> [pen EXCEPT !.bgBright = 0]
      [] arg \in 30 .. 37   -> [pen EXCEPT !.fg = arg - 30]
      [] arg = 39           -> [pen EXCEPT !.fg = 7, !.fgBright = 0]
      [] arg \in 40 .. 47   -> [pen EXCEPT !.bg = arg - 40]
      [] arg = 49           -> [pen EXCEPT !.bg = 0]
      [] arg \in 90 .. 97   -> [pen EXCEPT !.fg = arg - 90, !.fgBright = 1]
      [] arg \in 100 .. 107 -> [pen EXCEPT !.bg = arg - 100, !.bgBright = 1]
      [] OTHER -> pen

SetStyle(scr, args) ==
    [scr EXCEPT !.pen = IF args = <<>> THEN WhitePen ELSE FoldLeft(Styled, @, args)]

(* uv_tty_save_state and uv_tty_restore_state.                               *)
NothingSaved == [position |-> FALSE, x |-> 0, y |-> 0,
                 attributes |-> FALSE, fgBright |-> 0, bgBright |-> 0]

(* m_tty_context.flags is never initialised: a restore before the first save *)
(* may find a saved state that nobody saved.                                 *)
Garbage == [NothingSaved EXCEPT !.position = TRUE, !.x = 1, !.y = 1,
                                !.attributes = TRUE, !.fgBright = 1]

SaveState(scr, saved, attributes) ==
    LET there == [saved EXCEPT !.position = TRUE, !.x = scr.x, !.y = scr.y - scr.offset]
    IN  IF attributes
        THEN [there EXCEPT !.attributes = TRUE, !.fgBright = scr.pen.fgBright,
                           !.bgBright = scr.pen.bgBright]
        ELSE there

RestorePosition(scr, saved) ==
    IF saved.position THEN MoveCaret(scr, At(saved.x), At(saved.y)) ELSE scr

RestoreAttributes(scr, saved) ==
    IF saved.attributes
    THEN [scr EXCEPT !.pen.fgBright = saved.fgBright, !.pen.bgBright = saved.bgBright]
    ELSE scr

RestoreState(scr, saved, attributes) ==
    LET there == RestorePosition(scr, saved)
    IN  IF attributes THEN RestoreAttributes(there, saved) ELSE there

(* tty_Reset, in its four parts; char_attrs is red and green.                *)
ResetPen(scr) == [scr EXCEPT !.pen = [WhitePen EXCEPT !.fg = 3]]
HomeCaret(scr) == PutCaret(scr, 0, 0)
Wiped(scr) == [HomeCaret(ResetPen(scr)) EXCEPT !.cells = Blank(scr.w, scr.h)]
ResetKeepsWindow(scr) == UpdateVirtualWindow(Wiped(scr))   \* a mutant of Reset
Reset(scr) == UpdateVirtualWindow([Wiped(scr) EXCEPT !.offset = 0])

------------------------------------------------------------------------------
(* The command bytes: where they move the caret, and what they erase.        *)
Arg(args, default) == IF args = <<>> THEN default ELSE args[1]
FromOne(args, i) == IF Len(args) >= i /\ args[i] # 0 THEN args[i] - 1 ELSE 0

Caret(c, args) ==
    LET n == Arg(args, 1)
    IN  CASE c = "A" -> [x |-> Rel(0),  y |-> Rel(-n)]
          [] c = "B" -> [x |-> Rel(0),  y |-> Rel(n)]
          [] c = "C" -> [x |-> Rel(n),  y |-> Rel(0)]
          [] c = "D" -> [x |-> Rel(-n), y |-> Rel(0)]
          [] c = "E" -> [x |-> At(0),   y |-> Rel(n)]
          [] c = "F" -> [x |-> At(0),   y |-> Rel(-n)]
          [] c = "G" -> [x |-> At(FromOne(args, 1)), y |-> Rel(0)]
          [] c \in {"H", "f"} -> [x |-> At(FromOne(args, 2)), y |-> At(FromOne(args, 1))]

(* The screen and the saved state after command c.                           *)
Run(scr, saved, c, args) ==
    LET shows(s) == [screen |-> s, saved |-> saved]
        keeps(attributes) == LET now == UpdateVirtualWindow(scr)
                             IN  [screen |-> now, saved |-> SaveState(now, saved, attributes)]
    IN  CASE c \in Moves -> LET to == Caret(c, args) IN shows(MoveCaret(scr, to.x, to.y))
          [] c \in Erases /\ Arg(args, 0) \in 0 .. 2 -> shows(Clear(scr, Arg(args, 0), c = "J"))
          [] c = "m"    -> shows(SetStyle(scr, args))
          [] c = "s"    -> keeps(FALSE)
          [] c = "u"    -> shows(RestoreState(scr, saved, FALSE))
          [] c = "ESC7" -> keeps(TRUE)
          [] c = "ESC8" -> shows(RestoreState(scr, saved, TRUE))
          [] c = "ESCc" -> shows(Reset(scr))
          [] OTHER      -> shows(scr)

(* An effect of stream s's parser on d, the screen and what each stream has  *)
(* saved; then several of them.                                              *)
Show(d, s, effect) ==
    CASE effect.does = "text" -> [d EXCEPT !.screen = WriteText(@, effect.text)]
      [] OTHER -> LET r == Run(d.screen, d.saved[s], effect.does, effect.args)
                  IN  [d EXCEPT !.screen = r.screen, !.saved[s] = r.saved]

ShowAll(d, s, effects) ==
    LET show(acc, effect) == TheOne({Show(x, s, effect) : x \in {acc}}) IN FoldLeft(show, d, effects)
==============================================================================
