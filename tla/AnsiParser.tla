----------------------------- MODULE AnsiParser -----------------------------
(* The character side of OutputTtyStream::ProcessMessage                     *)
(* (src/detail/windows/output_tty.cpp): UTF-8 to code points, code points to *)
(* text and console commands.  A parser p has the fields of m_tty_context    *)
(* that ProcessMessage keeps from one write to the next:                     *)
(*   left, lead   utf8_bytes_left, and the start byte behind utf8_codepoint  *)
(*   state        ansi_parser_state, a set of its flag bits                  *)
(*   args         ansi_csi_argv[0 .. ansi_csi_argc - 1]                      *)
(*   eol          previous_eol                                               *)
(* Bytes are named: an ASCII byte by its character, "L2" (0xC2) and "L4" to  *)
(* "L7" start sequences of two and of four to seven bytes, "9B" and "A0" are *)
(* continuation bytes, "FF" is no UTF-8 byte at all.                         *)
EXTENDS Integers, Sequences

CONSTANTS MaxArgs,     \* ARRAY_SIZE(ansi_csi_argv)
          UShortMax    \* the largest unsigned short, the type of an argument

ASSUME ParserAssumption == MaxArgs \in Nat \ {0} /\ UShortMax \in Nat /\ UShortMax >= 9

Digit == [d \in {"0","1","2","3","4","5","6","7","8","9"} |->
            CASE d = "0" -> 0 [] d = "1" -> 1 [] d = "2" -> 2 [] d = "3" -> 3
              [] d = "4" -> 4 [] d = "5" -> 5 [] d = "6" -> 6 [] d = "7" -> 7
              [] d = "8" -> 8 [] d = "9" -> 9]
Digits == DOMAIN Digit

(* ASCII characters from '@' to '_', and from '@' to '~', that the instances *)
(* use.                                                                      *)
Upper == {"A", "B", "C", "D", "E", "F", "G", "H", "J", "K", "P",
          "[", "\\", "]", "^", "_"}
Final == Upper \cup {"c", "f", "m", "s", "u", "x"}
Continuations == {"9B", "A0"}
Leads == {"L2", "L4", "L5", "L6", "L7"}
Eols == {"CR", "LF"}
StateFlags == {"ESCAPE_SEEN", "CSI", "ST_CONTROL", "IGNORE", "IN_ARG",
               "IN_STRING", "BACKSLASH_SEEN"}
Normal == {}

NewParser == [left |-> 0, lead |-> "none", state |-> Normal, args |-> <<>>,
              eol |-> "none"]

------------------------------------------------------------------------------
(* The UTF-8 decoder: [left, lead, points], points being the code points     *)
(* that byte b completes.  "CSI1" is U+009B, "FFFD" the replacement          *)
(* character, "wide" any other character that is not ASCII.                  *)
Needed(lead) == CASE lead = "L2" -> 1 [] lead = "L4" -> 3 [] lead = "L5" -> 4
                  [] lead = "L6" -> 5 [] lead = "L7" -> 6

StartByte(b) ==
    LET needs(n) == [left |-> n, lead |-> b, points |-> <<>>]
        point(c) == [left |-> 0, lead |-> "none", points |-> <<c>>]
    IN  CASE b \in Leads -> needs(Needed(b))
          [] b \in Continuations \cup {"FF"} -> point("FFFD")
          [] OTHER -> point(b)

Completed(lead, b) == IF lead # "L2" THEN "astral"
                      ELSE IF b = "9B" THEN "CSI1" ELSE "wide"

(* A start byte where a continuation was expected counts for the broken      *)
(* sequence and is then read again (j--).                                    *)
Decode(p, b) ==
    IF p.left = 0 THEN StartByte(b)
    ELSE IF b \in Continuations
    THEN IF p.left = 1 THEN [left |-> 0, lead |-> "none",
                             points |-> <<Completed(p.lead, b)>>]
                       ELSE [left |-> p.left - 1, lead |-> p.lead, points |-> <<>>]
    ELSE LET again == StartByte(b)
         IN [again EXCEPT !.points = <<"FFFD">> \o @]

------------------------------------------------------------------------------
(* The command bytes ProcessMessage knows: moves of the caret, erasures, the *)
(* style, and what saves and restores the state.                             *)
Moves == {"A", "B", "C", "D", "E", "F", "G", "H", "f"}
Erases == {"J", "K"}
Commands == Moves \cup Erases \cup {"m", "s", "u", "ESCc", "ESC7", "ESC8"}

(* What a code point makes ProcessMessage do, a sequence of at most one      *)
(* effect: put text in the buffer, or flush the buffer and run a command.    *)
Text(t) == <<[does |-> "text", text |-> t, args |-> <<>>]>>
Command(c, args) ==
    IF c \in Commands THEN <<[does |-> c, text |-> <<>>, args |-> args]>> ELSE <<>>

Goes(p, state) == [parser |-> [p EXCEPT !.state = state], effects |-> <<>>]
Runs(p, c, args) == [parser |-> [p EXCEPT !.state = Normal], effects |-> Command(c, args)]

(* The code behind the escape parser: surrogates and end of line conversion, *)
(* one "\r\n" for CR, LF and for both in a row.                              *)
PutText(p, c) ==
    IF c \in Eols
    THEN IF p.eol \in {"none", c}
         THEN [parser |-> [p EXCEPT !.eol = c], effects |-> Text(<<"CR", "LF">>)]
         ELSE [parser |-> [p EXCEPT !.eol = "none"], effects |-> <<>>]
    ELSE [parser |-> [p EXCEPT !.eol = "none"],
          effects |-> Text(<<IF c = "astral" THEN "FFFD" ELSE c>>)]

InNormal(p, c) ==
    CASE c = "ESC"  -> Goes(p, {"ESCAPE_SEEN"})
      [] c = "CSI1" -> Goes([p EXCEPT !.args = <<>>], {"CSI"})
      [] OTHER      -> PutText(p, c)

AfterEscape(p, c) ==
    CASE c = "["   -> Goes([p EXCEPT !.args = <<>>], {"CSI"})
      [] c \in {"^", "_", "P", "]"} -> Goes(p, {"ST_CONTROL"})
      [] c = "ESC" -> Goes(p, p.state)
      [] c = "c" -> Runs(p, "ESCc", <<>>)
      [] c = "7" -> Runs(p, "ESC7", <<>>)
      [] c = "8" -> Runs(p, "ESC8", <<>>)
      [] c \in Upper \ {"[", "^", "_", "P", "]"} -> Goes(p, Normal)
      [] OTHER -> PutText([p EXCEPT !.state = Normal], c)

Ignored(p) == Goes(p, p.state \cup {"IGNORE"})

(* A digit: a new argument, or the next digit of the last one, in unsigned   *)
(* short arithmetic.                                                         *)
CsiDigit(p, d) ==
    LET value == 10 * p.args[Len(p.args)]
    IN  IF "IN_ARG" \notin p.state
        THEN IF Len(p.args) >= MaxArgs THEN Ignored(p)
             ELSE Goes([p EXCEPT !.args = Append(@, d)], p.state \cup {"IN_ARG"})
        ELSE IF value > UShortMax THEN Ignored(p)
             ELSE Goes([p EXCEPT !.args[Len(p.args)] =
                                      (value + d) % (UShortMax + 1)], p.state)

SeparatorUnchecked(p) ==   \* a mutant of CsiSeparator
    IF "IN_ARG" \in p.state THEN Goes(p, p.state \ {"IN_ARG"})
    ELSE Goes([p EXCEPT !.args = Append(@, 0)], p.state)

CsiSeparator(p) ==
    CASE "IN_ARG" \in p.state     -> Goes(p, p.state \ {"IN_ARG"})
      [] Len(p.args) >= MaxArgs   -> Ignored(p)
      [] OTHER                    -> Goes([p EXCEPT !.args = Append(@, 0)], p.state)

InCsi(p, c) ==
    CASE "IGNORE" \in p.state ->
             Goes(p, IF c \in Final THEN Normal ELSE p.state)
      [] "IGNORE" \notin p.state /\ c \in Digits -> CsiDigit(p, Digit[c])
      [] "IGNORE" \notin p.state /\ c = ";" -> CsiSeparator(p)
      [] "IGNORE" \notin p.state /\ c \in Final /\ (p.args # <<>> \/ c # "[") ->
             Runs(p, c, p.args)
      [] OTHER -> Ignored(p)

(* Control strings (ESC ] ... BEL): skipped, with their quoted strings.      *)
InControlString(p, c) ==
    LET on(f) == p.state \cup f
        off(f) == p.state \ f
    IN  IF "IN_STRING" \in p.state
        THEN CASE "BACKSLASH_SEEN" \in p.state -> Goes(p, off({"BACKSLASH_SEEN"}))
               [] "BACKSLASH_SEEN" \notin p.state /\ c = "\"" -> Goes(p, off({"IN_STRING"}))
               [] "BACKSLASH_SEEN" \notin p.state /\ c = "\\" -> Goes(p, on({"BACKSLASH_SEEN"}))
               [] OTHER -> Goes(p, p.state)
        ELSE CASE c = "BEL" \/ (c = "\\" /\ "ESCAPE_SEEN" \in p.state) -> Goes(p, Normal)
               [] c = "ESC" -> Goes(p, on({"ESCAPE_SEEN"}))
               [] c = "\""  -> Goes(p, off({"ESCAPE_SEEN", "BACKSLASH_SEEN"}) \cup {"IN_STRING"})
               [] OTHER     -> Goes(p, off({"ESCAPE_SEEN"}))

(* The states the chain of tests knows; any other one ends in abort().       *)
Consistent(state) ==
    \/ state \in {Normal, {"ESCAPE_SEEN"}}
    \/ "CSI" \in state
    \/ "ST_CONTROL" \in state

Ansi(p, c) ==
    CASE p.state = Normal           -> InNormal(p, c)
      [] p.state = {"ESCAPE_SEEN"}  -> AfterEscape(p, c)
      [] "CSI" \in p.state          -> InCsi(p, c)
      [] OTHER                      -> InControlString(p, c)

(* One byte: the parser after it and the effects, at most two, in order.     *)
ParseByte(p, b) ==
    LET d == Decode(p, b)
        q == [p EXCEPT !.left = d.left, !.lead = d.lead]
        first == Ansi(q, d.points[1])
        second == Ansi(first.parser, d.points[2])
    IN  CASE Len(d.points) = 0 -> [parser |-> q, effects |-> <<>>]
          [] Len(d.points) = 1 -> [parser |-> first.parser, effects |-> first.effects]
          [] Len(d.points) = 2 -> [parser |-> second.parser,
                                   effects |-> first.effects \o second.effects]
==============================================================================
