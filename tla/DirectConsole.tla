---------------------------- MODULE DirectConsole ----------------------------
(* What a terminal stream promises (abstract specification for OutputTty):   *)
(* each byte written takes effect on the screen before the next one, as if   *)
(* there were no buffer and no chunks; a stream's parser depends on the      *)
(* bytes of that stream alone.  When a console call fails the screen is no   *)
(* longer known, but the parsers are.                                        *)
EXTENDS WindowsConsole

CONSTANTS Streams, Bytes, Sizes

VARIABLES parser,   \* of each stream
          shown     \* Unknown, or the screen and each stream's saved state

dVars == <<parser, shown>>
Unknown == [known |-> FALSE]
Known(screen, saved) == [known |-> TRUE, screen |-> screen, saved |-> saved]

DInit == /\ parser = [s \in Streams |-> NewParser]
         /\ \E saved \in [Streams -> {NothingSaved, Garbage}], size \in Sizes :
               shown = Known(NewScreen(size), saved)

Byte(s, b) ==
    LET p == parser[s]
        r == ParseByte(p, b)
    IN  /\ parser' = [parser EXCEPT ![s] = r.parser]
        /\ shown' = IF shown.known THEN ShowAll(shown, s, r.effects) ELSE shown

Breaks == shown.known /\ shown' = Unknown /\ UNCHANGED parser

Resize(size) ==
    /\ shown.known
    /\ shown' = [shown EXCEPT !.screen = Resized(@, size)]
    /\ UNCHANGED parser

Measure ==
    /\ shown.known
    /\ shown' = [shown EXCEPT !.screen = UpdateVirtualWindow(@)]
    /\ UNCHANGED parser

DNext == \/ \E s \in Streams, b \in Bytes : Byte(s, b)
         \/ Breaks
         \/ \E size \in Sizes : Resize(size)
         \/ Measure

DSpec == DInit /\ [][DNext]_dVars
==============================================================================
