----------------------------- MODULE MCOutputTty -----------------------------
(* OutputTty on a console of a few cells.  The messages split UTF-8 and      *)
(* escape sequences at several places; BufSize is smaller than some of them. *)
EXTENDS OutputTty

MCSizes == {[w |-> 2, h |-> 3, rows |-> 2], [w |-> 3, h |-> 2, rows |-> 1]}
MCMessages ==
    {<<"x", "LF", "CR", "ESC">>, <<"L2">>, <<"9B", "2">>, <<"[", "1", "J">>,
     <<"H", "x", "ESC", "7">>, <<"c", "m">>, <<"8", "ESC", "[", ";", ";", ";">>,
     <<"]", "BEL", "L7">>}
==============================================================================
