----------------------------- MODULE MCTerminal -----------------------------
(* Terminal with two streams that can stand for each other.                  *)
EXTENDS Terminal, TLC

Symmetry == Permutations(Ttys)
==============================================================================
