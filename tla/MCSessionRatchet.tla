-------------------------- MODULE MCSessionRatchet --------------------------
(* SessionRatchet with a window of three and a lookahead of one: a gap that *)
(* leaves the window, and one the cache cannot bridge, both fit in 0..5.    *)
EXTENDS SessionRatchet

CONSTANTS d1, d2

MCCall == {d1, d2}
=============================================================================
