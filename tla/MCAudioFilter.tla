--------------------------- MODULE MCAudioFilter ---------------------------
(* Two activities, one after the other or overlapping; two descriptions     *)
(* besides the default one, so that a session can be two calls behind.      *)
EXTENDS AudioFilter

CONSTANTS a1, a2, d0, d1, d2

MCActivity == {a1, a2}
MCDesc == {d0, d1, d2}
=============================================================================
