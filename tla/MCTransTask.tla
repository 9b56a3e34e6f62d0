---------------------------- MODULE MCTransTask ----------------------------
(* Two dialogs, one after the other or one above the other; timers of two   *)
(* ticks, so that two queries of a dialog can be under way; and two names,   *)
(* so that two queries may save in two files or in one, and a third must     *)
(* share.                                                                    *)
EXTENDS TransTask, TLC

CONSTANTS d1, d2, n1, n2

MCDialog == {d1, d2}
MCName == {n1, n2}
Symmetry == Permutations(MCDialog) \union Permutations(MCName)
=============================================================================
