---------------------------- MODULE MCRecurrence ----------------------------
(***************************************************************************)
(* A small instance of Recurrence for TLC: a series with a bill each tick. *)
(***************************************************************************)
EXTENDS Recurrence

CONSTANTS power

EachTick == [s \in Series |-> 1]
=============================================================================
