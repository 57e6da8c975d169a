------------------------------ MODULE MCTimers ------------------------------
(***************************************************************************)
(* Small instances of Timers for TLC.                                      *)
(***************************************************************************)
EXTENDS Timers, TLC

CONSTANTS t1, t2, b1, b2, b3, b4

ASSUME MCTicksExact == TicksExact
=============================================================================
