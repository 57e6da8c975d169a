---------------------------- MODULE MCFSMSystem ----------------------------
(***************************************************************************)
(* Small instances of FSMSystem for TLC.                                   *)
(***************************************************************************)
EXTENDS FSMSystem, TLC

CONSTANTS o1, o2, o3
=============================================================================
