---------------------------- MODULE MCPostOffice ----------------------------
(***************************************************************************)
(* Small instances of PostOffice for TLC.                                  *)
(***************************************************************************)
EXTENDS PostOffice

CONSTANTS sys, t1, t2, b1, b2
=============================================================================
