---------------------------- MODULE MCMsgParams ----------------------------
(***************************************************************************)
(* Small instances of MsgParams for TLC.  A value looks like a code.       *)
(***************************************************************************)
EXTENDS MsgParams

MCValue == {<<>>, <<1>>}
=============================================================================
