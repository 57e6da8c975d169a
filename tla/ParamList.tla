----------------------------- MODULE ParamList -----------------------------
(***************************************************************************)
(* What the message formats promise: a message carries a list of           *)
(* parameters "sorted in accesiding order" (standardMsg.cpp:251) of their  *)
(* codes, those of one code in the order in which they were added.         *)
(***************************************************************************)
EXTENDS Naturals, SequencesExt

CONSTANTS Code, Value

VARIABLES new,     \* the parameters of the message being built
          current  \* those of the message being handled

Param == [code : Code, value : Value]

Init == new = <<>> /\ current = <<>>

Prepare == new' = <<>> /\ UNCHANGED current

\* The new parameter follows those with the same and with smaller codes.
Add(p) ==
    \E i \in 0..Len(new) :
        /\ \A k \in 1..i : new[k].code <= p.code
        /\ \A k \in (i + 1)..Len(new) : new[k].code > p.code
        /\ new' = InsertAt(new, i + 1, p)
        /\ UNCHANGED current

Receive == current' = new /\ new' = <<>>

Copy == new' = current /\ UNCHANGED current

Clear == current' = <<>> /\ UNCHANGED new

Next == Prepare \/ Receive \/ Copy \/ Clear \/ \E p \in Param : Add(p)

Spec == Init /\ [][Next]_<<new, current>>
=============================================================================
