------------------------------ MODULE MCPubSub ------------------------------
(***************************************************************************)
(* Small instances of PubSub for TLC.                                      *)
(*                                                                         *)
(* Letters stand for characters: "A", "B", "C" and "D" are upper-case,     *)
(* "u" is neither upper-case nor special (as the underscore of INTEL_CPU), *)
(* "x" and "y" are characters of data.  The two initial topics start with  *)
(* different letters, as the four of ChAuto.cpp do.                        *)
(***************************************************************************)
EXTENDS PubSub, TLC

CONSTANTS c1, c2

MCUpper  == {"A", "B", "C", "D"}
MCOther  == {"u", "x", "y"}
MCPreset == <<[name |-> <<"A", "B">>, data |-> <<"x">>],
              [name |-> <<"C", "u">>, data |-> <<"x">>]>>

\* An initial topic of each kind, a new name that is a prefix of an initial
\* one, a new name, and a new name that is not all upper-case.
MCTopics == {<<"A", "B">>, <<"C", "u">>, <<"A">>, <<"D">>, <<"D", "u">>}
UpperTopics == {<<"A", "B">>, <<"C", "u">>, <<"A">>, <<"D">>}
FewTopics == {<<"A", "B">>, <<"D">>}
MCItems  == {<<"x">>, <<"y", "x">>}

ASSUME MCPresetsApart == PresetsApart

Asks(kinds, topics) == {r \in Request : r.kind \in kinds /\ r.topic \in topics \cup {<<>>}}

AllRequests     == Asks({"PUB", "SUB", "LIST", "OTHER"}, Topics)
WellFormed      == Asks({"PUB", "SUB", "LIST"}, Topics)

\* Both items on one topic, one item on each other name that is published; answers
\* on the initial topics and on a name that is stored shortened
SafeRequests ==
    {r \in AllRequests :
        /\ r.kind = "PUB" => \/ r.topic = <<"A", "B">>
                             \/ r.topic \in {<<"C", "u">>, <<"D", "u">>} /\ r.data = <<"x">>
                             \/ r.topic = <<"A">> /\ r.data = <<"y", "x">>
        /\ r.kind = "SUB" => r.topic \notin {<<"A">>, <<"D">>}}

Symmetry == Permutations(Clients)
=============================================================================
