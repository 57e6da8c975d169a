---------------------------- MODULE MCTopicScan ----------------------------
(***************************************************************************)
(* Memories of up to three rows over a few names and data for TLC.         *)
(***************************************************************************)
EXTENDS TopicScan

MCUpper == {"A", "B"}
MCOther == {"x"}
MCPreset == <<>>

\* Names that are empty, equal, prefixes of one another or share a first letter
MCNames == {<<>>, <<"A">>, <<"B">>, <<"A", "B">>, <<"A", "A">>}

\* Data with and without the closing TICK, and with a ':' in it
MCData == {<<"x", "TICK">>, <<"x">>, <<"x", ":", "B", "TICK">>}

MCRows == {n \o <<":", " ">> \o d : n \in MCNames, d \in MCData}

\* Up to two rows of any kind, or three that have no end mark
MCMemories == UNION {[1..l -> MCRows] : l \in 0..2} \cup [1..3 -> {n \o <<":", "x">> : n \in MCNames}]
MCAsked    == MCNames \cup {<<"A", "B", "A">>}
=============================================================================
