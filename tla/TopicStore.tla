----------------------------- MODULE TopicStore -----------------------------
(***************************************************************************)
(* The topic memory of the publisher/subscriber server (ChAuto.cpp) as     *)
(* pure operators.                                                         *)
(*                                                                         *)
(* allServerData is an array of pointers to C strings of the form          *)
(*     NAME ": " DATA TICK                                                 *)
(* where TICK is the backquote that ends a topic's text in a reply.        *)
(* The first NumPreset of them point to the topics the program starts      *)
(* with; the pointer of a topic published later points to the row of       *)
(* tmpOnCurrentTopicData with the same index, so one function "mem" from   *)
(* indices to rows stands for both.  The row at index publisherCounter is  *)
(* the scratch row every publish is assembled in.                          *)
(*                                                                         *)
(* A row is a C string in a fixed array: a function on 1..RowLen whose     *)
(* text ends before the first NUL, whatever stands behind it.  A cell      *)
(* stands for one character; topic names and data are short sequences of   *)
(* them, long enough for the characters the code treats specially (the     *)
(* last one of a row, the upper-case prefix of a name) to be told apart.   *)
(*                                                                         *)
(* Published names and data have no character the code treats specially:   *)
(* a client could send a backquote, and it would end the answer there.     *)
(***************************************************************************)
EXTENDS Naturals, Sequences, SequencesExt

CONSTANTS Upper,           \* the characters 'A'..'Z'
          Other,           \* the remaining characters of names and data
          RowLen,          \* PUBLISHED_DATA: the size of a row
          MAX_PUBLISHERS,  \* the number of rows of tmpOnCurrentTopicData
          Preset           \* the topics at start: <<[name, data], ...>>

Special == {":", " ", "TICK", "NUL", "NL"}
Letter  == Upper \cup Other
Cell    == Letter \cup Special
Row     == [1..RowLen -> Cell]

NumPreset == Len(Preset)

ASSUME StoreAssumption ==
    /\ RowLen \in Nat \ {0}
    /\ MAX_PUBLISHERS \in Nat
    /\ Letter \cap Special = {}
    /\ Preset \in Seq([name : Seq(Letter), data : Seq(Letter)])
    /\ NumPreset < MAX_PUBLISHERS
    /\ \A i \in 1..NumPreset :
          Len(Preset[i].name) + Len(Preset[i].data) + 4 <= RowLen

-----------------------------------------------------------------------------
(* C strings in rows.                                                      *)

Blank == [k \in 1..RowLen |-> "NUL"]

\* Stores the cells of s in the row from C index pos on.
Write(row, pos, s) ==
    [k \in 1..RowLen |-> IF k \in (pos + 1)..(pos + Len(s)) THEN s[k - pos] ELSE row[k]]

Strlen(row) == SelectInSeq(row, LAMBDA c : c = "NUL") - 1

Text(row) == SubSeq(row, 1, Strlen(row))

\* The text in front of the first cell c, the whole text when there is none.
Before(text, c) ==
    LET at == SelectInSeq(text, LAMBDA d : d = c)
    IN  IF at = 0 THEN text ELSE SubSeq(text, 1, at - 1)

\* getTopic: the name of the topic stored in a row.
GetTopic(row) == Before(Text(row), ":")

PresetText(t) == t.name \o <<":", " ">> \o t.data \o <<"TICK">>

InitialRows ==
    [i \in 0..(MAX_PUBLISHERS - 1) |->
        IF i < NumPreset THEN Write(Blank, 0, PresetText(Preset[i + 1])) ELSE Blank]

-----------------------------------------------------------------------------
(* Publishing.                                                             *)

\* The leading upper-case characters of a published name: the copy into the
\* scratch row stops at the first other one.
UpperPrefix(name) ==
    LET at == SelectInSeq(name, LAMBDA c : c \notin Upper)
    IN  IF at = 0 THEN name ELSE SubSeq(name, 1, at - 1)

\* What a publish writes into the scratch row, its terminator included.
ScratchText(topic, data) == UpperPrefix(topic) \o <<":", " ">> \o data \o <<"NUL">>

\* The rows whose name is the published topic.
RowsNamed(mem, n, topic) == {j \in 0..(n - 1) : GetTopic(mem[j]) = topic}

\* Faulty variant: the data is stored behind the TICK
AppendsBehind(row, data) == Write(row, Strlen(row), <<" ">> \o data \o <<"TICK">>)

\* Faulty variant: the TICK is not written again
AppendsOpen(row, data) == Write(row, Strlen(row) - 1, <<" ">> \o data)

\* New data replaces the last character of the row by a blank and follows it;
\* no terminator is written behind the closing TICK.
AppendData(row, data) == Write(row, Strlen(row) - 1, <<" ">> \o data \o <<"TICK">>)

Fits(row, pos, s) == pos + Len(s) <= RowLen

\* The writes of a publish stay inside tmpOnCurrentTopicData and the row.
PublishInBounds(mem, n, topic, data, exists, index) ==
    /\ n < MAX_PUBLISHERS
    /\ Fits(mem[n], 0, ScratchText(topic, data))
    /\ exists => Fits(mem[index], Strlen(mem[index]), data \o <<"TICK">>)

\* The row has a terminator also when the data is behind its text.
StaysTerminated(row, data) == Fits(row, Strlen(row), data \o <<"TICK", "NUL">>)

\* The memory after PUB topic data: the scratch row is written in every case; if the
\* topic exists, row "index" gets the data.
AfterPublish(mem, n, topic, data, exists, index) ==
    LET scratch == [mem EXCEPT ![n] = Write(@, 0, ScratchText(topic, data))]
    IN  IF exists THEN [scratch EXCEPT ![index] = AppendData(@, data)] ELSE scratch

\* Faulty variant: alreadyexists is not looked at
CountsAlways(n, exists) == n + 1

\* publisherCounter after the publish: a topic that does not exist takes the scratch row.
CounterAfterPublish(n, exists) == IF exists THEN n ELSE n + 1

-----------------------------------------------------------------------------
(* Serving a subscriber and the list of topics.                            *)

\* The datagram sent to a subscriber of the topic.  The scan serves from the
\* first row on whose name is a prefix of the topic, across rows up to a TICK; of
\* each row before that one it has copied the characters it matched.  (Module
\* TopicScan has the scan itself.)
TopicReply(mem, n, topic) ==
    LET found   == {i \in 0..(n - 1) : IsPrefix(GetTopic(mem[i]), topic)}
        first   == IF found = {} THEN n ELSE CHOOSE i \in found : \A l \in found : i <= l
        matched == [i \in 1..first |-> LongestCommonPrefix({GetTopic(mem[i - 1]), topic})]
        served  == [i \in 1..(n - first) |-> Text(mem[first + i - 1])]
    IN  FlattenSeq(matched) \o Before(FlattenSeq(served), "TICK") \o <<"TICK">>

\* The datagram sent for LIST: the names, one per line.
ListReply(mem, n) ==
    FlattenSeq([i \in 1..n |-> GetTopic(mem[i - 1]) \o <<"NL">>]) \o <<"TICK">>
=============================================================================
