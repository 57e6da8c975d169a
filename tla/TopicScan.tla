----------------------------- MODULE TopicScan -----------------------------
(***************************************************************************)
(* The two nested loops of FSM_Ch_Share_Topic_Data (ChAuto.cpp) that look  *)
(* a topic up and copy its text, one character per step, and what they     *)
(* compute: TopicReply of module TopicStore.                               *)
(*                                                                         *)
(* The loops leave a row after a mismatch but keep what they copied of it, *)
(* accept a row whose name is a proper prefix of the topic, and do not     *)
(* stop at the end of a row without a TICK.                                *)
(***************************************************************************)
EXTENDS TopicStore

CONSTANTS Memories,    \* the topic memories: sequences of texts of rows
          Asked        \* the topics subscribed to

\* The text of a row: a C string that fits and has the ':' that every row gets behind
\* its name
IsRowText(t) == Len(t) < RowLen /\ "NUL" \notin ToSet(t) /\ ":" \in ToSet(t)

ASSUME ScanAssumption ==
    /\ \A m \in Memories :
          /\ m \in Seq(Seq(Cell)) /\ Len(m) < MAX_PUBLISHERS
          /\ \A r \in 1..Len(m) : IsRowText(m[r])
    /\ Asked \subseteq Seq(Letter)

VARIABLES allServerData,  \* the memory, which the scan only reads
          currentTopic,   \* the topic, likewise
          pc,             \* at the outer test, at the inner test, after sendto
          i, j,           \* the row and the character in it
          k,              \* the character of currentTopic compared next
          finished, done, \* the flags of the code
          onTopicData     \* what has been copied; its length is n

scanVars == <<allServerData, currentTopic, pc, i, j, k, finished, done, onTopicData>>

mem == [r \in 0..(MAX_PUBLISHERS - 1) |->
          IF r < Len(allServerData) THEN Write(Blank, 0, allServerData[r + 1]) ELSE Blank]
publisherCounter == Len(allServerData)

ScanInit ==
    /\ allServerData \in Memories
    /\ currentTopic \in Asked
    /\ pc = "row"
    /\ i = 0 /\ j = 0 /\ k = 0
    /\ finished = FALSE /\ done = FALSE
    /\ onTopicData = <<>>

-----------------------------------------------------------------------------
row == allServerData[i + 1]
ch  == row[j + 1]

\* currentTopic[k], the terminator included
TopicChar == (currentTopic \o <<"NUL">>)[k + 1]

\* Faulty variant: done is not tested
EntersEveryRow ==
    /\ pc = "row"
    /\ i < publisherCounter
    /\ pc' = "cell"
    /\ j' = 0
    /\ UNCHANGED <<allServerData, currentTopic, i, k, finished, done, onTopicData>>

\* for(i ...) { if(done) break; for(j = 0; ...
EntersRow ==
    /\ pc = "row"
    /\ i < publisherCounter /\ ~done
    /\ pc' = "cell"
    /\ j' = 0
    /\ UNCHANGED <<allServerData, currentTopic, i, k, finished, done, onTopicData>>

LeavesRow ==
    /\ pc' = "row"
    /\ i' = i + 1

RowEnds ==
    /\ pc = "cell" /\ j = Len(row)
    /\ LeavesRow
    /\ UNCHANGED <<allServerData, currentTopic, j, k, finished, done, onTopicData>>

\* The character is part of a name and compared with the topic.
Compares == pc = "cell" /\ j < Len(row) /\ ch # ":" /\ ~finished

\* Faulty variant: k is not reset
MismatchKeepsPlace ==
    /\ Compares
    /\ ch # TopicChar
    /\ k' = k + 1
    /\ LeavesRow
    /\ UNCHANGED <<allServerData, currentTopic, j, finished, done, onTopicData>>

Mismatch ==
    /\ Compares
    /\ ch # TopicChar
    /\ k' = 0
    /\ LeavesRow
    /\ UNCHANGED <<allServerData, currentTopic, j, finished, done, onTopicData>>

\* A matching character of a name, or any character from the first ':' on, is
\* copied; a TICK ends the scan.  (The flag eq of the code is 1 here.)
Copies ==
    /\ pc = "cell" /\ j < Len(row)
    /\ Compares => ch = TopicChar
    /\ k' = IF Compares THEN k + 1 ELSE k
    /\ finished' = (finished \/ ch = ":")
    /\ IF ch = "TICK"
       THEN /\ done' = TRUE
            /\ LeavesRow
            /\ UNCHANGED <<j, onTopicData>>
       ELSE /\ onTopicData' = Append(onTopicData, ch)
            /\ j' = j + 1
            /\ UNCHANGED <<pc, i, done>>
    /\ UNCHANGED <<allServerData, currentTopic>>

\* Faulty variant: only a TICK ends the scan
SendsWhenDone ==
    /\ pc = "row"
    /\ done
    /\ pc' = "sent"
    /\ onTopicData' = Append(onTopicData, "TICK")
    /\ UNCHANGED <<allServerData, currentTopic, i, j, k, finished, done>>

\* The closing TICK and sendto
Sends ==
    /\ pc = "row"
    /\ i >= publisherCounter \/ done
    /\ pc' = "sent"
    /\ onTopicData' = Append(onTopicData, "TICK")
    /\ UNCHANGED <<allServerData, currentTopic, i, j, k, finished, done>>

ScanNext == EntersRow \/ RowEnds \/ Mismatch \/ Copies \/ Sends

ScanSpec == ScanInit /\ [][ScanNext]_scanVars /\ WF_scanVars(ScanNext)
-----------------------------------------------------------------------------
\* The scan reads no character of currentTopic behind its terminator (k grows
\* with every character compared and is reset only by a mismatch), and what it
\* has copied is a selection of the characters it has passed.
ScanInBounds ==
    /\ k <= Len(currentTopic)
    /\ Len(onTopicData) <= Len(FlattenSeq(SubSeq(allServerData, 1, i)))
                              + (IF pc = "cell" THEN j ELSE IF pc = "sent" THEN 1 ELSE 0)

\* What is sent is what module TopicStore says of the memory and the topic.
ScanComputesReply ==
    pc = "sent" => onTopicData = TopicReply(mem, publisherCounter, currentTopic)

\* The nested loops end.
ScanEnds == <>(pc = "sent")
=============================================================================
