----------------------------- MODULE MsgParams -----------------------------
(***************************************************************************)
(* The parameters of messages: the two formats stdMsg_pc8_pl8              *)
(* (standardMsg.cpp) and stdMsg_pc16_pl16 (stdMsgpc16pl16.cpp), which are  *)
(* the same code with numbers of one or two bytes, and the buffer handling *)
(* of MessageHandler (messages.cpp) around them.                           *)
(*                                                                         *)
(* A message is the part of its buffer behind the header: cells, of which  *)
(* the first len are the message.  A parameter is its code, its length and *)
(* its value; a code of zero ends the list.  The terminator is written     *)
(* with the first parameter; in the 8-bit format it takes two bytes of     *)
(* which one is written.                                                   *)
(*                                                                         *)
(* One automate builds a message and sends it to itself.  The object that  *)
(* knows the format has one CurrentOffset, for the search in the message   *)
(* being handled and for the place of a parameter in the one being built.  *)
(***************************************************************************)
EXTENDS Naturals, FiniteSetsExt, SequencesExt

CONSTANTS NULL,         \* the null pointer
          Format,       \* PARAM_LENGTH_OFFSET: 1 for 8-bit numbers, 2 for 16-bit ones
          Code, Value,  \* codes and values of parameters
          BufferSizes,  \* the room behind the header in buffers of each size
          R,            \* the number of values of a byte
          Old,          \* what is in the bytes of a buffer from the pool
          MaxParams     \* bound on the parameters of both messages

ASSUME MsgParamsAssumption ==
    /\ Format \subseteq {1, 2}
    /\ R \in Nat
    /\ Code \subseteq 1..(R - 1)
    /\ \A v \in Value : v \in Seq(0..(R - 1)) /\ Len(v) < R
    /\ Old \in 0..(R - 1)
    /\ BufferSizes \subseteq Nat
    /\ \A n \in BufferSizes : n >= 2
    /\ NULL \notin [cells : Seq(0..(R - 1)), len : Nat]
    /\ MaxParams \in Nat

VARIABLES format,         \* the format in use
          NewMessage,     \* the message being built
          CurrentMessage, \* the message being handled
          CurrentOffset,  \* where the last search ended, from the start of the cells
          found,          \* the parameter the last search returned
          passed,         \* how many parameters it should have passed
          moved           \* CurrentOffset was not left by a search in CurrentMessage

vars == <<format, NewMessage, CurrentMessage, CurrentOffset, found, passed, moved>>

search == <<CurrentOffset, found, passed, moved>>

Init ==
    /\ format \in Format
    /\ NewMessage = NULL
    /\ CurrentMessage = NULL
    /\ CurrentOffset = 0
    /\ found = NULL
    /\ passed = 0
    /\ moved = TRUE

\* CurrentOffset is no longer where a search ended.
SearchLost == moved' = TRUE /\ found' = NULL /\ passed' = 0

-----------------------------------------------------------------------------
(* Reading the cells.                                                      *)

PARAM_HEADER_LENGTH == 2 * format

\* The number at offset o: in the 16-bit format the low byte is first.
NumberAt(m, o) ==
    IF format = 1 THEN m.cells[o + 1] ELSE m.cells[o + 1] + R * m.cells[o + 2]

Bytes(n) == IF format = 1 THEN <<n % R>> ELSE <<n % R, (n \div R) % R>>

CodeAt(m, o) == NumberAt(m, o)
LengthAt(m, o) == NumberAt(m, o + format)

\* The offset behind the parameter at o
Behind(m, o) == o + PARAM_HEADER_LENGTH + LengthAt(m, o)

\* The offsets of the parameters from o on, and the one where the loops stop.
\* In a message that is not intact they would run out of the buffer.
Walk(m, o) ==
    LET size == Len(m.cells)
        from[p \in 0..size] ==
            IF p + PARAM_HEADER_LENGTH > size \/ CodeAt(m, p) = 0 \/ Behind(m, p) > size
            THEN <<p>>
            ELSE <<p>> \o from[Behind(m, p)]
    IN  from[o]

ParamsFrom(m, o) == Front(Walk(m, o))

\* The parameters of a message, as its receiver understands them
Decoded(m) ==
    IF m = NULL \/ m.len = 0 THEN <<>>
    ELSE LET offsets == Walk(m, 0)
         IN  [i \in 1..(Len(offsets) - 1) |->
                 [code  |-> CodeAt(m, offsets[i]),
                  value |-> SubSeq(m.cells, offsets[i] + PARAM_HEADER_LENGTH + 1, offsets[i + 1])]]

-----------------------------------------------------------------------------
(* The message being built.                                                *)

NewBuffer(n) == [cells |-> [i \in 1..n |-> Old], len |-> 0]

\* The smallest size of buffers with room for n bytes
Smallest(n) == CHOOSE s \in BufferSizes : s >= n /\ \A r \in BufferSizes : r >= n => r >= s

PrepareNewMessage ==
    /\ NewMessage = NULL
    /\ \E n \in BufferSizes : NewMessage' = NewBuffer(n)
    /\ UNCHANGED <<format, CurrentMessage, search>>

\* Faulty variant: only the value is allowed for
ResizedForValue(m, n) ==
    IF Len(m.cells) <= m.len + n
    THEN [m EXCEPT !.cells = SubSeq(@, 1, m.len)
                      \o [i \in 1..(Smallest(m.len + n) - m.len) |-> Old]]
    ELSE m

\* 8 bytes are kept for a header and a terminator.
BufferSmall(m, n) == Len(m.cells) <= m.len + n + 8

\* CheckBufferSize: a new buffer has room for 10, and the message is copied.
Resized(m, n) ==
    IF BufferSmall(m, n)
    THEN [m EXCEPT !.cells = SubSeq(@, 1, m.len)
                      \o [i \in 1..(Smallest(m.len + n + 10) - m.len) |-> Old]]
    ELSE m

\* SetENDOfParams: the length grows by two in both formats.
WithEND(m) ==
    IF m.len > 0 THEN m
    ELSE [cells |-> [i \in DOMAIN m.cells |-> IF i <= format THEN 0 ELSE m.cells[i]], len |-> 2]

\* Faulty variant: in front of the parameters with the same code
FirstPlace(m, code) ==
    LET offsets == Walk(m, 0)
    IN  Min({Last(offsets)} \cup {o \in ToSet(Front(offsets)) : CodeAt(m, o) >= code})

\* FindParamPlace: the first parameter with a greater code, or the terminator
FindParamPlace(m, code) ==
    LET offsets == Walk(m, 0)
    IN  Min({Last(offsets)} \cup {o \in ToSet(Front(offsets)) : CodeAt(m, o) > code})

\* memmove of the rest, and the bytes in between.  A message that did not fit
\* would have more cells than its buffer.
Inserted(m, o, bytes) ==
    [cells |-> SubSeq(m.cells, 1, o) \o bytes \o SubSeq(m.cells, o + 1, m.len)
                 \o SubSeq(m.cells, m.len + Len(bytes) + 1, Len(m.cells)),
     len   |-> m.len + Len(bytes)]

\* AddParam, with CheckBufferSize in front of it.  A new buffer, when one is needed, is
\* of one of the sizes there are.
AddParam(code, value) ==
    /\ NewMessage # NULL
    /\ Len(Decoded(NewMessage)) + Len(Decoded(CurrentMessage)) < MaxParams
    /\ BufferSmall(NewMessage, Len(value)) =>
          \E n \in BufferSizes : n >= NewMessage.len + Len(value) + 10
    /\ LET m == WithEND(Resized(NewMessage, Len(value)))
           o == FindParamPlace(m, code)
       IN  /\ NewMessage' = Inserted(m, o, Bytes(code) \o Bytes(Len(value)) \o value)
           /\ CurrentOffset' = o
    /\ SearchLost
    /\ UNCHANGED <<format, CurrentMessage>>

\* RemoveParam: FindParamPlace never stops at a parameter with this code, but
\* behind it, so nothing is removed; an empty message gets its terminator.
RemoveParam(code) ==
    /\ NewMessage # NULL
    /\ LET m == WithEND(NewMessage)
           o == FindParamPlace(m, code)
       IN  /\ CodeAt(m, o) # code
           /\ NewMessage' = m
           /\ CurrentOffset' = o
    /\ SearchLost
    /\ UNCHANGED <<format, CurrentMessage>>

-----------------------------------------------------------------------------
(* The message being handled.                                              *)

\* SendMessage to the automate itself and ParseMessage
ParseMessage ==
    /\ CurrentMessage = NULL
    /\ NewMessage # NULL
    /\ CurrentMessage' = NewMessage
    /\ NewMessage' = NULL
    /\ SearchLost
    /\ UNCHANGED <<format, CurrentOffset>>

\* CopyMessage
CopyMessage ==
    /\ CurrentMessage # NULL
    /\ 2 * Len(Decoded(CurrentMessage)) <= MaxParams
    /\ LET m == CurrentMessage
           n == Smallest(m.len)
       IN  NewMessage' = [cells |-> SubSeq(m.cells, 1, m.len) \o [i \in 1..(n - m.len) |-> Old],
                          len   |-> m.len]
    /\ UNCHANGED <<format, CurrentMessage, search>>

\* The end of the handler
ClearMessage ==
    /\ CurrentMessage # NULL
    /\ CurrentMessage' = NULL
    /\ SearchLost
    /\ UNCHANGED <<format, NewMessage, CurrentOffset>>

Hits(m, code, start) == {o \in ToSet(ParamsFrom(m, start)) : CodeAt(m, o) = code}

\* Faulty variant: CurrentOffset stays at the parameter that was found
FindParamStays(code, start) ==
    IF CurrentMessage.len = 0 THEN found' = NULL /\ CurrentOffset' = start
    ELSE LET hits == Hits(CurrentMessage, code, start)
         IN  IF hits = {} THEN found' = NULL /\ CurrentOffset' = 0
             ELSE found' = Min(hits) /\ CurrentOffset' = found'

\* FindParam: the first parameter with the code from start on; CurrentOffset is
\* left behind it, or at the beginning when there is none.
FindParam(code, start) ==
    IF CurrentMessage.len = 0 THEN found' = NULL /\ CurrentOffset' = start
    ELSE LET hits == Hits(CurrentMessage, code, start)
         IN  IF hits = {} THEN found' = NULL /\ CurrentOffset' = 0
             ELSE found' = Min(hits) /\ CurrentOffset' = Behind(CurrentMessage, found')

\* The parameter a search behind the first n should return: its index, or 0
Should(code, n) ==
    LET params == Decoded(CurrentMessage)
        hits   == {i \in DOMAIN params : i > n /\ params[i].code = code}
    IN  IF hits = {} THEN 0 ELSE Min(hits)

GetParam(code) ==
    /\ CurrentMessage # NULL
    /\ FindParam(code, 0)
    /\ passed' = Should(code, 0)
    /\ moved' = FALSE
    /\ UNCHANGED <<format, NewMessage, CurrentMessage>>

\* GetNextParam; a search that would start outside the message's buffer is
\* undefined.
GetNextParam(code) ==
    /\ CurrentMessage # NULL
    /\ CurrentOffset <= Len(CurrentMessage.cells)
    /\ FindParam(code, CurrentOffset)
    /\ passed' = IF moved THEN 0 ELSE Should(code, passed)
    /\ UNCHANGED <<format, NewMessage, CurrentMessage, moved>>

-----------------------------------------------------------------------------
Next ==
    \/ PrepareNewMessage
    \/ \E code \in Code :
          \/ \E value \in Value : AddParam(code, value)
          \/ RemoveParam(code)
          \/ GetParam(code)
          \/ GetNextParam(code)
    \/ ParseMessage
    \/ CopyMessage
    \/ ClearMessage

Spec == Init /\ [][Next]_vars

-----------------------------------------------------------------------------
(* Properties.                                                             *)

InBuffer(m) ==
    m # NULL => /\ Len(m.cells) \in BufferSizes
                /\ ToSet(m.cells) \subseteq 0..(R - 1)
                /\ m.len <= Len(m.cells)

\* Messages stay in their buffers: what CheckBufferSize allows for (messages.cpp:189)
\* is enough for the header of a parameter and the terminator, in both formats.
TypeOK ==
    /\ InBuffer(NewMessage)
    /\ InBuffer(CurrentMessage)
    /\ CurrentOffset \in Nat
    /\ passed \in 0..MaxParams

\* The bytes are always those of the list of parameters that were added: the
\* searches for places and the moving of bytes implement a sorted list.
Params == INSTANCE ParamList WITH new <- Decoded(NewMessage), current <- Decoded(CurrentMessage)
ImplementsList == Params!Spec

\* A search and the searches that go on from it return the parameters with a code
\* one after the other, each once, and NULL behind the last one, as long as no
\* place for a parameter is looked for in between (stdMsgpc16pl16.cpp:78).
SearchFindsNext ==
    CurrentMessage # NULL /\ ~moved =>
        found = IF passed = 0 THEN NULL ELSE ParamsFrom(CurrentMessage, 0)[passed]
=============================================================================
