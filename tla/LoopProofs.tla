----------------------------- MODULE LoopProofs -----------------------------
(***************************************************************************)
(* Proofs about the two modules that follow loops of the code over         *)
(* characters and bytes: TopicScan, for any memory of rows with a ':' and  *)
(* any topic, and MsgParams, for any codes, values and sizes of buffers.   *)
(*                                                                         *)
(* TopicScan.  What the loops have copied so far is said by two sequences: *)
(* what the names of the first f rows have in common with the topic        *)
(* (Kept), and the rows behind them (Served).  Until a name has matched f  *)
(* is the row the scan is in; from then on f stays and what is served      *)
(* grows, until a TICK cuts it off.  Each step lengthens one of the two by *)
(* a character, or moves a finished row from what has been passed into it. *)
(* When the last row is left, or the TICK is met, the two are TopicReply   *)
(* of TopicStore.                                                          *)
(*                                                                         *)
(* MsgParams.  The offsets of a message's parameters are a chain: each     *)
(* leads to the next one by the length read at it, and the last one is the *)
(* terminator (Chain, Complete).  A parameter inserted at one of them      *)
(* moves those behind it and leaves those before it (Shifted); what the    *)
(* moved bytes say is the same (NumMoves).  So the list read from the      *)
(* bytes is the old one with the parameter at its place, behind the codes  *)
(* that are not greater, and a search that starts at an offset of the      *)
(* chain ends at one.                                                      *)
(***************************************************************************)
EXTENDS TopicScan, MsgParams, ProofLemmas

-----------------------------------------------------------------------------
(* TopicScan: the memory as texts.                                         *)

IsMemory(D) ==
    /\ D \in Seq(Seq(Cell))
    /\ Len(D) < MAX_PUBLISHERS
    /\ \A r \in 1..Len(D) : IsRowText(D[r])

\* The text in front of the first c
LEMMA BeforeIs ==
  ASSUME NEW S, NEW text \in Seq(S), NEW c, NEW m \in 0..(Len(text) - 1),
         text[m + 1] = c, \A x \in 1..m : text[x] # c
  PROVE  Before(text, c) = SubSeq(text, 1, m)
  <1> DEFINE I == {x \in 1..Len(text) : text[x] = c}
  <1>1. PICK at : at = IF I # {} THEN Min(I) ELSE 0
    OBVIOUS
  <1>2. Before(text, c) = IF at = 0 THEN text ELSE SubSeq(text, 1, at - 1)
    BY <1>1 DEF Before, SelectInSeq
  <1>3. Len(text) \in Nat /\ m + 1 \in 1..Len(text)
    OBVIOUS
  <1>4. m + 1 \in I /\ I \in SUBSET (1..Len(text))
    BY <1>3
  <1> HIDE DEF I
  <1>5. at \in I /\ at =< m + 1
    BY <1>1, <1>3, <1>4, FirstIndex
  <1>6. at \in 1..Len(text) /\ text[at] = c
    BY <1>5 DEF I
  <1>7. ~ (at \in 1..m)
    BY <1>6
  <1>8. at = m + 1
    BY <1>3, <1>5, <1>6, <1>7
  <1>9. at # 0 /\ at - 1 = m
    BY <1>3, <1>8
  <1> QED
    BY <1>2, <1>9, Zenon

\* A text without c
LEMMA BeforeNone ==
  ASSUME NEW S, NEW text \in Seq(S), NEW c, \A x \in 1..Len(text) : text[x] # c
  PROVE  Before(text, c) = text
  <1> DEFINE I == {x \in 1..Len(text) : text[x] = c}
  <1>1. I = {}
    OBVIOUS
  <1>2. PICK at : at = IF I # {} THEN Min(I) ELSE 0
    OBVIOUS
  <1>3. Before(text, c) = IF at = 0 THEN text ELSE SubSeq(text, 1, at - 1)
    BY <1>2 DEF Before, SelectInSeq
  <1> QED
    BY <1>1, <1>2, <1>3

\* What is in front of the first c has no c.
LEMMA BeforeType ==
  ASSUME NEW S, NEW text \in Seq(S), NEW c
  PROVE  Before(text, c) \in Seq(S)
  <1> DEFINE I == {x \in 1..Len(text) : text[x] = c}
  <1>1. PICK at : at = IF I # {} THEN Min(I) ELSE 0
    OBVIOUS
  <1>2. Before(text, c) = IF at = 0 THEN text ELSE SubSeq(text, 1, at - 1)
    BY <1>1 DEF Before, SelectInSeq
  <1>3. Len(text) \in Nat /\ I \in SUBSET (1..Len(text))
    OBVIOUS
  <1>4. at \in 0..Len(text)
    BY <1>1, <1>3, FirstIndex
  <1> HIDE DEF I
  <1>5. at # 0 => SubSeq(text, 1, at - 1) \in Seq(S)
    BY <1>3, <1>4
  <1> QED
    BY <1>2, <1>5

\* A text written into an empty row is the row's text.
LEMMA TextWritten ==
  ASSUME NEW t \in Seq(Cell), IsRowText(t)
  PROVE  Text(Write(Blank, 0, t)) = t
  <1>1. /\ Len(t) \in Nat /\ RowLen \in Nat \ {0} /\ Len(t) < RowLen
        /\ \A x \in 1..Len(t) : t[x] \in Cell /\ t[x] # "NUL"
    BY StoreAssumption, ToSetIs DEF IsRowText
  <1>2. PICK w : w = Write(Blank, 0, t)
    OBVIOUS
  <1>3. w = [x \in 1..RowLen |-> IF x \in 1..Len(t) THEN t[x] ELSE "NUL"]
    <2>1. w = [x \in 1..RowLen |-> IF x \in (0 + 1)..(0 + Len(t)) THEN t[x - 0] ELSE Blank[x]]
      BY <1>2 DEF Write
    <2>2. \A x \in 1..RowLen : x - 0 = x /\ Blank[x] = "NUL"
      BY DEF Blank
    <2>3. (0 + 1)..(0 + Len(t)) = 1..Len(t)
      BY <1>1
    <2> QED
      BY <2>1, <2>2, <2>3
  <1>4. w \in Seq(Cell) /\ Len(w) = RowLen
    <2>1. "NUL" \in Cell
      BY DEF Cell, Special
    <2>2. w \in [1..RowLen -> Cell]
      BY <1>1, <1>3, <2>1
    <2> QED
      BY <1>1, <2>2
  <1> DEFINE I == {x \in 1..Len(w) : w[x] = "NUL"}
  <1>5. I = (Len(t) + 1)..RowLen
    BY <1>1, <1>3, <1>4
  <1>6. PICK at : at = IF I # {} THEN Min(I) ELSE 0
    OBVIOUS
  <1>7. Strlen(w) = at - 1
    BY <1>6 DEF Strlen, SelectInSeq
  <1> HIDE DEF I
  <1>8. at \in I /\ \A x \in I : at =< x
    <2>1. RowLen \in I /\ I \in SUBSET (1..RowLen)
      BY <1>1, <1>5
    <2> QED
      BY <1>1, <1>6, <2>1, FirstIndex
  <1>9. at = Len(t) + 1
    <2>1. Len(t) + 1 \in I
      BY <1>1, <1>5
    <2> QED
      BY <1>1, <1>5, <1>8, <2>1
  <1>10. PICK u : u = SubSeq(w, 1, Len(t))
    OBVIOUS
  <1>11. u \in Seq(Cell) /\ Len(u) = Len(t) /\ \A x \in 1..Len(t) : u[x] = t[x]
    BY <1>1, <1>3, <1>4, <1>10
  <1>12. u = t
    BY <1>11, SeqEqual
  <1>13. Text(w) = u
    <2>1. Strlen(w) = Len(t)
      BY <1>1, <1>7, <1>9
    <2> QED
      BY <1>10, <2>1 DEF Text
  <1> QED
    BY <1>2, <1>12, <1>13

\* The name of the r-th row, the first one being number 1
Name(D, r) == Before(D[r], ":")

\* The texts of a memory's rows: cells without a terminator, one of them a ':'
LEMMA RowsAre ==
  ASSUME NEW D, IsMemory(D), NEW r \in 1..Len(D)
  PROVE  /\ D[r] \in Seq(Cell) /\ Len(D[r]) \in Nat
         /\ Name(D, r) \in Seq(Cell)
         /\ \A x \in 1..Len(D[r]) : D[r][x] \in Cell /\ D[r][x] # "NUL"
         /\ \E x \in 1..Len(D[r]) : D[r][x] = ":"
  <1>1. D[r] \in Seq(Cell) /\ IsRowText(D[r])
    BY DEF IsMemory
  <1>2. Len(D[r]) \in Nat /\ Name(D, r) \in Seq(Cell)
    BY <1>1, BeforeType DEF Name
  <1>3. \A x \in 1..Len(D[r]) : D[r][x] \in Cell /\ D[r][x] # "NUL"
    BY <1>1, ToSetIs DEF IsRowText
  <1>4. \E x \in 1..Len(D[r]) : D[r][x] = ":"
    BY <1>1, ToSetIs DEF IsRowText
  <1> QED
    BY <1>1, <1>2, <1>3, <1>4

\* The rows of mem hold the texts of allServerData.
LEMMA MemoryIs ==
  ASSUME IsMemory(allServerData), NEW r \in 0..(Len(allServerData) - 1)
  PROVE  /\ Text(mem[r]) = allServerData[r + 1]
         /\ GetTopic(mem[r]) = Name(allServerData, r + 1)
  <1>1. r + 1 \in 1..Len(allServerData) /\ r < Len(allServerData) /\ r \in 0..(MAX_PUBLISHERS - 1)
    BY StoreAssumption DEF IsMemory
  <1>2. allServerData[r + 1] \in Seq(Cell) /\ IsRowText(allServerData[r + 1])
    BY <1>1 DEF IsMemory
  <1>3. mem[r] = Write(Blank, 0, allServerData[r + 1])
    BY <1>1 DEF mem
  <1>4. Text(mem[r]) = allServerData[r + 1]
    BY <1>2, <1>3, TextWritten
  <1> QED
    BY <1>4 DEF GetTopic, Name

-----------------------------------------------------------------------------
(* What the scan has copied.                                               *)

\* Of the first f rows, what their names have in common with the topic
Kept(D, T, f) == FlattenSeq([r \in 1..f |-> LongestCommonPrefix({Name(D, r), T})])

\* The rows behind the first f, up to the l-th
Served(D, f, l) == FlattenSeq(SubSeq(D, f + 1, l))

\* With one row more, Kept has what its name and the topic have in common.
LEMMA KeptGrows ==
  ASSUME NEW D, IsMemory(D), NEW T \in Seq(Cell)
  PROVE  /\ Kept(D, T, 0) = <<>>
         /\ \A f \in 0..Len(D) : Kept(D, T, f) \in Seq(Cell)
         /\ \A f \in 0..(Len(D) - 1) :
               Kept(D, T, f + 1) = Kept(D, T, f) \o LongestCommonPrefix({Name(D, f + 1), T})
  <1> DEFINE P(r) == LongestCommonPrefix({Name(D, r), T})
             Q(f) == [r \in 1..f |-> P(r)]
  <1>1. Len(D) \in Nat
    BY DEF IsMemory
  <1>2. \A r \in 1..Len(D) : P(r) \in Seq(Cell)
    BY RowsAre, LongestCommonPrefixIs
  <1>3. \A f : Kept(D, T, f) = FlattenSeq(Q(f))
    BY DEF Kept
  <1> HIDE DEF P
  <1>4. ASSUME NEW f \in 0..Len(D)
        PROVE  Q(f) \in Seq(Seq(Cell)) /\ Len(Q(f)) = f /\ f \in Nat
    <2>1. f \in Nat /\ \A r \in 1..f : P(r) \in Seq(Cell)
      BY <1>1, <1>2
    <2> QED
      BY <2>1
  <1>5. ASSUME NEW f \in 0..Len(D)
        PROVE  FlattenSeq(Q(f)) \in Seq(Cell)
    <2> HIDE DEF Q
    <2> QED
      BY <1>4, FlattenIs
  <1>6. Q(0) = <<>>
    OBVIOUS
  <1>7. ASSUME NEW f \in 0..(Len(D) - 1)
        PROVE  FlattenSeq(Q(f + 1)) = FlattenSeq(Q(f)) \o P(f + 1)
    <2>1. f \in 0..Len(D) /\ f + 1 \in 0..Len(D) /\ f + 1 \in 1..Len(D)
      BY <1>1
    <2>2. PICK p : p = P(f + 1)
      OBVIOUS
    <2>3. PICK q : q = Q(f)
      OBVIOUS
    <2>4. p \in Seq(Cell) /\ q \in Seq(Seq(Cell)) /\ Len(q) = f /\ f \in Nat
      BY <1>2, <1>4, <2>1, <2>2, <2>3
    <2>5. Q(f + 1) = Append(q, p)
      <3>1. PICK u, v : u = Q(f + 1) /\ v = Append(q, p)
        OBVIOUS
      <3>2. u \in Seq(Seq(Cell)) /\ Len(u) = f + 1 /\ \A r \in 1..(f + 1) : u[r] = P(r)
        BY <1>4, <2>1, <3>1
      <3>3. v \in Seq(Seq(Cell)) /\ Len(v) = f + 1 /\ v[f + 1] = p /\ \A r \in 1..f : v[r] = q[r]
        BY <2>4, <3>1
      <3>4. \A r \in 1..f : q[r] = P(r)
        BY <2>3
      <3>5. \A r \in 1..(f + 1) : u[r] = v[r]
        <4> SUFFICES ASSUME NEW r \in 1..(f + 1) PROVE u[r] = v[r]
          OBVIOUS
        <4>1. u[r] = P(r)
          BY <3>2
        <4>2. CASE r \in 1..f
          BY <3>3, <3>4, <4>1, <4>2
        <4>3. CASE r = f + 1
          BY <2>2, <3>3, <4>1, <4>3
        <4> QED
          BY <2>4, <4>2, <4>3
      <3>6. u = v
        BY <3>2, <3>3, <3>5, SeqEqual
      <3> QED
        BY <3>1, <3>6
    <2>6. FlattenSeq(Append(q, p)) = FlattenSeq(q) \o p
      BY <2>4, FlattenAppend
    <2> QED
      BY <2>2, <2>3, <2>5, <2>6
  <1>8. FlattenSeq(<<>>) = <<>>
    BY DEF FlattenSeq
  <1> HIDE DEF Q
  <1> QED
    BY <1>3, <1>5, <1>6, <1>7, <1>8 DEF P

\* With one row more, Served has its text.
LEMMA ServedGrows ==
  ASSUME NEW D, IsMemory(D), NEW f \in 0..Len(D)
  PROVE  /\ Served(D, f, f) = <<>>
         /\ \A l \in f..Len(D) : Served(D, f, l) \in Seq(Cell)
         /\ \A l \in f..(Len(D) - 1) : Served(D, f, l + 1) = Served(D, f, l) \o D[l + 1]
  <1>1. Len(D) \in Nat /\ D \in Seq(Seq(Cell)) /\ f \in Nat
    BY DEF IsMemory
  <1>2. SubSeq(D, f + 1, f) = <<>>
    BY <1>1
  <1>3. ASSUME NEW l \in f..Len(D)
        PROVE  Served(D, f, l) \in Seq(Cell)
    <2>1. SubSeq(D, f + 1, l) \in Seq(Seq(Cell))
      BY <1>1
    <2> QED
      BY <2>1, FlattenIs DEF Served
  <1>4. ASSUME NEW l \in f..(Len(D) - 1)
        PROVE  Served(D, f, l + 1) = Served(D, f, l) \o D[l + 1]
    <2>1. PICK q : q = SubSeq(D, f + 1, l)
      OBVIOUS
    <2>2. PICK e : e = D[l + 1]
      OBVIOUS
    <2>3. /\ q \in Seq(Seq(Cell)) /\ Len(q) = l - f /\ e \in Seq(Cell) /\ l \in Nat /\ f =< l
          /\ \A r \in 1..(l - f) : q[r] = D[f + r]
      BY <1>1, <2>1, <2>2, SMTT(40)
    <2>4. PICK u, v : u = SubSeq(D, f + 1, l + 1) /\ v = Append(q, e)
      OBVIOUS
    <2>5. /\ u \in Seq(Seq(Cell)) /\ Len(u) = (l - f) + 1
          /\ \A r \in 1..((l - f) + 1) : u[r] = D[f + r]
      <3>1. /\ f + 1 \in Int /\ l + 1 \in Int /\ f + 1 <= l + 1
            /\ (l + 1) - (f + 1) + 1 = (l - f) + 1
        BY <1>1, <2>3, SMTT(40)
      <3>5. \A r \in (f + 1)..(l + 1) : r \in 1..Len(D)
        BY <1>1, <2>3, SMTT(40)
      <3>2. \A r \in (f + 1)..(l + 1) : D[r] \in Seq(Cell)
        BY <1>1, <3>5
      <3>3. /\ SubSeq(D, f + 1, l + 1) \in Seq(Seq(Cell))
            /\ Len(SubSeq(D, f + 1, l + 1)) = (l - f) + 1
            /\ \A r \in 1..((l - f) + 1) : SubSeq(D, f + 1, l + 1)[r] = D[(f + 1) + r - 1]
        BY <3>1, <3>2, SubSeqProperties
      <3>4. \A r \in 1..((l - f) + 1) : (f + 1) + r - 1 = f + r
        BY <1>1, <2>3
      <3> QED
        BY <2>4, <3>3, <3>4
    <2>6. /\ v \in Seq(Seq(Cell)) /\ Len(v) = (l - f) + 1
          /\ v[(l - f) + 1] = e /\ \A r \in 1..(l - f) : v[r] = q[r]
      <3>1. /\ v \in Seq(Seq(Cell)) /\ Len(v) = Len(q) + 1
            /\ v[Len(q) + 1] = e /\ \A r \in 1..Len(q) : v[r] = q[r]
        <4>1. /\ Append(q, e) \in Seq(Seq(Cell)) /\ Len(Append(q, e)) = Len(q) + 1
              /\ \A r \in 1..Len(q) : Append(q, e)[r] = q[r]
          BY <2>3, AppendProperties
        <4>2. Append(q, e)[Len(q) + 1] = e
          BY <2>3, AppendProperties
        <4> QED
          BY <2>4, <4>1, <4>2, Zenon
      <3> QED
        BY <2>3, <3>1, Zenon
    <2>7. \A r \in 1..((l - f) + 1) : u[r] = v[r]
      <3> SUFFICES ASSUME NEW r \in 1..((l - f) + 1) PROVE u[r] = v[r]
        OBVIOUS
      <3>1. CASE r \in 1..(l - f)
        BY <2>3, <2>5, <2>6, <3>1
      <3>2. CASE r = (l - f) + 1
        <4>1. f + r = l + 1
          BY <1>1, <2>3, <3>2, SMTT(40)
        <4> QED
          BY <2>2, <2>5, <2>6, <3>2, <4>1
      <3> QED
        BY <1>1, <2>3, <3>1, <3>2, SMTT(40)
    <2>8. u = v
      BY <2>5, <2>6, <2>7, SeqEqual
    <2>9. FlattenSeq(Append(q, e)) = FlattenSeq(q) \o e
      BY <2>3, FlattenAppend
    <2> QED
      BY <2>1, <2>2, <2>4, <2>8, <2>9 DEF Served
  <1>5. Served(D, f, f) = <<>>
    <2>1. FlattenSeq(<<>>) = <<>>
      BY DEF FlattenSeq
    <2> QED
      BY <1>2, <2>1, Zenon DEF Served
  <1> QED
    BY <1>3, <1>4, <1>5, Zenon

\* The reply starts from the row behind the first f.
First(D, T, f) ==
    /\ f \in 0..Len(D)
    /\ \A r \in 1..f : ~ IsPrefix(Name(D, r), T)
    /\ f < Len(D) => IsPrefix(Name(D, f + 1), T)

\* The reply of TopicStore, said with Kept and Served
LEMMA ReplyIs ==
  ASSUME IsMemory(allServerData), NEW f, First(allServerData, currentTopic, f)
  PROVE  TopicReply(mem, publisherCounter, currentTopic)
            = Kept(allServerData, currentTopic, f)
                \o Before(Served(allServerData, f, Len(allServerData)), "TICK") \o <<"TICK">>
  <1> DEFINE D == allServerData
             n == Len(D)
             matching == {r \in 0..(n - 1) : IsPrefix(GetTopic(mem[r]), currentTopic)}
             first == IF matching = {} THEN n ELSE CHOOSE x \in matching : \A l \in matching : x <= l
             matched(m) == [r \in 1..m |-> LongestCommonPrefix({GetTopic(mem[r - 1]), currentTopic})]
             served(m) == [r \in 1..(n - m) |-> Text(mem[m + r - 1])]
  <1>1. n \in Nat /\ D \in Seq(Seq(Cell)) /\ f \in 0..n /\ f \in Nat
    BY DEF IsMemory, First
  <1>2. \A r \in 0..(n - 1) : GetTopic(mem[r]) = Name(D, r + 1) /\ Text(mem[r]) = D[r + 1]
    BY MemoryIs
  <1>3. TopicReply(mem, publisherCounter, currentTopic)
            = FlattenSeq(matched(first)) \o Before(FlattenSeq(served(first)), "TICK") \o <<"TICK">>
    BY Zenon DEF TopicReply, publisherCounter
  <1>4. \A r \in 0..(f - 1) : r \in 0..(n - 1) /\ r \notin matching
    <2> SUFFICES ASSUME NEW r \in 0..(f - 1) PROVE r \in 0..(n - 1) /\ r \notin matching
      OBVIOUS
    <2>1. r \in 0..(n - 1) /\ r + 1 \in 1..f
      BY <1>1
    <2> QED
      BY <1>2, <2>1 DEF First
  <1>5. f < n => f \in matching
    <2>1. f < n => f \in 0..(n - 1)
      BY <1>1
    <2> QED
      BY <1>2, <2>1 DEF First
  <1>6. \A r \in matching : r \in 0..(n - 1) /\ f =< r
    BY <1>1, <1>4
  <1>7. first = f
    <2>1. CASE f = n
      <3>1. matching = {}
        BY <1>1, <1>6, <2>1, SMTT(40)
      <3> QED
        BY <2>1, <3>1
    <2>2. CASE f < n
      <3>1. f \in matching /\ \A l \in matching : f <= l
        BY <1>5, <1>6, <2>2
      <3>2. \A x \in matching : (\A l \in matching : x <= l) => x = f
        BY <1>1, <1>6, <3>1
      <3> HIDE DEF matching
      <3>3. (CHOOSE x \in matching : \A l \in matching : x <= l) = f
        BY <3>1, <3>2
      <3> QED
        BY <3>1, <3>3
    <2>3. f = n \/ f < n
      BY <1>1
    <2> HIDE DEF first, matching
    <2> QED
      BY <2>1, <2>2, <2>3
  <1> HIDE DEF first, matching
  <1>8. FlattenSeq(matched(f)) = Kept(D, currentTopic, f)
    <2>1. \A r \in 1..f : GetTopic(mem[r - 1]) = Name(D, r)
      <3> SUFFICES ASSUME NEW r \in 1..f PROVE GetTopic(mem[r - 1]) = Name(D, r)
        OBVIOUS
      <3>1. r - 1 \in 0..(n - 1) /\ (r - 1) + 1 = r
        BY <1>1
      <3> QED
        BY <1>2, <3>1
    <2>2. matched(f) = [r \in 1..f |-> LongestCommonPrefix({Name(D, r), currentTopic})]
      BY <2>1, Zenon
    <2> HIDE DEF matched
    <2> QED
      BY <2>2 DEF Kept
  <1>9. served(f) = SubSeq(D, f + 1, n)
    <2>1. PICK u, v : u = served(f) /\ v = SubSeq(D, f + 1, n)
      OBVIOUS
    <2>2. v \in Seq(Seq(Cell)) /\ Len(v) = n - f /\ \A r \in 1..(n - f) : v[r] = D[f + r]
      BY <1>1, <2>1, SMTT(40)
    <2>3. \A r \in 1..(n - f) : Text(mem[f + r - 1]) = D[f + r] /\ D[f + r] \in Seq(Cell)
      <3> SUFFICES ASSUME NEW r \in 1..(n - f)
                   PROVE  Text(mem[f + r - 1]) = D[f + r] /\ D[f + r] \in Seq(Cell)
        OBVIOUS
      <3>1. f + r - 1 \in 0..(n - 1) /\ (f + r - 1) + 1 = f + r /\ f + r \in 1..n
        BY <1>1
      <3> QED
        BY <1>1, <1>2, <3>1
    <2>4. u = [r \in 1..(n - f) |-> D[f + r]]
      BY <2>1, <2>3, Zenon
    <2>5. n - f \in Nat
      BY <1>1
    <2>6. u \in Seq(Seq(Cell)) /\ Len(u) = n - f /\ \A r \in 1..(n - f) : u[r] = D[f + r]
      BY <2>3, <2>4, <2>5
    <2>7. u = v
      BY <2>2, <2>6, SeqEqual
    <2> QED
      BY <2>1, <2>7
  <1> HIDE DEF matched, served
  <1>10. FlattenSeq(served(f)) = Served(D, f, n)
    BY <1>9 DEF Served
  <1> QED
    BY <1>3, <1>7, <1>8, <1>10

\* The rows served go on behind the first ones.
LEMMA ServedRest ==
  ASSUME NEW D, IsMemory(D), NEW f \in 0..Len(D), NEW m \in f..Len(D)
  PROVE  \E rest \in Seq(Cell) : Served(D, f, Len(D)) = Served(D, f, m) \o rest
  <1> DEFINE Goes(l) == \E rest \in Seq(Cell) : Served(D, f, l) = Served(D, f, m) \o rest
             Good == {l \in 0..Len(D) : l < m \/ Goes(l)}
  <1>1. Len(D) \in Nat /\ f \in Nat /\ m \in Nat /\ f =< m /\ m =< Len(D)
    BY DEF IsMemory
  <1>2. Goes(m)
    <2>1. Served(D, f, m) \in Seq(Cell)
      BY ServedGrows
    <2>2. Served(D, f, m) = Served(D, f, m) \o <<>> /\ <<>> \in Seq(Cell)
      BY <2>1, ConcatEmptySeq
    <2> QED
      BY <2>2
  <1>3. ASSUME NEW l \in (m + 1)..Len(D), Goes(l - 1)
        PROVE  Goes(l)
    <2>1. l - 1 \in f..(Len(D) - 1) /\ (l - 1) + 1 = l /\ l \in 1..Len(D)
      BY <1>1
    <2>2. PICK rest \in Seq(Cell) : Served(D, f, l - 1) = Served(D, f, m) \o rest
      BY <1>3
    <2>3. PICK a, b : a = Served(D, f, m) /\ b = D[l]
      OBVIOUS
    <2>4. a \in Seq(Cell) /\ b \in Seq(Cell)
      BY <2>1, <2>3, ServedGrows, RowsAre
    <2>5. Served(D, f, l) = (a \o rest) \o b
      <3>1. Served(D, f, (l - 1) + 1) = Served(D, f, l - 1) \o D[(l - 1) + 1]
        BY <2>1, ServedGrows
      <3> QED
        BY <2>1, <2>2, <2>3, <3>1
    <2>6. (a \o rest) \o b = a \o (rest \o b)
      BY <2>4, ConcatAssociates, SMTT(40)
    <2>7. rest \o b \in Seq(Cell)
      BY <2>4, ConcatProperties
    <2> QED
      BY <2>3, <2>5, <2>6, <2>7
  <1> HIDE DEF Goes
  <1>4. 0..Len(D) \subseteq Good
    <2>1. 0 \in Good
      BY <1>1, <1>2
    <2>2. \A l \in 1..Len(D) : l - 1 \in Good => l \in Good
      <3> SUFFICES ASSUME NEW l \in 1..Len(D), l - 1 \in Good PROVE l \in Good
        OBVIOUS
      <3>1. CASE l < m
        BY <3>1
      <3>2. CASE l = m
        BY <1>2, <3>2
      <3>3. CASE m < l
        <4>1. l \in (m + 1)..Len(D) /\ ~ (l - 1 < m)
          BY <1>1, <3>3
        <4> QED
          BY <1>3, <4>1
      <3> QED
        BY <1>1, <3>1, <3>2, <3>3
    <2> HIDE DEF Good
    <2> QED
      BY <1>1, <2>1, <2>2, UpTo
  <1>5. Len(D) \in 0..Len(D) /\ ~ (Len(D) < m)
    BY <1>1
  <1>6. Goes(Len(D))
    BY <1>4, <1>5
  <1> QED
    BY <1>6 DEF Goes

\* What is in front of a TICK that comes first
LEMMA BeforeTick ==
  ASSUME NEW a \in Seq(Cell), NEW b \in Seq(Cell), NEW rest \in Seq(Cell), NEW m \in 0..(Len(b) - 1),
         b[m + 1] = "TICK",
         \A x \in 1..Len(a) : a[x] # "TICK", \A x \in 1..m : b[x] # "TICK"
  PROVE  Before((a \o b) \o rest, "TICK") = a \o SubSeq(b, 1, m)
  <1>1. Len(a) \in Nat /\ Len(b) \in Nat /\ m \in Nat /\ m < Len(b) /\ Len(rest) \in Nat
    OBVIOUS
  <1>2. PICK c : c = a \o b
    OBVIOUS
  <1>3. PICK d : d = c \o rest
    OBVIOUS
  <1>4. /\ c \in Seq(Cell) /\ Len(c) = Len(a) + Len(b)
        /\ \A x \in 1..(Len(a) + Len(b)) : c[x] = IF x <= Len(a) THEN a[x] ELSE b[x - Len(a)]
    BY <1>2
  <1>5. /\ d \in Seq(Cell) /\ Len(d) = Len(c) + Len(rest)
        /\ \A x \in 1..Len(c) : d[x] = c[x]
    <2>1. c \in Seq(Cell) /\ Len(c) \in Nat
      BY <1>4
    <2> QED
      BY <1>1, <1>3, <2>1, ConcatProperties
  <1>6. d[Len(a) + m + 1] = "TICK" /\ Len(a) + m \in 0..(Len(d) - 1)
    <2>1. /\ Len(a) + m + 1 \in 1..Len(c) /\ Len(a) + m + 1 \in 1..(Len(a) + Len(b)) /\ ~ (Len(a) + m + 1 <= Len(a))
          /\ (Len(a) + m + 1) - Len(a) = m + 1
      BY <1>1, <1>4
    <2>2. Len(a) + m \in 0..(Len(d) - 1)
      BY <1>1, <1>4, <1>5
    <2> QED
      BY <1>4, <1>5, <2>1, <2>2
  <1>7. ASSUME NEW x \in 1..(Len(a) + m)
        PROVE  d[x] # "TICK" /\ x \in 1..Len(c) /\ d[x] = IF x <= Len(a) THEN a[x] ELSE b[x - Len(a)]
    <2>1. x \in 1..Len(c) /\ x \in 1..(Len(a) + Len(b))
      BY <1>1, <1>4
    <2>2. d[x] = IF x <= Len(a) THEN a[x] ELSE b[x - Len(a)]
      BY <1>4, <1>5, <2>1
    <2>3. CASE x <= Len(a)
      BY <2>1, <2>2, <2>3
    <2>4. CASE ~ (x <= Len(a))
      <3>1. x - Len(a) \in 1..m
        BY <1>1, <2>4
      <3> QED
        BY <2>1, <2>2, <2>4, <3>1
    <2> QED
      BY <2>3, <2>4
  <1>8. Before(d, "TICK") = SubSeq(d, 1, Len(a) + m)
    <2>1. PICK k0 : k0 = Len(a) + m
      OBVIOUS
    <2>2. k0 \in 0..(Len(d) - 1) /\ d[k0 + 1] = "TICK" /\ \A x \in 1..k0 : d[x] # "TICK"
      BY <1>6, <1>7, <2>1
    <2>3. Before(d, "TICK") = SubSeq(d, 1, k0)
      BY <1>5, <2>2, BeforeIs
    <2> QED
      BY <2>1, <2>3
  <1>9. SubSeq(d, 1, Len(a) + m) = a \o SubSeq(b, 1, m)
    <2>1. PICK u, v, w : u = SubSeq(d, 1, Len(a) + m) /\ v = SubSeq(b, 1, m) /\ w = a \o v
      OBVIOUS
    <2>2. v \in Seq(Cell) /\ Len(v) = m /\ \A x \in 1..m : v[x] = b[x]
      BY <1>1, <2>1
    <2>3. w \in Seq(Cell) /\ Len(w) = Len(a) + m
          /\ \A x \in 1..(Len(a) + m) : w[x] = IF x <= Len(a) THEN a[x] ELSE v[x - Len(a)]
      BY <1>1, <2>1, <2>2
    <2>4. u \in Seq(Cell) /\ Len(u) = Len(a) + m /\ \A x \in 1..(Len(a) + m) : u[x] = d[x]
      BY <1>1, <1>4, <1>5, <2>1
    <2>5. \A x \in 1..(Len(a) + m) : u[x] = w[x]
      <3> SUFFICES ASSUME NEW x \in 1..(Len(a) + m) PROVE u[x] = w[x]
        OBVIOUS
      <3>1. ~ (x <= Len(a)) => x - Len(a) \in 1..m
        BY <1>1
      <3>2. u[x] = IF x <= Len(a) THEN a[x] ELSE b[x - Len(a)]
        BY <1>7, <2>4
      <3>3. w[x] = IF x <= Len(a) THEN a[x] ELSE v[x - Len(a)]
        BY <2>3
      <3> QED
        BY <2>2, <3>1, <3>2, <3>3
    <2>6. u = w
      BY <2>3, <2>4, <2>5, SeqEqual
    <2> QED
      BY <2>1, <2>6
  <1> QED
    BY <1>2, <1>3, <1>8, <1>9

-----------------------------------------------------------------------------
(* The invariant.                                                          *)

Types ==
    /\ IsMemory(allServerData)
    /\ currentTopic \in Seq(Letter)
    /\ pc \in {"row", "cell", "sent"}
    /\ i \in 0..Len(allServerData)
    /\ k \in 0..Len(currentTopic)
    /\ finished \in BOOLEAN
    /\ done \in BOOLEAN
    /\ onTopicData \in Seq(Cell)
    /\ pc = "cell" => i < Len(allServerData) /\ j \in 0..Len(row) /\ ~ done

\* What has been passed of the row
Part == IF pc = "cell" THEN SubSeq(row, 1, j) ELSE <<>>

\* Until a name has matched, no row passed has one that does, and of the row the scan is
\* in what has been passed is a part of the topic.
LooksUp ==
    ~ finished =>
        /\ ~ done
        /\ \A r \in 1..i : ~ IsPrefix(Name(allServerData, r), currentTopic)
        /\ pc = "row" => k = 0
        /\ pc = "cell" => k = j /\ \A x \in 1..j : row[x] # ":" /\ row[x] = currentTopic[x]
        /\ pc # "sent" => onTopicData = Kept(allServerData, currentTopic, i) \o Part

\* Afterwards u is copied behind it, up to a TICK.
Copied(f, u) ==
    /\ First(allServerData, currentTopic, f) /\ f < Len(allServerData)
    /\ onTopicData = Kept(allServerData, currentTopic, f) \o u
    /\ IF done THEN u = Before(Served(allServerData, f, Len(allServerData)), "TICK")
       ELSE u = Served(allServerData, f, i) \o Part /\ \A x \in 1..Len(u) : u[x] # "TICK"

Serves == finished /\ pc # "sent" => \E f \in 0..i : \E u \in Seq(Cell) : Copied(f, u)

\* Nothing is copied twice.
Short ==
    Len(onTopicData) <= Len(FlattenSeq(SubSeq(allServerData, 1, i)))
                          + (IF pc = "cell" THEN j ELSE IF pc = "sent" THEN 1 ELSE 0)

SInv == Types /\ LooksUp /\ Serves /\ ScanComputesReply /\ Short

-----------------------------------------------------------------------------
(* The letters, the row the scan is in, what has been passed of it.        *)

\* Letters are cells that are none of the special ones.
LEMMA Letters == \A c \in Letter : c \in Cell /\ c \notin {":", " ", "TICK", "NUL", "NL"}
  BY StoreAssumption DEF Cell, Special

\* The topic as a sequence of cells
LEMMA TopicIs ==
  ASSUME Types
  PROVE  /\ currentTopic \in Seq(Cell)
         /\ Len(currentTopic) \in Nat
         /\ \A x \in 1..Len(currentTopic) : currentTopic[x] \in Letter
  <1>1. currentTopic \in Seq(Letter) /\ Letter \subseteq Cell
    BY DEF Types, Cell
  <1>2. \A x \in 1..Len(currentTopic) : currentTopic[x] \in Letter
    BY <1>1
  <1>3. currentTopic \in Seq(Cell)
    BY <1>1
  <1> QED
    BY <1>1, <1>2, <1>3

\* The character compared, the terminator behind the topic included
LEMMA TopicCharIs ==
  ASSUME Types
  PROVE  TopicChar = IF k < Len(currentTopic) THEN currentTopic[k + 1] ELSE "NUL"
  <1>1. currentTopic \in Seq(Cell) /\ Len(currentTopic) \in Nat /\ k \in 0..Len(currentTopic)
    BY TopicIs DEF Types
  <1>2. PICK e : e = <<"NUL">>
    OBVIOUS
  <1>3. e \in Seq(Cell) /\ Len(e) = 1 /\ e[1] = "NUL"
    <2>1. "NUL" \in Cell
      BY DEF Cell, Special
    <2> QED
      BY <1>2, <2>1
  <1>4. \A x \in 1..(Len(currentTopic) + 1) :
           (currentTopic \o e)[x] = IF x <= Len(currentTopic) THEN currentTopic[x]
                                    ELSE e[x - Len(currentTopic)]
    <2>1. PICK T \in Seq(Cell) : T = currentTopic
      BY <1>1
    <2>2. \A x \in 1..Len(T) + Len(e) : (T \o e)[x] = IF x <= Len(T) THEN T[x] ELSE e[x - Len(T)]
      BY <1>3, ConcatProperties
    <2> QED
      BY <1>3, <2>1, <2>2
  <1>5. k + 1 \in 1..(Len(currentTopic) + 1)
    BY <1>1
  <1>6. (currentTopic \o e)[k + 1]
           = IF k + 1 <= Len(currentTopic) THEN currentTopic[k + 1] ELSE e[(k + 1) - Len(currentTopic)]
    BY <1>4, <1>5
  <1>7. ~ (k < Len(currentTopic)) => (k + 1) - Len(currentTopic) = 1
    BY <1>1
  <1>8. k < Len(currentTopic) <=> k + 1 <= Len(currentTopic)
    BY <1>1
  <1> QED
    BY <1>2, <1>3, <1>6, <1>7, <1>8 DEF TopicChar

\* The row the scan is in
LEMMA RowIs ==
  ASSUME Types, pc = "cell"
  PROVE  /\ i + 1 \in 1..Len(allServerData) /\ i \in 0..(Len(allServerData) - 1)
         /\ row = allServerData[i + 1]
         /\ row \in Seq(Cell) /\ Len(row) \in Nat /\ j \in 0..Len(row)
         /\ \A x \in 1..Len(row) : row[x] \in Cell /\ row[x] # "NUL"
         /\ \E x \in 1..Len(row) : row[x] = ":"
  <1>1. /\ i + 1 \in 1..Len(allServerData) /\ i \in 0..(Len(allServerData) - 1)
    BY DEF Types, IsMemory
  <1>2. PICK t : t = allServerData[i + 1]
    OBVIOUS
  <1>3. /\ t \in Seq(Cell) /\ Len(t) \in Nat
        /\ \A x \in 1..Len(t) : t[x] \in Cell /\ t[x] # "NUL"
        /\ \E x \in 1..Len(t) : t[x] = ":"
    BY <1>1, <1>2, RowsAre DEF Types
  <1> QED
    BY <1>1, <1>2, <1>3 DEF row, Types

\* A concatenation that has a name
LEMMA ConcatIs ==
  ASSUME NEW S, NEW s \in Seq(S), NEW v \in Seq(S), NEW n, n = Len(v), NEW a, a = s \o v
  PROVE  /\ a \in Seq(S) /\ Len(a) = Len(s) + n
         /\ \A x \in 1..(Len(s) + n) : a[x] = IF x <= Len(s) THEN s[x] ELSE v[x - Len(s)]
  <1>1. Len(s) \in Nat /\ n \in Nat
    OBVIOUS
  <1> QED
    BY <1>1

\* What has been passed of a row, and one cell more
LEMMA PassedIs ==
  ASSUME NEW t \in Seq(Cell), NEW m \in 0..Len(t)
  PROVE  /\ SubSeq(t, 1, m) \in Seq(Cell) /\ Len(SubSeq(t, 1, m)) = m
         /\ \A x \in 1..m : SubSeq(t, 1, m)[x] = t[x]
         /\ SubSeq(t, 1, 0) = <<>>
         /\ SubSeq(t, 1, Len(t)) = t
         /\ m < Len(t) => \A s \in Seq(Cell) :
                 Append(s \o SubSeq(t, 1, m), t[m + 1]) = s \o SubSeq(t, 1, m + 1)
  <1>1. Len(t) \in Nat /\ m \in Nat /\ m =< Len(t)
    OBVIOUS
  <1>2. PICK v : v = SubSeq(t, 1, m)
    OBVIOUS
  <1>3. v \in Seq(Cell) /\ Len(v) = m /\ \A x \in 1..m : v[x] = t[x]
    BY <1>1, <1>2
  <1>4. SubSeq(t, 1, 0) = <<>> /\ SubSeq(t, 1, Len(t)) = t
    OBVIOUS
  <1>5. ASSUME m < Len(t), NEW s \in Seq(Cell)
        PROVE  Append(s \o v, t[m + 1]) = s \o SubSeq(t, 1, m + 1)
    <2>1. PICK w : w = SubSeq(t, 1, m + 1)
      OBVIOUS
    <2>2. w \in Seq(Cell) /\ Len(w) = m + 1 /\ \A x \in 1..(m + 1) : w[x] = t[x]
      BY <1>1, <1>5, <2>1
    <2>3. m + 1 \in 1..Len(t) /\ t[m + 1] \in Cell /\ Len(s) \in Nat
      BY <1>1, <1>5
    <2>4. PICK a, b, c : a = s \o v /\ b = Append(a, t[m + 1]) /\ c = s \o w
      OBVIOUS
    <2>5. /\ a \in Seq(Cell) /\ Len(a) = Len(s) + m
          /\ \A x \in 1..(Len(s) + m) : a[x] = IF x <= Len(s) THEN s[x] ELSE v[x - Len(s)]
      <3>1. Len(s \o v) = Len(s) + Len(v)
        BY <1>3, ConcatProperties
      <3>2. Len(a) = Len(s) + m
        BY <1>3, <2>4, <3>1, Zenon
      <3>3. a \in Seq(Cell)
        BY <1>3, <2>4
      <3>4. \A x \in 1..(Len(s) + m) : a[x] = IF x <= Len(s) THEN s[x] ELSE v[x - Len(s)]
        <4>1. m = Len(v)
          BY <1>3
        <4> QED
          BY <1>3, <2>4, <4>1, ConcatIs
      <3> QED
        BY <3>2, <3>3, <3>4
    <2>6. /\ b \in Seq(Cell) /\ Len(b) = Len(s) + m + 1 /\ b[Len(s) + m + 1] = t[m + 1]
          /\ \A x \in 1..(Len(s) + m) : b[x] = a[x]
      BY <2>3, <2>4, <2>5
    <2>7. /\ c \in Seq(Cell) /\ Len(c) = Len(s) + m + 1
          /\ \A x \in 1..(Len(s) + m + 1) : c[x] = IF x <= Len(s) THEN s[x] ELSE w[x - Len(s)]
      <3>1. PICK n : n = m + 1
        OBVIOUS
      <3>2. /\ c \in Seq(Cell) /\ Len(c) = Len(s) + n
            /\ \A x \in 1..(Len(s) + n) : c[x] = IF x <= Len(s) THEN s[x] ELSE w[x - Len(s)]
        <4>1. Len(s \o w) = Len(s) + Len(w)
          BY <2>2, ConcatProperties
        <4>2. Len(c) = Len(s) + n
          BY <2>2, <2>4, <3>1, <4>1, Zenon
        <4>3. c \in Seq(Cell)
          BY <2>2, <2>4
        <4>4. n = Len(w)
          BY <2>2, <3>1
        <4>5. \A x \in 1..(Len(s) + n) : c[x] = IF x <= Len(s) THEN s[x] ELSE w[x - Len(s)]
          BY <2>2, <2>4, <4>4, ConcatIs
        <4> QED
          BY <4>2, <4>3, <4>5
      <3>3. Len(s) + n = Len(s) + m + 1
        BY <1>1, <2>3, <3>1
      <3> QED
        BY <3>2, <3>3
    <2>8. ASSUME NEW x \in 1..(Len(s) + m + 1)
          PROVE  b[x] = c[x]
      <3>1. c[x] = IF x <= Len(s) THEN s[x] ELSE w[x - Len(s)]
        BY <2>7
      <3>2. CASE x = Len(s) + m + 1
        <4>1. ~ (x <= Len(s)) /\ x - Len(s) = m + 1 /\ m + 1 \in 1..(m + 1)
          BY <1>1, <2>3, <3>2
        <4> QED
          BY <2>2, <2>6, <3>1, <3>2, <4>1
      <3>3. CASE x # Len(s) + m + 1 /\ x <= Len(s)
        <4>1. x \in 1..(Len(s) + m)
          BY <1>1, <2>3, <3>3
        <4> QED
          BY <2>5, <2>6, <3>1, <3>3, <4>1
      <3>4. CASE x # Len(s) + m + 1 /\ ~ (x <= Len(s))
        <4>1. x \in 1..(Len(s) + m) /\ x - Len(s) \in 1..m /\ x - Len(s) \in 1..(m + 1)
          BY <1>1, <2>3, <3>4
        <4>2. b[x] = v[x - Len(s)]
          BY <2>5, <2>6, <3>4, <4>1
        <4> QED
          BY <1>3, <2>2, <3>1, <3>4, <4>1, <4>2
      <3> QED
        BY <3>2, <3>3, <3>4
    <2>9. b = c
      BY <2>6, <2>7, <2>8, SeqEqual
    <2> QED
      BY <2>1, <2>4, <2>9
  <1> QED
    BY <1>2, <1>3, <1>4, <1>5

\* The name of a row
LEMMA NameIs ==
  ASSUME NEW D, IsMemory(D), NEW r \in 1..Len(D)
  PROVE  \E m \in 0..(Len(D[r]) - 1) :
            /\ D[r][m + 1] = ":" /\ \A x \in 1..m : D[r][x] # ":"
            /\ Name(D, r) \in Seq(Cell) /\ Len(Name(D, r)) = m
            /\ \A x \in 1..m : Name(D, r)[x] = D[r][x]
  <1>1. PICK t \in Seq(Cell) : t = D[r]
    BY RowsAre
  <1>2. Len(t) \in Nat /\ \E x \in 1..Len(t) : t[x] = ":"
    BY <1>1, RowsAre
  <1> DEFINE I == {x \in 1..Len(t) : t[x] = ":"}
  <1>3. PICK y \in I : \A x \in I : y =< x
    <2>1. I \in SUBSET Nat /\ I # {}
      BY <1>2
    <2> HIDE DEF I
    <2> QED
      BY <2>1, MinOfNats
  <1>4. y \in 1..Len(t) /\ t[y] = ":" /\ y - 1 \in 0..(Len(t) - 1) /\ (y - 1) + 1 = y /\ y - 1 \in 0..Len(t)
    BY <1>2, <1>3
  <1>5. \A x \in 1..(y - 1) : t[x] # ":"
    <2>1. \A x \in 1..(y - 1) : x \in 1..Len(t) /\ ~ (y =< x)
      BY <1>2, <1>4
    <2> QED
      BY <1>3, <2>1
  <1>6. Before(t, ":") = SubSeq(t, 1, y - 1)
    BY <1>4, <1>5, BeforeIs
  <1>7. /\ SubSeq(t, 1, y - 1) \in Seq(Cell) /\ Len(SubSeq(t, 1, y - 1)) = y - 1
        /\ \A x \in 1..(y - 1) : SubSeq(t, 1, y - 1)[x] = t[x]
    BY <1>4, PassedIs
  <1> QED
    BY <1>1, <1>4, <1>5, <1>6, <1>7 DEF Name

\* The invariant holds before the first row.
LEMMA InitSInv == ScanInit => SInv
  <1> SUFFICES ASSUME ScanInit PROVE SInv
    OBVIOUS
  <1> USE DEF ScanInit
  <1>1. IsMemory(allServerData) /\ currentTopic \in Seq(Letter)
    BY ScanAssumption DEF IsMemory
  <1>2. Len(allServerData) \in Nat /\ Len(currentTopic) \in Nat
    BY <1>1 DEF IsMemory
  <1>3. Types
    <2>1. <<>> \in Seq(Cell) /\ 0 \in 0..Len(allServerData) /\ 0 \in 0..Len(currentTopic)
      BY <1>2
    <2> QED
      BY <1>1, <2>1 DEF Types
  <1>4. Part = <<>> /\ Kept(allServerData, currentTopic, 0) = <<>>
    BY <1>1, <1>3, TopicIs, KeptGrows DEF Part
  <1>5. LooksUp
    <2>1. <<>> \o <<>> = <<>>
      OBVIOUS
    <2> QED
      BY <1>4, <2>1 DEF LooksUp
  <1>6. Short
    <2>1. 0 \in 0..Len(allServerData)
      BY <1>2
    <2>2. Served(allServerData, 0, 0) = <<>>
      BY <1>1, <2>1, ServedGrows
    <2>3. FlattenSeq(SubSeq(allServerData, 1, 0)) = <<>>
      BY <2>2 DEF Served
    <2> QED
      BY <2>3 DEF Short
  <1> QED
    BY <1>3, <1>5, <1>6 DEF SInv, Serves, ScanComputesReply

\* A character behind a concatenation goes behind its second part.
LEMMA AppendBehind ==
  ASSUME NEW a \in Seq(Cell), NEW b \in Seq(Cell), NEW c \in Cell
  PROVE  /\ Append(a \o b, c) = a \o Append(b, c)
         /\ Append(a, c) = a \o <<c>>
  <1>1. PICK t : t = Append(b, c)
    OBVIOUS
  <1>2. /\ t \in Seq(Cell) /\ Len(t) = Len(b) + 1 /\ Len(b) \in 0..Len(t) /\ Len(b) < Len(t)
        /\ t[Len(b) + 1] = c /\ \A x \in 1..Len(b) : t[x] = b[x]
    <2>1. /\ t \in Seq(Cell) /\ Len(t) = Len(b) + 1
          /\ t[Len(b) + 1] = c /\ \A x \in 1..Len(b) : t[x] = b[x]
      BY <1>1, AppendProperties
    <2>2. Len(b) \in Nat
      OBVIOUS
    <2> QED
      BY <2>1, <2>2
  <1>3. SubSeq(t, 1, Len(b)) = b
    <2>1. PICK v : v = SubSeq(t, 1, Len(b))
      OBVIOUS
    <2>2. v \in Seq(Cell) /\ Len(v) = Len(b) /\ \A x \in 1..Len(b) : v[x] = t[x]
      BY <1>2, <2>1, PassedIs
    <2> QED
      BY <1>2, <2>1, <2>2, SeqEqual
  <1>4. SubSeq(t, 1, Len(b) + 1) = t
    BY <1>2, PassedIs
  <1>5. Append(a \o SubSeq(t, 1, Len(b)), t[Len(b) + 1]) = a \o SubSeq(t, 1, Len(b) + 1)
    <2>1. PICK m : m = Len(b)
      OBVIOUS
    <2>2. m \in 0..Len(t) /\ m < Len(t) /\ t \in Seq(Cell)
      BY <1>2, <2>1
    <2>3. Append(a \o SubSeq(t, 1, m), t[m + 1]) = a \o SubSeq(t, 1, m + 1)
      BY <2>2, PassedIs
    <2> QED
      BY <2>1, <2>3, Zenon
  <1>6. Append(a \o b, c) = a \o Append(b, c)
    BY <1>1, <1>2, <1>3, <1>4, <1>5, Zenon
  <1>7. Append(a, c) = a \o <<c>>
    OBVIOUS
  <1> QED
    BY <1>6, <1>7

\* The rows in front of the i-th, and with it
LEMMA FlatGrows ==
  ASSUME NEW D, IsMemory(D), NEW f \in 0..(Len(D) - 1)
  PROVE  /\ Len(FlattenSeq(SubSeq(D, 1, f))) \in Nat
         /\ Len(FlattenSeq(SubSeq(D, 1, f + 1))) = Len(FlattenSeq(SubSeq(D, 1, f))) + Len(D[f + 1])
  <1>1. Len(D) \in Nat /\ 0 \in 0..Len(D) /\ f \in 0..Len(D) /\ f + 1 \in 1..Len(D)
    BY DEF IsMemory
  <1>2. Served(D, 0, f) \in Seq(Cell) /\ Served(D, 0, f + 1) = Served(D, 0, f) \o D[f + 1]
    BY <1>1, ServedGrows
  <1>3. D[f + 1] \in Seq(Cell)
    BY <1>1, RowsAre
  <1>4. /\ Served(D, 0, f) = FlattenSeq(SubSeq(D, 1, f))
        /\ Served(D, 0, f + 1) = FlattenSeq(SubSeq(D, 1, f + 1))
    BY DEF Served
  <1>5. Len(Served(D, 0, f) \o D[f + 1]) = Len(Served(D, 0, f)) + Len(D[f + 1])
    BY <1>2, <1>3, ConcatProperties
  <1>6. Len(Served(D, 0, f)) \in Nat
    BY <1>2
  <1> QED
    BY <1>2, <1>4, <1>5, <1>6, Zenon

\* The empty sequence adds nothing.
LEMMA NothingBehind ==
  ASSUME NEW s \in Seq(Cell)
  PROVE  s \o <<>> = s /\ <<>> \o s = s
  BY ConcatEmptySeq

\* The row the scan is in while it compares
LEMMA Comparing ==
  ASSUME SInv, pc = "cell", ~ finished
  PROVE  /\ k = j
         /\ \E m \in j..(Len(row) - 1) :
               /\ row[m + 1] = ":"
               /\ Name(allServerData, i + 1) \in Seq(Cell) /\ Len(Name(allServerData, i + 1)) = m
               /\ \A x \in 1..m : row[x] # ":" /\ Name(allServerData, i + 1)[x] = row[x]
         /\ \A x \in 1..j : row[x] = currentTopic[x] /\ row[x] # "TICK"
  <1>1. Types /\ LooksUp
    BY DEF SInv
  <1>2. k = j /\ \A x \in 1..j : row[x] # ":" /\ row[x] = currentTopic[x]
    BY <1>1 DEF LooksUp
  <1>3. PICK t : t = row
    OBVIOUS
  <1>4. i + 1 \in 1..Len(allServerData) /\ t = allServerData[i + 1] /\ t \in Seq(Cell) /\ Len(t) \in Nat /\ j \in 0..Len(t)
    BY <1>1, <1>3, RowIs
  <1>5. IsMemory(allServerData)
    BY <1>1 DEF Types
  <1>6. PICK m \in 0..(Len(t) - 1) :
            /\ t[m + 1] = ":" /\ \A x \in 1..m : t[x] # ":"
            /\ Name(allServerData, i + 1) \in Seq(Cell) /\ Len(Name(allServerData, i + 1)) = m
            /\ \A x \in 1..m : Name(allServerData, i + 1)[x] = t[x]
    BY <1>4, <1>5, NameIs
  <1>7. m \in j..(Len(t) - 1)
    <2>1. ~ (m + 1 \in 1..j)
      BY <1>2, <1>3, <1>6
    <2> QED
      BY <1>4, <1>6, <2>1
  <1>8. \A x \in 1..j : row[x] # "TICK"
    <2> SUFFICES ASSUME NEW x \in 1..j PROVE row[x] # "TICK"
      OBVIOUS
    <2>1. k \in 0..Len(currentTopic)
      BY <1>1 DEF Types
    <2>2. x \in 1..Len(currentTopic)
      BY <1>1, <1>2, <2>1, TopicIs
    <2>3. currentTopic[x] \in Letter
      BY <1>1, <2>2, TopicIs
    <2> QED
      BY <1>2, <2>3, Letters
  <1> QED
    BY <1>2, <1>3, <1>6, <1>7, <1>8

\* Entering a row copies nothing.
LEMMA EntersRowStep ==
  ASSUME SInv, EntersRow
  PROVE  SInv'
  <1>1. Types /\ LooksUp /\ Serves /\ Short
    BY DEF SInv
  <1> USE DEF EntersRow
  <1>2. IsMemory(allServerData) /\ Len(allServerData) \in Nat /\ i \in 0..Len(allServerData)
    BY <1>1 DEF Types, IsMemory
  <1>3. i + 1 \in 1..Len(allServerData)
    BY <1>2 DEF publisherCounter
  <1>4. PICK t : t = allServerData[i + 1]
    OBVIOUS
  <1>5. t \in Seq(Cell) /\ Len(t) \in Nat
    BY <1>2, <1>3, <1>4, RowsAre
  <1>6. row' = t
    BY <1>4 DEF row
  <1>7. Part' = <<>> /\ Part = <<>>
    <2>1. SubSeq(t, 1, 0) = <<>>
      OBVIOUS
    <2> QED
      BY <1>6, <2>1 DEF Part
  <1>8. Types'
    <2>1. j' \in 0..Len(row')
      BY <1>5, <1>6
    <2> QED
      BY <1>1, <1>2, <1>3, <2>1 DEF Types, publisherCounter
  <1>9. LooksUp'
    <2> SUFFICES ASSUME ~ finished' PROVE LooksUp'
      BY DEF LooksUp
    <2>1. \A x \in 1..j' : row'[x] # ":" /\ row'[x] = currentTopic'[x]
      OBVIOUS
    <2>2. k' = j'
      BY <1>1 DEF LooksUp
    <2> QED
      BY <1>1, <1>7, <2>1, <2>2 DEF LooksUp
  <1>10. Serves'
    <2> SUFFICES ASSUME finished PROVE Serves'
      BY DEF Serves
    <2>1. PICK f \in 0..i : \E u \in Seq(Cell) : Copied(f, u)
      BY <1>1 DEF Serves
    <2>2. PICK u \in Seq(Cell) : Copied(f, u)
      BY <2>1
    <2>3. Copied(f, u)'
      BY <1>7, <2>2 DEF Copied
    <2> QED
      BY <2>3 DEF Serves
  <1>11. Short'
    BY <1>1 DEF Short
  <1> QED
    BY <1>8, <1>9, <1>10, <1>11 DEF SInv, ScanComputesReply

-----------------------------------------------------------------------------
(* The steps that leave a row behind.                                      *)

\* What the steps that leave a row behind do to the type
LEMMA RowLeft ==
  ASSUME SInv, pc = "cell", LeavesRow, allServerData' = allServerData,
         currentTopic' = currentTopic, k' \in 0..Len(currentTopic),
         finished' \in BOOLEAN, done' \in BOOLEAN, onTopicData' \in Seq(Cell)
  PROVE  /\ Types'
         /\ Part' = <<>>
         /\ Len(onTopicData') <= Len(onTopicData) + (Len(row) - j) => Short'
  <1>1. Types /\ Short
    BY DEF SInv
  <1>2. PICK t : t = row
    OBVIOUS
  <1>3. /\ i + 1 \in 1..Len(allServerData) /\ i \in 0..(Len(allServerData) - 1)
        /\ t = allServerData[i + 1] /\ Len(t) \in Nat /\ j \in 0..Len(t)
    BY <1>1, <1>2, RowIs
  <1>4. pc' = "row" /\ i' = i + 1
    BY DEF LeavesRow
  <1>5. Types'
    <2>1. i' \in 0..Len(allServerData)
      BY <1>3, <1>4
    <2> QED
      BY <1>1, <1>4, <2>1 DEF Types
  <1>6. Part' = <<>>
    BY <1>4 DEF Part
  <1>7. ASSUME Len(onTopicData') <= Len(onTopicData) + (Len(row) - j)
        PROVE  Short'
    <2>1. PICK g : g = Len(FlattenSeq(SubSeq(allServerData, 1, i)))
      OBVIOUS
    <2>2. /\ g \in Nat
          /\ Len(FlattenSeq(SubSeq(allServerData, 1, i + 1))) = g + Len(t)
      BY <1>1, <1>3, <2>1, FlatGrows DEF Types
    <2>3. Len(onTopicData) <= g + j /\ Len(onTopicData) \in Nat /\ Len(onTopicData') \in Nat
      BY <1>1, <2>1 DEF Short, Types
    <2>4. Len(onTopicData') <= (g + Len(t)) + 0
      BY <1>2, <1>3, <1>7, <2>2, <2>3
    <2> QED
      BY <1>4, <2>2, <2>4 DEF Short
  <1> QED
    BY <1>5, <1>6, <1>7

\* A row that ends has been served whole: it has a ':', so a name has matched.
LEMMA RowEndsStep ==
  ASSUME SInv, RowEnds
  PROVE  SInv'
  <1>1. Types /\ LooksUp /\ Serves /\ Short
    BY DEF SInv
  <1>2. pc = "cell" /\ j = Len(row) /\ pc' = "row" /\ i' = i + 1 /\ LeavesRow
    BY DEF RowEnds, LeavesRow
  <1>3. UNCHANGED <<allServerData, currentTopic, j, k, finished, done, onTopicData>>
    BY DEF RowEnds
  <1>4. PICK t : t = row
    OBVIOUS
  <1>5. /\ i + 1 \in 1..Len(allServerData) /\ i \in 0..(Len(allServerData) - 1)
        /\ t = allServerData[i + 1] /\ t \in Seq(Cell) /\ Len(t) \in Nat
        /\ \E x \in 1..Len(t) : t[x] = ":"
    BY <1>1, <1>2, <1>4, RowIs
  <1>6. finished
    BY <1>1, <1>2, <1>4, <1>5 DEF LooksUp
  <1>7. Types' /\ Part' = <<>> /\ Short'
    <2>1. /\ k' \in 0..Len(currentTopic) /\ finished' \in BOOLEAN /\ done' \in BOOLEAN
          /\ onTopicData' \in Seq(Cell) /\ Len(onTopicData) \in Nat
      BY <1>1, <1>3 DEF Types
    <2>2. Len(onTopicData') <= Len(onTopicData) + (Len(row) - j)
      BY <1>2, <1>3, <1>4, <1>5, <2>1
    <2> QED
      BY <1>2, <1>3, <2>1, <2>2, RowLeft
  <1>8. LooksUp'
    BY <1>3, <1>6 DEF LooksUp
  <1>9. Serves'
    <2>1. PICK f \in 0..i : \E u \in Seq(Cell) : Copied(f, u)
      BY <1>1, <1>2, <1>6 DEF Serves
    <2>2. PICK u \in Seq(Cell) : Copied(f, u)
      BY <2>1
    <2>3. ~ done /\ IsMemory(allServerData)
      BY <1>1, <1>2 DEF Types
    <2>4. /\ u = Served(allServerData, f, i) \o Part
          /\ \A x \in 1..Len(u) : u[x] # "TICK"
      BY <2>2, <2>3 DEF Copied
    <2>5. Part = t
      BY <1>2, <1>4, <1>5, PassedIs DEF Part
    <2>6. /\ f \in 0..Len(allServerData) /\ i \in f..(Len(allServerData) - 1)
          /\ i + 1 \in f..Len(allServerData)
      BY <1>5
    <2>7. /\ Served(allServerData, f, i + 1) = u /\ Served(allServerData, f, i + 1) \in Seq(Cell)
      BY <1>5, <2>3, <2>4, <2>5, <2>6, ServedGrows
    <2>8. u = Served(allServerData, f, i + 1) \o <<>>
      BY <2>7, NothingBehind
    <2>9. Copied(f, u)'
      BY <1>2, <1>3, <1>7, <2>2, <2>3, <2>4, <2>8 DEF Copied
    <2>10. f \in 0..i'
      BY <1>2, <1>5
    <2> QED
      BY <2>9, <2>10 DEF Serves
  <1> QED
    BY <1>2, <1>7, <1>8, <1>9 DEF SInv, ScanComputesReply

\* A mismatch leaves behind what the name and the topic have in common.
LEMMA MismatchStep ==
  ASSUME SInv, Mismatch
  PROVE  SInv'
  <1>1. Types /\ LooksUp /\ Serves /\ Short
    BY DEF SInv
  <1>2. /\ pc = "cell" /\ j < Len(row) /\ ch # ":" /\ ~ finished /\ ch # TopicChar
        /\ k' = 0 /\ pc' = "row" /\ i' = i + 1 /\ LeavesRow
    BY DEF Mismatch, Compares, LeavesRow
  <1>3. UNCHANGED <<allServerData, currentTopic, j, finished, done, onTopicData>>
    BY DEF Mismatch
  <1>4. PICK t : t = row
    OBVIOUS
  <1>5. /\ i + 1 \in 1..Len(allServerData) /\ i \in 0..(Len(allServerData) - 1)
        /\ t = allServerData[i + 1] /\ t \in Seq(Cell) /\ Len(t) \in Nat /\ j \in 0..Len(t)
    BY <1>1, <1>2, <1>4, RowIs
  <1>6. /\ IsMemory(allServerData) /\ currentTopic \in Seq(Cell) /\ Len(currentTopic) \in Nat
        /\ k \in 0..Len(currentTopic)
    BY <1>1, TopicIs DEF Types
  <1>7. PICK a : a = Name(allServerData, i + 1)
    OBVIOUS
  <1>8. k = j /\ \A x \in 1..j : t[x] = currentTopic[x]
    BY <1>2, <1>4, Comparing
  <1>9. PICK m \in j..(Len(t) - 1) :
               /\ t[m + 1] = ":"
               /\ a \in Seq(Cell) /\ Len(a) = m
               /\ \A x \in 1..m : t[x] # ":" /\ a[x] = t[x]
    BY <1>2, <1>4, <1>7, Comparing
  <1>10. j < m
    BY <1>2, <1>4, <1>5, <1>9 DEF ch
  <1>11. j \in 0..(Len(a) - 1) /\ j =< Len(currentTopic) /\ j + 1 \in 1..m
    BY <1>5, <1>6, <1>8, <1>9, <1>10
  <1>12. \A x \in 1..j : a[x] = currentTopic[x]
    <2>1. \A x \in 1..j : x \in 1..m
      BY <1>5, <1>9
    <2> QED
      BY <1>8, <1>9, <2>1
  <1>13. j < Len(currentTopic) => a[j + 1] # currentTopic[j + 1]
    BY <1>1, <1>2, <1>4, <1>8, <1>9, <1>11, TopicCharIs DEF ch
  <1>14. /\ LongestCommonPrefix({a, currentTopic}) = SubSeq(a, 1, j)
         /\ ~ IsPrefix(a, currentTopic)
    BY <1>6, <1>9, <1>11, <1>12, <1>13, CommonUpTo
  <1>15. SubSeq(a, 1, j) = SubSeq(t, 1, j)
    <2>1. PICK v, w : v = SubSeq(a, 1, j) /\ w = SubSeq(t, 1, j)
      OBVIOUS
    <2>2. j \in 0..Len(a)
      BY <1>11, <1>9
    <2>3. v \in Seq(Cell) /\ Len(v) = j /\ \A x \in 1..j : v[x] = a[x]
      BY <1>9, <2>1, <2>2, PassedIs
    <2>4. w \in Seq(Cell) /\ Len(w) = j /\ \A x \in 1..j : w[x] = t[x]
      BY <1>5, <2>1, PassedIs
    <2>5. \A x \in 1..j : v[x] = w[x]
      BY <1>8, <1>12, <2>3, <2>4
    <2> QED
      BY <2>1, <2>3, <2>4, <2>5, SeqEqual
  <1>16. Types' /\ Part' = <<>> /\ Short'
    <2>1. /\ k' \in 0..Len(currentTopic) /\ finished' \in BOOLEAN /\ done' \in BOOLEAN
          /\ onTopicData' \in Seq(Cell) /\ Len(onTopicData) \in Nat
      BY <1>1, <1>2, <1>3, <1>6 DEF Types
    <2>2. Len(onTopicData') <= Len(onTopicData) + (Len(row) - j)
      BY <1>2, <1>3, <1>4, <1>5, <2>1
    <2> QED
      BY <1>2, <1>3, <2>1, <2>2, RowLeft
  <1>17. LooksUp'
    <2>1. onTopicData = Kept(allServerData, currentTopic, i + 1)
      <3>1. onTopicData = Kept(allServerData, currentTopic, i) \o SubSeq(t, 1, j)
        BY <1>1, <1>2, <1>4 DEF LooksUp, Part
      <3>2. Kept(allServerData, currentTopic, i + 1)
              = Kept(allServerData, currentTopic, i) \o LongestCommonPrefix({a, currentTopic})
        BY <1>5, <1>6, <1>7, KeptGrows
      <3> QED
        BY <1>14, <1>15, <3>1, <3>2
    <2>2. onTopicData = Kept(allServerData, currentTopic, i + 1) \o <<>>
      <3>1. onTopicData \in Seq(Cell)
        BY <1>1 DEF Types
      <3> QED
        BY <2>1, <3>1, NothingBehind
    <2>3. \A r \in 1..(i + 1) : ~ IsPrefix(Name(allServerData, r), currentTopic)
      <3>1. \A r \in 1..i : ~ IsPrefix(Name(allServerData, r), currentTopic)
        BY <1>1, <1>2 DEF LooksUp
      <3>2. \A r \in 1..(i + 1) : r \in 1..i \/ r = i + 1
        BY <1>5
      <3> QED
        BY <1>7, <1>14, <3>1, <3>2
    <2>4. ~ done
      BY <1>1, <1>2 DEF LooksUp
    <2> QED
      BY <1>2, <1>3, <1>16, <2>2, <2>3, <2>4 DEF LooksUp
  <1>18. Serves'
    BY <1>2, <1>3 DEF Serves
  <1> QED
    BY <1>2, <1>16, <1>17, <1>18 DEF SInv, ScanComputesReply

-----------------------------------------------------------------------------
(* The steps that copy a character.                                        *)

\* What the steps that copy a character do to the type
LEMMA CellCopied ==
  ASSUME SInv, Copies, ch # "TICK", k' \in 0..Len(currentTopic)
  PROVE  /\ pc = "cell" /\ pc' = "cell" /\ ~ done /\ ~ done'
         /\ UNCHANGED <<allServerData, currentTopic, i>>
         /\ j < Len(row) /\ j' = j + 1 /\ ch = row[j + 1] /\ ch \in Cell
         /\ finished' = (finished \/ ch = ":")
         /\ onTopicData' = Append(onTopicData, ch)
         /\ Types' /\ Short'
         /\ Part' = SubSeq(row, 1, j + 1) /\ Part = SubSeq(row, 1, j)
  <1>1. Types /\ Short
    BY DEF SInv
  <1>2. /\ pc = "cell" /\ pc' = "cell" /\ j < Len(row) /\ j' = j + 1 /\ UNCHANGED <<i, done>>
        /\ finished' = (finished \/ ch = ":")
        /\ onTopicData' = Append(onTopicData, ch)
        /\ UNCHANGED <<allServerData, currentTopic>>
    BY DEF Copies
  <1>3. PICK t : t = row
    OBVIOUS
  <1>4. /\ t \in Seq(Cell) /\ Len(t) \in Nat /\ j \in 0..Len(t)
        /\ \A x \in 1..Len(t) : t[x] \in Cell
    BY <1>1, <1>2, <1>3, RowIs
  <1>5. row' = t
    BY <1>2, <1>3 DEF row
  <1>6. ch = t[j + 1] /\ ch \in Cell
    BY <1>2, <1>3, <1>4 DEF ch
  <1>7. onTopicData' \in Seq(Cell) /\ Len(onTopicData') = Len(onTopicData) + 1 /\ Len(onTopicData) \in Nat
    BY <1>1, <1>2, <1>6 DEF Types
  <1>8. ~ done
    BY <1>1, <1>2 DEF Types
  <1>9. Types'
    <2>1. j' \in 0..Len(row') /\ finished' \in BOOLEAN
      BY <1>1, <1>2, <1>3, <1>4, <1>5 DEF Types
    <2> QED
      BY <1>1, <1>2, <1>7, <1>8, <2>1 DEF Types
  <1>10. Short'
    <2>1. PICK g : g = Len(FlattenSeq(SubSeq(allServerData, 1, i)))
      OBVIOUS
    <2>2. g \in Nat
      BY <1>1, <1>2, <2>1, RowIs, FlatGrows DEF Types
    <2>3. Len(onTopicData) <= g + j
      BY <1>1, <1>2, <2>1 DEF Short
    <2>4. Len(onTopicData') <= g + j'
      BY <1>2, <1>4, <1>7, <2>2, <2>3
    <2> QED
      BY <1>2, <2>1, <2>4 DEF Short
  <1>11. Part' = SubSeq(row, 1, j + 1) /\ Part = SubSeq(row, 1, j)
    BY <1>2, <1>3, <1>5 DEF Part
  <1> QED
    BY <1>2, <1>3, <1>6, <1>8, <1>9, <1>10, <1>11

\* A character of a name that is the topic's
LEMMA MatchStep ==
  ASSUME SInv, Copies, ~ finished, ch # ":"
  PROVE  SInv'
  <1>1. Types /\ LooksUp /\ Serves /\ Short
    BY DEF SInv
  <1>2. pc = "cell" /\ j < Len(row) /\ k' = k + 1 /\ ch = TopicChar
    BY DEF Copies, Compares
  <1>3. PICK t : t = row
    OBVIOUS
  <1>4. /\ i + 1 \in 1..Len(allServerData) /\ t = allServerData[i + 1]
        /\ t \in Seq(Cell) /\ Len(t) \in Nat /\ j \in 0..Len(t)
        /\ \A x \in 1..Len(t) : t[x] \in Cell /\ t[x] # "NUL"
    BY <1>1, <1>2, <1>3, RowIs
  <1>5. j + 1 \in 1..Len(t) /\ ch = t[j + 1]
    BY <1>2, <1>3, <1>4 DEF ch
  <1>6. k = j /\ \A x \in 1..j : t[x] # ":" /\ t[x] = currentTopic[x]
    BY <1>1, <1>2, <1>3 DEF LooksUp
  <1>7. k \in 0..Len(currentTopic) /\ Len(currentTopic) \in Nat
    BY <1>1, TopicIs DEF Types
  <1>8. k < Len(currentTopic) /\ ch = currentTopic[k + 1]
    BY <1>1, <1>2, <1>4, <1>5, TopicCharIs
  <1>9. ch \in Letter
    <2>1. k + 1 \in 1..Len(currentTopic)
      BY <1>7, <1>8
    <2> QED
      BY <1>1, <1>8, <2>1, TopicIs
  <1>10. ch # "TICK"
    BY <1>9, Letters
  <1>11. k' \in 0..Len(currentTopic)
    BY <1>2, <1>7, <1>8
  <1>12. /\ pc' = "cell" /\ ~ done /\ ~ done'
         /\ UNCHANGED <<allServerData, currentTopic, i>>
         /\ j' = j + 1 /\ ch \in Cell
         /\ finished' = (finished \/ ch = ":")
         /\ onTopicData' = Append(onTopicData, ch)
         /\ Types' /\ Short'
         /\ Part' = SubSeq(t, 1, j + 1) /\ Part = SubSeq(t, 1, j)
    BY <1>3, <1>10, <1>11, CellCopied
  <1>13. ~ finished'
    BY <1>12
  <1>14. row' = t
    BY <1>4, <1>12 DEF row
  <1>15. LooksUp'
    <2>1. \A r \in 1..i : ~ IsPrefix(Name(allServerData, r), currentTopic)
      BY <1>1 DEF LooksUp
    <2>2. \A x \in 1..(j + 1) : t[x] # ":" /\ t[x] = currentTopic[x]
      <3>1. \A x \in 1..(j + 1) : x \in 1..j \/ x = j + 1
        BY <1>4
      <3> QED
        BY <1>5, <1>6, <1>8, <3>1
    <2>3. Append(onTopicData, ch) = Kept(allServerData, currentTopic, i) \o SubSeq(t, 1, j + 1)
      <3>1. PICK s : s = Kept(allServerData, currentTopic, i)
        OBVIOUS
      <3>2. s \in Seq(Cell)
        BY <1>1, <3>1, TopicIs, KeptGrows DEF Types
      <3>3. onTopicData = s \o SubSeq(t, 1, j)
        BY <1>1, <1>2, <1>12, <3>1 DEF LooksUp
      <3>4. j < Len(t)
        BY <1>2, <1>3
      <3> QED
        BY <1>4, <1>5, <3>1, <3>2, <3>3, <3>4, PassedIs
    <2>4. k' = j'
      BY <1>2, <1>6, <1>12
    <2> QED
      BY <1>12, <1>13, <1>14, <2>1, <2>2, <2>3, <2>4 DEF LooksUp
  <1>16. Serves'
    BY <1>13 DEF Serves
  <1> QED
    BY <1>12, <1>15, <1>16 DEF SInv, ScanComputesReply

\* The ':' behind a name that has matched so far
LEMMA NameStep ==
  ASSUME SInv, Copies, ~ finished, ch = ":"
  PROVE  SInv'
  <1>1. Types /\ LooksUp /\ Serves /\ Short
    BY DEF SInv
  <1>2. pc = "cell" /\ j < Len(row) /\ k' = k
    BY DEF Copies, Compares
  <1>3. PICK t : t = row
    OBVIOUS
  <1>4. /\ i + 1 \in 1..Len(allServerData) /\ i \in 0..(Len(allServerData) - 1)
        /\ t = allServerData[i + 1]
        /\ t \in Seq(Cell) /\ Len(t) \in Nat /\ j \in 0..Len(t)
    BY <1>1, <1>2, <1>3, RowIs
  <1>5. j + 1 \in 1..Len(t) /\ ch = t[j + 1] /\ j < Len(t)
    BY <1>2, <1>3, <1>4 DEF ch
  <1>6. k \in 0..Len(currentTopic) /\ Len(currentTopic) \in Nat /\ currentTopic \in Seq(Cell)
        /\ IsMemory(allServerData)
    BY <1>1, TopicIs DEF Types
  <1>7. /\ pc' = "cell" /\ ~ done /\ ~ done'
         /\ UNCHANGED <<allServerData, currentTopic, i>>
         /\ j' = j + 1 /\ ch \in Cell
         /\ finished'
         /\ onTopicData' = Append(onTopicData, ch)
         /\ Types' /\ Short'
         /\ Part' = SubSeq(t, 1, j + 1) /\ Part = SubSeq(t, 1, j)
    <2>1. ch # "TICK" /\ k' \in 0..Len(currentTopic)
      BY <1>2, <1>6
    <2> QED
      BY <1>3, <2>1, CellCopied
  <1>8. LooksUp'
    BY <1>7 DEF LooksUp
  <1>9. PICK a : a = Name(allServerData, i + 1)
    OBVIOUS
  <1>10. k = j /\ \A x \in 1..j : t[x] = currentTopic[x] /\ t[x] # "TICK"
    BY <1>2, <1>3, Comparing
  <1>11. PICK m \in j..(Len(t) - 1) :
               /\ t[m + 1] = ":"
               /\ a \in Seq(Cell) /\ Len(a) = m
               /\ \A x \in 1..m : t[x] # ":" /\ a[x] = t[x]
    BY <1>2, <1>3, <1>9, Comparing
  <1>12. m = j
    <2>1. ~ (j + 1 \in 1..m)
      BY <1>5, <1>11
    <2> QED
      BY <1>4, <1>11, <2>1
  <1>13. IsPrefix(a, currentTopic)
    <2>1. Len(a) =< Len(currentTopic)
      BY <1>6, <1>10, <1>11, <1>12
    <2>2. \A x \in 1..Len(a) : a[x] = currentTopic[x]
      BY <1>10, <1>11, <1>12
    <2> QED
      BY <1>6, <1>11, <2>1, <2>2, PrefixIs
  <1>14. First(allServerData, currentTopic, i) /\ i < Len(allServerData)
    <2>1. \A r \in 1..i : ~ IsPrefix(Name(allServerData, r), currentTopic)
      BY <1>1 DEF LooksUp
    <2>2. i \in 0..Len(allServerData) /\ i < Len(allServerData)
      BY <1>4
    <2> QED
      BY <1>9, <1>13, <2>1, <2>2 DEF First
  <1>15. PICK u : u = SubSeq(t, 1, j + 1)
    OBVIOUS
  <1>16. u \in Seq(Cell) /\ Len(u) = j + 1 /\ \A x \in 1..(j + 1) : u[x] = t[x]
    BY <1>4, <1>5, <1>15
  <1>17. \A x \in 1..Len(u) : u[x] # "TICK"
    <2>1. \A x \in 1..(j + 1) : x \in 1..j \/ x = j + 1
      BY <1>4
    <2> QED
      BY <1>5, <1>10, <1>16, <2>1
  <1>18. onTopicData' = Kept(allServerData, currentTopic, i) \o u
    <2>1. PICK s : s = Kept(allServerData, currentTopic, i)
      OBVIOUS
    <2>2. s \in Seq(Cell)
      BY <1>4, <1>6, <2>1, KeptGrows
    <2>3. onTopicData = s \o SubSeq(t, 1, j)
      BY <1>1, <1>2, <1>7, <2>1 DEF LooksUp
    <2>4. Append(s \o SubSeq(t, 1, j), t[j + 1]) = s \o SubSeq(t, 1, j + 1)
      BY <1>4, <1>5, <2>2, PassedIs
    <2> QED
      BY <1>5, <1>7, <1>15, <2>1, <2>3, <2>4, Zenon
  <1>19. u = Served(allServerData, i, i) \o u
    <2>1. Served(allServerData, i, i) = <<>>
      <3>1. i \in 0..Len(allServerData)
        BY <1>4
      <3> QED
        BY <1>6, <3>1, ServedGrows
    <2> QED
      BY <1>16, <2>1, NothingBehind
  <1>20. Copied(i, u)'
    BY <1>7, <1>14, <1>15, <1>17, <1>18, <1>19 DEF Copied
  <1>21. Serves'
    <2>1. i \in 0..i'
      BY <1>4, <1>7
    <2>2. PICK f \in 0..i' : f = i
      BY <2>1
    <2>3. Copied(f, u)'
      BY <1>7, <1>20, <2>2
    <2> QED
      BY <1>16, <2>3 DEF Serves
  <1> QED
    BY <1>7, <1>8, <1>21 DEF SInv, ScanComputesReply

\* A character of what is served
LEMMA ServedCellStep ==
  ASSUME SInv, Copies, finished, ch # "TICK"
  PROVE  SInv'
  <1>1. Types /\ LooksUp /\ Serves /\ Short
    BY DEF SInv
  <1>2. pc = "cell" /\ j < Len(row) /\ k' = k
    BY DEF Copies, Compares
  <1>3. PICK t : t = row
    OBVIOUS
  <1>4. /\ i + 1 \in 1..Len(allServerData) /\ i \in 0..(Len(allServerData) - 1)
        /\ t = allServerData[i + 1]
        /\ t \in Seq(Cell) /\ Len(t) \in Nat /\ j \in 0..Len(t)
    BY <1>1, <1>2, <1>3, RowIs
  <1>5. j + 1 \in 1..Len(t) /\ ch = t[j + 1] /\ j < Len(t)
    BY <1>2, <1>3, <1>4 DEF ch
  <1>6. k \in 0..Len(currentTopic) /\ currentTopic \in Seq(Cell) /\ IsMemory(allServerData)
    BY <1>1, TopicIs DEF Types
  <1>7. /\ pc' = "cell" /\ ~ done /\ ~ done'
         /\ UNCHANGED <<allServerData, currentTopic, i>>
         /\ j' = j + 1 /\ ch \in Cell
         /\ finished'
         /\ onTopicData' = Append(onTopicData, ch)
         /\ Types' /\ Short'
         /\ Part' = SubSeq(t, 1, j + 1) /\ Part = SubSeq(t, 1, j)
    <2>1. k' \in 0..Len(currentTopic)
      BY <1>2, <1>6
    <2> QED
      BY <1>3, <2>1, CellCopied
  <1>8. LooksUp'
    BY <1>7 DEF LooksUp
  <1>9. PICK f \in 0..i : \E u \in Seq(Cell) : Copied(f, u)
    BY <1>1, <1>2 DEF Serves
  <1>10. PICK u \in Seq(Cell) : Copied(f, u)
    BY <1>9
  <1>11. /\ First(allServerData, currentTopic, f) /\ f < Len(allServerData)
         /\ onTopicData = Kept(allServerData, currentTopic, f) \o u
         /\ u = Served(allServerData, f, i) \o SubSeq(t, 1, j)
         /\ \A x \in 1..Len(u) : u[x] # "TICK"
    BY <1>7, <1>10 DEF Copied
  <1>12. PICK v : v = Append(u, ch)
    OBVIOUS
  <1>13. /\ v \in Seq(Cell) /\ Len(v) = Len(u) + 1 /\ Len(u) \in Nat
         /\ v[Len(u) + 1] = ch /\ \A x \in 1..Len(u) : v[x] = u[x]
    BY <1>7, <1>12
  <1>14. \A x \in 1..Len(v) : v[x] # "TICK"
    <2>1. \A x \in 1..Len(v) : x \in 1..Len(u) \/ x = Len(u) + 1
      BY <1>13
    <2> QED
      BY <1>11, <1>13, <2>1
  <1>15. onTopicData' = Kept(allServerData, currentTopic, f) \o v
    <2>1. Kept(allServerData, currentTopic, f) \in Seq(Cell)
      <3>1. f \in 0..Len(allServerData)
        BY <1>4
      <3> QED
        BY <1>6, <3>1, KeptGrows
    <2>2. Append(Kept(allServerData, currentTopic, f) \o u, ch)
            = Kept(allServerData, currentTopic, f) \o Append(u, ch)
      BY <1>7, <2>1, AppendBehind
    <2> QED
      BY <1>7, <1>11, <1>12, <2>2, Zenon
  <1>16. v = Served(allServerData, f, i) \o SubSeq(t, 1, j + 1)
    <2>1. Served(allServerData, f, i) \in Seq(Cell)
      <3>1. f \in 0..Len(allServerData) /\ i \in f..Len(allServerData)
        BY <1>4
      <3> QED
        BY <1>6, <3>1, ServedGrows
    <2>2. Append(Served(allServerData, f, i) \o SubSeq(t, 1, j), t[j + 1])
            = Served(allServerData, f, i) \o SubSeq(t, 1, j + 1)
      BY <1>4, <1>5, <2>1, PassedIs
    <2> QED
      BY <1>5, <1>11, <1>12, <2>2, Zenon
  <1>17. Copied(f, v)'
    BY <1>7, <1>11, <1>14, <1>15, <1>16 DEF Copied
  <1>18. Serves'
    BY <1>7, <1>13, <1>17 DEF Serves
  <1> QED
    BY <1>7, <1>8, <1>18 DEF SInv, ScanComputesReply

\* The TICK that ends what is served
LEMMA TickStep ==
  ASSUME SInv, Copies, ch = "TICK"
  PROVE  SInv'
  <1>1. Types /\ LooksUp /\ Serves /\ Short
    BY DEF SInv
  <1>2. /\ pc = "cell" /\ j < Len(row) /\ done' /\ LeavesRow /\ pc' = "row" /\ i' = i + 1
        /\ finished' = (finished \/ ch = ":") /\ UNCHANGED <<allServerData, currentTopic, onTopicData>>
    BY DEF Copies, LeavesRow
  <1>3. PICK t : t = row
    OBVIOUS
  <1>4. /\ i + 1 \in 1..Len(allServerData) /\ i \in 0..(Len(allServerData) - 1)
        /\ t = allServerData[i + 1]
        /\ t \in Seq(Cell) /\ Len(t) \in Nat /\ j \in 0..Len(t)
        /\ \A x \in 1..Len(t) : t[x] # "NUL"
    BY <1>1, <1>2, <1>3, RowIs
  <1>5. j + 1 \in 1..Len(t) /\ t[j + 1] = "TICK" /\ j < Len(t)
    BY <1>2, <1>3, <1>4 DEF ch
  <1>6. k \in 0..Len(currentTopic) /\ Len(currentTopic) \in Nat /\ IsMemory(allServerData)
    BY <1>1, TopicIs DEF Types
  <1>7. finished
    <2> SUFFICES ASSUME ~ finished PROVE FALSE
      OBVIOUS
    <2>1. TopicChar = "TICK"
      BY <1>2 DEF Copies, Compares
    <2>2. k < Len(currentTopic) /\ currentTopic[k + 1] = "TICK"
      BY <1>1, <2>1, TopicCharIs
    <2>3. k + 1 \in 1..Len(currentTopic)
      BY <1>6, <2>2
    <2>4. currentTopic[k + 1] \in Letter
      BY <1>1, <2>3, TopicIs
    <2> QED
      BY <2>2, <2>4, Letters
  <1>8. finished' /\ k' = k
    BY <1>2, <1>7 DEF Copies, Compares
  <1>9. Types' /\ Part' = <<>> /\ Short'
    <2>1. /\ k' \in 0..Len(currentTopic) /\ finished' \in BOOLEAN /\ done' \in BOOLEAN
          /\ onTopicData' \in Seq(Cell) /\ Len(onTopicData) \in Nat
      <3>1. done' = TRUE /\ finished' = TRUE
        BY <1>1, <1>2, <1>7 DEF Copies, Types
      <3> QED
        BY <1>1, <1>2, <1>6, <1>8, <3>1 DEF Types
    <2>2. Len(onTopicData') <= Len(onTopicData) + (Len(row) - j)
      BY <1>2, <1>3, <1>4, <2>1
    <2> QED
      BY <1>2, <2>1, <2>2, RowLeft
  <1>10. LooksUp'
    BY <1>8 DEF LooksUp
  <1>11. PICK f \in 0..i : \E u \in Seq(Cell) : Copied(f, u)
    BY <1>1, <1>2, <1>7 DEF Serves
  <1>12. PICK u \in Seq(Cell) : Copied(f, u)
    BY <1>11
  <1>13. ~ done /\ Part = SubSeq(t, 1, j)
    BY <1>1, <1>2, <1>3 DEF Types, Part
  <1>14. /\ First(allServerData, currentTopic, f) /\ f < Len(allServerData)
         /\ onTopicData = Kept(allServerData, currentTopic, f) \o u
         /\ u = Served(allServerData, f, i) \o SubSeq(t, 1, j)
         /\ \A x \in 1..Len(u) : u[x] # "TICK"
    BY <1>12, <1>13 DEF Copied
  <1>15. PICK a : a = Served(allServerData, f, i)
    OBVIOUS
  <1>16. /\ f \in 0..Len(allServerData) /\ i \in f..Len(allServerData)
         /\ i \in f..(Len(allServerData) - 1) /\ i + 1 \in f..Len(allServerData)
    BY <1>4
  <1>17. a \in Seq(Cell) /\ Served(allServerData, f, i + 1) = a \o t
    BY <1>4, <1>6, <1>15, <1>16, ServedGrows
  <1>18. PICK rest \in Seq(Cell) : Served(allServerData, f, Len(allServerData)) = (a \o t) \o rest
    BY <1>6, <1>16, <1>17, ServedRest
  <1>19. (\A x \in 1..Len(a) : a[x] # "TICK") /\ \A x \in 1..j : t[x] # "TICK"
    <2>1. PICK v : v = SubSeq(t, 1, j)
      OBVIOUS
    <2>2. v \in Seq(Cell) /\ Len(v) = j /\ \A x \in 1..j : v[x] = t[x]
      BY <1>4, <2>1, PassedIs
    <2>3. u = a \o v
      BY <1>14, <1>15, <2>1
    <2>4. \A x \in 1..Len(a) + Len(v) : (a \o v)[x] = IF x <= Len(a) THEN a[x] ELSE v[x - Len(a)]
      BY <1>17, <2>2, ConcatProperties
    <2>5. Len(a \o v) = Len(a) + Len(v) /\ Len(a) \in Nat
      <3>1. Len(a) \in Nat
        BY <1>17
      <3>2. Len(a \o v) = Len(a) + Len(v)
        BY <1>17, <2>2, ConcatProperties
      <3> QED
        BY <3>1, <3>2
    <2>6. \A x \in 1..Len(a) + Len(v) : u[x] # "TICK" /\ u[x] = IF x <= Len(a) THEN a[x] ELSE v[x - Len(a)]
      BY <1>14, <2>3, <2>4, <2>5
    <2>7. ASSUME NEW x \in 1..Len(a)
          PROVE  a[x] # "TICK"
      <3>1. x \in 1..Len(a) + Len(v) /\ x <= Len(a)
        BY <1>4, <2>2, <2>5, <2>7
      <3> QED
        BY <2>6, <3>1
    <2>8. ASSUME NEW x \in 1..j
          PROVE  t[x] # "TICK"
      <3>1. /\ Len(a) + x \in 1..Len(a) + Len(v) /\ ~ (Len(a) + x <= Len(a))
            /\ (Len(a) + x) - Len(a) = x
        BY <1>4, <2>2, <2>5, <2>8
      <3>2. v[x] # "TICK"
        BY <2>6, <3>1
      <3> QED
        BY <2>2, <2>8, <3>2
    <2> QED
      BY <2>7, <2>8
  <1>20. u = Before(Served(allServerData, f, Len(allServerData)), "TICK")
    <2>1. j \in 0..(Len(t) - 1)
      BY <1>4, <1>5
    <2>2. Before((a \o t) \o rest, "TICK") = a \o SubSeq(t, 1, j)
      <3>1. t \in Seq(Cell) /\ a \in Seq(Cell) /\ rest \in Seq(Cell)
        BY <1>4, <1>17
      <3> QED
        BY <1>5, <1>19, <2>1, <3>1, BeforeTick
    <2> QED
      BY <1>14, <1>15, <1>18, <2>2
  <1>21. Copied(f, u)'
    BY <1>2, <1>14, <1>20 DEF Copied
  <1>22. Serves'
    <2>1. f \in 0..i'
      BY <1>2, <1>4
    <2> QED
      BY <1>21, <2>1 DEF Serves
  <1> QED
    BY <1>2, <1>9, <1>10, <1>22 DEF SInv, ScanComputesReply

\* What is sent is the reply.
LEMMA SendsStep ==
  ASSUME SInv, Sends
  PROVE  SInv'
  <1>1. Types /\ LooksUp /\ Serves /\ Short
    BY DEF SInv
  <1>2. /\ pc = "row" /\ pc' = "sent" /\ (i >= publisherCounter \/ done)
        /\ onTopicData' = Append(onTopicData, "TICK")
        /\ UNCHANGED <<allServerData, currentTopic, i, j, k, finished, done>>
    BY DEF Sends
  <1>3. /\ IsMemory(allServerData) /\ currentTopic \in Seq(Cell) /\ onTopicData \in Seq(Cell)
        /\ Len(allServerData) \in Nat /\ i \in 0..Len(allServerData)
    BY <1>1, TopicIs DEF Types, IsMemory
  <1>4. "TICK" \in Cell
    BY DEF Cell, Special
  <1>5. onTopicData' \in Seq(Cell) /\ Len(onTopicData') = Len(onTopicData) + 1 /\ Len(onTopicData) \in Nat
    BY <1>2, <1>3, <1>4
  <1>6. Types'
    BY <1>1, <1>2, <1>5 DEF Types
  <1>7. Short'
    <2>1. PICK g : g = Len(FlattenSeq(SubSeq(allServerData, 1, i)))
      OBVIOUS
    <2>2. g \in Nat
      <3>1. 0 \in 0..Len(allServerData) /\ i \in 0..Len(allServerData)
        BY <1>3
      <3>2. Served(allServerData, 0, i) \in Seq(Cell)
        BY <1>3, <3>1, ServedGrows
      <3>3. Served(allServerData, 0, i) = FlattenSeq(SubSeq(allServerData, 1, i))
        BY DEF Served
      <3> QED
        BY <2>1, <3>2, <3>3
    <2>3. Len(onTopicData) <= g + 0
      BY <1>1, <1>2, <2>1 DEF Short
    <2>4. Len(onTopicData') <= g + 1
      BY <1>5, <2>2, <2>3
    <2> QED
      BY <1>2, <2>1, <2>4 DEF Short
  <1>8. Part = <<>>
    BY <1>2 DEF Part
  <1>9. LooksUp' /\ Serves'
    BY <1>1, <1>2 DEF LooksUp, Serves
  <1>10. \E f \in 0..Len(allServerData) :
            /\ First(allServerData, currentTopic, f)
            /\ onTopicData = Kept(allServerData, currentTopic, f)
                               \o Before(Served(allServerData, f, Len(allServerData)), "TICK")
    <2>1. CASE ~ finished
      <3>1. ~ done /\ \A r \in 1..i : ~ IsPrefix(Name(allServerData, r), currentTopic)
        BY <1>1, <2>1 DEF LooksUp
      <3>2. i = Len(allServerData)
        BY <1>2, <1>3, <3>1 DEF publisherCounter
      <3>3. First(allServerData, currentTopic, i)
        BY <1>3, <3>1, <3>2 DEF First
      <3>4. Served(allServerData, i, Len(allServerData)) = <<>>
        BY <1>3, <3>2, ServedGrows
      <3>5. Before(<<>>, "TICK") = <<>>
        <4>1. <<>> \in Seq(Cell) /\ \A x \in 1..Len(<<>>) : <<>>[x] # "TICK"
          OBVIOUS
        <4> QED
          BY <4>1, BeforeNone
      <3>6. onTopicData = Kept(allServerData, currentTopic, i) \o <<>>
        BY <1>1, <1>2, <1>8, <2>1 DEF LooksUp
      <3> QED
        BY <1>3, <3>3, <3>4, <3>5, <3>6
    <2>2. CASE finished
      <3>1. PICK f \in 0..i : \E u \in Seq(Cell) : Copied(f, u)
        BY <1>1, <1>2, <2>2 DEF Serves
      <3>2. PICK u \in Seq(Cell) : Copied(f, u)
        BY <3>1
      <3>3. /\ First(allServerData, currentTopic, f) /\ f \in 0..Len(allServerData)
            /\ onTopicData = Kept(allServerData, currentTopic, f) \o u
        BY <1>3, <3>2 DEF Copied
      <3>4. u = Before(Served(allServerData, f, Len(allServerData)), "TICK")
        <4>1. CASE done
          BY <3>2, <4>1 DEF Copied
        <4>2. CASE ~ done
          <5>1. i = Len(allServerData)
            BY <1>2, <1>3, <4>2 DEF publisherCounter
          <5>2. u = Served(allServerData, f, i) \o <<>> /\ \A x \in 1..Len(u) : u[x] # "TICK"
            BY <1>8, <3>2, <4>2 DEF Copied
          <5>3. Served(allServerData, f, i) \in Seq(Cell)
            BY <1>3, <3>3, ServedGrows
          <5>4. u = Served(allServerData, f, Len(allServerData))
            BY <5>1, <5>2, <5>3, NothingBehind
          <5>5. Before(u, "TICK") = u
            BY <5>2, BeforeNone
          <5> QED
            BY <5>4, <5>5
        <4> QED
          BY <4>1, <4>2
      <3> QED
        BY <3>3, <3>4
    <2> QED
      BY <2>1, <2>2
  <1>11. ScanComputesReply'
    <2>1. PICK f \in 0..Len(allServerData) :
            /\ First(allServerData, currentTopic, f)
            /\ onTopicData = Kept(allServerData, currentTopic, f)
                               \o Before(Served(allServerData, f, Len(allServerData)), "TICK")
      BY <1>10
    <2>2. TopicReply(mem, publisherCounter, currentTopic) = onTopicData \o <<"TICK">>
      BY <1>3, <2>1, ReplyIs
    <2>3. onTopicData' = onTopicData \o <<"TICK">>
      BY <1>2, <1>3, <1>4, AppendBehind
    <2>4. mem' = mem /\ publisherCounter' = publisherCounter
      BY <1>2 DEF mem, publisherCounter
    <2> QED
      BY <1>2, <2>2, <2>3, <2>4 DEF ScanComputesReply
  <1> QED
    BY <1>6, <1>7, <1>9, <1>11 DEF SInv

\* In every state what has been copied is Kept, followed by what is served once a name
\* has matched.
THEOREM ScanInvariant == ScanSpec => []SInv
  <1>1. ASSUME SInv, [ScanNext]_scanVars
        PROVE  SInv'
    <2>1. CASE EntersRow
      BY <1>1, <2>1, EntersRowStep
    <2>2. CASE RowEnds
      BY <1>1, <2>2, RowEndsStep
    <2>3. CASE Mismatch
      BY <1>1, <2>3, MismatchStep
    <2>4. CASE Copies
      <3>1. CASE ch = "TICK"
        BY <1>1, <2>4, <3>1, TickStep
      <3>2. CASE ch # "TICK" /\ finished
        BY <1>1, <2>4, <3>2, ServedCellStep
      <3>3. CASE ch = ":" /\ ~ finished
        BY <1>1, <2>4, <3>3, NameStep
      <3>4. CASE ch # ":" /\ ~ finished
        BY <1>1, <2>4, <3>4, MatchStep
      <3> QED
        BY <3>1, <3>2, <3>3, <3>4
    <2>5. CASE Sends
      BY <1>1, <2>5, SendsStep
    <2>6. CASE UNCHANGED scanVars
      BY <1>1, <2>6 DEF scanVars, SInv, Types, LooksUp, Serves, Copied, Part, Short, row,
                        ScanComputesReply, mem, publisherCounter
    <2> QED
      BY <1>1, <2>1, <2>2, <2>3, <2>4, <2>5, <2>6 DEF ScanNext
  <1> QED
    BY <1>1, InitSInv, PTL DEF ScanSpec

\* The scan reads no character behind the topic's terminator and copies none twice: a
\* character compared beyond the last one of the topic differs from it, because no row
\* has a terminator in its text.
THEOREM NeverBeyondTheTopic == ScanSpec => []ScanInBounds
  <1>1. SInv => ScanInBounds
    <2> SUFFICES ASSUME SInv PROVE ScanInBounds
      OBVIOUS
    <2>1. k \in 0..Len(currentTopic) /\ Len(currentTopic) \in Nat /\ Short
      BY TopicIs DEF SInv, Types
    <2> QED
      BY <2>1 DEF ScanInBounds, Short
  <1> QED
    BY <1>1, ScanInvariant, PTL

\* The two loops (ChAuto.cpp:337-374), with their flags and their k, send what TopicReply
\* says, whatever the memory and the topic.
THEOREM LoopsComputeReply == ScanSpec => []ScanComputesReply
  <1>1. SInv => ScanComputesReply
    BY DEF SInv
  <1> QED
    BY <1>1, ScanInvariant, PTL

-----------------------------------------------------------------------------
(* MsgParams: numbers in the cells and offsets.                             *)

\* A byte
Byte == 0..(R - 1)

\* The number at offset o of cells c, the offset behind a parameter at o, and where
\* the loops stop, for format f
Num(f, c, o)  == IF f = 1 THEN c[o + 1] ELSE c[o + 1] + R * c[o + 2]
NextOffset(f, c, o) == o + 2 * f + Num(f, c, o + f)
Stops(f, c, o) == o + 2 * f > Len(c) \/ Num(f, c, o) = 0 \/ NextOffset(f, c, o) > Len(c)

\* The offsets as Walk computes them
Steps(f, c) ==
    LET size == Len(c)
        from[p \in 0..size] ==
            IF p + 2 * f > size \/ Num(f, c, p) = 0 \/ NextOffset(f, c, p) > size
            THEN <<p>>
            ELSE <<p>> \o from[NextOffset(f, c, p)]
    IN  from

\* A number below R is its low byte.
LEMMA SmallNumber ==
  ASSUME NEW n \in Byte
  PROVE  n % R = n /\ (n \div R) % R = 0
  <1>1. R \in Nat /\ R > 0 /\ n \in Nat /\ n < R
    BY MsgParamsAssumption DEF Byte
  <1>2. n % R = n
    BY <1>1
  <1>3. n \div R = 0
    BY <1>1
  <1>4. 0 % R = 0
    BY <1>1
  <1> QED
    BY <1>2, <1>3, <1>4

\* Walk is about the cells and the format alone.
LEMMA WalkIs ==
  ASSUME NEW m, NEW o
  PROVE  Walk(m, o) = Steps(format, m.cells)[o]
  BY Zenon DEF Walk, Steps, CodeAt, NumberAt, Behind, PARAM_HEADER_LENGTH, LengthAt, Num, NextOffset

\* Numbers in the cells are natural numbers.
LEMMA NumIs ==
  ASSUME NEW f \in {1, 2}, NEW c \in Seq(Byte), NEW o \in Nat, o + f =< Len(c)
  PROVE  Num(f, c, o) \in Nat
  <1>1. R \in Nat /\ Len(c) \in Nat
    BY MsgParamsAssumption
  <1>2. \A x \in 1..Len(c) : c[x] \in Nat
    <2>1. \A x \in 1..Len(c) : c[x] \in Byte
      BY ElementOfSeq
    <2>2. \A y \in Byte : y \in Nat
      BY <1>1 DEF Byte
    <2> QED
      BY <2>1, <2>2
  <1>3. CASE f = 1
    <2>1. o + 1 \in 1..Len(c)
      BY <1>1, <1>3
    <2> QED
      BY <1>2, <1>3, <2>1 DEF Num
  <1>4. CASE f = 2
    <2>1. o + 1 \in 1..Len(c) /\ o + 2 \in 1..Len(c)
      BY <1>1, <1>4
    <2>2. c[o + 1] \in Nat /\ c[o + 2] \in Nat
      BY <1>2, <2>1
    <2>3. \A y, z \in Nat : y + R * z \in Nat
      BY <1>1
    <2> QED
      BY <1>4, <2>2, <2>3 DEF Num
  <1> QED
    BY <1>3, <1>4

\* A parameter that the loops pass has at least its header.
LEMMA PassIs ==
  ASSUME NEW f \in {1, 2}, NEW c \in Seq(Byte), NEW o \in Nat, ~ Stops(f, c, o)
  PROVE  /\ NextOffset(f, c, o) \in Nat
         /\ o + 2 * f =< NextOffset(f, c, o)
         /\ NextOffset(f, c, o) =< Len(c)
         /\ Num(f, c, o) \in Nat \ {0}
         /\ Num(f, c, o + f) \in Nat
         /\ o < NextOffset(f, c, o)
  <1>1. Len(c) \in Nat /\ f \in Nat /\ f > 0
    OBVIOUS
  <1>2. o + 2 * f =< Len(c) /\ ~ (Num(f, c, o) = 0) /\ ~ (NextOffset(f, c, o) > Len(c))
    BY <1>1 DEF Stops
  <1>3. o + f \in Nat /\ (o + f) + f =< Len(c) /\ o + f =< Len(c)
    BY <1>1, <1>2
  <1>4. Num(f, c, o + f) \in Nat /\ Num(f, c, o) \in Nat
    BY <1>3, NumIs
  <1> QED
    BY <1>1, <1>2, <1>4 DEF NextOffset

\* The recursion of Walk has a solution, so that its equation holds.
LEMMA StepsSolve ==
  ASSUME NEW f \in {1, 2}, NEW c \in Seq(Byte)
  PROVE  \A p \in 0..Len(c) :
            Steps(f, c)[p] = IF Stops(f, c, p) THEN <<p>> ELSE <<p>> \o Steps(f, c)[NextOffset(f, c, p)]
  <1> DEFINE n == Len(c)
             Body(g, p) == IF Stops(f, c, p) THEN <<p>> ELSE <<p>> \o g[NextOffset(f, c, p)]
             Good == {x \in 0..n : \E g : \A p \in (n - x)..n : g[p] = Body(g, p)}
  <1>1. n \in Nat
    OBVIOUS
  <1>2. \A p \in 0..n : ~ Stops(f, c, p) => NextOffset(f, c, p) \in (p + 1)..n
    BY PassIs
  <1> HIDE DEF n
  <1>3. 0 \in Good
    <2> DEFINE g == [p \in n..n |-> <<n>>]
    <2>1. Stops(f, c, n)
      BY <1>1 DEF Stops, n
    <2>2. \A p \in (n - 0)..n : p = n /\ g[p] = <<n>>
      BY <1>1
    <2> HIDE DEF g
    <2>3. \A p \in (n - 0)..n : g[p] = Body(g, p)
      BY <2>1, <2>2
    <2> QED
      BY <1>1, <2>3
  <1>4. ASSUME NEW x \in 1..n, x - 1 \in Good
        PROVE  x \in Good
    <2>1. PICK g : \A p \in (n - (x - 1))..n : g[p] = Body(g, p)
      BY <1>4
    <2> DEFINE q == n - x
               h == [p \in q..n |-> IF p = q THEN Body(g, q) ELSE g[p]]
    <2>2. /\ q \in 0..n /\ x \in 0..n /\ q \in q..n
          /\ \A p \in q..n : p \in 0..n /\ (p # q => p \in (n - (x - 1))..n)
          /\ \A p \in q..n : \A y \in (p + 1)..n : y \in q..n /\ y # q
      BY <1>1
    <2>3. \A p \in q..n : h[p] = IF p = q THEN Body(g, q) ELSE g[p]
      OBVIOUS
    <2> HIDE DEF h, q
    <2>4. ASSUME NEW p \in q..n
          PROVE  h[p] = Body(h, p)
      <3>1. h[p] = Body(g, p)
        BY <2>1, <2>2, <2>3
      <3>2. CASE Stops(f, c, p)
        BY <3>1, <3>2
      <3>3. CASE ~ Stops(f, c, p)
        <4>1. NextOffset(f, c, p) \in q..n /\ NextOffset(f, c, p) # q
          BY <1>2, <2>2, <3>3
        <4>2. h[NextOffset(f, c, p)] = g[NextOffset(f, c, p)]
          BY <2>3, <4>1
        <4> QED
          BY <3>1, <3>3, <4>2
      <3> QED
        BY <3>2, <3>3
    <2> HIDE DEF Body
    <2> QED
      BY <2>2, <2>4 DEF q
  <1> HIDE DEF Good
  <1>5. n \in Good
    BY <1>1, <1>3, <1>4, UpTo, SMTT(40)
  <1>6. PICK g : \A p \in 0..n : g[p] = Body(g, p)
    <2>1. n - n = 0
      BY <1>1
    <2> QED
      BY <1>5, <2>1 DEF Good
  <1> DEFINE Solves(h) == h = [p \in 0..n |-> Body(h, p)]
             r == [p \in 0..n |-> g[p]]
  <1>7. Solves(r)
    <2>1. ASSUME NEW p \in 0..n
          PROVE  Body(r, p) = g[p]
      <3>1. ~ Stops(f, c, p) => NextOffset(f, c, p) \in 0..n
        BY <1>1, <1>2
      <3>2. ~ Stops(f, c, p) => r[NextOffset(f, c, p)] = g[NextOffset(f, c, p)]
        BY <3>1
      <3> HIDE DEF r
      <3> QED
        BY <1>6, <3>2
    <2> HIDE DEF Body
    <2> QED
      BY <2>1
  <1>8. Steps(f, c) = CHOOSE h : Solves(h)
    BY Zenon DEF Steps, Stops, n
  <1> HIDE DEF r, Solves
  <1>9. Solves(CHOOSE h : Solves(h))
    BY <1>7
  <1>10. Solves(Steps(f, c))
    BY <1>8, <1>9
  <1> HIDE DEF Body
  <1>11. \A p \in 0..n : Steps(f, c)[p] = Body(Steps(f, c), p)
    <2> HIDE DEF Steps
    <2>1. PICK h : h = Steps(f, c)
      OBVIOUS
    <2>2. h = [p \in 0..n |-> Body(h, p)]
      BY <1>10, <2>1 DEF Solves
    <2> QED
      BY <2>1, <2>2
  <1> QED
    BY <1>11 DEF Body, n

\* s is the offsets of parameters behind one another and the one where a loop stops.
Chain(f, c, s) ==
    /\ s \in Seq(Nat)
    /\ Len(s) > 0
    /\ \A x \in 1..Len(s) : s[x] \in 0..Len(c)
    /\ \A x \in 1..(Len(s) - 1) : ~ Stops(f, c, s[x]) /\ s[x + 1] = NextOffset(f, c, s[x])
    /\ Stops(f, c, s[Len(s)])

\* A chain with one more parameter in front of it
LEMMA ChainLonger ==
  ASSUME NEW f, NEW c \in Seq(Byte), NEW s, Chain(f, c, s), NEW p \in 0..Len(c),
         ~ Stops(f, c, p), s[1] = NextOffset(f, c, p)
  PROVE  Chain(f, c, <<p>> \o s) /\ (<<p>> \o s)[1] = p
  <1>1. PICK t : t = <<p>> \o s
    OBVIOUS
  <1>2. s \in Seq(Nat) /\ Len(s) \in Nat /\ Len(s) > 0
    BY DEF Chain
  <1>3. <<p>> \in Seq(Nat) /\ Len(<<p>>) = 1 /\ <<p>>[1] = p
    OBVIOUS
  <1>4. /\ t \in Seq(Nat) /\ Len(t) = Len(s) + 1 /\ t[1] = p
        /\ \A x \in 1..Len(s) : t[x + 1] = s[x]
    <2>1. /\ t \in Seq(Nat) /\ Len(t) = 1 + Len(s)
          /\ \A x \in 1..(1 + Len(s)) : t[x] = IF x =< 1 THEN <<p>>[x] ELSE s[x - 1]
      BY <1>1, <1>2, <1>3, ConcatProperties
    <2>2. ASSUME NEW x \in 1..Len(s)
          PROVE  t[x + 1] = s[x]
      <3>1. x + 1 \in 1..(1 + Len(s)) /\ ~ (x + 1 =< 1) /\ (x + 1) - 1 = x
        BY <1>2
      <3> QED
        BY <2>1, <3>1
    <2>3. t[1] = p
      <3>1. 1 \in 1..(1 + Len(s))
        BY <1>2
      <3> QED
        BY <1>3, <2>1, <3>1
    <2> QED
      BY <1>2, <2>1, <2>2, <2>3
  <1>5. ASSUME NEW x \in 1..Len(t)
        PROVE  t[x] \in 0..Len(c)
    <2>1. CASE x = 1
      BY <1>4, <2>1
    <2>2. CASE x # 1
      <3>1. x - 1 \in 1..Len(s) /\ (x - 1) + 1 = x
        BY <1>2, <1>4, <2>2
      <3>2. t[x] = s[x - 1]
        BY <1>4, <3>1
      <3> QED
        BY <3>1, <3>2 DEF Chain
    <2> QED
      BY <2>1, <2>2
  <1>6. ASSUME NEW x \in 1..(Len(t) - 1)
        PROVE  ~ Stops(f, c, t[x]) /\ t[x + 1] = NextOffset(f, c, t[x])
    <2>1. CASE x = 1
      <3>1. 1 \in 1..Len(s)
        BY <1>2
      <3>2. t[x] = p /\ t[x + 1] = s[1]
        BY <1>4, <2>1, <3>1
      <3> QED
        BY <3>2
    <2>2. CASE x # 1
      <3>1. x - 1 \in 1..Len(s) /\ x - 1 \in 1..(Len(s) - 1) /\ x \in 1..Len(s) /\ (x - 1) + 1 = x
        BY <1>2, <1>4, <2>2
      <3>2. t[x] = s[x - 1] /\ t[x + 1] = s[x]
        BY <1>4, <3>1
      <3> QED
        BY <3>1, <3>2 DEF Chain
    <2> QED
      BY <2>1, <2>2
  <1>7. t[Len(t)] = s[Len(s)] /\ Len(t) > 0
    <2>1. Len(s) \in 1..Len(s)
      BY <1>2
    <2> QED
      BY <1>2, <1>4, <2>1, SMTT(40)
  <1> QED
    BY <1>1, <1>4, <1>5, <1>6, <1>7 DEF Chain

\* Walk finds a chain from every offset.
LEMMA StepsChain ==
  ASSUME NEW f \in {1, 2}, NEW c \in Seq(Byte)
  PROVE  \A p \in 0..Len(c) : Chain(f, c, Steps(f, c)[p]) /\ Steps(f, c)[p][1] = p
  <1> DEFINE n == Len(c)
             Fine(p) == Chain(f, c, Steps(f, c)[p]) /\ Steps(f, c)[p][1] = p
             Good == {x \in 0..n : \A p \in (n - x)..n : Fine(p)}
  <1>1. n \in Nat
    OBVIOUS
  <1>2. ASSUME NEW p \in 0..n, Stops(f, c, p)
        PROVE  Fine(p)
    <2>1. Steps(f, c)[p] = <<p>>
      BY <1>2, StepsSolve
    <2>2. <<p>> \in Seq(Nat) /\ Len(<<p>>) = 1 /\ <<p>>[1] = p /\ 1..(1 - 1) = {} /\ 1..1 = {1}
      BY <1>1
    <2>3. Chain(f, c, <<p>>)
      BY <1>2, <2>2 DEF Chain
    <2> QED
      BY <2>1, <2>2, <2>3
  <1>3. ASSUME NEW p \in 0..n, ~ Stops(f, c, p), Fine(NextOffset(f, c, p))
        PROVE  Fine(p)
    <2>1. Steps(f, c)[p] = <<p>> \o Steps(f, c)[NextOffset(f, c, p)]
      BY <1>3, StepsSolve
    <2> QED
      BY <1>3, <2>1, ChainLonger
  <1>4. \A p \in 0..n : ~ Stops(f, c, p) => NextOffset(f, c, p) \in (p + 1)..n
    BY PassIs
  <1> HIDE DEF n, Fine
  <1>5. 0 \in Good
    <2>1. Stops(f, c, n)
      BY <1>1 DEF Stops, n
    <2>2. \A p \in (n - 0)..n : p = n /\ n \in 0..n
      BY <1>1
    <2> QED
      BY <1>1, <1>2, <2>1, <2>2
  <1>6. ASSUME NEW x \in 1..n, x - 1 \in Good
        PROVE  x \in Good
    <2>1. \A p \in (n - (x - 1))..n : Fine(p)
      BY <1>6
    <2>2. /\ x \in 0..n
          /\ \A p \in (n - x)..n : p \in 0..n /\ \A y \in (p + 1)..n : y \in (n - (x - 1))..n
      BY <1>1
    <2>3. \A p \in (n - x)..n : ~ Stops(f, c, p) => Fine(NextOffset(f, c, p))
      BY <1>4, <2>1, <2>2
    <2> QED
      BY <1>2, <1>3, <2>2, <2>3
  <1> HIDE DEF Good
  <1>7. n \in Good /\ n - n = 0
    BY <1>1, <1>5, <1>6, UpTo, SMTT(40)
  <1> QED
    BY <1>7 DEF Good, n, Fine

\* The chain from an offset is unique.
LEMMA ChainUnique ==
  ASSUME NEW f, NEW c \in Seq(Byte), NEW s, NEW t,
         Chain(f, c, s), Chain(f, c, t), s[1] = t[1]
  PROVE  s = t
  <1> DEFINE Same == {0} \cup {x \in 1..Len(s) : x =< Len(t) /\ s[x] = t[x]}
  <1>1. s \in Seq(Nat) /\ t \in Seq(Nat) /\ Len(s) \in Nat \ {0} /\ Len(t) \in Nat \ {0}
    BY DEF Chain
  <1>2. ASSUME NEW x \in 1..Len(s), x - 1 \in Same
        PROVE  x \in Same
    <2>1. CASE x = 1
      BY <1>1, <2>1
    <2>2. CASE x # 1
      <3>1. /\ x - 1 \in 1..Len(s) /\ x - 1 \in 1..(Len(s) - 1) /\ (x - 1) + 1 = x
            /\ x - 1 # 0
        BY <1>1, <2>2
      <3>2. x - 1 =< Len(t) /\ s[x - 1] = t[x - 1]
        BY <1>2, <3>1
      <3>3. ~ Stops(f, c, s[x - 1]) /\ s[x] = NextOffset(f, c, s[x - 1])
        BY <3>1 DEF Chain
      <3>4. x - 1 # Len(t)
        BY <3>2, <3>3 DEF Chain
      <3>5. x - 1 \in 1..(Len(t) - 1)
        BY <1>1, <3>1, <3>2, <3>4
      <3>6. t[x] = NextOffset(f, c, t[x - 1])
        BY <3>1, <3>5 DEF Chain
      <3> QED
        BY <1>1, <3>2, <3>3, <3>5, <3>6
    <2> QED
      BY <2>1, <2>2
  <1> HIDE DEF Same
  <1>3. 0..Len(s) \subseteq Same
    <2>1. 0 \in Same
      BY DEF Same
    <2> QED
      BY <1>1, <1>2, <2>1, UpTo
  <1>4. \A x \in 1..Len(s) : x =< Len(t) /\ s[x] = t[x]
    <2> SUFFICES ASSUME NEW x \in 1..Len(s) PROVE x =< Len(t) /\ s[x] = t[x]
      OBVIOUS
    <2>1. x \in Same /\ x # 0
      BY <1>1, <1>3, SMTT(40)
    <2> QED
      BY <2>1 DEF Same
  <1>5. Len(s) \in 1..Len(s)
    BY <1>1
  <1>6. Len(s) =< Len(t) /\ s[Len(s)] = t[Len(s)]
    BY <1>4, <1>5
  <1>7. Len(s) = Len(t)
    <2> SUFFICES ASSUME Len(s) # Len(t) PROVE FALSE
      OBVIOUS
    <2>1. Len(s) \in 1..(Len(t) - 1)
      BY <1>1, <1>6
    <2> QED
      BY <1>6, <2>1 DEF Chain
  <1> QED
    BY <1>1, <1>4, <1>7, SeqEqual

\* Offsets grow along a chain, by at least a header.
LEMMA ChainGrows ==
  ASSUME NEW f \in {1, 2}, NEW c \in Seq(Byte), NEW s, Chain(f, c, s)
  PROVE  \A y \in 1..Len(s), x \in 1..Len(s) : x < y => s[x] + 2 * f =< s[y]
  <1>1. s \in Seq(Nat) /\ Len(s) \in Nat \ {0} /\ 2 * f \in Nat
    BY DEF Chain
  <1>2. \A x \in 1..Len(s) : s[x] \in Nat
    BY <1>1, ElementOfSeq
  <1> DEFINE Good == {0} \cup {y \in 1..Len(s) : \A x \in 1..Len(s) : x < y => s[x] + 2 * f =< s[y]}
  <1>3. ASSUME NEW y \in 1..Len(s), y - 1 \in Good
        PROVE  y \in Good
    <2> SUFFICES ASSUME NEW x \in 1..Len(s), x < y PROVE s[x] + 2 * f =< s[y]
      OBVIOUS
    <2>1. /\ y - 1 \in 1..Len(s) /\ y - 1 \in 1..(Len(s) - 1) /\ (y - 1) + 1 = y
          /\ y - 1 # 0 /\ (x = y - 1 \/ x < y - 1)
      BY <1>1
    <2>2. ~ Stops(f, c, s[y - 1]) /\ s[y] = NextOffset(f, c, s[y - 1])
      BY <2>1 DEF Chain
    <2>3. s[y - 1] + 2 * f =< s[y]
      BY <1>2, <2>1, <2>2, PassIs
    <2>4. CASE x = y - 1
      BY <2>3, <2>4
    <2>5. CASE x < y - 1
      <3>1. s[x] + 2 * f =< s[y - 1]
        BY <1>3, <2>1, <2>5
      <3>2. s[x] \in Nat /\ s[y] \in Nat /\ s[y - 1] \in Nat
        BY <1>2, <2>1
      <3> QED
        BY <1>1, <2>3, <3>1, <3>2, SMTT(40)
    <2> QED
      BY <2>1, <2>4, <2>5
  <1>4. 0..Len(s) \subseteq Good
    <2> HIDE DEF Good
    <2>1. 0 \in Good
      BY DEF Good
    <2> QED
      BY <1>1, <1>3, <2>1, UpTo
  <1> SUFFICES ASSUME NEW y \in 1..Len(s), NEW x \in 1..Len(s), x < y PROVE s[x] + 2 * f =< s[y]
    OBVIOUS
  <1>5. y \in 0..Len(s) /\ y # 0
    BY <1>1
  <1> HIDE DEF Good
  <1>6. y \in Good
    BY <1>4, <1>5
  <1> QED
    BY <1>5, <1>6 DEF Good

-----------------------------------------------------------------------------
(* The list of parameters in some cells.                                   *)

\* A part of a sequence
LEMMA SliceIs ==
  ASSUME NEW S, NEW s \in Seq(S), NEW a \in Nat, NEW b \in Nat, a =< b, b =< Len(s)
  PROVE  /\ SubSeq(s, a + 1, b) \in Seq(S)
         /\ Len(SubSeq(s, a + 1, b)) = b - a
         /\ \A x \in 1..(b - a) : SubSeq(s, a + 1, b)[x] = s[a + x]
  <1>1. PICK r : r = SubSeq(s, a + 1, b)
    OBVIOUS
  <1>2. Len(s) \in Nat /\ a + 1 \in Int /\ b \in Int
    OBVIOUS
  <1>3. \A x \in (a + 1)..b : s[x] \in S
    <2>1. \A x \in (a + 1)..b : x \in 1..Len(s)
      BY <1>2
    <2> QED
      BY <2>1, ElementOfSeq
  <1>4. /\ r \in Seq(S)
        /\ Len(r) = IF a + 1 =< b THEN b - (a + 1) + 1 ELSE 0
        /\ \A x \in 1..(b - (a + 1) + 1) : r[x] = s[(a + 1) + x - 1]
    BY <1>1, <1>2, <1>3, SubSeqProperties
  <1>5. Len(r) = b - a /\ b - (a + 1) + 1 = b - a
    BY <1>4
  <1>6. \A x \in 1..(b - a) : (a + 1) + x - 1 = a + x
    OBVIOUS
  <1> QED
    BY <1>1, <1>4, <1>5, <1>6

\* The cells of c between offsets a and b are those of e between a + w and b + w.
Moved(c, e, a, b, w) ==
    /\ c \in Seq(Byte) /\ e \in Seq(Byte)
    /\ a \in Nat /\ b \in Nat /\ w \in Nat
    /\ a =< b /\ b =< Len(c) /\ b + w =< Len(e)
    /\ \A x \in (a + 1)..b : e[x + w] = c[x]

\* A part of what was moved was moved.
LEMMA MovedWithin ==
  ASSUME NEW c, NEW e, NEW a, NEW b, NEW w, Moved(c, e, a, b, w),
         NEW g \in Nat, NEW h \in Nat, a =< g, g =< h, h =< b
  PROVE  Moved(c, e, g, h, w)
  <1>1. /\ a \in Nat /\ b \in Nat /\ w \in Nat /\ Len(c) \in Nat /\ Len(e) \in Nat
        /\ b =< Len(c) /\ b + w =< Len(e)
    BY DEF Moved
  <1>2. \A x \in (g + 1)..h : x \in (a + 1)..b
    BY <1>1
  <1>3. h =< Len(c) /\ h + w =< Len(e)
    BY <1>1
  <1> QED
    BY <1>1, <1>2, <1>3 DEF Moved

\* The cells between two offsets, and the parameter there
Slice(c, a, b) == SubSeq(c, a + 1, b)

ParamAt(f, c, o, n) == [code |-> Num(f, c, o), value |-> Slice(c, o + 2 * f, n)]

\* A part that moves by w
LEMMA PartMoves ==
  ASSUME NEW c, NEW e, NEW a, NEW b, NEW w, Moved(c, e, a, b, w),
         NEW g, g = a + w, NEW h, h = b + w
  PROVE  Slice(e, g, h) = Slice(c, a, b)
  <1>0. /\ c \in Seq(Byte) /\ e \in Seq(Byte) /\ a \in Nat /\ b \in Nat /\ w \in Nat
        /\ a =< b /\ b =< Len(c) /\ h =< Len(e)
    BY DEF Moved
  <1>1. PICK u, v : u = SubSeq(e, g + 1, h) /\ v = SubSeq(c, a + 1, b)
    OBVIOUS
  <1>2. g \in Nat /\ h \in Nat /\ g =< h /\ h - g = b - a /\ b - a \in Nat
    BY <1>0
  <1>3. u \in Seq(Byte) /\ Len(u) = b - a /\ \A x \in 1..(b - a) : u[x] = e[g + x]
    <2>1. u \in Seq(Byte) /\ Len(u) = h - g /\ \A x \in 1..(h - g) : u[x] = e[g + x]
      BY <1>0, <1>1, <1>2, SliceIs
    <2> QED
      BY <1>2, <2>1
  <1>4. v \in Seq(Byte) /\ Len(v) = b - a /\ \A x \in 1..(b - a) : v[x] = c[a + x]
    BY <1>0, <1>1, SliceIs
  <1>5. ASSUME NEW x \in 1..(b - a)
        PROVE  u[x] = v[x]
    <2>1. a + x \in (a + 1)..b /\ g + x = (a + x) + w
      BY <1>0, <1>2
    <2>2. e[(a + x) + w] = c[a + x]
      BY <2>1 DEF Moved
    <2> QED
      BY <1>3, <1>4, <2>1, <2>2
  <1>6. u = v
    BY <1>3, <1>4, <1>5, SeqEqual
  <1> QED
    BY <1>1, <1>6 DEF Slice

\* A number that moves by w
LEMMA NumMoves ==
  ASSUME NEW f \in {1, 2}, NEW c, NEW e, NEW o, NEW n, NEW w, Moved(c, e, o, n, w),
         NEW g, g = o + w, o + f =< n
  PROVE  Num(f, e, g) = Num(f, c, o)
  <1>0. o \in Nat /\ n \in Nat /\ w \in Nat
    BY DEF Moved
  <1>1. o + 1 \in (o + 1)..n /\ g + 1 = (o + 1) + w
    BY <1>0
  <1>2. f # 1 => o + 2 \in (o + 1)..n /\ g + 2 = (o + 2) + w
    BY <1>0
  <1>3. e[(o + 1) + w] = c[o + 1] /\ (f # 1 => e[(o + 2) + w] = c[o + 2])
    BY <1>1, <1>2 DEF Moved
  <1> QED
    BY <1>1, <1>2, <1>3 DEF Num

\* A parameter that moves by w: it is still passed, and read as the same.
LEMMA ParamMoves ==
  ASSUME NEW f \in {1, 2}, NEW c, NEW e, NEW o, NEW n, NEW w, Moved(c, e, o, n, w),
         n = NextOffset(f, c, o), ~ Stops(f, c, o), NEW g, g = o + w, NEW q, q = n + w
  PROVE  ~ Stops(f, e, g) /\ NextOffset(f, e, g) = q /\ ParamAt(f, e, g, q) = ParamAt(f, c, o, n)
  <1>1. c \in Seq(Byte) /\ o \in Nat /\ w \in Nat /\ Len(e) \in Nat /\ q =< Len(e)
    BY DEF Moved
  <1>2. /\ n \in Nat /\ o + 2 * f =< n /\ n =< Len(c)
        /\ Num(f, c, o) \in Nat \ {0} /\ Num(f, c, o + f) \in Nat
    BY <1>1, PassIs
  <1>3. PICK d, h : d = o + f /\ h = o + 2 * f
    OBVIOUS
  <1>4. /\ f \in Nat /\ d \in Nat /\ g \in Nat /\ h \in Nat /\ g + f = d + w /\ g + 2 * f = h + w
        /\ o + f =< n /\ d + f =< n /\ o =< d /\ d =< n /\ o =< h /\ n =< n /\ h =< n
    BY <1>1, <1>2, <1>3, SMTT(40)
  <1>5. Num(f, e, g) = Num(f, c, o)
    BY <1>4, NumMoves
  <1>6. Num(f, e, g + f) = Num(f, c, d)
    <2>1. Moved(c, e, d, n, w)
      BY <1>2, <1>4, MovedWithin
    <2> QED
      BY <1>4, <2>1, NumMoves
  <1>7. NextOffset(f, e, g) = q
    BY <1>1, <1>2, <1>3, <1>4, <1>6, SMTT(40) DEF NextOffset
  <1>8. ~ Stops(f, e, g)
    <2>1. ~ (g + 2 * f > Len(e)) /\ ~ (q > Len(e))
      BY <1>1, <1>2, <1>4, SMTT(40)
    <2>2. ~ (Num(f, e, g) = 0)
      BY <1>2, <1>5
    <2> QED
      BY <1>7, <2>1, <2>2 DEF Stops
  <1>9. Slice(e, g + 2 * f, q) = Slice(c, h, n)
    <2>1. Moved(c, e, h, n, w)
      BY <1>2, <1>4, MovedWithin
    <2>2. PICK y : y = g + 2 * f
      OBVIOUS
    <2>3. y = h + w
      BY <1>4, <2>2
    <2>4. Slice(e, y, q) = Slice(c, h, n)
      BY <2>1, <2>3, PartMoves
    <2> QED
      BY <2>2, <2>4
  <1> QED
    BY <1>3, <1>5, <1>7, <1>8, <1>9 DEF ParamAt

\* The first l cells are a message with the parameters at the offsets s, and its
\* terminator.
Complete(f, c, s, l) ==
    /\ Chain(f, c, s)
    /\ s[1] = 0
    /\ l = s[Len(s)] + 2
    /\ l =< Len(c)
    /\ Num(f, c, s[Len(s)]) = 0

List(f, c, s) == [x \in 1..(Len(s) - 1) |-> ParamAt(f, c, s[x], s[x + 1])]

\* The offsets of a chain and the parameters between them
LEMMA ChainIs ==
  ASSUME NEW f \in {1, 2}, NEW c \in Seq(Byte), NEW s, Chain(f, c, s)
  PROVE  /\ s \in Seq(Nat) /\ Len(s) \in Nat \ {0} /\ Len(c) \in Nat
         /\ \A x \in 1..Len(s) : s[x] \in Nat /\ s[x] =< s[Len(s)] /\ s[x] =< Len(c)
         /\ \A x \in 1..(Len(s) - 1) :
               /\ ~ Stops(f, c, s[x]) /\ s[x + 1] = NextOffset(f, c, s[x])
               /\ s[x] + 2 * f =< s[x + 1]
               /\ x \in 1..Len(s) /\ x + 1 \in 1..Len(s)
  <1>1. s \in Seq(Nat) /\ Len(s) \in Nat \ {0} /\ Len(c) \in Nat /\ 2 * f \in Nat
    BY DEF Chain
  <1>2. \A x \in 1..Len(s) : s[x] \in Nat /\ s[x] =< Len(c)
    BY <1>1 DEF Chain
  <1>3. ASSUME NEW x \in 1..Len(s)
        PROVE  s[x] =< s[Len(s)]
    <2>1. Len(s) \in 1..Len(s) /\ (x = Len(s) \/ x < Len(s))
      BY <1>1
    <2>2. x < Len(s) => s[x] + 2 * f =< s[Len(s)]
      BY <2>1, ChainGrows
    <2>3. s[x] \in Nat /\ s[Len(s)] \in Nat
      BY <1>2, <2>1
    <2> QED
      BY <1>1, <2>1, <2>2, <2>3
  <1>4. ASSUME NEW x \in 1..(Len(s) - 1)
        PROVE  /\ ~ Stops(f, c, s[x]) /\ s[x + 1] = NextOffset(f, c, s[x])
               /\ s[x] + 2 * f =< s[x + 1]
               /\ x \in 1..Len(s) /\ x + 1 \in 1..Len(s)
    <2>1. x \in 1..Len(s) /\ x + 1 \in 1..Len(s) /\ x < x + 1
      BY <1>1
    <2>2. s[x] + 2 * f =< s[x + 1]
      BY <2>1, ChainGrows
    <2> QED
      BY <2>1, <2>2 DEF Chain
  <1> QED
    BY <1>1, <1>2, <1>3, <1>4

\* A message is the same in any other cells that start with it.
LEMMA MessageKept ==
  ASSUME NEW f \in {1, 2}, NEW c \in Seq(Byte), NEW s, NEW l, Complete(f, c, s, l),
         NEW e, Moved(c, e, 0, l, 0)
  PROVE  Complete(f, e, s, l) /\ List(f, e, s) = List(f, c, s)
  <1>1. Chain(f, c, s) /\ l = s[Len(s)] + 2 /\ s[1] = 0 /\ Num(f, c, s[Len(s)]) = 0
    BY DEF Complete
  <1>2. /\ s \in Seq(Nat) /\ Len(s) \in Nat \ {0} /\ Len(c) \in Nat
        /\ \A x \in 1..Len(s) : s[x] \in Nat /\ s[x] =< s[Len(s)] /\ s[x] =< Len(c)
        /\ \A x \in 1..(Len(s) - 1) :
               /\ ~ Stops(f, c, s[x]) /\ s[x + 1] = NextOffset(f, c, s[x])
               /\ s[x] + 2 * f =< s[x + 1]
               /\ x \in 1..Len(s) /\ x + 1 \in 1..Len(s)
    BY <1>1, ChainIs
  <1>3. PICK z : z = s[Len(s)]
    OBVIOUS
  <1>4. /\ l \in Nat /\ z \in Nat /\ Len(e) \in Nat /\ f \in Nat /\ z + f =< l /\ z + 0 = z /\ z =< l
        /\ l =< Len(e)
    <2>1. Len(s) \in 1..Len(s)
      BY <1>2
    <2> QED
      BY <1>1, <1>2, <1>3, <2>1, SMTT(40) DEF Moved
  <1>5. ASSUME NEW x \in 1..(Len(s) - 1)
        PROVE  /\ ~ Stops(f, e, s[x])
               /\ s[x + 1] = NextOffset(f, e, s[x])
               /\ ParamAt(f, e, s[x], s[x + 1]) = ParamAt(f, c, s[x], s[x + 1])
    <2>1. PICK o, n : o = s[x] /\ n = s[x + 1]
      OBVIOUS
    <2>2. /\ o \in Nat /\ ~ Stops(f, c, o) /\ n = NextOffset(f, c, o)
          /\ n \in Nat /\ n =< z /\ o + 2 * f =< n
      BY <1>2, <1>3, <2>1
    <2>3. o + 0 = o /\ n + 0 = n /\ 0 =< o /\ o =< n /\ n =< l
      BY <1>1, <1>3, <1>4, <2>2, SMTT(40)
    <2>4. Moved(c, e, o, n, 0)
      BY <1>4, <2>2, <2>3, MovedWithin
    <2>5. ~ Stops(f, e, o) /\ NextOffset(f, e, o) = n /\ ParamAt(f, e, o, n) = ParamAt(f, c, o, n)
      BY <2>2, <2>3, <2>4, ParamMoves
    <2> QED
      BY <2>1, <2>5
  <1>6. Num(f, e, z) = 0
    <2>1. Moved(c, e, z, l, 0)
      <3>1. 0 =< z /\ l =< l
        BY <1>4
      <3> QED
        BY <1>4, <3>1, MovedWithin
    <2>2. Num(f, e, z) = Num(f, c, z)
      BY <1>4, <2>1, NumMoves
    <2> QED
      BY <1>1, <1>3, <2>2
  <1>7. Chain(f, e, s)
    <2>1. ASSUME NEW x \in 1..Len(s)
          PROVE  s[x] \in 0..Len(e)
      <3>1. s[x] \in Nat /\ s[x] =< z
        BY <1>2, <1>3
      <3>2. z =< Len(e)
        BY <1>1, <1>3, <1>4
      <3> QED
        BY <1>1, <1>4, <3>1, <3>2
    <2>2. Stops(f, e, s[Len(s)])
      BY <1>3, <1>6 DEF Stops
    <2> QED
      BY <1>2, <1>5, <2>1, <2>2, SMTT(40) DEF Chain
  <1>8. List(f, e, s) = List(f, c, s)
    BY <1>5 DEF List
  <1> QED
    BY <1>1, <1>3, <1>4, <1>6, <1>7, <1>8 DEF Complete

AnyParam == [code : Nat \ {0}, value : Seq(Byte)]

\* The parameters of a chain are parameters.
LEMMA ListIs ==
  ASSUME NEW f \in {1, 2}, NEW c \in Seq(Byte), NEW s, Chain(f, c, s)
  PROVE  /\ List(f, c, s) \in Seq(AnyParam)
         /\ Len(List(f, c, s)) = Len(s) - 1
         /\ Len(s) - 1 \in Nat
         /\ \A x \in 1..(Len(s) - 1) :
               /\ List(f, c, s)[x] = ParamAt(f, c, s[x], s[x + 1])
               /\ List(f, c, s)[x].code = Num(f, c, s[x])
  <1>1. /\ s \in Seq(Nat) /\ Len(s) \in Nat \ {0} /\ Len(c) \in Nat
        /\ \A x \in 1..Len(s) : s[x] \in Nat /\ s[x] =< s[Len(s)] /\ s[x] =< Len(c)
        /\ \A x \in 1..(Len(s) - 1) :
               /\ ~ Stops(f, c, s[x]) /\ s[x + 1] = NextOffset(f, c, s[x])
               /\ s[x] + 2 * f =< s[x + 1]
               /\ x \in 1..Len(s) /\ x + 1 \in 1..Len(s)
    BY ChainIs
  <1>2. ASSUME NEW x \in 1..(Len(s) - 1)
        PROVE  ParamAt(f, c, s[x], s[x + 1]) \in AnyParam
    <2>1. PICK o, n, h : o = s[x] /\ n = s[x + 1] /\ h = o + 2 * f
      OBVIOUS
    <2>2. /\ o \in Nat /\ n \in Nat /\ h \in Nat /\ h =< n /\ n =< Len(c)
          /\ ~ Stops(f, c, o)
      <3>1. /\ x \in 1..Len(s) /\ x + 1 \in 1..Len(s) /\ ~ Stops(f, c, s[x])
            /\ s[x] + 2 * f =< s[x + 1]
        BY <1>1
      <3>2. o \in Nat /\ n \in Nat /\ n =< Len(c)
        BY <1>1, <2>1, <3>1
      <3> QED
        BY <2>1, <3>1, <3>2, SMTT(40)
    <2>3. Num(f, c, o) \in Nat \ {0}
      BY <2>2, PassIs
    <2>4. Slice(c, h, n) \in Seq(Byte)
      BY <2>2, SliceIs DEF Slice
    <2> QED
      BY <2>1, <2>3, <2>4 DEF ParamAt, AnyParam
  <1>3. Len(s) - 1 \in Nat /\ List(f, c, s) \in [1..(Len(s) - 1) -> AnyParam]
    BY <1>1, <1>2, SMTT(40) DEF List
  <1>4. List(f, c, s) \in Seq(AnyParam)
    BY <1>3, FunctionIsSequence
  <1>5. Len(List(f, c, s)) = Len(s) - 1
    <2>1. DOMAIN List(f, c, s) = 1..(Len(s) - 1) /\ DOMAIN List(f, c, s) = 1..Len(List(f, c, s))
      BY <1>4, LenProperties DEF List
    <2>2. Len(List(f, c, s)) \in Nat
      BY <1>4, LenProperties
    <2> QED
      BY <1>3, <2>1, <2>2
  <1>6. ASSUME NEW x \in 1..(Len(s) - 1)
        PROVE  /\ List(f, c, s)[x] = ParamAt(f, c, s[x], s[x + 1])
               /\ List(f, c, s)[x].code = Num(f, c, s[x])
    <2>1. List(f, c, s)[x] = ParamAt(f, c, s[x], s[x + 1])
      BY DEF List
    <2> QED
      BY <2>1 DEF ParamAt
  <1> QED
    BY <1>3, <1>4, <1>5, <1>6

\* p is the list of the parameters of a chain.
Listed(f, c, s, p) ==
    /\ p \in Seq(AnyParam) /\ Len(p) = Len(s) - 1
    /\ \A x \in 1..(Len(s) - 1) :
          p[x] = ParamAt(f, c, s[x], s[x + 1]) /\ p[x].code = Num(f, c, s[x])

\* What ListIs says, under one name
LEMMA ListListed ==
  ASSUME NEW f \in {1, 2}, NEW c \in Seq(Byte), NEW s, Chain(f, c, s), NEW p, p = List(f, c, s)
  PROVE  Listed(f, c, s, p)
  BY ListIs DEF Listed

\* The offsets once a parameter of b bytes is inserted at the offset s[q]
Shifted(s, q, b) == [x \in 1..(Len(s) + 1) |-> IF x =< q THEN s[x] ELSE s[x - 1] + b]

\* e is the cells c with the parameter of a code and a value inserted at offset o.
Holds(f, c, e, l, o, b, code, v) ==
    /\ code \in Nat \ {0} /\ v \in Seq(Byte) /\ b = 2 * f + Len(v)
    /\ Moved(c, e, 0, o, 0)
    /\ Moved(c, e, o, l, b)
    /\ Num(f, e, o) = code
    /\ Num(f, e, o + f) = Len(v)
    /\ Slice(e, o + 2 * f, o + b) = v

Grown(f, c, e, s, l, q, b, code, v) ==
    /\ Complete(f, e, Shifted(s, q, b), l + b)
    /\ List(f, e, Shifted(s, q, b)) = InsertAt(List(f, c, s), q, [code |-> code, value |-> v])

\* A message with a parameter inserted is the list with the parameter inserted.
LEMMA MessageGrown ==
  ASSUME NEW f \in {1, 2}, NEW c \in Seq(Byte), NEW s, NEW l, Complete(f, c, s, l),
         NEW q \in 1..Len(s), NEW b, NEW code, NEW v, NEW e, Holds(f, c, e, l, s[q], b, code, v)
  PROVE  Grown(f, c, e, s, l, q, b, code, v)
  <1>1. Chain(f, c, s) /\ l = s[Len(s)] + 2 /\ s[1] = 0 /\ Num(f, c, s[Len(s)]) = 0
    BY DEF Complete
  <1>2. /\ s \in Seq(Nat) /\ Len(s) \in Nat \ {0} /\ Len(c) \in Nat
        /\ \A x \in 1..Len(s) : s[x] \in Nat /\ s[x] =< s[Len(s)] /\ s[x] =< Len(c)
        /\ \A x \in 1..(Len(s) - 1) :
               /\ ~ Stops(f, c, s[x]) /\ s[x + 1] = NextOffset(f, c, s[x])
               /\ s[x] + 2 * f =< s[x + 1]
               /\ x \in 1..Len(s) /\ x + 1 \in 1..Len(s)
    BY <1>1, ChainIs
  <1>3. PICK z, o, t, n : z = s[Len(s)] /\ o = s[q] /\ t = Shifted(s, q, b) /\ n = Len(s)
    OBVIOUS
  <1>4. /\ code \in Nat \ {0} /\ v \in Seq(Byte) /\ b = 2 * f + Len(v)
        /\ Moved(c, e, 0, o, 0) /\ Moved(c, e, o, l, b)
        /\ Num(f, e, o) = code /\ Num(f, e, o + f) = Len(v) /\ Slice(e, o + 2 * f, o + b) = v
    BY <1>3 DEF Holds
  <1>5. /\ n \in Nat \ {0} /\ z \in Nat /\ o \in Nat /\ l \in Nat /\ b \in Nat /\ Len(v) \in Nat /\ f \in Nat
        /\ q \in Nat /\ q >= 1 /\ q =< n /\ o =< z /\ l = z + 2 /\ z + f =< l
        /\ e \in Seq(Byte) /\ Len(e) \in Nat /\ l + b =< Len(e) /\ 2 * f =< b
    <2>1. n \in 1..n /\ n \in Nat \ {0} /\ q \in Nat /\ q >= 1 /\ q =< n
      BY <1>2, <1>3
    <2>2. z \in Nat /\ o \in Nat /\ o =< z
      BY <1>2, <1>3, <2>1
    <2>3. e \in Seq(Byte) /\ l + b =< Len(e) /\ b \in Nat
      BY <1>4 DEF Moved
    <2>4. Len(v) \in Nat /\ Len(e) \in Nat
      BY <1>4, <2>3
    <2>5. l = z + 2 /\ b = 2 * f + Len(v)
      BY <1>1, <1>3, <1>4
    <2>6. f \in Nat /\ l \in Nat /\ z + f =< l
      BY <2>2, <2>5
    <2>7. 2 * f =< b
      BY <2>3, <2>4, <2>5, <2>6
    <2> QED
      BY <2>1, <2>2, <2>3, <2>4, <2>5, <2>6, <2>7
  <1>6. /\ t \in Seq(Nat) /\ Len(t) = n + 1
        /\ \A x \in 1..q : t[x] = s[x]
        /\ \A x \in q..n : t[x + 1] = s[x] + b
    <2>1. t = [x \in 1..(n + 1) |-> IF x =< q THEN s[x] ELSE s[x - 1] + b]
      BY <1>3 DEF Shifted
    <2>2. ASSUME NEW x \in 1..(n + 1)
          PROVE  (IF x =< q THEN s[x] ELSE s[x - 1] + b) \in Nat
      <3>1. CASE x =< q
        <4>1. x \in 1..n
          BY <1>5, <3>1
        <4>2. s[x] \in Nat
          BY <1>2, <1>3, <4>1
        <4> QED
          BY <3>1, <4>2
      <3>2. CASE ~ (x =< q)
        <4>1. x - 1 \in 1..n
          BY <1>5, <3>2
        <4>2. s[x - 1] \in Nat
          BY <1>2, <1>3, <4>1
        <4> QED
          BY <1>5, <3>2, <4>2, SMTT(40)
      <3> QED
        BY <3>1, <3>2
    <2>3. t \in [1..(n + 1) -> Nat] /\ n + 1 \in Nat
      <3>1. n + 1 \in Nat
        BY <1>5
      <3> QED
        BY <2>1, <2>2, <3>1
    <2>4. t \in Seq(Nat)
      BY <2>3, FunctionIsSequence
    <2>5. Len(t) = n + 1
      <3>1. DOMAIN t = 1..(n + 1) /\ DOMAIN t = 1..Len(t) /\ Len(t) \in Nat
        BY <2>3, <2>4, LenProperties
      <3> QED
        BY <2>3, <3>1
    <2>6. ASSUME NEW x \in 1..q
          PROVE  t[x] = s[x]
      BY <1>5, <2>1
    <2>7. ASSUME NEW x \in q..n
          PROVE  t[x + 1] = s[x] + b
      <3>1. x + 1 \in 1..(n + 1) /\ ~ (x + 1 =< q) /\ (x + 1) - 1 = x
        BY <1>5
      <3> QED
        BY <2>1, <3>1
    <2> QED
      BY <2>4, <2>5, <2>6, <2>7
  <1> DEFINE Passed(x) == /\ ~ Stops(f, e, t[x])
                          /\ t[x + 1] = NextOffset(f, e, t[x])
  <1>7. ASSUME NEW x \in 1..n, x < q
        PROVE  Passed(x) /\ ParamAt(f, e, t[x], t[x + 1]) = ParamAt(f, c, s[x], s[x + 1])
    <2>1. x \in 1..(n - 1) /\ x \in 1..q /\ x + 1 \in 1..q /\ x + 1 \in 1..n
      BY <1>5, <1>7
    <2>2. PICK p, w : p = s[x] /\ w = s[x + 1]
      OBVIOUS
    <2>3. /\ ~ Stops(f, c, p) /\ w = NextOffset(f, c, p) /\ p \in Nat /\ w \in Nat /\ p + 2 * f =< w
          /\ t[x] = p /\ t[x + 1] = w
      BY <1>2, <1>3, <1>6, <2>1, <2>2
    <2>4. w =< o
      <3>1. x + 1 = q \/ x + 1 < q
        BY <1>5, <1>7
      <3>2. x + 1 < q => s[x + 1] + 2 * f =< s[q]
        <4>1. q \in 1..Len(s) /\ x + 1 \in 1..Len(s)
          BY <1>3, <2>1
        <4> QED
          BY <1>1, <4>1, ChainGrows
      <3>3. x + 1 < q => w + 2 * f =< o
        BY <1>3, <2>2, <3>2
      <3>4. x + 1 = q => w = o
        BY <1>3, <2>2
      <3> QED
        BY <1>5, <2>3, <3>1, <3>3, <3>4, SMTT(40)
    <2>5. 0 =< p /\ p =< w /\ p + 0 = p /\ w + 0 = w
      BY <1>5, <2>3, SMTT(40)
    <2>6. Moved(c, e, p, w, 0)
      BY <1>4, <2>3, <2>4, <2>5, MovedWithin
    <2>7. ~ Stops(f, e, p) /\ NextOffset(f, e, p) = w /\ ParamAt(f, e, p, w) = ParamAt(f, c, p, w)
      BY <2>3, <2>5, <2>6, ParamMoves
    <2> QED
      BY <2>2, <2>3, <2>7
  <1>8. Passed(q) /\ ParamAt(f, e, t[q], t[q + 1]) = [code |-> code, value |-> v]
    <2>1. t[q] = o /\ t[q + 1] = o + b
      <3>1. q \in 1..q /\ q \in q..n
        BY <1>5
      <3> QED
        BY <1>3, <1>6, <3>1
    <2>2. NextOffset(f, e, o) = o + b
      <3>1. NextOffset(f, e, o) = o + 2 * f + Len(v)
        BY <1>4 DEF NextOffset
      <3>2. b = 2 * f + Len(v)
        BY <1>4
      <3> QED
        BY <1>5, <3>1, <3>2
    <2>3. ~ Stops(f, e, o)
      <3>1. ~ (o + 2 * f > Len(e)) /\ ~ (o + b > Len(e))
        BY <1>5
      <3>2. Num(f, e, o) # 0
        BY <1>4
      <3> QED
        BY <2>2, <3>1, <3>2 DEF Stops
    <2>4. ParamAt(f, e, o, o + b) = [code |-> code, value |-> v]
      BY <1>4 DEF ParamAt
    <2> QED
      BY <2>1, <2>2, <2>3, <2>4
  <1>9. ASSUME NEW x \in 1..(n - 1), q =< x
        PROVE  Passed(x + 1) /\ ParamAt(f, e, t[x + 1], t[x + 2]) = ParamAt(f, c, s[x], s[x + 1])
    <2>1. x \in 1..n /\ x \in q..n /\ x + 1 \in q..n /\ (x + 1) + 1 = x + 2 /\ x + 1 \in 1..n
      BY <1>5, <1>9
    <2>2. PICK p, w, g, h : p = s[x] /\ w = s[x + 1] /\ g = p + b /\ h = w + b
      OBVIOUS
    <2>3. /\ ~ Stops(f, c, p) /\ w = NextOffset(f, c, p) /\ p \in Nat /\ w \in Nat /\ p + 2 * f =< w
          /\ w =< z
      BY <1>2, <1>3, <2>1, <2>2
    <2>4. t[x + 1] = g /\ t[x + 2] = h
      <3>1. t[(x + 1) + 1] = s[x + 1] + b /\ t[x + 1] = s[x] + b
        BY <1>6, <2>1
      <3> QED
        BY <2>1, <2>2, <3>1
    <2>5. o =< p
      <3>1. q = x \/ q < x
        BY <1>5, <1>9
      <3>2. q < x => s[q] + 2 * f =< s[x]
        <4>1. q \in 1..Len(s) /\ x \in 1..Len(s)
          BY <1>3, <2>1
        <4> QED
          BY <1>1, <4>1, ChainGrows
      <3>3. q < x => o + 2 * f =< p
        BY <1>3, <2>2, <3>2
      <3>4. q = x => p = o
        BY <1>3, <2>2
      <3> QED
        BY <1>5, <2>3, <3>1, <3>3, <3>4
    <2>6. p =< w /\ w =< l
      BY <1>5, <2>3, SMTT(40)
    <2>7. Moved(c, e, p, w, b)
      BY <1>4, <2>3, <2>5, <2>6, MovedWithin
    <2>8. ~ Stops(f, e, g) /\ NextOffset(f, e, g) = h /\ ParamAt(f, e, g, h) = ParamAt(f, c, p, w)
      BY <2>2, <2>3, <2>7, ParamMoves, SMTT(40)
    <2> QED
      BY <2>1, <2>2, <2>4, <2>8
  <1>10. t[n + 1] = z + b /\ Num(f, e, z + b) = 0
    <2>1. t[n + 1] = z + b
      <3>1. n \in q..n
        BY <1>5
      <3> QED
        BY <1>3, <1>6, <3>1
    <2>2. PICK y : y = z + b
      OBVIOUS
    <2>3. Moved(c, e, z, l, b)
      <3>1. z =< l /\ l =< l
        BY <1>5
      <3> QED
        BY <1>4, <1>5, <3>1, MovedWithin
    <2>4. Num(f, e, y) = Num(f, c, z)
      BY <1>5, <2>2, <2>3, NumMoves, SMTT(40)
    <2> QED
      BY <1>1, <1>3, <2>1, <2>2, <2>4
  <1>11. ASSUME NEW x \in 1..n
         PROVE  Passed(x)
    <2>1. x < q \/ x = q \/ (x - 1 \in 1..(n - 1) /\ q =< x - 1 /\ (x - 1) + 1 = x)
      BY <1>5
    <2> HIDE DEF Passed
    <2>2. CASE x - 1 \in 1..(n - 1) /\ q =< x - 1 /\ (x - 1) + 1 = x
      <3>1. Passed((x - 1) + 1)
        BY <1>9, <2>2
      <3> QED
        BY <2>2, <3>1
    <2> QED
      BY <1>7, <1>8, <2>1, <2>2
  <1>12. Complete(f, e, t, l + b)
    <2>1. ASSUME NEW x \in 1..(n + 1)
          PROVE  t[x] \in 0..Len(e)
      <3>1. CASE x =< q
        <4>1. x \in 1..q /\ x \in 1..n
          BY <1>5, <3>1
        <4>2. t[x] = s[x] /\ s[x] \in Nat /\ s[x] =< z
          BY <1>2, <1>3, <1>6, <4>1
        <4> QED
          BY <1>5, <4>2, SMTT(40)
      <3>2. CASE ~ (x =< q)
        <4>1. x - 1 \in q..n /\ x - 1 \in 1..n /\ (x - 1) + 1 = x
          BY <1>5, <3>2
        <4>2. t[x] = s[x - 1] + b /\ s[x - 1] \in Nat /\ s[x - 1] =< z
          BY <1>2, <1>3, <1>6, <4>1
        <4> QED
          BY <1>5, <4>2, SMTT(40)
      <3> QED
        BY <3>1, <3>2
    <2>2. Stops(f, e, t[n + 1])
      BY <1>10 DEF Stops
    <2>3. Chain(f, e, t)
      <3>1. Len(t) > 0 /\ Len(t) - 1 = n /\ Len(t) = n + 1
        BY <1>5, <1>6
      <3> HIDE DEF Passed
      <3>2. \A x \in 1..n : ~ Stops(f, e, t[x]) /\ t[x + 1] = NextOffset(f, e, t[x])
        BY <1>11 DEF Passed
      <3> QED
        BY <1>6, <2>1, <2>2, <3>1, <3>2 DEF Chain
    <2>4. t[1] = 0
      <3>1. 1 \in 1..q
        BY <1>5
      <3> QED
        BY <1>1, <1>6, <3>1
    <2>5. l + b = t[Len(t)] + 2 /\ l + b =< Len(e) /\ Num(f, e, t[Len(t)]) = 0
      BY <1>5, <1>6, <1>10
    <2> QED
      BY <2>3, <2>4, <2>5 DEF Complete
  <1>13. List(f, e, t) = InsertAt(List(f, c, s), q, [code |-> code, value |-> v])
    <2>1. PICK a, d, r, p : /\ a = List(f, c, s) /\ d = List(f, e, t) /\ p = q - 1
                            /\ r = InsertAt(a, p + 1, [code |-> code, value |-> v])
      OBVIOUS
    <2>2. /\ a \in Seq(AnyParam) /\ Len(a) = n - 1
          /\ \A x \in 1..(n - 1) : a[x] = ParamAt(f, c, s[x], s[x + 1])
      <3>1. Listed(f, c, s, a)
        BY <1>1, <2>1, ListListed
      <3> QED
        BY <1>3, <3>1 DEF Listed
    <2>3. /\ d \in Seq(AnyParam) /\ Len(d) = n
          /\ \A x \in 1..n : d[x] = ParamAt(f, e, t[x], t[x + 1])
      <3>1. Chain(f, e, t) /\ e \in Seq(Byte) /\ Len(t) - 1 = n
        BY <1>5, <1>6, <1>12 DEF Complete
      <3>2. Listed(f, e, t, d)
        BY <2>1, <3>1, ListListed
      <3> QED
        BY <3>1, <3>2 DEF Listed
    <2>4. [code |-> code, value |-> v] \in AnyParam
      BY <1>4 DEF AnyParam
    <2>5. p \in 0..Len(a) /\ p + 1 = q
      BY <1>5, <2>1, <2>2
    <2>6. r \in Seq(AnyParam) /\ InsertedBehind(a, r, p, [code |-> code, value |-> v])
      BY <2>1, <2>2, <2>4, <2>5, InsertElements
    <2>7. /\ Len(r) = n
          /\ r[q] = [code |-> code, value |-> v]
          /\ \A x \in 1..p : r[x] = a[x]
          /\ \A x \in (p + 2)..n : r[x] = a[x - 1]
      <3>1. Len(a) + 1 = n
        BY <1>5, <2>2
      <3> QED
        BY <2>5, <2>6, <3>1 DEF InsertedBehind
    <2>8. ASSUME NEW x \in 1..n
          PROVE  d[x] = r[x]
      <3>1. CASE x < q
        <4>1. x \in 1..p /\ x \in 1..(n - 1)
          BY <1>5, <2>1, <3>1
        <4> QED
          BY <1>7, <2>2, <2>3, <2>7, <3>1, <4>1
      <3>2. CASE x = q
        BY <1>8, <2>3, <2>7, <3>2
      <3>3. CASE x > q
        <4>1. PICK y : y = x - 1
          OBVIOUS
        <4>2. y \in 1..(n - 1) /\ q =< y /\ x \in (p + 2)..n /\ y + 1 = x /\ y + 2 = x + 1
          BY <1>5, <2>1, <3>3, <4>1
        <4>3. ParamAt(f, e, t[x], t[x + 1]) = ParamAt(f, c, s[y], s[y + 1])
          BY <1>9, <4>2
        <4> QED
          BY <2>2, <2>3, <2>7, <4>1, <4>2, <4>3, SMTT(40)
      <3> QED
        BY <1>5, <3>1, <3>2, <3>3
    <2>9. d = r
      BY <2>3, <2>6, <2>7, <2>8, SeqEqual
    <2> QED
      BY <2>1, <2>5, <2>9
  <1> QED
    BY <1>3, <1>12, <1>13 DEF Grown

-----------------------------------------------------------------------------
(* The cells that AddParam writes.                                         *)

\* Three sequences behind one another
Joined(a, b, d) == a \o b \o d

InThree(S, w, a, b, d) ==
    /\ w \in Seq(S)
    /\ Len(w) = Len(a) + Len(b) + Len(d)
    /\ \A x \in 1..Len(a) : w[x] = a[x]
    /\ \A x \in 1..Len(b) : w[Len(a) + x] = b[x]
    /\ \A x \in 1..Len(d) : w[Len(a) + Len(b) + x] = d[x]

\* Where the elements of each of the three are
LEMMA ThreePieces ==
  ASSUME NEW S, NEW a \in Seq(S), NEW b \in Seq(S), NEW d \in Seq(S), NEW w, w = Joined(a, b, d)
  PROVE  InThree(S, w, a, b, d)
  <1>1. PICK u : u = a \o b
    OBVIOUS
  <1>2. w = u \o d
    BY <1>1 DEF Joined
  <1>3. Len(a) \in Nat /\ Len(b) \in Nat /\ Len(d) \in Nat
    OBVIOUS
  <1>4. /\ u \in Seq(S) /\ Len(u) = Len(a) + Len(b)
        /\ \A x \in 1..(Len(a) + Len(b)) : u[x] = IF x =< Len(a) THEN a[x] ELSE b[x - Len(a)]
    BY <1>1, ConcatProperties
  <1>5. /\ w \in Seq(S) /\ Len(w) = Len(u) + Len(d)
        /\ \A x \in 1..(Len(u) + Len(d)) : w[x] = IF x =< Len(u) THEN u[x] ELSE d[x - Len(u)]
    <2>1. u \in Seq(S)
      BY <1>4
    <2>2. /\ u \o d \in Seq(S) /\ Len(u \o d) = Len(u) + Len(d)
          /\ \A x \in 1..(Len(u) + Len(d)) : (u \o d)[x] = IF x =< Len(u) THEN u[x] ELSE d[x - Len(u)]
      BY <2>1, ConcatProperties, Zenon

    <2> QED
      BY <1>2, <2>2, Zenon
  <1>6. ASSUME NEW x \in 1..Len(a)
        PROVE  w[x] = a[x]
    <2>1. x \in 1..(Len(u) + Len(d)) /\ x =< Len(u) /\ x \in 1..(Len(a) + Len(b)) /\ x =< Len(a)
      BY <1>3, <1>4
    <2> QED
      BY <1>4, <1>5, <2>1
  <1>7. ASSUME NEW x \in 1..Len(b)
        PROVE  w[Len(a) + x] = b[x]
    <2>1. PICK y : y = Len(a) + x
      OBVIOUS
    <2>2. /\ y \in 1..(Len(u) + Len(d)) /\ y =< Len(u) /\ y \in 1..(Len(a) + Len(b)) /\ ~ (y =< Len(a))
          /\ y - Len(a) = x
      BY <1>3, <1>4, <2>1
    <2>3. w[y] = u[y] /\ u[y] = b[y - Len(a)]
      BY <1>4, <1>5, <2>2
    <2> QED
      BY <2>1, <2>2, <2>3
  <1>8. ASSUME NEW x \in 1..Len(d)
        PROVE  w[Len(a) + Len(b) + x] = d[x]
    <2>1. PICK y : y = Len(a) + Len(b) + x
      OBVIOUS
    <2>2. y \in 1..(Len(u) + Len(d)) /\ ~ (y =< Len(u)) /\ y - Len(u) = x
      BY <1>3, <1>4, <2>1
    <2>3. w[y] = d[y - Len(u)]
      BY <1>5, <2>2
    <2> QED
      BY <2>1, <2>2, <2>3
  <1>9. Len(w) = Len(a) + Len(b) + Len(d)
    BY <1>3, <1>4, <1>5
  <1> QED
    BY <1>5, <1>6, <1>7, <1>8, <1>9 DEF InThree

\* A number as AddParam writes it
BytesOf(f, n) == IF f = 1 THEN <<n % R>> ELSE <<n % R, (n \div R) % R>>

\* The first f of some bytes are in the cells e behind offset o.
StoredAt(e, o, f, bytes) == \A x \in 1..f : e[o + x] = bytes[x]

\* It is read back where it was written.
LEMMA BytesAre ==
  ASSUME NEW f \in {1, 2}, NEW n \in Byte
  PROVE  /\ BytesOf(f, n) \in Seq(Byte) /\ Len(BytesOf(f, n)) = f
         /\ \A e, o : StoredAt(e, o, f, BytesOf(f, n)) => Num(f, e, o) = n
  <1>1. n % R = n /\ (n \div R) % R = 0 /\ 0 \in Byte
    <2>1. 0 \in Byte
      BY MsgParamsAssumption DEF Byte
    <2> QED
      BY <2>1, SmallNumber
  <1>2. CASE f = 1
    <2>1. BytesOf(f, n) = <<n>>
      BY <1>1, <1>2 DEF BytesOf
    <2>2. <<n>> \in Seq(Byte) /\ Len(<<n>>) = 1 /\ <<n>>[1] = n
      OBVIOUS
    <2>3. ASSUME NEW e, NEW o, StoredAt(e, o, f, BytesOf(f, n))
          PROVE  Num(f, e, o) = n
      <3>1. 1 \in 1..f
        BY <1>2
      <3>2. e[o + 1] = n
        BY <2>1, <2>2, <2>3, <3>1 DEF StoredAt
      <3> QED
        BY <1>2, <3>2 DEF Num
    <2> QED
      BY <1>2, <2>1, <2>2, <2>3
  <1>3. CASE f = 2
    <2>1. BytesOf(f, n) = <<n, 0>>
      BY <1>1, <1>3 DEF BytesOf
    <2>2. <<n, 0>> \in Seq(Byte) /\ Len(<<n, 0>>) = 2 /\ <<n, 0>>[1] = n /\ <<n, 0>>[2] = 0
      BY <1>1
    <2>3. ASSUME NEW e, NEW o, StoredAt(e, o, f, BytesOf(f, n))
          PROVE  Num(f, e, o) = n
      <3>1. 1 \in 1..f /\ 2 \in 1..f
        BY <1>3
      <3>2. e[o + 1] = n /\ e[o + 2] = 0
        BY <2>1, <2>2, <2>3, <3>1 DEF StoredAt
      <3>3. n + R * 0 = n
        BY MsgParamsAssumption DEF Byte
      <3> QED
        BY <1>3, <3>2, <3>3 DEF Num
    <2> QED
      BY <1>3, <2>1, <2>2, <2>3
  <1> QED
    BY <1>2, <1>3

\* The bytes of a parameter
ParamBytes(f, code, v) == BytesOf(f, code) \o BytesOf(f, Len(v)) \o v

InsertedCells(c, o, l, bytes) ==
    SubSeq(c, 1, o) \o bytes \o SubSeq(c, o + 1, l) \o SubSeq(c, l + Len(bytes) + 1, Len(c))

\* Bytes inserted at offset o: those in front of it stay, those behind it move.
LEMMA InsertedIs ==
  ASSUME NEW c \in Seq(Byte), NEW o \in Nat, NEW l \in Nat, NEW bytes \in Seq(Byte),
         o =< l, l + Len(bytes) =< Len(c)
  PROVE  /\ InsertedCells(c, o, l, bytes) \in Seq(Byte)
         /\ Len(InsertedCells(c, o, l, bytes)) = Len(c)
         /\ Moved(c, InsertedCells(c, o, l, bytes), 0, o, 0)
         /\ Moved(c, InsertedCells(c, o, l, bytes), o, l, Len(bytes))
         /\ \A x \in 1..Len(bytes) : InsertedCells(c, o, l, bytes)[o + x] = bytes[x]
  <1>1. PICK b, n : b = Len(bytes) /\ n = Len(c)
    OBVIOUS
  <1>2. b \in Nat /\ n \in Nat /\ l + b =< n /\ o =< n /\ l =< n
    BY <1>1
  <1>3. PICK a, d, g : /\ a = SubSeq(c, 1, o) /\ d = SubSeq(c, o + 1, l)
                       /\ g = SubSeq(c, l + b + 1, n)
    OBVIOUS
  <1>4. a \in Seq(Byte) /\ Len(a) = o /\ \A x \in 1..o : a[x] = c[x]
    <2>1. 0 \in Nat /\ 0 + 1 = 1 /\ 0 =< o /\ o =< Len(c) /\ o - 0 = o /\ \A x \in 1..o : 0 + x = x
      BY <1>1, <1>2
    <2>2. /\ SubSeq(c, 0 + 1, o) \in Seq(Byte) /\ Len(SubSeq(c, 0 + 1, o)) = o - 0
          /\ \A x \in 1..(o - 0) : SubSeq(c, 0 + 1, o)[x] = c[0 + x]
      BY <2>1, SliceIs
    <2> QED
      BY <1>3, <2>1, <2>2
  <1>5. d \in Seq(Byte) /\ Len(d) = l - o /\ \A x \in 1..(l - o) : d[x] = c[o + x]
    BY <1>1, <1>2, <1>3, SliceIs, SMTT(40)
  <1>6. g \in Seq(Byte) /\ Len(g) = n - (l + b)
    <2>1. l + b \in Nat
      BY <1>2
    <2> QED
      BY <1>1, <1>2, <1>3, <2>1, SliceIs
  <1>7. PICK u : u = Joined(a, bytes, d)
    OBVIOUS
  <1>8. /\ u \in Seq(Byte) /\ Len(u) = l + b
        /\ \A x \in 1..o : u[x] = c[x]
        /\ \A x \in 1..b : u[o + x] = bytes[x]
        /\ \A x \in 1..(l - o) : u[o + b + x] = c[o + x]
    <2>1. /\ u \in Seq(Byte) /\ Len(u) = Len(a) + Len(bytes) + Len(d)
          /\ \A x \in 1..Len(a) : u[x] = a[x]
          /\ \A x \in 1..Len(bytes) : u[Len(a) + x] = bytes[x]
          /\ \A x \in 1..Len(d) : u[Len(a) + Len(bytes) + x] = d[x]
      <3>1. InThree(Byte, u, a, bytes, d)
        BY <1>4, <1>5, <1>7, ThreePieces
      <3> QED
        BY <3>1 DEF InThree
    <2>2. Len(a) + Len(bytes) + Len(d) = l + b
      BY <1>1, <1>2, <1>4, <1>5
    <2> QED
      BY <1>1, <1>4, <1>5, <2>1, <2>2, ZenonT(60)
  <1>9. PICK e : e = u \o g
    OBVIOUS
  <1>10. e \in Seq(Byte) /\ Len(e) = n /\ \A x \in 1..(l + b) : e[x] = u[x]
    <2>1. /\ e \in Seq(Byte) /\ Len(e) = Len(u) + Len(g)
          /\ \A x \in 1..(Len(u) + Len(g)) : e[x] = IF x =< Len(u) THEN u[x] ELSE g[x - Len(u)]
      <3>1. u \in Seq(Byte) /\ g \in Seq(Byte)
        BY <1>6, <1>8
      <3> QED
        BY <1>9, <3>1, ConcatProperties, SMTT(40)
    <2>2. Len(u) + Len(g) = n
      BY <1>2, <1>6, <1>8
    <2>3. \A x \in 1..(l + b) : x \in 1..n /\ x =< Len(u)
      BY <1>2, <1>8
    <2> QED
      BY <2>1, <2>2, <2>3
  <1>11. e = InsertedCells(c, o, l, bytes)
    BY <1>1, <1>3, <1>7, <1>9 DEF InsertedCells, Joined
  <1>12. Moved(c, e, 0, o, 0)
    <2>1. ASSUME NEW x \in (0 + 1)..o
          PROVE  e[x + 0] = c[x]
      <3>1. x + 0 = x /\ x \in 1..o /\ x \in 1..(l + b)
        BY <1>2
      <3> QED
        BY <1>8, <1>10, <3>1
    <2>2. 0 \in Nat /\ 0 =< o /\ o =< Len(c) /\ o + 0 =< Len(e)
      BY <1>1, <1>2, <1>10
    <2> QED
      BY <1>10, <2>1, <2>2 DEF Moved
  <1>13. Moved(c, e, o, l, b)
    <2>1. ASSUME NEW x \in (o + 1)..l
          PROVE  e[x + b] = c[x]
      <3>1. PICK y : y = x - o
        OBVIOUS
      <3>2. y \in 1..(l - o) /\ o + b + y = x + b /\ o + y = x /\ x + b \in 1..(l + b)
        BY <1>2, <3>1
      <3>3. u[o + b + y] = c[o + y] /\ e[x + b] = u[x + b]
        BY <1>8, <1>10, <3>2
      <3> QED
        BY <3>2, <3>3
    <2>2. l =< Len(c) /\ l + b =< Len(e)
      BY <1>1, <1>2, <1>10
    <2> QED
      BY <1>2, <1>10, <2>1, <2>2 DEF Moved
  <1>14. ASSUME NEW x \in 1..b
         PROVE  e[o + x] = bytes[x]
    <2>1. o + x \in 1..(l + b)
      BY <1>2
    <2> QED
      BY <1>8, <1>10, <2>1
  <1> QED
    BY <1>1, <1>10, <1>11, <1>12, <1>13, <1>14

\* The bytes of a parameter are inserted in the cells c at offset o.
Insertion(f, c, e, o, l, bytes, b, code, v) ==
    /\ o =< l /\ l + 2 * f + Len(v) =< Len(c)
    /\ b = 2 * f + Len(v) /\ bytes = ParamBytes(f, code, v)
    /\ e = InsertedCells(c, o, l, bytes)

\* A parameter inserted at offset o is there.
LEMMA InsertedHolds ==
  ASSUME NEW f \in {1, 2}, NEW c \in Seq(Byte), NEW o \in Nat, NEW l \in Nat,
         NEW code \in Byte \ {0}, NEW v \in Seq(Byte), Len(v) \in Byte,
         NEW bytes, NEW b, NEW e, Insertion(f, c, e, o, l, bytes, b, code, v)
  PROVE  /\ bytes \in Seq(Byte) /\ Len(bytes) = b
         /\ e \in Seq(Byte) /\ Len(e) = Len(c)
         /\ Holds(f, c, e, l, o, b, code, v)
  <1>0. /\ o =< l /\ l + 2 * f + Len(v) =< Len(c)
        /\ b = 2 * f + Len(v) /\ bytes = ParamBytes(f, code, v)
        /\ e = InsertedCells(c, o, l, bytes)
    BY DEF Insertion
  <1>1. PICK n : n = Len(v) /\ b = 2 * f + n
    BY <1>0
  <1>2. n \in Nat /\ b \in Nat /\ f \in Nat /\ Len(c) \in Nat /\ code \in Nat \ {0} /\ n \in Byte
    BY <1>1, MsgParamsAssumption DEF Byte
  <1>3. /\ BytesOf(f, code) \in Seq(Byte) /\ Len(BytesOf(f, code)) = f
        /\ BytesOf(f, n) \in Seq(Byte) /\ Len(BytesOf(f, n)) = f
    BY <1>2, BytesAre
  <1>4. /\ bytes \in Seq(Byte) /\ Len(bytes) = b
        /\ \A x \in 1..f : bytes[x] = BytesOf(f, code)[x]
        /\ \A x \in 1..f : bytes[f + x] = BytesOf(f, n)[x]
        /\ \A x \in 1..n : bytes[f + f + x] = v[x]
    <2>1. bytes = Joined(BytesOf(f, code), BytesOf(f, n), v)
      BY <1>0, <1>1 DEF ParamBytes, Joined
    <2>2. PICK y, z : y = BytesOf(f, code) /\ z = BytesOf(f, n)
      OBVIOUS
    <2>3. y \in Seq(Byte) /\ z \in Seq(Byte) /\ Len(y) = f /\ Len(z) = f
      BY <1>3, <2>2
    <2>4. /\ bytes \in Seq(Byte) /\ Len(bytes) = Len(y) + Len(z) + Len(v)
          /\ \A x \in 1..Len(y) : bytes[x] = y[x]
          /\ \A x \in 1..Len(z) : bytes[Len(y) + x] = z[x]
          /\ \A x \in 1..Len(v) : bytes[Len(y) + Len(z) + x] = v[x]
      <3>1. bytes = Joined(y, z, v)
        BY <2>1, <2>2
      <3>2. InThree(Byte, bytes, y, z, v)
        BY <2>3, <3>1, ThreePieces
      <3> QED
        BY <3>2 DEF InThree
    <2>5. f + f + n = b
      BY <1>1, <1>2
    <2> QED
      BY <1>1, <2>2, <2>3, <2>4, <2>5
  <1>6. /\ e \in Seq(Byte) /\ Len(e) = Len(c)
        /\ Moved(c, e, 0, o, 0) /\ Moved(c, e, o, l, b)
        /\ \A x \in 1..b : e[o + x] = bytes[x]
    <2>1. l + Len(bytes) =< Len(c)
      BY <1>0, <1>2, <1>4
    <2>2. /\ e \in Seq(Byte) /\ Len(e) = Len(c)
          /\ Moved(c, e, 0, o, 0) /\ Moved(c, e, o, l, Len(bytes))
          /\ \A x \in 1..Len(bytes) : e[o + x] = bytes[x]
      BY <1>0, <1>4, <2>1, InsertedIs, SMTT(40)
    <2> QED
      BY <1>4, <2>2
  <1>7. Num(f, e, o) = code
    <2>1. ASSUME NEW x \in 1..f
          PROVE  e[o + x] = BytesOf(f, code)[x]
      <3>1. x \in 1..b
        BY <1>1, <1>2
      <3> QED
        BY <1>4, <1>6, <3>1
    <2>2. code \in Byte /\ StoredAt(e, o, f, BytesOf(f, code))
      BY <2>1 DEF StoredAt
    <2> QED
      BY <2>2, BytesAre
  <1>8. Num(f, e, o + f) = n
    <2>1. PICK p : p = o + f
      OBVIOUS
    <2>2. ASSUME NEW x \in 1..f
          PROVE  e[p + x] = BytesOf(f, n)[x]
      <3>1. PICK y : y = f + x
        OBVIOUS
      <3>2. y \in 1..b /\ p + x = o + y
        BY <1>1, <1>2, <2>1, <3>1
      <3>3. e[o + y] = bytes[y] /\ bytes[y] = BytesOf(f, n)[x]
        BY <1>4, <1>6, <3>1, <3>2
      <3> QED
        BY <3>2, <3>3
    <2>3. StoredAt(e, p, f, BytesOf(f, n))
      BY <2>2 DEF StoredAt
    <2>4. Num(f, e, p) = n
      BY <1>2, <2>3, BytesAre
    <2> QED
      BY <2>1, <2>4
  <1>9. Slice(e, o + 2 * f, o + b) = v
    <2>1. PICK p, q : p = o + 2 * f /\ q = o + b
      OBVIOUS
    <2>2. p \in Nat /\ q \in Nat /\ p =< q /\ q =< Len(e) /\ q - p = n
      BY <1>0, <1>1, <1>2, <1>6, <2>1
    <2>3. PICK w : w = SubSeq(e, p + 1, q)
      OBVIOUS
    <2>4. w \in Seq(Byte) /\ Len(w) = n /\ \A x \in 1..n : w[x] = e[p + x]
      <3>1. w \in Seq(Byte) /\ Len(w) = q - p /\ \A x \in 1..(q - p) : w[x] = e[p + x]
        <4>1. e \in Seq(Byte)
          BY <1>6
        <4>2. /\ SubSeq(e, p + 1, q) \in Seq(Byte) /\ Len(SubSeq(e, p + 1, q)) = q - p
              /\ \A x \in 1..(q - p) : SubSeq(e, p + 1, q)[x] = e[p + x]
          BY <2>2, <4>1, SliceIs, ZenonT(60)
        <4> QED
          BY <2>3, <4>2, Zenon
      <3> QED
        BY <2>2, <3>1
    <2>5. ASSUME NEW x \in 1..n
          PROVE  w[x] = v[x]
      <3>1. PICK y : y = f + f + x
        OBVIOUS
      <3>2. y \in 1..b /\ p + x = o + y
        <4>1. 2 * f = f + f /\ x \in Nat /\ x >= 1 /\ x =< n
          BY <1>2
        <4>2. b = f + f + n /\ p = o + f + f
          BY <1>1, <2>1, <4>1
        <4> QED
          BY <1>2, <3>1, <4>1, <4>2
      <3>3. e[o + y] = bytes[y] /\ bytes[y] = v[x]
        BY <1>4, <1>6, <3>1, <3>2
      <3> QED
        BY <2>4, <3>2, <3>3
    <2>6. w = v
      BY <1>1, <2>4, <2>5, SeqEqual
    <2> QED
      BY <2>1, <2>3, <2>6 DEF Slice
  <1>10. Holds(f, c, e, l, o, b, code, v)
    BY <1>1, <1>2, <1>6, <1>7, <1>8, <1>9 DEF Holds
  <1> QED
    BY <1>1, <1>4, <1>6, <1>10

-----------------------------------------------------------------------------
(* Messages in their buffers.                                              *)

Offsets(f, c) == Steps(f, c)[0]

SortedCodes(p) == \A x \in 1..Len(p), y \in 1..Len(p) : x < y => p[x].code =< p[y].code

\* A message is in a buffer, and its parameters are sorted.
Intact(f, m) ==
    /\ m \in [cells : Seq(Byte), len : Nat]
    /\ Len(m.cells) \in BufferSizes
    /\ m.len =< Len(m.cells)
    /\ m.len # 0 => /\ Complete(f, m.cells, Offsets(f, m.cells), m.len)
                    /\ SortedCodes(List(f, m.cells, Offsets(f, m.cells)))

\* Its parameters
Contents(f, m) ==
    IF m = NULL \/ m.len = 0 THEN <<>> ELSE List(f, m.cells, Offsets(f, m.cells))

\* The parameters as their receiver understands them are those in the cells.
LEMMA DecodedIs ==
  ASSUME NEW m
  PROVE  Decoded(m) = Contents(format, m)
  <1>1. CASE m = NULL \/ m.len = 0
    BY <1>1 DEF Decoded, Contents
  <1>2. CASE ~ (m = NULL \/ m.len = 0)
    <2>1. PICK s : s = Walk(m, 0)
      OBVIOUS
    <2>2. s = Offsets(format, m.cells)
      BY <2>1, WalkIs DEF Offsets
    <2>3. Decoded(m) = [x \in 1..(Len(s) - 1) |->
                           [code  |-> CodeAt(m, s[x]),
                            value |-> SubSeq(m.cells, s[x] + PARAM_HEADER_LENGTH + 1, s[x + 1])]]
      BY <1>2, <2>1, Zenon DEF Decoded
    <2>4. Decoded(m) = List(format, m.cells, s)
      BY <2>3, Zenon DEF List, ParamAt, Slice, CodeAt, NumberAt, Num, PARAM_HEADER_LENGTH
    <2> QED
      BY <1>2, <2>2, <2>4 DEF Contents
  <1> QED
    BY <1>1, <1>2

\* A chain from the beginning is the one that the loops find.
LEMMA OffsetsAre ==
  ASSUME NEW f \in {1, 2}, NEW c \in Seq(Byte), NEW s, Chain(f, c, s), s[1] = 0
  PROVE  Offsets(f, c) = s
  <1>1. 0 \in 0..Len(c)
    OBVIOUS
  <1>2. Chain(f, c, Steps(f, c)[0]) /\ Steps(f, c)[0][1] = 0
    BY <1>1, StepsChain
  <1>3. PICK t : t = Steps(f, c)[0]
    OBVIOUS
  <1>4. Chain(f, c, t) /\ t[1] = s[1]
    BY <1>2, <1>3
  <1> QED
    BY <1>3, <1>4, ChainUnique DEF Offsets

\* The smallest buffer with enough room
LEMMA SmallestIs ==
  ASSUME NEW n \in Nat, NEW r \in BufferSizes, r >= n
  PROVE  Smallest(n) \in BufferSizes /\ Smallest(n) \in Nat /\ Smallest(n) >= n
  <1> DEFINE S == {x \in BufferSizes : x >= n}
  <1>1. S \in SUBSET Nat /\ S # {}
    BY MsgParamsAssumption
  <1>2. Min(S) \in S /\ \A y \in S : Min(S) =< y
    <2> HIDE DEF S
    <2> QED
      BY <1>1, MinOfNats
  <1>3. PICK a : a = Min(S)
    OBVIOUS
  <1>4. a \in BufferSizes /\ a >= n /\ \A y \in BufferSizes : y >= n => y >= a
    <2>1. a \in S /\ \A y \in S : a =< y
      BY <1>2, <1>3
    <2>2. \A y \in BufferSizes : y \in Nat
      BY MsgParamsAssumption
    <2> QED
      BY <2>1, <2>2
  <1>5. /\ Smallest(n) \in BufferSizes /\ Smallest(n) >= n
    BY <1>4 DEF Smallest
  <1> QED
    BY <1>5, MsgParamsAssumption

\* The beginning of some cells in a new buffer
CopyOf(c, l, n) == SubSeq(c, 1, l) \o [x \in 1..(n - l) |-> Old]

\* The copy has the size of the buffer and begins with the same cells.
LEMMA CopiedCells ==
  ASSUME NEW c \in Seq(Byte), NEW l \in Nat, l =< Len(c), NEW n \in Nat, l =< n,
         NEW e, e = CopyOf(c, l, n)
  PROVE  e \in Seq(Byte) /\ Len(e) = n /\ Moved(c, e, 0, l, 0)
  <1>1. PICK a, d : a = SubSeq(c, 1, l) /\ d = [x \in 1..(n - l) |-> Old]
    OBVIOUS
  <1>2. a \in Seq(Byte) /\ Len(a) = l /\ \A x \in 1..l : a[x] = c[x]
    <2>1. 0 \in Nat /\ 0 + 1 = 1 /\ 0 =< l /\ l - 0 = l /\ \A x \in 1..l : 0 + x = x
      OBVIOUS
    <2>2. /\ SubSeq(c, 0 + 1, l) \in Seq(Byte) /\ Len(SubSeq(c, 0 + 1, l)) = l - 0
          /\ \A x \in 1..(l - 0) : SubSeq(c, 0 + 1, l)[x] = c[0 + x]
      BY <2>1, SliceIs
    <2> QED
      BY <1>1, <2>1, <2>2
  <1>3. d \in Seq(Byte) /\ Len(d) = n - l
    <2>1. n - l \in Nat /\ Old \in Byte
      BY MsgParamsAssumption DEF Byte
    <2>2. d \in [1..(n - l) -> Byte]
      BY <1>1, <2>1
    <2>3. d \in Seq(Byte)
      BY <2>1, <2>2, FunctionIsSequence
    <2>4. DOMAIN d = 1..Len(d) /\ Len(d) \in Nat
      BY <2>3, LenProperties
    <2>5. DOMAIN d = 1..(n - l)
      BY <2>2
    <2>6. PICK y1, y2 : y1 = Len(d) /\ y2 = n - l
      OBVIOUS
    <2>7. y1 \in Nat /\ y2 \in Nat /\ 1..y1 = 1..y2
      BY <2>1, <2>4, <2>5, <2>6
    <2>8. y1 = y2
      BY <2>7
    <2> QED
      BY <2>3, <2>6, <2>8
  <1>4. e = a \o d
    BY <1>1 DEF CopyOf
  <1>5. /\ e \in Seq(Byte) /\ Len(e) = Len(a) + Len(d)
        /\ \A x \in 1..(Len(a) + Len(d)) : e[x] = IF x =< Len(a) THEN a[x] ELSE d[x - Len(a)]
    <2>1. a \in Seq(Byte) /\ d \in Seq(Byte)
      BY <1>2, <1>3
    <2>2. /\ a \o d \in Seq(Byte) /\ Len(a \o d) = Len(a) + Len(d)
          /\ \A x \in 1..(Len(a) + Len(d)) : (a \o d)[x] = IF x =< Len(a) THEN a[x] ELSE d[x - Len(a)]
      BY <2>1, ConcatProperties, Zenon
    <2> QED
      BY <1>4, <2>2, Zenon
  <1>6. Len(a) + Len(d) = n
    BY <1>2, <1>3
  <1>7. ASSUME NEW x \in (0 + 1)..l
        PROVE  e[x + 0] = c[x]
    <2>1. x \in 1..n /\ x =< Len(a) /\ x \in 1..l /\ x + 0 = x
      BY <1>2
    <2> QED
      BY <1>2, <1>5, <1>6, <2>1
  <1>8. 0 \in Nat /\ 0 =< l /\ l + 0 =< Len(e)
    BY <1>5, <1>6
  <1> QED
    BY <1>5, <1>6, <1>7, <1>8 DEF Moved

\* A message in another buffer is the same.
LEMMA MessageCopied ==
  ASSUME NEW f \in {1, 2}, NEW m, Intact(f, m), NEW e, Len(e) \in BufferSizes,
         Moved(m.cells, e, 0, m.len, 0), NEW msg, msg = [cells |-> e, len |-> m.len]
  PROVE  Intact(f, msg) /\ Contents(f, msg) = Contents(f, m)
  <1>1. PICK c, l : c = m.cells /\ l = m.len
    OBVIOUS
  <1>2. /\ c \in Seq(Byte) /\ l \in Nat /\ e \in Seq(Byte) /\ l =< Len(e)
        /\ m \in [cells : Seq(Byte), len : Nat]
    <2>1. c \in Seq(Byte) /\ e \in Seq(Byte) /\ l \in Nat /\ l + 0 =< Len(e)
      BY <1>1 DEF Moved
    <2>2. m \in [cells : Seq(Byte), len : Nat]
      BY DEF Intact
    <2> QED
      BY <2>1, <2>2
  <1>3. msg \in [cells : Seq(Byte), len : Nat] /\ msg.cells = e /\ msg.len = l
    BY <1>1, <1>2
  <1>4. m # NULL /\ msg # NULL
    BY <1>2, <1>3, MsgParamsAssumption DEF Byte
  <1>5. CASE l = 0
    BY <1>1, <1>2, <1>3, <1>5 DEF Intact, Contents
  <1>6. CASE l # 0
    <2>1. PICK s : s = Offsets(f, c)
      OBVIOUS
    <2>2. Complete(f, c, s, l) /\ SortedCodes(List(f, c, s))
      BY <1>1, <1>6, <2>1 DEF Intact
    <2>3. Complete(f, e, s, l) /\ List(f, e, s) = List(f, c, s)
      BY <1>1, <1>2, <2>2, MessageKept
    <2>4. Offsets(f, e) = s
      BY <1>2, <2>3, OffsetsAre DEF Complete
    <2>5. Contents(f, msg) = List(f, e, s) /\ Contents(f, m) = List(f, c, s)
      BY <1>1, <1>3, <1>4, <1>6, <2>1, <2>4 DEF Contents
    <2>6. Intact(f, msg)
      BY <1>2, <1>3, <2>2, <2>3, <2>4 DEF Intact
    <2> QED
      BY <2>3, <2>5, <2>6
  <1> QED
    BY <1>5, <1>6

\* The pool has a buffer for a message that gets n bytes and needs another buffer.
HasRoom(m, n) == BufferSmall(m, n) => \E r \in BufferSizes : r >= m.len + n + 10

\* CheckBufferSize leaves the parameters, and room for one more and a terminator.
LEMMA ResizedIs ==
  ASSUME NEW f \in {1, 2}, NEW m, Intact(f, m), NEW n \in Nat, HasRoom(m, n),
         NEW msg, msg = Resized(m, n)
  PROVE  /\ Intact(f, msg) /\ Contents(f, msg) = Contents(f, m)
         /\ msg.len = m.len /\ Len(msg.cells) >= m.len + n + 9
  <1>1. PICK c, l : c = m.cells /\ l = m.len
    OBVIOUS
  <1>2. /\ c \in Seq(Byte) /\ l \in Nat /\ Len(c) \in Nat /\ l =< Len(c)
        /\ m \in [cells : Seq(Byte), len : Nat]
    <2>1. m \in [cells : Seq(Byte), len : Nat] /\ m.len =< Len(m.cells)
      BY DEF Intact
    <2>2. c \in Seq(Byte)
      BY <1>1, <2>1
    <2> QED
      BY <1>1, <2>1, <2>2
  <1>3. CASE ~ (Len(c) =< l + n + 8)
    <2>1. msg = m
      BY <1>1, <1>3 DEF Resized, BufferSmall
    <2> QED
      BY <1>1, <1>2, <1>3, <2>1
  <1>4. CASE Len(c) =< l + n + 8
    <2>1. PICK z : z = Smallest(l + n + 10)
      OBVIOUS
    <2>2. z \in BufferSizes /\ z \in Nat /\ z >= l + n + 10
      <3>1. PICK r \in BufferSizes : r >= l + n + 10
        BY <1>1, <1>4 DEF HasRoom, BufferSmall
      <3>2. l + n + 10 \in Nat
        BY <1>2
      <3> QED
        BY <2>1, <3>1, <3>2, SmallestIs
    <2>3. PICK e : e = CopyOf(c, l, z)
      OBVIOUS
    <2>4. e \in Seq(Byte) /\ Len(e) = z /\ Moved(c, e, 0, l, 0)
      <3>1. l =< z
        BY <1>2, <2>2
      <3> QED
        BY <1>2, <2>2, <2>3, <3>1, CopiedCells
    <2>5. msg = [m EXCEPT !.cells = e]
      BY <1>1, <1>4, <2>1, <2>3 DEF Resized, BufferSmall, CopyOf
    <2>6. msg = [cells |-> e, len |-> l]
      BY <1>1, <1>2, <2>5
    <2>7. Intact(f, msg) /\ Contents(f, msg) = Contents(f, m)
      BY <1>1, <2>2, <2>4, <2>6, MessageCopied
    <2> QED
      BY <1>1, <1>2, <2>2, <2>4, <2>6, <2>7
  <1> QED
    BY <1>3, <1>4

\* An empty message gets its terminator; any other is left alone.
LEMMA WithENDIs ==
  ASSUME format \in {1, 2}, NEW m, Intact(format, m), NEW msg, msg = WithEND(m)
  PROVE  /\ Intact(format, msg) /\ Contents(format, msg) = Contents(format, m)
         /\ msg.len = IF m.len = 0 THEN 2 ELSE m.len
         /\ msg.len # 0 /\ Len(msg.cells) = Len(m.cells)
  <1>1. PICK f, c, l : f = format /\ c = m.cells /\ l = m.len
    OBVIOUS
  <1>2. /\ c \in Seq(Byte) /\ l \in Nat /\ Len(c) \in Nat /\ f \in {1, 2}
        /\ m \in [cells : Seq(Byte), len : Nat]
        /\ Len(c) \in BufferSizes /\ Len(c) >= 2
    <2>1. m \in [cells : Seq(Byte), len : Nat] /\ Len(m.cells) \in BufferSizes
      BY DEF Intact
    <2>2. c \in Seq(Byte)
      BY <1>1, <2>1
    <2> QED
      BY <1>1, <2>1, <2>2, MsgParamsAssumption
  <1>3. CASE l > 0
    BY <1>1, <1>2, <1>3 DEF WithEND
  <1>4. CASE ~ (l > 0)
    <2>1. l = 0
      BY <1>2, <1>4
    <2>2. PICK e : e = [x \in DOMAIN c |-> IF x =< f THEN 0 ELSE c[x]]
      OBVIOUS
    <2>3. PICK n : n = Len(c)
      OBVIOUS
    <2>4. n \in Nat /\ n >= 2 /\ DOMAIN c = 1..n /\ \A x \in 1..n : c[x] \in Byte
      BY <1>2, <2>3, LenProperties, ElementOfSeq
    <2>5. e \in [1..n -> Byte]
      <3>1. 0 \in Byte
        BY <1>2, <2>4, MsgParamsAssumption DEF Byte
      <3> QED
        BY <2>2, <2>4, <3>1
    <2>6. e \in Seq(Byte) /\ Len(e) = n
      <3>1. e \in Seq(Byte)
        BY <2>4, <2>5, FunctionIsSequence
      <3>2. DOMAIN e = 1..Len(e) /\ Len(e) \in Nat
        BY <3>1, LenProperties
      <3>3. PICK y : y = Len(e)
        OBVIOUS
      <3>4. y \in Nat /\ 1..y = 1..n
        BY <2>5, <3>2, <3>3
      <3>5. y = n
        BY <2>4, <3>4
      <3> QED
        BY <3>1, <3>3, <3>5
    <2>7. msg = [cells |-> e, len |-> 2]
      BY <1>1, <1>4, <2>2 DEF WithEND
    <2>8. Num(f, e, 0) = 0
      <3>1. 1 \in 1..n /\ 2 \in 1..n /\ 0 + 1 = 1 /\ 0 + 2 = 2 /\ 1 =< f
        BY <1>2, <2>4
      <3>2. e[0 + 1] = 0 /\ (f = 2 => e[0 + 2] = 0)
        BY <2>2, <2>4, <3>1
      <3>3. 0 + R * 0 = 0
        BY MsgParamsAssumption
      <3>4. CASE f = 1
        BY <3>2, <3>4 DEF Num
      <3>5. CASE f = 2
        BY <3>2, <3>3, <3>5 DEF Num
      <3> QED
        BY <1>2, <3>4, <3>5
    <2>9. Complete(f, e, <<0>>, 2)
      <3>1. <<0>> \in Seq(Nat) /\ Len(<<0>>) = 1 /\ <<0>>[1] = 0
        OBVIOUS
      <3>2. Stops(f, e, 0)
        BY <2>8 DEF Stops
      <3>3. Chain(f, e, <<0>>)
        BY <2>4, <2>6, <3>1, <3>2 DEF Chain
      <3>4. 2 = 0 + 2 /\ 2 =< Len(e)
        BY <2>4, <2>6
      <3> QED
        BY <2>8, <3>1, <3>3, <3>4 DEF Complete
    <2>10. Offsets(f, e) = <<0>>
      BY <1>2, <2>6, <2>9, OffsetsAre DEF Complete
    <2>11. PICK p : p = List(f, e, <<0>>)
      OBVIOUS
    <2>12. p = <<>>
      <3>1. p \in Seq(AnyParam) /\ Len(p) = Len(<<0>>) - 1
        BY <1>2, <2>6, <2>9, <2>11, ListIs DEF Complete
      <3>2. Len(p) = 0
        BY <3>1
      <3> QED
        BY <3>1, <3>2, EmptySeq
    <2>13. SortedCodes(p)
      BY <2>12 DEF SortedCodes
    <2>14. msg \in [cells : Seq(Byte), len : Nat] /\ msg.cells = e /\ msg.len = 2
      BY <2>6, <2>7
    <2>15. Intact(f, msg)
      <3>1. Len(e) \in BufferSizes /\ 2 =< Len(e)
        BY <1>2, <2>3, <2>6
      <3> QED
        BY <2>9, <2>10, <2>11, <2>13, <2>14, <3>1 DEF Intact
    <2>16. Contents(f, msg) = <<>> /\ Contents(f, m) = <<>>
      <3>1. msg # NULL
        BY <2>14, MsgParamsAssumption DEF Byte
      <3>2. Contents(f, msg) = p
        BY <2>10, <2>11, <2>14, <3>1 DEF Contents
      <3>3. Contents(f, m) = <<>>
        BY <1>1, <2>1 DEF Contents
      <3> QED
        BY <2>12, <3>2, <3>3
    <2> QED
      BY <1>1, <2>1, <2>3, <2>6, <2>14, <2>15, <2>16
  <1> QED
    BY <1>3, <1>4

-----------------------------------------------------------------------------
(* The place for a parameter.                                              *)

\* The offsets of the parameters of a chain
Starts(s) == {s[x] : x \in 1..(Len(s) - 1)}

\* The offsets of parameters are all but the last one.
LEMMA FrontIs ==
  ASSUME NEW s \in Seq(Nat), Len(s) > 0
  PROVE  /\ ToSet(Front(s)) = Starts(s)
         /\ Last(s) = s[Len(s)]
         /\ Len(s) - 1 \in Nat
         /\ \A x \in 1..(Len(s) - 1) : Front(s)[x] = s[x]
  <1>1. PICK n, a : n = Len(s) - 1 /\ a = SubSeq(s, 1, n)
    OBVIOUS
  <1>2. n \in Nat /\ n =< Len(s)
    BY <1>1
  <1>3. a \in Seq(Nat) /\ Len(a) = n /\ \A x \in 1..n : a[x] = s[x]
    <2>1. 0 \in Nat /\ 0 + 1 = 1 /\ 0 =< n /\ n - 0 = n /\ \A x \in 1..n : 0 + x = x
      BY <1>2
    <2>2. /\ SubSeq(s, 0 + 1, n) \in Seq(Nat) /\ Len(SubSeq(s, 0 + 1, n)) = n - 0
          /\ \A x \in 1..(n - 0) : SubSeq(s, 0 + 1, n)[x] = s[0 + x]
      BY <1>2, <2>1, SliceIs
    <2> QED
      BY <1>1, <2>1, <2>2
  <1>4. ToSet(a) = {a[x] : x \in 1..n}
    BY <1>3, ToSetIs
  <1>5. ToSet(a) = {s[x] : x \in 1..n}
    BY <1>3, <1>4
  <1>6. Front(s) = a
    BY <1>1 DEF Front
  <1> QED
    BY <1>1, <1>2, <1>3, <1>5, <1>6 DEF Starts, Last

\* The offset s[q] is behind the parameters with codes up to code, and in front of
\* those with greater ones.
PlaceFor(f, c, s, code, q) ==
    /\ q \in 1..Len(s)
    /\ \A x \in 1..(Len(s) - 1) : IF x < q THEN Num(f, c, s[x]) =< code ELSE Num(f, c, s[x]) > code

\* The first offset with a greater code, or the end, is the place for a code.
LEMMA FirstGreater ==
  ASSUME NEW f \in {1, 2}, NEW c \in Seq(Byte), NEW s, Chain(f, c, s), SortedCodes(List(f, c, s)),
         NEW code \in Nat, NEW o,
         o = Min({s[Len(s)]} \cup {y \in Starts(s) : Num(f, c, y) > code})
  PROVE  \E q \in 1..Len(s) : o = s[q] /\ PlaceFor(f, c, s, code, q)
  <1> DEFINE P == {s[Len(s)]} \cup {y \in Starts(s) : Num(f, c, y) > code}
  <1>1. PICK n : n = Len(s)
    OBVIOUS
  <1>2. /\ s \in Seq(Nat) /\ n \in Nat \ {0}
        /\ \A x \in 1..n : s[x] \in Nat
        /\ \A x \in 1..(n - 1) : x \in 1..n /\ ~ Stops(f, c, s[x])
    BY <1>1, ChainIs
  <1>3. P \in SUBSET Nat /\ P # {}
    <2>1. n \in 1..n
      BY <1>2
    <2>2. \A y \in Starts(s) : y \in Nat
      BY <1>1, <1>2 DEF Starts
    <2> QED
      BY <1>1, <1>2, <2>1, <2>2
  <1>4. o \in P /\ \A y \in P : o =< y
    <2>1. PICK d : d = P
      OBVIOUS
    <2>2. d \in SUBSET Nat /\ d # {} /\ o = Min(d)
      BY <1>3, <2>1
    <2>3. Min(d) \in d /\ \A y \in d : Min(d) =< y
      BY <2>2, MinOfNats
    <2>4. o \in d /\ \A y \in d : o =< y
      BY <2>2, <2>3
    <2> HIDE DEF P
    <2> QED
      BY <2>1, <2>4
  <1>5. PICK q \in 1..n : o = s[q] /\ (q = n \/ (q \in 1..(n - 1) /\ Num(f, c, s[q]) > code))
    <2>1. CASE o = s[n]
      <3>1. n \in 1..n
        BY <1>2
      <3> QED
        BY <2>1, <3>1
    <2>2. CASE o # s[n]
      <3>1. o \in Starts(s) /\ Num(f, c, o) > code
        BY <1>1, <1>4, <2>2
      <3>2. PICK q \in 1..(n - 1) : o = s[q]
        BY <1>1, <3>1 DEF Starts
      <3> QED
        BY <1>2, <3>1, <3>2
    <2> QED
      BY <2>1, <2>2
  <1>6. \A x \in 1..(n - 1) : Num(f, c, s[x]) \in Nat
    <2> SUFFICES ASSUME NEW x \in 1..(n - 1) PROVE Num(f, c, s[x]) \in Nat
      OBVIOUS
    <2>1. PICK p : p = s[x]
      OBVIOUS
    <2>2. p \in Nat /\ ~ Stops(f, c, p)
      BY <1>2, <2>1
    <2>3. Num(f, c, p) \in Nat
      BY <2>2, PassIs
    <2> QED
      BY <2>1, <2>3
  <1>7. ASSUME NEW x \in 1..(n - 1), x < q
        PROVE  Num(f, c, s[x]) =< code
    <2>1. SUFFICES ASSUME Num(f, c, s[x]) > code PROVE FALSE
      BY <1>6
    <2>2. s[x] \in P
      BY <1>1, <2>1 DEF Starts
    <2>3. x \in 1..Len(s) /\ q \in 1..Len(s)
      BY <1>1, <1>2
    <2>4. s[x] + 2 * f =< s[q]
      BY <1>7, <2>3, ChainGrows
    <2>5. s[q] =< s[x]
      BY <1>4, <1>5, <2>2
    <2>6. PICK y, z : y = s[x] /\ z = s[q]
      OBVIOUS
    <2>7. y \in Nat /\ z \in Nat
      BY <1>1, <1>2, <2>3, <2>6
    <2>8. y + 2 * f =< z /\ z =< y
      BY <2>4, <2>5, <2>6
    <2>9. f \in Nat /\ f > 0
      OBVIOUS
    <2> QED
      BY <2>7, <2>8, <2>9
  <1>8. ASSUME NEW x \in 1..(n - 1), ~ (x < q)
        PROVE  Num(f, c, s[x]) > code
    <2>1. q \in 1..(n - 1) /\ Num(f, c, s[q]) > code
      BY <1>2, <1>5, <1>8
    <2>2. CASE x = q
      BY <2>1, <2>2
    <2>3. CASE x # q
      <3>1. PICK p : p = List(f, c, s)
        OBVIOUS
      <3>2. /\ Len(p) = n - 1
            /\ \A y \in 1..(n - 1) : p[y].code = Num(f, c, s[y])
        <4>1. Listed(f, c, s, p)
          BY <1>1, <3>1, ListListed
        <4> QED
          BY <1>1, <4>1 DEF Listed
      <3>3. q < x /\ q \in 1..Len(p) /\ x \in 1..Len(p)
        BY <1>2, <1>8, <2>1, <2>3, <3>2
      <3>4. p[q].code =< p[x].code
        BY <3>1, <3>3 DEF SortedCodes
      <3>5. Num(f, c, s[q]) =< Num(f, c, s[x])
        BY <2>1, <3>2, <3>4
      <3>6. PICK y, z : y = Num(f, c, s[q]) /\ z = Num(f, c, s[x])
        OBVIOUS
      <3>7. y \in Nat /\ z \in Nat /\ y =< z /\ y > code
        BY <1>6, <2>1, <3>5, <3>6
      <3>8. z > code
        BY <3>7
      <3> QED
        BY <3>6, <3>8
    <2> QED
      BY <2>2, <2>3
  <1>9. PlaceFor(f, c, s, code, q)
    BY <1>1, <1>7, <1>8 DEF PlaceFor
  <1> QED
    BY <1>1, <1>5, <1>9

\* FindParamPlace finds that place.
LEMMA FindParamPlaceIs ==
  ASSUME format \in {1, 2}, NEW m, Intact(format, m), m.len # 0, NEW code \in Nat,
         NEW s, s = Offsets(format, m.cells)
  PROVE  \E q \in 1..Len(s) : FindParamPlace(m, code) = s[q] /\ PlaceFor(format, m.cells, s, code, q)
  <1>1. PICK f, c, o : f = format /\ c = m.cells /\ o = FindParamPlace(m, code)
    OBVIOUS
  <1>2. f \in {1, 2} /\ c \in Seq(Byte) /\ Chain(f, c, s) /\ SortedCodes(List(f, c, s))
    <2>1. m \in [cells : Seq(Byte), len : Nat]
      BY DEF Intact
    <2> QED
      BY <1>1, <2>1 DEF Intact, Complete
  <1>3. s \in Seq(Nat) /\ Len(s) > 0
    BY <1>2 DEF Chain
  <1>4. Walk(m, 0) = s
    BY <1>1, WalkIs DEF Offsets
  <1>5. o = Min({Last(s)} \cup {y \in ToSet(Front(s)) : CodeAt(m, y) > code})
    BY <1>1, <1>4 DEF FindParamPlace
  <1>6. \A y : CodeAt(m, y) = Num(f, c, y)
    BY <1>1, Zenon DEF CodeAt, NumberAt, Num
  <1>7. Last(s) = s[Len(s)] /\ ToSet(Front(s)) = Starts(s)
    BY <1>3, FrontIs
  <1>8. o = Min({s[Len(s)]} \cup {y \in Starts(s) : Num(f, c, y) > code})
    <2>1. {y \in ToSet(Front(s)) : CodeAt(m, y) > code} = {y \in Starts(s) : Num(f, c, y) > code}
      <3>1. PICK a : a = Starts(s)
        OBVIOUS
      <3>2. {y \in a : CodeAt(m, y) > code} = {y \in a : Num(f, c, y) > code}
        BY <1>6
      <3> QED
        BY <1>7, <3>1, <3>2
    <2> QED
      BY <1>5, <1>7, <2>1, Zenon
  <1>9. \E q \in 1..Len(s) : o = s[q] /\ PlaceFor(f, c, s, code, q)
    BY <1>2, <1>8, FirstGreater
  <1> QED
    BY <1>1, <1>9

-----------------------------------------------------------------------------
(* A parameter in its place.                                               *)

\* Parameters with codes up to code are the first q of the list p.
Spot(p, code, q) ==
    /\ q \in 0..Len(p)
    /\ \A x \in 1..q : p[x].code =< code
    /\ \A x \in (q + 1)..Len(p) : p[x].code > code

\* A list stays sorted.
LEMMA InsertSorted ==
  ASSUME NEW p \in Seq(AnyParam), SortedCodes(p), NEW e \in AnyParam, NEW q, Spot(p, e.code, q),
         NEW r, r = InsertAt(p, q + 1, e)
  PROVE  SortedCodes(r) /\ Len(r) = Len(p) + 1
  <1>1. q \in 0..Len(p) /\ Len(p) \in Nat /\ q \in Nat
    BY DEF Spot
  <1>2. r \in Seq(AnyParam) /\ InsertedBehind(p, r, q, e)
    BY <1>1, InsertElements
  <1>3. PICK n : n = Len(p)
    OBVIOUS
  <1>4. /\ Len(r) = n + 1 /\ r[q + 1] = e
        /\ \A x \in 1..q : r[x] = p[x]
        /\ \A x \in (q + 2)..(n + 1) : r[x] = p[x - 1]
    BY <1>2, <1>3 DEF InsertedBehind
  <1>5. /\ \A x \in 1..n : p[x].code \in Nat
        /\ e.code \in Nat
    <2>1. \A x \in 1..n : p[x] \in AnyParam
      BY <1>3, ElementOfSeq
    <2> QED
      BY <2>1 DEF AnyParam
  <1>6. ASSUME NEW x \in 1..Len(r), NEW y \in 1..Len(r), x < y
        PROVE  r[x].code =< r[y].code
    <2>0. x \in 1..(n + 1) /\ y \in 1..(n + 1) /\ n \in Nat /\ q =< n
      BY <1>1, <1>3, <1>4
    <2>1. CASE y =< q
      <3>1. x \in 1..q /\ y \in 1..q /\ x \in 1..Len(p) /\ y \in 1..Len(p)
        BY <1>1, <1>3, <1>6, <2>0, <2>1
      <3>2. p[x].code =< p[y].code
        BY <1>6, <3>1 DEF SortedCodes
      <3> QED
        BY <1>4, <3>1, <3>2
    <2>2. CASE y = q + 1
      <3>1. x \in 1..q
        BY <1>1, <1>6, <2>0, <2>2
      <3>2. p[x].code =< e.code
        BY <3>1 DEF Spot
      <3> QED
        BY <1>4, <2>2, <3>1, <3>2
    <2>3. CASE y > q + 1
      <3>1. PICK z : z = y - 1
        OBVIOUS
      <3>2. y \in (q + 2)..(n + 1) /\ z \in (q + 1)..n /\ z \in (q + 1)..Len(p) /\ z \in 1..Len(p)
        BY <1>1, <1>3, <2>0, <2>3, <3>1
      <3>3. r[y] = p[z]
        BY <1>4, <3>1, <3>2
      <3>4. CASE x =< q
        <4>1. x \in 1..q /\ x \in 1..Len(p) /\ x < z
          BY <1>1, <1>3, <2>0, <3>2, <3>4
        <4>2. p[x].code =< p[z].code
          BY <3>2, <4>1 DEF SortedCodes
        <4> QED
          BY <1>4, <3>3, <4>1, <4>2
      <3>5. CASE x = q + 1
        <4>1. p[z].code > e.code
          BY <3>2 DEF Spot
        <4>2. PICK g, h : g = p[z].code /\ h = e.code
          OBVIOUS
        <4>3. g \in Nat /\ h \in Nat /\ g > h
          BY <1>3, <1>5, <3>2, <4>1, <4>2
        <4>4. h =< g
          BY <4>3
        <4> QED
          BY <1>4, <3>3, <3>5, <4>2, <4>4
      <3>6. CASE x > q + 1
        <4>1. PICK w : w = x - 1
          OBVIOUS
        <4>2. x \in (q + 2)..(n + 1) /\ w \in 1..Len(p) /\ w < z
          BY <1>1, <1>3, <1>6, <2>0, <3>1, <3>6, <4>1
        <4>3. r[x] = p[w]
          BY <1>4, <4>1, <4>2
        <4>4. p[w].code =< p[z].code
          BY <3>2, <4>2 DEF SortedCodes
        <4> QED
          BY <3>3, <4>3, <4>4
      <3> QED
        BY <1>1, <2>0, <3>4, <3>5, <3>6
    <2> QED
      BY <1>1, <2>0, <2>1, <2>2, <2>3
  <1> QED
    BY <1>3, <1>4, <1>6 DEF SortedCodes

\* The list is the one the offsets are for, and the place is in front of s[q].
LEMMA PlaceIsSpot ==
  ASSUME NEW f \in {1, 2}, NEW c \in Seq(Byte), NEW s, Chain(f, c, s), NEW code, NEW q,
         PlaceFor(f, c, s, code, q), NEW p, p = List(f, c, s), NEW y, y = q - 1
  PROVE  Spot(p, code, y) /\ y + 1 = q
  <1>1. PICK n : n = Len(s)
    OBVIOUS
  <1>2. n \in Nat \ {0} /\ q \in 1..n /\ Len(p) = n - 1 /\ \A x \in 1..(n - 1) : p[x].code = Num(f, c, s[x])
    <2>1. n \in Nat \ {0}
      BY <1>1, ChainIs
    <2>2. Len(p) = n - 1 /\ \A x \in 1..(n - 1) : p[x].code = Num(f, c, s[x])
      BY <1>1, ListIs
    <2>3. q \in 1..n
      BY <1>1 DEF PlaceFor
    <2> QED
      BY <2>1, <2>2, <2>3
  <1>3. y \in 0..Len(p) /\ y + 1 = q
    BY <1>2
  <1>4. ASSUME NEW x \in 1..y
        PROVE  p[x].code =< code
    <2>1. x \in 1..(n - 1) /\ x \in 1..(Len(s) - 1) /\ x < q
      BY <1>1, <1>2
    <2>2. Num(f, c, s[x]) =< code
      BY <2>1 DEF PlaceFor
    <2> QED
      BY <1>2, <2>1, <2>2
  <1>5. ASSUME NEW x \in (y + 1)..Len(p)
        PROVE  p[x].code > code
    <2>1. x \in 1..(n - 1) /\ x \in 1..(Len(s) - 1) /\ ~ (x < q)
      BY <1>1, <1>2
    <2>2. Num(f, c, s[x]) > code
      BY <2>1 DEF PlaceFor
    <2> QED
      BY <1>2, <2>1, <2>2
  <1> QED
    BY <1>3, <1>4, <1>5 DEF Spot

\* The parameter e is put behind those with codes up to its own, and the list a
\* becomes b.
PutInPlace(a, b, e) ==
    \E y \in 0..Len(a) : Spot(a, e.code, y) /\ b = InsertAt(a, y + 1, e)

\* AddParam at the place that FindParamPlace finds in a message with a terminator
LEMMA InsertedMessage ==
  ASSUME format \in {1, 2}, NEW m, Intact(format, m), m.len # 0,
         NEW code \in Byte \ {0}, NEW v \in Seq(Byte), Len(v) \in Byte,
         m.len + 2 * format + Len(v) =< Len(m.cells),
         NEW o, o = FindParamPlace(m, code),
         NEW r, r = Inserted(m, o, Bytes(code) \o Bytes(Len(v)) \o v)
  PROVE  /\ Intact(format, r) /\ r # NULL /\ o \in Nat
         /\ PutInPlace(Contents(format, m), Contents(format, r), [code |-> code, value |-> v])
         /\ Len(Contents(format, r)) = Len(Contents(format, m)) + 1
  <1>1. PICK f, c, l, s : f = format /\ c = m.cells /\ l = m.len /\ s = Offsets(f, c)
    OBVIOUS
  <1>2. /\ f \in {1, 2} /\ c \in Seq(Byte) /\ l \in Nat /\ m # NULL /\ Len(c) \in BufferSizes
        /\ Complete(f, c, s, l) /\ Chain(f, c, s) /\ SortedCodes(List(f, c, s))
    <2>1. m \in [cells : Seq(Byte), len : Nat] /\ Len(m.cells) \in BufferSizes
      BY DEF Intact
    <2>2. m # NULL
      BY <2>1, MsgParamsAssumption DEF Byte
    <2>3. c \in Seq(Byte) /\ l \in Nat
      BY <1>1, <2>1
    <2>4. Complete(f, c, s, l) /\ SortedCodes(List(f, c, s))
      BY <1>1 DEF Intact
    <2> QED
      BY <1>1, <2>1, <2>2, <2>3, <2>4 DEF Complete
  <1>3. code \in Nat
    BY MsgParamsAssumption DEF Byte
  <1>4. PICK q \in 1..Len(s) : o = s[q] /\ PlaceFor(f, c, s, code, q)
    BY <1>1, <1>3, FindParamPlaceIs
  <1>5. o \in Nat /\ o =< l
    <2>1. /\ s[q] \in Nat /\ s[q] =< s[Len(s)]
      BY <1>2, ChainIs
    <2>2. l = s[Len(s)] + 2 /\ s[Len(s)] \in Nat
      <3>1. Len(s) \in 1..Len(s)
        BY <1>2, ChainIs
      <3> QED
        BY <1>2, <3>1, ChainIs DEF Complete
    <2> QED
      BY <1>4, <2>1, <2>2
  <1>6. PICK bytes, e, b : /\ bytes = ParamBytes(f, code, v)
                           /\ e = InsertedCells(c, o, l, bytes) /\ b = 2 * f + Len(v)
    OBVIOUS
  <1>7. /\ bytes \in Seq(Byte) /\ Len(bytes) = b
        /\ e \in Seq(Byte) /\ Len(e) = Len(c) /\ Holds(f, c, e, l, o, b, code, v)
    <2>1. Insertion(f, c, e, o, l, bytes, b, code, v)
      BY <1>1, <1>5, <1>6 DEF Insertion
    <2> QED
      BY <1>2, <1>5, <2>1, InsertedHolds
  <1>8. r = [cells |-> e, len |-> l + b]
    <2>1. bytes = Bytes(code) \o Bytes(Len(v)) \o v
      BY <1>1, <1>6, Zenon DEF ParamBytes, Bytes, BytesOf
    <2>2. r = Inserted(m, o, bytes)
      BY <2>1
    <2>3. r = [cells |-> InsertedCells(c, o, l, bytes), len |-> l + Len(bytes)]
      BY <1>1, <2>2, Zenon DEF Inserted, InsertedCells
    <2> QED
      BY <1>6, <1>7, <2>3
  <1>9. PICK t : t = Shifted(s, q, b)
    OBVIOUS
  <1>10. /\ Complete(f, e, t, l + b)
         /\ List(f, e, t) = InsertAt(List(f, c, s), q, [code |-> code, value |-> v])
    <2>1. Holds(f, c, e, l, s[q], b, code, v)
      BY <1>4, <1>7
    <2>2. f \in {1, 2} /\ c \in Seq(Byte) /\ Complete(f, c, s, l) /\ q \in 1..Len(s)
      BY <1>2, <1>4
    <2>3. Grown(f, c, e, s, l, q, b, code, v)
      BY <2>1, <2>2, MessageGrown
    <2> QED
      BY <1>9, <2>3, Zenon DEF Grown
  <1>11. Offsets(f, e) = t
    BY <1>2, <1>7, <1>10, OffsetsAre DEF Complete
  <1>12. b \in Nat /\ l + b \in Nat /\ l + b # 0 /\ l + b =< Len(e)
    <2>1. Len(v) \in Nat /\ 2 * f \in Nat /\ 2 * f > 0
      BY <1>2
    <2>2. l + b =< Len(e)
      BY <1>10 DEF Complete
    <2>3. b \in Nat /\ b > 0
      BY <1>6, <2>1
    <2> QED
      BY <1>2, <2>2, <2>3
  <1>13. r \in [cells : Seq(Byte), len : Nat] /\ r.cells = e /\ r.len = l + b
    BY <1>7, <1>8, <1>12
  <1>14. r # NULL
    BY <1>13, MsgParamsAssumption DEF Byte
  <1>15. PICK p, d, y, z : /\ p = List(f, c, s) /\ d = List(f, e, t)
                           /\ y = [code |-> code, value |-> v] /\ z = q - 1
    OBVIOUS
  <1>16. y \in AnyParam /\ y.code = code
    BY <1>3, <1>15 DEF AnyParam
  <1>17. Spot(p, y.code, z) /\ z + 1 = q
    BY <1>2, <1>4, <1>15, <1>16, PlaceIsSpot
  <1>18. d = InsertAt(p, z + 1, y)
    BY <1>10, <1>15, <1>17
  <1>19. p \in Seq(AnyParam) /\ SortedCodes(p)
    BY <1>2, <1>15, ListIs
  <1>20. SortedCodes(d) /\ Len(d) = Len(p) + 1
    BY <1>16, <1>17, <1>18, <1>19, InsertSorted
  <1>21. Contents(f, m) = p /\ Contents(f, r) = d
    <2>1. Contents(f, m) = p
      BY <1>1, <1>2, <1>15 DEF Contents
    <2>2. Contents(f, r) = d
      BY <1>11, <1>12, <1>13, <1>14, <1>15 DEF Contents
    <2> QED
      BY <2>1, <2>2
  <1>22. Intact(f, r)
    BY <1>2, <1>7, <1>10, <1>11, <1>12, <1>13, <1>15, <1>20 DEF Intact
  <1>23. PutInPlace(p, d, y)
    <2>1. z \in 0..Len(p)
      BY <1>17 DEF Spot
    <2> QED
      BY <1>17, <1>18, <2>1 DEF PutInPlace
  <1> QED
    BY <1>1, <1>5, <1>14, <1>15, <1>20, <1>21, <1>22, <1>23

\* CheckBufferSize, SetENDOfParams and AddParam
LEMMA AddedMessage ==
  ASSUME format \in {1, 2}, NEW m, Intact(format, m), NEW code \in Code, NEW v \in Value,
         HasRoom(m, Len(v)), NEW msg, msg = WithEND(Resized(m, Len(v))),
         NEW o, o = FindParamPlace(msg, code),
         NEW r, r = Inserted(msg, o, Bytes(code) \o Bytes(Len(v)) \o v)
  PROVE  /\ Intact(format, r) /\ r # NULL /\ o \in Nat
         /\ PutInPlace(Contents(format, m), Contents(format, r), [code |-> code, value |-> v])
         /\ Len(Contents(format, r)) = Len(Contents(format, m)) + 1
  <1>1. code \in Byte \ {0} /\ v \in Seq(Byte) /\ Len(v) \in Byte
    <2>1. R \in Nat /\ code \in 1..(R - 1) /\ v \in Seq(0..(R - 1)) /\ Len(v) < R
      BY MsgParamsAssumption
    <2>2. Len(v) \in Nat
      BY <2>1
    <2> QED
      BY <2>1, <2>2 DEF Byte
  <1>2. PICK f, w, g : f = format /\ w = Len(v) /\ g = Resized(m, w)
    OBVIOUS
  <1>3. f \in {1, 2} /\ w \in Nat
    BY <1>1, <1>2
  <1>4. /\ Intact(f, g) /\ Contents(f, g) = Contents(f, m)
        /\ g.len = m.len /\ Len(g.cells) >= m.len + w + 9
    BY <1>2, <1>3, ResizedIs
  <1>5. /\ Intact(f, msg) /\ Contents(f, msg) = Contents(f, g)
        /\ msg.len = IF g.len = 0 THEN 2 ELSE g.len
        /\ msg.len # 0 /\ Len(msg.cells) = Len(g.cells)
    BY <1>2, <1>4, WithENDIs
  <1>6. msg.len + 2 * f + w =< Len(msg.cells)
    <2>1. PICK x, y, z : x = m.len /\ y = msg.len /\ z = Len(msg.cells)
      OBVIOUS
    <2>2. x \in Nat /\ z \in Nat
      <3>1. m \in [cells : Seq(Byte), len : Nat] /\ msg \in [cells : Seq(Byte), len : Nat]
        BY <1>4, <1>5 DEF Intact
      <3> QED
        BY <2>1, <3>1
    <2>3. y = (IF x = 0 THEN 2 ELSE x) /\ z >= x + w + 9
      BY <1>4, <1>5, <2>1
    <2>4. y + 2 * f + w =< z
      BY <1>3, <2>2, <2>3
    <2> QED
      BY <2>1, <2>4
  <1> QED
    BY <1>1, <1>2, <1>4, <1>5, <1>6, InsertedMessage, SMTT(40)

\* CopyMessage
LEMMA CopiedMessage ==
  ASSUME NEW f \in {1, 2}, NEW m, Intact(f, m), NEW r,
         r = [cells |-> CopyOf(m.cells, m.len, Smallest(m.len)), len |-> m.len]
  PROVE  Intact(f, r) /\ Contents(f, r) = Contents(f, m)
  <1>1. /\ m.cells \in Seq(Byte) /\ m.len \in Nat /\ m.len =< Len(m.cells)
        /\ Len(m.cells) \in BufferSizes
    <2>1. m \in [cells : Seq(Byte), len : Nat]
      BY DEF Intact
    <2> QED
      BY <2>1 DEF Intact
  <1>2. PICK c, l, n, e : c = m.cells /\ l = m.len /\ n = Smallest(l) /\ e = CopyOf(c, l, n)
    OBVIOUS
  <1>3. n \in BufferSizes /\ n \in Nat /\ l =< n
    <2>1. Len(c) >= l
      BY <1>1, <1>2
    <2>2. Smallest(l) \in BufferSizes /\ Smallest(l) \in Nat /\ Smallest(l) >= l
      BY <1>1, <1>2, <2>1, SmallestIs
    <2> QED
      BY <1>1, <1>2, <2>2
  <1>4. e \in Seq(Byte) /\ Len(e) = n /\ Moved(c, e, 0, l, 0)
    BY <1>1, <1>2, <1>3, CopiedCells
  <1>5. r = [cells |-> e, len |-> m.len] /\ Moved(m.cells, e, 0, m.len, 0)
    BY <1>2, <1>4
  <1> QED
    BY <1>3, <1>4, <1>5, MessageCopied

-----------------------------------------------------------------------------
(* The search for a parameter.                                             *)

\* The offsets of the parameters from the n-th on
StartsFrom(s, n) == {s[x] : x \in n..(Len(s) - 1)}

\* A loop that starts at an offset of the chain passes the rest of the chain.
LEMMA StepsFrom ==
  ASSUME NEW f \in {1, 2}, NEW c \in Seq(Byte), NEW s, Chain(f, c, s), NEW n \in 1..Len(s)
  PROVE  Starts(Steps(f, c)[s[n]]) = StartsFrom(s, n)
  <1>1. /\ s \in Seq(Nat) /\ Len(s) \in Nat \ {0} /\ Len(c) \in Nat
        /\ \A x \in 1..Len(s) : s[x] \in Nat /\ s[x] =< Len(c)
    BY ChainIs
  <1>2. PICK l, at, u, t : /\ l = Len(s) /\ at = n - 1 /\ u = SubSeq(s, at + 1, l)
                          /\ t = Steps(f, c)[s[n]]
    OBVIOUS
  <1>3. /\ l \in Nat \ {0} /\ at \in Nat /\ at < l /\ n = at + 1 /\ l - at \in Nat \ {0}
    BY <1>1, <1>2
  <1>4. /\ u \in Seq(Nat) /\ Len(u) = l - at
        /\ \A x \in 1..(l - at) : u[x] = s[at + x] /\ at + x \in 1..l
    <2>1. at =< l /\ l =< Len(s) /\ at \in Nat /\ l \in Nat
      BY <1>2, <1>3
    <2>2. /\ SubSeq(s, at + 1, l) \in Seq(Nat) /\ Len(SubSeq(s, at + 1, l)) = l - at
          /\ \A x \in 1..(l - at) : SubSeq(s, at + 1, l)[x] = s[at + x]
      BY <1>1, <2>1, SliceIs
    <2>3. \A x \in 1..(l - at) : at + x \in 1..l
      BY <1>3
    <2> QED
      BY <1>2, <2>2, <2>3, Zenon
  <1>5. Chain(f, c, u)
    <2>1. \A x \in 1..Len(u) : u[x] \in 0..Len(c)
      <3> SUFFICES ASSUME NEW x \in 1..(l - at) PROVE u[x] \in 0..Len(c)
        BY <1>4
      <3>1. u[x] = s[at + x] /\ at + x \in 1..Len(s)
        BY <1>2, <1>4
      <3>2. s[at + x] \in Nat /\ s[at + x] =< Len(c)
        BY <1>1, <3>1
      <3> QED
        BY <1>1, <3>1, <3>2
    <2>2. ASSUME NEW x \in 1..(Len(u) - 1)
          PROVE  ~ Stops(f, c, u[x]) /\ u[x + 1] = NextOffset(f, c, u[x])
      <3>1. PICK y : y = at + x
        OBVIOUS
      <3>2. x \in 1..(l - at) /\ x + 1 \in 1..(l - at) /\ y \in 1..(Len(s) - 1) /\ at + (x + 1) = y + 1
        BY <1>2, <1>3, <1>4, <3>1
      <3>3. u[x] = s[y] /\ u[x + 1] = s[y + 1]
        BY <1>4, <3>1, <3>2
      <3>4. ~ Stops(f, c, s[y]) /\ s[y + 1] = NextOffset(f, c, s[y])
        BY <3>2 DEF Chain
      <3> QED
        BY <3>3, <3>4
    <2>3. Len(u) > 0 /\ u[Len(u)] = s[Len(s)]
      <3>1. l - at \in 1..(l - at) /\ at + (l - at) = l /\ l - at > 0
        BY <1>3
      <3> QED
        BY <1>2, <1>4, <3>1
    <2>4. Stops(f, c, s[Len(s)])
      BY DEF Chain
    <2> QED
      BY <1>4, <2>1, <2>2, <2>3, <2>4 DEF Chain
  <1>6. u[1] = s[n]
    <2>1. 1 \in 1..(l - at) /\ at + 1 = n
      BY <1>3
    <2> QED
      BY <1>4, <2>1
  <1>7. Chain(f, c, t) /\ t[1] = s[n]
    <2>1. s[n] \in 0..Len(c)
      BY <1>1
    <2> QED
      BY <1>2, <2>1, StepsChain
  <1>8. t = u
    BY <1>5, <1>6, <1>7, ChainUnique
  <1>9. Starts(u) = {s[x] : x \in n..(l - 1)}
    <2>1. Starts(u) = {u[x] : x \in 1..(l - at - 1)}
      BY <1>4 DEF Starts
    <2>2. ASSUME NEW x \in 1..(l - at - 1)
          PROVE  u[x] \in {s[y] : y \in n..(l - 1)}
      <3>1. PICK y : y = at + x
        OBVIOUS
      <3>2. x \in 1..(l - at) /\ y \in n..(l - 1)
        BY <1>3, <3>1
      <3>3. u[x] = s[y]
        BY <1>4, <3>1, <3>2
      <3> QED
        BY <3>2, <3>3
    <2>3. ASSUME NEW y \in n..(l - 1)
          PROVE  s[y] \in {u[x] : x \in 1..(l - at - 1)}
      <3>1. PICK x : x = y - at
        OBVIOUS
      <3>2. x \in 1..(l - at) /\ x \in 1..(l - at - 1) /\ at + x = y
        BY <1>3, <3>1
      <3>3. u[x] = s[y]
        BY <1>4, <3>2
      <3> QED
        BY <3>2, <3>3
    <2> QED
      BY <2>1, <2>2, <2>3
  <1> QED
    BY <1>2, <1>8, <1>9 DEF StartsFrom

\* The first of the parameters p behind the first n that has the code, or 0
NextIndex(p, n, code) ==
    LET hits == {x \in DOMAIN p : x > n /\ p[x].code = code}
    IN  IF hits = {} THEN 0 ELSE Min(hits)

\* The offsets of the parameters with the code that a loop from offset o on passes
HitsIn(f, c, o, code) == {y \in Starts(Steps(f, c)[o]) : Num(f, c, y) = code}

\* The index that a search behind the first n parameters should return, and its hits
SearchOf(f, c, s, n, code, at, H) ==
    at = NextIndex(List(f, c, s), n, code) /\ H = HitsIn(f, c, s[n + 1], code)

\* What a search finds behind the first n parameters is the next one with the code,
\* and the offset behind it is the next of the chain.
LEMMA SearchIs ==
  ASSUME NEW f \in {1, 2}, NEW c \in Seq(Byte), NEW s, Chain(f, c, s),
         NEW n \in 0..(Len(s) - 1), NEW code,
         NEW at, NEW H, SearchOf(f, c, s, n, code, at, H)
  PROVE  /\ at \in 0..(Len(s) - 1)
         /\ at = 0 => H = {}
         /\ at # 0 => H # {} /\ Min(H) = s[at] /\ NextOffset(f, c, s[at]) = s[at + 1]
  <1>1. PICK l, p : l = Len(s) /\ p = List(f, c, s)
    OBVIOUS
  <1>2. PICK hits : hits = {x \in DOMAIN p : x > n /\ p[x].code = code}
    OBVIOUS
  <1>3. /\ s \in Seq(Nat) /\ l \in Nat \ {0}
        /\ \A x \in 1..l : s[x] \in Nat
        /\ \A x \in 1..(l - 1) : s[x + 1] = NextOffset(f, c, s[x])
    BY <1>1, ChainIs, SMTT(40)
  <1>4. /\ p \in Seq(AnyParam) /\ Len(p) = l - 1 /\ l - 1 \in Nat
        /\ \A x \in 1..(l - 1) : p[x].code = Num(f, c, s[x])
    <2>1. Listed(f, c, s, p)
      BY <1>1, ListListed
    <2> QED
      BY <1>1, <1>3, <2>1 DEF Listed
  <1>5. DOMAIN p = 1..(l - 1)
    BY <1>4, LenProperties
  <1>6. hits \in SUBSET (1..(l - 1)) /\ hits = {x \in 1..(l - 1) : x > n /\ Num(f, c, s[x]) = code}
    BY <1>2, <1>4, <1>5
  <1>7. at = IF hits = {} THEN 0 ELSE Min(hits)
    BY <1>1, <1>2, Zenon DEF SearchOf, NextIndex
  <1>8. H = {y \in {s[x] : x \in (n + 1)..(l - 1)} : Num(f, c, y) = code}
    <2>1. PICK w : w = n + 1
      OBVIOUS
    <2>2. w \in 1..Len(s)
      BY <1>1, <1>3, <2>1
    <2>3. Starts(Steps(f, c)[s[w]]) = StartsFrom(s, w)
      BY <2>2, StepsFrom
    <2> QED
      BY <1>1, <2>1, <2>3 DEF SearchOf, HitsIn, StartsFrom
  <1>9. \A x \in 1..(l - 1) : x > n <=> x \in (n + 1)..(l - 1)
    BY <1>1, <1>3
  <1>10. \A y : y \in H <=> \E x \in hits : y = s[x]
    <2>1. \A x \in (n + 1)..(l - 1) : x \in 1..(l - 1)
      BY <1>1, <1>3
    <2> QED
      BY <1>6, <1>8, <1>9, <2>1
  <1>11. CASE hits = {}
    BY <1>1, <1>4, <1>10, <1>11, <1>7
  <1>12. CASE hits # {}
    <2>1. at \in hits /\ \A x \in hits : at =< x
      <3>1. hits \in SUBSET Nat
        BY <1>6
      <3>2. Min(hits) \in hits /\ \A x \in hits : Min(hits) =< x
        BY <1>12, <3>1, MinOfNats
      <3>3. at = Min(hits)
        BY <1>7, <1>12
      <3> QED
        BY <3>2, <3>3, Zenon
    <2>2. at \in 1..(l - 1) /\ at # 0
      BY <1>6, <2>1
    <2>3. s[at] \in H
      BY <1>10, <2>1
    <2>4. ASSUME NEW y \in H
          PROVE  s[at] =< y
      <3>1. PICK x \in hits : y = s[x]
        BY <1>10
      <3>2. at =< x /\ x \in 1..(l - 1)
        BY <1>6, <2>1
      <3>3. CASE at = x
        BY <1>3, <2>2, <3>1, <3>3
      <3>4. CASE at # x
        <4>1. at < x /\ at \in 1..Len(s) /\ x \in 1..Len(s)
          BY <1>1, <1>3, <2>2, <3>2, <3>4, SMTT(40)
        <4>2. s[at] + 2 * f =< s[x]
          BY <4>1, ChainGrows
        <4>3. PICK g, h : g = s[at] /\ h = s[x]
          OBVIOUS
        <4>4. g \in Nat /\ h \in Nat /\ g + 2 * f =< h /\ 2 * f \in Nat
          BY <1>1, <1>3, <4>1, <4>2, <4>3
        <4>5. g =< h
          BY <4>4
        <4> QED
          BY <3>1, <4>3, <4>5
      <3> QED
        BY <3>3, <3>4
    <2>5. H \in SUBSET Nat
      <3>1. \A x \in hits : s[x] \in Nat
        BY <1>3, <1>6
      <3> QED
        BY <1>10, <3>1
    <2>6. Min(H) = s[at]
      <3>1. H # {}
        BY <2>3
      <3>2. Min(H) \in H /\ \A y \in H : Min(H) =< y
        BY <2>5, <3>1, MinOfNats
      <3>3. PICK g, h : g = Min(H) /\ h = s[at]
        OBVIOUS
      <3>4. g \in Nat /\ h \in Nat /\ g =< h /\ h =< g
        BY <2>3, <2>4, <2>5, <3>2, <3>3
      <3> QED
        BY <3>3, <3>4
    <2> QED
      BY <1>1, <1>3, <2>2, <2>3, <2>6
  <1> QED
    BY <1>11, <1>12

-----------------------------------------------------------------------------
(* The invariant.                                                          *)

\* The search that went on so far passed the first parameters of the message being
\* handled, and CurrentOffset is where the next one starts.
Searched ==
    IF CurrentMessage.len = 0
    THEN passed = 0 /\ CurrentOffset = 0 /\ found = NULL
    ELSE LET s == Offsets(format, CurrentMessage.cells)
         IN  /\ passed \in 0..(Len(s) - 1)
             /\ CurrentOffset = s[passed + 1]
             /\ found = IF passed = 0 THEN NULL ELSE s[passed]

MInv ==
    /\ format \in {1, 2}
    /\ NewMessage # NULL => Intact(format, NewMessage)
    /\ CurrentMessage # NULL => Intact(format, CurrentMessage)
    /\ Len(Contents(format, NewMessage)) + Len(Contents(format, CurrentMessage)) =< MaxParams
    /\ CurrentOffset \in Nat
    /\ passed \in 0..MaxParams
    /\ moved \in BOOLEAN
    /\ CurrentMessage # NULL /\ moved = FALSE => Searched
    /\ moved = TRUE => passed = 0
    /\ CurrentMessage = NULL => moved = TRUE

\* Messages that are intact are no null pointers and have the parameters of a list.
LEMMA IntactIs ==
  ASSUME NEW f \in {1, 2}, NEW m, Intact(f, m)
  PROVE  /\ m # NULL /\ m.cells \in Seq(Byte) /\ m.len \in Nat /\ m.len =< Len(m.cells)
         /\ Len(m.cells) \in BufferSizes
         /\ Contents(f, m) \in Seq(AnyParam)
  <1>1. m \in [cells : Seq(Byte), len : Nat] /\ m.len =< Len(m.cells) /\ Len(m.cells) \in BufferSizes
    BY DEF Intact
  <1>2. m # NULL
    BY <1>1, MsgParamsAssumption DEF Byte
  <1>3. Contents(f, m) \in Seq(AnyParam)
    <2>1. CASE m.len = 0
      <3>1. Contents(f, m) = <<>>
        BY <2>1 DEF Contents
      <3> QED
        BY <3>1, EmptySeq
    <2>2. CASE m.len # 0
      <3>1. PICK c, s : c = m.cells /\ s = Offsets(f, c)
        OBVIOUS
      <3>2. c \in Seq(Byte) /\ Chain(f, c, s)
        BY <1>1, <2>2, <3>1 DEF Intact, Complete
      <3>3. List(f, c, s) \in Seq(AnyParam)
        BY <3>2, ListIs
      <3> QED
        BY <1>2, <2>2, <3>1, <3>3 DEF Contents
    <2> QED
      BY <2>1, <2>2
  <1> QED
    BY <1>1, <1>2, <1>3

\* A buffer from the pool
LEMMA NewBufferIs ==
  ASSUME NEW f \in {1, 2}, NEW n \in BufferSizes
  PROVE  Intact(f, NewBuffer(n)) /\ Contents(f, NewBuffer(n)) = <<>>
  <1>1. PICK m, c : m = NewBuffer(n) /\ c = [x \in 1..n |-> Old]
    OBVIOUS
  <1>2. n \in Nat /\ Old \in Byte
    BY MsgParamsAssumption DEF Byte
  <1>3. c \in Seq(Byte) /\ Len(c) = n
    <2>1. c \in [1..n -> Byte]
      BY <1>1, <1>2
    <2>2. c \in Seq(Byte)
      BY <1>2, <2>1, FunctionIsSequence
    <2>3. PICK y : y = Len(c)
      OBVIOUS
    <2>4. y \in Nat /\ 1..y = 1..n
      BY <2>1, <2>2, <2>3, LenProperties
    <2>5. y = n
      BY <1>2, <2>4
    <2> QED
      BY <2>2, <2>3, <2>5
  <1>4. m = [cells |-> c, len |-> 0]
    BY <1>1 DEF NewBuffer
  <1>5. m.cells = c /\ m.len = 0 /\ m \in [cells : Seq(Byte), len : Nat]
    BY <1>3, <1>4
  <1>6. Intact(f, m)
    BY <1>2, <1>3, <1>5 DEF Intact
  <1>7. Contents(f, m) = <<>>
    BY <1>5 DEF Contents
  <1> QED
    BY <1>1, <1>6, <1>7

\* The invariant holds at the start.
LEMMA MInvInit ==
  ASSUME Init
  PROVE  MInv
  <1>1. format \in {1, 2} /\ MaxParams \in Nat
    BY MsgParamsAssumption DEF Init
  <1>2. Contents(format, NewMessage) = <<>> /\ Contents(format, CurrentMessage) = <<>>
    BY DEF Init, Contents
  <1> QED
    BY <1>1, <1>2 DEF Init, MInv

\* An action that loses the search keeps the invariant when it keeps the messages.
LEMMA SearchLostKeeps ==
  ASSUME MInv, format' = format, SearchLost, CurrentOffset' \in Nat,
         NewMessage' # NULL => Intact(format, NewMessage'),
         CurrentMessage' # NULL => Intact(format, CurrentMessage'),
         Len(Contents(format, NewMessage')) + Len(Contents(format, CurrentMessage')) =< MaxParams
  PROVE  MInv'
  <1>1. moved' = TRUE /\ passed' = 0 /\ passed' \in 0..MaxParams
    BY MsgParamsAssumption DEF SearchLost
  <1>2. format' \in {1, 2}
    BY DEF MInv
  <1> QED
    BY <1>1, <1>2 DEF MInv

\* What AddParam does to the message being built
LEMMA AddParamIs ==
  ASSUME MInv, NEW code \in Code, NEW value \in Value, AddParam(code, value)
  PROVE  /\ Intact(format, NewMessage') /\ NewMessage' # NULL /\ CurrentOffset' \in Nat
         /\ PutInPlace(Contents(format, NewMessage), Contents(format, NewMessage'),
                       [code |-> code, value |-> value])
         /\ Len(Contents(format, NewMessage')) = Len(Contents(format, NewMessage)) + 1
  <1>1. format \in {1, 2} /\ Intact(format, NewMessage)
    BY DEF MInv, AddParam
  <1>2. HasRoom(NewMessage, Len(value))
    BY DEF AddParam, HasRoom
  <1>3. PICK msg, o, r, d : /\ msg = WithEND(Resized(NewMessage, Len(value)))
                          /\ o = FindParamPlace(msg, code)
                          /\ r = Inserted(msg, o, Bytes(code) \o Bytes(Len(value)) \o value)
                          /\ d = NewMessage
    OBVIOUS
  <1>4. NewMessage' = r /\ CurrentOffset' = o
    BY <1>3 DEF AddParam
  <1>5. /\ Intact(format, r) /\ r # NULL /\ o \in Nat
        /\ PutInPlace(Contents(format, d), Contents(format, r), [code |-> code, value |-> value])
        /\ Len(Contents(format, r)) = Len(Contents(format, d)) + 1
    BY <1>1, <1>2, <1>3, AddedMessage
  <1> QED
    BY <1>3, <1>4, <1>5

\* RemoveParam leaves the parameters.
LEMMA RemoveParamIs ==
  ASSUME MInv, NEW code \in Code, RemoveParam(code)
  PROVE  /\ Intact(format, NewMessage') /\ CurrentOffset' \in Nat
         /\ Contents(format, NewMessage') = Contents(format, NewMessage)
  <1>1. format \in {1, 2} /\ Intact(format, NewMessage)
    BY DEF MInv, RemoveParam
  <1>2. PICK msg, o, s, d : /\ msg = WithEND(NewMessage) /\ o = FindParamPlace(msg, code)
                          /\ s = Offsets(format, msg.cells) /\ d = NewMessage
    OBVIOUS
  <1>3. NewMessage' = msg /\ CurrentOffset' = o
    BY <1>2 DEF RemoveParam
  <1>4. Intact(format, msg) /\ Contents(format, msg) = Contents(format, d) /\ msg.len # 0
    BY <1>1, <1>2, WithENDIs
  <1>5. o \in Nat
    <2>1. code \in Nat
      BY MsgParamsAssumption
    <2>2. PICK q \in 1..Len(s) : o = s[q]
      <3>1. \E q \in 1..Len(s) : FindParamPlace(msg, code) = s[q] /\ PlaceFor(format, msg.cells, s, code, q)
        BY <1>1, <1>2, <1>4, <2>1, FindParamPlaceIs
      <3> QED
        BY <1>2, <3>1
    <2>3. msg.cells \in Seq(Byte) /\ Chain(format, msg.cells, s)
      BY <1>1, <1>2, <1>4, IntactIs DEF Intact, Complete
    <2>4. s[q] \in Nat
      BY <1>1, <2>3, ChainIs
    <2> QED
      BY <2>2, <2>4
  <1> QED
    BY <1>2, <1>3, <1>4, <1>5

\* CopyMessage copies them.
LEMMA CopyMessageIs ==
  ASSUME MInv, CopyMessage
  PROVE  /\ Intact(format, NewMessage')
         /\ Contents(format, NewMessage') = Contents(format, CurrentMessage)
  <1>1. format \in {1, 2} /\ Intact(format, CurrentMessage)
    BY DEF MInv, CopyMessage
  <1>2. PICK r : r = [cells |-> CopyOf(CurrentMessage.cells, CurrentMessage.len, Smallest(CurrentMessage.len)),
                      len   |-> CurrentMessage.len]
    OBVIOUS
  <1>3. NewMessage' = r
    BY <1>2, Zenon DEF CopyMessage, CopyOf
  <1>4. PICK f, m : f = format /\ m = CurrentMessage
    OBVIOUS
  <1>5. Intact(f, r) /\ Contents(f, r) = Contents(f, m)
    BY <1>1, <1>2, <1>4, CopiedMessage
  <1> QED
    BY <1>3, <1>4, <1>5

-----------------------------------------------------------------------------
(* The steps.                                                              *)

\* Reading a message is reading its cells.
LEMMA BehindIs ==
  ASSUME NEW m, NEW o
  PROVE  Behind(m, o) = NextOffset(format, m.cells, o) /\ CodeAt(m, o) = Num(format, m.cells, o)
  BY Zenon DEF Behind, NextOffset, PARAM_HEADER_LENGTH, LengthAt, CodeAt, NumberAt, Num

\* What FindParam looks at
LEMMA HitsAre ==
  ASSUME format \in {1, 2}, NEW m, Intact(format, m), NEW o \in 0..Len(m.cells), NEW code
  PROVE  /\ Hits(m, code, o) = HitsIn(format, m.cells, o, code)
         /\ Hits(m, code, o) \in SUBSET Nat
         /\ \A y \in Hits(m, code, o) : Behind(m, y) \in Nat
  <1>1. PICK f, c, t : f = format /\ c = m.cells /\ t = Steps(f, c)[o]
    OBVIOUS
  <1>2. f \in {1, 2} /\ c \in Seq(Byte)
    BY <1>1, IntactIs
  <1>3. Chain(f, c, t)
    BY <1>1, <1>2, StepsChain
  <1>4. t \in Seq(Nat) /\ Len(t) > 0
    BY <1>3 DEF Chain
  <1>5. ToSet(ParamsFrom(m, o)) = Starts(t)
    <2>1. Walk(m, o) = t
      BY <1>1, WalkIs
    <2>2. ToSet(Front(t)) = Starts(t)
      BY <1>4, FrontIs
    <2> QED
      BY <2>1, <2>2 DEF ParamsFrom
  <1>6. \A y : CodeAt(m, y) = Num(f, c, y) /\ Behind(m, y) = NextOffset(f, c, y)
    BY <1>1, BehindIs
  <1>7. Hits(m, code, o) = HitsIn(f, c, o, code)
    <2>1. PICK a : a = Starts(t)
      OBVIOUS
    <2>2. {y \in a : CodeAt(m, y) = code} = {y \in a : Num(f, c, y) = code}
      BY <1>6
    <2>3. Hits(m, code, o) = {y \in a : CodeAt(m, y) = code}
      BY <1>5, <2>1 DEF Hits
    <2>4. HitsIn(f, c, o, code) = {y \in a : Num(f, c, y) = code}
      BY <1>1, <2>1 DEF HitsIn
    <2> QED
      BY <2>2, <2>3, <2>4
  <1>8. ASSUME NEW y \in Starts(t)
        PROVE  y \in Nat /\ NextOffset(f, c, y) \in Nat
    <2>1. PICK x \in 1..(Len(t) - 1) : y = t[x]
      BY DEF Starts
    <2>2. x \in 1..Len(t) /\ t[x] \in Nat /\ ~ Stops(f, c, t[x])
      BY <1>2, <1>3, ChainIs
    <2>3. y \in Nat /\ ~ Stops(f, c, y)
      BY <2>1, <2>2
    <2> QED
      BY <1>2, <2>3, PassIs
  <1>9. \A y \in HitsIn(f, c, o, code) : y \in Nat /\ NextOffset(f, c, y) \in Nat
    BY <1>1, <1>8 DEF HitsIn
  <1> QED
    BY <1>1, <1>6, <1>7, <1>9

\* A search from any offset in the buffer ends at an offset.
LEMMA FindParamEnds ==
  ASSUME format \in {1, 2}, Intact(format, CurrentMessage),
         NEW o \in 0..Len(CurrentMessage.cells), NEW code, FindParam(code, o)
  PROVE  CurrentOffset' \in Nat
  <1>1. o \in Nat
    BY IntactIs
  <1>2. CASE CurrentMessage.len = 0
    BY <1>1, <1>2 DEF FindParam
  <1>3. CASE CurrentMessage.len # 0
    <2>1. PICK m, h : m = CurrentMessage /\ h = Hits(m, code, o)
      OBVIOUS
    <2>2. h \in SUBSET Nat /\ \A y \in h : Behind(m, y) \in Nat
      BY <2>1, HitsAre
    <2>3. CASE h = {}
      BY <1>3, <2>1, <2>3 DEF FindParam
    <2>4. CASE h # {}
      <3>1. Min(h) \in h
        BY <2>2, <2>4, MinOfNats
      <3>2. found' = Min(h) /\ CurrentOffset' = Behind(m, found')
        BY <1>3, <2>1, <2>4, Zenon DEF FindParam
      <3> QED
        BY <2>2, <3>1, <3>2
    <2> QED
      BY <2>3, <2>4
  <1> QED
    BY <1>2, <1>3

\* A search that starts behind the first n parameters ends behind the next one with
\* the code, or at the beginning.
LEMMA FindParamIs ==
  ASSUME MInv, CurrentMessage # NULL, CurrentMessage.len # 0, NEW code,
         NEW s, s = Offsets(format, CurrentMessage.cells), NEW n \in 0..(Len(s) - 1),
         FindParam(code, s[n + 1])
  PROVE  /\ Should(code, n) \in 0..(Len(s) - 1)
         /\ Len(s) - 1 =< MaxParams
         /\ CurrentOffset' = s[Should(code, n) + 1]
         /\ found' = IF Should(code, n) = 0 THEN NULL ELSE s[Should(code, n)]
  <1>1. PICK f, m, c, p : f = format /\ m = CurrentMessage /\ c = m.cells /\ p = List(f, c, s)
    OBVIOUS
  <1>2. /\ f \in {1, 2} /\ Intact(f, m) /\ c \in Seq(Byte) /\ m # NULL /\ m.len # 0
        /\ Chain(f, c, s) /\ s[1] = 0
    <2>1. f \in {1, 2} /\ Intact(f, m)
      BY <1>1 DEF MInv
    <2>2. c \in Seq(Byte)
      BY <1>1, <2>1, IntactIs
    <2> QED
      BY <1>1, <2>1, <2>2 DEF Intact, Complete
  <1>3. /\ s \in Seq(Nat) /\ Len(s) \in Nat \ {0} /\ Len(c) \in Nat
        /\ \A x \in 1..Len(s) : s[x] \in Nat /\ s[x] =< Len(c)
    BY <1>2, ChainIs
  <1>4. Contents(f, m) = p /\ Decoded(m) = p
    <2>1. Contents(f, m) = p
      BY <1>1, <1>2 DEF Contents
    <2>2. Decoded(m) = Contents(f, m)
      BY <1>1, DecodedIs
    <2> QED
      BY <2>1, <2>2
  <1>5. Len(s) - 1 =< MaxParams
    <2>1. Len(p) = Len(s) - 1 /\ Len(p) \in Nat
      BY <1>1, <1>2, ListIs
    <2>2. Len(Contents(f, NewMessage)) \in Nat
      <3>1. CASE NewMessage = NULL
        <4>1. Contents(f, NewMessage) = <<>>
          BY <3>1 DEF Contents
        <4> QED
          BY <4>1
      <3>2. CASE NewMessage # NULL
        <4>1. Contents(f, NewMessage) \in Seq(AnyParam)
          BY <1>1, <1>2, <3>2, IntactIs DEF MInv
        <4> QED
          BY <4>1
      <3> QED
        BY <3>1, <3>2
    <2>3. Len(Contents(f, NewMessage)) + Len(Contents(f, m)) =< MaxParams
      BY <1>1 DEF MInv
    <2>4. MaxParams \in Nat
      BY MsgParamsAssumption
    <2>5. PICK x, y : x = Len(Contents(f, NewMessage)) /\ y = Len(p)
      OBVIOUS
    <2>6. x \in Nat /\ y \in Nat /\ x + y =< MaxParams
      BY <1>4, <2>1, <2>2, <2>3, <2>5
    <2>7. y =< MaxParams
      BY <2>4, <2>6
    <2> QED
      BY <2>1, <2>5, <2>7
  <1>6. PICK at, o, h : at = Should(code, n) /\ o = s[n + 1] /\ h = Hits(m, code, o)
    OBVIOUS
  <1>7. at = NextIndex(p, n, code)
    BY <1>1, <1>4, <1>6, Zenon DEF Should, NextIndex
  <1>8. o \in 0..Len(c)
    <2>1. n + 1 \in 1..Len(s)
      BY <1>3
    <2> QED
      BY <1>3, <1>6, <2>1
  <1>9. h = HitsIn(f, c, o, code)
    BY <1>1, <1>2, <1>6, <1>8, HitsAre
  <1>10. /\ at \in 0..(Len(s) - 1)
         /\ at = 0 => h = {}
         /\ at # 0 => h # {} /\ Min(h) = s[at] /\ NextOffset(f, c, s[at]) = s[at + 1]
    <2>1. SearchOf(f, c, s, n, code, at, h)
      BY <1>1, <1>6, <1>7, <1>9 DEF SearchOf
    <2> QED
      BY <1>2, <2>1, SearchIs
  <1>11. CASE at = 0
    <2>1. found' = NULL /\ CurrentOffset' = 0
      BY <1>1, <1>6, <1>10, <1>11, Zenon DEF FindParam
    <2>2. s[at + 1] = 0
      BY <1>2, <1>11
    <2> QED
      BY <1>5, <1>6, <1>10, <1>11, <2>1, <2>2
  <1>12. CASE at # 0
    <2>1. found' = Min(h) /\ CurrentOffset' = Behind(m, found')
      BY <1>1, <1>6, <1>10, <1>12, Zenon DEF FindParam
    <2>2. Behind(m, s[at]) = NextOffset(f, c, s[at])
      BY <1>1, BehindIs
    <2>3. found' = s[at] /\ CurrentOffset' = s[at + 1]
      BY <1>10, <1>12, <2>1, <2>2
    <2> QED
      BY <1>5, <1>6, <1>10, <1>12, <2>3
  <1> QED
    BY <1>11, <1>12

\* A search in a message without parameters returns NULL.
LEMMA NothingFound ==
  ASSUME CurrentMessage # NULL, CurrentMessage.len = 0, NEW code, NEW n, NEW o, FindParam(code, o)
  PROVE  Should(code, n) = 0 /\ found' = NULL /\ CurrentOffset' = o
  <1>1. Decoded(CurrentMessage) = <<>>
    BY DEF Decoded
  <1>2. {x \in DOMAIN Decoded(CurrentMessage) : x > n /\ Decoded(CurrentMessage)[x].code = code} = {}
    BY <1>1
  <1>3. Should(code, n) = 0
    BY <1>2, Zenon DEF Should
  <1> QED
    BY <1>3 DEF FindParam

\* A search from the beginning
LEMMA GetParamKeeps ==
  ASSUME MInv, NEW code \in Code, GetParam(code)
  PROVE  MInv'
  <1>1. /\ CurrentMessage # NULL /\ FindParam(code, 0) /\ passed' = Should(code, 0) /\ moved' = FALSE
        /\ format' = format /\ NewMessage' = NewMessage /\ CurrentMessage' = CurrentMessage
    BY DEF GetParam
  <1>2. passed' \in 0..MaxParams /\ CurrentOffset' \in Nat /\ Searched'
    <2>1. CASE CurrentMessage.len = 0
      <3>1. passed' = 0 /\ found' = NULL /\ CurrentOffset' = 0
        BY <1>1, <2>1, NothingFound
      <3> QED
        BY <1>1, <2>1, <3>1, MsgParamsAssumption DEF Searched
    <2>2. CASE CurrentMessage.len # 0
      <3>1. PICK s, n : s = Offsets(format, CurrentMessage.cells) /\ n = 0
        OBVIOUS
      <3>2. /\ format \in {1, 2} /\ CurrentMessage.cells \in Seq(Byte) /\ s[1] = 0
            /\ Chain(format, CurrentMessage.cells, s)
        <4>1. format \in {1, 2} /\ Intact(format, CurrentMessage)
          BY <1>1 DEF MInv
        <4> QED
          BY <2>2, <3>1, <4>1, IntactIs DEF Intact, Complete
      <3>3. /\ s \in Seq(Nat) /\ Len(s) \in Nat \ {0}
            /\ \A x \in 1..Len(s) : s[x] \in Nat
        BY <3>2, ChainIs
      <3>4. n \in 0..(Len(s) - 1) /\ s[n + 1] = 0
        BY <3>1, <3>2, <3>3
      <3>5. /\ Should(code, n) \in 0..(Len(s) - 1)
            /\ Len(s) - 1 =< MaxParams
            /\ CurrentOffset' = s[Should(code, n) + 1]
            /\ found' = IF Should(code, n) = 0 THEN NULL ELSE s[Should(code, n)]
        <4>1. FindParam(code, s[n + 1])
          BY <1>1, <3>4
        <4> QED
          BY <1>1, <2>2, <3>1, <3>4, <4>1, FindParamIs
      <3>6. /\ passed' \in 0..(Len(s) - 1)
            /\ CurrentOffset' = s[passed' + 1]
            /\ found' = IF passed' = 0 THEN NULL ELSE s[passed']
        BY <1>1, <3>1, <3>5
      <3>7. passed' \in 0..MaxParams /\ passed' + 1 \in 1..Len(s)
        <4>1. PICK x, l : x = passed' /\ l = Len(s)
          OBVIOUS
        <4>2. x \in 0..(l - 1) /\ l \in Nat \ {0} /\ l - 1 =< MaxParams /\ MaxParams \in Nat
          BY <3>3, <3>5, <3>6, <4>1, MsgParamsAssumption
        <4>3. x \in 0..MaxParams /\ x + 1 \in 1..l
          BY <4>2
        <4> QED
          BY <4>1, <4>3
      <3>8. CurrentOffset' \in Nat
        BY <3>3, <3>6, <3>7
      <3>9. s = Offsets(format', CurrentMessage'.cells)
        BY <1>1, <3>1
      <3> QED
        BY <1>1, <2>2, <3>6, <3>7, <3>8, <3>9, Zenon DEF Searched
    <2> QED
      BY <2>1, <2>2
  <1> QED
    BY <1>1, <1>2 DEF MInv

\* A search that goes on from the last
LEMMA GetNextParamKeeps ==
  ASSUME MInv, NEW code \in Code, GetNextParam(code)
  PROVE  MInv'
  <1>1. /\ CurrentMessage # NULL /\ FindParam(code, CurrentOffset) /\ moved' = moved
        /\ passed' = (IF moved THEN 0 ELSE Should(code, passed))
        /\ format' = format /\ NewMessage' = NewMessage /\ CurrentMessage' = CurrentMessage
    BY DEF GetNextParam
  <1>2. /\ format \in {1, 2} /\ Intact(format, CurrentMessage) /\ moved \in BOOLEAN
        /\ MaxParams \in Nat
    BY <1>1, MsgParamsAssumption DEF MInv
  <1>3. CASE moved = TRUE
    <2>1. passed' = 0 /\ passed' \in 0..MaxParams /\ moved' = TRUE
      BY <1>1, <1>2, <1>3
    <2>2. CurrentOffset' \in Nat
      <3>1. CurrentOffset \in Nat /\ CurrentOffset =< Len(CurrentMessage.cells)
        BY DEF MInv, GetNextParam
      <3>2. Len(CurrentMessage.cells) \in Nat
        BY <1>2, IntactIs
      <3>3. CurrentOffset \in 0..Len(CurrentMessage.cells)
        BY <3>1, <3>2
      <3> QED
        BY <1>1, <1>2, <3>3, FindParamEnds
    <2> QED
      BY <1>1, <1>2, <2>1, <2>2 DEF MInv
  <1>4. CASE moved = FALSE
    <2>0. Searched /\ passed' = Should(code, passed) /\ moved' = FALSE
      BY <1>1, <1>4 DEF MInv
    <2>1. passed' \in 0..MaxParams /\ CurrentOffset' \in Nat /\ Searched'
      <3>1. CASE CurrentMessage.len = 0
        <4>1. passed' = 0 /\ found' = NULL /\ CurrentOffset' = CurrentOffset
          BY <1>1, <2>0, <3>1, NothingFound
        <4>2. CurrentOffset = 0
          BY <2>0, <3>1 DEF Searched
        <4> QED
          BY <1>1, <1>2, <3>1, <4>1, <4>2 DEF Searched
      <3>2. CASE CurrentMessage.len # 0
        <4>1. PICK s, n : s = Offsets(format, CurrentMessage.cells) /\ n = passed
          OBVIOUS
        <4>2. n \in 0..(Len(s) - 1) /\ CurrentOffset = s[n + 1]
          BY <2>0, <3>2, <4>1 DEF Searched
        <4>3. CurrentMessage.cells \in Seq(Byte) /\ Chain(format, CurrentMessage.cells, s)
          BY <1>2, <3>2, <4>1, IntactIs DEF Intact, Complete
        <4>4. /\ s \in Seq(Nat) /\ Len(s) \in Nat \ {0}
              /\ \A x \in 1..Len(s) : s[x] \in Nat
          BY <1>2, <4>3, ChainIs
        <4>5. /\ Should(code, n) \in 0..(Len(s) - 1)
              /\ Len(s) - 1 =< MaxParams
              /\ CurrentOffset' = s[Should(code, n) + 1]
              /\ found' = IF Should(code, n) = 0 THEN NULL ELSE s[Should(code, n)]
          <5>1. FindParam(code, s[n + 1])
            BY <1>1, <4>2
          <5> QED
            BY <1>1, <3>2, <4>1, <4>2, <5>1, FindParamIs
        <4>6. /\ passed' \in 0..(Len(s) - 1)
              /\ CurrentOffset' = s[passed' + 1]
              /\ found' = IF passed' = 0 THEN NULL ELSE s[passed']
          BY <2>0, <4>1, <4>5
        <4>7. passed' \in 0..MaxParams /\ passed' + 1 \in 1..Len(s)
          <5>1. PICK x, l : x = passed' /\ l = Len(s)
            OBVIOUS
          <5>2. x \in 0..(l - 1) /\ l \in Nat \ {0} /\ l - 1 =< MaxParams /\ MaxParams \in Nat
            BY <1>2, <4>4, <4>5, <4>6, <5>1
          <5>3. x \in 0..MaxParams /\ x + 1 \in 1..l
            BY <5>2
          <5> QED
            BY <5>1, <5>3
        <4>8. CurrentOffset' \in Nat
          BY <4>4, <4>6, <4>7
        <4>9. s = Offsets(format', CurrentMessage'.cells)
          BY <1>1, <4>1
        <4> QED
          BY <1>1, <3>2, <4>6, <4>7, <4>8, <4>9, Zenon DEF Searched
      <3> QED
        BY <3>1, <3>2
    <2> QED
      BY <1>1, <2>0, <2>1 DEF MInv
  <1> QED
    BY <1>2, <1>3, <1>4

\* Lists of parameters have lengths.
LEMMA ContentsIs ==
  ASSUME MInv
  PROVE  /\ Contents(format, NewMessage) \in Seq(AnyParam)
         /\ Contents(format, CurrentMessage) \in Seq(AnyParam)
         /\ Contents(format, NULL) = <<>>
  <1>1. Contents(format, NULL) = <<>> /\ <<>> \in Seq(AnyParam)
    BY EmptySeq DEF Contents
  <1>2. format \in {1, 2}
    BY DEF MInv
  <1>3. Contents(format, NewMessage) \in Seq(AnyParam)
    <2>1. CASE NewMessage = NULL
      BY <1>1, <2>1
    <2>2. CASE NewMessage # NULL
      BY <1>2, <2>2, IntactIs DEF MInv
    <2> QED
      BY <2>1, <2>2
  <1>4. Contents(format, CurrentMessage) \in Seq(AnyParam)
    <2>1. CASE CurrentMessage = NULL
      BY <1>1, <2>1
    <2>2. CASE CurrentMessage # NULL
      BY <1>2, <2>2, IntactIs DEF MInv
    <2> QED
      BY <2>1, <2>2
  <1> QED
    BY <1>1, <1>3, <1>4

\* Every step keeps the invariant.
LEMMA MInvNext ==
  ASSUME MInv, [Next]_vars
  PROVE  MInv'
  <1> DEFINE New == Contents(format, NewMessage)
             Current == Contents(format, CurrentMessage)
  <1>1. /\ format \in {1, 2} /\ MaxParams \in Nat /\ CurrentOffset \in Nat
        /\ Len(New) \in Nat /\ Len(Current) \in Nat /\ Len(New) + Len(Current) =< MaxParams
        /\ Contents(format, NULL) = <<>> /\ Len(<<>>) = 0
        /\ NewMessage # NULL => Intact(format, NewMessage)
        /\ CurrentMessage # NULL => Intact(format, CurrentMessage)
    <2>1. New \in Seq(AnyParam) /\ Current \in Seq(AnyParam) /\ Contents(format, NULL) = <<>>
      BY ContentsIs
    <2>2. /\ format \in {1, 2} /\ CurrentOffset \in Nat /\ Len(New) + Len(Current) =< MaxParams
          /\ NewMessage # NULL => Intact(format, NewMessage)
          /\ CurrentMessage # NULL => Intact(format, CurrentMessage)
      BY DEF MInv
    <2>3. Len(New) \in Nat /\ Len(Current) \in Nat /\ Len(<<>>) = 0
      BY <2>1
    <2> QED
      BY <2>1, <2>2, <2>3, MsgParamsAssumption
  <1> HIDE DEF New, Current
  <1>2. CASE PrepareNewMessage
    <2>1. PICK n \in BufferSizes : NewMessage' = NewBuffer(n)
      BY <1>2 DEF PrepareNewMessage
    <2>2. /\ format' = format /\ CurrentMessage' = CurrentMessage /\ CurrentOffset' = CurrentOffset
          /\ found' = found /\ passed' = passed /\ moved' = moved
      BY <1>2 DEF PrepareNewMessage, search
    <2>3. Intact(format, NewMessage') /\ Contents(format, NewMessage') = <<>>
      BY <1>1, <2>1, NewBufferIs
    <2>4. Len(Contents(format, NewMessage')) + Len(Contents(format, CurrentMessage)) =< MaxParams
      BY <1>1, <2>3 DEF Current
    <2>5. Searched' = Searched
      BY <2>2 DEF Searched
    <2> QED
      BY <2>2, <2>3, <2>4, <2>5 DEF MInv
  <1>3. ASSUME NEW code \in Code, NEW value \in Value, AddParam(code, value)
        PROVE  MInv'
    <2>1. /\ Intact(format, NewMessage') /\ CurrentOffset' \in Nat
          /\ Len(Contents(format, NewMessage')) = Len(New) + 1
      BY <1>3, AddParamIs DEF New
    <2>2. /\ format' = format /\ CurrentMessage' = CurrentMessage /\ SearchLost
          /\ Len(Decoded(NewMessage)) + Len(Decoded(CurrentMessage)) < MaxParams
      BY <1>3 DEF AddParam
    <2>3. Len(New) + Len(Current) < MaxParams
      BY <2>2, DecodedIs DEF New, Current
    <2>4. Len(Contents(format, NewMessage')) + Len(Contents(format, CurrentMessage')) =< MaxParams
      <3>1. PICK x, y : x = Len(New) /\ y = Len(Current)
        OBVIOUS
      <3>2. (x + 1) + y =< MaxParams
        BY <1>1, <2>3, <3>1
      <3> QED
        BY <2>1, <2>2, <3>1, <3>2 DEF Current
    <2> QED
      BY <1>1, <2>1, <2>2, <2>4, SearchLostKeeps
  <1>4. ASSUME NEW code \in Code, RemoveParam(code)
        PROVE  MInv'
    <2>1. /\ Intact(format, NewMessage') /\ CurrentOffset' \in Nat
          /\ Contents(format, NewMessage') = New
      BY <1>4, RemoveParamIs DEF New
    <2>2. format' = format /\ CurrentMessage' = CurrentMessage /\ SearchLost
      BY <1>4 DEF RemoveParam
    <2>3. Len(Contents(format, NewMessage')) + Len(Contents(format, CurrentMessage')) =< MaxParams
      BY <1>1, <2>1, <2>2 DEF Current
    <2> QED
      BY <1>1, <2>1, <2>2, <2>3, SearchLostKeeps
  <1>5. CASE ParseMessage
    <2>1. /\ format' = format /\ CurrentMessage' = NewMessage /\ NewMessage' = NULL /\ SearchLost
          /\ CurrentOffset' = CurrentOffset
      BY <1>5 DEF ParseMessage
    <2>2. Len(Contents(format, NewMessage')) + Len(Contents(format, CurrentMessage')) =< MaxParams
      <3>1. Contents(format, NewMessage') = <<>> /\ Contents(format, CurrentMessage') = New
        BY <1>1, <2>1 DEF New
      <3>2. PICK x, y : x = Len(New) /\ y = Len(Current)
        OBVIOUS
      <3>3. 0 + x =< MaxParams
        BY <1>1, <3>2
      <3> QED
        BY <1>1, <3>1, <3>2, <3>3
    <2> QED
      BY <1>1, <2>1, <2>2, SearchLostKeeps
  <1>6. CASE CopyMessage
    <2>1. Intact(format, NewMessage') /\ Contents(format, NewMessage') = Current
      BY <1>6, CopyMessageIs DEF Current
    <2>2. /\ format' = format /\ CurrentMessage' = CurrentMessage /\ CurrentOffset' = CurrentOffset
          /\ found' = found /\ passed' = passed /\ moved' = moved
          /\ 2 * Len(Decoded(CurrentMessage)) =< MaxParams
      BY <1>6 DEF CopyMessage, search
    <2>3. Len(Contents(format, NewMessage')) + Len(Contents(format, CurrentMessage)) =< MaxParams
      <3>1. 2 * Len(Current) =< MaxParams
        BY <2>2, DecodedIs DEF Current
      <3>2. Len(Current) + Len(Current) =< MaxParams
        BY <1>1, <3>1
      <3> QED
        BY <2>1, <3>2 DEF Current
    <2>4. Searched' = Searched
      BY <2>2 DEF Searched
    <2> QED
      BY <2>1, <2>2, <2>3, <2>4 DEF MInv
  <1>7. CASE ClearMessage
    <2>1. /\ format' = format /\ CurrentMessage' = NULL /\ NewMessage' = NewMessage /\ SearchLost
          /\ CurrentOffset' = CurrentOffset
      BY <1>7 DEF ClearMessage
    <2>2. Len(Contents(format, NewMessage')) + Len(Contents(format, CurrentMessage')) =< MaxParams
      <3>1. Contents(format, CurrentMessage') = <<>> /\ Contents(format, NewMessage') = New
        BY <1>1, <2>1 DEF New
      <3>2. PICK x, y : x = Len(New) /\ y = Len(Current)
        OBVIOUS
      <3>3. x + 0 =< MaxParams
        BY <1>1, <3>2
      <3> QED
        BY <1>1, <3>1, <3>2, <3>3
    <2> QED
      BY <1>1, <2>1, <2>2, SearchLostKeeps
  <1>8. ASSUME NEW code \in Code, GetParam(code)
        PROVE  MInv'
    BY <1>8, GetParamKeeps
  <1>9. ASSUME NEW code \in Code, GetNextParam(code)
        PROVE  MInv'
    BY <1>9, GetNextParamKeeps
  <1>10. CASE UNCHANGED vars
    BY <1>10 DEF MInv, vars, Searched
  <1> QED
    BY <1>2, <1>3, <1>4, <1>5, <1>6, <1>7, <1>8, <1>9, <1>10 DEF Next

\* The invariant always holds.
THEOREM MInvAlways == Spec => []MInv
  BY MInvInit, MInvNext, PTL DEF Spec

-----------------------------------------------------------------------------
(* The properties.                                                         *)

\* Messages stay in their buffers.
THEOREM MsgParamsTypeCorrect == Spec => []TypeOK
  <1>1. ASSUME NEW m, NEW f \in {1, 2}, m # NULL => Intact(f, m)
        PROVE  InBuffer(m)
    <2> SUFFICES ASSUME m # NULL PROVE InBuffer(m)
      BY DEF InBuffer
    <2>1. m.cells \in Seq(Byte) /\ m.len =< Len(m.cells) /\ Len(m.cells) \in BufferSizes
      BY <1>1, IntactIs
    <2>2. ToSet(m.cells) \subseteq 0..(R - 1)
      <3>1. ToSet(m.cells) = {m.cells[x] : x \in 1..Len(m.cells)}
        BY <2>1, ToSetIs
      <3>2. \A x \in 1..Len(m.cells) : m.cells[x] \in Byte
        BY <2>1, ElementOfSeq
      <3> QED
        BY <3>1, <3>2 DEF Byte
    <2> QED
      BY <2>1, <2>2 DEF InBuffer
  <1>2. MInv => TypeOK
    BY <1>1 DEF MInv, TypeOK
  <1> QED
    BY <1>2, MInvAlways, PTL

\* A search, and those that go on from it, return the parameters with the code one
\* after the other.
THEOREM SearchCorrect == Spec => []SearchFindsNext
  <1>1. ASSUME MInv
        PROVE  SearchFindsNext
    <2> SUFFICES ASSUME CurrentMessage # NULL, moved = FALSE
                 PROVE  found = IF passed = 0 THEN NULL ELSE ParamsFrom(CurrentMessage, 0)[passed]
      BY <1>1 DEF SearchFindsNext, MInv
    <2>1. Searched
      BY <1>1 DEF MInv
    <2>2. CASE CurrentMessage.len = 0
      BY <2>1, <2>2 DEF Searched
    <2>3. CASE CurrentMessage.len # 0
      <3>1. PICK s : s = Offsets(format, CurrentMessage.cells)
        OBVIOUS
      <3>2. passed \in 0..(Len(s) - 1) /\ found = IF passed = 0 THEN NULL ELSE s[passed]
        BY <2>1, <2>3, <3>1 DEF Searched
      <3>3. s \in Seq(Nat) /\ Len(s) > 0
        <4>1. Chain(format, CurrentMessage.cells, s)
          BY <1>1, <2>3, <3>1 DEF MInv, Intact, Complete
        <4> QED
          BY <4>1 DEF Chain
      <3>4. ParamsFrom(CurrentMessage, 0) = Front(s)
        BY <3>1, WalkIs DEF ParamsFrom, Offsets
      <3>5. \A x \in 1..(Len(s) - 1) : Front(s)[x] = s[x]
        BY <3>3, FrontIs
      <3>6. CASE passed # 0
        <4>1. passed \in 1..(Len(s) - 1)
          BY <3>2, <3>3, <3>6
        <4>2. ParamsFrom(CurrentMessage, 0)[passed] = s[passed]
          BY <3>4, <3>5, <4>1
        <4> QED
          BY <3>2, <3>6, <4>2
      <3>7. CASE passed = 0
        BY <3>2, <3>7
      <3> QED
        BY <3>6, <3>7
    <2> QED
      BY <2>2, <2>3
  <1> QED
    BY <1>1, MInvAlways, PTL

\* The place for a code in the message being built is not at a parameter with it.
RemovesNothing ==
    NewMessage # NULL =>
        \A code \in Code :
            LET m == WithEND(NewMessage) IN CodeAt(m, FindParamPlace(m, code)) # code

\* FindParamPlace stops behind the parameters with the code, so RemoveParam of both
\* formats compares it with another one and never removes any; in the action of
\* MsgParams this is a guard, which therefore excludes nothing.
THEOREM NothingRemoved == Spec => []RemovesNothing
  <1>1. ASSUME MInv, NewMessage # NULL, NEW code \in Code
        PROVE  CodeAt(WithEND(NewMessage), FindParamPlace(WithEND(NewMessage), code)) # code
    <2>1. PICK m, o, s : /\ m = WithEND(NewMessage) /\ o = FindParamPlace(m, code)
                         /\ s = Offsets(format, m.cells)
      OBVIOUS
    <2>2. format \in {1, 2} /\ Intact(format, NewMessage)
      BY <1>1 DEF MInv
    <2>3. Intact(format, m) /\ m.len # 0
      BY <2>1, <2>2, WithENDIs
    <2>4. code \in Nat \ {0}
      BY MsgParamsAssumption
    <2>5. PICK q \in 1..Len(s) : o = s[q] /\ PlaceFor(format, m.cells, s, code, q)
      <3>1. code \in Nat
        BY <2>4
      <3>2. \E q \in 1..Len(s) : /\ FindParamPlace(m, code) = s[q]
                                /\ PlaceFor(format, m.cells, s, code, q)
        BY <2>1, <2>2, <2>3, <3>1, FindParamPlaceIs
      <3> QED
        BY <2>1, <3>2
    <2>6. /\ m.cells \in Seq(Byte) /\ Chain(format, m.cells, s)
          /\ Num(format, m.cells, s[Len(s)]) = 0
      BY <2>1, <2>2, <2>3, IntactIs DEF Intact, Complete
    <2>7. Num(format, m.cells, o) # code
      <3>1. CASE q = Len(s)
        BY <2>4, <2>5, <2>6, <3>1
      <3>2. CASE q # Len(s)
        <4>1. q \in 1..(Len(s) - 1) /\ ~ (q < q)
          BY <2>2, <2>6, <3>2, ChainIs
        <4>2. Num(format, m.cells, s[q]) > code
          BY <2>5, <4>1 DEF PlaceFor
        <4>3. Num(format, m.cells, s[q]) # code
          BY <2>4, <4>2
        <4> QED
          BY <2>5, <4>3
      <3> QED
        BY <3>1, <3>2
    <2>8. CodeAt(m, o) = Num(format, m.cells, o)
      BY DEF CodeAt, NumberAt, Num
    <2> QED
      BY <2>1, <2>7, <2>8
  <1>2. MInv => RemovesNothing
    BY <1>1 DEF RemovesNothing
  <1> QED
    BY <1>2, MInvAlways, PTL

\* The lists in the cells
LEMMA DecodedNew ==
  Decoded(NewMessage) = Contents(format, NewMessage)
  BY DecodedIs

\* The same of the message being handled
LEMMA DecodedCurrent ==
  Decoded(CurrentMessage) = Contents(format, CurrentMessage)
  BY DecodedIs

\* A step on the messages is a step on the lists of parameters, or none.
LEMMA ListStep ==
  ASSUME MInv, [Next]_vars
  PROVE  [Params!Next]_<<Decoded(NewMessage), Decoded(CurrentMessage)>>
  <1>1. /\ Decoded(NewMessage) = Contents(format, NewMessage)
        /\ Decoded(CurrentMessage) = Contents(format, CurrentMessage)
    BY DecodedNew, DecodedCurrent
  <1>2. /\ Decoded(NewMessage)' = Contents(format', NewMessage')
        /\ Decoded(CurrentMessage)' = Contents(format', CurrentMessage')
    <2>1. (Decoded(NewMessage) = Contents(format, NewMessage))'
      BY DecodedNew, PTL
    <2>2. (Decoded(CurrentMessage) = Contents(format, CurrentMessage))'
      BY DecodedCurrent, PTL
    <2> QED
      BY <2>1, <2>2
  <1>3. PICK a, b, d, g : /\ a = Decoded(NewMessage) /\ b = Decoded(CurrentMessage)
                          /\ d = Decoded(NewMessage)' /\ g = Decoded(CurrentMessage)'
    OBVIOUS
  <1>4. Contents(format, NULL) = <<>> /\ a \in Seq(AnyParam) /\ format \in {1, 2}
    BY <1>1, <1>3, ContentsIs DEF MInv
  <1>5. /\ Params!Prepare <=> d = <<>> /\ g = b
        /\ Params!Receive <=> g = a /\ d = <<>>
        /\ Params!Copy <=> d = b /\ g = b
        /\ Params!Clear <=> g = <<>> /\ d = a
    BY <1>3 DEF Params!Prepare, Params!Receive, Params!Copy, Params!Clear
  <1>6. CASE PrepareNewMessage
    <2>1. d = <<>>
      BY <1>2, <1>3, <1>4, <1>6, NewBufferIs DEF PrepareNewMessage
    <2>2. g = b
      BY <1>1, <1>2, <1>3, <1>6 DEF PrepareNewMessage
    <2> QED
      BY <1>5, <2>1, <2>2 DEF Params!Next
  <1>7. ASSUME NEW code \in Code, NEW value \in Value, AddParam(code, value)
        PROVE  Params!Next
    <2>1. PICK e : e = [code |-> code, value |-> value]
      OBVIOUS
    <2>2. e \in Params!Param /\ e.code = code
      BY <2>1 DEF Params!Param
    <2>3. format' = format /\ CurrentMessage' = CurrentMessage
      BY <1>7 DEF AddParam
    <2>4. g = b
      BY <1>1, <1>2, <1>3, <2>3
    <2>5. PutInPlace(a, d, e)
      BY <1>1, <1>2, <1>3, <1>7, <2>1, <2>3, AddParamIs
    <2>6. PICK y \in 0..Len(a) : Spot(a, e.code, y) /\ d = InsertAt(a, y + 1, e)
      BY <2>5 DEF PutInPlace
    <2>7. /\ \A x \in 1..y : a[x].code =< e.code
          /\ \A x \in (y + 1)..Len(a) : a[x].code > e.code
      BY <2>6 DEF Spot
    <2>8. Params!Add(e)
      <3>1. d = Params!InsertAt(a, y + 1, e)
        BY <2>6, Zenon DEF InsertAt, Params!InsertAt
      <3> QED
        BY <1>3, <2>4, <2>6, <2>7, <3>1, Zenon DEF Params!Add
    <2> QED
      BY <2>2, <2>8 DEF Params!Next
  <1>8. ASSUME NEW code \in Code, RemoveParam(code)
        PROVE  d = a /\ g = b
    <2>1. format' = format /\ CurrentMessage' = CurrentMessage
      BY <1>8 DEF RemoveParam
    <2>2. d = a
      BY <1>1, <1>2, <1>3, <1>8, <2>1, RemoveParamIs
    <2> QED
      BY <1>1, <1>2, <1>3, <2>1, <2>2
  <1>9. CASE ParseMessage
    <2>1. format' = format /\ CurrentMessage' = NewMessage /\ NewMessage' = NULL
      BY <1>9 DEF ParseMessage
    <2>2. g = a /\ d = <<>>
      BY <1>1, <1>2, <1>3, <1>4, <2>1
    <2> QED
      BY <1>5, <2>2 DEF Params!Next
  <1>10. CASE CopyMessage
    <2>1. format' = format /\ CurrentMessage' = CurrentMessage
      BY <1>10 DEF CopyMessage
    <2>2. d = b /\ g = b
      BY <1>1, <1>2, <1>3, <1>10, <2>1, CopyMessageIs
    <2> QED
      BY <1>5, <2>2 DEF Params!Next
  <1>11. CASE ClearMessage
    <2>1. format' = format /\ CurrentMessage' = NULL /\ NewMessage' = NewMessage
      BY <1>11 DEF ClearMessage
    <2>2. g = <<>> /\ d = a
      BY <1>1, <1>2, <1>3, <1>4, <2>1
    <2> QED
      BY <1>5, <2>2 DEF Params!Next
  <1>12. ASSUME NEW code \in Code, GetParam(code) \/ GetNextParam(code)
         PROVE  d = a /\ g = b
    BY <1>1, <1>2, <1>3, <1>12 DEF GetParam, GetNextParam
  <1>13. CASE UNCHANGED vars
    BY <1>1, <1>2, <1>3, <1>13 DEF vars
  <1> QED
    BY <1>3, <1>6, <1>7, <1>8, <1>9, <1>10, <1>11, <1>12, <1>13 DEF Next

\* The bytes implement the sorted list.
THEOREM ListImplemented == Spec => ImplementsList
  <1>1. Init => Params!Init
    BY DEF Init, Params!Init, Decoded
  <1>2. MInv /\ [Next]_vars => [Params!Next]_<<Decoded(NewMessage), Decoded(CurrentMessage)>>
    BY ListStep
  <1> QED
    BY <1>1, <1>2, MInvAlways, PTL DEF Spec, ImplementsList, Params!Spec
====
