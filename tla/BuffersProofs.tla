--------------------------- MODULE BuffersProofs ---------------------------
(***************************************************************************)
(* Proofs about Buffers for any threads, buffers and sizes.                *)
(*                                                                         *)
(* The state has pointers, the properties speak of lists.  The invariant   *)
(* says of each class that there is a sequence, namely of the class's      *)
(* buffers in nobody's hands, along which QHead, BUFF_NEXT, QTail and the  *)
(* count agree; while a thread is between the two steps of PutOnTail, the  *)
(* last two are one behind.  Each operation takes the first element of     *)
(* the sequence or appends one, and the critical sections keep the others  *)
(* away (Exclusion).                                                       *)
(***************************************************************************)
EXTENDS Buffers, ProofLemmas

\* Places inside a critical section
Inside == {"unlink", "advance", "unlinked", "link", "extend", "linked"}

Types ==
    /\ QHead \in [Class -> Buffer \cup {NULL}]
    /\ QTail \in [Class -> Buffer \cup {NULL}]
    /\ BUFF_NEXT \in [Buffer -> Buffer \cup {NULL}]
    /\ FreeBufferCount \in [Class -> Nat]
    /\ owner \in [Class -> Thread \cup {NoThread}]
    /\ depth \in [Class -> Nat]
    /\ pc \in [Thread -> Labels]
    /\ class \in [Thread -> Class]
    /\ len \in [Thread -> Length \cup {0}]
    /\ info \in [Thread -> Buffer \cup {NULL}]
    /\ held \in [Thread -> SUBSET Buffer]
    /\ alive \in BOOLEAN

Exclusion ==
    /\ \A t \in Thread : pc[t] \in Inside => owner[class[t]] = t
    /\ \A c \in Class : owner[c] = NoThread <=> depth[c] = 0

\* What the threads hold, and what they are about to take or to put back
Hands ==
    /\ \A t, u \in Thread : \A b \in held[t] : b \in held[u] => t = u
    /\ \A t \in Thread : pc[t] = "advance" => info[t] = QHead[class[t]] /\ info[t] # NULL
    /\ \A t \in Thread :
          pc[t] \in {"put", "link"} =>
              info[t] \in held[t] /\ BUFF_CODE[info[t]] = class[t] /\ BUFF_NEXT[info[t]] = NULL

InHand(b) == \E t \in Thread : b \in held[t]

\* The pointers lead from QHead[c] along s, which has the class's buffers in nobody's hands.
Linked(s, c) ==
    /\ s \in Seq(Buffer)
    /\ Distinct(s)
    /\ QHead[c] = IF s = <<>> THEN NULL ELSE s[1]
    /\ \A i \in 1..Len(s) : BUFF_NEXT[s[i]] = IF i = Len(s) THEN NULL ELSE s[i + 1]
    /\ \A b \in Buffer : b \in ToSet(s) <=> BUFF_CODE[b] = c /\ ~InHand(b)

Extends(t, c) == pc[t] = "extend" /\ class[t] = c

\* QTail and the count are right, or one behind.
Ended(s, c) ==
    /\ (\A t \in Thread : ~Extends(t, c)) =>
          /\ FreeBufferCount[c] = Len(s)
          /\ QTail[c] = IF s = <<>> THEN NULL ELSE s[Len(s)]
    /\ \A t \in Thread :
          Extends(t, c) =>
              /\ s # <<>>
              /\ info[t] = s[Len(s)]
              /\ FreeBufferCount[c] = Len(s) - 1

List(s, c) == Linked(s, c) /\ Ended(s, c)

Lists == \A c \in Class : \E s \in Seq(Buffer) : List(s, c)

BInv == Types /\ Exclusion /\ Hands /\ Lists

-----------------------------------------------------------------------------
(* Steps in general.                                                       *)

LEMMA Classes ==
  /\ ClassBufferNum \in Nat
  /\ Class \subseteq Nat
  /\ \A c \in Class : BuffersLength[c] \in Nat
  /\ \A b \in Buffer : BUFF_CODE[b] \in Class
  /\ NULL \notin Buffer
  /\ NoThread \notin Thread
  <1>1. ClassBufferNum \in Nat /\ \A c \in Class : BuffersLength[c] \in Nat
    BY BuffersAssumption, LenProperties, ElementOfSeq DEF ClassBufferNum, Class
  <1> QED
    BY <1>1, BuffersAssumption DEF Class

LEMMA Goes ==
  ASSUME Types, NEW t \in Thread, NEW label, Goto(t, label)
  PROVE  pc'[t] = label /\ \A u \in Thread : u # t => pc'[u] = pc[u]
  BY DEF Types, Goto

\* Two threads are never inside the same critical section.
LEMMA Alone ==
  ASSUME Types, Exclusion, NEW t \in Thread, NEW u \in Thread, u # t,
         pc[t] \in Inside, pc[u] \in Inside
  PROVE  class[t] # class[u]
  BY DEF Exclusion

\* A list of which a step changes nothing
LEMMA ListKept ==
  ASSUME NEW c \in Class, NEW s \in Seq(Buffer), List(s, c),
         QHead'[c] = QHead[c], QTail'[c] = QTail[c], FreeBufferCount'[c] = FreeBufferCount[c],
         \A b \in Buffer : b \in ToSet(s) => BUFF_NEXT'[b] = BUFF_NEXT[b],
         \A b \in Buffer : BUFF_CODE[b] = c => (InHand(b)' <=> InHand(b)),
         \A t \in Thread : Extends(t, c)' <=> Extends(t, c),
         \A t \in Thread : Extends(t, c) => info'[t] = info[t]
  PROVE  List(s, c)'
  <1>1. \A i \in 1..Len(s) : s[i] \in Buffer /\ s[i] \in ToSet(s)
    BY ToSetIs, ElementOfSeq
  <1>2. Linked(s, c)'
    BY <1>1 DEF List, Linked
  <1>3. Ended(s, c)'
    BY DEF List, Ended
  <1> QED
    BY <1>2, <1>3 DEF List

\* The list of a class as seen by a thread inside its critical section that is not
\* extending it
LEMMA ListInside ==
  ASSUME BInv, NEW t \in Thread, pc[t] \in Inside, pc[t] # "extend"
  PROVE  \A u \in Thread : ~Extends(u, class[t])
  BY Alone DEF BInv, Extends, Inside

\* A step that changes no list, and no hands
LEMMA ListsKept ==
  ASSUME Lists, UNCHANGED <<QHead, QTail, BUFF_NEXT, FreeBufferCount, held>>,
         \A t \in Thread : pc'[t] = "extend" <=> pc[t] = "extend",
         \A t \in Thread : pc[t] = "extend" => class'[t] = class[t] /\ info'[t] = info[t]
  PROVE  Lists'
  <1> SUFFICES ASSUME NEW c \in Class PROVE (\E s \in Seq(Buffer) : List(s, c))'
    BY DEF Lists
  <1>1. PICK s \in Seq(Buffer) : List(s, c)
    BY DEF Lists
  <1>2. \A b : InHand(b)' <=> InHand(b)
    BY DEF InHand
  <1>3. \A t \in Thread : Extends(t, c)' <=> Extends(t, c)
    BY DEF Extends
  <1>4. \A t \in Thread : Extends(t, c) => info'[t] = info[t]
    BY DEF Extends
  <1>5. List(s, c)'
    BY <1>1, <1>2, <1>3, <1>4, ListKept
  <1> QED
    BY <1>5

-----------------------------------------------------------------------------
(* The critical sections.                                                  *)

LEMMA LockBuffBInv ==
  ASSUME BInv, NEW t \in Thread, NEW from, NEW to, LockBuff(t, from, to),
         <<from, to>> \in {<<"get", "unlink">>, <<"put", "link">>}
  PROVE  BInv'
  <1> USE DEF BInv
  <1>1. /\ pc[t] = from
        /\ owner[class[t]] \in {NoThread, t}
        /\ owner' = [owner EXCEPT ![class[t]] = t]
        /\ depth' = [depth EXCEPT ![class[t]] = depth[class[t]] + 1]
        /\ pc' = [pc EXCEPT ![t] = to]
        /\ UNCHANGED <<QHead, QTail, BUFF_NEXT, FreeBufferCount, class, len, info, held, alive>>
    BY DEF LockBuff, At, Goto, lists, calls
  <1>2. /\ from \in {"get", "put"}
        /\ to \in {"unlink", "link"}
        /\ to = "link" => from = "put"
    OBVIOUS
  <1>3. pc'[t] = to /\ \A u \in Thread : u # t => pc'[u] = pc[u]
    BY <1>1 DEF Types
  <1>4. class[t] \in Class /\ depth[class[t]] \in Nat
    BY DEF Types
  <1>5. Types'
    <2>1. pc' \in [Thread -> Labels]
      BY <1>1, <1>2 DEF Types, Labels
    <2>2. owner' \in [Class -> Thread \cup {NoThread}] /\ depth' \in [Class -> Nat]
      BY <1>1, <1>4 DEF Types
    <2> QED
      BY <1>1, <2>1, <2>2 DEF Types
  <1>6. Exclusion'
    <2>1. \A u \in Thread : pc'[u] \in Inside => owner'[class'[u]] = u
      <3>1. \A u \in Thread : u # t /\ pc[u] \in Inside => class[u] # class[t]
        BY <1>1, Classes DEF Exclusion
      <3> QED
        BY <1>1, <1>3, <1>4, <3>1 DEF Exclusion, Types
    <2>2. \A c \in Class : owner'[c] = NoThread <=> depth'[c] = 0
      BY <1>1, <1>4, Classes DEF Exclusion, Types
    <2> QED
      BY <2>1, <2>2 DEF Exclusion
  <1>7. Hands'
    BY <1>1, <1>2, <1>3 DEF Hands
  <1>8. Lists'
    BY <1>1, <1>2, <1>3, ListsKept
  <1> QED
    BY <1>5, <1>6, <1>7, <1>8

LEMMA UnlockBuffBInv ==
  ASSUME BInv, NEW t \in Thread, NEW from \in {"unlinked", "linked"}, UnlockBuff(t, from)
  PROVE  BInv'
  <1> USE DEF BInv
  <1>1. /\ pc[t] = from
        /\ depth' = [depth EXCEPT ![class[t]] = depth[class[t]] - 1]
        /\ owner' = [owner EXCEPT ![class[t]] =
                        IF depth[class[t]] = 1 THEN NoThread ELSE owner[class[t]]]
        /\ pc' = [pc EXCEPT ![t] = "outside"]
        /\ UNCHANGED <<QHead, QTail, BUFF_NEXT, FreeBufferCount, class, len, info, held, alive>>
    BY DEF UnlockBuff, At, Goto, lists, calls
  <1>2. pc'[t] = "outside" /\ \A u \in Thread : u # t => pc'[u] = pc[u]
    BY <1>1 DEF Types
  <1>3. class[t] \in Class /\ pc[t] \in Inside /\ owner[class[t]] = t
    BY <1>1 DEF Types, Exclusion, Inside
  <1>4. depth[class[t]] \in Nat \ {0}
    BY <1>3, Classes DEF Exclusion, Types
  <1>5. Types'
    <2>1. pc' \in [Thread -> Labels]
      BY <1>1 DEF Types, Labels
    <2>2. owner' \in [Class -> Thread \cup {NoThread}] /\ depth' \in [Class -> Nat]
      BY <1>1, <1>4 DEF Types
    <2> QED
      BY <1>1, <2>1, <2>2 DEF Types
  <1>6. Exclusion'
    <2>1. \A u \in Thread : pc'[u] \in Inside => owner'[class'[u]] = u
      <3>1. \A u \in Thread : u # t /\ pc[u] \in Inside => class[u] # class[t]
        BY <1>3, Alone
      <3> QED
        BY <1>1, <1>2, <3>1 DEF Exclusion, Types, Inside
    <2>2. \A c \in Class : owner'[c] = NoThread <=> depth'[c] = 0
      BY <1>1, <1>3, <1>4, Classes DEF Exclusion, Types
    <2> QED
      BY <2>1, <2>2 DEF Exclusion
  <1>7. Hands'
    BY <1>1, <1>2 DEF Hands
  <1>8. Lists'
    BY <1>1, <1>2, ListsKept
  <1> QED
    BY <1>5, <1>6, <1>7, <1>8

-----------------------------------------------------------------------------
(* GetBuffer.                                                              *)

LEMMA FirstClassIs ==
  ASSUME NEW length \in Length
  PROVE  /\ FirstClass(length) \in Class
         /\ BuffersLength[FirstClass(length)] >= length
         /\ \A d \in Class : d < FirstClass(length) => BuffersLength[d] < length
  <1> DEFINE large == {c \in Class : BuffersLength[c] >= length}
  <1>1. ClassBufferNum \in Class /\ length \in Nat
    BY BuffersAssumption, EmptySeq, LenProperties DEF Class, ClassBufferNum
  <1>2. ClassBufferNum \in large /\ large \in SUBSET Nat
    BY <1>1, Classes, BuffersAssumption
  <1>3. Min(large) \in large /\ \A y \in large : Min(large) =< y
    BY <1>2, MinOfNats
  <1>4. \A d \in Class : d < Min(large) => BuffersLength[d] < length
    BY <1>1, <1>2, <1>3, Classes
  <1>5. \E c \in Class : /\ BuffersLength[c] >= length
                         /\ \A d \in Class : d < c => BuffersLength[d] < length
    BY <1>3, <1>4
  <1> QED
    BY <1>5 DEF FirstClass

LEMMA GetBufferBInv ==
  ASSUME BInv, NEW t \in Thread, NEW length \in Length, GetBuffer(t, length)
  PROVE  BInv'
  <1> USE DEF BInv
  <1>1. /\ pc[t] = "outside"
        /\ class' = [class EXCEPT ![t] = FirstClass(length)]
        /\ len' = [len EXCEPT ![t] = length]
        /\ pc' = [pc EXCEPT ![t] = "get"]
        /\ UNCHANGED <<QHead, QTail, BUFF_NEXT, FreeBufferCount, owner, depth, info, held, alive>>
    BY DEF GetBuffer, At, Goto, lists, locks
  <1>2. pc'[t] = "get" /\ \A u \in Thread : u # t => pc'[u] = pc[u] /\ class'[u] = class[u]
    BY <1>1 DEF Types
  <1>3. Types'
    <2>1. pc' \in [Thread -> Labels]
      BY <1>1 DEF Types, Labels
    <2>2. class' \in [Thread -> Class] /\ len' \in [Thread -> Length \cup {0}]
      BY <1>1, FirstClassIs DEF Types
    <2> QED
      BY <1>1, <2>1, <2>2 DEF Types
  <1>4. Exclusion'
    BY <1>1, <1>2 DEF Exclusion, Inside
  <1>5. Hands'
    BY <1>1, <1>2 DEF Hands
  <1>6. Lists'
    BY <1>1, <1>2, ListsKept
  <1> QED
    BY <1>3, <1>4, <1>5, <1>6

LEMMA ReadsHeadBInv ==
  ASSUME BInv, NEW t \in Thread, ReadsHead(t)
  PROVE  BInv'
  <1> USE DEF BInv
  <1>1. /\ pc[t] = "unlink"
        /\ QHead[class[t]] # NULL
        /\ info' = [info EXCEPT ![t] = QHead[class[t]]]
        /\ pc' = [pc EXCEPT ![t] = "advance"]
        /\ UNCHANGED <<QHead, QTail, BUFF_NEXT, FreeBufferCount, owner, depth, class, len, held, alive>>
    BY DEF ReadsHead, At, Goto, lists, locks
  <1>2. /\ pc'[t] = "advance" /\ info'[t] = QHead[class[t]]
        /\ \A u \in Thread : u # t => pc'[u] = pc[u] /\ info'[u] = info[u]
    BY <1>1 DEF Types
  <1>3. Types'
    <2>1. pc' \in [Thread -> Labels]
      BY <1>1 DEF Types, Labels
    <2>2. info' \in [Thread -> Buffer \cup {NULL}]
      BY <1>1 DEF Types
    <2> QED
      BY <1>1, <2>1, <2>2 DEF Types
  <1>4. Exclusion'
    BY <1>1, <1>2 DEF Exclusion, Inside
  <1>5. Hands'
    BY <1>1, <1>2 DEF Hands
  <1>6. Lists'
    BY <1>1, <1>2, ListsKept
  <1> QED
    BY <1>3, <1>4, <1>5, <1>6

LEMMA TriesNextClassBInv ==
  ASSUME BInv, NEW t \in Thread, TriesNextClass(t)
  PROVE  BInv'
  <1> USE DEF BInv
  <1>1. /\ pc[t] = "unlink"
        /\ class[t] < ClassBufferNum
        /\ class' = [class EXCEPT ![t] = class[t] + 1]
        /\ pc' = [pc EXCEPT ![t] = "get"]
        /\ UNCHANGED <<QHead, QTail, BUFF_NEXT, FreeBufferCount, owner, depth, len, info, held, alive>>
    BY DEF TriesNextClass, At, Goto, lists, locks
  <1>2. pc'[t] = "get" /\ \A u \in Thread : u # t => pc'[u] = pc[u] /\ class'[u] = class[u]
    BY <1>1 DEF Types
  <1>3. Types'
    <2>1. pc' \in [Thread -> Labels]
      BY <1>1 DEF Types, Labels
    <2>2. class[t] + 1 \in Class
      BY <1>1, Classes DEF Types, Class
    <2>3. class' \in [Thread -> Class]
      BY <1>1, <2>2 DEF Types
    <2> QED
      BY <1>1, <2>1, <2>3 DEF Types
  <1>4. Exclusion'
    BY <1>1, <1>2 DEF Exclusion, Inside
  <1>5. Hands'
    BY <1>1, <1>2 DEF Hands
  <1>6. Lists'
    BY <1>1, <1>2, ListsKept
  <1> QED
    BY <1>3, <1>4, <1>5, <1>6

LEMMA TerminatesBInv ==
  ASSUME BInv, NEW t \in Thread, Terminates(t)
  PROVE  BInv'
  <1> USE DEF BInv
  <1>1. /\ alive' = FALSE
        /\ UNCHANGED <<QHead, QTail, BUFF_NEXT, FreeBufferCount, owner, depth, pc, class, len, info, held>>
    BY DEF Terminates, lists, locks, calls
  <1>2. Types' /\ Exclusion' /\ Hands'
    BY <1>1 DEF Types, Exclusion, Hands
  <1>3. Lists'
    BY <1>1, ListsKept
  <1> QED
    BY <1>2, <1>3

\* The caller takes the first element of the sequence.
LEMMA GetFromHeadBInv ==
  ASSUME BInv, NEW t \in Thread, GetFromHead(t)
  PROVE  BInv'
  <1> USE DEF BInv
  <1>0. PICK c, b : c = class[t] /\ b = info[t]
    OBVIOUS
  <1>1. /\ pc[t] = "advance"
        /\ QHead' = [QHead EXCEPT ![c] = BUFF_NEXT[b]]
        /\ QTail' = [QTail EXCEPT ![c] = IF BUFF_NEXT[b] = NULL THEN NULL ELSE QTail[c]]
        /\ FreeBufferCount' = [FreeBufferCount EXCEPT ![c] = FreeBufferCount[c] - 1]
        /\ held' = [held EXCEPT ![t] = held[t] \cup {b}]
        /\ pc' = [pc EXCEPT ![t] = "unlinked"]
        /\ UNCHANGED <<BUFF_NEXT, owner, depth, class, len, info, alive>>
    BY <1>0 DEF GetFromHead, At, Goto, locks, calls
  <1>2. pc'[t] = "unlinked" /\ \A u \in Thread : u # t => pc'[u] = pc[u]
    BY <1>1 DEF Types
  <1>3. c \in Class /\ b = QHead[c] /\ b \in Buffer /\ b # NULL
    BY <1>0, <1>1 DEF Types, Hands
  <1>4. PICK s \in Seq(Buffer) : List(s, c)
    BY <1>3 DEF Lists
  <1>5. /\ s # <<>> /\ s[1] = b /\ b \in ToSet(s) /\ Head(s) = b
        /\ Len(s) \in Nat \ {0}
        /\ Distinct(s)
        /\ ~InHand(b) /\ BUFF_CODE[b] = c
    <2>1. s # <<>> /\ s[1] = b /\ Distinct(s)
      BY <1>3, <1>4 DEF List, Linked
    <2>2. Len(s) \in Nat \ {0} /\ Head(s) = s[1]
      BY <2>1
    <2>3. b \in ToSet(s)
      BY <2>1, <2>2, ToSetIs
    <2> QED
      BY <1>3, <1>4, <2>1, <2>2, <2>3 DEF List, Linked
  <1>6. \A u \in Thread : ~Extends(u, c)
    BY <1>0, <1>1, ListInside DEF Inside
  <1>7. FreeBufferCount[c] = Len(s) /\ QTail[c] = s[Len(s)]
    BY <1>4, <1>5, <1>6 DEF List, Ended
  <1>8. \A x : InHand(x)' <=> InHand(x) \/ x = b
    BY <1>1 DEF InHand, Types
  <1>9. Types'
    <2>1. pc' \in [Thread -> Labels]
      BY <1>1 DEF Types, Labels
    <2>2. /\ QHead' \in [Class -> Buffer \cup {NULL}]
          /\ QTail' \in [Class -> Buffer \cup {NULL}]
          /\ held' \in [Thread -> SUBSET Buffer]
      BY <1>1, <1>3 DEF Types
    <2>3. FreeBufferCount[c] - 1 \in Nat
      BY <1>5, <1>7
    <2>4. FreeBufferCount' \in [Class -> Nat]
      BY <1>1, <2>3 DEF Types
    <2> QED
      BY <1>1, <2>1, <2>2, <2>4 DEF Types
  <1>10. Exclusion'
    BY <1>1, <1>2 DEF Exclusion, Inside
  <1>11. Hands'
    <2>1. \A u \in Thread : u # t => held'[u] = held[u] /\ b \notin held[u]
      BY <1>1, <1>5 DEF Types, InHand
    <2>2. held'[t] = held[t] \cup {b}
      BY <1>1 DEF Types
    <2>3. \A u, v \in Thread : \A x \in held'[u] : x \in held'[v] => u = v
      BY <2>1, <2>2 DEF Hands
    <2>4. \A u \in Thread : pc'[u] = "advance" => class[u] # c
      BY <1>0, <1>1, <1>2, Alone DEF Inside
    <2>5. \A u \in Thread : pc'[u] = "advance" => info[u] = QHead'[class[u]] /\ info[u] # NULL
      BY <1>1, <1>2, <2>4 DEF Hands, Types
    <2>6. \A u \in Thread :
              pc'[u] \in {"put", "link"} =>
                  info[u] \in held'[u] /\ BUFF_CODE[info[u]] = class[u] /\ BUFF_NEXT[info[u]] = NULL
      BY <1>2, <2>1 DEF Hands
    <2> QED
      BY <1>1, <2>3, <2>5, <2>6 DEF Hands
  <1>12. Lists'
    <2> SUFFICES ASSUME NEW d \in Class PROVE (\E r \in Seq(Buffer) : List(r, d))'
      BY DEF Lists
    <2>1. \A u \in Thread : Extends(u, d)' <=> Extends(u, d)
      BY <1>1, <1>2 DEF Extends
    <2>2. CASE d # c
      <3>1. PICK r \in Seq(Buffer) : List(r, d)
        BY DEF Lists
      <3>2. /\ QHead'[d] = QHead[d] /\ QTail'[d] = QTail[d]
            /\ FreeBufferCount'[d] = FreeBufferCount[d]
        BY <1>1, <2>2 DEF Types
      <3>3. \A x \in Buffer : BUFF_CODE[x] = d => (InHand(x)' <=> InHand(x))
        BY <1>5, <1>8, <2>2
      <3>4. List(r, d)'
        BY <1>1, <2>1, <3>1, <3>2, <3>3, ListKept
      <3> QED
        BY <3>4
    <2>3. CASE d = c
      <3>1. PICK r : r = Tail(s)
        OBVIOUS
      <3>2. /\ r \in Seq(Buffer) /\ Distinct(r)
            /\ ToSet(r) = ToSet(s) \ {b}
        BY <1>5, <3>1, TailDistinct
      <3>3. /\ Len(r) = Len(s) - 1
            /\ \A i \in 1..Len(r) : r[i] = s[i + 1]
            /\ r = <<>> <=> Len(s) = 1
        <4>1. Tail(s) \in Seq(Buffer) /\ Len(Tail(s)) = Len(s) - 1
          BY <1>5
        <4>2. \A i \in 1..(Len(s) - 1) : Tail(s)[i] = s[i + 1]
          BY <1>5
        <4>3. Tail(s) = <<>> <=> Len(Tail(s)) = 0
          BY <4>1, EmptySeq
        <4> QED
          BY <1>5, <3>1, <4>1, <4>2, <4>3
      <3>4. BUFF_NEXT[b] = IF r = <<>> THEN NULL ELSE r[1]
        <4>1. BUFF_NEXT[b] = IF 1 = Len(s) THEN NULL ELSE s[2]
          <5>1. 1 \in 1..Len(s) /\ 1 + 1 = 2
            BY <1>5
          <5>2. BUFF_NEXT[s[1]] = IF 1 = Len(s) THEN NULL ELSE s[1 + 1]
            BY <1>4, <5>1, Zenon DEF List, Linked
          <5> QED
            BY <1>5, <5>1, <5>2
        <4>2. r # <<>> => r[1] = s[2]
          BY <1>5, <3>3
        <4> QED
          BY <1>5, <3>3, <4>1, <4>2
      <3>5. QHead'[c] = IF r = <<>> THEN NULL ELSE r[1]
        BY <1>1, <1>3, <3>4 DEF Types
      <3>6. \A i \in 1..Len(r) : BUFF_NEXT[r[i]] = IF i = Len(r) THEN NULL ELSE r[i + 1]
        <4>1. ASSUME NEW i \in 1..Len(r)
              PROVE  BUFF_NEXT[r[i]] = IF i = Len(r) THEN NULL ELSE r[i + 1]
          <5>1. i + 1 \in 1..Len(s) /\ (i = Len(r) <=> i + 1 = Len(s))
            BY <1>5, <3>3
          <5>2. BUFF_NEXT[s[i + 1]] = IF i + 1 = Len(s) THEN NULL ELSE s[i + 2]
            BY <1>4, <5>1 DEF List, Linked
          <5>3. i # Len(r) => r[i + 1] = s[i + 2]
            BY <1>5, <3>3, <5>1
          <5> QED
            BY <3>3, <5>1, <5>2, <5>3
        <4> QED
          BY <4>1
      <3>7. \A x \in Buffer : x \in ToSet(r) <=> BUFF_CODE[x] = c /\ ~InHand(x)'
        BY <1>4, <1>8, <3>2 DEF List, Linked
      <3>8. Linked(r, c)'
        BY <1>1, <3>2, <3>5, <3>6, <3>7 DEF Linked
      <3>9. r # <<>> => r[Len(r)] = s[Len(s)] /\ s[Len(s)] # NULL /\ r[1] # NULL
        BY <1>5, <3>2, <3>3, ElementOfSeq, Classes
      <3>10. QTail'[c] = IF r = <<>> THEN NULL ELSE r[Len(r)]
        BY <1>1, <1>3, <1>7, <3>4, <3>9 DEF Types
      <3>11. FreeBufferCount'[c] = Len(r)
        BY <1>1, <1>3, <1>7, <3>3 DEF Types
      <3>12. Ended(r, c)'
        BY <1>6, <2>1, <2>3, <3>10, <3>11 DEF Ended
      <3> QED
        BY <2>3, <3>2, <3>8, <3>12 DEF List
    <2> QED
      BY <2>2, <2>3
  <1> QED
    BY <1>9, <1>10, <1>11, <1>12

-----------------------------------------------------------------------------
(* RetBuffer.                                                              *)

LEMMA RetBufferBInv ==
  ASSUME BInv, NEW t \in Thread, NEW b \in Buffer, RetBuffer(t, b)
  PROVE  BInv'
  <1> USE DEF BInv
  <1>1. /\ pc[t] = "outside"
        /\ b \in held[t]
        /\ class' = [class EXCEPT ![t] = BUFF_CODE[b]]
        /\ info' = [info EXCEPT ![t] = b]
        /\ BUFF_NEXT' = [BUFF_NEXT EXCEPT ![b] = NULL]
        /\ pc' = [pc EXCEPT ![t] = "put"]
        /\ UNCHANGED <<QHead, QTail, FreeBufferCount, owner, depth, len, held, alive>>
    BY DEF RetBuffer, At, Goto, locks
  <1>2. /\ pc'[t] = "put" /\ class'[t] = BUFF_CODE[b] /\ info'[t] = b
        /\ \A u \in Thread : u # t => pc'[u] = pc[u] /\ class'[u] = class[u] /\ info'[u] = info[u]
    BY <1>1 DEF Types
  <1>3. BUFF_NEXT'[b] = NULL /\ \A x \in Buffer : x # b => BUFF_NEXT'[x] = BUFF_NEXT[x]
    BY <1>1 DEF Types
  <1>4. Types'
    <2>1. pc' \in [Thread -> Labels]
      BY <1>1 DEF Types, Labels
    <2>2. class' \in [Thread -> Class]
      BY <1>1, Classes DEF Types
    <2>3. info' \in [Thread -> Buffer \cup {NULL}] /\ BUFF_NEXT' \in [Buffer -> Buffer \cup {NULL}]
      BY <1>1 DEF Types
    <2> QED
      BY <1>1, <2>1, <2>2, <2>3 DEF Types
  <1>5. Exclusion'
    BY <1>1, <1>2 DEF Exclusion, Inside
  <1>6. Hands'
    <2>1. \A u \in Thread : pc'[u] = "advance" => info'[u] = QHead[class'[u]] /\ info'[u] # NULL
      BY <1>2 DEF Hands
    <2>2. \A u \in Thread :
              pc'[u] \in {"put", "link"} =>
                  info'[u] \in held[u] /\ BUFF_CODE[info'[u]] = class'[u] /\ BUFF_NEXT'[info'[u]] = NULL
      <3>1. \A u \in Thread : held[u] \subseteq Buffer
        BY DEF Types
      <3> QED
        BY <1>1, <1>2, <1>3, <3>1 DEF Hands
    <2>3. \A u, v \in Thread : \A x \in held[u] : x \in held[v] => u = v
      BY DEF Hands
    <2> QED
      BY <1>1, <2>1, <2>2, <2>3 DEF Hands
  <1>7. Lists'
    <2> SUFFICES ASSUME NEW c \in Class PROVE (\E s \in Seq(Buffer) : List(s, c))'
      BY DEF Lists
    <2>1. PICK s \in Seq(Buffer) : List(s, c)
      BY DEF Lists
    <2>2. b \notin ToSet(s)
      BY <1>1, <2>1 DEF List, Linked, InHand
    <2>3. \A x \in Buffer : x \in ToSet(s) => BUFF_NEXT'[x] = BUFF_NEXT[x]
      BY <1>3, <2>2
    <2>4. \A x : InHand(x)' <=> InHand(x)
      BY <1>1 DEF InHand
    <2>5. \A u \in Thread : Extends(u, c)' <=> Extends(u, c)
      BY <1>1, <1>2 DEF Extends
    <2>6. \A u \in Thread : Extends(u, c) => info'[u] = info[u]
      BY <1>1, <1>2 DEF Extends
    <2>7. List(s, c)'
      BY <1>1, <2>1, <2>3, <2>4, <2>5, <2>6, ListKept
    <2> QED
      BY <2>7
  <1> QED
    BY <1>4, <1>5, <1>6, <1>7

\* The buffer becomes the last element of the sequence; QTail follows in PutOnTail.
LEMMA LinksLastBInv ==
  ASSUME BInv, NEW t \in Thread, LinksLast(t)
  PROVE  BInv'
  <1> USE DEF BInv
  <1>0. PICK c, b : c = class[t] /\ b = info[t]
    OBVIOUS
  <1>1. /\ pc[t] = "link"
        /\ QTail[c] = NULL => QHead' = [QHead EXCEPT ![c] = b] /\ BUFF_NEXT' = BUFF_NEXT
        /\ QTail[c] # NULL => BUFF_NEXT' = [BUFF_NEXT EXCEPT ![QTail[c]] = b] /\ QHead' = QHead
        /\ held' = [held EXCEPT ![t] = held[t] \ {b}]
        /\ pc' = [pc EXCEPT ![t] = "extend"]
        /\ UNCHANGED <<QTail, FreeBufferCount, owner, depth, class, len, info, alive>>
    BY <1>0 DEF LinksLast, At, Goto, locks, calls
  <1>2. pc'[t] = "extend" /\ \A u \in Thread : u # t => pc'[u] = pc[u]
    BY <1>1 DEF Types
  <1>3. /\ c \in Class /\ b \in held[t] /\ b \in Buffer
        /\ BUFF_CODE[b] = c /\ BUFF_NEXT[b] = NULL
    BY <1>0, <1>1 DEF Types, Hands
  <1>4. PICK s \in Seq(Buffer) : List(s, c)
    BY <1>3 DEF Lists
  <1>5. /\ Distinct(s) /\ Len(s) \in Nat
        /\ b \notin ToSet(s)
        /\ \A i \in 1..Len(s) : s[i] \in ToSet(s) /\ s[i] \in Buffer /\ s[i] # NULL
    <2>1. \A i \in 1..Len(s) : s[i] \in ToSet(s) /\ s[i] \in Buffer /\ s[i] # NULL
      BY ToSetIs, ElementOfSeq, Classes
    <2> QED
      BY <1>3, <1>4, <2>1 DEF List, Linked, InHand
  <1>6. \A u \in Thread : ~Extends(u, c)
    BY <1>0, <1>1, ListInside DEF Inside
  <1>7. FreeBufferCount[c] = Len(s) /\ QTail[c] = IF s = <<>> THEN NULL ELSE s[Len(s)]
    BY <1>4, <1>6 DEF List, Ended
  <1>8. s = <<>> <=> QTail[c] = NULL
    <2>1. s # <<>> => Len(s) \in 1..Len(s)
      BY <1>5
    <2> QED
      BY <1>5, <1>7, <2>1
  <1>9. /\ held'[t] = held[t] \ {b}
        /\ \A u \in Thread : u # t => held'[u] = held[u] /\ b \notin held[u]
    BY <1>1, <1>3 DEF Types, Hands
  <1>10. \A x : InHand(x)' <=> InHand(x) /\ x # b
    BY <1>9 DEF InHand
  <1>11. /\ QHead'[c] = IF s = <<>> THEN b ELSE QHead[c]
         /\ \A d \in Class : d # c => QHead'[d] = QHead[d]
         /\ QHead' \in [Class -> Buffer \cup {NULL}]
    <2>0. QHead \in [Class -> Buffer \cup {NULL}]
      BY DEF Types
    <2>1. CASE s = <<>>
      <3>1. QHead' = [QHead EXCEPT ![c] = b]
        BY <1>1, <1>8, <2>1
      <3> QED
        BY <1>3, <2>0, <2>1, <3>1
    <2>2. CASE s # <<>>
      <3>1. QHead' = QHead
        BY <1>1, <1>8, <2>2
      <3> QED
        BY <2>0, <2>2, <3>1
    <2> QED
      BY <2>1, <2>2
  <1>12. /\ s # <<>> => BUFF_NEXT'[s[Len(s)]] = b
         /\ \A x \in Buffer : (s = <<>> \/ x # s[Len(s)]) => BUFF_NEXT'[x] = BUFF_NEXT[x]
         /\ BUFF_NEXT' \in [Buffer -> Buffer \cup {NULL}]
    <2>1. CASE s = <<>>
      BY <1>1, <1>8, <2>1 DEF Types
    <2>2. CASE s # <<>>
      <3>1. QTail[c] = s[Len(s)] /\ s[Len(s)] \in Buffer
        <4>1. Len(s) \in 1..Len(s)
          BY <1>5, <2>2
        <4> QED
          BY <1>5, <1>7, <2>2, <4>1
      <3>2. BUFF_NEXT' = [BUFF_NEXT EXCEPT ![s[Len(s)]] = b]
        BY <1>1, <1>8, <2>2, <3>1
      <3> QED
        BY <1>3, <2>2, <3>1, <3>2 DEF Types
    <2> QED
      BY <2>1, <2>2
  <1>13. \A x \in Buffer : (BUFF_CODE[x] # c \/ InHand(x)) => BUFF_NEXT'[x] = BUFF_NEXT[x]
    <2>1. s # <<>> => BUFF_CODE[s[Len(s)]] = c /\ ~InHand(s[Len(s)])
      <3>1. s # <<>> => s[Len(s)] \in ToSet(s) /\ s[Len(s)] \in Buffer
        <4>1. s # <<>> => Len(s) \in 1..Len(s)
          BY <1>5
        <4> QED
          BY <1>5, <4>1
      <3> QED
        BY <1>4, <3>1 DEF List, Linked
    <2> QED
      BY <1>12, <2>1
  <1>14. Types'
    <2>1. pc' \in [Thread -> Labels]
      BY <1>1 DEF Types, Labels
    <2>2. held' \in [Thread -> SUBSET Buffer]
      BY <1>1 DEF Types
    <2> QED
      BY <1>1, <1>11, <1>12, <2>1, <2>2 DEF Types
  <1>15. Exclusion'
    BY <1>1, <1>2 DEF Exclusion, Inside
  <1>16. Hands'
    <2>1. \A u, v \in Thread : \A x \in held'[u] : x \in held'[v] => u = v
      BY <1>9 DEF Hands
    <2>2. \A u \in Thread : pc'[u] = "advance" => class[u] # c
      BY <1>0, <1>1, <1>2, Alone DEF Inside
    <2>3. \A u \in Thread : pc'[u] = "advance" => info[u] = QHead'[class[u]] /\ info[u] # NULL
      BY <1>2, <1>11, <2>2 DEF Hands, Types
    <2>4. \A u \in Thread :
              pc'[u] \in {"put", "link"} =>
                  info[u] \in held'[u] /\ BUFF_CODE[info[u]] = class[u] /\ BUFF_NEXT'[info[u]] = NULL
      <3> SUFFICES ASSUME NEW u \in Thread, pc'[u] \in {"put", "link"}
                   PROVE  /\ info[u] \in held'[u]
                          /\ BUFF_CODE[info[u]] = class[u]
                          /\ BUFF_NEXT'[info[u]] = NULL
        OBVIOUS
      <3>1. u # t /\ pc[u] \in {"put", "link"}
        BY <1>2
      <3>2. /\ info[u] \in held[u] /\ info[u] \in Buffer
            /\ BUFF_CODE[info[u]] = class[u] /\ BUFF_NEXT[info[u]] = NULL
        BY <3>1 DEF Hands, Types
      <3>3. BUFF_NEXT'[info[u]] = BUFF_NEXT[info[u]]
        BY <1>13, <3>2 DEF InHand
      <3> QED
        BY <1>9, <3>1, <3>2, <3>3
    <2> QED
      BY <1>1, <2>1, <2>3, <2>4 DEF Hands
  <1>17. Lists'
    <2> SUFFICES ASSUME NEW d \in Class PROVE (\E r \in Seq(Buffer) : List(r, d))'
      BY DEF Lists
    <2>1. CASE d # c
      <3>1. PICK r \in Seq(Buffer) : List(r, d)
        BY DEF Lists
      <3>2. \A u \in Thread : Extends(u, d)' <=> Extends(u, d)
        BY <1>0, <1>1, <1>2, <2>1 DEF Extends
      <3>3. \A x \in Buffer : x \in ToSet(r) => BUFF_NEXT'[x] = BUFF_NEXT[x]
        BY <1>13, <2>1, <3>1 DEF List, Linked
      <3>4. \A x \in Buffer : BUFF_CODE[x] = d => (InHand(x)' <=> InHand(x))
        BY <1>3, <1>10, <2>1
      <3>5. List(r, d)'
        BY <1>1, <1>11, <2>1, <3>1, <3>2, <3>3, <3>4, ListKept
      <3> QED
        BY <3>5
    <2>2. CASE d = c
      <3>1. PICK r : r = Append(s, b)
        OBVIOUS
      <3>2. /\ r \in Seq(Buffer) /\ Distinct(r) /\ r # <<>>
            /\ ToSet(r) = ToSet(s) \cup {b}
        BY <1>3, <1>5, <3>1, AppendDistinct
      <3>3. /\ Len(r) = Len(s) + 1
            /\ r[Len(s) + 1] = b
            /\ \A i \in 1..Len(s) : r[i] = s[i]
        BY <1>3, <3>1
      <3>4. QHead'[c] = r[1]
        <4>1. CASE s = <<>>
          <5>1. Len(s) = 0 /\ 0 + 1 = 1
            BY <4>1
          <5> QED
            BY <1>11, <3>3, <4>1, <5>1
        <4>2. CASE s # <<>>
          <5>1. 1 \in 1..Len(s)
            BY <1>5, <4>2
          <5> QED
            BY <1>4, <1>11, <3>3, <4>2, <5>1 DEF List, Linked
        <4> QED
          BY <4>1, <4>2
      <3>5. ASSUME NEW i \in 1..Len(r)
            PROVE  BUFF_NEXT'[r[i]] = IF i = Len(r) THEN NULL ELSE r[i + 1]
        <4>1. CASE i = Len(s) + 1
          <5>1. s # <<>> => s[Len(s)] \in ToSet(s)
            <6>1. s # <<>> => Len(s) \in 1..Len(s)
              BY <1>5
            <6> QED
              BY <1>5, <6>1
          <5>2. BUFF_NEXT'[b] = NULL
            BY <1>3, <1>5, <1>12, <5>1
          <5> QED
            BY <3>3, <4>1, <5>2
        <4>2. CASE i # Len(s) + 1 /\ i = Len(s)
          <5>1. i \in 1..Len(s) /\ s # <<>>
            BY <1>5, <3>3, <4>2
          <5>2. r[i] = s[i] /\ r[i + 1] = b /\ i # Len(r)
            BY <3>3, <4>2, <5>1
          <5> QED
            BY <1>12, <4>2, <5>1, <5>2
        <4>3. CASE i # Len(s) + 1 /\ i # Len(s)
          <5>1. i \in 1..Len(s) /\ i + 1 \in 1..Len(s) /\ Len(s) \in 1..Len(s) /\ i # Len(r)
            BY <1>5, <3>3, <4>3
          <5>2. r[i] = s[i] /\ r[i + 1] = s[i + 1]
            BY <3>3, <5>1
          <5>3. s[i] # s[Len(s)]
            BY <1>5, <4>3, <5>1 DEF Distinct
          <5>4. BUFF_NEXT[s[i]] = s[i + 1]
            BY <1>4, <4>3, <5>1 DEF List, Linked
          <5> QED
            BY <1>5, <1>12, <5>1, <5>2, <5>3, <5>4
        <4> QED
          BY <4>1, <4>2, <4>3
      <3>6. \A x \in Buffer : x \in ToSet(r) <=> BUFF_CODE[x] = c /\ ~InHand(x)'
        BY <1>3, <1>4, <1>10, <3>2 DEF List, Linked
      <3>7. Linked(r, c)'
        BY <3>2, <3>4, <3>5, <3>6 DEF Linked
      <3>8. Extends(t, c)' /\ \A u \in Thread : Extends(u, c)' => u = t
        BY <1>0, <1>1, <1>2, <1>6 DEF Extends
      <3>9. b = r[Len(r)] /\ FreeBufferCount[c] = Len(r) - 1
        BY <1>5, <1>7, <3>3
      <3>10. Ended(r, c)'
        BY <1>0, <1>1, <3>2, <3>8, <3>9 DEF Ended
      <3> QED
        BY <2>2, <3>2, <3>7, <3>10 DEF List
    <2> QED
      BY <2>1, <2>2
  <1> QED
    BY <1>14, <1>15, <1>16, <1>17

LEMMA PutOnTailBInv ==
  ASSUME BInv, NEW t \in Thread, PutOnTail(t)
  PROVE  BInv'
  <1> USE DEF BInv
  <1>0. PICK c, b : c = class[t] /\ b = info[t]
    OBVIOUS
  <1>1. /\ pc[t] = "extend"
        /\ QTail' = [QTail EXCEPT ![c] = b]
        /\ FreeBufferCount' = [FreeBufferCount EXCEPT ![c] = FreeBufferCount[c] + 1]
        /\ pc' = [pc EXCEPT ![t] = "linked"]
        /\ UNCHANGED <<QHead, BUFF_NEXT, owner, depth, class, len, info, held, alive>>
    BY <1>0 DEF PutOnTail, At, Goto, locks, calls
  <1>2. pc'[t] = "linked" /\ \A u \in Thread : u # t => pc'[u] = pc[u]
    BY <1>1 DEF Types
  <1>3. c \in Class /\ b \in Buffer \cup {NULL} /\ Extends(t, c) /\ FreeBufferCount[c] \in Nat
    BY <1>0, <1>1 DEF Types, Extends
  <1>4. \A u \in Thread : Extends(u, c) => u = t
    BY <1>0, <1>1, Alone DEF Extends, Inside
  <1>5. Types'
    <2>1. pc' \in [Thread -> Labels]
      BY <1>1 DEF Types, Labels
    <2>2. QTail' \in [Class -> Buffer \cup {NULL}] /\ FreeBufferCount' \in [Class -> Nat]
      BY <1>1, <1>3 DEF Types
    <2> QED
      BY <1>1, <2>1, <2>2 DEF Types
  <1>6. Exclusion'
    BY <1>1, <1>2 DEF Exclusion, Inside
  <1>7. Hands'
    BY <1>1, <1>2 DEF Hands
  <1>8. Lists'
    <2> SUFFICES ASSUME NEW d \in Class PROVE (\E s \in Seq(Buffer) : List(s, d))'
      BY DEF Lists
    <2>1. PICK s \in Seq(Buffer) : List(s, d)
      BY DEF Lists
    <2>2. \A x : InHand(x)' <=> InHand(x)
      BY <1>1 DEF InHand
    <2>3. CASE d # c
      <3>1. \A u \in Thread : Extends(u, d)' <=> Extends(u, d)
        BY <1>0, <1>1, <1>2, <2>3 DEF Extends
      <3>2. QTail'[d] = QTail[d] /\ FreeBufferCount'[d] = FreeBufferCount[d]
        BY <1>1, <2>3 DEF Types
      <3>3. List(s, d)'
        BY <1>1, <2>1, <2>2, <3>1, <3>2, ListKept
      <3> QED
        BY <3>3
    <2>4. CASE d = c
      <3>1. s # <<>> /\ b = s[Len(s)] /\ FreeBufferCount[c] = Len(s) - 1 /\ Len(s) \in Nat
        BY <1>0, <1>3, <2>1, <2>4 DEF List, Ended
      <3>2. QTail'[c] = b /\ FreeBufferCount'[c] = Len(s)
        BY <1>1, <1>3, <3>1 DEF Types
      <3>3. \A u \in Thread : ~Extends(u, c)'
        BY <1>1, <1>2, <1>4 DEF Extends
      <3>4. Ended(s, c)'
        BY <3>1, <3>2, <3>3 DEF Ended
      <3>5. Linked(s, c)'
        BY <1>1, <2>1, <2>2, <2>4 DEF List, Linked
      <3> QED
        BY <2>4, <3>4, <3>5 DEF List
    <2> QED
      BY <2>3, <2>4
  <1> QED
    BY <1>5, <1>6, <1>7, <1>8

LEMMA HandOverBInv ==
  ASSUME BInv, NEW t \in Thread, NEW u \in Thread, NEW b \in Buffer, HandOver(t, u, b)
  PROVE  BInv'
  <1> USE DEF BInv
  <1>1. /\ pc[t] = "outside" /\ pc[u] = "outside" /\ u # t
        /\ b \in held[t]
        /\ held' = [held EXCEPT ![t] = held[t] \ {b}, ![u] = held[u] \cup {b}]
        /\ UNCHANGED <<QHead, QTail, BUFF_NEXT, FreeBufferCount, owner, depth, pc, class, len, info, alive>>
    BY DEF HandOver, At, lists, locks, calls
  <1>2. /\ held'[t] = held[t] \ {b} /\ held'[u] = held[u] \cup {b}
        /\ \A v \in Thread : v # t /\ v # u => held'[v] = held[v]
    BY <1>1 DEF Types
  <1>3. Types'
    <2>1. held' \in [Thread -> SUBSET Buffer]
      BY <1>1 DEF Types
    <2> QED
      BY <1>1, <2>1 DEF Types
  <1>4. Exclusion'
    BY <1>1 DEF Exclusion
  <1>5. Hands'
    <2>0. \A v \in Thread : v # t => b \notin held[v]
      BY <1>1 DEF Hands
    <2>1. \A v, w \in Thread : \A x \in held'[v] : x \in held'[w] => v = w
      <3> SUFFICES ASSUME NEW v \in Thread, NEW w \in Thread,
                          NEW x, x \in held'[v], x \in held'[w]
                   PROVE  v = w
        OBVIOUS
      <3>1. CASE x = b
        BY <1>2, <2>0, <3>1
      <3>2. CASE x # b
        BY <1>2, <3>2 DEF Hands
      <3> QED
        BY <3>1, <3>2
    <2>2. \A v \in Thread :
              pc[v] \in {"put", "link"} =>
                  info[v] \in held'[v] /\ BUFF_CODE[info[v]] = class[v] /\ BUFF_NEXT[info[v]] = NULL
      BY <1>1, <1>2 DEF Hands
    <2> QED
      BY <1>1, <2>1, <2>2 DEF Hands
  <1>6. Lists'
    <2> SUFFICES ASSUME NEW c \in Class PROVE (\E s \in Seq(Buffer) : List(s, c))'
      BY DEF Lists
    <2>1. PICK s \in Seq(Buffer) : List(s, c)
      BY DEF Lists
    <2>2. \A x : InHand(x)' <=> InHand(x)
      BY <1>1, <1>2 DEF InHand
    <2>3. \A v \in Thread : Extends(v, c)' <=> Extends(v, c)
      BY <1>1 DEF Extends
    <2>4. List(s, c)'
      BY <1>1, <2>1, <2>2, <2>3, ListKept
    <2> QED
      BY <2>4
  <1> QED
    BY <1>3, <1>4, <1>5, <1>6

-----------------------------------------------------------------------------
(* The invariant holds in every state.                                     *)

\* Of finitely many buffers there is a sequence without repetitions.
LEMMA OrderedIs ==
  ASSUME NEW c \in Class
  PROVE  LET s == Ordered(c)
             S == {b \in Buffer : BUFF_CODE[b] = c}
         IN  s \in Seq(Buffer) /\ Distinct(s) /\ s # <<>> /\ ToSet(s) = S
  <1> DEFINE S == {b \in Buffer : BUFF_CODE[b] = c}
             n == Cardinality(S)
             P(s) == s \in [1..n -> Buffer] /\ {s[i] : i \in DOMAIN s} = S
  <1>1. IsFiniteSet(S) /\ n \in Nat /\ S # {}
    <2>1. IsFiniteSet(S)
      BY BuffersAssumption, FS_Subset
    <2> QED
      BY <2>1, BuffersAssumption, FS_CardinalityType
  <1>2. PICK f : f \in Bijection(1..n, S)
    BY <1>1, FS_CardinalityType DEF ExistsBijection
  <1>3. P(f)
    BY <1>2 DEF Bijection, Injection, Surjection
  <1> HIDE DEF S, n
  <1>4. PICK s : s = Ordered(c)
    OBVIOUS
  <1>5. P(s)
    <2>1. \E q \in [1..n -> Buffer] : {q[i] : i \in DOMAIN q} = S
      BY <1>3
    <2>2. Ordered(c) = CHOOSE q \in [1..n -> Buffer] : {q[i] : i \in DOMAIN q} = S
      BY DEF Ordered, S, n
    <2> QED
      BY <1>4, <2>1, <2>2
  <1>6. s \in Seq(Buffer) /\ Len(s) = n /\ DOMAIN s = 1..n
    <2>1. s \in Seq(Buffer) /\ DOMAIN s = 1..n
      BY <1>1, <1>5, SeqDef
    <2> QED
      BY <1>1, <2>1, LenProperties
  <1>7. ToSet(s) = S
    BY <1>5, <1>6, ToSetIs
  <1>8. Distinct(s)
    <2>1. s \in Surjection(1..n, S)
      BY <1>5, <1>6 DEF Surjection
    <2>2. IsFiniteSet(1..n) /\ Cardinality(1..n) = n
      BY <1>1, FS_Interval
    <2>3. s \in Injection(1..n, S)
      BY <2>1, <2>2, FS_Surjection DEF n
    <2> QED
      BY <1>6, <2>3 DEF Distinct, Injection, IsInjective
  <1>9. s # <<>>
    BY <1>1, <1>6, <1>7, ToSetIs, EmptySeq
  <1> QED
    BY <1>4, <1>6, <1>7, <1>8, <1>9 DEF S

LEMMA InitBInv == Init => BInv
  <1> SUFFICES ASSUME Init PROVE BInv
    OBVIOUS
  <1> DEFINE S(c) == {b \in Buffer : BUFF_CODE[b] = c}
  <1>1. \A c \in Class : /\ Ordered(c) \in Seq(Buffer) /\ Distinct(Ordered(c))
                         /\ Ordered(c) # <<>> /\ ToSet(Ordered(c)) = S(c)
    BY OrderedIs
  <1>2. \A c \in Class : /\ Len(Ordered(c)) \in Nat \ {0}
                         /\ \A i \in 1..Len(Ordered(c)) : Ordered(c)[i] \in S(c)
    <2> SUFFICES ASSUME NEW c \in Class, NEW s, s = Ordered(c)
                 PROVE  /\ Len(s) \in Nat \ {0}
                        /\ \A i \in 1..Len(s) : s[i] \in S(c)
      OBVIOUS
    <2>1. s \in Seq(Buffer) /\ s # <<>> /\ ToSet(s) = S(c)
      BY <1>1
    <2> QED
      BY <2>1, ToSetIs
  <1>3. ASSUME NEW x \in Buffer
         PROVE  \E k \in 1..Len(Ordered(BUFF_CODE[x])) :
                    /\ Ordered(BUFF_CODE[x])[k] = x
                    /\ BUFF_NEXT[x] = IF k = Len(Ordered(BUFF_CODE[x]))
                                      THEN NULL
                                      ELSE Ordered(BUFF_CODE[x])[k + 1]
    <2> DEFINE q == Ordered(BUFF_CODE[x])
               j == CHOOSE k \in DOMAIN q : q[k] = x
    <2>1. BUFF_NEXT[x] = IF j = Len(q) THEN NULL ELSE q[j + 1]
      BY DEF Init
    <2>2. q \in Seq(Buffer) /\ x \in ToSet(q)
      BY <1>1, Classes
    <2>3. DOMAIN q = 1..Len(q) /\ \E k \in 1..Len(q) : q[k] = x
      <3> HIDE DEF q
      <3> QED
        BY <2>2, ToSetIs, LenProperties
    <2>4. j \in DOMAIN q /\ q[j] = x
      <3>1. \E k \in DOMAIN q : q[k] = x
        BY <2>3
      <3> HIDE DEF q
      <3> QED
        BY <3>1
    <2> HIDE DEF j
    <2> QED
      BY <2>1, <2>3, <2>4
  <1>4. \A c \in Class : \A i \in 1..Len(Ordered(c)) :
            BUFF_NEXT[Ordered(c)[i]] = IF i = Len(Ordered(c)) THEN NULL ELSE Ordered(c)[i + 1]
    <2> SUFFICES ASSUME NEW c \in Class, NEW i \in 1..Len(Ordered(c))
                 PROVE  BUFF_NEXT[Ordered(c)[i]] = IF i = Len(Ordered(c)) THEN NULL ELSE Ordered(c)[i + 1]
      OBVIOUS
    <2>1. PICK s, b : s = Ordered(c) /\ b = s[i]
      OBVIOUS
    <2>2. b \in Buffer /\ BUFF_CODE[b] = c
      BY <1>2, <2>1
    <2>3. PICK k \in 1..Len(s) : /\ s[k] = b
                                 /\ BUFF_NEXT[b] = IF k = Len(s) THEN NULL ELSE s[k + 1]
      BY <1>3, <2>1, <2>2
    <2>4. k = i
      BY <1>1, <2>1, <2>3 DEF Distinct
    <2> QED
      BY <2>1, <2>3, <2>4
  <1>5. Types
    <2>1. QHead \in [Class -> Buffer \cup {NULL}] /\ QTail \in [Class -> Buffer \cup {NULL}]
      <3>1. \A c \in Class : Ordered(c)[1] \in Buffer /\ Ordered(c)[Len(Ordered(c))] \in Buffer
        <4>1. \A c \in Class : 1 \in 1..Len(Ordered(c)) /\ Len(Ordered(c)) \in 1..Len(Ordered(c))
          BY <1>2
        <4> QED
          BY <1>2, <4>1
      <3> QED
        BY <3>1 DEF Init
    <2>2. BUFF_NEXT \in [Buffer -> Buffer \cup {NULL}]
      <3>1. ASSUME NEW b \in Buffer
            PROVE  BUFF_NEXT[b] \in Buffer \cup {NULL}
        <4>1. PICK c \in Class : c = BUFF_CODE[b]
          BY Classes
        <4>2. PICK s : s = Ordered(c)
          OBVIOUS
        <4>3. s \in Seq(Buffer) /\ b \in ToSet(s)
          BY <1>1, <4>1, <4>2
        <4>4. PICK i \in 1..Len(s) : b = s[i]
          BY <4>3, ToSetIs
        <4>5. BUFF_NEXT[b] = IF i = Len(s) THEN NULL ELSE s[i + 1]
          BY <1>4, <4>2, <4>4
        <4>6. i # Len(s) => s[i + 1] \in Buffer
          <5>1. i # Len(s) => i + 1 \in 1..Len(s)
            BY <4>3, <4>4
          <5> QED
            BY <4>3, <5>1, ElementOfSeq
        <4> QED
          BY <4>5, <4>6
      <3>2. BUFF_NEXT = [b \in Buffer |-> BUFF_NEXT[b]]
        BY DEF Init
      <3> QED
        BY <3>1, <3>2
    <2>3. FreeBufferCount \in [Class -> Nat]
      BY <1>2 DEF Init
    <2>4. 1 \in Class
      BY BuffersAssumption, EmptySeq, LenProperties DEF Class, ClassBufferNum
    <2> QED
      BY <2>1, <2>2, <2>3, <2>4 DEF Init, Types, Labels
  <1>6. Exclusion
    BY DEF Init, Exclusion, Inside
  <1>7. Hands
    BY DEF Init, Hands
  <1>8. Lists
    <2> SUFFICES ASSUME NEW c \in Class PROVE \E s \in Seq(Buffer) : List(s, c)
      BY DEF Lists
    <2>1. PICK s : s = Ordered(c)
      OBVIOUS
    <2>2. /\ s \in Seq(Buffer) /\ Distinct(s) /\ s # <<>>
          /\ \A b \in Buffer : b \in ToSet(s) <=> BUFF_CODE[b] = c
      BY <1>1, <2>1
    <2>3. \A b : ~InHand(b)
      BY DEF Init, InHand
    <2>4. QHead[c] = s[1] /\ QTail[c] = s[Len(s)] /\ FreeBufferCount[c] = Len(s)
      BY <2>1 DEF Init
    <2>5. \A i \in 1..Len(s) : BUFF_NEXT[s[i]] = IF i = Len(s) THEN NULL ELSE s[i + 1]
      BY <1>4, <2>1
    <2>6. Linked(s, c)
      BY <2>2, <2>3, <2>4, <2>5 DEF Linked
    <2>7. \A t \in Thread : ~Extends(t, c)
      BY DEF Init, Extends
    <2>8. Ended(s, c)
      BY <2>2, <2>4, <2>7 DEF Ended
    <2> QED
      BY <2>2, <2>6, <2>8 DEF List
  <1> QED
    BY <1>5, <1>6, <1>7, <1>8 DEF BInv

LEMMA NextBInv == BInv /\ [Next]_vars => BInv'
  <1> SUFFICES ASSUME BInv, [Next]_vars PROVE BInv'
    OBVIOUS
  <1>1. ASSUME NEW t \in Thread, CallStep(t) PROVE BInv'
    <2>1. CASE LockBuff(t, "get", "unlink")
      BY <2>1, LockBuffBInv
    <2>2. CASE ReadsHead(t)
      BY <2>2, ReadsHeadBInv
    <2>3. CASE GetFromHead(t)
      BY <2>3, GetFromHeadBInv
    <2>4. CASE TriesNextClass(t)
      BY <2>4, TriesNextClassBInv
    <2>5. CASE Terminates(t)
      BY <2>5, TerminatesBInv
    <2>6. CASE UnlockBuff(t, "unlinked")
      BY <2>6, UnlockBuffBInv
    <2>7. CASE LockBuff(t, "put", "link")
      BY <2>7, LockBuffBInv
    <2>8. CASE LinksLast(t)
      BY <2>8, LinksLastBInv
    <2>9. CASE PutOnTail(t)
      BY <2>9, PutOnTailBInv
    <2>10. CASE UnlockBuff(t, "linked")
      BY <2>10, UnlockBuffBInv
    <2> QED
      BY <1>1, <2>1, <2>2, <2>3, <2>4, <2>5, <2>6, <2>7, <2>8, <2>9, <2>10 DEF CallStep
  <1>2. ASSUME NEW t \in Thread, NEW length \in Length, GetBuffer(t, length) PROVE BInv'
    BY <1>2, GetBufferBInv
  <1>3. ASSUME NEW t \in Thread, NEW b \in Buffer, RetBuffer(t, b) PROVE BInv'
    BY <1>3, RetBufferBInv
  <1>4. ASSUME NEW t \in Thread, NEW u \in Thread, NEW b \in Buffer, HandOver(t, u, b) PROVE BInv'
    BY <1>4, HandOverBInv
  <1>5. CASE UNCHANGED vars
    <2>1. UNCHANGED <<QHead, QTail, BUFF_NEXT, FreeBufferCount, owner, depth, pc, class, len,
                      info, held, alive>>
      BY <1>5 DEF vars, lists, locks, calls
    <2>2. Types' /\ Exclusion' /\ Hands'
      BY <2>1 DEF BInv, Types, Exclusion, Hands
    <2>3. Lists'
      BY <2>1, ListsKept DEF BInv
    <2> QED
      BY <2>2, <2>3 DEF BInv
  <1> QED
    BY <1>1, <1>2, <1>3, <1>4, <1>5 DEF Next

\* The lists are linked as the invariant says, whatever the threads do.
THEOREM ListsInvariant == Spec => []BInv
  <1> QED
    BY InitBInv, NextBInv, PTL DEF Spec

-----------------------------------------------------------------------------
(* What the pointers of a list amount to.                                  *)

\* A list has as many buffers as places.
LEMMA ListLength ==
  ASSUME NEW s \in Seq(Buffer), Distinct(s)
  PROVE  /\ Len(s) \in 0..Cardinality(Buffer)
         /\ Cardinality(ToSet(s)) = Len(s)
         /\ Cardinality(Buffer) \in Nat
  BY BuffersAssumption, DistinctLength

\* Following the pointers from QHead visits the elements of the sequence.
LEMMA NthIs ==
  ASSUME NEW c \in Class, NEW s \in Seq(Buffer), Linked(s, c)
  PROVE  \A n \in 1..(Cardinality(Buffer) + 1) :
             Nth(c)[n] = IF n <= Len(s) THEN s[n] ELSE NULL
  <1> DEFINE D == 1..(Cardinality(Buffer) + 1)
             Step(f, n) == IF n = 1 THEN QHead[c]
                           ELSE IF f[n - 1] = NULL THEN NULL ELSE BUFF_NEXT[f[n - 1]]
             g == [n \in D |-> IF n <= Len(s) THEN s[n] ELSE NULL]
  <1>1. /\ D \subseteq Nat
        /\ \A n \in D : n # 1 => n - 1 \in D
        /\ \A n \in D : n > 0
    BY ListLength DEF Linked
  <1> HIDE DEF D
  <1>2. /\ Len(s) \in Nat
        /\ \A i \in 1..Len(s) : s[i] # NULL
        /\ s = <<>> <=> Len(s) = 0
    BY ElementOfSeq, Classes, EmptySeq
  <1>3. ASSUME NEW n \in D
        PROVE  g[n] = Step(g, n)
    <2>1. CASE n = 1
      BY <1>2, <2>1 DEF Linked
    <2>2. CASE n # 1 /\ n - 1 < Len(s)
      <3>1. n - 1 \in 1..Len(s) /\ n - 1 # Len(s) /\ n <= Len(s) /\ (n - 1) + 1 = n
        BY <1>1, <1>2, <2>2
      <3>2. g[n - 1] = s[n - 1] /\ g[n] = s[n]
        BY <1>1, <2>2, <3>1
      <3>3. BUFF_NEXT[s[n - 1]] = s[n]
        BY <3>1 DEF Linked
      <3> HIDE DEF g
      <3> QED
        BY <1>2, <2>2, <3>1, <3>2, <3>3
    <2>3. CASE n # 1 /\ n - 1 = Len(s)
      <3>1. n - 1 \in 1..Len(s) /\ ~ (n <= Len(s))
        BY <1>1, <1>2, <2>3
      <3>2. g[n - 1] = s[n - 1] /\ g[n] = NULL
        BY <1>1, <2>3, <3>1
      <3>3. BUFF_NEXT[s[n - 1]] = NULL
        BY <2>3, <3>1 DEF Linked
      <3> HIDE DEF g
      <3> QED
        BY <1>2, <2>3, <3>1, <3>2, <3>3
    <2>4. CASE n # 1 /\ n - 1 > Len(s)
      <3>1. g[n - 1] = NULL /\ g[n] = NULL
        BY <1>1, <1>2, <2>4
      <3> HIDE DEF g
      <3> QED
        BY <2>4, <3>1
    <2> QED
      BY <1>1, <1>2, <2>1, <2>2, <2>3, <2>4
  <1>4. g = [n \in D |-> Step(g, n)]
    <2>1. g = [n \in D |-> g[n]]
      OBVIOUS
    <2> HIDE DEF g
    <2> QED
      BY <1>3, <2>1
  <1>5. Nth(c) = CHOOSE f : f = [n \in D |-> Step(f, n)]
    BY DEF Nth, D
  <1>6. Nth(c) = [n \in D |-> Step(Nth(c), n)]
    <2> DEFINE Solves(f) == f = [n \in D |-> Step(f, n)]
    <2>1. Solves(g)
      BY <1>4
    <2>2. Nth(c) = CHOOSE f : Solves(f)
      BY <1>5
    <2> HIDE DEF Solves, g
    <2>3. Solves(CHOOSE f : Solves(f))
      BY <2>1
    <2>4. Solves(Nth(c))
      BY <2>2, <2>3
    <2> QED
      BY <2>4 DEF Solves
  <1> DEFINE Bad == {n \in D : Nth(c)[n] # g[n]}
  <1>7. \A n \in D : Nth(c)[n] = Step(Nth(c), n)
    BY <1>6
  <1> HIDE DEF g
  <1>8. Bad = {}
    <2> SUFFICES ASSUME Bad # {} PROVE FALSE
      OBVIOUS
    <2>1. PICK n \in Bad : \A m \in Bad : n =< m
      BY <1>1, MinOfNats
    <2>2. n \in D /\ n \in Nat
      BY <1>1
    <2>3. CASE n = 1
      BY <1>3, <1>7, <2>2, <2>3
    <2>4. CASE n # 1
      <3>1. n - 1 \in D /\ n - 1 < n /\ n - 1 \in Nat
        BY <1>1, <2>2, <2>4
      <3>2. n - 1 \notin Bad
        BY <2>1, <2>2, <3>1
      <3>3. Nth(c)[n - 1] = g[n - 1]
        BY <3>1, <3>2
      <3> QED
        BY <1>3, <1>7, <2>2, <3>3
    <2> QED
      BY <2>3, <2>4
  <1> QED
    BY <1>8 DEF D, g

LEMMA InListIs ==
  ASSUME NEW c \in Class, NEW s \in Seq(Buffer), Linked(s, c)
  PROVE  InList(c) = ToSet(s)
  <1>1. /\ Len(s) \in 0..Cardinality(Buffer) /\ Cardinality(Buffer) \in Nat
        /\ ToSet(s) = {s[i] : i \in 1..Len(s)}
        /\ \A i \in 1..Len(s) : s[i] # NULL
    BY ListLength, ToSetIs, ElementOfSeq, Classes DEF Linked
  <1>2. ASSUME NEW n \in 1..Cardinality(Buffer)
        PROVE  Nth(c)[n] = IF n <= Len(s) THEN s[n] ELSE NULL
    BY <1>1, NthIs
  <1>3. ASSUME NEW b \in InList(c)
        PROVE  b \in ToSet(s)
    <2>1. PICK n \in 1..Cardinality(Buffer) : b = Nth(c)[n] /\ b # NULL
      BY DEF InList
    <2>2. n \in 1..Len(s) /\ b = s[n]
      BY <1>1, <1>2, <2>1
    <2> QED
      BY <1>1, <2>2
  <1>4. ASSUME NEW b \in ToSet(s)
        PROVE  b \in InList(c)
    <2>1. PICK n \in 1..Len(s) : b = s[n]
      BY <1>1
    <2>2. n \in 1..Cardinality(Buffer) /\ Nth(c)[n] = b /\ b # NULL
      BY <1>1, <1>2, <2>1
    <2> QED
      BY <2>2 DEF InList
  <1> QED
    BY <1>3, <1>4

-----------------------------------------------------------------------------
(* The properties.                                                         *)

\* The variables keep their types; in particular the count of a class never falls below
\* zero nor grows beyond the number of buffers.
THEOREM BuffersTyped == Spec => []TypeOK
  <1>1. BInv => TypeOK
    <2> SUFFICES ASSUME BInv PROVE TypeOK
      OBVIOUS
    <2>1. ASSUME NEW c \in Class
          PROVE  FreeBufferCount[c] \in 0..Cardinality(Buffer)
      <3>1. PICK s \in Seq(Buffer) : List(s, c)
        BY DEF BInv, Lists
      <3>2. Len(s) \in 0..Cardinality(Buffer) /\ Cardinality(Buffer) \in Nat
        BY <3>1, ListLength DEF List, Linked
      <3>3. CASE \E t \in Thread : Extends(t, c)
        <4>1. s # <<>> /\ FreeBufferCount[c] = Len(s) - 1
          BY <3>1, <3>3 DEF List, Ended
        <4>2. Len(s) # 0
          BY <4>1, EmptySeq
        <4> QED
          BY <3>2, <4>1, <4>2
      <3>4. CASE \A t \in Thread : ~Extends(t, c)
        BY <3>1, <3>2, <3>4 DEF List, Ended
      <3> QED
        BY <3>3, <3>4
    <2>2. FreeBufferCount \in [Class -> 0..Cardinality(Buffer)]
      BY <2>1 DEF BInv, Types
    <2> QED
      BY <2>2 DEF BInv, Types, TypeOK
  <1> QED
    BY <1>1, ListsInvariant, PTL

\* Whenever no thread is in the middle of its work on a list, the list ends at QTail, has
\* as many buffers as FreeBufferCount says, and only buffers of its class that no
\* thread holds.
THEOREM FreeListsIntact == Spec => []ListsIntact
  <1>1. BInv => ListsIntact
    <2> SUFFICES ASSUME BInv, NEW c \in Class, ~HalfDone(c)
                 PROVE  /\ Nth(c)[FreeBufferCount[c] + 1] = NULL
                        /\ Cardinality(InList(c)) = FreeBufferCount[c]
                        /\ QTail[c] = IF FreeBufferCount[c] = 0 THEN NULL
                                      ELSE Nth(c)[FreeBufferCount[c]]
                        /\ \A b \in InList(c) :
                              BUFF_CODE[b] = c /\ \A t \in Thread : b \notin held[t]
      BY DEF ListsIntact
    <2>1. PICK s \in Seq(Buffer) : List(s, c)
      BY DEF BInv, Lists
    <2>2. FreeBufferCount[c] = Len(s) /\ QTail[c] = IF s = <<>> THEN NULL ELSE s[Len(s)]
      <3>1. \A t \in Thread : ~Extends(t, c)
        BY DEF HalfDone, Extends
      <3> QED
        BY <2>1, <3>1 DEF List, Ended
    <2>3. /\ Len(s) \in 0..Cardinality(Buffer) /\ Cardinality(Buffer) \in Nat
          /\ Cardinality(ToSet(s)) = Len(s)
          /\ s = <<>> <=> Len(s) = 0
      BY <2>1, ListLength, EmptySeq DEF List, Linked
    <2>4. /\ InList(c) = ToSet(s)
          /\ \A n \in 1..(Cardinality(Buffer) + 1) : Nth(c)[n] = IF n <= Len(s) THEN s[n] ELSE NULL
      BY <2>1, InListIs, NthIs DEF List
    <2>5. Nth(c)[Len(s) + 1] = NULL
      <3>1. Len(s) + 1 \in 1..(Cardinality(Buffer) + 1) /\ ~ (Len(s) + 1 <= Len(s))
        BY <2>3
      <3> QED
        BY <2>4, <3>1
    <2>6. Len(s) # 0 => Nth(c)[Len(s)] = s[Len(s)]
      <3>1. Len(s) # 0 => Len(s) \in 1..(Cardinality(Buffer) + 1) /\ Len(s) <= Len(s)
        BY <2>3
      <3> QED
        BY <2>4, <3>1
    <2>7. ToSet(s) \subseteq Buffer
      BY ToSetIs, ElementOfSeq
    <2>8. \A b \in InList(c) : BUFF_CODE[b] = c /\ \A t \in Thread : b \notin held[t]
      BY <2>1, <2>4, <2>7 DEF List, Linked, InHand
    <2> QED
      BY <2>2, <2>3, <2>4, <2>5, <2>6, <2>8
  <1> QED
    BY <1>1, ListsInvariant, PTL

\* At every moment, in the middle of a call too, each buffer is in the list of its class or
\* with exactly one thread.
THEOREM NoneLost == Spec => []NoBufferLost
  <1>1. BInv => NoBufferLost
    <2> SUFFICES ASSUME BInv, NEW b \in Buffer
                 PROVE  Cardinality({t \in Thread : b \in held[t]}) =
                            IF b \in InList(BUFF_CODE[b]) THEN 0 ELSE 1
      BY DEF NoBufferLost
    <2>1. PICK c \in Class : c = BUFF_CODE[b]
      BY Classes
    <2>2. PICK s \in Seq(Buffer) : List(s, c)
      BY DEF BInv, Lists
    <2>3. b \in InList(c) <=> ~InHand(b)
      BY <2>1, <2>2, InListIs DEF List, Linked
    <2>4. CASE ~InHand(b)
      <3>1. {t \in Thread : b \in held[t]} = {}
        BY <2>4 DEF InHand
      <3> QED
        BY <2>1, <2>3, <2>4, <3>1, FS_EmptySet
    <2>5. CASE InHand(b)
      <3>1. PICK t \in Thread : b \in held[t]
        BY <2>5 DEF InHand
      <3>2. {u \in Thread : b \in held[u]} = {t}
        BY <3>1 DEF BInv, Hands
      <3> QED
        BY <2>1, <2>3, <2>5, <3>2, FS_Singleton
    <2> QED
      BY <2>4, <2>5
  <1> QED
    BY <1>1, ListsInvariant, PTL

-----------------------------------------------------------------------------
(* The refinement.                                                         *)

Asking == {"get", "unlink", "advance"}

\* A search has passed the classes whose buffers are large enough up to the one it is at;
\* it found their lists empty, and they stay so, because it left their critical sections
\* locked.
Requests ==
    \A t \in Thread : pc[t] \in Asking =>
        /\ len[t] \in Length
        /\ FirstClass(len[t]) <= class[t]
        /\ \A d \in Class :
              FirstClass(len[t]) <= d /\ d < class[t] => owner[d] = t /\ QHead[d] = NULL

\* A step of thread t leaves the search of another thread as it was.
LEMMA OthersRequests ==
  ASSUME BInv, Requests, NEW t \in Thread,
         pc[t] \in Inside \/ (QHead' = QHead /\ owner[class[t]] \in {NoThread, t}),
         \A d \in Class : d # class[t] => owner'[d] = owner[d] /\ QHead'[d] = QHead[d],
         NEW u \in Thread, u # t,
         pc'[u] = pc[u], class'[u] = class[u], len'[u] = len[u],
         pc'[u] \in Asking
  PROVE  /\ len'[u] \in Length
         /\ FirstClass(len'[u]) <= class'[u]
         /\ \A d \in Class :
               FirstClass(len'[u]) <= d /\ d < class'[u] => owner'[d] = u /\ QHead'[d] = NULL
  <1>1. len[u] \in Length /\ FirstClass(len[u]) <= class[u]
    BY DEF Requests
  <1>2. ASSUME NEW d \in Class, FirstClass(len[u]) <= d, d < class[u]
        PROVE  owner'[d] = u /\ QHead'[d] = NULL
    <2>1. owner[d] = u /\ QHead[d] = NULL
      BY <1>2 DEF Requests
    <2>2. CASE d # class[t]
      BY <2>1, <2>2
    <2>3. CASE d = class[t]
      <3>1. owner[class[t]] \notin {NoThread, t}
        BY <2>1, <2>3, Classes
      <3>2. pc[t] \notin Inside
        BY <3>1 DEF BInv, Exclusion
      <3> QED
        BY <2>1, <2>3, <3>1, <3>2
    <2> QED
      BY <2>2, <2>3
  <1> QED
    BY <1>1, <1>2

LEMMA NextRequests ==
  ASSUME BInv, Requests, [Next]_vars
  PROVE  Requests'
  <1>0. Types
    BY DEF BInv
  <1>1. ASSUME NEW t \in Thread, CallStep(t)
        PROVE  Requests'
    <2> SUFFICES ASSUME NEW u \in Thread, pc'[u] \in Asking
                 PROVE  /\ len'[u] \in Length
                        /\ FirstClass(len'[u]) <= class'[u]
                        /\ \A d \in Class :
                              FirstClass(len'[u]) <= d /\ d < class'[u] =>
                                  owner'[d] = u /\ QHead'[d] = NULL
      BY DEF Requests
    <2>0. class[t] \in Class
      BY <1>0 DEF Types
    <2>1. CASE u # t
      <3>1. /\ pc'[u] = pc[u] /\ class'[u] = class[u] /\ len'[u] = len[u]
        BY <1>0, <1>1, <2>1 DEF Types, CallStep, LockBuff, UnlockBuff, ReadsHead, GetFromHead,
                   TriesNextClass, Terminates, LinksLast, PutOnTail, Goto, lists, locks, calls
      <3>2. pc[t] \in Inside \/ (QHead' = QHead /\ owner[class[t]] \in {NoThread, t})
        BY <1>1 DEF CallStep, LockBuff, UnlockBuff, ReadsHead, GetFromHead, TriesNextClass,
                   Terminates, LinksLast, PutOnTail, At, lists, Inside
      <3>3. \A d \in Class : d # class[t] => owner'[d] = owner[d] /\ QHead'[d] = QHead[d]
        BY <1>0, <1>1 DEF Types, CallStep, LockBuff, UnlockBuff, ReadsHead, GetFromHead,
                   TriesNextClass, Terminates, LinksLast, PutOnTail, lists, locks
      <3> QED
        BY <2>1, <3>1, <3>2, <3>3, OthersRequests
    <2>2. CASE u = t /\ LockBuff(t, "get", "unlink")
      <3>1. /\ pc[t] \in Asking
            /\ UNCHANGED <<QHead, class, len>>
            /\ \A d \in Class : d # class[t] => owner'[d] = owner[d]
        BY <1>0, <2>2 DEF LockBuff, At, Asking, lists, calls, Types
      <3>2. \A d \in Class : d < class[t] => d # class[t]
        BY <2>0, Classes
      <3> QED
        BY <2>2, <3>1, <3>2 DEF Requests
    <2>3. CASE u = t /\ ReadsHead(t)
      <3>1. pc[t] \in Asking /\ UNCHANGED <<QHead, owner, class, len>>
        BY <2>3 DEF ReadsHead, At, Asking, lists, locks
      <3> QED
        BY <2>3, <3>1 DEF Requests
    <2>4. CASE u = t /\ TriesNextClass(t)
      <3>1. /\ pc[t] = "unlink" /\ QHead[class[t]] = NULL
            /\ class'[t] = class[t] + 1
            /\ UNCHANGED <<QHead, owner, len>>
        BY <1>0, <2>4 DEF TriesNextClass, At, lists, locks, Types
      <3>2. owner[class[t]] = t
        BY <3>1 DEF BInv, Exclusion, Inside
      <3>3. /\ len[t] \in Length
            /\ FirstClass(len[t]) <= class[t]
            /\ \A d \in Class :
                  FirstClass(len[t]) <= d /\ d < class[t] => owner[d] = t /\ QHead[d] = NULL
        BY <3>1 DEF Requests, Asking
      <3>4. FirstClass(len[t]) \in Class
        BY <3>3, FirstClassIs
      <3>5. PICK f, c : f = FirstClass(len[t]) /\ c = class[t]
        OBVIOUS
      <3>6. f \in Nat /\ c \in Nat /\ Class \subseteq Nat
        BY <2>0, <3>4, <3>5, Classes
      <3>7. f <= c => f <= c + 1
        BY <3>6
      <3>8. \A d \in Class : d < c + 1 => d < c \/ d = c
        BY <3>6
      <3> QED
        BY <2>4, <3>1, <3>2, <3>3, <3>5, <3>7, <3>8
    <2>5. CASE u = t /\ Terminates(t)
      <3>1. UNCHANGED <<pc, QHead, owner, class, len>>
        BY <2>5 DEF Terminates, lists, locks, calls
      <3> QED
        BY <2>5, <3>1 DEF Requests
    <2>6. CASE u = t /\ (GetFromHead(t) \/ UnlockBuff(t, "unlinked") \/ LockBuff(t, "put", "link")
                         \/ LinksLast(t) \/ PutOnTail(t) \/ UnlockBuff(t, "linked"))
      <3>1. pc'[t] \in {"unlinked", "outside", "link", "extend", "linked"}
        BY <1>0, <2>6, Goes DEF GetFromHead, UnlockBuff, LockBuff, LinksLast, PutOnTail
      <3> QED
        BY <2>6, <3>1 DEF Asking
    <2> QED
      BY <1>1, <2>1, <2>2, <2>3, <2>4, <2>5, <2>6 DEF CallStep
  <1>2. ASSUME NEW t \in Thread, NEW length \in Length, GetBuffer(t, length)
        PROVE  Requests'
    <2>1. /\ pc[t] = "outside"
          /\ UNCHANGED <<QHead, owner>>
          /\ class'[t] = FirstClass(length) /\ len'[t] = length
          /\ \A u \in Thread : u # t => pc'[u] = pc[u] /\ class'[u] = class[u] /\ len'[u] = len[u]
      BY <1>0, <1>2 DEF GetBuffer, At, Goto, lists, locks, Types
    <2>2. FirstClass(length) \in Nat
      BY FirstClassIs, Classes
    <2>3. /\ FirstClass(length) <= FirstClass(length)
          /\ \A d \in Class : ~ (FirstClass(length) <= d /\ d < FirstClass(length))
      BY <2>2, Classes
    <2> QED
      BY <2>1, <2>3 DEF Requests
  <1>3. ASSUME NEW t \in Thread, NEW b \in Buffer, RetBuffer(t, b)
        PROVE  Requests'
    <2>1. /\ pc'[t] = "put"
          /\ UNCHANGED <<QHead, owner, len>>
          /\ \A u \in Thread : u # t => pc'[u] = pc[u] /\ class'[u] = class[u]
      BY <1>0, <1>3 DEF RetBuffer, At, Goto, locks, Types
    <2> QED
      BY <2>1 DEF Requests, Asking
  <1>4. ASSUME NEW t \in Thread, NEW u \in Thread, NEW b \in Buffer, HandOver(t, u, b)
        PROVE  Requests'
    BY <1>4 DEF HandOver, Requests, lists, locks, calls
  <1>5. CASE UNCHANGED vars
    BY <1>5 DEF vars, Requests, lists, locks, calls
  <1> QED
    BY <1>1, <1>2, <1>3, <1>4, <1>5 DEF Next

\* The invariant the refinement needs
PInv == BInv /\ Requests

LEMMA PoolInvariant == Spec => []PInv
  <1>1. Init => PInv
    BY InitBInv DEF PInv, Init, Requests, Asking
  <1>2. PInv /\ [Next]_vars => PInv'
    BY NextBInv, NextRequests DEF PInv
  <1> QED
    BY <1>1, <1>2, PTL DEF Spec

\* The pool's free buffers are those in nobody's hands.
Free == UNION {InList(c) : c \in Class}

LEMMA FreeIs ==
  ASSUME BInv
  PROVE  Free = {b \in Buffer : ~InHand(b)}
  <1>1. ASSUME NEW c \in Class
        PROVE  InList(c) = {b \in Buffer : BUFF_CODE[b] = c /\ ~InHand(b)}
    <2>1. PICK s \in Seq(Buffer) : List(s, c)
      BY DEF BInv, Lists
    <2>2. ToSet(s) \subseteq Buffer
      BY ToSetIs, ElementOfSeq
    <2>3. InList(c) = ToSet(s)
      BY <2>1, InListIs DEF List
    <2> QED
      BY <2>1, <2>2, <2>3 DEF List, Linked
  <1>2. \A b \in Buffer : BUFF_CODE[b] \in Class
    BY Classes
  <1> QED
    BY <1>1, <1>2 DEF Free

LEMMA NextFree == BInv /\ [Next]_vars => Free' = {b \in Buffer : ~InHand(b)'}
  <1>1. BInv => Free = {b \in Buffer : ~InHand(b)}
    BY FreeIs
  <1>2. (BInv => Free = {b \in Buffer : ~InHand(b)})'
    BY <1>1, PTL
  <1> QED
    BY <1>2, NextBInv

\* The requests of the pool
Want == [t \in Thread |-> IF pc[t] \in {"get", "unlink", "advance"} THEN len[t] ELSE NULL]

\* A step that neither moves a buffer nor begins or ends a request is no step of the pool.
LEMMA Stutters ==
  ASSUME BInv, [Next]_vars, UNCHANGED <<held, alive, len>>,
         \A t \in Thread : pc'[t] \in Asking <=> pc[t] \in Asking
  PROVE  UNCHANGED Pool!poolVars
  <1>1. \A b : InHand(b)' <=> InHand(b)
    BY DEF InHand
  <1>2. Free' = Free
    BY <1>1, FreeIs, NextFree
  <1>3. Want' = Want
    BY DEF Want, Asking
  <1> QED
    BY <1>2, <1>3 DEF Pool!poolVars, Free, Want

\* A larger class has buffers that are at least as large.
LEMMA LargerClass ==
  ASSUME NEW c \in Class, NEW d \in Class, c <= d
  PROVE  BuffersLength[c] <= BuffersLength[d]
  BY Classes, BuffersAssumption

LEMMA GetBufferAsks ==
  ASSUME BInv, [Next]_vars, NEW t \in Thread, NEW length \in Length, GetBuffer(t, length)
  PROVE  Pool!Ask(t, length)
  <1> USE DEF BInv
  <1>1. /\ alive /\ pc[t] = "outside"
        /\ len' = [len EXCEPT ![t] = length]
        /\ pc' = [pc EXCEPT ![t] = "get"]
        /\ UNCHANGED <<held, alive>>
    BY DEF GetBuffer, At, Goto
  <1>2. \A b : InHand(b)' <=> InHand(b)
    BY <1>1 DEF InHand
  <1>3. Free' = Free
    BY <1>2, FreeIs, NextFree
  <1>4. Want[t] = NULL /\ Want' = [Want EXCEPT ![t] = length]
    BY <1>1 DEF Want, Types
  <1> QED
    BY <1>1, <1>3, <1>4 DEF Pool!Ask, Free, Want

LEMMA GetFromHeadGrants ==
  ASSUME BInv, Requests, [Next]_vars, NEW t \in Thread, GetFromHead(t)
  PROVE  Pool!Grant(t)
  <1> USE DEF BInv
  <1>0. PICK c, b : c = class[t] /\ b = info[t]
    OBVIOUS
  <1>1. /\ alive /\ pc[t] = "advance"
        /\ held' = [held EXCEPT ![t] = held[t] \cup {b}]
        /\ pc' = [pc EXCEPT ![t] = "unlinked"]
        /\ UNCHANGED <<len, alive>>
    BY <1>0 DEF GetFromHead, At, Goto, calls
  <1>2. c \in Class /\ b = QHead[c] /\ b \in Buffer /\ b # NULL
    BY <1>0, <1>1 DEF Types, Hands
  <1>3. BUFF_CODE[b] = c /\ ~InHand(b)
    <2>1. PICK s \in Seq(Buffer) : List(s, c)
      BY <1>2 DEF Lists
    <2>2. s # <<>> /\ s[1] = b
      BY <1>2, <2>1 DEF List, Linked
    <2>3. 1 \in 1..Len(s)
      BY <2>2, EmptySeq
    <2>4. b \in ToSet(s)
      BY <2>2, <2>3, ToSetIs
    <2> QED
      BY <1>2, <2>1, <2>4 DEF List, Linked
  <1>4. len[t] \in Length /\ FirstClass(len[t]) <= c
    BY <1>0, <1>1 DEF Requests, Asking
  <1>5. SizeOf(b) >= len[t]
    <2>1. FirstClass(len[t]) \in Class /\ BuffersLength[FirstClass(len[t])] >= len[t]
      BY <1>4, FirstClassIs
    <2>2. BuffersLength[FirstClass(len[t])] <= BuffersLength[c]
      BY <1>2, <1>4, <2>1, LargerClass
    <2>3. len[t] \in Nat
      BY <1>4, BuffersAssumption
    <2>4. SizeOf(b) = BuffersLength[c]
      BY <1>3 DEF SizeOf
    <2>5. BuffersLength[c] \in Nat /\ BuffersLength[FirstClass(len[t])] \in Nat
      BY <1>2, <2>1, Classes
    <2> QED
      BY <2>1, <2>2, <2>3, <2>4, <2>5
  <1>6. \A x : InHand(x)' <=> InHand(x) \/ x = b
    BY <1>1 DEF InHand, Types
  <1>7. b \in Free /\ Free' = Free \ {b}
    BY <1>2, <1>3, <1>6, FreeIs, NextFree
  <1>8. Want[t] = len[t] /\ Want' = [Want EXCEPT ![t] = NULL]
    BY <1>1 DEF Want, Types
  <1>9. len[t] # NULL
    BY <1>4, BuffersAssumption
  <1> QED
    BY <1>1, <1>5, <1>7, <1>8, <1>9 DEF Pool!Grant, Free, Want

\* When the search ends no list that it has passed has got a buffer.
LEMMA TerminatesFails ==
  ASSUME BInv, Requests, [Next]_vars, ~Debug \/ ClassBufferNum = 1,
         NEW t \in Thread, Terminates(t)
  PROVE  Pool!Fail(t)
  <1> USE DEF BInv
  <1>1. /\ alive /\ pc[t] = "unlink"
        /\ QHead[class[t]] = NULL
        /\ class[t] = ClassBufferNum \/ Debug
        /\ alive' = FALSE
        /\ UNCHANGED <<pc, len, held>>
    BY DEF Terminates, At, calls
  <1>2. /\ len[t] \in Length
        /\ \A d \in Class : FirstClass(len[t]) <= d /\ d < class[t] => QHead[d] = NULL
    BY <1>1 DEF Requests, Asking
  <1>3. class[t] \in Class /\ \A d \in Class : d < class[t] \/ d = class[t]
    <2>1. class[t] \in 1..ClassBufferNum /\ ClassBufferNum \in Nat
      BY Classes DEF Types, Class
    <2>2. class[t] = ClassBufferNum
      BY <1>1, <2>1
    <2> QED
      BY <2>1, <2>2 DEF Class
  <1>4. FirstClass(len[t]) \in Class
        /\ \A d \in Class : d < FirstClass(len[t]) => BuffersLength[d] < len[t]
    BY <1>2, FirstClassIs
  <1>5. ASSUME NEW b \in Free
        PROVE  SizeOf(b) < len[t]
    <2>1. b \in Buffer /\ ~InHand(b)
      BY FreeIs
    <2>2. PICK d \in Class : d = BUFF_CODE[b]
      BY <2>1, Classes
    <2>3. QHead[d] # NULL
      <3>1. PICK s \in Seq(Buffer) : List(s, d)
        BY DEF Lists
      <3>2. b \in ToSet(s)
        BY <2>1, <2>2, <3>1 DEF List, Linked
      <3>3. s # <<>>
        BY <3>2, ToSetIs, EmptySeq
      <3>4. s[1] # NULL
        <4>1. 1 \in 1..Len(s)
          BY <3>3, EmptySeq
        <4> QED
          BY <4>1, ElementOfSeq, Classes
      <3> QED
        BY <3>1, <3>3, <3>4 DEF List, Linked
    <2>4. ~ (FirstClass(len[t]) <= d)
      BY <1>1, <1>2, <1>3, <2>3
    <2>5. d < FirstClass(len[t])
      <3>1. PICK f \in Nat : f = FirstClass(len[t])
        BY <1>4, Classes
      <3> QED
        BY <2>4, <3>1, Classes
    <2> QED
      BY <1>4, <2>2, <2>5 DEF SizeOf
  <1>6. \A x : InHand(x)' <=> InHand(x)
    BY <1>1 DEF InHand
  <1>7. Free' = Free
    BY <1>6, FreeIs, NextFree
  <1>8. Want[t] = len[t] /\ Want' = Want
    BY <1>1 DEF Want
  <1>9. len[t] # NULL
    BY <1>2, BuffersAssumption
  <1> QED
    BY <1>1, <1>5, <1>7, <1>8, <1>9 DEF Pool!Fail, Free, Want

LEMMA LinksLastReturns ==
  ASSUME BInv, [Next]_vars, NEW t \in Thread, LinksLast(t)
  PROVE  \E b \in Buffer : Pool!Return(t, b)
  <1> USE DEF BInv
  <1>0. PICK b : b = info[t]
    OBVIOUS
  <1>1. /\ alive /\ pc[t] = "link"
        /\ held' = [held EXCEPT ![t] = held[t] \ {b}]
        /\ pc' = [pc EXCEPT ![t] = "extend"]
        /\ UNCHANGED <<len, alive>>
    BY <1>0 DEF LinksLast, At, Goto, calls
  <1>2. b \in held[t] /\ b \in Buffer
    BY <1>0, <1>1 DEF Hands, Types
  <1>3. /\ held'[t] = held[t] \ {b}
        /\ \A u \in Thread : u # t => held'[u] = held[u] /\ b \notin held[u]
    BY <1>1, <1>2 DEF Types, Hands
  <1>4. \A x : InHand(x)' <=> InHand(x) /\ x # b
    BY <1>3 DEF InHand
  <1>5. Free' = Free \cup {b}
    BY <1>2, <1>4, FreeIs, NextFree
  <1>6. Want' = Want
    BY <1>1 DEF Want, Types
  <1>7. Pool!Return(t, b)
    BY <1>1, <1>2, <1>5, <1>6 DEF Pool!Return, Free, Want
  <1> QED
    BY <1>2, <1>7

LEMMA HandOverMaps ==
  ASSUME BInv, [Next]_vars, NEW t \in Thread, NEW u \in Thread, NEW b \in Buffer, HandOver(t, u, b)
  PROVE  Pool!HandOver(t, u, b)
  <1> USE DEF BInv
  <1>1. /\ alive /\ u # t
        /\ b \in held[t]
        /\ held' = [held EXCEPT ![t] = held[t] \ {b}, ![u] = held[u] \cup {b}]
        /\ UNCHANGED <<pc, len, alive>>
    BY DEF HandOver, At, calls
  <1>2. /\ held'[t] = held[t] \ {b} /\ held'[u] = held[u] \cup {b}
        /\ \A v \in Thread : v # t /\ v # u => held'[v] = held[v]
    BY <1>1 DEF Types
  <1>3. \A x : InHand(x)' <=> InHand(x)
    BY <1>1, <1>2 DEF InHand
  <1>4. Free' = Free
    BY <1>3, FreeIs, NextFree
  <1>5. Want' = Want
    BY <1>1 DEF Want
  <1> QED
    BY <1>1, <1>4, <1>5 DEF Pool!HandOver, Free, Want

\* The lists and critical sections implement the pool, if assert is not active or there is
\* one size: a thread gets a buffer that is large enough and that nobody else has, and
\* GetBuffer fails only when no free buffer is large enough, however the threads
\* interleave.
THEOREM PoolImplemented ==
  ASSUME ~Debug \/ ClassBufferNum = 1
  PROVE  Spec => ImplementsPool
  <1>1. Init => Pool!Init
    <2> SUFFICES ASSUME Init PROVE Pool!Init
      OBVIOUS
    <2>1. Free = Buffer
      BY InitBInv, FreeIs DEF Init, InHand
    <2>2. Want = [t \in Thread |-> NULL]
      BY DEF Init, Want
    <2> QED
      BY <2>1, <2>2 DEF Init, Pool!Init, Free, Want
  <1>2. PInv /\ [Next]_vars => [Pool!Next]_(Pool!poolVars)
    <2> SUFFICES ASSUME BInv, Requests, [Next]_vars
                 PROVE  Pool!Next \/ UNCHANGED Pool!poolVars
      BY DEF PInv
    <2>1. ASSUME NEW t \in Thread, CallStep(t)
          PROVE  Pool!Next \/ UNCHANGED Pool!poolVars
      <3>1. CASE GetFromHead(t)
        BY <3>1, GetFromHeadGrants DEF Pool!Next
      <3>2. CASE Terminates(t)
        BY <3>2, TerminatesFails DEF Pool!Next
      <3>3. CASE LinksLast(t)
        BY <3>3, LinksLastReturns DEF Pool!Next
      <3>4. CASE LockBuff(t, "get", "unlink") \/ ReadsHead(t) \/ TriesNextClass(t)
        <4>1. pc[t] \in Asking /\ pc'[t] \in Asking
              /\ \A u \in Thread : u # t => pc'[u] = pc[u]
          BY <3>4, Goes DEF BInv, LockBuff, ReadsHead, TriesNextClass, At, Asking
        <4>2. UNCHANGED <<held, alive, len>>
          BY <3>4 DEF LockBuff, ReadsHead, TriesNextClass, calls
        <4> QED
          BY <4>1, <4>2, Stutters
      <3>5. CASE UnlockBuff(t, "unlinked") \/ UnlockBuff(t, "linked")
                 \/ LockBuff(t, "put", "link") \/ PutOnTail(t)
        <4>1. pc[t] \notin Asking /\ pc'[t] \notin Asking
              /\ \A u \in Thread : u # t => pc'[u] = pc[u]
          BY <3>5, Goes DEF BInv, LockBuff, UnlockBuff, PutOnTail, At, Asking
        <4>2. UNCHANGED <<held, alive, len>>
          BY <3>5 DEF LockBuff, UnlockBuff, PutOnTail, calls
        <4> QED
          BY <4>1, <4>2, Stutters
      <3> QED
        BY <2>1, <3>1, <3>2, <3>3, <3>4, <3>5 DEF CallStep
    <2>2. ASSUME NEW t \in Thread, NEW length \in Length, GetBuffer(t, length)
          PROVE  Pool!Next
      BY <2>2, GetBufferAsks DEF Pool!Next
    <2>3. ASSUME NEW t \in Thread, NEW b \in Buffer, RetBuffer(t, b)
          PROVE  UNCHANGED Pool!poolVars
      <3>1. pc[t] \notin Asking /\ pc'[t] \notin Asking
            /\ \A u \in Thread : u # t => pc'[u] = pc[u]
        BY <2>3, Goes DEF BInv, RetBuffer, At, Asking
      <3>2. UNCHANGED <<held, alive, len>>
        BY <2>3 DEF RetBuffer
      <3> QED
        BY <3>1, <3>2, Stutters
    <2>4. ASSUME NEW t \in Thread, NEW u \in Thread, NEW b \in Buffer, HandOver(t, u, b)
          PROVE  Pool!Next
      BY <2>4, HandOverMaps DEF Pool!Next
    <2>5. CASE UNCHANGED vars
      BY <2>5, Stutters DEF vars, calls
    <2> QED
      BY <2>1, <2>2, <2>3, <2>4, <2>5 DEF Next
  <1> QED
    BY <1>1, <1>2, PoolInvariant, PTL DEF Spec, ImplementsPool, Pool!PoolSpec
=============================================================================
