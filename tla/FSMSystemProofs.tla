-------------------------- MODULE FSMSystemProofs --------------------------
(***************************************************************************)
(* Proofs about FSMSystem for any automates, mailboxes and bounds.         *)
(*                                                                         *)
(* The list of free automates has no lock, and the two threads do damage   *)
(* it: automates are lost and the count drifts.  What stays true is that   *)
(* no automate follows two others, and that none follows the head, works   *)
(* or is being taken and is still linked (Apart).  This is enough for an   *)
(* automate at work not to be handed out again.                            *)
(*                                                                         *)
(* When one thread takes and returns the automates nothing is lost: the    *)
(* list is at every step a sequence of the automates that do not work      *)
(* (Exact).                                                                *)
(***************************************************************************)
EXTENDS FSMSystem, ProofLemmas

\* Places in which a thread has an automate
Holding == Taking \cup {"handler", "put", "link", "tail", "count", "store", "freed", "connect"}

\* Places of the system thread in the loop of Start
InLoop == (Holding \ {"connect"}) \cup {"message", "get"}

Types ==
    /\ taker \in Thread
    /\ Automates \in [0..(NumberOfObjects - 1) -> Object \cup {NULL}]
    /\ at \in [Thread -> Holding \cup {"off", "while", "message", "returned", "get", "accept", "ended"}]
    /\ info \in [Thread -> Registered \cup {NULL}]
    /\ next \in [Object -> Registered \cup {NULL}]
    /\ read \in [Thread -> Registered \cup {NULL} \cup Nat]
    /\ head \in Registered \cup {NULL}
    /\ tail \in Registered \cup {NULL}
    /\ working \subseteq Registered
    /\ i \in 0..NumberOfMbx
    /\ FreeFSMCount \in 0..MaxCount

\* Automates are added before the threads run.
Before ==
    IF at = [t \in Thread |-> "off"]
    THEN FreeFSMCount = Cardinality(DOMAIN Automates \ Empty)
    ELSE Empty = {}

Control ==
    /\ \A t \in Thread : info[t] # NULL <=> at[t] \in Holding
    /\ \A t \in Thread : at[t] \in Taking \cup {"get"} => t = taker
    /\ at["system"] # "connect"
    /\ at["server"] # "off" => taker = "server"
    /\ at["server"] \in Taking \cup {"off", "accept", "get", "connect", "ended"}
    /\ at["system"] \in InLoop => i < NumberOfMbx

\* What the threads have read
Counts ==
    /\ at["system"] = "link" => read["system"] \in Registered \cup {NULL}
    /\ \A t \in Thread : at[t] = "counted" => read[t] \in 1..MaxCount
    /\ at["system"] = "store" => read["system"] \in 0..(MaxCount - 1)
    /\ at["system"] \in {"put", "link", "tail", "count"} => FreeFSMCount < MaxCount

\* No automate follows o.
Unlinked(o) == \A p \in Object : next[p] # o

Apart ==
    /\ \A o, p \in Object : next[o] = next[p] /\ next[o] # NULL => o = p
    /\ \A o \in Object :
          next[o] = head /\ head # NULL => at[taker] = "clear" /\ info[taker] = o
    /\ \A o \in working : o # head /\ Unlinked(o)
    /\ \A t \in Thread :
          at[t] \in Taking =>
              /\ info[t] \notin working
              /\ Unlinked(info[t])
              /\ at[t] # "unlink" => info[t] # head
    /\ at["system"] \in {"put", "link"} =>
          /\ info["system"] \notin working
          /\ Unlinked(info["system"])
          /\ info["system"] # head
          /\ at["server"] \in Taking => info["server"] # info["system"]

FInv == Types /\ Before /\ Control /\ Counts /\ Apart

-----------------------------------------------------------------------------
(* Steps once the threads run: the table of automates does not change.     *)

LEMMA SameTable ==
  ASSUME UNCHANGED Automates
  PROVE  Registered' = Registered /\ Empty' = Empty
  BY DEF Registered, Empty

\* One thread is at a new place.
LEMMA GoesTo ==
  ASSUME Types, NEW t \in Thread, NEW from, NEW to, Goes(t, from, to)
  PROVE  /\ at[t] = from
         /\ at'[t] = to
         /\ \A u \in Thread : u # t => at'[u] = at[u]
         /\ at' = [at EXCEPT ![t] = to]
  BY DEF Types, Goes

LEMMA BeforeKept ==
  ASSUME Types, Before, UNCHANGED Automates, NEW t \in Thread, at[t] # "off", at'[t] # "off"
  PROVE  Before'
  <1>1. Empty = {}
    BY DEF Before
  <1>2. Empty' = {}
    BY <1>1, SameTable
  <1>3. at' # [u \in Thread |-> "off"]
    OBVIOUS
  <1> QED
    BY <1>2, <1>3 DEF Before

LEMMA RegisteredType == Types => Registered \subseteq Object /\ NULL \notin Registered
  BY DEF Types, Registered

\* A thread has an automate where the code uses the pointer to it.
LEMMA HasAutomate ==
  ASSUME Types, Control, NEW t \in Thread, at[t] \in Holding
  PROVE  info[t] \in Registered /\ info[t] \in Object /\ info[t] # NULL
  BY RegisteredType DEF Types, Control

LEMMA EndsFInv == ASSUME FInv, Ends PROVE FInv'
  <1> USE DEF Ends, list, loop
  <1>1. Registered' = Registered /\ Empty' = Empty
    BY SameTable
  <1>2. Types' /\ Before'
    BY <1>1 DEF FInv, Types, Before
  <1>3. Control' /\ Counts' /\ Apart'
    BY <1>1 DEF FInv, Control, Counts, Apart, Unlinked
  <1> QED
    BY <1>2, <1>3 DEF FInv

LEMMA UnlinkFInv ==
  ASSUME FInv, NEW t \in Thread, Unlink(t)
  PROVE  FInv'
  <1> USE DEF FInv
  <1>1. Registered' = Registered /\ Empty' = Empty
    BY SameTable DEF Unlink
  <1>2. /\ at[t] = "unlink" /\ at'[t] = "clear"
        /\ \A u \in Thread : u # t => at'[u] = at[u]
        /\ at' = [at EXCEPT ![t] = "clear"]
    BY GoesTo DEF Unlink
  <1>3. /\ head' = next[info[t]]
        /\ UNCHANGED <<taker, Automates, tail, next, FreeFSMCount, SystemWorking, i, info, read, working, up>>
    BY DEF Unlink, loop
  <1>4. t = taker /\ info[t] \in Object
    BY <1>2, HasAutomate DEF Control, Taking, Holding
  <1>5. Types'
    BY <1>1, <1>2, <1>3, <1>4 DEF Types, Holding, Taking
  <1>6. Before'
    BY <1>2, <1>3, BeforeKept
  <1>7. Control'
    BY <1>1, <1>2, <1>3 DEF Control, Holding, Taking, InLoop, Thread
  <1>8. Counts'
    BY <1>1, <1>2, <1>3 DEF Counts, Thread
  <1>9. Apart'
    <2>1. \A o, p \in Object : next[o] = next[p] /\ next[o] # NULL => o = p
      BY DEF Apart
    <2>2. \A o \in Object : next[o] = head' /\ head' # NULL => o = info[t]
      BY <1>3, <1>4, <2>1
    <2>3. \A o \in working : o # head' /\ Unlinked(o)
      BY <1>3, <1>4 DEF Apart, Unlinked
    <2> QED
      BY <1>2, <1>3, <1>4, <2>1, <2>2, <2>3 DEF Apart, Unlinked, Taking, Thread, Control
  <1> QED
    BY <1>5, <1>6, <1>7, <1>8, <1>9

LEMMA ClearNextFInv ==
  ASSUME FInv, NEW t \in Thread, ClearNext(t)
  PROVE  FInv'
  <1> USE DEF FInv
  <1>1. Registered' = Registered /\ Empty' = Empty
    BY SameTable DEF ClearNext, list, loop
  <1>2. /\ at[t] = "clear" /\ at'[t] = "end"
        /\ \A u \in Thread : u # t => at'[u] = at[u]
        /\ at' = [at EXCEPT ![t] = "end"]
    BY GoesTo DEF ClearNext, Thread
  <1>3. /\ next' = [next EXCEPT ![info[t]] = NULL]
        /\ UNCHANGED <<taker, Automates, head, tail, FreeFSMCount, SystemWorking, i, info, read, working, up>>
    BY DEF ClearNext, list, loop
  <1>4. t = taker /\ info[t] \in Object
    BY <1>2, HasAutomate DEF Control, Taking, Holding
  <1>5. Types'
    BY <1>1, <1>2, <1>3, <1>4 DEF Types, Holding, Taking, Thread
  <1>6. Before'
    BY <1>2, <1>3, BeforeKept DEF Thread
  <1>7. Control'
    BY <1>1, <1>2, <1>3, <1>4 DEF Control, Types, Holding, Taking, InLoop, Thread
  <1>8. Counts'
    BY <1>1, <1>2, <1>3 DEF Counts, Types, Control, Taking, Thread
  <1>9. Apart'
    <2>1. \A o \in Object : next'[o] = IF o = info[t] THEN NULL ELSE next[o]
      BY <1>3, <1>4 DEF Types
    <2>2. \A o \in Object : next'[o] # NULL => next'[o] = next[o] /\ o # info[t]
      BY <2>1
    <2>3. \A o \in Registered : Unlinked(o) => Unlinked(o)'
      BY <2>1, RegisteredType DEF Unlinked
    <2>4. \A o, p \in Object : next'[o] = next'[p] /\ next'[o] # NULL => o = p
      BY <2>2 DEF Apart
    <2>5. \A o \in Object : head # NULL => next'[o] # head
      BY <1>2, <1>3, <1>4, <2>2 DEF Apart
    <2>6. \A o \in working : o # head' /\ Unlinked(o)'
      BY <1>3, <2>3 DEF Apart, Types
    <2>7. \A u \in Thread : at[u] \in Taking => info[u] \in Registered
      BY HasAutomate DEF Holding
    <2>8. \A u \in Thread :
              at'[u] \in Taking =>
                  /\ info[u] \notin working
                  /\ Unlinked(info[u])'
                  /\ at'[u] # "unlink" => info[u] # head
      <3>1. at[t] \in Taking /\ at[t] # "unlink"
        BY <1>2 DEF Taking
      <3> QED
        BY <1>2, <1>3, <2>3, <2>7, <3>1 DEF Apart
    <2>9. at["system"] \in {"put", "link"} => info["system"] \in Registered
      BY HasAutomate DEF Holding, Thread
    <2>10. at'["system"] \in {"put", "link"} =>
              /\ info["system"] \notin working
              /\ Unlinked(info["system"])'
              /\ info["system"] # head
              /\ at'["server"] \in Taking => info["server"] # info["system"]
      BY <1>2, <1>3, <2>3, <2>9 DEF Apart, Taking, Thread
    <2> QED
      BY <1>2, <1>3, <2>4, <2>5, <2>6, <2>8, <2>10 DEF Apart
  <1> QED
    BY <1>5, <1>6, <1>7, <1>8, <1>9

LEMMA ClearTailFInv ==
  ASSUME FInv, NEW t \in Thread, ClearTail(t)
  PROVE  FInv'
  <1> USE DEF FInv
  <1>1. Registered' = Registered /\ Empty' = Empty
    BY SameTable DEF ClearTail, list, loop
  <1>2. /\ at[t] = "clear tail" /\ at'[t] = "counting"
        /\ \A u \in Thread : u # t => at'[u] = at[u]
        /\ at' = [at EXCEPT ![t] = "counting"]
    BY GoesTo DEF ClearTail, Thread
  <1>3. /\ tail' = NULL
        /\ UNCHANGED <<taker, Automates, head, next, FreeFSMCount, SystemWorking, i, info, read, working, up>>
    BY DEF ClearTail, list, loop
  <1>5. Types'
    BY <1>1, <1>2, <1>3 DEF Types, Holding, Taking, Thread
  <1>6. Before'
    BY <1>2, <1>3, BeforeKept DEF Thread
  <1>7. Control'
    BY <1>1, <1>2, <1>3 DEF Control, Types, Holding, Taking, InLoop, Thread
  <1>8. Counts'
    BY <1>1, <1>2, <1>3 DEF Counts, Types, Control, Taking, Thread
  <1>9. Apart'
    BY <1>2, <1>3 DEF Apart, Unlinked, Taking, Thread, Control, Types
  <1> QED
    BY <1>5, <1>6, <1>7, <1>8, <1>9

LEMMA GotFInv ==
  ASSUME FInv, NEW t \in Thread, Got(t)
  PROVE  FInv'
  <1> USE DEF FInv
  <1>1. Registered' = Registered /\ Empty' = Empty
    BY SameTable DEF Got, list, loop
  <1>2. /\ at[t] = "counted" /\ at'[t] = IF t = "system" THEN "handler" ELSE "connect"
        /\ \A u \in Thread : u # t => at'[u] = at[u]
        /\ at' = [at EXCEPT ![t] = IF t = "system" THEN "handler" ELSE "connect"]
    BY GoesTo DEF Got, Thread
  <1>3. /\ FreeFSMCount' = read[t] - 1
        /\ read' = [read EXCEPT ![t] = NULL]
        /\ working' = working \cup {info[t]}
        /\ UNCHANGED <<taker, Automates, head, tail, next, SystemWorking, i, info, up>>
    BY DEF Got, list, loop
  <1>4. t = taker /\ info[t] \in Object
    BY <1>2, HasAutomate DEF Control, Taking, Holding
  <1>5. read[t] \in 1..MaxCount /\ MaxCount \in Nat /\ read[t] - 1 \in 0..(MaxCount - 1)
    BY <1>2, FSMSystemAssumption DEF Counts
  <1>6. working' \subseteq Registered
    BY <1>2, <1>3, HasAutomate DEF Types, Holding, Taking
  <1>7. FreeFSMCount' \in 0..(MaxCount - 1) /\ FreeFSMCount' \in 0..MaxCount
    BY <1>3, <1>5
  <1>8. Types'
    BY <1>1, <1>2, <1>3, <1>4, <1>6, <1>7 DEF Types, Holding, Taking, Thread
  <1>9. Before'
    BY <1>2, <1>3, BeforeKept DEF Thread
  <1>10. Control'
    BY <1>1, <1>2, <1>3, <1>4 DEF Control, Types, Holding, Taking, InLoop, Thread
  <1>11. Counts'
    <2>1. \A u \in Thread : at'[u] # "counted"
      <3>1. \A u \in Thread : u # t => at[u] # "counted"
        BY <1>4 DEF Control, Taking
      <3> QED
        BY <1>2, <3>1
    <2>2. \A u \in Thread : u # t => read'[u] = read[u]
      BY <1>3 DEF Types
    <2>3. at'["system"] \in {"link", "store"} => at["system"] = at'["system"] /\ t # "system"
      BY <1>2 DEF Thread
    <2>4. FreeFSMCount' < MaxCount
      BY <1>5, <1>7
    <2> QED
      BY <1>1, <2>1, <2>2, <2>3, <2>4 DEF Counts, Thread
  <1>12. Apart'
    BY <1>2, <1>3, <1>4 DEF Apart, Unlinked, Taking, Thread, Control, Types
  <1> QED
    BY <1>8, <1>9, <1>10, <1>11, <1>12

LEMMA FreeFSMFInv ==
  ASSUME FInv, FreeFSM
  PROVE  FInv'
  <1> USE DEF FInv
  <1>1. Registered' = Registered /\ Empty' = Empty
    BY SameTable DEF FreeFSM, list, loop
  <1>2. /\ at["system"] = "handler" /\ at'["system"] = "put"
        /\ \A u \in Thread : u # "system" => at'[u] = at[u]
        /\ at' = [at EXCEPT !["system"] = "put"]
    BY GoesTo DEF FreeFSM, Thread
  <1>3. /\ info["system"] \in working
        /\ FreeFSMCount < MaxCount
        /\ working' = working \ {info["system"]}
        /\ next' = [next EXCEPT ![info["system"]] = NULL]
        /\ UNCHANGED <<taker, Automates, head, tail, FreeFSMCount, SystemWorking, i, info, read, up>>
    BY DEF FreeFSM, list, loop
  <1>4. info["system"] \in Object /\ info["system"] \in Registered /\ info["system"] # NULL
    BY <1>2, HasAutomate DEF Taking, Holding, Thread
  <1>5. Types'
    BY <1>1, <1>2, <1>3, <1>4 DEF Types, Holding, Taking, Thread
  <1>6. Before'
    BY <1>2, <1>3, BeforeKept DEF Thread
  <1>7. Control'
    BY <1>1, <1>2, <1>3, <1>4 DEF Control, Types, Holding, Taking, InLoop, Thread
  <1>8. Counts'
    BY <1>1, <1>2, <1>3 DEF Counts, Types, Control, Taking, Thread
  <1>9. Apart'
    <2>1. \A o \in Object : next'[o] = IF o = info["system"] THEN NULL ELSE next[o]
      BY <1>3, <1>4 DEF Types
    <2>2. \A o \in Object : next'[o] # NULL => next'[o] = next[o] /\ o # info["system"]
      BY <2>1
    <2>3. \A o \in Registered : Unlinked(o) => Unlinked(o)'
      BY <2>1, RegisteredType DEF Unlinked
    <2>4. \A o, p \in Object : next'[o] = next'[p] /\ next'[o] # NULL => o = p
      BY <2>2 DEF Apart
    <2>5. \A o \in Object :
              next'[o] = head /\ head # NULL => at'[taker] = "clear" /\ info[taker] = o
      BY <1>2, <2>2 DEF Apart, Types
    <2>6. \A o \in working' : o # head' /\ Unlinked(o)'
      BY <1>3, <2>3 DEF Apart, Types
    <2>7. \A u \in Thread :
              at'[u] \in Taking =>
                  /\ u # "system"
                  /\ info[u] \notin working
                  /\ info[u] # info["system"]
                  /\ Unlinked(info[u])'
                  /\ at'[u] # "unlink" => info[u] # head
      <3>1. \A u \in Thread : at[u] \in Taking => info[u] \in Registered
        BY HasAutomate DEF Holding
      <3>2. \A u \in Thread : at'[u] \in Taking => u # "system" /\ at[u] = at'[u]
        BY <1>2 DEF Taking
      <3> QED
        BY <1>3, <2>3, <3>1, <3>2 DEF Apart
    <2>8. /\ info["system"] # head
          /\ Unlinked(info["system"])'
      BY <1>3, <1>4, <2>3 DEF Apart
    <2> QED
      BY <1>2, <1>3, <2>4, <2>5, <2>6, <2>7, <2>8 DEF Apart, Thread
  <1> QED
    BY <1>5, <1>6, <1>7, <1>8, <1>9

LEMMA ReadTailFInv ==
  ASSUME FInv, ReadTail
  PROVE  FInv'
  <1> USE DEF FInv
  <1>1. Registered' = Registered /\ Empty' = Empty
    BY SameTable DEF ReadTail, list, loop
  <1>2. /\ at["system"] = "put" /\ at'["system"] = "link"
        /\ \A u \in Thread : u # "system" => at'[u] = at[u]
        /\ at' = [at EXCEPT !["system"] = "link"]
    BY GoesTo DEF ReadTail, Thread
  <1>3. /\ read' = [read EXCEPT !["system"] = tail]
        /\ UNCHANGED <<taker, Automates, head, tail, next, FreeFSMCount, SystemWorking, i, info, working, up>>
    BY DEF ReadTail, list, loop
  <1>5. Types'
    BY <1>1, <1>2, <1>3 DEF Types, Holding, Taking, Thread
  <1>6. Before'
    BY <1>2, <1>3, BeforeKept DEF Thread
  <1>7. Control'
    BY <1>1, <1>2, <1>3 DEF Control, Types, Holding, Taking, InLoop, Thread
  <1>8. Counts'
    BY <1>1, <1>2, <1>3 DEF Counts, Types, Control, Taking, Thread
  <1>9. Apart'
    BY <1>2, <1>3 DEF Apart, Unlinked, Taking, Thread, Control, Types
  <1> QED
    BY <1>5, <1>6, <1>7, <1>8, <1>9

LEMMA SetTailFInv ==
  ASSUME FInv, SetTail
  PROVE  FInv'
  <1> USE DEF FInv
  <1>1. Registered' = Registered /\ Empty' = Empty
    BY SameTable DEF SetTail, list, loop
  <1>2. /\ at["system"] = "tail" /\ at'["system"] = "count"
        /\ \A u \in Thread : u # "system" => at'[u] = at[u]
        /\ at' = [at EXCEPT !["system"] = "count"]
    BY GoesTo DEF SetTail, Thread
  <1>3. /\ tail' = info["system"]
        /\ read' = [read EXCEPT !["system"] = NULL]
        /\ UNCHANGED <<taker, Automates, head, next, FreeFSMCount, SystemWorking, i, info, working, up>>
    BY DEF SetTail, list, loop
  <1>4. info["system"] \in Object /\ info["system"] \in Registered /\ info["system"] # NULL
    BY <1>2, HasAutomate DEF Taking, Holding, Thread
  <1>5. Types'
    BY <1>1, <1>2, <1>3, <1>4 DEF Types, Holding, Taking, Thread
  <1>6. Before'
    BY <1>2, <1>3, BeforeKept DEF Thread
  <1>7. Control'
    BY <1>1, <1>2, <1>3, <1>4 DEF Control, Types, Holding, Taking, InLoop, Thread
  <1>8. Counts'
    BY <1>1, <1>2, <1>3 DEF Counts, Types, Control, Taking, Thread
  <1>9. Apart'
    BY <1>2, <1>3 DEF Apart, Unlinked, Taking, Thread, Control, Types
  <1> QED
    BY <1>5, <1>6, <1>7, <1>8, <1>9

LEMMA GetFromHeadFInv ==
  ASSUME FInv, NEW t \in Thread, GetFromHead(t)
  PROVE  FInv'
  <1> USE DEF FInv
  <1>1. CASE Ends
    BY <1>1, EndsFInv
  <1>2. CASE head # NULL /\ Goes(t, "get", "unlink")
    <2>1. /\ info' = [info EXCEPT ![t] = head]
          /\ UNCHANGED <<taker, Automates, head, tail, next, FreeFSMCount, SystemWorking, i, read, working, up>>
      BY <1>2 DEF GetFromHead, Ends, list, loop
    <2>2. Registered' = Registered /\ Empty' = Empty
      BY <2>1, SameTable
    <2>3. /\ at[t] = "get" /\ at'[t] = "unlink"
          /\ \A u \in Thread : u # t => at'[u] = at[u]
          /\ at' = [at EXCEPT ![t] = "unlink"]
      BY <1>2, GoesTo
    <2>4. info'[t] = head /\ \A u \in Thread : u # t => info'[u] = info[u]
      BY <2>1 DEF Types
    <2>5. head \in Registered /\ head # NULL /\ t = taker
      BY <1>2, <2>3 DEF Types, Control
    <2>6. Types'
      BY <2>1, <2>2, <2>3 DEF Types, Holding, Taking
    <2>7. Before'
      BY <2>1, <2>3, BeforeKept
    <2>8. Control'
      BY <2>1, <2>2, <2>3, <2>4, <2>5, ZenonT(60) DEF Control, Holding, Taking, InLoop, Thread
    <2>9. Counts'
      BY <2>1, <2>2, <2>3 DEF Counts, Thread
    <2>10. Apart'
      <3>1. \A o \in Object : next[o] # head
        BY <2>3, <2>5 DEF Apart
      <3>2. head \notin working
        BY DEF Apart
      <3>3. \A u \in Thread : u # t => at'[u] \notin Taking
        BY <2>3, <2>5 DEF Control
      <3>4. at'["system"] \in {"put", "link"} =>
                /\ t = "server"
                /\ info["system"] # head
        BY <2>3 DEF Apart, Thread
      <3>5. UNCHANGED <<next, head, working, taker>>
        BY <2>1
      <3> QED
        BY <2>3, <2>4, <2>5, <3>1, <3>2, <3>3, <3>4, <3>5 DEF Apart, Unlinked, Thread
    <2> QED
      BY <2>6, <2>7, <2>8, <2>9, <2>10
  <1> QED
    BY <1>1, <1>2 DEF GetFromHead

LEMMA EndOfListFInv ==
  ASSUME FInv, NEW t \in Thread, EndOfList(t)
  PROVE  FInv'
  <1> USE DEF FInv
  <1>1. /\ at[t] = "end" /\ at'[t] \in {"clear tail", "counting"}
        /\ \A u \in Thread : u # t => at'[u] = at[u]
        /\ at' = [at EXCEPT ![t] = at'[t]]
    BY GoesTo DEF EndOfList
  <1>2. UNCHANGED <<taker, Automates, head, tail, next, FreeFSMCount, SystemWorking, i, info, read, working, up>>
    BY DEF EndOfList, list, loop
  <1>3. Registered' = Registered /\ Empty' = Empty
    BY <1>2, SameTable
  <1>4. at' \in [Thread -> Holding \cup {"off", "while", "message", "returned", "get", "accept", "ended"}]
    BY <1>1 DEF Types, Holding, Taking
  <1>5. Types' /\ Before'
    BY <1>1, <1>2, <1>3, <1>4, BeforeKept DEF Types
  <1>6. Control' /\ Counts'
    BY <1>1, <1>2, <1>3 DEF Control, Counts, Holding, Taking, InLoop, Thread
  <1>7. Apart'
    BY <1>1, <1>2 DEF Apart, Unlinked, Taking, Thread, Control
  <1> QED
    BY <1>5, <1>6, <1>7

LEMMA CountDownFInv ==
  ASSUME FInv, NEW t \in Thread, CountDown(t)
  PROVE  FInv'
  <1> USE DEF FInv
  <1>1. CASE Ends
    BY <1>1, EndsFInv
  <1>2. CASE FreeFSMCount # 0 /\ Goes(t, "counting", "counted")
    <2>1. /\ read' = [read EXCEPT ![t] = FreeFSMCount]
          /\ UNCHANGED <<taker, Automates, head, tail, next, FreeFSMCount, SystemWorking, i, info, working, up>>
      BY <1>2 DEF CountDown, Ends, list, loop
    <2>2. Registered' = Registered /\ Empty' = Empty
      BY <2>1, SameTable
    <2>3. /\ at[t] = "counting" /\ at'[t] = "counted"
          /\ \A u \in Thread : u # t => at'[u] = at[u]
          /\ at' = [at EXCEPT ![t] = "counted"]
      BY <1>2, GoesTo
    <2>4. FreeFSMCount \in 1..MaxCount /\ FreeFSMCount \in Nat
      BY <1>2, FSMSystemAssumption DEF Types
    <2>5. Types'
      BY <2>1, <2>2, <2>3, <2>4 DEF Types, Holding, Taking
    <2>6. Before'
      BY <2>1, <2>3, BeforeKept
    <2>7. Control'
      BY <2>1, <2>2, <2>3 DEF Control, Holding, Taking, InLoop, Thread
    <2>8. Counts'
      <3>1. read'[t] = FreeFSMCount /\ \A u \in Thread : u # t => read'[u] = read[u]
        BY <2>1 DEF Types
      <3> QED
        BY <2>1, <2>2, <2>3, <2>4, <3>1 DEF Counts, Thread
    <2>9. Apart'
      BY <2>1, <2>3 DEF Apart, Unlinked, Taking, Thread, Control
    <2> QED
      BY <2>5, <2>6, <2>7, <2>8, <2>9
  <1> QED
    BY <1>1, <1>2 DEF CountDown

\* The last step of putting an automate back: nothing follows it yet, so it may follow
\* any other or be the head.
LEMMA LinkFInv ==
  ASSUME FInv, Link
  PROVE  FInv'
  <1> USE DEF FInv
  <1>1. UNCHANGED <<taker, Automates, tail, FreeFSMCount, SystemWorking, i, info, read, working>>
    BY DEF Link, loop
  <1>2. Registered' = Registered /\ Empty' = Empty
    BY <1>1, SameTable
  <1>3. "system" \in Thread /\ at["system"] = "link"
    BY DEF Link, Thread
  <1>4. PICK m : m = info["system"]
    OBVIOUS
  <1>5. m \in Registered /\ m \in Object /\ m # NULL
    BY <1>3, <1>4, HasAutomate DEF Holding
  <1>6. /\ m \notin working /\ m # head /\ Unlinked(m)
        /\ at["server"] \in Taking => info["server"] # m
    BY <1>3, <1>4 DEF Apart
  <1>7. CASE UNCHANGED <<at, head, next>>
    <2>1. Types' /\ Before'
      BY <1>1, <1>2, <1>7 DEF Types, Before
    <2>2. Control' /\ Counts' /\ Apart'
      BY <1>1, <1>2, <1>7 DEF Control, Counts, Apart, Unlinked
    <2> QED
      BY <2>1, <2>2
  <1>8. ASSUME Goes("system", "link", "tail")
        PROVE  /\ at'["system"] = "tail" /\ at'["server"] = at["server"]
               /\ at' = [at EXCEPT !["system"] = "tail"]
               /\ Control' /\ Counts' /\ Before'
    <2>1. /\ at'["system"] = "tail"
          /\ \A u \in Thread : u # "system" => at'[u] = at[u]
          /\ at' = [at EXCEPT !["system"] = "tail"]
      BY <1>3, <1>8, GoesTo
    <2>2. Before'
      BY <1>1, <1>3, <2>1, BeforeKept
    <2>3. Control' /\ Counts'
      BY <1>1, <1>2, <1>3, <2>1 DEF Control, Counts, Holding, Taking, InLoop, Thread
    <2> QED
      BY <2>1, <2>2, <2>3 DEF Thread
  <1>9. CASE head' = m /\ Goes("system", "link", "tail") /\ UNCHANGED next
    <2>1. Types'
      BY <1>1, <1>2, <1>5, <1>8, <1>9 DEF Types, Holding
    <2>2. Apart'
      BY <1>1, <1>3, <1>5, <1>6, <1>8, <1>9 DEF Apart, Unlinked, Thread, Taking
    <2> QED
      BY <1>8, <1>9, <2>1, <2>2
  <1>10. ASSUME NEW last \in Object, next' = [next EXCEPT ![last] = m],
                Goes("system", "link", "tail"), UNCHANGED head
         PROVE  FInv'
    <2>1. \A o \in Object : next'[o] = IF o = last THEN m ELSE next[o]
      BY <1>10 DEF Types
    <2>2. Types'
      BY <1>1, <1>2, <1>5, <1>8, <1>10 DEF Types, Holding
    <2>3. \A o : o # m /\ Unlinked(o) => Unlinked(o)'
      BY <2>1 DEF Unlinked
    <2>4. \A o \in Object : next[o] # m
      BY <1>6 DEF Unlinked
    <2>5. \A o, p \in Object : next'[o] = next'[p] /\ next'[o] # NULL => o = p
      BY <2>1, <2>4 DEF Apart
    <2>6. \A o \in Object :
              next'[o] = head /\ head # NULL => at[taker] = "clear" /\ info[taker] = o
      BY <1>6, <2>1 DEF Apart
    <2>7. at[taker] = "clear" => at'[taker] = "clear"
      BY <1>3, <1>8, <1>10 DEF Types, Thread
    <2>8. \A o \in working : o # head /\ Unlinked(o)'
      BY <1>6, <2>3 DEF Apart
    <2>9. \A u \in Thread :
              at'[u] \in Taking =>
                  /\ info[u] \notin working
                  /\ Unlinked(info[u])'
                  /\ at'[u] # "unlink" => info[u] # head
      <3>1. \A u \in Thread : at'[u] \in Taking => at[u] = at'[u] /\ info[u] # m
        BY <1>3, <1>6, <1>8, <1>10 DEF Thread, Taking
      <3> QED
        BY <1>1, <2>3, <3>1 DEF Apart
    <2>10. Apart'
      BY <1>1, <1>8, <1>10, <2>5, <2>6, <2>7, <2>8, <2>9 DEF Apart
    <2> QED
      BY <1>8, <1>10, <2>2, <2>10
  <1> QED
    <2>1. read["system"] \in Registered \cup {NULL} /\ tail \in Registered \cup {NULL}
      BY <1>3 DEF Counts, Types
    <2>2. \A last \in {read["system"], tail} \ {NULL} : last \in Object
      BY <2>1, RegisteredType
    <2> QED
      BY <1>4, <1>7, <1>9, <1>10, <2>2 DEF Link

LEMMA CountUpFInv ==
  ASSUME FInv, CountUp
  PROVE  FInv'
  <1> USE DEF FInv
  <1>1. UNCHANGED <<taker, Automates, head, tail, next, SystemWorking, i, info, working, up>>
    BY DEF CountUp, loop
  <1>2. Registered' = Registered /\ Empty' = Empty
    BY <1>1, SameTable
  <1>3. "system" \in Thread /\ MaxCount \in Nat
    BY FSMSystemAssumption DEF Thread
  <1>4. PICK r : read' = [read EXCEPT !["system"] = r] /\ r \in {FreeFSMCount, NULL}
    BY DEF CountUp
  <1>5. /\ at["system"] \in {"count", "store"}
        /\ at'["system"] = IF at["system"] = "count" THEN "store" ELSE "freed"
        /\ \A u \in Thread : u # "system" => at'[u] = at[u]
        /\ at' = [at EXCEPT !["system"] = at'["system"]]
    BY <1>3, GoesTo DEF CountUp
  <1>6. /\ FreeFSMCount' \in 0..MaxCount
        /\ at["system"] = "count" => FreeFSMCount' = FreeFSMCount /\ r = FreeFSMCount
    BY <1>3, <1>4, <1>5 DEF CountUp, Goes, Counts, Types
  <1>7. read'["system"] = r /\ \A u \in Thread : u # "system" => read'[u] = read[u]
    BY <1>3, <1>4 DEF Types
  <1>8. Types'
    <2>1. at' \in [Thread -> Holding \cup {"off", "while", "message", "returned", "get", "accept", "ended"}]
      BY <1>5 DEF Types, Holding
    <2>2. r \in {NULL} \cup Nat
      BY <1>3, <1>4 DEF Types
    <2>3. read' \in [Thread -> Registered \cup {NULL} \cup Nat]
      BY <1>4, <2>2 DEF Types
    <2> QED
      BY <1>1, <1>2, <1>6, <2>1, <2>3 DEF Types
  <1>9. Before'
    BY <1>1, <1>3, <1>5, BeforeKept
  <1>10. Control'
    BY <1>1, <1>2, <1>5 DEF Control, Holding, Taking, InLoop, Thread
  <1>11. Counts'
    <2>1. at'["system"] = "store" => r \in 0..(MaxCount - 1)
      BY <1>3, <1>5, <1>6 DEF Counts, Types
    <2> QED
      BY <1>1, <1>2, <1>5, <1>7, <2>1 DEF Counts, Thread
  <1>12. Apart'
    BY <1>1, <1>3, <1>5 DEF Apart, Unlinked, Taking, Thread, Control, Types
  <1> QED
    BY <1>8, <1>9, <1>10, <1>11, <1>12

-----------------------------------------------------------------------------
(* Steps of the threads that do not touch the list.                        *)

\* A thread goes from one place to another in which it takes no automate and puts none
\* back; it may forget its automate or take one of the table.
LEMMA MovesFInv ==
  ASSUME FInv, NEW t \in Thread, at[t] # "off" \/ Empty = {}, at'[t] # "off",
         at' = [at EXCEPT ![t] = at'[t]],
         at[t] \notin Taking, at'[t] \notin Taking,
         at'[t] \notin {"put", "link", "tail", "count", "store"},
         at'[t] \in {"while", "message", "returned", "get", "accept", "ended", "handler"},
         at'[t] = "get" => t = taker,
         t = "server" => at'[t] \in {"accept", "get", "ended"} /\ taker = "server",
         t = "system" => at'[t] # "connect",
         NEW o \in Registered \cup {NULL}, info' = [info EXCEPT ![t] = o],
         o # NULL <=> at'[t] \in Holding,
         i' \in 0..NumberOfMbx,
         at'["system"] \in InLoop => i' < NumberOfMbx,
         UNCHANGED <<taker, Automates, head, tail, next, FreeFSMCount, read, working>>
  PROVE  FInv'
  <1> USE DEF FInv
  <1>1. Registered' = Registered /\ Empty' = Empty
    BY SameTable
  <1>2. /\ \A u \in Thread : u # t => at'[u] = at[u] /\ info'[u] = info[u]
        /\ info'[t] = o
    BY DEF Types
  <1>3. Types'
    BY <1>1 DEF Types, Holding
  <1>4. Before'
    BY <1>1 DEF Before, Types
  <1>5. Control'
    BY <1>1, <1>2, ZenonT(40) DEF Control, Holding, Taking, InLoop, Thread
  <1>6. Counts'
    BY <1>1, <1>2 DEF Counts, Taking, Thread
  <1>7. Apart'
    BY <1>1, <1>2, ZenonT(40) DEF Apart, Unlinked, Taking, Thread, Types
  <1> QED
    BY <1>3, <1>4, <1>5, <1>6, <1>7

\* The place of a thread of which the steps below tell the new place
LEMMA Place ==
  ASSUME Types, NEW t \in Thread, NEW from, NEW to, Goes(t, from, to)
  PROVE  at[t] = from /\ at'[t] = to /\ at' = [at EXCEPT ![t] = at'[t]]
  BY GoesTo

LEMMA ServerFInv ==
  ASSUME FInv, InitTCPServer \/ WaitConnection \/ AcceptConnection
  PROVE  FInv'
  <1> USE DEF FInv
  <1>1. "server" \in Thread /\ "system" \in Thread
    BY DEF Thread
  <1>2. UNCHANGED <<taker, Automates, head, tail, next, FreeFSMCount, SystemWorking, i, read, working>>
    BY DEF InitTCPServer, WaitConnection, AcceptConnection, list, loop
  <1>3. /\ at["server"] \in {"off", "accept", "connect"}
        /\ at'["server"] \in {"accept", "get", "ended"}
        /\ at' = [at EXCEPT !["server"] = at'["server"]]
        /\ at["server"] # "off" \/ Empty = {}
        /\ at'["server"] = "get" => at["server"] = "accept"
    BY <1>1, Place DEF InitTCPServer, WaitConnection, AcceptConnection
  <1>4. taker = "server"
    BY <1>3 DEF InitTCPServer, Control, WaitConnection, AcceptConnection, Goes
  <1>5. info' = [info EXCEPT !["server"] = NULL]
    <2>1. CASE AcceptConnection
      BY <2>1 DEF AcceptConnection
    <2>2. CASE InitTCPServer \/ WaitConnection
      <3>1. info' = info
        BY <2>2 DEF InitTCPServer, WaitConnection
      <3>2. at["server"] \in {"off", "accept"}
        BY <2>2 DEF InitTCPServer, WaitConnection, Goes
      <3>3. info["server"] = NULL
        BY <1>1, <3>2 DEF Control, Holding, Taking
      <3> QED
        BY <3>1, <3>3 DEF Types
    <2> QED
      BY <2>1, <2>2
  <1>6. at'["system"] = at["system"]
    BY <1>1, <1>3 DEF Types
  <1> QED
    BY <1>1, <1>2, <1>3, <1>4, <1>5, <1>6, MovesFInv DEF Types, Control, Holding, Taking

LEMMA SystemFInv ==
  ASSUME FInv,
         \/ Start \/ While \/ Discard \/ ForAny \/ Processed
         \/ \E n \in DOMAIN Automates : ForObject(n)
  PROVE  FInv'
  <1> USE DEF FInv
  <1>1. "server" \in Thread /\ "system" \in Thread /\ NumberOfMbx \in Nat \ {0}
    BY FSMSystemAssumption DEF Thread
  <1>2. UNCHANGED <<taker, Automates, head, tail, next, FreeFSMCount, read, working>>
    BY DEF Start, While, Discard, ForAny, Processed, ForObject, list, loop
  <1>3. /\ at["system"] \in {"off", "while", "message", "handler", "freed"}
        /\ at'["system"] \in {"while", "message", "returned", "get", "handler"}
        /\ at' = [at EXCEPT !["system"] = at'["system"]]
        /\ at["system"] # "off" \/ Empty = {}
        /\ at'["system"] = "get" => taker = "system"
    <2>1. CASE Start
      BY <1>1, <2>1, Place DEF Start
    <2>2. CASE While
      BY <1>1, <2>2, Place DEF While
    <2>3. CASE Discard
      BY <1>1, <2>3, Place DEF Discard, Continue
    <2>4. CASE ForAny
      BY <1>1, <2>4, Place DEF ForAny
    <2>5. CASE Processed
      BY <1>1, <2>5, Place DEF Processed, Continue
    <2>6. CASE \E n \in DOMAIN Automates : ForObject(n)
      BY <1>1, <2>6, Place DEF ForObject
    <2> QED
      BY <2>1, <2>2, <2>3, <2>4, <2>5, <2>6
  <1>4. i' \in 0..NumberOfMbx /\ (at'["system"] \in InLoop => i' < NumberOfMbx)
    <2>1. i \in 0..NumberOfMbx /\ i \in Nat /\ (at["system"] \in InLoop => i < NumberOfMbx)
      BY <1>1 DEF Types, Control
    <2>2. CASE Start
      <3>1. at'["system"] = "while" /\ i' = i
        BY <1>1, <2>2, Place DEF Start
      <3>2. "while" \notin InLoop
        BY DEF InLoop, Holding, Taking
      <3> QED
        BY <2>1, <3>1, <3>2
    <2>3. CASE While
      BY <1>1, <2>3 DEF While
    <2>4. CASE Discard \/ Processed
      <3>1. at["system"] \in InLoop /\ at'["system"] = Continue /\ i' = i + 1
        BY <1>1, <2>4, Place DEF Discard, Processed, InLoop, Holding
      <3>2. "while" \notin InLoop
        BY DEF InLoop, Holding, Taking
      <3>3. i \in Nat /\ i < NumberOfMbx
        BY <2>1, <3>1
      <3>4. i' \in 0..NumberOfMbx
        BY <1>1, <3>1, <3>3
      <3>5. CASE i + 1 < NumberOfMbx
        BY <3>1, <3>4, <3>5
      <3>6. CASE ~ (i + 1 < NumberOfMbx)
        BY <3>1, <3>2, <3>4, <3>6 DEF Continue
      <3> QED
        BY <3>5, <3>6
    <2>5. CASE ForAny \/ \E n \in DOMAIN Automates : ForObject(n)
      <3>1. at["system"] \in InLoop /\ i' = i
        BY <2>5 DEF ForAny, ForObject, Goes, InLoop, loop
      <3> QED
        BY <1>1, <2>1, <3>1
    <2> QED
      BY <2>2, <2>3, <2>4, <2>5
  <1>5. PICK o \in Registered \cup {NULL} :
            /\ info' = [info EXCEPT !["system"] = o]
            /\ o # NULL <=> at'["system"] \in Holding
    <2>1. CASE \E n \in DOMAIN Automates : ForObject(n)
      <3>1. PICK n \in DOMAIN Automates : ForObject(n)
        BY <2>1
      <3>2. at["system"] # "off" /\ at'["system"] = "handler"
        BY <1>1, <3>1, Place DEF ForObject
      <3>3. Empty = {}
        BY <1>1, <3>2 DEF Before
      <3>4. Automates[n] \in Registered /\ Automates[n] # NULL
        BY <3>3 DEF Empty, Registered
      <3> QED
        BY <3>1, <3>2, <3>4 DEF ForObject, Holding
    <2>2. CASE Processed
      <3>1. at'["system"] \in {"while", "message"}
        BY <1>1, <2>2, Place DEF Processed, Continue
      <3> QED
        BY <2>2, <3>1 DEF Processed, Holding, Taking
    <2>3. CASE Start \/ While \/ Discard \/ ForAny
      <3>1. info' = info /\ at["system"] \in {"off", "while", "message"}
        BY <2>3 DEF Start, While, Discard, ForAny, Goes
      <3>2. at'["system"] \in {"while", "message", "returned", "get"}
        BY <1>1, <2>3, Place DEF Start, While, Discard, ForAny, Continue
      <3>3. info["system"] = NULL
        BY <1>1, <3>1 DEF Control, Holding, Taking
      <3> QED
        BY <3>1, <3>2, <3>3 DEF Types, Holding, Taking
    <2> QED
      BY <2>1, <2>2, <2>3
  <1> QED
    BY <1>1, <1>2, <1>3, <1>4, <1>5, MovesFInv, ZenonT(60) DEF Types, Control, Holding, Taking

LEMMA StopSystemFInv == ASSUME FInv, StopSystem PROVE FInv'
  <1>1. UNCHANGED <<taker, Automates, head, tail, next, FreeFSMCount, i, at, info, read, working>>
    BY DEF StopSystem, list
  <1>2. Registered' = Registered /\ Empty' = Empty
    BY <1>1, SameTable
  <1>3. Types' /\ Before'
    BY <1>1, <1>2 DEF FInv, Types, Before
  <1>4. Control' /\ Counts' /\ Apart'
    BY <1>1, <1>2 DEF FInv, Control, Counts, Apart, Unlinked
  <1> QED
    BY <1>3, <1>4 DEF FInv

LEMMA StutterFInv == ASSUME FInv, UNCHANGED vars PROVE FInv'
  <1>1. UNCHANGED <<taker, Automates, head, tail, next, FreeFSMCount, i, at, info, read, working>>
    BY DEF vars, list, loop
  <1>2. Registered' = Registered /\ Empty' = Empty
    BY <1>1, SameTable
  <1>3. Types' /\ Before'
    BY <1>1, <1>2 DEF FInv, Types, Before
  <1>4. Control' /\ Counts' /\ Apart'
    BY <1>1, <1>2 DEF FInv, Control, Counts, Apart, Unlinked
  <1> QED
    BY <1>3, <1>4 DEF FInv

-----------------------------------------------------------------------------
(* Adding an automate before the threads run.                              *)

\* Entries that have an automate
Filled == DOMAIN Automates \ Empty

LEMMA FilledFinite ==
  ASSUME Types
  PROVE  /\ IsFiniteSet(Filled)
         /\ Cardinality(Filled) \in Nat
         /\ Cardinality(Filled) <= NumberOfObjects
         /\ Empty # {} => Cardinality(Filled) < NumberOfObjects
  <1>1. DOMAIN Automates = 0..(NumberOfObjects - 1) /\ NumberOfObjects \in Nat \ {0}
    BY FSMSystemAssumption DEF Types
  <1>2. IsFiniteSet(DOMAIN Automates) /\ Cardinality(DOMAIN Automates) = NumberOfObjects
    BY <1>1, FS_Interval
  <1>3. Filled \in SUBSET DOMAIN Automates
    BY DEF Filled
  <1>4. /\ IsFiniteSet(Filled)
        /\ Cardinality(Filled) <= NumberOfObjects
        /\ NumberOfObjects = Cardinality(Filled) => DOMAIN Automates = Filled
    BY <1>2, <1>3, FS_Subset
  <1>5. Cardinality(Filled) \in Nat
    BY <1>4, FS_CardinalityType
  <1>6. Empty # {} => Filled # DOMAIN Automates
    BY DEF Filled, Empty
  <1> QED
    BY <1>1, <1>4, <1>5, <1>6

\* There is another automate for an empty entry.
LEMMA NewAutomate ==
  ASSUME Types, Empty # {}
  PROVE  \E o \in Object : o \notin Registered
  <1> DEFINE f == [n \in Filled |-> Automates[n]]
  <1>1. f \in Surjection(Filled, Registered)
    BY DEF Surjection, Filled, Registered, Empty
  <1>2. IsFiniteSet(Registered) /\ Cardinality(Registered) <= Cardinality(Filled)
    BY <1>1, FilledFinite, FS_Surjection
  <1>3. Cardinality(Registered) \in Nat /\ Cardinality(Object) \in Nat
    BY <1>2, FS_CardinalityType, FSMSystemAssumption
  <1>4. Cardinality(Registered) < Cardinality(Object)
    BY <1>2, <1>3, FilledFinite, FSMSystemAssumption
  <1>5. Registered # Object
    BY <1>3, <1>4
  <1> QED
    BY <1>5, RegisteredType

LEMMA AddFInv ==
  ASSUME FInv, Add
  PROVE  FInv'
  <1> USE DEF FInv
  <1>1. /\ at = [t \in Thread |-> "off"]
        /\ Empty # {}
        /\ UNCHANGED <<taker, SystemWorking, i, at, info, read, working, up>>
    BY DEF Add, loop
  <1>2. PICK o \in Object : o = CHOOSE p \in Object : p \notin Registered
    BY <1>1, NewAutomate
  <1>3. o \notin Registered /\ o # NULL
    BY <1>1, <1>2, NewAutomate, FSMSystemAssumption
  <1>4. PICK n : n = Min(Empty)
    OBVIOUS
  <1>5. n \in Empty /\ n \in DOMAIN Automates /\ Automates[n] = NULL
    <2>1. Empty \in SUBSET Nat
      BY FSMSystemAssumption DEF Types, Empty
    <2>2. n \in Empty
      BY <1>1, <1>4, <2>1, MinOfNats
    <2> QED
      BY <2>2 DEF Empty
  <1>6. /\ Automates' = [Automates EXCEPT ![n] = o]
        /\ next' = [p \in Object |-> IF p = tail THEN o ELSE IF p = o THEN NULL ELSE next[p]]
        /\ head' = IF tail = NULL THEN o ELSE head
        /\ tail' = o
        /\ FreeFSMCount' = FreeFSMCount + 1
    BY <1>2, <1>4 DEF Add
  <1>7. /\ DOMAIN Automates' = DOMAIN Automates
        /\ \A m \in DOMAIN Automates : Automates'[m] = IF m = n THEN o ELSE Automates[m]
        /\ Automates' \in [0..(NumberOfObjects - 1) -> Object \cup {NULL}]
    BY <1>5, <1>6 DEF Types
  <1>8. Registered' = Registered \cup {o}
    BY <1>3, <1>5, <1>7 DEF Registered
  <1>9. Filled' = Filled \cup {n} /\ n \notin Filled
    BY <1>3, <1>5, <1>7 DEF Filled, Empty
  <1>10. FreeFSMCount' = Cardinality(Filled') /\ FreeFSMCount' \in 0..MaxCount
    <2>1. FreeFSMCount = Cardinality(Filled)
      BY <1>1 DEF Before, Filled
    <2>2. Cardinality(Filled') = Cardinality(Filled) + 1
      BY <1>9, FilledFinite, FS_AddElement
    <2> QED
      BY <1>1, <1>6, <2>1, <2>2, FilledFinite, FSMSystemAssumption
  <1>11. \A p \in Object : next'[p] = IF p = tail THEN o ELSE IF p = o THEN NULL ELSE next[p]
    BY <1>6
  <1>12. Types'
    <2>1. next' \in [Object -> Registered' \cup {NULL}]
      BY <1>6, <1>8 DEF Types
    <2> QED
      BY <1>1, <1>6, <1>7, <1>8, <1>10, <2>1 DEF Types
  <1>13. Before'
    BY <1>1, <1>10 DEF Before, Filled
  <1>14. Control'
    BY <1>1 DEF Control
  <1>15. Counts'
    BY <1>1 DEF Counts, Thread
  <1>16. Apart'
    <2>1. \A p \in Object : next[p] # o
      BY <1>3 DEF Types
    <2>2. \A p, q \in Object : next'[p] = next'[q] /\ next'[p] # NULL => p = q
      BY <1>11, <2>1 DEF Apart
    <2>3. \A t \in Thread : at[t] = "off" /\ at'[t] = "off"
      BY <1>1
    <2>4. \A p \in Object : head # NULL => next[p] # head
      BY <2>3 DEF Apart, Types
    <2>5. \A p \in Object : ~ (next'[p] = head' /\ head' # NULL)
      <3>1. CASE tail = NULL
        BY <1>6, <1>11, <2>1, <3>1, FSMSystemAssumption
      <3>2. CASE tail # NULL
        BY <1>3, <1>6, <1>11, <2>4, <3>2 DEF Types
      <3> QED
        BY <3>1, <3>2
    <2>6. \A w \in working : w # head' /\ \A p \in Object : next'[p] # w
      <3>1. \A w \in working : w # o /\ w # NULL /\ w # head /\ \A p \in Object : next[p] # w
        BY <1>3, RegisteredType DEF Apart, Types, Unlinked
      <3> QED
        BY <1>6, <1>11, <3>1
    <2>7. "system" \in Thread
      BY DEF Thread
    <2> QED
      BY <1>1, <2>2, <2>3, <2>5, <2>6, <2>7 DEF Apart, Unlinked, Taking
  <1> QED
    BY <1>12, <1>13, <1>14, <1>15, <1>16

LEMMA InitFInv == Init => FInv
  <1> SUFFICES ASSUME Init PROVE FInv
    OBVIOUS
  <1>1. Types
    BY FSMSystemAssumption DEF Init, Types, Registered
  <1>2. Before
    <2>1. DOMAIN Automates \ Empty = {}
      BY DEF Init, Empty
    <2> QED
      BY <2>1, FS_EmptySet DEF Init, Before
  <1>3. Control /\ Counts
    BY DEF Init, Control, Counts, Holding, Taking, InLoop, Thread
  <1>4. Apart
    BY DEF Init, Apart, Unlinked, Taking, Thread
  <1> QED
    BY <1>1, <1>2, <1>3, <1>4 DEF FInv

LEMMA GetFInv ==
  ASSUME FInv, NEW t \in Thread, Get(t)
  PROVE  FInv'
  BY GetFromHeadFInv, UnlinkFInv, ClearNextFInv, EndOfListFInv, ClearTailFInv, CountDownFInv, GotFInv
     DEF Get

LEMMA PutBackFInv ==
  ASSUME FInv, PutBack
  PROVE  FInv'
  BY FreeFSMFInv, ReadTailFInv, LinkFInv, SetTailFInv, CountUpFInv DEF PutBack

LEMMA NextFInv == FInv /\ [Next]_vars => FInv'
  <1> SUFFICES ASSUME FInv, [Next]_vars PROVE FInv'
    OBVIOUS
  <1>1. CASE Add
    BY <1>1, AddFInv
  <1>2. CASE InitTCPServer
    BY <1>2, ServerFInv
  <1>3. CASE SystemThread
    <2>1. "system" \in Thread
      BY DEF Thread
    <2> QED
      BY <1>3, <2>1, SystemFInv, GetFInv, PutBackFInv DEF SystemThread
  <1>4. CASE ServerThread
    <2>1. "server" \in Thread
      BY DEF Thread
    <2> QED
      BY <1>4, <2>1, ServerFInv, GetFInv DEF ServerThread
  <1>5. CASE StopSystem
    BY <1>5, StopSystemFInv
  <1>6. CASE UNCHANGED vars
    BY <1>6, StutterFInv
  <1> QED
    BY <1>1, <1>2, <1>3, <1>4, <1>5, <1>6 DEF Next

-----------------------------------------------------------------------------
(* The theorems.                                                           *)

\* Whatever the two threads do to the unprotected list of free automates
\* (fsmSystem.cpp:49-66): no automate follows two others, and an automate that works, is
\* being taken or is being put back is not in it.
THEOREM FreeListApart == Spec => []FInv
  <1>1. Init => FInv
    BY InitFInv
  <1>2. FInv /\ [Next]_vars => FInv'
    BY NextFInv
  <1> QED
    BY <1>1, <1>2, PTL DEF Spec

\* The pointers of the list and of the threads are pointers to automates that were added,
\* and each thread has one wherever the code uses it.
THEOREM PointersToAutomates == Spec => []TypeOK
  <1>1. FInv => TypeOK
    <2> SUFFICES ASSUME FInv PROVE TypeOK
      OBVIOUS
    <2>1. {head, tail} \cup {next[o] : o \in Object} \subseteq Registered \cup {NULL}
      BY DEF FInv, Types
    <2>2. FreeFSMCount \in 0..MaxCount /\ working \subseteq Registered /\ i \in 0..NumberOfMbx
      BY DEF FInv, Types
    <2>3. \A t \in Thread : info[t] # NULL <=> at[t] \in Holding
      BY DEF FInv, Control
    <2> QED
      BY <2>1, <2>2, <2>3 DEF TypeOK, Holding
  <1> QED
    BY <1>1, FreeListApart, PTL

\* Get never hands out an automate that is at work, for a message or for a connection
\* (fsmSystem.cpp:281-293, systemTCP.cpp:212-214), although the list has no lock.
THEOREM NoAutomateTwice == Spec => []HandedOutOnce
  <1>1. FInv => HandedOutOnce
    BY DEF FInv, Apart, HandedOutOnce
  <1> QED
    BY <1>1, FreeListApart, PTL

-----------------------------------------------------------------------------
(* One thread: the list is a sequence s of the automates that do not work. *)

\* Places in which the automate being taken is out of the list but counted, and in which
\* the one being put back is in the list but not counted
Unlinking == {"clear", "end", "clear tail", "counting", "counted"}
Uncounted == {"tail", "count", "store"}

\* The automate that neither works nor is in the list
Away == IF at["system"] \in Unlinking \cup {"put", "link"} THEN {info["system"]} ELSE {}

\* The pointers lead from head along s, which has the free automates.
Linked(s) ==
    /\ s \in Seq(Object)
    /\ Distinct(s)
    /\ ToSet(s) = (Registered \ working) \ Away
    /\ head = IF s = <<>> THEN NULL ELSE s[1]
    /\ \A k \in 1..Len(s) : next[s[k]] = IF k = Len(s) THEN NULL ELSE s[k + 1]

\* What tail is, and what the thread knows of the automate it deals with
Ended(s) ==
    CASE at["system"] \in {"clear", "end"} ->
            tail = IF s = <<>> THEN info["system"] ELSE s[Len(s)]
      [] at["system"] = "clear tail" -> s = <<>>
      [] at["system"] = "tail" -> s # <<>> /\ s[Len(s)] = info["system"]
      [] OTHER ->
            /\ tail = IF s = <<>> THEN NULL ELSE s[Len(s)]
            /\ at["system"] = "unlink" => s # <<>> /\ info["system"] = s[1]
            /\ at["system"] \in {"put", "link"} => next[info["system"]] = NULL
            /\ at["system"] = "link" => read["system"] = tail

Counted(s) ==
    /\ at["system"] \in Unlinking => FreeFSMCount = Len(s) + 1
    /\ at["system"] \in Uncounted => FreeFSMCount + 1 = Len(s)
    /\ at["system"] \notin Unlinking \cup Uncounted => FreeFSMCount = Len(s)
    /\ at["system"] \in {"counted", "store"} => read["system"] = FreeFSMCount

Exact(s) == Linked(s) /\ Ended(s) /\ Counted(s)

\* With one thread the list is exact, and the process ends in Get only, with an empty list.
ListInv ==
    taker = "system" =>
        /\ \E s \in Seq(Object) : Exact(s)
        /\ ~ up => at["system"] = "get" /\ working = Registered

\* The sequence and its elements
LEMMA ListElements ==
  ASSUME NEW s, Linked(s)
  PROVE  /\ s \in Seq(Object) /\ Len(s) \in Nat /\ DOMAIN s = 1..Len(s)
         /\ s = <<>> <=> Len(s) = 0
         /\ \A k \in 1..Len(s) : s[k] \in Object /\ s[k] \in ToSet(s)
         /\ ToSet(s) = {s[k] : k \in 1..Len(s)}
         /\ s # <<>> => 1 \in 1..Len(s) /\ Len(s) \in 1..Len(s)
  <1>1. s \in Seq(Object) /\ Len(s) \in Nat /\ DOMAIN s = 1..Len(s) /\ (s = <<>> <=> Len(s) = 0)
    BY EmptySeq DEF Linked
  <1>2. ToSet(s) = {s[k] : k \in 1..Len(s)}
    BY <1>1, ToSetIs
  <1>3. \A k \in 1..Len(s) : s[k] \in Object
    BY <1>1, ElementOfSeq
  <1> QED
    BY <1>1, <1>2, <1>3

\* The same elements under the same pointers are linked as before.
LEMMA LinkedKept ==
  ASSUME NEW s, Linked(s), UNCHANGED head,
         \A o \in ToSet(s) : next'[o] = next[o],
         ((Registered \ working) \ Away)' = (Registered \ working) \ Away
  PROVE  Linked(s)'
  BY ListElements DEF Linked

\* A new last element
LEMMA LinkedAppend ==
  ASSUME NEW s, Linked(s), NEW e \in Object, e \notin ToSet(s),
         head' = IF s = <<>> THEN e ELSE head,
         \A o \in ToSet(s) : next'[o] = IF o = s[Len(s)] THEN e ELSE next[o],
         next'[e] = NULL,
         ((Registered \ working) \ Away)' = ToSet(s) \cup {e}
  PROVE  \E r \in Seq(Object) :
            /\ Linked(r)'
            /\ Len(r) = Len(s) + 1 /\ r # <<>> /\ r[Len(r)] = e
  <1>1. /\ s \in Seq(Object) /\ Len(s) \in Nat
        /\ s = <<>> <=> Len(s) = 0
        /\ \A k \in 1..Len(s) : s[k] \in Object /\ s[k] \in ToSet(s)
        /\ s # <<>> => 1 \in 1..Len(s) /\ Len(s) \in 1..Len(s)
    BY ListElements
  <1>2. PICK r : r = Append(s, e)
    OBVIOUS
  <1>3. /\ r \in Seq(Object) /\ r # <<>> /\ ToSet(r) = ToSet(s) \cup {e} /\ Distinct(r)
    BY <1>1, <1>2, AppendDistinct DEF Linked
  <1>4. /\ Len(r) = Len(s) + 1 /\ r[Len(s) + 1] = e
        /\ \A k \in 1..Len(s) : r[k] = s[k]
    BY <1>1, <1>2, AppendProperties
  <1>5. head' = r[1]
    BY <1>1, <1>4 DEF Linked
  <1>6. ASSUME NEW k \in 1..Len(r)
        PROVE  next'[r[k]] = IF k = Len(r) THEN NULL ELSE r[k + 1]
    <2>1. CASE k = Len(s) + 1
      BY <1>4, <2>1
    <2>2. CASE k = Len(s) /\ k # Len(s) + 1
      <3>1. k \in 1..Len(s) /\ r[k] = s[Len(s)] /\ k # Len(r) /\ r[k + 1] = e
        BY <1>1, <1>4, <2>2
      <3> QED
        BY <1>1, <2>2, <3>1
    <2>3. CASE k < Len(s)
      <3>1. k \in 1..Len(s) /\ k + 1 \in 1..Len(s) /\ k # Len(s) /\ k # Len(r) /\ Len(s) \in 1..Len(s)
        BY <1>1, <1>4, <2>3
      <3>2. s[k] # s[Len(s)]
        BY <3>1 DEF Linked, Distinct
      <3>3. next[s[k]] = s[k + 1]
        BY <3>1 DEF Linked
      <3> QED
        BY <1>1, <1>4, <3>1, <3>2, <3>3
    <2> QED
      BY <1>1, <1>4, <2>1, <2>2, <2>3
  <1> QED
    BY <1>3, <1>4, <1>5, <1>6 DEF Linked

\* Without the first element
LEMMA LinkedTail ==
  ASSUME NEW s, Linked(s), s # <<>>, head' = next[s[1]], UNCHANGED next,
         ((Registered \ working) \ Away)' = ToSet(s) \ {s[1]}
  PROVE  \E r \in Seq(Object) :
            /\ Linked(r)'
            /\ Len(s) = Len(r) + 1
            /\ s[Len(s)] = IF r = <<>> THEN s[1] ELSE r[Len(r)]
  <1>1. /\ s \in Seq(Object) /\ Len(s) \in Nat /\ Len(s) # 0
        /\ \A k \in 1..Len(s) : next[s[k]] = IF k = Len(s) THEN NULL ELSE s[k + 1]
    BY ListElements DEF Linked
  <1>2. PICK r : r = Tail(s)
    OBVIOUS
  <1>3. /\ r \in Seq(Object) /\ ToSet(r) = ToSet(s) \ {s[1]} /\ Distinct(r)
    <2>1. Head(s) = s[1]
      BY <1>1
    <2> QED
      BY <1>1, <1>2, <2>1, TailDistinct DEF Linked
  <1>4. /\ Len(r) \in Nat /\ Len(s) = Len(r) + 1 /\ (r = <<>> <=> Len(r) = 0)
        /\ \A k \in 1..Len(r) : r[k] = s[k + 1]
    <2>1. Len(Tail(s)) = Len(s) - 1 /\ \A k \in 1..(Len(s) - 1) : Tail(s)[k] = s[k + 1]
      BY <1>1
    <2>2. Len(r) = Len(s) - 1
      BY <1>2, <2>1
    <2>3. r = <<>> <=> Len(r) = 0
      BY <1>3, EmptySeq
    <2>4. Len(r) \in Nat /\ Len(s) = Len(r) + 1 /\ Len(s) - 1 = Len(r)
      BY <1>1, <1>3, <2>2
    <2>5. \A k \in 1..Len(r) : r[k] = s[k + 1]
      BY <1>2, <2>1, <2>4
    <2> QED
      BY <2>3, <2>4, <2>5
  <1>5. head' = IF r = <<>> THEN NULL ELSE r[1]
    <2>1. 1 \in 1..Len(s) /\ (Len(r) # 0 => 1 \in 1..Len(r))
      BY <1>1, <1>4
    <2> QED
      BY <1>1, <1>4, <2>1
  <1>6. ASSUME NEW k \in 1..Len(r)
        PROVE  next'[r[k]] = IF k = Len(r) THEN NULL ELSE r[k + 1]
    <2>1. k + 1 \in 1..Len(s) /\ (k + 1 = Len(s) <=> k = Len(r)) /\ (k # Len(r) => k + 1 \in 1..Len(r))
      BY <1>4
    <2> QED
      BY <1>1, <1>4, <2>1
  <1>7. s[Len(s)] = IF r = <<>> THEN s[1] ELSE r[Len(r)]
    <2>1. r # <<>> => Len(r) \in 1..Len(r)
      BY <1>4
    <2> QED
      BY <1>4, <2>1
  <1> QED
    BY <1>3, <1>4, <1>5, <1>6, <1>7 DEF Linked

-----------------------------------------------------------------------------
\* With one thread, the server thread does not run.
LEMMA OneThread ==
  ASSUME FInv, taker = "system"
  PROVE  at["server"] = "off"
  BY DEF FInv, Control

\* Places between two accesses to the list
AtRest == {"off", "while", "message", "returned", "get", "handler", "freed"}

\* The list is not touched.
LEMMA RestKept ==
  ASSUME NEW s \in Seq(Object), Exact(s), at["system"] \in AtRest, at'["system"] \in AtRest,
         UNCHANGED <<Automates, head, tail, next, FreeFSMCount, working>>
  PROVE  Exact(s)'
  <1>1. Registered' = Registered
    BY SameTable
  <1>2. Away = {} /\ Away' = {}
    BY DEF Away, AtRest, Unlinking
  <1>3. Linked(s)'
    BY <1>1, <1>2, LinkedKept DEF Exact
  <1>4. Ended(s)'
    BY DEF Exact, Ended, AtRest
  <1>5. Counted(s)'
    BY DEF Exact, Counted, AtRest, Unlinking, Uncounted
  <1> QED
    BY <1>3, <1>4, <1>5 DEF Exact

\* All that Exact speaks of stays.
LEMMA SameExact ==
  ASSUME NEW s \in Seq(Object), Exact(s), UNCHANGED <<Automates, at, head, tail, next, FreeFSMCount, info, read, working>>
  PROVE  Exact(s)'
  <1>1. Registered' = Registered
    BY SameTable
  <1>2. Away' = Away
    BY DEF Away
  <1>3. Linked(s)'
    BY <1>1, <1>2, LinkedKept DEF Exact
  <1>4. Ended(s)' /\ Counted(s)'
    BY DEF Exact, Ended, Counted
  <1> QED
    BY <1>3, <1>4 DEF Exact

\* Get throws when all automates work.
LEMMA GetFromHeadExact ==
  ASSUME FInv, NEW s \in Seq(Object), Exact(s), GetFromHead("system")
  PROVE  /\ Exact(s)'
         /\ ~ up' => at'["system"] = "get" /\ working' = Registered'
  <1>0. "system" \in Thread /\ at["system"] = "get"
    BY DEF Thread, GetFromHead
  <1>e. ToSet(s) = Registered \ working /\ head = IF s = <<>> THEN NULL ELSE s[1]
    BY <1>0 DEF Exact, Linked, Away, Unlinking
  <1>l. /\ \A k \in 1..Len(s) : s[k] \in Object
        /\ ToSet(s) = {s[k] : k \in 1..Len(s)}
        /\ s # <<>> => 1 \in 1..Len(s)
        /\ s = <<>> <=> Len(s) = 0
    BY ListElements DEF Exact
  <1>1. CASE head = NULL /\ Ends
    <2>1. s = <<>>
      BY <1>1, <1>e, <1>l, FSMSystemAssumption
    <2>2. working = Registered
      <3>1. ToSet(s) = {}
        BY <1>l, <2>1
      <3> QED
        BY <1>e, <3>1 DEF FInv, Types
    <2>3. UNCHANGED <<Automates, at, head, tail, next, FreeFSMCount, info, read, working>>
      BY <1>1 DEF Ends, list
    <2>4. Registered' = Registered
      BY <2>3, SameTable
    <2> QED
      BY <1>0, <2>2, <2>3, <2>4, SameExact
  <1>2. CASE head # NULL /\ Goes("system", "get", "unlink")
    <2>1. /\ info' = [info EXCEPT !["system"] = head]
          /\ UNCHANGED <<Automates, head, tail, next, FreeFSMCount, read, working, up>>
      BY <1>2 DEF GetFromHead, list
    <2>2. at'["system"] = "unlink"
      BY <1>0, <1>2, GoesTo DEF FInv
    <2>3. Registered' = Registered
      BY <2>1, SameTable
    <2>4. Away = {} /\ Away' = {}
      BY <1>0, <2>2 DEF Away, Unlinking
    <2>5. Linked(s)'
      BY <2>1, <2>3, <2>4, LinkedKept DEF Exact
    <2>6. info'["system"] = head
      BY <1>0, <2>1 DEF FInv, Types
    <2>7. Ended(s)'
      BY <1>0, <1>2, <1>e, <2>1, <2>2, <2>6 DEF Exact, Ended
    <2>8. Counted(s)'
      BY <1>0, <2>1, <2>2 DEF Exact, Counted, Unlinking, Uncounted
    <2>9. up'
      BY <1>2, <2>1 DEF Goes
    <2> QED
      BY <2>5, <2>7, <2>8, <2>9 DEF Exact
  <1> QED
    BY <1>1, <1>2 DEF GetFromHead

LEMMA UnlinkExact ==
  ASSUME FInv, NEW s \in Seq(Object), Exact(s), Unlink("system")
  PROVE  \E r \in Seq(Object) : Exact(r)'
  <1>0. "system" \in Thread
    BY DEF Thread
  <1>1. /\ at["system"] = "unlink" /\ at'["system"] = "clear"
    BY <1>0, GoesTo DEF FInv, Unlink
  <1>2. /\ head' = next[info["system"]]
        /\ UNCHANGED <<Automates, tail, next, FreeFSMCount, info, read, working>>
    BY DEF Unlink
  <1>3. s # <<>> /\ info["system"] = s[1] /\ tail = s[Len(s)]
    BY <1>1 DEF Exact, Ended
  <1>4. Registered' = Registered
    BY <1>2, SameTable
  <1>5. Away = {} /\ Away' = {s[1]} /\ ToSet(s) = Registered \ working
    BY <1>1, <1>2, <1>3 DEF Away, Unlinking, Exact, Linked
  <1>6. PICK r \in Seq(Object) :
            /\ Linked(r)'
            /\ Len(s) = Len(r) + 1
            /\ s[Len(s)] = IF r = <<>> THEN s[1] ELSE r[Len(r)]
    <2>1. ((Registered \ working) \ Away)' = ToSet(s) \ {s[1]}
      BY <1>2, <1>4, <1>5
    <2>2. head' = next[s[1]]
      BY <1>2, <1>3
    <2> QED
      BY <1>2, <1>3, <2>1, <2>2, LinkedTail DEF Exact
  <1>7. Ended(r)'
    BY <1>1, <1>2, <1>3, <1>6 DEF Ended
  <1>8. Counted(r)'
    BY <1>1, <1>2, <1>6 DEF Exact, Counted, Unlinking, Uncounted
  <1> QED
    BY <1>6, <1>7, <1>8 DEF Exact

LEMMA ClearNextExact ==
  ASSUME FInv, NEW s \in Seq(Object), Exact(s), ClearNext("system")
  PROVE  Exact(s)'
  <1>0. "system" \in Thread
    BY DEF Thread
  <1>1. /\ at["system"] = "clear" /\ at'["system"] = "end"
    BY <1>0, GoesTo DEF FInv, ClearNext
  <1>2. /\ next' = [next EXCEPT ![info["system"]] = NULL]
        /\ UNCHANGED <<Automates, head, tail, FreeFSMCount, info, read, working>>
    BY DEF ClearNext
  <1>3. Registered' = Registered
    BY <1>2, SameTable
  <1>4. Away = {info["system"]} /\ Away' = Away
    BY <1>1, <1>2 DEF Away, Unlinking
  <1>5. \A o \in ToSet(s) : next'[o] = next[o]
    <2>1. \A o \in ToSet(s) : o \in Object /\ o # info["system"]
      <3>1. Registered \subseteq Object
        BY RegisteredType DEF FInv
      <3> QED
        BY <1>4, <3>1 DEF Exact, Linked
    <2> QED
      BY <1>2, <2>1 DEF FInv, Types
  <1>6. Linked(s)'
    BY <1>2, <1>3, <1>4, <1>5, LinkedKept DEF Exact
  <1>7. Ended(s)'
    BY <1>1, <1>2 DEF Exact, Ended
  <1>8. Counted(s)'
    BY <1>1, <1>2 DEF Exact, Counted, Unlinking, Uncounted
  <1> QED
    BY <1>6, <1>7, <1>8 DEF Exact

LEMMA EndOfListExact ==
  ASSUME FInv, NEW s \in Seq(Object), Exact(s), EndOfList("system")
  PROVE  Exact(s)'
  <1>0. "system" \in Thread
    BY DEF Thread
  <1>1. /\ at["system"] = "end"
        /\ at'["system"] = IF head = NULL THEN "clear tail" ELSE "counting"
    BY <1>0, GoesTo DEF FInv, EndOfList
  <1>2. UNCHANGED <<Automates, head, next, tail, FreeFSMCount, info, read, working>>
    BY DEF EndOfList, list
  <1>3. Registered' = Registered
    BY <1>2, SameTable
  <1>4. Away' = Away
    BY <1>1, <1>2 DEF Away, Unlinking
  <1>6. Linked(s)'
    BY <1>2, <1>3, <1>4, LinkedKept DEF Exact
  <1>7. head = NULL <=> s = <<>>
    <2>1. s # <<>> => s[1] \in Object
      BY ListElements DEF Exact
    <2> QED
      BY <2>1, FSMSystemAssumption DEF Exact, Linked
  <1>8. Ended(s)'
    <2>1. CASE s = <<>>
      BY <1>1, <1>7, <2>1 DEF Ended
    <2>2. CASE s # <<>>
      <3>1. at'["system"] = "counting" /\ tail' = s[Len(s)]
        BY <1>1, <1>2, <1>7, <2>2 DEF Exact, Ended
      <3> QED
        BY <2>2, <3>1 DEF Ended
    <2> QED
      BY <2>1, <2>2
  <1>9. Counted(s)'
    BY <1>1, <1>2 DEF Exact, Counted, Unlinking, Uncounted
  <1> QED
    BY <1>6, <1>8, <1>9 DEF Exact

LEMMA ClearTailExact ==
  ASSUME FInv, NEW s \in Seq(Object), Exact(s), ClearTail("system")
  PROVE  Exact(s)'
  <1>0. "system" \in Thread
    BY DEF Thread
  <1>1. /\ at["system"] = "clear tail" /\ at'["system"] = "counting"
    BY <1>0, GoesTo DEF FInv, ClearTail
  <1>2. /\ tail' = NULL
        /\ UNCHANGED <<Automates, head, next, FreeFSMCount, info, read, working>>
    BY DEF ClearTail
  <1>3. Registered' = Registered
    BY <1>2, SameTable
  <1>4. Away' = Away
    BY <1>1, <1>2 DEF Away, Unlinking
  <1>6. Linked(s)'
    BY <1>2, <1>3, <1>4, LinkedKept DEF Exact
  <1>7. Ended(s)'
    BY <1>1, <1>2 DEF Exact, Ended
  <1>8. Counted(s)'
    BY <1>1, <1>2 DEF Exact, Counted, Unlinking, Uncounted
  <1> QED
    BY <1>6, <1>7, <1>8 DEF Exact

\* The automate that was unlinked is still counted.
LEMMA CountDownExact ==
  ASSUME FInv, NEW s \in Seq(Object), Exact(s), CountDown("system")
  PROVE  Exact(s)' /\ UNCHANGED up
  <1>0. "system" \in Thread /\ at["system"] = "counting"
    BY DEF Thread, CountDown
  <1>1. FreeFSMCount # 0
    <2>1. FreeFSMCount = Len(s) + 1 /\ Len(s) \in Nat
      BY <1>0, ListElements DEF Exact, Counted, Unlinking
    <2> QED
      BY <2>1
  <1>2. /\ Goes("system", "counting", "counted")
        /\ read' = [read EXCEPT !["system"] = FreeFSMCount]
        /\ UNCHANGED <<Automates, head, next, tail, FreeFSMCount, info, working, up>>
    BY <1>1 DEF CountDown, list
  <1>3. at'["system"] = "counted" /\ read'["system"] = FreeFSMCount
    BY <1>0, <1>2, GoesTo DEF FInv, Types
  <1>4. Registered' = Registered
    BY <1>2, SameTable
  <1>5. Away' = Away
    BY <1>0, <1>2, <1>3 DEF Away, Unlinking
  <1>6. Linked(s)'
    BY <1>2, <1>4, <1>5, LinkedKept DEF Exact
  <1>7. Ended(s)'
    BY <1>0, <1>2, <1>3 DEF Exact, Ended
  <1>8. Counted(s)'
    BY <1>0, <1>2, <1>3 DEF Exact, Counted, Unlinking, Uncounted
  <1> QED
    BY <1>2, <1>6, <1>7, <1>8 DEF Exact

LEMMA GotExact ==
  ASSUME FInv, NEW s \in Seq(Object), Exact(s), Got("system")
  PROVE  Exact(s)'
  <1>0. "system" \in Thread
    BY DEF Thread
  <1>1. /\ at["system"] = "counted" /\ at'["system"] = "handler"
    BY <1>0, GoesTo DEF FInv, Got
  <1>2. /\ FreeFSMCount' = read["system"] - 1
        /\ working' = working \cup {info["system"]}
        /\ UNCHANGED <<Automates, head, next, tail, info>>
    BY DEF Got
  <1>3. Registered' = Registered
    BY <1>2, SameTable
  <1>4. Away = {info["system"]} /\ Away' = {}
    BY <1>1, <1>2 DEF Away, Unlinking
  <1>5. Linked(s)'
    <2>1. ((Registered \ working) \ Away)' = (Registered \ working) \ Away
      BY <1>2, <1>3, <1>4
    <2> QED
      BY <1>2, <2>1, LinkedKept DEF Exact
  <1>6. Ended(s)'
    BY <1>1, <1>2 DEF Exact, Ended
  <1>7. Counted(s)'
    <2>1. read["system"] = Len(s) + 1 /\ Len(s) \in Nat
      BY <1>1, ListElements DEF Exact, Counted, Unlinking
    <2>2. FreeFSMCount' = Len(s)
      BY <1>2, <2>1
    <2> QED
      BY <1>1, <2>2 DEF Counted, Unlinking, Uncounted
  <1> QED
    BY <1>5, <1>6, <1>7 DEF Exact

LEMMA FreeFSMExact ==
  ASSUME FInv, NEW s \in Seq(Object), Exact(s), FreeFSM
  PROVE  Exact(s)'
  <1>0. "system" \in Thread
    BY DEF Thread
  <1>1. /\ at["system"] = "handler" /\ at'["system"] = "put"
    BY <1>0, GoesTo DEF FInv, FreeFSM
  <1>2. /\ info["system"] \in working
        /\ working' = working \ {info["system"]}
        /\ next' = [next EXCEPT ![info["system"]] = NULL]
        /\ UNCHANGED <<Automates, head, tail, FreeFSMCount, info>>
    BY DEF FreeFSM
  <1>3. Registered' = Registered
    BY <1>2, SameTable
  <1>4. Away = {} /\ Away' = {info["system"]}
    BY <1>1, <1>2 DEF Away, Unlinking
  <1>5. \A o \in Object : next'[o] = IF o = info["system"] THEN NULL ELSE next[o]
    BY <1>2 DEF FInv, Types
  <1>6. info["system"] \in Object
    BY <1>2, RegisteredType DEF FInv, Types
  <1>7. Linked(s)'
    <2>1. ((Registered \ working) \ Away)' = (Registered \ working) \ Away
      BY <1>2, <1>3, <1>4
    <2>2. \A o \in ToSet(s) : o \in Object /\ o # info["system"]
      <3>1. Registered \subseteq Object
        BY RegisteredType DEF FInv
      <3> QED
        BY <1>2, <3>1 DEF Exact, Linked
    <2> QED
      BY <1>2, <1>5, <2>1, <2>2, LinkedKept DEF Exact
  <1>8. Ended(s)'
    BY <1>1, <1>2, <1>5, <1>6 DEF Exact, Ended
  <1>9. Counted(s)'
    BY <1>1, <1>2 DEF Exact, Counted, Unlinking, Uncounted
  <1> QED
    BY <1>7, <1>8, <1>9 DEF Exact

LEMMA ReadTailExact ==
  ASSUME FInv, NEW s \in Seq(Object), Exact(s), ReadTail
  PROVE  Exact(s)'
  <1>0. "system" \in Thread
    BY DEF Thread
  <1>1. /\ at["system"] = "put" /\ at'["system"] = "link"
    BY <1>0, GoesTo DEF FInv, ReadTail
  <1>2. /\ read' = [read EXCEPT !["system"] = tail]
        /\ UNCHANGED <<Automates, head, tail, next, FreeFSMCount, info, working>>
    BY DEF ReadTail, list
  <1>3. Registered' = Registered
    BY <1>2, SameTable
  <1>4. Away' = Away
    BY <1>1, <1>2 DEF Away, Unlinking
  <1>5. Linked(s)'
    BY <1>2, <1>3, <1>4, LinkedKept DEF Exact
  <1>6. read'["system"] = tail
    BY <1>0, <1>2 DEF FInv, Types
  <1>7. Ended(s)'
    BY <1>1, <1>2, <1>6 DEF Exact, Ended
  <1>8. Counted(s)'
    BY <1>1, <1>2 DEF Exact, Counted, Unlinking, Uncounted
  <1> QED
    BY <1>5, <1>7, <1>8 DEF Exact

\* The tail that was read is still the tail.
LEMMA LinkExact ==
  ASSUME FInv, NEW s \in Seq(Object), Exact(s), Link
  PROVE  /\ UNCHANGED up
         /\ \E r \in Seq(Object) : Exact(r)'
  <1>0. "system" \in Thread /\ at["system"] = "link"
    BY DEF Thread, Link
  <1>1. /\ read["system"] = tail
        /\ tail = IF s = <<>> THEN NULL ELSE s[Len(s)]
        /\ next[info["system"]] = NULL
    BY <1>0 DEF Exact, Ended
  <1>2. /\ info["system"] \in Registered /\ info["system"] \in Object /\ info["system"] # NULL
        /\ info["system"] \notin working
    BY <1>0, HasAutomate DEF FInv, Holding, Apart
  <1>3. /\ UNCHANGED <<Automates, tail, FreeFSMCount, info, working, up>>
        /\ Goes("system", "link", "tail")
        /\ head' = IF tail = NULL THEN info["system"] ELSE head
        /\ next' = IF tail = NULL THEN next ELSE [next EXCEPT ![tail] = info["system"]]
    BY <1>1 DEF Link
  <1>4. at'["system"] = "tail"
    BY <1>0, <1>3, GoesTo DEF FInv
  <1>5. Registered' = Registered
    BY <1>3, SameTable
  <1>6. Away = {info["system"]} /\ Away' = {}
    BY <1>0, <1>3, <1>4 DEF Away, Unlinking
  <1>7. /\ ToSet(s) = (Registered \ working) \ {info["system"]}
        /\ ((Registered \ working) \ Away)' = ToSet(s) \cup {info["system"]}
    BY <1>2, <1>3, <1>5, <1>6 DEF Exact, Linked
  <1>8. tail = NULL <=> s = <<>>
    <2>1. s # <<>> => s[Len(s)] \in Object
      BY ListElements DEF Exact
    <2> QED
      BY <1>1, <2>1, FSMSystemAssumption
  <1>9. \A o \in Object : next'[o] = IF s # <<>> /\ o = s[Len(s)] THEN info["system"] ELSE next[o]
    BY <1>1, <1>3, <1>8 DEF FInv, Types
  <1>10. s # <<>> => s[Len(s)] \in ToSet(s)
    BY ListElements DEF Exact
  <1>11. \A o \in ToSet(s) : o \in Object
    BY <1>7, RegisteredType DEF FInv
  <1>12. PICK r \in Seq(Object) :
            /\ Linked(r)'
            /\ Len(r) = Len(s) + 1 /\ r # <<>> /\ r[Len(r)] = info["system"]
    <2>1. head' = IF s = <<>> THEN info["system"] ELSE head
      BY <1>3, <1>8
    <2>2. \A o \in ToSet(s) : next'[o] = IF o = s[Len(s)] THEN info["system"] ELSE next[o]
      <3>1. s = <<>> => ToSet(s) = {}
        BY ListElements DEF Exact
      <3> QED
        BY <1>9, <1>11, <3>1
    <2>3. info["system"] \notin ToSet(s)
      BY <1>7
    <2>4. next'[info["system"]] = NULL
      BY <1>1, <1>2, <1>9, <1>10, <2>3
    <2> QED
      BY <1>2, <1>7, <2>1, <2>2, <2>3, <2>4, LinkedAppend DEF Exact
  <1>13. Ended(r)'
    BY <1>3, <1>4, <1>12 DEF Ended
  <1>14. Counted(r)'
    BY <1>0, <1>3, <1>4, <1>12 DEF Exact, Counted, Unlinking, Uncounted
  <1> QED
    BY <1>3, <1>12, <1>13, <1>14 DEF Exact

LEMMA SetTailExact ==
  ASSUME FInv, NEW s \in Seq(Object), Exact(s), SetTail
  PROVE  Exact(s)'
  <1>0. "system" \in Thread
    BY DEF Thread
  <1>1. /\ at["system"] = "tail" /\ at'["system"] = "count"
    BY <1>0, GoesTo DEF FInv, SetTail
  <1>2. /\ tail' = info["system"]
        /\ UNCHANGED <<Automates, head, next, FreeFSMCount, info, working>>
    BY DEF SetTail
  <1>3. Registered' = Registered
    BY <1>2, SameTable
  <1>4. Away' = Away
    BY <1>1, <1>2 DEF Away, Unlinking
  <1>5. Linked(s)'
    BY <1>2, <1>3, <1>4, LinkedKept DEF Exact
  <1>6. Ended(s)'
    BY <1>1, <1>2 DEF Exact, Ended
  <1>7. Counted(s)'
    BY <1>1, <1>2 DEF Exact, Counted, Unlinking, Uncounted
  <1> QED
    BY <1>5, <1>6, <1>7 DEF Exact

LEMMA CountUpExact ==
  ASSUME FInv, NEW s \in Seq(Object), Exact(s), CountUp
  PROVE  Exact(s)'
  <1>0. "system" \in Thread
    BY DEF Thread
  <1>1. UNCHANGED <<Automates, head, tail, next, info, working>>
    BY DEF CountUp
  <1>2. /\ at["system"] \in Uncounted
        /\ \/ /\ at["system"] = "count" /\ at'["system"] = "store"
              /\ FreeFSMCount' = FreeFSMCount /\ read'["system"] = FreeFSMCount
           \/ /\ at["system"] = "store" /\ at'["system"] = "freed"
              /\ FreeFSMCount' = read["system"] + 1
    <2>1. CASE Goes("system", "count", "store")
      <3>1. at["system"] = "count" /\ at'["system"] = "store"
        BY <1>0, <2>1, GoesTo DEF FInv
      <3>2. read' = [read EXCEPT !["system"] = FreeFSMCount] /\ FreeFSMCount' = FreeFSMCount
        BY <3>1 DEF CountUp, Goes
      <3> QED
        BY <1>0, <3>1, <3>2 DEF FInv, Types, Uncounted
    <2>2. CASE Goes("system", "store", "freed")
      <3>1. at["system"] = "store" /\ at'["system"] = "freed"
        BY <1>0, <2>2, GoesTo DEF FInv
      <3>2. FreeFSMCount' = read["system"] + 1
        BY <3>1 DEF CountUp, Goes
      <3> QED
        BY <3>1, <3>2 DEF Uncounted
    <2> QED
      BY <2>1, <2>2 DEF CountUp
  <1>3. Registered' = Registered
    BY <1>1, SameTable
  <1>4. Away' = Away
    BY <1>1, <1>2 DEF Away, Unlinking, Uncounted
  <1>5. Linked(s)'
    BY <1>1, <1>3, <1>4, LinkedKept DEF Exact
  <1>6. Ended(s)'
    BY <1>1, <1>2 DEF Exact, Ended
  <1>7. Counted(s)'
    BY <1>2 DEF Exact, Counted, Unlinking, Uncounted
  <1> QED
    BY <1>5, <1>6, <1>7 DEF Exact

\* A new automate comes to the end of the list.
LEMMA AddExact ==
  ASSUME FInv, NEW s \in Seq(Object), Exact(s), Add
  PROVE  \E r \in Seq(Object) : Exact(r)'
  <1>1. /\ at = [t \in Thread |-> "off"]
        /\ Empty # {}
        /\ UNCHANGED <<at, info, working>>
    BY DEF Add
  <1>2. at["system"] = "off" /\ at'["system"] = "off"
    BY <1>1 DEF Thread
  <1>3. PICK o \in Object : o = CHOOSE p \in Object : p \notin Registered
    BY <1>1, NewAutomate DEF FInv
  <1>4. o \notin Registered /\ o # NULL
    BY <1>1, <1>3, NewAutomate, FSMSystemAssumption DEF FInv
  <1>5. PICK n : n = Min(Empty)
    OBVIOUS
  <1>6. n \in DOMAIN Automates /\ Automates[n] = NULL
    <2>1. Empty \in SUBSET Nat
      BY FSMSystemAssumption DEF FInv, Types, Empty
    <2>2. n \in Empty
      BY <1>1, <1>5, <2>1, MinOfNats
    <2> QED
      BY <2>2 DEF Empty
  <1>7. /\ Automates' = [Automates EXCEPT ![n] = o]
        /\ next' = [p \in Object |-> IF p = tail THEN o ELSE IF p = o THEN NULL ELSE next[p]]
        /\ head' = IF tail = NULL THEN o ELSE head
        /\ tail' = o
        /\ FreeFSMCount' = FreeFSMCount + 1
    BY <1>3, <1>5 DEF Add
  <1>8. Registered' = Registered \cup {o}
    <2>1. /\ DOMAIN Automates' = DOMAIN Automates
          /\ \A m \in DOMAIN Automates : Automates'[m] = IF m = n THEN o ELSE Automates[m]
      BY <1>6, <1>7 DEF FInv, Types
    <2> QED
      BY <1>4, <1>6, <2>1 DEF Registered
  <1>9. Away = {} /\ Away' = {}
    BY <1>2 DEF Away, Unlinking
  <1>10. /\ ToSet(s) = Registered \ working
         /\ ((Registered \ working) \ Away)' = ToSet(s) \cup {o}
         /\ o \notin ToSet(s)
    BY <1>1, <1>4, <1>8, <1>9 DEF FInv, Types, Exact, Linked
  <1>11. tail = IF s = <<>> THEN NULL ELSE s[Len(s)]
    BY <1>2 DEF Exact, Ended
  <1>12. /\ tail = NULL <=> s = <<>>
         /\ s # <<>> => tail \in ToSet(s)
    <2>1. s # <<>> => s[Len(s)] \in Object /\ s[Len(s)] \in ToSet(s)
      BY ListElements DEF Exact
    <2> QED
      BY <1>11, <2>1, FSMSystemAssumption
  <1>13. PICK r \in Seq(Object) :
            /\ Linked(r)'
            /\ Len(r) = Len(s) + 1 /\ r # <<>> /\ r[Len(r)] = o
    <2>1. head' = IF s = <<>> THEN o ELSE head
      BY <1>7, <1>12
    <2>2. \A p \in ToSet(s) : next'[p] = IF p = s[Len(s)] THEN o ELSE next[p]
      <3>1. s = <<>> => ToSet(s) = {}
        BY ListElements DEF Exact
      <3>2. \A p \in ToSet(s) : p \in Object /\ p # o
        BY <1>10, RegisteredType DEF FInv
      <3> QED
        BY <1>7, <1>11, <3>1, <3>2
    <2>3. next'[o] = NULL
      BY <1>4, <1>7, <1>10, <1>12
    <2> QED
      BY <1>10, <2>1, <2>2, <2>3, LinkedAppend DEF Exact
  <1>14. Ended(r)'
    BY <1>2, <1>7, <1>13 DEF Ended
  <1>15. Counted(r)'
    BY <1>2, <1>7, <1>13 DEF Exact, Counted, Unlinking, Uncounted
  <1> QED
    BY <1>13, <1>14, <1>15 DEF Exact

-----------------------------------------------------------------------------
(* Every step keeps the list exact.                                        *)

LEMMA InitListInv == Init => ListInv
  <1> SUFFICES ASSUME Init PROVE ListInv
    OBVIOUS
  <1>1. at["system"] = "off" /\ up
    BY DEF Init, Thread
  <1>2. Registered = {}
    BY DEF Init, Registered
  <1>3. PICK s : s = <<>>
    OBVIOUS
  <1>4. s \in Seq(Object) /\ Len(s) = 0 /\ ToSet(s) = {}
    <2>1. s \in Seq(Object) /\ Len(s) = 0
      BY <1>3, EmptySeq
    <2>2. ToSet(s) = {s[k] : k \in 1..Len(s)}
      BY <2>1, ToSetIs
    <2> QED
      BY <2>1, <2>2
  <1>5. Linked(s)
    BY <1>1, <1>2, <1>3, <1>4 DEF Init, Linked, Distinct, Away, Unlinking
  <1>6. Ended(s)
    BY <1>1, <1>3 DEF Init, Ended
  <1>7. Counted(s)
    BY <1>1, <1>4 DEF Init, Counted, Unlinking, Uncounted
  <1> QED
    BY <1>1, <1>4, <1>5, <1>6, <1>7 DEF ListInv, Exact

LEMMA NextListInv == FInv /\ ListInv /\ [Next]_vars => ListInv'
  <1> SUFFICES ASSUME FInv, ListInv, [Next]_vars, taker' = "system"
               PROVE  /\ \E r \in Seq(Object) : Exact(r)'
                      /\ ~ up' => at'["system"] = "get" /\ working' = Registered'
    BY DEF ListInv
  <1>0. "system" \in Thread /\ "server" \in Thread
    BY DEF Thread
  <1>1. taker = "system"
    BY DEF Next, vars, Add, InitTCPServer, SystemThread, ServerThread, StopSystem, Start, While, Discard,
           ForAny, ForObject, Get, PutBack, Processed, GetFromHead, Unlink, ClearNext, EndOfList, ClearTail,
           CountDown, Got, FreeFSM, ReadTail, Link, SetTail, CountUp, WaitConnection, AcceptConnection, Ends
  <1>2. PICK s \in Seq(Object) : Exact(s)
    BY <1>1 DEF ListInv
  <1>3. ~ up => at["system"] = "get" /\ working = Registered
    BY <1>1 DEF ListInv
  <1>4. CASE Add
    <2>1. up /\ UNCHANGED up
      BY <1>0, <1>3, <1>4 DEF Add
    <2> QED
      BY <1>2, <1>4, <2>1, AddExact
  <1>5. ~ InitTCPServer /\ ~ ServerThread
    <2>1. at["server"] = "off"
      BY <1>1, OneThread
    <2> QED
      BY <1>1, <2>1
      DEF InitTCPServer, ServerThread, WaitConnection, AcceptConnection, Goes, Get, GetFromHead, Unlink,
          ClearNext, EndOfList, ClearTail, CountDown, Got
  <1>6. CASE \/ Start \/ While \/ Discard \/ ForAny \/ Processed
             \/ \E n \in DOMAIN Automates : ForObject(n)
    <2>1. UNCHANGED <<Automates, head, tail, next, FreeFSMCount, working, up>>
      BY <1>6 DEF Start, While, Discard, ForAny, Processed, ForObject, list, loop
    <2>2. up /\ at["system"] \in AtRest /\ at'["system"] \in AtRest
      <3>1. CASE Start
        BY <1>0, <3>1, Place DEF FInv, Start, AtRest, Goes
      <3>2. CASE While
        BY <1>0, <3>2, Place DEF FInv, While, AtRest, Goes
      <3>3. CASE Discard
        BY <1>0, <3>3, Place DEF FInv, Discard, Continue, AtRest, Goes
      <3>4. CASE ForAny
        BY <1>0, <3>4, Place DEF FInv, ForAny, AtRest, Goes
      <3>5. CASE Processed
        BY <1>0, <3>5, Place DEF FInv, Processed, Continue, AtRest, Goes
      <3>6. CASE \E n \in DOMAIN Automates : ForObject(n)
        BY <1>0, <3>6, Place DEF FInv, ForObject, AtRest, Goes
      <3> QED
        BY <1>6, <3>1, <3>2, <3>3, <3>4, <3>5, <3>6
    <2> QED
      BY <1>2, <2>1, <2>2, RestKept
  <1>7. CASE Get("system")
    <2>1. CASE GetFromHead("system")
      BY <1>2, <2>1, GetFromHeadExact
    <2>2. CASE Unlink("system")
      <3>1. up' = up /\ up
        BY <2>2 DEF Unlink, Goes
      <3> QED
        BY <1>2, <2>2, <3>1, UnlinkExact
    <2>3. CASE ClearNext("system")
      <3>1. up' = up /\ up
        BY <2>3 DEF ClearNext, Goes
      <3> QED
        BY <1>2, <2>3, <3>1, ClearNextExact
    <2>4. CASE EndOfList("system")
      <3>1. up' = up /\ up
        BY <2>4 DEF EndOfList
      <3> QED
        BY <1>2, <2>4, <3>1, EndOfListExact
    <2>5. CASE ClearTail("system")
      <3>1. up' = up /\ up
        BY <2>5 DEF ClearTail, Goes
      <3> QED
        BY <1>2, <2>5, <3>1, ClearTailExact
    <2>6. CASE CountDown("system")
      <3>1. up
        BY <2>6 DEF CountDown
      <3> QED
        BY <1>2, <2>6, <3>1, CountDownExact
    <2>7. CASE Got("system")
      <3>1. up' = up /\ up
        BY <2>7 DEF Got, Goes
      <3> QED
        BY <1>2, <2>7, <3>1, GotExact
    <2> QED
      BY <1>7, <2>1, <2>2, <2>3, <2>4, <2>5, <2>6, <2>7 DEF Get
  <1>8. CASE PutBack
    <2>1. up
      BY <1>8 DEF PutBack, FreeFSM, ReadTail, Link, SetTail, CountUp, Goes
    <2>2. CASE FreeFSM
      BY <1>2, <2>1, <2>2, FreeFSMExact DEF FreeFSM
    <2>3. CASE ReadTail
      BY <1>2, <2>1, <2>3, ReadTailExact DEF ReadTail
    <2>4. CASE Link
      BY <1>2, <2>1, <2>4, LinkExact
    <2>5. CASE SetTail
      BY <1>2, <2>1, <2>5, SetTailExact DEF SetTail
    <2>6. CASE CountUp
      BY <1>2, <2>1, <2>6, CountUpExact DEF CountUp
    <2> QED
      BY <1>8, <2>2, <2>3, <2>4, <2>5, <2>6 DEF PutBack
  <1>9. CASE StopSystem
    <2>1. /\ UNCHANGED <<Automates, at, head, tail, next, FreeFSMCount, info, read, working>>
          /\ up /\ UNCHANGED up
      BY <1>9 DEF StopSystem, list
    <2> QED
      BY <1>2, <2>1, SameExact
  <1>10. CASE UNCHANGED vars
    <2>1. UNCHANGED <<Automates, at, head, tail, next, FreeFSMCount, info, read, working, up>>
      BY <1>10 DEF vars, list
    <2>2. Registered' = Registered
      BY <2>1, SameTable
    <2> QED
      BY <1>2, <1>3, <2>1, <2>2, SameExact
  <1> QED
    BY <1>4, <1>5, <1>6, <1>7, <1>8, <1>9, <1>10 DEF Next, SystemThread

-----------------------------------------------------------------------------
(* What can be reached from head is what the sequence has.                 *)

\* A list has as many automates as places.
LEMMA ListLength ==
  ASSUME NEW s \in Seq(Object), Distinct(s)
  PROVE  /\ Len(s) \in 0..Cardinality(Object)
         /\ Cardinality(ToSet(s)) = Len(s)
         /\ Cardinality(Object) \in Nat
  BY FSMSystemAssumption, DistinctLength

\* n pointers lead to the first n + 1 automates.
LEMMA ListedIs ==
  ASSUME NEW s, Linked(s)
  PROVE  Listed = ToSet(s)
  <1> DEFINE D == 0..Cardinality(Object)
             First(n) == {s[k] : k \in {j \in 1..Len(s) : j <= n + 1}}
             Step(f, n) == IF n = 0 THEN {head} \ {NULL}
                           ELSE f[n - 1] \cup ({next[o] : o \in f[n - 1]} \ {NULL})
             g == [n \in D |-> First(n)]
  <1>1. /\ Len(s) \in 0..Cardinality(Object) /\ Cardinality(Object) \in Nat /\ Len(s) \in Nat
        /\ ToSet(s) = {s[k] : k \in 1..Len(s)}
        /\ \A k \in 1..Len(s) : s[k] # NULL
        /\ s = <<>> <=> Len(s) = 0
        /\ head = IF s = <<>> THEN NULL ELSE s[1]
        /\ \A k \in 1..Len(s) : next[s[k]] = IF k = Len(s) THEN NULL ELSE s[k + 1]
    BY ListElements, ListLength, FSMSystemAssumption DEF Linked
  <1>2. /\ D \subseteq Nat
        /\ \A n \in D : n # 0 => n - 1 \in D
        /\ Cardinality(Object) \in D
    BY <1>1
  <1>3. First(Cardinality(Object)) = ToSet(s)
    BY <1>1
  <1> HIDE DEF D
  <1>4. First(0) = {head} \ {NULL}
    <2>1. CASE s = <<>>
      BY <1>1, <2>1
    <2>2. CASE s # <<>>
      <3>1. {j \in 1..Len(s) : j <= 0 + 1} = {1}
        BY <1>1, <2>2
      <3>2. First(0) = {s[1]} /\ s[1] # NULL
        BY <1>1, <2>2, <3>1
      <3> QED
        BY <1>1, <2>2, <3>2
    <2> QED
      BY <2>1, <2>2
  <1>5. ASSUME NEW n \in D, n # 0
        PROVE  First(n) = First(n - 1) \cup ({next[o] : o \in First(n - 1)} \ {NULL})
    <2>1. n \in Nat /\ n # 0 /\ (n - 1) + 1 = n
      BY <1>2, <1>5
    <2>2. ASSUME NEW o \in First(n)
          PROVE  o \in First(n - 1) \cup ({next[p] : p \in First(n - 1)} \ {NULL})
      <3>1. PICK k \in 1..Len(s) : k <= n + 1 /\ o = s[k]
        OBVIOUS
      <3>2. CASE k <= n
        BY <2>1, <3>1, <3>2
      <3>3. CASE k = n + 1
        <4>1. n \in 1..Len(s) /\ n # Len(s) /\ n <= (n - 1) + 1
          BY <1>1, <2>1, <3>3
        <4>2. next[s[n]] = o /\ s[n] \in First(n - 1)
          BY <1>1, <3>1, <3>3, <4>1
        <4> QED
          BY <1>1, <3>1, <4>2
      <3> QED
        BY <1>1, <2>1, <3>1, <3>2, <3>3
    <2>3. ASSUME NEW o \in First(n - 1)
          PROVE  o \in First(n) /\ (next[o] # NULL => next[o] \in First(n))
      <3>1. PICK k \in 1..Len(s) : k <= n /\ o = s[k]
        BY <2>1
      <3>2. k <= n + 1 /\ o \in First(n)
        BY <1>1, <2>1, <3>1
      <3>3. CASE next[o] # NULL
        <4>1. k # Len(s) /\ next[o] = s[k + 1]
          BY <1>1, <3>1, <3>3
        <4>2. k + 1 \in 1..Len(s) /\ k + 1 <= n + 1
          BY <1>1, <2>1, <3>1, <4>1
        <4> QED
          BY <3>2, <4>1, <4>2
      <3> QED
        BY <3>2, <3>3
    <2> HIDE DEF First
    <2> QED
      BY <2>2, <2>3
  <1> HIDE DEF First
  <1>6. g = [n \in D |-> Step(g, n)]
    <2>1. \A n \in D : g[n] = Step(g, n)
      BY <1>2, <1>4, <1>5
    <2>2. g = [n \in D |-> g[n]]
      OBVIOUS
    <2> HIDE DEF g
    <2> QED
      BY <2>1, <2>2
  <1>7. PICK w : w = CHOOSE f : f = [n \in D |-> Step(f, n)]
    OBVIOUS
  <1>8. Listed = w[Cardinality(Object)]
    BY <1>7 DEF Listed, D
  <1>9. w = [n \in D |-> Step(w, n)]
    <2> HIDE DEF g
    <2> QED
      BY <1>6, <1>7
  <1>10. \A n \in D : w[n] = Step(w, n)
    BY <1>9
  <1> DEFINE Bad == {n \in D : w[n] # First(n)}
  <1>11. Bad = {}
    <2> SUFFICES ASSUME Bad # {} PROVE FALSE
      OBVIOUS
    <2>1. PICK n \in Bad : \A m \in Bad : n =< m
      BY <1>2, MinOfNats
    <2>2. n \in D /\ n \in Nat
      BY <1>2
    <2>3. CASE n = 0
      BY <1>4, <1>10, <2>1, <2>2, <2>3
    <2>4. CASE n # 0
      <3>1. n - 1 \in D /\ ~ (n =< n - 1)
        BY <1>2, <2>2, <2>4
      <3>2. w[n - 1] = First(n - 1)
        BY <2>1, <3>1
      <3> QED
        BY <1>5, <1>10, <2>1, <2>2, <2>4, <3>2
    <2> QED
      BY <2>3, <2>4
  <1> QED
    BY <1>2, <1>3, <1>8, <1>11

-----------------------------------------------------------------------------
\* With one thread the list is, between any two accesses, exact but for the automate that
\* Get or FreeFSM deals with (fsmSystem.cpp:49-66).
THEOREM ListExact == Spec => []ListInv
  <1>1. Init => ListInv
    BY InitListInv
  <1>2. FInv /\ ListInv /\ [Next]_vars => ListInv'
    BY NextListInv
  <1> QED
    BY <1>1, <1>2, FreeListApart, PTL DEF Spec

\* When one thread takes and returns the automates, the list at rest has exactly those
\* that do not work, tail is its last one, and FreeFSMCount their number.
THEOREM ListStaysIntact == Spec => []ListIntact
  <1>1. FInv /\ ListInv => ListIntact
    <2> SUFFICES ASSUME FInv, ListInv, taker = "system",
                        at["system"] \in {"while", "message", "handler", "freed"}
                 PROVE  /\ Listed = Registered \ working
                        /\ FreeFSMCount = Cardinality(Listed)
                        /\ tail = IF Listed = {} THEN NULL ELSE CHOOSE o \in Listed : next[o] = NULL
      BY DEF ListIntact
    <2>1. PICK s \in Seq(Object) : Exact(s)
      BY DEF ListInv
    <2>2. Listed = ToSet(s)
      BY <2>1, ListedIs DEF Exact
    <2>3. ToSet(s) = Registered \ working
      BY <2>1 DEF Exact, Linked, Away, Unlinking
    <2>4. FreeFSMCount = Len(s) /\ Cardinality(ToSet(s)) = Len(s)
      BY <2>1, ListLength DEF Exact, Linked, Counted, Unlinking, Uncounted
    <2>5. tail = IF s = <<>> THEN NULL ELSE s[Len(s)]
      BY <2>1 DEF Exact, Ended
    <2>6. CASE s = <<>>
      <3>1. ToSet(s) = {}
        BY <2>1, <2>6, ListElements DEF Exact
      <3> QED
        BY <2>2, <2>3, <2>4, <2>5, <2>6, <3>1
    <2>7. CASE s # <<>>
      <3>1. /\ Len(s) \in Nat /\ Len(s) \in 1..Len(s) /\ s[Len(s)] \in ToSet(s)
            /\ ToSet(s) = {s[k] : k \in 1..Len(s)}
            /\ \A k \in 1..Len(s) : s[k] \in Object
        BY <2>1, <2>7, ListElements DEF Exact
      <3>2. next[s[Len(s)]] = NULL
        BY <2>1, <3>1 DEF Exact, Linked
      <3>3. ASSUME NEW o \in ToSet(s), next[o] = NULL
            PROVE  o = s[Len(s)]
        <4>1. PICK k \in 1..Len(s) : o = s[k]
          BY <3>1
        <4>2. k # Len(s) => next[o] = s[k + 1] /\ k + 1 \in 1..Len(s)
          BY <2>1, <3>1, <4>1 DEF Exact, Linked
        <4> QED
          BY <3>1, <3>3, <4>1, <4>2, FSMSystemAssumption
      <3>4. (CHOOSE o \in ToSet(s) : next[o] = NULL) = s[Len(s)]
        BY <3>1, <3>2, <3>3
      <3> QED
        BY <2>2, <2>3, <2>4, <2>5, <2>7, <3>1, <3>4
    <2> QED
      BY <2>6, <2>7
  <1> QED
    BY <1>1, FreeListApart, ListExact, PTL

\* When one thread takes and returns the automates, Get throws only when all of them work.
THEOREM EndOnlyAtFullWork == Spec => []EndsOnlyWhenAllWork
  <1>1. ListInv => EndsOnlyWhenAllWork
    BY DEF ListInv, EndsOnlyWhenAllWork
  <1> QED
    BY <1>1, ListExact, PTL
=============================================================================
