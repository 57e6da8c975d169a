-------------------------- MODULE PostOfficeProofs --------------------------
(***************************************************************************)
(* Proofs about PostOffice for any number of threads, buffers and          *)
(* mailboxes.                                                              *)
(*                                                                         *)
(* No wake-up is lost only because no semaphore ever overflows: a mailbox  *)
(* cannot hold more messages than there are buffers, and there are not     *)
(* more of these than a semaphore counts.  The first needs that no buffer  *)
(* is in two places, which is the strengthening (Apart) that makes the     *)
(* invariant inductive.  With the converse, that each buffer is in some    *)
(* place (Placed), it is OnePlace.                                         *)
(***************************************************************************)
EXTENDS PostOffice, SequenceTheorems, FiniteSetTheorems, TLAPS

-----------------------------------------------------------------------------
(* Types.                                                                  *)

LEMMA InitTypes == Init => TypeOK
  BY PostOfficeAssumption DEF Init, TypeOK, Labels, Box

LEMMA ReleasedType == \A count \in 0..MaxSem : Released(count) \in 0..MaxSem
  BY PostOfficeAssumption DEF Released

\* A queue after a message has been added
LEMMA QueueAppended ==
  ASSUME TypeOK, NEW m \in Box, NEW b \in Buffer,
         MailBoxes' = [MailBoxes EXCEPT ![m] = Append(@, b)]
  PROVE  /\ MailBoxes' \in [Box -> Seq(Buffer)]
         /\ Len(MailBoxes'[m]) = Len(MailBoxes[m]) + 1
         /\ \A n \in Box \ {m} : MailBoxes'[n] = MailBoxes[n]
         /\ \A i \in DOMAIN MailBoxes'[m] :
               \/ i \in DOMAIN MailBoxes[m] /\ MailBoxes'[m][i] = MailBoxes[m][i]
               \/ i = Len(MailBoxes[m]) + 1 /\ MailBoxes'[m][i] = b
  <1>1. MailBoxes[m] \in Seq(Buffer) /\ MailBoxes'[m] = Append(MailBoxes[m], b)
    BY DEF TypeOK
  <1>2. MailBoxes'[m] \in Seq(Buffer) /\ Len(MailBoxes'[m]) = Len(MailBoxes[m]) + 1
    BY <1>1
  <1>3. \A n \in Box \ {m} : MailBoxes'[n] = MailBoxes[n]
    BY DEF TypeOK
  <1>4. MailBoxes' \in [Box -> Seq(Buffer)]
    BY <1>2 DEF TypeOK
  <1>5. \A i \in DOMAIN MailBoxes'[m] :
               \/ i \in DOMAIN MailBoxes[m] /\ MailBoxes'[m][i] = MailBoxes[m][i]
               \/ i = Len(MailBoxes[m]) + 1 /\ MailBoxes'[m][i] = b
    BY <1>1
  <1> QED
    BY <1>2, <1>3, <1>4, <1>5

\* A queue after its first message has been taken
LEMMA FirstTaken ==
  ASSUME TypeOK, NEW t \in Thread, TakesFirst(t)
  PROVE  /\ box[t] \in Box
         /\ 1 \in DOMAIN MailBoxes[box[t]]
         /\ First(t) = MailBoxes[box[t]][1] /\ First(t) \in Buffer
         /\ MailBoxes' \in [Box -> Seq(Buffer)]
         /\ Len(MailBoxes'[box[t]]) = Len(MailBoxes[box[t]]) - 1
         /\ \A n \in Box \ {box[t]} : MailBoxes'[n] = MailBoxes[n]
         /\ \A i \in DOMAIN MailBoxes'[box[t]] :
               i + 1 \in DOMAIN MailBoxes[box[t]] /\ MailBoxes'[box[t]][i] = MailBoxes[box[t]][i + 1]
  <1> DEFINE m == box[t]
  <1>1. m \in Box /\ MailBoxes[m] \in Seq(Buffer) /\ MailBoxes[m] # <<>>
    BY DEF TypeOK, TakesFirst
  <1>2. MailBoxes'[m] = Tail(MailBoxes[m])
    BY <1>1 DEF TypeOK, TakesFirst
  <1>3. First(t) = MailBoxes[m][1] /\ First(t) \in Buffer /\ 1 \in DOMAIN MailBoxes[m]
    BY <1>1 DEF First
  <1>4. MailBoxes'[m] \in Seq(Buffer) /\ Len(MailBoxes'[m]) = Len(MailBoxes[m]) - 1
    BY <1>1, <1>2
  <1>5. \A n \in Box \ {m} : MailBoxes'[n] = MailBoxes[n]
    BY DEF TypeOK, TakesFirst
  <1>6. MailBoxes' \in [Box -> Seq(Buffer)]
    BY <1>4 DEF TypeOK, TakesFirst
  <1>7. \A i \in DOMAIN MailBoxes'[m] :
           i + 1 \in DOMAIN MailBoxes[m] /\ MailBoxes'[m][i] = MailBoxes[m][i + 1]
    BY <1>1, <1>2
  <1> QED
    BY <1>1, <1>3, <1>4, <1>5, <1>6, <1>7

LEMMA TypeStep == TypeOK /\ [Next]_vars => TypeOK'
  <1> SUFFICES ASSUME TypeOK, [Next]_vars
               PROVE  TypeOK'
    OBVIOUS
  <1>1. ASSUME NEW t \in Thread, PrepareNewMessage(t) \/ DiscardMsg(t)
        PROVE  TypeOK'
    BY <1>1, ZenonT(40) DEF TypeOK, PrepareNewMessage, DiscardMsg
  <1>2. ASSUME NEW t \in Thread, NEW m \in Box, Add(t, m)
        PROVE  TypeOK'
    <2>1. PICK b \in held[t] : /\ MailBoxes' = [MailBoxes EXCEPT ![m] = Append(@, b)]
                               /\ held' = [held EXCEPT ![t] = @ \ {b}]
      BY <1>2 DEF Add
    <2>2. MailBoxes' \in [Box -> Seq(Buffer)]
      BY <2>1, QueueAppended DEF TypeOK
    <2> QED
      BY <1>2, <2>1, <2>2 DEF TypeOK, Add, Goto, Labels
  <1>3. ASSUME NEW t \in Thread, NEW m \in Box, Get(t, m)
        PROVE  TypeOK'
    BY <1>3 DEF TypeOK, Get, Goto, Labels
  <1>4. ASSUME NEW t \in Thread, ReleaseSemaphore(t)
        PROVE  TypeOK'
    BY <1>4, ReleasedType DEF TypeOK, ReleaseSemaphore, Goto, Labels
  <1>5. ASSUME NEW t \in Thread, GetsMessage(t) \/ DropsDiscarded(t)
        PROVE  TypeOK'
    <2>1. First(t) \in Buffer /\ MailBoxes' \in [Box -> Seq(Buffer)]
      BY <1>5, FirstTaken DEF GetsMessage, DropsDiscarded
    <2>2. pc' \in [Thread -> Labels]
      BY <1>5 DEF TypeOK, GetsMessage, DropsDiscarded, LooksInto, Labels
    <2>3. UNCHANGED <<semHandle, box, sync, discarded>>
      BY <1>5 DEF GetsMessage, DropsDiscarded, LooksInto
    <2>4. free' \subseteq Buffer
      BY <1>5, <2>1 DEF TypeOK, GetsMessage, DropsDiscarded
    <2>5. held' \in [Thread -> SUBSET Buffer]
      <3> DEFINE b == First(t)
      <3>1. b \in Buffer /\ (held' = held \/ held' = [held EXCEPT ![t] = @ \cup {b}])
        BY <1>5, <2>1 DEF GetsMessage, DropsDiscarded
      <3>2. held \in [Thread -> SUBSET Buffer]
        BY DEF TypeOK
      <3>3. held[t] \cup {b} \in SUBSET Buffer
        BY <3>1, <3>2
      <3> HIDE DEF b
      <3> QED
        BY <3>1, <3>2, <3>3
    <2> QED
      BY <2>1, <2>2, <2>3, <2>4, <2>5 DEF TypeOK
  <1>6. ASSUME NEW t \in Thread, GetsNothing(t)
        PROVE  TypeOK'
    BY <1>6 DEF TypeOK, GetsNothing, LooksInto, Labels
  <1>7. ASSUME NEW b \in Buffer, StopTimer(b)
        PROVE  TypeOK'
    BY <1>7 DEF TypeOK, StopTimer
  <1>8. CASE GetSync
    BY <1>8, PostOfficeAssumption DEF TypeOK, GetSync, Goto, Labels
  <1>9. CASE WaitForMultipleObjects
    <2>1. PICK m \in Box : /\ semHandle[m] > 0
                           /\ semHandle' = [semHandle EXCEPT ![m] = @ - 1]
                           /\ box' = [box EXCEPT ![System] = m]
      BY <1>9 DEF WaitForMultipleObjects
    <2>2. semHandle' \in [Box -> 0..MaxSem]
      BY <2>1, PostOfficeAssumption DEF TypeOK
    <2> QED
      BY <1>9, <2>1, <2>2 DEF TypeOK, WaitForMultipleObjects, Goto, Labels
  <1>10. CASE UNCHANGED vars
    BY <1>10 DEF TypeOK, vars
  <1> QED
    BY <1>1, <1>2, <1>3, <1>4, <1>5, <1>6, <1>7, <1>8, <1>9, <1>10 DEF Next, CallStep

\* The variables of the post office have their types in every behaviour; in
\* particular no semaphore exceeds its maximum or becomes negative.
THEOREM TypeCorrect == Spec => []TypeOK
  BY InitTypes, TypeStep, PTL DEF Spec
-----------------------------------------------------------------------------
(* No buffer is in two places.                                             *)

Apart ==
    /\ \A t, u \in Thread : t # u => held[t] \cap held[u] = {}
    /\ \A t \in Thread : held[t] \cap free = {}
    /\ \A m \in Box : \A i \in DOMAIN MailBoxes[m] :
          MailBoxes[m][i] \notin free /\ \A t \in Thread : MailBoxes[m][i] \notin held[t]
    /\ \A m, n \in Box : \A i \in DOMAIN MailBoxes[m], k \in DOMAIN MailBoxes[n] :
          MailBoxes[m][i] = MailBoxes[n][k] => m = n /\ i = k

LEMMA InitApart == Init => Apart
  BY DEF Init, Apart

\* A buffer goes from the pool into a thread's hands or back.
LEMMA ApartInHands ==
  ASSUME TypeOK, Apart, UNCHANGED MailBoxes, NEW t \in Thread, NEW b \in Buffer,
         \/ /\ b \in free /\ free' = free \ {b}
            /\ held' = [held EXCEPT ![t] = @ \cup {b}]
         \/ /\ b \in held[t] /\ free' = free \cup {b}
            /\ held' = [held EXCEPT ![t] = @ \ {b}]
  PROVE  Apart'
  <1>1. held \in [Thread -> SUBSET Buffer]
    BY DEF TypeOK
  <1>2. \A u \in Thread : u # t => held'[u] = held[u]
    BY <1>1
  <1>3. \/ b \in free /\ free' = free \ {b} /\ held'[t] = held[t] \cup {b}
        \/ b \in held[t] /\ free' = free \cup {b} /\ held'[t] = held[t] \ {b}
    BY <1>1
  <1>4. /\ \A u, v \in Thread : u # v => held'[u] \cap held'[v] = {}
        /\ \A u \in Thread : held'[u] \cap free' = {}
    BY <1>2, <1>3 DEF Apart
  <1>5. \A m \in Box : \A i \in DOMAIN MailBoxes[m] :
           MailBoxes[m][i] \notin free' /\ \A u \in Thread : MailBoxes[m][i] \notin held'[u]
    BY <1>2, <1>3 DEF Apart
  <1> QED
    BY <1>4, <1>5 DEF Apart

\* A buffer goes from a thread's hands to the end of a queue.
LEMMA ApartQueued ==
  ASSUME TypeOK, Apart, UNCHANGED free, NEW t \in Thread, NEW m \in Box, NEW b \in held[t],
         MailBoxes' = [MailBoxes EXCEPT ![m] = Append(@, b)],
         held' = [held EXCEPT ![t] = @ \ {b}]
  PROVE  Apart'
  <1>1. b \in Buffer
    BY DEF TypeOK
  <1>2. held'[t] = held[t] \ {b} /\ \A u \in Thread : u # t => held'[u] = held[u]
    BY DEF TypeOK
  <1>3. MailBoxes[m] \in Seq(Buffer)
    BY DEF TypeOK
  <1>4. /\ Len(MailBoxes[m]) \in Nat /\ DOMAIN MailBoxes[m] = 1..Len(MailBoxes[m])
        /\ Len(MailBoxes[m]) + 1 \notin DOMAIN MailBoxes[m]
    BY <1>3
  \* What is queued afterwards
  <1>5. \A n \in Box : \A i \in DOMAIN MailBoxes'[n] :
           \/ i \in DOMAIN MailBoxes[n] /\ MailBoxes'[n][i] = MailBoxes[n][i]
           \/ n = m /\ i = Len(MailBoxes[m]) + 1 /\ MailBoxes'[n][i] = b
    BY <1>1, QueueAppended
  <1>6. /\ b \notin free
        /\ \A u \in Thread : b \notin held'[u]
        /\ \A n \in Box : \A i \in DOMAIN MailBoxes[n] : MailBoxes[n][i] # b
    BY <1>2 DEF Apart
  <1>7. /\ \A u, v \in Thread : u # v => held'[u] \cap held'[v] = {}
        /\ \A u \in Thread : held'[u] \cap free' = {}
    BY <1>2 DEF Apart
  <1>8. \A n \in Box : \A i \in DOMAIN MailBoxes'[n] :
           MailBoxes'[n][i] \notin free' /\ \A u \in Thread : MailBoxes'[n][i] \notin held'[u]
    BY <1>2, <1>5, <1>6 DEF Apart
  <1>9. ASSUME NEW n \in Box, NEW l \in Box,
               NEW i \in DOMAIN MailBoxes'[n], NEW k \in DOMAIN MailBoxes'[l],
               MailBoxes'[n][i] = MailBoxes'[l][k]
        PROVE  n = l /\ i = k
    BY <1>5, <1>6, <1>9 DEF Apart
  <1> QED
    BY <1>7, <1>8, <1>9 DEF Apart

\* The first message of a queue goes into a thread's hands or to the pool.
LEMMA ApartTaken ==
  ASSUME TypeOK, Apart, NEW t \in Thread, TakesFirst(t),
         \/ free' = free /\ held' = [held EXCEPT ![t] = @ \cup {First(t)}]
         \/ free' = free \cup {First(t)} /\ held' = held
  PROVE  Apart'
  <1> DEFINE m == box[t]
             b == First(t)
  <1>1. m \in Box /\ 1 \in DOMAIN MailBoxes[m] /\ b = MailBoxes[m][1]
    BY FirstTaken
  <1>2. b \notin free /\ \A u \in Thread : b \notin held[u]
    BY <1>1 DEF Apart
  <1>3. held \in [Thread -> SUBSET Buffer]
    BY DEF TypeOK
  <1>4. \/ free' = free /\ held'[t] = held[t] \cup {b} /\ \A u \in Thread : u # t => held'[u] = held[u]
        \/ free' = free \cup {b} /\ \A u \in Thread : held'[u] = held[u]
    BY <1>3
  \* Where what is queued afterwards was before
  <1> DEFINE old(n, i) == IF n = m THEN i + 1 ELSE i
  <1>5. \A n \in Box : \A i \in DOMAIN MailBoxes'[n] :
           old(n, i) \in DOMAIN MailBoxes[n] /\ MailBoxes'[n][i] = MailBoxes[n][old(n, i)]
    BY FirstTaken
  <1>6. \A n \in Box : \A i \in DOMAIN MailBoxes'[n] : i \in Nat \ {0}
    <2>1. \A n \in Box : MailBoxes'[n] \in Seq(Buffer)
      BY FirstTaken
    <2> QED
      BY <2>1
  <1>7. \A n \in Box : \A i \in DOMAIN MailBoxes'[n] : MailBoxes'[n][i] # b
    <2> SUFFICES ASSUME NEW n \in Box, NEW i \in DOMAIN MailBoxes'[n], MailBoxes'[n][i] = b
                 PROVE  FALSE
      OBVIOUS
    <2>1. n = m /\ old(n, i) = 1
      BY <1>1, <1>5 DEF Apart
    <2> QED
      BY <1>6, <2>1
  <1>8. \A n \in Box : \A i, k \in DOMAIN MailBoxes'[n] : old(n, i) = old(n, k) => i = k
    BY <1>6
  <1> HIDE DEF m, b, old
  <1>9. /\ \A u, v \in Thread : u # v => held'[u] \cap held'[v] = {}
        /\ \A u \in Thread : held'[u] \cap free' = {}
    BY <1>2, <1>4 DEF Apart
  <1>10. \A n \in Box : \A i \in DOMAIN MailBoxes'[n] :
           MailBoxes'[n][i] \notin free' /\ \A u \in Thread : MailBoxes'[n][i] \notin held'[u]
    BY <1>4, <1>5, <1>7 DEF Apart
  <1>11. ASSUME NEW n \in Box, NEW l \in Box,
                NEW i \in DOMAIN MailBoxes'[n], NEW k \in DOMAIN MailBoxes'[l],
                MailBoxes'[n][i] = MailBoxes'[l][k]
         PROVE  n = l /\ i = k
    <2>1. n = l /\ old(n, i) = old(l, k)
      BY <1>5, <1>11 DEF Apart
    <2> QED
      BY <1>8, <2>1
  <1> QED
    BY <1>9, <1>10, <1>11 DEF Apart

LEMMA ApartStep == TypeOK /\ Apart /\ [Next]_vars => Apart'
  <1> SUFFICES ASSUME TypeOK, Apart, [Next]_vars
               PROVE  Apart'
    OBVIOUS
  <1>1. ASSUME NEW t \in Thread, PrepareNewMessage(t) \/ DiscardMsg(t)
        PROVE  Apart'
    <2>1. free \subseteq Buffer /\ held[t] \subseteq Buffer
      BY DEF TypeOK
    <2> QED
      BY <1>1, <2>1, ApartInHands DEF PrepareNewMessage, DiscardMsg
  <1>2. ASSUME NEW t \in Thread, NEW m \in Box, Add(t, m)
        PROVE  Apart'
    BY <1>2, ApartQueued DEF Add
  <1>3. ASSUME NEW t \in Thread, GetsMessage(t) \/ DropsDiscarded(t)
        PROVE  Apart'
    BY <1>3, ApartTaken DEF GetsMessage, DropsDiscarded
  <1>4. CASE UNCHANGED <<free, MailBoxes, held>>
    BY <1>4 DEF Apart
  <1> QED
    BY <1>1, <1>2, <1>3, <1>4
       DEF Next, CallStep, Get, ReleaseSemaphore, GetsNothing, StopTimer, GetSync,
           WaitForMultipleObjects, vars
-----------------------------------------------------------------------------
(* No wake-up is lost.                                                     *)

\* A mailbox has no more messages than there are buffers.
LEMMA QueueWithinBuffers ==
  ASSUME TypeOK, Apart, NEW m \in Box
  PROVE  /\ Len(MailBoxes[m]) \in Nat /\ Cardinality(Buffer) \in Nat
         /\ Len(MailBoxes[m]) <= Cardinality(Buffer)
         /\ DOMAIN MailBoxes[m] = 1..Len(MailBoxes[m])
  <1> DEFINE q == MailBoxes[m]
             n == Len(q)
  <1>1. q \in Seq(Buffer) /\ n \in Nat /\ DOMAIN q = 1..n /\ q \in [1..n -> Buffer]
    BY DEF TypeOK
  <1>2. \A i, k \in 1..n : q[i] = q[k] => i = k
    BY <1>1 DEF Apart
  <1>3. IsFiniteSet(1..n) /\ Cardinality(1..n) = n
    BY <1>1, FS_Interval
  <1>4. Cardinality(Buffer) \in Nat
    BY PostOfficeAssumption, FS_CardinalityType
  <1>5. ~(Cardinality(Buffer) < n)
    <2> HIDE DEF q, n
    <2> QED
      BY <1>1, <1>2, <1>3, PostOfficeAssumption, FS_PigeonHole
  <1> QED
    BY <1>1, <1>4, <1>5

\* Hence no more than a semaphore counts.
LEMMA QueueFits ==
  ASSUME TypeOK, Apart, NEW m \in Box
  PROVE  Len(MailBoxes[m]) \in Nat /\ Len(MailBoxes[m]) <= MaxSem
  <1>1. Cardinality(Buffer) <= MaxSem /\ MaxSem \in Nat
    BY PostOfficeAssumption
  <1> QED
    BY <1>1, QueueWithinBuffers

LEMMA Counts ==
  ASSUME NEW m \in Box
  PROVE  /\ IsFiniteSet(Releasing(m)) /\ Cardinality(Releasing(m)) \in Nat
         /\ Woken(m) = {} \/ Woken(m) = {System}
         /\ Woken(m) = {System} <=> pc[System] = "signalled" /\ box[System] = m
         /\ Cardinality(Woken(m)) = IF Woken(m) = {} THEN 0 ELSE 1
  <1>1. IsFiniteSet(Releasing(m))
    BY PostOfficeAssumption, FS_Subset DEF Releasing
  <1>2. Woken(m) = {} \/ Woken(m) = {System}
    BY DEF Woken
  <1>3. Woken(m) = {System} <=> pc[System] = "signalled" /\ box[System] = m
    BY DEF Woken
  <1> QED
    BY <1>1, <1>2, <1>3, FS_CardinalityType, FS_EmptySet, FS_Singleton

\* The sum that NoLostWakeup compares with the length of the queue
WakeUps(m) == semHandle[m] + Cardinality(Releasing(m)) + Cardinality(Woken(m))

\* A step in which queues, semaphores and wake-ups stay as they are
LEMMA SameWakeUps ==
  ASSUME NoLostWakeup, UNCHANGED <<MailBoxes, semHandle>>,
         \A m \in Box : Releasing(m)' = Releasing(m) /\ Woken(m)' = Woken(m)
  PROVE  NoLostWakeup'
  BY DEF NoLostWakeup

LEMMA InitNoLostWakeup == Init => NoLostWakeup
  <1> SUFFICES ASSUME Init, NEW m \in Box
               PROVE  Len(MailBoxes[m]) <= WakeUps(m)
    BY DEF NoLostWakeup, WakeUps
  <1>1. Len(MailBoxes[m]) = 0 /\ semHandle[m] = 0
    BY DEF Init
  <1> QED
    BY <1>1, Counts DEF WakeUps

\* A message is queued and the thread owes a release for it.
LEMMA AddWakes ==
  ASSUME TypeOK, NoLostWakeup, NEW t \in Thread, NEW m0 \in Box, Add(t, m0)
  PROVE  NoLostWakeup'
  <1> SUFFICES ASSUME NEW m \in Box
               PROVE  Len(MailBoxes'[m]) <= WakeUps(m)'
    BY DEF NoLostWakeup, WakeUps
  <1>1. PICK b \in held[t] : MailBoxes' = [MailBoxes EXCEPT ![m0] = Append(@, b)]
    BY DEF Add
  <1>2. b \in Buffer
    BY DEF TypeOK
  <1>3. /\ Len(MailBoxes'[m0]) = Len(MailBoxes[m0]) + 1
        /\ \A n \in Box \ {m0} : MailBoxes'[n] = MailBoxes[n]
    BY <1>1, <1>2, QueueAppended
  <1>4. /\ pc[t] = "outside" /\ pc'[t] = "release" /\ box'[t] = m0
        /\ \A u \in Thread : u # t => pc'[u] = pc[u] /\ box'[u] = box[u]
        /\ semHandle' = semHandle
    BY DEF Add, Goto, TypeOK
  <1>5. Woken(m)' = Woken(m)
    BY <1>4, PostOfficeAssumption DEF Woken
  <1>6. Releasing(m)' = IF m = m0 THEN Releasing(m) \cup {t} ELSE Releasing(m)
    BY <1>4 DEF Releasing
  <1>7. t \notin Releasing(m)
    BY <1>4 DEF Releasing
  <1>8. Cardinality(Releasing(m)') = Cardinality(Releasing(m)) + (IF m = m0 THEN 1 ELSE 0)
    <2>1. IsFiniteSet(Releasing(m))
      BY Counts
    <2>2. Cardinality(Releasing(m) \cup {t}) = Cardinality(Releasing(m)) + 1
      BY <1>7, <2>1, FS_AddElement
    <2>3. Cardinality(Releasing(m)) \in Nat
      BY Counts
    <2> QED
      BY <1>6, <2>2, <2>3
  <1>9. Len(MailBoxes[m]) \in Nat /\ semHandle[m] \in Nat /\ Cardinality(Woken(m)) \in Nat
    BY Counts, PostOfficeAssumption, SMTT(40) DEF TypeOK
  <1>10. Len(MailBoxes[m]) <= semHandle[m] + Cardinality(Releasing(m)) + Cardinality(Woken(m))
    BY DEF NoLostWakeup
  <1> QED
    BY <1>3, <1>4, <1>5, <1>8, <1>9, <1>10, Counts, SMTT(40) DEF WakeUps

\* The release adds one to the semaphore, or this is at its maximum and the
\* mailbox has no more messages than that.
LEMMA ReleaseWakes ==
  ASSUME TypeOK, Apart, NoLostWakeup, NEW t \in Thread, ReleaseSemaphore(t)
  PROVE  NoLostWakeup'
  <1> DEFINE m0 == box[t]
  <1> SUFFICES ASSUME NEW m \in Box
               PROVE  Len(MailBoxes'[m]) <= WakeUps(m)'
    BY DEF NoLostWakeup, WakeUps
  <1>1. /\ pc[t] = "release" /\ pc'[t] = "outside" /\ box' = box /\ MailBoxes' = MailBoxes
        /\ \A u \in Thread : u # t => pc'[u] = pc[u]
    BY DEF ReleaseSemaphore, Goto, TypeOK
  <1>2. /\ semHandle[m] \in 0..MaxSem
        /\ semHandle'[m] = IF m = m0 THEN Released(semHandle[m]) ELSE semHandle[m]
    BY DEF ReleaseSemaphore, TypeOK
  <1>3. Woken(m)' = Woken(m)
    BY <1>1, PostOfficeAssumption DEF Woken
  <1>4. Releasing(m)' = IF m = m0 THEN Releasing(m) \ {t} ELSE Releasing(m)
    BY <1>1 DEF Releasing
  <1>5. t \in Releasing(m) <=> m = m0
    BY <1>1 DEF Releasing
  <1>6. Cardinality(Releasing(m)') = Cardinality(Releasing(m)) - (IF m = m0 THEN 1 ELSE 0)
    <2>1. IsFiniteSet(Releasing(m))
      BY Counts
    <2>2. m = m0 => Cardinality(Releasing(m) \ {t}) = Cardinality(Releasing(m)) - 1
      BY <1>5, <2>1, FS_RemoveElement
    <2>3. Cardinality(Releasing(m)) \in Nat
      BY Counts
    <2> QED
      BY <1>4, <2>2, <2>3
  <1>7. Cardinality(Releasing(m)') \in Nat
    <2>1. IsFiniteSet(Releasing(m)')
      BY <1>4, Counts, FS_RemoveElement
    <2> QED
      BY <2>1, FS_CardinalityType
  <1>8. /\ Len(MailBoxes[m]) \in Nat /\ Len(MailBoxes[m]) <= MaxSem /\ MaxSem \in Nat
        /\ Cardinality(Woken(m)) \in Nat /\ Cardinality(Releasing(m)) \in Nat
    BY Counts, QueueFits, PostOfficeAssumption
  <1>9. Len(MailBoxes[m]) <= semHandle[m] + Cardinality(Releasing(m)) + Cardinality(Woken(m))
    BY DEF NoLostWakeup
  <1>10. CASE m = m0 /\ semHandle[m] < MaxSem
    <2>1. semHandle'[m] = semHandle[m] + 1
      BY <1>2, <1>10 DEF Released
    <2> QED
      BY <1>1, <1>2, <1>3, <1>6, <1>8, <1>9, <1>10, <2>1, SMTT(40) DEF WakeUps
  <1>11. CASE m = m0 /\ ~(semHandle[m] < MaxSem)
    <2>1. semHandle'[m] = MaxSem
      BY <1>2, <1>8, <1>11 DEF Released
    <2> QED
      BY <1>1, <1>3, <1>7, <1>8, <2>1 DEF WakeUps
  <1>12. CASE m # m0
    BY <1>1, <1>2, <1>3, <1>6, <1>8, <1>9, <1>12 DEF WakeUps
  <1> QED
    BY <1>10, <1>11, <1>12

\* A message is taken; the wake-up for it, if the system thread has been woken
\* for this mailbox, is used up.
LEMMA TakeWakes ==
  ASSUME TypeOK, NoLostWakeup, NEW t \in Thread, NEW to \in {"outside", "get"},
         LooksInto(t, to), TakesFirst(t)
  PROVE  NoLostWakeup'
  <1> SUFFICES ASSUME NEW m \in Box
               PROVE  Len(MailBoxes'[m]) <= WakeUps(m)'
    BY DEF NoLostWakeup, WakeUps
  <1>1. /\ Len(MailBoxes'[box[t]]) = Len(MailBoxes[box[t]]) - 1
        /\ \A n \in Box \ {box[t]} : MailBoxes'[n] = MailBoxes[n]
    BY FirstTaken
  <1>2. /\ pc[t] \in {"signalled", "get"} /\ pc'[t] \in {"outside", "get"}
        /\ \A u \in Thread : u # t => pc'[u] = pc[u]
        /\ box' = box /\ semHandle' = semHandle
    BY DEF LooksInto, TypeOK
  <1>3. Releasing(m)' = Releasing(m)
    BY <1>2 DEF Releasing
  <1>4. \/ Woken(m)' = Woken(m)
        \/ m = box[t] /\ Woken(m)' = {} /\ Woken(m) = {System}
    <2>1. CASE t = System /\ pc[t] = "signalled" /\ m = box[t]
      BY <1>2, <2>1 DEF Woken
    <2>2. CASE ~(t = System /\ pc[t] = "signalled" /\ m = box[t])
      <3>1. pc'[System] = "signalled" /\ box'[System] = m <=> pc[System] = "signalled" /\ box[System] = m
        BY <1>2, <2>2, PostOfficeAssumption
      <3> QED
        BY <3>1 DEF Woken
    <2> QED
      BY <2>1, <2>2
  <1>5. /\ Len(MailBoxes[m]) \in Nat /\ semHandle[m] \in Nat
        /\ Cardinality(Releasing(m)) \in Nat /\ Cardinality(Woken(m)) \in Nat
    BY Counts, PostOfficeAssumption DEF TypeOK
  <1>6. Len(MailBoxes[m]) <= semHandle[m] + Cardinality(Releasing(m)) + Cardinality(Woken(m))
    BY DEF NoLostWakeup
  <1>7. CASE Woken(m)' = Woken(m)
    BY <1>1, <1>2, <1>3, <1>5, <1>6, <1>7, SMTT(40) DEF WakeUps
  <1>8. CASE m = box[t] /\ Woken(m)' = {} /\ Woken(m) = {System}
    <2>1. Cardinality(Woken(m)) = 1 /\ Cardinality(Woken(m)') = 0
      BY <1>8, FS_EmptySet, FS_Singleton
    <2> QED
      BY <1>1, <1>2, <1>3, <1>5, <1>6, <1>8, <2>1 DEF WakeUps
  <1> QED
    BY <1>4, <1>7, <1>8

\* The system thread is woken for a count of the semaphore.
LEMMA WaitWakes ==
  ASSUME TypeOK, NoLostWakeup, WaitForMultipleObjects
  PROVE  NoLostWakeup'
  <1> SUFFICES ASSUME NEW m \in Box
               PROVE  Len(MailBoxes'[m]) <= WakeUps(m)'
    BY DEF NoLostWakeup, WakeUps
  <1>1. PICK m0 \in Box : /\ semHandle[m0] > 0
                          /\ semHandle' = [semHandle EXCEPT ![m0] = @ - 1]
                          /\ box' = [box EXCEPT ![System] = m0]
    BY DEF WaitForMultipleObjects
  <1>2. /\ pc[System] = "wait" /\ pc'[System] = "signalled" /\ box'[System] = m0
        /\ \A u \in Thread : u # System => pc'[u] = pc[u] /\ box'[u] = box[u]
        /\ MailBoxes' = MailBoxes
        /\ semHandle'[m] = IF m = m0 THEN semHandle[m] - 1 ELSE semHandle[m]
    BY <1>1, PostOfficeAssumption DEF WaitForMultipleObjects, Goto, TypeOK
  <1>3. Releasing(m)' = Releasing(m)
    BY <1>2 DEF Releasing
  <1>4. Woken(m) = {} /\ Woken(m)' = IF m = m0 THEN {System} ELSE {}
    BY <1>2 DEF Woken
  <1>5. Cardinality(Woken(m)) = 0 /\ Cardinality(Woken(m)') = IF m = m0 THEN 1 ELSE 0
    BY <1>4, FS_EmptySet, FS_Singleton
  <1>6. Len(MailBoxes[m]) \in Nat /\ semHandle[m] \in Nat /\ Cardinality(Releasing(m)) \in Nat
    BY Counts, PostOfficeAssumption DEF TypeOK
  <1>7. Len(MailBoxes[m]) <= semHandle[m] + Cardinality(Releasing(m)) + Cardinality(Woken(m))
    BY DEF NoLostWakeup
  <1> QED
    BY <1>2, <1>3, <1>5, <1>6, <1>7 DEF WakeUps

\* The system thread found its mailbox empty, which then needs no wake-up.
LEMMA NothingWakes ==
  ASSUME TypeOK, NoLostWakeup, NEW t \in Thread, GetsNothing(t)
  PROVE  NoLostWakeup'
  <1> SUFFICES ASSUME NEW m \in Box
               PROVE  Len(MailBoxes'[m]) <= WakeUps(m)'
    BY DEF NoLostWakeup, WakeUps
  <1>1. /\ pc[t] \in {"signalled", "get"} /\ pc'[t] \in {"outside", "wait"}
        /\ \A u \in Thread : u # t => pc'[u] = pc[u]
        /\ UNCHANGED <<box, semHandle, MailBoxes>> /\ MailBoxes[box[t]] = <<>>
    BY DEF GetsNothing, LooksInto, TypeOK
  <1>2. Releasing(m)' = Releasing(m)
    BY <1>1 DEF Releasing
  <1>3. /\ Len(MailBoxes[m]) \in Nat /\ semHandle[m] \in Nat
        /\ Cardinality(Releasing(m)) \in Nat /\ Cardinality(Woken(m)) \in Nat
    BY Counts, PostOfficeAssumption DEF TypeOK
  <1>4. Len(MailBoxes[m]) <= semHandle[m] + Cardinality(Releasing(m)) + Cardinality(Woken(m))
    BY DEF NoLostWakeup
  <1>5. CASE m = box[t]
    <2>1. Len(MailBoxes'[m]) = 0
      BY <1>1, <1>5
    <2>2. Woken(m)' = {} \/ Woken(m)' = {System}
      BY DEF Woken
    <2>3. Cardinality({}) = 0 /\ Cardinality({System}) = 1
      BY FS_EmptySet, FS_Singleton
    <2>4. Cardinality(Woken(m)') \in Nat
      <3>1. CASE Woken(m)' = {}
        BY <2>3, <3>1
      <3>2. CASE Woken(m)' = {System}
        BY <2>3, <3>2
      <3> QED
        BY <2>2, <3>1, <3>2
    <2> QED
      BY <1>1, <1>2, <1>3, <2>1, <2>4 DEF WakeUps
  <1>6. CASE m # box[t]
    <2>1. Woken(m)' = Woken(m)
      BY <1>1, <1>6, PostOfficeAssumption DEF Woken
    <2> QED
      BY <1>1, <1>2, <1>3, <1>4, <2>1 DEF WakeUps
  <1> QED
    BY <1>5, <1>6

\* Queues and semaphores stay, and no thread begins or ends to owe a release.
LEMMA OthersWake ==
  ASSUME TypeOK, NoLostWakeup,
         \/ \E t \in Thread : PrepareNewMessage(t) \/ DiscardMsg(t)
         \/ \E t \in Thread, m \in Box : Get(t, m)
         \/ \E b \in Buffer : StopTimer(b)
         \/ GetSync
         \/ UNCHANGED vars
  PROVE  NoLostWakeup'
  <1>1. UNCHANGED <<MailBoxes, semHandle>>
    BY DEF PrepareNewMessage, DiscardMsg, Get, StopTimer, GetSync, vars
  <1>2. \A u \in Thread : \/ pc'[u] = pc[u] /\ box'[u] = box[u]
                          \/ pc[u] = "outside" /\ pc'[u] \in {"get", "wait"}
    BY PostOfficeAssumption
       DEF PrepareNewMessage, DiscardMsg, Get, StopTimer, GetSync, Goto, vars, TypeOK
  <1>3. \A m \in Box : Releasing(m)' = Releasing(m) /\ Woken(m)' = Woken(m)
    BY <1>2, PostOfficeAssumption DEF Releasing, Woken
  <1> QED
    BY <1>1, <1>3, SameWakeUps

LEMMA WakeUpStep == TypeOK /\ Apart /\ NoLostWakeup /\ [Next]_vars => NoLostWakeup'
  <1> SUFFICES ASSUME TypeOK, Apart, NoLostWakeup, [Next]_vars
               PROVE  NoLostWakeup'
    OBVIOUS
  <1>1. ASSUME NEW t \in Thread, GetsMessage(t) \/ DropsDiscarded(t)
        PROVE  NoLostWakeup'
    BY <1>1, TakeWakes DEF GetsMessage, DropsDiscarded
  <1> QED
    BY <1>1, AddWakes, ReleaseWakes, WaitWakes, NothingWakes, OthersWake DEF Next, CallStep

LEMMA Together == Spec => [](TypeOK /\ Apart /\ NoLostWakeup)
  BY InitTypes, InitApart, InitNoLostWakeup, TypeStep, ApartStep, WakeUpStep, PTL DEF Spec

\* For every message that is queued the system thread will be woken, however the
\* threads interleave and although nobody checks what ReleaseSemaphore returns.
THEOREM WakeUpsNotLost == Spec => []NoLostWakeup
  BY Together, PTL

\* The system thread does not wait while a message is queued that nobody will
\* wake it for.
THEOREM NotStranded == Spec => []NeverStranded
  <1>1. TypeOK /\ NoLostWakeup => NeverStranded
    <2> SUFFICES ASSUME TypeOK, NoLostWakeup, pc[System] = "wait", NEW m \in Box,
                        MailBoxes[m] # <<>>, Releasing(m) = {}
                 PROVE  semHandle[m] > 0
      BY DEF NeverStranded
    <2>1. Len(MailBoxes[m]) \in Nat \ {0} /\ semHandle[m] \in Nat
      BY PostOfficeAssumption, EmptySeq DEF TypeOK
    <2>2. Woken(m) = {}
      BY DEF Woken
    <2>3. Cardinality(Woken(m)) = 0 /\ Cardinality(Releasing(m)) = 0
      BY <2>2, FS_EmptySet
    <2>4. Len(MailBoxes[m]) <= semHandle[m] + Cardinality(Releasing(m)) + Cardinality(Woken(m))
      BY DEF NoLostWakeup
    <2> QED
      BY <2>1, <2>3, <2>4
  <1> QED
    BY <1>1, Together, PTL
-----------------------------------------------------------------------------
(* No buffer is lost.                                                      *)

QueuedIn(m, b) == \E i \in DOMAIN MailBoxes[m] : MailBoxes[m][i] = b

Placed ==
    \A b \in Buffer :
        b \in free \/ (\E t \in Thread : b \in held[t]) \/ \E m \in Box : QueuedIn(m, b)

\* What is queued stays queued when a message is added, and the message is queued.
LEMMA AddKeepsQueued ==
  ASSUME TypeOK, NEW m \in Box, NEW b \in Buffer,
         MailBoxes' = [MailBoxes EXCEPT ![m] = Append(@, b)]
  PROVE  /\ QueuedIn(m, b)'
         /\ \A n \in Box, c \in Buffer : QueuedIn(n, c) => QueuedIn(n, c)'
  <1>1. MailBoxes[m] \in Seq(Buffer) /\ MailBoxes'[m] = Append(MailBoxes[m], b)
    BY DEF TypeOK
  <1>2. \A n \in Box \ {m} : MailBoxes'[n] = MailBoxes[n]
    BY DEF TypeOK
  <1>3. \A i \in DOMAIN MailBoxes[m] : i \in DOMAIN MailBoxes'[m] /\ MailBoxes'[m][i] = MailBoxes[m][i]
    BY <1>1
  <1>4. /\ Len(MailBoxes[m]) + 1 \in DOMAIN MailBoxes'[m]
        /\ MailBoxes'[m][Len(MailBoxes[m]) + 1] = b
    BY <1>1
  <1> QED
    BY <1>2, <1>3, <1>4 DEF QueuedIn

\* Only the first message leaves a queue.
LEMMA TakeKeepsQueued ==
  ASSUME TypeOK, NEW t \in Thread, TakesFirst(t)
  PROVE  \A n \in Box, c \in Buffer : QueuedIn(n, c) => c = First(t) \/ QueuedIn(n, c)'
  <1>1. PICK m \in Box : m = box[t]
    BY DEF TypeOK
  <1>2. MailBoxes[m] \in Seq(Buffer) /\ MailBoxes[m] # <<>>
    BY <1>1 DEF TypeOK, TakesFirst
  <1>3. MailBoxes'[m] = Tail(MailBoxes[m]) /\ \A n \in Box \ {m} : MailBoxes'[n] = MailBoxes[n]
    BY <1>1 DEF TypeOK, TakesFirst
  <1>4. First(t) = MailBoxes[m][1]
    BY <1>1, <1>2 DEF First
  <1>5. ASSUME NEW i \in DOMAIN MailBoxes[m], i # 1
        PROVE  i - 1 \in DOMAIN MailBoxes'[m] /\ MailBoxes'[m][i - 1] = MailBoxes[m][i]
    <2>1. PICK q : q = MailBoxes[m]
      OBVIOUS
    <2>2. q \in Seq(Buffer) /\ q # <<>> /\ i \in 1..Len(q) /\ i - 1 \in 1..(Len(q) - 1)
      BY <1>2, <1>5, <2>1
    <2>3. DOMAIN Tail(q) = 1..(Len(q) - 1)
      BY <2>2
    <2>4. Tail(q)[i - 1] = q[(i - 1) + 1]
      BY <2>2
    <2>5. (i - 1) + 1 = i
      BY <2>2
    <2> QED
      BY <1>3, <2>1, <2>2, <2>3, <2>4, <2>5
  <1>6. \A c \in Buffer : QueuedIn(m, c) => c = First(t) \/ QueuedIn(m, c)'
    BY <1>4, <1>5 DEF QueuedIn
  <1>7. \A n \in Box \ {m}, c \in Buffer : QueuedIn(n, c) => QueuedIn(n, c)'
    BY <1>3 DEF QueuedIn
  <1> QED
    BY <1>6, <1>7

LEMMA PlacedStep == TypeOK /\ Placed /\ [Next]_vars => Placed'
  <1> SUFFICES ASSUME TypeOK, Placed, [Next]_vars
               PROVE  Placed'
    OBVIOUS
  <1>1. held \in [Thread -> SUBSET Buffer]
    BY DEF TypeOK
  <1>2. ASSUME NEW t \in Thread, PrepareNewMessage(t) \/ DiscardMsg(t)
        PROVE  Placed'
    <2>1. PICK b \in Buffer :
             \/ free' = free \ {b} /\ held' = [held EXCEPT ![t] = @ \cup {b}]
             \/ free' = free \cup {b} /\ held' = [held EXCEPT ![t] = @ \ {b}]
      BY <1>1, <1>2 DEF TypeOK, PrepareNewMessage, DiscardMsg
    <2>2. /\ \A u \in Thread : u # t => held'[u] = held[u]
          /\ \/ free' = free \ {b} /\ held'[t] = held[t] \cup {b}
             \/ free' = free \cup {b} /\ held'[t] = held[t] \ {b}
      BY <1>1, <2>1
    <2>3. \A m \in Box, c \in Buffer : QueuedIn(m, c)' <=> QueuedIn(m, c)
      BY <1>2 DEF PrepareNewMessage, DiscardMsg, QueuedIn
    <2> QED
      BY <2>2, <2>3 DEF Placed
  <1>3. ASSUME NEW t \in Thread, NEW m \in Box, Add(t, m)
        PROVE  Placed'
    <2>1. PICK b \in held[t] : /\ MailBoxes' = [MailBoxes EXCEPT ![m] = Append(@, b)]
                               /\ held' = [held EXCEPT ![t] = @ \ {b}]
      BY <1>3 DEF Add
    <2>2. b \in Buffer /\ held'[t] = held[t] \ {b} /\ \A u \in Thread : u # t => held'[u] = held[u]
      BY <1>1, <2>1
    <2>3. QueuedIn(m, b)' /\ \A n \in Box, c \in Buffer : QueuedIn(n, c) => QueuedIn(n, c)'
      BY <2>1, <2>2, AddKeepsQueued
    <2>4. free' = free
      BY <1>3 DEF Add
    <2> QED
      BY <2>2, <2>3, <2>4 DEF Placed
  <1>4. ASSUME NEW t \in Thread, GetsMessage(t) \/ DropsDiscarded(t)
        PROVE  Placed'
    <2> DEFINE b == First(t)
    <2>1. TakesFirst(t) /\ b \in Buffer
      BY <1>4, FirstTaken DEF GetsMessage, DropsDiscarded
    <2>2. \/ free' = free /\ held' = [held EXCEPT ![t] = @ \cup {b}]
          \/ free' = free \cup {b} /\ held' = held
      BY <1>4 DEF GetsMessage, DropsDiscarded
    <2>3. \A n \in Box, c \in Buffer : QueuedIn(n, c) => c = b \/ QueuedIn(n, c)'
      BY <2>1, TakeKeepsQueued
    <2> HIDE DEF b
    <2>4. /\ \A c \in Buffer : c \in free => c \in free'
          /\ \A u \in Thread, c \in Buffer : c \in held[u] => c \in held'[u]
          /\ b \in free' \/ b \in held'[t]
      BY <1>1, <2>2
    <2> QED
      BY <2>3, <2>4 DEF Placed
  <1>5. CASE UNCHANGED <<free, MailBoxes, held>>
    BY <1>5 DEF Placed, QueuedIn
  <1> QED
    BY <1>2, <1>3, <1>4, <1>5
       DEF Next, CallStep, Get, ReleaseSemaphore, GetsNothing, StopTimer, GetSync,
           WaitForMultipleObjects, vars

LEMMA PlacedOnce == TypeOK /\ Apart /\ Placed => OnePlace
  <1> SUFFICES ASSUME TypeOK, Apart, Placed, NEW b \in Buffer
               PROVE  Cardinality({t \in Thread : b \in held[t]})
                        + Cardinality({p \in Box \X (1..Cardinality(Buffer)) :
                             p[2] <= Len(MailBoxes[p[1]]) /\ MailBoxes[p[1]][p[2]] = b})
                        + (IF b \in free THEN 1 ELSE 0) = 1
    BY DEF OnePlace
  <1> DEFINE Holders == {t \in Thread : b \in held[t]}
             Spots   == {p \in Box \X (1..Cardinality(Buffer)) :
                             p[2] <= Len(MailBoxes[p[1]]) /\ MailBoxes[p[1]][p[2]] = b}
  <1>1. \A m \in Box : \A i \in 1..Cardinality(Buffer) :
           i <= Len(MailBoxes[m]) <=> i \in DOMAIN MailBoxes[m]
    BY QueueWithinBuffers
  <1>2. \A m \in Box : DOMAIN MailBoxes[m] \subseteq 1..Cardinality(Buffer)
    BY QueueWithinBuffers
  <1>3. \A p \in Spots : p[1] \in Box /\ p[2] \in DOMAIN MailBoxes[p[1]] /\ MailBoxes[p[1]][p[2]] = b
    BY <1>1
  <1>4. \A m \in Box : \A i \in DOMAIN MailBoxes[m] : MailBoxes[m][i] = b => <<m, i>> \in Spots
    BY <1>1, <1>2
  <1>5. \A p \in Spots : p = <<p[1], p[2]>>
    OBVIOUS
  <1>6. \A t \in Thread : t \in Holders <=> b \in held[t]
    OBVIOUS
  <1>7. Holders \subseteq Thread
    OBVIOUS
  <1> SUFFICES Cardinality(Holders) + Cardinality(Spots) + (IF b \in free THEN 1 ELSE 0) = 1
    OBVIOUS
  <1> HIDE DEF Spots, Holders
  <1>8. Cardinality({}) = 0
    BY FS_EmptySet
  <1>9. CASE b \in free
    <2>1. Holders = {} /\ Spots = {}
      BY <1>3, <1>9, <1>6, <1>7 DEF Apart
    <2> QED
      BY <1>8, <1>9, <2>1
  <1>10. CASE \E t \in Thread : b \in held[t]
    <2>1. PICK t \in Thread : b \in held[t]
      BY <1>10
    <2>2. Holders = {t} /\ Spots = {} /\ b \notin free
      BY <1>3, <1>6, <1>7, <2>1 DEF Apart
    <2>3. Cardinality({t}) = 1
      BY FS_Singleton
    <2> QED
      BY <1>8, <2>2, <2>3
  <1>11. CASE \E m \in Box : QueuedIn(m, b)
    <2>1. PICK m \in Box : \E i \in DOMAIN MailBoxes[m] : MailBoxes[m][i] = b
      BY <1>11 DEF QueuedIn
    <2>2. PICK i \in DOMAIN MailBoxes[m] : MailBoxes[m][i] = b
      BY <2>1
    <2>3. Holders = {} /\ b \notin free
      BY <1>6, <1>7, <2>2 DEF Apart
    <2>4. \A p \in Spots : p = <<m, i>>
      BY <1>3, <1>5, <2>2 DEF Apart
    <2>5. Spots = {<<m, i>>}
      BY <1>4, <2>2, <2>4
    <2>6. Cardinality({<<m, i>>}) = 1
      BY FS_Singleton
    <2> QED
      BY <1>8, <2>3, <2>5, <2>6
  <1> QED
    BY <1>9, <1>10, <1>11 DEF Placed

\* No buffer is lost and none is in two places, although every thread moves
\* buffers between the pool, its hands and the mailboxes.
THEOREM BuffersInOnePlace == Spec => []OnePlace
  <1>1. Init => Placed
    BY DEF Init, Placed
  <1> QED
    BY <1>1, InitTypes, InitApart, TypeStep, ApartStep, PlacedStep, PlacedOnce, PTL DEF Spec
-----------------------------------------------------------------------------
(* Stopped timers.                                                         *)

LEMMA StoppedStep == TypeOK /\ Apart /\ StoppedNotDelivered /\ [Next]_vars => StoppedNotDelivered'
  <1> SUFFICES ASSUME TypeOK, Apart, StoppedNotDelivered, [Next]_vars
               PROVE  StoppedNotDelivered'
    OBVIOUS
  <1>1. held \in [Thread -> SUBSET Buffer]
    BY DEF TypeOK
  <1>2. ASSUME NEW t \in Thread, \/ PrepareNewMessage(t) \/ DiscardMsg(t)
                                 \/ \E m \in Box : Add(t, m)
        PROVE  StoppedNotDelivered'
    <2>1. CASE PrepareNewMessage(t)
      BY <1>1, <2>1 DEF PrepareNewMessage, StoppedNotDelivered
    <2>2. CASE \/ DiscardMsg(t) \/ \E m \in Box : Add(t, m)
      <3>1. PICK b : held' = [held EXCEPT ![t] = @ \ {b}]
        BY <2>2 DEF DiscardMsg, Add
      <3>2. discarded' = discarded
        BY <2>2 DEF DiscardMsg, Add
      <3> QED
        BY <1>1, <3>1, <3>2 DEF StoppedNotDelivered
    <2> QED
      BY <1>2, <2>1, <2>2
  <1>3. ASSUME NEW t \in Thread, GetsMessage(t)
        PROVE  StoppedNotDelivered'
    BY <1>1, <1>3 DEF StoppedNotDelivered, GetsMessage
  <1>4. ASSUME NEW b \in Buffer, StopTimer(b)
        PROVE  StoppedNotDelivered'
    <2>1. \A t \in Thread : b \notin held[t]
      BY <1>4 DEF StopTimer, Queued, ToSet, Apart
    <2> QED
      BY <1>4, <2>1 DEF StopTimer, StoppedNotDelivered
  <1>5. CASE UNCHANGED <<held, discarded>>
    BY <1>5 DEF StoppedNotDelivered
  <1> QED
    BY <1>2, <1>3, <1>4, <1>5
       DEF Next, CallStep, Get, ReleaseSemaphore, DropsDiscarded, GetsNothing, GetSync,
           WaitForMultipleObjects, vars

\* The message of a stopped timer does not get into a handler's hands, even if
\* it had been queued when the timer was stopped.
THEOREM StoppedTimersSilent == Spec => []StoppedNotDelivered
  <1>1. Init => StoppedNotDelivered
    BY DEF Init, StoppedNotDelivered
  <1> QED
    BY <1>1, StoppedStep, Together, PTL DEF Spec
=============================================================================
