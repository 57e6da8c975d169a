---------------------------- MODULE TimersProofs ----------------------------
(***************************************************************************)
(* Proofs about Timers for any timers, buffers, times and resolutions.     *)
(*                                                                         *)
(* A pointer to a timer's message is current only because the message is   *)
(* in one place until the pointer is cleared: a buffer that was in two     *)
(* would be reused behind the automate's back.  Apart says that it is not, *)
(* and makes the two properties inductive together.                        *)
(*                                                                         *)
(* That the delta list implements Countdown is a matter of sums: the ticks *)
(* left to a timer are the sum of the counts up to it.  The callback takes *)
(* one from the first count, which takes one from every sum; StartTimer    *)
(* puts a new count where the sum is right and takes it from the next one. *)
(* Held adds the critical sections, which keep the callback away while a   *)
(* timer is inserted, and DueInv says that between the callback's rounds   *)
(* no timer is left with nothing to count.                                 *)
(***************************************************************************)
EXTENDS Timers, ProofLemmas

-----------------------------------------------------------------------------
(* The invariant.                                                          *)

Types ==
    /\ free \subseteq Buffer
    /\ code \in [Buffer -> Timer \cup {Message, DISCARDED}]
    /\ list \in Seq(Buffer)
    /\ mailbox \in Seq(Buffer)
    /\ TimerBuffer \in [Timer -> Buffer \cup {NULL}]

\* Where the threads are, the list and the mailbox have what they are going to take,
\* and there is a message in a handler and only there.
Control ==
    /\ system \in {"loop", "get", "handler", "adding", "started"}
    /\ callback \in {"idle", "expiring", "queueing"}
    /\ system = "get" => mailbox # <<>>
    /\ callback # "idle" => list # <<>>
    /\ IF system \in {"loop", "get"} THEN msg = NULL ELSE msg \in Buffer
    /\ IF system \in {"adding", "started"} THEN starting \in Timer \X Buffer \X Count ELSE starting = NULL

\* The buffers the threads of the process have out of the pool
InUse == Listed \cup Mailed

Apart ==
    /\ Distinct(list)
    /\ Distinct(mailbox)
    /\ Listed \cap Mailed = {}
    /\ free \cap InUse = {}
    /\ msg \notin free \cup InUse
    /\ system = "adding" => starting[2] \notin free \cup InUse \cup {msg}

\* A timer being started has no pointer yet and its code.
BeingStarted ==
    system \in {"adding", "started"} =>
        /\ TimerBuffer[starting[1]] = NULL
        /\ code[starting[2]] = starting[1]
        /\ system = "started" => starting[2] \in InUse

TInv == Types /\ Control /\ Apart /\ BeingStarted /\ TimerBufferCurrent /\ TimeoutKnown

LEMMA InUseTyped == ASSUME Types PROVE InUse \subseteq Buffer
  BY ToSetIs DEF Types, InUse, Listed, Mailed

LEMMA InitTInv == Init => TInv
  <1> SUFFICES ASSUME Init PROVE TInv
    OBVIOUS
  <1> USE TimersAssumption DEF Init
  <1>1. Types /\ Control
    BY DEF Types, Control
  <1>2. Listed = {} /\ Mailed = {}
    BY DEF Listed, Mailed, ToSet
  <1>3. Apart
    <2>1. Distinct(<<>>)
      BY DEF Distinct
    <2>2. Distinct(list) /\ Distinct(mailbox)
      BY <2>1
    <2> QED
      BY <1>2, <2>2 DEF Apart, InUse
  <1>4. BeingStarted /\ TimerBufferCurrent /\ TimeoutKnown
    BY <1>2 DEF BeingStarted, TimerBufferCurrent, TimeoutKnown
  <1> QED
    BY <1>1, <1>3, <1>4 DEF TInv

LEMMA SendMessageTInv ==
  ASSUME TInv, SendMessage
  PROVE  TInv'
  <1> USE DEF TInv
  <1>1. PICK b \in free :
            /\ free' = free \ {b}
            /\ code' = [code EXCEPT ![b] = Message]
            /\ mailbox' = Append(mailbox, b)
    BY DEF SendMessage
  <1>2. UNCHANGED <<list, callback, system, msg, starting, TimerBuffer>>
    BY DEF SendMessage
  <1>3. b \in Buffer /\ b \notin InUse /\ b # msg
    BY DEF Types, Apart
  <1>4. /\ mailbox' \in Seq(Buffer) /\ mailbox' # <<>>
        /\ Mailed' = Mailed \cup {b}
        /\ Distinct(mailbox')
    BY <1>1, <1>3, AppendDistinct DEF Types, Apart, InUse, Mailed
  <1>5. Listed' = Listed
    BY <1>2 DEF Listed
  <1>6. Types' /\ Control'
    BY <1>1, <1>2, <1>4 DEF Types, Control
  <1>7. Apart'
    BY <1>1, <1>2, <1>3, <1>4, <1>5 DEF Apart, InUse
  <1>8. \A c \in Buffer : c # b => code'[c] = code[c]
    BY <1>1 DEF Types
  <1>9. BeingStarted'
    BY <1>1, <1>2, <1>3, <1>4, <1>5, <1>8 DEF BeingStarted, Control, Apart, InUse
  <1>10. \A t \in Timer : TimerBuffer[t] # b
    BY <1>1, <1>3, TimersAssumption DEF TimerBufferCurrent, InUse, Handled
  <1>11. TimerBufferCurrent'
    BY <1>2, <1>4, <1>5, <1>8, <1>10 DEF TimerBufferCurrent, Types, Handled
  <1>12. code'[b] = Message
    BY <1>1, <1>3 DEF Types
  <1>13. TimeoutKnown'
    BY <1>2, <1>4, <1>5, <1>8, <1>12, InUseTyped, TimersAssumption DEF TimeoutKnown, InUse
  <1> QED
    BY <1>6, <1>7, <1>9, <1>11, <1>13

LEMMA LocksMailboxTInv ==
  ASSUME TInv, LocksMailbox
  PROVE  TInv'
  BY DEF TInv, LocksMailbox, SystemGoes, Types, Control, Apart, BeingStarted,
         TimerBufferCurrent, TimeoutKnown, InUse, Listed, Mailed, Handled

LEMMA GetTInv ==
  ASSUME TInv, Get
  PROVE  TInv'
  <1> USE DEF TInv
  <1>1. PICK b : b = Head(mailbox)
    OBVIOUS
  <1>2. /\ system = "get" /\ mailbox # <<>>
        /\ UNCHANGED <<code, list, callback, starting, TimerBuffer>>
    BY DEF Get, Control
  <1>3. /\ mailbox' \in Seq(Buffer)
        /\ b \in Mailed
        /\ Mailed' = Mailed \ {b}
        /\ Distinct(mailbox')
    BY <1>1, <1>2, TailDistinct DEF Get, Types, Apart, Mailed
  <1>4. b \in Buffer /\ b # NULL /\ Listed' = Listed
    BY <1>2, <1>3, InUseTyped, TimersAssumption DEF Listed, InUse
  <1>5. CASE code[b] # DISCARDED
    <2>1. system' = "handler" /\ msg' = b /\ UNCHANGED free
      BY <1>1, <1>5 DEF Get
    <2>2. Types' /\ Control' /\ BeingStarted'
      BY <1>2, <1>3, <1>4, <2>1 DEF Types, Control, BeingStarted
    <2>3. Apart'
      BY <1>2, <1>3, <1>4, <2>1 DEF Apart, InUse
    <2>4. TimerBufferCurrent' /\ TimeoutKnown'
      BY <1>2, <1>3, <1>4, <2>1 DEF TimerBufferCurrent, TimeoutKnown, Handled, Control
    <2> QED
      BY <2>2, <2>3, <2>4
  <1>6. CASE code[b] = DISCARDED
    <2>1. system' = "loop" /\ free' = free \cup {b} /\ UNCHANGED msg
      BY <1>1, <1>6 DEF Get
    <2>2. Types' /\ Control' /\ BeingStarted'
      BY <1>2, <1>3, <1>4, <2>1 DEF Types, Control, BeingStarted
    <2>3. Apart'
      BY <1>2, <1>3, <1>4, <2>1 DEF Apart, InUse, Control
    <2>4. \A t \in Timer : TimerBuffer[t] # b
      BY <1>4, <1>6, TimersAssumption DEF TimerBufferCurrent
    <2>5. TimerBufferCurrent' /\ TimeoutKnown'
      BY <1>2, <1>3, <1>4, <2>1, <2>4 DEF TimerBufferCurrent, TimeoutKnown, Handled
    <2> QED
      BY <2>2, <2>3, <2>5
  <1> QED
    BY <1>5, <1>6

LEMMA ProcessTInv ==
  ASSUME TInv, Process
  PROVE  TInv'
  <1> USE DEF TInv, Process, SystemGoes
  <1>1. Listed' = Listed /\ Mailed' = Mailed
    BY DEF Listed, Mailed
  <1>2. Types' /\ Control' /\ BeingStarted'
    BY DEF Types, Control, BeingStarted
  <1>3. Apart'
    BY <1>1, InUseTyped, TimersAssumption DEF Apart, InUse, Types, Control
  <1>4. TimerBufferCurrent' /\ TimeoutKnown'
    BY <1>1 DEF TimerBufferCurrent, TimeoutKnown, Handled
  <1> QED
    BY <1>2, <1>3, <1>4

-----------------------------------------------------------------------------
(* The steps of the automate.                                              *)

LEMMA StartTimerTInv ==
  ASSUME TInv, NEW t \in Timer, NEW n \in Count, StartTimer(t, n)
  PROVE  TInv'
  <1> USE DEF TInv
  <1>1. /\ system = "handler" /\ system' = "adding"
        /\ TimerBuffer[t] = NULL
        /\ UNCHANGED <<list, mailbox, callback, msg, TimerBuffer>>
    BY DEF StartTimer, SystemGoes
  <1>2. PICK b \in free :
            /\ free' = free \ {b}
            /\ code' = [code EXCEPT ![b] = t]
            /\ starting' = <<t, b, n>>
    BY DEF StartTimer
  <1>3. b \in Buffer /\ b \notin InUse /\ b # msg /\ b # NULL
    BY TimersAssumption DEF Types, Apart
  <1>4. Listed' = Listed /\ Mailed' = Mailed /\ InUse \subseteq Buffer
    BY <1>1, InUseTyped DEF Listed, Mailed
  <1>5. code'[b] = t /\ \A c \in Buffer : c # b => code'[c] = code[c]
    BY <1>2, <1>3 DEF Types
  <1>6. starting' \in Timer \X Buffer \X Count /\ starting'[1] = t /\ starting'[2] = b
    BY <1>2, <1>3
  <1>7. Types' /\ Control'
    BY <1>1, <1>2, <1>3, <1>6 DEF Types, Control
  <1>8. Apart'
    BY <1>1, <1>2, <1>3, <1>4, <1>6 DEF Apart, InUse
  <1>9. BeingStarted'
    BY <1>1, <1>5, <1>6 DEF BeingStarted
  <1>10. TimerBufferCurrent'
    BY <1>1, <1>3, <1>4, <1>5 DEF TimerBufferCurrent, Types, Handled, InUse
  <1>11. TimeoutKnown'
    <2>1. SUFFICES ASSUME NEW u \in Timer, NEW c \in Listed \cup Mailed, code'[c] = u
                   PROVE  TimerBuffer[u] = c
      BY <1>1, <1>4 DEF TimeoutKnown
    <2>2. code[c] = u
      BY <1>3, <1>4, <1>5, <2>1 DEF InUse
    <2>3. starting = NULL /\ \A m \in Count : <<u, c, m>> \in Timer \X Buffer \X Count
      BY <1>1, <1>4 DEF Control, InUse
    <2> QED
      BY <2>2, <2>3, TimersAssumption DEF TimeoutKnown
  <1> QED
    BY <1>7, <1>8, <1>9, <1>10, <1>11

\* The place of a timer in the delta list is one of the list's places.
LEMMA BeforeInList ==
  ASSUME Types, NEW n
  PROVE  Before(n) \in 0..Len(list)
  <1> DEFINE K == {k \in 1..Len(list) : TicksUntil(k) <= n}
  <1>1. Len(list) \in Nat
    BY DEF Types
  <1>2. IsFiniteSet(1..Len(list)) /\ Cardinality(1..Len(list)) = Len(list)
    <2>1. PICK m \in Nat : m = Len(list)
      BY <1>1
    <2>2. IsFiniteSet(1..m) /\ Cardinality(1..m) = m
      BY FS_Interval
    <2> QED
      BY <2>1, <2>2
  <1>3. K \subseteq 1..Len(list)
    OBVIOUS
  <1> HIDE DEF K
  <1>4. IsFiniteSet(K) /\ Cardinality(K) <= Len(list)
    BY <1>2, <1>3, FS_Subset
  <1>5. Cardinality(K) \in Nat
    BY <1>4, FS_CardinalityType
  <1> QED
    BY <1>1, <1>4, <1>5 DEF Before, K

LEMMA AddTInv ==
  ASSUME TInv, Add
  PROVE  TInv'
  <1> USE DEF TInv
  <1>1. /\ system = "adding" /\ system' = "started"
        /\ UNCHANGED <<free, code, mailbox, callback, msg, starting, TimerBuffer>>
    BY DEF Add, SystemGoes
  <1>2. PICK b : b = starting[2]
    OBVIOUS
  <1>3. /\ b \in Buffer /\ b \notin free \cup InUse \cup {msg}
        /\ starting \in Timer \X Buffer \X Count /\ starting = <<starting[1], b, starting[3]>>
        /\ starting[3] \in Count
    BY <1>1, <1>2 DEF Control, Apart
  <1>4. PICK p : p = Before(count[b])
    OBVIOUS
  <1>5. p \in 0..Len(list)
    BY <1>4, BeforeInList
  <1>6. list' = InsertAt(list, p + 1, b)
    BY <1>2, <1>4, Zenon DEF Add
  <1>7. /\ list' \in Seq(Buffer) /\ list' # <<>>
        /\ Listed' = Listed \cup {b}
        /\ Distinct(list')
    <2>1. list \in Seq(Buffer) /\ Distinct(list) /\ b \notin ToSet(list)
      BY <1>3 DEF Types, Apart, InUse, Listed
    <2>2. /\ InsertAt(list, p + 1, b) \in Seq(Buffer)
          /\ InsertAt(list, p + 1, b) # <<>>
          /\ ToSet(InsertAt(list, p + 1, b)) = ToSet(list) \cup {b}
          /\ Distinct(InsertAt(list, p + 1, b))
      BY <1>3, <1>5, <2>1, InsertDistinct
    <2> QED
      BY <1>6, <2>2, Zenon DEF Listed, Distinct
  <1>8. Mailed' = Mailed
    BY <1>1 DEF Mailed
  <1>9. Types' /\ Control'
    BY <1>1, <1>7 DEF Types, Control
  <1>10. Apart'
    BY <1>1, <1>3, <1>7, <1>8 DEF Apart, InUse
  <1>11. BeingStarted'
    BY <1>1, <1>2, <1>7 DEF BeingStarted, InUse
  <1>12. TimerBufferCurrent'
    BY <1>1, <1>7, <1>8 DEF TimerBufferCurrent, Handled
  <1>13. TimeoutKnown'
    <2>1. SUFFICES ASSUME NEW u \in Timer, NEW c \in Listed \cup Mailed \cup {b}, code[c] = u
                   PROVE  TimerBuffer[u] = c \/ \E n \in Count : starting = <<u, c, n>>
      BY <1>1, <1>7, <1>8 DEF TimeoutKnown
    <2>2. CASE c = b
      <3>1. code[b] = starting[1]
        BY <1>1, <1>2 DEF BeingStarted
      <3> QED
        BY <1>3, <2>1, <2>2, <3>1
    <2>3. CASE c # b
      BY <2>1, <2>3 DEF TimeoutKnown
    <2> QED
      BY <2>2, <2>3
  <1> QED
    BY <1>9, <1>10, <1>11, <1>12, <1>13

LEMMA SetTimerTInv ==
  ASSUME TInv, SetTimer
  PROVE  TInv'
  <1> USE DEF TInv
  <1>1. PICK t : t = starting[1]
    OBVIOUS
  <1>2. PICK b : b = starting[2]
    OBVIOUS
  <1>3. /\ system = "started" /\ system' = "handler" /\ starting' = NULL
        /\ TimerBuffer' = [TimerBuffer EXCEPT ![t] = b]
        /\ UNCHANGED <<free, code, list, mailbox, callback, msg>>
    BY <1>1, <1>2 DEF SetTimer, SystemGoes
  <1>4. t \in Timer /\ b \in Buffer /\ b # NULL
    BY <1>1, <1>2, <1>3, TimersAssumption DEF Control
  <1>5. TimerBuffer[t] = NULL /\ code[b] = t /\ b \in InUse
    BY <1>1, <1>2, <1>3 DEF BeingStarted
  <1>6. Listed' = Listed /\ Mailed' = Mailed /\ Handled' = Handled
    BY <1>3 DEF Listed, Mailed, Handled
  <1>7. TimerBuffer'[t] = b /\ \A u \in Timer : u # t => TimerBuffer'[u] = TimerBuffer[u]
    BY <1>3, <1>4 DEF Types
  <1>8. Types' /\ Control' /\ BeingStarted'
    BY <1>3, <1>4 DEF Types, Control, BeingStarted
  <1>9. Apart'
    BY <1>3, <1>6 DEF Apart, InUse
  <1>10. TimerBufferCurrent'
    BY <1>3, <1>5, <1>6, <1>7 DEF TimerBufferCurrent, InUse
  <1>11. TimeoutKnown'
    <2>1. SUFFICES ASSUME NEW u \in Timer, NEW c \in Listed \cup Mailed, code[c] = u
                   PROVE  TimerBuffer'[u] = c
      BY <1>3, <1>6 DEF TimeoutKnown
    <2>2. c # NULL
      BY InUseTyped, TimersAssumption DEF InUse
    <2>3. \A n \in Count : starting = <<u, c, n>> => u = t /\ c = b
      BY <1>1, <1>2
    <2> QED
      BY <1>5, <1>7, <2>1, <2>2, <2>3 DEF TimeoutKnown
  <1> QED
    BY <1>8, <1>9, <1>10, <1>11

\* Stopping timers marks their messages and no others.
LEMMA StoppedTInv ==
  ASSUME TInv, NEW T \in SUBSET Timer, system = "handler", Stopped(T),
         \A t \in T : TimerBuffer[t] # NULL
  PROVE  TInv'
  <1> USE DEF TInv
  <1>1. UNCHANGED <<free, list, mailbox, callback, system, msg, starting>>
    BY DEF Stopped
  <1>2. Listed' = Listed /\ Mailed' = Mailed /\ Handled' = Handled
    BY <1>1 DEF Listed, Mailed, Handled
  <1>3. starting = NULL
    BY DEF Control
  <1>4. \A u \in Timer : TimerBuffer'[u] = IF u \in T THEN NULL ELSE TimerBuffer[u]
    BY DEF Stopped
  <1>5. \A c \in Buffer : code'[c] = IF \E u \in T : TimerBuffer[u] = c THEN DISCARDED ELSE code[c]
    BY DEF Stopped
  <1>6. Types'
    <2>1. code' \in [Buffer -> Timer \cup {Message, DISCARDED}]
      BY DEF Stopped, Types
    <2>2. TimerBuffer' \in [Timer -> Buffer \cup {NULL}]
      BY DEF Stopped, Types
    <2> QED
      BY <1>1, <2>1, <2>2 DEF Types
  <1>7. Control' /\ BeingStarted'
    BY <1>1 DEF Control, BeingStarted
  <1>8. Apart'
    BY <1>1, <1>2 DEF Apart, InUse
  <1>9. TimerBufferCurrent'
    <2>1. SUFFICES ASSUME NEW u \in Timer, u \notin T, TimerBuffer[u] # NULL
                   PROVE  /\ code'[TimerBuffer[u]] = u
                          /\ TimerBuffer[u] \in Listed \cup Mailed \cup Handled
      BY <1>2, <1>4 DEF TimerBufferCurrent
    <2>2. TimerBuffer[u] \in Buffer
      BY <2>1 DEF Types
    <2>3. ~ \E t \in T : TimerBuffer[t] = TimerBuffer[u]
      BY <2>1 DEF TimerBufferCurrent
    <2> QED
      BY <1>5, <2>1, <2>2, <2>3 DEF TimerBufferCurrent
  <1>10. TimeoutKnown'
    <2>1. SUFFICES ASSUME NEW u \in Timer, NEW c \in Listed \cup Mailed, code'[c] = u
                   PROVE  TimerBuffer'[u] = c
      BY <1>1, <1>2 DEF TimeoutKnown
    <2>2. c \in Buffer /\ c # NULL
      BY InUseTyped, TimersAssumption DEF InUse
    <2>3. ~ (\E t \in T : TimerBuffer[t] = c) /\ code[c] = u
      BY <1>5, <2>1, <2>2, TimersAssumption
    <2>4. ~ (\E n \in Count : starting = <<u, c, n>>)
      BY <2>2, TimersAssumption DEF Control
    <2>5. TimerBuffer[u] = c
      BY <1>3, <2>3, <2>4 DEF TimeoutKnown
    <2> QED
      BY <1>4, <2>3, <2>5
  <1> QED
    BY <1>6, <1>7, <1>8, <1>9, <1>10

LEMMA ResetTimerTInv ==
  ASSUME TInv, NEW t \in Timer, ResetTimer(t)
  PROVE  TInv'
  <1> USE DEF TInv
  <1>1. /\ system = "handler" /\ TimerBuffer[t] = msg
        /\ TimerBuffer' = [TimerBuffer EXCEPT ![t] = NULL]
        /\ UNCHANGED <<free, code, list, mailbox, callback, system, msg, starting>>
    BY DEF ResetTimer
  <1>2. Listed' = Listed /\ Mailed' = Mailed /\ Handled' = Handled
    BY <1>1 DEF Listed, Mailed, Handled
  <1>3. Types' /\ Control' /\ BeingStarted'
    BY <1>1 DEF Types, Control, BeingStarted
  <1>4. Apart'
    BY <1>1, <1>2 DEF Apart, InUse
  <1>5. TimerBufferCurrent'
    BY <1>1, <1>2 DEF TimerBufferCurrent, Types
  <1>6. TimeoutKnown'
    <2>1. SUFFICES ASSUME NEW u \in Timer, NEW c \in Listed \cup Mailed, code[c] = u
                   PROVE  TimerBuffer'[u] = c
      BY <1>1, <1>2 DEF TimeoutKnown
    <2>2. (\A n \in Count : <<u, c, n>> # NULL) /\ starting = NULL
      BY <1>1, InUseTyped, TimersAssumption DEF InUse, Control
    <2>3. TimerBuffer[u] = c /\ c # msg
      BY <2>1, <2>2 DEF TimeoutKnown, Apart, InUse
    <2> QED
      BY <1>1, <2>3 DEF Types
  <1> QED
    BY <1>3, <1>4, <1>5, <1>6

LEMMA AutomateStepTInv ==
  ASSUME TInv, AutomateStep
  PROVE  TInv'
  <1>1. ASSUME NEW t \in Timer, NEW n \in Count, StartTimer(t, n)
        PROVE  TInv'
    BY <1>1, StartTimerTInv
  <1>2. ASSUME NEW t \in Timer, StopTimer(t)
        PROVE  TInv'
    <2>1. {t} \in SUBSET Timer /\ \A u \in {t} : TimerBuffer[u] # NULL
      BY <1>2 DEF StopTimer
    <2>2. system = "handler" /\ Stopped({t})
      BY <1>2 DEF StopTimer
    <2> QED
      BY <2>1, <2>2, StoppedTInv
  <1>3. ASSUME NEW t \in Timer, ResetTimer(t)
        PROVE  TInv'
    BY <1>3, ResetTimerTInv
  <1>4. CASE Reset
    <2>1. PICK T : T = {t \in Timer : Running(t)}
      OBVIOUS
    <2>2. T \in SUBSET Timer /\ \A u \in T : TimerBuffer[u] # NULL
      BY <2>1 DEF Running
    <2>3. system = "handler" /\ Stopped(T)
      BY <1>4, <2>1 DEF Reset
    <2> QED
      BY <2>2, <2>3, StoppedTInv
  <1>5. CASE Add
    BY <1>5, AddTInv
  <1>6. CASE SetTimer
    BY <1>6, SetTimerTInv
  <1> QED
    BY <1>1, <1>2, <1>3, <1>4, <1>5, <1>6 DEF AutomateStep

-----------------------------------------------------------------------------
(* The steps of the callback.                                              *)

LEMMA TickTInv ==
  ASSUME TInv, Tick
  PROVE  TInv'
  <1> USE DEF TInv
  <1>1. /\ list # <<>>
        /\ callback' = "expiring" \/ UNCHANGED callback
        /\ UNCHANGED <<free, code, list, mailbox, system, msg, starting, TimerBuffer>>
    BY DEF Tick
  <1>2. Listed' = Listed /\ Mailed' = Mailed /\ Handled' = Handled
    BY <1>1 DEF Listed, Mailed, Handled
  <1>3. Types' /\ Control' /\ BeingStarted'
    BY <1>1, <1>2 DEF Types, Control, BeingStarted, InUse
  <1>4. Apart' /\ TimerBufferCurrent' /\ TimeoutKnown'
    BY <1>1, <1>2 DEF Apart, InUse, TimerBufferCurrent, TimeoutKnown
  <1> QED
    BY <1>3, <1>4

LEMMA ExpireTInv ==
  ASSUME TInv, Expire
  PROVE  TInv'
  BY DEF TInv, Expire, CallbackGoes, Types, Control, Apart, BeingStarted,
         TimerBufferCurrent, TimeoutKnown, InUse, Listed, Mailed, Handled

LEMMA QueueTInv ==
  ASSUME TInv, Queue
  PROVE  TInv'
  <1> USE DEF TInv
  <1>1. PICK b : b = Head(list)
    OBVIOUS
  <1>2. /\ list # <<>>
        /\ mailbox' = Append(mailbox, b)
        /\ list' = Tail(list)
        /\ UNCHANGED <<free, code, system, msg, starting, TimerBuffer>>
    BY <1>1 DEF Queue, Control
  <1>3. /\ list' \in Seq(Buffer)
        /\ b \in Listed
        /\ Listed' = Listed \ {b}
        /\ Distinct(list')
    BY <1>1, <1>2, TailDistinct DEF Types, Apart, Listed
  <1>4. b \in Buffer /\ b \notin Mailed
    BY <1>3, InUseTyped DEF Apart, InUse
  <1>5. /\ mailbox' \in Seq(Buffer) /\ mailbox' # <<>>
        /\ Mailed' = Mailed \cup {b}
        /\ Distinct(mailbox')
    BY <1>2, <1>4, AppendDistinct DEF Types, Apart, Mailed
  <1>6. InUse' = InUse /\ Listed' \cup Mailed' = Listed \cup Mailed /\ Handled' = Handled
    BY <1>2, <1>3, <1>5 DEF InUse, Handled
  <1>7. Due(count, Tail(list)) => Tail(list) # <<>>
    BY DEF Due
  <1>8. Control'
    <2>1. \/ callback' = "expiring" /\ list' # <<>>
          \/ callback' = "idle"
      BY <1>2, <1>7 DEF Queue
    <2> QED
      BY <1>2, <1>5, <2>1 DEF Control
  <1>9. Types' /\ BeingStarted'
    BY <1>2, <1>3, <1>5, <1>6 DEF Types, BeingStarted
  <1>10. Apart'
    BY <1>2, <1>3, <1>4, <1>5, <1>6 DEF Apart
  <1>11. TimerBufferCurrent' /\ TimeoutKnown'
    BY <1>2, <1>6 DEF TimerBufferCurrent, TimeoutKnown
  <1> QED
    BY <1>8, <1>9, <1>10, <1>11

LEMMA NextTInv == TInv /\ [Next]_vars => TInv'
  <1> SUFFICES ASSUME TInv, [Next]_vars PROVE TInv'
    OBVIOUS
  <1>1. CASE UNCHANGED vars
    BY <1>1 DEF vars, locks, TInv, Types, Control, Apart, BeingStarted, TimerBufferCurrent,
                TimeoutKnown, InUse, Listed, Mailed, Handled
  <1>2. CASE Next
    BY <1>2, SendMessageTInv, LocksMailboxTInv, GetTInv, AutomateStepTInv, ProcessTInv,
       TickTInv, ExpireTInv, QueueTInv DEF Next
  <1> QED
    BY <1>1, <1>2

-----------------------------------------------------------------------------
(* The delta list: a timer's ticks are the sum of the counts up to it.     *)

\* TicksUntil for a list s and counts c
SumOf(s, c) == FoldLeft(LAMBDA sum, b : sum + c[b], 0, s)
SumTo(s, c, k) == SumOf(SubSeq(s, 1, k), c)

\* A sum by recursion over the indices
Sums(V, s, c) ==
    /\ V[0] = 0
    /\ \A k \in 1..Len(s) : V[k] = V[k - 1] + c[s[k]]
    /\ \A k \in 0..Len(s) : V[k] \in Nat

LEMMA SumsExist ==
  ASSUME NEW S, NEW c \in [S -> Nat], NEW q \in Seq(S)
  PROVE  \E V : Sums(V, q, c) /\ V[Len(q)] = SumOf(q, c)
  <1> DEFINE n == Len(q)
             Step(f) == [s \in SUBSET DOMAIN q |->
                           IF s = {} THEN 0 ELSE f[s \ {Max(s)}] + c[q[Max(s)]]]
             iter == CHOOSE f : f = Step(f)
             H == [a \in Nat \X (1..n) |-> a[1] + c[q[a[2]]]]
  <1>1. n \in Nat /\ DOMAIN q = 1..n
    OBVIOUS
  <1>2. SumOf(q, c) = iter[DOMAIN q]
    BY Zenon DEF SumOf, FoldLeft, MapThenFoldSet
  <1>3. \A k \in 1..n : q[k] \in S /\ c[q[k]] \in Nat
    BY <1>1, ElementOfSeq
  <1> HIDE DEF n
  <1>7. H \in [Nat \X (1..n) -> Nat] /\ \A a \in Nat, k \in 1..n : H[<<a, k>>] = a + c[q[k]]
    BY <1>3
  <1> HIDE DEF H
  <1>8. PICK G \in [SUBSET (1..n) -> Nat] : FoldsSets(G, 0, n, H)
    BY <1>1, <1>7, FoldExists
  <1>9. \A s \in SUBSET (1..n) : s # {} => Max(s) \in 1..n /\ s \ {Max(s)} \in SUBSET (1..n)
    BY <1>1, MaxOfIndices
  <1>10. G = Step(G)
    <2>1. \A s \in SUBSET (1..n) : G[s] = IF s = {} THEN 0 ELSE G[s \ {Max(s)}] + c[q[Max(s)]]
      BY <1>7, <1>8, <1>9 DEF FoldsSets
    <2>2. G = [s \in SUBSET (1..n) |-> G[s]]
      OBVIOUS
    <2> QED
      BY <1>1, <2>1, <2>2
  <1>11. iter = Step(iter)
    <2> HIDE DEF Step
    <2> QED
      BY <1>10
  <1>12. \A s \in SUBSET (1..n) : iter[s] = IF s = {} THEN 0 ELSE iter[s \ {Max(s)}] + c[q[Max(s)]]
    <2> HIDE DEF iter
    <2> QED
      BY <1>1, <1>11
  <1> HIDE DEF iter, Step
  <1> DEFINE V == [k \in 0..n |-> iter[1..k]]
  <1>13. V[0] = 0 /\ V[n] = iter[DOMAIN q]
    <2>1. 1..0 = {} /\ 0 \in 0..n /\ n \in 0..n /\ {} \in SUBSET (1..n)
      BY <1>1
    <2> QED
      BY <1>1, <1>12, <2>1
  <1>14. ASSUME NEW k \in 1..n
         PROVE  V[k] = V[k - 1] + c[q[k]]
    <2>1. /\ k \in 0..n /\ k - 1 \in 0..n /\ 1..k \in SUBSET (1..n) /\ 1..k # {}
          /\ Max(1..k) = k /\ (1..k) \ {k} = 1..(k - 1)
      BY <1>1, IndicesUpTo
    <2> QED
      BY <1>12, <2>1
  <1> HIDE DEF V
  <1> DEFINE Typed == {k \in 0..n : V[k] \in Nat}
  <1>15. 0..n \subseteq Typed
    <2>1. 0 \in Typed
      BY <1>1, <1>13
    <2>2. \A k \in 1..n : k - 1 \in Typed => k \in Typed
      BY <1>1, <1>3, <1>14
    <2> HIDE DEF Typed
    <2> QED
      BY <1>1, <2>1, <2>2, UpTo
  <1>16. \A k \in 0..n : V[k] \in Nat
    BY <1>15
  <1>17. Sums(V, q, c)
    BY <1>13, <1>14, <1>16 DEF Sums, n
  <1> QED
    BY <1>2, <1>13, <1>17 DEF n

\* SumTo follows the recursion.
LEMMA SumToIs ==
  ASSUME NEW S, NEW c \in [S -> Nat], NEW s \in Seq(S)
  PROVE  /\ SumTo(s, c, 0) = 0
         /\ \A k \in 1..Len(s) : SumTo(s, c, k) = SumTo(s, c, k - 1) + c[s[k]]
         /\ \A k \in 0..Len(s) : SumTo(s, c, k) \in Nat
         /\ \A k \in 1..Len(s) : s[k] \in S /\ c[s[k]] \in Nat /\ k \in 0..Len(s) /\ k - 1 \in 0..Len(s)
         /\ Len(s) \in Nat
  <1>1. PICK V : Sums(V, s, c)
    BY SumsExist
  <1>2. Len(s) \in Nat
    OBVIOUS
  <1>3. ASSUME NEW k \in 0..Len(s)
        PROVE  SumTo(s, c, k) = V[k]
    <2>1. PICK q : q = SubSeq(s, 1, k)
      OBVIOUS
    <2>2. q \in Seq(S) /\ Len(q) = k /\ k \in Nat /\ \A j \in 1..k : q[j] = s[j] /\ j \in 1..Len(s)
      BY <1>2, <2>1
    <2>3. PICK U : Sums(U, q, c) /\ U[Len(q)] = SumOf(q, c)
      BY <2>2, SumsExist
    <2> DEFINE Same == {j \in 0..k : U[j] = V[j]}
    <2>4. 0 \in Same
      <3>1. 0 \in 0..k
        BY <2>2
      <3> QED
        BY <1>1, <2>3, <3>1 DEF Sums
    <2>5. ASSUME NEW j \in 1..k, j - 1 \in Same
          PROVE  j \in Same
      <3>1. U[j] = U[j - 1] + c[q[j]] /\ V[j] = V[j - 1] + c[s[j]]
        BY <1>1, <2>2, <2>3 DEF Sums
      <3> QED
        BY <2>2, <2>5, <3>1
    <2>6. 0..k \subseteq Same
      <3> HIDE DEF Same
      <3> QED
        BY <2>2, <2>4, <2>5, UpTo
    <2>7. U[k] = V[k]
      BY <2>2, <2>6
    <2>8. SumTo(s, c, k) = U[k]
      <3>1. SumTo(s, c, k) = SumOf(q, c)
        BY <2>1, Zenon DEF SumTo
      <3> QED
        BY <2>2, <2>3, <3>1
    <2> QED
      BY <2>7, <2>8
  <1>4. \A k \in 1..Len(s) : k \in 0..Len(s) /\ k - 1 \in 0..Len(s)
    BY <1>2
  <1>5. \A k \in 1..Len(s) : s[k] \in S /\ c[s[k]] \in Nat
    BY ElementOfSeq
  <1>6. 0 \in 0..Len(s)
    BY <1>2
  <1> QED
    BY <1>1, <1>2, <1>3, <1>4, <1>5, <1>6 DEF Sums

Summed(s, c) ==
    /\ SumTo(s, c, 0) = 0
    /\ \A k \in 1..Len(s) : SumTo(s, c, k) = SumTo(s, c, k - 1) + c[s[k]]

LEMMA SumToSums ==
  ASSUME NEW S, NEW c \in [S -> Nat], NEW s \in Seq(S)
  PROVE  Summed(s, c)
  BY SumToIs DEF Summed

\* and are numbers.
SumsTyped(s, c) ==
    /\ Len(s) \in Nat
    /\ \A k \in 0..Len(s) : SumTo(s, c, k) \in Nat
    /\ \A k \in 1..Len(s) : c[s[k]] \in Nat

LEMMA SumToTyped ==
  ASSUME NEW S, NEW c \in [S -> Nat], NEW s \in Seq(S)
  PROVE  SumsTyped(s, c)
  BY SumToIs DEF SumsTyped

\* The sums do not fall.
LEMMA SumsGrow ==
  ASSUME NEW S, NEW c \in [S -> Nat], NEW s \in Seq(S), NEW j \in 0..Len(s), NEW k \in j..Len(s)
  PROVE  SumTo(s, c, j) <= SumTo(s, c, k)
  <1>1. Len(s) \in Nat
    OBVIOUS
  <1> DEFINE F(x) == SumTo(s, c, x)
             Above == {x \in 0..Len(s) : x < j \/ F(j) <= F(x)}
  <1>2. \A x \in 0..Len(s) : F(x) \in Nat
    <2>1. SumsTyped(s, c)
      BY SumToTyped
    <2> QED
      BY <2>1 DEF SumsTyped
  <1>3. \A x \in 1..Len(s) : F(x) >= F(x - 1)
    <2> SUFFICES ASSUME NEW x \in 1..Len(s) PROVE F(x) >= F(x - 1)
      OBVIOUS
    <2>1. F(x) = F(x - 1) + c[s[x]] /\ c[s[x]] \in Nat /\ F(x - 1) \in Nat
      BY SumToIs
    <2> HIDE DEF F
    <2> QED
      BY <2>1
  <1> HIDE DEF F
  <1>4. 0 \in Above
    BY <1>1, <1>2
  <1>5. ASSUME NEW x \in 1..Len(s), x - 1 \in Above
        PROVE  x \in Above
    <2>1. x \in 0..Len(s) /\ x - 1 \in 0..Len(s) /\ F(x) >= F(x - 1)
      BY <1>1, <1>3
    <2>2. CASE x < j
      BY <2>1, <2>2
    <2>3. CASE x = j
      <3>1. F(x) \in Nat
        BY <1>2, <2>1
      <3> QED
        BY <2>1, <2>3, <3>1
    <2>4. CASE x > j
      <3>1. F(j) <= F(x - 1)
        BY <1>1, <1>5, <2>1, <2>4
      <3>2. F(j) \in Nat /\ F(x) \in Nat /\ F(x - 1) \in Nat
        BY <1>1, <1>2, <2>1
      <3> QED
        BY <2>1, <3>1, <3>2
    <2> QED
      BY <1>1, <2>1, <2>2, <2>3, <2>4
  <1>6. 0..Len(s) \subseteq Above
    <2> HIDE DEF Above
    <2> QED
      BY <1>1, <1>4, <1>5, UpTo
  <1>7. k \in Above /\ ~ (k < j)
    BY <1>1, <1>6
  <1> QED
    BY <1>7 DEF F

\* The same counts give the same sums.
LEMMA SumsSame ==
  ASSUME NEW S, NEW c \in [S -> Nat], NEW d \in [S -> Nat], NEW s \in Seq(S),
         \A k \in 1..Len(s) : d[s[k]] = c[s[k]]
  PROVE  \A k \in 0..Len(s) : SumTo(s, d, k) = SumTo(s, c, k)
  <1> DEFINE F(x) == SumTo(s, c, x)
             G(x) == SumTo(s, d, x)
             Same == {x \in 0..Len(s) : G(x) = F(x)}
  <1>1. /\ F(0) = 0 /\ \A k \in 1..Len(s) : F(k) = F(k - 1) + c[s[k]]
        /\ G(0) = 0 /\ \A k \in 1..Len(s) : G(k) = G(k - 1) + d[s[k]]
        /\ Len(s) \in Nat /\ 0 \in 0..Len(s)
        /\ \A k \in 1..Len(s) : k \in 0..Len(s)
    <2>1. F(0) = 0 /\ Len(s) \in Nat /\ \A k \in 1..Len(s) : F(k) = F(k - 1) + c[s[k]]
      <3>1. Summed(s, c)
        BY SumToSums
      <3> QED
        BY <3>1 DEF Summed
    <2>2. G(0) = 0 /\ \A k \in 1..Len(s) : G(k) = G(k - 1) + d[s[k]]
      <3>1. Summed(s, d)
        BY SumToSums
      <3> QED
        BY <3>1 DEF Summed
    <2> HIDE DEF F, G
    <2>3. 0 \in 0..Len(s) /\ \A k \in 1..Len(s) : k \in 0..Len(s)
      BY <2>1
    <2> QED
      BY <2>1, <2>2, <2>3
  <1> HIDE DEF F, G
  <1>2. 0 \in Same /\ \A k \in 1..Len(s) : k - 1 \in Same => k \in Same
    BY <1>1
  <1>3. 0..Len(s) \subseteq Same
    <2> HIDE DEF Same
    <2> QED
      BY <1>1, <1>2, UpTo
  <1>4. \A k \in 0..Len(s) : G(k) = F(k)
    BY <1>3
  <1> QED
    BY <1>4 DEF F, G

OneLess(s, c, d) ==
    /\ s # <<>> /\ Distinct(s)
    /\ d[s[1]] = c[s[1]] - 1
    /\ \A k \in 2..Len(s) : d[s[k]] = c[s[k]]

AllLess(s, c, d) == \A k \in 1..Len(s) : SumTo(s, d, k) = SumTo(s, c, k) - 1

\* One less in front is one less for all.
LEMMA SumsTick ==
  ASSUME NEW S, NEW c \in [S -> Nat], NEW d \in [S -> Nat], NEW s \in Seq(S),
         OneLess(s, c, d)
  PROVE  AllLess(s, c, d)
  <1>0. /\ s # <<>> /\ Distinct(s)
        /\ d[s[1]] = c[s[1]] - 1
        /\ \A k \in 2..Len(s) : d[s[k]] = c[s[k]]
    BY DEF OneLess
  <1> DEFINE F(x) == SumTo(s, c, x)
             G(x) == SumTo(s, d, x)
             Less == {x \in 0..Len(s) : x = 0 \/ G(x) = F(x) - 1}
  <1>1. /\ F(0) = 0 /\ \A k \in 1..Len(s) : F(k) = F(k - 1) + c[s[k]]
        /\ G(0) = 0 /\ \A k \in 1..Len(s) : G(k) = G(k - 1) + d[s[k]]
        /\ \A k \in 0..Len(s) : F(k) \in Nat /\ G(k) \in Nat
        /\ \A k \in 1..Len(s) : c[s[k]] \in Nat /\ d[s[k]] \in Nat
        /\ Len(s) \in Nat /\ 0 \in 0..Len(s)
        /\ \A k \in 1..Len(s) : k \in 0..Len(s)
    <2>1. /\ F(0) = 0 /\ \A k \in 1..Len(s) : F(k) = F(k - 1) + c[s[k]]
          /\ \A k \in 0..Len(s) : F(k) \in Nat
          /\ \A k \in 1..Len(s) : c[s[k]] \in Nat
          /\ Len(s) \in Nat
      BY SumToIs, SMTT(40)
    <2>2. G(0) = 0 /\ \A k \in 1..Len(s) : G(k) = G(k - 1) + d[s[k]]
      BY SumToIs, SMTT(40)
    <2>3. \A k \in 0..Len(s) : G(k) \in Nat
      BY SumToIs
    <2>4. \A k \in 1..Len(s) : d[s[k]] \in Nat
      BY SumToIs
    <2> HIDE DEF F, G
    <2> QED
      BY <2>1, <2>2, <2>3, <2>4
  <1> HIDE DEF F, G
  <1>2. ASSUME NEW k \in 1..Len(s), k - 1 \in Less
        PROVE  k \in Less
    <2>1. CASE k = 1
      <3>1. G(1) = d[s[1]] /\ F(1) = c[s[1]]
        BY <1>1, <2>1
      <3> QED
        BY <1>0, <1>1, <2>1, <3>1
    <2>2. CASE k # 1
      <3>1. k \in 2..Len(s) /\ k - 1 # 0 /\ k - 1 \in 0..Len(s)
        BY <2>2
      <3>2. G(k - 1) = F(k - 1) - 1 /\ G(k) = G(k - 1) + c[s[k]] /\ F(k) = F(k - 1) + c[s[k]]
        BY <1>0, <1>1, <1>2, <3>1
      <3>3. F(k - 1) \in Nat /\ c[s[k]] \in Nat
        BY <1>1, <3>1
      <3>4. G(k) = F(k) - 1
        <4>1. PICK f, x : f = F(k - 1) /\ x = c[s[k]]
          OBVIOUS
        <4>2. f \in Nat /\ x \in Nat /\ G(k) = (f - 1) + x /\ F(k) = f + x
          BY <3>2, <3>3, <4>1
        <4> QED
          BY <4>2
      <3> QED
        BY <1>1, <3>4
    <2> QED
      BY <2>1, <2>2
  <1>3. 0..Len(s) \subseteq Less
    <2>1. 0 \in Less
      BY <1>1
    <2> HIDE DEF Less
    <2> QED
      BY <1>1, <1>2, <2>1, UpTo
  <1>4. \A k \in 1..Len(s) : G(k) = F(k) - 1
    <2> SUFFICES ASSUME NEW k \in 1..Len(s) PROVE G(k) = F(k) - 1
      OBVIOUS
    <2>1. k # 0 /\ k \in 0..Len(s)
      OBVIOUS
    <2>2. k \in Less
      BY <1>3, <2>1
    <2> QED
      BY <2>1, <2>2
  <1> QED
    BY <1>4 DEF F, G, AllLess

\* Without the first, which has nothing left
LEMMA SumsTail ==
  ASSUME NEW S, NEW c \in [S -> Nat], NEW s \in Seq(S), s # <<>>, c[s[1]] = 0
  PROVE  /\ Tail(s) \in Seq(S) /\ Len(s) = Len(Tail(s)) + 1
         /\ \A k \in 1..Len(Tail(s)) : Tail(s)[k] = s[k + 1]
         /\ \A k \in 0..Len(Tail(s)) : SumTo(Tail(s), c, k) = SumTo(s, c, k + 1)
  <1>1. PICK r : r = Tail(s)
    OBVIOUS
  <1>2. /\ Tail(s) \in Seq(S) /\ Len(s) \in Nat /\ Len(Tail(s)) = Len(s) - 1 /\ Len(Tail(s)) \in Nat
        /\ \A k \in 1..(Len(s) - 1) : Tail(s)[k] = s[k + 1]
    OBVIOUS
  <1>3. r \in Seq(S) /\ Len(s) = Len(r) + 1 /\ Len(r) \in Nat
    BY <1>1, <1>2
  <1>4. \A k \in 1..Len(r) : r[k] = s[k + 1]
    <2>1. Len(r) = Len(s) - 1
      BY <1>1, <1>2
    <2> QED
      BY <1>1, <1>2, <2>1
  <1> DEFINE F(x) == SumTo(s, c, x)
             G(x) == SumTo(r, c, x)
             Same == {x \in 0..Len(r) : G(x) = F(x + 1)}
  <1>5. /\ F(0) = 0 /\ \A k \in 1..Len(s) : F(k) = F(k - 1) + c[s[k]]
        /\ \A k \in 0..Len(s) : F(k) \in Nat
    BY SumToIs
  <1>6. /\ G(0) = 0 /\ \A k \in 1..Len(r) : G(k) = G(k - 1) + c[r[k]]
    BY <1>3, SumToIs
  <1> HIDE DEF F, G
  <1>7. 0 \in Same
    <2>1. 1 \in 1..Len(s) /\ 0 \in 0..Len(r)
      BY <1>3
    <2>2. F(1) = 0
      BY <1>5, <2>1
    <2> QED
      BY <1>6, <2>1, <2>2
  <1>8. ASSUME NEW k \in 1..Len(r), k - 1 \in Same
        PROVE  k \in Same
    <2>1. k + 1 \in 1..Len(s) /\ (k + 1) - 1 = k /\ (k - 1) + 1 = k /\ k \in 0..Len(r)
      BY <1>3
    <2>2. F(k + 1) = F(k) + c[s[k + 1]] /\ G(k - 1) = F(k)
      BY <1>5, <1>8, <2>1
    <2> QED
      BY <1>4, <1>6, <2>1, <2>2
  <1>9. 0..Len(r) \subseteq Same
    <2> HIDE DEF Same
    <2> QED
      BY <1>3, <1>7, <1>8, UpTo
  <1>10. \A k \in 0..Len(r) : G(k) = F(k + 1)
    BY <1>9
  <1>11. \A k \in 0..Len(r) : SumTo(r, c, k) = SumTo(s, c, k + 1)
    BY <1>10 DEF F, G
  <1> QED
    BY <1>1, <1>3, <1>4, <1>11

\* b has n more than those before it, and the next one has n less.
Shared(s, c, d, p, b, n) ==
    /\ c[b] = SumTo(s, c, p) + n
    /\ d[b] = n
    /\ \A k \in 1..Len(s) : d[s[k]] = IF k = p + 1 THEN c[s[k]] - n ELSE c[s[k]]

\* What the sums of r with d are, given those of s with c
Between(s, r, c, d, p, b) ==
    /\ SumTo(r, d, p + 1) = c[b]
    /\ \A k \in 1..p : r[k] = s[k] /\ SumTo(r, d, k) = SumTo(s, c, k)
    /\ \A k \in (p + 1)..Len(s) : r[k + 1] = s[k] /\ SumTo(r, d, k + 1) = SumTo(s, c, k)

\* A new timer takes its ticks from those of the next one.
LEMMA SumsInsert ==
  ASSUME NEW S, NEW c \in [S -> Nat], NEW d \in [S -> Nat], NEW s \in Seq(S), NEW r \in Seq(S),
         NEW b, NEW p \in 0..Len(s), NEW n \in Nat,
         InsertedBehind(s, r, p, b), Shared(s, c, d, p, b, n)
  PROVE  Between(s, r, c, d, p, b)
  <1>1. /\ Len(r) = Len(s) + 1 /\ r[p + 1] = b
        /\ \A k \in 1..p : r[k] = s[k]
        /\ \A k \in (p + 2)..(Len(s) + 1) : r[k] = s[k - 1]
    BY DEF InsertedBehind
  <1>2. Len(s) \in Nat /\ p \in Nat /\ p <= Len(s)
    OBVIOUS
  <1> DEFINE F(x) == SumTo(s, c, x)
             G(x) == SumTo(r, d, x)
  <1>3. /\ F(0) = 0 /\ \A k \in 1..Len(s) : F(k) = F(k - 1) + c[s[k]]
        /\ \A k \in 0..Len(s) : F(k) \in Nat
        /\ \A k \in 1..Len(s) : c[s[k]] \in Nat
    <2>1. Summed(s, c)
      BY SumToSums
    <2>2. SumsTyped(s, c)
      BY SumToTyped
    <2> QED
      BY <2>1, <2>2 DEF Summed, SumsTyped
  <1>4. /\ G(0) = 0 /\ \A k \in 1..Len(r) : G(k) = G(k - 1) + d[r[k]]
    <2>1. Summed(r, d)
      BY SumToSums
    <2> QED
      BY <2>1 DEF Summed
  <1>5. /\ c[b] = F(p) + n /\ d[b] = n
        /\ \A k \in 1..Len(s) : d[s[k]] = IF k = p + 1 THEN c[s[k]] - n ELSE c[s[k]]
    BY DEF Shared
  <1> HIDE DEF F, G
  <1> DEFINE Same == {x \in 0..p : G(x) = F(x)}
  <1>6. 0..p \subseteq Same
    <2>1. 0 \in Same
      BY <1>2, <1>3, <1>4
    <2>2. ASSUME NEW k \in 1..p, k - 1 \in Same
          PROVE  k \in Same
      <3>0. k \in 1..Len(s) /\ k \in 0..p /\ k # p + 1
        BY <1>2
      <3>1. k \in 1..Len(s) /\ k \in 1..Len(r) /\ k \in 0..p /\ k # p + 1
        BY <1>1, <1>2, <3>0
      <3>2. d[r[k]] = c[s[k]]
        BY <1>1, <1>5, <3>1
      <3>3. G(k) = G(k - 1) + d[r[k]] /\ F(k) = F(k - 1) + c[s[k]]
        BY <1>3, <1>4, <3>1
      <3>4. G(k - 1) = F(k - 1)
        BY <2>2
      <3> QED
        BY <3>1, <3>2, <3>3, <3>4
    <2> HIDE DEF Same
    <2> QED
      BY <1>2, <2>1, <2>2, UpTo
  <1>7. G(p) = F(p)
    BY <1>2, <1>6
  <1>8. G(p + 1) = c[b]
    <2>1. p + 1 \in 1..Len(r) /\ (p + 1) - 1 = p
      BY <1>1, <1>2
    <2>2. G(p + 1) = G(p) + d[b]
      BY <1>1, <1>4, <2>1
    <2> QED
      BY <1>5, <1>7, <2>2
  <1> DEFINE After == {x \in 0..Len(s) : x <= p \/ G(x + 1) = F(x)}
  <1>9. ASSUME NEW k \in 1..Len(s), k - 1 \in After
        PROVE  k \in After
    <2>1. CASE k <= p
      BY <2>1
    <2>2. CASE k = p + 1
      <3>1. /\ k + 1 \in 1..Len(r) /\ (k + 1) - 1 = k /\ k + 1 \in (p + 2)..(Len(s) + 1) /\ k - 1 = p
            /\ k \in 1..Len(s) /\ k \in 0..Len(s)
        BY <1>1, <1>2, <2>2
      <3>2. G(k + 1) = G(k) + d[s[k]]
        <4>1. G(k + 1) = G((k + 1) - 1) + d[r[k + 1]]
          BY <1>4, <3>1
        <4>2. r[k + 1] = s[(k + 1) - 1]
          BY <1>1, <3>1
        <4> QED
          BY <3>1, <4>1, <4>2
      <3>3. G(k) = F(p) + n /\ d[s[k]] = c[s[k]] - n /\ F(k) = F(p) + c[s[k]]
        BY <1>3, <1>5, <1>8, <2>2, <3>1
      <3>4. F(p) \in Nat /\ c[s[k]] \in Nat
        BY <1>2, <1>3
      <3>5. G(k + 1) = F(k)
        BY <3>2, <3>3, <3>4
      <3> QED
        BY <3>1, <3>5
    <2>3. CASE k > p + 1
      <3>0. k + 1 \in 1..Len(r) /\ k + 1 \in (p + 2)..(Len(s) + 1)
        BY <1>1, <1>2, <2>3
      <3>1. /\ k + 1 \in 1..Len(r) /\ (k + 1) - 1 = k /\ k + 1 \in (p + 2)..(Len(s) + 1) /\ (k - 1) + 1 = k
            /\ k \in 1..Len(s) /\ k \in 0..Len(s) /\ k # p + 1 /\ ~ (k - 1 <= p)
        BY <1>2, <2>3, <3>0
      <3>2. G(k + 1) = G(k) + c[s[k]]
        <4>1. G(k + 1) = G((k + 1) - 1) + d[r[k + 1]]
          BY <1>4, <3>1
        <4>2. r[k + 1] = s[(k + 1) - 1]
          BY <1>1, <3>1
        <4>3. d[s[k]] = c[s[k]]
          BY <1>5, <3>1
        <4> QED
          BY <3>1, <4>1, <4>2, <4>3
      <3>3. G(k) = F(k - 1) /\ F(k) = F(k - 1) + c[s[k]]
        BY <1>3, <1>9, <3>1
      <3> QED
        BY <3>1, <3>2, <3>3
    <2> QED
      BY <1>2, <2>1, <2>2, <2>3
  <1>10. 0..Len(s) \subseteq After
    <2>1. 0 \in After
      BY <1>2
    <2> HIDE DEF After
    <2> QED
      BY <1>2, <1>9, <2>1, UpTo
  <1>11. \A k \in 1..p : r[k] = s[k] /\ G(k) = F(k)
    <2> SUFFICES ASSUME NEW k \in 1..p PROVE r[k] = s[k] /\ G(k) = F(k)
      OBVIOUS
    <2>1. k \in 0..p
      BY <1>2
    <2> QED
      BY <1>1, <1>6, <2>1
  <1>12. \A k \in (p + 1)..Len(s) : r[k + 1] = s[k] /\ G(k + 1) = F(k)
    <2> SUFFICES ASSUME NEW k \in (p + 1)..Len(s)
                 PROVE  r[k + 1] = s[k] /\ G(k + 1) = F(k)
      OBVIOUS
    <2>1. k \in 0..Len(s) /\ ~ (k <= p) /\ k + 1 \in (p + 2)..(Len(s) + 1) /\ (k + 1) - 1 = k
      BY <1>2
    <2> QED
      BY <1>1, <1>10, <2>1
  <1> QED
    BY <1>8, <1>11, <1>12 DEF F, G, Between

\* A new timer comes behind those that expire no later.
LEMMA BeforeIs ==
  ASSUME list \in Seq(Buffer), count \in [Buffer -> Nat], NEW n \in Nat
  PROVE  /\ Before(n) \in 0..Len(list)
         /\ SumTo(list, count, Before(n)) <= n
         /\ Before(n) < Len(list) => SumTo(list, count, Before(n) + 1) > n
  <1> DEFINE F(k) == SumTo(list, count, k)
             Far == {Len(list) - k : k \in {j \in 0..Len(list) : F(j) <= n}}
  <1>1. Len(list) \in Nat /\ F(0) = 0
    BY SumToIs
  <1>2. \A j \in 0..Len(list) : \A k \in j..Len(list) : F(j) <= F(k)
    BY SumsGrow
  <1>3. \A j \in 0..Len(list) : F(j) \in Nat
    BY SumToIs
  <1>4. Before(n) = Cardinality({k \in 1..Len(list) : F(k) <= n})
    BY Zenon DEF Before, TicksUntil, SumTo, SumOf
  <1> HIDE DEF F
  <1>5. Far \in SUBSET Nat /\ Far # {}
    <2>1. 0 \in 0..Len(list) /\ F(0) <= n
      BY <1>1
    <2>2. \A j \in 0..Len(list) : Len(list) - j \in Nat
      BY <1>1
    <2> QED
      BY <2>1, <2>2
  <1>6. PICK m \in Far : \A y \in Far : m =< y
    BY <1>5, MinOfNats
  <1>7. PICK q \in 0..Len(list) : F(q) <= n /\ m = Len(list) - q
    OBVIOUS
  <1>8. ASSUME NEW k \in 0..Len(list), F(k) <= n
        PROVE  k <= q
    <2>1. Len(list) - q =< Len(list) - k
      BY <1>6, <1>7, <1>8
    <2> QED
      BY <1>1, <2>1
  <1>9. {k \in 1..Len(list) : F(k) <= n} = 1..q
    <2>1. ASSUME NEW k \in 1..Len(list), F(k) <= n
          PROVE  k \in 1..q
      <3>1. k \in 0..Len(list)
        BY <1>1
      <3> QED
        BY <1>8, <2>1, <3>1
    <2>2. ASSUME NEW k \in 1..q
          PROVE  k \in 1..Len(list) /\ F(k) <= n
      <3>1. k \in 0..Len(list) /\ q \in k..Len(list) /\ k \in 1..Len(list)
        BY <1>1
      <3>2. F(k) <= F(q) /\ F(k) \in Nat /\ F(q) \in Nat
        BY <1>2, <1>3, <3>1
      <3> QED
        BY <1>7, <3>1, <3>2
    <2> QED
      BY <2>1, <2>2
  <1>10. Before(n) = q
    <2>1. Cardinality(1..q) = q
      BY FS_Interval
    <2> QED
      BY <1>4, <1>9, <2>1
  <1>11. q < Len(list) => F(q + 1) > n
    <2>1. q < Len(list) => q + 1 \in 0..Len(list) /\ ~ (q + 1 <= q)
      BY <1>1
    <2> QED
      BY <1>3, <1>8, <2>1
  <1> QED
    BY <1>7, <1>10, <1>11 DEF F

-----------------------------------------------------------------------------
(* Counts, critical sections, and a place for every buffer.                *)

Held ==
    /\ count \in [Buffer -> 0..(W - 1)]
    /\ csTimer = IF callback # "idle" THEN "callback" ELSE IF system = "adding" THEN "system" ELSE "nobody"
    /\ system = "adding" => callback = "idle"
    /\ csMailbox \in {"nobody", "system", "callback"}
    /\ free \cup Listed \cup Mailed \cup Handled \cup Starting = Buffer

LEMMA CountsTyped ==
  ASSUME Held
  PROVE  /\ count \in [Buffer -> Nat]
         /\ W \in Nat \ {0}
         /\ \A b \in Buffer : count[b] \in 0..(W - 1) /\ count[b] \in Nat
  BY TimersAssumption DEF Held

LEMMA InitHeld == Init => Held
  <1> SUFFICES ASSUME Init PROVE Held
    OBVIOUS
  <1>1. count \in [Buffer -> 0..(W - 1)]
    <2>1. 0 \in 0..(W - 1)
      BY TimersAssumption
    <2> QED
      BY <2>1 DEF Init
  <1>2. free \cup Listed \cup Mailed \cup Handled \cup Starting = Buffer
    BY DEF Init, Listed, Mailed, Handled, Starting, ToSet
  <1> QED
    BY <1>1, <1>2 DEF Init, Held

LEMMA MailHeld ==
  ASSUME TInv, Held, SendMessage \/ LocksMailbox \/ Get \/ Process
  PROVE  Held'
  <1>1. /\ UNCHANGED <<count, list, csTimer, callback>>
        /\ (system = "adding" <=> system' = "adding")
        /\ csMailbox' \in {"nobody", "system", "callback"}
    BY DEF SendMessage, LocksMailbox, Get, Process, SystemGoes, LockMailBox, UnlockMailBox, locks, Held
  <1>2. Listed' = Listed
    BY <1>1 DEF Listed
  <1>3. NULL \notin Buffer
    BY TimersAssumption
  <1>4. (free \cup Listed \cup Mailed \cup Handled \cup Starting)' = Buffer
    <2>1. CASE SendMessage
      <3>1. PICK b \in free : free' = free \ {b} /\ mailbox' = Append(mailbox, b)
        BY <2>1 DEF SendMessage
      <3>2. b \in Buffer /\ b \notin Mailed
        BY DEF TInv, Types, Apart, InUse
      <3>3. Mailed' = Mailed \cup {b}
        BY <3>1, <3>2, AppendDistinct DEF TInv, Types, Apart, Mailed
      <3>4. UNCHANGED <<msg, system, starting>>
        BY <2>1 DEF SendMessage
      <3>5. Handled' = Handled /\ Starting' = Starting
        BY <3>4 DEF Handled, Starting
      <3> QED
        BY <1>2, <3>1, <3>3, <3>5 DEF Held
    <2>2. CASE LocksMailbox
      <3>1. UNCHANGED <<free, mailbox, msg, starting>> /\ system = "loop" /\ system' = "get"
        BY <2>2 DEF LocksMailbox, SystemGoes
      <3>2. Mailed' = Mailed /\ Handled' = Handled /\ Starting' = {} /\ Starting = {}
        BY <3>1 DEF Mailed, Handled, Starting
      <3> QED
        BY <1>2, <3>1, <3>2 DEF Held
    <2>3. CASE Get
      <3>1. PICK b : b = Head(mailbox)
        OBVIOUS
      <3>2. /\ mailbox # <<>> /\ msg = NULL /\ system = "get"
            /\ mailbox' = Tail(mailbox)
            /\ \/ msg' = b /\ free' = free /\ system' = "handler"
               \/ msg' = NULL /\ free' = free \cup {b} /\ system' = "loop"
        BY <2>3, <3>1 DEF Get, TInv, Control
      <3>3. b \in Mailed /\ b \in Buffer /\ Mailed' = Mailed \ {b}
        BY <3>1, <3>2, TailDistinct, InUseTyped DEF TInv, Types, Apart, Mailed, InUse
      <3>4. Starting = {} /\ Starting' = {} /\ Handled = {}
        BY <3>2 DEF Starting, Handled
      <3>5. free' \cup Handled' = free \cup {b}
        BY <1>3, <3>2, <3>3 DEF Handled
      <3> QED
        BY <1>2, <3>3, <3>4, <3>5 DEF Held
    <2>4. CASE Process
      <3>1. /\ free' = free \cup {msg} /\ msg' = NULL /\ UNCHANGED mailbox
            /\ system = "handler" /\ system' = "loop" /\ msg \in Buffer
        BY <2>4 DEF Process, SystemGoes, TInv, Control
      <3>2. Mailed' = Mailed /\ Starting = {} /\ Starting' = {} /\ Handled = {msg} /\ Handled' = {}
        BY <1>3, <3>1 DEF Mailed, Starting, Handled
      <3> QED
        BY <1>2, <3>1, <3>2 DEF Held
    <2> QED
      BY <2>1, <2>2, <2>3, <2>4
  <1> QED
    BY <1>1, <1>4 DEF Held

LEMMA StartTimerHeld ==
  ASSUME TInv, Held, NEW t \in Timer, NEW n \in Count, StartTimer(t, n)
  PROVE  Held'
  <1>1. PICK b \in free :
            /\ free' = free \ {b}
            /\ count' = [count EXCEPT ![b] = TicksOf(n)]
            /\ starting' = <<t, b, n>>
    BY DEF StartTimer
  <1>2. /\ system = "handler" /\ system' = "adding" /\ csTimer = "nobody" /\ csTimer' = "system"
        /\ UNCHANGED <<list, csMailbox, mailbox, callback, msg>>
    BY DEF StartTimer, SystemGoes, DisableTimer
  <1>3. TicksOf(n) \in 0..(W - 1)
    <2>1. n \in Nat /\ TimerResolution \in Nat \ {0} /\ SystemResolution \in Nat \ {0} /\ W \in Nat \ {0}
      BY TimersAssumption
    <2>2. n * (TimerResolution \div SystemResolution) \in Nat
      <3>1. TimerResolution \div SystemResolution \in Nat
        BY <2>1
      <3> QED
        BY <2>1, <3>1
    <2> QED
      BY <2>1, <2>2 DEF TicksOf
  <1>4. count' \in [Buffer -> 0..(W - 1)]
    BY <1>1, <1>3 DEF Held
  <1>5. callback = "idle"
    BY <1>2 DEF Held
  <1>6. (free \cup Listed \cup Mailed \cup Handled \cup Starting)' = Buffer
    <2>1. Listed' = Listed /\ Mailed' = Mailed /\ Handled' = Handled /\ Starting = {} /\ Starting' = {b}
      BY <1>1, <1>2 DEF Listed, Mailed, Handled, Starting
    <2> QED
      BY <1>1, <2>1 DEF Held
  <1> QED
    BY <1>2, <1>4, <1>5, <1>6 DEF Held

\* The timer's place and ticks in Add
LEMMA AddPlace ==
  ASSUME TInv, Held, Add
  PROVE  \E b \in Buffer, p \in 0..Len(list), n \in Nat :
            /\ b = starting[2] /\ b \notin Listed
            /\ list' = InsertAt(list, p + 1, b)
            /\ list' \in Seq(Buffer) /\ Distinct(list') /\ Listed' = Listed \cup {b}
            /\ InsertedBehind(list, list', p, b)
            /\ count' \in [Buffer -> 0..(W - 1)]
            /\ n <= count[b]
            /\ Shared(list, count, count', p, b, n)
            /\ \A k \in 1..Len(list) : k = p + 1 => count[list[k]] > n
  <1>1. system = "adding"
    BY DEF Add, SystemGoes
  <1>2. PICK b : b = starting[2]
    OBVIOUS
  <1>3. b \in Buffer /\ b \notin Listed
    BY <1>1, <1>2 DEF TInv, Control, Apart, InUse
  <1>4. /\ count \in [Buffer -> Nat] /\ count[b] \in Nat /\ list \in Seq(Buffer) /\ Distinct(list)
        /\ W \in Nat \ {0} /\ \A c \in Buffer : count[c] \in 0..(W - 1) /\ count[c] \in Nat
    BY <1>3, CountsTyped DEF TInv, Types, Apart
  <1>5. PICK p : p = Before(count[b])
    OBVIOUS
  <1>6. PICK n : n = count[b] - TicksUntil(p)
    OBVIOUS
  <1>7. TicksUntil(p) = SumTo(list, count, p)
    BY Zenon DEF TicksUntil, SumTo, SumOf
  <1>8. /\ list' = InsertAt(list, p + 1, b)
        /\ count' = [c \in Buffer |-> IF c = b THEN n
                                      ELSE IF p < Len(list) /\ c = list[p + 1] THEN count[c] - n
                                      ELSE count[c]]
    BY <1>2, <1>5, <1>6, Zenon DEF Add
  <1>9. /\ p \in 0..Len(list)
        /\ SumTo(list, count, p) <= count[b]
        /\ p < Len(list) => SumTo(list, count, p + 1) > count[b]
    BY <1>4, <1>5, BeforeIs
  <1>10. /\ \A k \in 1..Len(list) : SumTo(list, count, k) = SumTo(list, count, k - 1) + count[list[k]]
         /\ \A k \in 0..Len(list) : SumTo(list, count, k) \in Nat
         /\ \A k \in 1..Len(list) : list[k] \in Buffer /\ list[k] \in Listed
         /\ Len(list) \in Nat
    BY <1>4, SumToIs, ToSetIs DEF Listed
  <1>11. n \in Nat /\ n <= count[b] /\ count[b] = SumTo(list, count, p) + n
    <2>1. SumTo(list, count, p) \in Nat
      BY <1>9, <1>10
    <2> QED
      BY <1>4, <1>6, <1>7, <1>9, <2>1
  <1>12. ASSUME NEW k \in 1..Len(list), k = p + 1
         PROVE  count[list[k]] > n
    <2>1. k - 1 = p /\ p < Len(list) /\ count[list[k]] \in Nat /\ SumTo(list, count, p) \in Nat
      BY <1>4, <1>9, <1>10, <1>12
    <2>2. SumTo(list, count, k) > count[b] /\ SumTo(list, count, k) = SumTo(list, count, p) + count[list[k]]
      BY <1>9, <1>10, <1>12, <2>1
    <2> QED
      BY <1>4, <1>11, <2>1, <2>2
  <1>13. ASSUME NEW k \in 1..Len(list)
         PROVE  count'[list[k]] = IF k = p + 1 THEN count[list[k]] - n ELSE count[list[k]]
    <2>1. list[k] \in Buffer /\ list[k] # b
      BY <1>3, <1>10
    <2>2. p < Len(list) /\ list[k] = list[p + 1] <=> k = p + 1
      <3>1. p < Len(list) => p + 1 \in 1..Len(list)
        BY <1>9, <1>10
      <3>2. k = p + 1 => p < Len(list)
        BY <1>9, <1>10
      <3> QED
        BY <1>4, <3>1, <3>2 DEF Distinct
    <2> QED
      BY <1>8, <2>1, <2>2
  <1>14. Shared(list, count, count', p, b, n)
    BY <1>3, <1>8, <1>11, <1>13 DEF Shared
  <1>15. count' \in [Buffer -> 0..(W - 1)]
    <2>1. ASSUME NEW c \in Buffer
          PROVE  count'[c] \in 0..(W - 1)
      <3>1. CASE c = b
        <4>1. n \in 0..(W - 1)
          BY <1>3, <1>4, <1>11
        <4> QED
          BY <1>8, <3>1, <4>1
      <3>2. CASE c # b /\ p < Len(list) /\ c = list[p + 1]
        <4>1. p + 1 \in 1..Len(list)
          BY <1>9, <1>10, <3>2
        <4>2. count[c] > n
          BY <1>12, <3>2, <4>1
        <4>3. count[c] - n \in 0..(W - 1)
          BY <1>4, <1>11, <4>2
        <4> QED
          BY <1>8, <3>2, <4>3
      <3>3. CASE c # b /\ ~ (p < Len(list) /\ c = list[p + 1])
        BY <1>4, <1>8, <3>3
      <3> QED
        BY <3>1, <3>2, <3>3
    <2> QED
      BY <1>8, <2>1
  <1>16. /\ list' \in Seq(Buffer)
         /\ Listed' = Listed \cup {b}
         /\ Distinct(list')
    <2>1. b \notin ToSet(list)
      BY <1>3 DEF Listed
    <2>2. /\ InsertAt(list, p + 1, b) \in Seq(Buffer)
          /\ InsertAt(list, p + 1, b) # <<>>
          /\ ToSet(InsertAt(list, p + 1, b)) = ToSet(list) \cup {b}
          /\ Distinct(InsertAt(list, p + 1, b))
      BY <1>3, <1>4, <1>9, <2>1, InsertDistinct
    <2> QED
      BY <1>8, <2>2, Zenon DEF Listed, Distinct
  <1>17. InsertedBehind(list, list', p, b)
    <2>1. InsertedBehind(list, InsertAt(list, p + 1, b), p, b)
      BY <1>3, <1>4, <1>9, InsertElements
    <2> QED
      BY <1>8, <2>1, Zenon
  <1> QED
    BY <1>2, <1>3, <1>8, <1>9, <1>11, <1>12, <1>14, <1>15, <1>16, <1>17, Zenon

LEMMA AddHeld ==
  ASSUME TInv, Held, Add
  PROVE  Held'
  <1>1. PICK b \in Buffer : b = starting[2] /\ Listed' = Listed \cup {b}
    BY AddPlace
  <1>2. count' \in [Buffer -> 0..(W - 1)]
    BY AddPlace
  <1>3. /\ system = "adding" /\ system' = "started" /\ csTimer' = "nobody"
        /\ UNCHANGED <<free, csMailbox, mailbox, callback, msg, starting>>
    BY DEF Add, SystemGoes, EnableTimer
  <1>4. Mailed' = Mailed /\ Handled' = Handled /\ Starting = {b} /\ Starting' = {}
    BY <1>1, <1>3 DEF Mailed, Handled, Starting
  <1> QED
    BY <1>1, <1>2, <1>3, <1>4 DEF Held

\* Steps of the automate that leave buffers, counts and sections alone
LEMMA OthersHeld ==
  ASSUME TInv, Held,
         UNCHANGED <<free, count, list, csTimer, csMailbox, mailbox, callback, msg>>,
         \/ system = "started" /\ system' = "handler"
         \/ UNCHANGED <<system, starting>>
  PROVE  Held'
  <1>1. Listed' = Listed /\ Mailed' = Mailed /\ Handled' = Handled
    BY DEF Listed, Mailed, Handled
  <1>2. Starting' = Starting
    BY DEF Starting
  <1> QED
    BY <1>1, <1>2 DEF Held

LEMMA TickHeld ==
  ASSUME TInv, Held, Tick
  PROVE  Held'
  <1>1. /\ list # <<>> /\ callback = "idle" /\ csTimer = "nobody"
        /\ count' = [count EXCEPT ![Head(list)] = (@ + W - 1) % W]
        /\ \/ callback' = "expiring" /\ csTimer' = "callback"
           \/ UNCHANGED <<callback, csTimer>>
        /\ UNCHANGED <<free, list, csMailbox, mailbox, system, msg, starting>>
    BY DEF Tick
  <1>2. count' \in [Buffer -> 0..(W - 1)]
    <2>1. \A b \in Buffer : (count[b] + W - 1) % W \in 0..(W - 1)
      <3> SUFFICES ASSUME NEW b \in Buffer PROVE (count[b] + W - 1) % W \in 0..(W - 1)
        OBVIOUS
      <3>1. W \in Nat \ {0} /\ count[b] \in Nat
        BY CountsTyped
      <3>2. count[b] + W - 1 \in Nat
        BY <3>1
      <3> QED
        BY <3>1, <3>2
    <2>2. count \in [Buffer -> 0..(W - 1)]
      BY DEF Held
    <2>3. \A b \in Buffer : count'[b] \in 0..(W - 1)
      BY <1>1, <2>1, <2>2
    <2> QED
      BY <1>1, <2>2, <2>3
  <1>3. system # "adding"
    BY <1>1 DEF Held
  <1>4. Listed' = Listed /\ Mailed' = Mailed /\ Handled' = Handled /\ Starting' = Starting
    BY <1>1 DEF Listed, Mailed, Handled, Starting
  <1> QED
    BY <1>1, <1>2, <1>3, <1>4 DEF Held

LEMMA ExpireHeld ==
  ASSUME TInv, Held, Expire
  PROVE  Held'
  <1>1. /\ callback = "expiring" /\ callback' = "queueing" /\ csMailbox' = "callback"
        /\ UNCHANGED <<free, count, list, csTimer, mailbox, system, msg, starting>>
    BY DEF Expire, CallbackGoes, LockMailBox
  <1>2. Listed' = Listed /\ Mailed' = Mailed /\ Handled' = Handled /\ Starting' = Starting
    BY <1>1 DEF Listed, Mailed, Handled, Starting
  <1> QED
    BY <1>1, <1>2 DEF Held

LEMMA QueueHeld ==
  ASSUME TInv, Held, Queue
  PROVE  Held'
  <1>1. PICK b : b = Head(list)
    OBVIOUS
  <1>2. /\ list # <<>> /\ callback = "queueing"
        /\ mailbox' = Append(mailbox, b) /\ list' = Tail(list) /\ csMailbox' = "nobody"
        /\ \/ callback' = "expiring" /\ UNCHANGED csTimer
           \/ callback' = "idle" /\ csTimer' = "nobody"
        /\ UNCHANGED <<free, count, system, msg, starting>>
    BY <1>1 DEF Queue, TInv, Control, UnlockMailBox, EnableTimer
  <1>3. b \in Listed /\ Listed' = Listed \ {b}
    BY <1>1, <1>2, TailDistinct DEF TInv, Types, Apart, Listed
  <1>4. b \in Buffer /\ b \notin Mailed
    BY <1>3, InUseTyped DEF TInv, Apart, InUse
  <1>5. Mailed' = Mailed \cup {b}
    BY <1>2, <1>4, AppendDistinct DEF TInv, Types, Apart, Mailed
  <1>6. Handled' = Handled /\ Starting' = Starting
    BY <1>2 DEF Handled, Starting
  <1>7. system # "adding"
    BY <1>2 DEF Held
  <1> QED
    BY <1>2, <1>3, <1>5, <1>6, <1>7 DEF Held

LEMMA NextHeld == TInv /\ Held /\ [Next]_vars => Held'
  <1> SUFFICES ASSUME TInv, Held, [Next]_vars PROVE Held'
    OBVIOUS
  <1>1. CASE UNCHANGED vars
    BY <1>1, OthersHeld DEF vars, locks
  <1>2. CASE AutomateStep
    <2>1. ASSUME NEW t \in Timer, NEW n \in Count, StartTimer(t, n)
          PROVE  Held'
      BY <2>1, StartTimerHeld
    <2>2. ASSUME NEW t \in Timer, StopTimer(t) \/ ResetTimer(t)
          PROVE  Held'
      BY <2>2, OthersHeld DEF StopTimer, ResetTimer, Stopped, locks
    <2>3. CASE Reset
      BY <2>3, OthersHeld DEF Reset, Stopped, locks
    <2>4. CASE SetTimer
      BY <2>4, OthersHeld DEF SetTimer, SystemGoes, locks
    <2> QED
      BY <1>2, <2>1, <2>2, <2>3, <2>4, AddHeld DEF AutomateStep
  <1> QED
    BY <1>1, <1>2, MailHeld, TickHeld, ExpireHeld, QueueHeld DEF Next

-----------------------------------------------------------------------------
(* One place for every buffer, counted.                                    *)

LEMMA TogetherCounted ==
  ASSUME NEW S, NEW T, IsFiniteSet(S), IsFiniteSet(T), S \cap T = {}
  PROVE  /\ IsFiniteSet(S \cup T)
         /\ Cardinality(S \cup T) = Cardinality(S) + Cardinality(T)
  <1>1. Cardinality(S \cap T) = 0
    BY FS_EmptySet
  <1>2. IsFiniteSet(S \cup T) /\ Cardinality(S \cup T) = Cardinality(S) + Cardinality(T) - Cardinality(S \cap T)
    BY FS_Union
  <1>3. Cardinality(S) \in Nat /\ Cardinality(T) \in Nat
    BY FS_CardinalityType
  <1> QED
    BY <1>1, <1>2, <1>3

LEMMA TypesHeld == TInv /\ Held => TypeOK
  <1> SUFFICES ASSUME TInv, Held PROVE TypeOK
    OBVIOUS
  <1>1. IsFiniteSet(Buffer) /\ NULL \notin Buffer
    BY TimersAssumption
  <1>2. /\ Len(list) = Cardinality(Listed) /\ Len(mailbox) = Cardinality(Mailed)
    BY <1>1, DistinctLength DEF TInv, Types, Apart, Listed, Mailed
  <1>3. /\ free \subseteq Buffer /\ Listed \subseteq Buffer /\ Mailed \subseteq Buffer
        /\ Handled \subseteq Buffer /\ Starting \subseteq Buffer
    BY DEF Held
  <1>4. /\ free \cap Listed = {} /\ (free \cup Listed) \cap Mailed = {}
        /\ (free \cup Listed \cup Mailed) \cap Handled = {}
        /\ (free \cup Listed \cup Mailed \cup Handled) \cap Starting = {}
    <2>1. free \cap Listed = {} /\ (free \cup Listed) \cap Mailed = {}
      BY DEF TInv, Apart, InUse
    <2>2. (free \cup Listed \cup Mailed) \cap Handled = {}
      BY DEF TInv, Apart, InUse, Handled
    <2>3. (free \cup Listed \cup Mailed \cup Handled) \cap Starting = {}
      BY DEF TInv, Apart, InUse, Handled, Starting
    <2> QED
      BY <2>1, <2>2, <2>3
  <1>5. /\ IsFiniteSet(free) /\ IsFiniteSet(Listed) /\ IsFiniteSet(Mailed)
        /\ IsFiniteSet(Handled) /\ IsFiniteSet(Starting)
    BY <1>1, <1>3, FS_Subset
  <1>6. /\ IsFiniteSet(free \cup Listed)
        /\ Cardinality(free \cup Listed) = Cardinality(free) + Cardinality(Listed)
    BY <1>4, <1>5, TogetherCounted
  <1>7. /\ IsFiniteSet(free \cup Listed \cup Mailed)
        /\ Cardinality(free \cup Listed \cup Mailed)
              = Cardinality(free) + Cardinality(Listed) + Cardinality(Mailed)
    BY <1>4, <1>5, <1>6, TogetherCounted
  <1>8. /\ IsFiniteSet(free \cup Listed \cup Mailed \cup Handled)
        /\ Cardinality(free \cup Listed \cup Mailed \cup Handled)
              = Cardinality(free) + Cardinality(Listed) + Cardinality(Mailed) + Cardinality(Handled)
    BY <1>4, <1>5, <1>7, TogetherCounted
  <1>9. Cardinality(free \cup Listed \cup Mailed \cup Handled \cup Starting)
              = Cardinality(free) + Cardinality(Listed) + Cardinality(Mailed) + Cardinality(Handled)
                    + Cardinality(Starting)
    BY <1>4, <1>5, <1>8, TogetherCounted
  <1>10. free \cup Listed \cup Mailed \cup Handled \cup Starting = Buffer
    BY DEF Held
  <1>11. Cardinality(free) + Len(list) + Len(mailbox) + Cardinality(Handled)
              + Cardinality(Starting) = Cardinality(Buffer)
    BY <1>2, <1>9, <1>10
  <1>12. /\ csTimer \in {"nobody", "system", "callback"}
         /\ starting \in (Timer \X Buffer \X Count) \cup {NULL}
    BY DEF TInv, Control, Held
  <1> QED
    BY <1>10, <1>11, <1>12 DEF TypeOK, TInv, Types, Held

-----------------------------------------------------------------------------
(* The callback has work when the first timer has nothing left.            *)

\* A timer with no ticks left is in front of the list only while the callback takes it out.
DueInv ==
    /\ Due(count, list) <=> callback # "idle"
    /\ system = "adding" => count[starting[2]] = TicksOf(starting[3])

LEMMA SameDue ==
  ASSUME TInv, DueInv, UNCHANGED <<count, list, callback>>,
         system' = "adding" => system = "adding" /\ starting' = starting
  PROVE  DueInv'
  BY DEF DueInv, Due

LEMMA StartTimerDue ==
  ASSUME TInv, Held, DueInv, NEW t \in Timer, NEW n \in Count, StartTimer(t, n)
  PROVE  DueInv'
  <1>1. PICK b \in free : count' = [count EXCEPT ![b] = TicksOf(n)] /\ starting' = <<t, b, n>>
    BY DEF StartTimer
  <1>2. UNCHANGED <<list, callback>>
    BY DEF StartTimer
  <1>3. b \in Buffer /\ b \notin Listed /\ count \in [Buffer -> 0..(W - 1)]
    BY DEF TInv, Types, Apart, InUse, Held
  <1>4. count'[b] = TicksOf(n) /\ starting'[2] = b /\ starting'[3] = n
    BY <1>1, <1>3
  <1>5. list # <<>> => count'[Head(list)] = count[Head(list)]
    BY <1>1, <1>3, TailDistinct DEF TInv, Types, Apart, Listed
  <1> QED
    BY <1>1, <1>2, <1>4, <1>5 DEF DueInv, Due

\* The ticks of the timer being started are those of its time.
LEMMA AsksTicks ==
  ASSUME TicksExact, TInv, DueInv, system = "adding"
  PROVE  /\ starting[2] \in Buffer /\ starting[3] \in Count
         /\ count[starting[2]] > 0
         /\ count[starting[2]] = (starting[3] * TimerResolution) \div SystemResolution
  <1>1. starting[2] \in Buffer /\ starting[3] \in Count
    BY DEF TInv, Control
  <1> QED
    BY <1>1 DEF DueInv, TicksExact

LEMMA AddDue ==
  ASSUME TicksExact, TInv, Held, DueInv, Add
  PROVE  DueInv'
  <1>1. PICK b \in Buffer, p \in 0..Len(list), n \in Nat :
            /\ b = starting[2]
            /\ list' \in Seq(Buffer)
            /\ InsertedBehind(list, list', p, b)
            /\ Shared(list, count, count', p, b, n)
    BY AddPlace
  <1>2. /\ system = "adding" /\ system' = "started" /\ UNCHANGED callback /\ callback = "idle"
    BY DEF Add, SystemGoes, Held
  <1>3. /\ Len(list') = Len(list) + 1 /\ list'[p + 1] = b /\ \A k \in 1..p : list'[k] = list[k]
        /\ Len(list) \in Nat
    BY <1>1 DEF InsertedBehind, TInv, Types
  <1>4. list' # <<>> /\ Head(list') = list'[1]
    BY <1>1, <1>3
  <1>5. count[b] = SumTo(list, count, p) + n /\ count'[b] = n /\ count[b] > 0
    BY <1>1, <1>2, AsksTicks DEF Shared
  <1>6. CASE p = 0
    <2>1. SumTo(list, count, 0) = 0
      BY CountsTyped, SumToIs DEF TInv, Types
    <2> QED
      BY <1>1, <1>2, <1>3, <1>4, <1>5, <1>6, <2>1 DEF DueInv, Due
  <1>7. CASE p # 0
    <2>1. 1 \in 1..p /\ 1 \in 1..Len(list) /\ 1 # p + 1
      BY <1>3, <1>7
    <2>2. count'[list[1]] = count[list[1]] /\ list'[1] = list[1]
      BY <1>1, <1>3, <2>1 DEF Shared
    <2>3. list # <<>> /\ Head(list) = list[1]
      BY <2>1 DEF TInv, Types
    <2>4. count[list[1]] # 0
      BY <1>2, <2>3 DEF DueInv, Due
    <2> QED
      BY <1>2, <1>4, <2>2, <2>4 DEF DueInv, Due
  <1> QED
    BY <1>6, <1>7

LEMMA TickDue ==
  ASSUME TInv, Held, DueInv, Tick
  PROVE  DueInv'
  <1>1. /\ callback = "idle" /\ csTimer = "nobody" /\ UNCHANGED <<list, system, starting>>
        /\ IF Due(count', list) THEN callback' = "expiring" ELSE UNCHANGED callback
    BY DEF Tick
  <1>2. system # "adding"
    BY <1>1 DEF Held
  <1> QED
    BY <1>1, <1>2 DEF DueInv

LEMMA QueueDue ==
  ASSUME TInv, Held, DueInv, Queue
  PROVE  DueInv'
  <1>1. /\ callback = "queueing" /\ list' = Tail(list) /\ UNCHANGED <<count, system, starting>>
        /\ \/ Due(count, Tail(list)) /\ callback' = "expiring"
           \/ ~ Due(count, Tail(list)) /\ callback' = "idle"
    BY DEF Queue
  <1> QED
    BY <1>1, Zenon DEF DueInv

LEMMA InitDue == Init => DueInv
  BY DEF Init, DueInv, Due

LEMMA NextDue == TicksExact /\ TInv /\ Held /\ DueInv /\ [Next]_vars => DueInv'
  <1> SUFFICES ASSUME TicksExact, TInv, Held, DueInv, [Next]_vars PROVE DueInv'
    OBVIOUS
  <1>1. CASE UNCHANGED vars
    BY <1>1, SameDue DEF vars
  <1>2. CASE SendMessage \/ LocksMailbox \/ Get \/ Process
    BY <1>2, SameDue DEF SendMessage, LocksMailbox, Get, Process, SystemGoes
  <1>3. CASE AutomateStep
    <2>1. ASSUME NEW t \in Timer, NEW n \in Count, StartTimer(t, n)
          PROVE  DueInv'
      BY <2>1, StartTimerDue
    <2>2. ASSUME NEW t \in Timer, StopTimer(t) \/ ResetTimer(t)
          PROVE  DueInv'
      BY <2>2, SameDue DEF StopTimer, ResetTimer, Stopped
    <2>3. CASE Reset
      BY <2>3, SameDue DEF Reset, Stopped
    <2>4. CASE SetTimer
      BY <2>4, SameDue DEF SetTimer, SystemGoes
    <2> QED
      BY <1>3, <2>1, <2>2, <2>3, <2>4, AddDue DEF AutomateStep
  <1>4. CASE Expire
    <2>1. callback = "expiring" /\ callback' = "queueing" /\ UNCHANGED <<count, list, system, starting>>
      BY <1>4 DEF Expire, CallbackGoes
    <2> QED
      BY <2>1 DEF DueInv
  <1> QED
    BY <1>1, <1>2, <1>3, <1>4, TickDue, QueueDue DEF Next

-----------------------------------------------------------------------------
(* The refinement.                                                         *)

\* The ticks left to the timers of a list s whose elements count c
Ticks(s, c) == [b \in ToSet(s) |-> SumTo(s, c, CHOOSE k \in 1..Len(s) : s[k] = b)]

Left == [b \in Listed |-> TicksUntil(CHOOSE k \in 1..Len(list) : list[k] = b)]

\* The timer asked for
Asked == IF system = "adding" THEN {<<starting[2], starting[3]>>} ELSE {}

LEMMA LeftIs == Left = Ticks(list, count)
  BY Zenon DEF Left, Ticks, Listed, TicksUntil, SumTo, SumOf

LEMMA LeftPrimed == Left' = Ticks(list', count')
  <1>1. (Left = Ticks(list, count))'
    BY LeftIs, PTL
  <1> QED
    BY <1>1

LEMMA TicksAre ==
  ASSUME NEW S, NEW s \in Seq(S), Distinct(s), NEW c
  PROVE  /\ \A k \in 1..Len(s) : s[k] \in ToSet(s) /\ Ticks(s, c)[s[k]] = SumTo(s, c, k)
         /\ DOMAIN Ticks(s, c) = ToSet(s)
         /\ \A x \in ToSet(s) : \E k \in 1..Len(s) : x = s[k]
  <1>1. \A x \in ToSet(s) : \E k \in 1..Len(s) : x = s[k]
    BY ToSetIs
  <1>2. ASSUME NEW k \in 1..Len(s)
        PROVE  s[k] \in ToSet(s) /\ Ticks(s, c)[s[k]] = SumTo(s, c, k)
    <2>1. s[k] \in ToSet(s)
      BY ToSetIs
    <2>2. (CHOOSE j \in 1..Len(s) : s[j] = s[k]) = k
      BY DEF Distinct
    <2> QED
      BY <2>1, <2>2, Zenon DEF Ticks
  <1>3. DOMAIN Ticks(s, c) = ToSet(s)
    BY Zenon DEF Ticks
  <1> QED
    BY <1>1, <1>2, <1>3

\* The ticks left are known from their values in the order of the list.
LEMMA TicksEqual ==
  ASSUME NEW S, NEW s \in Seq(S), Distinct(s), NEW c, NEW G,
         G = [x \in ToSet(s) |-> G[x]],
         \A k \in 1..Len(s) : SumTo(s, c, k) = G[s[k]]
  PROVE  Ticks(s, c) = G
  <1> DEFINE T == Ticks(s, c)
  <1>1. ASSUME NEW x \in ToSet(s)
        PROVE  T[x] = G[x]
    <2>1. PICK k \in 1..Len(s) : x = s[k]
      BY TicksAre
    <2>2. T[s[k]] = SumTo(s, c, k) /\ SumTo(s, c, k) = G[s[k]]
      BY TicksAre
    <2> QED
      BY <2>1, <2>2
  <1>2. T = [x \in ToSet(s) |-> T[x]]
    BY DEF Ticks
  <1> HIDE DEF T
  <1>3. T = G
    BY <1>1, <1>2
  <1> QED
    BY <1>3 DEF T

LEMMA LeftFacts ==
  ASSUME TInv, Held
  PROVE  /\ \A k \in 1..Len(list) : list[k] \in Listed /\ Left[list[k]] = SumTo(list, count, k)
         /\ DOMAIN Left = Listed
         /\ \A x \in Listed : \E k \in 1..Len(list) : x = list[k]
  BY TicksAre, LeftIs DEF TInv, Types, Apart, Listed

LEMMA AddLeft ==
  ASSUME TicksExact, TInv, Held, DueInv, Add
  PROVE  \E b \in Buffer, m \in Count :
            /\ Asked = {<<b, m>>} /\ Asked' = {}
            /\ Left' = [r \in DOMAIN Left \cup {b} |->
                            IF r = b THEN (m * TimerResolution) \div SystemResolution ELSE Left[r]]
  <1>1. PICK b \in Buffer, p \in 0..Len(list), n \in Nat :
            /\ b = starting[2] /\ b \notin Listed
            /\ list' \in Seq(Buffer) /\ Distinct(list') /\ Listed' = Listed \cup {b}
            /\ InsertedBehind(list, list', p, b)
            /\ count' \in [Buffer -> 0..(W - 1)]
            /\ Shared(list, count, count', p, b, n)
    BY AddPlace
  <1>2. /\ system = "adding" /\ list \in Seq(Buffer) /\ Distinct(list) /\ Len(list) \in Nat
        /\ count \in [Buffer -> Nat] /\ count' \in [Buffer -> Nat] /\ W \in Nat \ {0}
        /\ count[b] \in 0..(W - 1)
    BY <1>1, CountsTyped DEF Add, SystemGoes, TInv, Types, Apart
  <1>3. PICK m \in Count : m = starting[3] /\ count[b] = (m * TimerResolution) \div SystemResolution
    BY <1>1, <1>2, AsksTicks
  <1>4. /\ DOMAIN Left = Listed
        /\ Asked = {<<b, m>>} /\ Asked' = {}
    BY <1>1, <1>2, <1>3, LeftFacts DEF Asked, Add, SystemGoes
  <1>5. PICK G : G = [r \in Listed \cup {b} |-> IF r = b THEN count[b] ELSE Left[r]]
    OBVIOUS
  <1>6. /\ SumTo(list', count', p + 1) = count[b]
        /\ \A k \in 1..p : list'[k] = list[k] /\ SumTo(list', count', k) = SumTo(list, count, k)
        /\ \A k \in (p + 1)..Len(list) :
              list'[k + 1] = list[k] /\ SumTo(list', count', k + 1) = SumTo(list, count, k)
    <2>1. PICK r \in Seq(Buffer), d \in [Buffer -> Nat] : r = list' /\ d = count'
      BY <1>1, <1>2
    <2>2. InsertedBehind(list, r, p, b) /\ Shared(list, count, d, p, b, n)
      BY <1>1, <2>1
    <2>3. Between(list, r, count, d, p, b)
      BY <1>1, <1>2, <2>2, SumsInsert
    <2> QED
      BY <2>1, <2>3 DEF Between
  <1>7. ASSUME NEW k \in 1..Len(list)
        PROVE  list[k] \in Listed /\ G[list[k]] = SumTo(list, count, k)
    BY <1>1, <1>5, LeftFacts
  <1>8. ASSUME NEW k \in 1..Len(list')
        PROVE  SumTo(list', count', k) = G[list'[k]]
    <2>1. Len(list') = Len(list) + 1 /\ list'[p + 1] = b
      BY <1>1 DEF InsertedBehind
    <2>2. CASE k <= p
      <3>1. k \in 1..p /\ k \in 1..Len(list)
        BY <1>2, <2>2
      <3> QED
        BY <1>6, <1>7, <3>1
    <2>3. CASE k = p + 1
      BY <1>5, <1>6, <2>1, <2>3
    <2>4. CASE k > p + 1
      <3>1. k - 1 \in (p + 1)..Len(list) /\ k - 1 \in 1..Len(list) /\ (k - 1) + 1 = k
        BY <1>2, <2>1, <2>4
      <3>2. list'[k] = list[k - 1] /\ SumTo(list', count', k) = SumTo(list, count, k - 1)
        BY <1>6, <3>1
      <3> QED
        BY <1>7, <3>1, <3>2
    <2> QED
      BY <2>2, <2>3, <2>4
  <1>9. ToSet(list') = Listed \cup {b}
    BY <1>1 DEF Listed
  <1>10. Ticks(list', count') = G
    <2>1. PICK q : q = list'
      OBVIOUS
    <2>2. G = [x \in ToSet(q) |-> G[x]]
      BY <1>5, <1>9, <2>1
    <2>3. \A k \in 1..Len(q) : SumTo(q, count', k) = G[q[k]]
      BY <1>8, <2>1
    <2>4. q \in Seq(Buffer) /\ Distinct(q)
      BY <1>1, <2>1 DEF Distinct
    <2> QED
      BY <2>1, <2>2, <2>3, <2>4, TicksEqual
  <1>11. Left' = G
    BY <1>10, LeftPrimed
  <1> QED
    BY <1>3, <1>4, <1>5, <1>11

\* One less, as an unsigned number
LEMMA OneDown ==
  ASSUME NEW w \in Nat, NEW c \in 1..(w - 1)
  PROVE  (c + w - 1) % w = c - 1
  OBVIOUS

LEMMA TickLeft ==
  ASSUME TInv, Held, DueInv, Tick
  PROVE  /\ DOMAIN Left # {}
         /\ \A b \in DOMAIN Left : Left[b] > 0
         /\ Left' = [b \in DOMAIN Left |-> Left[b] - 1]
  <1>1. /\ list # <<>> /\ callback = "idle" /\ UNCHANGED list
        /\ count' = [count EXCEPT ![Head(list)] = (@ + W - 1) % W]
    BY DEF Tick
  <1>2. /\ list \in Seq(Buffer) /\ Distinct(list) /\ Len(list) \in Nat \ {0} /\ Head(list) = list[1]
        /\ count \in [Buffer -> Nat] /\ W \in Nat \ {0}
        /\ \A b \in Buffer : count[b] \in 0..(W - 1) /\ count[b] \in Nat
    BY <1>1, CountsTyped DEF TInv, Types, Apart
  <1>3. 1 \in 1..Len(list) /\ list[1] \in Buffer /\ \A k \in 1..Len(list) : list[k] \in Buffer
    BY <1>2
  <1>4. count[list[1]] \in 1..(W - 1)
    BY <1>1, <1>2, <1>3 DEF DueInv, Due
  <1>5. count'[list[1]] = count[list[1]] - 1
    <2>1. PICK c : c = count[list[1]]
      OBVIOUS
    <2>2. (c + W - 1) % W = c - 1
      BY <1>2, <1>4, <2>1, OneDown
    <2> QED
      BY <1>1, <1>2, <1>3, <2>1, <2>2
  <1>6. \A k \in 2..Len(list) : count'[list[k]] = count[list[k]]
    <2>1. \A k \in 2..Len(list) : k \in 1..Len(list) /\ list[k] # list[1] /\ list[k] \in Buffer
      BY <1>2, <1>3 DEF Distinct
    <2> QED
      BY <1>1, <1>2, <2>1
  <1>7. count' \in [Buffer -> Nat]
    <2>1. \A b \in Buffer : count'[b] \in Nat
      <3> SUFFICES ASSUME NEW b \in Buffer PROVE count'[b] \in Nat
        OBVIOUS
      <3>1. CASE b = list[1]
        BY <1>4, <1>5, <3>1
      <3>2. CASE b # list[1]
        BY <1>1, <1>2, <3>2
      <3> QED
        BY <3>1, <3>2
    <2> QED
      BY <1>1, <1>2, <2>1
  <1>8. \A k \in 1..Len(list) : SumTo(list, count', k) = SumTo(list, count, k) - 1
    <2>1. PICK d \in [Buffer -> Nat] : d = count'
      BY <1>7
    <2>2. OneLess(list, count, d)
      BY <1>1, <1>2, <1>5, <1>6, <2>1 DEF OneLess
    <2>3. AllLess(list, count, d)
      BY <1>2, <2>2, SumsTick
    <2> QED
      BY <2>1, <2>3 DEF AllLess
  <1>9. \A k \in 1..Len(list) : list[k] \in Listed /\ Left[list[k]] = SumTo(list, count, k)
    BY LeftFacts
  <1>10. DOMAIN Left = Listed /\ \A x \in Listed : \E k \in 1..Len(list) : x = list[k]
    BY LeftFacts
  <1>11. ASSUME NEW k \in 1..Len(list)
         PROVE  SumTo(list, count, k) > 0
    <2>1. SumTo(list, count, 1) = count[list[1]]
      <3>1. SumTo(list, count, 0) = 0 /\ SumTo(list, count, 1) = SumTo(list, count, 1 - 1) + count[list[1]]
        BY <1>2, <1>3, SumToIs, SMTT(40)
      <3> QED
        BY <1>4, <3>1
    <2>2. 1 \in 0..Len(list) /\ k \in 1..Len(list) /\ k \in 0..Len(list)
      BY <1>2
    <2>3. SumTo(list, count, 1) <= SumTo(list, count, k) /\ SumTo(list, count, k) \in Nat
      BY <1>2, <2>2, SumsGrow, SumToIs
    <2> QED
      BY <1>4, <2>1, <2>3
  <1>12. \A b \in DOMAIN Left : Left[b] > 0
    BY <1>9, <1>10, <1>11
  <1>13. PICK G : G = [b \in Listed |-> Left[b] - 1]
    OBVIOUS
  <1>14. Ticks(list, count') = G
    <2>1. \A k \in 1..Len(list) : SumTo(list, count', k) = G[list[k]]
      BY <1>8, <1>9, <1>13
    <2>2. G = [x \in ToSet(list) |-> G[x]]
      BY <1>13 DEF Listed
    <2> QED
      BY <1>2, <2>1, <2>2, TicksEqual
  <1>15. Left' = G
    BY <1>1, <1>14, LeftPrimed, Zenon
  <1>16. DOMAIN Left # {}
    BY <1>3, <1>9, <1>10
  <1> QED
    BY <1>10, <1>12, <1>13, <1>15, <1>16

LEMMA QueueLeft ==
  ASSUME TInv, Held, DueInv, Queue
  PROVE  \E b \in Buffer :
            /\ b \in DOMAIN Left
            /\ Left[b] = 0
            /\ Left' = [r \in DOMAIN Left \ {b} |-> Left[r]]
  <1>1. /\ callback = "queueing" /\ list' = Tail(list) /\ UNCHANGED count
    BY DEF Queue
  <1>2. list # <<>> /\ count[Head(list)] = 0
    BY <1>1 DEF DueInv, Due
  <1>3. /\ list \in Seq(Buffer) /\ Distinct(list) /\ Len(list) \in Nat \ {0} /\ Head(list) = list[1]
        /\ count \in [Buffer -> Nat]
    BY <1>2, CountsTyped DEF TInv, Types, Apart
  <1>4. PICK b \in Buffer : b = list[1]
    BY <1>3
  <1>5. PICK r : r = Tail(list)
    OBVIOUS
  <1>6. /\ r \in Seq(Buffer) /\ ToSet(r) = Listed \ {b} /\ Distinct(r)
    BY <1>2, <1>3, <1>4, <1>5, TailDistinct DEF Listed
  <1>7. /\ Len(list) = Len(r) + 1
        /\ \A k \in 1..Len(r) : r[k] = list[k + 1]
        /\ \A k \in 0..Len(r) : SumTo(r, count, k) = SumTo(list, count, k + 1)
    BY <1>2, <1>3, <1>5, SumsTail
  <1>8. \A k \in 1..Len(list) : list[k] \in Listed /\ Left[list[k]] = SumTo(list, count, k)
    BY LeftFacts
  <1>9. DOMAIN Left = Listed
    BY LeftFacts
  <1>10. Left[b] = 0 /\ b \in Listed
    <2>1. 1 \in 1..Len(list)
      BY <1>3
    <2>2. /\ SumTo(list, count, 0) = 0
          /\ SumTo(list, count, 1) = SumTo(list, count, 1 - 1) + count[list[1]]
      BY <1>3, <2>1, SumToIs
    <2> QED
      BY <1>2, <1>3, <1>4, <1>8, <2>1, <2>2
  <1>11. PICK G : G = [x \in Listed \ {b} |-> Left[x]]
    OBVIOUS
  <1>12. ASSUME NEW k \in 1..Len(r)
         PROVE  SumTo(r, count, k) = G[r[k]]
    <2>1. k + 1 \in 1..Len(list) /\ k \in 0..Len(r)
      BY <1>3, <1>7
    <2>2. r[k] \in ToSet(r)
      BY <1>6, ToSetIs
    <2>3. G[r[k]] = Left[r[k]]
      BY <1>6, <1>11, <2>2
    <2>4. r[k] = list[k + 1] /\ SumTo(r, count, k) = SumTo(list, count, k + 1)
      BY <1>7, <2>1
    <2> QED
      BY <1>8, <2>1, <2>3, <2>4
  <1>13. G = [x \in ToSet(r) |-> G[x]]
    BY <1>6, <1>11
  <1>14. Ticks(r, count) = G
    <2>1. r \in Seq(Buffer) /\ Distinct(r)
      BY <1>6
    <2> QED
      BY <1>12, <1>13, <2>1, TicksEqual
  <1>15. Left' = G
    BY <1>1, <1>5, <1>14, LeftPrimed, Zenon
  <1> QED
    BY <1>9, <1>10, <1>11, <1>15

LEMMA SameLeft ==
  ASSUME UNCHANGED <<list, count>>
  PROVE  UNCHANGED Left
  BY LeftIs, LeftPrimed, Zenon

LEMMA SameAsked ==
  ASSUME UNCHANGED <<system, starting>> \/ "adding" \notin {system, system'}
  PROVE  UNCHANGED Asked
  BY DEF Asked

LEMMA StartTimerLeft ==
  ASSUME TInv, Held, NEW t \in Timer, NEW n \in Count, StartTimer(t, n)
  PROVE  /\ UNCHANGED Left
         /\ \E b \in Buffer : b \notin DOMAIN Left /\ Asked = {} /\ Asked' = {<<b, n>>}
  <1>1. PICK b \in free : count' = [count EXCEPT ![b] = TicksOf(n)] /\ starting' = <<t, b, n>>
    BY DEF StartTimer
  <1>2. UNCHANGED list
    BY DEF StartTimer
  <1>3. b \in Buffer /\ b \notin Listed /\ list \in Seq(Buffer) /\ Distinct(list)
    BY DEF TInv, Types, Apart, InUse
  <1>4. count \in [Buffer -> Nat] /\ count' \in [Buffer -> Nat]
    BY StartTimerHeld, CountsTyped, TimersAssumption DEF Held
  <1>5. \A k \in 1..Len(list) : list[k] \in Listed /\ Left[list[k]] = SumTo(list, count, k)
    BY LeftFacts
  <1>6. \A k \in 1..Len(list) : count'[list[k]] = count[list[k]]
    BY <1>1, <1>3, <1>4, <1>5
  <1>7. \A k \in 0..Len(list) : SumTo(list, count', k) = SumTo(list, count, k)
    BY <1>3, <1>4, <1>6, SumsSame
  <1>8. \A k \in 1..Len(list) : SumTo(list, count', k) = Left[list[k]]
    BY <1>3, <1>5, <1>7
  <1>9. Left = [x \in ToSet(list) |-> Left[x]]
    BY DEF Left, Listed
  <1>10. Ticks(list, count') = Left
    BY <1>3, <1>8, <1>9, TicksEqual
  <1>11. UNCHANGED Left
    BY <1>2, <1>10, LeftPrimed, Zenon
  <1>12. b \notin DOMAIN Left /\ Asked = {} /\ Asked' = {<<b, n>>}
    BY <1>1, <1>3, LeftFacts DEF Asked, StartTimer, SystemGoes
  <1> QED
    BY <1>3, <1>11, <1>12

-----------------------------------------------------------------------------
(* The theorems.                                                           *)

\* Every buffer is in one place, whatever the automate does with its timers
\* (timer.cpp, mailbox.cpp): the invariant the other theorems rest on.
THEOREM TimersInvariant == Spec => []TInv
  <1>1. Init => TInv
    BY InitTInv
  <1>2. TInv /\ [Next]_vars => TInv'
    BY NextTInv
  <1> QED
    BY <1>1, <1>2, PTL DEF Spec

\* StopTimer marks its own timer's message only (fsm.cpp:240).
THEOREM PointersCurrent == Spec => []TimerBufferCurrent
  <1>1. TInv => TimerBufferCurrent
    BY DEF TInv
  <1> QED
    BY <1>1, TimersInvariant, PTL

\* No timeout is under way that the automate cannot stop any more (fsm.cpp:240).
THEOREM TimeoutsKnown == Spec => []TimeoutKnown
  <1>1. TInv => TimeoutKnown
    BY DEF TInv
  <1> QED
    BY <1>1, TimersInvariant, PTL

\* Each critical section has the owner its callers think it has, no thread starts a
\* timer while the callback works, and there is a place for every buffer.
THEOREM SectionsHeld == Spec => []Held
  <1>1. Init => Held
    BY InitHeld
  <1>2. TInv /\ Held /\ [Next]_vars => Held'
    BY NextHeld
  <1> QED
    BY <1>1, <1>2, TimersInvariant, PTL DEF Spec

\* The variables of the timers have their types, counts stay numbers of 32 bits, and the
\* pool, the delta list, the mailbox, the handler and StartTimer share the buffers: none
\* is lost and none is in two of these places (timer.cpp, mailbox.cpp, fsm.cpp).
THEOREM TypeCorrect == Spec => []TypeOK
  <1>1. TInv /\ Held => TypeOK
    BY TypesHeld
  <1> QED
    BY <1>1, TimersInvariant, SectionsHeld, PTL

\* The callback has taken out every timer that is due before it sleeps again
\* (timer.cpp:521-551), so that no count is decremented below zero.
THEOREM NoneOverdue ==
  ASSUME TicksExact
  PROVE  Spec => []DueInv
  <1>1. Init => DueInv
    BY InitDue
  <1>2. TInv /\ Held /\ DueInv /\ [Next]_vars => DueInv'
    BY NextDue
  <1> QED
    BY <1>1, <1>2, TimersInvariant, SectionsHeld, PTL DEF Spec

\* The delta list, its insertion and its callback implement the countdown of each timer
\* (timer.cpp:190-225, 370, 507-554): a timer that is asked for with a time is handed to
\* the mailbox after as many ticks as fit into that time, whatever else is started, stopped
\* and expires, when the resolutions fit each other.
THEOREM CountdownImplemented ==
  ASSUME TicksExact
  PROVE  Spec => OnTime
  <1>1. Init => CountdownOf!Init
    <2> SUFFICES ASSUME Init PROVE CountdownOf!Init
      OBVIOUS
    <2>1. Listed = {}
      BY DEF Init, Listed, ToSet
    <2>2. Left = [b \in {} |-> 0] /\ Asked = {}
      BY <2>1 DEF Left, Asked, Init
    <2> QED
      BY <2>2, Zenon DEF CountdownOf!Init, Left, Asked
  <1>2. TInv /\ Held /\ DueInv /\ [Next]_vars => [CountdownOf!Next]_<<Asked, Left>>
    <2> SUFFICES ASSUME TInv, Held, DueInv, [Next]_vars
                 PROVE  CountdownOf!Next \/ (UNCHANGED Asked /\ UNCHANGED Left)
      OBVIOUS
    <2>1. CASE Add
      <3>1. PICK b \in Buffer, m \in Count :
                /\ Asked = {<<b, m>>} /\ Asked' = {}
                /\ Left' = [r \in DOMAIN Left \cup {b} |->
                               IF r = b THEN (m * TimerResolution) \div SystemResolution ELSE Left[r]]
        BY <2>1, AddLeft
      <3>2. <<b, m>> \in Asked /\ Asked' = Asked \ {<<b, m>>}
        BY <3>1
      <3>3. CountdownOf!StartTimer(b, m)
        BY <3>1, <3>2, Zenon DEF CountdownOf!StartTimer, CountdownOf!Running, Left, Asked
      <3> QED
        BY <3>3 DEF CountdownOf!Next
    <2>2. CASE Tick
      <3>1. /\ DOMAIN Left # {}
            /\ \A b \in DOMAIN Left : Left[b] > 0
            /\ Left' = [b \in DOMAIN Left |-> Left[b] - 1]
        BY <2>2, TickLeft
      <3>2. UNCHANGED Asked
        BY <2>2, SameAsked DEF Tick
      <3>3. CountdownOf!Tick
        BY <3>1, <3>2, Zenon DEF CountdownOf!Tick, CountdownOf!Running, Left, Asked
      <3> QED
        BY <3>3 DEF CountdownOf!Next
    <2>3. CASE Queue
      <3>1. PICK b \in Buffer :
                /\ b \in DOMAIN Left
                /\ Left[b] = 0
                /\ Left' = [r \in DOMAIN Left \ {b} |-> Left[r]]
        BY <2>3, QueueLeft
      <3>2. UNCHANGED Asked
        BY <2>3, SameAsked DEF Queue
      <3>3. CountdownOf!Expire(b)
        BY <3>1, <3>2, Zenon DEF CountdownOf!Expire, CountdownOf!Running, Left, Asked
      <3> QED
        BY <3>3 DEF CountdownOf!Next
    <2>4. ASSUME NEW t \in Timer, NEW n \in Count, StartTimer(t, n)
          PROVE  CountdownOf!Next
      <3>1. PICK b \in Buffer : b \notin DOMAIN Left /\ Asked = {} /\ Asked' = {<<b, n>>}
        BY <2>4, StartTimerLeft
      <3>2. UNCHANGED Left
        BY <2>4, StartTimerLeft
      <3>3. Asked' = Asked \cup {<<b, n>>}
        BY <3>1
      <3>4. CountdownOf!Ask(b, n)
        BY <3>1, <3>2, <3>3, Zenon DEF CountdownOf!Ask, CountdownOf!Running, Left, Asked
      <3> QED
        BY <3>4 DEF CountdownOf!Next
    <2>5. ASSUME NEW t \in Timer, StopTimer(t) \/ ResetTimer(t)
          PROVE  UNCHANGED Asked /\ UNCHANGED Left
      BY <2>5, SameLeft, SameAsked DEF StopTimer, ResetTimer, Stopped
    <2>6. CASE Reset \/ SetTimer
      BY <2>6, SameLeft, SameAsked DEF Reset, SetTimer, Stopped, SystemGoes
    <2>7. CASE SendMessage \/ LocksMailbox \/ Get \/ Process \/ Expire
      BY <2>7, SameLeft, SameAsked DEF SendMessage, LocksMailbox, Get, Process, Expire, SystemGoes
    <2>8. CASE UNCHANGED vars
      BY <2>8, SameLeft, SameAsked DEF vars
    <2> QED
      BY <2>1, <2>2, <2>3, <2>4, <2>5, <2>6, <2>7, <2>8 DEF Next, AutomateStep
  <1> QED
    BY <1>1, <1>2, TimersInvariant, SectionsHeld, NoneOverdue, PTL
       DEF Spec, OnTime, CountdownOf!Spec, CountdownOf!vars, Left, Asked
=============================================================================
