------------------------------ MODULE Buffers ------------------------------
(***************************************************************************)
(* The kernel's memory: TBuffers (buffers.cpp) and its list of free        *)
(* buffers per size, TBufferQue (buffersQueue.cpp), used by several        *)
(* threads.                                                                *)
(*                                                                         *)
(* A list is singly linked through the buffers' BUFF_NEXT field and        *)
(* guarded by a critical section, which the thread that owns it may enter  *)
(* again.  The steps of a call are: entering the critical section, two    *)
(* steps of work on the list, leaving it.  GetFromHead on an empty list    *)
(* returns NULL without leaving it.                                        *)
(*                                                                         *)
(* What a caller does with a NULL depends on the build: where assert is    *)
(* active (Debug) Get aborts the process, elsewhere GetBuffer tries the    *)
(* next larger size and throws after the last one.  Nothing catches the    *)
(* exception in the threads that use the pool, so it ends the process too. *)
(***************************************************************************)
EXTENDS Naturals, Sequences, FiniteSets

CONSTANTS Thread,         \* the threads of the process
          NoThread,       \* the owner of a free critical section
          Buffer,         \* all buffers
          NULL,           \* the null pointer
          BuffersLength,  \* the sizes of buffers, smallest first
          BUFF_CODE,      \* the class of each buffer: an index of BuffersLength
          Length,         \* the sizes asked for
          Debug,          \* whether assert is active
          MaxHeld,        \* bound on the buffers a thread holds
          MaxDepth        \* bound on the entries a thread leaves open

ClassBufferNum == Len(BuffersLength)
Class == 1..ClassBufferNum

ASSUME BuffersAssumption ==
    /\ NoThread \notin Thread
    /\ NULL \notin Buffer \cup Length
    /\ IsFiniteSet(Buffer)
    /\ BuffersLength \in Seq(Nat \ {0}) /\ BuffersLength # <<>>
    /\ \A c \in Class, d \in Class : c < d => BuffersLength[c] <= BuffersLength[d]
    /\ BUFF_CODE \in [Buffer -> Class]
    /\ \A c \in Class : \E b \in Buffer : BUFF_CODE[b] = c
    /\ Length \subseteq Nat
    /\ \A len \in Length : len <= BuffersLength[ClassBufferNum]
    /\ Debug \in BOOLEAN
    /\ MaxHeld \in Nat
    /\ MaxDepth \in Nat

VARIABLES QHead, QTail,     \* Head and Tail of each class's list
          BUFF_NEXT,        \* the link field of each buffer
          FreeBufferCount,  \* the number of buffers in each list
          owner,            \* of each critical section
          depth,            \* how often its owner has entered it
          pc,               \* where each thread is
          class,            \* the class its call works on
          len,              \* the size it asked for
          info,             \* the buffer its call works on
          held,             \* the buffers it holds
          alive             \* the process runs

lists == <<QHead, QTail, BUFF_NEXT, FreeBufferCount>>
locks == <<owner, depth>>
calls == <<class, len, info>>
vars  == <<lists, locks, pc, calls, held, alive>>

\* The constructor puts the buffers of a class into its list in some order.
Ordered(c) == CHOOSE s \in [1..Cardinality({b \in Buffer : BUFF_CODE[b] = c}) -> Buffer] :
                  {s[i] : i \in DOMAIN s} = {b \in Buffer : BUFF_CODE[b] = c}

Init ==
    /\ QHead = [c \in Class |-> Ordered(c)[1]]
    /\ QTail = [c \in Class |-> Ordered(c)[Len(Ordered(c))]]
    /\ BUFF_NEXT = [b \in Buffer |->
          LET s == Ordered(BUFF_CODE[b])
              i == CHOOSE k \in DOMAIN s : s[k] = b
          IN  IF i = Len(s) THEN NULL ELSE s[i + 1]]
    /\ FreeBufferCount = [c \in Class |-> Len(Ordered(c))]
    /\ owner = [c \in Class |-> NoThread]
    /\ depth = [c \in Class |-> 0]
    /\ pc = [t \in Thread |-> "outside"]
    /\ class = [t \in Thread |-> 1]
    /\ len = [t \in Thread |-> 0]
    /\ info = [t \in Thread |-> NULL]
    /\ held = [t \in Thread |-> {}]
    /\ alive = TRUE

-----------------------------------------------------------------------------
(* The critical sections.                                                  *)

At(t, label) == alive /\ pc[t] = label

Goto(t, label) == pc' = [pc EXCEPT ![t] = label]

\* Faulty variant: no critical section
LockBuffNot(t, from, to) ==
    /\ At(t, from)
    /\ Goto(t, to)
    /\ UNCHANGED <<lists, locks, calls, held, alive>>

\* EnterCriticalSection
LockBuff(t, from, to) ==
    /\ At(t, from)
    /\ owner[class[t]] \in {NoThread, t}
    /\ owner' = [owner EXCEPT ![class[t]] = t]
    /\ depth' = [depth EXCEPT ![class[t]] = @ + 1]
    /\ Goto(t, to)
    /\ UNCHANGED <<lists, calls, held, alive>>

\* Faulty variant: the critical section is not left
ReturnsLocked(t, from) ==
    /\ At(t, from)
    /\ Goto(t, "outside")
    /\ UNCHANGED <<lists, locks, calls, held, alive>>

\* LeaveCriticalSection; the call returns
UnlockBuff(t, from) ==
    /\ At(t, from)
    /\ depth' = [depth EXCEPT ![class[t]] = @ - 1]
    /\ owner' = [owner EXCEPT ![class[t]] = IF depth[class[t]] = 1 THEN NoThread ELSE @]
    /\ Goto(t, "outside")
    /\ UNCHANGED <<lists, calls, held, alive>>

-----------------------------------------------------------------------------
(* GetBuffer.                                                              *)

\* The first class whose buffers are large enough
FirstClass(length) ==
    CHOOSE c \in Class : /\ BuffersLength[c] >= length
                         /\ \A d \in Class : d < c => BuffersLength[d] < length

GetBuffer(t, length) ==
    /\ At(t, "outside")
    /\ Cardinality(held[t]) < MaxHeld
    /\ \A c \in Class : depth[c] <= MaxDepth
    /\ class' = [class EXCEPT ![t] = FirstClass(length)]
    /\ len' = [len EXCEPT ![t] = length]
    /\ Goto(t, "get")
    /\ UNCHANGED <<lists, locks, info, held, alive>>

\* GetFromHead reads the head of the list ...
ReadsHead(t) ==
    /\ At(t, "unlink")
    /\ QHead[class[t]] # NULL
    /\ info' = [info EXCEPT ![t] = QHead[class[t]]]
    /\ Goto(t, "advance")
    /\ UNCHANGED <<lists, locks, class, len, held, alive>>

\* Faulty variant: the tail of a list that runs empty is kept
GetFromHeadKeepsTail(t) ==
    LET c == class[t] IN
    /\ At(t, "advance")
    /\ QHead' = [QHead EXCEPT ![c] = BUFF_NEXT[info[t]]]
    /\ FreeBufferCount' = [FreeBufferCount EXCEPT ![c] = @ - 1]
    /\ held' = [held EXCEPT ![t] = @ \cup {info[t]}]
    /\ Goto(t, "unlinked")
    /\ UNCHANGED <<QTail, BUFF_NEXT, locks, calls, alive>>

\* ... and moves it on: the first buffer is the caller's.
GetFromHead(t) ==
    LET c == class[t] IN
    /\ At(t, "advance")
    /\ QHead' = [QHead EXCEPT ![c] = BUFF_NEXT[info[t]]]
    /\ QTail' = [QTail EXCEPT ![c] = IF BUFF_NEXT[info[t]] = NULL THEN NULL ELSE @]
    /\ FreeBufferCount' = [FreeBufferCount EXCEPT ![c] = @ - 1]
    /\ held' = [held EXCEPT ![t] = @ \cup {info[t]}]
    /\ Goto(t, "unlinked")
    /\ UNCHANGED <<BUFF_NEXT, locks, calls, alive>>

\* GetFromHead returns NULL and stays in the critical section; GetBuffer goes
\* on with the next class.
TriesNextClass(t) ==
    /\ At(t, "unlink")
    /\ QHead[class[t]] = NULL
    /\ ~Debug /\ class[t] < ClassBufferNum
    /\ class' = [class EXCEPT ![t] = @ + 1]
    /\ Goto(t, "get")
    /\ UNCHANGED <<lists, locks, len, info, held, alive>>

\* Faulty variant: no other class is tried
TerminatesAtOnce(t) ==
    /\ At(t, "unlink")
    /\ QHead[class[t]] = NULL
    /\ alive' = FALSE
    /\ UNCHANGED <<lists, locks, pc, calls, held>>

\* The assertion in Get fails, or GetBuffer has no next class and throws.
Terminates(t) ==
    /\ At(t, "unlink")
    /\ QHead[class[t]] = NULL
    /\ Debug \/ class[t] = ClassBufferNum
    /\ alive' = FALSE
    /\ UNCHANGED <<lists, locks, pc, calls, held>>

-----------------------------------------------------------------------------
(* RetBuffer.                                                              *)

\* Add and PutOnTail up to the lock: the link field is cleared outside it.
RetBuffer(t, b) ==
    /\ At(t, "outside")
    /\ b \in held[t]
    /\ class' = [class EXCEPT ![t] = BUFF_CODE[b]]
    /\ info' = [info EXCEPT ![t] = b]
    /\ BUFF_NEXT' = [BUFF_NEXT EXCEPT ![b] = NULL]
    /\ Goto(t, "put")
    /\ UNCHANGED <<QHead, QTail, FreeBufferCount, locks, len, held, alive>>

\* PutOnTail links the buffer behind the last one ...
LinksLast(t) ==
    LET c == class[t] IN
    /\ At(t, "link")
    /\ IF QTail[c] = NULL
       THEN QHead' = [QHead EXCEPT ![c] = info[t]] /\ UNCHANGED BUFF_NEXT
       ELSE BUFF_NEXT' = [BUFF_NEXT EXCEPT ![QTail[c]] = info[t]] /\ UNCHANGED QHead
    /\ held' = [held EXCEPT ![t] = @ \ {info[t]}]
    /\ Goto(t, "extend")
    /\ UNCHANGED <<QTail, FreeBufferCount, locks, calls, alive>>

\* ... and makes it the last one.
PutOnTail(t) ==
    LET c == class[t] IN
    /\ At(t, "extend")
    /\ QTail' = [QTail EXCEPT ![c] = info[t]]
    /\ FreeBufferCount' = [FreeBufferCount EXCEPT ![c] = @ + 1]
    /\ Goto(t, "linked")
    /\ UNCHANGED <<QHead, BUFF_NEXT, locks, calls, held, alive>>

-----------------------------------------------------------------------------
\* A thread sends a buffer in a message and another one receives it.
HandOver(t, u, b) ==
    /\ At(t, "outside")
    /\ b \in held[t]
    /\ u # t
    /\ At(u, "outside")
    /\ Cardinality(held[u]) < MaxHeld
    /\ held' = [held EXCEPT ![t] = @ \ {b}, ![u] = @ \cup {b}]
    /\ UNCHANGED <<lists, locks, pc, calls, alive>>

\* The steps of a call; they need no decision of the caller.
CallStep(t) ==
    \/ LockBuff(t, "get", "unlink")
    \/ ReadsHead(t)
    \/ GetFromHead(t)
    \/ TriesNextClass(t)
    \/ Terminates(t)
    \/ UnlockBuff(t, "unlinked")
    \/ LockBuff(t, "put", "link")
    \/ LinksLast(t)
    \/ PutOnTail(t)
    \/ UnlockBuff(t, "linked")

Next ==
    \E t \in Thread :
        \/ CallStep(t)
        \/ \E length \in Length : GetBuffer(t, length)
        \/ \E b \in Buffer : RetBuffer(t, b)
        \/ \E u \in Thread, b \in Buffer : HandOver(t, u, b)

Spec == Init /\ [][Next]_vars

\* Threads are scheduled, and a critical section that is left again and again
\* is not denied to one waiting for it for ever.
FairSpec == Spec /\ \A t \in Thread : SF_vars(CallStep(t))
-----------------------------------------------------------------------------
(* Properties.                                                             *)

SizeOf(b) == BuffersLength[BUFF_CODE[b]]

Labels == {"outside", "get", "unlink", "advance", "unlinked", "put", "link", "extend", "linked"}

\* The variables of the lists, the critical sections and the calls have their
\* types.
TypeOK ==
    /\ QHead \in [Class -> Buffer \cup {NULL}]
    /\ QTail \in [Class -> Buffer \cup {NULL}]
    /\ BUFF_NEXT \in [Buffer -> Buffer \cup {NULL}]
    /\ FreeBufferCount \in [Class -> 0..Cardinality(Buffer)]
    /\ owner \in [Class -> Thread \cup {NoThread}]
    /\ depth \in [Class -> Nat]
    /\ pc \in [Thread -> Labels]
    /\ class \in [Thread -> Class]
    /\ len \in [Thread -> Length \cup {0}]
    /\ info \in [Thread -> Buffer \cup {NULL}]
    /\ held \in [Thread -> SUBSET Buffer]
    /\ alive \in BOOLEAN

\* The first n buffers of the list of class c, NULL from its end on
Nth(c) == LET nth[n \in 1..(Cardinality(Buffer) + 1)] ==
                  IF n = 1 THEN QHead[c]
                  ELSE IF nth[n - 1] = NULL THEN NULL ELSE BUFF_NEXT[nth[n - 1]]
          IN  nth

InList(c) == {Nth(c)[n] : n \in 1..Cardinality(Buffer)} \ {NULL}

\* A thread is between the two steps of the work on the list of class c.
HalfDone(c) == \E t \in Thread : class[t] = c /\ pc[t] \in {"advance", "extend"}

\* Each list is what the code takes it for whenever no thread works on it: it
\* ends, at QTail, has as many buffers as FreeBufferCount says, all of its own
\* class, and no buffer in it is in a thread's hands.
ListsIntact ==
    \A c \in Class : ~HalfDone(c) =>
        /\ Nth(c)[FreeBufferCount[c] + 1] = NULL
        /\ Cardinality(InList(c)) = FreeBufferCount[c]
        /\ QTail[c] = IF FreeBufferCount[c] = 0 THEN NULL ELSE Nth(c)[FreeBufferCount[c]]
        /\ \A b \in InList(c) : BUFF_CODE[b] = c /\ \A t \in Thread : b \notin held[t]

\* No buffer is lost and none is in two places: each is in its class's list or in
\* the hands of exactly one thread.
NoBufferLost ==
    \A b \in Buffer :
        Cardinality({t \in Thread : b \in held[t]}) = IF b \in InList(BUFF_CODE[b]) THEN 0 ELSE 1

\* The lists and locks implement the pool of module BufferPool.  In particular
\* a request fails only when no free buffer is large enough, although GetBuffer
\* looks at the lists one after the other.
Pool == INSTANCE BufferPool WITH
            Size <- SizeOf,
            NoRequest <- NULL,
            free <- UNION {InList(c) : c \in Class},
            want <- [t \in Thread |-> IF pc[t] \in {"get", "unlink", "advance"} THEN len[t] ELSE NULL]

ImplementsPool == Pool!PoolSpec

\* A thread outside the pool's calls is in none of its critical sections:
\* "Unlocks the buufer queue, so that concurrent processes can use it."
\* (buffersQueue.cpp:116).
LockedOnlyInCalls ==
    \A c \in Class : owner[c] # NoThread => pc[owner[c]] # "outside"

\* Every call ends: a request is granted or fails, and a thread that returns a buffer
\* goes on, unless the process ends.
CallsReturn == \A t \in Thread : pc[t] # "outside" ~> pc[t] = "outside" \/ ~alive
=============================================================================
