----------------------------- MODULE PostOffice -----------------------------
(***************************************************************************)
(* The exchange of messages between threads: TPostOffice (postOffice.cpp)  *)
(* with its mailboxes TMailBox (mailbox.cpp) and one semaphore for each.   *)
(*                                                                         *)
(* Add queues a message and then, in a step of its own, releases the       *)
(* mailbox's semaphore.  GetSync, called by the system thread only, waits  *)
(* for any semaphore, takes the first signalled one down by one and calls  *)
(* TMailBox::Get; Get is also called without waiting.  Get drops the       *)
(* messages of stopped timers (code DISCARDED) in front of the one it      *)
(* returns, so that semaphores and queues drift apart; it returns NULL     *)
(* when nothing is left.                                                   *)
(*                                                                         *)
(* Every access to a queue is one critical section, hence one step.  A     *)
(* message is its buffer; the free buffers are the pool of BufferPool.     *)
(***************************************************************************)
EXTENDS Naturals, Sequences, FiniteSets, SequencesExt

CONSTANTS Thread,        \* the threads that send messages
          System,        \* the one that runs FSMSystem::Start
          Buffer,        \* all buffers
          MailBoxesNum,  \* the number of mailboxes
          MaxSem,        \* the maximal count of a semaphore (10000)
          MaxHeld        \* bound on the buffers a thread holds

Box == 0..(MailBoxesNum - 1)

ASSUME PostOfficeAssumption ==
    /\ System \in Thread
    /\ IsFiniteSet(Thread)
    /\ IsFiniteSet(Buffer)
    /\ MailBoxesNum \in Nat \ {0}
    /\ MaxSem \in Nat
    /\ Cardinality(Buffer) <= MaxSem
    /\ MaxHeld \in Nat

VARIABLES free,       \* the buffers in the pool
          discarded,  \* the buffers whose message code is DISCARDED
          MailBoxes,  \* the messages queued in each mailbox
          semHandle,  \* the count of each mailbox's semaphore
          pc,         \* where each thread is
          box,        \* the mailbox of its call
          sync,       \* its call of Get is part of GetSync
          held        \* the buffers in its hands

vars == <<free, discarded, MailBoxes, semHandle, pc, box, sync, held>>

Init ==
    /\ free = Buffer
    /\ discarded = {}
    /\ MailBoxes = [m \in Box |-> <<>>]
    /\ semHandle = [m \in Box |-> 0]
    /\ pc = [t \in Thread |-> "outside"]
    /\ box = [t \in Thread |-> 0]
    /\ sync = [t \in Thread |-> FALSE]
    /\ held = [t \in Thread |-> {}]

Goto(t, from, to) ==
    /\ pc[t] = from
    /\ pc' = [pc EXCEPT ![t] = to]

-----------------------------------------------------------------------------
(* What handlers and other callers do between the calls.                   *)

\* A new message in a buffer from the pool; a call on an empty pool ends the
\* process (module Buffers).
PrepareNewMessage(t) ==
    /\ pc[t] = "outside"
    /\ Cardinality(held[t]) < MaxHeld
    /\ \E b \in free :
          /\ free' = free \ {b}
          /\ discarded' = discarded \ {b}
          /\ held' = [held EXCEPT ![t] = @ \cup {b}]
    /\ UNCHANGED <<MailBoxes, semHandle, pc, box, sync>>

\* ClearMessage, Discard, RetBuffer
DiscardMsg(t) ==
    /\ pc[t] = "outside"
    /\ \E b \in held[t] :
          /\ free' = free \cup {b}
          /\ held' = [held EXCEPT ![t] = @ \ {b}]
    /\ UNCHANGED <<discarded, MailBoxes, semHandle, pc, box, sync>>

Queued == UNION {ToSet(MailBoxes[m]) : m \in Box}

\* A handler stops a timer whose message is already queued; StopTimer takes no
\* lock.  (Timers that have not expired are not modelled here.)
StopTimer(b) ==
    /\ pc[System] = "outside"
    /\ b \in Queued
    /\ discarded' = discarded \cup {b}
    /\ UNCHANGED <<free, MailBoxes, semHandle, pc, box, sync, held>>

-----------------------------------------------------------------------------
(* Add.                                                                    *)

Add(t, m) ==
    /\ Goto(t, "outside", "release")
    /\ box' = [box EXCEPT ![t] = m]
    /\ \E b \in held[t] :
          /\ MailBoxes' = [MailBoxes EXCEPT ![m] = Append(@, b)]
          /\ held' = [held EXCEPT ![t] = @ \ {b}]
    /\ UNCHANGED <<free, discarded, semHandle, sync>>

\* Faulty variant: the count has no maximum
ReleasedUnbounded(count) == count + 1

\* ReleaseSemaphore fails at the maximal count, which nobody checks.
Released(count) == IF count < MaxSem THEN count + 1 ELSE count

\* Faulty variant: the first mailbox's semaphore is released
ReleasesFirst(t) ==
    /\ Goto(t, "release", "outside")
    /\ semHandle' = [semHandle EXCEPT ![0] = Released(@)]
    /\ UNCHANGED <<free, discarded, MailBoxes, box, sync, held>>

ReleaseSemaphore(t) ==
    /\ Goto(t, "release", "outside")
    /\ semHandle' = [semHandle EXCEPT ![box[t]] = Released(@)]
    /\ UNCHANGED <<free, discarded, MailBoxes, box, sync, held>>

-----------------------------------------------------------------------------
(* Get and GetSync.                                                        *)

\* A call of Get without waiting
Get(t, m) ==
    /\ Goto(t, "outside", "get")
    /\ Cardinality(held[t]) < MaxHeld
    /\ box' = [box EXCEPT ![t] = m]
    /\ sync' = [sync EXCEPT ![t] = FALSE]
    /\ UNCHANGED <<free, discarded, MailBoxes, semHandle, held>>

\* The handler is done, its message returned; the loop of FSMSystem::Start
\* calls GetSync.
GetSync ==
    /\ Goto(System, "outside", "wait")
    /\ held[System] = {}
    /\ sync' = [sync EXCEPT ![System] = TRUE]
    /\ UNCHANGED <<free, discarded, MailBoxes, semHandle, box, held>>

\* Faulty variant: an event, which forgets how often it was set, in place of a semaphore
WaitsForEvent ==
    /\ Goto(System, "wait", "signalled")
    /\ \E m \in Box :
          /\ semHandle[m] > 0
          /\ \A l \in Box : l < m => semHandle[l] = 0
          /\ semHandle' = [semHandle EXCEPT ![m] = 0]
          /\ box' = [box EXCEPT ![System] = m]
    /\ UNCHANGED <<free, discarded, MailBoxes, sync, held>>

\* WaitForMultipleObjects returns the signalled mailbox with the lowest index.
WaitForMultipleObjects ==
    /\ Goto(System, "wait", "signalled")
    /\ \E m \in Box :
          /\ semHandle[m] > 0
          /\ \A l \in Box : l < m => semHandle[l] = 0
          /\ semHandle' = [semHandle EXCEPT ![m] = @ - 1]
          /\ box' = [box EXCEPT ![System] = m]
    /\ UNCHANGED <<free, discarded, MailBoxes, sync, held>>

\* Get looks at the mailbox, for the first or a further time.
LooksInto(t, to) ==
    /\ pc[t] \in {"signalled", "get"}
    /\ pc' = [pc EXCEPT ![t] = to]
    /\ UNCHANGED <<semHandle, box, sync>>

First(t) == Head(MailBoxes[box[t]])

TakesFirst(t) ==
    /\ MailBoxes[box[t]] # <<>>
    /\ MailBoxes' = [MailBoxes EXCEPT ![box[t]] = Tail(@)]

\* Faulty variant: the code of the message is not looked at
GetsAnyMessage(t) ==
    /\ LooksInto(t, "outside")
    /\ TakesFirst(t)
    /\ held' = [held EXCEPT ![t] = @ \cup {First(t)}]
    /\ UNCHANGED <<free, discarded>>

\* The message is returned to the caller.
GetsMessage(t) ==
    /\ LooksInto(t, "outside")
    /\ TakesFirst(t)
    /\ First(t) \notin discarded
    /\ held' = [held EXCEPT ![t] = @ \cup {First(t)}]
    /\ UNCHANGED <<free, discarded>>

\* Faulty variant: the buffer is not returned
DropsWithoutReturn(t) ==
    /\ LooksInto(t, "get")
    /\ TakesFirst(t)
    /\ First(t) \in discarded
    /\ UNCHANGED <<free, discarded, held>>

\* The message of a stopped timer goes back to the pool.
DropsDiscarded(t) ==
    /\ LooksInto(t, "get")
    /\ TakesFirst(t)
    /\ First(t) \in discarded
    /\ free' = free \cup {First(t)}
    /\ UNCHANGED <<discarded, held>>

\* NULL is returned; the system thread sleeps and waits again.
GetsNothing(t) ==
    /\ LooksInto(t, IF sync[t] THEN "wait" ELSE "outside")
    /\ MailBoxes[box[t]] = <<>>
    /\ UNCHANGED <<free, discarded, MailBoxes, held>>

-----------------------------------------------------------------------------
\* The rest of a call that has begun; it needs no decision of the caller.
CallStep(t) ==
    \/ ReleaseSemaphore(t)
    \/ GetsMessage(t)
    \/ DropsDiscarded(t)
    \/ GetsNothing(t)

Next ==
    \/ \E t \in Thread :
          \/ PrepareNewMessage(t)
          \/ DiscardMsg(t)
          \/ \E m \in Box : Add(t, m) \/ Get(t, m)
          \/ CallStep(t)
    \/ \E b \in Buffer : StopTimer(b)
    \/ GetSync
    \/ WaitForMultipleObjects

Spec == Init /\ [][Next]_vars

\* Threads are scheduled; handlers come to an end, their messages sent on or
\* returned.
FairSpec ==
    /\ Spec
    /\ \A t \in Thread : WF_vars(CallStep(t))
    /\ []<>(held[System] = {})
    /\ SF_vars(GetSync)
    /\ WF_vars(WaitForMultipleObjects)
-----------------------------------------------------------------------------
(* Properties.                                                             *)

Labels == {"outside", "release", "wait", "signalled", "get"}

\* The variables of the queues, the semaphores and the calls have their types.
TypeOK ==
    /\ free \subseteq Buffer
    /\ discarded \subseteq Buffer
    /\ MailBoxes \in [Box -> Seq(Buffer)]
    /\ semHandle \in [Box -> 0..MaxSem]
    /\ pc \in [Thread -> Labels]
    /\ box \in [Thread -> Box]
    /\ sync \in [Thread -> BOOLEAN]
    /\ held \in [Thread -> SUBSET Buffer]

\* Threads that have queued a message in m and not released its semaphore yet
Releasing(m) == {t \in Thread : pc[t] = "release" /\ box[t] = m}

\* The system thread has been woken for m and has not looked into it yet.
Woken(m) == {t \in {System} : pc[t] = "signalled" /\ box[t] = m}

\* Every message that is queued will wake the system thread: for each there is a
\* count of the semaphore, a release still to come or the wake-up under way.
NoLostWakeup ==
    \A m \in Box :
        Len(MailBoxes[m]) <= semHandle[m] + Cardinality(Releasing(m)) + Cardinality(Woken(m))

\* So the system thread does not wait while all is queued and nobody releases.
NeverStranded ==
    pc[System] = "wait" =>
        \A m \in Box : MailBoxes[m] # <<>> => semHandle[m] > 0 \/ Releasing(m) # {}

\* Each buffer is in one place: in the pool, in one thread's hands or once in one
\* mailbox.
OnePlace ==
    \A b \in Buffer :
        Cardinality({t \in Thread : b \in held[t]})
          + Cardinality({p \in Box \X (1..Cardinality(Buffer)) :
                            p[2] <= Len(MailBoxes[p[1]]) /\ MailBoxes[p[1]][p[2]] = b})
          + (IF b \in free THEN 1 ELSE 0) = 1

\* A stopped timer's message is not given to a handler, although the message was
\* queued before the timer was stopped: "Each timer wetaher stopped or not will
\* expire and will be add in mailbox" (timer.cpp:9-12) and is dropped there.
StoppedNotDelivered == \A t \in Thread : held[t] \cap discarded = {}

\* A message in the first mailbox is taken out of it.
FirstMailboxServed == \A b \in Buffer : b \in ToSet(MailBoxes[0]) ~> b \notin ToSet(MailBoxes[0])

\* A message in another mailbox is taken out if the mailboxes in front of it are
\* no longer signalled from some time on: they are served first.
QuietMailboxServed ==
    \A m \in Box \ {0}, b \in Buffer :
        <>[](\A l \in 0..(m - 1) : semHandle[l] = 0)
            => (b \in ToSet(MailBoxes[m]) ~> b \notin ToSet(MailBoxes[m]))
=============================================================================
