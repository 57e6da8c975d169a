------------------------------- MODULE Timers -------------------------------
(***************************************************************************)
(* Timers: CTimer (timer.cpp) with its delta list and its callback, the    *)
(* timers of an automate (fsm.cpp, kernelAPI.cpp), and the mailbox through *)
(* which a timeout reaches it.                                             *)
(*                                                                         *)
(* The system thread takes messages out of the mailbox and handles them;   *)
(* in a handler the automate starts and stops its timers.  The callback    *)
(* counts the ticks down and moves expired timers to the mailbox.  Other   *)
(* threads send messages.  A timer is a message: its buffer is in the      *)
(* delta list, then in the mailbox, then with the handler.  StopTimer only *)
(* marks the buffer as DISCARDED, wherever it is, without any lock.        *)
(*                                                                         *)
(* A critical section is held from the step that enters it to the step     *)
(* that leaves it.  The asserts of fsm.cpp are taken as guards.            *)
(***************************************************************************)
EXTENDS Naturals, FiniteSets, SequencesExt

CONSTANTS Timer,             \* the timers of the automate
          Buffer,            \* all buffers
          NULL,              \* the null pointer
          Message,           \* the code of messages that are no timeouts
          DISCARDED,         \* the code of stopped timers
          Count,             \* the times of timers, in units of TimerResolution
          TimerResolution,   \* of the automate, in ms
          SystemResolution,  \* of the callback, in ms
          W                  \* the number of values of a uint32

ASSUME TimersAssumption ==
    /\ IsFiniteSet(Buffer)
    /\ NULL \notin Buffer \cup (Timer \X Buffer \X Count)
    /\ Message \notin Timer
    /\ DISCARDED \notin Timer \cup {Message}
    /\ Count \subseteq Nat \ {0}
    /\ TimerResolution \in Nat \ {0}
    /\ SystemResolution \in Nat \ {0}
    /\ W \in Nat \ {0}

VARIABLES free,         \* the buffers in the pool
          code,         \* the message code of each buffer: a timer's identifies the timer
          count,        \* the TIMER_COUNT of each buffer
          list,         \* the delta list behind its dummy head
          csTimer,      \* who is in the timers' critical section
          mailbox,      \* the messages queued
          csMailbox,    \* who is in the mailbox's critical section
          callback,     \* where the callback is
          system,       \* where the system thread is
          msg,          \* the message being handled
          starting,     \* the timer being started, its buffer and its time
          TimerBuffer   \* of each timer

locks == <<csTimer, csMailbox>>
vars  == <<free, code, count, list, locks, mailbox, callback, system, msg,
           starting, TimerBuffer>>

Init ==
    /\ free = Buffer
    /\ code = [b \in Buffer |-> Message]
    /\ count = [b \in Buffer |-> 0]
    /\ list = <<>>
    /\ csTimer = "nobody"
    /\ mailbox = <<>>
    /\ csMailbox = "nobody"
    /\ callback = "idle"
    /\ system = "loop"
    /\ msg = NULL
    /\ starting = NULL
    /\ TimerBuffer = [t \in Timer |-> NULL]

SystemGoes(from, to) == system = from /\ system' = to

CallbackGoes(from, to) == callback = from /\ callback' = to

\* EnterCriticalSection and LeaveCriticalSection for the timers and the mailbox
DisableTimer(who) == csTimer = "nobody" /\ csTimer' = who
EnableTimer == csTimer' = "nobody"
LockMailBox(who) == csMailbox = "nobody" /\ csMailbox' = who
UnlockMailBox == csMailbox' = "nobody"

-----------------------------------------------------------------------------
(* The mailbox.                                                            *)

\* Any thread sends a message that is no timeout.
SendMessage ==
    /\ csMailbox = "nobody"
    /\ \E b \in free :
          /\ free' = free \ {b}
          /\ code' = [code EXCEPT ![b] = Message]
          /\ mailbox' = Append(mailbox, b)
    /\ UNCHANGED <<count, list, locks, callback, system, msg, starting, TimerBuffer>>

\* The loop of FSMSystem::Start looks for a message.
LocksMailbox ==
    /\ SystemGoes("loop", "get")
    /\ mailbox # <<>>
    /\ LockMailBox("system")
    /\ UNCHANGED <<free, code, count, list, csTimer, mailbox, callback, msg,
                   starting, TimerBuffer>>

\* Faulty variant: the buffer of a stopped timer is lost
GetLosesBuffer ==
    /\ system = "get"
    /\ UnlockMailBox
    /\ mailbox' = Tail(mailbox)
    /\ IF code[Head(mailbox)] # DISCARDED
       THEN system' = "handler" /\ msg' = Head(mailbox)
       ELSE system' = "loop" /\ UNCHANGED msg
    /\ UNCHANGED <<free, code, count, list, csTimer, callback, starting, TimerBuffer>>

\* Get hands over the first message or drops it when it is DISCARDED.
Get ==
    /\ system = "get"
    /\ UnlockMailBox
    /\ mailbox' = Tail(mailbox)
    /\ \/ /\ code[Head(mailbox)] # DISCARDED
          /\ system' = "handler"
          /\ msg' = Head(mailbox)
          /\ UNCHANGED free
       \/ /\ code[Head(mailbox)] = DISCARDED
          /\ system' = "loop"
          /\ free' = free \cup {Head(mailbox)}
          /\ UNCHANGED msg
    /\ UNCHANGED <<code, count, list, csTimer, callback, starting, TimerBuffer>>

\* Faulty variant: the handler of a timeout leaves TimerBuffer as it is
ProcessKeepsTimer ==
    /\ SystemGoes("handler", "loop")
    /\ free' = free \cup {msg}
    /\ msg' = NULL
    /\ UNCHANGED <<code, count, list, locks, mailbox, callback, starting, TimerBuffer>>

\* The end of a handler: Process returns the message.  The handler of a timeout
\* has reset its timer (fsm.h:485), stopped or restarted it.
Process ==
    /\ SystemGoes("handler", "loop")
    /\ \A t \in Timer : TimerBuffer[t] # msg
    /\ free' = free \cup {msg}
    /\ msg' = NULL
    /\ UNCHANGED <<code, count, list, locks, mailbox, callback, starting, TimerBuffer>>

-----------------------------------------------------------------------------
(* The timers of the automate.                                             *)

\* A timer's time in ticks of the callback
TicksOf(n) == (n * (TimerResolution \div SystemResolution)) % W

\* The resolutions and the times fit: a time is a number of ticks, not zero, that
\* neither the division of the resolutions nor a uint32 cuts (timer.cpp:370).
TicksExact ==
    \A n \in Count : TicksOf(n) > 0 /\ TicksOf(n) = (n * TimerResolution) \div SystemResolution

\* The ticks until the k-th timer of the list expires
TicksUntil(k) == FoldLeft(LAMBDA sum, b : sum + count[b], 0, SubSeq(list, 1, k))

\* How many timers expire before one with n ticks, in the order of the list
Before(n) == Cardinality({k \in 1..Len(list) : TicksUntil(k) <= n})

\* StartTimer of fsm.cpp, kernelAPI.cpp and timer.cpp fills in a buffer ...
StartTimer(t, n) ==
    /\ SystemGoes("handler", "adding")
    /\ TimerBuffer[t] = NULL
    /\ DisableTimer("system")
    /\ \E b \in free :
          /\ free' = free \ {b}
          /\ code' = [code EXCEPT ![b] = t]
          /\ count' = [count EXCEPT ![b] = TicksOf(n)]
          /\ starting' = <<t, b, n>>
    /\ UNCHANGED <<list, csMailbox, mailbox, callback, msg, TimerBuffer>>

\* Faulty variant: the timer keeps its whole time at the end of the list
AddKeepsTime ==
    LET b == starting[2]
        p == Before(count[b])
        n == count[b] - TicksUntil(p)
    IN  /\ SystemGoes("adding", "started")
        /\ EnableTimer
        /\ list' = InsertAt(list, p + 1, b)
        /\ count' = [c \in Buffer |->
                        IF c = b THEN IF p = Len(list) THEN count[b] ELSE n
                        ELSE IF p < Len(list) /\ c = list[p + 1] THEN count[c] - n
                        ELSE count[c]]
        /\ UNCHANGED <<free, code, csMailbox, mailbox, callback, msg, starting, TimerBuffer>>

\* ... queues it in the delta list ...
Add ==
    LET b == starting[2]
        p == Before(count[b])
        n == count[b] - TicksUntil(p)
    IN  /\ SystemGoes("adding", "started")
        /\ EnableTimer
        /\ list' = InsertAt(list, p + 1, b)
        /\ count' = [c \in Buffer |->
                        IF c = b THEN n
                        ELSE IF p < Len(list) /\ c = list[p + 1] THEN count[c] - n
                        ELSE count[c]]
        /\ UNCHANGED <<free, code, csMailbox, mailbox, callback, msg, starting, TimerBuffer>>

\* ... and keeps a pointer to it.
SetTimer ==
    /\ SystemGoes("started", "handler")
    /\ TimerBuffer' = [TimerBuffer EXCEPT ![starting[1]] = starting[2]]
    /\ starting' = NULL
    /\ UNCHANGED <<free, code, count, list, locks, mailbox, callback, msg>>

\* The timers in T are marked, wherever their buffers are.
Stopped(T) ==
    /\ code' = [b \in Buffer |-> IF \E t \in T : TimerBuffer[t] = b THEN DISCARDED ELSE code[b]]
    /\ TimerBuffer' = [t \in Timer |-> IF t \in T THEN NULL ELSE TimerBuffer[t]]
    /\ UNCHANGED <<free, count, list, locks, mailbox, callback, system, msg, starting>>

StopTimer(t) ==
    /\ system = "handler"
    /\ TimerBuffer[t] # NULL
    /\ Stopped({t})

\* Faulty variant: the pointer is cleared, the message is not marked
ResetsAll ==
    /\ system = "handler"
    /\ TimerBuffer' = [t \in Timer |-> NULL]
    /\ UNCHANGED <<free, code, count, list, locks, mailbox, callback, system, msg, starting>>

\* Reset and the destructor stop what IsTimerRunning calls running, which
\* includes a timer whose timeout is queued or being handled.
Running(t) == TimerBuffer[t] # NULL /\ code[TimerBuffer[t]] # DISCARDED

Reset ==
    /\ system = "handler"
    /\ \E t \in Timer : Running(t)
    /\ Stopped({t \in Timer : Running(t)})

\* "Clears pointer to timer buffer after timer expired" (fsm.cpp:250)
ResetTimer(t) ==
    /\ system = "handler"
    /\ TimerBuffer[t] = msg
    /\ TimerBuffer' = [TimerBuffer EXCEPT ![t] = NULL]
    /\ UNCHANGED <<free, code, count, list, locks, mailbox, callback, system, msg, starting>>

-----------------------------------------------------------------------------
(* The callback: TimerIntHandler.                                          *)

\* An expired timer is in front of the list.
Due(c, l) == l # <<>> /\ c[Head(l)] = 0

\* One tick: the first timer's count is decremented, as an unsigned number.
Tick ==
    /\ list # <<>>
    /\ callback = "idle"
    /\ csTimer = "nobody"
    /\ count' = [count EXCEPT ![Head(list)] = (@ + W - 1) % W]
    /\ IF Due(count', list)
       THEN callback' = "expiring" /\ csTimer' = "callback"
       ELSE UNCHANGED <<callback, csTimer>>
    /\ UNCHANGED <<free, code, list, csMailbox, mailbox, system, msg, starting, TimerBuffer>>

\* The first timer is taken out of the list and, in PostOffice::Add, waits for
\* the mailbox.
Expire ==
    /\ CallbackGoes("expiring", "queueing")
    /\ LockMailBox("callback")
    /\ UNCHANGED <<free, code, count, list, csTimer, mailbox, system, msg, starting, TimerBuffer>>

\* Faulty variant: the callback returns without leaving its critical section
QueueKeepsLock ==
    /\ callback = "queueing"
    /\ UnlockMailBox
    /\ mailbox' = Append(mailbox, Head(list))
    /\ list' = Tail(list)
    /\ callback' = IF Due(count, Tail(list)) THEN "expiring" ELSE "idle"
    /\ UNCHANGED <<free, code, count, csTimer, system, msg, starting, TimerBuffer>>

\* It is queued; the callback goes on with the next one that is due or returns.
Queue ==
    /\ callback = "queueing"
    /\ UnlockMailBox
    /\ mailbox' = Append(mailbox, Head(list))
    /\ list' = Tail(list)
    /\ \/ /\ Due(count, Tail(list))
          /\ callback' = "expiring"
          /\ UNCHANGED csTimer
       \/ /\ ~ Due(count, Tail(list))
          /\ callback' = "idle"
          /\ EnableTimer
    /\ UNCHANGED <<free, code, count, system, msg, starting, TimerBuffer>>

-----------------------------------------------------------------------------
AutomateStep ==
    \/ \E t \in Timer :
          \/ \E n \in Count : StartTimer(t, n)
          \/ StopTimer(t)
          \/ ResetTimer(t)
    \/ Reset
    \/ Add
    \/ SetTimer

Next ==
    \/ SendMessage
    \/ LocksMailbox
    \/ Get
    \/ AutomateStep
    \/ Process
    \/ Tick
    \/ Expire
    \/ Queue

Spec == Init /\ [][Next]_vars

\* Threads run, and one that waits for a critical section gets it in the end;
\* handlers come to an end, so the system thread is at the loop again and again.
FairSpec ==
    /\ Spec
    /\ []<>(system = "loop")
    /\ SF_vars(LocksMailbox) /\ WF_vars(Get)
    /\ SF_vars(Tick) /\ SF_vars(Expire) /\ WF_vars(Queue)

-----------------------------------------------------------------------------
(* Properties.                                                             *)

Mailed == ToSet(mailbox)
Listed == ToSet(list)
Handled == {msg} \ {NULL}
Starting == IF system = "adding" THEN {starting[2]} ELSE {}

\* The variables of the timers have their types and a buffer is in one place.
TypeOK ==
    /\ code \in [Buffer -> Timer \cup {Message, DISCARDED}]
    /\ count \in [Buffer -> 0..(W - 1)]
    /\ csTimer \in {"nobody", "system", "callback"}
    /\ csMailbox \in {"nobody", "system", "callback"}
    /\ starting \in (Timer \X Buffer \X Count) \cup {NULL}
    /\ TimerBuffer \in [Timer -> Buffer \cup {NULL}]
    /\ Cardinality(free) + Len(list) + Len(mailbox) + Cardinality(Handled)
          + Cardinality(Starting) = Cardinality(Buffer)
    /\ free \cup Listed \cup Mailed \cup Handled \cup Starting = Buffer

\* A pointer of the automate points to its own timer's message, on its way or
\* being handled: StopTimer never marks another message, although it marks
\* whatever TimerBuffer points to (fsm.cpp:240) and buffers are reused.
TimerBufferCurrent ==
    \A t \in Timer :
        TimerBuffer[t] # NULL =>
            /\ code[TimerBuffer[t]] = t
            /\ TimerBuffer[t] \in Listed \cup Mailed \cup Handled

\* A timeout on its way is one the automate can still stop: a timer that was
\* stopped, or started again, has no second timeout under way.
TimeoutKnown ==
    \A t \in Timer, b \in Listed \cup Mailed :
        code[b] = t => TimerBuffer[t] = b \/ \E n \in Count : starting = <<t, b, n>>

\* The delta list and its callback implement the countdown of every timer: it expires
\* after the time it was started with, whatever is listed before and after it
\* (timer.cpp:190-225, 370, 507-554).
CountdownOf == INSTANCE Countdown WITH
    Unit <- TimerResolution,
    Period <- SystemResolution,
    asked <- IF system = "adding" THEN {<<starting[2], starting[3]>>} ELSE {},
    left <- [b \in Listed |-> TicksUntil(CHOOSE k \in 1..Len(list) : list[k] = b)]
OnTime == CountdownOf!Spec

\* A timer that runs times out and is handled, or is stopped, although the callback
\* keeps its critical section while it waits for the mailbox's (timer.cpp:544).
TimeoutHandled == \A t \in Timer : TimerBuffer[t] # NULL ~> TimerBuffer[t] = NULL
=============================================================================
