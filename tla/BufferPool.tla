----------------------------- MODULE BufferPool -----------------------------
(***************************************************************************)
(* What the kernel's memory promises its callers (buffers.h): a pool of    *)
(* buffers of several sizes.  A thread asks for a number of bytes and gets *)
(* a buffer at least that large that nobody else has; it gives buffers     *)
(* back or hands them to other threads in messages.  Only when no free     *)
(* buffer is large enough may a request fail, which ends the process.      *)
(*                                                                         *)
(* Module Buffers implements it with linked lists and locks.               *)
(***************************************************************************)
EXTENDS Naturals

CONSTANTS Thread,    \* the threads of the process
          Buffer,    \* all buffers
          Size(_),   \* the size of a buffer
          Length,    \* the sizes asked for
          NoRequest  \* the value of "want" of a thread without a request

VARIABLES free,  \* the free buffers
          held,  \* the buffers each thread holds
          want,  \* the size each thread has asked for and not got yet
          alive  \* the process runs

poolVars == <<free, held, want, alive>>

Init ==
    /\ free = Buffer
    /\ held = [t \in Thread |-> {}]
    /\ want = [t \in Thread |-> NoRequest]
    /\ alive = TRUE

Ask(t, len) ==
    /\ alive
    /\ want[t] = NoRequest
    /\ want' = [want EXCEPT ![t] = len]
    /\ UNCHANGED <<free, held, alive>>

Grant(t) ==
    /\ alive
    /\ want[t] # NoRequest
    /\ \E b \in free :
          /\ Size(b) >= want[t]
          /\ free' = free \ {b}
          /\ held' = [held EXCEPT ![t] = @ \cup {b}]
    /\ want' = [want EXCEPT ![t] = NoRequest]
    /\ UNCHANGED alive

Fail(t) ==
    /\ alive
    /\ want[t] # NoRequest
    /\ \A b \in free : Size(b) < want[t]
    /\ alive' = FALSE
    /\ UNCHANGED <<free, held, want>>

Return(t, b) ==
    /\ alive
    /\ b \in held[t]
    /\ free' = free \cup {b}
    /\ held' = [held EXCEPT ![t] = @ \ {b}]
    /\ UNCHANGED <<want, alive>>

HandOver(t, u, b) ==
    /\ alive
    /\ b \in held[t]
    /\ u # t
    /\ held' = [held EXCEPT ![t] = @ \ {b}, ![u] = @ \cup {b}]
    /\ UNCHANGED <<free, want, alive>>

Next ==
    \E t \in Thread :
        \/ \E len \in Length : Ask(t, len)
        \/ Grant(t)
        \/ Fail(t)
        \/ \E b \in Buffer : Return(t, b)
        \/ \E u \in Thread, b \in Buffer : HandOver(t, u, b)

PoolSpec == Init /\ [][Next]_poolVars
=============================================================================
