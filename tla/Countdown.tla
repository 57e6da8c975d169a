----------------------------- MODULE Countdown -----------------------------
(***************************************************************************)
(* What timers promise: a timer asked for with a time expires after as     *)
(* many ticks as that time has, counted from when it starts, and all that  *)
(* are due expire before the next tick.  Whether it has been stopped in    *)
(* the meantime makes no difference (timer.cpp:9-12).                      *)
(***************************************************************************)
EXTENDS Naturals

CONSTANTS Buffer,  \* what timers are made of
          Count,   \* the times of timers
          Unit,    \* of these times, in ms
          Period   \* of the ticks, in ms

VARIABLES asked,   \* the timers asked for that do not run yet, with their times
          left     \* the ticks left to each running timer

vars == <<asked, left>>

Running == DOMAIN left

Init ==
    /\ asked = {}
    /\ left = [b \in {} |-> 0]

Ask(b, n) ==
    /\ b \notin Running
    /\ asked' = asked \cup {<<b, n>>}
    /\ UNCHANGED left

StartTimer(b, n) ==
    /\ <<b, n>> \in asked
    /\ asked' = asked \ {<<b, n>>}
    /\ left' = [r \in Running \cup {b} |-> IF r = b THEN (n * Unit) \div Period ELSE left[r]]

Tick ==
    /\ Running # {}
    /\ \A b \in Running : left[b] > 0
    /\ left' = [b \in Running |-> left[b] - 1]
    /\ UNCHANGED asked

Expire(b) ==
    /\ b \in Running
    /\ left[b] = 0
    /\ left' = [r \in Running \ {b} |-> left[r]]
    /\ UNCHANGED asked

Next ==
    \/ \E b \in Buffer, n \in Count : Ask(b, n) \/ StartTimer(b, n)
    \/ Tick
    \/ \E b \in Buffer : Expire(b)

Spec == Init /\ [][Next]_vars
=============================================================================
