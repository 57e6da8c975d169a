----------------------------- MODULE FSMSystem -----------------------------
(***************************************************************************)
(* The automate system: the table of automates and the loop of             *)
(* FSMSystem::Start (fsmSystem.cpp), the list of free automates FSMList,   *)
(* and the TCP server (systemTCP.cpp) that gives a free automate to each   *)
(* connection.                                                             *)
(*                                                                         *)
(* There is one type of automates with a free list.  Its free automates    *)
(* are handed out by one thread (taker): by the server thread to           *)
(* connections, or by the system thread to messages for any of them.  The  *)
(* system thread puts them back.  The list has no lock: a step is one      *)
(* access to it.                                                           *)
(*                                                                         *)
(* The mailboxes are modelled in PostOffice; here GetMsgSync returns any   *)
(* message.  An error that is thrown ends the process.                     *)
(***************************************************************************)
EXTENDS Naturals, FiniteSets, FiniteSetsExt

CONSTANTS Object,           \* the automates of the type
          NULL,             \* the null pointer
          NumberOfObjects,  \* the entries for the type
          NumberOfMbx,      \* the number of mailboxes
          MaxCount          \* bound on FreeFSMCount

ASSUME FSMSystemAssumption ==
    /\ NULL \notin Object
    /\ IsFiniteSet(Object)
    /\ Cardinality(Object) >= NumberOfObjects
    /\ NumberOfObjects \in Nat \ {0}
    /\ NumberOfMbx \in Nat \ {0}
    /\ MaxCount \in Nat
    /\ MaxCount >= NumberOfObjects

VARIABLES taker,          \* the thread that takes automates out of the list
          Automates,      \* the entries of the type; the index is the ObjectId
          head, tail,     \* the free list
          next,           \* the Next of each automate
          FreeFSMCount,   \* the number of free automates
          SystemWorking,
          i,              \* the counter of the loop of Start
          at,             \* where each thread is
          info,           \* the automate each thread deals with
          read,           \* what each thread has read from the list
          working,        \* the automates that were handed out
          up              \* the process runs

list == <<head, tail, next, FreeFSMCount>>
loop == <<SystemWorking, i>>
vars == <<taker, Automates, list, loop, at, info, read, working, up>>

Thread == {"system", "server"}

Init ==
    /\ taker \in Thread
    /\ Automates = [n \in 0..(NumberOfObjects - 1) |-> NULL]
    /\ head = NULL
    /\ tail = NULL
    /\ next = [o \in Object |-> NULL]
    /\ FreeFSMCount = 0
    /\ SystemWorking = FALSE
    /\ i = 0
    /\ at = [t \in Thread |-> "off"]
    /\ info = [t \in Thread |-> NULL]
    /\ read = [t \in Thread |-> NULL]
    /\ working = {}
    /\ up = TRUE

Goes(t, from, to) == up /\ at[t] = from /\ at' = [at EXCEPT ![t] = to]

\* An error is thrown that nobody catches, or a null pointer is used.
Ends == up' = FALSE /\ UNCHANGED <<taker, Automates, list, loop, at, info, read, working>>

-----------------------------------------------------------------------------
(* Before the threads run.                                                 *)

Empty == {n \in DOMAIN Automates : Automates[n] = NULL}

Registered == {Automates[n] : n \in DOMAIN Automates} \ {NULL}

\* Both forms of Add: a new automate, whichever it is, gets the first empty entry and
\* is free.
Add ==
    /\ at = [t \in Thread |-> "off"]
    /\ Empty # {}
    /\ LET o == CHOOSE o \in Object : o \notin Registered
       IN  /\ Automates' = [Automates EXCEPT ![Min(Empty)] = o]
           /\ next' = [p \in Object |-> IF p = tail THEN o ELSE IF p = o THEN NULL ELSE next[p]]
           /\ head' = IF tail = NULL THEN o ELSE head
           /\ tail' = o
    /\ FreeFSMCount' = FreeFSMCount + 1
    /\ UNCHANGED <<taker, loop, at, info, read, working, up>>

\* InitTCPServer starts the server thread.
InitTCPServer ==
    /\ taker = "server"
    /\ Empty = {}
    /\ Goes("server", "off", "accept")
    /\ UNCHANGED <<taker, Automates, list, loop, info, read, working, up>>

-----------------------------------------------------------------------------
(* The list of free automates.                                             *)

\* Faulty variant: the empty list is not noticed
GetUnchecked(t) ==
    /\ Goes(t, "get", "unlink")
    /\ info' = [info EXCEPT ![t] = head]
    /\ UNCHANGED <<taker, Automates, list, loop, read, working, up>>

\* Get throws when there is no head ...
GetFromHead(t) ==
    /\ up
    /\ at[t] = "get"
    /\ \/ /\ head = NULL
          /\ Ends
       \/ /\ head # NULL
          /\ Goes(t, "get", "unlink")
          /\ info' = [info EXCEPT ![t] = head]
          /\ UNCHANGED <<taker, Automates, list, loop, read, working, up>>

Unlink(t) ==
    /\ Goes(t, "unlink", "clear")
    /\ head' = next[info[t]]
    /\ UNCHANGED <<taker, Automates, tail, next, FreeFSMCount, loop, info, read, working, up>>

ClearNext(t) ==
    /\ Goes(t, "clear", "end")
    /\ next' = [next EXCEPT ![info[t]] = NULL]
    /\ UNCHANGED <<taker, Automates, head, tail, FreeFSMCount, loop, info, read, working, up>>

\* Faulty variant: tail still points to the automate that was the last one
EndKeepsTail(t) ==
    /\ Goes(t, "end", "counting")
    /\ UNCHANGED <<taker, Automates, list, loop, info, read, working, up>>

EndOfList(t) ==
    /\ up
    /\ at[t] = "end"
    /\ \/ /\ head = NULL
          /\ Goes(t, "end", "clear tail")
       \/ /\ head # NULL
          /\ Goes(t, "end", "counting")
    /\ UNCHANGED <<taker, Automates, list, loop, info, read, working, up>>

ClearTail(t) ==
    /\ Goes(t, "clear tail", "counting")
    /\ tail' = NULL
    /\ UNCHANGED <<taker, Automates, head, next, FreeFSMCount, loop, info, read, working, up>>

\* ... or when there should be none.
CountDown(t) ==
    /\ up
    /\ at[t] = "counting"
    /\ \/ /\ FreeFSMCount = 0
          /\ Ends
       \/ /\ FreeFSMCount # 0
          /\ Goes(t, "counting", "counted")
          /\ read' = [read EXCEPT ![t] = FreeFSMCount]
          /\ UNCHANGED <<taker, Automates, list, loop, info, working, up>>

\* The automate is handed out.
Got(t) ==
    /\ Goes(t, "counted", IF t = "system" THEN "handler" ELSE "connect")
    /\ FreeFSMCount' = read[t] - 1
    /\ read' = [read EXCEPT ![t] = NULL]
    /\ working' = working \cup {info[t]}
    /\ UNCHANGED <<taker, Automates, head, tail, next, loop, info, up>>

\* Faulty variant: an automate returns itself again
FreesTwice ==
    /\ FreeFSMCount < MaxCount
    /\ Goes("system", "handler", "put")
    /\ working' = working \ {info["system"]}
    /\ next' = [next EXCEPT ![info["system"]] = NULL]
    /\ UNCHANGED <<taker, Automates, head, tail, FreeFSMCount, loop, info, read, up>>

\* FreeFSM, called by an automate at the end of its work: PutOnTail ...
FreeFSM ==
    /\ FreeFSMCount < MaxCount
    /\ info["system"] \in working
    /\ Goes("system", "handler", "put")
    /\ working' = working \ {info["system"]}
    /\ next' = [next EXCEPT ![info["system"]] = NULL]
    /\ UNCHANGED <<taker, Automates, head, tail, FreeFSMCount, loop, info, read, up>>

ReadTail ==
    /\ Goes("system", "put", "link")
    /\ read' = [read EXCEPT !["system"] = tail]
    /\ UNCHANGED <<taker, Automates, list, loop, info, working, up>>

\* A build may read tail once more before it uses it.
Link ==
    /\ up
    /\ at["system"] = "link"
    /\ \/ /\ read["system"] = NULL
          /\ Goes("system", "link", "tail")
          /\ head' = info["system"]
          /\ UNCHANGED <<next, up>>
       \/ /\ read["system"] # NULL
          /\ \E last \in {read["system"], tail} \ {NULL} :
                next' = [next EXCEPT ![last] = info["system"]]
          /\ Goes("system", "link", "tail")
          /\ UNCHANGED <<head, up>>
       \/ /\ read["system"] # NULL
          /\ tail = NULL
          /\ up' = FALSE
          /\ UNCHANGED <<at, head, next>>
    /\ UNCHANGED <<taker, Automates, tail, FreeFSMCount, loop, info, read, working>>

SetTail ==
    /\ Goes("system", "tail", "count")
    /\ tail' = info["system"]
    /\ read' = [read EXCEPT !["system"] = NULL]
    /\ UNCHANGED <<taker, Automates, head, next, FreeFSMCount, loop, info, working, up>>

\* Faulty variant: the automate is not counted
CountUpLost ==
    /\ Goes("system", "count", "freed")
    /\ UNCHANGED <<taker, Automates, list, loop, info, read, working, up>>

\* ... and the count.
CountUp ==
    /\ \/ /\ Goes("system", "count", "store")
          /\ read' = [read EXCEPT !["system"] = FreeFSMCount]
          /\ UNCHANGED FreeFSMCount
       \/ /\ Goes("system", "store", "freed")
          /\ FreeFSMCount' = read["system"] + 1
          /\ read' = [read EXCEPT !["system"] = NULL]
    /\ UNCHANGED <<taker, Automates, head, tail, next, loop, info, working, up>>

-----------------------------------------------------------------------------
(* The server thread.                                                      *)

\* listen and accept return a connection, or an error that ends the thread.
WaitConnection ==
    /\ \/ Goes("server", "accept", "get")
       \/ Goes("server", "accept", "ended")
    /\ UNCHANGED <<taker, Automates, list, loop, info, read, working, up>>

\* acceptConnection starts a receiver for the connection, or it fails: then the
\* thread ends, and the automate is not returned to the list.
AcceptConnection ==
    /\ \/ Goes("server", "connect", "accept")
       \/ Goes("server", "connect", "ended")
    /\ info' = [info EXCEPT !["server"] = NULL]
    /\ UNCHANGED <<taker, Automates, list, loop, read, working, up>>

-----------------------------------------------------------------------------
(* The system thread.                                                      *)

\* Start sets SystemWorking: a StopSystem before has no effect.
Start ==
    /\ Empty = {}
    /\ Goes("system", "off", "while")
    /\ SystemWorking' = TRUE
    /\ UNCHANGED <<taker, Automates, list, i, info, read, working, up>>

StopSystem ==
    /\ up
    /\ SystemWorking' = FALSE
    /\ UNCHANGED <<taker, Automates, list, i, at, info, read, working, up>>

While ==
    /\ \/ SystemWorking /\ Goes("system", "while", "message")
       \/ ~ SystemWorking /\ Goes("system", "while", "returned")
    /\ i' = 0
    /\ UNCHANGED <<taker, Automates, list, SystemWorking, info, read, working, up>>

\* After a message: the next round of the for loop, or the while loop again
Continue == IF i + 1 < NumberOfMbx THEN "message" ELSE "while"

\* GetMsgSync returns a message, for a type or an automate that does not exist ...
Discard ==
    /\ Goes("system", "message", Continue)
    /\ i' = i + 1
    /\ UNCHANGED <<taker, Automates, list, SystemWorking, info, read, working, up>>

\* ... for any free automate, or for a certain one
ForAny ==
    /\ taker = "system"
    /\ Goes("system", "message", "get")
    /\ UNCHANGED <<taker, Automates, list, loop, info, read, working, up>>

ForObject(n) ==
    /\ Goes("system", "message", "handler")
    /\ info' = [info EXCEPT !["system"] = Automates[n]]
    /\ UNCHANGED <<taker, Automates, list, loop, read, working, up>>

\* Faulty variant: the messages that were processed are not counted
ProcessedUncounted ==
    /\ \/ Goes("system", "handler", Continue)
       \/ Goes("system", "freed", Continue)
    /\ info' = [info EXCEPT !["system"] = NULL]
    /\ UNCHANGED <<taker, Automates, list, loop, read, working, up>>

\* The end of Process
Processed ==
    /\ \/ Goes("system", "handler", Continue)
       \/ Goes("system", "freed", Continue)
    /\ i' = i + 1
    /\ info' = [info EXCEPT !["system"] = NULL]
    /\ UNCHANGED <<taker, Automates, list, SystemWorking, read, working, up>>

-----------------------------------------------------------------------------
Get(t) ==
    \/ GetFromHead(t)
    \/ Unlink(t)
    \/ ClearNext(t)
    \/ EndOfList(t)
    \/ ClearTail(t)
    \/ CountDown(t)
    \/ Got(t)

PutBack ==
    \/ FreeFSM
    \/ ReadTail
    \/ Link
    \/ SetTail
    \/ CountUp

SystemThread ==
    \/ Start
    \/ While
    \/ Discard
    \/ ForAny
    \/ \E n \in DOMAIN Automates : ForObject(n)
    \/ Get("system")
    \/ PutBack
    \/ Processed

ServerThread ==
    \/ WaitConnection
    \/ Get("server")
    \/ AcceptConnection

Next ==
    \/ Add
    \/ InitTCPServer
    \/ SystemThread
    \/ ServerThread
    \/ StopSystem

Spec == Init /\ [][Next]_vars

\* The system thread runs, and there is always a message to come.
FairSpec == Spec /\ WF_vars(SystemThread)

-----------------------------------------------------------------------------
(* Properties.                                                             *)

\* The automates that can be reached from head
Listed ==
    LET within[n \in 0..Cardinality(Object)] ==
            IF n = 0 THEN {head} \ {NULL}
            ELSE within[n - 1] \cup ({next[o] : o \in within[n - 1]} \ {NULL})
    IN  within[Cardinality(Object)]

Taking == {"unlink", "clear", "end", "clear tail", "counting", "counted"}

\* The pointers are pointers to automates of the table, and a thread has an automate
\* wherever the code uses the pointer to it.
TypeOK ==
    /\ {head, tail} \cup {next[o] : o \in Object} \subseteq Registered \cup {NULL}
    /\ FreeFSMCount \in 0..MaxCount
    /\ working \subseteq Registered
    /\ i \in 0..NumberOfMbx
    /\ \A t \in Thread :
          info[t] # NULL <=>
              at[t] \in Taking \cup {"handler", "put", "link", "tail", "count", "store",
                                     "freed", "connect"}

\* An automate at work is not handed out again, although the server thread takes
\* automates out of the list while the system thread puts others back, without a lock
\* (fsmSystem.cpp:49-66, systemTCP.cpp:212-214).
HandedOutOnce == \A t \in Thread : at[t] \in Taking => info[t] \notin working

\* In one thread the list is exact: whenever it is at rest it has all automates that
\* do not work, tail is its end, and FreeFSMCount their number (fsmSystem.h:42).
ListIntact ==
    taker = "system" /\ at["system"] \in {"while", "message", "handler", "freed"} =>
        /\ Listed = Registered \ working
        /\ FreeFSMCount = Cardinality(Listed)
        /\ tail = IF Listed = {} THEN NULL ELSE CHOOSE o \in Listed : next[o] = NULL

\* With one thread, Get fails only when every automate works: none is forgotten after
\* any number of calls.
EndsOnlyWhenAllWork == taker = "system" /\ ~ up => working = Registered

\* After StopSystem the loop returns, or the process has ended: messages that keep
\* coming do not hold it (fsmSystem.cpp:272-301).
StopReturns ==
    ~ SystemWorking /\ at["system"] # "off" ~> at["system"] = "returned" \/ ~ up
=============================================================================
