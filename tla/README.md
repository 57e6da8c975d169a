# Publisher/subscriber server: TLA+ models, model checking and proofs

The repository holds a topic-based publisher/subscriber server for Windows, a
console client for it, and the kernel of communicating automates the server is
built on.  This directory models them in TLA+.  TLC checks the modules
`MC*.tla` with the `.cfg` file of each run; `tlapm` checks the modules
`*Proofs.tla`.  `PROJECT.json` lists the runs, the source lines of every
definition, the hazards of the code and the properties that cover them.

    tlc -workers 2 -config MCPubSubSafe.cfg MCPubSub.tla
    tlapm PubSubProofs.tla

Paths below are relative to
`src/Publisher Subscriber server/Publisher_Subscriber_server/`, except the
client, `src/Publisher Subscriber client/Client_IPv6/Client_IPv6.cpp`.

## 1. The system

| Part | Where | State | Operations |
|---|---|---|---|
| Server automate | `POP3ClientCppUnit/ChAuto.cpp` | automate state; `dataBuffer`, `clientAddress`, `currentTopic`; the topics (`allServerData`, `tmpOnCurrentTopicData`, `publisherCounter`, `alreadyexists`, `index`) | `Start`, seven event handlers |
| Client | `Client_IPv6.cpp` | `dataBuffer`, its socket | type, send, receive, print |
| System thread | `POP3ClientCppUnit/main.cpp` | `FSMSystem sys` | configure, `Start` |
| Automate base class | `Kernel/fsm.cpp` | `State`, the table of events, timers of the automate | `Process`, timers, `Reset`, `FreeFSM` |
| Automate system | `Kernel/fsmSystem.cpp` | table of automates, free lists, `SystemWorking` | `Add`, `Remove`, `Start`, `StopSystem` |
| Memory | `Kernel/buffers.cpp`, `buffersQueue.cpp` | one linked list, critical section and counter per size | `GetBuffer`, `RetBuffer` |
| Mailboxes | `Kernel/postOffice.cpp`, `mailbox.cpp` | one linked list, critical section and semaphore per mailbox | `Add`, `Get`, `GetSync`, `Purge` |
| Timers | `Kernel/timer.cpp` | delta list of running timers, critical section | start, stop, restart, the callback |
| Kernel interface | `Kernel/kernelAPI.cpp`, `messages.cpp` | the current and the new message | prepare, send, discard |
| Message formats | `Kernel/stdMsgpc16pl16.cpp`, ... | none | add, find and remove parameters |
| UDP, TCP and distribution between automates | `Kernel/UdpFSM.cpp`, `NetFSM.cpp`, `systemTCP.cpp`, `Client*.cpp`, `Distribution.cpp` | threads, sockets, tables of servers | listen, accept, frame, route |
| Logging, helpers | `Kernel/Log*.cpp`, `KernelFunctions.cpp`, ... | files | write |
| CppUnit | `CppUnit_1.12.1/` | vendored | - |

How they interact.  `mainProgram` starts the system thread.  It configures the
memory, the mailbox and the one automate, calls `ChAuto::Start` and then
`FSMSystem::Start`, a loop that waits in `GetSync` for a message, calls the
handler its automate's table has for the automate's state and the message code,
and discards the message.  A handler goes on by sending its own automate the
next message; the whole server is one chain

    Idle_Cl_Connected -> Store_Data_SubPub -> Publish_ACK | Share_Topic_Data
                                              | Share_All_Topics -> Idle_Cl_Connected

in which at each point one message is in the mailbox.  The first handler blocks
in `recvfrom`, the last sends the reply.  Between them the request lives in
globals.  Other threads of the kernel (the timer callback, listeners of the
UDP and TCP classes) add messages, take and return buffers.

What is hard, and what makes each part correct:

- **Server.**  A request's address and text outlive the handler that received
  them; every failing call and every unknown text decides whether the chain of
  messages goes on; strings are searched, truncated and overwritten by index,
  and the rows of a table run out.  Correct: no message is lost in a state that
  does not expect it, replies go to and answer the request, a subscriber gets
  what was published, topics do not disturb each other, the server stops only
  on a failure.
- **Client.**  It waits for one datagram and has no timeout, so a lost datagram
  stops it and a duplicated one shifts all later answers.  Correct: the answer
  read belongs to the last request; each request is answered.
- **Memory.**  Several threads work on linked lists, and a request goes from
  list to list without a common lock.  Correct: lists intact, no buffer lost or
  given twice, a request fails only if nothing is large enough, no lock stays.
- **Mailboxes.**  A message is queued and announced in two steps, and dropped
  messages make queue and semaphore differ.  Correct: no lost wake-up, each
  buffer in one place, stopped timers silent, messages are served.
- **Timers.**  The delta list is changed by automates and by the callback, the
  message of a timer is stopped by a pointer that may be old, and the callback
  takes a second lock.  Correct: a timer expires at its time and once, `StopTimer`
  marks the timer's own message, no timeout is left that cannot be stopped.
- **Message formats.**  Parameters are moved by offsets that are read from the
  message, and one offset serves two messages.  Correct: the bytes are those of
  a sorted list and stay in the buffer; a search goes on where it ended.
- **Automate system.**  The free list has no lock, and threads of the TCP server
  use it while the system thread does; its end, its links and its count are
  changed one after the other.  Correct: an automate at work is not handed out
  again, none is forgotten, `StopSystem` ends the loop.
- **Distribution.**  Servers crash and come back, a connection is entered over
  an older one while three kinds of threads read and write the table without a
  lock, messages are routed by a table of areas.  Correct: a socket in the table
  joins the two servers, a server taken for active is watched, a crash is noticed,
  a message ends somewhere.

## 2. Modules

| Module | Models | Built on |
|---|---|---|
| `TopicStore` | the topic memory as operators: what a publish writes, what replies say | |
| `ChAuto` | the automate: start, dispatching, one action per handler | `TopicStore` |
| `PubSub` | the server with clients and network; all properties of the program | `ChAuto` |
| `TopicScan` | the nested loops that look a topic up, one comparison a step | `TopicStore` |
| `BufferPool` | what the kernel's memory promises (abstract) | |
| `Buffers` | lists and critical sections of the memory; implements `BufferPool` | `BufferPool` (INSTANCE) |
| `PostOffice` | mailboxes, semaphores, messages of stopped timers | |
| `Countdown` | what timers promise (abstract) | |
| `Timers` | delta list, callback, an automate's timers, from the pool to the mailbox and back; implements `Countdown` | `Countdown` (INSTANCE) |
| `ParamList` | what a message carries: a sorted list of parameters (abstract) | |
| `MsgParams` | the bytes of messages in both formats; implements `ParamList` | `ParamList` (INSTANCE) |
| `FSMSystem` | the table of automates, the free list and its threads, the loop of `Start` | |
| `Distribution` | servers that connect, crash, come back and route messages | |
| `PubSubProofs`, `PostOfficeProofs`, `BuffersProofs`, `TimersProofs`, `FSMSystemProofs`, `DistributionProofs` | theorems | the module of the name |
| `LoopProofs` | theorems about the loops over characters and bytes | `TopicScan`, `MsgParams` |
| `ProofLemmas` | lemmas on minima of sets of numbers, sequences without repetitions, insertion, common prefixes, and the folds of the community modules as recursion over prefixes | (all proof modules but `PostOfficeProofs` extend it) |
| `MC...` | small instances | |

### Server and clients

*Characters.*  `mem[i]` is the row `allServerData[i]` points to.  A row is a C
string in a fixed array: cells, the text ending before the first NUL, and
whatever an earlier write left behind it.  Names and data are sequences of one
or two letters; the cells the code treats specially are `":"`, the blank, the
backquote (`TICK`), NUL and the line feed, and letters are upper-case or not
because the copy of a new name stops at the first character that is not
(ChAuto.cpp:267-271).  The text in which a request arrives is a record of what
the handler recognizes in it.

*Handlers.*  The system thread runs a handler to its end before it takes the
next message, so a handler is one action; `FSM_Ch_Idle_Cl_Connected` blocks in
`recvfrom` and is two.  `Dispatches(handler)` is the lookup of
`FiniteStateMachine::GetProcedure` in the table that `Initialize` builds.
`FSM_Ch_Store_Data_SubPub` is four actions, one for each kind of text.  A
failing `sendto` leaves the automate without a socket and without a message.  A
publish that writes outside its arrays has undefined effects; the action has no
successor there, and the run `capacity` shows that it happens.  The search of a
publish leaves its result in the globals `alreadyexists` and `index`, which the
next search starts from: `Exists` and `FoundAt` say what they are after it, and
`ForgetsSearch` is the reset of the first, without which a new topic's data would
be appended to an old row.

*Lookup.*  `TopicReply` states the reply to a subscriber in closed form;
`TopicScan` has the loops that compute it, with the index that is not always
reset, and `ScanComputesReply` compares the two.

*Network.*  UDP is external: receive queues, with loss and duplication when the
run allows them.  Requests of different clients arrive in any order because the
clients send in any order; a client has one request under way.

### Memory

`Buffers` has the Windows build: a list per size with `QHead`, `QTail`,
`BUFF_NEXT`, a count, and a critical section that its owner may enter again.
The work on a list inside the critical section is two steps, so that a missing
lock shows; outside it, `RetBuffer` clears the link field first, as the code
does.  An empty list makes `GetFromHead` return from inside the critical section
and `GetBuffer` go on to the next size; on the last size, and after the
assertion of a Debug build, the process ends (`alive`).

`BufferPool` is what callers see: a request is granted with a free buffer that
is large enough, or fails when there is none.  In `Pool == INSTANCE BufferPool
WITH ...` the free buffers are those in the lists, and a thread that has not
taken its buffer off a list still wants one.

### Mailboxes

Every access to a mailbox is one critical section and one step.  `Add` queues
the message and, in a second step, releases the semaphore.  `GetSync` waits for
a semaphore, then looks into the mailbox; messages whose timer was stopped are
dropped there and their buffers returned, so that the system thread may find
nothing, and waits again.  Threads other than the system thread send messages
and may call `Get` without waiting.

### Timers

A timer is a message.  Its buffer goes from the pool into the delta list, from
there into the mailbox, to the handler and back; `code` is the message code in
the buffer, which `StopTimer` overwrites with `DISCARDED` wherever the buffer
is, and `TimerBuffer` the automate's pointer to it.  Each action is what a
thread does between two operations on a critical section, so that
`StartTimer` (fsm.cpp, kernelAPI.cpp and timer.cpp together) is three:
`StartTimer`, `Add` and `SetTimer`.  The pointer is set last, and the callback
may come in between.  The callback
keeps the timers' section while it queues (`Expire`, `Queue`).  Counts are
`uint32`, that is modulo `W`; ticks are the code's integer division.  `Process`
has the guard that the handler of a timeout has reset, stopped or restarted its
timer, as the generated handlers do (fsm.h:485).

`CountdownOf` maps the list of differences to the ticks left to each timer, and
the request `StartTimer` is working on to `asked`.  `OnTime` says that the list
implements `Countdown`, where every timer has a count of its own, which starts as
the number of ticks in the time that was asked for: a timer expires after the time
it was started with.  `TicksExact` is the condition under which the code's integer
division and its 32 bits yield that number; run and theorem assume it.

### Message formats

Both formats are one module with `format` bytes per number: `standardMsg.cpp`
and `stdMsgpc16pl16.cpp` are the same code.  A message is the cells behind the
header; `Walk` is the loop over the parameters' lengths that every operation
has.  `AddParam` includes `CheckBufferSize`, which may copy the message into a
larger buffer.  `CurrentOffset` is one variable, as in the code.  A number's two
bytes are kept apart; `R` values per byte (256) keep lengths small.  Values of
parameters are shorter than `R`, so the model does not show that `GetNextParam`
with a length compares only the low byte.

### Automate system and TCP server

The system thread and the server thread are at a place (`at`) each; a step is one
access to the free list, and what a thread has read is in `read`.  `taker` says
which thread takes automates out of the list; the system thread puts them back.
`Link` may read `tail` once more before it writes through it, as a compiler may
do.  `ListIntact` and `EndsOnlyWhenAllWork` are about one thread, `HandedOutOnce`
and `TypeOK` about both.

### Distribution

A connection is a number with the servers it was made by and to, whether the
number of the first was sent, and who still has it open; `pending` are those to be
accepted.  Connecting and accepting are taken apart into the steps between which
another server may crash or another thread may read the table: `Connect` and
`SendOwnNum` (Distribution.cpp:84-117), `Accept`, `FindServerNum`, `EnterInit`,
`EnterSock` and `CreateThread` (:203-229).  A server that crashes between the first
two leaves a connection without a number; `FindServerNum` does not look at the
result of `recv`, the number stays 255 (`INVALID_08`), and the connection is entered
behind the table of ten servers.  The model has one more entry for that memory.

`threads` are the receiving threads with the connection they were created for
(`own`) and the server they are for (`from`).  Each `recv` takes the socket from the
table anew (`CallRecv`), so that a length and its body may be read from different
connections, and an old and a new thread may read from the same one.  From the
first read that gets bytes meant for another one on, the end of the connection is
`torn`: whatever is read from it is a message with any header, or is lost.
`SendMsgToServer` fails in three steps (:290-293), and so does `Receive` in two.

A crash closes everything the server had; a start begins with `ConnectToServers`,
which asks one server after the other.  A message is new, on a server, on a
connection, read in part, processed or lost.  TCP is external: nothing is lost on a
connection that is open at both ends, and the end of one is seen by `recv`.

## 3. Runs

| Run | Question | Properties | Bounds |
|---|---|---|---|
| `safe` | do replies say what was published, and is everybody answered? | `TypeOK`, `PresetDataCurrent`, `ListCurrent`, `PublishTouchesOnlyItsTopic`, `EveryRequestAnswered` | 2 clients, 5 names, 2 data, 2 publishes, unknown texts |
| `faults` | what survives failing calls, loss, duplication? | `NoUnexpectedEvent`, `StopsOnlyOnFailure`, `AnswerMatches`, `PresetDataConsistent` | 2 clients, 2 names, 1 publish, 1 loss, 1 duplication, every call may fail |
| `topic_scan` | do the loops end, in bounds, with the right reply? | `ScanInBounds`, `ScanComputesReply`, `ScanEnds` | memories of up to 2 rows over 5 names and 3 data, of 3 rows with the 5 names and no end mark, 6 names asked |
| `buffers_one_size` | do calls end? | `CallsReturn` | 2 threads, 3 buffers, up to 2 each; Debug build |
| `buffers_two_sizes` | do the lists implement the pool? | `TypeOK`, `ListsIntact`, `NoBufferLost`, `ImplementsPool` | 2 threads, 4 buffers of 2 sizes; Release build |
| `post_office` | are messages announced, kept, served? | `TypeOK`, `NoLostWakeup`, `OnePlace`, `StoppedNotDelivered`, `FirstMailboxServed`, `QuietMailboxServed` | 3 threads, 2 mailboxes, 2 buffers, semaphores up to 2 |
| `timers` | do timers expire on time, once, and can they be stopped? | `TypeOK`, `TimerBufferCurrent`, `TimeoutKnown`, `OnTime`, `TimeoutHandled` | 2 timers of 2 or 4 ticks, 4 buffers, counts modulo 5 |
| `msg_params` | are the bytes a sorted list? | `TypeOK`, `ImplementsList`, `SearchFindsNext` | both formats, 2 codes, values of 0 and 1 byte, 4 parameters, 2 sizes of buffers, 4 values per byte |
| `fsm_system` | what survives a list without a lock? | `TypeOK`, `HandedOutOnce`, `ListIntact`, `EndsOnlyWhenAllWork`, `StopReturns` | 3 automates, 2 mailboxes, counts up to 4 |
| `distribution` | are servers watched, crashes noticed, messages finished? | `TypeOK`, `ActiveWatched`, `CrashNoticed`, `MessageHandled` | 2 servers, 2 areas and an object of none, 3 starts, 2 connections, 1 message |
| `capacity` | violation | `PublishStaysInBounds` | 3 publishes, 4 rows |
| `buffers_lock` | violation | `LockedOnlyInCalls` | 2 sizes, 3 buffers |

The two violations are listed as findings with the lines they contradict.

Why the bounds are enough.  Two clients have one request each under way, and
the server serves one at a time: a third client waits in the same queue.  Two
publishes give each pair that differs in effect (same new topic, two new ones, a
new one that is a prefix of an initial one, the same initial one twice); one
duplicated request adds a third.  `MAX_PUBLISHERS` is 6 (10 in the code) where
the table must not run out and 4 where it must; `RowLen` 16 or 20 (150) holds
any row of these runs.  Two threads suffice for every pair of steps on a list
of buffers, and three or four buffers for a list that is empty, has one or has
more.  In the post office the counts reach their maximum, as the release that
fails silently requires; the theorems of section 5 hold for all sizes.

Two timers with times that are equal or differ (a unit of the automate is two
ticks) give every order of two entries
in the delta list; four buffers are both timers, a message and one more in the
mailbox, so that buffers run out and are reused at once.  `W` is larger than
any count of the run and small enough that a count below zero would be seen.
Four parameters fill both messages up to the point where `CheckBufferSize` has
to take the larger buffer, in both formats.  Three automates are the smallest
list with a first, a last and one between; the count drifts up to its bound.
Two servers and three starts are enough for a server to come back while the
other still has its old connection, and for one that crashes between `connect` and
`send`, whose number is never read.

The named bounds are `MaxPublish`, `MaxFaults`, `MaxHeld`, `MaxDepth` (how often
a section may be entered without being left, in new requests), `MaxParams`,
`MaxCount`, `MaxStarts` and `MaxConn`.  Clients and, in `buffers_two_sizes`,
threads and buffers are interchangeable; symmetry is used in runs without
liveness only.

Deadlock is checked in `post_office`, `timers` and `msg_params`.  It is off where
the system stops: an unknown request or a failed call stops the server, an empty
memory or free list the process, the scan and the loop of `Start` return, and
servers have used up their starts.

Each property has a faulty variant of a modelled definition, marked as such
where it is defined (a dropped comparison, a missing reset, a lock not taken),
under which TLC finds the property violated in the same run.

## 4. Fairness

- `PubSub`: the system thread is scheduled when it can go on, and a client in
  `recvfrom` returns when a datagram is there.  Both follow from the threads
  being scheduled and `recvfrom` returning what has arrived; users need not
  type.  Weak fairness of the server is written out with `ServerReady` because
  TLC would compute the replies again for each `ENABLED`.
- `Buffers`: strong fairness of a call's next step.  Windows hands a critical
  section on to a waiting thread, so one that is left again and again is not
  denied for ever.
- `PostOffice`: weak fairness of calls and of the wait; and handlers end, which
  is `[]<>(held[System] = {})` with strong fairness of `GetSync`.  A mailbox
  behind another gets no more than `QuietMailboxServed` says, because
  `WaitForMultipleObjects` prefers the lower index.
- `Timers`: the handlers of the system thread end (`[]<>(system = "loop")`, which
  includes that the system thread gets the timers' section when a handler starts a
  timer), and a thread that waits for a critical section gets it in the end (strong fairness
  of the steps that enter one), for the reason given for `Buffers`.  The callback
  is called for ever; that is strong fairness of `Tick`, because it may find the
  section taken.
- `FSMSystem`: the system thread goes on as long as it can.  `GetMsgSync` waits
  for a message, so this includes that there is always another message; without
  messages `StopSystem` would have no effect.
- `Distribution`: each thread of a server runs until the server crashes, which is
  weak fairness of the starting thread, the accepting thread, each receiving thread,
  and of the loop of `Start` for each message, as the mailbox is a queue.  No server
  has to start, crash or send.

## 5. Proofs

`PubSubProofs`, for any clients, topics, requests, failures and table sizes that
satisfy the named assumptions:

- `ControlInvariant`: the mailbox has at most one message, one the automate's
  state expects; the thread waits only on an open socket.  `NoUnexpectedEvent`
  and `StopsOnlyOnFailure` speak of the message being dispatched and are not
  inductive: the next message depends on the socket, the state and the buffer,
  which `ControlInv` ties together.  Both follow from it.
- `AnswersMatch`: `AnswerMatches`.  The strengthening `FlightInv` counts
  datagrams: a client that waits has one in flight, in the server's socket, in
  the server's globals, or in its own socket (`OneInFlight`), and the globals
  hold the request being served (`ServiceInv`).  It lasts until the first
  duplication, which `UndisturbedInv` says.
- `DataInvariant`, and from it `TypeCorrect` (`TypeOK`), `PublishTouches`
  (`PublishTouchesOnlyItsTopic`) and `PresetDataAlwaysConsistent`
  (`PresetDataConsistent`).  What clients are told is compared with the history
  of publishes, so `DataInv` relates the rows to it: they have names (`NamedRows`),
  which are those `TopicsAfter` gives as long as no name was shortened (`StoreInv`;
  `alreadyexists` is always reset in between), the rows of the initial topics hold the text
  that `TextAfter` gives (`RowHolds`), and every reply in a socket shows the
  store after some number of publishes (`TrueReply`).  `TopicsAfter` and
  `TextAfter` are folds over the history; a publish appends to it, and
  `ProofLemmas` shows what a fold does with one element more, so that no
  induction over the history is needed.
- `FreshDataInvariant`, and from it `PresetDataAlwaysCurrent`
  (`PresetDataCurrent`) and `ListAlwaysCurrent` (`ListCurrent`): until the first
  duplication that number of publishes is not below the one the client's request
  was sent after.
- What is said of the initial topics assumes `PresetsApart`: their names start
  with different letters, as the four of ChAuto.cpp do.  The scan for a
  subscriber leaves in the reply what the names of earlier rows have in common
  with the topic, and with two initial names `AB` and `AC` the data of the second
  would arrive behind a stray `A`.

`LoopProofs`, about `TopicScan`, for any topic and any memory whose rows fit and have a `':'`,
which every row gets behind its name (`IsRowText`, ChAuto.cpp:275):

- `ScanInvariant`, and from it `NeverBeyondTheTopic` (`ScanInBounds`) and
  `LoopsComputeReply` (`ScanComputesReply`): for every input the loops compute
  what `TopicReply` says.  `SInv` describes what has been copied in the middle of
  the loops by two sequences: what the names of the first `f` rows have in common
  with the topic (`Kept`), and the rows behind them (`Served`).  Until a name has
  matched, `f` is the row the scan is in (`LooksUp`); from then on `f` stays and
  what is served grows until a TICK cuts it off (`Copied`).  The `':'` is what
  makes a row end only after its name has matched, and the terminator, which no
  row has in its text, is what stops `k`.

`PostOfficeProofs`, for any threads, mailboxes and buffers, provided a semaphore
can count as far as there are buffers (10000 in the code):

- `TypeCorrect`, `WakeUpsNotLost`, `NotStranded`, `StoppedTimersSilent`.
  `NoLostWakeup` alone is not inductive: a release at the maximal count would
  lose one.  `Apart` (no buffer in two places) bounds each queue by the number
  of buffers, hence by the maximal count (`QueueFits`, by counting), and the
  release that fails announces nothing that is not announced already.
- `BuffersInOnePlace`: `OnePlace`; `Apart` and a place for every buffer.

`BuffersProofs`, for any threads, buffers, sizes and requests:

- `ListsInvariant`, and from it `BuffersTyped` (`TypeOK`), `FreeListsIntact`
  (`ListsIntact`) and `NoneLost` (`NoBufferLost`).  The state has pointers, the
  properties speak of what is reached along them.  The strengthening says that
  there is a sequence for each class, of its buffers in nobody's hands, along
  which `QHead` and `BUFF_NEXT` lead (`Linked`), and that `QTail` and the count
  agree with its end or, in the middle of `PutOnTail`, are one behind (`Ended`);
  and that who is inside a critical section owns it (`Exclusion`).  `NthIs`
  shows once that following the pointers yields the sequence.
- `PoolImplemented`: `ImplementsPool`, the refinement, if assert is not active or
  there is one size.  It needs `Requests`: the lists that a search has passed
  are still empty when it ends.  They are, because `GetFromHead` left their
  critical sections locked: the defect of section 6 is what makes the search
  exact.

`TimersProofs`, for any timers, buffers, times and resolutions:

- `TimersInvariant`, and from it `PointersCurrent` (`TimerBufferCurrent`) and
  `TimeoutsKnown` (`TimeoutKnown`).  Neither is inductive: a pointer stays
  current only while its buffer is not reused.  The strengthening says that
  each buffer is in one place, the pool, the list, the mailbox, the handler or
  the one being filled in, and that list and mailbox have no repetitions
  (`Apart`), and what the buffer is whose pointer is not set yet
  (`BeingStarted`).
- `SectionsHeld` and `TypeCorrect` (`TypeOK`, with no buffer lost): `Held` adds
  who is inside which critical section and that counts keep their width.  The
  buffers are finitely many (`TimersAssumption`), because `TypeOK` counts them.
- `NoneOverdue` and `CountdownImplemented` (`OnTime`, the refinement): the ticks
  left to a timer are the sum of the counts up to it in the list, and when it is
  listed they are those of the time it was asked for.  The callback
  takes one from the first count and so from every sum; `StartTimer` inserts a
  count where the sum is right and takes it from the next one; a stopped timer
  stays in the list and goes on counting.  `DueInv` says that between two calls of the
  callback no timer is left with nothing to count, without which a count would
  fall below zero.  Both assume `TicksExact`, that the resolutions fit the times: the
  division leaves no remainder and no timer is started with less than one tick.

`FSMSystemProofs`, for any automates, entries and mailboxes:

- `FreeListApart`, and from it `PointersToAutomates` (`TypeOK`) and
  `NoAutomateTwice` (`HandedOutOnce`).  With two threads the list does not stay a
  list: automates are lost, and the count drifts.  What stays true, and is enough,
  is that no automate follows two others, and that none follows the head, works,
  is being taken or is being put back and is still linked (`Apart`).  The proof
  also counts the entries before the threads start (`Before`): there is always
  another automate for an empty entry.
- `ListExact`, and from it `ListStaysIntact` (`ListIntact`) and
  `EndOnlyAtFullWork` (`EndsOnlyWhenAllWork`): with one thread the list is a
  list.  `ListInv` gives a sequence of automates along which head and links lead
  (`Linked`), and says, for each place in the middle of `Get` and `FreeFSM`, which
  of tail and count are behind (`Ended`, `Counted`).

`DistributionProofs`, for any number of servers, any table of areas, messages and
bounds:

- `ConnectionInvariant`, and from it `SocketsJoin` (`TypeOK`) and
  `ActiveServersWatched` (`ActiveWatched`).  The strengthening ties the table to
  the connections, the pending ones and the threads, at every step of connecting
  and accepting: what is pending joins the two servers (`Incoming`), the number that
  was read is the other server's, or 255 when that one has closed the connection
  (`Named`), so that what gets behind the table is closed (`EntryGone`), and a server
  that is entered has a thread or is about to get one (`Watched`).

`LoopProofs`, about `MsgParams`, for any codes, values and buffers, in both
formats (`MsgParamsAssumption`: a byte has `R` values, codes are not zero, the
terminator fits into the smallest buffer; the application's buffers have 256
bytes):

- `MInvAlways`, and from it `MsgParamsTypeCorrect` (`TypeOK`), `SearchCorrect`
  (`SearchFindsNext`) and `ListImplemented` (`ImplementsList`, the refinement).
  Where a parameter starts is the result of a walk over all before it, whose
  lengths are themselves read from the bytes.  The invariant therefore says that
  the walk through a message ends at a terminator inside the buffer, that the
  codes on its way are sorted (`Intact`), and that `CurrentOffset` is the offset
  behind the `passed` parameters that a search has gone by (`Searched`).
- The argument is about chains of offsets (`Chain`): each is the one before it
  plus the header and the length read there.  `WalkIs` and the lemmas behind it
  show that `Walk` yields a chain, and that a message has only one.  What
  `AddParam` does is moving the bytes behind a place: the offsets behind it grow
  by the size of the parameter, and the bytes at a moved offset say what they
  said before (`NumMoves`, `PartMoves`), so the list has one parameter more, at
  that place.  `FindParamPlace` returns an offset of the chain, the first one
  with a greater code.  A larger buffer keeps the cells of the message, hence
  its chain.
- `NothingRemoved`: the place for a code is never at a parameter with that code,
  so the comparison in `RemoveParam` always fails (section 6).  The action has
  it as a guard, which excludes nothing; on the list it is a stuttering step.

Only model-checked: all liveness under fairness.

## 6. What the code does that its texts do not say

Shown by a run:

- Every publish needs a free row, also one on an existing topic, and nothing
  stops the eleventh row (`capacity`).
- With several sizes of buffers an empty list leaves its critical section owned
  (`buffers_lock`).  The program configures one size, for which an empty list
  ends the process, and the section is always left (`buffers_one_size`).

In the models, and so in what the properties say:

- A text that is none of PUB, SUB, LIST stops the server for everybody: the
  handler sends no message then (ChAuto.cpp:329, `NotRecognized`), and the automate
  does not receive again, although "Any client can ask for existing list of
  topics" (ChAuto.cpp:321).  `EveryRequestAnswered` excepts it.
- A second publish on a topic that is not one of the initial ones overwrites the
  last character of the first (ChAuto.cpp:291, `AppendData`).
- The text of a published topic has no end mark until a second publish, so a
  subscriber also gets the topics behind it.  The model has this (`TopicReply`),
  and the properties on replies are stated for the initial topics.
- A published name that is not all upper-case is stored only up to its first other
  character (ChAuto.cpp:267-271, `UpperPrefix`), and the search, which compares the
  whole name, does not find it again: a second `PUB Du` makes LIST name `D` twice
  and `Du` never.  `ListCurrent` is about histories without such names
  (`NamesWhole`).
- An append writes over the terminator and none behind its data (ChAuto.cpp:291-296).
  What an earlier publish left in the row then belongs to the text; the answer ends
  at the backquote in front of it, but the next append goes behind it.  The rows of
  the model keep what is behind their terminators; the properties on data are about
  the initial topics, whose rows have nothing there.
- In a Debug build an assertion makes `GetBuffer`'s search through larger sizes
  unreachable (buffersQueue.cpp:194).
- A timer whose automate has a finer resolution than the system gets zero ticks
  (timer.cpp:370), and the first tick makes 2^32 - 1 of them.  `OnTime` holds for
  resolutions that are multiples of the system's, as in the run, and would fail
  otherwise.
- `RemoveParam` never removes anything (`NothingRemoved`): `FindParamPlace` stops behind the
  parameters with the code (stdMsgpc16pl16.cpp:341).  Were it to remove one, it
  would subtract two bytes for a header of four (:349).
- A search goes on from a wrong place after `AddParam`, because `CurrentOffset`
  is shared; `SearchFindsNext` excepts it with `moved`.
- With one-byte numbers the terminator counts two bytes, of which one is
  written (`WithEND`).
- With a server thread, automates that are free can be lost from the list and
  the count drifts, so that the process may end although automates are free;
  this is why `ListIntact` and `EndsOnlyWhenAllWork` are about one thread.
- `Get` throws on an empty list, so that what `Start` does when there is no free
  automate (fsmSystem.cpp:290-292, fsm.h:366) is never reached.
- `StopSystem` called before `Start` has no effect (fsmSystem.cpp:269).
- Two servers that start at the same time stay unconnected: each connects before
  it listens.  A thread that sees its connection end closes the socket in the
  table, which may be that of a newer connection (Distribution.cpp:248), and a
  message that is on a connection that was replaced is never read, which
  `MessageHandled` allows for.
- A number that cannot be read is taken for 255, and the entry behind the table is
  written (Distribution.cpp:305-309, :227-228); its thread reads and closes what is
  there.  The model treats it as memory of its own.
- A live connection may be taken for inactive: a thread that sees the old one end
  resets `init` after the new connection has set it (:227, :247).
- Two threads may read from one connection, and one thread a length from one and the
  body from another (:264, :267): messages are then torn.
- A message to an object that no area has goes back and forth between two servers
  for ever: each sends it to the first active other one of the table
  (Distribution.cpp:420-435).  Among three servers the same happens to objects of an
  area that only the third supports.  `MessageHandled` is about objects of the table
  and is checked for two servers.
- `SendMsgToNextSrv` is never reached, for the reason given for `Get`.

Outside the models, because what follows is undefined:

- The size of the reply, PUB texts without a second blank, `strlen` of the
  uninitialised `ackMessageTmp`.
- Messages to the object or type one behind the table (fsmSystem.cpp:283, :295),
  and the assertion of `Remove`, which is the wrong way round (:253).
- `ReceiveMsg` reads as many bytes into 100 as the message says
  (Distribution.cpp:260-267); after a torn read that may be any number.
- What the memory behind the table of servers belongs to (Distribution.cpp:227).
- What follows an append that fills a row to its last byte: the row has no
  terminator (ChAuto.cpp:296), and its text goes on in the next row.  `Publish` has
  no successor there.

## 7. Not modelled

The C++ files of the repository have about 46 000 lines, three quarters of which
are the vendored CppUnit; the application and the kernel have about 11 000, much
of them declarations, accessors for each width of number, and logging.

- Start-up and the exits of the client, thread creation, `mainProgram`'s wait.
- In the memory and the mailboxes: the sorting of sizes, `GetLength`, `Purge`,
  `GetCount`, `QueryHead`, destructors.  The last are called when the process
  ends and by nothing else.
- Of the timers: `RestartTimer` of `CTimer`, which nothing calls, `Purge`,
  `IsEmpty`, the destructor.
- Of the automate system: `Remove` and `Delete`, called by the destructor only.
- `UdpFSM`: nothing derives from it, and its threads share flags, a length and a
  buffer without a lock, from the first message on.
- What a TCP connection of an automate transports: `Client_DTP` hands over
  whatever one `recv` returns and its loop has no end, `Client` is not used and
  keeps the length of its first frame.
- Of the distribution: the ini file, the bytes of a message on the wire and the
  order of messages.  A `recv` returns a whole length or a whole body, a handle that
  was closed is not given to another connection, and the group of a message is a
  server or none.
- Published names and data with a backquote: a client can send one, and answers and
  lists would end at it (ChAuto.cpp:357).
- Requests to the memory that are larger than any size there is: `GetBuffer` ends the
  process, or looks behind its lists when parameters are not checked
  (buffers.cpp:87-92).
- Logging, ini files, the Linux branches (the program is a Windows program),
  CppUnit.

## 8. What is left

1. The composition of `FSMSystem` with `PostOffice` and `Timers`: one loop over
   real mailboxes.
2. Three servers, with messages that all of them support.
3. Destructors and `Purge` against threads that still run.
4. An abstract publish/subscribe service that `PubSub` implements where section 6
   allows it.
