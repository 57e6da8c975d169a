---------------------------- MODULE Distribution ----------------------------
(***************************************************************************)
(* An automate system on several servers (Distribution.cpp).  A server     *)
(* that starts connects to the others and sends them its number;           *)
(* afterwards a thread accepts connections.  For each connection a thread  *)
(* receives messages.  The loop of Start processes a message or sends it   *)
(* to another server, by a table of areas: the objects of an area are on   *)
(* the first active server of a list.  All these threads read and write    *)
(* the table of servers without a lock.                                    *)
(*                                                                         *)
(* Servers crash and start again.  There is one type of automates.         *)
(* Messages are independent: their order is left out.  A free automate for *)
(* a message to any object is always found (see FSMSystem), so that        *)
(* SendMsgToNextSrv is never called.                                       *)
(***************************************************************************)
EXTENDS Naturals, FiniteSets, FiniteSetsExt, SequencesExt

CONSTANTS Servers,    \* the number of servers
          Area,       \* the table: a sequence of [startId, lastId, compId]
          ObjId,      \* the objects messages are sent to
          INVALID_32, \* the one that stands for any free object
          INVALID_08, \* no server's number
          Message,    \* the messages
          NULL,       \* no socket
          MaxStarts,  \* bound on the starts of servers
          MaxConn     \* bound on connections

Server == 0..(Servers - 1)
Number == Server \cup {INVALID_08}
Conn   == 1..MaxConn

ASSUME DistributionAssumption ==
    /\ Servers \in Nat \ {0}
    /\ ObjId \subseteq Nat \cup {INVALID_32}
    /\ INVALID_08 \in Nat \ Server
    /\ NULL \notin Nat
    /\ MaxStarts \in Nat
    /\ MaxConn \in Nat

ASSUME AreaAssumption == Area \in Seq([startId : Nat, lastId : Nat, compId : Seq(Server)])

VARIABLES state,    \* of each server: "down", "connecting", "connected" or "running"
          nextSrv,  \* the i of ConnectToServers
          starts,   \* how often servers have started
          server,   \* what each server knows of each: init, and the socket
          acceptor, \* of each server, what AcceptConn is about to do
          sender,   \* of each server, what SendMsgToServer is about to do
          conn,     \* the connections
          pending,  \* of each server, the connections to be accepted
          threads,  \* the receiving threads
          torn,     \* the ends of connections whose bytes went to several reads
          place,    \* where each message is
          msg       \* its object and group

network  == <<conn, pending>>
messages == <<torn, place, msg>>
control  == <<state, nextSrv, starts>>
vars     == <<control, server, acceptor, sender, network, threads, messages>>

Unknown == [init |-> FALSE, sock |-> NULL]
Itself  == [init |-> TRUE, sock |-> NULL]

\* AcceptConn waits in accept; SendMsgToServer is not called.
Accepting == [at |-> "accept", sock |-> NULL, from |-> INVALID_08]
Silent    == [at |-> "idle", to |-> INVALID_08]

Header   == [obj : ObjId \cup {INVALID_32}, group : Number]
NoHeader == [obj |-> INVALID_32, group |-> INVALID_08]

Init ==
    /\ state = [s \in Server |-> "down"]
    /\ nextSrv = [s \in Server |-> 0]
    /\ starts = 0
    /\ server = [s \in Server |-> [n \in Number |-> Unknown]]
    /\ acceptor = [s \in Server |-> Accepting]
    /\ sender = [s \in Server |-> Silent]
    /\ conn = <<>>
    /\ pending = [s \in Server |-> <<>>]
    /\ threads = {}
    /\ torn = {}
    /\ place = [m \in Message |-> <<"new">>]
    /\ msg = [m \in Message |-> NoHeader]

\* The places of a message: on a connection to s, whole or after thread o of s has read
\* its length.
Mailbox(s)    == <<"mailbox", s>>
OnWire(c, s)  == <<"wire", c, s>>
Body(c, s, o) == <<"body", c, s, o>>
Processed     == <<"processed">>
Lost          == <<"lost">>

\* The buffers of the messages that are now processed or lost are given back.
DiscardMsg ==
    msg' = [m \in Message |-> IF place'[m] \in {Processed, Lost} THEN NoHeader ELSE msg[m]]

Running(s) == state[s] = "running"

\* The servers that have a socket's connection open; those it was made between
Open(c) == IF c = NULL THEN {} ELSE conn[c].open
Peers(c) == {conn[c].by, conn[c].to}
Broken(c) == c # NULL => conn[c].open # Peers(c)

\* The messages on connection c whose length a thread of s has read
Begun(c, s) == {m \in Message : \E o \in Conn : place[m] = Body(c, s, o)}

\* The messages whose bytes may be the next ones that s reads from c
Coming(c, s) ==
    IF Begun(c, s) # {} THEN Begun(c, s) ELSE {m \in Message : place[m] = OnWire(c, s)}

\* Messages on connection c to s are lost.
Drop(c, s) ==
    [m \in Message |->
        IF place[m] = OnWire(c, s) \/ m \in Begun(c, s) THEN Lost ELSE place[m]]

\* Server s closes a socket.
CloseSocket(s, c) ==
    /\ conn' = [d \in DOMAIN conn |-> IF d = c THEN [conn[d] EXCEPT !.open = @ \ {s}] ELSE conn[d]]
    /\ place' = Drop(c, s)

\* A thread of server s that receives from server n, created for connection c
NewThread(s, n, c) == [on |-> s, from |-> n, own |-> c, at |-> "ready", sock |-> NULL]
Thread(t, new) == threads' = (threads \ {t}) \cup {new}

SetInit(s, n, b) == server' = [server EXCEPT ![s][n].init = b]

-----------------------------------------------------------------------------
(* The constructor: connecting to the others.                              *)

\* ConnectToServers begins with server 0.
Begin(s) ==
    /\ state[s] = "down"
    /\ starts < MaxStarts
    /\ starts' = starts + 1
    /\ state' = [state EXCEPT ![s] = "connecting"]
    /\ nextSrv' = [nextSrv EXCEPT ![s] = 0]
    /\ server' = [server EXCEPT ![s] = [n \in Number |-> IF n = s THEN Itself ELSE Unknown]]
    /\ UNCHANGED <<acceptor, sender, network, threads, messages>>

\* connect succeeds when the other server listens: that is after it has tried to connect
\* to all others itself.
Connect(s) ==
    LET n == nextSrv[s]
    IN  /\ state[s] = "connecting"
        /\ n \in Server
        /\ \/ /\ n # s
              /\ Running(n)
              /\ Len(conn) < MaxConn
              /\ conn' = Append(conn, [by |-> s, to |-> n, sent |-> FALSE, open |-> {s, n}])
              /\ pending' = [pending EXCEPT ![n] = Append(@, Len(conn) + 1)]
              /\ server' = [server EXCEPT ![s][n].sock = Len(conn) + 1]
              /\ state' = [state EXCEPT ![s] = "connected"]
              /\ UNCHANGED nextSrv
           \/ /\ n = s \/ ~ Running(n)
              /\ nextSrv' = [nextSrv EXCEPT ![s] = n + 1]
              /\ UNCHANGED <<state, server, network>>
        /\ UNCHANGED <<starts, acceptor, sender, threads, messages>>

\* The own number is sent, whatever send returns; a thread receives from the connection.
SendOwnNum(s) ==
    LET n == nextSrv[s]
        c == server[s][n].sock
    IN  /\ state[s] = "connected"
        /\ conn' = [conn EXCEPT ![c].sent = TRUE]
        /\ SetInit(s, n, TRUE)
        /\ threads' = threads \cup {NewThread(s, n, c)}
        /\ state' = [state EXCEPT ![s] = "connecting"]
        /\ nextSrv' = [nextSrv EXCEPT ![s] = n + 1]
        /\ UNCHANGED <<starts, acceptor, sender, pending, messages>>

\* WaitServerConn and Start
WaitServerConn(s) ==
    /\ state[s] = "connecting"
    /\ nextSrv[s] = Servers
    /\ state' = [state EXCEPT ![s] = "running"]
    /\ UNCHANGED <<nextSrv, starts, server, acceptor, sender, network, threads, messages>>

-----------------------------------------------------------------------------
(* The thread of AcceptConn.                                               *)

Accept(s) ==
    /\ acceptor[s].at = "accept"
    /\ pending[s] # <<>>
    /\ pending' = [pending EXCEPT ![s] = Tail(@)]
    /\ acceptor' = [acceptor EXCEPT ![s] = [@ EXCEPT !.at = "number", !.sock = Head(pending[s])]]
    /\ UNCHANGED <<control, server, sender, conn, threads, messages>>

\* Faulty variant: the number is 0 when recv fails
FindServerNumOrZero(s) ==
    LET c == acceptor[s].sock
    IN  /\ acceptor[s].at = "number"
        /\ \E n \in Number :
              /\ \/ n = conn[c].by /\ conn[c].sent
                 \/ n = 0 /\ conn[c].by \notin conn[c].open
              /\ acceptor' = [acceptor EXCEPT ![s] = [@ EXCEPT !.at = "init", !.from = n]]
        /\ UNCHANGED <<control, server, sender, network, threads, messages>>

\* FindServerNum waits for the number the other server sends.  When that one is gone, the
\* number may be lost; the result of recv is not looked at, and it stays INVALID_08.
FindServerNum(s) ==
    LET c == acceptor[s].sock
    IN  /\ acceptor[s].at = "number"
        /\ \E n \in Number :
              /\ \/ n = conn[c].by /\ conn[c].sent
                 \/ n = INVALID_08 /\ conn[c].by \notin conn[c].open
              /\ acceptor' = [acceptor EXCEPT ![s] = [@ EXCEPT !.at = "init", !.from = n]]
        /\ UNCHANGED <<control, server, sender, network, threads, messages>>

\* The new connection replaces whatever there was for this server.  There is no entry
\* INVALID_08: it stands for memory behind the table.
EnterInit(s) ==
    /\ acceptor[s].at = "init"
    /\ SetInit(s, acceptor[s].from, TRUE)
    /\ acceptor' = [acceptor EXCEPT ![s].at = "sock"]
    /\ UNCHANGED <<control, sender, network, threads, messages>>

EnterSock(s) ==
    /\ acceptor[s].at = "sock"
    /\ server' = [server EXCEPT ![s][acceptor[s].from].sock = acceptor[s].sock]
    /\ acceptor' = [acceptor EXCEPT ![s].at = "thread"]
    /\ UNCHANGED <<control, sender, network, threads, messages>>

\* Faulty variant: no thread receives from the connection
AcceptsOnly(s) ==
    /\ acceptor[s].at = "thread"
    /\ acceptor' = [acceptor EXCEPT ![s] = Accepting]
    /\ UNCHANGED <<control, server, sender, network, threads, messages>>

CreateThread(s) ==
    /\ acceptor[s].at = "thread"
    /\ threads' = threads \cup {NewThread(s, acceptor[s].from, acceptor[s].sock)}
    /\ acceptor' = [acceptor EXCEPT ![s] = Accepting]
    /\ UNCHANGED <<control, server, sender, network, messages>>

\* A crash closes the server's connections; its messages are lost.
Crash(s) ==
    /\ state[s] # "down"
    /\ state' = [state EXCEPT ![s] = "down"]
    /\ server' = [server EXCEPT ![s] = [n \in Number |-> Unknown]]
    /\ acceptor' = [acceptor EXCEPT ![s] = Accepting]
    /\ sender' = [sender EXCEPT ![s] = Silent]
    /\ conn' = [c \in DOMAIN conn |-> [conn[c] EXCEPT !.open = @ \ {s}]]
    /\ pending' = [pending EXCEPT ![s] = <<>>]
    /\ threads' = {t \in threads : t.on # s}
    /\ place' = [m \in Message |->
                    IF \/ place[m] = Mailbox(s)
                       \/ \E c \in Conn : m \in Begun(c, s) \/ place[m] = OnWire(c, s)
                    THEN Lost ELSE place[m]]
    /\ DiscardMsg
    /\ UNCHANGED <<nextSrv, starts, torn>>

-----------------------------------------------------------------------------
(* The receiving threads: Receive and ReceiveMsg.                          *)

\* recv is called, for a length or for a body, with the socket that is now in the table.
CallRecv(t) ==
    /\ t.at \in {"ready", "rest"}
    /\ Thread(t, [t EXCEPT !.at = IF t.at = "ready" THEN "length" ELSE "body",
                           !.sock = server[t.on][t.from].sock])
    /\ UNCHANGED <<control, server, acceptor, sender, network, messages>>

ReadLength(t) ==
    /\ t.at = "length"
    /\ <<t.sock, t.on>> \notin torn
    /\ \E m \in Coming(t.sock, t.on) :
          /\ place[m] = OnWire(t.sock, t.on)
          /\ place' = [place EXCEPT ![m] = Body(t.sock, t.on, t.own)]
    /\ Thread(t, [t EXCEPT !.at = "rest"])
    /\ UNCHANGED <<control, server, acceptor, sender, network, torn, msg>>

\* The message goes to the mailbox.
ReadBody(t) ==
    /\ t.at = "body"
    /\ <<t.sock, t.on>> \notin torn
    /\ \E m \in Coming(t.sock, t.on) :
          /\ place[m] = Body(t.sock, t.on, t.own)
          /\ place' = [place EXCEPT ![m] = Mailbox(t.on)]
    /\ Thread(t, [t EXCEPT !.at = "ready"])
    /\ UNCHANGED <<control, server, acceptor, sender, network, torn, msg>>

\* The bytes are not those the thread expects: another thread reads from the connection
\* too, or it has read the length from another one.  What it takes for a message has any
\* header, or it wants more than there is.
ReadTorn(t) ==
    /\ t.at \in {"length", "body"}
    /\ \E m \in Coming(t.sock, t.on) :
          /\ \/ <<t.sock, t.on>> \in torn
             \/ t.at = "length" /\ place[m] # OnWire(t.sock, t.on)
             \/ t.at = "body" /\ place[m] # Body(t.sock, t.on, t.own)
          /\ \/ /\ place' = [place EXCEPT ![m] = Mailbox(t.on)]
                /\ \E h \in Header : msg' = [msg EXCEPT ![m] = h]
                /\ Thread(t, [t EXCEPT !.at = "ready"])
             \/ /\ place' = [place EXCEPT ![m] = Lost]
                /\ Thread(t, [t EXCEPT !.at = "rest"])
                /\ DiscardMsg
    /\ torn' = torn \cup {<<t.sock, t.on>>}
    /\ UNCHANGED <<control, server, acceptor, sender, network>>

\* Faulty variant: the server is still taken for an active one
FailsUnnoticed(t) ==
    /\ t.at \in {"length", "body"}
    /\ Broken(t.sock)
    /\ place' = Drop(t.sock, t.on)
    /\ Thread(t, [t EXCEPT !.at = "close"])
    /\ DiscardMsg
    /\ UNCHANGED <<control, server, acceptor, sender, network, torn>>

\* The connection is closed: the server is not active ...
ReceiveFails(t) ==
    /\ t.at \in {"length", "body"}
    /\ Broken(t.sock)
    /\ SetInit(t.on, t.from, FALSE)
    /\ place' = Drop(t.sock, t.on)
    /\ Thread(t, [t EXCEPT !.at = "close"])
    /\ DiscardMsg
    /\ UNCHANGED <<control, acceptor, sender, network, torn>>

\* ... and the socket that is now in the table is closed.
Close(t) ==
    /\ t.at = "close"
    /\ CloseSocket(t.on, server[t.on][t.from].sock)
    /\ threads' = threads \ {t}
    /\ DiscardMsg
    /\ UNCHANGED <<control, server, acceptor, sender, pending, torn>>

-----------------------------------------------------------------------------
(* Messages.                                                               *)

\* An automate on s sends a message to an object; MSG_TO_GROUP names a server or none.
Send(m, s) ==
    /\ Running(s)
    /\ place[m] = <<"new">>
    /\ place' = [place EXCEPT ![m] = Mailbox(s)]
    /\ \E h \in Header : msg' = [msg EXCEPT ![m] = h]
    /\ UNCHANGED <<control, server, acceptor, sender, network, threads, torn>>

\* The first active server of an area, or none
GetActivSrv(s, area) ==
    LET active == {k \in DOMAIN area.compId : server[s][area.compId[k]].init}
    IN  IF active = {} THEN INVALID_08 ELSE area.compId[Min(active)]

\* Faulty variant: the last object of an area is not in it
SupportsBelowLast(s, o) ==
    \E k \in DOMAIN Area :
        /\ GetActivSrv(s, Area[k]) = s
        /\ o = INVALID_32 \/ o \in (Area[k].startId..Area[k].lastId) \ {Area[k].lastId}

IsSupported(s, o) ==
    \E k \in DOMAIN Area :
        /\ GetActivSrv(s, Area[k]) = s
        /\ o = INVALID_32 \/ o \in Area[k].startId..Area[k].lastId

\* The first server of the table that is active and not this one, or none
FirstSrv(s) ==
    LET others == {k \in DOMAIN Area : GetActivSrv(s, Area[k]) \notin {s, INVALID_08}}
    IN  IF others = {} THEN INVALID_08 ELSE GetActivSrv(s, Area[Min(others)])

\* SendMsgToServer: send succeeds as long as the own end is open; when the other one is
\* closed, the message is lost, or the failure is noticed.
SendMsgToServer(s, n, m) ==
    LET c == server[s][n].sock
    IN  \/ /\ s \in Open(c)
           /\ place' = [place EXCEPT ![m] = IF n \in Open(c) THEN OnWire(c, n) ELSE Lost]
           /\ UNCHANGED sender
        \/ /\ Broken(c)
           /\ place' = [place EXCEPT ![m] = Lost]
           /\ sender' = [sender EXCEPT ![s] = [at |-> "init", to |-> n]]

\* After a failure the server is not active, and the socket that is then in the table is
\* closed.
SendFails(s) ==
    /\ sender[s].at = "init"
    /\ SetInit(s, sender[s].to, FALSE)
    /\ sender' = [sender EXCEPT ![s].at = "close"]
    /\ UNCHANGED <<control, acceptor, network, threads, messages>>

SendCloses(s) ==
    /\ sender[s].at = "close"
    /\ CloseSocket(s, server[s][sender[s].to].sock)
    /\ sender' = [sender EXCEPT ![s] = Silent]
    /\ DiscardMsg
    /\ UNCHANGED <<control, server, acceptor, pending, threads, torn>>

\* The loop of Start.  A message of this server's group that it does not support, and
\* one for which no other server is active, is discarded.
Start(s, m) ==
    LET group == msg[m].group
        here  == group \in {s, INVALID_08} /\ IsSupported(s, msg[m].obj)
        other == IF group = INVALID_08 THEN FirstSrv(s) ELSE group
    IN  /\ Running(s)
        /\ sender[s].at = "idle"
        /\ place[m] = Mailbox(s)
        /\ \/ /\ here
              /\ place' = [place EXCEPT ![m] = Processed]
              /\ UNCHANGED sender
           \/ /\ ~ here
              /\ other \in {s, INVALID_08}
              /\ place' = [place EXCEPT ![m] = Lost]
              /\ UNCHANGED sender
           \/ /\ ~ here
              /\ other \notin {s, INVALID_08}
              /\ SendMsgToServer(s, other, m)
        /\ DiscardMsg
        /\ UNCHANGED <<control, server, acceptor, network, threads, torn>>

-----------------------------------------------------------------------------
(* The threads of a server.                                                *)

ConnectToServers(s) == Connect(s) \/ SendOwnNum(s) \/ WaitServerConn(s)

AcceptConn(s) == Accept(s) \/ FindServerNum(s) \/ EnterInit(s) \/ EnterSock(s) \/ CreateThread(s)

StartLoop(s, m) == Start(s, m) \/ SendFails(s) \/ SendCloses(s)

Receive(s, c) ==
    \E t \in threads :
        /\ t.on = s
        /\ t.own = c
        /\ \/ CallRecv(t)
           \/ ReadLength(t)
           \/ ReadBody(t)
           \/ ReadTorn(t)
           \/ ReceiveFails(t)
           \/ Close(t)

Next ==
    \E s \in Server :
        \/ Begin(s)
        \/ Crash(s)
        \/ ConnectToServers(s)
        \/ AcceptConn(s)
        \/ \E c \in Conn : Receive(s, c)
        \/ \E m \in Message : Send(m, s) \/ StartLoop(s, m)

Spec == Init /\ [][Next]_vars

\* Each thread of a server is scheduled until the server crashes; the loop of Start takes
\* every message that is in its mailbox.
FairSpec ==
    /\ Spec
    /\ \A s \in Server :
          /\ WF_vars(ConnectToServers(s))
          /\ WF_vars(AcceptConn(s))
          /\ \A c \in Conn : WF_vars(Receive(s, c))
          /\ \A m \in Message : WF_vars(StartLoop(s, m))

-----------------------------------------------------------------------------
(* Properties.                                                             *)

\* The variables have their types; a socket in the table is that of a connection that was
\* made between this server and the one it is entered for, also after connections were
\* replaced.  Behind the table there are only connections the other server has closed.
TypeOK ==
    /\ state \in [Server -> {"down", "connecting", "connected", "running"}]
    /\ nextSrv \in [Server -> 0..Servers]
    /\ \A c \in DOMAIN conn : conn[c].open \subseteq Peers(c)
    /\ \A s, n \in Server :
          LET c == server[s][n].sock
          IN  c # NULL => n # s /\ c \in DOMAIN conn /\ Peers(c) = {s, n}
    /\ \A s \in Server :
          LET c == server[s][INVALID_08].sock
          IN  c # NULL => c \in DOMAIN conn /\ conn[c].to = s /\ conn[c].open \subseteq {s}

\* A server that is taken for active is watched by a thread, which will notice the end
\* of the connection, or AcceptConn is about to create one, also when connections are
\* replaced (Distribution.cpp:224-229).
ActiveWatched ==
    \A s, n \in Server :
        s # n /\ server[s][n].init =>
            \/ \E t \in threads : t.on = s /\ t.from = n
            \/ acceptor[s].from = n

\* A server that is down is not taken for active for ever.
CrashNoticed ==
    \A s \in Server : \A n \in Server \ {s} :
        server[s][n].init /\ state[n] = "down" ~>
            ~ server[s][n].init \/ state[n] # "down" \/ state[s] = "down"

\* The object is in an area, or any will do.
InTable(o) == o = INVALID_32 \/ \E k \in DOMAIN Area : o \in Area[k].startId..Area[k].lastId

\* "It takes message from queue, find which autmate should process it and executes
\* processing" (Distribution.cpp:450): a message to an object of the table is processed or
\* lost, at the latest with the connection it is on, and not sent from server to server
\* for ever.
MessageHandled ==
    \A m \in Message :
        place[m] # <<"new">> ~>
            \/ place[m] \in {Processed, Lost}
            \/ place[m] # <<"new">> /\ ~ InTable(msg[m].obj)
            \/ \E c \in DOMAIN conn, s \in Server :
                  Broken(c) /\ (place[m] = OnWire(c, s) \/ m \in Begun(c, s))
=============================================================================
