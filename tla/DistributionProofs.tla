------------------------- MODULE DistributionProofs -------------------------
(***************************************************************************)
(* Proofs about Distribution for any number of servers, connections and    *)
(* messages and any table of areas.                                        *)
(*                                                                         *)
(* A socket in the table is of the right connection because every          *)
(* connection that is accepted was made to this server (Incoming), and the *)
(* number it is entered for is its maker's, or the maker is gone (Named).  *)
(*                                                                         *)
(* ActiveWatched is not inductive: the thread that watches a connection    *)
(* may be about to close it.  While a server is taken for active there is  *)
(* a thread that is still receiving, or about to be created (Watched),     *)
(* because a failure takes the server's entry back before the thread goes  *)
(* on to close.                                                            *)
(***************************************************************************)
EXTENDS Distribution, ProofLemmas

Connection == [by : Server, to : Server, sent : BOOLEAN, open : SUBSET Server]

ConnsTyped ==
    /\ conn \in Seq(Connection)
    /\ \A c \in DOMAIN conn : conn[c].open \subseteq Peers(c)

StatesTyped ==
    /\ state \in [Server -> {"down", "connecting", "connected", "running"}]
    /\ nextSrv \in [Server -> 0..Servers]
    /\ \A s \in Server : state[s] = "connected" => nextSrv[s] \in Server

\* Connection c was made to s; the other one has closed it.
Incoming(c, s) == c \in DOMAIN conn /\ conn[c].to = s /\ conn[c].by # s
Gone(c, s)     == c \in DOMAIN conn /\ conn[c].to = s /\ conn[c].open \subseteq {s}

\* What server s has of server n in its table, and behind it
Entries == [init : BOOLEAN, sock : Nat \cup {NULL}]

EntryJoins(s, n) ==
    server[s][n].sock # NULL =>
        n # s /\ server[s][n].sock \in DOMAIN conn /\ Peers(server[s][n].sock) = {s, n}

EntryGone(s) == server[s][INVALID_08].sock # NULL => Gone(server[s][INVALID_08].sock, s)

TableTyped ==
    /\ server \in [Server -> [Number -> Entries]]
    /\ \A s, n \in Server : EntryJoins(s, n)
    /\ \A s \in Server : EntryGone(s)

PendingTyped ==
    /\ pending \in [Server -> Seq(Nat)]
    /\ \A s \in Server : \A i \in DOMAIN pending[s] : Incoming(pending[s][i], s)

\* The thread of AcceptConn has a connection, and then a number.
Named(s) ==
    \/ acceptor[s].from = conn[acceptor[s].sock].by
    \/ acceptor[s].from = INVALID_08 /\ Gone(acceptor[s].sock, s)

Accepts(s) ==
    /\ acceptor[s].at # "accept" => Incoming(acceptor[s].sock, s)
    /\ acceptor[s].at \in {"init", "sock", "thread"} => Named(s)

AcceptorTyped ==
    /\ acceptor \in [Server -> [at : {"accept", "number", "init", "sock", "thread"},
                                sock : Nat \cup {NULL}, from : Number]]
    /\ \A s \in Server : Accepts(s)

SenderTyped == sender \in [Server -> [at : {"idle", "init", "close"}, to : Number]]

AThread == [on : Server, from : Number, own : Nat \cup {NULL},
            at : {"ready", "length", "rest", "body", "close"}, sock : Nat \cup {NULL}]

ThreadsTyped == threads \subseteq AThread

MsgTyped == msg \in [Message -> Header]

\* A thread of server s still receives from server n, or is about to be created.
Receives(s, n) == \E t \in threads : t.on = s /\ t.from = n /\ t.at # "close"
Creating(s, n) == acceptor[s].at \in {"sock", "thread"} /\ acceptor[s].from = n

Watched == \A s, n \in Server : s # n /\ server[s][n].init => Receives(s, n) \/ Creating(s, n)

DInv ==
    /\ ConnsTyped
    /\ StatesTyped
    /\ TableTyped
    /\ PendingTyped
    /\ AcceptorTyped
    /\ SenderTyped
    /\ ThreadsTyped
    /\ MsgTyped
    /\ Watched

-----------------------------------------------------------------------------
LEMMA InitDInv == Init => DInv
  <1> SUFFICES ASSUME Init PROVE DInv
    OBVIOUS
  <1> USE DistributionAssumption DEF Init
  <1>1. StatesTyped /\ ConnsTyped
    BY DEF StatesTyped, ConnsTyped, Server
  <1>2. TableTyped
    BY DEF TableTyped, EntryJoins, EntryGone, Entries, Unknown, Number
  <1>3. PendingTyped
    BY DEF PendingTyped
  <1>4. AcceptorTyped /\ SenderTyped
    BY DEF AcceptorTyped, Accepts, SenderTyped, Accepting, Silent, Number
  <1>5. ThreadsTyped /\ MsgTyped
    BY DEF ThreadsTyped, MsgTyped, Header, NoHeader, Number
  <1>6. Watched
    BY DEF Watched, Unknown, Number
  <1> QED
    BY <1>1, <1>2, <1>3, <1>4, <1>5, <1>6 DEF DInv

\* Connections come, and lose ends; between whom they were made stays.
Later ==
    /\ DOMAIN conn \subseteq DOMAIN conn'
    /\ \A c \in DOMAIN conn :
          conn'[c].by = conn[c].by /\ conn'[c].to = conn[c].to /\ conn'[c].open \subseteq conn[c].open

LEMMA SameLater == ASSUME UNCHANGED conn PROVE Later
  BY DEF Later

LEMMA IncomingKept == ASSUME Later, NEW c, NEW s, Incoming(c, s) PROVE Incoming(c, s)'
  BY DEF Later, Incoming

LEMMA GoneKept == ASSUME Later, NEW c, NEW s, Gone(c, s) PROVE Gone(c, s)'
  BY DEF Later, Gone

LEMMA EntryKept ==
  ASSUME Later, NEW s \in Server, NEW n \in Server, EntryJoins(s, n),
         server'[s][n].sock = server[s][n].sock
  PROVE  EntryJoins(s, n)'
  BY DEF Later, EntryJoins, Peers

LEMMA GoneEntryKept ==
  ASSUME Later, NEW s \in Server, EntryGone(s), server'[s][INVALID_08].sock = server[s][INVALID_08].sock
  PROVE  EntryGone(s)'
  BY GoneKept DEF EntryGone

\* A table with the same sockets
LEMMA TableKept ==
  ASSUME TableTyped, Later, server' \in [Server -> [Number -> Entries]],
         \A s \in Server : \A n \in Number : server'[s][n].sock = server[s][n].sock
  PROVE  TableTyped'
  <1>1. \A s, n \in Server : EntryJoins(s, n)'
    BY EntryKept DEF TableTyped, Number
  <1>2. \A s \in Server : EntryGone(s)'
    BY GoneEntryKept DEF TableTyped, Number
  <1> QED
    BY <1>1, <1>2 DEF TableTyped

LEMMA PendingKept ==
  ASSUME PendingTyped, Later, UNCHANGED pending
  PROVE  PendingTyped'
  BY IncomingKept DEF PendingTyped

\* What the thread of AcceptConn of s has stays right.
LEMMA AcceptsKept ==
  ASSUME Later, NEW s \in Server, Accepts(s), acceptor'[s] = acceptor[s]
  PROVE  Accepts(s)'
  <1>1. CASE acceptor[s].at = "accept"
    BY <1>1 DEF Accepts
  <1>2. CASE acceptor[s].at # "accept"
    <2>1. Incoming(acceptor[s].sock, s)'
      BY <1>2, IncomingKept DEF Accepts
    <2>2. ASSUME Named(s) PROVE Named(s)'
      <3>1. conn'[acceptor[s].sock].by = conn[acceptor[s].sock].by
        BY <1>2 DEF Accepts, Incoming, Later
      <3> QED
        BY <2>2, <3>1, GoneKept DEF Named
    <2> QED
      BY <2>1, <2>2 DEF Accepts
  <1> QED
    BY <1>1, <1>2

LEMMA AcceptorKept ==
  ASSUME AcceptorTyped, Later, UNCHANGED acceptor
  PROVE  AcceptorTyped'
  BY AcceptsKept DEF AcceptorTyped

\* An entry set to b
LEMMA SetInitTable ==
  ASSUME TableTyped, NEW s \in Server, NEW n \in Number, NEW b \in BOOLEAN, SetInit(s, n, b)
  PROVE  /\ server' \in [Server -> [Number -> Entries]]
         /\ \A r \in Server : \A k \in Number : server'[r][k].sock = server[r][k].sock
         /\ \A r \in Server : \A k \in Number :
               r # s \/ k # n => server'[r][k].init = server[r][k].init
         /\ server'[s][n].init = b
  <1>1. PICK e : e = [server[s][n] EXCEPT !.init = b]
    OBVIOUS
  <1>2. e \in Entries /\ e.init = b /\ e.sock = server[s][n].sock
    <2>1. server[s][n] \in Entries
      BY DEF TableTyped
    <2> QED
      BY <1>1, <2>1 DEF Entries
  <1>3. PICK g : g = [server[s] EXCEPT ![n] = e]
    OBVIOUS
  <1>4. /\ g \in [Number -> Entries]
        /\ g[n] = e
        /\ \A k \in Number : k # n => g[k] = server[s][k]
    BY <1>2, <1>3 DEF TableTyped
  <1>5. server' = [server EXCEPT ![s] = g]
    BY <1>1, <1>3 DEF SetInit
  <1> QED
    BY <1>2, <1>4, <1>5 DEF TableTyped

\* An entry that gets a socket
SetSock(s, n, c) == server' = [server EXCEPT ![s][n].sock = c]

LEMMA SetSockTable ==
  ASSUME TableTyped, NEW s \in Server, NEW n \in Number, NEW c \in Nat, SetSock(s, n, c)
  PROVE  /\ server' \in [Server -> [Number -> Entries]]
         /\ \A r \in Server : \A k \in Number : server'[r][k].init = server[r][k].init
         /\ \A r \in Server : \A k \in Number : r # s \/ k # n => server'[r][k].sock = server[r][k].sock
         /\ server'[s][n].sock = c
  <1>1. PICK e : e = [server[s][n] EXCEPT !.sock = c]
    OBVIOUS
  <1>2. e \in Entries /\ e.sock = c /\ e.init = server[s][n].init
    <2>1. server[s][n] \in Entries
      BY DEF TableTyped
    <2> QED
      BY <1>1, <2>1 DEF Entries
  <1>3. PICK g : g = [server[s] EXCEPT ![n] = e]
    OBVIOUS
  <1>4. /\ g \in [Number -> Entries]
        /\ g[n] = e
        /\ \A k \in Number : k # n => g[k] = server[s][k]
    BY <1>2, <1>3 DEF TableTyped
  <1>5. server' = [server EXCEPT ![s] = g]
    BY <1>1, <1>3 DEF SetSock
  <1> QED
    BY <1>2, <1>4, <1>5 DEF TableTyped

\* A step that takes entries back at most, and leaves those that receive or are created
LEMMA WatchedKept ==
  ASSUME Watched,
         \A s, n \in Server : server'[s][n].init => server[s][n].init,
         \A s, n \in Server : server'[s][n].init /\ Receives(s, n) => Receives(s, n)',
         UNCHANGED acceptor
  PROVE  Watched'
  BY DEF Watched, Creating

LEMMA SameReceives == ASSUME UNCHANGED threads PROVE \A s, n \in Server : Receives(s, n) => Receives(s, n)'
  BY DEF Receives

\* Server s closes a socket.
LEMMA CloseSocketLater ==
  ASSUME ConnsTyped, NEW s \in Server, NEW c, CloseSocket(s, c)
  PROVE  Later /\ ConnsTyped'
  <1>1. /\ DOMAIN conn' = DOMAIN conn
        /\ \A d \in DOMAIN conn : conn'[d] = IF d = c THEN [conn[d] EXCEPT !.open = @ \ {s}] ELSE conn[d]
    BY DEF CloseSocket
  <1>2. ASSUME NEW d \in DOMAIN conn
        PROVE  /\ conn'[d] \in Connection
               /\ conn'[d].by = conn[d].by /\ conn'[d].to = conn[d].to
               /\ conn'[d].open \subseteq conn[d].open
    <2>1. conn[d] \in Connection
      BY DEF ConnsTyped
    <2> QED
      BY <1>1, <2>1 DEF Connection
  <1>3. conn' \in Seq(Connection)
    <2>1. conn' = [d \in 1..Len(conn) |-> conn'[d]]
      BY DEF CloseSocket, ConnsTyped
    <2>2. Len(conn) \in Nat /\ DOMAIN conn = 1..Len(conn)
      BY DEF ConnsTyped
    <2> QED
      BY <1>2, <2>1, <2>2, IsASeq
  <1> QED
    BY <1>1, <1>2, <1>3 DEF Later, ConnsTyped, Peers

-----------------------------------------------------------------------------
(* Starting and connecting.                                                *)

LEMMA BeginDInv ==
  ASSUME DInv, NEW s \in Server, Begin(s)
  PROVE  DInv'
  <1> USE DEF DInv, Begin, network, messages
  <1>0. Later
    BY SameLater
  <1>1. StatesTyped' /\ ConnsTyped'
    BY DistributionAssumption DEF StatesTyped, ConnsTyped, Peers, Server
  <1>2. PendingTyped' /\ AcceptorTyped' /\ SenderTyped' /\ ThreadsTyped' /\ MsgTyped'
    BY <1>0, PendingKept, AcceptorKept DEF SenderTyped, ThreadsTyped, MsgTyped
  <1>3. /\ server' \in [Server -> [Number -> Entries]]
        /\ \A r \in Server : \A n \in Number : r # s => server'[r][n] = server[r][n]
        /\ \A n \in Number : server'[s][n].sock = NULL
        /\ \A n \in Number : n # s => ~ server'[s][n].init
    BY DEF TableTyped, Entries, Unknown, Itself
  <1>4. TableTyped'
    <2>1. UNCHANGED conn
      OBVIOUS
    <2>2. \A r, n \in Server : EntryJoins(r, n)'
      <3>1. \A r, n \in Server : r # s => server'[r][n].sock = server[r][n].sock
        BY <1>3 DEF Number
      <3>2. \A n \in Server : server'[s][n].sock = NULL
        BY <1>3 DEF Number
      <3> QED
        BY <1>0, <3>1, <3>2, EntryKept DEF TableTyped, EntryJoins
    <2>3. \A r \in Server : EntryGone(r)'
      <3>1. \A r \in Server : r # s => server'[r][INVALID_08].sock = server[r][INVALID_08].sock
        BY <1>3 DEF Number
      <3>2. server'[s][INVALID_08].sock = NULL
        BY <1>3 DEF Number
      <3> QED
        BY <1>0, <3>1, <3>2, GoneEntryKept DEF TableTyped, EntryGone
    <2> QED
      BY <1>3, <2>2, <2>3 DEF TableTyped
  <1>5. Watched'
    <2> HIDE DEF Begin
    <2>1. \A r, n \in Server : r # n /\ server'[r][n].init => server[r][n].init
      BY ONLY <1>3 DEF Number
    <2> QED
      BY <2>1, SMTT(40) DEF Begin, Watched, Receives, Creating
  <1> QED
    BY <1>1, <1>2, <1>4, <1>5

LEMMA ConnectDInv ==
  ASSUME DInv, NEW s \in Server, Connect(s)
  PROVE  DInv'
  <1>0. PICK n : n = nextSrv[s]
    OBVIOUS
  <1>1. n \in Server /\ UNCHANGED <<starts, acceptor, sender, threads, messages>>
    BY <1>0 DEF Connect
  <1>2. SenderTyped' /\ ThreadsTyped' /\ MsgTyped'
    BY <1>1 DEF DInv, SenderTyped, ThreadsTyped, MsgTyped, messages
  <1>3. CASE UNCHANGED <<state, server, network>>
    <2>1. StatesTyped'
      <3>1. nextSrv' = [nextSrv EXCEPT ![s] = n + 1] /\ state[s] = "connecting"
        <4>1. CASE UNCHANGED nextSrv
          <5>1. state' = [state EXCEPT ![s] = "connected"] /\ state[s] = "connecting"
            BY <1>0, <1>1, <4>1, DistributionAssumption DEF Connect, Server, DInv, StatesTyped
          <5> QED
            BY <1>3, <5>1 DEF DInv, StatesTyped
        <4>2. CASE ~ UNCHANGED nextSrv
          BY <1>0, <4>2 DEF Connect
        <4> QED
          BY <4>1, <4>2
      <3>2. n + 1 \in 0..Servers
        BY <1>1, DistributionAssumption DEF Server
      <3> QED
        BY <1>3, <3>1, <3>2 DEF DInv, StatesTyped
    <2>2. Later /\ ConnsTyped'
      BY <1>3, SameLater DEF DInv, ConnsTyped, Peers, network
    <2>3. TableTyped' /\ PendingTyped' /\ AcceptorTyped'
      BY <1>1, <1>3, <2>2, TableKept, PendingKept, AcceptorKept DEF DInv, TableTyped, network
    <2>4. Watched'
      BY <1>1, <1>3, WatchedKept, SameReceives DEF DInv
    <2> QED
      BY <1>2, <2>1, <2>2, <2>3, <2>4 DEF DInv
  <1>4. CASE ~ UNCHANGED <<state, server, network>>
    <2>0. PICK c : c = Len(conn) + 1
      OBVIOUS
    <2>1. PICK new : new = [by |-> s, to |-> n, sent |-> FALSE, open |-> {s, n}]
      OBVIOUS
    <2>2. /\ n # s
          /\ conn' = Append(conn, new)
          /\ pending' = [pending EXCEPT ![n] = Append(@, c)]
          /\ server' = [server EXCEPT ![s][n].sock = c]
          /\ state' = [state EXCEPT ![s] = "connected"]
          /\ UNCHANGED nextSrv
      BY <1>0, <1>4, <2>0, <2>1 DEF Connect
    <2>3. StatesTyped'
      BY <1>0, <1>1, <2>2 DEF DInv, StatesTyped
    <2>4. new \in Connection
      BY <1>1, <2>1 DEF Connection
    <2>5. /\ c \in Nat
          /\ c \in DOMAIN conn' /\ conn'[c] = new
          /\ conn' \in Seq(Connection)
          /\ \A d \in DOMAIN conn : d \in DOMAIN conn' /\ conn'[d] = conn[d]
          /\ \A d \in DOMAIN conn' : d \in DOMAIN conn \/ d = c
      BY <2>0, <2>2, <2>4 DEF DInv, ConnsTyped
    <2>6. Later /\ ConnsTyped'
      BY <2>1, <2>5 DEF DInv, ConnsTyped, Peers, Later
    <2>7. Incoming(c, n)' /\ Peers(c)' = {s, n}
      BY <2>1, <2>2, <2>5 DEF Incoming, Peers
    <2>8. /\ server' \in [Server -> [Number -> Entries]]
          /\ server'[s][n].sock = c
          /\ \A r \in Server : \A m \in Number : server'[r][m].init = server[r][m].init
          /\ \A r \in Server : \A m \in Number :
                r # s \/ m # n => server'[r][m].sock = server[r][m].sock
      <3>1. TableTyped /\ SetSock(s, n, c) /\ n \in Number /\ c \in Nat
        BY <1>1, <2>2, <2>5 DEF DInv, Number, SetSock
      <3> QED
        BY <3>1, SetSockTable
    <2>9. TableTyped'
      <3>1. \A r, m \in Server : EntryJoins(r, m)'
        <4> SUFFICES ASSUME NEW r \in Server, NEW m \in Server PROVE EntryJoins(r, m)'
          OBVIOUS
        <4>1. CASE r = s /\ m = n
          BY <2>2, <2>5, <2>7, <2>8, <4>1 DEF EntryJoins
        <4>2. CASE ~ (r = s /\ m = n)
          BY <2>6, <2>8, <4>2, EntryKept DEF DInv, TableTyped, Number
        <4> QED
          BY <4>1, <4>2
      <3>2. \A r \in Server : EntryGone(r)'
        <4>1. \A r \in Server : server'[r][INVALID_08].sock = server[r][INVALID_08].sock
          BY <1>1, <2>8, DistributionAssumption DEF Number
        <4> QED
          BY <2>6, <4>1, GoneEntryKept DEF DInv, TableTyped
      <3> QED
        BY <2>8, <3>1, <3>2 DEF TableTyped
    <2>10. PendingTyped'
      <3>1. pending' \in [Server -> Seq(Nat)]
        BY <1>1, <2>2, <2>5 DEF DInv, PendingTyped
      <3>2. ASSUME NEW r \in Server, NEW i \in DOMAIN pending'[r]
            PROVE  Incoming(pending[r][i], r)'
        <4>1. pending[r] \in Seq(Nat)
          BY DEF DInv, PendingTyped
        <4>2. CASE i \in DOMAIN pending[r]
          <5>1. pending'[r][i] = pending[r][i] /\ Incoming(pending[r][i], r)
            BY <2>2, <4>1, <4>2 DEF DInv, PendingTyped
          <5>2. PICK d : d = pending[r][i]
            OBVIOUS
          <5>3. Incoming(d, r)'
            BY <2>6, <5>1, <5>2, IncomingKept
          <5> QED
            BY <5>1, <5>2, <5>3
        <4>3. CASE i \notin DOMAIN pending[r]
          <5>1. r = n /\ pending'[r][i] = c
            BY <2>2, <4>1, <4>3 DEF DInv, PendingTyped
          <5> QED
            BY <2>7, <5>1
        <4> QED
          BY <4>2, <4>3
      <3> QED
        BY <3>1, <3>2 DEF PendingTyped
    <2>11. AcceptorTyped'
      BY <1>1, <2>6, AcceptorKept DEF DInv
    <2>12. Watched'
      <3>1. \A r, m \in Server : server'[r][m].init => server[r][m].init
        BY <2>8 DEF Number
      <3> QED
        BY <1>1, <3>1, WatchedKept, SameReceives DEF DInv
    <2> QED
      BY <1>2, <2>3, <2>6, <2>9, <2>10, <2>11, <2>12 DEF DInv
  <1> QED
    BY <1>3, <1>4

\* A thread for server n, created by s
LEMMA NewThreadWatches ==
  ASSUME ThreadsTyped, NEW s \in Server, NEW n \in Number, NEW c \in Nat \cup {NULL},
         threads' = threads \cup {NewThread(s, n, c)}
  PROVE  /\ ThreadsTyped'
         /\ Receives(s, n)'
         /\ \A r, m \in Server : Receives(r, m) => Receives(r, m)'
  <1>1. PICK t : t = NewThread(s, n, c)
    OBVIOUS
  <1>2. t \in AThread /\ t.on = s /\ t.from = n /\ t.at # "close"
    BY <1>1 DEF NewThread, AThread
  <1>3. threads' = threads \cup {t}
    BY <1>1
  <1>4. ThreadsTyped'
    BY <1>2, <1>3 DEF ThreadsTyped
  <1>5. Receives(s, n)'
    BY <1>2, <1>3 DEF Receives
  <1>6. \A r, m \in Server : Receives(r, m) => Receives(r, m)'
    BY <1>3 DEF Receives
  <1> QED
    BY <1>4, <1>5, <1>6

LEMMA SendOwnNumDInv ==
  ASSUME DInv, NEW s \in Server, SendOwnNum(s)
  PROVE  DInv'
  <1>0. PICK n, c : n = nextSrv[s] /\ c = server[s][n].sock
    OBVIOUS
  <1>1. /\ state[s] = "connected"
        /\ conn' = [conn EXCEPT ![c].sent = TRUE]
        /\ SetInit(s, n, TRUE)
        /\ threads' = threads \cup {NewThread(s, n, c)}
        /\ state' = [state EXCEPT ![s] = "connecting"]
        /\ nextSrv' = [nextSrv EXCEPT ![s] = n + 1]
        /\ UNCHANGED <<starts, acceptor, sender, pending, messages>>
    BY <1>0 DEF SendOwnNum
  <1>2. n \in Server /\ n \in Number
    BY <1>0, <1>1 DEF DInv, StatesTyped, Number
  <1>3. c \in Nat \cup {NULL}
    BY <1>0, <1>2 DEF DInv, TableTyped, Entries
  <1>4. StatesTyped'
    BY <1>1, <1>2, DistributionAssumption DEF DInv, StatesTyped, Server
  <1>5. Later /\ ConnsTyped'
    <2>1. ASSUME NEW d \in DOMAIN conn
          PROVE  /\ conn'[d] \in Connection
                 /\ conn'[d].by = conn[d].by /\ conn'[d].to = conn[d].to
                 /\ conn'[d].open = conn[d].open
      <3>1. conn[d] \in Connection
        BY DEF DInv, ConnsTyped
      <3>2. conn'[d] = IF d = c THEN [conn[d] EXCEPT !.sent = TRUE] ELSE conn[d]
        BY <1>1 DEF DInv, ConnsTyped
      <3> QED
        BY <3>1, <3>2 DEF Connection
    <2>2. DOMAIN conn' = DOMAIN conn /\ DOMAIN conn = 1..Len(conn) /\ Len(conn) \in Nat
      BY <1>1 DEF DInv, ConnsTyped
    <2>3. conn' = [d \in 1..Len(conn) |-> conn'[d]]
      BY <1>1, <2>2
    <2>4. conn' \in Seq(Connection)
      BY <2>1, <2>2, <2>3, IsASeq
    <2> QED
      BY <2>1, <2>2, <2>4 DEF DInv, ConnsTyped, Later, Peers
  <1>6. /\ server' \in [Server -> [Number -> Entries]]
        /\ \A r \in Server : \A k \in Number : server'[r][k].sock = server[r][k].sock
        /\ \A r \in Server : \A k \in Number :
              r # s \/ k # n => server'[r][k].init = server[r][k].init
    BY <1>1, <1>2, SetInitTable DEF DInv
  <1>7. TableTyped' /\ PendingTyped' /\ AcceptorTyped'
    BY <1>1, <1>5, <1>6, TableKept, PendingKept, AcceptorKept DEF DInv
  <1>8. /\ ThreadsTyped'
        /\ Receives(s, n)'
        /\ \A r, m \in Server : Receives(r, m) => Receives(r, m)'
    BY <1>1, <1>2, <1>3, NewThreadWatches DEF DInv
  <1>9. Watched'
    <2> SUFFICES ASSUME NEW r \in Server, NEW m \in Server, r # m, server'[r][m].init
                 PROVE  Receives(r, m)' \/ Creating(r, m)'
      BY DEF Watched
    <2>1. CASE r = s /\ m = n
      BY <1>8, <2>1
    <2>2. CASE ~ (r = s /\ m = n)
      <3>1. server[r][m].init
        BY <1>6, <2>2 DEF Number
      <3>2. Receives(r, m) \/ Creating(r, m)
        BY <3>1 DEF DInv, Watched
      <3>3. Creating(r, m) => Creating(r, m)'
        BY <1>1 DEF Creating
      <3> QED
        BY <1>8, <3>2, <3>3
    <2> QED
      BY <2>1, <2>2
  <1>10. SenderTyped' /\ MsgTyped'
    BY <1>1 DEF DInv, SenderTyped, MsgTyped, messages
  <1> QED
    BY <1>4, <1>5, <1>7, <1>8, <1>9, <1>10 DEF DInv

\* Only the state of a server changes.
LEMMA WaitServerConnDInv ==
  ASSUME DInv, NEW s \in Server, WaitServerConn(s)
  PROVE  DInv'
  <1> USE DEF DInv, WaitServerConn, network, messages
  <1>1. Later /\ ConnsTyped'
    BY SameLater DEF ConnsTyped, Peers
  <1>2. StatesTyped'
    BY DEF StatesTyped
  <1>3. TableTyped' /\ PendingTyped' /\ AcceptorTyped'
    BY <1>1, TableKept, PendingKept, AcceptorKept DEF TableTyped
  <1>4. SenderTyped' /\ ThreadsTyped' /\ MsgTyped'
    BY DEF SenderTyped, ThreadsTyped, MsgTyped
  <1>5. Watched'
    BY WatchedKept, SameReceives
  <1> QED
    BY <1>1, <1>2, <1>3, <1>4, <1>5

-----------------------------------------------------------------------------
(* The thread of AcceptConn.                                               *)

\* A step of that thread of s that leaves connections, table and threads alone
LEMMA AcceptorGoesOn ==
  ASSUME DInv, NEW s \in Server, NEW e \in [at : {"accept", "number", "init", "sock", "thread"},
                                            sock : Nat \cup {NULL}, from : Number],
         acceptor' = [acceptor EXCEPT ![s] = e], UNCHANGED conn, Accepts(s)'
  PROVE  AcceptorTyped'
  <1>1. \A r \in Server : Accepts(r)'
    <2> SUFFICES ASSUME NEW r \in Server, r # s PROVE Accepts(r)'
      OBVIOUS
    <2>1. acceptor'[r] = acceptor[r]
      BY DEF DInv, AcceptorTyped
    <2> QED
      BY <2>1, SameLater, AcceptsKept DEF DInv, AcceptorTyped
  <1> QED
    BY <1>1 DEF DInv, AcceptorTyped

LEMMA AcceptDInv ==
  ASSUME DInv, NEW s \in Server, Accept(s)
  PROVE  DInv'
  <1> USE DEF Accept
  <1>0. PICK c : c = Head(pending[s])
    OBVIOUS
  <1>1. /\ pending[s] \in Seq(Nat) /\ pending[s] # <<>>
        /\ c = pending[s][1] /\ 1 \in DOMAIN pending[s]
        /\ c \in Nat
        /\ Tail(pending[s]) \in Seq(Nat)
    BY <1>0 DEF DInv, PendingTyped
  <1>2. Incoming(c, s)
    BY <1>1 DEF DInv, PendingTyped
  <1>3. PICK e : e = [acceptor[s] EXCEPT !.at = "number", !.sock = c]
    OBVIOUS
  <1>4. acceptor' = [acceptor EXCEPT ![s] = e]
    BY <1>0, <1>3
  <1>5. /\ e \in [at : {"accept", "number", "init", "sock", "thread"}, sock : Nat \cup {NULL},
                  from : Number]
        /\ e.at = "number" /\ e.sock = c
    BY <1>1, <1>3 DEF DInv, AcceptorTyped
  <1>6. acceptor'[s] = e /\ \A r \in Server : r # s => acceptor'[r] = acceptor[r]
    BY <1>4 DEF DInv, AcceptorTyped
  <1>7. AcceptorTyped'
    <2>1. Accepts(s)'
      BY <1>2, <1>5, <1>6 DEF Accepts, Incoming
    <2> QED
      BY <1>4, <1>5, <2>1, AcceptorGoesOn
  <1>8. PendingTyped'
    <2>1. pending' \in [Server -> Seq(Nat)]
      BY <1>1 DEF DInv, PendingTyped
    <2>2. ASSUME NEW r \in Server, NEW i \in DOMAIN pending'[r]
          PROVE  Incoming(pending[r][i], r)'
      <3>1. PICK j \in DOMAIN pending[r] : pending'[r][i] = pending[r][j]
        <4>1. CASE r = s
          <5>0. PICK q \in Seq(Nat) : q = pending[s]
            BY <1>1
          <5>1. q # <<>> /\ i \in DOMAIN Tail(q) /\ pending'[r][i] = Tail(q)[i]
            BY <1>1, <4>1, <5>0 DEF DInv, PendingTyped
          <5>2. i + 1 \in DOMAIN q /\ Tail(q)[i] = q[i + 1]
            BY <5>1
          <5> QED
            BY <4>1, <5>0, <5>1, <5>2
        <4>2. CASE r # s
          BY <4>2 DEF DInv, PendingTyped
        <4> QED
          BY <4>1, <4>2
      <3>2. Incoming(pending[r][j], r)
        BY DEF DInv, PendingTyped
      <3> QED
        BY <3>1, <3>2 DEF Incoming
    <2> QED
      BY <2>1, <2>2 DEF PendingTyped
  <1>9. Watched'
    BY <1>5, <1>6 DEF DInv, Watched, Receives, Creating
  <1>10. /\ ConnsTyped' /\ StatesTyped' /\ SenderTyped' /\ ThreadsTyped' /\ MsgTyped'
    BY DEF DInv, ConnsTyped, Peers, StatesTyped, SenderTyped, ThreadsTyped, MsgTyped, control, messages
  <1>11. TableTyped'
    BY SameLater, TableKept DEF DInv, TableTyped
  <1> QED
    BY <1>7, <1>8, <1>9, <1>10, <1>11 DEF DInv

LEMMA FindServerNumDInv ==
  ASSUME DInv, NEW s \in Server, FindServerNum(s)
  PROVE  DInv'
  <1>0. PICK c : c = acceptor[s].sock
    OBVIOUS
  <1>1. PICK n \in Number :
            /\ \/ n = conn[c].by
               \/ n = INVALID_08 /\ conn[c].by \notin conn[c].open
            /\ acceptor' = [acceptor EXCEPT ![s] = [@ EXCEPT !.at = "init", !.from = n]]
    BY <1>0 DEF FindServerNum
  <1>2. /\ acceptor[s].at = "number"
        /\ UNCHANGED <<control, server, sender, network, threads, messages>>
    BY DEF FindServerNum
  <1>3. PICK e : e = [acceptor[s] EXCEPT !.at = "init", !.from = n]
    OBVIOUS
  <1>4. acceptor' = [acceptor EXCEPT ![s] = e]
    BY <1>1, <1>3
  <1>5. /\ e \in [at : {"accept", "number", "init", "sock", "thread"}, sock : Nat \cup {NULL},
                  from : Number]
        /\ e.at = "init" /\ e.sock = c /\ e.from = n
    BY <1>0, <1>3 DEF DInv, AcceptorTyped
  <1>6. acceptor'[s] = e /\ \A r \in Server : r # s => acceptor'[r] = acceptor[r]
    BY <1>4 DEF DInv, AcceptorTyped
  <1>7. Incoming(c, s)
    BY <1>0, <1>2 DEF DInv, AcceptorTyped, Accepts
  <1>8. conn[c].open \subseteq Peers(c)
    BY <1>7 DEF DInv, ConnsTyped, Incoming
  <1>9. AcceptorTyped'
    <2>1. conn' = conn
      BY <1>2 DEF network
    <2>2. n = conn'[c].by \/ (n = INVALID_08 /\ Gone(c, s)')
      BY <1>1, <1>7, <1>8, <2>1 DEF Gone, Incoming, Peers
    <2>3. Accepts(s)'
      BY <1>5, <1>6, <1>7, <2>1, <2>2 DEF Accepts, Named, Incoming
    <2> QED
      BY <1>4, <1>5, <2>1, <2>3, AcceptorGoesOn
  <1>10. Watched'
    BY <1>2, <1>5, <1>6 DEF DInv, Watched, Receives, Creating
  <1>11. /\ ConnsTyped' /\ StatesTyped' /\ SenderTyped' /\ ThreadsTyped' /\ MsgTyped'
    BY <1>2 DEF DInv, ConnsTyped, Peers, StatesTyped, SenderTyped, ThreadsTyped, MsgTyped,
                control, messages, network
  <1>12. TableTyped' /\ PendingTyped'
    BY <1>2, SameLater, TableKept, PendingKept DEF DInv, TableTyped, network
  <1> QED
    BY <1>9, <1>10, <1>11, <1>12 DEF DInv

\* From here on the thread of AcceptConn is creating a thread that watches the server.
LEMMA EnterInitDInv ==
  ASSUME DInv, NEW s \in Server, EnterInit(s)
  PROVE  DInv'
  <1>0. PICK n, c : n = acceptor[s].from /\ c = acceptor[s].sock
    OBVIOUS
  <1>1. /\ acceptor[s].at = "init"
        /\ SetInit(s, n, TRUE)
        /\ acceptor' = [acceptor EXCEPT ![s].at = "sock"]
        /\ UNCHANGED <<control, sender, network, threads, messages>>
    BY <1>0 DEF EnterInit
  <1>2. n \in Number /\ Accepts(s)
    BY <1>0 DEF DInv, AcceptorTyped
  <1>3. PICK e : e = [acceptor[s] EXCEPT !.at = "sock"]
    OBVIOUS
  <1>4. acceptor' = [acceptor EXCEPT ![s] = e]
    BY <1>1, <1>3
  <1>5. /\ e \in [at : {"accept", "number", "init", "sock", "thread"}, sock : Nat \cup {NULL},
                  from : Number]
        /\ e.at = "sock" /\ e.sock = c /\ e.from = n
    BY <1>0, <1>3 DEF DInv, AcceptorTyped
  <1>6. acceptor'[s] = e /\ \A r \in Server : r # s => acceptor'[r] = acceptor[r]
    BY <1>4 DEF DInv, AcceptorTyped
  <1>7. conn' = conn
    BY <1>1 DEF network
  <1>8. AcceptorTyped'
    <2>1. Accepts(s)'
      BY <1>0, <1>1, <1>2, <1>5, <1>6, <1>7 DEF Accepts, Named, Incoming, Gone
    <2> QED
      BY <1>4, <1>5, <1>7, <2>1, AcceptorGoesOn
  <1>9. /\ server' \in [Server -> [Number -> Entries]]
        /\ \A r \in Server : \A k \in Number : server'[r][k].sock = server[r][k].sock
        /\ \A r \in Server : \A k \in Number :
              r # s \/ k # n => server'[r][k].init = server[r][k].init
    BY <1>1, <1>2, SetInitTable DEF DInv
  <1>10. Watched'
    <2> SUFFICES ASSUME NEW r \in Server, NEW m \in Server, r # m, server'[r][m].init
                 PROVE  Receives(r, m)' \/ Creating(r, m)'
      BY DEF Watched
    <2>1. CASE r = s /\ m = n
      BY <1>5, <1>6, <2>1 DEF Creating
    <2>2. CASE ~ (r = s /\ m = n)
      <3>1. server[r][m].init
        BY <1>9, <2>2 DEF Number
      <3>2. Receives(r, m) \/ Creating(r, m)
        BY <3>1 DEF DInv, Watched
      <3>3. Receives(r, m) => Receives(r, m)'
        BY <1>1, SameReceives
      <3>4. Creating(r, m) => Creating(r, m)'
        BY <1>1, <1>6 DEF Creating
      <3> QED
        BY <3>2, <3>3, <3>4
    <2> QED
      BY <2>1, <2>2
  <1>11. TableTyped' /\ PendingTyped'
    BY <1>1, <1>7, <1>9, SameLater, TableKept, PendingKept DEF DInv, network
  <1>12. /\ ConnsTyped' /\ StatesTyped' /\ SenderTyped' /\ ThreadsTyped' /\ MsgTyped'
    BY <1>1 DEF DInv, ConnsTyped, Peers, StatesTyped, SenderTyped, ThreadsTyped, MsgTyped,
                control, messages, network
  <1> QED
    BY <1>8, <1>10, <1>11, <1>12 DEF DInv

LEMMA EnterSockDInv ==
  ASSUME DInv, NEW s \in Server, EnterSock(s)
  PROVE  DInv'
  <1>0. PICK n, c : n = acceptor[s].from /\ c = acceptor[s].sock
    OBVIOUS
  <1>1. /\ acceptor[s].at = "sock"
        /\ server' = [server EXCEPT ![s][n].sock = c]
        /\ acceptor' = [acceptor EXCEPT ![s].at = "thread"]
        /\ UNCHANGED <<control, sender, network, threads, messages>>
    BY <1>0 DEF EnterSock
  <1>2. n \in Number /\ Accepts(s)
    BY <1>0 DEF DInv, AcceptorTyped
  <1>3. Incoming(c, s) /\ Named(s)
    BY <1>0, <1>1, <1>2 DEF Accepts
  <1>4. conn' = conn
    BY <1>1 DEF network
  <1>5. c \in Nat
    BY <1>3 DEF Incoming, DInv, ConnsTyped
  <1>6. PICK e : e = [acceptor[s] EXCEPT !.at = "thread"]
    OBVIOUS
  <1>7. acceptor' = [acceptor EXCEPT ![s] = e]
    BY <1>1, <1>6
  <1>8. /\ e \in [at : {"accept", "number", "init", "sock", "thread"}, sock : Nat \cup {NULL},
                  from : Number]
        /\ e.at = "thread" /\ e.sock = c /\ e.from = n
    BY <1>0, <1>6 DEF DInv, AcceptorTyped
  <1>9. acceptor'[s] = e /\ \A r \in Server : r # s => acceptor'[r] = acceptor[r]
    BY <1>7 DEF DInv, AcceptorTyped
  <1>10. AcceptorTyped'
    <2>1. Accepts(s)'
      BY <1>0, <1>3, <1>4, <1>8, <1>9 DEF Accepts, Named, Incoming, Gone
    <2> QED
      BY <1>4, <1>7, <1>8, <2>1, AcceptorGoesOn
  <1>11. /\ server' \in [Server -> [Number -> Entries]]
         /\ \A r \in Server : \A k \in Number : server'[r][k].init = server[r][k].init
         /\ \A r \in Server : \A k \in Number :
               r # s \/ k # n => server'[r][k].sock = server[r][k].sock
         /\ server'[s][n].sock = c
    <2>1. TableTyped /\ SetSock(s, n, c)
      BY <1>1 DEF DInv, SetSock
    <2> QED
      BY <1>2, <1>5, <2>1, SetSockTable
  <1>12. TableTyped'
    <2>1. \A r, m \in Server : EntryJoins(r, m)'
      <3> SUFFICES ASSUME NEW r \in Server, NEW m \in Server PROVE EntryJoins(r, m)'
        OBVIOUS
      <3>1. CASE r = s /\ m = n
        <4>1. n = conn[c].by
          BY <1>0, <1>3, <3>1, DistributionAssumption DEF Named
        <4> QED
          BY <1>3, <1>4, <1>11, <3>1, <4>1 DEF EntryJoins, Incoming, Peers
      <3>2. CASE ~ (r = s /\ m = n)
        BY <1>4, <1>11, <3>2, SameLater, EntryKept DEF DInv, TableTyped, Number
      <3> QED
        BY <3>1, <3>2
    <2>2. \A r \in Server : EntryGone(r)'
      <3> SUFFICES ASSUME NEW r \in Server PROVE EntryGone(r)'
        OBVIOUS
      <3>1. CASE r = s /\ n = INVALID_08
        <4>1. Gone(c, s)
          <5>1. conn[c] \in Connection
            BY <1>3 DEF Incoming, DInv, ConnsTyped
          <5>2. conn[c].by # INVALID_08
            BY <5>1, DistributionAssumption DEF Connection
          <5> QED
            BY <1>0, <1>3, <3>1, <5>2 DEF Named
        <4> QED
          BY <1>4, <1>11, <3>1, <4>1 DEF EntryGone, Gone
      <3>2. CASE ~ (r = s /\ n = INVALID_08)
        <4>1. server'[r][INVALID_08].sock = server[r][INVALID_08].sock
          BY <1>11, <3>2 DEF Number
        <4> QED
          BY <1>4, <4>1, SameLater, GoneEntryKept DEF DInv, TableTyped
      <3> QED
        BY <3>1, <3>2
    <2> QED
      BY <1>11, <2>1, <2>2 DEF TableTyped
  <1>13. Watched'
    <2> SUFFICES ASSUME NEW r \in Server, NEW m \in Server, r # m, server'[r][m].init
                 PROVE  Receives(r, m)' \/ Creating(r, m)'
      BY DEF Watched
    <2>1. Receives(r, m) \/ Creating(r, m)
      BY <1>11 DEF DInv, Watched, Number
    <2>2. Receives(r, m) => Receives(r, m)'
      BY <1>1, SameReceives
    <2>3. Creating(r, m) => Creating(r, m)'
      BY <1>0, <1>8, <1>9 DEF Creating
    <2> QED
      BY <2>1, <2>2, <2>3
  <1>14. PendingTyped'
    BY <1>1, <1>4, SameLater, PendingKept DEF DInv, network
  <1>15. /\ ConnsTyped' /\ StatesTyped' /\ SenderTyped' /\ ThreadsTyped' /\ MsgTyped'
    BY <1>1 DEF DInv, ConnsTyped, Peers, StatesTyped, SenderTyped, ThreadsTyped, MsgTyped,
                control, messages, network
  <1> QED
    BY <1>10, <1>12, <1>13, <1>14, <1>15 DEF DInv

LEMMA CreateThreadDInv ==
  ASSUME DInv, NEW s \in Server, CreateThread(s)
  PROVE  DInv'
  <1>0. PICK n, c : n = acceptor[s].from /\ c = acceptor[s].sock
    OBVIOUS
  <1>1. /\ acceptor[s].at = "thread"
        /\ threads' = threads \cup {NewThread(s, n, c)}
        /\ acceptor' = [acceptor EXCEPT ![s] = Accepting]
        /\ UNCHANGED <<control, server, sender, network, messages>>
    BY <1>0 DEF CreateThread
  <1>2. n \in Number /\ c \in Nat \cup {NULL}
    BY <1>0 DEF DInv, AcceptorTyped
  <1>3. /\ acceptor'[s] = Accepting
        /\ \A r \in Server : r # s => acceptor'[r] = acceptor[r]
    BY <1>1 DEF DInv, AcceptorTyped
  <1>4. Later /\ UNCHANGED conn
    BY <1>1, SameLater DEF network
  <1>5. AcceptorTyped'
    <2>1. Accepting \in [at : {"accept", "number", "init", "sock", "thread"},
                         sock : Nat \cup {NULL}, from : Number]
      BY DEF Accepting, Number
    <2>2. Accepts(s)'
      BY <1>3 DEF Accepts, Accepting
    <2> QED
      BY <1>1, <1>4, <2>1, <2>2, AcceptorGoesOn
  <1>6. /\ ThreadsTyped'
        /\ Receives(s, n)'
        /\ \A r, m \in Server : Receives(r, m) => Receives(r, m)'
    BY <1>1, <1>2, NewThreadWatches DEF DInv
  <1>7. Watched'
    <2> SUFFICES ASSUME NEW r \in Server, NEW m \in Server, r # m, server'[r][m].init
                 PROVE  Receives(r, m)' \/ Creating(r, m)'
      BY DEF Watched
    <2>1. Receives(r, m) \/ Creating(r, m)
      BY <1>1 DEF DInv, Watched
    <2>2. CASE r = s /\ m = n
      BY <1>6, <2>2
    <2>3. CASE ~ (r = s /\ m = n)
      BY <1>0, <1>3, <1>6, <2>1, <2>3 DEF Creating
    <2> QED
      BY <2>2, <2>3
  <1>8. TableTyped' /\ PendingTyped'
    BY <1>1, <1>4, TableKept, PendingKept DEF DInv, TableTyped, network
  <1>9. /\ ConnsTyped' /\ StatesTyped' /\ SenderTyped' /\ MsgTyped'
    BY <1>1 DEF DInv, ConnsTyped, Peers, StatesTyped, SenderTyped, MsgTyped, control, messages, network
  <1> QED
    BY <1>5, <1>6, <1>7, <1>8, <1>9 DEF DInv

-----------------------------------------------------------------------------
(* Crashes and the receiving threads.                                      *)

\* A message keeps its header or is discarded.
LEMMA DiscardTyped == ASSUME MsgTyped, DiscardMsg PROVE MsgTyped'
  BY DEF MsgTyped, DiscardMsg, Header, NoHeader, Number

LEMMA CrashDInv ==
  ASSUME DInv, NEW s \in Server, Crash(s)
  PROVE  DInv'
  <1> USE DEF Crash
  <1>1. /\ DOMAIN conn' = DOMAIN conn
        /\ \A c \in DOMAIN conn : conn'[c] = [conn[c] EXCEPT !.open = @ \ {s}]
    OBVIOUS
  <1>2. ASSUME NEW c \in DOMAIN conn
        PROVE  /\ conn'[c] \in Connection
               /\ conn'[c].by = conn[c].by /\ conn'[c].to = conn[c].to
               /\ conn'[c].open \subseteq conn[c].open
    <2> HIDE DEF Crash
    <2>1. PICK d : d = conn[c]
      OBVIOUS
    <2>2. d \in Connection
      BY <2>1 DEF DInv, ConnsTyped
    <2>3. conn'[c] = [d EXCEPT !.open = @ \ {s}]
      BY <1>1, <2>1
    <2> QED
      BY <2>1, <2>2, <2>3 DEF Connection
  <1>3. Later /\ ConnsTyped'
    <2>1. conn' = [c \in 1..Len(conn) |-> conn'[c]] /\ Len(conn) \in Nat /\ DOMAIN conn = 1..Len(conn)
      BY DEF DInv, ConnsTyped
    <2> HIDE DEF Crash
    <2>2. conn' \in Seq(Connection)
      <3>1. PICK q, k : q = conn' /\ k = Len(conn)
        OBVIOUS
      <3>2. k \in Nat /\ q = [c \in 1..k |-> q[c]] /\ \A c \in 1..k : q[c] \in Connection
        BY <1>2, <2>1, <3>1
      <3>3. q \in Seq(Connection)
        BY <3>2, IsASeq
      <3> QED
        BY <3>1, <3>3
    <2> QED
      BY <1>1, <1>2, <2>2 DEF Later, DInv, ConnsTyped, Peers
  <1>4. StatesTyped'
    BY DEF DInv, StatesTyped
  <1>5. /\ server' \in [Server -> [Number -> Entries]]
        /\ \A r \in Server : \A n \in Number : r # s => server'[r][n] = server[r][n]
        /\ \A n \in Number : server'[s][n].sock = NULL /\ ~ server'[s][n].init
    BY DEF DInv, TableTyped, Entries, Unknown
  <1>6. TableTyped'
    <2>1. \A r, n \in Server : EntryJoins(r, n)'
      <3>1. \A r, n \in Server : r # s => server'[r][n].sock = server[r][n].sock
        BY <1>5 DEF Number
      <3>2. \A n \in Server : server'[s][n].sock = NULL
        BY <1>5 DEF Number
      <3> QED
        BY <1>3, <3>1, <3>2, EntryKept DEF DInv, TableTyped, EntryJoins
    <2>2. \A r \in Server : EntryGone(r)'
      <3>1. \A r \in Server : r # s => server'[r][INVALID_08].sock = server[r][INVALID_08].sock
        BY <1>5 DEF Number
      <3>2. server'[s][INVALID_08].sock = NULL
        BY <1>5 DEF Number
      <3> QED
        BY <1>3, <3>1, <3>2, GoneEntryKept DEF DInv, TableTyped, EntryGone
    <2> QED
      BY <1>5, <2>1, <2>2 DEF TableTyped
  <1>7. PendingTyped'
    <2>1. pending' \in [Server -> Seq(Nat)]
      BY DEF DInv, PendingTyped
    <2>2. ASSUME NEW r \in Server, NEW i \in DOMAIN pending'[r]
          PROVE  Incoming(pending[r][i], r)'
      <3>1. r # s /\ i \in DOMAIN pending[r] /\ pending'[r] = pending[r]
        BY DEF DInv, PendingTyped
      <3>2. PICK c : c = pending[r][i]
        OBVIOUS
      <3>3. Incoming(c, r)
        BY <3>1, <3>2 DEF DInv, PendingTyped
      <3>4. Incoming(c, r)'
        BY <1>3, <3>3, IncomingKept
      <3> QED
        BY <3>1, <3>2, <3>4
    <2> QED
      BY <2>1, <2>2 DEF PendingTyped
  <1>8. acceptor'[s] = Accepting /\ \A r \in Server : r # s => acceptor'[r] = acceptor[r]
    BY DEF DInv, AcceptorTyped
  <1>9. AcceptorTyped'
    <2>1. acceptor' \in [Server -> [at : {"accept", "number", "init", "sock", "thread"},
                                    sock : Nat \cup {NULL}, from : Number]]
      BY DEF DInv, AcceptorTyped, Accepting, Number
    <2>2. Accepts(s)'
      BY <1>8 DEF Accepts, Accepting
    <2>3. \A r \in Server : r # s => Accepts(r)'
      BY <1>3, <1>8, AcceptsKept DEF DInv, AcceptorTyped
    <2> QED
      BY <2>1, <2>2, <2>3 DEF AcceptorTyped
  <1>10. SenderTyped' /\ ThreadsTyped'
    BY DEF DInv, SenderTyped, Silent, Number, ThreadsTyped
  <1>11. MsgTyped'
    BY DiscardTyped DEF DInv
  <1>12. Watched'
    <2> SUFFICES ASSUME NEW r \in Server, NEW n \in Server, r # n, server'[r][n].init
                 PROVE  Receives(r, n)' \/ Creating(r, n)'
      BY DEF Watched
    <2>1. r # s /\ server[r][n].init
      BY <1>5 DEF Number
    <2>2. Receives(r, n) \/ Creating(r, n)
      BY <2>1 DEF DInv, Watched
    <2>3. Receives(r, n) => Receives(r, n)'
      BY <2>1 DEF Receives
    <2>4. Creating(r, n) => Creating(r, n)'
      BY <1>8, <2>1 DEF Creating
    <2> QED
      BY <2>2, <2>3, <2>4
  <1> QED
    BY <1>3, <1>4, <1>6, <1>7, <1>9, <1>10, <1>11, <1>12 DEF DInv

\* A thread that goes on receiving
LEMMA ThreadGoesOn ==
  ASSUME DInv, NEW t \in threads, NEW u \in AThread, Thread(t, u),
         u.on = t.on, u.from = t.from, u.at # "close", MsgTyped',
         UNCHANGED <<control, server, acceptor, sender, network>>
  PROVE  DInv'
  <1>1. ThreadsTyped'
    BY DEF DInv, ThreadsTyped, Thread
  <1>2. \A s, n \in Server : Receives(s, n) => Receives(s, n)'
    BY DEF Receives, Thread
  <1>3. Watched'
    BY <1>2, WatchedKept DEF DInv
  <1>4. Later /\ ConnsTyped'
    BY SameLater DEF DInv, ConnsTyped, Peers, network
  <1>5. TableTyped' /\ PendingTyped' /\ AcceptorTyped'
    BY <1>4, TableKept, PendingKept, AcceptorKept DEF DInv, TableTyped, network
  <1>6. StatesTyped' /\ SenderTyped'
    BY DEF DInv, StatesTyped, SenderTyped, control
  <1> QED
    BY <1>1, <1>3, <1>4, <1>5, <1>6 DEF DInv

LEMMA CallRecvDInv ==
  ASSUME DInv, NEW t \in threads, CallRecv(t)
  PROVE  DInv'
  <1>1. t \in AThread
    BY DEF DInv, ThreadsTyped
  <1>2. server[t.on][t.from].sock \in Nat \cup {NULL}
    BY <1>1 DEF DInv, TableTyped, Entries, AThread
  <1>3. PICK a \in {"length", "body"} :
            Thread(t, [t EXCEPT !.at = a, !.sock = server[t.on][t.from].sock])
    BY DEF CallRecv
  <1>4. PICK u : u = [t EXCEPT !.at = a, !.sock = server[t.on][t.from].sock]
    OBVIOUS
  <1>5. u \in AThread /\ u.on = t.on /\ u.from = t.from /\ u.at # "close"
    BY <1>1, <1>2, <1>4 DEF AThread
  <1>6. MsgTyped'
    BY DEF CallRecv, messages, DInv, MsgTyped
  <1> QED
    BY <1>3, <1>4, <1>5, <1>6, ThreadGoesOn DEF CallRecv

\* A thread that has read something
LEMMA ReadDInv ==
  ASSUME DInv, NEW t \in threads, ReadLength(t) \/ ReadBody(t) \/ ReadTorn(t)
  PROVE  DInv'
  <1>1. t \in AThread
    BY DEF DInv, ThreadsTyped
  <1>2. PICK a \in {"ready", "rest"} : Thread(t, [t EXCEPT !.at = a])
    BY DEF ReadLength, ReadBody, ReadTorn
  <1>3. PICK u : u = [t EXCEPT !.at = a]
    OBVIOUS
  <1>4. u \in AThread /\ u.on = t.on /\ u.from = t.from /\ u.at # "close"
    BY <1>1, <1>3 DEF AThread
  <1>5. MsgTyped'
    <2>1. CASE UNCHANGED msg \/ DiscardMsg
      BY <2>1, DiscardTyped DEF DInv, MsgTyped
    <2>2. CASE \E m \in Message, h \in Header : msg' = [msg EXCEPT ![m] = h]
      BY <2>2 DEF DInv, MsgTyped
    <2>3. CASE ReadTorn(t)
      <3> HIDE DEF DiscardMsg, Thread, Coming
      <3>1. PICK m \in Coming(t.sock, t.on) :
                DiscardMsg \/ \E h \in Header : msg' = [msg EXCEPT ![m] = h]
        BY <2>3 DEF ReadTorn
      <3>2. m \in Message
        BY <3>1 DEF Coming, Begun
      <3> QED
        BY <2>1, <2>2, <3>1, <3>2
    <2> QED
      BY <2>1, <2>3 DEF ReadLength, ReadBody
  <1>6. UNCHANGED <<control, server, acceptor, sender, network>>
    BY DEF ReadLength, ReadBody, ReadTorn
  <1> QED
    BY <1>2, <1>3, <1>4, <1>5, <1>6, ThreadGoesOn

LEMMA ReceiveFailsDInv ==
  ASSUME DInv, NEW t \in threads, ReceiveFails(t)
  PROVE  DInv'
  <1> USE DEF ReceiveFails
  <1>1. t \in AThread
    BY DEF DInv, ThreadsTyped
  <1>2. /\ server' \in [Server -> [Number -> Entries]]
        /\ \A r \in Server : \A k \in Number : server'[r][k].sock = server[r][k].sock
        /\ \A r \in Server : \A k \in Number :
              r # t.on \/ k # t.from => server'[r][k].init = server[r][k].init
        /\ ~ server'[t.on][t.from].init
    BY <1>1, SetInitTable DEF DInv, AThread
  <1>3. Later /\ ConnsTyped'
    BY SameLater DEF DInv, ConnsTyped, Peers, network
  <1>4. TableTyped' /\ PendingTyped' /\ AcceptorTyped'
    BY <1>2, <1>3, TableKept, PendingKept, AcceptorKept DEF DInv, network
  <1>5. ThreadsTyped'
    BY <1>1 DEF DInv, ThreadsTyped, Thread, AThread
  <1>6. Watched'
    <2>1. \A r, m \in Server : server'[r][m].init => server[r][m].init
      BY <1>1, <1>2 DEF Number, AThread
    <2>2. ASSUME NEW r \in Server, NEW m \in Server, server'[r][m].init, Receives(r, m)
          PROVE  Receives(r, m)'
      <3>1. PICK u \in threads : u.on = r /\ u.from = m /\ u.at # "close"
        BY <2>2 DEF Receives
      <3>2. u # t
        BY <1>2, <2>2, <3>1
      <3> QED
        BY <3>1, <3>2 DEF Receives, Thread
    <2> QED
      BY <2>1, <2>2, WatchedKept DEF DInv
  <1>7. StatesTyped' /\ SenderTyped' /\ MsgTyped'
    BY DiscardTyped DEF DInv, StatesTyped, SenderTyped, control
  <1> QED
    BY <1>3, <1>4, <1>5, <1>6, <1>7 DEF DInv

\* A socket is closed, by a thread that ends or after send has failed.
LEMMA ClosesDInv ==
  ASSUME DInv, NEW s \in Server, NEW c, CloseSocket(s, c), DiscardMsg,
         UNCHANGED <<control, server, acceptor, pending>>,
         SenderTyped', ThreadsTyped', \A r, n \in Server : Receives(r, n) => Receives(r, n)'
  PROVE  DInv'
  <1>1. Later /\ ConnsTyped'
    BY CloseSocketLater DEF DInv
  <1>2. TableTyped' /\ PendingTyped' /\ AcceptorTyped'
    BY <1>1, TableKept, PendingKept, AcceptorKept DEF DInv, TableTyped
  <1>3. StatesTyped' /\ MsgTyped'
    BY DiscardTyped DEF DInv, StatesTyped, control
  <1>4. Watched'
    BY WatchedKept DEF DInv
  <1> QED
    BY <1>1, <1>2, <1>3, <1>4 DEF DInv

LEMMA CloseDInv ==
  ASSUME DInv, NEW t \in threads, Close(t)
  PROVE  DInv'
  <1>1. t \in AThread
    BY DEF DInv, ThreadsTyped
  <1>2. PICK c : c = server[t.on][t.from].sock
    OBVIOUS
  <1>3. CloseSocket(t.on, c) /\ t.on \in Server
    BY <1>1, <1>2 DEF Close, AThread
  <1>4. ThreadsTyped' /\ SenderTyped'
    BY DEF DInv, ThreadsTyped, SenderTyped, Close
  <1>5. \A r, n \in Server : Receives(r, n) => Receives(r, n)'
    BY DEF Receives, Close
  <1> QED
    BY <1>3, <1>4, <1>5, ClosesDInv DEF Close

-----------------------------------------------------------------------------
(* Messages.                                                               *)

\* A step of the loop of Start that leaves the table and the connections alone
LEMMA LoopGoesOn ==
  ASSUME DInv, UNCHANGED <<control, server, acceptor, network, threads>>, SenderTyped', MsgTyped'
  PROVE  DInv'
  <1>1. Later /\ ConnsTyped'
    BY SameLater DEF DInv, ConnsTyped, Peers, network
  <1>2. TableTyped' /\ PendingTyped' /\ AcceptorTyped'
    BY <1>1, TableKept, PendingKept, AcceptorKept DEF DInv, TableTyped, network
  <1>3. StatesTyped' /\ ThreadsTyped'
    BY DEF DInv, StatesTyped, ThreadsTyped, control
  <1>4. Watched'
    BY SameReceives, WatchedKept DEF DInv
  <1> QED
    BY <1>1, <1>2, <1>3, <1>4 DEF DInv

LEMMA SendDInv ==
  ASSUME DInv, NEW s \in Server, NEW m \in Message, Send(m, s)
  PROVE  DInv'
  <1>1. SenderTyped' /\ MsgTyped'
    BY DEF DInv, SenderTyped, MsgTyped, Send
  <1> QED
    BY <1>1, LoopGoesOn DEF Send

\* The server of an area is one of the table's, or none.
LEMMA ActivSrvType ==
  ASSUME NEW s \in Server, NEW k \in DOMAIN Area
  PROVE  GetActivSrv(s, Area[k]) \in Number
  <1> DEFINE comp   == Area[k].compId
             active == {j \in DOMAIN comp : server[s][comp[j]].init}
  <1>1. comp \in Seq(Server)
    <2>1. Area[k] \in [startId : Nat, lastId : Nat, compId : Seq(Server)]
      BY AreaAssumption, ElementOfSeq, LenProperties
    <2> QED
      BY <2>1
  <1>2. GetActivSrv(s, Area[k]) = IF active = {} THEN INVALID_08 ELSE comp[Min(active)]
    BY DEF GetActivSrv
  <1>3. CASE active = {}
    BY <1>2, <1>3 DEF Number
  <1>4. CASE active # {}
    <2>1. active \subseteq Nat
      BY <1>1
    <2>2. Min(active) \in DOMAIN comp
      BY <1>4, <2>1, MinOfNats
    <2>3. comp[Min(active)] \in Server
      BY <1>1, <2>2, ElementOfSeq, LenProperties
    <2> QED
      BY <1>2, <1>4, <2>3 DEF Number
  <1> QED
    BY <1>3, <1>4

LEMMA FirstSrvType ==
  ASSUME NEW s \in Server
  PROVE  FirstSrv(s) \in Number
  <1> DEFINE others == {k \in DOMAIN Area : GetActivSrv(s, Area[k]) \notin {s, INVALID_08}}
  <1>1. FirstSrv(s) = IF others = {} THEN INVALID_08 ELSE GetActivSrv(s, Area[Min(others)])
    BY DEF FirstSrv
  <1>2. CASE others = {}
    BY <1>1, <1>2 DEF Number
  <1>3. CASE others # {}
    <2>1. DOMAIN Area \subseteq Nat
      BY AreaAssumption
    <2>2. Min(others) \in DOMAIN Area
      BY <1>3, <2>1, MinOfNats
    <2> QED
      BY <1>1, <1>3, <2>2, ActivSrvType
  <1> QED
    BY <1>2, <1>3

LEMMA StartDInv ==
  ASSUME DInv, NEW s \in Server, NEW m \in Message, Start(s, m)
  PROVE  DInv'
  <1>1. /\ UNCHANGED <<control, server, acceptor, network, threads, torn>>
        /\ DiscardMsg
    BY DEF Start
  <1>2. PICK n : n = IF msg[m].group = INVALID_08 THEN FirstSrv(s) ELSE msg[m].group
    OBVIOUS
  <1>3. n \in Number
    BY <1>2, FirstSrvType DEF DInv, MsgTyped, Header
  <1>4. UNCHANGED sender \/ SendMsgToServer(s, n, m)
    BY <1>2 DEF Start
  <1>5. SenderTyped'
    BY <1>3, <1>4 DEF DInv, SenderTyped, SendMsgToServer
  <1> QED
    BY <1>1, <1>5, DiscardTyped, LoopGoesOn DEF DInv

LEMMA SendFailsDInv ==
  ASSUME DInv, NEW s \in Server, SendFails(s)
  PROVE  DInv'
  <1> USE DEF SendFails
  <1>1. PICK n \in Number : n = sender[s].to
    BY DEF DInv, SenderTyped
  <1>2. /\ server' \in [Server -> [Number -> Entries]]
        /\ \A r \in Server : \A k \in Number : server'[r][k].sock = server[r][k].sock
        /\ \A r \in Server : \A k \in Number : server'[r][k].init => server[r][k].init
    <2>1. TableTyped /\ SetInit(s, n, FALSE)
      BY <1>1 DEF DInv
    <2>2. FALSE \in BOOLEAN
      OBVIOUS
    <2> HIDE DEF SendFails
    <2>3. /\ server' \in [Server -> [Number -> Entries]]
          /\ \A r \in Server : \A k \in Number : server'[r][k].sock = server[r][k].sock
          /\ \A r \in Server : \A k \in Number :
                r # s \/ k # n => server'[r][k].init = server[r][k].init
          /\ server'[s][n].init = FALSE
      BY ONLY <2>1, <2>2, SetInitTable, s \in Server, n \in Number, Zenon
    <2> QED
      BY <2>3
  <1>3. Later /\ ConnsTyped'
    BY SameLater DEF DInv, ConnsTyped, Peers, network
  <1>4. TableTyped' /\ PendingTyped' /\ AcceptorTyped'
    BY <1>2, <1>3, TableKept, PendingKept, AcceptorKept DEF DInv, network
  <1>5. SenderTyped'
    BY DEF DInv, SenderTyped
  <1>6. StatesTyped' /\ ThreadsTyped' /\ MsgTyped'
    BY DEF DInv, StatesTyped, ThreadsTyped, MsgTyped, control, messages
  <1>7. Watched'
    BY <1>2, SameReceives, WatchedKept DEF DInv, Number
  <1> QED
    BY <1>3, <1>4, <1>5, <1>6, <1>7 DEF DInv

LEMMA SendClosesDInv ==
  ASSUME DInv, NEW s \in Server, SendCloses(s)
  PROVE  DInv'
  <1>1. PICK c : CloseSocket(s, c)
    BY DEF SendCloses
  <1>2. SenderTyped' /\ ThreadsTyped'
    BY DEF DInv, SenderTyped, ThreadsTyped, SendCloses, Silent, Number
  <1>3. \A r, n \in Server : Receives(r, n) => Receives(r, n)'
    BY SameReceives DEF SendCloses
  <1> QED
    BY <1>1, <1>2, <1>3, ClosesDInv DEF SendCloses

-----------------------------------------------------------------------------
(* The theorems.                                                           *)

LEMMA StutterDInv ==
  ASSUME DInv, UNCHANGED vars
  PROVE  DInv'
  <1>1. SenderTyped' /\ MsgTyped'
    BY DEF DInv, SenderTyped, MsgTyped, vars, messages
  <1> QED
    BY <1>1, LoopGoesOn DEF vars

LEMMA NextDInv ==
  ASSUME DInv, [Next]_vars
  PROVE  DInv'
  <1>1. ASSUME NEW s \in Server, ConnectToServers(s)
        PROVE  DInv'
    BY <1>1, ConnectDInv, SendOwnNumDInv, WaitServerConnDInv DEF ConnectToServers
  <1>2. ASSUME NEW s \in Server, AcceptConn(s)
        PROVE  DInv'
    BY <1>2, AcceptDInv, FindServerNumDInv, EnterInitDInv, EnterSockDInv, CreateThreadDInv
    DEF AcceptConn
  <1>3. ASSUME NEW s \in Server, NEW c \in Conn, Receive(s, c)
        PROVE  DInv'
    BY <1>3, CallRecvDInv, ReadDInv, ReceiveFailsDInv, CloseDInv DEF Receive
  <1>4. ASSUME NEW s \in Server, NEW m \in Message, StartLoop(s, m)
        PROVE  DInv'
    BY <1>4, StartDInv, SendFailsDInv, SendClosesDInv DEF StartLoop
  <1> QED
    BY <1>1, <1>2, <1>3, <1>4, BeginDInv, CrashDInv, SendDInv, StutterDInv DEF Next

\* The invariant holds in every reachable state: tables, connections, the threads that
\* accept, send and receive, and messages fit together on every server
\* (Distribution.cpp:44-118, 197-296).
THEOREM ConnectionInvariant == Spec => []DInv
  <1>1. Init => DInv
    BY InitDInv
  <1>2. DInv /\ [Next]_vars => DInv'
    BY NextDInv
  <1> QED
    BY <1>1, <1>2, PTL DEF Spec

\* A socket in a server's table is always that of a connection that was made between the
\* two servers, also when the number of the other one could not be read, after connections
\* were replaced and servers were started again; what is written behind the table is of a
\* connection that the other server has closed (Distribution.cpp:44-118, 197-231, 305-309).
THEOREM SocketsJoin == Spec => []TypeOK
  <1>1. DInv => TypeOK
    <2> SUFFICES ASSUME DInv PROVE TypeOK
      OBVIOUS
    <2>1. \A c \in DOMAIN conn : conn[c].open \subseteq Peers(c)
      BY DEF DInv, ConnsTyped
    <2>2. ASSUME NEW s \in Server, NEW n \in Server, server[s][n].sock # NULL
          PROVE  /\ n # s
                 /\ server[s][n].sock \in DOMAIN conn
                 /\ Peers(server[s][n].sock) = {s, n}
      BY <2>2 DEF DInv, TableTyped, EntryJoins
    <2>3. ASSUME NEW s \in Server, server[s][INVALID_08].sock # NULL
          PROVE  /\ server[s][INVALID_08].sock \in DOMAIN conn
                 /\ conn[server[s][INVALID_08].sock].to = s
                 /\ conn[server[s][INVALID_08].sock].open \subseteq {s}
      BY <2>3 DEF DInv, TableTyped, EntryGone, Gone
    <2> QED
      BY <2>1, <2>2, <2>3 DEF DInv, StatesTyped, TypeOK
  <1> QED
    BY <1>1, ConnectionInvariant, PTL

\* A server that is taken for active is watched by a receiving thread, or is about to be,
\* whatever crashes and whoever connects again (Distribution.cpp:224-229, 246-250).
THEOREM ActiveServersWatched == Spec => []ActiveWatched
  <1>1. DInv => ActiveWatched
    BY DEF DInv, Watched, Receives, Creating, ActiveWatched
  <1> QED
    BY <1>1, ConnectionInvariant, PTL
=============================================================================
