------------------------------- MODULE PubSub -------------------------------
(***************************************************************************)
(* The server automate (ChAuto) together with the client programs          *)
(* (Client_IPv6.cpp) and the UDP network between them.                     *)
(*                                                                         *)
(* A client sends the line its user typed, waits in recvfrom for one       *)
(* datagram, prints it and starts again; it has no timeout.  UDP may lose  *)
(* and duplicate datagrams; datagrams of different clients arrive in any   *)
(* order because the clients send in any order.                            *)
(***************************************************************************)
EXTENDS ChAuto

CONSTANTS Network,     \* what the network may do: subset of {"lose", "duplicate"}
          Asked,       \* the requests users type in
          MaxFaults,   \* bound on the losses, and on the duplications, of a behaviour
          MaxPublish   \* bound on the publishes of a behaviour

ASSUME NetworkAssumption ==
    /\ Network \subseteq {"lose", "duplicate"}
    /\ Asked \subseteq Request
    /\ MaxFaults \in Nat
    /\ MaxPublish \in Nat

VARIABLES cl,      \* where each client's loop stands: at gets_s, in recvfrom, left
          req,     \* the last request of each client
          faults,  \* how often the network has done either so far
          log,     \* history: the publishes the server carried out, in order
          seen     \* history: the length of log when the client sent its request

clientVars  == <<cl, req, seen>>
historyVars == <<log, seen>>
vars == <<serverVars, cl, req, faults, log, seen>>

\* The dataBuffer of a client that has sent nothing yet
NoRequest == Zeros

Init ==
    /\ ServerInit
    /\ cl = [c \in Clients |-> "gets_s"]
    /\ req = [c \in Clients |-> NoRequest]
    /\ faults = [kind \in Network |-> 0]
    /\ log = <<>>
    /\ seen = [c \in Clients |-> 0]

-----------------------------------------------------------------------------
(* The server.                                                             *)

ServerStep ==
    /\ ServerNext
    /\ log' = IF Dispatches("FSM_Ch_Store_Data_SubPub") /\ dataBuffer.kind = "PUB"
              THEN Append(log, [topic |-> dataBuffer.topic, data |-> dataBuffer.data])
              ELSE log
    /\ UNCHANGED <<clientVars, faults>>

-----------------------------------------------------------------------------
(* The clients.                                                            *)

PublishesUnderWay == {c \in Clients : cl[c] = "recvfrom" /\ req[c].kind = "PUB"}

\* The user types a request; sendto hands it to the network.
ClientSends(c, r) ==
    /\ cl[c] = "gets_s"
    /\ r.kind = "PUB" => Len(log) + Cardinality(PublishesUnderWay) < MaxPublish
    /\ cl' = [cl EXCEPT ![c] = "recvfrom"]
    /\ req' = [req EXCEPT ![c] = r]
    /\ rx' = Append(rx, [from |-> c, req |-> r])
    /\ seen' = [seen EXCEPT ![c] = Len(log)]
    /\ UNCHANGED <<State, mbx, pc, socketOpen, requestVars, storeVars, inbox, faults, log>>

\* recvfrom returns the first datagram in the client's socket, whichever it is.
ClientReceives(c) ==
    /\ cl[c] = "recvfrom"
    /\ inbox[c] # <<>>
    /\ inbox' = [inbox EXCEPT ![c] = Tail(@)]
    /\ cl' = [cl EXCEPT ![c] = "gets_s"]
    /\ UNCHANGED <<State, mbx, pc, socketOpen, requestVars, storeVars, rx,
                   req, seen, faults, log>>

-----------------------------------------------------------------------------
(* The network.                                                            *)

Fault(kind) ==
    /\ kind \in Network
    /\ faults[kind] < MaxFaults
    /\ faults' = [faults EXCEPT ![kind] = @ + 1]
    /\ UNCHANGED <<State, mbx, pc, socketOpen, requestVars, storeVars, clientVars, log>>

LosesRequest ==
    /\ Fault("lose")
    /\ \E i \in DOMAIN rx : rx' = RemoveAt(rx, i)
    /\ UNCHANGED inbox

DuplicatesRequest ==
    /\ Fault("duplicate")
    /\ \E i \in DOMAIN rx : rx' = Append(rx, rx[i])
    /\ UNCHANGED inbox

LosesReply ==
    /\ Fault("lose")
    /\ \E c \in Clients : \E i \in DOMAIN inbox[c] :
          inbox' = [inbox EXCEPT ![c] = RemoveAt(@, i)]
    /\ UNCHANGED rx

DuplicatesReply ==
    /\ Fault("duplicate")
    /\ \E c \in Clients : \E i \in DOMAIN inbox[c] :
          inbox' = [inbox EXCEPT ![c] = Append(@, @[i])]
    /\ UNCHANGED rx

NetworkStep == LosesRequest \/ DuplicatesRequest \/ LosesReply \/ DuplicatesReply

-----------------------------------------------------------------------------
Next ==
    \/ ServerStep
    \/ \E c \in Clients, r \in Asked : ClientSends(c, r)
    \/ \E c \in Clients : ClientReceives(c)
    \/ NetworkStep

Spec == Init /\ [][Next]_vars

\* The system thread can go on: ENABLED ServerStep, for publishes that stay in
\* bounds.
ServerReady ==
    \/ pc = "start"
    \/ pc = "loop" /\ mbx # <<>>
    \/ pc = "recvfrom" /\ (rx # <<>> \/ "recvfrom" \in Failures)

\* The system thread and the clients' threads are scheduled; users need not
\* type and the network need not fail.  The first conjunct is WF_vars(ServerStep)
\* written out, because TLC evaluates the replies anew for each ENABLED.
FairSpec ==
    /\ Spec
    /\ <>[]ServerReady => []<><<ServerStep>>_vars
    /\ \A c \in Clients : WF_vars(ClientReceives(c))
-----------------------------------------------------------------------------
(* Types and safety.                                                       *)

Reply == [kind : {"ACK", "SHARE", "TOPICS"}, topic : Topics \cup {<<>>}, body : Seq(Cell)]

\* The variables of the server, the clients and the network have their types.
TypeOK ==
    /\ State \in ChStates
    /\ mbx \in Seq(Codes)
    /\ pc \in {"start", "loop", "recvfrom"}
    /\ socketOpen \in BOOLEAN
    /\ dataBuffer \in Request \cup {Zeros}
    /\ clientAddress \in Clients \cup {NoClient}
    /\ currentTopic \in Topics \cup {<<>>}
    /\ mem \in [0..(MAX_PUBLISHERS - 1) -> Row]
    /\ publisherCounter \in NumPreset..MAX_PUBLISHERS
    /\ alreadyexists \in BOOLEAN
    /\ index \in 0..(MAX_PUBLISHERS - 1)
    /\ rx \in Seq([from : Clients, req : Request])
    /\ inbox \in [Clients -> Seq(Reply)]
    /\ cl \in [Clients -> {"gets_s", "recvfrom"}]
    /\ req \in [Clients -> Request \cup {NoRequest}]
    /\ faults \in [Network -> 0..MaxFaults]
    /\ log \in Seq([topic : Topics, data : Items])
    /\ seen \in [Clients -> Nat]

\* The message the system thread dispatches next is in the event table for the
\* state the automate is in: none is lost in DoNothing (fsm.cpp GetProcedure).
NoUnexpectedEvent == pc = "loop" /\ mbx # <<>> => Expected(State, Head(mbx))

\* The automate sends itself the next message in every handler but these: Start
\* or sendto failed, or the handler did not recognize the request.  It never
\* waits for a request on a socket that is not open.
StopsOnlyOnFailure ==
    /\ pc = "recvfrom" => socketOpen
    /\ pc = "loop" /\ mbx = <<>> =>
          \/ ~socketOpen
          \/ State = "FSM_Ch_Store_Data" /\ dataBuffer.kind \in {"OTHER", "ZEROS"}

ReplyKind(r) == CASE r.kind = "PUB" -> "ACK" [] r.kind = "SUB" -> "SHARE" [] OTHER -> "TOPICS"

NoDuplicates == "duplicate" \in Network => faults["duplicate"] = 0

\* Until the network duplicates a datagram, the answer a client is about to read
\* answers the request it waits for: the globals clientAddress, dataBuffer and
\* currentTopic still belong to that request when the handler two messages later
\* uses them.
AnswerMatches ==
    NoDuplicates => \A c \in Clients : cl[c] = "recvfrom" /\ inbox[c] # <<>> =>
        /\ Head(inbox[c]).kind = ReplyKind(req[c])
        /\ Head(inbox[c]).topic = req[c].topic \/ req[c].kind # "SUB"

\* A PUB that is about to be stored fits into the row and the table.
PublishStaysInBounds ==
    Dispatches("FSM_Ch_Store_Data_SubPub") /\ dataBuffer.kind = "PUB" =>
        PublishInBounds(mem, publisherCounter, dataBuffer.topic, dataBuffer.data,
                        Exists(dataBuffer.topic), FoundAt(dataBuffer.topic))

-----------------------------------------------------------------------------
(* What the replies say, against the history of publishes.                 *)

\* The replies client c reads for a request of this kind
ReadBy(c, kind) ==
    IF cl[c] = "recvfrom" /\ inbox[c] # <<>> /\ Head(inbox[c]).kind = kind
    THEN {Head(inbox[c])} ELSE {}

\* The text of an initial topic after these publishes: its initial data and, after
\* a blank each, all that was published on it, in order
TextAfter(t, publishes) ==
    FoldLeft(LAMBDA text, p : IF p.topic = t.name THEN text \o <<" ">> \o p.data ELSE text,
             Front(PresetText(t)), publishes)

\* The answer on an initial topic after the first n publishes
PresetReply(t, n) == TextAfter(t, SubSeq(log, 1, n)) \o <<"TICK">>

\* A subscriber to one of the initial topics gets its initial data and all that
\* was published on it, complete and in order, and nothing else; no publish
\* carried out before the request was sent is missing.
PresetDataCurrent ==
    \A c \in Clients : \A r \in ReadBy(c, "SHARE") : \A i \in 1..NumPreset :
        r.topic = Preset[i].name =>
            \E n \in seen[c]..Len(log) : r.body = PresetReply(Preset[i], n)

\* The initial topics start with different letters: the scan for a subscriber
\* copies what the names of the rows in front of his have in common with his topic.
PresetsApart ==
    /\ \A i \in 1..NumPreset : Preset[i].name # <<>>
    /\ \A i, k \in 1..NumPreset : i # k => Head(Preset[i].name) # Head(Preset[k].name)

\* The topics after these publishes: the initial ones and those published, each once, in
\* the order of their first publishes
TopicsAfter(publishes) ==
    FoldLeft(LAMBDA topics, p : IF p.topic \in ToSet(topics) THEN topics ELSE Append(topics, p.topic),
             [i \in 1..NumPreset |-> Preset[i].name], publishes)

TopicsUpTo(n) == TopicsAfter(SubSeq(log, 1, n))

\* No name published so far is shortened by the copy into its row (ChAuto.cpp:267-271).
NamesWhole ==
    \A k \in DOMAIN log :
        UpperPrefix(log[k].topic) = log[k].topic \/ \E i \in 1..NumPreset : log[k].topic = Preset[i].name

\* "Any client can ask for existing list of topics" (ChAuto.cpp:321): as long as no name is
\* shortened, the answer to LIST has every topic, each once, in the order of their first
\* publishes; no topic published before the request was sent is missing.
ListCurrent ==
    NamesWhole => \A c \in Clients : \A r \in ReadBy(c, "TOPICS") : \E n \in seen[c]..Len(log) :
        r.body = FlattenSeq([i \in DOMAIN TopicsUpTo(n) |-> Append(TopicsUpTo(n)[i], "NL")]) \o <<"TICK">>

\* A step changes no topic's row but that of the topic being published, and in
\* it nothing in front of the last character.
PublishTouchesOnlyItsTopic ==
    [][\A i \in 0..(publisherCounter - 1) : mem'[i] # mem[i] =>
          /\ GetTopic(mem[i]) = dataBuffer.topic
          /\ IsPrefix(Front(Text(mem[i])), Text(mem'[i]))]_vars

\* Whatever the network duplicates, the answer on an initial topic shows that
\* topic after some number of the publishes the server carried out.
PresetDataConsistent ==
    \A c \in Clients : \A r \in ReadBy(c, "SHARE") : \A i \in 1..NumPreset :
        r.topic = Preset[i].name => \E n \in 0..Len(log) : r.body = PresetReply(Preset[i], n)

-----------------------------------------------------------------------------
(* Liveness.                                                               *)

\* The server has stopped on a text it does not recognize.
StoppedByText == pc = "loop" /\ mbx = <<>> /\ dataBuffer.kind = "OTHER"

\* Every request a client sends is answered, unless the server stops on a text it
\* does not recognize.
EveryRequestAnswered ==
    \A c \in Clients : cl[c] = "recvfrom" ~> cl[c] = "gets_s" \/ StoppedByText
=============================================================================
