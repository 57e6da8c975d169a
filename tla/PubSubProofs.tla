---------------------------- MODULE PubSubProofs ----------------------------
(***************************************************************************)
(* Proofs about PubSub for any number of clients, topics and publishes.    *)
(*                                                                         *)
(* ControlInv is the inductive invariant of the automate's control: the    *)
(* mailbox holds at most one message, one the automate's state expects.    *)
(* OneInFlight adds that a client that waits has one datagram in flight,   *)
(* in one of three places: its request in the server's socket, its request *)
(* in the server's globals, or the reply in its own socket.                *)
(*                                                                         *)
(* DataInv relates the rows of the store to the history of publishes: each *)
(* has a name (NamedRows), and they are the names TopicsAfter gives as     *)
(* long as none was shortened; the rows of the initial topics hold the     *)
(* text that TextAfter gives (RowHolds), and every reply in a socket shows *)
(* the store after some number of publishes (TrueReply).  The sections between the two are about the operators of   *)
(* TopicStore: what C strings, writes and a publish do to the rows.        *)
(***************************************************************************)
EXTENDS PubSub, ProofLemmas

\* The automate's control
ControlInv ==
    /\ pc \in {"start", "loop", "recvfrom"}
    /\ pc = "start" => State = "FSM_Ch_Idle" /\ mbx = <<>> /\ ~socketOpen
    /\ pc = "recvfrom" => State = "FSM_Ch_Connected" /\ mbx = <<>> /\ socketOpen
    /\ pc = "loop" =>
          \/ mbx = <<>> /\ (\/ ~socketOpen
                            \/ State = "FSM_Ch_Store_Data" /\ dataBuffer.kind \in {"OTHER", "ZEROS"})
          \/ /\ \E code \in Codes : mbx = <<code>> /\ Expected(State, code)
             /\ socketOpen <=> mbx # <<"MSG_Channel_Connection_Failed">>

LEMMA InitControl == Init => ControlInv
  BY DEF Init, ServerInit, ControlInv

\* What it means for a handler to be dispatched, in a state of the invariant
LEMMA DispatchedMessage ==
  ASSUME ControlInv, NEW handler, Dispatches(handler)
  PROVE  \E code \in Codes :
            /\ mbx = <<code>>
            /\ Head(mbx) = code /\ Tail(mbx) = <<>>
            /\ <<State, code, handler>> \in EventTable
            /\ socketOpen <=> code # "MSG_Channel_Connection_Failed"
  <1>1. PICK code \in Codes : mbx = <<code>>
    BY DEF ControlInv, Dispatches
  <1>2. Head(mbx) = code /\ Tail(mbx) = <<>>
    BY <1>1
  <1>3. socketOpen <=> code # "MSG_Channel_Connection_Failed"
    BY <1>1 DEF ControlInv, Dispatches
  <1> QED
    BY <1>1, <1>2, <1>3 DEF Dispatches

\* Sending one message to oneself after the one being handled
LEMMA SentMessage ==
  ASSUME ControlInv, NEW handler, Dispatches(handler), NEW code \in Codes, SendsToSelf(code)
  PROVE  mbx' = <<code>>
  <1>1. Tail(mbx) = <<>>
    BY DispatchedMessage
  <1>2. mbx' = Append(<<>>, code)
    BY <1>1, Zenon DEF SendsToSelf
  <1> QED
    BY <1>2

LEMMA NothingSent ==
  ASSUME ControlInv, NEW handler, Dispatches(handler), SendsNothing
  PROVE  mbx' = <<>>
  BY DispatchedMessage DEF SendsNothing

\* Which handlers the automate can be in, and what the next message may be
LEMMA ExpectedAfter ==
  /\ Expected("FSM_Ch_Store_Data", "MSG_ACK_Notification")
  /\ Expected("FSM_Ch_Store_Data", "MSG_Share_Data_on_Topic")
  /\ Expected("FSM_Ch_Store_Data", "MSG_Share_All_Topics")
  /\ Expected("FSM_Ch_Publish_ACK_State", "MSG_Stay_Connected")
  /\ Expected("FSM_Ch_Share_Data_on_Topic", "MSG_Stay_Connected")
  /\ Expected("FSM_Ch_Share_All_Topics_State", "MSG_Stay_Connected")
  /\ Expected("FSM_Ch_Connected", "MSG_Store_Data_on_Topic")
  BY DEF Expected, EventTable

\* A handler that is dispatched in the loop, keeps the socket and sends itself
\* a message that is expected in the state it enters
LEMMA GoesOn ==
  ASSUME ControlInv, NEW handler, Dispatches(handler), handler # "FSM_Ch_Idle_Cl_Failed",
         NEW code \in Codes, SendsToSelf(code), Expected(State', code),
         code # "MSG_Channel_Connection_Failed", UNCHANGED <<pc, socketOpen>>
  PROVE  ControlInv'
  <1>1. mbx' = <<code>>
    BY SentMessage
  <1>2. pc' = "loop"
    BY DEF Dispatches
  <1>3. socketOpen
    BY DispatchedMessage DEF EventTable
  <1>4. Expected(State, code)'
    BY DEF Expected, EventTable
  <1> QED
    BY <1>1, <1>2, <1>3, <1>4 DEF ControlInv

\* Every step keeps the invariant of the control.
THEOREM ControlStep == ControlInv /\ [Next]_vars => ControlInv'
  <1> SUFFICES ASSUME ControlInv, [Next]_vars
               PROVE  ControlInv'
    OBVIOUS
  <1>1. CASE Start
    BY <1>1 DEF Start, ControlInv, Codes, Expected, EventTable
  <1>2. CASE StartFails
    BY <1>2 DEF StartFails, ControlInv, Codes, Expected, EventTable
  <1>3. CASE FSM_Ch_Idle_Cl_Failed
    <2>1. mbx' = <<>>
      BY <1>3, NothingSent DEF FSM_Ch_Idle_Cl_Failed
    <2>2. ~socketOpen
      BY <1>3, DispatchedMessage DEF FSM_Ch_Idle_Cl_Failed, EventTable
    <2> QED
      BY <1>3, <2>1, <2>2 DEF FSM_Ch_Idle_Cl_Failed, Dispatches, ControlInv
  <1>4. CASE FSM_Ch_Idle_Cl_Connected
    <2>1. mbx' = <<>>
      BY <1>4, NothingSent DEF FSM_Ch_Idle_Cl_Connected
    <2>2. socketOpen
      BY <1>4, DispatchedMessage DEF FSM_Ch_Idle_Cl_Connected, EventTable
    <2> QED
      BY <1>4, <2>1, <2>2 DEF FSM_Ch_Idle_Cl_Connected, ControlInv
  <1>5. CASE LeavesRecvfrom /\ UNCHANGED <<State, socketOpen>>
    <2>1. mbx' = Append(<<>>, "MSG_Store_Data_on_Topic")
      BY <1>5 DEF LeavesRecvfrom, ControlInv
    <2>2. mbx' = <<"MSG_Store_Data_on_Topic">>
      BY <2>1
    <2>3. Expected(State, "MSG_Store_Data_on_Topic")'
      BY <1>5, ExpectedAfter DEF LeavesRecvfrom, ControlInv, Expected, EventTable
    <2>4. pc' = "loop" /\ socketOpen'
      BY <1>5 DEF LeavesRecvfrom, ControlInv
    <2> QED
      BY <2>2, <2>3, <2>4 DEF ControlInv, Codes
  <1>6. CASE Publish
    BY <1>6, GoesOn, ExpectedAfter DEF Publish, Recognizes, Codes
  <1>7. CASE Subscribe
    BY <1>7, GoesOn, ExpectedAfter DEF Subscribe, Recognizes, Codes
  <1>8. CASE List
    BY <1>8, GoesOn, ExpectedAfter DEF List, Recognizes, Codes
  <1>9. CASE NotRecognized
    <2>1. mbx' = <<>>
      BY <1>9, NothingSent DEF NotRecognized, Recognizes
    <2> QED
      BY <1>9, <2>1 DEF NotRecognized, Recognizes, Dispatches, ControlInv
  <1>10. ASSUME NEW handler \in {"FSM_Ch_Publish_ACK", "FSM_Ch_Share_Topic_Data",
                                 "FSM_Ch_Share_All_Topics"},
                NEW state, Expected(state, "MSG_Stay_Connected"),
                NEW reply, Answers(handler, state, reply)
         PROVE  ControlInv'
    BY <1>10, GoesOn DEF Answers, Codes
  <1>11. ASSUME NEW handler, NEW state, SendtoFails(handler, state)
         PROVE  ControlInv'
    <2>1. mbx' = <<>>
      BY <1>11, NothingSent DEF SendtoFails
    <2> QED
      BY <1>11, <2>1 DEF SendtoFails, Dispatches, ControlInv
  <1>12. CASE ServerNext
    BY <1>1, <1>2, <1>3, <1>4, <1>5, <1>6, <1>7, <1>8, <1>9, <1>10, <1>11, <1>12, ExpectedAfter
       DEF ServerNext, Recvfrom, RecvfromFails, FSM_Ch_Publish_ACK, FSM_Ch_Share_Topic_Data,
           FSM_Ch_Share_All_Topics
  <1>13. CASE UNCHANGED <<State, mbx, pc, socketOpen, dataBuffer>>
    BY <1>13 DEF ControlInv, Expected
  <1> QED
    BY <1>12, <1>13 DEF Next, ServerStep, ClientSends, ClientReceives, NetworkStep, LosesRequest,
       DuplicatesRequest, LosesReply, DuplicatesReply, Fault, vars, serverVars, requestVars

\* The mailbox always holds at most one message, one the state expects.
THEOREM ControlInvariant == Spec => []ControlInv
  BY InitControl, ControlStep, PTL DEF Spec

\* In every behaviour the next message is in the event table for the automate's
\* state: none is lost in the handler for unexpected ones.
THEOREM NoEventUnexpected == Spec => []NoUnexpectedEvent
  <1>1. ControlInv => NoUnexpectedEvent
    BY DEF ControlInv, NoUnexpectedEvent
  <1> QED
    BY <1>1, ControlInvariant, PTL

\* The server stops only after a failed call of the socket library or a request
\* it does not recognize, and it never waits on a closed socket.
THEOREM StopsOnFailureOnly == Spec => []StopsOnlyOnFailure
  <1>1. ControlInv => StopsOnlyOnFailure
    BY DEF ControlInv, StopsOnlyOnFailure
  <1> QED
    BY <1>1, ControlInvariant, PTL
-----------------------------------------------------------------------------
(* Answers and requests.                                                   *)

\* The types that the argument about the datagrams needs
DatagramTypes ==
    /\ rx \in Seq([from : Clients, req : Request])
    /\ cl \in [Clients -> {"gets_s", "recvfrom"}]
    /\ req \in [Clients -> Request \cup {NoRequest}]
    /\ DOMAIN inbox = Clients

\* The handlers between recvfrom and sendto work on a request of client c.
InService(c) ==
    /\ pc = "loop"
    /\ clientAddress = c
    /\ mbx \in {<<"MSG_Store_Data_on_Topic">>, <<"MSG_ACK_Notification">>,
                <<"MSG_Share_Data_on_Topic">>, <<"MSG_Share_All_Topics">>}

\* What the globals hold while a request is served
ServiceInv ==
    /\ pc = "recvfrom" => clientAddress = NoClient /\ dataBuffer = Zeros
    /\ pc = "loop" /\ mbx = <<"MSG_Store_Data_on_Topic">> =>
          clientAddress \in Clients \/ dataBuffer = Zeros
    /\ pc = "loop" /\ mbx = <<"MSG_ACK_Notification">> =>
          clientAddress \in Clients /\ dataBuffer.kind = "PUB"
    /\ pc = "loop" /\ mbx = <<"MSG_Share_Data_on_Topic">> =>
          clientAddress \in Clients /\ dataBuffer.kind = "SUB" /\ currentTopic = dataBuffer.topic
    /\ pc = "loop" /\ mbx = <<"MSG_Share_All_Topics">> =>
          clientAddress \in Clients /\ dataBuffer.kind = "LIST"

Answer(r, q) ==
    /\ r.kind = ReplyKind(q)
    /\ r.topic = q.topic \/ q.kind # "SUB"

\* One datagram in flight for a waiting client, none for the others
OneInFlight ==
    /\ \A i, k \in DOMAIN rx : rx[i].from = rx[k].from => i = k
    /\ \A i \in DOMAIN rx :
          /\ cl[rx[i].from] = "recvfrom"
          /\ rx[i].req = req[rx[i].from]
          /\ inbox[rx[i].from] = <<>>
          /\ ~InService(rx[i].from)
    /\ \A c \in Clients : InService(c) =>
          cl[c] = "recvfrom" /\ dataBuffer = req[c] /\ inbox[c] = <<>>
    /\ \A c \in Clients : inbox[c] # <<>> =>
          /\ cl[c] = "recvfrom"
          /\ inbox[c] = <<Head(inbox[c])>>
          /\ Answer(Head(inbox[c]), req[c])

FlightInv == ControlInv /\ DatagramTypes /\ ServiceInv /\ OneInFlight

LEMMA InitFlight == Init => FlightInv
  <1> SUFFICES ASSUME Init PROVE FlightInv
    OBVIOUS
  <1>1. ControlInv
    BY InitControl
  <1>2. DatagramTypes
    BY DEF Init, ServerInit, DatagramTypes
  <1>3. ServiceInv /\ OneInFlight
    BY DEF Init, ServerInit, ServiceInv, OneInFlight, InService
  <1> QED
    BY <1>1, <1>2, <1>3 DEF FlightInv

\* The queue without its i-th datagram: what is left was there before.
LEMMA RemoveOne ==
  ASSUME NEW S, NEW s \in Seq(S), NEW i \in DOMAIN s
  PROVE  /\ RemoveAt(s, i) \in Seq(S)
         /\ DOMAIN RemoveAt(s, i) = 1..(Len(s) - 1)
         /\ \A k \in 1..(Len(s) - 1) : RemoveAt(s, i)[k] = IF k < i THEN s[k] ELSE s[k + 1]
  <1> DEFINE a == SubSeq(s, 1, i - 1)
             b == SubSeq(s, i + 1, Len(s))
  <1>1. i \in 1..Len(s) /\ Len(s) \in Nat
    OBVIOUS
  <1>2. a \in Seq(S) /\ Len(a) = i - 1 /\ \A k \in 1..(i - 1) : a[k] = s[k]
    BY <1>1
  <1>3. b \in Seq(S) /\ Len(b) = Len(s) - i /\ \A k \in 1..(Len(s) - i) : b[k] = s[i + k]
    BY <1>1
  <1>4. RemoveAt(s, i) = a \o b
    BY DEF RemoveAt
  <1> HIDE DEF a, b
  <1>5. /\ a \o b \in Seq(S)
        /\ Len(a \o b) = Len(a) + Len(b)
        /\ \A k \in 1..(Len(a) + Len(b)) :
              (a \o b)[k] = IF k <= Len(a) THEN a[k] ELSE b[k - Len(a)]
    BY <1>2, <1>3, ConcatProperties
  <1>6. ASSUME NEW k \in 1..(Len(s) - 1)
        PROVE  (a \o b)[k] = IF k < i THEN s[k] ELSE s[k + 1]
    <2>1. k \in 1..(Len(a) + Len(b))
      BY <1>1, <1>2, <1>3
    <2>2. CASE k < i
      BY <1>1, <1>2, <1>5, <2>1, <2>2
    <2>3. CASE ~(k < i)
      <3>1. k - (i - 1) \in 1..(Len(s) - i) /\ i + (k - (i - 1)) = k + 1
        BY <1>1, <2>3
      <3>2. b[k - (i - 1)] = s[k + 1]
        BY <1>3, <3>1
      <3>3. (a \o b)[k] = b[k - (i - 1)]
        BY <1>1, <1>2, <1>5, <2>1, <2>3
      <3> QED
        BY <2>3, <3>2, <3>3
    <2> QED
      BY <2>2, <2>3
  <1>7. Len(a \o b) = Len(s) - 1
    BY <1>1, <1>2, <1>3, <1>5
  <1>8. DOMAIN (a \o b) = 1..(Len(s) - 1)
    BY <1>5, <1>7
  <1> QED
    BY <1>4, <1>5, <1>6, <1>8

LEMMA OneElement ==
  ASSUME NEW r
  PROVE  /\ Append(<<>>, r) = <<r>>
         /\ Head(<<r>>) = r /\ Tail(<<r>>) = <<>> /\ <<r>> # <<>>
         /\ DOMAIN <<r>> = {1}
         /\ RemoveAt(<<r>>, 1) = <<>>
  BY DEF RemoveAt

\* A step that touches no datagram and starts no service keeps the invariant.
LEMMA NoDatagramTouched ==
  ASSUME OneInFlight, UNCHANGED <<rx, inbox, cl, req>>,
         \A c \in Clients : InService(c)' => InService(c) /\ dataBuffer' = dataBuffer,
         rx \in Seq([from : Clients, req : Request])
  PROVE  OneInFlight'
  <1>1. \A i \in DOMAIN rx : rx[i].from \in Clients
    <2>1. DOMAIN rx = 1..Len(rx)
      OBVIOUS
    <2>2. \A i \in DOMAIN rx : rx[i] \in [from : Clients, req : Request]
      BY <2>1, ElementOfSeq
    <2> QED
      BY <2>2
  <1>2. \A i \in DOMAIN rx : ~InService(rx[i].from)'
    BY <1>1 DEF OneInFlight, InService
  <1>3. \A c \in Clients : InService(c)' =>
           cl[c] = "recvfrom" /\ dataBuffer' = req[c] /\ inbox[c] = <<>>
    BY DEF OneInFlight
  <1> QED
    BY <1>2, <1>3 DEF OneInFlight, Answer

LEMMA NotInService ==
  ASSUME mbx' = <<>> \/ pc' # "loop" \/ mbx' = <<"MSG_Stay_Connected">>
         \/ mbx' = <<"MSG_Channel_Wait_Cl_Message">> \/ mbx' = <<"MSG_Channel_Connection_Failed">>
  PROVE  \A c \in Clients : ~InService(c)'
  BY DEF InService

\* The server's steps that neither receive nor send a datagram
LEMMA InternalStep ==
  ASSUME FlightInv, UNCHANGED <<cl, req>>,
         \/ Start \/ StartFails \/ FSM_Ch_Idle_Cl_Failed \/ FSM_Ch_Idle_Cl_Connected
         \/ NotRecognized \/ \E handler, state : SendtoFails(handler, state)
  PROVE  DatagramTypes' /\ ServiceInv' /\ OneInFlight'
  <1> USE DEF FlightInv
  <1>1. UNCHANGED <<rx, inbox>>
    BY DEF Start, StartFails, FSM_Ch_Idle_Cl_Failed, FSM_Ch_Idle_Cl_Connected, NotRecognized,
           Recognizes, SendtoFails
  <1>2. \/ mbx' = <<>> \/ mbx' = <<"MSG_Channel_Wait_Cl_Message">>
        \/ mbx' = <<"MSG_Channel_Connection_Failed">>
    BY NothingSent DEF Start, StartFails, FSM_Ch_Idle_Cl_Failed, FSM_Ch_Idle_Cl_Connected,
           NotRecognized, Recognizes, SendtoFails
  <1>3. pc' = "recvfrom" => clientAddress' = NoClient /\ dataBuffer' = Zeros
    BY DEF Start, StartFails, FSM_Ch_Idle_Cl_Failed, FSM_Ch_Idle_Cl_Connected, NotRecognized,
           Recognizes, SendtoFails, Dispatches
  <1>4. DatagramTypes'
    BY <1>1 DEF DatagramTypes
  <1>5. ServiceInv'
    BY <1>2, <1>3 DEF ServiceInv
  <1>6. OneInFlight'
    BY <1>1, <1>2, NotInService, NoDatagramTouched DEF DatagramTypes
  <1> QED
    BY <1>4, <1>5, <1>6

\* Members of the receive queue are datagrams of clients.
LEMMA Datagrams ==
  ASSUME DatagramTypes
  PROVE  /\ DOMAIN rx = 1..Len(rx) /\ Len(rx) \in Nat
         /\ \A i \in DOMAIN rx : rx[i] \in [from : Clients, req : Request]
         /\ \A i \in DOMAIN rx : rx[i].from \in Clients /\ rx[i].req \in Request
  <1>1. DOMAIN rx = 1..Len(rx) /\ Len(rx) \in Nat
    BY DEF DatagramTypes
  <1>2. \A i \in DOMAIN rx : rx[i] \in [from : Clients, req : Request]
    BY <1>1, ElementOfSeq DEF DatagramTypes
  <1> QED
    BY <1>1, <1>2

\* The request at the head of the queue becomes the one in service.
LEMMA RecvfromStep ==
  ASSUME FlightInv, UNCHANGED <<cl, req>>, Recvfrom
  PROVE  DatagramTypes' /\ ServiceInv' /\ OneInFlight'
  <1> USE DEF FlightInv
  <1> DEFINE c0 == rx[1].from
  <1>1. rx # <<>> /\ 1 \in DOMAIN rx /\ Head(rx) = rx[1] /\ c0 \in Clients
    BY Datagrams DEF Recvfrom, DatagramTypes
  <1>2. /\ rx' \in Seq([from : Clients, req : Request])
        /\ DOMAIN rx' = 1..(Len(rx) - 1)
        /\ \A i \in DOMAIN rx' : i + 1 \in DOMAIN rx /\ rx'[i] = rx[i + 1]
    BY <1>1, Datagrams DEF Recvfrom, DatagramTypes
  <1>3. /\ pc' = "loop" /\ mbx' = Append(<<>>, "MSG_Store_Data_on_Topic")
        /\ clientAddress' = c0 /\ dataBuffer' = rx[1].req /\ inbox' = inbox
    BY <1>1 DEF Recvfrom, LeavesRecvfrom, ControlInv
  <1>4. mbx' = <<"MSG_Store_Data_on_Topic">>
    BY <1>3, OneElement
  <1>5. \A c \in Clients : InService(c)' <=> c = c0
    BY <1>3, <1>4 DEF InService
  <1>6. DatagramTypes'
    BY <1>2, <1>3 DEF DatagramTypes
  <1>7. ServiceInv'
    BY <1>1, <1>3, <1>4 DEF ServiceInv
  <1>8. \A i \in DOMAIN rx' : rx'[i].from \in Clients /\ rx'[i].from # c0
    BY <1>1, <1>2, Datagrams DEF OneInFlight
  <1>9. cl[c0] = "recvfrom" /\ rx[1].req = req[c0] /\ inbox[c0] = <<>>
    BY <1>1 DEF OneInFlight
  <1>10. OneInFlight'
    <2>1. \A i, k \in DOMAIN rx' : rx'[i].from = rx'[k].from => i = k
      <3> SUFFICES ASSUME NEW i \in DOMAIN rx', NEW k \in DOMAIN rx', rx'[i].from = rx'[k].from
                   PROVE  i = k
        OBVIOUS
      <3>1. i + 1 = k + 1
        BY <1>2 DEF OneInFlight
      <3> QED
        BY <1>2, <3>1, Datagrams
    <2>2. \A i \in DOMAIN rx' : /\ cl'[rx'[i].from] = "recvfrom"
                                /\ rx'[i].req = req'[rx'[i].from]
                                /\ inbox'[rx'[i].from] = <<>>
      BY <1>2, <1>3 DEF OneInFlight
    <2>3. \A i \in DOMAIN rx' : ~InService(rx[i].from)'
      BY <1>8, <1>3 DEF InService
    <2>4. \A c \in Clients : InService(c)' =>
             cl'[c] = "recvfrom" /\ dataBuffer' = req'[c] /\ inbox'[c] = <<>>
      BY <1>3, <1>5, <1>9
    <2>5. \A c \in Clients : inbox'[c] # <<>> =>
             /\ cl'[c] = "recvfrom"
             /\ inbox'[c] = <<Head(inbox'[c])>>
             /\ Answer(Head(inbox'[c]), req'[c])
      BY <1>3 DEF OneInFlight
    <2> QED
      BY <2>1, <2>2, <2>3, <2>4, <2>5 DEF OneInFlight, Answer
  <1> QED
    BY <1>6, <1>7, <1>10

\* After a failed recvfrom no client is in service.
LEMMA RecvfromFailsStep ==
  ASSUME FlightInv, UNCHANGED <<cl, req>>, RecvfromFails
  PROVE  DatagramTypes' /\ ServiceInv' /\ OneInFlight'
  <1> USE DEF FlightInv
  <1>1. /\ UNCHANGED <<rx, inbox, clientAddress, dataBuffer>> /\ pc' = "loop"
        /\ mbx' = Append(<<>>, "MSG_Store_Data_on_Topic")
        /\ clientAddress = NoClient /\ dataBuffer = Zeros
    BY DEF RecvfromFails, LeavesRecvfrom, requestVars, ControlInv, ServiceInv
  <1>2. mbx' = <<"MSG_Store_Data_on_Topic">>
    BY <1>1, OneElement
  <1>3. \A c \in Clients : ~InService(c)'
    BY <1>1, ServerAssumption DEF InService
  <1>4. DatagramTypes' /\ ServiceInv'
    BY <1>1, <1>2 DEF DatagramTypes, ServiceInv
  <1>5. OneInFlight'
    BY <1>1, <1>3, NoDatagramTouched DEF DatagramTypes
  <1> QED
    BY <1>4, <1>5

\* The request in service stays so until it is answered.
LEMMA ServiceStep ==
  ASSUME FlightInv, UNCHANGED <<cl, req>>, Publish \/ Subscribe \/ List
  PROVE  DatagramTypes' /\ ServiceInv' /\ OneInFlight'
  <1> USE DEF FlightInv
  <1>1. /\ UNCHANGED <<rx, inbox, clientAddress, dataBuffer, pc>>
        /\ Dispatches("FSM_Ch_Store_Data_SubPub")
        /\ dataBuffer.kind \in {"PUB", "SUB", "LIST"}
    BY DEF Publish, Subscribe, List, Recognizes
  <1>2. pc = "loop" /\ mbx = <<"MSG_Store_Data_on_Topic">>
    BY <1>1, DispatchedMessage DEF EventTable, Dispatches
  <1>3. clientAddress \in Clients
    BY <1>1, <1>2 DEF ServiceInv, Zeros
  <1>4. \/ mbx' = <<"MSG_ACK_Notification">> /\ dataBuffer.kind = "PUB"
        \/ /\ mbx' = <<"MSG_Share_Data_on_Topic">> /\ dataBuffer.kind = "SUB"
           /\ currentTopic' = dataBuffer.topic
        \/ mbx' = <<"MSG_Share_All_Topics">> /\ dataBuffer.kind = "LIST"
    BY <1>1, SentMessage DEF Publish, Subscribe, List, Recognizes, Codes
  <1>5. DatagramTypes' /\ ServiceInv'
    BY <1>1, <1>2, <1>3, <1>4 DEF DatagramTypes, ServiceInv
  <1>6. \A c \in Clients : InService(c)' => InService(c) /\ dataBuffer' = dataBuffer
    BY <1>1, <1>2 DEF InService
  <1>7. OneInFlight'
    BY <1>1, <1>6, NoDatagramTouched DEF DatagramTypes
  <1> QED
    BY <1>5, <1>7

\* The reply goes to the client in service and answers its request.
LEMMA AnswerStep ==
  ASSUME FlightInv, UNCHANGED <<cl, req>>, NEW handler, NEW state, NEW reply,
         Answers(handler, state, reply),
         \/ handler = "FSM_Ch_Publish_ACK" /\ reply = AckReply
         \/ handler = "FSM_Ch_Share_Topic_Data" /\ reply = ShareReply
         \/ handler = "FSM_Ch_Share_All_Topics" /\ reply = AllTopicsReply
  PROVE  DatagramTypes' /\ ServiceInv' /\ OneInFlight'
  <1> USE DEF FlightInv
  <1> DEFINE c0 == clientAddress
  <1>1. /\ UNCHANGED <<rx, clientAddress, dataBuffer, pc>> /\ Dispatches(handler) /\ pc = "loop"
        /\ inbox' = [inbox EXCEPT ![c0] = Append(@, reply)]
    BY DEF Answers, Dispatches, requestVars
  <1>2. mbx' = <<"MSG_Stay_Connected">>
    BY <1>1, SentMessage DEF Answers, Codes
  <1>3. /\ handler = "FSM_Ch_Publish_ACK" => mbx = <<"MSG_ACK_Notification">>
        /\ handler = "FSM_Ch_Share_Topic_Data" => mbx = <<"MSG_Share_Data_on_Topic">>
        /\ handler = "FSM_Ch_Share_All_Topics" => mbx = <<"MSG_Share_All_Topics">>
    BY <1>1, DispatchedMessage DEF EventTable
  <1>4. InService(c0) /\ c0 \in Clients
    BY <1>1, <1>3 DEF InService, ServiceInv
  <1>5. cl[c0] = "recvfrom" /\ dataBuffer = req[c0] /\ inbox[c0] = <<>>
    BY <1>4 DEF OneInFlight
  <1>6. Answer(reply, req[c0])
    <2>1. /\ handler = "FSM_Ch_Publish_ACK" => req[c0].kind = "PUB"
          /\ handler = "FSM_Ch_Share_Topic_Data" => req[c0].kind = "SUB" /\ currentTopic = req[c0].topic
          /\ handler = "FSM_Ch_Share_All_Topics" => req[c0].kind = "LIST"
      BY <1>1, <1>3, <1>5 DEF ServiceInv
    <2> QED
      BY <2>1 DEF Answer, ReplyKind, AckReply, ShareReply, AllTopicsReply
  <1>7. /\ DOMAIN inbox' = Clients
        /\ inbox'[c0] = <<reply>>
        /\ \A c \in Clients \ {c0} : inbox'[c] = inbox[c]
    BY <1>1, <1>4, <1>5, OneElement DEF DatagramTypes
  <1>8. \A c \in Clients : ~InService(c)'
    BY <1>2, NotInService
  <1>9. DatagramTypes' /\ ServiceInv'
    BY <1>1, <1>2, <1>7 DEF DatagramTypes, ServiceInv
  <1>10. OneInFlight'
    <2>1. \A i \in DOMAIN rx : rx[i].from \in Clients /\ rx[i].from # c0
      BY <1>4, Datagrams DEF OneInFlight
    <2>2. \A i \in DOMAIN rx' : /\ cl'[rx'[i].from] = "recvfrom"
                                /\ rx'[i].req = req'[rx'[i].from]
                                /\ inbox'[rx'[i].from] = <<>>
      BY <1>1, <1>7, <2>1 DEF OneInFlight
    <2>3. \A i \in DOMAIN rx' : ~InService(rx[i].from)'
      BY <1>1, <1>2 DEF InService
    <2>4. \A c \in Clients : inbox'[c] # <<>> =>
             /\ cl'[c] = "recvfrom"
             /\ inbox'[c] = <<Head(inbox'[c])>>
             /\ Answer(Head(inbox'[c]), req'[c])
      <3> TAKE c \in Clients
      <3>1. CASE c = c0
        BY <3>1, <1>5, <1>6, <1>7, OneElement
      <3>2. CASE c # c0
        BY <3>2, <1>7 DEF OneInFlight
      <3> QED
        BY <3>1, <3>2
    <2> QED
      BY <1>1, <1>8, <2>2, <2>3, <2>4 DEF OneInFlight, Answer
  <1> QED
    BY <1>9, <1>10

LEMMA ServerKeepsFlight ==
  ASSUME FlightInv, ServerStep
  PROVE  DatagramTypes' /\ ServiceInv' /\ OneInFlight'
  <1>1. UNCHANGED <<cl, req>>
    BY DEF ServerStep, clientVars
  <1>2. CASE FSM_Ch_Publish_ACK \/ FSM_Ch_Share_Topic_Data \/ FSM_Ch_Share_All_Topics
    BY <1>1, <1>2, AnswerStep, InternalStep
       DEF FSM_Ch_Publish_ACK, FSM_Ch_Share_Topic_Data, FSM_Ch_Share_All_Topics
  <1> QED
    BY <1>1, <1>2, InternalStep, RecvfromStep, RecvfromFailsStep, ServiceStep
       DEF ServerStep, ServerNext

\* A client that is not waiting has nothing in flight, so its request is the
\* only datagram of its own.
LEMMA ClientSendsStep ==
  ASSUME FlightInv, NEW c0 \in Clients, NEW r \in Request, ClientSends(c0, r)
  PROVE  DatagramTypes' /\ ServiceInv' /\ OneInFlight'
  <1> USE DEF FlightInv
  <1>1. /\ UNCHANGED <<mbx, pc, clientAddress, dataBuffer, currentTopic, inbox>>
        /\ cl[c0] = "gets_s"
        /\ cl' = [cl EXCEPT ![c0] = "recvfrom"] /\ req' = [req EXCEPT ![c0] = r]
        /\ rx' = Append(rx, [from |-> c0, req |-> r])
    BY DEF ClientSends, requestVars
  <1>2. /\ DOMAIN rx = 1..Len(rx) /\ Len(rx) \in Nat
        /\ rx' \in Seq([from : Clients, req : Request])
        /\ DOMAIN rx' = 1..(Len(rx) + 1)
        /\ rx'[Len(rx) + 1] = [from |-> c0, req |-> r]
        /\ \A i \in DOMAIN rx : rx'[i] = rx[i]
    BY <1>1, Datagrams DEF DatagramTypes
  <1>3. /\ \A i \in DOMAIN rx : rx[i].from \in Clients /\ rx[i].from # c0
        /\ ~InService(c0) /\ inbox[c0] = <<>>
    BY <1>1, Datagrams DEF OneInFlight
  <1>4. DatagramTypes' /\ ServiceInv'
    BY <1>1, <1>2 DEF DatagramTypes, ServiceInv
  <1>5. \A c \in Clients : InService(c)' <=> InService(c)
    BY <1>1 DEF InService
  <1>6. \A c \in Clients : c # c0 => cl'[c] = cl[c] /\ req'[c] = req[c]
    BY <1>1 DEF DatagramTypes
  <1>7. cl'[c0] = "recvfrom" /\ req'[c0] = r
    BY <1>1 DEF DatagramTypes
  <1>8. \A i \in DOMAIN rx' : i \in DOMAIN rx \/ i = Len(rx) + 1
    BY <1>2
  <1>9. OneInFlight'
    <2>1. \A i, k \in DOMAIN rx' : rx'[i].from = rx'[k].from => i = k
      BY <1>2, <1>3, <1>8 DEF OneInFlight
    <2>2. \A i \in DOMAIN rx' : /\ cl'[rx'[i].from] = "recvfrom"
                                /\ rx'[i].req = req'[rx'[i].from]
                                /\ inbox'[rx'[i].from] = <<>>
      BY <1>1, <1>2, <1>3, <1>6, <1>7, <1>8 DEF OneInFlight
    <2>3. \A i \in DOMAIN rx' : ~InService(rx[i].from)'
      <3> SUFFICES ASSUME NEW i \in DOMAIN rx' PROVE ~InService(rx[i].from)'
        OBVIOUS
      <3>1. CASE i \in DOMAIN rx
        BY <3>1, <1>1, <1>2 DEF OneInFlight, InService
      <3>2. CASE i = Len(rx) + 1
        BY <3>2, <1>1, <1>2, <1>3 DEF InService
      <3> QED
        BY <3>1, <3>2, <1>8
    <2>4. \A c \in Clients : InService(c)' =>
             cl'[c] = "recvfrom" /\ dataBuffer' = req'[c] /\ inbox'[c] = <<>>
      BY <1>1, <1>3, <1>5, <1>6 DEF OneInFlight
    <2>5. \A c \in Clients : inbox'[c] # <<>> =>
             /\ cl'[c] = "recvfrom"
             /\ inbox'[c] = <<Head(inbox'[c])>>
             /\ Answer(Head(inbox'[c]), req'[c])
      BY <1>1, <1>3, <1>6 DEF OneInFlight
    <2> QED
      BY <2>1, <2>2, <2>3, <2>4, <2>5 DEF OneInFlight, Answer
  <1> QED
    BY <1>4, <1>9

\* A datagram in a client's socket is the only one of that client.
LEMMA OnlyDatagram ==
  ASSUME FlightInv, NEW c0 \in Clients, inbox[c0] # <<>>
  PROVE  /\ inbox[c0] = <<Head(inbox[c0])>>
         /\ \A i \in DOMAIN rx : rx[i].from # c0
         /\ ~InService(c0)
  BY DEF FlightInv, OneInFlight

\* Emptying a client's socket keeps the invariant, whether the client goes on
\* or still waits.
LEMMA InboxEmptied ==
  ASSUME FlightInv, NEW c0 \in Clients, inbox[c0] # <<>>,
         inbox' = [inbox EXCEPT ![c0] = <<>>],
         cl' = cl \/ cl' = [cl EXCEPT ![c0] = "gets_s"],
         UNCHANGED <<req, rx, mbx, pc, clientAddress, dataBuffer, currentTopic>>
  PROVE  DatagramTypes' /\ ServiceInv' /\ OneInFlight'
  <1> USE DEF FlightInv
  <1>1. DatagramTypes' /\ ServiceInv'
    BY DEF DatagramTypes, ServiceInv
  <1>2. /\ \A c \in Clients : c # c0 => cl'[c] = cl[c] /\ inbox'[c] = inbox[c]
        /\ inbox'[c0] = <<>>
    BY DEF DatagramTypes
  <1>3. \A c : InService(c)' <=> InService(c)
    BY DEF InService
  <1>4. \A i \in DOMAIN rx : rx[i].from \in Clients /\ rx[i].from # c0
    BY OnlyDatagram, Datagrams
  <1>5. \A i \in DOMAIN rx' : /\ cl'[rx'[i].from] = "recvfrom"
                              /\ rx'[i].req = req'[rx'[i].from]
                              /\ inbox'[rx'[i].from] = <<>>
    BY <1>2, <1>4 DEF OneInFlight
  <1>6. \A i \in DOMAIN rx' : ~InService(rx[i].from)'
    BY DEF OneInFlight, InService
  <1>7. \A c \in Clients : InService(c)' =>
           cl'[c] = "recvfrom" /\ dataBuffer' = req'[c] /\ inbox'[c] = <<>>
    BY <1>2, <1>3, OnlyDatagram DEF OneInFlight
  <1>8. \A c \in Clients : inbox'[c] # <<>> =>
           /\ cl'[c] = "recvfrom"
           /\ inbox'[c] = <<Head(inbox'[c])>>
           /\ Answer(Head(inbox'[c]), req'[c])
    BY <1>2 DEF OneInFlight
  <1>9. OneInFlight'
    BY <1>5, <1>6, <1>7, <1>8 DEF OneInFlight, Answer
  <1> QED
    BY <1>1, <1>9

LEMMA ClientReceivesStep ==
  ASSUME FlightInv, NEW c0 \in Clients, ClientReceives(c0)
  PROVE  DatagramTypes' /\ ServiceInv' /\ OneInFlight'
  <1>1. Tail(inbox[c0]) = <<>>
    BY OnlyDatagram, OneElement DEF ClientReceives
  <1>2. inbox' = [inbox EXCEPT ![c0] = <<>>]
    BY <1>1, Zenon DEF ClientReceives
  <1> QED
    BY <1>2, InboxEmptied DEF ClientReceives, requestVars

LEMMA LosesReplyStep ==
  ASSUME FlightInv, LosesReply
  PROVE  DatagramTypes' /\ ServiceInv' /\ OneInFlight'
  <1>1. PICK c0 \in Clients : \E i \in DOMAIN inbox[c0] : inbox' = [inbox EXCEPT ![c0] = RemoveAt(@, i)]
    BY DEF LosesReply
  <1>2. PICK i \in DOMAIN inbox[c0] : inbox' = [inbox EXCEPT ![c0] = RemoveAt(@, i)]
    BY <1>1
  <1>3. inbox[c0] # <<>>
    BY <1>2
  <1>4. i = 1
    BY <1>2, <1>3, OnlyDatagram, OneElement
  <1>5. RemoveAt(inbox[c0], i) = <<>>
    BY <1>3, <1>4, OnlyDatagram, OneElement
  <1>6. inbox' = [inbox EXCEPT ![c0] = <<>>]
    BY <1>2, <1>5, Zenon
  <1> QED
    BY <1>3, <1>6, InboxEmptied DEF LosesReply, Fault, requestVars, clientVars

\* A lost request leaves its client waiting with nothing in flight.
LEMMA LosesRequestStep ==
  ASSUME FlightInv, LosesRequest
  PROVE  DatagramTypes' /\ ServiceInv' /\ OneInFlight'
  <1> USE DEF FlightInv
  <1>1. PICK i0 \in DOMAIN rx : rx' = RemoveAt(rx, i0)
    BY DEF LosesRequest
  <1>2. UNCHANGED <<mbx, pc, clientAddress, dataBuffer, currentTopic, inbox, cl, req>>
    BY DEF LosesRequest, Fault, requestVars, clientVars
  <1>3. /\ rx' \in Seq([from : Clients, req : Request])
        /\ DOMAIN rx' = 1..(Len(rx) - 1)
        /\ \A k \in 1..(Len(rx) - 1) : rx'[k] = IF k < i0 THEN rx[k] ELSE rx[k + 1]
    BY <1>1, RemoveOne DEF DatagramTypes
  <1> DEFINE old(k) == IF k < i0 THEN k ELSE k + 1
  <1>4. \A k \in DOMAIN rx' : old(k) \in DOMAIN rx /\ rx'[k] = rx[old(k)]
    BY <1>1, <1>3, Datagrams
  <1>5. \A k, l \in DOMAIN rx' : old(k) = old(l) => k = l
    BY <1>1, <1>3, Datagrams
  <1>6. DatagramTypes' /\ ServiceInv'
    BY <1>2, <1>3 DEF DatagramTypes, ServiceInv
  <1> HIDE DEF old
  <1>7. OneInFlight'
    <2>1. \A k, l \in DOMAIN rx' : rx'[k].from = rx'[l].from => k = l
      BY <1>4, <1>5 DEF OneInFlight
    <2>2. \A k \in DOMAIN rx' : /\ cl'[rx'[k].from] = "recvfrom"
                                /\ rx'[k].req = req'[rx'[k].from]
                                /\ inbox'[rx'[k].from] = <<>>
      BY <1>2, <1>4 DEF OneInFlight
    <2>3. \A k \in DOMAIN rx' : ~InService(rx[k].from)'
      BY <1>2, <1>4 DEF OneInFlight, InService
    <2>4. \A c \in Clients : InService(c)' =>
             cl'[c] = "recvfrom" /\ dataBuffer' = req'[c] /\ inbox'[c] = <<>>
      BY <1>2 DEF OneInFlight, InService
    <2>5. \A c \in Clients : inbox'[c] # <<>> =>
             /\ cl'[c] = "recvfrom"
             /\ inbox'[c] = <<Head(inbox'[c])>>
             /\ Answer(Head(inbox'[c]), req'[c])
      BY <1>2 DEF OneInFlight
    <2> QED
      BY <2>1, <2>2, <2>3, <2>4, <2>5 DEF OneInFlight, Answer
  <1> QED
    BY <1>6, <1>7

LEMMA FlightStep ==
  ASSUME FlightInv, [Next]_vars, ~DuplicatesRequest, ~DuplicatesReply
  PROVE  FlightInv'
  <1> SUFFICES DatagramTypes' /\ ServiceInv' /\ OneInFlight'
    BY ControlStep DEF FlightInv
  <1>1. CASE ServerStep
    BY <1>1, ServerKeepsFlight
  <1>2. ASSUME NEW c \in Clients, NEW r \in Asked, ClientSends(c, r)
        PROVE  DatagramTypes' /\ ServiceInv' /\ OneInFlight'
    <2>1. r \in Request
      BY NetworkAssumption
    <2> QED
      BY <1>2, <2>1, ClientSendsStep
  <1>3. CASE \E c \in Clients : ClientReceives(c)
    BY <1>3, ClientReceivesStep
  <1>4. CASE NetworkStep
    BY <1>4, LosesRequestStep, LosesReplyStep DEF NetworkStep
  <1>5. CASE UNCHANGED vars
    BY <1>5 DEF FlightInv, DatagramTypes, ServiceInv, OneInFlight, InService, Answer,
       vars, serverVars, requestVars
  <1> QED
    BY <1>1, <1>2, <1>3, <1>4, <1>5 DEF Next

\* The invariant lasts until the first duplication, and duplications are counted.
UndisturbedInv == faults \in [Network -> Nat] /\ (NoDuplicates => FlightInv)

LEMMA CountStep ==
  ASSUME faults \in [Network -> Nat], [Next]_vars
  PROVE  /\ faults' \in [Network -> Nat]
         /\ NoDuplicates' => NoDuplicates /\ ~DuplicatesRequest /\ ~DuplicatesReply
  <1>1. ASSUME NEW kind \in {"lose", "duplicate"}, Fault(kind)
        PROVE  /\ faults' \in [Network -> Nat]
               /\ NoDuplicates' => NoDuplicates /\ kind # "duplicate"
    BY <1>1 DEF Fault, NoDuplicates
  <1>2. CASE LosesRequest \/ LosesReply \/ DuplicatesRequest \/ DuplicatesReply
    <2>1. DuplicatesRequest \/ DuplicatesReply => ~NoDuplicates'
      BY <1>1 DEF DuplicatesRequest, DuplicatesReply
    <2>2. faults' \in [Network -> Nat] /\ (NoDuplicates' => NoDuplicates)
      BY <1>2, <1>1 DEF LosesRequest, LosesReply, DuplicatesRequest, DuplicatesReply
    <2> QED
      BY <2>1, <2>2
  <1>3. CASE ~(LosesRequest \/ LosesReply \/ DuplicatesRequest \/ DuplicatesReply)
    <2>1. UNCHANGED faults
      BY <1>3 DEF Next, NetworkStep, ServerStep, ClientSends, ClientReceives, vars
    <2> QED
      BY <1>3, <2>1 DEF NoDuplicates
  <1> QED
    BY <1>2, <1>3

\* Until the network duplicates a datagram, whatever it loses and whichever calls
\* fail, the answer a client is about to read answers the request it waits for.
THEOREM AnswersMatch == Spec => []AnswerMatches
  <1>1. Init => UndisturbedInv
    BY InitFlight DEF UndisturbedInv, Init
  <1>2. UndisturbedInv /\ [Next]_vars => UndisturbedInv'
    BY FlightStep, CountStep DEF UndisturbedInv
  <1>3. UndisturbedInv => AnswerMatches
    BY DEF UndisturbedInv, FlightInv, OneInFlight, Answer, AnswerMatches
  <1> QED
    BY <1>1, <1>2, <1>3, PTL DEF Spec
-----------------------------------------------------------------------------
(* C strings in rows.                                                      *)

\* A row is a sequence of RowLen cells.
LEMMA Rows ==
  ASSUME NEW row \in Row
  PROVE  /\ row \in Seq(Cell) /\ Len(row) = RowLen /\ RowLen \in Nat \ {0}
         /\ \A i \in 1..RowLen : row[i] \in Cell
  <1>1. RowLen \in Nat \ {0}
    BY StoreAssumption
  <1>2. row \in [1..RowLen -> Cell]
    BY DEF Row
  <1>3. row \in Seq(Cell)
    BY <1>1, <1>2
  <1>4. Len(row) = RowLen
    BY <1>1, <1>2, <1>3
  <1> QED
    BY <1>1, <1>2, <1>3, <1>4

\* The length of the C string in a row that has a terminator
LEMMA StrlenIs ==
  ASSUME NEW row \in Row, row[RowLen] = "NUL"
  PROVE  /\ Strlen(row) \in 0..(RowLen - 1)
         /\ row[Strlen(row) + 1] = "NUL"
         /\ \A i \in 1..Strlen(row) : row[i] # "NUL"
  <1> DEFINE I == {i \in 1..Len(row) : row[i] = "NUL"}
  <1>1. PICK at : at = IF I # {} THEN Min(I) ELSE 0
    OBVIOUS
  <1>2. Strlen(row) = at - 1
    BY <1>1 DEF Strlen, SelectInSeq
  <1>3. Len(row) = RowLen /\ RowLen \in Nat \ {0}
    BY Rows
  <1>4. RowLen \in I /\ I \in SUBSET (1..RowLen)
    BY <1>3
  <1> HIDE DEF I
  <1>5. at \in I /\ \A i \in I : at =< i
    BY <1>1, <1>3, <1>4, FirstIndex
  <1>6. at \in 1..RowLen /\ row[at] = "NUL"
    BY <1>3, <1>5 DEF I
  <1>7. \A i \in 1..(at - 1) : i \in 1..RowLen /\ ~ (at =< i)
    BY <1>3, <1>6
  <1>8. \A i \in 1..(at - 1) : row[i] # "NUL"
    BY <1>3, <1>5, <1>7 DEF I
  <1>9. at - 1 \in 0..(RowLen - 1) /\ (at - 1) + 1 = at
    BY <1>3, <1>6
  <1> QED
    BY <1>2, <1>6, <1>8, <1>9

\* The first terminator gives the length.
LEMMA StrlenUnique ==
  ASSUME NEW row \in Row, row[RowLen] = "NUL", NEW L \in 0..(RowLen - 1),
         row[L + 1] = "NUL", \A i \in 1..L : row[i] # "NUL"
  PROVE  Strlen(row) = L
  <1>1. PICK k : k = Strlen(row)
    OBVIOUS
  <1>2. k \in 0..(RowLen - 1) /\ row[k + 1] = "NUL" /\ \A i \in 1..k : row[i] # "NUL"
    BY <1>1, StrlenIs
  <1>3. RowLen \in Nat
    BY StoreAssumption
  <1>4. ~ (k < L) /\ ~ (L < k)
    <2>1. k < L => k + 1 \in 1..L
      BY <1>2, <1>3
    <2>2. L < k => L + 1 \in 1..k
      BY <1>2, <1>3
    <2> QED
      BY <1>2, <2>1, <2>2
  <1> QED
    BY <1>1, <1>2, <1>3, <1>4

\* The text of a row is its cells in front of the terminator.
LEMMA TextIs ==
  ASSUME NEW row \in Row, row[RowLen] = "NUL"
  PROVE  /\ Text(row) \in Seq(Cell)
         /\ Len(Text(row)) = Strlen(row)
         /\ \A i \in 1..Strlen(row) : Text(row)[i] = row[i]
  <1>1. PICK k : k = Strlen(row)
    OBVIOUS
  <1>2. k \in 0..(RowLen - 1) /\ row \in Seq(Cell) /\ Len(row) = RowLen /\ RowLen \in Nat
    BY <1>1, StrlenIs, Rows
  <1>3. PICK u : u = SubSeq(row, 1, k)
    OBVIOUS
  <1>4. u \in Seq(Cell) /\ Len(u) = k /\ \A i \in 1..k : u[i] = row[i]
    BY <1>2, <1>3
  <1> QED
    BY <1>1, <1>3, <1>4 DEF Text

\* The text in front of the first c
LEMMA BeforeIs ==
  ASSUME NEW S, NEW text \in Seq(S), NEW c, NEW m \in 0..(Len(text) - 1),
         text[m + 1] = c, \A i \in 1..m : text[i] # c
  PROVE  Before(text, c) = SubSeq(text, 1, m)
  <1> DEFINE I == {i \in 1..Len(text) : text[i] = c}
  <1>1. PICK at : at = IF I # {} THEN Min(I) ELSE 0
    OBVIOUS
  <1>2. Before(text, c) = IF at = 0 THEN text ELSE SubSeq(text, 1, at - 1)
    BY <1>1 DEF Before, SelectInSeq
  <1>3. Len(text) \in Nat /\ m + 1 \in 1..Len(text)
    OBVIOUS
  <1>4. m + 1 \in I /\ I \in SUBSET (1..Len(text))
    BY <1>3
  <1> HIDE DEF I
  <1>5. at \in I /\ at =< m + 1
    BY <1>1, <1>3, <1>4, FirstIndex
  <1>6. at \in 1..Len(text) /\ text[at] = c
    BY <1>5 DEF I
  <1>7. ~ (at \in 1..m)
    BY <1>6
  <1>8. at = m + 1
    BY <1>3, <1>5, <1>6, <1>7
  <1>9. at # 0 /\ at - 1 = m
    BY <1>3, <1>8
  <1> QED
    BY <1>2, <1>9, Zenon

\* What is in front of a cell has the cells of the text.
LEMMA BeforeType ==
  ASSUME NEW S, NEW text \in Seq(S), NEW c
  PROVE  Before(text, c) \in Seq(S)
  <1> DEFINE I == {i \in 1..Len(text) : text[i] = c}
  <1>1. PICK at : at = IF I # {} THEN Min(I) ELSE 0
    OBVIOUS
  <1>2. Before(text, c) = IF at = 0 THEN text ELSE SubSeq(text, 1, at - 1)
    BY <1>1 DEF Before, SelectInSeq
  <1>3. Len(text) \in Nat /\ I \in SUBSET (1..Len(text))
    OBVIOUS
  <1>4. at \in 0..Len(text)
    BY <1>1, <1>3, FirstIndex
  <1> HIDE DEF I
  <1>5. at # 0 => SubSeq(text, 1, at - 1) \in Seq(S)
    BY <1>3, <1>4
  <1> QED
    BY <1>2, <1>5

\* The prefix of a name that is copied consists of letters.
LEMMA UpperPrefixType ==
  ASSUME NEW name \in Seq(Letter)
  PROVE  UpperPrefix(name) \in Seq(Letter)
  <1> DEFINE I == {i \in 1..Len(name) : name[i] \notin Upper}
  <1>1. PICK at : at = IF I # {} THEN Min(I) ELSE 0
    OBVIOUS
  <1>2. UpperPrefix(name) = IF at = 0 THEN name ELSE SubSeq(name, 1, at - 1)
    BY <1>1 DEF UpperPrefix, SelectInSeq
  <1>3. Len(name) \in Nat /\ I \in SUBSET (1..Len(name))
    OBVIOUS
  <1>4. at \in 0..Len(name)
    BY <1>1, <1>3, FirstIndex
  <1> HIDE DEF I
  <1>5. at # 0 => SubSeq(name, 1, at - 1) \in Seq(Letter)
    BY <1>3, <1>4
  <1> QED
    BY <1>2, <1>5

-----------------------------------------------------------------------------
(* Writing into rows.                                                      *)

\* Writing into a row
LEMMA WriteIs ==
  ASSUME NEW row \in Row, NEW pos \in Nat, NEW s \in Seq(Cell), Fits(row, pos, s)
  PROVE  /\ Write(row, pos, s) \in Row
         /\ \A i \in 1..RowLen : ~ (i \in (pos + 1)..(pos + Len(s))) => Write(row, pos, s)[i] = row[i]
         /\ \A i \in 1..Len(s) : pos + i \in 1..RowLen /\ Write(row, pos, s)[pos + i] = s[i]
  <1>1. Len(s) \in Nat /\ RowLen \in Nat /\ pos + Len(s) =< RowLen
    BY StoreAssumption DEF Fits
  <1> DEFINE r == Write(row, pos, s)
  <1>2. \A i \in 1..RowLen : r[i] = IF i \in (pos + 1)..(pos + Len(s)) THEN s[i - pos] ELSE row[i]
    BY DEF Write
  <1>3. \A i \in (pos + 1)..(pos + Len(s)) : i - pos \in 1..Len(s)
    BY <1>1
  <1>4. \A i \in 1..Len(s) : s[i] \in Cell
    OBVIOUS
  <1>5. r \in Row
    <2>1. \A i \in 1..RowLen : row[i] \in Cell
      BY DEF Row
    <2>2. \A i \in 1..RowLen : (IF i \in (pos + 1)..(pos + Len(s)) THEN s[i - pos] ELSE row[i]) \in Cell
      BY <1>3, <1>4, <2>1
    <2> QED
      BY <2>2 DEF Write, Row
  <1>6. ASSUME NEW i \in 1..Len(s)
        PROVE  pos + i \in 1..RowLen /\ r[pos + i] = s[i]
    <2>1. pos + i \in 1..RowLen /\ pos + i \in (pos + 1)..(pos + Len(s)) /\ (pos + i) - pos = i
      BY <1>1
    <2> HIDE DEF r
    <2> QED
      BY <1>2, <2>1
  <1> QED
    BY <1>2, <1>5, <1>6

\* r is the row with s written at pos.
Written(row, pos, s, r) ==
    /\ r \in Row
    /\ \A i \in 1..RowLen : ~ (i \in (pos + 1)..(pos + Len(s))) => r[i] = row[i]
    /\ \A i \in 1..Len(s) : r[pos + i] = s[i]

\* What WriteIs says, under one name
LEMMA WriteWritten ==
  ASSUME NEW row \in Row, NEW pos \in Nat, NEW s \in Seq(Cell), Fits(row, pos, s),
         NEW r, r = Write(row, pos, s)
  PROVE  Written(row, pos, s, r)
  <1>1. Write(row, pos, s) \in Row
    BY WriteIs
  <1>2. \A i \in 1..RowLen : ~ (i \in (pos + 1)..(pos + Len(s))) => Write(row, pos, s)[i] = row[i]
    BY WriteIs
  <1>3. \A i \in 1..Len(s) : Write(row, pos, s)[pos + i] = s[i]
    BY WriteIs
  <1> QED
    BY <1>1, <1>2, <1>3 DEF Written

\* The row has this name, and something behind its ':'.
RowNamed(row, name) ==
    /\ name \in Seq(Letter)
    /\ Len(name) + 2 < RowLen
    /\ \A i \in 1..Len(name) : row[i] = name[i]
    /\ row[Len(name) + 1] = ":"
    /\ row[Len(name) + 2] # "NUL"

\* No letter is one of the cells the code treats specially.
LEMMA Letters == \A c \in Letter : c \in Cell /\ c \notin {":", " ", "TICK", "NUL", "NL"}
  <1>1. \A c \in Letter : c \in Cell /\ c \notin Special
    BY StoreAssumption DEF Cell
  <1> QED
    BY <1>1 DEF Special

LEMMA Words ==
  ASSUME NEW s \in Seq(Letter)
  PROVE  s \in Seq(Cell) /\ Len(s) \in Nat /\ \A i \in 1..Len(s) : s[i] \in Letter
  <1>1. Letter \subseteq Cell
    BY Letters
  <1> QED
    BY <1>1

LEMMA OneCell ==
  ASSUME NEW c \in Cell
  PROVE  <<c>> \in Seq(Cell) /\ Len(<<c>>) = 1 /\ <<c>>[1] = c
  OBVIOUS

LEMMA SpecialCells == {":", " ", "TICK", "NUL", "NL"} \subseteq Cell
  BY DEF Cell, Special

\* What is written behind a row's text
LEMMA DataText ==
  ASSUME NEW data \in Seq(Letter)
  PROVE  \E s \in Seq(Cell) :
           /\ s = <<" ">> \o data \o <<"TICK">>
           /\ Len(s) = Len(data) + 2 /\ Len(data) \in Nat
           /\ s[1] = " "
           /\ \A i \in 1..Len(data) : s[i + 1] = data[i]
           /\ s[Len(data) + 2] = "TICK"
  <1>1. data \in Seq(Cell) /\ Len(data) \in Nat
    BY Words
  <1>2. PICK f : f = <<" ">>
    OBVIOUS
  <1>3. f \in Seq(Cell) /\ Len(f) = 1 /\ f[1] = " "
    BY <1>2, OneCell, SpecialCells
  <1>4. PICK l : l = <<"TICK">>
    OBVIOUS
  <1>5. l \in Seq(Cell) /\ Len(l) = 1 /\ l[1] = "TICK"
    BY <1>4, OneCell, SpecialCells
  <1>6. PICK s : s = (f \o data) \o l
    OBVIOUS
  <1>7. s = <<" ">> \o data \o <<"TICK">>
    BY <1>2, <1>4, <1>6, Zenon
  <1>8. /\ s \in Seq(Cell) /\ Len(s) = Len(data) + 2
        /\ s[1] = f[1] /\ s[Len(data) + 2] = l[1]
        /\ \A i \in 1..Len(data) : s[i + 1] = data[i]
    <2>1. f \in Seq(Cell) /\ l \in Seq(Cell) /\ Len(f) = 1 /\ Len(l) = 1 /\ data \in Seq(Cell)
      BY <1>1, <1>3, <1>5
    <2>2. /\ (f \o data) \o l \in Seq(Cell)
          /\ Len((f \o data) \o l) = Len(data) + 2
          /\ ((f \o data) \o l)[1] = f[1]
          /\ \A i \in 1..Len(data) : ((f \o data) \o l)[i + 1] = data[i]
          /\ ((f \o data) \o l)[Len(data) + 2] = l[1]
      BY <2>1, Framed, SMTT(40)
    <2> QED
      BY <1>6, <2>2, Zenon
  <1>9. s[1] = " " /\ s[Len(data) + 2] = "TICK"
    BY <1>3, <1>5, <1>8, Zenon
  <1> QED
    BY <1>1, <1>7, <1>8, <1>9, Zenon

\* The end of the text and its terminator
LEMMA DataEnds ==
  ASSUME NEW data \in Seq(Letter)
  PROVE  Len(data \o <<"TICK", "NUL">>) = Len(data) + 2
  <1>1. PICK e : e = <<"TICK", "NUL">>
    OBVIOUS
  <1>2. Len(e) = 2
    BY <1>1
  <1>3. e \in Seq(Cell)
    <2>1. "TICK" \in Cell /\ "NUL" \in Cell
      BY SpecialCells
    <2> QED
      BY <1>1, <2>1
  <1>4. data \in Seq(Cell)
    BY Words
  <1>5. Len(data \o e) = Len(data) + Len(e)
    BY <1>3, <1>4, ConcatProperties
  <1>6. Len(data \o e) = Len(data) + 2
    BY <1>2, <1>5
  <1> QED
    BY <1>1, <1>6, Zenon

\* getTopic reads the name of a row.
LEMMA NameRead ==
  ASSUME NEW row \in Row, row[RowLen] = "NUL", NEW name, RowNamed(row, name)
  PROVE  /\ GetTopic(row) = name
         /\ Strlen(row) \in Nat /\ Strlen(row) >= Len(name) + 2
  <1>1. /\ name \in Seq(Letter) /\ Len(name) \in Nat /\ Len(name) + 2 < RowLen
        /\ \A i \in 1..Len(name) : row[i] = name[i]
        /\ row[Len(name) + 1] = ":" /\ row[Len(name) + 2] # "NUL"
    BY DEF RowNamed
  <1>2. PICK L : L = Strlen(row)
    OBVIOUS
  <1>3. L \in 0..(RowLen - 1) /\ row[L + 1] = "NUL" /\ \A i \in 1..L : row[i] # "NUL"
    BY <1>2, StrlenIs
  <1>4. RowLen \in Nat
    BY StoreAssumption
  <1>5. \A i \in 1..Len(name) : row[i] \notin {":", "NUL"}
    BY <1>1, Letters, Words
  <1>6. L >= Len(name) + 2
    <2> SUFFICES ASSUME L + 1 \in 1..(Len(name) + 2) PROVE FALSE
      BY <1>1, <1>3, <1>4
    <2>1. L + 1 \in 1..Len(name) \/ L + 1 = Len(name) + 1 \/ L + 1 = Len(name) + 2
      BY <1>1, <1>3
    <2> QED
      BY <1>1, <1>3, <1>5, <2>1
  <1>7. PICK t : t = Text(row)
    OBVIOUS
  <1>8. t \in Seq(Cell) /\ Len(t) = L /\ \A i \in 1..L : t[i] = row[i]
    BY <1>2, <1>7, TextIs
  <1>9. Len(name) \in 0..(Len(t) - 1) /\ Len(name) + 1 \in 1..L /\ \A i \in 1..Len(name) : i \in 1..L
    BY <1>1, <1>3, <1>6, <1>8
  <1>10. t[Len(name) + 1] = ":" /\ \A i \in 1..Len(name) : t[i] = name[i] /\ t[i] # ":"
    BY <1>1, <1>5, <1>8, <1>9
  <1>11. Before(t, ":") = SubSeq(t, 1, Len(name))
    BY <1>8, <1>9, <1>10, BeforeIs
  <1>12. SubSeq(t, 1, Len(name)) = name
    <2>1. PICK u : u = SubSeq(t, 1, Len(name))
      OBVIOUS
    <2>2. u \in Seq(Cell) /\ Len(u) = Len(name) /\ \A i \in 1..Len(name) : u[i] = t[i]
      BY <1>8, <1>9, <2>1
    <2>3. name \in Seq(Cell)
      BY <1>1, Words
    <2>4. \A i \in 1..Len(u) : u[i] = name[i]
      BY <1>10, <2>2
    <2>5. u = name
      BY <2>2, <2>3, <2>4, SeqEqual
    <2> QED
      BY <2>1, <2>5
  <1>13. GetTopic(row) = name
    BY <1>7, <1>11, <1>12 DEF GetTopic
  <1> QED
    BY <1>2, <1>3, <1>6, <1>13

\* What a publish writes behind the text of a row keeps the row's name and what
\* stands in front of its last character.
LEMMA AppendKeepsName ==
  ASSUME NEW row \in Row, row[RowLen] = "NUL", NEW name, RowNamed(row, name),
         NEW data \in Seq(Letter), Fits(row, Strlen(row), data \o <<"TICK", "NUL">>)
  PROVE  /\ AppendData(row, data) \in Row
         /\ AppendData(row, data)[RowLen] = "NUL"
         /\ RowNamed(AppendData(row, data), name)
         /\ \A i \in 1..(Strlen(row) - 1) : AppendData(row, data)[i] = row[i]
  <1>1. PICK L : L = Strlen(row)
    OBVIOUS
  <1>2. /\ L \in 0..(RowLen - 1) /\ L >= Len(name) + 2
        /\ name \in Seq(Letter) /\ Len(name) \in Nat /\ RowLen \in Nat
    BY <1>1, StrlenIs, NameRead, StoreAssumption, SMTT(40) DEF RowNamed
  <1>3. PICK s \in Seq(Cell) :
           /\ s = <<" ">> \o data \o <<"TICK">>
           /\ Len(s) = Len(data) + 2 /\ Len(data) \in Nat
           /\ s[1] = " "
    BY DataText, Zenon
  <1>4. s \in Seq(Cell) /\ s[1] = " "
    BY <1>3
  <1>5. Len(s) \in Nat /\ Len(s) >= 2 /\ L + Len(s) =< RowLen
    <2>1. Len(s) = Len(data) + 2 /\ Len(data) \in Nat
      BY <1>3, Zenon
    <2>2. L + Len(data \o <<"TICK", "NUL">>) =< RowLen
      BY <1>1, Zenon DEF Fits
    <2>3. L + (Len(data) + 2) =< RowLen
      BY <2>2, DataEnds, Zenon
    <2> QED
      BY <1>2, <2>1, <2>3
  <1>6. L - 1 \in Nat /\ Fits(row, L - 1, s)
    BY <1>2, <1>5 DEF Fits
  <1>7. PICK r : r = Write(row, L - 1, s)
    OBVIOUS
  <1>8. AppendData(row, data) = r
    BY <1>1, <1>3, <1>7, Zenon DEF AppendData
  <1>9. /\ r \in Row
        /\ \A i \in 1..RowLen : ~ (i \in ((L - 1) + 1)..((L - 1) + Len(s))) => r[i] = row[i]
        /\ \A i \in 1..Len(s) : r[(L - 1) + i] = s[i]
    <2>1. Written(row, L - 1, s, r)
      BY <1>4, <1>6, <1>7, WriteWritten
    <2> QED
      BY <2>1, Zenon DEF Written
  <1>10. \A i \in 1..(L - 1) : r[i] = row[i]
    <2>1. \A i \in 1..(L - 1) : i \in 1..RowLen /\ ~ (i \in ((L - 1) + 1)..((L - 1) + Len(s)))
      BY <1>2, <1>5
    <2> QED
      BY <1>9, <2>1
  <1>11. r[L] = " "
    <2>1. 1 \in 1..Len(s) /\ (L - 1) + 1 = L
      BY <1>2, <1>5
    <2> QED
      BY <1>4, <1>9, <2>1
  <1>12. r[RowLen] = "NUL"
    <2>1. RowLen \in 1..RowLen /\ ~ (RowLen \in ((L - 1) + 1)..((L - 1) + Len(s)))
      BY <1>2, <1>5
    <2> QED
      BY <1>9, <2>1
  <1>13. RowNamed(r, name)
    <2>1. /\ \A i \in 1..Len(name) : i \in 1..(L - 1)
          /\ Len(name) + 1 \in 1..(L - 1)
          /\ Len(name) + 2 \in 1..(L - 1) \/ Len(name) + 2 = L
      BY <1>2
    <2> QED
      BY <1>10, <1>11, <2>1 DEF RowNamed
  <1> QED
    BY <1>1, <1>8, <1>9, <1>10, <1>12, <1>13

-----------------------------------------------------------------------------
(* The topics after a history of publishes.                                *)

Publishes == [topic : Topics, data : Items]

InitialNames == [i \in 1..NumPreset |-> Preset[i].name]

AddsTopic(names, p) == IF p.topic \in ToSet(names) THEN names
                      ELSE Append(names, p.topic)

\* The initial topics are names and data of letters.
LEMMA PresetTypes ==
  /\ NumPreset \in Nat /\ MAX_PUBLISHERS \in Nat /\ NumPreset < MAX_PUBLISHERS
  /\ \A i \in 1..NumPreset : Preset[i].name \in Seq(Letter) /\ Preset[i].data \in Seq(Letter)
  /\ InitialNames \in Seq(Seq(Letter)) /\ Len(InitialNames) = NumPreset
  <1>1. NumPreset \in Nat /\ MAX_PUBLISHERS \in Nat /\ NumPreset < MAX_PUBLISHERS
    BY StoreAssumption DEF NumPreset
  <1>2. \A i \in 1..NumPreset : Preset[i] \in [name : Seq(Letter), data : Seq(Letter)]
    <2>1. PICK R : R = [name : Seq(Letter), data : Seq(Letter)]
      OBVIOUS
    <2>2. Preset \in Seq(R)
      BY <2>1, StoreAssumption
    <2>3. \A i \in 1..Len(Preset) : Preset[i] \in R
      BY <2>2, ElementOfSeq
    <2> QED
      BY <2>1, <2>3 DEF NumPreset
  <1>3. \A i \in 1..NumPreset : Preset[i].name \in Seq(Letter) /\ Preset[i].data \in Seq(Letter)
    BY <1>2
  <1>4. InitialNames \in [1..NumPreset -> Seq(Letter)]
    BY <1>3 DEF InitialNames
  <1> QED
    BY <1>1, <1>3, <1>4

\* The topics publish by publish
LEMMA TopicsRecursion ==
  ASSUME NEW q \in Seq(Publishes)
  PROVE  \E V : /\ V[0] = InitialNames /\ V[Len(q)] = TopicsAfter(q)
                /\ \A k \in 0..Len(q) : V[k] \in Seq(Seq(Letter))
                /\ \A k \in 1..Len(q) : V[k] = AddsTopic(V[k - 1], q[k])
  <1> DEFINE n == Len(q)
             A == Seq(Seq(Letter))
             Step(f) == [s \in SUBSET DOMAIN q |->
                           IF s = {} THEN InitialNames ELSE AddsTopic(f[s \ {Max(s)}], q[Max(s)])]
             iter == CHOOSE f : f = Step(f)
             H == [a \in A \X (1..n) |-> AddsTopic(a[1], q[a[2]])]
  <1>1. n \in Nat /\ DOMAIN q = 1..n
    OBVIOUS
  <1>2. TopicsAfter(q) = iter[DOMAIN q]
    BY Zenon DEF TopicsAfter, FoldLeft, MapThenFoldSet, AddsTopic, InitialNames
  <1>3. \A k \in 1..n : q[k] \in Publishes
    BY <1>1, ElementOfSeq
  <1> HIDE DEF n
  <1>4. \A p \in Publishes : p.topic \in Seq(Letter)
    BY ServerAssumption DEF Publishes
  <1>5. ASSUME NEW a \in A, NEW p \in Publishes
        PROVE  AddsTopic(a, p) \in A
    <2>1. p.topic \in Seq(Letter)
      BY <1>4
    <2> QED
      BY <2>1, AppendProperties DEF AddsTopic
  <1>6. InitialNames \in A
    BY PresetTypes
  <1> HIDE DEF A
  <1>7. H \in [A \X (1..n) -> A] /\ \A a \in A, k \in 1..n : H[<<a, k>>] = AddsTopic(a, q[k])
    BY <1>3, <1>5
  <1> HIDE DEF H
  <1>8. PICK G \in [SUBSET (1..n) -> A] : FoldsSets(G, InitialNames, n, H)
    BY <1>1, <1>6, <1>7, FoldExists
  <1>9. \A s \in SUBSET (1..n) : s # {} => Max(s) \in 1..n /\ s \ {Max(s)} \in SUBSET (1..n)
    BY <1>1, MaxOfIndices
  <1>10. G = Step(G)
    <2>1. \A s \in SUBSET (1..n) :
             G[s] = IF s = {} THEN InitialNames ELSE AddsTopic(G[s \ {Max(s)}], q[Max(s)])
      BY <1>7, <1>8, <1>9 DEF FoldsSets
    <2>2. G = [s \in SUBSET (1..n) |-> G[s]]
      OBVIOUS
    <2> QED
      BY <1>1, <2>1, <2>2
  <1>11. iter = Step(iter)
    <2> HIDE DEF Step
    <2> QED
      BY <1>10
  <1>12. \A s \in SUBSET (1..n) :
            iter[s] = IF s = {} THEN InitialNames ELSE AddsTopic(iter[s \ {Max(s)}], q[Max(s)])
    <2> HIDE DEF iter
    <2> QED
      BY <1>1, <1>11
  <1> HIDE DEF iter, Step
  <1> DEFINE V == [k \in 0..n |-> iter[1..k]]
  <1>13. V[0] = InitialNames /\ V[n] = TopicsAfter(q)
    <2>1. 1..0 = {} /\ 0 \in 0..n /\ n \in 0..n /\ {} \in SUBSET (1..n)
      BY <1>1
    <2> QED
      BY <1>1, <1>2, <1>12, <2>1
  <1>14. ASSUME NEW k \in 1..n
         PROVE  V[k] = AddsTopic(V[k - 1], q[k])
    <2>1. /\ k \in 0..n /\ k - 1 \in 0..n /\ 1..k \in SUBSET (1..n) /\ 1..k # {}
          /\ Max(1..k) = k /\ (1..k) \ {k} = 1..(k - 1)
      BY <1>1, IndicesUpTo
    <2> QED
      BY <1>12, <2>1
  <1> HIDE DEF V
  <1> DEFINE Typed == {k \in 0..n : V[k] \in A}
  <1>15. 0..n \subseteq Typed
    <2>1. 0 \in Typed
      BY <1>1, <1>6, <1>13
    <2>2. \A k \in 1..n : k - 1 \in Typed => k \in Typed
      BY <1>1, <1>3, <1>5, <1>14
    <2> HIDE DEF Typed
    <2> QED
      BY <1>1, <2>1, <2>2, UpTo
  <1>16. \A k \in 0..n : V[k] \in A
    BY <1>15
  <1> QED
    BY <1>13, <1>14, <1>16 DEF A, n

\* One publish more
LEMMA TopicsAppend ==
  ASSUME NEW q \in Seq(Publishes), NEW p \in Publishes
  PROVE  /\ TopicsAfter(<<>>) = InitialNames
         /\ TopicsAfter(q) \in Seq(Seq(Letter))
         /\ TopicsAfter(Append(q, p)) = AddsTopic(TopicsAfter(q), p)
  <1>1. /\ <<>> \in Seq(Publishes) /\ Len(<<>>) = 0
        /\ Len(q) \in Nat /\ Append(q, p) \in Seq(Publishes) /\ Len(Append(q, p)) = Len(q) + 1
        /\ \A k \in 1..Len(q) : Append(q, p)[k] = q[k]
        /\ Append(q, p)[Len(q) + 1] = p
    BY AppendProperties
  <1>2. TopicsAfter(<<>>) = InitialNames
    BY <1>1, TopicsRecursion
  <1>3. PICK V : /\ V[0] = InitialNames /\ V[Len(q)] = TopicsAfter(q)
                 /\ \A k \in 0..Len(q) : V[k] \in Seq(Seq(Letter))
                 /\ \A k \in 1..Len(q) : V[k] = AddsTopic(V[k - 1], q[k])
    BY TopicsRecursion
  <1>4. PICK r : r = Append(q, p)
    OBVIOUS
  <1>5. PICK W : /\ W[0] = InitialNames /\ W[Len(r)] = TopicsAfter(r)
                 /\ \A k \in 0..Len(r) : W[k] \in Seq(Seq(Letter))
                 /\ \A k \in 1..Len(r) : W[k] = AddsTopic(W[k - 1], r[k])
    <2>1. r \in Seq(Publishes)
      BY <1>1, <1>4
    <2> QED
      BY <2>1, TopicsRecursion
  <1> DEFINE Same == {k \in 0..Len(q) : W[k] = V[k]}
  <1>6. 0 \in Same
    BY <1>1, <1>3, <1>5
  <1>7. ASSUME NEW k \in 1..Len(q), k - 1 \in Same
        PROVE  k \in Same
    <2>1. k \in 1..Len(r) /\ r[k] = q[k] /\ k \in 0..Len(q)
      BY <1>1, <1>4
    <2>2. W[k - 1] = V[k - 1]
      BY <1>7
    <2> QED
      BY <1>3, <1>5, <2>1, <2>2
  <1>8. 0..Len(q) \subseteq Same
    <2> HIDE DEF Same
    <2> QED
      BY <1>1, <1>6, <1>7, UpTo
  <1>9. W[Len(q)] = V[Len(q)]
    <2>1. Len(q) \in 0..Len(q)
      BY <1>1
    <2> QED
      BY <1>8, <2>1
  <1>10. TopicsAfter(r) = AddsTopic(TopicsAfter(q), p)
    <2>1. Len(q) + 1 \in 1..Len(r) /\ (Len(q) + 1) - 1 = Len(q) /\ Len(r) = Len(q) + 1
      BY <1>1, <1>4
    <2>2. W[Len(q) + 1] = AddsTopic(W[Len(q)], r[Len(q) + 1])
      BY <1>5, <2>1
    <2> QED
      BY <1>1, <1>3, <1>4, <1>5, <1>9, <2>1, <2>2
  <1>11. TopicsAfter(q) \in Seq(Seq(Letter))
    <2>1. Len(q) \in 0..Len(q)
      BY <1>1
    <2> QED
      BY <1>3, <2>1
  <1> QED
    BY <1>2, <1>4, <1>10, <1>11

-----------------------------------------------------------------------------
(* The text of an initial topic after a history of publishes.              *)

\* The cells of an answer but for the TICK that ends it
Plain == Letter \cup {":", " "}

InitialText(i) == Preset[i].name \o <<":", " ">> \o Preset[i].data

AddsText(i, text, p) == IF p.topic = Preset[i].name THEN text \o <<" ">> \o p.data ELSE text

LEMMA PlainCells == \A c \in Plain : c \in Cell /\ c \notin {"TICK", "NUL"}
  BY Letters, SpecialCells DEF Plain

\* A blank and data behind a text
LEMMA DataAdded ==
  ASSUME NEW text \in Seq(Plain), NEW data \in Seq(Letter)
  PROVE  /\ text \o <<" ">> \o data \in Seq(Plain)
         /\ Len(text \o <<" ">> \o data) = Len(text) + Len(data) + 1
         /\ \A k \in 1..Len(text) : (text \o <<" ">> \o data)[k] = text[k]
         /\ (text \o <<" ">> \o data)[Len(text) + 1] = " "
         /\ \A k \in 1..Len(data) : (text \o <<" ">> \o data)[Len(text) + 1 + k] = data[k]
  <1>1. PICK b : b = <<" ">>
    OBVIOUS
  <1>2. b \in Seq(Plain) /\ Len(b) = 1 /\ b[1] = " "
    <2>1. " " \in Plain
      BY DEF Plain
    <2> QED
      BY <1>1, <2>1, OneOf, Zenon
  <1>3. data \in Seq(Plain)
    <2>1. Letter \subseteq Plain
      BY DEF Plain
    <2> QED
      BY <2>1
  <1>4. PICK u : u = text \o b
    OBVIOUS
  <1>5. PICK v : v = u \o data
    OBVIOUS
  <1>6. /\ u \in Seq(Plain) /\ Len(u) = Len(text) + 1
        /\ \A k \in 1..(Len(text) + 1) : u[k] = IF k <= Len(text) THEN text[k] ELSE b[k - Len(text)]
    <2>1. /\ text \o b \in Seq(Plain)
          /\ Len(text \o b) = Len(text) + Len(b)
          /\ \A k \in 1..(Len(text) + Len(b)) :
                (text \o b)[k] = IF k <= Len(text) THEN text[k] ELSE b[k - Len(text)]
      BY <1>2, ConcatProperties
    <2> QED
      BY <1>2, <1>4, <2>1, Zenon
  <1>7. /\ v \in Seq(Plain) /\ Len(v) = Len(u) + Len(data)
        /\ \A k \in 1..(Len(u) + Len(data)) : v[k] = IF k <= Len(u) THEN u[k] ELSE data[k - Len(u)]
    <2>1. /\ u \o data \in Seq(Plain)
          /\ Len(u \o data) = Len(u) + Len(data)
          /\ \A k \in 1..(Len(u) + Len(data)) :
                (u \o data)[k] = IF k <= Len(u) THEN u[k] ELSE data[k - Len(u)]
      BY <1>3, <1>6, ConcatProperties
    <2> QED
      BY <1>5, <2>1, Zenon
  <1>8. Len(text) \in Nat /\ Len(data) \in Nat
    OBVIOUS
  <1>9. \A k \in 1..Len(text) : v[k] = text[k]
    <2>1. \A k \in 1..Len(text) :
             k \in 1..(Len(text) + 1) /\ k \in 1..(Len(u) + Len(data)) /\ k <= Len(u) /\ k <= Len(text)
      BY <1>6, <1>8
    <2> QED
      BY <1>6, <1>7, <2>1
  <1>10. v[Len(text) + 1] = " "
    <2>1. /\ Len(text) + 1 \in 1..(Len(text) + 1) /\ Len(text) + 1 \in 1..(Len(u) + Len(data))
          /\ Len(text) + 1 <= Len(u) /\ ~ (Len(text) + 1 <= Len(text)) /\ (Len(text) + 1) - Len(text) = 1
      BY <1>6, <1>8
    <2> QED
      BY <1>2, <1>6, <1>7, <2>1
  <1>11. \A k \in 1..Len(data) : v[Len(text) + 1 + k] = data[k]
    <2>1. \A k \in 1..Len(data) :
             /\ Len(text) + 1 + k \in 1..(Len(u) + Len(data)) /\ ~ (Len(text) + 1 + k <= Len(u))
             /\ (Len(text) + 1 + k) - Len(u) = k
      BY <1>6, <1>8
    <2> QED
      BY <1>7, <2>1
  <1>12. Len(v) = Len(text) + Len(data) + 1
    BY <1>6, <1>7, <1>8
  <1>13. text \o <<" ">> \o data = v
    BY <1>1, <1>4, <1>5, Zenon
  <1> QED
    BY <1>7, <1>9, <1>10, <1>11, <1>12, <1>13, Zenon

\* A name, ": " and data
LEMMA HeadedText ==
  ASSUME NEW name \in Seq(Letter), NEW data \in Seq(Letter)
  PROVE  \E s \in Seq(Plain) :
           /\ s = name \o <<":", " ">> \o data
           /\ Len(s) = Len(name) + Len(data) + 2
           /\ \A k \in 1..Len(name) : s[k] = name[k]
           /\ s[Len(name) + 1] = ":"
           /\ s[Len(name) + 2] = " "
  <1>1. PICK sep : sep = <<":", " ">>
    OBVIOUS
  <1>2. sep \in Seq(Plain) /\ Len(sep) = 2 /\ sep[1] = ":" /\ sep[2] = " "
    <2>1. ":" \in Plain /\ " " \in Plain
      BY DEF Plain
    <2> QED
      BY <1>1, <2>1, TwoOf, Zenon
  <1>3. name \in Seq(Plain) /\ data \in Seq(Plain)
    <2>1. Letter \subseteq Plain
      BY DEF Plain
    <2> QED
      BY <2>1
  <1>4. PICK s : s = (name \o sep) \o data
    OBVIOUS
  <1>5. /\ s \in Seq(Plain)
        /\ Len(s) = Len(name) + Len(data) + 2
        /\ \A k \in 1..Len(name) : s[k] = name[k]
        /\ s[Len(name) + 1] = sep[1]
        /\ s[Len(name) + 2] = sep[2]
    <2>1. sep \in Seq(Plain) /\ Len(sep) = 2
      BY <1>2
    <2>2. /\ (name \o sep) \o data \in Seq(Plain)
          /\ Len((name \o sep) \o data) = Len(name) + Len(data) + 2
          /\ \A k \in 1..Len(name) : ((name \o sep) \o data)[k] = name[k]
          /\ ((name \o sep) \o data)[Len(name) + 1] = sep[1]
          /\ ((name \o sep) \o data)[Len(name) + 2] = sep[2]
      BY <1>3, <2>1, Headed, SMTT(40)
    <2> QED
      BY <1>4, <2>2, Zenon
  <1>6. s = name \o <<":", " ">> \o data
    BY <1>1, <1>4, Zenon
  <1> QED
    BY <1>2, <1>5, <1>6, Zenon

\* The text of an initial topic without its TICK
LEMMA InitialTextIs ==
  ASSUME NEW i \in 1..NumPreset
  PROVE  /\ InitialText(i) \in Seq(Plain)
         /\ InitialText(i) = Front(PresetText(Preset[i]))
         /\ PresetText(Preset[i]) = InitialText(i) \o <<"TICK">>
  <1>1. PICK s \in Seq(Plain) : s = InitialText(i)
    BY PresetTypes, HeadedText, Zenon DEF InitialText
  <1>2. PICK l : l = <<"TICK">>
    OBVIOUS
  <1>3. PresetText(Preset[i]) = s \o l
    BY <1>1, <1>2, Zenon DEF PresetText, InitialText
  <1>4. l \in Seq(Cell) /\ Len(l) = 1
    BY <1>2, OneCell, SpecialCells
  <1>5. s \in Seq(Cell)
    <2>1. Plain \subseteq Cell
      BY PlainCells
    <2> QED
      BY <2>1
  <1>6. Front(s \o l) = s
    BY <1>4, <1>5, FrontOf
  <1> QED
    BY <1>1, <1>2, <1>3, <1>6, Zenon
\* The text of an initial topic publish by publish
LEMMA TextRecursion ==
  ASSUME NEW q \in Seq(Publishes), NEW i \in 1..NumPreset
  PROVE  \E V : /\ V[0] = InitialText(i) /\ V[Len(q)] = TextAfter(Preset[i], q)
                /\ \A k \in 0..Len(q) : V[k] \in Seq(Plain)
                /\ \A k \in 1..Len(q) : V[k] = AddsText(i, V[k - 1], q[k])
  <1> DEFINE n == Len(q)
             A == Seq(Plain)
             Step(f) == [s \in SUBSET DOMAIN q |->
                           IF s = {} THEN InitialText(i) ELSE AddsText(i, f[s \ {Max(s)}], q[Max(s)])]
             iter == CHOOSE f : f = Step(f)
             H == [a \in A \X (1..n) |-> AddsText(i, a[1], q[a[2]])]
  <1>1. n \in Nat /\ DOMAIN q = 1..n
    OBVIOUS
  <1>2. TextAfter(Preset[i], q) = iter[DOMAIN q]
    <2>1. PICK t : t = Preset[i]
      OBVIOUS
    <2>2. InitialText(i) = Front(PresetText(t))
      BY <2>1, InitialTextIs
    <2> QED
      BY <2>1, <2>2, Zenon DEF TextAfter, FoldLeft, MapThenFoldSet, AddsText
  <1>3. \A k \in 1..n : q[k] \in Publishes
    BY <1>1, ElementOfSeq
  <1> HIDE DEF n
  <1>4. \A p \in Publishes : p.data \in Seq(Letter)
    BY ServerAssumption DEF Publishes
  <1>5. ASSUME NEW a \in A, NEW p \in Publishes
        PROVE  AddsText(i, a, p) \in A
    BY <1>4, DataAdded DEF AddsText
  <1>6. InitialText(i) \in A
    BY InitialTextIs
  <1> HIDE DEF A
  <1>7. H \in [A \X (1..n) -> A] /\ \A a \in A, k \in 1..n : H[<<a, k>>] = AddsText(i, a, q[k])
    BY <1>3, <1>5
  <1> HIDE DEF H
  <1>8. PICK G \in [SUBSET (1..n) -> A] : FoldsSets(G, InitialText(i), n, H)
    BY <1>1, <1>6, <1>7, FoldExists
  <1>9. \A s \in SUBSET (1..n) : s # {} => Max(s) \in 1..n /\ s \ {Max(s)} \in SUBSET (1..n)
    BY <1>1, MaxOfIndices
  <1>10. G = Step(G)
    <2>1. \A s \in SUBSET (1..n) :
             G[s] = IF s = {} THEN InitialText(i) ELSE AddsText(i, G[s \ {Max(s)}], q[Max(s)])
      BY <1>7, <1>8, <1>9 DEF FoldsSets
    <2>2. G = [s \in SUBSET (1..n) |-> G[s]]
      OBVIOUS
    <2> QED
      BY <1>1, <2>1, <2>2
  <1>11. iter = Step(iter)
    <2> HIDE DEF Step
    <2> QED
      BY <1>10
  <1>12. \A s \in SUBSET (1..n) :
            iter[s] = IF s = {} THEN InitialText(i) ELSE AddsText(i, iter[s \ {Max(s)}], q[Max(s)])
    <2> HIDE DEF iter
    <2> QED
      BY <1>1, <1>11
  <1> HIDE DEF iter, Step
  <1> DEFINE V == [k \in 0..n |-> iter[1..k]]
  <1>13. V[0] = InitialText(i) /\ V[n] = TextAfter(Preset[i], q)
    <2>1. 1..0 = {} /\ 0 \in 0..n /\ n \in 0..n /\ {} \in SUBSET (1..n)
      BY <1>1
    <2> QED
      BY <1>1, <1>2, <1>12, <2>1
  <1>14. ASSUME NEW k \in 1..n
         PROVE  V[k] = AddsText(i, V[k - 1], q[k])
    <2>1. /\ k \in 0..n /\ k - 1 \in 0..n /\ 1..k \in SUBSET (1..n) /\ 1..k # {}
          /\ Max(1..k) = k /\ (1..k) \ {k} = 1..(k - 1)
      BY <1>1, IndicesUpTo
    <2> QED
      BY <1>12, <2>1
  <1> HIDE DEF V
  <1> DEFINE Typed == {k \in 0..n : V[k] \in A}
  <1>15. 0..n \subseteq Typed
    <2>1. 0 \in Typed
      BY <1>1, <1>6, <1>13
    <2>2. \A k \in 1..n : k - 1 \in Typed => k \in Typed
      BY <1>1, <1>3, <1>5, <1>14
    <2> HIDE DEF Typed
    <2> QED
      BY <1>1, <2>1, <2>2, UpTo
  <1>16. \A k \in 0..n : V[k] \in A
    BY <1>15
  <1> QED
    BY <1>13, <1>14, <1>16 DEF A, n

\* One publish more
LEMMA TextAppend ==
  ASSUME NEW q \in Seq(Publishes), NEW i \in 1..NumPreset, NEW p \in Publishes
  PROVE  /\ TextAfter(Preset[i], <<>>) = InitialText(i)
         /\ TextAfter(Preset[i], q) \in Seq(Plain)
         /\ TextAfter(Preset[i], Append(q, p)) = AddsText(i, TextAfter(Preset[i], q), p)
  <1>1. /\ <<>> \in Seq(Publishes) /\ Len(<<>>) = 0
        /\ Len(q) \in Nat /\ Append(q, p) \in Seq(Publishes) /\ Len(Append(q, p)) = Len(q) + 1
        /\ \A k \in 1..Len(q) : Append(q, p)[k] = q[k]
        /\ Append(q, p)[Len(q) + 1] = p
    BY AppendProperties
  <1>2. TextAfter(Preset[i], <<>>) = InitialText(i)
    BY <1>1, TextRecursion
  <1>3. PICK V : /\ V[0] = InitialText(i) /\ V[Len(q)] = TextAfter(Preset[i], q)
                 /\ \A k \in 0..Len(q) : V[k] \in Seq(Plain)
                 /\ \A k \in 1..Len(q) : V[k] = AddsText(i, V[k - 1], q[k])
    BY TextRecursion
  <1>4. PICK r : r = Append(q, p)
    OBVIOUS
  <1>5. PICK W : /\ W[0] = InitialText(i) /\ W[Len(r)] = TextAfter(Preset[i], r)
                 /\ \A k \in 0..Len(r) : W[k] \in Seq(Plain)
                 /\ \A k \in 1..Len(r) : W[k] = AddsText(i, W[k - 1], r[k])
    <2>1. r \in Seq(Publishes)
      BY <1>1, <1>4
    <2> QED
      BY <2>1, TextRecursion
  <1> DEFINE Same == {k \in 0..Len(q) : W[k] = V[k]}
  <1>6. 0 \in Same
    BY <1>1, <1>3, <1>5
  <1>7. ASSUME NEW k \in 1..Len(q), k - 1 \in Same
        PROVE  k \in Same
    <2>1. k \in 1..Len(r) /\ r[k] = q[k] /\ k \in 0..Len(q)
      BY <1>1, <1>4
    <2>2. W[k - 1] = V[k - 1]
      BY <1>7
    <2> QED
      BY <1>3, <1>5, <2>1, <2>2
  <1>8. 0..Len(q) \subseteq Same
    <2> HIDE DEF Same
    <2> QED
      BY <1>1, <1>6, <1>7, UpTo
  <1>9. W[Len(q)] = V[Len(q)]
    <2>1. Len(q) \in 0..Len(q)
      BY <1>1
    <2> QED
      BY <1>8, <2>1
  <1>10. TextAfter(Preset[i], r) = AddsText(i, TextAfter(Preset[i], q), p)
    <2>1. Len(q) + 1 \in 1..Len(r) /\ (Len(q) + 1) - 1 = Len(q) /\ Len(r) = Len(q) + 1
      BY <1>1, <1>4
    <2>2. W[Len(q) + 1] = AddsText(i, W[Len(q)], r[Len(q) + 1])
      BY <1>5, <2>1
    <2> QED
      BY <1>1, <1>3, <1>4, <1>5, <1>9, <2>1, <2>2
  <1>11. TextAfter(Preset[i], q) \in Seq(Plain)
    <2>1. Len(q) \in 0..Len(q)
      BY <1>1
    <2> QED
      BY <1>3, <2>1
  <1> QED
    BY <1>2, <1>4, <1>10, <1>11

-----------------------------------------------------------------------------
(* Rows that hold a text.                                                  *)

\* The row's text is this body and the TICK that ends it, and nothing stands
\* behind it.
RowHolds(row, body) ==
    /\ body \in Seq(Plain)
    /\ Len(body) + 1 < RowLen
    /\ \A k \in 1..Len(body) : row[k] = body[k]
    /\ row[Len(body) + 1] = "TICK"
    /\ \A k \in 1..RowLen : k > Len(body) + 1 => row[k] = "NUL"

\* A row that holds a text is one character longer, the TICK.
LEMMA HoldsStrlen ==
  ASSUME NEW row \in Row, NEW body, RowHolds(row, body)
  PROVE  row[RowLen] = "NUL" /\ Strlen(row) = Len(body) + 1
  <1>1. /\ body \in Seq(Plain) /\ Len(body) \in Nat /\ Len(body) + 1 < RowLen /\ RowLen \in Nat
        /\ \A k \in 1..Len(body) : row[k] = body[k]
        /\ row[Len(body) + 1] = "TICK"
        /\ \A k \in 1..RowLen : k > Len(body) + 1 => row[k] = "NUL"
    BY StoreAssumption DEF RowHolds
  <1>2. row[RowLen] = "NUL" /\ row[(Len(body) + 1) + 1] = "NUL"
    <2>1. /\ RowLen \in 1..RowLen /\ RowLen > Len(body) + 1
          /\ (Len(body) + 1) + 1 \in 1..RowLen /\ (Len(body) + 1) + 1 > Len(body) + 1
      BY <1>1
    <2> QED
      BY <1>1, <2>1
  <1>3. \A k \in 1..(Len(body) + 1) : row[k] # "NUL"
    <2>1. \A k \in 1..Len(body) : row[k] # "NUL"
      <3>1. \A k \in 1..Len(body) : body[k] \in Plain
        BY <1>1
      <3> QED
        BY <1>1, <3>1, PlainCells
    <2>2. \A k \in 1..(Len(body) + 1) : k \in 1..Len(body) \/ k = Len(body) + 1
      BY <1>1
    <2> QED
      BY <1>1, <2>1, <2>2
  <1>4. Len(body) + 1 \in 0..(RowLen - 1)
    BY <1>1
  <1> QED
    BY <1>2, <1>3, <1>4, StrlenUnique

\* Data published on a topic whose row has nothing behind its text
LEMMA HoldsAppend ==
  ASSUME NEW row \in Row, NEW body, RowHolds(row, body), NEW data \in Seq(Letter),
         Fits(row, Strlen(row), data \o <<"TICK", "NUL">>)
  PROVE  RowHolds(AppendData(row, data), body \o <<" ">> \o data)
  <1>1. /\ body \in Seq(Plain) /\ Len(body) \in Nat /\ Len(body) + 1 < RowLen /\ RowLen \in Nat
        /\ \A k \in 1..Len(body) : row[k] = body[k]
        /\ \A k \in 1..RowLen : k > Len(body) + 1 => row[k] = "NUL"
    BY StoreAssumption DEF RowHolds
  <1>2. Strlen(row) = Len(body) + 1
    BY HoldsStrlen
  <1>3. PICK s \in Seq(Cell) :
           /\ s = <<" ">> \o data \o <<"TICK">>
           /\ Len(s) = Len(data) + 2 /\ Len(data) \in Nat
           /\ s[1] = " "
           /\ \A i \in 1..Len(data) : s[i + 1] = data[i]
           /\ s[Len(data) + 2] = "TICK"
    BY DataText, Zenon
  <1>4. PICK m : m = Len(data)
    OBVIOUS
  <1>5. /\ s \in Seq(Cell) /\ Len(s) = m + 2 /\ m \in Nat /\ s[1] = " "
        /\ \A i \in 1..m : s[i + 1] = data[i]
        /\ s[m + 2] = "TICK"
    BY <1>3, <1>4, Zenon
  <1>6. Len(body) + 1 + (m + 2) =< RowLen
    <2>1. (Len(body) + 1) + Len(data \o <<"TICK", "NUL">>) =< RowLen
      BY <1>2, Zenon DEF Fits
    <2> QED
      BY <1>4, <2>1, DataEnds, Zenon
  <1>7. (Len(body) + 1) - 1 = Len(body)
    BY <1>1
  <1>8. Fits(row, Len(body), s)
    <2>1. Len(s) = m + 2 /\ m \in Nat /\ Len(body) \in Nat /\ RowLen \in Nat
      BY <1>1, <1>5, Zenon
    <2> QED
      BY <1>6, <2>1 DEF Fits
  <1>9. PICK r : r = Write(row, Len(body), s)
    OBVIOUS
  <1>10. AppendData(row, data) = r
    BY <1>2, <1>3, <1>7, <1>9, Zenon DEF AppendData
  <1>11. /\ r \in Row
         /\ \A i \in 1..RowLen : ~ (i \in (Len(body) + 1)..(Len(body) + Len(s))) => r[i] = row[i]
         /\ \A i \in 1..Len(s) : r[Len(body) + i] = s[i]
    <2>1. s \in Seq(Cell) /\ Len(body) \in Nat
      BY <1>1, <1>5, Zenon
    <2>2. Written(row, Len(body), s, r)
      BY <1>8, <1>9, <2>1, WriteWritten
    <2> QED
      BY <2>2, Zenon DEF Written
  <1>12. PICK b : b = body \o <<" ">> \o data
    OBVIOUS
  <1>13. /\ b \in Seq(Plain)
         /\ Len(b) = Len(body) + m + 1
         /\ \A k \in 1..Len(body) : b[k] = body[k]
         /\ b[Len(body) + 1] = " "
         /\ \A k \in 1..m : b[Len(body) + 1 + k] = data[k]
    BY <1>1, <1>4, <1>12, DataAdded, Zenon
  <1> DEFINE c == Len(body)
  <1>30. c \in Nat /\ m \in Nat /\ RowLen \in Nat /\ Len(s) = m + 2 /\ Len(b) = c + m + 1
    BY <1>1, <1>5, <1>13, Zenon
  <1>31. c + 1 + (m + 2) =< RowLen
    BY <1>6, Zenon
  <1>14. \A k \in 1..Len(body) : r[k] = b[k]
    <2>1. \A k \in 1..Len(body) : k \in 1..RowLen /\ ~ (k \in (Len(body) + 1)..(Len(body) + Len(s)))
      BY <1>30, <1>31
    <2> QED
      BY <1>1, <1>11, <1>13, <2>1
  <1>15. r[Len(body) + 1] = b[Len(body) + 1]
    <2>1. 1 \in 1..Len(s)
      BY <1>30
    <2> QED
      BY <1>5, <1>11, <1>13, <2>1
  <1>16. \A k \in 1..m : r[Len(body) + 1 + k] = b[Len(body) + 1 + k]
    <2>1. \A k \in 1..m : k + 1 \in 1..Len(s) /\ Len(body) + 1 + k = Len(body) + (k + 1)
      BY <1>30, <1>31
    <2> QED
      BY <1>5, <1>11, <1>13, <2>1, ZenonT(60)
  <1>17. \A k \in 1..Len(b) : r[k] = b[k]
    <2>1. \A k \in 1..Len(b) :
             \/ k \in 1..Len(body) \/ k = Len(body) + 1
             \/ k - (Len(body) + 1) \in 1..m /\ Len(body) + 1 + (k - (Len(body) + 1)) = k
      BY <1>30, <1>31
    <2> QED
      BY <1>14, <1>15, <1>16, <2>1
  <1>18. r[Len(b) + 1] = "TICK"
    <2>1. m + 2 \in 1..Len(s) /\ Len(b) + 1 = Len(body) + (m + 2)
      BY <1>30, <1>31
    <2> QED
      BY <1>5, <1>11, <2>1
  <1>19. \A k \in 1..RowLen : k > Len(b) + 1 => r[k] = "NUL"
    <2>1. \A k \in 1..RowLen : k > Len(b) + 1 =>
             ~ (k \in (Len(body) + 1)..(Len(body) + Len(s))) /\ k > Len(body) + 1
      BY <1>30, <1>31
    <2> QED
      BY <1>1, <1>11, <2>1
  <1>20. Len(b) + 1 < RowLen
    BY <1>30, <1>31
  <1>21. RowHolds(r, b)
    BY <1>13, <1>17, <1>18, <1>19, <1>20 DEF RowHolds
  <1> QED
    BY <1>10, <1>12, <1>21, Zenon

\* What a subscriber is sent of a text that starts with such a row
LEMMA HoldsBefore ==
  ASSUME NEW row \in Row, NEW body, RowHolds(row, body), NEW rest \in Seq(Cell)
  PROVE  Before(Text(row) \o rest, "TICK") = body
  <1>1. /\ body \in Seq(Plain) /\ Len(body) \in Nat
        /\ \A k \in 1..Len(body) : row[k] = body[k]
        /\ row[Len(body) + 1] = "TICK"
    BY DEF RowHolds
  <1>2. PICK t : t = Text(row)
    OBVIOUS
  <1>3. t \in Seq(Cell) /\ Len(t) = Len(body) + 1 /\ \A k \in 1..(Len(body) + 1) : t[k] = row[k]
    BY <1>2, HoldsStrlen, TextIs
  <1>4. PICK u : u = t \o rest
    OBVIOUS
  <1>5. /\ u \in Seq(Cell) /\ Len(u) = Len(t) + Len(rest)
        /\ \A k \in 1..(Len(t) + Len(rest)) : u[k] = IF k <= Len(t) THEN t[k] ELSE rest[k - Len(t)]
    <2>1. /\ t \o rest \in Seq(Cell) /\ Len(t \o rest) = Len(t) + Len(rest)
          /\ \A k \in 1..(Len(t) + Len(rest)) : (t \o rest)[k] = IF k <= Len(t) THEN t[k] ELSE rest[k - Len(t)]
      BY <1>3, ConcatProperties
    <2> QED
      BY <1>4, <2>1, Zenon
  <1>6. Len(rest) \in Nat
    OBVIOUS
  <1>7. \A k \in 1..(Len(body) + 1) : u[k] = row[k]
    <2>1. \A k \in 1..(Len(body) + 1) : k \in 1..(Len(t) + Len(rest)) /\ k <= Len(t)
      BY <1>1, <1>3, <1>6
    <2> QED
      BY <1>3, <1>5, <2>1
  <1>8. u[Len(body) + 1] = "TICK" /\ \A k \in 1..Len(body) : u[k] = body[k]
    <2>1. Len(body) + 1 \in 1..(Len(body) + 1) /\ \A k \in 1..Len(body) : k \in 1..(Len(body) + 1)
      BY <1>1
    <2> QED
      BY <1>1, <1>7, <2>1
  <1>9. \A k \in 1..Len(body) : u[k] # "TICK"
    <2>1. \A k \in 1..Len(body) : body[k] \in Plain
      BY <1>1
    <2> QED
      BY <1>8, <2>1, PlainCells
  <1>10. Len(body) \in 0..(Len(u) - 1)
    BY <1>1, <1>3, <1>5, <1>6
  <1>11. Before(u, "TICK") = SubSeq(u, 1, Len(body))
    BY <1>5, <1>8, <1>9, <1>10, BeforeIs
  <1>12. SubSeq(u, 1, Len(body)) = body
    <2>1. PICK v : v = SubSeq(u, 1, Len(body))
      OBVIOUS
    <2>2. v \in Seq(Cell) /\ Len(v) = Len(body) /\ \A k \in 1..Len(body) : v[k] = u[k]
      BY <1>1, <1>5, <1>10, <2>1
    <2>3. \A k \in 1..Len(v) : v[k] = body[k]
      BY <1>8, <2>2
    <2>4. body \in Seq(Cell)
      <3>1. Plain \subseteq Cell
        BY PlainCells
      <3> QED
        BY <1>1, <3>1
    <2> QED
      BY <2>1, <2>2, <2>3, <2>4, SeqEqual
  <1> QED
    BY <1>2, <1>4, <1>11, <1>12

\* An empty row
LEMMA BlankIs == Blank \in Row /\ \A k \in 1..RowLen : Blank[k] = "NUL"
  <1>1. "NUL" \in Cell
    BY SpecialCells
  <1> QED
    BY <1>1 DEF Blank, Row

\* A name, ": ", data and one more cell
HeadedCells(name, data, e) == name \o <<":", " ">> \o data \o <<e>>

\* Row r is what it makes of "row" when it is written to the start of it, b what
\* is in front of the one cell.
HeadedRow(row, name, data, e, b, r) ==
    /\ b = name \o <<":", " ">> \o data
    /\ r = Write(row, 0, b \o <<e>>)
    /\ Len(b) = Len(name) + Len(data) + 2
    /\ Len(b) + 1 =< RowLen
    /\ \A k \in 1..Len(b) : r[k] = b[k]
    /\ r[Len(b) + 1] = e
    /\ \A k \in 1..RowLen : k > Len(b) + 1 => r[k] = row[k]
    /\ RowNamed(r, name)

\* Writing them at the start of a row
LEMMA HeadedWrite ==
  ASSUME NEW row \in Row, NEW name \in Seq(Letter), NEW data \in Seq(Letter), NEW e \in Cell,
         Fits(row, 0, HeadedCells(name, data, e))
  PROVE  \E b \in Seq(Plain), r \in Row : HeadedRow(row, name, data, e, b, r)
  <1>1. PICK b \in Seq(Plain) :
           /\ b = name \o <<":", " ">> \o data
           /\ Len(b) = Len(name) + Len(data) + 2
           /\ \A k \in 1..Len(name) : b[k] = name[k]
           /\ b[Len(name) + 1] = ":"
           /\ b[Len(name) + 2] = " "
    BY HeadedText, Zenon
  <1>2. PICK l : l = <<e>>
    OBVIOUS
  <1>3. l \in Seq(Cell) /\ Len(l) = 1 /\ l[1] = e
    BY <1>2, OneCell
  <1>4. PICK s : s = b \o l
    OBVIOUS
  <1>5. b \in Seq(Cell)
    <2>1. Plain \subseteq Cell
      BY PlainCells
    <2> QED
      BY <2>1
  <1>6. /\ s \in Seq(Cell) /\ Len(s) = Len(b) + 1
        /\ \A k \in 1..(Len(b) + 1) : s[k] = IF k <= Len(b) THEN b[k] ELSE l[k - Len(b)]
    <2>1. /\ b \o l \in Seq(Cell) /\ Len(b \o l) = Len(b) + Len(l)
          /\ \A k \in 1..(Len(b) + Len(l)) : (b \o l)[k] = IF k <= Len(b) THEN b[k] ELSE l[k - Len(b)]
      BY <1>3, <1>5, ConcatProperties
    <2> QED
      BY <1>3, <1>4, <2>1, Zenon
  <1>7. Fits(row, 0, s)
    BY <1>1, <1>2, <1>4, Zenon DEF HeadedCells
  <1>8. /\ Len(b) \in Nat /\ Len(name) \in Nat /\ Len(data) \in Nat /\ RowLen \in Nat
        /\ Len(b) = Len(name) + Len(data) + 2 /\ Len(s) = Len(b) + 1 /\ Len(s) <= RowLen
    <2>1. RowLen \in Nat /\ Len(b) \in Nat /\ Len(name) \in Nat /\ Len(data) \in Nat
      BY StoreAssumption
    <2>2. Len(b) = Len(name) + Len(data) + 2 /\ Len(s) = Len(b) + 1 /\ 0 + Len(s) =< RowLen
      BY <1>1, <1>6, <1>7, Zenon DEF Fits
    <2>3. Len(s) <= RowLen
      BY <2>1, <2>2
    <2> QED
      BY <2>1, <2>2, <2>3, Zenon
  <1>9. PICK r : r = Write(row, 0, s)
    OBVIOUS
  <1>10. /\ r \in Row
         /\ \A k \in 1..RowLen : ~ (k \in 1..Len(s)) => r[k] = row[k]
         /\ \A k \in 1..Len(s) : r[k] = s[k]
    <2>1. /\ r \in Row
          /\ \A k \in 1..RowLen : ~ (k \in (0 + 1)..(0 + Len(s))) => r[k] = row[k]
          /\ \A k \in 1..Len(s) : r[0 + k] = s[k]
      <3>1. Written(row, 0, s, r)
        BY <1>6, <1>7, <1>9, WriteWritten
      <3> QED
        BY <3>1, Zenon DEF Written
    <2>2. 0 + 1 = 1 /\ 0 + Len(s) = Len(s) /\ \A k \in 1..Len(s) : 0 + k = k
      BY <1>8
    <2> QED
      BY <2>1, <2>2
  <1>11. \A k \in 1..Len(b) : r[k] = b[k]
    <2>1. \A k \in 1..Len(b) : k \in 1..Len(s) /\ k \in 1..(Len(b) + 1) /\ k <= Len(b)
      BY <1>8
    <2> QED
      BY <1>6, <1>10, <2>1
  <1>12. r[Len(b) + 1] = e
    <2>1. /\ Len(b) + 1 \in 1..Len(s) /\ Len(b) + 1 \in 1..(Len(b) + 1)
          /\ ~ (Len(b) + 1 <= Len(b)) /\ (Len(b) + 1) - Len(b) = 1
      BY <1>8
    <2> QED
      BY <1>3, <1>6, <1>10, <2>1
  <1>13. \A k \in 1..RowLen : k > Len(b) + 1 => r[k] = row[k]
    <2>1. \A k \in 1..RowLen : k > Len(b) + 1 => ~ (k \in 1..Len(s))
      BY <1>8
    <2> QED
      BY <1>10, <2>1
  <1>14. RowNamed(r, name)
    <2>1. /\ Len(name) + 2 < RowLen
          /\ \A k \in 1..Len(name) : k \in 1..Len(b)
          /\ Len(name) + 1 \in 1..Len(b) /\ Len(name) + 2 \in 1..Len(b)
      BY <1>8
    <2>2. r[Len(name) + 1] = ":" /\ r[Len(name) + 2] = " " /\ \A k \in 1..Len(name) : r[k] = name[k]
      BY <1>1, <1>11, <2>1, Zenon
    <2> QED
      BY <2>1, <2>2 DEF RowNamed
  <1>15. r = Write(row, 0, b \o <<e>>) /\ Len(b) + 1 =< RowLen
    BY <1>2, <1>4, <1>8, <1>9, Zenon
  <1> QED
    BY <1>1, <1>10, <1>11, <1>12, <1>13, <1>14, <1>15, Zenon DEF HeadedRow

\* The row of an initial topic at the start
LEMMA InitialHolds ==
  ASSUME NEW i \in 1..NumPreset
  PROVE  /\ Write(Blank, 0, PresetText(Preset[i])) \in Row
         /\ RowHolds(Write(Blank, 0, PresetText(Preset[i])), InitialText(i))
         /\ RowNamed(Write(Blank, 0, PresetText(Preset[i])), Preset[i].name)
  <1>1. PICK name, data : name = Preset[i].name /\ data = Preset[i].data
    OBVIOUS
  <1>2. name \in Seq(Letter) /\ data \in Seq(Letter) /\ Len(name) + Len(data) + 4 <= RowLen
    BY <1>1, PresetTypes, StoreAssumption
  <1>3. PICK e : e = "TICK"
    OBVIOUS
  <1>4. e \in Cell
    BY <1>3, SpecialCells
  <1>5. PICK t \in Seq(Plain) : t = name \o <<":", " ">> \o data /\ Len(t) = Len(name) + Len(data) + 2
    BY <1>2, HeadedText, Zenon
  <1>6. Fits(Blank, 0, t \o <<e>>)
    <2>1. t \in Seq(Cell)
      <3>1. Plain \subseteq Cell
        BY PlainCells
      <3> QED
        BY <3>1
    <2>2. Len(t \o <<e>>) = Len(t) + 1
      BY <1>4, <2>1
    <2>3. Len(t) = Len(name) + Len(data) + 2
      BY <1>5, Zenon
    <2>4. 0 + Len(t \o <<e>>) <= RowLen
      BY <1>2, <2>2, <2>3, StoreAssumption
    <2> QED
      BY <2>4 DEF Fits
  <1>12. Fits(Blank, 0, HeadedCells(name, data, e))
    BY <1>5, <1>6, Zenon DEF HeadedCells, HeadedRow
  <1>7. PICK b \in Seq(Plain), r \in Row : HeadedRow(Blank, name, data, e, b, r)
    <2>1. name \in Seq(Letter) /\ data \in Seq(Letter) /\ Blank \in Row
      BY <1>2, BlankIs
    <2> QED
      BY <1>4, <1>12, <2>1, HeadedWrite, Zenon
  <1>8. InitialText(i) = b /\ Write(Blank, 0, PresetText(Preset[i])) = r
    BY <1>1, <1>3, <1>7, InitialTextIs, Zenon DEF InitialText, HeadedRow
  <1>9. Len(b) + 1 < RowLen
    <2>1. Len(b) = Len(name) + Len(data) + 2
      BY <1>7, Zenon DEF HeadedRow
    <2> QED
      BY <1>2, <2>1, StoreAssumption
  <1>10. \A k \in 1..RowLen : k > Len(b) + 1 => r[k] = "NUL"
    BY <1>7, BlankIs, Zenon DEF HeadedRow
  <1>11. RowHolds(r, b)
    BY <1>3, <1>7, <1>9, <1>10, Zenon DEF RowHolds, HeadedRow
  <1> QED
    BY <1>1, <1>7, <1>8, <1>11, Zenon DEF HeadedRow

\* A publish writes its topic's name into the scratch row.
LEMMA ScratchNamed ==
  ASSUME NEW row \in Row, row[RowLen] = "NUL", NEW topic \in Seq(Letter), NEW data \in Seq(Letter),
         Fits(row, 0, ScratchText(topic, data))
  PROVE  /\ Write(row, 0, ScratchText(topic, data)) \in Row
         /\ Write(row, 0, ScratchText(topic, data))[RowLen] = "NUL"
         /\ RowNamed(Write(row, 0, ScratchText(topic, data)), UpperPrefix(topic))
  <1>1. PICK name : name = UpperPrefix(topic)
    OBVIOUS
  <1>2. name \in Seq(Letter)
    BY <1>1, UpperPrefixType
  <1>3. PICK e : e = "NUL"
    OBVIOUS
  <1>4. e \in Cell
    BY <1>3, SpecialCells
  <1>5. ScratchText(topic, data) = HeadedCells(name, data, e)
    BY <1>1, <1>3, Zenon DEF ScratchText, HeadedCells
  <1>6. PICK b \in Seq(Plain), r \in Row : HeadedRow(row, name, data, e, b, r)
    <2>1. Fits(row, 0, HeadedCells(name, data, e))
      BY <1>5, Zenon
    <2> QED
      BY <1>2, <1>4, <2>1, HeadedWrite, Zenon
  <1>7. r = Write(row, 0, ScratchText(topic, data))
    BY <1>5, <1>6, Zenon DEF HeadedCells, HeadedRow
  <1>8. r[RowLen] = "NUL"
    <2>1. Len(b) \in Nat /\ RowLen \in Nat /\ Len(b) + 1 =< RowLen
      <3>1. Len(b) + 1 =< RowLen
        BY <1>6, Zenon DEF HeadedRow
      <3> QED
        BY <3>1, StoreAssumption
    <2>2. RowLen = Len(b) + 1 \/ (RowLen \in 1..RowLen /\ RowLen > Len(b) + 1)
      BY <2>1
    <2> QED
      BY <1>3, <1>6, <2>2, Zenon DEF HeadedRow
  <1> QED
    BY <1>1, <1>6, <1>7, <1>8, Zenon DEF HeadedRow

-----------------------------------------------------------------------------
(* The table and a publish.                                                *)

\* The rows in front of the scratch row have these names, and every row ends.
NamedRows(m, names) ==
    /\ m \in [0..(MAX_PUBLISHERS - 1) -> Row]
    /\ \A i \in 0..(MAX_PUBLISHERS - 1) : m[i][RowLen] = "NUL"
    /\ names \in Seq(Seq(Letter))
    /\ Len(names) \in NumPreset..MAX_PUBLISHERS
    /\ \A i \in 1..Len(names) : RowNamed(m[i - 1], names[i])

LEMMA NamesRead ==
  ASSUME NEW m, NEW names, NamedRows(m, names)
  PROVE  /\ Len(names) \in Nat
         /\ \A i \in 1..Len(names) :
               /\ i - 1 \in 0..(MAX_PUBLISHERS - 1) /\ m[i - 1] \in Row /\ m[i - 1][RowLen] = "NUL"
               /\ GetTopic(m[i - 1]) = names[i]
  <1>1. /\ names \in Seq(Seq(Letter)) /\ Len(names) \in Nat /\ Len(names) =< MAX_PUBLISHERS
        /\ MAX_PUBLISHERS \in Nat
    BY PresetTypes DEF NamedRows
  <1>2. ASSUME NEW i \in 1..Len(names)
        PROVE  /\ i - 1 \in 0..(MAX_PUBLISHERS - 1) /\ m[i - 1] \in Row /\ m[i - 1][RowLen] = "NUL"
               /\ GetTopic(m[i - 1]) = names[i]
    <2>1. i - 1 \in 0..(MAX_PUBLISHERS - 1)
      BY <1>1
    <2>2. m[i - 1] \in Row /\ m[i - 1][RowLen] = "NUL" /\ RowNamed(m[i - 1], names[i])
      BY <2>1 DEF NamedRows
    <2>3. GetTopic(m[i - 1]) = names[i]
      BY <2>2, NameRead
    <2> QED
      BY <2>1, <2>2, <2>3
  <1> QED
    BY <1>1, <1>2

\* The names are what getTopic reads.
LEMMA NamesAre ==
  ASSUME NEW m, NEW names, NamedRows(m, names)
  PROVE  names = [i \in 1..Len(names) |-> GetTopic(m[i - 1])]
  <1>1. names = [i \in 1..Len(names) |-> names[i]]
    BY DEF NamedRows
  <1>2. \A i \in 1..Len(names) : names[i] = GetTopic(m[i - 1])
    BY NamesRead
  <1> QED
    BY <1>1, <1>2

\* The loop over the rows finds a topic exactly if it is among the names.
LEMMA TopicFound ==
  ASSUME NEW m, NEW names, NamedRows(m, names), NEW topic
  PROVE  RowsNamed(m, Len(names), topic) = {} <=> topic \notin ToSet(names)
  <1>1. Len(names) \in Nat /\ \A i \in 1..Len(names) : GetTopic(m[i - 1]) = names[i]
    BY NamesRead
  <1>2. ToSet(names) = {names[i] : i \in 1..Len(names)}
    BY ToSetIs DEF NamedRows
  <1>3. \A j \in 0..(Len(names) - 1) : j + 1 \in 1..Len(names) /\ (j + 1) - 1 = j
    BY <1>1
  <1>4. \A i \in 1..Len(names) : i - 1 \in 0..(Len(names) - 1)
    BY <1>1
  <1>5. \A j \in 0..(Len(names) - 1) : GetTopic(m[j]) = topic => topic \in ToSet(names)
    BY <1>1, <1>2, <1>3
  <1>6. ASSUME topic \in ToSet(names)
        PROVE  \E j \in 0..(Len(names) - 1) : GetTopic(m[j]) = topic
    BY <1>1, <1>2, <1>4, <1>6
  <1> QED
    BY <1>5, <1>6 DEF RowsNamed

ScratchIs(m, n, topic, data, s) ==
    /\ s = [m EXCEPT ![n] = Write(@, 0, ScratchText(topic, data))]
    /\ s \in [0..(MAX_PUBLISHERS - 1) -> Row]
    /\ n \in 0..(MAX_PUBLISHERS - 1) /\ MAX_PUBLISHERS \in Nat
    /\ \A i \in 0..(MAX_PUBLISHERS - 1) : s[i][RowLen] = "NUL"
    /\ \A i \in 0..(MAX_PUBLISHERS - 1) : i # n => s[i] = m[i]
    /\ RowNamed(s[n], UpperPrefix(topic))

\* Writing the scratch row touches no other row and gives it the topic's name.
LEMMA ScratchWritten ==
  ASSUME NEW m, NEW names, NamedRows(m, names), NEW topic \in Seq(Letter), NEW data \in Seq(Letter),
         NEW exists, NEW row, PublishInBounds(m, Len(names), topic, data, exists, row)
  PROVE  \E s : ScratchIs(m, Len(names), topic, data, s)
  <1>1. PICK n : n = Len(names)
    OBVIOUS
  <1>2. n \in 0..(MAX_PUBLISHERS - 1) /\ MAX_PUBLISHERS \in Nat
    BY <1>1, PresetTypes DEF PublishInBounds, NamedRows
  <1>3. m[n] \in Row /\ m[n][RowLen] = "NUL" /\ Fits(m[n], 0, ScratchText(topic, data))
    BY <1>1, <1>2 DEF PublishInBounds, NamedRows
  <1>4. PICK r : r = Write(m[n], 0, ScratchText(topic, data))
    OBVIOUS
  <1>5. r \in Row /\ r[RowLen] = "NUL" /\ RowNamed(r, UpperPrefix(topic))
    BY <1>3, <1>4, ScratchNamed
  <1>6. PICK s : s = [m EXCEPT ![n] = r]
    OBVIOUS
  <1>7. s \in [0..(MAX_PUBLISHERS - 1) -> Row] /\ s[n] = r
        /\ \A i \in 0..(MAX_PUBLISHERS - 1) : i # n => s[i] = m[i]
    BY <1>2, <1>5, <1>6 DEF NamedRows
  <1>8. \A i \in 0..(MAX_PUBLISHERS - 1) : s[i][RowLen] = "NUL"
    BY <1>5, <1>7 DEF NamedRows
  <1>9. s = [m EXCEPT ![n] = Write(@, 0, ScratchText(topic, data))]
    BY <1>4, <1>6
  <1> QED
    BY <1>1, <1>2, <1>5, <1>7, <1>8, <1>9, Zenon DEF ScratchIs

\* Of the first n rows only one of the topic is changed, the first one, and stays terminated.
FirstChanged(m, n, topic, data, m2) ==
    /\ \A i \in 0..(n - 1) :
          \/ m2[i] = m[i]
          \/ GetTopic(m[i]) = topic /\ m2[i] = AppendData(m[i], data) /\ StaysTerminated(m[i], data)
    /\ \A i \in 0..(n - 1) :
          GetTopic(m[i]) = topic /\ (\A k \in 0..(i - 1) : GetTopic(m[k]) # topic) =>
             m2[i] = AppendData(m[i], data) /\ StaysTerminated(m[i], data)

\* What the search for the topic finds: the first of its rows
Searched(m, n, topic, exists, row) ==
    /\ exists = (RowsNamed(m, n, topic) # {})
    /\ exists => row \in RowsNamed(m, n, topic) /\ \A l \in RowsNamed(m, n, topic) : row <= l

\* The names after a publish of the topic: the copy into the scratch row shortens it.
AddsStored(names, topic) ==
    IF topic \in ToSet(names) THEN names ELSE Append(names, UpperPrefix(topic))

\* What a publish does to the rows, whether its topic is there or not
LEMMA Publishing ==
  ASSUME NEW m, NEW names, NamedRows(m, names), NEW topic \in Seq(Letter), NEW data \in Seq(Letter),
         NEW exists, NEW first, Searched(m, Len(names), topic, exists, first),
         PublishInBounds(m, Len(names), topic, data, exists, first),
         exists => StaysTerminated(m[first], data),
         NEW m2, m2 = AfterPublish(m, Len(names), topic, data, exists, first),
         NEW names2, names2 = AddsStored(names, topic)
  PROVE  /\ NamedRows(m2, names2)
         /\ Len(names2) = CounterAfterPublish(Len(names), exists)
         /\ FirstChanged(m, Len(names), topic, data, m2)
  <1> DEFINE rows == RowsNamed(m, Len(names), topic)
  <1>1. PICK n : n = Len(names)
    OBVIOUS
  <1>10. PICK s : ScratchIs(m, n, topic, data, s)
    BY <1>1, ScratchWritten
  <1>2. /\ s \in [0..(MAX_PUBLISHERS - 1) -> Row]
        /\ n \in 0..(MAX_PUBLISHERS - 1) /\ MAX_PUBLISHERS \in Nat
        /\ \A i \in 0..(MAX_PUBLISHERS - 1) : s[i][RowLen] = "NUL"
        /\ \A i \in 0..(MAX_PUBLISHERS - 1) : i # n => s[i] = m[i]
        /\ RowNamed(s[n], UpperPrefix(topic))
    BY <1>10, Zenon DEF ScratchIs
  <1>3. /\ names \in Seq(Seq(Letter)) /\ n \in Nat /\ n \in NumPreset..MAX_PUBLISHERS /\ NumPreset \in Nat
        /\ \A i \in 1..n : RowNamed(m[i - 1], names[i])
    BY <1>1, PresetTypes DEF NamedRows
  <1>4. \A i \in 1..n : i - 1 \in 0..(MAX_PUBLISHERS - 1) /\ i - 1 # n /\ i - 1 \in 0..(n - 1)
    BY <1>2, <1>3
  <1>5. rows = {} <=> topic \notin ToSet(names)
    BY TopicFound
  <1>6. rows = {j \in 0..(n - 1) : GetTopic(m[j]) = topic}
    BY <1>1 DEF RowsNamed
  <1>7. m2 = IF rows = {} THEN s ELSE [s EXCEPT ![first] = AppendData(@, data)]
    <2>1. s = [m EXCEPT ![Len(names)] = Write(@, 0, ScratchText(topic, data))]
      BY <1>1, <1>10, Zenon DEF ScratchIs
    <2> QED
      BY <2>1 DEF AfterPublish, Searched
  <1>8. CASE rows = {}
    <2>1. m2 = s /\ names2 = Append(names, UpperPrefix(topic))
      BY <1>5, <1>7, <1>8 DEF AddsStored
    <2>2. PICK u \in Seq(Letter) : u = UpperPrefix(topic)
      BY UpperPrefixType
    <2>3. /\ names2 \in Seq(Seq(Letter)) /\ Len(names2) = n + 1 /\ names2[n + 1] = u
          /\ \A i \in 1..n : names2[i] = names[i]
      BY <1>1, <1>3, <2>1, <2>2, AppendProperties
    <2>4. \A i \in 1..(n + 1) : RowNamed(m2[i - 1], names2[i])
      <3>1. \A i \in 1..n : m2[i - 1] = m[i - 1]
        BY <1>2, <1>4, <2>1
      <3>2. (n + 1) - 1 = n /\ \A i \in 1..(n + 1) : i \in 1..n \/ i = n + 1
        BY <1>3
      <3> QED
        BY <1>2, <1>3, <2>1, <2>2, <2>3, <3>1, <3>2
    <2>5. Len(names2) \in NumPreset..MAX_PUBLISHERS
      BY <1>2, <1>3, <2>3
    <2>6. NamedRows(m2, names2)
      BY <1>2, <2>1, <2>3, <2>4, <2>5 DEF NamedRows
    <2>7. Len(names2) = CounterAfterPublish(Len(names), exists)
      BY <1>1, <1>8, <2>3 DEF CounterAfterPublish, Searched
    <2>8. \A i \in 0..(n - 1) : m2[i] = m[i]
      <3>1. \A i \in 0..(n - 1) : i \in 0..(MAX_PUBLISHERS - 1) /\ i # n
        BY <1>2
      <3> QED
        BY <1>2, <2>1, <3>1
    <2>9. \A i \in 0..(n - 1) : GetTopic(m[i]) # topic
      BY <1>6, <1>8
    <2> QED
      BY <1>1, <2>6, <2>7, <2>8, <2>9 DEF FirstChanged
  <1>9. CASE rows # {}
    <2>1. exists /\ first \in rows /\ \A l \in rows : first <= l
      BY <1>9 DEF Searched
    <2>2. m2 = [s EXCEPT ![first] = AppendData(@, data)]
      BY <1>7, <1>9
    <2>3. names2 = names
      BY <1>5, <1>9 DEF AddsStored
    <2>4. first \in 0..(n - 1) /\ GetTopic(m[first]) = topic
      BY <1>6, <2>1
    <2>5. first \in 0..(MAX_PUBLISHERS - 1) /\ first # n /\ first + 1 \in 1..n /\ (first + 1) - 1 = first
      BY <1>2, <1>3, <2>4
    <2>6. s[first] = m[first] /\ m[first] \in Row /\ m[first][RowLen] = "NUL" /\ RowNamed(m[first], names[first + 1])
      BY <1>2, <1>3, <2>5 DEF NamedRows
    <2>7. StaysTerminated(m[first], data)
      BY <2>1
    <2>8. PICK r : r = AppendData(m[first], data)
      OBVIOUS
    <2>9. r \in Row /\ r[RowLen] = "NUL" /\ RowNamed(r, names[first + 1])
      BY <2>6, <2>7, <2>8, AppendKeepsName, Zenon DEF StaysTerminated
    <2>10. m2 \in [0..(MAX_PUBLISHERS - 1) -> Row] /\ m2[first] = r
           /\ \A i \in 0..(MAX_PUBLISHERS - 1) : i # first => m2[i] = s[i]
      <3>1. s \in [0..(MAX_PUBLISHERS - 1) -> Row] /\ r \in Row /\ s[first] = m[first]
        BY <1>2, <2>6, <2>9
      <3>2. m2 = [s EXCEPT ![first] = r]
        BY <2>2, <2>8, <3>1
      <3> QED
        BY <2>5, <3>1, <3>2
    <2>11. \A i \in 0..(n - 1) : i # first => m2[i] = m[i]
      <3>1. \A i \in 0..(n - 1) : i \in 0..(MAX_PUBLISHERS - 1) /\ i # n
        BY <1>2
      <3> QED
        BY <1>2, <2>10, <3>1
    <2>12. \A i \in 1..n : RowNamed(m2[i - 1], names[i])
      <3> SUFFICES ASSUME NEW i \in 1..n PROVE RowNamed(m2[i - 1], names[i])
        OBVIOUS
      <3>1. CASE i - 1 = first
        <4>1. i = first + 1
          BY <1>3, <2>4, <3>1
        <4> QED
          BY <2>9, <2>10, <2>5, <4>1
      <3>2. CASE i - 1 # first
        BY <1>3, <1>4, <2>11, <3>2
      <3> QED
        BY <3>1, <3>2
    <2>13. \A i \in 0..(MAX_PUBLISHERS - 1) : m2[i][RowLen] = "NUL"
      BY <1>2, <2>9, <2>10
    <2>14. NamedRows(m2, names2)
      BY <1>1, <1>3, <2>3, <2>10, <2>12, <2>13 DEF NamedRows
    <2>15. Len(names2) = CounterAfterPublish(Len(names), exists)
      BY <2>1, <2>3 DEF CounterAfterPublish
    <2>16. \A i \in 0..(n - 1) :
              \/ m2[i] = m[i]
              \/ GetTopic(m[i]) = topic /\ m2[i] = AppendData(m[i], data) /\ StaysTerminated(m[i], data)
      BY <2>4, <2>7, <2>8, <2>10, <2>11
    <2>17. ASSUME NEW i \in 0..(n - 1), GetTopic(m[i]) = topic,
                  \A k \in 0..(i - 1) : GetTopic(m[k]) # topic
           PROVE  m2[i] = AppendData(m[i], data) /\ StaysTerminated(m[i], data)
      <3>1. i \in rows
        BY <1>6, <2>17
      <3>2. first <= i /\ ~ (first \in 0..(i - 1))
        BY <2>1, <2>4, <2>17, <3>1
      <3>3. first = i
        BY <2>4, <3>2
      <3> QED
        BY <2>7, <2>8, <2>10, <3>3
    <2> QED
      BY <1>1, <2>14, <2>15, <2>16, <2>17 DEF FirstChanged
  <1> QED
    BY <1>8, <1>9

-----------------------------------------------------------------------------
(* What the replies are made of.                                           *)

\* The closing TICK
LEMMA TickIs == <<"TICK">> \in Seq(Cell) /\ Len(<<"TICK">>) = 1
  BY OneCell, SpecialCells, Zenon

LEMMA WithTick == \A s \in Seq(Cell) : s \o <<"TICK">> \in Seq(Cell)
  <1>1. PICK l : l = <<"TICK">>
    OBVIOUS
  <1>2. l \in Seq(Cell)
    BY <1>1, TickIs, Zenon
  <1>3. \A s \in Seq(Cell) : s \o l \in Seq(Cell)
    BY <1>2, ConcatProperties
  <1> QED
    BY <1>1, <1>3, Zenon

\* Names are cells.
LEMMA NamesAreCells == \A s \in Seq(Letter) : s \in Seq(Cell)
  BY Words

\* The answer to LIST, from the names
LEMMA ListIs ==
  ASSUME NEW m, NEW names, NamedRows(m, names)
  PROVE  /\ ListReply(m, Len(names)) = FlattenSeq([i \in DOMAIN names |-> Append(names[i], "NL")]) \o <<"TICK">>
         /\ ListReply(m, Len(names)) \in Seq(Cell)
  <1>1. PICK e : e = "NL"
    OBVIOUS
  <1>2. e \in Cell
    BY <1>1, SpecialCells
  <1>3. names \in Seq(Seq(Letter)) /\ Len(names) \in Nat /\ DOMAIN names = 1..Len(names)
    BY DEF NamedRows
  <1>4. ASSUME NEW i \in 1..Len(names)
        PROVE  GetTopic(m[i - 1]) \o <<e>> = Append(names[i], e) /\ Append(names[i], e) \in Seq(Cell)
    <2>1. GetTopic(m[i - 1]) = names[i]
      BY NamesRead
    <2>2. names[i] \in Seq(Cell)
      BY <1>3, NamesAreCells
    <2>3. PICK s \in Seq(Cell) : s = names[i]
      BY <2>2
    <2>4. Append(s, e) = s \o <<e>>
      BY <1>2, AppendIsConcat
    <2>5. Append(s, e) \in Seq(Cell)
      BY <1>2, AppendProperties
    <2> QED
      BY <2>1, <2>3, <2>4, <2>5
  <1>5. PICK q : q = [i \in 1..Len(names) |-> GetTopic(m[i - 1]) \o <<e>>]
    OBVIOUS
  <1>6. q = [i \in DOMAIN names |-> Append(names[i], e)]
    BY <1>3, <1>4, <1>5
  <1>7. q \in Seq(Seq(Cell))
    <2>1. q \in [1..Len(names) -> Seq(Cell)]
      <3>1. \A i \in 1..Len(names) : GetTopic(m[i - 1]) \o <<e>> \in Seq(Cell)
        BY <1>4, Zenon
      <3> QED
        BY <1>5, <3>1, Zenon
    <2>2. PICK n \in Nat : n = Len(names)
      BY <1>3
    <2>3. q \in [1..n -> Seq(Cell)]
      BY <2>1, <2>2
    <2> QED
      BY <2>3
  <1>8. FlattenSeq(q) \in Seq(Cell)
    BY <1>7, FlattenIs
  <1>9. ListReply(m, Len(names)) = FlattenSeq(q) \o <<"TICK">>
    BY <1>1, <1>5, Zenon DEF ListReply
  <1>10. ListReply(m, Len(names)) = FlattenSeq([i \in DOMAIN names |-> Append(names[i], "NL")]) \o <<"TICK">>
    BY <1>1, <1>6, <1>9, Zenon
  <1> QED
    BY <1>8, <1>9, <1>10, WithTick, Zenon

\* The answer to a subscriber
LEMMA ReplyType ==
  ASSUME NEW m, NEW names, NamedRows(m, names), NEW topic \in Seq(Letter)
  PROVE  TopicReply(m, Len(names), topic) \in Seq(Cell)
  <1>1. PICK n : n = Len(names)
    OBVIOUS
  <1> DEFINE found == {i \in 0..(n - 1) : IsPrefix(GetTopic(m[i]), topic)}
             first == IF found = {} THEN n ELSE CHOOSE i \in found : \A l \in found : i <= l
             matched == [i \in 1..first |-> LongestCommonPrefix({GetTopic(m[i - 1]), topic})]
             served == [i \in 1..(n - first) |-> Text(m[first + i - 1])]
  <1>2. /\ n \in Nat /\ names \in Seq(Seq(Letter))
        /\ \A i \in 1..n : /\ GetTopic(m[i - 1]) = names[i] /\ names[i] \in Seq(Letter)
                           /\ m[i - 1] \in Row /\ m[i - 1][RowLen] = "NUL"
    <2>1. n \in Nat /\ names \in Seq(Seq(Letter)) /\ \A i \in 1..n : names[i] \in Seq(Letter)
      BY <1>1 DEF NamedRows
    <2> QED
      BY <1>1, <2>1, NamesRead
  <1>3. first \in 0..n
    <2>1. CASE found = {}
      BY <1>2, <2>1
    <2>2. CASE found # {}
      <3>1. found \in SUBSET Nat
        BY <1>2
      <3>2. \E i \in found : \A l \in found : i <= l
        BY <2>2, <3>1, MinOfNats
      <3>3. first \in found
        BY <2>2, <3>2
      <3> QED
        BY <1>2, <3>3
    <2> QED
      BY <2>1, <2>2
  <1>4. TopicReply(m, n, topic) = FlattenSeq(matched) \o Before(FlattenSeq(served), "TICK") \o <<"TICK">>
    BY Zenon DEF TopicReply
  <1> HIDE DEF first
  <1>5. FlattenSeq(matched) \in Seq(Cell)
    <2>1. \A i \in 1..first : i \in 1..n
      BY <1>2, <1>3
    <2>2. ASSUME NEW i \in 1..first
          PROVE  LongestCommonPrefix({GetTopic(m[i - 1]), topic}) \in Seq(Cell)
      <3>1. GetTopic(m[i - 1]) = names[i] /\ names[i] \in Seq(Letter)
        BY <1>2, <2>1
      <3>2. LongestCommonPrefix({names[i], topic}) \in Seq(Letter)
        BY <3>1, LongestCommonPrefixIs
      <3> QED
        BY <3>1, <3>2, NamesAreCells
    <2>3. matched \in [1..first -> Seq(Cell)]
      BY <2>2
    <2> HIDE DEF matched
    <2>4. matched \in Seq(Seq(Cell))
      BY <1>3, <2>3, FunctionIsSequence
    <2> QED
      BY <2>4, FlattenIs
  <1>6. FlattenSeq(served) \in Seq(Cell)
    <2>1. \A i \in 1..(n - first) : first + i \in 1..n /\ (first + i) - 1 = first + i - 1
      BY <1>2, <1>3
    <2>2. \A i \in 1..(n - first) : Text(m[first + i - 1]) \in Seq(Cell)
      BY <1>2, <2>1, TextIs
    <2>3. served \in [1..(n - first) -> Seq(Cell)]
      BY <2>2
    <2>4. n - first \in Nat
      BY <1>2, <1>3
    <2> HIDE DEF served
    <2>5. served \in Seq(Seq(Cell))
      BY <2>3, <2>4, FunctionIsSequence
    <2> QED
      BY <2>5, FlattenIs
  <1> HIDE DEF matched, served
  <1>7. PICK a \in Seq(Cell) : a = FlattenSeq(matched)
    BY <1>5
  <1>8. PICK b \in Seq(Cell) : b = Before(FlattenSeq(served), "TICK")
    BY <1>6, BeforeType
  <1>9. PICK c : c = a \o b
    OBVIOUS
  <1>10. c \in Seq(Cell)
    BY <1>9, ConcatProperties
  <1>11. TopicReply(m, n, topic) = c \o <<"TICK">>
    BY <1>4, <1>7, <1>8, <1>9, Zenon
  <1> QED
    BY <1>1, <1>10, <1>11, WithTick, Zenon

\* The answer to a subscriber of an initial topic: the rows in front of his start
\* with other letters, so that nothing is copied from them.
LEMMA PresetReplyIs ==
  ASSUME PresetsApart, NEW m, NEW names, NamedRows(m, names),
         \A k \in 1..NumPreset : names[k] = Preset[k].name,
         NEW i \in 1..NumPreset, NEW body, RowHolds(m[i - 1], body)
  PROVE  TopicReply(m, Len(names), Preset[i].name) = body \o <<"TICK">>
  <1>1. PICK n, topic : n = Len(names) /\ topic = Preset[i].name
    OBVIOUS
  <1> DEFINE found == {k \in 0..(n - 1) : IsPrefix(GetTopic(m[k]), topic)}
             first == IF found = {} THEN n ELSE CHOOSE k \in found : \A l \in found : k <= l
             matched == [k \in 1..first |-> LongestCommonPrefix({GetTopic(m[k - 1]), topic})]
             served == [k \in 1..(n - first) |-> Text(m[first + k - 1])]
  <1>2. n \in Nat /\ NumPreset \in Nat /\ NumPreset =< n
    BY <1>1, PresetTypes DEF NamedRows
  <1>3. \A k \in 1..n : k - 1 \in 0..(n - 1) /\ m[k - 1] \in Row /\ m[k - 1][RowLen] = "NUL"
    BY <1>1, <1>2, NamesRead
  <1>4. \A k \in 1..NumPreset : k \in 1..n /\ k - 1 \in 0..(n - 1) /\ GetTopic(m[k - 1]) = Preset[k].name
    <2>1. \A k \in 1..NumPreset : k \in 1..n /\ k - 1 \in 0..(n - 1)
      BY <1>2
    <2> QED
      BY <1>1, <2>1, NamesRead
  <1>5. topic \in Seq(Letter) /\ \A k \in 1..NumPreset : Preset[k].name \in Seq(Letter)
    BY <1>1, PresetTypes
  <1>6. ASSUME NEW k \in 1..NumPreset, k # i
        PROVE  /\ LongestCommonPrefix({GetTopic(m[k - 1]), topic}) = <<>>
               /\ ~ IsPrefix(GetTopic(m[k - 1]), topic)
    <2>1. PICK name \in Seq(Letter) : name = Preset[k].name
      BY <1>5
    <2>2. name # <<>> /\ topic # <<>> /\ name[1] # topic[1]
      <3>1. name # <<>> /\ topic # <<>> /\ Head(name) # Head(topic)
        BY <1>1, <1>6, <2>1 DEF PresetsApart
      <3> QED
        BY <3>1, <1>5
    <2>3. LongestCommonPrefix({name, topic}) = <<>> /\ ~ IsPrefix(name, topic)
      BY <1>5, <2>2, NothingInCommon
    <2> QED
      BY <1>4, <2>1, <2>3
  <1>7. i - 1 \in found
    <2>1. IsPrefix(topic, topic)
      BY <1>5, PrefixIs
    <2> QED
      BY <1>1, <1>4, <2>1
  <1>8. \A l \in found : i - 1 <= l
    <2> SUFFICES ASSUME NEW l \in found, l < i - 1 PROVE FALSE
      BY <1>2
    <2>1. l + 1 \in 1..NumPreset /\ l + 1 # i /\ (l + 1) - 1 = l
      BY <1>2
    <2>2. ~ IsPrefix(GetTopic(m[l]), topic)
      BY <1>6, <2>1
    <2> QED
      BY <2>2
  <1>9. first = i - 1
    <2>1. first \in found /\ \A l \in found : first <= l
      BY <1>7, <1>8
    <2>2. found \in SUBSET Nat
      BY <1>2
    <2> HIDE DEF first, found
    <2>3. first \in Nat /\ first <= i - 1 /\ i - 1 <= first
      BY <1>7, <1>8, <2>1, <2>2
    <2> QED
      BY <2>3
  <1>10. TopicReply(m, n, topic) = FlattenSeq(matched) \o Before(FlattenSeq(served), "TICK") \o <<"TICK">>
    BY Zenon DEF TopicReply
  <1> HIDE DEF first
  <1>11. FlattenSeq(matched) = <<>>
    <2>1. \A k \in 1..first : k \in 1..NumPreset /\ k # i
      BY <1>2, <1>9
    <2>2. \A k \in 1..first : matched[k] = <<>>
      BY <1>6, <2>1
    <2>3. matched \in Seq(Seq(Cell)) /\ \A k \in 1..Len(matched) : matched[k] = <<>>
      <3>1. first \in Nat /\ <<>> \in Seq(Cell)
        BY <1>2, <1>9
      <3>2. matched \in [1..first -> Seq(Cell)]
        BY <2>2, <3>1
      <3>3. matched \in Seq(Seq(Cell)) /\ Len(matched) = first
        BY <3>1, <3>2
      <3> QED
        BY <2>2, <3>3
    <2> HIDE DEF matched
    <2> QED
      BY <2>3, FlattenIs
  <1>12. PICK rest \in Seq(Cell) : FlattenSeq(served) = Text(m[i - 1]) \o rest
    <2>1. \A k \in 1..(n - first) : first + k \in 1..n /\ (first + k) - 1 = first + k - 1
      BY <1>2, <1>9
    <2>2. \A k \in 1..(n - first) : Text(m[first + k - 1]) \in Seq(Cell)
      BY <1>3, <2>1, TextIs
    <2>3. n - first \in Nat /\ 1 \in 1..(n - first) /\ first + 1 - 1 = i - 1
      BY <1>2, <1>9
    <2>4. served \in [1..(n - first) -> Seq(Cell)] /\ served[1] = Text(m[i - 1])
      BY <2>2, <2>3
    <2> HIDE DEF served
    <2>5. served \in Seq(Seq(Cell)) /\ served # <<>>
      BY <2>3, <2>4
    <2> QED
      BY <2>4, <2>5, FlattenIs
  <1>13. Before(FlattenSeq(served), "TICK") = body
    <2>1. m[i - 1] \in Row
      BY <1>3, <1>4
    <2> QED
      BY <1>12, <2>1, HoldsBefore
  <1> HIDE DEF matched, served
  <1>14. body \in Seq(Plain)
    BY DEF RowHolds
  <1>15. <<>> \o body = body
    BY <1>14
  <1> QED
    BY <1>1, <1>10, <1>11, <1>13, <1>15, Zenon

-----------------------------------------------------------------------------
(* The store along the behaviours.                                         *)

\* The event table names one handler.
LEMMA OneHandler ==
  ASSUME NEW h1, NEW h2, Dispatches(h1), Dispatches(h2)
  PROVE  h1 = h2
  BY DEF Dispatches, EventTable

\* The rows, the number of topics and the history of publishes change together.
LEMMA StoreChanges ==
  ASSUME [Next]_vars
  PROVE  \/ UNCHANGED <<storeVars, log>>
         \/ Publish /\ log' = Append(log, [topic |-> dataBuffer.topic, data |-> dataBuffer.data])
  <1>1. CASE ServerStep
    <2>1. CASE Publish
      BY <1>1, <2>1 DEF ServerStep, Publish, Recognizes
    <2>2. CASE ServerNext /\ ~Publish
      <3>1. UNCHANGED storeVars
        BY <2>2 DEF ServerNext, Start, StartFails, FSM_Ch_Idle_Cl_Failed, FSM_Ch_Idle_Cl_Connected,
              Recvfrom, RecvfromFails, Subscribe, List, NotRecognized, FSM_Ch_Publish_ACK,
              FSM_Ch_Share_Topic_Data, FSM_Ch_Share_All_Topics, Answers, SendtoFails, storeVars
      <3>2. ~ (Dispatches("FSM_Ch_Store_Data_SubPub") /\ dataBuffer.kind = "PUB")
        <4>1. CASE Start \/ StartFails \/ Recvfrom \/ RecvfromFails
          BY <4>1 DEF Start, StartFails, Recvfrom, RecvfromFails, LeavesRecvfrom, Dispatches
        <4>2. CASE Subscribe \/ List \/ NotRecognized
          BY <4>2 DEF Subscribe, List, NotRecognized, Recognizes
        <4>3. CASE \/ FSM_Ch_Idle_Cl_Failed \/ FSM_Ch_Idle_Cl_Connected \/ FSM_Ch_Publish_ACK
                   \/ FSM_Ch_Share_Topic_Data \/ FSM_Ch_Share_All_Topics
          <5>1. \E h \in {"FSM_Ch_Idle_Cl_Failed", "FSM_Ch_Idle_Cl_Connected", "FSM_Ch_Publish_ACK",
                          "FSM_Ch_Share_Topic_Data", "FSM_Ch_Share_All_Topics"} : Dispatches(h)
            BY <4>3 DEF FSM_Ch_Idle_Cl_Failed, FSM_Ch_Idle_Cl_Connected, FSM_Ch_Publish_ACK,
                  FSM_Ch_Share_Topic_Data, FSM_Ch_Share_All_Topics, Answers, SendtoFails
          <5> QED
            BY <5>1, OneHandler
        <4> QED
          BY <2>2, <4>1, <4>2, <4>3 DEF ServerNext
      <3> QED
        BY <1>1, <3>1, <3>2 DEF ServerStep
    <2> QED
      BY <1>1, <2>1, <2>2 DEF ServerStep
  <1>2. CASE ~ServerStep
    BY <1>2 DEF Next, NetworkStep, LosesRequest, DuplicatesRequest, LosesReply, DuplicatesReply, Fault,
          ClientSends, ClientReceives, vars, serverVars, storeVars
  <1> QED
    BY <1>1, <1>2

-----------------------------------------------------------------------------
(* The rows against the history of publishes.                              *)

\* The names in the rows
StoreNames == [i \in 1..publisherCounter |-> GetTopic(mem[i - 1])]

\* The flag is only set during a publish; each row has a name, the one the history of
\* publishes gives if none was shortened.
StoreInv ==
    /\ log \in Seq(Publishes)
    /\ alreadyexists = FALSE
    /\ index \in 0..(MAX_PUBLISHERS - 1)
    /\ NamedRows(mem, StoreNames)
    /\ publisherCounter = Len(StoreNames)
    /\ \A i \in 1..NumPreset : StoreNames[i] = Preset[i].name
    /\ NamesWhole => StoreNames = TopicsAfter(log)

\* The rows of the initial topics hold what the history gives.
PresetInv ==
    PresetsApart => \A i \in 1..NumPreset : RowHolds(mem[i - 1], TextAfter(Preset[i], log))

BufferInv == dataBuffer \in Request \cup {Zeros}

LEMMA InitialRowsAre ==
  /\ InitialRows \in [0..(MAX_PUBLISHERS - 1) -> Row]
  /\ \A i \in 0..(MAX_PUBLISHERS - 1) : InitialRows[i][RowLen] = "NUL"
  /\ \A i \in 1..NumPreset : /\ RowHolds(InitialRows[i - 1], InitialText(i))
                             /\ RowNamed(InitialRows[i - 1], Preset[i].name)
  <1>1. NumPreset \in Nat /\ MAX_PUBLISHERS \in Nat /\ NumPreset < MAX_PUBLISHERS /\ RowLen \in 1..RowLen
    BY PresetTypes, StoreAssumption
  <1>2. ASSUME NEW i \in 1..NumPreset
        PROVE  /\ i - 1 \in 0..(MAX_PUBLISHERS - 1)
               /\ InitialRows[i - 1] = Write(Blank, 0, PresetText(Preset[i]))
    <2>1. i - 1 \in 0..(MAX_PUBLISHERS - 1) /\ i - 1 < NumPreset /\ (i - 1) + 1 = i
      BY <1>1
    <2> QED
      BY <2>1 DEF InitialRows
  <1>3. ASSUME NEW i \in 0..(MAX_PUBLISHERS - 1)
        PROVE  InitialRows[i] \in Row /\ InitialRows[i][RowLen] = "NUL"
    <2>1. CASE i < NumPreset
      <3>1. i + 1 \in 1..NumPreset /\ (i + 1) - 1 = i
        BY <1>1, <2>1
      <3>2. InitialRows[i] = Write(Blank, 0, PresetText(Preset[i + 1]))
        BY <1>2, <3>1
      <3>3. InitialRows[i] \in Row /\ RowHolds(InitialRows[i], InitialText(i + 1))
        BY <3>1, <3>2, InitialHolds
      <3> QED
        BY <3>3, HoldsStrlen
    <2>2. CASE ~ (i < NumPreset)
      <3>1. InitialRows[i] = Blank
        BY <2>2 DEF InitialRows
      <3> QED
        BY <1>1, <3>1, BlankIs
    <2> QED
      BY <2>1, <2>2
  <1>4. InitialRows \in [0..(MAX_PUBLISHERS - 1) -> Row]
    <2>1. InitialRows = [i \in 0..(MAX_PUBLISHERS - 1) |-> InitialRows[i]]
      BY DEF InitialRows
    <2> QED
      BY <1>3, <2>1
  <1> QED
    BY <1>2, <1>3, <1>4, InitialHolds

LEMMA InitStore == Init => StoreInv /\ PresetInv /\ BufferInv
  <1> SUFFICES ASSUME Init PROVE StoreInv /\ PresetInv /\ BufferInv
    OBVIOUS
  <1>1. /\ log = <<>> /\ mem = InitialRows /\ publisherCounter = NumPreset /\ dataBuffer = Zeros
        /\ alreadyexists = FALSE /\ index = 0
    BY DEF Init, ServerInit
  <1>2. log \in Seq(Publishes)
    BY <1>1
  <1>3. TopicsAfter(log) = InitialNames /\ \A i \in 1..NumPreset : TextAfter(Preset[i], log) = InitialText(i)
    <2>1. <<>> \in Seq(Publishes)
      OBVIOUS
    <2>2. TopicsAfter(<<>>) = InitialNames
      <3>1. PICK V : V[0] = InitialNames /\ V[Len(<<>>)] = TopicsAfter(<<>>)
        BY <2>1, TopicsRecursion
      <3> QED
        BY <3>1
    <2>3. ASSUME NEW i \in 1..NumPreset
          PROVE  TextAfter(Preset[i], <<>>) = InitialText(i)
      <3>1. PICK V : V[0] = InitialText(i) /\ V[Len(<<>>)] = TextAfter(Preset[i], <<>>)
        BY <2>1, TextRecursion
      <3> QED
        BY <3>1
    <2> QED
      BY <1>1, <2>2, <2>3
  <1>4. /\ InitialNames \in Seq(Seq(Letter)) /\ Len(InitialNames) = NumPreset
        /\ NumPreset \in NumPreset..MAX_PUBLISHERS
        /\ \A i \in 1..NumPreset : InitialNames[i] = Preset[i].name
    BY PresetTypes DEF InitialNames
  <1>5. NamedRows(InitialRows, InitialNames)
    BY <1>4, InitialRowsAre DEF NamedRows
  <1>6. StoreInv
    <2>1. StoreNames = InitialNames
      BY <1>1, <1>4, <1>5, NamesAre DEF StoreNames
    <2>2. index \in 0..(MAX_PUBLISHERS - 1)
      BY <1>1, PresetTypes
    <2> QED
      BY <1>1, <1>2, <1>3, <1>4, <1>5, <2>1, <2>2 DEF StoreInv
  <1>7. PresetInv
    BY <1>1, <1>3, InitialRowsAre DEF PresetInv
  <1> QED
    BY <1>1, <1>6, <1>7 DEF BufferInv

\* What a publish appends to the history, and what it means for the rows: the flag was not
\* set, so that the search alone decides.
LEMMA Published ==
  ASSUME StoreInv, BufferInv, Publish
  PROVE  \E p \in Publishes :
            /\ p = [topic |-> dataBuffer.topic, data |-> dataBuffer.data]
            /\ p.topic = dataBuffer.topic /\ p.data = dataBuffer.data
            /\ p.topic \in Seq(Letter) /\ p.data \in Seq(Letter)
            /\ NamedRows(mem', AddsStored(StoreNames, p.topic))
            /\ publisherCounter' = Len(AddsStored(StoreNames, p.topic))
            /\ FirstChanged(mem, publisherCounter, p.topic, p.data, mem')
            /\ alreadyexists' = FALSE
            /\ index' \in 0..(MAX_PUBLISHERS - 1)
  <1>1. dataBuffer.kind = "PUB" /\ dataBuffer \in Request
    BY DEF Publish, Recognizes, BufferInv, Zeros
  <1>2. dataBuffer.topic \in Topics /\ dataBuffer.data \in Items
    BY <1>1 DEF Request
  <1>3. dataBuffer.topic \in Seq(Letter) /\ dataBuffer.data \in Seq(Letter)
    BY <1>2, ServerAssumption
  <1>4. PICK p : p = [topic |-> dataBuffer.topic, data |-> dataBuffer.data]
    OBVIOUS
  <1>5. p \in Publishes /\ p.topic = dataBuffer.topic /\ p.data = dataBuffer.data
    BY <1>2, <1>4 DEF Publishes
  <1>6. PICK names, exists, at : /\ names = StoreNames
                                 /\ exists = Exists(p.topic) /\ at = FoundAt(p.topic)
    OBVIOUS
  <1>7. /\ StoresPublish(p.topic, p.data, exists, at)
        /\ index' = at
        /\ alreadyexists' = FALSE
    BY <1>5, <1>6 DEF Publish, ForgetsSearch
  <1>8. NamedRows(mem, names) /\ publisherCounter = Len(names)
    BY <1>6 DEF StoreInv
  <1>9. PICK rows : rows = RowsNamed(mem, publisherCounter, p.topic)
    OBVIOUS
  <1>10. rows \in SUBSET Nat /\ rows \in SUBSET (0..(MAX_PUBLISHERS - 1))
    BY <1>8, <1>9, PresetTypes DEF RowsNamed, NamedRows
  <1>11. rows # {} => at \in rows /\ \A l \in rows : at <= l
    <2>1. rows # {} => at = Min(rows)
      BY <1>6, <1>9 DEF FoundAt
    <2>2. rows # {} => \E j \in rows : \A l \in rows : j <= l
      BY <1>10, MinOfNats
    <2> QED
      BY <2>1, <2>2 DEF Min
  <1>12. exists = (rows # {})
    BY <1>6, <1>9 DEF Exists, StoreInv
  <1>13. Searched(mem, Len(names), p.topic, exists, at)
    BY <1>8, <1>9, <1>11, <1>12 DEF Searched
  <1>14. at \in 0..(MAX_PUBLISHERS - 1)
    BY <1>6, <1>9, <1>10, <1>11 DEF FoundAt, StoreInv
  <1>15. /\ PublishInBounds(mem, Len(names), p.topic, p.data, exists, at)
         /\ exists => StaysTerminated(mem[at], p.data)
         /\ mem' = AfterPublish(mem, Len(names), p.topic, p.data, exists, at)
         /\ publisherCounter' = CounterAfterPublish(Len(names), exists)
    BY <1>7, <1>8 DEF StoresPublish
  <1>16. p.topic \in Seq(Letter) /\ p.data \in Seq(Letter)
    BY <1>3, <1>5
  <1>17. /\ NamedRows(mem', AddsStored(names, p.topic))
         /\ Len(AddsStored(names, p.topic)) = CounterAfterPublish(Len(names), exists)
         /\ FirstChanged(mem, Len(names), p.topic, p.data, mem')
    BY <1>8, <1>13, <1>15, <1>16, Publishing
  <1> QED
    BY <1>4, <1>5, <1>6, <1>7, <1>8, <1>14, <1>15, <1>16, <1>17, Zenon

\* A whole name is added to the topics of the history and to the rows alike.
LEMMA WholeNames ==
  ASSUME StoreInv, NEW p \in Publishes, log' = Append(log, p), p.topic \in Seq(Letter), NamesWhole'
  PROVE  TopicsAfter(log') = AddsStored(StoreNames, p.topic)
  <1>1. log \in Seq(Publishes) /\ Len(log) \in Nat /\ DOMAIN log = 1..Len(log)
    BY DEF StoreInv
  <1>2. /\ DOMAIN log' = 1..(Len(log) + 1) /\ log'[Len(log) + 1] = p
        /\ \A k \in 1..Len(log) : k \in DOMAIN log' /\ log'[k] = log[k]
    BY <1>1
  <1>3. NamesWhole
    BY <1>1, <1>2 DEF NamesWhole
  <1>4. PICK names : names = StoreNames
    OBVIOUS
  <1>5. names = TopicsAfter(log) /\ NamedRows(mem, names)
    BY <1>3, <1>4 DEF StoreInv
  <1>6. TopicsAfter(log') = AddsTopic(names, p)
    BY <1>1, <1>5, TopicsAppend
  <1>7. UpperPrefix(p.topic) = p.topic \/ \E i \in 1..NumPreset : p.topic = Preset[i].name
    BY <1>1, <1>2 DEF NamesWhole
  <1>8. (\E i \in 1..NumPreset : p.topic = Preset[i].name) => p.topic \in ToSet(names)
    <2>1. ToSet(names) = {names[i] : i \in 1..Len(names)}
      <3>1. names \in Seq(Seq(Letter))
        BY <1>5 DEF NamedRows
      <3> QED
        BY ONLY <3>1, ToSetIs
    <2>2. \A i \in 1..NumPreset : i \in 1..Len(names) /\ names[i] = Preset[i].name
      BY <1>4, <1>5, PresetTypes DEF StoreInv, NamedRows
    <2> QED
      BY <2>1, <2>2
  <1> QED
    BY <1>4, <1>6, <1>7, <1>8 DEF AddsTopic, AddsStored

\* A publish adds the name to the history's topics and to the rows alike.
LEMMA StoreStep ==
  ASSUME StoreInv, BufferInv, [Next]_vars
  PROVE  StoreInv'
  <1>1. CASE UNCHANGED <<storeVars, log>>
    BY <1>1 DEF StoreInv, storeVars, StoreNames, NamesWhole
  <1>2. CASE Publish /\ log' = Append(log, [topic |-> dataBuffer.topic, data |-> dataBuffer.data])
    <2>1. PICK p \in Publishes :
            /\ p = [topic |-> dataBuffer.topic, data |-> dataBuffer.data]
            /\ p.topic \in Seq(Letter)
            /\ NamedRows(mem', AddsStored(StoreNames, p.topic))
            /\ publisherCounter' = Len(AddsStored(StoreNames, p.topic))
            /\ alreadyexists' = FALSE
            /\ index' \in 0..(MAX_PUBLISHERS - 1)
      BY <1>2, Published
    <2>2. log' = Append(log, p)
      BY <1>2, <2>1
    <2>3. PICK names, new : names = StoreNames /\ new = AddsStored(StoreNames, p.topic)
      OBVIOUS
    <2>4. NamedRows(mem', new) /\ publisherCounter' = Len(new)
      BY <2>1, <2>3
    <2>5. StoreNames' = new
      BY <2>4, NamesAre DEF StoreNames
    <2>6. /\ log \in Seq(Publishes) /\ NumPreset \in Nat /\ NumPreset =< Len(names)
          /\ names \in Seq(Seq(Letter)) /\ \A i \in 1..NumPreset : names[i] = Preset[i].name
      BY <2>3, PresetTypes DEF StoreInv, NamedRows
    <2>7. log' \in Seq(Publishes)
      BY <2>2, <2>6
    <2>8. ASSUME NEW i \in 1..NumPreset
          PROVE  new[i] = Preset[i].name
      <3>1. PICK u \in Seq(Letter) : u = UpperPrefix(p.topic)
        BY <2>1, UpperPrefixType
      <3>2. i \in 1..Len(names) /\ Append(names, u)[i] = names[i]
        BY <2>6, AppendProperties
      <3> QED
        BY <2>3, <2>6, <3>1, <3>2 DEF AddsStored
    <2>9. NamesWhole' => new = TopicsAfter(log')
      BY <2>1, <2>2, <2>3, WholeNames
    <2> QED
      BY <2>1, <2>4, <2>5, <2>7, <2>8, <2>9 DEF StoreInv
  <1> QED
    BY <1>1, <1>2, StoreChanges

\* A publish on an initial topic adds the data to the history's text and to the row.
LEMMA PresetStep ==
  ASSUME StoreInv, PresetInv, BufferInv, [Next]_vars
  PROVE  PresetInv'
  <1>1. CASE UNCHANGED <<storeVars, log>>
    BY <1>1 DEF PresetInv, storeVars
  <1>2. CASE Publish /\ log' = Append(log, [topic |-> dataBuffer.topic, data |-> dataBuffer.data])
    <2>1. PICK p \in Publishes :
            /\ p = [topic |-> dataBuffer.topic, data |-> dataBuffer.data]
            /\ p.topic \in Seq(Letter) /\ p.data \in Seq(Letter)
            /\ FirstChanged(mem, publisherCounter, p.topic, p.data, mem')
      BY <1>2, Published
    <2>2. log' = Append(log, p)
      BY <1>2, <2>1
    <2>3. PICK names : names = StoreNames
      OBVIOUS
    <2>4. /\ log \in Seq(Publishes) /\ NamedRows(mem, names) /\ publisherCounter = Len(names)
          /\ names \in Seq(Seq(Letter)) /\ Len(names) \in Nat /\ NumPreset =< Len(names)
          /\ NumPreset \in Nat
      BY <2>3, PresetTypes DEF StoreInv, NamedRows
    <2>6. FirstChanged(mem, Len(names), p.topic, p.data, mem')
      BY <2>1, <2>4
    <2>7. ASSUME NEW i \in 1..NumPreset
          PROVE  /\ i \in 1..Len(names) /\ i - 1 \in 0..(Len(names) - 1) /\ mem[i - 1] \in Row
                 /\ GetTopic(mem[i - 1]) = Preset[i].name
      <3>1. i \in 1..Len(names) /\ i - 1 \in 0..(Len(names) - 1)
        BY <2>4
      <3>2. names[i] = Preset[i].name
        BY <2>3 DEF StoreInv
      <3> QED
        BY <2>4, <3>1, <3>2, NamesRead
    <2>9. ASSUME PresetsApart, NEW i \in 1..NumPreset
          PROVE  RowHolds(mem'[i - 1], TextAfter(Preset[i], log'))
      <3>1. RowHolds(mem[i - 1], TextAfter(Preset[i], log))
        BY <2>9 DEF PresetInv
      <3>2. TextAfter(Preset[i], log') = AddsText(i, TextAfter(Preset[i], log), p)
        BY <2>2, <2>4, TextAppend
      <3>3. CASE p.topic = Preset[i].name
        <4>1. ASSUME NEW k \in 0..((i - 1) - 1)
              PROVE  GetTopic(mem[k]) # p.topic
          <5>1. k + 1 \in 1..NumPreset /\ k + 1 # i /\ (k + 1) - 1 = k
            BY <2>4
          <5>2. GetTopic(mem[k]) = Preset[k + 1].name
            BY <2>7, <5>1
          <5>3. Head(Preset[k + 1].name) # Head(Preset[i].name)
            BY <2>9, <5>1 DEF PresetsApart
          <5> QED
            BY <3>3, <5>2, <5>3
        <4>2. mem'[i - 1] = AppendData(mem[i - 1], p.data) /\ StaysTerminated(mem[i - 1], p.data)
          BY <2>6, <2>7, <3>3, <4>1 DEF FirstChanged
        <4>4. RowHolds(AppendData(mem[i - 1], p.data), TextAfter(Preset[i], log) \o <<" ">> \o p.data)
          BY <2>1, <2>7, <3>1, <4>2, HoldsAppend, Zenon DEF StaysTerminated
        <4> QED
          BY <3>2, <3>3, <4>2, <4>4, Zenon DEF AddsText
      <3>4. CASE p.topic # Preset[i].name
        <4>1. mem'[i - 1] = mem[i - 1]
          BY <2>6, <2>7, <3>4 DEF FirstChanged
        <4> QED
          BY <3>1, <3>2, <3>4, <4>1 DEF AddsText
      <3> QED
        BY <3>3, <3>4
    <2> QED
      BY <2>9 DEF PresetInv
  <1> QED
    BY <1>1, <1>2, StoreChanges

\* A publish changes no row but that of its topic, and there only what stands
\* behind the text in front of the last character.
LEMMA TouchStep ==
  ASSUME StoreInv, BufferInv, [Next]_vars, NEW i \in 0..(publisherCounter - 1), mem'[i] # mem[i]
  PROVE  GetTopic(mem[i]) = dataBuffer.topic /\ IsPrefix(Front(Text(mem[i])), Text(mem'[i]))
  <1>1. Publish /\ log' = Append(log, [topic |-> dataBuffer.topic, data |-> dataBuffer.data])
    BY StoreChanges DEF storeVars
  <1>2. PICK p \in Publishes :
            /\ p.topic = dataBuffer.topic /\ p.data = dataBuffer.data
            /\ p.topic \in Seq(Letter) /\ p.data \in Seq(Letter)
            /\ FirstChanged(mem, publisherCounter, p.topic, p.data, mem')
    BY <1>1, Published
  <1>3. PICK names : names = StoreNames
    OBVIOUS
  <1>4. NamedRows(mem, names) /\ publisherCounter = Len(names) /\ Len(names) \in Nat
    BY <1>3, NamesRead DEF StoreInv
  <1>5. /\ GetTopic(mem[i]) = p.topic /\ mem'[i] = AppendData(mem[i], p.data)
        /\ StaysTerminated(mem[i], p.data)
    BY <1>2 DEF FirstChanged
  <1>6. PICK row, new : row = mem[i] /\ new = mem'[i]
    OBVIOUS
  <1>7. row \in Row /\ row[RowLen] = "NUL" /\ RowNamed(row, names[i + 1])
    <2>1. i + 1 \in 1..Len(names) /\ (i + 1) - 1 = i
      BY <1>4
    <2> QED
      BY <1>4, <1>6, <2>1, NamesRead DEF NamedRows
  <1>8. Fits(row, Strlen(row), p.data \o <<"TICK", "NUL">>)
    BY <1>5, <1>6, Zenon DEF StaysTerminated
  <1>9. /\ new \in Row /\ new[RowLen] = "NUL"
        /\ \A k \in 1..(Strlen(row) - 1) : new[k] = row[k]
    <2>1. AppendData(row, p.data) = new
      BY <1>5, <1>6
    <2> QED
      BY <1>2, <1>7, <1>8, <2>1, AppendKeepsName, Zenon
  <1>10. PICK L, M : L = Strlen(row) /\ M = Strlen(new)
    OBVIOUS
  <1>11. /\ L \in Nat /\ \A k \in 1..L : row[k] # "NUL"
         /\ M \in Nat /\ new[M + 1] = "NUL"
    BY <1>7, <1>9, <1>10, StrlenIs
  <1>12. L >= 1
    BY <1>7, <1>10, NameRead DEF RowNamed
  <1>13. L - 1 <= M
    <2> SUFFICES ASSUME M + 1 \in 1..(L - 1) PROVE FALSE
      BY <1>11, <1>12
    <2>1. M + 1 \in 1..L
      BY <1>11
    <2> QED
      BY <1>9, <1>10, <1>11, <2>1
  <1>14. PICK t, u, f : t = Text(row) /\ u = Text(new) /\ f = SubSeq(t, 1, L - 1)
    OBVIOUS
  <1>15. /\ t \in Seq(Cell) /\ Len(t) = L /\ \A k \in 1..L : t[k] = row[k]
         /\ u \in Seq(Cell) /\ Len(u) = M /\ \A k \in 1..M : u[k] = new[k]
    BY <1>7, <1>9, <1>10, <1>14, TextIs
  <1>16. f \in Seq(Cell) /\ Len(f) = L - 1 /\ \A k \in 1..(L - 1) : f[k] = t[k]
    BY <1>11, <1>12, <1>14, <1>15
  <1>17. \A k \in 1..Len(f) : f[k] = u[k]
    <2>1. \A k \in 1..(L - 1) : k \in 1..L /\ k \in 1..M
      BY <1>11, <1>12, <1>13
    <2> QED
      BY <1>9, <1>10, <1>15, <1>16, <2>1
  <1>18. IsPrefix(f, u)
    BY <1>11, <1>13, <1>15, <1>16, <1>17, PrefixIs
  <1>19. Front(t) = f
    BY <1>14, <1>15 DEF Front
  <1> QED
    BY <1>2, <1>5, <1>6, <1>14, <1>18, <1>19

-----------------------------------------------------------------------------
(* Types.                                                                  *)

\* The types of what is not in the store
ControlTypes ==
    /\ State \in ChStates
    /\ mbx \in Seq(Codes)
    /\ pc \in {"start", "loop", "recvfrom"}
    /\ socketOpen \in BOOLEAN
RequestTypes ==
    /\ dataBuffer \in Request \cup {Zeros}
    /\ clientAddress \in Clients \cup {NoClient}
    /\ currentTopic \in Topics \cup {<<>>}
    /\ rx \in Seq([from : Clients, req : Request])
ClientTypes ==
    /\ cl \in [Clients -> {"gets_s", "recvfrom"}]
    /\ req \in [Clients -> Request \cup {NoRequest}]
    /\ faults \in [Network -> 0..MaxFaults]
    /\ seen \in [Clients -> Nat]

LEMMA ControlTypesStep ==
  ASSUME ControlTypes, [Next]_vars
  PROVE  ControlTypes'
  <1> USE DEF ControlTypes
  <1>1. ASSUME NEW code \in Codes, SendsToSelf(code), mbx # <<>>
        PROVE  mbx' \in Seq(Codes)
    BY <1>1, Tails, AppendProperties DEF SendsToSelf
  <1>2. ASSUME SendsNothing, mbx # <<>>
        PROVE  mbx' \in Seq(Codes)
    BY <1>2, Tails DEF SendsNothing
  <1>3. /\ "MSG_Channel_Wait_Cl_Message" \in Codes /\ "MSG_Channel_Connection_Failed" \in Codes
        /\ "MSG_Stay_Connected" \in Codes /\ "MSG_Store_Data_on_Topic" \in Codes
        /\ "MSG_Share_Data_on_Topic" \in Codes /\ "MSG_Share_All_Topics" \in Codes
        /\ "MSG_ACK_Notification" \in Codes
    BY DEF Codes
  <1>4. CASE Start \/ StartFails
    <2>1. <<>> \in Seq(Codes) /\ \A c \in Codes : <<c>> \in Seq(Codes)
      OBVIOUS
    <2>2. mbx' \in Seq(Codes)
      BY <1>3, <1>4, <2>1 DEF Start, StartFails
    <2> QED
      BY <1>4, <2>2 DEF Start, StartFails
  <1>5. CASE FSM_Ch_Idle_Cl_Failed \/ FSM_Ch_Idle_Cl_Connected
    <2>1. mbx' \in Seq(Codes)
      BY <1>2, <1>5 DEF FSM_Ch_Idle_Cl_Failed, FSM_Ch_Idle_Cl_Connected, Dispatches
    <2> QED
      BY <1>5, <2>1 DEF FSM_Ch_Idle_Cl_Failed, FSM_Ch_Idle_Cl_Connected, ChStates
  <1>6. CASE Recvfrom \/ RecvfromFails
    <2>1. mbx' \in Seq(Codes)
      BY <1>3, <1>6, AppendProperties DEF Recvfrom, RecvfromFails, LeavesRecvfrom
    <2> QED
      BY <1>6, <2>1 DEF Recvfrom, RecvfromFails, LeavesRecvfrom
  <1>7. CASE Publish \/ Subscribe \/ List \/ NotRecognized
    <2>1. mbx' \in Seq(Codes)
      BY <1>1, <1>2, <1>3, <1>7 DEF Publish, Subscribe, List, NotRecognized, Recognizes, Dispatches
    <2> QED
      BY <1>7, <2>1 DEF Publish, Subscribe, List, NotRecognized, Recognizes, ChStates
  <1>8. ASSUME NEW handler, NEW state \in ChStates, NEW reply,
               Answers(handler, state, reply) \/ SendtoFails(handler, state)
        PROVE  ControlTypes'
    <2>1. mbx' \in Seq(Codes)
      BY <1>1, <1>2, <1>3, <1>8 DEF Answers, SendtoFails, Dispatches
    <2> QED
      BY <1>8, <2>1 DEF Answers, SendtoFails
  <1>9. CASE FSM_Ch_Publish_ACK \/ FSM_Ch_Share_Topic_Data \/ FSM_Ch_Share_All_Topics
    <2>1. /\ "FSM_Ch_Publish_ACK_State" \in ChStates /\ "FSM_Ch_Share_Data_on_Topic" \in ChStates
          /\ "FSM_Ch_Share_All_Topics_State" \in ChStates
      BY DEF ChStates
    <2> QED
      BY <1>8, <1>9, <2>1 DEF FSM_Ch_Publish_ACK, FSM_Ch_Share_Topic_Data, FSM_Ch_Share_All_Topics
  <1>10. CASE ~ServerStep
    BY <1>10 DEF Next, NetworkStep, LosesRequest, DuplicatesRequest, LosesReply, DuplicatesReply, Fault,
          ClientSends, ClientReceives, vars, serverVars
  <1> QED
    BY <1>4, <1>5, <1>6, <1>7, <1>9, <1>10 DEF ServerStep, ServerNext

LEMMA RequestTypesStep ==
  ASSUME RequestTypes, [Next]_vars
  PROVE  RequestTypes'
  <1> USE DEF RequestTypes
  <1>1. \A i \in DOMAIN rx : rx[i] \in [from : Clients, req : Request]
    <2>1. DOMAIN rx = 1..Len(rx)
      OBVIOUS
    <2> QED
      BY <2>1, ElementOfSeq
  <1>2. CASE Recvfrom
    <2>1. PICK d \in [from : Clients, req : Request] : d = Head(rx)
      BY <1>2, Tails DEF Recvfrom
    <2>2. rx' \in Seq([from : Clients, req : Request])
      BY <1>2, Tails DEF Recvfrom
    <2> QED
      BY <1>2, <2>1, <2>2 DEF Recvfrom
  <1>3. CASE ServerStep /\ ~Recvfrom
    <2>1. rx' = rx
      BY <1>3 DEF ServerStep, ServerNext, Start, StartFails, FSM_Ch_Idle_Cl_Failed,
         FSM_Ch_Idle_Cl_Connected, RecvfromFails, Publish, Subscribe, List, NotRecognized, Recognizes,
         FSM_Ch_Publish_ACK, FSM_Ch_Share_Topic_Data, FSM_Ch_Share_All_Topics, Answers, SendtoFails
    <2>2. CASE Publish \/ Subscribe
      <3>1. dataBuffer.kind \in {"PUB", "SUB"} /\ UNCHANGED <<dataBuffer, clientAddress>>
        BY <2>2 DEF Publish, Subscribe, Recognizes
      <3>2. dataBuffer.topic \in Topics
        BY <3>1 DEF Request, Zeros
      <3> QED
        BY <2>1, <2>2, <3>1, <3>2 DEF Publish, Subscribe
    <2>3. CASE ServerNext /\ ~(Publish \/ Subscribe)
      <3>1. /\ UNCHANGED currentTopic
            /\ UNCHANGED <<dataBuffer, clientAddress>> \/ (dataBuffer' = Zeros /\ clientAddress' = NoClient)
        BY <1>3, <2>3 DEF ServerNext, Start, StartFails, FSM_Ch_Idle_Cl_Failed,
           FSM_Ch_Idle_Cl_Connected, RecvfromFails, List, NotRecognized, Recognizes,
           FSM_Ch_Publish_ACK, FSM_Ch_Share_Topic_Data, FSM_Ch_Share_All_Topics, Answers, SendtoFails,
           requestVars
      <3> QED
        BY <2>1, <3>1
    <2> QED
      BY <1>3, <2>2, <2>3 DEF ServerStep
  <1>4. CASE LosesRequest
    BY <1>4, RemoveOne DEF LosesRequest, Fault, requestVars
  <1>5. CASE DuplicatesRequest
    BY <1>1, <1>5, AppendProperties DEF DuplicatesRequest, Fault, requestVars
  <1>6. ASSUME NEW c \in Clients, NEW r \in Asked, ClientSends(c, r)
        PROVE  RequestTypes'
    <2>1. [from |-> c, req |-> r] \in [from : Clients, req : Request]
      BY NetworkAssumption
    <2> QED
      BY <1>6, <2>1, AppendProperties DEF ClientSends, requestVars
  <1>7. CASE (\E c \in Clients : ClientReceives(c)) \/ LosesReply \/ DuplicatesReply
    BY <1>7 DEF ClientReceives, LosesReply, DuplicatesReply, Fault, requestVars
  <1>8. CASE UNCHANGED vars
    BY <1>8 DEF vars, serverVars, requestVars
  <1> QED
    BY <1>2, <1>3, <1>4, <1>5, <1>6, <1>7, <1>8 DEF Next, NetworkStep

LEMMA ClientTypesStep ==
  ASSUME ClientTypes, log \in Seq(Publishes), [Next]_vars
  PROVE  ClientTypes'
  <1> USE DEF ClientTypes
  <1>1. ASSUME NEW kind, Fault(kind)
        PROVE  ClientTypes'
    <2>1. kind \in Network /\ faults[kind] \in 0..MaxFaults /\ faults[kind] + 1 \in 0..MaxFaults
      BY <1>1, NetworkAssumption DEF Fault
    <2> QED
      BY <1>1, <2>1 DEF Fault, clientVars
  <1>2. ASSUME NEW c \in Clients, NEW r \in Asked, ClientSends(c, r)
        PROVE  ClientTypes'
    <2>1. Len(log) \in Nat /\ r \in Request
      BY NetworkAssumption
    <2> QED
      BY <1>2, <2>1 DEF ClientSends
  <1>3. CASE \E c \in Clients : ClientReceives(c)
    BY <1>3 DEF ClientReceives
  <1>4. CASE NetworkStep
    BY <1>1, <1>4 DEF NetworkStep, LosesRequest, DuplicatesRequest, LosesReply, DuplicatesReply
  <1>5. CASE ServerStep
    BY <1>5 DEF ServerStep, clientVars
  <1>6. CASE UNCHANGED vars
    BY <1>6 DEF vars
  <1> QED
    BY <1>2, <1>3, <1>4, <1>5, <1>6 DEF Next

\* The initial state
LEMMA InitTypes == Init => ControlTypes /\ RequestTypes /\ ClientTypes
  <1> SUFFICES ASSUME Init PROVE ControlTypes /\ RequestTypes /\ ClientTypes
    OBVIOUS
  <1>1. /\ <<>> \in Seq(Codes) /\ <<>> \in Seq([from : Clients, req : Request])
        /\ 0 \in 0..MaxFaults
    BY NetworkAssumption
  <1> QED
    BY <1>1 DEF Init, ServerInit, ControlTypes, RequestTypes, ClientTypes, ChStates

-----------------------------------------------------------------------------
(* The replies against the history of publishes.                           *)

\* The answer to LIST after the first n publishes
ListText(n) ==
    FlattenSeq([i \in DOMAIN TopicsUpTo(n) |-> Append(TopicsUpTo(n)[i], "NL")]) \o <<"TICK">>

\* The reply shows the topics as they were after some number of publishes, at
\* least "from".
TrueReply(r, from) ==
    /\ r.kind = "SHARE" /\ PresetsApart => \A i \in 1..NumPreset :
          r.topic = Preset[i].name => \E n \in from..Len(log) : r.body = PresetReply(Preset[i], n)
    /\ r.kind = "TOPICS" /\ NamesWhole => \E n \in from..Len(log) : r.body = ListText(n)

\* A reply made in this state
Made(r) == r \in Reply /\ \A from \in 0..Len(log) : TrueReply(r, from)

\* All publishes so far
LEMMA AllPublishes ==
  ASSUME log \in Seq(Publishes)
  PROVE  Len(log) \in Nat /\ SubSeq(log, 1, Len(log)) = log
  OBVIOUS

\* The replies the handlers make show the store of the moment.
LEMMA RepliesMade ==
  ASSUME StoreInv, PresetInv, RequestTypes
  PROVE  Made(AckReply) /\ Made(ShareReply) /\ Made(AllTopicsReply)
  <1>1. PICK names : names = StoreNames
    OBVIOUS
  <1>2. /\ NamedRows(mem, names) /\ publisherCounter = Len(names)
        /\ log \in Seq(Publishes) /\ Len(log) \in Nat
        /\ \A k \in 1..NumPreset : names[k] = Preset[k].name
        /\ NamesWhole => names = TopicsAfter(log)
    BY <1>1, AllPublishes DEF StoreInv
  <1>3. PICK n : n = Len(log)
    OBVIOUS
  <1>4. /\ \A from \in 0..Len(log) : n \in from..Len(log)
        /\ SubSeq(log, 1, n) = log
    BY <1>2, <1>3, AllPublishes
  <1>5. NamesWhole => TopicsUpTo(n) = names
    BY <1>2, <1>4 DEF TopicsUpTo
  <1>6. Made(AckReply)
    <2>1. PICK body \in Seq(Cell) : body = <<"TICK">>
      BY TickIs, Zenon
    <2>2. AckReply = [kind |-> "ACK", topic |-> <<>>, body |-> body]
      BY <2>1, Zenon DEF AckReply
    <2> QED
      BY <2>2 DEF Made, TrueReply, Reply
  <1>7. Made(ShareReply)
    <2>1. PICK topic : topic = currentTopic
      OBVIOUS
    <2>2. topic \in Topics \cup {<<>>} /\ topic \in Seq(Letter)
      <3>1. Topics \subseteq Seq(Letter) /\ <<>> \in Seq(Letter)
        BY ServerAssumption
      <3> QED
        BY <2>1, <3>1 DEF RequestTypes
    <2>3. PICK body : body = TopicReply(mem, Len(names), topic)
      OBVIOUS
    <2>4. body \in Seq(Cell)
      BY <1>2, <2>2, <2>3, ReplyType
    <2>5. ShareReply = [kind |-> "SHARE", topic |-> topic, body |-> body]
      BY <1>2, <2>1, <2>3, Zenon DEF ShareReply
    <2>6. ASSUME PresetsApart, NEW i \in 1..NumPreset, topic = Preset[i].name
          PROVE  body = PresetReply(Preset[i], n)
      <3>1. PICK text : text = TextAfter(Preset[i], log)
        OBVIOUS
      <3>2. RowHolds(mem[i - 1], text)
        BY <2>6, <3>1 DEF PresetInv
      <3>3. body = text \o <<"TICK">>
        BY <1>2, <2>3, <2>6, <3>2, PresetReplyIs, Zenon
      <3> QED
        BY <1>4, <3>1, <3>3, Zenon DEF PresetReply
    <2>7. \A from \in 0..Len(log) : TrueReply(ShareReply, from)
      BY <1>4, <2>5, <2>6 DEF TrueReply
    <2>8. ShareReply \in Reply
      BY <2>2, <2>4, <2>5 DEF Reply
    <2> QED
      BY <2>7, <2>8 DEF Made
  <1>8. Made(AllTopicsReply)
    <2>1. PICK body : body = ListReply(mem, Len(names))
      OBVIOUS
    <2>2. body \in Seq(Cell) /\ (NamesWhole => body = ListText(n))
      BY <1>2, <1>5, <2>1, ListIs, Zenon DEF ListText
    <2>3. AllTopicsReply = [kind |-> "TOPICS", topic |-> <<>>, body |-> body]
      BY <1>2, <2>1, Zenon DEF AllTopicsReply
    <2> QED
      BY <1>4, <2>2, <2>3 DEF Made, TrueReply, Reply
  <1> QED
    BY <1>6, <1>7, <1>8

\* The history only grows.
LEMMA HistoryGrows ==
  ASSUME log \in Seq(Publishes), log' \in Seq(Publishes), [Next]_vars
  PROVE  /\ Len(log) \in Nat /\ Len(log') \in Nat /\ Len(log) <= Len(log')
         /\ \A n \in 0..Len(log) : SubSeq(log', 1, n) = SubSeq(log, 1, n)
  <1>1. CASE log' = log
    BY <1>1
  <1>2. CASE \E p : log' = Append(log, p)
    <2>1. PICK p : log' = Append(log, p)
      BY <1>2
    <2>2. /\ Len(log) \in Nat /\ Len(log') = Len(log) + 1
          /\ \A k \in 1..Len(log) : log'[k] = log[k]
      BY <2>1
    <2>3. ASSUME NEW n \in 0..Len(log)
          PROVE  SubSeq(log', 1, n) = SubSeq(log, 1, n)
      <3>1. n \in Nat /\ \A k \in 1..n : log'[k] = log[k]
        BY <2>2
      <3>2. SubSeq(log', 1, n) = [k \in 1..n |-> log'[k]] /\ SubSeq(log, 1, n) = [k \in 1..n |-> log[k]]
        BY <2>2, <3>1
      <3> QED
        BY <3>1, <3>2
    <2> QED
      BY <2>2, <2>3
  <1> QED
    BY <1>1, <1>2, StoreChanges

LEMMA HistoryKept ==
  ASSUME log \in Seq(Publishes), [Next]_vars
  PROVE  \A k \in DOMAIN log : k \in DOMAIN log' /\ log'[k] = log[k]
  <1>1. log' = log \/ \E p : log' = Append(log, p)
    BY StoreChanges
  <1> QED
    BY <1>1

\* What a reply shows stays true of the history.
LEMMA StaysTrue ==
  ASSUME log \in Seq(Publishes), log' \in Seq(Publishes), [Next]_vars,
         NEW r, NEW from \in Nat, TrueReply(r, from)
  PROVE  TrueReply(r, from)'
  <1>1. \A n \in from..Len(log) :
            /\ n \in from..Len(log')
            /\ SubSeq(log', 1, n) = SubSeq(log, 1, n)
    BY HistoryGrows
  <1>2. \A n \in from..Len(log) : TopicsUpTo(n)' = TopicsUpTo(n) /\ \A i \in 1..NumPreset :
                                     PresetReply(Preset[i], n)' = PresetReply(Preset[i], n)
    BY <1>1 DEF TopicsUpTo, PresetReply
  <1>3. \A n \in from..Len(log) : ListText(n)' = ListText(n)
    BY <1>2 DEF ListText
  <1>4. ASSUME PresetsApart, r.kind = "SHARE", NEW i \in 1..NumPreset, r.topic = Preset[i].name
        PROVE  \E n \in from..Len(log') : r.body = PresetReply(Preset[i], n)'
    <2>1. PICK n \in from..Len(log) : r.body = PresetReply(Preset[i], n)
      BY <1>4 DEF TrueReply
    <2> QED
      BY <1>1, <1>2, <2>1
  <1>5. ASSUME r.kind = "TOPICS", NamesWhole'
        PROVE  \E n \in from..Len(log') : r.body = ListText(n)'
    <2>1. PICK n \in from..Len(log) : r.body = ListText(n)
      <3>1. NamesWhole
        <4>1. \A k \in DOMAIN log : k \in DOMAIN log' /\ log'[k] = log[k]
          BY HistoryKept
        <4> QED
          BY <1>5, <4>1 DEF NamesWhole
      <3> QED
        BY <1>5, <3>1 DEF TrueReply
    <2> QED
      BY <1>1, <1>3, <2>1
  <1> QED
    BY <1>4, <1>5 DEF TrueReply

\* What is in a client's socket after a step was there before or is a reply made
\* in the step.
LEMMA Arrivals ==
  ASSUME inbox \in [Clients -> Seq(Reply)], StoreInv, PresetInv, RequestTypes, [Next]_vars
  PROVE  /\ inbox' \in [Clients -> Seq(Reply)]
         /\ \A c \in Clients : \A k \in DOMAIN inbox'[c] :
               Made(inbox'[c][k]) \/ \E l \in DOMAIN inbox[c] : inbox'[c][k] = inbox[c][l]
  <1> DEFINE Kept(c) == \A k \in DOMAIN inbox'[c] :
                 Made(inbox'[c][k]) \/ \E l \in DOMAIN inbox[c] : inbox'[c][k] = inbox[c][l]
  <1>1. \A c \in Clients : inbox'[c] = inbox[c] => Kept(c)
    OBVIOUS
  <1> HIDE DEF Kept
  <1>2. CASE inbox' = inbox
    BY <1>1, <1>2 DEF Kept
  <1>3. ASSUME NEW c0, NEW q, inbox' = [inbox EXCEPT ![c0] = q],
               c0 \in Clients => /\ q \in Seq(Reply)
                                 /\ \A k \in DOMAIN q : Made(q[k]) \/ \E l \in DOMAIN inbox[c0] : q[k] = inbox[c0][l]
        PROVE  /\ inbox' \in [Clients -> Seq(Reply)]
               /\ \A c \in Clients : Kept(c)
    <2>1. \A c \in Clients : c # c0 => Kept(c)
      BY <1>1, <1>3
    <2>2. c0 \in Clients => Kept(c0)
      BY <1>3 DEF Kept
    <2> QED
      BY <1>3, <2>1, <2>2
  <1>4. ASSUME NEW handler, NEW state, NEW reply, Made(reply), Answers(handler, state, reply)
        PROVE  /\ inbox' \in [Clients -> Seq(Reply)]
               /\ \A c \in Clients : Kept(c)
    <2>1. PICK c0 : c0 = clientAddress
      OBVIOUS
    <2>2. PICK q : q = Append(inbox[c0], reply)
      OBVIOUS
    <2>3. inbox' = [inbox EXCEPT ![c0] = q]
      BY <1>4, <2>1, <2>2 DEF Answers
    <2>4. ASSUME c0 \in Clients
          PROVE  /\ q \in Seq(Reply)
                 /\ \A k \in DOMAIN q : Made(q[k]) \/ \E l \in DOMAIN inbox[c0] : q[k] = inbox[c0][l]
      <3>1. inbox[c0] \in Seq(Reply) /\ reply \in Reply
        BY <1>4, <2>4 DEF Made
      <3>2. /\ q \in Seq(Reply) /\ DOMAIN q = 1..(Len(inbox[c0]) + 1)
            /\ DOMAIN inbox[c0] = 1..Len(inbox[c0]) /\ Len(inbox[c0]) \in Nat
            /\ \A k \in 1..Len(inbox[c0]) : q[k] = inbox[c0][k]
            /\ q[Len(inbox[c0]) + 1] = reply
        BY <2>2, <3>1, AppendProperties
      <3>3. \A k \in DOMAIN q : k \in 1..Len(inbox[c0]) \/ k = Len(inbox[c0]) + 1
        BY <3>2
      <3> QED
        BY <1>4, <3>2, <3>3
    <2> QED
      BY <1>3, <2>3, <2>4
  <1>5. CASE FSM_Ch_Publish_ACK \/ FSM_Ch_Share_Topic_Data \/ FSM_Ch_Share_All_Topics
    <2>1. CASE inbox' # inbox
      <3>1. \E handler, state, reply : Made(reply) /\ Answers(handler, state, reply)
        BY <1>5, <2>1, RepliesMade
           DEF FSM_Ch_Publish_ACK, FSM_Ch_Share_Topic_Data, FSM_Ch_Share_All_Topics, SendtoFails
      <3> QED
        BY <1>4, <3>1 DEF Kept
    <2> QED
      BY <1>2, <2>1
  <1>6. ASSUME NEW c0 \in Clients, ClientReceives(c0)
        PROVE  /\ inbox' \in [Clients -> Seq(Reply)]
               /\ \A c \in Clients : Kept(c)
    <2>1. PICK q : q = Tail(inbox[c0])
      OBVIOUS
    <2>2. inbox' = [inbox EXCEPT ![c0] = q] /\ inbox[c0] # <<>> /\ inbox[c0] \in Seq(Reply)
      BY <1>6, <2>1 DEF ClientReceives
    <2>3. q \in Seq(Reply) /\ \A k \in DOMAIN q : k + 1 \in DOMAIN inbox[c0] /\ q[k] = inbox[c0][k + 1]
      BY <2>1, <2>2
    <2> QED
      BY <1>3, <2>2, <2>3
  <1>7. CASE LosesReply
    <2>1. PICK c0 \in Clients : \E i \in DOMAIN inbox[c0] : inbox' = [inbox EXCEPT ![c0] = RemoveAt(@, i)]
      BY <1>7 DEF LosesReply
    <2>2. PICK i \in DOMAIN inbox[c0] : inbox' = [inbox EXCEPT ![c0] = RemoveAt(@, i)]
      BY <2>1
    <2>3. PICK s \in Seq(Reply) : s = inbox[c0]
      OBVIOUS
    <2>4. PICK q : q = RemoveAt(s, i)
      OBVIOUS
    <2>5. inbox' = [inbox EXCEPT ![c0] = q]
      BY <2>2, <2>3, <2>4
    <2>6. /\ q \in Seq(Reply) /\ DOMAIN q = 1..(Len(s) - 1)
          /\ \A k \in 1..(Len(s) - 1) : q[k] = IF k < i THEN s[k] ELSE s[k + 1]
      BY <2>2, <2>3, <2>4, RemoveOne
    <2>7. \A k \in DOMAIN q : /\ k \in DOMAIN s /\ k + 1 \in DOMAIN s
                              /\ q[k] = s[k] \/ q[k] = s[k + 1]
      BY <2>6
    <2> QED
      BY <1>3, <2>3, <2>5, <2>6, <2>7
  <1>8. CASE DuplicatesReply
    <2>1. PICK c0 \in Clients : \E i \in DOMAIN inbox[c0] : inbox' = [inbox EXCEPT ![c0] = Append(@, @[i])]
      BY <1>8 DEF DuplicatesReply
    <2>2. PICK i \in DOMAIN inbox[c0] : inbox' = [inbox EXCEPT ![c0] = Append(@, @[i])]
      BY <2>1
    <2>3. PICK s \in Seq(Reply) : s = inbox[c0]
      OBVIOUS
    <2>4. PICK q : q = Append(s, s[i])
      OBVIOUS
    <2>5. inbox' = [inbox EXCEPT ![c0] = q]
      BY <2>2, <2>3, <2>4
    <2>6. s[i] \in Reply /\ i \in DOMAIN s
      BY <2>2, <2>3
    <2>7. q \in Seq(Reply) /\ \A k \in DOMAIN q : (k \in DOMAIN s /\ q[k] = s[k]) \/ q[k] = s[i]
      BY <2>4, <2>6, AppendProperties
    <2> QED
      BY <1>3, <2>3, <2>5, <2>6, <2>7
  <1>9. CASE \/ Start \/ StartFails \/ FSM_Ch_Idle_Cl_Failed \/ FSM_Ch_Idle_Cl_Connected
             \/ Recvfrom \/ RecvfromFails \/ Publish \/ Subscribe \/ List \/ NotRecognized
             \/ (\E c \in Clients, r \in Asked : ClientSends(c, r))
             \/ LosesRequest \/ DuplicatesRequest \/ UNCHANGED vars
    <2>1. inbox' = inbox
      BY <1>9 DEF Start, StartFails, FSM_Ch_Idle_Cl_Failed, FSM_Ch_Idle_Cl_Connected, Recvfrom,
         RecvfromFails, Publish, Subscribe, List, NotRecognized, Recognizes, ClientSends,
         LosesRequest, DuplicatesRequest, vars, serverVars
    <2> QED
      BY <1>2, <2>1
  <1> QED
    BY <1>5, <1>6, <1>7, <1>8, <1>9 DEF Next, NetworkStep, ServerStep, ServerNext, Kept

-----------------------------------------------------------------------------
(* The invariant of the store, the history and the replies.                *)

RepliesInv ==
    /\ inbox \in [Clients -> Seq(Reply)]
    /\ \A c \in Clients : seen[c] <= Len(log)
    /\ \A c \in Clients : \A k \in DOMAIN inbox[c] : TrueReply(inbox[c][k], 0)

DataInv ==
    /\ StoreInv /\ PresetInv
    /\ ControlTypes /\ RequestTypes /\ ClientTypes
    /\ RepliesInv

LEMMA InitData == Init => DataInv
  <1> SUFFICES ASSUME Init PROVE DataInv
    OBVIOUS
  <1>1. RepliesInv
    BY DEF Init, ServerInit, RepliesInv
  <1> QED
    BY <1>1, InitStore, InitTypes DEF DataInv

\* The history a client has seen changes when it sends a request, with an empty socket.
LEMMA SeenStep ==
  ASSUME [Next]_vars, ClientTypes, NEW c \in Clients, seen'[c] # seen[c]
  PROVE  seen'[c] = Len(log) /\ cl[c] = "gets_s" /\ inbox' = inbox /\ log' = log
  <1>1. PICK c0 \in Clients, r \in Asked : ClientSends(c0, r)
    BY DEF Next, ServerStep, clientVars, ClientReceives, NetworkStep, LosesRequest, DuplicatesRequest,
       LosesReply, DuplicatesReply, Fault, vars
  <1> QED
    BY <1>1 DEF ClientSends, ClientTypes

\* Replies move, are lost and duplicated, but are not changed.
LEMMA RepliesStep ==
  ASSUME DataInv, StoreInv', [Next]_vars
  PROVE  RepliesInv'
  <1> USE DEF DataInv
  <1>1. /\ log \in Seq(Publishes) /\ log' \in Seq(Publishes)
        /\ Len(log) \in Nat /\ Len(log') \in Nat /\ Len(log) <= Len(log')
    BY HistoryGrows DEF StoreInv
  <1>2. \A c \in Clients : seen'[c] <= Len(log')
    <2>1. \A c \in Clients : seen[c] \in Nat /\ seen[c] <= Len(log)
      BY DEF ClientTypes, RepliesInv
    <2>2. \A c \in Clients : seen'[c] = seen[c] \/ seen'[c] = Len(log)
      BY SeenStep
    <2> QED
      BY <1>1, <2>1, <2>2
  <1>3. /\ inbox' \in [Clients -> Seq(Reply)]
        /\ \A c \in Clients : \A k \in DOMAIN inbox'[c] :
              Made(inbox'[c][k]) \/ \E l \in DOMAIN inbox[c] : inbox'[c][k] = inbox[c][l]
    BY Arrivals DEF RepliesInv
  <1>4. ASSUME NEW c \in Clients, NEW k \in DOMAIN inbox'[c]
        PROVE  TrueReply(inbox[c][k], 0)'
    <2>1. PICK r : r = inbox'[c][k]
      OBVIOUS
    <2>2. TrueReply(r, 0)
      <3>1. CASE Made(r)
        BY <1>1, <3>1 DEF Made
      <3>2. CASE \E l \in DOMAIN inbox[c] : r = inbox[c][l]
        BY <3>2 DEF RepliesInv
      <3> QED
        BY <1>3, <2>1, <3>1, <3>2
    <2>3. TrueReply(r, 0)'
      BY <1>1, <2>2, StaysTrue
    <2> QED
      BY <2>1, <2>3
  <1> QED
    BY <1>2, <1>3, <1>4 DEF RepliesInv

LEMMA DataStep == DataInv /\ [Next]_vars => DataInv'
  <1> SUFFICES ASSUME DataInv, [Next]_vars PROVE DataInv'
    OBVIOUS
  <1> USE DEF DataInv
  <1>1. BufferInv /\ log \in Seq(Publishes)
    BY DEF RequestTypes, BufferInv, StoreInv
  <1>2. StoreInv' /\ PresetInv'
    BY <1>1, StoreStep, PresetStep
  <1>3. ControlTypes' /\ RequestTypes' /\ ClientTypes'
    BY <1>1, ControlTypesStep, RequestTypesStep, ClientTypesStep
  <1> QED
    BY <1>2, <1>3, RepliesStep

\* In every behaviour the rows, the number of topics and the replies on their way
\* are what the history of publishes makes them.
THEOREM DataInvariant == Spec => []DataInv
  BY InitData, DataStep, PTL DEF Spec

\* Every variable of the server, the clients and the network keeps its type, the
\* rows of the store and the bodies of the replies included.
THEOREM TypeCorrect == Spec => []TypeOK
  <1>1. DataInv => TypeOK
    <2> SUFFICES ASSUME DataInv PROVE TypeOK
      OBVIOUS
    <2>1. Publishes = [topic : Topics, data : Items]
      BY DEF Publishes
    <2>2. mem \in [0..(MAX_PUBLISHERS - 1) -> Row] /\ publisherCounter \in NumPreset..MAX_PUBLISHERS
      BY DEF DataInv, StoreInv, NamedRows
    <2> QED
      BY <2>1, <2>2 DEF DataInv, StoreInv, ControlTypes, RequestTypes, ClientTypes, RepliesInv, TypeOK
  <1> QED
    BY <1>1, DataInvariant, PTL

\* A publish changes no topic's row but that of its own topic, and in it nothing
\* in front of the last character.
THEOREM PublishTouches == Spec => PublishTouchesOnlyItsTopic
  <1>1. DataInv /\ [Next]_vars =>
           [\A i \in 0..(publisherCounter - 1) : mem'[i] # mem[i] =>
              /\ GetTopic(mem[i]) = dataBuffer.topic
              /\ IsPrefix(Front(Text(mem[i])), Text(mem'[i]))]_vars
    BY TouchStep DEF DataInv, RequestTypes, BufferInv
  <1> QED
    BY <1>1, DataInvariant, PTL DEF Spec, PublishTouchesOnlyItsTopic

\* Whatever the network loses and duplicates, the answer on an initial topic shows
\* its initial data and what was published on it up to some point, in order.
THEOREM PresetDataAlwaysConsistent ==
  ASSUME PresetsApart
  PROVE  Spec => []PresetDataConsistent
  <1>1. DataInv => PresetDataConsistent
    <2> SUFFICES ASSUME DataInv, NEW c \in Clients, NEW r \in ReadBy(c, "SHARE"),
                        NEW i \in 1..NumPreset, r.topic = Preset[i].name
                 PROVE  \E n \in 0..Len(log) : r.body = PresetReply(Preset[i], n)
      BY DEF PresetDataConsistent
    <2>1. inbox[c] # <<>> /\ r = Head(inbox[c]) /\ r.kind = "SHARE" /\ inbox[c] \in Seq(Reply)
      BY DEF ReadBy, DataInv, RepliesInv
    <2>2. 1 \in DOMAIN inbox[c] /\ r = inbox[c][1]
      BY <2>1
    <2>3. TrueReply(r, 0)
      BY <2>2 DEF DataInv, RepliesInv
    <2> QED
      BY <2>1, <2>3 DEF TrueReply
  <1> QED
    BY <1>1, DataInvariant, PTL

-----------------------------------------------------------------------------
(* What a client reads is no older than its request.                       *)

\* Until the network duplicates a datagram
FreshInv == NoDuplicates =>
    \A c \in Clients : \A k \in DOMAIN inbox[c] : TrueReply(inbox[c][k], seen[c])

FreshDataInv == DataInv /\ UndisturbedInv /\ FreshInv

\* A waiting client's reply is made after its request.
LEMMA FreshStep ==
  ASSUME FreshDataInv, DataInv', [Next]_vars
  PROVE  FreshInv'
  <1> USE DEF FreshDataInv
  <1> SUFFICES ASSUME NoDuplicates', NEW c \in Clients, NEW k \in DOMAIN inbox'[c]
               PROVE  TrueReply(inbox[c][k], seen[c])'
    BY DEF FreshInv
  <1>1. NoDuplicates /\ FlightInv
    BY CountStep DEF UndisturbedInv
  <1>2. /\ log \in Seq(Publishes) /\ log' \in Seq(Publishes)
        /\ seen[c] \in Nat /\ seen[c] \in 0..Len(log)
    BY DEF DataInv, StoreInv, RepliesInv, ClientTypes
  <1>3. PICK r : r = inbox'[c][k]
    OBVIOUS
  <1>4. Made(r) \/ \E l \in DOMAIN inbox[c] : r = inbox[c][l]
    BY <1>3, Arrivals DEF DataInv, RepliesInv
  <1>5. seen'[c] = seen[c]
    <2> SUFFICES ASSUME seen'[c] # seen[c] PROVE FALSE
      OBVIOUS
    <2>1. cl[c] = "gets_s" /\ inbox' = inbox
      BY SeenStep DEF DataInv
    <2>2. inbox[c] = <<>>
      BY <1>1, <2>1 DEF FlightInv, OneInFlight
    <2> QED
      BY <2>1, <2>2
  <1>6. PICK from \in Nat : from = seen[c]
    BY <1>2
  <1>7. TrueReply(r, from)
    <2>1. CASE Made(r)
      BY <1>2, <1>6, <2>1 DEF Made
    <2>2. CASE \E l \in DOMAIN inbox[c] : r = inbox[c][l]
      BY <1>1, <1>6, <2>2 DEF FreshInv
    <2> QED
      BY <1>4, <2>1, <2>2
  <1>8. TrueReply(r, from)'
    BY <1>2, <1>7, StaysTrue
  <1> QED
    BY <1>3, <1>5, <1>6, <1>8

\* Until the network duplicates a datagram, a reply in a client's socket is no
\* older than the client's request.
THEOREM FreshDataInvariant == Spec => []FreshDataInv
  <1>1. Init => FreshDataInv
    <2>1. Init => FreshInv
      BY DEF Init, ServerInit, FreshInv
    <2> QED
      BY <2>1, InitData, InitFlight DEF FreshDataInv, UndisturbedInv, Init
  <1>2. FreshDataInv /\ [Next]_vars => FreshDataInv'
    BY DataStep, FreshStep, FlightStep, CountStep DEF FreshDataInv, UndisturbedInv
  <1> QED
    BY <1>1, <1>2, PTL DEF Spec

\* What a client reads is the first reply in its socket.
LEMMA ReadIsTrue ==
  ASSUME FreshDataInv, NoDuplicates, NEW c \in Clients, NEW kind, NEW r \in ReadBy(c, kind)
  PROVE  r.kind = kind /\ TrueReply(r, seen[c])
  <1>1. inbox[c] # <<>> /\ r = Head(inbox[c]) /\ r.kind = kind /\ inbox[c] \in Seq(Reply)
    BY DEF ReadBy, FreshDataInv, DataInv, RepliesInv
  <1>2. 1 \in DOMAIN inbox[c] /\ r = inbox[c][1]
    BY <1>1
  <1> QED
    BY <1>1, <1>2 DEF FreshDataInv, FreshInv

\* Until the network duplicates a datagram, and as long as no name is shortened, the answer
\* to LIST has every topic once, in the order of their first publishes, and none published
\* before the request was sent is missing.
THEOREM ListAlwaysCurrent == Spec => [](NoDuplicates => ListCurrent)
  <1>1. FreshDataInv => (NoDuplicates => ListCurrent)
    <2> SUFFICES ASSUME FreshDataInv, NoDuplicates, NamesWhole,
                        NEW c \in Clients, NEW r \in ReadBy(c, "TOPICS")
                 PROVE  \E n \in seen[c]..Len(log) : r.body = ListText(n)
      BY Zenon DEF ListCurrent, ListText
    <2> QED
      BY ReadIsTrue DEF TrueReply
  <1> QED
    BY <1>1, FreshDataInvariant, PTL

\* Until the network duplicates a datagram, the answer on an initial topic has all
\* that was published on it before the request was sent, complete and in order.
THEOREM PresetDataAlwaysCurrent ==
  ASSUME PresetsApart
  PROVE  Spec => [](NoDuplicates => PresetDataCurrent)
  <1>1. FreshDataInv => (NoDuplicates => PresetDataCurrent)
    BY ReadIsTrue DEF TrueReply, PresetDataCurrent
  <1> QED
    BY <1>1, FreshDataInvariant, PTL
=============================================================================
