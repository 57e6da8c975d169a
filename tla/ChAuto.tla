------------------------------- MODULE ChAuto -------------------------------
(***************************************************************************)
(* The server automate ChAuto: the states and event handlers of ChAuto.cpp *)
(* run by the system thread, which takes kernel messages from the          *)
(* automate's mailbox and calls the handler of the automate's event table. *)
(*                                                                         *)
(* Every handler runs to completion in the system thread, so a handler is  *)
(* one action; FSM_Ch_Idle_Cl_Connected is two, because it blocks in       *)
(* recvfrom.  The kernel below it (buffers, mailbox, semaphore) is the     *)
(* subject of the modules BufferPool and PostOffice; here the mailbox is   *)
(* the sequence of the message codes in it.                                *)
(***************************************************************************)
EXTENDS TopicStore, FiniteSets

CONSTANTS Clients,     \* the addresses requests come from
          NoClient,    \* the zeroed clientAddress
          Topics,      \* the topic names that appear in requests
          Items,       \* the data that appears in PUB requests
          Failures     \* the calls of the socket library that may fail

ASSUME ServerAssumption ==
    /\ NoClient \notin Clients
    /\ Topics \subseteq Seq(Letter)
    /\ Items \subseteq Seq(Letter)
    /\ Failures \subseteq {"start", "recvfrom", "sendto"}

\* The text of a datagram by what FSM_Ch_Store_Data_SubPub recognizes in it;
\* "OTHER" is any text that starts with none of PUB, SUB and LIST.
Request == [kind : {"PUB"}, topic : Topics, data : Items]
             \cup [kind : {"SUB"}, topic : Topics, data : {<<>>}]
             \cup [kind : {"LIST", "OTHER"}, topic : {<<>>}, data : {<<>>}]

\* dataBuffer filled with zeros
Zeros == [kind |-> "ZEROS", topic |-> <<>>, data |-> <<>>]

ChStates == {"FSM_Ch_Idle", "FSM_Ch_Connected", "FSM_Ch_Share_Data_on_Topic",
             "FSM_Ch_Store_Data", "FSM_Ch_Share_All_Topics_State",
             "FSM_Ch_Publish_ACK_State"}

Codes == {"MSG_Channel_Wait_Cl_Message", "MSG_Channel_Connection_Failed",
          "MSG_Stay_Connected", "MSG_Store_Data_on_Topic", "MSG_Share_Data_on_Topic",
          "MSG_Share_All_Topics", "MSG_ACK_Notification"}

VARIABLES State,            \* the automate's state
          mbx,              \* codes of the messages in the automate's mailbox
          pc,               \* the system thread: in Start, in the loop, in recvfrom
          socketOpen,       \* serverSocket is created, bound and not closed
          dataBuffer,       \* the last datagram received
          clientAddress,    \* and its sender
          currentTopic,     \* the topic of the last PUB or SUB
          mem,              \* the rows allServerData points to, and the scratch row
          publisherCounter, \* the number of topics
          alreadyexists,    \* the search of a publish has found the topic ...
          index,            \* ... in this row; both are globals
          rx,               \* datagrams in the receive queue of the server's socket
          inbox             \* datagrams in the receive queues of the clients' sockets

storeVars  == <<mem, publisherCounter, alreadyexists, index>>
requestVars == <<dataBuffer, clientAddress, currentTopic>>
serverVars == <<State, mbx, pc, socketOpen, requestVars, storeVars, rx, inbox>>

ServerInit ==
    /\ State = "FSM_Ch_Idle"
    /\ mbx = <<>>
    /\ pc = "start"
    /\ socketOpen = FALSE
    /\ dataBuffer = Zeros
    /\ clientAddress = NoClient
    /\ currentTopic = <<>>
    /\ mem = InitialRows
    /\ publisherCounter = NumPreset
    /\ alreadyexists = FALSE
    /\ index = 0
    /\ rx = <<>>
    /\ inbox = [c \in Clients |-> <<>>]

-----------------------------------------------------------------------------
(* Start and the dispatching of messages.                                  *)

\* The socket is created and bound; the automate sends itself the first message.
Start ==
    /\ pc = "start"
    /\ pc' = "loop"
    /\ socketOpen' = TRUE
    /\ mbx' = <<"MSG_Channel_Wait_Cl_Message">>
    /\ UNCHANGED <<State, requestVars, storeVars, rx, inbox>>

\* WSAStartup fails and nothing is sent, or socket or bind fails.
StartFails ==
    /\ pc = "start"
    /\ "start" \in Failures
    /\ pc' = "loop"
    /\ mbx' \in {<<>>, <<"MSG_Channel_Connection_Failed">>}
    /\ UNCHANGED <<State, socketOpen, requestVars, storeVars, rx, inbox>>

\* Initialize: in which state which message calls which handler
EventTable ==
    {<<"FSM_Ch_Idle", "MSG_Channel_Wait_Cl_Message", "FSM_Ch_Idle_Cl_Connected">>,
     <<"FSM_Ch_Idle", "MSG_Channel_Connection_Failed", "FSM_Ch_Idle_Cl_Failed">>,
     <<"FSM_Ch_Connected", "MSG_Stay_Connected", "FSM_Ch_Idle_Cl_Connected">>,
     <<"FSM_Ch_Connected", "MSG_Store_Data_on_Topic", "FSM_Ch_Store_Data_SubPub">>,
     <<"FSM_Ch_Store_Data", "MSG_Share_Data_on_Topic", "FSM_Ch_Share_Topic_Data">>,
     <<"FSM_Ch_Store_Data", "MSG_Share_All_Topics", "FSM_Ch_Share_All_Topics">>,
     <<"FSM_Ch_Store_Data", "MSG_ACK_Notification", "FSM_Ch_Publish_ACK">>,
     <<"FSM_Ch_Publish_ACK_State", "MSG_Stay_Connected", "FSM_Ch_Idle_Cl_Connected">>,
     <<"FSM_Ch_Share_All_Topics_State", "MSG_Stay_Connected", "FSM_Ch_Idle_Cl_Connected">>,
     <<"FSM_Ch_Share_Data_on_Topic", "MSG_Stay_Connected", "FSM_Ch_Idle_Cl_Connected">>}

\* A message without an entry would reach DoNothing and be lost;
\* NoUnexpectedEvent (module PubSub) says that there is none.
Expected(state, code) == \E e \in EventTable : e[1] = state /\ e[2] = code

\* The system thread takes the first message and calls this handler.
Dispatches(handler) ==
    /\ pc = "loop"
    /\ mbx # <<>>
    /\ <<State, Head(mbx), handler>> \in EventTable

\* The message is consumed and the handler sends this one.
SendsToSelf(code) == mbx' = Append(Tail(mbx), code)

\* The message is consumed and the handler sends none.
SendsNothing == mbx' = Tail(mbx)

FSM_Ch_Idle_Cl_Failed ==
    /\ Dispatches("FSM_Ch_Idle_Cl_Failed")
    /\ State' = "FSM_Ch_Idle"
    /\ SendsNothing
    /\ UNCHANGED <<pc, socketOpen, requestVars, storeVars, rx, inbox>>

-----------------------------------------------------------------------------
(* Receiving a request.                                                    *)

\* Faulty variant: neither the address nor the buffer is zeroed
ConnectedKeepsRequest ==
    /\ Dispatches("FSM_Ch_Idle_Cl_Connected")
    /\ State' = "FSM_Ch_Connected"
    /\ pc' = "recvfrom"
    /\ SendsNothing
    /\ UNCHANGED <<socketOpen, requestVars, storeVars, rx, inbox>>

\* Up to recvfrom: the address and the buffer are zeroed.
FSM_Ch_Idle_Cl_Connected ==
    /\ Dispatches("FSM_Ch_Idle_Cl_Connected")
    /\ State' = "FSM_Ch_Connected"
    /\ clientAddress' = NoClient
    /\ dataBuffer' = Zeros
    /\ pc' = "recvfrom"
    /\ SendsNothing
    /\ UNCHANGED <<socketOpen, currentTopic, storeVars, rx, inbox>>

\* The thread leaves recvfrom and sends itself MSG_Store_Data_on_Topic.
LeavesRecvfrom ==
    /\ pc = "recvfrom"
    /\ pc' = "loop"
    /\ mbx' = Append(mbx, "MSG_Store_Data_on_Topic")

Recvfrom ==
    /\ LeavesRecvfrom
    /\ rx # <<>>
    /\ dataBuffer' = Head(rx).req
    /\ clientAddress' = Head(rx).from
    /\ rx' = Tail(rx)
    /\ UNCHANGED <<State, socketOpen, currentTopic, storeVars, inbox>>

\* The error is printed and the handler goes on with the zeroed buffer.
RecvfromFails ==
    /\ "recvfrom" \in Failures
    /\ LeavesRecvfrom
    /\ UNCHANGED <<State, socketOpen, requestVars, storeVars, rx, inbox>>

-----------------------------------------------------------------------------
(* FSM_Ch_Store_Data_SubPub: one action per kind of request.               *)

Recognizes(kinds) ==
    /\ Dispatches("FSM_Ch_Store_Data_SubPub")
    /\ dataBuffer.kind \in kinds
    /\ State' = "FSM_Ch_Store_Data"
    /\ UNCHANGED <<pc, socketOpen, dataBuffer, clientAddress, rx, inbox>>

\* What alreadyexists and index are after the search for a topic: it stops at the first
\* row named so and changes neither when there is none.
Exists(topic) == alreadyexists \/ RowsNamed(mem, publisherCounter, topic) # {}
FoundAt(topic) ==
    LET rows == RowsNamed(mem, publisherCounter, topic) IN IF rows = {} THEN index ELSE Min(rows)

\* Faulty variant: alreadyexists stays set
ExistsForEver(topic) == alreadyexists' = Exists(topic)

\* alreadyexists is reset after it was looked at.
ForgetsSearch(topic) == alreadyexists' = FALSE

\* The publish of a topic that is found in row "at", or is not
StoresPublish(topic, data, exists, at) ==
    /\ PublishInBounds(mem, publisherCounter, topic, data, exists, at)
    /\ exists => StaysTerminated(mem[at], data)
    /\ mem' = AfterPublish(mem, publisherCounter, topic, data, exists, at)
    /\ publisherCounter' = CounterAfterPublish(publisherCounter, exists)

\* A publish that would write outside the rows is undefined in the code and
\* has no successor here (see PublishStaysInBounds), nor has one that leaves a row
\* without a terminator.
Publish ==
    LET topic == dataBuffer.topic
    IN  /\ Recognizes({"PUB"})
        /\ currentTopic' = topic
        /\ StoresPublish(topic, dataBuffer.data, Exists(topic), FoundAt(topic))
        /\ index' = FoundAt(topic)
        /\ ForgetsSearch(topic)
        /\ SendsToSelf("MSG_ACK_Notification")

Subscribe ==
    /\ Recognizes({"SUB"})
    /\ currentTopic' = dataBuffer.topic
    /\ SendsToSelf("MSG_Share_Data_on_Topic")
    /\ UNCHANGED storeVars

\* Faulty variant: the branch sends no message
ListSendsNothing ==
    /\ Recognizes({"LIST"})
    /\ SendsNothing
    /\ UNCHANGED <<currentTopic, storeVars>>

List ==
    /\ Recognizes({"LIST"})
    /\ SendsToSelf("MSG_Share_All_Topics")
    /\ UNCHANGED <<currentTopic, storeVars>>

\* No branch of the handler is taken and no message is sent.
NotRecognized ==
    /\ Recognizes({"OTHER", "ZEROS"})
    /\ SendsNothing
    /\ UNCHANGED <<currentTopic, storeVars>>

-----------------------------------------------------------------------------
(* Answering the client.                                                   *)

\* The three kinds of reply; "topic" is the topic whose data is sent.
AckReply       == [kind |-> "ACK", topic |-> <<>>, body |-> <<"TICK">>]
ShareReply     == [kind |-> "SHARE", topic |-> currentTopic,
                   body |-> TopicReply(mem, publisherCounter, currentTopic)]
AllTopicsReply == [kind |-> "TOPICS", topic |-> <<>>, body |-> ListReply(mem, publisherCounter)]

\* sendto succeeds: the reply goes to clientAddress and the automate goes on.
Answers(handler, state, reply) ==
    /\ Dispatches(handler)
    /\ State' = state
    /\ inbox' = [inbox EXCEPT ![clientAddress] = Append(@, reply)]
    /\ SendsToSelf("MSG_Stay_Connected")
    /\ UNCHANGED <<pc, socketOpen, requestVars, storeVars, rx>>

\* Faulty variant: the socket is left open
SendtoFailsOpen(handler, state) ==
    /\ "sendto" \in Failures
    /\ Dispatches(handler)
    /\ State' = state
    /\ SendsNothing
    /\ UNCHANGED <<pc, socketOpen, requestVars, storeVars, rx, inbox>>

\* sendto fails: the socket is closed and no message is sent.
SendtoFails(handler, state) ==
    /\ "sendto" \in Failures
    /\ Dispatches(handler)
    /\ State' = state
    /\ socketOpen' = FALSE
    /\ SendsNothing
    /\ UNCHANGED <<pc, requestVars, storeVars, rx, inbox>>

\* Faulty variant: the handler does not change the state
PublishACKStays ==
    \/ Answers("FSM_Ch_Publish_ACK", State, AckReply)
    \/ SendtoFails("FSM_Ch_Publish_ACK", State)

FSM_Ch_Publish_ACK ==
    \/ Answers("FSM_Ch_Publish_ACK", "FSM_Ch_Publish_ACK_State", AckReply)
    \/ SendtoFails("FSM_Ch_Publish_ACK", "FSM_Ch_Publish_ACK_State")

FSM_Ch_Share_Topic_Data ==
    \/ Answers("FSM_Ch_Share_Topic_Data", "FSM_Ch_Share_Data_on_Topic", ShareReply)
    \/ SendtoFails("FSM_Ch_Share_Topic_Data", "FSM_Ch_Share_Data_on_Topic")

\* Faulty variant: the name of the handler in place of the state's
ShareAllTopicsMisnamed ==
    \/ Answers("FSM_Ch_Share_All_Topics", "FSM_Ch_Share_All_Topics", AllTopicsReply)
    \/ SendtoFails("FSM_Ch_Share_All_Topics", "FSM_Ch_Share_All_Topics")

FSM_Ch_Share_All_Topics ==
    \/ Answers("FSM_Ch_Share_All_Topics", "FSM_Ch_Share_All_Topics_State", AllTopicsReply)
    \/ SendtoFails("FSM_Ch_Share_All_Topics", "FSM_Ch_Share_All_Topics_State")

-----------------------------------------------------------------------------
ServerNext ==
    \/ Start \/ StartFails
    \/ FSM_Ch_Idle_Cl_Failed
    \/ FSM_Ch_Idle_Cl_Connected
    \/ Recvfrom \/ RecvfromFails
    \/ Publish \/ Subscribe \/ List \/ NotRecognized
    \/ FSM_Ch_Publish_ACK \/ FSM_Ch_Share_Topic_Data \/ FSM_Ch_Share_All_Topics
=============================================================================
