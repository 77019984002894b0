------------------------------ MODULE Connection ------------------------------
(***************************************************************************)
(* An IdleConnection with the parts that live and die with it: its life    *)
(* (ConnectionLifecycle), the certificate dialogue of its connecting       *)
(* thread (ServerTls), the handlers its parser calls (ParserHandlers), its *)
(* chats (ImManager) and its room list (RoomList).                         *)
(*                                                                         *)
(* What joins them is the status-changed signal, on which the channel      *)
(* managers register and remove their handlers and close their channels in *)
(* the same callback, and the socket, whose messages each go to the        *)
(* handlers registered at that moment.                                     *)
(*                                                                         *)
(* The parts only meet in the connection, not each other, so a behaviour   *)
(* exercises one of them: the state space is their sum.                    *)
(***************************************************************************)
EXTENDS ConnectionLifecycle, ServerTls, ImManager, RoomList

VARIABLES
    exercised,          \* the part this behaviour exercises
    taken,              \* history: who acted on a text just received
    handled_quitting    \* history: a handler was called while quitting

historyVars == <<taken, handled_quitting>>
partsVars == <<tlsVars, imVars, roomlistVars, registered>>
connVars == <<vars, partsVars, exercised, historyVars>>

NoText == [target |-> "none"]

ConnInit ==
    /\ Init /\ TlsInit /\ ImInit /\ RoomListInit
    /\ registered = ContactInfoHandlers(NoHandlers)
    /\ exercised \in {"certificates", "chats", "rooms"}
    /\ taken = NoText
    /\ handled_quitting = FALSE

-----------------------------------------------------------------------------
(* Everything that a callback of the connection does, as its life and its  *)
(* parts see it.                                                           *)
Goes(s) == status # s /\ status' = s

Attached ==
    IF handlers' /\ ~handlers THEN ConnectionHandlers(registered)
    ELSE registered

WithoutManagers(table) ==
    remove_handlers_by_data(remove_handlers_by_data(table, ImData), MucData)

ChangeHandlers ==
    registered' =
        IF Goes("CONNECTED") THEN ManagerHandlers(Attached)
        ELSE IF Goes("DISCONNECTED") /\ quitting'
             THEN remove_handlers_by_data(WithoutManagers(registered),
                                          ConnectionData)
        ELSE IF Goes("DISCONNECTED") THEN WithoutManagers(registered)
        ELSE Attached

StatusChanged ==
    /\ ChangeHandlers
    /\ IF Goes("DISCONNECTED")
       THEN /\ Disconnected /\ ImDisconnected /\ RoomListDisconnected
       ELSE UNCHANGED <<tlsVars, imVars, roomlistVars>>

Rest == taken' = NoText /\ UNCHANGED <<exercised, handled_quitting>>

Life(action) == action /\ StatusChanged /\ Rest

(* Its thread connects the socket and has the certificate judged; what it  *)
(* comes to is what its task reports.                                      *)
ThreadWorks ==
    /\ connect_task = "running"
    /\ \/ Handshake \/ Pop \/ HandshakeSucceeds \/ HandshakeFails
       \/ exercised = "certificates" /\ Ask

ThreadEnds ==
    /\ thread \in {"succeeded", "failed"}
    /\ ThreadReturns
    /\ connect_task' = thread

CertificateIdles ==
    CheckInteractively \/ \E c \in result_idles : ResultIdle(c)

Tls(action) ==
    /\ action
    /\ UNCHANGED <<vars, imVars, roomlistVars, registered>> /\ Rest

Certificates ==
    \/ Tls(ThreadWorks) \/ Tls(CertificateIdles)
    \/ \E c \in Certs : Tls(Accept(c)) \/ Tls(Reject(c)) \/ Tls(Close(c))

(* D-Bus calls on the channels, and the requests for them that             *)
(* TpBaseConnection lets through, need the status CONNECTED.               *)
Chatting ==
    /\ exercised = "chats" /\ status = "CONNECTED"
    /\ ImClients
    /\ UNCHANGED <<vars, tlsVars, roomlistVars, registered>> /\ Rest

Listing ==
    /\ exercised = "rooms" /\ status = "CONNECTED"
    /\ RoomListClients
    /\ UNCHANGED <<vars, tlsVars, imVars>> /\ Rest

(* A PRIVMSG or a NOTICE arrives.  The managers of chats and of MUCs take  *)
(* what they can decode, not a CTCP other than ACTION, until DISCONNECTED, *)
(* when both have dropped their tables of channels; the connection replies *)
(* to VERSION.                                                             *)
TextBodies == {"text", "CTCP_ACTION", "CTCP_VERSION", "CTCP_other"}

Decodes(command, body) == command = "NOTICE" \/ body \in {"text", "CTCP_ACTION"}

Handling(command, body) ==
    {part \in {"im", "muc"} : im_table /\ Decodes(command, body)}
    \cup {part \in {"connection"} : body = "CTCP_VERSION"}

TakenBy(command, target, body) ==
    UNION {CalledParts(TextCode[command][spec], Handling(command, body))
               \cap Handling(command, body) : spec \in MatchingSpecs(target)}

TextArrives(command, target, body) ==
    /\ exercised = "chats" /\ io_stream
    /\ LET by == TakenBy(command, target, body)
       IN  /\ taken' = [command |-> command, target |-> target, body |-> body,
                        by |-> by, connected |-> status = "CONNECTED"]
           /\ \/ "im" \in by /\ \E c \in Contacts : ImReceive(c)
              \/ "im" \notin by /\ UNCHANGED imVars
           /\ handled_quitting' = (handled_quitting \/ (quitting /\ by # {}))
    /\ UNCHANGED <<vars, tlsVars, roomlistVars, registered, exercised>>

(* A part of the answer to a LIST arrives.                                 *)
ListingArrives(action, code) ==
    /\ exercised = "rooms" /\ io_stream
    /\ action
    /\ handled_quitting' =
           (handled_quitting \/ (quitting /\ Called(code, {"roomlist"}) # {}))
    /\ taken' = NoText
    /\ UNCHANGED <<vars, tlsVars, imVars, exercised>>

-----------------------------------------------------------------------------
FromServer ==
    Welcome \/ ServerError \/ NicknameRefused \/ Pong \/ PingUnknown

ConnNext ==
    \/ Life(Connect) \/ Life(PasswordGiven) \/ Life(PasswordRefused)
    \/ Life(Disconnect)
    \/ Life(ThreadEnds) \/ Life(ConnectSucceeds \/ ConnectFails)
    \/ Life(FromServer)
    \/ Life(ReadEnds) \/ Life(SocketCloses)
    \/ Life(Keepalive) \/ Life(ForceDisconnect) \/ Life(FinishShutdown)
    \/ Certificates
    \/ Chatting \/ Listing
    \/ \E command \in {"PRIVMSG", "NOTICE"}, target \in Targets,
          body \in TextBodies : TextArrives(command, target, body)
    \/ \E r \in Rooms : ListingArrives(ListReply(r), "LIST")
    \/ ListingArrives(ListEnd, "LISTEND")

ConnSpec == ConnInit /\ [][ConnNext]_connVars

(* The main loop runs the callbacks of attached sources and of finished    *)
(* operations; the connecting thread goes on when it may, its network      *)
(* operations ending once they are cancelled (ServerTls).  That a          *)
(* cancelled attempt ends, which ConnectionLifecycle assumes, follows.     *)
ConnFairness ==
    /\ WF_connVars(Life(ThreadEnds))
    /\ WF_connVars(Tls(cancelled /\ ThreadWorks))
    /\ WF_connVars(Tls(ThreadWorks /\ Pop))
    /\ WF_connVars(Tls(CertificateIdles))
    /\ WF_connVars(Life(ConnectSucceeds \/ ConnectFails))
    /\ WF_connVars(Life(SocketCloses))
    /\ WF_connVars(Life(Keepalive))
    /\ WF_connVars(Life(ForceDisconnect))
    /\ WF_connVars(Life(FinishShutdown))

ConnFairSpec == ConnSpec /\ ConnFairness

-----------------------------------------------------------------------------
(* Every variable has its type.                                            *)
ConnTypeOK ==
    /\ TypeOK /\ TlsTypeOK /\ ImTypeOK /\ RoomListTypeOK
    /\ registered \in [Codes -> Seq([part : {"connection", "contact_info", "im",
                                             "muc", "roomlist"},
                                     data : {ConnectionData, ImData, MucData}
                                            \cup (1 .. MaxListChannels),
                                     priority : {FIRST, DEFAULT}])]
    /\ exercised \in {"certificates", "chats", "rooms"}
    /\ handled_quitting \in BOOLEAN

(* While connected a text is taken by the one part it is meant for: the    *)
(* same message never shows both in a room and in a chat, a VERSION        *)
(* request is answered although the chats are asked before the connection, *)
(* and is not shown.                                                       *)
TakenOnce ==
    taken # NoText /\ taken.connected =>
        taken.by =
            IF Decodes(taken.command, taken.body)
            THEN {IF taken.target = "nick" THEN "im" ELSE "muc"}
            ELSE IF taken.target = "nick" /\ taken.body = "CTCP_VERSION"
                 THEN {"connection"} ELSE {}

(* Whatever the parts register and never take back, a part is registered   *)
(* once for a message and the parts come in the order of their priorities; *)
(* only handlers of room lists that were closed pile up, and the open one  *)
(* comes before them: it takes what arrives, so that none of those that    *)
(* are gone is called.                                                     *)
HandlersInOrder ==
    \A code \in Codes :
        LET list == registered[code]
        IN  /\ \A i, j \in DOMAIN list : i < j =>
                  /\ list[i].priority <= list[j].priority
                  /\ list[i].part = list[j].part => list[i].part = "roomlist"
            /\ rl_channel # NoListChannel /\ code \in RoomlistCodes =>
                  list # <<>> /\ Head(list).data = rl_channel

(* The connecting thread does not keep a connection that is given up from  *)
(* finishing, wherever the dialogue about a certificate was.               *)
GivenUpAttemptEnds ==
    connect_task = "running" /\ ~connection ~> connect_task # "running"

(* idle-connection.c:624: "don't handle any more messages, we're           *)
(* quitting.  See e.g. bug #19762"                                         *)
QuittingHandlesNothing == ~handled_quitting
===============================================================================
