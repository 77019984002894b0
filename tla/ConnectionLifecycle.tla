-------------------------- MODULE ConnectionLifecycle --------------------------
(***************************************************************************)
(* The life of an IdleConnection: connecting its IdleServerConnection,     *)
(* reaching CONNECTED on the server's welcome, the keepalive, and the many *)
(* ways to DISCONNECTED - the client, the password prompt, an ERROR        *)
(* message, a nickname the server refuses, the socket, the keepalive - up  *)
(* to tp_base_connection_finish_shutdown().                                *)
(*                                                                         *)
(* One action is one main loop callback with every function it calls,      *)
(* including the virtual functions that TpBaseConnection calls back.  The  *)
(* only other thread is the one that connects the socket.  What is sent    *)
(* and when is the subject of SendQueue.                                   *)
(***************************************************************************)
EXTENDS Integers

VARIABLES
    (* TpBaseConnection *)
    status,             \* its status
    requests,           \* a Disconnect() call waits for finish_shutdown()
    (* IdleConnection *)
    prompt,             \* the password prompt is open
    connect_cancelled,  \* connect_cancellable is cancelled
    sconn_connected,    \* priv->sconn_connected
    quitting,           \* priv->quitting
    handlers,           \* its handlers are registered with the parser
    force_disconnect,   \* priv->force_disconnect_id # 0
    keepalive_timeout,  \* priv->keepalive_timeout # 0
    keepalive_source,   \* the keepalive timeout source is attached
    ping_age,           \* keepalive intervals since ping_time, or NoPing
    finish_idles,       \* _finish_shutdown_idle_func idles not yet run
    finished,           \* calls of tp_base_connection_finish_shutdown()
    (* IdleServerConnection *)
    state,              \* priv->state, or "none" while there is no sconn
    io_stream,          \* its priv->io_stream # NULL
    connect_task        \* the thread of idle_server_connection_connect_async

keepaliveVars == <<keepalive_timeout, keepalive_source, ping_age>>
sconnVars == <<state, io_stream, connect_task>>
shutdownVars == <<status, quitting, handlers, force_disconnect, finish_idles,
                  connect_cancelled, prompt>>
vars == <<shutdownVars, requests, sconn_connected, finished, keepaliveVars,
          sconnVars>>

MISSED_KEEPALIVES_BEFORE_DISCONNECTING == 3
NoPing == -1

(* g_io_stream_close_async() is under way.                                 *)
Closing == state = "CONNECTED" /\ ~io_stream

Init ==
    /\ status = "NEW"
    /\ requests = FALSE
    /\ prompt = FALSE
    /\ connect_cancelled = FALSE
    /\ sconn_connected = FALSE
    /\ quitting = FALSE
    /\ handlers = FALSE
    /\ force_disconnect = FALSE
    /\ keepalive_timeout = FALSE
    /\ keepalive_source = FALSE
    /\ ping_age = NoPing
    /\ finish_idles = 0
    /\ finished = 0
    /\ state = "none"
    /\ io_stream = FALSE
    /\ connect_task = "none"

-----------------------------------------------------------------------------
(* _iface_disconnected(), up being sconn_connected.  Its call of           *)
(* idle_parser_remove_handlers_by_data() removes none (ParserHandlers).    *)
iface_disconnected(up) ==
    /\ quitting' = (quitting \/ up)
    /\ force_disconnect' = up
    /\ UNCHANGED handlers

(* _iface_shut_down() after it.  It never gets to closing the socket: when *)
(* that is connected, _iface_disconnected() has just set quitting.         *)
FinishesUnconnected(up) ==
    /\ connect_cancelled' = (connect_cancelled \/ (~up /\ state # "none"))
    /\ finish_idles' = finish_idles + (IF up THEN 0 ELSE 1)
NeverCancels(up) ==
    /\ UNCHANGED connect_cancelled
    /\ finish_idles' = finish_idles + (IF state = "none" THEN 1 ELSE 0)

FinishesQuitting(up) ==
    /\ connect_cancelled' = (connect_cancelled \/ (~up /\ state # "none"))
    /\ finish_idles' = finish_idles + (IF up \/ state = "none" THEN 1 ELSE 0)

iface_shut_down(up) ==
    /\ connect_cancelled' = (connect_cancelled \/ (~up /\ state # "none"))
    /\ finish_idles' = finish_idles + (IF state = "none" THEN 1 ELSE 0)

(* tp_base_connection_change_status(DISCONNECTED).  The status-changed     *)
(* signal makes the password manager cancel its prompt, whose callback     *)
(* then does nothing.                                                      *)
ChangeToDisconnected(up) ==
    /\ status # "DISCONNECTED"
    /\ status' = "DISCONNECTED"
    /\ prompt' = FALSE
    /\ iface_disconnected(up)
    /\ iface_shut_down(up)

(* sconn_disconnected_cb() with connection_disconnect_cb(): the sconn has  *)
(* just gone to NOT_CONNECTED.                                             *)
KeepsForceTimer == UNCHANGED force_disconnect
ClearForceTimer == force_disconnect' = FALSE

ClearConnected == sconn_connected' = FALSE

sconn_disconnected_cb ==
    /\ ClearConnected
    /\ \/ ChangeToDisconnected(FALSE)
       \/ /\ status = "DISCONNECTED"
          /\ finish_idles' = finish_idles + 1
          /\ ClearForceTimer
          /\ UNCHANGED <<status, quitting, handlers, connect_cancelled, prompt>>

(* idle_server_connection_force_disconnect(): the socket is given to       *)
(* g_io_stream_close_async() unless it is already, or not open.            *)
LeavesSocketOpen == UNCHANGED io_stream
force_sconn_disconnect == io_stream' = FALSE

(* _start_connecting_continue()                                            *)
start_connecting_continue ==
    /\ state' = "CONNECTING"
    /\ connect_task' = "running"
    /\ UNCHANGED io_stream

-----------------------------------------------------------------------------
(* Connect() -> _iface_start_connecting(), with a password or without.     *)
Connect ==
    /\ status = "NEW"
    /\ status' = "CONNECTING"
    /\ \/ /\ prompt' = TRUE
          /\ UNCHANGED sconnVars
       \/ /\ start_connecting_continue
          /\ UNCHANGED prompt
    /\ UNCHANGED <<requests, connect_cancelled, sconn_connected, quitting,
                   handlers, force_disconnect, finish_idles, finished,
                   keepaliveVars>>

(* _password_prompt_cb()                                                   *)
PasswordGiven ==
    /\ prompt
    /\ prompt' = FALSE
    /\ start_connecting_continue
    /\ UNCHANGED <<status, requests, connect_cancelled, sconn_connected,
                   quitting, handlers, force_disconnect, finish_idles,
                   finished, keepaliveVars>>

PasswordRefused ==
    /\ prompt
    /\ ChangeToDisconnected(sconn_connected)
    /\ UNCHANGED <<requests, sconn_connected, finished, keepaliveVars, sconnVars>>

(* Disconnect().  One that comes when the connection is DISCONNECTED waits *)
(* with the one before it, or returns at once.                             *)
Disconnect ==
    /\ ChangeToDisconnected(sconn_connected)
    /\ requests' = TRUE
    /\ UNCHANGED <<sconn_connected, finished, keepaliveVars, sconnVars>>

(* _connect_in_thread() ends, with a socket or an error.                   *)
ThreadReturns ==
    /\ connect_task = "running"
    /\ connect_task' \in {"succeeded", "failed"}
    /\ UNCHANGED <<shutdownVars, requests, sconn_connected, finished,
                   keepaliveVars, state, io_stream>>

(* _connect_to_host_ready() and, in the same callback,                     *)
(* _connection_connect_ready().  A cancelled task is reported as failed,   *)
(* whatever the thread returned.  After a failure the second finds the     *)
(* connection already DISCONNECTED by sconn_disconnected_cb().             *)
ConnectSucceeds ==
    /\ connect_task = "succeeded" /\ ~connect_cancelled
    /\ connect_task' = "none"
    /\ state' = "CONNECTED"
    /\ io_stream' = TRUE
    /\ sconn_connected' = TRUE
    /\ handlers' = TRUE
    /\ UNCHANGED <<status, requests, prompt, connect_cancelled, quitting,
                   force_disconnect, finish_idles, finished, keepaliveVars>>

ConnectFails ==
    /\ \/ connect_task = "failed"
       \/ connect_task = "succeeded" /\ connect_cancelled
    /\ connect_task' = "none"
    /\ state' = "NOT_CONNECTED"
    /\ sconn_disconnected_cb
    /\ UNCHANGED <<requests, finished, keepaliveVars, io_stream>>

-----------------------------------------------------------------------------
(* What the server sends reaches a parser handler of the connection, also  *)
(* while the connection is quitting.                                       *)
Received == io_stream /\ handlers

(* _welcome_handler() -> connection_connect_cb(TRUE).  A second welcome,   *)
(* or one after QUIT, does not change the status - TpBaseConnection is     *)
(* taken to refuse a way back from DISCONNECTED - but may arm the          *)
(* keepalive again.                                                        *)
ArmKeepalive == keepalive_source' = TRUE

ChangeToConnected ==
    \/ status # "DISCONNECTED" /\ status' = "CONNECTED"
    \/ status = "DISCONNECTED" /\ UNCHANGED status

Welcome ==
    /\ Received
    /\ ChangeToConnected
    /\ \/ /\ keepalive_timeout
          /\ UNCHANGED <<keepalive_timeout, keepalive_source>>
       \/ /\ ~keepalive_timeout
          /\ keepalive_timeout' = TRUE
          /\ ArmKeepalive
    /\ UNCHANGED <<requests, prompt, connect_cancelled, sconn_connected,
                   quitting, handlers, force_disconnect, finish_idles,
                   finished, ping_age, sconnVars>>

(* _error_handler(), and the handlers of ERRONEOUSNICKNAME and             *)
(* NICKNAMEINUSE, which heed the server only while CONNECTING.  After      *)
(* DISCONNECTED none of them does anything.                                *)
ServerError ==
    /\ Received
    /\ ChangeToDisconnected(sconn_connected)
    /\ UNCHANGED <<requests, sconn_connected, finished, keepaliveVars, sconnVars>>

NicknameRefused ==
    /\ status = "CONNECTING"
    /\ ServerError

(* _pong_handler()                                                         *)
KeepsPingTime == UNCHANGED ping_age
ForgetPingTime == ping_age' = NoPing

Pong ==
    /\ Received
    /\ ForgetPingTime
    /\ UNCHANGED <<shutdownVars, requests, sconn_connected, finished,
                   keepalive_timeout, keepalive_source, sconnVars>>

(* _unknown_command_handler(): the server does not know PING.              *)
PingUnknown ==
    /\ Received
    /\ keepalive_timeout' = FALSE
    /\ keepalive_source' = (keepalive_source /\ ~keepalive_timeout)
    /\ ForgetPingTime
    /\ UNCHANGED <<shutdownVars, requests, sconn_connected, finished, sconnVars>>

(* _input_stream_read_ready() with an error or the end of the file.        *)
ReadEnds ==
    /\ io_stream
    /\ io_stream' = FALSE
    /\ UNCHANGED <<shutdownVars, requests, sconn_connected, finished,
                   keepaliveVars, state, connect_task>>

(* _close_ready()                                                          *)
SocketCloses ==
    /\ Closing
    /\ state' = "NOT_CONNECTED"
    /\ sconn_disconnected_cb
    /\ UNCHANGED <<requests, finished, keepaliveVars, io_stream, connect_task>>

-----------------------------------------------------------------------------
(* keepalive_timeout_cb(), one interval after it last ran or, if the main  *)
(* loop was busy, two.                                                     *)
KeepaliveStops ==
    /\ keepalive_source
    /\ ~sconn_connected \/ quitting
    /\ keepalive_timeout' = FALSE
    /\ keepalive_source' = FALSE
    /\ UNCHANGED <<shutdownVars, requests, sconn_connected, finished, ping_age,
                   sconnVars>>

KeepaliveRuns == keepalive_source /\ sconn_connected /\ ~quitting

Overdue(age) == age > MISSED_KEEPALIVES_BEFORE_DISCONNECTING

KeepaliveWaits ==
    /\ KeepaliveRuns /\ ping_age # NoPing
    /\ \E late \in 0 .. 1 :
          /\ ~Overdue(ping_age + 1 + late)
          /\ ping_age' = ping_age + 1 + late
    /\ UNCHANGED <<shutdownVars, requests, sconn_connected, finished,
                   keepalive_timeout, keepalive_source, sconnVars>>

KeepaliveExpires ==
    /\ KeepaliveRuns /\ ping_age # NoPing
    /\ \E late \in 0 .. 1 : Overdue(ping_age + 1 + late)
    /\ force_sconn_disconnect
    /\ keepalive_source' = FALSE
    /\ UNCHANGED <<shutdownVars, requests, sconn_connected, finished,
                   keepalive_timeout, ping_age, state, connect_task>>

(* It sends no PING when messages wait in the queue, which is not modelled *)
(* here: then it just runs again later.                                    *)
KeepalivePings ==
    /\ KeepaliveRuns /\ ping_age = NoPing
    /\ ping_age' = 0
    /\ UNCHANGED <<shutdownVars, requests, sconn_connected, finished,
                   keepalive_timeout, keepalive_source, sconnVars>>

(* _force_disconnect(), two seconds after quitting.                        *)
ForceDisconnect ==
    /\ force_disconnect
    /\ force_disconnect' = FALSE
    /\ force_sconn_disconnect
    /\ UNCHANGED <<status, requests, prompt, connect_cancelled, sconn_connected,
                   quitting, handlers, finish_idles, finished, keepaliveVars,
                   state, connect_task>>

(* _finish_shutdown_idle_func().  The connection manager drops the         *)
(* connection on finish_shutdown(), and idle_connection_dispose() removes  *)
(* the keepalive source.                                                   *)
FinishShutdown ==
    /\ finish_idles > 0
    /\ finish_idles' = finish_idles - 1
    /\ force_disconnect' = FALSE
    /\ finished' = finished + 1
    /\ requests' = FALSE
    /\ keepalive_timeout' = FALSE
    /\ keepalive_source' = (keepalive_source /\ ~keepalive_timeout)
    /\ UNCHANGED <<status, prompt, connect_cancelled, sconn_connected,
                   quitting, handlers, ping_age, sconnVars>>

Keepalive ==
    KeepaliveStops \/ KeepaliveWaits \/ KeepaliveExpires \/ KeepalivePings

Next ==
    \/ Connect \/ PasswordGiven \/ PasswordRefused \/ Disconnect
    \/ ThreadReturns \/ ConnectSucceeds \/ ConnectFails
    \/ Welcome \/ ServerError \/ NicknameRefused \/ Pong \/ PingUnknown
    \/ ReadEnds \/ SocketCloses
    \/ Keepalive \/ ForceDisconnect \/ FinishShutdown

Spec == Init /\ [][Next]_vars

(* The main loop runs the callbacks of attached sources and of finished    *)
(* operations.  A cancelled connection attempt ends; one that is not       *)
(* cancelled may wait for the network or for a certificate to be judged.   *)
(* Nothing is assumed of the client or of the server.                      *)
Fairness ==
    /\ WF_vars(connect_cancelled /\ ThreadReturns)
    /\ WF_vars(ConnectSucceeds \/ ConnectFails)
    /\ WF_vars(SocketCloses)
    /\ WF_vars(Keepalive)
    /\ WF_vars(ForceDisconnect)
    /\ WF_vars(FinishShutdown)

FairSpec == Spec /\ Fairness

-----------------------------------------------------------------------------
(* Every variable has its type.                                            *)
TypeOK ==
    /\ status \in {"NEW", "CONNECTING", "CONNECTED", "DISCONNECTED"}
    /\ requests \in BOOLEAN
    /\ prompt \in BOOLEAN
    /\ connect_cancelled \in BOOLEAN
    /\ sconn_connected \in BOOLEAN
    /\ quitting \in BOOLEAN
    /\ handlers \in BOOLEAN
    /\ force_disconnect \in BOOLEAN
    /\ keepalive_timeout \in BOOLEAN
    /\ keepalive_source \in BOOLEAN
    /\ ping_age \in {NoPing} \cup 0 .. MISSED_KEEPALIVES_BEFORE_DISCONNECTING
    /\ finish_idles \in Nat
    /\ finished \in Nat
    /\ state \in {"none", "NOT_CONNECTED", "CONNECTING", "CONNECTED"}
    /\ io_stream \in BOOLEAN
    /\ connect_task \in {"none", "running", "succeeded", "failed"}

(* tp_base_connection_finish_shutdown() is called once, although three     *)
(* places queue the idle that calls it and the ways to DISCONNECTED        *)
(* overlap, and then, as the connection may be freed, these of its         *)
(* callbacks are over: that idle, the password prompt, the timer that      *)
(* forces a disconnect, the keepalive, the connecting thread's result and  *)
(* the closing of the socket.  The timers of the send queue are not among  *)
(* them: SendQueue!TimersEndWithTheLink is about those.  Nor is the        *)
(* completion of a write, which GIO may report after that of the close.    *)
LifeIsOverWhenFinished ==
    finished > 0 =>
        /\ finished = 1 /\ finish_idles = 0
        /\ ~prompt /\ ~force_disconnect /\ ~keepalive_source
        /\ state \in {"none", "NOT_CONNECTED"}
        /\ connect_task = "none"

(* The timer that forces a disconnect runs only while there is a socket to *)
(* close and QUIT has been queued.                                         *)
ForceTimerHasASocket ==
    force_disconnect => quitting /\ sconn_connected /\ state = "CONNECTED"

(* Until the connection quits, a PING that may still be answered is        *)
(* watched by an attached keepalive source, however often the keepalive    *)
(* was disabled and armed again.                                           *)
PingIsWatched ==
    ping_age # NoPing /\ Received /\ ~quitting =>
        keepalive_timeout /\ keepalive_source

(* The socket as SendQueue sees it only goes through the states that       *)
(* module assumes ("closed" also stands for an attempt that failed).       *)
link ==
    CASE state \in {"none", "CONNECTING"} -> "down"
      [] state = "CONNECTED" /\ io_stream -> "up"
      [] state = "CONNECTED" /\ ~io_stream -> "closing"
      [] OTHER -> "closed"

LinkAsSendQueueAssumes ==
    [][/\ <<link, link'>> \in {<<"down", "up">>, <<"up", "closing">>,
                               <<"closing", "closed">>, <<"down", "closed">>}
       /\ sconn_connected' <=> link' \in {"up", "closing"}]_link

(* What ConnectionStatus promises.                                         *)
Status == INSTANCE ConnectionStatus
            WITH socket_open <- state = "CONNECTED", released <- finished > 0

StatusSpec == Status!Spec

(* A Disconnect() that takes effect returns, whether it comes before the   *)
(* password, during the connection attempt, while the socket is going away *)
(* or when the server ignores QUIT (tests/twisted/connect/); so does a     *)
(* disconnection for an ERROR message or a refused nickname.               *)
DisconnectReturns == requests \/ quitting ~> finished > 0

(* NEWS:143: "Idle now disconnects if it doesn't get a reply to its pings  *)
(* after a while".                                                         *)
DeadServerNoticed ==
    ping_age # NoPing /\ sconn_connected ~> ping_age = NoPing \/ ~sconn_connected

(* idle-connection.c:638: _iface_shut_down() finds the server connection   *)
(* unconnected "because we were still trying to connect".                  *)
StillTryingToConnect ==
    [][connect_cancelled' /\ ~connect_cancelled => state' = "CONNECTING"]_vars
===============================================================================
