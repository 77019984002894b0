------------------------------ MODULE SendQueue ------------------------------
(***************************************************************************)
(* IdleConnection's output queue and the write path of                     *)
(* IdleServerConnection below it: messages are queued by priority, a timer *)
(* takes one every MSG_QUEUE_TIMEOUT seconds and hands it to the server    *)
(* connection, which writes it to the stream from its single               *)
(* output_buffer, in pieces if the stream takes it in pieces.              *)
(*                                                                         *)
(* Everything runs in callbacks of one main loop.  One action is one       *)
(* callback, except that the three or four sends of irc_handshakes() are   *)
(* steps of their own; no other action runs while some are left.           *)
(*                                                                         *)
(* Time is counted in seconds.  Only differences matter, so the state      *)
(* keeps ages, each capped where the code no longer tells it apart.        *)
(***************************************************************************)
EXTENDS OutputPendingMsg

CONSTANTS
    SourceIds,    \* the GSource ids the main loop may hand out
    MaxMsgs,      \* bound on the messages ever queued
    Pieces        \* a message is written in at most this many pieces

ASSUME SendQueueAssumption ==
    /\ SourceIds \subseteq Nat \ {0}
    /\ MaxMsgs \in Nat
    /\ Pieces \in Nat \ {0}

MSG_QUEUE_TIMEOUT == 2
Dead == -1          \* the age of a source that is not attached
NoMsg == -1         \* no message in output_buffer

VARIABLES
    queue,            \* priv->msg_queue
    last_id,          \* the static last_id of idle_output_pending_msg_new()
    sources,          \* attached timeout sources: seconds since set or last run
    msg_queue_timeout,\* priv->msg_queue_timeout: a source id, or 0
    msg_sending,      \* priv->msg_sending
    since_sent,       \* time(NULL) - priv->last_msg_sent
    pinging,          \* priv->ping_time # 0
    link,             \* the socket: see Links
    reset,            \* the peer has reset the connection: writes may fail
    handshake,        \* the sends irc_handshakes() has still to make
    writes,           \* idle_server_connection_send_async() calls under way
    output_buffer,    \* the message sconn's output_buffer holds
    nwritten,         \* pieces of it already written
    last_out,         \* history: by priority, the last id handed to sconn
    since_out,        \* history: seconds since a message was handed to sconn
    unchecked         \* history: a message was sent without a connection

timerVars == <<sources, msg_queue_timeout>>
writeVars == <<msg_sending, writes, output_buffer, nwritten, last_out, since_out>>
vars == <<queue, last_id, timerVars, since_sent, pinging, link, reset,
          handshake, writeVars, unchecked>>

(* "down": not connected yet; "up": connected; "closing": sconn has given  *)
(* its io_stream to g_io_stream_close_async() but is not told it is closed *)
(* yet, so sconn_connected is still TRUE; "closed": it has been told.      *)
Links == {"down", "up", "closing", "closed"}

sconn_connected == link \in {"up", "closing"}

Min2(a, b) == IF a <= b THEN a ELSE b

(* A send_async() call is either a write on the stream or, when the        *)
(* connection is not open, an error to be reported from an idle callback.  *)
Write(msg, kind) == [id |-> msg.id, kind |-> kind]

Init ==
    /\ queue = <<>>
    /\ last_id = 0
    /\ sources = [s \in SourceIds |-> Dead]
    /\ msg_queue_timeout = 0
    /\ msg_sending = FALSE
    /\ since_sent = MSG_QUEUE_TIMEOUT + 1
    /\ pinging = FALSE
    /\ link = "down"
    /\ reset = FALSE
    /\ handshake = <<>>
    /\ writes = {}
    /\ output_buffer = NoMsg
    /\ nwritten = 0
    /\ last_out = [p \in Priorities |-> -1]
    /\ since_out = MSG_QUEUE_TIMEOUT
    /\ unchecked = FALSE

-----------------------------------------------------------------------------
(* idle_server_connection_send_async()                                     *)
send_async(msg) ==
    /\ last_out' = [last_out EXCEPT ![msg.priority] = msg.id]
    /\ since_out' = 0
    /\ \/ /\ link = "up"
          /\ writes' = writes \cup {Write(msg, "write")}
          /\ output_buffer' = msg.id
          /\ nwritten' = 0
       \/ /\ link # "up"
          /\ writes' = writes \cup {Write(msg, "error")}
          /\ UNCHANGED <<output_buffer, nwritten>>

(* The conditions and assignments that keep the queue going, and a         *)
(* plausible mistake in some: taking a message while one is being sent,    *)
(* not forgetting a timer that stops, arming a second timer, returning     *)
(* before msg_sending is cleared.                                          *)
TakesAnyway == TRUE
MayTake == ~msg_sending

KeepsTimerId(timer) == timer
ForgetTimer(timer) == 0

ArmsAnother == TRUE
NoTimer == msg_queue_timeout = 0

MoreToWrite(n) == n < Pieces

StaysSending == UNCHANGED msg_sending
StopsSending == msg_sending' = FALSE

(* What becomes of the source that ran a callback (0: it was called        *)
(* directly and the result is dropped): FALSE detaches it, TRUE re-arms it.*)
Returned(srcs, fired, result) ==
    [s \in SourceIds |->
        IF s # fired THEN srcs[s] ELSE IF result THEN 0 ELSE Dead]

(* msg_queue_timeout_cb() on queue q, with the sources srcs attached and   *)
(* msg_queue_timeout equal to timer.                                       *)
msg_queue_timeout_cb(q, srcs, timer, fired) ==
    \/ /\ ~sconn_connected
       /\ queue' = q
       /\ sources' = Returned(srcs, fired, FALSE)
       /\ msg_queue_timeout' = ForgetTimer(timer)
       /\ UNCHANGED writeVars
    \/ /\ sconn_connected /\ ~MayTake
       /\ queue' = q
       /\ sources' = Returned(srcs, fired, TRUE)
       /\ msg_queue_timeout' = timer
       /\ UNCHANGED writeVars
    \/ /\ sconn_connected /\ MayTake /\ q = <<>>
       /\ queue' = q
       /\ sources' = Returned(srcs, fired, FALSE)
       /\ msg_queue_timeout' = ForgetTimer(timer)
       /\ UNCHANGED writeVars
    \/ /\ sconn_connected /\ MayTake /\ q # <<>>
       /\ queue' = Tail(q)
       /\ sources' = Returned(srcs, fired, TRUE)
       /\ msg_queue_timeout' = timer
       /\ msg_sending' = TRUE
       /\ send_async(Head(q))

(* idle_connection_add_queue_timeout() with the queue now q                *)
add_queue_timeout(q) ==
    \/ /\ ~NoTimer
       /\ queue' = q
       /\ UNCHANGED <<timerVars, writeVars>>
    \/ /\ NoTimer
       /\ \E s \in SourceIds :
            /\ sources[s] = Dead
            /\ LET armed == [sources EXCEPT ![s] = 0]
               IN  \/ /\ since_sent > MSG_QUEUE_TIMEOUT
                      /\ msg_queue_timeout_cb(q, armed, s, 0)
                   \/ /\ since_sent <= MSG_QUEUE_TIMEOUT
                      /\ queue' = q
                      /\ sources' = armed
                      /\ msg_queue_timeout' = s
                      /\ UNCHANGED writeVars

(* _send_with_priority()                                                   *)
send_with_priority(prio) ==
    LET msg == [priority |-> prio, id |-> last_id]
    IN  /\ last_id < MaxMsgs
        /\ last_id' = last_id + 1
        /\ \E p \in 1 .. Len(queue) + 1 :
             /\ IsInsertPosition(queue, msg, p)
             /\ add_queue_timeout(InsertBefore(queue, p, msg))

-----------------------------------------------------------------------------
Idle == handshake = <<>>      \* the main loop is free to run a callback

(* _connection_connect_ready(): the socket is up; irc_handshakes() follows *)
(* in the same callback, with a PASS if there is a password.               *)
ConnectReady ==
    /\ Idle /\ link = "down"
    /\ link' = "up"
    /\ LET login == [i \in 1 .. 3 |-> SERVER_CMD_NORMAL_PRIORITY]
       IN  handshake' \in {login, <<SERVER_CMD_PASS_PRIORITY>> \o login}
    /\ UNCHANGED <<queue, last_id, timerVars, since_sent, pinging, reset,
                   writeVars, unchecked>>

HandshakeSend ==
    /\ ~Idle
    /\ send_with_priority(Head(handshake))
    /\ handshake' = Tail(handshake)
    /\ UNCHANGED <<since_sent, pinging, link, reset, unchecked>>

(* idle_connection_send(), from a D-Bus method or a parser handler.        *)
(* RequestRename, SetAliases and IRCCommand.Send do not check the status   *)
(* and so may send before the socket is connected or after it is closed;   *)
(* the bound on messages leaves room for those of the handshake.           *)
Send ==
    /\ Idle
    /\ link = "down" => last_id + 4 < MaxMsgs
    /\ send_with_priority(SERVER_CMD_NORMAL_PRIORITY)
    /\ unchecked' = (unchecked \/ ~sconn_connected)
    /\ UNCHANGED <<since_sent, pinging, link, reset, handshake>>

(* _ping_handler() answering the server, or send_quit_request().           *)
SendUrgent ==
    /\ Idle /\ sconn_connected
    /\ send_with_priority(SERVER_CMD_MAX_PRIORITY)
    /\ UNCHANGED <<since_sent, pinging, link, reset, handshake, unchecked>>

(* keepalive_timeout_cb() when it sends a PING                             *)
SendPing ==
    /\ Idle /\ sconn_connected
    /\ ~pinging
    /\ Len(queue) = 0
    /\ pinging' = TRUE
    /\ send_with_priority(SERVER_CMD_MIN_PRIORITY)
    /\ UNCHANGED <<since_sent, link, reset, handshake, unchecked>>

(* _pong_handler(): any PONG will do, also one nobody asked for.           *)
Pong ==
    /\ Idle /\ link = "up" /\ pinging
    /\ pinging' = FALSE
    /\ UNCHANGED <<queue, last_id, timerVars, since_sent, link, reset,
                   handshake, writeVars, unchecked>>

(* connection_connect_cb() on the server's welcome                         *)
Welcome ==
    /\ Idle /\ link = "up" /\ queue # <<>>
    /\ add_queue_timeout(queue)
    /\ UNCHANGED <<last_id, since_sent, pinging, link, reset, handshake,
                   unchecked>>

(* The main loop dispatches a timeout source that is due.                  *)
SourceFires(s) ==
    /\ Idle
    /\ sources[s] = MSG_QUEUE_TIMEOUT
    /\ msg_queue_timeout_cb(queue, sources, msg_queue_timeout, s)
    /\ UNCHANGED <<last_id, since_sent, pinging, link, reset, handshake,
                   unchecked>>

(* _msg_queue_timeout_ready(), reached through _write_ready() once the     *)
(* last piece is written; before that _write_ready() writes on.            *)
WriteReady(w) ==
    /\ Idle
    /\ w.kind = "write"
    /\ nwritten < Pieces
    /\ nwritten' = nwritten + 1
    /\ \/ /\ MoreToWrite(nwritten + 1)
          /\ UNCHANGED <<msg_sending, writes, since_sent>>
       \/ /\ msg_sending' = FALSE
          /\ since_sent' = 0
          /\ writes' = writes \ {w}
    /\ UNCHANGED <<queue, last_id, timerVars, pinging, link, reset, handshake,
                   output_buffer, last_out, since_out, unchecked>>

(* _msg_queue_timeout_ready() with an error: the message is gone.          *)
WriteFails(w) ==
    /\ Idle
    /\ w.kind = "error" \/ reset \/ link # "up"
    /\ StopsSending
    /\ writes' = writes \ {w}
    /\ UNCHANGED <<queue, last_id, timerVars, since_sent, pinging, link, reset,
                   handshake, output_buffer, nwritten, last_out, since_out,
                   unchecked>>

(* The network.                                                            *)
PeerResets ==
    /\ Idle /\ link = "up" /\ ~reset
    /\ reset' = TRUE
    /\ UNCHANGED <<queue, last_id, timerVars, since_sent, pinging, link,
                   handshake, writeVars, unchecked>>

(* idle_server_connection_disconnect_full_async(): the read failed, or a   *)
(* forced disconnect.                                                      *)
CloseStream ==
    /\ Idle /\ link = "up"
    /\ link' = "closing"
    /\ UNCHANGED <<queue, last_id, timerVars, since_sent, pinging, reset,
                   handshake, writeVars, unchecked>>

(* idle_connection_clear_queue_timeout()                                   *)
OnlyForgetTimeout == msg_queue_timeout' = 0 /\ UNCHANGED sources
clear_queue_timeout ==
    /\ sources' = [s \in SourceIds |->
                      IF s = msg_queue_timeout THEN Dead ELSE sources[s]]
    /\ msg_queue_timeout' = 0

(* _close_ready() -> sconn_disconnected_cb() -> connection_disconnect_cb() *)
StreamClosed ==
    /\ Idle /\ link = "closing"
    /\ link' = "closed"
    /\ clear_queue_timeout
    /\ UNCHANGED <<queue, last_id, since_sent, pinging, reset, handshake,
                   writeVars, unchecked>>

(* A second passes.                                                        *)
Tick ==
    /\ Idle
    /\ sources' = [s \in SourceIds |->
                      IF sources[s] = Dead THEN Dead
                      ELSE Min2(sources[s] + 1, MSG_QUEUE_TIMEOUT)]
    /\ since_sent' = Min2(since_sent + 1, MSG_QUEUE_TIMEOUT + 1)
    /\ since_out' = Min2(since_out + 1, MSG_QUEUE_TIMEOUT)
    /\ UNCHANGED <<queue, last_id, msg_queue_timeout, pinging, link, reset,
                   handshake, msg_sending, writes, output_buffer, nwritten,
                   last_out, unchecked>>

Next ==
    \/ ConnectReady \/ HandshakeSend
    \/ Send \/ SendUrgent \/ SendPing \/ Pong \/ Welcome
    \/ \E s \in SourceIds : SourceFires(s)
    \/ \E w \in writes : WriteReady(w) \/ WriteFails(w)
    \/ PeerResets \/ CloseStream \/ StreamClosed
    \/ Tick

Spec == Init /\ [][Next]_vars

(* The main loop keeps dispatching due sources and I/O completions, and a  *)
(* running callback returns.  Nothing obliges a client to send, the server *)
(* to speak or the network to fail.                                        *)
Fairness ==
    /\ WF_vars(HandshakeSend)
    /\ WF_vars(\E s \in SourceIds : SourceFires(s))
    /\ WF_vars(\E w \in writes : WriteReady(w) \/ WriteFails(w))
    /\ WF_vars(Tick)

FairSpec == Spec /\ Fairness

-----------------------------------------------------------------------------
(* Every variable has its type.                                            *)
TypeOK ==
    /\ queue \in Seq(PendingMsg)
    /\ last_id \in 0 .. MaxMsgs
    /\ sources \in [SourceIds -> {Dead} \cup 0 .. MSG_QUEUE_TIMEOUT]
    /\ msg_queue_timeout \in SourceIds \cup {0}
    /\ msg_sending \in BOOLEAN
    /\ since_sent \in 0 .. MSG_QUEUE_TIMEOUT + 1
    /\ pinging \in BOOLEAN
    /\ link \in Links
    /\ reset \in BOOLEAN
    /\ handshake \in Seq(Priorities)
    /\ writes \subseteq [id : Nat, kind : {"write", "error"}]
    /\ output_buffer \in Nat \cup {NoMsg}
    /\ nwritten \in 0 .. Pieces
    /\ last_out \in [Priorities -> Int]
    /\ since_out \in 0 .. MSG_QUEUE_TIMEOUT
    /\ unchecked \in BOOLEAN

(* Messages of one priority leave in the order they were queued: none      *)
(* waits behind a younger one of its priority, and none is older than one  *)
(* already handed over (pending_msg_compare and g_queue_insert_sorted).    *)
SamePriorityFifo ==
    /\ \A i, j \in 1 .. Len(queue) :
          i < j /\ queue[i].priority = queue[j].priority
              => queue[i].id < queue[j].id
    /\ \A i \in 1 .. Len(queue) : last_out[queue[i].priority] < queue[i].id

(* The server connection has one output_buffer: while a write is under way *)
(* it is the only one, and the buffer still holds its message.  Only       *)
(* msg_sending keeps it so.                                                *)
BufferBelongsToTheWrite ==
    /\ \A v, w \in writes : v = w
    /\ \A w \in writes : msg_sending /\ (w.kind = "write" => output_buffer = w.id)

(* A connected queue that is not empty always has an attached timer that   *)
(* will take from it, and a set msg_queue_timeout never names a source     *)
(* that is gone (removing it again would be an error).                     *)
NeverWedged ==
    /\ msg_queue_timeout # 0 => sources[msg_queue_timeout] # Dead
    /\ Idle /\ sconn_connected /\ queue # <<>> => msg_queue_timeout # 0

(* idle-connection.c:49: "the client may send one (1) message every two    *)
(* (2) seconds".                                                           *)
HandedOver == since_out' = 0 /\ last_out' # last_out

RateLimited == [][HandedOver => since_out = MSG_QUEUE_TIMEOUT]_vars

(* RequestRename(), SetAliases() and IRCCommand.Send() do not check the    *)
(* status.  As long as nobody calls them without a connection, messages    *)
(* keep that distance whatever else happens.                               *)
CheckedRateLimited ==
    [][HandedOver /\ ~unchecked' => since_out = MSG_QUEUE_TIMEOUT]_vars

(* Nor is then a timer of the queue attached before the socket is up or    *)
(* after it is closed, when finish_shutdown() follows and the connection   *)
(* may be freed: clear_queue_timeout() and idle_connection_dispose()       *)
(* remove just the source that msg_queue_timeout names, and it is the only *)
(* one.                                                                    *)
TimersEndWithTheLink ==
    ~sconn_connected /\ ~unchecked =>
        msg_queue_timeout = 0 /\ \A s \in SourceIds : sources[s] = Dead

(* idle-connection.c:118: "prefer the message with the higher priority":   *)
(* no message of a lower priority stands before one of a higher one.       *)
HigherPriorityFirst ==
    \A i, j \in 1 .. Len(queue) :
        i < j => queue[i].priority >= queue[j].priority

(* Every message queued while connected leaves the queue, unless the       *)
(* connection goes: nothing starves however urgent the others are.         *)
EveryMessageLeaves ==
    \A n \in 0 .. MaxMsgs - 1 :
        (link = "up" /\ \E i \in 1 .. Len(queue) : queue[i].id = n)
            ~> (link # "up" \/ \A i \in 1 .. Len(queue) : queue[i].id # n)
===============================================================================
