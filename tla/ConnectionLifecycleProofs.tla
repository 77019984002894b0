----------------------- MODULE ConnectionLifecycleProofs -----------------------
(* Theorems about ConnectionLifecycle: its safety properties and that it   *)
(* implements ConnectionStatus.                                            *)
EXTENDS ConnectionLifecycle, TLAPS

(* How the socket, its flags and the connecting thread belong together.    *)
SocketInv ==
    /\ sconn_connected <=> state = "CONNECTED"
    /\ io_stream => state = "CONNECTED"
    /\ connect_task # "none" <=> state = "CONNECTING"
    /\ prompt => status = "CONNECTING" /\ state = "none"

(* Which states of the socket a status allows: in particular nobody is     *)
(* DISCONNECTED with a socket that is neither being cancelled nor quit.    *)
StatusInv ==
    /\ status = "NEW" => state = "none"
    /\ status = "CONNECTED" => state = "CONNECTED"
    /\ status # "DISCONNECTED" => state # "NOT_CONNECTED" /\ ~connect_cancelled
    /\ status = "DISCONNECTED" /\ state = "CONNECTING" => connect_cancelled
    /\ status = "DISCONNECTED" /\ state = "CONNECTED" => quitting

QuitInv ==
    /\ quitting => status = "DISCONNECTED"
    /\ force_disconnect => quitting /\ sconn_connected

(* The idle that finishes is only queued when nothing is left to wait for. *)
FinishInv ==
    /\ finish_idles \in Nat /\ finished \in Nat
    /\ finished + finish_idles <= 1
    /\ finished + finish_idles > 0 =>
          status = "DISCONNECTED" /\ state \in {"none", "NOT_CONNECTED"}

KeepaliveInv ==
    /\ keepalive_source => keepalive_timeout /\ finished = 0
    /\ ping_age # NoPing /\ Received /\ ~quitting =>
          keepalive_timeout /\ keepalive_source
    /\ state \in {"none", "CONNECTING"} => ping_age = NoPing

IInv == SocketInv /\ StatusInv /\ QuitInv /\ FinishInv /\ KeepaliveInv

-----------------------------------------------------------------------------
NumType ==
    /\ ping_age \in {NoPing} \cup 0 .. MISSED_KEEPALIVES_BEFORE_DISCONNECTING
    /\ finish_idles \in Nat
    /\ finished \in Nat

FlagType ==
    /\ status \in {"NEW", "CONNECTING", "CONNECTED", "DISCONNECTED"}
    /\ requests \in BOOLEAN
    /\ prompt \in BOOLEAN
    /\ connect_cancelled \in BOOLEAN
    /\ sconn_connected \in BOOLEAN
    /\ quitting \in BOOLEAN
    /\ handlers \in BOOLEAN
    /\ force_disconnect \in BOOLEAN
    /\ keepalive_timeout \in BOOLEAN
    /\ keepalive_source \in BOOLEAN
    /\ state \in {"none", "NOT_CONNECTED", "CONNECTING", "CONNECTED"}
    /\ io_stream \in BOOLEAN
    /\ connect_task \in {"none", "running", "succeeded", "failed"}

LEMMA TypeSplit == TypeOK <=> NumType /\ FlagType
BY Zenon DEF TypeOK, NumType, FlagType

LEMMA TypeSplitPrime == TypeOK' <=> NumType' /\ FlagType'
BY Zenon DEF TypeOK, NumType, FlagType

LEMMA TypeInit == Init => TypeOK
<1>1. Init => NumType
  BY DEF Init, NumType
<1>2. Init => FlagType
  BY Zenon DEF Init, FlagType
<1>. QED
  BY <1>1, <1>2, TypeSplit

LEMMA NumStep == NumType /\ [Next]_vars => NumType'
<1>. SUFFICES ASSUME NumType, [Next]_vars PROVE NumType'
  OBVIOUS
<1>1. ASSUME NEW up, ChangeToDisconnected(up), UNCHANGED <<finished, ping_age>>
      PROVE  NumType'
  <2>1. finish_idles' = finish_idles \/ finish_idles' = finish_idles + 1
    BY <1>1 DEF ChangeToDisconnected, iface_shut_down, NumType
  <2>. QED
    BY <1>1, <2>1 DEF NumType
<1>2. ASSUME sconn_disconnected_cb, UNCHANGED <<finished, ping_age>>
      PROVE  NumType'
  <2>1. ChangeToDisconnected(FALSE) \/ finish_idles' = finish_idles + 1
    BY <1>2, Zenon DEF sconn_disconnected_cb, ClearConnected
  <2>2. CASE finish_idles' = finish_idles + 1
    BY <1>2, <2>2 DEF NumType
  <2>. QED
    BY <1>1, <1>2, <2>1, <2>2
<1>3. CASE UNCHANGED <<finish_idles, finished, ping_age>>
  BY <1>3 DEF NumType
<1>4. CASE ping_age' = NoPing /\ UNCHANGED <<finish_idles, finished>>
  BY <1>4 DEF NumType
<1>5. CASE FinishShutdown
  <2>1. /\ finish_idles > 0 /\ finish_idles' = finish_idles - 1
        /\ finished' = finished + 1 /\ ping_age' = ping_age
    BY <1>5 DEF FinishShutdown
  <2>. QED
    BY <2>1 DEF NumType
<1>6. CASE KeepaliveWaits
  <2>1. PICK late \in 0 .. 1 :
           ~Overdue(ping_age + 1 + late) /\ ping_age' = ping_age + 1 + late
    BY <1>6 DEF KeepaliveWaits
  <2>2. UNCHANGED <<finish_idles, finished>>
    BY <1>6 DEF KeepaliveWaits, shutdownVars
  <2>. QED
    BY <2>1, <2>2
       DEF NumType, Overdue, NoPing, MISSED_KEEPALIVES_BEFORE_DISCONNECTING
<1>7. CASE KeepalivePings
  <2>1. ping_age' = 0 /\ UNCHANGED <<finish_idles, finished>>
    BY <1>7 DEF KeepalivePings, shutdownVars
  <2>. QED
    BY <2>1 DEF NumType, MISSED_KEEPALIVES_BEFORE_DISCONNECTING
<1>. QED
  BY <1>1, <1>2, <1>3, <1>4, <1>5, <1>6, <1>7
     DEF Next, vars, keepaliveVars, shutdownVars, Connect, PasswordGiven,
         PasswordRefused, Disconnect, ThreadReturns, ConnectSucceeds,
         ConnectFails, Welcome, ServerError, NicknameRefused, Pong,
         ForgetPingTime, PingUnknown, ReadEnds, SocketCloses, Keepalive, KeepaliveStops,
         KeepaliveExpires, ForceDisconnect

LEMMA ChangeFlagType ==
    ASSUME FlagType, NEW up \in BOOLEAN, ChangeToDisconnected(up)
    PROVE  /\ status' = "DISCONNECTED" /\ prompt' = FALSE
           /\ quitting' \in BOOLEAN /\ handlers' \in BOOLEAN
           /\ force_disconnect' \in BOOLEAN /\ connect_cancelled' \in BOOLEAN
BY Zenon DEF FlagType, ChangeToDisconnected, iface_disconnected,
             iface_shut_down

LEMMA SconnDisconnectedFlagType ==
    ASSUME FlagType, sconn_disconnected_cb
    PROVE  /\ status' = "DISCONNECTED" /\ prompt' \in BOOLEAN
           /\ quitting' \in BOOLEAN /\ handlers' \in BOOLEAN
           /\ force_disconnect' \in BOOLEAN /\ connect_cancelled' \in BOOLEAN
           /\ sconn_connected' \in BOOLEAN
<1>0. sconn_connected' \in BOOLEAN
  BY Zenon DEF sconn_disconnected_cb, ClearConnected
<1>1. CASE ChangeToDisconnected(FALSE)
  BY <1>0, <1>1, ChangeFlagType, Zenon
<1>2. CASE /\ status = "DISCONNECTED"
           /\ ClearForceTimer
           /\ UNCHANGED <<status, quitting, handlers, connect_cancelled, prompt>>
  BY <1>0, <1>2, Zenon DEF FlagType, ClearForceTimer
<1>. QED
  BY <1>1, <1>2, Zenon DEF sconn_disconnected_cb, ClearConnected

LEMMA FlagStep == FlagType /\ [Next]_vars => FlagType'
<1>. SUFFICES ASSUME FlagType, [Next]_vars PROVE FlagType'
  OBVIOUS
<1>. USE DEF FlagType, keepaliveVars, sconnVars, shutdownVars
<1>1. CASE Connect
  <2>1. /\ status' = "CONNECTING"
        /\ prompt' \in BOOLEAN
        /\ \/ UNCHANGED sconnVars
           \/ /\ state' = "CONNECTING" /\ connect_task' = "running"
              /\ UNCHANGED io_stream
        /\ UNCHANGED <<requests, connect_cancelled, sconn_connected, quitting,
                       handlers, force_disconnect, keepaliveVars>>
    BY <1>1, Zenon DEF Connect, start_connecting_continue
  <2>. QED
    BY <2>1
<1>2. CASE PasswordGiven
  BY <1>2 DEF PasswordGiven, start_connecting_continue
<1>3. CASE PasswordRefused
  BY <1>3, ChangeFlagType DEF PasswordRefused
<1>4. CASE Disconnect
  BY <1>4, ChangeFlagType DEF Disconnect
<1>5. CASE ThreadReturns
  BY <1>5 DEF ThreadReturns
<1>6. CASE ConnectSucceeds
  BY <1>6 DEF ConnectSucceeds
<1>7. CASE ConnectFails
  BY <1>7, SconnDisconnectedFlagType DEF ConnectFails
<1>8. CASE Welcome
  <2>1. /\ status' = "CONNECTED" \/ status' = status
        /\ keepalive_timeout' \in BOOLEAN /\ keepalive_source' \in BOOLEAN
        /\ UNCHANGED <<requests, prompt, connect_cancelled, sconn_connected,
                       quitting, handlers, force_disconnect, sconnVars>>
    BY <1>8, Zenon DEF Welcome, ArmKeepalive, ChangeToConnected, FlagType
  <2>. QED
    BY <2>1
<1>9. CASE ServerError
  BY <1>9, ChangeFlagType DEF ServerError
<1>10. CASE NicknameRefused
  BY <1>9, <1>10 DEF NicknameRefused
<1>11. CASE Pong
  BY <1>11 DEF ForgetPingTime, Pong
<1>12. CASE PingUnknown
  <2>1. /\ keepalive_timeout' \in BOOLEAN
        /\ UNCHANGED <<shutdownVars, requests, sconn_connected, sconnVars>>
    BY <1>12, Zenon DEF ForgetPingTime, PingUnknown
  <2>2. keepalive_source' \in BOOLEAN
    BY <1>12, Zenon DEF ForgetPingTime, PingUnknown
  <2>. QED
    BY <2>1, <2>2
<1>13. CASE ReadEnds
  <2>1. /\ io_stream' \in BOOLEAN
        /\ UNCHANGED <<shutdownVars, requests, sconn_connected, keepaliveVars,
                       state, connect_task>>
    BY <1>13, Zenon DEF ReadEnds
  <2>. QED
    BY <2>1
<1>14. CASE SocketCloses
  BY <1>14, SconnDisconnectedFlagType DEF SocketCloses
<1>15. CASE KeepaliveStops
  <2>1. /\ keepalive_timeout' \in BOOLEAN /\ keepalive_source' \in BOOLEAN
        /\ UNCHANGED <<shutdownVars, requests, sconn_connected, sconnVars>>
    BY <1>15, Zenon DEF KeepaliveStops
  <2>. QED
    BY <2>1
<1>16. CASE KeepaliveWaits
  BY <1>16 DEF KeepaliveWaits
<1>17. CASE KeepaliveExpires
  <2>1. /\ io_stream' \in BOOLEAN /\ keepalive_source' \in BOOLEAN
        /\ UNCHANGED <<shutdownVars, requests, sconn_connected,
                       keepalive_timeout, state, connect_task>>
    BY <1>17, Zenon DEF KeepaliveExpires, force_sconn_disconnect
  <2>. QED
    BY <2>1
<1>18. CASE KeepalivePings
  BY <1>18 DEF KeepalivePings
<1>19. CASE ForceDisconnect
  <2>1. /\ io_stream' \in BOOLEAN /\ force_disconnect' \in BOOLEAN
        /\ UNCHANGED <<status, requests, prompt, connect_cancelled,
                       sconn_connected, quitting, handlers, keepaliveVars,
                       state, connect_task>>
    BY <1>19, Zenon DEF ForceDisconnect, force_sconn_disconnect
  <2>. QED
    BY <2>1
<1>20. CASE FinishShutdown
  BY <1>20 DEF FinishShutdown
<1>21. CASE UNCHANGED vars
  BY <1>21 DEF vars
<1>. QED
  BY <1>1, <1>2, <1>3, <1>4, <1>5, <1>6, <1>7, <1>8, <1>9, <1>10,
     <1>11, <1>12, <1>13, <1>14, <1>15, <1>16, <1>17, <1>18, <1>19, <1>20,
     <1>21, ZenonT(60) DEF Next, Keepalive

LEMMA TypeStep == TypeOK /\ [Next]_vars => TypeOK'
BY NumStep, FlagStep, TypeSplit, TypeSplitPrime

(* Every variable of the connection has its type.                          *)
THEOREM TypeCorrect == Spec => []TypeOK
BY TypeInit, TypeStep, PTL DEF Spec

-----------------------------------------------------------------------------
LEMMA InvInit == Init => IInv
<1>. SUFFICES ASSUME Init PROVE IInv
  OBVIOUS
<1>1. FinishInv
  BY DEF Init, FinishInv
<1>2. SocketInv
  BY Zenon DEF Init, SocketInv
<1>3. StatusInv
  BY Zenon DEF Init, StatusInv
<1>4. QuitInv
  BY Zenon DEF Init, QuitInv
<1>5. KeepaliveInv
  BY Zenon DEF Init, KeepaliveInv, Received
<1>. QED
  BY <1>1, <1>2, <1>3, <1>4, <1>5, Zenon DEF IInv

(* A status change to DISCONNECTED that leaves the socket as it is.        *)
LEMMA ChangeKeepsInv ==
    ASSUME IInv, FlagType, ChangeToDisconnected(sconn_connected),
           UNCHANGED <<sconn_connected, finished, keepaliveVars, sconnVars>>
    PROVE  IInv'
<1>1. /\ status # "DISCONNECTED" /\ status' = "DISCONNECTED"
      /\ prompt' = FALSE
      /\ quitting' <=> quitting \/ sconn_connected
      /\ handlers' <=> handlers
      /\ force_disconnect' <=> sconn_connected
      /\ connect_cancelled'
            <=> connect_cancelled \/ (~sconn_connected /\ state # "none")
      /\ finish_idles' = finish_idles + (IF state = "none" THEN 1 ELSE 0)
  BY Zenon DEF ChangeToDisconnected, iface_disconnected,
        iface_shut_down
<1>2. /\ sconn_connected' <=> sconn_connected
      /\ finished' = finished
      /\ keepalive_timeout' <=> keepalive_timeout
      /\ keepalive_source' <=> keepalive_source
      /\ ping_age' = ping_age
      /\ state' = state
      /\ io_stream' <=> io_stream
      /\ connect_task' = connect_task
  BY Zenon DEF keepaliveVars, sconnVars
<1>3. SocketInv'
  BY <1>1, <1>2, Zenon DEF IInv, SocketInv
<1>4. StatusInv'
  BY <1>1, <1>2, Zenon DEF IInv, SocketInv, StatusInv
<1>5. QuitInv'
  BY <1>1, <1>2, Zenon DEF IInv, SocketInv, StatusInv, QuitInv
<1>6. FinishInv'
  BY <1>1, <1>2 DEF IInv, StatusInv, FinishInv
<1>7. KeepaliveInv'
  BY <1>1, <1>2, Zenon DEF IInv, KeepaliveInv, Received
<1>. QED
  BY <1>3, <1>4, <1>5, <1>6, <1>7, Zenon DEF IInv

(* The socket goes, or the attempt to connect it fails.                    *)
LEMMA SconnDisconnectedKeepsInv ==
    ASSUME IInv, FlagType, sconn_disconnected_cb,
           state \in {"CONNECTING", "CONNECTED"}, state' = "NOT_CONNECTED",
           ~io_stream', connect_task' = "none",
           UNCHANGED <<finished, keepaliveVars>>
    PROVE  IInv'
<1>0. /\ ~sconn_connected' /\ finished' = finished
      /\ keepalive_timeout' <=> keepalive_timeout
      /\ keepalive_source' <=> keepalive_source
      /\ ping_age' = ping_age
  BY Zenon DEF sconn_disconnected_cb, ClearConnected, keepaliveVars
<1>1. /\ status' = "DISCONNECTED"
      /\ ~force_disconnect'
      /\ quitting' => quitting
      /\ quitting => quitting'
      /\ handlers' => handlers
      /\ prompt' => prompt /\ status = "DISCONNECTED"
  <2>1. CASE ChangeToDisconnected(FALSE)
    BY <2>1, Zenon DEF ChangeToDisconnected, iface_disconnected
  <2>2. CASE /\ status = "DISCONNECTED"
             /\ ClearForceTimer
             /\ UNCHANGED <<status, quitting, handlers, connect_cancelled,
                            prompt>>
    BY <2>2, Zenon DEF ClearForceTimer
  <2>. QED
    BY <2>1, <2>2, Zenon DEF sconn_disconnected_cb, ClearConnected
<1>2. SocketInv'
  BY <1>0, <1>1, Zenon DEF IInv, SocketInv
<1>3. StatusInv'
  BY <1>1, Zenon DEF StatusInv
<1>4. QuitInv'
  BY <1>0, <1>1, Zenon DEF IInv, QuitInv
<1>5. FinishInv'
  <2>1. finished + finish_idles = 0 /\ finished \in Nat /\ finish_idles \in Nat
    BY DEF IInv, FinishInv
  <2>2. \/ finish_idles' = finish_idles + 1
        \/ finish_idles' = finish_idles + (IF state = "none" THEN 1 ELSE 0)
    BY Zenon DEF sconn_disconnected_cb, ClearConnected, ChangeToDisconnected,
        iface_shut_down
  <2>. QED
    BY <1>0, <1>1, <2>1, <2>2 DEF FinishInv
<1>6. KeepaliveInv'
  BY <1>0, <1>1, Zenon DEF IInv, KeepaliveInv, Received
<1>. QED
  BY <1>2, <1>3, <1>4, <1>5, <1>6, Zenon DEF IInv

(* A step that queues and runs no finishing idle.                          *)
LEMMA FinishKept ==
    ASSUME IInv, UNCHANGED <<finish_idles, finished>>,
           \/ UNCHANGED <<status, state>>
           \/ status # "DISCONNECTED"
           \/ state \notin {"none", "NOT_CONNECTED"}
    PROVE  FinishInv'
BY DEF IInv, FinishInv

(* A step of the connection attempt or of the client: the keepalive rests. *)
LEMMA KeepaliveKept ==
    ASSUME IInv, UNCHANGED <<keepaliveVars, finished>>,
           Received' => Received, quitting => quitting',
           state' \in {"none", "CONNECTING"} => state \in {"none", "CONNECTING"}
    PROVE  KeepaliveInv'
<1>1. /\ keepalive_timeout' <=> keepalive_timeout
      /\ keepalive_source' <=> keepalive_source
      /\ ping_age' = ping_age /\ finished' = finished
  BY Zenon DEF keepaliveVars
<1>. QED
  BY <1>1, Zenon DEF IInv, KeepaliveInv

LEMMA ConnectKeepsInv == IInv /\ Connect => IInv'
<1>. SUFFICES ASSUME IInv, Connect PROVE IInv'
  OBVIOUS
<1>1. /\ status = "NEW" /\ status' = "CONNECTING"
      /\ state = "none" /\ ~sconn_connected /\ ~io_stream /\ ~prompt
      /\ connect_task = "none" /\ ~quitting /\ ~connect_cancelled
  BY Zenon DEF Connect, IInv, SocketInv, StatusInv, QuitInv
<1>2. /\ ~sconn_connected' /\ ~io_stream' /\ ~quitting' /\ ~connect_cancelled'
      /\ force_disconnect' <=> force_disconnect
      /\ \/ state' = "none" /\ connect_task' = "none"
         \/ state' = "CONNECTING" /\ connect_task' = "running" /\ ~prompt'
  <2>1. /\ ~sconn_connected' /\ ~quitting' /\ ~connect_cancelled'
        /\ force_disconnect' <=> force_disconnect
    BY <1>1, Zenon DEF Connect
  <2>2. CASE UNCHANGED sconnVars
    BY <1>1, <2>1, <2>2, Zenon DEF sconnVars
  <2>3. CASE start_connecting_continue /\ UNCHANGED prompt
    BY <1>1, <2>1, <2>3, Zenon DEF start_connecting_continue
  <2>. QED
    BY <2>2, <2>3, Zenon DEF Connect
<1>3. SocketInv'
  BY <1>1, <1>2, Zenon DEF SocketInv
<1>4. StatusInv'
  BY <1>1, <1>2, Zenon DEF StatusInv
<1>5. QuitInv'
  BY <1>1, <1>2, Zenon DEF IInv, QuitInv
<1>6. FinishInv'
  BY <1>1, FinishKept DEF Connect
<1>7. KeepaliveInv'
  BY <1>1, <1>2, KeepaliveKept, Zenon DEF Connect, Received
<1>. QED
  BY <1>3, <1>4, <1>5, <1>6, <1>7, Zenon DEF IInv

LEMMA PasswordGivenKeepsInv == IInv /\ PasswordGiven => IInv'
<1>. SUFFICES ASSUME IInv, PasswordGiven PROVE IInv'
  OBVIOUS
<1>1. /\ status = "CONNECTING" /\ state = "none" /\ ~sconn_connected
      /\ ~io_stream /\ ~quitting /\ ~connect_cancelled
  BY Zenon DEF PasswordGiven, IInv, SocketInv, StatusInv, QuitInv
<1>2. /\ ~sconn_connected' /\ ~io_stream' /\ ~quitting' /\ ~connect_cancelled'
      /\ ~prompt'
      /\ force_disconnect' <=> force_disconnect
      /\ status' = "CONNECTING"
      /\ state' = "CONNECTING" /\ connect_task' = "running"
  BY <1>1, Zenon DEF PasswordGiven, start_connecting_continue
<1>3. SocketInv'
  BY <1>2, Zenon DEF SocketInv
<1>4. StatusInv'
  BY <1>2, Zenon DEF StatusInv
<1>5. QuitInv'
  BY <1>1, <1>2, Zenon DEF IInv, QuitInv
<1>6. FinishInv'
  BY <1>1, FinishKept DEF PasswordGiven
<1>7. KeepaliveInv'
  BY <1>1, <1>2, KeepaliveKept, Zenon DEF PasswordGiven, Received
<1>. QED
  BY <1>3, <1>4, <1>5, <1>6, <1>7, Zenon DEF IInv

LEMMA ThreadReturnsKeepsInv == IInv /\ ThreadReturns => IInv'
<1>. SUFFICES ASSUME IInv, ThreadReturns PROVE IInv'
  OBVIOUS
<1>1. /\ status' = status /\ state' = state
      /\ prompt' <=> prompt
      /\ sconn_connected' <=> sconn_connected
      /\ io_stream' <=> io_stream
      /\ quitting' <=> quitting
      /\ handlers' <=> handlers
      /\ connect_cancelled' <=> connect_cancelled
      /\ force_disconnect' <=> force_disconnect
  BY Zenon DEF ThreadReturns, shutdownVars
<1>2. connect_task = "running" /\ connect_task' # "none"
  BY Zenon DEF ThreadReturns
<1>3. SocketInv'
  BY <1>1, <1>2, Zenon DEF IInv, SocketInv
<1>4. StatusInv'
  BY <1>1, Zenon DEF IInv, StatusInv
<1>5. QuitInv'
  BY <1>1, Zenon DEF IInv, QuitInv
<1>6. FinishInv'
  BY FinishKept DEF ThreadReturns, shutdownVars
<1>7. KeepaliveInv'
  BY <1>1, KeepaliveKept, Zenon DEF ThreadReturns, Received
<1>. QED
  BY <1>3, <1>4, <1>5, <1>6, <1>7, Zenon DEF IInv

LEMMA ConnectSucceedsKeepsInv == IInv /\ ConnectSucceeds => IInv'
<1>. SUFFICES ASSUME IInv, ConnectSucceeds PROVE IInv'
  OBVIOUS
<1>1. /\ state = "CONNECTING" /\ ~connect_cancelled /\ ~prompt
      /\ status # "DISCONNECTED" /\ ~quitting
      /\ ping_age = NoPing /\ status # "NEW"
  BY Zenon DEF ConnectSucceeds, IInv, SocketInv, StatusInv, QuitInv,
               KeepaliveInv
<1>2. /\ status' = status /\ state' = "CONNECTED" /\ connect_task' = "none"
      /\ sconn_connected' /\ ~prompt' /\ ~quitting' /\ ~connect_cancelled'
      /\ force_disconnect' <=> force_disconnect
      /\ keepalive_timeout' <=> keepalive_timeout
      /\ keepalive_source' <=> keepalive_source
      /\ ping_age' = ping_age /\ finished' = finished
  BY <1>1, Zenon DEF ConnectSucceeds, keepaliveVars
<1>3. SocketInv'
  BY <1>2, Zenon DEF SocketInv
<1>4. StatusInv'
  BY <1>1, <1>2, Zenon DEF StatusInv
<1>5. QuitInv'
  BY <1>1, <1>2, Zenon DEF IInv, QuitInv
<1>6. FinishInv'
  BY <1>1, FinishKept DEF ConnectSucceeds
<1>7. KeepaliveInv'
  BY <1>1, <1>2, Zenon DEF IInv, KeepaliveInv
<1>. QED
  BY <1>3, <1>4, <1>5, <1>6, <1>7, Zenon DEF IInv

LEMMA WelcomeKeepsInv == IInv /\ Welcome => IInv'
<1>. SUFFICES ASSUME IInv, Welcome PROVE IInv'
  OBVIOUS
<1>1. /\ state = "CONNECTED" /\ sconn_connected /\ handlers
      /\ connect_task = "none" /\ ~prompt
  BY Zenon DEF Welcome, Received, IInv, SocketInv
<1>2. /\ state' = state
      /\ connect_task' = connect_task
      /\ ping_age' = ping_age
      /\ finished' = finished
      /\ sconn_connected' <=> sconn_connected
      /\ prompt' <=> prompt
      /\ quitting' <=> quitting
      /\ connect_cancelled' <=> connect_cancelled
      /\ force_disconnect' <=> force_disconnect
      /\ io_stream' <=> io_stream
      /\ handlers' <=> handlers
  BY Zenon DEF Welcome, sconnVars
<1>a. \/ status = "DISCONNECTED" /\ status' = "DISCONNECTED"
      \/ status # "DISCONNECTED" /\ status' = "CONNECTED"
  BY Zenon DEF Welcome, ChangeToConnected
<1>b. Received /\ Received'
  BY <1>2, Zenon DEF Welcome, Received
<1>3. SocketInv'
  BY <1>1, <1>2, <1>b, Zenon DEF IInv, SocketInv
<1>4. StatusInv'
  BY <1>1, <1>2, <1>a, Zenon DEF IInv, StatusInv
<1>5. QuitInv'
  BY <1>1, <1>2, <1>a, Zenon DEF IInv, QuitInv
<1>6. FinishInv' /\ finished = 0
  <2>1. FinishInv'
    BY <1>1, FinishKept DEF Welcome
  <2>2. ~ (finished + finish_idles > 0)
    BY <1>1, Zenon DEF IInv, FinishInv
  <2>3. finished \in Nat /\ finish_idles \in Nat
    BY DEF IInv, FinishInv
  <2>. QED
    BY <2>1, <2>2, <2>3
<1>7. KeepaliveInv'
  <2>1. \/ /\ keepalive_timeout' /\ keepalive_source'
        \/ /\ keepalive_timeout' <=> keepalive_timeout
           /\ keepalive_source' <=> keepalive_source
    BY Zenon DEF Welcome, ArmKeepalive
  <2>. QED
    BY <1>2, <1>6, <1>b, <2>1, Zenon DEF IInv, KeepaliveInv
<1>. QED
  BY <1>3, <1>4, <1>5, <1>6, <1>7, Zenon DEF IInv

(* The remaining steps change no status.  At most a stream is given up and *)
(* a force timer removed.                                                  *)
LEMMA RestKeepsInv ==
    ASSUME IInv,
           UNCHANGED <<status, prompt, connect_cancelled, sconn_connected,
                       quitting, handlers, state, connect_task>>,
           io_stream' => io_stream, force_disconnect' => force_disconnect,
           FinishInv', KeepaliveInv'
    PROVE  IInv'
<1>1. /\ status' = status /\ state' = state /\ connect_task' = connect_task
      /\ prompt' <=> prompt
      /\ connect_cancelled' <=> connect_cancelled
      /\ sconn_connected' <=> sconn_connected
      /\ quitting' <=> quitting
      /\ handlers' <=> handlers
  BY Zenon
<1>2. SocketInv'
  BY <1>1, Zenon DEF IInv, SocketInv
<1>3. StatusInv'
  BY <1>1, Zenon DEF IInv, StatusInv
<1>4. QuitInv'
  BY <1>1, Zenon DEF IInv, QuitInv
<1>. QED
  BY <1>2, <1>3, <1>4, Zenon DEF IInv

LEMMA PongKeepsInv == IInv /\ (Pong \/ PingUnknown) => IInv'
<1>. SUFFICES ASSUME IInv, Pong \/ PingUnknown PROVE IInv'
  OBVIOUS
<1>1. UNCHANGED <<shutdownVars, sconn_connected, finished, sconnVars>>
  BY Zenon DEF ForgetPingTime, Pong, PingUnknown
<1>2. ping_age' = NoPing /\ finished' = finished
  BY Zenon DEF ForgetPingTime, Pong, PingUnknown
<1>3. keepalive_source' => keepalive_timeout' /\ finished = 0
  <2>1. CASE Pong
    BY <2>1, Zenon DEF ForgetPingTime, Pong, IInv, KeepaliveInv
  <2>2. CASE PingUnknown
    BY <2>2, Zenon DEF ForgetPingTime, PingUnknown, IInv, KeepaliveInv
  <2>. QED
    BY <2>1, <2>2
<1>4. KeepaliveInv'
  BY <1>2, <1>3, Zenon DEF KeepaliveInv
<1>5. FinishInv'
  BY <1>1, FinishKept DEF shutdownVars, sconnVars
<1>. QED
  BY <1>1, <1>4, <1>5, RestKeepsInv DEF shutdownVars, sconnVars

LEMMA ReadEndsKeepsInv == IInv /\ ReadEnds => IInv'
<1>. SUFFICES ASSUME IInv, ReadEnds PROVE IInv'
  OBVIOUS
<1>1. /\ UNCHANGED <<shutdownVars, sconn_connected, finished, keepaliveVars,
                     state, connect_task>>
      /\ ~io_stream'
  BY Zenon DEF ReadEnds
<1>2. KeepaliveInv'
  <2>1. /\ UNCHANGED <<keepaliveVars, finished>>
        /\ quitting' <=> quitting
        /\ ~Received'
        /\ state' = state
    BY <1>1, Zenon DEF shutdownVars, Received
  <2>. QED
    BY <2>1, KeepaliveKept
<1>3. FinishInv'
  BY <1>1, FinishKept DEF shutdownVars
<1>. QED
  BY <1>1, <1>2, <1>3, RestKeepsInv DEF shutdownVars

LEMMA KeepaliveKeepsInv == IInv /\ Keepalive => IInv'
<1>. SUFFICES ASSUME IInv, Keepalive PROVE IInv'
  OBVIOUS
<1>0. keepalive_source /\ keepalive_timeout /\ finished = 0
  BY Zenon DEF Keepalive, KeepaliveStops, KeepaliveWaits, KeepaliveExpires,
               KeepalivePings, KeepaliveRuns, IInv, KeepaliveInv
<1>1. /\ UNCHANGED <<shutdownVars, sconn_connected, finished, state,
                     connect_task>>
      /\ io_stream' => io_stream
  <2>1. UNCHANGED <<shutdownVars, sconn_connected, finished, state,
                    connect_task>>
    BY Zenon DEF Keepalive, KeepaliveStops, KeepaliveWaits, KeepaliveExpires,
                 KeepalivePings, sconnVars
  <2>2. io_stream' => io_stream
    BY Zenon DEF Keepalive, KeepaliveStops, KeepaliveWaits, KeepaliveExpires,
                 KeepalivePings, sconnVars, force_sconn_disconnect
  <2>. QED
    BY <2>1, <2>2
<1>2. CASE KeepaliveStops
  <2>1. ~Received \/ quitting
    BY <1>2, Zenon DEF KeepaliveStops, Received, IInv, SocketInv
  <2>2. /\ handlers' <=> handlers
        /\ quitting' <=> quitting
        /\ io_stream' => io_stream
    BY <1>1, Zenon DEF shutdownVars
  <2>3. /\ ~Received' \/ quitting'
        /\ ~keepalive_source'
        /\ ping_age' = ping_age
    BY <1>2, <2>1, <2>2, Zenon DEF KeepaliveStops, Received
  <2>4. KeepaliveInv'
    <3>1. state' = state
      BY <1>1
    <3>. QED
      BY <2>3, <3>1, Zenon DEF IInv, KeepaliveInv
  <2>. QED
    BY <1>1, <2>4, FinishKept, RestKeepsInv DEF shutdownVars
<1>3. CASE KeepaliveWaits \/ KeepalivePings
  <2>0. UNCHANGED <<keepalive_timeout, keepalive_source>> /\ sconn_connected
    BY <1>3, Zenon DEF KeepaliveWaits, KeepalivePings, KeepaliveRuns
  <2>1. /\ state = "CONNECTED" /\ state' = state /\ finished' = finished
        /\ keepalive_timeout' <=> keepalive_timeout
        /\ keepalive_source' <=> keepalive_source
    BY <1>1, <2>0, Zenon DEF IInv, SocketInv
  <2>2. KeepaliveInv'
    BY <1>0, <2>1, Zenon DEF KeepaliveInv
  <2>. QED
    BY <1>1, <2>2, FinishKept, RestKeepsInv DEF shutdownVars
<1>4. CASE KeepaliveExpires
  <2>1. /\ state = "CONNECTED" /\ state' = state
        /\ ~keepalive_source' /\ ~Received'
    BY <1>1, <1>4, Zenon DEF KeepaliveExpires, KeepaliveRuns, Received,
                             force_sconn_disconnect, IInv, SocketInv
  <2>2. KeepaliveInv'
    BY <2>1, Zenon DEF KeepaliveInv
  <2>. QED
    BY <1>1, <2>2, FinishKept, RestKeepsInv DEF shutdownVars
<1>. QED
  BY <1>2, <1>3, <1>4, Zenon DEF Keepalive

LEMMA ForceDisconnectKeepsInv == IInv /\ ForceDisconnect => IInv'
<1>. SUFFICES ASSUME IInv, ForceDisconnect PROVE IInv'
  OBVIOUS
<1>1. /\ UNCHANGED <<status, prompt, connect_cancelled, sconn_connected,
                     quitting, handlers, finish_idles, finished,
                     keepaliveVars, state, connect_task>>
      /\ ~io_stream' /\ ~force_disconnect'
  BY Zenon DEF ForceDisconnect, force_sconn_disconnect
<1>2. KeepaliveInv'
  BY <1>1, KeepaliveKept, Zenon DEF Received
<1>3. FinishInv'
  BY <1>1, FinishKept
<1>. QED
  BY <1>1, <1>2, <1>3, RestKeepsInv

LEMMA FinishShutdownKeepsInv == IInv /\ FinishShutdown => IInv'
<1>. SUFFICES ASSUME IInv, FinishShutdown PROVE IInv'
  OBVIOUS
<1>1. /\ finish_idles > 0 /\ finish_idles' = finish_idles - 1
      /\ finished' = finished + 1
      /\ UNCHANGED <<status, prompt, connect_cancelled, sconn_connected,
                     quitting, handlers, ping_age, state, io_stream,
                     connect_task>>
      /\ ~force_disconnect'
  BY DEF FinishShutdown, sconnVars
<1>2. FinishInv' /\ state \in {"none", "NOT_CONNECTED"}
  BY <1>1 DEF IInv, FinishInv
<1>3. ~keepalive_source'
  BY Zenon DEF FinishShutdown, IInv, KeepaliveInv
<1>4. ~io_stream'
  BY <1>1, <1>2, Zenon DEF IInv, SocketInv
<1>5. ping_age' = ping_age /\ state' = state
  BY <1>1
<1>6. KeepaliveInv'
  BY <1>3, <1>4, <1>5, Zenon DEF IInv, KeepaliveInv, Received
<1>. QED
  BY <1>1, <1>2, <1>4, <1>6, RestKeepsInv

LEMMA InvStep == TypeOK /\ IInv /\ [Next]_vars => IInv'
<1>. SUFFICES ASSUME TypeOK, IInv, [Next]_vars PROVE IInv'
  OBVIOUS
<1>0. FlagType
  BY TypeSplit
<1>1. CASE PasswordRefused \/ Disconnect \/ ServerError \/ NicknameRefused
  <2>1. /\ ChangeToDisconnected(sconn_connected)
        /\ UNCHANGED <<sconn_connected, finished, keepaliveVars, sconnVars>>
    BY <1>1, Zenon DEF PasswordRefused, Disconnect, ServerError,
                       NicknameRefused
  <2>. QED
    BY <1>0, <2>1, ChangeKeepsInv
<1>2. CASE ConnectFails
  <2>1. state = "CONNECTING" /\ ~io_stream
    BY <1>2, Zenon DEF ConnectFails, IInv, SocketInv
  <2>2. /\ sconn_disconnected_cb /\ state' = "NOT_CONNECTED"
        /\ ~io_stream' /\ connect_task' = "none"
        /\ UNCHANGED <<finished, keepaliveVars>>
    BY <1>2, <2>1, Zenon DEF ConnectFails
  <2>. QED
    BY <1>0, <2>1, <2>2, SconnDisconnectedKeepsInv
<1>3. CASE SocketCloses
  <2>1. state = "CONNECTED" /\ ~io_stream /\ connect_task = "none"
    BY <1>3, Zenon DEF SocketCloses, Closing, IInv, SocketInv
  <2>2. /\ sconn_disconnected_cb /\ state' = "NOT_CONNECTED"
        /\ ~io_stream' /\ connect_task' = "none"
        /\ UNCHANGED <<finished, keepaliveVars>>
    BY <1>3, <2>1, Zenon DEF SocketCloses
  <2>. QED
    BY <1>0, <2>1, <2>2, SconnDisconnectedKeepsInv
<1>4. CASE UNCHANGED vars
  <2>1. FinishInv'
    BY <1>4, FinishKept DEF vars, shutdownVars, sconnVars
  <2>2. KeepaliveInv'
    BY <1>4, KeepaliveKept, Zenon
       DEF vars, shutdownVars, sconnVars, Received
  <2>. QED
    BY <1>4, <2>1, <2>2, RestKeepsInv DEF vars, shutdownVars, sconnVars
<1>. QED
  BY <1>1, <1>2, <1>3, <1>4, ConnectKeepsInv, PasswordGivenKeepsInv,
     ThreadReturnsKeepsInv, ConnectSucceedsKeepsInv, WelcomeKeepsInv,
     PongKeepsInv, ReadEndsKeepsInv, KeepaliveKeepsInv,
     ForceDisconnectKeepsInv, FinishShutdownKeepsInv, Zenon DEF Next

LEMMA InvCorrect == Spec => [](TypeOK /\ IInv)
<1>1. Init => TypeOK /\ IInv
  BY TypeInit, InvInit
<1>2. TypeOK /\ IInv /\ [Next]_vars => (TypeOK /\ IInv)'
  BY TypeStep, InvStep
<1>. QED
  BY <1>1, <1>2, PTL DEF Spec

-----------------------------------------------------------------------------
(* finish_shutdown() is called once, and then its idle, the prompt, the    *)
(* force timer, the keepalive, the connecting thread and the socket have   *)
(* no callback left that would use the connection.                         *)
THEOREM LifeIsOverCorrect == Spec => []LifeIsOverWhenFinished
<1>1. IInv => LifeIsOverWhenFinished
  <2>. SUFFICES ASSUME IInv, finished > 0 PROVE LifeIsOverWhenFinished
    BY DEF LifeIsOverWhenFinished
  <2>1. status = "DISCONNECTED" /\ state \in {"none", "NOT_CONNECTED"}
    BY DEF IInv, FinishInv
  <2>2. finished # 0 /\ finished = 1 /\ finish_idles = 0
    BY DEF IInv, FinishInv
  <2>3. ~prompt /\ ~force_disconnect /\ connect_task = "none"
    BY <2>1, Zenon DEF IInv, SocketInv, QuitInv
  <2>4. ~keepalive_source
    BY <2>2, Zenon DEF IInv, KeepaliveInv
  <2>. QED
    BY <2>1, <2>2, <2>3, <2>4, Zenon DEF LifeIsOverWhenFinished
<1>. QED
  BY <1>1, InvCorrect, PTL

(* The force timer runs only after QUIT and while there is a socket.       *)
THEOREM ForceTimerCorrect == Spec => []ForceTimerHasASocket
<1>1. IInv => ForceTimerHasASocket
  BY Zenon DEF IInv, SocketInv, QuitInv, ForceTimerHasASocket
<1>. QED
  BY <1>1, InvCorrect, PTL

(* An unanswered PING is always watched by the keepalive source.           *)
THEOREM PingWatchedCorrect == Spec => []PingIsWatched
<1>1. IInv => PingIsWatched
  BY Zenon DEF IInv, KeepaliveInv, PingIsWatched
<1>. QED
  BY <1>1, InvCorrect, PTL

-----------------------------------------------------------------------------
(* Refinement.                                                             *)
LEMMA StatusInit == Init => Status!Init
BY DEF Init, Status!Init

LEMMA StatusStep ==
    TypeOK /\ IInv /\ [Next]_vars => [Status!Next]_(Status!vars)
<1>. SUFFICES ASSUME TypeOK, IInv, [Next]_vars
              PROVE  [Status!Next]_(Status!vars)
  OBVIOUS
<1>. DEFINE open == state = "CONNECTED"
<1>0. FlagType
  BY TypeSplit
<1>1. ASSUME UNCHANGED <<status, finished>>, open' <=> open
      PROVE  UNCHANGED Status!vars
  BY <1>1 DEF Status!vars
<1>2. ASSUME status # "DISCONNECTED", status' = "DISCONNECTED",
             open' => open, UNCHANGED finished
      PROVE  Status!Next
  BY <1>2 DEF Status!Next, Status!Disconnected
<1>3. CASE Connect
  <2>1. /\ status = "NEW" /\ status' = "CONNECTING" /\ ~open /\ ~open'
        /\ UNCHANGED finished
    BY <1>3, Zenon DEF Connect, start_connecting_continue, sconnVars, IInv,
                       StatusInv
  <2>. QED
    BY <2>1 DEF Status!Next, Status!Connecting
<1>4. CASE PasswordGiven
  <2>1. UNCHANGED <<status, finished>> /\ ~open /\ ~open'
    BY <1>4, Zenon DEF PasswordGiven, start_connecting_continue, IInv, SocketInv
  <2>. QED
    BY <1>1, <2>1
<1>5. CASE PasswordRefused \/ Disconnect \/ ServerError \/ NicknameRefused
  <2>1. /\ status # "DISCONNECTED" /\ status' = "DISCONNECTED"
        /\ UNCHANGED <<finished, sconnVars>>
    BY <1>5, Zenon DEF PasswordRefused, Disconnect, ServerError,
                       NicknameRefused, ChangeToDisconnected
  <2>. QED
    BY <1>2, <2>1 DEF sconnVars
<1>6. CASE ConnectSucceeds
  <2>1. state = "CONNECTING" /\ status # "DISCONNECTED"
    BY <1>6, Zenon DEF ConnectSucceeds, IInv, SocketInv, StatusInv
  <2>2. status = "CONNECTING"
    BY <1>0, <2>1, Zenon DEF FlagType, IInv, StatusInv
  <2>3. /\ UNCHANGED <<status, finished>> /\ ~open /\ open'
    BY <1>6, <2>1, Zenon DEF ConnectSucceeds
  <2>. QED
    BY <2>2, <2>3 DEF Status!Next, Status!Opens
<1>7. ASSUME sconn_disconnected_cb, ~open', UNCHANGED finished,
             status = "DISCONNECTED" /\ open => Status!Closes
      PROVE  [Status!Next]_(Status!vars)
  <2>1. status' = "DISCONNECTED"
    BY <1>7, Zenon DEF sconn_disconnected_cb, ClearConnected,
        ChangeToDisconnected
  <2>2. CASE status # "DISCONNECTED"
    BY <1>2, <1>7, <2>1, <2>2
  <2>3. CASE status = "DISCONNECTED" /\ open
    BY <1>7, <2>3 DEF Status!Next
  <2>4. CASE status = "DISCONNECTED" /\ ~open
    BY <1>1, <1>7, <2>1, <2>4
  <2>. QED
    BY <2>2, <2>3, <2>4
<1>8. CASE ConnectFails
  <2>1. /\ sconn_disconnected_cb /\ ~open /\ ~open' /\ UNCHANGED finished
    BY <1>8, Zenon DEF ConnectFails, IInv, SocketInv
  <2>. QED
    BY <1>7, <2>1
<1>9. CASE SocketCloses
  <2>1. /\ sconn_disconnected_cb /\ open /\ ~open' /\ UNCHANGED finished
        /\ status' = "DISCONNECTED"
    BY <1>9, Zenon DEF SocketCloses, Closing, sconn_disconnected_cb,
        ClearConnected,
                       ChangeToDisconnected
  <2>2. status = "DISCONNECTED" => Status!Closes
    BY <2>1 DEF Status!Closes
  <2>. QED
    BY <1>7, <2>1, <2>2
<1>10. CASE Welcome
  <2>1. /\ open /\ open' /\ UNCHANGED finished
        /\ status \in {"CONNECTING", "CONNECTED", "DISCONNECTED"}
        /\ status = "DISCONNECTED" => status' = status
        /\ status # "DISCONNECTED" => status' = "CONNECTED"
    BY <1>0, <1>10, Zenon DEF Welcome, Received, sconnVars, ChangeToConnected,
                              IInv, SocketInv, StatusInv, FlagType
  <2>2. CASE status = "CONNECTING"
    BY <2>1, <2>2 DEF Status!Next, Status!Connected
  <2>3. CASE status # "CONNECTING"
    BY <1>1, <2>1, <2>3
  <2>. QED
    BY <2>2, <2>3
<1>11. CASE FinishShutdown
  <2>1. /\ finish_idles > 0 /\ finished' = finished + 1
        /\ UNCHANGED <<status, state>>
    BY <1>11 DEF FinishShutdown, sconnVars
  <2>2. /\ finished = 0 /\ status = "DISCONNECTED" /\ ~open
    BY <2>1 DEF IInv, FinishInv
  <2>. QED
    BY <2>1, <2>2 DEF Status!Next, Status!Release
<1>12. CASE \/ ThreadReturns \/ Pong \/ PingUnknown \/ ReadEnds \/ Keepalive
            \/ ForceDisconnect \/ UNCHANGED vars
  <2>1. UNCHANGED <<status, finished, state>>
    BY <1>12, Zenon DEF ForgetPingTime, ThreadReturns, Pong, PingUnknown,
         ReadEnds, Keepalive,
         KeepaliveStops, KeepaliveWaits, KeepaliveExpires, KeepalivePings,
         ForceDisconnect, vars, shutdownVars, sconnVars
  <2>. QED
    BY <1>1, <2>1
<1>. QED
  BY <1>3, <1>4, <1>5, <1>6, <1>8, <1>9, <1>10, <1>11, <1>12, Zenon DEF Next

(* The connection keeps what ConnectionStatus promises: its steps are      *)
(* steps of that specification or change nothing it sees.                  *)
THEOREM StatusImplemented == Spec => StatusSpec
BY StatusInit, StatusStep, InvCorrect, PTL DEF Spec, StatusSpec, Status!Spec
-----------------------------------------------------------------------------
(* The link.                                                               *)
LinkStep ==
    /\ <<link, link'>> \in {<<"down", "up">>, <<"up", "closing">>,
                            <<"closing", "closed">>, <<"down", "closed">>}
    /\ sconn_connected' <=> link' \in {"up", "closing"}

(* What link says of the socket.                                           *)
LinkFacts ==
    /\ link \in {"up", "closing"} <=> state = "CONNECTED"
    /\ link = "up" <=> io_stream
    /\ link = "closing" <=> state = "CONNECTED" /\ ~io_stream
    /\ link = "down" <=> state \in {"none", "CONNECTING"}
    /\ link = "closed" <=> state = "NOT_CONNECTED"
    /\ link \in {"up", "closing", "down", "closed"}

LEMMA LinkOfSocket == FlagType /\ SocketInv => LinkFacts
<1>. SUFFICES ASSUME FlagType, SocketInv PROVE LinkFacts
  OBVIOUS
<1>1. state \in {"none", "NOT_CONNECTED", "CONNECTING", "CONNECTED"}
  BY DEF FlagType
<1>2. io_stream \in BOOLEAN /\ (io_stream => state = "CONNECTED")
  BY DEF FlagType, SocketInv
<1>3. CASE state \in {"none", "CONNECTING"}
  BY <1>2, <1>3 DEF link, LinkFacts
<1>4. CASE state = "CONNECTED" /\ io_stream
  BY <1>4 DEF link, LinkFacts
<1>5. CASE state = "CONNECTED" /\ ~io_stream
  BY <1>5 DEF link, LinkFacts
<1>6. CASE state = "NOT_CONNECTED"
  BY <1>2, <1>6 DEF link, LinkFacts
<1>. QED
  BY <1>1, <1>3, <1>4, <1>5, <1>6

(* The steps of the socket.                                                *)
Unopened == state \in {"none", "CONNECTING"}
SocketStep ==
    \/ Unopened /\ Unopened'
    \/ UNCHANGED <<state, io_stream>>
    \/ Unopened /\ state' = "CONNECTED" /\ io_stream'
    \/ Unopened /\ state' = "NOT_CONNECTED"
    \/ state = "CONNECTED" /\ io_stream /\ state' = state /\ ~io_stream'
    \/ state = "CONNECTED" /\ ~io_stream /\ state' = "NOT_CONNECTED"

LEMMA SocketSteps ==
    ASSUME TypeOK, IInv, [Next]_vars
    PROVE  SocketStep
<1>0. /\ FlagType /\ io_stream \in BOOLEAN
      /\ state = "CONNECTING" <=> connect_task # "none"
      /\ prompt => state = "none"
      /\ status = "NEW" => state = "none"
      /\ io_stream => state = "CONNECTED"
  BY TypeSplit, Zenon DEF IInv, SocketInv, StatusInv, FlagType
<1>1. CASE Connect \/ PasswordGiven
  BY <1>0, <1>1, Zenon DEF Connect, PasswordGiven, start_connecting_continue,
     sconnVars, SocketStep, Unopened
<1>2. CASE PasswordRefused \/ Disconnect \/ ServerError \/ NicknameRefused
  BY <1>2, Zenon DEF PasswordRefused, Disconnect, ServerError, NicknameRefused,
     sconnVars, SocketStep
<1>3. CASE ConnectSucceeds
  BY <1>0, <1>3 DEF ConnectSucceeds, SocketStep, Unopened
<1>4. CASE ConnectFails
  BY <1>0, <1>4 DEF ConnectFails, SocketStep, Unopened
<1>5. CASE SocketCloses
  BY <1>5, Zenon DEF SocketCloses, Closing, SocketStep
<1>6. CASE ReadEnds
  BY <1>0, <1>6 DEF ReadEnds, SocketStep
<1>7. CASE KeepaliveExpires \/ ForceDisconnect
  BY <1>0, <1>7 DEF KeepaliveExpires, ForceDisconnect, force_sconn_disconnect,
     SocketStep
<1>8. CASE \/ ThreadReturns \/ Welcome \/ Pong \/ PingUnknown
           \/ KeepaliveStops \/ KeepaliveWaits \/ KeepalivePings
           \/ FinishShutdown \/ UNCHANGED vars
  BY <1>8, Zenon DEF ThreadReturns, Welcome, Pong, PingUnknown, KeepaliveStops,
     KeepaliveWaits, KeepalivePings, FinishShutdown, vars, sconnVars, SocketStep
<1>. QED
  BY <1>1, <1>2, <1>3, <1>4, <1>5, <1>6, <1>7, <1>8, Zenon DEF Next, Keepalive

LEMMA LinkSteps ==
    TypeOK /\ IInv /\ [Next]_vars => [LinkStep]_link
<1>. SUFFICES ASSUME TypeOK, IInv, [Next]_vars, link' # link
              PROVE  LinkStep
  OBVIOUS
<1>1. FlagType /\ SocketInv /\ LinkFacts
  BY TypeSplit, LinkOfSocket DEF IInv
<1>2. FlagType' /\ SocketInv'
  BY <1>1, FlagStep, InvStep DEF IInv
<1>3. LinkFacts'
  BY <1>2, LinkOfSocket, PTL
<1>4. sconn_connected' <=> link' \in {"up", "closing"}
  BY <1>2, <1>3 DEF SocketInv, LinkFacts
<1>5. <<link, link'>> \in {<<"down", "up">>, <<"up", "closing">>,
                           <<"closing", "closed">>, <<"down", "closed">>}
  <2>1. CASE Unopened /\ Unopened'
    BY <1>1, <1>3, <2>1, Zenon DEF LinkFacts, Unopened
  <2>2. CASE UNCHANGED <<state, io_stream>>
    <3>1. link' = link
      BY <2>2 DEF link
    <3>. QED
      BY <3>1
  <2>3. CASE Unopened /\ state' = "CONNECTED" /\ io_stream'
    <3>1. link = "down" /\ link' = "up"
      BY <1>1, <1>3, <2>3, Zenon DEF LinkFacts, Unopened
    <3>. QED
      BY <3>1
  <2>4. CASE Unopened /\ state' = "NOT_CONNECTED"
    <3>1. link = "down" /\ link' = "closed"
      BY <1>1, <1>3, <2>4, Zenon DEF LinkFacts, Unopened
    <3>. QED
      BY <3>1
  <2>5. CASE state = "CONNECTED" /\ io_stream /\ state' = state /\ ~io_stream'
    <3>1. link = "up" /\ link' = "closing"
      BY <1>1, <1>3, <2>5, Zenon DEF LinkFacts
    <3>. QED
      BY <3>1
  <2>6. CASE state = "CONNECTED" /\ ~io_stream /\ state' = "NOT_CONNECTED"
    <3>1. link = "closing" /\ link' = "closed"
      BY <1>1, <1>3, <2>6, Zenon DEF LinkFacts
    <3>. QED
      BY <3>1
  <2>. QED
    BY <2>1, <2>2, <2>3, <2>4, <2>5, <2>6, SocketSteps DEF SocketStep
<1>. QED
  BY <1>4, <1>5 DEF LinkStep

(* LinkAsSendQueueAssumes: the socket is opened once, is closed by itself  *)
(* or by idle_server_connection_force_disconnect() before it is gone, and  *)
(* sconn_connected says while there is one: the environment that SendQueue *)
(* is written for.                                                         *)
THEOREM LinkCorrect == Spec => LinkAsSendQueueAssumes
<1>1. Spec => [][LinkStep]_link
  BY LinkSteps, InvCorrect, PTL DEF Spec
<1>. QED
  BY <1>1 DEF LinkAsSendQueueAssumes, LinkStep
===============================================================================
