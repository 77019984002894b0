--------------------------- MODULE ConnectionStatus ---------------------------
(***************************************************************************)
(* What a connection promises the connection manager above it: its status  *)
(* only moves forward, the socket is opened at most once and only while    *)
(* connecting, a client sees CONNECTED only with an open socket, and       *)
(* tp_base_connection_finish_shutdown() is called at most once, when the   *)
(* connection is DISCONNECTED and its socket closed.                       *)
(***************************************************************************)
VARIABLES status, socket_open, released

vars == <<status, socket_open, released>>

Init ==
    /\ status = "NEW"
    /\ socket_open = FALSE
    /\ released = FALSE

Connecting ==
    /\ status = "NEW"
    /\ status' = "CONNECTING"
    /\ UNCHANGED <<socket_open, released>>

Opens ==
    /\ status = "CONNECTING" /\ ~socket_open
    /\ socket_open' = TRUE
    /\ UNCHANGED <<status, released>>

Connected ==
    /\ status = "CONNECTING" /\ socket_open
    /\ status' = "CONNECTED"
    /\ UNCHANGED <<socket_open, released>>

(* On request, on an error, or because the socket goes.                    *)
Disconnected ==
    /\ status # "DISCONNECTED"
    /\ status' = "DISCONNECTED"
    /\ socket_open' => socket_open
    /\ socket_open' \in BOOLEAN
    /\ UNCHANGED released

Closes ==
    /\ status = "DISCONNECTED" /\ socket_open
    /\ socket_open' = FALSE
    /\ UNCHANGED <<status, released>>

Release ==
    /\ status = "DISCONNECTED" /\ ~socket_open /\ ~released
    /\ released' = TRUE
    /\ UNCHANGED <<status, socket_open>>

Next ==
    \/ Connecting \/ Opens \/ Connected \/ Disconnected \/ Closes \/ Release

Spec == Init /\ [][Next]_vars
===============================================================================
