------------------------------- MODULE ServerTls -------------------------------
(***************************************************************************)
(* How a server's certificate is judged while IdleServerConnection is      *)
(* connecting.  The connecting thread, in GLib's TLS handshake, asks the   *)
(* main loop by an idle callback and blocks on certificate_queue; the main *)
(* loop has IdleServerTLSManager put a channel with the certificate on the *)
(* bus, for a client to accept or reject, and pushes the verdict when it   *)
(* does, when it closes the channel, or when the connection goes.          *)
(*                                                                         *)
(* An action is one main loop callback or one step of the thread, which    *)
(* runs in parallel.  A certificate is the number of the request for it:   *)
(* GSocketClient tries the server's addresses one after another, each with *)
(* a handshake of its own.                                                 *)
(***************************************************************************)
EXTENDS Integers, Sequences

CONSTANT MaxCerts      \* bound on the handshakes of a connection attempt

ASSUME ServerTlsAssumption == MaxCerts \in Nat

Certs == 1 .. MaxCerts
NoCert == 0

VARIABLES
    (* the thread that runs _connect_in_thread() *)
    thread,             \* see TlsTypeOK
    asked,              \* the certificates it has asked about
    cancelled,          \* its cancellable is cancelled
    certificate_queue,  \* priv->certificate_queue: verdicts, with their cert
    judged,             \* history: the verdicts it has read, by certificate
    (* the main loop *)
    check_idle,         \* _check_certificate_interactively() is to run
    result_idles,       \* results completed in idle, by certificate
    (* IdleServerTLSManager *)
    connection,         \* priv->connection # NULL
    channel,            \* the certificate of priv->channel, or NoCert
    async_result,       \* the one priv->async_result is about, or NoCert
    completed_channels, \* those of the judged channels not yet closed
    cert_state          \* IdleTLSCertificate's cert_state

threadVars == <<thread, asked, cancelled, judged>>
managerVars == <<connection, channel, async_result, completed_channels, cert_state>>
tlsVars == <<threadVars, certificate_queue, check_idle, result_idles, managerVars>>

TlsInit ==
    /\ thread = "connecting"
    /\ asked = 0
    /\ cancelled = FALSE
    /\ certificate_queue = <<>>
    /\ judged = [c \in Certs |-> "none"]
    /\ check_idle = FALSE
    /\ result_idles = {}
    /\ connection = TRUE
    /\ channel = NoCert
    /\ async_result = NoCert
    /\ completed_channels = {}
    /\ cert_state = [c \in Certs |-> "none"]

-----------------------------------------------------------------------------
(* GSocketClient takes the next address unless it is cancelled.            *)
Handshake ==
    /\ thread = "connecting" /\ ~cancelled
    /\ thread' = "handshaking"
    /\ UNCHANGED <<asked, cancelled, judged, certificate_queue, check_idle,
                   result_idles, managerVars>>

(* _accept_certificate_request(), up to g_async_queue_pop()                *)
Ask ==
    /\ thread = "handshaking" /\ asked < MaxCerts
    /\ thread' = "waiting"
    /\ asked' = asked + 1
    /\ check_idle' = TRUE
    /\ UNCHANGED <<cancelled, judged, certificate_queue, result_idles,
                   managerVars>>

(* and from there                                                          *)
Pop ==
    /\ thread = "waiting" /\ certificate_queue # <<>>
    /\ judged' = [judged EXCEPT ![asked] = Head(certificate_queue).verdict]
    /\ certificate_queue' = Tail(certificate_queue)
    /\ thread' = IF judged'[asked] = "CERT_ACCEPTED" THEN "trusting"
                 ELSE "refusing"
    /\ UNCHANGED <<asked, cancelled, check_idle, result_idles, managerVars>>

(* A handshake ends well only with a certificate that was accepted or that *)
(* there was no reason to ask about; whatever the certificate it may fail. *)
HandshakeSucceeds ==
    /\ thread \in {"handshaking", "trusting"}
    /\ thread' = "succeeded"
    /\ UNCHANGED <<asked, cancelled, judged, certificate_queue, check_idle,
                   result_idles, managerVars>>

HandshakeFails ==
    /\ thread \in {"connecting", "handshaking", "trusting", "refusing"}
    /\ thread' \in {"connecting", "failed"}
    /\ thread' = "connecting" => thread # "connecting"
    /\ UNCHANGED <<asked, cancelled, judged, certificate_queue, check_idle,
                   result_idles, managerVars>>

-----------------------------------------------------------------------------
Verdict(cert, accepted) ==
    [cert |-> cert, verdict |-> IF accepted THEN "CERT_ACCEPTED" ELSE "CERT_REJECTED"]

(* _certificate_verified(), which completing a result calls.               *)
certificate_verified(cert, accepted) ==
    certificate_queue' = Append(certificate_queue, Verdict(cert, accepted))

(* complete_verify(), its channel being ch: it is kept until a client      *)
(* closes it, unless it just was.                                          *)
LeavesResult == UNCHANGED async_result
ClearsResult == async_result' = NoCert

KeepsAnyway(ch) == completed_channels' = completed_channels \cup {ch}
KeepChannel(ch) == completed_channels' = completed_channels \cup ({ch} \ {NoCert})

complete_verify(ch, accepted) ==
    /\ KeepChannel(ch)
    /\ certificate_verified(async_result, accepted)
    /\ channel' = NoCert
    /\ ClearsResult

(* _check_certificate_interactively() -> idle_server_tls_manager_verify_async() *)
FailsAtOnce(cert) == result_idles' = result_idles \cup {cert}

CheckInteractively ==
    /\ check_idle
    /\ check_idle' = FALSE
    /\ async_result = NoCert
    /\ \/ /\ ~connection
          /\ FailsAtOnce(asked)
          /\ UNCHANGED <<channel, async_result, cert_state>>
       \/ /\ connection
          /\ async_result' = asked
          /\ channel' = asked
          /\ cert_state' = [cert_state EXCEPT ![asked] = "PENDING"]
          /\ UNCHANGED result_idles
    /\ UNCHANGED <<threadVars, certificate_queue, connection, completed_channels>>

(* A result with the error "already been disconnected" is delivered.       *)
ResultIdle(cert) ==
    /\ result_idles' = result_idles \ {cert}
    /\ certificate_verified(cert, FALSE)
    /\ UNCHANGED <<threadVars, check_idle, managerVars>>

(* The certificates that are on the bus: each lives as long as its channel.*)
OnTheBus == ({channel} \ {NoCert}) \cup completed_channels

(* idle_tls_certificate_accept() -> tls_certificate_accepted_cb(), and     *)
(* idle_tls_certificate_reject() -> tls_certificate_rejected_cb(): any     *)
(* certificate on the bus may be judged, but only once.                    *)
JudgedTwice(cert) == cert_state[cert] # "none"
MayJudge(cert) == cert_state[cert] = "PENDING"

Accept(cert) ==
    /\ cert \in OnTheBus /\ MayJudge(cert)
    /\ cert_state' = [cert_state EXCEPT ![cert] = "ACCEPTED"]
    /\ complete_verify(channel, TRUE)
    /\ UNCHANGED <<threadVars, check_idle, result_idles, connection>>

Reject(cert) ==
    /\ cert \in OnTheBus /\ MayJudge(cert)
    /\ cert_state' = [cert_state EXCEPT ![cert] = "REJECTED"]
    /\ complete_verify(channel, FALSE)
    /\ UNCHANGED <<threadVars, check_idle, result_idles, connection>>

(* server_tls_channel_closed_cb(), when a client closes a channel.         *)
Close(cert) ==
    /\ cert \in OnTheBus
    /\ \/ /\ cert = channel
          /\ complete_verify(NoCert, FALSE)
       \/ /\ cert # channel
          /\ completed_channels' = completed_channels \ {cert}
          /\ UNCHANGED <<certificate_queue, channel, async_result>>
    /\ UNCHANGED <<threadVars, check_idle, result_idles, connection, cert_state>>

(* The connection's status changes to DISCONNECTED: close_all() closes the *)
(* channel under judgement, then the others, and in the same callback the  *)
(* attempt is cancelled.                                                   *)
ClosesCompletedOnly == UNCHANGED <<channel, async_result, certificate_queue>>
CloseCurrent ==
    \/ /\ channel # NoCert
       /\ certificate_verified(async_result, FALSE)
       /\ channel' = NoCert
       /\ async_result' = NoCert
    \/ /\ channel = NoCert
       /\ UNCHANGED <<channel, async_result, certificate_queue>>

ClosesOne == \E c \in completed_channels \cup {NoCert} :
                completed_channels' = completed_channels \ {c}
CloseCompleted == completed_channels' = {}

Disconnected ==
    /\ connection
    /\ CloseCurrent
    /\ CloseCompleted
    /\ connection' = FALSE
    /\ cancelled' = TRUE
    /\ UNCHANGED <<thread, asked, judged, check_idle, result_idles, cert_state>>

TlsNext ==
    \/ Handshake \/ Ask \/ Pop \/ HandshakeSucceeds \/ HandshakeFails
    \/ CheckInteractively
    \/ \E c \in result_idles : ResultIdle(c)
    \/ \E c \in Certs : Accept(c) \/ Reject(c) \/ Close(c)
    \/ Disconnected

TlsSpec == TlsInit /\ [][TlsNext]_tlsVars

(* The main loop runs its idles, and the thread goes on when it may, its   *)
(* network operations ending once they are cancelled.  No client is        *)
(* obliged to judge a certificate.                                         *)
TlsFairness ==
    /\ WF_tlsVars(CheckInteractively)
    /\ WF_tlsVars(\E c \in result_idles : ResultIdle(c))
    /\ WF_tlsVars(Pop)
    /\ WF_tlsVars(cancelled /\ (HandshakeSucceeds \/ HandshakeFails))

TlsFairSpec == TlsSpec /\ TlsFairness

-----------------------------------------------------------------------------
(* Every variable has its type.                                            *)
TlsTypeOK ==
    /\ thread \in {"connecting", "handshaking", "waiting", "trusting",
                   "refusing", "succeeded", "failed"}
    /\ asked \in 0 .. MaxCerts
    /\ cancelled \in BOOLEAN
    /\ certificate_queue \in
           Seq([cert : Certs, verdict : {"CERT_ACCEPTED", "CERT_REJECTED"}])
    /\ judged \in [Certs -> {"none", "CERT_ACCEPTED", "CERT_REJECTED"}]
    /\ check_idle \in BOOLEAN
    /\ result_idles \subseteq Certs
    /\ connection \in BOOLEAN
    /\ channel \in Certs \cup {NoCert}
    /\ async_result \in Certs \cup {NoCert}
    /\ completed_channels \subseteq Certs
    /\ cert_state \in [Certs -> {"none", "PENDING", "ACCEPTED", "REJECTED"}]

(* A request is in one place at a time, from the idle that carries it to   *)
(* the verdict in the queue, and only while the thread waits for it: no    *)
(* verdict is left over for another certificate, and                       *)
(* g_return_if_fail(async_result == NULL) never drops a request.           *)
OneRequest ==
    LET queued == {certificate_queue[i].cert : i \in DOMAIN certificate_queue}
        places == << IF check_idle THEN 1 ELSE 0,
                     IF async_result # NoCert THEN 1 ELSE 0,
                     IF result_idles # {} THEN 1 ELSE 0,
                     Len(certificate_queue) >>
    IN  /\ places[1] + places[2] + places[3] + places[4]
               = IF thread = "waiting" THEN 1 ELSE 0
        /\ queued \cup result_idles \cup ({async_result} \ {NoCert}) \subseteq {asked}

(* The thread goes on with a certificate only if a client accepted that    *)
(* one, and then has not found it rejected: the verdict read is the        *)
(* client's.                                                               *)
VerdictIsTheClients ==
    \A c \in Certs :
        /\ judged[c] = "CERT_ACCEPTED" => cert_state[c] = "ACCEPTED"
        /\ cert_state[c] = "ACCEPTED" => judged[c] # "CERT_REJECTED"

(* A certificate that may still be judged is that of the channel under     *)
(* judgement, so that complete_verify() completes the right result.        *)
PendingIsCurrent ==
    /\ \A c \in OnTheBus : cert_state[c] = "PENDING" <=> c = channel
    /\ channel = async_result

(* After the connection went no channel is left on the bus, and none comes *)
(* although the thread may have asked already.                             *)
NoChannelOutlives == ~connection => OnTheBus = {}
===============================================================================
