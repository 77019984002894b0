---------------------------- MODULE ServerTlsProofs ----------------------------
(* Theorems about ServerTls: its safety properties for any number of       *)
(* handshakes.                                                             *)
EXTENDS ServerTls, TLAPS

Verdicts == [cert : Certs, verdict : {"CERT_ACCEPTED", "CERT_REJECTED"}]

(* Where the request the thread waits for can be: one disjunct each.       *)
Nowhere ==
    ~check_idle /\ async_result = NoCert /\ result_idles = {}
                /\ certificate_queue = <<>>

InCheckIdle ==
    check_idle /\ async_result = NoCert /\ result_idles = {}
               /\ certificate_queue = <<>>

InManager ==
    ~check_idle /\ async_result = asked /\ result_idles = {}
                /\ certificate_queue = <<>>

InResultIdle ==
    ~check_idle /\ async_result = NoCert /\ result_idles = {asked}
                /\ certificate_queue = <<>>

InQueue ==
    /\ ~check_idle /\ async_result = NoCert /\ result_idles = {}
    /\ \E v \in Verdicts : certificate_queue = <<v>> /\ v.cert = asked

PlaceInv ==
    /\ thread = "waiting" =>
          asked # 0 /\ (InCheckIdle \/ InManager \/ InResultIdle \/ InQueue)
    /\ thread # "waiting" => Nowhere

(* What a client has said, what the queue says and what the thread read.   *)
JudgeInv ==
    /\ \A c \in Certs : cert_state[c] # "none" \/ judged[c] # "none" => c <= asked
    /\ \A c \in Certs : judged[c] = "CERT_ACCEPTED" => cert_state[c] = "ACCEPTED"
    /\ \A c \in Certs : cert_state[c] = "ACCEPTED" => judged[c] # "CERT_REJECTED"
    /\ thread = "waiting" => judged[asked] = "none"
    /\ check_idle => cert_state[asked] = "none"
    /\ result_idles # {} => cert_state[asked] = "none"
    /\ certificate_queue # <<>> =>
          (Head(certificate_queue).verdict = "CERT_ACCEPTED"
               <=> cert_state[asked] = "ACCEPTED")

ChannelInv ==
    /\ channel = async_result
    /\ channel # NoCert => cert_state[channel] = "PENDING" /\ connection
    /\ completed_channels # {} => connection
    /\ \A c \in completed_channels : cert_state[c] \in {"ACCEPTED", "REJECTED"}

TlsInv == TlsTypeOK /\ PlaceInv /\ JudgeInv /\ ChannelInv

-----------------------------------------------------------------------------
LEMMA CertsFacts == NoCert \notin Certs /\ Certs \subseteq Nat
  BY ServerTlsAssumption DEF Certs, NoCert

LEMMA TlsInitInv == TlsInit => TlsInv
  <1>. USE CertsFacts, ServerTlsAssumption
  <1>1. TlsInit => TlsTypeOK
    <2>. SUFFICES ASSUME TlsInit PROVE TlsTypeOK
      OBVIOUS
    <2>1. /\ judged \in [Certs -> {"none", "CERT_ACCEPTED", "CERT_REJECTED"}]
          /\ cert_state \in [Certs -> {"none", "PENDING", "ACCEPTED", "REJECTED"}]
      BY DEF TlsInit
    <2>2. certificate_queue \in Seq(Verdicts)
      BY DEF TlsInit
    <2>3. asked = 0 /\ 0 \in 0 .. MaxCerts
      BY DEF TlsInit
    <2>4. /\ channel \in Certs \cup {NoCert} /\ async_result \in Certs \cup {NoCert}
          /\ result_idles \subseteq Certs /\ completed_channels \subseteq Certs
      BY DEF TlsInit
    <2>5. thread = "connecting"
      BY DEF TlsInit
    <2>6. /\ check_idle \in BOOLEAN /\ connection \in BOOLEAN
          /\ cancelled \in BOOLEAN
      BY Zenon DEF TlsInit
    <2>. QED
      BY <2>1, <2>2, <2>3, <2>4, <2>5, <2>6 DEF TlsTypeOK, Verdicts
  <1>2. TlsInit => PlaceInv
    BY DEF TlsInit, PlaceInv, Nowhere
  <1>3. TlsInit => JudgeInv /\ ChannelInv
    BY DEF TlsInit, JudgeInv, ChannelInv
  <1>. QED
    BY <1>1, <1>2, <1>3 DEF TlsInv

(* The thread's steps between its requests touch nothing of the rest.      *)
LEMMA ThreadInv ==
    ASSUME TlsInv, Handshake \/ HandshakeSucceeds \/ HandshakeFails
    PROVE  TlsInv'
  <1>1. /\ thread # "waiting" /\ thread' # "waiting"
        /\ thread' \in {"connecting", "handshaking", "succeeded", "failed"}
        /\ UNCHANGED <<asked, cancelled, judged, certificate_queue, check_idle,
                       result_idles, managerVars>>
    BY DEF Handshake, HandshakeSucceeds, HandshakeFails
  <1>2. TlsTypeOK'
    BY <1>1 DEF TlsInv, TlsTypeOK, managerVars
  <1>3. PlaceInv'
    BY <1>1 DEF TlsInv, PlaceInv, Nowhere, managerVars
  <1>4. JudgeInv' /\ ChannelInv'
    BY <1>1 DEF TlsInv, JudgeInv, ChannelInv, managerVars
  <1>. QED
    BY <1>2, <1>3, <1>4 DEF TlsInv

LEMMA AskInv == ASSUME TlsInv, Ask PROVE TlsInv'
  <1>. USE CertsFacts, ServerTlsAssumption
  <1>1. asked' \in Certs /\ asked' = asked + 1 /\ asked \in Nat
    BY DEF TlsInv, TlsTypeOK, Ask, Certs
  <1>2. TlsTypeOK'
    BY <1>1 DEF TlsInv, TlsTypeOK, Ask, managerVars, Certs
  <1>3. Nowhere
    BY DEF TlsInv, PlaceInv, Ask
  <1>4. PlaceInv'
    BY <1>1, <1>3 DEF PlaceInv, Nowhere, InCheckIdle, Ask, managerVars
  <1>5. JudgeInv'
    <2>1. \A c \in Certs : c <= asked => c <= asked'
      BY <1>1
    <2>2. cert_state[asked'] = "none" /\ judged[asked'] = "none"
      BY <1>1 DEF TlsInv, JudgeInv
    <2>. QED
      BY <1>1, <1>3, <2>1, <2>2 DEF TlsInv, JudgeInv, Nowhere, Ask, managerVars
  <1>6. ChannelInv'
    BY DEF TlsInv, ChannelInv, Ask, managerVars
  <1>. QED
    BY <1>2, <1>4, <1>5, <1>6 DEF TlsInv

LEMMA PopInv == ASSUME TlsInv, Pop PROVE TlsInv'
  <1>. USE CertsFacts
  <1>1. PICK v \in Verdicts : certificate_queue = <<v>> /\ v.cert = asked
    BY DEF TlsInv, PlaceInv, Pop, InCheckIdle, InManager, InResultIdle, InQueue
  <1>2. /\ Head(certificate_queue) = v /\ Tail(certificate_queue) = <<>>
        /\ v.verdict \in {"CERT_ACCEPTED", "CERT_REJECTED"} /\ asked \in Certs
    BY <1>1 DEF Verdicts
  <1>3. ~check_idle /\ async_result = NoCert /\ result_idles = {}
    BY <1>1 DEF TlsInv, PlaceInv, Pop, InCheckIdle, InManager, InResultIdle, InQueue
  <1>4. /\ judged' = [judged EXCEPT ![asked] = v.verdict]
        /\ certificate_queue' = <<>>
        /\ thread' \in {"trusting", "refusing"}
        /\ UNCHANGED <<asked, cancelled, check_idle, result_idles, managerVars>>
    BY <1>2 DEF Pop
  <1>5. TlsTypeOK'
    BY <1>2, <1>4 DEF TlsInv, TlsTypeOK, managerVars
  <1>6. PlaceInv'
    BY <1>3, <1>4 DEF PlaceInv, Nowhere, managerVars
  <1>7. JudgeInv'
    <2>1. v.verdict = "CERT_ACCEPTED" <=> cert_state[asked] = "ACCEPTED"
      BY <1>1, <1>2 DEF TlsInv, JudgeInv
    <2>2. \A c \in Certs : judged'[c] = IF c = asked THEN v.verdict ELSE judged[c]
      BY <1>4 DEF TlsInv, TlsTypeOK
    <2>3. asked <= asked
      BY <1>2
    <2>. QED
      BY <1>2, <1>3, <1>4, <2>1, <2>2, <2>3 DEF TlsInv, JudgeInv, managerVars
  <1>8. ChannelInv'
    BY <1>4 DEF TlsInv, ChannelInv, managerVars
  <1>. QED
    BY <1>5, <1>6, <1>7, <1>8 DEF TlsInv

-----------------------------------------------------------------------------
LEMMA CheckInv == ASSUME TlsInv, CheckInteractively PROVE TlsInv'
  <1>. USE CertsFacts
  <1>1. thread = "waiting" /\ InCheckIdle /\ asked \in Certs
    BY DEF TlsInv, TlsTypeOK, PlaceInv, CheckInteractively, Nowhere, InCheckIdle,
           InManager, InResultIdle, InQueue, Certs
  <1>2. /\ check_idle' = FALSE
        /\ UNCHANGED <<threadVars, certificate_queue, connection,
                       completed_channels>>
    BY DEF CheckInteractively
  <1>3. CASE /\ ~connection /\ FailsAtOnce(asked)
             /\ UNCHANGED <<channel, async_result, cert_state>>
    <2>1. result_idles' = {asked}
      BY <1>1, <1>3 DEF FailsAtOnce, InCheckIdle
    <2>2. TlsTypeOK'
      BY <1>1, <1>2, <1>3, <2>1 DEF TlsInv, TlsTypeOK, threadVars
    <2>3. PlaceInv'
      BY <1>1, <1>2, <1>3, <2>1
      DEF TlsInv, PlaceInv, InCheckIdle, InResultIdle, threadVars
    <2>4. JudgeInv' /\ ChannelInv'
      BY <1>1, <1>2, <1>3 DEF TlsInv, JudgeInv, ChannelInv, InCheckIdle, threadVars
    <2>. QED
      BY <2>2, <2>3, <2>4 DEF TlsInv
  <1>4. CASE /\ connection /\ async_result' = asked /\ channel' = asked
             /\ cert_state' = [cert_state EXCEPT ![asked] = "PENDING"]
             /\ UNCHANGED result_idles
    <2>1. TlsTypeOK'
      BY <1>1, <1>2, <1>4 DEF TlsInv, TlsTypeOK, threadVars
    <2>2. PlaceInv'
      BY <1>1, <1>2, <1>4 DEF TlsInv, PlaceInv, InCheckIdle, InManager, threadVars
    <2>3. /\ \A c \in Certs : c # asked => cert_state'[c] = cert_state[c]
          /\ cert_state'[asked] = "PENDING" /\ cert_state[asked] = "none"
      BY <1>1, <1>4 DEF TlsInv, TlsTypeOK, JudgeInv, InCheckIdle
    <2>4. JudgeInv'
      <3>1. asked <= asked
        BY <1>1
      <3>. QED
        BY <1>1, <1>2, <1>4, <2>3, <3>1 DEF TlsInv, JudgeInv, InCheckIdle, threadVars
    <2>5. ChannelInv'
      BY <1>1, <1>2, <1>4, <2>3 DEF TlsInv, TlsTypeOK, ChannelInv, threadVars
    <2>. QED
      BY <2>1, <2>2, <2>4, <2>5 DEF TlsInv
  <1>. QED
    BY <1>3, <1>4 DEF CheckInteractively

LEMMA ResultIdleInv ==
    ASSUME TlsInv, NEW c \in result_idles, ResultIdle(c)
    PROVE  TlsInv'
  <1>. USE CertsFacts
  <1>1. thread = "waiting" /\ InResultIdle /\ asked \in Certs /\ c = asked
    BY DEF TlsInv, TlsTypeOK, PlaceInv, Nowhere, InCheckIdle, InManager,
           InResultIdle, InQueue
  <1>. DEFINE v == [cert |-> asked, verdict |-> "CERT_REJECTED"]
  <1>2. v \in Verdicts /\ v.cert = asked /\ v.verdict = "CERT_REJECTED"
    BY <1>1 DEF Verdicts
  <1>3. /\ certificate_queue' = <<v>> /\ result_idles' = {}
        /\ UNCHANGED <<threadVars, check_idle, managerVars>>
    BY <1>1 DEF ResultIdle, certificate_verified, Verdict, InResultIdle
  <1>4. certificate_queue' \in Seq(Verdicts) /\ Head(certificate_queue') = v
    BY <1>2, <1>3
  <1>. HIDE DEF v
  <1>5. TlsTypeOK'
    BY <1>3, <1>4 DEF TlsInv, TlsTypeOK, threadVars, managerVars, Verdicts
  <1>6. PlaceInv'
    <2>1. InQueue'
      BY <1>1, <1>2, <1>3
      DEF InQueue, InResultIdle, threadVars, managerVars, Verdicts
    <2>. QED
      BY <1>1, <1>3, <2>1 DEF TlsInv, PlaceInv, threadVars
  <1>7. JudgeInv'
    BY <1>1, <1>2, <1>3, <1>4 DEF TlsInv, JudgeInv, threadVars, managerVars
  <1>8. ChannelInv'
    BY <1>3 DEF TlsInv, ChannelInv, threadVars, managerVars
  <1>. QED
    BY <1>5, <1>6, <1>7, <1>8 DEF TlsInv

-----------------------------------------------------------------------------
(* What completing the result under way with a verdict does, whoever does  *)
(* it: the request moves to the queue.                                     *)
LEMMA CompleteInv ==
    ASSUME TlsInv, async_result # NoCert, NEW accepted \in BOOLEAN,
           certificate_verified(async_result, accepted),
           async_result' = NoCert, UNCHANGED <<threadVars, check_idle, result_idles>>
    PROVE  /\ thread = "waiting" /\ asked \in Certs /\ async_result = asked
           /\ ~check_idle /\ result_idles = {}
           /\ PlaceInv'
           /\ certificate_queue' \in Seq(Verdicts)
           /\ Head(certificate_queue').verdict = "CERT_ACCEPTED" <=> accepted
  <1>. USE CertsFacts
  <1>1. thread = "waiting" /\ InManager /\ asked \in Certs
    BY DEF TlsInv, TlsTypeOK, PlaceInv, Nowhere, InCheckIdle, InManager,
           InResultIdle, InQueue
  <1>. DEFINE v == Verdict(asked, accepted)
  <1>2. /\ v \in Verdicts /\ v.cert = asked
        /\ v.verdict = "CERT_ACCEPTED" <=> accepted
    BY <1>1 DEF Verdicts, Verdict
  <1>3. certificate_queue' = <<v>>
    BY <1>1 DEF certificate_verified, InManager
  <1>. HIDE DEF v
  <1>4. certificate_queue' \in Seq(Verdicts) /\ Head(certificate_queue') = v
    BY <1>2, <1>3
  <1>5. InQueue'
    BY <1>1, <1>2, <1>3 DEF InQueue, InManager, threadVars, Verdicts
  <1>6. PlaceInv'
    BY <1>1, <1>5 DEF TlsInv, PlaceInv, threadVars
  <1>. QED
    BY <1>1, <1>2, <1>4, <1>6 DEF InManager

(* A client judges the certificate: it is the one under judgement.         *)
LEMMA VerdictInv ==
    ASSUME TlsInv, NEW cert \in Certs, NEW accepted \in BOOLEAN,
           cert \in OnTheBus, MayJudge(cert),
           cert_state' = [cert_state EXCEPT
                             ![cert] = IF accepted THEN "ACCEPTED" ELSE "REJECTED"],
           complete_verify(channel, accepted),
           UNCHANGED <<threadVars, check_idle, result_idles, connection>>
    PROVE  TlsInv'
  <1>. USE CertsFacts
  <1>1. cert = channel /\ cert = async_result /\ async_result # NoCert
    BY DEF TlsInv, ChannelInv, OnTheBus, MayJudge
  <1>2. /\ completed_channels' = completed_channels \cup {cert}
        /\ certificate_verified(async_result, accepted)
        /\ channel' = NoCert /\ async_result' = NoCert
    BY <1>1 DEF complete_verify, KeepChannel, ClearsResult
  <1>3. /\ thread = "waiting" /\ asked \in Certs /\ cert = asked
        /\ ~check_idle /\ result_idles = {} /\ PlaceInv'
        /\ certificate_queue' \in Seq(Verdicts)
        /\ Head(certificate_queue').verdict = "CERT_ACCEPTED" <=> accepted
    BY <1>1, <1>2, CompleteInv
  <1>4. /\ \A c \in Certs : c # cert => cert_state'[c] = cert_state[c]
        /\ cert_state'[cert] = IF accepted THEN "ACCEPTED" ELSE "REJECTED"
    BY DEF TlsInv, TlsTypeOK
  <1>5. TlsTypeOK'
    BY <1>2, <1>3 DEF TlsInv, TlsTypeOK, threadVars, Verdicts
  <1>6. JudgeInv'
    <2>1. asked <= asked
      BY <1>3
    <2>2. /\ thread' = thread /\ asked' = asked /\ judged' = judged
          /\ check_idle' = check_idle /\ result_idles' = result_idles
      BY DEF threadVars
    <2>3. judged[cert] = "none"
      BY <1>3 DEF TlsInv, JudgeInv
    <2>4. Head(certificate_queue').verdict = "CERT_ACCEPTED"
             <=> cert_state'[asked'] = "ACCEPTED"
      BY <1>3, <1>4, <2>2
    <2>. QED
      BY <1>3, <1>4, <2>1, <2>2, <2>3, <2>4 DEF TlsInv, JudgeInv
  <1>7. ChannelInv'
    BY <1>1, <1>2, <1>4 DEF TlsInv, ChannelInv
  <1>. QED
    BY <1>3, <1>5, <1>6, <1>7 DEF TlsInv

(* The certificate's channel is closed before it was judged.               *)
LEMMA UnjudgedInv ==
    ASSUME TlsInv, channel # NoCert,
           certificate_verified(async_result, FALSE),
           channel' = NoCert, async_result' = NoCert,
           completed_channels' \subseteq completed_channels,
           connection' \in BOOLEAN, cancelled' \in BOOLEAN,
           completed_channels' # {} => connection',
           UNCHANGED <<thread, asked, judged, check_idle, result_idles, cert_state>>
    PROVE  TlsInv'
  <1>. USE CertsFacts
  <1>1. thread = "waiting" /\ InManager /\ asked \in Certs /\ channel = asked
    BY DEF TlsInv, TlsTypeOK, PlaceInv, ChannelInv, Nowhere, InCheckIdle, InManager,
           InResultIdle, InQueue
  <1>. DEFINE v == [cert |-> asked, verdict |-> "CERT_REJECTED"]
  <1>2. v \in Verdicts /\ v.cert = asked /\ v.verdict = "CERT_REJECTED"
    BY <1>1 DEF Verdicts
  <1>3. certificate_queue' = <<v>>
    BY <1>1 DEF certificate_verified, Verdict, InManager
  <1>. HIDE DEF v
  <1>4. certificate_queue' \in Seq(Verdicts) /\ Head(certificate_queue') = v
    BY <1>2, <1>3
  <1>5. TlsTypeOK'
    BY <1>4 DEF TlsInv, TlsTypeOK, Verdicts
  <1>6. PlaceInv'
    <2>1. InQueue'
      BY <1>1, <1>2, <1>3 DEF InQueue, InManager, Verdicts
    <2>. QED
      BY <1>1, <2>1 DEF TlsInv, PlaceInv
  <1>7. JudgeInv'
    <2>1. cert_state[asked] = "PENDING"
      BY <1>1 DEF TlsInv, ChannelInv
    <2>. QED
      BY <1>1, <1>2, <1>4, <2>1 DEF TlsInv, JudgeInv, InManager
  <1>8. ChannelInv'
    BY DEF TlsInv, ChannelInv
  <1>. QED
    BY <1>5, <1>6, <1>7, <1>8 DEF TlsInv

LEMMA CloseInv == ASSUME TlsInv, NEW cert \in Certs, Close(cert) PROVE TlsInv'
  <1>. USE CertsFacts
  <1>1. CASE cert = channel
    <2>1. cert \notin completed_channels /\ connection
      BY <1>1 DEF TlsInv, ChannelInv
    <2>2. /\ completed_channels' = completed_channels
          /\ certificate_verified(async_result, FALSE)
          /\ channel' = NoCert /\ async_result' = NoCert
          /\ UNCHANGED <<threadVars, check_idle, result_idles, connection, cert_state>>
      BY <1>1 DEF Close, complete_verify, KeepChannel, ClearsResult
    <2>3. channel # NoCert
      BY <1>1
    <2>. QED
      BY <2>1, <2>2, <2>3, UnjudgedInv DEF TlsInv, TlsTypeOK, threadVars
  <1>2. CASE cert # channel
    <2>1. /\ completed_channels' = completed_channels \ {cert}
          /\ UNCHANGED <<certificate_queue, channel, async_result, threadVars,
                         check_idle, result_idles, connection, cert_state>>
      BY <1>2 DEF Close
    <2>2. TlsTypeOK' /\ ChannelInv'
      BY <2>1 DEF TlsInv, TlsTypeOK, ChannelInv, threadVars
    <2>3. PlaceInv'
      BY <2>1 DEF TlsInv, PlaceInv, Nowhere, InCheckIdle, InManager, InResultIdle,
                  InQueue, Verdicts, threadVars
    <2>4. JudgeInv'
      BY <2>1 DEF TlsInv, JudgeInv, threadVars
    <2>. QED
      BY <2>2, <2>3, <2>4 DEF TlsInv
  <1>. QED
    BY <1>1, <1>2

LEMMA DisconnectedInv == ASSUME TlsInv, Disconnected PROVE TlsInv'
  <1>. USE CertsFacts
  <1>1. /\ completed_channels' = {} /\ connection' = FALSE /\ cancelled' = TRUE
        /\ UNCHANGED <<thread, asked, judged, check_idle, result_idles, cert_state>>
    BY DEF Disconnected, CloseCompleted
  <1>2. CASE channel # NoCert
    <2>1. /\ certificate_verified(async_result, FALSE)
          /\ channel' = NoCert /\ async_result' = NoCert
      BY <1>2 DEF Disconnected, CloseCurrent
    <2>. QED
      BY <1>1, <1>2, <2>1, UnjudgedInv
  <1>3. CASE channel = NoCert
    <2>1. UNCHANGED <<channel, async_result, certificate_queue>>
      BY <1>3 DEF Disconnected, CloseCurrent
    <2>2. TlsTypeOK' /\ ChannelInv'
      BY <1>1, <1>3, <2>1 DEF TlsInv, TlsTypeOK, ChannelInv
    <2>3. PlaceInv'
      BY <1>1, <2>1 DEF TlsInv, PlaceInv, Nowhere, InCheckIdle, InManager,
                        InResultIdle, InQueue, Verdicts
    <2>4. JudgeInv'
      BY <1>1, <2>1 DEF TlsInv, JudgeInv
    <2>. QED
      BY <2>2, <2>3, <2>4 DEF TlsInv
  <1>. QED
    BY <1>2, <1>3

-----------------------------------------------------------------------------
LEMMA TlsNextInv == ASSUME TlsInv, [TlsNext]_tlsVars PROVE TlsInv'
  <1>1. CASE Handshake \/ HandshakeSucceeds \/ HandshakeFails
    BY <1>1, ThreadInv
  <1>2. CASE Ask
    BY <1>2, AskInv
  <1>3. CASE Pop
    BY <1>3, PopInv
  <1>4. CASE CheckInteractively
    BY <1>4, CheckInv
  <1>5. ASSUME NEW c \in result_idles, ResultIdle(c) PROVE TlsInv'
    BY <1>5, ResultIdleInv
  <1>6. ASSUME NEW c \in Certs, Accept(c) PROVE TlsInv'
    BY <1>6, VerdictInv DEF Accept
  <1>7. ASSUME NEW c \in Certs, Reject(c) PROVE TlsInv'
    BY <1>7, VerdictInv DEF Reject
  <1>8. ASSUME NEW c \in Certs, Close(c) PROVE TlsInv'
    BY <1>8, CloseInv
  <1>9. CASE Disconnected
    BY <1>9, DisconnectedInv
  <1>10. CASE UNCHANGED tlsVars
    <2>1. UNCHANGED <<threadVars, certificate_queue, check_idle, result_idles,
                      managerVars>>
      BY <1>10 DEF tlsVars
    <2>2. TlsTypeOK' /\ ChannelInv'
      BY <2>1 DEF TlsInv, TlsTypeOK, ChannelInv, threadVars, managerVars
    <2>3. PlaceInv'
      BY <2>1 DEF TlsInv, PlaceInv, Nowhere, InCheckIdle, InManager, InResultIdle,
                  InQueue, Verdicts, threadVars, managerVars
    <2>4. JudgeInv'
      BY <2>1 DEF TlsInv, JudgeInv, threadVars, managerVars
    <2>. QED
      BY <2>2, <2>3, <2>4 DEF TlsInv
  <1>. QED
    BY <1>1, <1>2, <1>3, <1>4, <1>5, <1>6, <1>7, <1>8, <1>9, <1>10 DEF TlsNext

THEOREM TlsInductive == TlsSpec => []TlsInv
  BY TlsInitInv, TlsNextInv, PTL DEF TlsSpec

(* Every variable has its type.                                            *)
THEOREM TlsTypeCorrect == TlsSpec => []TlsTypeOK
  <1>1. TlsInv => TlsTypeOK
    BY DEF TlsInv
  <1>. QED
    BY <1>1, TlsInductive, PTL

(* The thread's request is in exactly one place while it waits, and none   *)
(* or a verdict is left over when it does not.                             *)
THEOREM OneRequestCorrect == TlsSpec => []OneRequest
  <1>1. TlsInv => OneRequest
    <2>. SUFFICES ASSUME TlsInv PROVE OneRequest
      OBVIOUS
    <2>1. CASE Nowhere /\ thread # "waiting"
      BY <2>1 DEF OneRequest, Nowhere
    <2>2. CASE thread = "waiting" /\ asked # 0 /\ InCheckIdle
      BY <2>2 DEF OneRequest, InCheckIdle
    <2>3. CASE thread = "waiting" /\ asked # 0 /\ InManager
      <3>1. /\ Len(certificate_queue) = 0 /\ DOMAIN certificate_queue = {}
            /\ async_result # NoCert /\ ~check_idle /\ result_idles = {}
        BY <2>3 DEF InManager, NoCert
      <3>2. {async_result} \ {NoCert} = {asked}
        BY <2>3, <3>1 DEF InManager
      <3>3. {certificate_queue[i].cert : i \in DOMAIN certificate_queue} = {}
        BY <3>1
      <3>. QED
        BY <2>3, <3>1, <3>2, <3>3 DEF OneRequest
    <2>4. CASE thread = "waiting" /\ asked # 0 /\ InResultIdle
      BY <2>4 DEF OneRequest, InResultIdle
    <2>5. CASE thread = "waiting" /\ asked # 0 /\ InQueue
      <3>1. PICK v \in Verdicts : certificate_queue = <<v>> /\ v.cert = asked
        BY <2>5 DEF InQueue
      <3>2. /\ Len(certificate_queue) = 1 /\ DOMAIN certificate_queue = {1}
            /\ certificate_queue[1] = v
        BY <3>1
      <3>. QED
        BY <2>5, <3>1, <3>2 DEF OneRequest, InQueue
    <2>. QED
      BY <2>1, <2>2, <2>3, <2>4, <2>5 DEF TlsInv, PlaceInv
  <1>. QED
    BY <1>1, TlsInductive, PTL

(* The verdict the thread reads is the one a client gave.                  *)
THEOREM VerdictCorrect == TlsSpec => []VerdictIsTheClients
  <1>1. TlsInv => VerdictIsTheClients
    BY DEF TlsInv, JudgeInv, VerdictIsTheClients
  <1>. QED
    BY <1>1, TlsInductive, PTL

(* Only the certificate under judgement can be judged.                     *)
THEOREM PendingCorrect == TlsSpec => []PendingIsCurrent
  <1>1. TlsInv => PendingIsCurrent
    <2>. SUFFICES ASSUME TlsInv PROVE PendingIsCurrent
      OBVIOUS
    <2>1. completed_channels \subseteq Certs
      BY DEF TlsInv, TlsTypeOK
    <2>2. ASSUME NEW c \in completed_channels
          PROVE  cert_state[c] # "PENDING" /\ c # channel
      BY <2>1, <2>2, CertsFacts DEF TlsInv, ChannelInv
    <2>3. ASSUME NEW c \in {channel} \ {NoCert} PROVE cert_state[c] = "PENDING"
      BY <2>3 DEF TlsInv, ChannelInv
    <2>. QED
      BY <2>2, <2>3 DEF TlsInv, ChannelInv, PendingIsCurrent, OnTheBus
  <1>. QED
    BY <1>1, TlsInductive, PTL

(* No channel outlives the connection.                                     *)
THEOREM NoChannelOutlivesCorrect == TlsSpec => []NoChannelOutlives
  <1>1. TlsInv => NoChannelOutlives
    BY DEF TlsInv, ChannelInv, NoChannelOutlives, OnTheBus
  <1>. QED
    BY <1>1, TlsInductive, PTL
===============================================================================
