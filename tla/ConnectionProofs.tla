--------------------------- MODULE ConnectionProofs ---------------------------
(* Theorems about a connection with its parts: that each part goes through *)
(* the behaviours its own module allows, so that what is proved of the     *)
(* part alone holds in the connection; and what the handlers of the        *)
(* parser, the chats and the room list promise there, for any number of    *)
(* contacts, texts, rooms, channels and LIST commands.                     *)
EXTENDS Connection, ConnectionLifecycleProofs, ServerTlsProofs,
        FiniteSetTheorems, SequenceTheorems

-----------------------------------------------------------------------------
(* The connection and its parts.                                           *)

(* A callback of the connection changes its parts together or not at all.  *)
LEMMA StatusChangedFrame ==
    ASSUME StatusChanged
    PROVE  /\ Disconnected \/ UNCHANGED tlsVars
           /\ ImDisconnected \/ UNCHANGED imVars
           /\ \/ RoomListDisconnected /\ Goes("DISCONNECTED")
              \/ UNCHANGED roomlistVars /\ ~Goes("DISCONNECTED")
           /\ ChangeHandlers
<1>1. CASE Goes("DISCONNECTED")
  BY <1>1 DEF StatusChanged
<1>2. CASE ~Goes("DISCONNECTED")
  BY <1>2 DEF StatusChanged
<1>. QED
  BY <1>1, <1>2

LEMMA ClientsFrame ==
    /\ Chatting => UNCHANGED <<vars, tlsVars, roomlistVars, registered>> /\ ImNext
    /\ Listing => UNCHANGED <<vars, tlsVars, imVars>>
BY Zenon DEF Chatting, Listing, ImNext

LEMMA ArrivalsFrame ==
    /\ \A command \in {"PRIVMSG", "NOTICE"}, target \in Targets,
          body \in TextBodies :
          TextArrives(command, target, body) =>
              /\ UNCHANGED <<vars, tlsVars, roomlistVars, registered>>
              /\ ImNext \/ UNCHANGED imVars
    /\ \A r \in Rooms : ListingArrives(ListReply(r), "LIST") =>
          UNCHANGED <<vars, tlsVars, imVars>>
    /\ ListingArrives(ListEnd, "LISTEND") => UNCHANGED <<vars, tlsVars, imVars>>
BY Zenon DEF TextArrives, ListingArrives, ImNext

LifeStep ==
    \/ Connect \/ PasswordGiven \/ PasswordRefused \/ Disconnect
    \/ ThreadEnds \/ (ConnectSucceeds \/ ConnectFails) \/ FromServer
    \/ ReadEnds \/ SocketCloses
    \/ Keepalive \/ ForceDisconnect \/ FinishShutdown

LEMMA ConnSteps ==
    ASSUME ConnNext
    PROVE  \/ LifeStep /\ StatusChanged /\ Rest
           \/ Certificates
           \/ Chatting \/ Listing
           \/ \E command \in {"PRIVMSG", "NOTICE"}, target \in Targets,
                 body \in TextBodies : TextArrives(command, target, body)
           \/ \E r \in Rooms : ListingArrives(ListReply(r), "LIST")
           \/ ListingArrives(ListEnd, "LISTEND")
BY Zenon DEF ConnNext, Life, LifeStep

LEMMA CertificatesFrame ==
    ASSUME Certificates
    PROVE  UNCHANGED <<vars, imVars, roomlistVars, registered>> /\ TlsNext
BY Zenon DEF Certificates, Tls, ThreadWorks, CertificateIdles, TlsNext

LEMMA LifeOfConnection == [ConnNext]_connVars => [Next]_vars
<1>. SUFFICES ASSUME ConnNext PROVE [Next]_vars
  BY DEF connVars
<1>1. CASE LifeStep
  BY <1>1, Zenon DEF LifeStep, Next, ThreadEnds, FromServer
<1>2. CASE ~LifeStep
  <2>1. UNCHANGED vars
    BY <1>2, ConnSteps, CertificatesFrame, ClientsFrame, ArrivalsFrame
  <2>. QED
    BY <2>1
<1>. QED
  BY <1>1, <1>2

LEMMA CertificatesOfConnection == [ConnNext]_connVars => [TlsNext]_tlsVars
<1>1. CASE UNCHANGED connVars
  BY <1>1 DEF connVars, partsVars
<1>2. CASE ConnNext
  BY <1>2, ConnSteps, StatusChangedFrame, CertificatesFrame, ClientsFrame,
     ArrivalsFrame DEF TlsNext
<1>. QED
  BY <1>1, <1>2

LEMMA ChatsOfConnection == [ConnNext]_connVars => [ImNext]_imVars
<1>1. CASE UNCHANGED connVars
  BY <1>1 DEF connVars, partsVars
<1>2. CASE ConnNext
  BY <1>2, ConnSteps, StatusChangedFrame, CertificatesFrame, ClientsFrame,
     ArrivalsFrame DEF ImNext
<1>. QED
  BY <1>1, <1>2

(* A connection with its parts goes through a life of ConnectionLifecycle, *)
(* whatever its certificates, chats and room list do meanwhile.            *)
THEOREM LifeImplemented == ConnSpec => Spec
<1>1. ConnInit => Init
  BY DEF ConnInit
<1>. QED
  BY <1>1, LifeOfConnection, PTL DEF ConnSpec, Spec

(* The certificate dialogue of a connection is one of ServerTls, with the  *)
(* end of the connection where its status becomes DISCONNECTED.            *)
THEOREM CertificatesImplemented == ConnSpec => TlsSpec
<1>1. ConnInit => TlsInit
  BY DEF ConnInit
<1>. QED
  BY <1>1, CertificatesOfConnection, PTL DEF ConnSpec, TlsSpec

(* The chats of a connection are those of ImManager.                       *)
THEOREM ChatsImplemented == ConnSpec => ImSpec
<1>1. ConnInit => ImInit
  BY DEF ConnInit
<1>. QED
  BY <1>1, ChatsOfConnection, PTL DEF ConnSpec, ImSpec

(* What the modules of the parts promise holds in the connection: the      *)
(* status ConnectionStatus specifies, finish_shutdown() after the          *)
(* callbacks of its life, the socket SendQueue is written for, and the     *)
(* verdicts and channels of certificates.                                  *)
THEOREM PartsKeepTheirPromises ==
    ConnSpec => /\ StatusSpec
                /\ []LifeIsOverWhenFinished
                /\ LinkAsSendQueueAssumes
                /\ []VerdictIsTheClients
                /\ []NoChannelOutlives
BY LifeImplemented, CertificatesImplemented, StatusImplemented,
   LifeIsOverCorrect, LinkCorrect, VerdictCorrect, NoChannelOutlivesCorrect,
   PTL

-----------------------------------------------------------------------------
(* Chats.                                                                  *)

(* A chat that is not there has nothing unread, an unread message is in    *)
(* one chat, and what survived a close is in a chat of the contact's.      *)
UnreadInv ==
    /\ \A c \in Contacts : im_channels[c] = NoChat => DOMAIN im_pending[c] = {}
    /\ \A c, d \in Contacts : \A t \in DOMAIN im_pending[c] :
          t \in DOMAIN im_pending[d] => c = d
    /\ \A t \in 1 .. im_received :
          t \notin im_settled => \E c \in Contacts : t \in DOMAIN im_pending[c]
    /\ \A c \in Contacts : \A t \in DOMAIN im_pending[c] :
          im_pending[c][t] => im_channels[c] = Chat(c, c)
    /\ im_told = im_channels

ImInv == ImTypeOK /\ UnreadInv

LEMMA ChatFacts ==
    ASSUME NEW c \in Contacts
    PROVE  /\ Chat(c, c) # NoChat /\ Chat(c, c) \in Chats
           /\ Chat(Self, c) # NoChat /\ Chat(Self, c) \in Chats
<1>1. c # Self
  BY ImAssumption
<1>. QED
  BY <1>1 DEF Chat, NoChat, Chats

LEMMA ImInitially == ImInit => ImInv
<1>. SUFFICES ASSUME ImInit PROVE ImInv
  OBVIOUS
<1>1. /\ im_table = TRUE /\ im_received = 0 /\ im_settled = {}
      /\ im_channels = [c \in Contacts |-> NoChat] /\ im_told = im_channels
      /\ im_pending = [c \in Contacts |-> Empty]
  BY DEF ImInit
<1>2. DOMAIN Empty = {} /\ Empty \in [{} -> BOOLEAN]
  BY DEF Empty
<1>3. ImTypeOK
  BY <1>1, <1>2, ImAssumption DEF ImTypeOK
<1>4. UnreadInv
  BY <1>1, <1>2 DEF UnreadInv
<1>. QED
  BY <1>3, <1>4 DEF ImInv

(* What the handlers of one chat do to it leaves the others alone.         *)
LEMMA OneChat ==
    ASSUME ImInv, NEW c \in Contacts,
           NEW chat \in Chats \cup {NoChat}, NEW D \in SUBSET Nat,
           NEW pending \in [D -> BOOLEAN],
           im_channels' = [im_channels EXCEPT ![c] = chat],
           im_told' = im_channels',
           DOMAIN im_pending' = Contacts, im_pending'[c] = pending,
           \A d \in Contacts \ {c} : im_pending'[d] = im_pending[d],
           im_table' = im_table,
           im_received' \in {im_received, im_received + 1},
           im_received' <= MaxTexts,
           im_settled' \subseteq 1 .. im_received', im_settled \subseteq im_settled',
           D \subseteq DOMAIN im_pending[c] \cup (1 .. im_received' \ 1 .. im_received),
           1 .. im_received' \ 1 .. im_received \subseteq D,
           DOMAIN im_pending[c] \ D \subseteq im_settled',
           chat = NoChat => D = {},
           \A t \in D : pending[t] => chat = Chat(c, c)
    PROVE  ImInv'
<1>1. /\ im_table \in BOOLEAN
      /\ im_channels \in [Contacts -> Chats \cup {NoChat}]
      /\ im_received \in 0 .. MaxTexts /\ MaxTexts \in Nat
      /\ DOMAIN im_pending = Contacts
      /\ \A d \in Contacts :
            /\ DOMAIN im_pending[d] \subseteq 1 .. im_received
            /\ im_pending[d] \in [DOMAIN im_pending[d] -> BOOLEAN]
  BY ImAssumption DEF ImInv, ImTypeOK
<1>2. /\ DOMAIN im_pending' = Contacts
      /\ im_pending'[c] = pending /\ DOMAIN im_pending'[c] = D
      /\ \A d \in Contacts \ {c} : im_pending'[d] = im_pending[d]
      /\ im_channels'[c] = chat
      /\ \A d \in Contacts \ {c} : im_channels'[d] = im_channels[d]
      /\ im_channels' \in [Contacts -> Chats \cup {NoChat}]
  BY <1>1
<1>3. /\ im_received' \in 0 .. MaxTexts
      /\ 1 .. im_received \subseteq 1 .. im_received'
      /\ D \subseteq 1 .. im_received'
  BY <1>1
<1>4. ImTypeOK'
  <2>1. ASSUME NEW d \in Contacts
        PROVE  /\ DOMAIN im_pending'[d] \subseteq 1 .. im_received'
               /\ im_pending'[d] \in [DOMAIN im_pending'[d] -> BOOLEAN]
    BY <1>1, <1>2, <1>3
  <2>. QED
    BY <1>1, <1>2, <1>3, <2>1 DEF ImTypeOK
<1>5. ASSUME NEW d \in Contacts \ {c}, NEW t \in DOMAIN im_pending[d]
      PROVE  t \notin D
  <2>1. t \in 1 .. im_received
    BY <1>1, <1>5
  <2>2. t \notin DOMAIN im_pending[c]
    BY <1>5 DEF ImInv, UnreadInv
  <2>. QED
    BY <2>1, <2>2
<1>6. \A d, e \in Contacts : \A t \in DOMAIN im_pending'[d] :
         t \in DOMAIN im_pending'[e] => d = e
  <2>. SUFFICES ASSUME NEW d \in Contacts, NEW e \in Contacts,
                       NEW t \in DOMAIN im_pending'[d],
                       t \in DOMAIN im_pending'[e], d # e
                PROVE  FALSE
    OBVIOUS
  <2>1. CASE d = c
    BY <1>2, <1>5, <2>1
  <2>2. CASE e = c
    BY <1>2, <1>5, <2>2
  <2>3. CASE d # c /\ e # c
    BY <1>2, <2>3 DEF ImInv, UnreadInv
  <2>. QED
    BY <2>1, <2>2, <2>3
<1>7. ASSUME NEW t \in 1 .. im_received', t \notin im_settled'
      PROVE  \E d \in Contacts : t \in DOMAIN im_pending'[d]
  <2>1. CASE t \in D
    BY <1>2, <2>1
  <2>2. CASE t \notin D
    <3>1. t \in 1 .. im_received /\ t \notin im_settled
      BY <1>7, <2>2
    <3>2. PICK d \in Contacts : t \in DOMAIN im_pending[d]
      BY <3>1 DEF ImInv, UnreadInv
    <3>3. d # c
      BY <1>7, <2>2, <3>2
    <3>. QED
      BY <1>2, <3>2, <3>3
  <2>. QED
    BY <2>1, <2>2
<1>8. ASSUME NEW d \in Contacts
      PROVE  /\ im_channels'[d] = NoChat => DOMAIN im_pending'[d] = {}
             /\ \A t \in DOMAIN im_pending'[d] :
                   im_pending'[d][t] => im_channels'[d] = Chat(d, d)
  <2>1. CASE d = c
    BY <1>2, <2>1
  <2>2. CASE d # c
    BY <1>2, <2>2 DEF ImInv, UnreadInv
  <2>. QED
    BY <2>1, <2>2
<1>9. UnreadInv'
  BY <1>6, <1>7, <1>8 DEF UnreadInv
<1>. QED
  BY <1>4, <1>9 DEF ImInv

(* What is known of a chat before a step.                                  *)
LEMMA ImFacts ==
    ASSUME ImInv, NEW c \in Contacts
    PROVE  /\ im_channels \in [Contacts -> Chats \cup {NoChat}]
           /\ im_channels[c] \in Chats \cup {NoChat}
           /\ im_told = im_channels
           /\ im_received \in 0 .. MaxTexts /\ MaxTexts \in Nat
           /\ im_settled \subseteq 1 .. im_received
           /\ DOMAIN im_pending = Contacts
           /\ DOMAIN im_pending[c] \subseteq 1 .. im_received
           /\ DOMAIN im_pending[c] \in SUBSET Nat
           /\ im_pending[c] \in [DOMAIN im_pending[c] -> BOOLEAN]
           /\ im_channels[c] = NoChat => DOMAIN im_pending[c] = {}
           /\ \A t \in DOMAIN im_pending[c] :
                 im_pending[c][t] => im_channels[c] = Chat(c, c)
           /\ [im_channels EXCEPT ![c] = im_channels[c]] = im_channels
<1>1. /\ im_channels \in [Contacts -> Chats \cup {NoChat}]
      /\ im_received \in 0 .. MaxTexts /\ MaxTexts \in Nat
      /\ DOMAIN im_pending = Contacts
      /\ DOMAIN im_pending[c] \subseteq 1 .. im_received
      /\ im_pending[c] \in [DOMAIN im_pending[c] -> BOOLEAN]
      /\ im_settled \subseteq 1 .. im_received
  BY ImAssumption DEF ImInv, ImTypeOK
<1>2. /\ im_told = im_channels
      /\ im_channels[c] = NoChat => DOMAIN im_pending[c] = {}
      /\ \A t \in DOMAIN im_pending[c] :
            im_pending[c][t] => im_channels[c] = Chat(c, c)
  BY DEF ImInv, UnreadInv
<1>. QED
  BY <1>1, <1>2

LEMMA ImReceiveKeepsInv ==
    ASSUME ImInv, NEW c \in Contacts, ImReceive(c)
    PROVE  ImInv'
<1> DEFINE old == im_pending[c]
           D == DOMAIN old \cup {im_received + 1}
           pending == [t \in D |-> t \in DOMAIN old /\ old[t]]
           chat == IF im_channels[c] = NoChat THEN Chat(c, c) ELSE im_channels[c]
<1>1. /\ im_received < MaxTexts /\ im_received' = im_received + 1
      /\ im_pending' = [im_pending EXCEPT ![c] = pending]
      /\ UNCHANGED <<im_table, im_settled>>
  BY DEF ImReceive, receive
<1>2. /\ im_channels' = [im_channels EXCEPT ![c] = chat]
      /\ im_told' = im_channels'
  <2>1. CASE im_channels[c] = NoChat
    <3>1. new_channel(c, c)
      BY <2>1 DEF ImReceive
    <3>. QED
      BY <2>1, <3>1, ImFacts DEF new_channel
  <2>2. CASE im_channels[c] # NoChat
    BY <2>2, ImFacts DEF ImReceive
  <2>. QED
    BY <2>1, <2>2
<1>3. chat \in Chats \cup {NoChat} /\ chat # NoChat
  BY ImFacts, ChatFacts
<1>4. D \in SUBSET Nat /\ pending \in [D -> BOOLEAN]
  BY ImFacts
<1>5. \A t \in D : pending[t] => chat = Chat(c, c)
  BY ImFacts
<1>6. /\ DOMAIN im_pending' = Contacts /\ im_pending'[c] = pending
      /\ \A d \in Contacts \ {c} : im_pending'[d] = im_pending[d]
  BY <1>1, ImFacts
<1>7. /\ D \subseteq DOMAIN old \cup (1 .. im_received' \ 1 .. im_received)
      /\ 1 .. im_received' \ 1 .. im_received \subseteq D
      /\ DOMAIN old \ D = {} /\ im_settled' \subseteq 1 .. im_received'
      /\ im_received' <= MaxTexts
  BY <1>1, ImFacts
<1> HIDE DEF D, pending, chat
<1>. QED
  BY <1>1, <1>2, <1>3, <1>4, <1>5, <1>6, <1>7, OneChat

(* The chat is gone with everything unread in it settled, or is another.   *)
LEMMA ImClientsKeepInv ==
    ASSUME ImInv, ImClients
    PROVE  ImInv'
<1>0. PICK c \in Contacts :
          ImRequest(c) \/ ImClose(c) \/ ImDestroy(c)
          \/ \E t \in Texts : ImAcknowledge(c, t)
  BY DEF ImClients
<1>1. im_table' = im_table /\ im_received' = im_received
  BY <1>0 DEF ImRequest, ImClose, ImDestroy, ImAcknowledge
<1>2. /\ 1 .. im_received' \ 1 .. im_received = {} /\ im_received' <= MaxTexts
      /\ im_received' \in {im_received, im_received + 1}
  BY <1>1, ImFacts
<1>3. DOMAIN Empty = {} /\ Empty \in [{} -> BOOLEAN] /\ {} \in SUBSET Nat
  BY DEF Empty
<1>4. CASE ImRequest(c)
  <2> DEFINE pending == im_pending[c]
             chat == Chat(Self, c)
  <2>1. /\ im_channels' = [im_channels EXCEPT ![c] = chat]
        /\ im_told' = im_channels' /\ UNCHANGED <<im_pending, im_settled>>
        /\ im_channels[c] = NoChat
    BY <1>4, ImFacts DEF ImRequest, new_channel
  <2>2. /\ chat \in Chats \cup {NoChat} /\ chat # NoChat
        /\ DOMAIN pending = {} /\ pending \in [{} -> BOOLEAN]
    BY <2>1, ImFacts, ChatFacts
  <2>3. /\ DOMAIN im_pending' = Contacts /\ im_pending'[c] = pending
        /\ \A d \in Contacts \ {c} : im_pending'[d] = im_pending[d]
        /\ im_settled' \subseteq 1 .. im_received'
    BY <1>1, <2>1, ImFacts
  <2> HIDE DEF chat
  <2>. QED
    BY <1>1, <1>2, <1>3, <2>1, <2>2, <2>3, OneChat
<1>5. CASE ImClose(c) /\ DOMAIN im_pending[c] # {}
  <2> DEFINE D == DOMAIN im_pending[c]
             pending == [t \in D |-> TRUE]
  <2>1. /\ im_channels' = [im_channels EXCEPT ![c] = Chat(c, c)]
        /\ im_told' = [im_told EXCEPT ![c] = im_channels'[c]]
        /\ im_pending' = [im_pending EXCEPT ![c] = pending]
        /\ UNCHANGED im_settled
    BY <1>5 DEF ImClose, ReopenChannel, Rescued
  <2>2. im_told' = im_channels'
    BY <2>1, ImFacts
  <2>3. /\ DOMAIN im_pending' = Contacts /\ im_pending'[c] = pending
        /\ \A d \in Contacts \ {c} : im_pending'[d] = im_pending[d]
        /\ im_settled' \subseteq 1 .. im_received'
    BY <1>1, <2>1, ImFacts
  <2>4. /\ Chat(c, c) \in Chats \cup {NoChat} /\ Chat(c, c) # NoChat
        /\ D \in SUBSET Nat /\ pending \in [D -> BOOLEAN]
    BY ImFacts, ChatFacts
  <2> HIDE DEF D, pending
  <2>5. D = DOMAIN im_pending[c]
    BY DEF D
  <2>. QED
    BY <1>1, <1>2, <2>1, <2>2, <2>3, <2>4, <2>5, OneChat
<1>6. CASE ImDestroy(c) \/ (ImClose(c) /\ DOMAIN im_pending[c] = {})
  <2>1. /\ im_channels' = [im_channels EXCEPT ![c] = NoChat]
        /\ im_told' = im_channels'
    BY <1>6, ImFacts DEF ImDestroy, ImClose, ReopenChannel, remove_channel
  <2>2. /\ DOMAIN im_pending' = Contacts /\ DOMAIN im_pending'[c] = {}
        /\ im_pending'[c] \in [{} -> BOOLEAN]
        /\ \A d \in Contacts \ {c} : im_pending'[d] = im_pending[d]
        /\ DOMAIN im_pending[c] \subseteq im_settled'
        /\ im_settled \subseteq im_settled'
        /\ im_settled' \subseteq 1 .. im_received'
    <3>1. CASE ImDestroy(c)
      BY <1>1, <1>3, <3>1, ImFacts DEF ImDestroy
    <3>2. CASE ImClose(c) /\ DOMAIN im_pending[c] = {}
      BY <1>1, <1>3, <3>2, ImFacts DEF ImClose, ReopenChannel
    <3>. QED
      BY <1>6, <3>1, <3>2
  <2>. QED
    BY <1>1, <1>2, <1>3, <2>1, <2>2, OneChat
<1>7. ASSUME NEW t \in Texts, ImAcknowledge(c, t)
      PROVE  ImInv'
  <2> DEFINE D == DOMAIN im_pending[c] \ {t}
             pending == [u \in D |-> im_pending[c][u]]
  <2>1. /\ im_pending' = [im_pending EXCEPT ![c] = pending]
        /\ im_settled' = im_settled \cup {t} /\ t \in DOMAIN im_pending[c]
        /\ UNCHANGED <<im_channels, im_told>>
    BY <1>7 DEF ImAcknowledge
  <2>2. /\ im_channels' = [im_channels EXCEPT ![c] = im_channels[c]]
        /\ im_told' = im_channels' /\ im_channels[c] \in Chats \cup {NoChat}
        /\ im_channels[c] # NoChat
    BY <2>1, ImFacts
  <2>3. /\ DOMAIN im_pending' = Contacts /\ im_pending'[c] = pending
        /\ \A d \in Contacts \ {c} : im_pending'[d] = im_pending[d]
        /\ im_settled' \subseteq 1 .. im_received'
        /\ D \in SUBSET Nat /\ pending \in [D -> BOOLEAN]
        /\ DOMAIN im_pending[c] \ D \subseteq im_settled'
        /\ D \subseteq DOMAIN im_pending[c]
        /\ \A u \in D : pending[u] => im_channels[c] = Chat(c, c)
    BY <1>1, <2>1, ImFacts
  <2> HIDE DEF D, pending
  <2>. QED
    BY <1>1, <1>2, <2>1, <2>2, <2>3, OneChat
<1>. QED
  BY <1>0, <1>4, <1>5, <1>6, <1>7

LEMMA ImDisconnectedKeepsInv == ASSUME ImInv, ImDisconnected PROVE ImInv'
<1>1. /\ im_table' = FALSE /\ im_received' = im_received
      /\ im_channels' = [c \in Contacts |-> NoChat] /\ im_told' = im_channels'
      /\ im_pending' = [c \in Contacts |-> Empty]
      /\ im_settled' = im_settled
                       \cup UNION {DOMAIN im_pending[c] : c \in Contacts}
  BY DEF ImDisconnected
<1>2. DOMAIN Empty = {} /\ Empty \in [{} -> BOOLEAN]
  BY DEF Empty
<1>3. \A c \in Contacts : DOMAIN im_pending[c] \subseteq 1 .. im_received
  BY ImFacts
<1>4. im_settled' \subseteq 1 .. im_received'
  BY <1>1, <1>3 DEF ImInv, ImTypeOK
<1>5. ImTypeOK'
  BY <1>1, <1>2, <1>4 DEF ImTypeOK, ImInv
<1>6. \A t \in 1 .. im_received' : t \in im_settled'
  BY <1>1 DEF ImInv, UnreadInv
<1>7. UnreadInv'
  BY <1>1, <1>2, <1>6 DEF UnreadInv
<1>. QED
  BY <1>5, <1>7 DEF ImInv

LEMMA ImInvCorrect == ImSpec => []ImInv
<1>1. ImInv /\ [ImNext]_imVars => ImInv'
  <2>. SUFFICES ASSUME ImInv, [ImNext]_imVars PROVE ImInv'
    OBVIOUS
  <2>1. CASE UNCHANGED imVars
    BY <2>1 DEF imVars, ImInv, ImTypeOK, UnreadInv
  <2>. QED
    BY <2>1, ImReceiveKeepsInv, ImClientsKeepInv, ImDisconnectedKeepsInv DEF ImNext
<1>. QED
  BY <1>1, ImInitially, PTL DEF ImSpec

(* NothingUnreadLost: a text received waits in exactly one chat that       *)
(* clients know of until one of them has read it, destroyed the chat or    *)
(* disconnected; idle_im_channel_close() loses none.                       *)
THEOREM UnreadCorrect == ConnSpec => []NothingUnreadLost
<1>1. ImInv => NothingUnreadLost
  <2>. SUFFICES ASSUME ImInv, NEW t \in 1 .. im_received, t \notin im_settled
                PROVE  \E c \in Contacts :
                          /\ t \in DOMAIN im_pending[c] /\ im_told[c] # NoChat
                          /\ \A d \in Contacts \ {c} : t \notin DOMAIN im_pending[d]
    BY DEF NothingUnreadLost
  <2>. QED
    BY DEF ImInv, UnreadInv
<1>. QED
  BY <1>1, ImInvCorrect, ChatsImplemented, PTL

(* ChatsAsTold: NewChannels and closed signals leave clients with the      *)
(* chats as they are, and one whose texts survived a close is announced as *)
(* the contact's (tp_base_channel_reopened()).                             *)
THEOREM ChatsCorrect == ConnSpec => []ChatsAsTold
<1>1. ImInv => ChatsAsTold
  BY DEF ImInv, UnreadInv, ChatsAsTold
<1>. QED
  BY <1>1, ImInvCorrect, ChatsImplemented, PTL
-----------------------------------------------------------------------------
(* The handlers of the parser.                                             *)
PartNames == {"connection", "contact_info", "im", "muc", "roomlist"}
Closures == [part : PartNames,
             data : {ConnectionData, ImData, MucData} \cup (1 .. MaxListChannels),
             priority : {FIRST, DEFAULT}]

InOrder(list) ==
    \A i, j \in DOMAIN list : i < j =>
        /\ list[i].priority <= list[j].priority
        /\ list[i].part = list[j].part => list[i].part = "roomlist"

HasPart(list, part) == \E i \in DOMAIN list : list[i].part = part
AllDefault(list) == \A i \in DOMAIN list : list[i].priority = DEFAULT

LEMMA PrioritiesAreInts == FIRST \in Int /\ DEFAULT \in Int /\ FIRST < DEFAULT
BY DEF FIRST, DEFAULT

(* In a list in order those that come before a closure are a prefix.       *)
LEMMA BeforeIsPrefix ==
    ASSUME NEW list \in Seq(Closures), NEW closure \in Closures, InOrder(list)
    PROVE  \E n \in 0 .. Len(list) :
              /\ {i \in DOMAIN list : list[i].priority < closure.priority} = 1 .. n
              /\ Cardinality({i \in DOMAIN list :
                                 list[i].priority < closure.priority}) = n
<1> DEFINE before == {i \in DOMAIN list : list[i].priority < closure.priority}
           n == Cardinality(before)
<1>1. Len(list) \in Nat /\ DOMAIN list = 1 .. Len(list)
  BY LenProperties
<1>2. \A i \in 1 .. Len(list) : list[i] \in Closures
  BY <1>1, ElementOfSeq
<1>3. /\ closure.priority \in Int
      /\ \A i \in 1 .. Len(list) : list[i].priority \in Int
  <2>1. \A c \in Closures : c.priority \in {FIRST, DEFAULT}
    BY DEF Closures
  <2>. QED
    BY <1>2, <2>1, PrioritiesAreInts
<1>4. IsFiniteSet(1 .. Len(list)) /\ Cardinality(1 .. Len(list)) = Len(list)
  BY <1>1, FS_Interval
<1>5. IsFiniteSet(before) /\ n \in Nat /\ n <= Len(list)
  <2>1. before \in SUBSET (1 .. Len(list))
    BY <1>1
  <2>. QED
    BY <1>4, <2>1, FS_Subset, FS_CardinalityType
<1>6. ASSUME NEW i \in before PROVE i <= n
  <2>1. i \in Nat /\ i > 0 /\ i <= Len(list)
    BY <1>1
  <2>2. 1 .. i \in SUBSET before
    <3>. SUFFICES ASSUME NEW j \in 1 .. i PROVE j \in before
      OBVIOUS
    <3>1. j \in 1 .. Len(list) /\ i \in 1 .. Len(list) /\ (j = i \/ j < i)
      BY <2>1
    <3>2. j # i => list[j].priority <= list[i].priority
      BY <1>1, <3>1 DEF InOrder
    <3>. QED
      BY <1>1, <1>3, <3>1, <3>2
  <2>3. Cardinality(1 .. i) = i
    BY <2>1, FS_Interval
  <2>. QED
    BY <1>5, <2>2, <2>3, FS_Subset
<1>7. before = 1 .. n
  <2>1. before \in SUBSET (1 .. n)
    BY <1>1, <1>5, <1>6
  <2>2. IsFiniteSet(1 .. n) /\ Cardinality(1 .. n) = n
    BY <1>5, FS_Interval
  <2>. QED
    BY <2>1, <2>2, FS_Subset
<1>8. n \in 0 .. Len(list)
  BY <1>1, <1>5
<1> HIDE DEF n
<1>. QED
  BY <1>7, <1>8 DEF n

(* What idle_parser_add_handler_with_priority() does to one list.          *)
LEMMA Inserted ==
    ASSUME NEW list \in Seq(Closures), NEW closure \in Closures, InOrder(list)
    PROVE  \E n \in 0 .. Len(list) :
              /\ InsertSorted(list, closure) \in Seq(Closures)
              /\ Len(InsertSorted(list, closure)) = Len(list) + 1
              /\ \A i \in 1 .. n :
                    /\ InsertSorted(list, closure)[i] = list[i]
                    /\ list[i].priority < closure.priority
              /\ InsertSorted(list, closure)[n + 1] = closure
              /\ \A i \in n + 1 .. Len(list) :
                    /\ InsertSorted(list, closure)[i + 1] = list[i]
                    /\ ~ (list[i].priority < closure.priority)
<1>1. PICK n \in 0 .. Len(list) :
         /\ {i \in DOMAIN list : list[i].priority < closure.priority} = 1 .. n
         /\ Cardinality({i \in DOMAIN list :
                            list[i].priority < closure.priority}) = n
  BY BeforeIsPrefix
<1> DEFINE first == SubSeq(list, 1, n)
           last == SubSeq(list, n + 1, Len(list))
           new == first \o <<closure>> \o last
<1>2. InsertSorted(list, closure) = new
  BY <1>1 DEF InsertSorted
<1>3. /\ Len(list) \in Nat /\ DOMAIN list = 1 .. Len(list)
      /\ n \in Nat /\ n <= Len(list)
      /\ \A i \in 1 .. Len(list) : list[i] \in Closures
  BY LenProperties, ElementOfSeq
<1>4. /\ first \in Seq(Closures) /\ Len(first) = n
      /\ \A i \in 1 .. n : first[i] = list[i]
  <2>1. \A i \in 1 .. n : list[i] \in Closures
    BY <1>3
  <2>. QED
    BY <1>3, <2>1, SubSeqProperties
<1>5. /\ last \in Seq(Closures) /\ Len(last) = Len(list) - n
      /\ \A i \in 1 .. Len(list) - n : last[i] = list[n + i]
  <2>1. \A i \in n + 1 .. Len(list) : list[i] \in Closures
    BY <1>3
  <2>2. n + 1 \in Int /\ Len(list) \in Int
    BY <1>3
  <2>3. /\ last \in Seq(Closures)
        /\ Len(last) = IF n + 1 <= Len(list) THEN Len(list) - (n + 1) + 1 ELSE 0
        /\ \A i \in 1 .. Len(list) - (n + 1) + 1 : last[i] = list[(n + 1) + i - 1]
    BY <2>1, <2>2, SubSeqProperties
  <2>. QED
    BY <1>3, <2>3
<1> HIDE DEF first, last
<1>6. /\ <<closure>> \in Seq(Closures) /\ Len(<<closure>>) = 1
      /\ <<closure>>[1] = closure
  OBVIOUS
<1>7. /\ first \o <<closure>> \in Seq(Closures)
      /\ Len(first \o <<closure>>) = n + 1
      /\ \A i \in 1 .. n : (first \o <<closure>>)[i] = list[i]
      /\ (first \o <<closure>>)[n + 1] = closure
  <2>1. /\ first \o <<closure>> \in Seq(Closures)
        /\ Len(first \o <<closure>>) = n + 1
        /\ \A i \in 1 .. n + 1 : (first \o <<closure>>)[i] =
              IF i <= n THEN first[i] ELSE <<closure>>[i - n]
    BY <1>4, <1>6, ConcatProperties
  <2>. QED
    BY <1>3, <1>4, <1>6, <2>1
<1> DEFINE begun == first \o <<closure>>
<1> HIDE DEF begun
<1>8. /\ begun \in Seq(Closures) /\ Len(begun) = n + 1
      /\ \A i \in 1 .. n : begun[i] = list[i]
      /\ begun[n + 1] = closure
  BY <1>7 DEF begun
<1>9. /\ begun \o last \in Seq(Closures)
      /\ Len(begun \o last) = Len(list) + 1
      /\ \A i \in 1 .. Len(list) + 1 : (begun \o last)[i] =
            IF i <= n + 1 THEN begun[i] ELSE last[i - (n + 1)]
  <2>1. Len(begun) + Len(last) = Len(list) + 1
    BY <1>3, <1>5, <1>8
  <2>. QED
    BY <1>5, <1>8, <2>1, ConcatProperties
<1> DEFINE whole == begun \o last
<1>10. InsertSorted(list, closure) = whole
  BY <1>2 DEF begun
<1> HIDE DEF whole
<1>11. /\ whole \in Seq(Closures) /\ Len(whole) = Len(list) + 1
       /\ \A i \in 1 .. Len(list) + 1 : whole[i] =
             IF i <= n + 1 THEN begun[i] ELSE last[i - (n + 1)]
  BY <1>9 DEF whole
<1>12. /\ \A i \in 1 .. n : whole[i] = list[i] /\ list[i].priority < closure.priority
       /\ whole[n + 1] = closure
  BY <1>1, <1>3, <1>8, <1>11
<1>13. ASSUME NEW i \in n + 1 .. Len(list)
       PROVE  whole[i + 1] = list[i] /\ ~ (list[i].priority < closure.priority)
  <2>1. i \in 1 .. Len(list) /\ i \notin 1 .. n /\ i - n \in 1 .. Len(list) - n
    BY <1>3
  <2>2. whole[i + 1] = last[(i + 1) - (n + 1)]
    BY <1>3, <1>11
  <2>3. (i + 1) - (n + 1) = i - n /\ n + (i - n) = i
    BY <1>3
  <2>. QED
    BY <1>1, <1>3, <1>5, <2>1, <2>2, <2>3
<1>. QED
  BY <1>10, <1>11, <1>12, <1>13

(* A list stays in order when a part registers that is not in it yet; the  *)
(* closure comes first where all have the default priority, as its own.    *)
LEMMA OrderKept ==
    ASSUME NEW list \in Seq(Closures), NEW closure \in Closures, InOrder(list),
           HasPart(list, closure.part) => closure.part = "roomlist"
    PROVE  /\ InsertSorted(list, closure) \in Seq(Closures)
           /\ InOrder(InsertSorted(list, closure))
           /\ \A part : HasPart(InsertSorted(list, closure), part) <=>
                           HasPart(list, part) \/ part = closure.part
           /\ closure.priority = DEFAULT /\ AllDefault(list) =>
                 /\ AllDefault(InsertSorted(list, closure))
                 /\ InsertSorted(list, closure) # <<>>
                 /\ Head(InsertSorted(list, closure)) = closure
<1> DEFINE new == InsertSorted(list, closure)
<1>1. PICK n \in 0 .. Len(list) :
         /\ new \in Seq(Closures) /\ Len(new) = Len(list) + 1
         /\ \A i \in 1 .. n : new[i] = list[i] /\ list[i].priority < closure.priority
         /\ new[n + 1] = closure
         /\ \A i \in n + 1 .. Len(list) :
               new[i + 1] = list[i] /\ ~ (list[i].priority < closure.priority)
  BY Inserted
<1> HIDE DEF new
<1>2. /\ Len(list) \in Nat /\ n \in Nat /\ n <= Len(list)
      /\ DOMAIN list = 1 .. Len(list) /\ DOMAIN new = 1 .. Len(list) + 1
  BY <1>1, LenProperties
<1>3. /\ closure.priority \in Int
      /\ \A i \in 1 .. Len(list) : list[i].priority \in Int
  <2>1. \A c \in Closures : c.priority \in Int
    BY PrioritiesAreInts DEF Closures
  <2>2. \A i \in 1 .. Len(list) : list[i] \in Closures
    BY ElementOfSeq
  <2>. QED
    BY <2>1, <2>2
(* Where an element of the new list was in the old one.                    *)
<1>4. ASSUME NEW i \in 1 .. Len(list) + 1
      PROVE  \/ /\ i <= n /\ i \in 1 .. Len(list) /\ new[i] = list[i]
                /\ list[i].priority < closure.priority
             \/ i = n + 1 /\ new[i] = closure
             \/ /\ i > n + 1 /\ i - 1 \in 1 .. Len(list) /\ new[i] = list[i - 1]
                /\ closure.priority <= list[i - 1].priority
  <2>1. CASE i <= n
    BY <1>1, <1>2, <2>1
  <2>2. CASE i = n + 1
    BY <1>1, <2>2
  <2>3. CASE i > n + 1
    <3>1. i - 1 \in n + 1 .. Len(list) /\ (i - 1) + 1 = i /\ i - 1 \in 1 .. Len(list)
      BY <1>2, <2>3
    <3>2. /\ new[(i - 1) + 1] = list[i - 1]
          /\ ~ (list[i - 1].priority < closure.priority)
      BY <1>1, <3>1
    <3>3. list[i - 1].priority \in Int
      BY <1>3, <3>1
    <3>. QED
      BY <1>3, <2>3, <3>1, <3>2, <3>3
  <2>. QED
    BY <1>2, <2>1, <2>2, <2>3
<1>5. ASSUME NEW i \in 1 .. Len(list)
      PROVE  \E j \in 1 .. Len(list) + 1 : new[j] = list[i]
  <2>1. CASE i <= n
    BY <1>1, <1>2, <2>1
  <2>2. CASE i > n
    <3>1. i \in n + 1 .. Len(list) /\ i + 1 \in 1 .. Len(list) + 1
      BY <1>2, <2>2
    <3>. QED
      BY <1>1, <3>1
  <2>. QED
    BY <1>2, <2>1, <2>2
<1>6. \A part : HasPart(new, part) <=> HasPart(list, part) \/ part = closure.part
  <2>. SUFFICES ASSUME NEW part
                PROVE  HasPart(new, part) <=> HasPart(list, part) \/ part = closure.part
    OBVIOUS
  <2>1. ASSUME HasPart(new, part) PROVE HasPart(list, part) \/ part = closure.part
    <3>1. PICK i \in 1 .. Len(list) + 1 : new[i].part = part
      BY <1>2, <2>1 DEF HasPart
    <3>. QED
      BY <1>2, <1>4, <3>1 DEF HasPart
  <2>2. ASSUME HasPart(list, part) PROVE HasPart(new, part)
    <3>1. PICK i \in 1 .. Len(list) : list[i].part = part
      BY <1>2, <2>2 DEF HasPart
    <3>. QED
      BY <1>2, <1>5, <3>1 DEF HasPart
  <2>3. ASSUME part = closure.part PROVE HasPart(new, part)
    <3>1. n + 1 \in 1 .. Len(list) + 1
      BY <1>2
    <3>. QED
      BY <1>1, <1>2, <2>3, <3>1 DEF HasPart
  <2>. QED
    BY <2>1, <2>2, <2>3
<1>7. InOrder(new)
  <2>. SUFFICES ASSUME NEW i \in 1 .. Len(list) + 1, NEW j \in 1 .. Len(list) + 1,
                       i < j
                PROVE  /\ new[i].priority <= new[j].priority
                       /\ new[i].part = new[j].part => new[i].part = "roomlist"
    BY <1>2 DEF InOrder
  <2>1. \A k, l \in 1 .. Len(list) : k < l =>
           /\ list[k].priority <= list[l].priority
           /\ list[k].part = list[l].part => list[k].part = "roomlist"
    BY <1>2 DEF InOrder
  <2>2. \A k \in 1 .. Len(list) :
           list[k].part = closure.part => closure.part = "roomlist"
    BY <1>2 DEF HasPart
  <2>3. CASE i <= n
    BY <1>2, <1>3, <1>4, <2>1, <2>2, <2>3
  <2>4. CASE i = n + 1
    <3>1. new[i] = closure
      BY <1>1, <2>4
    <3>2. /\ j - 1 \in 1 .. Len(list) /\ new[j] = list[j - 1]
          /\ closure.priority <= list[j - 1].priority
      BY <1>2, <1>4, <2>4
    <3>. QED
      BY <2>2, <3>1, <3>2
  <2>5. CASE i > n + 1
    <3>1. j > n + 1 /\ i - 1 < j - 1
      BY <1>2, <2>5
    <3>2. /\ i - 1 \in 1 .. Len(list) /\ new[i] = list[i - 1]
          /\ j - 1 \in 1 .. Len(list) /\ new[j] = list[j - 1]
      BY <1>2, <1>4, <2>5, <3>1
    <3>. QED
      BY <2>1, <3>1, <3>2
  <2>. QED
    BY <1>2, <2>3, <2>4, <2>5
<1>8. ASSUME closure.priority = DEFAULT, AllDefault(list)
      PROVE  AllDefault(new) /\ new # <<>> /\ Head(new) = closure
  <2>1. \A i \in 1 .. Len(list) : list[i].priority = DEFAULT
    BY <1>2, <1>8 DEF AllDefault
  <2>2. AllDefault(new)
    BY <1>2, <1>4, <1>8, <2>1 DEF AllDefault
  <2>3. n = 0
    <3>1. n > 0 => list[n].priority < closure.priority
      BY <1>1, <1>2
    <3>2. n > 0 => list[n].priority = DEFAULT
      BY <1>2, <2>1
    <3>. QED
      BY <1>2, <1>8, <3>1, <3>2, PrioritiesAreInts
  <2>4. new # <<>> /\ Head(new) = new[1]
    BY <1>1, <1>2
  <2>. QED
    BY <1>1, <2>2, <2>3, <2>4
<1>. QED
  BY <1>1, <1>6, <1>7, <1>8 DEF new

TableOK(table) ==
    /\ table \in [Codes -> Seq(Closures)]
    /\ \A code \in Codes : InOrder(table[code])

(* How the table new comes from another when a part registers.            *)
Adds(new, table, codes, closure) ==
    /\ \A code \in codes : \A part :
          HasPart(new[code], part) <=>
              HasPart(table[code], part) \/ part = closure.part
    /\ \A code \in Codes \ codes : new[code] = table[code]
    /\ \A code \in codes :
          closure.priority = DEFAULT /\ AllDefault(table[code]) =>
              /\ AllDefault(new[code]) /\ new[code] # <<>>
              /\ Head(new[code]) = closure

(* A part that registers for some codes for the first time.                *)
LEMMA Registered ==
    ASSUME NEW table, TableOK(table), NEW codes \in SUBSET Codes,
           NEW closure \in Closures,
           \A code \in codes :
               HasPart(table[code], closure.part) => closure.part = "roomlist",
           NEW new, new = add_handlers(table, codes, closure)
    PROVE  TableOK(new) /\ Adds(new, table, codes, closure)
<1>1. /\ DOMAIN new = Codes
      /\ \A code \in Codes : new[code] = IF code \in codes
                                         THEN InsertSorted(table[code], closure)
                                         ELSE table[code]
      /\ new = [code \in Codes |-> new[code]]
  BY DEF add_handlers
<1>2. \A code \in Codes : table[code] \in Seq(Closures) /\ InOrder(table[code])
  BY DEF TableOK
<1>3. ASSUME NEW code \in codes
      PROVE  /\ new[code] \in Seq(Closures) /\ InOrder(new[code])
             /\ \A part : HasPart(new[code], part) <=>
                             HasPart(table[code], part) \/ part = closure.part
             /\ closure.priority = DEFAULT /\ AllDefault(table[code]) =>
                   /\ AllDefault(new[code]) /\ new[code] # <<>>
                   /\ Head(new[code]) = closure
  <2> DEFINE list == table[code]
  <2>1. new[code] = InsertSorted(list, closure)
    BY <1>1
  <2>2. /\ list \in Seq(Closures) /\ InOrder(list)
        /\ HasPart(list, closure.part) => closure.part = "roomlist"
    BY <1>2
  <2> HIDE DEF list
  <2>3. /\ InsertSorted(list, closure) \in Seq(Closures)
        /\ InOrder(InsertSorted(list, closure))
        /\ \A part : HasPart(InsertSorted(list, closure), part) <=>
                        HasPart(list, part) \/ part = closure.part
        /\ closure.priority = DEFAULT /\ AllDefault(list) =>
              /\ AllDefault(InsertSorted(list, closure))
              /\ InsertSorted(list, closure) # <<>>
              /\ Head(InsertSorted(list, closure)) = closure
    BY <2>2, OrderKept
  <2>. QED
    BY <2>1, <2>3, Zenon DEF list
<1>4. ASSUME NEW code \in Codes
      PROVE  new[code] \in Seq(Closures) /\ InOrder(new[code])
  <2>1. CASE code \in codes
    BY <1>3, <2>1
  <2>2. CASE code \notin codes
    BY <1>1, <1>2, <2>2
  <2>. QED
    BY <2>1, <2>2
<1>5. TableOK(new)
  BY <1>1, <1>4 DEF TableOK
<1>6. \A code \in Codes \ codes : new[code] = table[code]
  BY <1>1
<1>. QED
  BY <1>3, <1>5, <1>6 DEF Adds

LEMMA DisjointCodes ==
    /\ "NICK" \notin ConnectionCodes
    /\ ImCodes \cap MucCodes = {}
    /\ RoomlistCodes \cap (ConnectionCodes \cup {"NICK"} \cup ContactInfoCodes
                           \cup ImCodes \cup MucCodes) = {}
BY DEF ConnectionCodes, ImCodes, MucCodes, RoomlistCodes, ContactInfoCodes

LEMMA AllAreCodes ==
    /\ ConnectionCodes \in SUBSET Codes /\ {"NICK"} \in SUBSET Codes
    /\ ContactInfoCodes \in SUBSET Codes /\ ImCodes \in SUBSET Codes
    /\ MucCodes \in SUBSET Codes /\ RoomlistCodes \in SUBSET Codes
BY Zenon DEF Codes

LEMMA PartClosures ==
    /\ Closure("contact_info", ConnectionData, DEFAULT) \in Closures
    /\ Closure("connection", ConnectionData, DEFAULT) \in Closures
    /\ Closure("connection", ConnectionData, FIRST) \in Closures
    /\ Closure("im", ImData, DEFAULT) \in Closures
    /\ Closure("muc", MucData, DEFAULT) \in Closures
    /\ \A c \in 1 .. MaxListChannels :
          Closure("roomlist", c, DEFAULT) \in Closures
BY DEF Closure, Closures, PartNames

LEMMA ContactInfoTable ==
    /\ TableOK(ContactInfoHandlers(NoHandlers))
    /\ \A code \in Codes : \A part :
          HasPart(ContactInfoHandlers(NoHandlers)[code], part) =>
              part = "contact_info"
    /\ \A code \in RoomlistCodes :
          ContactInfoHandlers(NoHandlers)[code] = <<>>
<1> DEFINE closure == Closure("contact_info", ConnectionData, DEFAULT)
           new == add_handlers(NoHandlers, ContactInfoCodes, closure)
<1>1. /\ TableOK(NoHandlers)
      /\ \A code \in Codes : NoHandlers[code] = <<>>
      /\ \A code \in Codes : \A part : ~HasPart(NoHandlers[code], part)
  BY DEF TableOK, NoHandlers, InOrder, HasPart
<1>2. /\ closure \in Closures /\ closure.part = "contact_info"
      /\ ContactInfoCodes \in SUBSET Codes
  BY PartClosures, AllAreCodes DEF Closure
<1> HIDE DEF closure
<1>3. TableOK(new) /\ Adds(new, NoHandlers, ContactInfoCodes, closure)
  <2>1. \A code \in ContactInfoCodes : ~HasPart(NoHandlers[code], closure.part)
    BY <1>1, <1>2
  <2>. QED
    BY <1>1, <1>2, <2>1, Registered
<1> HIDE DEF new
<1>4. ASSUME NEW code \in Codes, NEW part, HasPart(new[code], part)
      PROVE  part = "contact_info"
  <2>1. CASE code \in ContactInfoCodes
    BY <1>1, <1>2, <1>3, <1>4, <2>1 DEF Adds
  <2>2. CASE code \notin ContactInfoCodes
    BY <1>1, <1>3, <1>4, <2>2 DEF Adds
  <2>. QED
    BY <2>1, <2>2
<1>5. \A code \in RoomlistCodes : code \in Codes \ ContactInfoCodes
  BY DisjointCodes, AllAreCodes
<1>. QED
  BY <1>1, <1>3, <1>4, <1>5 DEF Adds, ContactInfoHandlers, new, closure

LEMMA ConnectionTable ==
    ASSUME NEW table, TableOK(table),
           \A code \in Codes : ~HasPart(table[code], "connection")
    PROVE  LET new == ConnectionHandlers(table)
           IN  /\ TableOK(new)
               /\ \A code \in Codes : \A part :
                     HasPart(new[code], part) <=>
                         \/ HasPart(table[code], part)
                         \/ part = "connection" /\ code \in ConnectionCodes \cup {"NICK"}
               /\ \A code \in RoomlistCodes : new[code] = table[code]
<1> DEFINE closure == Closure("connection", ConnectionData, DEFAULT)
           nick == Closure("connection", ConnectionData, FIRST)
           between == add_handlers(table, ConnectionCodes, closure)
           new == add_handlers(between, {"NICK"}, nick)
<1>1. /\ closure \in Closures /\ closure.part = "connection"
      /\ nick \in Closures /\ nick.part = "connection"
      /\ ConnectionCodes \in SUBSET Codes /\ {"NICK"} \in SUBSET Codes
  BY PartClosures, AllAreCodes DEF Closure
<1> HIDE DEF closure, nick
<1>2. TableOK(between) /\ Adds(between, table, ConnectionCodes, closure)
  BY <1>1, Registered
<1> HIDE DEF between
<1>3. ~HasPart(between["NICK"], "connection")
  BY <1>1, <1>2, DisjointCodes DEF Adds
<1>4. TableOK(new) /\ Adds(new, between, {"NICK"}, nick)
  BY <1>1, <1>2, <1>3, Registered
<1> HIDE DEF new
<1>5. ASSUME NEW code \in Codes, NEW part
      PROVE  HasPart(new[code], part) <=>
                 \/ HasPart(table[code], part)
                 \/ part = "connection" /\ code \in ConnectionCodes \cup {"NICK"}
  <2>1. CASE code = "NICK"
    BY <1>1, <1>2, <1>4, <2>1, DisjointCodes DEF Adds
  <2>2. CASE code \in ConnectionCodes
    BY <1>1, <1>2, <1>4, <2>2, DisjointCodes DEF Adds
  <2>3. CASE code \notin ConnectionCodes \cup {"NICK"}
    BY <1>2, <1>4, <2>3 DEF Adds
  <2>. QED
    BY <2>1, <2>2, <2>3
<1>6. \A code \in RoomlistCodes : new[code] = table[code]
  <2>1. \A code \in RoomlistCodes :
           code \in Codes \ {"NICK"} /\ code \in Codes \ ConnectionCodes
    BY DisjointCodes, AllAreCodes
  <2>. QED
    BY <1>2, <1>4, <2>1 DEF Adds
<1>7. new = ConnectionHandlers(table)
  BY DEF ConnectionHandlers, new, between, closure, nick
<1>. QED
  BY <1>4, <1>5, <1>6, <1>7

LEMMA ManagerTable ==
    ASSUME NEW table, TableOK(table),
           \A code \in Codes : ~HasPart(table[code], "im")
                               /\ ~HasPart(table[code], "muc")
    PROVE  LET new == ManagerHandlers(table)
           IN  /\ TableOK(new)
               /\ \A code \in Codes : \A part :
                     HasPart(new[code], part) <=>
                         \/ HasPart(table[code], part)
                         \/ part = "im" /\ code \in ImCodes
                         \/ part = "muc" /\ code \in MucCodes
               /\ \A code \in RoomlistCodes : new[code] = table[code]
<1> DEFINE im == Closure("im", ImData, DEFAULT)
           muc == Closure("muc", MucData, DEFAULT)
           between == add_handlers(table, ImCodes, im)
           new == add_handlers(between, MucCodes, muc)
<1>1. /\ im \in Closures /\ im.part = "im"
      /\ muc \in Closures /\ muc.part = "muc"
      /\ ImCodes \in SUBSET Codes /\ MucCodes \in SUBSET Codes
  BY PartClosures, AllAreCodes DEF Closure
<1> HIDE DEF im, muc
<1>2. TableOK(between) /\ Adds(between, table, ImCodes, im)
  BY <1>1, Registered
<1> HIDE DEF between
<1>3. \A code \in MucCodes : ~HasPart(between[code], "muc")
  BY <1>1, <1>2, DisjointCodes DEF Adds
<1>4. TableOK(new) /\ Adds(new, between, MucCodes, muc)
  BY <1>1, <1>2, <1>3, Registered
<1> HIDE DEF new
<1>5. ASSUME NEW code \in Codes, NEW part
      PROVE  HasPart(new[code], part) <=>
                 \/ HasPart(table[code], part)
                 \/ part = "im" /\ code \in ImCodes
                 \/ part = "muc" /\ code \in MucCodes
  <2>1. CASE code \in ImCodes
    BY <1>1, <1>2, <1>4, <2>1, DisjointCodes DEF Adds
  <2>2. CASE code \in MucCodes
    BY <1>1, <1>2, <1>4, <2>2, DisjointCodes DEF Adds
  <2>3. CASE code \notin ImCodes \cup MucCodes
    BY <1>2, <1>4, <2>3 DEF Adds
  <2>. QED
    BY <2>1, <2>2, <2>3
<1>6. \A code \in RoomlistCodes : new[code] = table[code]
  <2>1. \A code \in RoomlistCodes :
           code \in Codes \ ImCodes /\ code \in Codes \ MucCodes
    BY DisjointCodes, AllAreCodes
  <2>. QED
    BY <1>2, <1>4, <2>1 DEF Adds
<1>7. new = ManagerHandlers(table)
  BY DEF ManagerHandlers, new, between, im, muc
<1>. QED
  BY <1>4, <1>5, <1>6, <1>7

LEMMA RoomlistTable ==
    ASSUME NEW table, TableOK(table), NEW chan \in 1 .. MaxListChannels,
           \A code \in RoomlistCodes : AllDefault(table[code])
    PROVE  LET new == RoomlistHandlers(table, chan)
           IN  /\ TableOK(new)
               /\ \A code \in Codes : \A part :
                     part # "roomlist" =>
                         (HasPart(new[code], part) <=> HasPart(table[code], part))
               /\ \A code \in RoomlistCodes :
                     /\ AllDefault(new[code]) /\ new[code] # <<>>
                     /\ Head(new[code]).data = chan
<1> DEFINE closure == Closure("roomlist", chan, DEFAULT)
           new == add_handlers(table, RoomlistCodes, closure)
<1>1. /\ closure \in Closures /\ closure.part = "roomlist"
      /\ closure.data = chan /\ closure.priority = DEFAULT
      /\ RoomlistCodes \in SUBSET Codes
  BY PartClosures, AllAreCodes DEF Closure
<1> HIDE DEF closure
<1>2. TableOK(new) /\ Adds(new, table, RoomlistCodes, closure)
  <2>1. \A code \in RoomlistCodes :
           HasPart(table[code], closure.part) => closure.part = "roomlist"
    BY <1>1
  <2>2. new = add_handlers(table, RoomlistCodes, closure)
    OBVIOUS
  <2> HIDE DEF new
  <2>. QED
    BY <1>1, <2>1, <2>2, Registered
<1> HIDE DEF new
<1>3. ASSUME NEW code \in Codes, NEW part, part # "roomlist"
      PROVE  HasPart(new[code], part) <=> HasPart(table[code], part)
  <2>1. CASE code \in RoomlistCodes
    BY <1>1, <1>2, <1>3, <2>1 DEF Adds
  <2>2. CASE code \notin RoomlistCodes
    BY <1>2, <2>2 DEF Adds
  <2>. QED
    BY <2>1, <2>2
<1>4. new = RoomlistHandlers(table, chan)
  BY DEF RoomlistHandlers, new, closure
<1>. QED
  BY <1>1, <1>2, <1>3, <1>4 DEF Adds

(* Who is registered for what, by the life of the connection.              *)
Started == status \in {"CONNECTED", "DISCONNECTED"}

PartsInv ==
    \A code \in Codes :
        /\ HasPart(registered[code], "connection") <=>
               handlers /\ code \in ConnectionCodes \cup {"NICK"}
        /\ HasPart(registered[code], "im") => Started /\ code \in ImCodes
        /\ HasPart(registered[code], "muc") => Started /\ code \in MucCodes
        /\ status = "CONNECTED" /\ code \in ImCodes =>
               HasPart(registered[code], "im")
        /\ status = "CONNECTED" /\ code \in MucCodes =>
               HasPart(registered[code], "muc")

ListHeads ==
    rl_channel # NoListChannel =>
        \A code \in RoomlistCodes :
            registered[code] # <<>> /\ Head(registered[code]).data = rl_channel

TableInv ==
    /\ TableOK(registered)
    /\ \A code \in RoomlistCodes : AllDefault(registered[code])
    /\ PartsInv

(* What a callback of the life of a connection does to what its parser     *)
(* handlers depend on.                                                     *)
LEMMA LifeStatus ==
    ASSUME TypeOK, IInv, LifeStep
    PROVE  /\ handlers => handlers'
           /\ status' # status => (handlers' <=> handlers)
           /\ status = "DISCONNECTED" => status' = "DISCONNECTED"
           /\ status' \in {"NEW", "CONNECTING"} => status \in {"NEW", "CONNECTING"}
           /\ status \in {"NEW", "CONNECTING", "CONNECTED", "DISCONNECTED"}
           /\ status' \in {"NEW", "CONNECTING", "CONNECTED", "DISCONNECTED"}
<1>0. status \in {"NEW", "CONNECTING", "CONNECTED", "DISCONNECTED"}
  BY Zenon DEF TypeOK
<1>1. CASE UNCHANGED <<status, handlers>>
  BY <1>0, <1>1, Zenon
<1>2. ASSUME NEW up, ChangeToDisconnected(up)
      PROVE  /\ status # "DISCONNECTED" /\ status' = "DISCONNECTED"
             /\ handlers' = handlers
  BY <1>2, Zenon DEF ChangeToDisconnected, iface_disconnected
<1>3. CASE sconn_disconnected_cb
  <2>1. ChangeToDisconnected(FALSE) \/ UNCHANGED <<status, handlers>>
    BY <1>3, Zenon DEF sconn_disconnected_cb
  <2>. QED
    BY <1>0, <1>1, <1>2, <2>1
<1>4. CASE Connect
  BY <1>0, <1>4, Zenon DEF Connect
<1>5. CASE Welcome
  <2>1. /\ handlers' <=> handlers
        /\ status # "DISCONNECTED" => status' = "CONNECTED"
        /\ status = "DISCONNECTED" => status' = status
    BY <1>5, Zenon DEF Welcome, ChangeToConnected
  <2>. QED
    BY <1>0, <2>1
<1>6. CASE ConnectSucceeds
  <2>1. status' = status /\ handlers'
    BY <1>6, Zenon DEF ConnectSucceeds
  <2>. QED
    BY <1>0, <2>1
<1>7. CASE PasswordRefused \/ Disconnect \/ ServerError \/ NicknameRefused
  <2>1. \E up : ChangeToDisconnected(up)
    BY <1>7, Zenon DEF PasswordRefused, Disconnect, ServerError, NicknameRefused
  <2>. QED
    BY <1>0, <1>2, <2>1
<1>8. CASE ConnectFails \/ SocketCloses
  BY <1>3, <1>8, Zenon DEF ConnectFails, SocketCloses
<1>9. CASE PasswordGiven \/ ThreadReturns \/ Pong \/ PingUnknown \/ ReadEnds
           \/ Keepalive \/ ForceDisconnect \/ FinishShutdown
  <2>1. UNCHANGED <<status, handlers>>
    BY <1>9, Zenon DEF PasswordGiven, ThreadReturns, Pong, PingUnknown, ReadEnds,
       Keepalive, KeepaliveStops, KeepaliveWaits, KeepaliveExpires,
       KeepalivePings, ForceDisconnect, FinishShutdown, shutdownVars
  <2>. QED
    BY <1>1, <2>1
<1>. QED
  BY <1>4, <1>5, <1>6, <1>7, <1>8, <1>9, Zenon DEF LifeStep, ThreadEnds, FromServer

LEMMA TableInitially == ConnInit => TableInv
<1>. SUFFICES ASSUME ConnInit PROVE TableInv
  OBVIOUS
<1>1. /\ registered = ContactInfoHandlers(NoHandlers)
      /\ ~handlers /\ status = "NEW"
  BY DEF ConnInit, Init
<1>2. \A code \in RoomlistCodes : AllDefault(registered[code])
  BY <1>1, ContactInfoTable DEF AllDefault
<1>. QED
  BY <1>1, <1>2, ContactInfoTable DEF TableInv, PartsInv

(* The table after the connection registered, where it does.               *)
LEMMA AttachedTable ==
    ASSUME TableInv
    PROVE  /\ TableOK(Attached)
           /\ \A code \in Codes : \A part :
                 HasPart(Attached[code], part) <=>
                     \/ HasPart(registered[code], part)
                     \/ /\ part = "connection" /\ ~handlers /\ handlers'
                        /\ code \in ConnectionCodes \cup {"NICK"}
           /\ \A code \in RoomlistCodes : Attached[code] = registered[code]
<1>1. CASE handlers' /\ ~handlers
  <2>1. Attached = ConnectionHandlers(registered)
    BY <1>1 DEF Attached
  <2>2. \A code \in Codes : ~HasPart(registered[code], "connection")
    BY <1>1, Zenon DEF TableInv, PartsInv
  <2>3. TableOK(registered)
    BY DEF TableInv
  <2>. QED
    BY <1>1, <2>1, <2>2, <2>3, ConnectionTable
<1>2. CASE ~ (handlers' /\ ~handlers)
  <2>1. Attached = registered
    BY <1>2 DEF Attached
  <2>. QED
    BY <1>2, <2>1 DEF TableInv
<1>. QED
  BY <1>1, <1>2

(* Nothing is ever taken out of the table (idle-parser.c:309).             *)
LEMMA LifeKeepsTable ==
    ASSUME TypeOK, IInv, TableInv, LifeStep, ChangeHandlers
    PROVE  /\ TableInv'
           /\ \A code \in RoomlistCodes : registered'[code] = registered[code]
<1>0. /\ handlers => handlers'
      /\ status' # status => (handlers' <=> handlers)
      /\ status = "DISCONNECTED" => status' = "DISCONNECTED"
      /\ status' \in {"NEW", "CONNECTING"} => status \in {"NEW", "CONNECTING"}
      /\ status \in {"NEW", "CONNECTING", "CONNECTED", "DISCONNECTED"}
      /\ status' \in {"NEW", "CONNECTING", "CONNECTED", "DISCONNECTED"}
  BY LifeStatus
<1> DEFINE table == Attached
<1>1. /\ TableOK(table)
      /\ \A code \in Codes : \A part :
            HasPart(table[code], part) <=>
                \/ HasPart(registered[code], part)
                \/ /\ part = "connection" /\ ~handlers /\ handlers'
                   /\ code \in ConnectionCodes \cup {"NICK"}
      /\ \A code \in RoomlistCodes : table[code] = registered[code]
  BY AttachedTable
<1> HIDE DEF table
<1>2. \A code \in Codes :
         /\ HasPart(registered[code], "connection") <=>
                handlers /\ code \in ConnectionCodes \cup {"NICK"}
         /\ HasPart(registered[code], "im") => Started /\ code \in ImCodes
         /\ HasPart(registered[code], "muc") => Started /\ code \in MucCodes
         /\ status = "CONNECTED" /\ code \in ImCodes =>
                HasPart(registered[code], "im")
         /\ status = "CONNECTED" /\ code \in MucCodes =>
                HasPart(registered[code], "muc")
  BY DEF TableInv, PartsInv
<1>3. \A code \in RoomlistCodes : AllDefault(registered[code])
  BY DEF TableInv
<1>4. \A code \in Codes : HasPart(table[code], "connection") <=>
         handlers' /\ code \in ConnectionCodes \cup {"NICK"}
  BY <1>0, <1>1, <1>2, Zenon
<1>5. CASE Goes("CONNECTED")
  <2>1. registered' = ManagerHandlers(table)
    BY <1>5 DEF ChangeHandlers, table
  <2>2. status \in {"NEW", "CONNECTING"} /\ status' = "CONNECTED"
    BY <1>0, <1>5 DEF Goes
  <2>3. \A code \in Codes : /\ ~HasPart(table[code], "im")
                            /\ ~HasPart(table[code], "muc")
    BY <1>1, <1>2, <2>2 DEF Started
  <2>4. /\ TableOK(registered')
        /\ \A code \in Codes : \A part :
              HasPart(registered'[code], part) <=>
                  \/ HasPart(table[code], part)
                  \/ part = "im" /\ code \in ImCodes
                  \/ part = "muc" /\ code \in MucCodes
        /\ \A code \in RoomlistCodes : registered'[code] = table[code]
    BY <1>1, <2>1, <2>3, ManagerTable
  <2>5. \A code \in Codes : HasPart(registered'[code], "connection") <=>
            handlers' /\ code \in ConnectionCodes \cup {"NICK"}
    BY <1>4, <2>4
  <2>6. PartsInv'
    BY <2>2, <2>3, <2>4, <2>5 DEF PartsInv, Started
  <2>. QED
    BY <1>1, <1>3, <2>4, <2>6 DEF TableInv
<1>6. CASE ~Goes("CONNECTED")
  <2>1. registered' = table
    <3>1. registered' = registered \/ registered' = table
      BY <1>6 DEF ChangeHandlers, WithoutManagers, remove_handlers_by_data, table
    <3>2. CASE Goes("DISCONNECTED")
      <4>1. table = registered
        BY <1>0, <3>2 DEF Goes, Attached, table
      <4>. QED
        BY <3>1, <4>1
    <3>3. CASE ~Goes("DISCONNECTED")
      BY <1>6, <3>3 DEF ChangeHandlers, table
    <3>. QED
      BY <3>2, <3>3
  <2>2. status' = status \/ ~(status' = "CONNECTED")
    BY <1>6 DEF Goes
  <2>3. Started => Started'
    BY <1>0, <2>2 DEF Started
  <2>4. status' = "CONNECTED" => status = "CONNECTED"
    BY <2>2
  <2>5. \A code \in Codes :
           /\ HasPart(registered'[code], "im") <=> HasPart(registered[code], "im")
           /\ HasPart(registered'[code], "muc") <=> HasPart(registered[code], "muc")
           /\ HasPart(registered'[code], "connection") <=>
                 handlers' /\ code \in ConnectionCodes \cup {"NICK"}
    BY <1>1, <1>4, <2>1
  <2>6. PartsInv'
    BY <1>2, <2>3, <2>4, <2>5 DEF PartsInv
  <2>. QED
    BY <1>1, <1>3, <2>1, <2>6 DEF TableInv
<1>. QED
  BY <1>5, <1>6

LEMMA OpenKeepsTable ==
    ASSUME TableInv, OpenRoomList, rl_opened \in Nat, UNCHANGED <<status, handlers>>
    PROVE  TableInv' /\ ListHeads'
<1>1. /\ rl_opened < MaxListChannels /\ rl_channel' = rl_opened + 1
      /\ registered' = RoomlistHandlers(registered, rl_channel')
  BY DEF OpenRoomList
<1> DEFINE chan == rl_opened + 1
<1>2. chan \in 1 .. MaxListChannels
  BY <1>1, RoomListAssumption
<1>3. registered' = RoomlistHandlers(registered, chan) /\ rl_channel' = chan
  BY <1>1
<1> HIDE DEF chan
<1>4. /\ TableOK(registered)
      /\ \A code \in RoomlistCodes : AllDefault(registered[code])
  BY DEF TableInv
<1>5. /\ TableOK(registered')
      /\ \A code \in Codes : \A part :
            part # "roomlist" =>
                (HasPart(registered'[code], part) <=> HasPart(registered[code], part))
      /\ \A code \in RoomlistCodes :
            /\ AllDefault(registered'[code]) /\ registered'[code] # <<>>
            /\ Head(registered'[code]).data = chan
  BY <1>2, <1>3, <1>4, RoomlistTable
<1>6. \A code \in Codes :
         /\ HasPart(registered'[code], "im") <=> HasPart(registered[code], "im")
         /\ HasPart(registered'[code], "muc") <=> HasPart(registered[code], "muc")
         /\ HasPart(registered'[code], "connection") <=>
               HasPart(registered[code], "connection")
  BY <1>5
<1>7. PartsInv'
  BY <1>6 DEF TableInv, PartsInv, Started
<1>. QED
  BY <1>3, <1>5, <1>7 DEF TableInv, ListHeads

-----------------------------------------------------------------------------
(* The room list.                                                          *)
ListStep == RoomListClients \/ RoomListServer \/ RoomListDisconnected

LEMMA ListSteps ==
    ASSUME ConnNext
    PROVE  \/ UNCHANGED roomlistVars
           \/ RoomListDisconnected
           \/ RoomListClients \/ RoomListServer
<1>1. LifeStep /\ StatusChanged => RoomListDisconnected \/ UNCHANGED roomlistVars
  BY StatusChangedFrame
<1>2. Listing => RoomListClients
  BY DEF Listing
<1>3. Chatting => UNCHANGED roomlistVars
  BY DEF Chatting
<1>4. \A command \in {"PRIVMSG", "NOTICE"}, target \in Targets,
         body \in TextBodies :
         TextArrives(command, target, body) => UNCHANGED roomlistVars
  BY DEF TextArrives
<1>5. /\ \A r \in Rooms : ListingArrives(ListReply(r), "LIST") => RoomListServer
      /\ ListingArrives(ListEnd, "LISTEND") => RoomListServer
  BY DEF ListingArrives, RoomListServer
<1>. QED
  BY <1>1, <1>2, <1>3, <1>4, <1>5, ConnSteps, CertificatesFrame

(* How often a room was told to clients, waits to be told or may still be  *)
(* named by the server, against the LIST commands sent.                    *)
RoomBalance ==
    \A r \in Rooms :
        rl_got[r] + rl_rooms[r] + rl_lists
            <= rl_sent + (IF rl_lists > 0 /\ r \notin rl_answer THEN 1 ELSE 0)

ListFlags ==
    /\ rl_listing \in BOOLEAN
    /\ rl_overlap \in BOOLEAN
    /\ rl_ended \in BOOLEAN

ListTypes ==
    /\ ListFlags
    /\ rl_opened \in 0 .. MaxListChannels
    /\ rl_channel \in {NoListChannel, rl_opened}
    /\ rl_rooms \in [Rooms -> Nat] /\ rl_got \in [Rooms -> Nat]
    /\ rl_sent \in 0 .. MaxLists
    /\ rl_lists \in 0 .. rl_sent
    /\ rl_answer \subseteq Rooms
    /\ RoomBalance

LEMMA NoRoomsFacts ==
    NoRooms \in [Rooms -> Nat] /\ \A r \in Rooms : NoRooms[r] = 0
BY DEF NoRooms

LEMMA ListInitially == RoomListInit => ListTypes
<1>. SUFFICES ASSUME RoomListInit PROVE ListTypes
  OBVIOUS
<1>1. RoomBalance
  BY NoRoomsFacts DEF RoomListInit, RoomBalance
<1>2. ListFlags
  BY DEF RoomListInit, ListFlags
<1>3. /\ rl_opened = 0 /\ rl_channel = rl_opened /\ rl_sent = 0 /\ rl_lists = 0
      /\ rl_rooms = NoRooms /\ rl_got = NoRooms /\ rl_answer = Rooms
  BY DEF RoomListInit, NoListChannel
<1>. QED
  BY <1>1, <1>2, <1>3, NoRoomsFacts, RoomListAssumption DEF ListTypes

LEMMA ListStepTypes == ListTypes /\ [ListStep]_roomlistVars => ListTypes'
<1>. SUFFICES ASSUME ListTypes, [ListStep]_roomlistVars PROVE ListTypes'
  OBVIOUS
<1>0. /\ MaxLists \in Nat /\ MaxListChannels \in Nat
      /\ rl_rooms \in [Rooms -> Nat] /\ rl_got \in [Rooms -> Nat]
      /\ rl_sent \in Nat /\ rl_lists \in Nat /\ rl_sent <= MaxLists
      /\ rl_lists <= rl_sent /\ rl_opened \in Nat /\ rl_opened <= MaxListChannels
      /\ rl_answer \subseteq Rooms
  BY RoomListAssumption DEF ListTypes
<1>1. CASE UNCHANGED roomlistVars
  BY <1>1 DEF roomlistVars, ListTypes, ListFlags, RoomBalance
<1>2. CASE OpenRoomList
  <2>1. /\ rl_opened < MaxListChannels /\ rl_opened' = rl_opened + 1
        /\ rl_channel' = rl_opened' /\ rl_listing' = FALSE
        /\ rl_rooms' = NoRooms /\ rl_ended' = FALSE
        /\ UNCHANGED <<rl_lists, rl_sent, rl_answer, rl_got>>
    BY <1>2 DEF OpenRoomList
  <2>2. RoomBalance'
    <3>. SUFFICES ASSUME NEW r \in Rooms
                  PROVE  rl_got[r] + 0 + rl_lists
                            <= rl_sent + (IF rl_lists > 0 /\ r \notin rl_answer
                                          THEN 1 ELSE 0)
      BY <2>1, NoRoomsFacts DEF RoomBalance
    <3>1. rl_got[r] + rl_rooms[r] + rl_lists
              <= rl_sent + (IF rl_lists > 0 /\ r \notin rl_answer THEN 1 ELSE 0)
      BY DEF ListTypes, RoomBalance
    <3>. QED
      BY <1>0, <3>1
  <2>3. ListFlags'
    <3>1. rl_listing' = FALSE /\ rl_ended' = FALSE /\ rl_overlap' = (rl_lists > 0)
      BY <1>2 DEF OpenRoomList
    <3>2. rl_overlap' = TRUE \/ rl_overlap' = FALSE
      BY <3>1
    <3>. QED
      BY <3>1, <3>2, Zenon DEF ListFlags
  <2>. QED
    BY <1>0, <2>1, <2>2, <2>3, NoRoomsFacts DEF ListTypes
<1>3. CASE ListRooms
  <2>1. /\ rl_sent < MaxLists /\ rl_sent' = rl_sent + 1
        /\ rl_lists' = rl_lists + 1 /\ rl_got' = NoRooms
        /\ rl_listing' = TRUE /\ rl_ended' = FALSE
        /\ UNCHANGED <<rl_channel, rl_opened, rl_rooms, rl_answer>>
    BY <1>3 DEF ListRooms
  <2>2. RoomBalance'
    <3>. SUFFICES ASSUME NEW r \in Rooms
                  PROVE  0 + rl_rooms[r] + (rl_lists + 1)
                            <= rl_sent + 1 + (IF rl_lists + 1 > 0 /\ r \notin rl_answer
                                              THEN 1 ELSE 0)
      BY <2>1, NoRoomsFacts DEF RoomBalance
    <3>1. rl_got[r] + rl_rooms[r] + rl_lists
              <= rl_sent + (IF rl_lists > 0 /\ r \notin rl_answer THEN 1 ELSE 0)
      BY DEF ListTypes, RoomBalance
    <3>. QED
      BY <1>0, <3>1
  <2>3. ListFlags'
    BY <1>3, Zenon DEF ListRooms, ListTypes, ListFlags
  <2>. QED
    BY <1>0, <2>1, <2>2, <2>3, NoRoomsFacts DEF ListTypes
<1>4. CASE CloseRoomList \/ RoomListDisconnected
  <2>1. CASE CloseRoomList
    <3>1. ListFlags'
      BY <2>1, Zenon DEF CloseRoomList, ListTypes, ListFlags
    <3>. QED
      BY <1>0, <2>1, <3>1 DEF CloseRoomList, ListTypes, RoomBalance
  <2>2. CASE RoomListDisconnected
    <3>1. /\ rl_channel' = NoListChannel /\ rl_listing' = FALSE
          /\ rl_rooms' = NoRooms /\ rl_got' = NoRooms
          /\ rl_overlap' = FALSE /\ rl_ended' = FALSE
          /\ UNCHANGED <<rl_opened, rl_lists, rl_sent, rl_answer>>
      BY <2>2 DEF RoomListDisconnected
    <3>2. RoomBalance'
      BY <1>0, <3>1, NoRoomsFacts DEF RoomBalance
    <3>3. ListFlags'
      BY <3>1 DEF ListFlags
    <3>. QED
      BY <1>0, <3>1, <3>2, <3>3, NoRoomsFacts DEF ListTypes
  <2>. QED
    BY <1>4, <2>1, <2>2
<1>5. ASSUME NEW room \in Rooms, ListReply(room) PROVE ListTypes'
  <2>1. /\ rl_lists > 0 /\ room \in rl_answer /\ rl_answer' = rl_answer \ {room}
        /\ UNCHANGED <<rl_channel, rl_opened, rl_listing, rl_lists, rl_sent,
                       rl_got, rl_overlap, rl_ended>>
        /\ \/ rl_rooms' = [rl_rooms EXCEPT ![room] = @ + 1]
           \/ rl_rooms' = rl_rooms
    BY <1>5 DEF ListReply, rpl_list
  <2>2. /\ rl_rooms' \in [Rooms -> Nat]
        /\ rl_rooms'[room] <= rl_rooms[room] + 1
        /\ \A r \in Rooms \ {room} : rl_rooms'[r] = rl_rooms[r]
    BY <1>0, <2>1
  <2>3. RoomBalance'
    <3>. SUFFICES ASSUME NEW r \in Rooms
                  PROVE  rl_got[r] + rl_rooms'[r] + rl_lists
                            <= rl_sent + (IF r \notin rl_answer' THEN 1 ELSE 0)
      BY <2>1 DEF RoomBalance
    <3>1. rl_got[r] + rl_rooms[r] + rl_lists
              <= rl_sent + (IF r \notin rl_answer THEN 1 ELSE 0)
      BY <2>1 DEF ListTypes, RoomBalance
    <3>. QED
      BY <1>0, <2>1, <2>2, <3>1
  <2>4. ListFlags'
    BY <2>1 DEF ListTypes, ListFlags
  <2>. QED
    BY <2>1, <2>2, <2>3, <2>4 DEF ListTypes
<1>6. CASE ListEnd
  <2>1. /\ rl_lists > 0 /\ rl_answer = {} /\ rl_answer' = Rooms
        /\ rl_lists' = rl_lists - 1
        /\ UNCHANGED <<rl_channel, rl_opened, rl_sent, rl_overlap>>
        /\ \/ UNCHANGED <<rl_got, rl_rooms>>
           \/ /\ rl_got' = [r \in Rooms |-> rl_got[r] + rl_rooms[r]]
              /\ rl_rooms' = NoRooms
    BY <1>6 DEF ListEnd, rpl_listend, emit_room_signal
  <2>2. /\ rl_rooms' \in [Rooms -> Nat] /\ rl_got' \in [Rooms -> Nat]
        /\ \A r \in Rooms : rl_got'[r] + rl_rooms'[r] = rl_got[r] + rl_rooms[r]
    BY <1>0, <2>1 DEF NoRooms
  <2>3. RoomBalance'
    <3>. SUFFICES ASSUME NEW r \in Rooms
                  PROVE  rl_got'[r] + rl_rooms'[r] + rl_lists' <= rl_sent'
      BY <1>0, <2>1, <2>2 DEF RoomBalance
    <3>1. rl_got[r] + rl_rooms[r] + rl_lists <= rl_sent + 1
      BY <2>1 DEF ListTypes, RoomBalance
    <3>. QED
      BY <1>0, <2>1, <2>2, <3>1
  <2>4. ListFlags'
    BY <1>6, Zenon DEF ListEnd, rpl_listend, emit_room_signal, ListTypes, ListFlags
  <2>. QED
    BY <1>0, <2>1, <2>2, <2>3, <2>4 DEF ListTypes
<1>. QED
  BY <1>1, <1>2, <1>3, <1>4, <1>5, <1>6
     DEF ListStep, RoomListClients, RoomListServer

LEMMA ListTypesGive == ListTypes => RoomListTypeOK
<1>. SUFFICES ASSUME ListTypes PROVE RoomListTypeOK
  OBVIOUS
<1>1. ASSUME NEW r \in Rooms
      PROVE  rl_got[r] \in 0 .. MaxLists /\ rl_rooms[r] \in 0 .. MaxLists
  <2>1. rl_got[r] + rl_rooms[r] + rl_lists
            <= rl_sent + (IF rl_lists > 0 /\ r \notin rl_answer THEN 1 ELSE 0)
    BY DEF ListTypes, RoomBalance
  <2>2. /\ rl_got[r] \in Nat /\ rl_rooms[r] \in Nat /\ rl_lists \in Nat
        /\ rl_sent \in Nat /\ rl_sent <= MaxLists
    BY RoomListAssumption DEF ListTypes
  <2>. QED
    BY <2>1, <2>2, RoomListAssumption
<1>. QED
  BY <1>1 DEF ListTypes, ListFlags, RoomListTypeOK

-----------------------------------------------------------------------------
(* The handlers through the steps of the connection.                       *)
LEMMA TableSteps ==
    ASSUME ConnNext
    PROVE  \/ /\ LifeStep /\ ChangeHandlers
              /\ rl_channel' \in {rl_channel, NoListChannel}
           \/ OpenRoomList /\ UNCHANGED <<status, handlers>>
           \/ /\ UNCHANGED <<registered, status, handlers>>
              /\ rl_channel' \in {rl_channel, NoListChannel}
<1>0. UNCHANGED vars => UNCHANGED <<status, handlers>>
  BY DEF vars, shutdownVars
<1>a. UNCHANGED roomlistVars => rl_channel' = rl_channel
  BY DEF roomlistVars
<1>1. LifeStep /\ StatusChanged =>
         LifeStep /\ ChangeHandlers /\ rl_channel' \in {rl_channel, NoListChannel}
  BY <1>a, StatusChangedFrame DEF RoomListDisconnected
<1>2. Certificates => /\ UNCHANGED <<registered, status, handlers>>
                      /\ rl_channel' = rl_channel
  BY <1>0, <1>a, CertificatesFrame
<1>3. Chatting => /\ UNCHANGED <<registered, status, handlers>>
                  /\ rl_channel' = rl_channel
  BY <1>0, <1>a DEF Chatting
<1>4. ASSUME Listing
      PROVE  \/ OpenRoomList /\ UNCHANGED <<status, handlers>>
             \/ /\ UNCHANGED <<registered, status, handlers>>
                /\ rl_channel' \in {rl_channel, NoListChannel}
  <2>1. RoomListClients /\ UNCHANGED <<status, handlers>>
    BY <1>0, <1>4 DEF Listing
  <2>2. ListRooms => registered' = registered /\ rl_channel' = rl_channel
    BY DEF ListRooms
  <2>3. CloseRoomList => registered' = registered /\ rl_channel' = NoListChannel
    BY DEF CloseRoomList, RemoveListHandlers, remove_handlers_by_data
  <2>. QED
    BY <2>1, <2>2, <2>3 DEF RoomListClients
<1>5. ASSUME NEW command \in {"PRIVMSG", "NOTICE"}, NEW target \in Targets,
             NEW body \in TextBodies, TextArrives(command, target, body)
      PROVE  UNCHANGED <<registered, status, handlers>> /\ rl_channel' = rl_channel
  <2>1. UNCHANGED <<vars, roomlistVars, registered>>
    BY <1>5 DEF TextArrives
  <2>. QED
    BY <1>0, <1>a, <2>1
<1>6. ASSUME NEW r \in Rooms, ListingArrives(ListReply(r), "LIST")
      PROVE  UNCHANGED <<registered, status, handlers>> /\ rl_channel' = rl_channel
  BY <1>0, <1>6 DEF ListingArrives, ListReply
<1>7. ListingArrives(ListEnd, "LISTEND") =>
          UNCHANGED <<registered, status, handlers>> /\ rl_channel' = rl_channel
  BY <1>0 DEF ListingArrives, ListEnd
<1>. QED
  BY <1>1, <1>2, <1>3, <1>4, <1>5, <1>6, <1>7, ConnSteps

HandlersInv == TableInv /\ ListHeads

LEMMA HandlersStep ==
    TypeOK /\ IInv /\ ListTypes /\ HandlersInv /\ [ConnNext]_connVars => HandlersInv'
<1>. SUFFICES ASSUME TypeOK, IInv, ListTypes, HandlersInv, [ConnNext]_connVars
              PROVE  HandlersInv'
  OBVIOUS
<1>1. CASE /\ UNCHANGED <<registered, status, handlers>>
           /\ rl_channel' \in {rl_channel, NoListChannel}
  <2>1. TableInv'
    BY <1>1 DEF HandlersInv, TableInv, PartsInv, Started
  <2>2. ListHeads'
    BY <1>1 DEF HandlersInv, ListHeads
  <2>. QED
    BY <2>1, <2>2 DEF HandlersInv
<1>2. CASE /\ LifeStep /\ ChangeHandlers
           /\ rl_channel' \in {rl_channel, NoListChannel}
  <2>1. /\ TableInv'
        /\ \A code \in RoomlistCodes : registered'[code] = registered[code]
    BY <1>2, LifeKeepsTable DEF HandlersInv
  <2>2. ListHeads'
    BY <1>2, <2>1 DEF HandlersInv, ListHeads
  <2>. QED
    BY <2>1, <2>2 DEF HandlersInv
<1>3. CASE OpenRoomList /\ UNCHANGED <<status, handlers>>
  <2>1. rl_opened \in Nat
    BY RoomListAssumption DEF ListTypes
  <2>. QED
    BY <1>3, <2>1, OpenKeepsTable DEF HandlersInv
<1>4. CASE UNCHANGED connVars
  <2>1. /\ UNCHANGED <<registered, status, handlers>>
        /\ rl_channel' = rl_channel
    BY <1>4 DEF connVars, partsVars, vars, shutdownVars, roomlistVars
  <2>. QED
    BY <1>1, <2>1
<1>. QED
  BY <1>1, <1>2, <1>3, <1>4, TableSteps

(* Every invariant of a part, of the room list and of the handlers.        *)
LEMMA ListTypesCorrect == ConnSpec => []ListTypes
<1>1. ConnInit => ListTypes
  BY ListInitially DEF ConnInit
<1>2. [ConnNext]_connVars => [ListStep]_roomlistVars
  <2>1. UNCHANGED connVars => UNCHANGED roomlistVars
    BY DEF connVars, partsVars
  <2>. QED
    BY <2>1, ListSteps DEF ListStep
<1>. QED
  BY <1>1, <1>2, ListStepTypes, PTL DEF ConnSpec

LEMMA HandlersInvCorrect == ConnSpec => []HandlersInv
<1>1. ConnInit => HandlersInv
  <2>1. ConnInit => rl_channel = NoListChannel
    BY DEF ConnInit, RoomListInit
  <2>. QED
    BY <2>1, TableInitially DEF HandlersInv, ListHeads
<1>. QED
  BY <1>1, HandlersStep, LifeImplemented, InvCorrect, ListTypesCorrect, PTL
     DEF ConnSpec

(* HandlersInOrder: whatever the parts register and never take back, each  *)
(* is registered once for a message, in the order of the priorities that   *)
(* _parse_and_forward_one() relies on, but for the room lists, of which    *)
(* the open one comes first: no handler of one that is gone is called.     *)
THEOREM HandlersCorrect == ConnSpec => []HandlersInOrder
<1>1. HandlersInv => HandlersInOrder
  BY DEF HandlersInv, TableInv, TableOK, ListHeads, InOrder, HandlersInOrder
<1>. QED
  BY <1>1, HandlersInvCorrect, PTL

(* What arrives for an open room list reaches it.                          *)
LEMMA OpenListHandles ==
    ASSUME HandlersInv, rl_channel # NoListChannel
    PROVE  Handles("LIST") /\ Handles("LISTEND")
<1>. SUFFICES ASSUME NEW code \in RoomlistCodes PROVE Handles(code)
  BY DEF RoomlistCodes
<1> DEFINE list == registered[code]
<1>1. list # <<>> /\ Head(list).data = rl_channel /\ list \in Seq(Closures)
  BY AllAreCodes DEF HandlersInv, ListHeads, TableInv, TableOK
<1>2. 1 \in DOMAIN list /\ list[1] = Head(list)
  BY <1>1
<1>3. \A k \in 1 .. 1 - 1 : list[k].part \notin {"roomlist"}
  OBVIOUS
<1>4. list[1] \in Called(code, {"roomlist"})
  BY <1>2, <1>3 DEF Called
<1>. QED
  BY <1>1, <1>2, <1>4 DEF Handles

(* An open room list that saw no LIST but its own: it lists or it does     *)
(* not, and what waits is what the answer has named so far.                *)
Idle ==
    /\ rl_lists = 0 /\ ~rl_listing
    /\ \A r \in Rooms : rl_rooms[r] = 0
    /\ rl_ended => \A r \in Rooms : rl_got[r] = 1

Collecting ==
    /\ rl_lists = 1 /\ rl_listing /\ ~rl_ended
    /\ \A r \in Rooms : rl_got[r] = 0
    /\ \A r \in Rooms : rl_rooms[r] = (IF r \in rl_answer THEN 0 ELSE 1)

ListingInv ==
    /\ rl_lists = 0 => rl_answer = Rooms
    /\ rl_channel # NoListChannel /\ ~rl_overlap => Idle \/ Collecting

LEMMA ListingStep ==
    HandlersInv /\ ListTypes /\ ListingInv /\ [ListStep]_roomlistVars => ListingInv'
<1>. SUFFICES ASSUME HandlersInv, ListTypes, ListingInv, [ListStep]_roomlistVars
              PROVE  ListingInv'
  OBVIOUS
<1>0. /\ rl_rooms \in [Rooms -> Nat] /\ rl_got \in [Rooms -> Nat]
      /\ rl_lists \in Nat /\ rl_opened \in Nat
  BY RoomListAssumption DEF ListTypes
<1>1. CASE UNCHANGED roomlistVars
  BY <1>1 DEF roomlistVars, ListingInv, Idle, Collecting
<1>2. CASE OpenRoomList
  <2>1. /\ rl_listing' = FALSE /\ rl_rooms' = NoRooms /\ rl_ended' = FALSE
        /\ rl_overlap' = (rl_lists > 0)
        /\ UNCHANGED <<rl_lists, rl_answer>>
    BY <1>2 DEF OpenRoomList
  <2>2. ASSUME ~rl_overlap' PROVE Idle'
    <3>1. ~(rl_lists > 0)
      BY <2>1, <2>2, Zenon
    <3>2. rl_lists = 0
      BY <1>0, <3>1
    <3>. QED
      BY <2>1, <3>2, NoRoomsFacts DEF Idle
  <2>. QED
    BY <2>1, <2>2 DEF ListingInv
<1>3. CASE ListRooms
  <2>1. /\ rl_channel # NoListChannel /\ rl_listing' = TRUE
        /\ rl_lists' = rl_lists + 1 /\ rl_got' = NoRooms /\ rl_ended' = FALSE
        /\ rl_overlap' = (rl_overlap \/ rl_lists > 0)
        /\ UNCHANGED <<rl_channel, rl_rooms, rl_answer>>
    BY <1>3 DEF ListRooms
  <2>2. ASSUME ~rl_overlap' PROVE Collecting'
    <3>0. ~rl_overlap /\ ~(rl_lists > 0)
      BY <2>1, <2>2, Zenon
    <3>1. ~rl_overlap /\ rl_lists = 0
      BY <1>0, <3>0
    <3>2. Idle /\ rl_answer = Rooms
      BY <2>1, <3>1 DEF ListingInv, Collecting
    <3>. QED
      BY <2>1, <3>1, <3>2, NoRoomsFacts DEF Idle, Collecting
  <2>. QED
    BY <1>0, <2>1, <2>2 DEF ListingInv
<1>4. CASE CloseRoomList \/ RoomListDisconnected
  BY <1>4 DEF CloseRoomList, RoomListDisconnected, ListingInv
<1>5. ASSUME NEW room \in Rooms, ListReply(room) PROVE ListingInv'
  <2>1. /\ rl_lists > 0 /\ room \in rl_answer /\ rl_answer' = rl_answer \ {room}
        /\ UNCHANGED <<rl_channel, rl_listing, rl_lists, rl_got, rl_overlap,
                       rl_ended>>
    BY <1>5 DEF ListReply
  <2>2. ASSUME rl_channel # NoListChannel, ~rl_overlap PROVE Collecting'
    <3>1. Collecting
      BY <1>0, <2>1, <2>2 DEF ListingInv, Idle
    <3>2. rl_rooms' = [rl_rooms EXCEPT ![room] = @ + 1]
      BY <1>5, <2>2, OpenListHandles DEF ListReply, rpl_list
    <3>3. \A r \in Rooms : rl_rooms'[r] = (IF r \in rl_answer' THEN 0 ELSE 1)
      BY <1>0, <2>1, <3>1, <3>2 DEF Collecting
    <3>. QED
      BY <2>1, <3>1, <3>3 DEF Collecting
  <2>. QED
    BY <1>0, <2>1, <2>2 DEF ListingInv
<1>6. CASE ListEnd
  <2>1. /\ rl_lists > 0 /\ rl_answer = {} /\ rl_answer' = Rooms
        /\ rl_lists' = rl_lists - 1
        /\ UNCHANGED <<rl_channel, rl_overlap>>
    BY <1>6 DEF ListEnd
  <2>2. ASSUME rl_channel # NoListChannel, ~rl_overlap PROVE Idle'
    <3>1. Collecting
      BY <1>0, <2>1, <2>2 DEF ListingInv, Idle
    <3>2. /\ rl_got' = [r \in Rooms |-> rl_got[r] + rl_rooms[r]]
          /\ rl_rooms' = NoRooms /\ ~rl_listing'
      <4>1. rpl_listend
        BY <1>6, <2>2, OpenListHandles DEF ListEnd
      <4>. QED
        BY <3>1, <4>1 DEF rpl_listend, emit_room_signal, Collecting
    <3>. QED
      BY <1>0, <2>1, <3>1, <3>2, NoRoomsFacts DEF Idle, Collecting
  <2>. QED
    BY <1>0, <2>1, <2>2 DEF ListingInv
<1>. QED
  BY <1>1, <1>2, <1>3, <1>4, <1>5, <1>6
     DEF ListStep, RoomListClients, RoomListServer

(* ListingComplete: an open room list that saw no LIST but its own told    *)
(* clients of each room of the server once when its listing ended, through *)
(* any number of rooms, listings and channels closed before it.            *)
THEOREM ListingCorrect == ConnSpec => []ListingComplete
<1>1. ConnInit => ListingInv
  BY DEF ConnInit, RoomListInit, ListingInv
<1>2. [ConnNext]_connVars => [ListStep]_roomlistVars
  <2>1. UNCHANGED connVars => UNCHANGED roomlistVars
    BY DEF connVars, partsVars
  <2>. QED
    BY <2>1, ListSteps DEF ListStep
<1>3. ListingInv => ListingComplete
  BY DEF ListingInv, Idle, Collecting, ListingComplete
<1>. QED
  BY <1>1, <1>2, <1>3, ListingStep, HandlersInvCorrect, ListTypesCorrect, PTL
     DEF ConnSpec

-----------------------------------------------------------------------------
(* Texts.                                                                  *)

(* Of those who would take a message one at most is registered for it; it  *)
(* is called, as nobody that comes before it takes the message.            *)
LEMMA SoleTaker ==
    ASSUME HandlersInv, NEW code \in Codes, NEW handling,
           NEW part \in handling \ {"roomlist"},
           HasPart(registered[code], part),
           \A q \in handling : HasPart(registered[code], q) => q = part
    PROVE  CalledParts(code, handling) \cap handling = {part}
<1> DEFINE list == registered[code]
<1>1. list \in Seq(Closures) /\ InOrder(list)
  BY DEF HandlersInv, TableInv, TableOK
<1>2. DOMAIN list = 1 .. Len(list) /\ Len(list) \in Nat
  BY <1>1, LenProperties
<1>3. PICK i \in DOMAIN list : list[i].part = part
  BY DEF HasPart
<1>4. ASSUME NEW k \in 1 .. i - 1 PROVE list[k].part \notin handling
  <2>1. k \in DOMAIN list /\ k < i
    BY <1>2
  <2>2. list[k].part # part
    BY <1>1, <1>3, <2>1 DEF InOrder
  <2>3. HasPart(list, list[k].part)
    BY <2>1 DEF HasPart
  <2>. QED
    BY <2>2, <2>3
<1>5. list[i] \in Called(code, handling)
  BY <1>4 DEF Called
<1>6. part \in CalledParts(code, handling)
  BY <1>3, <1>5 DEF CalledParts
<1>7. ASSUME NEW q \in CalledParts(code, handling) \cap handling PROVE q = part
  <2>1. PICK j \in DOMAIN list : list[j].part = q
    BY DEF CalledParts, Called
  <2>2. HasPart(list, q)
    BY <2>1 DEF HasPart
  <2>. QED
    BY <2>2
<1>. QED
  BY <1>6, <1>7

LEMMA NoTaker ==
    ASSUME NEW code \in Codes, NEW handling,
           \A q \in handling : ~HasPart(registered[code], q)
    PROVE  CalledParts(code, handling) \cap handling = {}
<1>1. ASSUME NEW q \in CalledParts(code, handling) \cap handling PROVE FALSE
  <2>1. PICK j \in DOMAIN registered[code] : registered[code][j].part = q
    BY DEF CalledParts, Called
  <2>. QED
    BY <2>1 DEF HasPart
<1>. QED
  BY <1>1

(* What the connection's life and the tables of channels have to do with   *)
(* each other: a connected connection has registered its own handlers and  *)
(* its managers have their tables.                                         *)
ConnectedInv ==
    /\ status = "CONNECTED" => handlers
    /\ status # "DISCONNECTED" => im_table

TextFor(command, target, body) ==
    IF Decodes(command, body) THEN {IF target = "nick" THEN "im" ELSE "muc"}
    ELSE IF target = "nick" /\ body = "CTCP_VERSION" THEN {"connection"} ELSE {}

LEMMA TextsTaken ==
    ASSUME HandlersInv, ConnectedInv, status = "CONNECTED",
           NEW command \in {"PRIVMSG", "NOTICE"}, NEW target \in Targets,
           NEW body \in TextBodies
    PROVE  TakenBy(command, target, body) = TextFor(command, target, body)
<1> DEFINE spec == IF target = "nick" THEN "USER" ELSE "CHANNEL"
           code == TextCode[command][spec]
           H == Handling(command, body)
           owner == IF target = "nick" THEN "im" ELSE "muc"
<1>1. TakenBy(command, target, body) = CalledParts(code, H) \cap H
  <2>1. MatchingSpecs(target) = {spec}
    BY DEF MatchingSpecs, Targets
  <2>. QED
    BY <2>1 DEF TakenBy
<1>2. /\ code = IF command = "PRIVMSG"
                THEN IF target = "nick" THEN "PRIVMSG_USER" ELSE "PRIVMSG_CHANNEL"
                ELSE IF target = "nick" THEN "NOTICE_USER" ELSE "NOTICE_CHANNEL"
  BY DEF TextCode
<1> HIDE DEF code
<1>3. /\ code \in Codes
      /\ target = "nick" => code \in ImCodes /\ code \notin MucCodes
      /\ target # "nick" => code \in MucCodes /\ code \notin ImCodes
      /\ code \in ConnectionCodes \cup {"NICK"} <=>
             command = "PRIVMSG" /\ target = "nick"
  BY <1>2 DEF Codes, ConnectionCodes, ImCodes, MucCodes
<1>4. /\ HasPart(registered[code], "connection") <=>
             command = "PRIVMSG" /\ target = "nick"
      /\ HasPart(registered[code], "im") <=> target = "nick"
      /\ HasPart(registered[code], "muc") <=> target # "nick"
  BY <1>3 DEF HandlersInv, TableInv, PartsInv, ConnectedInv
<1>5. /\ H = (IF Decodes(command, body) THEN {"im", "muc"} ELSE {})
             \cup (IF body = "CTCP_VERSION" THEN {"connection"} ELSE {})
  <2>1. im_table
    BY DEF ConnectedInv
  <2>. QED
    BY <2>1 DEF Handling
<1> HIDE DEF H
<1>6. CASE Decodes(command, body)
  <2>1. owner \in H \ {"roomlist"}
    BY <1>5, <1>6
  <2>2. HasPart(registered[code], owner)
    BY <1>4
  <2>3. ASSUME NEW q \in H, HasPart(registered[code], q) PROVE q = owner
    <3>1. CASE q = "connection"
      <4>1. command = "PRIVMSG" /\ body = "CTCP_VERSION"
        BY <1>4, <1>5, <2>3, <3>1
      <4>. QED
        BY <1>6, <4>1 DEF Decodes
    <3>2. CASE q \in {"im", "muc"}
      BY <1>4, <2>3, <3>2
    <3>. QED
      BY <1>5, <2>3, <3>1, <3>2
  <2>4. CalledParts(code, H) \cap H = {owner}
    BY <1>3, <2>1, <2>2, <2>3, SoleTaker
  <2>. QED
    BY <1>1, <1>6, <2>4 DEF TextFor
<1>7. CASE ~Decodes(command, body)
  <2>1. command = "PRIVMSG"
    BY <1>7 DEF Decodes
  <2>2. CASE target = "nick" /\ body = "CTCP_VERSION"
    <3>1. H = {"connection"} /\ HasPart(registered[code], "connection")
      BY <1>4, <1>5, <1>7, <2>1, <2>2
    <3>2. CalledParts(code, H) \cap H = {"connection"}
      BY <1>3, <3>1, SoleTaker
    <3>. QED
      BY <1>1, <1>7, <2>2, <3>2 DEF TextFor
  <2>3. CASE ~(target = "nick" /\ body = "CTCP_VERSION")
    <3>1. \A q \in H : ~HasPart(registered[code], q)
      BY <1>4, <1>5, <1>7, <2>3
    <3>2. CalledParts(code, H) \cap H = {}
      BY <1>3, <3>1, NoTaker
    <3>. QED
      BY <1>1, <1>7, <2>3, <3>2 DEF TextFor
  <2>. QED
    BY <2>2, <2>3
<1>. QED
  BY <1>6, <1>7


LEMMA ConnectingRegisters ==
    ASSUME LifeStep, status # "CONNECTED", status' = "CONNECTED"
    PROVE  handlers /\ (handlers' <=> handlers)
<1>1. \A up : ~ChangeToDisconnected(up)
  BY Zenon DEF ChangeToDisconnected
<1>2. ~sconn_disconnected_cb
  BY <1>1, Zenon DEF sconn_disconnected_cb
<1>3. ~(\/ PasswordRefused \/ Disconnect \/ ServerError \/ NicknameRefused
        \/ ConnectFails \/ SocketCloses)
  BY <1>1, <1>2, Zenon DEF PasswordRefused, Disconnect, ServerError,
     NicknameRefused, ConnectFails, SocketCloses
<1>4. ~(\/ Connect \/ ConnectSucceeds \/ PasswordGiven \/ ThreadReturns \/ Pong
        \/ PingUnknown \/ ReadEnds \/ Keepalive \/ ForceDisconnect
        \/ FinishShutdown)
  <2>1. UNCHANGED status => FALSE
    OBVIOUS
  <2>2. ~Connect
    BY Zenon DEF Connect
  <2>. QED
    BY <2>1, <2>2, Zenon DEF ConnectSucceeds, PasswordGiven, ThreadReturns, Pong,
       PingUnknown, ReadEnds, Keepalive, KeepaliveStops, KeepaliveWaits,
       KeepaliveExpires, KeepalivePings, ForceDisconnect, FinishShutdown,
       shutdownVars
<1>5. Welcome
  BY <1>3, <1>4, Zenon DEF LifeStep, ThreadEnds, FromServer
<1>. QED
  BY <1>5, Zenon DEF Welcome, Received, ChangeToConnected

LEMMA ChatsKeepTheirTable ==
    /\ ImClients => im_table' = im_table
    /\ \A c \in Contacts : ImReceive(c) => im_table' = im_table
BY Zenon DEF ImClients, ImRequest, ImClose, ImDestroy, ImAcknowledge, ImReceive

(* The parts of ConnNext that leave the life of the connection alone keep  *)
(* the table of chats too.                                                 *)
LEMMA ConnectedSteps ==
    ASSUME ConnNext, ~(LifeStep /\ StatusChanged)
    PROVE  UNCHANGED <<status, handlers>> /\ im_table' = im_table
<1>1. UNCHANGED vars => UNCHANGED <<status, handlers>>
  BY DEF vars, shutdownVars
<1>2. UNCHANGED imVars => im_table' = im_table
  BY DEF imVars
<1>3. Certificates => UNCHANGED <<status, handlers>> /\ im_table' = im_table
  BY <1>1, <1>2, CertificatesFrame
<1>4. Listing => UNCHANGED <<status, handlers>> /\ im_table' = im_table
  BY <1>1, <1>2, ClientsFrame
<1>5. Chatting => UNCHANGED <<status, handlers>> /\ im_table' = im_table
  BY <1>1, ChatsKeepTheirTable, ClientsFrame DEF Chatting
<1>6. ASSUME NEW command \in {"PRIVMSG", "NOTICE"}, NEW target \in Targets,
             NEW body \in TextBodies, TextArrives(command, target, body)
      PROVE  UNCHANGED <<status, handlers>> /\ im_table' = im_table
  <2>1. UNCHANGED vars
    BY <1>6 DEF TextArrives
  <2>2. (\E c \in Contacts : ImReceive(c)) \/ UNCHANGED imVars
    BY <1>6 DEF TextArrives
  <2>. QED
    BY <1>1, <1>2, <2>1, <2>2, ChatsKeepTheirTable
<1>7. ASSUME NEW r \in Rooms, ListingArrives(ListReply(r), "LIST")
      PROVE  UNCHANGED <<status, handlers>> /\ im_table' = im_table
  BY <1>1, <1>2, <1>7, ArrivalsFrame
<1>8. ListingArrives(ListEnd, "LISTEND") =>
          UNCHANGED <<status, handlers>> /\ im_table' = im_table
  BY <1>1, <1>2, ArrivalsFrame
<1>. QED
  BY <1>3, <1>4, <1>5, <1>6, <1>7, <1>8, ConnSteps

LEMMA ConnectedStep ==
    TypeOK /\ IInv /\ ConnectedInv /\ [ConnNext]_connVars => ConnectedInv'
<1>. SUFFICES ASSUME TypeOK, IInv, ConnectedInv, [ConnNext]_connVars
              PROVE  ConnectedInv'
  OBVIOUS
<1>1. CASE UNCHANGED connVars
  <2>1. UNCHANGED <<status, handlers, im_table>>
    BY <1>1 DEF connVars, partsVars, vars, shutdownVars, imVars
  <2>. QED
    BY <2>1 DEF ConnectedInv
<1>2. CASE ConnNext /\ ~(LifeStep /\ StatusChanged)
  BY <1>2, ConnectedSteps DEF ConnectedInv
<1>3. CASE LifeStep /\ StatusChanged
  <2>1. /\ handlers => handlers'
        /\ status = "DISCONNECTED" => status' = "DISCONNECTED"
    BY <1>3, LifeStatus
  <2>2. status' = "CONNECTED" => handlers'
    BY <1>3, <2>1, ConnectingRegisters DEF ConnectedInv
  <2>3. ASSUME status' # "DISCONNECTED" PROVE im_table'
    <3>1. UNCHANGED imVars
      BY <1>3, <2>3 DEF StatusChanged, Goes
    <3>. QED
      BY <2>1, <2>3, <3>1 DEF ConnectedInv, imVars
  <2>. QED
    BY <2>2, <2>3 DEF ConnectedInv
<1>. QED
  BY <1>1, <1>2, <1>3

LEMMA ConnectedCorrect == ConnSpec => []ConnectedInv
<1>1. ConnInit => ConnectedInv
  BY DEF ConnInit, Init, ImInit, ConnectedInv
<1>. QED
  BY <1>1, ConnectedStep, LifeImplemented, InvCorrect, PTL DEF ConnSpec

HistoryTypes ==
    /\ exercised \in {"certificates", "chats", "rooms"}
    /\ handled_quitting \in BOOLEAN

(* Who acts on what arrives is only noted when a text arrives.             *)
LEMMA HistorySteps ==
    ASSUME HistoryTypes, ConnNext
    PROVE  /\ HistoryTypes'
           /\ \/ taken' = NoText
              \/ \E command \in {"PRIVMSG", "NOTICE"}, target \in Targets,
                    body \in TextBodies :
                    taken' = [command |-> command, target |-> target,
                              body |-> body,
                              by |-> TakenBy(command, target, body),
                              connected |-> status = "CONNECTED"]
<1>1. Rest => HistoryTypes' /\ taken' = NoText
  BY DEF Rest, HistoryTypes
<1>2. Certificates \/ Chatting \/ Listing => Rest
  BY Zenon DEF Certificates, Tls, Chatting, Listing
<1>3. ASSUME NEW command \in {"PRIVMSG", "NOTICE"}, NEW target \in Targets,
             NEW body \in TextBodies, TextArrives(command, target, body)
      PROVE  /\ HistoryTypes'
             /\ taken' = [command |-> command, target |-> target, body |-> body,
                          by |-> TakenBy(command, target, body),
                          connected |-> status = "CONNECTED"]
  <2>1. /\ exercised' = exercised
        /\ taken' = [command |-> command, target |-> target, body |-> body,
                     by |-> TakenBy(command, target, body),
                     connected |-> status = "CONNECTED"]
    BY <1>3 DEF TextArrives
  <2>2. handled_quitting' =
            (handled_quitting \/ (quitting /\ TakenBy(command, target, body) # {}))
    BY <1>3 DEF TextArrives
  <2>3. handled_quitting' \in BOOLEAN
    BY <2>2, Zenon
  <2>. QED
    BY <2>1, <2>3 DEF HistoryTypes
<1>4. ASSUME NEW action, NEW code, ListingArrives(action, code)
      PROVE  HistoryTypes' /\ taken' = NoText
  <2>1. handled_quitting' \in BOOLEAN
    BY <1>4, Zenon DEF ListingArrives
  <2>. QED
    BY <1>4, <2>1 DEF ListingArrives, HistoryTypes
<1>5. (\E r \in Rooms : ListingArrives(ListReply(r), "LIST"))
          \/ ListingArrives(ListEnd, "LISTEND") => HistoryTypes' /\ taken' = NoText
  <2>1. /\ \A r \in Rooms : ListingArrives(ListReply(r), "LIST") =>
               HistoryTypes' /\ taken' = NoText
        /\ ListingArrives(ListEnd, "LISTEND") => HistoryTypes' /\ taken' = NoText
    BY <1>4
  <2>. QED
    BY <2>1
<1>. QED
  BY <1>1, <1>2, <1>3, <1>5, ConnSteps

(* ConnTypeOK: the types of the parts, as their modules prove them, and of *)
(* what joins them.                                                        *)
THEOREM ConnTypeCorrect == ConnSpec => []ConnTypeOK
<1>1. ConnInit => HistoryTypes
  BY DEF ConnInit, HistoryTypes
<1>2. HistoryTypes /\ [ConnNext]_connVars => HistoryTypes'
  <2>1. HistoryTypes /\ UNCHANGED connVars => HistoryTypes'
    BY DEF connVars, historyVars, HistoryTypes
  <2>. QED
    BY <2>1, HistorySteps
<1>3. TypeOK /\ TlsTypeOK /\ ImInv /\ ListTypes /\ HandlersInv /\ HistoryTypes
          => ConnTypeOK
  <2>1. HandlersInv => registered \in [Codes -> Seq(Closures)]
    BY DEF HandlersInv, TableInv, TableOK
  <2>. QED
    BY <2>1, ListTypesGive
       DEF ImInv, HistoryTypes, ConnTypeOK, Closures, PartNames
<1>. QED
  BY <1>1, <1>2, <1>3, TypeCorrect, LifeImplemented, TlsTypeCorrect,
     CertificatesImplemented, ImInvCorrect, ChatsImplemented, ListTypesCorrect,
     HandlersInvCorrect, PTL DEF ConnSpec

(* TakenOnce: while connected each PRIVMSG and NOTICE is acted on by the   *)
(* part it is meant for and by no other, for any number of contacts and    *)
(* rooms and whatever was registered before.                               *)
THEOREM TakenCorrect == ConnSpec => []TakenOnce
<1>1. ConnInit => TakenOnce /\ HistoryTypes
  BY DEF ConnInit, TakenOnce, HistoryTypes
<1>2. HandlersInv /\ ConnectedInv /\ HistoryTypes /\ TakenOnce
          /\ [ConnNext]_connVars => TakenOnce' /\ HistoryTypes'
  <2>. SUFFICES ASSUME HandlersInv, ConnectedInv, HistoryTypes, TakenOnce,
                       [ConnNext]_connVars
                PROVE  TakenOnce' /\ HistoryTypes'
    OBVIOUS
  <2>1. CASE UNCHANGED connVars
    BY <2>1 DEF connVars, historyVars, TakenOnce, HistoryTypes
  <2>2. CASE ConnNext /\ taken' = NoText
    BY <2>2, HistorySteps DEF TakenOnce
  <2>3. CASE ConnNext /\ taken' # NoText
    <3>1. PICK command \in {"PRIVMSG", "NOTICE"}, target \in Targets,
               body \in TextBodies :
             taken' = [command |-> command, target |-> target, body |-> body,
                       by |-> TakenBy(command, target, body),
                       connected |-> status = "CONNECTED"]
      BY <2>3, HistorySteps
    <3>2. /\ taken'.command = command /\ taken'.target = target
          /\ taken'.body = body /\ taken'.by = TakenBy(command, target, body)
          /\ taken'.connected = (status = "CONNECTED")
      BY <3>1
    <3>3. taken'.connected => taken'.by = TextFor(command, target, body)
      BY <3>2, TextsTaken
    <3>. QED
      BY <2>3, <3>2, <3>3, HistorySteps DEF TakenOnce, TextFor, Decodes
  <2>. QED
    BY <2>1, <2>2, <2>3
<1>. QED
  BY <1>1, <1>2, HandlersInvCorrect, ConnectedCorrect, PTL DEF ConnSpec


===============================================================================
