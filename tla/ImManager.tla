------------------------------- MODULE ImManager -------------------------------
(***************************************************************************)
(* IdleIMManager and its IdleIMChannels: one-to-one chats.  A chat opens   *)
(* when a client asks for it or when the contact writes, and one that is   *)
(* closed with unread messages comes back at once, in the middle of its    *)
(* own closed signal, as a chat the contact opened.                        *)
(*                                                                         *)
(* A request for a chat is answered in the callback that brings it; the    *)
(* answer itself is not kept.                                              *)
(***************************************************************************)
EXTENDS Integers

CONSTANTS
    Contacts,           \* the contacts that may write or be written to
    Self,               \* the handle of the user
    MaxTexts            \* bound on the messages received

ASSUME ImAssumption == Self \notin Contacts /\ MaxTexts \in Nat

VARIABLES
    im_table,           \* priv->channels # NULL
    im_channels,        \* priv->channels: the chat with each contact, or none
    im_pending,         \* unread messages of each chat: id |-> rescued
    im_received,        \* the number of messages received
    im_told,            \* what clients were last told of each chat, or none
    im_settled          \* history: the messages a client read or gave up

imVars == <<im_table, im_channels, im_pending, im_received, im_told, im_settled>>

(* No chat is at once the user's and not asked for by a client.            *)
NoChat == [initiator |-> Self, requested |-> FALSE]
Chats == [initiator : Contacts, requested : {FALSE}]
         \cup [initiator : {Self}, requested : {TRUE}]
Texts == 1 .. MaxTexts

Empty == [t \in {} |-> FALSE]
Chat(initiator, c) == [initiator |-> initiator, requested |-> initiator # c]

ImInit ==
    /\ im_table = TRUE
    /\ im_channels = [c \in Contacts |-> NoChat]
    /\ im_pending = [c \in Contacts |-> Empty]
    /\ im_received = 0
    /\ im_told = [c \in Contacts |-> NoChat]
    /\ im_settled = {}

-----------------------------------------------------------------------------
(* _im_manager_new_channel(), with its NewChannels signal                  *)
new_channel(c, initiator) ==
    /\ im_channels' = [im_channels EXCEPT ![c] = Chat(initiator, c)]
    /\ im_told' = [im_told EXCEPT ![c] = Chat(initiator, c)]

(* idle_im_channel_receive()                                               *)
receive(c) ==
    /\ im_received' = im_received + 1
    /\ im_pending' = [im_pending EXCEPT ![c] =
           [t \in DOMAIN @ \cup {im_received'} |->
               t \in DOMAIN @ /\ @[t]]]

(* _notice_privmsg_handler(), the message being one it can decode          *)
ImReceive(c) ==
    /\ im_table /\ im_received < MaxTexts
    /\ \/ im_channels[c] = NoChat /\ new_channel(c, c)
       \/ im_channels[c] # NoChat /\ UNCHANGED <<im_channels, im_told>>
    /\ receive(c)
    /\ UNCHANGED <<im_table, im_settled>>

(* _im_manager_requestotron().  A request for a chat that is open, or with *)
(* the user, changes nothing.                                              *)
ImRequest(c) ==
    /\ im_table /\ im_channels[c] = NoChat
    /\ new_channel(c, Self)
    /\ UNCHANGED <<im_table, im_pending, im_received, im_settled>>

(* A client acknowledges a message (TpMessageMixin).                       *)
ImAcknowledge(c, t) ==
    /\ t \in DOMAIN im_pending[c]
    /\ im_pending' = [im_pending EXCEPT ![c] =
                         [u \in DOMAIN @ \ {t} |-> @[u]]]
    /\ im_settled' = im_settled \cup {t}
    /\ UNCHANGED <<im_table, im_channels, im_received, im_told>>

(* tp_base_channel_destroyed() -> _im_channel_closed_cb()                  *)
remove_channel(c) ==
    /\ im_channels' = [im_channels EXCEPT ![c] = NoChat]
    /\ im_told' = [im_told EXCEPT ![c] = NoChat]

(* idle_im_channel_close() of a chat with unread messages:                 *)
(* tp_message_mixin_set_rescued(), then tp_base_channel_reopened() makes   *)
(* the contact the initiator and emits closed, on which                    *)
(* _im_channel_closed_cb() announces the chat again.                       *)
Rescued(c) ==
    im_pending' = [im_pending EXCEPT ![c] = [t \in DOMAIN @ |-> TRUE]]

ForgetsUnread(c) ==
    /\ im_pending' = [im_pending EXCEPT ![c] = Empty]
    /\ remove_channel(c)

KeepsInitiator(c) == Rescued(c) /\ UNCHANGED <<im_channels, im_told>>

ReopenChannel(c) ==
    /\ Rescued(c)
    /\ im_channels' = [im_channels EXCEPT ![c] = Chat(c, c)]
    /\ im_told' = [im_told EXCEPT ![c] = im_channels'[c]]

ImClose(c) ==
    /\ im_table /\ im_channels[c] # NoChat
    /\ \/ DOMAIN im_pending[c] # {} /\ ReopenChannel(c)
       \/ /\ DOMAIN im_pending[c] = {}
          /\ remove_channel(c)
          /\ UNCHANGED im_pending
    /\ UNCHANGED <<im_table, im_received, im_settled>>

(* idle_im_channel_destroy()                                               *)
ImDestroy(c) ==
    /\ im_table /\ im_channels[c] # NoChat
    /\ im_settled' = im_settled \cup DOMAIN im_pending[c]
    /\ im_pending' = [im_pending EXCEPT ![c] = Empty]
    /\ remove_channel(c)
    /\ UNCHANGED <<im_table, im_received>>

(* _im_manager_close_all(): disposing of a channel destroys it.  What is   *)
(* unread then is lost with the connection.                                *)
ImDisconnected ==
    /\ im_table' = FALSE
    /\ im_channels' = [c \in Contacts |-> NoChat]
    /\ im_told' = [c \in Contacts |-> NoChat]
    /\ im_settled' = im_settled \cup UNION {DOMAIN im_pending[c] : c \in Contacts}
    /\ im_pending' = [c \in Contacts |-> Empty]
    /\ UNCHANGED im_received

ImClients ==
    \E c \in Contacts :
        \/ ImRequest(c) \/ ImClose(c) \/ ImDestroy(c)
        \/ \E t \in Texts : ImAcknowledge(c, t)

ImNext == ImClients \/ (\E c \in Contacts : ImReceive(c)) \/ ImDisconnected

ImSpec == ImInit /\ [][ImNext]_imVars

-----------------------------------------------------------------------------
(* Every variable has its type.                                            *)
ImTypeOK ==
    /\ im_table \in BOOLEAN
    /\ im_channels \in [Contacts -> Chats \cup {NoChat}]
    /\ im_received \in 0 .. MaxTexts
    /\ DOMAIN im_pending = Contacts
    /\ \A c \in Contacts :
          /\ DOMAIN im_pending[c] \subseteq 1 .. im_received
          /\ im_pending[c] \in [DOMAIN im_pending[c] -> BOOLEAN]
    /\ im_told \in [Contacts -> Chats \cup {NoChat}]
    /\ im_settled \subseteq 1 .. im_received

(* A message received is waiting, once, in a chat that clients know of     *)
(* until one of them has read it, destroyed the chat or disconnected:      *)
(* closing the chat does not lose it.                                      *)
NothingUnreadLost ==
    \A t \in 1 .. im_received :
        t \notin im_settled =>
            \E c \in Contacts :
                /\ t \in DOMAIN im_pending[c] /\ im_told[c] # NoChat
                /\ \A d \in Contacts \ {c} : t \notin DOMAIN im_pending[d]

(* Clients are told of a chat as it is, and one with messages that         *)
(* outlived a close is told as the contact's: it was never asked for.      *)
ChatsAsTold ==
    /\ im_told = im_channels
    /\ \A c \in Contacts : \A t \in DOMAIN im_pending[c] :
          im_pending[c][t] => im_told[c] = Chat(c, c)
===============================================================================
