---------------------------- MODULE ParserHandlers ----------------------------
(***************************************************************************)
(* Who gets to see a message from the server: the handlers that the parts  *)
(* of a connection register with its IdleParser, by message code, and the  *)
(* order in which _parse_and_forward_one() calls them.                     *)
(***************************************************************************)
EXTENDS Integers, Sequences, FiniteSets

VARIABLE registered     \* priv->handlers: by code, a list of closures

FIRST == 0
DEFAULT == 300

(* The user_data of a closure: a part there is one of, or a channel of the *)
(* room list, numbered from 1.                                             *)
ConnectionData == -1
ImData == -2
MucData == -3

(* The codes with handlers, by the part that registers for them.           *)
ConnectionCodes ==
    {"ERROR", "ERRONEOUSNICKNAME", "NICKNAMEINUSE", "WELCOME", "WHOISUSER",
     "PING", "PONG", "UNKNOWNCOMMAND", "PRIVMSG_USER"}

ContactInfoCodes ==
    {"WHOISUSER", "WHOISCHANNELS", "WHOISSERVER", "WHOISOPERATOR", "AWAY",
     "WHOISHOST", "WHOISREGNICK", "WHOISSECURE", "WHOISIDLE",
     "WHOISLOGGEDIN", "ENDOFWHOIS", "NOSUCHSERVER", "TRYAGAIN"}

ImCodes == {"NOTICE_USER", "PRIVMSG_USER"}

MucCodes ==
    {"BADCHANNELKEY", "BANNEDFROMCHAN", "CHANNELISFULL", "INVITEONLYCHAN",
     "MODEREPLY", "NAMEREPLY", "NAMEREPLY_END", "TOPIC_REPLY", "TOPIC_STAMP",
     "INVITE", "JOIN", "KICK", "MODE_CHANNEL", "NICK", "NOTICE_CHANNEL",
     "PRIVMSG_CHANNEL", "PART", "QUIT", "TOPIC"}

RoomlistCodes == {"LIST", "LISTEND"}

Codes == ConnectionCodes \cup {"NICK"} \cup ContactInfoCodes \cup ImCodes
         \cup MucCodes \cup RoomlistCodes

(* MessageHandlerClosure.  The connection and its contact-info code give   *)
(* the same user_data, so the part that registers tells the handler.       *)
Closure(part, data, priority) ==
    [part |-> part, data |-> data, priority |-> priority]

-----------------------------------------------------------------------------
(* idle_parser_add_handler_with_priority(): g_slist_insert_sorted() puts a *)
(* closure before those of its own priority.                               *)
InsertedLast(list, closure) ==
    LET before == {i \in DOMAIN list : list[i].priority <= closure.priority}
        n == Cardinality(before)
    IN  SubSeq(list, 1, n) \o <<closure>> \o SubSeq(list, n + 1, Len(list))

InsertSorted(list, closure) ==
    LET before == {i \in DOMAIN list : list[i].priority < closure.priority}
        n == Cardinality(before)
    IN  SubSeq(list, 1, n) \o <<closure>> \o SubSeq(list, n + 1, Len(list))

add_handlers(table, codes, closure) ==
    [c \in Codes |-> IF c \in codes THEN InsertSorted(table[c], closure)
                     ELSE table[c]]

(* idle_parser_remove_handlers_by_data().  The function that               *)
(* g_slist_find_custom() calls takes its second argument, which is the     *)
(* user_data looked for, for a closure as well.  What it reads there as a  *)
(* user_data is the word of a GObject that holds its reference count, and  *)
(* that is no closure's: none is found, so none is removed.                *)
remove_handlers_by_data(table, data) == table

(* The parts register: contact_info_init() with the connection and         *)
(* _connection_connect_ready() for it, the managers in their               *)
(* status-changed handlers.  The user_data of a room list is the channel.  *)
ContactInfoHandlers(table) ==
    add_handlers(table, ContactInfoCodes,
                 Closure("contact_info", ConnectionData, DEFAULT))

ConnectionHandlers(table) ==
    add_handlers(add_handlers(table, ConnectionCodes,
                              Closure("connection", ConnectionData, DEFAULT)),
                 {"NICK"}, Closure("connection", ConnectionData, FIRST))

ManagerHandlers(table) ==
    add_handlers(add_handlers(table, ImCodes, Closure("im", ImData, DEFAULT)),
                 MucCodes, Closure("muc", MucData, DEFAULT))

RoomlistHandlers(table, chan) ==
    add_handlers(table, RoomlistCodes, Closure("roomlist", chan, DEFAULT))

NoHandlers == [c \in Codes |-> <<>>]

-----------------------------------------------------------------------------
(* The closures called for a message with that code, those of the parts in *)
(* handling answering HANDLED, which ends the loop of                      *)
(* _parse_and_forward_one(); no handler answers NO_MORE_PLEASE.            *)
Called(code, handling) ==
    LET list == registered[code]
    IN  {list[i] : i \in {j \in DOMAIN list :
             \A k \in 1 .. j - 1 : list[k].part \notin handling}}

CalledParts(code, handling) == {c.part : c \in Called(code, handling)}

(* _parse_message() offers a PRIVMSG or a NOTICE to two specifications,    *)
(* for a room and for a contact, and only a valid name gets through        *)
(* _parse_atom(): a channel name may begin with '!', which is neither      *)
(* taken for a mode character before a nick nor a nick when cut there.     *)
Targets == {"nick", "#room", "!room"}

StripsBang(target) ==
    (IF target \in {"nick", "!room"} THEN {"USER"} ELSE {})
    \cup (IF target \in {"#room", "!room"} THEN {"CHANNEL"} ELSE {})

MatchingSpecs(target) ==
    (IF target = "nick" THEN {"USER"} ELSE {})
    \cup (IF target \in {"#room", "!room"} THEN {"CHANNEL"} ELSE {})

(* The codes of message_specs[] for them.                                  *)
TextCode ==
    [PRIVMSG |-> [USER |-> "PRIVMSG_USER", CHANNEL |-> "PRIVMSG_CHANNEL"],
     NOTICE |-> [USER |-> "NOTICE_USER", CHANNEL |-> "NOTICE_CHANNEL"]]
===============================================================================
