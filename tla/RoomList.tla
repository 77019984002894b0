-------------------------------- MODULE RoomList --------------------------------
(***************************************************************************)
(* IdleRoomlistManager and the one IdleRoomlistChannel it keeps, with the  *)
(* server that answers LIST.  The server takes the LIST commands one after *)
(* another and answers each with the rooms and an end; nothing in an       *)
(* answer says which LIST it is for.                                       *)
(*                                                                         *)
(* The channel's handlers are registered in the parser with the channel as *)
(* their user_data (ParserHandlers); channels are numbered.                *)
(***************************************************************************)
EXTENDS ParserHandlers

CONSTANTS
    Rooms,              \* the rooms of the server
    MaxLists,           \* bound on the LIST commands sent
    MaxListChannels     \* bound on the channels opened

ASSUME RoomListAssumption == MaxLists \in Nat /\ MaxListChannels \in Nat

VARIABLES
    rl_channel,         \* the number of priv->channel, or NoListChannel
    rl_opened,          \* the channels opened so far
    rl_listing,         \* the channel's priv->listing, as ListingRooms tells
    rl_rooms,           \* its priv->rooms: how often each room waits there
    rl_lists,           \* LIST commands sent and not yet answered
    rl_sent,            \* LIST commands sent
    rl_answer,          \* rooms the answer under way has not named yet
    rl_got,             \* history: GotRooms since the last ListRooms() call
    rl_overlap,         \* history: the channel saw a LIST not its last one
    rl_ended            \* history: its listing ended

roomlistVars == <<rl_channel, rl_opened, rl_listing, rl_rooms, rl_lists,
                  rl_sent, rl_answer, rl_got, rl_overlap, rl_ended>>

NoListChannel == 0
NoRooms == [r \in Rooms |-> 0]

RoomListInit ==
    /\ rl_channel = NoListChannel
    /\ rl_opened = 0
    /\ rl_listing = FALSE
    /\ rl_rooms = NoRooms
    /\ rl_lists = 0
    /\ rl_sent = 0
    /\ rl_answer = Rooms
    /\ rl_got = NoRooms
    /\ rl_overlap = FALSE
    /\ rl_ended = FALSE

-----------------------------------------------------------------------------
(* _roomlist_manager_requestotron() -> _roomlist_manager_new_channel() ->  *)
(* idle_roomlist_channel_constructed().  With a channel open it changes    *)
(* nothing.                                                                *)
OpenRoomList ==
    /\ rl_channel = NoListChannel /\ rl_opened < MaxListChannels
    /\ rl_opened' = rl_opened + 1
    /\ rl_channel' = rl_opened'
    /\ rl_listing' = FALSE
    /\ rl_rooms' = NoRooms
    /\ rl_ended' = FALSE
    /\ rl_overlap' = (rl_lists > 0)
    /\ registered' = RoomlistHandlers(registered, rl_channel')
    /\ UNCHANGED <<rl_lists, rl_sent, rl_answer, rl_got>>

(* idle_roomlist_channel_list_rooms()                                      *)
ListRooms ==
    /\ rl_channel # NoListChannel /\ rl_sent < MaxLists
    /\ rl_listing' = TRUE
    /\ rl_lists' = rl_lists + 1
    /\ rl_sent' = rl_sent + 1
    /\ rl_got' = NoRooms
    /\ rl_overlap' = (rl_overlap \/ rl_lists > 0)
    /\ rl_ended' = FALSE
    /\ UNCHANGED <<rl_channel, rl_opened, rl_rooms, rl_answer, registered>>

(* idle_roomlist_channel_close() -> _roomlist_channel_closed_cb(), which   *)
(* frees the channel.                                                      *)
RemoveListHandlers ==
    registered' = remove_handlers_by_data(registered, rl_channel)

CloseRoomList ==
    /\ rl_channel # NoListChannel
    /\ RemoveListHandlers
    /\ rl_channel' = NoListChannel
    /\ UNCHANGED <<rl_opened, rl_listing, rl_rooms, rl_lists, rl_sent,
                   rl_answer, rl_got, rl_overlap, rl_ended>>

(* _rpl_list_handler(), whether a listing is on or not                     *)
rpl_list(r) == rl_rooms' = [rl_rooms EXCEPT ![r] = @ + 1]

(* emit_room_signal()                                                      *)
KeepsRooms ==
    /\ rl_got' = [r \in Rooms |-> rl_got[r] + rl_rooms[r]]
    /\ UNCHANGED rl_rooms

emit_room_signal ==
    \/ /\ ~rl_listing
       /\ UNCHANGED <<rl_got, rl_rooms>>
    \/ /\ rl_listing
       /\ rl_got' = [r \in Rooms |-> rl_got[r] + rl_rooms[r]]
       /\ rl_rooms' = NoRooms

(* _rpl_listend_handler()                                                  *)
rpl_listend ==
    /\ emit_room_signal
    /\ rl_listing' = FALSE
    /\ rl_ended' = TRUE

(* A message of an answer reaches the channel that handles it, if any; to  *)
(* call a handler of a channel that was freed is undefined behaviour, of   *)
(* which only the outcome that disturbs nothing else is followed here.     *)
Handles(code) == \E c \in Called(code, {"roomlist"}) : c.data = rl_channel

ListReply(r) ==
    /\ rl_lists > 0 /\ r \in rl_answer
    /\ rl_answer' = rl_answer \ {r}
    /\ \/ Handles("LIST") /\ rpl_list(r)
       \/ ~Handles("LIST") /\ UNCHANGED rl_rooms
    /\ UNCHANGED <<rl_channel, rl_opened, rl_listing, rl_lists, rl_sent,
                   rl_got, rl_overlap, rl_ended, registered>>

ListEnd ==
    /\ rl_lists > 0 /\ rl_answer = {}
    /\ rl_answer' = Rooms
    /\ rl_lists' = rl_lists - 1
    /\ \/ Handles("LISTEND") /\ rpl_listend
       \/ /\ ~Handles("LISTEND")
          /\ UNCHANGED <<rl_got, rl_rooms, rl_listing, rl_ended>>
    /\ UNCHANGED <<rl_channel, rl_opened, rl_sent, rl_overlap, registered>>

(* The connection goes to DISCONNECTED: _roomlist_manager_close_all()      *)
(* frees the channel, whose dispose disconnects the status-changed handler *)
(* that would ask for its parser handlers to be removed.                   *)
RoomListDisconnected ==
    /\ rl_channel' = NoListChannel
    /\ rl_listing' = FALSE
    /\ rl_rooms' = NoRooms
    /\ rl_got' = NoRooms
    /\ rl_overlap' = FALSE
    /\ rl_ended' = FALSE
    /\ UNCHANGED <<rl_opened, rl_lists, rl_sent, rl_answer>>

RoomListClients == OpenRoomList \/ ListRooms \/ CloseRoomList
RoomListServer == ListEnd \/ \E r \in Rooms : ListReply(r)

-----------------------------------------------------------------------------
(* Every variable has its type.                                            *)
RoomListTypeOK ==
    /\ rl_opened \in 0 .. MaxListChannels
    /\ rl_channel \in {NoListChannel, rl_opened}
    /\ rl_listing \in BOOLEAN
    /\ rl_rooms \in [Rooms -> 0 .. MaxLists]
    /\ rl_sent \in 0 .. MaxLists
    /\ rl_lists \in 0 .. rl_sent
    /\ rl_answer \subseteq Rooms
    /\ rl_got \in [Rooms -> 0 .. MaxLists]
    /\ rl_overlap \in BOOLEAN
    /\ rl_ended \in BOOLEAN

(* A listing ends with every room of the server told once, as long as no   *)
(* other LIST was unanswered when the channel was opened or any listing of *)
(* the channel asked for: neither what an earlier listing left nor the     *)
(* answer to a channel closed before it gets in.                           *)
ListingComplete ==
    rl_channel # NoListChannel /\ rl_ended /\ ~rl_overlap =>
        \A r \in Rooms : rl_got[r] = 1
===============================================================================
