------------------------------ MODULE MucManager ------------------------------
(***************************************************************************)
(* IdleMUCManager and the life of its IdleMUCChannels: requests, joining,  *)
(* the room's password, invitations, being kicked, closing, destroying and *)
(* respawning, from Connect() to the end of the connection.                *)
(*                                                                         *)
(* The server handles the commands for a room in their order and answers   *)
(* each at once, which is the same as later: nothing overtakes an answer.  *)
(* A command or a callback with all it calls is one action.  The modes of  *)
(* a room are the subject of MucModes, members other than the user make no *)
(* difference here.                                                        *)
(***************************************************************************)
EXTENDS Integers, Sequences

CONSTANTS
    Rooms,        \* room handles
    Tokens,       \* request tokens, one for each request of a client
    Inviting,     \* the rooms to which somebody may invite the user
    MaxWire       \* bound on the commands on their way, for each room

ASSUME MucManagerAssumption ==
    /\ Rooms # {} /\ Inviting \subseteq Rooms
    /\ MaxWire \in Nat

VARIABLES
    link,         \* CONNECTED ("up"), after the user's QUIT ("closing"),
                  \* DISCONNECTED ("down")
    requested,    \* the tokens of the requests made so far
    chan,         \* priv->channels with priv->queued_requests, by room
    wire,         \* commands the server has not handled yet, by room
    in_room       \* whether the user is in the room, for the server

vars == <<link, requested, chan, wire, in_room>>

(* A room without a channel; it still remembers how often a token was      *)
(* replied to.                                                             *)
NoChannel(replies) ==
    [state |-> "none",        \* priv->state
     join_ready |-> FALSE,    \* priv->join_ready
     self |-> "none",         \* the set of the group the user is in
     prompt |-> FALSE,        \* TP_CHANNEL_PASSWORD_FLAG_PROVIDE
     passwd_ctx |-> FALSE,    \* priv->passwd_ctx # NULL
     tokens |-> {},           \* its queued requests
     announced |-> 0,         \* NewChannels since the last ChannelClosed
     refused |-> FALSE,       \* since the last password given, history: a
                              \* join error came that nobody is told of,
     unheard |-> FALSE,       \* and a refusal that no handler takes
     replies |-> replies]     \* history: replies to each token

Exists(c) == c.state # "none"

Init ==
    /\ link = "up"
    /\ requested = {}
    /\ chan = [r \in Rooms |-> NoChannel([t \in Tokens |-> 0])]
    /\ wire = [r \in Rooms |-> <<>>]
    /\ in_room = [r \in Rooms |-> FALSE]

-----------------------------------------------------------------------------
(* Steps of a channel, as functions of it.                                 *)

(* Every token of ts gets a reply, be it a channel or a failure.           *)
Reply(c, ts) ==
    [c EXCEPT !.replies = [t \in Tokens |->
                              @[t] + (IF t \in ts THEN 1 ELSE 0)]]

(* take_request_tokens(), each then being replied to.                      *)
KeepTokens(c) == Reply(c, c.tokens)
TakeTokens(c) == [Reply(c, c.tokens) EXCEPT !.tokens = {}]
DropTokens(c) == [c EXCEPT !.tokens = {}]

(* tp_channel_manager_emit_new_channel()                                   *)
Announce(c) == [c EXCEPT !.announced = @ + 1]

(* _muc_manager_new_channel(), idle_muc_channel_constructed()              *)
NewChannel(c, by_request) ==
    [c EXCEPT !.state = "CREATED",
              !.self = IF by_request THEN "remote" ELSE "none"]

(* tp_base_channel_destroyed() -> _channel_closed_cb()                     *)
Destroyed(c) == NoChannel(TakeTokens(c).replies)

(* tp_base_channel_reopened() -> _channel_closed_cb()                      *)
Unannounced(c) == [TakeTokens(c) EXCEPT !.announced = 0]
Reopened(c) == Announce([TakeTokens(c) EXCEPT !.announced = 0])

(* The join-ready signal -> _channel_join_ready_cb()                       *)
JoinReady(c) == [Announce(TakeTokens(c)) EXCEPT !.join_ready = TRUE]

(* change_state()                                                          *)
KeepsPrompt(c, state) == c.prompt \/ state = "NEED_PASSWORD"
PromptAfter(c, state) ==
    \/ c.state \in {"CREATED", "JOINING"} /\ state = "NEED_PASSWORD"
    \/ c.prompt /\ ~(c.state = "NEED_PASSWORD" /\ state = "JOINED")

OnlySuccessAnswers(c, state) ==
    /\ c.passwd_ctx
    /\ ~(c.state = "NEED_PASSWORD" /\ state = "JOINED")
ContextAfter(c, state) ==
    /\ c.passwd_ctx
    /\ ~(c.state = "NEED_PASSWORD" /\ state \in {"NEED_PASSWORD", "JOINED"})

ChangeState(c, state) ==
    LET ready ==
          IF state \in {"NEED_PASSWORD", "JOINED", "PARTED"} /\ ~c.join_ready
          THEN JoinReady(c) ELSE c
    IN  [ready EXCEPT !.prompt = PromptAfter(c, state),
                      !.passwd_ctx = ContextAfter(c, state),
                      !.state = state]

(* idle_muc_channel_join() for the user                                    *)
Joined(c) == [ChangeState(c, "JOINED") EXCEPT !.self = "member"]

(* idle_muc_channel_join_error(), and a refusal that is not handled.       *)
SilentJoinError(c) == [c EXCEPT !.refused = TRUE]
JoinError(c) ==
    IF c.join_ready THEN [c EXCEPT !.refused = TRUE] ELSE Destroyed(c)
Unheard(c) == [c EXCEPT !.unheard = TRUE]

(* _network_member_left() for the user                                     *)
MemberLeft(c) == Destroyed(ChangeState(c, "PARTED"))

-----------------------------------------------------------------------------
Update(r, c) == chan' = [chan EXCEPT ![r] = c]
Send(r, cmd) == wire' = [wire EXCEPT ![r] = Append(@, cmd)]

ClientCalls(r) ==
    /\ link # "down"
    /\ Len(wire[r]) < MaxWire
    /\ UNCHANGED <<link, in_room>>

(* A client calls methods of a channel that was announced.                 *)
ChannelCall(r) ==
    /\ ClientCalls(r)
    /\ Exists(chan[r]) /\ chan[r].announced > 0
    /\ UNCHANGED requested

(* _muc_manager_request(), from CreateChannel() or EnsureChannel().        *)
CreateChannel(r, t) ==
    /\ ClientCalls(r)
    /\ t \notin requested
    /\ requested' = requested \cup {t}
    /\ Exists(chan[r])
    /\ Update(r, Reply(chan[r], {t}))
    /\ UNCHANGED wire

EnsureChannel(r, t) ==
    /\ ClientCalls(r)
    /\ t \notin requested
    /\ requested' = requested \cup {t}
    /\ Exists(chan[r])
    /\ Update(r, IF chan[r].join_ready THEN Reply(chan[r], {t})
                 ELSE [chan[r] EXCEPT !.tokens = @ \cup {t}])
    /\ UNCHANGED wire

RequestNewChannel(r, t) ==
    /\ ClientCalls(r)
    /\ t \notin requested
    /\ requested' = requested \cup {t}
    /\ ~Exists(chan[r])
    /\ Update(r, [NewChannel(chan[r], TRUE) EXCEPT !.tokens = {t}])
    /\ Send(r, "JOIN")

(* add_member() for the user: accepting an invitation.                     *)
AddSelf(r) ==
    /\ ChannelCall(r)
    /\ chan[r].self \notin {"member", "remote"}
    /\ Update(r, [ChangeState(chan[r], "JOINING") EXCEPT !.self = "remote"])
    /\ Send(r, "JOIN")

(* remove_member() for the user                                            *)
RemoveSelf(r) ==
    /\ ChannelCall(r)
    /\ Send(r, "PART")
    /\ UNCHANGED chan

(* idle_muc_channel_close()                                                *)
DestroyedOnClose(c) == Destroyed(c)
Closed(c) == IF c.state = "JOINED" THEN Reopened(c) ELSE Destroyed(c)

Close(r) ==
    /\ ChannelCall(r)
    /\ Update(r, Closed(chan[r]))
    /\ UNCHANGED wire

(* idle_muc_channel_destroy()                                              *)
Destroy(r) ==
    /\ ChannelCall(r)
    /\ \/ /\ chan[r].state = "JOINED"
          /\ Send(r, "PART")
          /\ UNCHANGED chan
       \/ /\ chan[r].state \in {"CREATED", "JOINING", "NEED_PASSWORD"}
          /\ Update(r, Destroyed(chan[r]))
          /\ UNCHANGED wire

(* idle_muc_channel_provide_password().  A call that is not needed or not  *)
(* the first at once returns an error.                                     *)
ProvidePassword(r) ==
    /\ ChannelCall(r)
    /\ chan[r].prompt /\ ~chan[r].passwd_ctx
    /\ Update(r, [chan[r] EXCEPT !.passwd_ctx = TRUE,
                                 !.refused = FALSE, !.unheard = FALSE])
    /\ Send(r, "JOIN")

-----------------------------------------------------------------------------
(* _join_handler() for the user, who may not have asked for it: a bouncer  *)
(* makes the client join.                                                  *)
JoinHandler(r) ==
    LET c == IF Exists(chan[r]) THEN chan[r] ELSE NewChannel(chan[r], FALSE)
    IN  Update(r, Joined(c))

(* A JOIN is refused: idle_muc_channel_badchannelkey() for 475,            *)
(* idle_muc_channel_join_error() for 471, 473 and 474, and nothing at all  *)
(* for the other numerics a server may answer with (403, 405, 437, 476,    *)
(* 477), which have no handler.                                            *)
Refused(r) ==
    IF Exists(chan[r])
    THEN \/ Update(r, ChangeState(chan[r], "NEED_PASSWORD"))
         \/ Update(r, JoinError(chan[r]))
         \/ Update(r, Unheard(chan[r]))
    ELSE UNCHANGED chan

LeaveRoom(r) ==
    /\ in_room' = [in_room EXCEPT ![r] = FALSE]
    /\ Update(r, IF Exists(chan[r]) THEN MemberLeft(chan[r]) ELSE chan[r])

(* The server takes the next command for a room.  It ignores a JOIN of who *)
(* is in the room and a PART of who is not.                                *)
HandleCommand(r, cmd) ==
    /\ link = "up"
    /\ wire[r] # <<>> /\ Head(wire[r]) = cmd
    /\ wire' = [wire EXCEPT ![r] = Tail(@)]
    /\ UNCHANGED <<link, requested>>

HandleJoin(r) ==
    /\ HandleCommand(r, "JOIN")
    /\ \/ /\ in_room[r]
          /\ UNCHANGED <<chan, in_room>>
       \/ /\ ~in_room[r]
          /\ in_room' = [in_room EXCEPT ![r] = TRUE]
          /\ JoinHandler(r)
       \/ /\ ~in_room[r]
          /\ Refused(r)
          /\ UNCHANGED in_room

HandlePart(r) ==
    /\ HandleCommand(r, "PART")
    /\ \/ in_room[r] /\ LeaveRoom(r)
       \/ ~in_room[r] /\ UNCHANGED <<chan, in_room>>

BouncerJoins(r) ==
    /\ link = "up" /\ ~in_room[r]
    /\ in_room' = [in_room EXCEPT ![r] = TRUE]
    /\ JoinHandler(r)
    /\ UNCHANGED <<link, requested, wire>>

(* _kick_handler()                                                         *)
Kick(r) ==
    /\ link = "up" /\ in_room[r]
    /\ LeaveRoom(r)
    /\ UNCHANGED <<link, requested, wire>>

(* _invite_handler() -> idle_muc_channel_invited()                         *)
Invite(r) ==
    /\ r \in Inviting /\ link = "up" /\ ~in_room[r]
    /\ ~Exists(chan[r])
    /\ Update(r, [Announce(NewChannel(chan[r], FALSE)) EXCEPT !.self = "local"])
    /\ UNCHANGED <<link, requested, wire, in_room>>

(* _quit_handler() for the user, after which the server handles nothing    *)
(* and ends the connection.  The visit to the channels removes them from   *)
(* the table it iterates over, which leaves undefined how many it reaches  *)
(* after the first.                                                        *)
QuitSelf(rs) ==
    /\ link = "up"
    /\ link' = "closing"
    /\ rs # {} /\ \A r \in rs : Exists(chan[r])
    /\ in_room' = [r \in Rooms |-> FALSE]
    /\ chan' = [r \in Rooms |->
                  IF r \in rs THEN MemberLeft(chan[r]) ELSE chan[r]]
    /\ wire' = [r \in Rooms |-> <<>>]
    /\ UNCHANGED requested

(* connection_status_changed_cb() -> _muc_manager_close_all()              *)
LeaveRequests(c) == NoChannel(c.replies)
CloseAll(c) == IF Exists(c) THEN Destroyed(c) ELSE c

Disconnected ==
    /\ link # "down"
    /\ link' = "down"
    /\ chan' = [r \in Rooms |-> CloseAll(chan[r])]
    /\ wire' = [r \in Rooms |-> <<>>]
    /\ in_room' = [r \in Rooms |-> FALSE]
    /\ UNCHANGED requested

-----------------------------------------------------------------------------
ClientNext(r) ==
    \/ \E t \in Tokens :
          CreateChannel(r, t) \/ EnsureChannel(r, t) \/ RequestNewChannel(r, t)
    \/ AddSelf(r) \/ RemoveSelf(r) \/ Close(r) \/ Destroy(r)
    \/ ProvidePassword(r)

ServerHandles(r) == HandleJoin(r) \/ HandlePart(r)

Next ==
    \/ \E r \in Rooms :
          \/ ClientNext(r) \/ ServerHandles(r)
          \/ BouncerJoins(r) \/ Kick(r) \/ Invite(r)
    \/ \E rs \in SUBSET Rooms : QuitSelf(rs)
    \/ Disconnected

Spec == Init /\ [][Next]_vars

(* The server handles every command it is sent, and closes the connection  *)
(* of a user who has quit.                                                 *)
FairSpec ==
    /\ Spec
    /\ \A r \in Rooms : WF_vars(ServerHandles(r))
    /\ WF_vars(link = "closing" /\ Disconnected)

-----------------------------------------------------------------------------
ChannelType ==
    [state : {"none", "CREATED", "JOINING", "NEED_PASSWORD", "JOINED"},
     join_ready : BOOLEAN,
     self : {"none", "local", "remote", "member"},
     prompt : BOOLEAN,
     passwd_ctx : BOOLEAN,
     tokens : SUBSET Tokens,
     announced : Nat,
     refused : BOOLEAN,
     unheard : BOOLEAN,
     replies : [Tokens -> Nat]]

(* Every variable has its type.                                            *)
TypeOK ==
    /\ link \in {"up", "closing", "down"}
    /\ requested \subseteq Tokens
    /\ chan \in [Rooms -> ChannelType]
    /\ wire \in [Rooms -> Seq({"JOIN", "PART"})]
    /\ in_room \in [Rooms -> BOOLEAN]

(* Where a request stands: how often it was replied to, in all rooms.      *)
Replied(t, n) ==
    \E r \in Rooms :
       /\ chan[r].replies[t] = n
       /\ \A q \in Rooms \ {r} : chan[q].replies[t] = 0

Waiting(t) == {r \in Rooms : t \in chan[r].tokens}

(* A request is replied to exactly once, or is still queued for exactly    *)
(* one channel, which has yet to become ready (take_request_tokens(),      *)
(* whoever closes or opens the channel first).                             *)
RequestAnswered ==
    \A t \in Tokens :
       IF t \notin requested THEN Waiting(t) = {} /\ Replied(t, 0)
       ELSE \/ Waiting(t) = {} /\ Replied(t, 1)
            \/ /\ Replied(t, 0)
               /\ \E r \in Rooms :
                     /\ Waiting(t) = {r}
                     /\ Exists(chan[r]) /\ ~chan[r].join_ready

(* A room the user is in, for the server, has a channel that is joined: no *)
(* close, destroy or late answer loses it (idle_muc_channel_close() keeps  *)
(* a joined channel, _join_handler() makes one for an unexpected JOIN).    *)
InRoomIsJoined ==
    \A r \in Rooms :
       in_room[r] => chan[r].state = "JOINED" /\ chan[r].self = "member"

(* Where nobody invites, clients are asked for a password exactly while    *)
(* the room needs one, and only then can a ProvidePassword() be pending    *)
(* (change_state(), provide_password_reply()).                             *)
PromptMatches ==
    \A r \in Rooms \ Inviting :
       /\ chan[r].prompt <=> chan[r].state = "NEED_PASSWORD"
       /\ chan[r].passwd_ctx => chan[r].prompt

(* Where nobody invites, clients know of a channel from the moment it is   *)
(* ready, and were told once since it last closed.                         *)
AnnouncedWhenReady ==
    \A r \in Rooms \ Inviting :
       chan[r].announced =
          IF Exists(chan[r]) /\ chan[r].join_ready THEN 1 ELSE 0

(* A request for a room the user is joining is answered, unless the server *)
(* refuses the JOIN with a numeric that no handler takes: then nothing     *)
(* tells the client.  One for a room the user was invited to waits for the *)
(* user to answer the invitation.                                          *)
RequestFinishes ==
    \A r \in Rooms : \A t \in Tokens :
       (t \in chan[r].tokens /\ chan[r].self = "remote")
          ~> (t \notin chan[r].tokens \/ chan[r].unheard)

(* Where nobody invites, a ProvidePassword() returns when the server has   *)
(* answered, or is given up with its channel, unless the JOIN was refused  *)
(* for another reason than the password, of which                          *)
(* idle_muc_channel_join_error() tells nobody, if it is called at all.     *)
PasswordAnswered ==
    \A r \in Rooms \ Inviting :
       chan[r].passwd_ctx
          ~> (~chan[r].passwd_ctx \/ chan[r].refused \/ chan[r].unheard)
===============================================================================
