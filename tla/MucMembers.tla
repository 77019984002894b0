------------------------------ MODULE MucMembers ------------------------------
(***************************************************************************)
(* Who is in a room, as IdleMUCChannel tells it to the group mixin, for    *)
(* one room whose server sends what happens in order and handles the       *)
(* user's commands in order.  Clients call in between, on what has been    *)
(* received so far.                                                        *)
(*                                                                         *)
(* A contact is a nickname; nicknames change, also that of the user.       *)
(* Passwords, the tokens of requests and several rooms are the subject of  *)
(* MucManager.                                                             *)
(***************************************************************************)
EXTENDS Integers, Sequences

CONSTANTS
    Contacts,       \* the handles of nicknames
    Me,             \* the user's first nickname
    MaxComing,      \* bound on the messages on their way before one is added
    MaxCommands     \* bound on the commands on their way

Nobody == "nobody"

ASSUME MucMembersAssumption ==
    /\ Me \in Contacts /\ Nobody \notin Contacts
    /\ MaxComing \in Nat /\ MaxCommands \in Nat

VARIABLES
    present,        \* the server: the others in the room
    here,           \* whether the user is
    nick,           \* the user's nickname
    coming,         \* messages on their way to the user
    commands,       \* commands on their way to the server
    self_handle,    \* TpBaseConnection's self handle
    group           \* the channel with its TpGroupMixin

serverVars == <<present, here, nick>>
membersVars == <<serverVars, coming, commands, self_handle, group>>

NoReply == {Nobody}

NoGroup ==
    [state |-> "none",      \* priv->state
     announced |-> FALSE,
     members |-> {},
     local |-> {},          \* local_pending
     remote |-> {},         \* remote_pending
     self |-> Nobody,       \* group.self_handle
     names |-> NoReply,     \* priv->namereply_set
     inviter |-> Nobody]    \* history: who was put in for inviting the user

Created == [NoGroup EXCEPT !.state = "CREATED", !.self = self_handle]

MembersInit ==
    /\ present \in SUBSET (Contacts \ {Me})
    /\ here = FALSE
    /\ nick = Me
    /\ coming = <<>>
    /\ commands = <<>>
    /\ self_handle = Me
    /\ group = NoGroup

-----------------------------------------------------------------------------
(* Steps of the channel.                                                   *)

(* tp_group_mixin_change_members()                                         *)
ChangeMembers(g, add, remove, local, remote) ==
    [g EXCEPT !.members = (@ \cup add) \ (remove \cup local \cup remote),
              !.local = (@ \cup local) \ (add \cup remove \cup remote),
              !.remote = (@ \cup remote) \ (add \cup remove \cup local)]

(* idle_muc_channel_join()                                                 *)
MemberJoins(g, joiner) ==
    LET joined == IF joiner = self_handle
                  THEN [g EXCEPT !.state = "JOINED", !.announced = TRUE]
                  ELSE g
    IN  ChangeMembers(joined, {joiner}, {}, {}, {})

(* _network_member_left(), for a part, a kick and a quit                   *)
MemberLeaves(g, leaver) ==
    IF leaver = self_handle THEN NoGroup
    ELSE ChangeMembers(g, {}, {leaver}, {}, {})

(* idle_muc_channel_invited(), for the channel that was just made          *)
InvitedBy(inviter) ==
    [ChangeMembers(Created, {inviter}, {}, {self_handle}, {})
        EXCEPT !.announced = TRUE, !.inviter = inviter]

(* idle_muc_channel_namereply()                                            *)
NameReplied(g, nicks) ==
    [g EXCEPT !.names = (IF @ = NoReply THEN {} ELSE @) \cup nicks]

(* idle_muc_channel_namereply_end(): nobody is removed.                    *)
NamesEnd(g) ==
    IF g.names = NoReply THEN g
    ELSE [ChangeMembers(g, g.names, {}, {}, {}) EXCEPT !.names = NoReply]

(* idle_muc_channel_rename()                                               *)
Within(set, old, new) == IF old \in set THEN {new} ELSE {}

Followed(g, old, new) ==
    [g EXCEPT !.self = IF @ = old THEN new ELSE @,
              !.inviter = IF @ = old THEN new ELSE @]

RenamesMembers(g, old, new) ==
    LET h == Followed(g, old, new)
    IN  IF old \notin g.members THEN h
        ELSE ChangeMembers(h, {new}, {old}, {}, {})
MemberRenamed(g, old, new) ==
    LET h == Followed(g, old, new)
    IN  IF old \notin g.members \cup g.local \cup g.remote THEN h
        ELSE ChangeMembers(h, Within(g.members, old, new), {old},
                           Within(g.local, old, new),
                           Within(g.remote, old, new))

-----------------------------------------------------------------------------
(* The handlers of IdleMUCManager.                                         *)
Exists == group.state # "none"

MembersReceive(code) ==
    /\ coming # <<>> /\ Head(coming).code = code
    /\ coming' = Tail(coming)
    /\ UNCHANGED <<serverVars, commands>>

InChannel(g) == group' = IF Exists THEN g ELSE group

JoinReceived ==
    /\ MembersReceive("JOIN")
    /\ group' = MemberJoins(IF Exists THEN group ELSE Created,
                            Head(coming).nick)
    /\ UNCHANGED self_handle

(* _part_handler(), _kick_handler() and _quit_handler()                    *)
LeaveReceived ==
    /\ MembersReceive("LEAVE")
    /\ InChannel(MemberLeaves(group, Head(coming).nick))
    /\ UNCHANGED self_handle

(* The _nick_handler() of the connection as well                           *)
NickReceived ==
    /\ MembersReceive("NICK")
    /\ LET m == Head(coming)
       IN  /\ self_handle' = IF m.nick = self_handle THEN m.new ELSE self_handle
           /\ InChannel(MemberRenamed(group, m.nick, m.new))

InviteReceived ==
    /\ MembersReceive("INVITE")
    /\ group' = IF Exists THEN group ELSE InvitedBy(Head(coming).nick)
    /\ UNCHANGED self_handle

NamesReceived ==
    /\ MembersReceive("NAMEREPLY")
    /\ InChannel(NameReplied(group, Head(coming).nicks))
    /\ UNCHANGED self_handle

NamesEndReceived ==
    /\ MembersReceive("ENDOFNAMES")
    /\ InChannel(NamesEnd(group))
    /\ UNCHANGED self_handle

(* _numeric_error_handler()                                                *)
ErrorReceived ==
    /\ MembersReceive("ERROR")
    /\ InChannel(IF group.state = "JOINED" THEN group ELSE NoGroup)
    /\ UNCHANGED self_handle

-----------------------------------------------------------------------------
(* Calls of clients.                                                       *)
Call == UNCHANGED <<serverVars, coming, self_handle>>

SendCommand(command) ==
    /\ Len(commands) < MaxCommands
    /\ commands' = Append(commands, command)

Request ==
    /\ Call /\ ~Exists
    /\ SendCommand("JOIN")
    /\ group' = ChangeMembers(Created, {}, {}, {}, {self_handle})

(* add_member(), for the user and for others, who are invited.  The mixin  *)
(* asks for CAN_ADD first, which idle_muc_channel_join() gives.            *)
AddMember(contact) ==
    /\ Call /\ group.announced
    /\ group.state = "JOINED" \/ contact \in group.local
    /\ contact \notin group.members \cup group.remote
    /\ \/ contact = self_handle /\ SendCommand("JOIN")
       \/ contact # self_handle /\ UNCHANGED commands
    /\ LET added == ChangeMembers(group, {}, {}, {}, {contact})
       IN  group' = IF contact = self_handle
                    THEN [added EXCEPT !.state = "JOINING"] ELSE added

(* remove_member() for the user.  For others it sends a KICK, which the    *)
(* server may send without it.                                             *)
RemoveMember ==
    /\ Call /\ group.announced
    /\ SendCommand("PART")
    /\ UNCHANGED group

(* idle_muc_channel_close(): a joined channel is opened again.             *)
CloseChannel ==
    /\ Call /\ group.announced /\ group.state # "JOINED"
    /\ group' = NoGroup
    /\ UNCHANGED commands

(* idle_muc_channel_destroy()                                              *)
DestroyChannel ==
    /\ Call /\ group.announced
    /\ \/ /\ group.state = "JOINED"
          /\ SendCommand("PART") /\ UNCHANGED group
       \/ /\ group.state # "JOINED"
          /\ group' = NoGroup /\ UNCHANGED commands

-----------------------------------------------------------------------------
(* The server.  A message about a contact is only seen by the user where   *)
(* they share a room, this one or another.                                 *)
Sends(messages) ==
    /\ Len(coming) < MaxComing
    /\ coming' = coming \o messages
    /\ UNCHANGED <<self_handle, group>>

About(code, who) == [code |-> code, nick |-> who]
SendsWhen(seen, message) == Sends(IF seen THEN <<message>> ELSE <<>>)

OtherJoins(n) ==
    /\ n \notin present \cup {nick}
    /\ present' = present \cup {n}
    /\ SendsWhen(here, About("JOIN", n))
    /\ UNCHANGED <<here, nick, commands>>

OtherLeaves(n) ==
    /\ n \in present
    /\ present' = present \ {n}
    /\ SendsWhen(here, About("LEAVE", n))
    /\ UNCHANGED <<here, nick, commands>>

(* A contact who is not here quits, or changes nickname, and is seen to.   *)
OtherQuits(n) ==
    /\ n # nick /\ ~(here /\ n \in present)
    /\ present' = present \ {n}
    /\ SendsWhen(TRUE, About("LEAVE", n))
    /\ UNCHANGED <<here, nick, commands>>

Renaming(n, m) == [code |-> "NICK", nick |-> n, new |-> m]

OtherRenamed(n, m, seen) ==
    /\ n # nick /\ m \notin present \cup {n, nick}
    /\ here /\ n \in present => seen
    /\ present' = (present \ {n}) \cup Within(present, n, m)
    /\ SendsWhen(seen, Renaming(n, m))
    /\ UNCHANGED <<here, nick, commands>>

UserRenamed(m) ==
    /\ m \notin present \cup {nick}
    /\ nick' = m
    /\ Sends(<<Renaming(nick, m)>>)
    /\ UNCHANGED <<present, here, commands>>

UserKicked ==
    /\ here /\ here' = FALSE
    /\ Sends(<<About("LEAVE", nick)>>)
    /\ UNCHANGED <<present, nick, commands>>

UserInvited(n) ==
    /\ ~here /\ n \in present
    /\ Sends(<<About("INVITE", n)>>)
    /\ UNCHANGED <<serverVars, commands>>

HandleNext(command) ==
    /\ commands # <<>> /\ Head(commands) = command
    /\ commands' = Tail(commands)
    /\ UNCHANGED <<present, nick>>

(* The names come in one reply or in two.                                  *)
Names(first) ==
    LET all == present \cup {nick}
        Reply(nicks) == [code |-> "NAMEREPLY", nicks |-> nicks]
    IN  (IF first = all THEN <<Reply(all)>>
         ELSE <<Reply(first), Reply(all \ first)>>)
        \o <<[code |-> "ENDOFNAMES"]>>

UserJoins ==
    /\ HandleNext("JOIN")
    /\ ~here /\ here' = TRUE
    /\ \E first \in SUBSET (present \cup {nick}) :
          first # {} /\ Sends(<<About("JOIN", nick)>> \o Names(first))

JoinRefused ==
    /\ HandleNext("JOIN")
    /\ ~here
    /\ Sends(<<[code |-> "ERROR"]>>)
    /\ UNCHANGED here

UserParts ==
    /\ HandleNext("PART")
    /\ here /\ here' = FALSE
    /\ Sends(<<About("LEAVE", nick)>>)

CommandIgnored ==
    /\ \/ HandleNext("JOIN") /\ here
       \/ HandleNext("PART") /\ ~here
    /\ UNCHANGED <<here, coming, self_handle, group>>

-----------------------------------------------------------------------------
MembersNext ==
    \/ JoinReceived \/ LeaveReceived \/ NickReceived \/ InviteReceived
    \/ NamesReceived \/ NamesEndReceived \/ ErrorReceived
    \/ Request \/ RemoveMember \/ CloseChannel \/ DestroyChannel
    \/ UserKicked \/ UserJoins \/ JoinRefused \/ UserParts \/ CommandIgnored
    \/ \E n \in Contacts :
          \/ AddMember(n) \/ OtherJoins(n) \/ OtherLeaves(n) \/ OtherQuits(n)
          \/ UserRenamed(n) \/ UserInvited(n)
          \/ \E m \in Contacts, seen \in BOOLEAN : OtherRenamed(n, m, seen)

-----------------------------------------------------------------------------
(* The user is a member of a joined channel and pending in one that is     *)
(* not, under the nickname of the moment (idle_muc_channel_rename(),       *)
(* add_member(), idle_muc_channel_invited()).                              *)
SelfHasItsPlace ==
    Exists =>
        /\ group.self = self_handle
        /\ self_handle \in group.members <=> group.state = "JOINED"
        /\ self_handle \in group.local \cup group.remote
              <=> group.state # "JOINED"

(* Once everything the server sent has been received, the group has        *)
(* exactly the people in the room as its members, whoever joined, left or  *)
(* changed nickname before the names came and whatever clients called      *)
(* meanwhile - but for the one who invited the user, who may have left     *)
(* unseen: the names are only added (idle_muc_channel_namereply_end()).    *)
MembersMirror ==
    /\ SelfHasItsPlace
    /\ coming = <<>> =>
        /\ here <=> group.state = "JOINED"
        /\ here => /\ present \cup {nick} \subseteq group.members
                   /\ group.members \subseteq
                          present \cup {nick, group.inviter}
===============================================================================
