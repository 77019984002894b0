------------------------------- MODULE MucModes -------------------------------
(***************************************************************************)
(* The modes of a room as IdleMUCChannel keeps them, what it tells clients *)
(* they may do because of them (change_mode_state()), and IdleRoomConfig,  *)
(* from the user's JOIN on.                                                *)
(*                                                                         *)
(* The server sends what happens in the room in order, and handles the     *)
(* user's commands in order.  A mode is its letter, and the letters of a   *)
(* message share the arguments after them, which the user takes by their   *)
(* position.  Of the room's key only its presence is kept.                 *)
(***************************************************************************)
EXTENDS Integers, Sequences, FiniteSets

CONSTANTS
    Modes,      \* the modes of the room, and of the user in it, in play
    Limits,     \* values of the user limit
    MaxWire,    \* bound on the messages on their way, in both directions
    MaxPairs,   \* bound on those of two letters among them
    MaxUpdated  \* bound on the properties clients ever update

OPS == {"o", "h"}                  \* MODE_FLAGS_OP
Privileges == OPS \cup {"v"}
Hidden == {"p", "s"}               \* the modes of the property "private"
Quick == {"i", "m", "s"}           \* do_quick_boolean(); "s" is "private"
Booleans == Quick \cup {"k"}       \* the Boolean properties of the room

(* Half-operators are left out: see the README.                            *)
ASSUME MucModesAssumption ==
    /\ Modes \subseteq {"o", "v", "i", "m", "t", "k", "l", "p", "s"}
    /\ Limits \subseteq Nat \ {0}
    /\ MaxWire \in Nat
    /\ MaxPairs \in Nat
    /\ MaxUpdated \in Nat

VARIABLES
    room,       \* the server: the modes, and the limit or 0
    to_user,    \* messages on their way to the user
    to_server,  \* commands on their way to the server
    chan,       \* priv->mode_state, and what clients are told they may do
    config,     \* the IdleRoomConfig: properties that are TRUE, Limit
    updating,   \* the UpdateConfiguration() that has not returned
    updated,    \* history: properties the user ever updated
    misread,    \* history: the user takes a wrong argument of some message
    both        \* history: both modes of "private" were set at some time

vars == <<room, to_user, to_server, chan, config, updating, updated, misread,
          both>>

NoUpdate == [mode |-> "none", value |-> 0]

(* A letter of a mode message, with its sign and the argument it came     *)
(* with: whether that is the user's name, and the number it begins with.   *)
(* A key may be either; no argument begins with a sign.  The modes of the  *)
(* user are those of others too, and "b" stands for the letters that       *)
(* idle_muc_channel_mode() does not know.                                  *)
Arg(me, number) == [me |-> me, number |-> number]
Letter(sign, mode, arg) == [sign |-> sign, mode |-> mode, arg |-> arg]

Fits(l) ==
    /\ l.arg.me => l.mode \in Privileges \cup {"k"} /\ l.arg.number = 0
    /\ l.arg.number # 0 => l.mode \in {"l", "k"}
    /\ l.mode = "l" => (l.arg.number # 0 <=> l.sign = "+")

Signed ==
    [sign : {"+", "-"}, mode : Modes \cup {"b"},
     arg : [me : BOOLEAN, number : Limits \cup {0}]]
Letters == {l \in Signed : Fits(l)}
NoLetter == Letter("+", "none", Arg(FALSE, 0))
LettersOrNone == Letters \cup {NoLetter}

(* The letters the server adds an argument to, and those the user takes    *)
(* one for.  Not for "-k", nor for a letter that is unknown.               *)
Gives(l) ==
    l.mode \in Privileges \cup {"k", "b"} \/ (l.mode = "l" /\ l.sign = "+")
Reads(l) ==
    l.mode \in Privileges \/ (l.mode \in {"k", "l"} /\ l.sign = "+")

(* A message has one letter or two, more are handled alike.  The second    *)
(* takes the argument of the first that the first left.                    *)
ModeMessage(first, second) == [type |-> "MODE", first |-> first, second |-> second]

ArgOfSecond(first, second) ==
    IF Reads(second) /\ Gives(first) /\ ~Reads(first) THEN first.arg
    ELSE second.arg
Misreads(first, second) == ArgOfSecond(first, second) # second.arg

(* What a letter with an argument is about: nothing if it is unknown, or a *)
(* privilege of another user.                                              *)
Change(sign, modes) == [sign |-> sign, modes |-> modes]
Heard(l, arg) ==
    Change(l.sign, IF l.mode \in Privileges /\ ~arg.me THEN {}
                   ELSE {l.mode} \cap Modes)

(* The number that the last "+l" of a message took.                        *)
LimitRead(first, second) ==
    IF second.mode = "l" /\ second.sign = "+"
    THEN ArgOfSecond(first, second).number
    ELSE IF first.mode = "l" THEN first.arg.number ELSE 0

NameReply(mode) == [type |-> "NAMEREPLY", mode |-> mode]
ModeIs(r) ==
    [type |-> "MODEIS", change |-> Change("+", r.modes \ Privileges),
     limit |-> r.limit]

-----------------------------------------------------------------------------
(* change_mode_state(), as the changes it makes: add and remove are what   *)
(* really changes, c is the channel before, flags are those after.         *)
Added(c, letters) == letters \ c.flags
Removed(c, letters) == letters \cap c.flags

GetsOp(add) == add \cap OPS # {}
LosesOp(add, remove) == ~GetsOp(add) /\ remove \cap OPS # {}
IsOp(flags) == flags \cap OPS # {}

(* idle_muc_channel_update_can_set_topic()                                 *)
CanSetTopic(c, add, remove, flags) ==
    IF GetsOp(add) THEN c.can_set_topic \/ "t" \in flags
    ELSE IF LosesOp(add, remove) THEN c.can_set_topic /\ "t" \notin flags
    ELSE IF "t" \in add \cup remove /\ ~IsOp(c.flags) THEN "t" \notin add
    ELSE c.can_set_topic

(* TP_CHANNEL_GROUP_FLAG_CAN_ADD                                           *)
AddForgetsOp(c, add, remove, flags) ==
    /\ c.can_add \/ "i" \in remove \/ GetsOp(add)
    /\ ~("i" \in add /\ ~IsOp(flags))
CanAdd(c, add, remove, flags) ==
    /\ c.can_add \/ "i" \in remove \/ GetsOp(add)
    /\ ~("i" \in add /\ ~IsOp(flags))
    /\ ~(LosesOp(add, remove) /\ "i" \in flags)

(* TP_CHANNEL_GROUP_FLAG_CAN_REMOVE, and CanUpdateConfiguration            *)
OpRight(right, add, remove) == (right \/ GetsOp(add)) /\ ~LosesOp(add, remove)

ChangeModeState(c, add, remove) ==
    LET flags == (c.flags \cup add) \ remove
    IN  [flags |-> flags,
         can_set_topic |-> CanSetTopic(c, add, remove, flags),
         can_add |-> CanAdd(c, add, remove, flags),
         can_remove |-> OpRight(c.can_remove, add, remove),
         can_update |-> OpRight(c.can_update, add, remove)]

(* The properties of the room whose mode really changes.                   *)
Properties(modes) ==
    (modes \cap Booleans) \cup (IF modes \cap Hidden # {} THEN {"s"} ELSE {})

NeverUnsets(f, add, remove, limit) ==
    [true |-> f.true \cup Properties(add),
     limit |-> IF "l" \in add THEN limit ELSE f.limit]
SetFromMode(f, add, remove, limit) ==
    [true |-> (f.true \cup Properties(add)) \ Properties(remove),
     limit |-> IF "l" \in add THEN limit
               ELSE IF "l" \in remove THEN 0 ELSE f.limit]

AddOf(c, change) ==
    IF change.sign = "+" THEN Added(c, change.modes) ELSE {}
RemoveOf(c, change) ==
    IF change.sign = "-" THEN Removed(c, change.modes) ELSE {}

NewChannel ==
    [flags |-> {}, can_set_topic |-> TRUE, can_add |-> TRUE,
     can_remove |-> FALSE, can_update |-> FALSE]

(* idle_muc_channel_join() for the user, right after which the server      *)
(* sends the name list.  The commands to come begin with the MODE query.   *)
(* A '+' channel has the topic's protection and nobody has privileges.     *)
Init ==
    /\ room \in [modes : SUBSET Modes, limit : Limits \cup {0}]
    /\ room.limit # 0 <=> "l" \in room.modes
    /\ \E p \in Privileges \cup {"none"} :
          /\ room.modes \cap Privileges = {p} \ {"none"}
          /\ to_user = <<NameReply(p)>>
    /\ to_server = <<[type |-> "QUERY"]>>
    /\ \/ chan = NewChannel
       \/ room.modes = {"t"} /\ chan = ChangeModeState(NewChannel, {"t"}, {})
    /\ config = [true |-> {}, limit |-> 0]
    /\ updating = NoUpdate
    /\ updated = {}
    /\ misread = FALSE
    /\ both = FALSE

-----------------------------------------------------------------------------
AfterChange(c, change) ==
    ChangeModeState(c, AddOf(c, change), RemoveOf(c, change))
ConfigAfter(f, c, change, limit) ==
    SetFromMode(f, AddOf(c, change), RemoveOf(c, change), limit)

-----------------------------------------------------------------------------
Receive(type) ==
    /\ to_user # <<>> /\ Head(to_user).type = type
    /\ to_user' = Tail(to_user)
    /\ UNCHANGED <<room, to_server, updating, updated, misread>>

(* idle_muc_channel_namereply() for the user's own name                    *)
Namereply ==
    /\ Receive("NAMEREPLY")
    /\ LET add == {Head(to_user).mode} \cap {"o", "v"}
       IN  chan' = ChangeModeState(chan, Added(chan, add),
                                   Removed(chan, Privileges \ add))
    /\ UNCHANGED <<config, both>>

(* idle_muc_channel_mode() with the reply to the query, whose letters are  *)
(* all known and set.                                                      *)
ModeReply ==
    /\ Receive("MODEIS")
    /\ LET msg == Head(to_user)
       IN  /\ chan' = AfterChange(chan, msg.change)
           /\ config' = ConfigAfter(config, chan, msg.change, msg.limit)
           /\ both' = (both \/ Hidden \subseteq chan'.flags)

(* idle_muc_channel_mode() with a change.  One call of change_mode_state() *)
(* is for all letters of a sign: what came before is flushed at a change   *)
(* of sign, and mode_accum starts again.                                   *)
Flushed(first, second) ==
    IF first.sign = second.sign THEN Change(first.sign, {}) ELSE first
AccumKept(first, second) ==
    [second EXCEPT !.modes = @ \cup first.modes]
Accum(first, second) ==
    IF first.sign = second.sign THEN [second EXCEPT !.modes = @ \cup first.modes]
    ELSE second

Mode ==
    /\ Receive("MODE")
    /\ LET msg == Head(to_user)
           first == Heard(msg.first, msg.first.arg)
           second == Heard(msg.second, ArgOfSecond(msg.first, msg.second))
           limit == LimitRead(msg.first, msg.second)
           flushed == Flushed(first, second)
           between == AfterChange(chan, flushed)
           config1 == ConfigAfter(config, chan, flushed, limit)
       IN  /\ chan' = AfterChange(between, Accum(first, second))
           /\ config' = ConfigAfter(config1, between, Accum(first, second),
                                    limit)
           /\ both' = \/ both
                      \/ Hidden \subseteq between.flags
                      \/ Hidden \subseteq chan'.flags

WireHasRoom == Len(to_user) + Len(to_server) < MaxWire

(* idle_room_config_update_configuration_async() with one property; with   *)
(* several it does this for each.  (TpBaseRoomConfig makes sure that the   *)
(* user may, and that one call is made at a time.)                         *)
UpdateConfiguration(property) ==
    /\ chan.can_update
    /\ updating = NoUpdate
    /\ WireHasRoom
    /\ updated' = updated \cup {property}
    /\ Cardinality(updated') <= MaxUpdated
    /\ UNCHANGED <<room, to_user, chan, misread, both>>

Command(sign, mode, limit) ==
    [type |-> "MODE", letter |-> Letter(sign, mode, Arg(FALSE, limit))]

SendMode(sign, mode, limit) ==
    to_server' = Append(to_server, Command(sign, mode, limit))

UpdateBoolean(mode, value) ==
    /\ UpdateConfiguration(mode)
    /\ mode \in Quick
    /\ updating' = [mode |-> mode, value |-> IF value THEN 1 ELSE 0]
    /\ \/ /\ value = (mode \in config.true)
          /\ UNCHANGED to_server
       \/ /\ value # (mode \in config.true)
          /\ SendMode(IF value THEN "+" ELSE "-", mode, 0)
    /\ UNCHANGED config

UpdateLimit(limit) ==
    /\ UpdateConfiguration("l")
    /\ updating' = [mode |-> "l", value |-> limit]
    /\ \/ limit = config.limit /\ UNCHANGED to_server
       \/ /\ limit # config.limit
          /\ SendMode(IF limit > 0 THEN "+" ELSE "-", "l", limit)
    /\ UNCHANGED config

(* A call may give Password with or without PasswordProtected.             *)
UpdatePassword(property, protected) ==
    /\ UpdateConfiguration("k")
    /\ property = "password" => protected
    /\ updating' = [mode |-> property, value |-> IF protected THEN 1 ELSE 0]
    /\ SendMode(IF protected THEN "+" ELSE "-", "k", 0)
    /\ config' = IF protected THEN [config EXCEPT !.true = @ \cup {"k"}]
                 ELSE config

(* The result that was completed in an idle: TpBaseRoomConfig now sets the *)
(* property, whether or not the server agreed.                             *)
UpdateReturns ==
    /\ updating # NoUpdate
    /\ config' =
          CASE updating.mode = "l" -> [config EXCEPT !.limit = updating.value]
            [] updating.mode = "password" -> config
            [] OTHER -> [config EXCEPT
                  !.true = IF updating.value = 1 THEN @ \cup {updating.mode}
                           ELSE @ \ {updating.mode}]
    /\ updating' = NoUpdate
    /\ UNCHANGED <<room, to_user, to_server, chan, updated, misread, both>>

-----------------------------------------------------------------------------
Changed(modes, change) ==
    IF change.sign = "+" THEN modes \cup change.modes ELSE modes \ change.modes

Apply(r, l) ==
    LET modes == Changed(r.modes, Heard(l, l.arg))
    IN  [modes |-> modes,
         limit |-> IF "l" \notin modes THEN 0
                   ELSE IF l.mode = "l" THEN l.arg.number ELSE r.limit]

Tell(msg) ==
    /\ to_user' = Append(to_user, msg)
    /\ UNCHANGED <<chan, config, updating, updated, both>>

(* A message says what has changed, of the room or of what the user keeps  *)
(* no track of.                                                            *)
Effective(r, l) ==
    Heard(l, l.arg).modes # {} => Apply(r, l) # r

PairHasRoom ==
    Cardinality({i \in 1 .. Len(to_user) :
                    to_user[i].type = "MODE" /\ to_user[i].second # NoLetter})
        < MaxPairs

(* Another operator, or a service, changes one mode or two, also those of  *)
(* the user and of others.                                                 *)
OthersChange(first, second) ==
    LET between == Apply(room, first)
    IN  /\ second # NoLetter => PairHasRoom
        /\ Effective(room, first) /\ Effective(between, second)
        /\ room' = Apply(between, second)
        /\ Tell(ModeMessage(first, second))
        /\ misread' = (misread \/ Misreads(first, second))
        /\ UNCHANGED to_server

(* The server takes the next command of the user.  It says nothing of a    *)
(* change that changes nothing, and refuses one where the user is no       *)
(* operator, with a numeric that idle does not handle.                     *)
HandleQuery ==
    /\ to_server # <<>> /\ Head(to_server).type = "QUERY"
    /\ to_server' = Tail(to_server)
    /\ Tell(ModeIs(room))
    /\ UNCHANGED <<room, misread>>

HandleMode ==
    /\ to_server # <<>> /\ Head(to_server).type = "MODE"
    /\ to_server' = Tail(to_server)
    /\ LET letter == Head(to_server).letter
       IN  IF IsOp(room.modes) /\ Effective(room, letter)
           THEN /\ room' = Apply(room, letter)
                /\ Tell(ModeMessage(letter, NoLetter))
           ELSE UNCHANGED <<room, to_user, chan, config, updating, updated, both>>
    /\ UNCHANGED misread

(* The steps in a room where nothing but some modes is changed.            *)
Changing(modes) ==
    \/ Namereply \/ ModeReply \/ Mode
    \/ \E mode \in Quick \cap modes, value \in BOOLEAN :
          UpdateBoolean(mode, value)
    \/ \E limit \in Limits \cup {0} : "l" \in modes /\ UpdateLimit(limit)
    \/ \E property \in {"k", "password"}, protected \in BOOLEAN :
          "k" \in modes /\ UpdatePassword(property, protected)
    \/ UpdateReturns
    \/ /\ WireHasRoom
       /\ \E first \in Letters :
             /\ first.mode \in modes \cup {"b"}
             /\ \E second \in LettersOrNone :
                   /\ second.mode \in modes \cup {"b", "none"}
                   /\ OthersChange(first, second)
    \/ HandleQuery \/ HandleMode

Next == Changing(Modes)

Spec == Init /\ [][Next]_vars

-----------------------------------------------------------------------------
Changes == [sign : {"+", "-"}, modes : SUBSET Modes]

(* Every variable has its type.                                            *)
TypeOK ==
    /\ room \in [modes : SUBSET Modes, limit : Limits \cup {0}]
    /\ to_user \in Seq([type : {"NAMEREPLY"},
                         mode : (Privileges \cap Modes) \cup {"none"}]
                       \cup [type : {"MODEIS"}, change : Changes,
                             limit : Limits \cup {0}]
                       \cup [type : {"MODE"}, first : Letters,
                             second : LettersOrNone])
    /\ to_server \in Seq([type : {"QUERY"}]
                         \cup [type : {"MODE"}, letter : Letters])
    /\ chan \in [flags : SUBSET Modes, can_set_topic : BOOLEAN,
                 can_add : BOOLEAN, can_remove : BOOLEAN,
                 can_update : BOOLEAN]
    /\ config \in [true : SUBSET Properties(Modes), limit : Limits \cup {0}]
    /\ updating \in [mode : {"l"} \cap Modes, value : Limits \cup {0}]
                    \cup [mode : (Booleans \cap Modes) \cup {"password"},
                          value : {0, 1}]
                    \cup {NoUpdate}
    /\ updated \subseteq Modes
    /\ misread \in BOOLEAN
    /\ both \in BOOLEAN

(* Once the name list, the reply to the query and every change have come,  *)
(* the channel has the room's modes, whatever changed while they were on   *)
(* their way.  The user's own privileges are right as long as no message   *)
(* had a letter that takes its argument after one that leaves its own,     *)
(* such as "-k+o" (idle-muc-channel.c:906-937); the other modes always.    *)
FlagsFollow ==
    to_user = <<>> /\ (\A i \in 1 .. Len(to_server) :
                          to_server[i].type # "QUERY")
        => /\ chan.flags \ Privileges = room.modes \ Privileges
           /\ ~misread => chan.flags = room.modes

(* What clients are told they may do is what the modes allow, although     *)
(* change_mode_state() only looks at what changes: the topic ("The         *)
(* channel's +t and you're not an op", idle-muc-channel.c:1452), inviting, *)
(* kicking and configuring.                                                *)
MayAsModes ==
    /\ chan.can_set_topic <=> "t" \notin chan.flags \/ IsOp(chan.flags)
    /\ chan.can_add <=> "i" \notin chan.flags \/ IsOp(chan.flags)
    /\ chan.can_remove <=> IsOp(chan.flags)
    /\ chan.can_update <=> IsOp(chan.flags)

(* A property of the room that no client updated is as the modes say.  The *)
(* limit is, as long as no message was misread.  Two modes write "private" *)
(* (idle-muc-channel.c:655-661): it is TRUE only of a room with one of     *)
(* them, and of each such room as long as there never were both, as a room *)
(* that loses the second is taken for public.                              *)
ConfigMirrors ==
    /\ \A mode \in (Booleans \ Hidden) \ updated :
          mode \in config.true <=> mode \in chan.flags
    /\ "l" \notin updated /\ ~misread =>
          (config.limit # 0 <=> "l" \in chan.flags)
    /\ "s" \notin updated =>
          /\ "s" \in config.true => chan.flags \cap Hidden # {}
          /\ "s" \notin config.true /\ ~both => chan.flags \cap Hidden = {}
===============================================================================
