----------------------------- MODULE MucRoomProofs -----------------------------
(***************************************************************************)
(* Proofs about a room, for any modes, limits, contacts, topics and bounds *)
(* on the messages on their way: what clients are told of its modes, of    *)
(* its configuration, of the people in it and of its topic.                *)
(***************************************************************************)
EXTENDS MucRoom, FiniteSetTheorems, SequenceTheorems, TLAPS

-----------------------------------------------------------------------------
(* Sequences of messages.                                                  *)
LEMMA TailAppend ==
  ASSUME NEW S, NEW q \in Seq(S)
  PROVE  /\ q # <<>> => Head(q) \in S /\ Tail(q) \in Seq(S)
         /\ \A e \in S : Append(q, e) \in Seq(S)
OBVIOUS

LEMMA Appended ==
    ASSUME NEW S, NEW s \in Seq(S), NEW e \in S, NEW t, t = Append(s, e)
    PROVE  /\ t \in Seq(S) /\ t # <<>>
           /\ Len(t) = Len(s) + 1 /\ Len(s) \in Nat
           /\ t[Len(t)] = e /\ t[Len(s) + 1] = e
           /\ \A i \in 1 .. Len(s) : t[i] = s[i]
<1>1. Len(s) \in Nat
  BY LenProperties
<1>2. t \in Seq(S) /\ t # <<>> /\ Len(t) = Len(s) + 1
  BY AppendProperties
<1>3. t[Len(s) + 1] = e
  BY <1>1, AppendProperties
<1>4. \A i \in 1 .. Len(s) : t[i] = s[i]
  BY <1>1, AppendProperties
<1>5. QED
  BY <1>1, <1>2, <1>3, <1>4

LEMMA Taken ==
    ASSUME NEW S, NEW s \in Seq(S), s # <<>>, NEW t, t = Tail(s)
    PROVE  /\ Len(s) \in Nat \ {0} /\ Len(t) = Len(s) - 1 /\ Len(t) \in Nat
           /\ 1 \in 1 .. Len(s) /\ s[1] \in S /\ Head(s) = s[1]
           /\ t \in Seq(S)
           /\ t = <<>> <=> Len(s) = 1
           /\ \A i \in 1 .. Len(t) : i + 1 \in 1 .. Len(s) /\ t[i] = s[i + 1]
           /\ \A i \in 2 .. Len(s) : i - 1 \in 1 .. Len(t) /\ t[i - 1] = s[i]
<1>1. Len(s) \in Nat \ {0}
  BY EmptySeq, LenProperties
<1>2. 1 \in 1 .. Len(s) /\ s[1] \in S
  BY <1>1, ElementOfSeq
<1>3. /\ t \in Seq(S) /\ Len(t) = Len(s) - 1
      /\ \A i \in 1 .. Len(t) : t[i] = s[i + 1]
  BY HeadTailProperties
<1>4. t = <<>> <=> Len(t) = 0
  BY <1>3, EmptySeq
<1>5. Head(s) = s[1]
  OBVIOUS
<1>6. \A i \in 1 .. Len(t) : i + 1 \in 1 .. Len(s)
  BY <1>1, <1>3
<1>7. \A i \in 2 .. Len(s) : i - 1 \in 1 .. Len(t) /\ t[i - 1] = s[i]
  <2> SUFFICES ASSUME NEW i \in 2 .. Len(s)
               PROVE  i - 1 \in 1 .. Len(t) /\ t[i - 1] = s[i]
    OBVIOUS
  <2>1. i - 1 \in 1 .. Len(t) /\ (i - 1) + 1 = i
    BY <1>1, <1>3
  <2>2. t[i - 1] = s[(i - 1) + 1]
    BY <2>1, <1>3
  <2>3. QED
    BY <2>1, <2>2
<1>8. Len(t) \in Nat
  BY <1>1, <1>3
<1>9. QED
  BY <1>1, <1>2, <1>3, <1>4, <1>5, <1>6, <1>7, <1>8

-----------------------------------------------------------------------------
(* The modes.                                                              *)
ChanType == [flags : SUBSET Modes, can_set_topic : BOOLEAN,
             can_add : BOOLEAN, can_remove : BOOLEAN, can_update : BOOLEAN]

(* MayAsModes of a channel.                                                *)
MayOf(c) ==
    /\ c.can_set_topic <=> "t" \notin c.flags \/ IsOp(c.flags)
    /\ c.can_add <=> "i" \notin c.flags \/ IsOp(c.flags)
    /\ c.can_remove <=> IsOp(c.flags)
    /\ c.can_update <=> IsOp(c.flags)

(* "o" is the only mode that makes an operator, as "h" is left out.        *)
LEMMA OpIsO ==
  ASSUME NEW S \in SUBSET Modes
  PROVE  /\ S \cap OPS # {} <=> "o" \in S
         /\ IsOp(S) <=> "o" \in S
         /\ GetsOp(S) <=> "o" \in S
<1>1. "h" \notin S
  BY MucModesAssumption
<1>. QED
  BY <1>1 DEF OPS, IsOp, GetsOp

(* change_mode_state() keeps what clients are told in step with the modes, *)
(* whatever is really added and removed, as long as no call both makes the *)
(* user an operator and unsets the topic's protection: a call is for one   *)
(* sign, or for the name list, which removes privileges only.              *)
LEMMA ChangeKeepsMay ==
  ASSUME NEW c \in ChanType, MayOf(c),
         NEW add \in SUBSET (Modes \ c.flags), NEW remove \in SUBSET c.flags,
         add = {} \/ remove \subseteq Privileges
  PROVE  /\ ChangeModeState(c, add, remove) \in ChanType
         /\ MayOf(ChangeModeState(c, add, remove))
<1>. DEFINE flags == (c.flags \cup add) \ remove
            d == ChangeModeState(c, add, remove)
<1>1. /\ c.flags \in SUBSET Modes /\ flags \in SUBSET Modes
      /\ add \in SUBSET Modes /\ remove \in SUBSET Modes
  BY DEF ChanType
<1>2. /\ IsOp(c.flags) <=> "o" \in c.flags
      /\ IsOp(flags) <=> "o" \in flags
      /\ GetsOp(add) <=> "o" \in add
      /\ LosesOp(add, remove) <=> "o" \notin add /\ "o" \in remove
  BY <1>1, OpIsO, Zenon DEF LosesOp
<1>3. /\ "o" \in flags <=> "o" \in add \/ ("o" \in c.flags /\ "o" \notin remove)
      /\ "i" \in flags <=> "i" \in add \/ ("i" \in c.flags /\ "i" \notin remove)
      /\ "t" \in flags <=> "t" \in add \/ ("t" \in c.flags /\ "t" \notin remove)
      /\ "o" \in add => "o" \notin c.flags
      /\ "i" \in add => "i" \notin c.flags
      /\ "t" \in add => "t" \notin c.flags
      /\ "o" \in remove => "o" \in c.flags
      /\ "i" \in remove => "i" \in c.flags
      /\ "t" \in remove => "t" \in c.flags
  OBVIOUS
<1>4. /\ d.flags = flags
      /\ d.can_set_topic = CanSetTopic(c, add, remove, flags)
      /\ d.can_add = CanAdd(c, add, remove, flags)
      /\ d.can_remove = OpRight(c.can_remove, add, remove)
      /\ d.can_update = OpRight(c.can_update, add, remove)
  BY DEF ChangeModeState
<1>. HIDE DEF flags, d
<1>5. CanSetTopic(c, add, remove, flags) <=> "t" \notin flags \/ "o" \in flags
  <2>1. c.can_set_topic <=> "t" \notin c.flags \/ "o" \in c.flags
    BY <1>2, Zenon DEF MayOf
  <2>2. "t" \in add \cup remove <=> "t" \in add \/ "t" \in remove
    OBVIOUS
  <2>3. CASE "o" \in add
    <3>1. "t" \notin remove
      BY <2>3 DEF Privileges, OPS
    <3>2. "o" \in flags
      BY <1>3, <2>3, Zenon
    <3>3. c.can_set_topic \/ "t" \in flags
      BY <1>3, <2>1, <2>3, <3>1, Zenon
    <3>. QED
      BY <1>2, <2>3, <3>2, <3>3, Zenon DEF CanSetTopic
  <2>4. CASE "o" \notin add /\ "o" \in remove
    BY <1>2, <1>3, <2>1, <2>2, <2>4, Zenon DEF CanSetTopic
  <2>5. CASE "o" \notin add /\ "o" \notin remove
    BY <1>2, <1>3, <2>1, <2>2, <2>5, Zenon DEF CanSetTopic
  <2>. QED
    BY <2>3, <2>4, <2>5, Zenon
<1>6. CanAdd(c, add, remove, flags) <=> "i" \notin flags \/ "o" \in flags
  <2>1. c.can_add <=> "i" \notin c.flags \/ "o" \in c.flags
    BY <1>2, Zenon DEF MayOf
  <2>. QED
    BY <1>2, <1>3, <2>1, Zenon DEF CanAdd
<1>7. /\ OpRight(c.can_remove, add, remove) <=> "o" \in flags
      /\ OpRight(c.can_update, add, remove) <=> "o" \in flags
  <2>1. /\ c.can_remove <=> "o" \in c.flags
        /\ c.can_update <=> "o" \in c.flags
    BY <1>2, Zenon DEF MayOf
  <2>. QED
    BY <1>2, <1>3, <2>1, Zenon DEF OpRight
<1>8. MayOf(d)
  BY <1>2, <1>4, <1>5, <1>6, <1>7, Zenon DEF MayOf
<1>9. d \in ChanType
  <2>1. c.can_set_topic \in BOOLEAN
    BY DEF ChanType
  <2>2. /\ CanSetTopic(c, add, remove, flags) \in BOOLEAN
        /\ CanAdd(c, add, remove, flags) \in BOOLEAN
        /\ OpRight(c.can_remove, add, remove) \in BOOLEAN
        /\ OpRight(c.can_update, add, remove) \in BOOLEAN
    BY <2>1, Zenon DEF CanSetTopic, CanAdd, OpRight
  <2>3. d = [flags |-> flags,
             can_set_topic |-> CanSetTopic(c, add, remove, flags),
             can_add |-> CanAdd(c, add, remove, flags),
             can_remove |-> OpRight(c.can_remove, add, remove),
             can_update |-> OpRight(c.can_update, add, remove)]
    BY Zenon DEF d, flags, ChangeModeState
  <2>. QED
    BY <1>1, <2>2, <2>3 DEF ChanType
<1>. QED
  BY <1>8, <1>9 DEF d

-----------------------------------------------------------------------------
NameMessages == [type : {"NAMEREPLY"}, mode : (Privileges \cap Modes) \cup {"none"}]
ReplyMessages == [type : {"MODEIS"}, change : Changes, limit : Limits \cup {0}]
ModeMessages == [type : {"MODE"}, first : Letters,
                 second : Letters \cup {NoLetter}]
ModeCommands == [type : {"MODE"}, letter : Letters]
Queries == [type : {"QUERY"}]
ConfigType == [true : SUBSET Properties(Modes), limit : Limits \cup {0}]
RoomType == [modes : SUBSET Modes, limit : Limits \cup {0}]

(* One sign of a message keeps the channel's type and MayOf.               *)
LEMMA AfterChangeKeepsMay ==
  ASSUME NEW c \in ChanType, MayOf(c), NEW change \in Changes
  PROVE  AfterChange(c, change) \in ChanType /\ MayOf(AfterChange(c, change))
<1>1. /\ AddOf(c, change) \in SUBSET (Modes \ c.flags)
      /\ RemoveOf(c, change) \in SUBSET c.flags
      /\ AddOf(c, change) = {} \/ RemoveOf(c, change) = {}
  BY DEF AddOf, RemoveOf, Added, Removed, Changes, ChanType
<1>2. AddOf(c, change) = {} \/ RemoveOf(c, change) \subseteq Privileges
  BY <1>1
<1>. QED
  BY <1>1, <1>2, ChangeKeepsMay, Zenon DEF AfterChange

(* What a letter is about, with its own argument or another's, is a change *)
(* of modes that there are; and so is what is flushed at a change of sign  *)
(* and what comes after it.                                                *)
LEMMA LetterType ==
  ASSUME NEW l \in Letters \cup {NoLetter}
  PROVE  /\ l.sign \in {"+", "-"} /\ l.arg.number \in Limits \cup {0}
         /\ l.mode \in Modes \cup {"b", "none"} /\ l.mode # "none" => l \in Letters
         /\ \A arg : Heard(l, arg) \in Changes /\ Heard(l, arg).sign = l.sign
<1>1. CASE l \in Letters
  <2>1. l \in Signed
    BY <1>1 DEF Letters
  <2>2. /\ l.sign \in {"+", "-"} /\ l.arg.number \in Limits \cup {0}
        /\ l.mode \in Modes \cup {"b"}
    BY <2>1 DEF Signed
  <2>. QED
    BY <1>1, <2>2 DEF Heard, Change, Changes
<1>2. CASE l = NoLetter
  BY <1>2 DEF NoLetter, Letter, Arg, Heard, Change, Changes
<1>. QED
  BY <1>1, <1>2

LEMMA CallTypes ==
  ASSUME NEW a \in Changes, NEW b \in Changes
  PROVE  Flushed(a, b) \in Changes /\ Accum(a, b) \in Changes
BY DEF Flushed, Accum, Change, Changes

LEMMA ArgTypes ==
  ASSUME NEW first \in Letters, NEW second \in Letters \cup {NoLetter}
  PROVE  LimitRead(first, second) \in Limits \cup {0}
<1>1. ArgOfSecond(first, second) \in {first.arg, second.arg}
  BY DEF ArgOfSecond
<1>. QED
  BY <1>1, LetterType DEF LimitRead

(* The properties of the room stay properties of the room.                 *)
LEMMA ConfigAfterType ==
  ASSUME NEW c \in ChanType, NEW f \in ConfigType, NEW change \in Changes,
         NEW limit \in Limits \cup {0}
  PROVE  ConfigAfter(f, c, change, limit) \in ConfigType
<1>1. AddOf(c, change) \in SUBSET Modes
  BY DEF AddOf, Added, Changes
<1>2. Properties(AddOf(c, change)) \subseteq Properties(Modes)
  BY <1>1 DEF Properties
<1>. QED
  BY <1>2 DEF ConfigAfter, SetFromMode, ConfigType

(* What the server does with a letter leaves a room.                       *)
LEMMA ApplyType ==
  ASSUME NEW r \in RoomType, NEW l \in Letters \cup {NoLetter}
  PROVE  /\ Apply(r, l) \in RoomType
         /\ Apply(r, l).modes = Changed(r.modes, Heard(l, l.arg))
<1>1. Heard(l, l.arg) \in Changes /\ l.arg.number \in Limits \cup {0}
  BY LetterType
<1>2. Changed(r.modes, Heard(l, l.arg)) \in SUBSET Modes
  BY <1>1 DEF Changed, Changes, RoomType
<1>. QED
  BY <1>1, <1>2 DEF Apply, RoomType

(* TypeOK and MayAsModes together are inductive.                           *)
ModesInv == TypeOK /\ MayOf(chan)

WireType == NameMessages \cup ReplyMessages \cup ModeMessages
CommandType == Queries \cup ModeCommands
UpdateType ==
    [mode : {"l"} \cap Modes, value : Limits \cup {0}]
    \cup [mode : (Booleans \cap Modes) \cup {"password"}, value : {0, 1}]
    \cup {NoUpdate}

LEMMA TypeParts ==
  ASSUME TypeOK
  PROVE  /\ room \in RoomType
         /\ to_user \in Seq(WireType)
         /\ to_server \in Seq(CommandType)
         /\ chan \in ChanType
         /\ config \in ConfigType
         /\ updating \in UpdateType
         /\ updated \subseteq Modes
         /\ misread \in BOOLEAN /\ both \in BOOLEAN
BY Zenon DEF TypeOK, WireType, NameMessages, ReplyMessages, ModeMessages,
             CommandType, Queries, ModeCommands, RoomType, ChanType, ConfigType,
             UpdateType, LettersOrNone

LEMMA PartsType ==
  ASSUME room' \in RoomType,
         to_user' \in Seq(WireType),
         to_server' \in Seq(CommandType),
         chan' \in ChanType,
         config' \in ConfigType,
         updating' \in UpdateType,
         updated' \subseteq Modes,
         misread' \in BOOLEAN, both' \in BOOLEAN
  PROVE  TypeOK'
BY Zenon DEF TypeOK, WireType, NameMessages, ReplyMessages, ModeMessages,
             CommandType, Queries, ModeCommands, RoomType, ChanType, ConfigType,
             UpdateType, LettersOrNone

(* Taking a message off the wire.                                          *)
LEMMA ReceiveFrame ==
  ASSUME TypeOK, NEW type \in {"NAMEREPLY", "MODEIS", "MODE"}, Receive(type),
         chan' \in ChanType, config' \in ConfigType, both' \in BOOLEAN
  PROVE  TypeOK'
<1>1. to_user' \in Seq(WireType)
  BY TypeParts, TailAppend, Zenon DEF Receive
<1>2. /\ room' = room /\ to_server' = to_server
      /\ updating' = updating /\ updated' = updated /\ misread' = misread
  BY DEF Receive
<1>. QED
  BY <1>1, <1>2, TypeParts, PartsType, Zenon

LEMMA NamereplyKeepsModesInv ==
  ASSUME ModesInv, Namereply
  PROVE  ModesInv'
<1>. DEFINE add == {Head(to_user).mode} \cap {"o", "v"}
<1>1. /\ TypeOK /\ MayOf(chan) /\ chan \in ChanType /\ config \in ConfigType
  BY TypeParts, Zenon DEF ModesInv
<1>2. Head(to_user) \in WireType /\ Head(to_user).type = "NAMEREPLY"
  BY <1>1, TypeParts, TailAppend, Zenon DEF Namereply, Receive
<1>3. /\ chan' = ChangeModeState(chan, Added(chan, add),
                                 Removed(chan, Privileges \ add))
      /\ config' = config /\ both' = both /\ Receive("NAMEREPLY")
  BY Zenon DEF Namereply
<1>4. /\ Added(chan, add) \in SUBSET (Modes \ chan.flags)
      /\ Removed(chan, Privileges \ add) \in SUBSET chan.flags
      /\ Removed(chan, Privileges \ add) \subseteq Privileges
  <2>1. add \subseteq Modes
    BY <1>2 DEF WireType, NameMessages, ReplyMessages, ModeMessages
  <2>. QED
    BY <2>1 DEF Added, Removed
<1>5. chan' \in ChanType /\ MayOf(chan')
  BY <1>1, <1>3, <1>4, ChangeKeepsMay, Zenon
<1>6. MayOf(chan)' <=> MayOf(chan')
  BY DEF MayOf
<1>7. both' \in BOOLEAN
  BY <1>1, <1>3, TypeParts, Zenon
<1>. QED
  BY <1>1, <1>3, <1>5, <1>6, <1>7, ReceiveFrame, Zenon DEF ModesInv

LEMMA ModeReplyKeepsModesInv ==
  ASSUME ModesInv, ModeReply
  PROVE  ModesInv'
<1>. DEFINE msg == Head(to_user)
<1>1. /\ TypeOK /\ MayOf(chan) /\ chan \in ChanType /\ config \in ConfigType
  BY TypeParts, Zenon DEF ModesInv
<1>2. msg \in WireType /\ msg.type = "MODEIS"
  BY <1>1, TypeParts, TailAppend, Zenon DEF ModeReply, Receive
<1>3. msg.change \in Changes /\ msg.limit \in Limits \cup {0}
  BY <1>2 DEF WireType, NameMessages, ReplyMessages, ModeMessages
<1>4. /\ chan' = AfterChange(chan, msg.change)
      /\ config' = ConfigAfter(config, chan, msg.change, msg.limit)
      /\ Receive("MODEIS")
  BY Zenon DEF ModeReply
<1>. HIDE DEF msg
<1>5. chan' \in ChanType /\ MayOf(chan')
  BY <1>1, <1>3, <1>4, AfterChangeKeepsMay, Zenon
<1>6. config' \in ConfigType
  BY <1>1, <1>3, <1>4, ConfigAfterType, Zenon
<1>7. both' \in BOOLEAN
  BY <1>1, TypeParts DEF ModeReply
<1>8. MayOf(chan)' <=> MayOf(chan')
  BY DEF MayOf
<1>. QED
  BY <1>1, <1>4, <1>5, <1>6, <1>7, <1>8, ReceiveFrame, Zenon DEF ModesInv

LEMMA ModeKeepsModesInv ==
  ASSUME ModesInv, Mode
  PROVE  ModesInv'
<1>. DEFINE msg == Head(to_user)
            first == Heard(msg.first, msg.first.arg)
            second == Heard(msg.second, ArgOfSecond(msg.first, msg.second))
            limit == LimitRead(msg.first, msg.second)
            flushed == Flushed(first, second)
            accum == Accum(first, second)
            between == AfterChange(chan, flushed)
            config1 == ConfigAfter(config, chan, flushed, limit)
<1>1. /\ TypeOK /\ MayOf(chan) /\ chan \in ChanType /\ config \in ConfigType
  BY TypeParts, Zenon DEF ModesInv
<1>2. msg \in WireType /\ msg.type = "MODE"
  BY <1>1, TypeParts, TailAppend, Zenon DEF Mode, Receive
<1>3. msg.first \in Letters /\ msg.second \in Letters \cup {NoLetter}
  BY <1>2 DEF WireType, NameMessages, ReplyMessages, ModeMessages
<1>4. /\ chan' = AfterChange(between, accum)
      /\ config' = ConfigAfter(config1, between, accum, limit)
      /\ Receive("MODE")
  BY Zenon DEF Mode
<1>5. both' \in BOOLEAN
  BY <1>1, TypeParts DEF Mode
<1>. HIDE DEF msg
<1>6. first \in Changes /\ second \in Changes /\ limit \in Limits \cup {0}
  BY <1>3, LetterType, ArgTypes, Zenon
<1>. HIDE DEF first, second, limit
<1>7. flushed \in Changes /\ accum \in Changes
  BY <1>6, CallTypes, Zenon
<1>. HIDE DEF flushed, accum
<1>8. between \in ChanType /\ MayOf(between)
  BY <1>1, <1>7, AfterChangeKeepsMay, Zenon
<1>9. config1 \in ConfigType
  BY <1>1, <1>6, <1>7, ConfigAfterType, Zenon
<1>. HIDE DEF between, config1
<1>10. chan' \in ChanType /\ MayOf(chan')
  BY <1>4, <1>7, <1>8, AfterChangeKeepsMay, Zenon
<1>11. config' \in ConfigType
  BY <1>4, <1>6, <1>7, <1>8, <1>9, ConfigAfterType, Zenon
<1>12. MayOf(chan)' <=> MayOf(chan')
  BY DEF MayOf
<1>. QED
  BY <1>1, <1>4, <1>5, <1>10, <1>11, <1>12, ReceiveFrame, Zenon DEF ModesInv

(* What the client's calls leave alone and what they may change.           *)
LEMMA UpdateFrame ==
  ASSUME ModesInv, NEW property \in Modes, UpdateConfiguration(property),
         updating' \in UpdateType, to_server' \in Seq(CommandType),
         config' \in ConfigType
  PROVE  ModesInv'
<1>1. /\ room' = room /\ to_user' = to_user /\ chan' = chan
      /\ updated' = updated \cup {property}
      /\ misread' = misread /\ both' = both
  BY DEF UpdateConfiguration
<1>2. updated' \subseteq Modes
  BY <1>1, TypeParts DEF ModesInv
<1>3. TypeOK'
  BY <1>1, <1>2, TypeParts, PartsType, Zenon DEF ModesInv
<1>. QED
  BY <1>1, <1>3 DEF ModesInv, MayOf

LEMMA CommandTypes ==
  ASSUME NEW sign \in {"+", "-"}, NEW mode \in Modes,
         NEW limit \in Limits \cup {0},
         limit # 0 => mode = "l", mode = "l" => (limit # 0 <=> sign = "+")
  PROVE  Command(sign, mode, limit) \in CommandType
<1>1. Letter(sign, mode, Arg(FALSE, limit)) \in Letters
  BY DEF Letter, Arg, Letters, Signed, Fits
<1>. QED
  BY <1>1 DEF Command, CommandType, ModeCommands

LEMMA UpdateBooleanKeepsModesInv ==
  ASSUME ModesInv, NEW mode \in Quick \cap Modes, NEW value \in BOOLEAN,
         UpdateBoolean(mode, value)
  PROVE  ModesInv'
<1>. DEFINE sign == IF value THEN "+" ELSE "-"
<1>1. /\ to_server \in Seq(CommandType) /\ config \in ConfigType
      /\ mode \in Modes
  BY TypeParts, Zenon DEF ModesInv
<1>2. Command(sign, mode, 0) \in CommandType
  <2>1. mode # "l" /\ 0 \in Limits \cup {0}
    BY DEF Quick
  <2>. QED
    BY <1>1, <2>1, CommandTypes
<1>3. to_server' \in Seq(CommandType)
  BY <1>1, <1>2, TailAppend, Zenon DEF UpdateBoolean, SendMode
<1>4. updating' \in UpdateType
  BY <1>1 DEF UpdateBoolean, UpdateType, Booleans
<1>. QED
  BY <1>1, <1>3, <1>4, UpdateFrame, Zenon DEF UpdateBoolean

LEMMA UpdateLimitKeepsModesInv ==
  ASSUME ModesInv, NEW limit \in Limits \cup {0}, "l" \in Modes, UpdateLimit(limit)
  PROVE  ModesInv'
<1>. DEFINE sign == IF limit > 0 THEN "+" ELSE "-"
<1>1. to_server \in Seq(CommandType) /\ config \in ConfigType
  BY TypeParts, Zenon DEF ModesInv
<1>2. Command(sign, "l", limit) \in CommandType
  <2>1. limit # 0 <=> sign = "+"
    BY MucModesAssumption
  <2>. QED
    BY <2>1, CommandTypes
<1>3. to_server' \in Seq(CommandType)
  BY <1>1, <1>2, TailAppend, Zenon DEF UpdateLimit, SendMode
<1>4. updating' \in UpdateType
  BY DEF UpdateLimit, UpdateType
<1>. QED
  BY <1>1, <1>3, <1>4, UpdateFrame, Zenon DEF UpdateLimit

LEMMA UpdatePasswordKeepsModesInv ==
  ASSUME ModesInv, NEW property \in {"k", "password"}, NEW protected \in BOOLEAN,
         "k" \in Modes, UpdatePassword(property, protected)
  PROVE  ModesInv'
<1>. DEFINE sign == IF protected THEN "+" ELSE "-"
<1>1. to_server \in Seq(CommandType) /\ config \in ConfigType
  BY TypeParts, Zenon DEF ModesInv
<1>2. Command(sign, "k", 0) \in CommandType
  BY CommandTypes
<1>3. to_server' \in Seq(CommandType)
  BY <1>1, <1>2, TailAppend, Zenon DEF UpdatePassword, SendMode
<1>4. updating' \in UpdateType
  BY DEF UpdatePassword, UpdateType, Booleans
<1>5. config' \in ConfigType
  BY <1>1 DEF UpdatePassword, ConfigType, Properties, Booleans
<1>. QED
  BY <1>3, <1>4, <1>5, UpdateFrame, Zenon DEF UpdatePassword

LEMMA UpdateReturnsKeepsModesInv ==
  ASSUME ModesInv, UpdateReturns
  PROVE  ModesInv'
<1>1. /\ updating \in UpdateType /\ config \in ConfigType
      /\ updating # NoUpdate
  BY TypeParts, Zenon DEF ModesInv, UpdateReturns
<1>2. config' \in ConfigType
  <2>1. CASE updating.mode = "l"
    <3>1. updating.value \in Limits \cup {0}
      BY <1>1, <2>1 DEF UpdateType, Booleans, Quick
    <3>2. config' = [config EXCEPT !.limit = updating.value]
      BY <2>1, Zenon DEF UpdateReturns
    <3>. QED
      BY <1>1, <3>1, <3>2 DEF ConfigType
  <2>2. CASE updating.mode = "password"
    BY <1>1, <2>2 DEF UpdateReturns
  <2>3. CASE updating.mode # "l" /\ updating.mode # "password"
    <3>1. updating.mode \in Booleans \cap Modes
      BY <1>1, <2>3 DEF UpdateType
    <3>2. config' = [config EXCEPT
                        !.true = IF updating.value = 1
                                 THEN @ \cup {updating.mode}
                                 ELSE @ \ {updating.mode}]
      BY <2>3 DEF UpdateReturns
    <3>. QED
      BY <1>1, <3>1, <3>2 DEF ConfigType, Properties
  <2>. QED
    BY <2>1, <2>2, <2>3, Zenon
<1>3. /\ room' = room /\ to_user' = to_user /\ to_server' = to_server
      /\ chan' = chan /\ updated' = updated /\ updating' = NoUpdate
      /\ misread' = misread /\ both' = both
  BY DEF UpdateReturns
<1>4. NoUpdate \in UpdateType
  BY DEF UpdateType
<1>5. TypeOK'
  BY <1>2, <1>3, <1>4, TypeParts, PartsType, Zenon DEF ModesInv
<1>. QED
  BY <1>3, <1>5 DEF ModesInv, MayOf

-----------------------------------------------------------------------------
(* What happens at the server.                                             *)
LEMMA TellFrame ==
  ASSUME ModesInv, NEW msg \in WireType, Tell(msg),
         room' \in RoomType, to_server' \in Seq(CommandType),
         misread' \in BOOLEAN
  PROVE  ModesInv'
<1>1. /\ chan' = chan /\ config' = config
      /\ updating' = updating /\ updated' = updated /\ both' = both
      /\ to_user' = Append(to_user, msg)
  BY DEF Tell
<1>2. to_user \in Seq(WireType)
  BY TypeParts, Zenon DEF ModesInv
<1>3. to_user' \in Seq(WireType)
  BY <1>1, <1>2, TailAppend, Zenon
<1>4. TypeOK'
  BY <1>1, <1>3, TypeParts, PartsType, Zenon DEF ModesInv
<1>. QED
  BY <1>1, <1>4 DEF ModesInv, MayOf

LEMMA MessageTypes ==
  ASSUME NEW first \in Letters, NEW second \in Letters \cup {NoLetter}
  PROVE  ModeMessage(first, second) \in WireType
BY DEF ModeMessage, ModeMessages, WireType

LEMMA OthersChangeKeepsModesInv ==
  ASSUME ModesInv, NEW first \in Letters, NEW second \in Letters \cup {NoLetter},
         OthersChange(first, second)
  PROVE  ModesInv'
<1>1. ModeMessage(first, second) \in WireType
  BY MessageTypes
<1>2. /\ room \in RoomType /\ to_server \in Seq(CommandType)
      /\ misread \in BOOLEAN
  BY TypeParts, Zenon DEF ModesInv
<1>3. Apply(Apply(room, first), second) \in RoomType
  BY <1>2, ApplyType
<1>4. /\ room' = Apply(Apply(room, first), second)
      /\ Tell(ModeMessage(first, second))
      /\ to_server' = to_server
      /\ misread' = (misread \/ Misreads(first, second))
  BY Zenon DEF OthersChange
<1>5. misread' \in BOOLEAN
  BY <1>2, <1>4
<1>. QED
  BY <1>1, <1>2, <1>3, <1>4, <1>5, TellFrame, Zenon

LEMMA ReplyTypes ==
  ASSUME NEW r \in RoomType
  PROVE  ModeIs(r) \in WireType
<1>1. Change("+", r.modes \ Privileges) \in Changes
  BY DEF Change, Changes, RoomType
<1>. QED
  BY <1>1 DEF ModeIs, ReplyMessages, WireType, RoomType

LEMMA HandleQueryKeepsModesInv ==
  ASSUME ModesInv, HandleQuery
  PROVE  ModesInv'
<1>1. /\ room \in RoomType /\ to_server \in Seq(CommandType)
      /\ misread \in BOOLEAN
  BY TypeParts, Zenon DEF ModesInv
<1>2. ModeIs(room) \in WireType
  BY <1>1, ReplyTypes
<1>3. to_server' \in Seq(CommandType)
  BY <1>1, TailAppend, Zenon DEF HandleQuery
<1>. QED
  BY <1>1, <1>2, <1>3, TellFrame, Zenon DEF HandleQuery

LEMMA HandleModeKeepsModesInv ==
  ASSUME ModesInv, HandleMode
  PROVE  ModesInv'
<1>. DEFINE cmd == Head(to_server)
<1>1. /\ room \in RoomType /\ to_server \in Seq(CommandType)
      /\ misread \in BOOLEAN
  BY TypeParts, Zenon DEF ModesInv
<1>2. cmd \in CommandType /\ cmd.type = "MODE"
  BY <1>1, TailAppend, Zenon DEF HandleMode
<1>3. cmd.letter \in Letters
  BY <1>2 DEF CommandType, Queries, ModeCommands
<1>4. to_server' \in Seq(CommandType) /\ misread' = misread
  BY <1>1, TailAppend, Zenon DEF HandleMode
<1>. HIDE DEF cmd
<1>5. ModeMessage(cmd.letter, NoLetter) \in WireType
  BY <1>3, MessageTypes
<1>6. Apply(room, cmd.letter) \in RoomType
  BY <1>1, <1>3, ApplyType
<1>7. CASE /\ room' = Apply(room, cmd.letter)
           /\ Tell(ModeMessage(cmd.letter, NoLetter))
  BY <1>1, <1>4, <1>5, <1>6, <1>7, TellFrame, Zenon
<1>8. CASE UNCHANGED <<room, to_user, chan, config, updating, updated, both>>
  <2>1. TypeOK'
    BY <1>4, <1>8, TypeParts, PartsType DEF ModesInv
  <2>. QED
    BY <1>8, <2>1 DEF ModesInv, MayOf
<1>. QED
  BY <1>7, <1>8, Zenon DEF HandleMode, cmd

-----------------------------------------------------------------------------
(* The channel is new, or that of a '+' channel.                           *)
LEMMA NewChannelKeepsMay ==
  ASSUME Init
  PROVE  /\ chan \in ChanType /\ MayOf(chan)
         /\ chan.flags \subseteq room.modes /\ chan.flags \cap Privileges = {}
         /\ chan.flags \subseteq {"t"}
<1>1. NewChannel \in ChanType /\ MayOf(NewChannel) /\ NewChannel.flags = {}
  BY DEF NewChannel, ChanType, MayOf, IsOp
<1>2. CASE chan = NewChannel
  BY <1>1, <1>2
<1>3. CASE /\ room.modes = {"t"}
           /\ chan = ChangeModeState(NewChannel, {"t"}, {})
  <2>1. {"t"} \in SUBSET (Modes \ NewChannel.flags) /\ {} \in SUBSET NewChannel.flags
    BY <1>1, <1>3 DEF Init
  <2>2. chan \in ChanType /\ MayOf(chan)
    BY <1>1, <1>3, <2>1, ChangeKeepsMay
  <2>3. chan.flags = {"t"}
    BY <1>1, <1>3 DEF ChangeModeState
  <2>. QED
    BY <1>3, <2>2, <2>3 DEF Privileges, OPS
<1>. QED
  BY <1>2, <1>3 DEF Init

LEMMA ModesInitially ==
  ASSUME Init
  PROVE  ModesInv
<1>1. /\ room \in RoomType
      /\ config = [true |-> {}, limit |-> 0]
      /\ updating = NoUpdate
      /\ updated = {}
      /\ misread = FALSE /\ both = FALSE
  BY DEF Init, RoomType
<1>2. to_user \in Seq(WireType)
  <2>1. PICK p \in Privileges \cup {"none"} :
              /\ room.modes \cap Privileges = {p} \ {"none"}
              /\ to_user = <<NameReply(p)>>
    BY DEF Init
  <2>2. p \in (Privileges \cap Modes) \cup {"none"}
    BY <1>1, <2>1 DEF RoomType
  <2>3. NameReply(p) \in WireType
    BY <2>2 DEF NameReply, WireType, NameMessages
  <2>. QED
    BY <2>1, <2>3
<1>3. to_server \in Seq(CommandType)
  BY DEF Init, CommandType, Queries
<1>4. TypeOK
  <2>1. config \in ConfigType
    BY <1>1 DEF ConfigType
  <2>2. updating \in UpdateType
    BY <1>1 DEF UpdateType
  <2>3. updated \subseteq Modes /\ misread \in BOOLEAN /\ both \in BOOLEAN
    BY <1>1
  <2>. QED
    BY <1>1, <1>2, <1>3, <2>1, <2>2, <2>3, NewChannelKeepsMay, Zenon
       DEF TypeOK, WireType, NameMessages, ReplyMessages, ModeMessages,
           CommandType, Queries, ModeCommands, RoomType, ChanType, ConfigType,
           UpdateType, LettersOrNone
<1>. QED
  BY <1>4, NewChannelKeepsMay, Zenon DEF ModesInv

LEMMA ModesStep ==
  ASSUME ModesInv, [Next]_vars
  PROVE  ModesInv'
<1>1. CASE Namereply
  BY <1>1, NamereplyKeepsModesInv, Zenon
<1>2. CASE ModeReply
  BY <1>2, ModeReplyKeepsModesInv, Zenon
<1>3. CASE Mode
  BY <1>3, ModeKeepsModesInv, Zenon
<1>4. CASE \E mode \in Quick \cap Modes, value \in BOOLEAN :
              UpdateBoolean(mode, value)
  BY <1>4, UpdateBooleanKeepsModesInv, Zenon
<1>5. CASE \E limit \in Limits \cup {0} : "l" \in Modes /\ UpdateLimit(limit)
  BY <1>5, UpdateLimitKeepsModesInv, Zenon
<1>6. CASE \E property \in {"k", "password"}, protected \in BOOLEAN :
              "k" \in Modes /\ UpdatePassword(property, protected)
  BY <1>6, UpdatePasswordKeepsModesInv, Zenon
<1>7. CASE UpdateReturns
  BY <1>7, UpdateReturnsKeepsModesInv, Zenon
<1>8. CASE \E first \in Letters, second \in Letters \cup {NoLetter} :
              OthersChange(first, second)
  BY <1>8, OthersChangeKeepsModesInv, Zenon
<1>9. CASE HandleQuery
  BY <1>9, HandleQueryKeepsModesInv, Zenon
<1>10. CASE HandleMode
  BY <1>10, HandleModeKeepsModesInv, Zenon
<1>11. CASE UNCHANGED vars
  BY <1>11, Zenon DEF ModesInv, MayOf, TypeOK, vars
<1>. QED
  BY <1>1, <1>2, <1>3, <1>4, <1>5, <1>6, <1>7, <1>8, <1>9, <1>10, <1>11, Zenon
     DEF Next, Changing, LettersOrNone

(* What changes nothing but some modes is a step of a room of more.        *)
LEMMA ChangingMore ==
    ASSUME NEW those \in SUBSET Modes, Changing(those)
    PROVE  Next
<1>1. CASE \E first \in Letters, second \in LettersOrNone :
              WireHasRoom /\ OthersChange(first, second)
  <2>1. PICK first \in Letters, second \in LettersOrNone :
               WireHasRoom /\ OthersChange(first, second)
    BY <1>1
  <2>2. \A l \in Letters : l.mode \in Modes \cup {"b"}
    BY DEF Letters, Signed
  <2>3. second.mode \in Modes \cup {"b", "none"}
    <3>1. NoLetter.mode = "none"
      BY DEF NoLetter, Letter
    <3>. QED
      BY <2>2, <3>1, Zenon DEF LettersOrNone
  <2>. QED
    BY <2>1, <2>2, <2>3 DEF Next, Changing
<1>2. CASE ~\E first \in Letters, second \in LettersOrNone :
              WireHasRoom /\ OthersChange(first, second)
  BY <1>2 DEF Next, Changing
<1>. QED
  BY <1>1, <1>2

(* A step of a room is a step of its modes or leaves them alone.           *)
LEMMA RoomModesStep ==
    ASSUME [RoomNext]_roomVars
    PROVE  [Next]_vars
<1>1. CASE \E those \in Groups : Changing(those)
  BY <1>1, MucRoomAssumption, ChangingMore
<1>2. CASE UNCHANGED vars
  BY <1>2
<1>. QED
  BY <1>1, <1>2 DEF RoomNext, roomVars

LEMMA ModesInvHolds == RoomSpec => []ModesInv
<1>1. RoomInit => ModesInv
  BY ModesInitially DEF RoomInit
<1>2. ModesInv /\ [RoomNext]_roomVars => ModesInv'
  BY RoomModesStep, ModesStep
<1>3. QED
  BY <1>1, <1>2, PTL DEF RoomSpec

(* Every variable keeps its type, for any modes, limits and bounds.        *)
THEOREM ModesTypeCorrect == RoomSpec => []TypeOK
<1>1. ModesInv => TypeOK
  BY Zenon DEF ModesInv
<1>. QED
  BY <1>1, ModesInvHolds, PTL

(* What clients are told they may do is what the modes the channel knows   *)
(* allow: change_mode_state(), which looks only at what changes, never     *)
(* loses track, whatever order the changes come in.                        *)
THEOREM MayCorrect == RoomSpec => []MayAsModes
<1>1. ModesInv => MayAsModes
  BY Zenon DEF ModesInv, MayOf, MayAsModes
<1>. QED
  BY <1>1, ModesInvHolds, PTL

-----------------------------------------------------------------------------
(* The configuration of the room.  A limit comes with every "+l", unless   *)
(* its argument is misread.                                                *)
Limited(change, limit) ==
    change.sign = "+" /\ "l" \in change.modes => limit # 0
Right(m, wrong) ==
    /\ m.type = "MODEIS" => Limited(m.change, m.limit)
    /\ m.type = "MODE" => wrong \/ ~Misreads(m.first, m.second)
LimitedRoom(r) == r.limit # 0 <=> "l" \in r.modes

(* ConfigMirrors of a configuration and a channel.                         *)
MirrorsOf(f, c, own, wrong, two) ==
    /\ \A mode \in (Booleans \ Hidden) \ own :
          mode \in f.true <=> mode \in c.flags
    /\ "l" \notin own /\ ~wrong => (f.limit # 0 <=> "l" \in c.flags)
    /\ "s" \notin own =>
          /\ "s" \in f.true => c.flags \cap Hidden # {}
          /\ "s" \notin f.true /\ ~two => c.flags \cap Hidden = {}

ConfigInv ==
    /\ LimitedRoom(room)
    /\ \A i \in 1 .. Len(to_user) : Right(to_user[i], misread)
    /\ updating # NoUpdate => updating.mode \in updated \cup {"password"}
    /\ Hidden \subseteq chan.flags => both
    /\ MirrorsOf(config, chan, updated, misread, both)

(* One sign of a message changes the configuration as it does the modes.   *)
LEMMA ConfigAfterMirrors ==
    ASSUME NEW c \in ChanType, NEW f \in ConfigType, NEW change \in Changes,
           NEW limit \in Limits \cup {0}, NEW own, NEW wrong, NEW two,
           wrong \/ Limited(change, limit),
           Hidden \subseteq c.flags => two,
           MirrorsOf(f, c, own, wrong, two)
    PROVE  MirrorsOf(ConfigAfter(f, c, change, limit),
                     AfterChange(c, change), own, wrong, two)
<1> DEFINE add == AddOf(c, change)
           remove == RemoveOf(c, change)
           d == AfterChange(c, change)
           g == ConfigAfter(f, c, change, limit)
<1>1. d.flags = (c.flags \cup add) \ remove
  BY DEF AfterChange, ChangeModeState
<1>2. /\ g.true = (f.true \cup Properties(add)) \ Properties(remove)
      /\ g.limit = IF "l" \in add THEN limit
                   ELSE IF "l" \in remove THEN 0 ELSE f.limit
  BY DEF ConfigAfter, SetFromMode
<1>3. /\ add = {} \/ remove = {}
      /\ "l" \in add /\ ~wrong => limit # 0
      /\ remove \subseteq c.flags
  BY DEF AddOf, RemoveOf, Added, Removed, Limited, Changes
<1> HIDE DEF add, remove, d, g
<1>4. \A mode \in (Booleans \ Hidden) \ own : mode \in g.true <=> mode \in d.flags
  <2>1. \A mode \in Booleans \ Hidden :
           /\ mode \in Properties(add) <=> mode \in add
           /\ mode \in Properties(remove) <=> mode \in remove
    BY DEF Properties, Hidden
  <2>2. QED
    BY <1>1, <1>2, <2>1 DEF MirrorsOf
<1>5. "l" \notin own /\ ~wrong => (g.limit # 0 <=> "l" \in d.flags)
  BY <1>1, <1>2, <1>3 DEF MirrorsOf
<1>6. ASSUME "s" \notin own
      PROVE  /\ "s" \in g.true => d.flags \cap Hidden # {}
             /\ "s" \notin g.true /\ ~two => d.flags \cap Hidden = {}
  <2>1. /\ "s" \in Properties(add) <=> add \cap Hidden # {}
        /\ "s" \in Properties(remove) <=> remove \cap Hidden # {}
    BY DEF Properties, Hidden, Booleans, Quick
  <2>2. /\ "s" \in f.true => c.flags \cap Hidden # {}
        /\ "s" \notin f.true /\ ~two => c.flags \cap Hidden = {}
    BY <1>6 DEF MirrorsOf
  <2>3. CASE remove = {}
    BY <1>1, <1>2, <2>1, <2>2, <2>3
  <2>4. CASE add = {} /\ remove \cap Hidden = {}
    BY <1>1, <1>2, <2>1, <2>2, <2>4
  <2>5. CASE add = {} /\ remove \cap Hidden # {}
    <3>1. "s" \notin g.true
      BY <1>2, <2>1, <2>5
    <3>2. two \/ ~(Hidden \subseteq c.flags)
      OBVIOUS
    <3>3. ~(Hidden \subseteq c.flags) => d.flags \cap Hidden = {}
      BY <1>1, <1>3, <2>5 DEF Hidden
    <3>4. QED
      BY <3>1, <3>2, <3>3
  <2>6. QED
    BY <1>3, <2>3, <2>4, <2>5
<1>7. QED
  BY <1>4, <1>5, <1>6 DEF MirrorsOf, d, g

(* The limit that was read is that of every "+l" of a message.             *)
LEMMA LimitFound ==
    ASSUME NEW first \in Letters, NEW second \in Letters \cup {NoLetter},
           ~Misreads(first, second),
           NEW a, a = Heard(first, first.arg),
           NEW b, b = Heard(second, ArgOfSecond(first, second))
    PROVE  /\ Limited(Flushed(a, b), LimitRead(first, second))
           /\ Limited(Accum(a, b), LimitRead(first, second))
<1>1. /\ a.sign = first.sign /\ b.sign = second.sign
      /\ "l" \in a.modes => first.mode = "l"
      /\ "l" \in b.modes => second.mode = "l"
  BY DEF Heard, Change
<1>2. /\ first.mode = "l" /\ first.sign = "+" => first.arg.number # 0
      /\ second.mode = "l" /\ second.sign = "+" => second.arg.number # 0
  <2>1. \A l \in Letters \cup {NoLetter} :
           l.mode = "l" /\ l.sign = "+" => l.arg.number # 0
    <3>1. \A l \in Letters : l.mode = "l" /\ l.sign = "+" => l.arg.number # 0
      BY DEF Letters, Fits
    <3>2. NoLetter.mode # "l"
      BY DEF NoLetter, Letter
    <3>3. QED
      BY <3>1, <3>2
  <2>2. QED
    BY <2>1
<1>3. LimitRead(first, second) =
         IF second.mode = "l" /\ second.sign = "+" THEN second.arg.number
         ELSE IF first.mode = "l" THEN first.arg.number ELSE 0
  BY DEF LimitRead, Misreads
<1>4. /\ first.mode = "l" /\ first.sign = "+" => LimitRead(first, second) # 0
      /\ second.mode = "l" /\ second.sign = "+" => LimitRead(first, second) # 0
  BY <1>2, <1>3
<1>5. Limited(Flushed(a, b), LimitRead(first, second))
  <2>1. /\ Flushed(a, b).sign = a.sign
        /\ "l" \in Flushed(a, b).modes => "l" \in a.modes
    BY DEF Flushed, Change
  <2>2. QED
    BY <1>1, <1>4, <2>1 DEF Limited
<1>6. Limited(Accum(a, b), LimitRead(first, second))
  <2>1. CASE a.sign = b.sign
    <3>1. Accum(a, b) = Change(b.sign, b.modes \cup a.modes)
      BY <2>1 DEF Accum, Heard, Change
    <3>2. QED
      BY <1>1, <1>4, <2>1, <3>1 DEF Limited, Change
  <2>2. CASE a.sign # b.sign
    BY <1>1, <1>4, <2>2 DEF Limited, Accum
  <2>3. QED
    BY <2>1, <2>2
<1>7. QED
  BY <1>5, <1>6

(* What is read of a message changes configuration and modes alike, and    *)
(* the two modes of "private" are never both there unnoticed.              *)
LEMMA ModeMirrors ==
    ASSUME ModesInv, ConfigInv, Mode
    PROVE  /\ MirrorsOf(config', chan', updated, misread, both')
           /\ Hidden \subseteq chan'.flags => both'
<1> DEFINE msg == Head(to_user)
           first == Heard(msg.first, msg.first.arg)
           second == Heard(msg.second, ArgOfSecond(msg.first, msg.second))
           limit == LimitRead(msg.first, msg.second)
           flushed == Flushed(first, second)
           accum == Accum(first, second)
           between == AfterChange(chan, flushed)
           config1 == ConfigAfter(config, chan, flushed, limit)
<1>1. /\ TypeOK /\ MayOf(chan) /\ chan \in ChanType /\ config \in ConfigType
      /\ to_user \in Seq(WireType)
  BY TypeParts, Zenon DEF ModesInv
<1>2. msg \in WireType /\ msg.type = "MODE" /\ Right(msg, misread)
  <2>1. to_user # <<>> /\ msg.type = "MODE"
    BY DEF Mode, Receive
  <2>2. 1 \in 1 .. Len(to_user) /\ msg = to_user[1] /\ msg \in WireType
    BY <1>1, <2>1, Taken
  <2>3. QED
    BY <2>1, <2>2 DEF ConfigInv
<1>3. /\ msg.first \in Letters /\ msg.second \in Letters \cup {NoLetter}
      /\ misread \/ ~Misreads(msg.first, msg.second)
  BY <1>2 DEF WireType, NameMessages, ReplyMessages, ModeMessages, Right
<1>4. /\ chan' = AfterChange(between, accum)
      /\ config' = ConfigAfter(config1, between, accum, limit)
      /\ both' = \/ both
                 \/ Hidden \subseteq between.flags
                 \/ Hidden \subseteq chan'.flags
  BY Zenon DEF Mode
<1> HIDE DEF msg
<1>5. first \in Changes /\ second \in Changes /\ limit \in Limits \cup {0}
  BY <1>3, LetterType, ArgTypes, Zenon
<1>6. /\ misread \/ Limited(flushed, limit)
      /\ misread \/ Limited(accum, limit)
  BY <1>3, LimitFound, Zenon
<1> HIDE DEF first, second, limit
<1>7. flushed \in Changes /\ accum \in Changes
  BY <1>5, CallTypes, Zenon
<1> HIDE DEF flushed, accum
<1>8. between \in ChanType /\ config1 \in ConfigType
  BY <1>1, <1>5, <1>7, AfterChangeKeepsMay, ConfigAfterType, Zenon
<1>9. /\ both => both'
      /\ Hidden \subseteq between.flags => both'
      /\ Hidden \subseteq chan'.flags => both'
  BY <1>4, Zenon
<1>10. MirrorsOf(config, chan, updated, misread, both')
  BY <1>9, Zenon DEF ConfigInv, MirrorsOf
<1>11. Hidden \subseteq chan.flags => both'
  BY <1>9, Zenon DEF ConfigInv
<1>12. MirrorsOf(config1, between, updated, misread, both')
  BY <1>1, <1>5, <1>6, <1>7, <1>10, <1>11, ConfigAfterMirrors, Zenon
<1> HIDE DEF between, config1
<1>13. MirrorsOf(config', chan', updated, misread, both')
  BY <1>4, <1>5, <1>6, <1>7, <1>8, <1>9, <1>12, ConfigAfterMirrors, Zenon
<1>14. QED
  BY <1>9, <1>13

LEMMA ModeReplyMirrors ==
    ASSUME ModesInv, ConfigInv, ModeReply
    PROVE  /\ MirrorsOf(config', chan', updated, misread, both')
           /\ Hidden \subseteq chan'.flags => both'
<1> DEFINE msg == Head(to_user)
<1>1. /\ chan \in ChanType /\ config \in ConfigType /\ to_user \in Seq(WireType)
  BY TypeParts, Zenon DEF ModesInv
<1>2. msg \in WireType /\ msg.type = "MODEIS" /\ Right(msg, misread)
  <2>1. to_user # <<>> /\ msg.type = "MODEIS"
    BY DEF ModeReply, Receive
  <2>2. 1 \in 1 .. Len(to_user) /\ msg = to_user[1] /\ msg \in WireType
    BY <1>1, <2>1, Taken
  <2>3. QED
    BY <2>1, <2>2 DEF ConfigInv
<1>3. /\ msg.change \in Changes /\ msg.limit \in Limits \cup {0}
      /\ Limited(msg.change, msg.limit)
  BY <1>2 DEF WireType, NameMessages, ReplyMessages, ModeMessages, Right
<1>4. /\ chan' = AfterChange(chan, msg.change)
      /\ config' = ConfigAfter(config, chan, msg.change, msg.limit)
      /\ both' = (both \/ Hidden \subseteq chan'.flags)
  BY Zenon DEF ModeReply
<1> HIDE DEF msg
<1>5. /\ both => both'
      /\ Hidden \subseteq chan'.flags => both'
  BY <1>4, Zenon
<1>6. MirrorsOf(config, chan, updated, misread, both')
  BY <1>5, Zenon DEF ConfigInv, MirrorsOf
<1>7. Hidden \subseteq chan.flags => both'
  BY <1>5, Zenon DEF ConfigInv
<1>8. MirrorsOf(config', chan', updated, misread, both')
  BY <1>1, <1>3, <1>4, <1>6, <1>7, ConfigAfterMirrors, Zenon
<1>9. QED
  BY <1>5, <1>8

(* A letter keeps a limit where there is the mode, and only there.         *)
LEMMA ApplyLimited ==
    ASSUME NEW r \in RoomType, NEW l \in Letters \cup {NoLetter}, LimitedRoom(r)
    PROVE  LimitedRoom(Apply(r, l))
<1> DEFINE modes == Changed(r.modes, Heard(l, l.arg))
<1>1. /\ Apply(r, l).modes = modes
      /\ Apply(r, l).limit = IF "l" \notin modes THEN 0
                             ELSE IF l.mode = "l" THEN l.arg.number ELSE r.limit
  BY DEF Apply
<1>2. CASE l.mode # "l"
  <2>1. "l" \in modes <=> "l" \in r.modes
    BY <1>2 DEF Changed, Heard, Change
  <2>2. QED
    BY <1>1, <1>2, <2>1 DEF LimitedRoom
<1>3. CASE l.mode = "l"
  <2>1. l \in Letters
    <3>1. NoLetter.mode # "l"
      BY DEF NoLetter, Letter
    <3>2. QED
      BY <1>3, <3>1
  <2>2. /\ l.sign \in {"+", "-"}
        /\ l.arg.number # 0 <=> l.sign = "+"
    BY <1>3, <2>1, LetterType DEF Letters, Fits
  <2>3. "l" \in modes => l.sign = "+"
    <3>1. Heard(l, l.arg).sign = l.sign /\ Heard(l, l.arg).modes = {"l"} \cap Modes
      BY <1>3 DEF Heard, Change, Privileges, OPS
    <3>2. r.modes \subseteq Modes
      BY DEF RoomType
    <3>3. QED
      BY <3>1, <3>2, <2>2 DEF Changed
  <2>4. QED
    BY <1>1, <1>3, <2>2, <2>3 DEF LimitedRoom
<1>4. QED
  BY <1>2, <1>3

(* What a step that tells the user something has to show.                  *)
LEMMA ConfigTold ==
    ASSUME ModesInv, ConfigInv, LimitedRoom(room'), NEW msg \in WireType, Tell(msg),
           misread => misread', Right(msg, misread')
    PROVE  ConfigInv'
<1>1. /\ to_user' = Append(to_user, msg)
      /\ UNCHANGED <<chan, config, updating, updated, both>>
  BY DEF Tell
<1>2. \A i \in 1 .. Len(to_user') : Right(to_user'[i], misread')
  <2>1. to_user \in Seq(WireType)
    BY TypeParts DEF ModesInv
  <2>2. /\ Len(to_user') = Len(to_user) + 1 /\ Len(to_user) \in Nat
        /\ to_user'[Len(to_user')] = msg
        /\ \A i \in 1 .. Len(to_user) : to_user'[i] = to_user[i]
    BY <1>1, <2>1, Appended
  <2>3. \A i \in 1 .. Len(to_user) : Right(to_user[i], misread')
    BY DEF ConfigInv, Right
  <2>4. \A i \in 1 .. Len(to_user') : i \in 1 .. Len(to_user) \/ i = Len(to_user')
    BY <2>2
  <2>5. QED
    BY <2>2, <2>3, <2>4
<1>3. MirrorsOf(config', chan', updated', misread', both')
  BY <1>1 DEF ConfigInv, MirrorsOf
<1>4. /\ updating' # NoUpdate => updating'.mode \in updated' \cup {"password"}
      /\ Hidden \subseteq chan'.flags => both'
  BY <1>1 DEF ConfigInv
<1>5. QED
  BY <1>2, <1>3, <1>4 DEF ConfigInv, LimitedRoom

(* What a step of the channel's own has to show.                           *)
LEMMA TakenFrame ==
    ASSUME ModesInv, ConfigInv, NEW type, Receive(type),
           MirrorsOf(config', chan', updated, misread, both'),
           Hidden \subseteq chan'.flags => both'
    PROVE  ConfigInv'
<1>1. UNCHANGED <<room, to_server, updating, updated, misread>>
  BY DEF Receive
<1>2. \A i \in 1 .. Len(to_user') : Right(to_user'[i], misread')
  <2>1. to_user \in Seq(WireType) /\ to_user # <<>> /\ to_user' = Tail(to_user)
    BY TypeParts DEF ModesInv, Receive
  <2>2. \A i \in 1 .. Len(to_user') :
           i + 1 \in 1 .. Len(to_user) /\ to_user'[i] = to_user[i + 1]
    BY <2>1, Taken
  <2>3. QED
    BY <1>1, <2>2 DEF ConfigInv
<1>3. QED
  BY <1>1, <1>2 DEF ConfigInv, LimitedRoom, MirrorsOf

LEMMA NamereplyKeepsConfig ==
    ASSUME ModesInv, ConfigInv, Namereply
    PROVE  ConfigInv'
<1>1. PICK add, remove \in SUBSET Privileges :
              chan' = ChangeModeState(chan, add, remove)
  <2> DEFINE mode == {Head(to_user).mode} \cap {"o", "v"}
  <2>1. chan' = ChangeModeState(chan, Added(chan, mode),
                                Removed(chan, Privileges \ mode))
    BY DEF Namereply
  <2>2. /\ Added(chan, mode) \in SUBSET Privileges
        /\ Removed(chan, Privileges \ mode) \in SUBSET Privileges
    BY DEF Added, Removed, Privileges, OPS
  <2>3. QED
    BY <2>1, <2>2
<1>2. chan'.flags = (chan.flags \cup add) \ remove
  BY <1>1 DEF ChangeModeState
<1>3. config' = config /\ both' = both /\ Receive("NAMEREPLY")
  BY DEF Namereply
<1>4. \A mode \in Booleans \cup Hidden \cup {"l"} :
         mode \in chan.flags <=> mode \in chan'.flags
  BY <1>2 DEF Booleans, Quick, Hidden, Privileges, OPS
<1>5. chan'.flags \cap Hidden = chan.flags \cap Hidden
  BY <1>4
<1>6. MirrorsOf(config', chan', updated, misread, both')
  BY <1>3, <1>4, <1>5 DEF ConfigInv, MirrorsOf
<1>7. Hidden \subseteq chan'.flags => both'
  BY <1>3, <1>4 DEF ConfigInv
<1>8. QED
  BY <1>3, <1>6, <1>7, TakenFrame, Zenon

LEMMA UpdateKeepsConfig ==
    ASSUME ModesInv, ConfigInv, NEW property \in Modes,
           UpdateConfiguration(property),
           updating'.mode \in {property, "password"},
           \/ config' = config
           \/ property = "k" /\ config' = [config EXCEPT !.true = @ \cup {"k"}]
    PROVE  ConfigInv'
<1>1. /\ UNCHANGED <<room, to_user, chan, misread, both>>
      /\ updated' = updated \cup {property}
  BY DEF UpdateConfiguration
<1>2. config \in ConfigType
  BY TypeParts, Zenon DEF ModesInv
<1>3. MirrorsOf(config', chan', updated', misread', both')
  <2>1. config'.limit = config.limit
    BY <1>2 DEF ConfigType
  <2>2. \A mode \in Booleans \ updated' : mode \in config'.true <=> mode \in config.true
    BY <1>1, <1>2 DEF ConfigType
  <2>3. "s" \in Booleans
    BY DEF Booleans, Quick
  <2>4. QED
    BY <1>1, <2>1, <2>2, <2>3 DEF ConfigInv, MirrorsOf
<1>4. updating'.mode \in updated' \cup {"password"}
  BY <1>1
<1>5. QED
  BY <1>1, <1>3, <1>4 DEF ConfigInv, LimitedRoom, Right

LEMMA UpdatesKeepConfig ==
    ASSUME ModesInv, ConfigInv,
           \/ \E mode \in Quick \cap Modes, value \in BOOLEAN :
                 UpdateBoolean(mode, value)
           \/ \E limit \in Limits \cup {0} : "l" \in Modes /\ UpdateLimit(limit)
           \/ \E property \in {"k", "password"}, protected \in BOOLEAN :
                 "k" \in Modes /\ UpdatePassword(property, protected)
    PROVE  ConfigInv'
<1>1. ASSUME NEW mode \in Quick \cap Modes, NEW value \in BOOLEAN,
             UpdateBoolean(mode, value)
      PROVE  ConfigInv'
  <2>1. updating'.mode = mode /\ config' = config /\ UpdateConfiguration(mode)
    BY <1>1 DEF UpdateBoolean
  <2>2. QED
    BY <2>1, UpdateKeepsConfig
<1>2. ASSUME NEW limit \in Limits \cup {0}, "l" \in Modes, UpdateLimit(limit)
      PROVE  ConfigInv'
  <2>1. updating'.mode = "l" /\ config' = config /\ UpdateConfiguration("l")
    BY <1>2 DEF UpdateLimit
  <2>2. QED
    BY <1>2, <2>1, UpdateKeepsConfig
<1>3. ASSUME NEW property \in {"k", "password"}, NEW protected \in BOOLEAN,
             "k" \in Modes, UpdatePassword(property, protected)
      PROVE  ConfigInv'
  <2>1. updating'.mode \in {"k", "password"} /\ UpdateConfiguration("k")
    BY <1>3 DEF UpdatePassword
  <2>2. \/ config' = config
        \/ config' = [config EXCEPT !.true = @ \cup {"k"}]
    BY <1>3 DEF UpdatePassword
  <2>3. QED
    BY <1>3, <2>1, <2>2, UpdateKeepsConfig
<1>4. QED
  BY <1>1, <1>2, <1>3, Zenon

LEMMA UpdateReturnsKeepsConfig ==
    ASSUME ModesInv, ConfigInv, UpdateReturns
    PROVE  ConfigInv'
<1>1. /\ updating \in UpdateType /\ config \in ConfigType
      /\ updating # NoUpdate /\ updating.mode \in updated \cup {"password"}
  BY TypeParts, Zenon DEF ModesInv, UpdateReturns, ConfigInv
<1>2. /\ UNCHANGED <<room, to_user, to_server, chan, updated, misread, both>>
      /\ updating' = NoUpdate
  BY DEF UpdateReturns
<1>3. MirrorsOf(config', chan', updated', misread', both')
  <2>1. CASE updating.mode = "l"
    <3>1. config' = [config EXCEPT !.limit = updating.value]
      BY <2>1, Zenon DEF UpdateReturns
    <3>2. "l" \in updated /\ config'.true = config.true
      BY <1>1, <2>1, <3>1 DEF ConfigType
    <3>3. QED
      BY <1>2, <3>2 DEF ConfigInv, MirrorsOf
  <2>2. CASE updating.mode = "password"
    <3>1. config' = config
      BY <2>2 DEF UpdateReturns
    <3>2. QED
      BY <1>2, <3>1 DEF ConfigInv, MirrorsOf
  <2>3. CASE updating.mode # "l" /\ updating.mode # "password"
    <3>1. config' = [config EXCEPT
                        !.true = IF updating.value = 1
                                 THEN @ \cup {updating.mode}
                                 ELSE @ \ {updating.mode}]
      BY <2>3 DEF UpdateReturns
    <3>2. /\ config'.limit = config.limit
          /\ \A mode : mode # updating.mode =>
                          (mode \in config'.true <=> mode \in config.true)
      BY <1>1, <3>1 DEF ConfigType
    <3>3. updating.mode \in updated
      BY <1>1, <2>3
    <3>4. QED
      BY <1>2, <3>2, <3>3 DEF ConfigInv, MirrorsOf
  <2>4. QED
    BY <2>1, <2>2, <2>3, Zenon
<1>4. QED
  BY <1>2, <1>3 DEF ConfigInv, LimitedRoom, Right

LEMMA OthersChangeKeepsConfig ==
    ASSUME ModesInv, ConfigInv, NEW first \in Letters,
           NEW second \in Letters \cup {NoLetter}, OthersChange(first, second)
    PROVE  ConfigInv'
<1>1. room \in RoomType /\ LimitedRoom(room)
  BY TypeParts, Zenon DEF ModesInv, ConfigInv
<1>2. /\ room' = Apply(Apply(room, first), second)
      /\ Tell(ModeMessage(first, second))
      /\ misread' = (misread \/ Misreads(first, second))
  BY Zenon DEF OthersChange
<1>3. LimitedRoom(room')
  <2>1. first \in Letters \cup {NoLetter}
    OBVIOUS
  <2>2. Apply(room, first) \in RoomType /\ LimitedRoom(Apply(room, first))
    BY <1>1, <2>1, ApplyType, ApplyLimited
  <2>3. LimitedRoom(Apply(Apply(room, first), second))
    BY <2>2, ApplyLimited
  <2>4. QED
    BY <1>2, <2>3
<1>4. /\ misread => misread'
      /\ misread' \/ ~Misreads(first, second)
  BY <1>2, Zenon
<1>5. Right(ModeMessage(first, second), misread')
  BY <1>4 DEF Right, ModeMessage
<1>6. QED
  BY <1>2, <1>3, <1>4, <1>5, MessageTypes, ConfigTold, Zenon

LEMMA HandleQueryKeepsConfig ==
    ASSUME ModesInv, ConfigInv, HandleQuery
    PROVE  ConfigInv'
<1>1. room \in RoomType /\ LimitedRoom(room)
  BY TypeParts, Zenon DEF ModesInv, ConfigInv
<1>2. room' = room /\ misread' = misread /\ Tell(ModeIs(room))
  BY DEF HandleQuery
<1>3. Right(ModeIs(room), misread')
  BY <1>1 DEF Right, ModeIs, Limited, LimitedRoom, Change
<1>4. LimitedRoom(room')
  BY <1>1, <1>2
<1>5. QED
  BY <1>1, <1>2, <1>3, <1>4, ReplyTypes, ConfigTold, Zenon

LEMMA HandleModeKeepsConfig ==
    ASSUME ModesInv, ConfigInv, HandleMode
    PROVE  ConfigInv'
<1> DEFINE cmd == Head(to_server)
<1>1. /\ room \in RoomType /\ LimitedRoom(room) /\ to_server \in Seq(CommandType)
      /\ to_user \in Seq(WireType)
  BY TypeParts, Zenon DEF ModesInv, ConfigInv
<1>2. cmd \in CommandType /\ cmd.type = "MODE" /\ misread' = misread
  BY <1>1, TailAppend, Zenon DEF HandleMode
<1>3. cmd.letter \in Letters
  BY <1>2 DEF CommandType, Queries, ModeCommands
<1>4. CASE IsOp(room.modes) /\ Effective(room, cmd.letter)
  <2>1. room' = Apply(room, cmd.letter) /\ Tell(ModeMessage(cmd.letter, NoLetter))
    BY <1>4 DEF HandleMode
  <2> HIDE DEF cmd
  <2>2. LimitedRoom(room')
    BY <1>1, <1>3, <2>1, ApplyLimited
  <2>3. ModeMessage(cmd.letter, NoLetter) \in WireType
    BY <1>3, MessageTypes
  <2>4. ~Misreads(cmd.letter, NoLetter)
    BY DEF Misreads, ArgOfSecond, Reads, NoLetter, Letter, Privileges, OPS
  <2>5. Right(ModeMessage(cmd.letter, NoLetter), misread')
    BY <2>4 DEF Right, ModeMessage
  <2>6. QED
    BY <1>2, <2>1, <2>2, <2>3, <2>5, ConfigTold, Zenon
<1>5. CASE ~(IsOp(room.modes) /\ Effective(room, cmd.letter))
  <2>1. UNCHANGED <<room, to_user, chan, config, updating, updated, both, misread>>
    BY <1>5 DEF HandleMode
  <2>2. QED
    BY <2>1 DEF ConfigInv, LimitedRoom, Right, MirrorsOf
<1>6. QED
  BY <1>4, <1>5

LEMMA ConfigInitially ==
    ASSUME Init
    PROVE  ConfigInv
<1>1. /\ room.limit # 0 <=> "l" \in room.modes
      /\ config = [true |-> {}, limit |-> 0]
      /\ updating = NoUpdate /\ misread = FALSE /\ both = FALSE
  BY DEF Init
<1>2. chan.flags \subseteq {"t"}
  BY NewChannelKeepsMay
<1>3. chan.flags \cap Hidden = {} /\ "l" \notin chan.flags
      /\ \A mode \in Booleans : mode \notin chan.flags
  BY <1>2 DEF Hidden, Booleans, Quick
<1>4. MirrorsOf(config, chan, updated, misread, both)
  BY <1>1, <1>3 DEF MirrorsOf
<1>5. ~(Hidden \subseteq chan.flags)
  BY <1>3 DEF Hidden
<1>6. \A i \in 1 .. Len(to_user) : Right(to_user[i], misread)
  <2>1. PICK p \in Privileges \cup {"none"} : to_user = <<NameReply(p)>>
    BY DEF Init
  <2>2. \A i \in 1 .. Len(to_user) : to_user[i] = NameReply(p)
    BY <2>1
  <2>3. Right(NameReply(p), misread)
    BY DEF Right, NameReply
  <2>4. QED
    BY <2>2, <2>3
<1>7. QED
  BY <1>1, <1>4, <1>5, <1>6 DEF ConfigInv, LimitedRoom

LEMMA ConfigStep ==
    ASSUME ModesInv, ConfigInv, [Next]_vars
    PROVE  ConfigInv'
<1>1. CASE Namereply
  BY <1>1, NamereplyKeepsConfig, Zenon
<1>2. CASE ModeReply
  <2>1. Receive("MODEIS")
    BY <1>2 DEF ModeReply
  <2>2. QED
    BY <1>2, <2>1, ModeReplyMirrors, TakenFrame, Zenon
<1>3. CASE Mode
  <2>1. Receive("MODE")
    BY <1>3 DEF Mode
  <2>2. QED
    BY <1>3, <2>1, ModeMirrors, TakenFrame, Zenon
<1>4. CASE \/ \E mode \in Quick \cap Modes, value \in BOOLEAN :
                 UpdateBoolean(mode, value)
           \/ \E limit \in Limits \cup {0} : "l" \in Modes /\ UpdateLimit(limit)
           \/ \E property \in {"k", "password"}, protected \in BOOLEAN :
                 "k" \in Modes /\ UpdatePassword(property, protected)
  BY <1>4, UpdatesKeepConfig, Zenon
<1>5. CASE UpdateReturns
  BY <1>5, UpdateReturnsKeepsConfig, Zenon
<1>6. CASE \E first \in Letters, second \in Letters \cup {NoLetter} :
              OthersChange(first, second)
  BY <1>6, OthersChangeKeepsConfig, Zenon
<1>7. CASE HandleQuery
  BY <1>7, HandleQueryKeepsConfig, Zenon
<1>8. CASE HandleMode
  BY <1>8, HandleModeKeepsConfig, Zenon
<1>9. CASE UNCHANGED vars
  BY <1>9, Zenon DEF ConfigInv, MirrorsOf, LimitedRoom, Right, vars
<1>10. QED
  BY <1>1, <1>2, <1>3, <1>4, <1>5, <1>6, <1>7, <1>8, <1>9, Zenon
     DEF Next, Changing, LettersOrNone

(* ConfigMirrors: a property of the room that no client updated is as the  *)
(* modes the channel knows say (change_mode_state(), room-config.c), under *)
(* what the property says of misread messages and of the two modes of      *)
(* "private", whatever updates of other properties return meanwhile and    *)
(* whichever of them the server refused.                                   *)
THEOREM ConfigCorrect == RoomSpec => []ConfigMirrors
<1>1. RoomInit => ConfigInv
  BY ConfigInitially DEF RoomInit
<1>2. ModesInv /\ ConfigInv /\ [RoomNext]_roomVars => ConfigInv'
  BY RoomModesStep, ConfigStep
<1>3. ConfigInv => ConfigMirrors
  BY Zenon DEF ConfigInv, MirrorsOf, ConfigMirrors
<1>4. QED
  BY <1>1, <1>2, <1>3, ModesInvHolds, PTL DEF RoomSpec

-----------------------------------------------------------------------------
(* What the modes of the room were when each message on its way was sent.  *)
ModesTold(modes, m) ==
    CASE m.type = "MODE" -> Changed(Changed(modes, Heard(m.first, m.first.arg)),
                                    Heard(m.second, m.second.arg))
      [] m.type = "MODEIS" -> Changed(modes, m.change)
      [] OTHER -> modes

(* The reply to the query, which is about all the modes but the user's.    *)
TellsAll(m, modes) ==
    m.type = "MODEIS" /\ m.change = Change("+", modes \ Privileges)

NamesFirst == to_user # <<>> /\ to_user[1].type = "NAMEREPLY"
QueryToCome == \E i \in 1 .. Len(to_server) : to_server[i].type = "QUERY"

Behind(v) ==
    /\ v \in [0 .. Len(to_user) -> SUBSET Modes]
    /\ v[Len(to_user)] = room.modes
    /\ \A i \in 1 .. Len(to_user) : v[i] = ModesTold(v[i - 1], to_user[i])
    /\ \A i \in 1 .. Len(to_user) : to_user[i].type = "NAMEREPLY" =>
          i = 1 /\ v[0] \cap Privileges = {to_user[1].mode} \ {"none"}
    /\ \A i \in 1 .. Len(to_user) : to_user[i].type = "MODE" =>
          misread \/ ~Misreads(to_user[i].first, to_user[i].second)
    /\ chan.flags \ Privileges \subseteq v[0] \ Privileges
    /\ misread \/ NamesFirst \/ chan.flags \cap Privileges = v[0] \cap Privileges
    /\ \/ QueryToCome
       \/ \E i \in 1 .. Len(to_user) : TellsAll(to_user[i], v[i])
       \/ chan.flags \ Privileges = v[0] \ Privileges

FlagsInv == \E v : Behind(v)

LEMMA FlagsAfter ==
    ASSUME NEW c, NEW change \in Changes
    PROVE  AfterChange(c, change).flags = Changed(c.flags, change)
<1>1. change.sign = "+" \/ change.sign = "-"
  BY DEF Changes
<1>2. AfterChange(c, change).flags =
         (c.flags \cup AddOf(c, change)) \ RemoveOf(c, change)
  BY DEF AfterChange, ChangeModeState
<1>3. QED
  BY <1>1, <1>2 DEF AddOf, RemoveOf, Added, Removed, Changed

(* One call for two letters of a sign is as good as one for each.          *)
LEMMA FlagsAfterBoth ==
    ASSUME NEW c, NEW a \in Changes, NEW b \in Changes
    PROVE  AfterChange(AfterChange(c, Flushed(a, b)), Accum(a, b)).flags
              = Changed(Changed(c.flags, a), b)
<1>1. Flushed(a, b) \in Changes /\ Accum(a, b) \in Changes
  BY CallTypes
<1>2. AfterChange(AfterChange(c, Flushed(a, b)), Accum(a, b)).flags
         = Changed(Changed(c.flags, Flushed(a, b)), Accum(a, b))
  BY <1>1, FlagsAfter
<1>3. CASE a.sign = b.sign
  <2>1. /\ Flushed(a, b).sign = a.sign /\ Flushed(a, b).modes = {}
        /\ Accum(a, b).sign = a.sign /\ Accum(a, b).modes = b.modes \cup a.modes
    BY <1>3 DEF Flushed, Accum, Change, Changes
  <2>2. QED
    BY <1>2, <1>3, <2>1 DEF Changed
<1>4. CASE a.sign # b.sign
  BY <1>2, <1>4 DEF Flushed, Accum
<1>5. QED
  BY <1>3, <1>4

LEMMA ChangedKeeps ==
    ASSUME NEW a, NEW b, NEW change
    PROVE  /\ a \ Privileges \subseteq b \ Privileges =>
                 Changed(a, change) \ Privileges
                    \subseteq Changed(b, change) \ Privileges
           /\ a \cap Privileges = b \cap Privileges =>
                 Changed(a, change) \cap Privileges
                    = Changed(b, change) \cap Privileges
           /\ a \ Privileges = b \ Privileges =>
                 Changed(a, change) \ Privileges
                    = Changed(b, change) \ Privileges
BY DEF Changed

(* A wrong argument makes a difference to privileges only.                 *)
LEMMA HeardAlike ==
    ASSUME NEW modes, NEW l, NEW arg
    PROVE  Changed(modes, Heard(l, arg)) \ Privileges
              = Changed(modes, Heard(l, l.arg)) \ Privileges
<1>1. /\ Heard(l, arg).sign = Heard(l, l.arg).sign
      /\ Heard(l, arg).modes \ Privileges = Heard(l, l.arg).modes \ Privileges
  BY DEF Heard, Change
<1>2. QED
  BY <1>1 DEF Changed

(* Taking the first message leaves one view less.                          *)
LEMMA TakenBehind ==
    ASSUME TypeOK, NEW v, Behind(v), NEW type, Receive(type),
           chan'.flags \ Privileges \subseteq v[1] \ Privileges,
           misread \/ chan'.flags \cap Privileges = v[1] \cap Privileges,
           \/ chan'.flags \ Privileges = v[1] \ Privileges
           \/ /\ chan.flags \ Privileges # v[0] \ Privileges
              /\ ~TellsAll(to_user[1], v[1])
    PROVE  FlagsInv'
<1> DEFINE w == [i \in 0 .. Len(to_user') |-> v[i + 1]]
<1>0. /\ to_user \in Seq(WireType) /\ to_user # <<>> /\ to_user' = Tail(to_user)
      /\ room' = room /\ to_server' = to_server /\ misread' = misread
  BY TypeParts DEF Receive
<1>1. /\ Len(to_user) \in Nat \ {0} /\ Len(to_user') = Len(to_user) - 1
      /\ Len(to_user') \in Nat
      /\ \A i \in 1 .. Len(to_user') :
            i + 1 \in 1 .. Len(to_user) /\ to_user'[i] = to_user[i + 1]
      /\ \A i \in 2 .. Len(to_user) :
            i - 1 \in 1 .. Len(to_user') /\ to_user'[i - 1] = to_user[i]
  BY <1>0, Taken
<1>2. w \in [0 .. Len(to_user') -> SUBSET Modes]
  <2>1. \A i \in 0 .. Len(to_user') : i + 1 \in 0 .. Len(to_user)
    BY <1>1
  <2>2. QED
    BY <2>1 DEF Behind
<1>3. w[Len(to_user')] = room'.modes
  BY <1>0, <1>1 DEF Behind
<1>4. \A i \in 1 .. Len(to_user') :
         /\ w[i] = ModesTold(w[i - 1], to_user'[i])
         /\ to_user'[i].type # "NAMEREPLY"
  <2> SUFFICES ASSUME NEW i \in 1 .. Len(to_user')
               PROVE  /\ w[i] = ModesTold(w[i - 1], to_user'[i])
                      /\ to_user'[i].type # "NAMEREPLY"
    OBVIOUS
  <2>1. /\ i \in 0 .. Len(to_user') /\ i - 1 \in 0 .. Len(to_user')
        /\ (i - 1) + 1 = i /\ (i + 1) - 1 = i /\ i + 1 # 1
    BY <1>1
  <2>2. w[i] = v[i + 1] /\ w[i - 1] = v[i]
    BY <2>1
  <2>3. v[i + 1] = ModesTold(v[(i + 1) - 1], to_user[i + 1])
    BY <1>1 DEF Behind
  <2>4. to_user[i + 1].type # "NAMEREPLY"
    BY <1>1, <2>1 DEF Behind
  <2>5. QED
    BY <1>1, <2>1, <2>2, <2>3, <2>4
<1>5. w[0] = v[1]
  BY <1>1
<1>6. \/ QueryToCome'
      \/ \E i \in 1 .. Len(to_user') : TellsAll(to_user'[i], w[i])
      \/ chan'.flags \ Privileges = w[0] \ Privileges
  <2>1. CASE QueryToCome
    BY <1>0, <2>1 DEF QueryToCome
  <2>2. CASE chan'.flags \ Privileges = v[1] \ Privileges
    BY <2>2, <1>5
  <2>3. CASE /\ \E i \in 1 .. Len(to_user) : TellsAll(to_user[i], v[i])
             /\ ~TellsAll(to_user[1], v[1])
    <3>1. PICK i \in 1 .. Len(to_user) : TellsAll(to_user[i], v[i]) /\ i # 1
      BY <2>3
    <3>2. i \in 2 .. Len(to_user) /\ i - 1 \in 0 .. Len(to_user') /\ (i - 1) + 1 = i
      BY <1>1, <3>1
    <3>3. w[i - 1] = v[i] /\ to_user'[i - 1] = to_user[i] /\ i - 1 \in 1 .. Len(to_user')
      BY <1>1, <3>2
    <3>4. QED
      BY <3>1, <3>3
  <2>4. QED
    BY <2>1, <2>2, <2>3 DEF Behind
<1> HIDE DEF w
<1>7. \A i \in 1 .. Len(to_user') : to_user'[i].type = "MODE" =>
         misread' \/ ~Misreads(to_user'[i].first, to_user'[i].second)
  BY <1>0, <1>1 DEF Behind
<1>8. PICK u : u = w
  OBVIOUS
<1>9. Behind(u)'
  BY <1>0, <1>2, <1>3, <1>4, <1>5, <1>6, <1>7, <1>8 DEF Behind
<1>10. QED
  BY <1>9 DEF FlagsInv

LEMMA NamereplyKeepsFlags ==
    ASSUME ModesInv, FlagsInv, Namereply
    PROVE  FlagsInv'
<1>1. PICK v : Behind(v)
  BY DEF FlagsInv
<1> DEFINE m == to_user[1]
           add == {m.mode} \cap {"o", "v"}
<1>2. /\ to_user \in Seq(WireType) /\ to_user # <<>> /\ chan \in ChanType
      /\ TypeOK
  BY TypeParts DEF ModesInv, Namereply, Receive
<1>3. /\ m \in WireType /\ m.type = "NAMEREPLY" /\ m = Head(to_user)
      /\ 1 \in 1 .. Len(to_user)
  BY <1>2, Taken DEF Namereply, Receive
<1>4. m.mode \in {"o", "v", "none"}
  <2>1. m.mode \in (Privileges \cap Modes) \cup {"none"}
    BY <1>3 DEF WireType, NameMessages, ReplyMessages, ModeMessages
  <2>2. QED
    BY <2>1, MucModesAssumption DEF Privileges, OPS
<1>5. chan' = ChangeModeState(chan, Added(chan, add),
                              Removed(chan, Privileges \ add))
  BY <1>3 DEF Namereply
<1>6. v[0] \cap Privileges = {m.mode} \ {"none"} /\ v[1] = v[0]
  <2>1. v[1] = ModesTold(v[1 - 1], m)
    BY <1>1, <1>3 DEF Behind
  <2>2. v[1] = v[0]
    BY <2>1, <1>3 DEF ModesTold
  <2>3. QED
    BY <1>1, <1>3, <2>2 DEF Behind
<1> HIDE DEF m
<1>7. chan'.flags = (chan.flags \cup add) \ (Privileges \ add)
  BY <1>5 DEF ChangeModeState, Added, Removed
<1>8. chan.flags \ Privileges \subseteq v[0] \ Privileges
  BY <1>1 DEF Behind
<1>9. add = {m.mode} \ {"none"}
  BY <1>4
<1> HIDE DEF add
<1>10. /\ chan'.flags \ Privileges \subseteq v[1] \ Privileges
       /\ chan'.flags \cap Privileges = v[1] \cap Privileges
       /\ chan'.flags \ Privileges = chan.flags \ Privileges
  BY <1>6, <1>7, <1>8, <1>9
<1>11. \/ chan'.flags \ Privileges = v[1] \ Privileges
       \/ /\ chan.flags \ Privileges # v[0] \ Privileges
          /\ ~TellsAll(to_user[1], v[1])
  BY <1>3, <1>6, <1>10 DEF TellsAll, m
<1>12. QED
  BY <1>1, <1>2, <1>10, <1>11, TakenBehind DEF Namereply

LEMMA ModeReplyKeepsFlags ==
    ASSUME ModesInv, FlagsInv, ModeReply
    PROVE  FlagsInv'
<1>1. PICK v : Behind(v)
  BY DEF FlagsInv
<1> DEFINE m == to_user[1]
<1>2. /\ to_user \in Seq(WireType) /\ to_user # <<>> /\ TypeOK
  BY TypeParts DEF ModesInv, ModeReply, Receive
<1>3. /\ m \in WireType /\ m.type = "MODEIS" /\ m = Head(to_user)
      /\ 1 \in 1 .. Len(to_user)
  BY <1>2, Taken DEF ModeReply, Receive
<1>4. m.change \in Changes
  BY <1>3 DEF WireType, NameMessages, ReplyMessages, ModeMessages
<1>5. chan' = AfterChange(chan, m.change)
  BY <1>3 DEF ModeReply
<1>6. v[1] = Changed(v[0], m.change)
  <2>1. v[1] = ModesTold(v[1 - 1], m)
    BY <1>1, <1>3 DEF Behind
  <2>2. QED
    BY <2>1, <1>3 DEF ModesTold
<1>7. /\ chan.flags \ Privileges \subseteq v[0] \ Privileges
      /\ misread \/ chan.flags \cap Privileges = v[0] \cap Privileges
  BY <1>1, <1>3 DEF Behind, NamesFirst
<1> HIDE DEF m
<1>8. chan'.flags = Changed(chan.flags, m.change)
  BY <1>4, <1>5, FlagsAfter
<1>9. /\ chan'.flags \ Privileges \subseteq v[1] \ Privileges
      /\ misread \/ chan'.flags \cap Privileges = v[1] \cap Privileges
      /\ chan.flags \ Privileges = v[0] \ Privileges =>
            chan'.flags \ Privileges = v[1] \ Privileges
  BY <1>6, <1>7, <1>8, ChangedKeeps
<1>10. TellsAll(m, v[1]) => chan'.flags \ Privileges = v[1] \ Privileges
  <2> SUFFICES ASSUME TellsAll(m, v[1])
               PROVE  chan'.flags \ Privileges = v[1] \ Privileges
    OBVIOUS
  <2>1. m.change.sign = "+" /\ m.change.modes = v[1] \ Privileges
    BY DEF TellsAll, Change
  <2>2. chan'.flags = chan.flags \cup (v[1] \ Privileges)
    BY <1>8, <2>1 DEF Changed
  <2>3. QED
    BY <1>9, <2>2
<1>11. \/ chan'.flags \ Privileges = v[1] \ Privileges
       \/ /\ chan.flags \ Privileges # v[0] \ Privileges
          /\ ~TellsAll(to_user[1], v[1])
  BY <1>9, <1>10 DEF m
<1>12. QED
  BY <1>1, <1>2, <1>9, <1>11, TakenBehind DEF ModeReply

LEMMA ModeKeepsFlags ==
    ASSUME ModesInv, FlagsInv, Mode
    PROVE  FlagsInv'
<1>1. PICK v : Behind(v)
  BY DEF FlagsInv
<1> DEFINE m == to_user[1]
           arg == ArgOfSecond(m.first, m.second)
           first == Heard(m.first, m.first.arg)
           second == Heard(m.second, arg)
           a == Changed(chan.flags, first)
           b == Changed(v[0], first)
<1>2. /\ to_user \in Seq(WireType) /\ to_user # <<>> /\ TypeOK
  BY TypeParts DEF ModesInv, Mode, Receive
<1>3. /\ m \in WireType /\ m.type = "MODE" /\ m = Head(to_user)
      /\ 1 \in 1 .. Len(to_user)
  BY <1>2, Taken DEF Mode, Receive
<1>4. m.first \in Letters /\ m.second \in Letters \cup {NoLetter}
  BY <1>3 DEF WireType, NameMessages, ReplyMessages, ModeMessages
<1>5. chan' = AfterChange(AfterChange(chan, Flushed(first, second)),
                          Accum(first, second))
  BY <1>3 DEF Mode
<1>6. v[1] = Changed(b, Heard(m.second, m.second.arg))
  <2>1. v[1] = ModesTold(v[1 - 1], m)
    BY <1>1, <1>3 DEF Behind
  <2>2. QED
    BY <2>1, <1>3 DEF ModesTold
<1>7. /\ chan.flags \ Privileges \subseteq v[0] \ Privileges
      /\ misread \/ chan.flags \cap Privileges = v[0] \cap Privileges
      /\ misread \/ arg = m.second.arg
  BY <1>1, <1>3 DEF Behind, NamesFirst, Misreads
<1>8. ~TellsAll(to_user[1], v[1])
  BY <1>3 DEF TellsAll
<1> HIDE DEF m, arg
<1>9. first \in Changes /\ second \in Changes
  BY <1>4, LetterType, Zenon
<1>10. chan'.flags = Changed(a, second)
  BY <1>5, <1>9, FlagsAfterBoth, Zenon
<1>11. Changed(b, second) \ Privileges = v[1] \ Privileges
  BY <1>6, HeardAlike, Zenon
<1>12. /\ a \ Privileges \subseteq b \ Privileges
       /\ misread \/ a \cap Privileges = b \cap Privileges
       /\ chan.flags \ Privileges = v[0] \ Privileges =>
             a \ Privileges = b \ Privileges
  <2> HIDE DEF first
  <2>1. /\ chan.flags \ Privileges \subseteq v[0] \ Privileges =>
              a \ Privileges \subseteq b \ Privileges
        /\ chan.flags \cap Privileges = v[0] \cap Privileges =>
              a \cap Privileges = b \cap Privileges
        /\ chan.flags \ Privileges = v[0] \ Privileges =>
              a \ Privileges = b \ Privileges
    BY ChangedKeeps, Zenon
  <2> HIDE DEF a, b
  <2>2. QED
    BY <1>7, <2>1, Zenon
<1>13. misread \/ Changed(b, second) = v[1]
  BY <1>6, <1>7, Zenon
<1> HIDE DEF a, b, second
<1>14. /\ Changed(a, second) \ Privileges \subseteq Changed(b, second) \ Privileges
       /\ misread \/ Changed(a, second) \cap Privileges
                         = Changed(b, second) \cap Privileges
       /\ chan.flags \ Privileges = v[0] \ Privileges =>
             Changed(a, second) \ Privileges = Changed(b, second) \ Privileges
  BY <1>12, ChangedKeeps, Zenon
<1>15. /\ chan'.flags \ Privileges \subseteq v[1] \ Privileges
       /\ misread \/ chan'.flags \cap Privileges = v[1] \cap Privileges
       /\ chan.flags \ Privileges = v[0] \ Privileges =>
             chan'.flags \ Privileges = v[1] \ Privileges
  BY <1>10, <1>11, <1>13, <1>14
<1>16. QED
  BY <1>1, <1>2, <1>8, <1>15, TakenBehind DEF Mode

(* A step of a client changes nothing of what Behind() is about but the    *)
(* commands, of which none is lost.                                        *)
LEMMA ClientKeepsFlags ==
    ASSUME FlagsInv, UNCHANGED <<room, to_user, misread>>,
           chan'.flags = chan.flags,
           QueryToCome => QueryToCome'
    PROVE  FlagsInv'
<1>1. PICK v : Behind(v)
  BY DEF FlagsInv
<1>2. Behind(v)'
  BY <1>1 DEF Behind, NamesFirst
<1>3. QED
  BY <1>2 DEF FlagsInv

LEMMA SentKeepsQuery ==
    ASSUME to_server \in Seq(CommandType), NEW c \in CommandType,
           to_server' = Append(to_server, c)
    PROVE  QueryToCome => QueryToCome'
<1>1. /\ Len(to_server') = Len(to_server) + 1 /\ Len(to_server) \in Nat
      /\ \A i \in 1 .. Len(to_server) : to_server'[i] = to_server[i]
  BY Appended
<1>2. \A i \in 1 .. Len(to_server) : i \in 1 .. Len(to_server')
  BY <1>1
<1>3. QED
  BY <1>1, <1>2 DEF QueryToCome

(* A message more is about the modes as they are now.                      *)
LEMMA ToldBehind ==
    ASSUME TypeOK, FlagsInv, NEW m \in WireType, m.type # "NAMEREPLY",
           to_user' = Append(to_user, m),
           misread => misread',
           m.type = "MODE" => misread' \/ ~Misreads(m.first, m.second),
           chan' = chan, room'.modes \in SUBSET Modes,
           room'.modes = ModesTold(room.modes, m),
           QueryToCome => QueryToCome' \/ TellsAll(m, room'.modes)
    PROVE  FlagsInv'
<1>1. PICK v : Behind(v)
  BY DEF FlagsInv
<1> DEFINE w == [i \in 0 .. Len(to_user') |->
                    IF i <= Len(to_user) THEN v[i] ELSE room'.modes]
<1>2. /\ Len(to_user') = Len(to_user) + 1 /\ Len(to_user) \in Nat
      /\ to_user'[Len(to_user')] = m
      /\ \A i \in 1 .. Len(to_user) : to_user'[i] = to_user[i]
  <2>1. to_user \in Seq(WireType)
    BY TypeParts
  <2>2. QED
    BY <2>1, Appended
<1>3. /\ \A i \in 0 .. Len(to_user) : w[i] = v[i]
      /\ w[Len(to_user')] = room'.modes
      /\ w \in [0 .. Len(to_user') -> SUBSET Modes]
  <2>1. \A i \in 0 .. Len(to_user) : w[i] = v[i]
    BY <1>2
  <2>2. w[Len(to_user')] = room'.modes
    BY <1>2
  <2>3. \A i \in 0 .. Len(to_user') : i <= Len(to_user) => i \in 0 .. Len(to_user)
    BY <1>2
  <2>4. \A i \in 0 .. Len(to_user) : v[i] \in SUBSET Modes
    BY <1>1 DEF Behind
  <2>5. QED
    BY <2>1, <2>2, <2>3, <2>4
<1> HIDE DEF w
<1>4. \A i \in 1 .. Len(to_user') : w[i] = ModesTold(w[i - 1], to_user'[i])
  <2> SUFFICES ASSUME NEW i \in 1 .. Len(to_user')
               PROVE  w[i] = ModesTold(w[i - 1], to_user'[i])
    OBVIOUS
  <2>1. CASE i = Len(to_user')
    <3>1. i - 1 = Len(to_user) /\ Len(to_user) \in 0 .. Len(to_user)
      BY <1>2, <2>1
    <3>2. w[i - 1] = room.modes
      BY <1>1, <1>3, <3>1 DEF Behind
    <3>3. QED
      BY <1>2, <1>3, <2>1, <3>2
  <2>2. CASE i # Len(to_user')
    <3>1. /\ i \in 1 .. Len(to_user) /\ i \in 0 .. Len(to_user)
          /\ i - 1 \in 0 .. Len(to_user)
      BY <1>2, <2>2
    <3>2. v[i] = ModesTold(v[i - 1], to_user[i])
      BY <1>1, <3>1 DEF Behind
    <3>3. QED
      BY <1>2, <1>3, <3>1, <3>2
  <2>3. QED
    BY <2>1, <2>2
<1>5. w[0] = v[0]
  BY <1>2, <1>3
<1>6. \A i \in 1 .. Len(to_user') : to_user'[i].type = "MODE" =>
         misread' \/ ~Misreads(to_user'[i].first, to_user'[i].second)
  <2> SUFFICES ASSUME NEW i \in 1 .. Len(to_user'), to_user'[i].type = "MODE"
               PROVE  misread' \/ ~Misreads(to_user'[i].first, to_user'[i].second)
    OBVIOUS
  <2>1. i = Len(to_user') \/ i \in 1 .. Len(to_user)
    BY <1>2
  <2>2. QED
    BY <1>1, <1>2, <2>1 DEF Behind
<1>7. \A i \in 1 .. Len(to_user') : to_user'[i].type = "NAMEREPLY" =>
         i = 1 /\ w[0] \cap Privileges = {to_user'[1].mode} \ {"none"}
  <2> SUFFICES ASSUME NEW i \in 1 .. Len(to_user'),
                      to_user'[i].type = "NAMEREPLY"
               PROVE  i = 1 /\ w[0] \cap Privileges
                                  = {to_user'[1].mode} \ {"none"}
    OBVIOUS
  <2>1. i # Len(to_user')
    BY <1>2
  <2>2. i \in 1 .. Len(to_user) /\ 1 \in 1 .. Len(to_user)
    BY <1>2, <2>1
  <2>3. to_user[i].type = "NAMEREPLY" /\ to_user'[1] = to_user[1]
    BY <1>2, <2>2
  <2>4. i = 1 /\ v[0] \cap Privileges = {to_user[1].mode} \ {"none"}
    BY <1>1, <2>2, <2>3 DEF Behind
  <2>5. QED
    BY <1>5, <2>3, <2>4
<1>8. NamesFirst => NamesFirst'
  <2> SUFFICES ASSUME NamesFirst PROVE NamesFirst'
    OBVIOUS
  <2>1. to_user \in Seq(WireType) /\ to_user # <<>>
    BY TypeParts DEF NamesFirst
  <2>2. 1 \in 1 .. Len(to_user)
    BY <2>1, Taken
  <2>3. to_user'[1] = to_user[1] /\ to_user' # <<>>
    BY <1>2, <2>2
  <2>4. QED
    BY <2>3 DEF NamesFirst
<1>9. \/ QueryToCome'
      \/ \E i \in 1 .. Len(to_user') : TellsAll(to_user'[i], w[i])
      \/ chan'.flags \ Privileges = w[0] \ Privileges
  <2>1. CASE QueryToCome
    <3>1. Len(to_user') \in 1 .. Len(to_user')
      BY <1>2
    <3>2. QED
      BY <2>1, <3>1, <1>2, <1>3
  <2>2. CASE \E i \in 1 .. Len(to_user) : TellsAll(to_user[i], v[i])
    <3>1. PICK i \in 1 .. Len(to_user) : TellsAll(to_user[i], v[i])
      BY <2>2
    <3>2. /\ i \in 1 .. Len(to_user') /\ i \in 0 .. Len(to_user)
          /\ to_user'[i] = to_user[i] 
      BY <1>2
    <3>3. QED
      BY <3>1, <3>2, <1>3
  <2>3. CASE chan.flags \ Privileges = v[0] \ Privileges
    BY <2>3, <1>5
  <2>4. QED
    BY <1>1, <2>1, <2>2, <2>3 DEF Behind
<1>10. PICK u : u = w
  OBVIOUS
<1>11. chan'.flags \ Privileges \subseteq u[0] \ Privileges
  BY <1>1, <1>5, <1>10 DEF Behind
<1>12. misread' \/ NamesFirst' \/ chan'.flags \cap Privileges = u[0] \cap Privileges
  BY <1>1, <1>5, <1>8, <1>10 DEF Behind
<1>13. Behind(u)'
  BY <1>3, <1>4, <1>6, <1>7, <1>9, <1>10, <1>11, <1>12 DEF Behind
<1>14. QED
  BY <1>13 DEF FlagsInv

LEMMA UpdateKeepsFlags ==
    ASSUME ModesInv, FlagsInv, NEW property, UpdateConfiguration(property),
           \/ to_server' = to_server
           \/ \E c \in CommandType : to_server' = Append(to_server, c)
    PROVE  FlagsInv'
<1>1. to_server \in Seq(CommandType)
  BY TypeParts DEF ModesInv
<1>2. QueryToCome => QueryToCome'
  BY <1>1, SentKeepsQuery DEF QueryToCome
<1>3. QED
  BY <1>2, ClientKeepsFlags DEF UpdateConfiguration

LEMMA UpdatesKeepFlags ==
    ASSUME ModesInv, FlagsInv,
           \/ \E mode \in Quick \cap Modes, value \in BOOLEAN :
                 UpdateBoolean(mode, value)
           \/ \E limit \in Limits \cup {0} : "l" \in Modes /\ UpdateLimit(limit)
           \/ \E property \in {"k", "password"}, protected \in BOOLEAN :
                 "k" \in Modes /\ UpdatePassword(property, protected)
    PROVE  FlagsInv'
<1>1. ASSUME NEW mode \in Quick \cap Modes, NEW value \in BOOLEAN,
             UpdateBoolean(mode, value)
      PROVE  FlagsInv'
  <2>1. Command(IF value THEN "+" ELSE "-", mode, 0) \in CommandType
    <3>1. mode # "l" /\ mode \in Modes
      BY DEF Quick
    <3>2. QED
      BY <3>1, CommandTypes
  <2>2. QED
    BY <1>1, <2>1, UpdateKeepsFlags, Zenon DEF UpdateBoolean, SendMode
<1>2. ASSUME NEW limit \in Limits \cup {0}, "l" \in Modes, UpdateLimit(limit)
      PROVE  FlagsInv'
  <2>1. Command(IF limit > 0 THEN "+" ELSE "-", "l", limit) \in CommandType
    <3> DEFINE sign == IF limit > 0 THEN "+" ELSE "-"
    <3>1. sign \in {"+", "-"} /\ (limit # 0 <=> sign = "+")
      BY MucModesAssumption
    <3> HIDE DEF sign
    <3>2. Command(sign, "l", limit) \in CommandType
      BY <1>2, <3>1, CommandTypes
    <3>3. QED
      BY <3>2 DEF sign
  <2>2. QED
    BY <1>2, <2>1, UpdateKeepsFlags, Zenon DEF UpdateLimit, SendMode
<1>3. ASSUME NEW property \in {"k", "password"}, NEW protected \in BOOLEAN,
             "k" \in Modes, UpdatePassword(property, protected)
      PROVE  FlagsInv'
  <2>1. Command(IF protected THEN "+" ELSE "-", "k", 0) \in CommandType
    BY <1>3, CommandTypes
  <2>2. QED
    BY <1>3, <2>1, UpdateKeepsFlags, Zenon DEF UpdatePassword, SendMode
<1>4. QED
  BY <1>1, <1>2, <1>3, Zenon

LEMMA OthersChangeKeepsFlags ==
    ASSUME ModesInv, FlagsInv, NEW first \in Letters,
           NEW second \in Letters \cup {NoLetter}, OthersChange(first, second)
    PROVE  FlagsInv'
<1> DEFINE msg == ModeMessage(first, second)
<1>1. TypeOK /\ room \in RoomType
  BY TypeParts DEF ModesInv
<1>2. msg \in WireType
  BY MessageTypes
<1>3. /\ room' = Apply(Apply(room, first), second)
      /\ to_user' = Append(to_user, msg)
      /\ chan' = chan /\ to_server' = to_server
      /\ misread' = (misread \/ Misreads(first, second))
  BY DEF OthersChange, Tell
<1>4. /\ Apply(room, first) \in RoomType /\ room' \in RoomType
      /\ room'.modes = Changed(Changed(room.modes, Heard(first, first.arg)),
                               Heard(second, second.arg))
  BY <1>1, <1>3, ApplyType
<1>5. /\ room'.modes = ModesTold(room.modes, msg)
      /\ msg.type = "MODE" /\ msg.first = first /\ msg.second = second
  BY <1>4 DEF ModesTold, ModeMessage
<1>6. QueryToCome => QueryToCome'
  BY <1>3 DEF QueryToCome
<1>7. /\ misread => misread'
      /\ misread' \/ ~Misreads(first, second)
  BY <1>3, Zenon
<1>8. room'.modes \in SUBSET Modes
  BY <1>4 DEF RoomType
<1> HIDE DEF msg
<1>9. QED
  BY <1>1, <1>2, <1>3, <1>5, <1>6, <1>7, <1>8, ToldBehind

LEMMA HandleQueryKeepsFlags ==
    ASSUME ModesInv, FlagsInv, HandleQuery
    PROVE  FlagsInv'
<1> DEFINE msg == ModeIs(room)
<1>1. TypeOK /\ room \in RoomType
  BY TypeParts DEF ModesInv
<1>2. msg \in WireType
  BY <1>1, ReplyTypes
<1>3. /\ room' = room /\ to_user' = Append(to_user, msg) /\ chan' = chan
      /\ misread' = misread
  BY DEF HandleQuery, Tell
<1>4. /\ room'.modes = ModesTold(room.modes, msg)
      /\ msg.type = "MODEIS"
  BY <1>3 DEF ModesTold, Changed, ModeIs, Change
<1>5. TellsAll(msg, room'.modes)
  BY <1>3 DEF TellsAll, ModeIs
<1>6. room'.modes \in SUBSET Modes
  BY <1>1, <1>3 DEF RoomType
<1> HIDE DEF msg
<1>7. QED
  BY <1>1, <1>2, <1>3, <1>4, <1>5, <1>6, ToldBehind

LEMMA HandleModeKeepsFlags ==
    ASSUME ModesInv, FlagsInv, HandleMode
    PROVE  FlagsInv'
<1> DEFINE cmd == Head(to_server)
           msg == ModeMessage(cmd.letter, NoLetter)
<1>1. room \in RoomType /\ TypeOK /\ to_server \in Seq(CommandType)
  BY TypeParts, Zenon DEF ModesInv
<1>2. /\ cmd \in CommandType /\ cmd.type = "MODE"
      /\ to_server' = Tail(to_server) /\ to_server # <<>> /\ misread' = misread
  BY <1>1, TailAppend, Zenon DEF HandleMode
<1>3. cmd.letter \in Letters
  BY <1>2 DEF CommandType, Queries, ModeCommands
<1>4. QueryToCome => QueryToCome'
  <2> SUFFICES ASSUME NEW i \in 1 .. Len(to_server), to_server[i].type = "QUERY"
               PROVE  QueryToCome'
    BY DEF QueryToCome
  <2>1. i # 1
    BY <1>1, <1>2, Taken
  <2>2. i \in 2 .. Len(to_server)
    BY <2>1, <1>1, LenProperties
  <2>3. i - 1 \in 1 .. Len(to_server') /\ to_server'[i - 1] = to_server[i]
    BY <1>1, <1>2, <2>2, Taken
  <2>4. QED
    BY <2>3 DEF QueryToCome
<1>5. CASE IsOp(room.modes) /\ Effective(room, cmd.letter)
  <2>1. /\ room' = Apply(room, cmd.letter)
        /\ to_user' = Append(to_user, msg) /\ chan' = chan
    BY <1>5 DEF HandleMode, Tell
  <2> HIDE DEF cmd
  <2>2. msg \in WireType
    BY <1>3, MessageTypes
  <2>3. /\ room'.modes = Changed(room.modes, Heard(cmd.letter, cmd.letter.arg))
        /\ room'.modes \in SUBSET Modes
    BY <1>1, <1>3, <2>1, ApplyType DEF RoomType
  <2>4. \A modes : Changed(modes, Heard(NoLetter, NoLetter.arg)) = modes
    BY MucModesAssumption
       DEF Changed, Heard, Change, NoLetter, Letter, Privileges, OPS
  <2>5. /\ msg.type = "MODE" /\ msg.first = cmd.letter /\ msg.second = NoLetter
    BY DEF ModeMessage
  <2>6. room'.modes = ModesTold(room.modes, msg)
    BY <2>3, <2>4, <2>5 DEF ModesTold
  <2>7. ~Misreads(cmd.letter, NoLetter)
    BY DEF Misreads, ArgOfSecond, Reads, NoLetter, Letter, Privileges, OPS
  <2> HIDE DEF msg
  <2>8. QED
    BY <1>1, <1>2, <1>4, <2>1, <2>2, <2>3, <2>5, <2>6, <2>7, ToldBehind
<1>6. CASE ~(IsOp(room.modes) /\ Effective(room, cmd.letter))
  <2>1. UNCHANGED <<room, to_user, chan>>
    BY <1>6 DEF HandleMode
  <2>2. QED
    BY <1>2, <1>4, <2>1, ClientKeepsFlags
<1>7. QED
  BY <1>5, <1>6

LEMMA FlagsInitially ==
    ASSUME Init
    PROVE  FlagsInv
<1>1. PICK p \in Privileges \cup {"none"} :
              /\ room.modes \cap Privileges = {p} \ {"none"}
              /\ to_user = <<NameReply(p)>>
  BY DEF Init
<1>2. /\ room.modes \in SUBSET Modes
      /\ chan.flags \ Privileges \subseteq room.modes \ Privileges
      /\ to_server = <<[type |-> "QUERY"]>>
  BY NewChannelKeepsMay DEF Init
<1>3. /\ Len(to_user) = 1 /\ to_user # <<>> /\ to_user[1].mode = p
      /\ to_user[1].type = "NAMEREPLY"
  BY <1>1 DEF NameReply
<1>4. QueryToCome
  <2>1. 1 \in 1 .. Len(to_server) /\ to_server[1].type = "QUERY"
    BY <1>2
  <2>2. QED
    BY <2>1 DEF QueryToCome
<1> DEFINE w == [i \in 0 .. 1 |-> room.modes]
<1>5. PICK u : u = w
  OBVIOUS
<1>6. /\ u \in [0 .. Len(to_user) -> SUBSET Modes]
      /\ u[0] = room.modes /\ u[1] = room.modes
  BY <1>2, <1>3, <1>5
<1>7. \A i \in 1 .. Len(to_user) : i = 1 /\ u[i] = ModesTold(u[i - 1], to_user[i])
  <2>1. \A i \in 1 .. Len(to_user) : i = 1 /\ i - 1 = 0
    BY <1>3
  <2>2. ModesTold(u[0], to_user[1]) = u[0]
    BY <1>3 DEF ModesTold
  <2>3. QED
    BY <1>6, <2>1, <2>2
<1>8. \A i \in 1 .. Len(to_user) : to_user[i].type # "MODE"
  BY <1>1 DEF NameReply
<1>9. Behind(u)
  BY <1>1, <1>2, <1>3, <1>4, <1>6, <1>7, <1>8 DEF Behind, NamesFirst
<1>10. QED
  BY <1>9 DEF FlagsInv

LEMMA FlagsStep ==
    ASSUME ModesInv, FlagsInv, [Next]_vars
    PROVE  FlagsInv'
<1>1. CASE Namereply
  BY <1>1, NamereplyKeepsFlags, Zenon
<1>2. CASE ModeReply
  BY <1>2, ModeReplyKeepsFlags, Zenon
<1>3. CASE Mode
  BY <1>3, ModeKeepsFlags, Zenon
<1>4. CASE \/ \E mode \in Quick \cap Modes, value \in BOOLEAN :
                 UpdateBoolean(mode, value)
           \/ \E limit \in Limits \cup {0} : "l" \in Modes /\ UpdateLimit(limit)
           \/ \E property \in {"k", "password"}, protected \in BOOLEAN :
                 "k" \in Modes /\ UpdatePassword(property, protected)
  BY <1>4, UpdatesKeepFlags, Zenon
<1>5. CASE UpdateReturns
  BY <1>5, ClientKeepsFlags DEF UpdateReturns, QueryToCome
<1>6. CASE \E first \in Letters, second \in Letters \cup {NoLetter} :
              OthersChange(first, second)
  BY <1>6, OthersChangeKeepsFlags, Zenon
<1>7. CASE HandleQuery
  BY <1>7, HandleQueryKeepsFlags, Zenon
<1>8. CASE HandleMode
  BY <1>8, HandleModeKeepsFlags, Zenon
<1>9. CASE UNCHANGED vars
  BY <1>9, ClientKeepsFlags DEF vars, QueryToCome
<1>10. QED
  BY <1>1, <1>2, <1>3, <1>4, <1>5, <1>6, <1>7, <1>8, <1>9, Zenon
     DEF Next, Changing, LettersOrNone

(* FlagsFollow: once the name list, the reply to the query and every       *)
(* change have been taken, the channel has the room's modes                *)
(* (idle_muc_channel_namereply(), idle_muc_channel_mode()), whatever       *)
(* changed while they were on their way and however many are; its          *)
(* privileges, as long as no message was misread.                          *)
THEOREM FlagsCorrect == RoomSpec => []FlagsFollow
<1>1. RoomInit => FlagsInv
  BY FlagsInitially DEF RoomInit
<1>2. ModesInv /\ FlagsInv /\ [RoomNext]_roomVars => FlagsInv'
  BY RoomModesStep, FlagsStep
<1>3. FlagsInv => FlagsFollow
  <2> SUFFICES ASSUME FlagsInv, to_user = <<>>,
                      \A i \in 1 .. Len(to_server) : to_server[i].type # "QUERY"
               PROVE  /\ chan.flags \ Privileges = room.modes \ Privileges
                      /\ ~misread => chan.flags = room.modes
    BY DEF FlagsFollow
  <2>1. PICK v : Behind(v)
    BY DEF FlagsInv
  <2>2. Len(to_user) = 0 /\ ~NamesFirst /\ ~QueryToCome
    BY DEF NamesFirst, QueryToCome
  <2>3. /\ v[0] = room.modes
        /\ misread \/ chan.flags \cap Privileges = v[0] \cap Privileges
        /\ chan.flags \ Privileges = v[0] \ Privileges
    BY <2>1, <2>2 DEF Behind
  <2>4. QED
    BY <2>3
<1>4. QED
  BY <1>1, <1>2, <1>3, ModesInvHolds, PTL DEF RoomSpec

-----------------------------------------------------------------------------
(* The people.  A message on its way tells a step of what the user can see *)
(* of the room: nothing while not in it, and a name list from the JOIN on. *)
Views ==
    [here : BOOLEAN, nick : Contacts, present : SUBSET Contacts,
     listing : BOOLEAN, named : SUBSET Contacts]
View(v) ==
    /\ v \in Views
    /\ v.nick \notin v.present
    /\ ~v.here => v.present = {} /\ ~v.listing
    /\ v.named \subseteq v.present \cup {v.nick}

MemberMessages ==
    [code : {"JOIN", "LEAVE", "INVITE"}, nick : Contacts]
    \cup [code : {"NICK"}, nick : Contacts, new : Contacts]
    \cup [code : {"NAMEREPLY"}, nicks : SUBSET Contacts]
    \cup [code : {"ENDOFNAMES", "ERROR"}]

SeesJoin(a, m, b) ==
    /\ m.code = "JOIN" /\ ~a.listing
    /\ \/ /\ m.nick = a.nick /\ ~a.here
          /\ \E p \in SUBSET Contacts :
                b = [a EXCEPT !.here = TRUE, !.present = p,
                              !.listing = TRUE, !.named = {}]
       \/ /\ m.nick # a.nick /\ a.here
          /\ b = [a EXCEPT !.present = @ \cup {m.nick}]
SeesLeave(a, m, b) ==
    /\ m.code = "LEAVE" /\ ~a.listing
    /\ \/ /\ m.nick = a.nick /\ a.here
          /\ b = [a EXCEPT !.here = FALSE, !.present = {}, !.named = {}]
       \/ /\ m.nick # a.nick
          /\ b = [a EXCEPT !.present = @ \ {m.nick}, !.named = {}]
SeesNick(a, m, b) ==
    /\ m.code = "NICK" /\ ~a.listing
    /\ m.new \notin a.present \cup {a.nick, m.nick}
    /\ \/ /\ m.nick = a.nick
          /\ b = [a EXCEPT !.nick = m.new, !.named = {}]
       \/ /\ m.nick # a.nick
          /\ b = [a EXCEPT !.named = {},
                     !.present = (@ \ {m.nick}) \cup Within(@, m.nick, m.new)]
SeesNames(a, m, b) ==
    /\ m.code = "NAMEREPLY" /\ a.listing
    /\ m.nicks # {} /\ m.nicks \subseteq a.present \cup {a.nick}
    /\ b = [a EXCEPT !.named = @ \cup m.nicks]
SeesNamesEnd(a, m, b) ==
    /\ m.code = "ENDOFNAMES" /\ a.listing
    /\ a.named = a.present \cup {a.nick}
    /\ b = [a EXCEPT !.listing = FALSE]
SeesAnswer(a, m, b) ==
    /\ m.code = "ERROR" \/ (m.code = "INVITE" /\ m.nick # a.nick)
    /\ ~a.here /\ b = a

Sees(a, m, b) ==
    /\ View(a) /\ View(b)
    /\ \/ SeesJoin(a, m, b) \/ SeesLeave(a, m, b) \/ SeesNick(a, m, b)
       \/ SeesNames(a, m, b) \/ SeesNamesEnd(a, m, b) \/ SeesAnswer(a, m, b)

(* What the messages of q tell, one after the other, leads from a to b.    *)
Leads(q, v) ==
    /\ v \in [0 .. Len(q) -> Views]
    /\ \A i \in 1 .. Len(q) : Sees(v[i - 1], q[i], v[i])
Reaches(q, a, b) == \E v : Leads(q, v) /\ v[0] = a /\ v[Len(q)] = b

LEMMA ReachesNothing ==
    ASSUME NEW a \in Views
    PROVE  /\ Reaches(<<>>, a, a)
           /\ \A b : Reaches(<<>>, a, b) => a = b
<1>1. Len(<<>>) = 0
  OBVIOUS
<1>2. Leads(<<>>, [i \in 0 .. 0 |-> a]) /\ [i \in 0 .. 0 |-> a][0] = a
  BY <1>1 DEF Leads
<1>3. Reaches(<<>>, a, a)
  BY <1>1, <1>2 DEF Reaches
<1>4. ASSUME NEW b, Reaches(<<>>, a, b) PROVE a = b
  BY <1>1, <1>4 DEF Reaches
<1>5. QED
  BY <1>3, <1>4

LEMMA ReachesFirst ==
    ASSUME NEW S, NEW q \in Seq(S), q # <<>>, NEW a, NEW c, Reaches(q, a, c)
    PROVE  \E b \in Views : Sees(a, q[1], b) /\ Reaches(Tail(q), b, c)
<1> DEFINE t == Tail(q)
<1>1. PICK v : Leads(q, v) /\ v[0] = a /\ v[Len(q)] = c
  BY DEF Reaches
<1>2. /\ Len(q) \in Nat \ {0} /\ Len(t) = Len(q) - 1 /\ Len(t) \in Nat
      /\ 1 \in 1 .. Len(q)
      /\ \A i \in 1 .. Len(t) : i + 1 \in 1 .. Len(q) /\ t[i] = q[i + 1]
  BY Taken
<1> HIDE DEF t
<1> DEFINE w == [i \in 0 .. Len(t) |-> v[i + 1]]
<1>3. \A i \in 0 .. Len(t) : i + 1 \in 0 .. Len(q) /\ w[i] = v[i + 1]
  BY <1>2
<1>4. w \in [0 .. Len(t) -> Views]
  BY <1>1, <1>3 DEF Leads
<1> HIDE DEF w
<1>5. \A i \in 1 .. Len(t) : Sees(w[i - 1], t[i], w[i])
  <2> SUFFICES ASSUME NEW i \in 1 .. Len(t) PROVE Sees(w[i - 1], t[i], w[i])
    OBVIOUS
  <2>1. /\ i - 1 \in 0 .. Len(t) /\ i \in 0 .. Len(t) /\ (i - 1) + 1 = i
        /\ (i + 1) - 1 = i /\ i + 1 \in 1 .. Len(q)
    BY <1>2
  <2>2. Sees(v[(i + 1) - 1], q[i + 1], v[i + 1])
    BY <1>1, <2>1 DEF Leads
  <2>3. w[i - 1] = v[i] /\ w[i] = v[i + 1] /\ t[i] = q[i + 1]
    BY <1>2, <1>3, <2>1
  <2>4. QED
    BY <2>1, <2>2, <2>3
<1>6. w[0] = v[1] /\ w[Len(t)] = c
  <2>1. 0 \in 0 .. Len(t) /\ Len(t) \in 0 .. Len(t) /\ Len(t) + 1 = Len(q)
    BY <1>2
  <2>2. QED
    BY <1>1, <1>3, <2>1
<1>7. Sees(a, q[1], v[1])
  <2>1. Sees(v[1 - 1], q[1], v[1])
    BY <1>1, <1>2 DEF Leads
  <2>2. QED
    BY <1>1, <2>1
<1>8. v[1] \in Views
  BY <1>1, <1>2 DEF Leads
<1>9. Reaches(t, v[1], c)
  BY <1>4, <1>5, <1>6 DEF Reaches, Leads
<1>10. QED
  BY <1>7, <1>8, <1>9 DEF t

LEMMA ReachesLast ==
    ASSUME NEW S, NEW q \in Seq(S), NEW m \in S, NEW a, NEW b, NEW c \in Views,
           Reaches(q, a, b), Sees(b, m, c)
    PROVE  Append(q, m) \in Seq(S) /\ Reaches(Append(q, m), a, c)
<1> DEFINE t == Append(q, m)
<1>1. PICK v : Leads(q, v) /\ v[0] = a /\ v[Len(q)] = b
  BY DEF Reaches
<1>2. /\ t \in Seq(S) /\ Len(t) = Len(q) + 1 /\ Len(q) \in Nat
      /\ t[Len(t)] = m /\ \A i \in 1 .. Len(q) : t[i] = q[i]
  BY Appended
<1> HIDE DEF t
<1> DEFINE w == [i \in 0 .. Len(t) |-> IF i <= Len(q) THEN v[i] ELSE c]
<1>3. /\ \A i \in 0 .. Len(q) : w[i] = v[i]
      /\ w[Len(t)] = c
      /\ w \in [0 .. Len(t) -> Views]
  <2>1. \A i \in 0 .. Len(q) : w[i] = v[i]
    BY <1>2
  <2>2. w[Len(t)] = c
    BY <1>2
  <2>3. \A i \in 0 .. Len(t) : i <= Len(q) => i \in 0 .. Len(q)
    BY <1>2
  <2>4. \A i \in 0 .. Len(q) : v[i] \in Views
    BY <1>1 DEF Leads
  <2>5. QED
    BY <2>1, <2>2, <2>3, <2>4
<1> HIDE DEF w
<1>4. \A i \in 1 .. Len(t) : Sees(w[i - 1], t[i], w[i])
  <2> SUFFICES ASSUME NEW i \in 1 .. Len(t) PROVE Sees(w[i - 1], t[i], w[i])
    OBVIOUS
  <2>1. CASE i = Len(t)
    <3>1. i - 1 = Len(q) /\ Len(q) \in 0 .. Len(q)
      BY <1>2, <2>1
    <3>2. w[i - 1] = b /\ t[i] = m /\ w[i] = c
      BY <1>1, <1>2, <1>3, <2>1, <3>1
    <3>3. QED
      BY <3>2
  <2>2. CASE i # Len(t)
    <3>1. /\ i \in 1 .. Len(q) /\ i \in 0 .. Len(q)
          /\ i - 1 \in 0 .. Len(q)
      BY <1>2, <2>2
    <3>2. Sees(v[i - 1], q[i], v[i])
      BY <1>1, <3>1 DEF Leads
    <3>3. QED
      BY <1>2, <1>3, <3>1, <3>2
  <2>3. QED
    BY <2>1, <2>2
<1>5. w[0] = a
  BY <1>1, <1>2, <1>3
<1>6. Reaches(t, a, c)
  BY <1>3, <1>4, <1>5 DEF Reaches, Leads
<1>7. QED
  BY <1>2, <1>6 DEF t

-----------------------------------------------------------------------------
(* What the channel is, when the user sees a of the room and s is the self *)
(* handle.                                                                 *)
GroupType ==
    [state : {"none", "CREATED", "JOINING", "JOINED"}, announced : BOOLEAN,
     members : SUBSET Contacts, local : SUBSET Contacts,
     remote : SUBSET Contacts, self : Contacts \cup {Nobody},
     names : SUBSET (Contacts \cup {Nobody}),
     inviter : Contacts \cup {Nobody}]

Apart(g) ==
    /\ g.members \cap g.local = {} /\ g.members \cap g.remote = {}
    /\ g.local \cap g.remote = {}
Place(g, s, a) ==
    /\ g.self = s
    /\ s \in g.members <=> a.here
    /\ s \in g.local \cup g.remote <=> ~a.here
    /\ g.local \subseteq {s}
People(g, s, a) ==
    /\ g.members \subseteq a.present \cup {s, g.inviter}
    /\ a.here /\ ~a.listing => a.present \subseteq g.members
Knows(g, s, a) ==
    /\ g \in GroupType
    /\ s = a.nick
    /\ g.state = "JOINED" <=> a.here
    /\ g.state = "none" => g = NoGroup
    /\ g.names = IF a.listing /\ a.named # {} THEN a.named ELSE NoReply
    /\ g.state # "none" => Place(g, s, a) /\ Apart(g) /\ People(g, s, a)

AtServer(b) ==
    /\ View(b) /\ ~b.listing
    /\ b.here = here /\ b.nick = nick
    /\ b.present = IF here THEN present ELSE {}

MembersInv ==
    /\ coming \in Seq(MemberMessages)
    /\ here \in BOOLEAN /\ present \in SUBSET Contacts
    /\ nick \in Contacts \ present
    /\ \E a, b : /\ View(a) /\ AtServer(b) /\ Reaches(coming, a, b)
                 /\ Knows(group, self_handle, a)

LEMMA NoGroupKnows ==
    ASSUME NEW a, View(a), ~a.here
    PROVE  Knows(NoGroup, a.nick, a)
BY DEF Knows, NoGroup, GroupType, NoReply, View

(* tp_group_mixin_change_members(), for sets that nobody is in twice.      *)
LEMMA Adding ==
    ASSUME NEW g \in GroupType, Apart(g), NEW add \in SUBSET Contacts,
           NEW d, d = ChangeMembers(g, add, {}, {}, {})
    PROVE  /\ d \in GroupType /\ Apart(d)
           /\ d.members = g.members \cup add
           /\ d.local = g.local \ add /\ d.remote = g.remote \ add
           /\ d.state = g.state /\ d.announced = g.announced
           /\ d.self = g.self /\ d.names = g.names /\ d.inviter = g.inviter
<1>1. /\ d \in GroupType
      /\ d.members = g.members \cup add
      /\ d.local = g.local \ add /\ d.remote = g.remote \ add
      /\ d.state = g.state /\ d.announced = g.announced
      /\ d.self = g.self /\ d.names = g.names /\ d.inviter = g.inviter
  BY DEF ChangeMembers, GroupType
<1>2. Apart(d)
  BY <1>1 DEF Apart
<1>3. QED
  BY <1>1, <1>2

LEMMA CreatedType ==
    ASSUME self_handle \in Contacts
    PROVE  /\ Created \in GroupType /\ Apart(Created)
           /\ Created.state = "CREATED" /\ Created.self = self_handle
           /\ Created.members = {} /\ Created.local = {} /\ Created.remote = {}
           /\ Created.names = NoReply /\ Created.inviter = Nobody
BY DEF Created, NoGroup, GroupType, NoReply, Apart

(* Taking a message is a step of what the user sees.                       *)
LEMMA SeenStep ==
    ASSUME MembersInv, NEW code, MembersReceive(code),
           \A a, b : View(a) /\ Knows(group, self_handle, a)
                     /\ Head(coming) \in MemberMessages
                     /\ Head(coming).code = code
                     /\ Sees(a, Head(coming), b)
                        => Knows(group', self_handle', b)
    PROVE  MembersInv'
<1>1. PICK a, b : /\ View(a) /\ AtServer(b) /\ Reaches(coming, a, b)
                  /\ Knows(group, self_handle, a)
  BY DEF MembersInv
<1>2. /\ coming \in Seq(MemberMessages) /\ coming # <<>>
      /\ coming' = Tail(coming) /\ Head(coming).code = code
      /\ UNCHANGED <<here, present, nick>>
  BY DEF MembersInv, MembersReceive, serverVars
<1>3. /\ Head(coming) = coming[1] /\ Head(coming) \in MemberMessages
      /\ coming' \in Seq(MemberMessages)
  BY <1>2, Taken
<1>4. PICK c \in Views : Sees(a, coming[1], c) /\ Reaches(coming', c, b)
  BY <1>1, <1>2, ReachesFirst
<1>5. Knows(group', self_handle', c)
  BY <1>1, <1>2, <1>3, <1>4
<1>6. View(c) /\ AtServer(b)'
  BY <1>1, <1>2, <1>4 DEF Sees, AtServer
<1>7. QED
  BY <1>2, <1>3, <1>4, <1>5, <1>6 DEF MembersInv

LEMMA JoinKnown ==
    ASSUME MembersInv, JoinReceived
    PROVE  MembersInv'
<1>0. MembersReceive("JOIN")
  BY DEF JoinReceived
<1>1. SUFFICES ASSUME NEW a, NEW b, View(a), Knows(group, self_handle, a),
                      Head(coming) \in MemberMessages,
                      Head(coming).code = "JOIN", Sees(a, Head(coming), b)
               PROVE  Knows(group', self_handle', b)
  BY <1>0, SeenStep
<1> DEFINE n == Head(coming).nick
           g == IF Exists THEN group ELSE Created
           h == IF n = self_handle
                THEN [g EXCEPT !.state = "JOINED", !.announced = TRUE] ELSE g
<1>2. /\ group' = ChangeMembers(h, {n}, {}, {}, {})
      /\ self_handle' = self_handle
  BY DEF JoinReceived, MemberJoins
<1>3. n \in Contacts /\ SeesJoin(a, Head(coming), b) /\ View(b)
  BY <1>1 DEF MemberMessages, Sees, SeesLeave, SeesNick, SeesNames,
     SeesNamesEnd, SeesAnswer
<1>4. self_handle = a.nick /\ a.nick \in Contacts /\ a \in Views
  BY <1>1 DEF View, Views, Knows
<1>5. /\ g \in GroupType /\ Apart(g) /\ g.self = self_handle
      /\ g.names = NoReply /\ g.state # "none"
      /\ g.members \subseteq a.present \cup {self_handle, g.inviter}
      /\ g.local \subseteq {self_handle}
  <2>1. CASE Exists
    <3>1. g = group /\ ~a.listing
      BY <2>1, <1>3 DEF SeesJoin
    <3>2. QED
      BY <2>1, <3>1, <1>1 DEF Exists, Knows, Place, People
  <2>2. CASE ~Exists
    BY <2>2, <1>4, CreatedType
  <2>3. QED
    BY <2>1, <2>2
<1>6. a.here => g = group /\ Exists /\ g.state = "JOINED"
  BY <1>1 DEF Exists, Knows
<1> HIDE DEF g
<1>7. CASE n = self_handle
  <2>1. /\ ~a.here /\ b.here /\ b.listing /\ b.named = {} /\ b.nick = a.nick
        /\ a.present = {}
    BY <1>1, <1>3, <1>4, <1>7 DEF SeesJoin, View, Views
  <2>2. /\ h \in GroupType /\ Apart(h) /\ h.state = "JOINED"
        /\ h.self = g.self /\ h.members = g.members /\ h.local = g.local
        /\ h.remote = g.remote /\ h.names = g.names /\ h.inviter = g.inviter
    BY <1>5, <1>7 DEF GroupType, Apart
  <2> HIDE DEF h
  <2>3. /\ group' \in GroupType /\ Apart(group')
        /\ group'.members = h.members \cup {n}
        /\ group'.local = h.local \ {n} /\ group'.remote = h.remote \ {n}
        /\ group'.state = h.state /\ group'.self = h.self
        /\ group'.names = h.names /\ group'.inviter = h.inviter
    BY <1>2, <1>3, <2>2, Adding
  <2>4. Place(group', self_handle', b)
    BY <1>2, <1>5, <1>7, <2>1, <2>2, <2>3 DEF Place
  <2>5. People(group', self_handle', b)
    BY <1>2, <1>5, <1>7, <2>1, <2>2, <2>3 DEF People
  <2>6. group'.state = "JOINED" /\ group'.names = NoReply
    BY <1>5, <2>2, <2>3
  <2>7. QED
    BY <1>2, <1>4, <2>1, <2>3, <2>4, <2>5, <2>6 DEF Knows
<1>8. CASE n # self_handle
  <2>1. /\ a.here /\ b.here /\ ~a.listing /\ ~b.listing /\ b.nick = a.nick
        /\ b.present = a.present \cup {n}
    BY <1>1, <1>3, <1>4, <1>8 DEF SeesJoin, View, Views
  <2>2. h = g /\ g = group
    BY <1>6, <1>8, <2>1
  <2> HIDE DEF h
  <2>3. /\ group' \in GroupType /\ Apart(group')
        /\ group'.members = g.members \cup {n}
        /\ group'.local = g.local \ {n} /\ group'.remote = g.remote \ {n}
        /\ group'.state = g.state /\ group'.self = g.self
        /\ group'.names = g.names /\ group'.inviter = g.inviter
    BY <1>2, <1>3, <1>5, <2>2, Adding
  <2>4. Place(g, self_handle, a) /\ People(g, self_handle, a)
    BY <1>1, <1>6, <2>1, <2>2 DEF Knows, Exists
  <2>5. Place(group', self_handle', b)
    BY <1>2, <1>8, <2>1, <2>3, <2>4 DEF Place
  <2>6. People(group', self_handle', b)
    BY <1>2, <1>8, <2>1, <2>3, <2>4 DEF People
  <2>7. group'.state = "JOINED" /\ group'.names = NoReply
    BY <1>5, <1>6, <2>1, <2>2, <2>3
  <2>8. QED
    BY <1>2, <1>4, <2>1, <2>3, <2>5, <2>6, <2>7 DEF Knows
<1>9. QED
  BY <1>7, <1>8

LEMMA LeaveKnown ==
    ASSUME MembersInv, LeaveReceived
    PROVE  MembersInv'
<1>0. MembersReceive("LEAVE")
  BY DEF LeaveReceived
<1>1. SUFFICES ASSUME NEW a, NEW b, View(a), Knows(group, self_handle, a),
                      Head(coming) \in MemberMessages,
                      Head(coming).code = "LEAVE", Sees(a, Head(coming), b)
               PROVE  Knows(group', self_handle', b)
  BY <1>0, SeenStep
<1> DEFINE n == Head(coming).nick
<1>2. /\ group' = IF Exists THEN MemberLeaves(group, n) ELSE group
      /\ self_handle' = self_handle
  BY DEF LeaveReceived, InChannel
<1>3. n \in Contacts /\ SeesLeave(a, Head(coming), b) /\ View(b)
  BY <1>1 DEF MemberMessages, Sees, SeesJoin, SeesNick, SeesNames,
     SeesNamesEnd, SeesAnswer
<1>4. /\ self_handle = a.nick /\ a.nick \in Contacts /\ a \in Views
      /\ b.nick = a.nick /\ ~a.listing /\ ~b.listing
  BY <1>1, <1>3 DEF View, Views, Knows, SeesLeave
<1>5. ~Exists => group = NoGroup /\ ~a.here
  BY <1>1 DEF Exists, Knows, NoGroup
<1>6. CASE n = self_handle
  <2>1. a.here /\ ~b.here
    BY <1>3, <1>4, <1>6 DEF SeesLeave, Views
  <2>2. group' = NoGroup
    BY <1>2, <1>5, <1>6, <2>1 DEF MemberLeaves
  <2>3. QED
    BY <1>2, <1>3, <1>4, <2>1, <2>2, NoGroupKnows
<1>7. CASE n # self_handle
  <2>1. b.here = a.here /\ b.present = a.present \ {n}
    BY <1>3, <1>4, <1>7 DEF SeesLeave, Views
  <2>2. CASE ~Exists
    BY <1>2, <1>3, <1>4, <1>5, <2>1, <2>2, NoGroupKnows
  <2>3. CASE Exists
    <3>1. /\ group \in GroupType /\ Apart(group) /\ Place(group, self_handle, a)
          /\ People(group, self_handle, a) /\ group.names = NoReply
      BY <1>1, <1>4, <2>3 DEF Exists, Knows
    <3>2. group' = ChangeMembers(group, {}, {n}, {}, {})
      BY <1>2, <1>7, <2>3 DEF MemberLeaves
    <3>3. /\ group' \in GroupType
          /\ group'.members = group.members \ {n}
          /\ group'.local = group.local \ {n}
          /\ group'.remote = group.remote \ {n}
          /\ group'.state = group.state /\ group'.names = group.names
          /\ group'.self = group.self /\ group'.inviter = group.inviter
      BY <1>3, <3>1, <3>2 DEF ChangeMembers, GroupType
    <3>4. Place(group', self_handle', b) /\ Apart(group')
      BY <1>2, <1>7, <2>1, <3>1, <3>3 DEF Place, Apart
    <3>5. People(group', self_handle', b)
      BY <1>2, <1>4, <2>1, <3>1, <3>3 DEF People
    <3>6. group.state = "JOINED" <=> a.here
      BY <1>1 DEF Knows
    <3>7. group'.state # "none"
      BY <2>3, <3>3 DEF Exists
    <3>8. QED
      BY <1>2, <1>4, <2>1, <3>1, <3>3, <3>4, <3>5, <3>6, <3>7 DEF Knows
  <2>4. QED
    BY <2>2, <2>3
<1>8. QED
  BY <1>6, <1>7

(* A name that changes, in a channel that knows who is where.              *)
LEMMA RenamedKnown ==
    ASSUME NEW g, NEW s, NEW a, Knows(g, s, a), g.state # "none",
           View(a), ~a.listing,
           NEW old \in Contacts, NEW new \in Contacts,
           new \notin a.present \cup {a.nick, old},
           NEW b, View(b), b.here = a.here, ~b.listing,
           b.nick = IF old = a.nick THEN new ELSE a.nick,
           b.present = (a.present \ {old}) \cup Within(a.present, old, new)
    PROVE  Knows(MemberRenamed(g, old, new), b.nick, b)
<1> DEFINE h == Followed(g, old, new)
           d == MemberRenamed(g, old, new)
           t == b.nick
<1>1. /\ g \in GroupType /\ Apart(g) /\ Place(g, s, a) /\ People(g, s, a)
      /\ g.names = NoReply /\ s = a.nick
      /\ g.state = "JOINED" <=> a.here
  BY DEF Knows
<1>2. /\ h \in GroupType
      /\ h.self = (IF g.self = old THEN new ELSE g.self)
      /\ h.inviter = (IF g.inviter = old THEN new ELSE g.inviter)
      /\ h.members = g.members /\ h.local = g.local /\ h.remote = g.remote
      /\ h.state = g.state /\ h.names = g.names
  BY <1>1 DEF Followed, GroupType
<1>3. h.self = t /\ (old = s => t = new) /\ (old # s => t = s)
  <2>1. g.self = s /\ s = a.nick
    BY <1>1, Zenon DEF Place
  <2>2. CASE old = s
    <3>1. t = new
      BY <2>1, <2>2
    <3>2. QED
      BY <1>2, <2>1, <2>2, <3>1
  <2>3. CASE old # s
    <3>1. t = s
      BY <2>1, <2>3
    <3>2. QED
      BY <1>2, <2>1, <2>3, <3>1
  <2>4. QED
    BY <2>2, <2>3
<1> HIDE DEF h
<1> DEFINE inMembers == Within(g.members, old, new)
           inLocal == Within(g.local, old, new)
           inRemote == Within(g.remote, old, new)
<1>4. /\ inMembers = IF old \in g.members THEN {new} ELSE {}
      /\ inLocal = IF old \in g.local THEN {new} ELSE {}
      /\ inRemote = IF old \in g.remote THEN {new} ELSE {}
      /\ Within(a.present, old, new) = IF old \in a.present THEN {new} ELSE {}
  BY DEF Within
<1> HIDE DEF inMembers, inLocal, inRemote
<1>5. ~(old \in g.members /\ old \in g.local) /\ ~(old \in g.members /\ old \in g.remote)
      /\ ~(old \in g.local /\ old \in g.remote)
  BY <1>1 DEF Apart
<1>6. /\ inMembers \in SUBSET Contacts /\ inLocal \in SUBSET Contacts
      /\ inRemote \in SUBSET Contacts /\ inMembers \cap inLocal = {}
      /\ inMembers \cap inRemote = {} /\ inLocal \cap inRemote = {}
  BY <1>4, <1>5
<1>7. /\ d \in GroupType /\ d.state = g.state /\ d.names = g.names
      /\ d.self = h.self /\ d.inviter = h.inviter
      /\ d.members = (g.members \cup inMembers) \ ({old} \cup inLocal \cup inRemote)
      /\ d.local = (g.local \cup inLocal) \ (inMembers \cup {old} \cup inRemote)
      /\ d.remote = (g.remote \cup inRemote) \ (inMembers \cup {old} \cup inLocal)
  <2>1. CASE old \notin g.members \cup g.local \cup g.remote
    <3>1. d = h
      BY <2>1 DEF MemberRenamed, h
    <3>2. inMembers = {} /\ inLocal = {} /\ inRemote = {}
      BY <1>4, <2>1
    <3>3. QED
      BY <1>2, <2>1, <3>1, <3>2
  <2>2. CASE old \in g.members \cup g.local \cup g.remote
    <3>1. d = ChangeMembers(h, inMembers, {old}, inLocal, inRemote)
      BY <2>2 DEF MemberRenamed, h, inMembers, inLocal, inRemote
    <3>2. QED
      BY <1>2, <1>6, <3>1 DEF ChangeMembers, GroupType
  <2>3. QED
    BY <2>1, <2>2
<1> HIDE DEF d
<1>8. Apart(d)
  BY <1>1, <1>4, <1>5, <1>7 DEF Apart
<1>9. Place(d, t, b)
  <2>1. CASE old = s
    <3>1. t = new
      BY <1>3, <2>1
    <3>2. d.local \subseteq {t}
      BY <1>1, <1>4, <1>7, <2>1, <3>1 DEF Place
    <3>3. t \in d.members <=> b.here
      BY <1>1, <1>4, <1>5, <1>7, <2>1, <3>1 DEF Place
    <3>4. t \in d.local \cup d.remote <=> ~b.here
      BY <1>1, <1>4, <1>5, <1>7, <2>1, <3>1 DEF Place
    <3>5. QED
      BY <1>3, <1>7, <3>2, <3>3, <3>4 DEF Place
  <2>2. CASE old # s
    <3>1. t = s /\ new # s /\ inLocal = {}
      <4>1. g.local \subseteq {s}
        BY <1>1, Zenon DEF Place
      <4>2. QED
        BY <1>1, <1>3, <1>4, <2>2, <4>1
    <3>2. d.local \subseteq {t}
      BY <1>1, <1>7, <3>1 DEF Place
    <3>3. /\ t \in d.members <=> t \in g.members
          /\ t \in d.local <=> t \in g.local
          /\ t \in d.remote <=> t \in g.remote
      BY <1>4, <1>7, <2>2, <3>1
    <3>4. QED
      BY <1>1, <1>3, <1>7, <3>1, <3>2, <3>3 DEF Place
  <2>3. QED
    BY <2>1, <2>2
<1>10. People(d, t, b)
  <2>1. d.members \subseteq b.present \cup {t, d.inviter}
    <3> SUFFICES ASSUME NEW x \in d.members
                 PROVE  x \in b.present \cup {t, d.inviter}
      OBVIOUS
    <3>1. CASE x = new /\ old \in g.members
      <4>1. old \in a.present \/ old = s \/ old = g.inviter
        BY <1>1, <3>1 DEF People
      <4>2. QED
        BY <1>1, <1>2, <1>3, <1>4, <1>7, <3>1, <4>1
    <3>2. CASE ~(x = new /\ old \in g.members)
      <4>1. x \in g.members /\ x # old
        BY <1>4, <1>7, <3>2
      <4>2. x \in a.present \/ x = s \/ x = g.inviter
        BY <1>1, <4>1 DEF People
      <4>3. QED
        BY <1>1, <1>2, <1>3, <1>4, <1>7, <4>1, <4>2
    <3>3. QED
      BY <3>1, <3>2
  <2>2. ASSUME b.here PROVE b.present \subseteq d.members
    <3> SUFFICES ASSUME NEW x \in b.present PROVE x \in d.members
      OBVIOUS
    <3>1. a.present \subseteq g.members
      BY <1>1, <2>2 DEF People
    <3>2. CASE x = new
      <4>1. old \in a.present
        BY <1>4, <3>2
      <4>2. old \in g.members
        BY <3>1, <4>1
      <4>3. QED
        BY <1>4, <1>5, <1>7, <3>2, <4>2
    <3>3. CASE x # new
      <4>1. x \in a.present /\ x # old
        BY <1>4, <3>3
      <4>2. QED
        BY <1>4, <1>7, <3>1, <3>3, <4>1
    <3>4. QED
      BY <3>2, <3>3
  <2>3. QED
    BY <2>1, <2>2 DEF People
<1>11. QED
  BY <1>1, <1>7, <1>8, <1>9, <1>10 DEF Knows, d

LEMMA NickKnown ==
    ASSUME MembersInv, NickReceived
    PROVE  MembersInv'
<1>0. MembersReceive("NICK")
  BY DEF NickReceived
<1>1. SUFFICES ASSUME NEW a, NEW b, View(a), Knows(group, self_handle, a),
                      Head(coming) \in MemberMessages,
                      Head(coming).code = "NICK", Sees(a, Head(coming), b)
               PROVE  Knows(group', self_handle', b)
  BY <1>0, SeenStep
<1> DEFINE old == Head(coming).nick
           new == Head(coming).new
<1>2. /\ group' = IF Exists THEN MemberRenamed(group, old, new) ELSE group
      /\ self_handle' = IF old = self_handle THEN new ELSE self_handle
  BY DEF NickReceived, InChannel
<1>3. /\ old \in Contacts /\ new \in Contacts
      /\ SeesNick(a, Head(coming), b) /\ View(b)
  BY <1>1 DEF MemberMessages, Sees, SeesJoin, SeesLeave, SeesNames,
     SeesNamesEnd, SeesAnswer
<1>4. /\ self_handle = a.nick /\ a \in Views /\ ~a.listing
      /\ a.nick \notin a.present
  BY <1>1, <1>3 DEF View, Knows, SeesNick
<1>5. /\ new \notin a.present \cup {a.nick, old}
      /\ b.here = a.here /\ ~b.listing
      /\ b.nick = (IF old = a.nick THEN new ELSE a.nick)
  BY <1>3, <1>4 DEF SeesNick, Views
<1>6. b.present = (a.present \ {old}) \cup Within(a.present, old, new)
  <2>1. CASE old = a.nick
    <3>1. b.present = a.present /\ old \notin a.present
      BY <1>3, <1>4, <2>1 DEF SeesNick, Views
    <3>2. QED
      BY <3>1 DEF Within
  <2>2. CASE old # a.nick
    BY <1>3, <1>4, <2>2 DEF SeesNick, Views
  <2>3. QED
    BY <2>1, <2>2
<1>7. self_handle' = b.nick
  BY <1>2, <1>4, <1>5
<1> HIDE DEF old, new
<1>8. CASE Exists
  <2>1. Knows(MemberRenamed(group, old, new), b.nick, b)
    BY <1>1, <1>3, <1>4, <1>5, <1>6, <1>8, RenamedKnown DEF Exists
  <2>2. QED
    BY <1>2, <1>7, <1>8, <2>1
<1>9. CASE ~Exists
  <2>1. group' = NoGroup /\ ~b.here
    BY <1>1, <1>2, <1>5, <1>9 DEF Exists, Knows, NoGroup
  <2>2. QED
    BY <1>3, <1>7, <2>1, NoGroupKnows
<1>10. QED
  BY <1>8, <1>9

LEMMA InviteKnown ==
    ASSUME MembersInv, InviteReceived
    PROVE  MembersInv'
<1>0. MembersReceive("INVITE")
  BY DEF InviteReceived
<1>1. SUFFICES ASSUME NEW a, NEW b, View(a), Knows(group, self_handle, a),
                      Head(coming) \in MemberMessages,
                      Head(coming).code = "INVITE", Sees(a, Head(coming), b)
               PROVE  Knows(group', self_handle', b)
  BY <1>0, SeenStep
<1> DEFINE n == Head(coming).nick
<1>2. /\ group' = IF Exists THEN group ELSE InvitedBy(n)
      /\ self_handle' = self_handle
  BY DEF InviteReceived
<1>3. n \in Contacts /\ SeesAnswer(a, Head(coming), b)
  BY <1>1 DEF MemberMessages, Sees, SeesJoin, SeesLeave, SeesNick, SeesNames,
     SeesNamesEnd
<1>4. /\ self_handle = a.nick /\ a.nick \in Contacts
      /\ ~a.here /\ ~a.listing /\ b = a /\ n # self_handle
  BY <1>1, <1>3 DEF View, Views, Knows, SeesAnswer
<1> HIDE DEF n
<1>5. CASE Exists
  BY <1>1, <1>2, <1>4, <1>5
<1>6. CASE ~Exists
  <2> DEFINE c == Created
             d == ChangeMembers(c, {n}, {}, {self_handle}, {})
  <2>1. /\ c \in GroupType /\ Apart(c) /\ c.state = "CREATED"
        /\ c.self = self_handle /\ c.members = {} /\ c.local = {}
        /\ c.remote = {} /\ c.names = NoReply
    BY <1>4, CreatedType
  <2> HIDE DEF c
  <2>2. /\ d \in GroupType /\ d.members = {n} /\ d.local = {self_handle}
        /\ d.remote = {} /\ d.state = "CREATED" /\ d.self = self_handle
        /\ d.names = NoReply
    BY <1>3, <1>4, <2>1 DEF ChangeMembers, GroupType
  <2>3. group' = [d EXCEPT !.announced = TRUE, !.inviter = n]
    BY <1>2, <1>6 DEF InvitedBy, c
  <2> HIDE DEF d
  <2>4. /\ group' \in GroupType /\ group'.members = {n}
        /\ group'.local = {self_handle} /\ group'.remote = {}
        /\ group'.state = "CREATED" /\ group'.self = self_handle
        /\ group'.names = NoReply /\ group'.inviter = n
    BY <1>3, <2>2, <2>3 DEF GroupType
  <2>5. Place(group', self_handle, a) /\ Apart(group') /\ People(group', self_handle, a)
    BY <1>4, <2>4 DEF Place, Apart, People
  <2>6. QED
    BY <1>2, <1>4, <2>4, <2>5 DEF Knows
<1>7. QED
  BY <1>5, <1>6

LEMMA NamesKnown ==
    ASSUME MembersInv, NamesReceived
    PROVE  MembersInv'
<1>0. MembersReceive("NAMEREPLY")
  BY DEF NamesReceived
<1>1. SUFFICES ASSUME NEW a, NEW b, View(a), Knows(group, self_handle, a),
                      Head(coming) \in MemberMessages,
                      Head(coming).code = "NAMEREPLY", Sees(a, Head(coming), b)
               PROVE  Knows(group', self_handle', b)
  BY <1>0, SeenStep
<1> DEFINE nicks == Head(coming).nicks
<1>2. nicks \subseteq Contacts /\ SeesNames(a, Head(coming), b) /\ View(b)
  BY <1>1 DEF MemberMessages, Sees, SeesJoin, SeesLeave, SeesNick,
     SeesNamesEnd, SeesAnswer
<1>3. /\ a.listing /\ a.here /\ nicks # {} /\ a.named \subseteq Contacts
      /\ b.nick = a.nick /\ b.here = a.here /\ b.present = a.present
      /\ b.listing /\ b.named = a.named \cup nicks
  BY <1>1, <1>2 DEF View, Views, SeesNames
<1>4. Exists /\ group.state = "JOINED"
  BY <1>1, <1>3 DEF Exists, Knows
<1>5. group' = NameReplied(group, nicks) /\ self_handle' = self_handle
  BY <1>4 DEF NamesReceived, InChannel
<1> HIDE DEF nicks
<1>6. /\ group \in GroupType /\ Apart(group) /\ Place(group, self_handle, a)
      /\ People(group, self_handle, a) /\ self_handle = a.nick
      /\ group.names = IF a.named # {} THEN a.named ELSE NoReply
  BY <1>1, <1>3, <1>4 DEF Knows
<1>7. b.named = (IF group.names = NoReply THEN {} ELSE group.names) \cup nicks
  <2>1. a.named # NoReply
    BY <1>3, MucMembersAssumption DEF NoReply
  <2>2. QED
    BY <1>3, <1>6, <2>1
<1>8. /\ group' \in GroupType /\ group'.names = b.named
      /\ group'.members = group.members /\ group'.local = group.local
      /\ group'.remote = group.remote /\ group'.state = group.state
      /\ group'.self = group.self /\ group'.inviter = group.inviter
  <2>1. b.named \in SUBSET (Contacts \cup {Nobody})
    BY <1>2, <1>3
  <2>2. group' = [group EXCEPT !.names = b.named]
    BY <1>5, <1>7 DEF NameReplied
  <2>3. QED
    BY <1>6, <2>1, <2>2 DEF GroupType
<1>9. Place(group', self_handle', b) /\ Apart(group') /\ People(group', self_handle', b)
  BY <1>3, <1>5, <1>6, <1>8 DEF Place, Apart, People
<1>10. b.named # {}
  BY <1>3
<1>11. QED
  BY <1>3, <1>4, <1>5, <1>6, <1>8, <1>9, <1>10 DEF Knows

LEMMA NamesEndKnown ==
    ASSUME MembersInv, NamesEndReceived
    PROVE  MembersInv'
<1>0. MembersReceive("ENDOFNAMES")
  BY DEF NamesEndReceived
<1>1. SUFFICES ASSUME NEW a, NEW b, View(a), Knows(group, self_handle, a),
                      Head(coming) \in MemberMessages,
                      Head(coming).code = "ENDOFNAMES", Sees(a, Head(coming), b)
               PROVE  Knows(group', self_handle', b)
  BY <1>0, SeenStep
<1>2. SeesNamesEnd(a, Head(coming), b) /\ View(b)
  BY <1>1 DEF Sees, SeesJoin, SeesLeave, SeesNick, SeesNames, SeesAnswer
<1>3. /\ a.listing /\ a.here /\ a.named = a.present \cup {a.nick}
      /\ a.named \subseteq Contacts
      /\ b.nick = a.nick /\ b.here = a.here /\ b.present = a.present
      /\ ~b.listing
  BY <1>1, <1>2 DEF View, Views, SeesNamesEnd
<1>4. Exists /\ group.state = "JOINED"
  BY <1>1, <1>3 DEF Exists, Knows
<1>5. /\ group \in GroupType /\ Apart(group) /\ Place(group, self_handle, a)
      /\ People(group, self_handle, a) /\ self_handle = a.nick
      /\ group.names = a.named
  BY <1>1, <1>3, <1>4 DEF Knows
<1> DEFINE d == ChangeMembers(group, a.named, {}, {}, {})
<1>6. group' = [d EXCEPT !.names = NoReply] /\ self_handle' = self_handle
  <2>1. group.names # NoReply
    BY <1>3, <1>5, MucMembersAssumption DEF NoReply
  <2>2. QED
    BY <1>4, <1>5, <2>1 DEF NamesEndReceived, InChannel, NamesEnd
<1>7. /\ d \in GroupType /\ Apart(d)
      /\ d.members = group.members \cup a.named
      /\ d.local = group.local \ a.named /\ d.remote = group.remote \ a.named
      /\ d.state = group.state /\ d.self = group.self
      /\ d.inviter = group.inviter
  BY <1>3, <1>5, Adding
<1> HIDE DEF d
<1>8. /\ group' \in GroupType /\ group'.names = NoReply
      /\ group'.members = d.members /\ group'.local = d.local
      /\ group'.remote = d.remote /\ group'.state = d.state
      /\ group'.self = d.self /\ group'.inviter = d.inviter
  BY <1>6, <1>7 DEF GroupType, NoReply
<1>9. Place(group', self_handle', b)
  BY <1>3, <1>5, <1>6, <1>7, <1>8 DEF Place
<1>10. People(group', self_handle', b)
  BY <1>3, <1>5, <1>6, <1>7, <1>8 DEF People
<1>11. Apart(group')
  BY <1>7, <1>8 DEF Apart
<1>12. QED
  BY <1>3, <1>4, <1>5, <1>6, <1>7, <1>8, <1>9, <1>10, <1>11 DEF Knows

LEMMA ErrorKnown ==
    ASSUME MembersInv, ErrorReceived
    PROVE  MembersInv'
<1>0. MembersReceive("ERROR")
  BY DEF ErrorReceived
<1>1. SUFFICES ASSUME NEW a, NEW b, View(a), Knows(group, self_handle, a),
                      Head(coming) \in MemberMessages,
                      Head(coming).code = "ERROR", Sees(a, Head(coming), b)
               PROVE  Knows(group', self_handle', b)
  BY <1>0, SeenStep
<1>2. ~a.here /\ b = a
  BY <1>1 DEF Sees, SeesJoin, SeesLeave, SeesNick, SeesNames, SeesNamesEnd,
     SeesAnswer
<1>3. group' = NoGroup /\ self_handle' = a.nick
  BY <1>1, <1>2 DEF ErrorReceived, InChannel, Exists, Knows
<1>4. QED
  BY <1>1, <1>2, <1>3, NoGroupKnows

(* A call of a client leaves alone what is on its way.                     *)
LEMMA CallKnown ==
    ASSUME MembersInv,
           UNCHANGED <<serverVars, coming, self_handle>>,
           \A a : View(a) /\ Knows(group, self_handle, a)
                  => Knows(group', self_handle, a)
    PROVE  MembersInv'
<1>1. PICK a, b : /\ View(a) /\ AtServer(b) /\ Reaches(coming, a, b)
                  /\ Knows(group, self_handle, a)
  BY DEF MembersInv
<1>2. Knows(group', self_handle', a)
  BY <1>1
<1>3. AtServer(b)'
  BY <1>1 DEF AtServer, serverVars
<1>4. coming' = coming /\ here' = here /\ nick' = nick /\ present' = present
  BY DEF serverVars
<1>5. Reaches(coming', a, b)
  BY <1>1, <1>4
<1>6. QED
  BY <1>1, <1>2, <1>3, <1>4, <1>5 DEF MembersInv

LEMMA RequestKnown ==
    ASSUME MembersInv, Request
    PROVE  MembersInv'
<1>1. SUFFICES ASSUME NEW a, View(a), Knows(group, self_handle, a)
               PROVE  Knows(group', self_handle, a)
  BY CallKnown DEF Request, Call
<1>2. /\ ~Exists /\ ~a.here /\ ~a.listing
      /\ self_handle = a.nick /\ a.nick \in Contacts
  BY <1>1 DEF Request, Exists, Knows, View, Views
<1> DEFINE c == Created
<1>3. /\ c \in GroupType /\ c.state = "CREATED"
      /\ c.self = self_handle /\ c.members = {} /\ c.local = {}
      /\ c.remote = {} /\ c.names = NoReply
  BY <1>2, CreatedType
<1>4. group' = ChangeMembers(c, {}, {}, {}, {self_handle})
  BY DEF Request
<1> HIDE DEF c
<1>5. /\ group' \in GroupType /\ group'.members = {} /\ group'.local = {}
      /\ group'.remote = {self_handle} /\ group'.state = "CREATED"
      /\ group'.self = self_handle /\ group'.names = NoReply
  BY <1>2, <1>3, <1>4 DEF ChangeMembers, GroupType
<1>6. /\ Place(group', self_handle, a) /\ Apart(group')
      /\ People(group', self_handle, a)
  BY <1>2, <1>5 DEF Place, Apart, People
<1>7. QED
  BY <1>2, <1>5, <1>6 DEF Knows

LEMMA AddingRemote ==
    ASSUME NEW g \in GroupType, NEW contact \in Contacts \ g.members,
           NEW d, d = ChangeMembers(g, {}, {}, {}, {contact})
    PROVE  /\ d \in GroupType
           /\ d.members = g.members /\ d.local = g.local \ {contact}
           /\ d.remote = g.remote \cup {contact}
           /\ d.state = g.state /\ d.self = g.self
           /\ d.names = g.names /\ d.inviter = g.inviter
BY DEF ChangeMembers, GroupType

LEMMA AddMemberKnown ==
    ASSUME MembersInv, NEW contact \in Contacts, AddMember(contact)
    PROVE  MembersInv'
<1>1. SUFFICES ASSUME NEW a, View(a), Knows(group, self_handle, a)
               PROVE  Knows(group', self_handle, a)
  BY CallKnown DEF AddMember, Call
<1> DEFINE d == ChangeMembers(group, {}, {}, {}, {contact})
<1>2. /\ group.state = "JOINED" \/ contact \in group.local
      /\ contact \notin group.members \cup group.remote
      /\ group' = IF contact = self_handle
                  THEN [d EXCEPT !.state = "JOINING"] ELSE d
  BY DEF AddMember
<1>3. group.state # "none"
  BY <1>1, <1>2 DEF Knows, NoGroup
<1>4. /\ group \in GroupType /\ Apart(group) /\ Place(group, self_handle, a)
      /\ People(group, self_handle, a) /\ self_handle = a.nick
      /\ group.state = "JOINED" <=> a.here
  BY <1>1, <1>3 DEF Knows
<1>5. /\ d \in GroupType
      /\ d.members = group.members /\ d.local = group.local \ {contact}
      /\ d.remote = group.remote \cup {contact}
      /\ d.state = group.state /\ d.self = group.self
      /\ d.names = group.names /\ d.inviter = group.inviter
  BY <1>2, <1>4, AddingRemote
<1> HIDE DEF d
<1>6. CASE contact = self_handle
  <2>1. ~a.here /\ group.state # "JOINED"
    BY <1>2, <1>4, <1>6 DEF Place
  <2>2. /\ group' \in GroupType /\ group'.state = "JOINING"
        /\ group'.members = d.members /\ group'.local = d.local
        /\ group'.remote = d.remote /\ group'.self = d.self
        /\ group'.names = d.names /\ group'.inviter = d.inviter
    BY <1>2, <1>5, <1>6 DEF GroupType
  <2>3. Place(group', self_handle, a) /\ Apart(group')
    BY <1>4, <1>5, <1>6, <2>1, <2>2 DEF Place, Apart
  <2>4. People(group', self_handle, a)
    BY <1>4, <1>5, <2>1, <2>2 DEF People
  <2>5. QED
    BY <1>1, <1>5, <2>1, <2>2, <2>3, <2>4 DEF Knows
<1>7. CASE contact # self_handle
  <2>1. a.here /\ group' = d
    BY <1>2, <1>4, <1>7 DEF Place
  <2>2. Place(group', self_handle, a) /\ Apart(group')
    BY <1>2, <1>4, <1>5, <1>7, <2>1 DEF Place, Apart
  <2>3. People(group', self_handle, a)
    BY <1>4, <1>5, <2>1 DEF People
  <2>4. QED
    BY <1>1, <1>3, <1>5, <2>1, <2>2, <2>3 DEF Knows
<1>8. QED
  BY <1>6, <1>7

(* Closing a channel that is not joined, and what only sends a command.    *)
LEMMA OtherCallsKnown ==
    ASSUME MembersInv, RemoveMember \/ CloseChannel \/ DestroyChannel
    PROVE  MembersInv'
<1>1. SUFFICES ASSUME NEW a, View(a), Knows(group, self_handle, a)
               PROVE  Knows(group', self_handle, a)
  BY CallKnown DEF RemoveMember, CloseChannel, DestroyChannel, Call
<1>2. \/ group' = group
      \/ group' = NoGroup /\ group.state # "JOINED"
  BY DEF RemoveMember, CloseChannel, DestroyChannel
<1>3. self_handle = a.nick /\ (group.state # "JOINED" => ~a.here)
  BY <1>1 DEF Knows
<1>4. QED
  BY <1>1, <1>2, <1>3, NoGroupKnows

(* What happens at the server leaves the channel alone.                    *)
ServerTypes ==
    here \in BOOLEAN /\ present \in SUBSET Contacts /\ nick \in Contacts \ present

LEMMA UnsentKnown ==
    ASSUME MembersInv, UNCHANGED <<coming, self_handle, group>>, ServerTypes',
           \A b : AtServer(b) => AtServer(b)'
    PROVE  MembersInv'
BY DEF MembersInv, ServerTypes

LEMMA SentKnown ==
    ASSUME MembersInv, UNCHANGED <<self_handle, group>>, ServerTypes',
           NEW m \in MemberMessages, coming' = coming \o <<m>>,
           \A b : AtServer(b) => \E c : Sees(b, m, c) /\ AtServer(c)'
    PROVE  MembersInv'
<1>1. PICK a, b : /\ View(a) /\ AtServer(b) /\ Reaches(coming, a, b)
                  /\ Knows(group, self_handle, a)
  BY DEF MembersInv
<1>2. PICK c : Sees(b, m, c) /\ AtServer(c)'
  BY <1>1
<1>3. coming \in Seq(MemberMessages) /\ coming' = Append(coming, m)
  BY AppendIsConcat DEF MembersInv
<1>4. coming' \in Seq(MemberMessages) /\ Reaches(coming', a, c)
  <2>1. c \in Views
    BY <1>2 DEF Sees, View
  <2>2. QED
    BY <1>1, <1>2, <1>3, <2>1, ReachesLast
<1>5. Knows(group', self_handle', a)
  BY <1>1
<1>6. QED
  BY <1>1, <1>2, <1>4, <1>5 DEF MembersInv, ServerTypes

(* What the user sees of the server, in its parts.                         *)
LEMMA AtServerParts ==
    ASSUME NEW b, AtServer(b)
    PROVE  /\ View(b) /\ b \in Views /\ ~b.listing
           /\ b.here = here /\ b.nick = nick
           /\ here => b.present = present
           /\ ~here => b.present = {}
           /\ b.named \subseteq b.present \cup {b.nick}
           /\ nick \notin b.present
BY DEF AtServer, View

LEMMA AboutMessages ==
    ASSUME NEW n \in Contacts
    PROVE  /\ About("JOIN", n) \in MemberMessages
           /\ About("LEAVE", n) \in MemberMessages
           /\ About("INVITE", n) \in MemberMessages
           /\ \A code : /\ About(code, n).code = code
                        /\ About(code, n).nick = n
BY DEF About, MemberMessages

LEMMA SendsEither ==
    ASSUME NEW seen \in BOOLEAN, NEW m, SendsWhen(seen, m),
           coming \in Seq(MemberMessages)
    PROVE  /\ UNCHANGED <<self_handle, group>>
           /\ seen => coming' = coming \o <<m>>
           /\ ~seen => coming' = coming
BY ConcatEmptySeq DEF SendsWhen, Sends

LEMMA OtherJoinsKnown ==
    ASSUME MembersInv, NEW n \in Contacts, OtherJoins(n)
    PROVE  MembersInv'
<1> DEFINE m == About("JOIN", n)
<1>1. /\ n \notin present \cup {nick} /\ present' = present \cup {n}
      /\ here' = here /\ nick' = nick /\ SendsWhen(here, m)
      /\ here \in BOOLEAN /\ coming \in Seq(MemberMessages)
      /\ present \in SUBSET Contacts /\ nick \in Contacts \ present
  BY DEF OtherJoins, MembersInv
<1>2. ServerTypes'
  BY <1>1 DEF ServerTypes
<1>3. m \in MemberMessages /\ m.code = "JOIN" /\ m.nick = n
  BY AboutMessages
<1>4. /\ UNCHANGED <<self_handle, group>>
      /\ here => coming' = coming \o <<m>>
      /\ ~here => coming' = coming
  BY <1>1, SendsEither
<1> HIDE DEF m
<1>5. CASE here
  <2>1. ASSUME NEW b, AtServer(b)
        PROVE  \E c : Sees(b, m, c) /\ AtServer(c)'
    <3> DEFINE c == [b EXCEPT !.present = @ \cup {m.nick}]
    <3>1. /\ View(b) /\ b \in Views /\ ~b.listing /\ b.here /\ b.nick = nick
          /\ b.present = present /\ b.named \subseteq b.present \cup {b.nick}
      BY <1>5, <2>1, AtServerParts
    <3>2. /\ c \in Views /\ c.here /\ ~c.listing /\ c.nick = nick
          /\ c.present = present' /\ c.named = b.named
      BY <1>1, <1>3, <3>1 DEF Views
    <3>3. SeesJoin(b, m, c)
      BY <1>1, <1>3, <3>1 DEF SeesJoin
    <3> HIDE DEF c
    <3>4. PICK d : d = c
      OBVIOUS
    <3>5. View(d) /\ AtServer(d)'
      BY <1>1, <1>5, <3>1, <3>2, <3>4 DEF View, AtServer
    <3>6. QED
      BY <3>1, <3>3, <3>4, <3>5 DEF Sees
  <2>2. QED
    BY <1>2, <1>3, <1>4, <1>5, <2>1, SentKnown
<1>6. CASE ~here
  <2>1. ASSUME NEW b, AtServer(b) PROVE AtServer(b)'
    BY <1>1, <1>6, <2>1 DEF AtServer
  <2>2. QED
    BY <1>2, <1>4, <1>6, <2>1, UnsentKnown
<1>7. QED
  BY <1>1, <1>5, <1>6

(* Somebody else leaves, or quits without being in the room.               *)
LEMMA OtherGoneKnown ==
    ASSUME MembersInv, NEW n \in Contacts, n # nick,
           present' = present \ {n}, here' = here, nick' = nick,
           NEW seen \in BOOLEAN, SendsWhen(seen, About("LEAVE", n)),
           here => seen
    PROVE  MembersInv'
<1> DEFINE m == About("LEAVE", n)
<1>1. /\ here \in BOOLEAN /\ coming \in Seq(MemberMessages)
      /\ present \in SUBSET Contacts /\ nick \in Contacts \ present
  BY DEF MembersInv
<1>2. ServerTypes'
  BY <1>1 DEF ServerTypes
<1>3. m \in MemberMessages /\ m.code = "LEAVE" /\ m.nick = n
  BY AboutMessages
<1>4. /\ UNCHANGED <<self_handle, group>>
      /\ seen => coming' = coming \o <<m>>
      /\ ~seen => coming' = coming
  BY <1>1, SendsEither
<1> HIDE DEF m
<1>5. CASE seen
  <2>1. ASSUME NEW b, AtServer(b)
        PROVE  \E c : Sees(b, m, c) /\ AtServer(c)'
    <3> DEFINE c == [b EXCEPT !.present = @ \ {m.nick}, !.named = {}]
    <3>1. /\ View(b) /\ b \in Views /\ ~b.listing /\ b.here = here
          /\ b.nick = nick /\ nick \notin b.present
          /\ here => b.present = present
          /\ ~here => b.present = {}
      BY <2>1, AtServerParts
    <3>2. /\ c \in Views /\ c.here = here /\ ~c.listing /\ c.nick = nick
          /\ c.present = b.present \ {n} /\ c.named = {}
      BY <1>3, <3>1 DEF Views
    <3>3. SeesLeave(b, m, c)
      BY <1>3, <3>1 DEF SeesLeave
    <3> HIDE DEF c
    <3>4. PICK d : d = c
      OBVIOUS
    <3>5. View(d)
      BY <3>1, <3>2, <3>4 DEF View
    <3>6. AtServer(d)'
      BY <3>1, <3>2, <3>4, <3>5 DEF AtServer
    <3>7. QED
      BY <3>1, <3>3, <3>4, <3>5, <3>6 DEF Sees
  <2>2. QED
    BY <1>2, <1>3, <1>4, <1>5, <2>1, SentKnown
<1>6. CASE ~seen
  <2>1. ASSUME NEW b, AtServer(b) PROVE AtServer(b)'
    BY <1>1, <1>6, <2>1 DEF AtServer
  <2>2. QED
    BY <1>2, <1>4, <1>6, <2>1, UnsentKnown
<1>7. QED
  BY <1>5, <1>6

LEMMA OtherRenamedKnown ==
    ASSUME MembersInv, NEW n \in Contacts, NEW new \in Contacts,
           NEW seen \in BOOLEAN, OtherRenamed(n, new, seen)
    PROVE  MembersInv'
<1> DEFINE m == Renaming(n, new)
<1>1. /\ here \in BOOLEAN /\ coming \in Seq(MemberMessages)
      /\ present \in SUBSET Contacts /\ nick \in Contacts \ present
  BY DEF MembersInv
<1>2. /\ n # nick /\ new \notin present \cup {n, nick}
      /\ here /\ n \in present => seen
      /\ present' = (present \ {n}) \cup Within(present, n, new)
      /\ SendsWhen(seen, m) /\ here' = here /\ nick' = nick
  BY DEF OtherRenamed
<1>3. /\ Within(present, n, new) = (IF n \in present THEN {new} ELSE {})
      /\ Within({}, n, new) = {}
  BY DEF Within
<1>4. ServerTypes'
  BY <1>1, <1>2, <1>3 DEF ServerTypes
<1>5. m \in MemberMessages /\ m.code = "NICK" /\ m.nick = n /\ m.new = new
  BY DEF Renaming, MemberMessages
<1>6. /\ UNCHANGED <<self_handle, group>>
      /\ seen => coming' = coming \o <<m>>
      /\ ~seen => coming' = coming
  BY <1>1, <1>2, SendsEither
<1> HIDE DEF m
<1>7. CASE seen
  <2>1. ASSUME NEW b, AtServer(b)
        PROVE  \E c : Sees(b, m, c) /\ AtServer(c)'
    <3>1. /\ View(b) /\ b \in Views /\ ~b.listing /\ b.here = here
          /\ b.nick = nick /\ nick \notin b.present
          /\ here => b.present = present
          /\ ~here => b.present = {}
      BY <2>1, AtServerParts
    <3>2. PICK p : p = (b.present \ {n}) \cup Within(b.present, n, new)
      OBVIOUS
    <3>3. /\ p \in SUBSET Contacts /\ nick \notin p
          /\ here => p = present'
          /\ ~here => p = {}
      BY <1>1, <1>2, <1>3, <3>1, <3>2
    <3>4. PICK c : c = [b EXCEPT !.named = {}, !.present = p]
      OBVIOUS
    <3>5. /\ c \in Views /\ c.here = here /\ ~c.listing /\ c.nick = nick
          /\ c.present = p /\ c.named = {}
      BY <3>1, <3>3, <3>4 DEF Views
    <3>6. SeesNick(b, m, c)
      <4>1. c = [b EXCEPT !.named = {},
                    !.present = (@ \ {m.nick}) \cup Within(@, m.nick, m.new)]
        BY <1>5, <3>2, <3>4
      <4>2. new \notin b.present \cup {b.nick, n}
        BY <1>1, <1>2, <3>1
      <4>3. QED
        BY <1>2, <1>5, <3>1, <4>1, <4>2 DEF SeesNick
    <3>7. View(c)
      BY <3>3, <3>5 DEF View
    <3>8. AtServer(c)'
      BY <1>2, <3>3, <3>5, <3>7 DEF AtServer
    <3>9. QED
      BY <3>1, <3>6, <3>7, <3>8 DEF Sees
  <2>2. QED
    BY <1>4, <1>5, <1>6, <1>7, <2>1, SentKnown
<1>8. CASE ~seen
  <2>1. here => present' = present
    BY <1>2, <1>3, <1>8
  <2>2. ASSUME NEW b, AtServer(b) PROVE AtServer(b)'
    BY <1>2, <2>1, <2>2 DEF AtServer
  <2>3. QED
    BY <1>4, <1>6, <1>8, <2>2, UnsentKnown
<1>9. QED
  BY <1>7, <1>8

LEMMA UserRenamedKnown ==
    ASSUME MembersInv, NEW new \in Contacts, UserRenamed(new)
    PROVE  MembersInv'
<1> DEFINE m == Renaming(nick, new)
<1>1. /\ here \in BOOLEAN /\ coming \in Seq(MemberMessages)
      /\ present \in SUBSET Contacts /\ nick \in Contacts \ present
  BY DEF MembersInv
<1>2. /\ new \notin present \cup {nick} /\ nick' = new
      /\ present' = present /\ here' = here
      /\ coming' = coming \o <<m>> /\ UNCHANGED <<self_handle, group>>
  BY DEF UserRenamed, Sends
<1>3. ServerTypes'
  BY <1>1, <1>2 DEF ServerTypes
<1>4. m \in MemberMessages /\ m.code = "NICK" /\ m.nick = nick /\ m.new = new
  BY <1>1 DEF Renaming, MemberMessages
<1> HIDE DEF m
<1>5. ASSUME NEW b, AtServer(b)
      PROVE  \E c : Sees(b, m, c) /\ AtServer(c)'
  <2>1. /\ View(b) /\ b \in Views /\ ~b.listing /\ b.here = here
        /\ b.nick = nick /\ nick \notin b.present
        /\ here => b.present = present
        /\ ~here => b.present = {}
    BY <1>5, AtServerParts
  <2>2. PICK c : c = [b EXCEPT !.nick = new, !.named = {}]
    OBVIOUS
  <2>3. /\ c \in Views /\ c.here = here /\ ~c.listing /\ c.nick = new
        /\ c.present = b.present /\ c.named = {}
    BY <2>1, <2>2 DEF Views
  <2>4. new \notin b.present \cup {nick}
    BY <1>1, <1>2, <2>1
  <2>5. SeesNick(b, m, c)
    BY <1>4, <2>1, <2>2, <2>4 DEF SeesNick
  <2>6. View(c)
    BY <2>1, <2>3, <2>4 DEF View
  <2>7. AtServer(c)'
    BY <1>2, <2>1, <2>3, <2>6 DEF AtServer
  <2>8. QED
    BY <2>1, <2>5, <2>6, <2>7 DEF Sees
<1>6. QED
  BY <1>2, <1>3, <1>4, <1>5, SentKnown

(* UserKicked and UserParts                                                *)
LEMMA UserGoneKnown ==
    ASSUME MembersInv, here, here' = FALSE, nick' = nick, present' = present,
           Sends(<<About("LEAVE", nick)>>)
    PROVE  MembersInv'
<1> DEFINE m == About("LEAVE", nick)
<1>1. /\ coming \in Seq(MemberMessages)
      /\ present \in SUBSET Contacts /\ nick \in Contacts \ present
  BY DEF MembersInv
<1>2. coming' = coming \o <<m>> /\ UNCHANGED <<self_handle, group>>
  BY DEF Sends
<1>3. ServerTypes'
  BY <1>1 DEF ServerTypes
<1>4. m \in MemberMessages /\ m.code = "LEAVE" /\ m.nick = nick
  BY <1>1, AboutMessages
<1> HIDE DEF m
<1>5. ASSUME NEW b, AtServer(b)
      PROVE  \E c : Sees(b, m, c) /\ AtServer(c)'
  <2>1. View(b) /\ b \in Views /\ ~b.listing /\ b.here /\ b.nick = nick
    BY <1>5, AtServerParts
  <2>2. PICK c : c = [b EXCEPT !.here = FALSE, !.present = {}, !.named = {}]
    OBVIOUS
  <2>3. /\ c \in Views /\ ~c.here /\ ~c.listing /\ c.nick = nick
        /\ c.present = {} /\ c.named = {}
    BY <2>1, <2>2 DEF Views
  <2>4. SeesLeave(b, m, c)
    BY <1>4, <2>1, <2>2 DEF SeesLeave
  <2>5. View(c)
    BY <2>3 DEF View
  <2>6. c.here = here'
    BY <2>3 DEF Views
  <2>7. AtServer(c)'
    BY <2>3, <2>5, <2>6 DEF AtServer
  <2>8. QED
    BY <2>1, <2>4, <2>5, <2>7 DEF Sees
<1>6. QED
  BY <1>2, <1>3, <1>4, <1>5, SentKnown

(* UserInvited and JoinRefused                                             *)
LEMMA AnsweredKnown ==
    ASSUME MembersInv, ~here, UNCHANGED <<here, nick, present>>,
           NEW m \in MemberMessages, Sends(<<m>>),
           m.code = "ERROR" \/ (m.code = "INVITE" /\ m.nick # nick)
    PROVE  MembersInv'
<1>1. coming' = coming \o <<m>> /\ UNCHANGED <<self_handle, group>>
  BY DEF Sends
<1>2. ServerTypes'
  BY DEF ServerTypes, MembersInv
<1>3. ASSUME NEW b, AtServer(b)
      PROVE  Sees(b, m, b) /\ AtServer(b)'
  <2>1. View(b) /\ ~b.here /\ b.nick = nick
    BY <1>3, AtServerParts
  <2>2. AtServer(b)'
    BY <1>3 DEF AtServer
  <2>3. QED
    BY <2>1, <2>2 DEF Sees, SeesAnswer
<1>4. QED
  BY <1>1, <1>2, <1>3, SentKnown

(* The name list is about who is in the room at the JOIN.                  *)
LEMMA ConcatOfFour ==
    ASSUME NEW S, NEW a \in Seq(S), NEW b \in Seq(S), NEW c \in Seq(S),
           NEW d \in Seq(S)
    PROVE  a \o (b \o (c \o d)) = ((a \o b) \o c) \o d
<1>1. /\ a \o b \in Seq(S) /\ c \o d \in Seq(S)
  BY ConcatProperties, Zenon
<1>2. a \o (b \o (c \o d)) = (a \o b) \o (c \o d)
  BY <1>1, ConcatAssociative
<1>3. (a \o b) \o (c \o d) = ((a \o b) \o c) \o d
  BY <1>1, ConcatAssociative
<1>4. QED
  BY <1>2, <1>3, Zenon

LEMMA AppendedOne ==
    ASSUME NEW S, NEW q \in Seq(S), NEW m \in S
    PROVE  q \o <<m>> \in Seq(S) /\ q \o <<m>> = Append(q, m)
<1>1. Append(q, m) \in Seq(S)
  OBVIOUS
<1>2. Append(q, m) = q \o <<m>>
  BY AppendIsConcat
<1>3. QED
  BY <1>1, <1>2, Zenon

LEMMA AppendedTwo ==
    ASSUME NEW S, NEW q \in Seq(S), NEW r \in S, NEW t \in S
    PROVE  /\ <<r, t>> \in Seq(S) /\ q \o <<r, t>> \in Seq(S)
           /\ q \o <<r, t>> = Append(Append(q, r), t)
<1>1. <<r>> \in Seq(S) /\ <<t>> \in Seq(S) /\ <<r, t>> \in Seq(S)
  OBVIOUS
<1>2. <<r, t>> = <<r>> \o <<t>>
  <2>1. <<r, t>> = Append(<<r>>, t)
    OBVIOUS
  <2>2. QED
    BY <1>1, <2>1, AppendedOne, Zenon
<1>3. q \o (<<r>> \o <<t>>) = (q \o <<r>>) \o <<t>>
  BY <1>1, ConcatAssociative
<1>4. /\ q \o <<r>> \in Seq(S) /\ q \o <<r>> = Append(q, r)
      /\ (q \o <<r>>) \o <<t>> \in Seq(S)
      /\ (q \o <<r>>) \o <<t>> = Append(q \o <<r>>, t)
  <2>1. q \o <<r>> \in Seq(S) /\ q \o <<r>> = Append(q, r)
    BY AppendedOne, Zenon
  <2>2. QED
    BY <2>1, AppendedOne, Zenon
<1>5. QED
  BY <1>1, <1>2, <1>3, <1>4, Zenon

LEMMA AppendedAll ==
    ASSUME NEW S, NEW q \in Seq(S), NEW j \in S, NEW e \in S,
           NEW names \in Seq(S)
    PROVE  q \o (<<j>> \o (names \o <<e>>))
               = Append(Append(q, j) \o names, e)
<1>1. <<j>> \in Seq(S) /\ <<e>> \in Seq(S)
  OBVIOUS
<1>2. q \o (<<j>> \o (names \o <<e>>)) = ((q \o <<j>>) \o names) \o <<e>>
  BY <1>1, ConcatOfFour
<1>3. q \o <<j>> \in Seq(S) /\ q \o <<j>> = Append(q, j)
  BY AppendedOne, Zenon
<1>4. (q \o <<j>>) \o names \in Seq(S)
  BY <1>3, ConcatProperties, Zenon
<1>5. ((q \o <<j>>) \o names) \o <<e>> = Append((q \o <<j>>) \o names, e)
  BY <1>4, AppendedOne, Zenon
<1>6. QED
  BY <1>2, <1>3, <1>5, Zenon

LEMMA UserJoinsKnown ==
    ASSUME MembersInv, UserJoins
    PROVE  MembersInv'
<1> DEFINE all == present \cup {nick}
           j == About("JOIN", nick)
           e == [code |-> "ENDOFNAMES"]
           R(nicks) == [code |-> "NAMEREPLY", nicks |-> nicks]
<1>1. PICK first \in SUBSET all :
          /\ first # {} /\ coming' = coming \o (<<j>> \o Names(first))
          /\ UNCHANGED <<self_handle, group>>
  BY DEF UserJoins, Sends
<1>2. /\ ~here /\ here' = TRUE /\ nick' = nick /\ present' = present
      /\ coming \in Seq(MemberMessages) /\ present \in SUBSET Contacts
      /\ nick \in Contacts \ present
  BY DEF UserJoins, HandleNext, MembersInv
<1>3. ServerTypes'
  BY <1>2 DEF ServerTypes
<1>4. j \in MemberMessages /\ j.code = "JOIN" /\ j.nick = nick
  BY <1>2, AboutMessages
<1>5. e \in MemberMessages /\ e.code = "ENDOFNAMES"
  BY DEF MemberMessages
<1>6. \A nicks \in SUBSET all : /\ R(nicks) \in MemberMessages
                                /\ R(nicks).code = "NAMEREPLY"
                                /\ R(nicks).nicks = nicks
  BY <1>2 DEF MemberMessages
<1>7. Names(first) = (IF first = all THEN <<R(all)>>
                      ELSE <<R(first), R(all \ first)>>) \o <<e>>
  BY DEF Names
<1>8. PICK r1, r2 : r1 = R(first) /\ r2 = R(all \ first)
  OBVIOUS
<1>9. /\ r1 \in MemberMessages /\ r1.code = "NAMEREPLY" /\ r1.nicks = first
      /\ r2 \in MemberMessages /\ r2.code = "NAMEREPLY"
      /\ r2.nicks = all \ first
  BY <1>6, <1>8
<1> HIDE DEF j, e, R
<1> DEFINE q1 == Append(coming, j)
           q2 == Append(q1, r1)
           q3 == Append(q2, r2)
<1>10. coming' = IF first = all THEN Append(q2, e) ELSE Append(q3, e)
  <2>1. CASE first = all
    <3>1. coming' = coming \o (<<j>> \o (<<r1>> \o <<e>>))
      BY <1>1, <1>7, <1>8, <2>1 DEF e
    <3>2. <<r1>> \in Seq(MemberMessages) /\ q1 \in Seq(MemberMessages)
      BY <1>2, <1>4, <1>9
    <3>3. coming' = Append(q1 \o <<r1>>, e)
      BY <1>2, <1>4, <1>5, <3>1, <3>2, AppendedAll
    <3>4. q1 \o <<r1>> = q2
      BY <1>9, <3>2, AppendedOne, Zenon
    <3>5. QED
      BY <2>1, <3>3, <3>4, Zenon
  <2>2. CASE first # all
    <3>1. coming' = coming \o (<<j>> \o (<<r1, r2>> \o <<e>>))
      BY <1>1, <1>7, <1>8, <2>2 DEF e
    <3>2. <<r1, r2>> \in Seq(MemberMessages) /\ q1 \in Seq(MemberMessages)
      BY <1>2, <1>4, <1>9
    <3>3. coming' = Append(q1 \o <<r1, r2>>, e)
      BY <1>2, <1>4, <1>5, <3>1, <3>2, AppendedAll
    <3>4. q1 \o <<r1, r2>> = q3
      BY <1>9, <3>2, AppendedTwo
    <3>5. QED
      BY <2>2, <3>3, <3>4, Zenon
  <2>3. QED
    BY <2>1, <2>2
<1>11. PICK a, b : /\ View(a) /\ AtServer(b) /\ Reaches(coming, a, b)
                   /\ Knows(group, self_handle, a)
  BY DEF MembersInv
<1>12. /\ View(b) /\ b \in Views /\ ~b.listing /\ ~b.here /\ b.nick = nick
       /\ b.present = {}
  BY <1>2, <1>11, AtServerParts
<1>13. PICK c1 : c1 = [b EXCEPT !.here = TRUE, !.present = present,
                                !.listing = TRUE, !.named = {}]
  OBVIOUS
<1>14. /\ c1 \in Views /\ c1.here /\ c1.listing /\ c1.nick = nick
       /\ c1.present = present /\ c1.named = {} /\ View(c1)
  <2>1. /\ c1 \in Views /\ c1.here /\ c1.listing /\ c1.nick = nick
        /\ c1.present = present /\ c1.named = {}
    BY <1>2, <1>12, <1>13 DEF Views
  <2>2. QED
    BY <1>2, <2>1 DEF View
<1>15. q1 \in Seq(MemberMessages) /\ Reaches(q1, a, c1)
  <2>1. SeesJoin(b, j, c1)
    BY <1>2, <1>4, <1>12, <1>13 DEF SeesJoin
  <2>2. Sees(b, j, c1)
    BY <1>12, <1>14, <2>1 DEF Sees
  <2>3. QED
    BY <1>2, <1>4, <1>11, <1>14, <2>2, ReachesLast
<1> HIDE DEF q1
<1>16. PICK c2 : c2 = [c1 EXCEPT !.named = @ \cup first]
  OBVIOUS
<1>17. /\ c2 \in Views /\ c2.here /\ c2.listing /\ c2.nick = nick
       /\ c2.present = present /\ c2.named = first /\ View(c2)
  <2>1. /\ c2 \in Views /\ c2.here /\ c2.listing /\ c2.nick = nick
        /\ c2.present = present /\ c2.named = first
    BY <1>2, <1>14, <1>16 DEF Views
  <2>2. QED
    BY <1>2, <2>1 DEF View
<1>18. q2 \in Seq(MemberMessages) /\ Reaches(q2, a, c2)
  <2>1. SeesNames(c1, r1, c2)
    BY <1>1, <1>9, <1>14, <1>16 DEF SeesNames
  <2>2. Sees(c1, r1, c2)
    BY <1>14, <1>17, <2>1 DEF Sees
  <2>3. QED
    BY <1>9, <1>15, <1>17, <2>2, ReachesLast
<1> HIDE DEF q2
<1>19. ASSUME NEW q \in Seq(MemberMessages), NEW c \in Views, Reaches(q, a, c),
              View(c), c.here, c.listing, c.nick = nick, c.present = present,
              c.named = all, coming' = Append(q, e)
       PROVE  MembersInv'
  <2>1. PICK d : d = [c EXCEPT !.listing = FALSE]
    OBVIOUS
  <2>2. /\ d \in Views /\ d.here /\ ~d.listing /\ d.nick = nick
        /\ d.present = present /\ d.named = all
    BY <1>19, <2>1 DEF Views
  <2>3. View(d)
    BY <1>2, <2>2 DEF View
  <2>4. SeesNamesEnd(c, e, d)
    BY <1>5, <1>19, <2>1 DEF SeesNamesEnd
  <2>5. Sees(c, e, d)
    BY <1>19, <2>3, <2>4 DEF Sees
  <2>6. coming' \in Seq(MemberMessages) /\ Reaches(coming', a, d)
    BY <1>5, <1>19, <2>2, <2>5, ReachesLast
  <2>7. d.here = here'
    BY <1>2, <2>2 DEF Views
  <2>8. AtServer(d)'
    BY <1>2, <2>2, <2>3, <2>7 DEF AtServer
  <2>9. Knows(group', self_handle', a)
    BY <1>1, <1>11
  <2>10. QED
    BY <1>3, <1>11, <2>6, <2>8, <2>9 DEF MembersInv, ServerTypes
<1>20. CASE first = all
  BY <1>10, <1>17, <1>18, <1>19, <1>20
<1>21. CASE first # all
  <2>1. PICK c3 : c3 = [c2 EXCEPT !.named = @ \cup (all \ first)]
    OBVIOUS
  <2>2. /\ c3 \in Views /\ c3.here /\ c3.listing /\ c3.nick = nick
        /\ c3.present = present /\ c3.named = all
    BY <1>1, <1>2, <1>17, <2>1 DEF Views
  <2>3. View(c3)
    BY <1>2, <2>2 DEF View
  <2>4. SeesNames(c2, r2, c3)
    BY <1>1, <1>9, <1>17, <1>21, <2>1 DEF SeesNames
  <2>5. Sees(c2, r2, c3)
    BY <1>17, <2>3, <2>4 DEF Sees
  <2>6. q3 \in Seq(MemberMessages) /\ Reaches(q3, a, c3)
    BY <1>9, <1>18, <2>2, <2>5, ReachesLast
  <2>7. QED
    BY <1>10, <1>19, <1>21, <2>2, <2>3, <2>6
<1>22. QED
  BY <1>20, <1>21

LEMMA MembersInitially == MembersInit => MembersInv
<1> SUFFICES ASSUME MembersInit PROVE MembersInv
  OBVIOUS
<1>1. /\ present \in SUBSET Contacts /\ nick \in Contacts \ present
      /\ here = FALSE /\ coming = <<>> /\ self_handle = nick
      /\ group = NoGroup
  BY MucMembersAssumption DEF MembersInit
<1>2. PICK a : a = [here |-> FALSE, nick |-> nick, present |-> {},
                    listing |-> FALSE, named |-> {}]
  OBVIOUS
<1>3. /\ a \in Views /\ ~a.here /\ ~a.listing /\ a.nick = nick
      /\ a.present = {} /\ a.named = {}
  BY <1>1, <1>2 DEF Views
<1>4. View(a)
  BY <1>3 DEF View
<1>5. AtServer(a)
  BY <1>1, <1>2, <1>3, <1>4 DEF AtServer
<1>6. Reaches(coming, a, a) /\ coming \in Seq(MemberMessages)
  BY <1>1, <1>3, ReachesNothing
<1>7. Knows(group, self_handle, a)
  BY <1>1, <1>3, <1>4, NoGroupKnows
<1>8. QED
  BY <1>1, <1>4, <1>5, <1>6, <1>7 DEF MembersInv

LEMMA MembersStep ==
    ASSUME MembersInv, [MembersNext]_membersVars
    PROVE  MembersInv'
<1>1. CASE JoinReceived \/ LeaveReceived \/ NickReceived \/ InviteReceived
           \/ NamesReceived \/ NamesEndReceived \/ ErrorReceived
  BY <1>1, JoinKnown, LeaveKnown, NickKnown, InviteKnown, NamesKnown,
     NamesEndKnown, ErrorKnown, Zenon
<1>2. CASE Request
  BY <1>2, RequestKnown
<1>3. CASE RemoveMember \/ CloseChannel \/ DestroyChannel
  BY <1>3, OtherCallsKnown
<1>4. ASSUME NEW n \in Contacts, AddMember(n) PROVE MembersInv'
  BY <1>4, AddMemberKnown
<1>5. CASE UserKicked
  BY <1>5, UserGoneKnown DEF UserKicked
<1>6. CASE UserParts
  BY <1>6, UserGoneKnown DEF UserParts, HandleNext
<1>7. CASE UserJoins
  BY <1>7, UserJoinsKnown
<1>8. CASE JoinRefused
  <2> DEFINE m == [code |-> "ERROR"]
  <2>1. m \in MemberMessages /\ m.code = "ERROR"
    BY DEF MemberMessages
  <2> HIDE DEF m
  <2>2. ~here /\ UNCHANGED <<here, nick, present>> /\ Sends(<<m>>)
    BY <1>8 DEF JoinRefused, HandleNext, m
  <2>3. QED
    BY <2>1, <2>2, AnsweredKnown
<1>9. CASE CommandIgnored
  <2>1. UNCHANGED <<here, nick, present, coming, self_handle, group>>
    BY <1>9 DEF CommandIgnored, HandleNext
  <2>2. ServerTypes' /\ \A b : AtServer(b) => AtServer(b)'
    BY <2>1 DEF MembersInv, ServerTypes, AtServer
  <2>3. QED
    BY <2>1, <2>2, UnsentKnown
<1>10. ASSUME NEW n \in Contacts, OtherJoins(n) PROVE MembersInv'
  BY <1>10, OtherJoinsKnown
<1>11. ASSUME NEW n \in Contacts, OtherLeaves(n) PROVE MembersInv'
  <2>1. n # nick /\ here \in BOOLEAN
    BY <1>11 DEF OtherLeaves, MembersInv
  <2>2. QED
    BY <1>11, <2>1, OtherGoneKnown DEF OtherLeaves
<1>12. ASSUME NEW n \in Contacts, OtherQuits(n) PROVE MembersInv'
  BY <1>12, OtherGoneKnown DEF OtherQuits
<1>13. ASSUME NEW n \in Contacts, UserRenamed(n) PROVE MembersInv'
  BY <1>13, UserRenamedKnown
<1>14. ASSUME NEW n \in Contacts, UserInvited(n) PROVE MembersInv'
  <2> DEFINE m == About("INVITE", n)
  <2>1. m \in MemberMessages /\ m.code = "INVITE" /\ m.nick = n
    BY AboutMessages
  <2> HIDE DEF m
  <2>2. /\ ~here /\ UNCHANGED <<here, nick, present>> /\ Sends(<<m>>)
        /\ n # nick
    BY <1>14 DEF UserInvited, serverVars, MembersInv, m
  <2>3. QED
    BY <2>1, <2>2, AnsweredKnown
<1>15. ASSUME NEW n \in Contacts, NEW m \in Contacts, NEW seen \in BOOLEAN,
              OtherRenamed(n, m, seen)
       PROVE  MembersInv'
  BY <1>15, OtherRenamedKnown
<1>16. CASE UNCHANGED membersVars
  <2>1. UNCHANGED <<here, nick, present, coming, self_handle, group>>
    BY <1>16 DEF membersVars, serverVars
  <2>2. ServerTypes' /\ \A b : AtServer(b) => AtServer(b)'
    BY <2>1 DEF MembersInv, ServerTypes, AtServer
  <2>3. QED
    BY <2>1, <2>2, UnsentKnown
<1>17. QED
  BY <1>1, <1>2, <1>3, <1>4, <1>5, <1>6, <1>7, <1>8, <1>9, <1>10, <1>11,
     <1>12, <1>13, <1>14, <1>15, <1>16, Zenon DEF MembersNext

(* MembersMirror: the user has the place in the channel that the channel's *)
(* state says, under the nickname of the moment, and when everything that  *)
(* the server sent is taken the channel has exactly the people of the room *)
(* and at most the one who invited the user besides                        *)
(* (idle_muc_channel_namereply_end(), idle_muc_channel_rename()), whoever  *)
(* came, went or took another name before the names came.                  *)
THEOREM MembersCorrect == RoomSpec => []MembersMirror
<1>1. RoomInit => MembersInv
  BY MembersInitially DEF RoomInit
<1>2. MembersInv /\ [RoomNext]_roomVars => MembersInv'
  <2> SUFFICES ASSUME MembersInv, [RoomNext]_roomVars PROVE MembersInv'
    OBVIOUS
  <2>1. [MembersNext]_membersVars
    BY DEF RoomNext, roomVars, membersVars
  <2>2. QED
    BY <2>1, MembersStep
<1>3. MembersInv => MembersMirror
  <2> SUFFICES ASSUME MembersInv PROVE MembersMirror
    OBVIOUS
  <2>1. PICK a, b : /\ View(a) /\ AtServer(b) /\ Reaches(coming, a, b)
                    /\ Knows(group, self_handle, a)
    BY DEF MembersInv
  <2>2. SelfHasItsPlace
    BY <2>1 DEF SelfHasItsPlace, Exists, Knows, Place
  <2>3. ASSUME coming = <<>>
        PROVE  /\ here <=> group.state = "JOINED"
               /\ here => /\ present \cup {nick} \subseteq group.members
                          /\ group.members \subseteq
                                 present \cup {nick, group.inviter}
    <3>1. a = b
      BY <2>1, <2>3, ReachesNothing DEF View
    <3>2. /\ ~a.listing /\ a.here = here /\ a.nick = nick
          /\ here => a.present = present
      BY <2>1, <3>1, AtServerParts
    <3>3. here <=> group.state = "JOINED"
      BY <2>1, <3>2 DEF Knows
    <3>4. ASSUME here
          PROVE  /\ present \cup {nick} \subseteq group.members
                 /\ group.members \subseteq present \cup {nick, group.inviter}
      <4>1. /\ Place(group, self_handle, a) /\ People(group, self_handle, a)
            /\ self_handle = nick
        BY <2>1, <3>2, <3>3, <3>4 DEF Knows
      <4>2. QED
        BY <3>2, <3>4, <4>1 DEF Place, People
    <3>5. QED
      BY <3>3, <3>4
  <2>4. QED
    BY <2>2, <2>3 DEF MembersMirror
<1>4. QED
  BY <1>1, <1>2, <1>3, PTL DEF RoomSpec

-----------------------------------------------------------------------------
(* The topic.                                                              *)
SubjectType ==
    [text : Texts \cup {""}, actor : Actors \cup {0},
     stamp : Stamps \cup {MAXINT64}]
TopicMessages == [code : {"TOPIC", "332", "333"}, topic : SubjectType]

SubjectTypeOK ==
    /\ topic \in SubjectType
    /\ topic.text = "" => topic.actor = 0
    /\ topics \in Seq(TopicMessages)
    /\ subject \in SubjectType
    /\ changed \in Seq(SubjectProperties)

(* A topic comes in two replies, which nothing separates and which come    *)
(* before any change of it; the last message is about the topic as it is.  *)
InTwoReplies ==
    \A i \in 1 .. Len(topics) :
        /\ topics[i].code = "332" =>
               /\ i = 1 /\ Len(topics) >= 2
               /\ topics[2].code = "333"
               /\ topics[2].topic = topics[1].topic
        /\ topics[i].code = "333" =>
               \/ i = 1 /\ subject.text = topics[1].topic.text
               \/ i = 2 /\ topics[1].code = "332"
        /\ topics[i].code # "TOPIC" => topics[i].topic.text # ""

LastIsTheTopic ==
    topics # <<>> =>
        LET last == topics[Len(topics)].topic
        IN  /\ last.text = topic.text
            /\ topic.actor = IF topic.text = "" THEN 0 ELSE last.actor

SubjectInv ==
    /\ SubjectTypeOK
    /\ InTwoReplies
    /\ LastIsTheTopic
    /\ topics = <<>> => subject.text = topic.text /\ subject.actor = topic.actor
    /\ told = ValueOf(subject)

(* What is written to the array is at its beginning.                       *)
LEMMA WrittenFirst ==
    ASSUME NEW S, NEW array \in Seq(S), NEW names \in Seq(S)
    PROVE  /\ Written(array, names) \in Seq(S)
           /\ \A i \in DOMAIN names :
                 /\ i \in DOMAIN Written(array, names)
                 /\ Written(array, names)[i] = names[i]
<1> DEFINE rest == SubSeq(array, Len(names) + 1, Len(array))
<1>1. Len(names) \in Nat /\ Len(array) \in Nat
  BY LenProperties
<1>2. \A i \in Len(names) + 1 .. Len(array) : array[i] \in S
  BY <1>1, ElementOfSeq
<1>3. rest \in Seq(S)
  BY <1>1, <1>2, SubSeqProperties
<1> HIDE DEF rest
<1>4. QED
  BY <1>1, <1>3, ConcatProperties, LenProperties DEF Written, rest

(* Every property whose value changes is written.                          *)
LEMMA ChangedByNames ==
    ASSUME NEW given \in BOOLEAN, NEW old \in SubjectType,
           NEW new \in SubjectType, given \/ new.text = old.text
    PROVE  /\ ChangedBy(given, old, new) \in Seq(SubjectProperties)
           /\ \A p \in SubjectProperties :
                 ValueOf(new)[p] # ValueOf(old)[p] =>
                    \E i \in DOMAIN ChangedBy(given, old, new) :
                       ChangedBy(given, old, new)[i] = p
<1> DEFINE a == IF given THEN <<"Subject">> ELSE <<>>
           b == IF new.stamp # old.stamp THEN <<"Timestamp">> ELSE <<>>
           c == IF new.actor # old.actor THEN <<"Actor", "ActorHandle">> ELSE <<>>
           all == ChangedBy(given, old, new)
<1>1. /\ a \in Seq(SubjectProperties)
      /\ given => Len(a) = 1 /\ a[1] = "Subject"
  <2>1. <<"Subject">> \in Seq(SubjectProperties)
    BY DEF SubjectProperties
  <2>2. CASE given
    BY <2>1, <2>2
  <2>3. CASE ~given
    BY <2>3
  <2>4. QED
    BY <2>2, <2>3
<1>2. /\ b \in Seq(SubjectProperties)
      /\ new.stamp # old.stamp => Len(b) = 1 /\ b[1] = "Timestamp"
  <2>1. <<"Timestamp">> \in Seq(SubjectProperties)
    BY DEF SubjectProperties
  <2>2. CASE new.stamp # old.stamp
    BY <2>1, <2>2
  <2>3. CASE new.stamp = old.stamp
    BY <2>3
  <2>4. QED
    BY <2>2, <2>3
<1>3. /\ c \in Seq(SubjectProperties)
      /\ new.actor # old.actor =>
             Len(c) = 2 /\ c[1] = "Actor" /\ c[2] = "ActorHandle"
  <2>1. <<"Actor", "ActorHandle">> \in Seq(SubjectProperties)
    BY DEF SubjectProperties
  <2>2. CASE new.actor # old.actor
    BY <2>1, <2>2
  <2>3. CASE new.actor = old.actor
    BY <2>3
  <2>4. QED
    BY <2>2, <2>3
<1>4. all = (a \o b) \o c
  BY DEF ChangedBy
<1> HIDE DEF a, b, c, all
<1>5. \A i \in 1 .. Len(a) + Len(b) :
         (a \o b)[i] = IF i <= Len(a) THEN a[i] ELSE b[i - Len(a)]
  BY <1>1, <1>2, ConcatProperties
<1>6. /\ Len(a) \in Nat /\ Len(b) \in Nat /\ Len(c) \in Nat
      /\ a \o b \in Seq(SubjectProperties)
      /\ Len(a \o b) = Len(a) + Len(b)
  BY <1>1, <1>2, <1>3, ConcatProperties, LenProperties
<1>7. /\ all \in Seq(SubjectProperties)
      /\ DOMAIN all = 1 .. Len(a) + Len(b) + Len(c)
      /\ \A i \in 1 .. Len(a) + Len(b) + Len(c) :
            all[i] = IF i <= Len(a) + Len(b) THEN (a \o b)[i]
                     ELSE c[i - (Len(a) + Len(b))]
  BY <1>3, <1>4, <1>6, ConcatProperties, LenProperties
<1>8. /\ \A i \in 1 .. Len(a) : all[i] = a[i]
      /\ \A i \in 1 .. Len(b) : all[Len(a) + i] = b[i]
      /\ \A i \in 1 .. Len(c) : all[Len(a) + Len(b) + i] = c[i]
  <2>1. \A i \in 1 .. Len(a) : all[i] = a[i]
    BY <1>5, <1>6, <1>7
  <2>2. ASSUME NEW i \in 1 .. Len(b) PROVE all[Len(a) + i] = b[i]
    <3>1. /\ Len(a) + i \in 1 .. Len(a) + Len(b) + Len(c)
          /\ Len(a) + i \in 1 .. Len(a) + Len(b)
          /\ ~(Len(a) + i <= Len(a)) /\ Len(a) + i <= Len(a) + Len(b)
          /\ (Len(a) + i) - Len(a) = i
      BY <1>6
    <3>2. QED
      BY <3>1, <1>5, <1>7
  <2>3. ASSUME NEW i \in 1 .. Len(c) PROVE all[Len(a) + Len(b) + i] = c[i]
    <3>1. /\ Len(a) + Len(b) + i \in 1 .. Len(a) + Len(b) + Len(c)
          /\ ~(Len(a) + Len(b) + i <= Len(a) + Len(b))
          /\ (Len(a) + Len(b) + i) - (Len(a) + Len(b)) = i
      BY <1>6
    <3>2. QED
      BY <3>1, <1>7
  <2>4. QED
    BY <2>1, <2>2, <2>3
<1>9. /\ given => \E i \in DOMAIN all : all[i] = "Subject"
      /\ new.stamp # old.stamp => \E i \in DOMAIN all : all[i] = "Timestamp"
      /\ new.actor # old.actor =>
             /\ \E i \in DOMAIN all : all[i] = "Actor"
             /\ \E i \in DOMAIN all : all[i] = "ActorHandle"
  <2>1. ASSUME given PROVE 1 \in DOMAIN all /\ all[1] = "Subject"
    <3>1. Len(a) = 1 /\ a[1] = "Subject"
      BY <1>1, <2>1, Zenon
    <3>2. QED
      BY <3>1, <1>6, <1>7, <1>8
  <2>2. ASSUME new.stamp # old.stamp
        PROVE  Len(a) + 1 \in DOMAIN all /\ all[Len(a) + 1] = "Timestamp"
    <3> Len(b) = 1 /\ b[1] = "Timestamp"
      BY <1>2, <2>2, Zenon
    <3>1. 1 \in 1 .. Len(b) /\ b[1] = "Timestamp"
      OBVIOUS
    <3>2. all[Len(a) + 1] = b[1]
      BY <3>1, <1>8
    <3>3. QED
      BY <3>1, <3>2, <1>6, <1>7
  <2>3. ASSUME new.actor # old.actor
        PROVE  /\ Len(a) + Len(b) + 1 \in DOMAIN all
               /\ Len(a) + Len(b) + 2 \in DOMAIN all
               /\ all[Len(a) + Len(b) + 1] = "Actor"
               /\ all[Len(a) + Len(b) + 2] = "ActorHandle"
    <3> Len(c) = 2 /\ c[1] = "Actor" /\ c[2] = "ActorHandle"
      BY <1>3, <2>3, Zenon
    <3>1. 1 \in 1 .. Len(c) /\ 2 \in 1 .. Len(c)
      OBVIOUS
    <3>2. /\ all[Len(a) + Len(b) + 1] = c[1]
          /\ all[Len(a) + Len(b) + 2] = c[2]
      BY <3>1, <1>8
    <3>3. Len(a) + Len(b) + 1 \in DOMAIN all /\ Len(a) + Len(b) + 2 \in DOMAIN all
      BY <3>1, <1>6, <1>7
    <3>4. QED
      BY <3>2, <3>3, <1>3, <2>3
  <2>4. QED
    BY <2>1, <2>2, <2>3, Zenon
<1>10. QED
  BY <1>7, <1>9 DEF ValueOf, SubjectProperties, all

LEMMA TopicFullTells ==
    ASSUME SubjectInv, NEW given \in BOOLEAN, NEW new \in SubjectType,
           given \/ new.text = subject.text, TopicFull(given, new)
    PROVE  /\ subject' = new
           /\ changed' \in Seq(SubjectProperties)
           /\ told' = ValueOf(new)
<1> DEFINE names == ChangedBy(given, subject, new)
<1>1. names \in Seq(SubjectProperties) /\ changed \in Seq(SubjectProperties)
  BY ChangedByNames DEF SubjectInv, SubjectTypeOK
<1>2. changed' = Written(changed, names)
  BY DEF TopicFull
<1>3. \A p \in SubjectProperties : ValueOf(new)[p] # told[p] =>
         \E i \in DOMAIN names : names[i] = p
  BY ChangedByNames DEF SubjectInv, SubjectTypeOK
<1> HIDE DEF names
<1>4. /\ changed' \in Seq(SubjectProperties)
      /\ \A i \in DOMAIN names : i \in DOMAIN changed' /\ changed'[i] = names[i]
  BY <1>1, <1>2, WrittenFirst
<1>5. \A p \in SubjectProperties : told'[p] = ValueOf(new)[p]
  BY <1>3, <1>4 DEF TopicFull
<1>6. QED
  BY <1>4, <1>5 DEF TopicFull, ValueOf

(* A channel that is new is to be told all of the topic.                   *)
EmptySubject ==
    /\ topic \in SubjectType
    /\ topic.text = "" => topic.actor = 0
    /\ topics = TopicReplies
    /\ subject = NoTopic
    /\ changed \in Seq(SubjectProperties)
    /\ told = ValueOf(NoTopic)

LEMMA NewChannelInv == EmptySubject => SubjectInv
<1> SUFFICES ASSUME EmptySubject PROVE SubjectInv
  OBVIOUS
<1>0. /\ topic \in SubjectType /\ changed \in Seq(SubjectProperties)
      /\ topic.text = "" => topic.actor = 0
      /\ topics = TopicReplies /\ subject = NoTopic /\ told = ValueOf(NoTopic)
  BY DEF EmptySubject
<1>1. NoTopic \in SubjectType /\ NoTopic.text = "" /\ NoTopic.actor = 0
  BY DEF SubjectType, NoTopic, Topic
<1>2. CASE topic.text = ""
  <2>1. topics = <<>>
    BY <1>0, <1>2 DEF TopicReplies
  <2>2. topics \in Seq(TopicMessages) /\ Len(topics) = 0
    BY <2>1
  <2>3. InTwoReplies
    <3>1. \A i \in 1 .. Len(topics) : FALSE
      BY <2>2
    <3>2. QED
      BY <3>1 DEF InTwoReplies
  <2>4. LastIsTheTopic
    BY <2>1 DEF LastIsTheTopic
  <2>5. subject.text = topic.text /\ subject.actor = topic.actor
    BY <1>0, <1>1, <1>2
  <2>6. SubjectTypeOK
    BY <1>0, <1>1, <2>2 DEF SubjectTypeOK
  <2>7. QED
    BY <1>0, <2>3, <2>4, <2>5, <2>6 DEF SubjectInv
<1>3. CASE topic.text # ""
  <2>1. topics = <<[code |-> "332", topic |-> topic],
                   [code |-> "333", topic |-> topic]>>
    BY <1>0, <1>3 DEF TopicReplies
  <2>2. /\ [code |-> "332", topic |-> topic] \in TopicMessages
        /\ [code |-> "333", topic |-> topic] \in TopicMessages
    BY <1>0 DEF TopicMessages
  <2>3. topics \in Seq(TopicMessages) /\ Len(topics) = 2
    BY <2>1, <2>2
  <2>4. InTwoReplies
    <3>1. /\ topics[1].code = "332" /\ topics[1].topic = topic
          /\ topics[2].code = "333" /\ topics[2].topic = topic
      BY <2>1
    <3>2. \A i \in 1 .. Len(topics) : i = 1 \/ i = 2
      BY <2>3
    <3>3. Len(topics) >= 2
      BY <2>3
    <3>4. \A i \in 1 .. Len(topics) :
             /\ topics[i].code = "332" <=> i = 1
             /\ topics[i].code = "333" <=> i = 2
             /\ topics[i].topic = topic
      BY <3>1, <3>2
    <3>5. QED
      BY <3>1, <3>3, <3>4, <1>3 DEF InTwoReplies
  <2>5. LastIsTheTopic
    <3>1. topics[2].topic = topic
      BY <2>1
    <3>2. QED
      BY <2>3, <3>1, <1>3 DEF LastIsTheTopic
  <2>6. topics # <<>>
    BY <2>3, EmptySeq
  <2>7. SubjectTypeOK
    BY <1>0, <1>1, <2>3 DEF SubjectTypeOK
  <2>8. QED
    BY <1>0, <2>4, <2>5, <2>6, <2>7 DEF SubjectInv
<1>4. QED
  BY <1>2, <1>3

LEMMA SubjectInitially == SubjectInit => SubjectInv
<1> SUFFICES ASSUME SubjectInit PROVE SubjectInv
  OBVIOUS
<1>1. \/ topic = NoTopic
      \/ \E x \in Texts, a \in Actors, s \in Stamps : topic = Topic(x, a, s)
  BY DEF SubjectInit
<1>2. NoTopic \in SubjectType /\ NoTopic.actor = 0
  BY DEF SubjectType, NoTopic, Topic
<1>3. ASSUME NEW x \in Texts, NEW a \in Actors, NEW s \in Stamps
      PROVE  Topic(x, a, s) \in SubjectType /\ Topic(x, a, s).text # ""
  BY MucSubjectAssumption DEF SubjectType, Topic
<1>4. topic \in SubjectType /\ (topic.text = "" => topic.actor = 0)
  BY <1>1, <1>2, <1>3
<1>5. EmptySubject
  <2>1. /\ topics = TopicReplies /\ subject = NoTopic /\ changed = <<>>
        /\ told = ValueOf(NoTopic)
    BY DEF SubjectInit
  <2>2. changed \in Seq(SubjectProperties)
    BY <2>1
  <2>3. QED
    BY <1>4, <2>1, <2>2 DEF EmptySubject
<1>6. QED
  BY <1>5, NewChannelInv

LEMMA ReceivedFirst ==
    ASSUME SubjectInv, NEW code, Received(code)
    PROVE  /\ Len(topics) \in Nat \ {0} /\ topics[1] \in TopicMessages
           /\ topics[1].code = code /\ Head(topics) = topics[1]
           /\ topics' \in Seq(TopicMessages)
           /\ Len(topics') = Len(topics) - 1
           /\ \A i \in 1 .. Len(topics') : topics'[i] = topics[i + 1]
           /\ topic' = topic
           /\ topics' = <<>> <=> Len(topics) = 1
<1>1. topics \in Seq(TopicMessages) /\ topics # <<>>
  BY DEF SubjectInv, SubjectTypeOK, Received
<1>2. Len(topics) \in Nat \ {0}
  BY <1>1, EmptySeq
<1>3. topics[1] \in TopicMessages
  BY <1>1, <1>2, ElementOfSeq
<1>4. /\ Tail(topics) \in Seq(TopicMessages)
      /\ Len(Tail(topics)) = Len(topics) - 1
      /\ \A i \in 1 .. Len(Tail(topics)) : Tail(topics)[i] = topics[i + 1]
  BY <1>1, HeadTailProperties
<1>5. Head(topics) = topics[1]
  BY <1>1
<1>6. Tail(topics) = <<>> <=> Len(topics) = 1
  <2>1. Tail(topics) = <<>> <=> Len(Tail(topics)) = 0
    BY <1>4, EmptySeq
  <2>2. QED
    BY <1>2, <1>4, <2>1
<1>7. QED
  BY <1>2, <1>3, <1>4, <1>5, <1>6 DEF Received

(* What a message does to the invariant, but for the subject.              *)
LEMMA ReceivedKeeps ==
    ASSUME SubjectInv, NEW code, Received(code),
           code = "333" => subject'.text = subject.text,
           code = "332" => subject'.text = topics[1].topic.text
    PROVE  InTwoReplies' /\ LastIsTheTopic'
<1>1. InTwoReplies'
  <2> SUFFICES ASSUME NEW i \in 1 .. Len(topics')
               PROVE  /\ topics'[i].code = "332" => FALSE
                      /\ topics'[i].code = "333" =>
                             i = 1 /\ subject'.text = topics'[1].topic.text
                      /\ topics'[i].code # "TOPIC" => topics'[i].topic.text # ""
    BY DEF InTwoReplies
  <2>1. /\ i + 1 \in 1 .. Len(topics) /\ i + 1 # 1
        /\ topics'[i] = topics[i + 1] /\ 1 \in 1 .. Len(topics)
        /\ Len(topics) \in Nat
    BY ReceivedFirst
  <2>2. /\ topics[i + 1].code # "332"
        /\ topics[i + 1].code # "TOPIC" => topics[i + 1].topic.text # ""
    BY <2>1 DEF SubjectInv, InTwoReplies
  <2>3. ASSUME topics[i + 1].code = "333"
        PROVE  i = 1 /\ subject'.text = topics'[1].topic.text
    <3>1. i + 1 = 2 /\ topics[1].code = "332"
      BY <2>1, <2>3 DEF SubjectInv, InTwoReplies
    <3>2. topics[2].topic = topics[1].topic
      BY <2>1, <3>1 DEF SubjectInv, InTwoReplies
    <3>3. code = "332" /\ i = 1
      BY <3>1, ReceivedFirst
    <3>4. QED
      BY <2>1, <3>2, <3>3
  <2>4. QED
    BY <2>1, <2>2, <2>3
<1>2. LastIsTheTopic'
  <2> SUFFICES ASSUME topics' # <<>>
               PROVE  /\ topics'[Len(topics')].topic.text = topic'.text
                      /\ topic'.actor = IF topic'.text = "" THEN 0
                                        ELSE topics'[Len(topics')].topic.actor
    BY DEF LastIsTheTopic
  <2>1. Len(topics') \in 1 .. Len(topics') /\ Len(topics') + 1 = Len(topics)
    BY ReceivedFirst
  <2>2. topics'[Len(topics')] = topics[Len(topics)] /\ topics # <<>>
    BY <2>1, ReceivedFirst DEF Received
  <2>3. QED
    BY <2>2, ReceivedFirst DEF SubjectInv, LastIsTheTopic
<1>3. QED
  BY <1>1, <1>2

LEMMA SentLast ==
    ASSUME topics \in Seq(TopicMessages), NEW m \in TopicMessages,
           topics' = Append(topics, m)
    PROVE  /\ topics' \in Seq(TopicMessages) /\ topics' # <<>>
           /\ Len(topics') = Len(topics) + 1 /\ Len(topics) \in Nat
           /\ topics'[Len(topics')] = m
           /\ \A i \in 1 .. Len(topics) : topics'[i] = topics[i]
  BY Appended

LEMMA AnotherTopic ==
    ASSUME InTwoReplies, topics \in Seq(TopicMessages),
           NEW m \in TopicMessages, m.code = "TOPIC",
           topics' = Append(topics, m), subject' = subject
    PROVE  InTwoReplies'
<1>1. ASSUME NEW i \in 1 .. Len(topics')
      PROVE  /\ topics'[i].code = "332" =>
                    /\ i = 1 /\ Len(topics') >= 2
                    /\ topics'[2].code = "333"
                    /\ topics'[2].topic = topics'[1].topic
             /\ topics'[i].code = "333" =>
                    \/ i = 1 /\ subject'.text = topics'[1].topic.text
                    \/ i = 2 /\ topics'[1].code = "332"
             /\ topics'[i].code # "TOPIC" => topics'[i].topic.text # ""
  <2>1. CASE i = Len(topics')
    <3>1. topics'[i] = m
      BY <2>1, SentLast
    <3>2. QED
      BY <3>1
  <2>2. CASE i # Len(topics')
    <3>1. i \in 1 .. Len(topics) /\ topics'[i] = topics[i]
      BY <2>2, SentLast
    <3>2. /\ topics[i].code = "332" =>
                 /\ i = 1 /\ Len(topics) >= 2
                 /\ topics[2].code = "333"
                 /\ topics[2].topic = topics[1].topic
          /\ topics[i].code = "333" =>
                 \/ i = 1 /\ subject.text = topics[1].topic.text
                 \/ i = 2 /\ topics[1].code = "332"
          /\ topics[i].code # "TOPIC" => topics[i].topic.text # ""
      BY <3>1 DEF InTwoReplies
    <3>3. 1 \in 1 .. Len(topics) /\ topics'[1] = topics[1]
      BY <3>1, SentLast
    <3>4. Len(topics) >= 2 => topics'[2] = topics[2] /\ Len(topics') >= 2
      BY SentLast
    <3>5. QED
      BY <3>1, <3>2, <3>3, <3>4
  <2>3. QED
    BY <2>1, <2>2
<1>2. QED
  BY <1>1 DEF InTwoReplies

LEMMA SubjectStep == SubjectInv /\ [SubjectNext]_subjectVars => SubjectInv'
<1> SUFFICES ASSUME SubjectInv, [SubjectNext]_subjectVars PROVE SubjectInv'
  OBVIOUS
<1>0. SubjectTypeOK /\ InTwoReplies /\ LastIsTheTopic /\ told = ValueOf(subject)
  BY DEF SubjectInv
<1>1. ASSUME NEW now \in Stamps, TopicSet(now) PROVE SubjectInv'
  <2> DEFINE t == topics[1].topic
             new == IF t.text = "" THEN NoTopic ELSE Topic(t.text, t.actor, now)
  <2>1. Received("TOPIC") /\ TopicFull(TRUE, new)
    BY <1>1, ReceivedFirst DEF TopicSet
  <2>2. t \in SubjectType
    BY <2>1, ReceivedFirst DEF TopicMessages
  <2>3. new \in SubjectType
    BY <2>2 DEF SubjectType, Topic, NoTopic
  <2> HIDE DEF new
  <2>4. subject' = new /\ changed' \in Seq(SubjectProperties) /\ told' = ValueOf(new)
    BY <2>1, <2>3, TopicFullTells
  <2>5. InTwoReplies' /\ LastIsTheTopic'
    BY <2>1, ReceivedKeeps
  <2>6. ASSUME topics' = <<>>
        PROVE  subject'.text = topic'.text /\ subject'.actor = topic'.actor
    <3>1. /\ t.text = topic.text
          /\ topic.actor = IF topic.text = "" THEN 0 ELSE t.actor
      BY <2>1, <2>6, <1>0, ReceivedFirst DEF LastIsTheTopic, Received
    <3>2. QED
      BY <3>1, <2>1, <2>4, ReceivedFirst DEF new, Topic, NoTopic
  <2>7. SubjectTypeOK'
    BY <1>0, <2>1, <2>3, <2>4, ReceivedFirst DEF SubjectTypeOK
  <2>8. QED
    BY <2>4, <2>5, <2>6, <2>7 DEF SubjectInv
<1>2. ASSUME TopicReply PROVE SubjectInv'
  <2> DEFINE new == [subject EXCEPT !.text = topics[1].topic.text]
  <2>1. Received("332") /\ TopicFull(TRUE, new)
    BY <1>2, ReceivedFirst DEF TopicReply
  <2>2. topics[1].topic \in SubjectType
    BY <2>1, ReceivedFirst DEF TopicMessages
  <2>3. new \in SubjectType /\ new.text = topics[1].topic.text
    BY <1>0, <2>2 DEF SubjectTypeOK, SubjectType
  <2> HIDE DEF new
  <2>4. subject' = new /\ changed' \in Seq(SubjectProperties) /\ told' = ValueOf(new)
    BY <2>1, <2>3, TopicFullTells
  <2>5. InTwoReplies' /\ LastIsTheTopic'
    BY <2>1, <2>3, <2>4, ReceivedKeeps
  <2>6. topics' # <<>>
    <3>1. topics[1].code = "332" /\ 1 \in 1 .. Len(topics)
      BY <2>1, ReceivedFirst
    <3>2. Len(topics) >= 2
      BY <1>0, <3>1 DEF InTwoReplies
    <3>3. QED
      BY <2>1, <3>2, ReceivedFirst
  <2>7. SubjectTypeOK'
    BY <1>0, <2>1, <2>3, <2>4, ReceivedFirst DEF SubjectTypeOK
  <2>8. QED
    BY <2>4, <2>5, <2>6, <2>7 DEF SubjectInv
<1>3. ASSUME TopicStampReply PROVE SubjectInv'
  <2> DEFINE t == topics[1].topic
             new == [t EXCEPT !.text = subject.text]
  <2>1. Received("333") /\ TopicFull(FALSE, new)
    BY <1>3, ReceivedFirst DEF TopicStampReply
  <2>2. t \in SubjectType
    BY <2>1, ReceivedFirst DEF TopicMessages
  <2>3. new \in SubjectType /\ new.text = subject.text /\ new.actor = t.actor
    BY <1>0, <2>2 DEF SubjectTypeOK, SubjectType
  <2>4. t.text # "" /\ t.text = subject.text
    <3>1. topics[1].code = "333" /\ 1 \in 1 .. Len(topics)
      BY <2>1, ReceivedFirst
    <3>2. QED
      BY <1>0, <3>1 DEF InTwoReplies
  <2> HIDE DEF new
  <2>5. subject' = new /\ changed' \in Seq(SubjectProperties) /\ told' = ValueOf(new)
    BY <2>1, <2>3, TopicFullTells
  <2>6. InTwoReplies' /\ LastIsTheTopic'
    BY <2>1, <2>3, <2>5, ReceivedKeeps
  <2>7. ASSUME topics' = <<>>
        PROVE  subject'.text = topic'.text /\ subject'.actor = topic'.actor
    <3>1. /\ t.text = topic.text
          /\ topic.actor = IF topic.text = "" THEN 0 ELSE t.actor
      BY <2>1, <2>7, <1>0, ReceivedFirst DEF LastIsTheTopic, Received
    <3>2. QED
      BY <3>1, <2>1, <2>3, <2>4, <2>5, ReceivedFirst
  <2>8. SubjectTypeOK'
    BY <1>0, <2>1, <2>3, <2>5, ReceivedFirst DEF SubjectTypeOK
  <2>9. QED
    BY <2>5, <2>6, <2>7, <2>8 DEF SubjectInv
<1>4. ASSUME NEW text \in Texts \cup {""}, NEW actor \in Actors,
             NEW stamp \in Stamps, TopicOnServer(text, actor, stamp)
      PROVE  SubjectInv'
  <2> DEFINE m == [code |-> "TOPIC", topic |-> Topic(text, actor, stamp)]
  <2>1. /\ topic' = IF text = "" THEN NoTopic ELSE Topic(text, actor, stamp)
        /\ topics' = Append(topics, m)
        /\ UNCHANGED <<subject, changed, told>>
    BY <1>4 DEF TopicOnServer
  <2>2. topic' \in SubjectType /\ m \in TopicMessages
    BY <2>1 DEF SubjectType, TopicMessages, Topic, NoTopic
  <2>3. /\ m.code = "TOPIC" /\ m.topic.text = text /\ m.topic.actor = actor
        /\ topic'.text = text
        /\ topic'.actor = IF text = "" THEN 0 ELSE actor
    BY <2>1 DEF Topic, NoTopic
  <2> HIDE DEF m
  <2>4. /\ topics' \in Seq(TopicMessages) /\ topics' # <<>>
        /\ Len(topics') = Len(topics) + 1 /\ Len(topics) \in Nat
        /\ topics'[Len(topics')] = m
        /\ \A i \in 1 .. Len(topics) : topics'[i] = topics[i]
    <3>1. topics \in Seq(TopicMessages) /\ m \in TopicMessages
      BY <1>0, <2>2 DEF SubjectTypeOK
    <3>2. topics' = Append(topics, m)
      BY <2>1
    <3>3. QED
      BY <3>1, <3>2, SentLast
  <2>5. InTwoReplies'
    BY <1>0, <2>1, <2>2, <2>3, AnotherTopic DEF SubjectTypeOK
  <2>6. LastIsTheTopic'
    BY <2>3, <2>4 DEF LastIsTheTopic
  <2>7. SubjectTypeOK'
    BY <1>0, <2>1, <2>2, <2>3, <2>4 DEF SubjectTypeOK
  <2>8. told' = ValueOf(subject')
    BY <1>0, <2>1
  <2>9. QED
    BY <2>4, <2>5, <2>6, <2>7, <2>8 DEF SubjectInv
<1>5. ASSUME RoomJoinedAgain PROVE SubjectInv'
  <2>1. /\ topics = <<>> /\ topics' = TopicReplies /\ UNCHANGED <<topic, changed>>
        /\ subject' = NoTopic /\ told' = ValueOf(NoTopic)
    BY <1>5 DEF RoomJoinedAgain, NewSubject
  <2>2. EmptySubject'
    <3>1. topics' = TopicReplies'
      BY <2>1 DEF TopicReplies
    <3>2. /\ topic' \in SubjectType /\ (topic'.text = "" => topic'.actor = 0)
          /\ changed' \in Seq(SubjectProperties)
      BY <1>0, <2>1 DEF SubjectTypeOK
    <3>3. QED
      BY <2>1, <3>1, <3>2 DEF EmptySubject
  <2>3. QED
    BY <2>2, NewChannelInv, PTL
<1>6. ASSUME UNCHANGED subjectVars PROVE SubjectInv'
  <2>1. SubjectTypeOK' /\ InTwoReplies' /\ LastIsTheTopic'
    BY <1>0, <1>6 DEF subjectVars, SubjectTypeOK, InTwoReplies, LastIsTheTopic
  <2>2. told' = ValueOf(subject')
    BY <1>0, <1>6 DEF subjectVars
  <2>3. QED
    BY <1>6, <2>1, <2>2 DEF SubjectInv, subjectVars
<1>7. QED
  BY <1>1, <1>2, <1>3, <1>4, <1>5, <1>6 DEF SubjectNext, subjectVars

(* SubjectFollows: clients know the subject of a room, who set it and when *)
(* (idle_muc_channel_topic_full()), and when all that the server sent is   *)
(* taken it is the topic of the room, who set it included.                 *)
THEOREM SubjectCorrect == RoomSpec => []SubjectFollows
<1>1. RoomInit => SubjectInv
  BY SubjectInitially DEF RoomInit
<1>2. SubjectInv /\ [RoomNext]_roomVars => SubjectInv'
  <2> SUFFICES ASSUME SubjectInv, [RoomNext]_roomVars PROVE SubjectInv'
    OBVIOUS
  <2>1. [SubjectNext]_subjectVars
    BY DEF RoomNext, roomVars, subjectVars
  <2>2. QED
    BY <2>1, SubjectStep
<1>3. SubjectInv => SubjectFollows
  BY DEF SubjectInv, SubjectFollows
<1>4. QED
  BY <1>1, <1>2, <1>3, PTL DEF RoomSpec
================================================================================
