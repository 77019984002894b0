--------------------------- MODULE MucManagerProofs ---------------------------
(***************************************************************************)
(* Proofs about MucManager: its types, and that requests are answered once,*)
(* that a room the user is in has a joined channel, and that clients are   *)
(* asked for passwords and told of channels when they should be.           *)
(*                                                                         *)
(* Most of it is about one channel at a time: ChannelOK is kept by every   *)
(* function of a channel, and so is what is Due to a token, the replies it *)
(* has had and the one it waits for.                                       *)
(***************************************************************************)
EXTENDS MucManager, TLAPS

Due(c, t) == c.replies[t] + (IF t \in c.tokens THEN 1 ELSE 0)
SameDue(c, d) == \A t \in Tokens : Due(d, t) = Due(c, t)

(* What holds of the channel of a room, invited telling whether somebody   *)
(* may invite the user there.                                              *)
PromptOK(c) ==
    /\ Exists(c) => c.self \in {"remote", "member"}
    /\ c.prompt <=> c.state = "NEED_PASSWORD"
    /\ c.passwd_ctx => c.prompt
AnnouncedOK(c) ==
    c.announced = IF Exists(c) /\ c.join_ready THEN 1 ELSE 0

ChannelOK(c, invited) ==
    /\ c \in ChannelType
    /\ ~Exists(c) => c = NoChannel(c.replies)
    /\ c.tokens # {} => ~c.join_ready
    /\ c.state \in {"NEED_PASSWORD", "JOINED"} => c.join_ready
    /\ c.state = "JOINED" => c.self = "member"
    /\ ~invited => PromptOK(c) /\ AnnouncedOK(c)

-----------------------------------------------------------------------------
(* The functions of a channel, field by field.  In between a channel may   *)
(* be MUC_STATE_PARTED.                                                    *)
WideType ==
    [state : {"none", "CREATED", "JOINING", "NEED_PASSWORD", "JOINED", "PARTED"},
     join_ready : BOOLEAN,
     self : {"none", "local", "remote", "member"},
     prompt : BOOLEAN,
     passwd_ctx : BOOLEAN,
     tokens : SUBSET Tokens,
     announced : Nat,
     refused : BOOLEAN,
     unheard : BOOLEAN,
     replies : [Tokens -> Nat]]

LEMMA WideEnough ==
    /\ ChannelType \subseteq WideType
    /\ \A c \in WideType : c.state # "PARTED" => c \in ChannelType
BY DEF ChannelType, WideType

LEMMA ReplyFields ==
    ASSUME NEW c \in WideType, NEW ts \in SUBSET Tokens
    PROVE  LET d == Reply(c, ts)
           IN  /\ d \in WideType
               /\ d.state = c.state /\ d.self = c.self
               /\ d.join_ready <=> c.join_ready
               /\ d.prompt <=> c.prompt
               /\ d.passwd_ctx <=> c.passwd_ctx
               /\ d.tokens = c.tokens
               /\ d.announced = c.announced
               /\ \A t \in Tokens :
                     d.replies[t] = c.replies[t]
                                    + (IF t \in ts THEN 1 ELSE 0)
<1>1. [t \in Tokens |-> c.replies[t] + (IF t \in ts THEN 1 ELSE 0)]
          \in [Tokens -> Nat]
  BY DEF WideType
<1> QED
  BY <1>1 DEF Reply, WideType

LEMMA TakeTokensFields ==
    ASSUME NEW c \in WideType
    PROVE  LET d == TakeTokens(c)
           IN  /\ d \in WideType
               /\ d.state = c.state /\ d.self = c.self
               /\ d.join_ready <=> c.join_ready
               /\ d.prompt <=> c.prompt
               /\ d.passwd_ctx <=> c.passwd_ctx
               /\ d.tokens = {}
               /\ d.announced = c.announced
               /\ SameDue(c, d)
<1> DEFINE e == Reply(c, c.tokens)
<1>1. c.tokens \in SUBSET Tokens
  BY DEF WideType
<1>2. /\ e \in WideType
      /\ e.state = c.state /\ e.self = c.self
      /\ e.join_ready <=> c.join_ready
      /\ e.prompt <=> c.prompt
      /\ e.passwd_ctx <=> c.passwd_ctx
      /\ e.announced = c.announced
      /\ \A t \in Tokens :
            e.replies[t] = c.replies[t] + (IF t \in c.tokens THEN 1 ELSE 0)
  BY <1>1, ReplyFields
<1> HIDE DEF e
<1>3. TakeTokens(c) = [e EXCEPT !.tokens = {}]
  BY DEF TakeTokens, e
<1> DEFINE d == [e EXCEPT !.tokens = {}]
<1>4. /\ d \in WideType
      /\ d.state = e.state /\ d.self = e.self
      /\ d.join_ready = e.join_ready /\ d.prompt = e.prompt
      /\ d.passwd_ctx = e.passwd_ctx /\ d.announced = e.announced
      /\ d.tokens = {} /\ d.replies = e.replies
  BY <1>2 DEF WideType
<1>5. SameDue(c, d)
  <2> SUFFICES ASSUME NEW t \in Tokens PROVE Due(d, t) = Due(c, t)
    BY DEF SameDue
  <2>1. d.replies[t] \in Nat
    BY <1>4 DEF WideType
  <2> QED
    BY <1>2, <1>4, <2>1 DEF Due
<1> QED
  BY <1>2, <1>3, <1>4, <1>5

LEMMA JoinReadyFields ==
    ASSUME NEW c \in WideType
    PROVE  LET d == JoinReady(c)
           IN  /\ d \in WideType
               /\ d.state = c.state /\ d.self = c.self
               /\ d.join_ready
               /\ d.prompt <=> c.prompt
               /\ d.passwd_ctx <=> c.passwd_ctx
               /\ d.tokens = {}
               /\ d.announced = c.announced + 1
               /\ SameDue(c, d)
<1> DEFINE e == TakeTokens(c)
           f == [e EXCEPT !.announced = @ + 1]
           d == [f EXCEPT !.join_ready = TRUE]
<1>1. /\ e \in WideType
      /\ e.state = c.state /\ e.self = c.self
      /\ e.prompt <=> c.prompt
      /\ e.passwd_ctx <=> c.passwd_ctx
      /\ e.tokens = {}
      /\ e.announced = c.announced
      /\ SameDue(c, e)
  BY TakeTokensFields
<1>2. JoinReady(c) = d
  BY DEF JoinReady, Announce
<1> HIDE DEF e
<1>3. /\ f \in WideType
      /\ f.state = e.state /\ f.self = e.self /\ f.prompt = e.prompt
      /\ f.passwd_ctx = e.passwd_ctx /\ f.announced = e.announced + 1
      /\ f.tokens = e.tokens /\ f.replies = e.replies
  BY <1>1 DEF WideType
<1> HIDE DEF f
<1>4. /\ d \in WideType /\ d.join_ready
      /\ d.state = f.state /\ d.self = f.self /\ d.prompt = f.prompt
      /\ d.passwd_ctx = f.passwd_ctx /\ d.announced = f.announced
      /\ d.tokens = f.tokens /\ d.replies = f.replies
  BY <1>3 DEF WideType
<1>5. SameDue(c, d)
  BY <1>1, <1>3, <1>4 DEF SameDue, Due
<1> QED
  BY <1>1, <1>2, <1>3, <1>4, <1>5

(* change_state(): the channel becomes ready, if it was not, or its        *)
(* announcements and tokens stay.                                          *)
MakesReady(c, s) ==
    s \in {"NEED_PASSWORD", "JOINED", "PARTED"} /\ ~c.join_ready

LEMMA ChangeStateFields ==
    ASSUME NEW c \in WideType,
           NEW s \in {"JOINING", "NEED_PASSWORD", "JOINED", "PARTED"}
    PROVE  LET d == ChangeState(c, s)
           IN  /\ d \in WideType
               /\ d.state = s /\ d.self = c.self
               /\ d.join_ready <=> c.join_ready \/ MakesReady(c, s)
               /\ d.prompt <=> PromptAfter(c, s)
               /\ d.passwd_ctx <=> ContextAfter(c, s)
               /\ d.tokens = IF MakesReady(c, s) THEN {} ELSE c.tokens
               /\ d.announced = IF MakesReady(c, s) THEN c.announced + 1
                                ELSE c.announced
               /\ SameDue(c, d)
<1> DEFINE e == IF MakesReady(c, s) THEN JoinReady(c) ELSE c
<1>1. /\ e \in WideType
      /\ e.self = c.self
      /\ e.join_ready <=> c.join_ready \/ MakesReady(c, s)
      /\ e.prompt <=> c.prompt
      /\ e.passwd_ctx <=> c.passwd_ctx
      /\ e.tokens = IF MakesReady(c, s) THEN {} ELSE c.tokens
      /\ e.announced = IF MakesReady(c, s) THEN c.announced + 1
                       ELSE c.announced
      /\ SameDue(c, e)
  <2>1. CASE MakesReady(c, s)
    BY <2>1, JoinReadyFields
  <2>2. CASE ~MakesReady(c, s)
    BY <2>2 DEF SameDue
  <2> QED
    BY <2>1, <2>2
<1> DEFINE p == PromptAfter(c, s)
           x == ContextAfter(c, s)
           d == [e EXCEPT !.prompt = p, !.passwd_ctx = x, !.state = s]
<1>2. ChangeState(c, s) = d
  BY DEF ChangeState, MakesReady
<1>3. p \in BOOLEAN /\ x \in BOOLEAN
  BY DEF PromptAfter, ContextAfter
<1> HIDE DEF e, p, x
<1>4. /\ d \in WideType
      /\ d.state = s /\ d.self = e.self /\ d.join_ready = e.join_ready
      /\ d.prompt = p /\ d.passwd_ctx = x /\ d.tokens = e.tokens
      /\ d.announced = e.announced /\ d.replies = e.replies
  BY <1>1, <1>3 DEF WideType
<1>5. SameDue(c, d)
  BY <1>1, <1>4 DEF SameDue, Due
<1> QED
  BY <1>1, <1>2, <1>4, <1>5 DEF p, x

-----------------------------------------------------------------------------
(* Every function of a channel keeps ChannelOK, and what is due.           *)
LEMMA NoChannelOK ==
    ASSUME NEW replies \in [Tokens -> Nat], NEW invited
    PROVE  /\ ChannelOK(NoChannel(replies), invited)
           /\ NoChannel(replies).replies = replies
           /\ NoChannel(replies).tokens = {}
           /\ NoChannel(replies).state = "none"
BY DEF ChannelOK, ChannelType, NoChannel, PromptOK, AnnouncedOK, Exists

LEMMA DestroyedOK ==
    ASSUME NEW c \in WideType, NEW invited
    PROVE  /\ ChannelOK(Destroyed(c), invited)
           /\ SameDue(c, Destroyed(c))
           /\ Destroyed(c).state = "none"
<1> DEFINE e == TakeTokens(c)
<1>1. e \in WideType /\ e.tokens = {} /\ SameDue(c, e)
  BY TakeTokensFields
<1>2. Destroyed(c) = NoChannel(e.replies)
  BY DEF Destroyed
<1> HIDE DEF e
<1>3. e.replies \in [Tokens -> Nat]
  BY <1>1 DEF WideType
<1>4. SameDue(c, NoChannel(e.replies))
  BY <1>1, <1>3, NoChannelOK DEF SameDue, Due
<1> QED
  BY <1>2, <1>3, <1>4, NoChannelOK

LEMMA MemberLeftOK ==
    ASSUME NEW c \in ChannelType, NEW invited
    PROVE  /\ ChannelOK(MemberLeft(c), invited)
           /\ SameDue(c, MemberLeft(c))
           /\ MemberLeft(c).state = "none"
<1> DEFINE e == ChangeState(c, "PARTED")
<1>1. e \in WideType /\ SameDue(c, e)
  BY WideEnough, ChangeStateFields
<1>2. SameDue(c, Destroyed(e))
  BY <1>1, DestroyedOK DEF SameDue
<1> QED
  BY <1>1, <1>2, DestroyedOK DEF MemberLeft

LEMMA NewChannelOK ==
    ASSUME NEW c, NEW invited, ChannelOK(c, invited), ~Exists(c),
           NEW by_request \in BOOLEAN
    PROVE  LET d == NewChannel(c, by_request)
           IN  /\ d \in ChannelType /\ d.state = "CREATED"
               /\ d.self = IF by_request THEN "remote" ELSE "none"
               /\ ~d.join_ready /\ ~d.prompt /\ ~d.passwd_ctx
               /\ d.tokens = {} /\ d.announced = 0 /\ d.replies = c.replies
<1>1. c = NoChannel(c.replies) /\ c \in ChannelType
  BY DEF ChannelOK
<1>2. /\ ~c.join_ready /\ ~c.prompt /\ ~c.passwd_ctx
      /\ c.tokens = {} /\ c.announced = 0
  BY <1>1 DEF NoChannel
<1> QED
  BY <1>1, <1>2 DEF NewChannel, ChannelType

(* A channel that is joined: it was there, or is new.                      *)
LEMMA JoinedOK ==
    ASSUME NEW c \in ChannelType, NEW invited,
           c.tokens # {} => ~c.join_ready,
           c.state \in {"NEED_PASSWORD", "JOINED"} => c.join_ready,
           ~invited => /\ c.prompt <=> c.state = "NEED_PASSWORD"
                       /\ c.passwd_ctx => c.prompt
                       /\ AnnouncedOK(c),
           Exists(c)
    PROVE  /\ ChannelOK(Joined(c), invited)
           /\ SameDue(c, Joined(c))
           /\ Joined(c).state = "JOINED" /\ Joined(c).self = "member"
<1> DEFINE e == ChangeState(c, "JOINED")
           d == [e EXCEPT !.self = "member"]
<1>1. /\ e \in WideType /\ e.state = "JOINED"
      /\ e.join_ready
      /\ e.prompt <=> PromptAfter(c, "JOINED")
      /\ e.passwd_ctx <=> ContextAfter(c, "JOINED")
      /\ e.tokens = {}
      /\ e.announced = IF ~c.join_ready THEN c.announced + 1 ELSE c.announced
      /\ SameDue(c, e)
  BY WideEnough, ChangeStateFields DEF MakesReady
<1>2. Joined(c) = d
  BY DEF Joined
<1>3. ~invited => ~e.prompt /\ ~e.passwd_ctx
  BY <1>1 DEF PromptAfter, ContextAfter
<1>4. ~invited => e.announced = 1
  BY <1>1 DEF AnnouncedOK
<1> HIDE DEF e
<1>5. /\ d \in ChannelType /\ d.state = "JOINED" /\ d.self = "member"
      /\ d.join_ready = e.join_ready /\ d.prompt = e.prompt
      /\ d.passwd_ctx = e.passwd_ctx /\ d.tokens = e.tokens
      /\ d.announced = e.announced /\ d.replies = e.replies
  BY <1>1 DEF WideType, ChannelType
<1>6. SameDue(c, d)
  BY <1>1, <1>5 DEF SameDue, Due
<1>7. ChannelOK(d, invited)
  BY <1>1, <1>3, <1>4, <1>5 DEF ChannelOK, PromptOK, AnnouncedOK, Exists
<1> QED
  BY <1>2, <1>5, <1>6, <1>7

LEMMA NeedPasswordOK ==
    ASSUME NEW c, NEW invited, ChannelOK(c, invited), Exists(c),
           c.state # "JOINED"
    PROVE  LET d == ChangeState(c, "NEED_PASSWORD")
           IN  ChannelOK(d, invited) /\ SameDue(c, d) /\ Exists(d)
<1> DEFINE d == ChangeState(c, "NEED_PASSWORD")
<1>1. c \in ChannelType
  BY DEF ChannelOK
<1>2. /\ d \in WideType /\ d.state = "NEED_PASSWORD" /\ d.self = c.self
      /\ d.join_ready
      /\ d.prompt <=> PromptAfter(c, "NEED_PASSWORD")
      /\ d.passwd_ctx <=> ContextAfter(c, "NEED_PASSWORD")
      /\ d.tokens = IF c.join_ready THEN c.tokens ELSE {}
      /\ d.announced = IF ~c.join_ready THEN c.announced + 1 ELSE c.announced
      /\ SameDue(c, d)
  BY <1>1, WideEnough, ChangeStateFields DEF MakesReady
<1>3. d \in ChannelType /\ Exists(d) /\ d.tokens = {}
  BY <1>2, WideEnough DEF Exists, ChannelOK
<1>4. ~invited => PromptOK(d)
  <2>1. SUFFICES ASSUME ~invited PROVE PromptOK(d)
    OBVIOUS
  <2>2. c.state \in {"CREATED", "JOINING", "NEED_PASSWORD"}
    BY <1>1 DEF ChannelType, Exists
  <2>3. d.prompt
    BY <1>2, <2>1, <2>2 DEF PromptAfter, ChannelOK, PromptOK
  <2> QED
    BY <1>2, <2>1, <2>3 DEF ChannelOK, PromptOK
<1>5. ~invited => AnnouncedOK(d)
  BY <1>2, <1>3 DEF ChannelOK, AnnouncedOK
<1> HIDE DEF d
<1>6. ChannelOK(d, invited)
  BY <1>2, <1>3, <1>4, <1>5 DEF ChannelOK
<1> QED
  BY <1>2, <1>3, <1>6 DEF d

(* A refusal that is only remembered.                                      *)
LEMMA OnlyRefusedOK ==
    ASSUME NEW c, NEW invited, ChannelOK(c, invited), Exists(c),
           NEW d \in {[c EXCEPT !.refused = TRUE], Unheard(c)}
    PROVE  ChannelOK(d, invited) /\ SameDue(c, d) /\ d.state = c.state
<1>1. c \in ChannelType
  BY DEF ChannelOK
<1>2. /\ d \in ChannelType
      /\ d.state = c.state /\ d.self = c.self
      /\ d.join_ready = c.join_ready /\ d.prompt = c.prompt
      /\ d.passwd_ctx = c.passwd_ctx /\ d.tokens = c.tokens
      /\ d.announced = c.announced /\ d.replies = c.replies
  BY <1>1 DEF ChannelType, Unheard
<1>3. ChannelOK(d, invited)
  BY <1>2 DEF ChannelOK, PromptOK, AnnouncedOK, Exists
<1>4. SameDue(c, d)
  BY <1>2 DEF SameDue, Due
<1> QED
  BY <1>2, <1>3, <1>4

LEMMA JoinErrorOK ==
    ASSUME NEW c, NEW invited, ChannelOK(c, invited)
    PROVE  /\ ChannelOK(JoinError(c), invited)
           /\ SameDue(c, JoinError(c))
           /\ JoinError(c).state \in {c.state, "none"}
<1>1. c \in ChannelType /\ c \in WideType
  BY WideEnough DEF ChannelOK
<1>2. CASE ~c.join_ready
  BY <1>1, <1>2, DestroyedOK DEF JoinError
<1>3. CASE c.join_ready
  <2>1. Exists(c)
    BY <1>3 DEF ChannelOK, NoChannel
  <2> QED
    BY <1>3, <2>1, OnlyRefusedOK DEF JoinError
<1> QED
  BY <1>2, <1>3

(* idle_muc_channel_close() of a joined channel                            *)
LEMMA ReopenedOK ==
    ASSUME NEW c, NEW invited, ChannelOK(c, invited), c.state = "JOINED"
    PROVE  LET d == Reopened(c)
           IN  /\ ChannelOK(d, invited) /\ SameDue(c, d)
               /\ d.state = c.state /\ d.self = c.self
<1> DEFINE e == TakeTokens(c)
           f == [e EXCEPT !.announced = 0]
           d == [f EXCEPT !.announced = @ + 1]
<1>1. /\ e \in WideType
      /\ e.state = c.state /\ e.self = c.self
      /\ e.join_ready <=> c.join_ready
      /\ e.prompt <=> c.prompt
      /\ e.passwd_ctx <=> c.passwd_ctx
      /\ e.tokens = {}
      /\ SameDue(c, e)
  BY TakeTokensFields, WideEnough DEF ChannelOK
<1>2. Reopened(c) = d
  BY DEF Reopened, Announce
<1> HIDE DEF e
<1>3. /\ f \in WideType
      /\ f.state = e.state /\ f.self = e.self /\ f.prompt = e.prompt
      /\ f.passwd_ctx = e.passwd_ctx /\ f.join_ready = e.join_ready
      /\ f.tokens = e.tokens /\ f.replies = e.replies /\ f.announced = 0
  BY <1>1 DEF WideType
<1> HIDE DEF f
<1>4. /\ d \in WideType
      /\ d.state = f.state /\ d.self = f.self /\ d.prompt = f.prompt
      /\ d.passwd_ctx = f.passwd_ctx /\ d.join_ready = f.join_ready
      /\ d.tokens = f.tokens /\ d.replies = f.replies /\ d.announced = 1
  BY <1>3 DEF WideType
<1> HIDE DEF d
<1>5. SameDue(c, d)
  BY <1>1, <1>3, <1>4 DEF SameDue, Due
<1>6. d \in ChannelType /\ Exists(d)
  BY <1>1, <1>3, <1>4, WideEnough DEF Exists
<1>7. ChannelOK(d, invited)
  BY <1>1, <1>3, <1>4, <1>6 DEF ChannelOK, PromptOK, AnnouncedOK, Exists
<1> QED
  BY <1>1, <1>2, <1>3, <1>4, <1>5, <1>7

(* add_member() for the user, in a room somebody may invite to             *)
LEMMA AddSelfOK ==
    ASSUME NEW c, ChannelOK(c, TRUE), Exists(c), c.state # "JOINED"
    PROVE  LET d == [ChangeState(c, "JOINING") EXCEPT !.self = "remote"]
           IN  ChannelOK(d, TRUE) /\ SameDue(c, d) /\ d.state = "JOINING"
<1> DEFINE e == ChangeState(c, "JOINING")
           d == [e EXCEPT !.self = "remote"]
<1>1. /\ e \in WideType /\ e.state = "JOINING"
      /\ e.join_ready <=> c.join_ready
      /\ e.tokens = c.tokens
      /\ SameDue(c, e)
  BY ChangeStateFields, WideEnough DEF MakesReady, ChannelOK
<1> HIDE DEF e
<1>2. /\ d \in ChannelType /\ d.state = "JOINING"
      /\ d.join_ready = e.join_ready /\ d.tokens = e.tokens
      /\ d.replies = e.replies
  BY <1>1 DEF WideType, ChannelType
<1>3. SameDue(c, d)
  BY <1>1, <1>2 DEF SameDue, Due
<1>4. ChannelOK(d, TRUE)
  BY <1>1, <1>2 DEF ChannelOK, Exists
<1> QED
  BY <1>2, <1>3, <1>4 DEF e

-----------------------------------------------------------------------------
(* The invariant.  The server and the client agree about who is in a room  *)
(* while the connection is up; a token is due to nobody before it is       *)
(* requested, and to one channel after.                                    *)
LinkOK ==
    /\ link \in {"up", "closing", "down"}
    /\ requested \subseteq Tokens
    /\ wire \in [Rooms -> Seq({"JOIN", "PART"})]

ChannelsOK ==
    /\ chan \in [Rooms -> ChannelType]
    /\ \A r \in Rooms : ChannelOK(chan[r], r \in Inviting)

RoomsOK ==
    /\ in_room \in [Rooms -> BOOLEAN]
    /\ \A r \in Rooms : in_room[r] => chan[r].state = "JOINED"
    /\ link = "up" =>
          \A r \in Rooms : chan[r].state = "JOINED" => in_room[r]

DueTo(t, r) ==
    /\ Due(chan[r], t) = 1
    /\ \A q \in Rooms \ {r} : Due(chan[q], t) = 0

DueOK ==
    \A t \in Tokens :
       IF t \in requested THEN \E r \in Rooms : DueTo(t, r)
       ELSE \A r \in Rooms : Due(chan[r], t) = 0

IInv == LinkOK /\ ChannelsOK /\ RoomsOK /\ DueOK

LEMMA InitIInv == Init => IInv
<1> SUFFICES ASSUME Init PROVE IInv
  OBVIOUS
<1> DEFINE zero == [t \in Tokens |-> 0]
<1>1. zero \in [Tokens -> Nat] /\ \A t \in Tokens : zero[t] = 0
  OBVIOUS
<1>2. \A r \in Rooms : chan[r] = NoChannel(zero)
  BY DEF Init
<1> HIDE DEF zero
<1>3. \A r \in Rooms : /\ ChannelOK(chan[r], r \in Inviting)
                       /\ chan[r].replies = zero
                       /\ chan[r].tokens = {}
                       /\ chan[r].state = "none"
  BY <1>1, <1>2, NoChannelOK
<1>4. LinkOK
  BY DEF Init, LinkOK
<1>5. ChannelsOK
  <2>1. \A r \in Rooms : chan[r] \in ChannelType
    BY <1>3 DEF ChannelOK
  <2> QED
    BY <1>3, <2>1 DEF Init, ChannelsOK
<1>6. RoomsOK
  BY <1>3 DEF Init, RoomsOK
<1>7. DueOK
  BY <1>1, <1>3 DEF Init, DueOK, Due
<1> QED
  BY <1>4, <1>5, <1>6, <1>7 DEF IInv

(* A step that keeps what is due to every token.                           *)
LEMMA DueStep ==
    ASSUME IInv,
           chan' \in [Rooms -> ChannelType],
           \A q \in Rooms : /\ ChannelOK(chan'[q], q \in Inviting)
                            /\ SameDue(chan[q], chan'[q]),
           requested' = requested
    PROVE  ChannelsOK' /\ DueOK'
<1>1. ChannelsOK'
  BY DEF ChannelsOK
<1>2. \A t \in Tokens, q \in Rooms : Due(chan'[q], t) = Due(chan[q], t)
  BY DEF SameDue
<1>3. DueOK'
  <2> SUFFICES ASSUME NEW t \in Tokens
               PROVE  IF t \in requested THEN \E r \in Rooms : DueTo(t, r)'
                      ELSE \A r \in Rooms : Due(chan'[r], t) = 0
    BY DEF DueOK
  <2>1. CASE t \in requested
    BY <1>2, <2>1 DEF IInv, DueOK, DueTo
  <2>2. CASE t \notin requested
    BY <1>2, <2>2 DEF IInv, DueOK
  <2> QED
    BY <2>1, <2>2
<1> QED
  BY <1>1, <1>3

LEMMA ChannelStep ==
    ASSUME IInv, NEW r \in Rooms, NEW c,
           ChannelOK(c, r \in Inviting),
           SameDue(chan[r], c),
           Update(r, c),
           requested' = requested
    PROVE  ChannelsOK' /\ DueOK'
<1>1. /\ chan \in [Rooms -> ChannelType]
      /\ \A q \in Rooms : ChannelOK(chan[q], q \in Inviting)
  BY DEF IInv, ChannelsOK
<1>2. c \in ChannelType
  BY DEF ChannelOK
<1>3. /\ chan' \in [Rooms -> ChannelType]
      /\ chan'[r] = c
      /\ \A q \in Rooms \ {r} : chan'[q] = chan[q]
  BY <1>1, <1>2 DEF Update
<1>4. \A q \in Rooms : ChannelOK(chan'[q], q \in Inviting)
  <2> SUFFICES ASSUME NEW q \in Rooms PROVE ChannelOK(chan'[q], q \in Inviting)
    OBVIOUS
  <2>1. CASE q = r
    BY <1>3, <2>1
  <2>2. CASE q # r
    BY <1>1, <1>3, <2>2
  <2> QED
    BY <2>1, <2>2
<1>5. \A q \in Rooms : SameDue(chan[q], chan'[q])
  <2> SUFFICES ASSUME NEW q \in Rooms PROVE SameDue(chan[q], chan'[q])
    OBVIOUS
  <2>1. CASE q = r
    BY <1>3, <2>1
  <2>2. CASE q # r
    BY <1>3, <2>2 DEF SameDue
  <2> QED
    BY <2>1, <2>2
<1> QED
  BY <1>3, <1>4, <1>5, DueStep

(* A request of a token gives the channel one reply or one token to do.    *)
LEMMA RequestStep ==
    ASSUME IInv, NEW r \in Rooms, NEW c, NEW t \in Tokens,
           ChannelOK(c, r \in Inviting),
           Due(c, t) = Due(chan[r], t) + 1,
           \A u \in Tokens \ {t} : Due(c, u) = Due(chan[r], u),
           Update(r, c),
           t \notin requested,
           requested' = requested \cup {t}
    PROVE  ChannelsOK' /\ DueOK'
<1>1. /\ chan \in [Rooms -> ChannelType]
      /\ \A q \in Rooms : ChannelOK(chan[q], q \in Inviting)
  BY DEF IInv, ChannelsOK
<1>2. c \in ChannelType
  BY DEF ChannelOK
<1>3. /\ chan' \in [Rooms -> ChannelType]
      /\ chan'[r] = c
      /\ \A q \in Rooms \ {r} : chan'[q] = chan[q]
  BY <1>1, <1>2 DEF Update
<1>4. ChannelsOK'
  <2>1. \A q \in Rooms : ChannelOK(chan'[q], q \in Inviting)
    <3> SUFFICES ASSUME NEW q \in Rooms
                 PROVE  ChannelOK(chan'[q], q \in Inviting)
      OBVIOUS
    <3>1. CASE q = r
      BY <1>3, <3>1
    <3>2. CASE q # r
      BY <1>1, <1>3, <3>2
    <3> QED
      BY <3>1, <3>2
  <2> QED
    BY <1>3, <2>1 DEF ChannelsOK
<1>5. \A q \in Rooms : Due(chan[q], t) = 0
  BY DEF IInv, DueOK
<1>6. DueTo(t, r)'
  BY <1>3, <1>5 DEF DueTo
<1>7. \A u \in Tokens \ {t}, q \in Rooms : Due(chan'[q], u) = Due(chan[q], u)
  <2> SUFFICES ASSUME NEW u \in Tokens \ {t}, NEW q \in Rooms
               PROVE  Due(chan'[q], u) = Due(chan[q], u)
    OBVIOUS
  <2>1. CASE q = r
    BY <1>3, <2>1
  <2>2. CASE q # r
    BY <1>3, <2>2
  <2> QED
    BY <2>1, <2>2
<1>8. DueOK'
  <2> SUFFICES ASSUME NEW u \in Tokens
               PROVE  IF u \in requested' THEN \E q \in Rooms : DueTo(u, q)'
                      ELSE \A q \in Rooms : Due(chan'[q], u) = 0
    BY DEF DueOK
  <2>1. CASE u = t
    BY <1>6, <2>1
  <2>2. CASE u # t /\ u \in requested
    <3>1. PICK q \in Rooms : DueTo(u, q)
      BY <2>2 DEF IInv, DueOK
    <3>2. DueTo(u, q)'
      BY <1>7, <2>2, <3>1 DEF DueTo
    <3> QED
      BY <2>2, <3>2
  <2>3. CASE u # t /\ u \notin requested
    BY <1>7, <2>3 DEF IInv, DueOK
  <2> QED
    BY <2>1, <2>2, <2>3
<1> QED
  BY <1>4, <1>8

(* Commands are sent and handled.                                          *)
LEMMA SendType ==
    ASSUME IInv, NEW r \in Rooms, NEW cmd \in {"JOIN", "PART"},
           Send(r, cmd), link' = link, requested' \subseteq Tokens
    PROVE  LinkOK'
<1>1. wire \in [Rooms -> Seq({"JOIN", "PART"})]
  BY DEF IInv, LinkOK
<1>2. Append(wire[r], cmd) \in Seq({"JOIN", "PART"})
  BY <1>1
<1> QED
  BY <1>1, <1>2 DEF Send, LinkOK, IInv

-----------------------------------------------------------------------------
(* Every action keeps the invariant: first what clients do.                *)
LEMMA RoomFacts ==
    ASSUME IInv, NEW r \in Rooms
    PROVE  /\ ChannelOK(chan[r], r \in Inviting)
           /\ chan[r] \in ChannelType /\ chan[r] \in WideType
           /\ chan[r].replies \in [Tokens -> Nat]
           /\ chan[r].tokens \subseteq Tokens
           /\ in_room[r] => chan[r].state = "JOINED"
BY WideEnough DEF IInv, ChannelsOK, RoomsOK, ChannelType

(* A channel changes and its place in the room does not: it was joined and *)
(* stays so, or was not and does not become so.                            *)
LEMMA RoomsStay ==
    ASSUME IInv, NEW r \in Rooms, NEW c, Update(r, c),
           c.state = "JOINED" <=> chan[r].state = "JOINED",
           link' = link, in_room' = in_room
    PROVE  RoomsOK'
<1>1. chan \in [Rooms -> ChannelType] /\ RoomsOK
  BY DEF IInv, ChannelsOK
<1>2. \A q \in Rooms : chan'[q].state = "JOINED" <=> chan[q].state = "JOINED"
  BY <1>1 DEF Update
<1> QED
  BY <1>1, <1>2 DEF RoomsOK

LEMMA RequestKeepsIInv ==
    ASSUME IInv, NEW r \in Rooms, NEW t \in Tokens,
           CreateChannel(r, t) \/ EnsureChannel(r, t)
    PROVE  IInv'
<1> DEFINE c == chan[r]
<1>1. /\ ChannelOK(c, r \in Inviting) /\ c \in ChannelType /\ c \in WideType
      /\ c.replies \in [Tokens -> Nat] /\ c.tokens \subseteq Tokens
  BY RoomFacts
<1>2. /\ t \notin requested /\ requested' = requested \cup {t}
      /\ Exists(c) /\ link' = link /\ in_room' = in_room /\ wire' = wire
  BY DEF CreateChannel, EnsureChannel, ClientCalls
<1>3. Due(c, t) = 0
  BY <1>2 DEF IInv, DueOK
<1>4. t \notin c.tokens
  BY <1>1, <1>3 DEF Due
<1>5. CASE Update(r, Reply(c, {t}))
  <2> DEFINE d == Reply(c, {t})
  <2>1. /\ d \in WideType
        /\ d.state = c.state /\ d.self = c.self
        /\ d.join_ready <=> c.join_ready
        /\ d.prompt <=> c.prompt
        /\ d.passwd_ctx <=> c.passwd_ctx
        /\ d.tokens = c.tokens
        /\ d.announced = c.announced
        /\ \A u \in Tokens :
              d.replies[u] = c.replies[u] + (IF u \in {t} THEN 1 ELSE 0)
    BY <1>1, ReplyFields
  <2> HIDE DEF d
  <2>2. d \in ChannelType
    BY <1>1, <2>1, WideEnough DEF ChannelType
  <2>3. ChannelOK(d, r \in Inviting)
    BY <1>1, <1>2, <2>1, <2>2 DEF ChannelOK, PromptOK, AnnouncedOK, Exists
  <2>4. Due(d, t) = Due(c, t) + 1
    BY <1>1, <2>1 DEF Due
  <2>5. \A u \in Tokens \ {t} : Due(d, u) = Due(c, u)
    BY <1>1, <2>1 DEF Due
  <2>6. ChannelsOK' /\ DueOK'
    BY <1>2, <1>5, <2>3, <2>4, <2>5, RequestStep DEF d
  <2>7. RoomsOK'
    BY <1>2, <1>5, <2>1, RoomsStay DEF d
  <2>8. LinkOK'
    BY <1>2 DEF IInv, LinkOK
  <2> QED
    BY <2>6, <2>7, <2>8 DEF IInv
<1>6. CASE ~c.join_ready /\ Update(r, [c EXCEPT !.tokens = @ \cup {t}])
  <2> DEFINE d == [c EXCEPT !.tokens = @ \cup {t}]
  <2>1. /\ d \in ChannelType
        /\ d.state = c.state /\ d.self = c.self
        /\ d.join_ready = c.join_ready /\ d.prompt = c.prompt
        /\ d.passwd_ctx = c.passwd_ctx /\ d.announced = c.announced
        /\ d.tokens = c.tokens \cup {t} /\ d.replies = c.replies
    BY <1>1 DEF ChannelType
  <2>2. Update(r, d)
    BY <1>6
  <2> HIDE DEF d
  <2>3. ChannelOK(d, r \in Inviting)
    BY <1>1, <1>2, <1>6, <2>1 DEF ChannelOK, PromptOK, AnnouncedOK, Exists
  <2>4. Due(d, t) = Due(c, t) + 1
    BY <1>1, <1>4, <2>1 DEF Due
  <2>5. \A u \in Tokens \ {t} : Due(d, u) = Due(c, u)
    BY <1>1, <2>1 DEF Due
  <2>6. ChannelsOK' /\ DueOK'
    BY <1>2, <2>2, <2>3, <2>4, <2>5, RequestStep
  <2>7. RoomsOK'
    BY <1>2, <2>1, <2>2, RoomsStay
  <2>8. LinkOK'
    BY <1>2 DEF IInv, LinkOK
  <2> QED
    BY <2>6, <2>7, <2>8 DEF IInv
<1> QED
  BY <1>5, <1>6 DEF CreateChannel, EnsureChannel

LEMMA RequestNewKeepsIInv ==
    ASSUME IInv, NEW r \in Rooms, NEW t \in Tokens, RequestNewChannel(r, t)
    PROVE  IInv'
<1> DEFINE c == chan[r]
           n == NewChannel(c, TRUE)
           d == [n EXCEPT !.tokens = {t}]
<1>1. /\ ChannelOK(c, r \in Inviting) /\ c \in ChannelType
      /\ c.replies \in [Tokens -> Nat] /\ c.tokens \subseteq Tokens
  BY RoomFacts
<1>2. /\ t \notin requested /\ requested' = requested \cup {t}
      /\ ~Exists(c) /\ link' = link /\ in_room' = in_room
      /\ Send(r, "JOIN") /\ Update(r, d)
  BY DEF RequestNewChannel, ClientCalls
<1>3. /\ n \in ChannelType /\ n.state = "CREATED" /\ n.self = "remote"
      /\ ~n.join_ready /\ ~n.prompt /\ ~n.passwd_ctx
      /\ n.tokens = {} /\ n.announced = 0 /\ n.replies = c.replies
  BY <1>1, <1>2, NewChannelOK
<1> HIDE DEF n
<1>4. /\ d \in ChannelType /\ d.state = "CREATED" /\ d.self = "remote"
      /\ ~d.join_ready /\ ~d.prompt /\ ~d.passwd_ctx
      /\ d.tokens = {t} /\ d.announced = 0 /\ d.replies = c.replies
  BY <1>3 DEF ChannelType
<1> HIDE DEF d
<1>5. ChannelOK(d, r \in Inviting)
  BY <1>4 DEF ChannelOK, PromptOK, AnnouncedOK, Exists
<1>6. c.tokens = {}
  BY <1>1, <1>2 DEF ChannelOK, NoChannel
<1>7. Due(d, t) = Due(c, t) + 1
  BY <1>1, <1>4, <1>6 DEF Due
<1>8. \A u \in Tokens \ {t} : Due(d, u) = Due(c, u)
  BY <1>1, <1>4, <1>6 DEF Due
<1>9. ChannelsOK' /\ DueOK'
  BY <1>2, <1>5, <1>7, <1>8, RequestStep
<1>10. RoomsOK'
  <2>1. c.state # "JOINED"
    BY <1>2 DEF Exists
  <2> QED
    BY <1>2, <1>4, <2>1, RoomsStay
<1>11. LinkOK'
  BY <1>2, SendType DEF IInv, LinkOK
<1> QED
  BY <1>9, <1>10, <1>11 DEF IInv

LEMMA AddSelfKeepsIInv ==
    ASSUME IInv, NEW r \in Rooms, AddSelf(r)
    PROVE  IInv'
<1> DEFINE c == chan[r]
           d == [ChangeState(c, "JOINING") EXCEPT !.self = "remote"]
<1>1. ChannelOK(c, r \in Inviting)
  BY RoomFacts
<1>2. /\ Exists(c) /\ c.self \notin {"member", "remote"}
      /\ link' = link /\ in_room' = in_room /\ requested' = requested
      /\ Send(r, "JOIN") /\ Update(r, d)
  BY DEF AddSelf, ChannelCall, ClientCalls
<1>3. r \in Inviting /\ c.state # "JOINED"
  BY <1>1, <1>2 DEF ChannelOK, PromptOK
<1>4. ChannelOK(c, TRUE)
  BY <1>1, <1>3 DEF ChannelOK
<1>5. ChannelOK(d, TRUE) /\ SameDue(c, d) /\ d.state = "JOINING"
  BY <1>2, <1>3, <1>4, AddSelfOK
<1> HIDE DEF d
<1>6. ChannelOK(d, r \in Inviting)
  BY <1>3, <1>5 DEF ChannelOK
<1>7. ChannelsOK' /\ DueOK'
  BY <1>2, <1>5, <1>6, ChannelStep
<1>8. RoomsOK'
  BY <1>2, <1>3, <1>5, RoomsStay
<1>9. LinkOK'
  BY <1>2, SendType DEF IInv, LinkOK
<1> QED
  BY <1>7, <1>8, <1>9 DEF IInv

(* A command that changes no channel.                                      *)
LEMMA PartKeepsIInv ==
    ASSUME IInv, NEW r \in Rooms, Send(r, "PART"),
           UNCHANGED <<chan, link, in_room, requested>>
    PROVE  IInv'
<1>1. LinkOK'
  BY SendType DEF IInv, LinkOK
<1>2. ChannelsOK'
  BY DEF IInv, ChannelsOK
<1>3. RoomsOK'
  BY DEF IInv, RoomsOK
<1>4. DueOK'
  BY DEF IInv, DueOK, DueTo
<1> QED
  BY <1>1, <1>2, <1>3, <1>4 DEF IInv

LEMMA CloseKeepsIInv ==
    ASSUME IInv, NEW r \in Rooms,
           Close(r) \/ (Destroy(r) /\ chan[r].state # "JOINED")
    PROVE  IInv'
<1> DEFINE c == chan[r]
           d == Closed(c)
<1>1. ChannelOK(c, r \in Inviting) /\ c \in WideType
  BY RoomFacts
<1>2. /\ link' = link /\ in_room' = in_room /\ requested' = requested
      /\ wire' = wire /\ Update(r, d)
  BY DEF Close, Destroy, ChannelCall, ClientCalls, Closed
<1>3. /\ ChannelOK(d, r \in Inviting) /\ SameDue(c, d)
      /\ d.state = "JOINED" <=> c.state = "JOINED"
  <2>1. CASE c.state = "JOINED"
    BY <1>1, <2>1, ReopenedOK DEF Closed
  <2>2. CASE c.state # "JOINED"
    BY <1>1, <2>2, DestroyedOK DEF Closed
  <2> QED
    BY <2>1, <2>2
<1> HIDE DEF d
<1>4. ChannelsOK' /\ DueOK'
  BY <1>2, <1>3, ChannelStep
<1>5. RoomsOK'
  BY <1>2, <1>3, RoomsStay
<1>6. LinkOK'
  BY <1>2 DEF IInv, LinkOK
<1> QED
  BY <1>4, <1>5, <1>6 DEF IInv

LEMMA ProvidePasswordKeepsIInv ==
    ASSUME IInv, NEW r \in Rooms, ProvidePassword(r)
    PROVE  IInv'
<1> DEFINE c == chan[r]
           d == [c EXCEPT !.passwd_ctx = TRUE,
                          !.refused = FALSE, !.unheard = FALSE]
<1>1. ChannelOK(c, r \in Inviting) /\ c \in ChannelType
  BY RoomFacts
<1>2. /\ Exists(c) /\ c.prompt
      /\ link' = link /\ in_room' = in_room /\ requested' = requested
      /\ Send(r, "JOIN") /\ Update(r, d)
  BY DEF ProvidePassword, ChannelCall, ClientCalls
<1>3. /\ d \in ChannelType
      /\ d.state = c.state /\ d.self = c.self
      /\ d.join_ready = c.join_ready /\ d.prompt = c.prompt
      /\ d.announced = c.announced
      /\ d.tokens = c.tokens /\ d.replies = c.replies
  BY <1>1 DEF ChannelType
<1> HIDE DEF d
<1>4. ChannelOK(d, r \in Inviting)
  BY <1>1, <1>2, <1>3 DEF ChannelOK, PromptOK, AnnouncedOK, Exists
<1>5. SameDue(c, d)
  BY <1>3 DEF SameDue, Due
<1>6. ChannelsOK' /\ DueOK'
  BY <1>2, <1>4, <1>5, ChannelStep
<1>7. RoomsOK'
  BY <1>2, <1>3, RoomsStay
<1>8. LinkOK'
  BY <1>2, SendType DEF IInv, LinkOK
<1> QED
  BY <1>6, <1>7, <1>8 DEF IInv

-----------------------------------------------------------------------------
(* Then what the server does.                                              *)
LEMMA HandleType ==
    ASSUME IInv, NEW r \in Rooms, NEW cmd, HandleCommand(r, cmd)
    PROVE  LinkOK' /\ link = "up" /\ link' = "up" /\ requested' = requested
<1>1. wire \in [Rooms -> Seq({"JOIN", "PART"})]
  BY DEF IInv, LinkOK
<1>2. wire[r] # <<>> /\ wire' = [wire EXCEPT ![r] = Tail(@)]
  BY DEF HandleCommand
<1>3. Tail(wire[r]) \in Seq({"JOIN", "PART"})
  BY <1>1, <1>2
<1>4. wire' \in [Rooms -> Seq({"JOIN", "PART"})]
  BY <1>1, <1>2, <1>3
<1> QED
  BY <1>4 DEF IInv, LinkOK, HandleCommand

(* The user comes to be in the room, or stops being there.                 *)
LEMMA RoomsMove ==
    ASSUME IInv, NEW r \in Rooms, NEW c, NEW in \in BOOLEAN, Update(r, c),
           c.state = "JOINED" <=> in,
           link' = link, in_room' = [in_room EXCEPT ![r] = in]
    PROVE  RoomsOK'
<1>1. chan \in [Rooms -> ChannelType] /\ RoomsOK
  BY DEF IInv, ChannelsOK
<1>2. /\ in_room' \in [Rooms -> BOOLEAN]
      /\ in_room'[r] = in
      /\ \A q \in Rooms \ {r} : in_room'[q] = in_room[q]
  BY <1>1 DEF RoomsOK
<1>3. /\ chan'[r] = c
      /\ \A q \in Rooms \ {r} : chan'[q] = chan[q]
  BY <1>1 DEF Update
<1>4. \A q \in Rooms : in_room'[q] => chan'[q].state = "JOINED"
  <2> SUFFICES ASSUME NEW q \in Rooms, in_room'[q]
               PROVE  chan'[q].state = "JOINED"
    OBVIOUS
  <2>1. CASE q = r
    BY <1>2, <1>3, <2>1
  <2>2. CASE q # r
    BY <1>1, <1>2, <1>3, <2>2 DEF RoomsOK
  <2> QED
    BY <2>1, <2>2
<1>5. link = "up" => \A q \in Rooms : chan'[q].state = "JOINED" => in_room'[q]
  <2> SUFFICES ASSUME NEW q \in Rooms, link = "up", chan'[q].state = "JOINED"
               PROVE  in_room'[q]
    OBVIOUS
  <2>1. CASE q = r
    BY <1>2, <1>3, <2>1
  <2>2. CASE q # r
    BY <1>1, <1>2, <1>3, <2>2 DEF RoomsOK
  <2> QED
    BY <2>1, <2>2
<1> QED
  BY <1>2, <1>4, <1>5 DEF RoomsOK

LEMMA JoinHandlerKeeps ==
    ASSUME IInv, NEW r \in Rooms, JoinHandler(r),
           link' = link, requested' = requested,
           in_room' = [in_room EXCEPT ![r] = TRUE]
    PROVE  ChannelsOK' /\ DueOK' /\ RoomsOK'
<1> DEFINE n == NewChannel(chan[r], FALSE)
           c == IF Exists(chan[r]) THEN chan[r] ELSE n
           d == Joined(c)
<1>1. ChannelOK(chan[r], r \in Inviting) /\ chan[r] \in ChannelType
  BY RoomFacts
<1>2. Update(r, d)
  BY DEF JoinHandler
<1>3. /\ ChannelOK(d, r \in Inviting) /\ SameDue(chan[r], d)
      /\ d.state = "JOINED"
  <2>1. CASE Exists(chan[r])
    <3>1. c = chan[r]
      BY <2>1
    <3>2. /\ c.tokens # {} => ~c.join_ready
          /\ c.state \in {"NEED_PASSWORD", "JOINED"} => c.join_ready
          /\ r \notin Inviting => /\ c.prompt <=> c.state = "NEED_PASSWORD"
                                  /\ c.passwd_ctx => c.prompt
                                  /\ AnnouncedOK(c)
      BY <1>1, <3>1 DEF ChannelOK, PromptOK
    <3> HIDE DEF c
    <3> QED
      BY <1>1, <2>1, <3>1, <3>2, JoinedOK
  <2>2. CASE ~Exists(chan[r])
    <3>1. /\ n \in ChannelType /\ n.state = "CREATED"
          /\ ~n.join_ready /\ ~n.prompt /\ ~n.passwd_ctx
          /\ n.tokens = {} /\ n.announced = 0
          /\ n.replies = chan[r].replies
      BY <1>1, <2>2, NewChannelOK
    <3>2. c = n
      BY <2>2
    <3> HIDE DEF n, c
    <3>3. Exists(n) /\ AnnouncedOK(n)
      BY <3>1 DEF Exists, AnnouncedOK
    <3>4. /\ ChannelOK(d, r \in Inviting) /\ SameDue(n, d)
          /\ d.state = "JOINED"
      BY <3>1, <3>2, <3>3, JoinedOK
    <3>5. chan[r].tokens = {}
      BY <1>1, <2>2 DEF ChannelOK, NoChannel
    <3>6. SameDue(chan[r], n)
      BY <3>1, <3>5 DEF SameDue, Due
    <3> QED
      BY <3>4, <3>6 DEF SameDue
  <2> QED
    BY <2>1, <2>2
<1> HIDE DEF d
<1>4. ChannelsOK' /\ DueOK'
  BY <1>2, <1>3, ChannelStep
<1>5. RoomsOK'
  BY <1>2, <1>3, RoomsMove
<1> QED
  BY <1>4, <1>5

LEMMA RefusedKeeps ==
    ASSUME IInv, NEW r \in Rooms, Refused(r), link = "up", ~in_room[r],
           UNCHANGED <<link, requested, in_room>>
    PROVE  ChannelsOK' /\ DueOK' /\ RoomsOK'
<1>1. ChannelOK(chan[r], r \in Inviting) /\ chan[r].state # "JOINED"
  BY RoomFacts DEF IInv, RoomsOK
<1>2. ASSUME NEW d, Update(r, d), ChannelOK(d, r \in Inviting),
             SameDue(chan[r], d), d.state # "JOINED"
      PROVE  ChannelsOK' /\ DueOK' /\ RoomsOK'
  <2>1. ChannelsOK' /\ DueOK'
    BY <1>2, ChannelStep
  <2>2. RoomsOK'
    BY <1>1, <1>2, RoomsStay
  <2> QED
    BY <2>1, <2>2
<1>3. CASE Exists(chan[r]) /\ Update(r, ChangeState(chan[r], "NEED_PASSWORD"))
  <2> DEFINE d == ChangeState(chan[r], "NEED_PASSWORD")
  <2>1. ChannelOK(d, r \in Inviting) /\ SameDue(chan[r], d)
    BY <1>1, <1>3, NeedPasswordOK
  <2>2. d.state # "JOINED"
    BY <1>1, ChangeStateFields, RoomFacts
  <2> QED
    BY <1>2, <1>3, <2>1, <2>2
<1>4. CASE Exists(chan[r]) /\ Update(r, JoinError(chan[r]))
  <2> DEFINE d == JoinError(chan[r])
  <2>1. /\ ChannelOK(d, r \in Inviting) /\ SameDue(chan[r], d)
        /\ d.state # "JOINED"
    BY <1>1, JoinErrorOK
  <2> HIDE DEF d
  <2> QED
    BY <1>2, <1>4, <2>1 DEF d
<1>5. CASE UNCHANGED chan
  <2>1. ChannelsOK'
    BY <1>5 DEF IInv, ChannelsOK
  <2>2. DueOK'
    BY <1>5 DEF IInv, DueOK, DueTo
  <2>3. RoomsOK'
    BY <1>5 DEF IInv, RoomsOK
  <2> QED
    BY <2>1, <2>2, <2>3
<1>6. CASE Exists(chan[r]) /\ Update(r, Unheard(chan[r]))
  <2> DEFINE d == Unheard(chan[r])
  <2>1. ChannelOK(d, r \in Inviting) /\ SameDue(chan[r], d)
        /\ d.state # "JOINED"
    BY <1>1, <1>6, OnlyRefusedOK
  <2> HIDE DEF d
  <2> QED
    BY <1>2, <1>6, <2>1 DEF d
<1> QED
  BY <1>3, <1>4, <1>5, <1>6 DEF Refused

LEMMA LeaveRoomKeeps ==
    ASSUME IInv, NEW r \in Rooms, LeaveRoom(r),
           link' = link, requested' = requested
    PROVE  ChannelsOK' /\ DueOK' /\ RoomsOK'
<1> DEFINE c == chan[r]
           d == IF Exists(c) THEN MemberLeft(c) ELSE c
<1>1. ChannelOK(c, r \in Inviting) /\ c \in ChannelType
  BY RoomFacts
<1>2. Update(r, d) /\ in_room' = [in_room EXCEPT ![r] = FALSE]
  BY DEF LeaveRoom
<1>3. ChannelOK(d, r \in Inviting) /\ SameDue(c, d) /\ d.state # "JOINED"
  <2>1. CASE Exists(c)
    BY <1>1, <2>1, MemberLeftOK
  <2>2. CASE ~Exists(c)
    BY <1>1, <2>2 DEF SameDue, Exists
  <2> QED
    BY <2>1, <2>2
<1> HIDE DEF d
<1>4. ChannelsOK' /\ DueOK'
  BY <1>2, <1>3, ChannelStep
<1>5. RoomsOK'
  BY <1>2, <1>3, RoomsMove
<1> QED
  BY <1>4, <1>5

LEMMA HandlesKeepIInv ==
    ASSUME IInv, NEW r \in Rooms, ServerHandles(r)
    PROVE  IInv'
<1>1. LinkOK' /\ link = "up" /\ link' = "up" /\ requested' = requested
  BY HandleType DEF ServerHandles, HandleJoin, HandlePart
<1>2. CASE UNCHANGED <<chan, in_room>>
  <2>1. ChannelsOK'
    BY <1>2 DEF IInv, ChannelsOK
  <2>2. DueOK'
    BY <1>1, <1>2 DEF IInv, DueOK, DueTo
  <2>3. RoomsOK'
    BY <1>1, <1>2 DEF IInv, RoomsOK
  <2> QED
    BY <1>1, <2>1, <2>2, <2>3 DEF IInv
<1>3. CASE in_room' = [in_room EXCEPT ![r] = TRUE] /\ JoinHandler(r)
  BY <1>1, <1>3, JoinHandlerKeeps DEF IInv
<1>4. CASE ~in_room[r] /\ Refused(r) /\ UNCHANGED in_room
  BY <1>1, <1>4, RefusedKeeps DEF IInv
<1>5. CASE LeaveRoom(r)
  BY <1>1, <1>5, LeaveRoomKeeps DEF IInv
<1> QED
  BY <1>2, <1>3, <1>4, <1>5 DEF ServerHandles, HandleJoin, HandlePart

LEMMA UnaskedKeepsIInv ==
    ASSUME IInv, NEW r \in Rooms, BouncerJoins(r) \/ Kick(r)
    PROVE  IInv'
<1>1. UNCHANGED <<link, requested, wire>>
  BY DEF BouncerJoins, Kick
<1>2. LinkOK'
  BY <1>1 DEF IInv, LinkOK
<1>3. CASE BouncerJoins(r)
  BY <1>1, <1>2, <1>3, JoinHandlerKeeps DEF IInv, BouncerJoins
<1>4. CASE Kick(r)
  BY <1>1, <1>2, <1>4, LeaveRoomKeeps DEF IInv, Kick
<1> QED
  BY <1>3, <1>4

LEMMA InviteKeepsIInv ==
    ASSUME IInv, NEW r \in Rooms, Invite(r)
    PROVE  IInv'
<1> DEFINE c == chan[r]
           n == NewChannel(c, FALSE)
           e == [n EXCEPT !.announced = @ + 1]
           d == [e EXCEPT !.self = "local"]
<1>1. ChannelOK(c, r \in Inviting) /\ c \in ChannelType
  BY RoomFacts
<1>2. /\ UNCHANGED <<link, requested, wire, in_room>>
      /\ r \in Inviting /\ ~Exists(c) /\ Update(r, d)
  BY DEF Invite, Announce
<1>3. /\ n \in ChannelType /\ n.state = "CREATED"
      /\ ~n.join_ready /\ n.tokens = {} /\ n.replies = c.replies
  BY <1>1, <1>2, NewChannelOK
<1> HIDE DEF n
<1>4. /\ e \in ChannelType /\ e.state = n.state
      /\ e.join_ready = n.join_ready /\ e.tokens = n.tokens
      /\ e.replies = n.replies
  BY <1>3 DEF ChannelType
<1> HIDE DEF e
<1>5. /\ d \in ChannelType /\ d.state = e.state
      /\ d.join_ready = e.join_ready /\ d.tokens = e.tokens
      /\ d.replies = e.replies
  BY <1>4 DEF ChannelType
<1> HIDE DEF d
<1>6. c.tokens = {} /\ c.state # "JOINED"
  BY <1>1, <1>2 DEF ChannelOK, NoChannel, Exists
<1>7. ChannelOK(d, r \in Inviting) /\ d.state = "CREATED"
  BY <1>2, <1>3, <1>4, <1>5 DEF ChannelOK, Exists
<1>8. SameDue(c, d)
  BY <1>3, <1>4, <1>5, <1>6 DEF SameDue, Due
<1>9. ChannelsOK' /\ DueOK'
  BY <1>2, <1>7, <1>8, ChannelStep
<1>10. RoomsOK'
  BY <1>2, <1>6, <1>7, RoomsStay
<1>11. LinkOK'
  BY <1>2 DEF IInv, LinkOK
<1> QED
  BY <1>9, <1>10, <1>11 DEF IInv

(* The end of the connection, for every channel at once.                   *)
LEMMA EveryRoomLeft ==
    ASSUME IInv,
           chan' = [r \in Rooms |-> chan'[r]],
           \A r \in Rooms : /\ ChannelOK(chan'[r], r \in Inviting)
                            /\ SameDue(chan[r], chan'[r]),
           in_room' = [r \in Rooms |-> FALSE],
           wire' = [r \in Rooms |-> <<>>],
           link' \in {"closing", "down"},
           requested' = requested
    PROVE  IInv'
<1>1. \A r \in Rooms : chan'[r] \in ChannelType
  BY DEF ChannelOK
<1>2. chan' \in [Rooms -> ChannelType]
  BY <1>1
<1>3. ChannelsOK' /\ DueOK'
  BY <1>2, DueStep
<1>4. RoomsOK'
  BY DEF RoomsOK
<1>5. LinkOK'
  BY DEF IInv, LinkOK
<1> QED
  BY <1>3, <1>4, <1>5 DEF IInv

LEMMA QuitSelfKeepsIInv ==
    ASSUME IInv, NEW rs \in SUBSET Rooms, QuitSelf(rs)
    PROVE  IInv'
<1> DEFINE C(r) == IF r \in rs THEN MemberLeft(chan[r]) ELSE chan[r]
<1>1. \A r \in Rooms : /\ ChannelOK(C(r), r \in Inviting)
                       /\ SameDue(chan[r], C(r))
  <2> SUFFICES ASSUME NEW r \in Rooms
               PROVE  ChannelOK(C(r), r \in Inviting) /\ SameDue(chan[r], C(r))
    OBVIOUS
  <2>1. CASE r \in rs
    BY <2>1, RoomFacts, MemberLeftOK
  <2>2. CASE r \notin rs
    BY <2>2, RoomFacts DEF SameDue
  <2> QED
    BY <2>1, <2>2
<1>2. /\ chan' = [r \in Rooms |-> C(r)]
      /\ in_room' = [r \in Rooms |-> FALSE]
      /\ wire' = [r \in Rooms |-> <<>>]
      /\ link' = "closing" /\ requested' = requested
  BY DEF QuitSelf
<1> HIDE DEF C
<1>3. \A r \in Rooms : chan'[r] = C(r)
  BY <1>2
<1>4. chan' = [r \in Rooms |-> chan'[r]]
  BY <1>2
<1> QED
  BY <1>1, <1>2, <1>3, <1>4, EveryRoomLeft

LEMMA DisconnectedKeepsIInv ==
    ASSUME IInv, Disconnected
    PROVE  IInv'
<1>1. \A r \in Rooms : /\ ChannelOK(CloseAll(chan[r]), r \in Inviting)
                       /\ SameDue(chan[r], CloseAll(chan[r]))
  <2> SUFFICES ASSUME NEW r \in Rooms
               PROVE  /\ ChannelOK(CloseAll(chan[r]), r \in Inviting)
                      /\ SameDue(chan[r], CloseAll(chan[r]))
    OBVIOUS
  <2>1. CASE Exists(chan[r])
    BY <2>1, RoomFacts, DestroyedOK DEF CloseAll
  <2>2. CASE ~Exists(chan[r])
    BY <2>2, RoomFacts DEF CloseAll, SameDue
  <2> QED
    BY <2>1, <2>2
<1>2. /\ chan' = [r \in Rooms |-> CloseAll(chan[r])]
      /\ in_room' = [r \in Rooms |-> FALSE]
      /\ wire' = [r \in Rooms |-> <<>>]
      /\ link' = "down" /\ requested' = requested
  BY DEF Disconnected
<1>3. \A r \in Rooms : chan'[r] = CloseAll(chan[r])
  BY <1>2
<1>4. chan' = [r \in Rooms |-> chan'[r]]
  BY <1>2
<1> QED
  BY <1>1, <1>2, <1>3, <1>4, EveryRoomLeft

LEMMA NextKeepsIInv == IInv /\ [Next]_vars => IInv'
<1> SUFFICES ASSUME IInv, [Next]_vars PROVE IInv'
  OBVIOUS
<1>1. ASSUME NEW r \in Rooms, ClientNext(r) PROVE IInv'
  <2>1. CASE \E t \in Tokens : CreateChannel(r, t) \/ EnsureChannel(r, t)
    BY <2>1, RequestKeepsIInv
  <2>2. CASE \E t \in Tokens : RequestNewChannel(r, t)
    BY <2>2, RequestNewKeepsIInv
  <2>3. CASE AddSelf(r)
    BY <2>3, AddSelfKeepsIInv
  <2>4. CASE RemoveSelf(r)
    BY <2>4, PartKeepsIInv DEF RemoveSelf, ChannelCall, ClientCalls
  <2>5. CASE Close(r)
    BY <2>5, CloseKeepsIInv
  <2>6. CASE Destroy(r)
    <3>1. CASE chan[r].state = "JOINED"
      BY <2>6, <3>1, PartKeepsIInv DEF Destroy, ChannelCall, ClientCalls
    <3>2. CASE chan[r].state # "JOINED"
      BY <2>6, <3>2, CloseKeepsIInv
    <3> QED
      BY <3>1, <3>2
  <2>7. CASE ProvidePassword(r)
    BY <2>7, ProvidePasswordKeepsIInv
  <2> QED
    BY <1>1, <2>1, <2>2, <2>3, <2>4, <2>5, <2>6, <2>7 DEF ClientNext
<1>2. ASSUME NEW r \in Rooms,
             ServerHandles(r) \/ BouncerJoins(r) \/ Kick(r) \/ Invite(r)
      PROVE  IInv'
  BY <1>2, HandlesKeepIInv, UnaskedKeepsIInv, InviteKeepsIInv
<1>3. CASE \E rs \in SUBSET Rooms : QuitSelf(rs)
  BY <1>3, QuitSelfKeepsIInv
<1>4. CASE Disconnected
  BY <1>4, DisconnectedKeepsIInv
<1>5. CASE UNCHANGED vars
  <2>1. LinkOK'
    BY <1>5 DEF vars, IInv, LinkOK
  <2>2. ChannelsOK'
    BY <1>5 DEF vars, IInv, ChannelsOK
  <2>3. RoomsOK'
    BY <1>5 DEF vars, IInv, RoomsOK
  <2>4. DueOK'
    BY <1>5 DEF vars, IInv, DueOK, DueTo
  <2> QED
    BY <2>1, <2>2, <2>3, <2>4 DEF IInv
<1> QED
  BY <1>1, <1>2, <1>3, <1>4, <1>5 DEF Next

LEMMA AlwaysIInv == Spec => []IInv
BY InitIInv, NextKeepsIInv, PTL DEF Spec

-----------------------------------------------------------------------------
(* Every variable of the MUC manager has its type.                         *)
THEOREM TypeCorrect == Spec => []TypeOK
<1>1. IInv => TypeOK
  BY DEF IInv, LinkOK, ChannelsOK, RoomsOK, TypeOK
<1> QED
  BY <1>1, AlwaysIInv, PTL

(* A request is replied to exactly once, or waits for one channel that has *)
(* yet to become ready: what is due to its token is due by one room.       *)
THEOREM RequestCorrect == Spec => []RequestAnswered
<1>1. IInv => RequestAnswered
  <2> SUFFICES ASSUME IInv, NEW t \in Tokens
               PROVE  IF t \notin requested
                      THEN Waiting(t) = {} /\ Replied(t, 0)
                      ELSE \/ Waiting(t) = {} /\ Replied(t, 1)
                           \/ /\ Replied(t, 0)
                              /\ \E r \in Rooms :
                                    /\ Waiting(t) = {r}
                                    /\ Exists(chan[r]) /\ ~chan[r].join_ready
    BY DEF RequestAnswered
  <2>1. \A r \in Rooms :
           /\ chan[r].replies[t] \in Nat
           /\ Due(chan[r], t) = 0 => chan[r].replies[t] = 0
                                     /\ t \notin chan[r].tokens
           /\ Due(chan[r], t) = 1 => \/ /\ chan[r].replies[t] = 1
                                        /\ t \notin chan[r].tokens
                                     \/ /\ chan[r].replies[t] = 0
                                        /\ t \in chan[r].tokens
    <3> SUFFICES ASSUME NEW r \in Rooms
                 PROVE  /\ chan[r].replies[t] \in Nat
                        /\ Due(chan[r], t) = 0 => chan[r].replies[t] = 0
                                     /\ t \notin chan[r].tokens
                        /\ Due(chan[r], t) = 1 =>
                              \/ /\ chan[r].replies[t] = 1
                                 /\ t \notin chan[r].tokens
                              \/ /\ chan[r].replies[t] = 0
                                 /\ t \in chan[r].tokens
      OBVIOUS
    <3>1. chan[r].replies[t] \in Nat
      BY RoomFacts
    <3> QED
      BY <3>1 DEF Due
  <2>2. CASE t \notin requested
    <3>1. \A r \in Rooms : /\ chan[r].replies[t] = 0
                           /\ t \notin chan[r].tokens
      BY <2>1, <2>2 DEF IInv, DueOK
    <3>2. PICK r \in Rooms : TRUE
      BY MucManagerAssumption
    <3> QED
      BY <2>2, <3>1, <3>2 DEF Waiting, Replied
  <2>3. CASE t \in requested
    <3>1. PICK r \in Rooms : DueTo(t, r)
      BY <2>3 DEF IInv, DueOK
    <3>2. \A q \in Rooms \ {r} : /\ chan[q].replies[t] = 0
                                 /\ t \notin chan[q].tokens
      BY <2>1, <3>1 DEF DueTo
    <3>3. CASE chan[r].replies[t] = 1 /\ t \notin chan[r].tokens
      <4>1. Waiting(t) = {}
        BY <3>2, <3>3 DEF Waiting
      <4>2. Replied(t, 1)
        BY <3>2, <3>3 DEF Replied
      <4> QED
        BY <2>3, <4>1, <4>2
    <3>4. CASE chan[r].replies[t] = 0 /\ t \in chan[r].tokens
      <4>1. Waiting(t) = {r}
        BY <3>2, <3>4 DEF Waiting
      <4>2. Replied(t, 0)
        BY <3>2, <3>4 DEF Replied
      <4>3. Exists(chan[r]) /\ ~chan[r].join_ready
        <5>1. ChannelOK(chan[r], r \in Inviting)
          BY RoomFacts
        <5> QED
          BY <3>4, <5>1 DEF ChannelOK, NoChannel
      <4> QED
        BY <2>3, <4>1, <4>2, <4>3
    <3> QED
      BY <2>1, <3>1, <3>3, <3>4 DEF DueTo
  <2> QED
    BY <2>2, <2>3
<1> QED
  BY <1>1, AlwaysIInv, PTL

(* A room the user is in, for the server, has a channel that is joined and *)
(* has the user as a member.                                               *)
THEOREM InRoomCorrect == Spec => []InRoomIsJoined
<1>1. IInv => InRoomIsJoined
  BY RoomFacts DEF InRoomIsJoined, ChannelOK
<1> QED
  BY <1>1, AlwaysIInv, PTL

(* Where nobody invites, clients are asked for a password exactly while    *)
(* the room needs one.                                                     *)
THEOREM PromptCorrect == Spec => []PromptMatches
<1>1. IInv => PromptMatches
  <2> SUFFICES ASSUME IInv, NEW r \in Rooms \ Inviting
               PROVE  /\ chan[r].prompt <=> chan[r].state = "NEED_PASSWORD"
                      /\ chan[r].passwd_ctx => chan[r].prompt
    BY DEF PromptMatches
  <2>1. ChannelOK(chan[r], r \in Inviting)
    BY RoomFacts
  <2> QED
    BY <2>1 DEF ChannelOK, PromptOK
<1> QED
  BY <1>1, AlwaysIInv, PTL

(* Where nobody invites, clients are told of a channel once, from the      *)
(* moment it is ready.                                                     *)
THEOREM AnnouncedCorrect == Spec => []AnnouncedWhenReady
<1>1. IInv => AnnouncedWhenReady
  <2> SUFFICES ASSUME IInv, NEW r \in Rooms \ Inviting
               PROVE  AnnouncedOK(chan[r])
    BY DEF AnnouncedWhenReady, AnnouncedOK
  <2>1. ChannelOK(chan[r], r \in Inviting)
    BY RoomFacts
  <2> QED
    BY <2>1 DEF ChannelOK
<1> QED
  BY <1>1, AlwaysIInv, PTL
===============================================================================
