------------------------------ MODULE MucSubject ------------------------------
(***************************************************************************)
(* The topic of a room as an IdleMUCChannel keeps it, and what clients are *)
(* told of it, from the user's JOIN on.  Its properties are announced by   *)
(* way of an array that is static: what one call of                        *)
(* idle_muc_channel_topic_full() put there is still there for the next,    *)
(* also for the next channel.                                              *)
(***************************************************************************)
EXTENDS Integers, Sequences

CONSTANTS
    Texts,          \* topics, besides the empty one
    Actors,         \* handles of those who set them
    Stamps,         \* times
    MaxTopics       \* bound on the messages on their way

ASSUME MucSubjectAssumption ==
    /\ "" \notin Texts /\ 0 \notin Actors
    /\ Stamps \subseteq Nat \ {0} /\ MaxTopics \in Nat

VARIABLES
    topic,          \* the server: the topic, who set it and when
    topics,         \* messages on their way to the user
    subject,        \* priv->mode_state.topic, topic_toucher, topic_touched
    changed,        \* the static array of idle_muc_channel_topic_full()
    told            \* history: by property, the value clients know

subjectVars == <<topic, topics, subject, changed, told>>

Topic(text, actor, stamp) == [text |-> text, actor |-> actor, stamp |-> stamp]
MAXINT64 == -1      \* any number that is no time
NoTopic == Topic("", 0, MAXINT64)

SubjectProperties == {"Subject", "Timestamp", "Actor", "ActorHandle"}
ValueOf(s) == [p \in SubjectProperties |->
                  CASE p = "Subject" -> <<s.text>>
                    [] p = "Timestamp" -> <<s.stamp>>
                    [] OTHER -> <<s.actor>>]

(* RPL_TOPIC and RPL_TOPICWHOTIME, that a JOIN is answered with            *)
TopicReplies ==
    IF topic.text = "" THEN <<>>
    ELSE <<[code |-> "332", topic |-> topic], [code |-> "333", topic |-> topic]>>

(* A channel is new: clients get its properties with it.                   *)
NewSubject ==
    /\ subject' = NoTopic
    /\ told' = ValueOf(NoTopic)

SubjectInit ==
    /\ topic \in {NoTopic} \cup {Topic(x, a, s) : x \in Texts, a \in Actors,
                                                  s \in Stamps}
    /\ topics = TopicReplies
    /\ subject = NoTopic
    /\ changed = <<>>
    /\ told = ValueOf(NoTopic)

-----------------------------------------------------------------------------
(* idle_muc_channel_topic_full().  The text is not compared, only where it *)
(* is kept: a text that is given always counts as changed.                 *)
ForgetsActor(given, old, new) ==
    (IF given THEN <<"Subject">> ELSE <<>>)
    \o (IF new.stamp # old.stamp THEN <<"Timestamp">> ELSE <<>>)
ChangedBy(given, old, new) ==
    (IF given THEN <<"Subject">> ELSE <<>>)
    \o (IF new.stamp # old.stamp THEN <<"Timestamp">> ELSE <<>>)
    \o (IF new.actor # old.actor THEN <<"Actor", "ActorHandle">> ELSE <<>>)

(* What is written begins the array again, the rest of it stays.           *)
Written(array, names) ==
    names \o SubSeq(array, Len(names) + 1, Len(array))

TopicFull(given, new) ==
    /\ subject' = new
    /\ changed' = Written(changed, ChangedBy(given, subject, new))
    /\ told' = [p \in SubjectProperties |->
                   IF \E i \in DOMAIN changed' : changed'[i] = p
                   THEN ValueOf(new)[p] ELSE told[p]]

Received(code) ==
    /\ topics # <<>> /\ Head(topics).code = code
    /\ topics' = Tail(topics)
    /\ UNCHANGED topic

(* _topic_handler(): the time is that of its arrival; an empty topic       *)
(* leaves the optional argument out, idle_muc_channel_topic_unset().       *)
TopicSet(now) ==
    /\ Received("TOPIC")
    /\ LET t == Head(topics).topic
       IN  TopicFull(TRUE, IF t.text = "" THEN NoTopic
                           ELSE Topic(t.text, t.actor, now))

(* _numeric_topic_handler() -> idle_muc_channel_topic()                    *)
TopicReply ==
    /\ Received("332")
    /\ TopicFull(TRUE, [subject EXCEPT !.text = Head(topics).topic.text])

(* _numeric_topic_stamp_handler() -> idle_muc_channel_topic_touch()        *)
TopicStampReply ==
    /\ Received("333")
    /\ TopicFull(FALSE, [Head(topics).topic EXCEPT !.text = subject.text])

-----------------------------------------------------------------------------
(* Somebody sets the topic, or the user by idle_muc_channel_set_subject(), *)
(* which sends a TOPIC and changes nothing of the channel.                 *)
TopicOnServer(text, actor, stamp) ==
    /\ Len(topics) < MaxTopics
    /\ topic' = IF text = "" THEN NoTopic ELSE Topic(text, actor, stamp)
    /\ topics' = Append(topics, [code |-> "TOPIC",
                                 topic |-> Topic(text, actor, stamp)])
    /\ UNCHANGED <<subject, changed, told>>

(* The user parts, which makes an end of the channel, and joins again.     *)
RoomJoinedAgain ==
    /\ topics = <<>>
    /\ topics' = TopicReplies
    /\ NewSubject
    /\ UNCHANGED <<topic, changed>>

SubjectNext ==
    \/ \E now \in Stamps : TopicSet(now)
    \/ TopicReply \/ TopicStampReply \/ RoomJoinedAgain
    \/ \E text \in Texts \cup {""}, actor \in Actors, stamp \in Stamps :
          TopicOnServer(text, actor, stamp)

-----------------------------------------------------------------------------
(* Clients always know the subject, who set it and when, although only     *)
(* what the static array happens to hold is announced; and once all that   *)
(* the server sent has come, it is the topic of the room, in whichever     *)
(* pieces that came (idle_muc_channel_topic(), _topic_touch(), _full(),    *)
(* _unset()).                                                              *)
SubjectFollows ==
    /\ told = ValueOf(subject)
    /\ topics = <<>> => /\ subject.text = topic.text
                        /\ subject.actor = topic.actor
===============================================================================
