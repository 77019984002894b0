---------------------------- MODULE SendQueueProofs ----------------------------
(* Theorems about SendQueue, for every width of gint, every number of      *)
(* messages, timeout sources and pieces.                                   *)
EXTENDS SendQueue, SequenceTheorems, TLAPS

-----------------------------------------------------------------------------
(* The comparison and the sorted insertion.                                *)

(* The four priorities are distinct numbers of a guint's range.            *)
LEMMA PriorityRange ==
    /\ Priorities \subseteq 0 .. G_MAXUINT
    /\ SERVER_CMD_MIN_PRIORITY < SERVER_CMD_NORMAL_PRIORITY
    /\ SERVER_CMD_NORMAL_PRIORITY < SERVER_CMD_PASS_PRIORITY
    /\ SERVER_CMD_PASS_PRIORITY < SERVER_CMD_MAX_PRIORITY
BY GintAssumption
   DEF Priorities, G_MAXUINT, SERVER_CMD_MIN_PRIORITY,
       SERVER_CMD_NORMAL_PRIORITY, SERVER_CMD_PASS_PRIORITY,
       SERVER_CMD_MAX_PRIORITY

LEMMA PrioritiesAreNat == Priorities \subseteq Nat
BY GintAssumption
   DEF Priorities, G_MAXUINT, SERVER_CMD_MIN_PRIORITY,
       SERVER_CMD_NORMAL_PRIORITY, SERVER_CMD_PASS_PRIORITY,
       SERVER_CMD_MAX_PRIORITY

(* What pending_msg_compare really answers: the table of signs, with       *)
(* the two wrong ones (MAX after NORMAL, MAX after MIN).                   *)
LEMMA CompareSigns ==
    ASSUME NEW m1 \in PendingMsg, NEW m2 \in PendingMsg
    PROVE  /\ m1.priority = m2.priority =>
                 pending_msg_compare(m1, m2) = m1.id - m2.id
           /\ m1.priority = SERVER_CMD_MAX_PRIORITY
              /\ m2.priority = SERVER_CMD_NORMAL_PRIORITY =>
                 pending_msg_compare(m1, m2) < 0
           /\ m1.priority = SERVER_CMD_NORMAL_PRIORITY
              /\ m2.priority = SERVER_CMD_MAX_PRIORITY =>
                 pending_msg_compare(m1, m2) < 0
           /\ m1.priority = SERVER_CMD_MIN_PRIORITY
              /\ m2.priority = SERVER_CMD_MAX_PRIORITY =>
                 pending_msg_compare(m1, m2) < 0
           /\ m1.priority = SERVER_CMD_MIN_PRIORITY
              /\ m2.priority = SERVER_CMD_NORMAL_PRIORITY =>
                 pending_msg_compare(m1, m2) > 0
           /\ m1.priority = SERVER_CMD_PASS_PRIORITY
              /\ m2.priority = SERVER_CMD_MAX_PRIORITY =>
                 pending_msg_compare(m1, m2) > 0
           /\ m1.priority = SERVER_CMD_PASS_PRIORITY
              /\ m2.priority = SERVER_CMD_NORMAL_PRIORITY =>
                 pending_msg_compare(m1, m2) < 0
BY GintAssumption
   DEF PendingMsg, Priorities, pending_msg_compare, GuintSub, ToGint,
       G_MAXUINT, SERVER_CMD_MIN_PRIORITY, SERVER_CMD_NORMAL_PRIORITY,
       SERVER_CMD_PASS_PRIORITY, SERVER_CMD_MAX_PRIORITY

LEMMA CompareInt ==
    ASSUME NEW m1 \in PendingMsg, NEW m2 \in PendingMsg
    PROVE  pending_msg_compare(m1, m2) \in Int
<1>1. m1.priority \in Int /\ m2.priority \in Int
  <2>1. m1.priority \in Priorities /\ m2.priority \in Priorities
    BY DEF PendingMsg
  <2>2. m1.priority \in Nat /\ m2.priority \in Nat
    BY <2>1, PrioritiesAreNat, Zenon
  <2>. QED
    BY <2>2
<1>2. m1.id \in Int /\ m2.id \in Int
  BY DEF PendingMsg
<1>3. G_MAXUINT \in Int
  BY GintAssumption DEF G_MAXUINT
<1>4. GuintSub(m2.priority, m1.priority) \in Int
  BY <1>1, <1>3 DEF GuintSub
<1>5. ToGint(GuintSub(m2.priority, m1.priority)) \in Int
  BY <1>3, <1>4 DEF ToGint
<1>. QED
  BY <1>2, <1>5 DEF pending_msg_compare

(* Inserting keeps a sequence of messages one, longer by the new message.  *)
LEMMA InsertBeforeType ==
    ASSUME NEW q \in Seq(PendingMsg), NEW m \in PendingMsg,
           NEW p \in 1 .. Len(q) + 1
    PROVE  /\ InsertBefore(q, p, m) \in Seq(PendingMsg)
           /\ Len(InsertBefore(q, p, m)) = Len(q) + 1
           /\ InsertBefore(q, p, m) # <<>>
           /\ \A i \in 1 .. Len(q) + 1 :
                 InsertBefore(q, p, m)[i] =
                    IF i < p THEN q[i] ELSE IF i = p THEN m ELSE q[i - 1]
<1>. DEFINE r == InsertBefore(q, p, m)
<1>1. DOMAIN r = 1 .. Len(q) + 1
  BY DEF InsertBefore
<1>2. \A i \in 1 .. Len(q) + 1 :
         r[i] = IF i < p THEN q[i] ELSE IF i = p THEN m ELSE q[i - 1]
  BY DEF InsertBefore
<1>3. \A i \in 1 .. Len(q) + 1 : r[i] \in PendingMsg
  BY <1>2
<1>4. r = [i \in 1 .. Len(q) + 1 |-> r[i]]
  BY <1>1 DEF InsertBefore
<1>5. r \in [1 .. Len(q) + 1 -> PendingMsg]
  BY <1>3, <1>4
<1>6. Len(q) + 1 \in Nat
  OBVIOUS
<1>7. r \in Seq(PendingMsg)
  BY <1>5, <1>6, SeqDef
<1>8. Len(r) = Len(q) + 1
  BY <1>1, <1>6, <1>7, LenProperties
<1>9. r # <<>>
  BY <1>8
<1>. QED
  BY <1>2, <1>7, <1>8, <1>9

-----------------------------------------------------------------------------
(* The queue.                                                              *)

Ages == {Dead} \cup 0 .. MSG_QUEUE_TIMEOUT

QueueVarsType ==
    /\ queue \in Seq(PendingMsg)
    /\ sources \in [SourceIds -> Ages]
    /\ msg_queue_timeout \in SourceIds \cup {0}

WriteVarsType ==
    /\ msg_sending \in BOOLEAN
    /\ writes \subseteq [id : Nat, kind : {"write", "error"}]
    /\ output_buffer \in Nat \cup {NoMsg}
    /\ nwritten \in 0 .. Pieces
    /\ last_out \in [Priorities -> Int]
    /\ since_out \in 0 .. MSG_QUEUE_TIMEOUT

OtherVarsType ==
    /\ last_id \in 0 .. MaxMsgs
    /\ since_sent \in 0 .. MSG_QUEUE_TIMEOUT + 1
    /\ pinging \in BOOLEAN
    /\ link \in Links
    /\ reset \in BOOLEAN
    /\ handshake \in Seq(Priorities)
    /\ unchecked \in BOOLEAN

LEMMA TypeSplit == TypeOK <=> QueueVarsType /\ WriteVarsType /\ OtherVarsType
BY DEF TypeOK, QueueVarsType, WriteVarsType, OtherVarsType, Ages

LEMMA TypeSplitPrime ==
    TypeOK' <=> QueueVarsType' /\ WriteVarsType' /\ OtherVarsType'
BY DEF TypeOK, QueueVarsType, WriteVarsType, OtherVarsType, Ages

-----------------------------------------------------------------------------
LEMMA ReturnedType ==
    ASSUME NEW srcs \in [SourceIds -> Ages], NEW fired, NEW result \in BOOLEAN
    PROVE  Returned(srcs, fired, result) \in [SourceIds -> Ages]
BY DEF Returned, Ages, MSG_QUEUE_TIMEOUT

LEMMA SendAsyncType ==
    ASSUME WriteVarsType, NEW msg \in PendingMsg, send_async(msg),
           msg_sending' \in BOOLEAN
    PROVE  WriteVarsType'
<1>1. last_out' \in [Priorities -> Int]
  BY DEF WriteVarsType, send_async, PendingMsg
<1>2. Write(msg, "write") \in [id : Nat, kind : {"write", "error"}]
  BY DEF Write, PendingMsg
<1>3. Write(msg, "error") \in [id : Nat, kind : {"write", "error"}]
  BY DEF Write, PendingMsg
<1>4. writes' \subseteq [id : Nat, kind : {"write", "error"}]
  BY <1>2, <1>3 DEF WriteVarsType, send_async
<1>5. output_buffer' \in Nat \cup {NoMsg} /\ nwritten' \in 0 .. Pieces
  BY SendQueueAssumption DEF WriteVarsType, send_async, PendingMsg
<1>6. since_out' \in 0 .. MSG_QUEUE_TIMEOUT
  BY DEF send_async, MSG_QUEUE_TIMEOUT
<1>. QED
  BY <1>1, <1>4, <1>5, <1>6 DEF WriteVarsType

(* msg_queue_timeout_cb() keeps the types, wherever it is called from.     *)
LEMMA CallbackType ==
    ASSUME WriteVarsType,
           NEW q \in Seq(PendingMsg), NEW srcs \in [SourceIds -> Ages],
           NEW timer \in SourceIds \cup {0}, NEW fired,
           msg_queue_timeout_cb(q, srcs, timer, fired)
    PROVE  QueueVarsType' /\ WriteVarsType'
<1>1. sources' \in [SourceIds -> Ages]
  BY ReturnedType DEF msg_queue_timeout_cb
<1>2. msg_queue_timeout' \in SourceIds \cup {0}
  BY DEF msg_queue_timeout_cb, ForgetTimer
<1>3. CASE queue' = q /\ UNCHANGED writeVars
  BY <1>1, <1>2, <1>3 DEF QueueVarsType, WriteVarsType, writeVars
<1>4. CASE /\ q # <<>>
           /\ queue' = Tail(q)
           /\ msg_sending' = TRUE
           /\ send_async(Head(q))
  <2>1. Head(q) \in PendingMsg /\ Tail(q) \in Seq(PendingMsg)
    BY <1>4, HeadTailProperties
  <2>2. WriteVarsType'
    BY <1>4, <2>1, SendAsyncType
  <2>. QED
    BY <1>1, <1>2, <1>4, <2>1, <2>2 DEF QueueVarsType
<1>. QED
  BY <1>3, <1>4 DEF msg_queue_timeout_cb

LEMMA AddTimeoutType ==
    ASSUME QueueVarsType, WriteVarsType, NEW q \in Seq(PendingMsg),
           add_queue_timeout(q)
    PROVE  QueueVarsType' /\ WriteVarsType'
<1>1. CASE queue' = q /\ UNCHANGED <<timerVars, writeVars>>
  BY <1>1 DEF QueueVarsType, WriteVarsType, timerVars, writeVars
<1>2. ASSUME NEW s \in SourceIds,
             LET armed == [sources EXCEPT ![s] = 0]
             IN  \/ msg_queue_timeout_cb(q, armed, s, 0)
                 \/ /\ queue' = q
                    /\ sources' = armed
                    /\ msg_queue_timeout' = s
                    /\ UNCHANGED writeVars
      PROVE  QueueVarsType' /\ WriteVarsType'
  <2>. DEFINE armed == [sources EXCEPT ![s] = 0]
  <2>1. armed \in [SourceIds -> Ages]
    BY DEF QueueVarsType, Ages, MSG_QUEUE_TIMEOUT
  <2>2. CASE msg_queue_timeout_cb(q, armed, s, 0)
    BY <2>1, <2>2, CallbackType
  <2>3. CASE /\ queue' = q
             /\ sources' = armed
             /\ msg_queue_timeout' = s
             /\ UNCHANGED writeVars
    BY <2>1, <2>3 DEF QueueVarsType, WriteVarsType, writeVars
  <2>. QED
    BY <1>2, <2>2, <2>3
<1>. QED
  BY <1>1, <1>2 DEF add_queue_timeout

LEMMA SendType ==
    ASSUME QueueVarsType, WriteVarsType, last_id \in 0 .. MaxMsgs,
           NEW prio \in Priorities, send_with_priority(prio)
    PROVE  QueueVarsType' /\ WriteVarsType' /\ last_id' \in 0 .. MaxMsgs
<1>. DEFINE msg == [priority |-> prio, id |-> last_id]
<1>1. msg \in PendingMsg
  BY SendQueueAssumption DEF PendingMsg
<1>2. last_id' \in 0 .. MaxMsgs
  BY SendQueueAssumption DEF send_with_priority
<1>3. PICK p \in 1 .. Len(queue) + 1 :
         add_queue_timeout(InsertBefore(queue, p, msg))
  BY DEF send_with_priority
<1>4. InsertBefore(queue, p, msg) \in Seq(PendingMsg)
  BY <1>1, InsertBeforeType DEF QueueVarsType
<1>. QED
  BY <1>2, <1>3, <1>4, AddTimeoutType

-----------------------------------------------------------------------------
LEMMA TypeInit == Init => TypeOK
<1>. SUFFICES ASSUME Init PROVE TypeOK
  OBVIOUS
<1>1. QueueVarsType
  BY DEF Init, QueueVarsType, Ages
<1>2. last_out \in [Priorities -> Int]
  BY DEF Init
<1>3. since_out \in 0 .. MSG_QUEUE_TIMEOUT /\ nwritten \in 0 .. Pieces
  BY SendQueueAssumption DEF Init, MSG_QUEUE_TIMEOUT
<1>4. WriteVarsType
  BY <1>2, <1>3 DEF Init, WriteVarsType
<1>5. since_sent \in 0 .. MSG_QUEUE_TIMEOUT + 1 /\ last_id \in 0 .. MaxMsgs
  BY SendQueueAssumption DEF Init, MSG_QUEUE_TIMEOUT
<1>6. handshake \in Seq(Priorities)
  BY EmptySeq DEF Init
<1>7. /\ pinging \in BOOLEAN /\ reset \in BOOLEAN /\ unchecked \in BOOLEAN
      /\ link \in Links
  BY DEF Init, Links
<1>8. OtherVarsType
  BY <1>5, <1>6, <1>7 DEF OtherVarsType
<1>. QED
  BY <1>1, <1>4, <1>8, TypeSplit

LEMMA TypeStep == TypeOK /\ [Next]_vars => TypeOK'
<1>. SUFFICES ASSUME TypeOK, [Next]_vars PROVE TypeOK'
  OBVIOUS
<1>0. QueueVarsType /\ WriteVarsType /\ OtherVarsType
  BY TypeSplit
<1>1. CASE ConnectReady
  <2>1. [i \in 1 .. 3 |-> SERVER_CMD_NORMAL_PRIORITY] \in Seq(Priorities)
    <3>1. [i \in 1 .. 3 |-> SERVER_CMD_NORMAL_PRIORITY] \in [1 .. 3 -> Priorities]
      BY DEF Priorities
    <3>. QED
      BY <3>1, SeqDef
  <2>2. <<SERVER_CMD_PASS_PRIORITY>> \in Seq(Priorities)
    BY DEF Priorities
  <2>3. handshake' \in Seq(Priorities)
    BY <1>1, <2>1, <2>2, ConcatProperties DEF ConnectReady
  <2>. QED
    BY <1>0, <1>1, <2>3, TypeSplitPrime
       DEF ConnectReady, QueueVarsType, WriteVarsType, OtherVarsType, timerVars,
           writeVars, Links
<1>2. CASE HandshakeSend
  <2>1. Head(handshake) \in Priorities /\ Tail(handshake) \in Seq(Priorities)
    BY <1>0, <1>2, HeadTailProperties DEF HandshakeSend, Idle, OtherVarsType
  <2>2. QueueVarsType' /\ WriteVarsType' /\ last_id' \in 0 .. MaxMsgs
    BY <1>0, <1>2, <2>1, SendType DEF HandshakeSend, OtherVarsType
  <2>. QED
    BY <1>0, <1>2, <2>1, <2>2, TypeSplitPrime DEF HandshakeSend, OtherVarsType
<1>3. CASE Send
  <2>1. QueueVarsType' /\ WriteVarsType' /\ last_id' \in 0 .. MaxMsgs
    BY <1>0, <1>3, SendType DEF Send, OtherVarsType, Priorities
  <2>. QED
    BY <1>0, <1>3, <2>1, TypeSplitPrime DEF Send, OtherVarsType
<1>4. CASE SendUrgent
  <2>1. QueueVarsType' /\ WriteVarsType' /\ last_id' \in 0 .. MaxMsgs
    BY <1>0, <1>4, SendType DEF SendUrgent, OtherVarsType, Priorities
  <2>. QED
    BY <1>0, <1>4, <2>1, TypeSplitPrime DEF SendUrgent, OtherVarsType
<1>5. CASE SendPing
  <2>1. QueueVarsType' /\ WriteVarsType' /\ last_id' \in 0 .. MaxMsgs
    BY <1>0, <1>5, SendType DEF SendPing, OtherVarsType, Priorities
  <2>. QED
    BY <1>0, <1>5, <2>1, TypeSplitPrime DEF SendPing, OtherVarsType
<1>6. CASE Pong
  BY <1>0, <1>6, TypeSplitPrime
     DEF Pong, QueueVarsType, WriteVarsType, OtherVarsType, timerVars, writeVars
<1>7. CASE Welcome
  <2>1. QueueVarsType' /\ WriteVarsType'
    BY <1>0, <1>7, AddTimeoutType DEF Welcome, QueueVarsType
  <2>. QED
    BY <1>0, <1>7, <2>1, TypeSplitPrime DEF Welcome, OtherVarsType
<1>8. ASSUME NEW s \in SourceIds, SourceFires(s) PROVE TypeOK'
  <2>1. QueueVarsType' /\ WriteVarsType'
    BY <1>0, <1>8, CallbackType DEF SourceFires, QueueVarsType
  <2>. QED
    BY <1>0, <1>8, <2>1, TypeSplitPrime DEF SourceFires, OtherVarsType
<1>9. ASSUME NEW w \in writes, WriteReady(w) PROVE TypeOK'
  <2>1. nwritten' \in 0 .. Pieces
    BY <1>0, <1>9, SendQueueAssumption DEF WriteReady, WriteVarsType
  <2>2. msg_sending' \in BOOLEAN
    BY <1>0, <1>9 DEF WriteReady, WriteVarsType
  <2>3. writes' \subseteq writes
    BY <1>9 DEF WriteReady
  <2>4. since_sent' \in 0 .. MSG_QUEUE_TIMEOUT + 1
    BY <1>0, <1>9 DEF WriteReady, OtherVarsType, MSG_QUEUE_TIMEOUT
  <2>. QED
    BY <1>0, <1>9, <2>1, <2>2, <2>3, <2>4, TypeSplitPrime
       DEF WriteReady, QueueVarsType, WriteVarsType, OtherVarsType, timerVars
<1>10. ASSUME NEW w \in writes, WriteFails(w) PROVE TypeOK'
  BY <1>0, <1>10, TypeSplitPrime
     DEF WriteFails, StopsSending, QueueVarsType, WriteVarsType, OtherVarsType,
         timerVars
<1>11. CASE PeerResets
  BY <1>0, <1>11, TypeSplitPrime
     DEF PeerResets, QueueVarsType, WriteVarsType, OtherVarsType, timerVars,
         writeVars
<1>12. CASE CloseStream
  BY <1>0, <1>12, TypeSplitPrime
     DEF CloseStream, QueueVarsType, WriteVarsType, OtherVarsType, timerVars,
         writeVars, Links
<1>13. CASE StreamClosed
  BY <1>0, <1>13, TypeSplitPrime
     DEF StreamClosed, clear_queue_timeout, QueueVarsType, WriteVarsType,
         OtherVarsType, writeVars, Links, Ages
<1>14. CASE Tick
  <2>1. sources' \in [SourceIds -> Ages]
    BY <1>0, <1>14 DEF Tick, QueueVarsType, Ages, Min2, MSG_QUEUE_TIMEOUT, Dead
  <2>2. /\ since_sent' \in 0 .. MSG_QUEUE_TIMEOUT + 1
        /\ since_out' \in 0 .. MSG_QUEUE_TIMEOUT
    BY <1>0, <1>14
       DEF Tick, WriteVarsType, OtherVarsType, Min2, MSG_QUEUE_TIMEOUT
  <2>. QED
    BY <1>0, <1>14, <2>1, <2>2, TypeSplitPrime
       DEF Tick, QueueVarsType, WriteVarsType, OtherVarsType
<1>15. CASE UNCHANGED vars
  BY <1>0, <1>15, TypeSplitPrime
     DEF vars, QueueVarsType, WriteVarsType, OtherVarsType, timerVars, writeVars
<1>. QED
  BY <1>1, <1>2, <1>3, <1>4, <1>5, <1>6, <1>7, <1>8, <1>9, <1>10, <1>11, <1>12,
     <1>13, <1>14, <1>15 DEF Next

(* Every variable of the output queue has its type in every state.         *)
THEOREM TypeCorrect == Spec => []TypeOK
BY TypeInit, TypeStep, PTL DEF Spec

-----------------------------------------------------------------------------
(* Order.  FIFO per priority is not inductive: with the comparison as it   *)
(* is, a message could be inserted before an equal one if a PING stood     *)
(* before it (the comparison stops there) or, for an urgent one, a PASS.   *)
(* It holds because of who sends when: a PING only into an empty queue,    *)
(* a PASS only before anything urgent.                                     *)
Fifo(q) ==
    \A i, j \in 1 .. Len(q) :
        i < j /\ q[i].priority = q[j].priority => q[i].id < q[j].id

OnlyUrgentAfterPing(q) ==
    \A i, j \in 1 .. Len(q) :
        i < j /\ q[i].priority = SERVER_CMD_MIN_PRIORITY
            => q[j].priority = SERVER_CMD_MAX_PRIORITY

NothingUrgentAfterPass(q) ==
    \A i, j \in 1 .. Len(q) :
        i < j /\ q[i].priority = SERVER_CMD_PASS_PRIORITY
            => q[j].priority # SERVER_CMD_MAX_PRIORITY

OlderThan(q, n) == \A i \in 1 .. Len(q) : q[i].id < n

Ordered(q) == Fifo(q) /\ OnlyUrgentAfterPing(q) /\ NothingUrgentAfterPass(q)

AllNormal(q) ==
    \A i \in 1 .. Len(q) : q[i].priority = SERVER_CMD_NORMAL_PRIORITY

(* What a sender of priority prio finds in the queue.                      *)
MayInsert(q, prio) ==
    \/ prio \in {SERVER_CMD_NORMAL_PRIORITY, SERVER_CMD_MAX_PRIORITY}
    \/ prio = SERVER_CMD_PASS_PRIORITY /\ AllNormal(q)
    \/ q = <<>>

(* Inserting where the comparison says keeps the queue ordered.            *)
LEMMA InsertKeepsOrder ==
    ASSUME NEW q \in Seq(PendingMsg), NEW m \in PendingMsg,
           NEW p \in 1 .. Len(q) + 1, IsInsertPosition(q, m, p),
           Ordered(q), OlderThan(q, m.id), MayInsert(q, m.priority)
    PROVE  Ordered(InsertBefore(q, p, m))
<1>. DEFINE r == InsertBefore(q, p, m)
<1>1. /\ Len(r) = Len(q) + 1
      /\ \A i \in 1 .. Len(q) + 1 :
            r[i] = IF i < p THEN q[i] ELSE IF i = p THEN m ELSE q[i - 1]
  BY InsertBeforeType
<1>2. \A i \in 1 .. Len(q) : q[i] \in PendingMsg
  OBVIOUS
<1>3. ASSUME NEW k \in 1 .. Len(q), k < p
      PROVE  /\ ~ (q[k].priority = SERVER_CMD_MIN_PRIORITY
                   /\ m.priority = SERVER_CMD_NORMAL_PRIORITY)
             /\ ~ (q[k].priority = SERVER_CMD_PASS_PRIORITY
                   /\ m.priority = SERVER_CMD_MAX_PRIORITY)
  <2>1. pending_msg_compare(q[k], m) < 0
    BY <1>3 DEF IsInsertPosition
  <2>2. pending_msg_compare(q[k], m) > 0 => FALSE
    <3>1. pending_msg_compare(q[k], m) \in Int
      BY <1>2, CompareInt
    <3>. QED
      BY <2>1, <3>1
  <2>. QED
    BY <1>2, <2>2, CompareSigns
<1>4. \A k \in 1 .. Len(q) : k >= p => q[k].priority # m.priority
  <2>. SUFFICES ASSUME NEW k \in 1 .. Len(q), k >= p,
                       q[k].priority = m.priority
                PROVE  FALSE
    OBVIOUS
  <2>1. p \in 1 .. Len(q)
    OBVIOUS
  <2>2. ~ (pending_msg_compare(q[p], m) < 0)
    <3>1. pending_msg_compare(q[p], m) \in Int
      BY <1>2, <2>1, CompareInt
    <3>. QED
      BY <2>1, <3>1 DEF IsInsertPosition
  <2>3. q[p].id < m.id /\ q[p].id \in Int /\ m.id \in Int
    BY <1>2, <2>1 DEF OlderThan, PendingMsg
  <2>4. q[p].priority # m.priority
    BY <1>2, <2>1, <2>2, <2>3, CompareSigns
  <2>5. p < k
    BY <2>4
  <2>6. CASE m.priority = SERVER_CMD_NORMAL_PRIORITY
    <3>1. q[p].priority = SERVER_CMD_MIN_PRIORITY
      BY <1>2, <2>1, <2>2, <2>4, <2>6, CompareSigns DEF PendingMsg, Priorities
    <3>2. q[k].priority = SERVER_CMD_MAX_PRIORITY
      BY <2>1, <2>5, <3>1 DEF Ordered, OnlyUrgentAfterPing
    <3>. QED
      BY <2>6, <3>2, GintAssumption
         DEF SERVER_CMD_NORMAL_PRIORITY, SERVER_CMD_MAX_PRIORITY, G_MAXUINT
  <2>7. CASE m.priority = SERVER_CMD_MAX_PRIORITY
    <3>1. q[p].priority = SERVER_CMD_PASS_PRIORITY
      BY <1>2, <2>1, <2>2, <2>4, <2>7, CompareSigns DEF PendingMsg, Priorities
    <3>. QED
      BY <2>1, <2>5, <2>7, <3>1 DEF Ordered, NothingUrgentAfterPass
  <2>8. CASE m.priority = SERVER_CMD_PASS_PRIORITY /\ AllNormal(q)
    BY <2>8, GintAssumption
       DEF AllNormal, SERVER_CMD_NORMAL_PRIORITY, SERVER_CMD_PASS_PRIORITY
  <2>9. CASE q = <<>>
    BY <2>9
  <2>. QED
    BY <2>6, <2>7, <2>8, <2>9 DEF MayInsert
<1>5. Fifo(r)
  <2>. SUFFICES ASSUME NEW i \in 1 .. Len(q) + 1, NEW j \in 1 .. Len(q) + 1,
                       i < j, r[i].priority = r[j].priority
                PROVE  r[i].id < r[j].id
    BY <1>1 DEF Fifo
  <2>1. CASE j < p
    BY <1>1, <2>1 DEF Ordered, Fifo
  <2>2. CASE j = p
    BY <1>1, <2>2 DEF OlderThan
  <2>3. CASE i < p /\ p < j
    <3>1. /\ r[i] = q[i] /\ r[j] = q[j - 1]
          /\ i \in 1 .. Len(q) /\ j - 1 \in 1 .. Len(q) /\ i < j - 1
      BY <1>1, <2>3
    <3>. QED
      BY <3>1 DEF Ordered, Fifo
  <2>4. CASE i = p
    <3>1. r[i] = m /\ r[j] = q[j - 1] /\ j - 1 \in 1 .. Len(q) /\ j - 1 >= p
      BY <1>1, <2>4
    <3>. QED
      BY <1>4, <3>1
  <2>5. CASE p < i
    <3>1. i - 1 \in 1 .. Len(q) /\ j - 1 \in 1 .. Len(q) /\ i - 1 < j - 1
      BY <2>5
    <3>2. r[i] = q[i - 1] /\ r[j] = q[j - 1]
      BY <1>1, <2>5
    <3>. QED
      BY <3>1, <3>2 DEF Ordered, Fifo
  <2>. QED
    BY <2>1, <2>2, <2>3, <2>4, <2>5
<1>6. OnlyUrgentAfterPing(r)
  <2>. SUFFICES ASSUME NEW i \in 1 .. Len(q) + 1, NEW j \in 1 .. Len(q) + 1,
                       i < j, r[i].priority = SERVER_CMD_MIN_PRIORITY
                PROVE  r[j].priority = SERVER_CMD_MAX_PRIORITY
    BY <1>1 DEF OnlyUrgentAfterPing
  <2>0. CASE q = <<>>
    BY <2>0
  <2>1. CASE i = p
    BY <1>1, <2>0, <2>1, PriorityRange, GintAssumption
       DEF MayInsert, SERVER_CMD_MIN_PRIORITY, SERVER_CMD_NORMAL_PRIORITY,
           SERVER_CMD_PASS_PRIORITY, SERVER_CMD_MAX_PRIORITY, G_MAXUINT
  <2>2. CASE j < p
    BY <1>1, <2>2 DEF Ordered, OnlyUrgentAfterPing
  <2>3. CASE j = p
    <3>1. r[i] = q[i] /\ r[j] = m /\ i \in 1 .. Len(q)
      BY <1>1, <2>3
    <3>2. m.priority # SERVER_CMD_NORMAL_PRIORITY
      BY <1>3, <2>3, <3>1
    <3>3. ~ AllNormal(q)
      BY <3>1, GintAssumption
         DEF AllNormal, SERVER_CMD_MIN_PRIORITY, SERVER_CMD_NORMAL_PRIORITY
    <3>. QED
      BY <2>0, <3>1, <3>2, <3>3 DEF MayInsert
  <2>4. CASE i < p /\ p < j
    BY <1>1, <2>4 DEF Ordered, OnlyUrgentAfterPing
  <2>5. CASE p < i
    <3>1. i - 1 \in 1 .. Len(q) /\ j - 1 \in 1 .. Len(q) /\ i - 1 < j - 1
      BY <2>5
    <3>2. r[i] = q[i - 1] /\ r[j] = q[j - 1]
      BY <1>1, <2>5
    <3>. QED
      BY <3>1, <3>2 DEF Ordered, OnlyUrgentAfterPing
  <2>. QED
    BY <2>1, <2>2, <2>3, <2>4, <2>5
<1>7. NothingUrgentAfterPass(r)
  <2>. SUFFICES ASSUME NEW i \in 1 .. Len(q) + 1, NEW j \in 1 .. Len(q) + 1,
                       i < j, r[i].priority = SERVER_CMD_PASS_PRIORITY,
                       r[j].priority = SERVER_CMD_MAX_PRIORITY
                PROVE  FALSE
    BY <1>1 DEF NothingUrgentAfterPass
  <2>0. CASE q = <<>>
    BY <2>0
  <2>1. CASE i = p
    <3>1. r[i] = m /\ r[j] = q[j - 1] /\ j - 1 \in 1 .. Len(q)
      BY <1>1, <2>1
    <3>2. ~ AllNormal(q)
      BY <3>1, GintAssumption
         DEF AllNormal, SERVER_CMD_MAX_PRIORITY, SERVER_CMD_NORMAL_PRIORITY,
             G_MAXUINT
    <3>3. m.priority # SERVER_CMD_NORMAL_PRIORITY
          /\ m.priority # SERVER_CMD_MAX_PRIORITY
      BY <3>1, GintAssumption
         DEF SERVER_CMD_MAX_PRIORITY, SERVER_CMD_NORMAL_PRIORITY,
             SERVER_CMD_PASS_PRIORITY, G_MAXUINT
    <3>. QED
      BY <2>0, <3>2, <3>3 DEF MayInsert
  <2>2. CASE j < p
    BY <1>1, <2>2 DEF Ordered, NothingUrgentAfterPass
  <2>3. CASE j = p
    <3>1. r[i] = q[i] /\ r[j] = m /\ i \in 1 .. Len(q)
      BY <1>1, <2>3
    <3>. QED
      BY <1>3, <2>3, <3>1
  <2>4. CASE i < p /\ p < j
    BY <1>1, <2>4 DEF Ordered, NothingUrgentAfterPass
  <2>5. CASE p < i
    <3>1. i - 1 \in 1 .. Len(q) /\ j - 1 \in 1 .. Len(q) /\ i - 1 < j - 1
      BY <2>5
    <3>2. r[i] = q[i - 1] /\ r[j] = q[j - 1]
      BY <1>1, <2>5
    <3>. QED
      BY <3>1, <3>2 DEF Ordered, NothingUrgentAfterPass
  <2>. QED
    BY <2>1, <2>2, <2>3, <2>4, <2>5
<1>. QED
  BY <1>5, <1>6, <1>7 DEF Ordered

(* The order of queue q whose next message will get id n, after out[p] was *)
(* the last of priority p to leave.                                        *)
OrderInv(q, out, n) ==
    /\ Ordered(q)
    /\ OlderThan(q, n)
    /\ \A p \in Priorities : out[p] < n
    /\ \A i \in 1 .. Len(q) : out[q[i].priority] < q[i].id

(* irc_handshakes() sends its PASS first, before anything urgent.          *)
HandshakeInv ==
    /\ handshake # <<>> => link = "up"
    /\ \A i \in 1 .. Len(handshake) :
          \/ handshake[i] = SERVER_CMD_NORMAL_PRIORITY
          \/ i = 1 /\ handshake[i] = SERVER_CMD_PASS_PRIORITY
    /\ link = "down" => AllNormal(queue)
    /\ handshake # <<>> /\ handshake[1] = SERVER_CMD_PASS_PRIORITY
          => AllNormal(queue)

FifoInv == OrderInv(queue, last_out, last_id) /\ HandshakeInv

LEMMA PopKeepsOrder ==
    ASSUME NEW q \in Seq(PendingMsg), q # <<>>, NEW n \in Nat,
           NEW out \in [Priorities -> Int], OrderInv(q, out, n)
    PROVE  OrderInv(Tail(q), [out EXCEPT ![Head(q).priority] = Head(q).id], n)
<1>. DEFINE r == Tail(q)
            o == [out EXCEPT ![Head(q).priority] = Head(q).id]
<1>1. /\ r \in Seq(PendingMsg) /\ Len(r) = Len(q) - 1
      /\ \A i \in 1 .. Len(r) : r[i] = q[i + 1]
      /\ \A i \in 1 .. Len(r) : i + 1 \in 1 .. Len(q)
      /\ Head(q) = q[1] /\ 1 \in 1 .. Len(q)
  BY HeadTailProperties
<1>2. Ordered(r)
  <2>1. Fifo(r)
    BY <1>1 DEF OrderInv, Ordered, Fifo
  <2>2. OnlyUrgentAfterPing(r)
    BY <1>1 DEF OrderInv, Ordered, OnlyUrgentAfterPing
  <2>3. NothingUrgentAfterPass(r)
    BY <1>1 DEF OrderInv, Ordered, NothingUrgentAfterPass
  <2>. QED
    BY <2>1, <2>2, <2>3 DEF Ordered
<1>3. OlderThan(r, n)
  BY <1>1 DEF OrderInv, OlderThan
<1>4. \A i \in 1 .. Len(q) : q[i].priority \in Priorities /\ q[i].id \in Nat
  <2>1. \A i \in 1 .. Len(q) : q[i] \in PendingMsg
    OBVIOUS
  <2>. QED
    BY <2>1 DEF PendingMsg
<1>5. \A p \in Priorities : o[p] = IF p = q[1].priority THEN q[1].id ELSE out[p]
  BY <1>1
<1>6. \A p \in Priorities : o[p] < n
  BY <1>1, <1>5 DEF OrderInv, OlderThan
<1>7. \A i \in 1 .. Len(r) : o[r[i].priority] < r[i].id
  <2>. SUFFICES ASSUME NEW i \in 1 .. Len(r) PROVE o[r[i].priority] < r[i].id
    OBVIOUS
  <2>1. r[i] = q[i + 1] /\ i + 1 \in 1 .. Len(q) /\ 1 < i + 1
    BY <1>1
  <2>2. r[i].priority \in Priorities
    BY <1>4, <2>1
  <2>3. CASE r[i].priority = q[1].priority
    BY <1>1, <1>5, <2>1, <2>2, <2>3 DEF OrderInv, Ordered, Fifo
  <2>4. CASE r[i].priority # q[1].priority
    BY <1>5, <2>1, <2>2, <2>4 DEF OrderInv
  <2>. QED
    BY <2>3, <2>4
<1>. QED
  BY <1>2, <1>3, <1>6, <1>7 DEF OrderInv

(* What is left in the queue was in it before the timer took from it.      *)
LEMMA CallbackOrder ==
    ASSUME TypeOK, NEW q \in Seq(PendingMsg), NEW srcs, NEW timer, NEW fired,
           NEW n \in Nat, OrderInv(q, last_out, n),
           msg_queue_timeout_cb(q, srcs, timer, fired)
    PROVE  /\ OrderInv(queue', last_out', n)
           /\ AllNormal(q) => AllNormal(queue')
<1>1. CASE queue' = q /\ UNCHANGED writeVars
  BY <1>1 DEF writeVars
<1>2. CASE q # <<>> /\ queue' = Tail(q) /\ send_async(Head(q))
  <2>1. last_out' = [last_out EXCEPT ![Head(q).priority] = Head(q).id]
    BY <1>2 DEF send_async
  <2>2. last_out \in [Priorities -> Int]
    BY DEF TypeOK
  <2>3. AllNormal(q) => AllNormal(Tail(q))
    BY <1>2, HeadTailProperties DEF AllNormal
  <2>. QED
    BY <1>2, <2>1, <2>2, <2>3, PopKeepsOrder
<1>. QED
  BY <1>1, <1>2 DEF msg_queue_timeout_cb

LEMMA AddTimeoutOrder ==
    ASSUME TypeOK, NEW q \in Seq(PendingMsg), NEW n \in Nat,
           OrderInv(q, last_out, n), add_queue_timeout(q)
    PROVE  /\ OrderInv(queue', last_out', n)
           /\ AllNormal(q) => AllNormal(queue')
<1>1. CASE queue' = q /\ UNCHANGED <<timerVars, writeVars>>
  BY <1>1 DEF writeVars
<1>2. ASSUME NEW s \in SourceIds,
             LET armed == [sources EXCEPT ![s] = 0]
             IN  \/ msg_queue_timeout_cb(q, armed, s, 0)
                 \/ queue' = q /\ UNCHANGED writeVars
      PROVE  /\ OrderInv(queue', last_out', n)
             /\ AllNormal(q) => AllNormal(queue')
  <2>. DEFINE armed == [sources EXCEPT ![s] = 0]
  <2>1. CASE msg_queue_timeout_cb(q, armed, s, 0)
    BY <2>1, CallbackOrder
  <2>2. CASE queue' = q /\ UNCHANGED writeVars
    BY <2>2 DEF writeVars
  <2>. QED
    BY <1>2, <2>1, <2>2
<1>. QED
  BY <1>1, <1>2 DEF add_queue_timeout

LEMMA SendOrder ==
    ASSUME TypeOK, OrderInv(queue, last_out, last_id),
           NEW prio \in Priorities, MayInsert(queue, prio),
           send_with_priority(prio)
    PROVE  /\ OrderInv(queue', last_out', last_id')
           /\ AllNormal(queue) /\ prio = SERVER_CMD_NORMAL_PRIORITY
                => AllNormal(queue')
<1>. DEFINE msg == [priority |-> prio, id |-> last_id]
<1>1. /\ last_id \in Nat /\ last_id' = last_id + 1
      /\ queue \in Seq(PendingMsg) /\ last_out \in [Priorities -> Int]
  BY SendQueueAssumption DEF TypeOK, send_with_priority
<1>2. msg \in PendingMsg
  BY <1>1 DEF PendingMsg
<1>3. PICK p \in 1 .. Len(queue) + 1 :
         /\ IsInsertPosition(queue, msg, p)
         /\ add_queue_timeout(InsertBefore(queue, p, msg))
  BY DEF send_with_priority
<1>. DEFINE r == InsertBefore(queue, p, msg)
<1>4. /\ r \in Seq(PendingMsg) /\ Len(r) = Len(queue) + 1
      /\ \A i \in 1 .. Len(queue) + 1 :
            r[i] = IF i < p THEN queue[i] ELSE IF i = p THEN msg
                   ELSE queue[i - 1]
  BY <1>1, <1>2, InsertBeforeType
<1>. HIDE DEF r
<1>5. Ordered(r)
  BY <1>1, <1>2, <1>3, InsertKeepsOrder DEF OrderInv, r
<1>6. \A i \in 1 .. Len(r) :
         r[i] = msg \/ \E k \in 1 .. Len(queue) : r[i] = queue[k]
  BY <1>1, <1>4
<1>7. \A k \in 1 .. Len(queue) :
         queue[k].id \in Nat /\ queue[k].priority \in Priorities
  <2>1. \A k \in 1 .. Len(queue) : queue[k] \in PendingMsg
    BY <1>1
  <2>. QED
    BY <2>1 DEF PendingMsg
<1>8. OlderThan(r, last_id + 1)
  <2>1. ASSUME NEW k \in 1 .. Len(queue) PROVE queue[k].id < last_id + 1
    <3>1. queue[k].id < last_id /\ queue[k].id \in Nat
      BY <1>7, <2>1 DEF OrderInv, OlderThan
    <3>. QED
      BY <1>1, <3>1
  <2>2. msg.id < last_id + 1
    BY <1>1
  <2>. QED
    BY <1>6, <2>1, <2>2 DEF OlderThan
<1>9. \A q \in Priorities : last_out[q] < last_id + 1
  BY <1>1 DEF OrderInv
<1>10. \A i \in 1 .. Len(r) : last_out[r[i].priority] < r[i].id
  BY <1>6 DEF OrderInv
<1>11. OrderInv(r, last_out, last_id + 1)
  BY <1>5, <1>8, <1>9, <1>10 DEF OrderInv
<1>12. AllNormal(queue) /\ prio = SERVER_CMD_NORMAL_PRIORITY => AllNormal(r)
  BY <1>6 DEF AllNormal
<1>13. add_queue_timeout(r)
  BY <1>3 DEF r
<1>. QED
  BY <1>1, <1>4, <1>11, <1>12, <1>13, AddTimeoutOrder

LEMMA FifoInit == Init => FifoInv
<1>. SUFFICES ASSUME Init PROVE FifoInv
  OBVIOUS
<1>1. /\ queue = <<>> /\ handshake = <<>> /\ last_id = 0 /\ link = "down"
      /\ \A p \in Priorities : last_out[p] = -1
  BY DEF Init
<1>2. OrderInv(queue, last_out, last_id)
  BY <1>1 DEF OrderInv, Ordered, Fifo, OnlyUrgentAfterPing,
              NothingUrgentAfterPass, OlderThan
<1>3. HandshakeInv
  BY <1>1 DEF HandshakeInv, AllNormal
<1>. QED
  BY <1>2, <1>3 DEF FifoInv

(* A step that leaves the queue, its history and the handshake alone and   *)
(* does not go back to an unconnected socket keeps the order.              *)
LEMMA FifoUnchanged ==
    ASSUME FifoInv, UNCHANGED <<queue, last_id, handshake, last_out>>,
           link' = link \/ (handshake = <<>> /\ link' # "down")
    PROVE  FifoInv'
<1>1. OrderInv(queue', last_out', last_id')
  BY DEF FifoInv
<1>2. HandshakeInv'
  BY DEF FifoInv, HandshakeInv, AllNormal
<1>. QED
  BY <1>1, <1>2 DEF FifoInv, OrderInv, Ordered, Fifo, OnlyUrgentAfterPing,
                    NothingUrgentAfterPass, OlderThan

LEMMA FifoFromParts ==
    ASSUME OrderInv(queue', last_out', last_id'), HandshakeInv'
    PROVE  FifoInv'
BY DEF FifoInv, OrderInv, Ordered, Fifo, OnlyUrgentAfterPing,
       NothingUrgentAfterPass, OlderThan

LEMMA FifoStep == TypeOK /\ FifoInv /\ [Next]_vars => FifoInv'
<1>. SUFFICES ASSUME TypeOK, FifoInv, [Next]_vars PROVE FifoInv'
  OBVIOUS
<1>0. /\ OrderInv(queue, last_out, last_id) /\ HandshakeInv
      /\ last_id \in Nat /\ queue \in Seq(PendingMsg)
      /\ handshake \in Seq(Priorities)
  BY SendQueueAssumption DEF FifoInv, TypeOK
<1>1. CASE ConnectReady
  <2>. DEFINE login == [i \in 1 .. 3 |-> SERVER_CMD_NORMAL_PRIORITY]
  <2>1. /\ UNCHANGED <<queue, last_id, last_out>> /\ link' = "up"
        /\ AllNormal(queue)
        /\ handshake' \in {login, <<SERVER_CMD_PASS_PRIORITY>> \o login}
    BY <1>0, <1>1 DEF ConnectReady, writeVars, HandshakeInv
  <2>2. login \in Seq(Priorities) /\ Len(login) = 3
    <3>1. login \in [1 .. 3 -> Priorities]
      BY DEF Priorities
    <3>2. login \in Seq(Priorities)
      BY <3>1, SeqDef
    <3>. QED
      BY <3>2, LenProperties
  <2>3. <<SERVER_CMD_PASS_PRIORITY>> \in Seq(Priorities)
        /\ Len(<<SERVER_CMD_PASS_PRIORITY>>) = 1
    BY DEF Priorities
  <2>. DEFINE full == <<SERVER_CMD_PASS_PRIORITY>> \o login
  <2>4. /\ full \in Seq(Priorities) /\ Len(full) = 4
        /\ \A i \in 1 .. 4 : full[i] = IF i <= 1 THEN SERVER_CMD_PASS_PRIORITY
                                       ELSE login[i - 1]
    BY <2>2, <2>3, ConcatProperties
  <2>5. \A i \in 1 .. Len(full) :
           \/ full[i] = SERVER_CMD_NORMAL_PRIORITY
           \/ i = 1 /\ full[i] = SERVER_CMD_PASS_PRIORITY
    BY <2>4
  <2>6. \A i \in 1 .. Len(login) : login[i] = SERVER_CMD_NORMAL_PRIORITY
    BY <2>2
  <2>. HIDE DEF login, full
  <2>7. \A i \in 1 .. Len(handshake') :
           \/ handshake'[i] = SERVER_CMD_NORMAL_PRIORITY
           \/ i = 1 /\ handshake'[i] = SERVER_CMD_PASS_PRIORITY
    BY <2>1, <2>5, <2>6 DEF full
  <2>8. HandshakeInv'
    BY <2>1, <2>7 DEF HandshakeInv, AllNormal
  <2>. QED
    BY <1>0, <2>1, <2>8, FifoFromParts
<1>2. CASE HandshakeSend
  <2>1. /\ handshake # <<>> /\ handshake' = Tail(handshake) /\ link = "up"
        /\ link' = link
    BY <1>0, <1>2 DEF HandshakeSend, Idle, HandshakeInv
  <2>2. /\ Head(handshake) = handshake[1] /\ 1 \in 1 .. Len(handshake)
        /\ Len(Tail(handshake)) = Len(handshake) - 1
        /\ \A i \in 1 .. Len(Tail(handshake)) :
              Tail(handshake)[i] = handshake[i + 1]
    BY <1>0, <2>1, HeadTailProperties
  <2>3. Head(handshake) \in Priorities /\ MayInsert(queue, Head(handshake))
    BY <1>0, <2>1, <2>2 DEF HandshakeInv, MayInsert, Priorities
  <2>4. OrderInv(queue', last_out', last_id')
    BY <1>0, <1>2, <2>3, SendOrder DEF HandshakeSend
  <2>5. \A i \in 1 .. Len(handshake') :
           handshake'[i] = SERVER_CMD_NORMAL_PRIORITY
    BY <1>0, <2>1, <2>2 DEF HandshakeInv
  <2>6. handshake' \in Seq(Priorities)
    BY <1>0, <2>1, HeadTailProperties
  <2>7. handshake' # <<>> => 1 \in 1 .. Len(handshake')
    BY <2>6
  <2>8. SERVER_CMD_NORMAL_PRIORITY # SERVER_CMD_PASS_PRIORITY
    BY GintAssumption
       DEF SERVER_CMD_NORMAL_PRIORITY, SERVER_CMD_PASS_PRIORITY
  <2>9. HandshakeInv'
    BY <2>1, <2>5, <2>7, <2>8 DEF HandshakeInv
  <2>. QED
    BY <2>4, <2>9, FifoFromParts
<1>3. CASE Send
  <2>1. SERVER_CMD_NORMAL_PRIORITY \in Priorities
        /\ MayInsert(queue, SERVER_CMD_NORMAL_PRIORITY)
    BY DEF MayInsert, Priorities
  <2>2. /\ OrderInv(queue', last_out', last_id')
        /\ AllNormal(queue) => AllNormal(queue')
    BY <1>0, <1>3, <2>1, SendOrder DEF Send
  <2>3. HandshakeInv'
    BY <1>0, <1>3, <2>2 DEF Send, Idle, HandshakeInv, AllNormal
  <2>. QED
    BY <2>2, <2>3, FifoFromParts
<1>4. CASE SendUrgent
  <2>1. SERVER_CMD_MAX_PRIORITY \in Priorities
        /\ MayInsert(queue, SERVER_CMD_MAX_PRIORITY)
    BY DEF MayInsert, Priorities
  <2>2. OrderInv(queue', last_out', last_id')
    BY <1>0, <1>4, <2>1, SendOrder DEF SendUrgent
  <2>3. HandshakeInv'
    BY <1>0, <1>4 DEF SendUrgent, Idle, HandshakeInv, sconn_connected
  <2>. QED
    BY <2>2, <2>3, FifoFromParts
<1>5. CASE SendPing
  <2>1. queue = <<>>
    BY <1>0, <1>5, EmptySeq DEF SendPing
  <2>2. SERVER_CMD_MIN_PRIORITY \in Priorities
        /\ MayInsert(queue, SERVER_CMD_MIN_PRIORITY)
    BY <2>1 DEF MayInsert, Priorities
  <2>3. OrderInv(queue', last_out', last_id')
    BY <1>0, <1>5, <2>2, SendOrder DEF SendPing
  <2>4. HandshakeInv'
    BY <1>0, <1>5 DEF SendPing, Idle, HandshakeInv, sconn_connected
  <2>. QED
    BY <2>3, <2>4, FifoFromParts
<1>6. CASE Pong
  BY <1>6, FifoUnchanged DEF Pong, writeVars
<1>7. CASE Welcome
  <2>1. OrderInv(queue', last_out', last_id)
    BY <1>0, <1>7, AddTimeoutOrder DEF Welcome
  <2>2. HandshakeInv'
    BY <1>0, <1>7 DEF Welcome, Idle, HandshakeInv
  <2>. QED
    BY <1>7, <2>1, <2>2, FifoFromParts DEF Welcome
<1>8. ASSUME NEW s \in SourceIds, SourceFires(s) PROVE FifoInv'
  <2>1. /\ OrderInv(queue', last_out', last_id)
        /\ AllNormal(queue) => AllNormal(queue')
    BY <1>0, <1>8, CallbackOrder DEF SourceFires
  <2>2. HandshakeInv'
    BY <1>0, <1>8, <2>1 DEF SourceFires, Idle, HandshakeInv, AllNormal
  <2>. QED
    BY <1>8, <2>1, <2>2, FifoFromParts DEF SourceFires
<1>9. ASSUME NEW w \in writes, WriteReady(w) PROVE FifoInv'
  BY <1>9, FifoUnchanged DEF WriteReady
<1>10. ASSUME NEW w \in writes, WriteFails(w) PROVE FifoInv'
  BY <1>10, FifoUnchanged DEF WriteFails
<1>11. CASE PeerResets
  BY <1>11, FifoUnchanged DEF PeerResets, writeVars
<1>12. CASE CloseStream
  BY <1>12, FifoUnchanged DEF CloseStream, Idle, writeVars
<1>13. CASE StreamClosed
  BY <1>13, FifoUnchanged DEF StreamClosed, Idle, writeVars
<1>14. CASE Tick
  BY <1>14, FifoUnchanged DEF Tick
<1>15. CASE UNCHANGED vars
  BY <1>15, FifoUnchanged DEF vars, writeVars
<1>. QED
  BY <1>1, <1>2, <1>3, <1>4, <1>5, <1>6, <1>7, <1>8, <1>9, <1>10, <1>11, <1>12,
     <1>13, <1>14, <1>15 DEF Next

(* Two messages of one priority never overtake each other, although the    *)
(* comparison that sorts the queue is wrong for some pairs of priorities.  *)
THEOREM FifoCorrect == Spec => []SamePriorityFifo
<1>1. FifoInv => SamePriorityFifo
  BY DEF FifoInv, OrderInv, Ordered, Fifo, SamePriorityFifo
<1>. QED
  BY <1>1, FifoInit, FifoStep, TypeCorrect, PTL DEF Spec

-----------------------------------------------------------------------------
(* One write at a time.                                                    *)
LEMMA CallbackBuffer ==
    ASSUME BufferBelongsToTheWrite, NEW q, NEW srcs, NEW timer, NEW fired,
           msg_queue_timeout_cb(q, srcs, timer, fired)
    PROVE  BufferBelongsToTheWrite'
<1>1. CASE UNCHANGED writeVars
  BY <1>1 DEF writeVars, BufferBelongsToTheWrite
<1>2. CASE MayTake /\ msg_sending' = TRUE /\ send_async(Head(q))
  <2>1. writes = {}
    BY <1>2 DEF MayTake, BufferBelongsToTheWrite
  <2>2. \/ writes' = {Write(Head(q), "write")} /\ output_buffer' = Head(q).id
        \/ writes' = {Write(Head(q), "error")}
    BY <1>2, <2>1 DEF send_async
  <2>. QED
    BY <1>2, <2>2 DEF BufferBelongsToTheWrite, Write
<1>. QED
  BY <1>1, <1>2 DEF msg_queue_timeout_cb

LEMMA AddTimeoutBuffer ==
    ASSUME BufferBelongsToTheWrite, NEW q, add_queue_timeout(q)
    PROVE  BufferBelongsToTheWrite'
<1>1. CASE UNCHANGED writeVars
  BY <1>1 DEF writeVars, BufferBelongsToTheWrite
<1>. QED
  BY <1>1, CallbackBuffer DEF add_queue_timeout

LEMMA BufferStep ==
    BufferBelongsToTheWrite /\ [Next]_vars => BufferBelongsToTheWrite'
<1>. SUFFICES ASSUME BufferBelongsToTheWrite, [Next]_vars
              PROVE  BufferBelongsToTheWrite'
  OBVIOUS
<1>1. CASE UNCHANGED writeVars
  BY <1>1 DEF writeVars, BufferBelongsToTheWrite
<1>2. ASSUME NEW prio, send_with_priority(prio)
      PROVE  BufferBelongsToTheWrite'
  BY <1>2, AddTimeoutBuffer DEF send_with_priority
<1>3. CASE Welcome
  BY <1>3, AddTimeoutBuffer DEF Welcome
<1>4. ASSUME NEW s \in SourceIds, SourceFires(s)
      PROVE  BufferBelongsToTheWrite'
  BY <1>4, CallbackBuffer DEF SourceFires
<1>5. ASSUME NEW w \in writes, WriteReady(w) PROVE BufferBelongsToTheWrite'
  <2>1. CASE UNCHANGED <<msg_sending, writes>>
    BY <1>5, <2>1 DEF WriteReady, BufferBelongsToTheWrite
  <2>2. CASE writes' = writes \ {w}
    BY <1>5, <2>2 DEF BufferBelongsToTheWrite
  <2>. QED
    BY <1>5, <2>1, <2>2 DEF WriteReady
<1>6. ASSUME NEW w \in writes, WriteFails(w) PROVE BufferBelongsToTheWrite'
  BY <1>6 DEF WriteFails, BufferBelongsToTheWrite
<1>7. CASE Tick
  BY <1>7 DEF Tick, BufferBelongsToTheWrite
<1>. QED
  BY <1>1, <1>2, <1>3, <1>4, <1>5, <1>6, <1>7
     DEF Next, vars, ConnectReady, HandshakeSend, Send, SendUrgent, SendPing,
         Pong, PeerResets, CloseStream, StreamClosed

(* The single output_buffer is never overwritten under a write.            *)
THEOREM BufferCorrect == Spec => []BufferBelongsToTheWrite
<1>1. Init => BufferBelongsToTheWrite
  BY DEF Init, BufferBelongsToTheWrite
<1>. QED
  BY <1>1, BufferStep, PTL DEF Spec

-----------------------------------------------------------------------------
(* The queue never stops with messages in it.                              *)
LEMMA CallbackWedge ==
    ASSUME NEW q, NEW srcs \in [SourceIds -> Ages],
           NEW timer \in SourceIds \cup {0},
           NEW fired \in SourceIds \cup {0},
           timer # 0 => srcs[timer] # Dead,
           sconn_connected /\ q # <<>> => timer # 0,
           UNCHANGED link,
           msg_queue_timeout_cb(q, srcs, timer, fired)
    PROVE  /\ msg_queue_timeout' # 0 => sources'[msg_queue_timeout'] # Dead
           /\ sconn_connected' /\ queue' # <<>> => msg_queue_timeout' # 0
<1>1. CASE msg_queue_timeout' = 0 /\ (~sconn_connected \/ queue' = <<>>)
  BY <1>1 DEF sconn_connected
<1>2. CASE /\ sconn_connected /\ (queue' = q \/ q # <<>>)
           /\ msg_queue_timeout' = timer
           /\ sources' = Returned(srcs, fired, TRUE)
  <2>1. timer # 0 => sources'[timer] # Dead
    BY <1>2, SendQueueAssumption DEF Returned, Dead
  <2>2. queue' # <<>> => timer # 0
    BY <1>2
  <2>. QED
    BY <1>2, <2>1, <2>2
<1>. QED
  BY <1>1, <1>2 DEF msg_queue_timeout_cb, ForgetTimer

LEMMA AddTimeoutWedge ==
    ASSUME TypeOK, NEW q, UNCHANGED link, add_queue_timeout(q),
           msg_queue_timeout # 0 => sources[msg_queue_timeout] # Dead
    PROVE  /\ msg_queue_timeout' # 0 => sources'[msg_queue_timeout'] # Dead
           /\ sconn_connected' /\ queue' # <<>> => msg_queue_timeout' # 0
<1>1. CASE msg_queue_timeout # 0 /\ UNCHANGED timerVars
  BY <1>1 DEF timerVars
<1>2. ASSUME NEW s \in SourceIds,
             LET armed == [sources EXCEPT ![s] = 0]
             IN  \/ msg_queue_timeout_cb(q, armed, s, 0)
                 \/ sources' = armed /\ msg_queue_timeout' = s
      PROVE  /\ msg_queue_timeout' # 0 => sources'[msg_queue_timeout'] # Dead
             /\ sconn_connected' /\ queue' # <<>> => msg_queue_timeout' # 0
  <2>. DEFINE armed == [sources EXCEPT ![s] = 0]
  <2>1. armed \in [SourceIds -> Ages] /\ armed[s] = 0 /\ s # 0
    BY SendQueueAssumption DEF TypeOK, Ages, MSG_QUEUE_TIMEOUT
  <2>. HIDE DEF armed
  <2>2. CASE msg_queue_timeout_cb(q, armed, s, 0)
    BY <2>1, <2>2, CallbackWedge DEF Dead
  <2>3. CASE sources' = armed /\ msg_queue_timeout' = s
    BY <2>1, <2>3 DEF Dead
  <2>. QED
    BY <1>2, <2>2, <2>3 DEF armed
<1>. QED
  BY <1>1, <1>2 DEF add_queue_timeout, NoTimer

LEMMA WedgeStep == TypeOK /\ NeverWedged /\ [Next]_vars => NeverWedged'
<1>. SUFFICES ASSUME TypeOK, NeverWedged, [Next]_vars PROVE NeverWedged'
  OBVIOUS
<1>0. msg_queue_timeout # 0 => sources[msg_queue_timeout] # Dead
  BY DEF NeverWedged
<1>1. CASE ConnectReady
  <2>1. handshake' # <<>>
    <3>1. [i \in 1 .. 3 |-> SERVER_CMD_NORMAL_PRIORITY] \in Seq(Priorities)
      <4>1. [i \in 1 .. 3 |-> SERVER_CMD_NORMAL_PRIORITY]
               \in [1 .. 3 -> Priorities]
        BY DEF Priorities
      <4>. QED
        BY <4>1, SeqDef
    <3>2. <<SERVER_CMD_PASS_PRIORITY>> \in Seq(Priorities)
      BY DEF Priorities
    <3>3. [i \in 1 .. 3 |-> SERVER_CMD_NORMAL_PRIORITY] # <<>>
      OBVIOUS
    <3>. QED
      BY <1>1, <3>1, <3>2, <3>3, ConcatEqualIffEmpty DEF ConnectReady
  <2>. QED
    BY <1>0, <1>1, <2>1 DEF ConnectReady, NeverWedged, Idle, timerVars
<1>2. ASSUME NEW prio, send_with_priority(prio), UNCHANGED link
      PROVE  NeverWedged'
  BY <1>0, <1>2, AddTimeoutWedge DEF send_with_priority, NeverWedged
<1>3. CASE Welcome
  BY <1>0, <1>3, AddTimeoutWedge DEF Welcome, NeverWedged
<1>4. ASSUME NEW s \in SourceIds, SourceFires(s) PROVE NeverWedged'
  <2>1. /\ sources \in [SourceIds -> Ages]
        /\ msg_queue_timeout \in SourceIds \cup {0}
        /\ sconn_connected /\ queue # <<>> => msg_queue_timeout # 0
        /\ UNCHANGED link
        /\ msg_queue_timeout_cb(queue, sources, msg_queue_timeout, s)
    BY <1>4 DEF TypeOK, Ages, SourceFires, NeverWedged
  <2>. QED
    BY <1>0, <2>1, CallbackWedge DEF NeverWedged
<1>5. CASE UNCHANGED <<queue, timerVars, link, handshake>>
  BY <1>5 DEF NeverWedged, timerVars, sconn_connected, Idle
<1>6. CASE CloseStream
  BY <1>6 DEF CloseStream, NeverWedged, timerVars, sconn_connected, Idle
<1>7. CASE StreamClosed
  BY <1>7 DEF StreamClosed, clear_queue_timeout, NeverWedged, sconn_connected
<1>8. CASE Tick
  <2>1. msg_queue_timeout # 0 => sources'[msg_queue_timeout] # Dead
    <3>1. /\ msg_queue_timeout \in SourceIds \cup {0}
          /\ sources \in [SourceIds -> {-1} \cup 0 .. 2]
          /\ msg_queue_timeout # 0 => sources[msg_queue_timeout] # -1
      BY <1>0 DEF TypeOK, NeverWedged, MSG_QUEUE_TIMEOUT, Dead
    <3>2. sources' = [s \in SourceIds |->
             IF sources[s] = -1 THEN -1
             ELSE IF sources[s] + 1 <= 2 THEN sources[s] + 1 ELSE 2]
      BY <1>8 DEF Tick, Min2, MSG_QUEUE_TIMEOUT, Dead
    <3>. QED
      BY <3>1, <3>2 DEF Dead
  <2>. QED
    BY <1>8, <2>1 DEF Tick, NeverWedged, sconn_connected, Idle
<1>. QED
  BY <1>1, <1>2, <1>3, <1>4, <1>5, <1>6, <1>7, <1>8
     DEF Next, vars, HandshakeSend, Send, SendUrgent, SendPing, Pong,
         WriteReady, WriteFails, PeerResets

(* Once connected, messages in the queue mean an attached timer.           *)
THEOREM WedgeCorrect == Spec => []NeverWedged
<1>1. Init => NeverWedged
  BY DEF Init, NeverWedged
<1>. QED
  BY <1>1, WedgeStep, TypeCorrect, PTL DEF Spec

-----------------------------------------------------------------------------
(* The rate.  It takes that nobody sends without a connection: a           *)
(* message queued too early leaves behind a source that msg_queue_timeout  *)
(* does not name, which later runs next to the one it names.               *)
Unused ==
    /\ queue = <<>> /\ msg_queue_timeout = 0
    /\ \A s \in SourceIds : sources[s] = Dead
    /\ since_out = MSG_QUEUE_TIMEOUT

(* The named source is the only one, and as long ago as it last ran, or    *)
(* less, a message was handed over.                                        *)
OneTimer ==
    /\ \A s \in SourceIds :
          sources[s] # Dead => s = msg_queue_timeout /\ sources[s] <= since_out
    /\ msg_queue_timeout = 0 => since_out = MSG_QUEUE_TIMEOUT

RateInv ==
    /\ link = "down" => Unused
    /\ handshake # <<>> => link = "up"
    /\ link \in {"up", "closing"} => OneTimer
    /\ link = "closed" => /\ msg_queue_timeout = 0
                          /\ \A s \in SourceIds : sources[s] = Dead

LEMMA SendAsyncRate ==
    ASSUME NEW msg, send_async(msg)
    PROVE  since_out' = 0
BY DEF send_async

(* msg_queue_timeout_cb() with srcs and timer in the place of sources and  *)
(* msg_queue_timeout: it hands over only when a message is due.            *)
LEMMA CallbackRate ==
    ASSUME TypeOK, NEW q,
           NEW srcs \in [SourceIds -> Ages], NEW timer \in SourceIds \cup {0},
           NEW fired \in SourceIds \cup {0},
           \A s \in SourceIds :
               srcs[s] # Dead => s = timer /\ srcs[s] <= since_out,
           fired # 0 => srcs[fired] = MSG_QUEUE_TIMEOUT,
           fired = 0 => since_out = MSG_QUEUE_TIMEOUT /\ q # <<>>
                        /\ timer # 0 /\ sconn_connected /\ srcs[timer] = 0,
           msg_queue_timeout_cb(q, srcs, timer, fired)
    PROVE  /\ HandedOver => since_out = MSG_QUEUE_TIMEOUT
           /\ OneTimer'
<1>0. since_out \in 0 .. MSG_QUEUE_TIMEOUT /\ 0 \notin SourceIds
  BY SendQueueAssumption DEF TypeOK
<1>1. since_out = MSG_QUEUE_TIMEOUT
  BY <1>0 DEF MSG_QUEUE_TIMEOUT, Dead
<1>2. CASE /\ fired # 0
           /\ sources' = Returned(srcs, fired, FALSE)
           /\ UNCHANGED writeVars
  <2>1. fired \in SourceIds /\ fired = timer /\ srcs[fired] # Dead
    BY <1>2 DEF MSG_QUEUE_TIMEOUT, Dead
  <2>2. \A s \in SourceIds : sources'[s] = Dead
    BY <1>2, <2>1 DEF Returned
  <2>3. since_out' = MSG_QUEUE_TIMEOUT
    BY <1>1, <1>2 DEF writeVars
  <2>. QED
    BY <1>1, <2>2, <2>3 DEF OneTimer
<1>3. CASE /\ sources' = Returned(srcs, fired, TRUE)
           /\ msg_queue_timeout' = timer
           /\ since_out' = since_out \/ since_out' = 0
  <2>1. ASSUME NEW s \in SourceIds, sources'[s] # Dead
        PROVE  s = timer /\ sources'[s] = 0
    <3>1. CASE s = fired
      BY <1>3, <3>1 DEF Returned, MSG_QUEUE_TIMEOUT, Dead
    <3>2. CASE s # fired
      <4>1. sources'[s] = srcs[s] /\ s = timer
        BY <1>3, <2>1, <3>2 DEF Returned
      <4>2. fired = 0
        BY <3>2, <4>1 DEF MSG_QUEUE_TIMEOUT, Dead
      <4>. QED
        BY <4>1, <4>2
    <3>. QED
      BY <3>1, <3>2
  <2>2. msg_queue_timeout' # 0
    BY <1>0, <1>3 DEF MSG_QUEUE_TIMEOUT, Dead
  <2>3. 0 <= since_out'
    BY <1>1, <1>3 DEF MSG_QUEUE_TIMEOUT
  <2>4. \A s \in SourceIds :
           sources'[s] # Dead =>
               s = msg_queue_timeout' /\ sources'[s] <= since_out'
    <3>1. SUFFICES ASSUME NEW s \in SourceIds, sources'[s] # Dead
                   PROVE  s = msg_queue_timeout' /\ sources'[s] <= since_out'
      OBVIOUS
    <3>2. s = timer /\ sources'[s] = 0
      BY <2>1, <3>1
    <3>3. s = msg_queue_timeout'
      BY <1>3, <3>2
    <3>. QED
      BY <2>3, <3>2, <3>3
  <2>. QED
    BY <1>1, <2>2, <2>4 DEF OneTimer
<1>4. ~sconn_connected \/ q = <<>> => fired # 0
  OBVIOUS
<1>5. send_async(Head(q)) => since_out' = 0
  BY SendAsyncRate
<1>. QED
  BY <1>2, <1>3, <1>4, <1>5 DEF msg_queue_timeout_cb, writeVars

LEMMA AddTimeoutRate ==
    ASSUME TypeOK, RateInv, sconn_connected, NEW q, q # <<>>,
           add_queue_timeout(q)
    PROVE  /\ HandedOver => since_out = MSG_QUEUE_TIMEOUT
           /\ OneTimer'
<1>0. OneTimer /\ 0 \notin SourceIds
  BY SendQueueAssumption DEF RateInv, sconn_connected
<1>1. CASE ~NoTimer /\ UNCHANGED <<timerVars, writeVars>>
  BY <1>0, <1>1 DEF timerVars, writeVars, OneTimer, HandedOver
<1>2. ASSUME NoTimer, NEW s \in SourceIds,
             LET armed == [sources EXCEPT ![s] = 0]
             IN  \/ msg_queue_timeout_cb(q, armed, s, 0)
                 \/ /\ sources' = armed /\ msg_queue_timeout' = s
                    /\ UNCHANGED writeVars
      PROVE  /\ HandedOver => since_out = MSG_QUEUE_TIMEOUT
             /\ OneTimer'
  <2>. DEFINE armed == [sources EXCEPT ![s] = 0]
  <2>1. since_out = MSG_QUEUE_TIMEOUT
    BY <1>0, <1>2 DEF NoTimer, OneTimer
  <2>2. armed \in [SourceIds -> Ages] /\ armed[s] = 0
    BY DEF TypeOK, Ages, MSG_QUEUE_TIMEOUT
  <2>3. \A t \in SourceIds : armed[t] # Dead => t = s /\ armed[t] = 0
    BY <1>0, <1>2, <2>2 DEF NoTimer, OneTimer, TypeOK
  <2>4. \A t \in SourceIds : armed[t] # Dead => t = s /\ armed[t] <= since_out
    BY <2>1, <2>3 DEF MSG_QUEUE_TIMEOUT
  <2>. HIDE DEF armed
  <2>5. CASE msg_queue_timeout_cb(q, armed, s, 0)
    BY <1>0, <2>1, <2>2, <2>4, <2>5, CallbackRate
  <2>6. CASE /\ sources' = armed /\ msg_queue_timeout' = s
             /\ UNCHANGED writeVars
    BY <1>0, <2>1, <2>4, <2>6 DEF OneTimer, writeVars
  <2>. QED
    BY <1>2, <2>5, <2>6 DEF armed
<1>. QED
  BY <1>1, <1>2 DEF add_queue_timeout

LEMMA SendRate ==
    ASSUME TypeOK, RateInv, sconn_connected, NEW prio \in Priorities,
           send_with_priority(prio)
    PROVE  /\ HandedOver => since_out = MSG_QUEUE_TIMEOUT
           /\ OneTimer'
<1>. DEFINE msg == [priority |-> prio, id |-> last_id]
<1>1. PICK p \in 1 .. Len(queue) + 1 :
         add_queue_timeout(InsertBefore(queue, p, msg))
  BY DEF send_with_priority
<1>2. msg \in PendingMsg /\ queue \in Seq(PendingMsg)
  BY SendQueueAssumption DEF PendingMsg, TypeOK
<1>3. Len(InsertBefore(queue, p, msg)) = Len(queue) + 1
      /\ Len(queue) \in Nat
  BY <1>2, InsertBeforeType, LenProperties
<1>4. InsertBefore(queue, p, msg) # <<>>
  BY <1>3
<1>. QED
  BY <1>1, <1>4, AddTimeoutRate

LEMMA RateInit == Init => RateInv
BY DEF Init, RateInv, Unused

LEMMA RateStep ==
    ASSUME TypeOK, RateInv, [Next]_vars, ~unchecked'
    PROVE  RateInv' /\ (HandedOver => since_out = MSG_QUEUE_TIMEOUT)
<1>. DEFINE Goal == RateInv' /\ (HandedOver => since_out = MSG_QUEUE_TIMEOUT)
<1>1. ASSUME NEW prio \in Priorities, send_with_priority(prio),
             sconn_connected, UNCHANGED link,
             handshake' # <<>> => handshake # <<>>
      PROVE  Goal
  <2>1. OneTimer' /\ (HandedOver => since_out = MSG_QUEUE_TIMEOUT)
    BY <1>1, SendRate
  <2>. QED
    BY <1>1, <2>1 DEF RateInv, sconn_connected
<1>2. CASE ConnectReady
  <2>1. Unused /\ link' = "up"
        /\ UNCHANGED <<sources, msg_queue_timeout, since_out, last_out>>
    BY <1>2 DEF ConnectReady, RateInv, timerVars, writeVars
  <2>2. OneTimer'
    BY <2>1 DEF Unused, OneTimer
  <2>. QED
    BY <2>1, <2>2 DEF RateInv, HandedOver
<1>3. CASE HandshakeSend
  <2>1. handshake # <<>> /\ link = "up" /\ link' = "up"
    BY <1>3 DEF HandshakeSend, Idle, RateInv
  <2>2. Head(handshake) \in Priorities
    BY <2>1, HeadTailProperties DEF TypeOK
  <2>. QED
    BY <1>1, <1>3, <2>1, <2>2 DEF HandshakeSend, sconn_connected
<1>4. CASE Send
  BY <1>1, <1>4 DEF Send, Priorities
<1>5. CASE SendUrgent
  BY <1>1, <1>5 DEF SendUrgent, Priorities
<1>6. CASE SendPing
  BY <1>1, <1>6 DEF SendPing, Priorities
<1>7. CASE Welcome
  <2>1. sconn_connected /\ queue # <<>> /\ add_queue_timeout(queue)
        /\ UNCHANGED <<link, handshake>>
    BY <1>7 DEF Welcome, sconn_connected
  <2>2. OneTimer' /\ (HandedOver => since_out = MSG_QUEUE_TIMEOUT)
    BY <2>1, AddTimeoutRate
  <2>. QED
    BY <2>1, <2>2 DEF RateInv, sconn_connected
<1>8. ASSUME NEW s \in SourceIds, SourceFires(s) PROVE Goal
  <2>0. /\ msg_queue_timeout_cb(queue, sources, msg_queue_timeout, s)
        /\ sources[s] = MSG_QUEUE_TIMEOUT /\ UNCHANGED <<link, handshake>>
    BY <1>8 DEF SourceFires
  <2>1. CASE sconn_connected
    <3>1. /\ \A t \in SourceIds :
                sources[t] # Dead => t = msg_queue_timeout
                                     /\ sources[t] <= since_out
          /\ sources \in [SourceIds -> Ages] /\ s # 0
          /\ msg_queue_timeout \in SourceIds \cup {0}
      BY <2>1, SendQueueAssumption
         DEF RateInv, sconn_connected, OneTimer, TypeOK, Ages
    <3>2. OneTimer' /\ (HandedOver => since_out = MSG_QUEUE_TIMEOUT)
      BY <2>0, <3>1, CallbackRate
    <3>. QED
      BY <2>0, <2>1, <3>2 DEF RateInv, sconn_connected
  <2>2. CASE ~sconn_connected
    <3>1. link \in {"down", "closed"} => sources[s] = Dead
      BY DEF RateInv, Unused
    <3>. QED
      BY <2>0, <2>2, <3>1 DEF TypeOK, Links, sconn_connected,
         MSG_QUEUE_TIMEOUT, Dead
  <2>. QED
    BY <2>1, <2>2
<1>9. CASE /\ UNCHANGED <<queue, timerVars, since_out, last_out, handshake>>
           /\ link' = link \/ (link = "up" /\ link' = "closing"
                               /\ handshake = <<>>)
  BY <1>9 DEF RateInv, Unused, OneTimer, timerVars, HandedOver
<1>10. CASE StreamClosed
  <2>1. OneTimer /\ link' = "closed" /\ handshake' = <<>> /\ clear_queue_timeout
    BY <1>10 DEF StreamClosed, Idle, RateInv
  <2>2. msg_queue_timeout' = 0 /\ \A s \in SourceIds : sources'[s] = Dead
    BY <2>1 DEF OneTimer, clear_queue_timeout
  <2>3. UNCHANGED last_out
    BY <1>10 DEF StreamClosed, writeVars
  <2>. QED
    BY <2>1, <2>2, <2>3 DEF RateInv, HandedOver
<1>11. CASE Tick
  <2>1. since_out' = Min2(since_out + 1, MSG_QUEUE_TIMEOUT)
        /\ UNCHANGED <<queue, msg_queue_timeout, link, handshake, last_out>>
        /\ sources' = [s \in SourceIds |->
                         IF sources[s] = Dead THEN Dead
                         ELSE Min2(sources[s] + 1, MSG_QUEUE_TIMEOUT)]
    BY <1>11 DEF Tick
  <2>2. since_out \in 0 .. MSG_QUEUE_TIMEOUT
        /\ sources \in [SourceIds -> Ages]
    BY DEF TypeOK, Ages
  <2>3. Unused => Unused'
    BY <2>1, <2>2 DEF Unused, Min2, MSG_QUEUE_TIMEOUT
  <2>4. OneTimer => OneTimer'
    BY <2>1, <2>2 DEF OneTimer, Min2, MSG_QUEUE_TIMEOUT, Ages, Dead
  <2>. QED
    BY <2>1, <2>3, <2>4 DEF RateInv, HandedOver
<1>12. ASSUME NEW w \in writes, WriteReady(w) \/ WriteFails(w) PROVE Goal
  BY <1>9, <1>12 DEF WriteReady, WriteFails
<1>13. CASE Pong \/ PeerResets \/ CloseStream \/ UNCHANGED vars
  BY <1>9, <1>13 DEF Pong, PeerResets, CloseStream, Idle, vars, writeVars
<1>. QED
  BY <1>2, <1>3, <1>4, <1>5, <1>6, <1>7, <1>8, <1>10, <1>11, <1>12, <1>13
     DEF Next

(* A message sent without a connection is not forgotten.                   *)
LEMMA UncheckedStays ==
    ASSUME unchecked, [Next]_vars
    PROVE  unchecked'
<1>1. CASE Send
  BY <1>1 DEF Send
<1>2. CASE UNCHANGED unchecked
  BY <1>2
<1>. QED
  BY <1>1, <1>2 DEF Next, ConnectReady, HandshakeSend, SendUrgent, SendPing,
     Pong, Welcome, SourceFires, WriteReady, WriteFails, PeerResets,
     CloseStream, StreamClosed, Tick, vars

CheckedInv == unchecked \/ RateInv

LEMMA CheckedStep ==
    ASSUME TypeOK, CheckedInv, [Next]_vars
    PROVE  /\ CheckedInv'
           /\ HandedOver /\ ~unchecked' => since_out = MSG_QUEUE_TIMEOUT
<1>1. CASE unchecked'
  BY <1>1 DEF CheckedInv
<1>2. CASE ~unchecked'
  BY <1>2, UncheckedStays, RateStep DEF CheckedInv
<1>. QED
  BY <1>1, <1>2

(* As long as no client sends without a connection, no two messages leave  *)
(* within two seconds of each other.                                       *)
THEOREM RateCorrect == Spec => CheckedRateLimited
<1>1. Init => CheckedInv
  BY RateInit DEF CheckedInv
<1>2. TypeOK /\ CheckedInv /\ [Next]_vars => CheckedInv'
  BY CheckedStep
<1>3. TypeOK /\ CheckedInv /\ [Next]_vars
         => [HandedOver /\ ~unchecked' => since_out = MSG_QUEUE_TIMEOUT]_vars
  BY CheckedStep
<1>. QED
  BY <1>1, <1>2, <1>3, TypeCorrect, PTL DEF Spec, CheckedRateLimited

(* As long as no client sends without a connection, none of the queue's    *)
(* timers is left to call a connection that is gone.                       *)
THEOREM TimersCorrect == Spec => []TimersEndWithTheLink
<1>1. Init => CheckedInv
  BY RateInit DEF CheckedInv
<1>2. TypeOK /\ CheckedInv /\ [Next]_vars => CheckedInv'
  BY CheckedStep
<1>3. TypeOK /\ CheckedInv => TimersEndWithTheLink
  BY DEF TypeOK, Links, CheckedInv, RateInv, Unused, TimersEndWithTheLink,
     sconn_connected
<1>. QED
  BY <1>1, <1>2, <1>3, TypeCorrect, PTL DEF Spec
===============================================================================
