--------------------------- MODULE OutputPendingMsg ---------------------------
(***************************************************************************)
(* The entries of IdleConnection's output queue (IdleOutputPendingMsg) and *)
(* the comparison that g_queue_insert_sorted() orders them with.           *)
(*                                                                         *)
(* A priority is a guint.  The comparison returns the guint difference of  *)
(* two priorities as a gint, so the width matters: it is the constant      *)
(* G_MAXINT (2^31 - 1 in the build; any width gives the same truncation).  *)
(***************************************************************************)
EXTENDS Integers, Sequences

CONSTANT G_MAXINT     \* the largest gint

ASSUME GintAssumption == G_MAXINT \in Nat /\ G_MAXINT >= 3

G_MAXUINT == 2 * G_MAXINT + 1

SERVER_CMD_MIN_PRIORITY    == 0
SERVER_CMD_NORMAL_PRIORITY == G_MAXINT          \* G_MAXUINT/2
SERVER_CMD_PASS_PRIORITY   == SERVER_CMD_NORMAL_PRIORITY + 1
SERVER_CMD_MAX_PRIORITY    == G_MAXUINT

Priorities == { SERVER_CMD_MIN_PRIORITY, SERVER_CMD_NORMAL_PRIORITY,
                SERVER_CMD_PASS_PRIORITY, SERVER_CMD_MAX_PRIORITY }

(* The text of a message is never looked at by the queue: its id is it.    *)
PendingMsg == [priority : Priorities, id : Nat]

(* a - b on guints, and the gint a guint is returned as.                   *)
GuintSub(a, b) == IF a >= b THEN a - b ELSE a - b + G_MAXUINT + 1

ToGint(u) == IF u > G_MAXINT THEN u - (G_MAXUINT + 1) ELSE u

(* mutant of the next: the ids of two equals are taken the wrong way round *)
CompareNewestFirst(msg1, msg2) ==
    IF msg1.priority = msg2.priority
    THEN msg2.id - msg1.id
    ELSE ToGint(GuintSub(msg2.priority, msg1.priority))

pending_msg_compare(msg1, msg2) ==
    IF msg1.priority = msg2.priority
    THEN msg1.id - msg2.id
    ELSE ToGint(GuintSub(msg2.priority, msg1.priority))

(* g_queue_insert_sorted() walks from the head past every element that     *)
(* compares below the new one and inserts there.                           *)
IsInsertPosition(q, msg, p) ==
    /\ p \in 1 .. Len(q) + 1
    /\ \A i \in 1 .. p - 1 : pending_msg_compare(q[i], msg) < 0
    /\ p <= Len(q) => pending_msg_compare(q[p], msg) >= 0

InsertBefore(q, p, msg) ==
    [i \in 1 .. Len(q) + 1 |->
        IF i < p THEN q[i] ELSE IF i = p THEN msg ELSE q[i - 1]]
===============================================================================
