------------------------------ MODULE ContactInfo ------------------------------
(***************************************************************************)
(* RequestContactInfo() and the queue of WHOIS requests behind it.  The    *)
(* replies of IRC name no request: the handlers match what arrives with    *)
(* the request at the head of the queue, by the contact it is about.       *)
(*                                                                         *)
(* The server answers the WHOIS commands it receives in their order, with  *)
(* some lines and a final reply.  It also gets a WHOIS that no request     *)
(* stands behind: the one in idle's handshake, sent before the server's    *)
(* welcome makes the status CONNECTED but answered after it, and those     *)
(* a client sends with IRCCommand.Send().                                  *)
(***************************************************************************)
EXTENDS Integers, Sequences

CONSTANTS
    Contacts,      \* contact handles
    Self,          \* the user's own
    MaxRequests,   \* bound on RequestContactInfo() calls
    MaxForeign     \* bound on WHOIS commands that no request stands behind

ASSUME ContactInfoAssumption ==
    /\ Self \in Contacts
    /\ MaxRequests \in Nat
    /\ MaxForeign \in Nat

(* What a WHOIS was sent for, other than a request, which has a number.    *)
Command == 0
Handshake == -1

(* The lines a WHOIS may be answered with: RPL_AWAY, and all the others,   *)
(* which add fields in the same way.                                       *)
Lines == {"away", "field"}

VARIABLES
    connected,   \* the status is CONNECTED
    open,        \* the socket is open: what arrives reaches the handlers
    requests,    \* conn->contact_info_requests
    asked,       \* RequestContactInfo() calls so far
    answers,     \* history: the answers given, with what caused them
    wire,        \* WHOIS commands the server has not yet answered
    said,        \* the lines it has given for the first of them
    foreign      \* WHOIS commands so far that no request stands behind

vars == <<connected, open, requests, asked, answers, wire, said, foreign>>

Whois(by, c) == [by |-> by, contact |-> c]

Init ==
    /\ connected = TRUE
    /\ open = TRUE
    /\ requests = <<>>
    /\ asked = 0
    /\ answers = {}
    /\ said = {}
    /\ foreign \in {0, 1} /\ foreign <= MaxForeign
    /\ wire = IF foreign = 1 THEN <<Whois(Handshake, Self)>> ELSE <<>>

-----------------------------------------------------------------------------
(* _get_matching_request()                                                 *)
MatchesAny(c) == requests # <<>>
Matches(c) == requests # <<>> /\ Head(requests).handle = c

(* The WHOIS commands sent, if any, when a request is queued and when the  *)
(* one at the head is dequeued: _send_request_contact_info() for the head. *)
SentOnQueueing(r) ==
    IF requests = <<>> THEN <<Whois(r.id, r.handle)>> ELSE <<>>

SendsNothing == <<>>
SendsUnchecked == <<Whois(Head(requests).id + 1, Head(requests).handle)>>
SendsHeadAgain ==
    IF Len(requests) > 1
    THEN <<Whois(Head(requests).id, Head(requests).handle)>> ELSE <<>>
SentOnDequeueing ==
    IF Len(requests) > 1
    THEN <<Whois(requests[2].id, requests[2].handle)>> ELSE <<>>

(* idle_connection_request_contact_info()                                  *)
RequestContactInfo(c) ==
    /\ connected
    /\ asked < MaxRequests
    /\ LET r == [id |-> asked + 1, handle |-> c, is_away |-> FALSE,
                 contact_info |-> {}]
       IN  /\ wire' = wire \o SentOnQueueing(r)
           /\ requests' = Append(requests, r)
    /\ asked' = asked + 1
    /\ UNCHANGED <<connected, open, answers, said, foreign>>

(* The final reply to the first WHOIS on the wire answers the request at   *)
(* the head of the queue, which is dequeued.                               *)
AnswerHead(result) ==
    /\ answers' = answers \cup
          {[id |-> Head(requests).id, handle |-> Head(requests).handle,
            result |-> result, available |-> ~Head(requests).is_away,
            contact_info |-> Head(requests).contact_info,
            whois |-> Head(wire), said |-> said]}
    /\ requests' = Tail(requests)
    /\ wire' = Tail(wire) \o SentOnDequeueing

Ignored ==
    /\ wire' = Tail(wire)
    /\ UNCHANGED <<requests, answers>>

Replied ==
    /\ open
    /\ wire # <<>>
    /\ said' = {}
    /\ UNCHANGED <<connected, open, asked, foreign>>

(* _end_of_whois_handler()                                                 *)
EndOfWhois ==
    /\ Replied
    /\ \/ Matches(Head(wire).contact) /\ AnswerHead("info")
       \/ ~Matches(Head(wire).contact) /\ Ignored

(* _no_such_server_handler().  That of the handshake names no server.      *)
NoSuchServer ==
    /\ Replied
    /\ Head(wire).by # Handshake
    /\ \/ Matches(Head(wire).contact) /\ AnswerHead("does_not_exist")
       \/ ~Matches(Head(wire).contact) /\ Ignored

(* _try_again_handler(): the reply names the command but no contact.       *)
TryAgain ==
    /\ Replied
    /\ \/ requests # <<>> /\ AnswerHead("busy")
       \/ requests = <<>> /\ Ignored

(* What _away_handler() and the _whois_*_handler()s do with a line.        *)
InsertField(c, line) ==
    \/ /\ Matches(c)
       /\ requests' = [requests EXCEPT
              ![1].contact_info = @ \cup {[contact |-> c, line |-> line]},
              ![1].is_away = @ \/ line = "away"]
    \/ /\ ~Matches(c)
       /\ UNCHANGED requests

WhoisLine(line) ==
    /\ open
    /\ wire # <<>> /\ line \notin said
    /\ InsertField(Head(wire).contact, line)
    /\ said' = said \cup {line}
    /\ UNCHANGED <<connected, open, asked, answers, wire, foreign>>

(* An RPL_AWAY that answers no WHOIS but a message to the contact.         *)
AwayReply(c) ==
    /\ open
    /\ InsertField(c, "away")
    /\ UNCHANGED <<connected, open, asked, answers, wire, said, foreign>>

(* idle_connection_irc_command_send() lets a WHOIS through.                *)
SendCommand(c) ==
    /\ connected
    /\ foreign < MaxForeign
    /\ foreign' = foreign + 1
    /\ wire' = Append(wire, Whois(Command, c))
    /\ UNCHANGED <<connected, open, requests, asked, answers, said>>

(* The connection goes to DISCONNECTED.  Until its socket is closed        *)
(* replies still reach the handlers, which are never removed.              *)
Disconnected ==
    /\ connected
    /\ connected' = FALSE
    /\ UNCHANGED <<open, requests, asked, answers, wire, said, foreign>>

(* idle_contact_info_finalize() frees the requests that still wait;        *)
(* nothing answers them.                                                   *)
Finalized ==
    /\ ~connected /\ open
    /\ open' = FALSE
    /\ requests' = <<>>
    /\ wire' = <<>>
    /\ said' = {}
    /\ UNCHANGED <<connected, asked, answers, foreign>>

FinalReply == EndOfWhois \/ NoSuchServer \/ TryAgain

Next ==
    \/ \E c \in Contacts :
          RequestContactInfo(c) \/ SendCommand(c) \/ AwayReply(c)
    \/ \E line \in Lines : WhoisLine(line)
    \/ FinalReply
    \/ Disconnected \/ Finalized

Spec == Init /\ [][Next]_vars

(* The server gives every WHOIS a final reply.                             *)
FairSpec == Spec /\ WF_vars(FinalReply)

-----------------------------------------------------------------------------
Requests == [id : 1 .. asked, handle : Contacts, is_away : BOOLEAN,
             contact_info : SUBSET [contact : Contacts, line : Lines]]
WhoisCommands == [by : {Handshake, Command} \cup 1 .. asked, contact : Contacts]
Answers == [id : 1 .. asked, handle : Contacts, available : BOOLEAN,
            result : {"info", "does_not_exist", "busy"},
            contact_info : SUBSET [contact : Contacts, line : Lines],
            whois : WhoisCommands, said : SUBSET Lines]

(* Every variable has its type.                                            *)
TypeOK ==
    /\ connected \in BOOLEAN
    /\ open \in BOOLEAN
    /\ asked \in 0 .. MaxRequests
    /\ requests \in Seq(Requests)
    /\ answers \in SUBSET Answers
    /\ wire \in Seq(WhoisCommands)
    /\ said \in SUBSET Lines
    /\ foreign \in 0 .. MaxForeign

(* Whatever else is asked of the server, what a call returns was said of   *)
(* the contact it asked for: each field, and the reply that ended it       *)
(* unless that is RPL_TRYAGAIN, which names nobody.                        *)
AnswersAreAboutTheContact ==
    \A a \in answers :
        /\ \A f \in a.contact_info : f.contact = a.handle
        /\ a.result # "busy" => a.whois.contact = a.handle

(* When the only WHOIS commands are those of the requests, each request is *)
(* answered by the final reply to its own, with all that the server said   *)
(* before it: nothing is left over of one when the next is sent, although  *)
(* several calls wait.                                                     *)
AnsweredByItsOwn ==
    foreign = 0 =>
        \A a \in answers :
            /\ a.whois.by = a.id
            /\ {[contact |-> a.handle, line |-> l] : l \in a.said}
                   \subseteq a.contact_info

(* A call returns, whatever replies the ones before it got, unless the     *)
(* connection goes.                                                        *)
EveryRequestAnswered ==
    \A i \in 1 .. MaxRequests :
        asked >= i ~> (\E a \in answers : a.id = i) \/ ~connected
===============================================================================
