--------------------------- MODULE ContactInfoProofs ---------------------------
(* Theorems about ContactInfo.                                             *)
EXTENDS ContactInfo, TLAPS

(* What was inserted into a request that still waits is about its contact. *)
FieldsInv ==
    \A i \in DOMAIN requests : \A f \in requests[i].contact_info :
        f.contact = requests[i].handle

IInv == TypeOK /\ FieldsInv /\ AnswersAreAboutTheContact

LEMMA RequestsMono ==
  ASSUME asked \in Nat, asked' \in Nat, asked <= asked'
  PROVE  /\ Requests \subseteq Requests'
         /\ WhoisCommands \subseteq WhoisCommands'
         /\ Answers \subseteq Answers'
<1>1. 1 .. asked \subseteq 1 .. asked'
  OBVIOUS
<1>2. Requests \subseteq Requests'
  BY <1>1 DEF Requests
<1>3. WhoisCommands \subseteq WhoisCommands'
  BY <1>1 DEF WhoisCommands
<1>4. Answers \subseteq Answers'
  BY <1>1, <1>3 DEF Answers
<1>. QED
  BY <1>2, <1>3, <1>4

LEMMA SeqSubset ==
  ASSUME NEW S, NEW T, S \subseteq T, NEW s \in Seq(S)
  PROVE  s \in Seq(T)
  OBVIOUS

LEMMA SentType ==
  ASSUME TypeOK
  PROVE  /\ SentOnDequeueing \in Seq(WhoisCommands)
         /\ \A r \in Requests' : SentOnQueueing(r) \in Seq(WhoisCommands')
<1>1. ASSUME NEW i \in 1 .. Len(requests)
      PROVE  Whois(requests[i].id, requests[i].handle) \in WhoisCommands
  <2>1. requests[i] \in Requests
    BY <1>1 DEF TypeOK
  <2>2. requests[i].id \in 1 .. asked /\ requests[i].handle \in Contacts
    BY <2>1 DEF Requests
  <2>. QED
    BY <2>2 DEF Whois, WhoisCommands
<1>2. SentOnDequeueing \in Seq(WhoisCommands)
  BY <1>1 DEF SentOnDequeueing, TypeOK
<1>3. ASSUME NEW r \in Requests'
      PROVE  SentOnQueueing(r) \in Seq(WhoisCommands')
  <2>1. Whois(r.id, r.handle) \in WhoisCommands'
    BY DEF Requests, Whois, WhoisCommands
  <2>. QED
    BY <2>1 DEF SentOnQueueing
<1>. QED
  BY <1>2, <1>3

(* The request queued by RequestContactInfo() and the WHOIS it may send.   *)
LEMMA QueueingKeepsInv ==
  ASSUME IInv, NEW c \in Contacts, RequestContactInfo(c)
  PROVE  IInv'
<1>. DEFINE r == [id |-> asked + 1, handle |-> c, is_away |-> FALSE,
                  contact_info |-> {}]
<1>1. /\ UNCHANGED <<connected, open, answers, said>>
      /\ foreign' = foreign /\ asked' = asked + 1 /\ asked < MaxRequests
      /\ wire' = wire \o SentOnQueueing(r)
      /\ requests' = Append(requests, r)
  BY DEF RequestContactInfo
<1>2. asked' \in 0 .. MaxRequests /\ asked \in Nat /\ asked <= asked'
  BY <1>1, ContactInfoAssumption DEF IInv, TypeOK
<1>3. r \in Requests'
  BY <1>1, <1>2 DEF Requests
<1>4. requests \in Seq(Requests') /\ wire \in Seq(WhoisCommands')
      /\ answers \in SUBSET Answers'
  BY <1>2, RequestsMono, SeqSubset DEF IInv, TypeOK
<1>5. requests' \in Seq(Requests')
  BY <1>1, <1>3, <1>4
<1>6. wire' \in Seq(WhoisCommands')
  BY <1>1, <1>3, <1>4, SentType DEF IInv
<1>7. TypeOK'
  BY <1>1, <1>2, <1>4, <1>5, <1>6 DEF IInv, TypeOK
<1>8. FieldsInv'
  <2>. SUFFICES ASSUME NEW i \in DOMAIN requests',
                       NEW f \in requests'[i].contact_info
                PROVE  f.contact = requests'[i].handle
    BY DEF FieldsInv
  <2>1. CASE i = Len(requests) + 1
    BY <1>1, <1>4, <2>1
  <2>2. CASE i # Len(requests) + 1
    <3>1. i \in DOMAIN requests /\ requests'[i] = requests[i]
      BY <1>1, <1>4, <2>2
    <3>. QED
      BY <3>1 DEF IInv, FieldsInv
  <2>. QED
    BY <2>1, <2>2
<1>9. AnswersAreAboutTheContact'
  BY <1>1 DEF IInv, AnswersAreAboutTheContact
<1>. QED
  BY <1>7, <1>8, <1>9 DEF IInv

(* The reply that answers the request at the head, and sends the next.     *)
LEMMA AnswerKeepsInv ==
  ASSUME IInv, Replied, requests # <<>>,
         NEW result \in {"info", "does_not_exist", "busy"},
         result # "busy" => Head(requests).handle = Head(wire).contact,
         AnswerHead(result)
  PROVE  IInv'
<1>. DEFINE a == [id |-> Head(requests).id, handle |-> Head(requests).handle,
                  result |-> result, available |-> ~Head(requests).is_away,
                  contact_info |-> Head(requests).contact_info,
                  whois |-> Head(wire), said |-> said]
<1>1. /\ answers' = answers \cup {a} /\ requests' = Tail(requests)
      /\ wire' = Tail(wire) \o SentOnDequeueing
      /\ wire # <<>> /\ said' = {}
      /\ UNCHANGED <<connected, open, asked, foreign>>
  BY Zenon DEF AnswerHead, Replied
<1>2. /\ requests \in Seq(Requests) /\ wire \in Seq(WhoisCommands)
      /\ said \in SUBSET Lines
  BY DEF IInv, TypeOK
<1>3. /\ Head(requests) \in Requests /\ Head(wire) \in WhoisCommands
      /\ Head(requests) = requests[1] /\ 1 \in DOMAIN requests
      /\ Tail(requests) \in Seq(Requests) /\ Tail(wire) \in Seq(WhoisCommands)
  BY <1>1, <1>2
<1>4. a \in Answers
  <2>1. (~Head(requests).is_away) \in BOOLEAN
    OBVIOUS
  <2>. HIDE DEF a
  <2>2. /\ a.id \in 1 .. asked /\ a.handle \in Contacts
        /\ a.contact_info \in SUBSET [contact : Contacts, line : Lines]
    BY <1>3 DEF a, Requests
  <2>. QED
    BY <1>2, <1>3, <2>1, <2>2 DEF a, Answers
<1>5. TypeOK'
  <2>1. /\ Answers' = Answers /\ Requests' = Requests
        /\ WhoisCommands' = WhoisCommands
    BY <1>1 DEF Answers, Requests, WhoisCommands
  <2>2. answers' \in SUBSET Answers' /\ requests' \in Seq(Requests')
    BY <1>1, <1>3, <1>4, <2>1 DEF IInv, TypeOK
  <2>3. wire' \in Seq(WhoisCommands')
    BY <1>1, <1>3, <2>1, SentType DEF IInv
  <2>. QED
    BY <1>1, <2>2, <2>3 DEF IInv, TypeOK
<1>6. FieldsInv'
  <2>. SUFFICES ASSUME NEW i \in DOMAIN requests',
                       NEW f \in requests'[i].contact_info
                PROVE  f.contact = requests'[i].handle
    BY DEF FieldsInv
  <2>1. i + 1 \in DOMAIN requests /\ requests'[i] = requests[i + 1]
    BY <1>1, <1>2
  <2>. QED
    BY <2>1 DEF IInv, FieldsInv
<1>7. /\ \A f \in a.contact_info : f.contact = a.handle
      /\ a.result # "busy" => a.whois.contact = a.handle
  BY <1>3 DEF IInv, FieldsInv
<1>8. AnswersAreAboutTheContact'
  BY <1>1, <1>7, Zenon DEF IInv, AnswersAreAboutTheContact
<1>. QED
  BY <1>5, <1>6, <1>8 DEF IInv

(* A reply that matches no request only leaves the wire.                   *)
LEMMA IgnoredKeepsInv ==
  ASSUME IInv, Replied, Ignored
  PROVE  IInv'
<1>1. /\ UNCHANGED <<connected, open, asked, foreign, requests, answers>>
      /\ wire' = Tail(wire) /\ wire # <<>> /\ said' = {}
  BY DEF Replied, Ignored
<1>2. TypeOK'
  BY <1>1 DEF IInv, TypeOK, Requests, WhoisCommands, Answers
<1>3. FieldsInv' /\ AnswersAreAboutTheContact'
  BY <1>1 DEF IInv, FieldsInv, AnswersAreAboutTheContact
<1>. QED
  BY <1>2, <1>3 DEF IInv

(* A line inserted into the request at the head is about its contact.      *)
LEMMA InsertKeepsFields ==
  ASSUME TypeOK, FieldsInv, NEW c \in Contacts, NEW line \in Lines,
         InsertField(c, line), asked' = asked
  PROVE  FieldsInv' /\ requests' \in Seq(Requests')
<1>0. Requests' = Requests
  BY DEF Requests
<1>1. CASE ~Matches(c) /\ UNCHANGED requests
  BY <1>0, <1>1 DEF TypeOK, FieldsInv
<1>2. CASE Matches(c) /\ requests' = [requests EXCEPT
              ![1].contact_info = @ \cup {[contact |-> c, line |-> line]},
              ![1].is_away = @ \/ line = "away"]
  <2>. DEFINE r == [requests[1] EXCEPT
                      !.contact_info = @ \cup {[contact |-> c, line |-> line]},
                      !.is_away = @ \/ line = "away"]
  <2>1. /\ requests \in Seq(Requests) /\ 1 \in DOMAIN requests
        /\ requests[1] \in Requests /\ requests[1].handle = c
    BY <1>2 DEF TypeOK, Matches
  <2>2. r \in Requests /\ r.handle = c
        /\ r.contact_info = requests[1].contact_info
                              \cup {[contact |-> c, line |-> line]}
    <3>1. requests[1].is_away \in BOOLEAN
      BY <2>1 DEF Requests
    <3>2. (requests[1].is_away \/ line = "away") \in BOOLEAN
      OBVIOUS
    <3>3. requests[1].contact_info \cup {[contact |-> c, line |-> line]}
            \in SUBSET [contact : Contacts, line : Lines]
      BY <2>1 DEF Requests
    <3>. DEFINE away == requests[1].is_away \/ line = "away"
                info == requests[1].contact_info
                          \cup {[contact |-> c, line |-> line]}
    <3>4. away \in BOOLEAN
          /\ info \in SUBSET [contact : Contacts, line : Lines]
      BY <3>2, <3>3
    <3>. HIDE DEF away, info
    <3>. DEFINE r1 == [requests[1] EXCEPT !.contact_info = info]
                r2 == [r1 EXCEPT !.is_away = away]
    <3>5. r1 \in Requests /\ r1.handle = c /\ r1.contact_info = info
      BY <2>1, <3>4 DEF Requests
    <3>6. r2 \in Requests /\ r2.handle = c /\ r2.contact_info = info
      <4>. HIDE DEF r1
      <4>. QED
        BY <3>4, <3>5 DEF Requests
    <3>7. r = r2
      BY <2>1 DEF Requests, away, info
    <3>8. r \in Requests /\ r.handle = c /\ r.contact_info = info
      BY <3>6, <3>7, Zenon
    <3>. QED
      BY <3>8, Zenon DEF info
  <2>3. requests' = [requests EXCEPT ![1] = r]
    BY <1>2, <2>1 DEF Requests
  <2>. HIDE DEF r
  <2>4. requests' \in Seq(Requests)
    BY <2>1, <2>2, <2>3
  <2>5. FieldsInv'
    <3>. SUFFICES ASSUME NEW i \in DOMAIN requests',
                         NEW f \in requests'[i].contact_info
                  PROVE  f.contact = requests'[i].handle
      BY DEF FieldsInv
    <3>1. CASE i = 1
      <4>1. f \in requests[1].contact_info \/ f = [contact |-> c, line |-> line]
        BY <2>1, <2>2, <2>3, <3>1
      <4>2. requests'[i].handle = c
        BY <2>1, <2>2, <2>3, <3>1
      <4>. QED
        BY <2>1, <4>1, <4>2 DEF FieldsInv
    <3>2. CASE i # 1
      <4>1. i \in DOMAIN requests /\ requests'[i] = requests[i]
        BY <2>1, <2>3, <3>2
      <4>. QED
        BY <4>1 DEF FieldsInv
    <3>. QED
      BY <3>1, <3>2
  <2>. QED
    BY <1>0, <2>4, <2>5
<1>. QED
  BY <1>1, <1>2, Zenon DEF InsertField

LEMMA LineKeepsInv ==
  ASSUME IInv, NEW c \in Contacts, NEW line \in Lines, InsertField(c, line),
         said' \in SUBSET Lines,
         UNCHANGED <<connected, open, asked, answers, wire, foreign>>
  PROVE  IInv'
<1>1. FieldsInv' /\ requests' \in Seq(Requests')
  BY InsertKeepsFields DEF IInv
<1>2. TypeOK'
  BY <1>1 DEF IInv, TypeOK, WhoisCommands, Answers
<1>3. AnswersAreAboutTheContact'
  BY DEF IInv, AnswersAreAboutTheContact
<1>. QED
  BY <1>1, <1>2, <1>3 DEF IInv

THEOREM Inductive == Spec => []IInv
<1>1. Init => IInv
  <2>. SUFFICES ASSUME Init PROVE IInv
    OBVIOUS
  <2>1. wire \in Seq(WhoisCommands)
    <3>1. Whois(Handshake, Self) \in WhoisCommands
      BY ContactInfoAssumption DEF WhoisCommands, Whois
    <3>2. CASE foreign = 1
      BY <3>1, <3>2 DEF Init
    <3>3. CASE foreign # 1
      BY <3>3 DEF Init
    <3>. QED
      BY <3>2, <3>3
  <2>2. TypeOK
    BY <2>1, ContactInfoAssumption DEF Init, TypeOK
  <2>. QED
    BY <2>2 DEF Init, IInv, FieldsInv, AnswersAreAboutTheContact
<1>2. IInv /\ [Next]_vars => IInv'
  <2>. SUFFICES ASSUME IInv, [Next]_vars PROVE IInv'
    OBVIOUS
  <2>1. ASSUME NEW c \in Contacts, RequestContactInfo(c) PROVE IInv'
    BY <2>1, QueueingKeepsInv
  <2>2. ASSUME NEW c \in Contacts, SendCommand(c) PROVE IInv'
    <3>1. /\ UNCHANGED <<connected, open, requests, asked, answers, said>>
          /\ foreign' = foreign + 1 /\ foreign < MaxForeign
          /\ wire' = Append(wire, Whois(Command, c))
      BY <2>2 DEF SendCommand
    <3>2. Whois(Command, c) \in WhoisCommands
      BY DEF Whois, WhoisCommands
    <3>3. TypeOK'
      BY <3>1, <3>2, ContactInfoAssumption
         DEF IInv, TypeOK, Requests, WhoisCommands, Answers
    <3>. QED
      BY <3>1, <3>3 DEF IInv, FieldsInv, AnswersAreAboutTheContact
  <2>3. ASSUME NEW c \in Contacts, AwayReply(c) PROVE IInv'
    <3>1. "away" \in Lines
      BY DEF Lines
    <3>. QED
      BY <2>3, <3>1, LineKeepsInv DEF AwayReply, IInv, TypeOK
  <2>4. ASSUME NEW line \in Lines, WhoisLine(line) PROVE IInv'
    <3>0. Head(wire) \in WhoisCommands
      BY <2>4 DEF WhoisLine, IInv, TypeOK
    <3>1. Head(wire).contact \in Contacts /\ said' \in SUBSET Lines
      BY <2>4, <3>0 DEF WhoisLine, IInv, TypeOK, WhoisCommands
    <3>. QED
      BY <2>4, <3>1, LineKeepsInv DEF WhoisLine
  <2>5. CASE EndOfWhois
    <3>1. CASE Matches(Head(wire).contact) /\ AnswerHead("info")
      BY <2>5, <3>1, AnswerKeepsInv DEF EndOfWhois, Matches
    <3>2. CASE Ignored
      BY <2>5, <3>2, IgnoredKeepsInv DEF EndOfWhois
    <3>. QED
      BY <2>5, <3>1, <3>2 DEF EndOfWhois
  <2>6. CASE NoSuchServer
    <3>1. CASE Matches(Head(wire).contact) /\ AnswerHead("does_not_exist")
      BY <2>6, <3>1, AnswerKeepsInv DEF NoSuchServer, Matches
    <3>2. CASE Ignored
      BY <2>6, <3>2, IgnoredKeepsInv DEF NoSuchServer
    <3>. QED
      BY <2>6, <3>1, <3>2 DEF NoSuchServer
  <2>7. CASE TryAgain
    <3>1. CASE requests # <<>> /\ AnswerHead("busy")
      BY <2>7, <3>1, AnswerKeepsInv DEF TryAgain
    <3>2. CASE Ignored
      BY <2>7, <3>2, IgnoredKeepsInv DEF TryAgain
    <3>. QED
      BY <2>7, <3>1, <3>2 DEF TryAgain
  <2>8. CASE Finalized
    <3>1. /\ UNCHANGED <<connected, asked, answers, foreign>> /\ open' = FALSE
          /\ requests' = <<>> /\ wire' = <<>> /\ said' = {}
      BY <2>8 DEF Finalized
    <3>2. Answers' = Answers
      BY <3>1 DEF WhoisCommands, Answers
    <3>3. requests' \in Seq(Requests') /\ wire' \in Seq(WhoisCommands')
      BY <3>1
    <3>4. TypeOK'
      BY <3>1, <3>2, <3>3 DEF IInv, TypeOK
    <3>. QED
      BY <3>1, <3>4 DEF IInv, FieldsInv, AnswersAreAboutTheContact
  <2>9. CASE Disconnected \/ UNCHANGED vars
    BY <2>9 DEF Disconnected, vars, IInv, TypeOK, FieldsInv, Requests,
                WhoisCommands, Answers, AnswersAreAboutTheContact
  <2>. QED
    BY <2>1, <2>2, <2>3, <2>4, <2>5, <2>6, <2>7, <2>8, <2>9
       DEF Next, FinalReply
<1>. QED
  BY <1>1, <1>2, PTL DEF Spec

(* Every variable has its type.                                            *)
THEOREM TypeCorrect == Spec => []TypeOK
<1>1. IInv => TypeOK
  BY DEF IInv
<1>. QED
  BY <1>1, Inductive, PTL

(* What a RequestContactInfo() call returns was said of its contact,       *)
(* however many WHOIS commands of other origin the server answers.         *)
THEOREM AboutTheContactCorrect == Spec => []AnswersAreAboutTheContact
<1>1. IInv => AnswersAreAboutTheContact
  BY DEF IInv
<1>. QED
  BY <1>1, Inductive, PTL

-----------------------------------------------------------------------------
(* With no other WHOIS the wire holds that of the request at the head, and *)
(* the lines that came for it are in that request.                         *)
HeadWhois == Whois(Head(requests).id, Head(requests).handle)

OwnInv ==
    /\ foreign = 0
    /\ requests = <<>> => wire = <<>> /\ said = {}
    /\ requests # <<>> => wire = <<HeadWhois>>
    /\ \A l \in said : [contact |-> Head(requests).handle, line |-> l]
                         \in Head(requests).contact_info
    /\ AnsweredByItsOwn

LEMMA SingletonSeq == ASSUME NEW x PROVE Head(<<x>>) = x /\ Tail(<<x>>) = <<>>
  OBVIOUS

LEMMA TailFacts ==
  ASSUME NEW S, NEW s \in Seq(S), Len(s) > 1
  PROVE  Tail(s) # <<>> /\ Head(Tail(s)) = s[2]
<1>1. Tail(s) \in Seq(S) /\ Len(Tail(s)) > 0 /\ Tail(s)[1] = s[2]
  OBVIOUS
<1>2. ASSUME NEW t \in Seq(S), Len(t) > 0 PROVE t # <<>> /\ Head(t) = t[1]
  BY <1>2
<1>. QED
  BY <1>1, <1>2, Zenon

LEMMA EmptyConcat == ASSUME NEW S, NEW s \in Seq(S) PROVE <<>> \o s = s
  OBVIOUS

LEMMA OwnAnswer ==
  ASSUME TypeOK, OwnInv, Replied, NEW result, requests # <<>>,
         AnswerHead(result)
  PROVE  OwnInv'
<1>. DEFINE a == [id |-> Head(requests).id, handle |-> Head(requests).handle,
                  result |-> result, available |-> ~Head(requests).is_away,
                  contact_info |-> Head(requests).contact_info,
                  whois |-> Head(wire), said |-> said]
<1>1. /\ answers' = answers \cup {a} /\ requests' = Tail(requests)
      /\ wire' = Tail(wire) \o SentOnDequeueing /\ said' = {}
      /\ foreign' = foreign
  BY Zenon DEF AnswerHead, Replied
<1>2. requests \in Seq(Requests)
  BY DEF TypeOK
<1>3. Tail(wire) = <<>> /\ Head(wire) = HeadWhois
  BY SingletonSeq, Zenon DEF OwnInv
<1>4. a.whois.by = a.id
  BY <1>3 DEF HeadWhois, Whois
<1>5. {[contact |-> a.handle, line |-> l] : l \in a.said}
        \subseteq a.contact_info
  BY DEF OwnInv
<1>6. AnsweredByItsOwn'
  <2>. HIDE DEF a
  <2>. QED
    BY <1>1, <1>4, <1>5, Zenon DEF OwnInv, AnsweredByItsOwn
<1>7. wire' = SentOnDequeueing
  <2>1. SentOnDequeueing \in Seq(WhoisCommands)
    BY SentType
  <2>. QED
    BY <1>1, <1>3, <2>1, EmptyConcat, Zenon
<1>8. CASE Len(requests) > 1
  <2>1. requests' # <<>> /\ Head(requests') = requests[2]
    BY <1>1, <1>2, <1>8, TailFacts, Zenon
  <2>2. wire' = <<HeadWhois>>'
    BY <1>7, <1>8, <2>1 DEF SentOnDequeueing, HeadWhois
  <2>. QED
    BY <1>1, <1>6, <2>1, <2>2 DEF OwnInv
<1>9. CASE ~(Len(requests) > 1)
  <2>1. requests' = <<>> /\ wire' = <<>>
    BY <1>1, <1>2, <1>7, <1>9 DEF SentOnDequeueing
  <2>. QED
    BY <1>1, <1>6, <2>1 DEF OwnInv
<1>. QED
  BY <1>8, <1>9

(* A line about the contact of the head goes into its request; said_ is    *)
(* what has then been said.                                                *)
LEMMA OwnLine ==
  ASSUME TypeOK, OwnInv, NEW c, NEW line, InsertField(c, line),
         NEW said_ \in SUBSET Lines, said' = said_,
         \A l \in said_ : l \in said \/ (l = line /\ Matches(c)),
         UNCHANGED <<answers, wire, foreign>>
  PROVE  OwnInv'
<1>1. CASE ~Matches(c) /\ UNCHANGED requests
  BY <1>1 DEF OwnInv, AnsweredByItsOwn, HeadWhois
<1>2. CASE Matches(c) /\ requests' = [requests EXCEPT
              ![1].contact_info = @ \cup {[contact |-> c, line |-> line]},
              ![1].is_away = @ \/ line = "away"]
  <2>1. requests \in Seq(Requests) /\ requests # <<>> /\ 1 \in DOMAIN requests
        /\ requests[1] \in Requests /\ Head(requests) = requests[1]
        /\ requests[1].handle = c
    BY <1>2 DEF TypeOK, Matches
  <2>2. /\ requests'[1].id = requests[1].id
        /\ requests'[1].handle = requests[1].handle
        /\ requests'[1].contact_info
             = requests[1].contact_info \cup {[contact |-> c, line |-> line]}
    BY <1>2, <2>1 DEF Requests
  <2>3. Len(requests') = Len(requests) /\ requests' # <<>>
        /\ Head(requests') = requests'[1]
    BY <1>2, <2>1
  <2>4. HeadWhois' = HeadWhois
    BY <2>1, <2>2, <2>3 DEF HeadWhois
  <2>5. \A l \in said' : [contact |-> Head(requests').handle, line |-> l]
                         \in Head(requests').contact_info
    BY <2>1, <2>2, <2>3 DEF OwnInv
  <2>. QED
    BY <2>1, <2>3, <2>4, <2>5 DEF OwnInv, AnsweredByItsOwn
<1>. QED
  BY <1>1, <1>2, Zenon DEF InsertField

(* A WHOIS that no request stands behind is not forgotten.                 *)
LEMMA ForeignGrows ==
  ASSUME TypeOK, [Next]_vars, foreign' = 0 PROVE foreign = 0
<1>1. ASSUME NEW c \in Contacts, SendCommand(c) PROVE FALSE
  BY <1>1 DEF SendCommand, TypeOK
<1>2. ASSUME UNCHANGED foreign PROVE foreign = 0
  BY <1>2
<1>. QED
  BY <1>1, <1>2, Zenon
     DEF Next, vars, RequestContactInfo, AwayReply, WhoisLine, FinalReply,
         EndOfWhois, NoSuchServer, TryAgain, Replied, Disconnected,
         Finalized

(* When no WHOIS is sent but those of the requests, each call is answered  *)
(* by the final reply to its own WHOIS and with every line before that.    *)
THEOREM OwnCorrect == Spec => []AnsweredByItsOwn
<1>1. Init => (foreign = 0 => OwnInv)
  BY DEF Init, OwnInv, AnsweredByItsOwn
<1>2. IInv /\ (foreign = 0 => OwnInv) /\ [Next]_vars
        => (foreign = 0 => OwnInv)'
  <2>. SUFFICES ASSUME TypeOK, foreign = 0 => OwnInv, [Next]_vars, foreign' = 0
                PROVE  OwnInv'
    BY DEF IInv
  <2>0. OwnInv
    BY ForeignGrows
  <2>. USE <2>0
  <2>1. ASSUME NEW c \in Contacts, RequestContactInfo(c) PROVE OwnInv'
    <3>. DEFINE r == [id |-> asked + 1, handle |-> c, is_away |-> FALSE,
                      contact_info |-> {}]
    <3>1. /\ UNCHANGED <<answers, said, foreign>>
          /\ wire' = wire \o SentOnQueueing(r)
          /\ requests' = Append(requests, r)
      BY <2>1 DEF RequestContactInfo
    <3>. HIDE DEF r
    <3>2. requests \in Seq(Requests)
      BY DEF TypeOK
    <3>3. CASE requests = <<>>
      BY <3>1, <3>2, <3>3 DEF OwnInv, SentOnQueueing, HeadWhois,
                              AnsweredByItsOwn
    <3>4. CASE requests # <<>>
      <4>1. Head(requests') = Head(requests) /\ wire' = wire
        BY <3>1, <3>2, <3>4 DEF SentOnQueueing, OwnInv
      <4>. QED
        BY <3>1, <3>2, <3>4, <4>1 DEF OwnInv, HeadWhois, AnsweredByItsOwn
    <3>. QED
      BY <3>3, <3>4
  <2>2. ASSUME NEW c \in Contacts, SendCommand(c) PROVE OwnInv'
    BY <2>2, <2>0 DEF SendCommand, OwnInv
  <2>3. ASSUME NEW c \in Contacts, AwayReply(c) PROVE OwnInv'
    <3>1. said \in SUBSET Lines /\ said' = said
      BY <2>3 DEF AwayReply, TypeOK
    <3>2. \A l \in said : l \in said \/ (l = "away" /\ Matches(c))
      BY Zenon
    <3>. QED
      BY <2>3, <3>1, <3>2, OwnLine, Zenon DEF AwayReply
  <2>4. ASSUME NEW line \in Lines, WhoisLine(line) PROVE OwnInv'
    <3>1. requests # <<>> /\ Head(wire).contact = Head(requests).handle
      BY <2>4 DEF WhoisLine, OwnInv, HeadWhois, Whois
    <3>2. said' \in SUBSET Lines /\ Matches(Head(wire).contact)
      BY <2>4, <3>1 DEF WhoisLine, TypeOK, Matches
    <3>. QED
      BY <2>4, <3>2, OwnLine DEF WhoisLine
  <2>5. CASE FinalReply
    <3>1. requests # <<>> /\ Matches(Head(wire).contact)
      BY <2>5 DEF FinalReply, EndOfWhois, NoSuchServer, TryAgain, Replied,
                  OwnInv, HeadWhois, Whois, Matches
    <3>. QED
      BY <2>5, <3>1, OwnAnswer
         DEF FinalReply, EndOfWhois, NoSuchServer, TryAgain
  <2>6. CASE Disconnected \/ Finalized
    BY <2>6 DEF Disconnected, Finalized, OwnInv, HeadWhois, AnsweredByItsOwn
  <2>7. CASE UNCHANGED vars
    BY <2>7 DEF vars, OwnInv, HeadWhois, AnsweredByItsOwn
  <2>. QED
    BY <2>1, <2>2, <2>3, <2>4, <2>5, <2>6, <2>7 DEF Next
<1>3. (foreign = 0 => OwnInv) => AnsweredByItsOwn
  BY DEF OwnInv, AnsweredByItsOwn
<1>. QED
  BY <1>1, <1>2, <1>3, Inductive, PTL DEF Spec
===============================================================================
