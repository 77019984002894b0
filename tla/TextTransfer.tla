----------------------------- MODULE TextTransfer -----------------------------
(***************************************************************************)
(* The text of a conversation on its way: what the server sends is cut     *)
(* into reads and made lines of again (LineReassembly), and what a client  *)
(* sends is cut into lines (TextCoding) that must be short enough for the  *)
(* server to relay under the user's nickname of the moment (Nicks).  A     *)
(* line becomes the arguments of handlers (MessageParser).                 *)
(*                                                                         *)
(* The two directions share no state, aliases only meet the nickname, and  *)
(* a line is parsed without regard to those before it, so a behaviour is   *)
(* about one of the four.                                                  *)
(***************************************************************************)
EXTENDS LineReassembly, Nicks, TextCoding, MessageParser

CONSTANTS
    NickLength,         \* the length of each nickname
    UserHostLength,     \* the length of "!user@host" in the relay prefix
    MaxText             \* bound on the characters of a text

VARIABLES
    about,              \* what this behaviour is about
    text_sent           \* history: the message sent last, or Nothing

transferVars == <<vars, nicksVars, parserVars, about, text_sent>>

Nothing == [type |-> "none"]

PrefixLength(nick) == NickLength[nick] + UserHostLength

(* The comment in idle_connection_get_max_message_length() on the longest  *)
(* possible prefix                                                         *)
ASSUME PrefixAssumption ==
    /\ NickLength \in [Nicks -> Nat] /\ UserHostLength \in Nat
    /\ MaxText \in Nat
    /\ \A n \in Nicks : PrefixLength(n) + 2 <= PrefixAllowance

TransferInit ==
    /\ Init /\ NicksInit /\ ParserInit
    /\ about \in {"received", "parsed", "sent", "names"}
    /\ about # "parsed" => format_of = "PING"
    /\ text_sent = Nothing

-----------------------------------------------------------------------------
(* idle_connection_get_max_message_length()                                *)
ForgetsColonAndSpace ==
    IF relay_prefix = NoNick THEN IRC_MSG_MAXLEN - PrefixAllowance
    ELSE IRC_MSG_MAXLEN - PrefixLength(relay_prefix)

MaxMessageLength ==
    IF relay_prefix = NoNick THEN IRC_MSG_MAXLEN - PrefixAllowance
    ELSE IRC_MSG_MAXLEN - (PrefixLength(relay_prefix) + 2)

(* Texts that a client may send: not empty, and in UTF-8.                  *)
Plain == {<<"x">>, <<"lead", "cont">>, <<"newline">>}
Formatted == {<<"x">>, <<"digit">>, <<"comma">>, <<"^B">>, <<"^C">>}
TextsOf(chars, length) ==
    {FlattenSeq(t) : t \in UNION {[1 .. n -> chars] : n \in 1 .. length}}
SentTexts == TextsOf(Plain, MaxText) \cup TextsOf(Formatted, MaxText - 1)

(* idle_text_send()                                                        *)
SendText(type, text) ==
    /\ text_sent = Nothing
    /\ text_sent' = [type |-> type, text |-> text,
                     bodies |-> Bodies(type, text, MaxMessageLength)]
    /\ UNCHANGED <<vars, nicksVars, parserVars>>

TransferNext ==
    /\ UNCHANGED about
    /\ \/ /\ about = "received" /\ Next
          /\ UNCHANGED <<nicksVars, parserVars, text_sent>>
       \/ /\ about = "parsed" /\ NextToken
          /\ UNCHANGED <<vars, nicksVars, text_sent>>
       \/ /\ about = "names" /\ NicksNext
          /\ UNCHANGED <<vars, parserVars, text_sent>>
       \/ /\ about = "sent" /\ OwnNick
          /\ text_sent' = Nothing /\ UNCHANGED <<vars, parserVars>>
       \/ /\ about = "sent"
          /\ \E type \in Types, text \in SentTexts :
                SendText(type, text)

TransferSpec == TransferInit /\ [][TransferNext]_transferVars

-----------------------------------------------------------------------------
(* Every variable has its type.                                            *)
TransferTypeOK ==
    /\ TypeOK /\ NicksTypeOK
    /\ format_of \in DOMAIN message_specs /\ line \in Seq(Tokens)
    /\ about \in {"received", "parsed", "sent", "names"}
    /\ text_sent # Nothing => text_sent.type \in Types

(* Every line sent fits with a prefix of that length before it.            *)
Fit(prefix) ==
    \A i \in DOMAIN text_sent.bodies :
        prefix + 2 + LineLength(text_sent.type, text_sent.bodies[i])
            <= IRC_MSG_MAXLEN

(* However a text is cut, its parts put together are the text, no          *)
(* character is split and no byte but newlines is lost; a line break is a  *)
(* break between parts.                                                    *)
PartsRebuildText ==
    text_sent # Nothing =>
        LET bodies == text_sent.bodies
            text == text_sent.text
            Kept(t) == Without(t, {"newline"})
        IN  /\ FlattenSeq(bodies) = Kept(text)
            /\ \A k \in DOMAIN bodies :
                  bodies[k] # <<>> => Head(bodies[k]) # "cont"
            /\ \A i \in DOMAIN text : text[i] = "newline" =>
                  \E k \in 0 .. Len(bodies) :
                     Len(FlattenSeq(SubSeq(bodies, 1, k)))
                         = Len(Kept(SubSeq(text, 1, i)))

(* The client of the peer shows every part as it was typed, formatting     *)
(* removed: no mark of the encoding and no control byte is left, and no    *)
(* letter is taken for part of one.                                        *)
PeerReadsText ==
    text_sent # Nothing =>
        \A i \in DOMAIN text_sent.bodies :
            LET body == text_sent.bodies[i]
                read == Decode(Payload(text_sent.type, body))
            IN  /\ (read.type = "ACTION") <=> (text_sent.type = "ACTION")
                /\ \A k \in DOMAIN read.body : read.body[k] \notin Controls
                /\ Range(body) \cap Controls = {} => read.body = body
                /\ Without(read.body, {"digit", "comma"})
                       = Without(body, {"digit", "comma"} \cup Controls)

(* A line is not too long for the server to relay, whatever it knows of    *)
(* the prefix - as long as the user's nickname is no longer than the one   *)
(* the connection was made with.                                           *)
RelayedLineFits ==
    /\ text_sent # Nothing
    /\ NickLength[server_nick] <= NickLength[Configured] \/ relay_prefix = NoNick
    => Fit(PrefixLength(server_nick))

(* idle-connection.c:1009: the length of a line leaves room for the prefix *)
(* that the "server will add [...] to all messages it relays" - at least   *)
(* when all that the server has said of the nickname has been received.    *)
RoomForThePrefix ==
    text_sent # Nothing /\ on_the_way = <<>> => Fit(PrefixLength(server_nick))
===============================================================================
