------------------------------ MODULE TextCoding ------------------------------
(***************************************************************************)
(* How a message text becomes IRC lines, idle_text_encode_and_split(), and *)
(* what the client of the other side makes of each line if it is this      *)
(* program too, idle_text_decode().                                        *)
(*                                                                         *)
(* A text is a sequence of bytes, with one letter, one two-byte character  *)
(* and the bytes that mean something: newline, ^B, ^C, a digit, a comma.   *)
(* Of the header that stands before a body only the length matters.        *)
(***************************************************************************)
EXTENDS Integers, Sequences, FiniteSetsExt

CONSTANTS
    IRC_MSG_MAXLEN,     \* the longest line the server relays
    PrefixAllowance,    \* the 100 bytes left for a relay prefix not known yet
    HeaderLength        \* by type: "PRIVMSG x :", "PRIVMSG x :^AACTION "...

Types == {"NORMAL", "ACTION", "NOTICE"}
FooterLength(type) == IF type = "ACTION" THEN 1 ELSE 0
LongestCharacter == 2

(* There is room for a character and a byte after every header: else the   *)
(* loop of idle_text_encode_and_split() would not end.                     *)
ASSUME TextAssumption ==
    /\ IRC_MSG_MAXLEN \in Nat /\ PrefixAllowance \in Nat
    /\ HeaderLength \in [Types -> Nat]
    /\ \A type \in Types :
          IRC_MSG_MAXLEN - PrefixAllowance - HeaderLength[type]
              - FooterLength(type) > LongestCharacter

Controls == {"^B", "^C"}
TextBytes == {"x", "lead", "cont", "newline", "digit", "comma"} \cup Controls

-----------------------------------------------------------------------------
(* g_utf8_find_prev_char(text + from, text + before)                       *)
CutsAnywhere(text, from, before) == before - 1
FindPrevChar(text, from, before) ==
    Max({i \in from .. before - 1 : text[i] # "cont"})

(* Where the part that begins at from ends: the index after it.            *)
PartEnd(text, from, max_bytes) ==
    LET newlines == {i \in from .. Len(text) : text[i] = "newline"}
        rest == Len(text) + 1 - from
    IN  IF newlines # {} /\ Min(newlines) - from < max_bytes THEN Min(newlines)
        ELSE IF rest > max_bytes THEN FindPrevChar(text, from, from + max_bytes)
        ELSE Len(text) + 1

SkipNewline(text, end) ==
    IF end <= Len(text) /\ text[end] = "newline" THEN end + 1 ELSE end

(* idle_text_encode_and_split(): the bodies of the lines                   *)
MaxBytes(type, max_msg_len) ==
    max_msg_len - (HeaderLength[type] + FooterLength(type))

Bodies(type, text, max_msg_len) ==
    LET max_bytes == MaxBytes(type, max_msg_len)
        from[i \in 1 .. Len(text) + 1] ==
            IF i > Len(text) THEN <<>>
            ELSE LET end == PartEnd(text, i, max_bytes)
                 IN  <<SubSeq(text, i, end - 1)>> \o from[SkipNewline(text, end)]
    IN  from[1]

LineLength(type, body) == HeaderLength[type] + Len(body) + FooterLength(type)

(* What stands after the ':' of a line of that type                        *)
Payload(type, body) ==
    IF type = "ACTION" THEN <<"^AACTION ">> \o body \o <<"^A">> ELSE body

-----------------------------------------------------------------------------
(* idle_ctcp_kill_blingbling(): ^C goes with up to two digits and, after a *)
(* comma, two more.                                                        *)
SkipDigit(msg, i) ==
    IF i <= Len(msg) /\ msg[i] = "digit" THEN i + 1 ELSE i

SkipDigits(msg, i) == SkipDigit(msg, SkipDigit(msg, i))

SkipColour(msg, i) ==
    LET j == SkipDigits(msg, i)
    IN  IF j <= Len(msg) /\ msg[j] = "comma" THEN SkipDigits(msg, j + 1) ELSE j

KillBlingbling(msg) ==
    LET from[i \in 1 .. Len(msg) + 1] ==
            IF i > Len(msg) THEN <<>>
            ELSE IF msg[i] = "^C" THEN from[SkipColour(msg, i + 1)]
            ELSE IF msg[i] = "^B" THEN from[i + 1]
            ELSE <<msg[i]>> \o from[i + 1]
    IN  from[1]

(* idle_text_decode() of a PRIVMSG                                         *)
KeepsLastByte(payload) == SubSeq(payload, 2, Len(payload))
ActionBody(payload) == SubSeq(payload, 2, Len(payload) - 1)

Decode(payload) ==
    IF payload # <<>> /\ Head(payload) = "^AACTION "
    THEN [type |-> "ACTION", body |-> KillBlingbling(ActionBody(payload))]
    ELSE [type |-> "NORMAL", body |-> KillBlingbling(payload)]
===============================================================================
