----------------------------- MODULE MessageParser -----------------------------
(***************************************************************************)
(* How a line becomes the arguments of a message: _parse_message() tries   *)
(* the formats of message_specs on the tokens of the line, and handlers    *)
(* take values out of the array of arguments by index and type, without a  *)
(* look at its length where the format is thought to provide them.         *)
(*                                                                         *)
(* A token is what tells formats apart: whether it begins with a colon and *)
(* what the rest can be taken for.  The words of commands are valid        *)
(* nicknames, numerics are numbers.                                        *)
(***************************************************************************)
EXTENDS Integers, Sequences, SequencesExt

CONSTANT MaxRest    \* bound on the tokens after those that a format takes
                    \* one by one

ASSUME MessageParserAssumption == MaxRest \in Nat

VARIABLES
    format_of,      \* the message_specs entry that is tried
    line            \* the tokens read so far

parserVars == <<format_of, line>>

(* Codes whose handlers take no argument, or that have none, are left out. *)
ChannelText == {"NOTICE_CHANNEL", "PRIVMSG_CHANNEL"}
UserText == {"NOTICE_USER", "PRIVMSG_USER"}
NotLetIn ==
    {"BADCHANNELKEY", "BANNEDFROMCHAN", "CHANNELISFULL", "INVITEONLYCHAN"}
WhoisFlags == {"WHOISOPERATOR", "WHOISREGNICK", "WHOISSECURE"}
WhoisNames == {"WHOISLOGGEDIN", "WHOISSERVER"}
Codes ==
    ChannelText \cup UserText \cup NotLetIn \cup WhoisFlags \cup WhoisNames
    \cup {"ERROR", "PING", "INVITE", "JOIN", "KICK", "MODE_CHANNEL", "NICK",
          "PART", "QUIT", "TOPIC", "WELCOME", "LISTEND", "AWAY", "ENDOFWHOIS",
          "MODEREPLY", "NAMEREPLY", "NAMEREPLY_END", "NOSUCHSERVER",
          "TOPIC_REPLY", "TOPIC_STAMP", "TRYAGAIN", "UNKNOWNCOMMAND",
          "WHOISCHANNELS", "WHOISHOST", "WHOISIDLE", "WHOISUSER", "LIST"}

(* message_specs, "." being the optional ":", "v" repeating what follows.  *)
FormatOf(code) ==
    CASE code = "ERROR" -> <<"I", ":">>
      [] code = "PING" -> <<"I", "s">>
      [] code = "INVITE" -> <<"c", "I", "c", "r">>
      [] code = "JOIN" -> <<"c", "I", "r">>
      [] code = "KICK" -> <<"c", "I", "r", "c", ".">>
      [] code = "MODE_CHANNEL" -> <<"I", "I", "r", "v", "s">>
      [] code = "NICK" -> <<"c", "I", "c">>
      [] code = "QUIT" -> <<"c", "I", ".">>
      [] code \in {"PART", "TOPIC"} -> <<"c", "I", "r", ".">>
      [] code \in ChannelText -> <<"c", "I", "r", ":">>
      [] code \in UserText -> <<"c", "I", "c", ":">>
      [] code = "WELCOME" -> <<"I", "I", "c">>
      [] code = "LISTEND" -> <<"I">>
      [] code \in {"AWAY", "WHOISHOST"} \cup WhoisFlags ->
             <<"I", "I", "I", "c", ":">>
      [] code = "ENDOFWHOIS" -> <<"I", "I", "I", "c">>
      [] code = "MODEREPLY" -> <<"I", "I", "I", "r", "v", "s">>
      [] code = "NAMEREPLY" -> <<"I", "I", "I", "I", "r", "v", "C">>
      [] code \in NotLetIn \cup {"NAMEREPLY_END"} -> <<"I", "I", "I", "r">>
      [] code \in {"NOSUCHSERVER", "TRYAGAIN", "UNKNOWNCOMMAND"} ->
             <<"I", "I", "I", "s", ":">>
      [] code = "TOPIC_REPLY" -> <<"I", "I", "I", "r", ":">>
      [] code = "TOPIC_STAMP" -> <<"I", "I", "I", "r", "c", "d">>
      [] code = "WHOISCHANNELS" -> <<"I", "I", "I", "c", ".">>
      [] code = "WHOISIDLE" -> <<"I", "I", "I", "c", "d">>
      [] code = "WHOISUSER" -> <<"I", "I", "I", "c", "s", "s", "I", ":">>
      [] code \in WhoisNames -> <<"I", "I", "I", "c", "s", ":">>
      [] code = "LIST" -> <<"I", "I", "I", "r", "d", ".">>

message_specs == [code \in Codes |-> FormatOf(code)]

NonPrefix == {"ERROR", "PING"}

Token(colon, kind) == [colon |-> colon, kind |-> kind]
Tokens == {Token(c, k) : c \in BOOLEAN,
                         k \in {"nick", "@nick", "room", "number", "other"}}
          \cup {Token(TRUE, "nothing")}

-----------------------------------------------------------------------------
(* _parse_atom(): what it accepts, a colon being skipped, and the values   *)
(* it appends.  For "d", sscanf() of nothing returns EOF, which counts.    *)
Accepts(atom, kind) ==
    CASE atom = "r" -> kind = "room"
      [] atom = "c" -> kind \in {"nick", "number"}
      [] atom = "C" -> kind \in {"nick", "number", "@nick"}
      [] atom = "d" -> kind \in {"number", "nothing"}
      [] OTHER -> TRUE

Values(atom) ==
    CASE atom = "I" -> <<>>
      [] atom = "s" -> <<"string">>
      [] atom = "C" -> <<"uint", "char">>
      [] OTHER -> <<"uint">>

(* The atoms of a format that each take one token, and what comes last.    *)
Lasts == {":", ".", "v"}
Atoms(format) == SelectInSeq(format, LAMBDA a : a \in Lasts)
AtomCount(format) ==
    IF Atoms(format) = 0 THEN Len(format) ELSE Atoms(format) - 1
LastOf(format) == IF Atoms(format) = 0 THEN "end" ELSE format[Atoms(format)]

AtomsAccepted(tokens, format) ==
    \A i \in 1 .. AtomCount(format) :
        i \in DOMAIN tokens => Accepts(format[i], tokens[i].kind)

(* A trailing parameter, which some proxies send without the colon         *)
IsTrailing(rest) ==
    /\ rest # <<>>
    /\ IF rest[1].colon THEN Len(rest) > 1 \/ rest[1].kind # "nothing"
       ELSE Len(rest) = 1

(* _parse_and_forward_one() up to the handlers.  MissingIsFine would be a  *)
(* parser that takes the end of a line for the end of the format.          *)
MissingIsFine(tokens, format, rest) ==
    /\ AtomsAccepted(tokens, format)
    /\ LastOf(format) = ":" => rest = <<>> \/ IsTrailing(rest)
Parses(tokens, format, rest) ==
    /\ Len(tokens) >= AtomCount(format)
    /\ AtomsAccepted(tokens, format)
    /\ LastOf(format) = ":" => IsTrailing(rest)
    /\ LastOf(format) = "v" =>
          /\ rest # <<>>
          /\ \A i \in DOMAIN rest : Accepts(Last(format), rest[i].kind)

Rest(tokens, format) == SubSeq(tokens, AtomCount(format) + 1, Len(tokens))

ValuesOf(tokens, format) ==
    LET rest == Rest(tokens, format)
        parsed == DOMAIN tokens \cap (1 .. AtomCount(format))
    IN  FlattenSeq([i \in parsed |-> Values(format[i])])
        \o CASE LastOf(format) \in {":", "."} /\ IsTrailing(rest)
                   -> <<"string">>
             [] LastOf(format) = "v"
                   -> FlattenSeq([i \in DOMAIN rest |-> Values(Last(format))])
             [] OTHER -> <<>>

(* _parse_message(): the word of a command that needs no prefix is first,  *)
(* any other is second.  Where there is no second token each is the same,  *)
(* g_ascii_strcasecmp() of nothing returning 0.                            *)
IsTried(code, tokens) ==
    IF code \in NonPrefix
    THEN tokens[1] = Token(FALSE, "nick")
    ELSE \/ Len(tokens) = 1
         \/ tokens[2] \in {Token(FALSE, "nick"), Token(FALSE, "number")}

(* The handlers are called, with these arguments.                          *)
IsForwarded(code, tokens) ==
    /\ tokens # <<>>
    /\ IsTried(code, tokens)
    /\ Parses(tokens, message_specs[code], Rest(tokens, message_specs[code]))

Args == ValuesOf(line, message_specs[format_of])

-----------------------------------------------------------------------------
(* _tokenize() of any line a server may send that does not end with a      *)
(* blank.  Once an atom is refused the rest of the line makes no           *)
(* difference, nor does what stands where anything is accepted, but for    *)
(* the word of the command.                                                *)
ParserInit == format_of \in DOMAIN message_specs /\ line = <<>>

AnyToken == {Token(FALSE, "nick"), Token(TRUE, "nick"), Token(TRUE, "nothing")}

TokensToTry(format, n) ==
    LET i == IF n <= AtomCount(format) THEN n ELSE Len(format)
    IN  IF n <= 2 /\ format[i] = "I"
        THEN AnyToken \cup {Token(FALSE, "number")}
        ELSE IF format[i] \in {"I", "s", ":", "."} THEN AnyToken ELSE Tokens

NextToken ==
    /\ Len(line) < AtomCount(message_specs[format_of]) + MaxRest
    /\ AtomsAccepted(line, message_specs[format_of])
    /\ \E t \in TokensToTry(message_specs[format_of], Len(line) + 1) :
          line' = Append(line, t)
    /\ UNCHANGED format_of

-----------------------------------------------------------------------------
(* What the handlers of a code take out of the arguments: the values they  *)
(* take without a look at their number, "any" being one they leave alone,  *)
(* and what they take any more of them for.                                *)
U(n) == [i \in 1 .. n |-> "uint"]

TakenByConnection ==
    [code \in {"ERROR", "PING", "NICK", "WELCOME", "UNKNOWNCOMMAND",
               "PRIVMSG_USER", "WHOISUSER"} |->
        CASE code = "NICK" -> U(2)
          [] code = "WELCOME" -> U(1)
          [] code = "PRIVMSG_USER" -> <<"uint", "any", "string">>
          [] code = "WHOISUSER" -> <<"uint", "string", "string">>
          [] OTHER -> <<"string">>]

TakenByContactInfo ==
    [code \in WhoisFlags \cup WhoisNames
              \cup {"AWAY", "ENDOFWHOIS", "NOSUCHSERVER", "TRYAGAIN",
                    "WHOISCHANNELS", "WHOISHOST", "WHOISIDLE", "WHOISUSER"} |->
        CASE code = "WHOISIDLE" -> U(2)
          [] code = "NOSUCHSERVER" -> <<"string">>
          [] code = "TRYAGAIN" -> <<"string", "string">>
          [] code \in {"AWAY", "WHOISHOST"} -> <<"uint", "string">>
          [] code \in WhoisNames -> <<"uint", "string", "string">>
          [] code = "WHOISUSER" -> <<"uint", "any", "any", "string">>
          [] OTHER -> U(1)]

TakenByIm == [code \in UserText |-> <<"uint", "any", "string">>]

TakenByMuc ==
    [code \in ChannelText \cup NotLetIn
              \cup {"INVITE", "JOIN", "KICK", "MODE_CHANNEL", "MODEREPLY",
                    "NAMEREPLY", "NAMEREPLY_END", "NICK", "PART", "QUIT",
                    "TOPIC", "TOPIC_REPLY", "TOPIC_STAMP"} |->
        CASE code \in ChannelText -> <<"uint", "uint", "string">>
          [] code = "TOPIC_REPLY" -> <<"uint", "string">>
          [] code \in {"INVITE", "KICK", "TOPIC_STAMP"} -> U(3)
          [] code \in {"JOIN", "NICK", "PART", "TOPIC"} -> U(2)
          [] OTHER -> U(1)]

TakenByRoomlist ==
    [code \in {"LIST", "LISTEND"} |-> IF code = "LIST" THEN U(2) ELSE <<>>]

Takers ==
    {TakenByConnection, TakenByContactInfo, TakenByIm, TakenByMuc,
     TakenByRoomlist}

(* idle_muc_channel_namereply() takes them in pairs; the optional last     *)
(* argument, and each mode, is a string.                                   *)
TakenFor(code, n) ==
    IF code = "NAMEREPLY" THEN (IF n % 2 = 0 THEN "uint" ELSE "char")
    ELSE "string"

(* Whatever line the server sends, if it is not all blanks, a handler that *)
(* is called for it finds every argument that it takes, each of the type   *)
(* it takes it for.                                                        *)
HandlersGetTheirArguments ==
    IsForwarded(format_of, line) =>
        \A taker \in Takers :
            format_of \in DOMAIN taker =>
                LET taken == taker[format_of]
                IN  /\ Len(taken) <= Len(Args)
                    /\ \A i \in DOMAIN taken : taken[i] \in {Args[i], "any"}
                    /\ \A i \in Len(taken) + 1 .. Len(Args) :
                          Args[i] = TakenFor(format_of, i)
===============================================================================
