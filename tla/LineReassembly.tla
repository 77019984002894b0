---------------------------- MODULE LineReassembly ----------------------------
(***************************************************************************)
(* How IdleParser makes lines of what the socket delivers: every read is   *)
(* converted to UTF-8 on its own and passed on as a chunk,                 *)
(* _input_stream_read_ready() -> sconn_received_cb() ->                    *)
(* idle_connection_ntoh() -> idle_parser_receive(), which cuts it at       *)
(* carriage returns and line feeds and keeps an unterminated rest in       *)
(* split_buf for the next chunk.                                           *)
(*                                                                         *)
(* Both terminators act alike and are the one value EOL.  A chunk is the C *)
(* string of what was read: it holds no zero byte.  Of the characters that *)
(* are not ASCII there are two kinds, whatever the charset: one of the     *)
(* bytes "lead" and "cont" that is as long in UTF-8, and one of the byte   *)
(* "wide" that is longer.  A byte that idle_salvage_utf8() replaces by the *)
(* three of U+FFFD grows like "wide".                                      *)
(***************************************************************************)
EXTENDS Integers, Sequences, FiniteSets, SequencesExt

CONSTANTS
    Letters,     \* the ASCII characters that do not end a line
    EOL,         \* a byte that does
    MaxLine,     \* IRC_MSG_MAXLEN + 2: what a read and split_buf may hold
    MaxStream    \* bound on the bytes received

High == {"lead", "cont", "wide"}
Wire == Letters \cup High \cup {EOL}

(* What the parser gets: "?" is what stands for a byte that was lost.      *)
Text == Letters \cup {"lead", "cont", "?"}
Bytes == Text \cup {EOL}

ASSUME LineReassemblyAssumption ==
    /\ Letters \cap (High \cup {"?"}) = {}
    /\ EOL \notin Letters \cup High \cup {"?"}
    /\ MaxLine \in Nat \ {0}
    /\ MaxStream \in Nat

VARIABLES
    split_buf,   \* priv->split_buf up to split_buf_used
    parsed,      \* history: the lines given to _parse_message()
    stream,      \* history: the bytes received
    heard,       \* history: what they were converted to
    torn,        \* history: a chunk began with EOL while a line was waiting
    cut,         \* history: a chunk began or ended inside a character
    long,        \* history: a converted chunk was longer than is scanned
    tail         \* history: the last one was

vars == <<split_buf, parsed, stream, heard, torn, cut, long, tail>>

Init ==
    /\ split_buf = <<>>
    /\ parsed = <<>>
    /\ stream = <<>> /\ heard = <<>>
    /\ torn = FALSE /\ cut = FALSE /\ long = FALSE /\ tail = FALSE

-----------------------------------------------------------------------------
(* g_convert(): a byte that is not ASCII is one of a character.            *)
Whole(chunk) ==
    \A i \in DOMAIN chunk :
        /\ chunk[i] = "lead" => i + 1 \in DOMAIN chunk /\ chunk[i + 1] = "cont"
        /\ chunk[i] = "cont" => i - 1 \in DOMAIN chunk /\ chunk[i - 1] = "lead"

InUtf8(b) == IF b = "wide" THEN <<"lead", "cont">> ELSE <<b>>

Utf8(s) == FlattenSeq([i \in DOMAIN s |-> InUtf8(s[i])])

(* idle_connection_ntoh().  Mistakes in it: giving up a chunk at the byte  *)
(* that cannot be converted, not stopping at a character that is cut.      *)
InAscii(b) == IF b \in High THEN "?" ELSE b

AsFarAsValid(chunk) ==
    LET valid == {n \in 0 .. Len(chunk) : Whole(SubSeq(chunk, 1, n))}
    IN  Utf8(SubSeq(chunk, 1, CHOOSE n \in valid : \A m \in valid : m <= n))
AlwaysInAscii(chunk) == [i \in DOMAIN chunk |-> InAscii(chunk[i])]

ntoh(chunk) ==
    IF Whole(chunk) THEN Utf8(chunk)
    ELSE [i \in DOMAIN chunk |-> InAscii(chunk[i])]

-----------------------------------------------------------------------------
(* The body of the loop of idle_parser_receive(), for the byte msg[i].     *)
(* scan.lasti is the index after the last terminator seen, 0 if none.      *)
NeverClears(scan) == scan.split      \* mutant of the next
ClearSplit(scan) == IF scan.lasti = 0 THEN <<>> ELSE scan.split

ScanByte(msg, scan, i) ==
    IF msg[i + 1] # EOL THEN [scan EXCEPT !.line_ends = FALSE]
    ELSE LET piece == SubSeq(msg, scan.lasti + 1, i)
             line  == IF scan.lasti = 0 THEN scan.split \o piece ELSE piece
         IN  [ lasti |-> i + 1,
               line_ends |-> TRUE,
               split |-> IF i > scan.lasti THEN ClearSplit(scan) ELSE scan.split,
               lines |-> IF i > scan.lasti THEN Append(scan.lines, line)
                         ELSE scan.lines ]

Scan(msg) ==
    LET scan[i \in 0 .. Len(msg)] ==
            IF i = 0 THEN [lasti |-> 0, line_ends |-> FALSE,
                           split |-> split_buf, lines |-> <<>>]
            ELSE ScanByte(msg, scan[i - 1], i - 1)
    IN  scan

ScanChunk(msg) == Scan(msg)[Len(msg)]

(* What split_buf holds after it: nothing after a terminator; else the     *)
(* rest is appended, or everything discarded if it does not fit.           *)
KeepsTorn(scan, rest) ==
    IF Len(rest) > MaxLine - Len(scan.split) THEN <<>> ELSE scan.split \o rest
KeepRest(scan, rest) ==
    IF scan.line_ends \/ Len(rest) > MaxLine - Len(scan.split)
    THEN <<>> ELSE scan.split \o rest

(* idle_parser_receive(): strnlen() bounds what is scanned, not the rest.  *)
Scanned(msg) == SubSeq(msg, 1, Min({Len(msg), MaxLine + 1}))

receive(msg) ==
    LET scan == ScanChunk(Scanned(msg))
        rest == SubSeq(msg, scan.lasti + 1, Len(msg))
    IN  /\ parsed' = parsed \o scan.lines
        /\ split_buf' = KeepRest(scan, rest)

(* _input_stream_read_ready(), sconn_received_cb()                         *)
Receive(chunk) ==
    LET msg == ntoh(chunk)
    IN  /\ Len(stream) + Len(chunk) <= MaxStream
        /\ receive(msg)
        /\ stream' = stream \o chunk
        /\ heard' = heard \o msg
        /\ torn' = (torn \/ (split_buf # <<>> /\ Head(msg) = EOL))
        /\ cut' = (cut \/ ~Whole(chunk))
        /\ tail' = (Len(msg) > MaxLine + 1)
        /\ long' = (long \/ tail')

Chunks == UNION {[1 .. n -> Wire] : n \in 1 .. MaxLine}

Next == \E chunk \in Chunks : Receive(chunk)

Spec == Init /\ [][Next]_vars

-----------------------------------------------------------------------------
(* The reference: the lines of a stream however it was cut into chunks.    *)
Ends(s) == {i \in DOMAIN s : s[i] = EOL}

Ended(s) == s = <<>> \/ Last(s) = EOL

LineStart(s, i) == 1 + Max({0} \cup {j \in Ends(s) : j < i})

LineEnds(s) == {i \in Ends(s) : i > 1 /\ s[i - 1] # EOL}

EndsOfLine(s, k) ==
    {i \in LineEnds(s) : Cardinality({j \in LineEnds(s) : j <= i}) = k}

Lines(s) ==
    LET end(k) == CHOOSE i \in EndsOfLine(s, k) : TRUE
    IN  [k \in 1 .. Cardinality(LineEnds(s)) |->
            SubSeq(s, LineStart(s, end(k)), end(k) - 1)]

Unfinished(s) == SubSeq(s, LineStart(s, Len(s) + 1), Len(s))

Fits(s) ==
    /\ \A i \in DOMAIN Lines(s) : Len(Lines(s)[i]) <= MaxLine
    /\ Len(Unfinished(s)) <= MaxLine

(* What is left of a text without some bytes.                              *)
Without(text, dropped) ==
    FlattenSeq([i \in DOMAIN text |-> IF text[i] \in dropped THEN <<>>
                                     ELSE <<text[i]>>])

(* The buffers hold what is put in them: split_buf its MaxLine bytes, and  *)
(* concat_buf twice as many, however long a chunk is once converted.  What *)
(* is left of one that was not scanned to its end may hold terminators.    *)
TypeOK ==
    /\ split_buf \in Seq(Bytes) /\ Len(split_buf) <= MaxLine
    /\ parsed \in Seq(Seq(Bytes))
    /\ \A i \in DOMAIN parsed : Len(parsed[i]) \in 1 .. 2 * MaxLine
    /\ stream \in Seq(Wire) /\ Len(stream) <= MaxStream
    /\ heard \in Seq(Bytes)
    /\ {torn, cut, long, tail} \subseteq BOOLEAN

(* However the network cuts the stream, the parser gets its lines, each    *)
(* once, whole and in order - as long as no character is cut, no line is   *)
(* too long or cut right before its terminator, and no chunk grows beyond  *)
(* what is scanned of it.                                                  *)
LinesArriveWhole ==
    ~torn /\ ~cut /\ ~long /\ Fits(Utf8(stream)) =>
        /\ parsed = Lines(Utf8(stream))
        /\ split_buf = Unfinished(Utf8(stream))

(* A chunk that begins or ends inside a character costs characters and     *)
(* nothing else: the lines are as many and end where they did, and every   *)
(* ASCII character arrives.                                                *)
CutSparesLetters ==
    /\ Without(heard, {"lead", "cont", "?"}) = Without(stream, High)
    /\ ~torn /\ ~long /\ Fits(heard) =>
          parsed = Lines(heard) /\ split_buf = Unfinished(heard)

(* What was torn, cut, too long or not scanned cannot damage what follows  *)
(* the first chunk that ends with a terminator and is scanned to its end:  *)
(* from there the lines of a chunk of whole characters are right again.    *)
DamageIsLocal ==
    [][LET chunk == SubSeq(stream', Len(stream) + 1, Len(stream'))
       IN  Ended(stream) /\ ~tail /\ ~tail' /\ Whole(chunk) =>
              parsed' = parsed \o Lines(Utf8(chunk))
      ]_vars

(* idle-parser.c:152, "continuation line buffer": split_buf holds (the     *)
(* beginning of) the line that continues in the next chunk, and nothing of *)
(* a line that has ended - at least when every chunk was scanned whole.    *)
ContinuationLine ==
    split_buf # <<>> /\ ~long => IsSuffix(split_buf, Unfinished(heard))
===============================================================================
