# telepathy-idle in TLA+

telepathy-idle is an IRC connection manager: a D-Bus service that lets
Telepathy clients use IRC.  This directory holds TLA+ models of the parts of it
where the order of events matters, TLC configurations that check them on small
instances, and proofs (TLAPS) that the main properties hold for every instance.
All paths below are relative to the repository.

## 1. The system

One process, one GLib main loop.  Nearly everything is a callback of that loop,
so a handler is atomic; what interleaves is *which* callback comes next: a
D-Bus method from some client, a chunk of bytes from the server, the completion
of a write, of a close or of a connection attempt, a timer, an idle callback.
The only second thread is the one that connects the socket
(`_connect_in_thread()`), which meets the main loop in the judgement of TLS
certificates.

| Component | State it keeps | Operations | Interacts with |
|---|---|---|---|
| `IdleConnection` output queue (`src/idle-connection.c`) | `msg_queue`, `msg_queue_timeout`, `msg_sending`, `last_msg_sent` | queue a message by priority, flush or arm the timer, take one, hear that it is written | `IdleServerConnection` below (`send_async` and its callback); everything that sends above |
| `IdleConnection` lifecycle | `status` (in `TpBaseConnection`), `sconn_connected`, `quitting`, `force_disconnect_id`, `connect_cancellable`, keepalive timer and `ping_time` | connect, welcome, disconnect, error, refused nickname, PING/PONG, finish the shutdown | `TpBaseConnection` (virtual functions), password prompt, parser, server connection, all managers (status-changed) |
| `IdleServerConnection` (`src/idle-server-connection.c`) | `state`, `io_stream`, input and output buffer, `certificate_queue` | connect in a thread, read, write in pieces, close, force the close | socket and TLS (GIO), the TLS manager |
| `IdleParser` (`src/idle-parser.c`) | `split_buf`, handler lists | cut chunks, which the connection converts to UTF-8, into lines; match a line with the message specifications; call handlers by priority | all managers and channels register handlers |
| TLS manager, channel, certificate (`src/server-tls-*.c`, `src/tls-certificate.c`) | the channel and result under judgement, judged channels, `cert_state` | verify, Accept, Reject, Close, close all on disconnection | connecting thread, D-Bus clients |
| MUC channel and manager (`src/idle-muc-*.c`, `src/room-config.c`) | per room: join state, password call, members, modes, topic; which rooms exist; request tokens | JOIN, PART, KICK, QUIT, NICK, MODE, TOPIC, names, errors, ProvidePassword, requests, close | parser, handle repositories, D-Bus requests |
| IM channel and manager (`src/idle-im-*.c`) | a channel per contact, unread messages | message, request, acknowledge, close and reopen, destroy | parser, D-Bus |
| Contact info (`src/idle-contact-info.c`) | FIFO of WHOIS requests | request, reply lines, end, errors | parser |
| Room list (`src/idle-roomlist-*.c`) | the listing channel, rooms not yet announced | ListRooms, LIST lines, LISTEND | parser |
| Aliases, renaming, IRCCommand (`src/idle-connection.c`) | `aliases`, `queued_aliases`, the self handle, `relay_prefix` | RequestRename, SetAliases, Send; announce what changed | output queue, parser |
| Text and CTCP (`src/idle-text.c`, `src/idle-ctcp.c`) | none | split a text, decode a line, remove formatting | IM and MUC channels |
| Handles, protocol, connection manager, `main` | none | validate and normalise names; parameters, construction | telepathy-glib |

### What is hard here

* **Interleaving of shutdown.**  A client's Disconnect(), the password prompt,
  the connecting thread, the server's ERROR, a read that ends, a timer that
  forces the close and the close itself come in any order, and exactly one
  `tp_base_connection_finish_shutdown()` must follow, when nothing is left that
  would use the freed object.
* **Parts that end together.**  Chats, the room list, the certificate dialogue
  and the parser's handlers are all taken down by handlers of one signal, in
  whatever state they are.
* **The send timer.**  `msg_queue_timeout` must name a live source exactly when
  one is attached; the callback is called by the source *and* directly.
* **One write buffer.**  The server connection has one `output_buffer`; only
  `msg_sending` keeps a second message out of it.
* **Integer width.**  Priorities span the whole `guint` range and are compared
  by a difference returned as a `gint`.
* **Arbitrary chunks, arbitrary lines.**  The network cuts the stream anywhere, in
  the middle of a character too, and each read is converted to UTF-8 on its own;
  handlers take arguments out of an array by index, for lines the server chose.
* **A blocked thread.**  The connecting thread waits, uncancellably, for a
  verdict that a client may never give.
* **Requests without names.**  IRC replies do not say which request they
  answer: joins, WHOIS, LIST.
* **Channels that close while a command is in flight.**  A JOIN may be answered
  after its channel was closed, destroyed or replaced; closing calls back into
  the manager, which may make the channel again, in the middle of its own closed
  signal.
* **State kept by differences.**  A room's modes and members, what clients may do
  with it, aliases and topics are updated from what each message changes, never
  computed afresh.

`PROJECT.json` lists each of these hazards at its line with the properties that
cover it, and says why where none does.

### What makes each component correct

* Output queue: order within a priority and between priorities, one message per
  two seconds, no message lost or stuck while the connection is well, no two
  writes in the buffer, no timer left when the socket is down.
* Lifecycle: the status only moves forward, the socket opens once and is closed
  before the shutdown is finished, the shutdown finishes once and always, a dead
  server is noticed.
* Parser: the lines of the stream are seen, whatever the chunks; a handler that
  is called finds the arguments it takes; a message is taken by one part.
* Server TLS: each request gets the verdict a client gave for that certificate;
  no channel outlives the connection; a given-up attempt ends.
* MUC: a request is answered exactly once, in every outcome; a room the server
  says the user is in has a joined channel; a password call returns; clients are
  told once of each channel, and know its members, its topic, and the rights that
  its modes give.
* IM: no unread message is lost by closing, and chats are announced as they are.
* Contact info: each RequestContactInfo returns once, with the reply that is
  its own.
* Room list: every room between a LIST and its LISTEND is announced once.
* Aliases: what clients were told is what they would be told if they asked.
* Text: the parts of a text are the text, and each fits in a line that the
  server relays.

## 2. Modules

| Module | What it is |
|---|---|
| `OutputPendingMsg` | a queued message, the comparison, sorted insertion |
| `SendQueue`, `MCSendQueue` | output queue and write path; values for TLC |
| `SendQueueProofs` | lemmas on sorted insertion, theorems about the queue |
| `ConnectionStatus` | abstract: what a connection promises the layer above |
| `ConnectionLifecycle` | lifecycle, refines `ConnectionStatus` |
| `ConnectionLifecycleProofs` | theorems about it, and the refinement |
| `ServerTls`, `ServerTlsProofs` | certificate judgement between two threads and clients; theorems |
| `ParserHandlers` | who is called for a message: handler lists, priorities, dispatch |
| `ImManager` | the chats |
| `RoomList` | the room list channel and its listings |
| `Connection` | **composes** these four with the lifecycle |
| `ConnectionProofs` | theorems about the composition, its chats, its room lists and who takes a message |
| `LineReassembly` | `idle_connection_ntoh()` and `idle_parser_receive()` against a splitter of the whole stream |
| `MessageParser` | a line's tokens against `message_specs`, and what handlers take |
| `Nicks` | nicknames, aliases, the relay prefix |
| `TextCoding` | texts into lines, and lines into texts |
| `TextTransfer`, `MCTextTransfer` | **composes** the four above; values for TLC |
| `TextTransferProofs` | theorems about lines, texts and aliases |
| `ContactInfo`, `ContactInfoProofs` | RequestContactInfo() and its queue of WHOIS commands; theorems |
| `MucManager`, `MucManagerProofs` | the rooms: requests, joining, passwords, invitations, closing; theorems |
| `MucModes` | the modes of a room, rights and configuration |
| `MucMembers` | who is in a room |
| `MucSubject` | the topic of a room |
| `MucRoom`, `MucRoomProofs` | **composes** the three aspects of a room; theorems about each |

How they fit.  `Connection` is one connection with the parts that live and die
with it.  Every action of the lifecycle is taken as `Life(action)`: when it makes
the status DISCONNECTED the managers' handlers of status-changed run in the same
step (`Disconnected`, `ImDisconnected`, `RoomListDisconnected`, and the
registrations in `ChangeHandlers`).  The connecting thread, an assumption in
`ConnectionLifecycle`, is the thread of `ServerTls` here: its end is what
`connect_task` reports.  What arrives on the socket is given to whoever the
parser would call at that moment.  The certificates, the chats and the room
list do not touch each other, so a behaviour chooses which of them it
`exercised`: each meets the whole lifecycle, and the state space is their sum
rather than their product.  `TextTransfer` and `MucRoom` are composed the same way
(`about`): their parts share a line's journey, or a room, but no variables that
both write.  A behaviour of `MucRoom` is about the members, about the topic, or about
one of `Groups`, the groups of modes that change together; the theorems hold for any
groups, of all modes too.

`SendQueue` sees the socket as a `link` that goes down → up → closing → closed.
`ConnectionLifecycle` defines the same `link` from its own state, and
`LinkAsSendQueueAssumes` says that it moves only so and agrees with
`sconn_connected`; it is proved, of the whole `Connection` too.  `ContactInfo`,
`MucManager` and the modules of a room live above these: they see the connection
as up or gone, and their messages as arriving in order (what `SamePriorityFifo`
and `LinesArriveWhole` say).  The modules of a room begin where `MucManager`
reaches the state JOINED, except `MucMembers`, which has the joining too, for one
room, because members change while it is under way.

### `SendQueue`

`queue` is `priv->msg_queue`, a sequence of messages that are a priority and an
id (the text never matters to the queue).  `sources` are the GLib timeout
sources attached, by id, with the seconds since each was armed;
`msg_queue_timeout` is the id the code remembers, which need not be the same
thing.  `writes` are the `send_async()` calls not yet completed and
`output_buffer`, `nwritten` what the single buffer holds.  `last_id` and time
are bounded or kept as capped ages.

`msg_queue_timeout_cb` is one operator with the source that runs it as a
parameter (0 when `idle_connection_add_queue_timeout()` calls it directly),
because the result FALSE detaches a source only in the first case.
`irc_handshakes()` is three or four sends in one callback; they are separate
steps, during which `Idle` is false and no other action is enabled.
Clients may send before the socket is up and after it is down, because some D-Bus
methods do not look at the status (RequestRename, SetAliases, IRCCommand.Send);
`unchecked` is the history that one of them did.  Then a source may be attached that
`msg_queue_timeout` does not name; `clear_queue_timeout` removes only the one it
names, as do the code and its `dispose`.

### `ConnectionLifecycle`

`status` is `TpBaseConnection`'s.  `ChangeToDisconnected` is
`tp_base_connection_change_status(DISCONNECTED)` as the code relies on it: it
does nothing when already disconnected, calls `_iface_disconnected()`, emits
status-changed (which cancels the password prompt), and calls
`_iface_shut_down()`.  `state`, `io_stream` and `connect_task` are the server
connection's; `Closing` is the time between `g_io_stream_close_async()` and
`_close_ready()`.  Timers are Booleans, except the age of the last PING, in
keepalive intervals.  The connection manager is taken to drop its reference on
`finish_shutdown()`, which disposes of the connection.  A welcome may arrive after
Disconnect(), since the handlers stay; `TpBaseConnection` is taken to refuse the
step from DISCONNECTED back to CONNECTED.

### `ServerTls`

A certificate is the number of the thread's request for it.  `check_idle`,
`async_result`, `result_idles` and `certificate_queue` are the places a request
passes through; `channel` and `completed_channels` are the channels on the bus,
named by their certificates (a set: the list's order is never used on a path
that is called).  The connecting thread's steps (`Handshake`, `Ask`, `Pop`,
`HandshakeSucceeds`, `HandshakeFails`) interleave with the main loop's.
Renegotiation on an established connection is not modelled.

### `ParserHandlers`

`registered` is `priv->handlers`: by message code, a list of closures, each with
the part that registers, its `user_data` and its priority.  Several closures may
share a `user_data`.  `remove_handlers_by_data` leaves the table as it is, because
`idle_parser_remove_handlers_by_data()` does: `g_slist_find_custom()` gives its
comparison function a closure and the `user_data` that is looked for, and the
function takes both for closures (`src/idle-parser.c:303`), so that it compares
the `user_data` of each closure with the second word of a GObject, which holds
its reference count.  None is equal and none is removed.  All that follows from
handlers staying is in the models: the handlers of a connection that is quitting
are called until its socket is closed, those of a room list that is gone stay
behind those of the open one, and a WHOIS reply reaches the requests until the
connection is finalized.  `InsertSorted` is
`g_slist_insert_sorted()`: a closure goes before those of its own priority, so
equal handlers are called in the reverse of the order they were registered in.
`CalledParts` stops at the first handler that reports the message as handled.

### `ImManager`

A chat is its initiator and whether it was requested; `im_pending` are the
unread messages of each, with the mark `rescued` that `tp_message_mixin` puts on
what outlives a close; `im_told` is what clients last heard through NewChannels
and Closed.  `ImClose` is `idle_im_channel_close()` together with the manager's
closed handler that it calls: when there is unread text the channel stays and is
announced again as the contact's.

### `RoomList`

`rl_channel` is `priv->channel` of the manager; channels are numbered, since a
handler may be registered with one that is gone.  `rl_lists` counts the LIST
commands the server has yet to answer, `rl_answer` what is left of the answer
under way, `rl_rooms` the rooms that wait for GotRooms, which only the end of an
answer emits.  `rl_overlap` records that a LIST
other than the channel's last one was unanswered in its time, when nothing can
be promised.  To call a handler of a channel that was freed is undefined; the
model follows the outcome that disturbs nothing else, and
`QuittingHandlesNothing` reports that the call happens.

### `LineReassembly`

`Receive` is one read on its way: `_input_stream_read_ready()`,
`sconn_received_cb()`, `ntoh` (`idle_connection_ntoh()`), `receive`
(`idle_parser_receive()`).  A read is any non-empty string of at most `MaxLine`
bytes (`IRC_MSG_MAXLEN + 2`, also the size of `split_buf`).  Its bytes are letters,
one terminator, and those of characters that are not ASCII: `lead` and `cont` make
one that is as long in UTF-8, `wide` is one that grows there.  `g_convert()`
succeeds on whole characters (`Whole`); otherwise every byte that is not ASCII
becomes `?`.  A byte that grows here becomes two; in the code it may be three (a
legacy charset, or U+FFFD for what `idle_salvage_utf8()` replaces), which differs
only in how soon the limits are reached.  The conversion is stateless, as is that of
all charsets that leave ASCII bytes alone; UTF-16 and the like, which IRC cannot
be spoken in, are left out.

A converted chunk may therefore be longer than a line.  `Scanned` is what
`strnlen()` lets the loop see of it, while the rest that is kept (`KeepRest`) is
measured by `strlen()`.  `Scan` is the loop as a recursive function of the bytes
seen, `ScanChunk` its result.  `Lines` and `Unfinished` are the reference, by the
positions of the terminators in the whole stream: the same for every way of cutting.
`torn`, `cut`, `long` and `tail` are history: what has happened that the properties
except.

### `MessageParser`

`message_specs` is the table of that name, an entry for each code whose handlers
take arguments.  A token is whether it begins with a colon and what the rest can
be taken for: a nickname, one with a mode prefix, a room, a number, something
else, nothing.  Every line has a command: `_parse_message()` drops one of
blanks only.  `Accepts` and `Values` are `_parse_atom()`, `Parses` is the loop of
`_parse_and_forward_one()`, `IsTried` the comparison of the command in
`_parse_message()`, with what it does for a line of a single token.  The actions
read a line token by token; the tables `TakenBy...` are what each handler takes
with `g_value_array_get_nth()`, and with which type.

### `Nicks`

The user's nickname twice: `server_nick` for the server and `self_handle` for the
connection, with NICKs and WHOIS replies on their way between them.
`relay_prefix` is known by the nickname it was made with.  Any other nickname is a
handle and a spelling, since a handle ignores case and an alias does not.
`canon_nick_receive` is what the parser does to every nickname of a message before
its handlers run; handlers differ in whether they announce what it queued.

### `TextCoding`, `TextTransfer`

A text is a sequence of bytes: a letter, the two bytes of one character, a
newline, bold, colour, a digit, a comma.  Carriage returns, and a \001 that a
user types at the beginning, are left out.  `Bodies` is
`idle_text_encode_and_split()`, a recursive function of the index where the next
part begins; `KillBlingbling` and `Decode` are what a peer that runs this program
makes of a line.  `TextTransfer` adds `idle_connection_get_max_message_length()`,
which ties the length of a line to the prefix of the moment.  Lengths are those
before `idle_connection_hton()`, as in the code; they are those on the wire when the
connection's charset is UTF-8, the default.

### `ContactInfo`

`requests` is `conn->contact_info_requests`, head first; only the head's WHOIS
has been sent.  `wire` holds the WHOIS commands the server has yet to answer,
each with what it was sent for: a request, the handshake
(`src/idle-connection.c`, sent before the welcome), or a client's own
IRCCommand.Send().  `foreign` counts those no request stands behind.  All reply
handlers match by contact (`Matches`) except `TryAgain`, whose reply names none.
The fields a line adds are one kind of line per way of being handled
(`InsertField`).  `Disconnected` is the status, which sends no further WHOIS;
replies are still handled while the socket is `open`, until `Finalized` frees what
waits.

### `MucManager`

`chan` is one record per room for `priv->channels`, the `IdleMUCChannel`'s
private state and the room's share of `priv->queued_requests`.  What the code
calls synchronously, through signals (join-ready, closed, reopened), is composed
of functions on that record (`ChangeState`, `JoinReady`, `Destroyed`, ...), so
that an action is a whole callback.  `wire` is the JOIN and PART commands on
their way for each room; `in_room` is the server's opinion.  `announced` and
`replies` are history.  The server may refuse a JOIN in three ways (`Refused`): for
the password, with one of the three other numerics that
`_muc_manager_add_handlers()` registers (banned, full, invite only), or with any that
nothing handles, such as 403, 405, 437, 476 and 477.  The last leaves the channel as
it is, and the request and a ProvidePassword() with it: `unheard` is that history,
and `refused` that of a refusal the waiting ProvidePassword() is not told of; both
begin anew when a password is given.

### `MucRoom`: `MucModes`, `MucMembers`, `MucSubject`

*Modes.*  `room` is the server; `to_user` and `to_server` the two directions of
the connection, each in order.  `chan` is `priv->mode_state.flags` with the four
things `change_mode_state()` tells clients; `ChangeModeState` is that function,
applied once per sign as `idle_muc_channel_mode()` does (`Flushed`, `Accum`).

A mode message has one letter or two, each with its sign, its mode and the argument
that came with it (whether that is the user's name, and the number it begins with).
The server gives an argument to the privileges, to `k` with either sign, to `+l` and
to `b`, which stands for every letter that the code does not know (`Gives`); the code
takes one, the next of the message, for the privileges, `+k` and `+l` (`Reads`).  So
the second letter may get what the first left (`ArgOfSecond`): the `o` of `-k+o`
reads the key, the `l` of `+bl` a ban mask.  `misread` records that a letter read
another's argument.  More than two letters only add more of the same.  Keys, masks
and limits do not begin with a sign, which the code would take for modes.  `p` and `s`
are two flags and one property, `private`; `both` records that a room had both.  In
a `+` channel the user's JOIN sets `t` (`Init`), the one mode such a room has, and
which others do change in the model.

`config` is the `IdleRoomConfig`; `updating` the UpdateConfiguration() between the
commands it sends and the idle callback that completes it, when `TpBaseRoomConfig`
sets the properties.  Two combinations of Password and PasswordProtected are refused
with an error and change nothing; they are not actions.  Half-operators are left out:
the code counts `+h` as operator, but takes the rights away when either of `o`
and `h` is removed while the other stays, and does not read `%` from the name
list; with both modes in the model `MayAsModes` would say nothing about the rest
of the function.  The hazard is listed.

*Members.*  `present`, `here` and `nick` are the server's view of the room,
`group` the channel with its `TpGroupMixin` (`ChangeMembers` is
`tp_group_mixin_change_members()`: a contact is in one of the three sets), and
`coming`, `commands` the wires.  The user and the others join, leave, quit and
change nickname, and the user is invited, at any time; clients add, remove, close
and destroy on what has come so far.  The name list is one message with the JOIN it
answers; the server sends it at once, so that nothing of the room comes between, but
a list of several replies, during which somebody might leave, is not modelled.

*Subject.*  `subject` is the topic the channel keeps, `changed` the static array
of property names in `idle_muc_channel_topic_full()`, which is written from its
beginning and never cleared, and `told` what clients know by way of it.
`MAXINT64` is the time of a topic that was not set or was unset.

## 3. Runs

| Run | Instance | What it shows |
|---|---|---|
| `send_queue` | 3 source ids, 5 messages, 2 pieces, with fairness | `SamePriorityFifo`, `BufferBelongsToTheWrite`, `NeverWedged`, `EveryMessageLeaves`; `CheckedRateLimited`, `TimersEndWithTheLink` |
| `connection` | 2 certificates; 2 contacts, 2 texts; 2 rooms, 3 LISTs, 2 list channels, with fairness | lifecycle: `LifeIsOverWhenFinished`, refinement of `ConnectionStatus` (`StatusSpec`), `DisconnectReturns`, `DeadServerNoticed`; certificates: `VerdictIsTheClients`, `NoChannelOutlives`, `GivenUpAttemptEnds`; parser: `TakenOnce`, `HandlersInOrder`; chats: `NothingUnreadLost`, `ChatsAsTold`; room list: `ListingComplete` |
| `text` | a letter, 3 bytes that are not ASCII, reads of 3 bytes, streams of 6; 3 nicknames, 2 renames; texts of 4 characters, lines of 17 bytes; 2 tokens beyond a format | `LinesArriveWhole`, `CutSparesLetters`, `DamageIsLocal`; `HandlersGetTheirArguments`; `AliasesAnnounced`; `PartsRebuildText`, `PeerReadsText`, `RelayedLineFits` |
| `contact_info` | 2 contacts, 2 requests, 2 foreign WHOIS, with fairness | `AnswersAreAboutTheContact`, `AnsweredByItsOwn`, `EveryRequestAnswered` |
| `muc_manager` | 2 rooms (one inviting), 2 requests, 2 commands in flight per room, with fairness | `RequestAnswered`, `InRoomIsJoined`, `PromptMatches`, `AnnouncedWhenReady`, `RequestFinishes`, `PasswordAnswered` |
| `muc_room` | modes o, i, t or o, k, l or o, p, s or o, v, and `b`, one limit, 2 messages in flight, 1 of two letters, 1 property updated; 3 contacts; 2 topics, 2 actors, 2 times | `FlagsFollow`, `MayAsModes`, `ConfigMirrors`; `MembersMirror`; `SubjectFollows` |
| `send_priority` | | `HigherPriorityFirst` is **violated** |
| `send_flood` | 3 source ids, 6 messages, 1 piece | `RateLimited` is **violated** |
| `lifecycle_cancel` | | `StillTryingToConnect` is **violated** |
| `channels_quitting` | as `connection` | `QuittingHandlesNothing` is **violated** |
| `lines_torn` | a letter, reads of 3 bytes, streams of 5 | `ContinuationLine` is **violated** |
| `relay_renamed` | as `text`, streams of 3 bytes | `RoomForThePrefix` is **violated** |

Bounds, and why they are enough.

*Queue*: five messages are a login with a password (four) and one more, so that the
queue is longer than one in every phase; three source ids are two more than
the code means to have, so that further timers can appear; two pieces are a write
that is continued and one that is not.  `G_MAXINT = 7` is a four-bit `guint`: all
that matters of the width is that the priorities are 0, half the range, that plus
one, and all of it.

*Connection*: the lifecycle has no bound, its state space is finite and the run
covers all of it.  The second certificate is judged with the first channel closed
or still open.  Two texts are two for one chat or one for each of two; three
LISTs and two channels are a listing that overlaps another, of the same channel or
of the one before.

*Text*: with reads of three bytes and streams of six a line can span three reads,
overflow `split_buf`, and be followed by another; a character can be cut by two
reads, which others follow; three `wide` bytes are six bytes of UTF-8, two
more than are scanned, with a terminator in front of, at or behind the limit.  The
letter, `lead` and `wide` tell lines apart.  The lengths are in proportion to the
real 510, 100 and 9: a line holds a few characters, so that four characters are
cut in every way there is, at newlines, inside a character and at the end.  The
three nicknames are one as long as the configured one and one longer.  Lines
go two tokens beyond the ones a format takes one by one: what repeats has come
twice, and a trailing argument has something after it.

*WHOIS*: two requests are one that is sent and one that waits; two foreign WHOIS
are one before and one behind that of a request, or both about the same contact.

*Rooms*: two commands in flight are a PART and the JOIN that overtakes its
answer, or two JOINs; two tokens are two requests for one room or one for each.
*Modes*: a message depends on the modes in it and on what the channel knows of those
alone, and no property relates the limit, the key or `private` to the topic or
invitations: so the modes are changed in groups, each with the operator, on whom what
clients may do depends, for the user and for others.  The groups are the two modes
that change what clients may do; the key, whose argument is left when it is unset, and
the limit, which may then read it; the two modes of `private`; and the other
privilege.  `moderated` is written as `invite-only` is.  In each, `b` leaves an
argument too.  Two messages in flight let another operator's change pass the name
list, the query and the user's own command; one of two letters at a time meets each of
them.
*Members*: the user, one who is there and
one who comes, any of whom may take another's old nickname.  *Subject*: two of
each field tell a change of it from none.

Deadlock is checked in `muc_room`, where the server and the clients can always do
something.  Elsewhere the system may really stop: a finished connection, a
stream or a number of requests that is used up.

Fairness.  GLib's main loop dispatches sources that are due and completions of
asynchronous operations, and a running callback returns: weak fairness of those
actions.  `SendQueue` also needs time to pass (`Tick`), as timeouts do.  Of the
connecting thread it is assumed that it takes a verdict that is there, and that
its network operations end once they are cancelled; of the network that closing a
socket ends.  None of this is assumed of clients: a certificate may never be
judged.  Of the server nothing is assumed in `connection`, `text`, the runs of
the queue and that of a room; but a call that waits for an answer from the server returns only if
there is one, so `EveryRequestAnswered` assumes that each WHOIS gets a final
reply (`FinalReply`), and `RequestFinishes` and `PasswordAnswered` that each JOIN
and PART is handled (`ServerHandles`) and that the server closes the connection of
a user who has quit.  Nothing is assumed of the answer: a refusal that nothing handles
ends neither, and both properties say so (`unheard`).

### Disagreements found

* `send_priority`: `pending_msg_compare()` means to "prefer the message with the
  higher priority" (`src/idle-connection.c:118`), but the difference of two that are
  more than `G_MAXINT` apart, returned as a `gint`, has the wrong sign: a PONG or QUIT
  (`G_MAXUINT`) queues behind the messages of normal priority (`G_MAXUINT / 2`) that
  wait.
* `send_flood`: a message queued before the socket is up leaves a timer nobody
  remembers; once connected, two timers send twice as fast as
  `src/idle-connection.c:49-53` allows.  As nobody remembers it, neither
  `idle_connection_clear_queue_timeout()` nor the disposal of the connection
  (`src/idle-connection.c:403`) removes it, and it calls back with a connection that
  may have been freed.  As long as no client sends without a connection both
  promises hold (`CheckedRateLimited`, `TimersEndWithTheLink`).
* `lifecycle_cancel`: `_iface_shut_down()` believes an unconnected socket means
  "we were still trying to connect" (`src/idle-connection.c:638`).  It also runs
  after the attempt failed or the socket dropped; then it cancels what is over
  and `tp_base_connection_finish_shutdown()` is never called.
* `channels_quitting`: a quitting connection means not to "handle any more
  messages" (`src/idle-connection.c:624`), and calls
  `idle_parser_remove_handlers_by_data()`, which removes nothing (see
  `ParserHandlers`): what the server still sends is handled, by the connection and
  by every channel that is gone.
* `lines_torn`: when a chunk begins with the terminator of the waiting line, the
  line is dropped or merged with a later one.
* `relay_renamed`: the length of a line leaves room for the prefix the "server
  will add" (`src/idle-connection.c:1009`), computed once from the configured
  nickname (`src/idle-connection.c:1196`); after a rename to a longer one the
  longest lines no longer fit.

Things met on the way that no run refutes, because the properties are stated
around them:

* RPL_TRYAGAIN is given to whichever WHOIS request is at the head
  (`src/idle-contact-info.c:254`), so that with foreign WHOIS commands a request
  may be told "busy" for another's reply, and a later one about the same contact
  then gets the answer before its own.  `AnswersAreAboutTheContact` excepts it.
* A request for a room the user has been invited to makes no JOIN and waits for
  the invitation to be answered; when it is accepted the channel is announced
  twice (`src/idle-muc-manager.c:288`).  If a JOIN of an earlier channel was
  still in flight, a password prompt may come for a channel that never asked to
  join.  `AnnouncedWhenReady` and `PromptMatches` are about rooms nobody invites
  to, and `RequestFinishes` about requests that joined.
* A read that begins or ends inside a character loses more than the character:
  `idle_connection_ntoh()` turns every byte of it that is not ASCII into `?`, on the
  read's other lines too (`src/idle-connection.c:1534-1543`).
  `LinesArriveWhole` excepts cut characters, and `CutSparesLetters` says what such a
  read costs; `tests/twisted/messages/invalid-utf8.py:53-56` expects no more of bytes
  that are no UTF-8 than that the ASCII around them arrives.
* Of a read that is longer than `IRC_MSG_MAXLEN + 3` once converted, the end is not
  searched for terminators (`src/idle-parser.c:248`): it is discarded, or kept with
  them in `split_buf`, and then given to `_parse_message()` as part of one line.
* A letter of a mode message takes the next argument whether or not those before it
  took theirs (`src/idle-muc-channel.c:906-937`): after `-k+o key me` the user is not
  known to be an operator.  `FlagsFollow` excepts the user's own modes after such a
  message.
* A room with both `p` and `s` that loses one is shown as not private
  (`src/idle-muc-channel.c:655-661`); `ConfigMirrors` excepts rooms that had both.
* A JOIN that is refused with a numeric without a handler
  (`src/idle-muc-manager.c:572-575` registers four) leaves its request, and a
  ProvidePassword() that waits for it, unanswered.
* The completion of a write under way when the socket is closed may be reported after
  that of the close (`src/idle-connection.c:921`), perhaps to a connection that was
  freed: that is GIO's order, and no property speaks of it.
* A pending ProvidePassword() is not answered when the JOIN is refused for
  another reason than the password, or when its channel is destroyed
  (`src/idle-muc-channel.c:1386`); a WHOIS that waits when the connection is
  finalized is freed without an answer (`src/idle-contact-info.c:476`).
* A new limit or key for a room that already has one never reaches the room's
  configuration, since nothing changes in the flags
  (`src/idle-muc-channel.c:567`); `ConfigMirrors` is about there being one.
* The name list only adds members (`src/idle-muc-channel.c:864`): the one who
  invited the user stays a member after leaving unseen.  `MembersMirror` excepts
  that contact.
* An emptied topic is announced with a time that is no time, and a change of case
  alone in a nickname is announced only with the next message whose handler
  announces; `SubjectFollows` says nothing of the time, and `AliasesAnnounced`
  allows for what waits in the queue.

The properties that hold are stated as they hold: `LinesArriveWhole` excepts
torn and overlong lines, cut characters and reads that grow beyond what is scanned,
`LifeIsOverWhenFinished` counts the lifecycle's own callbacks, `DisconnectReturns` speaks of Disconnect() calls that
take effect, `ListingComplete` of listings nothing overlapped, `RelayedLineFits`
of nicknames no longer than the configured one, `CheckedRateLimited` and
`TimersEndWithTheLink` as long as no client sends without a connection.

## 4. Proofs

Each theorem is about the specification of one module, for every value of the
constants, from the assumptions named in the modules (source ids are positive
naturals, counts are naturals, `G_MAXINT >= 3`, the user is a contact, `Nobody` is
none, there is a room and the inviting rooms are rooms, modes are those handled, but for
`h` and those that are plain flags like `n`, and the groups are of modes, a terminator
is no letter, and a line has room for a character after every header).  The invariant
that a theorem needs was checked by TLC on the instance of its run before it was
proved, where TLC can evaluate it (not `Behind`, a statement about all sequences).

*Compositions.*  A part keeps its properties in a composition whose steps are its
steps or leave its variables alone.  `LifeImplemented`, `CertificatesImplemented`
and `ChatsImplemented` prove that of `Connection` (its behaviours are behaviours of
`ConnectionLifecycle`, of `ServerTls` and of `ImManager`), and
`PartsKeepTheirPromises` draws the conclusion: what is proved of the lifecycle and
of the certificates holds in the connection.  `MucRoomProofs` and
`TextTransferProofs` prove their theorems of the compositions directly
(`RoomSpec`, `TransferSpec`).

* `SendQueueProofs`: `TypeCorrect`; `FifoCorrect`, from the invariant that every
  id in the queue is below `last_id`, that ids of one priority ascend, and that
  what has left is older (the order *between* priorities plays no part, and it is
  wrong), with the lemmas on what `InsertBefore` and `IsInsertPosition` do to a
  sorted queue; `BufferCorrect`, from "no write is under way unless `msg_sending`";
  `WedgeCorrect`, from "the id remembered is that of an attached source, and a
  connected queue that is not empty has one"; `RateCorrect` and `TimersCorrect` from "as
  long as no client has sent without a connection, the remembered source is the only
  one attached, is never older than the last message handed over, and goes with the
  socket".
* `ConnectionLifecycleProofs`: the inductive invariant `IInv` relates the flags
  of the three objects: the socket's state to `sconn_connected` and the thread
  (`SocketInv`), the status to the socket (`StatusInv`: whoever is DISCONNECTED
  with an open socket is quitting, with an attempt under way has cancelled it),
  quitting to the force timer (`QuitInv`), the finishing idle to everything being
  over (`FinishInv`), and the keepalive's timer to its id (`KeepaliveInv`).
  `LifeIsOverCorrect` follows; it is about what this module has of the connection's
  callbacks, and together with `LinkCorrect` and `TimersCorrect` (finished means the
  socket is down, and then no timer of the queue is left) about the queue's timer.
  So do two facts that no run checks separately: a
  forced disconnect always finds a socket (`ForceTimerCorrect`), and a PING under
  way is watched unless the connection is quitting (`PingWatchedCorrect`).  None of
  the three is inductive alone.  `StatusImplemented` maps every step to a step of
  `ConnectionStatus` or to a stutter, and `LinkCorrect` every step to one of the
  link that `SendQueue` assumes or to none.
* `ConnectionProofs`: `UnreadCorrect` and `ChatsCorrect`, from the invariant that
  the texts of a contact wait in one chat, in the order they came, and that
  a chat that has any is one clients know of.  `HandlersCorrect`, from what is in
  each list of the table: the parts that registered at the connection's status,
  in the order of their priorities, and the room lists from the newest to the
  oldest, which is what the missing removal leaves.  `ListingCorrect`: of each
  answer the rooms told, the rooms waiting for the idle callback and the rooms to
  come are the server's, each once, as long as no other LIST was unanswered.
  `TakenCorrect` computes, for any table of that form, who stops a PRIVMSG or a
  NOTICE.  `ConnTypeCorrect`.
* `ServerTlsProofs`: `PlaceInv` says in which of four places the request is while
  the thread waits, `JudgeInv` relates what clients said to what the queue holds
  and what the thread read, `ChannelInv` relates the channel to the result.
* `ContactInfoProofs`: `AboutTheContactCorrect` from the invariant that the
  fields of every waiting request are about its contact; `OwnCorrect` from
  `OwnInv`: while there are no foreign WHOIS, exactly the head's is on the wire,
  and the head has every field said so far.
* `MucManagerProofs`: the invariant is `LinkOK`, `ChannelsOK`, `RoomsOK` and
  `DueOK`.  `ChannelsOK` is about each room's channel alone (who is a member in
  which state, when there is a prompt, what was announced, and less of that where
  somebody may invite), and is kept by every function a channel's callbacks are
  composed of; `RoomsOK` says that the server and the channel agree on who is in
  the room while the connection lasts, which no close or late answer disturbs;
  `DueOK` that what is due to a token, replied or queued, is due exactly once and
  in one room.  `RequestCorrect`, `InRoomCorrect`, `PromptCorrect`,
  `AnnouncedCorrect` and `TypeCorrect` follow.
* `MucRoomProofs`, modes: `ChangeKeepsMay` is the heart of `MayCorrect`:
  `change_mode_state()` keeps rights and modes in step, provided no call both makes
  the user an operator and unsets `t`, which holds of its callers because a call is
  for one sign, or for the name list, where only privileges are removed.
  `ConfigCorrect` adds what an update that returns may overwrite, for `private` that
  both its modes were set before one could go, and for the limit that a message on its
  way was misread before it is taken.  `FlagsCorrect`
  needs what a recursive function of the wire would say, that the channel's modes
  with all messages on the way applied are the room's; it is stated without
  recursion: there is a sequence of the room's modes as they were when each message on
  the way was sent (`Behind`), which begins with what the channel knows (but for what the name
  list and the reply to the query have yet to tell), ends with the room and follows
  the messages.
  `MembersCorrect` speaks of each person: the last message on the way that
  moves them leaves them where the server has them, and the nicknames in it are
  those that person has at that place of the wire.  `SubjectCorrect` likewise by
  the last topic on its way.
* `TextTransferProofs`, aliases: `AliasesCorrect`, whose invariant is itself with
  the types, by cases on who announces.
  *Lines*: `LinesCorrect`, `CutCorrect` and `DamageCorrect` are about any stream in
  any reads.  A whole read converts on its own as it does within the stream, and
  neither conversion makes, loses or moves a terminator or a letter.
  What a byte adds to `Lines` and `Unfinished` (`LinesAppended`,
  `UnfinishedAppend`) is compared with what it adds to the state of the loop
  (`ScanLinesStep`): at each byte the lines of the stream so far are those before
  the chunk and those the loop has found, and its unfinished line is what waited
  with the current piece.  The inductive invariant is `ReceiveInv`: the types with
  the buffers' bounds, "nothing waits after a terminator that was scanned",
  that what was heard is the stream's conversion until a character is cut, and
  `CutSparesLetters`.
  *Arguments*: `ArgumentsCorrect` holds for lines of any length, where TLC tries
  `MaxRest` tokens behind the atoms.  What a format gives is a fixed sequence
  (`Provides`, computed atom by atom with `GivenSteps`, one lemma for each format)
  and what its last part adds (`ArgsEnd`): nothing, a string, strings, or for the
  name list pairs of member and mode (`AllStrings`, `Pairs`, by induction on the
  tokens).  `Suits` is the property for one code: it is shown for the fixed
  sequence (`SuitsNothing` and the others, each for the codes that share one), and
  strings behind that disturb no handler (`StringsFit`).
  *Texts*: `RelayedCorrect` shows that the loop of `idle_text_encode_and_split()`
  takes between one byte and `max_bytes` at every turn (`PartFacts`; that it takes
  one at all needs UTF-8, and room for the longest character), so that its
  recursion is defined and all its parts are short, and that `max_bytes` leaves the
  prefix of the moment its room.  `PartsCorrect` follows the same loop from the end
  of the text: `Rebuilds` says of the parts from a byte on what the property says
  of all, and each turn adds a part without newlines and what it skips behind it
  (`PartAndRest`).  `ReadCorrect` is the like for `idle_ctcp_kill_blingbling()`,
  where every turn either drops a control byte with digits and commas
  (`ControlGoes`) or keeps a byte (`ByteStays`); `Framed` gives the body of an
  action back.  What is kept of a text, `Without`, is a flattened sequence, so
  that the lemmas about `FlattenSeq` (`FlatConcat`) say how it splits.

Inductions over sequences and over the rounds of a loop are proved from the least
element of a set of numbers (`SetInduction`: a set with 0 and every successor
holds all naturals), because the library's theorems take an operator as a
parameter, which none of the provers instantiates.  A recursive function is shown
to exist that way before its equation is used (`ScanSteps`, `CutExists`,
`FlatExists`, `CleanExists`).

Only model-checked is liveness, which needs fairness and ENABLED, beyond this
prover.  Only proved are the type invariants, of which the bounds of the parser's
buffers are a part (`TransferTypeCorrect`), and the link (`LinkCorrect`): the runs
hold what the code could get wrong in more interesting ways.

No module declares a RECURSIVE operator.

## 5. Not modelled, and the plan

The parts that are modelled are proved up to the properties above.

Left out for good:

* `src/idle-handles.c`: nickname and room name validity and normalisation are
  predicates on strings that telepathy-glib's repositories apply; which names are
  valid makes no difference to any order of events.
* `src/protocol.c`, `src/idle-connection-manager.c`, `src/idle.c`: parameter tables
  and construction.
* `src/idle-debug.c`: logging switches.
* The general quoting of `idle_ctcp_decode()`, which nothing calls; channel-creator
  and half-operator modes (see `MucRoom`); which limit or which key a room has,
  beyond whether there is one; what a handler makes of a number that `sscanf()` did
  not set (`src/idle-parser.c:580`).
* D-Bus itself, GIO and telepathy-glib, which appear only as this code uses them.
