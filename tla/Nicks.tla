--------------------------------- MODULE Nicks ---------------------------------
(***************************************************************************)
(* What a connection knows of nicknames: its own, as the server has it and *)
(* as it believes; whether it knows the prefix that the server puts before *)
(* the lines it relays for the user; and the aliases it announces, where   *)
(* a contact is a nickname whatever its case and its alias the spelling    *)
(* last seen.                                                              *)
(*                                                                         *)
(* Every nickname in a message passes idle_connection_canon_nick_receive() *)
(* before any handler sees the message.  What that queues is announced     *)
(* when a handler calls idle_connection_emit_queued_aliases_changed().     *)
(***************************************************************************)
EXTENDS Integers, Sequences

CONSTANTS
    Nicks,              \* nicknames as handles
    Configured,         \* priv->nickname
    MaxRenames,         \* bound on the changes of the user's nickname
    MaxOnTheWay         \* bound on the messages on their way from the server

ASSUME NicksAssumption ==
    Configured \in Nicks /\ MaxRenames \in Nat /\ MaxOnTheWay \in Nat

VARIABLES
    server_nick,        \* the user's nickname for the server
    renames,            \* how often it has changed
    on_the_way,         \* messages about it not yet received
    self_handle,        \* TpBaseConnection's self handle
    relay_prefix,       \* the nickname in priv->relay_prefix, or NoNick
    al_known,           \* by nickname: priv->aliases, or the handle's spelling
    al_queued,          \* priv->queued_aliases: the last for each, or Unqueued
    al_told             \* history: what AliasesChanged last said

selfVars == <<server_nick, renames, on_the_way, self_handle, relay_prefix>>
aliasVars == <<al_known, al_queued, al_told>>
nicksVars == <<selfVars, aliasVars>>

NoNick == "none"
Unqueued == "unqueued"
Spellings == {"lower", "Mixed"}
Spelt(n, s) == [nick |-> n, spelling |-> s]

(* From RPL_WELCOME on, whose nickname _welcome_handler() takes as its     *)
(* own.  That the server gives another one than was asked for is no        *)
(* different from ServerRenames() at once.                                 *)
NicksInit ==
    /\ server_nick = Configured
    /\ renames = 0
    /\ on_the_way = <<>>
    /\ self_handle = Configured
    /\ relay_prefix = NoNick
    /\ al_known = [n \in Nicks |-> "lower"]
    /\ al_queued = [n \in Nicks |-> Unqueued]
    /\ al_told = [n \in Nicks |-> "lower"]

-----------------------------------------------------------------------------
(* idle_connection_canon_nick_receive() for each nickname in seen, the     *)
(* sequence of those in a message.                                         *)
LastSpelling(seen, n) ==
    LET at == {i \in DOMAIN seen : seen[i].nick = n}
    IN  seen[CHOOSE i \in at : \A j \in at : j <= i].spelling

Sees(seen, n) == \E i \in DOMAIN seen : seen[i].nick = n

(* The alias counts, or by a mistake the name the handle was made with.    *)
DiffersFromHandle(seen, n) ==
    \E i \in DOMAIN seen : seen[i].nick = n /\ seen[i].spelling # "lower"
Differs(seen, n) ==
    \E i \in DOMAIN seen : seen[i].nick = n /\ seen[i].spelling # al_known[n]

QueuedAfter(seen) ==
    [n \in Nicks |-> IF Differs(seen, n) THEN LastSpelling(seen, n)
                     ELSE al_queued[n]]

canon_nick_receive(seen) ==
    al_known' = [n \in Nicks |-> IF Sees(seen, n) THEN LastSpelling(seen, n)
                                 ELSE al_known[n]]

(* idle_connection_emit_queued_aliases_changed(), or no such call          *)
AnnounceAliases(seen) ==
    /\ al_told' = [n \in Nicks |-> IF QueuedAfter(seen)[n] = Unqueued
                                   THEN al_told[n] ELSE QueuedAfter(seen)[n]]
    /\ al_queued' = [n \in Nicks |-> Unqueued]

KeepAliases(seen) ==
    /\ al_queued' = QueuedAfter(seen)
    /\ UNCHANGED al_told

(* A message about contacts, and whether its handlers announce: those for  *)
(* a text, JOIN, KICK, PART, QUIT and the end of the names do, those for a *)
(* reply, INVITE, TOPIC or an unknown CTCP do not.                         *)
Mentioned(n, s, announces) ==
    /\ canon_nick_receive(<<Spelt(n, s)>>)
    /\ \/ announces /\ AnnounceAliases(<<Spelt(n, s)>>)
       \/ ~announces /\ KeepAliases(<<Spelt(n, s)>>)
    /\ UNCHANGED selfVars

(* The _nick_handler() of the connection.  A change of case alone is left  *)
(* to whichever handler announces next.                                    *)
AnnounceRename(old, new) ==
    IF old.nick = new.nick THEN KeepAliases(<<old, new>>)
    ELSE AnnounceAliases(<<old, new>>)

nick_handler(old, new) ==
    /\ canon_nick_receive(<<old, new>>)
    /\ AnnounceRename(old, new)

ContactRenamed(old, new) ==
    /\ old.nick \notin {server_nick, self_handle}
    /\ new.nick \notin {server_nick, self_handle}
    /\ nick_handler(old, new)
    /\ UNCHANGED selfVars

-----------------------------------------------------------------------------
(* The server changes the user's nickname, on RequestRename() or SetAliases*)
(* (NICK) or by itself, and answers a WHOIS of it, the one sent with USER  *)
(* or a RequestContactInfo().                                              *)
ServerRenames(n) ==
    /\ renames < MaxRenames /\ Len(on_the_way) < MaxOnTheWay
    /\ n # server_nick
    /\ server_nick' = n
    /\ renames' = renames + 1
    /\ on_the_way' = Append(on_the_way,
                            [code |-> "NICK", old |-> server_nick, new |-> n])
    /\ UNCHANGED <<self_handle, relay_prefix, aliasVars>>

ServerAnswersWhois ==
    /\ Len(on_the_way) < MaxOnTheWay
    /\ on_the_way' = Append(on_the_way, [code |-> "WHOISUSER",
                                         old |-> server_nick,
                                         new |-> server_nick])
    /\ UNCHANGED <<server_nick, renames, self_handle, relay_prefix, aliasVars>>

(* _nick_handler(), the old handle being the self handle                   *)
SelfRenamed ==
    /\ on_the_way # <<>> /\ Head(on_the_way).code = "NICK"
    /\ LET m == Head(on_the_way)
       IN  /\ IF m.old = self_handle THEN self_handle' = m.new
              ELSE UNCHANGED self_handle
           /\ nick_handler(Spelt(m.old, "lower"), Spelt(m.new, "lower"))
    /\ on_the_way' = Tail(on_the_way)
    /\ UNCHANGED <<server_nick, renames, relay_prefix>>

(* _whois_user_handler() of the connection: the prefix it makes begins     *)
(* with the nickname of the connection's parameters.                       *)
SelfDescribed ==
    /\ on_the_way # <<>> /\ Head(on_the_way).code = "WHOISUSER"
    /\ relay_prefix' = IF Head(on_the_way).old = self_handle THEN Configured
                       ELSE relay_prefix
    /\ canon_nick_receive(<<Spelt(Head(on_the_way).old, "lower")>>)
    /\ KeepAliases(<<Spelt(Head(on_the_way).old, "lower")>>)
    /\ on_the_way' = Tail(on_the_way)
    /\ UNCHANGED <<server_nick, renames, self_handle>>

OwnNick ==
    \/ \E n \in Nicks : ServerRenames(n)
    \/ ServerAnswersWhois \/ SelfRenamed \/ SelfDescribed

NicksNext ==
    \/ \E n \in Nicks, s \in Spellings, announces \in BOOLEAN :
          Mentioned(n, s, announces)
    \/ \E m, n \in Nicks, s, t \in Spellings :
          ContactRenamed(Spelt(m, s), Spelt(n, t))
    \/ OwnNick

-----------------------------------------------------------------------------
(* Every variable has its type.                                            *)
NicksTypeOK ==
    /\ {server_nick, self_handle} \subseteq Nicks
    /\ renames \in 0 .. MaxRenames
    /\ on_the_way \in
           Seq([code : {"NICK", "WHOISUSER"}, old : Nicks, new : Nicks])
    /\ relay_prefix \in {NoNick, Configured}
    /\ al_known \in [Nicks -> Spellings]
    /\ al_queued \in [Nicks -> Spellings \cup {Unqueued}]
    /\ al_told \in [Nicks -> Spellings]

(* What clients were told of a contact's alias is what they would be told  *)
(* if they asked (GetAliases), unless the difference waits in the queue.   *)
AliasesAnnounced ==
    \A n \in Nicks :
        al_known[n] = IF al_queued[n] = Unqueued THEN al_told[n] ELSE al_queued[n]
===============================================================================
