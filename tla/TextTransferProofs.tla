-------------------------- MODULE TextTransferProofs --------------------------
(* Theorems about the texts of a conversation on their way: the aliases    *)
(* that are announced, the lines that the parser gets, and the lines that  *)
(* a text is cut into, for any chunks, texts, nicknames and lengths.       *)
EXTENDS TextTransfer, TLAPS, FiniteSetTheorems, SequenceTheorems,
        WellFoundedInduction

-----------------------------------------------------------------------------
(* Nicknames and aliases.                                                  *)

(* The nicknames in a message: one, or the old and the new one of a NICK.  *)
Seen == [nick : Nicks, spelling : Spellings]
Messages == {<<a>> : a \in Seen} \cup {<<a, b>> : a \in Seen, b \in Seen}

LEMMA LastIsSeen ==
    ASSUME NEW seen \in Messages, NEW n \in Nicks, Sees(seen, n)
    PROVE  \E i \in DOMAIN seen :
              seen[i].nick = n /\ LastSpelling(seen, n) = seen[i].spelling
<1> DEFINE at == {i \in DOMAIN seen : seen[i].nick = n}
<1>1. \E i \in at : \A j \in at : j <= i
  <2>1. DOMAIN seen = {1} \/ DOMAIN seen = {1, 2}
    BY DEF Messages
  <2>. QED
    BY <2>1 DEF Sees
<1>2. PICK i \in at : i = CHOOSE k \in at : \A j \in at : j <= k
  BY <1>1
<1>. QED
  BY <1>2 DEF LastSpelling

LEMMA SeenTypes ==
    ASSUME NEW seen \in Messages
    PROVE  /\ \A i \in DOMAIN seen : seen[i] \in Seen
           /\ \A n \in Nicks : Sees(seen, n) => LastSpelling(seen, n) \in Spellings
           /\ \A n \in Nicks : Differs(seen, n) => Sees(seen, n)
           /\ \A n \in Nicks : Sees(seen, n) /\ ~Differs(seen, n) =>
                 LastSpelling(seen, n) = al_known[n]
<1>1. \A i \in DOMAIN seen : seen[i] \in Seen
  BY DEF Messages
<1>2. \A n \in Nicks : Sees(seen, n) => LastSpelling(seen, n) \in Spellings
  BY <1>1, LastIsSeen DEF Seen
<1>3. \A n \in Nicks : Differs(seen, n) => Sees(seen, n)
  BY DEF Differs, Sees
<1>4. \A n \in Nicks : Sees(seen, n) /\ ~Differs(seen, n) =>
         LastSpelling(seen, n) = al_known[n]
  BY LastIsSeen DEF Differs
<1>. QED
  BY <1>1, <1>2, <1>3, <1>4

AliasTypes ==
    /\ al_known \in [Nicks -> Spellings]
    /\ al_queued \in [Nicks -> Spellings \cup {Unqueued}]
    /\ al_told \in [Nicks -> Spellings]

AliasInv == AliasTypes /\ AliasesAnnounced

(* Whether a message announces the aliases or not.                         *)
LEMMA AliasesKept ==
    ASSUME AliasInv, NEW seen \in Messages, canon_nick_receive(seen),
           AnnounceAliases(seen) \/ KeepAliases(seen)
    PROVE  AliasInv'
<1>0. Unqueued \notin Spellings
  BY DEF Unqueued, Spellings
<1>1. /\ \A n \in Nicks : Sees(seen, n) => LastSpelling(seen, n) \in Spellings
      /\ \A n \in Nicks : Differs(seen, n) => Sees(seen, n)
      /\ \A n \in Nicks : Sees(seen, n) /\ ~Differs(seen, n) =>
            LastSpelling(seen, n) = al_known[n]
  BY SeenTypes
<1>2. /\ al_known \in [Nicks -> Spellings]
      /\ al_queued \in [Nicks -> Spellings \cup {Unqueued}]
      /\ al_told \in [Nicks -> Spellings]
      /\ \A n \in Nicks :
            al_known[n] = IF al_queued[n] = Unqueued THEN al_told[n]
                          ELSE al_queued[n]
  BY DEF AliasInv, AliasTypes, AliasesAnnounced
<1>3. \A n \in Nicks :
         al_known'[n] = IF Sees(seen, n) THEN LastSpelling(seen, n)
                        ELSE al_known[n]
  BY DEF canon_nick_receive
<1>4. \A n \in Nicks :
         QueuedAfter(seen)[n] = IF Differs(seen, n) THEN LastSpelling(seen, n)
                                ELSE al_queued[n]
  BY DEF QueuedAfter
<1>5. al_known' \in [Nicks -> Spellings]
  BY <1>1, <1>2 DEF canon_nick_receive
<1>6. QueuedAfter(seen) \in [Nicks -> Spellings \cup {Unqueued}]
  BY <1>1, <1>2 DEF QueuedAfter
<1>7. CASE AnnounceAliases(seen)
  <2>1. /\ al_told' = [n \in Nicks |-> IF QueuedAfter(seen)[n] = Unqueued
                                       THEN al_told[n] ELSE QueuedAfter(seen)[n]]
        /\ al_queued' = [n \in Nicks |-> Unqueued]
    BY <1>7 DEF AnnounceAliases
  <2>2. /\ al_told' \in [Nicks -> Spellings]
        /\ al_queued' \in [Nicks -> Spellings \cup {Unqueued}]
    BY <1>2, <1>6, <2>1
  <2>3. \A n \in Nicks : al_known'[n] = al_told'[n] /\ al_queued'[n] = Unqueued
    BY <1>0, <1>1, <1>2, <1>3, <1>4, <2>1
  <2>. QED
    BY <1>5, <2>2, <2>3 DEF AliasInv, AliasTypes, AliasesAnnounced
<1>8. CASE KeepAliases(seen)
  <2>1. al_queued' = QueuedAfter(seen) /\ al_told' = al_told
    BY <1>8 DEF KeepAliases
  <2>2. \A n \in Nicks :
           al_known'[n] = IF al_queued'[n] = Unqueued THEN al_told'[n]
                          ELSE al_queued'[n]
    BY <1>0, <1>1, <1>2, <1>3, <1>4, <2>1
  <2>. QED
    BY <1>2, <1>5, <1>6, <2>1, <2>2 DEF AliasInv, AliasTypes, AliasesAnnounced
<1>. QED
  BY <1>7, <1>8

SelfTypes ==
    /\ {server_nick, self_handle} \subseteq Nicks
    /\ renames \in 0 .. MaxRenames
    /\ on_the_way \in
           Seq([code : {"NICK", "WHOISUSER"}, old : Nicks, new : Nicks])
    /\ relay_prefix \in {NoNick, Configured}

(* The messages that mention nicknames, as canon_nick_receive() sees them. *)
LEMMA NicksSteps ==
    ASSUME SelfTypes, NicksNext
    PROVE  /\ SelfTypes'
           /\ \/ UNCHANGED aliasVars
              \/ \E seen \in Messages :
                    /\ canon_nick_receive(seen)
                    /\ AnnounceAliases(seen) \/ KeepAliases(seen)
<1>0. \A n \in Nicks, s \in Spellings : Spelt(n, s) \in Seen
  BY DEF Spelt, Seen
<1>1. ASSUME NEW a \in Seen, NEW b \in Seen, nick_handler(a, b)
      PROVE  \E seen \in Messages :
                /\ canon_nick_receive(seen)
                /\ AnnounceAliases(seen) \/ KeepAliases(seen)
  <2>1. <<a, b>> \in Messages
    BY DEF Messages
  <2>. QED
    BY <1>1, <2>1 DEF nick_handler, AnnounceRename
<1>2. UNCHANGED selfVars => (SelfTypes => SelfTypes')
  BY DEF selfVars, SelfTypes
<1>3. ASSUME NEW n \in Nicks, NEW s \in Spellings, NEW announces \in BOOLEAN,
             Mentioned(n, s, announces)
      PROVE  /\ UNCHANGED selfVars
             /\ \E seen \in Messages :
                   /\ canon_nick_receive(seen)
                   /\ AnnounceAliases(seen) \/ KeepAliases(seen)
  <2>1. <<Spelt(n, s)>> \in Messages
    BY <1>0 DEF Messages
  <2>. QED
    BY <1>3, <2>1 DEF Mentioned
<1>4. ASSUME NEW m \in Nicks, NEW n \in Nicks, NEW s \in Spellings,
             NEW t \in Spellings, ContactRenamed(Spelt(m, s), Spelt(n, t))
      PROVE  /\ UNCHANGED selfVars
             /\ \E seen \in Messages :
                   /\ canon_nick_receive(seen)
                   /\ AnnounceAliases(seen) \/ KeepAliases(seen)
  BY <1>0, <1>1, <1>4 DEF ContactRenamed
<1> DEFINE M == [code : {"NICK", "WHOISUSER"}, old : Nicks, new : Nicks]
<1>5. /\ server_nick \in Nicks /\ self_handle \in Nicks
      /\ renames \in 0 .. MaxRenames /\ MaxRenames \in Nat
      /\ on_the_way \in Seq(M) /\ relay_prefix \in {NoNick, Configured}
  BY NicksAssumption DEF SelfTypes
<1>6. ASSUME NEW n \in Nicks, ServerRenames(n)
      PROVE  SelfTypes' /\ UNCHANGED aliasVars
  <2>1. /\ renames < MaxRenames /\ renames' = renames + 1
        /\ server_nick' = n /\ UNCHANGED <<self_handle, relay_prefix, aliasVars>>
        /\ on_the_way' = Append(on_the_way,
                            [code |-> "NICK", old |-> server_nick, new |-> n])
    BY <1>6 DEF ServerRenames
  <2>2. on_the_way' \in Seq(M)
    BY <1>5, <2>1
  <2>3. renames' \in 0 .. MaxRenames
    BY <1>5, <2>1
  <2>. QED
    BY <1>5, <2>1, <2>2, <2>3 DEF SelfTypes
<1>7. ServerAnswersWhois => SelfTypes' /\ UNCHANGED aliasVars
  <2>. SUFFICES ASSUME ServerAnswersWhois PROVE SelfTypes' /\ UNCHANGED aliasVars
    OBVIOUS
  <2>1. /\ UNCHANGED <<server_nick, renames, self_handle, relay_prefix, aliasVars>>
        /\ on_the_way' = Append(on_the_way, [code |-> "WHOISUSER",
                                             old |-> server_nick,
                                             new |-> server_nick])
    BY DEF ServerAnswersWhois
  <2>2. on_the_way' \in Seq(M)
    BY <1>5, <2>1
  <2>. QED
    BY <1>5, <2>1, <2>2 DEF SelfTypes
<1>8. on_the_way # <<>> =>
         /\ Head(on_the_way).old \in Nicks /\ Head(on_the_way).new \in Nicks
         /\ Tail(on_the_way) \in Seq(M)
  <2>1. on_the_way # <<>> => Head(on_the_way) \in M /\ Tail(on_the_way) \in Seq(M)
    BY <1>5, HeadTailProperties
  <2>. QED
    BY <2>1
<1>9. ASSUME SelfRenamed
      PROVE  /\ SelfTypes'
             /\ \E seen \in Messages :
                   /\ canon_nick_receive(seen)
                   /\ AnnounceAliases(seen) \/ KeepAliases(seen)
  <2> DEFINE m == Head(on_the_way)
  <2>1. /\ on_the_way # <<>> /\ self_handle' \in {self_handle, m.new}
        /\ nick_handler(Spelt(m.old, "lower"), Spelt(m.new, "lower"))
        /\ on_the_way' = Tail(on_the_way)
        /\ UNCHANGED <<server_nick, renames, relay_prefix>>
    BY <1>9 DEF SelfRenamed
  <2>2. SelfTypes'
    BY <1>5, <1>8, <2>1 DEF SelfTypes
  <2>3. "lower" \in Spellings
    BY DEF Spellings
  <2>. QED
    BY <1>0, <1>1, <1>8, <2>1, <2>2, <2>3
<1>10. ASSUME SelfDescribed
       PROVE  /\ SelfTypes'
              /\ \E seen \in Messages :
                    /\ canon_nick_receive(seen)
                    /\ AnnounceAliases(seen) \/ KeepAliases(seen)
  <2> DEFINE seen == <<Spelt(Head(on_the_way).old, "lower")>>
  <2>1. /\ on_the_way # <<>> /\ on_the_way' = Tail(on_the_way)
        /\ relay_prefix' \in {relay_prefix, Configured}
        /\ canon_nick_receive(seen) /\ KeepAliases(seen)
        /\ UNCHANGED <<server_nick, renames, self_handle>>
    BY <1>10 DEF SelfDescribed
  <2>2. SelfTypes'
    BY <1>5, <1>8, <2>1 DEF SelfTypes
  <2>3. "lower" \in Spellings
    BY DEF Spellings
  <2>4. seen \in Messages
    BY <1>0, <1>8, <2>1, <2>3 DEF Messages
  <2>. QED
    BY <2>1, <2>2, <2>4
<1>. QED
  BY <1>2, <1>3, <1>4, <1>6, <1>7, <1>9, <1>10 DEF NicksNext, OwnNick

NicksInv == SelfTypes /\ AliasInv

LEMMA NicksStep == NicksInv /\ [NicksNext]_nicksVars => NicksInv'
<1>1. NicksInv /\ UNCHANGED nicksVars => NicksInv'
  BY DEF nicksVars, selfVars, aliasVars, NicksInv, SelfTypes, AliasInv,
         AliasTypes, AliasesAnnounced
<1>2. ASSUME NicksInv, NicksNext PROVE NicksInv'
  <2>1. CASE UNCHANGED aliasVars
    BY <1>2, <2>1, NicksSteps
       DEF NicksInv, AliasInv, AliasTypes, AliasesAnnounced, aliasVars
  <2>2. CASE ~UNCHANGED aliasVars
    BY <1>2, <2>2, NicksSteps, AliasesKept DEF NicksInv
  <2>. QED
    BY <2>1, <2>2
<1>. QED
  BY <1>1, <1>2

LEMMA NicksInitially == NicksInit => NicksInv
<1>. SUFFICES ASSUME NicksInit PROVE NicksInv
  OBVIOUS
<1>1. SelfTypes
  BY NicksAssumption DEF NicksInit, SelfTypes
<1>2. AliasInv
  BY DEF NicksInit, AliasInv, AliasTypes, AliasesAnnounced, Spellings
<1>. QED
  BY <1>1, <1>2 DEF NicksInv

LEMMA TransferNicks == [TransferNext]_transferVars => [NicksNext]_nicksVars
<1>1. UNCHANGED transferVars => UNCHANGED nicksVars
  BY DEF transferVars
<1>2. TransferNext => [NicksNext]_nicksVars
  BY Zenon DEF TransferNext, NicksNext, SendText
<1>. QED
  BY <1>1, <1>2

LEMMA NicksInvCorrect == TransferSpec => []NicksInv
<1>1. TransferInit => NicksInv
  BY NicksInitially DEF TransferInit
<1>. QED
  BY <1>1, NicksStep, TransferNicks, PTL DEF TransferSpec

(* AliasesAnnounced: what clients were told of an alias is what they would *)
(* be told if they asked, or it waits in priv->queued_aliases, through any *)
(* renaming, of contacts and of the user, and any change of case.          *)
THEOREM AliasesCorrect == TransferSpec => []AliasesAnnounced
<1>1. NicksInv => AliasesAnnounced
  BY DEF NicksInv, AliasInv
<1>. QED
  BY <1>1, NicksInvCorrect, PTL
-----------------------------------------------------------------------------
(* Induction over the naturals, for sets instead of predicates, and the    *)
(* extreme elements of sets of them.                                       *)
Less == {p \in Nat \X Nat : p[1] < p[2]}

LEMMA Smallest ==
    ASSUME NEW S \in SUBSET Nat, S # {}
    PROVE  \E n \in S : \A m \in S : n <= m
<1>1. Less = OpToRel(<, Nat)
  BY DEF Less, OpToRel
<1>2. IsWellFoundedOn(Less, Nat)
  BY <1>1, NatLessThanWellFounded
<1>3. PICK x \in S : \A y \in S : <<y, x>> \notin Less
  BY <1>2, WFMin
<1>4. ASSUME NEW y \in S PROVE x <= y
  <2>1. x \in Nat /\ y \in Nat
    OBVIOUS
  <2>2. ~(y < x)
    BY <1>3, <2>1 DEF Less
  <2>. QED
    BY <2>1, <2>2
<1>. QED
  BY <1>4

LEMMA SetInduction ==
    ASSUME NEW S, 0 \in S, \A n \in Nat : n \in S => n + 1 \in S
    PROVE  Nat \subseteq S
<1>. SUFFICES ASSUME Nat \ S # {} PROVE FALSE
  OBVIOUS
<1>1. PICK n \in Nat \ S : \A m \in Nat \ S : n <= m
  BY Smallest
<1>2. n # 0 /\ n - 1 \in Nat /\ n - 1 \in S
  BY <1>1
<1>. QED
  BY <1>1, <1>2

LEMMA MaxFacts ==
    ASSUME NEW n \in Nat, NEW S \in SUBSET (0 .. n), S # {}
    PROVE  Max(S) \in S /\ \A y \in S : y <= Max(S)
<1> DEFINE T == {n - x : x \in S}
<1>1. T \in SUBSET Nat /\ T # {}
  <2>1. \A x \in S : x \in 0 .. n
    OBVIOUS
  <2>2. \A x \in S : n - x \in Nat
    BY <2>1
  <2>. QED
    BY <2>2
<1>2. PICK t \in T : \A u \in T : t <= u
  BY <1>1, Smallest
<1>3. PICK x \in S : t = n - x
  BY <1>2
<1>4. \A y \in S : x >= y
  BY <1>2, <1>3
<1>. QED
  BY <1>4 DEF Max

LEMMA MinFacts ==
    ASSUME NEW S \in SUBSET Nat, S # {}
    PROVE  Min(S) \in S /\ \A y \in S : Min(S) <= y
BY Smallest DEF Min

-----------------------------------------------------------------------------
(* The lines of a stream, byte by byte.                                    *)
LEMMA StreamFacts ==
    ASSUME NEW s \in Seq(Bytes)
    PROVE  /\ Len(s) \in Nat /\ DOMAIN s = 1 .. Len(s)
           /\ \A i \in 1 .. Len(s) : s[i] \in Bytes
           /\ Ends(s) = {i \in 1 .. Len(s) : s[i] = EOL}
           /\ LineEnds(s) \subseteq Ends(s)
           /\ IsFiniteSet(Ends(s)) /\ IsFiniteSet(LineEnds(s))
           /\ Cardinality(LineEnds(s)) \in Nat
<1>1. /\ Len(s) \in Nat /\ DOMAIN s = 1 .. Len(s)
      /\ \A i \in 1 .. Len(s) : s[i] \in Bytes
  BY LenProperties, ElementOfSeq
<1>2. /\ Ends(s) = {i \in 1 .. Len(s) : s[i] = EOL}
      /\ LineEnds(s) \subseteq Ends(s)
  BY <1>1 DEF Ends, LineEnds
<1>3. IsFiniteSet(1 .. Len(s))
  BY <1>1, FS_Interval
<1>4. IsFiniteSet(Ends(s)) /\ IsFiniteSet(LineEnds(s))
  BY <1>2, <1>3, FS_Subset
<1>. QED
  BY <1>1, <1>2, <1>4, FS_CardinalityType

LEMMA LineStartFacts ==
    ASSUME NEW s \in Seq(Bytes), NEW i \in 1 .. Len(s) + 1
    PROVE  /\ LineStart(s, i) \in 1 .. i
           /\ \A j \in LineStart(s, i) .. i - 1 : s[j] # EOL
           /\ LineStart(s, i) # 1 => s[LineStart(s, i) - 1] = EOL
<1> DEFINE S == {0} \cup {j \in Ends(s) : j < i}
<1>1. Ends(s) = {k \in 1 .. Len(s) : s[k] = EOL} /\ Len(s) \in Nat
  BY StreamFacts
<1>2. S \in SUBSET (0 .. i - 1) /\ S # {} /\ i - 1 \in Nat
  BY <1>1
<1>3. Max(S) \in S /\ \A y \in S : y <= Max(S)
  BY <1>2, MaxFacts
<1>4. LineStart(s, i) = 1 + Max(S)
  BY DEF LineStart
<1> HIDE DEF S
<1>5. Max(S) \in 0 .. i - 1
  BY <1>2, <1>3
<1>6. \A j \in 1 + Max(S) .. i - 1 : s[j] # EOL
  <2>. SUFFICES ASSUME NEW j \in 1 + Max(S) .. i - 1, s[j] = EOL PROVE FALSE
    OBVIOUS
  <2>1. j \in 1 .. Len(s) /\ j < i
    BY <1>1, <1>5
  <2>2. j \in S
    BY <1>1, <2>1 DEF S
  <2>. QED
    BY <1>3, <1>5, <2>2
<1>7. Max(S) # 0 => s[Max(S)] = EOL
  BY <1>1, <1>3 DEF S
<1>. QED
  BY <1>4, <1>5, <1>6, <1>7

(* A start depends on what comes before it alone.                          *)
LEMMA LineStartAppend ==
    ASSUME NEW s \in Seq(Bytes), NEW b \in Bytes
    PROVE  /\ Len(Append(s, b)) = Len(s) + 1
           /\ Append(s, b) \in Seq(Bytes)
           /\ \A i \in 1 .. Len(s) : Append(s, b)[i] = s[i]
           /\ Append(s, b)[Len(s) + 1] = b
           /\ Ends(Append(s, b)) =
                  Ends(s) \cup (IF b = EOL THEN {Len(s) + 1} ELSE {})
           /\ \A i \in 1 .. Len(s) + 1 :
                  LineStart(Append(s, b), i) = LineStart(s, i)
<1> DEFINE t == Append(s, b)
<1>1. /\ t \in Seq(Bytes) /\ Len(t) = Len(s) + 1 /\ Len(s) \in Nat
      /\ \A i \in 1 .. Len(s) : t[i] = s[i]
      /\ t[Len(s) + 1] = b
  BY AppendProperties, StreamFacts
<1> HIDE DEF t
<1>2. Ends(t) = {i \in 1 .. Len(t) : t[i] = EOL}
  BY <1>1, StreamFacts
<1>3. Ends(s) = {i \in 1 .. Len(s) : s[i] = EOL}
  BY StreamFacts
<1>4. Ends(t) = Ends(s) \cup (IF b = EOL THEN {Len(s) + 1} ELSE {})
  BY <1>1, <1>2, <1>3
<1>5. ASSUME NEW i \in 1 .. Len(s) + 1 PROVE LineStart(t, i) = LineStart(s, i)
  <2>1. {j \in Ends(t) : j < i} = {j \in Ends(s) : j < i}
    BY <1>1, <1>3, <1>4
  <2>. QED
    BY <2>1 DEF LineStart
<1>. QED
  BY <1>1, <1>4, <1>5 DEF t

LEMMA SeqInduction ==
    ASSUME NEW S, NEW P, <<>> \in P,
           \A s \in Seq(S), e \in S : s \in P => Append(s, e) \in P
    PROVE  Seq(S) \subseteq P
<1> DEFINE N == {n \in Nat : \A s \in Seq(S) : Len(s) = n => s \in P}
<1>1. 0 \in N
  <2>1. \A s \in Seq(S) : Len(s) = 0 => s = <<>>
    BY EmptySeq
  <2>. QED
    BY <2>1
<1>2. ASSUME NEW n \in Nat, n \in N PROVE n + 1 \in N
  <2>. SUFFICES ASSUME NEW s \in Seq(S), Len(s) = n + 1 PROVE s \in P
    OBVIOUS
  <2>1. s # <<>>
    BY EmptySeq
  <2>2. PICK r \in Seq(S), e \in S : s = Append(r, e)
    BY <2>1, SequenceEmptyOrAppend
  <2>3. Len(s) = Len(r) + 1 /\ Len(r) \in Nat
    BY <2>2, AppendProperties, LenProperties
  <2>4. r \in P
    BY <1>2, <2>3
  <2>. QED
    BY <2>2, <2>4
<1> HIDE DEF N
<1>3. Nat \subseteq N
  BY <1>1, <1>2, SetInduction
<1>. SUFFICES ASSUME NEW s \in Seq(S) PROVE s \in P
  OBVIOUS
<1>4. Len(s) \in N
  BY <1>3, LenProperties
<1>. QED
  BY <1>4 DEF N

LEMMA SameSubSeq ==
    ASSUME NEW S, NEW s \in Seq(S), NEW t \in Seq(S), NEW m \in 1 .. Len(s) + 1,
           NEW n \in 0 .. Len(s), Len(s) <= Len(t),
           \A i \in 1 .. Len(s) : s[i] = t[i]
    PROVE  SubSeq(s, m, n) = SubSeq(t, m, n)
<1>1. Len(s) \in Nat /\ Len(t) \in Nat
  BY LenProperties
<1>2. \A i \in m .. n : s[i] \in S /\ t[i] \in S /\ s[i] = t[i]
  BY <1>1, ElementOfSeq
<1>3. /\ SubSeq(s, m, n) \in Seq(S)
      /\ Len(SubSeq(s, m, n)) = IF m <= n THEN n - m + 1 ELSE 0
      /\ \A i \in 1 .. n - m + 1 : SubSeq(s, m, n)[i] = s[m + i - 1]
  BY <1>1, <1>2, SubSeqProperties
<1>4. /\ SubSeq(t, m, n) \in Seq(S)
      /\ Len(SubSeq(t, m, n)) = IF m <= n THEN n - m + 1 ELSE 0
      /\ \A i \in 1 .. n - m + 1 : SubSeq(t, m, n)[i] = t[m + i - 1]
  BY <1>1, <1>2, SubSeqProperties
<1>5. \A i \in 1 .. Len(SubSeq(s, m, n)) : SubSeq(s, m, n)[i] = SubSeq(t, m, n)[i]
  BY <1>1, <1>2, <1>3, <1>4
<1>. QED
  BY <1>3, <1>4, <1>5, SeqEqual

(* A stream is open when it does not end with a terminator.                *)
Open(s) == Len(s) > 0 /\ s[Len(s)] # EOL

LEMMA UnfinishedFacts ==
    ASSUME NEW s \in Seq(Bytes)
    PROVE  /\ Unfinished(s) \in Seq(Text)
           /\ Unfinished(s) = <<>> <=> ~Open(s)
           /\ LineStart(s, Len(s) + 1) \in 1 .. Len(s) + 1
<1> DEFINE st == LineStart(s, Len(s) + 1)
<1>1. Len(s) \in Nat /\ \A i \in 1 .. Len(s) : s[i] \in Bytes
  BY StreamFacts
<1>2. /\ st \in 1 .. Len(s) + 1
      /\ \A j \in st .. Len(s) : s[j] # EOL
      /\ st # 1 => s[st - 1] = EOL
  <2>1. Len(s) + 1 \in 1 .. Len(s) + 1 /\ Len(s) + 1 - 1 = Len(s)
    BY <1>1
  <2>. QED
    BY <2>1, LineStartFacts
<1>3. Unfinished(s) = SubSeq(s, st, Len(s))
  BY DEF Unfinished
<1> HIDE DEF st
<1>4. \A j \in st .. Len(s) : s[j] \in Text
  BY <1>1, <1>2 DEF Bytes
<1>5. /\ SubSeq(s, st, Len(s)) \in Seq(Text)
      /\ Len(SubSeq(s, st, Len(s))) = IF st <= Len(s) THEN Len(s) - st + 1 ELSE 0
  BY <1>1, <1>2, <1>4, SubSeqProperties
<1>6. SubSeq(s, st, Len(s)) = <<>> <=> st = Len(s) + 1
  <2>1. SubSeq(s, st, Len(s)) = <<>> <=> Len(SubSeq(s, st, Len(s))) = 0
    BY <1>5, EmptySeq
  <2>. QED
    BY <1>1, <1>2, <1>5, <2>1
<1>7. st = Len(s) + 1 <=> ~Open(s)
  <2>1. CASE st = Len(s) + 1
    BY <1>1, <1>2, <2>1 DEF Open
  <2>2. CASE st # Len(s) + 1
    <3>1. Len(s) \in st .. Len(s) /\ Len(s) > 0
      BY <1>1, <1>2, <2>2
    <3>. QED
      BY <1>2, <2>2, <3>1 DEF Open
  <2>. QED
    BY <2>1, <2>2
<1>. QED
  BY <1>2, <1>3, <1>5, <1>6, <1>7 DEF st

LEMMA UnfinishedAppend ==
    ASSUME NEW s \in Seq(Bytes), NEW b \in Bytes
    PROVE  Unfinished(Append(s, b)) =
               IF b = EOL THEN <<>> ELSE Append(Unfinished(s), b)
<1> DEFINE t == Append(s, b)
           st == LineStart(s, Len(s) + 1)
<1>1. /\ Len(t) = Len(s) + 1 /\ t \in Seq(Bytes) /\ Len(s) \in Nat
      /\ \A i \in 1 .. Len(s) : t[i] = s[i]
      /\ t[Len(s) + 1] = b
      /\ Ends(t) = Ends(s) \cup (IF b = EOL THEN {Len(s) + 1} ELSE {})
      /\ Ends(s) = {i \in 1 .. Len(s) : s[i] = EOL}
  BY LineStartAppend, StreamFacts
<1>2. CASE b = EOL
  <2>1. ~Open(t)
    BY <1>1, <1>2 DEF Open
  <2>. QED
    BY <1>1, <1>2, <2>1, UnfinishedFacts
<1>3. CASE b # EOL
  <2>1. {j \in Ends(t) : j < Len(t) + 1} = {j \in Ends(s) : j < Len(s) + 1}
    BY <1>1, <1>3
  <2>2. LineStart(t, Len(t) + 1) = st
    BY <2>1 DEF LineStart
  <2>3. Unfinished(t) = SubSeq(t, st, Len(s) + 1)
    BY <1>1, <2>2 DEF Unfinished
  <2>4. st \in 1 .. Len(s) + 1
    BY UnfinishedFacts
  <2>7. Unfinished(s) = SubSeq(s, st, Len(s)) /\ Unfinished(s) \in Seq(Text)
    BY UnfinishedFacts DEF Unfinished
  <2> HIDE DEF t, st
  <2>5. SubSeq(t, st, Len(s) + 1) = SubSeq(t, st, Len(s)) \o <<t[Len(s) + 1]>>
    <3>1. st \in 1 .. Len(t) /\ Len(s) + 1 \in st .. Len(t)
      BY <1>1, <2>4
    <3>2. SubSeq(t, st, Len(s) + 1)
              = SubSeq(t, st, Len(s) + 1 - 1) \o <<t[Len(s) + 1]>>
      BY <1>1, <3>1, SubSeqRecursiveSecond
    <3>3. Len(s) + 1 - 1 = Len(s)
      BY <1>1
    <3>. QED
      BY <3>2, <3>3, Zenon
  <2>6. SubSeq(t, st, Len(s)) = SubSeq(s, st, Len(s))
    BY <1>1, <2>4, SameSubSeq
  <2>8. b \in Text
    BY <1>3 DEF Bytes
  <2>9. Unfinished(t) = Unfinished(s) \o <<b>>
    BY <1>1, <2>3, <2>5, <2>6, <2>7
  <2>10. Append(Unfinished(s), b) = Unfinished(s) \o <<b>>
    BY <2>7, <2>8, AppendIsConcat
  <2>. QED
    BY <1>3, <2>9, <2>10 DEF t
<1>. QED
  BY <1>2, <1>3

(* The lines of a stream are counted at their ends: one byte more leaves   *)
(* those that there are and may end one more.                              *)
LineEnd(s, k) == CHOOSE i \in EndsOfLine(s, k) : TRUE

LinesBefore(s, i) == {j \in LineEnds(s) : j <= i}

EveryLineEnds(s) ==
    \A k \in 1 .. Cardinality(LineEnds(s)) : EndsOfLine(s, k) # {}

LEMMA LineEndsAppend ==
    ASSUME NEW s \in Seq(Bytes), NEW b \in Bytes
    PROVE  LineEnds(Append(s, b)) =
               LineEnds(s) \cup (IF b = EOL /\ Open(s) THEN {Len(s) + 1} ELSE {})
<1> DEFINE t == Append(s, b)
<1>1. /\ Len(t) = Len(s) + 1 /\ t \in Seq(Bytes) /\ Len(s) \in Nat
      /\ \A i \in 1 .. Len(s) : t[i] = s[i]
      /\ t[Len(s) + 1] = b
      /\ Ends(t) = Ends(s) \cup (IF b = EOL THEN {Len(s) + 1} ELSE {})
      /\ Ends(s) = {i \in 1 .. Len(s) : s[i] = EOL}
  BY LineStartAppend, StreamFacts
<1> HIDE DEF t
<1>2. ASSUME NEW i \in Ends(s) PROVE i \in LineEnds(t) <=> i \in LineEnds(s)
  <2>1. i \in 1 .. Len(s) /\ (i > 1 => i - 1 \in 1 .. Len(s)) /\ i \in Ends(t)
    BY <1>1
  <2>2. i > 1 => t[i - 1] = s[i - 1]
    BY <1>1, <2>1
  <2>. QED
    BY <2>1, <2>2 DEF LineEnds
<1>3. Len(s) + 1 \in LineEnds(t) <=> b = EOL /\ Open(s)
  <2>1. Len(s) + 1 \in Ends(t) <=> b = EOL
    BY <1>1
  <2>2. Len(s) + 1 > 1 <=> Len(s) > 0
    BY <1>1
  <2>3. Len(s) > 0 => t[Len(s) + 1 - 1] = s[Len(s)]
    BY <1>1
  <2>. QED
    BY <2>1, <2>2, <2>3 DEF LineEnds, Open
<1>4. LineEnds(t) \subseteq Ends(t) /\ LineEnds(s) \subseteq Ends(s)
  BY DEF LineEnds
<1>5. LineEnds(t) \subseteq Ends(s) \cup {Len(s) + 1}
  BY <1>1, <1>4
<1>. QED
  BY <1>2, <1>3, <1>4, <1>5 DEF t

LEMMA EndsOfLineAppend ==
    ASSUME NEW s \in Seq(Bytes), NEW b \in Bytes
    PROVE  LET t == Append(s, b)
               c == Cardinality(LineEnds(s))
           IN  /\ \A k \in 1 .. c : EndsOfLine(t, k) = EndsOfLine(s, k)
               /\ b = EOL /\ Open(s) =>
                     /\ Cardinality(LineEnds(t)) = c + 1
                     /\ EndsOfLine(t, c + 1) = {Len(s) + 1}
               /\ ~(b = EOL /\ Open(s)) => LineEnds(t) = LineEnds(s)
<1> DEFINE t == Append(s, b)
           c == Cardinality(LineEnds(s))
           ends == b = EOL /\ Open(s)
<1>1. /\ Len(s) \in Nat
      /\ LineEnds(s) \subseteq 1 .. Len(s)
      /\ IsFiniteSet(LineEnds(s)) /\ c \in Nat
  BY StreamFacts
<1>2. LineEnds(t) = LineEnds(s) \cup (IF ends THEN {Len(s) + 1} ELSE {})
  BY LineEndsAppend
<1>3. \A u, k : EndsOfLine(u, k) =
                    {i \in LineEnds(u) : Cardinality(LinesBefore(u, i)) = k}
  BY DEF EndsOfLine, LinesBefore
<1> HIDE DEF t, ends
<1>4. ASSUME NEW i \in LineEnds(s) PROVE LinesBefore(t, i) = LinesBefore(s, i)
  BY <1>1, <1>2 DEF LinesBefore
<1>5. ASSUME NEW i \in LineEnds(s)
      PROVE  Cardinality(LinesBefore(s, i)) \in Nat /\ Cardinality(LinesBefore(s, i)) <= c
  <2>1. LinesBefore(s, i) \in SUBSET LineEnds(s)
    BY DEF LinesBefore
  <2>. QED
    BY <1>1, <2>1, FS_Subset, FS_CardinalityType
<1>6. ends => /\ Cardinality(LineEnds(t)) = c + 1
              /\ LinesBefore(t, Len(s) + 1) = LineEnds(t)
  <2>. SUFFICES ASSUME ends PROVE /\ Cardinality(LineEnds(t)) = c + 1
                                  /\ LinesBefore(t, Len(s) + 1) = LineEnds(t)
    OBVIOUS
  <2>1. LineEnds(t) = LineEnds(s) \cup {Len(s) + 1} /\ Len(s) + 1 \notin LineEnds(s)
    BY <1>1, <1>2
  <2>2. Cardinality(LineEnds(t)) = c + 1
    BY <1>1, <2>1, FS_AddElement
  <2>3. \A j \in LineEnds(t) : j <= Len(s) + 1
    BY <1>1, <2>1
  <2>. QED
    BY <2>2, <2>3 DEF LinesBefore
<1>7. ASSUME NEW k \in 1 .. c PROVE EndsOfLine(t, k) = EndsOfLine(s, k)
  <2>1. ASSUME NEW i \in LineEnds(t), i \notin LineEnds(s)
        PROVE  Cardinality(LinesBefore(t, i)) # k
    <3>1. ends /\ i = Len(s) + 1
      BY <1>2, <2>1
    <3>. QED
      BY <1>1, <1>6, <3>1
  <2>2. \A i \in LineEnds(s) : /\ i \in LineEnds(t)
                               /\ LinesBefore(t, i) = LinesBefore(s, i)
    BY <1>2, <1>4
  <2>. QED
    BY <1>3, <2>1, <2>2
<1>8. ends => EndsOfLine(t, c + 1) = {Len(s) + 1}
  <2>. SUFFICES ASSUME ends PROVE EndsOfLine(t, c + 1) = {Len(s) + 1}
    OBVIOUS
  <2>1. \A i \in LineEnds(s) : Cardinality(LinesBefore(t, i)) # c + 1
    BY <1>1, <1>4, <1>5
  <2>2. LineEnds(t) = LineEnds(s) \cup {Len(s) + 1}
    BY <1>2
  <2>3. Cardinality(LinesBefore(t, Len(s) + 1)) = c + 1
    BY <1>6
  <2>. QED
    BY <1>3, <2>1, <2>2, <2>3
<1>9. ~ends => LineEnds(t) = LineEnds(s)
  BY <1>2
<1>. QED
  BY <1>6, <1>7, <1>8, <1>9 DEF t, ends

LEMMA EveryLineHasAnEnd == \A s \in Seq(Bytes) : EveryLineEnds(s)
<1> DEFINE P == {s \in Seq(Bytes) : EveryLineEnds(s)}
<1>1. <<>> \in P
  <2>1. <<>> \in Seq(Bytes) /\ Len(<<>>) = 0
    BY EmptySeq
  <2>2. LineEnds(<<>>) = {}
    <3>1. /\ Ends(<<>>) = {i \in 1 .. Len(<<>>) : <<>>[i] = EOL}
          /\ LineEnds(<<>>) \subseteq Ends(<<>>)
      BY <2>1, StreamFacts
    <3>2. Ends(<<>>) = {}
      BY <2>1, <3>1
    <3>. QED
      BY <3>1, <3>2
  <2>3. Cardinality(LineEnds(<<>>)) = 0
    BY <2>2, FS_EmptySet
  <2>. QED
    BY <2>1, <2>3 DEF EveryLineEnds
<1>2. ASSUME NEW s \in Seq(Bytes), NEW b \in Bytes, s \in P
      PROVE  Append(s, b) \in P
  <2> DEFINE t == Append(s, b)
             c == Cardinality(LineEnds(s))
  <2>1. t \in Seq(Bytes) /\ c \in Nat
    BY LineStartAppend, StreamFacts
  <2>2. /\ \A k \in 1 .. c : EndsOfLine(t, k) = EndsOfLine(s, k)
        /\ b = EOL /\ Open(s) =>
              /\ Cardinality(LineEnds(t)) = c + 1
              /\ EndsOfLine(t, c + 1) = {Len(s) + 1}
        /\ ~(b = EOL /\ Open(s)) => LineEnds(t) = LineEnds(s)
    BY EndsOfLineAppend
  <2> HIDE DEF t, c
  <2>3. \A k \in 1 .. c : EndsOfLine(s, k) # {}
    BY <1>2 DEF EveryLineEnds, c
  <2>4. ASSUME NEW k \in 1 .. Cardinality(LineEnds(t)) PROVE EndsOfLine(t, k) # {}
    <3>1. k \in 1 .. c \/ (k = c + 1 /\ b = EOL /\ Open(s))
      BY <2>1, <2>2 DEF c
    <3>. QED
      BY <2>2, <2>3, <3>1
  <2>. QED
    BY <2>1, <2>4 DEF EveryLineEnds, t
<1> HIDE DEF P
<1>3. Seq(Bytes) \subseteq P
  BY <1>1, <1>2, SeqInduction
<1>. QED
  BY <1>3 DEF P

LEMMA LinesAre ==
    ASSUME NEW s
    PROVE  Lines(s) = [k \in 1 .. Cardinality(LineEnds(s)) |->
                          SubSeq(s, LineStart(s, LineEnd(s, k)),
                                 LineEnd(s, k) - 1)]
BY DEF Lines, LineEnd

LEMMA LineEndFacts ==
    ASSUME NEW s \in Seq(Bytes), NEW k \in 1 .. Cardinality(LineEnds(s))
    PROVE  /\ LineEnd(s, k) \in EndsOfLine(s, k)
           /\ LineEnd(s, k) \in 2 .. Len(s)
           /\ s[LineEnd(s, k)] = EOL /\ s[LineEnd(s, k) - 1] # EOL
           /\ LineStart(s, LineEnd(s, k)) \in 1 .. LineEnd(s, k) - 1
           /\ \A j \in LineStart(s, LineEnd(s, k)) .. LineEnd(s, k) - 1 :
                 s[j] \in Text
<1> DEFINE e == LineEnd(s, k)
<1>1. e \in EndsOfLine(s, k)
  BY EveryLineHasAnEnd DEF EveryLineEnds, LineEnd
<1>2. e \in LineEnds(s)
  BY <1>1 DEF EndsOfLine
<1> HIDE DEF e
<1>3. /\ e \in 2 .. Len(s) /\ s[e] = EOL /\ s[e - 1] # EOL
      /\ Len(s) \in Nat /\ \A i \in 1 .. Len(s) : s[i] \in Bytes
  <2>1. e \in Ends(s) /\ e > 1 /\ s[e - 1] # EOL
    BY <1>2 DEF LineEnds
  <2>. QED
    BY <2>1, StreamFacts
<1>4. /\ LineStart(s, e) \in 1 .. e
      /\ \A j \in LineStart(s, e) .. e - 1 : s[j] # EOL
      /\ LineStart(s, e) # 1 => s[LineStart(s, e) - 1] = EOL
  <2>1. e \in 1 .. Len(s) + 1
    BY <1>3
  <2>. QED
    BY <2>1, LineStartFacts
<1>5. LineStart(s, e) # e
  BY <1>3, <1>4
<1>6. \A j \in LineStart(s, e) .. e - 1 : s[j] \in Text
  BY <1>3, <1>4 DEF Bytes
<1>. QED
  BY <1>1, <1>3, <1>4, <1>5, <1>6 DEF e

LEMMA LinesAppend ==
    ASSUME NEW s \in Seq(Bytes), NEW b \in Bytes
    PROVE  /\ DOMAIN Lines(s) = 1 .. Cardinality(LineEnds(s))
           /\ LET t == Append(s, b)
                  c == Cardinality(LineEnds(s))
              IN  Lines(t) = IF b = EOL /\ Open(s)
                             THEN [k \in 1 .. c + 1 |->
                                      IF k <= c THEN Lines(s)[k]
                                      ELSE Unfinished(s)]
                             ELSE Lines(s)
<1> DEFINE t == Append(s, b)
           c == Cardinality(LineEnds(s))
           Line(u, k) == SubSeq(u, LineStart(u, LineEnd(u, k)), LineEnd(u, k) - 1)
<1>1. /\ Len(t) = Len(s) + 1 /\ t \in Seq(Bytes) /\ Len(s) \in Nat /\ c \in Nat
      /\ \A i \in 1 .. Len(s) : t[i] = s[i]
      /\ \A i \in 1 .. Len(s) + 1 : LineStart(t, i) = LineStart(s, i)
  BY LineStartAppend, StreamFacts
<1>2. /\ \A k \in 1 .. c : EndsOfLine(t, k) = EndsOfLine(s, k)
      /\ b = EOL /\ Open(s) =>
            /\ Cardinality(LineEnds(t)) = c + 1
            /\ EndsOfLine(t, c + 1) = {Len(s) + 1}
      /\ ~(b = EOL /\ Open(s)) => LineEnds(t) = LineEnds(s)
  BY EndsOfLineAppend
<1>3. /\ Lines(s) = [k \in 1 .. c |-> Line(s, k)]
      /\ Lines(t) = [k \in 1 .. Cardinality(LineEnds(t)) |-> Line(t, k)]
  BY LinesAre
<1> HIDE DEF t
<1>4. ASSUME NEW k \in 1 .. c PROVE Line(t, k) = Line(s, k)
  <2> DEFINE e == LineEnd(s, k)
             st == LineStart(s, e)
  <2>1. LineEnd(t, k) = e
    BY <1>2 DEF LineEnd
  <2>2. e \in 2 .. Len(s) /\ st \in 1 .. e - 1
    BY LineEndFacts
  <2>3. LineStart(t, e) = st
    BY <1>1, <2>2
  <2> HIDE DEF e, st
  <2>4. st \in 1 .. Len(s) + 1 /\ e - 1 \in 0 .. Len(s) /\ Len(s) <= Len(t)
    BY <1>1, <2>2
  <2>5. SubSeq(s, st, e - 1) = SubSeq(t, st, e - 1)
    BY <1>1, <2>4, SameSubSeq
  <2>. QED
    BY <2>1, <2>3, <2>5 DEF e, st
<1>5. CASE b = EOL /\ Open(s)
  <2>1. LineEnd(t, c + 1) = Len(s) + 1
    BY <1>2, <1>5 DEF LineEnd
  <2>2. LineStart(t, Len(s) + 1) = LineStart(s, Len(s) + 1)
    BY <1>1
  <2> DEFINE st == LineStart(s, Len(s) + 1)
  <2>3. st \in 1 .. Len(s) + 1 /\ Unfinished(s) = SubSeq(s, st, Len(s))
    BY UnfinishedFacts DEF Unfinished
  <2> HIDE DEF st
  <2>4. SubSeq(s, st, Len(s)) = SubSeq(t, st, Len(s))
    BY <1>1, <2>3, SameSubSeq
  <2>5. Len(s) + 1 - 1 = Len(s)
    BY <1>1
  <2>6. Line(t, c + 1) = Unfinished(s)
    <3>. DEFINE k == c + 1
                e == Len(s) + 1
    <3>. HIDE DEF k, e, c
    <3>0. LineEnd(t, k) = e
      BY <2>1 DEF k, e
    <3>1. Line(t, k) = SubSeq(t, LineStart(t, e), e - 1)
      BY <3>0
    <3>2. LineStart(t, e) = st /\ e - 1 = Len(s)
      BY <2>2, <2>5 DEF st, e
    <3>. QED
      BY <2>3, <2>4, <3>1, <3>2, Zenon DEF k
  <2>7. Lines(t) = [k \in 1 .. c + 1 |-> Line(t, k)]
    BY <1>2, <1>3, <1>5
  <2> HIDE DEF Line
  <2>8. \A k \in 1 .. c + 1 : Line(t, k) = IF k <= c THEN Lines(s)[k]
                                           ELSE Unfinished(s)
    BY <1>1, <1>3, <1>4, <2>6
  <2>9. Lines(t) = [k \in 1 .. c + 1 |-> IF k <= c THEN Lines(s)[k]
                                         ELSE Unfinished(s)]
    BY <2>7, <2>8
  <2>. QED
    BY <1>3, <1>5, <2>9 DEF t
<1>6. CASE ~(b = EOL /\ Open(s))
  <2>1. Lines(t) = [k \in 1 .. c |-> Line(t, k)]
    BY <1>2, <1>3, <1>6
  <2> HIDE DEF Line
  <2>2. Lines(t) = Lines(s)
    BY <1>3, <1>4, <2>1
  <2>. QED
    BY <1>3, <1>6, <2>2 DEF t
<1>. QED
  BY <1>5, <1>6

LEMMA LinesFacts ==
    ASSUME NEW s \in Seq(Bytes)
    PROVE  /\ Lines(s) \in Seq(Seq(Text))
           /\ Len(Lines(s)) = Cardinality(LineEnds(s))
<1> DEFINE c == Cardinality(LineEnds(s))
<1>1. ASSUME NEW k \in 1 .. c
      PROVE  SubSeq(s, LineStart(s, LineEnd(s, k)), LineEnd(s, k) - 1) \in Seq(Text)
  <2> DEFINE e == LineEnd(s, k)
  <2>1. /\ e \in 2 .. Len(s) /\ LineStart(s, e) \in 1 .. e - 1
        /\ \A j \in LineStart(s, e) .. e - 1 : s[j] \in Text
    BY LineEndFacts
  <2> HIDE DEF e
  <2>2. LineStart(s, e) \in Int /\ e - 1 \in Int
    BY <2>1, StreamFacts
  <2>3. SubSeq(s, LineStart(s, e), e - 1) \in Seq(Text)
    BY <2>1, <2>2, SubSeqProperties
  <2>. QED
    BY <2>3 DEF e
<1>2. Lines(s) \in [1 .. c -> Seq(Text)]
  BY <1>1, LinesAre
<1>3. c \in Nat
  BY StreamFacts
<1> HIDE DEF c
<1>. QED
  BY <1>2, <1>3 DEF c

LEMMA LinesAppended ==
    ASSUME NEW s \in Seq(Bytes), NEW b \in Bytes
    PROVE  Lines(Append(s, b)) = IF b = EOL /\ Open(s)
                                 THEN Append(Lines(s), Unfinished(s)) ELSE Lines(s)
<1> DEFINE c == Cardinality(LineEnds(s))
           u == Append(Lines(s), Unfinished(s))
<1>1. CASE b = EOL /\ Open(s)
  <2>1. Lines(Append(s, b)) = [k \in 1 .. c + 1 |-> IF k <= c THEN Lines(s)[k]
                                                    ELSE Unfinished(s)]
    BY <1>1, LinesAppend
  <2>2. /\ Lines(s) \in Seq(Seq(Text)) /\ Len(Lines(s)) = c
        /\ Unfinished(s) \in Seq(Text) /\ c \in Nat
    BY LinesFacts, UnfinishedFacts, StreamFacts
  <2> HIDE DEF c
  <2>3. /\ u \in Seq(Seq(Text)) /\ Len(u) = c + 1
        /\ \A k \in 1 .. c : u[k] = Lines(s)[k]
        /\ u[c + 1] = Unfinished(s)
    BY <2>2, AppendProperties
  <2>4. Append(s, b) \in Seq(Bytes)
    BY LineStartAppend
  <2>5. /\ Lines(Append(s, b)) \in Seq(Seq(Text))
        /\ Len(Lines(Append(s, b))) = c + 1
    <3>1. Cardinality(LineEnds(Append(s, b))) = c + 1
      BY <1>1, EndsOfLineAppend DEF c
    <3>. QED
      BY <2>4, <3>1, LinesFacts
  <2> HIDE DEF u
  <2>6. \A k \in 1 .. c + 1 : Lines(Append(s, b))[k] = u[k]
    BY <2>1, <2>2, <2>3
  <2>7. Lines(Append(s, b)) = u
    BY <2>3, <2>5, <2>6, SeqEqual
  <2>. QED
    BY <1>1, <2>7 DEF u
<1>2. CASE ~(b = EOL /\ Open(s))
  BY <1>2, LinesAppend
<1>. QED
  BY <1>1, <1>2

(* Nothing has been received of nothing.                                   *)
LEMMA NothingReceived == Lines(<<>>) = <<>> /\ Unfinished(<<>>) = <<>>
<1>1. <<>> \in Seq(Bytes) /\ Len(<<>>) = 0
  BY EmptySeq
<1>2. Ends(<<>>) = {i \in 1 .. Len(<<>>) : <<>>[i] = EOL}
  BY <1>1, StreamFacts
<1>3. LineEnds(<<>>) = {}
  <2>1. Ends(<<>>) = {}
    BY <1>1, <1>2
  <2>. QED
    BY <1>1, <2>1, StreamFacts
<1>4. Cardinality(LineEnds(<<>>)) = 0
  BY <1>3, FS_EmptySet
<1>5. Lines(<<>>) = <<>>
  BY <1>1, <1>4, LinesFacts, EmptySeq
<1>6. ~Open(<<>>)
  BY <1>1 DEF Open
<1>. QED
  BY <1>1, <1>5, <1>6, UnfinishedFacts

-----------------------------------------------------------------------------
(* The loop of idle_parser_receive().                                      *)
LEMMA TextIsBytes ==
    Seq(Text) \subseteq Seq(Bytes) /\ Seq(Seq(Text)) \subseteq Seq(Seq(Bytes))
<1>1. Text \subseteq Bytes
  BY DEF Bytes
<1>2. \A S, T : S \subseteq T => Seq(S) \subseteq Seq(T)
  <2>. SUFFICES ASSUME NEW S, NEW T, S \subseteq T, NEW s \in Seq(S)
                PROVE  s \in Seq(T)
    OBVIOUS
  <2>1. /\ Len(s) \in Nat /\ s \in [1 .. Len(s) -> S]
    OBVIOUS
  <2>2. s \in [1 .. Len(s) -> T]
    BY <2>1
  <2>. QED
    BY <2>1, <2>2
<1>. QED
  BY <1>1, <1>2

LEMMA ScanSteps ==
    ASSUME NEW msg \in Seq(Bytes)
    PROVE  /\ Scan(msg)[0] = [lasti |-> 0, line_ends |-> FALSE,
                              split |-> split_buf, lines |-> <<>>]
           /\ \A i \in 1 .. Len(msg) :
                 Scan(msg)[i] = ScanByte(msg, Scan(msg)[i - 1], i - 1)
<1> DEFINE start == [lasti |-> 0, line_ends |-> FALSE,
                     split |-> split_buf, lines |-> <<>>]
           Is(f, n) == f = [i \in 0 .. n |-> IF i = 0 THEN start
                                ELSE ScanByte(msg, f[i - 1], i - 1)]
           N == {n \in Nat : \E f : Is(f, n)}
<1> HIDE DEF start
<1>1. 0 \in N
  <2>1. Is([i \in 0 .. 0 |-> start], 0)
    OBVIOUS
  <2>. QED
    BY <2>1
<1>2. ASSUME NEW n \in Nat, n \in N PROVE n + 1 \in N
  <2>1. PICK f : Is(f, n)
    BY <1>2
  <2> DEFINE g == [i \in 0 .. n + 1 |-> IF i <= n THEN f[i]
                                        ELSE ScanByte(msg, f[n], n)]
  <2>2. ASSUME NEW i \in 0 .. n + 1
        PROVE  g[i] = IF i = 0 THEN start ELSE ScanByte(msg, g[i - 1], i - 1)
    <3>1. CASE i = 0
      BY <2>1, <3>1
    <3>2. CASE i \in 1 .. n
      <4>1. g[i] = f[i] /\ g[i - 1] = f[i - 1]
        BY <3>2
      <4>2. f[i] = ScanByte(msg, f[i - 1], i - 1)
        BY <2>1, <3>2
      <4>. QED
        BY <3>2, <4>1, <4>2
    <3>3. CASE i = n + 1
      <4>1. g[i] = ScanByte(msg, f[n], n) /\ g[i - 1] = f[n] /\ i - 1 = n
        BY <3>3
      <4>. QED
        BY <3>3, <4>1
    <3>. QED
      BY <3>1, <3>2, <3>3
  <2>3. Is(g, n + 1)
    <3> HIDE DEF g
    <3>1. g = [i \in 0 .. n + 1 |-> g[i]]
      BY DEF g
    <3>. QED
      BY <2>2, <3>1
  <2> HIDE DEF g, Is
  <2>. QED
    BY <2>3
<1> HIDE DEF N
<1>3. Nat \subseteq N
  BY <1>1, <1>2, SetInduction
<1>4. Len(msg) \in N
  BY <1>3, LenProperties
<1>5. \E f : Is(f, Len(msg))
  BY <1>4 DEF N
<1>6. Scan(msg) = CHOOSE f : Is(f, Len(msg))
  BY DEF Scan, start
<1>7. Is(Scan(msg), Len(msg))
  BY <1>5, <1>6
<1>8. Len(msg) \in Nat
  BY LenProperties
<1> DEFINE scan == Scan(msg)
<1>9. scan = [i \in 0 .. Len(msg) |-> IF i = 0 THEN start
                                      ELSE ScanByte(msg, scan[i - 1], i - 1)]
  BY <1>7
<1> HIDE DEF scan
<1>10. /\ scan[0] = start
       /\ \A i \in 1 .. Len(msg) : scan[i] = ScanByte(msg, scan[i - 1], i - 1)
  BY <1>8, <1>9
<1>. QED
  BY <1>10 DEF start, scan

ScanRecords ==
    [lasti : Nat, line_ends : BOOLEAN, split : Seq(Bytes),
     lines : Seq(Seq(Bytes))]

(* The bytes after the last terminator seen.                               *)
Piece(msg, scan, i) == SubSeq(msg, scan.lasti + 1, i)

LEMMA ScanByteIs ==
    ASSUME NEW msg \in Seq(Bytes), NEW i \in 0 .. Len(msg) - 1,
           NEW scan \in ScanRecords, scan.lasti <= i
    PROVE  LET next == ScanByte(msg, scan, i)
               ended == IF scan.lasti = 0 THEN scan.split \o Piece(msg, scan, i)
                        ELSE Piece(msg, scan, i)
           IN  /\ msg[i + 1] # EOL =>
                     /\ next.lasti = scan.lasti /\ next.line_ends = FALSE
                     /\ next.split = scan.split /\ next.lines = scan.lines
               /\ msg[i + 1] = EOL =>
                     /\ next.lasti = i + 1 /\ next.line_ends = TRUE
                     /\ next.split = IF i > scan.lasti /\ scan.lasti = 0
                                     THEN <<>> ELSE scan.split
                     /\ next.lines = IF i > scan.lasti
                                     THEN Append(scan.lines, ended)
                                     ELSE scan.lines
<1>1. CASE msg[i + 1] # EOL
  BY <1>1 DEF ScanByte, ScanRecords
<1>2. CASE msg[i + 1] = EOL
  BY <1>2 DEF ScanByte, ScanRecords, Piece, ClearSplit
<1>. QED
  BY <1>1, <1>2

LEMMA PieceFacts ==
    ASSUME NEW msg \in Seq(Bytes), NEW i \in 0 .. Len(msg),
           NEW scan \in ScanRecords, scan.lasti <= i,
           \A j \in scan.lasti + 1 .. i : msg[j] # EOL
    PROVE  /\ Piece(msg, scan, i) \in Seq(Bytes)
           /\ Len(Piece(msg, scan, i)) = i - scan.lasti
<1>1. /\ \A j \in 1 .. Len(msg) : msg[j] \in Bytes
      /\ Len(msg) \in Nat /\ scan.lasti \in Nat
  BY StreamFacts DEF ScanRecords
<1>2. \A j \in scan.lasti + 1 .. i : msg[j] \in Bytes
  BY <1>1 DEF Bytes
<1>3. scan.lasti + 1 \in Int /\ i \in Int
  BY <1>1
<1>4. /\ SubSeq(msg, scan.lasti + 1, i) \in Seq(Bytes)
      /\ Len(SubSeq(msg, scan.lasti + 1, i)) =
             IF scan.lasti + 1 <= i THEN i - (scan.lasti + 1) + 1 ELSE 0
  BY <1>2, <1>3, SubSeqProperties
<1>. QED
  BY <1>1, <1>4 DEF Piece

(* What the loop has seen after i bytes, whatever was waiting.             *)
ScanTypes(msg, scan, i) ==
    /\ scan \in ScanRecords
    /\ scan.lasti <= i
    /\ \A j \in scan.lasti + 1 .. i : msg[j] # EOL
    /\ scan.lasti # 0 => msg[scan.lasti] = EOL
    /\ scan.line_ends <=> i > 0 /\ scan.lasti = i
    /\ scan.split \in {split_buf, <<>>}
    /\ \A k \in 1 .. Len(scan.lines) : Len(scan.lines[k]) \in 1 .. 2 * MaxLine

LEMMA ScanTypesStep ==
    ASSUME NEW msg \in Seq(Bytes), Len(msg) <= MaxLine + 1,
           NEW i \in 0 .. Len(msg) - 1, NEW scan, ScanTypes(msg, scan, i),
           split_buf \in Seq(Bytes), Len(split_buf) <= MaxLine
    PROVE  ScanTypes(msg, ScanByte(msg, scan, i), i + 1)
<1> DEFINE next == ScanByte(msg, scan, i)
           ended == IF scan.lasti = 0 THEN scan.split \o Piece(msg, scan, i)
                    ELSE Piece(msg, scan, i)
<1>1. /\ scan \in ScanRecords /\ scan.lasti <= i
      /\ scan.lasti \in Nat /\ scan.split \in Seq(Bytes)
      /\ scan.lines \in Seq(Seq(Bytes)) /\ scan.line_ends \in BOOLEAN
      /\ \A j \in scan.lasti + 1 .. i : msg[j] # EOL
      /\ scan.lasti # 0 => msg[scan.lasti] = EOL
      /\ scan.split \in {split_buf, <<>>}
      /\ \A k \in 1 .. Len(scan.lines) : Len(scan.lines[k]) \in 1 .. 2 * MaxLine
      /\ Len(msg) \in Nat /\ MaxLine \in Nat \ {0}
  BY StreamFacts, LineReassemblyAssumption DEF ScanTypes, ScanRecords
<1>2. /\ msg[i + 1] # EOL =>
            /\ next.lasti = scan.lasti /\ next.line_ends = FALSE
            /\ next.split = scan.split /\ next.lines = scan.lines
      /\ msg[i + 1] = EOL =>
            /\ next.lasti = i + 1 /\ next.line_ends = TRUE
            /\ next.split = IF i > scan.lasti /\ scan.lasti = 0
                            THEN <<>> ELSE scan.split
            /\ next.lines = IF i > scan.lasti THEN Append(scan.lines, ended)
                            ELSE scan.lines
  BY <1>1, ScanByteIs
<1>3. /\ next.lasti \in Nat /\ next.lasti <= i + 1
      /\ next.line_ends \in BOOLEAN
      /\ \A j \in next.lasti + 1 .. i + 1 : msg[j] # EOL
      /\ next.lasti # 0 => msg[next.lasti] = EOL
      /\ next.line_ends <=> i + 1 > 0 /\ next.lasti = i + 1
      /\ next.split \in {split_buf, <<>>}
  <2> HIDE DEF next, ended
  <2>1. CASE msg[i + 1] # EOL
    <3>1. /\ next.lasti = scan.lasti /\ next.line_ends = FALSE
          /\ next.split = scan.split
      BY <1>2, <2>1
    <3>2. \A j \in scan.lasti + 1 .. i + 1 : msg[j] # EOL
      BY <1>1, <2>1
    <3>3. scan.lasti # i + 1 /\ scan.lasti <= i + 1
      BY <1>1
    <3>. QED
      BY <1>1, <3>1, <3>2, <3>3
  <2>2. CASE msg[i + 1] = EOL
    <3>1. /\ next.lasti = i + 1 /\ next.line_ends = TRUE
          /\ next.split \in {<<>>, scan.split}
      BY <1>2, <2>2
    <3>2. i + 1 \in Nat /\ i + 1 > 0 /\ i + 1 <= i + 1
      BY <1>1
    <3>3. \A j \in next.lasti + 1 .. i + 1 : msg[j] # EOL
      BY <3>1, <3>2
    <3>4. next.split \in {split_buf, <<>>}
      BY <1>1, <3>1
    <3>. QED
      BY <2>2, <3>1, <3>2, <3>3, <3>4, Zenon
  <2>. QED
    BY <2>1, <2>2
<1>4. /\ Piece(msg, scan, i) \in Seq(Bytes)
      /\ Len(Piece(msg, scan, i)) = i - scan.lasti
  <2>1. i \in 0 .. Len(msg)
    BY <1>1
  <2>. QED
    BY <1>1, <2>1, PieceFacts
<1>5. Len(scan.split) \in Nat /\ Len(scan.split) <= MaxLine
  BY <1>1, EmptySeq, LenProperties
<1>6. /\ ended \in Seq(Bytes)
      /\ i > scan.lasti => Len(ended) \in 1 .. 2 * MaxLine
  <2>1. CASE scan.lasti = 0
    <3>0. scan.split \in Seq(Bytes) /\ Piece(msg, scan, i) \in Seq(Bytes)
      BY <1>1, <1>4
    <3>1. /\ scan.split \o Piece(msg, scan, i) \in Seq(Bytes)
          /\ Len(scan.split \o Piece(msg, scan, i)) =
                 Len(scan.split) + Len(Piece(msg, scan, i))
      BY ONLY <3>0, ConcatProperties
    <3>2. i <= MaxLine
      BY <1>1
    <3>. QED
      BY <1>1, <1>4, <1>5, <2>1, <3>1, <3>2
  <2>2. CASE scan.lasti # 0
    BY <1>1, <1>4, <2>2
  <2>. QED
    BY <2>1, <2>2
<1> HIDE DEF ended, next
<1>7. /\ next.lines \in Seq(Seq(Bytes))
      /\ \A k \in 1 .. Len(next.lines) : Len(next.lines[k]) \in 1 .. 2 * MaxLine
  <2>1. CASE msg[i + 1] = EOL /\ i > scan.lasti
    <3>1. next.lines = Append(scan.lines, ended)
      BY <1>2, <2>1
    <3>2. /\ Append(scan.lines, ended) \in Seq(Seq(Bytes))
          /\ Len(Append(scan.lines, ended)) = Len(scan.lines) + 1
          /\ \A k \in 1 .. Len(scan.lines) :
                Append(scan.lines, ended)[k] = scan.lines[k]
          /\ Append(scan.lines, ended)[Len(scan.lines) + 1] = ended
      BY <1>1, <1>6, AppendProperties
    <3>3. Len(scan.lines) \in Nat
      BY <1>1, LenProperties
    <3>. QED
      BY <1>1, <1>6, <2>1, <3>1, <3>2, <3>3
  <2>2. CASE ~(msg[i + 1] = EOL /\ i > scan.lasti)
    BY <1>1, <1>2, <2>2
  <2>. QED
    BY <2>1, <2>2
<1>8. next.split \in Seq(Bytes)
  BY <1>3, EmptySeq
<1>9. next \in ScanRecords
  <2>1. next = [lasti |-> next.lasti, line_ends |-> next.line_ends,
                split |-> next.split, lines |-> next.lines]
    BY <1>1 DEF next, ScanByte, ScanRecords
  <2>. QED
    BY <1>3, <1>7, <1>8, <2>1 DEF ScanRecords
<1>. QED
  BY <1>3, <1>7, <1>9 DEF ScanTypes, next

LEMMA ScanTypesAlways ==
    ASSUME NEW msg \in Seq(Bytes), Len(msg) <= MaxLine + 1,
           split_buf \in Seq(Bytes), Len(split_buf) <= MaxLine
    PROVE  \A i \in 0 .. Len(msg) : ScanTypes(msg, Scan(msg)[i], i)
<1> DEFINE N == {i \in Nat : i <= Len(msg) => ScanTypes(msg, Scan(msg)[i], i)}
<1>0. Len(msg) \in Nat
  BY LenProperties
<1>1. 0 \in N
  <2> DEFINE start == Scan(msg)[0]
  <2>1. start = [lasti |-> 0, line_ends |-> FALSE, split |-> split_buf,
                 lines |-> <<>>]
    BY ScanSteps
  <2>2. start \in ScanRecords
    BY <2>1, EmptySeq DEF ScanRecords
  <2>3. Len(start.lines) = 0
    BY <2>1
  <2> HIDE DEF start
  <2>4. ScanTypes(msg, start, 0)
    BY <2>1, <2>2, <2>3 DEF ScanTypes
  <2>. QED
    BY <2>4 DEF start
<1>2. ASSUME NEW i \in Nat, i \in N PROVE i + 1 \in N
  <2>. SUFFICES ASSUME i + 1 <= Len(msg)
                PROVE  ScanTypes(msg, Scan(msg)[i + 1], i + 1)
    OBVIOUS
  <2>1. i \in 0 .. Len(msg) - 1 /\ i + 1 \in 1 .. Len(msg) /\ i + 1 - 1 = i
    BY <1>0
  <2>2. Scan(msg)[i + 1] = ScanByte(msg, Scan(msg)[i], i)
    BY <2>1, ScanSteps
  <2>3. ScanTypes(msg, Scan(msg)[i], i)
    BY <1>0, <1>2, <2>1
  <2>. QED
    BY <2>1, <2>2, <2>3, ScanTypesStep
<1> HIDE DEF N
<1>3. Nat \subseteq N
  BY <1>1, <1>2, SetInduction
<1>. QED
  BY <1>0, <1>3 DEF N

(* What a loop on sequences keeps needing, in the form the provers can use *)
(* for terms of any size.                                                  *)
Joins(S, a, b) == a \o b \in Seq(S) /\ Len(a \o b) = Len(a) + Len(b)

LEMMA Joined == \A S : \A a, b \in Seq(S) : Joins(S, a, b)
  BY ConcatProperties DEF Joins

Regroup(a, b, c) == (a \o b) \o c = a \o (b \o c)

LEMMA Regrouped == \A S : \A a, b, c \in Seq(S) : Regroup(a, b, c)
  BY ConcatAssociative DEF Regroup

LEMMA PrefixAppend ==
    ASSUME NEW base \in Seq(Bytes), NEW msg \in Seq(Bytes),
           NEW i \in 0 .. Len(msg) - 1
    PROVE  /\ base \o SubSeq(msg, 1, i) \in Seq(Bytes)
           /\ base \o SubSeq(msg, 1, i + 1) =
                  Append(base \o SubSeq(msg, 1, i), msg[i + 1])
<1>1. /\ Len(msg) \in Nat /\ \A j \in 1 .. Len(msg) : msg[j] \in Bytes
      /\ 1 \in 1 .. Len(msg) /\ i + 1 \in 1 .. Len(msg) /\ i + 1 - 1 = i
  BY StreamFacts
<1>2. SubSeq(msg, 1, i) \in Seq(Bytes)
  <2>1. \A j \in 1 .. i : msg[j] \in Bytes
    BY <1>1
  <2>. QED
    BY <2>1, SubSeqProperties
<1>3. SubSeq(msg, 1, i + 1) = SubSeq(msg, 1, i) \o <<msg[i + 1]>>
  <2>1. SubSeq(msg, 1, i + 1) = SubSeq(msg, 1, i + 1 - 1) \o <<msg[i + 1]>>
    BY <1>1, SubSeqRecursiveSecond
  <2>. QED
    BY <1>1, <2>1, Zenon
<1>4. msg[i + 1] \in Bytes /\ <<msg[i + 1]>> \in Seq(Bytes)
  BY <1>1
<1> DEFINE p == SubSeq(msg, 1, i)
           e == <<msg[i + 1]>>
<1> HIDE DEF p, e
<1>5. base \o p \in Seq(Bytes)
  BY <1>2, ConcatProperties DEF p
<1>6. (base \o p) \o e = base \o (p \o e)
  <2>1. base \in Seq(Bytes) /\ p \in Seq(Bytes) /\ e \in Seq(Bytes)
    BY <1>2, <1>4 DEF p, e
  <2>. QED
    BY ONLY <2>1, ConcatAssociative
<1>7. Append(base \o p, msg[i + 1]) = (base \o p) \o e
  BY <1>4, <1>5, AppendIsConcat DEF e
<1>. QED
  BY <1>3, <1>5, <1>6, <1>7 DEF p, e

(* What the loop makes of what was waiting, when that is the unfinished    *)
(* line of what was received before, and does not end with the first byte. *)
ScanLines(base, msg, scan, i) ==
    /\ Lines(base \o SubSeq(msg, 1, i)) = Lines(base) \o scan.lines
    /\ Unfinished(base \o SubSeq(msg, 1, i)) = scan.split \o Piece(msg, scan, i)
    /\ scan.split = IF scan.lasti = 0 THEN split_buf ELSE <<>>

LEMMA ScanLinesStep ==
    ASSUME NEW base \in Seq(Bytes), NEW msg \in Seq(Bytes),
           NEW i \in 0 .. Len(msg) - 1, NEW scan,
           ScanTypes(msg, scan, i), ScanLines(base, msg, scan, i),
           split_buf \in Seq(Bytes), split_buf = <<>> \/ msg[1] # EOL
    PROVE  ScanLines(base, msg, ScanByte(msg, scan, i), i + 1)
<1> DEFINE next == ScanByte(msg, scan, i)
           piece == Piece(msg, scan, i)
           ended == IF scan.lasti = 0 THEN scan.split \o piece ELSE piece
           s == base \o SubSeq(msg, 1, i)
           t == base \o SubSeq(msg, 1, i + 1)
<1>1. /\ scan \in ScanRecords /\ scan.lasti <= i
      /\ scan.lasti \in Nat /\ scan.split \in Seq(Bytes)
      /\ scan.lines \in Seq(Seq(Bytes))
      /\ \A j \in scan.lasti + 1 .. i : msg[j] # EOL
  BY DEF ScanTypes, ScanRecords
<1>2. /\ msg[i + 1] # EOL =>
            /\ next.lasti = scan.lasti /\ next.line_ends = FALSE
            /\ next.split = scan.split /\ next.lines = scan.lines
      /\ msg[i + 1] = EOL =>
            /\ next.lasti = i + 1 /\ next.line_ends = TRUE
            /\ next.split = IF i > scan.lasti /\ scan.lasti = 0
                            THEN <<>> ELSE scan.split
            /\ next.lines = IF i > scan.lasti THEN Append(scan.lines, ended)
                            ELSE scan.lines
  BY <1>1, ScanByteIs
<1>3. i \in 0 .. Len(msg) /\ Len(msg) \in Nat /\ i + 1 \in 1 .. Len(msg)
      /\ msg[i + 1] \in Bytes
  BY StreamFacts
<1>4. piece \in Seq(Bytes) /\ Len(piece) = i - scan.lasti
  BY <1>1, <1>3, PieceFacts
<1>5. s \in Seq(Bytes) /\ t = Append(s, msg[i + 1])
  BY PrefixAppend
<1>6. /\ Lines(s) = Lines(base) \o scan.lines
      /\ Unfinished(s) = scan.split \o piece
      /\ scan.split = IF scan.lasti = 0 THEN split_buf ELSE <<>>
  BY DEF ScanLines
<1>7. /\ Unfinished(t) = IF msg[i + 1] = EOL THEN <<>>
                         ELSE Append(Unfinished(s), msg[i + 1])
      /\ Lines(t) = IF msg[i + 1] = EOL /\ Unfinished(s) # <<>>
                    THEN Append(Lines(s), Unfinished(s)) ELSE Lines(s)
  BY <1>3, <1>5, UnfinishedAppend, LinesAppended, UnfinishedFacts
<1>8. /\ Lines(base) \in Seq(Seq(Bytes))
      /\ Unfinished(s) \in Seq(Bytes)
  BY <1>5, LinesFacts, UnfinishedFacts, TextIsBytes
<1> HIDE DEF next, piece, ended, s, t
<1>9. CASE msg[i + 1] # EOL
  <2>1. Piece(msg, next, i + 1) = piece \o <<msg[i + 1]>>
    <3>1. scan.lasti + 1 \in 1 .. Len(msg) /\ i + 1 \in scan.lasti + 1 .. Len(msg)
          /\ i + 1 - 1 = i
      BY <1>1, <1>3
    <3>2. SubSeq(msg, scan.lasti + 1, i + 1) =
              SubSeq(msg, scan.lasti + 1, i) \o <<msg[i + 1]>>
      <4> DEFINE m == scan.lasti + 1
                 n == i + 1
      <4>1. msg \in Seq(Bytes) /\ m \in 1 .. Len(msg) /\ n \in m .. Len(msg)
        BY <3>1
      <4>2. n - 1 = i
        BY <3>1
      <4> HIDE DEF m, n
      <4>3. SubSeq(msg, m, n) = SubSeq(msg, m, n - 1) \o <<msg[n]>>
        BY ONLY <4>1, SubSeqRecursiveSecond
      <4>4. SubSeq(msg, m, n) = SubSeq(msg, m, i) \o <<msg[n]>>
        BY <4>2, <4>3, Zenon
      <4>. QED
        BY <4>4 DEF m, n
    <3>3. Piece(msg, next, i + 1) = SubSeq(msg, scan.lasti + 1, i + 1)
      BY <1>2, <1>9 DEF Piece
    <3>. QED
      BY <3>1, <3>2, <3>3, Zenon DEF Piece, piece
  <2>2. msg[i + 1] \in Bytes /\ <<msg[i + 1]>> \in Seq(Bytes)
    BY <1>3, <1>9 DEF Bytes
  <2>3. Append(scan.split \o piece, msg[i + 1])
            = (scan.split \o piece) \o <<msg[i + 1]>>
    <3>1. scan.split \o piece \in Seq(Bytes)
      BY <1>1, <1>4, ConcatProperties
    <3>. QED
      BY <2>2, <3>1, AppendIsConcat
  <2>4. (scan.split \o piece) \o <<msg[i + 1]>>
            = scan.split \o (piece \o <<msg[i + 1]>>)
    <3>1. /\ scan.split \in Seq(Bytes) /\ piece \in Seq(Bytes)
          /\ <<msg[i + 1]>> \in Seq(Bytes)
      BY <1>1, <1>4, <2>2
    <3>2. Regroup(scan.split, piece, <<msg[i + 1]>>)
      BY ONLY <3>1, Regrouped, Zenon
    <3>. QED
      BY <3>2, Zenon DEF Regroup
  <2>5. Unfinished(t) = next.split \o Piece(msg, next, i + 1)
    BY <1>2, <1>6, <1>7, <1>9, <2>1, <2>3, <2>4
  <2>6. Lines(t) = Lines(base) \o next.lines
    BY <1>2, <1>6, <1>7, <1>9
  <2>7. next.split = IF next.lasti = 0 THEN split_buf ELSE <<>>
    BY <1>2, <1>6, <1>9
  <2>. QED
    BY <2>5, <2>6, <2>7 DEF ScanLines, next, t
<1>10. CASE msg[i + 1] = EOL
  <2>1. Piece(msg, next, i + 1) = <<>>
    <3>1. next.lasti + 1 \in Int /\ i + 1 \in Int /\ i + 1 < next.lasti + 1
      BY <1>2, <1>3, <1>10
    <3>. QED
      BY <3>1, SubSeqEmpty DEF Piece
  <2>2. next.split = <<>>
    <3>1. CASE scan.lasti # 0
      BY <1>2, <1>6, <1>10, <3>1
    <3>2. CASE scan.lasti = 0 /\ i > 0
      BY <1>2, <1>10, <3>2
    <3>3. CASE scan.lasti = 0 /\ i = 0
      <4>1. msg[1] = EOL
        BY <1>10, <3>3
      <4>. QED
        BY <1>2, <1>6, <1>10, <3>3, <4>1
    <3>. QED
      BY <1>1, <1>3, <3>1, <3>2, <3>3
  <2>3. next.split \o Piece(msg, next, i + 1) = <<>>
    BY <2>1, <2>2, EmptySeq, ConcatEmptySeq
  <2>4. next.lasti # 0
    BY <1>2, <1>3, <1>10
  <2>5. CASE i > scan.lasti
    <3>1. ended = scan.split \o piece
      BY <1>1, <1>4, <1>6, ConcatEmptySeq DEF ended
    <3>2. scan.split \o piece # <<>>
      <4>1. piece # <<>>
        BY <1>1, <1>3, <1>4, <2>5, EmptySeq
      <4>. QED
        BY <1>1, <1>4, <4>1, ConcatEqualIffEmpty
    <3>3. Lines(t) = Append(Lines(base) \o scan.lines, ended)
      BY <1>6, <1>7, <1>10, <3>1, <3>2
    <3>4. ended \in Seq(Bytes) /\ <<ended>> \in Seq(Seq(Bytes))
      BY <1>6, <1>8, <3>1
    <3>5. Append(Lines(base) \o scan.lines, ended)
              = (Lines(base) \o scan.lines) \o <<ended>>
      <4>1. Lines(base) \o scan.lines \in Seq(Seq(Bytes))
        BY <1>1, <1>8, ConcatProperties
      <4>. QED
        BY <3>4, <4>1, AppendIsConcat
    <3>6. (Lines(base) \o scan.lines) \o <<ended>>
              = Lines(base) \o (scan.lines \o <<ended>>)
      <4>1. /\ Lines(base) \in Seq(Seq(Bytes))
            /\ scan.lines \in Seq(Seq(Bytes)) /\ <<ended>> \in Seq(Seq(Bytes))
        BY <1>1, <1>8, <3>4
      <4>2. Regroup(Lines(base), scan.lines, <<ended>>)
        BY ONLY <4>1, Regrouped, Zenon
      <4>. QED
        BY <4>2, Zenon DEF Regroup
    <3>7. Append(scan.lines, ended) = scan.lines \o <<ended>>
      BY <1>1, <3>4, AppendIsConcat
    <3>8. Lines(t) = Lines(base) \o next.lines
      BY <1>2, <1>10, <2>5, <3>3, <3>5, <3>6, <3>7
    <3>. QED
      BY <1>7, <1>10, <2>2, <2>3, <2>4, <3>8 DEF ScanLines, next, t
  <2>6. CASE ~(i > scan.lasti)
    <3>1. piece = <<>>
      <4>1. Len(piece) = 0
        BY <1>1, <1>3, <1>4, <2>6
      <4>. QED
        BY <1>4, <4>1, EmptySeq
    <3>2. scan.split = <<>>
      BY <1>2, <1>10, <2>2, <2>6
    <3>3. Unfinished(s) = <<>>
      BY <1>6, <3>1, <3>2, EmptySeq, ConcatEmptySeq
    <3>4. Lines(t) = Lines(base) \o next.lines
      BY <1>2, <1>6, <1>7, <1>10, <2>6, <3>3
    <3>. QED
      BY <1>7, <1>10, <2>2, <2>3, <2>4, <3>4 DEF ScanLines, next, t
  <2>. QED
    BY <2>5, <2>6
<1>. QED
  BY <1>9, <1>10

LEMMA ScanLinesAlways ==
    ASSUME NEW base \in Seq(Bytes), NEW msg \in Seq(Bytes),
           Len(msg) <= MaxLine + 1,
           split_buf \in Seq(Bytes), Len(split_buf) <= MaxLine,
           split_buf = Unfinished(base), split_buf = <<>> \/ msg[1] # EOL
    PROVE  \A i \in 0 .. Len(msg) : ScanLines(base, msg, Scan(msg)[i], i)
<1> DEFINE N == {i \in Nat :
                     i <= Len(msg) => ScanLines(base, msg, Scan(msg)[i], i)}
<1>0. Len(msg) \in Nat
  BY LenProperties
<1>1. 0 \in N
  <2> DEFINE start == Scan(msg)[0]
  <2>1. /\ start.lasti = 0 /\ start.split = split_buf /\ start.lines = <<>>
    BY ScanSteps
  <2> HIDE DEF start
  <2>2. SubSeq(msg, 1, 0) = <<>> /\ Piece(msg, start, 0) = <<>>
    BY <2>1, SubSeqEmpty DEF Piece
  <2>3. base \o SubSeq(msg, 1, 0) = base
    BY <2>2, ConcatEmptySeq
  <2>4. Lines(base) \o <<>> = Lines(base)
    BY LinesFacts, ConcatEmptySeq
  <2>5. split_buf \o <<>> = split_buf
    BY ConcatEmptySeq
  <2>6. ScanLines(base, msg, start, 0)
    BY <2>1, <2>2, <2>3, <2>4, <2>5 DEF ScanLines
  <2>. QED
    BY <2>6 DEF start
<1>2. ASSUME NEW i \in Nat, i \in N PROVE i + 1 \in N
  <2>. SUFFICES ASSUME i + 1 <= Len(msg)
                PROVE  ScanLines(base, msg, Scan(msg)[i + 1], i + 1)
    OBVIOUS
  <2>1. /\ i \in 0 .. Len(msg) - 1 /\ i \in 0 .. Len(msg)
        /\ i + 1 \in 1 .. Len(msg) /\ i + 1 - 1 = i
    BY <1>0
  <2>2. Scan(msg)[i + 1] = ScanByte(msg, Scan(msg)[i], i)
    BY <2>1, ScanSteps
  <2>3. ScanLines(base, msg, Scan(msg)[i], i)
    BY <1>0, <1>2, <2>1
  <2>4. ScanTypes(msg, Scan(msg)[i], i)
    BY <2>1, ScanTypesAlways
  <2>. QED
    BY <2>1, <2>2, <2>3, <2>4, ScanLinesStep
<1> HIDE DEF N
<1>3. Nat \subseteq N
  BY <1>1, <1>2, SetInduction
<1>. QED
  BY <1>0, <1>3 DEF N

(* What is scanned of a chunk: all of it, if it is short enough.           *)
LEMMA ScannedFacts ==
    ASSUME NEW msg \in Seq(Bytes), Len(msg) > 0
    PROVE  /\ Scanned(msg) \in Seq(Bytes)
           /\ Len(Scanned(msg)) \in 1 .. MaxLine + 1
           /\ Len(Scanned(msg)) <= Len(msg)
           /\ \A i \in 1 .. Len(Scanned(msg)) : Scanned(msg)[i] = msg[i]
           /\ Len(msg) <= MaxLine + 1 => Scanned(msg) = msg
<1> DEFINE n == Min({Len(msg), MaxLine + 1})
<1>1. Len(msg) \in Nat /\ MaxLine \in Nat /\ \A i \in 1 .. Len(msg) : msg[i] \in Bytes
  BY StreamFacts, LineReassemblyAssumption
<1>2. n \in {Len(msg), MaxLine + 1} /\ n <= Len(msg) /\ n <= MaxLine + 1
  <2>1. {Len(msg), MaxLine + 1} \in SUBSET Nat /\ {Len(msg), MaxLine + 1} # {}
    BY <1>1
  <2>2. n \in {Len(msg), MaxLine + 1} /\ \A y \in {Len(msg), MaxLine + 1} : n <= y
    BY <2>1, MinFacts
  <2>. QED
    BY <2>2
<1>3. Scanned(msg) = SubSeq(msg, 1, n)
  BY DEF Scanned
<1> HIDE DEF n
<1>4. \A i \in 1 .. n : msg[i] \in Bytes
  BY <1>1, <1>2
<1>5. n \in Nat /\ n > 0
  BY <1>1, <1>2
<1>6. /\ SubSeq(msg, 1, n) \in Seq(Bytes)
      /\ Len(SubSeq(msg, 1, n)) = IF 1 <= n THEN n - 1 + 1 ELSE 0
      /\ \A i \in 1 .. n - 1 + 1 : SubSeq(msg, 1, n)[i] = msg[1 + i - 1]
  BY <1>4, <1>5, SubSeqProperties
<1>7. Len(msg) <= MaxLine + 1 => n = Len(msg)
  BY <1>1, <1>2
<1>8. SubSeq(msg, 1, Len(msg)) = msg
  BY SubSeqFull
<1>9. Len(Scanned(msg)) = n /\ n \in 1 .. MaxLine + 1
  BY <1>1, <1>2, <1>3, <1>5, <1>6
<1>10. \A i \in 1 .. n : Scanned(msg)[i] = msg[i]
  BY <1>3, <1>5, <1>6
<1>11. Len(msg) <= MaxLine + 1 => Scanned(msg) = msg
  BY <1>3, <1>7, <1>8
<1>12. Scanned(msg) \in Seq(Bytes) /\ Len(Scanned(msg)) <= Len(msg)
  BY <1>2, <1>3, <1>6, <1>9
<1>. QED
  BY <1>9, <1>10, <1>11, <1>12

(* What receive() does to a chunk: the buffers hold what is put in them,   *)
(* and nothing is kept of a chunk that ends with a terminator, if all of   *)
(* it is scanned.                                                          *)
LEMMA ChunkTypes ==
    ASSUME NEW msg \in Seq(Bytes), Len(msg) > 0,
           split_buf \in Seq(Bytes), Len(split_buf) <= MaxLine
    PROVE  LET scan == ScanChunk(Scanned(msg))
               rest == SubSeq(msg, scan.lasti + 1, Len(msg))
           IN  /\ scan.lines \in Seq(Seq(Bytes))
               /\ \A k \in 1 .. Len(scan.lines) :
                     Len(scan.lines[k]) \in 1 .. 2 * MaxLine
               /\ KeepRest(scan, rest) \in Seq(Bytes)
               /\ Len(KeepRest(scan, rest)) <= MaxLine
               /\ Len(msg) <= MaxLine + 1 /\ msg[Len(msg)] = EOL =>
                     KeepRest(scan, rest) = <<>>
<1> DEFINE seen == Scanned(msg)
           scan == ScanChunk(seen)
           rest == SubSeq(msg, scan.lasti + 1, Len(msg))
           n == Len(seen)
<1>0. /\ seen \in Seq(Bytes) /\ n \in 1 .. MaxLine + 1 /\ n <= Len(msg)
      /\ Len(msg) <= MaxLine + 1 => seen = msg
  BY ScannedFacts
<1>2. n \in Nat /\ n > 0 /\ MaxLine \in Nat \ {0} /\ Len(msg) \in Nat /\ n <= MaxLine + 1
  BY <1>0, LineReassemblyAssumption, LenProperties
<1> HIDE DEF seen
<1>1. ScanTypes(seen, scan, n)
  <2>1. \A i \in 0 .. Len(seen) : ScanTypes(seen, Scan(seen)[i], i)
    BY <1>0, <1>2, ScanTypesAlways
  <2>2. Len(seen) \in 0 .. Len(seen)
    BY <1>2
  <2>. QED
    BY <2>1, <2>2 DEF ScanChunk
<1> HIDE DEF scan, n
<1>3. /\ scan.lasti \in Nat /\ scan.split \in Seq(Bytes)
      /\ scan.lines \in Seq(Seq(Bytes)) /\ scan \in ScanRecords
      /\ \A k \in 1 .. Len(scan.lines) : Len(scan.lines[k]) \in 1 .. 2 * MaxLine
      /\ scan.lasti <= n /\ \A j \in scan.lasti + 1 .. n : seen[j] # EOL
      /\ scan.line_ends <=> scan.lasti = n
      /\ scan.split \in {split_buf, <<>>}
  BY <1>1, <1>2 DEF ScanTypes, ScanRecords
<1>4. rest \in Seq(Bytes)
  <2>1. \A j \in scan.lasti + 1 .. Len(msg) : msg[j] \in Bytes
    BY <1>2, <1>3, StreamFacts
  <2>. QED
    BY <1>2, <1>3, <2>1, SubSeqProperties
<1> HIDE DEF rest
<1>5. Len(scan.split) \in Nat /\ Len(rest) \in Nat /\ Len(<<>>) = 0
  BY <1>3, <1>4, EmptySeq, LenProperties
<1>6. /\ scan.split \o rest \in Seq(Bytes)
      /\ Len(scan.split \o rest) = Len(scan.split) + Len(rest)
  <2>1. Joins(Bytes, scan.split, rest)
    BY <1>3, <1>4, Joined, Zenon
  <2>. QED
    BY <2>1, Zenon DEF Joins
<1>7. /\ KeepRest(scan, rest) \in Seq(Bytes)
      /\ Len(KeepRest(scan, rest)) <= MaxLine
  <2>1. CASE scan.line_ends \/ Len(rest) > MaxLine - Len(scan.split)
    BY <1>2, <1>5, <2>1, EmptySeq DEF KeepRest
  <2>2. CASE ~(scan.line_ends \/ Len(rest) > MaxLine - Len(scan.split))
    BY <1>2, <1>5, <1>6, <2>2 DEF KeepRest
  <2>. QED
    BY <2>1, <2>2
<1>8. ASSUME Len(msg) <= MaxLine + 1, msg[Len(msg)] = EOL
      PROVE  KeepRest(scan, rest) = <<>>
  <2>1. seen[n] = EOL
    BY <1>0, <1>8 DEF n
  <2>2. scan.lasti = n
    BY <1>2, <1>3, <2>1
  <2>. QED
    BY <1>3, <2>2 DEF KeepRest
<1>. QED
  BY <1>3, <1>7, <1>8 DEF scan, rest, seen

LEMMA FitsBefore ==
    ASSUME NEW s \in Seq(Bytes), NEW e \in Bytes, Fits(Append(s, e))
    PROVE  Fits(s)
<1> DEFINE t == Append(s, e)
<1>1. /\ Unfinished(t) = IF e = EOL THEN <<>> ELSE Append(Unfinished(s), e)
      /\ Lines(t) = IF e = EOL /\ Unfinished(s) # <<>>
                    THEN Append(Lines(s), Unfinished(s)) ELSE Lines(s)
  BY UnfinishedAppend, LinesAppended, UnfinishedFacts
<1>2. /\ Lines(s) \in Seq(Seq(Text)) /\ Unfinished(s) \in Seq(Text)
      /\ MaxLine \in Nat
  BY LinesFacts, UnfinishedFacts, LineReassemblyAssumption
<1>3. /\ \A k \in DOMAIN Lines(t) : Len(Lines(t)[k]) <= MaxLine
      /\ Len(Unfinished(t)) <= MaxLine
  BY DEF Fits
<1> DEFINE l == Lines(s)
           u == Unfinished(s)
           m == Lines(t)
<1> HIDE DEF t, l, u, m
<1>4. CASE e = EOL /\ u # <<>>
  <2>1. m = Append(l, u) /\ l \in Seq(Seq(Text)) /\ u \in Seq(Text)
    BY <1>1, <1>2, <1>4 DEF l, u, m, t
  <2>2. /\ Append(l, u) \in Seq(Seq(Text)) /\ Len(Append(l, u)) = Len(l) + 1
        /\ \A k \in 1 .. Len(l) : Append(l, u)[k] = l[k]
        /\ Append(l, u)[Len(l) + 1] = u
    BY <2>1, AppendProperties
  <2>3. /\ DOMAIN m = 1 .. Len(l) + 1 /\ DOMAIN l = 1 .. Len(l)
        /\ Len(l) \in Nat
    BY <2>1, <2>2, LenProperties
  <2>4. \A k \in DOMAIN m : Len(m[k]) <= MaxLine
    BY <1>3 DEF m
  <2>5. ASSUME NEW k \in DOMAIN l PROVE Len(l[k]) <= MaxLine
    <3>1. k \in 1 .. Len(l) /\ k \in DOMAIN m
      BY <2>3
    <3>2. m[k] = l[k]
      BY <2>1, <2>2, <3>1
    <3>. QED
      BY <2>4, <3>1, <3>2
  <2>6. Len(u) <= MaxLine
    <3>1. Len(l) + 1 \in DOMAIN m
      BY <2>3
    <3>2. m[Len(l) + 1] = u
      BY <2>1, <2>2
    <3>. QED
      BY <2>4, <3>1, <3>2
  <2>. QED
    BY <2>5, <2>6 DEF Fits, l, u
<1>5. CASE ~(e = EOL /\ u # <<>>)
  <2>1. m = l
    BY <1>1, <1>5 DEF l, m, t, u
  <2>2. Len(u) <= MaxLine
    <3>1. CASE e = EOL
      BY <1>2, <1>5, <3>1, EmptySeq
    <3>2. CASE e # EOL
      <4>1. e \in Text /\ u \in Seq(Text)
        BY <1>2, <3>2 DEF Bytes, u
      <4>2. Len(Append(u, e)) = Len(u) + 1 /\ Len(u) \in Nat
        BY <4>1, AppendProperties, LenProperties
      <4>3. Len(Append(u, e)) <= MaxLine
        BY <1>1, <1>3, <3>2 DEF t, u
      <4>. QED
        BY <1>2, <4>2, <4>3
    <3>. QED
      BY <3>1, <3>2
  <2>. QED
    BY <1>3, <2>1, <2>2 DEF Fits, l, u, m
<1>. QED
  BY <1>4, <1>5

LEMMA FitsEarlier ==
    ASSUME NEW base \in Seq(Bytes), NEW msg \in Seq(Bytes), Fits(base \o msg)
    PROVE  Fits(base)
<1> DEFINE N == {i \in Nat : i <= Len(msg) =>
                     (Fits(base \o SubSeq(msg, 1, i)) => Fits(base))}
<1>0. Len(msg) \in Nat
  BY LenProperties
<1>1. 0 \in N
  <2>1. SubSeq(msg, 1, 0) = <<>>
    BY SubSeqEmpty
  <2>2. base \o SubSeq(msg, 1, 0) = base
    BY <2>1, ConcatEmptySeq
  <2>. QED
    BY <2>2
<1>2. ASSUME NEW i \in Nat, i \in N PROVE i + 1 \in N
  <2>. SUFFICES ASSUME i + 1 <= Len(msg), Fits(base \o SubSeq(msg, 1, i + 1))
                PROVE  Fits(base)
    OBVIOUS
  <2>1. i \in 0 .. Len(msg) - 1 /\ i <= Len(msg) /\ i + 1 \in 1 .. Len(msg)
    BY <1>0
  <2>2. /\ base \o SubSeq(msg, 1, i) \in Seq(Bytes)
        /\ base \o SubSeq(msg, 1, i + 1) =
               Append(base \o SubSeq(msg, 1, i), msg[i + 1])
    BY <2>1, PrefixAppend
  <2>3. msg[i + 1] \in Bytes
    BY <2>1, StreamFacts
  <2>4. Fits(Append(base \o SubSeq(msg, 1, i), msg[i + 1]))
    BY <2>2, Zenon
  <2>5. Fits(base \o SubSeq(msg, 1, i))
    BY <2>2, <2>3, <2>4, FitsBefore
  <2>. QED
    BY <1>2, <2>1, <2>5
<1> HIDE DEF N
<1>3. Nat \subseteq N
  BY <1>1, <1>2, SetInduction
<1>4. SubSeq(msg, 1, Len(msg)) = msg
  BY SubSeqFull
<1>5. Len(msg) \in N /\ Len(msg) <= Len(msg)
  BY <1>0, <1>3
<1>. QED
  BY <1>4, <1>5 DEF N

(* A chunk that does not tear a line: its lines are those the stream grows *)
(* by, and what is kept is its unfinished line, if that fits.              *)
LEMMA ChunkLines ==
    ASSUME NEW base \in Seq(Bytes), NEW msg \in Seq(Bytes),
           Len(msg) \in 1 .. MaxLine + 1,
           split_buf \in Seq(Bytes), Len(split_buf) <= MaxLine,
           split_buf = Unfinished(base), split_buf = <<>> \/ msg[1] # EOL
    PROVE  LET scan == ScanChunk(msg)
               rest == SubSeq(msg, scan.lasti + 1, Len(msg))
           IN  /\ Lines(base \o msg) = Lines(base) \o scan.lines
               /\ Len(Unfinished(base \o msg)) <= MaxLine =>
                      KeepRest(scan, rest) = Unfinished(base \o msg)
<1> DEFINE scan == ScanChunk(msg)
           rest == SubSeq(msg, scan.lasti + 1, Len(msg))
           n == Len(msg)
<1>1. n \in Nat /\ n > 0 /\ n <= MaxLine + 1 /\ n \in 0 .. Len(msg) /\ MaxLine \in Nat
  BY LineReassemblyAssumption, LenProperties
<1>2. ScanTypes(msg, scan, n)
  BY <1>1, ScanTypesAlways DEF ScanChunk
<1>3. ScanLines(base, msg, scan, n)
  BY <1>1, ScanLinesAlways DEF ScanChunk
<1>4. SubSeq(msg, 1, n) = msg
  BY SubSeqFull
<1>5. Piece(msg, scan, n) = rest
  BY DEF Piece
<1> HIDE DEF scan, rest, n
<1>6. /\ Lines(base \o msg) = Lines(base) \o scan.lines
      /\ Unfinished(base \o msg) = scan.split \o rest
      /\ scan.split = IF scan.lasti = 0 THEN split_buf ELSE <<>>
  BY <1>3, <1>4, <1>5 DEF ScanLines
<1>7. /\ scan.lasti \in Nat /\ scan.split \in Seq(Bytes) /\ scan \in ScanRecords
      /\ scan.lasti <= n /\ \A j \in scan.lasti + 1 .. n : msg[j] # EOL
      /\ scan.line_ends <=> scan.lasti = n
  BY <1>1, <1>2 DEF ScanTypes, ScanRecords
<1>8. rest \in Seq(Bytes) /\ Len(rest) = n - scan.lasti
  BY <1>1, <1>5, <1>7, PieceFacts
<1>9. Joins(Bytes, scan.split, rest)
  BY <1>7, <1>8, Joined, Zenon
<1>10. ASSUME Len(Unfinished(base \o msg)) <= MaxLine
       PROVE  KeepRest(scan, rest) = Unfinished(base \o msg)
  <2>1. Len(scan.split \o rest) <= MaxLine
    BY <1>6, <1>10
  <2>2. /\ Len(scan.split \o rest) = Len(scan.split) + Len(rest)
        /\ Len(scan.split) \in Nat /\ Len(rest) \in Nat
    BY <1>7, <1>8, <1>9, LenProperties DEF Joins
  <2>3. ~(Len(rest) > MaxLine - Len(scan.split))
    BY <1>1, <2>1, <2>2
  <2>4. CASE scan.line_ends
    <3>1. scan.lasti = n /\ scan.split = <<>>
      BY <1>1, <1>6, <1>7, <2>4
    <3>2. Len(rest) = 0
      BY <1>1, <1>8, <3>1
    <3>3. rest = <<>>
      BY <1>8, <3>2, EmptySeq
    <3>4. scan.split \o rest = <<>>
      BY <3>1, <3>3, EmptySeq, ConcatEmptySeq
    <3>. QED
      BY <1>6, <2>4, <3>4 DEF KeepRest
  <2>5. CASE ~scan.line_ends
    BY <1>6, <2>3, <2>5 DEF KeepRest
  <2>. QED
    BY <2>4, <2>5
<1>. QED
  BY <1>6, <1>10 DEF scan, rest, n

-----------------------------------------------------------------------------
(* Sequences of sequences put together, and texts without some bytes.      *)
(* FlattenSeq() of the community modules is a recursive function.          *)
Flat(seqs, f, i) == IF i = 1 THEN seqs[i] ELSE f[i - 1] \o seqs[i]

IsFlat(seqs, f, n) == f = [i \in 1 .. n |-> Flat(seqs, f, i)]

LEMMA FlatExists ==
    ASSUME NEW seqs, NEW n \in Nat
    PROVE  \E f : IsFlat(seqs, f, n)
<1> DEFINE N == {m \in Nat : \E f : IsFlat(seqs, f, m)}
<1>1. 0 \in N
  <2> DEFINE f == [i \in 1 .. 0 |-> i]
  <2>1. f = [i \in 1 .. 0 |-> Flat(seqs, f, i)]
    OBVIOUS
  <2>2. IsFlat(seqs, f, 0)
    BY <2>1 DEF IsFlat
  <2> HIDE DEF f
  <2>. QED
    BY <2>2
<1>2. ASSUME NEW m \in Nat, m \in N PROVE m + 1 \in N
  <2>1. PICK f : IsFlat(seqs, f, m)
    BY <1>2
  <2> DEFINE g == [i \in 1 .. m + 1 |-> IF i = m + 1 THEN Flat(seqs, f, i)
                                        ELSE f[i]]
  <2>2. \A i \in 1 .. m : g[i] = f[i] /\ f[i] = Flat(seqs, f, i)
    BY <2>1 DEF IsFlat
  <2>3. g[m + 1] = Flat(seqs, f, m + 1)
    OBVIOUS
  <2>4. g = [i \in 1 .. m + 1 |-> g[i]]
    OBVIOUS
  <2> HIDE DEF g
  <2>5. ASSUME NEW i \in 1 .. m + 1 PROVE g[i] = Flat(seqs, g, i)
    <3>1. i # 1 => g[i - 1] = f[i - 1]
      <4>1. i # 1 => i - 1 \in 1 .. m
        OBVIOUS
      <4>. QED
        BY <2>2, <4>1
    <3>2. Flat(seqs, g, i) = Flat(seqs, f, i)
      BY <3>1 DEF Flat
    <3>3. g[i] = Flat(seqs, f, i)
      BY <2>2, <2>3
    <3>. QED
      BY <3>2, <3>3
  <2>6. IsFlat(seqs, g, m + 1)
    BY <2>4, <2>5 DEF IsFlat
  <2>. QED
    BY <2>6
<1> HIDE DEF N
<1>3. Nat \subseteq N
  BY <1>1, <1>2, SetInduction
<1>. QED
  BY <1>3 DEF N

LEMMA FlatAppend ==
    ASSUME NEW A, NEW s \in Seq(Seq(A)), NEW e \in Seq(A)
    PROVE  FlattenSeq(Append(s, e)) =
               IF s = <<>> THEN e ELSE FlattenSeq(s) \o e
<1> DEFINE t == Append(s, e)
           n == Len(s)
           f == CHOOSE h : IsFlat(s, h, n)
           g == CHOOSE h : IsFlat(t, h, n + 1)
<1>1. /\ n \in Nat /\ Len(t) = n + 1 /\ t \in Seq(Seq(A))
      /\ \A i \in 1 .. n : t[i] = s[i] 
      /\ t[n + 1] = e
  BY AppendProperties, LenProperties
<1> HIDE DEF t
<1>2. FlattenSeq(t) = g[n + 1]
  <2>1. ~(Len(t) = 0)
    BY <1>1
  <2>2. FlattenSeq(t) = (CHOOSE h : IsFlat(t, h, Len(t)))[Len(t)]
    BY <2>1 DEF FlattenSeq, IsFlat, Flat
  <2>. QED
    BY <1>1, <2>2
<1>3. IsFlat(t, g, n + 1)
  <2>1. n + 1 \in Nat
    BY <1>1
  <2>2. \E h : IsFlat(t, h, n + 1)
    BY <2>1, FlatExists
  <2>. QED
    BY <2>2
<1>4. IsFlat(s, f, n)
  <2> HIDE DEF n
  <2>1. \E h : IsFlat(s, h, n)
    BY <1>1, FlatExists
  <2>. QED
    BY <2>1
<1>5. n # 0 => FlattenSeq(s) = f[n]
  BY DEF FlattenSeq, IsFlat, Flat
<1>6. n = 0 <=> s = <<>>
  BY EmptySeq
<1> HIDE DEF f, g, n
<1>7. /\ \A i \in 1 .. n + 1 : g[i] = Flat(t, g, i)
      /\ \A i \in 1 .. n : f[i] = Flat(s, f, i)
  BY <1>3, <1>4 DEF IsFlat
<1> DEFINE N == {m \in Nat : m + 1 <= n => g[m + 1] = f[m + 1]}
<1>8. 0 \in N
  BY <1>1, <1>7 DEF Flat
<1>9. ASSUME NEW m \in Nat, m \in N PROVE m + 1 \in N
  <2>. SUFFICES ASSUME m + 1 + 1 <= n PROVE g[m + 1 + 1] = f[m + 1 + 1]
    OBVIOUS
  <2> DEFINE k == m + 1 + 1
  <2>1. k \in 1 .. n /\ k \in 1 .. n + 1 /\ k # 1 /\ k - 1 = m + 1 /\ m + 1 <= n
    BY <1>1
  <2>2. g[m + 1] = f[m + 1]
    BY <1>9, <2>1
  <2> HIDE DEF k
  <2>3. g[k - 1] = f[k - 1]
    BY <2>1, <2>2
  <2>4. t[k] = s[k]
    BY <1>1, <2>1
  <2>5. g[k] = g[k - 1] \o t[k] /\ f[k] = f[k - 1] \o s[k]
    BY <1>7, <2>1 DEF Flat
  <2>6. g[k] = f[k]
    BY <2>3, <2>4, <2>5
  <2>. QED
    BY <2>6 DEF k
<1> HIDE DEF N
<1>10. Nat \subseteq N
  BY <1>8, <1>9, SetInduction
<1>11. CASE n = 0
  <2>1. g[n + 1] = t[n + 1]
    BY <1>7, <1>11 DEF Flat
  <2>. QED
    BY <1>1, <1>2, <1>6, <1>11, <2>1 DEF t
<1>12. CASE n # 0
  <2>1. n - 1 \in N /\ n - 1 + 1 = n /\ n <= n
    BY <1>1, <1>10, <1>12
  <2>2. g[n] = f[n]
    BY <2>1 DEF N
  <2> DEFINE k == n + 1
  <2>3. k \in 1 .. n + 1 /\ k # 1 /\ k - 1 = n
    BY <1>1, <1>12
  <2> HIDE DEF k
  <2>4. g[k] = g[k - 1] \o t[k]
    BY <1>7, <2>3 DEF Flat
  <2>5. g[k] = f[n] \o t[k]
    BY <2>2, <2>3, <2>4
  <2>. QED
    BY <1>1, <1>2, <1>5, <1>6, <1>12, <2>5 DEF t, k
<1>. QED
  BY <1>11, <1>12

LEMMA FlatNothing == FlattenSeq(<<>>) = <<>>
BY DEF FlattenSeq

LEMMA FlatTypes ==
    ASSUME NEW A PROVE \A s \in Seq(Seq(A)) : FlattenSeq(s) \in Seq(A)
<1> DEFINE P == {s \in Seq(Seq(A)) : FlattenSeq(s) \in Seq(A)}
<1>1. <<>> \in P
  BY FlatNothing, EmptySeq
<1>2. ASSUME NEW s \in Seq(Seq(A)), NEW e \in Seq(A), s \in P
      PROVE  Append(s, e) \in P
  <2>1. Append(s, e) \in Seq(Seq(A))
    BY AppendProperties
  <2>2. FlattenSeq(s) \o e \in Seq(A)
    BY <1>2, ConcatProperties
  <2>. QED
    BY <2>1, <2>2, FlatAppend
<1> HIDE DEF P
<1>3. Seq(Seq(A)) \subseteq P
  BY <1>1, <1>2, SeqInduction
<1>. QED
  BY <1>3 DEF P

(* The same without the exception.                                         *)
LEMMA FlatAppended ==
    ASSUME NEW A, NEW s \in Seq(Seq(A)), NEW e \in Seq(A)
    PROVE  FlattenSeq(Append(s, e)) = FlattenSeq(s) \o e
<1>1. <<>> \o e = e
  BY ConcatEmptySeq
<1>. QED
  BY <1>1, FlatAppend, FlatNothing

LEMMA FlatConcat ==
    ASSUME NEW A, NEW s \in Seq(Seq(A))
    PROVE  \A t \in Seq(Seq(A)) :
               FlattenSeq(s \o t) = FlattenSeq(s) \o FlattenSeq(t)
<1> DEFINE P == {t \in Seq(Seq(A)) :
                    FlattenSeq(s \o t) = FlattenSeq(s) \o FlattenSeq(t)}
<1>0. FlattenSeq(s) \in Seq(A)
  BY FlatTypes
<1>1. <<>> \in P
  <2>1. s \o <<>> = s /\ FlattenSeq(s) \o <<>> = FlattenSeq(s)
    BY <1>0, ConcatEmptySeq
  <2>. QED
    BY <2>1, FlatNothing, EmptySeq
<1>2. ASSUME NEW t \in Seq(Seq(A)), NEW e \in Seq(A), t \in P
      PROVE  Append(t, e) \in P
  <2>1. /\ Append(t, e) \in Seq(Seq(A)) /\ s \o t \in Seq(Seq(A))
        /\ FlattenSeq(t) \in Seq(A) /\ <<e>> \in Seq(Seq(A))
    BY AppendProperties, ConcatProperties, FlatTypes
  <2>2. s \o Append(t, e) = Append(s \o t, e)
    <3>1. Append(t, e) = t \o <<e>> /\ Append(s \o t, e) = (s \o t) \o <<e>>
      BY <2>1, AppendIsConcat
    <3>2. Regroup(s, t, <<e>>)
      BY <2>1, Regrouped, Zenon
    <3>. QED
      BY <3>1, <3>2, Zenon DEF Regroup
  <2>3. FlattenSeq(Append(s \o t, e)) = FlattenSeq(s \o t) \o e
    BY <2>1, FlatAppended
  <2>4. FlattenSeq(Append(t, e)) = FlattenSeq(t) \o e
    BY FlatAppended
  <2>5. Regroup(FlattenSeq(s), FlattenSeq(t), e)
    BY <1>0, <2>1, Regrouped, Zenon
  <2>6. FlattenSeq(s \o t) = FlattenSeq(s) \o FlattenSeq(t)
    BY <1>2
  <2>7. FlattenSeq(s \o Append(t, e)) = FlattenSeq(s) \o FlattenSeq(Append(t, e))
    BY <2>2, <2>3, <2>4, <2>5, <2>6, Zenon DEF Regroup
  <2>. QED
    BY <2>1, <2>7
<1> HIDE DEF P
<1>3. Seq(Seq(A)) \subseteq P
  BY <1>1, <1>2, SeqInduction
<1>. QED
  BY <1>3 DEF P

LEMMA FlatOne == ASSUME NEW e PROVE FlattenSeq(<<e>>) = e
<1> DEFINE s == <<e>>
           f == CHOOSE h : IsFlat(s, h, 1)
<1>1. Len(s) = 1 /\ s[1] = e
  OBVIOUS
<1> HIDE DEF s
<1>2. FlattenSeq(s) = f[1]
  BY <1>1 DEF FlattenSeq, IsFlat, Flat
<1>3. IsFlat(s, f, 1)
  BY FlatExists
<1> HIDE DEF f
<1>4. f[1] = Flat(s, f, 1)
  BY <1>3 DEF IsFlat
<1>. QED
  BY <1>1, <1>2, <1>4 DEF Flat, s

(* What a byte adds, what two texts put together keep.                     *)
One(e, dropped) == IF e \in dropped THEN <<>> ELSE <<e>>

LEMMA WithoutAppend ==
    ASSUME NEW A, NEW D, NEW s \in Seq(A), NEW e \in A
    PROVE  Without(Append(s, e), D) = Without(s, D) \o One(e, D)
<1> DEFINE t == Append(s, e)
           p == [i \in DOMAIN s |-> IF s[i] \in D THEN <<>> ELSE <<s[i]>>]
           q == [i \in DOMAIN t |-> IF t[i] \in D THEN <<>> ELSE <<t[i]>>]
           o == One(e, D)
<1>1. /\ t \in Seq(A) /\ Len(t) = Len(s) + 1 /\ Len(s) \in Nat
      /\ \A i \in 1 .. Len(s) : t[i] = s[i]
      /\ t[Len(s) + 1] = e
      /\ DOMAIN s = 1 .. Len(s) /\ DOMAIN t = 1 .. Len(s) + 1
  BY AppendProperties, LenProperties
<1>2. \A a \in A : One(a, D) \in Seq(A)
  BY DEF One
<1>3. \A i \in 1 .. Len(s) : s[i] \in A
  BY ElementOfSeq
<1> HIDE DEF t
<1>4. /\ p = [i \in 1 .. Len(s) |-> One(s[i], D)]
      /\ q = [i \in 1 .. Len(s) + 1 |-> One(t[i], D)]
  BY <1>1, Zenon DEF One
<1>5. /\ Without(s, D) = FlattenSeq(p) /\ Without(t, D) = FlattenSeq(q)
  BY DEF Without
<1> HIDE DEF p, q, o
<1>6. p \in Seq(Seq(A)) /\ Len(p) = Len(s)
  <2>1. p \in [1 .. Len(s) -> Seq(A)]
    BY <1>2, <1>3, <1>4
  <2>. QED
    BY <1>1, <2>1, LenProperties
<1>7. o \in Seq(A)
  BY <1>2 DEF o
<1>8. q = Append(p, o)
  <2> DEFINE r == Append(p, o)
  <2>1. /\ Len(r) = Len(p) + 1 /\ r \in Seq(Seq(A))
        /\ \A i \in 1 .. Len(p) : r[i] = p[i]
        /\ r[Len(p) + 1] = o
    BY <1>6, <1>7, AppendProperties
  <2> HIDE DEF r
  <2>2. r = [i \in 1 .. Len(s) + 1 |-> r[i]]
    BY <1>6, <2>1
  <2>3. \A i \in 1 .. Len(s) : One(t[i], D) = r[i]
    BY <1>1, <1>4, <1>6, <2>1
  <2>4. One(t[Len(s) + 1], D) = r[Len(s) + 1]
    BY <1>1, <1>6, <2>1 DEF o
  <2>5. \A i \in 1 .. Len(s) + 1 : One(t[i], D) = r[i]
    <3>1. \A i \in 1 .. Len(s) + 1 : i \in 1 .. Len(s) \/ i = Len(s) + 1
      BY <1>1
    <3>. QED
      BY <2>3, <2>4, <3>1
  <2>6. q = r
    BY <1>4, <2>2, <2>5
  <2>. QED
    BY <2>6 DEF r
<1>. QED
  BY <1>5, <1>6, <1>7, <1>8, FlatAppended DEF t, o

LEMMA WithoutNothing == \A D : Without(<<>>, D) = <<>>
<1>1. ASSUME NEW D PROVE Without(<<>>, D) = <<>>
  <2> DEFINE p == [i \in DOMAIN <<>> |-> IF <<>>[i] \in D THEN <<>>
                                         ELSE << <<>>[i] >>]
  <2>1. p = <<>>
    OBVIOUS
  <2> HIDE DEF p
  <2>2. FlattenSeq(p) = <<>>
    BY <2>1, FlatNothing
  <2>. QED
    BY <2>2 DEF Without, p
<1>. QED
  BY <1>1

LEMMA WithoutTypes ==
    ASSUME NEW A, NEW D PROVE \A s \in Seq(A) : Without(s, D) \in Seq(A)
<1> DEFINE P == {s \in Seq(A) : Without(s, D) \in Seq(A)}
<1>1. <<>> \in P
  BY WithoutNothing, EmptySeq
<1>2. ASSUME NEW s \in Seq(A), NEW e \in A, s \in P PROVE Append(s, e) \in P
  <2>1. One(e, D) \in Seq(A)
    BY DEF One
  <2>2. Without(s, D) \o One(e, D) \in Seq(A)
    BY <1>2, <2>1, ConcatProperties
  <2>3. Append(s, e) \in Seq(A)
    BY AppendProperties
  <2>. QED
    BY <2>2, <2>3, WithoutAppend
<1> HIDE DEF P
<1>3. Seq(A) \subseteq P
  BY <1>1, <1>2, SeqInduction
<1>. QED
  BY <1>3 DEF P

LEMMA WithoutConcat ==
    ASSUME NEW A, NEW D, NEW s \in Seq(A)
    PROVE  \A t \in Seq(A) : Without(s \o t, D) = Without(s, D) \o Without(t, D)
<1> DEFINE P == {t \in Seq(A) :
                    Without(s \o t, D) = Without(s, D) \o Without(t, D)}
<1>0. Without(s, D) \in Seq(A)
  BY WithoutTypes
<1>1. <<>> \in P
  <2>1. s \o <<>> = s /\ Without(s, D) \o <<>> = Without(s, D)
    BY <1>0, ConcatEmptySeq
  <2>. QED
    BY <2>1, WithoutNothing, EmptySeq
<1>2. ASSUME NEW t \in Seq(A), NEW e \in A, t \in P PROVE Append(t, e) \in P
  <2>1. /\ Append(t, e) \in Seq(A) /\ s \o t \in Seq(A)
        /\ Without(t, D) \in Seq(A) /\ <<e>> \in Seq(A)
    BY AppendProperties, ConcatProperties, WithoutTypes
  <2>2. One(e, D) \in Seq(A)
    BY DEF One
  <2>3. s \o Append(t, e) = Append(s \o t, e)
    <3>1. Append(t, e) = t \o <<e>> /\ Append(s \o t, e) = (s \o t) \o <<e>>
      BY <2>1, AppendIsConcat
    <3>2. Regroup(s, t, <<e>>)
      BY <2>1, Regrouped, Zenon
    <3>. QED
      BY <3>1, <3>2, Zenon DEF Regroup
  <2>4. Without(Append(s \o t, e), D) = Without(s \o t, D) \o One(e, D)
    BY <2>1, WithoutAppend
  <2>5. Without(Append(t, e), D) = Without(t, D) \o One(e, D)
    BY WithoutAppend
  <2>6. Regroup(Without(s, D), Without(t, D), One(e, D))
    BY <1>0, <2>1, <2>2, Regrouped, Zenon
  <2>7. Without(s \o t, D) = Without(s, D) \o Without(t, D)
    BY <1>2
  <2>8. Without(s \o Append(t, e), D) = Without(s, D) \o Without(Append(t, e), D)
    BY <2>3, <2>4, <2>5, <2>6, <2>7, Zenon DEF Regroup
  <2>. QED
    BY <2>1, <2>8
<1> HIDE DEF P
<1>3. Seq(A) \subseteq P
  BY <1>1, <1>2, SeqInduction
<1>. QED
  BY <1>3 DEF P

LEMMA WithoutSome ==
    ASSUME NEW A, NEW D
    PROVE  \A s \in Seq(A) :
              /\ (\A i \in 1 .. Len(s) : s[i] \notin D) => Without(s, D) = s
              /\ (\A i \in 1 .. Len(s) : s[i] \in D) => Without(s, D) = <<>>
<1> DEFINE P == {s \in Seq(A) :
              /\ (\A i \in 1 .. Len(s) : s[i] \notin D) => Without(s, D) = s
              /\ (\A i \in 1 .. Len(s) : s[i] \in D) => Without(s, D) = <<>>}
<1>1. <<>> \in P
  BY WithoutNothing, EmptySeq
<1>2. ASSUME NEW s \in Seq(A), NEW e \in A, s \in P PROVE Append(s, e) \in P
  <2> DEFINE t == Append(s, e)
  <2>1. /\ t \in Seq(A) /\ Len(t) = Len(s) + 1 /\ Len(s) \in Nat
        /\ \A i \in 1 .. Len(s) : t[i] = s[i]
        /\ t[Len(s) + 1] = e
    BY AppendProperties, LenProperties
  <2>2. Without(t, D) = Without(s, D) \o One(e, D)
    BY WithoutAppend
  <2>3. t = s \o <<e>>
    BY AppendIsConcat
  <2>4. <<>> \o <<>> = <<>>
    BY EmptySeq, ConcatEmptySeq
  <2> HIDE DEF t
  <2>5. ASSUME \A i \in 1 .. Len(t) : t[i] \notin D PROVE Without(t, D) = t
    <3>1. e \notin D
      BY <2>1, <2>5
    <3>2. Without(s, D) = s
      BY <1>2, <2>1, <2>5
    <3>. QED
      BY <2>2, <2>3, <3>1, <3>2 DEF One
  <2>6. ASSUME \A i \in 1 .. Len(t) : t[i] \in D PROVE Without(t, D) = <<>>
    <3>1. e \in D
      BY <2>1, <2>6
    <3>2. Without(s, D) = <<>>
      BY <1>2, <2>1, <2>6
    <3>. QED
      BY <2>2, <2>4, <3>1, <3>2 DEF One
  <2>7. t \in P
    BY <2>1, <2>5, <2>6
  <2>. QED
    BY <2>7 DEF t
<1> HIDE DEF P
<1>3. Seq(A) \subseteq P
  BY <1>1, <1>2, SeqInduction
<1>. QED
  BY <1>3 DEF P

-----------------------------------------------------------------------------
(* What idle_connection_ntoh() makes of a chunk.                           *)
Lost == {"lead", "cont", "?"}

LEMMA Images ==
    /\ \A b \in Wire : InUtf8(b) \in Seq(Bytes) /\ Len(InUtf8(b)) > 0
    /\ InUtf8(EOL) = <<EOL>>
    /\ \A b \in Wire : Without(InUtf8(b), Lost) = One(b, High)
    /\ \A b \in Wire : /\ InAscii(b) \in Bytes
                       /\ One(InAscii(b), Lost) = One(b, High)
<1>1. /\ EOL \notin High \cup {"?"} /\ Letters \cap (High \cup {"?"}) = {}
      /\ EOL \in Wire /\ EOL \in Bytes
  BY LineReassemblyAssumption DEF Wire, Bytes
<1>2. \A b \in Wire : b # "wide" => b \in Bytes
  BY DEF Wire, High, Bytes, Text
<1>3. "lead" \in Bytes /\ "cont" \in Bytes /\ "?" \in Bytes
  BY DEF Bytes, Text
<1>4. \A b \in Wire \ High : b \notin Lost /\ b # "wide"
  BY <1>1 DEF Wire, High, Lost
<1>5. \A b \in Wire : InUtf8(b) \in Seq(Bytes) /\ Len(InUtf8(b)) > 0
  BY <1>2, <1>3 DEF InUtf8
<1>6. InUtf8(EOL) = <<EOL>>
  BY <1>1 DEF InUtf8, High
<1>7. ASSUME NEW b \in Wire PROVE Without(InUtf8(b), Lost) = One(b, High)
  <2> DEFINE u == InUtf8(b)
  <2>1. u \in Seq(Bytes)
    BY <1>5
  <2>2. CASE b \in High
    <3>1. \A i \in 1 .. Len(u) : u[i] \in Lost
      BY <2>2 DEF InUtf8, High, Lost
    <3> HIDE DEF u
    <3>2. Without(u, Lost) = <<>>
      BY <2>1, <3>1, WithoutSome
    <3>. QED
      BY <2>2, <3>2 DEF One, u
  <2>3. CASE b \notin High
    <3>1. u = <<b>> /\ b \notin Lost
      BY <1>4, <2>3 DEF InUtf8
    <3>2. \A i \in 1 .. Len(u) : u[i] \notin Lost
      BY <3>1
    <3> HIDE DEF u
    <3>3. Without(u, Lost) = u
      BY <2>1, <3>2, WithoutSome
    <3>. QED
      BY <2>3, <3>1, <3>3 DEF One, u
  <2>. QED
    BY <2>2, <2>3
<1>8. ASSUME NEW b \in Wire
      PROVE  InAscii(b) \in Bytes /\ One(InAscii(b), Lost) = One(b, High)
  <2>1. CASE b \in High
    BY <1>3, <2>1 DEF InAscii, One, Lost
  <2>2. CASE b \notin High
    <3>1. b \in Bytes /\ b \notin Lost
      BY <1>2, <1>4, <2>2
    <3>. QED
      BY <2>2, <3>1 DEF InAscii, One
  <2>. QED
    BY <2>1, <2>2
<1>. QED
  BY <1>5, <1>6, <1>7, <1>8

LEMMA Utf8Append ==
    ASSUME NEW s \in Seq(Wire), NEW e \in Wire
    PROVE  Utf8(Append(s, e)) = Utf8(s) \o InUtf8(e)
<1> DEFINE t == Append(s, e)
           p == [i \in DOMAIN s |-> InUtf8(s[i])]
           q == [i \in DOMAIN t |-> InUtf8(t[i])]
           o == InUtf8(e)
<1>1. /\ t \in Seq(Wire) /\ Len(t) = Len(s) + 1 /\ Len(s) \in Nat
      /\ \A i \in 1 .. Len(s) : t[i] = s[i]
      /\ t[Len(s) + 1] = e
      /\ DOMAIN s = 1 .. Len(s) /\ DOMAIN t = 1 .. Len(s) + 1
  BY AppendProperties, LenProperties
<1>2. \A b \in Wire : InUtf8(b) \in Seq(Bytes)
  BY Images
<1>3. \A i \in 1 .. Len(s) : s[i] \in Wire
  BY ElementOfSeq
<1> HIDE DEF t
<1>4. /\ p = [i \in 1 .. Len(s) |-> InUtf8(s[i])]
      /\ q = [i \in 1 .. Len(s) + 1 |-> InUtf8(t[i])]
  BY <1>1, Zenon
<1>5. /\ Utf8(s) = FlattenSeq(p) /\ Utf8(t) = FlattenSeq(q)
  BY DEF Utf8
<1> HIDE DEF p, q, o
<1>6. p \in Seq(Seq(Bytes)) /\ Len(p) = Len(s)
  <2>1. p \in [1 .. Len(s) -> Seq(Bytes)]
    BY <1>2, <1>3, <1>4
  <2>. QED
    BY <1>1, <2>1, LenProperties
<1>7. o \in Seq(Bytes)
  BY <1>2 DEF o
<1>8. q = Append(p, o)
  <2> DEFINE r == Append(p, o)
  <2>1. /\ Len(r) = Len(p) + 1 /\ r \in Seq(Seq(Bytes))
        /\ \A i \in 1 .. Len(p) : r[i] = p[i]
        /\ r[Len(p) + 1] = o
    BY <1>6, <1>7, AppendProperties
  <2> HIDE DEF r
  <2>2. r = [i \in 1 .. Len(s) + 1 |-> r[i]]
    BY <1>6, <2>1
  <2>3. \A i \in 1 .. Len(s) : InUtf8(t[i]) = r[i]
    BY <1>1, <1>4, <1>6, <2>1
  <2>4. InUtf8(t[Len(s) + 1]) = r[Len(s) + 1]
    BY <1>1, <1>6, <2>1 DEF o
  <2>5. \A i \in 1 .. Len(s) + 1 : InUtf8(t[i]) = r[i]
    <3>1. \A i \in 1 .. Len(s) + 1 : i \in 1 .. Len(s) \/ i = Len(s) + 1
      BY <1>1
    <3>. QED
      BY <2>3, <2>4, <3>1
  <2>6. q = r
    BY <1>4, <2>2, <2>5
  <2>. QED
    BY <2>6 DEF r
<1>. QED
  BY <1>5, <1>6, <1>7, <1>8, FlatAppended DEF t, o

LEMMA Utf8Nothing == Utf8(<<>>) = <<>>
<1> DEFINE p == [i \in DOMAIN <<>> |-> InUtf8(<<>>[i])]
<1>1. p = <<>>
  OBVIOUS
<1> HIDE DEF p
<1>2. FlattenSeq(p) = <<>>
  BY <1>1, FlatNothing
<1>. QED
  BY <1>2 DEF Utf8, p

(* The conversion keeps what is ASCII, and what the stream ends with.      *)
Utf8Of(s) ==
    /\ Utf8(s) \in Seq(Bytes)
    /\ Len(s) > 0 => Len(Utf8(s)) > 0
    /\ Len(s) > 0 /\ s[Len(s)] = EOL => Utf8(s)[Len(Utf8(s))] = EOL
    /\ Without(Utf8(s), Lost) = Without(s, High)

LEMMA Utf8Types == \A s \in Seq(Wire) : Utf8Of(s)
<1> DEFINE P == {s \in Seq(Wire) : Utf8Of(s)}
<1>1. <<>> \in P
  BY Utf8Nothing, WithoutNothing, EmptySeq DEF Utf8Of
<1>2. ASSUME NEW s \in Seq(Wire), NEW e \in Wire, s \in P PROVE Append(s, e) \in P
  <2> DEFINE t == Append(s, e)
             u == Utf8(s)
             o == InUtf8(e)
  <2>1. /\ t \in Seq(Wire) /\ Len(t) = Len(s) + 1 /\ Len(s) \in Nat
        /\ t[Len(s) + 1] = e
    BY AppendProperties, LenProperties
  <2>2. Utf8(t) = u \o o
    BY Utf8Append
  <2>3. /\ u \in Seq(Bytes) /\ Without(u, Lost) = Without(s, High)
    BY <1>2 DEF Utf8Of
  <2>4. /\ o \in Seq(Bytes) /\ Len(o) > 0 /\ Without(o, Lost) = One(e, High)
    BY Images
  <2>5. Without(t, High) = Without(s, High) \o One(e, High)
    BY WithoutAppend
  <2>6. e = EOL => o = <<EOL>>
    BY Images
  <2> HIDE DEF t, u, o
  <2>7. Without(u \o o, Lost) = Without(u, Lost) \o Without(o, Lost)
    BY <2>3, <2>4, WithoutConcat
  <2>8. /\ u \o o \in Seq(Bytes) /\ Len(u \o o) = Len(u) + Len(o)
        /\ Len(u) \in Nat /\ Len(o) \in Nat
        /\ \A i \in 1 .. Len(u) + Len(o) :
              (u \o o)[i] = IF i <= Len(u) THEN u[i] ELSE o[i - Len(u)]
    BY <2>3, <2>4, ConcatProperties, LenProperties
  <2>9. e = EOL => (u \o o)[Len(u \o o)] = EOL
    <3>. SUFFICES ASSUME e = EOL PROVE (u \o o)[Len(u \o o)] = EOL
      OBVIOUS
    <3>1. Len(o) = 1 /\ o[1] = EOL
      BY <2>6
    <3>2. Len(u \o o) = Len(u) + 1 /\ Len(u) + 1 - Len(u) = 1
      BY <2>8, <3>1
    <3>. QED
      BY <2>8, <3>1, <3>2
  <2>10. Utf8Of(t)
    BY <2>1, <2>2, <2>3, <2>4, <2>5, <2>7, <2>8, <2>9 DEF Utf8Of
  <2>. QED
    BY <2>1, <2>10 DEF t
<1> HIDE DEF P
<1>3. Seq(Wire) \subseteq P
  BY <1>1, <1>2, SeqInduction
<1>. QED
  BY <1>3 DEF P

LEMMA Utf8Concat ==
    ASSUME NEW s \in Seq(Wire)
    PROVE  \A t \in Seq(Wire) : Utf8(s \o t) = Utf8(s) \o Utf8(t)
<1> DEFINE P == {t \in Seq(Wire) : Utf8(s \o t) = Utf8(s) \o Utf8(t)}
<1>0. Utf8(s) \in Seq(Bytes)
  BY Utf8Types DEF Utf8Of
<1>1. <<>> \in P
  <2>1. s \o <<>> = s /\ Utf8(s) \o <<>> = Utf8(s)
    BY <1>0, ConcatEmptySeq
  <2>. QED
    BY <2>1, Utf8Nothing, EmptySeq
<1>2. ASSUME NEW t \in Seq(Wire), NEW e \in Wire, t \in P PROVE Append(t, e) \in P
  <2>1. /\ Append(t, e) \in Seq(Wire) /\ s \o t \in Seq(Wire)
        /\ <<e>> \in Seq(Wire)
    BY AppendProperties, ConcatProperties
  <2>2. Utf8(t) \in Seq(Bytes) /\ InUtf8(e) \in Seq(Bytes)
    BY Utf8Types, Images DEF Utf8Of
  <2>3. s \o Append(t, e) = Append(s \o t, e)
    <3>1. Append(t, e) = t \o <<e>> /\ Append(s \o t, e) = (s \o t) \o <<e>>
      BY <2>1, AppendIsConcat
    <3>2. Regroup(s, t, <<e>>)
      BY <2>1, Regrouped, Zenon
    <3>. QED
      BY <3>1, <3>2, Zenon DEF Regroup
  <2>4. Utf8(Append(s \o t, e)) = Utf8(s \o t) \o InUtf8(e)
    BY <2>1, Utf8Append
  <2>5. Utf8(Append(t, e)) = Utf8(t) \o InUtf8(e)
    BY Utf8Append
  <2>6. Regroup(Utf8(s), Utf8(t), InUtf8(e))
    BY <1>0, <2>2, Regrouped, Zenon
  <2>7. Utf8(s \o t) = Utf8(s) \o Utf8(t)
    BY <1>2
  <2>8. Utf8(s \o Append(t, e)) = Utf8(s) \o Utf8(Append(t, e))
    BY <2>3, <2>4, <2>5, <2>6, <2>7, Zenon DEF Regroup
  <2>. QED
    BY <2>1, <2>8
<1> HIDE DEF P
<1>3. Seq(Wire) \subseteq P
  BY <1>1, <1>2, SeqInduction
<1>. QED
  BY <1>3 DEF P

LEMMA Converted ==
    ASSUME NEW chunk \in Seq(Wire), Len(chunk) > 0
    PROVE  /\ ntoh(chunk) \in Seq(Bytes) /\ Len(ntoh(chunk)) > 0
           /\ chunk[Len(chunk)] = EOL => ntoh(chunk)[Len(ntoh(chunk))] = EOL
           /\ Without(ntoh(chunk), Lost) = Without(chunk, High)
<1>1. CASE Whole(chunk)
  BY <1>1, Utf8Types DEF ntoh, Utf8Of
<1>2. CASE ~Whole(chunk)
  <2> DEFINE m == [i \in DOMAIN chunk |-> InAscii(chunk[i])]
  <2>1. /\ DOMAIN chunk = 1 .. Len(chunk) /\ Len(chunk) \in Nat
        /\ \A i \in 1 .. Len(chunk) : chunk[i] \in Wire
    BY LenProperties, ElementOfSeq
  <2>2. \A b \in Wire : /\ InAscii(b) \in Bytes
                        /\ One(InAscii(b), Lost) = One(b, High)
    BY Images
  <2>3. m \in [1 .. Len(chunk) -> Bytes]
    BY <2>1, <2>2
  <2>4. /\ m \in Seq(Bytes) /\ Len(m) = Len(chunk) /\ DOMAIN m = 1 .. Len(chunk)
    BY <2>1, <2>3, LenProperties
  <2>5. \A i \in 1 .. Len(chunk) : m[i] = InAscii(chunk[i])
    BY <2>1
  <2>6. ntoh(chunk) = m
    BY <1>2 DEF ntoh
  <2> HIDE DEF m
  <2>7. chunk[Len(chunk)] = EOL => m[Len(m)] = EOL
    BY <2>1, <2>4, <2>5, LineReassemblyAssumption DEF InAscii
  <2>8. Without(m, Lost) = Without(chunk, High)
    <3>1. Without(m, Lost) = FlattenSeq([i \in 1 .. Len(chunk) |-> One(m[i], Lost)])
      BY <2>4, Zenon DEF Without, One
    <3>2. Without(chunk, High)
              = FlattenSeq([i \in 1 .. Len(chunk) |-> One(chunk[i], High)])
      BY <2>1, Zenon DEF Without, One
    <3>3. \A i \in 1 .. Len(chunk) : One(m[i], Lost) = One(chunk[i], High)
      BY <2>1, <2>2, <2>5
    <3>4. [i \in 1 .. Len(chunk) |-> One(m[i], Lost)]
              = [i \in 1 .. Len(chunk) |-> One(chunk[i], High)]
      BY <3>3
    <3>. QED
      BY <3>1, <3>2, <3>4, Zenon
  <2>. QED
    BY <2>4, <2>6, <2>7, <2>8
<1>. QED
  BY <1>1, <1>2

-----------------------------------------------------------------------------
(* The inductive invariant: nothing is kept after a terminator that was    *)
(* scanned, the lines are those of what was heard as far as they can be,   *)
(* and that is the stream converted as long as no character was cut.       *)
NothingKept == Ended(stream) /\ ~tail => split_buf = <<>>

WholeHeard == ~cut => heard = Utf8(stream)

ReceiveInv == TypeOK /\ NothingKept /\ WholeHeard /\ CutSparesLetters

LEMMA ChunkIs ==
    ASSUME NEW chunk \in Chunks
    PROVE  chunk \in Seq(Wire) /\ Len(chunk) \in 1 .. MaxLine
<1>1. PICK n \in 1 .. MaxLine : chunk \in [1 .. n -> Wire]
  BY DEF Chunks
<1>2. n \in Nat
  BY LineReassemblyAssumption
<1>. QED
  BY <1>1, <1>2

LEMMA ReceiveStep ==
    ASSUME ReceiveInv, NEW chunk \in Chunks, Receive(chunk)
    PROVE  /\ ReceiveInv'
           /\ LET new == SubSeq(stream', Len(stream) + 1, Len(stream'))
              IN  Ended(stream) /\ ~tail /\ ~tail' /\ Whole(new) =>
                     parsed' = parsed \o Lines(Utf8(new))
<1> DEFINE msg == ntoh(chunk)
           scan == ScanChunk(Scanned(msg))
           rest == SubSeq(msg, scan.lasti + 1, Len(msg))
           lines == scan.lines
           kept == KeepRest(scan, rest)
<1>0. chunk \in Seq(Wire) /\ Len(chunk) > 0 /\ Len(chunk) \in Nat
  BY ChunkIs, LenProperties
<1>1. /\ msg \in Seq(Bytes) /\ Len(msg) > 0
      /\ chunk[Len(chunk)] = EOL => msg[Len(msg)] = EOL
      /\ Without(msg, Lost) = Without(chunk, High)
      /\ Whole(chunk) => msg = Utf8(chunk)
  BY <1>0, Converted DEF ntoh
<1>2. /\ split_buf \in Seq(Bytes) /\ Len(split_buf) <= MaxLine
      /\ parsed \in Seq(Seq(Bytes))
      /\ \A i \in DOMAIN parsed : Len(parsed[i]) \in 1 .. 2 * MaxLine
      /\ stream \in Seq(Wire) /\ Len(stream) <= MaxStream
      /\ heard \in Seq(Bytes)
      /\ torn \in BOOLEAN /\ cut \in BOOLEAN /\ long \in BOOLEAN /\ tail \in BOOLEAN
      /\ NothingKept /\ WholeHeard /\ CutSparesLetters
  BY DEF ReceiveInv, TypeOK
<1>3. /\ parsed' = parsed \o lines /\ split_buf' = kept
      /\ stream' = stream \o chunk /\ heard' = heard \o msg
      /\ Len(stream) + Len(chunk) <= MaxStream
      /\ torn' = (torn \/ (split_buf # <<>> /\ Head(msg) = EOL))
      /\ cut' = (cut \/ ~Whole(chunk))
      /\ tail' = (Len(msg) > MaxLine + 1)
      /\ long' = (long \/ tail')
  BY DEF Receive, receive
<1> HIDE DEF msg
<1>14. ~tail' => ~(Len(msg) > MaxLine + 1)
  BY <1>3, Zenon
<1>4. /\ lines \in Seq(Seq(Bytes))
      /\ \A k \in 1 .. Len(lines) : Len(lines[k]) \in 1 .. 2 * MaxLine
      /\ kept \in Seq(Bytes) /\ Len(kept) <= MaxLine
      /\ Len(msg) <= MaxLine + 1 /\ msg[Len(msg)] = EOL => kept = <<>>
  BY <1>1, <1>2, ChunkTypes
<1>5. /\ Len(msg) \in Nat /\ Len(stream) \in Nat /\ MaxLine \in Nat
      /\ Head(msg) = msg[1]
  BY <1>1, <1>2, LenProperties, LineReassemblyAssumption
<1>6. ~tail' => \A base \in Seq(Bytes) :
          split_buf = Unfinished(base) /\ (split_buf = <<>> \/ msg[1] # EOL) =>
              /\ Lines(base \o msg) = Lines(base) \o lines
              /\ Len(Unfinished(base \o msg)) <= MaxLine =>
                     kept = Unfinished(base \o msg)
  <2>. SUFFICES ASSUME ~tail', NEW base \in Seq(Bytes),
                       split_buf = Unfinished(base),
                       split_buf = <<>> \/ msg[1] # EOL
                PROVE  /\ Lines(base \o msg) = Lines(base) \o lines
                       /\ Len(Unfinished(base \o msg)) <= MaxLine =>
                              kept = Unfinished(base \o msg)
    OBVIOUS
  <2>1. Len(msg) \in 1 .. MaxLine + 1
    BY <1>1, <1>5, <1>14
  <2>2. Scanned(msg) = msg
    BY <1>1, <2>1, ScannedFacts
  <2>. QED
    BY <1>1, <1>2, <2>1, <2>2, ChunkLines
<1> HIDE DEF lines, kept, scan, rest
<1>7. /\ Joins(Wire, stream, chunk) /\ Joins(Seq(Bytes), parsed, lines)
      /\ Joins(Bytes, heard, msg)
  BY <1>0, <1>1, <1>2, <1>4, Joined, Zenon
<1>8. TypeOK'
  <2>1. parsed' \in Seq(Seq(Bytes)) /\ Len(parsed') = Len(parsed) + Len(lines)
    BY <1>3, <1>7, Zenon DEF Joins
  <2>2. \A i \in DOMAIN parsed' : Len(parsed'[i]) \in 1 .. 2 * MaxLine
    <3>1. \A i \in 1 .. Len(parsed) + Len(lines) :
              (parsed \o lines)[i] = IF i <= Len(parsed) THEN parsed[i]
                                     ELSE lines[i - Len(parsed)]
      BY <1>2, <1>4, ConcatProperties
    <3>2. /\ Len(parsed) \in Nat /\ Len(lines) \in Nat
          /\ DOMAIN parsed = 1 .. Len(parsed)
          /\ DOMAIN parsed' = 1 .. Len(parsed) + Len(lines)
      BY <1>2, <1>4, <2>1, LenProperties
    <3>3. ASSUME NEW i \in DOMAIN parsed'
          PROVE  Len(parsed'[i]) \in 1 .. 2 * MaxLine
      <4>1. CASE i <= Len(parsed)
        <5>1. parsed'[i] = parsed[i] /\ i \in DOMAIN parsed
          BY <1>3, <3>1, <3>2, <4>1
        <5>. QED
          BY <1>2, <5>1
      <4>2. CASE ~(i <= Len(parsed))
        <5>1. parsed'[i] = lines[i - Len(parsed)]
              /\ i - Len(parsed) \in 1 .. Len(lines)
          BY <1>3, <3>1, <3>2, <4>2
        <5>. QED
          BY <1>4, <5>1
      <4>. QED
        BY <4>1, <4>2
    <3>. QED
      BY <3>3
  <2>3. /\ stream' \in Seq(Wire) /\ Len(stream') = Len(stream) + Len(chunk)
        /\ heard' \in Seq(Bytes)
    BY <1>3, <1>7, Zenon DEF Joins
  <2>4. {torn', cut', long', tail'} \subseteq BOOLEAN
    BY <1>2, <1>3
  <2>. QED
    BY <1>2, <1>3, <1>4, <2>1, <2>2, <2>3, <2>4 DEF TypeOK
<1>9. NothingKept'
  <2>. SUFFICES ASSUME Ended(stream'), ~tail' PROVE kept = <<>>
    BY <1>3 DEF NothingKept
  <2>1. Len(stream \o chunk) = Len(stream) + Len(chunk)
    BY <1>7 DEF Joins
  <2>2. stream \o chunk # <<>>
    BY <1>0, <1>5, <2>1
  <2>3. (stream \o chunk)[Len(stream \o chunk)] = EOL
    BY <1>3, <2>2 DEF Ended, Last
  <2>4. (stream \o chunk)[Len(stream) + Len(chunk)] = chunk[Len(chunk)]
    BY <1>0, <1>2, <1>5, ConcatProperties
  <2>5. msg[Len(msg)] = EOL
    BY <1>1, <2>1, <2>3, <2>4
  <2>6. Len(msg) <= MaxLine + 1
    BY <1>5, <1>14
  <2>. QED
    BY <1>4, <2>5, <2>6
<1>10. CutSparesLetters'
  <2>1. Without(heard', Lost) = Without(stream', High)
    <3>1. Without(heard, Lost) = Without(stream, High)
      BY <1>2 DEF CutSparesLetters, Lost
    <3>2. Without(heard \o msg, Lost) = Without(heard, Lost) \o Without(msg, Lost)
      BY <1>1, <1>2, WithoutConcat
    <3>3. Without(stream \o chunk, High)
              = Without(stream, High) \o Without(chunk, High)
      BY <1>0, <1>2, WithoutConcat
    <3>. QED
      BY <1>1, <1>3, <3>1, <3>2, <3>3, Zenon
  <2>2. ASSUME ~torn', ~long', Fits(heard')
        PROVE  parsed' = Lines(heard') /\ split_buf' = Unfinished(heard')
    <3>1. ~torn /\ ~long /\ ~tail' /\ (split_buf = <<>> \/ msg[1] # EOL)
      BY <1>2, <1>3, <1>5, <2>2
    <3>2. Fits(heard)
      BY <1>1, <1>2, <1>3, <2>2, FitsEarlier
    <3>3. parsed = Lines(heard) /\ split_buf = Unfinished(heard)
      BY <1>2, <3>1, <3>2 DEF CutSparesLetters
    <3>4. Len(Unfinished(heard \o msg)) <= MaxLine
      BY <1>3, <2>2 DEF Fits
    <3>. QED
      BY <1>2, <1>3, <1>6, <3>1, <3>3, <3>4
  <2>. QED
    BY <2>1, <2>2 DEF CutSparesLetters, Lost
<1>11. WholeHeard'
  <2>. SUFFICES ASSUME ~cut' PROVE heard' = Utf8(stream')
    BY DEF WholeHeard
  <2>1. heard = Utf8(stream) /\ msg = Utf8(chunk)
    BY <1>1, <1>2, <1>3 DEF WholeHeard
  <2>2. Utf8(stream \o chunk) = Utf8(stream) \o Utf8(chunk)
    BY <1>0, <1>2, Utf8Concat
  <2>. QED
    BY <1>3, <2>1, <2>2, Zenon
<1>12. SubSeq(stream', Len(stream) + 1, Len(stream')) = chunk
  <2>1. Len(stream') = Len(stream) + Len(chunk)
    BY <1>3, <1>7 DEF Joins
  <2>2. SubSeq(stream \o chunk, Len(stream) + 1, Len(stream) + Len(chunk))
            = SubSeq(chunk, Len(stream) + 1 - Len(stream),
                     Len(stream) + Len(chunk) - Len(stream))
    <3>1. Len(stream) + 1 \in Len(stream) + 1 .. Len(stream) + Len(chunk)
          /\ Len(stream) + Len(chunk) \in
                 Len(stream) + 1 .. Len(stream) + Len(chunk)
      BY <1>0, <1>5
    <3>. QED
      BY <1>0, <1>2, <3>1, SubSeqOfConcat2
  <2>3. /\ Len(stream) + 1 - Len(stream) = 1
        /\ Len(stream) + Len(chunk) - Len(stream) = Len(chunk)
    BY <1>0, <1>5
  <2>4. SubSeq(chunk, 1, Len(chunk)) = chunk
    BY <1>0, SubSeqFull
  <2>. QED
    BY <1>3, <2>1, <2>2, <2>3, <2>4
<1>13. ASSUME Ended(stream), ~tail, ~tail', Whole(chunk)
       PROVE  parsed' = parsed \o Lines(Utf8(chunk))
  <2>1. split_buf = <<>>
    BY <1>2, <1>13 DEF NothingKept
  <2>2. <<>> \in Seq(Bytes) /\ <<>> \o msg = msg /\ <<>> \o lines = lines
    BY <1>1, <1>4, EmptySeq, ConcatEmptySeq
  <2>3. Lines(<<>> \o msg) = Lines(<<>>) \o lines
    BY <1>6, <1>13, <2>1, <2>2, NothingReceived
  <2>4. Lines(msg) = lines
    BY <2>2, <2>3, NothingReceived
  <2>. QED
    BY <1>1, <1>3, <1>13, <2>4
<1>. QED
  BY <1>8, <1>9, <1>10, <1>11, <1>12, <1>13 DEF ReceiveInv

LEMMA ReceiveInitially == Init => ReceiveInv
<1>. SUFFICES ASSUME Init PROVE ReceiveInv
  OBVIOUS
<1>1. /\ split_buf = <<>> /\ parsed = <<>> /\ stream = <<>> /\ heard = <<>>
      /\ torn = FALSE /\ cut = FALSE /\ long = FALSE /\ tail = FALSE
  BY DEF Init
<1>2. MaxLine \in Nat /\ MaxStream \in Nat
  BY LineReassemblyAssumption
<1>3. TypeOK
  <2>1. /\ <<>> \in Seq(Bytes) /\ <<>> \in Seq(Wire)
        /\ <<>> \in Seq(Seq(Bytes))
        /\ Len(<<>>) = 0 /\ DOMAIN <<>> = {}
    BY EmptySeq
  <2>2. 0 <= MaxLine /\ 0 <= MaxStream
    BY <1>2
  <2>3. \A i \in DOMAIN parsed : Len(parsed[i]) \in 1 .. 2 * MaxLine
    BY <1>1, <2>1, Zenon
  <2>4. {torn, cut, long, tail} \subseteq BOOLEAN
    BY <1>1
  <2>. QED
    BY <1>1, <2>1, <2>2, <2>3, <2>4, Zenon DEF TypeOK
<1>4. CutSparesLetters
  BY <1>1, WithoutNothing, NothingReceived, Zenon DEF CutSparesLetters
<1>. QED
  BY <1>1, <1>3, <1>4, Utf8Nothing DEF ReceiveInv, NothingKept, WholeHeard

LEMMA ReceiveInvStep == ReceiveInv /\ [Next]_vars => ReceiveInv'
<1>1. CASE UNCHANGED vars
  BY <1>1 DEF ReceiveInv, TypeOK, NothingKept, WholeHeard, CutSparesLetters, vars
<1>2. ASSUME ReceiveInv, Next PROVE ReceiveInv'
  BY <1>2, ReceiveStep DEF Next
<1>. QED
  BY <1>1, <1>2

LEMMA TransferReceives == [TransferNext]_transferVars => [Next]_vars
  BY DEF TransferNext, transferVars, SendText

LEMMA ReceiveInvCorrect == TransferSpec => []ReceiveInv
<1>1. TransferInit => Init
  BY DEF TransferInit
<1>. QED
  BY <1>1, ReceiveInitially, ReceiveInvStep, TransferReceives, PTL
     DEF TransferSpec

(* However the network cuts the stream into chunks, the parser gets its    *)
(* lines, each once, whole and in order, as long as no character is cut,   *)
(* no line is too long or cut right before its terminator, and no chunk    *)
(* grows beyond what is scanned of it (sconn_received_cb(),                *)
(* idle_connection_ntoh(), idle_parser_receive()).                         *)
THEOREM LinesCorrect == TransferSpec => []LinesArriveWhole
<1>1. ReceiveInv => LinesArriveWhole
  <2>. SUFFICES ASSUME ReceiveInv, ~torn, ~cut, ~long, Fits(Utf8(stream))
                PROVE  /\ parsed = Lines(Utf8(stream))
                       /\ split_buf = Unfinished(Utf8(stream))
    BY DEF LinesArriveWhole
  <2>1. heard = Utf8(stream)
    BY DEF ReceiveInv, WholeHeard
  <2>. QED
    BY <2>1 DEF ReceiveInv, CutSparesLetters
<1>. QED
  BY <1>1, ReceiveInvCorrect, PTL

(* A chunk that begins or ends inside a character costs characters that    *)
(* are not ASCII and nothing else: the lines are as many and end where     *)
(* they did, and every ASCII character arrives (idle_connection_ntoh()).   *)
THEOREM CutCorrect == TransferSpec => []CutSparesLetters
<1>1. ReceiveInv => CutSparesLetters
  BY DEF ReceiveInv
<1>. QED
  BY <1>1, ReceiveInvCorrect, PTL

(* What was torn, cut, too long or not scanned does no damage beyond the   *)
(* first chunk that ends with a terminator and is scanned to its end:      *)
(* every chunk after it that is of whole characters and not too long once  *)
(* converted yields exactly its lines, until a line is left unfinished     *)
(* again (idle_parser_receive()).                                          *)
THEOREM DamageCorrect == TransferSpec => DamageIsLocal
<1> DEFINE Recovered ==
        LET chunk == SubSeq(stream', Len(stream) + 1, Len(stream'))
        IN  Ended(stream) /\ ~tail /\ ~tail' /\ Whole(chunk) =>
               parsed' = parsed \o Lines(Utf8(chunk))
<1>1. ReceiveInv /\ [Next]_vars => [Recovered]_vars
  BY ReceiveStep DEF Next
<1>. QED
  BY <1>1, ReceiveInvCorrect, TransferReceives, PTL
     DEF TransferSpec, DamageIsLocal

-----------------------------------------------------------------------------
LEMMA TokensAre ==
    ASSUME NEW C, NEW K, NEW c \in C, NEW k \in K
    PROVE  Token(c, k) \in {Token(d, l) : d \in C, l \in K}
OBVIOUS

LEMMA TokensTried ==
    ASSUME NEW format, NEW n PROVE TokensToTry(format, n) \subseteq Tokens
<1> DEFINE K == {"nick", "@nick", "room", "number", "other"}
           AllOf(C, L) == {Token(d, l) : d \in C, l \in L}
<1>1. \A C, L : \A c \in C, l \in L : Token(c, l) \in AllOf(C, L)
  BY TokensAre
<1>2. Tokens = AllOf(BOOLEAN, K) \cup {Token(TRUE, "nothing")}
  BY DEF Tokens
<1>3. /\ TRUE \in BOOLEAN /\ FALSE \in BOOLEAN
      /\ "nick" \in K /\ "number" \in K
  OBVIOUS
<1> HIDE DEF K, AllOf
<1>4. /\ Token(FALSE, "nick") \in Tokens /\ Token(TRUE, "nick") \in Tokens
      /\ Token(FALSE, "number") \in Tokens
  BY <1>1, <1>2, <1>3, Zenon
<1>5. AnyToken \subseteq Tokens /\ AnyToken \cup {Token(FALSE, "number")} \subseteq Tokens
  BY <1>2, <1>4, Zenon DEF AnyToken
<1>. QED
  BY <1>5 DEF TokensToTry

LEMMA TokenRead ==
    ASSUME line \in Seq(Tokens), NextToken
    PROVE  line' \in Seq(Tokens) /\ format_of' = format_of
<1>1. PICK t \in TokensToTry(message_specs[format_of], Len(line) + 1) :
          line' = Append(line, t)
  BY DEF NextToken
<1>2. t \in Tokens
  BY TokensTried
<1>. QED
  BY <1>1, <1>2, AppendProperties DEF NextToken

(* What neither direction of the text changes for the other.               *)
ParserTypes == format_of \in DOMAIN message_specs /\ line \in Seq(Tokens)

RestTypes ==
    /\ about \in {"received", "parsed", "sent", "names"}
    /\ text_sent # Nothing => text_sent.type \in Types

LEMMA ParserTypesCorrect == TransferSpec => []ParserTypes
<1>1. TransferInit => ParserTypes
  BY EmptySeq DEF TransferInit, ParserInit, ParserTypes
<1>2. ParserTypes /\ [TransferNext]_transferVars => ParserTypes'
  <2>. SUFFICES ASSUME ParserTypes, [TransferNext]_transferVars
                PROVE  ParserTypes'
    OBVIOUS
  <2>1. UNCHANGED parserVars \/ NextToken
    BY Zenon DEF TransferNext, transferVars, SendText
  <2>2. CASE UNCHANGED parserVars
    BY <2>2 DEF ParserTypes, parserVars
  <2>3. CASE NextToken
    BY <2>3, TokenRead DEF ParserTypes
  <2>. QED
    BY <2>1, <2>2, <2>3
<1>. QED
  BY <1>1, <1>2, PTL DEF TransferSpec

LEMMA RestTypesCorrect == TransferSpec => []RestTypes
<1>1. TransferInit => RestTypes
  BY DEF TransferInit, RestTypes
<1>2. RestTypes /\ [TransferNext]_transferVars => RestTypes'
  <2>. SUFFICES ASSUME RestTypes, [TransferNext]_transferVars
                PROVE  RestTypes'
    OBVIOUS
  <2>1. about' = about
    BY DEF TransferNext, transferVars
  <2>2. \/ text_sent' \in {text_sent, Nothing}
        \/ \E type \in Types, text \in SentTexts : SendText(type, text)
    BY Zenon DEF TransferNext, transferVars
  <2>3. CASE text_sent' \in {text_sent, Nothing}
    BY <2>1, <2>3 DEF RestTypes
  <2>4. CASE \E type \in Types, text \in SentTexts : SendText(type, text)
    BY <2>1, <2>4 DEF RestTypes, SendText
  <2>. QED
    BY <2>2, <2>3, <2>4
<1>. QED
  BY <1>1, <1>2, PTL DEF TransferSpec

(* Every variable keeps its type: the buffers hold what is put in them     *)
(* whatever arrives, and what is known of nicknames is one of each.        *)
THEOREM TransferTypeCorrect == TransferSpec => []TransferTypeOK
<1>1. ReceiveInv => TypeOK
  BY DEF ReceiveInv
<1>2. NicksInv => NicksTypeOK
  BY DEF NicksInv, SelfTypes, AliasInv, AliasTypes, NicksTypeOK
<1>3. /\ TypeOK /\ NicksTypeOK /\ ParserTypes /\ RestTypes
      => TransferTypeOK
  BY DEF TransferTypeOK, ParserTypes, RestTypes
<1>. QED
  BY <1>1, <1>2, <1>3, ReceiveInvCorrect, NicksInvCorrect,
     ParserTypesCorrect, RestTypesCorrect, PTL

-----------------------------------------------------------------------------
(* The texts that are sent: in UTF-8, where "cont" follows "lead" only.    *)
IsText(s) ==
    /\ s \in Seq(TextBytes) /\ s # <<>>
    /\ \A i \in 1 .. Len(s) : s[i] = "cont" => i > 1 /\ s[i - 1] = "lead"

LEMMA TextsJoined ==
    ASSUME NEW s, NEW t, IsText(s), IsText(t)
    PROVE  IsText(s \o t)
<1>1. /\ s \in Seq(TextBytes) /\ t \in Seq(TextBytes)
      /\ Len(s) \in Nat /\ Len(t) \in Nat /\ Len(s) > 0
      /\ \A i \in 1 .. Len(s) : s[i] = "cont" => i > 1 /\ s[i - 1] = "lead"
      /\ \A i \in 1 .. Len(t) : t[i] = "cont" => i > 1 /\ t[i - 1] = "lead"
  BY LenProperties, EmptySeq DEF IsText
<1> DEFINE u == s \o t
<1>2. /\ u \in Seq(TextBytes) /\ Len(u) = Len(s) + Len(t)
      /\ \A i \in 1 .. Len(s) + Len(t) :
            u[i] = IF i <= Len(s) THEN s[i] ELSE t[i - Len(s)]
  BY <1>1, ConcatProperties
<1> HIDE DEF u
<1>3. u # <<>>
  BY <1>1, <1>2, EmptySeq
<1>4. ASSUME NEW i \in 1 .. Len(u), u[i] = "cont"
      PROVE  i > 1 /\ u[i - 1] = "lead"
  <2>1. CASE i <= Len(s)
    <3>1. s[i] = "cont" /\ i \in 1 .. Len(s)
      BY <1>1, <1>2, <1>4, <2>1
    <3>2. i > 1 /\ s[i - 1] = "lead"
      BY <1>1, <3>1
    <3>3. i - 1 \in 1 .. Len(s) + Len(t) /\ i - 1 <= Len(s)
      BY <1>1, <3>1, <3>2
    <3>4. u[i - 1] = s[i - 1]
      BY <1>2, <3>3
    <3>. QED
      BY <3>2, <3>4
  <2>2. CASE i > Len(s)
    <3> DEFINE j == i - Len(s)
    <3>1. j \in 1 .. Len(t) /\ u[i] = t[j]
      BY <1>1, <1>2, <2>2
    <3>2. j > 1 /\ t[j - 1] = "lead"
      BY <1>1, <1>4, <3>1
    <3>3. /\ i - 1 \in 1 .. Len(s) + Len(t) /\ ~(i - 1 <= Len(s))
          /\ i - 1 - Len(s) = j - 1
      BY <1>1, <1>2, <3>1, <3>2
    <3>4. u[i - 1] = t[i - 1 - Len(s)]
      BY <1>2, <3>3
    <3>5. u[i - 1] = "lead"
      BY <3>2, <3>3, <3>4
    <3>6. i > 1
      BY <1>1, <2>2
    <3>. QED
      BY <3>5, <3>6
  <2>. QED
    BY <1>1, <1>2, <2>1, <2>2
<1>. QED
  BY <1>2, <1>3, <1>4 DEF IsText, u

LEMMA TextsFlattened ==
    ASSUME NEW n \in Nat, n > 0, NEW C, \A c \in C : IsText(c),
           NEW seqs \in [1 .. n -> C]
    PROVE  IsText(FlattenSeq(seqs))
<1>0. Len(seqs) = n /\ ~(Len(seqs) = 0)
  <2>1. seqs \in Seq(C)
    OBVIOUS
  <2>. QED
    BY LenProperties
<1> DEFINE f == CHOOSE g : IsFlat(seqs, g, n)
<1>1. FlattenSeq(seqs) = f[n]
  BY <1>0 DEF FlattenSeq, IsFlat, Flat
<1>2. IsFlat(seqs, f, n)
  BY FlatExists
<1> HIDE DEF f
<1>3. \A i \in 1 .. n : f[i] = Flat(seqs, f, i)
  BY <1>2 DEF IsFlat
<1> DEFINE M == {m \in Nat : m + 1 <= n => IsText(f[m + 1])}
<1>4. \A i \in 1 .. n : IsText(seqs[i])
  OBVIOUS
<1>5. 0 \in M
  <2>1. f[1] = seqs[1]
    BY <1>3 DEF Flat
  <2>. QED
    BY <1>4, <2>1
<1>6. ASSUME NEW m \in Nat, m \in M PROVE m + 1 \in M
  <2>. SUFFICES ASSUME m + 1 + 1 <= n PROVE IsText(f[m + 1 + 1])
    OBVIOUS
  <2>1. IsText(f[m + 1]) /\ IsText(seqs[m + 1 + 1])
    BY <1>4, <1>6
  <2>2. f[m + 1 + 1] = f[m + 1] \o seqs[m + 1 + 1]
    <3> DEFINE k == m + 1 + 1
    <3>1. k \in 1 .. n /\ k - 1 = m + 1 /\ k # 1
      OBVIOUS
    <3> HIDE DEF k
    <3>2. f[k] = f[k - 1] \o seqs[k]
      BY <1>3, <3>1 DEF Flat
    <3>3. f[k] = f[m + 1] \o seqs[k]
      BY <3>1, <3>2, Zenon
    <3>. QED
      BY <3>3 DEF k
  <2>. QED
    BY <2>1, <2>2, TextsJoined
<1> HIDE DEF M
<1>7. Nat \subseteq M
  BY <1>5, <1>6, SetInduction
<1>8. n - 1 \in M /\ n - 1 + 1 = n
  BY <1>7
<1>9. IsText(f[n])
  BY <1>8 DEF M
<1>. QED
  BY <1>1, <1>9

LEMMA TextsSent == \A text \in SentTexts : IsText(text)
<1>1. ASSUME NEW chars, \A c \in chars : IsText(c), NEW length \in Int,
             NEW text \in TextsOf(chars, length)
      PROVE  IsText(text)
  <2>0. PICK t \in UNION {[1 .. n -> chars] : n \in 1 .. length} :
            text = FlattenSeq(t)
    BY <1>1 DEF TextsOf
  <2>1. PICK n \in 1 .. length : t \in [1 .. n -> chars]
    OBVIOUS
  <2>2. n \in Nat /\ n > 0
    OBVIOUS
  <2>. QED
    BY <1>1, <2>0, <2>1, <2>2, TextsFlattened
<1>2. \A c \in Plain : IsText(c)
  <2>1. \A e \in TextBytes : e # "cont" => IsText(<<e>>)
    BY DEF IsText
  <2>2. IsText(<<"lead", "cont">>)
    BY DEF IsText, TextBytes
  <2>. QED
    BY <2>1, <2>2 DEF Plain, TextBytes
<1>3. \A c \in Formatted : IsText(c)
  <2>1. \A e \in TextBytes : e # "cont" => IsText(<<e>>)
    BY DEF IsText
  <2>. QED
    BY <2>1 DEF Formatted, TextBytes, Controls
<1>4. MaxText \in Int /\ MaxText - 1 \in Int
  BY PrefixAssumption
<1>. QED
  BY <1>1, <1>2, <1>3, <1>4 DEF SentTexts

(* One turn of the loop of idle_text_encode_and_split(): it takes at least *)
(* a byte and at most max_bytes.                                           *)
LEMMA PartFacts ==
    ASSUME NEW text, IsText(text), NEW b \in Int, b > LongestCharacter,
           NEW i \in 1 .. Len(text)
    PROVE  LET end == PartEnd(text, i, b)
           IN  /\ end \in i .. Len(text) + 1 /\ end - i <= b
               /\ SkipNewline(text, end) \in i + 1 .. Len(text) + 1
<1> DEFINE n == Len(text)
           newlines == {j \in i .. n : text[j] = "newline"}
           starts == {j \in i .. i + b - 1 : text[j] # "cont"}
           end == PartEnd(text, i, b)
<1>1. /\ n \in Nat /\ text \in Seq(TextBytes) /\ b >= 3
      /\ \A j \in 1 .. n : text[j] = "cont" => j > 1 /\ text[j - 1] = "lead"
  BY LenProperties DEF IsText, LongestCharacter
<1> HIDE DEF n
<1>2. CASE newlines # {} /\ Min(newlines) - i < b
  <2>1. newlines \in SUBSET Nat
    BY <1>1
  <2>2. Min(newlines) \in newlines
    BY <1>2, <2>1, MinFacts
  <2>3. end = Min(newlines)
    BY <1>2 DEF PartEnd, n
  <2> HIDE DEF end
  <2>4. end \in i .. n /\ text[end] = "newline" /\ end - i < b
    BY <1>2, <2>2, <2>3
  <2>5. SkipNewline(text, end) = end + 1
    BY <1>1, <2>4 DEF SkipNewline, n
  <2>. QED
    BY <1>1, <2>4, <2>5 DEF end, n
<1>3. CASE ~(newlines # {} /\ Min(newlines) - i < b) /\ n + 1 - i > b
  <2>1. end = Max(starts)
    BY <1>3 DEF PartEnd, FindPrevChar, n
  <2>2. \E j \in {i + 1, i + 2} : j \in starts
    <3>1. i + 1 \in 1 .. n /\ i + 2 \in 1 .. n
          /\ i + 1 \in i .. i + b - 1 /\ i + 2 \in i .. i + b - 1
      BY <1>1, <1>3 DEF n
    <3>2. CASE text[i + 1] # "cont"
      BY <3>1, <3>2
    <3>3. CASE text[i + 1] = "cont"
      <4>1. ASSUME text[i + 2] = "cont" PROVE FALSE
        <5>1. text[i + 2 - 1] = "lead" /\ i + 2 - 1 = i + 1
          BY <1>1, <3>1, <4>1
        <5>. QED
          BY <3>3, <5>1
      <4>. QED
        BY <3>1, <4>1
    <3>. QED
      BY <3>2, <3>3
  <2>3. starts \in SUBSET (0 .. i + b) /\ starts # {} /\ i + b \in Nat
    BY <1>1, <2>2
  <2>4. Max(starts) \in starts /\ \A j \in starts : j <= Max(starts)
    BY <2>3, MaxFacts
  <2>5. \A j \in starts : j \in i .. i + b - 1
    OBVIOUS
  <2> HIDE DEF end, starts
  <2>6. end \in i + 1 .. i + b - 1
    <3>1. PICK j \in {i + 1, i + 2} : j \in starts
      BY <2>2
    <3>2. end \in i .. i + b - 1 /\ j <= end
      BY <2>1, <2>4, <2>5, <3>1
    <3>. QED
      BY <1>1, <3>1, <3>2
  <2>7. end \in i + 1 .. n /\ end - i <= b
    BY <1>1, <1>3, <2>6
  <2>8. SkipNewline(text, end) \in {end, end + 1}
    BY DEF SkipNewline
  <2>. QED
    BY <1>1, <2>7, <2>8 DEF end, n
<1>4. CASE ~(newlines # {} /\ Min(newlines) - i < b) /\ ~(n + 1 - i > b)
  <2>1. end = n + 1
    BY <1>4 DEF PartEnd, n
  <2> HIDE DEF end
  <2>2. SkipNewline(text, end) = end
    BY <1>1, <2>1 DEF SkipNewline, n
  <2>. QED
    BY <1>1, <1>4, <2>1, <2>2 DEF end, n
<1>. QED
  BY <1>2, <1>3, <1>4

(* What the loop has put together from byte i on.                          *)
Cut(text, b, f, i) ==
    IF i > Len(text) THEN <<>>
    ELSE LET end == PartEnd(text, i, b)
         IN  <<SubSeq(text, i, end - 1)>> \o f[SkipNewline(text, end)]

IsCut(text, b, f) ==
    f = [i \in 1 .. Len(text) + 1 |-> Cut(text, b, f, i)]

LEMMA CutsSame ==
    ASSUME NEW text, IsText(text), NEW b \in Int, b > LongestCharacter,
           NEW i \in 1 .. Len(text) + 1, NEW f, NEW g,
           \A j \in i + 1 .. Len(text) + 1 : f[j] = g[j]
    PROVE  Cut(text, b, f, i) = Cut(text, b, g, i)
<1>1. CASE i > Len(text)
  BY <1>1 DEF Cut
<1>2. CASE ~(i > Len(text))
  <2> DEFINE end == PartEnd(text, i, b)
             next == SkipNewline(text, end)
  <2>1. i \in 1 .. Len(text)
    BY <1>2, LenProperties DEF IsText
  <2>2. next \in i + 1 .. Len(text) + 1
    BY <2>1, PartFacts
  <2> HIDE DEF next
  <2>3. f[next] = g[next]
    BY <2>2
  <2>. QED
    BY <1>2, <2>3 DEF Cut, next
<1>. QED
  BY <1>1, <1>2

LEMMA CutExists ==
    ASSUME NEW text, IsText(text), NEW b \in Int, b > LongestCharacter
    PROVE  \E f : IsCut(text, b, f)
<1> DEFINE n == Len(text)
           Is(f, m) == f = [i \in n + 1 - m .. n + 1 |-> Cut(text, b, f, i)]
           N == {m \in Nat : m <= n => \E f : Is(f, m)}
<1>0. n \in Nat
  BY LenProperties DEF IsText
<1>1. 0 \in N
  <2> DEFINE f == [i \in n + 1 - 0 .. n + 1 |-> <<>>]
  <2>1. \A i \in n + 1 - 0 .. n + 1 : Cut(text, b, f, i) = <<>>
    BY <1>0 DEF Cut
  <2>2. Is(f, 0)
    <3> HIDE DEF n
    <3>. QED
      BY <2>1
  <2> HIDE DEF f, Is
  <2>. QED
    BY <2>2
<1>2. ASSUME NEW m \in Nat, m \in N PROVE m + 1 \in N
  <2>. SUFFICES ASSUME m + 1 <= n PROVE \E f : Is(f, m + 1)
    OBVIOUS
  <2>1. \E f : Is(f, m)
    BY <1>0, <1>2
  <2>2. PICK f : Is(f, m)
    BY <2>1
  <2> DEFINE k == n + 1 - (m + 1)
             g == [i \in k .. n + 1 |-> IF i = k THEN Cut(text, b, f, k)
                                        ELSE f[i]]
  <2>3. k \in 1 .. n + 1 /\ n + 1 - m = k + 1
    BY <1>0
  <2> HIDE DEF k, n
  <2>4. \A j \in k + 1 .. n + 1 : g[j] = f[j] /\ f[j] = Cut(text, b, f, j)
    BY <1>0, <2>2, <2>3
  <2> HIDE DEF Is
  <2>5. ASSUME NEW i \in k .. n + 1
        PROVE  g[i] = Cut(text, b, g, i)
    <3>1. i \in 1 .. n + 1 /\ \A j \in i + 1 .. n + 1 : j \in k + 1 .. n + 1
      BY <1>0, <2>3
    <3> HIDE DEF g
    <3>2. \A j \in i + 1 .. n + 1 : g[j] = f[j]
      BY <2>4, <3>1
    <3>3. Cut(text, b, g, i) = Cut(text, b, f, i)
      BY <3>1, <3>2, CutsSame DEF n
    <3>4. CASE i = k
      BY <3>3, <3>4 DEF g
    <3>5. CASE i # k
      <4>1. i \in k + 1 .. n + 1
        BY <1>0, <2>3, <3>5
      <4>. QED
        BY <2>4, <3>3, <4>1
    <3>. QED
      BY <3>4, <3>5
  <2>6. g = [i \in k .. n + 1 |-> Cut(text, b, g, i)]
    <3>1. g = [i \in k .. n + 1 |-> g[i]]
      OBVIOUS
    <3> HIDE DEF g
    <3>. QED
      BY <2>5, <3>1
  <2>7. Is(g, m + 1)
    <3> HIDE DEF g
    <3>. QED
      BY <2>6 DEF Is, k
  <2> HIDE DEF g
  <2>. QED
    BY <2>7
<1> HIDE DEF N
<1>3. Nat \subseteq N
  BY <1>1, <1>2, SetInduction
<1>4. n \in N /\ n + 1 - n = 1
  BY <1>0, <1>3
<1>5. \E f : Is(f, n)
  BY <1>0, <1>4 DEF N
<1>6. PICK f : Is(f, n)
  BY <1>5
<1> HIDE DEF n
<1>7. f = [i \in 1 .. n + 1 |-> Cut(text, b, f, i)]
  BY <1>4, <1>6
<1>. QED
  BY <1>7 DEF IsCut, n

(* Every part of a text is at most max_bytes long.                         *)
ShortParts(parts, b) ==
    /\ parts \in Seq(Seq(TextBytes))
    /\ \A k \in 1 .. Len(parts) : Len(parts[k]) <= b

LEMMA ShortPartsJoined ==
    ASSUME NEW part \in Seq(TextBytes), NEW b \in Int, Len(part) <= b,
           NEW parts, ShortParts(parts, b)
    PROVE  ShortParts(<<part>> \o parts, b)
<1>1. /\ parts \in Seq(Seq(TextBytes)) /\ <<part>> \in Seq(Seq(TextBytes))
      /\ Len(<<part>>) = 1 /\ <<part>>[1] = part
      /\ \A k \in 1 .. Len(parts) : Len(parts[k]) <= b
      /\ Len(parts) \in Nat
  BY LenProperties DEF ShortParts
<1> DEFINE one == <<part>>
           all == one \o parts
<1> HIDE DEF one
<1>2. /\ all \in Seq(Seq(TextBytes))
      /\ Len(all) = Len(one) + Len(parts)
      /\ \A k \in 1 .. Len(one) + Len(parts) :
            all[k] = IF k <= Len(one) THEN one[k] ELSE parts[k - Len(one)]
  BY <1>1, ConcatProperties DEF one
<1> HIDE DEF all
<1>3. ASSUME NEW k \in 1 .. Len(all) PROVE Len(all[k]) <= b
  <2>1. CASE k = 1
    BY <1>1, <1>2, <2>1 DEF one
  <2>2. CASE k # 1
    <3>1. all[k] = parts[k - 1] /\ k - 1 \in 1 .. Len(parts)
      BY <1>1, <1>2, <2>2 DEF one
    <3>. QED
      BY <1>1, <3>1
  <2>. QED
    BY <2>1, <2>2
<1>. QED
  BY <1>2, <1>3 DEF ShortParts, all, one

LEMMA BodiesAreShort ==
    ASSUME NEW text, IsText(text), NEW type, NEW max_msg_len,
           MaxBytes(type, max_msg_len) \in Int,
           MaxBytes(type, max_msg_len) > LongestCharacter
    PROVE  ShortParts(Bodies(type, text, max_msg_len),
                      MaxBytes(type, max_msg_len))
<1> DEFINE b == MaxBytes(type, max_msg_len)
           n == Len(text)
           f == CHOOSE g : IsCut(text, b, g)
           N == {m \in Nat : \A i \in n + 1 - m .. n + 1 :
                                 i >= 1 => ShortParts(f[i], b)}
<1> HIDE DEF b
<1>0. n \in Nat /\ text \in Seq(TextBytes)
  BY LenProperties DEF IsText
<1>1. Bodies(type, text, max_msg_len) = f[1]
  BY DEF Bodies, IsCut, Cut, b
<1>2. IsCut(text, b, f)
  BY CutExists DEF b
<1> HIDE DEF f
<1>3. \A i \in 1 .. n + 1 : f[i] = Cut(text, b, f, i)
  BY <1>2 DEF IsCut
<1>4. b \in Int /\ b > LongestCharacter
  BY DEF b
<1> HIDE DEF n
<1>5. ASSUME NEW i \in 1 .. n + 1,
             \A j \in i + 1 .. n + 1 : ShortParts(f[j], b)
      PROVE  ShortParts(f[i], b)
  <2>1. f[i] = Cut(text, b, f, i)
    BY <1>3
  <2>2. CASE i > n
    <3>1. f[i] = <<>>
      BY <2>1, <2>2 DEF Cut, n
    <3>2. <<>> \in Seq(Seq(TextBytes)) /\ Len(<<>>) = 0
      BY EmptySeq
    <3>. QED
      BY <3>1, <3>2 DEF ShortParts
  <2>3. CASE ~(i > n)
    <3> DEFINE end == PartEnd(text, i, b)
               next == SkipNewline(text, end)
               part == SubSeq(text, i, end - 1)
    <3>1. i \in 1 .. n
      BY <1>0, <2>3
    <3>2. end \in i .. n + 1 /\ end - i <= b /\ next \in i + 1 .. n + 1
      BY <1>4, <3>1, PartFacts DEF n
    <3>3. f[i] = <<part>> \o f[next]
      BY <2>1, <2>3 DEF Cut, n
    <3> HIDE DEF end, next
    <3>4. /\ i \in Int /\ end - 1 \in Int
          /\ \A j \in i .. end - 1 : text[j] \in TextBytes
      <4>1. \A j \in 1 .. n : text[j] \in TextBytes
        BY <1>0, ElementOfSeq DEF n
      <4>. QED
        BY <1>0, <3>1, <3>2, <4>1
    <3>5. part \in Seq(TextBytes) /\ Len(part) <= b
      <4>1. /\ part \in Seq(TextBytes)
            /\ Len(part) = IF i <= end - 1 THEN end - 1 - i + 1 ELSE 0
        BY <3>4, SubSeqProperties
      <4>. QED
        BY <1>0, <1>4, <3>1, <3>2, <4>1 DEF LongestCharacter
    <3> HIDE DEF part
    <3>. QED
      BY <1>4, <1>5, <3>2, <3>3, <3>5, ShortPartsJoined
  <2>. QED
    BY <2>2, <2>3
<1>6. 0 \in N
  BY <1>0, <1>5
<1>7. ASSUME NEW m \in Nat, m \in N PROVE m + 1 \in N
  <2>. SUFFICES ASSUME NEW i \in n + 1 - (m + 1) .. n + 1, i >= 1
                PROVE  ShortParts(f[i], b)
    OBVIOUS
  <2>1. \A j \in i + 1 .. n + 1 : ShortParts(f[j], b)
    BY <1>0, <1>7
  <2>. QED
    BY <1>0, <1>5, <2>1
<1> HIDE DEF N
<1>8. Nat \subseteq N
  BY <1>6, <1>7, SetInduction
<1>9. ShortParts(f[1], b)
  <2>1. n \in N /\ 1 \in n + 1 - n .. n + 1
    BY <1>0, <1>8
  <2>. QED
    BY <2>1 DEF N
<1>. QED
  BY <1>1, <1>9 DEF b

(* There is room for a text whatever is known of the relay prefix, and not *)
(* more than that prefix leaves.                                           *)
LEMMA RoomForText ==
    ASSUME relay_prefix \in {NoNick, Configured}, NEW type \in Types
    PROVE  /\ MaxBytes(type, MaxMessageLength) \in Int
           /\ MaxBytes(type, MaxMessageLength) > LongestCharacter
           /\ \A nick \in Nicks :
                 relay_prefix = NoNick \/ NickLength[nick] <= NickLength[Configured]
                 => PrefixLength(nick) + 2 + MaxMessageLength <= IRC_MSG_MAXLEN
<1>1. /\ IRC_MSG_MAXLEN \in Nat /\ PrefixAllowance \in Nat
      /\ HeaderLength[type] \in Nat /\ FooterLength(type) \in Nat
      /\ IRC_MSG_MAXLEN - PrefixAllowance - HeaderLength[type]
             - FooterLength(type) > LongestCharacter
  BY TextAssumption DEF FooterLength
<1>2. /\ Configured \in Nicks /\ UserHostLength \in Nat
      /\ \A nick \in Nicks :
            /\ NickLength[nick] \in Nat
            /\ NickLength[nick] + UserHostLength + 2 <= PrefixAllowance
  BY NicksAssumption, PrefixAssumption DEF PrefixLength
<1>3. CASE relay_prefix = NoNick
  <2>1. MaxMessageLength = IRC_MSG_MAXLEN - PrefixAllowance
    BY <1>3 DEF MaxMessageLength
  <2>. QED
    BY <1>1, <1>2, <1>3, <2>1
       DEF MaxBytes, PrefixLength, LongestCharacter
<1>4. CASE relay_prefix # NoNick
  <2>1. relay_prefix = Configured
    BY <1>4
  <2>2. MaxMessageLength =
            IRC_MSG_MAXLEN - (NickLength[Configured] + UserHostLength + 2)
    BY <1>4, <2>1 DEF MaxMessageLength, PrefixLength
  <2>. QED
    BY <1>1, <1>2, <1>4, <2>2
       DEF MaxBytes, PrefixLength, LongestCharacter
<1>. QED
  BY <1>3, <1>4

(* What was sent last is a text, cut to the room there still is.           *)
SentInv ==
    /\ about # "sent" => text_sent = Nothing
    /\ text_sent # Nothing =>
          /\ text_sent.type \in Types /\ IsText(text_sent.text)
          /\ text_sent.bodies =
                Bodies(text_sent.type, text_sent.text, MaxMessageLength)

LEMMA SentInvStep ==
    NicksInv /\ SentInv /\ [TransferNext]_transferVars => SentInv'
<1>. SUFFICES ASSUME NicksInv, SentInv, [TransferNext]_transferVars
              PROVE  SentInv'
  OBVIOUS
<1>1. about' = about
  BY DEF TransferNext, transferVars
<1>2. \/ text_sent' = Nothing
      \/ text_sent' = text_sent /\ UNCHANGED nicksVars
      \/ /\ about = "sent"
         /\ \E type \in Types, text \in SentTexts : SendText(type, text)
  <2>1. CASE about = "names"
    BY <2>1 DEF TransferNext, transferVars, SentInv
  <2>2. CASE about # "names"
    BY <2>2, Zenon DEF TransferNext, transferVars
  <2>. QED
    BY <2>1, <2>2
<1>3. CASE text_sent' = Nothing
  BY <1>1, <1>3 DEF SentInv
<1>4. CASE text_sent' = text_sent /\ UNCHANGED nicksVars
  <2>1. relay_prefix' = relay_prefix
    BY <1>4 DEF nicksVars, selfVars
  <2>2. MaxMessageLength' = MaxMessageLength
    BY <2>1 DEF MaxMessageLength
  <2>. QED
    BY <1>1, <1>4, <2>2 DEF SentInv
<1>5. ASSUME about = "sent", NEW type \in Types, NEW text \in SentTexts,
             SendText(type, text)
      PROVE  SentInv'
  <2>1. /\ text_sent'.type = type /\ text_sent'.text = text
        /\ text_sent'.bodies = Bodies(type, text, MaxMessageLength)
        /\ UNCHANGED nicksVars
    BY <1>5 DEF SendText
  <2>2. relay_prefix' = relay_prefix
    BY <2>1 DEF nicksVars, selfVars
  <2>3. MaxMessageLength' = MaxMessageLength
    BY <2>2 DEF MaxMessageLength
  <2>4. IsText(text)
    BY TextsSent
  <2>. QED
    BY <1>1, <1>5, <2>1, <2>3, <2>4 DEF SentInv
<1>. QED
  BY <1>2, <1>3, <1>4, <1>5

LEMMA SentInvCorrect == TransferSpec => []SentInv
<1>1. TransferInit => SentInv
  BY DEF TransferInit, SentInv
<1>. QED
  BY <1>1, SentInvStep, NicksInvCorrect, PTL DEF TransferSpec

(* A line is never too long for the server to relay, however long the text *)
(* and wherever its characters end, as long as the user's nickname is no   *)
(* longer than the one the connection was made with                        *)
(* (idle_text_encode_and_split(),                                          *)
(* idle_connection_get_max_message_length()).                              *)
THEOREM RelayedCorrect == TransferSpec => []RelayedLineFits
<1>1. NicksInv /\ SentInv => RelayedLineFits
  <2>. SUFFICES ASSUME NicksInv, SentInv, text_sent # Nothing,
                       \/ NickLength[server_nick] <= NickLength[Configured]
                       \/ relay_prefix = NoNick
                PROVE  Fit(PrefixLength(server_nick))
    BY DEF RelayedLineFits
  <2> DEFINE type == text_sent.type
             bodies == text_sent.bodies
             prefix == PrefixLength(server_nick)
             max == MaxMessageLength
  <2>1. /\ type \in Types /\ ShortParts(bodies, MaxBytes(type, max))
        /\ server_nick \in Nicks /\ relay_prefix \in {NoNick, Configured}
    <3>1. /\ type \in Types /\ IsText(text_sent.text)
          /\ bodies = Bodies(type, text_sent.text, MaxMessageLength)
          /\ server_nick \in Nicks /\ relay_prefix \in {NoNick, Configured}
      BY DEF SentInv, NicksInv, SelfTypes
    <3>2. ShortParts(Bodies(type, text_sent.text, MaxMessageLength),
                     MaxBytes(type, MaxMessageLength))
      BY <3>1, RoomForText, BodiesAreShort
    <3>. QED
      BY <3>1, <3>2
  <2>2. prefix + 2 + max <= IRC_MSG_MAXLEN
    BY <2>1, RoomForText
  <2>3. /\ prefix \in Int /\ max \in Int /\ IRC_MSG_MAXLEN \in Nat
        /\ HeaderLength[type] \in Nat /\ FooterLength(type) \in Nat
    BY <2>1, PrefixAssumption, TextAssumption, NicksAssumption
       DEF PrefixLength, FooterLength, MaxMessageLength
  <2> HIDE DEF type, bodies, prefix, max
  <2>4. ASSUME NEW i \in DOMAIN bodies
        PROVE  prefix + 2 + LineLength(type, bodies[i]) <= IRC_MSG_MAXLEN
    <3>1. /\ bodies \in Seq(Seq(TextBytes)) /\ i \in 1 .. Len(bodies)
          /\ Len(bodies[i]) <= MaxBytes(type, max)
      BY <2>1, <2>4 DEF ShortParts
    <3>2. Len(bodies[i]) \in Nat
      BY <3>1, ElementOfSeq, LenProperties
    <3>. QED
      BY <2>2, <2>3, <3>1, <3>2 DEF LineLength, MaxBytes
  <2>. QED
    BY <2>4 DEF Fit, type, bodies, prefix
<1>. QED
  BY <1>1, NicksInvCorrect, SentInvCorrect, PTL


-----------------------------------------------------------------------------
(* A turn of the loop once more: what it takes is free of newlines, and it *)
(* goes on behind the newline or where a character begins.                 *)
LEMMA PartIsClean ==
    ASSUME NEW text, IsText(text), NEW b \in Int, b > LongestCharacter,
           NEW i \in 1 .. Len(text), text[i] # "cont"
    PROVE  LET end == PartEnd(text, i, b)
               next == SkipNewline(text, end)
           IN  /\ \A j \in i .. end - 1 : text[j] # "newline"
               /\ next \in {end, end + 1}
               /\ next = end + 1 => end <= Len(text) /\ text[end] = "newline"
               /\ next <= Len(text) => text[next] # "cont"
               /\ end <= Len(text) /\ text[end] = "newline" => next = end + 1
<1> DEFINE n == Len(text)
           newlines == {j \in i .. n : text[j] = "newline"}
           starts == {j \in i .. i + b - 1 : text[j] # "cont"}
           end == PartEnd(text, i, b)
           next == SkipNewline(text, end)
<1>1. /\ n \in Nat /\ text \in Seq(TextBytes) /\ b >= 3
      /\ \A j \in 1 .. n : text[j] = "cont" => j > 1 /\ text[j - 1] = "lead"
  BY LenProperties DEF IsText, LongestCharacter
<1>2. end \in i .. n + 1 /\ end - i <= b /\ next \in i + 1 .. n + 1
  BY PartFacts
<1>3. /\ next = IF end <= n /\ text[end] = "newline" THEN end + 1 ELSE end
  BY DEF SkipNewline
<1>4. newlines \in SUBSET Nat
  BY <1>1
<1>5. newlines # {} => /\ Min(newlines) \in newlines
                       /\ \A j \in newlines : Min(newlines) <= j
  BY <1>4, MinFacts
<1>6. /\ newlines # {} /\ Min(newlines) - i < b => end = Min(newlines)
      /\ ~(newlines # {} /\ Min(newlines) - i < b) /\ n + 1 - i > b
             => end = Max(starts)
      /\ ~(newlines # {} /\ Min(newlines) - i < b) /\ ~(n + 1 - i > b)
             => end = n + 1
  BY DEF PartEnd, FindPrevChar
<1>7. \A j \in i .. n : text[j] = "newline" => j \in newlines
  OBVIOUS
<1>8. \A j \in newlines : j \in i .. n
  OBVIOUS
<1>9. ~(newlines # {} /\ Min(newlines) - i < b) /\ n + 1 - i > b
          => Max(starts) \in starts
  <2>. SUFFICES ASSUME n + 1 - i > b PROVE Max(starts) \in starts
    OBVIOUS
  <2>1. i \in starts
    BY <1>1
  <2>2. starts \in SUBSET (0 .. i + b) /\ starts # {} /\ i + b \in Nat
    BY <1>1, <2>1
  <2>. QED
    BY <2>2, MaxFacts
<1>10. \A j \in starts : text[j] # "cont"
  OBVIOUS
<1> HIDE DEF n, newlines, starts, end, next
<1>11. \A j \in i .. end - 1 : text[j] # "newline"
  <2>. SUFFICES ASSUME NEW j \in i .. end - 1, text[j] = "newline" PROVE FALSE
    OBVIOUS
  <2>1. j \in i .. n /\ j < end
    BY <1>1, <1>2 DEF n
  <2>2. j \in newlines
    BY <1>7, <2>1
  <2>3. Min(newlines) \in i .. n /\ Min(newlines) <= j
    BY <1>5, <1>8, <2>2
  <2>4. Min(newlines) - i < b
    BY <1>1, <1>2, <2>1, <2>3
  <2>5. end = Min(newlines)
    BY <1>6, <2>2, <2>4
  <2>. QED
    BY <2>1, <2>3, <2>5
<1>12. ASSUME next <= n PROVE text[next] # "cont"
  <2>1. CASE next # end
    <3>1. next = end + 1 /\ text[end] = "newline" /\ end \in Int
      BY <1>2, <1>3, <2>1
    <3>2. next \in 1 .. n /\ next - 1 = end
      BY <1>1, <1>2, <1>12, <3>1 DEF n
    <3>3. text[next] = "cont" => text[next - 1] = "lead"
      BY <1>1, <3>2
    <3>. QED
      BY <3>1, <3>2, <3>3
  <2>2. CASE next = end
    <3>1. CASE newlines # {} /\ Min(newlines) - i < b
      <4>1. end = Min(newlines) /\ Min(newlines) \in newlines
        BY <1>5, <1>6, <3>1
      <4>2. text[end] = "newline"
        BY <4>1 DEF newlines
      <4>. QED
        BY <2>2, <4>2
    <3>2. CASE ~(newlines # {} /\ Min(newlines) - i < b) /\ n + 1 - i > b
      BY <1>6, <1>9, <1>10, <2>2, <3>2
    <3>3. CASE ~(newlines # {} /\ Min(newlines) - i < b) /\ ~(n + 1 - i > b)
      BY <1>1, <1>6, <1>12, <2>2, <3>3
    <3>. QED
      BY <3>1, <3>2, <3>3
  <2>. QED
    BY <2>1, <2>2
<1>13. /\ next \in {end, end + 1}
       /\ next = end + 1 => end <= n /\ text[end] = "newline"
       /\ end <= n /\ text[end] = "newline" => next = end + 1
  BY <1>2, <1>3
<1>. QED
  BY <1>11, <1>12, <1>13 DEF n, end, next

NL == {"newline"}

(* The parts from byte i on, with what the property says of them.          *)
Rebuilds(text, parts, i) ==
    /\ parts \in Seq(Seq(TextBytes))
    /\ FlattenSeq(parts) = Without(SubSeq(text, i, Len(text)), NL)
    /\ \A k \in 1 .. Len(parts) : parts[k] # <<>> => Head(parts[k]) # "cont"
    /\ \A j \in i .. Len(text) : text[j] = "newline" =>
          \E k \in 0 .. Len(parts) :
              FlattenSeq(SubSeq(parts, 1, k)) = Without(SubSeq(text, i, j), NL)

(* What a part and what is skipped behind it leave of the text.            *)
Splits(text, i, end, next) ==
    \A j \in next - 1 .. Len(text) :
        Without(SubSeq(text, i, j), NL) =
            SubSeq(text, i, end - 1) \o Without(SubSeq(text, next, j), NL)

LEMMA PartAndRest ==
    ASSUME NEW text, IsText(text), NEW b \in Int, b > LongestCharacter,
           NEW i \in 1 .. Len(text), text[i] # "cont"
    PROVE  Splits(text, i, PartEnd(text, i, b),
                  SkipNewline(text, PartEnd(text, i, b)))
<1> DEFINE n == Len(text)
           end == PartEnd(text, i, b)
           next == SkipNewline(text, end)
           part == SubSeq(text, i, end - 1)
           gone == SubSeq(text, i, next - 1)
<1>1. n \in Nat /\ text \in Seq(TextBytes)
  BY LenProperties DEF IsText
<1>2. end \in i .. n + 1 /\ next \in i + 1 .. n + 1
  BY PartFacts
<1>3. /\ \A j \in i .. end - 1 : text[j] # "newline"
      /\ next \in {end, end + 1}
      /\ next = end + 1 => end <= n /\ text[end] = "newline"
  BY PartIsClean
<1> HIDE DEF end, next
<1>4. \A j \in 1 .. n : text[j] \in TextBytes
  BY <1>1, ElementOfSeq
<1>5. /\ \A m, k \in Int : 1 <= m /\ k <= n => SubSeq(text, m, k) \in Seq(TextBytes)
  <2>. SUFFICES ASSUME NEW m \in Int, NEW k \in Int, 1 <= m, k <= n
                PROVE  SubSeq(text, m, k) \in Seq(TextBytes)
    OBVIOUS
  <2>1. \A j \in m .. k : text[j] \in TextBytes
    BY <1>1, <1>4
  <2>. QED
    BY <2>1, SubSeqProperties
<1>6. part \in Seq(TextBytes) /\ gone \in Seq(TextBytes)
  BY <1>1, <1>2, <1>5
<1>7. Without(part, NL) = part
  <2>1. /\ Len(part) = IF i <= end - 1 THEN end - 1 - i + 1 ELSE 0
        /\ \A j \in 1 .. end - 1 - i + 1 : part[j] = text[i + j - 1]
    <3>1. /\ i \in Int /\ end - 1 \in Int
          /\ \A j \in i .. end - 1 : text[j] \in TextBytes
      BY <1>1, <1>2, <1>4
    <3>. QED
      BY <3>1, SubSeqProperties
  <2> HIDE DEF part, n
  <2>2. ASSUME NEW j \in 1 .. Len(part) PROVE part[j] # "newline"
    <3>1. j \in 1 .. end - 1 - i + 1 /\ i + j - 1 \in i .. end - 1
      BY <1>1, <1>2, <2>1
    <3>. QED
      BY <1>3, <2>1, <3>1
  <2>. QED
    BY <1>6, <2>2, WithoutSome DEF NL
<1>8. Without(gone, NL) = part
  <2>1. CASE next = end
    BY <1>7, <2>1
  <2>2. CASE next = end + 1
    <3>1. next - 1 = end /\ end \in i .. n /\ text[end] = "newline"
      BY <1>1, <1>2, <1>3, <2>2
    <3>2. gone = part \o <<text[end]>>
      <4>1. i \in 1 .. Len(text) /\ end \in i .. Len(text)
        BY <3>1
      <4>2. SubSeq(text, i, end) = SubSeq(text, i, end - 1) \o <<text[end]>>
        BY <1>1, <4>1, SubSeqRecursiveSecond
      <4>. QED
        BY <3>1, <4>2, Zenon
    <3>3. Without(<<"newline">>, NL) = <<>> /\ <<"newline">> \in Seq(TextBytes)
      <4>1. <<"newline">> \in Seq(TextBytes)
        BY DEF TextBytes
      <4>2. \A j \in 1 .. Len(<<"newline">>) : <<"newline">>[j] \in NL
        BY DEF NL
      <4>. QED
        BY <4>1, <4>2, WithoutSome
    <3> HIDE DEF gone, part
    <3>4. Without(gone, NL) = Without(part, NL) \o Without(<<"newline">>, NL)
      BY <1>6, <3>1, <3>2, <3>3, WithoutConcat
    <3>. QED
      BY <1>6, <1>7, <3>3, <3>4, ConcatEmptySeq
  <2>. QED
    BY <1>3, <2>1, <2>2
<1>9. ASSUME NEW j \in next - 1 .. n
      PROVE  Without(SubSeq(text, i, j), NL) =
                 part \o Without(SubSeq(text, next, j), NL)
  <2> DEFINE k == next - 1
             rest == SubSeq(text, next, j)
  <2>1. i \in 1 .. Len(text) + 1 /\ k \in i - 1 .. Len(text) /\ j \in k .. Len(text)
        /\ k + 1 = next
    BY <1>1, <1>2, <1>9
  <2>2. rest \in Seq(TextBytes)
    BY <1>1, <1>2, <1>5, <1>9
  <2>3. gone \o rest = SubSeq(text, i, j)
    <3> HIDE DEF k, rest
    <3>1. SubSeq(text, i, k) \o SubSeq(text, k + 1, j) = SubSeq(text, i, j)
      BY ONLY <1>1, <2>1, ConcatAdjacentSubSeq
    <3>2. SubSeq(text, i, k) \o SubSeq(text, next, j) = SubSeq(text, i, j)
      BY <2>1, <3>1, Zenon
    <3>. QED
      BY <3>2, Zenon DEF k, rest
  <2> HIDE DEF gone, part, rest
  <2>4. Without(gone \o rest, NL) = Without(gone, NL) \o Without(rest, NL)
    BY <1>6, <2>2, WithoutConcat
  <2>. QED
    BY <1>8, <2>3, <2>4 DEF rest
<1>. QED
  BY <1>9 DEF n, part, end, next, Splits


LEMMA RebuildsStep ==
    ASSUME NEW text, IsText(text), NEW b \in Int, b > LongestCharacter,
           NEW i \in 1 .. Len(text), text[i] # "cont",
           NEW end, end = PartEnd(text, i, b),
           NEW next, next = SkipNewline(text, end),
           NEW parts, Rebuilds(text, parts, next)
    PROVE  Rebuilds(text, <<SubSeq(text, i, end - 1)>> \o parts, i)
<1>0. Splits(text, i, end, next)
  BY PartAndRest
<1> DEFINE n == Len(text)
           part == SubSeq(text, i, end - 1)
           one == <<part>>
           all == one \o parts
<1>1. /\ n \in Nat /\ text \in Seq(TextBytes)
      /\ \A j \in 1 .. n : text[j] \in TextBytes
  BY LenProperties, ElementOfSeq DEF IsText
<1>2. end \in i .. n + 1 /\ next \in i + 1 .. n + 1
  BY PartFacts
<1>3. /\ \A j \in i .. end - 1 : text[j] # "newline"
      /\ next \in {end, end + 1}
      /\ end <= n /\ text[end] = "newline" => next = end + 1
  BY PartIsClean
<1>4. \A j \in next - 1 .. n :
          Without(SubSeq(text, i, j), NL) =
              part \o Without(SubSeq(text, next, j), NL)
  BY <1>0, Zenon DEF Splits
<1>5. /\ parts \in Seq(Seq(TextBytes))
      /\ FlattenSeq(parts) = Without(SubSeq(text, next, n), NL)
      /\ \A k \in 1 .. Len(parts) : parts[k] # <<>> => Head(parts[k]) # "cont"
      /\ \A j \in next .. n : text[j] = "newline" =>
            \E k \in 0 .. Len(parts) :
                FlattenSeq(SubSeq(parts, 1, k)) = Without(SubSeq(text, next, j), NL)
      /\ Len(parts) \in Nat
  BY LenProperties DEF Rebuilds
<1>6. /\ part \in Seq(TextBytes)
      /\ part # <<>> => Head(part) = text[i]
  <2>1. /\ i \in Int /\ end - 1 \in Int
        /\ \A j \in i .. end - 1 : text[j] \in TextBytes
    BY <1>1, <1>2
  <2>2. /\ part \in Seq(TextBytes)
        /\ Len(part) = IF i <= end - 1 THEN end - 1 - i + 1 ELSE 0
        /\ \A j \in 1 .. end - 1 - i + 1 : part[j] = text[i + j - 1]
    BY <2>1, SubSeqProperties
  <2> HIDE DEF part, n
  <2>3. ASSUME part # <<>> PROVE Head(part) = text[i]
    <3>1. Head(part) = part[1] /\ Len(part) # 0
      BY <2>2, <2>3, EmptySeq
    <3>2. 1 \in 1 .. end - 1 - i + 1 /\ i + 1 - 1 = i
      BY <1>1, <1>2, <2>2, <3>1
    <3>. QED
      BY <2>2, <3>1, <3>2
  <2>. QED
    BY <2>2, <2>3
<1>7. one \in Seq(Seq(TextBytes)) /\ Len(one) = 1 /\ one[1] = part
  BY <1>6
<1>8. FlattenSeq(one) = part
  BY FlatOne
<1> HIDE DEF n, one, part
<1>9. /\ all \in Seq(Seq(TextBytes)) /\ Len(all) = 1 + Len(parts)
      /\ \A k \in 1 .. 1 + Len(parts) :
            all[k] = IF k <= 1 THEN one[k] ELSE parts[k - 1]
  <2>1. /\ all \in Seq(Seq(TextBytes)) /\ Len(all) = Len(one) + Len(parts)
        /\ \A k \in 1 .. Len(one) + Len(parts) :
              all[k] = IF k <= Len(one) THEN one[k] ELSE parts[k - Len(one)]
    BY <1>5, <1>7, ConcatProperties
  <2>. QED
    BY <1>7, <2>1
<1>10. \A t \in Seq(Seq(TextBytes)) : FlattenSeq(one \o t) = part \o FlattenSeq(t)
  BY <1>7, <1>8, FlatConcat
<1>11. FlattenSeq(all) = Without(SubSeq(text, i, n), NL)
  <2>1. n \in next - 1 .. n
    BY <1>1, <1>2
  <2>. QED
    BY <1>4, <1>5, <1>10, <2>1
<1>12. ASSUME NEW k \in 1 .. Len(all), all[k] # <<>>
       PROVE  Head(all[k]) # "cont"
  <2> HIDE DEF all
  <2>1. CASE k = 1
    <3>1. all[k] = part
      BY <1>5, <1>7, <1>9, <2>1
    <3>. QED
      BY <1>6, <1>12, <3>1
  <2>2. CASE k # 1
    <3>1. all[k] = parts[k - 1] /\ k - 1 \in 1 .. Len(parts)
      BY <1>5, <1>9, <2>2
    <3>. QED
      BY <1>5, <1>12, <3>1
  <2>. QED
    BY <2>1, <2>2
<1>13. \A k \in 0 .. Len(parts) : SubSeq(all, 1, k + 1) = one \o SubSeq(parts, 1, k)
  <2>. SUFFICES ASSUME NEW k \in 0 .. Len(parts)
                PROVE  SubSeq(all, 1, k + 1) = one \o SubSeq(parts, 1, k)
    OBVIOUS
  <2> HIDE DEF all
  <2>1. /\ SubSeq(all, 1, k + 1) \in Seq(Seq(TextBytes))
        /\ Len(SubSeq(all, 1, k + 1)) = k + 1
        /\ \A j \in 1 .. k + 1 : SubSeq(all, 1, k + 1)[j] = all[j]
    <3>0. 1 \in Int /\ k + 1 \in Int
      BY <1>5
    <3>1. \A j \in 1 .. k + 1 : all[j] \in Seq(TextBytes)
      BY <1>5, <1>9, ElementOfSeq
    <3>2. /\ SubSeq(all, 1, k + 1) \in Seq(Seq(TextBytes))
          /\ Len(SubSeq(all, 1, k + 1)) = IF 1 <= k + 1 THEN k + 1 - 1 + 1 ELSE 0
          /\ \A j \in 1 .. k + 1 - 1 + 1 : SubSeq(all, 1, k + 1)[j] = all[1 + j - 1]
      BY <3>0, <3>1, SubSeqProperties
    <3>3. k + 1 - 1 + 1 = k + 1 /\ 1 <= k + 1
      BY <1>5
    <3>4. \A j \in 1 .. k + 1 : 1 + j - 1 = j
      OBVIOUS
    <3>. QED
      BY <3>2, <3>3, <3>4, Zenon
  <2>2. /\ SubSeq(parts, 1, k) \in Seq(Seq(TextBytes))
        /\ Len(SubSeq(parts, 1, k)) = k
        /\ \A j \in 1 .. k : SubSeq(parts, 1, k)[j] = parts[j]
    <3>0. 1 \in Int /\ k \in Int
      BY <1>5
    <3>1. \A j \in 1 .. k : parts[j] \in Seq(TextBytes)
      BY <1>5, ElementOfSeq
    <3>2. /\ SubSeq(parts, 1, k) \in Seq(Seq(TextBytes))
          /\ Len(SubSeq(parts, 1, k)) = IF 1 <= k THEN k - 1 + 1 ELSE 0
          /\ \A j \in 1 .. k - 1 + 1 : SubSeq(parts, 1, k)[j] = parts[1 + j - 1]
      BY <3>0, <3>1, SubSeqProperties
    <3>3. k - 1 + 1 = k /\ (~(1 <= k) => k = 0)
      BY <1>5
    <3>4. \A j \in 1 .. k : 1 + j - 1 = j
      OBVIOUS
    <3>. QED
      BY <3>2, <3>3, <3>4, Zenon
  <2> DEFINE u == SubSeq(all, 1, k + 1)
             v == SubSeq(parts, 1, k)
             w == one \o v
  <2> HIDE DEF u, v
  <2>3. /\ w \in Seq(Seq(TextBytes)) /\ Len(w) = 1 + k
        /\ \A j \in 1 .. 1 + k : w[j] = IF j <= 1 THEN one[j] ELSE v[j - 1]
    <3>1. /\ w \in Seq(Seq(TextBytes)) /\ Len(w) = Len(one) + Len(v)
          /\ \A j \in 1 .. Len(one) + Len(v) :
                w[j] = IF j <= Len(one) THEN one[j] ELSE v[j - Len(one)]
      BY <1>7, <2>2, ConcatProperties DEF v
    <3>. QED
      BY <1>7, <2>2, <3>1 DEF v
  <2> HIDE DEF w
  <2>4. \A j \in 1 .. k + 1 : u[j] = w[j]
    <3>. SUFFICES ASSUME NEW j \in 1 .. k + 1 PROVE u[j] = w[j]
      OBVIOUS
    <3>1. u[j] = all[j] /\ j \in 1 .. 1 + Len(parts) /\ j \in 1 .. 1 + k
      BY <1>5, <2>1 DEF u
    <3>2. CASE j <= 1
      BY <1>9, <2>3, <3>1, <3>2
    <3>3. CASE ~(j <= 1)
      <4>1. j - 1 \in 1 .. k
        BY <3>3
      <4>2. v[j - 1] = parts[j - 1]
        BY <2>2, <4>1 DEF v
      <4>. QED
        BY <1>9, <2>3, <3>1, <3>3, <4>2
    <3>. QED
      BY <3>2, <3>3
  <2>5. u = w
    <3>1. u \in Seq(Seq(TextBytes)) /\ Len(u) = Len(w)
      BY <2>1, <2>3 DEF u
    <3>2. \A j \in 1 .. Len(u) : u[j] = w[j]
      BY <2>1, <2>4 DEF u
    <3>. QED
      BY <2>3, <3>1, <3>2, SeqEqual
  <2>. QED
    BY <2>5 DEF u, v, w
<1>14. ASSUME NEW j \in i .. n, text[j] = "newline"
       PROVE  \E k \in 0 .. Len(all) :
                  FlattenSeq(SubSeq(all, 1, k)) = Without(SubSeq(text, i, j), NL)
  <2>1. j \in next - 1 .. n /\ end <= j
    <3>1. ~(j \in i .. end - 1)
      BY <1>3, <1>14
    <3>2. end <= j
      BY <1>1, <1>2, <3>1
    <3>3. j = end => next = end + 1
      BY <1>1, <1>3, <1>14
    <3>. QED
      BY <1>1, <1>2, <1>3, <3>2, <3>3
  <2>2. \E k \in 0 .. Len(parts) :
            FlattenSeq(SubSeq(parts, 1, k)) = Without(SubSeq(text, next, j), NL)
    <3>1. CASE j \in next .. n
      BY <1>5, <1>14, <3>1
    <3>2. CASE ~(j \in next .. n)
      <4>1. j < next /\ j \in Int /\ next \in Int
        BY <1>1, <1>2, <2>1, <3>2
      <4>2. SubSeq(text, next, j) = <<>> /\ SubSeq(parts, 1, 0) = <<>>
        BY <4>1, SubSeqEmpty
      <4>3. FlattenSeq(SubSeq(parts, 1, 0)) = Without(SubSeq(text, next, j), NL)
        BY <4>2, FlatNothing, WithoutNothing
      <4>. QED
        BY <1>5, <4>3
    <3>. QED
      BY <3>1, <3>2
  <2>3. PICK k \in 0 .. Len(parts) :
            FlattenSeq(SubSeq(parts, 1, k)) = Without(SubSeq(text, next, j), NL)
    BY <2>2
  <2>4. SubSeq(parts, 1, k) \in Seq(Seq(TextBytes))
    <3>1. \A m \in 1 .. k : parts[m] \in Seq(TextBytes)
      BY <1>5, ElementOfSeq
    <3>. QED
      BY <3>1, SubSeqProperties
  <2>5. FlattenSeq(SubSeq(all, 1, k + 1)) = Without(SubSeq(text, i, j), NL)
    BY <1>4, <1>10, <1>13, <2>1, <2>3, <2>4
  <2>6. k + 1 \in 0 .. Len(all)
    BY <1>5, <1>9
  <2>. QED
    BY <2>5, <2>6
<1> HIDE DEF all
<1>15. Rebuilds(text, all, i)
  BY <1>9, <1>11, <1>12, <1>14 DEF Rebuilds, n
<1>. QED
  BY <1>15 DEF all, one, part

LEMMA BodiesRebuild ==
    ASSUME NEW text, IsText(text), NEW type, NEW max_msg_len,
           MaxBytes(type, max_msg_len) \in Int,
           MaxBytes(type, max_msg_len) > LongestCharacter
    PROVE  Rebuilds(text, Bodies(type, text, max_msg_len), 1)
<1> DEFINE b == MaxBytes(type, max_msg_len)
           n == Len(text)
           f == CHOOSE g : IsCut(text, b, g)
           N == {m \in Nat : \A i \in n + 1 - m .. n + 1 :
                     i >= 1 /\ (i <= n => text[i] # "cont")
                         => Rebuilds(text, f[i], i)}
<1> HIDE DEF b
<1>0. n \in Nat /\ text \in Seq(TextBytes) /\ n > 0 /\ text[1] # "cont"
  BY LenProperties, EmptySeq DEF IsText
<1>1. Bodies(type, text, max_msg_len) = f[1]
  BY DEF Bodies, IsCut, Cut, b
<1>2. IsCut(text, b, f)
  BY CutExists DEF b
<1> HIDE DEF f
<1>3. \A i \in 1 .. n + 1 : f[i] = Cut(text, b, f, i)
  BY <1>2 DEF IsCut
<1>4. b \in Int /\ b > LongestCharacter
  BY DEF b
<1> HIDE DEF n
<1>5. ASSUME NEW i \in 1 .. n + 1, i <= n => text[i] # "cont",
             \A j \in i + 1 .. n + 1 :
                 (j <= n => text[j] # "cont") => Rebuilds(text, f[j], j)
      PROVE  Rebuilds(text, f[i], i)
  <2>1. f[i] = Cut(text, b, f, i)
    BY <1>3
  <2>2. CASE i > n
    <3>1. f[i] = <<>>
      BY <2>1, <2>2 DEF Cut, n
    <3>2. <<>> \in Seq(Seq(TextBytes)) /\ Len(<<>>) = 0
      BY EmptySeq
    <3>3. SubSeq(text, i, n) = <<>>
      BY <1>0, <2>2, SubSeqEmpty
    <3>4. FlattenSeq(f[i]) = Without(SubSeq(text, i, n), NL)
      BY <3>1, <3>3, FlatNothing, WithoutNothing
    <3>5. \A j \in i .. n : FALSE
      BY <1>0, <2>2
    <3>. QED
      BY <3>1, <3>2, <3>4, <3>5 DEF Rebuilds, n
  <2>3. CASE ~(i > n)
    <3> DEFINE end == PartEnd(text, i, b)
               next == SkipNewline(text, end)
    <3>1. i \in 1 .. Len(text) /\ text[i] # "cont"
      BY <1>0, <1>5, <2>3 DEF n
    <3>2. next \in i + 1 .. n + 1
      BY <1>4, <3>1, PartFacts DEF n
    <3>3. next <= n => text[next] # "cont"
      BY <1>4, <3>1, PartIsClean DEF n
    <3>4. f[i] = <<SubSeq(text, i, end - 1)>> \o f[next]
      BY <2>1, <2>3 DEF Cut, n
    <3>5. Rebuilds(text, f[next], next)
      <4> HIDE DEF next
      <4>. QED
        BY <1>5, <3>2, <3>3
    <3>6. Rebuilds(text, <<SubSeq(text, i, end - 1)>> \o f[next], i)
      BY <1>4, <3>1, <3>5, RebuildsStep
    <3>. QED
      BY <3>4, <3>6
  <2>. QED
    BY <2>2, <2>3
<1>6. 0 \in N
  <2>. SUFFICES ASSUME NEW i \in n + 1 - 0 .. n + 1, i >= 1,
                       i <= n => text[i] # "cont"
                PROVE  Rebuilds(text, f[i], i)
    OBVIOUS
  <2>1. i \in 1 .. n + 1 /\ \A j \in i + 1 .. n + 1 : FALSE
    BY <1>0
  <2>. QED
    BY <1>5, <2>1
<1>7. ASSUME NEW m \in Nat, m \in N PROVE m + 1 \in N
  <2>. SUFFICES ASSUME NEW i \in n + 1 - (m + 1) .. n + 1, i >= 1,
                       i <= n => text[i] # "cont"
                PROVE  Rebuilds(text, f[i], i)
    OBVIOUS
  <2>1. i \in 1 .. n + 1
        /\ \A j \in i + 1 .. n + 1 : j \in n + 1 - m .. n + 1 /\ j >= 1
    BY <1>0
  <2>2. \A j \in i + 1 .. n + 1 :
            (j <= n => text[j] # "cont") => Rebuilds(text, f[j], j)
    BY <1>7, <2>1
  <2>. QED
    BY <1>5, <2>1, <2>2
<1> HIDE DEF N
<1>8. Nat \subseteq N
  BY <1>6, <1>7, SetInduction
<1>9. Rebuilds(text, f[1], 1)
  <2>1. n \in N /\ 1 \in n + 1 - n .. n + 1
    BY <1>0, <1>8
  <2>. QED
    BY <1>0, <2>1 DEF N
<1>. QED
  BY <1>1, <1>9


(* However a text is cut, its parts put together are the text without its  *)
(* newlines, no part begins inside a character, and every newline is a     *)
(* break between two parts (idle_text_encode_and_split()).                 *)
THEOREM PartsCorrect == TransferSpec => []PartsRebuildText
<1>1. NicksInv /\ SentInv => PartsRebuildText
  <2>. SUFFICES ASSUME NicksInv, SentInv, text_sent # Nothing
                PROVE  PartsRebuildText
    BY DEF PartsRebuildText
  <2> DEFINE type == text_sent.type
             bodies == text_sent.bodies
             text == text_sent.text
  <2>1. /\ type \in Types /\ IsText(text)
        /\ bodies = Bodies(type, text, MaxMessageLength)
        /\ relay_prefix \in {NoNick, Configured}
    BY DEF SentInv, NicksInv, SelfTypes
  <2>2. Rebuilds(text, bodies, 1)
    BY <2>1, RoomForText, BodiesRebuild
  <2> HIDE DEF type, bodies, text
  <2>3. SubSeq(text, 1, Len(text)) = text /\ DOMAIN text = 1 .. Len(text)
    BY <2>1, SubSeqFull, LenProperties DEF IsText
  <2>4. /\ bodies \in Seq(Seq(TextBytes)) /\ DOMAIN bodies = 1 .. Len(bodies)
        /\ FlattenSeq(bodies) = Without(text, NL)
        /\ \A k \in DOMAIN bodies : bodies[k] # <<>> => Head(bodies[k]) # "cont"
        /\ \A i \in DOMAIN text : text[i] = "newline" =>
              \E k \in 0 .. Len(bodies) :
                 FlattenSeq(SubSeq(bodies, 1, k)) = Without(SubSeq(text, 1, i), NL)
    BY <2>2, <2>3, LenProperties DEF Rebuilds
  <2>5. \A i \in DOMAIN text : text[i] = "newline" =>
            \E k \in 0 .. Len(bodies) :
               Len(FlattenSeq(SubSeq(bodies, 1, k)))
                   = Len(Without(SubSeq(text, 1, i), NL))
    BY <2>4, Zenon
  <2>. QED
    BY <2>4, <2>5, Zenon DEF PartsRebuildText, NL, type, bodies, text
<1>. QED
  BY <1>1, NicksInvCorrect, SentInvCorrect, PTL


(* What idle_ctcp_kill_blingbling() has made of a message from byte i on.  *)
Clean(msg, f, i) ==
    IF i > Len(msg) THEN <<>>
    ELSE IF msg[i] = "^C" THEN f[SkipColour(msg, i + 1)]
    ELSE IF msg[i] = "^B" THEN f[i + 1]
    ELSE <<msg[i]>> \o f[i + 1]

IsClean(msg, f) == f = [i \in 1 .. Len(msg) + 1 |-> Clean(msg, f, i)]

ColourBytes == {"digit", "comma"}

(* Only digits and commas go with a ^C.                                    *)
LEMMA ColourFacts ==
    ASSUME NEW A, NEW msg \in Seq(A), NEW i \in 1 .. Len(msg) + 1
    PROVE  /\ SkipColour(msg, i) \in i .. Len(msg) + 1
           /\ \A j \in i .. SkipColour(msg, i) - 1 : msg[j] \in ColourBytes
<1>1. Len(msg) \in Nat
  BY LenProperties
<1>2. ASSUME NEW k \in 1 .. Len(msg) + 1
      PROVE  /\ SkipDigits(msg, k) \in k .. Len(msg) + 1
             /\ \A j \in k .. SkipDigits(msg, k) - 1 : msg[j] = "digit"
  BY <1>1 DEF SkipDigits, SkipDigit
<1> DEFINE j == SkipDigits(msg, i)
<1>3. /\ j \in i .. Len(msg) + 1
      /\ \A m \in i .. j - 1 : msg[m] = "digit"
  BY <1>2
<1> HIDE DEF j
<1>4. CASE j <= Len(msg) /\ msg[j] = "comma"
  <2> DEFINE k == SkipDigits(msg, j + 1)
  <2>1. SkipColour(msg, i) = k
    BY <1>4 DEF SkipColour, j
  <2>2. j + 1 \in 1 .. Len(msg) + 1
    BY <1>1, <1>3, <1>4
  <2>3. /\ k \in j + 1 .. Len(msg) + 1
        /\ \A m \in j + 1 .. k - 1 : msg[m] = "digit"
    BY <1>2, <2>2
  <2> HIDE DEF k
  <2>4. ASSUME NEW m \in i .. k - 1 PROVE msg[m] \in ColourBytes
    <3>1. m \in i .. j - 1 \/ m = j \/ m \in j + 1 .. k - 1
      BY <1>1, <1>3, <2>3
    <3>. QED
      BY <1>3, <1>4, <2>3, <3>1 DEF ColourBytes
  <2>. QED
    BY <1>1, <1>3, <2>1, <2>3, <2>4
<1>5. CASE ~(j <= Len(msg) /\ msg[j] = "comma")
  <2>1. SkipColour(msg, i) = j
    BY <1>5 DEF SkipColour, j
  <2>. QED
    BY <1>3, <2>1 DEF ColourBytes
<1>. QED
  BY <1>4, <1>5

LEMMA CleansSame ==
    ASSUME NEW A, NEW msg \in Seq(A),
           NEW i \in 1 .. Len(msg) + 1, NEW f, NEW g,
           \A j \in i + 1 .. Len(msg) + 1 : f[j] = g[j]
    PROVE  Clean(msg, f, i) = Clean(msg, g, i)
<1>1. CASE i > Len(msg)
  BY <1>1 DEF Clean
<1>2. CASE ~(i > Len(msg))
  <2> DEFINE next == SkipColour(msg, i + 1)
  <2>1. /\ Len(msg) \in Nat /\ i + 1 \in 1 .. Len(msg) + 1
        /\ i + 1 \in i + 1 .. Len(msg) + 1
    BY <1>2, LenProperties
  <2>2. next \in i + 1 .. Len(msg) + 1
    BY <2>1, ColourFacts
  <2> HIDE DEF next
  <2>3. f[next] = g[next] /\ f[i + 1] = g[i + 1]
    BY <2>1, <2>2
  <2>. QED
    BY <1>2, <2>3 DEF Clean, next
<1>. QED
  BY <1>1, <1>2

LEMMA CleanExists ==
    ASSUME NEW A, NEW msg \in Seq(A)
    PROVE  \E f : IsClean(msg, f)
<1> DEFINE n == Len(msg)
           Is(f, m) == f = [i \in n + 1 - m .. n + 1 |-> Clean(msg, f, i)]
           N == {m \in Nat : m <= n => \E f : Is(f, m)}
<1>0. n \in Nat
  BY LenProperties
<1>1. 0 \in N
  <2> DEFINE f == [i \in n + 1 - 0 .. n + 1 |-> <<>>]
  <2>1. \A i \in n + 1 - 0 .. n + 1 : Clean(msg, f, i) = <<>>
    BY <1>0 DEF Clean
  <2>2. Is(f, 0)
    <3> HIDE DEF n
    <3>. QED
      BY <2>1
  <2> HIDE DEF f, Is
  <2>. QED
    BY <2>2
<1>2. ASSUME NEW m \in Nat, m \in N PROVE m + 1 \in N
  <2>. SUFFICES ASSUME m + 1 <= n PROVE \E f : Is(f, m + 1)
    OBVIOUS
  <2>1. \E f : Is(f, m)
    BY <1>0, <1>2
  <2>2. PICK f : Is(f, m)
    BY <2>1
  <2> DEFINE k == n + 1 - (m + 1)
             g == [i \in k .. n + 1 |-> IF i = k THEN Clean(msg, f, k)
                                        ELSE f[i]]
  <2>3. k \in 1 .. n + 1 /\ n + 1 - m = k + 1
    BY <1>0
  <2> HIDE DEF k, n
  <2>4. \A j \in k + 1 .. n + 1 : g[j] = f[j] /\ f[j] = Clean(msg, f, j)
    <3>1. f = [j \in k + 1 .. n + 1 |-> Clean(msg, f, j)]
      BY <2>2, <2>3
    <3>2. \A j \in k + 1 .. n + 1 : f[j] = Clean(msg, f, j)
      BY <3>1
    <3>3. \A j \in k + 1 .. n + 1 : j # k /\ j \in k .. n + 1
      BY <1>0, <2>3
    <3>. QED
      BY <3>2, <3>3
  <2> HIDE DEF Is
  <2>5. ASSUME NEW i \in k .. n + 1
        PROVE  g[i] = Clean(msg, g, i)
    <3>1. i \in 1 .. n + 1 /\ \A j \in i + 1 .. n + 1 : j \in k + 1 .. n + 1
      BY <1>0, <2>3
    <3> HIDE DEF g
    <3>2. \A j \in i + 1 .. n + 1 : g[j] = f[j]
      BY <2>4, <3>1
    <3>3. Clean(msg, g, i) = Clean(msg, f, i)
      BY <3>1, <3>2, CleansSame DEF n
    <3>4. CASE i = k
      BY <3>3, <3>4 DEF g
    <3>5. CASE i # k
      <4>1. i \in k + 1 .. n + 1
        BY <1>0, <2>3, <3>5
      <4>. QED
        BY <2>4, <3>3, <4>1
    <3>. QED
      BY <3>4, <3>5
  <2>6. g = [i \in k .. n + 1 |-> Clean(msg, g, i)]
    <3>1. g = [i \in k .. n + 1 |-> g[i]]
      OBVIOUS
    <3> HIDE DEF g
    <3>. QED
      BY <2>5, <3>1
  <2>7. Is(g, m + 1)
    <3> HIDE DEF g
    <3>. QED
      BY <2>6 DEF Is, k
  <2> HIDE DEF g
  <2>. QED
    BY <2>7
<1> HIDE DEF N
<1>3. Nat \subseteq N
  BY <1>1, <1>2, SetInduction
<1>4. n \in N /\ n + 1 - n = 1
  BY <1>0, <1>3
<1>5. \E f : Is(f, n)
  BY <1>0, <1>4 DEF N
<1>6. PICK f : Is(f, n)
  BY <1>5
<1> HIDE DEF n
<1>7. f = [i \in 1 .. n + 1 |-> Clean(msg, f, i)]
  BY <1>4, <1>6
<1>. QED
  BY <1>7 DEF IsClean, n

(* What is shown of a message from byte i on: it has no control byte, is   *)
(* the message where that has none, and loses nothing else but digits and  *)
(* commas.                                                                 *)
Shows(msg, out, i) ==
    /\ out \in Seq(TextBytes)
    /\ \A k \in 1 .. Len(out) : out[k] \notin Controls
    /\ (\A j \in i .. Len(msg) : msg[j] \notin Controls)
           => out = SubSeq(msg, i, Len(msg))
    /\ Without(out, ColourBytes)
           = Without(SubSeq(msg, i, Len(msg)), ColourBytes \cup Controls)

(* A control byte and what goes with it.                                   *)
LEMMA ControlGoes ==
    ASSUME NEW msg \in Seq(TextBytes), NEW i \in 1 .. Len(msg),
           NEW next \in i + 1 .. Len(msg) + 1, msg[i] \in Controls,
           \A j \in i .. next - 1 : msg[j] \in ColourBytes \cup Controls,
           NEW out, Shows(msg, out, next)
    PROVE  Shows(msg, out, i)
<1> DEFINE n == Len(msg)
           D == ColourBytes \cup Controls
           k == next - 1
           gone == SubSeq(msg, i, k)
           rest == SubSeq(msg, next, n)
<1>1. /\ n \in Nat /\ \A j \in 1 .. n : msg[j] \in TextBytes
      /\ k \in Int /\ k + 1 = next /\ k \in i - 1 .. n /\ n \in k .. n
      /\ i \in i .. n /\ i \in 1 .. n + 1
  BY LenProperties, ElementOfSeq
<1>2. /\ gone \in Seq(TextBytes)
      /\ \A j \in 1 .. Len(gone) : gone[j] \in D
  <2>1. /\ i \in Int /\ \A j \in i .. k : msg[j] \in TextBytes
    BY <1>1
  <2>2. /\ gone \in Seq(TextBytes)
        /\ Len(gone) = IF i <= k THEN k - i + 1 ELSE 0
        /\ \A j \in 1 .. k - i + 1 : gone[j] = msg[i + j - 1]
    BY <1>1, <2>1, SubSeqProperties
  <2> HIDE DEF gone, D, n
  <2>3. ASSUME NEW j \in 1 .. Len(gone) PROVE gone[j] \in D
    <3>1. j \in 1 .. k - i + 1 /\ i + j - 1 \in i .. next - 1
      BY <1>1, <2>2
    <3>. QED
      BY <2>2, <3>1 DEF D
  <2>. QED
    BY <2>2, <2>3
<1>3. rest \in Seq(TextBytes)
  <2>1. next \in Int /\ \A j \in next .. n : msg[j] \in TextBytes
    BY <1>1
  <2>. QED
    BY <1>1, <2>1, SubSeqProperties
<1>4. gone \o rest = SubSeq(msg, i, n)
  <2> HIDE DEF k
  <2>1. SubSeq(msg, i, k) \o SubSeq(msg, k + 1, n) = SubSeq(msg, i, n)
    BY ONLY msg \in Seq(TextBytes), <1>1, ConcatAdjacentSubSeq DEF n
  <2>. QED
    BY <1>1, <2>1, Zenon
<1> HIDE DEF gone, D, n, k, rest
<1>5. Without(gone \o rest, D) = Without(rest, D)
  <2>1. Without(gone \o rest, D) = Without(gone, D) \o Without(rest, D)
    BY <1>2, <1>3, WithoutConcat
  <2>2. Without(gone, D) = <<>> /\ Without(rest, D) \in Seq(TextBytes)
    BY <1>2, <1>3, WithoutSome, WithoutTypes
  <2>. QED
    BY <2>1, <2>2, ConcatEmptySeq
<1>6. /\ out \in Seq(TextBytes)
      /\ \A j \in 1 .. Len(out) : out[j] \notin Controls
      /\ Without(out, ColourBytes) = Without(rest, D)
  BY DEF Shows, rest, D, n
<1>7. Without(out, ColourBytes) = Without(SubSeq(msg, i, n), D)
  BY <1>4, <1>5, <1>6, Zenon
<1>8. ~ \A j \in i .. n : msg[j] \notin Controls
  BY <1>1
<1>. QED
  BY <1>6, <1>7, <1>8, Zenon DEF Shows, D, n

(* Any other byte.                                                         *)
LEMMA ByteStays ==
    ASSUME NEW msg \in Seq(TextBytes), NEW i \in 1 .. Len(msg),
           msg[i] \notin Controls, NEW out, Shows(msg, out, i + 1)
    PROVE  Shows(msg, <<msg[i]>> \o out, i)
<1> DEFINE n == Len(msg)
           D == ColourBytes \cup Controls
           one == <<msg[i]>>
           all == one \o out
           rest == SubSeq(msg, i + 1, n)
<1>1. /\ n \in Nat /\ \A j \in 1 .. n : msg[j] \in TextBytes
      /\ i \in i .. n /\ n \in i .. n
  BY LenProperties, ElementOfSeq
<1>2. /\ out \in Seq(TextBytes) /\ Len(out) \in Nat
      /\ \A j \in 1 .. Len(out) : out[j] \notin Controls
      /\ (\A j \in i + 1 .. n : msg[j] \notin Controls) => out = rest
      /\ Without(out, ColourBytes) = Without(rest, D)
  BY LenProperties DEF Shows
<1>3. /\ one \in Seq(TextBytes) /\ Len(one) = 1 /\ one[1] = msg[i]
  BY <1>1
<1>4. rest \in Seq(TextBytes)
  <2>1. i + 1 \in Int /\ \A j \in i + 1 .. n : msg[j] \in TextBytes
    BY <1>1
  <2>. QED
    BY <1>1, <2>1, SubSeqProperties
<1>5. SubSeq(msg, i, n) = one \o rest
  BY ONLY msg \in Seq(TextBytes), i \in 1 .. Len(msg), <1>1,
          SubSeqRecursiveFirst DEF n, one, rest
<1>6. Without(one, ColourBytes) = Without(one, D)
  <2>1. (msg[i] \in ColourBytes) <=> (msg[i] \in D)
    OBVIOUS
  <2> HIDE DEF one, D
  <2>2. \A j \in 1 .. Len(one) : j = 1
    BY <1>3
  <2>3. CASE msg[i] \in D
    <3>1. /\ \A j \in 1 .. Len(one) : one[j] \in D
          /\ \A j \in 1 .. Len(one) : one[j] \in ColourBytes
      BY <1>3, <2>1, <2>2, <2>3
    <3>. QED
      BY <1>3, <3>1, WithoutSome
  <2>4. CASE msg[i] \notin D
    <3>1. /\ \A j \in 1 .. Len(one) : one[j] \notin D
          /\ \A j \in 1 .. Len(one) : one[j] \notin ColourBytes
      BY <1>3, <2>1, <2>2, <2>4
    <3>. QED
      BY <1>3, <3>1, WithoutSome
  <2>. QED
    BY <2>3, <2>4
<1> HIDE DEF n, D, one, rest
<1>7. /\ all \in Seq(TextBytes) /\ Len(all) = 1 + Len(out)
      /\ \A j \in 1 .. 1 + Len(out) :
            all[j] = IF j <= 1 THEN one[j] ELSE out[j - 1]
  <2>1. /\ all \in Seq(TextBytes) /\ Len(all) = Len(one) + Len(out)
        /\ \A j \in 1 .. Len(one) + Len(out) :
              all[j] = IF j <= Len(one) THEN one[j] ELSE out[j - Len(one)]
    BY <1>2, <1>3, ConcatProperties
  <2>. QED
    BY <1>3, <2>1
<1>8. Without(all, ColourBytes) = Without(SubSeq(msg, i, n), D)
  <2>1. Without(all, ColourBytes) =
            Without(one, ColourBytes) \o Without(out, ColourBytes)
    BY <1>2, <1>3, WithoutConcat
  <2>2. Without(one \o rest, D) = Without(one, D) \o Without(rest, D)
    BY <1>3, <1>4, WithoutConcat
  <2> HIDE DEF all
  <2>. QED
    BY <1>2, <1>5, <1>6, <2>1, <2>2, Zenon
<1>9. ASSUME \A j \in i .. n : msg[j] \notin Controls
      PROVE  all = SubSeq(msg, i, n)
  <2>1. \A j \in i + 1 .. n : j \in i .. n
    BY <1>1
  <2>2. out = rest
    BY <1>2, <1>9, <2>1
  <2>. QED
    BY <1>5, <2>2
<1> HIDE DEF all
<1>10. ASSUME NEW j \in 1 .. Len(all) PROVE all[j] \notin Controls
  <2>1. CASE j = 1
    BY <1>2, <1>3, <1>7, <2>1
  <2>2. CASE j # 1
    <3>1. all[j] = out[j - 1] /\ j - 1 \in 1 .. Len(out)
      BY <1>2, <1>7, <2>2
    <3>. QED
      BY <1>2, <3>1
  <2>. QED
    BY <2>1, <2>2
<1>. QED
  BY <1>7, <1>8, <1>9, <1>10, Zenon DEF Shows, D, n, all, one

LEMMA KilledShows ==
    ASSUME NEW msg \in Seq(TextBytes)
    PROVE  Shows(msg, KillBlingbling(msg), 1)
<1> DEFINE n == Len(msg)
           f == CHOOSE g : IsClean(msg, g)
           N == {m \in Nat : \A i \in n + 1 - m .. n + 1 :
                     i >= 1 => Shows(msg, f[i], i)}
<1>0. n \in Nat
  BY LenProperties
<1>1. KillBlingbling(msg) = f[1]
  BY DEF KillBlingbling, IsClean, Clean
<1>2. IsClean(msg, f)
  <2>1. \E g : IsClean(msg, g)
    BY CleanExists
  <2>. QED
    BY <2>1
<1> HIDE DEF f
<1>3. \A i \in 1 .. n + 1 : f[i] = Clean(msg, f, i)
  BY <1>2 DEF IsClean
<1> HIDE DEF n
<1>4. ASSUME NEW i \in 1 .. n + 1,
             \A j \in i + 1 .. n + 1 : Shows(msg, f[j], j)
      PROVE  Shows(msg, f[i], i)
  <2>1. f[i] = Clean(msg, f, i)
    BY <1>3
  <2>2. CASE i > n
    <3>1. f[i] = <<>>
      BY <2>1, <2>2 DEF Clean, n
    <3>2. <<>> \in Seq(TextBytes) /\ Len(<<>>) = 0
      BY EmptySeq
    <3>3. SubSeq(msg, i, n) = <<>>
      BY <1>0, <2>2, SubSeqEmpty
    <3>. QED
      BY <3>1, <3>2, <3>3, WithoutNothing DEF Shows, n
  <2>3. CASE ~(i > n)
    <3>1. /\ i \in 1 .. Len(msg) /\ i + 1 \in 1 .. Len(msg) + 1
          /\ i + 1 \in i + 1 .. n + 1
      BY <1>0, <2>3 DEF n
    <3>2. CASE msg[i] = "^C"
      <4> DEFINE next == SkipColour(msg, i + 1)
      <4>1. /\ next \in i + 1 .. Len(msg) + 1
            /\ \A j \in i + 1 .. next - 1 : msg[j] \in ColourBytes
        BY <3>1, ColourFacts
      <4>2. f[i] = f[next]
        BY <2>1, <2>3, <3>2 DEF Clean, n
      <4> HIDE DEF next
      <4>3. Shows(msg, f[next], next)
        BY <1>4, <4>1 DEF n
      <4>4. /\ \A j \in i .. next - 1 : msg[j] \in ColourBytes \cup Controls
            /\ msg[i] \in Controls
        BY <3>1, <3>2, <4>1 DEF Controls
      <4>5. Shows(msg, f[next], i)
        BY <3>1, <4>1, <4>3, <4>4, ControlGoes
      <4>. QED
        BY <4>2, <4>5
    <3>3. CASE msg[i] = "^B"
      <4>1. f[i] = f[i + 1]
        BY <2>1, <2>3, <3>3 DEF Clean, n
      <4>2. Shows(msg, f[i + 1], i + 1)
        BY <1>4, <3>1
      <4>3. /\ \A j \in i .. i + 1 - 1 : msg[j] \in ColourBytes \cup Controls
            /\ msg[i] \in Controls /\ i + 1 \in i + 1 .. Len(msg) + 1
        BY <3>1, <3>3 DEF Controls, n
      <4>4. Shows(msg, f[i + 1], i)
        BY <3>1, <4>2, <4>3, ControlGoes
      <4>. QED
        BY <4>1, <4>4
    <3>4. CASE msg[i] \notin Controls
      <4>1. f[i] = <<msg[i]>> \o f[i + 1]
        BY <2>1, <2>3, <3>4 DEF Clean, n, Controls
      <4>2. Shows(msg, f[i + 1], i + 1)
        BY <1>4, <3>1
      <4>3. Shows(msg, <<msg[i]>> \o f[i + 1], i)
        BY <3>1, <3>4, <4>2, ByteStays
      <4>. QED
        BY <4>1, <4>3
    <3>. QED
      BY <3>2, <3>3, <3>4 DEF Controls
  <2>. QED
    BY <2>2, <2>3
<1>5. 0 \in N
  <2>. SUFFICES ASSUME NEW i \in n + 1 - 0 .. n + 1, i >= 1
                PROVE  Shows(msg, f[i], i)
    OBVIOUS
  <2>1. i \in 1 .. n + 1 /\ \A j \in i + 1 .. n + 1 : FALSE
    BY <1>0
  <2>. QED
    BY <1>4, <2>1
<1>6. ASSUME NEW m \in Nat, m \in N PROVE m + 1 \in N
  <2>. SUFFICES ASSUME NEW i \in n + 1 - (m + 1) .. n + 1, i >= 1
                PROVE  Shows(msg, f[i], i)
    OBVIOUS
  <2>1. i \in 1 .. n + 1
        /\ \A j \in i + 1 .. n + 1 : j \in n + 1 - m .. n + 1 /\ j >= 1
    BY <1>0
  <2>2. \A j \in i + 1 .. n + 1 : Shows(msg, f[j], j)
    BY <1>6, <2>1
  <2>. QED
    BY <1>4, <2>1, <2>2
<1> HIDE DEF N
<1>7. Nat \subseteq N
  BY <1>5, <1>6, SetInduction
<1>8. Shows(msg, f[1], 1)
  <2>1. n \in N /\ 1 \in n + 1 - n .. n + 1
    BY <1>0, <1>7
  <2>. QED
    BY <2>1 DEF N
<1>. QED
  BY <1>1, <1>8

(* What stands between two marks.                                          *)
LEMMA Framed ==
    ASSUME NEW S, NEW a \in S, NEW z \in S, NEW body \in Seq(S)
    PROVE  LET payload == <<a>> \o body \o <<z>>
           IN  payload # <<>> /\ Head(payload) = a /\ ActionBody(payload) = body
<1> DEFINE one == <<a>>
           last == <<z>>
           most == one \o body
           payload == most \o last
           n == Len(body)
           t == SubSeq(payload, 2, 1 + n)
<1>1. /\ one \in Seq(S) /\ last \in Seq(S) /\ n \in Nat
      /\ Len(one) = 1 /\ Len(last) = 1 /\ one[1] = a
  BY LenProperties
<1> HIDE DEF one, last
<1>2. /\ most \in Seq(S) /\ Len(most) = 1 + n
      /\ \A j \in 1 .. 1 + n : most[j] = IF j <= 1 THEN one[j] ELSE body[j - 1]
  <2>1. /\ most \in Seq(S) /\ Len(most) = Len(one) + Len(body)
        /\ \A j \in 1 .. Len(one) + Len(body) :
              most[j] = IF j <= Len(one) THEN one[j] ELSE body[j - Len(one)]
    BY <1>1, ConcatProperties
  <2>. QED
    BY <1>1, <2>1
<1> HIDE DEF most
<1>3. /\ payload \in Seq(S) /\ Len(payload) = 1 + n + 1
      /\ \A j \in 1 .. 1 + n : payload[j] = most[j]
  <2>1. /\ payload \in Seq(S) /\ Len(payload) = Len(most) + Len(last)
        /\ \A j \in 1 .. Len(most) + Len(last) :
              payload[j] = IF j <= Len(most) THEN most[j]
                           ELSE last[j - Len(most)]
    BY <1>1, <1>2, ConcatProperties
  <2>. QED
    BY <1>1, <1>2, <2>1
<1> HIDE DEF payload, n
<1>4. payload # <<>> /\ Head(payload) = a
  <2>1. payload[1] = a /\ Len(payload) # 0
    BY <1>1, <1>2, <1>3
  <2>2. payload # <<>>
    BY <2>1, EmptySeq
  <2>. QED
    BY <1>3, <2>1, <2>2
<1>5. ActionBody(payload) = t
  <2>1. Len(payload) - 1 = 1 + n
    BY <1>1, <1>3
  <2>. QED
    BY <2>1, Zenon DEF ActionBody
<1>6. /\ t \in Seq(S) /\ Len(t) = n
      /\ \A j \in 1 .. n : t[j] = payload[2 + j - 1]
  <2>1. \A j \in 2 .. 1 + n : payload[j] \in S
    <3>1. \A j \in 2 .. 1 + n : j \in 1 .. Len(payload)
      BY <1>1, <1>3
    <3>. QED
      BY <1>3, <3>1, ElementOfSeq
  <2>2. 2 \in Int /\ 1 + n \in Int
    BY <1>1
  <2> DEFINE two == 2
             e == 1 + n
  <2>3. t = SubSeq(payload, two, e)
    OBVIOUS
  <2>4. e - two + 1 = n /\ (~(two <= e) => n = 0)
    BY <1>1
  <2>5. two \in Int /\ e \in Int /\ \A j \in two .. e : payload[j] \in S
    BY <2>1, <2>2
  <2>6. \A j \in 1 .. n : two + j - 1 = 2 + j - 1
    OBVIOUS
  <2> HIDE DEF t, two, e
  <2>7. /\ t \in Seq(S)
        /\ Len(t) = IF two <= e THEN e - two + 1 ELSE 0
        /\ \A j \in 1 .. e - two + 1 : t[j] = payload[two + j - 1]
    BY <2>3, <2>5, SubSeqProperties
  <2>8. Len(t) = n /\ \A j \in 1 .. n : t[j] = payload[two + j - 1]
    BY <2>4, <2>7
  <2>. QED
    BY <2>6, <2>7, <2>8, Zenon
<1> HIDE DEF t
<1>7. ASSUME NEW j \in 1 .. n PROVE t[j] = body[j]
  <2> DEFINE k == 2 + j - 1
  <2>1. k \in 1 .. 1 + n /\ ~(k <= 1) /\ k - 1 = j
    BY <1>1
  <2>2. t[j] = payload[k]
    BY <1>6
  <2> HIDE DEF k
  <2>. QED
    BY <1>2, <1>3, <2>1, <2>2
<1>8. t = body
  <2>1. \A j \in 1 .. Len(t) : t[j] = body[j]
    BY <1>6, <1>7
  <2>. QED
    BY <1>6, <2>1, SeqEqual DEF n
<1>. QED
  BY <1>4, <1>5, <1>8, Zenon DEF payload, most, one, last

(* The peer takes the body of a line for what it is.                       *)
LEMMA BodyIsRead ==
    ASSUME NEW type \in Types, NEW body \in Seq(TextBytes)
    PROVE  LET read == Decode(Payload(type, body))
           IN  /\ (read.type = "ACTION") <=> (type = "ACTION")
               /\ read.body = KillBlingbling(body)
<1>1. CASE type = "ACTION"
  <2> DEFINE mark == "^AACTION "
             end == "^A"
             S == TextBytes \cup {mark, end}
             payload == <<mark>> \o body \o <<end>>
  <2>1. Payload(type, body) = payload
    BY <1>1, Zenon DEF Payload
  <2>2. Decode(payload) =
            IF payload # <<>> /\ Head(payload) = mark
            THEN [type |-> "ACTION", body |-> KillBlingbling(ActionBody(payload))]
            ELSE [type |-> "NORMAL", body |-> KillBlingbling(payload)]
    BY Zenon DEF Decode
  <2> HIDE DEF mark, end
  <2>3. mark \in S /\ end \in S /\ body \in Seq(S)
    <3>1. \A j \in 1 .. Len(body) : body[j] \in S
      BY ElementOfSeq
    <3>2. Len(body) \in Nat /\ body = [j \in 1 .. Len(body) |-> body[j]]
      BY LenProperties
    <3>. QED
      BY <3>1, <3>2
  <2> HIDE DEF S
  <2>4. payload # <<>> /\ Head(payload) = mark /\ ActionBody(payload) = body
    BY <2>3, Framed
  <2> HIDE DEF payload
  <2>5. Decode(payload) = [type |-> "ACTION", body |-> KillBlingbling(body)]
    BY <2>2, <2>4, Zenon
  <2>. QED
    BY <1>1, <2>1, <2>5
<1>2. CASE type # "ACTION"
  <2>1. Payload(type, body) = body
    BY <1>2 DEF Payload
  <2>2. ~(body # <<>> /\ Head(body) = "^AACTION ")
    <3>1. body # <<>> => Head(body) \in TextBytes
      BY HeadTailProperties
    <3>. QED
      BY <3>1 DEF TextBytes, Controls
  <2>. QED
    BY <1>2, <2>1, <2>2 DEF Decode
<1>. QED
  BY <1>1, <1>2

(* The client of the peer shows every part as it was typed: an action is   *)
(* an action, no control byte is left, nothing is lost where there was     *)
(* none, and else no letter or newline goes with one (idle_text_decode(),  *)
(* idle_ctcp_kill_blingbling()).                                           *)
THEOREM ReadCorrect == TransferSpec => []PeerReadsText
<1>1. NicksInv /\ SentInv => PeerReadsText
  <2>. SUFFICES ASSUME NicksInv, SentInv, text_sent # Nothing
                PROVE  PeerReadsText
    BY DEF PeerReadsText
  <2> DEFINE type == text_sent.type
             bodies == text_sent.bodies
  <2>1. /\ type \in Types /\ bodies \in Seq(Seq(TextBytes))
    <3>1. /\ type \in Types /\ IsText(text_sent.text)
          /\ bodies = Bodies(type, text_sent.text, MaxMessageLength)
          /\ relay_prefix \in {NoNick, Configured}
      BY DEF SentInv, NicksInv, SelfTypes
    <3>2. ShortParts(Bodies(type, text_sent.text, MaxMessageLength),
                     MaxBytes(type, MaxMessageLength))
      BY <3>1, RoomForText, BodiesAreShort
    <3>. QED
      BY <3>1, <3>2 DEF ShortParts
  <2> HIDE DEF type, bodies
  <2>2. ASSUME NEW i \in DOMAIN bodies
        PROVE  LET body == bodies[i]
                   read == Decode(Payload(type, body))
               IN  /\ (read.type = "ACTION") <=> (type = "ACTION")
                   /\ \A k \in DOMAIN read.body : read.body[k] \notin Controls
                   /\ Range(body) \cap Controls = {} => read.body = body
                   /\ Without(read.body, {"digit", "comma"})
                          = Without(body, {"digit", "comma"} \cup Controls)
    <3> DEFINE body == bodies[i]
               read == Decode(Payload(type, body))
               shown == KillBlingbling(body)
    <3>1. body \in Seq(TextBytes)
      BY <2>1, <2>2, ElementOfSeq, LenProperties
    <3>2. /\ (read.type = "ACTION") <=> (type = "ACTION")
          /\ read.body = shown
      BY <2>1, <3>1, BodyIsRead
    <3>3. Shows(body, shown, 1)
      BY <3>1, KilledShows
    <3> HIDE DEF body, read, shown
    <3>4. SubSeq(body, 1, Len(body)) = body /\ DOMAIN body = 1 .. Len(body)
      BY <3>1, SubSeqFull, LenProperties
    <3>5. shown \in Seq(TextBytes) /\ DOMAIN shown = 1 .. Len(shown)
      BY <3>3, LenProperties DEF Shows
    <3>6. Range(body) \cap Controls = {} =>
              \A j \in 1 .. Len(body) : body[j] \notin Controls
      BY <3>4 DEF Range
    <3>7. /\ \A k \in DOMAIN shown : shown[k] \notin Controls
          /\ Range(body) \cap Controls = {} => shown = body
          /\ Without(shown, ColourBytes) = Without(body, ColourBytes \cup Controls)
      BY <3>3, <3>4, <3>5, <3>6 DEF Shows
    <3>8. /\ (read.type = "ACTION") <=> (type = "ACTION")
          /\ \A k \in DOMAIN read.body : read.body[k] \notin Controls
          /\ Range(body) \cap Controls = {} => read.body = body
          /\ Without(read.body, ColourBytes)
                 = Without(body, ColourBytes \cup Controls)
      BY <3>2, <3>7
    <3>. QED
      BY <3>8, Zenon DEF body, read, ColourBytes
  <2>. QED
    BY <2>2, Zenon DEF PeerReadsText, type, bodies
<1>. QED
  BY <1>1, NicksInvCorrect, SentInvCorrect, PTL

-----------------------------------------------------------------------------
(* The first atom that takes more than one token.                          *)
LEMMA Shape ==
    ASSUME NEW format, Len(format) \in Nat
    PROVE  /\ \A k \in 1 .. Len(format) :
                 /\ format[k] \in Lasts
                 /\ \A j \in 1 .. k - 1 : format[j] \notin Lasts
                 => AtomCount(format) = k - 1 /\ LastOf(format) = format[k]
           /\ (\A j \in 1 .. Len(format) : format[j] \notin Lasts)
                 => AtomCount(format) = Len(format) /\ LastOf(format) = "end"
<1> DEFINE I == {j \in 1 .. Len(format) : format[j] \in Lasts}
<1>1. Atoms(format) = IF I # {} THEN Min(I) ELSE 0
  BY Zenon DEF Atoms, SelectInSeq
<1>2. /\ I \in SUBSET Nat
      /\ \A j \in I : format[j] \in Lasts /\ j \in 1 .. Len(format)
  OBVIOUS
<1>3. \A j \in 1 .. Len(format) : format[j] \in Lasts => j \in I
  OBVIOUS
<1> HIDE DEF I
<1>4. ASSUME NEW k \in 1 .. Len(format), format[k] \in Lasts,
             \A j \in 1 .. k - 1 : format[j] \notin Lasts
      PROVE  AtomCount(format) = k - 1 /\ LastOf(format) = format[k]
  <2>1. I # {} /\ k \in I
    BY <1>3, <1>4
  <2>2. Min(I) \in I /\ Min(I) <= k
    BY <1>2, <2>1, MinFacts
  <2>3. Min(I) \notin 1 .. k - 1
    BY <1>2, <1>4, <2>2
  <2>4. Min(I) = k
    <3>1. Min(I) \in 1 .. Len(format) /\ k \in 1 .. Len(format)
      BY <1>2, <2>2
    <3> HIDE DEF I
    <3>. QED
      BY <2>2, <2>3, <3>1
  <2>5. Atoms(format) = k /\ k # 0
    BY <1>1, <2>1, <2>4
  <2>. QED
    BY <2>5 DEF AtomCount, LastOf
<1>5. ASSUME \A j \in 1 .. Len(format) : format[j] \notin Lasts
      PROVE  AtomCount(format) = Len(format) /\ LastOf(format) = "end"
  <2>1. I = {}
    BY <1>2, <1>5
  <2>. QED
    BY <1>1, <2>1 DEF AtomCount, LastOf
<1>. QED
  BY <1>4, <1>5

(* What the first atoms of a format give.                                  *)
ValueTypes == {"uint", "string", "char"}
Given(format, n) == FlattenSeq([i \in 1 .. n |-> Values(format[i])])
Add(values, atom) == values \o Values(atom)

LEMMA ValuesType == \A atom : Values(atom) \in Seq(ValueTypes)
<1>. SUFFICES ASSUME NEW atom PROVE Values(atom) \in Seq(ValueTypes)
  OBVIOUS
<1>1. /\ <<>> \in Seq(ValueTypes) /\ <<"string">> \in Seq(ValueTypes)
      /\ <<"uint", "char">> \in Seq(ValueTypes)
      /\ <<"uint">> \in Seq(ValueTypes)
  BY DEF ValueTypes
<1>2. Values(atom) \in {<<>>, <<"string">>, <<"uint", "char">>, <<"uint">>}
  BY DEF Values
<1> HIDE DEF ValueTypes
<1>. QED
  BY <1>1, <1>2, Zenon

LEMMA GivenSteps ==
    ASSUME NEW format
    PROVE  /\ Given(format, 0) = <<>>
           /\ \A n \in Nat :
                 /\ Given(format, n) \in Seq(ValueTypes)
                 /\ Given(format, n + 1) = Add(Given(format, n), format[n + 1])
<1> DEFINE g(n) == [i \in 1 .. n |-> Values(format[i])]
<1>1. g(0) = <<>>
  OBVIOUS
<1>2. \A n \in Nat : g(n) \in Seq(Seq(ValueTypes)) /\ Len(g(n)) = n
  <2>. SUFFICES ASSUME NEW n \in Nat
                PROVE  g(n) \in Seq(Seq(ValueTypes)) /\ Len(g(n)) = n
    OBVIOUS
  <2>1. g(n) \in [1 .. n -> Seq(ValueTypes)]
    BY ValuesType
  <2> HIDE DEF g
  <2>. QED
    BY <2>1
<1>3. ASSUME NEW n \in Nat
      PROVE  g(n + 1) = Append(g(n), Values(format[n + 1]))
  <2> DEFINE p == g(n)
             q == g(n + 1)
             e == Values(format[n + 1])
             r == Append(p, e)
  <2>1. /\ p \in Seq(Seq(ValueTypes)) /\ Len(p) = n /\ e \in Seq(ValueTypes)
        /\ q \in Seq(Seq(ValueTypes)) /\ Len(q) = n + 1
    <3> HIDE DEF g
    <3>. QED
      BY <1>2, ValuesType
  <2>2. /\ \A i \in 1 .. n : p[i] = Values(format[i])
        /\ \A i \in 1 .. n + 1 : q[i] = Values(format[i])
    OBVIOUS
  <2> HIDE DEF p, q, e
  <2>3. /\ r \in Seq(Seq(ValueTypes)) /\ Len(r) = n + 1
        /\ \A i \in 1 .. n : r[i] = p[i]
        /\ r[n + 1] = e
    BY <2>1, AppendProperties
  <2> HIDE DEF r
  <2>4. ASSUME NEW i \in 1 .. n + 1 PROVE q[i] = r[i]
    <3>1. CASE i = n + 1
      BY <2>2, <2>3, <3>1 DEF e
    <3>2. CASE i # n + 1
      BY <2>2, <2>3, <3>2
    <3>. QED
      BY <3>1, <3>2
  <2>5. \A i \in 1 .. Len(q) : q[i] = r[i]
    BY <2>1, <2>4
  <2>6. q = r
    BY <2>1, <2>3, <2>5, SeqEqual
  <2>. QED
    BY <2>6 DEF q, r, p, e
<1>4. Given(format, 0) = <<>>
  BY <1>1, FlatNothing DEF Given
<1> HIDE DEF g
<1>5. \A n \in Nat : Given(format, n) = FlattenSeq(g(n))
  BY DEF Given, g
<1>6. \A n \in Nat : Given(format, n) \in Seq(ValueTypes)
  BY <1>2, <1>5, FlatTypes
<1>7. ASSUME NEW n \in Nat
      PROVE  Given(format, n + 1) = Add(Given(format, n), format[n + 1])
  <2> DEFINE e == Values(format[n + 1])
  <2>1. e \in Seq(ValueTypes) /\ g(n) \in Seq(Seq(ValueTypes))
    BY <1>2, ValuesType
  <2> HIDE DEF e
  <2>2. FlattenSeq(Append(g(n), e)) = FlattenSeq(g(n)) \o e
    BY <2>1, FlatAppended
  <2>3. Given(format, n + 1) = FlattenSeq(g(n + 1))
    BY <1>5
  <2>. QED
    BY <1>3, <1>5, <2>2, <2>3, Zenon DEF Add, e
<1>. QED
  BY <1>4, <1>6, <1>7

(* A sequence and one more.                                                *)
LEMMA OneMore ==
    ASSUME NEW S, NEW q \in Seq(S), NEW e \in S, NEW r \in Seq(S),
           Len(r) = Len(q) + 1, \A i \in 1 .. Len(q) : r[i] = q[i],
           r[Len(q) + 1] = e
    PROVE  q \o <<e>> = r
<1> DEFINE t == Append(q, e)
<1>1. /\ t \in Seq(S) /\ Len(t) = Len(q) + 1
      /\ \A i \in 1 .. Len(q) : t[i] = q[i]
      /\ t[Len(q) + 1] = e
  BY AppendProperties
<1>2. t = q \o <<e>>
  BY AppendIsConcat
<1>3. Len(q) \in Nat
  BY LenProperties
<1> HIDE DEF t
<1>4. \A i \in 1 .. Len(t) : t[i] = r[i]
  BY <1>1, <1>3
<1>5. t = r
  BY <1>1, <1>4, SeqEqual
<1>. QED
  BY <1>2, <1>5

LEMMA WithOneMore ==
    ASSUME NEW a, NEW b, NEW c
    PROVE  /\ <<>> \o <<a>> = <<a>>
           /\ <<a>> \o <<b>> = <<a, b>>
           /\ <<a, b>> \o <<c>> = <<a, b, c>>
<1> DEFINE S == {a, b, c}
           p == <<a>>
           q == <<a, b>>
           r == <<a, b, c>>
<1>1. /\ p \in Seq(S) /\ q \in Seq(S) /\ r \in Seq(S) /\ b \in S /\ c \in S
      /\ Len(p) = 1 /\ Len(q) = 2 /\ Len(r) = 3
      /\ p[1] = a /\ q[1] = a /\ q[2] = b /\ r[1] = a /\ r[2] = b /\ r[3] = c
  OBVIOUS
<1> HIDE DEF p, q, r, S
<1>2. <<>> \o p = p
  BY <1>1, ConcatEmptySeq
<1>3. p \o <<b>> = q
  <2>1. Len(q) = Len(p) + 1 /\ q[Len(p) + 1] = b
        /\ \A i \in 1 .. Len(p) : q[i] = p[i]
    BY <1>1
  <2>. QED
    BY <1>1, <2>1, OneMore
<1>4. q \o <<c>> = r
  <2>1. Len(r) = Len(q) + 1 /\ r[Len(q) + 1] = c
        /\ \A i \in 1 .. Len(q) : r[i] = q[i]
    BY <1>1
  <2>. QED
    BY <1>1, <2>1, OneMore
<1>. QED
  BY <1>2, <1>3, <1>4, Zenon DEF p, q, r

(* The values of one kind after another.                                   *)
LEMMA AddFacts ==
    /\ Add(<<>>, "I") = <<>> /\ Add(<<"uint">>, "I") = <<"uint">>
    /\ Add(<<"uint", "uint">>, "I") = <<"uint", "uint">>
    /\ Add(<<"uint", "string", "string">>, "I")
          = <<"uint", "string", "string">>
    /\ \A atom \in {"c", "r", "d"} :
          /\ Add(<<>>, atom) = <<"uint">>
          /\ Add(<<"uint">>, atom) = <<"uint", "uint">>
          /\ Add(<<"uint", "uint">>, atom) = <<"uint", "uint", "uint">>
    /\ Add(<<>>, "s") = <<"string">>
    /\ Add(<<"uint">>, "s") = <<"uint", "string">>
    /\ Add(<<"uint", "string">>, "s") = <<"uint", "string", "string">>
<1>1. /\ Add(<<>>, "I") = <<>> /\ Add(<<"uint">>, "I") = <<"uint">>
      /\ Add(<<"uint", "uint">>, "I") = <<"uint", "uint">>
      /\ Add(<<"uint", "string", "string">>, "I")
          = <<"uint", "string", "string">>
  <2>1. /\ Values("I") = <<>> /\ <<>> \in Seq(ValueTypes)
        /\ <<"uint">> \in Seq(ValueTypes)
        /\ <<"uint", "uint">> \in Seq(ValueTypes)
        /\ <<"uint", "string", "string">> \in Seq(ValueTypes)
    BY DEF Values, ValueTypes
  <2>2. \A v \in Seq(ValueTypes) : v \o <<>> = v
    BY ConcatEmptySeq
  <2>. QED
    BY <2>1, <2>2, Zenon DEF Add
<1>2. \A atom \in {"c", "r", "d"} : Values(atom) = <<"uint">>
  BY DEF Values
<1>3. Values("s") = <<"string">>
  BY DEF Values
<1>. QED
  BY <1>1, <1>2, <1>3, WithOneMore, Zenon DEF Add

(* What is made of the tokens behind the atoms.                            *)
Repeated(atom, n) == Given([i \in Nat |-> atom], n)

Behind(format, rest) ==
    CASE LastOf(format) \in {":", "."} /\ IsTrailing(rest) -> <<"string">>
      [] LastOf(format) = "v" -> Repeated(Last(format), Len(rest))
      [] OTHER -> <<>>

LEMMA ArgsAre ==
    ASSUME NEW format, NEW tokens \in Seq(Tokens), AtomCount(format) \in Nat,
           Parses(tokens, format, Rest(tokens, format))
    PROVE  ValuesOf(tokens, format) =
               Given(format, AtomCount(format))
               \o Behind(format, Rest(tokens, format))
<1> DEFINE n == AtomCount(format)
           rest == Rest(tokens, format)
           these == DOMAIN tokens \cap (1 .. n)
           last == Last(format)
<1>1. /\ Len(tokens) >= n /\ Len(tokens) \in Nat
      /\ DOMAIN tokens = 1 .. Len(tokens)
  BY LenProperties DEF Parses
<1>2. these = 1 .. n
  BY <1>1
<1>3. FlattenSeq([i \in these |-> Values(format[i])]) = Given(format, n)
  BY <1>2 DEF Given
<1>4. rest \in Seq(Tokens)
  <2> DEFINE l == Len(tokens)
             m == n + 1
  <2>1. m \in Int /\ l \in Int /\ \A i \in m .. l : tokens[i] \in Tokens
    BY <1>1, ElementOfSeq
  <2>2. rest = SubSeq(tokens, m, l)
    BY DEF Rest
  <2> HIDE DEF m, l, rest
  <2>. QED
    BY <2>1, <2>2, SubSeqProperties
<1>5. FlattenSeq([i \in DOMAIN rest |-> Values(last)])
          = Repeated(last, Len(rest))
  <2> DEFINE f == [i \in Nat |-> last]
  <2> HIDE DEF rest, last
  <2>1. DOMAIN rest = 1 .. Len(rest) /\ Len(rest) \in Nat
    BY <1>4, LenProperties
  <2>2. \A i \in 1 .. Len(rest) : f[i] = last
    BY <2>1
  <2> HIDE DEF f
  <2>3. [i \in DOMAIN rest |-> Values(last)]
            = [i \in 1 .. Len(rest) |-> Values(f[i])]
    BY <2>1, <2>2
  <2>. QED
    BY <2>3, Zenon DEF Repeated, Given, f
<1>. QED
  BY <1>3, <1>5, Zenon DEF ValuesOf, Behind

LEMMA AllStrings ==
    ASSUME NEW n \in Nat
    PROVE  /\ Repeated("s", n) \in Seq(ValueTypes)
           /\ \A j \in 1 .. Len(Repeated("s", n)) :
                 Repeated("s", n)[j] = "string"
<1> DEFINE f == [i \in Nat |-> "s"]
           N == {m \in Nat :
                    \A j \in 1 .. Len(Given(f, m)) : Given(f, m)[j] = "string"}
<1>1. \A i \in Nat : f[i] = "s"
  OBVIOUS
<1> HIDE DEF f
<1>2. /\ Given(f, 0) = <<>>
      /\ \A m \in Nat : /\ Given(f, m) \in Seq(ValueTypes)
                        /\ Given(f, m + 1) = Given(f, m) \o <<"string">>
  <2>1. \A m \in Nat : Add(Given(f, m), f[m + 1]) = Given(f, m) \o <<"string">>
    BY <1>1 DEF Add, Values
  <2>. QED
    BY <2>1, GivenSteps
<1>3. 0 \in N
  BY <1>2, EmptySeq
<1>4. ASSUME NEW m \in Nat, m \in N PROVE m + 1 \in N
  <2> DEFINE g == Given(f, m)
             h == Given(f, m + 1)
             e == <<"string">>
  <2>1. g \in Seq(ValueTypes) /\ h = g \o e /\ Len(g) \in Nat
        /\ e \in Seq(ValueTypes) /\ Len(e) = 1 /\ e[1] = "string"
        /\ \A j \in 1 .. Len(g) : g[j] = "string"
    <3>1. e \in Seq(ValueTypes) /\ Len(e) = 1 /\ e[1] = "string"
      BY DEF ValueTypes
    <3>2. g \in Seq(ValueTypes) /\ h = g \o e
      BY <1>2
    <3> HIDE DEF e, h
    <3>3. \A j \in 1 .. Len(g) : g[j] = "string"
      BY <1>4
    <3>. QED
      BY <3>1, <3>2, <3>3, LenProperties
  <2> HIDE DEF g, h, e
  <2>2. /\ Len(h) = Len(g) + Len(e)
        /\ \A j \in 1 .. Len(g) + Len(e) :
              h[j] = IF j <= Len(g) THEN g[j] ELSE e[j - Len(g)]
    BY <2>1, ConcatProperties
  <2>3. \A j \in 1 .. Len(h) : h[j] = "string"
    BY <2>1, <2>2
  <2>. QED
    BY <2>3 DEF h
<1> HIDE DEF N
<1>5. Nat \subseteq N
  BY <1>3, <1>4, SetInduction
<1>6. n \in N
  BY <1>5
<1>. QED
  BY <1>2, <1>6 DEF N, Repeated, f

LEMMA Pairs ==
    ASSUME NEW n \in Nat
    PROVE  /\ Repeated("C", n) \in Seq(ValueTypes)
           /\ \A j \in 1 .. Len(Repeated("C", n)) :
                 Repeated("C", n)[j] = IF j % 2 = 1 THEN "uint" ELSE "char"
<1> DEFINE f == [i \in Nat |-> "C"]
           Is(g, m) == /\ Len(g) = 2 * m
                       /\ \A j \in 1 .. 2 * m :
                             g[j] = IF j % 2 = 1 THEN "uint" ELSE "char"
           N == {m \in Nat : Is(Given(f, m), m)}
<1>1. \A i \in Nat : f[i] = "C"
  OBVIOUS
<1> HIDE DEF f
<1>2. /\ Given(f, 0) = <<>>
      /\ \A m \in Nat : /\ Given(f, m) \in Seq(ValueTypes)
                        /\ Given(f, m + 1) = Given(f, m) \o <<"uint", "char">>
  <2>1. \A m \in Nat :
            Add(Given(f, m), f[m + 1]) = Given(f, m) \o <<"uint", "char">>
    BY <1>1 DEF Add, Values
  <2>. QED
    BY <2>1, GivenSteps
<1>3. 0 \in N
  <2>1. Len(Given(f, 0)) = 0
    BY <1>2, EmptySeq
  <2>. QED
    BY <2>1
<1>4. ASSUME NEW m \in Nat, m \in N PROVE m + 1 \in N
  <2> DEFINE g == Given(f, m)
             h == Given(f, m + 1)
             e == <<"uint", "char">>
  <2>1. g \in Seq(ValueTypes) /\ h = g \o e /\ Is(g, m)
        /\ e \in Seq(ValueTypes) /\ Len(e) = 2
        /\ e[1] = "uint" /\ e[2] = "char"
    <3>1. /\ e \in Seq(ValueTypes) /\ Len(e) = 2
          /\ e[1] = "uint" /\ e[2] = "char"
      BY DEF ValueTypes
    <3>2. g \in Seq(ValueTypes) /\ h = g \o e
      BY <1>2
    <3> HIDE DEF e, h, Is
    <3>3. Is(g, m)
      BY <1>4
    <3>. QED
      BY <3>1, <3>2, <3>3
  <2> HIDE DEF g, h, e
  <2>2. /\ Len(h) = Len(g) + Len(e)
        /\ \A j \in 1 .. Len(g) + Len(e) :
              h[j] = IF j <= Len(g) THEN g[j] ELSE e[j - Len(g)]
    BY <2>1, ConcatProperties
  <2>3. Len(h) = 2 * (m + 1)
    BY <2>1, <2>2
  <2>4. ASSUME NEW j \in 1 .. 2 * (m + 1)
        PROVE  h[j] = IF j % 2 = 1 THEN "uint" ELSE "char"
    <3>1. CASE j <= 2 * m
      BY <2>1, <2>2, <3>1
    <3>2. CASE j = 2 * m + 1
      <4>1. j % 2 = 1 /\ j - 2 * m = 1
        BY <3>2
      <4>. QED
        BY <2>1, <2>2, <3>2, <4>1
    <3>3. CASE j = 2 * m + 2
      <4>1. j % 2 # 1 /\ j - 2 * m = 2
        BY <3>3
      <4>. QED
        BY <2>1, <2>2, <3>3, <4>1
    <3>. QED
      BY <3>1, <3>2, <3>3
  <2>5. Is(h, m + 1)
    BY <2>3, <2>4
  <2>. QED
    BY <2>5 DEF h
<1> HIDE DEF N
<1>5. Nat \subseteq N
  BY <1>3, <1>4, SetInduction
<1>6. n \in N
  BY <1>5
<1>. QED
  BY <1>2, <1>6 DEF N, Repeated, f

(* What a format gives before its last part, and what that part is.        *)
Provides(format, fixed, last) ==
    /\ AtomCount(format) \in Nat /\ LastOf(format) = last
    /\ Given(format, AtomCount(format)) = fixed

LEMMA ProvidesIs ==
    ASSUME NEW format, Len(format) \in Nat, NEW n \in 0 .. Len(format),
           \A j \in 1 .. n : format[j] \notin Lasts,
           NEW last,
           \/ n = Len(format) /\ last = "end"
           \/ n # Len(format) /\ last = format[n + 1] /\ last \in Lasts,
           NEW fixed, Given(format, n) = fixed
    PROVE  Provides(format, fixed, last)
<1>1. n \in Nat
  OBVIOUS
<1>2. CASE n = Len(format)
  BY <1>1, <1>2, Shape DEF Provides
<1>3. CASE n # Len(format)
  <2> DEFINE k == n + 1
  <2>1. k \in 1 .. Len(format) /\ k - 1 = n /\ format[k] = last
    BY <1>1, <1>3
  <2> HIDE DEF k
  <2>2. AtomCount(format) = k - 1 /\ LastOf(format) = format[k]
    BY <1>3, <2>1, Shape
  <2>. QED
    BY <1>1, <2>1, <2>2 DEF Provides
<1>. QED
  BY <1>2, <1>3

LEMMA GivenOf ==
    ASSUME NEW f
    PROVE  /\ Given(f, 1) = Add(<<>>, f[1])
           /\ Given(f, 2) = Add(Given(f, 1), f[2])
           /\ Given(f, 3) = Add(Given(f, 2), f[3])
           /\ Given(f, 4) = Add(Given(f, 3), f[4])
           /\ Given(f, 5) = Add(Given(f, 4), f[5])
           /\ Given(f, 6) = Add(Given(f, 5), f[6])
           /\ Given(f, 7) = Add(Given(f, 6), f[7])
<1>1. /\ Given(f, 0) = <<>>
      /\ \A n \in Nat : Given(f, n + 1) = Add(Given(f, n), f[n + 1])
  BY GivenSteps
<1>2. /\ Given(f, 0 + 1) = Add(Given(f, 0), f[0 + 1])
      /\ Given(f, 1 + 1) = Add(Given(f, 1), f[1 + 1])
      /\ Given(f, 2 + 1) = Add(Given(f, 2), f[2 + 1])
      /\ Given(f, 3 + 1) = Add(Given(f, 3), f[3 + 1])
      /\ Given(f, 4 + 1) = Add(Given(f, 4), f[4 + 1])
      /\ Given(f, 5 + 1) = Add(Given(f, 5), f[5 + 1])
      /\ Given(f, 6 + 1) = Add(Given(f, 6), f[6 + 1])
  BY <1>1
<1>. QED
  BY <1>1, <1>2

(* What each format gives.                                                *)
LEMMA ListendFormat == Provides(FormatOf("LISTEND"), <<>>, "end")
<1> DEFINE f == <<"I">>
<1>1. /\ Len(f) = 1
      /\ f[1] = "I"
  OBVIOUS
<1>2. FormatOf("LISTEND") = f
  BY DEF FormatOf, ChannelText, UserText, NotLetIn, WhoisFlags, WhoisNames
<1> HIDE DEF f
<1>3. Given(f, 1) = <<>>
  BY <1>1, GivenOf, AddFacts
<1>4. /\ Len(f) \in Nat /\ 1 \in 0 .. Len(f)
      /\ \A j \in 1 .. 1 : f[j] \notin Lasts
      /\ 1 = Len(f)
  BY <1>1 DEF Lasts
<1>. QED
  BY <1>2, <1>3, <1>4, ProvidesIs

LEMMA ErrorFormat == Provides(FormatOf("ERROR"), <<>>, ":")
<1> DEFINE f == <<"I", ":">>
<1>1. /\ Len(f) = 2
      /\ f[1] = "I" /\ f[2] = ":"
  OBVIOUS
<1>2. FormatOf("ERROR") = f
  BY DEF FormatOf, ChannelText, UserText, NotLetIn, WhoisFlags, WhoisNames
<1> HIDE DEF f
<1>3. Given(f, 1) = <<>>
  BY <1>1, GivenOf, AddFacts
<1>4. /\ Len(f) \in Nat /\ 1 \in 0 .. Len(f)
      /\ \A j \in 1 .. 1 : f[j] \notin Lasts
      /\ 1 # Len(f) /\ ":" = f[1 + 1] /\ ":" \in Lasts
  BY <1>1 DEF Lasts
<1>. QED
  BY <1>2, <1>3, <1>4, ProvidesIs

LEMMA PingFormat == Provides(FormatOf("PING"), <<"string">>, "end")
<1> DEFINE f == <<"I", "s">>
<1>1. /\ Len(f) = 2
      /\ f[1] = "I" /\ f[2] = "s"
  OBVIOUS
<1>2. FormatOf("PING") = f
  BY DEF FormatOf, ChannelText, UserText, NotLetIn, WhoisFlags, WhoisNames
<1> HIDE DEF f
<1>3. Given(f, 2) = <<"string">>
  BY <1>1, GivenOf, AddFacts
<1>4. /\ Len(f) \in Nat /\ 2 \in 0 .. Len(f)
      /\ \A j \in 1 .. 2 : f[j] \notin Lasts
      /\ 2 = Len(f)
  BY <1>1 DEF Lasts
<1>. QED
  BY <1>2, <1>3, <1>4, ProvidesIs

LEMMA InviteFormat ==
    Provides(FormatOf("INVITE"), <<"uint", "uint", "uint">>, "end")
<1> DEFINE f == <<"c", "I", "c", "r">>
<1>1. /\ Len(f) = 4
      /\ f[1] = "c" /\ f[2] = "I" /\ f[3] = "c" /\ f[4] = "r"
  OBVIOUS
<1>2. FormatOf("INVITE") = f
  BY DEF FormatOf, ChannelText, UserText, NotLetIn, WhoisFlags, WhoisNames
<1> HIDE DEF f
<1>3. Given(f, 4) = <<"uint", "uint", "uint">>
  BY <1>1, GivenOf, AddFacts
<1>4. /\ Len(f) \in Nat /\ 4 \in 0 .. Len(f)
      /\ \A j \in 1 .. 4 : f[j] \notin Lasts
      /\ 4 = Len(f)
  BY <1>1 DEF Lasts
<1>. QED
  BY <1>2, <1>3, <1>4, ProvidesIs

LEMMA JoinFormat == Provides(FormatOf("JOIN"), <<"uint", "uint">>, "end")
<1> DEFINE f == <<"c", "I", "r">>
<1>1. /\ Len(f) = 3
      /\ f[1] = "c" /\ f[2] = "I" /\ f[3] = "r"
  OBVIOUS
<1>2. FormatOf("JOIN") = f
  BY DEF FormatOf, ChannelText, UserText, NotLetIn, WhoisFlags, WhoisNames
<1> HIDE DEF f
<1>3. Given(f, 3) = <<"uint", "uint">>
  BY <1>1, GivenOf, AddFacts
<1>4. /\ Len(f) \in Nat /\ 3 \in 0 .. Len(f)
      /\ \A j \in 1 .. 3 : f[j] \notin Lasts
      /\ 3 = Len(f)
  BY <1>1 DEF Lasts
<1>. QED
  BY <1>2, <1>3, <1>4, ProvidesIs

LEMMA KickFormat == Provides(FormatOf("KICK"), <<"uint", "uint", "uint">>, ".")
<1> DEFINE f == <<"c", "I", "r", "c", ".">>
<1>1. /\ Len(f) = 5
      /\ f[1] = "c" /\ f[2] = "I" /\ f[3] = "r" /\ f[4] = "c" /\ f[5] = "."
  OBVIOUS
<1>2. FormatOf("KICK") = f
  BY DEF FormatOf, ChannelText, UserText, NotLetIn, WhoisFlags, WhoisNames
<1> HIDE DEF f
<1>3. Given(f, 4) = <<"uint", "uint", "uint">>
  BY <1>1, GivenOf, AddFacts
<1>4. /\ Len(f) \in Nat /\ 4 \in 0 .. Len(f)
      /\ \A j \in 1 .. 4 : f[j] \notin Lasts
      /\ 4 # Len(f) /\ "." = f[4 + 1] /\ "." \in Lasts
  BY <1>1 DEF Lasts
<1>. QED
  BY <1>2, <1>3, <1>4, ProvidesIs

LEMMA ModeChannelFormat == Provides(FormatOf("MODE_CHANNEL"), <<"uint">>, "v")
<1> DEFINE f == <<"I", "I", "r", "v", "s">>
<1>1. /\ Len(f) = 5
      /\ f[1] = "I" /\ f[2] = "I" /\ f[3] = "r" /\ f[4] = "v" /\ f[5] = "s"
  OBVIOUS
<1>2. FormatOf("MODE_CHANNEL") = f
  BY DEF FormatOf, ChannelText, UserText, NotLetIn, WhoisFlags, WhoisNames
<1> HIDE DEF f
<1>3. Given(f, 3) = <<"uint">>
  BY <1>1, GivenOf, AddFacts
<1>4. /\ Len(f) \in Nat /\ 3 \in 0 .. Len(f)
      /\ \A j \in 1 .. 3 : f[j] \notin Lasts
      /\ 3 # Len(f) /\ "v" = f[3 + 1] /\ "v" \in Lasts
  BY <1>1 DEF Lasts
<1>. QED
  BY <1>2, <1>3, <1>4, ProvidesIs

LEMMA NickFormat == Provides(FormatOf("NICK"), <<"uint", "uint">>, "end")
<1> DEFINE f == <<"c", "I", "c">>
<1>1. /\ Len(f) = 3
      /\ f[1] = "c" /\ f[2] = "I" /\ f[3] = "c"
  OBVIOUS
<1>2. FormatOf("NICK") = f
  BY DEF FormatOf, ChannelText, UserText, NotLetIn, WhoisFlags, WhoisNames
<1> HIDE DEF f
<1>3. Given(f, 3) = <<"uint", "uint">>
  BY <1>1, GivenOf, AddFacts
<1>4. /\ Len(f) \in Nat /\ 3 \in 0 .. Len(f)
      /\ \A j \in 1 .. 3 : f[j] \notin Lasts
      /\ 3 = Len(f)
  BY <1>1 DEF Lasts
<1>. QED
  BY <1>2, <1>3, <1>4, ProvidesIs

LEMMA QuitFormat == Provides(FormatOf("QUIT"), <<"uint">>, ".")
<1> DEFINE f == <<"c", "I", ".">>
<1>1. /\ Len(f) = 3
      /\ f[1] = "c" /\ f[2] = "I" /\ f[3] = "."
  OBVIOUS
<1>2. FormatOf("QUIT") = f
  BY DEF FormatOf, ChannelText, UserText, NotLetIn, WhoisFlags, WhoisNames
<1> HIDE DEF f
<1>3. Given(f, 2) = <<"uint">>
  BY <1>1, GivenOf, AddFacts
<1>4. /\ Len(f) \in Nat /\ 2 \in 0 .. Len(f)
      /\ \A j \in 1 .. 2 : f[j] \notin Lasts
      /\ 2 # Len(f) /\ "." = f[2 + 1] /\ "." \in Lasts
  BY <1>1 DEF Lasts
<1>. QED
  BY <1>2, <1>3, <1>4, ProvidesIs

LEMMA PartFormat ==
    \A code \in {"PART", "TOPIC"} :
        Provides(FormatOf(code), <<"uint", "uint">>, ".")
<1> DEFINE f == <<"c", "I", "r", ".">>
<1>1. /\ Len(f) = 4
      /\ f[1] = "c" /\ f[2] = "I" /\ f[3] = "r" /\ f[4] = "."
  OBVIOUS
<1>2. \A code \in {"PART", "TOPIC"} : FormatOf(code) = f
  BY DEF FormatOf, ChannelText, UserText, NotLetIn, WhoisFlags, WhoisNames
<1> HIDE DEF f
<1>3. Given(f, 3) = <<"uint", "uint">>
  BY <1>1, GivenOf, AddFacts
<1>4. /\ Len(f) \in Nat /\ 3 \in 0 .. Len(f)
      /\ \A j \in 1 .. 3 : f[j] \notin Lasts
      /\ 3 # Len(f) /\ "." = f[3 + 1] /\ "." \in Lasts
  BY <1>1 DEF Lasts
<1>5. Provides(f, <<"uint", "uint">>, ".")
  BY <1>3, <1>4, ProvidesIs
<1>. QED
  BY <1>2, <1>5

LEMMA ChannelTextFormat ==
    \A code \in ChannelText :
        Provides(FormatOf(code), <<"uint", "uint">>, ":")
<1> DEFINE f == <<"c", "I", "r", ":">>
<1>1. /\ Len(f) = 4
      /\ f[1] = "c" /\ f[2] = "I" /\ f[3] = "r" /\ f[4] = ":"
  OBVIOUS
<1>2. \A code \in ChannelText : FormatOf(code) = f
  BY DEF FormatOf, ChannelText, UserText, NotLetIn, WhoisFlags, WhoisNames
<1> HIDE DEF f
<1>3. Given(f, 3) = <<"uint", "uint">>
  BY <1>1, GivenOf, AddFacts
<1>4. /\ Len(f) \in Nat /\ 3 \in 0 .. Len(f)
      /\ \A j \in 1 .. 3 : f[j] \notin Lasts
      /\ 3 # Len(f) /\ ":" = f[3 + 1] /\ ":" \in Lasts
  BY <1>1 DEF Lasts
<1>5. Provides(f, <<"uint", "uint">>, ":")
  BY <1>3, <1>4, ProvidesIs
<1>. QED
  BY <1>2, <1>5

LEMMA UserTextFormat ==
    \A code \in UserText :
        Provides(FormatOf(code), <<"uint", "uint">>, ":")
<1> DEFINE f == <<"c", "I", "c", ":">>
<1>1. /\ Len(f) = 4
      /\ f[1] = "c" /\ f[2] = "I" /\ f[3] = "c" /\ f[4] = ":"
  OBVIOUS
<1>2. \A code \in UserText : FormatOf(code) = f
  BY DEF FormatOf, ChannelText, UserText, NotLetIn, WhoisFlags, WhoisNames
<1> HIDE DEF f
<1>3. Given(f, 3) = <<"uint", "uint">>
  BY <1>1, GivenOf, AddFacts
<1>4. /\ Len(f) \in Nat /\ 3 \in 0 .. Len(f)
      /\ \A j \in 1 .. 3 : f[j] \notin Lasts
      /\ 3 # Len(f) /\ ":" = f[3 + 1] /\ ":" \in Lasts
  BY <1>1 DEF Lasts
<1>5. Provides(f, <<"uint", "uint">>, ":")
  BY <1>3, <1>4, ProvidesIs
<1>. QED
  BY <1>2, <1>5

LEMMA WelcomeFormat == Provides(FormatOf("WELCOME"), <<"uint">>, "end")
<1> DEFINE f == <<"I", "I", "c">>
<1>1. /\ Len(f) = 3
      /\ f[1] = "I" /\ f[2] = "I" /\ f[3] = "c"
  OBVIOUS
<1>2. FormatOf("WELCOME") = f
  BY DEF FormatOf, ChannelText, UserText, NotLetIn, WhoisFlags, WhoisNames
<1> HIDE DEF f
<1>3. Given(f, 3) = <<"uint">>
  BY <1>1, GivenOf, AddFacts
<1>4. /\ Len(f) \in Nat /\ 3 \in 0 .. Len(f)
      /\ \A j \in 1 .. 3 : f[j] \notin Lasts
      /\ 3 = Len(f)
  BY <1>1 DEF Lasts
<1>. QED
  BY <1>2, <1>3, <1>4, ProvidesIs

LEMMA AwayFormat ==
    \A code \in {"AWAY", "WHOISHOST"} \cup WhoisFlags :
        Provides(FormatOf(code), <<"uint">>, ":")
<1> DEFINE f == <<"I", "I", "I", "c", ":">>
<1>1. /\ Len(f) = 5
      /\ f[1] = "I" /\ f[2] = "I" /\ f[3] = "I" /\ f[4] = "c" /\ f[5] = ":"
  OBVIOUS
<1>2. \A code \in {"AWAY", "WHOISHOST"} \cup WhoisFlags : FormatOf(code) = f
  BY DEF FormatOf, ChannelText, UserText, NotLetIn, WhoisFlags, WhoisNames
<1> HIDE DEF f
<1>3. Given(f, 4) = <<"uint">>
  BY <1>1, GivenOf, AddFacts
<1>4. /\ Len(f) \in Nat /\ 4 \in 0 .. Len(f)
      /\ \A j \in 1 .. 4 : f[j] \notin Lasts
      /\ 4 # Len(f) /\ ":" = f[4 + 1] /\ ":" \in Lasts
  BY <1>1 DEF Lasts
<1>5. Provides(f, <<"uint">>, ":")
  BY <1>3, <1>4, ProvidesIs
<1>. QED
  BY <1>2, <1>5

LEMMA EndOfWhoisFormat == Provides(FormatOf("ENDOFWHOIS"), <<"uint">>, "end")
<1> DEFINE f == <<"I", "I", "I", "c">>
<1>1. /\ Len(f) = 4
      /\ f[1] = "I" /\ f[2] = "I" /\ f[3] = "I" /\ f[4] = "c"
  OBVIOUS
<1>2. FormatOf("ENDOFWHOIS") = f
  BY DEF FormatOf, ChannelText, UserText, NotLetIn, WhoisFlags, WhoisNames
<1> HIDE DEF f
<1>3. Given(f, 4) = <<"uint">>
  BY <1>1, GivenOf, AddFacts
<1>4. /\ Len(f) \in Nat /\ 4 \in 0 .. Len(f)
      /\ \A j \in 1 .. 4 : f[j] \notin Lasts
      /\ 4 = Len(f)
  BY <1>1 DEF Lasts
<1>. QED
  BY <1>2, <1>3, <1>4, ProvidesIs

LEMMA ModeReplyFormat == Provides(FormatOf("MODEREPLY"), <<"uint">>, "v")
<1> DEFINE f == <<"I", "I", "I", "r", "v", "s">>
<1>1. /\ Len(f) = 6
      /\ f[1] = "I" /\ f[2] = "I" /\ f[3] = "I" /\ f[4] = "r" /\ f[5] = "v"
      /\ f[6] = "s"
  OBVIOUS
<1>2. FormatOf("MODEREPLY") = f
  BY DEF FormatOf, ChannelText, UserText, NotLetIn, WhoisFlags, WhoisNames
<1> HIDE DEF f
<1>3. Given(f, 4) = <<"uint">>
  BY <1>1, GivenOf, AddFacts
<1>4. /\ Len(f) \in Nat /\ 4 \in 0 .. Len(f)
      /\ \A j \in 1 .. 4 : f[j] \notin Lasts
      /\ 4 # Len(f) /\ "v" = f[4 + 1] /\ "v" \in Lasts
  BY <1>1 DEF Lasts
<1>. QED
  BY <1>2, <1>3, <1>4, ProvidesIs

LEMMA NameReplyFormat == Provides(FormatOf("NAMEREPLY"), <<"uint">>, "v")
<1> DEFINE f == <<"I", "I", "I", "I", "r", "v", "C">>
<1>1. /\ Len(f) = 7
      /\ f[1] = "I" /\ f[2] = "I" /\ f[3] = "I" /\ f[4] = "I" /\ f[5] = "r"
      /\ f[6] = "v" /\ f[7] = "C"
  OBVIOUS
<1>2. FormatOf("NAMEREPLY") = f
  BY DEF FormatOf, ChannelText, UserText, NotLetIn, WhoisFlags, WhoisNames
<1> HIDE DEF f
<1>3. Given(f, 5) = <<"uint">>
  BY <1>1, GivenOf, AddFacts
<1>4. /\ Len(f) \in Nat /\ 5 \in 0 .. Len(f)
      /\ \A j \in 1 .. 5 : f[j] \notin Lasts
      /\ 5 # Len(f) /\ "v" = f[5 + 1] /\ "v" \in Lasts
  BY <1>1 DEF Lasts
<1>. QED
  BY <1>2, <1>3, <1>4, ProvidesIs

LEMMA NotLetInFormat ==
    \A code \in NotLetIn \cup {"NAMEREPLY_END"} :
        Provides(FormatOf(code), <<"uint">>, "end")
<1> DEFINE f == <<"I", "I", "I", "r">>
<1>1. /\ Len(f) = 4
      /\ f[1] = "I" /\ f[2] = "I" /\ f[3] = "I" /\ f[4] = "r"
  OBVIOUS
<1>2. \A code \in NotLetIn \cup {"NAMEREPLY_END"} : FormatOf(code) = f
  BY DEF FormatOf, ChannelText, UserText, NotLetIn, WhoisFlags, WhoisNames
<1> HIDE DEF f
<1>3. Given(f, 4) = <<"uint">>
  BY <1>1, GivenOf, AddFacts
<1>4. /\ Len(f) \in Nat /\ 4 \in 0 .. Len(f)
      /\ \A j \in 1 .. 4 : f[j] \notin Lasts
      /\ 4 = Len(f)
  BY <1>1 DEF Lasts
<1>5. Provides(f, <<"uint">>, "end")
  BY <1>3, <1>4, ProvidesIs
<1>. QED
  BY <1>2, <1>5

LEMMA NoSuchServerFormat ==
    \A code \in {"NOSUCHSERVER", "TRYAGAIN", "UNKNOWNCOMMAND"} :
        Provides(FormatOf(code), <<"string">>, ":")
<1> DEFINE f == <<"I", "I", "I", "s", ":">>
<1>1. /\ Len(f) = 5
      /\ f[1] = "I" /\ f[2] = "I" /\ f[3] = "I" /\ f[4] = "s" /\ f[5] = ":"
  OBVIOUS
<1>2. \A code \in {"NOSUCHSERVER", "TRYAGAIN", "UNKNOWNCOMMAND"} :
          FormatOf(code) = f
  BY DEF FormatOf, ChannelText, UserText, NotLetIn, WhoisFlags, WhoisNames
<1> HIDE DEF f
<1>3. Given(f, 4) = <<"string">>
  BY <1>1, GivenOf, AddFacts
<1>4. /\ Len(f) \in Nat /\ 4 \in 0 .. Len(f)
      /\ \A j \in 1 .. 4 : f[j] \notin Lasts
      /\ 4 # Len(f) /\ ":" = f[4 + 1] /\ ":" \in Lasts
  BY <1>1 DEF Lasts
<1>5. Provides(f, <<"string">>, ":")
  BY <1>3, <1>4, ProvidesIs
<1>. QED
  BY <1>2, <1>5

LEMMA TopicReplyFormat == Provides(FormatOf("TOPIC_REPLY"), <<"uint">>, ":")
<1> DEFINE f == <<"I", "I", "I", "r", ":">>
<1>1. /\ Len(f) = 5
      /\ f[1] = "I" /\ f[2] = "I" /\ f[3] = "I" /\ f[4] = "r" /\ f[5] = ":"
  OBVIOUS
<1>2. FormatOf("TOPIC_REPLY") = f
  BY DEF FormatOf, ChannelText, UserText, NotLetIn, WhoisFlags, WhoisNames
<1> HIDE DEF f
<1>3. Given(f, 4) = <<"uint">>
  BY <1>1, GivenOf, AddFacts
<1>4. /\ Len(f) \in Nat /\ 4 \in 0 .. Len(f)
      /\ \A j \in 1 .. 4 : f[j] \notin Lasts
      /\ 4 # Len(f) /\ ":" = f[4 + 1] /\ ":" \in Lasts
  BY <1>1 DEF Lasts
<1>. QED
  BY <1>2, <1>3, <1>4, ProvidesIs

LEMMA TopicStampFormat ==
    Provides(FormatOf("TOPIC_STAMP"), <<"uint", "uint", "uint">>, "end")
<1> DEFINE f == <<"I", "I", "I", "r", "c", "d">>
<1>1. /\ Len(f) = 6
      /\ f[1] = "I" /\ f[2] = "I" /\ f[3] = "I" /\ f[4] = "r" /\ f[5] = "c"
      /\ f[6] = "d"
  OBVIOUS
<1>2. FormatOf("TOPIC_STAMP") = f
  BY DEF FormatOf, ChannelText, UserText, NotLetIn, WhoisFlags, WhoisNames
<1> HIDE DEF f
<1>3. Given(f, 6) = <<"uint", "uint", "uint">>
  BY <1>1, GivenOf, AddFacts
<1>4. /\ Len(f) \in Nat /\ 6 \in 0 .. Len(f)
      /\ \A j \in 1 .. 6 : f[j] \notin Lasts
      /\ 6 = Len(f)
  BY <1>1 DEF Lasts
<1>. QED
  BY <1>2, <1>3, <1>4, ProvidesIs

LEMMA WhoisChannelsFormat ==
    Provides(FormatOf("WHOISCHANNELS"), <<"uint">>, ".")
<1> DEFINE f == <<"I", "I", "I", "c", ".">>
<1>1. /\ Len(f) = 5
      /\ f[1] = "I" /\ f[2] = "I" /\ f[3] = "I" /\ f[4] = "c" /\ f[5] = "."
  OBVIOUS
<1>2. FormatOf("WHOISCHANNELS") = f
  BY DEF FormatOf, ChannelText, UserText, NotLetIn, WhoisFlags, WhoisNames
<1> HIDE DEF f
<1>3. Given(f, 4) = <<"uint">>
  BY <1>1, GivenOf, AddFacts
<1>4. /\ Len(f) \in Nat /\ 4 \in 0 .. Len(f)
      /\ \A j \in 1 .. 4 : f[j] \notin Lasts
      /\ 4 # Len(f) /\ "." = f[4 + 1] /\ "." \in Lasts
  BY <1>1 DEF Lasts
<1>. QED
  BY <1>2, <1>3, <1>4, ProvidesIs

LEMMA WhoisIdleFormat ==
    Provides(FormatOf("WHOISIDLE"), <<"uint", "uint">>, "end")
<1> DEFINE f == <<"I", "I", "I", "c", "d">>
<1>1. /\ Len(f) = 5
      /\ f[1] = "I" /\ f[2] = "I" /\ f[3] = "I" /\ f[4] = "c" /\ f[5] = "d"
  OBVIOUS
<1>2. FormatOf("WHOISIDLE") = f
  BY DEF FormatOf, ChannelText, UserText, NotLetIn, WhoisFlags, WhoisNames
<1> HIDE DEF f
<1>3. Given(f, 5) = <<"uint", "uint">>
  BY <1>1, GivenOf, AddFacts
<1>4. /\ Len(f) \in Nat /\ 5 \in 0 .. Len(f)
      /\ \A j \in 1 .. 5 : f[j] \notin Lasts
      /\ 5 = Len(f)
  BY <1>1 DEF Lasts
<1>. QED
  BY <1>2, <1>3, <1>4, ProvidesIs

LEMMA WhoisUserFormat ==
    Provides(FormatOf("WHOISUSER"), <<"uint", "string", "string">>, ":")
<1> DEFINE f == <<"I", "I", "I", "c", "s", "s", "I", ":">>
<1>1. /\ Len(f) = 8
      /\ f[1] = "I" /\ f[2] = "I" /\ f[3] = "I" /\ f[4] = "c" /\ f[5] = "s"
      /\ f[6] = "s" /\ f[7] = "I" /\ f[8] = ":"
  OBVIOUS
<1>2. FormatOf("WHOISUSER") = f
  BY DEF FormatOf, ChannelText, UserText, NotLetIn, WhoisFlags, WhoisNames
<1> HIDE DEF f
<1>3. Given(f, 7) = <<"uint", "string", "string">>
  BY <1>1, GivenOf, AddFacts
<1>4. /\ Len(f) \in Nat /\ 7 \in 0 .. Len(f)
      /\ \A j \in 1 .. 7 : f[j] \notin Lasts
      /\ 7 # Len(f) /\ ":" = f[7 + 1] /\ ":" \in Lasts
  BY <1>1 DEF Lasts
<1>. QED
  BY <1>2, <1>3, <1>4, ProvidesIs

LEMMA WhoisNamesFormat ==
    \A code \in WhoisNames :
        Provides(FormatOf(code), <<"uint", "string">>, ":")
<1> DEFINE f == <<"I", "I", "I", "c", "s", ":">>
<1>1. /\ Len(f) = 6
      /\ f[1] = "I" /\ f[2] = "I" /\ f[3] = "I" /\ f[4] = "c" /\ f[5] = "s"
      /\ f[6] = ":"
  OBVIOUS
<1>2. \A code \in WhoisNames : FormatOf(code) = f
  BY DEF FormatOf, ChannelText, UserText, NotLetIn, WhoisFlags, WhoisNames
<1> HIDE DEF f
<1>3. Given(f, 5) = <<"uint", "string">>
  BY <1>1, GivenOf, AddFacts
<1>4. /\ Len(f) \in Nat /\ 5 \in 0 .. Len(f)
      /\ \A j \in 1 .. 5 : f[j] \notin Lasts
      /\ 5 # Len(f) /\ ":" = f[5 + 1] /\ ":" \in Lasts
  BY <1>1 DEF Lasts
<1>5. Provides(f, <<"uint", "string">>, ":")
  BY <1>3, <1>4, ProvidesIs
<1>. QED
  BY <1>2, <1>5

LEMMA ListFormat == Provides(FormatOf("LIST"), <<"uint", "uint">>, ".")
<1> DEFINE f == <<"I", "I", "I", "r", "d", ".">>
<1>1. /\ Len(f) = 6
      /\ f[1] = "I" /\ f[2] = "I" /\ f[3] = "I" /\ f[4] = "r" /\ f[5] = "d"
      /\ f[6] = "."
  OBVIOUS
<1>2. FormatOf("LIST") = f
  BY DEF FormatOf, ChannelText, UserText, NotLetIn, WhoisFlags, WhoisNames
<1> HIDE DEF f
<1>3. Given(f, 5) = <<"uint", "uint">>
  BY <1>1, GivenOf, AddFacts
<1>4. /\ Len(f) \in Nat /\ 5 \in 0 .. Len(f)
      /\ \A j \in 1 .. 5 : f[j] \notin Lasts
      /\ 5 # Len(f) /\ "." = f[5 + 1] /\ "." \in Lasts
  BY <1>1 DEF Lasts
<1>. QED
  BY <1>2, <1>3, <1>4, ProvidesIs

(* Some of the arguments and strings behind them.                          *)
Strings(t) ==
    t \in Seq(ValueTypes) /\ \A j \in 1 .. Len(t) : t[j] = "string"
Extended(args, full) == \E t : Strings(t) /\ args = full \o t

LEMMA ArgsEnd ==
    ASSUME NEW format, NEW fixed \in Seq(ValueTypes), NEW last,
           Provides(format, fixed, last), NEW tokens \in Seq(Tokens),
           Parses(tokens, format, Rest(tokens, format))
    PROVE  LET args == ValuesOf(tokens, format)
           IN  /\ last \in {"end", "."} => Extended(args, fixed)
               /\ last = ":" => args = fixed \o <<"string">>
               /\ last = "v" => \E n \in Nat :
                                   args = fixed \o Repeated(Last(format), n)
<1> DEFINE args == ValuesOf(tokens, format)
           rest == Rest(tokens, format)
<1>1. args = fixed \o Behind(format, rest)
  BY ArgsAre DEF Provides
<1>2. /\ LastOf(format) = last
      /\ last = ":" => IsTrailing(rest)
  BY DEF Provides, Parses
<1>3. Len(rest) \in Nat
  <2> DEFINE m == AtomCount(format) + 1
             l == Len(tokens)
  <2>1. m \in Int /\ l \in Int /\ \A i \in m .. l : tokens[i] \in Tokens
    <3>1. AtomCount(format) \in Nat /\ l \in Nat
      BY LenProperties DEF Provides
    <3>. QED
      BY <3>1, ElementOfSeq
  <2>2. rest = SubSeq(tokens, m, l)
    BY DEF Rest
  <2> HIDE DEF m, l, rest
  <2>3. rest \in Seq(Tokens)
    BY <2>1, <2>2, SubSeqProperties
  <2>. QED
    BY <2>3, LenProperties
<1> HIDE DEF args, rest
<1>4. CASE last = "v"
  <2>1. Behind(format, rest) = Repeated(Last(format), Len(rest))
    BY <1>2, <1>4 DEF Behind
  <2>. QED
    BY <1>1, <1>3, <1>4, <2>1 DEF args
<1>5. CASE last = ":"
  <2>1. Behind(format, rest) = <<"string">>
    BY <1>2, <1>5 DEF Behind
  <2>. QED
    BY <1>1, <1>5, <2>1 DEF args
<1>6. CASE last \in {"end", "."}
  <2>1. Behind(format, rest) \in {<<>>, <<"string">>}
    BY <1>2, <1>6 DEF Behind
  <2>2. Strings(<<>>) /\ Strings(<<"string">>)
    BY DEF Strings, ValueTypes
  <2>3. Strings(Behind(format, rest))
    BY <2>1, <2>2
  <2>4. Extended(args, fixed)
    BY <1>1, <2>3 DEF Extended
  <2>. QED
    BY <1>6, <2>4 DEF args
<1>. QED
  BY <1>4, <1>5, <1>6 DEF args

(* A handler finds what it takes.                                          *)
Finds(taken, code, args) ==
    /\ Len(taken) <= Len(args)
    /\ \A i \in DOMAIN taken : taken[i] \in {args[i], "any"}
    /\ \A i \in Len(taken) + 1 .. Len(args) : args[i] = TakenFor(code, i)

Suits(code, args) ==
    \A taker \in Takers :
        code \in DOMAIN taker => Finds(taker[code], code, args)

IsTaken(taken) == Len(taken) \in Nat /\ DOMAIN taken = 1 .. Len(taken)

LEMMA TakenTypes ==
    \A taker \in Takers : \A code \in DOMAIN taker : IsTaken(taker[code])
<1>1. IsTaken(U(1)) /\ IsTaken(U(2)) /\ IsTaken(U(3))
  BY DEF IsTaken, U
<1>2. /\ IsTaken(<<>>) /\ IsTaken(<<"string">>)
      /\ IsTaken(<<"string", "string">>) /\ IsTaken(<<"uint", "string">>)
      /\ IsTaken(<<"uint", "any", "string">>)
      /\ IsTaken(<<"uint", "uint", "string">>)
      /\ IsTaken(<<"uint", "string", "string">>)
      /\ IsTaken(<<"uint", "any", "any", "string">>)
  BY DEF IsTaken
<1>3. \A code \in DOMAIN TakenByConnection : IsTaken(TakenByConnection[code])
  BY <1>1, <1>2 DEF TakenByConnection
<1>4. \A code \in DOMAIN TakenByContactInfo : IsTaken(TakenByContactInfo[code])
  BY <1>1, <1>2 DEF TakenByContactInfo
<1>5. \A code \in DOMAIN TakenByIm : IsTaken(TakenByIm[code])
  BY <1>1, <1>2 DEF TakenByIm
<1>6. \A code \in DOMAIN TakenByMuc : IsTaken(TakenByMuc[code])
  BY <1>1, <1>2 DEF TakenByMuc
<1>7. \A code \in DOMAIN TakenByRoomlist : IsTaken(TakenByRoomlist[code])
  BY <1>1, <1>2 DEF TakenByRoomlist
<1>. QED
  BY <1>3, <1>4, <1>5, <1>6, <1>7 DEF Takers

LEMMA StringsFit ==
    ASSUME NEW code, code # "NAMEREPLY", NEW full \in Seq(ValueTypes),
           Suits(code, full), NEW args, Extended(args, full)
    PROVE  Suits(code, args)
<1>1. PICK t : Strings(t) /\ args = full \o t
  BY DEF Extended
<1>2. /\ Len(full) \in Nat /\ Len(t) \in Nat /\ Len(args) = Len(full) + Len(t)
      /\ \A i \in 1 .. Len(full) + Len(t) :
            args[i] = IF i <= Len(full) THEN full[i] ELSE t[i - Len(full)]
      /\ \A i \in 1 .. Len(t) : t[i] = "string"
  BY <1>1, ConcatProperties, LenProperties DEF Strings
<1>3. \A i : TakenFor(code, i) = "string"
  BY DEF TakenFor
<1>4. ASSUME NEW taken, IsTaken(taken), Finds(taken, code, full)
      PROVE  Finds(taken, code, args)
  <2>1. /\ Len(taken) <= Len(full) /\ Len(taken) \in Nat
        /\ DOMAIN taken = 1 .. Len(taken)
        /\ \A i \in 1 .. Len(taken) : taken[i] \in {full[i], "any"}
        /\ \A i \in Len(taken) + 1 .. Len(full) : full[i] = "string"
    BY <1>3, <1>4 DEF Finds, IsTaken
  <2>2. \A i \in 1 .. Len(taken) : args[i] = full[i]
    BY <1>2, <2>1
  <2>3. ASSUME NEW i \in Len(taken) + 1 .. Len(args) PROVE args[i] = "string"
    <3>1. CASE i <= Len(full)
      BY <1>2, <2>1, <3>1
    <3>2. CASE ~(i <= Len(full))
      <4>1. i - Len(full) \in 1 .. Len(t) /\ i \in 1 .. Len(full) + Len(t)
        BY <1>2, <2>1, <3>2
      <4>. QED
        BY <1>2, <3>2, <4>1
    <3>. QED
      BY <3>1, <3>2
  <2>4. Len(taken) <= Len(args)
    BY <1>2, <2>1
  <2>. QED
    BY <1>3, <2>1, <2>2, <2>3, <2>4 DEF Finds
<1>. QED
  BY <1>4, TakenTypes DEF Suits

(* A line of that code, if it is forwarded, gives those arguments and      *)
(* maybe strings.                                                          *)
Serves(code, full) ==
    \A tokens \in Seq(Tokens) :
        Parses(tokens, FormatOf(code), Rest(tokens, FormatOf(code)))
        => Extended(ValuesOf(tokens, FormatOf(code)), full)

LEMMA ServesIs ==
    ASSUME NEW code, NEW fixed \in Seq(ValueTypes), NEW last,
           Provides(FormatOf(code), fixed, last)
    PROVE  /\ last \in {"end", "."} => Serves(code, fixed)
           /\ last = ":" => Serves(code, fixed \o <<"string">>)
           /\ last = "v" /\ Last(FormatOf(code)) = "s" => Serves(code, fixed)
<1>1. ASSUME last \in {"end", "."} PROVE Serves(code, fixed)
  BY <1>1, ArgsEnd DEF Serves
<1>2. ASSUME last = ":" PROVE Serves(code, fixed \o <<"string">>)
  <2> DEFINE full == fixed \o <<"string">>
  <2>1. Strings(<<>>) /\ full \o <<>> = full
    <3>1. <<"string">> \in Seq(ValueTypes)
      BY DEF ValueTypes
    <3>2. full \in Seq(ValueTypes)
      BY <3>1, ConcatProperties
    <3>3. Strings(<<>>)
      BY DEF Strings, ValueTypes
    <3> HIDE DEF full
    <3>. QED
      BY <3>2, <3>3, ConcatEmptySeq
  <2> HIDE DEF full
  <2>2. Extended(full, full)
    BY <2>1 DEF Extended
  <2>3. ASSUME NEW tokens \in Seq(Tokens),
               Parses(tokens, FormatOf(code), Rest(tokens, FormatOf(code)))
        PROVE  ValuesOf(tokens, FormatOf(code)) = full
    BY <1>2, <2>3, ArgsEnd DEF full
  <2>4. Serves(code, full)
    BY <2>2, <2>3 DEF Serves
  <2>. QED
    BY <2>4 DEF full
<1>3. ASSUME last = "v", Last(FormatOf(code)) = "s" PROVE Serves(code, fixed)
  <2>1. \A n \in Nat : Strings(Repeated("s", n))
    BY AllStrings DEF Strings
  <2>2. ASSUME NEW tokens \in Seq(Tokens),
               Parses(tokens, FormatOf(code), Rest(tokens, FormatOf(code)))
        PROVE  Extended(ValuesOf(tokens, FormatOf(code)), fixed)
    <3>1. \E n \in Nat : ValuesOf(tokens, FormatOf(code)) =
                             fixed \o Repeated(Last(FormatOf(code)), n)
      BY <1>3, <2>2, ArgsEnd
    <3>2. PICK n \in Nat : ValuesOf(tokens, FormatOf(code)) =
                               fixed \o Repeated("s", n)
      BY <1>3, <3>1
    <3>. QED
      BY <2>1, <3>2 DEF Extended
  <2>. QED
    BY <2>2 DEF Serves
<1>. QED
  BY <1>1, <1>2, <1>3

(* Each sequence that handlers take, and the arguments it is taken from.   *)
LEMMA FindsAll ==
    ASSUME NEW code, code # "NAMEREPLY"
    PROVE  /\ Finds(<<>>, code, <<>>)
           /\ Finds(U(1), code, <<"uint">>)
           /\ Finds(U(2), code, <<"uint", "uint">>)
           /\ Finds(U(3), code, <<"uint", "uint", "uint">>)
           /\ Finds(<<"string">>, code, <<"string">>)
           /\ Finds(<<"string">>, code, <<"string", "string">>)
           /\ Finds(<<"string", "string">>, code, <<"string", "string">>)
           /\ Finds(U(1), code, <<"uint", "string">>)
           /\ Finds(<<"uint", "string">>, code, <<"uint", "string">>)
           /\ Finds(<<"uint", "string", "string">>, code,
                    <<"uint", "string", "string">>)
           /\ Finds(<<"uint", "string", "string">>, code,
                    <<"uint", "string", "string", "string">>)
           /\ Finds(<<"uint", "any", "any", "string">>, code,
                    <<"uint", "string", "string", "string">>)
           /\ Finds(<<"uint", "uint", "string">>, code,
                    <<"uint", "uint", "string">>)
           /\ Finds(<<"uint", "any", "string">>, code,
                    <<"uint", "uint", "string">>)
<1>1. \A i : TakenFor(code, i) = "string"
  BY DEF TakenFor
<1>2. Finds(<<>>, code, <<>>)
  BY DEF Finds
<1>3. Finds(U(1), code, <<"uint">>)
  BY DEF Finds, U
<1>4. Finds(U(2), code, <<"uint", "uint">>)
  BY DEF Finds, U
<1>5. Finds(U(3), code, <<"uint", "uint", "uint">>)
  BY DEF Finds, U
<1>6. Finds(<<"string">>, code, <<"string">>)
  BY DEF Finds
<1>7. Finds(<<"string">>, code, <<"string", "string">>)
  BY <1>1 DEF Finds
<1>8. Finds(<<"string", "string">>, code, <<"string", "string">>)
  BY DEF Finds
<1>9. Finds(U(1), code, <<"uint", "string">>)
  BY <1>1 DEF Finds, U
<1>10. Finds(<<"uint", "string">>, code, <<"uint", "string">>)
  BY DEF Finds
<1>11. Finds(<<"uint", "string", "string">>, code,
             <<"uint", "string", "string">>)
  BY DEF Finds
<1>12. Finds(<<"uint", "string", "string">>, code,
             <<"uint", "string", "string", "string">>)
  BY <1>1 DEF Finds
<1>13. Finds(<<"uint", "any", "any", "string">>, code,
             <<"uint", "string", "string", "string">>)
  BY DEF Finds
<1>14. Finds(<<"uint", "uint", "string">>, code, <<"uint", "uint", "string">>)
  BY DEF Finds
<1>15. Finds(<<"uint", "any", "string">>, code, <<"uint", "uint", "string">>)
  BY DEF Finds
<1>. QED
  BY <1>2, <1>3, <1>4, <1>5, <1>6, <1>7, <1>8, <1>9, <1>10, <1>11, <1>12,
     <1>13, <1>14, <1>15

(* The handlers of each code, by the arguments that their format gives.    *)
LEMMA SuitsNothing ==
    ASSUME NEW code \in
        {"LISTEND"}
    PROVE  Suits(code, <<>>)
<1> DEFINE args == <<>>
<1>1. code # "NAMEREPLY"
  BY DEF ChannelText, UserText, NotLetIn, WhoisFlags, WhoisNames
<1>2. ASSUME NEW taker \in Takers, code \in DOMAIN taker
      PROVE  Finds(taker[code], code, args)
  BY <1>1, <1>2, FindsAll
  DEF Takers, TakenByConnection, TakenByContactInfo, TakenByIm, TakenByMuc,
      TakenByRoomlist, ChannelText, UserText, NotLetIn, WhoisFlags, WhoisNames
<1>. QED
  BY <1>2 DEF Suits

LEMMA SuitsOneContact ==
    ASSUME NEW code \in
        {"MODE_CHANNEL", "MODEREPLY", "QUIT", "WELCOME", "ENDOFWHOIS",
         "WHOISCHANNELS", "NAMEREPLY_END"} \cup NotLetIn
    PROVE  Suits(code, <<"uint">>)
<1> DEFINE args == <<"uint">>
<1>1. code # "NAMEREPLY"
  BY DEF ChannelText, UserText, NotLetIn, WhoisFlags, WhoisNames
<1>2. ASSUME NEW taker \in Takers, code \in DOMAIN taker
      PROVE  Finds(taker[code], code, args)
  <2>1. CASE taker = TakenByConnection
    BY <1>1, <1>2, <2>1, FindsAll
    DEF TakenByConnection, ChannelText, UserText, NotLetIn, WhoisFlags,
        WhoisNames
  <2>2. CASE taker = TakenByContactInfo
    BY <1>1, <1>2, <2>2, FindsAll
    DEF TakenByContactInfo, ChannelText, UserText, NotLetIn, WhoisFlags,
        WhoisNames
  <2>3. CASE taker = TakenByIm
    BY <1>1, <1>2, <2>3, FindsAll
    DEF TakenByIm, ChannelText, UserText, NotLetIn, WhoisFlags, WhoisNames
  <2>4. CASE taker = TakenByMuc
    BY <1>1, <1>2, <2>4, FindsAll
    DEF TakenByMuc, ChannelText, UserText, NotLetIn, WhoisFlags, WhoisNames
  <2>5. CASE taker = TakenByRoomlist
    BY <1>1, <1>2, <2>5, FindsAll
    DEF TakenByRoomlist, ChannelText, UserText, NotLetIn, WhoisFlags,
        WhoisNames
  <2>. QED
    BY <1>2, <2>1, <2>2, <2>3, <2>4, <2>5 DEF Takers
<1>. QED
  BY <1>2 DEF Suits

LEMMA SuitsTwo ==
    ASSUME NEW code \in
        {"JOIN", "NICK", "PART", "TOPIC", "WHOISIDLE", "LIST"}
    PROVE  Suits(code, <<"uint", "uint">>)
<1> DEFINE args == <<"uint", "uint">>
<1>1. code # "NAMEREPLY"
  BY DEF ChannelText, UserText, NotLetIn, WhoisFlags, WhoisNames
<1>2. ASSUME NEW taker \in Takers, code \in DOMAIN taker
      PROVE  Finds(taker[code], code, args)
  BY <1>1, <1>2, FindsAll
  DEF Takers, TakenByConnection, TakenByContactInfo, TakenByIm, TakenByMuc,
      TakenByRoomlist, ChannelText, UserText, NotLetIn, WhoisFlags, WhoisNames
<1>. QED
  BY <1>2 DEF Suits

LEMMA SuitsThree ==
    ASSUME NEW code \in
        {"INVITE", "KICK", "TOPIC_STAMP"}
    PROVE  Suits(code, <<"uint", "uint", "uint">>)
<1> DEFINE args == <<"uint", "uint", "uint">>
<1>1. code # "NAMEREPLY"
  BY DEF ChannelText, UserText, NotLetIn, WhoisFlags, WhoisNames
<1>2. ASSUME NEW taker \in Takers, code \in DOMAIN taker
      PROVE  Finds(taker[code], code, args)
  BY <1>1, <1>2, FindsAll
  DEF Takers, TakenByConnection, TakenByContactInfo, TakenByIm, TakenByMuc,
      TakenByRoomlist, ChannelText, UserText, NotLetIn, WhoisFlags, WhoisNames
<1>. QED
  BY <1>2 DEF Suits

LEMMA SuitsString ==
    ASSUME NEW code \in
        {"ERROR", "PING"}
    PROVE  Suits(code, <<"string">>)
<1> DEFINE args == <<"string">>
<1>1. code # "NAMEREPLY"
  BY DEF ChannelText, UserText, NotLetIn, WhoisFlags, WhoisNames
<1>2. ASSUME NEW taker \in Takers, code \in DOMAIN taker
      PROVE  Finds(taker[code], code, args)
  BY <1>1, <1>2, FindsAll
  DEF Takers, TakenByConnection, TakenByContactInfo, TakenByIm, TakenByMuc,
      TakenByRoomlist, ChannelText, UserText, NotLetIn, WhoisFlags, WhoisNames
<1>. QED
  BY <1>2 DEF Suits

LEMMA SuitsStrings ==
    ASSUME NEW code \in
        {"NOSUCHSERVER", "TRYAGAIN", "UNKNOWNCOMMAND"}
    PROVE  Suits(code, <<"string", "string">>)
<1> DEFINE args == <<"string", "string">>
<1>1. code # "NAMEREPLY"
  BY DEF ChannelText, UserText, NotLetIn, WhoisFlags, WhoisNames
<1>2. ASSUME NEW taker \in Takers, code \in DOMAIN taker
      PROVE  Finds(taker[code], code, args)
  BY <1>1, <1>2, FindsAll
  DEF Takers, TakenByConnection, TakenByContactInfo, TakenByIm, TakenByMuc,
      TakenByRoomlist, ChannelText, UserText, NotLetIn, WhoisFlags, WhoisNames
<1>. QED
  BY <1>2 DEF Suits

LEMMA SuitsAndString ==
    ASSUME NEW code \in
        {"AWAY", "WHOISHOST", "TOPIC_REPLY"} \cup WhoisFlags
    PROVE  Suits(code, <<"uint", "string">>)
<1> DEFINE args == <<"uint", "string">>
<1>1. code # "NAMEREPLY"
  BY DEF ChannelText, UserText, NotLetIn, WhoisFlags, WhoisNames
<1>2. ASSUME NEW taker \in Takers, code \in DOMAIN taker
      PROVE  Finds(taker[code], code, args)
  <2>1. CASE taker = TakenByConnection
    BY <1>1, <1>2, <2>1, FindsAll
    DEF TakenByConnection, ChannelText, UserText, NotLetIn, WhoisFlags,
        WhoisNames
  <2>2. CASE taker = TakenByContactInfo
    BY <1>1, <1>2, <2>2, FindsAll
    DEF TakenByContactInfo, ChannelText, UserText, NotLetIn, WhoisFlags,
        WhoisNames
  <2>3. CASE taker = TakenByIm
    BY <1>1, <1>2, <2>3, FindsAll
    DEF TakenByIm, ChannelText, UserText, NotLetIn, WhoisFlags, WhoisNames
  <2>4. CASE taker = TakenByMuc
    BY <1>1, <1>2, <2>4, FindsAll
    DEF TakenByMuc, ChannelText, UserText, NotLetIn, WhoisFlags, WhoisNames
  <2>5. CASE taker = TakenByRoomlist
    BY <1>1, <1>2, <2>5, FindsAll
    DEF TakenByRoomlist, ChannelText, UserText, NotLetIn, WhoisFlags,
        WhoisNames
  <2>. QED
    BY <1>2, <2>1, <2>2, <2>3, <2>4, <2>5 DEF Takers
<1>. QED
  BY <1>2 DEF Suits

LEMMA SuitsAndStrings ==
    ASSUME NEW code \in
        WhoisNames
    PROVE  Suits(code, <<"uint", "string", "string">>)
<1> DEFINE args == <<"uint", "string", "string">>
<1>1. code # "NAMEREPLY"
  BY DEF ChannelText, UserText, NotLetIn, WhoisFlags, WhoisNames
<1>2. ASSUME NEW taker \in Takers, code \in DOMAIN taker
      PROVE  Finds(taker[code], code, args)
  BY <1>1, <1>2, FindsAll
  DEF Takers, TakenByConnection, TakenByContactInfo, TakenByIm, TakenByMuc,
      TakenByRoomlist, ChannelText, UserText, NotLetIn, WhoisFlags, WhoisNames
<1>. QED
  BY <1>2 DEF Suits

LEMMA SuitsUser ==
    ASSUME NEW code \in
        {"WHOISUSER"}
    PROVE  Suits(code, <<"uint", "string", "string", "string">>)
<1> DEFINE args == <<"uint", "string", "string", "string">>
<1>1. code # "NAMEREPLY"
  BY DEF ChannelText, UserText, NotLetIn, WhoisFlags, WhoisNames
<1>2. ASSUME NEW taker \in Takers, code \in DOMAIN taker
      PROVE  Finds(taker[code], code, args)
  BY <1>1, <1>2, FindsAll
  DEF Takers, TakenByConnection, TakenByContactInfo, TakenByIm, TakenByMuc,
      TakenByRoomlist, ChannelText, UserText, NotLetIn, WhoisFlags, WhoisNames
<1>. QED
  BY <1>2 DEF Suits

LEMMA SuitsText ==
    ASSUME NEW code \in
        ChannelText \cup UserText
    PROVE  Suits(code, <<"uint", "uint", "string">>)
<1> DEFINE args == <<"uint", "uint", "string">>
<1>1. code # "NAMEREPLY"
  BY DEF ChannelText, UserText, NotLetIn, WhoisFlags, WhoisNames
<1>2. ASSUME NEW taker \in Takers, code \in DOMAIN taker
      PROVE  Finds(taker[code], code, args)
  BY <1>1, <1>2, FindsAll
  DEF Takers, TakenByConnection, TakenByContactInfo, TakenByIm, TakenByMuc,
      TakenByRoomlist, ChannelText, UserText, NotLetIn, WhoisFlags, WhoisNames
<1>. QED
  BY <1>2 DEF Suits

(* A handler that is called for a line of that code finds what it takes.   *)
Answered(code) ==
    \A tokens \in Seq(Tokens) :
        Parses(tokens, FormatOf(code), Rest(tokens, FormatOf(code)))
        => Suits(code, ValuesOf(tokens, FormatOf(code)))

(* Handlers that find what they take in what the format gives.             *)
LEMMA ServesSuits ==
    ASSUME NEW code, code # "NAMEREPLY", NEW full \in Seq(ValueTypes),
           Serves(code, full), Suits(code, full)
    PROVE  Answered(code)
BY StringsFit DEF Answered, Serves

(* RPL_NAMREPLY: the channel, and the members in pairs.                    *)
LEMMA NamesAnswered == Answered("NAMEREPLY")
<1> DEFINE code == "NAMEREPLY"
           one == <<"uint">>
<1>1. ASSUME NEW n \in Nat, NEW args, args = one \o Repeated("C", n)
      PROVE  Suits(code, args)
  <2> DEFINE pairs == Repeated("C", n)
  <2>1. /\ pairs \in Seq(ValueTypes) /\ Len(pairs) \in Nat
        /\ \A j \in 1 .. Len(pairs) :
              pairs[j] = IF j % 2 = 1 THEN "uint" ELSE "char"
    BY Pairs, LenProperties
  <2>2. one \in Seq(ValueTypes) /\ Len(one) = 1 /\ one[1] = "uint"
    BY DEF ValueTypes
  <2>3. args = one \o pairs
    BY <1>1
  <2> HIDE DEF pairs, one
  <2>4. /\ Len(args) = Len(one) + Len(pairs)
        /\ \A i \in 1 .. Len(one) + Len(pairs) :
              args[i] = IF i <= Len(one) THEN one[i] ELSE pairs[i - Len(one)]
    BY <2>1, <2>2, <2>3, ConcatProperties
  <2>5. Len(args) \in Nat /\ 1 <= Len(args) /\ args[1] = "uint"
    <3>1. 1 \in 1 .. Len(one) + Len(pairs)
      BY <2>1, <2>2
    <3>2. args[1] = one[1]
      BY <2>2, <2>4, <3>1
    <3>. QED
      BY <2>1, <2>2, <2>4, <3>2
  <2>6. ASSUME NEW i \in 2 .. Len(args) PROVE args[i] = TakenFor(code, i)
    <3>1. /\ i - 1 \in 1 .. Len(pairs) /\ i \in 1 .. Len(one) + Len(pairs)
          /\ ~(i <= Len(one))
      BY <2>1, <2>2, <2>4
    <3>2. args[i] = pairs[i - 1]
      BY <2>2, <2>4, <3>1
    <3>3. (i - 1) % 2 = 1 <=> i % 2 = 0
      BY <3>1
    <3>. QED
      BY <2>1, <3>1, <3>2, <3>3 DEF TakenFor
  <2>7. Finds(U(1), code, args)
    BY <2>5, <2>6 DEF Finds, U
  <2>8. ASSUME NEW taker \in Takers, code \in DOMAIN taker
        PROVE  taker[code] = U(1)
    BY <2>8 DEF Takers, TakenByConnection, TakenByContactInfo, TakenByIm,
                TakenByMuc, TakenByRoomlist, ChannelText, UserText, NotLetIn,
                WhoisFlags, WhoisNames
  <2>. QED
    BY <2>7, <2>8 DEF Suits
<1>2. Last(FormatOf(code)) = "C"
  <2> DEFINE f == <<"I", "I", "I", "I", "r", "v", "C">>
  <2>1. FormatOf(code) = f
    BY DEF FormatOf, ChannelText, UserText, NotLetIn, WhoisFlags, WhoisNames
  <2>2. Len(f) = 7 /\ f[7] = "C"
    OBVIOUS
  <2> HIDE DEF f, code
  <2>. QED
    BY <2>1, <2>2 DEF Last
<1>3. one \in Seq(ValueTypes)
  BY DEF ValueTypes
<1>4. Provides(FormatOf(code), one, "v")
  BY NameReplyFormat
<1>5. ASSUME NEW tokens \in Seq(Tokens),
             Parses(tokens, FormatOf(code), Rest(tokens, FormatOf(code)))
      PROVE  \E n \in Nat :
                ValuesOf(tokens, FormatOf(code)) = one \o Repeated("C", n)
  <2> HIDE DEF code, one
  <2>. QED
    BY <1>2, <1>3, <1>4, <1>5, ArgsEnd
<1> HIDE DEF code, one
<1>6. Answered(code)
  BY <1>1, <1>5 DEF Answered
<1>. QED
  BY <1>6 DEF code

(* The arguments that formats give, with and without the trailing one.     *)
LEMMA FullTypes ==
    /\ <<>> \in Seq(ValueTypes)
    /\ <<"uint">> \in Seq(ValueTypes)
    /\ <<"uint", "uint">> \in Seq(ValueTypes)
    /\ <<"uint", "uint", "uint">> \in Seq(ValueTypes)
    /\ <<"string">> \in Seq(ValueTypes)
    /\ <<"uint", "string">> \in Seq(ValueTypes)
    /\ <<"string", "string">> \in Seq(ValueTypes)
    /\ <<"uint", "uint", "string">> \in Seq(ValueTypes)
    /\ <<"uint", "string", "string">> \in Seq(ValueTypes)
    /\ <<"uint", "string", "string", "string">> \in Seq(ValueTypes)
BY DEF ValueTypes

LEMMA FullWith ==
    /\ <<>> \o <<"string">> = <<"string">>
    /\ <<"uint">> \o <<"string">> = <<"uint", "string">>
    /\ <<"string">> \o <<"string">> = <<"string", "string">>
    /\ <<"uint", "uint">> \o <<"string">> = <<"uint", "uint", "string">>
    /\ <<"uint", "string">> \o <<"string">> = <<"uint", "string", "string">>
    /\ <<"uint", "string", "string">> \o <<"string">>
          = <<"uint", "string", "string", "string">>
<1>1. <<>> \o <<"string">> = <<"string">>
  BY WithOneMore, Zenon
<1>2. <<"uint">> \o <<"string">> = <<"uint", "string">>
  BY WithOneMore, Zenon
<1>3. <<"string">> \o <<"string">> = <<"string", "string">>
  BY WithOneMore, Zenon
<1>4. <<"uint", "uint">> \o <<"string">> = <<"uint", "uint", "string">>
  BY WithOneMore, Zenon
<1>5. <<"uint", "string">> \o <<"string">> = <<"uint", "string", "string">>
  BY WithOneMore, Zenon
<1>6. <<"uint", "string", "string">> \o <<"string">>
          = <<"uint", "string", "string", "string">>
  <2> DEFINE p == <<"uint", "string", "string">>
             q == <<"uint", "string", "string", "string">>
             e == "string"
  <2>1. /\ p \in Seq(ValueTypes) /\ q \in Seq(ValueTypes) /\ e \in ValueTypes
        /\ Len(p) = 3 /\ Len(q) = 4
        /\ p[1] = "uint" /\ p[2] = "string" /\ p[3] = "string"
        /\ q[1] = "uint" /\ q[2] = "string" /\ q[3] = "string" /\ q[4] = e
    BY DEF ValueTypes
  <2> HIDE DEF p, q, e
  <2>2. Len(q) = Len(p) + 1 /\ q[Len(p) + 1] = e
        /\ \A i \in 1 .. Len(p) : q[i] = p[i]
    <3>1. \A i \in 1 .. 3 : q[i] = p[i]
      BY <2>1 DEF e
    <3>. QED
      BY <2>1, <3>1
  <2>3. p \o <<e>> = q
    BY <2>1, <2>2, OneMore
  <2>. QED
    BY <2>3 DEF p, q, e
<1>. QED
  BY <1>1, <1>2, <1>3, <1>4, <1>5, <1>6, Zenon

(* A format whose last part gives strings, if anything.                    *)
LEMMA GroupAnswered ==
    ASSUME NEW code, code # "NAMEREPLY",
           NEW fixed \in Seq(ValueTypes), NEW full \in Seq(ValueTypes),
           NEW last,
           Provides(FormatOf(code), fixed, last), Suits(code, full),
           \/ last \in {"end", "."} /\ full = fixed
           \/ last = "v" /\ Last(FormatOf(code)) = "s" /\ full = fixed
           \/ last = ":" /\ full = fixed \o <<"string">>
    PROVE  Answered(code)
<1>1. Serves(code, full)
  BY ServesIs
<1>. QED
  BY <1>1, ServesSuits

(* The modes come last.                                                    *)
LEMMA ModesLast ==
    Last(FormatOf("MODE_CHANNEL")) = "s" /\ Last(FormatOf("MODEREPLY")) = "s"
<1> DEFINE f == <<"I", "I", "r", "v", "s">>
           g == <<"I", "I", "I", "r", "v", "s">>
<1>1. FormatOf("MODE_CHANNEL") = f /\ FormatOf("MODEREPLY") = g
  BY DEF FormatOf, ChannelText, UserText, NotLetIn, WhoisFlags, WhoisNames
<1>2. Len(f) = 5 /\ f[5] = "s" /\ Len(g) = 6 /\ g[6] = "s"
  OBVIOUS
<1> HIDE DEF f, g
<1>. QED
  BY <1>1, <1>2 DEF Last

(* Every code in message_specs.                                            *)
LEMMA EveryCodeAnswered == \A code \in Codes : Answered(code)
<1>1. Answered("LISTEND")
  BY ListendFormat, SuitsNothing, GroupAnswered, FullTypes
<1>2. ASSUME NEW code \in {"QUIT", "WELCOME", "ENDOFWHOIS", "WHOISCHANNELS"}
      PROVE  Answered(code)
  <2>1. code # "NAMEREPLY"
    BY DEF ChannelText, UserText, NotLetIn, WhoisFlags, WhoisNames
  <2>. QED
    BY <2>1, QuitFormat, WelcomeFormat, EndOfWhoisFormat, WhoisChannelsFormat,
       SuitsOneContact, GroupAnswered, FullTypes, FullWith
<1>3. ASSUME NEW code \in NotLetIn \cup {"NAMEREPLY_END"} PROVE Answered(code)
  <2>1. code # "NAMEREPLY"
    BY DEF ChannelText, UserText, NotLetIn, WhoisFlags, WhoisNames
  <2>. QED
    BY <2>1, NotLetInFormat, SuitsOneContact, GroupAnswered,
       FullTypes, FullWith
<1>4. ASSUME NEW code \in {"MODE_CHANNEL", "MODEREPLY"} PROVE Answered(code)
  <2>1. code # "NAMEREPLY"
    BY DEF ChannelText, UserText, NotLetIn, WhoisFlags, WhoisNames
  <2>. QED
    BY <2>1, ModeChannelFormat, ModeReplyFormat, SuitsOneContact,
       GroupAnswered, FullTypes, FullWith, ModesLast
<1>5. ASSUME NEW code \in {"JOIN", "NICK", "PART", "TOPIC", "WHOISIDLE", "LIST"}
      PROVE  Answered(code)
  <2>1. code # "NAMEREPLY"
    BY DEF ChannelText, UserText, NotLetIn, WhoisFlags, WhoisNames
  <2>. QED
    BY <2>1, JoinFormat, NickFormat, PartFormat, WhoisIdleFormat, ListFormat,
       SuitsTwo, GroupAnswered, FullTypes, FullWith
<1>6. ASSUME NEW code \in {"INVITE", "KICK", "TOPIC_STAMP"}
      PROVE  Answered(code)
  <2>1. code # "NAMEREPLY"
    BY DEF ChannelText, UserText, NotLetIn, WhoisFlags, WhoisNames
  <2>. QED
    BY <2>1, InviteFormat, KickFormat, TopicStampFormat, SuitsThree,
       GroupAnswered, FullTypes, FullWith
<1>7. ASSUME NEW code \in {"ERROR", "PING"} PROVE Answered(code)
  <2>1. code # "NAMEREPLY"
    BY DEF ChannelText, UserText, NotLetIn, WhoisFlags, WhoisNames
  <2>. QED
    BY <2>1, ErrorFormat, PingFormat, SuitsString, GroupAnswered,
       FullTypes, FullWith
<1>8. ASSUME NEW code \in {"NOSUCHSERVER", "TRYAGAIN", "UNKNOWNCOMMAND"}
      PROVE  Answered(code)
  <2>1. code # "NAMEREPLY"
    BY DEF ChannelText, UserText, NotLetIn, WhoisFlags, WhoisNames
  <2>. QED
    BY <2>1, NoSuchServerFormat, SuitsStrings, GroupAnswered,
       FullTypes, FullWith
<1>9. ASSUME NEW code \in {"AWAY", "WHOISHOST", "TOPIC_REPLY"} \cup WhoisFlags
      PROVE  Answered(code)
  <2>1. code # "NAMEREPLY"
    BY DEF ChannelText, UserText, NotLetIn, WhoisFlags, WhoisNames
  <2>. QED
    BY <2>1, AwayFormat, TopicReplyFormat, SuitsAndString, GroupAnswered,
       FullTypes, FullWith
<1>10. ASSUME NEW code \in WhoisNames PROVE Answered(code)
  <2>1. code # "NAMEREPLY"
    BY DEF ChannelText, UserText, NotLetIn, WhoisFlags, WhoisNames
  <2>. QED
    BY <2>1, WhoisNamesFormat, SuitsAndStrings, GroupAnswered,
       FullTypes, FullWith
<1>11. ASSUME NEW code \in {"WHOISUSER"} PROVE Answered(code)
  <2>1. code # "NAMEREPLY"
    BY DEF ChannelText, UserText, NotLetIn, WhoisFlags, WhoisNames
  <2>. QED
    BY <2>1, WhoisUserFormat, SuitsUser, GroupAnswered,
       FullTypes, FullWith
<1>12. ASSUME NEW code \in ChannelText \cup UserText PROVE Answered(code)
  <2>1. code # "NAMEREPLY"
    BY DEF ChannelText, UserText, NotLetIn, WhoisFlags, WhoisNames
  <2>. QED
    BY <2>1, ChannelTextFormat, UserTextFormat, SuitsText, GroupAnswered,
       FullTypes, FullWith
<1>. QED
  BY <1>1, <1>2, <1>3, <1>4, <1>5, <1>6, <1>7, <1>8, <1>9, <1>10, <1>11, <1>12,
     NamesAnswered
  DEF Codes, ChannelText, UserText, NotLetIn, WhoisFlags, WhoisNames

(* Whatever line the server sends, a handler that is called for it finds   *)
(* every argument that it takes, of the type it takes it for.              *)
THEOREM ArgumentsCorrect == TransferSpec => []HandlersGetTheirArguments
<1>1. ParserTypes => HandlersGetTheirArguments
  <2>. SUFFICES ASSUME ParserTypes, IsForwarded(format_of, line)
                PROVE  Suits(format_of, Args)
    BY DEF HandlersGetTheirArguments, Suits, Finds
  <2>1. format_of \in Codes /\ message_specs[format_of] = FormatOf(format_of)
    BY DEF ParserTypes, message_specs
  <2>. QED
    BY <2>1, EveryCodeAnswered DEF Answered, IsForwarded, Args, ParserTypes
<1>. QED
  BY <1>1, ParserTypesCorrect, PTL

===============================================================================
