-------------------------------- MODULE MucRoom --------------------------------
(***************************************************************************)
(* A room as IdleMUCChannel shows it to clients: its modes with what they  *)
(* allow, the people in it, and its topic.                                 *)
(*                                                                         *)
(* Each has messages of its own, but for the JOIN and the name list, which *)
(* tell the members nothing of the modes and the modes nothing of the      *)
(* others.  The three share no state, so a behaviour is about one of them, *)
(* or, of the modes, about those of one group: the others stay as unset.   *)
(***************************************************************************)
EXTENDS MucModes, MucMembers, MucSubject

CONSTANT Groups     \* groups of modes that are changed in one behaviour

ASSUME MucRoomAssumption == Groups \subseteq SUBSET Modes

VARIABLE about      \* what this behaviour is about

roomVars == <<vars, membersVars, subjectVars, about>>

Focus(what, modes) == [what |-> what, modes |-> modes]

RoomInit ==
    /\ about \in {Focus("modes", those) : those \in Groups}
                 \cup {Focus("members", {}), Focus("subject", {})}
    /\ Init /\ MembersInit /\ SubjectInit
    \* what a behaviour is not about begins in one way only
    /\ room.modes \subseteq about.modes
    /\ about.what # "members" => present = {}
    /\ about.what # "subject" => topic = NoTopic

RoomNext ==
    /\ UNCHANGED about
    /\ \/ /\ \E those \in Groups :
                about = Focus("modes", those) /\ Changing(those)
          /\ UNCHANGED <<membersVars, subjectVars>>
       \/ /\ about.what = "members" /\ MembersNext
          /\ UNCHANGED <<vars, subjectVars>>
       \/ /\ about.what = "subject" /\ SubjectNext
          /\ UNCHANGED <<vars, membersVars>>

RoomSpec == RoomInit /\ [][RoomNext]_roomVars
===============================================================================
