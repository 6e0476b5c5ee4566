---------------------------- MODULE RollCallStore ----------------------------
(***************************************************************************)
(* What a reader of core.roll_call and fact.member_vote may rely on,       *)
(* whoever fills them: of each roll call the tables show nothing, or one   *)
(* version of its file and the members who voted.  The roll call is        *)
(* replaced in one step, never by an older version, and a version shown    *)
(* again shows at least the members it had.                                *)
(***************************************************************************)
EXTENDS Naturals

CONSTANTS Rolls, Members

VARIABLE shown    \* of each roll call: [version, voters]; version 0: nothing

File == [version : Nat, voters : SUBSET Members]

Init == shown = [r \in Rolls |-> [version |-> 0, voters |-> {}]]

Replaced(old, new) ==
    /\ new.version # 0 /\ new.version >= old.version
    /\ new.version = old.version => old.voters \subseteq new.voters

Next ==
    /\ shown' \in [Rolls -> File]
    /\ \A r \in Rolls : shown'[r] = shown[r] \/ Replaced(shown[r], shown'[r])

Spec == Init /\ [][Next]_shown
=============================================================================
