---------------------------- MODULE MCRoomServer ----------------------------
(* Instances of RoomServer for TLC. *)
EXTENDS RoomServerInv, TLC

Symmetric ==
    Permutations(User) \cup Permutations(UserName)
        \cup Permutations(Room) \cup Permutations(RoomName)

(* Bound: once time has passed, one of the connections never comes.        *)
TimePasses == now > 0 => \E c \in User : pc[c] = "absent"

MCSpec == Init /\ [][Next /\ TimePasses']_vars
=============================================================================
