---------------------------- MODULE MCLifecycle ----------------------------
(***************************************************************************)
(* Instances of Lifecycle for TLC.  MCSpec starts at the beginning, or     *)
(* between two lives, on the tables that the first one left: enough        *)
(* connections are still to come that they can compete for names and       *)
(* places among its rows.                                                  *)
(***************************************************************************)
EXTENDS Lifecycle, TLC

Symmetric ==
    Permutations(User) \cup Permutations(UserName)
        \cup Permutations(Room) \cup Permutations(RoomName)

(* A crash left a room with people in it, any of them hosts.               *)
Ghosts(name, hosts, inside, room, roomName) ==
    /\ users = [u \in DOMAIN name |->
                   [name |-> name[u], owner |-> u \in hosts, joined |-> 0,
                    room |-> IF u \in inside THEN room ELSE NoRoom]]
    /\ rooms = room :> [name |-> roomName, pass |-> NoPass]
    /\ participants = [u \in inside |-> room]
    /\ faults = 0

Names(who) == {f \in [who -> UserName] : \A u, v \in who : f[u] = f[v] => u = v}

GhostInit ==
    \E past \in (SUBSET User) \ {{}}, room \in Room, roomName \in RoomName :
        /\ \E name \in Names(past), inside \in (SUBSET past) \ {{}} :
              /\ Cardinality(inside) <= MaxUsers
              /\ \E hosts \in SUBSET inside : Ghosts(name, hosts, inside, room, roomName)
        /\ issued = {room} /\ now = 0 /\ locked = FALSE
        /\ pc = [u \in User |-> IF u \in past THEN "closed" ELSE "absent"]
        /\ user = [u \in User |-> [name |-> NoName, room |-> NoRoom, owner |-> FALSE]]
        /\ sess = << >> /\ job = [u \in User |-> NoJob]
        /\ phase = "off" /\ todo = << >> /\ purge = "none" /\ lives = MaxLives - 1
        /\ pastUsers = past /\ pastRooms = {room} /\ stale = Nothing

(* From the beginning there are two connections and one room to create:    *)
(* the other UUIDs are never drawn.                                        *)
TwoInit ==
    /\ \E u \in User : pc = [c \in User |-> IF c = u THEN "closed" ELSE "absent"]
    /\ users = << >> /\ rooms = << >> /\ participants = << >>
    /\ \E room \in Room : issued = Room \ {room}
    /\ now = 0 /\ faults = 0 /\ locked = FALSE
    /\ user = [u \in User |-> [name |-> NoName, room |-> NoRoom, owner |-> FALSE]]
    /\ sess = << >> /\ job = [u \in User |-> NoJob]
    /\ phase = "off" /\ todo = << >> /\ purge = "none" /\ lives = 0
    /\ pastUsers = {} /\ pastRooms = {} /\ stale = Nothing

MCSpec == (TwoInit \/ GhostInit) /\ [][LNext]_lVars
=============================================================================
