--------------------------- MODULE MCKeyExchange ---------------------------
(* Instances of KeyExchange for TLC. *)
EXTENDS KeyExchange, TLC

Symmetric ==
    Permutations(User) \cup Permutations(UserName \ Telltale)
        \cup Permutations(Room) \cup Permutations(RoomName \ Telltale)

----------------------------------------------------------------------------
(* The middle of a conversation, one of the states that KeyExchange        *)
(* reaches: the members of a room hold its key, and no line is on its way. *)
(* Given are the connected users and their names, the room its host        *)
(* created, the others in it, the users that have gone; joinsLeft,         *)
(* roomsLeft and listingsLeft bound what is still to come.                 *)
Conversation(name, host, room, roomName, others, gone, joinsLeft, roomsLeft, listingsLeft) ==
    LET members == {host} \cup others
        In(u) == IF u \in members THEN room ELSE NoRoom
        present == DOMAIN name
    IN  /\ users = [u \in present |-> [name |-> name[u], owner |-> u = host,
                                       room |-> In(u), joined |-> 0]]
        /\ rooms = room :> [name |-> roomName, pass |-> NoPass]
        /\ participants = [u \in members |-> room]
        /\ issued = IF roomsLeft THEN {room} ELSE Room
        /\ now = 0 /\ faults = 0 /\ locked = FALSE
        /\ pc = [u \in User |-> IF u \in present THEN "loop"
                                ELSE IF u \in gone THEN "closed" ELSE "absent"]
        /\ user = [u \in User |-> [name |-> IF u \in present THEN name[u] ELSE NoName,
                                   room |-> In(u), owner |-> u = host]]
        /\ sess = [u \in present |-> [name |-> name[u], room |-> In(u)]]
        /\ job = [u \in User |-> NoJob]
        /\ key = [u \in User |-> In(u)]
        /\ inbox = [u \in User |-> << >>] /\ outbox = [u \in User |-> << >>]
        /\ pending = [u \in User |-> << >>]
        /\ admitted = members \X {room}
        /\ joins = MaxJoins - joinsLeft
        /\ listings = MaxListings - listingsLeft

(* The beginning, for some of the users; the others never come.            *)
Nobody(who) ==
    /\ StorageInit
    /\ pc = [u \in User |-> IF u \in who THEN "absent" ELSE "closed"]
    /\ user = [u \in User |-> [name |-> NoName, room |-> NoRoom, owner |-> FALSE]]
    /\ sess = << >> /\ job = [u \in User |-> NoJob]
    /\ key = [u \in User |-> NoRoom]
    /\ inbox = [u \in User |-> << >>] /\ outbox = [u \in User |-> << >>]
    /\ pending = [u \in User |-> << >>]
    /\ admitted = {} /\ joins = 0 /\ listings = 0

----------------------------------------------------------------------------
(* Starts without symmetry.  Which user, name or room is which makes no    *)
(* difference there: let them be in this order.                            *)
Seat == CHOOSE s \in SetToSeqs(User) : TRUE
TheRoom == CHOOSE r \in Room : TRUE
TheName == CHOOSE r \in RoomName : TRUE

(* The first users, called by names.                                       *)
Called(names) ==
    [v \in {Seat[i] : i \in DOMAIN names} |-> names[CHOOSE i \in DOMAIN names : Seat[i] = v]]

(* For liveness: two connections from the beginning; or three in the       *)
(* middle: all in a room, or one still to come, to one of the two names in *)
(* use or to another.                                                      *)
LiveInit ==
    LET n == CHOOSE s \in SetToSeqs(UserName) : TRUE
        Three(names, others) ==
            Conversation(Called(names), Seat[1], TheRoom, TheName, others, {}, 0, FALSE, 0)
    IN  \/ Nobody({Seat[1], Seat[2]})
        \/ Three(<<n[1], n[2], n[3]>>, {Seat[2], Seat[3]})
        \/ Three(<<n[1], n[2]>>, {Seat[2]})

LiveSpec == LiveInit /\ [][KNext]_kVars /\ KFairness
=============================================================================
