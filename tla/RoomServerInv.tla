--------------------------- MODULE RoomServerInv ---------------------------
(***************************************************************************)
(* The inductive invariant behind the safety properties of RoomServer: at  *)
(* which point of a goroutine the tables, sv.Clients and its locals agree, *)
(* and on what.  The parts build on one another in this order.             *)
(***************************************************************************)
EXTENDS RoomServer

Departing(c) == pc[c] \in {"succession", "promote", "leave"}

(* A session lives from OpenSession to Teardown.                           *)
HasSession(c) ==
    \/ pc[c] \in {"loop", "created", "joined", "left"}
    \/ Departing(c) /\ ~job[c].exit
SessionsInv ==
    /\ \A c \in User : HasSession(c) => c \in DOMAIN sess
    /\ \A c \in DOMAIN sess : HasSession(c) \/ pc[c] = "teardown"

(* A user row outlives the session of its user, and keeps its name.        *)
Registered(c) == pc[c] \in {"enlist"} \/ HasSession(c) \/ c \in DOMAIN sess
NamesInv ==
    /\ \A u, v \in DOMAIN users : users[u].name = users[v].name => u = v
    /\ \A c \in User : Registered(c) =>
          c \in DOMAIN users /\ users[c].name = user[c].name
    /\ \A c \in DOMAIN sess : sess[c].name = user[c].name

(* The map follows the table into a room, and precedes it out.             *)
RoutingInv ==
    /\ \A c \in User : pc[c] \in {"created", "joined"} =>
          c \in DOMAIN participants /\ participants[c] = job[c].room
    /\ \A c \in DOMAIN sess : sess[c].room # NoRoom /\ pc[c] # "left" =>
          c \in DOMAIN participants /\ participants[c] = sess[c].room

(* A room whose UUID has not been drawn is empty.                          *)
CapacityInv ==
    /\ CapacityRespected
    /\ DOMAIN rooms \subseteq issued
    /\ \A u \in DOMAIN participants : participants[u] \in issued

(* IsOwner is set behind the table and dropped before it can change.       *)
OwnerInv ==
    /\ \A c \in User : pc[c] \in {"absent", "register", "enlist", "joined"}
          => ~user[c].owner
    /\ \A c \in User : pc[c] = "created" =>
          /\ c \in DOMAIN participants
          /\ users[c].owner /\ users[c].room = job[c].room
    /\ \A c \in User : pc[c] = "loop" /\ user[c].owner =>
          /\ c \in DOMAIN participants
          /\ users[c].owner /\ users[c].room = user[c].room

(* As long as nothing has failed, every goroutine knows its place.         *)
PlaceInv(c) ==
    /\ pc[c] \in {"absent", "register", "enlist", "left", "purge", "closed"}
          => c \notin DOMAIN participants
    /\ pc[c] \in {"created", "joined", "succession", "promote", "leave"} =>
          c \in DOMAIN participants /\ participants[c] = job[c].room
    /\ pc[c] \in {"loop", "teardown"} /\ c \in DOMAIN participants =>
          c \in DOMAIN sess /\ participants[c] = sess[c].room
    /\ pc[c] = "loop" => sess[c].room = user[c].room
    /\ pc[c] \in {"absent", "register", "enlist"} => user[c].room = NoRoom
    /\ pc[c] \in {"absent", "register", "closed"} => c \notin DOMAIN users
NoFailureInv ==
    /\ locked => faults # 0
    /\ faults = 0 => RoomsSelfDestruct /\ \A c \in User : PlaceInv(c)

IInv ==
    /\ TypeOK /\ SessionsInv /\ NamesInv /\ RoutingInv
    /\ CapacityInv /\ OwnerInv /\ NoFailureInv
=============================================================================
