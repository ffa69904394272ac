----------------------------- MODULE RoomServer -----------------------------
(***************************************************************************)
(* The WebSocket server of internal/network: one goroutine per connection  *)
(* (HandleConnection) running commands against the tables of Storage and   *)
(* the shared map sv.Clients, and the teardown it defers.                  *)
(*                                                                         *)
(* A connection is named by the UUID it is given, so User also names the   *)
(* goroutines.  A step is what a goroutine does between two points where   *)
(* another can intervene: a call on the repository, or a section under     *)
(* sv.mu together with the local assignments next to it.  Writes on the    *)
(* sockets change nothing here.  A refused command leaves everything as it *)
(* was, and is a stuttering step.                                          *)
(***************************************************************************)
EXTENDS Storage

CONSTANT NoName     \* the user name before it is read

VARIABLES
    pc,     \* where each goroutine stands
    user,   \* its variable `user`: Username, CurrentRoomUUID, IsOwner
    sess,   \* sv.Clients: UUID |-> Username and Room of the session
    job     \* locals of the running command: a room, another user, and
            \* whether the goroutine is on its way out

vars == <<dbVars, pc, user, sess, job>>

Idle == {"absent", "loop", "closed"}
Working == {"enlist", "created", "joined", "succession", "promote", "leave",
            "left", "teardown", "purge"}
Local == [name : UserName \cup {NoName}, room : Room \cup {NoRoom}, owner : BOOLEAN]
Session == [name : UserName \cup {NoName}, room : Room \cup {NoRoom}]
Job == [room : Room \cup {NoRoom}, peer : User \cup {NoUser}, exit : BOOLEAN]

NoJob == [room |-> NoRoom, peer |-> NoUser, exit |-> FALSE]

Init ==
    /\ StorageInit
    /\ pc = [c \in User |-> "absent"]
    /\ user = [c \in User |-> [name |-> NoName, room |-> NoRoom, owner |-> FALSE]]
    /\ sess = << >>
    /\ job = [c \in User |-> NoJob]

Goto(c, from, to) == pc[c] = from /\ pc' = [pc EXCEPT ![c] = to]
Take(c, r, v, exit) == job' = [job EXCEPT ![c] = [room |-> r, peer |-> v, exit |-> exit]]

----------------------------------------------------------------------------
(* Connecting.                                                             *)

Accept(c) ==
    /\ Goto(c, "absent", "register")
    /\ UNCHANGED <<dbVars, user, sess, job>>

(* The client goes away before it has sent its credentials.                *)
GiveUp(c) ==
    /\ Goto(c, "register", "teardown")
    /\ UNCHANGED <<dbVars, user, sess, job>>

Register(c, n) ==
    /\ user' = [user EXCEPT ![c].name = n]
    /\ \/ CreateUser(c, n) /\ Goto(c, "register", "enlist")
       \/ ~NameFree(n) /\ Goto(c, "register", "teardown") /\ UNCHANGED dbVars
       \/ WriteFails /\ Goto(c, "register", "teardown")
    /\ UNCHANGED <<sess, job>>

OpenSession(c) ==
    /\ Goto(c, "enlist", "loop")
    /\ sess' = Put(sess, c, [name |-> user[c].name, room |-> NoRoom])
    /\ UNCHANGED <<dbVars, user, job>>

----------------------------------------------------------------------------
(* Commands.                                                               *)

SetRoomForgotten(c, r) == sess
SetRoomToUser(c, r) ==
    IF c \in DOMAIN sess THEN [sess EXCEPT ![c].room = c] ELSE sess
SetRoom(c, r) ==
    IF c \in DOMAIN sess THEN [sess EXCEPT ![c].room = r] ELSE sess

Create(c, r, n, p) ==
    /\ Goto(c, "loop", "created")
    /\ CreateAndJoinRoom(c, r, n, p)
    /\ Take(c, r, NoUser, FALSE)
    /\ UNCHANGED <<user, sess>>

CreateMem(c) ==
    /\ Goto(c, "created", "loop")
    /\ user' = [user EXCEPT ![c].room = job[c].room, ![c].owner = TRUE]
    /\ sess' = SetRoom(c, job[c].room)
    /\ Take(c, NoRoom, NoUser, FALSE)
    /\ UNCHANGED dbVars

Join(c, n, p, r, h) ==
    /\ Goto(c, "loop", "joined")
    /\ JoinRoom(c, n, p, r, h)
    /\ Take(c, r, h, FALSE)
    /\ UNCHANGED <<user, sess>>

(* handleJoinCommand keeps IsOwner as it was, and installs a new session.  *)
JoinMem(c) ==
    /\ Goto(c, "joined", "loop")
    /\ user' = [user EXCEPT ![c].room = job[c].room]
    /\ sess' = Put(sess, c, [name |-> user[c].name, room |-> job[c].room])
    /\ Take(c, NoRoom, NoUser, FALSE)
    /\ UNCHANGED dbVars

(* /leave-room: the host, as far as this goroutine knows, names its heir.  *)
Heir(c) == IF user[c].owner THEN "succession" ELSE "leave"

Leave(c) ==
    /\ user[c].room # NoRoom
    /\ Goto(c, "loop", Heir(c))
    /\ Take(c, user[c].room, NoUser, FALSE)
    /\ UNCHANGED <<dbVars, user, sess>>

----------------------------------------------------------------------------
(* Leaving a room, shared by /leave-room and by the teardown.              *)

(* PromoteNextHost looks for the next in line.                             *)
Select(c) ==
    \/ \E v \in NextInLine(job[c].room, c) :
          /\ Goto(c, "succession", "promote")
          /\ Take(c, job[c].room, v, job[c].exit)
          /\ UNCHANGED <<dbVars, user, sess>>
    \/ /\ NextInLine(job[c].room, c) = {}
       /\ Goto(c, "succession", "leave")
       /\ UNCHANGED <<dbVars, user, sess, job>>
    \/ /\ StatementFails
       /\ Goto(c, "succession", "leave")
       /\ UNCHANGED <<user, sess, job>>

HandOver(c) ==
    /\ Goto(c, "promote", "leave")
    /\ Promote(c, job[c].peer) \/ WriteFails \/ PromoteLeaks
    /\ UNCHANGED <<user, sess, job>>

AfterLeaveUnpurged(c) == IF job[c].exit THEN "closed" ELSE "left"
AfterLeave(c) == IF job[c].exit THEN "purge" ELSE "left"

(* The error of LeaveRoomAndDeleteRoomIfEmpty is ignored.                  *)
LeaveTx(c) ==
    /\ Goto(c, "leave", AfterLeave(c))
    /\ LeaveRoomAndDeleteRoomIfEmpty(c, job[c].room) \/ WriteFails
    /\ UNCHANGED <<user, sess, job>>

LeaveMem(c) ==
    /\ Goto(c, "left", "loop")
    /\ user' = [user EXCEPT ![c].room = NoRoom, ![c].owner = FALSE]
    /\ sess' = SetRoom(c, NoRoom)
    /\ Take(c, NoRoom, NoUser, FALSE)
    /\ UNCHANGED dbVars

----------------------------------------------------------------------------
(* The end of a connection.                                                *)

(* The read fails: the peer hung up, sent /quit, or vanished.              *)
HangUp(c) ==
    /\ Goto(c, "loop", "teardown")
    /\ UNCHANGED <<dbVars, user, sess, job>>

(* The deferred function takes the session, if any, out of the map;        *)
(* whoever was in a room names an heir, host or not.                       *)
RoomOf(c) == IF c \in DOMAIN sess THEN sess[c].room ELSE NoRoom

Teardown(c) ==
    LET r == RoomOf(c)
    IN  /\ Goto(c, "teardown", IF r = NoRoom THEN "purge" ELSE "succession")
        /\ sess' = Delete(sess, c)
        /\ Take(c, r, NoUser, TRUE)
        /\ UNCHANGED <<dbVars, user>>

(* The error of DeleteUser is ignored.                                     *)
Purge(c) ==
    /\ Goto(c, "purge", "closed")
    /\ DeleteUser(c) \/ WriteFails
    /\ Take(c, NoRoom, NoUser, FALSE)
    /\ UNCHANGED <<user, sess>>

----------------------------------------------------------------------------
(* What the peer decides, and what the goroutine then does by itself.      *)
Request(c) ==
    \/ Accept(c) \/ GiveUp(c) \/ HangUp(c) \/ Leave(c)
    \/ \E n \in UserName : Register(c, n)
    \/ \E r \in Room, n \in RoomName, p \in Password \cup {NoPass} :
          \/ Create(c, r, n, p)
          \/ \E h \in User \cup {NoUser} : Join(c, n, p, r, h)

Work(c) ==
    \/ OpenSession(c) \/ CreateMem(c) \/ JoinMem(c)
    \/ Select(c) \/ HandOver(c) \/ LeaveTx(c) \/ LeaveMem(c)
    \/ Teardown(c) \/ Purge(c)

Clock == Tick /\ UNCHANGED <<pc, user, sess, job>>

Next == Clock \/ \E c \in User : Request(c) \/ Work(c)

Spec == Init /\ [][Next]_vars
----------------------------------------------------------------------------
(* Properties.                                                             *)

(* Every variable keeps its shape.                                         *)
TypeOK ==
    /\ StorageTypeOK
    /\ pc \in [User -> Idle \cup Working \cup {"register"}]
    /\ user \in [User -> Local]
    /\ DOMAIN sess \subseteq User /\ sess \in [DOMAIN sess -> Session]
    /\ job \in [User -> Job]

(* No two sessions carry the same name, whatever names return after a      *)
(* disconnection and whatever statements fail: /sendKey finds the session  *)
(* of its target by name alone (commands.go:249).                          *)
UniqueSessionNames ==
    \A c, d \in DOMAIN sess : sess[c].name = sess[d].name => c = d

(* Broadcast picks its receivers by session.Room alone (broadcast.go:22):  *)
(* a session names a room only while its user is among the participants,   *)
(* except in the window handleLeaveRoomCommand leaves between its          *)
(* transaction and its section under sv.mu.                                *)
RoutedOnlyToMembers ==
    \A c \in DOMAIN sess :
        sess[c].room # NoRoom => c \in Occupants(sess[c].room) \/ pc[c] = "left"

(* No interleaving of joins overfills a room (repository_rooms.go:69).     *)
CapacityRespected == \A r \in Room : Cardinality(Occupants(r)) <= MaxUsers

(* Without failures, a room exists exactly while somebody is in it, however*)
(* joins, departures and teardowns interleave (README: Self-Destructing    *)
(* Rooms).                                                                 *)
RoomsSelfDestruct ==
    faults = 0 => DOMAIN rooms = {participants[u] : u \in DOMAIN participants}

(* Without failures, a closed connection leaves no row behind, whichever   *)
(* pooled connection runs the last DELETE (README: Instant Purge).         *)
ClosedLeavesNoTrace ==
    faults = 0 => \A c \in User : pc[c] = "closed" =>
                     c \notin DOMAIN users \cup DOMAIN participants \cup DOMAIN sess

(* Without failures, the three places that say in which room a user is     *)
(* agree whenever the goroutine waits for a command.                       *)
AtRestTablesMatchMemory ==
    faults = 0 => \A c \in User : pc[c] = "loop" =>
        /\ c \in DOMAIN users /\ c \in DOMAIN sess
        /\ sess[c].room = user[c].room
        /\ IF c \in DOMAIN participants THEN user[c].room = participants[c]
                                        ELSE user[c].room = NoRoom

(* The local IsOwner is never true of a user whom the table does not call  *)
(* owner: nobody's promotion takes the room from a creator who is in it.   *)
CreatorKeepsOwnership ==
    \A c \in User : pc[c] = "loop" /\ user[c].owner =>
        /\ c \in DOMAIN users /\ users[c].owner
        /\ users[c].room = user[c].room

(* A step that clears is_owner of a user is a step of that user's own      *)
(* goroutine: a departure only ever demotes whoever departs.               *)
OwnerClearedOnlyBySelf ==
    [][\A u \in DOMAIN users : users[u].owner =>
          \/ u \in DOMAIN users' /\ users'[u].owner
          \/ pc'[u] # pc[u]]_vars

(* A room row disappears only when its last participant leaves by the same *)
(* step, failures or not: the COUNT and the DELETE cannot be overtaken by  *)
(* a join (repository_rooms.go:119-131).                                   *)
NoRoomDeletedUnderMembers ==
    [][\A r \in DOMAIN rooms \ DOMAIN rooms' :
          Cardinality(Occupants(r)) <= 1 /\ Occupants(r)' = {}]_vars

(* Until the first failure the server implements the abstract rooms: they  *)
(* start empty, and every step is one of theirs or leaves them alone.      *)
Abstract == INSTANCE Membership WITH
    Person <- User, Place <- Room, Nowhere <- NoRoom, Capacity <- MaxUsers,
    where <- [u \in User |-> IF u \in DOMAIN participants THEN participants[u]
                                                          ELSE NoRoom],
    open <- DOMAIN rooms,
    used <- issued

MembershipUntilFailure ==
    /\ Abstract!MInit
    /\ [][faults' = 0 => [Abstract!MNext]_(Abstract!mVars)]_vars

(* A room in which nothing is going on has a host among its participants   *)
(* (README: the role is "automatically reassigned").                       *)
HostedAtRest ==
    faults = 0 /\ (\A c \in User : pc[c] \in Idle) =>
        \A r \in DOMAIN rooms : Occupants(r) \cap Hosts(r) # {}

(* Once every connection is closing, or was never opened, the server ends  *)
(* up with nothing in its tables and its map (README: Vanished).           *)
Leaving == {"absent", "succession", "promote", "leave", "teardown", "purge", "closed"}
EveryoneLeaves == \A c \in User : pc[c] \in Leaving
Empty == users = << >> /\ rooms = << >> /\ participants = << >> /\ sess = << >>
Vanish == <>[]EveryoneLeaves => <>[]Empty
=============================================================================
