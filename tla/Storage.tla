------------------------------ MODULE Storage ------------------------------
(***************************************************************************)
(* The SQLite repository of internal/storage: three tables and the calls   *)
(* the server makes on them.                                               *)
(*                                                                         *)
(* A table is a function from its key to its row.  `participants` is keyed *)
(* by uuid_user, which the schema declares UNIQUE.  A call is one action:  *)
(* it is a single statement or a transaction, which takes effect when it   *)
(* commits or not at all (WriteFails).  Transactions.tla takes the calls   *)
(* apart into their statements and shows that they are one step.           *)
(* PromoteNextHost alone reads outside its transaction; it is two actions. *)
(***************************************************************************)
EXTENDS Naturals, FiniteSets

CONSTANTS
    User,       \* the UUIDs of users: one per connection, never reused
    UserName,
    Room,       \* the UUIDs of rooms, never reused
    RoomName,
    Password,   \* passwords of private rooms
    NoUser, NoRoom, NoPass,    \* the empty string, NULL
    MaxUsers,   \* rooms.max_users, 6 by default
    MaxTime,    \* bound: ticks of the clock of joined_at
    MaxFaults   \* bound: statements that fail (SQLITE_BUSY, I/O)

ASSUME SentinelAssumption ==
    NoUser \notin User /\ NoRoom \notin Room /\ NoPass \notin Password
ASSUME UserAssumption == IsFiniteSet(User)
ASSUME BoundAssumption ==
    MaxUsers \in Nat \ {0} /\ MaxTime \in Nat /\ MaxFaults \in Nat

VARIABLES
    users,          \* users: name, is_owner, uuid_current_room, joined_at
    rooms,          \* rooms: name, and the password of a private room
    participants,   \* participants: uuid_user |-> uuid_room
    issued,         \* the room UUIDs generated so far
    now,            \* CURRENT_TIMESTAMP, in seconds
    faults,         \* statements that have failed
    locked          \* a transaction was left open and holds the write lock

tables == <<users, rooms, participants>>
dbVars == <<users, rooms, participants, issued, now, faults, locked>>

UserRow == [name : UserName, owner : BOOLEAN,
            room : Room \cup {NoRoom}, joined : Nat]
RoomRow == [name : RoomName, pass : Password \cup {NoPass}]

StorageTypeOK ==
    /\ DOMAIN users \subseteq User /\ users \in [DOMAIN users -> UserRow]
    /\ DOMAIN rooms \subseteq Room /\ rooms \in [DOMAIN rooms -> RoomRow]
    /\ DOMAIN participants \subseteq User
    /\ participants \in [DOMAIN participants -> Room]
    /\ issued \subseteq Room
    /\ now \in Nat /\ faults \in Nat /\ locked \in BOOLEAN

StorageInit ==
    /\ users = << >> /\ rooms = << >> /\ participants = << >>
    /\ issued = {} /\ now = 0 /\ faults = 0 /\ locked = FALSE

----------------------------------------------------------------------------
(* Rows.                                                                   *)

Put(table, key, row) ==
    [k \in DOMAIN table \cup {key} |-> IF k = key THEN row ELSE table[k]]
Delete(table, key) == [k \in DOMAIN table \ {key} |-> table[k]]

(* SELECT ... FROM participants WHERE uuid_room = r                        *)
Occupants(r) == {u \in DOMAIN participants : participants[u] = r}

(* What uuid_current_room says, which a departure does not reset.          *)
Attached(r) == {u \in DOMAIN users : users[u].room = r}
Hosts(r) == {u \in Attached(r) : users[u].owner}

----------------------------------------------------------------------------
(* Failures.  A write fails when SQLite returns an error, or for as long   *)
(* as a transaction left open holds the write lock.                        *)

StatementFails ==
    /\ faults < MaxFaults
    /\ faults' = faults + 1
    /\ UNCHANGED <<users, rooms, participants, issued, now, locked>>

WriteFails == StatementFails \/ (locked /\ UNCHANGED dbVars)

----------------------------------------------------------------------------
(* Calls on users.                                                         *)

NameFreeUnchecked(n) == TRUE
NameFree(n) == \A v \in DOMAIN users : users[v].name # n

CreateUser(u, n) ==
    /\ ~locked
    /\ u \notin DOMAIN users
    /\ NameFree(n)
    /\ users' = Put(users, u,
                    [name |-> n, owner |-> FALSE, room |-> NoRoom, joined |-> now])
    /\ UNCHANGED <<rooms, participants, issued, now, faults, locked>>

(* ON DELETE CASCADE acts only on the pooled connection that ran PRAGMA    *)
(* foreign_keys=ON; any connection of the pool may serve the call.         *)
DeleteUser(u) ==
    /\ ~locked
    /\ users' = Delete(users, u)
    /\ participants' \in {participants, Delete(participants, u)}
    /\ UNCHANGED <<rooms, issued, now, faults, locked>>

(* PromoteNextHost, its query: the earliest joined_at among the users      *)
(* other than u whose current room is r; ties in an arbitrary order.       *)
NextInLine(r, u) ==
    LET line == Attached(r) \ {u}
    IN  {v \in line : \A w \in line : users[v].joined <= users[w].joined}

(* PromoteNextHost, its transaction: is_owner of w once v is put in place  *)
(* of u.                                                                   *)
OwnerAfterNoWhere(w, u, v) == w = v
OwnerAfter(w, u, v) == w = v \/ (w # u /\ users[w].owner)

Promote(u, v) ==
    /\ ~locked
    /\ users' = [w \in DOMAIN users |->
                    [users[w] EXCEPT !.owner = OwnerAfter(w, u, v)]]
    /\ UNCHANGED <<rooms, participants, issued, now, faults, locked>>

(* Its second UPDATE fails: the function returns without Rollback, and the *)
(* open transaction keeps the write lock.                                  *)
PromoteLeaks ==
    /\ ~locked
    /\ faults < MaxFaults
    /\ faults' = faults + 1
    /\ locked' = TRUE
    /\ UNCHANGED <<users, rooms, participants, issued, now>>

----------------------------------------------------------------------------
(* Calls on rooms.                                                         *)

(* UPDATE users SET is_owner, uuid_current_room, joined_at WHERE uuid = u  *)
MoveUser(u, r, isOwner) ==
    [w \in DOMAIN users |->
        IF w = u THEN [users[w] EXCEPT !.room = r, !.owner = isOwner, !.joined = now]
                 ELSE users[w]]

CreateAndJoinRoom(u, r, n, p) ==
    /\ ~locked
    /\ r \in Room \ issued
    /\ \A q \in DOMAIN rooms : rooms[q].name # n
    /\ u \notin DOMAIN participants
    /\ rooms' = Put(rooms, r, [name |-> n, pass |-> p])
    /\ participants' = Put(participants, u, r)
    /\ users' = MoveUser(u, r, TRUE)
    /\ issued' = issued \cup {r}
    /\ UNCHANGED <<now, faults, locked>>

HasSpaceOffByOne(r) == Cardinality(Occupants(r)) <= MaxUsers
HasSpace(r) == Cardinality(Occupants(r)) < MaxUsers

(* The host JoinRoom reports: some owner attached to the room, or none; a  *)
(* failed query counts as none.                                            *)
LookUpHost(r, h) ==
    \/ h \in Hosts(r) /\ UNCHANGED faults
    \/ Hosts(r) = {} /\ h = NoUser /\ UNCHANGED faults
    \/ faults < MaxFaults /\ h = NoUser /\ faults' = faults + 1

(* JoinRoom(u, name, password) returns (r, h).                             *)
JoinRoom(u, n, p, r, h) ==
    /\ ~locked
    /\ r \in DOMAIN rooms /\ rooms[r].name = n
    /\ HasSpace(r)
    /\ rooms[r].pass \in {NoPass, p}
    /\ LookUpHost(r, h)
    /\ u \notin DOMAIN participants
    /\ participants' = Put(participants, u, r)
    /\ users' = MoveUser(u, r, FALSE)
    /\ UNCHANGED <<rooms, issued, now, locked>>

(* The room outlives a departure exactly when somebody else is in it.      *)
RoomsKept(u, r) == rooms
RoomsCountedBefore(u, r) ==
    IF Cardinality(Occupants(r) \ {u}) <= 1 THEN Delete(rooms, r) ELSE rooms
RoomsAfterLeave(u, r) ==
    IF Occupants(r) \ {u} = {} THEN Delete(rooms, r) ELSE rooms

LeaveRoomAndDeleteRoomIfEmpty(u, r) ==
    /\ ~locked
    /\ participants' = IF u \in Occupants(r) THEN Delete(participants, u)
                                             ELSE participants
    /\ rooms' = RoomsAfterLeave(u, r)
    /\ UNCHANGED <<users, issued, now, faults, locked>>

(* The clock of CURRENT_TIMESTAMP has a resolution of one second.          *)
Tick ==
    /\ now < MaxTime
    /\ now' = now + 1
    /\ UNCHANGED <<users, rooms, participants, issued, faults, locked>>
============================================================================
