---------------------------- MODULE Transactions ----------------------------
(***************************************************************************)
(* The calls of Storage statement by statement, on SQLite in WAL mode      *)
(* (cmd/server.go:29), to show what Storage and every module on top of it  *)
(* take for granted: that a call has its effect in one step, its commit.   *)
(*                                                                         *)
(* db.Begin opens a deferred transaction, which has no part in anything    *)
(* before its first statement; that is where a call starts here.  The      *)
(* first statement takes a snapshot of the tables, and later ones read     *)
(* that and what the transaction has written.  Its first write takes the   *)
(* one write lock; it is refused while another transaction holds the lock, *)
(* and also if another has committed since the snapshot.  A statement on   *)
(* its own is a transaction of one.                                        *)
(*                                                                         *)
(* The clock stands still: every row is stamped with the same second.  The *)
(* users are registered already.                                           *)
(***************************************************************************)
EXTENDS Storage

CONSTANT NoName     \* the room name of a call that has none

VARIABLES
    call,       \* the running call of each goroutine: its next statement, and its locals
    view,       \* the tables as its transaction sees them, once it has read
    behind,     \* whose snapshot others have committed over since
    writer      \* who holds the write lock, if anybody

txVars == <<call, view, behind, writer>>
tVars == <<dbVars, txVars>>

Statement == {"count", "host", "insert", "move", "recount", "drop", "appoint", "commit"}
Call == [op : {"none", "join", "create", "leave", "promote"},
         at : Statement \cup {"idle"},
         name : RoomName \cup {NoName}, pass : Password \cup {NoPass},
         room : Room \cup {NoRoom}, peer : User \cup {NoUser}]
NoCall == [op |-> "none", at |-> "idle", name |-> NoName, pass |-> NoPass,
           room |-> NoRoom, peer |-> NoUser]

Named == {f \in [User -> UserName] : \A u, v \in User : f[u] = f[v] => u = v}
TInit ==
    /\ \E name \in Named :
          users = [u \in User |-> [name |-> name[u], owner |-> FALSE,
                                   room |-> NoRoom, joined |-> 0]]
    /\ rooms = << >> /\ participants = << >>
    /\ issued = {} /\ now = 0 /\ faults = 0 /\ locked = FALSE
    /\ call = [c \in User |-> NoCall]
    /\ view = [c \in User |-> << >>]
    /\ behind = {} /\ writer = NoUser

----------------------------------------------------------------------------
(* SQLite.                                                                 *)

Db == [users |-> users, rooms |-> rooms, participants |-> participants]
Sees(c) == IF view[c] = << >> THEN Db ELSE view[c][1]
Open == {c \in User : view[c] # << >>}

Fresh(c) == c \notin behind
MayWrite(c) == ~locked /\ (writer = c \/ (writer = NoUser /\ Fresh(c)))

(* A statement that reads, and one that makes the tables d.                *)
QueryOutside(c) == UNCHANGED <<dbVars, view, behind, writer>>
Query(c) ==
    /\ view' = [view EXCEPT ![c] = <<Sees(c)>>]
    /\ UNCHANGED <<dbVars, behind, writer>>

Exec(c, d) ==
    /\ MayWrite(c) /\ writer' = c
    /\ view' = [view EXCEPT ![c] = <<d>>]
    /\ UNCHANGED <<dbVars, behind>>

(* The call is over; what was not committed is rolled back.                *)
Return(c) ==
    /\ call' = [call EXCEPT ![c] = NoCall]
    /\ view' = [view EXCEPT ![c] = << >>]
    /\ writer' = IF writer = c THEN NoUser ELSE writer

RollbackStaysBehind(c) == Return(c) /\ UNCHANGED <<dbVars, behind>>
Rollback(c) == Return(c) /\ behind' = behind \ {c} /\ UNCHANGED dbVars

Start(c, op, at, n, p, r, v) ==
    /\ call[c] = NoCall /\ c \in DOMAIN users
    /\ call' = [call EXCEPT ![c] =
                   [op |-> op, at |-> at, name |-> n, pass |-> p, room |-> r, peer |-> v]]
Goto(c, from, to) == call[c].at = from /\ call' = [call EXCEPT ![c].at = to]

----------------------------------------------------------------------------
(* JoinRoom: three queries, then an INSERT and an UPDATE.                  *)

(* The password is compared with what the first query has read.            *)
FindRoom(c, n, p, r) ==
    /\ Start(c, "join", "count", n, p, r, NoUser)
    /\ r \in DOMAIN rooms /\ rooms[r].name = n /\ rooms[r].pass \in {NoPass, p}
    /\ Query(c)

Occupied(d, r) == {u \in DOMAIN d.participants : d.participants[u] = r}
HasPlace(c) == Cardinality(Occupied(Sees(c), call[c].room)) < MaxUsers
Count(c) == Goto(c, "count", "host") /\ HasPlace(c) /\ Query(c)

Owners(d, r) == {u \in DOMAIN d.users : d.users[u].room = r /\ d.users[u].owner}
FindHost(c, h) ==
    /\ call[c].at = "host"
    /\ LET hosts == Owners(Sees(c), call[c].room)
       IN  h \in hosts \/ (hosts = {} /\ h = NoUser)
    /\ call' = [call EXCEPT ![c].at = "insert", ![c].peer = h]
    /\ Query(c)

(* The schema has one row of participants per user.                        *)
InsertParticipant(c) ==
    /\ Goto(c, "insert", "move")
    /\ c \notin DOMAIN Sees(c).participants
    /\ Exec(c, [Sees(c) EXCEPT !.participants = Put(@, c, call[c].room)])

UpdateUser(c) ==
    /\ Goto(c, "move", "commit")
    /\ Exec(c, [Sees(c) EXCEPT !.users =
                   [w \in DOMAIN @ |->
                       IF w = c THEN [@[w] EXCEPT !.room = call[c].room,
                                                  !.owner = call[c].op = "create",
                                                  !.joined = now]
                                ELSE @[w]]])

----------------------------------------------------------------------------
(* CreateAndJoinRoom: an INSERT, and then as JoinRoom.                     *)

InsertRoom(c, r, n, p) ==
    /\ Start(c, "create", "insert", n, p, r, NoUser)
    /\ r \in Room \ issued
    /\ \A d \in User : call[d].op = "create" => call[d].room # r
    /\ \A q \in DOMAIN rooms : rooms[q].name # n
    /\ Exec(c, [Db EXCEPT !.rooms = Put(@, r, [name |-> n, pass |-> p])])

----------------------------------------------------------------------------
(* LeaveRoomAndDeleteRoomIfEmpty.                                          *)

RemoveParticipant(c, r) ==
    /\ Start(c, "leave", "recount", NoName, NoPass, r, NoUser)
    /\ Exec(c, [Db EXCEPT !.participants = IF c \in Occupied(Db, r) THEN Delete(@, c) ELSE @])

(* Whether the room is to be deleted.                                      *)
Emptied(c) == Occupied(Sees(c), call[c].room) = {}
Recount(c) ==
    /\ Goto(c, "recount", IF Emptied(c) THEN "drop" ELSE "commit")
    /\ Query(c)

DropRoom(c) ==
    /\ Goto(c, "drop", "commit")
    /\ Exec(c, [Sees(c) EXCEPT !.rooms = Delete(@, call[c].room)])

----------------------------------------------------------------------------
(* The transaction of PromoteNextHost, for an heir read before: it was in  *)
(* a room then, and if it is still here its row still says so.             *)

Demote(c, v) ==
    /\ Start(c, "promote", "appoint", NoName, NoPass, NoRoom, v)
    /\ v \in DOMAIN users => users[v].room \in issued
    /\ Exec(c, [Db EXCEPT !.users =
                   [w \in DOMAIN @ |-> [@[w] EXCEPT !.owner = @ /\ w # c]]])

Appoint(c) ==
    /\ Goto(c, "appoint", "commit")
    /\ Exec(c, [Sees(c) EXCEPT !.users =
                   [w \in DOMAIN @ |-> [@[w] EXCEPT !.owner = @ \/ w = call[c].peer]]])

(* Appoint fails: no Rollback, so the transaction keeps the lock.          *)
Leak(c) ==
    /\ call[c].at = "appoint" /\ writer = c
    /\ PromoteLeaks
    /\ Return(c) /\ behind' = behind \ {c}

----------------------------------------------------------------------------
(* The end of a call.                                                      *)

Commit(c) ==
    /\ call[c].at = "commit" /\ writer = c
    /\ users' = Sees(c).users /\ rooms' = Sees(c).rooms
    /\ participants' = Sees(c).participants
    /\ issued' = IF call[c].op = "create" THEN issued \cup {call[c].room} ELSE issued
    /\ Return(c) /\ behind' = Open \ {c}
    /\ UNCHANGED <<now, faults, locked>>

(* An error: a row forbids to go on, a write is refused, or a statement    *)
(* fails.  At the first statement all this leaves everything as it was.    *)
(* A failing query for the host is no error (repository_rooms.go:83) and   *)
(* is left to LookUpHost of Storage; a failing Appoint is Leak.            *)
Mismatch(c) ==
    \/ call[c].at = "count" /\ ~HasPlace(c)
    \/ call[c].at = "insert" /\ c \in DOMAIN Sees(c).participants
Writes == {"insert", "move", "drop"}

Fail(c) ==
    \/ Mismatch(c) /\ Rollback(c)
    \/ call[c].at \in Writes /\ ~MayWrite(c) /\ Rollback(c)
    \/ /\ call[c].at \notin {"idle", "host", "appoint"}
       /\ Return(c) /\ behind' = behind \ {c}
       /\ StatementFails

(* DELETE FROM users, a statement on its own.                              *)
DeleteAlone(c) ==
    /\ call[c] = NoCall /\ c \in DOMAIN users
    /\ writer = NoUser /\ DeleteUser(c)
    /\ behind' = Open
    /\ UNCHANGED <<call, view, writer>>

----------------------------------------------------------------------------
Statements(c) ==
    \/ \E r \in Room, n \in RoomName, p \in Password \cup {NoPass} :
          FindRoom(c, n, p, r) \/ InsertRoom(c, r, n, p)
    \/ Count(c)
    \/ \E h \in User \cup {NoUser} : FindHost(c, h)
    \/ InsertParticipant(c) \/ UpdateUser(c)
    \/ \E r \in issued : RemoveParticipant(c, r)
    \/ Recount(c) \/ DropRoom(c)
    \/ \E v \in User \ {c} : Demote(c, v)
    \/ Appoint(c)

TNext ==
    \E c \in User :
        Statements(c) \/ Commit(c) \/ Fail(c) \/ Leak(c) \/ DeleteAlone(c)

TSpec == TInit /\ [][TNext]_tVars
----------------------------------------------------------------------------
(* Properties.                                                             *)

(* Every variable keeps its shape; a transaction sees tables.              *)
TTypeOK ==
    /\ StorageTypeOK
    /\ call \in [User -> Call]
    /\ \A c \in User : view[c] = << >> \/ DOMAIN view[c] = {1}
    /\ behind \subseteq Open
    /\ writer \in User \cup {NoUser}

(* What is committed of a call is what Storage says of it as one step on   *)
(* the tables as they are at that moment, whatever was committed between   *)
(* its statements: no two joins share a last place, no room is deleted     *)
(* under somebody who joins, and the host that JoinRoom returns is one     *)
(* (repository_rooms.go:62-100, 119-131).                                  *)
AtomicCall(c) ==
    LET k == call[c]
    IN  \/ k.op = "join" /\ JoinRoom(c, k.name, k.pass, k.room, k.peer)
        \/ k.op = "create" /\ CreateAndJoinRoom(c, k.room, k.name, k.pass)
        \/ k.op = "leave" /\ LeaveRoomAndDeleteRoomIfEmpty(c, k.room)
        \/ k.op = "promote" /\ (Promote(c, k.peer) \/ PromoteLeaks)
        \/ k.op = "none" /\ DeleteUser(c)

CallsAreAtomic == [][StatementFails \/ \E c \in User : AtomicCall(c)]_dbVars
=============================================================================
