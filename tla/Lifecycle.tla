------------------------------ MODULE Lifecycle ------------------------------
(***************************************************************************)
(* The life of the server process around RoomServer: StartServer, which    *)
(* purges the tables before it serves and again when it is told to stop,   *)
(* and whatever ends the process in between.                               *)
(*                                                                         *)
(* PurgeEverything is three statements, each on its own; an error skips    *)
(* those that are left and is only logged.  At boot nobody else runs.      *)
(* After the signal the handlers go on: nothing closes the HTTP server or  *)
(* the connections before the process exits.  The end of the process, by   *)
(* a return or by a crash, loses the memory and rolls back a transaction   *)
(* left open; the tables are a file.                                       *)
(*                                                                         *)
(* The clock stands still: of users who joined within one second, any may  *)
(* be the next in line, so every order of joining is covered.              *)
(***************************************************************************)
EXTENDS RoomServer, Sequences

CONSTANT MaxLives       \* bound: times the process starts

ASSUME LivesAssumption == MaxLives \in Nat

VARIABLES
    phase,      \* of the process
    todo,       \* statements of the running PurgeEverything still to execute
    purge,      \* how the last PurgeEverything of this process went
    lives,      \* starts so far
    pastUsers, pastRooms,   \* history: the UUIDs of earlier lives
    stale       \* history: the keys stored before the signal and not deleted since

lifeVars == <<phase, todo, purge, lives, pastUsers, pastRooms, stale>>
lVars == <<vars, lifeVars>>

Phases == {"off", "boot", "up", "stop"}
Nothing == [users |-> {}, rooms |-> {}, participants |-> {}]

LInit ==
    /\ Init
    /\ phase = "off" /\ todo = << >> /\ purge = "none" /\ lives = 0
    /\ pastUsers = {} /\ pastRooms = {} /\ stale = Nothing

----------------------------------------------------------------------------
(* PurgeEverything.                                                        *)

StatementsNoRooms == <<"participants", "users">>
Statements == <<"participants", "rooms", "users">>

(* Deleting rows of `rooms` or `users` cascades if the connection that     *)
(* serves the statement enforces foreign keys.                             *)
Orphaned(gone) ==
    [u \in {v \in DOMAIN participants : v \notin gone /\ participants[v] \notin gone}
        |-> participants[u]]

DeleteAll(table) ==
    /\ ~locked
    /\ \/ table = "participants" /\ participants' = << >> /\ UNCHANGED <<users, rooms>>
       \/ table = "rooms" /\ rooms' = << >> /\ UNCHANGED users
          /\ participants' \in {participants, Orphaned(DOMAIN rooms)}
       \/ table = "users" /\ users' = << >> /\ UNCHANGED rooms
          /\ participants' \in {participants, Orphaned(DOMAIN users)}
    /\ UNCHANGED <<issued, now, faults, locked>>

Forget ==
    stale' = [users        |-> stale.users \cap DOMAIN users',
              rooms        |-> stale.rooms \cap DOMAIN rooms',
              participants |-> stale.participants \cap DOMAIN participants']

PurgeStatement ==
    /\ todo # << >>
    /\ \/ /\ DeleteAll(Head(todo))
          /\ todo' = Tail(todo)
          /\ purge' = IF Tail(todo) = << >> THEN "done" ELSE purge
       \/ WriteFails /\ todo' = << >> /\ purge' = "failed"
    /\ Forget
    /\ UNCHANGED <<pc, user, sess, job, phase, lives, pastUsers, pastRooms>>

----------------------------------------------------------------------------
(* The process.                                                            *)

BeginPurge == todo' = Statements /\ purge' = "running"

Boot ==
    /\ phase = "off" /\ phase' = "boot"
    /\ lives < MaxLives /\ lives' = lives + 1
    /\ BeginPurge
    /\ stale' = Nothing
    /\ UNCHANGED <<vars, pastUsers, pastRooms>>

(* Failed or not, the purge is over and the server opens its port.         *)
Serve ==
    /\ phase = "boot" /\ todo = << >> /\ phase' = "up"
    /\ UNCHANGED <<vars, todo, purge, lives, pastUsers, pastRooms, stale>>

Signal ==
    /\ phase = "up" /\ phase' = "stop"
    /\ BeginPurge
    /\ stale' = [users |-> DOMAIN users, rooms |-> DOMAIN rooms,
                 participants |-> DOMAIN participants]
    /\ UNCHANGED <<vars, lives, pastUsers, pastRooms>>

Die ==
    /\ phase' = "off"
    /\ pc' = [c \in User |-> IF pc[c] = "absent" THEN "absent" ELSE "closed"]
    /\ user' = [c \in User |-> [name |-> NoName, room |-> NoRoom, owner |-> FALSE]]
    /\ sess' = << >> /\ job' = [c \in User |-> NoJob]
    /\ locked' = FALSE
    /\ pastUsers' = {c \in User : pc[c] # "absent"} /\ pastRooms' = issued
    /\ UNCHANGED <<tables, issued, now, faults, lives, stale>>

(* main returns: "Vanished successfully."                                  *)
Exit ==
    /\ phase = "stop" /\ todo = << >>
    /\ Die
    /\ UNCHANGED <<todo, purge>>

Crash ==
    /\ phase # "off"
    /\ Die
    /\ todo' = << >> /\ purge' = "none"

----------------------------------------------------------------------------
(* The handlers, from the opening of the port to the end of the process.   *)

Handlers ==
    /\ phase \in {"up", "stop"}
    /\ \E c \in User : Request(c) \/ Work(c)
    /\ Forget
    /\ UNCHANGED <<phase, todo, purge, lives, pastUsers, pastRooms>>

LNext ==
    \/ Boot \/ PurgeStatement \/ Serve \/ Signal \/ Exit \/ Crash
    \/ Handlers

LSpec == LInit /\ [][LNext]_lVars
----------------------------------------------------------------------------
(* Properties.                                                             *)

(* Every variable keeps its shape.                                         *)
LTypeOK ==
    /\ TypeOK
    /\ phase \in Phases
    /\ todo \in {Statements, Tail(Statements), Tail(Tail(Statements)), << >>}
    /\ purge \in {"none", "running", "done", "failed"}
    /\ lives \in 0..MaxLives
    /\ pastUsers \subseteq User /\ pastRooms \subseteq Room
    /\ stale.users \subseteq User /\ stale.rooms \subseteq Room
    /\ stale.participants \subseteq User

(* Once the purge of a boot has gone through, no row of an earlier life is *)
(* ever seen by a handler, wherever the earlier process died and whatever  *)
(* fails later (README: Server Amnesia).                                   *)
NoGhosts ==
    phase = "up" /\ purge = "done" =>
        /\ (DOMAIN users \cup DOMAIN participants) \cap pastUsers = {}
        /\ DOMAIN rooms \cap pastRooms = {}
        /\ \A u \in DOMAIN participants : participants[u] \notin pastRooms

(* After such a boot, and as long as nothing has failed, the tables are    *)
(* those of a server that never crashed.                                   *)
FreshAfterBoot ==
    phase = "up" /\ purge = "done" =>
        RoomsSelfDestruct /\ ClosedLeavesNoTrace /\ AtRestTablesMatchMemory

(* Rows left by an earlier life, which a boot goes on with when its purge  *)
(* fails (server.go:51-56), never confuse sessions: names still identify   *)
(* them, rooms keep their limit, and broadcasts reach only members.        *)
SafeAmongGhosts ==
    phase = "up" => UniqueSessionNames /\ RoutedOnlyToMembers /\ CapacityRespected

(* A last purge that went through leaves no row that was there when the    *)
(* signal came, although handlers go on under it: what is left was         *)
(* inserted since, by a handler still running (server.go:108-114).         *)
OldRowsAreGone ==
    phase = "off" /\ purge = "done" => stale = Nothing

(* A process that ends with "Vanished successfully." (server.go:114) leaves*)
(* nothing in the tables.                                                  *)
VanishedSuccessfully ==
    phase = "off" /\ purge \in {"done", "failed"} =>
        users = << >> /\ rooms = << >> /\ participants = << >>
=============================================================================
