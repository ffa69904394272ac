--------------------------- MODULE LifecycleProofs ---------------------------
(***************************************************************************)
(* Theorems about Lifecycle, for every number of connections, rooms,       *)
(* starts of the process and failing statements: what a purge that went    *)
(* through is worth, at boot and at the end.                               *)
(***************************************************************************)
EXTENDS Lifecycle, RoomServerProofs

----------------------------------------------------------------------------
(* The inductive invariant.                                                *)

(* What holds of the tables whoever writes them.                           *)
NamesUnique == \A u, v \in DOMAIN users : users[u].name = users[v].name => u = v
TablesInv == TypeOK /\ CapacityInv /\ NamesUnique

(* The process, and the purge it is in.                                    *)
ProcessInv ==
    /\ phase \in Phases /\ lives \in 0..MaxLives
    /\ todo \in {Statements, <<"rooms", "users">>, <<"users">>, << >>}
    /\ purge \in {"none", "running", "done", "failed"}
    /\ purge # "running" => todo = << >>
    /\ phase \in {"off", "up"} => todo = << >>

(* Nobody works outside of the life of a process.                          *)
IdleInv ==
    phase \in {"off", "boot"} =>
        /\ sess = << >> /\ ~locked
        /\ \A c \in User : /\ pc[c] \in {"absent", "closed"}
                           /\ user[c] = [name |-> NoName, room |-> NoRoom, owner |-> FALSE]

HistoryInv ==
    /\ pastUsers \subseteq User /\ \A c \in pastUsers : pc[c] = "closed"
    /\ pastRooms \subseteq issued

(* How far the purge of a boot has come, as long as nothing fails.         *)
BootInv ==
    phase = "boot" /\ purge \in {"running", "done"} =>
        /\ todo # Statements => DOMAIN participants = {}
        /\ todo \in {<<"users">>, << >>} => DOMAIN rooms = {}
        /\ todo = << >> => DOMAIN users = {}

(* How far the last purge has come with the rows of the signal.            *)
StopInv ==
    /\ stale \in [users : SUBSET User, rooms : SUBSET Room, participants : SUBSET User]
    /\ phase = "stop" /\ purge \in {"running", "done"} =>
          /\ todo # Statements => stale.participants = {}
          /\ todo \in {<<"users">>, << >>} => stale.rooms = {}
          /\ todo = << >> => stale.users = {}
    /\ phase = "off" /\ purge = "done" => stale = Nothing

(* A server that serves is a RoomServer, on the tables it has found.       *)
ServingInv == phase = "up" => SessionsInv /\ NamesInv /\ RoutingInv
CleanInv == phase = "up" /\ purge = "done" => IInv

LInv ==
    /\ TablesInv /\ ProcessInv /\ IdleInv /\ HistoryInv /\ BootInv /\ StopInv
    /\ ServingInv /\ CleanInv /\ NoGhosts

LEMMA LifeInit == ASSUME LInit PROVE LInv
  <1>1. IInv
    BY InitInv DEF LInit
  <1>2. TablesInv
    BY <1>1 DEF IInv, TablesInv, NamesInv, NamesUnique
  <1>3. ProcessInv /\ HistoryInv /\ BootInv /\ ServingInv /\ CleanInv /\ NoGhosts
    BY LivesAssumption DEF LInit, ProcessInv, Phases, HistoryInv, BootInv, ServingInv,
      CleanInv, NoGhosts
  <1>4. IdleInv
    BY DEF LInit, Init, StorageInit, IdleInv
  <1>5. StopInv
    BY DEF LInit, StopInv, Nothing
  <1> QED
    BY <1>2, <1>3, <1>4, <1>5 DEF LInv
----------------------------------------------------------------------------
(* Handlers.                                                               *)

(* User names stay unique, whatever rows a handler still finds.            *)
LEMMA NamesUniqueStep ==
    ASSUME TypeOK, NamesUnique, NEW c \in User, Request(c) \/ Work(c)
    PROVE  NamesUnique'
  <1>1. ASSUME NEW n \in UserName, Register(c, n) PROVE NamesUnique'
    <2>1. CASE CreateUser(c, n)
      <3>1. /\ DOMAIN users' = DOMAIN users \cup {c} /\ users'[c].name = n
            /\ \A d \in DOMAIN users : d # c => users'[d] = users[d] /\ users[d].name # n
        BY <2>1 DEF CreateUser, NameFree, Put
      <3> QED
        BY <3>1 DEF NamesUnique
    <2>2. CASE ~CreateUser(c, n)
      BY <1>1, <2>2, FailuresKeepTables DEF Register, tables, NamesUnique
    <2> QED
      BY <2>1, <2>2
  <1>2. CASE Purge(c)
    <2>1. \A d \in DOMAIN users' : d \in DOMAIN users /\ users'[d] = users[d]
      BY <1>2, FailuresKeepTables DEF Purge, DeleteUser, Delete, tables
    <2> QED
      BY <2>1 DEF NamesUnique
  <1>3. CASE ~Purge(c) /\ \A n \in UserName : ~Register(c, n)
    <2>1. NamesKept
      BY <1>3, CallsKeepNames
      DEF TypeOK, Request, Work, Accept, GiveUp, HangUp, Leave, Create, Join,
        OpenSession, CreateMem, JoinMem, Select, HandOver, LeaveTx, LeaveMem, Teardown,
        dbVars
    <2> QED
      BY <2>1 DEF NamesKept, NamesUnique
  <1> QED
    BY <1>1, <1>2, <1>3

(* The rows a handler inserts are its own: its user, and a new room.       *)
LEMMA RowsInserted ==
    ASSUME TypeOK, NEW c \in User, Request(c) \/ Work(c)
    PROVE  /\ pc[c] # "closed"
           /\ \A d \in User \ {c} : pc'[d] = pc[d]
           /\ DOMAIN users' \subseteq DOMAIN users \cup {c}
           /\ DOMAIN participants' \subseteq DOMAIN participants \cup {c}
           /\ issued \subseteq issued'
           /\ \A r \in DOMAIN rooms' : r \in DOMAIN rooms \/ r \notin issued
           /\ \A u \in DOMAIN participants' :
                 \/ u \in DOMAIN participants /\ participants'[u] = participants[u]
                 \/ participants'[u] \in DOMAIN rooms \/ participants'[u] \notin issued
  <1>1. pc[c] # "closed" /\ \A d \in User \ {c} : pc'[d] = pc[d]
    BY NonInterference
    DEF MemoryKept, Request, Work, Accept, GiveUp, HangUp, Leave, Register, Create, Join,
      OpenSession, CreateMem, JoinMem, Select, HandOver, LeaveTx, LeaveMem, Teardown,
      Purge, Goto
  <1>2. CASE UNCHANGED <<rooms, participants, issued>> /\ DOMAIN users' \subseteq DOMAIN users \cup {c}
    BY <1>1, <1>2
  <1>3. ASSUME NEW r, NEW n, NEW p, CreateAndJoinRoom(c, r, n, p)
        PROVE  /\ DOMAIN users' = DOMAIN users /\ r \notin issued
               /\ DOMAIN participants' = DOMAIN participants \cup {c}
               /\ DOMAIN rooms' = DOMAIN rooms \cup {r} /\ issued \subseteq issued'
               /\ \A u \in DOMAIN participants' : IF u = c THEN participants'[u] = r
                                                  ELSE participants'[u] = participants[u]
    BY <1>3 DEF CreateAndJoinRoom, MoveUser, Put
  <1>4. ASSUME NEW r, NEW n, NEW p, NEW h, JoinRoom(c, n, p, r, h)
        PROVE  /\ DOMAIN users' = DOMAIN users /\ r \in DOMAIN rooms
               /\ DOMAIN participants' = DOMAIN participants \cup {c}
               /\ UNCHANGED <<rooms, issued>>
               /\ \A u \in DOMAIN participants' : IF u = c THEN participants'[u] = r
                                                  ELSE participants'[u] = participants[u]
    BY <1>4 DEF JoinRoom, MoveUser, Put
  <1>5. ASSUME NEW r, LeaveRoomAndDeleteRoomIfEmpty(c, r) \/ DeleteUser(c)
        PROVE  /\ DOMAIN users' \subseteq DOMAIN users /\ DOMAIN rooms' \subseteq DOMAIN rooms
               /\ DOMAIN participants' \subseteq DOMAIN participants
               /\ \A u \in DOMAIN participants' : participants'[u] = participants[u]
               /\ UNCHANGED issued
    BY <1>5 DEF LeaveRoomAndDeleteRoomIfEmpty, RoomsAfterLeave, DeleteUser, Delete
  <1>6. CASE \E r \in Room, n \in RoomName, p \in Password \cup {NoPass} : Create(c, r, n, p)
    BY <1>1, <1>3, <1>6 DEF Create
  <1>7. CASE \E r \in Room, n \in RoomName, p \in Password \cup {NoPass}, h \in User \cup {NoUser} :
                Join(c, n, p, r, h)
    BY <1>1, <1>4, <1>7 DEF Join
  <1>8. CASE LeaveTx(c) \/ Purge(c)
    <2>1. CASE UNCHANGED <<tables, issued>>
      BY <1>2, <2>1 DEF tables
    <2>2. CASE LeaveRoomAndDeleteRoomIfEmpty(c, job[c].room) \/ DeleteUser(c)
      BY <1>1, <1>5, <2>2
    <2> QED
      BY <1>8, <2>1, <2>2 DEF LeaveTx, Purge, WriteFails, StatementFails, dbVars, tables
  <1>9. CASE ~LeaveTx(c) /\ ~Purge(c)
             /\ ~(\E r \in Room, n \in RoomName, p \in Password \cup {NoPass} : Create(c, r, n, p))
             /\ ~(\E r \in Room, n \in RoomName, p \in Password \cup {NoPass}, h \in User \cup {NoUser} :
                     Join(c, n, p, r, h))
    <2>1. UNCHANGED <<rooms, participants, issued>> /\ DOMAIN users' \subseteq DOMAIN users \cup {c}
      BY <1>9 DEF Request, Work, Accept, GiveUp, HangUp, Leave, Register, OpenSession,
        CreateMem, JoinMem, Select, HandOver, LeaveMem, Teardown, CreateUser, Put, Promote,
        PromoteLeaks, WriteFails, StatementFails, dbVars
    <2> QED
      BY <1>2, <2>1
  <1> QED
    BY <1>6, <1>7, <1>8, <1>9

(* Forget only shrinks what is stale.                                      *)
LEMMA ForgetFacts ==
    ASSUME StopInv, Forget
    PROVE  /\ stale' \in [users : SUBSET User, rooms : SUBSET Room, participants : SUBSET User]
           /\ stale'.users = stale.users \cap DOMAIN users'
           /\ stale'.rooms = stale.rooms \cap DOMAIN rooms'
           /\ stale'.participants = stale.participants \cap DOMAIN participants'
  BY DEF StopInv, Forget

LEMMA HandlersStep ==
    ASSUME LInv, Handlers
    PROVE  LInv'
  <1>a. /\ TypeOK /\ CapacityInv /\ NamesUnique /\ ProcessInv /\ HistoryInv /\ StopInv
        /\ phase \in {"up", "stop"} /\ Forget
        /\ UNCHANGED <<phase, todo, purge, lives, pastUsers, pastRooms>>
    BY DEF LInv, TablesInv, Handlers
  <1>b. PICK c \in User : Request(c) \/ Work(c)
    BY DEF Handlers
  <1>c. [Next]_vars
    BY <1>b DEF Next
  <1>d. /\ pc[c] # "closed"
        /\ \A d \in User \ {c} : pc'[d] = pc[d]
        /\ DOMAIN users' \subseteq DOMAIN users \cup {c}
        /\ DOMAIN participants' \subseteq DOMAIN participants \cup {c}
        /\ issued \subseteq issued'
        /\ \A r \in DOMAIN rooms' : r \in DOMAIN rooms \/ r \notin issued
        /\ \A u \in DOMAIN participants' :
              \/ u \in DOMAIN participants /\ participants'[u] = participants[u]
              \/ participants'[u] \in DOMAIN rooms \/ participants'[u] \notin issued
    BY <1>a, <1>b, RowsInserted
  <1>e. c \notin pastUsers
    BY <1>a, <1>d DEF HistoryInv
  <1>1. TablesInv'
    BY <1>a, <1>b, <1>c, NextType, CapacityStep, NamesUniqueStep DEF TablesInv
  <1>2. ProcessInv'
    BY <1>a DEF ProcessInv, Phases
  <1>3. IdleInv' /\ BootInv'
    BY <1>a DEF IdleInv, BootInv
  <1>4. HistoryInv'
    BY <1>a, <1>d, <1>e DEF HistoryInv
  <1>5. StopInv'
    BY <1>a, ForgetFacts DEF StopInv
  <1>6. ServingInv'
    BY <1>a, <1>c, SessionsStep, NamesStep, RoutingStep DEF LInv, ServingInv
  <1>7. CleanInv'
    BY <1>a, <1>c, NextInv DEF LInv, CleanInv
  <1>8. NoGhosts'
    <2>1. CASE ~(phase = "up" /\ purge = "done")
      BY <1>a, <2>1 DEF NoGhosts
    <2>2. CASE phase = "up" /\ purge = "done"
      <3>1. (DOMAIN users' \cup DOMAIN participants') \cap pastUsers = {}
        BY <1>d, <1>e, <2>2 DEF LInv, NoGhosts
      <3>2. DOMAIN rooms' \cap pastRooms = {}
        BY <1>a, <1>d, <2>2 DEF LInv, NoGhosts, HistoryInv
      <3>3. \A u \in DOMAIN participants' : participants'[u] \notin pastRooms
        BY <1>a, <1>d, <2>2 DEF LInv, NoGhosts, HistoryInv
      <3> QED
        BY <1>a, <3>1, <3>2, <3>3 DEF NoGhosts
    <2> QED
      BY <2>1, <2>2
  <1> QED
    BY <1>1, <1>2, <1>3, <1>4, <1>5, <1>6, <1>7, <1>8 DEF LInv
----------------------------------------------------------------------------
(* The purge.                                                              *)

(* A statement empties its table, and only takes rows from the others.     *)
LEMMA DeleteAllFacts ==
    ASSUME NEW table, DeleteAll(table)
    PROVE  /\ table = "participants" => DOMAIN participants' = {}
           /\ table = "rooms" => DOMAIN rooms' = {}
           /\ table = "users" => DOMAIN users' = {}
           /\ UNCHANGED users \/ users' = << >>
           /\ UNCHANGED rooms \/ rooms' = << >>
           /\ DOMAIN participants' \subseteq DOMAIN participants
           /\ \A u \in DOMAIN participants' : participants'[u] = participants[u]
           /\ UNCHANGED <<issued, now, faults, locked>>
  <1>1. \A gone : /\ DOMAIN Orphaned(gone) \subseteq DOMAIN participants
                  /\ \A u \in DOMAIN Orphaned(gone) : Orphaned(gone)[u] = participants[u]
    BY DEF Orphaned
  <1> QED
    BY <1>1 DEF DeleteAll

LEMMA DeleteAllTables ==
    ASSUME TablesInv, NEW table, DeleteAll(table), UNCHANGED <<pc, user, sess, job>>
    PROVE  TablesInv'
  <1>a. StorageTypeOK /\ TypeOK /\ CapacityInv /\ NamesUnique
    BY DEF TablesInv, TypeOK
  <1>1. StorageTypeOK'
    <2>1. DOMAIN users' \subseteq User /\ users' \in [DOMAIN users' -> UserRow]
      BY <1>a, DeleteAllFacts, EmptyTable DEF StorageTypeOK
    <2>2. DOMAIN rooms' \subseteq Room /\ rooms' \in [DOMAIN rooms' -> RoomRow]
      BY <1>a, DeleteAllFacts, EmptyTable DEF StorageTypeOK
    <2>3. DOMAIN participants' \subseteq User /\ participants' \in [DOMAIN participants' -> Room]
      <3>1. CASE participants' = << >>
        BY <3>1, EmptyTable
      <3>2. CASE UNCHANGED participants
        BY <1>a, <3>2 DEF StorageTypeOK
      <3>3. ASSUME NEW gone, participants' = Orphaned(gone)
            PROVE  DOMAIN participants' \subseteq User /\ participants' \in [DOMAIN participants' -> Room]
        BY <1>a, <3>3 DEF StorageTypeOK, Orphaned
      <3> QED
        BY <3>1, <3>2, <3>3 DEF DeleteAll
    <2> QED
      BY <1>a, <2>1, <2>2, <2>3, DeleteAllFacts DEF StorageTypeOK
  <1>2. TypeOK'
    BY <1>a, <1>1 DEF TypeOK
  <1>3. CapacityInv'
    BY <1>a, DeleteAllFacts, FewerOccupants
  <1>4. NamesUnique'
    BY <1>a, DeleteAllFacts DEF NamesUnique
  <1> QED
    BY <1>2, <1>3, <1>4 DEF TablesInv

LEMMA PurgeStep ==
    ASSUME LInv, PurgeStatement
    PROVE  LInv'
  <1>a. /\ TablesInv /\ ProcessInv /\ IdleInv /\ HistoryInv /\ BootInv /\ StopInv
        /\ UNCHANGED <<pc, user, sess, job, phase, lives, pastUsers, pastRooms>>
        /\ todo # << >> /\ Forget
    BY DEF LInv, PurgeStatement
  <1>b. /\ phase \in {"boot", "stop"} /\ purge = "running"
        /\ todo \in {Statements, <<"rooms", "users">>, <<"users">>}
    BY <1>a DEF ProcessInv, Phases
  <1>c. ServingInv' /\ CleanInv' /\ NoGhosts'
    BY <1>a, <1>b DEF ServingInv, CleanInv, NoGhosts
  <1>1. CASE WriteFails /\ todo' = << >> /\ purge' = "failed"
    <2>1. UNCHANGED <<users, rooms, participants, issued, now, locked>>
      BY <1>1 DEF WriteFails, StatementFails, dbVars
    <2>2. TypeOK'
      BY <1>1, <1>a, <2>1, FailuresType DEF TablesInv, TypeOK
    <2>3. TablesInv'
      BY <1>a, <2>1, <2>2 DEF TablesInv, CapacityInv, CapacityRespected, Occupants, NamesUnique
    <2>4. ProcessInv' /\ IdleInv' /\ HistoryInv' /\ BootInv'
      BY <1>1, <1>a, <1>b, <2>1 DEF ProcessInv, IdleInv, HistoryInv, BootInv
    <2>5. StopInv'
      BY <1>1, <1>a, <1>b, ForgetFacts DEF StopInv
    <2> QED
      BY <1>c, <2>3, <2>4, <2>5 DEF LInv
  <1>2. ASSUME DeleteAll(Head(todo)), todo' = Tail(todo),
               purge' = IF Tail(todo) = << >> THEN "done" ELSE purge
        PROVE  LInv'
    <2>1. \/ /\ todo = Statements /\ Head(todo) = "participants"
             /\ todo' = <<"rooms", "users">> /\ purge' = "running"
          \/ /\ todo = <<"rooms", "users">> /\ Head(todo) = "rooms"
             /\ todo' = <<"users">> /\ purge' = "running"
          \/ /\ todo = <<"users">> /\ Head(todo) = "users"
             /\ todo' = << >> /\ purge' = "done"
      <3>1. /\ Head(Statements) = "participants" /\ Tail(Statements) = <<"rooms", "users">>
            /\ Head(<<"rooms", "users">>) = "rooms" /\ Tail(<<"rooms", "users">>) = <<"users">>
            /\ Head(<<"users">>) = "users" /\ Tail(<<"users">>) = << >>
            /\ <<"rooms", "users">> # << >> /\ <<"users">> # << >>
        BY DEF Statements
      <3> QED
        BY <1>2, <1>b, <3>1
    <2>2. /\ Statements # <<"rooms", "users">> /\ Statements # <<"users">> /\ Statements # << >>
          /\ <<"rooms", "users">> # <<"users">> /\ <<"rooms", "users">> # << >>
          /\ <<"users">> # << >>
      BY DEF Statements
    <2>3. TablesInv'
      BY <1>2, <1>a, DeleteAllTables
    <2>4. ProcessInv'
      BY <1>a, <1>b, <2>1, <2>2 DEF ProcessInv
    <2>5. IdleInv' /\ HistoryInv'
      BY <1>2, <1>a, DeleteAllFacts DEF IdleInv, HistoryInv
    <2>6. /\ DOMAIN users' \subseteq DOMAIN users /\ DOMAIN rooms' \subseteq DOMAIN rooms
          /\ DOMAIN participants' \subseteq DOMAIN participants
      BY <1>2, DeleteAllFacts
    <2>7. BootInv'
      BY <1>2, <1>a, <1>b, <2>1, <2>2, <2>6, DeleteAllFacts DEF BootInv
    <2>8. StopInv'
      <3>1. /\ Head(todo) = "participants" => stale'.participants = {}
            /\ Head(todo) = "rooms" => stale'.rooms = {}
            /\ Head(todo) = "users" => stale'.users = {}
        BY <1>2, <1>a, ForgetFacts, DeleteAllFacts
      <3> QED
        BY <1>a, <1>b, <2>1, <2>2, <3>1, ForgetFacts DEF StopInv
    <2> QED
      BY <1>c, <2>3, <2>4, <2>5, <2>7, <2>8 DEF LInv
  <1> QED
    BY <1>1, <1>2 DEF PurgeStatement
----------------------------------------------------------------------------
(* The process.                                                            *)

LEMMA UnchangedTables ==
    ASSUME TablesInv, HistoryInv, UNCHANGED vars, UNCHANGED <<pastUsers, pastRooms>>
    PROVE  TablesInv' /\ HistoryInv'
  <1>1. TypeOK'
    BY NextType DEF TablesInv
  <1> QED
    BY <1>1 DEF TablesInv, CapacityInv, CapacityRespected, Occupants, NamesUnique, HistoryInv,
      vars, dbVars

LEMMA BootStep == ASSUME LInv, Boot PROVE LInv'
  <1>1. TablesInv' /\ HistoryInv'
    BY UnchangedTables DEF LInv, Boot
  <1>2. ProcessInv'
    BY LivesAssumption DEF LInv, ProcessInv, Phases, Boot, BeginPurge
  <1>3. IdleInv'
    BY DEF LInv, IdleInv, Boot, vars, dbVars
  <1>4. BootInv' /\ ServingInv' /\ CleanInv' /\ NoGhosts'
    BY DEF Boot, BeginPurge, Statements, BootInv, ServingInv, CleanInv, NoGhosts
  <1>5. StopInv'
    BY DEF Boot, BeginPurge, StopInv, Nothing
  <1> QED
    BY <1>1, <1>2, <1>3, <1>4, <1>5 DEF LInv

(* A server that starts on empty tables starts where RoomServer does, but  *)
(* for the users and rooms of the past.                                    *)
LEMMA ServeStep == ASSUME LInv, Serve PROVE LInv'
  <1>a. /\ TablesInv /\ ProcessInv /\ IdleInv /\ HistoryInv /\ BootInv /\ StopInv
        /\ UNCHANGED <<vars, todo, purge, lives, pastUsers, pastRooms, stale>>
        /\ phase = "boot" /\ phase' = "up" /\ todo = << >>
    BY DEF LInv, Serve
  <1>1. TablesInv' /\ HistoryInv'
    BY <1>a, UnchangedTables
  <1>2. ProcessInv' /\ IdleInv' /\ BootInv' /\ StopInv'
    BY <1>a DEF ProcessInv, Phases, IdleInv, BootInv, StopInv
  <1>3. SessionsInv /\ NamesInv /\ RoutingInv /\ OwnerInv
    BY <1>a DEF IdleInv, TablesInv, NamesUnique, SessionsInv, NamesInv, Registered,
      HasSession, Departing, RoutingInv, OwnerInv
  <1>4. ASSUME purge = "done" PROVE IInv /\ NoGhosts'
    <2>1. DOMAIN users = {} /\ DOMAIN rooms = {} /\ DOMAIN participants = {}
      BY <1>4, <1>a DEF BootInv, Statements
    <2>2. NoFailureInv
      BY <2>1, <1>a DEF IdleInv, NoFailureInv, RoomsSelfDestruct, PlaceInv
    <2> QED
      BY <1>a, <1>3, <2>1, <2>2 DEF IInv, TablesInv, NoGhosts, vars, dbVars
  <1>5. IInv => IInv'
    BY <1>a, NextInv
  <1>6. SessionsInv' /\ NamesInv' /\ RoutingInv'
    BY <1>a, <1>3, SessionsStep, NamesStep, RoutingStep DEF TablesInv
  <1>7. ServingInv' /\ CleanInv'
    BY <1>a, <1>4, <1>5, <1>6 DEF ServingInv, CleanInv
  <1>8. NoGhosts'
    BY <1>a, <1>4 DEF NoGhosts
  <1> QED
    BY <1>1, <1>2, <1>7, <1>8 DEF LInv

LEMMA SignalStep == ASSUME LInv, Signal PROVE LInv'
  <1>1. TablesInv' /\ HistoryInv'
    BY UnchangedTables DEF LInv, Signal
  <1>2. ProcessInv'
    BY DEF LInv, ProcessInv, Phases, Signal, BeginPurge
  <1>3. IdleInv' /\ BootInv' /\ ServingInv' /\ CleanInv' /\ NoGhosts'
    BY DEF Signal, IdleInv, BootInv, ServingInv, CleanInv, NoGhosts
  <1>4. StopInv'
    <2>1. /\ DOMAIN users \subseteq User /\ DOMAIN rooms \subseteq Room
          /\ DOMAIN participants \subseteq User
      BY DEF LInv, TablesInv, TypeOK, StorageTypeOK
    <2> QED
      BY <2>1 DEF Signal, BeginPurge, Statements, StopInv
  <1> QED
    BY <1>1, <1>2, <1>3, <1>4 DEF LInv

LEMMA DieStep ==
    ASSUME LInv, Die
    PROVE  TablesInv' /\ IdleInv' /\ HistoryInv' /\ BootInv' /\ ServingInv' /\ CleanInv' /\ NoGhosts'
  <1>a. TypeOK /\ CapacityInv /\ NamesUnique
    BY DEF LInv, TablesInv
  <1>1. TypeOK'
    <2>1. StorageTypeOK'
      BY <1>a DEF TypeOK, StorageTypeOK, Die, tables
    <2>2. user' \in [User -> Local] /\ job' \in [User -> Job]
      BY DEF Die, Local, Job, NoJob
    <2>3. DOMAIN sess' \subseteq User /\ sess' \in [DOMAIN sess' -> Session]
      BY EmptyTable DEF Die
    <2>4. pc' \in [User -> Idle \cup Working \cup {"register"}]
      BY DEF Die, Idle
    <2> QED
      BY <2>1, <2>2, <2>3, <2>4 DEF TypeOK
  <1>2. TablesInv'
    BY <1>a, <1>1 DEF TablesInv, CapacityInv, CapacityRespected, Occupants, NamesUnique,
      Die, tables
  <1>3. IdleInv' /\ HistoryInv'
    BY DEF Die, IdleInv, HistoryInv
  <1>4. BootInv' /\ ServingInv' /\ CleanInv' /\ NoGhosts'
    BY DEF Die, BootInv, ServingInv, CleanInv, NoGhosts
  <1> QED
    BY <1>2, <1>3, <1>4

LEMMA EndStep == ASSUME LInv, Exit \/ Crash PROVE LInv'
  <1>1. TablesInv' /\ IdleInv' /\ HistoryInv' /\ BootInv' /\ ServingInv' /\ CleanInv' /\ NoGhosts'
    BY DieStep DEF Exit, Crash
  <1>2. ProcessInv'
    BY DEF LInv, ProcessInv, Phases, Exit, Crash, Die
  <1>3. StopInv'
    <2>1. CASE Crash
      BY <2>1 DEF LInv, StopInv, Crash, Die
    <2>2. CASE Exit
      <3>1. purge = "done" => stale.users = {} /\ stale.rooms = {} /\ stale.participants = {}
        BY <2>2 DEF LInv, StopInv, Exit, Statements
      <3>2. purge = "done" => stale = Nothing
        BY <3>1 DEF LInv, StopInv, Nothing
      <3> QED
        BY <2>2, <3>2 DEF LInv, StopInv, Exit, Die, Nothing
    <2> QED
      BY <2>1, <2>2
  <1> QED
    BY <1>1, <1>2, <1>3 DEF LInv
----------------------------------------------------------------------------
LEMMA LifeStep == ASSUME LInv, [LNext]_lVars PROVE LInv'
  <1>1. CASE UNCHANGED lVars
    <2>1. TablesInv' /\ HistoryInv'
      BY <1>1, UnchangedTables DEF LInv, lVars, lifeVars
    <2>2. IInv => IInv'
      BY <1>1, NextInv DEF lVars
    <2>3. ServingInv' /\ CleanInv'
      BY <1>1, <2>2, SessionsStep, NamesStep, RoutingStep
      DEF LInv, TablesInv, ServingInv, CleanInv, lVars, lifeVars
    <2>4. ProcessInv' /\ IdleInv' /\ BootInv' /\ StopInv' /\ NoGhosts'
      BY <1>1 DEF LInv, ProcessInv, IdleInv, BootInv, StopInv, NoGhosts, lVars, lifeVars,
        vars, dbVars
    <2> QED
      BY <2>1, <2>3, <2>4 DEF LInv
  <1> QED
    BY <1>1, BootStep, PurgeStep, ServeStep, SignalStep, EndStep, HandlersStep DEF LNext

THEOREM LifeInvariant == LSpec => []LInv
  BY LifeInit, LifeStep, PTL DEF LSpec

----------------------------------------------------------------------------
(* What it implies.                                                        *)

(* Every variable keeps its shape, through starts, crashes and purges.     *)
THEOREM LTypeCorrect == LSpec => []LTypeOK
  <1>1. LInv => LTypeOK
    <2> SUFFICES ASSUME LInv PROVE LTypeOK
      OBVIOUS
    <2>1. TypeOK /\ phase \in Phases /\ lives \in 0..MaxLives
      BY DEF LInv, TablesInv, ProcessInv
    <2>2. todo \in {Statements, Tail(Statements), Tail(Tail(Statements)), << >>}
      BY DEF LInv, ProcessInv, Statements
    <2>3. pastUsers \subseteq User /\ pastRooms \subseteq Room
      BY DEF LInv, TablesInv, TypeOK, StorageTypeOK, HistoryInv
    <2> QED
      BY <2>1, <2>2, <2>3 DEF LInv, ProcessInv, StopInv, LTypeOK
  <1> QED
    BY <1>1, LifeInvariant, PTL

(* After a purge at boot that went through no handler ever sees a row of   *)
(* an earlier life (server.go:51, repository_rooms.go:219).                *)
THEOREM GhostsAreGone == LSpec => []NoGhosts
  <1>1. LInv => NoGhosts
    BY DEF LInv
  <1> QED
    BY <1>1, LifeInvariant, PTL

(* Nor does it matter to such a server how the earlier ones ended.         *)
THEOREM StartsAfresh == LSpec => []FreshAfterBoot
  <1>1. ASSUME IInv PROVE RoomsSelfDestruct /\ ClosedLeavesNoTrace /\ AtRestTablesMatchMemory
    BY <1>1, AtRest
  <1>2. LInv => FreshAfterBoot
    BY <1>1 DEF LInv, CleanInv, FreshAfterBoot
  <1> QED
    BY <1>2, LifeInvariant, PTL

(* Whatever rows it starts on, a server keeps names, rooms and broadcasts  *)
(* apart (server.go:51-56).                                                *)
THEOREM GhostsAreHarmless == LSpec => []SafeAmongGhosts
  <1>1. LInv => SafeAmongGhosts
    BY DEF LInv, TablesInv, ServingInv, TypeOK, NamesInv, Registered, UniqueSessionNames,
      RoutingInv, RoutedOnlyToMembers, Occupants, CapacityInv, SafeAmongGhosts
  <1> QED
    BY <1>1, LifeInvariant, PTL

(* A last purge that went through has deleted every row the signal found,  *)
(* whatever the handlers did under it (server.go:108-114).                 *)
THEOREM OldRowsDeleted == LSpec => []OldRowsAreGone
  <1>1. LInv => OldRowsAreGone
    BY DEF LInv, StopInv, OldRowsAreGone
  <1> QED
    BY <1>1, LifeInvariant, PTL
=============================================================================
