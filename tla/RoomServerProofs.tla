-------------------------- MODULE RoomServerProofs --------------------------
(***************************************************************************)
(* Theorems about RoomServer, for every number of connections and rooms,   *)
(* every capacity and every number of failing statements.                  *)
(***************************************************************************)
EXTENDS RoomServerInv, TLAPS, FiniteSetTheorems

----------------------------------------------------------------------------
(* Tables.                                                                 *)

(* What an INSERT or a replacement leaves in a table.                      *)
LEMMA PutFacts ==
    ASSUME NEW f, NEW k, NEW v
    PROVE  /\ DOMAIN Put(f, k, v) = DOMAIN f \cup {k}
           /\ Put(f, k, v)[k] = v
           /\ \A x \in DOMAIN f : x # k => Put(f, k, v)[x] = f[x]
  BY DEF Put

(* Both keep the rows of a table in their type.                            *)
LEMMA PutType ==
    ASSUME NEW S, NEW K, NEW f, f \in [DOMAIN f -> S], DOMAIN f \subseteq K,
           NEW k \in K, NEW v \in S
    PROVE  /\ Put(f, k, v) \in [DOMAIN Put(f, k, v) -> S]
           /\ DOMAIN Put(f, k, v) \subseteq K
  BY DEF Put

LEMMA DeleteType ==
    ASSUME NEW S, NEW K, NEW f, f \in [DOMAIN f -> S], DOMAIN f \subseteq K, NEW k
    PROVE  /\ Delete(f, k) \in [DOMAIN Delete(f, k) -> S]
           /\ DOMAIN Delete(f, k) \subseteq K
  BY DEF Delete

(* The empty table.                                                        *)
LEMMA EmptyTable ==
    ASSUME NEW S, NEW K
    PROVE  DOMAIN << >> = {} /\ << >> \in [DOMAIN << >> -> S] /\ DOMAIN << >> \subseteq K
  OBVIOUS

----------------------------------------------------------------------------
(* Types.                                                                  *)

LEMMA InitType == Init => TypeOK
  <1> SUFFICES ASSUME Init PROVE TypeOK
    OBVIOUS
  <1>1. StorageTypeOK
    BY EmptyTable DEF Init, StorageInit, StorageTypeOK
  <1>2. sess \in [DOMAIN sess -> Session] /\ DOMAIN sess \subseteq User
    BY EmptyTable DEF Init
  <1>3. /\ pc \in [User -> Idle \cup Working \cup {"register"}]
        /\ user \in [User -> Local]
        /\ job \in [User -> Job]
    BY DEF Init, Idle, Local, Job, NoJob
  <1> QED
    BY <1>1, <1>2, <1>3 DEF TypeOK
LEMMA MoveUserType ==
    ASSUME StorageTypeOK, NEW u, NEW r \in Room, NEW o \in BOOLEAN
    PROVE  /\ DOMAIN MoveUser(u, r, o) = DOMAIN users
           /\ MoveUser(u, r, o) \in [DOMAIN users -> UserRow]
  BY DEF MoveUser, StorageTypeOK, UserRow

(* Every call on the repository keeps the tables in their type.            *)
LEMMA CallsType ==
    ASSUME StorageTypeOK, NEW u \in User
    PROVE  /\ \A n \in UserName : CreateUser(u, n) => StorageTypeOK'
           /\ DeleteUser(u) => StorageTypeOK'
           /\ \A v : Promote(u, v) => StorageTypeOK'
           /\ \A r \in Room, n \in RoomName, p \in Password \cup {NoPass} :
                 CreateAndJoinRoom(u, r, n, p) => StorageTypeOK'
           /\ \A r \in Room : \A n, p, h : JoinRoom(u, n, p, r, h) => StorageTypeOK'
           /\ \A r : LeaveRoomAndDeleteRoomIfEmpty(u, r) => StorageTypeOK'
  <1>1. ASSUME NEW n \in UserName, CreateUser(u, n) PROVE StorageTypeOK'
    <2>1. [name |-> n, owner |-> FALSE, room |-> NoRoom, joined |-> now] \in UserRow
      BY DEF StorageTypeOK, UserRow
    <2>2. users' \in [DOMAIN users' -> UserRow] /\ DOMAIN users' \subseteq User
      BY <1>1, <2>1 DEF CreateUser, Put, StorageTypeOK
    <2> QED
      BY <1>1, <2>2 DEF CreateUser, StorageTypeOK
  <1>2. ASSUME DeleteUser(u) PROVE StorageTypeOK'
    <2>1. users' \in [DOMAIN users' -> UserRow] /\ DOMAIN users' \subseteq User
      BY <1>2 DEF DeleteUser, Delete, StorageTypeOK
    <2>2. /\ participants' \in [DOMAIN participants' -> Room]
          /\ DOMAIN participants' \subseteq User
      BY <1>2 DEF DeleteUser, Delete, StorageTypeOK
    <2> QED
      BY <1>2, <2>1, <2>2 DEF DeleteUser, StorageTypeOK
  <1>3. ASSUME NEW v, Promote(u, v) PROVE StorageTypeOK'
    <2>1. \A w \in DOMAIN users : OwnerAfter(w, u, v) \in BOOLEAN
      BY DEF OwnerAfter
    <2>2. users' \in [DOMAIN users -> UserRow]
      BY <1>3, <2>1 DEF Promote, StorageTypeOK, UserRow
    <2> QED
      BY <1>3, <2>2 DEF Promote, StorageTypeOK
  <1>4. ASSUME NEW r \in Room, NEW n \in RoomName, NEW p \in Password \cup {NoPass},
               CreateAndJoinRoom(u, r, n, p)
        PROVE  StorageTypeOK'
    <2>1. [name |-> n, pass |-> p] \in RoomRow
      BY DEF RoomRow
    <2>2. rooms' \in [DOMAIN rooms' -> RoomRow] /\ DOMAIN rooms' \subseteq Room
      BY <1>4, <2>1 DEF CreateAndJoinRoom, Put, StorageTypeOK
    <2>3. /\ participants' \in [DOMAIN participants' -> Room]
          /\ DOMAIN participants' \subseteq User
      BY <1>4 DEF CreateAndJoinRoom, Put, StorageTypeOK
    <2>4. users' \in [DOMAIN users' -> UserRow] /\ DOMAIN users' \subseteq User
      BY <1>4, MoveUserType DEF CreateAndJoinRoom, StorageTypeOK
    <2> QED
      BY <1>4, <2>2, <2>3, <2>4 DEF CreateAndJoinRoom, StorageTypeOK
  <1>5. ASSUME NEW r \in Room, NEW n, NEW p, NEW h, JoinRoom(u, n, p, r, h)
        PROVE  StorageTypeOK'
    <2>1. faults' \in Nat
      BY <1>5 DEF JoinRoom, LookUpHost, StorageTypeOK
    <2> QED
      BY <1>5, <2>1, PutType, MoveUserType DEF JoinRoom, StorageTypeOK
  <1>6. ASSUME NEW r, LeaveRoomAndDeleteRoomIfEmpty(u, r) PROVE StorageTypeOK'
    BY <1>6, DeleteType
    DEF LeaveRoomAndDeleteRoomIfEmpty, RoomsAfterLeave, StorageTypeOK
  <1> QED
    BY <1>1, <1>2, <1>3, <1>4, <1>5, <1>6
(* So do its failures and the clock.                                       *)
LEMMA FailuresType ==
    StorageTypeOK /\ (WriteFails \/ StatementFails \/ PromoteLeaks \/ Tick)
        => StorageTypeOK'
  <1>1. CASE StorageTypeOK /\ StatementFails
    BY <1>1 DEF StatementFails, StorageTypeOK
  <1>2. CASE StorageTypeOK /\ UNCHANGED dbVars
    BY <1>2 DEF dbVars, StorageTypeOK
  <1>3. CASE StorageTypeOK /\ PromoteLeaks
    BY <1>3 DEF PromoteLeaks, StorageTypeOK
  <1>4. CASE StorageTypeOK /\ Tick
    BY <1>4 DEF Tick, StorageTypeOK
  <1> QED
    BY <1>1, <1>2, <1>3, <1>4 DEF WriteFails

(* A call changes neither the goroutines nor the sessions, and the         *)
(* goroutines' own steps do not change the tables.                         *)
LEMMA StillType ==
    StorageTypeOK /\ UNCHANGED dbVars => StorageTypeOK'
  BY DEF StorageTypeOK, dbVars

LEMMA JobType ==
    ASSUME TypeOK, NEW c \in User, NEW r \in Room \cup {NoRoom},
           NEW v \in User \cup {NoUser}, NEW x \in BOOLEAN, Take(c, r, v, x)
    PROVE  job' \in [User -> Job]
  BY DEF TypeOK, Take, Job

LEMMA GotoType ==
    ASSUME TypeOK, NEW c \in User, NEW to \in Idle \cup Working \cup {"register"},
           NEW from, Goto(c, from, to)
    PROVE  pc' \in [User -> Idle \cup Working \cup {"register"}]
  BY DEF TypeOK, Goto

LEMMA SetRoomType ==
    ASSUME TypeOK, NEW c \in User, NEW r \in Room \cup {NoRoom}
    PROVE  /\ DOMAIN SetRoom(c, r) \subseteq User
           /\ SetRoom(c, r) \in [DOMAIN SetRoom(c, r) -> Session]
  BY DEF TypeOK, SetRoom, Session

(* Every step of the server keeps every variable in its type.              *)
LEMMA NextType == TypeOK /\ [Next]_vars => TypeOK'
  <1> SUFFICES ASSUME TypeOK, [Next]_vars PROVE TypeOK'
    OBVIOUS
  <1> USE DEF Idle, Working
  <1>a. StorageTypeOK
    BY DEF TypeOK
  <1>1. CASE Clock
    BY <1>1, <1>a, FailuresType DEF Clock, TypeOK
  <1>2. ASSUME NEW c \in User, Request(c) PROVE TypeOK'
    <2>1. CASE Accept(c) \/ GiveUp(c) \/ HangUp(c)
      BY <2>1, StillType, GotoType DEF Accept, GiveUp, HangUp, TypeOK
    <2>2. CASE Leave(c)
      <3>1. user[c].room \in Room
        BY <2>2 DEF Leave, TypeOK, Local
      <3>2. job' \in [User -> Job]
        BY <2>2, <3>1, JobType DEF Leave
      <3> QED
        BY <2>2, <3>2, StillType, GotoType DEF Leave, Heir, TypeOK
    <2>3. ASSUME NEW n \in UserName, Register(c, n) PROVE TypeOK'
      <3>1. user' \in [User -> Local]
        BY <2>3 DEF Register, TypeOK, Local
      <3>2. StorageTypeOK'
        BY <2>3, <1>a, CallsType, FailuresType, StillType DEF Register
      <3>3. pc' \in [User -> Idle \cup Working \cup {"register"}]
        BY <2>3, GotoType DEF Register
      <3> QED
        BY <2>3, <3>1, <3>2, <3>3 DEF Register, TypeOK
    <2>4. ASSUME NEW r \in Room, NEW n \in RoomName, NEW p \in Password \cup {NoPass},
                 Create(c, r, n, p)
          PROVE  TypeOK'
      <3>1. StorageTypeOK'
        BY <2>4, <1>a, CallsType DEF Create
      <3>2. job' \in [User -> Job]
        BY <2>4, JobType DEF Create
      <3> QED
        BY <2>4, <3>1, <3>2, GotoType DEF Create, TypeOK
    <2>5. ASSUME NEW r \in Room, NEW n \in RoomName, NEW p \in Password \cup {NoPass},
                 NEW h \in User \cup {NoUser}, Join(c, n, p, r, h)
          PROVE  TypeOK'
      <3>1. StorageTypeOK'
        BY <2>5, <1>a, CallsType DEF Join
      <3>2. job' \in [User -> Job]
        BY <2>5, JobType DEF Join
      <3> QED
        BY <2>5, <3>1, <3>2, GotoType DEF Join, TypeOK
    <2> QED
      BY <1>2, <2>1, <2>2, <2>3, <2>4, <2>5 DEF Request
  <1>3. ASSUME NEW c \in User, Work(c) PROVE TypeOK'
    <2>a. job[c] \in Job /\ user[c] \in Local
      BY DEF TypeOK
    <2>b. job[c].room \in Room \cup {NoRoom} /\ job[c].exit \in BOOLEAN
      BY <2>a DEF Job
    <2>1. CASE OpenSession(c)
      <3>1. [name |-> user[c].name, room |-> NoRoom] \in Session
        BY <2>a DEF Local, Session
      <3>2. sess' \in [DOMAIN sess' -> Session] /\ DOMAIN sess' \subseteq User
        BY <2>1, <3>1 DEF OpenSession, Put, TypeOK
      <3>3. pc' \in [User -> Idle \cup Working \cup {"register"}]
        BY <2>1, GotoType DEF OpenSession
      <3> QED
        BY <2>1, <3>2, <3>3, StillType DEF OpenSession, TypeOK
    <2>2. CASE CreateMem(c)
      <3>1. user' \in [User -> Local]
        <4>1. [user[c] EXCEPT !.room = job[c].room, !.owner = TRUE] \in Local
          BY <2>a, <2>b DEF Local
        <4> QED
          BY <2>2, <4>1 DEF CreateMem, TypeOK
      <3>2. job' \in [User -> Job]
        BY <2>2, JobType DEF CreateMem
      <3>3. pc' \in [User -> Idle \cup Working \cup {"register"}]
        BY <2>2, GotoType DEF CreateMem
      <3> QED
        BY <2>2, <2>b, <3>1, <3>2, <3>3, StillType, SetRoomType DEF CreateMem, TypeOK
    <2>3. CASE JoinMem(c)
      <3>1. user' \in [User -> Local]
        BY <2>3, <2>b DEF JoinMem, TypeOK, Local
      <3>2. job' \in [User -> Job]
        BY <2>3, JobType DEF JoinMem
      <3>3. [name |-> user[c].name, room |-> job[c].room] \in Session
        BY <2>a, <2>b DEF Local, Session
      <3>4. sess' \in [DOMAIN sess' -> Session] /\ DOMAIN sess' \subseteq User
        BY <2>3, <3>3 DEF JoinMem, Put, TypeOK
      <3> QED
        BY <2>3, <3>1, <3>2, <3>4, StillType, GotoType DEF JoinMem, TypeOK
    <2>4. CASE Select(c)
      <3>1. job' \in [User -> Job]
        <4>1. \A v \in NextInLine(job[c].room, c) : v \in User
          BY DEF NextInLine, Attached, TypeOK, StorageTypeOK
        <4>2. ASSUME NEW v \in User, Take(c, job[c].room, v, job[c].exit)
              PROVE  job' \in [User -> Job]
          BY <4>2, <2>b, JobType
        <4> QED
          BY <2>4, <4>1, <4>2 DEF Select, TypeOK
      <3>2. StorageTypeOK'
        BY <2>4, <1>a, StillType, FailuresType DEF Select
      <3>3. pc' \in [User -> Idle \cup Working \cup {"register"}]
        BY <2>4, GotoType DEF Select
      <3> QED
        BY <2>4, <3>1, <3>2, <3>3 DEF Select, TypeOK
    <2>5. CASE HandOver(c)
      <3>1. StorageTypeOK'
        BY <2>5, <1>a, CallsType, FailuresType DEF HandOver
      <3>2. pc' \in [User -> Idle \cup Working \cup {"register"}]
        BY <2>5, GotoType DEF HandOver
      <3> QED
        BY <2>5, <3>1, <3>2 DEF HandOver, TypeOK
    <2>6. CASE LeaveTx(c)
      <3>1. StorageTypeOK'
        BY <2>6, <1>a, CallsType, FailuresType DEF LeaveTx
      <3>2. pc' \in [User -> Idle \cup Working \cup {"register"}]
        BY <2>6, GotoType DEF LeaveTx, AfterLeave
      <3> QED
        BY <2>6, <3>1, <3>2 DEF LeaveTx, TypeOK
    <2>7. CASE LeaveMem(c)
      <3>1. user' \in [User -> Local]
        <4>1. [user[c] EXCEPT !.room = NoRoom, !.owner = FALSE] \in Local
          BY <2>a DEF Local
        <4> QED
          BY <2>7, <4>1 DEF LeaveMem, TypeOK
      <3>2. job' \in [User -> Job]
        BY <2>7, JobType DEF LeaveMem
      <3>3. pc' \in [User -> Idle \cup Working \cup {"register"}]
        BY <2>7, GotoType DEF LeaveMem
      <3> QED
        BY <2>7, <3>1, <3>2, <3>3, StillType, SetRoomType DEF LeaveMem, TypeOK
    <2>8. CASE Teardown(c)
      <3>1. RoomOf(c) \in Room \cup {NoRoom}
        BY DEF RoomOf, TypeOK, Session
      <3>2. job' \in [User -> Job]
        BY <2>8, <3>1, JobType DEF Teardown
      <3>3. sess' \in [DOMAIN sess' -> Session] /\ DOMAIN sess' \subseteq User
        BY <2>8 DEF Teardown, Delete, TypeOK
      <3> QED
        BY <2>8, <3>2, <3>3, StillType, GotoType DEF Teardown, TypeOK
    <2>9. CASE Purge(c)
      <3>1. StorageTypeOK'
        BY <2>9, <1>a, CallsType, FailuresType DEF Purge
      <3>2. job' \in [User -> Job]
        BY <2>9, JobType DEF Purge
      <3> QED
        BY <2>9, <3>1, <3>2, GotoType DEF Purge, TypeOK
    <2> QED
      BY <1>3, <2>1, <2>2, <2>3, <2>4, <2>5, <2>6, <2>7, <2>8, <2>9 DEF Work
  <1> QED
    BY <1>1, <1>2, <1>3 DEF Next, vars, TypeOK, StorageTypeOK, dbVars
THEOREM TypeCorrect == Spec => []TypeOK
  <1>1. Init => TypeOK
    BY InitType
  <1>2. TypeOK /\ [Next]_vars => TypeOK'
    BY NextType
  <1> QED
    BY <1>1, <1>2, PTL DEF Spec

----------------------------------------------------------------------------
(* Non-interference: a step of one goroutine leaves alone what belongs to  *)
(* the others, except that it may make another user the owner.             *)

RowsKept(d) ==
    /\ d \in DOMAIN participants <=> d \in DOMAIN participants'
    /\ d \in DOMAIN participants => participants'[d] = participants[d]
    /\ d \in DOMAIN users <=> d \in DOMAIN users'
    /\ d \in DOMAIN users =>
          /\ users'[d].name = users[d].name
          /\ users'[d].room = users[d].room
          /\ users[d].owner => users'[d].owner

MemoryKept(d) ==
    /\ pc'[d] = pc[d] /\ user'[d] = user[d] /\ job'[d] = job[d]
    /\ d \in DOMAIN sess <=> d \in DOMAIN sess'
    /\ d \in DOMAIN sess => sess'[d] = sess[d]

LEMMA TablesKept == ASSUME UNCHANGED tables, NEW d PROVE RowsKept(d)
  BY DEF tables, RowsKept

LEMMA FailuresKeepTables ==
    UNCHANGED dbVars \/ WriteFails \/ StatementFails \/ PromoteLeaks \/ Tick
        => UNCHANGED tables
  BY DEF dbVars, WriteFails, StatementFails, PromoteLeaks, Tick, tables

LEMMA CallsKeepRows ==
    ASSUME StorageTypeOK, NEW u \in User, NEW d \in User \ {u}
    PROVE  /\ \A n : CreateUser(u, n) => RowsKept(d)
           /\ DeleteUser(u) => RowsKept(d)
           /\ \A v : Promote(u, v) => RowsKept(d)
           /\ \A r, n, p : CreateAndJoinRoom(u, r, n, p) => RowsKept(d)
           /\ \A r, n, p, h : JoinRoom(u, n, p, r, h) => RowsKept(d)
           /\ \A r : LeaveRoomAndDeleteRoomIfEmpty(u, r) => RowsKept(d)
  <1>1. ASSUME NEW n, CreateUser(u, n) PROVE RowsKept(d)
    BY <1>1 DEF CreateUser, Put, RowsKept
  <1>2. ASSUME DeleteUser(u) PROVE RowsKept(d)
    BY <1>2 DEF DeleteUser, Delete, RowsKept
  <1>3. ASSUME NEW v, Promote(u, v) PROVE RowsKept(d)
    <2>1. d \in DOMAIN users =>
             /\ users'[d] = [users[d] EXCEPT !.owner = OwnerAfter(d, u, v)]
             /\ users[d] \in UserRow
      BY <1>3 DEF Promote, StorageTypeOK
    <2>2. DOMAIN users' = DOMAIN users
      BY <1>3 DEF Promote
    <2>3. UNCHANGED participants
      BY <1>3 DEF Promote
    <2> QED
      BY <2>1, <2>2, <2>3 DEF UserRow, OwnerAfter, RowsKept
  <1>4. ASSUME NEW r, NEW n, NEW p, CreateAndJoinRoom(u, r, n, p) PROVE RowsKept(d)
    BY <1>4 DEF CreateAndJoinRoom, MoveUser, Put, RowsKept
  <1>5. ASSUME NEW r, NEW n, NEW p, NEW h, JoinRoom(u, n, p, r, h) PROVE RowsKept(d)
    BY <1>5 DEF JoinRoom, MoveUser, Put, RowsKept
  <1>6. ASSUME NEW r, LeaveRoomAndDeleteRoomIfEmpty(u, r) PROVE RowsKept(d)
    BY <1>6 DEF LeaveRoomAndDeleteRoomIfEmpty, Delete, RowsKept
  <1> QED
    BY <1>1, <1>2, <1>3, <1>4, <1>5, <1>6

LEMMA NonInterference ==
    ASSUME TypeOK, NEW c \in User, Request(c) \/ Work(c), NEW d \in User \ {c}
    PROVE  RowsKept(d) /\ MemoryKept(d)
  <1>1. RowsKept(d)
    BY CallsKeepRows, FailuresKeepTables, TablesKept
    DEF TypeOK, Request, Work, Accept, GiveUp, HangUp, Leave, Register, Create, Join,
        OpenSession, CreateMem, JoinMem, Select, HandOver, LeaveTx, LeaveMem,
        Teardown, Purge
  <1>2. pc'[d] = pc[d] /\ user'[d] = user[d] /\ job'[d] = job[d]
    BY DEF TypeOK, Request, Work, Accept, GiveUp, HangUp, Leave, Register, Create, Join,
        OpenSession, CreateMem, JoinMem, Select, HandOver, LeaveTx, LeaveMem,
        Teardown, Purge, Goto, Take
  <1>3. /\ d \in DOMAIN sess <=> d \in DOMAIN sess'
        /\ d \in DOMAIN sess => sess'[d] = sess[d]
    BY DEF TypeOK, Request, Work, Accept, GiveUp, HangUp, Leave, Register, Create, Join,
        OpenSession, CreateMem, JoinMem, Select, HandOver, LeaveTx, LeaveMem,
        Teardown, Purge, SetRoom, Put, Delete
  <1> QED
    BY <1>1, <1>2, <1>3 DEF MemoryKept
(* What is not a step of a goroutine changes only the clock.               *)
Quiet == UNCHANGED <<users, rooms, participants, issued, faults, locked, pc, user, sess, job>>

LEMMA StepKinds ==
    ASSUME [Next]_vars
    PROVE  Quiet \/ \E c \in User : Request(c) \/ Work(c)
  BY DEF Next, Clock, Tick, vars, dbVars, Quiet

----------------------------------------------------------------------------
(* Sessions.                                                               *)

LEMMA SessionsStep ==
    ASSUME TypeOK, SessionsInv, [Next]_vars
    PROVE  SessionsInv'
  <1>1. CASE Quiet
    BY <1>1 DEF Quiet, SessionsInv, HasSession, Departing
  <1>2. ASSUME NEW c \in User, Request(c) \/ Work(c) PROVE SessionsInv'
    <2>1. /\ HasSession(c)' => c \in DOMAIN sess'
          /\ c \in DOMAIN sess' => HasSession(c)' \/ pc'[c] = "teardown"
      BY <1>2 DEF TypeOK, SessionsInv, HasSession, Departing, Request, Work, Accept,
          GiveUp, HangUp, Leave, Heir, Register, Create, Join, OpenSession, CreateMem,
          JoinMem, Select, HandOver, LeaveTx, AfterLeave, LeaveMem, Teardown, RoomOf,
          Purge, Goto, Take, SetRoom, Put, Delete
    <2>2. ASSUME NEW d \in User \ {c}
          PROVE  /\ HasSession(d)' => d \in DOMAIN sess'
                 /\ d \in DOMAIN sess' => HasSession(d)' \/ pc'[d] = "teardown"
      BY <1>2, NonInterference DEF MemoryKept, SessionsInv, HasSession, Departing
    <2>3. DOMAIN sess' \subseteq User
      BY NextType DEF TypeOK
    <2> QED
      BY <2>1, <2>2, <2>3 DEF SessionsInv
  <1> QED
    BY <1>1, <1>2, StepKinds

----------------------------------------------------------------------------
(* Names.                                                                  *)

(* All calls but CreateUser and DeleteUser keep the keys and the names.    *)
NamesKept ==
    /\ DOMAIN users' = DOMAIN users
    /\ \A w \in DOMAIN users : users'[w].name = users[w].name

LEMMA CallsKeepNames ==
    ASSUME StorageTypeOK, NEW u
    PROVE  /\ UNCHANGED users => NamesKept
           /\ UNCHANGED dbVars \/ WriteFails \/ StatementFails \/ PromoteLeaks => NamesKept
           /\ \A v : Promote(u, v) => NamesKept
           /\ \A r, n, p : CreateAndJoinRoom(u, r, n, p) => NamesKept
           /\ \A r, n, p, h : JoinRoom(u, n, p, r, h) => NamesKept
           /\ \A r : LeaveRoomAndDeleteRoomIfEmpty(u, r) => NamesKept
  <1>1. UNCHANGED users => NamesKept
    BY DEF NamesKept
  <1>2. ASSUME NEW v, Promote(u, v) PROVE NamesKept
    BY <1>2 DEF Promote, StorageTypeOK, UserRow, NamesKept
  <1>3. ASSUME NEW r, NEW o, users' = MoveUser(u, r, o) PROVE NamesKept
    BY <1>3 DEF MoveUser, StorageTypeOK, UserRow, NamesKept
  <1> QED
    BY <1>1, <1>2, <1>3, FailuresKeepTables
    DEF CreateAndJoinRoom, JoinRoom, LeaveRoomAndDeleteRoomIfEmpty, tables

LEMMA NamesStep ==
    ASSUME TypeOK, SessionsInv, NamesInv, [Next]_vars
    PROVE  NamesInv'
  <1>1. CASE Quiet
    BY <1>1 DEF Quiet, NamesInv, Registered, HasSession, Departing
  <1>2. ASSUME NEW c \in User, Request(c) \/ Work(c) PROVE NamesInv'
    <2>a. /\ TypeOK'
          /\ DOMAIN users \subseteq User /\ users \in [DOMAIN users -> UserRow]
          /\ DOMAIN users' \subseteq User /\ DOMAIN sess' \subseteq User
      BY NextType DEF TypeOK, StorageTypeOK
    <2>b. ASSUME NEW d \in User \ {c}
          PROVE  /\ Registered(d)' => d \in DOMAIN users' /\ users'[d].name = user'[d].name
                 /\ d \in DOMAIN sess' => sess'[d].name = user'[d].name
      BY <1>2, <2>b, NonInterference
      DEF RowsKept, MemoryKept, NamesInv, Registered, HasSession, Departing
    <2>c. ASSUME NEW d \in DOMAIN users' \ {c}, NEW e \in DOMAIN users' \ {c},
                 users'[d].name = users'[e].name
          PROVE  d = e
      <3>1. d \in User \ {c} /\ e \in User \ {c}
        BY <2>a
      <3> QED
        BY <1>2, <2>c, <3>1, NonInterference DEF RowsKept, NamesInv
    <2>1. ASSUME NEW n \in UserName, Register(c, n) PROVE NamesInv'
      <3>1. c \notin DOMAIN sess' /\ pc'[c] \in {"enlist", "teardown"}
        BY <2>1 DEF TypeOK, SessionsInv, HasSession, Departing, Register, Goto
      <3>2. user'[c].name = n
        BY <2>1 DEF Register, TypeOK, Local
      <3>3. CASE CreateUser(c, n)
        <4>1. c \in DOMAIN users' /\ users'[c].name = n
          BY <3>3 DEF CreateUser, Put
        <4>2. \A d \in DOMAIN users' \ {c} : users'[d].name # n
          BY <3>3 DEF CreateUser, NameFree, Put
        <4> QED
          BY <2>a, <2>b, <2>c, <3>1, <3>2, <4>1, <4>2
          DEF NamesInv, Registered, HasSession, Departing
      <3>4. CASE ~CreateUser(c, n)
        <4>1. UNCHANGED users /\ pc'[c] = "teardown"
          BY <2>1, <3>4, FailuresKeepTables DEF Register, Goto, TypeOK, tables
        <4> QED
          BY <2>a, <2>b, <3>1, <4>1 DEF NamesInv, Registered, HasSession, Departing
      <3> QED
        BY <3>3, <3>4
    <2>2. CASE Purge(c)
      <3>1. c \notin DOMAIN sess' /\ pc'[c] = "closed"
        BY <2>2 DEF TypeOK, SessionsInv, HasSession, Departing, Purge, Goto
      <3>2. \A d \in DOMAIN users' : d \in DOMAIN users /\ users'[d] = users[d]
        BY <2>2, FailuresKeepTables DEF Purge, DeleteUser, Delete, tables
      <3> QED
        BY <2>a, <2>b, <3>1, <3>2 DEF NamesInv, Registered, HasSession, Departing
    <2>3. CASE ~Purge(c) /\ \A n \in UserName : ~Register(c, n)
      <3>1. NamesKept
        BY <1>2, <2>3, CallsKeepNames
        DEF TypeOK, Request, Work, Accept, GiveUp, HangUp, Leave, Create, Join,
          OpenSession, CreateMem, JoinMem, Select, HandOver, LeaveTx, LeaveMem, Teardown,
          dbVars
      <3>2. user'[c].name = user[c].name
        <4>1. CASE CreateMem(c)
          BY <4>1 DEF TypeOK, Local, CreateMem
        <4>2. CASE JoinMem(c)
          BY <4>2 DEF TypeOK, Local, JoinMem
        <4>3. CASE LeaveMem(c)
          BY <4>3 DEF TypeOK, Local, LeaveMem
        <4>4. CASE UNCHANGED user
          BY <4>4
        <4> QED
          BY <1>2, <2>3, <4>1, <4>2, <4>3, <4>4
          DEF Request, Work, Accept, GiveUp, HangUp, Leave, Create, Join,
            OpenSession, Select, HandOver, LeaveTx, Teardown
      <3>3. c \in DOMAIN sess' => sess'[c].name = user[c].name
        <4>0. CASE OpenSession(c)
          <5>1. sess'[c] = [name |-> user[c].name, room |-> NoRoom]
            BY <4>0 DEF OpenSession, Put
          <5> QED
            BY <5>1
        <4>1. CASE JoinMem(c)
          <5>1. sess'[c] = [name |-> user[c].name, room |-> job[c].room]
            BY <4>1 DEF JoinMem, Put
          <5> QED
            BY <5>1
        <4>2. CASE CreateMem(c) \/ LeaveMem(c)
          <5>1. PICK r : sess' = SetRoom(c, r)
            BY <4>2 DEF CreateMem, LeaveMem
          <5>2. ASSUME c \in DOMAIN sess PROVE sess[c].name = user[c].name /\ sess[c] \in Session
            BY <5>2 DEF TypeOK, NamesInv
          <5> QED
            BY <5>1, <5>2 DEF SetRoom, Session
        <4>3. CASE UNCHANGED sess \/ c \notin DOMAIN sess'
          BY <4>3 DEF NamesInv
        <4> QED
          BY <1>2, <2>3, <4>0, <4>1, <4>2, <4>3
          DEF Request, Work, Accept, GiveUp, HangUp, Leave, Create, Join, Select,
            HandOver, LeaveTx, Teardown, Delete
      <3>4. Registered(c)' => Registered(c)
        BY <1>2, <2>3 DEF TypeOK, SessionsInv, Registered, HasSession, Departing, Request,
          Work, Accept, GiveUp, HangUp, Leave, Heir, Create, Join, OpenSession, CreateMem,
          JoinMem, Select, HandOver, LeaveTx, AfterLeave, LeaveMem, Teardown, RoomOf,
          Goto, Take, SetRoom, Put, Delete
      <3> QED
        BY <2>a, <2>b, <3>1, <3>2, <3>3, <3>4 DEF NamesKept, NamesInv
    <2> QED
      BY <1>2, <2>1, <2>2, <2>3
  <1> QED
    BY <1>1, <1>2, StepKinds
----------------------------------------------------------------------------
(* Routing.                                                                *)

LEMMA RoutingStep ==
    ASSUME TypeOK, SessionsInv, RoutingInv, [Next]_vars
    PROVE  RoutingInv'
  <1>1. CASE Quiet
    BY <1>1 DEF Quiet, RoutingInv
  <1>2. ASSUME NEW c \in User, Request(c) \/ Work(c) PROVE RoutingInv'
    <2> DEFINE Entered(d) == pc[d] \in {"created", "joined"} =>
                                d \in DOMAIN participants /\ participants[d] = job[d].room
               Routed(d) == d \in DOMAIN sess /\ sess[d].room # NoRoom /\ pc[d] # "left" =>
                                d \in DOMAIN participants /\ participants[d] = sess[d].room
    <2>a. TypeOK' /\ DOMAIN sess' \subseteq User
      BY NextType DEF TypeOK
    <2>b. ASSUME NEW d \in User \ {c} PROVE Entered(d)' /\ Routed(d)'
      BY <1>2, <2>b, NonInterference DEF RowsKept, MemoryKept, RoutingInv
    <2>c. Entered(c) /\ Routed(c)
      BY DEF RoutingInv
    <2> SUFFICES Entered(c)' /\ Routed(c)'
      BY <2>a, <2>b DEF RoutingInv
    <2>d. (c \in DOMAIN sess => sess[c] \in Session) /\ job[c] \in Job
      BY DEF TypeOK
    <2>1. ASSUME NEW r \in Room, NEW n, NEW p, NEW h, Create(c, r, n, p) \/ Join(c, n, p, r, h)
          PROVE  Entered(c)' /\ Routed(c)'
      <3>1. /\ c \notin DOMAIN participants /\ UNCHANGED sess /\ pc[c] = "loop"
            /\ participants' = Put(participants, c, r)
            /\ Take(c, r, h, FALSE) \/ Take(c, r, NoUser, FALSE)
        BY <2>1 DEF Create, Join, CreateAndJoinRoom, JoinRoom, Goto
      <3>2. c \in DOMAIN participants' /\ participants'[c] = r /\ job'[c].room = r
        <4>1. c \in DOMAIN participants' /\ participants'[c] = r
          BY <3>1 DEF Put
        <4>2. job'[c].room = r
          BY <3>1 DEF Take, TypeOK
        <4> QED
          BY <4>1, <4>2
      <3>3. c \in DOMAIN sess' => sess'[c].room = NoRoom
        BY <2>c, <3>1
      <3> QED
        BY <3>2, <3>3
    <2>2. CASE CreateMem(c)
      <3>1. /\ UNCHANGED participants
            /\ pc[c] = "created" /\ pc'[c] = "loop"
            /\ c \in DOMAIN sess' => sess'[c].room = job[c].room
        BY <2>2, <2>d DEF CreateMem, Goto, SetRoom, TypeOK, Session, dbVars
      <3> QED
        BY <2>c, <3>1
    <2>3. CASE JoinMem(c)
      <3>1. /\ UNCHANGED participants
            /\ pc[c] = "joined" /\ pc'[c] = "loop"
            /\ sess'[c] = [name |-> user[c].name, room |-> job[c].room]
        BY <2>3 DEF JoinMem, Goto, Put, TypeOK, dbVars
      <3> QED
        BY <2>c, <3>1
    <2>4. CASE LeaveTx(c)
      <3>1. UNCHANGED <<sess, job>> /\ pc[c] = "leave"
            /\ pc'[c] = IF job[c].exit THEN "purge" ELSE "left"
        BY <2>4 DEF LeaveTx, AfterLeave, Goto, TypeOK
      <3>2. job[c].exit => c \notin DOMAIN sess
        BY <3>1 DEF SessionsInv, HasSession, Departing
      <3> QED
        BY <3>1, <3>2
    <2>5. CASE Purge(c)
      <3>1. c \notin DOMAIN sess' /\ pc'[c] = "closed"
        BY <2>5 DEF TypeOK, SessionsInv, HasSession, Departing, Purge, Goto
      <3> QED
        BY <3>1
    <2>6. CASE OpenSession(c)
      <3>1. sess'[c] = [name |-> user[c].name, room |-> NoRoom] /\ pc'[c] = "loop"
        BY <2>6 DEF OpenSession, Put, Goto, TypeOK
      <3> QED
        BY <3>1
    <2>7. CASE LeaveMem(c)
      <3>1. (c \in DOMAIN sess' => sess'[c].room = NoRoom) /\ pc'[c] = "loop"
        BY <2>7, <2>d DEF LeaveMem, SetRoom, Goto, TypeOK, Session
      <3> QED
        BY <3>1
    <2>8. ASSUME NEW n, Register(c, n) PROVE Entered(c)' /\ Routed(c)'
      <3>1. c \notin DOMAIN sess' /\ pc'[c] \in {"enlist", "teardown"}
        BY <2>8 DEF TypeOK, SessionsInv, HasSession, Departing, Register, Goto
      <3> QED
        BY <3>1
    <2>9. CASE Accept(c) \/ GiveUp(c) \/ HangUp(c) \/ Leave(c) \/ Select(c)
               \/ HandOver(c) \/ Teardown(c)
      <3>1. UNCHANGED participants
        BY <2>9, FailuresKeepTables DEF Accept, GiveUp, HangUp, Leave, Select, HandOver,
          Promote, Teardown, tables, dbVars
      <3>2. UNCHANGED sess \/ c \notin DOMAIN sess'
        BY <2>9 DEF Accept, GiveUp, HangUp, Leave, Select, HandOver, Teardown, Delete
      <3>3. pc'[c] \notin {"created", "joined", "left"} /\ pc[c] # "left"
        BY <2>9 DEF Accept, GiveUp, HangUp, Leave, Heir, Select, HandOver, Teardown,
          Goto, TypeOK
      <3> QED
        BY <2>c, <3>1, <3>2, <3>3
    <2> QED
      BY <1>2, <2>1, <2>2, <2>3, <2>4, <2>5, <2>6, <2>7, <2>8, <2>9 DEF Request, Work
  <1> QED
    BY <1>1, <1>2, StepKinds
----------------------------------------------------------------------------
(* Ownership.                                                              *)

LEMMA OwnerStep ==
    ASSUME TypeOK, SessionsInv, NamesInv, OwnerInv, [Next]_vars
    PROVE  OwnerInv'
  <1>1. CASE Quiet
    BY <1>1 DEF Quiet, OwnerInv
  <1>2. ASSUME NEW c \in User, Request(c) \/ Work(c) PROVE OwnerInv'
    <2> DEFINE Plain(d) == pc[d] \in {"absent", "register", "enlist", "joined"}
                              => ~user[d].owner
               Founding(d) == pc[d] = "created" =>
                                 /\ d \in DOMAIN participants
                                 /\ users[d].owner /\ users[d].room = job[d].room
               Hosting(d) == pc[d] = "loop" /\ user[d].owner =>
                                 /\ d \in DOMAIN participants
                                 /\ users[d].owner /\ users[d].room = user[d].room
    <2>a. \A d \in User : pc[d] \in {"created", "loop"} => d \in DOMAIN users
      BY DEF NamesInv, Registered, HasSession
    <2>b. ASSUME NEW d \in User \ {c} PROVE Plain(d)' /\ Founding(d)' /\ Hosting(d)'
      BY <1>2, <2>a, <2>b, NonInterference DEF RowsKept, MemoryKept, OwnerInv
    <2>c. Plain(c) /\ Founding(c) /\ Hosting(c)
      BY DEF OwnerInv
    <2>d. /\ user[c] \in Local /\ job[c] \in Job
          /\ c \in DOMAIN users => users[c] \in UserRow
      BY DEF TypeOK, StorageTypeOK
    <2> SUFFICES Plain(c)' /\ Founding(c)' /\ Hosting(c)'
      BY <2>b DEF OwnerInv
    <2>1. CASE Accept(c)
      BY <2>1, <2>c DEF Accept, Goto, TypeOK
    <2>2. ASSUME NEW n, Register(c, n) PROVE Plain(c)' /\ Founding(c)' /\ Hosting(c)'
      <3>1. /\ pc[c] = "register" /\ pc'[c] \in {"enlist", "teardown"}
            /\ user'[c].owner = user[c].owner
        BY <2>2, <2>d DEF Register, Goto, TypeOK, Local
      <3> QED
        BY <2>c, <3>1
    <2>3. CASE OpenSession(c)
      BY <2>3, <2>c DEF OpenSession, Goto, TypeOK
    <2>4. ASSUME NEW r \in Room, NEW n, NEW p, Create(c, r, n, p)
          PROVE  Plain(c)' /\ Founding(c)' /\ Hosting(c)'
      <3>1. /\ pc[c] = "loop" /\ pc'[c] = "created"
            /\ participants' = Put(participants, c, r)
            /\ users' = MoveUser(c, r, TRUE)
        BY <2>4 DEF Create, CreateAndJoinRoom, Goto, TypeOK
      <3>2. c \in DOMAIN participants'
        BY <3>1 DEF Put
      <3>3. users'[c].owner = TRUE /\ users'[c].room = r
        BY <2>a, <2>d, <3>1 DEF MoveUser, UserRow
      <3>4. job'[c].room = r
        BY <2>4 DEF Create, Take, TypeOK
      <3> QED
        BY <3>1, <3>2, <3>3, <3>4
    <2>5. CASE CreateMem(c)
      <3>1. /\ pc[c] = "created" /\ pc'[c] = "loop" /\ UNCHANGED <<users, participants>>
            /\ user'[c].room = job[c].room
        BY <2>5, <2>d DEF CreateMem, Goto, TypeOK, Local, dbVars
      <3> QED
        BY <2>c, <3>1
    <2>6. ASSUME NEW r \in Room, NEW n, NEW p, NEW h, Join(c, n, p, r, h)
          PROVE  Plain(c)' /\ Founding(c)' /\ Hosting(c)'
      <3>1. /\ pc[c] = "loop" /\ pc'[c] = "joined" /\ UNCHANGED user
            /\ c \notin DOMAIN participants
        BY <2>6 DEF Join, JoinRoom, Goto, TypeOK
      <3> QED
        BY <2>c, <3>1
    <2>7. CASE JoinMem(c)
      <3>1. /\ pc[c] = "joined" /\ pc'[c] = "loop" /\ user'[c].owner = user[c].owner
        BY <2>7, <2>d DEF JoinMem, Goto, TypeOK, Local
      <3> QED
        BY <2>c, <3>1
    <2>8. CASE LeaveMem(c)
      <3>1. pc'[c] = "loop" /\ user'[c].owner = FALSE
        BY <2>8, <2>d DEF LeaveMem, Goto, TypeOK, Local
      <3> QED
        BY <3>1
    <2>9. CASE GiveUp(c) \/ HangUp(c) \/ Leave(c) \/ Select(c) \/ HandOver(c)
               \/ LeaveTx(c) \/ Teardown(c) \/ Purge(c)
      <3>1. pc'[c] \notin {"absent", "register", "enlist", "joined", "created", "loop"}
        BY <2>9 DEF GiveUp, HangUp, Leave, Heir, Select, HandOver, LeaveTx, AfterLeave,
          Teardown, Purge, Goto, TypeOK
      <3> QED
        BY <3>1
    <2> QED
      BY <1>2, <2>1, <2>2, <2>3, <2>4, <2>5, <2>6, <2>7, <2>8, <2>9 DEF Request, Work
  <1> QED
    BY <1>1, <1>2, StepKinds

----------------------------------------------------------------------------
(* Capacity.                                                               *)

LEMMA OccupantsFinite ==
    ASSUME StorageTypeOK, NEW r
    PROVE  IsFiniteSet(Occupants(r)) /\ Cardinality(Occupants(r)) \in Nat
  <1>1. Occupants(r) \subseteq User
    BY DEF Occupants, StorageTypeOK
  <1>2. IsFiniteSet(Occupants(r))
    BY <1>1, UserAssumption, FS_Subset
  <1> QED
    BY <1>2, FS_CardinalityType

(* A room that only loses people stays within its capacity.                *)
LEMMA FewerOccupants ==
    ASSUME StorageTypeOK, CapacityInv, DOMAIN rooms' \subseteq DOMAIN rooms, UNCHANGED issued,
           DOMAIN participants' \subseteq DOMAIN participants,
           \A u \in DOMAIN participants' : participants'[u] = participants[u]
    PROVE  CapacityInv'
  <1>1. ASSUME NEW r \in Room PROVE Cardinality(Occupants(r)') <= MaxUsers
    <2>1. Occupants(r)' \subseteq Occupants(r)
      BY DEF Occupants
    <2>2. /\ Cardinality(Occupants(r)') <= Cardinality(Occupants(r))
          /\ IsFiniteSet(Occupants(r)')
      BY <2>1, OccupantsFinite, FS_Subset
    <2>3. Cardinality(Occupants(r)') \in Nat
      BY <2>2, FS_CardinalityType
    <2> QED
      BY <2>2, <2>3, OccupantsFinite, BoundAssumption DEF CapacityInv, CapacityRespected
  <1> QED
    BY <1>1 DEF CapacityInv, CapacityRespected

(* A room that somebody enters had space, or nobody in it.                 *)
LEMMA OneMoreOccupant ==
    ASSUME StorageTypeOK, CapacityInv, NEW u \in User, u \notin DOMAIN participants,
           NEW r \in Room, Cardinality(Occupants(r)) < MaxUsers,
           participants' = Put(participants, u, r)
    PROVE  /\ CapacityRespected'
           /\ \A v \in DOMAIN participants' :
                 participants'[v] = r \/ \E w \in DOMAIN participants : participants'[v] = participants[w]
  <1>1. /\ Occupants(r)' = Occupants(r) \cup {u}
        /\ u \notin Occupants(r)
        /\ \A q \in Room \ {r} : Occupants(q)' = Occupants(q)
    BY DEF Occupants, Put
  <1>2. Cardinality(Occupants(r)') = Cardinality(Occupants(r)) + 1
    BY <1>1, OccupantsFinite, FS_AddElement
  <1>3. ASSUME NEW q \in Room PROVE Cardinality(Occupants(q)') <= MaxUsers
    <2>1. CASE q = r
      BY <2>1, <1>2, OccupantsFinite, BoundAssumption
    <2>2. CASE q # r
      BY <2>2, <1>1 DEF CapacityInv, CapacityRespected
    <2> QED
      BY <2>1, <2>2
  <1>4. \A v \in DOMAIN participants' :
           participants'[v] = r \/ \E w \in DOMAIN participants : participants'[v] = participants[w]
    BY DEF Put
  <1> QED
    BY <1>3, <1>4 DEF CapacityRespected

LEMMA CapacityStep ==
    ASSUME TypeOK, CapacityInv, [Next]_vars
    PROVE  CapacityInv'
  <1>a. StorageTypeOK
    BY DEF TypeOK
  <1>b. ASSUME UNCHANGED <<rooms, participants, issued>> PROVE CapacityInv'
    BY <1>b DEF CapacityInv, CapacityRespected, Occupants
  <1>1. CASE Quiet
    BY <1>1, <1>b DEF Quiet
  <1>2. ASSUME NEW c \in User, Request(c) \/ Work(c) PROVE CapacityInv'
    <2>1. ASSUME NEW r \in Room, NEW n, NEW p, Create(c, r, n, p) PROVE CapacityInv'
      <3>1. /\ r \notin issued /\ c \notin DOMAIN participants
            /\ participants' = Put(participants, c, r)
            /\ DOMAIN rooms' = DOMAIN rooms \cup {r} /\ issued' = issued \cup {r}
        BY <2>1, PutFacts DEF Create, CreateAndJoinRoom
      <3>2. Occupants(r) = {}
        BY <3>1 DEF Occupants, CapacityInv
      <3>3. Cardinality(Occupants(r)) < MaxUsers
        BY <3>2, FS_EmptySet, BoundAssumption
      <3> QED
        BY <1>a, <3>1, <3>3, OneMoreOccupant DEF CapacityInv
    <2>2. ASSUME NEW r \in Room, NEW n, NEW p, NEW h, Join(c, n, p, r, h) PROVE CapacityInv'
      <3>1. /\ r \in DOMAIN rooms /\ c \notin DOMAIN participants
            /\ participants' = Put(participants, c, r)
            /\ UNCHANGED <<rooms, issued>>
            /\ Cardinality(Occupants(r)) < MaxUsers
        BY <2>2 DEF Join, JoinRoom, HasSpace
      <3> QED
        BY <1>a, <3>1, OneMoreOccupant DEF CapacityInv
    <2>3. CASE LeaveTx(c)
      <3>1. CASE LeaveRoomAndDeleteRoomIfEmpty(c, job[c].room)
        BY <3>1, <1>a, FewerOccupants
        DEF LeaveRoomAndDeleteRoomIfEmpty, RoomsAfterLeave, Delete
      <3>2. CASE WriteFails
        BY <3>2, <1>b DEF WriteFails, StatementFails, dbVars
      <3> QED
        BY <2>3, <3>1, <3>2 DEF LeaveTx
    <2>4. CASE Purge(c)
      <3>1. CASE DeleteUser(c)
        BY <3>1, <1>a, FewerOccupants DEF DeleteUser, Delete
      <3>2. CASE WriteFails
        BY <3>2, <1>b DEF WriteFails, StatementFails, dbVars
      <3> QED
        BY <2>4, <3>1, <3>2 DEF Purge
    <2>5. ASSUME NEW n, Register(c, n) PROVE CapacityInv'
      BY <2>5, <1>b DEF Register, CreateUser, WriteFails, StatementFails, dbVars
    <2>6. CASE \/ Accept(c) \/ GiveUp(c) \/ HangUp(c) \/ Leave(c) \/ OpenSession(c)
               \/ CreateMem(c) \/ JoinMem(c) \/ LeaveMem(c) \/ Teardown(c)
      BY <2>6, <1>b DEF Accept, GiveUp, HangUp, Leave, OpenSession, CreateMem, JoinMem,
        LeaveMem, Teardown, dbVars
    <2>7. CASE Select(c) \/ HandOver(c)
      BY <2>7, <1>b DEF Select, HandOver, Promote, WriteFails, StatementFails,
        PromoteLeaks, dbVars
    <2> QED
      BY <1>2, <2>1, <2>2, <2>3, <2>4, <2>5, <2>6, <2>7 DEF Request, Work
  <1> QED
    BY <1>1, <1>2, StepKinds
----------------------------------------------------------------------------
(* Before anything has failed.                                             *)

(* A step counts at most one failure, and the lock is taken by a leak only.*)
LEMMA FailuresCounted ==
    ASSUME [Next]_vars
    PROVE  /\ faults' = faults \/ (faults < MaxFaults /\ faults' = faults + 1)
           /\ UNCHANGED locked \/ PromoteLeaks
  <1> DEFINE Counted == /\ faults' = faults \/ (faults < MaxFaults /\ faults' = faults + 1)
                        /\ UNCHANGED locked \/ PromoteLeaks
  <1>1. UNCHANGED dbVars \/ WriteFails \/ StatementFails \/ PromoteLeaks \/ Tick => Counted
    BY DEF dbVars, WriteFails, StatementFails, PromoteLeaks, Tick
  <1>2. ASSUME NEW c \in User, Request(c) PROVE Counted
    <2>1. ASSUME NEW n, Register(c, n) PROVE Counted
      BY <1>1, <2>1 DEF Register, CreateUser
    <2>2. ASSUME NEW r, NEW n, NEW p, Create(c, r, n, p) PROVE Counted
      BY <2>2 DEF Create, CreateAndJoinRoom
    <2>3. ASSUME NEW r, NEW n, NEW p, NEW h, Join(c, n, p, r, h) PROVE Counted
      BY <2>3 DEF Join, JoinRoom, LookUpHost
    <2> QED
      BY <1>1, <1>2, <2>1, <2>2, <2>3 DEF Request, Accept, GiveUp, HangUp, Leave
  <1>3. ASSUME NEW c \in User, Work(c) PROVE Counted
    <2>1. DeleteUser(c) => Counted
      BY DEF DeleteUser
    <2>2. \A v : Promote(c, v) => Counted
      BY DEF Promote
    <2>3. \A r : LeaveRoomAndDeleteRoomIfEmpty(c, r) => Counted
      BY DEF LeaveRoomAndDeleteRoomIfEmpty
    <2> QED
      BY <1>1, <1>3, <2>1, <2>2, <2>3 DEF Work, OpenSession, CreateMem, JoinMem, Select,
        HandOver, LeaveTx, LeaveMem, Teardown, Purge
  <1> QED
    BY <1>1, <1>2, <1>3 DEF Next, Clock, vars, dbVars

LEMMA NoFailureNow ==
    ASSUME TypeOK, NoFailureInv, [Next]_vars, faults' = 0
    PROVE  /\ faults = 0 /\ ~locked
           /\ ~StatementFails /\ ~WriteFails /\ ~PromoteLeaks
  <1>a. faults \in Nat
    BY DEF TypeOK, StorageTypeOK
  <1>1. ASSUME StatementFails \/ PromoteLeaks PROVE FALSE
    BY <1>a, <1>1 DEF StatementFails, PromoteLeaks
  <1>2. faults' = faults \/ faults' = faults + 1
    BY FailuresCounted
  <1>3. faults = 0
    BY <1>a, <1>2
  <1>4. ~locked
    BY <1>3 DEF NoFailureInv
  <1> QED
    BY <1>1, <1>3, <1>4 DEF WriteFails

LEMMA LockedStep ==
    ASSUME TypeOK, NoFailureInv, [Next]_vars, locked'
    PROVE  faults' # 0
  <1> SUFFICES ASSUME faults' = 0 PROVE FALSE
    OBVIOUS
  <1>1. ~locked /\ ~PromoteLeaks /\ ~StatementFails /\ ~WriteFails
    BY NoFailureNow
  <1>2. UNCHANGED locked
    BY <1>1, FailuresCounted
  <1> QED
    BY <1>1, <1>2

(* Each room row goes with its last participant, and with nobody else.     *)
LEMMA RoomsStep ==
    ASSUME TypeOK, NoFailureInv, [Next]_vars, faults' = 0
    PROVE  RoomsSelfDestruct'
  <1>a. /\ DOMAIN rooms = {participants[u] : u \in DOMAIN participants}
        /\ \A c \in User : PlaceInv(c)
    BY NoFailureNow DEF NoFailureInv, RoomsSelfDestruct
  <1>b. ASSUME UNCHANGED <<rooms, participants>> PROVE RoomsSelfDestruct'
    BY <1>a, <1>b DEF RoomsSelfDestruct
  <1>1. CASE Quiet
    BY <1>1, <1>b DEF Quiet
  <1>2. ASSUME NEW c \in User, Request(c) \/ Work(c) PROVE RoomsSelfDestruct'
    <2>1. ASSUME NEW r \in Room, c \notin DOMAIN participants,
                 participants' = Put(participants, c, r),
                 DOMAIN rooms' = DOMAIN rooms \cup {r}
          PROVE  RoomsSelfDestruct'
      <3>1. {participants'[u] : u \in DOMAIN participants'}
               = {participants[u] : u \in DOMAIN participants} \cup {r}
        BY <2>1 DEF Put
      <3> QED
        BY <1>a, <2>1, <3>1 DEF RoomsSelfDestruct
    <2>2. ASSUME NEW r \in Room, NEW n, NEW p, Create(c, r, n, p) PROVE RoomsSelfDestruct'
      <3>1. DOMAIN rooms' = DOMAIN rooms \cup {r}
        BY <2>2 DEF Create, CreateAndJoinRoom, Put
      <3> QED
        BY <2>1, <2>2, <3>1 DEF Create, CreateAndJoinRoom
    <2>3. ASSUME NEW r \in Room, NEW n, NEW p, NEW h, Join(c, n, p, r, h)
          PROVE  RoomsSelfDestruct'
      BY <2>1, <2>3 DEF Join, JoinRoom
    <2>4. CASE LeaveTx(c)
      <3>1. LeaveRoomAndDeleteRoomIfEmpty(c, job[c].room) /\ pc[c] = "leave"
        BY <2>4, NoFailureNow DEF LeaveTx, Goto
      <3>2. c \in DOMAIN participants /\ participants[c] = job[c].room
        BY <1>a, <3>1 DEF PlaceInv
      <3>3. participants' = Delete(participants, c)
        BY <3>1, <3>2 DEF LeaveRoomAndDeleteRoomIfEmpty, Occupants
      <3>4. {participants'[u] : u \in DOMAIN participants'}
               = {participants[u] : u \in DOMAIN participants \ {c}}
        BY <3>3 DEF Delete
      <3>5. CASE Occupants(job[c].room) \ {c} = {}
        <4>1. DOMAIN rooms' = DOMAIN rooms \ {job[c].room}
          BY <3>1, <3>5 DEF LeaveRoomAndDeleteRoomIfEmpty, RoomsAfterLeave, Delete
        <4>2. \A u \in DOMAIN participants \ {c} : participants[u] # job[c].room
          BY <3>5 DEF Occupants
        <4>3. {participants[u] : u \in DOMAIN participants}
                 = {participants[u] : u \in DOMAIN participants \ {c}} \cup {job[c].room}
          BY <3>2
        <4> QED
          BY <1>a, <3>4, <4>1, <4>2, <4>3 DEF RoomsSelfDestruct
      <3>6. CASE Occupants(job[c].room) \ {c} # {}
        <4>1. rooms' = rooms
          BY <3>1, <3>6 DEF LeaveRoomAndDeleteRoomIfEmpty, RoomsAfterLeave
        <4>2. \E u \in DOMAIN participants \ {c} : participants[u] = job[c].room
          BY <3>6 DEF Occupants
        <4> QED
          BY <1>a, <3>2, <3>4, <4>1, <4>2 DEF RoomsSelfDestruct
      <3> QED
        BY <3>5, <3>6
    <2>5. CASE Purge(c)
      <3>1. DeleteUser(c) /\ c \notin DOMAIN participants
        BY <1>a, <2>5, NoFailureNow DEF Purge, PlaceInv, Goto
      <3>2. {participants'[u] : u \in DOMAIN participants'}
               = {participants[u] : u \in DOMAIN participants}
        BY <3>1 DEF DeleteUser, Delete
      <3> QED
        BY <1>a, <3>1, <3>2 DEF DeleteUser, RoomsSelfDestruct
    <2>6. CASE \/ Accept(c) \/ GiveUp(c) \/ HangUp(c) \/ Leave(c) \/ OpenSession(c)
               \/ CreateMem(c) \/ JoinMem(c) \/ LeaveMem(c) \/ Teardown(c)
      BY <2>6, <1>b DEF Accept, GiveUp, HangUp, Leave, OpenSession, CreateMem, JoinMem,
        LeaveMem, Teardown, dbVars
    <2>7. CASE Select(c) \/ HandOver(c)
      BY <2>7, <1>b DEF Select, HandOver, Promote, WriteFails, StatementFails,
        PromoteLeaks, dbVars
    <2>8. ASSUME NEW n, Register(c, n) PROVE RoomsSelfDestruct'
      BY <2>8, <1>b DEF Register, CreateUser, WriteFails, StatementFails, dbVars
    <2> QED
      BY <1>2, <2>2, <2>3, <2>4, <2>5, <2>6, <2>7, <2>8 DEF Request, Work
  <1> QED
    BY <1>1, <1>2, StepKinds
LEMMA PlaceStep ==
    ASSUME TypeOK, SessionsInv, RoutingInv, NoFailureInv, [Next]_vars, faults' = 0,
           NEW d \in User
    PROVE  PlaceInv(d)'
  <1>a. PlaceInv(d) /\ ~WriteFails /\ ~StatementFails /\ ~PromoteLeaks
    BY NoFailureNow DEF NoFailureInv
  <1>1. CASE Quiet
    BY <1>1, <1>a DEF Quiet, PlaceInv
  <1>2. ASSUME NEW c \in User, Request(c) \/ Work(c), c # d PROVE PlaceInv(d)'
    BY <1>2, <1>a, NonInterference
    DEF RowsKept, MemoryKept, PlaceInv, SessionsInv, HasSession
  <1>3. ASSUME Request(d) \/ Work(d) PROVE PlaceInv(d)'
    <2>a. /\ user[d] \in Local /\ job[d] \in Job
          /\ d \in DOMAIN sess => sess[d] \in Session
          /\ d \in DOMAIN participants => participants[d] \in Room
      BY DEF TypeOK, StorageTypeOK
    <2>b. HasSession(d) => d \in DOMAIN sess
      BY DEF SessionsInv
    <2>1. CASE Accept(d)
      BY <2>1, <1>a DEF Accept, PlaceInv, Goto, TypeOK, dbVars
    <2>2. CASE GiveUp(d)
      BY <2>2, <1>a DEF GiveUp, PlaceInv, Goto, TypeOK, dbVars
    <2>3. ASSUME NEW n, Register(d, n) PROVE PlaceInv(d)'
      <3>1. /\ pc[d] = "register" /\ pc'[d] \in {"enlist", "teardown"}
            /\ UNCHANGED participants /\ user'[d].room = user[d].room
        BY <1>a, <2>3, <2>a DEF Register, CreateUser, Goto, TypeOK, Local, dbVars
      <3> QED
        BY <1>a, <3>1 DEF PlaceInv
    <2>4. CASE OpenSession(d)
      <3>1. /\ pc[d] = "enlist" /\ pc'[d] = "loop" /\ UNCHANGED <<participants, user>>
            /\ sess'[d] = [name |-> user[d].name, room |-> NoRoom]
        BY <2>4 DEF OpenSession, Goto, Put, TypeOK, dbVars
      <3> QED
        BY <1>a, <3>1 DEF PlaceInv
    <2>5. ASSUME NEW r \in Room, NEW n, NEW p, NEW h, Create(d, r, n, p) \/ Join(d, n, p, r, h)
          PROVE  PlaceInv(d)'
      <3>1. /\ pc[d] = "loop" /\ pc'[d] \in {"created", "joined"}
            /\ participants' = Put(participants, d, r)
            /\ Take(d, r, h, FALSE) \/ Take(d, r, NoUser, FALSE)
        BY <2>5 DEF Create, Join, CreateAndJoinRoom, JoinRoom, Goto, TypeOK
      <3>2. d \in DOMAIN participants' /\ participants'[d] = r
        BY <3>1 DEF Put
      <3>3. job'[d].room = r
        BY <3>1 DEF Take, TypeOK
      <3> QED
        BY <3>1, <3>2, <3>3 DEF PlaceInv
    <2>6. CASE CreateMem(d)
      <3>1. /\ pc[d] = "created" /\ pc'[d] = "loop" /\ UNCHANGED participants
            /\ user'[d].room = job[d].room
            /\ d \in DOMAIN sess' /\ sess'[d].room = job[d].room
        BY <2>6, <2>a, <2>b DEF CreateMem, Goto, SetRoom, TypeOK, Local, Session, dbVars,
          HasSession
      <3> QED
        BY <1>a, <3>1 DEF PlaceInv
    <2>7. CASE JoinMem(d)
      <3>1. /\ pc[d] = "joined" /\ pc'[d] = "loop" /\ UNCHANGED participants
            /\ user'[d].room = job[d].room
        BY <2>7, <2>a DEF JoinMem, Goto, TypeOK, Local, dbVars
      <3>2. d \in DOMAIN sess' /\ sess'[d] = [name |-> user[d].name, room |-> job[d].room]
        BY <2>7 DEF JoinMem, Put
      <3> QED
        BY <1>a, <3>1, <3>2 DEF PlaceInv
    <2>8. CASE Leave(d)
      <3>1. /\ pc[d] = "loop" /\ pc'[d] \in {"succession", "leave"}
            /\ UNCHANGED <<participants, user, sess>> /\ user[d].room # NoRoom
            /\ job'[d].room = user[d].room
        BY <2>8 DEF Leave, Heir, Goto, Take, TypeOK, dbVars
      <3>2. d \in DOMAIN sess /\ sess[d].room = user[d].room
        BY <1>a, <2>b, <3>1 DEF PlaceInv, HasSession
      <3>3. d \in DOMAIN participants /\ participants[d] = user[d].room
        BY <3>1, <3>2 DEF RoutingInv
      <3> QED
        BY <3>1, <3>3 DEF PlaceInv
    <2>9. CASE HangUp(d)
      BY <2>9, <1>a DEF HangUp, PlaceInv, Goto, TypeOK, dbVars
    <2>10. CASE Teardown(d)
      <3>1. /\ pc[d] = "teardown" /\ UNCHANGED participants
            /\ pc'[d] = IF RoomOf(d) = NoRoom THEN "purge" ELSE "succession"
            /\ job'[d].room = RoomOf(d)
        BY <2>10 DEF Teardown, Goto, Take, TypeOK, dbVars
      <3>2. CASE RoomOf(d) = NoRoom
        <4>1. d \notin DOMAIN participants
          BY <1>a, <2>a, <3>1, <3>2, SentinelAssumption DEF PlaceInv, RoomOf
        <4> QED
          BY <3>1, <3>2, <4>1 DEF PlaceInv
      <3>3. CASE RoomOf(d) # NoRoom
        <4>1. d \in DOMAIN participants /\ participants[d] = RoomOf(d)
          BY <3>1, <3>3 DEF RoutingInv, RoomOf
        <4> QED
          BY <3>1, <3>3, <4>1 DEF PlaceInv
      <3> QED
        BY <3>2, <3>3
    <2>11. CASE Select(d)
      <3>1. /\ pc[d] = "succession" /\ pc'[d] \in {"promote", "leave"}
            /\ UNCHANGED participants /\ job'[d].room = job[d].room
        BY <1>a, <2>11 DEF Select, Goto, Take, TypeOK, dbVars
      <3> QED
        BY <1>a, <3>1 DEF PlaceInv
    <2>12. CASE HandOver(d)
      <3>1. /\ pc[d] = "promote" /\ pc'[d] = "leave"
            /\ UNCHANGED <<participants, job>>
        BY <1>a, <2>12 DEF HandOver, Promote, Goto, TypeOK
      <3> QED
        BY <1>a, <3>1 DEF PlaceInv
    <2>13. CASE LeaveTx(d)
      <3>1. /\ pc[d] = "leave" /\ pc'[d] \in {"purge", "left"}
            /\ LeaveRoomAndDeleteRoomIfEmpty(d, job[d].room)
        BY <1>a, <2>13 DEF LeaveTx, AfterLeave, Goto, TypeOK
      <3>2. d \notin DOMAIN participants'
        BY <1>a, <3>1 DEF LeaveRoomAndDeleteRoomIfEmpty, Occupants, Delete, PlaceInv
      <3> QED
        BY <3>1, <3>2 DEF PlaceInv
    <2>14. CASE LeaveMem(d)
      <3>1. /\ pc[d] = "left" /\ pc'[d] = "loop" /\ UNCHANGED participants
            /\ user'[d].room = NoRoom
            /\ d \in DOMAIN sess' /\ sess'[d].room = NoRoom
        BY <2>14, <2>a, <2>b DEF LeaveMem, Goto, SetRoom, TypeOK, Local, Session, dbVars,
          HasSession
      <3> QED
        BY <1>a, <3>1 DEF PlaceInv
    <2>15. CASE Purge(d)
      <3>1. pc[d] = "purge" /\ pc'[d] = "closed" /\ DeleteUser(d)
        BY <1>a, <2>15 DEF Purge, Goto, TypeOK
      <3>2. d \notin DOMAIN users' /\ d \notin DOMAIN participants'
        BY <1>a, <3>1 DEF DeleteUser, Delete, PlaceInv
      <3> QED
        BY <3>1, <3>2 DEF PlaceInv
    <2> QED
      BY <1>3, <2>1, <2>2, <2>3, <2>4, <2>5, <2>6, <2>7, <2>8, <2>9, <2>10, <2>11, <2>12,
        <2>13, <2>14, <2>15 DEF Request, Work
  <1> QED
    BY <1>1, <1>2, <1>3, StepKinds

LEMMA NoFailureStep ==
    ASSUME TypeOK, SessionsInv, RoutingInv, NoFailureInv, [Next]_vars
    PROVE  NoFailureInv'
  BY LockedStep, RoomsStep, PlaceStep DEF NoFailureInv

----------------------------------------------------------------------------
(* The inductive invariant.                                                *)

LEMMA InitInv == Init => IInv
  <1> SUFFICES ASSUME Init PROVE IInv
    OBVIOUS
  <1>1. TypeOK
    BY InitType
  <1>2. /\ DOMAIN users = {} /\ DOMAIN rooms = {} /\ DOMAIN participants = {}
        /\ DOMAIN sess = {} /\ faults = 0 /\ locked = FALSE
        /\ \A c \in User : /\ pc[c] = "absent" /\ user[c].owner = FALSE
                           /\ user[c].room = NoRoom
    BY EmptyTable DEF Init, StorageInit
  <1>3. SessionsInv /\ NamesInv /\ RoutingInv /\ OwnerInv
    BY <1>2 DEF SessionsInv, NamesInv, Registered, HasSession, Departing, RoutingInv, OwnerInv
  <1>4. CapacityInv
    <2>1. \A r \in Room : Occupants(r) = {}
      BY <1>2 DEF Occupants
    <2>2. Cardinality({}) = 0
      BY FS_EmptySet
    <2>3. 0 <= MaxUsers
      BY BoundAssumption
    <2>4. \A r \in Room : Cardinality(Occupants(r)) = 0
      BY <2>1, <2>2
    <2> QED
      BY <1>2, <2>3, <2>4 DEF CapacityInv, CapacityRespected
  <1>5. NoFailureInv
    BY <1>2 DEF NoFailureInv, RoomsSelfDestruct, PlaceInv
  <1> QED
    BY <1>1, <1>3, <1>4, <1>5 DEF IInv

LEMMA NextInv == IInv /\ [Next]_vars => IInv'
  BY NextType, SessionsStep, NamesStep, RoutingStep, CapacityStep, OwnerStep, NoFailureStep
  DEF IInv

THEOREM Inductive == Spec => []IInv
  BY InitInv, NextInv, PTL DEF Spec

----------------------------------------------------------------------------
(* What it implies.                                                        *)

(* No two sessions ever carry the same name, failures or not.              *)
THEOREM SessionNamesUnique == Spec => []UniqueSessionNames
  <1>1. IInv => UniqueSessionNames
    BY DEF IInv, NamesInv, Registered, UniqueSessionNames, TypeOK
  <1> QED
    BY <1>1, Inductive, PTL

(* A message reaches only participants, but for the window of /leave-room. *)
THEOREM RoutingCorrect == Spec => []RoutedOnlyToMembers
  <1>1. IInv => RoutedOnlyToMembers
    BY DEF IInv, RoutingInv, RoutedOnlyToMembers, Occupants
  <1> QED
    BY <1>1, Inductive, PTL

(* No room is ever over its capacity.                                      *)
THEOREM CapacityCorrect == Spec => []CapacityRespected
  <1>1. IInv => CapacityRespected
    BY DEF IInv, CapacityInv
  <1> QED
    BY <1>1, Inductive, PTL

(* Whoever believes to be the host is the host.                            *)
THEOREM OwnershipCorrect == Spec => []CreatorKeepsOwnership
  <1>1. IInv => CreatorKeepsOwnership
    BY DEF IInv, NamesInv, Registered, HasSession, OwnerInv, CreatorKeepsOwnership
  <1> QED
    BY <1>1, Inductive, PTL

(* As long as nothing fails, the tables are what the goroutines know.      *)
LEMMA AtRest ==
    ASSUME IInv
    PROVE  RoomsSelfDestruct /\ ClosedLeavesNoTrace /\ AtRestTablesMatchMemory
  <1>1. RoomsSelfDestruct
    BY DEF IInv, NoFailureInv, RoomsSelfDestruct
  <1>2. ClosedLeavesNoTrace
    BY DEF IInv, NoFailureInv, PlaceInv, SessionsInv, HasSession, Departing,
      ClosedLeavesNoTrace
  <1>3. ASSUME faults = 0, NEW c \in User, pc[c] = "loop"
        PROVE  /\ c \in DOMAIN users /\ c \in DOMAIN sess
               /\ sess[c].room = user[c].room
               /\ IF c \in DOMAIN participants THEN user[c].room = participants[c]
                                               ELSE user[c].room = NoRoom
    <2>1. c \in DOMAIN users /\ c \in DOMAIN sess
      BY <1>3 DEF IInv, SessionsInv, NamesInv, Registered, HasSession
    <2>2. sess[c].room = user[c].room
      BY <1>3 DEF IInv, NoFailureInv, PlaceInv
    <2>3. c \in DOMAIN participants => participants[c] = sess[c].room
      BY <1>3 DEF IInv, NoFailureInv, PlaceInv
    <2>4. c \notin DOMAIN participants => sess[c].room = NoRoom
      BY <1>3, <2>1 DEF IInv, RoutingInv
    <2> QED
      BY <2>1, <2>2, <2>3, <2>4
  <1>4. AtRestTablesMatchMemory
    BY <1>3 DEF AtRestTablesMatchMemory
  <1> QED
    BY <1>1, <1>2, <1>4

(* Until something fails, rooms are exactly the rooms somebody is in.      *)
THEOREM SelfDestruction == Spec => []RoomsSelfDestruct
  <1>1. IInv => RoomsSelfDestruct
    BY AtRest
  <1> QED
    BY <1>1, Inductive, PTL

(* Until something fails, a closed connection leaves no row.               *)
THEOREM NoTrace == Spec => []ClosedLeavesNoTrace
  <1>1. IInv => ClosedLeavesNoTrace
    BY AtRest
  <1> QED
    BY <1>1, Inductive, PTL

(* Until something fails, tables and memory agree at rest.                 *)
THEOREM Agreement == Spec => []AtRestTablesMatchMemory
  <1>1. IInv => AtRestTablesMatchMemory
    BY AtRest
  <1> QED
    BY <1>1, Inductive, PTL
=============================================================================
