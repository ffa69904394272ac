------------------------ MODULE RoomServerRefinement ------------------------
(***************************************************************************)
(* What no step of RoomServer may do, and its refinement of Membership.    *)
(***************************************************************************)
EXTENDS RoomServerProofs

----------------------------------------------------------------------------
(* Steps.                                                                  *)

(* Every step of a goroutine moves it.                                     *)
LEMMA StepsMove ==
    ASSUME TypeOK, NEW c \in User, Request(c) \/ Work(c)
    PROVE  pc'[c] # pc[c]
  BY DEF TypeOK, Request, Work, Accept, GiveUp, HangUp, Leave, Heir, Register, Create, Join,
      OpenSession, CreateMem, JoinMem, Select, HandOver, LeaveTx, AfterLeave, LeaveMem,
      Teardown, Purge, Goto

(* Nobody is demoted by somebody else's departure.                         *)
THEOREM NobodyDeposed == Spec => OwnerClearedOnlyBySelf
  <1> DEFINE Safe == \A u \in DOMAIN users : users[u].owner =>
                        \/ u \in DOMAIN users' /\ users'[u].owner
                        \/ pc'[u] # pc[u]
  <1>1. ASSUME TypeOK, [Next]_vars PROVE Safe
    <2>1. CASE Quiet
      BY <2>1 DEF Quiet
    <2>2. ASSUME NEW c \in User, Request(c) \/ Work(c) PROVE Safe
      <3>1. pc'[c] # pc[c]
        BY <1>1, <2>2, StepsMove
      <3>2. \A u \in User \ {c} : u \in DOMAIN users /\ users[u].owner =>
                                     u \in DOMAIN users' /\ users'[u].owner
        BY <1>1, <2>2, NonInterference DEF RowsKept
      <3> QED
        BY <1>1, <3>1, <3>2 DEF TypeOK, StorageTypeOK
    <2> QED
      BY <1>1, <2>1, <2>2, StepKinds
  <1> QED
    BY <1>1, TypeCorrect, PTL DEF Spec, OwnerClearedOnlyBySelf

(* Only LeaveTx deletes a room row, and only the row of an emptied room.   *)
THEOREM NoRoomPulledAway == Spec => NoRoomDeletedUnderMembers
  <1> DEFINE Safe == \A r \in DOMAIN rooms \ DOMAIN rooms' :
                        Cardinality(Occupants(r)) <= 1 /\ Occupants(r)' = {}
  <1>1. ASSUME TypeOK, [Next]_vars PROVE Safe
    <2>a. ASSUME UNCHANGED rooms PROVE Safe
      BY <2>a
    <2>1. CASE Quiet
      BY <2>1, <2>a DEF Quiet
    <2>2. ASSUME NEW c \in User, Request(c) \/ Work(c) PROVE Safe
      <3>1. ASSUME NEW r, NEW n, NEW p, Create(c, r, n, p) PROVE Safe
        BY <3>1 DEF Create, CreateAndJoinRoom, Put
      <3>2. ASSUME NEW q, LeaveRoomAndDeleteRoomIfEmpty(c, q) PROVE Safe
        <4>1. CASE Occupants(q) \ {c} = {}
          <5>1. DOMAIN rooms \ DOMAIN rooms' \subseteq {q}
            BY <3>2, <4>1 DEF LeaveRoomAndDeleteRoomIfEmpty, RoomsAfterLeave, Delete
          <5>2. Occupants(q)' = {}
            BY <3>2, <4>1 DEF LeaveRoomAndDeleteRoomIfEmpty, Occupants, Delete
          <5>3. Occupants(q) = {} \/ Occupants(q) = {c}
            BY <4>1
          <5>4. Cardinality(Occupants(q)) <= 1
            BY <5>3, FS_EmptySet, FS_Singleton
          <5> QED
            BY <5>1, <5>2, <5>4
        <4>2. CASE Occupants(q) \ {c} # {}
          BY <2>a, <3>2, <4>2 DEF LeaveRoomAndDeleteRoomIfEmpty, RoomsAfterLeave
        <4> QED
          BY <4>1, <4>2
      <3>3. CASE LeaveTx(c)
        BY <2>a, <3>2, <3>3 DEF LeaveTx, WriteFails, StatementFails, dbVars
      <3>4. CASE ~LeaveTx(c) /\ \A r, n, p : ~Create(c, r, n, p)
        <4>1. UNCHANGED rooms
          BY <2>2, <3>4, FailuresKeepTables DEF Request, Work, Accept, GiveUp, HangUp, Leave,
            Register, CreateUser, Join, JoinRoom, OpenSession, CreateMem, JoinMem, Select,
            HandOver, Promote, LeaveMem, Teardown, Purge, DeleteUser, tables, dbVars
        <4> QED
          BY <2>a, <4>1
      <3> QED
        BY <2>2, <3>1, <3>3, <3>4
    <2> QED
      BY <1>1, <2>1, <2>2, StepKinds
  <1> QED
    BY <1>1, TypeCorrect, PTL DEF Spec, NoRoomDeletedUnderMembers

----------------------------------------------------------------------------
(* Refinement.  Storage counts failures; here there are none to count.     *)

LEMMA NeverFails ==
    ASSUME MaxFaults = 0
    PROVE  Spec => [](faults = 0)
  <1>1. Init => faults = 0
    BY DEF Init, StorageInit
  <1>2. faults = 0 /\ [Next]_vars => (faults = 0)'
    BY FailuresCounted
  <1> QED
    BY <1>1, <1>2, PTL DEF Spec

(* The rooms of the server, seen from Membership.                          *)
WhereOf == [u \in User |-> IF u \in DOMAIN participants THEN participants[u] ELSE NoRoom]

LEMMA WhereFacts ==
    ASSUME TypeOK
    PROVE  /\ \A u \in DOMAIN participants : u \in User /\ WhereOf[u] = participants[u]
           /\ \A u \in User \ DOMAIN participants : WhereOf[u] = NoRoom
           /\ \A r \in Room : Abstract!In(r) = Occupants(r)
  <1>1. /\ \A u \in DOMAIN participants : u \in User /\ WhereOf[u] = participants[u]
        /\ \A u \in User \ DOMAIN participants : WhereOf[u] = NoRoom
    BY DEF TypeOK, StorageTypeOK, WhereOf
  <1>2. ASSUME NEW r \in Room PROVE Abstract!In(r) = Occupants(r)
    <2>1. Abstract!In(r) = {u \in User : WhereOf[u] = r}
      BY DEF Abstract!In, WhereOf
    <2> QED
      BY <1>1, <2>1, SentinelAssumption DEF Occupants
  <1> QED
    BY <1>1, <1>2

LEMMA StepRefines ==
    ASSUME IInv, faults = 0, [Next]_vars, faults' = 0
    PROVE  [Abstract!MNext]_<<WhereOf, DOMAIN rooms, issued>>
  <1> DEFINE Goal == Abstract!MNext \/ UNCHANGED <<WhereOf, DOMAIN rooms, issued>>
  <1>a. TypeOK /\ TypeOK' /\ NoFailureInv /\ RoomsSelfDestruct
    BY NextType DEF IInv, NoFailureInv
  <1>b. ~WriteFails /\ ~StatementFails /\ ~PromoteLeaks
    BY <1>a, NoFailureNow
  <1>c. ASSUME UNCHANGED <<participants, rooms, issued>> PROVE Goal
    BY <1>c DEF WhereOf
  <1> SUFFICES Goal
    BY DEF WhereOf
  <1>1. CASE Quiet
    BY <1>1, <1>c DEF Quiet
  <1>2. ASSUME NEW c \in User, Request(c) \/ Work(c) PROVE Goal
    <2>0. ASSUME NEW q \in Room,
                 Abstract!Start(c, q) \/ Abstract!Enter(c, q) \/ Abstract!Exit(c, q)
          PROVE  Goal
      BY <2>0 DEF Abstract!MNext
    <2>1. ASSUME NEW r \in Room, NEW n, NEW p, Create(c, r, n, p) PROVE Goal
      <3>1. /\ r \notin issued /\ c \notin DOMAIN participants
            /\ participants' = Put(participants, c, r)
            /\ issued' = issued \cup {r}
        BY <2>1 DEF Create, CreateAndJoinRoom
      <3>2. DOMAIN rooms' = DOMAIN rooms \cup {r}
        BY <2>1 DEF Create, CreateAndJoinRoom, Put
      <3>3. WhereOf[c] = NoRoom /\ WhereOf' = [WhereOf EXCEPT ![c] = r]
        BY <3>1 DEF WhereOf, Put
      <3>4. Abstract!Start(c, r)
        BY <3>1, <3>2, <3>3 DEF Abstract!Start, WhereOf
      <3> QED
        BY <2>0, <3>4
    <2>2. ASSUME NEW r \in Room, NEW n, NEW p, NEW h, Join(c, n, p, r, h) PROVE Goal
      <3>1. /\ r \in DOMAIN rooms /\ c \notin DOMAIN participants
            /\ Cardinality(Occupants(r)) < MaxUsers
            /\ participants' = Put(participants, c, r)
            /\ UNCHANGED <<rooms, issued>>
        BY <2>2 DEF Join, JoinRoom, HasSpace
      <3>2. Occupants(r) # {}
        BY <1>a, <3>1 DEF RoomsSelfDestruct, Occupants
      <3>3. WhereOf[c] = NoRoom /\ WhereOf' = [WhereOf EXCEPT ![c] = r]
        BY <3>1 DEF WhereOf, Put
      <3>4. Abstract!In(r) = Occupants(r)
        BY <1>a, WhereFacts
      <3>5. Abstract!In(r) # {} /\ Cardinality(Abstract!In(r)) < MaxUsers
        BY <3>1, <3>2, <3>4
      <3>6. UNCHANGED <<DOMAIN rooms, issued>>
        BY <3>1
      <3>7. Abstract!Enter(c, r)
        BY <3>1, <3>3, <3>5, <3>6
        DEF Abstract!Enter, Abstract!Cardinality, Cardinality, WhereOf
      <3> QED
        BY <3>7, <2>0
    <2>3. CASE LeaveTx(c)
      <3>0. c \in DOMAIN participants /\ participants[c] = job[c].room
        BY <1>a, <2>3 DEF LeaveTx, Goto, NoFailureInv, PlaceInv
      <3>1. PICK r \in Room : r = job[c].room
        BY <1>a, <3>0 DEF TypeOK, StorageTypeOK
      <3>2. /\ c \in DOMAIN participants /\ participants[c] = r
            /\ LeaveRoomAndDeleteRoomIfEmpty(c, r)
        BY <1>b, <2>3, <3>0, <3>1 DEF LeaveTx
      <3>3. participants' = Delete(participants, c) /\ UNCHANGED issued
        BY <3>2 DEF LeaveRoomAndDeleteRoomIfEmpty, Occupants
      <3>4. r \in DOMAIN rooms
        BY <1>a, <3>2 DEF RoomsSelfDestruct
      <3>5. WhereOf[c] = r /\ WhereOf' = [WhereOf EXCEPT ![c] = NoRoom]
        BY <3>2, <3>3 DEF WhereOf, Delete
      <3>6. Occupants(r) = {c} <=> Occupants(r) \ {c} = {}
        BY <3>2 DEF Occupants
      <3>7. DOMAIN rooms' = IF Occupants(r) = {c} THEN DOMAIN rooms \ {r} ELSE DOMAIN rooms
        BY <3>2, <3>6 DEF LeaveRoomAndDeleteRoomIfEmpty, RoomsAfterLeave, Delete
      <3>8. Abstract!Exit(c, r)
        BY <1>a, <3>2, <3>3, <3>4, <3>5, <3>7, WhereFacts DEF Abstract!Exit, WhereOf
      <3> QED
        BY <2>0, <3>8
    <2>4. CASE Purge(c)
      <3>1. DeleteUser(c) /\ c \notin DOMAIN participants
        BY <1>a, <1>b, <2>4 DEF Purge, NoFailureInv, PlaceInv, Goto
      <3>2. WhereOf' = WhereOf /\ UNCHANGED <<rooms, issued>>
        BY <3>1 DEF DeleteUser, Delete, WhereOf
      <3> QED
        BY <3>2
    <2>5. ASSUME NEW n, Register(c, n) PROVE Goal
      BY <2>5, <1>b, <1>c DEF Register, CreateUser, dbVars
    <2>6. CASE \/ Accept(c) \/ GiveUp(c) \/ HangUp(c) \/ Leave(c) \/ OpenSession(c)
               \/ CreateMem(c) \/ JoinMem(c) \/ LeaveMem(c) \/ Teardown(c)
      BY <2>6, <1>c DEF Accept, GiveUp, HangUp, Leave, OpenSession, CreateMem, JoinMem,
        LeaveMem, Teardown, dbVars
    <2>7. CASE Select(c) \/ HandOver(c)
      BY <2>7, <1>b, <1>c DEF Select, HandOver, Promote, dbVars
    <2> QED
      BY <1>2, <2>1, <2>2, <2>3, <2>4, <2>5, <2>6, <2>7 DEF Request, Work
  <1> QED
    BY <1>1, <1>2, StepKinds

LEMMA RefinementInit ==
    ASSUME Init
    PROVE  Abstract!MInit
  <1>1. DOMAIN rooms = {} /\ DOMAIN participants = {} /\ issued = {}
    BY EmptyTable DEF Init, StorageInit
  <1> QED
    BY <1>1 DEF Abstract!MInit

(* Up to its first failure, the server implements the abstract rooms.      *)
THEOREM RefinementUntilFailure == Spec => MembershipUntilFailure
  <1>1. Init => Abstract!MInit
    BY RefinementInit
  <1>2. IInv /\ [Next]_vars /\ faults' = 0 => [Abstract!MNext]_(Abstract!mVars)
    <2> SUFFICES ASSUME IInv, [Next]_vars, faults' = 0
                 PROVE  [Abstract!MNext]_(Abstract!mVars)
      OBVIOUS
    <2>1. faults = 0
      BY FailuresCounted DEF IInv, TypeOK, StorageTypeOK
    <2> QED
      BY <2>1, StepRefines DEF Abstract!mVars, WhereOf
  <1> QED
    BY <1>1, <1>2, Inductive, PTL DEF Spec, MembershipUntilFailure

(* Storage that never fails makes that an implementation for good.         *)
THEOREM Refinement ==
    ASSUME MaxFaults = 0
    PROVE  Spec => Abstract!MSpec
  <1>1. Init => Abstract!MInit
    BY RefinementInit
  <1>2. IInv /\ faults = 0 /\ [Next]_vars /\ (faults = 0)' => [Abstract!MNext]_(Abstract!mVars)
    BY StepRefines DEF Abstract!mVars, WhereOf
  <1>3. Spec => [](faults = 0)
    BY NeverFails
  <1> QED
    BY <1>1, <1>2, <1>3, Inductive, PTL DEF Spec, Abstract!MSpec
=============================================================================
