SPECIFICATION MCSpec
CONSTANTS
    User = {u1, u2, u3}
    UserName = {ann, bob, cid}
    Room = {r1, r2}
    RoomName = {den, hall}
    Password = {}
    NoUser = NoUser
    NoRoom = NoRoom
    NoPass = NoPass
    NoName = NoName
    MaxUsers = 2
    MaxTime = 1
    MaxFaults = 1
SYMMETRY Symmetric
CHECK_DEADLOCK FALSE
INVARIANTS
    TypeOK
    UniqueSessionNames
    CapacityRespected
    RoomsSelfDestruct
    ClosedLeavesNoTrace
    AtRestTablesMatchMemory
    CreatorKeepsOwnership
    RoutedOnlyToMembers
PROPERTIES
    OwnerClearedOnlyBySelf
    NoRoomDeletedUnderMembers
    MembershipUntilFailure
