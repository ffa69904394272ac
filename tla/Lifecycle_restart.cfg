SPECIFICATION MCSpec
CONSTANTS
    User = {u1, u2, u3}
    UserName = {ann, bob, cid}
    Room = {r1, r2}
    RoomName = {den}
    Password = {}
    NoUser = NoUser
    NoRoom = NoRoom
    NoPass = NoPass
    NoName = NoName
    MaxUsers = 2
    MaxTime = 0
    MaxFaults = 1
    MaxLives = 2
SYMMETRY Symmetric
CHECK_DEADLOCK FALSE
INVARIANTS
    LTypeOK
    NoGhosts
    FreshAfterBoot
    SafeAmongGhosts
    OldRowsAreGone
