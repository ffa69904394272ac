SPECIFICATION LSpec
CONSTANTS
    User = {u1, u2}
    UserName = {ann, bob}
    Room = {r1, r2}
    RoomName = {den}
    Password = {}
    NoUser = NoUser
    NoRoom = NoRoom
    NoPass = NoPass
    NoName = NoName
    MaxUsers = 2
    MaxTime = 0
    MaxFaults = 0
    MaxLives = 2
SYMMETRY Symmetric
CHECK_DEADLOCK FALSE
INVARIANTS
    VanishedSuccessfully
