SPECIFICATION KSpec
CONSTANTS
    User = {u1, u2, u3}
    UserName = {ann, bob}
    Room = {r1}
    RoomName = {den}
    Password = {}
    NoUser = NoUser
    NoRoom = NoRoom
    NoPass = NoPass
    NoName = NoName
    MaxUsers = 2
    MaxTime = 0
    MaxFaults = 0
    Telltale = {den, ann}
    MaxListings = 1
    MaxJoins = 1
SYMMETRY Symmetric
CHECK_DEADLOCK FALSE
INVARIANTS
    KTypeOK
    OthersKeyNeedsAdmission
