SPECIFICATION KSpec
CONSTANTS
    User = {u1, u2}
    UserName = {ann, bob}
    Room = {r1}
    RoomName = {den}
    Password = {}
    NoUser = NoUser
    NoRoom = NoRoom
    NoPass = NoPass
    NoName = NoName
    MaxUsers = 2
    MaxTime = 0
    MaxFaults = 0
    Telltale = {}
    MaxListings = 0
    MaxJoins = 1
SYMMETRY Symmetric
CHECK_DEADLOCK FALSE
INVARIANTS
    ParticipantsHoldTheKey
