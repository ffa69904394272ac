SPECIFICATION LiveSpec
CONSTANTS
    User = {u1, u2, u3}
    UserName = {ann, bob, cid}
    Room = {r1}
    RoomName = {den}
    Password = {}
    NoUser = NoUser
    NoRoom = NoRoom
    NoPass = NoPass
    NoName = NoName
    MaxUsers = 3
    MaxTime = 0
    MaxFaults = 0
    Telltale = {}
    MaxListings = 0
    MaxJoins = 1
CHECK_DEADLOCK FALSE
PROPERTIES
    Vanish
    Answered
