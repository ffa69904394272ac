SPECIFICATION Spec
CONSTANTS
    User = {u1, u2, u3}
    UserName = {ann, bob, cid}
    Room = {r1, r2}
    RoomName = {den}
    Password = {}
    NoUser = NoUser
    NoRoom = NoRoom
    NoPass = NoPass
    NoName = NoName
    MaxUsers = 2
    MaxTime = 0
    MaxFaults = 0
CHECK_DEADLOCK FALSE
INVARIANTS
    HostedAtRest
