SPECIFICATION MCSpec
CONSTANTS
    User = {u1, u2, u3}
    UserName = {ann, bob, cid}
    Room = {r1, r2}
    RoomName = {den}
    Telltale = {ann}
    Password = {}
    NoUser = NoUser
    NoRoom = NoRoom
    NoPass = NoPass
    NoName = NoName
    MaxUsers = 3
    MaxTime = 0
    MaxFaults = 0
    MaxListings = 1
    MaxJoins = 2
    MaxSays = 1
CHECK_DEADLOCK FALSE
INVARIANTS
    CTypeOK
    HeardOnlyByAdmitted
    AudienceIsInTheRoom
    KeyPrecedesTalk
