---------------------------- MODULE KeyExchange ----------------------------
(***************************************************************************)
(* How the AES key of a room reaches those who join it: the server of      *)
(* RoomServer together with its clients (client.go) and the sockets        *)
(* between them.                                                           *)
(*                                                                         *)
(* The creator's client draws a key when it reads the "created" line.  A   *)
(* join makes the server ask the host's client (REQ_FROM), which seals its *)
(* key with the joiner's public key and answers through /sendKey; the      *)
(* server relays the answer to the session of that name (FROM).  A key is  *)
(* named after the room whose creation drew it, a sealed key by the user   *)
(* whose private key opens it.                                             *)
(*                                                                         *)
(* The client takes any line that contains the word "created" for the      *)
(* creation of a room.  Lines that show a name, of a room or of a user,    *)
(* which contains it are modelled for that reason (Tale): the client then  *)
(* draws a key of its own, named after itself.                             *)
(*                                                                         *)
(* Sockets are FIFO.  A goroutine writes outside sv.mu, after the section  *)
(* that chose what to write and to whom: `pending` holds its writes, and   *)
(* the goroutine does nothing else before them.  Other lines (chat, which  *)
(* is added by Chat, notices, USER_JOINED, PROMOTED) change no key.  The   *)
(* clock stands still: any participant may be the next in line.            *)
(***************************************************************************)
EXTENDS RoomServer, SequencesExt

CONSTANTS
    Telltale,       \* the names, of rooms or users, that contain "created"
    MaxJoins,       \* bound: successful joins
    MaxListings     \* bound: listings that show a name of Telltale

ASSUME JoinsAssumption == MaxJoins \in Nat /\ MaxListings \in Nat
ASSUME KeyAssumption == NoRoom \notin User    \* the empty string is nobody's UUID

VARIABLES
    key,        \* aesKey of each client
    inbox,      \* lines written to each client and not read yet
    outbox,     \* /sendKey commands of each client the server has not read
    pending,    \* the writes each goroutine is about to do
    admitted,   \* history: who has ever been admitted to which room
    joins,      \* joins so far
    listings    \* listings so far

keyVars == <<key, inbox, outbox, pending, admitted, joins, listings>>
kVars == <<vars, keyVars>>

Created(r) == [type |-> "created", room |-> r]
ReqFrom(u) == [type |-> "req", user |-> u]
Key == Room \cup User
Sealed(k, u) == [type |-> "key", key |-> k, user |-> u]
Tale == [type |-> "tale"]
Notice == [type |-> "notice"]      \* still to be written: a Tale about whom it is for

Line == {Created(r) : r \in Room} \cup {ReqFrom(u) : u \in User}
            \cup {Sealed(k, u) : k \in Key, u \in User} \cup {Tale, Notice}
Command == [target : UserName, line : Line]

KInit ==
    /\ Init
    /\ key = [c \in User |-> NoRoom]
    /\ inbox = [c \in User |-> << >>]
    /\ outbox = [c \in User |-> << >>]
    /\ pending = [c \in User |-> << >>]
    /\ admitted = {} /\ joins = 0 /\ listings = 0

----------------------------------------------------------------------------
(* The server.                                                             *)

Busy(c) == pending[c] # << >>

(* The goroutine of c is to write `line` to the connection of u.           *)
WriteTo(c, u, line) == pending' = [pending EXCEPT ![c] = <<[to |-> u, line |-> line]>>]

KCreate(c, r, n, p) ==
    /\ Create(c, r, n, p)
    /\ admitted' = admitted \cup {<<c, r>>}
    /\ UNCHANGED <<key, inbox, outbox, pending, joins, listings>>

KCreateMem(c) ==
    /\ CreateMem(c)
    /\ WriteTo(c, c, Created(job[c].room))
    /\ UNCHANGED <<key, inbox, outbox, admitted, joins, listings>>

KJoin(c, n, p, r, h) ==
    /\ joins < MaxJoins
    /\ Join(c, n, p, r, h)
    /\ admitted' = admitted \cup {<<c, r>>}
    /\ joins' = joins + 1
    /\ UNCHANGED <<key, inbox, outbox, pending, listings>>

(* The host is looked up in sv.Clients by the UUID JoinRoom reported, and  *)
(* asked before the joiner is told; the answer names the room.             *)
Asked(c) ==
    IF job[c].peer \in DOMAIN sess \ {c} THEN <<[to |-> job[c].peer, line |-> ReqFrom(c)]>>
                                         ELSE << >>
Told(c) ==
    IF job[c].room \in DOMAIN rooms /\ rooms[job[c].room].name \in Telltale
    THEN <<[to |-> c, line |-> Tale]>> ELSE << >>

KJoinMem(c) ==
    /\ JoinMem(c)
    /\ pending' = [pending EXCEPT ![c] = Asked(c) \o Told(c)]
    /\ UNCHANGED <<key, inbox, outbox, admitted, joins, listings>>

(* /rooms, and the list every connection is sent at first: the names of    *)
(* the public rooms.  /users: the names of those in one's room.            *)
ListPublicRooms == {rooms[r].name : r \in {q \in DOMAIN rooms : rooms[q].pass = NoPass}}
ListAllUsersInRoom(r) == {users[u].name : u \in Occupants(r) \cap DOMAIN users}

ListNames(c) ==
    /\ pc[c] = "loop"
    /\ listings < MaxListings /\ listings' = listings + 1
    /\ (ListPublicRooms \cup ListAllUsersInRoom(user[c].room)) \cap Telltale # {}
    /\ WriteTo(c, c, Tale)
    /\ UNCHANGED <<vars, key, inbox, outbox, admitted, joins>>

(* Once the transaction of PromoteNextHost is committed, the goroutine     *)
(* calls NotifyPromotion.                                                  *)
Promoted == ~locked /\ faults' = faults
KHandOver(c) ==
    /\ HandOver(c)
    /\ LET v == job[c].peer
       IN  IF Promoted /\ v \in DOMAIN sess /\ sess[v].name \in Telltale
           THEN WriteTo(c, v, Notice) ELSE UNCHANGED pending
    /\ UNCHANGED <<key, inbox, outbox, admitted, joins, listings>>

(* NotifyPromotion: the room in which the new host has its session now is  *)
(* told its name, session by session.                                      *)
Notified(v) ==
    {d \in DOMAIN sess : v \in DOMAIN sess /\ sess[d].room = sess[v].room
                                           /\ sess[d].room # NoRoom}

Notifies(c) == Busy(c) /\ pending[c][1].line = Notice
Notify(c) ==
    /\ Notifies(c)
    /\ \E order \in SetToSeqs(Notified(pending[c][1].to)) :
          pending' = [pending EXCEPT ![c] =
                         Tail(@) \o [i \in DOMAIN order |-> [to |-> order[i], line |-> Tale]]]
    /\ UNCHANGED <<vars, key, inbox, outbox, admitted, joins, listings>>

(* handleSendKeyCommand: the session is found by its name.                 *)
SendKey(c) ==
    /\ pc[c] = "loop"
    /\ outbox[c] # << >>
    /\ LET m == Head(outbox[c])
           targets == {d \in DOMAIN sess : sess[d].name = m.target}
       IN  IF targets = {} THEN UNCHANGED pending
                           ELSE \E d \in targets : WriteTo(c, d, m.line)
    /\ outbox' = [outbox EXCEPT ![c] = Tail(@)]
    /\ UNCHANGED <<vars, key, inbox, admitted, joins, listings>>

(* Writing on a connection that is closed fails, which changes nothing.    *)
Write(c) ==
    /\ Busy(c) /\ ~Notifies(c)
    /\ LET w == pending[c][1]
       IN  inbox' = IF pc[w.to] = "closed" THEN inbox
                                           ELSE [inbox EXCEPT ![w.to] = Append(@, w.line)]
    /\ pending' = [pending EXCEPT ![c] = Tail(@)]
    /\ UNCHANGED <<vars, key, outbox, admitted, joins, listings>>

(* The steps of RoomServer that concern no key.                            *)
Other(c) ==
    /\ \/ Accept(c) \/ GiveUp(c) \/ HangUp(c) \/ Leave(c)
       \/ OpenSession(c) \/ Select(c) \/ LeaveTx(c) \/ LeaveMem(c)
       \/ Teardown(c) \/ Purge(c)
       \/ \E n \in UserName : Register(c, n)
    /\ UNCHANGED keyVars

----------------------------------------------------------------------------
(* The clients: Listen reads the next line.                                *)

Connected(c) == c \in DOMAIN sess
Read(c, line) ==
    /\ Connected(c) /\ inbox[c] # << >> /\ Head(inbox[c]) = line
    /\ inbox' = [inbox EXCEPT ![c] = Tail(@)]

(* handleSystemInfo; the keys drawn for no room are not told apart.        *)
DrawKey(c) ==
    /\ \/ \E r \in Room : Read(c, Created(r)) /\ key' = [key EXCEPT ![c] = r]
       \/ Read(c, Tale) /\ key' = [key EXCEPT ![c] = c]
    /\ UNCHANGED <<vars, outbox, pending, admitted, joins, listings>>

(* processKeyRequest: a client without a key ignores the request.          *)
AnswerDropped(c, u) == outbox[c]
Answer(c, u) ==
    IF key[c] = NoRoom THEN outbox[c]
    ELSE Append(outbox[c], [target |-> user[u].name, line |-> Sealed(key[c], u)])

AnswerRequest(c) ==
    /\ \E u \in User : Read(c, ReqFrom(u)) /\ outbox' = [outbox EXCEPT ![c] = Answer(c, u)]
    /\ UNCHANGED <<vars, key, pending, admitted, joins, listings>>

(* handleKeyDelivery: what the private key does not open is dropped.       *)
OpensAnything(c, u) == TRUE
Opens(c, u) == c = u

InstallKey(c) ==
    /\ \E k \in Key, u \in User :
          /\ Read(c, Sealed(k, u))
          /\ key' = IF Opens(c, u) THEN [key EXCEPT ![c] = k] ELSE key
    /\ UNCHANGED <<vars, outbox, pending, admitted, joins, listings>>

Listen(c) == DrawKey(c) \/ AnswerRequest(c) \/ InstallKey(c)

----------------------------------------------------------------------------
Goroutine(c) ==
    \/ Write(c) \/ Notify(c)
    \/ /\ ~Busy(c)
       /\ \/ Other(c) \/ KCreateMem(c) \/ KJoinMem(c) \/ KHandOver(c)
          \/ SendKey(c) \/ ListNames(c)
          \/ \E r \in Room, n \in RoomName, p \in Password \cup {NoPass} :
                \/ KCreate(c, r, n, p)
                \/ \E h \in User \cup {NoUser} : KJoin(c, n, p, r, h)

KNext == \E c \in User : Goroutine(c) \/ Listen(c)

KSpec == KInit /\ [][KNext]_kVars

(* Goroutines and listeners keep going; a line that is next in a socket is *)
(* read before what the same peer sends later.                             *)
Own(c) ==
    ~Busy(c) /\ (KCreateMem(c) \/ KJoinMem(c) \/ KHandOver(c) \/ (Other(c) /\ Work(c)))
KFairness ==
    \A c \in User : /\ WF_kVars(Write(c) \/ Notify(c)) /\ WF_kVars(Own(c))
                    /\ WF_kVars(Listen(c)) /\ SF_kVars(~Busy(c) /\ SendKey(c))
KFairSpec == KSpec /\ KFairness

----------------------------------------------------------------------------
(* Properties.                                                             *)

KTypeOK ==
    /\ TypeOK
    /\ key \in [User -> Key \cup {NoRoom}]
    /\ \A c \in User :
          /\ \A i \in DOMAIN inbox[c] : inbox[c][i] \in Line
          /\ \A i \in DOMAIN outbox[c] : outbox[c][i] \in Command
          /\ \A i \in DOMAIN pending[c] : pending[c][i] \in [to : User, line : Line]
    /\ admitted \subseteq User \X Room
    /\ joins \in 0..MaxJoins /\ listings \in 0..MaxListings

(* Nobody who was never admitted to any room holds a key that another      *)
(* client drew, although answers are relayed by a name that may have       *)
(* passed to another user meanwhile (commands.go:249, client.go:233), and  *)
(* although clients also draw keys by mistake (client.go:171).             *)
OthersKeyNeedsAdmission ==
    \A c \in User : key[c] \notin {NoRoom, c} => \E r \in Room : <<c, r>> \in admitted

(* A request a keyed client is about to read is answered: the joiner gets  *)
(* a key, unless one of the two goes away first.                           *)
NextRequest(c, u) ==
    key[c] # NoRoom /\ inbox[c] # << >> /\ Head(inbox[c]) = ReqFrom(u)
Answered ==
    \A c, u \in User :
        NextRequest(c, u) ~> (key[u] \notin {NoRoom, u} \/ ~Connected(c) \/ ~Connected(u))

(* When nothing is under way, those in a room with a host hold its key     *)
(* (README: Key Distribution).                                             *)
Still == \A c \in User : /\ pc[c] \in Idle /\ ~Busy(c)
                         /\ inbox[c] = << >> /\ outbox[c] = << >>

ParticipantsHoldTheKey ==
    Still => \A r \in Room : \A h \in Hosts(r) \cap Occupants(r), u \in Occupants(r) :
                key[u] = key[h]

(* A client holds the key only of a room it was admitted to.               *)
KeyOfOwnRoom == \A c \in User : key[c] \in Room => <<c, key[c]>> \in admitted
=============================================================================
