-------------------------------- MODULE Chat --------------------------------
(***************************************************************************)
(* What is said in a room: SendMessage of the client, the relay of the     *)
(* server, Broadcast, and what the listeners make of it, on top of         *)
(* KeyExchange.                                                            *)
(*                                                                         *)
(* Broadcast holds sv.mu while it writes to one session after another, so  *)
(* here sv.mu is a lock: `cast` is the broadcast that holds it, and the    *)
(* sections of the other goroutines under sv.mu wait.  A text is known by  *)
(* who says it, the key it is encrypted with and the room it goes to.      *)
(* Notices of joins are left out: they change nothing.  Those of           *)
(* promotions are broadcast too: they wait for sv.mu, and then the model   *)
(* lets others go on between their writes, which sv.mu forbids.            *)
(***************************************************************************)
EXTENDS KeyExchange

CONSTANT MaxSays        \* bound: texts typed

ASSUME SaysAssumption == MaxSays \in Nat

VARIABLES
    cast,       \* the broadcast in progress, if any
    said,       \* texts typed so far
    keyed       \* history: whom each client has sent a key to

chatVars == <<cast, said, keyed>>
cVars == <<kVars, chatVars>>

(* What a client sends, and what the server makes of it: the line shows    *)
(* the name of its author.  `keyed` is history: whom the speaker had sent  *)
(* a key to by then.                                                       *)
Utterance(k, word, whom) == [say |-> k, word |-> word, keyed |-> whom]
Text(c, m, r) == [type |-> "text", from |-> c, key |-> m.say,
                  word |-> m.word \/ user[c].name \in Telltale,
                  keyed |-> m.keyed, room |-> r]

CInit == KInit /\ cast = << >> /\ said = 0 /\ keyed = [c \in User |-> {}]

----------------------------------------------------------------------------
(* The client's terminal: SendMessage.  A text may hold the word unless it *)
(* is encrypted, which makes base64 of it.                                 *)
Say(c) ==
    /\ Connected(c)
    /\ said < MaxSays /\ said' = said + 1
    /\ \E word \in BOOLEAN :
          /\ word => key[c] = NoRoom
          /\ outbox' = [outbox EXCEPT ![c] = Append(@, Utterance(key[c], word, keyed[c]))]
    /\ UNCHANGED <<vars, key, inbox, pending, admitted, joins, listings, cast, keyed>>

----------------------------------------------------------------------------
(* The server.                                                             *)

FreeAlways == TRUE
Free == cast = << >>
Casting(c) == cast # << >> /\ cast[1].by = c

(* The sessions Broadcast writes to.                                       *)
AudienceAll(c, r) == DOMAIN sess \ {c}
Audience(c, r) == {d \in DOMAIN sess \ {c} : sess[d].room = r}

Speaks(c) == outbox[c] # << >> /\ "say" \in DOMAIN Head(outbox[c])

(* The next message of c is a text.  Outside a room it is refused; if its  *)
(* base64 starts with a slash it is taken for an unknown command.          *)
Relay(c) ==
    /\ pc[c] = "loop" /\ Free /\ Speaks(c)
    /\ LET m == Head(outbox[c])
           r == sess[c].room
       IN  \/ /\ r # NoRoom
              /\ cast' = IF Audience(c, r) = {} THEN << >>
                         ELSE <<[by |-> c, line |-> Text(c, m, r), to |-> Audience(c, r)]>>
           \/ (r = NoRoom \/ m.say # NoRoom) /\ UNCHANGED cast
    /\ outbox' = [outbox EXCEPT ![c] = Tail(@)]
    /\ UNCHANGED <<vars, key, inbox, pending, admitted, joins, listings, said, keyed>>

(* One write of Broadcast; the last one releases sv.mu.                    *)
CastTo(c, d) ==
    /\ Casting(c) /\ d \in cast[1].to
    /\ inbox' = IF pc[d] = "closed" THEN inbox
                                    ELSE [inbox EXCEPT ![d] = Append(@, cast[1].line)]
    /\ cast' = IF cast[1].to = {d} THEN << >> ELSE <<[cast[1] EXCEPT !.to = @ \ {d}]>>
    /\ UNCHANGED <<vars, key, outbox, pending, admitted, joins, listings, said, keyed>>

(* The steps of KeyExchange: sections under sv.mu wait for it.  The loop   *)
(* looks up the session under sv.mu before each command and releases it,   *)
(* so that the transactions of /create, /join and /leave-room may fall     *)
(* into a broadcast.                                                       *)
TakesMu(c) == pc[c] \in {"enlist", "created", "joined", "left", "teardown"}
KStep(c) ==
    \/ KCreateMem(c) \/ KJoinMem(c) \/ KHandOver(c) \/ ListNames(c)
    \/ Other(c)
    \/ ~Speaks(c) /\ Free /\ SendKey(c)
    \/ \E r \in Room, n \in RoomName, p \in Password \cup {NoPass} :
          \/ KCreate(c, r, n, p)
          \/ \E h \in User \cup {NoUser} : KJoin(c, n, p, r, h)

CGoroutine(c) ==
    \/ Write(c) /\ UNCHANGED chatVars
    \/ Free /\ Notify(c) /\ UNCHANGED chatVars
    \/ \E d \in User : CastTo(c, d)
    \/ /\ ~Busy(c) /\ ~Casting(c)
       /\ \/ Relay(c)
          \/ (TakesMu(c) => Free) /\ KStep(c) /\ UNCHANGED chatVars
          \/ HangUp(c) /\ UNCHANGED <<keyVars, chatVars>>

----------------------------------------------------------------------------
(* The clients.                                                            *)

(* processIncomingChat decrypts, if it can, and prints.  A text with the   *)
(* word in it is dispatched to handleSystemInfo instead.                   *)
Hear(c) ==
    /\ inbox[c] # << >> /\ Head(inbox[c]).type = "text"
    /\ Read(c, Head(inbox[c]))
    /\ key' = IF Head(inbox[c]).word THEN [key EXCEPT ![c] = c] ELSE key
    /\ UNCHANGED <<vars, outbox, pending, admitted, joins, listings, chatVars>>

(* Answering a request, the client has sent its key.                       *)
CAnswer(c) ==
    /\ AnswerRequest(c)
    /\ keyed' = IF key[c] = NoRoom THEN keyed
                ELSE [keyed EXCEPT ![c] = @ \cup {Head(inbox[c]).user}]
    /\ UNCHANGED <<cast, said>>

CListen(c) ==
    \/ Hear(c) \/ CAnswer(c)
    \/ (DrawKey(c) \/ InstallKey(c)) /\ UNCHANGED chatVars

----------------------------------------------------------------------------
CNext == \E c \in User : CGoroutine(c) \/ Say(c) \/ CListen(c)

CSpec == CInit /\ [][CNext]_cVars
----------------------------------------------------------------------------
(* Properties.                                                             *)

CTypeOK ==
    /\ TypeOK
    /\ key \in [User -> Key \cup {NoRoom}]
    /\ \A c \in User : \A i \in DOMAIN inbox[c] :
          LET line == inbox[c][i]
          IN  \/ line \in Line
              \/ line.type = "text" /\ line.room \in Room /\ line.from \in User
    /\ Len(cast) <= 1 /\ ~Free => cast[1].to \in (SUBSET User) \ {{}}
    /\ said \in 0..MaxSays
    /\ keyed \in [User -> SUBSET User]

(* Nothing said in a room is ever written to a connection that was never   *)
(* admitted to it, whoever joins, leaves and speaks meanwhile              *)
(* (broadcast.go:22, handler.go:134).                                      *)
HeardOnlyByAdmitted ==
    \A c \in User : \A i \in DOMAIN inbox[c] :
        inbox[c][i].type = "text" => <<c, inbox[c][i].room>> \in admitted

(* A broadcast only ever writes to participants of its room, down to its   *)
(* last write, or to somebody whose departure has been committed and not   *)
(* confirmed yet: nobody leaves sv.Clients or changes session.Room while   *)
(* it goes on (broadcast.go:14, commands.go:230, handler.go:19).           *)
AudienceIsInTheRoom ==
    \A i \in DOMAIN cast : \A d \in cast[i].to :
        d \in Occupants(cast[i].line.room) \/ pc[d] = "left"

(* Whoever was sent a key by a speaker has one when it reads what the      *)
(* speaker says afterwards: the answer and the text take the same way,     *)
(* one through /sendKey and one through Broadcast (client.go:272, 147).    *)
KeyPrecedesTalk ==
    \A c \in User :
        Connected(c) /\ inbox[c] # << >> /\ Head(inbox[c]).type = "text"
            /\ c \in Head(inbox[c]).keyed
        => key[c] # NoRoom
=============================================================================
