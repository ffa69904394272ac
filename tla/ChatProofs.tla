----------------------------- MODULE ChatProofs -----------------------------
(***************************************************************************)
(* Theorems about Chat, for every number of connections, rooms and texts:  *)
(* the server in it is that of RoomServer, and what is said in a room is   *)
(* written to those who are in it.                                         *)
(***************************************************************************)
EXTENDS Chat, KeyExchangeProofs

----------------------------------------------------------------------------
(* The server among those who talk.                                        *)

(* The steps that are none of the server of RoomServer.                    *)
Talking(c) ==
    \/ Write(c) \/ Notify(c) \/ Relay(c) \/ SendKey(c) \/ ListNames(c) \/ Say(c) \/ CListen(c)
    \/ \E d \in User : CastTo(c, d)

(* Its own steps, and what they do to the key exchange.                    *)
Creates(c) == \E r \in Room, n \in RoomName, p \in Password \cup {NoPass} : KCreate(c, r, n, p)
Joins(c) == \E r \in Room, n \in RoomName, p \in Password \cup {NoPass}, h \in User \cup {NoUser} :
               KJoin(c, n, p, r, h)
Serving(c) ==
    \/ HangUp(c) /\ UNCHANGED keyVars
    \/ /\ TakesMu(c) => Free
       /\ \/ Other(c) \/ KCreateMem(c) \/ KJoinMem(c) \/ KHandOver(c)
          \/ Creates(c) \/ Joins(c)

LEMMA Kinds ==
    ASSUME [CNext]_cVars
    PROVE  \/ UNCHANGED cVars
           \/ \E c \in User : Talking(c) \/ (Serving(c) /\ UNCHANGED chatVars)
  BY DEF CNext, CGoroutine, KStep, Talking, Serving, Creates, Joins

LEMMA TalkingKeepsServer ==
    ASSUME NEW c \in User, Talking(c)
    PROVE  UNCHANGED <<vars, admitted>>
  BY DEF Talking, Write, Notify, Relay, SendKey, ListNames, Say, CListen, Hear, CAnswer, DrawKey,
    AnswerRequest, InstallKey, CastTo

LEMMA ServingIsServer ==
    ASSUME NEW c \in User, Serving(c)
    PROVE  Request(c) \/ Work(c)
  BY DEF Serving, Other, KCreateMem, KJoinMem, KHandOver, Creates, Joins, KCreate, KJoin,
    Request, Work

LEMMA ChatServerStep ==
    ASSUME [CNext]_cVars
    PROVE  [Next]_vars
  <1>1. CASE UNCHANGED cVars
    BY <1>1 DEF cVars, kVars
  <1>2. ASSUME NEW c \in User, Talking(c) PROVE UNCHANGED vars
    BY <1>2, TalkingKeepsServer
  <1>3. ASSUME NEW c \in User, Serving(c) PROVE Next
    BY <1>3, ServingIsServer DEF Next
  <1> QED
    BY <1>1, <1>2, <1>3, Kinds

(* So whatever RoomServer guarantees, it guarantees while they talk.       *)
THEOREM ServerAmongTalkers == CSpec => Spec
  <1>1. CInit => Init
    BY DEF CInit, KInit
  <1> QED
    BY <1>1, ChatServerStep, PTL DEF CSpec, Spec
----------------------------------------------------------------------------
(* The inductive invariant.                                                *)

Utterances == {Utterance(k, word, whom) : k \in Key \cup {NoRoom}, word \in BOOLEAN,
                                          whom \in SUBSET User}
Texts == [type : {"text"}, from : User, key : Key \cup {NoRoom}, word : BOOLEAN,
          keyed : SUBSET User, room : Room]
Replies == [target : UserName \cup {NoName}, line : Line]
Heard(c) == {line \in Line \cup Texts : line.type = "text" => <<c, line.room>> \in admitted}

ChatInv ==
    /\ key \in [User -> Key \cup {NoRoom}]
    /\ keyed \in [User -> SUBSET User]
    /\ said \in 0..MaxSays
QueuesInv ==
    /\ DOMAIN inbox = User /\ DOMAIN outbox = User /\ DOMAIN pending = User
    /\ \A c \in User : /\ inbox[c] \in Seq(Heard(c))
                       /\ outbox[c] \in Seq(Replies \cup Utterances)
                       /\ pending[c] \in Seq([to : User, line : Line])

(* Whoever enters a room has been admitted to it.                          *)
AdmittedInv ==
    /\ \A c \in DOMAIN sess : sess[c].room # NoRoom => <<c, sess[c].room>> \in admitted
    /\ \A c \in User : pc[c] \in {"created", "joined"} => <<c, job[c].room>> \in admitted

(* The broadcast under way is for sessions that are in its room.           *)
CastInv ==
    \/ cast = << >>
    \/ \E b \in User, to \in (SUBSET User) \ {{}}, line \in Texts :
          /\ cast = <<[by |-> b, line |-> line, to |-> to]>>
          /\ to \subseteq DOMAIN sess /\ \A d \in to : sess[d].room = line.room

CInv == ChatInv /\ QueuesInv /\ AdmittedInv /\ CastInv

LEMMA TextFacts ==
    /\ \A s \in User, m \in Utterances, r \in Room :
          Text(s, m, r) \in Texts /\ Text(s, m, r).room = r
    /\ \A line \in Texts : line.type = "text" /\ line.room \in Room /\ line.from \in User
  BY DEF Texts, Text, Utterances, Utterance

(* None of the lines of KeyExchange is a text.                             *)
LEMMA NotText ==
    ASSUME NEW line \in Line PROVE line.type # "text"
  <1>1. CASE line \in {Created(r) : r \in Room}
    BY <1>1 DEF Created
  <1>2. CASE line \in {ReqFrom(u) : u \in User}
    BY <1>2 DEF ReqFrom
  <1>3. CASE line \in {Sealed(k, u) : k \in Key, u \in User}
    BY <1>3 DEF Sealed
  <1>4. CASE line \in {Tale, Notice}
    BY <1>4 DEF Tale, Notice
  <1> QED
    BY <1>1, <1>2, <1>3, <1>4 DEF Line

(* A text is not an answer.                                                *)
LEMMA SaysFacts ==
    /\ \A m \in Utterances : "say" \in DOMAIN m
    /\ \A m \in Replies : "say" \notin DOMAIN m /\ m.line \in Line
  BY DEF Utterances, Utterance, Replies

LEMMA CInitInv == ASSUME CInit PROVE CInv
  <1>1. ChatInv /\ CastInv
    BY SaysAssumption DEF CInit, KInit, ChatInv, CastInv
  <1>2. QueuesInv
    BY DEF CInit, KInit, QueuesInv
  <1>3. DOMAIN sess = {} /\ \A c \in User : pc[c] = "absent"
    BY DEF CInit, KInit, Init
  <1>4. AdmittedInv
    BY <1>3 DEF AdmittedInv
  <1> QED
    BY <1>1, <1>2, <1>4 DEF CInv
----------------------------------------------------------------------------
(* Whom a broadcast is for.                                                *)

(* While it is, sv.Clients does not change.                                *)
LEMMA MapIsHeld ==
    ASSUME TypeOK, NEW c \in User, Serving(c), cast # << >>
    PROVE  UNCHANGED sess
  <1>1. CASE HangUp(c)
    BY <1>1 DEF HangUp
  <1>2. CASE Other(c) /\ ~TakesMu(c)
    BY <1>2 DEF Other, TakesMu, Accept, GiveUp, HangUp, Leave, Register, OpenSession,
      Select, LeaveTx, LeaveMem, Teardown, Purge, Goto
  <1>3. CASE KCreateMem(c) \/ KJoinMem(c)
    BY <1>3 DEF Serving, Free, TakesMu, KCreateMem, KJoinMem, CreateMem, JoinMem, Goto, HangUp
  <1>4. CASE Creates(c) \/ Joins(c) \/ KHandOver(c)
    BY <1>4 DEF Creates, Joins, KCreate, KJoin, Create, Join, KHandOver, HandOver
  <1> QED
    BY <1>1, <1>2, <1>3, <1>4 DEF Serving, Free

(* Whoever is in a room has been admitted.                                 *)
LEMMA AdmittedStep ==
    ASSUME TypeOK, SessionsInv, AdmittedInv, [CNext]_cVars
    PROVE  admitted \subseteq admitted' /\ AdmittedInv'
  <1>1. CASE UNCHANGED <<pc, sess, job, admitted>>
    BY <1>1 DEF AdmittedInv
  <1>2. ASSUME NEW c \in User, Serving(c),
               admitted \subseteq admitted',
               c \in DOMAIN sess' /\ sess'[c].room # NoRoom => <<c, sess'[c].room>> \in admitted',
               pc'[c] \in {"created", "joined"} => <<c, job'[c].room>> \in admitted'
        PROVE  AdmittedInv'
    <2>1. \A d \in User \ {c} : MemoryKept(d)
      BY <1>2, ServingIsServer, NonInterference
    <2>2. TypeOK'
      BY NextType, ChatServerStep
    <2> QED
      BY <1>2, <2>1, <2>2 DEF AdmittedInv, MemoryKept, TypeOK
  <1>3. ASSUME NEW c \in User, Serving(c) PROVE admitted \subseteq admitted' /\ AdmittedInv'
    <2>1. ASSUME NEW r \in Room, NEW n, NEW p, KCreate(c, r, n, p)
          PROVE  admitted \subseteq admitted' /\ AdmittedInv'
      <3>1. /\ admitted' = admitted \cup {<<c, r>>} /\ UNCHANGED sess
            /\ job'[c].room = r
        BY <2>1 DEF KCreate, Create, Take, TypeOK
      <3> QED
        BY <1>2, <1>3, <3>1 DEF AdmittedInv
    <2>2. ASSUME NEW r \in Room, NEW n, NEW p, NEW h, KJoin(c, n, p, r, h)
          PROVE  admitted \subseteq admitted' /\ AdmittedInv'
      <3>1. /\ admitted' = admitted \cup {<<c, r>>} /\ UNCHANGED sess
            /\ job'[c].room = r
        BY <2>2 DEF KJoin, Join, Take, TypeOK
      <3> QED
        BY <1>2, <1>3, <3>1 DEF AdmittedInv
    <2>3. CASE KCreateMem(c) \/ KJoinMem(c)
      <3>1. /\ UNCHANGED admitted /\ pc[c] \in {"created", "joined"} /\ pc'[c] = "loop"
            /\ sess' = SetRoom(c, job[c].room)
                 \/ sess' = Put(sess, c, [name |-> user[c].name, room |-> job[c].room])
        BY <2>3 DEF KCreateMem, KJoinMem, CreateMem, JoinMem, Goto, TypeOK
      <3>2. c \in DOMAIN sess' => sess'[c].room = job[c].room
        <4>1. CASE sess' = SetRoom(c, job[c].room)
          BY <4>1 DEF SetRoom, TypeOK, Session
        <4>2. CASE sess' = Put(sess, c, [name |-> user[c].name, room |-> job[c].room])
          BY <4>2 DEF Put
        <4> QED
          BY <3>1, <4>1, <4>2
      <3> QED
        BY <1>2, <1>3, <3>1, <3>2 DEF AdmittedInv
    <2>4. CASE (Other(c) \/ HangUp(c)) /\ UNCHANGED keyVars
      <3>1. UNCHANGED admitted /\ pc'[c] \notin {"created", "joined"}
        BY <2>4 DEF TypeOK, keyVars, Other, Accept, GiveUp, HangUp, Leave, Heir, Register,
          OpenSession, Select, LeaveTx, AfterLeave, LeaveMem, Teardown, Purge, Goto
      <3>2. CASE OpenSession(c)
        <4>1. sess'[c].room = NoRoom
          BY <3>2 DEF OpenSession, Put
        <4> QED
          BY <1>2, <1>3, <3>1, <4>1
      <3>3. CASE LeaveMem(c)
        <4>1. c \in DOMAIN sess' => sess'[c].room = NoRoom
          BY <3>3 DEF LeaveMem, SetRoom, TypeOK, Session
        <4> QED
          BY <1>2, <1>3, <3>1, <4>1
      <3>4. CASE Teardown(c)
        <4>1. c \notin DOMAIN sess'
          BY <3>4 DEF Teardown, Delete
        <4> QED
          BY <1>2, <1>3, <3>1, <4>1
      <3>5. CASE UNCHANGED sess
        BY <1>2, <1>3, <3>1, <3>5 DEF AdmittedInv
      <3> QED
        BY <2>4, <3>2, <3>3, <3>4, <3>5 DEF Other, Accept, GiveUp, HangUp, Leave, Register,
          Select, LeaveTx, Purge
    <2>5. CASE KHandOver(c)
      <3>1. UNCHANGED <<admitted, sess, job>> /\ pc'[c] = "leave"
        BY <2>5 DEF KHandOver, HandOver, Goto, TypeOK
      <3> QED
        BY <1>2, <1>3, <3>1 DEF AdmittedInv
    <2> QED
      BY <1>3, <2>1, <2>2, <2>3, <2>4, <2>5 DEF Serving, Creates, Joins, Other
  <1> QED
    <2>1. CASE UNCHANGED cVars
      BY <1>1, <2>1 DEF cVars, kVars, keyVars, vars
    <2>2. ASSUME NEW c \in User, Talking(c) PROVE UNCHANGED <<pc, sess, job, admitted>>
      BY <2>2, TalkingKeepsServer DEF vars
    <2> QED
      BY <1>1, <1>3, <2>1, <2>2, Kinds

LEMMA CastFor ==
    ASSUME NEW b \in User, NEW to \in (SUBSET User) \ {{}}, NEW line \in Texts,
           cast' = <<[by |-> b, line |-> line, to |-> to]>>, UNCHANGED sess,
           to \subseteq DOMAIN sess, \A d \in to : sess[d].room = line.room
    PROVE  CastInv'
  <1>1. to \subseteq DOMAIN sess' /\ \A d \in to : sess'[d].room = line.room
    OBVIOUS
  <1>2. \E b1 \in User, to1 \in (SUBSET User) \ {{}}, line1 \in Texts :
           /\ cast' = <<[by |-> b1, line |-> line1, to |-> to1]>>
           /\ to1 \subseteq DOMAIN sess' /\ \A d \in to1 : sess'[d].room = line1.room
    <2> WITNESS b \in User, to \in (SUBSET User) \ {{}}, line \in Texts
    <2> QED
      BY <1>1
  <1> QED
    BY <1>2 DEF CastInv

LEMMA CastStep ==
    ASSUME TypeOK, SessionsInv, QueuesInv, CastInv, [CNext]_cVars
    PROVE  CastInv'
  <1>1. CASE cast' = << >>
    BY <1>1 DEF CastInv
  <1>2. CASE UNCHANGED <<cast, sess>>
    BY <1>2 DEF CastInv
  <1>3. ASSUME NEW c \in User, Serving(c), UNCHANGED cast PROVE CastInv'
    BY <1>1, <1>2, <1>3, MapIsHeld
  <1>4. ASSUME NEW c \in User, Relay(c) PROVE CastInv'
    <2>1. UNCHANGED sess
      BY <1>4 DEF Relay, vars
    <2>2. outbox[c] # << >> /\ "say" \in DOMAIN Head(outbox[c])
      BY <1>4 DEF Relay, Speaks
    <2>3. Head(outbox[c]) \in Utterances
      BY <2>2, SaysFacts DEF QueuesInv
    <2>4. c \in DOMAIN sess
      BY <1>4 DEF Relay, SessionsInv, HasSession
    <2>5. sess[c].room \in Room \cup {NoRoom}
      BY <2>4 DEF TypeOK, Session
    <2>6. ASSUME sess[c].room # NoRoom, Audience(c, sess[c].room) # {},
                 cast' = <<[by |-> c, line |-> Text(c, Head(outbox[c]), sess[c].room),
                            to |-> Audience(c, sess[c].room)]>>
          PROVE  CastInv'
      <3>1. Text(c, Head(outbox[c]), sess[c].room) \in Texts
            /\ Text(c, Head(outbox[c]), sess[c].room).room = sess[c].room
        BY <2>3, <2>5, <2>6, TextFacts
      <3>2. /\ Audience(c, sess[c].room) \subseteq DOMAIN sess
            /\ \A d \in Audience(c, sess[c].room) : sess[d].room = sess[c].room
        BY DEF Audience
      <3>3. Audience(c, sess[c].room) \in (SUBSET User) \ {{}}
        BY <2>6, <3>2 DEF TypeOK
      <3> QED
        BY <2>1, <2>6, <3>1, <3>2, <3>3, CastFor
    <2> QED
      BY <1>1, <1>2, <1>4, <2>1, <2>6 DEF Relay
  <1>5. ASSUME NEW c \in User, NEW d \in User, CastTo(c, d) PROVE CastInv'
    <2>1. UNCHANGED sess
      BY <1>5 DEF CastTo, vars
    <2>2. PICK b \in User, to \in (SUBSET User) \ {{}}, line \in Texts :
             /\ cast = <<[by |-> b, line |-> line, to |-> to]>>
             /\ to \subseteq DOMAIN sess /\ \A e \in to : sess[e].room = line.room
      BY <1>5 DEF CastTo, Casting, CastInv
    <2>3. cast[1] = [by |-> b, line |-> line, to |-> to] /\ cast[1].to = to
      BY <2>2
    <2>4. cast' = << >> \/ (cast' = <<[by |-> b, line |-> line, to |-> to \ {d}]>> /\ to \ {d} # {})
      <3>1. to # {d} => to \ {d} # {}
        BY <1>5, <2>3 DEF CastTo
      <3>2. [cast[1] EXCEPT !.to = to \ {d}] = [by |-> b, line |-> line, to |-> to \ {d}]
        BY <2>3
      <3>3. cast' = IF to = {d} THEN << >> ELSE <<[cast[1] EXCEPT !.to = to \ {d}]>>
        BY <1>5, <2>3, Zenon DEF CastTo
      <3> QED
        BY <3>1, <3>2, <3>3, Zenon
    <2>5. to \ {d} \subseteq DOMAIN sess /\ \A e \in to \ {d} : sess[e].room = line.room
      BY <2>2
    <2> QED
      BY <1>1, <2>1, <2>4, <2>5, CastFor
  <1>6. ASSUME NEW c \in User,
               Write(c) \/ Notify(c) \/ SendKey(c) \/ ListNames(c) \/ Say(c) \/ CListen(c),
               UNCHANGED cast
        PROVE  CastInv'
    BY <1>2, <1>6, TalkingKeepsServer DEF Talking, vars
  <1> QED
    <2>1. CASE UNCHANGED cVars
      BY <1>2, <2>1 DEF cVars, kVars, vars, chatVars
    <2>2. ASSUME NEW c \in User, CGoroutine(c) \/ Say(c) \/ CListen(c) PROVE CastInv'
      <3>1. CASE Say(c) \/ CListen(c)
        BY <1>6, <3>1 DEF Say, CListen, Hear, CAnswer, chatVars
      <3>2. CASE CGoroutine(c)
        BY <1>3, <1>4, <1>5, <1>6, <3>2
        DEF CGoroutine, KStep, Serving, Creates, Joins, chatVars
      <3> QED
        BY <2>2, <3>1, <3>2
    <2> QED
      BY <2>1, <2>2 DEF CNext
----------------------------------------------------------------------------
(* What is on its way.                                                     *)

(* A step that changes queues by what may be in them keeps them so.        *)
LEMMA QueuesKept ==
    ASSUME QueuesInv, admitted \subseteq admitted',
           NEW c \in User,
           \/ UNCHANGED inbox
           \/ \E d \in User : \E q \in Seq(Heard(d)) : inbox' = [inbox EXCEPT ![d] = q],
           \/ UNCHANGED outbox
           \/ \E q \in Seq(Replies \cup Utterances) : outbox' = [outbox EXCEPT ![c] = q],
           \/ UNCHANGED pending
           \/ \E q \in Seq([to : User, line : Line]) : pending' = [pending EXCEPT ![c] = q]
    PROVE  QueuesInv'
  <1>1. ASSUME NEW d \in User PROVE inbox'[d] \in Seq(Heard(d)')
    <2>1. inbox'[d] \in Seq(Heard(d))
      BY DEF QueuesInv
    <2>2. Heard(d) \subseteq Heard(d)'
      BY DEF Heard
    <2> QED
      BY <2>1, <2>2, SeqMonotonic
  <1>2. ASSUME NEW d \in User
        PROVE  /\ outbox'[d] \in Seq(Replies \cup Utterances)
               /\ pending'[d] \in Seq([to : User, line : Line])
    BY DEF QueuesInv
  <1>3. DOMAIN inbox' = User /\ DOMAIN outbox' = User /\ DOMAIN pending' = User
    BY DEF QueuesInv
  <1> QED
    BY <1>1, <1>2, <1>3 DEF QueuesInv

(* The server's part.                                                      *)
LEMMA ServerQueues ==
    ASSUME TypeOK, RoutingInv, CInv, admitted \subseteq admitted', NEW c \in User,
           Write(c) \/ Notify(c) \/ (~Speaks(c) /\ SendKey(c)) \/ ListNames(c) \/ Serving(c)
    PROVE  QueuesInv'
  <1>a. QueuesInv /\ ChatInv
    BY DEF CInv
  <1>b. ASSUME NEW d \in User, NEW line \in Line, WriteTo(c, d, line), UNCHANGED <<inbox, outbox>>
        PROVE  QueuesInv'
    <2>1. <<[to |-> d, line |-> line]>> \in Seq([to : User, line : Line])
      OBVIOUS
    <2> QED
      BY <1>a, <1>b, <2>1, QueuesKept DEF WriteTo
  <1>1. CASE Write(c)
    <2> DEFINE w == pending[c][1]
    <2>1. /\ w \in [to : User, line : Line]
          /\ Tail(pending[c]) \in Seq([to : User, line : Line])
      BY <1>a, <1>1, QueueFacts DEF Write, Busy, QueuesInv
    <2>2. w.to \in User /\ w.line \in Heard(w.to)
      BY <2>1, NotText DEF Heard
    <2>3. Append(inbox[w.to], w.line) \in Seq(Heard(w.to))
      BY <1>a, <2>2, QueueFacts DEF QueuesInv
    <2>4. \/ UNCHANGED inbox
          \/ inbox' = [inbox EXCEPT ![w.to] = Append(inbox[w.to], w.line)]
      BY <1>a, <1>1, <2>2 DEF Write, QueuesInv
    <2>5. pending' = [pending EXCEPT ![c] = Tail(pending[c])] /\ UNCHANGED outbox
      BY <1>a, <1>1 DEF Write, QueuesInv
    <2> HIDE DEF w
    <2> QED
      BY <1>a, <2>1, <2>2, <2>3, <2>4, <2>5, QueuesKept
  <1>2. CASE ~Speaks(c) /\ SendKey(c)
    <2>1. /\ Head(outbox[c]) \in Replies \cup Utterances
          /\ Tail(outbox[c]) \in Seq(Replies \cup Utterances)
      BY <1>a, <1>2, QueueFacts DEF SendKey, QueuesInv
    <2>2. Head(outbox[c]).line \in Line
      BY <1>2, <2>1, SaysFacts DEF Speaks, SendKey
    <2>3. UNCHANGED inbox /\ outbox' = [outbox EXCEPT ![c] = Tail(outbox[c])]
      BY <1>a, <1>2 DEF SendKey, QueuesInv
    <2>4. ASSUME NEW d \in User
          PROVE  <<[to |-> d, line |-> Head(outbox[c]).line]>> \in Seq([to : User, line : Line])
      BY <2>2
    <2>5. \/ UNCHANGED pending
          \/ \E d \in User :
                pending' = [pending EXCEPT ![c] = <<[to |-> d, line |-> Head(outbox[c]).line]>>]
      BY <1>a, <1>2 DEF SendKey, WriteTo, TypeOK
    <2> QED
      BY <1>a, <2>1, <2>3, <2>4, <2>5, QueuesKept
  <1>3. CASE ListNames(c)
    BY <1>b, <1>3, LineFacts DEF ListNames
  <1>4. CASE KCreateMem(c)
    <2>1. pc[c] = "created"
      BY <1>4 DEF KCreateMem, CreateMem, Goto
    <2>2. job[c].room \in Room
      BY <2>1 DEF RoutingInv, TypeOK, StorageTypeOK
    <2> QED
      BY <1>b, <1>4, <2>2, LineFacts DEF KCreateMem
  <1>5. CASE KJoinMem(c)
    <2>1. /\ UNCHANGED <<inbox, outbox>>
          /\ pending' = [pending EXCEPT ![c] = Asked(c) \o Told(c)]
      BY <1>5 DEF KJoinMem
    <2>2. Asked(c) = << >> \/ \E w \in [to : User, line : Line] : Asked(c) = <<w>>
      <3>1. job[c].peer \in DOMAIN sess => [to |-> job[c].peer, line |-> ReqFrom(c)] \in [to : User, line : Line]
        BY LineFacts DEF TypeOK
      <3> QED
        BY <3>1 DEF Asked
    <2>3. Told(c) = << >> \/ \E w \in [to : User, line : Line] : Told(c) = <<w>>
      <3>1. [to |-> c, line |-> Tale] \in [to : User, line : Line]
        BY LineFacts
      <3> QED
        BY <3>1 DEF Told
    <2>4. Asked(c) \o Told(c) \in Seq([to : User, line : Line])
      BY <2>2, <2>3, AtMostOne, ConcatProperties
    <2> QED
      BY <1>a, <2>1, <2>4, QueuesKept
  <1>6. CASE KHandOver(c)
    <2>1. \/ UNCHANGED <<inbox, outbox, pending>>
          \/ \E v \in User : WriteTo(c, v, Notice) /\ UNCHANGED <<inbox, outbox>>
      BY <1>6 DEF KHandOver, TypeOK
    <2> QED
      BY <1>a, <1>b, <2>1, LineFacts, QueuesKept
  <1>7. CASE Notify(c)
    <2> DEFINE v == pending[c][1].to
               T == [to : User, line : Line]
    <2>1. PICK order \in SetToSeqs(Notified(v)) :
             pending' = [pending EXCEPT ![c] = Tail(pending[c])
                            \o [i \in DOMAIN order |-> [to |-> order[i], line |-> Tale]]]
      BY <1>a, <1>7 DEF Notify, QueuesInv
    <2>2. \A u \in User : [to |-> u, line |-> Tale] \in T
      BY LineFacts
    <2>3. Tail(pending[c]) \in Seq(T)
      BY <1>a, <1>7, QueueFacts DEF Notify, Notifies, Busy, QueuesInv
    <2> HIDE DEF v
    <2> DEFINE q == [i \in DOMAIN order |-> [to |-> order[i], line |-> Tale]]
    <2>4. q \in Seq(T)
      BY <2>2, Notices DEF TypeOK
    <2>5. UNCHANGED <<inbox, outbox>>
      BY <1>7 DEF Notify
    <2> HIDE DEF q
    <2>6. Tail(pending[c]) \o q \in Seq(T)
      <3> HIDE DEF T
      <3> QED
        BY <2>3, <2>4, ConcatProperties
    <2> QED
      BY <1>a, <2>1, <2>5, <2>6, QueuesKept DEF q
  <1>8. CASE UNCHANGED <<inbox, outbox, pending>>
    BY <1>a, <1>8, QueuesKept
  <1> QED
    BY <1>1, <1>2, <1>3, <1>4, <1>5, <1>6, <1>7, <1>8
    DEF Serving, Other, Creates, Joins, KCreate, KJoin, keyVars

(* What is said, and what is broadcast.                                    *)
LEMMA TalkQueues ==
    ASSUME TypeOK, CInv, UNCHANGED admitted, NEW c \in User,
           Say(c) \/ Relay(c) \/ \E d \in User : CastTo(c, d)
    PROVE  QueuesInv'
  <1>a. QueuesInv /\ ChatInv /\ AdmittedInv /\ CastInv
    BY DEF CInv
  <1>1. CASE Say(c)
    <2>1. PICK word \in BOOLEAN :
             outbox' = [outbox EXCEPT ![c] = Append(outbox[c], Utterance(key[c], word, keyed[c]))]
      BY <1>a, <1>1 DEF Say, QueuesInv
    <2>2. Utterance(key[c], word, keyed[c]) \in Replies \cup Utterances
      BY <1>a DEF ChatInv, Utterances
    <2>3. Append(outbox[c], Utterance(key[c], word, keyed[c])) \in Seq(Replies \cup Utterances)
      BY <1>a, <2>2, QueueFacts DEF QueuesInv
    <2> QED
      BY <1>a, <1>1, <2>1, <2>3, QueuesKept DEF Say
  <1>2. CASE Relay(c)
    <2>1. Tail(outbox[c]) \in Seq(Replies \cup Utterances)
      BY <1>a, <1>2, QueueFacts DEF Relay, Speaks, QueuesInv
    <2>2. outbox' = [outbox EXCEPT ![c] = Tail(outbox[c])] /\ UNCHANGED <<inbox, pending>>
      BY <1>a, <1>2 DEF Relay, QueuesInv
    <2> QED
      BY <1>a, <2>1, <2>2, QueuesKept
  <1>3. ASSUME NEW d \in User, CastTo(c, d) PROVE QueuesInv'
    <2>1. PICK b \in User, to \in (SUBSET User) \ {{}}, line \in Texts :
             /\ cast = <<[by |-> b, line |-> line, to |-> to]>>
             /\ to \subseteq DOMAIN sess /\ \A e \in to : sess[e].room = line.room
      BY <1>a, <1>3 DEF CastTo, Casting, CastInv
    <2>2. cast[1].to = to /\ cast[1].line = line
      BY <2>1
    <2>3. d \in DOMAIN sess /\ sess[d].room = line.room
      BY <1>3, <2>1, <2>2 DEF CastTo
    <2>4. <<d, line.room>> \in admitted
      BY <1>a, <2>3, TextFacts, SentinelAssumption DEF AdmittedInv
    <2>5. line \in Heard(d)
      BY <2>4 DEF Heard
    <2>6. Append(inbox[d], line) \in Seq(Heard(d))
      BY <1>a, <2>5, QueueFacts DEF QueuesInv
    <2>7. /\ UNCHANGED inbox \/ inbox' = [inbox EXCEPT ![d] = Append(inbox[d], line)]
          /\ UNCHANGED <<outbox, pending>>
      BY <1>a, <1>3, <2>2 DEF CastTo, QueuesInv
    <2> QED
      BY <1>a, <2>6, <2>7, QueuesKept
  <1> QED
    BY <1>1, <1>2, <1>3

(* What the listeners do.                                                  *)
LEMMA ListenQueues ==
    ASSUME TypeOK, CInv, UNCHANGED admitted, NEW c \in User, CListen(c)
    PROVE  QueuesInv' /\ ChatInv'
  <1>a. QueuesInv /\ ChatInv /\ UNCHANGED <<pending, said>>
    BY DEF CInv, CListen, Hear, CAnswer, DrawKey, AnswerRequest, InstallKey, chatVars
  <1>1. ASSUME NEW line, Read(c, line)
        PROVE  \E q \in Seq(Heard(c)) : inbox' = [inbox EXCEPT ![c] = q]
    <2>1. inbox[c] \in Seq(Heard(c)) /\ inbox[c] # << >>
      BY <1>a, <1>1 DEF QueuesInv, Read
    <2>2. Tail(inbox[c]) \in Seq(Heard(c))
      BY <2>1, QueueFacts
    <2> QED
      BY <1>a, <1>1, <2>2 DEF Read, QueuesInv
  <1>2. CASE (Hear(c) \/ DrawKey(c) \/ InstallKey(c)) /\ UNCHANGED keyed
    <2>1. UNCHANGED outbox /\ \E line : Read(c, line)
      BY <1>2 DEF Hear, DrawKey, InstallKey
    <2>2. key' \in [User -> Key \cup {NoRoom}]
      BY <1>a, <1>2 DEF ChatInv, Hear, DrawKey, InstallKey, Key
    <2>3. QueuesInv'
      BY <1>a, <1>1, <2>1, QueuesKept
    <2> QED
      BY <1>a, <1>2, <2>2, <2>3 DEF ChatInv
  <1>3. CASE CAnswer(c)
    <2>1. PICK u \in User : Read(c, ReqFrom(u)) /\ outbox' = [outbox EXCEPT ![c] = Answer(c, u)]
      BY <1>3 DEF CAnswer, AnswerRequest
    <2>2. outbox[c] \in Seq(Replies \cup Utterances)
      BY <1>a DEF QueuesInv
    <2>3. Answer(c, u) \in Seq(Replies \cup Utterances)
      <3>1. CASE key[c] = NoRoom
        BY <2>2, <3>1 DEF Answer
      <3>2. CASE key[c] # NoRoom
        <4>1. key[c] \in Key /\ user[u].name \in UserName \cup {NoName}
          BY <1>a, <3>2 DEF ChatInv, TypeOK, Local
        <4>2. [target |-> user[u].name, line |-> Sealed(key[c], u)] \in Replies \cup Utterances
          BY <4>1, SealedFacts DEF Replies
        <4> QED
          BY <2>2, <3>2, <4>2, QueueFacts DEF Answer
      <3> QED
        BY <3>1, <3>2
    <2>4. Head(inbox[c]).user = u
      BY <2>1, LineFacts DEF Read
    <2>5. keyed' \in [User -> SUBSET User] /\ UNCHANGED key
      BY <1>a, <1>3, <2>4 DEF CAnswer, AnswerRequest, ChatInv
    <2>6. QueuesInv'
      BY <1>a, <1>1, <2>1, <2>3, QueuesKept
    <2> QED
      BY <1>a, <2>5, <2>6 DEF ChatInv
  <1> QED
    BY <1>2, <1>3 DEF CListen, Hear, chatVars
----------------------------------------------------------------------------
LEMMA ChatStep ==
    ASSUME IInv, CInv, [CNext]_cVars
    PROVE  CInv'
  <1>a. /\ TypeOK /\ SessionsInv /\ RoutingInv
        /\ ChatInv /\ QueuesInv /\ AdmittedInv /\ CastInv
    BY DEF IInv, CInv
  <1>b. admitted \subseteq admitted' /\ AdmittedInv' /\ CastInv'
    BY <1>a, AdmittedStep, CastStep
  <1>1. CASE UNCHANGED cVars
    <2>1. QueuesInv' /\ ChatInv'
      BY <1>a, <1>1 DEF QueuesInv, ChatInv, Heard, cVars, kVars, keyVars, chatVars
    <2> QED
      BY <1>b, <2>1 DEF CInv
  <1>2. ASSUME NEW c \in User, CListen(c) PROVE QueuesInv' /\ ChatInv'
    <2>1. UNCHANGED admitted
      BY <1>2, TalkingKeepsServer DEF Talking
    <2> QED
      BY <1>a, <1>2, <2>1, ListenQueues
  <1>3. ASSUME NEW c \in User, Say(c) \/ CGoroutine(c) PROVE ChatInv'
    <2>1. UNCHANGED <<key, keyed>> /\ (UNCHANGED said \/ (said < MaxSays /\ said' = said + 1))
      BY <1>3 DEF Say, CGoroutine, Write, Notify, CastTo, Relay, KStep, SendKey, KCreateMem, KJoinMem,
        KHandOver, ListNames, Other, KCreate, KJoin, HangUp, keyVars, chatVars
    <2> QED
      BY <1>a, <2>1, SaysAssumption DEF ChatInv
  <1>4. ASSUME NEW c \in User, Say(c) \/ Relay(c) \/ \E d \in User : CastTo(c, d)
        PROVE  QueuesInv'
    <2>1. UNCHANGED admitted
      BY <1>4, TalkingKeepsServer DEF Talking
    <2> QED
      BY <1>a, <1>4, <2>1, TalkQueues
  <1>5. ASSUME NEW c \in User,
               Write(c) \/ Notify(c) \/ (~Speaks(c) /\ SendKey(c)) \/ ListNames(c) \/ Serving(c)
        PROVE  QueuesInv'
    BY <1>a, <1>b, <1>5, ServerQueues
  <1>6. ASSUME NEW c \in User, CGoroutine(c) PROVE QueuesInv'
    BY <1>4, <1>5, <1>6 DEF CGoroutine, KStep, Serving, Creates, Joins
  <1> QED
    BY <1>b, <1>1, <1>2, <1>3, <1>4, <1>6 DEF CInv, CNext

THEOREM ChatInvariant == CSpec => [](IInv /\ CInv)
  <1>1. CInit => IInv /\ CInv
    BY InitInv, CInitInv DEF CInit, KInit
  <1>2. IInv /\ CInv /\ [CNext]_cVars => (IInv /\ CInv)'
    BY NextInv, ChatStep, ChatServerStep
  <1> QED
    BY <1>1, <1>2, PTL DEF CSpec
----------------------------------------------------------------------------
(* What it implies.                                                        *)

(* Every variable of the chat keeps its shape.                             *)
THEOREM CTypeCorrect == CSpec => []CTypeOK
  <1>1. ASSUME IInv, CInv PROVE CTypeOK
    <2>1. TypeOK /\ ChatInv /\ QueuesInv /\ CastInv
      BY <1>1 DEF IInv, CInv
    <2>2. ASSUME NEW c \in User, NEW i \in DOMAIN inbox[c]
          PROVE  LET line == inbox[c][i]
                 IN  \/ line \in Line
                     \/ line.type = "text" /\ line.room \in Room /\ line.from \in User
      <3>1. inbox[c] \in Seq(Heard(c))
        BY <2>1 DEF QueuesInv
      <3>2. inbox[c][i] \in Heard(c)
        BY <2>2, <3>1
      <3> QED
        BY <3>2, TextFacts DEF Heard
    <2>3. Len(cast) <= 1 /\ (~Free => cast[1].to \in (SUBSET User) \ {{}})
      <3>1. CASE cast = << >>
        BY <3>1 DEF Free
      <3>2. ASSUME NEW b, NEW to \in (SUBSET User) \ {{}}, NEW line,
                   cast = <<[by |-> b, line |-> line, to |-> to]>>
            PROVE  Len(cast) = 1 /\ cast[1].to \in (SUBSET User) \ {{}}
        BY <3>2
      <3>3. cast # << >> => Len(cast) = 1 /\ cast[1].to \in (SUBSET User) \ {{}}
        BY <2>1, <3>2, Zenon DEF CastInv
      <3> QED
        BY <3>1, <3>3
    <2> QED
      BY <2>1, <2>2, <2>3 DEF ChatInv, CTypeOK
  <1> QED
    BY <1>1, ChatInvariant, PTL

(* What is said in a room is heard only by those once admitted to it       *)
(* (broadcast.go:22).                                                      *)
THEOREM HeardInTheRoom == CSpec => []HeardOnlyByAdmitted
  <1>1. ASSUME CInv PROVE HeardOnlyByAdmitted
    <2>1. ASSUME NEW c \in User, NEW i \in DOMAIN inbox[c], inbox[c][i].type = "text"
          PROVE  <<c, inbox[c][i].room>> \in admitted
      <3>1. inbox[c] \in Seq(Heard(c))
        BY <1>1 DEF CInv, QueuesInv
      <3>2. inbox[c][i] \in Heard(c)
        BY <2>1, <3>1
      <3> QED
        BY <2>1, <3>2 DEF Heard
    <2> QED
      BY <2>1 DEF HeardOnlyByAdmitted
  <1> QED
    BY <1>1, ChatInvariant, PTL

(* A broadcast writes to participants of its room down to its last write,  *)
(* but for the window of /leave-room (broadcast.go:14, commands.go:230).   *)
THEOREM AudienceStays == CSpec => []AudienceIsInTheRoom
  <1>1. ASSUME IInv, CInv PROVE AudienceIsInTheRoom
    <2>1. CASE cast = << >>
      BY <2>1 DEF AudienceIsInTheRoom
    <2>2. ASSUME NEW b \in User, NEW to \in (SUBSET User) \ {{}}, NEW line \in Texts,
                 cast = <<[by |-> b, line |-> line, to |-> to]>>,
                 to \subseteq DOMAIN sess, \A d \in to : sess[d].room = line.room
          PROVE  AudienceIsInTheRoom
      <3>1. \A d \in to : d \in Occupants(line.room) \/ pc[d] = "left"
        BY <1>1, <2>2, TextFacts, SentinelAssumption DEF IInv, RoutingInv, Occupants
      <3>2. \A i \in DOMAIN cast : cast[i].to = to /\ cast[i].line = line
        BY <2>2
      <3> QED
        BY <3>1, <3>2 DEF AudienceIsInTheRoom
    <2> QED
      BY <1>1, <2>1, <2>2 DEF CInv, CastInv
  <1> QED
    BY <1>1, ChatInvariant, PTL
=============================================================================
