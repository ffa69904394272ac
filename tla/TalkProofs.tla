----------------------------- MODULE TalkProofs -----------------------------
(***************************************************************************)
(* Why a key overtakes no text: what a speaker has sent a key for is, at   *)
(* any moment, ahead of everything it says afterwards.  The two take the   *)
(* same way (the speaker's socket, the goroutine that reads it, the        *)
(* receiver's socket), and the invariant follows the key along it.         *)
(***************************************************************************)
EXTENDS ChatProofs

----------------------------------------------------------------------------
(* Where the key of a speaker for somebody is.                             *)

(* A user keeps its name from OpenSession on, and once out of sv.Clients   *)
(* it stays out.                                                           *)
Settled(u) == pc[u] \notin {"absent", "register", "enlist"}
Received(u) == key[u] # NoRoom \/ (Settled(u) /\ ~Connected(u))

KeyLine(line, u) == line.type = "key" /\ line.user = u
AnswersTo(u) == {m \in Replies : KeyLine(m.line, u) /\ Settled(u) /\ m.target = user[u].name}

InPost(u) == \E i \in DOMAIN inbox[u] : KeyLine(inbox[u][i], u)
Delivered(u) == Received(u) \/ InPost(u)
UnderWay(s, u) == \E i \in DOMAIN pending[s] :
                     pending[s][i].to = u /\ KeyLine(pending[s][i].line, u)
Posted(s, u, n) == \E i \in 1..n : outbox[s][i] \in AnswersTo(u)

(* The key of s for u has passed the first n messages of s, or is one.     *)
OnItsWay(s, u, n) == Delivered(u) \/ UnderWay(s, u) \/ Posted(s, u, n)

(* The inductive invariant.  Requests are about users with a name; what a  *)
(* client sends through /sendKey is a key.                                 *)
AskedInv ==
    \A c \in User :
        /\ \A i \in DOMAIN inbox[c] :
              inbox[c][i].type = "req" => Settled(inbox[c][i].user)
        /\ \A i \in DOMAIN pending[c] :
              pending[c][i].line.type = "req" => Settled(pending[c][i].line.user)
        /\ \A i \in DOMAIN outbox[c] :
              "say" \notin DOMAIN outbox[c][i] => outbox[c][i].line.type = "key"

(* Whoever is said to have been sent a key has it, or will.                *)
KeyedInv == \A s \in User : \A u \in keyed[s] : OnItsWay(s, u, Len(outbox[s]))

(* A text meets its key at no point of the way.                            *)
SpokenInv ==
    \A s \in User : \A j \in DOMAIN outbox[s] :
        outbox[s][j] \in Utterances => \A u \in outbox[s][j].keyed : OnItsWay(s, u, j)
RelayedInv == cast # << >> => \A u \in cast[1].line.keyed : Delivered(u)
HeardInv ==
    \A c \in User : \A j \in DOMAIN inbox[c] :
        inbox[c][j].type = "text" /\ c \in inbox[c][j].keyed =>
            Received(c) \/ \E i \in 1..(j-1) : KeyLine(inbox[c][i], c)

TalkInv == AskedInv /\ KeyedInv /\ SpokenInv /\ RelayedInv /\ HeardInv

----------------------------------------------------------------------------
(* What a step does to the queues.                                         *)

(* A goroutine that has nothing to write decides what to write next.       *)
Posts(c) ==
    /\ pending[c] = << >>
    /\ \E q \in Seq([to : User, line : Line]) :
          /\ pending' = [pending EXCEPT ![c] = q]
          /\ \A i \in DOMAIN q : q[i].line.type = "req" => Settled(q[i].line.user)
    /\ UNCHANGED <<inbox, outbox, key, cast, keyed>>
Announces(c) ==
    /\ pending[c] # << >> /\ pending[c][1].line = Notice
    /\ \E q \in Seq([to : User, line : Line]) :
          /\ pending' = [pending EXCEPT ![c] = Tail(pending[c]) \o q]
          /\ \A i \in DOMAIN q : q[i].line.type # "req"
    /\ UNCHANGED <<inbox, outbox, key, cast, keyed>>
Relays(c) == ~Busy(c) /\ Relay(c)
SendsKey(c) == ~Busy(c) /\ ~Speaks(c) /\ SendKey(c) /\ UNCHANGED chatVars

LEMMA ServingPosts ==
    ASSUME TypeOK, RoutingInv, QueuesInv, NEW c \in User, ~Busy(c),
           ListNames(c) \/ Serving(c), UNCHANGED chatVars
    PROVE  Posts(c) \/ UNCHANGED <<inbox, outbox, pending, key, cast, keyed>>
  <1>a. UNCHANGED <<cast, keyed>> /\ pending[c] = << >>
    BY DEF chatVars, Busy
  <1>b. ASSUME NEW d \in User, NEW line \in Line, line.type # "req", WriteTo(c, d, line),
               UNCHANGED <<inbox, outbox, key>>
        PROVE  Posts(c)
    <2> DEFINE q == <<[to |-> d, line |-> line]>>
    <2>1. q \in Seq([to : User, line : Line]) /\ \A i \in DOMAIN q : q[i].line = line
      OBVIOUS
    <2>2. pending' = [pending EXCEPT ![c] = q]
      BY <1>b DEF WriteTo
    <2> HIDE DEF q
    <2> QED
      BY <1>a, <1>b, <2>1, <2>2 DEF Posts
  <1>1. CASE ListNames(c)
    <2>1. Tale.type # "req"
      BY DEF Tale
    <2> QED
      BY <1>b, <1>1, <2>1, LineFacts DEF ListNames
  <1>2. CASE KCreateMem(c)
    <2>1. pc[c] = "created"
      BY <1>2 DEF KCreateMem, CreateMem, Goto
    <2>2. job[c].room \in Room
      BY <2>1 DEF RoutingInv, TypeOK, StorageTypeOK
    <2>3. Created(job[c].room).type # "req"
      BY DEF Created
    <2> QED
      BY <1>b, <1>2, <2>2, <2>3, LineFacts DEF KCreateMem
  <1>3. CASE KJoinMem(c)
    <2>1. /\ UNCHANGED <<inbox, outbox, key>>
          /\ pending' = [pending EXCEPT ![c] = Asked(c) \o Told(c)]
          /\ Settled(c)
      BY <1>3 DEF KJoinMem, JoinMem, Goto, Settled
    <2> DEFINE W == {w \in [to : User, line : Line] :
                        w.line.type = "req" => Settled(w.line.user)}
    <2>2. Asked(c) = << >> \/ \E w \in W : Asked(c) = <<w>>
      <3>1. job[c].peer \in DOMAIN sess => [to |-> job[c].peer, line |-> ReqFrom(c)] \in W
        BY <2>1, LineFacts DEF TypeOK
      <3> QED
        BY <3>1 DEF Asked
    <2>3. Told(c) = << >> \/ \E w \in W : Told(c) = <<w>>
      <3>1. [to |-> c, line |-> Tale] \in W
        BY LineFacts
      <3> QED
        BY <3>1 DEF Told
    <2>4. Asked(c) \o Told(c) \in Seq(W)
      BY <2>2, <2>3, AtMostOne, ConcatProperties
    <2>w. W \subseteq [to : User, line : Line]
      OBVIOUS
    <2>v. Seq(W) \subseteq Seq([to : User, line : Line])
      <3> HIDE DEF W
      <3> QED
        BY <2>w, SeqMonotonic
    <2>5. ASSUME NEW q \in Seq(W)
          PROVE  /\ q \in Seq([to : User, line : Line])
                 /\ \A i \in DOMAIN q : q[i].line.type = "req" => Settled(q[i].line.user)
      <3>1. \A i \in DOMAIN q : q[i] \in W
        OBVIOUS
      <3>2. q \in Seq([to : User, line : Line])
        BY <2>v
      <3> QED
        BY <3>1, <3>2
    <2> HIDE DEF W
    <2> QED
      BY <1>a, <2>1, <2>4, <2>5 DEF Posts
  <1>4. CASE KHandOver(c)
    <2>1. UNCHANGED <<inbox, outbox, key>>
      BY <1>4 DEF KHandOver
    <2>2. UNCHANGED pending \/ \E v \in User : WriteTo(c, v, Notice)
      BY <1>4 DEF KHandOver, TypeOK
    <2>3. Notice.type # "req"
      BY DEF Notice
    <2> QED
      BY <1>a, <1>b, <2>1, <2>2, <2>3, LineFacts
  <1>5. CASE UNCHANGED <<inbox, outbox, pending, key>>
    BY <1>a, <1>5
  <1> QED
    BY <1>1, <1>2, <1>3, <1>4, <1>5 DEF Serving, Other, Creates, Joins, KCreate, KJoin, keyVars

LEMMA NotifyAnnounces ==
    ASSUME TypeOK, QueuesInv, NEW c \in User, Notify(c), UNCHANGED chatVars
    PROVE  Announces(c)
  <1> DEFINE v == pending[c][1].to
             T == [to : User, line : Line]
  <1>1. PICK order \in SetToSeqs(Notified(v)) :
           pending' = [pending EXCEPT ![c] = Tail(pending[c])
                          \o [i \in DOMAIN order |-> [to |-> order[i], line |-> Tale]]]
    BY DEF Notify, QueuesInv
  <1>2. \A u \in User : [to |-> u, line |-> Tale] \in T
    BY LineFacts
  <1> HIDE DEF v
  <1> DEFINE q == [i \in DOMAIN order |-> [to |-> order[i], line |-> Tale]]
  <1>3. q \in Seq(T)
    BY <1>2, Notices DEF TypeOK
  <1>4. \A i \in DOMAIN q : q[i].line.type # "req"
    BY DEF Tale
  <1>5. pending' = [pending EXCEPT ![c] = Tail(pending[c]) \o q]
    BY <1>1
  <1>6. UNCHANGED <<inbox, outbox, key, cast, keyed>> /\ pending[c] # << >>
        /\ pending[c][1].line = Notice
    BY DEF Notify, Notifies, Busy, chatVars
  <1> HIDE DEF q
  <1> QED
    BY <1>3, <1>4, <1>5, <1>6 DEF Announces

LEMMA QueueSteps ==
    ASSUME TypeOK, RoutingInv, QueuesInv, [CNext]_cVars
    PROVE  \/ UNCHANGED <<inbox, outbox, pending, key, cast, keyed>>
           \/ \E c \in User :
                 \/ Posts(c)
                 \/ (Write(c) /\ UNCHANGED chatVars)
                 \/ Announces(c)
                 \/ Relays(c)
                 \/ SendsKey(c)
                 \/ Say(c) \/ CListen(c)
                 \/ \E d \in User : CastTo(c, d)
  <1>1. CASE UNCHANGED cVars
    BY <1>1 DEF cVars, kVars, keyVars, chatVars
  <1>2. ASSUME NEW c \in User, ~Busy(c), TakesMu(c) => Free, KStep(c), UNCHANGED chatVars
        PROVE  \/ Posts(c) \/ UNCHANGED <<inbox, outbox, pending, key, cast, keyed>>
               \/ SendsKey(c)
    BY <1>2, ServingPosts DEF KStep, Serving, Creates, Joins, SendsKey
  <1>3. ASSUME NEW c \in User, HangUp(c) /\ UNCHANGED <<keyVars, chatVars>>
        PROVE  UNCHANGED <<inbox, outbox, pending, key, cast, keyed>>
    BY <1>3 DEF keyVars, chatVars
  <1> QED
    BY <1>1, <1>2, <1>3, NotifyAnnounces DEF CNext, CGoroutine, Relays

----------------------------------------------------------------------------
(* What does not change any more.                                          *)

LEMMA SettledStays ==
    ASSUME TypeOK, SessionsInv, [Next]_vars, NEW u \in User, Settled(u)
    PROVE  /\ Settled(u)' /\ user'[u].name = user[u].name
           /\ ~Connected(u) => ~Connected(u)'
  <1>1. CASE Quiet
    BY <1>1 DEF Quiet, Settled, Connected
  <1>2. ASSUME NEW c \in User \ {u}, Request(c) \/ Work(c)
        PROVE  pc'[u] = pc[u] /\ user'[u] = user[u] /\ (u \in DOMAIN sess <=> u \in DOMAIN sess')
    BY <1>2, NonInterference DEF MemoryKept
  <1>3. CASE Request(u) \/ Work(u)
    <2>1. Settled(u)'
      <3>1. CASE Request(u)
        BY <1>3, <3>1 DEF TypeOK, Settled, Request, Accept, GiveUp, HangUp, Leave, Heir,
          Register, Create, Join, Goto
      <3>2. CASE Work(u)
        <4>1. Settled(u) /\ pc \in [User -> Idle \cup Working \cup {"register"}]
          BY DEF TypeOK
        <4> QED
          BY <3>2, <4>1 DEF Settled, Work, OpenSession, CreateMem, JoinMem, Select, HandOver,
            LeaveTx, AfterLeave, LeaveMem, Teardown, Purge, Goto
      <3> QED
        BY <1>3, <3>1, <3>2
    <2>2. user'[u].name = user[u].name
      <3>1. Settled(u) /\ user \in [User -> Local]
        BY DEF TypeOK
      <3>2. CASE Request(u)
        BY <3>1, <3>2 DEF Settled, Request, Accept, GiveUp, HangUp, Leave, Register, Create,
          Join, Goto
      <3>3. CASE Work(u)
        BY <3>1, <3>3 DEF Local, Work, OpenSession, CreateMem, JoinMem, Select, HandOver,
          LeaveTx, LeaveMem, Teardown, Purge
      <3> QED
        BY <1>3, <3>2, <3>3
    <2>3. ASSUME u \notin DOMAIN sess PROVE u \notin DOMAIN sess'
      <3>1. ~HasSession(u) /\ pc[u] \notin {"absent", "register", "enlist"}
        BY <2>3 DEF SessionsInv, Settled
      <3>2. CASE UNCHANGED sess
        BY <2>3, <3>2
      <3>3. CASE CreateMem(u) \/ LeaveMem(u)
        BY <3>1, <3>3 DEF CreateMem, LeaveMem, Goto, HasSession
      <3>4. CASE JoinMem(u) \/ OpenSession(u)
        BY <3>1, <3>4 DEF JoinMem, OpenSession, Goto, HasSession
      <3>5. CASE Teardown(u)
        BY <2>3, <3>5 DEF Teardown, Delete
      <3> QED
        BY <1>3, <3>2, <3>3, <3>4, <3>5 DEF Request, Work, Accept, GiveUp, HangUp, Leave,
          Register, Create, Join, Select, HandOver, LeaveTx, Purge
    <2> QED
      BY <2>1, <2>2, <2>3 DEF Connected
  <1> QED
    BY <1>1, <1>2, <1>3, StepKinds DEF Settled, Connected

(* A client that has a key keeps one.                                      *)
LEMMA ReceivedStays ==
    ASSUME TypeOK, SessionsInv, ChatInv, [CNext]_cVars, NEW u \in User, Received(u)
    PROVE  Received(u)'
  <1>1. ASSUME key[u] # NoRoom PROVE key'[u] # NoRoom
    <2>1. NoRoom \notin Key
      BY SentinelAssumption, KeyAssumption DEF Key
    <2>2. ASSUME NEW c \in User, Talking(c) \/ Serving(c)
          PROVE  UNCHANGED key \/ \E k \in Key : key' = [key EXCEPT ![c] = k]
      BY <2>2 DEF Talking, Write, Notify, Relay, SendKey, ListNames, Say, CListen, Hear, CAnswer,
        DrawKey, AnswerRequest, InstallKey, CastTo, Serving, Other, KCreateMem, KJoinMem,
        KHandOver, Creates, Joins, KCreate, KJoin, keyVars, Key
    <2> QED
      BY <1>1, <2>1, <2>2, Kinds DEF ChatInv, cVars, kVars, keyVars
  <1> QED
    BY <1>1, ChatServerStep, SettledStays DEF Received

(* An answer stays addressed to the one it is for.                         *)
LEMMA AnswersStay ==
    ASSUME TypeOK, SessionsInv, [CNext]_cVars, NEW u \in User
    PROVE  AnswersTo(u) \subseteq AnswersTo(u)'
  BY ChatServerStep, SettledStays DEF AnswersTo, Replies, KeyLine

(* Answers are no utterances.                                              *)
LEMMA AnswerFacts ==
    ASSUME NEW u \in User
    PROVE  /\ AnswersTo(u) \cap Utterances = {}
           /\ \A m \in AnswersTo(u) : /\ "say" \notin DOMAIN m
                                      /\ m.line \in Line /\ KeyLine(m.line, u)
                                      /\ Settled(u) /\ m.target = user[u].name
  BY SaysFacts DEF AnswersTo

(* An inbox grows at its end, or loses the line its client reads.          *)
LEMMA InboxSteps ==
    ASSUME TypeOK, QueuesInv, RoutingInv, [CNext]_cVars, NEW u \in User
    PROVE  \/ UNCHANGED inbox[u]
           \/ \E c \in User : /\ pending[c] # << >> /\ pending[c][1].to = u
                              /\ inbox'[u] = Append(inbox[u], pending[c][1].line)
           \/ /\ cast # << >> /\ inbox'[u] = Append(inbox[u], cast[1].line)
           \/ /\ CListen(u) /\ inbox[u] # << >> /\ inbox'[u] = Tail(inbox[u])
  <1>1. ASSUME NEW c \in User, Write(c)
        PROVE  \/ UNCHANGED inbox[u]
               \/ /\ pending[c] # << >> /\ pending[c][1].to = u
                  /\ inbox'[u] = Append(inbox[u], pending[c][1].line)
    BY <1>1 DEF Write, Busy, QueuesInv
  <1>2. ASSUME NEW c \in User, NEW d \in User, CastTo(c, d)
        PROVE  \/ UNCHANGED inbox[u]
               \/ cast # << >> /\ inbox'[u] = Append(inbox[u], cast[1].line)
    BY <1>2 DEF CastTo, Casting, QueuesInv
  <1>3. ASSUME NEW c \in User, CListen(c)
        PROVE  \/ UNCHANGED inbox[u]
               \/ c = u /\ inbox[u] # << >> /\ inbox'[u] = Tail(inbox[u])
    <2>1. ASSUME NEW line, Read(c, line)
          PROVE  \/ UNCHANGED inbox[u]
                 \/ c = u /\ inbox[u] # << >> /\ inbox'[u] = Tail(inbox[u])
      BY <2>1 DEF Read, QueuesInv
    <2>2. \E line : Read(c, line)
      BY <1>3 DEF CListen, Hear, CAnswer, DrawKey, AnswerRequest, InstallKey
    <2> QED
      BY <2>1, <2>2
  <1>4. ASSUME NEW c \in User, Posts(c) \/ Announces(c) \/ Relays(c) \/ SendsKey(c) \/ Say(c)
        PROVE  UNCHANGED inbox[u]
    BY <1>4 DEF Posts, Announces, Relays, Relay, SendsKey, SendKey, Say
  <1> QED
    BY <1>1, <1>2, <1>3, <1>4, QueueSteps

(* What a goroutine has to write, it writes before anything else.          *)
LEMMA PendingSteps ==
    ASSUME TypeOK, QueuesInv, RoutingInv, [CNext]_cVars, NEW s \in User
    PROVE  \/ UNCHANGED pending[s]
           \/ Posts(s) \/ Write(s) \/ Announces(s) \/ SendsKey(s)
  <1>1. ASSUME NEW c \in User, c # s, Posts(c) \/ Write(c) \/ Announces(c) \/ SendsKey(c)
        PROVE  UNCHANGED pending[s]
    BY <1>1 DEF Posts, Announces, Write, SendsKey, SendKey, WriteTo, QueuesInv
  <1>2. ASSUME NEW c \in User, Relays(c) \/ Say(c) \/ CListen(c) \/ \E d \in User : CastTo(c, d)
        PROVE  UNCHANGED pending[s]
    BY <1>2 DEF Relays, Relay, Say, CastTo, CListen, Hear, CAnswer, DrawKey, AnswerRequest,
      InstallKey
  <1> QED
    BY <1>1, <1>2, QueueSteps

(* An outbox grows at its end by what is said or by a key, or loses the    *)
(* message its goroutine reads.                                            *)
Adds(s) == \E m \in Utterances \cup Replies :
              /\ outbox'[s] = Append(outbox[s], m)
              /\ m \in Utterances => Say(s) /\ m.keyed = keyed[s]
              /\ m \in Replies => /\ CListen(s) /\ key[s] # NoRoom
                                  /\ \E u \in User : /\ m.line = Sealed(key[s], u)
                                                     /\ m.target = user[u].name
                                                     /\ Read(s, ReqFrom(u))
LEMMA OutboxSteps ==
    ASSUME TypeOK, QueuesInv, ChatInv, RoutingInv, [CNext]_cVars, NEW s \in User
    PROVE  \/ UNCHANGED outbox[s]
           \/ Adds(s)
           \/ /\ Relays(s) \/ SendsKey(s)
              /\ outbox[s] # << >> /\ outbox'[s] = Tail(outbox[s])
  <1>1. ASSUME NEW c \in User,
               Posts(c) \/ Write(c) \/ Announces(c) \/ \E d \in User : CastTo(c, d)
        PROVE  UNCHANGED outbox[s]
    BY <1>1 DEF Posts, Announces, Write, CastTo
  <1>2. ASSUME NEW c \in User, c # s, Relays(c) \/ SendsKey(c) \/ Say(c) \/ CListen(c)
        PROVE  UNCHANGED outbox[s]
    BY <1>2 DEF Relays, Relay, SendsKey, SendKey, Say, CListen, Hear, CAnswer, DrawKey,
      AnswerRequest, InstallKey, QueuesInv
  <1>3. ASSUME Relays(s) \/ SendsKey(s)
        PROVE  outbox[s] # << >> /\ outbox'[s] = Tail(outbox[s])
    BY <1>3 DEF Relays, Relay, Speaks, SendsKey, SendKey, QueuesInv
  <1>4. ASSUME Say(s) PROVE Adds(s)
    <2>1. PICK word \in BOOLEAN :
             outbox'[s] = Append(outbox[s], Utterance(key[s], word, keyed[s]))
      BY <1>4 DEF Say, QueuesInv
    <2> DEFINE m == Utterance(key[s], word, keyed[s])
    <2>2. m \in Utterances /\ m.keyed = keyed[s]
      <3>1. key[s] \in Key \cup {NoRoom} /\ keyed[s] \in SUBSET User
        BY DEF ChatInv
      <3>2. m \in Utterances
        BY <3>1 DEF Utterances
      <3> QED
        BY <3>2 DEF Utterance
    <2>3. m \notin Replies
      BY <2>2, SaysFacts
    <2> HIDE DEF m
    <2> QED
      BY <1>4, <2>1, <2>2, <2>3 DEF Adds, m
  <1>5. ASSUME CListen(s) PROVE UNCHANGED outbox[s] \/ Adds(s)
    <2>1. CASE UNCHANGED outbox
      BY <2>1
    <2>2. CASE AnswerRequest(s)
      <3>1. PICK u \in User : Read(s, ReqFrom(u)) /\ outbox'[s] = Answer(s, u)
        BY <2>2 DEF AnswerRequest, QueuesInv
      <3> DEFINE m == [target |-> user[u].name, line |-> Sealed(key[s], u)]
      <3>2. CASE key[s] # NoRoom
        <4>1. key[s] \in Key /\ user[u].name \in UserName \cup {NoName}
          BY <3>2 DEF ChatInv, TypeOK, Local
        <4>2. m \in Replies /\ m.line = Sealed(key[s], u) /\ m.target = user[u].name
          BY <4>1, SealedFacts DEF Replies
        <4>3. m \notin Utterances
          BY <4>2, SaysFacts
        <4>4. outbox'[s] = Append(outbox[s], m)
          BY <3>1, <3>2 DEF Answer
        <4> HIDE DEF m
        <4> QED
          BY <1>5, <3>1, <3>2, <4>2, <4>3, <4>4 DEF Adds
      <3> QED
        BY <3>1, <3>2 DEF Answer
    <2> QED
      BY <1>5, <2>1, <2>2 DEF CListen, Hear, CAnswer, DrawKey, InstallKey
  <1> QED
    BY <1>1, <1>2, <1>3, <1>4, <1>5, QueueSteps

----------------------------------------------------------------------------
(* A key is never lost on its way.                                         *)

(* The line a client reads that holds a key for it gives it one.           *)
LEMMA KeyLineRead ==
    ASSUME ChatInv, NEW u \in User, CListen(u), KeyLine(Head(inbox[u]), u)
    PROVE  key'[u] # NoRoom
  <1>1. NoRoom \notin Key
    BY SentinelAssumption, KeyAssumption DEF Key
  <1>2. ASSUME NEW line, Read(u, line) PROVE line.type = "key" /\ line.user = u
    BY <1>2 DEF Read, KeyLine
  <1>3. InstallKey(u)
    BY <1>2, LineFacts DEF CListen, Hear, CAnswer, DrawKey, AnswerRequest, Created
  <1>4. PICK k \in Key, v \in User :
           /\ Read(u, Sealed(k, v))
           /\ key' = IF Opens(u, v) THEN [key EXCEPT ![u] = k] ELSE key
    BY <1>3 DEF InstallKey
  <1>5. v = u
    BY <1>2, <1>4, SealedFacts
  <1> QED
    BY <1>1, <1>4, <1>5 DEF Opens, ChatInv

LEMMA DeliveredStays ==
    ASSUME TypeOK, SessionsInv, RoutingInv, QueuesInv, ChatInv, [CNext]_cVars,
           NEW u \in User, Delivered(u)
    PROVE  Delivered(u)'
  <1>1. CASE Received(u)
    BY <1>1, ReceivedStays DEF Delivered
  <1>2. ASSUME NEW i \in DOMAIN inbox[u], KeyLine(inbox[u][i], u)
        PROVE  Delivered(u)'
    <2>a. inbox[u] \in Seq(Heard(u))
      BY DEF QueuesInv
    <2>1. ASSUME NEW line, inbox'[u] = Append(inbox[u], line) PROVE InPost(u)'
      <3>1. i \in DOMAIN inbox'[u] /\ inbox'[u][i] = inbox[u][i]
        BY <1>2, <2>a, <2>1
      <3> QED
        BY <1>2, <3>1 DEF InPost, KeyLine
    <2>2. ASSUME CListen(u), inbox[u] # << >>, inbox'[u] = Tail(inbox[u])
          PROVE  Delivered(u)'
      <3>1. CASE i = 1
        BY <1>2, <2>2, <2>a, <3>1, KeyLineRead DEF Delivered, Received
      <3>2. CASE i # 1
        <4>1. i - 1 \in DOMAIN inbox'[u] /\ inbox'[u][i - 1] = inbox[u][i]
          BY <1>2, <2>2, <2>a, <3>2
        <4> QED
          BY <1>2, <4>1 DEF InPost, Delivered, KeyLine
      <3> QED
        BY <3>1, <3>2
    <2>3. CASE UNCHANGED inbox[u]
      BY <1>2, <2>3 DEF InPost, Delivered
    <2> QED
      BY <2>1, <2>2, <2>3, InboxSteps DEF Delivered
  <1> QED
    BY <1>1, <1>2 DEF Delivered, InPost

(* The relay of an answer finds the session it is for, or there is none.   *)
LEMMA AnswerRelayed ==
    ASSUME IInv, NEW s \in User, NEW u \in User, QueuesInv,
           SendsKey(s), Head(outbox[s]) \in AnswersTo(u)
    PROVE  UnderWay(s, u)' \/ Received(u)
  <1> DEFINE m == Head(outbox[s])
             targets == {d \in DOMAIN sess : sess[d].name = m.target}
  <1>1. m.line \in Line /\ KeyLine(m.line, u) /\ Settled(u) /\ m.target = user[u].name
    BY AnswerFacts
  <1>2. TypeOK /\ NamesInv /\ UniqueSessionNames
    BY DEF IInv, NamesInv, Registered, UniqueSessionNames, TypeOK
  <1>3. targets = {} => ~Connected(u)
    BY <1>1, <1>2 DEF NamesInv, Connected
  <1>4. ASSUME NEW d \in targets PROVE Connected(u) => d = u
    BY <1>1, <1>2 DEF NamesInv, Connected, UniqueSessionNames
  <1>5. CASE targets = {} \/ ~Connected(u)
    BY <1>1, <1>3, <1>5 DEF Received
  <1>6. ASSUME targets # {}, Connected(u) PROVE UnderWay(s, u)'
    <2>1. WriteTo(s, u, m.line)
      BY <1>4, <1>6 DEF SendsKey, SendKey
    <2>2. pending'[s] = <<[to |-> u, line |-> m.line]>>
      BY <2>1 DEF WriteTo, QueuesInv
    <2>3. 1 \in DOMAIN pending'[s] /\ pending'[s][1] = [to |-> u, line |-> m.line]
      BY <2>2
    <2> QED
      BY <1>1, <2>3 DEF UnderWay, KeyLine
  <1> QED
    BY <1>5, <1>6

(* A write is under way until it is done, or fails for want of a reader.   *)
LEMMA UnderWayStays ==
    ASSUME TypeOK, SessionsInv, RoutingInv, QueuesInv, ChatInv, [CNext]_cVars,
           NEW s \in User, NEW u \in User, UnderWay(s, u)
    PROVE  UnderWay(s, u)' \/ Delivered(u)'
  <1>a. pending[s] \in Seq([to : User, line : Line]) /\ inbox[u] \in Seq(Heard(u))
    BY DEF QueuesInv
  <1>1. PICK i \in DOMAIN pending[s] :
           pending[s][i].to = u /\ KeyLine(pending[s][i].line, u)
    BY DEF UnderWay
  <1>2. pending[s] # << >>
    BY <1>a, <1>1
  <1>3. CASE UNCHANGED pending[s]
    BY <1>1, <1>3 DEF UnderWay, KeyLine
  <1>4. CASE Write(s)
    <2>1. CASE i = 1
      <3>1. CASE pc[u] = "closed"
        <4>1. Received(u)
          BY <3>1 DEF SessionsInv, HasSession, Departing, Received, Settled, Connected
        <4> QED
          BY <4>1, ReceivedStays DEF Delivered
      <3>2. CASE pc[u] # "closed"
        <4>1. inbox'[u] = Append(inbox[u], pending[s][1].line)
          BY <1>1, <1>4, <2>1, <3>2 DEF Write, QueuesInv
        <4>2. /\ Len(inbox[u]) + 1 \in DOMAIN inbox'[u]
              /\ inbox'[u][Len(inbox[u]) + 1] = pending[s][1].line
          BY <1>a, <4>1
        <4> QED
          BY <1>1, <2>1, <4>2 DEF InPost, Delivered, KeyLine
      <3> QED
        BY <3>1, <3>2
    <2>2. CASE i # 1
      <3>1. pending'[s] = Tail(pending[s])
        BY <1>4 DEF Write, QueuesInv
      <3>2. i - 1 \in DOMAIN pending'[s] /\ pending'[s][i - 1] = pending[s][i]
        BY <1>a, <1>1, <2>2, <3>1
      <3> QED
        BY <1>1, <3>2 DEF UnderWay, KeyLine
    <2> QED
      BY <2>1, <2>2
  <1>5. CASE Announces(s)
    <2>1. PICK q \in Seq([to : User, line : Line]) : pending'[s] = Tail(pending[s]) \o q
      BY <1>5 DEF Announces, QueuesInv
    <2>2. i # 1
      BY <1>1, <1>5 DEF Announces, KeyLine, Notice
    <2>3. i - 1 \in DOMAIN pending'[s] /\ pending'[s][i - 1] = pending[s][i]
      BY <1>a, <1>1, <2>1, <2>2
    <2> QED
      BY <1>1, <2>3 DEF UnderWay, KeyLine
  <1> QED
    BY <1>2, <1>3, <1>4, <1>5, PendingSteps DEF Posts, SendsKey, Busy

(* A key that is ahead of a message stays ahead of it.                     *)
LEMMA WayStays ==
    ASSUME IInv, QueuesInv, ChatInv, [CNext]_cVars,
           NEW s \in User, NEW u \in User, NEW n \in 0..Len(outbox[s]), OnItsWay(s, u, n)
    PROVE  /\ UNCHANGED outbox[s] \/ Adds(s) => OnItsWay(s, u, n)'
           /\ /\ Relays(s) \/ SendsKey(s)
              /\ outbox[s] # << >> /\ outbox'[s] = Tail(outbox[s])
              => OnItsWay(s, u, n - 1)'
  <1>a. TypeOK /\ SessionsInv /\ RoutingInv
    BY DEF IInv
  <1>b. outbox[s] \in Seq(Replies \cup Utterances)
    BY DEF QueuesInv
  <1>1. CASE Delivered(u)
    BY <1>a, <1>1, DeliveredStays DEF OnItsWay
  <1>2. CASE UnderWay(s, u)
    BY <1>a, <1>2, UnderWayStays DEF OnItsWay
  <1>3. ASSUME NEW i \in 1..n, outbox[s][i] \in AnswersTo(u)
        PROVE  /\ UNCHANGED outbox[s] \/ Adds(s) => OnItsWay(s, u, n)'
               /\ /\ Relays(s) \/ SendsKey(s)
                  /\ outbox[s] # << >> /\ outbox'[s] = Tail(outbox[s])
                  => OnItsWay(s, u, n - 1)'
    <2>1. outbox[s][i] \in AnswersTo(u)'
      BY <1>a, <1>3, AnswersStay
    <2>2. ASSUME UNCHANGED outbox[s] \/ Adds(s) PROVE OnItsWay(s, u, n)'
      <3>1. outbox'[s][i] = outbox[s][i]
        BY <1>b, <1>3, <2>2 DEF Adds
      <3> QED
        BY <1>3, <2>1, <3>1 DEF OnItsWay, Posted
    <2>3. ASSUME Relays(s) \/ SendsKey(s), outbox[s] # << >>, outbox'[s] = Tail(outbox[s])
          PROVE  OnItsWay(s, u, n - 1)'
      <3>1. CASE i # 1
        <4>1. i - 1 \in 1..(n - 1) /\ outbox'[s][i - 1] = outbox[s][i]
          BY <1>b, <1>3, <2>3, <3>1
        <4> QED
          BY <2>1, <4>1 DEF OnItsWay, Posted
      <3>2. CASE i = 1
        <4>1. Head(outbox[s]) \in AnswersTo(u)
          BY <1>3, <2>3, <3>2
        <4>2. ~Speaks(s)
          BY <4>1, AnswerFacts DEF Speaks
        <4>3. SendsKey(s)
          BY <2>3, <4>2 DEF Relays, Relay
        <4>4. UnderWay(s, u)' \/ Received(u)
          BY <4>1, <4>3, AnswerRelayed
        <4> QED
          BY <1>a, <4>4, ReceivedStays DEF OnItsWay, Delivered
      <3> QED
        BY <3>1, <3>2
    <2> QED
      BY <2>2, <2>3
  <1> QED
    BY <1>1, <1>2, <1>3 DEF OnItsWay, Posted

----------------------------------------------------------------------------
(* The invariant, part by part.                                            *)

LEMMA WriteFacts ==
    ASSUME NEW q \in Seq([to : User, line : Line]), NEW i \in DOMAIN q
    PROVE  q[i].to \in User /\ q[i].line \in Line
  <1> DEFINE S == [to : User, line : Line]
  <1>1. ASSUME NEW T, NEW s \in Seq(T), NEW k \in DOMAIN s PROVE s[k] \in T
    BY <1>1
  <1>2. q[i] \in S
    <2> HIDE DEF S
    <2>1. q \in Seq(S)
      BY DEF S
    <2> QED
      BY <1>1, <2>1
  <1> QED
    BY <1>2

LEMMA AskedStep ==
    ASSUME IInv, QueuesInv, ChatInv, CastInv, AskedInv, [CNext]_cVars
    PROVE  AskedInv'
  <1>a. TypeOK /\ SessionsInv /\ RoutingInv
    BY DEF IInv
  <1>b. ASSUME NEW u \in User, Settled(u) PROVE Settled(u)'
    BY <1>a, <1>b, ChatServerStep, SettledStays
  <1>c. \A line \in Line : line.type = "req" => line.user \in User
    BY DEF Line, Created, ReqFrom, Sealed, Tale, Notice
  <1>1. ASSUME NEW c \in User, NEW i \in DOMAIN inbox'[c], inbox'[c][i].type = "req"
        PROVE  Settled(inbox[c][i].user)'
    <2>a. inbox[c] \in Seq(Heard(c))
      BY DEF QueuesInv
    <2>1. ASSUME NEW j \in DOMAIN inbox[c], inbox'[c][i] = inbox[c][j]
          PROVE  Settled(inbox[c][i].user)'
      <3>1. inbox[c][j] \in Line
        <4>1. inbox[c][j] \in Heard(c)
          BY <2>a
        <4> QED
          BY <1>1, <2>1, <4>1, TextFacts DEF Heard
      <3>2. Settled(inbox[c][j].user) /\ inbox[c][j].user \in User
        BY <1>1, <1>c, <2>1, <3>1 DEF AskedInv
      <3> QED
        BY <1>b, <2>1, <3>2 DEF Settled
    <2>2. ASSUME NEW line, inbox'[c] = Append(inbox[c], line)
          PROVE  (\E j \in DOMAIN inbox[c] : inbox'[c][i] = inbox[c][j]) \/ inbox'[c][i] = line
      BY <1>1, <2>a, <2>2
    <2>3. ASSUME NEW s \in User, pending[s] # << >>, inbox'[c][i] = pending[s][1].line
          PROVE  Settled(inbox[c][i].user)'
      <3>1. pending[s] \in Seq([to : User, line : Line])
        BY DEF QueuesInv
      <3>2. 1 \in DOMAIN pending[s] /\ pending[s][1].line \in Line
        <4>1. 1 \in DOMAIN pending[s]
          BY <2>3, <3>1
        <4> QED
          BY <3>1, <4>1, WriteFacts
      <3>3. Settled(pending[s][1].line.user) /\ pending[s][1].line.user \in User
        BY <1>1, <1>c, <2>3, <3>2 DEF AskedInv
      <3> QED
        BY <1>b, <2>3, <3>3 DEF Settled
    <2>4. ASSUME cast # << >> PROVE inbox'[c][i] # cast[1].line
      <3>1. cast[1].line.type = "text"
        BY <2>4, TextFacts DEF CastInv
      <3> QED
        BY <1>1, <3>1
    <2>5. ASSUME inbox[c] # << >>, inbox'[c] = Tail(inbox[c])
          PROVE  i + 1 \in DOMAIN inbox[c] /\ inbox'[c][i] = inbox[c][i + 1]
      BY <1>1, <2>a, <2>5
    <2>6. CASE UNCHANGED inbox[c]
      BY <1>1, <2>1, <2>6
    <2> QED
      BY <1>a, <2>1, <2>2, <2>3, <2>4, <2>5, <2>6, InboxSteps
  <1>2. ASSUME NEW c \in User, NEW i \in DOMAIN pending'[c], pending'[c][i].line.type = "req"
        PROVE  Settled(pending[c][i].line.user)'
    <2>a. pending[c] \in Seq([to : User, line : Line])
      BY DEF QueuesInv
    <2>1. ASSUME NEW j \in DOMAIN pending[c], pending'[c][i] = pending[c][j]
          PROVE  Settled(pending[c][i].line.user)'
      <3>1. pending[c][j].line \in Line
        BY <2>a, WriteFacts
      <3>2. Settled(pending[c][j].line.user) /\ pending[c][j].line.user \in User
        BY <1>2, <1>c, <2>1, <3>1 DEF AskedInv
      <3> QED
        BY <1>b, <2>1, <3>2 DEF Settled
    <2>2. CASE UNCHANGED pending[c]
      BY <1>2, <2>1, <2>2
    <2>3. CASE Write(c)
      <3>1. pending[c] # << >> /\ pending'[c] = Tail(pending[c])
        BY <2>3 DEF Write, Busy, QueuesInv
      <3>2. i + 1 \in DOMAIN pending[c] /\ pending'[c][i] = pending[c][i + 1]
        BY <1>2, <2>a, <3>1
      <3> QED
        BY <2>1, <3>2
    <2>4. CASE Posts(c)
      <3>1. PICK q \in Seq([to : User, line : Line]) :
               /\ pending'[c] = q
               /\ \A k \in DOMAIN q : q[k].line.type = "req" => Settled(q[k].line.user)
        BY <2>4 DEF Posts, QueuesInv
      <3>2. q[i].line \in Line /\ Settled(q[i].line.user)
        BY <1>2, <3>1, WriteFacts
      <3> QED
        BY <1>b, <1>c, <1>2, <3>1, <3>2 DEF Settled
    <2>5. CASE SendsKey(c)
      <3> DEFINE m == Head(outbox[c])
      <3>1. /\ outbox[c] # << >> /\ "say" \notin DOMAIN m
            /\ outbox[c] \in Seq(Replies \cup Utterances)
        BY <2>5 DEF SendsKey, SendKey, Speaks, QueuesInv
      <3>2. m.line.type = "key"
        BY <3>1 DEF AskedInv
      <3>3. \/ UNCHANGED pending[c]
            \/ \E d \in User : pending'[c] = <<[to |-> d, line |-> m.line]>>
        BY <1>a, <2>5 DEF SendsKey, SendKey, WriteTo, QueuesInv, TypeOK
      <3>4. ASSUME NEW d, pending'[c] = <<[to |-> d, line |-> m.line]>>
            PROVE  pending'[c][i].line = m.line
        BY <1>2, <3>4
      <3> QED
        BY <1>2, <2>2, <3>2, <3>3, <3>4
    <2>6. CASE Announces(c)
      <3>1. PICK q \in Seq([to : User, line : Line]) :
               /\ pending[c] # << >> /\ pending'[c] = Tail(pending[c]) \o q
               /\ \A k \in DOMAIN q : q[k].line.type # "req"
        BY <2>6 DEF Announces, QueuesInv
      <3>2. \/ i + 1 \in DOMAIN pending[c] /\ pending'[c][i] = pending[c][i + 1]
            \/ \E k \in DOMAIN q : pending'[c][i] = q[k]
        BY <1>2, <2>a, <3>1
      <3> QED
        BY <1>2, <2>1, <3>1, <3>2
    <2> QED
      BY <1>a, <2>2, <2>3, <2>4, <2>5, <2>6, PendingSteps
  <1>3. ASSUME NEW c \in User, NEW i \in DOMAIN outbox'[c], "say" \notin DOMAIN outbox'[c][i]
        PROVE  outbox'[c][i].line.type = "key"
    <2>a. outbox[c] \in Seq(Replies \cup Utterances)
      BY DEF QueuesInv
    <2>1. CASE UNCHANGED outbox[c]
      BY <1>3, <2>1 DEF AskedInv
    <2>2. ASSUME outbox[c] # << >>, outbox'[c] = Tail(outbox[c])
          PROVE  outbox'[c][i].line.type = "key"
      <3>1. i + 1 \in DOMAIN outbox[c] /\ outbox'[c][i] = outbox[c][i + 1]
        BY <1>3, <2>a, <2>2
      <3> QED
        BY <1>3, <3>1 DEF AskedInv
    <2>3. CASE Adds(c)
      <3>1. PICK m \in Utterances \cup Replies :
               /\ outbox'[c] = Append(outbox[c], m)
               /\ m \in Replies => \E u \in User : m.line = Sealed(key[c], u)
        BY <2>3 DEF Adds
      <3>2. (i \in DOMAIN outbox[c] /\ outbox'[c][i] = outbox[c][i]) \/ outbox'[c][i] = m
        BY <1>3, <2>a, <3>1
      <3>3. ASSUME m \in Replies PROVE m.line.type = "key"
        <4>1. PICK u \in User : m.line = Sealed(key[c], u)
          BY <3>1, <3>3
        <4> QED
          BY <4>1 DEF Sealed
      <3> QED
        BY <1>3, <3>1, <3>2, <3>3, SaysFacts DEF AskedInv
    <2> QED
      BY <1>a, <2>1, <2>2, <2>3, OutboxSteps
  <1> QED
    BY <1>1, <1>2, <1>3 DEF AskedInv

(* Every key a client says it has sent has left it, or is its last word.   *)
LEMMA KeyedStep ==
    ASSUME IInv, QueuesInv, ChatInv, AskedInv, KeyedInv, [CNext]_cVars
    PROVE  KeyedInv'
  <1>a. TypeOK /\ SessionsInv /\ RoutingInv
    BY DEF IInv
  <1> SUFFICES ASSUME NEW s \in User, NEW u \in keyed'[s]
               PROVE  OnItsWay(s, u, Len(outbox[s]))'
    BY DEF KeyedInv
  <1>b. outbox[s] \in Seq(Replies \cup Utterances) /\ keyed[s] \in SUBSET User
    BY DEF QueuesInv, ChatInv
  <1>1. CASE u \in keyed[s]
    <2> DEFINE n == Len(outbox[s])
    <2>1. u \in User /\ OnItsWay(s, u, n)
      BY <1>1, <1>b DEF KeyedInv
    <2>2. ASSUME NEW k, k = n PROVE k \in 0..Len(outbox[s]) /\ OnItsWay(s, u, k)
      BY <1>b, <2>1, <2>2
    <2>3. ASSUME NEW k, k = n, NEW l \in Nat, l = Len(outbox'[s]),
                 k <= l, OnItsWay(s, u, k)'
          PROVE  OnItsWay(s, u, Len(outbox[s]))'
      BY <1>b, <2>3 DEF OnItsWay, Posted
    <2>4. CASE UNCHANGED outbox[s] \/ Adds(s)
      <3>1. Len(outbox'[s]) \in Nat /\ n <= Len(outbox'[s])
        BY <1>b, <2>4 DEF Adds
      <3> QED
        BY <2>1, <2>2, <2>3, <2>4, <3>1, WayStays
    <2>5. CASE /\ Relays(s) \/ SendsKey(s)
               /\ outbox[s] # << >> /\ outbox'[s] = Tail(outbox[s])
      <3>1. n \in Nat \ {0} /\ Len(outbox'[s]) = n - 1
        BY <1>b, <2>5
      <3>2. ASSUME NEW k, k = n PROVE OnItsWay(s, u, k - 1)'
        BY <2>1, <2>2, <2>5, <3>2, WayStays
      <3> QED
        BY <3>1, <3>2 DEF OnItsWay, Posted
    <2> QED
      BY <1>a, <2>4, <2>5, OutboxSteps
  <1>2. CASE u \notin keyed[s]
    <2>1. CAnswer(s) /\ key[s] # NoRoom /\ u = Head(inbox[s]).user
      <3>1. ASSUME NEW c \in User, Posts(c) \/ (Write(c) /\ UNCHANGED chatVars) \/ Relays(c)
                      \/ Announces(c) \/ SendsKey(c) \/ Say(c) \/ \E d \in User : CastTo(c, d)
            PROVE  UNCHANGED keyed
        BY <3>1 DEF Posts, Announces, chatVars, Relays, Relay, SendsKey, Say, CastTo
      <3>2. ASSUME NEW c \in User, CListen(c)
            PROVE  UNCHANGED keyed \/ (CAnswer(c) /\ key[c] # NoRoom
                      /\ keyed' = [keyed EXCEPT ![c] = @ \cup {Head(inbox[c]).user}])
        BY <3>2 DEF CListen, Hear, CAnswer, chatVars
      <3> QED
        BY <1>a, <1>2, <3>1, <3>2, QueueSteps DEF ChatInv
    <2>2. PICK v \in User : /\ Read(s, ReqFrom(v))
                            /\ outbox' = [outbox EXCEPT ![s] = Answer(s, v)]
      BY <2>1 DEF CAnswer, AnswerRequest
    <2>3. v = u
      BY <2>1, <2>2, LineFacts DEF Read
    <2>4. Settled(u)
      <3>1. inbox[s] \in Seq(Heard(s)) /\ inbox[s] # << >>
        BY <2>2 DEF QueuesInv, Read
      <3>2. 1 \in DOMAIN inbox[s] /\ inbox[s][1] = ReqFrom(u)
        BY <2>2, <2>3, <3>1 DEF Read
      <3> QED
        BY <2>3, <3>2, LineFacts DEF AskedInv
    <2> DEFINE m == [target |-> user[u].name, line |-> Sealed(key[s], u)]
    <2>5. m \in AnswersTo(u)
      <3>1. key[s] \in Key /\ user[u].name \in UserName \cup {NoName}
        BY <2>1, <2>3, <1>a DEF ChatInv, TypeOK, Local
      <3>2. m \in Replies /\ KeyLine(m.line, u)
        BY <2>3, <3>1, SealedFacts DEF Replies, KeyLine
      <3> QED
        BY <2>4, <3>2 DEF AnswersTo
    <2>6. m \in AnswersTo(u)'
      BY <1>a, <2>3, <2>5, AnswersStay
    <2>7. outbox'[s] = Append(outbox[s], m)
      BY <2>1, <2>2, <2>3 DEF Answer, QueuesInv
    <2>8. Len(outbox'[s]) \in 1..Len(outbox'[s]) /\ outbox'[s][Len(outbox'[s])] = m
      <3> HIDE DEF m
      <3> QED
        BY <1>b, <2>7
    <2> QED
      BY <2>6, <2>8 DEF OnItsWay, Posted
  <1> QED
    BY <1>1, <1>2

(* What is said comes after every key sent before it.                      *)
LEMMA SpokenStep ==
    ASSUME IInv, QueuesInv, ChatInv, KeyedInv, SpokenInv, [CNext]_cVars
    PROVE  SpokenInv'
  <1>a. TypeOK /\ SessionsInv /\ RoutingInv
    BY DEF IInv
  <1> SUFFICES ASSUME NEW s \in User, NEW j \in DOMAIN outbox'[s],
                      outbox'[s][j] \in Utterances, NEW u \in outbox'[s][j].keyed
               PROVE  OnItsWay(s, u, j)'
    BY DEF SpokenInv, Utterances
  <1>b. outbox[s] \in Seq(Replies \cup Utterances)
    BY DEF QueuesInv
  <1>c. \A m \in Utterances : m.keyed \subseteq User
    BY DEF Utterances, Utterance
  <1>1. ASSUME j \in DOMAIN outbox[s], outbox'[s][j] = outbox[s][j],
               UNCHANGED outbox[s] \/ Adds(s)
        PROVE  OnItsWay(s, u, j)'
    <2>1. j \in 0..Len(outbox[s]) /\ OnItsWay(s, u, j) /\ u \in User
      BY <1>b, <1>c, <1>1 DEF SpokenInv
    <2> QED
      BY <1>1, <2>1, WayStays
  <1>2. CASE Adds(s)
    <2>1. PICK m \in Utterances \cup Replies :
             /\ outbox'[s] = Append(outbox[s], m)
             /\ m \in Utterances => m.keyed = keyed[s]
      BY <1>2 DEF Adds
    <2>2. \/ j \in DOMAIN outbox[s] /\ outbox'[s][j] = outbox[s][j]
          \/ j = Len(outbox[s]) + 1 /\ outbox'[s][j] = m
      BY <1>b, <2>1
    <2>3. CASE j = Len(outbox[s]) + 1 /\ outbox'[s][j] = m
      <3>1. u \in User /\ OnItsWay(s, u, Len(outbox[s]))
        BY <1>c, <2>1, <2>3 DEF KeyedInv
      <3>2. Len(outbox[s]) \in Nat
        BY <1>b
      <3>3. ASSUME NEW k, k = Len(outbox[s]) PROVE OnItsWay(s, u, k)'
        <4>1. k \in 0..Len(outbox[s]) /\ OnItsWay(s, u, k)
          BY <3>1, <3>2, <3>3
        <4> QED
          BY <1>2, <3>1, <4>1, WayStays
      <3> QED
        BY <2>3, <3>2, <3>3 DEF OnItsWay, Posted
    <2> QED
      BY <1>1, <1>2, <2>2, <2>3
  <1>3. CASE /\ Relays(s) \/ SendsKey(s)
             /\ outbox[s] # << >> /\ outbox'[s] = Tail(outbox[s])
    <2>1. j + 1 \in DOMAIN outbox[s] /\ outbox[s][j + 1] = outbox'[s][j] /\ j \in Nat
      BY <1>b, <1>3
    <2>2. j + 1 \in 0..Len(outbox[s]) /\ OnItsWay(s, u, j + 1) /\ u \in User
      BY <1>b, <1>c, <2>1 DEF SpokenInv
    <2>3. OnItsWay(s, u, (j + 1) - 1)'
      BY <1>3, <2>2, WayStays
    <2>4. (j + 1) - 1 = j
      BY <2>1
    <2> QED
      BY <2>3, <2>4
  <1> QED
    BY <1>a, <1>1, <1>2, <1>3, OutboxSteps

(* What the server takes up has left every key behind it with its reader.  *)
LEMMA RelayedStep ==
    ASSUME IInv, QueuesInv, ChatInv, CastInv, SpokenInv, RelayedInv, [CNext]_cVars
    PROVE  RelayedInv'
  <1>a. TypeOK /\ SessionsInv /\ RoutingInv
    BY DEF IInv
  <1>c. \A m \in Utterances : m.keyed \subseteq User
    BY DEF Utterances, Utterance
  <1> SUFFICES ASSUME cast' # << >>, NEW u \in cast'[1].line.keyed
               PROVE  Delivered(u)'
    BY DEF RelayedInv
  <1>1. CASE cast # << >> /\ cast'[1].line = cast[1].line
    <2>1. Delivered(u)
      BY <1>1 DEF RelayedInv
    <2>2. u \in User
      BY <1>1, <1>c DEF CastInv, Texts
    <2> QED
      BY <1>a, <2>1, <2>2, DeliveredStays
  <1>2. ASSUME NEW c \in User, NEW d \in User, CastTo(c, d)
        PROVE  cast # << >> /\ cast'[1].line = cast[1].line
    <2>1. PICK b \in User, to \in (SUBSET User) \ {{}}, line \in Texts :
             cast = <<[by |-> b, line |-> line, to |-> to]>>
      BY <1>2 DEF CastTo, Casting, CastInv
    <2>2. cast' = <<[cast[1] EXCEPT !.to = @ \ {d}]>>
      BY <1>2 DEF CastTo
    <2> QED
      BY <2>1, <2>2
  <1>3. ASSUME NEW c \in User, Relays(c), cast' # cast
        PROVE  Delivered(u)'
    <2> DEFINE m == Head(outbox[c])
    <2>1. cast'[1].line.keyed = m.keyed
      <3>1. cast' = <<[by |-> c, line |-> Text(c, m, sess[c].room),
                       to |-> Audience(c, sess[c].room)]>>
        BY <1>3 DEF Relays, Relay
      <3>2. cast'[1].line = Text(c, m, sess[c].room)
        BY <3>1
      <3> QED
        BY <3>2 DEF Text
    <2>2. /\ outbox[c] \in Seq(Replies \cup Utterances) /\ outbox[c] # << >>
          /\ "say" \in DOMAIN m
      BY <1>3 DEF Relays, Relay, Speaks, QueuesInv
    <2>3. 1 \in DOMAIN outbox[c] /\ outbox[c][1] = m /\ m \in Utterances
      BY <2>2, SaysFacts
    <2>4. OnItsWay(c, u, 1) /\ u \in User
      BY <1>c, <2>1, <2>3 DEF SpokenInv
    <2>5. ~Posted(c, u, 1)
      <3>1. m \notin AnswersTo(u)
        BY <2>3, <2>4, AnswerFacts
      <3> QED
        BY <2>3, <3>1 DEF Posted
    <2>6. ~UnderWay(c, u)
      BY <1>3 DEF Relays, Busy, UnderWay
    <2> QED
      BY <1>a, <2>4, <2>5, <2>6, DeliveredStays DEF OnItsWay
  <1>4. ASSUME NEW c \in User, Posts(c) \/ (Write(c) /\ UNCHANGED chatVars)
                  \/ Announces(c) \/ SendsKey(c) \/ Say(c) \/ CListen(c)
        PROVE  UNCHANGED cast
    BY <1>4 DEF Posts, Announces, chatVars, SendsKey, Say, CListen, Hear, CAnswer
  <1>5. CASE UNCHANGED cast
    BY <1>1, <1>5
  <1> QED
    BY <1>a, <1>1, <1>2, <1>3, <1>4, <1>5, QueueSteps

(* A text stands behind the key in the queue of whoever was sent one.      *)
LEMMA HeardStep ==
    ASSUME IInv, QueuesInv, ChatInv, RelayedInv, HeardInv, [CNext]_cVars
    PROVE  HeardInv'
  <1>a. TypeOK /\ SessionsInv /\ RoutingInv
    BY DEF IInv
  <1> SUFFICES ASSUME NEW c \in User, NEW j \in DOMAIN inbox'[c],
                      inbox'[c][j].type = "text", c \in inbox'[c][j].keyed
               PROVE  Received(c)' \/ \E i \in 1..(j-1) : KeyLine(inbox'[c][i], c)
    BY DEF HeardInv, KeyLine
  <1>b. inbox[c] \in Seq(Heard(c))
    BY DEF QueuesInv
  <1>c. Received(c) => Received(c)'
    BY <1>a, ReceivedStays
  <1>1. ASSUME j \in DOMAIN inbox[c],
               \A i \in 1..j : inbox'[c][i] = inbox[c][i]
        PROVE  Received(c)' \/ \E i \in 1..(j-1) : KeyLine(inbox'[c][i], c)
    <2>1. j \in 1..j
      BY <1>b, <1>1
    <2> QED
      BY <1>b, <1>c, <1>1, <2>1 DEF HeardInv
  <1>2. ASSUME NEW line, inbox'[c] = Append(inbox[c], line)
        PROVE  \/ j \in DOMAIN inbox[c] /\ \A i \in 1..j : inbox'[c][i] = inbox[c][i]
               \/ /\ inbox'[c][j] = line /\ j = Len(inbox[c]) + 1
                  /\ \A i \in DOMAIN inbox[c] : i \in 1..(j-1) /\ inbox'[c][i] = inbox[c][i]
    BY <1>b, <1>2
  <1>3. ASSUME NEW s \in User, pending[s] # << >>,
               inbox'[c] = Append(inbox[c], pending[s][1].line)
        PROVE  Received(c)' \/ \E i \in 1..(j-1) : KeyLine(inbox'[c][i], c)
    <2>1. pending[s] \in Seq([to : User, line : Line])
      BY DEF QueuesInv
    <2>2. 1 \in DOMAIN pending[s]
      BY <1>3, <2>1
    <2>3. pending[s][1].line \in Line
      BY <2>1, <2>2, WriteFacts
    <2> QED
      BY <1>1, <1>2, <1>3, <2>3, NotText
  <1>4. ASSUME cast # << >>, inbox'[c] = Append(inbox[c], cast[1].line)
        PROVE  Received(c)' \/ \E i \in 1..(j-1) : KeyLine(inbox'[c][i], c)
    <2>1. CASE /\ inbox'[c][j] = cast[1].line
               /\ \A i \in DOMAIN inbox[c] : i \in 1..(j-1) /\ inbox'[c][i] = inbox[c][i]
      <3>1. Delivered(c)
        BY <1>4, <2>1 DEF RelayedInv
      <3> QED
        BY <1>c, <2>1, <3>1 DEF Delivered, InPost
    <2> QED
      BY <1>1, <1>2, <1>4, <2>1
  <1>5. ASSUME CListen(c), inbox[c] # << >>, inbox'[c] = Tail(inbox[c])
        PROVE  Received(c)' \/ \E i \in 1..(j-1) : KeyLine(inbox'[c][i], c)
    <2>1. j + 1 \in DOMAIN inbox[c] /\ inbox'[c][j] = inbox[c][j + 1] /\ j \in Nat
      BY <1>b, <1>5
    <2>2. CASE Received(c)
      BY <1>c, <2>2
    <2>3. ASSUME NEW i \in 1..((j + 1) - 1), KeyLine(inbox[c][i], c)
          PROVE  Received(c)' \/ \E k \in 1..(j-1) : KeyLine(inbox'[c][k], c)
      <3>1. CASE i = 1
        BY <1>b, <1>5, <2>3, <3>1, KeyLineRead DEF Received
      <3>2. CASE i # 1
        <4>1. i - 1 \in 1..(j-1) /\ inbox'[c][i - 1] = inbox[c][i]
          BY <1>b, <1>5, <2>1, <2>3, <3>2
        <4> QED
          BY <2>3, <4>1
      <3> QED
        BY <3>1, <3>2
    <2> QED
      BY <2>1, <2>2, <2>3 DEF HeardInv
  <1>6. CASE UNCHANGED inbox[c]
    BY <1>b, <1>1, <1>6
  <1> QED
    BY <1>a, <1>3, <1>4, <1>5, <1>6, InboxSteps

----------------------------------------------------------------------------
LEMMA TalkInit == ASSUME CInit PROVE TalkInv
  <1>1. AskedInv
    BY DEF CInit, KInit, AskedInv
  <1>2. KeyedInv /\ SpokenInv /\ RelayedInv /\ HeardInv
    BY DEF CInit, KInit, KeyedInv, SpokenInv, RelayedInv, HeardInv
  <1> QED
    BY <1>1, <1>2 DEF TalkInv

LEMMA TalkStep ==
    ASSUME IInv, CInv, TalkInv, [CNext]_cVars PROVE TalkInv'
  BY AskedStep, KeyedStep, SpokenStep, RelayedStep, HeardStep DEF TalkInv, CInv

(* Wherever a key is, it is ahead of what its sender says afterwards.      *)
THEOREM TalkInvariant == CSpec => [](IInv /\ CInv /\ TalkInv)
  <1>1. CInit => IInv /\ CInv /\ TalkInv
    BY InitInv, CInitInv, TalkInit DEF CInit, KInit
  <1>2. IInv /\ CInv /\ TalkInv /\ [CNext]_cVars => (IInv /\ CInv /\ TalkInv)'
    BY NextInv, ChatStep, TalkStep, ChatServerStep
  <1> QED
    BY <1>1, <1>2, PTL DEF CSpec

(* Whoever was sent a key by a speaker has one when it reads what the      *)
(* speaker says afterwards (client.go:272, 147).                           *)
THEOREM KeyBeforeTalk == CSpec => []KeyPrecedesTalk
  <1>1. ASSUME CInv, TalkInv PROVE KeyPrecedesTalk
    <2>1. ASSUME NEW c \in User, Connected(c), inbox[c] # << >>,
                 Head(inbox[c]).type = "text", c \in Head(inbox[c]).keyed
          PROVE  key[c] # NoRoom
      <3>1. inbox[c] \in Seq(Heard(c))
        BY <1>1 DEF CInv, QueuesInv
      <3>2. 1 \in DOMAIN inbox[c] /\ inbox[c][1] = Head(inbox[c])
        BY <2>1, <3>1
      <3>3. Received(c) \/ \E i \in 1..(1 - 1) : KeyLine(inbox[c][i], c)
        BY <1>1, <2>1, <3>2 DEF TalkInv, HeardInv
      <3> QED
        BY <2>1, <3>3 DEF Received
    <2> QED
      BY <2>1 DEF KeyPrecedesTalk
  <1> QED
    BY <1>1, TalkInvariant, PTL
=============================================================================
